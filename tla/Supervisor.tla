----------------------------- MODULE Supervisor -----------------------------
(***************************************************************************)
(* supervise_command: one phase of one iteration runs in a systemd user    *)
(* scope of its own.  A supervisor polls the main process, a thread copies *)
(* its output within a budget, signals are noted by handlers that exist    *)
(* only while it polls, and the scope is emptied before the result is      *)
(* written.  A supervisor that is killed leaves its scope to the next      *)
(* attempt, which has the same unit name.                                  *)
(***************************************************************************)
EXTENDS Naturals

CONSTANTS
  MaxAttempts,  \* bound on the attempts at the phase
  MaxOutput,    \* max_output_bytes, in chunks
  MayKill,      \* SIGKILL of the supervisor
  MayFail,      \* systemctl may raise, or answer nothing
  MayStall      \* a copying thread may lag by more than two seconds

ASSUME SupervisorConstantsAssumption ==
  /\ MaxAttempts \in Nat \ {0} /\ MaxOutput \in Nat \ {0}
  /\ {MayKill, MayFail, MayStall} \subseteq BOOLEAN

VARIABLES
  attempt,   \* the number of supervisors started
  sup,       \* the supervisor
  scope,     \* the live processes of the unit: who, and of which attempt
  exit,      \* how the main process ended
  produced,  \* chunks written by the processes of this attempt
  captured,  \* chunks the copying thread accepted
  exceeded,  \* the output budget is exhausted, and the pipe closed
  stalled,   \* thread.join gave up on a copying thread, which is still alive
  late,      \* timeout_seconds have passed
  report,    \* the attempt whose output the report holds; 0 when none
  result,    \* <phase>-<iteration>-result.json
  signalled, \* history: a signal was noted while this attempt was polled
  unseen     \* history: the attempts whose final stop systemctl did not answer

stream == <<produced, captured, exceeded, stalled>>
files == <<report, result>>
history == <<signalled, unseen>>
vars == <<attempt, sup, scope, exit, stream, late, files, history>>

Processes == {"main", "child"}
NoResult == [state |-> "none", attempt |-> 0]
Ended == [pc |-> "ended", timedOut |-> FALSE, interrupted |-> FALSE,
          error |-> FALSE]

At(label) == sup.pc = label
Goto(label) == sup' = [sup EXCEPT !.pc = label]
Of(n) == {p \in scope : p.attempt = n}
Main == [who |-> "main", attempt |-> attempt]
Child == [who |-> "child", attempt |-> attempt]

Gone(stopped, code) ==
  /\ scope' = scope \ stopped
  /\ exit' = IF Main \in stopped THEN code ELSE exit

Init ==
  /\ attempt = 0
  /\ sup = Ended
  /\ scope = {}
  /\ exit = "none"
  /\ produced = 0 /\ captured = 0 /\ exceeded = FALSE /\ stalled = FALSE
  /\ late = FALSE
  /\ report = 0 /\ result = NoResult
  /\ signalled = FALSE /\ unseen = {}

-----------------------------------------------------------------------------
(* Start *)

NextAttempt ==
  /\ At("ended") /\ attempt < MaxAttempts
  /\ attempt' = attempt + 1
  /\ sup' = [Ended EXCEPT !.pc = "started"]
  /\ produced' = 0 /\ captured' = 0 /\ exceeded' = FALSE
  /\ stalled' = FALSE
  /\ late' = FALSE /\ signalled' = FALSE
  /\ UNCHANGED <<files, unseen>>

ScopeIgnored == TRUE   \* fault: every attempt has a unit of its own
ScopeFree == scope = {}

(* A unit that is still active is refused, by start_scoped_popen itself or *)
(* by systemd-run.                                                         *)
Start ==
  /\ NextAttempt
  /\ ScopeFree
  /\ scope' = scope \cup {[who |-> "main", attempt |-> attempt + 1]}
  /\ exit' = "none"

(* A systemctl that answers nothing reads like a unit that is not there:   *)
(* it is systemd-run that fails then, and counts as a short-lived command. *)
RefusedStart ==
  /\ MayFail /\ ~ScopeFree
  /\ NextAttempt
  /\ exit' = "failure"
  /\ UNCHANGED scope

(* The unit is never seen active: the main process is killed, and what it  *)
(* started before may be left when the scope cannot be stopped either.     *)
GiveUpStart ==
  /\ MayFail /\ At("started") /\ Main \in scope
  /\ \E left \in SUBSET (scope \ {Main}) : Gone(scope \ left, "failure")
  /\ sup' = Ended
  /\ UNCHANGED <<attempt, stream, late, files, history>>

InstallHandlers ==
  /\ At("started")
  /\ Goto("poll")
  /\ UNCHANGED <<attempt, scope, exit, stream, late, files, history>>

-----------------------------------------------------------------------------
(* The phase: external to the program *)

Fork ==
  /\ Main \in scope
  /\ scope' = scope \cup {Child}
  /\ UNCHANGED <<attempt, sup, exit, stream, late, files, history>>

Write ==
  /\ Of(attempt) # {} /\ ~exceeded
  /\ produced <= MaxOutput
  /\ produced' = produced + 1
  /\ UNCHANGED <<attempt, sup, scope, exit, captured, exceeded, stalled,
                 late, files, history>>

MainExits ==
  /\ Main \in scope
  /\ scope' = scope \ {Main}
  /\ exit' \in {"success", "failure"}
  /\ UNCHANGED <<attempt, sup, stream, late, files, history>>

OtherExits ==
  /\ \E p \in scope \ {Main} : scope' = scope \ {p}
  /\ UNCHANGED <<attempt, sup, exit, stream, late, files, history>>

TimePasses ==
  /\ ~late /\ late' = TRUE
  /\ UNCHANGED <<attempt, sup, scope, exit, stream, files, history>>

-----------------------------------------------------------------------------
(* The supervisor *)

WithinBudget == captured < MaxOutput

(* _copy_stream and _OutputBudget.accept *)
Copy ==
  /\ sup.pc \notin {"started", "report", "result", "ended"}
  /\ ~exceeded /\ captured < produced
  /\ IF WithinBudget
     THEN captured' = captured + 1 /\ UNCHANGED exceeded
     ELSE exceeded' = TRUE /\ UNCHANGED captured
  /\ UNCHANGED <<attempt, sup, scope, exit, produced, stalled, late, files,
                 history>>

(* A stalled thread of stdout and one of stderr still count one chunk, and *)
(* then fail to write it: a budget that is exceeded so may still be seen.  *)
CopyLate ==
  /\ At("report") \/ At("result")
  /\ stalled /\ ~exceeded
  /\ produced > MaxOutput /\ captured + 2 > MaxOutput
  /\ exceeded' = TRUE
  /\ UNCHANGED <<attempt, sup, scope, exit, produced, captured, stalled, late,
                 files, history>>

(* A handler notes the signal; elsewhere the signal ends the supervisor. *)
Signal ==
  /\ At("poll") \/ At("terminate") \/ At("kill") \/ At("wait")
  /\ sup' = [sup EXCEPT !.interrupted = TRUE]
  /\ signalled' = TRUE
  /\ UNCHANGED <<attempt, scope, exit, stream, late, files, unseen>>

NeverLate == FALSE   \* fault: the timeout is not enforced
TimedOut == late /\ ~sup.interrupted /\ ~exceeded

(* The loop ends when the process did, on a signal, a limit or the timeout. *)
Poll ==
  /\ At("poll")
  /\ \/ Main \notin scope /\ Goto("wait")
     \/ /\ Main \in scope
        /\ sup.interrupted \/ exceeded
        /\ Goto("terminate")
     \/ /\ Main \in scope /\ TimedOut
        /\ sup' = [sup EXCEPT !.pc = "terminate", !.timedOut = TRUE]
  /\ UNCHANGED <<attempt, scope, exit, stream, late, files, history>>

(***************************************************************************)
(* stop_user_scope: SIGTERM, which processes may heed, survive, or answer  *)
(* with an exit of their own, then SIGKILL, until the control group of the *)
(* unit is empty.  A systemctl that cannot run, or fails while the unit is *)
(* known, raises, and the error is raised again after the final attempt.   *)
(***************************************************************************)
Stopping(label) == IF label \in {"terminate", "kill"} THEN "wait" ELSE "join"

Terminate ==
  /\ At("terminate") \/ At("finalTerminate")
  /\ \E heeding \in SUBSET scope, code \in {"success", "failure"} :
       Gone(heeding, code)
  /\ Goto(IF At("terminate") THEN "kill" ELSE "finalKill")
  /\ UNCHANGED <<attempt, stream, late, files, history>>

KillScope ==
  /\ At("kill") \/ At("finalKill")
  /\ Gone(scope, "failure")
  /\ Goto(Stopping(sup.pc))
  /\ UNCHANGED <<attempt, stream, late, files, history>>

StopFails ==
  /\ MayFail
  /\ \/ /\ At("terminate") \/ At("kill")
        /\ sup' = [sup EXCEPT !.pc = "finalTerminate", !.error = TRUE]
     \/ /\ At("finalTerminate") \/ At("finalKill")
        /\ sup' = Ended
  /\ UNCHANGED <<attempt, scope, exit, stream, late, files, history>>

(***************************************************************************)
(* "systemctl show" that fails without output is read as "no such unit":   *)
(* no control group is known, and cgroup_is_empty(None) holds.  Whatever   *)
(* of the scope the signals did not reach is left, and stop_user_scope     *)
(* returns; _reap_scope then waits for the main process, or kills it.      *)
(***************************************************************************)
StopUnanswered ==
  /\ MayFail
  /\ At("terminate") \/ At("finalTerminate")
  /\ \E left \in SUBSET (scope \ {Main}), code \in {"success", "failure"} :
       Gone(scope \ left, code)
  /\ Goto(Stopping(sup.pc))
  /\ unseen' = IF At("terminate") THEN unseen ELSE unseen \cup {attempt}
  /\ UNCHANGED <<attempt, stream, late, files, signalled>>

(* process.wait(), and the handlers are restored. *)
OnlyAfterTimeout ==   \* fault: a phase that ended by itself is not reaped
  Goto(IF sup.timedOut THEN "finalTerminate" ELSE "join")
FinalReap == Goto("finalTerminate")

Wait ==
  /\ At("wait") /\ Main \notin scope
  /\ FinalReap
  /\ UNCHANGED <<attempt, scope, exit, stream, late, files, history>>

(***************************************************************************)
(* The copying threads reach the end of their pipes, or thread.join gives  *)
(* up after two seconds and the files are closed under them.  A process    *)
(* that was left keeps its pipe open.                                      *)
(***************************************************************************)
Join ==
  /\ At("join")
  /\ stalled' = (~exceeded /\ (captured # produced \/ Of(attempt) # {}))
  /\ stalled' => MayStall \/ Of(attempt) # {}
  /\ IF sup.error THEN sup' = Ended ELSE Goto("report")
  /\ UNCHANGED <<attempt, scope, exit, produced, captured, exceeded, late,
                 files, history>>

WriteReport ==
  /\ At("report")
  /\ report' = attempt
  /\ Goto("result")
  /\ UNCHANGED <<attempt, scope, exit, stream, late, result, history>>

ExitCodeFirst(limit) ==   \* fault: a clean exit hides what else happened
  IF exit = "success" THEN "completed"
  ELSE IF sup.timedOut THEN "timeout" ELSE "failed"
State(limit) ==
  IF sup.timedOut THEN "timeout"
  ELSE IF sup.interrupted THEN "interrupted"
  ELSE IF exceeded \/ limit THEN "resource_limit"
  ELSE IF exit = "success" THEN "completed" ELSE "failed"

(* "limit": the artifacts of the run exceed their limits. *)
WriteResult ==
  /\ At("result")
  /\ \E limit \in BOOLEAN :
       result' = [state |-> State(limit), attempt |-> attempt]
  /\ sup' = Ended
  /\ UNCHANGED <<attempt, scope, exit, stream, late, report, history>>

(* SIGKILL, or a signal that comes while no handler is installed. *)
Die ==
  /\ MayKill /\ ~At("ended")
  /\ sup' = Ended
  /\ UNCHANGED <<attempt, scope, exit, stream, late, files, history>>

-----------------------------------------------------------------------------
Supervise ==
  \/ InstallHandlers \/ Copy \/ CopyLate \/ Poll \/ Terminate \/ KillScope
  \/ Wait \/ Join \/ WriteReport \/ WriteResult

Systemctl == RefusedStart \/ GiveUpStart \/ StopFails \/ StopUnanswered

Phase == Fork \/ Write \/ MainExits \/ OtherExits

Next ==
  Start \/ Supervise \/ Systemctl \/ Phase \/ TimePasses \/ Signal \/ Die

Spec == Init /\ [][Next]_vars

(* Time passes and the supervisor runs; the phase may hang for ever. *)
FairSpec ==
  /\ Spec
  /\ WF_vars(TimePasses) /\ WF_vars(Copy)
  /\ WF_vars(InstallHandlers \/ Poll \/ Terminate \/ KillScope \/ Wait \/ Join
             \/ WriteReport \/ WriteResult)

-----------------------------------------------------------------------------
(* Properties *)

(* Every variable keeps its type; the budget bounds what is captured. *)
TypeOK ==
  /\ attempt \in 0..MaxAttempts
  /\ sup \in [pc : {"ended", "started", "poll", "terminate", "kill", "wait",
                    "finalTerminate", "finalKill", "join", "report", "result"},
              timedOut : BOOLEAN, interrupted : BOOLEAN, error : BOOLEAN]
  /\ scope \subseteq [who : Processes, attempt : 1..MaxAttempts]
  /\ exit \in {"none", "success", "failure"}
  /\ produced \in 0..MaxOutput + 1 /\ captured \in 0..MaxOutput
  /\ {exceeded, stalled, late, signalled} \subseteq BOOLEAN
  /\ report \in 0..MaxAttempts /\ unseen \subseteq 1..MaxAttempts
  /\ result \in [state : {"none", "completed", "failed", "timeout",
                          "interrupted", "resource_limit"},
                 attempt : 0..MaxAttempts]

(* No process of a phase is left when its report or result is written: the *)
(* loop reads a worktree and artifacts nobody of that phase still changes. *)
(* The one exception is a final stop that systemctl did not answer.        *)
NothingOutlivesReport ==
  report \notin unseen => \A p \in scope : p.attempt > report

(* systemd_scope.py:166 says that stop_user_scope proves the cgroup empty: *)
(* nobody is left when the final stop has returned.  The code keeps it if  *)
(* systemctl answers; FindUnansweredStop.cfg shows the stop it does not.   *)
StopProvesEmpty == sup.pc \in {"join", "report", "result"} => scope = {}

(* The same unit never holds processes of two attempts, although a killed  *)
(* supervisor, or a stop that was not answered, leaves processes running.  *)
OneAttemptAlive == \A p, q \in scope : p.attempt = q.attempt

(* "completed" means that the phase ended by itself with exit code 0, that *)
(* no signal was noted and that its output is within the budget; and that  *)
(* the report holds all of it, unless a copying thread was given up, which *)
(* nothing in the result tells.                                            *)
CompletedIsUndisturbed ==
  result.state = "completed" /\ result.attempt = attempt =>
    /\ exit = "success" /\ ~signalled
    /\ captured <= MaxOutput
    /\ report = attempt
    /\ ~stalled => captured = produced /\ ~exceeded

(* A supervisor ends, whether or not the phase, or its children, do. *)
SupervisorEnds == ~At("ended") ~> At("ended")
=============================================================================
