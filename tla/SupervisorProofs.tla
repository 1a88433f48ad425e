-------------------------- MODULE SupervisorProofs --------------------------
(***************************************************************************)
(* A phase is over when its report says so, unless systemctl left the last *)
(* stop unanswered; attempts never overlap, even then; and "completed"     *)
(* hides nothing, for any number of attempts and any output budget.        *)
(***************************************************************************)
EXTENDS Supervisor, TLAPS

USE SupervisorConstantsAssumption

Labels == {"ended", "started", "poll", "terminate", "kill", "wait",
           "finalTerminate", "finalKill", "join", "report", "result"}

Sups == [pc : Labels, timedOut : BOOLEAN, interrupted : BOOLEAN, error : BOOLEAN]

Typed ==
  /\ attempt \in Nat /\ report \in 0..attempt
  /\ sup \in Sups
  /\ exceeded \in BOOLEAN /\ stalled \in BOOLEAN /\ signalled \in BOOLEAN
  /\ captured \in 0..MaxOutput /\ produced \in Nat
  /\ result.attempt \in 0..attempt

(* Whoever is alive was started by an attempt, and all by the same.        *)
Started == \A p \in scope : p.attempt \in 1..attempt

(* The main process is gone from the final stop on, and the whole scope is *)
(* empty if systemctl answered; without the main process it stays so.      *)
Over == Main \notin scope /\ (attempt \notin unseen => scope = {})

Reaped ==
  /\ sup.pc \in {"join", "report", "result"} => Over
  /\ report = attempt => Over
  /\ sup.pc = "result" => report = attempt

SignalNoted == signalled /\ ~At("ended") => sup.interrupted

(* The copying threads are done, or given up; nobody of this attempt is    *)
(* left to write.                                                          *)
Joined ==
  sup.pc \in {"report", "result"} /\ ~stalled =>
    (captured = produced /\ Of(attempt) = {}) \/ exceeded

(* A result stands until the next attempt.                                 *)
ResultStands ==
  result.state = "completed" /\ result.attempt = attempt =>
    /\ At("ended") /\ report = attempt
    /\ ~stalled => Of(attempt) = {}

IInv ==
  /\ Typed /\ Started /\ OneAttemptAlive /\ Reaped /\ SignalNoted /\ Joined
  /\ ResultStands /\ NothingOutlivesReport /\ CompletedIsUndisturbed

-----------------------------------------------------------------------------
LEMMA EndedIsOver ==
  Ended \in Sups /\ Ended.pc = "ended" /\ Ended.interrupted = FALSE
BY DEF Ended, Sups, Labels

LEMMA GoesTo ==
  ASSUME sup \in Sups, NEW label \in Labels, Goto(label)
  PROVE  /\ sup' \in Sups /\ sup'.pc = label
         /\ sup'.interrupted = sup.interrupted
BY DEF Goto, Sups

LEMMA InitHolds == Init => IInv
<1>. SUFFICES ASSUME Init PROVE IInv
  OBVIOUS
<1>. USE EndedIsOver DEF Init, At
<1>1. result.state = "none" /\ result.attempt = 0
  BY DEF NoResult
<1>2. sup.pc = "ended" /\ sup \in Sups
  OBVIOUS
<1>3. Typed
  <2>1. exceeded \in BOOLEAN /\ stalled \in BOOLEAN /\ signalled \in BOOLEAN
    BY Zenon
  <2>. QED  BY <1>1, <1>2, <2>1 DEF Typed
<1>4. Started /\ OneAttemptAlive /\ Reaped /\ SignalNoted /\ Joined
  BY <1>2 DEF Started, OneAttemptAlive, Reaped, Over, SignalNoted, Joined
<1>5. ResultStands /\ NothingOutlivesReport /\ CompletedIsUndisturbed
  BY <1>1 DEF ResultStands, NothingOutlivesReport, CompletedIsUndisturbed
<1>. QED  BY <1>3, <1>4, <1>5 DEF IInv

(* A new attempt: either its main process is alone in the unit, or it is   *)
(* refused and the unit keeps what it holds.                               *)
LEMMA StartKeeps ==
  ASSUME IInv, Start \/ RefusedStart
  PROVE  IInv'
<1>. USE DEF NextAttempt, files, At
<1>0. NextAttempt
  BY DEF Start, RefusedStart
<1>1. /\ attempt' = attempt + 1 /\ attempt' \in Nat /\ UNCHANGED unseen
      /\ report' < attempt' /\ result'.attempt < attempt'
  BY <1>0 DEF IInv, Typed
<1>2. sup' \in Sups /\ sup'.pc = "started"
  BY <1>0, EndedIsOver DEF Sups, Labels
<1>3. /\ exceeded' = FALSE /\ stalled' = FALSE /\ signalled' = FALSE
      /\ ~signalled'
  BY <1>0
<1>4. report' = report /\ report' \in 0..attempt' /\ result'.attempt \in 0..attempt'
  BY <1>0, <1>1 DEF IInv, Typed
<1>5. captured' \in 0..MaxOutput /\ produced' \in Nat
  BY <1>0
<1>6. Typed'
  BY <1>1, <1>2, <1>3, <1>4, <1>5 DEF Typed
<1>7. \/ scope' = {[who |-> "main", attempt |-> attempt']}
      \/ scope' = scope
  BY <1>1 DEF Start, ScopeFree, RefusedStart
<1>8. Started' /\ OneAttemptAlive' /\ NothingOutlivesReport'
  BY <1>1, <1>4, <1>7 DEF IInv, Typed, Started, OneAttemptAlive,
     NothingOutlivesReport
<1>. QED
  BY <1>1, <1>2, <1>3, <1>6, <1>8 DEF IInv, Reaped, SignalNoted, Joined,
     ResultStands, CompletedIsUndisturbed

(* What is alive only shrinks when processes exit or are killed.           *)
LEMMA FewerKeep ==
  ASSUME IInv, scope' \subseteq scope, UNCHANGED <<attempt, report>>,
         unseen \subseteq unseen'
  PROVE  /\ Started' /\ OneAttemptAlive' /\ NothingOutlivesReport'
         /\ Over => Over'
         /\ Of(attempt) = {} => Of(attempt)' = {}
BY DEF IInv, Started, OneAttemptAlive, NothingOutlivesReport, Over, Of, Main

(* The processes of the phase: without the main process none is started,   *)
(* and without any of this attempt nothing is written.                     *)
LEMMA PhaseKeeps ==
  ASSUME IInv, Phase
  PROVE  IInv'
<1>. USE DEF stream, files, history
<1>1. /\ UNCHANGED <<attempt, sup, report, result, captured, exceeded,
                     stalled, signalled, unseen>>
      /\ produced' \in Nat
  BY DEF Phase, Fork, Write, MainExits, OtherExits, IInv, Typed
<1>2. Typed'
  BY <1>1 DEF IInv, Typed
<1>3. SignalNoted'
  BY <1>1 DEF IInv, SignalNoted, At
<1>4. CASE Fork
  <2>1. Main \in scope /\ UNCHANGED <<exit, produced>>
    BY <1>4 DEF Fork
  <2>2. report # attempt /\ sup.pc \notin {"join", "report", "result"}
    BY <2>1 DEF IInv, Reaped, Over
  <2>3. \A p \in scope' : p.attempt = attempt
    BY <1>4, <2>1 DEF Fork, IInv, OneAttemptAlive, Main, Child
  <2>4. attempt \in 1..attempt
    BY <2>1 DEF IInv, Started, Main
  <2>5. report \in 0..attempt /\ attempt \in Nat
    BY DEF IInv, Typed
  <2>6. Started' /\ OneAttemptAlive' /\ NothingOutlivesReport'
    BY <1>1, <2>2, <2>3, <2>4, <2>5 DEF Started, OneAttemptAlive,
       NothingOutlivesReport
  <2>7. Reaped' /\ Joined' /\ ResultStands' /\ CompletedIsUndisturbed'
    BY <1>1, <2>2 DEF IInv, Reaped, Joined, ResultStands,
       CompletedIsUndisturbed
  <2>. QED  BY <1>2, <1>3, <2>6, <2>7 DEF IInv
<1>5. CASE Write
  <2>1. UNCHANGED <<scope, exit>> /\ Of(attempt) # {} /\ ~exceeded
    BY <1>5 DEF Write
  <2>2. Started' /\ OneAttemptAlive' /\ NothingOutlivesReport'
    BY <1>1, <2>1, FewerKeep
  <2>3. Reaped' /\ Joined'
    BY <1>1, <2>1 DEF IInv, Reaped, Over, Main, Joined
  <2>4. ResultStands' /\ CompletedIsUndisturbed'
    BY <1>1, <2>1 DEF IInv, ResultStands, CompletedIsUndisturbed, At, Of
  <2>. QED  BY <1>2, <1>3, <2>2, <2>3, <2>4 DEF IInv
<1>6. CASE MainExits \/ OtherExits
  <2>1. /\ scope' \subseteq scope /\ UNCHANGED produced
        /\ exit' = exit \/ Main \in scope
    BY <1>6 DEF MainExits, OtherExits
  <2>2. /\ Started' /\ OneAttemptAlive' /\ NothingOutlivesReport'
        /\ Over => Over'
        /\ Of(attempt) = {} => Of(attempt)' = {}
    BY <1>1, <2>1, FewerKeep
  <2>3. Reaped' /\ Joined' /\ ResultStands'
    BY <1>1, <2>1, <2>2 DEF IInv, Reaped, Joined, ResultStands, At, Of
  <2>4. report = attempt => exit' = exit
    BY <2>1 DEF IInv, Reaped, Over
  <2>5. CompletedIsUndisturbed'
    BY <1>1, <2>1, <2>4 DEF IInv, ResultStands, CompletedIsUndisturbed
  <2>. QED  BY <1>2, <1>3, <2>2, <2>3, <2>5 DEF IInv
<1>. QED  BY <1>4, <1>5, <1>6 DEF Phase

(* Copying and signals while the supervisor works.                         *)
LEMMA AsideKeeps ==
  ASSUME IInv, Copy \/ CopyLate \/ Signal \/ TimePasses
  PROVE  IInv'
<1>. USE DEF Copy, CopyLate, Signal, TimePasses, WithinBudget, At, stream,
         files, history
<1>1. /\ UNCHANGED <<attempt, scope, report, result, stalled, unseen,
                     produced, exit>>
      /\ sup' = sup \/ (signalled' /\ sup' = [sup EXCEPT !.interrupted = TRUE])
  OBVIOUS
<1>2. sup' \in Sups /\ sup'.pc = sup.pc
  BY <1>1 DEF IInv, Typed, Sups
<1>3. Typed'
  <2>1. captured' \in 0..MaxOutput
    BY DEF IInv, Typed
  <2>2. exceeded' = exceeded \/ exceeded' = TRUE
    OBVIOUS
  <2>3. signalled' = signalled \/ signalled' = TRUE
    OBVIOUS
  <2>. QED  BY <1>1, <1>2, <2>1, <2>2, <2>3 DEF IInv, Typed
<1>4. Started' /\ OneAttemptAlive' /\ NothingOutlivesReport'
  BY <1>1, FewerKeep
<1>5. Reaped' /\ ResultStands'
  BY <1>1, <1>2 DEF IInv, Reaped, Over, Main, ResultStands, Of
<1>6. SignalNoted'
  BY <1>1, <1>2 DEF IInv, Typed, Sups, SignalNoted
<1>7. Joined'
  <2>1. sup.pc \in {"report", "result"} =>
          captured' = captured /\ (exceeded' = exceeded \/ stalled)
    OBVIOUS
  <2>. QED  BY <1>1, <1>2, <2>1 DEF IInv, Joined, Of
<1>8. CompletedIsUndisturbed'
  BY <1>1 DEF IInv, ResultStands, CompletedIsUndisturbed
<1>. QED  BY <1>3, <1>4, <1>5, <1>6, <1>7, <1>8 DEF IInv

(* The steps of a supervisor before it joins the copying threads.          *)
LEMMA SupervisionKeeps ==
  ASSUME IInv,
         InstallHandlers \/ Poll \/ Terminate \/ KillScope \/ Wait \/ StopFails
           \/ StopUnanswered \/ GiveUpStart \/ Die
  PROVE  IInv'
<1>. USE DEF At, stream, files, history
<1>1. /\ ~At("ended") /\ scope' \subseteq scope /\ unseen \subseteq unseen'
      /\ UNCHANGED <<attempt, stream, files, signalled>>
  BY DEF InstallHandlers, Poll, Terminate, KillScope, Gone, Wait, StopFails,
     StopUnanswered, GiveUpStart, Die
<1>2. /\ sup' \in Sups /\ sup'.pc \notin {"report", "result"}
      /\ sup'.pc = "ended" \/ sup'.interrupted = sup.interrupted
      /\ sup'.pc = "join" => Over'
  <2>. USE DEF IInv, Typed, Labels
  <2>1. CASE InstallHandlers
    BY <2>1, GoesTo DEF InstallHandlers
  <2>2. CASE Poll
    <3>1. CASE sup' = [sup EXCEPT !.pc = "terminate", !.timedOut = TRUE]
      BY <3>1 DEF Sups
    <3>. QED  BY <2>2, <3>1, GoesTo DEF Poll
  <2>3. CASE Terminate
    BY <2>3, GoesTo DEF Terminate
  <2>4. CASE KillScope
    <3>1. Stopping(sup.pc) \in {"wait", "join"} /\ scope' = {}
      BY <2>4 DEF KillScope, Gone, Stopping
    <3>. QED  BY <2>4, <3>1, GoesTo DEF KillScope, Over
  <2>5. CASE Wait
    BY <2>5, GoesTo DEF Wait, FinalReap
  <2>6. CASE StopFails
    <3>1. CASE sup' = [sup EXCEPT !.pc = "finalTerminate", !.error = TRUE]
      BY <3>1 DEF Sups
    <3>. QED  BY <2>6, <3>1, EndedIsOver DEF StopFails
  <2>7. CASE StopUnanswered
    <3>1. Stopping(sup.pc) = IF At("terminate") THEN "wait" ELSE "join"
      BY <2>7 DEF StopUnanswered, Stopping
    <3>2. Main' = Main /\ Main \notin scope'
      BY <2>7 DEF StopUnanswered, Gone, Main
    <3>3. sup'.pc = "join" => Over'
      BY <2>7, <3>1, <3>2, GoesTo DEF StopUnanswered, Over
    <3>. QED  BY <2>7, <3>1, <3>3, GoesTo DEF StopUnanswered
  <2>8. CASE GiveUpStart \/ Die
    BY <2>8, EndedIsOver DEF GiveUpStart, Die
  <2>. QED  BY <2>1, <2>2, <2>3, <2>4, <2>5, <2>6, <2>7, <2>8
<1>3. /\ Started' /\ OneAttemptAlive' /\ NothingOutlivesReport'
      /\ Over => Over'
      /\ Of(attempt) = {} => Of(attempt)' = {}
  BY <1>1, FewerKeep
<1>4. Typed' /\ Reaped'
  BY <1>1, <1>2, <1>3 DEF IInv, Typed, Reaped
<1>5. SignalNoted' /\ Joined'
  BY <1>1, <1>2 DEF IInv, SignalNoted, Joined
<1>6. ResultStands' /\ CompletedIsUndisturbed'
  BY <1>1 DEF IInv, ResultStands, CompletedIsUndisturbed
<1>. QED  BY <1>3, <1>4, <1>5, <1>6 DEF IInv

LEMMA ReportKeeps ==
  ASSUME IInv, Join \/ WriteReport
  PROVE  IInv'
<1>. USE DEF At, stream, history
<1>1. /\ ~At("ended") /\ Over
      /\ UNCHANGED <<attempt, scope, result, produced, captured, exceeded,
                     signalled, unseen>>
      /\ Over'
  <2>1. Over /\ sup.pc \in {"join", "report"}
    BY DEF IInv, Reaped, Join, WriteReport
  <2>2. UNCHANGED <<attempt, scope, result, produced, captured, exceeded,
                    signalled, unseen>>
    BY DEF Join, WriteReport, files
  <2>. QED  BY <2>1, <2>2 DEF Over, Main
<1>2. CASE Join
  <2>1. /\ stalled' \in BOOLEAN /\ report' = report
        /\ ~stalled' => (captured = produced /\ Of(attempt) = {}) \/ exceeded
    <3>1. stalled' = (~exceeded /\ (captured # produced \/ Of(attempt) # {}))
      BY <1>2 DEF Join
    <3>2. report' = report
      BY <1>2 DEF Join, files
    <3>. QED  BY <3>1, <3>2, Zenon
  <2>2. /\ sup' \in Sups /\ sup'.pc \in {"ended", "report"}
        /\ sup'.pc = "ended" \/ sup'.interrupted = sup.interrupted
    BY <1>2, GoesTo, EndedIsOver DEF Join, IInv, Typed, Labels
  <2>3. Typed' /\ Reaped'
    BY <1>1, <2>1, <2>2 DEF IInv, Typed, Reaped
  <2>4. Started' /\ OneAttemptAlive' /\ NothingOutlivesReport'
    BY <1>1, <2>1, FewerKeep
  <2>5. SignalNoted' /\ Joined'
    BY <1>1, <2>1, <2>2 DEF IInv, SignalNoted, Joined, Of
  <2>6. ResultStands' /\ CompletedIsUndisturbed'
    BY <1>1 DEF IInv, ResultStands, CompletedIsUndisturbed
  <2>. QED  BY <2>3, <2>4, <2>5, <2>6 DEF IInv
<1>3. CASE WriteReport
  <2>1. UNCHANGED stalled /\ report' = attempt /\ At("report")
    BY <1>3 DEF WriteReport
  <2>2. /\ sup' \in Sups /\ sup'.pc = "result"
        /\ sup'.interrupted = sup.interrupted
    BY <1>3, GoesTo DEF WriteReport, IInv, Typed, Labels
  <2>3. Typed' /\ Reaped'
    BY <1>1, <2>1, <2>2 DEF IInv, Typed, Reaped
  <2>4. Started' /\ OneAttemptAlive'
    BY <1>1 DEF IInv, Started, OneAttemptAlive
  <2>5. NothingOutlivesReport'
    BY <1>1, <2>1 DEF NothingOutlivesReport, Over
  <2>6. SignalNoted' /\ Joined'
    BY <1>1, <2>1, <2>2 DEF IInv, SignalNoted, Joined, Of
  <2>7. ResultStands' /\ CompletedIsUndisturbed'
    BY <1>1 DEF IInv, ResultStands, CompletedIsUndisturbed
  <2>. QED  BY <2>3, <2>4, <2>5, <2>6, <2>7 DEF IInv
<1>. QED  BY <1>2, <1>3

(* "completed" is the state that is left when nothing else happened.       *)
LEMMA ResultKeeps ==
  ASSUME IInv, WriteResult
  PROVE  IInv'
<1>. USE EndedIsOver DEF WriteResult, At, stream, history
<1>1. PICK limit \in BOOLEAN :
        result' = [state |-> State(limit), attempt |-> attempt]
  OBVIOUS
<1>2. /\ Over /\ report = attempt /\ result'.attempt = attempt
      /\ UNCHANGED <<attempt, scope, exit, report, signalled, produced,
                     captured, exceeded, stalled, unseen>>
  BY <1>1 DEF IInv, Reaped
<1>3. Typed' /\ Reaped' /\ SignalNoted' /\ Joined'
  BY <1>2 DEF IInv, Typed, Reaped, Over, Main, SignalNoted, Joined
<1>4. Started' /\ OneAttemptAlive' /\ NothingOutlivesReport'
  BY <1>2, FewerKeep
<1>5. result'.state = "completed" =>
        exit = "success" /\ ~sup.interrupted /\ ~exceeded
  <2>1. result'.state = State(limit)
    BY <1>1
  <2>2. State(limit) = "completed" =>
          exit = "success" /\ ~sup.interrupted /\ ~exceeded
    BY DEF State
  <2>. QED  BY <2>1, <2>2
<1>6. ResultStands'
  BY <1>2, <1>5 DEF IInv, Joined, ResultStands, Of
<1>7. CompletedIsUndisturbed'
  BY <1>2, <1>5 DEF IInv, Typed, SignalNoted, Joined, CompletedIsUndisturbed
<1>. QED
  BY <1>3, <1>4, <1>6, <1>7 DEF IInv

LEMMA StepKeeps == IInv /\ [Next]_vars => IInv'
<1>. SUFFICES ASSUME IInv, [Next]_vars PROVE IInv'
  OBVIOUS
<1>1. CASE Next
  BY <1>1, StartKeeps, PhaseKeeps, AsideKeeps, SupervisionKeeps, ReportKeeps,
     ResultKeeps DEF Next, Supervise, Systemctl
<1>2. CASE UNCHANGED vars
  BY <1>2 DEF vars, stream, files, history, IInv, Typed, Started,
     OneAttemptAlive, Reaped, Over, Main, Of, SignalNoted, Joined,
     ResultStands, NothingOutlivesReport, CompletedIsUndisturbed, At
<1>. QED  BY <1>1, <1>2

-----------------------------------------------------------------------------
(* The invariant of the supervisor, its scope and its files.               *)
THEOREM Invariance == Spec => []IInv
BY InitHolds, StepKeeps, PTL DEF Spec

(* _reap_scope: no process of a phase outlives its report, unless the last *)
(* stop of that phase was left unanswered by systemctl.                    *)
THEOREM ReportIsLast == Spec => []NothingOutlivesReport
<1>1. IInv => NothingOutlivesReport
  BY DEF IInv
<1>. QED  BY <1>1, Invariance, PTL

(* start_scoped_popen: the processes of two attempts are never mixed, not  *)
(* even after a stop or a query that systemctl left unanswered.            *)
THEOREM AttemptsAreApart == Spec => []OneAttemptAlive
<1>1. IInv => OneAttemptAlive
  BY DEF IInv
<1>. QED  BY <1>1, Invariance, PTL

(* supervise_command: a result "completed" hides no signal, limit, timeout *)
(* or lost output, but for a copying thread that was given up.             *)
THEOREM CompletedIsTrue == Spec => []CompletedIsUndisturbed
<1>1. IInv => CompletedIsUndisturbed
  BY DEF IInv
<1>. QED  BY <1>1, Invariance, PTL
=============================================================================
