------------------------------ MODULE RunLoop -------------------------------
(***************************************************************************)
(* The agent loop of run_task.sh and its resumption: one fresh run, which  *)
(* holds agent-loop.lock only, and resume sessions, which .resume.lock     *)
(* serialises and which take agent-loop.lock after they have planned.  The *)
(* two kinds of process may therefore overlap.  They share the run         *)
(* document (module RunState), the per-iteration artifacts of the run      *)
(* directory and the worktree.                                             *)
(*                                                                         *)
(* A step is one command of the shell script, or one command line of the   *)
(* controller: what happens between two writes to shared state is a single *)
(* step, because a crash inside it is a crash before it.                   *)
(***************************************************************************)
EXTENDS Integers

CONSTANTS
  Contents,       \* the worktree contents that differ from the base commit
  Base,           \* the content of the base commit: no repository changes
  NoContent,      \* an artifact that does not exist
  OriginalLimit,  \* --max-iterations of the run
  MaxEffective,   \* bound on the effective limit (50 in the code)
  Additional,     \* the --additional-iterations an operator may authorize
  GithubBranch,   \* approval mode: github_branch, or none/telegram
  MayKill,        \* SIGKILL and power loss happen
  MayTear,        \* the write of the file "iteration" may fail halfway
  MayDrift,       \* someone else edits the worktree
  MayReviewOnly,  \* the operator uses --review-only
  MayOverlap      \* a resume session may start while the run is live

ASSUME LoopConstantsAssumption ==
  /\ Base \notin Contents
  /\ NoContent \notin Contents \cup {Base}
  /\ OriginalLimit \in Nat \ {0}
  /\ MaxEffective \in Nat /\ OriginalLimit <= MaxEffective
  /\ Additional \subseteq Nat \ {0}
  /\ {GithubBranch, MayKill, MayTear, MayDrift, MayReviewOnly, MayOverlap}
       \subseteq BOOLEAN

VARIABLES
  doc,           \* state.json
  mutex,         \* the holder of agent-loop.lock, or "none"
  proc,          \* the fresh run and the resume session
  cursor,        \* the file "iteration", 0 when missing or empty
  cursorReport,  \* the iterations with a non-empty cursor-N.json
  snapshot,      \* review-N-snapshot.json: the hash before review N
  result,        \* reviewer-N-result.json: how supervise saw review N end
  review,        \* review-N.json: the verdict
  grant,         \* the budget chain: the snapshot bound at each extension
  rewritten,     \* the granted iterations whose review-N.json was replaced
  content,       \* the worktree
  headMoved,     \* the worktree HEAD is not the base commit
  manifest,      \* reviewed_manifest.json
  published,     \* the content of the pushed dedicated branch
  bootstrapped,  \* history: the project bootstrap succeeded
  validated,     \* history: contents whose validations passed
  approvals,     \* history: contents a reviewer that approved was launched on
  waived         \* history: an operator asked for --review-only, or drifted

artifacts == <<cursor, cursorReport, snapshot, result, review, grant,
               rewritten>>
worktree  == <<content, headMoved>>
outcome   == <<manifest, published>>
history   == <<bootstrapped, validated, approvals, waived>>
vars == <<doc, mutex, proc, artifacts, worktree, outcome, history>>

Iterations == 1..MaxEffective
Procs == {"fresh", "resume"}
Verdicts == {"APPROVED", "CHANGES_REQUESTED", "BLOCKED", "INVALID"}

(***************************************************************************)
(* The structured failures the properties tell apart: the exhausted        *)
(* iteration budget, with its iteration, and every other reason.           *)
(***************************************************************************)
NoFailure == [reason |-> "none", iteration |-> 0]
OtherFailure == [reason |-> "other", iteration |-> 0]
Exhausted(n) == [reason |-> "max_review_iterations", iteration |-> n]
Failures == {OtherFailure} \cup {Exhausted(n) : n \in Iterations}

Doc == INSTANCE RunState WITH
         Metadata <- {"bound"}, NoMetadata <- "empty"

-----------------------------------------------------------------------------
(* Processes *)

Idle ==
  [pc |-> "idle", it |-> 0, phase |-> "executor", limit |-> 0,
   ro |-> FALSE, add |-> 0, before |-> NoContent, verdict |-> "none",
   feedback |-> 0, saw |-> NoFailure]

At(p, label) == proc[p].pc = label
Goto(p, label) == proc' = [proc EXCEPT ![p].pc = label]

(* The process is gone and the kernel released its locks. *)
Leave(p) ==
  /\ proc' = [proc EXCEPT ![p] =
                IF p = "fresh" THEN [Idle EXCEPT !.pc = "done"] ELSE Idle]
  /\ mutex' = IF mutex = p THEN "none" ELSE mutex

(***************************************************************************)
(* transition_run_state under "set -e": an event the state machine refuses *)
(* ends the shell without a structured failure.                            *)
(***************************************************************************)
UncheckedTransition(p, event, next) ==   \* fault: sources not checked
  /\ doc' = Doc!TransitionDoc(doc, event)
  /\ proc' = [proc EXCEPT ![p] = next]
  /\ UNCHANGED mutex
Transition(p, event, next) ==
  \/ /\ Doc!TransitionSucceeds(doc, event)
     /\ doc' = IF Doc!TransitionWrites(doc, event)
               THEN Doc!TransitionDoc(doc, event) ELSE doc
     /\ proc' = [proc EXCEPT ![p] = next]
     /\ UNCHANGED mutex
  \/ /\ ~Doc!TransitionSucceeds(doc, event)
     /\ Leave(p)
     /\ UNCHANGED doc

(* record-failure: the first failure of a blocked run is kept. *)
Block(f) ==
  doc' = IF Doc!FailureWrites(doc) THEN Doc!FailureDoc(doc, f) ELSE doc

-----------------------------------------------------------------------------
(* The fresh run: allocation, metadata, bootstrap *)

RunStarted(p) ==
  /\ p = "fresh" /\ At(p, "start")
  /\ mutex = "none"
  /\ mutex' = p
  /\ Doc!TransitionRun("run_started")
  /\ Goto(p, "init")
  /\ UNCHANGED <<artifacts, worktree, outcome, history>>

InitRun(p) ==
  /\ At(p, "init")
  /\ \/ Doc!InitializeRunState("bound") /\ Goto(p, "bootstrap")
     \/ Goto(p, "failed") /\ UNCHANGED doc
  /\ UNCHANGED <<mutex, artifacts, worktree, outcome, history>>

Bootstrap(p) ==
  /\ At(p, "bootstrap")
  /\ \/ /\ proc' = [proc EXCEPT ![p].pc = "top", ![p].it = 1]
        /\ bootstrapped' = TRUE
     \/ Goto(p, "failed") /\ UNCHANGED bootstrapped
  /\ UNCHANGED <<doc, mutex, artifacts, worktree, outcome, validated,
                 approvals, waived>>

-----------------------------------------------------------------------------
(* One iteration *)

(* for ((...; iteration <= MAX_ITERATIONS; ...)) *)
OneIterationMore(p) == proc[p].it <= proc[p].limit + 1  \* fault: off by one
WithinLimit(p) == proc[p].it <= proc[p].limit

(* The iteration file is written before any event of the iteration. *)
WriteCursor(p) ==
  /\ At(p, "top")
  /\ WithinLimit(p)
  /\ cursor' = proc[p].it
  /\ Goto(p, IF proc[p].phase = "executor" THEN "begin"
             ELSE IF proc[p].it \in cursorReport \/ proc[p].ro THEN "review"
             ELSE "failed")
  /\ UNCHANGED <<doc, mutex, cursorReport, snapshot, result, review, grant,
                 rewritten, worktree, outcome, history>>

(***************************************************************************)
(* The redirection empties the file first: a process killed before printf  *)
(* writes, or a full disk under "set -e", leaves it empty.                 *)
(***************************************************************************)
CursorTruncated(p) ==
  /\ MayTear
  /\ At(p, "top")
  /\ WithinLimit(p)
  /\ cursor' = 0
  /\ Leave(p)
  /\ UNCHANGED <<doc, cursorReport, snapshot, result, review, grant,
                 rewritten, worktree, outcome, history>>

LoopExhausted(p) ==
  /\ At(p, "top")
  /\ ~WithinLimit(p)
  /\ Block(Exhausted(proc[p].limit))
  /\ Goto(p, "exiting")
  /\ UNCHANGED <<mutex, artifacts, worktree, outcome, history>>

ExecutorStarted(p) ==
  /\ At(p, "begin")
  /\ Transition(p, "executor_started", [proc[p] EXCEPT !.pc = "prompt"])
  /\ UNCHANGED <<artifacts, worktree, outcome, history>>

ExecutorLaunched(p) ==
  /\ At(p, "prompt")
  /\ Goto(p, "executing")
  /\ UNCHANGED <<doc, mutex, artifacts, worktree, outcome, history>>

(* The executor, a reviewer that writes, or the operator repairing HEAD. *)
Edit ==
  /\ content' \in Contents \cup {Base}
  /\ headMoved' \in BOOLEAN
  /\ <<content', headMoved'>> # worktree

AgentWorks(p) ==
  /\ At(p, "executing") \/ At(p, "reviewing")
  /\ Edit
  /\ UNCHANGED <<doc, mutex, proc, artifacts, outcome, history>>

(***************************************************************************)
(* supervise returns: it replaces cursor-N.json whatever the exit code,    *)
(* unless it fails itself.                                                 *)
(***************************************************************************)
ExecutorEnds(p) ==
  /\ At(p, "executing")
  /\ \/ \E exitZero, nonEmpty \in BOOLEAN :
          /\ cursorReport' = IF nonEmpty THEN cursorReport \cup {proc[p].it}
                             ELSE cursorReport \ {proc[p].it}
          /\ Goto(p, IF exitZero /\ nonEmpty THEN "validate" ELSE "failed")
     \/ Goto(p, "failed") /\ UNCHANGED cursorReport
  /\ UNCHANGED <<doc, mutex, cursor, snapshot, result, review, grant,
                 rewritten, worktree, outcome, history>>

(***************************************************************************)
(* The gates between executor and reviewer.  The second disjunct is any of *)
(* them refusing: no changes, profile mutated, HEAD moved, a validation    *)
(* that failed or timed out, documentation missing.                        *)
(***************************************************************************)
Validate(p) ==
  /\ At(p, "validate")
  /\ \/ /\ content # Base /\ ~headMoved
        /\ validated' = validated \cup {content}
        /\ Goto(p, "review")
     \/ /\ Goto(p, "failed")
        /\ UNCHANGED validated
  /\ UNCHANGED <<doc, mutex, artifacts, worktree, outcome, bootstrapped,
                 approvals, waived>>

ReviewStarted(p) ==
  /\ At(p, "review")
  /\ Transition(p, "review_started", [proc[p] EXCEPT !.pc = "snapshot"])
  /\ UNCHANGED <<artifacts, worktree, outcome, history>>

(* BEFORE_HASH is computed and recorded; either may fail. *)
RecordReviewSnapshot(p) ==
  /\ At(p, "snapshot")
  /\ \/ /\ snapshot' = [snapshot EXCEPT ![proc[p].it] = content]
        /\ proc' = [proc EXCEPT ![p].pc = "reviewing", ![p].before = content]
     \/ Goto(p, "failed") /\ UNCHANGED snapshot
  /\ UNCHANGED <<doc, mutex, cursor, cursorReport, result, review, grant,
                 rewritten, worktree, outcome, history>>

(***************************************************************************)
(* die "invalid ... instruction file", or record-review-snapshot failing   *)
(* under "set -e": no structured failure is recorded.                      *)
(***************************************************************************)
InstructionsRefused(p) ==
  /\ At(p, "prompt") \/ At(p, "snapshot")
  /\ Leave(p)
  /\ UNCHANGED <<doc, artifacts, worktree, outcome, history>>

ReviewerEnds(p) ==
  /\ At(p, "reviewing")
  /\ \/ \E v \in Verdicts :
          /\ result' = [result EXCEPT ![proc[p].it] = "completed"]
          /\ proc' = [proc EXCEPT ![p].pc = "move", ![p].verdict = v]
          /\ approvals' = IF v = "APPROVED"
                          THEN approvals \cup {proc[p].before} ELSE approvals
     \/ \E r \in {"completed", "failed", result[proc[p].it]} :
          /\ result' = [result EXCEPT ![proc[p].it] = r]
          /\ proc' = [proc EXCEPT ![p].pc = "failed", ![p].before = NoContent]
          /\ UNCHANGED approvals
  /\ UNCHANGED <<doc, mutex, cursor, cursorReport, snapshot, review, grant,
                 rewritten, worktree, outcome, bootstrapped, validated,
                 waived>>

(* mv of the candidate report over review-N.json, maybe of the same bytes. *)
MoveReview(p) ==
  LET n == proc[p].it IN
  /\ At(p, "move")
  /\ review' = [review EXCEPT ![n] = proc[p].verdict]
  /\ \/ /\ grant[n] = NoContent \/ review[n] = proc[p].verdict
        /\ UNCHANGED rewritten
     \/ /\ grant[n] # NoContent
        /\ rewritten' = rewritten \cup {n}
  /\ proc' = [proc EXCEPT ![p].pc = "compare", ![p].verdict = "none"]
  /\ UNCHANGED <<doc, mutex, cursor, cursorReport, snapshot, result, grant,
                 worktree, outcome, history>>

(* AFTER_HASH against BEFORE_HASH, and HEAD. *)
HeadOnlyUnchanged(p) == ~headMoved      \* fault: the hashes not compared
ReviewUnchanged(p) == content = proc[p].before /\ ~headMoved

(* ITERATION=$((ITERATION + 1)): the review just read is the feedback. *)
SameIteration(p) ==                     \* fault: the counter not advanced
  [proc[p] EXCEPT !.pc = "top", !.phase = "executor",
                  !.feedback = proc[p].it, !.before = NoContent]
NextIteration(p) ==
  [proc[p] EXCEPT !.pc = "top", !.it = @ + 1, !.phase = "executor",
                  !.feedback = proc[p].it, !.before = NoContent]

(* A review-only session stops there: its executor is not started. *)
RequestedChanges(p) ==
  IF proc[p].ro THEN [NextIteration(p) EXCEPT !.pc = "exiting"]
  ELSE NextIteration(p)

(* The gates after the review, then its verdict. *)
CompareAndDecide(p) ==
  LET n == proc[p].it IN
  /\ At(p, "compare")
  /\ \/ /\ ReviewUnchanged(p) /\ review[n] = "CHANGES_REQUESTED"
        /\ Transition(p, "review_changes_requested", RequestedChanges(p))
     \/ /\ ReviewUnchanged(p) /\ review[n] = "APPROVED"
        /\ proc' = [proc EXCEPT ![p].pc = "freeze", ![p].before = content]
        /\ UNCHANGED <<doc, mutex>>
     \/ /\ ~ReviewUnchanged(p) \/ review[n] \in {"BLOCKED", "INVALID"}
        /\ proc' = [proc EXCEPT ![p].pc = "failed", ![p].before = NoContent]
        /\ UNCHANGED <<doc, mutex>>
  /\ UNCHANGED <<artifacts, worktree, outcome, history>>

(* prepare-review-artifacts recomputes the hash and compares AFTER_HASH. *)
FreezeManifest(p) ==
  /\ At(p, "freeze")
  /\ \/ /\ content = proc[p].before
        /\ manifest' = content
        /\ Goto(p, "approve") \/ Goto(p, "failed")
     \/ Goto(p, "failed") /\ UNCHANGED manifest
  /\ UNCHANGED <<doc, mutex, artifacts, worktree, published, history>>

ReviewApproved(p) ==
  /\ At(p, "approve")
  /\ Transition(p, "review_approved", [proc[p] EXCEPT !.pc = "finalize"])
  /\ UNCHANGED <<artifacts, worktree, outcome, history>>

(* verify-reviewed-snapshot: the worktree is the one of the manifest. *)
AnySnapshot == ~headMoved               \* fault: the hashes not compared
ReviewedSnapshot == content = manifest /\ ~headMoved

(***************************************************************************)
(* In github_branch mode the dedicated branch is published from the bytes  *)
(* of the worktree, once they are verified.  Publication may fail, and is  *)
(* refused when the recorded publication is of another content.            *)
(***************************************************************************)
Finalize(p) ==
  /\ At(p, "finalize")
  /\ \/ /\ GithubBranch /\ ReviewedSnapshot
        /\ published \in {NoContent, content}
        /\ published' = content
     \/ UNCHANGED published
  /\ Leave(p)
  /\ UNCHANGED <<doc, artifacts, worktree, manifest, history>>

(* block_run, then die. *)
BlockRun(p) ==
  /\ At(p, "failed")
  /\ Block(OtherFailure)
  /\ Goto(p, "exiting")
  /\ UNCHANGED <<mutex, artifacts, worktree, outcome, history>>

Exit(p) ==
  /\ At(p, "exiting")
  /\ Leave(p)
  /\ UNCHANGED <<doc, artifacts, worktree, outcome, history>>

-----------------------------------------------------------------------------
(* Interruptions *)

(* handle_loop_signal: installed once the process holds the lock. *)
OnlyBlocked == {"BLOCKED"}                \* fault: approvals interrupted
LeftAlone == {"APPROVED", "HUMAN_APPROVED", "BLOCKED"}

Signal(p) ==
  /\ mutex = p
  /\ IF doc.status \in LeftAlone
     THEN UNCHANGED doc ELSE Block(OtherFailure)
  /\ Leave(p)
  /\ UNCHANGED <<artifacts, worktree, outcome, history>>

Kill(p) ==
  /\ MayKill
  /\ proc[p].pc \notin {"start", "idle", "done"}
  /\ Leave(p)
  /\ UNCHANGED <<doc, artifacts, worktree, outcome, history>>

(* Another process of the user, or an agent that outlived its supervisor. *)
Drift ==
  /\ MayDrift
  /\ Edit
  /\ waived' = TRUE
  /\ UNCHANGED <<doc, mutex, proc, artifacts, outcome, bootstrapped,
                 validated, approvals>>

(* The operator resets the worktree HEAD to the base commit. *)
RestoreHead ==
  /\ headMoved /\ mutex = "none"
  /\ headMoved' = FALSE
  /\ UNCHANGED <<doc, mutex, proc, artifacts, content, outcome, history>>

-----------------------------------------------------------------------------
(* Resumption *)

(* cmd_resume_exec holds .resume.lock from here to the end of the session. *)
ResumeExec(ro, add) ==
  /\ At("resume", "idle")
  /\ ro => add = 0
  /\ MayOverlap \/ At("fresh", "done")
  /\ proc' = [proc EXCEPT !["resume"] =
                [Idle EXCEPT !.pc = IF add = 0 THEN "plan" ELSE "authorize",
                             !.ro = ro, !.add = add]]
  /\ waived' = (waived \/ ro)
  /\ UNCHANGED <<doc, mutex, artifacts, worktree, outcome, bootstrapped,
                 validated, approvals>>

(* load_iteration_budget: every extension still binds its review. *)
ChainIntact ==
  \A n \in Iterations :
    grant[n] # NoContent => snapshot[n] = grant[n] /\ n \notin rewritten

(* validate_run and the checks both resume paths make first. *)
ValidRun ==
  /\ doc.metadata = "bound"
  /\ ~headMoved
  /\ ChainIntact

(* The extension asked for is the active one: nothing is added twice. *)
ReplayOfActiveExtension(add) ==
  /\ doc.previous # 0
  /\ doc.limit - doc.previous = add
  /\ doc.previous <= cursor /\ cursor < doc.limit
  /\ doc.status \in {"BLOCKED", "CHANGES_REQUESTED", "EXECUTING", "REVIEWING"}

AnyBlockedEligible(add) ==               \* fault: the blocker not checked
  /\ doc.status = "BLOCKED"
  /\ snapshot[cursor] = content
  /\ doc.decision = "none"
  /\ doc.limit + add <= MaxEffective

ExtensionEligible(add) ==
  /\ doc.status = "BLOCKED"
  /\ doc.failure.reason = "max_review_iterations"
  /\ cursor = doc.limit
  /\ doc.failure.iteration \in {cursor, cursor + 1}
  /\ review[cursor] = "CHANGES_REQUESTED"
  /\ cursor \in cursorReport
  /\ result[cursor] = "completed"
  /\ snapshot[cursor] = content
  /\ doc.decision = "none"
  /\ doc.limit + add <= MaxEffective

AuthorizeExtension(p) ==
  LET add == proc[p].add
      usable == ValidRun /\ cursor >= 1
  IN
  /\ At(p, "authorize")
  /\ \/ /\ usable /\ ReplayOfActiveExtension(add)
        /\ Goto(p, "plan")
        /\ UNCHANGED mutex
     \/ /\ usable /\ ~ReplayOfActiveExtension(add) /\ ExtensionEligible(add)
        /\ proc' = [proc EXCEPT ![p].pc = "extend", ![p].saw = doc.failure,
                                ![p].limit = doc.limit,
                                ![p].before = content]
        /\ UNCHANGED mutex
     \/ /\ ~(usable /\ (ReplayOfActiveExtension(add) \/ ExtensionEligible(add)))
        /\ Leave(p)
  /\ UNCHANGED <<doc, artifacts, worktree, outcome, history>>

(* record_iteration_budget_extension: compare-and-set, then the plan. *)
RecordExtension(p) ==
  LET saw == proc[p] IN
  /\ At(p, "extend")
  /\ \/ /\ Doc!ExtensionWrites(doc, saw.saw, saw.limit)
        /\ doc' = Doc!ExtensionDoc(doc, saw.limit + saw.add)
        /\ grant' = [grant EXCEPT ![saw.limit] = saw.before]
        /\ proc' = [proc EXCEPT ![p] = [Idle EXCEPT !.pc = "plan"]]
        /\ UNCHANGED mutex
     \/ /\ ~Doc!ExtensionWrites(doc, saw.saw, saw.limit)
        /\ Leave(p)
        /\ UNCHANGED <<doc, grant>>
  /\ UNCHANGED <<cursor, cursorReport, snapshot, result, review, rewritten,
                 worktree, outcome, history>>

-----------------------------------------------------------------------------
(* plan_resume: the phase and iteration a session restarts from. *)

PlanCursor == IF cursor = 0 THEN 1 ELSE cursor

SnapshotHolds ==
  snapshot[PlanCursor] \in {NoContent, content}

Resumable ==
  /\ ValidRun
  /\ PlanCursor <= doc.limit
  /\ \/ doc.status \in {"EXECUTING", "REVIEWING", "BLOCKED",
                        "CHANGES_REQUESTED"} /\ SnapshotHolds
     \/ doc.status = "APPROVED" /\ GithubBranch /\ SnapshotHolds
     \/ doc.status = "APPROVED" /\ ~GithubBranch /\ content = manifest

(* The interrupted iteration had reached its review. *)
ReportReviewable(n) == n \in cursorReport  \* fault: a report is enough
Reviewable(n) ==
  \/ snapshot[n] # NoContent /\ n \in cursorReport
  \/ doc.status = "REVIEWING" /\ n \in cursorReport
  \/ result[n] # "none" /\ review[n] # "none"

PlanPhase(ro) ==
  CASE doc.status = "APPROVED" ->
         IF GithubBranch THEN "reviewer" ELSE "complete"
    [] doc.status = "CHANGES_REQUESTED" ->
         IF ro THEN "reviewer" ELSE "executor"
    [] OTHER -> IF ro \/ Reviewable(PlanCursor) THEN "reviewer"
                ELSE "executor"

RerunIteration(ro) == PlanCursor         \* fault: the iteration not advanced
PlanIteration(ro) ==
  IF doc.status = "CHANGES_REQUESTED" /\ ~ro THEN PlanCursor + 1
  ELSE PlanCursor

(* A "complete" plan ends the session: the snapshot is verified again. *)
PlanResume(p) ==
  LET ro == proc[p].ro IN
  /\ At(p, "plan")
  /\ IF Resumable /\ PlanPhase(ro) # "complete"
     THEN /\ proc' = [proc EXCEPT ![p] =
                        [Idle EXCEPT !.pc = "lock", !.ro = ro,
                                     !.phase = PlanPhase(ro),
                                     !.it = PlanIteration(ro),
                                     !.limit = doc.limit]]
          /\ UNCHANGED mutex
     ELSE Leave(p)
  /\ UNCHANGED <<doc, artifacts, worktree, outcome, history>>

(* LATEST_FEEDBACK: the iteration whose review is shown to the executor. *)
OwnFeedback(n) == IF review[n] # "none" THEN n ELSE 0  \* fault: off by one
Feedback(n) == IF n > 1 /\ review[n - 1] # "none" THEN n - 1 ELSE 0

(* flock -n on agent-loop.lock, then the feedback of the last review. *)
LockLoop(p) ==
  /\ At(p, "lock")
  /\ IF mutex = "none"
     THEN /\ mutex' = p
          /\ proc' = [proc EXCEPT ![p].pc = "top",
                        ![p].feedback = IF proc[p].phase = "executor"
                                        THEN Feedback(proc[p].it) ELSE 0]
     ELSE Leave(p)
  /\ UNCHANGED <<doc, artifacts, worktree, outcome, history>>

-----------------------------------------------------------------------------
Init ==
  /\ doc = Doc!EmptyDocument
  /\ mutex = "none"
  /\ proc = [p \in Procs |-> IF p = "fresh"
                             THEN [Idle EXCEPT !.pc = "start",
                                               !.limit = OriginalLimit]
                             ELSE Idle]
  /\ cursor = 0
  /\ cursorReport = {}
  /\ snapshot = [n \in Iterations |-> NoContent]
  /\ result = [n \in Iterations |-> "none"]
  /\ review = [n \in Iterations |-> "none"]
  /\ grant = [n \in Iterations |-> NoContent]
  /\ rewritten = {}
  /\ content = Base
  /\ headMoved = FALSE
  /\ manifest = NoContent
  /\ published = NoContent
  /\ bootstrapped = FALSE
  /\ validated = {}
  /\ approvals = {}
  /\ waived = FALSE

(* What the script and the controller do on their own. *)
Step(p) ==
  \/ RunStarted(p) \/ InitRun(p) \/ Bootstrap(p)
  \/ AuthorizeExtension(p) \/ RecordExtension(p)
  \/ PlanResume(p) \/ LockLoop(p)
  \/ WriteCursor(p) \/ LoopExhausted(p)
  \/ ExecutorStarted(p) \/ ExecutorLaunched(p) \/ ExecutorEnds(p)
  \/ Validate(p)
  \/ ReviewStarted(p) \/ RecordReviewSnapshot(p)
  \/ ReviewerEnds(p) \/ MoveReview(p) \/ CompareAndDecide(p)
  \/ FreezeManifest(p) \/ ReviewApproved(p) \/ Finalize(p)
  \/ BlockRun(p) \/ Exit(p)

Next ==
  \/ \E p \in Procs : Step(p) \/ AgentWorks(p) \/ InstructionsRefused(p)
                      \/ CursorTruncated(p) \/ Signal(p) \/ Kill(p)
  \/ \E add \in Additional \cup {0} : ResumeExec(FALSE, add)
  \/ MayReviewOnly /\ ResumeExec(TRUE, 0)
  \/ Drift
  \/ RestoreHead

Spec == Init /\ [][Next]_vars

(***************************************************************************)
(* The controller keeps running its own commands, and supervise ends every *)
(* agent by its phase timeout.  Nothing obliges the operator to resume.    *)
(***************************************************************************)
FairSpec == Spec /\ \A p \in Procs : WF_vars(Step(p))

-----------------------------------------------------------------------------
(* Properties *)

Labels ==
  {"idle", "start", "init", "bootstrap", "top", "begin", "prompt",
   "executing", "validate", "review", "snapshot", "reviewing", "move",
   "compare", "freeze", "approve", "finalize", "failed", "exiting",
   "authorize", "extend", "plan", "lock", "done"}

MaybeContents == Contents \cup {Base, NoContent}

(***************************************************************************)
(* Every variable holds a value the program can store.  The iteration file *)
(* never leaves the budget of the run: plan_resume and the extension       *)
(* refuse a run for which it does.                                         *)
(***************************************************************************)
TypeOK ==
  /\ doc \in Doc!Documents
  /\ mutex \in Procs \cup {"none"}
  /\ \A p \in Procs :
       /\ proc[p].pc \in Labels
       /\ proc[p].it \in 0..MaxEffective + 1
       /\ proc[p].limit \in 0..MaxEffective
       /\ proc[p].feedback \in 0..MaxEffective
       /\ proc[p].before \in MaybeContents
  /\ cursor \in 0..doc.limit
  /\ cursorReport \subseteq Iterations
  /\ rewritten \subseteq Iterations
  /\ {content, manifest, published} \subseteq MaybeContents
  /\ \A n \in Iterations : {snapshot[n], grant[n]} \subseteq MaybeContents

(***************************************************************************)
(* An APPROVED run holds the manifest of the snapshot a reviewer was       *)
(* launched on and approved, whatever the reviewer or others edited since  *)
(* and however often review and resume were interrupted.                   *)
(***************************************************************************)
ApprovedWasReviewed == doc.status = "APPROVED" => manifest \in approvals

(***************************************************************************)
(* What is APPROVED passed the configured validations: no interruption     *)
(* lets a resume session review a snapshot the validations never saw.      *)
(***************************************************************************)
ApprovedWasValidated ==
  doc.status = "APPROVED" => waived \/ manifest \in validated

(***************************************************************************)
(* The dedicated branch holds a snapshot that was approved and validated,  *)
(* although publication happens after the approval, in a worktree that     *)
(* may drift, and is retried by later sessions.                            *)
(***************************************************************************)
PublishedWasApproved ==
  published # NoContent =>
    published \in approvals /\ (waived \/ published \in validated)

(***************************************************************************)
(* An executor after the first iteration answers the review of the         *)
(* iteration before it: that review requested changes, and it is the one   *)
(* the executor is shown.                                                  *)
(***************************************************************************)
FeedbackFollowed ==
  \A p \in Procs :
    At(p, "executing") /\ proc[p].it > 1 =>
      /\ review[proc[p].it - 1] = "CHANGES_REQUESTED"
      /\ proc[p].feedback = proc[p].it - 1

(***************************************************************************)
(* The budget grows only when it is spent: its last iteration was reviewed *)
(* with CHANGES_REQUESTED, and the worktree is the one of that review.     *)
(***************************************************************************)
BudgetGrowsOnlyWhenSpent ==
  [][doc'.limit > doc.limit =>
       /\ cursor = doc.limit
       /\ review[cursor] = "CHANGES_REQUESTED"
       /\ grant'[cursor] = snapshot[cursor]]_vars

(***************************************************************************)
(* A run whose executor was interrupted can be resumed: an executor never  *)
(* works under a review snapshot that its edits would contradict.          *)
(***************************************************************************)
InterruptedExecutorResumable ==
  /\ doc.status = "EXECUTING"
  /\ ValidRun
  /\ \A p \in Procs : proc[p].pc \in {"idle", "done"}
  => Resumable

(***************************************************************************)
(* The budget chain stays bound to the reviews it was granted for.         *)
(***************************************************************************)
GrantStaysBound == ChainIntact

(* Technical approval is terminal. *)
ApprovedIsTerminal ==
  [][doc.status = "APPROVED" => doc'.status = "APPROVED"]_vars

(***************************************************************************)
(* A review-only session never lets an executor edit what it reviews,      *)
(* whatever the verdict and wherever the run was interrupted before.       *)
(***************************************************************************)
ReviewOnlyNeverExecutes == \A p \in Procs : proc[p].ro => ~At(p, "executing")

(* No executor works in a worktree whose bootstrap did not succeed. *)
BootstrapBeforeExecutor ==
  \A p \in Procs : At(p, "executing") => bootstrapped

(***************************************************************************)
(* Every write of the loop to state.json is an operation of RunState, in a *)
(* state that operation accepts.                                           *)
(***************************************************************************)
RunStateImplemented == Doc!Spec

(***************************************************************************)
(* Every session ends: the phase timeouts, the budget and the non-blocking *)
(* locks leave nothing to wait for.                                        *)
(***************************************************************************)
SessionEnds ==
  \A p \in Procs :
    proc[p].pc \notin {"idle", "done"} ~> proc[p].pc \in {"idle", "done"}
=============================================================================
