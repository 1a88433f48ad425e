--------------------------- MODULE RunLoopProofs ----------------------------
(***************************************************************************)
(* The agent loop and its resumptions, for any worktree contents, limits,  *)
(* extensions and numbers of sessions, kills and edits.                    *)
(*                                                                         *)
(* The invariants come in layers, each with its own assumption about the   *)
(* environment: LockedInv needs none; AloneInv that no session starts      *)
(* while the run is live; ReviewedInv also that the iteration file is      *)
(* never torn; UnreviewedInv also that no session is review-only; and      *)
(* AnsweredInv also that nothing is killed.                                *)
(***************************************************************************)
EXTENDS RunLoop, TLAPS

USE LoopConstantsAssumption

Extensions == Additional \cup {0}

ProcRecords ==
  [pc : Labels, it : 0..MaxEffective + 1, phase : {"executor", "reviewer"},
   limit : 0..MaxEffective, ro : BOOLEAN, add : Extensions,
   before : MaybeContents, verdict : Verdicts \cup {"none"},
   feedback : 0..MaxEffective, saw : Failures \cup {NoFailure}]

TypedFiles ==
  /\ doc \in Doc!Documents /\ doc.decision = "none"
  /\ cursor \in 0..doc.limit /\ cursorReport \subseteq Iterations
  /\ snapshot \in [Iterations -> MaybeContents]
  /\ result \in [Iterations -> {"none", "completed", "failed"}]
  /\ review \in [Iterations -> Verdicts \cup {"none"}]
  /\ grant \in [Iterations -> MaybeContents]
  /\ rewritten \subseteq Iterations
  /\ content \in Contents \cup {Base}
  /\ manifest \in MaybeContents /\ published \in MaybeContents

Typed ==
  /\ TypedFiles /\ proc \in [Procs -> ProcRecords]
  /\ mutex \in Procs \cup {"none"}

(* The places of a session that has agent-loop.lock, and those of one      *)
(* iteration of the loop.                                                  *)
Executing == {"begin", "prompt", "executing", "validate"}
Reviewing == {"review", "snapshot", "reviewing", "move", "compare", "freeze",
              "approve", "finalize"}
Iterating == Executing \cup Reviewing
Locked == Iterating \cup {"init", "bootstrap", "top", "failed", "exiting"}

Places(p) ==
  IF p = "fresh" THEN Locked \cup {"start", "done"}
  ELSE (Locked \ {"init", "bootstrap"})
         \cup {"idle", "authorize", "extend", "plan", "lock"}

(* Where a session is says which locks it holds, and how far its budget    *)
(* lets it go.                                                             *)
Placed(p) ==
  /\ proc[p].pc \in Places(p)
  /\ proc[p].pc \in Locked => mutex = p
  /\ proc[p].limit <= doc.limit
  /\ proc[p].pc \in {"init", "bootstrap"} => proc[p].limit >= 1
  /\ proc[p].pc \in {"top", "lock"} =>
       proc[p].it \in 1..proc[p].limit + 1 /\ proc[p].limit >= 1
  /\ proc[p].pc \in Iterating => proc[p].it \in 1..proc[p].limit
  /\ proc[p].pc = "start" => proc[p].limit = OriginalLimit

(* A review-only session runs no executor. *)
OnlyReviews(p) ==
  proc[p].ro =>
    /\ proc[p].pc \notin Executing \cup {"start", "init", "bootstrap"}
    /\ proc[p].pc \in {"top", "lock"} => proc[p].phase = "reviewer"

(* An extension that was authorized may still be written.                  *)
Authorized(p) ==
  /\ proc[p].pc \in {"authorize", "extend"} => proc[p].add # 0
  /\ proc[p].pc = "extend" =>
       /\ doc.metadata = "bound" /\ proc[p].saw \in Failures
       /\ proc[p].limit \in Iterations
       /\ proc[p].limit + proc[p].add <= MaxEffective

(* What a reviewer approved is what the session goes on with.              *)
Approving(p) ==
  /\ proc[p].pc = "move" =>
       /\ proc[p].verdict \in Verdicts
       /\ proc[p].verdict = "APPROVED" => proc[p].before \in approvals
  /\ proc[p].pc = "compare" /\ review[proc[p].it] = "APPROVED" =>
       proc[p].before \in approvals
  /\ proc[p].pc = "freeze" => proc[p].before \in approvals
  /\ proc[p].pc = "approve" => manifest # NoContent

(* Only approved contents are frozen or published.                         *)
FrozenWasApproved ==
  /\ manifest # NoContent => manifest \in approvals
  /\ published # NoContent => published \in approvals
  /\ doc.status = "APPROVED" => manifest # NoContent

SessionInv(p) == Placed(p) /\ OnlyReviews(p) /\ Authorized(p) /\ Approving(p)

LockedInv ==
  /\ Typed
  /\ \A p \in Procs : SessionInv(p)
  /\ doc.metadata = "empty" => doc.limit = OriginalLimit
  /\ FrozenWasApproved

-----------------------------------------------------------------------------
(* The steps of one session, and the places where it makes none.           *)
SessionStep(p) ==
  \/ Step(p) \/ InstructionsRefused(p) \/ CursorTruncated(p) \/ Signal(p)
  \/ Kill(p)

Rest == {"idle", "done"}

(* No resume session while the run is live.                                *)
OneSession == proc["resume"].pc # "idle" => proc["fresh"].pc = "done"

(* agent-loop.lock is only held from run_started or flock to the exit.     *)
LockIsHeld == mutex # "none" => proc[mutex].pc \in Locked

Over == {"finalize", "idle", "done", "plan", "authorize"}

(* Once a run is APPROVED, nothing is left that would take that back.      *)
ApprovalStands ==
  ~GithubBranch /\ doc.status = "APPROVED" =>
    \A p \in Procs : proc[p].pc \in Over

(* What made an extension eligible is still so when it is written.         *)
StillSpent(p) ==
  proc[p].pc = "extend" =>
    /\ doc.status = "BLOCKED" /\ cursor = doc.limit
    /\ proc[p].limit = doc.limit
    /\ review[cursor] = "CHANGES_REQUESTED"
    /\ snapshot[cursor] = proc[p].before

AloneInv ==
  /\ OneSession /\ LockIsHeld /\ ApprovalStands
  /\ \A p \in Procs : StillSpent(p)

-----------------------------------------------------------------------------
(* The iteration file only grows, and no later iteration has artifacts.    *)
CursorLeads ==
  /\ \A n \in Iterations :
       /\ n > cursor => snapshot[n] = NoContent
       /\ result[n] # "none" \/ review[n] # "none" => snapshot[n] # NoContent
  /\ doc.status \in {"REVIEWING", "APPROVED"} => cursor # 0
  /\ doc.status = "APPROVED" => snapshot[cursor] # NoContent

CursorFollowed(p) ==
  /\ proc[p].pc \in {"start", "init", "bootstrap"} =>
       cursor = 0 /\ proc[p].phase = "executor"
  /\ proc[p].pc \in {"top", "lock"} =>
       /\ proc[p].it >= cursor
       /\ doc.status \in {"REVIEWING", "APPROVED"} => proc[p].it = cursor
  /\ proc[p].pc \in Iterating => proc[p].it = cursor
  /\ proc[p].pc \in {"prompt", "executing", "validate"} =>
       doc.status = "EXECUTING"
  /\ proc[p].pc \in {"reviewing", "move", "compare", "freeze", "approve"} =>
       snapshot[proc[p].it] # NoContent

Passed(c) == waived \/ c \in validated

(* What is reviewed, or would be by the next session, passed validation.   *)
Validated(p) ==
  /\ proc[p].ro => waived
  /\ proc[p].pc \in {"review", "snapshot"} => Passed(content)
  /\ proc[p].pc \in {"top", "lock"} /\ proc[p].phase = "reviewer" =>
       Passed(content)
  /\ proc[p].pc \in {"reviewing", "move", "compare", "freeze"} =>
       Passed(proc[p].before)

ReviewedWasValidated ==
  /\ \A n \in Iterations : snapshot[n] # NoContent => Passed(snapshot[n])
  /\ doc.status = "REVIEWING" /\ snapshot[cursor] = NoContent =>
       Passed(content)
  /\ manifest # NoContent => Passed(manifest)
  /\ published # NoContent => Passed(published)

ReviewedInv ==
  /\ CursorLeads /\ ReviewedWasValidated
  /\ \A p \in Procs : CursorFollowed(p) /\ Validated(p)

-----------------------------------------------------------------------------
(* Without review-only sessions every snapshot has the report of an        *)
(* executor, and an executor works only where there is no snapshot.        *)
SnapshotHasReport ==
  /\ \A n \in Iterations : snapshot[n] # NoContent => n \in cursorReport
  /\ doc.status = "EXECUTING" => snapshot[PlanCursor] = NoContent

Unreviewed(p) ==
  /\ ~proc[p].ro
  /\ proc[p].pc \in {"top", "lock"} =>
       IF proc[p].phase = "executor"
       THEN proc[p].it \in Iterations => snapshot[proc[p].it] = NoContent
       ELSE doc.status # "EXECUTING"
  /\ proc[p].pc \in {"begin", "prompt", "executing"} =>
       snapshot[proc[p].it] = NoContent
  /\ proc[p].pc \in {"validate", "review", "snapshot"} =>
       proc[p].it \in cursorReport
  /\ proc[p].pc \in {"snapshot", "reviewing", "move", "compare", "freeze",
                     "approve"} => doc.status = "REVIEWING"

UnreviewedInv ==
  /\ SnapshotHasReport
  /\ \A p \in Procs : Unreviewed(p)

-----------------------------------------------------------------------------
(* Without kills a run whose changes were requested stays at the iteration *)
(* that requested them, until the next executor is started.                *)
ChangesRequested(n) == n > 1 => review[n - 1] = "CHANGES_REQUESTED"

Answers(p) ==
  /\ proc[p].pc \in {"top", "lock"} /\ proc[p].phase = "executor" =>
       ChangesRequested(proc[p].it)
  /\ proc[p].pc \in {"top", "lock"} /\ proc[p].phase = "reviewer" =>
       proc[p].it = PlanCursor /\ doc.status # "CHANGES_REQUESTED"
  /\ proc[p].pc \in {"begin", "prompt", "executing"} =>
       ChangesRequested(proc[p].it)
  /\ /\ \/ proc[p].pc \in {"begin", "prompt", "executing"}
        \/ proc[p].pc = "top" /\ proc[p].phase = "executor"
     /\ proc[p].it > 1
     => proc[p].feedback = proc[p].it - 1

AnsweredInv ==
  /\ ChangesRequested(cursor)
  /\ doc.status = "CHANGES_REQUESTED"
       /\ (\A p \in Procs : proc[p].pc # "begin") =>
       cursor # 0 /\ review[cursor] = "CHANGES_REQUESTED"
  /\ \A p \in Procs : Answers(p)

-----------------------------------------------------------------------------
IInv ==
  /\ LockedInv
  /\ ~MayOverlap =>
       /\ AloneInv
       /\ ~MayTear =>
            /\ ReviewedInv
            /\ ~MayReviewOnly =>
                 /\ UnreviewedInv
                 /\ ~MayKill => AnsweredInv

-----------------------------------------------------------------------------
(* Operators of the model.                                                 *)

Others(p) == \A q \in Procs : q # p => proc'[q] = proc[q]

(* A lock that somebody else holds is not touched.                         *)
LocksLeft(p) ==
  /\ mutex' \in {mutex, p, "none"}
  /\ \A q \in Procs : q # p /\ mutex = q => mutex' = q

(* Everything in the record of a session but its place.                    *)
SameSession(p) ==
  /\ proc'[p].it = proc[p].it /\ proc'[p].phase = proc[p].phase
  /\ proc'[p].limit = proc[p].limit /\ proc'[p].ro = proc[p].ro
  /\ proc'[p].add = proc[p].add /\ proc'[p].before = proc[p].before
  /\ proc'[p].verdict = proc[p].verdict
  /\ proc'[p].feedback = proc[p].feedback /\ proc'[p].saw = proc[p].saw

LEMMA ContentsDiffer ==
  /\ NoContent \in MaybeContents /\ NoContent \notin Contents \cup {Base}
  /\ Contents \cup {Base} \subseteq MaybeContents
BY DEF MaybeContents

LEMMA FailuresDiffer ==
  /\ NoFailure \notin Failures /\ OtherFailure \in Failures
  /\ \A n \in Iterations : Exhausted(n) \in Failures
BY DEF Failures, NoFailure, OtherFailure, Exhausted, Iterations

LEMMA GoesTo ==
  ASSUME proc \in [Procs -> ProcRecords], NEW p \in Procs,
         NEW label \in Labels, Goto(p, label)
  PROVE  /\ proc' \in [Procs -> ProcRecords] /\ Others(p)
         /\ proc'[p].pc = label /\ SameSession(p)
BY DEF Goto, ProcRecords, Others, SameSession

LEMMA Becomes ==
  ASSUME proc \in [Procs -> ProcRecords], NEW p \in Procs,
         NEW next \in ProcRecords, proc' = [proc EXCEPT ![p] = next]
  PROVE  /\ proc' \in [Procs -> ProcRecords] /\ Others(p)
         /\ proc'[p] = next
BY DEF Others

LEMMA IdleIsSession ==
  /\ Idle \in ProcRecords
  /\ Idle.pc = "idle" /\ Idle.ro = FALSE /\ Idle.limit = 0 /\ Idle.it = 0
<1>1. 0 \in 0..MaxEffective + 1 /\ 0 \in 0..MaxEffective
  OBVIOUS
<1>2. NoContent \in MaybeContents /\ "idle" \in Labels
  BY DEF MaybeContents, Labels
<1>. QED  BY <1>1, <1>2 DEF Idle, ProcRecords, Extensions

LEMMA Leaves ==
  ASSUME LockedInv, NEW p \in Procs, Leave(p)
  PROVE  /\ proc' \in [Procs -> ProcRecords] /\ Others(p) /\ LocksLeft(p)
         /\ proc'[p].pc = IF p = "fresh" THEN "done" ELSE "idle"
         /\ proc'[p].ro = FALSE /\ proc'[p].limit = 0
<1>1. /\ [Idle EXCEPT !.pc = "done"] \in ProcRecords
      /\ [Idle EXCEPT !.pc = "done"].pc = "done"
      /\ [Idle EXCEPT !.pc = "done"].ro = FALSE
      /\ [Idle EXCEPT !.pc = "done"].limit = 0
  BY IdleIsSession DEF ProcRecords, Labels
<1>2. LocksLeft(p)
  BY DEF Leave, LocksLeft, LockedInv, Typed
<1>3. proc \in [Procs -> ProcRecords]
  BY DEF LockedInv, Typed
<1>4. CASE p = "fresh"
  BY <1>1, <1>2, <1>3, <1>4, Becomes DEF Leave
<1>5. CASE p # "fresh"
  BY IdleIsSession, <1>2, <1>3, <1>5, Becomes DEF Leave
<1>. QED  BY <1>4, <1>5

(* The documents the loop writes.                                          *)
LEMMA TransitionWrites ==
  ASSUME LockedInv, NEW event \in Doc!RunnerEvents
  PROVE  LET new == Doc!TransitionDoc(doc, event) IN
         /\ new \in Doc!Documents /\ new.status = Doc!Target[event]
         /\ new.metadata = doc.metadata /\ new.failure = doc.failure
         /\ new.limit = doc.limit /\ new.previous = doc.previous
         /\ new.decision = "none"
<1>1. Doc!Target[event] \in Doc!States
  BY DEF Doc!RunnerEvents, Doc!Target, Doc!States
<1>. QED
  BY <1>1 DEF LockedInv, Typed, TypedFiles, Doc!Documents, Doc!TransitionDoc

LEMMA FailureWrites ==
  ASSUME LockedInv, NEW f \in Failures
  PROVE  LET new == Doc!FailureDoc(doc, f) IN
         /\ new \in Doc!Documents /\ new.status = "BLOCKED"
         /\ new.metadata = doc.metadata /\ new.failure = f
         /\ new.limit = doc.limit /\ new.previous = doc.previous
         /\ new.decision = "none"
<1>1. "BLOCKED" \in Doc!States
  BY DEF Doc!States
<1>. QED
  BY <1>1 DEF LockedInv, Typed, TypedFiles, Doc!Documents, Doc!FailureDoc

LEMMA InitializeWrites ==
  ASSUME LockedInv
  PROVE  LET new == Doc!InitializeDoc(doc, "bound") IN
         /\ new \in Doc!Documents /\ new.status = doc.status
         /\ new.metadata = "bound" /\ new.limit = OriginalLimit
         /\ new.decision = "none"
<1>1. OriginalLimit \in OriginalLimit..MaxEffective /\ 0 \in 0..MaxEffective
  OBVIOUS
<1>2. /\ Doc!EmptyDocument \in Doc!Documents
      /\ Doc!EmptyDocument.limit = OriginalLimit
      /\ Doc!EmptyDocument.decision = "none"
  BY <1>1 DEF Doc!Documents, Doc!EmptyDocument
<1>3. doc.status \in Doc!States \cup {Doc!NoStatus}
  BY DEF LockedInv, Typed, TypedFiles, Doc!Documents
<1>. QED  BY <1>2, <1>3 DEF Doc!Documents, Doc!InitializeDoc

LEMMA ExtensionWrites ==
  ASSUME LockedInv, NEW new \in OriginalLimit..MaxEffective
  PROVE  LET next == Doc!ExtensionDoc(doc, new) IN
         /\ next \in Doc!Documents /\ next.status = "CHANGES_REQUESTED"
         /\ next.metadata = doc.metadata /\ next.failure = doc.failure
         /\ next.limit = new /\ next.decision = "none"
<1>1. "CHANGES_REQUESTED" \in Doc!States /\ doc.limit \in 0..MaxEffective
  BY DEF Doc!States, LockedInv, Typed, TypedFiles, Doc!Documents
<1>. QED
  BY <1>1 DEF LockedInv, Typed, TypedFiles, Doc!Documents, Doc!ExtensionDoc

(* The operations of the run document that the loop uses.                  *)
DocGrows ==
  /\ doc' \in Doc!Documents /\ doc'.decision = "none"
  /\ doc'.limit >= doc.limit
  /\ doc.metadata = "bound" => doc'.metadata = "bound"
  /\ doc'.metadata = "empty" => doc'.limit = OriginalLimit

(* A step of the loop that leaves metadata and budget as they are.         *)
DocMoves ==
  /\ DocGrows
  /\ doc'.limit = doc.limit /\ doc'.metadata = doc.metadata

LEMMA DocStays ==
  ASSUME LockedInv, doc' = doc
  PROVE  DocMoves
<1>1. doc.limit \in Int
  BY DEF LockedInv, Typed, TypedFiles, Doc!Documents
<1>. QED  BY <1>1 DEF DocMoves, DocGrows, LockedInv, Typed, TypedFiles

LEMMA Blocks ==
  ASSUME LockedInv, NEW f \in Failures, Block(f)
  PROVE  DocMoves /\ (doc' = doc \/ doc'.status = "BLOCKED")
<1>1. CASE doc' = doc
  BY <1>1, DocStays
<1>2. CASE doc' = Doc!FailureDoc(doc, f)
  <2>1. doc.limit \in Int
    BY DEF LockedInv, Typed, TypedFiles, Doc!Documents
  <2>. QED  BY <1>2, <2>1, FailureWrites DEF DocMoves, DocGrows, LockedInv
<1>. QED  BY <1>1, <1>2 DEF Block

LEMMA Transitions ==
  ASSUME LockedInv, NEW p \in Procs, NEW event \in Doc!RunnerEvents,
         NEW next \in ProcRecords, Transition(p, event, next)
  PROVE  /\ DocMoves /\ LocksLeft(p) /\ Others(p)
         /\ proc' \in [Procs -> ProcRecords]
         /\ \/ /\ proc'[p] = next /\ mutex' = mutex
               /\ doc'.status = Doc!Target[event]
            \/ /\ Leave(p) /\ doc' = doc
               /\ ~Doc!TransitionSucceeds(doc, event)
<1>1. CASE /\ Doc!TransitionSucceeds(doc, event)
           /\ doc' = IF Doc!TransitionWrites(doc, event)
                     THEN Doc!TransitionDoc(doc, event) ELSE doc
           /\ proc' = [proc EXCEPT ![p] = next]
           /\ UNCHANGED mutex
  <2>1. DocMoves /\ doc'.status = Doc!Target[event]
    <3>1. CASE Doc!TransitionWrites(doc, event)
      <4>1. doc.limit \in Int
        BY DEF LockedInv, Typed, TypedFiles, Doc!Documents
      <4>. QED
        BY <1>1, <3>1, <4>1, TransitionWrites DEF DocMoves, DocGrows, LockedInv
    <3>2. CASE ~Doc!TransitionWrites(doc, event)
      BY <1>1, <3>2, DocStays DEF Doc!TransitionSucceeds
    <3>. QED  BY <3>1, <3>2
  <2>2. LocksLeft(p)
    BY <1>1 DEF LocksLeft, LockedInv, Typed
  <2>3. /\ proc' \in [Procs -> ProcRecords] /\ Others(p) /\ proc'[p] = next
    BY <1>1, Becomes DEF LockedInv, Typed
  <2>. QED  BY <1>1, <2>1, <2>2, <2>3
<1>2. CASE ~Doc!TransitionSucceeds(doc, event) /\ Leave(p) /\ UNCHANGED doc
  BY <1>2, Leaves, DocStays
<1>. QED  BY <1>1, <1>2 DEF Transition

-----------------------------------------------------------------------------
(* One session moves: what the others rely on is still there.              *)
LEMMA OthersAreSound ==
  ASSUME LockedInv, NEW p \in Procs, Others(p), LocksLeft(p), DocGrows,
         approvals \subseteq approvals',
         manifest # NoContent => manifest' # NoContent,
         review' = review \/ proc[p].pc \in Locked
  PROVE  \A q \in Procs : q # p => SessionInv(q)'
<1>. SUFFICES ASSUME NEW q \in Procs, q # p PROVE SessionInv(q)'
  OBVIOUS
<1>1. SessionInv(q) /\ SessionInv(p) /\ proc'[q] = proc[q]
  BY DEF LockedInv, Others
<1>2. /\ doc.limit \in Nat /\ doc'.limit \in Nat /\ proc[q].limit \in Nat
      /\ doc'.limit >= doc.limit
  BY DEF DocGrows, LockedInv, Typed, TypedFiles, Doc!Documents, ProcRecords
<1>3. Placed(q)'
  BY <1>1, <1>2 DEF SessionInv, Placed, LocksLeft, Places
<1>4. OnlyReviews(q)' /\ Authorized(q)'
  BY <1>1 DEF SessionInv, OnlyReviews, Authorized, DocGrows
<1>5. proc[q].pc = "compare" => review' = review
  BY <1>1 DEF SessionInv, Placed, Locked, Iterating, Reviewing
<1>6. Approving(q)'
  BY <1>1, <1>5 DEF SessionInv, Approving
<1>. QED  BY <1>3, <1>4, <1>6 DEF SessionInv

LEMMA StepKeepsLocks ==
  ASSUME LockedInv, NEW p \in Procs, Others(p), LocksLeft(p), DocGrows,
         approvals \subseteq approvals',
         manifest # NoContent => manifest' # NoContent,
         review' = review \/ proc[p].pc \in Locked,
         TypedFiles', proc' \in [Procs -> ProcRecords],
         SessionInv(p)', FrozenWasApproved'
  PROVE  LockedInv'
BY OthersAreSound DEF LockedInv, Typed, LocksLeft, DocGrows

(* The frequent case: no file but state.json is written.                   *)
LEMMA SessionStepKeepsLocks ==
  ASSUME LockedInv, NEW p \in Procs, Others(p), LocksLeft(p), DocGrows,
         proc' \in [Procs -> ProcRecords], SessionInv(p)',
         UNCHANGED <<artifacts, content, outcome, approvals>>,
         doc'.status = "APPROVED" => manifest # NoContent
  PROVE  LockedInv'
<1>1. TypedFiles'
  <2>1. doc.limit \in Nat /\ doc'.limit \in Nat
    BY DEF DocGrows, LockedInv, Typed, TypedFiles, Doc!Documents
  <2>. QED  BY <2>1 DEF DocGrows, LockedInv, Typed, TypedFiles, artifacts, outcome
<1>2. FrozenWasApproved'
  BY DEF LockedInv, FrozenWasApproved, outcome
<1>. QED  BY <1>1, <1>2, StepKeepsLocks DEF artifacts, outcome

LEMMA GoneIsSound ==
  ASSUME LockedInv, NEW p \in Procs, Leave(p), DocGrows
  PROVE  SessionInv(p)'
<1>1. /\ proc'[p].pc = IF p = "fresh" THEN "done" ELSE "idle"
      /\ proc'[p].ro = FALSE /\ proc'[p].limit = 0
  BY Leaves
<1>2. doc'.limit \in Nat
  BY DEF DocGrows, Doc!Documents
<1>. QED
  BY <1>1, <1>2 DEF SessionInv, Placed, Places, OnlyReviews, Authorized, Approving,
     Locked, Iterating, Executing, Reviewing

(* A session ends, and at most blocks the run.                             *)
LEMMA LeavingKeepsLocks ==
  ASSUME LockedInv, NEW p \in Procs, Leave(p), DocGrows,
         doc' = doc \/ doc'.status = "BLOCKED",
         UNCHANGED <<artifacts, content, outcome, approvals>>
  PROVE  LockedInv'
BY Leaves, GoneIsSound, SessionStepKeepsLocks DEF LockedInv, FrozenWasApproved

-----------------------------------------------------------------------------
(* What each command does to its session and to the run document.          *)

Moves(p) ==
  proc' \in [Procs -> ProcRecords] /\ Others(p) /\ LocksLeft(p)

LEMMA SessionFields ==
  ASSUME LockedInv, NEW p \in Procs
  PROVE  /\ proc \in [Procs -> ProcRecords] /\ proc[p] \in ProcRecords
         /\ SessionInv(p) /\ proc[p].it \in Nat /\ proc[p].limit \in Nat
         /\ proc[p].limit <= MaxEffective
         /\ doc.limit \in Nat /\ doc.limit <= MaxEffective
         /\ cursor \in Nat /\ cursor <= doc.limit /\ doc.limit >= 1
<1>1. proc[p].it \in 0..MaxEffective + 1 /\ proc[p].limit \in 0..MaxEffective
  BY DEF LockedInv, Typed, ProcRecords
<1>2. doc.limit \in OriginalLimit..MaxEffective /\ cursor \in 0..doc.limit
  BY DEF LockedInv, Typed, TypedFiles, Doc!Documents
<1>. QED  BY <1>1, <1>2 DEF LockedInv, Typed

LEMMA Going ==
  ASSUME LockedInv, NEW p \in Procs, NEW label \in Labels, Goto(p, label),
         mutex' = mutex
  PROVE  Moves(p) /\ proc'[p].pc = label /\ SameSession(p)
BY GoesTo DEF LockedInv, Typed, Moves, LocksLeft

LEMMA Becoming ==
  ASSUME LockedInv, NEW p \in Procs, NEW next \in ProcRecords,
         proc' = [proc EXCEPT ![p] = next], mutex' = mutex
  PROVE  Moves(p) /\ proc'[p] = next
BY Becomes DEF LockedInv, Typed, Moves, LocksLeft

LEMMA Leaving ==
  ASSUME LockedInv, NEW p \in Procs, Leave(p)
  PROVE  /\ Moves(p) /\ proc'[p].ro = FALSE
         /\ proc'[p].pc = IF p = "fresh" THEN "done" ELSE "idle"
BY Leaves DEF Moves

LEMMA TransitionsTo ==
  ASSUME LockedInv, NEW p \in Procs, NEW event \in Doc!RunnerEvents,
         NEW label \in Labels,
         Transition(p, event, [proc[p] EXCEPT !.pc = label])
  PROVE  /\ Moves(p) /\ DocMoves
         /\ \/ /\ proc'[p].pc = label /\ SameSession(p) /\ mutex' = mutex
               /\ doc'.status = Doc!Target[event]
            \/ /\ Leave(p) /\ doc' = doc
               /\ ~Doc!TransitionSucceeds(doc, event)
<1>. DEFINE next == [proc[p] EXCEPT !.pc = label]
<1>1. proc[p] \in ProcRecords
  BY SessionFields
<1>2. /\ next \in ProcRecords /\ next.pc = label /\ next.it = proc[p].it
      /\ next.phase = proc[p].phase /\ next.limit = proc[p].limit
      /\ next.ro = proc[p].ro /\ next.add = proc[p].add
      /\ next.before = proc[p].before /\ next.verdict = proc[p].verdict
      /\ next.feedback = proc[p].feedback /\ next.saw = proc[p].saw
  BY <1>1 DEF ProcRecords
<1>. HIDE DEF next
<1>. QED  BY <1>2, Transitions DEF next, Moves, SameSession

LEMMA RunStartedDoes ==
  ASSUME LockedInv, NEW p \in Procs, RunStarted(p)
  PROVE  /\ Moves(p) /\ proc'[p].pc = "init" /\ SameSession(p)
         /\ DocMoves /\ doc'.status = "EXECUTING"
<1>1. DocMoves /\ doc'.status = "EXECUTING"
  BY SessionFields, TransitionWrites
     DEF RunStarted, Doc!TransitionRun, Doc!RunnerEvents, Doc!Target, DocMoves,
         DocGrows, LockedInv
<1>2. /\ proc' \in [Procs -> ProcRecords] /\ Others(p)
      /\ proc'[p].pc = "init" /\ SameSession(p)
  BY SessionFields, GoesTo DEF RunStarted, Labels
<1>. QED  BY <1>1, <1>2 DEF RunStarted, LocksLeft, Moves, Procs

LEMMA InitRunDoes ==
  ASSUME LockedInv, NEW p \in Procs, InitRun(p)
  PROVE  /\ Moves(p) /\ SameSession(p)
         /\ proc'[p].pc \in {"bootstrap", "failed"}
         /\ DocGrows /\ doc'.status = doc.status
<1>1. DocGrows /\ doc'.status = doc.status
  <2>1. CASE Doc!InitializeRunState("bound")
    BY <2>1, SessionFields, InitializeWrites
       DEF Doc!InitializeRunState, Doc!InitializeEligible,
           Doc!InitializeWrites, DocGrows, LockedInv
  <2>. QED  BY <2>1, DocStays DEF InitRun, DocMoves
<1>. QED  BY <1>1, Going DEF InitRun, Labels

LEMMA BootstrapDoes ==
  ASSUME LockedInv, NEW p \in Procs, Bootstrap(p)
  PROVE  /\ Moves(p) /\ proc'[p].limit = proc[p].limit
         /\ proc'[p].ro = proc[p].ro /\ proc'[p].phase = proc[p].phase
         /\ \/ proc'[p].pc = "failed"
            \/ proc'[p].pc = "top" /\ proc'[p].it = 1
<1>1. CASE proc' = [proc EXCEPT ![p].pc = "top", ![p].it = 1]
  <2>. DEFINE next == [proc[p] EXCEPT !.pc = "top", !.it = 1]
  <2>1. proc[p] \in ProcRecords
    BY SessionFields
  <2>2. proc' = [proc EXCEPT ![p] = next]
    BY <1>1, SessionFields
  <2>3. "top" \in Labels /\ 1 \in 0..MaxEffective + 1
    BY DEF Labels
  <2>4. /\ next \in ProcRecords /\ next.pc = "top" /\ next.it = 1
        /\ next.limit = proc[p].limit /\ next.ro = proc[p].ro
        /\ next.phase = proc[p].phase
    BY <2>1, <2>3 DEF ProcRecords
  <2>. HIDE DEF next
  <2>. QED  BY <2>2, <2>4, Becoming DEF Bootstrap
<1>2. CASE Goto(p, "failed")
  BY <1>2, Going DEF Labels, SameSession, Bootstrap
<1>. QED  BY <1>1, <1>2 DEF Bootstrap

LEMMA ResumeExecDoes ==
  ASSUME LockedInv, NEW ro \in BOOLEAN, NEW add \in Extensions,
         ResumeExec(ro, add)
  PROVE  /\ Moves("resume") /\ proc["resume"].pc = "idle"
         /\ \/ proc'["resume"].pc = "plan"
            \/ proc'["resume"].pc = "authorize" /\ add # 0
         /\ proc'["resume"].ro = ro /\ proc'["resume"].add = add
         /\ proc'["resume"].limit = 0
<1>. DEFINE next == [Idle EXCEPT !.pc = IF add = 0 THEN "plan" ELSE "authorize",
                                 !.ro = ro, !.add = add]
<1>1. {"plan", "authorize"} \subseteq Labels
  BY DEF Labels
<1>2. /\ next \in ProcRecords /\ next.ro = ro /\ next.add = add
      /\ next.limit = 0
      /\ next.pc = IF add = 0 THEN "plan" ELSE "authorize"
  BY <1>1, IdleIsSession DEF ProcRecords
<1>3. "resume" \in Procs
  BY DEF Procs
<1>4. /\ proc' = [proc EXCEPT !["resume"] = next] /\ mutex' = mutex
      /\ proc["resume"].pc = "idle"
  BY DEF ResumeExec, At
<1>. HIDE DEF next
<1>5. Moves("resume") /\ proc'["resume"] = next
  BY <1>2, <1>3, <1>4, Becoming
<1>. QED  BY <1>2, <1>4, <1>5

LEMMA AuthorizeExtensionDoes ==
  ASSUME LockedInv, NEW p \in Procs, AuthorizeExtension(p)
  PROVE  /\ Moves(p)
         /\ \/ proc'[p].pc = "plan" /\ SameSession(p)
            \/ /\ ValidRun /\ ExtensionEligible(proc[p].add)
               /\ proc'[p].pc = "extend" /\ proc'[p].saw = doc.failure
               /\ proc'[p].limit = doc.limit /\ proc'[p].before = content
               /\ proc'[p].add = proc[p].add /\ proc'[p].ro = proc[p].ro
            \/ Leave(p)
<1>1. CASE Goto(p, "plan") /\ UNCHANGED mutex
  BY <1>1, Going DEF Labels
<1>2. CASE /\ ValidRun /\ ExtensionEligible(proc[p].add)
           /\ proc' = [proc EXCEPT ![p].pc = "extend", ![p].saw = doc.failure,
                                   ![p].limit = doc.limit,
                                   ![p].before = content]
           /\ UNCHANGED mutex
  <2>. DEFINE next == [proc[p] EXCEPT !.pc = "extend", !.saw = doc.failure,
                                      !.limit = doc.limit, !.before = content]
  <2>1. proc[p] \in ProcRecords
    BY SessionFields
  <2>2. proc' = [proc EXCEPT ![p] = next]
    BY <1>2, SessionFields
  <2>3. /\ "extend" \in Labels /\ doc.failure \in Failures \cup {NoFailure}
        /\ doc.limit \in 0..MaxEffective /\ content \in MaybeContents
    BY DEF LockedInv, Typed, TypedFiles, Doc!Documents, MaybeContents, Labels
  <2>4. /\ next \in ProcRecords /\ next.pc = "extend"
        /\ next.saw = doc.failure /\ next.limit = doc.limit
        /\ next.before = content
        /\ next.add = proc[p].add /\ next.ro = proc[p].ro
    BY <2>1, <2>3 DEF ProcRecords
  <2>. HIDE DEF next
  <2>. QED  BY <1>2, <2>2, <2>4, Becoming
<1>3. CASE Leave(p)
  BY <1>3, Leaving
<1>. QED  BY <1>1, <1>2, <1>3 DEF AuthorizeExtension

(* record_iteration_budget_extension: an extension that is written meets   *)
(* every condition of the operation.                                       *)
LEMMA RecordExtensionDoes ==
  ASSUME LockedInv, NEW p \in Procs, RecordExtension(p)
  PROVE  /\ Moves(p)
         /\ \/ /\ doc.status = "BLOCKED" /\ doc.limit = proc[p].limit
               /\ Doc!RecordIterationBudgetExtension(
                    proc[p].saw, proc[p].limit + proc[p].add)
               /\ proc[p].saw \in Failures
               /\ proc[p].limit + proc[p].add \in OriginalLimit..MaxEffective
               /\ DocGrows /\ doc'.status = "CHANGES_REQUESTED"
               /\ proc'[p].pc = "plan" /\ proc'[p].ro = FALSE
               /\ proc'[p].limit = 0
               /\ grant' = [grant EXCEPT ![proc[p].limit] = proc[p].before]
            \/ Leave(p) /\ UNCHANGED <<doc, grant>>
<1>. DEFINE new == proc[p].limit + proc[p].add
<1>1. CASE Leave(p) /\ UNCHANGED <<doc, grant>>
  BY <1>1, Leaving
<1>2. CASE /\ Doc!ExtensionWrites(doc, proc[p].saw, proc[p].limit)
           /\ doc' = Doc!ExtensionDoc(doc, new)
           /\ grant' = [grant EXCEPT ![proc[p].limit] = proc[p].before]
           /\ proc' = [proc EXCEPT ![p] = [Idle EXCEPT !.pc = "plan"]]
           /\ UNCHANGED mutex
  <2>1. /\ doc.metadata = "bound" /\ proc[p].saw \in Failures
        /\ proc[p].add # 0 /\ proc[p].limit = doc.limit
        /\ doc.status = "BLOCKED" /\ doc.failure = proc[p].saw
        /\ new <= MaxEffective
    BY <1>2, SessionFields DEF RecordExtension, At, SessionInv, Authorized,
       Doc!ExtensionWrites
  <2>2. proc[p].add \in Nat \ {0} /\ doc.limit \in OriginalLimit..MaxEffective
    BY <2>1, SessionFields DEF ProcRecords, Extensions, LockedInv, Typed,
       TypedFiles, Doc!Documents
  <2>3. new \in OriginalLimit..MaxEffective /\ new > doc.limit
    BY <2>1, <2>2
  <2>4. DocGrows /\ doc'.status = "CHANGES_REQUESTED"
    <3>. HIDE DEF new
    <3>1. /\ doc' \in Doc!Documents /\ doc'.metadata = "bound"
          /\ doc'.limit = new /\ doc'.decision = "none"
          /\ doc'.status = "CHANGES_REQUESTED"
      BY <1>2, <2>1, <2>3, ExtensionWrites
    <3>. QED  BY <2>2, <2>3, <3>1 DEF DocGrows
  <2>5. Doc!RecordIterationBudgetExtension(proc[p].saw, new)
    BY <1>2, <2>1, <2>3, FailuresDiffer
       DEF Doc!RecordIterationBudgetExtension, Doc!ExtensionEligible,
           LockedInv, Typed, TypedFiles
  <2>6. Moves(p) /\ proc'[p].pc = "plan" /\ proc'[p].ro = FALSE
        /\ proc'[p].limit = 0
    <3>. DEFINE next == [Idle EXCEPT !.pc = "plan"]
    <3>1. /\ next \in ProcRecords /\ next.pc = "plan" /\ next.ro = FALSE
          /\ next.limit = 0
      BY IdleIsSession DEF ProcRecords, Labels
    <3>. HIDE DEF next
    <3>. QED  BY <1>2, <3>1, Becoming DEF next
  <2>. HIDE DEF new
  <2>. QED  BY <1>2, <2>1, <2>3, <2>4, <2>5, <2>6 DEF new
<1>. QED  BY <1>1, <1>2 DEF RecordExtension

LEMMA PlanResumeDoes ==
  ASSUME LockedInv, NEW p \in Procs, PlanResume(p)
  PROVE  /\ Moves(p)
         /\ \/ /\ Resumable /\ PlanPhase(proc[p].ro) # "complete"
               /\ proc'[p].pc = "lock" /\ proc'[p].ro = proc[p].ro
               /\ proc'[p].phase = PlanPhase(proc[p].ro)
               /\ proc'[p].it = PlanIteration(proc[p].ro)
               /\ proc'[p].limit = doc.limit
               /\ proc'[p].it \in 1..doc.limit + 1
            \/ Leave(p)
<1>1. CASE Leave(p)
  BY <1>1, Leaving
<1>2. CASE ~Leave(p)
  <2>. DEFINE ro == proc[p].ro
              next == [Idle EXCEPT !.pc = "lock", !.ro = ro,
                                   !.phase = PlanPhase(ro),
                                   !.it = PlanIteration(ro),
                                   !.limit = doc.limit]
  <2>1. /\ Resumable /\ PlanPhase(ro) # "complete"
        /\ proc' = [proc EXCEPT ![p] = next] /\ UNCHANGED mutex
    BY <1>2 DEF PlanResume
  <2>2. PlanPhase(ro) \in {"executor", "reviewer"}
    BY <2>1 DEF PlanPhase
  <2>3. PlanIteration(ro) \in 1..doc.limit + 1
    BY <2>1, SessionFields DEF PlanIteration, PlanCursor, Resumable
  <2>4. /\ PlanIteration(ro) \in 0..MaxEffective + 1
        /\ doc.limit \in 0..MaxEffective /\ ro \in BOOLEAN
        /\ "lock" \in Labels
    BY <2>3, SessionFields DEF ProcRecords, Labels
  <2>5. /\ next \in ProcRecords /\ next.pc = "lock" /\ next.ro = ro
        /\ next.phase = PlanPhase(ro) /\ next.it = PlanIteration(ro)
        /\ next.limit = doc.limit
    BY <2>2, <2>4, IdleIsSession DEF ProcRecords
  <2>. HIDE DEF next
  <2>. QED  BY <2>1, <2>3, <2>5, Becoming
<1>. QED  BY <1>1, <1>2

LEMMA LockLoopDoes ==
  ASSUME LockedInv, NEW p \in Procs, LockLoop(p)
  PROVE  /\ Moves(p)
         /\ \/ /\ proc'[p].pc = "top" /\ mutex' = p
               /\ proc'[p].it = proc[p].it /\ proc'[p].limit = proc[p].limit
               /\ proc'[p].ro = proc[p].ro /\ proc'[p].phase = proc[p].phase
               /\ proc'[p].feedback = IF proc[p].phase = "executor"
                                      THEN Feedback(proc[p].it) ELSE 0
            \/ Leave(p)
<1>1. CASE Leave(p)
  BY <1>1, Leaving
<1>2. CASE ~Leave(p)
  <2>. DEFINE shown == IF proc[p].phase = "executor"
                       THEN Feedback(proc[p].it) ELSE 0
              next == [proc[p] EXCEPT !.pc = "top", !.feedback = shown]
  <2>1. /\ mutex = "none" /\ mutex' = p
        /\ proc' = [proc EXCEPT ![p].pc = "top", ![p].feedback = shown]
    BY <1>2 DEF LockLoop
  <2>2. proc[p] \in ProcRecords
    BY SessionFields
  <2>3. shown \in 0..MaxEffective /\ "top" \in Labels
    <3>1. proc[p].it \in 0..MaxEffective + 1
      BY <2>2 DEF ProcRecords
    <3>. QED  BY <3>1 DEF Feedback, Labels
  <2>. HIDE DEF shown
  <2>4. /\ next \in ProcRecords /\ next.pc = "top" /\ next.it = proc[p].it
        /\ next.limit = proc[p].limit /\ next.ro = proc[p].ro
        /\ next.phase = proc[p].phase /\ next.feedback = shown
    BY <2>2, <2>3 DEF ProcRecords
  <2>5. proc' = [proc EXCEPT ![p] = next]
    BY <2>1, SessionFields
  <2>. HIDE DEF next
  <2>6. /\ proc' \in [Procs -> ProcRecords] /\ Others(p) /\ proc'[p] = next
    BY <2>4, <2>5, SessionFields, Becomes
  <2>7. LocksLeft(p)
    BY <2>1 DEF LocksLeft, Procs
  <2>. QED  BY <2>1, <2>4, <2>6, <2>7 DEF Moves, shown
<1>. QED  BY <1>1, <1>2

(* A session goes on with a snapshot, or with a verdict.                   *)
SameLoop(p) ==
  /\ proc'[p].it = proc[p].it /\ proc'[p].phase = proc[p].phase
  /\ proc'[p].limit = proc[p].limit /\ proc'[p].ro = proc[p].ro
  /\ proc'[p].feedback = proc[p].feedback

LEMMA GoingWithSnapshot ==
  ASSUME LockedInv, NEW p \in Procs, NEW label \in Labels,
         NEW c \in MaybeContents,
         proc' = [proc EXCEPT ![p].pc = label, ![p].before = c],
         mutex' = mutex
  PROVE  /\ Moves(p) /\ SameLoop(p)
         /\ proc'[p].pc = label /\ proc'[p].before = c
<1>. DEFINE next == [proc[p] EXCEPT !.pc = label, !.before = c]
<1>1. proc[p] \in ProcRecords
  BY SessionFields
<1>2. proc' = [proc EXCEPT ![p] = next]
  BY SessionFields
<1>3. /\ next \in ProcRecords /\ next.pc = label /\ next.before = c
      /\ next.it = proc[p].it /\ next.phase = proc[p].phase
      /\ next.limit = proc[p].limit /\ next.ro = proc[p].ro
      /\ next.feedback = proc[p].feedback
  BY <1>1 DEF ProcRecords
<1>. HIDE DEF next
<1>4. Moves(p) /\ proc'[p] = next
  BY <1>2, <1>3, Becoming
<1>. QED  BY <1>3, <1>4 DEF SameLoop

LEMMA GoingWithVerdict ==
  ASSUME LockedInv, NEW p \in Procs, NEW label \in Labels,
         NEW v \in Verdicts \cup {"none"},
         proc' = [proc EXCEPT ![p].pc = label, ![p].verdict = v],
         mutex' = mutex
  PROVE  /\ Moves(p) /\ SameLoop(p)
         /\ proc'[p].pc = label /\ proc'[p].before = proc[p].before
         /\ proc'[p].verdict = v
<1>. DEFINE next == [proc[p] EXCEPT !.pc = label, !.verdict = v]
<1>1. proc[p] \in ProcRecords
  BY SessionFields
<1>2. proc' = [proc EXCEPT ![p] = next]
  BY SessionFields
<1>3. /\ next \in ProcRecords /\ next.pc = label /\ next.verdict = v
      /\ next.before = proc[p].before
      /\ next.it = proc[p].it /\ next.phase = proc[p].phase
      /\ next.limit = proc[p].limit /\ next.ro = proc[p].ro
      /\ next.feedback = proc[p].feedback
  BY <1>1 DEF ProcRecords
<1>. HIDE DEF next
<1>4. Moves(p) /\ proc'[p] = next
  BY <1>2, <1>3, Becoming
<1>. QED  BY <1>3, <1>4 DEF SameLoop

LEMMA RecordReviewSnapshotDoes ==
  ASSUME LockedInv, NEW p \in Procs, RecordReviewSnapshot(p)
  PROVE  /\ Moves(p) /\ SameLoop(p)
         /\ \/ /\ proc'[p].pc = "reviewing" /\ proc'[p].before = content
               /\ snapshot' = [snapshot EXCEPT ![proc[p].it] = content]
            \/ proc'[p].pc = "failed" /\ snapshot' = snapshot
<1>1. CASE Goto(p, "failed") /\ UNCHANGED snapshot
  BY <1>1, Going DEF RecordReviewSnapshot, Labels, SameLoop, SameSession
<1>2. CASE /\ snapshot' = [snapshot EXCEPT ![proc[p].it] = content]
           /\ proc' = [proc EXCEPT ![p].pc = "reviewing", ![p].before = content]
  <2>1. content \in MaybeContents /\ "reviewing" \in Labels
    BY ContentsDiffer DEF LockedInv, Typed, TypedFiles, Labels
  <2>. QED  BY <1>2, <2>1, GoingWithSnapshot DEF RecordReviewSnapshot
<1>. QED  BY <1>1, <1>2 DEF RecordReviewSnapshot

LEMMA ReviewerEndsDoes ==
  ASSUME LockedInv, NEW p \in Procs, ReviewerEnds(p)
  PROVE  /\ Moves(p) /\ SameLoop(p)
         /\ \E r \in {"completed", "failed", result[proc[p].it]} :
              result' = [result EXCEPT ![proc[p].it] = r]
         /\ \/ /\ proc'[p].pc = "move" /\ proc'[p].before = proc[p].before
               /\ proc'[p].verdict \in Verdicts
               /\ approvals' = IF proc'[p].verdict = "APPROVED"
                               THEN approvals \cup {proc[p].before}
                               ELSE approvals
            \/ proc'[p].pc = "failed" /\ approvals' = approvals
<1>0. mutex' = mutex
  BY DEF ReviewerEnds
<1>1. ASSUME NEW v \in Verdicts,
             result' = [result EXCEPT ![proc[p].it] = "completed"],
             proc' = [proc EXCEPT ![p].pc = "move", ![p].verdict = v],
             approvals' = IF v = "APPROVED"
                          THEN approvals \cup {proc[p].before} ELSE approvals
      PROVE  /\ Moves(p) /\ SameLoop(p)
             /\ proc'[p].pc = "move" /\ proc'[p].before = proc[p].before
             /\ proc'[p].verdict = v
  BY <1>0, <1>1, GoingWithVerdict DEF Labels
<1>2. ASSUME proc' = [proc EXCEPT ![p].pc = "failed", ![p].before = NoContent]
      PROVE  Moves(p) /\ SameLoop(p) /\ proc'[p].pc = "failed"
  BY <1>0, <1>2, GoingWithSnapshot, ContentsDiffer DEF Labels
<1>. QED  BY <1>1, <1>2 DEF ReviewerEnds

LEMMA MoveReviewDoes ==
  ASSUME LockedInv, NEW p \in Procs, MoveReview(p)
  PROVE  /\ Moves(p) /\ SameLoop(p)
         /\ proc'[p].pc = "compare" /\ proc'[p].before = proc[p].before
         /\ review' = [review EXCEPT ![proc[p].it] = proc[p].verdict]
         /\ rewritten' \subseteq rewritten \cup {proc[p].it}
BY GoingWithVerdict DEF MoveReview, Labels

(* After a review the session stops, or freezes what was reviewed, or      *)
(* starts the next iteration; a refused event ends it.                     *)
LEMMA CompareAndDecideDoes ==
  ASSUME LockedInv, NEW p \in Procs, CompareAndDecide(p)
  PROVE  /\ Moves(p) /\ DocMoves
         /\ \/ /\ proc'[p].pc = "failed" /\ SameLoop(p)
               /\ UNCHANGED <<doc, mutex>>
            \/ /\ proc'[p].pc = "freeze" /\ SameLoop(p)
               /\ UNCHANGED <<doc, mutex>>
               /\ content = proc[p].before /\ proc'[p].before = content
               /\ review[proc[p].it] = "APPROVED"
            \/ /\ proc'[p].pc = IF proc[p].ro THEN "exiting" ELSE "top"
               /\ proc'[p].it = proc[p].it + 1 /\ proc'[p].phase = "executor"
               /\ proc'[p].limit = proc[p].limit /\ proc'[p].ro = proc[p].ro
               /\ proc'[p].feedback = proc[p].it
               /\ doc'.status = "CHANGES_REQUESTED" /\ mutex' = mutex
               /\ review[proc[p].it] = "CHANGES_REQUESTED"
            \/ Leave(p) /\ doc' = doc
<1>. DEFINE next == RequestedChanges(p)
<1>1. /\ proc[p] \in ProcRecords /\ proc[p].it \in 1..proc[p].limit
      /\ proc[p].limit \in Nat /\ proc[p].limit <= MaxEffective
  BY SessionFields DEF CompareAndDecide, At, SessionInv, Placed, Iterating,
     Reviewing
<1>2. /\ next \in ProcRecords /\ next.it = proc[p].it + 1
      /\ next.pc = IF proc[p].ro THEN "exiting" ELSE "top"
      /\ next.phase = "executor" /\ next.feedback = proc[p].it
      /\ next.limit = proc[p].limit /\ next.ro = proc[p].ro
  <2>1. /\ proc[p].it + 1 \in 0..MaxEffective + 1
        /\ proc[p].it \in 0..MaxEffective
        /\ {"top", "exiting"} \subseteq Labels /\ NoContent \in MaybeContents
    BY <1>1 DEF Labels, MaybeContents
  <2>2. /\ NextIteration(p) \in ProcRecords
        /\ NextIteration(p).it = proc[p].it + 1
        /\ NextIteration(p).pc = "top"
        /\ NextIteration(p).phase = "executor"
        /\ NextIteration(p).feedback = proc[p].it
        /\ NextIteration(p).limit = proc[p].limit
        /\ NextIteration(p).ro = proc[p].ro
    BY <1>1, <2>1 DEF NextIteration, ProcRecords
  <2>. HIDE DEF next
  <2>3. CASE proc[p].ro
    <3>1. next = [NextIteration(p) EXCEPT !.pc = "exiting"]
      BY <2>3 DEF next, RequestedChanges
    <3>. QED  BY <2>1, <2>2, <2>3, <3>1 DEF ProcRecords
  <2>4. CASE ~proc[p].ro
    BY <2>2, <2>4 DEF next, RequestedChanges
  <2>. QED  BY <2>3, <2>4
<1>. HIDE DEF next
<1>3. CASE /\ ReviewUnchanged(p) /\ review[proc[p].it] = "CHANGES_REQUESTED"
           /\ Transition(p, "review_changes_requested", next)
  BY <1>2, <1>3, Transitions
     DEF Moves, Doc!RunnerEvents, Doc!Target
<1>4. CASE /\ ReviewUnchanged(p) /\ review[proc[p].it] = "APPROVED"
           /\ proc' = [proc EXCEPT ![p].pc = "freeze", ![p].before = content]
           /\ UNCHANGED <<doc, mutex>>
  <2>1. content \in MaybeContents /\ "freeze" \in Labels
    BY ContentsDiffer DEF LockedInv, Typed, TypedFiles, Labels
  <2>2. /\ Moves(p) /\ SameLoop(p)
        /\ proc'[p].pc = "freeze" /\ proc'[p].before = content
    BY <1>4, <2>1, GoingWithSnapshot
  <2>3. doc' = doc /\ DocMoves
    BY <1>4, DocStays
  <2>. QED  BY <1>4, <2>2, <2>3 DEF ReviewUnchanged
<1>5. CASE /\ proc' = [proc EXCEPT ![p].pc = "failed", ![p].before = NoContent]
           /\ UNCHANGED <<doc, mutex>>
  BY <1>5, GoingWithSnapshot, DocStays, ContentsDiffer DEF Labels
<1>. QED  BY <1>3, <1>4, <1>5 DEF CompareAndDecide, next

-----------------------------------------------------------------------------
(* Layer 1: every command keeps LockedInv.                                 *)

LEMMA InitLocked == Init => LockedInv
<1>. SUFFICES ASSUME Init PROVE LockedInv
  OBVIOUS
<1>1. /\ OriginalLimit \in OriginalLimit..MaxEffective
      /\ OriginalLimit \in 0..MaxEffective /\ 0 \in 0..MaxEffective
      /\ 0 \in 0..OriginalLimit
  OBVIOUS
<1>2. doc \in Doc!Documents /\ doc.decision = "none" /\ doc.status = "NONE"
      /\ doc.limit = OriginalLimit
  BY <1>1 DEF Init, Doc!EmptyDocument, Doc!Documents, Doc!NoStatus
<1>3. TypedFiles
  BY <1>1, <1>2, ContentsDiffer DEF Init, TypedFiles
<1>4. /\ proc \in [Procs -> ProcRecords]
      /\ proc["fresh"].pc = "start" /\ proc["fresh"].limit = OriginalLimit
      /\ proc["fresh"].ro = FALSE /\ proc["resume"] = Idle
  <2>. DEFINE fresh == [Idle EXCEPT !.pc = "start", !.limit = OriginalLimit]
  <2>1. /\ fresh \in ProcRecords /\ fresh.pc = "start"
        /\ fresh.limit = OriginalLimit /\ fresh.ro = FALSE
    BY <1>1, IdleIsSession DEF ProcRecords, Labels
  <2>2. proc = [p \in Procs |-> IF p = "fresh" THEN fresh ELSE Idle]
    BY DEF Init
  <2>. HIDE DEF fresh
  <2>. QED  BY <2>1, <2>2, IdleIsSession DEF Procs
<1>5. ASSUME NEW p \in Procs PROVE SessionInv(p)
  <2>1. p = "fresh" \/ p = "resume"
    BY DEF Procs
  <2>. QED
    BY <1>2, <1>4, <2>1, IdleIsSession
       DEF SessionInv, Placed, Places, OnlyReviews, Authorized, Approving,
           Locked, Iterating, Executing, Reviewing
<1>. QED  BY <1>2, <1>3, <1>4, <1>5 DEF Init, LockedInv, Typed, FrozenWasApproved

LEMMA RunStartedKeepsLocks ==
  ASSUME LockedInv, NEW p \in Procs, RunStarted(p)
  PROVE  LockedInv'
<1>1. SessionInv(p)'
  BY RunStartedDoes, SessionFields
     DEF RunStarted, At, SameSession, SessionInv, Placed, Places, OnlyReviews,
         Authorized, Approving, Locked, Iterating, Executing, Reviewing,
         DocMoves
<1>. QED
  BY <1>1, RunStartedDoes, SessionStepKeepsLocks
     DEF RunStarted, Moves, DocMoves, worktree, history

LEMMA InitRunKeepsLocks ==
  ASSUME LockedInv, NEW p \in Procs, InitRun(p)
  PROVE  LockedInv'
<1>1. SessionInv(p)'
  BY InitRunDoes, SessionFields
     DEF InitRun, At, SameSession, SessionInv, Placed, Places, OnlyReviews,
         Authorized, Approving, Locked, Iterating, Executing, Reviewing,
         DocGrows, Doc!Documents
<1>2. doc'.status = "APPROVED" => manifest # NoContent
  BY InitRunDoes DEF LockedInv, FrozenWasApproved
<1>. QED
  BY <1>1, <1>2, InitRunDoes, SessionStepKeepsLocks
     DEF InitRun, Moves, worktree, history

(* A command that writes no document and no file the invariant reads.      *)
LEMMA QuietStepKeepsLocks ==
  ASSUME LockedInv, NEW p \in Procs, Moves(p), SessionInv(p)', doc' = doc,
         UNCHANGED <<artifacts, content, outcome, approvals>>
  PROVE  LockedInv'
BY DocStays, SessionStepKeepsLocks
   DEF Moves, DocMoves, LockedInv, FrozenWasApproved

LEMMA BootstrapKeepsLocks ==
  ASSUME LockedInv, NEW p \in Procs, Bootstrap(p)
  PROVE  LockedInv'
<1>1. /\ p = "fresh" /\ mutex' = p /\ ~proc[p].ro /\ proc[p].limit >= 1
      /\ proc[p].limit <= doc'.limit /\ proc[p].limit \in Nat
  BY SessionFields
     DEF Bootstrap, At, SessionInv, Placed, Places, OnlyReviews, Locked,
         Iterating, Executing, Reviewing
<1>2. /\ \/ proc'[p].pc = "failed"
         \/ proc'[p].pc = "top" /\ proc'[p].it = 1
      /\ proc'[p].limit = proc[p].limit /\ ~proc'[p].ro
  BY <1>1, BootstrapDoes
<1>3. SessionInv(p)'
  BY <1>1, <1>2
     DEF SessionInv, Placed, Places, OnlyReviews, Authorized, Approving,
         Locked, Iterating, Executing, Reviewing
<1>. QED
  BY <1>3, BootstrapDoes, QuietStepKeepsLocks DEF Bootstrap, worktree

LEMMA AuthorizeExtensionKeepsLocks ==
  ASSUME LockedInv, NEW p \in Procs, AuthorizeExtension(p)
  PROVE  LockedInv'
<1>1. CASE Leave(p)
  BY <1>1, LeavingKeepsLocks, DocStays
     DEF AuthorizeExtension, DocMoves, worktree, history
<1>2. CASE ~Leave(p)
  <2>1. proc[p].pc = "authorize" /\ doc' = doc /\ mutex' = mutex
        /\ p # "fresh"
    BY <1>2, SessionFields
       DEF AuthorizeExtension, At, SessionInv, Placed, Places, Locked,
           Iterating, Executing, Reviewing
  <2>2. ASSUME proc'[p].pc = "plan", SameSession(p) PROVE SessionInv(p)'
    <3>1. proc'[p].limit <= doc'.limit
      BY <2>1, <2>2, SessionFields DEF SameSession, SessionInv, Placed
    <3>. QED
      BY <2>1, <2>2, <3>1
         DEF SessionInv, Placed, Places, OnlyReviews, Authorized, Approving,
             Locked, Iterating, Executing, Reviewing
  <2>3. ASSUME ValidRun, ExtensionEligible(proc[p].add),
               proc'[p].pc = "extend", proc'[p].saw = doc.failure,
               proc'[p].limit = doc.limit, proc'[p].add = proc[p].add
        PROVE  SessionInv(p)'
    <3>1. /\ doc.metadata = "bound" /\ doc.failure \in Failures
          /\ doc.limit + proc[p].add <= MaxEffective
          /\ doc.limit \in Iterations /\ proc[p].add # 0
          /\ doc.limit <= doc'.limit
      <4>1. doc.failure \in Failures \cup {NoFailure}
        BY DEF LockedInv, Typed, TypedFiles, Doc!Documents
      <4>2. doc.failure # NoFailure
        BY <2>3 DEF ExtensionEligible, NoFailure
      <4>. QED
        BY <2>1, <2>3, <4>1, <4>2, SessionFields
           DEF ExtensionEligible, ValidRun, Iterations, SessionInv, Authorized
    <3>. QED
      BY <2>1, <2>3, <3>1
         DEF SessionInv, Placed, Places, OnlyReviews,
             Authorized, Approving, Locked, Iterating, Executing, Reviewing
  <2>4. SessionInv(p)'
    BY <1>2, <2>2, <2>3, AuthorizeExtensionDoes
  <2>. QED
    BY <2>1, <2>4, AuthorizeExtensionDoes, QuietStepKeepsLocks
       DEF AuthorizeExtension, worktree, history
<1>. QED  BY <1>1, <1>2

LEMMA RecordExtensionKeepsLocks ==
  ASSUME LockedInv, NEW p \in Procs, RecordExtension(p)
  PROVE  LockedInv'
<1>1. CASE Leave(p) /\ UNCHANGED <<doc, grant>>
  BY <1>1, LeavingKeepsLocks, DocStays
     DEF RecordExtension, DocMoves, artifacts, worktree, history
<1>2. CASE ~(Leave(p) /\ UNCHANGED <<doc, grant>>)
  <2>1. /\ DocGrows /\ doc'.status = "CHANGES_REQUESTED"
        /\ proc'[p].pc = "plan" /\ proc'[p].ro = FALSE /\ proc'[p].limit = 0
        /\ grant' = [grant EXCEPT ![proc[p].limit] = proc[p].before]
        /\ Moves(p) /\ p # "fresh"
    BY <1>2, RecordExtensionDoes, SessionFields
       DEF RecordExtension, At, SessionInv, Placed, Places, Locked, Iterating,
           Executing, Reviewing
  <2>2. doc'.limit \in Nat /\ doc'.limit >= doc.limit /\ doc.limit \in Nat
    BY <2>1, SessionFields DEF DocGrows, Doc!Documents
  <2>3. SessionInv(p)'
    BY <2>1, <2>2
       DEF SessionInv, Placed, Places, OnlyReviews,
           Authorized, Approving, Locked, Iterating, Executing, Reviewing
  <2>4. TypedFiles'
    <3>1. proc[p].before \in MaybeContents
      BY SessionFields DEF ProcRecords
    <3>2. grant' \in [Iterations -> MaybeContents]
      BY <2>1, <3>1 DEF LockedInv, Typed, TypedFiles
    <3>. QED
      BY <2>1, <2>2, <3>2
         DEF RecordExtension, DocGrows, LockedInv, Typed, TypedFiles, worktree,
             outcome
  <2>5. FrozenWasApproved'
    BY <2>1 DEF RecordExtension, LockedInv, FrozenWasApproved, outcome, history
  <2>. QED
    BY <2>1, <2>3, <2>4, <2>5, StepKeepsLocks
       DEF RecordExtension, Moves, outcome, history
<1>. QED  BY <1>1, <1>2

LEMMA PlanResumeKeepsLocks ==
  ASSUME LockedInv, NEW p \in Procs, PlanResume(p)
  PROVE  LockedInv'
<1>1. CASE Leave(p)
  BY <1>1, LeavingKeepsLocks, DocStays
     DEF PlanResume, DocMoves, worktree, history
<1>2. CASE ~Leave(p)
  <2>1. /\ proc'[p].pc = "lock" /\ proc'[p].ro = proc[p].ro
        /\ proc'[p].phase = PlanPhase(proc[p].ro)
        /\ PlanPhase(proc[p].ro) # "complete"
        /\ proc'[p].limit = doc.limit /\ proc'[p].it \in 1..doc.limit + 1
        /\ Moves(p) /\ doc' = doc /\ p # "fresh"
    BY <1>2, PlanResumeDoes, SessionFields
       DEF PlanResume, At, SessionInv, Placed, Places, Locked, Iterating,
           Executing, Reviewing
  <2>2. proc[p].ro => proc'[p].phase = "reviewer"
    BY <2>1 DEF PlanPhase
  <2>3. SessionInv(p)'
    BY <2>1, <2>2, SessionFields
       DEF SessionInv, Placed, Places, OnlyReviews,
           Authorized, Approving, Locked, Iterating, Executing, Reviewing
  <2>. QED
    BY <2>1, <2>3, QuietStepKeepsLocks DEF PlanResume, worktree, history
<1>. QED  BY <1>1, <1>2

LEMMA LockLoopKeepsLocks ==
  ASSUME LockedInv, NEW p \in Procs, LockLoop(p)
  PROVE  LockedInv'
<1>1. CASE Leave(p)
  BY <1>1, LeavingKeepsLocks, DocStays
     DEF LockLoop, DocMoves, worktree, history
<1>2. CASE ~Leave(p)
  <2>1. /\ proc'[p].pc = "top" /\ mutex' = p /\ Moves(p) /\ doc' = doc
        /\ proc'[p].it = proc[p].it /\ proc'[p].limit = proc[p].limit
        /\ proc'[p].ro = proc[p].ro /\ proc'[p].phase = proc[p].phase
        /\ proc[p].pc = "lock"
    BY <1>2, LockLoopDoes DEF LockLoop, At
  <2>2. SessionInv(p)'
    BY <2>1, SessionFields
       DEF SessionInv, Placed, Places, OnlyReviews,
           Authorized, Approving, Locked, Iterating, Executing, Reviewing
  <2>. QED
    BY <2>1, <2>2, QuietStepKeepsLocks DEF LockLoop, worktree, history
<1>. QED  BY <1>1, <1>2

(* A command that also writes files of the run directory.                  *)
LEMMA FileStepKeepsLocks ==
  ASSUME LockedInv, NEW p \in Procs, Moves(p), SessionInv(p)', doc' = doc,
         TypedFiles', UNCHANGED <<manifest, published>>,
         approvals \subseteq approvals',
         review' = review \/ proc[p].pc \in Locked
  PROVE  LockedInv'
<1>1. FrozenWasApproved'
  BY DEF LockedInv, FrozenWasApproved
<1>. QED
  BY <1>1, DocStays, StepKeepsLocks DEF Moves, DocMoves

LEMMA WriteCursorDoes ==
  ASSUME LockedInv, NEW p \in Procs, WriteCursor(p)
  PROVE  /\ Moves(p) /\ SameSession(p)
         /\ \/ proc'[p].pc = "begin" /\ proc[p].phase = "executor"
            \/ /\ proc'[p].pc = "review" /\ proc[p].phase = "reviewer"
               /\ proc[p].it \in cursorReport \/ proc[p].ro
            \/ proc'[p].pc = "failed"
<1>. DEFINE label == IF proc[p].phase = "executor" THEN "begin"
                     ELSE IF proc[p].it \in cursorReport \/ proc[p].ro
                          THEN "review" ELSE "failed"
<1>1. label \in Labels /\ Goto(p, label) /\ mutex' = mutex
  BY DEF WriteCursor, Labels
<1>2. proc[p].phase \in {"executor", "reviewer"}
  BY SessionFields DEF ProcRecords
<1>3. Moves(p) /\ SameSession(p) /\ proc'[p].pc = label
  <2>. HIDE DEF label
  <2>. QED  BY <1>1, Going
<1>. QED  BY <1>2, <1>3

LEMMA WriteCursorKeepsLocks ==
  ASSUME LockedInv, NEW p \in Procs, WriteCursor(p)
  PROVE  LockedInv'
<1>1. /\ proc[p].pc = "top" /\ proc[p].it \in 1..proc[p].limit
      /\ proc[p].limit <= doc.limit /\ doc.limit \in Nat
      /\ proc[p].limit \in Nat /\ mutex = p
      /\ proc[p].ro => proc[p].phase = "reviewer"
  BY SessionFields
     DEF WriteCursor, At, WithinLimit, SessionInv, Placed, OnlyReviews, Locked
<1>2. SessionInv(p)'
  <2>1. /\ proc'[p].it \in 1..proc'[p].limit /\ proc'[p].limit <= doc'.limit
        /\ proc'[p].pc \in {"begin", "review", "failed"} /\ mutex' = p
        /\ proc'[p].ro => proc'[p].pc # "begin"
    BY <1>1, WriteCursorDoes DEF SameSession, WriteCursor
  <2>. QED
    BY <2>1
       DEF SessionInv, Placed, Places, OnlyReviews, Authorized, Approving,
           Locked, Iterating, Executing, Reviewing
<1>3. TypedFiles'
  BY <1>1
     DEF WriteCursor, LockedInv, Typed, TypedFiles, worktree, outcome
<1>. QED
  BY <1>2, <1>3, WriteCursorDoes, FileStepKeepsLocks
     DEF WriteCursor, outcome, history

LEMMA CursorTruncatedKeepsLocks ==
  ASSUME LockedInv, NEW p \in Procs, CursorTruncated(p)
  PROVE  LockedInv'
<1>1. SessionInv(p)'
  BY GoneIsSound, DocStays DEF CursorTruncated, DocMoves
<1>2. TypedFiles'
  BY SessionFields
     DEF CursorTruncated, LockedInv, Typed, TypedFiles, worktree, outcome
<1>. QED
  BY <1>1, <1>2, Leaving, FileStepKeepsLocks
     DEF CursorTruncated, outcome, history

(* The run is blocked, and the session goes on to its exit.                *)
LEMMA BlockingKeepsLocks ==
  ASSUME LockedInv, NEW p \in Procs, NEW f \in Failures, Block(f),
         proc[p].pc \in Locked, Goto(p, "exiting"),
         UNCHANGED <<mutex, artifacts, worktree, outcome, history>>
  PROVE  LockedInv' /\ DocMoves /\ Moves(p) /\ proc'[p].pc = "exiting"
<1>1. DocMoves /\ (doc' = doc \/ doc'.status = "BLOCKED")
  BY Blocks
<1>2. Moves(p) /\ SameSession(p) /\ proc'[p].pc = "exiting"
  BY Going DEF Labels
<1>3. SessionInv(p)'
  <2>1. proc'[p].limit <= doc'.limit /\ mutex' = p
    BY <1>1, <1>2, SessionFields
       DEF SameSession, SessionInv, Placed, DocMoves
  <2>. QED
    BY <1>2, <2>1
       DEF SessionInv, Placed, Places, OnlyReviews, Authorized, Approving,
           Locked, Iterating, Executing, Reviewing
<1>4. doc'.status = "APPROVED" => manifest # NoContent
  BY <1>1 DEF LockedInv, FrozenWasApproved
<1>5. LockedInv'
  BY <1>1, <1>2, <1>3, <1>4, SessionStepKeepsLocks
     DEF Moves, DocMoves, worktree, history
<1>. QED  BY <1>1, <1>2, <1>5

LEMMA LoopExhaustedKeepsLocks ==
  ASSUME LockedInv, NEW p \in Procs, LoopExhausted(p)
  PROVE  /\ LockedInv' /\ DocMoves /\ Moves(p) /\ proc'[p].pc = "exiting"
         /\ Exhausted(proc[p].limit) \in Failures
<1>1. proc[p].limit \in Iterations
  BY SessionFields
     DEF LoopExhausted, At, SessionInv, Placed, Iterations
<1>2. Exhausted(proc[p].limit) \in Failures
  BY <1>1, FailuresDiffer
<1>. QED  BY <1>2, BlockingKeepsLocks DEF LoopExhausted, At, Locked

LEMMA BlockRunKeepsLocks ==
  ASSUME LockedInv, NEW p \in Procs, BlockRun(p)
  PROVE  LockedInv' /\ DocMoves /\ Moves(p) /\ proc'[p].pc = "exiting"
BY FailuresDiffer, BlockingKeepsLocks DEF BlockRun, At, Locked

(* An event of the loop: the session reaches a place that relies on no     *)
(* approval, or ends.                                                      *)
LEMMA EventKeepsLocks ==
  ASSUME LockedInv, NEW p \in Procs, NEW event \in Doc!RunnerEvents,
         NEW label \in {"prompt", "snapshot", "finalize"},
         Transition(p, event, [proc[p] EXCEPT !.pc = label]),
         proc[p].pc \in Iterating, label = "prompt" => ~proc[p].ro,
         UNCHANGED <<artifacts, worktree, outcome, history>>,
         Doc!Target[event] = "APPROVED" => manifest # NoContent
  PROVE  LockedInv'
<1>1. label \in Labels
  BY DEF Labels
<1>2. /\ Moves(p) /\ DocMoves
      /\ \/ /\ proc'[p].pc = label /\ SameSession(p) /\ mutex' = mutex
            /\ doc'.status = Doc!Target[event]
         \/ Leave(p) /\ doc' = doc
  BY <1>1, TransitionsTo
<1>3. CASE Leave(p) /\ doc' = doc
  BY <1>2, <1>3, LeavingKeepsLocks DEF DocMoves, worktree, history
<1>4. CASE /\ proc'[p].pc = label /\ SameSession(p) /\ mutex' = mutex
           /\ doc'.status = Doc!Target[event]
  <2>1. SessionInv(p)'
    <3>1. /\ proc'[p].limit <= doc'.limit /\ mutex' = p
          /\ proc'[p].it \in 1..proc'[p].limit /\ proc'[p].ro = proc[p].ro
      BY <1>2, <1>4, SessionFields
         DEF SameSession, SessionInv, Placed, DocMoves, Locked
    <3>. QED
      BY <1>4, <3>1
         DEF SessionInv, Placed, Places, OnlyReviews, Authorized, Approving,
             Locked, Iterating, Executing, Reviewing
  <2>. QED
    BY <1>2, <1>4, <2>1, SessionStepKeepsLocks
       DEF Moves, DocMoves, worktree, history
<1>. QED  BY <1>2, <1>3, <1>4

LEMMA ExecutorStartedKeepsLocks ==
  ASSUME LockedInv, NEW p \in Procs, ExecutorStarted(p)
  PROVE  LockedInv'
<1>1. /\ proc[p].pc \in Iterating /\ ~proc[p].ro
      /\ "executor_started" \in Doc!RunnerEvents
      /\ Doc!Target["executor_started"] = "EXECUTING"
  BY SessionFields
     DEF ExecutorStarted, At, SessionInv, OnlyReviews, Iterating, Executing,
         Doc!RunnerEvents, Doc!Target
<1>. QED  BY <1>1, EventKeepsLocks DEF ExecutorStarted

LEMMA ReviewStartedKeepsLocks ==
  ASSUME LockedInv, NEW p \in Procs, ReviewStarted(p)
  PROVE  LockedInv'
<1>1. /\ proc[p].pc \in Iterating
      /\ "review_started" \in Doc!RunnerEvents
      /\ Doc!Target["review_started"] = "REVIEWING"
  BY DEF ReviewStarted, At, Iterating, Reviewing, Doc!RunnerEvents, Doc!Target
<1>. QED  BY <1>1, EventKeepsLocks DEF ReviewStarted

LEMMA ReviewApprovedKeepsLocks ==
  ASSUME LockedInv, NEW p \in Procs, ReviewApproved(p)
  PROVE  LockedInv'
<1>1. /\ proc[p].pc \in Iterating /\ manifest # NoContent
      /\ "review_approved" \in Doc!RunnerEvents
  BY SessionFields
     DEF ReviewApproved, At, SessionInv, Approving, Iterating, Reviewing,
         Doc!RunnerEvents
<1>. QED  BY <1>1, EventKeepsLocks DEF ReviewApproved

(* A command inside one iteration of the loop.                             *)
LEMMA IterationIsSound ==
  ASSUME LockedInv, NEW p \in Procs, proc[p].pc \in Iterating,
         proc'[p].pc \in Iterating \cup {"failed"},
         proc'[p].pc \in Executing => proc[p].pc \in Executing,
         proc'[p].it = proc[p].it, proc'[p].limit = proc[p].limit,
         proc'[p].ro = proc[p].ro, UNCHANGED <<doc, mutex>>, Approving(p)'
  PROVE  SessionInv(p)'
<1>1. /\ mutex' = p /\ proc'[p].limit <= doc'.limit
      /\ proc'[p].it \in 1..proc'[p].limit
      /\ proc'[p].ro => proc'[p].pc \notin Executing
  BY SessionFields DEF SessionInv, Placed, OnlyReviews, Locked
<1>. QED
  BY <1>1
     DEF SessionInv, Placed, Places, OnlyReviews, Authorized,
         Locked, Iterating, Executing, Reviewing

LEMMA ExecutorLaunchedKeepsLocks ==
  ASSUME LockedInv, NEW p \in Procs, ExecutorLaunched(p)
  PROVE  LockedInv' /\ Moves(p) /\ SameSession(p) /\ proc'[p].pc = "executing"
<1>1. Moves(p) /\ SameSession(p) /\ proc'[p].pc = "executing"
  BY Going DEF ExecutorLaunched, Labels
<1>2. SessionInv(p)'
  BY <1>1, IterationIsSound
     DEF ExecutorLaunched, At, SameSession, Approving, Iterating, Executing
<1>3. LockedInv'
  BY <1>1, <1>2, QuietStepKeepsLocks DEF ExecutorLaunched, worktree, history
<1>. QED  BY <1>1, <1>3

LEMMA ExecutorEndsKeepsLocks ==
  ASSUME LockedInv, NEW p \in Procs, ExecutorEnds(p)
  PROVE  /\ LockedInv' /\ Moves(p) /\ SameSession(p)
         /\ \/ proc'[p].pc = "validate" /\ proc[p].it \in cursorReport'
            \/ proc'[p].pc = "failed"
<1>1. /\ Moves(p) /\ SameSession(p)
      /\ \/ proc'[p].pc = "validate" /\ proc[p].it \in cursorReport'
         \/ proc'[p].pc = "failed"
  <2>1. \/ Goto(p, "validate") /\ proc[p].it \in cursorReport'
        \/ Goto(p, "failed")
    BY DEF ExecutorEnds
  <2>2. mutex' = mutex /\ {"validate", "failed"} \subseteq Labels
    BY DEF ExecutorEnds, Labels
  <2>. QED  BY <2>1, <2>2, Going
<1>2. SessionInv(p)'
  BY <1>1, IterationIsSound
     DEF ExecutorEnds, At, SameSession, Approving, Iterating, Executing
<1>3. TypedFiles'
  <2>1. proc[p].it \in Iterations
    BY SessionFields
       DEF ExecutorEnds, At, SessionInv, Placed, Iterating, Executing,
           Iterations
  <2>2. cursorReport' \subseteq Iterations
    BY <2>1 DEF ExecutorEnds, LockedInv, Typed, TypedFiles
  <2>. QED
    BY <2>2 DEF ExecutorEnds, LockedInv, Typed, TypedFiles, worktree, outcome
<1>4. LockedInv'
  BY <1>1, <1>2, <1>3, FileStepKeepsLocks DEF ExecutorEnds, outcome, history
<1>. QED  BY <1>1, <1>4

LEMMA ValidateKeepsLocks ==
  ASSUME LockedInv, NEW p \in Procs, Validate(p)
  PROVE  /\ LockedInv' /\ Moves(p) /\ SameSession(p)
         /\ \/ proc'[p].pc = "review" /\ validated' = validated \cup {content}
            \/ proc'[p].pc = "failed" /\ validated' = validated
<1>1. /\ Moves(p) /\ SameSession(p)
      /\ \/ proc'[p].pc = "review" /\ validated' = validated \cup {content}
         \/ proc'[p].pc = "failed" /\ validated' = validated
  BY Going DEF Validate, Labels
<1>2. SessionInv(p)'
  BY <1>1, IterationIsSound
     DEF Validate, At, SameSession, Approving, Iterating, Executing, Reviewing
<1>3. LockedInv'
  BY <1>1, <1>2, QuietStepKeepsLocks DEF Validate, worktree
<1>. QED  BY <1>1, <1>3

LEMMA RecordReviewSnapshotKeepsLocks ==
  ASSUME LockedInv, NEW p \in Procs, RecordReviewSnapshot(p)
  PROVE  LockedInv'
<1>1. SessionInv(p)'
  BY RecordReviewSnapshotDoes, IterationIsSound
     DEF RecordReviewSnapshot, At, SameLoop, Approving, Iterating, Executing,
         Reviewing
<1>2. TypedFiles'
  <2>1. content \in MaybeContents
    BY ContentsDiffer DEF LockedInv, Typed, TypedFiles
  <2>2. snapshot' \in [Iterations -> MaybeContents]
    BY <2>1, RecordReviewSnapshotDoes DEF LockedInv, Typed, TypedFiles
  <2>. QED
    BY <2>2
       DEF RecordReviewSnapshot, LockedInv, Typed, TypedFiles, worktree, outcome
<1>. QED
  BY <1>1, <1>2, RecordReviewSnapshotDoes, FileStepKeepsLocks
     DEF RecordReviewSnapshot, outcome, history

LEMMA ReviewerEndsKeepsLocks ==
  ASSUME LockedInv, NEW p \in Procs, ReviewerEnds(p)
  PROVE  LockedInv'
<1>1. approvals \subseteq approvals'
  BY DEF ReviewerEnds
<1>2. SessionInv(p)'
  <2>1. Approving(p)'
    BY ReviewerEndsDoes DEF Approving
  <2>. QED
    BY <2>1, ReviewerEndsDoes, IterationIsSound
       DEF ReviewerEnds, At, SameLoop, Iterating, Executing, Reviewing
<1>3. TypedFiles'
  <2>1. proc[p].it \in Iterations
    BY SessionFields
       DEF ReviewerEnds, At, SessionInv, Placed, Iterating, Reviewing,
           Iterations
  <2>2. result' \in [Iterations -> {"none", "completed", "failed"}]
    BY <2>1, ReviewerEndsDoes DEF LockedInv, Typed, TypedFiles
  <2>. QED
    BY <2>2 DEF ReviewerEnds, LockedInv, Typed, TypedFiles, worktree, outcome
<1>. QED
  BY <1>1, <1>2, <1>3, ReviewerEndsDoes, FileStepKeepsLocks
     DEF ReviewerEnds, outcome

LEMMA MoveReviewKeepsLocks ==
  ASSUME LockedInv, NEW p \in Procs, MoveReview(p)
  PROVE  LockedInv'
<1>1. /\ proc[p].pc = "move" /\ proc[p].it \in Iterations
      /\ proc[p].verdict \in Verdicts
      /\ proc[p].verdict = "APPROVED" => proc[p].before \in approvals
  BY SessionFields
     DEF MoveReview, At, SessionInv, Placed, Approving, Iterating, Reviewing,
         Iterations
<1>2. review' \in [Iterations -> Verdicts \cup {"none"}]
      /\ review'[proc[p].it] = proc[p].verdict
      /\ rewritten' \subseteq Iterations
  BY <1>1, MoveReviewDoes DEF LockedInv, Typed, TypedFiles
<1>3. SessionInv(p)'
  <2>1. approvals' = approvals
    BY DEF MoveReview, history
  <2>2. /\ proc'[p].pc = "compare" /\ proc'[p].before = proc[p].before
        /\ proc'[p].it = proc[p].it
    BY MoveReviewDoes DEF SameLoop
  <2>3. Approving(p)'
    BY <1>1, <1>2, <2>1, <2>2 DEF Approving
  <2>. QED
    BY <1>1, <2>3, MoveReviewDoes, IterationIsSound
       DEF MoveReview, SameLoop, Iterating, Executing, Reviewing
<1>4. TypedFiles'
  BY <1>2 DEF MoveReview, LockedInv, Typed, TypedFiles, worktree, outcome
<1>. QED
  BY <1>1, <1>3, <1>4, MoveReviewDoes, FileStepKeepsLocks
     DEF MoveReview, outcome, history, Locked, Iterating, Reviewing

LEMMA CompareAndDecideKeepsLocks ==
  ASSUME LockedInv, NEW p \in Procs, CompareAndDecide(p)
  PROVE  LockedInv'
<1>1. /\ proc[p].pc = "compare" /\ approvals' = approvals /\ review' = review
      /\ manifest' = manifest
      /\ UNCHANGED <<artifacts, content, outcome, approvals>>
  BY DEF CompareAndDecide, At, artifacts, worktree, outcome, history
<1>2. CASE Leave(p) /\ doc' = doc
  BY <1>1, <1>2, LeavingKeepsLocks, DocStays DEF DocMoves
<1>3. CASE /\ proc'[p].pc = "failed" /\ SameLoop(p) /\ doc' = doc
           /\ mutex' = mutex
  BY <1>1, <1>3, IterationIsSound, CompareAndDecideDoes, QuietStepKeepsLocks
     DEF Approving, SameLoop, Iterating, Reviewing, Executing
<1>4. CASE /\ proc'[p].pc = "freeze" /\ SameLoop(p) /\ doc' = doc
           /\ content = proc[p].before /\ proc'[p].before = content
           /\ review[proc[p].it] = "APPROVED" /\ mutex' = mutex
  <2>1. proc'[p].before \in approvals
    BY <1>1, <1>4, SessionFields DEF SessionInv, Approving
  <2>. QED
    BY <1>1, <1>4, <2>1, IterationIsSound, CompareAndDecideDoes,
       QuietStepKeepsLocks
       DEF Approving, SameLoop, Iterating, Reviewing, Executing
<1>5. CASE /\ proc'[p].pc = IF proc[p].ro THEN "exiting" ELSE "top"
           /\ proc'[p].it = proc[p].it + 1 /\ proc'[p].phase = "executor"
           /\ proc'[p].limit = proc[p].limit /\ proc'[p].ro = proc[p].ro
           /\ doc'.status = "CHANGES_REQUESTED" /\ mutex' = mutex
  <2>1. /\ mutex' = p /\ proc'[p].limit <= doc'.limit
        /\ proc'[p].it \in 1..proc'[p].limit + 1 /\ proc'[p].limit >= 1
        /\ proc'[p].pc \in {"exiting", "top"}
        /\ proc'[p].ro => proc'[p].pc = "exiting"
    BY <1>1, <1>5, SessionFields, CompareAndDecideDoes
       DEF SessionInv, Placed, Locked, Iterating, Reviewing, DocMoves
  <2>2. SessionInv(p)'
    BY <2>1
       DEF SessionInv, Placed, Places, OnlyReviews, Authorized, Approving,
           Locked, Iterating, Executing, Reviewing
  <2>. QED
    BY <1>1, <1>5, <2>2, CompareAndDecideDoes, SessionStepKeepsLocks
       DEF Moves, DocMoves
<1>. QED  BY <1>2, <1>3, <1>4, <1>5, CompareAndDecideDoes

LEMMA FreezeManifestKeepsLocks ==
  ASSUME LockedInv, NEW p \in Procs, FreezeManifest(p)
  PROVE  /\ LockedInv' /\ Moves(p) /\ SameSession(p)
         /\ proc'[p].pc \in {"approve", "failed"}
         /\ \/ content = proc[p].before /\ manifest' = content
            \/ manifest' = manifest
<1>1. /\ proc[p].pc = "freeze" /\ proc[p].before \in approvals
      /\ UNCHANGED <<doc, mutex, artifacts, content, published, approvals>>
  BY SessionFields
     DEF FreezeManifest, At, SessionInv, Approving, worktree, history
<1>2. /\ Moves(p) /\ SameSession(p)
      /\ \/ /\ content = proc[p].before /\ manifest' = content
            /\ proc'[p].pc \in {"approve", "failed"}
         \/ proc'[p].pc = "failed" /\ manifest' = manifest
  <2>1. \/ Goto(p, "approve") /\ content = proc[p].before /\ manifest' = content
        \/ Goto(p, "failed") /\ content = proc[p].before /\ manifest' = content
        \/ Goto(p, "failed") /\ manifest' = manifest
    BY DEF FreezeManifest
  <2>2. {"approve", "failed"} \subseteq Labels
    BY DEF Labels
  <2>. QED  BY <1>1, <2>1, <2>2, Going
<1>3. content \in Contents \cup {Base} /\ content # NoContent
  BY ContentsDiffer DEF LockedInv, Typed, TypedFiles
<1>4. SessionInv(p)'
  <2>1. Approving(p)'
    BY <1>2, <1>3 DEF Approving
  <2>. QED
    BY <1>1, <1>2, <2>1, IterationIsSound
       DEF SameSession, Iterating, Executing, Reviewing
<1>5. TypedFiles'
  BY <1>1, <1>2, <1>3, ContentsDiffer
     DEF LockedInv, Typed, TypedFiles, artifacts
<1>6. FrozenWasApproved'
  BY <1>1, <1>2, <1>3 DEF LockedInv, FrozenWasApproved
<1>7. manifest # NoContent => manifest' # NoContent
  BY <1>2, <1>3
<1>8. LockedInv'
  BY <1>1, <1>2, <1>4, <1>5, <1>6, <1>7, DocStays, StepKeepsLocks
     DEF Moves, DocMoves, artifacts
<1>. QED  BY <1>2, <1>8

LEMMA FinalizeKeepsLocks ==
  ASSUME LockedInv, NEW p \in Procs, Finalize(p)
  PROVE  LockedInv'
<1>1. /\ UNCHANGED <<doc, artifacts, content, manifest, approvals>>
      /\ Leave(p)
      /\ published' \in {published, content}
      /\ published' # published => content = manifest
  BY DEF Finalize, ReviewedSnapshot, worktree, history
<1>2. content \in Contents \cup {Base} /\ content # NoContent
  BY ContentsDiffer DEF LockedInv, Typed, TypedFiles
<1>3. SessionInv(p)'
  BY <1>1, GoneIsSound, DocStays DEF DocMoves
<1>4. TypedFiles'
  BY <1>1, <1>2, ContentsDiffer DEF LockedInv, Typed, TypedFiles, artifacts
<1>5. FrozenWasApproved'
  BY <1>1, <1>2 DEF LockedInv, FrozenWasApproved
<1>. QED
  BY <1>1, <1>3, <1>4, <1>5, Leaving, DocStays, StepKeepsLocks
     DEF Moves, DocMoves, artifacts

LEMMA LeavingActionsKeepLocks ==
  ASSUME LockedInv, NEW p \in Procs, InstructionsRefused(p) \/ Exit(p) \/ Kill(p)
  PROVE  LockedInv' /\ Leave(p)
<1>1. /\ Leave(p) /\ doc' = doc
      /\ UNCHANGED <<artifacts, content, outcome, approvals>>
  BY DEF InstructionsRefused, Exit, Kill, worktree, history
<1>. QED  BY <1>1, LeavingKeepsLocks, DocStays DEF DocMoves

LEMMA SignalDoes ==
  ASSUME LockedInv, NEW p \in Procs, Signal(p)
  PROVE  /\ DocMoves /\ Leave(p)
         /\ doc' = doc \/ doc'.status = "BLOCKED"
         /\ doc.status \in LeftAlone => doc' = doc
<1>1. CASE doc.status \in LeftAlone
  BY <1>1, DocStays DEF Signal
<1>2. CASE doc.status \notin LeftAlone
  BY <1>2, FailuresDiffer, Blocks DEF Signal
<1>. QED  BY <1>1, <1>2

LEMMA SignalKeepsLocks ==
  ASSUME LockedInv, NEW p \in Procs, Signal(p)
  PROVE  LockedInv'
BY SignalDoes, LeavingKeepsLocks DEF Signal, DocMoves, worktree, history

(* No session moves: an agent, somebody else or the operator edits.        *)
EditsOnly ==
  /\ content' \in Contents \cup {Base}
  /\ UNCHANGED <<doc, mutex, proc, artifacts, outcome, approvals>>

LEMMA EditsKeepLocks ==
  ASSUME LockedInv, EditsOnly
  PROVE  LockedInv'
<1>1. Typed' /\ FrozenWasApproved'
  BY DEF EditsOnly, LockedInv, Typed, TypedFiles, FrozenWasApproved, artifacts,
     outcome
<1>2. ASSUME NEW p \in Procs PROVE SessionInv(p)'
  BY DEF EditsOnly, LockedInv, SessionInv, Placed, OnlyReviews, Authorized,
     Approving, artifacts, outcome
<1>. QED  BY <1>1, <1>2 DEF LockedInv, EditsOnly

LEMMA EditsAre ==
  ASSUME LockedInv,
         \/ \E p \in Procs : AgentWorks(p)
         \/ Drift \/ RestoreHead \/ UNCHANGED vars
  PROVE  EditsOnly
BY DEF LockedInv, Typed, TypedFiles, AgentWorks, Drift, RestoreHead, Edit,
   EditsOnly, vars, worktree, history

LEMMA ResumeExecKeepsLocks ==
  ASSUME LockedInv, NEW ro \in BOOLEAN, NEW add \in Extensions,
         ResumeExec(ro, add)
  PROVE  LockedInv'
<1>. DEFINE p == "resume"
<1>1. p \in Procs /\ p # "fresh"
  BY DEF Procs
<1>2. /\ proc'[p].pc \in {"plan", "authorize"} /\ proc'[p].limit = 0
      /\ proc'[p].pc = "authorize" => proc'[p].add # 0
      /\ Moves(p) /\ doc' = doc
  BY ResumeExecDoes DEF ResumeExec
<1>. HIDE DEF p
<1>3. SessionInv(p)'
  BY <1>1, <1>2, SessionFields
     DEF SessionInv, Placed, Places, OnlyReviews, Authorized, Approving,
         Locked, Iterating, Executing, Reviewing
<1>. QED
  BY <1>1, <1>2, <1>3, QuietStepKeepsLocks DEF ResumeExec, worktree

(* The commands of one session.                                            *)
LEMMA SessionKeepsLocks ==
  ASSUME LockedInv, NEW p \in Procs,
         SessionStep(p)
  PROVE  LockedInv'
<1>1. CASE RunStarted(p) \/ InitRun(p) \/ Bootstrap(p)
  BY <1>1, RunStartedKeepsLocks, InitRunKeepsLocks, BootstrapKeepsLocks
<1>2. CASE \/ AuthorizeExtension(p) \/ RecordExtension(p) \/ PlanResume(p)
           \/ LockLoop(p)
  BY <1>2, AuthorizeExtensionKeepsLocks, RecordExtensionKeepsLocks,
     PlanResumeKeepsLocks, LockLoopKeepsLocks
<1>3. CASE \/ WriteCursor(p) \/ LoopExhausted(p) \/ ExecutorStarted(p)
           \/ ExecutorLaunched(p) \/ ExecutorEnds(p) \/ Validate(p)
  BY <1>3, WriteCursorKeepsLocks, LoopExhaustedKeepsLocks,
     ExecutorStartedKeepsLocks, ExecutorLaunchedKeepsLocks,
     ExecutorEndsKeepsLocks, ValidateKeepsLocks
<1>4. CASE \/ ReviewStarted(p) \/ RecordReviewSnapshot(p) \/ ReviewerEnds(p)
           \/ MoveReview(p) \/ CompareAndDecide(p)
  BY <1>4, ReviewStartedKeepsLocks, RecordReviewSnapshotKeepsLocks,
     ReviewerEndsKeepsLocks, MoveReviewKeepsLocks, CompareAndDecideKeepsLocks
<1>5. CASE \/ FreezeManifest(p) \/ ReviewApproved(p) \/ Finalize(p)
           \/ BlockRun(p) \/ Exit(p)
  BY <1>5, FreezeManifestKeepsLocks, ReviewApprovedKeepsLocks,
     FinalizeKeepsLocks, BlockRunKeepsLocks, LeavingActionsKeepLocks
<1>6. CASE \/ InstructionsRefused(p) \/ CursorTruncated(p) \/ Signal(p)
           \/ Kill(p)
  BY <1>6, LeavingActionsKeepLocks, CursorTruncatedKeepsLocks, SignalKeepsLocks
<1>. QED  BY <1>1, <1>2, <1>3, <1>4, <1>5, <1>6 DEF Step, SessionStep

(* What any step of the system is.                                         *)
LEMMA StepsAre ==
  ASSUME LockedInv, [Next]_vars
  PROVE  \/ \E p \in Procs :
              \/ SessionStep(p)
         \/ \E ro \in BOOLEAN, add \in Extensions :
              ResumeExec(ro, add) /\ (ro => MayReviewOnly)
         \/ \E p \in Procs : AgentWorks(p)
         \/ Drift \/ RestoreHead \/ UNCHANGED vars
<1>1. CASE \E add \in Additional \cup {0} : ResumeExec(FALSE, add)
  BY <1>1 DEF Extensions
<1>2. CASE MayReviewOnly /\ ResumeExec(TRUE, 0)
  BY <1>2 DEF Extensions
<1>. QED  BY <1>1, <1>2 DEF Next, SessionStep

LEMMA LockedStep == LockedInv /\ [Next]_vars => LockedInv'
<1>. SUFFICES ASSUME LockedInv, [Next]_vars PROVE LockedInv'
  OBVIOUS
<1>. QED
  BY StepsAre, SessionKeepsLocks, ResumeExecKeepsLocks, EditsAre, EditsKeepLocks

-----------------------------------------------------------------------------
(***************************************************************************)
(* Every reachable state satisfies the inductive invariant of the locks,   *)
(* whatever overlaps, is killed, torn or edited.                           *)
(***************************************************************************)
THEOREM LocksHold == Spec => []LockedInv
<1>1. LockedInv /\ [Next]_vars => LockedInv'
  BY LockedStep
<1>. QED  BY InitLocked, <1>1, PTL DEF Spec

(***************************************************************************)
(* Every variable holds a value the program can store, for every limit and *)
(* set of extensions: the iteration file never leaves the budget, although *)
(* two sessions and the extension write both.                              *)
(***************************************************************************)
THEOREM TypesHold == Spec => []TypeOK
<1>1. LockedInv => TypeOK
  <2>. SUFFICES ASSUME LockedInv PROVE TypeOK
    OBVIOUS
  <2>1. ASSUME NEW p \in Procs
        PROVE  /\ proc[p].pc \in Labels
               /\ proc[p].it \in 0..MaxEffective + 1
               /\ proc[p].limit \in 0..MaxEffective
               /\ proc[p].feedback \in 0..MaxEffective
               /\ proc[p].before \in MaybeContents
    BY SessionFields DEF ProcRecords
  <2>2. {content, manifest, published} \subseteq MaybeContents
    BY ContentsDiffer DEF LockedInv, Typed, TypedFiles
  <2>. QED  BY <2>1, <2>2 DEF TypeOK, LockedInv, Typed, TypedFiles
<1>. QED  BY <1>1, LocksHold, PTL

(***************************************************************************)
(* An APPROVED run holds the manifest of a snapshot that a reviewer was    *)
(* launched on and approved, however many sessions review, edit and are    *)
(* interrupted, and even when a resume session overlaps the fresh run.     *)
(***************************************************************************)
THEOREM ApprovedManifestWasReviewed == Spec => []ApprovedWasReviewed
<1>1. LockedInv => ApprovedWasReviewed
  BY DEF LockedInv, FrozenWasApproved, ApprovedWasReviewed
<1>. QED  BY <1>1, LocksHold, PTL

(***************************************************************************)
(* A review-only session never runs the executor, from whatever state of   *)
(* the run it was started.                                                 *)
(***************************************************************************)
THEOREM ReviewOnlyRunsNoExecutor == Spec => []ReviewOnlyNeverExecutes
<1>1. LockedInv => ReviewOnlyNeverExecutes
  BY DEF LockedInv, SessionInv, OnlyReviews, ReviewOnlyNeverExecutes, At,
     Executing
<1>. QED  BY <1>1, LocksHold, PTL

(* What is published was frozen, and what is frozen was approved.          *)
PublishedWasReviewed == published # NoContent => published \in approvals

(***************************************************************************)
(* The dedicated branch only ever holds a snapshot that a reviewer         *)
(* approved, whoever publishes or retries it, and whatever overlaps.       *)
(***************************************************************************)
THEOREM PublicationWasReviewed == Spec => []PublishedWasReviewed
<1>1. LockedInv => PublishedWasReviewed
  BY DEF LockedInv, FrozenWasApproved, PublishedWasReviewed
<1>. QED  BY <1>1, LocksHold, PTL

-----------------------------------------------------------------------------
(* The loop implements the run document.                                   *)

LEMMA TransitionImplements ==
  ASSUME NEW p \in Procs, NEW event \in Doc!RunnerEvents, NEW next,
         Transition(p, event, next)
  PROVE  [Doc!Next]_doc
BY DEF Transition, Doc!Next, Doc!TransitionRun, Doc!TransitionEvents,
   Doc!TransitionSucceeds

LEMMA BlockImplements ==
  ASSUME NEW f \in Failures, Block(f)
  PROVE  [Doc!Next]_doc
BY DEF Block, Doc!Next, Doc!RecordRunFailure

LEMMA SessionImplements ==
  ASSUME LockedInv, NEW p \in Procs,
         SessionStep(p)
  PROVE  [Doc!Next]_doc
<1>1. CASE RunStarted(p)
  BY <1>1 DEF RunStarted, Doc!Next, Doc!TransitionEvents, Doc!RunnerEvents
<1>2. CASE InitRun(p)
  BY <1>2 DEF InitRun, Doc!Next
<1>3. CASE RecordExtension(p)
  <2>1. CASE doc' = doc
    BY <2>1
  <2>2. CASE /\ Doc!RecordIterationBudgetExtension(
                  proc[p].saw, proc[p].limit + proc[p].add)
             /\ proc[p].saw \in Failures
             /\ proc[p].limit + proc[p].add \in OriginalLimit..MaxEffective
    BY <2>2 DEF Doc!Next
  <2>. QED  BY <1>3, <2>1, <2>2, RecordExtensionDoes
<1>4. CASE LoopExhausted(p)
  BY <1>4, LoopExhaustedKeepsLocks, BlockImplements DEF LoopExhausted
<1>5. CASE BlockRun(p)
  BY <1>5, FailuresDiffer, BlockImplements DEF BlockRun
<1>6. CASE Signal(p)
  BY <1>6, FailuresDiffer, BlockImplements DEF Signal
<1>7. CASE ExecutorStarted(p)
  BY <1>7, TransitionImplements DEF ExecutorStarted, Doc!RunnerEvents
<1>8. CASE ReviewStarted(p)
  BY <1>8, TransitionImplements DEF ReviewStarted, Doc!RunnerEvents
<1>9. CASE ReviewApproved(p)
  BY <1>9, TransitionImplements DEF ReviewApproved, Doc!RunnerEvents
<1>10. CASE CompareAndDecide(p)
  BY <1>10, TransitionImplements DEF CompareAndDecide, Doc!RunnerEvents
<1>11. CASE \/ Bootstrap(p) \/ AuthorizeExtension(p) \/ PlanResume(p)
            \/ LockLoop(p) \/ WriteCursor(p) \/ ExecutorLaunched(p)
            \/ ExecutorEnds(p) \/ Validate(p) \/ RecordReviewSnapshot(p)
            \/ ReviewerEnds(p) \/ MoveReview(p) \/ FreezeManifest(p)
            \/ Finalize(p) \/ Exit(p) \/ InstructionsRefused(p)
            \/ CursorTruncated(p) \/ Kill(p)
  BY <1>11
     DEF Bootstrap, AuthorizeExtension, PlanResume, LockLoop, WriteCursor,
         ExecutorLaunched, ExecutorEnds, Validate, RecordReviewSnapshot,
         ReviewerEnds, MoveReview, FreezeManifest, Finalize, Exit,
         InstructionsRefused, CursorTruncated, Kill
<1>. QED
  BY <1>1, <1>2, <1>3, <1>4, <1>5, <1>6, <1>7, <1>8, <1>9, <1>10, <1>11
     DEF Step, SessionStep

(***************************************************************************)
(* The agent loop implements the run document: every write of a session    *)
(* to state.json is an operation of RunState in a state that accepts it.   *)
(* What is proved of RunState holds of the loop.                           *)
(***************************************************************************)
THEOREM LoopImplementsRunState == Spec => RunStateImplemented
<1>1. Init => Doc!Init
  BY DEF Init, Doc!Init
<1>2. LockedInv /\ [Next]_vars => [Doc!Next]_(Doc!vars)
  <2>. SUFFICES ASSUME LockedInv, [Next]_vars PROVE [Doc!Next]_doc
    BY DEF Doc!vars
  <2>1. ASSUME NEW ro, NEW add, ResumeExec(ro, add) PROVE doc' = doc
    BY <2>1 DEF ResumeExec
  <2>. QED
    BY <2>1, StepsAre, SessionImplements, EditsAre DEF EditsOnly
<1>. QED
  BY <1>1, <1>2, LocksHold, PTL DEF Spec, RunStateImplemented, Doc!Spec

-----------------------------------------------------------------------------
(* Layer 2: no resume session starts while the run is live.                *)

(* A session at rest does nothing by itself; the others only move          *)
(* themselves.                                                             *)
LEMMA SessionDoes ==
  ASSUME LockedInv, NEW p \in Procs,
         SessionStep(p)
  PROVE  /\ Moves(p)
         /\ proc[p].pc \in Rest => Signal(p) /\ proc'[p].pc \in Rest
<1>1. CASE Signal(p)
  BY <1>1, SignalDoes, Leaving DEF Rest
<1>2. CASE RunStarted(p) \/ InitRun(p) \/ Bootstrap(p)
  BY <1>2, RunStartedDoes, InitRunDoes, BootstrapDoes
     DEF RunStarted, InitRun, Bootstrap, At, Rest
<1>3. CASE \/ AuthorizeExtension(p) \/ RecordExtension(p) \/ PlanResume(p)
           \/ LockLoop(p)
  BY <1>3, AuthorizeExtensionDoes, RecordExtensionDoes, PlanResumeDoes,
     LockLoopDoes, Leaving
     DEF AuthorizeExtension, RecordExtension, PlanResume, LockLoop, At, Rest
<1>4. CASE \/ WriteCursor(p) \/ LoopExhausted(p) \/ ExecutorLaunched(p)
           \/ ExecutorEnds(p) \/ Validate(p)
  BY <1>4, WriteCursorDoes, LoopExhaustedKeepsLocks,
     ExecutorLaunchedKeepsLocks, ExecutorEndsKeepsLocks, ValidateKeepsLocks
     DEF WriteCursor, LoopExhausted, ExecutorLaunched, ExecutorEnds, Validate,
         At, Rest
<1>5. CASE ExecutorStarted(p)
  BY <1>5, TransitionsTo
     DEF ExecutorStarted, At, Rest, Labels, Doc!RunnerEvents
<1>6. CASE ReviewStarted(p)
  BY <1>6, TransitionsTo
     DEF ReviewStarted, At, Rest, Labels, Doc!RunnerEvents
<1>7. CASE ReviewApproved(p)
  BY <1>7, TransitionsTo
     DEF ReviewApproved, At, Rest, Labels, Doc!RunnerEvents
<1>8. CASE \/ RecordReviewSnapshot(p) \/ ReviewerEnds(p) \/ MoveReview(p)
           \/ CompareAndDecide(p) \/ FreezeManifest(p) \/ BlockRun(p)
  BY <1>8, RecordReviewSnapshotDoes, ReviewerEndsDoes, MoveReviewDoes,
     CompareAndDecideDoes, FreezeManifestKeepsLocks, BlockRunKeepsLocks
     DEF RecordReviewSnapshot, ReviewerEnds, MoveReview, CompareAndDecide,
         FreezeManifest, BlockRun, At, Rest
<1>9. CASE \/ Finalize(p) \/ Exit(p) \/ InstructionsRefused(p)
           \/ CursorTruncated(p) \/ Kill(p)
  BY <1>9, Leaving
     DEF Finalize, Exit, InstructionsRefused, CursorTruncated, Kill, At, Rest
<1>. QED
  BY <1>1, <1>2, <1>3, <1>4, <1>5, <1>6, <1>7, <1>8, <1>9 DEF Step, SessionStep

(* agent-loop.lock is taken at the start of the loop, and released when    *)
(* the session leaves it.                                                  *)
LEMMA LockFollows ==
  ASSUME LockedInv, NEW p \in Procs, SessionStep(p)
  PROVE  \/ Leave(p)
         \/ proc'[p].pc \in Locked
         \/ mutex' = mutex /\ proc[p].pc \notin Locked
<1>1. CASE RunStarted(p) \/ InitRun(p) \/ Bootstrap(p)
  BY <1>1, RunStartedDoes, InitRunDoes, BootstrapDoes DEF Locked
<1>2. CASE LockLoop(p)
  BY <1>2, LockLoopDoes DEF Locked
<1>3. CASE AuthorizeExtension(p) \/ RecordExtension(p) \/ PlanResume(p)
  BY <1>3
     DEF AuthorizeExtension, RecordExtension, PlanResume, At, Locked,
         Iterating, Executing, Reviewing
<1>4. CASE \/ WriteCursor(p) \/ LoopExhausted(p) \/ ExecutorLaunched(p)
           \/ ExecutorEnds(p) \/ Validate(p)
  BY <1>4, WriteCursorDoes, LoopExhaustedKeepsLocks,
     ExecutorLaunchedKeepsLocks, ExecutorEndsKeepsLocks, ValidateKeepsLocks
     DEF Locked, Iterating, Executing, Reviewing
<1>5. CASE ExecutorStarted(p)
  BY <1>5, TransitionsTo
     DEF ExecutorStarted, Labels, Doc!RunnerEvents, Locked, Iterating, Executing
<1>6. CASE ReviewStarted(p)
  BY <1>6, TransitionsTo
     DEF ReviewStarted, Labels, Doc!RunnerEvents, Locked, Iterating, Reviewing
<1>7. CASE ReviewApproved(p)
  BY <1>7, TransitionsTo
     DEF ReviewApproved, Labels, Doc!RunnerEvents, Locked, Iterating, Reviewing
<1>8. CASE \/ RecordReviewSnapshot(p) \/ ReviewerEnds(p) \/ MoveReview(p)
           \/ CompareAndDecide(p) \/ FreezeManifest(p) \/ BlockRun(p)
  BY <1>8, RecordReviewSnapshotDoes, ReviewerEndsDoes, MoveReviewDoes,
     CompareAndDecideDoes, FreezeManifestKeepsLocks, BlockRunKeepsLocks
     DEF Locked, Iterating, Reviewing
<1>9. CASE \/ Finalize(p) \/ Exit(p) \/ InstructionsRefused(p)
           \/ CursorTruncated(p) \/ Signal(p) \/ Kill(p)
  BY <1>9
     DEF Finalize, Exit, InstructionsRefused, CursorTruncated, Signal, Kill
<1>. QED
  BY <1>1, <1>2, <1>3, <1>4, <1>5, <1>6, <1>7, <1>8, <1>9
     DEF Step, SessionStep

LEMMA LockIsHeldStep ==
  ASSUME LockedInv, LockIsHeld, [Next]_vars
  PROVE  LockIsHeld'
<1>1. ASSUME NEW p \in Procs, SessionStep(p)
      PROVE  LockIsHeld'
  <2>1. Others(p) /\ mutex' \in {mutex, p, "none"} /\ "none" \notin Procs
    BY <1>1, SessionDoes DEF Moves, LocksLeft, Procs
  <2>2. mutex' = p => proc'[p].pc \in Locked
    <3>1. CASE Leave(p)
      BY <3>1, <2>1 DEF Leave
    <3>2. CASE mutex' = mutex /\ proc[p].pc \notin Locked
      BY <2>1, <3>2 DEF LockIsHeld
    <3>. QED  BY <1>1, <3>1, <3>2, LockFollows
  <2>. QED
    BY <2>1, <2>2 DEF LockIsHeld, Others, LockedInv, Typed
<1>2. ASSUME NEW ro \in BOOLEAN, NEW add \in Extensions, ResumeExec(ro, add)
      PROVE  LockIsHeld'
  <2>1. Others("resume") /\ proc["resume"].pc = "idle" /\ mutex' = mutex
    BY <1>2, ResumeExecDoes DEF Moves, ResumeExec
  <2>. QED
    BY <2>1
       DEF LockIsHeld, Others, LockedInv, Typed, Locked, Iterating, Executing,
           Reviewing
<1>3. ASSUME EditsOnly PROVE LockIsHeld'
  BY <1>3 DEF EditsOnly, LockIsHeld
<1>. QED  BY <1>1, <1>2, <1>3, StepsAre, EditsAre

(* A session at rest takes no step.                                        *)
LEMMA RestingSteps ==
  ASSUME LockedInv, LockIsHeld, NEW p \in Procs, SessionStep(p)
  PROVE  proc[p].pc \notin Rest
BY SessionDoes
   DEF Signal, LockIsHeld, Rest, Procs, Locked, Iterating, Executing, Reviewing

(* While one session moves, the others rest.                               *)
LEMMA OthersRest ==
  ASSUME LockedInv, OneSession, NEW p \in Procs, proc[p].pc \notin Rest
  PROVE  \A q \in Procs : q # p => proc[q].pc \in Rest
BY DEF OneSession, Procs, Rest

LEMMA OneSessionStep ==
  ASSUME ~MayOverlap, LockedInv, OneSession, [Next]_vars
  PROVE  OneSession'
<1>1. ASSUME NEW p \in Procs,
             SessionStep(p)
      PROVE  OneSession'
  <2>1. /\ Others(p) /\ proc' \in [Procs -> ProcRecords] /\ SessionInv(p)'
        /\ proc[p].pc \in Rest => proc'[p].pc \in Rest
    BY <1>1, SessionDoes, SessionKeepsLocks DEF Moves, LockedInv
  <2>2. proc'[p].pc \in Rest =>
          proc'[p].pc = IF p = "fresh" THEN "done" ELSE "idle"
    BY <2>1
       DEF SessionInv, Placed, Places, Rest, Locked, Iterating, Executing,
           Reviewing
  <2>3. proc[p].pc \notin Rest =>
          proc["fresh"].pc = "done" \/ proc["resume"].pc = "idle"
    BY DEF OneSession
  <2>4. p = "fresh" \/ p = "resume"
    BY DEF Procs
  <2>. QED  BY <2>1, <2>2, <2>4 DEF OneSession, Others, Procs, Rest
<1>2. ASSUME NEW ro \in BOOLEAN, NEW add \in Extensions, ResumeExec(ro, add)
      PROVE  OneSession'
  <2>1. Others("resume") /\ proc["fresh"].pc = "done"
    BY <1>2, ResumeExecDoes DEF Moves, ResumeExec, At
  <2>. QED  BY <2>1 DEF OneSession, Others, Procs
<1>3. ASSUME EditsOnly PROVE OneSession'
  BY <1>3 DEF EditsOnly, OneSession
<1>. QED  BY <1>1, <1>2, <1>3, StepsAre, EditsAre

(* How a run becomes APPROVED.                                             *)
LEMMA ApprovedComes ==
  ASSUME LockedInv, NEW p \in Procs,
         SessionStep(p),
         doc'.status = "APPROVED"
  PROVE  \/ doc.status = "APPROVED"
         \/ /\ ReviewApproved(p)
            /\ proc'[p].pc \in {"finalize"} \cup Rest
<1>1. CASE RunStarted(p) \/ InitRun(p)
  BY <1>1, RunStartedDoes, InitRunDoes
<1>2. CASE RecordExtension(p)
  BY <1>2, RecordExtensionDoes
<1>3. CASE LoopExhausted(p)
  BY <1>3, LoopExhaustedKeepsLocks, Blocks DEF LoopExhausted
<1>4. CASE BlockRun(p)
  BY <1>4, FailuresDiffer, Blocks DEF BlockRun
<1>5. CASE Signal(p)
  BY <1>5, SignalDoes
<1>6. CASE ExecutorStarted(p)
  BY <1>6, TransitionsTo
     DEF ExecutorStarted, Labels, Doc!RunnerEvents, Doc!Target
<1>7. CASE ReviewStarted(p)
  BY <1>7, TransitionsTo
     DEF ReviewStarted, Labels, Doc!RunnerEvents, Doc!Target
<1>8. CASE ReviewApproved(p)
  BY <1>8, TransitionsTo, Leaving
     DEF ReviewApproved, Labels, Doc!RunnerEvents, Doc!Target, Rest
<1>9. CASE CompareAndDecide(p)
  BY <1>9, CompareAndDecideDoes
<1>10. CASE \/ Bootstrap(p) \/ AuthorizeExtension(p) \/ PlanResume(p)
            \/ LockLoop(p) \/ WriteCursor(p) \/ ExecutorLaunched(p)
            \/ ExecutorEnds(p) \/ Validate(p) \/ RecordReviewSnapshot(p)
            \/ ReviewerEnds(p) \/ MoveReview(p) \/ FreezeManifest(p)
            \/ Finalize(p) \/ Exit(p) \/ InstructionsRefused(p)
            \/ CursorTruncated(p) \/ Kill(p)
  BY <1>10
     DEF Bootstrap, AuthorizeExtension, PlanResume, LockLoop, WriteCursor,
         ExecutorLaunched, ExecutorEnds, Validate, RecordReviewSnapshot,
         ReviewerEnds, MoveReview, FreezeManifest, Finalize, Exit,
         InstructionsRefused, CursorTruncated, Kill
<1>. QED
  BY <1>1, <1>2, <1>3, <1>4, <1>5, <1>6, <1>7, <1>8, <1>9, <1>10 DEF Step, SessionStep

(* A session that finds the run APPROVED, in a mode without publication.   *)
LEMMA ApprovedStays ==
  ASSUME LockedInv, NEW p \in Procs, ~GithubBranch, doc.status = "APPROVED",
         proc[p].pc \in Over,
         SessionStep(p)
  PROVE  doc' = doc /\ proc'[p].pc \in Over
<1>1. CASE \/ Finalize(p) \/ Exit(p) \/ InstructionsRefused(p)
           \/ CursorTruncated(p) \/ Kill(p)
  BY <1>1, Leaving
     DEF Finalize, Exit, InstructionsRefused, CursorTruncated, Kill, Over
<1>2. CASE Signal(p)
  BY <1>2, SignalDoes, Leaving DEF LeftAlone, Over
<1>3. CASE AuthorizeExtension(p)
  BY <1>3, AuthorizeExtensionDoes, Leaving
     DEF AuthorizeExtension, ExtensionEligible, Over
<1>4. CASE PlanResume(p)
  BY <1>4, PlanResumeDoes, Leaving DEF PlanResume, PlanPhase, Over
<1>5. CASE ~\/ Finalize(p) \/ Exit(p) \/ InstructionsRefused(p)
            \/ CursorTruncated(p) \/ Kill(p) \/ Signal(p)
            \/ AuthorizeExtension(p) \/ PlanResume(p)
  BY <1>5
     DEF Step, SessionStep, Over, At, RunStarted, InitRun, Bootstrap, RecordExtension,
         LockLoop, WriteCursor, LoopExhausted, ExecutorStarted,
         ExecutorLaunched, ExecutorEnds, Validate, ReviewStarted,
         RecordReviewSnapshot, ReviewerEnds, MoveReview, CompareAndDecide,
         FreezeManifest, ReviewApproved, BlockRun
<1>. QED  BY <1>1, <1>2, <1>3, <1>4, <1>5

LEMMA ApprovalStandsStep ==
  ASSUME ~MayOverlap, LockedInv, OneSession, ApprovalStands, [Next]_vars
  PROVE  ApprovalStands'
<1>. SUFFICES ASSUME ~GithubBranch, doc'.status = "APPROVED",
                     NEW q \in Procs
              PROVE  proc'[q].pc \in Over
  BY DEF ApprovalStands
<1>1. ASSUME NEW p \in Procs,
             SessionStep(p)
      PROVE  proc'[q].pc \in Over
  <2>1. q # p => proc'[q] = proc[q]
    BY <1>1, SessionDoes DEF Moves, Others
  <2>2. CASE doc.status = "APPROVED"
    BY <1>1, <2>1, <2>2, ApprovedStays DEF ApprovalStands
  <2>3. CASE doc.status # "APPROVED"
    <3>1. ReviewApproved(p) /\ proc'[p].pc \in {"finalize"} \cup Rest
      BY <1>1, <2>3, ApprovedComes
    <3>2. proc[p].pc \notin Rest
      BY <3>1 DEF ReviewApproved, At, Rest
    <3>. QED  BY <2>1, <3>1, <3>2, OthersRest DEF Over, Rest
  <2>. QED  BY <2>2, <2>3
<1>2. ASSUME NEW ro \in BOOLEAN, NEW add \in Extensions, ResumeExec(ro, add)
      PROVE  proc'[q].pc \in Over
  BY <1>2, ResumeExecDoes
     DEF Moves, Others, ResumeExec, ApprovalStands, Over
<1>3. ASSUME EditsOnly PROVE proc'[q].pc \in Over
  BY <1>3 DEF EditsOnly, ApprovalStands
<1>. QED  BY <1>1, <1>2, <1>3, StepsAre, EditsAre

LEMMA StillSpentStep ==
  ASSUME ~MayOverlap, LockedInv, OneSession, [Next]_vars, NEW q \in Procs,
         StillSpent(q)
  PROVE  StillSpent(q)'
<1>. SUFFICES ASSUME proc'[q].pc = "extend" PROVE StillSpent(q)'
  BY DEF StillSpent
<1>1. ASSUME NEW p \in Procs, p # q,
             SessionStep(p)
      PROVE  StillSpent(q)'
  <2>1. proc'[q] = proc[q] /\ proc[q].pc \notin Rest
    BY <1>1, SessionDoes DEF Moves, Others, Rest
  <2>2. Signal(p)
    BY <1>1, <2>1, OthersRest, SessionDoes
  <2>3. doc.status = "BLOCKED"
    BY <2>1 DEF StillSpent
  <2>4. doc' = doc
    BY <2>2, <2>3, SignalDoes DEF LeftAlone
  <2>. QED  BY <2>1, <2>2, <2>4 DEF StillSpent, Signal, artifacts
<1>2. CASE AuthorizeExtension(q)
  <2>1. /\ ExtensionEligible(proc[q].add)
        /\ proc'[q].limit = doc.limit /\ proc'[q].before = content
    BY <1>2, AuthorizeExtensionDoes, Leaving
  <2>. QED
    BY <1>2, <2>1
       DEF AuthorizeExtension, ExtensionEligible, StillSpent, artifacts
<1>3. ASSUME SessionStep(q),
             ~AuthorizeExtension(q)
      PROVE  FALSE
  <2>1. CASE RunStarted(q) \/ InitRun(q) \/ Bootstrap(q)
    BY <2>1, RunStartedDoes, InitRunDoes, BootstrapDoes
  <2>2. CASE RecordExtension(q) \/ PlanResume(q) \/ LockLoop(q)
    BY <2>2, RecordExtensionDoes, PlanResumeDoes, LockLoopDoes, Leaving
  <2>3. CASE \/ WriteCursor(q) \/ LoopExhausted(q) \/ ExecutorLaunched(q)
             \/ ExecutorEnds(q) \/ Validate(q)
    BY <2>3, WriteCursorDoes, LoopExhaustedKeepsLocks,
       ExecutorLaunchedKeepsLocks, ExecutorEndsKeepsLocks, ValidateKeepsLocks
  <2>4. CASE ExecutorStarted(q)
    BY <2>4, TransitionsTo, Leaving DEF ExecutorStarted, Labels, Doc!RunnerEvents
  <2>5. CASE ReviewStarted(q)
    BY <2>5, TransitionsTo, Leaving DEF ReviewStarted, Labels, Doc!RunnerEvents
  <2>6. CASE ReviewApproved(q)
    BY <2>6, TransitionsTo, Leaving DEF ReviewApproved, Labels, Doc!RunnerEvents
  <2>7. CASE \/ RecordReviewSnapshot(q) \/ ReviewerEnds(q) \/ MoveReview(q)
             \/ CompareAndDecide(q) \/ FreezeManifest(q) \/ BlockRun(q)
    BY <2>7, RecordReviewSnapshotDoes, ReviewerEndsDoes, MoveReviewDoes,
       CompareAndDecideDoes, FreezeManifestKeepsLocks, BlockRunKeepsLocks,
       Leaving
  <2>8. CASE \/ Finalize(q) \/ Exit(q) \/ InstructionsRefused(q)
             \/ CursorTruncated(q) \/ Kill(q) \/ Signal(q)
    BY <2>8, Leaving
       DEF Finalize, Exit, InstructionsRefused, CursorTruncated, Kill, Signal
  <2>. QED
    BY <1>3, <2>1, <2>2, <2>3, <2>4, <2>5, <2>6, <2>7, <2>8 DEF Step, SessionStep
<1>4. ASSUME NEW ro \in BOOLEAN, NEW add \in Extensions, ResumeExec(ro, add)
      PROVE  StillSpent(q)'
  BY <1>4, ResumeExecDoes
     DEF Moves, Others, ResumeExec, StillSpent, artifacts
<1>5. ASSUME EditsOnly PROVE StillSpent(q)'
  BY <1>5 DEF EditsOnly, StillSpent, artifacts
<1>. QED  BY <1>1, <1>2, <1>3, <1>4, <1>5, StepsAre, EditsAre

LEMMA AloneStep ==
  ASSUME ~MayOverlap, LockedInv, AloneInv, [Next]_vars
  PROVE  AloneInv'
BY OneSessionStep, LockIsHeldStep, ApprovalStandsStep, StillSpentStep DEF AloneInv

LEMMA InitAlone ==
  ASSUME Init
  PROVE  AloneInv
<1>1. proc["resume"].pc = "idle" /\ proc["fresh"].pc = "start"
  BY IdleIsSession DEF Init, Procs, Idle
<1>2. doc.status # "APPROVED"
  BY DEF Init, Doc!EmptyDocument, Doc!NoStatus
<1>. QED
  BY <1>1, <1>2
     DEF Init, AloneInv, OneSession, LockIsHeld, ApprovalStands, StillSpent,
         Procs

(* Only an extension that was still spent makes the budget grow.           *)
LEMMA BudgetStep ==
  ASSUME LockedInv, AloneInv, NEW p \in Procs,
         SessionStep(p),
         doc'.limit > doc.limit
  PROVE  /\ cursor = doc.limit
         /\ review[cursor] = "CHANGES_REQUESTED"
         /\ grant'[cursor] = snapshot[cursor]
<1>10. CASE RecordExtension(p)
  <2>1. /\ proc[p].pc = "extend" /\ doc.limit = proc[p].limit
        /\ grant' = [grant EXCEPT ![proc[p].limit] = proc[p].before]
    <3>1. ~(doc' = doc)
      BY SessionFields
    <3>. QED
      BY <1>10, <3>1, RecordExtensionDoes DEF RecordExtension, At
  <2>2. /\ cursor = doc.limit /\ review[cursor] = "CHANGES_REQUESTED"
        /\ snapshot[cursor] = proc[p].before
    BY <2>1 DEF AloneInv, StillSpent
  <2>3. proc[p].limit \in Iterations /\ DOMAIN grant = Iterations
    BY <2>1, SessionFields
       DEF SessionInv, Authorized, LockedInv, Typed, TypedFiles
  <2>. QED  BY <2>1, <2>2, <2>3
<1>0. doc.limit \in Nat
  BY SessionFields
<1>1. CASE RunStarted(p)
  BY <1>0, <1>1, RunStartedDoes DEF DocMoves
<1>2. CASE InitRun(p)
  <2>1. CASE Doc!InitializeRunState("bound")
    BY <1>0, <2>1, InitializeWrites
       DEF Doc!InitializeRunState, Doc!InitializeEligible,
           Doc!InitializeWrites, LockedInv
  <2>. QED  BY <1>0, <1>2, <2>1 DEF InitRun
<1>3. CASE LoopExhausted(p) \/ BlockRun(p)
  BY <1>0, <1>3, LoopExhaustedKeepsLocks, BlockRunKeepsLocks DEF DocMoves
<1>4. CASE Signal(p)
  BY <1>0, <1>4, SignalDoes DEF DocMoves
<1>5. CASE ExecutorStarted(p)
  <2>1. DocMoves
    BY <1>5, TransitionsTo DEF ExecutorStarted, Labels, Doc!RunnerEvents
  <2>. QED  BY <1>0, <2>1 DEF DocMoves
<1>6. CASE ReviewStarted(p)
  <2>1. DocMoves
    BY <1>6, TransitionsTo DEF ReviewStarted, Labels, Doc!RunnerEvents
  <2>. QED  BY <1>0, <2>1 DEF DocMoves
<1>7. CASE ReviewApproved(p)
  <2>1. DocMoves
    BY <1>7, TransitionsTo DEF ReviewApproved, Labels, Doc!RunnerEvents
  <2>. QED  BY <1>0, <2>1 DEF DocMoves
<1>8. CASE CompareAndDecide(p)
  BY <1>0, <1>8, CompareAndDecideDoes DEF DocMoves
<1>9. CASE \/ Bootstrap(p) \/ AuthorizeExtension(p) \/ PlanResume(p)
           \/ LockLoop(p) \/ WriteCursor(p) \/ ExecutorLaunched(p)
           \/ ExecutorEnds(p) \/ Validate(p) \/ RecordReviewSnapshot(p)
           \/ ReviewerEnds(p) \/ MoveReview(p) \/ FreezeManifest(p)
           \/ Finalize(p) \/ Exit(p) \/ InstructionsRefused(p)
           \/ CursorTruncated(p) \/ Kill(p)
  BY <1>0, <1>9
     DEF Bootstrap, AuthorizeExtension, PlanResume, LockLoop, WriteCursor,
         ExecutorLaunched, ExecutorEnds, Validate, RecordReviewSnapshot,
         ReviewerEnds, MoveReview, FreezeManifest, Finalize, Exit,
         InstructionsRefused, CursorTruncated, Kill
<1>. QED
  BY <1>1, <1>2, <1>3, <1>4, <1>5, <1>6, <1>7, <1>8, <1>9, <1>10 DEF Step, SessionStep

(***************************************************************************)
(* While no resume session overlaps the run, at most one session is live,  *)
(* nothing is left to undo an approval, and an extension that was found    *)
(* eligible is still eligible when it is written.                          *)
(***************************************************************************)
THEOREM SessionsAlternate ==
  ASSUME ~MayOverlap
  PROVE  Spec => [](LockedInv /\ AloneInv)
<1>1. LockedInv /\ AloneInv /\ [Next]_vars => (LockedInv /\ AloneInv)'
  BY LockedStep, AloneStep
<1>2. Init => LockedInv /\ AloneInv
  BY InitLocked, InitAlone
<1>. QED  BY <1>1, <1>2, PTL DEF Spec

(***************************************************************************)
(* Technical approval is terminal: no signal, block, resume or extension   *)
(* leaves APPROVED.  With overlapping sessions, or with the retried        *)
(* publication of github_branch mode, it is not.                           *)
(***************************************************************************)
THEOREM ApprovalIsTerminal ==
  ASSUME ~MayOverlap, ~GithubBranch
  PROVE  Spec => ApprovedIsTerminal
<1>1. LockedInv /\ AloneInv /\ [Next]_vars =>
        [doc.status = "APPROVED" => doc'.status = "APPROVED"]_vars
  <2>. SUFFICES ASSUME LockedInv, AloneInv, [Next]_vars,
                       doc.status = "APPROVED"
                PROVE  doc'.status = "APPROVED"
    OBVIOUS
  <2>1. \A p \in Procs : proc[p].pc \in Over
    BY DEF AloneInv, ApprovalStands
  <2>2. ASSUME NEW ro, NEW add, ResumeExec(ro, add) PROVE doc' = doc
    BY <2>2 DEF ResumeExec
  <2>. QED
    BY <2>1, <2>2, ApprovedStays, StepsAre, EditsAre DEF EditsOnly
<1>. QED  BY <1>1, SessionsAlternate, PTL DEF Spec, ApprovedIsTerminal

(***************************************************************************)
(* The budget grows only when it is spent: its last iteration was reviewed *)
(* with CHANGES_REQUESTED, and the chain binds the snapshot of that review *)
(* although the operator's authorization and the write are two steps.      *)
(***************************************************************************)
THEOREM OnlySpentBudgetsGrow ==
  ASSUME ~MayOverlap
  PROVE  Spec => BudgetGrowsOnlyWhenSpent
<1>1. LockedInv /\ AloneInv /\ [Next]_vars =>
        [doc'.limit > doc.limit =>
           /\ cursor = doc.limit
           /\ review[cursor] = "CHANGES_REQUESTED"
           /\ grant'[cursor] = snapshot[cursor]]_vars
  <2>. SUFFICES ASSUME LockedInv, AloneInv, [Next]_vars,
                       doc'.limit > doc.limit
                PROVE  /\ cursor = doc.limit
                       /\ review[cursor] = "CHANGES_REQUESTED"
                       /\ grant'[cursor] = snapshot[cursor]
    OBVIOUS
  <2>1. ASSUME doc' = doc PROVE FALSE
    BY <2>1 DEF LockedInv, Typed, TypedFiles, Doc!Documents
  <2>2. ASSUME NEW ro, NEW add, ResumeExec(ro, add) PROVE doc' = doc
    BY <2>2 DEF ResumeExec
  <2>. QED
    BY <2>1, <2>2, BudgetStep, StepsAre, EditsAre DEF EditsOnly
<1>. QED
  BY <1>1, SessionsAlternate, PTL DEF Spec, BudgetGrowsOnlyWhenSpent

-----------------------------------------------------------------------------
(* Layer 3: moreover, the iteration file is never torn.                    *)

(* Places that rely on nothing that ReviewedInv says.                      *)
Quiet == Rest \cup {"authorize", "extend", "plan", "failed", "exiting"}

LEMMA ContentKept ==
  ASSUME NEW c, Passed(c), validated \subseteq validated', waived => waived'
  PROVE  Passed(c)'
BY DEF Passed

(* One session moves while the others rest.                                *)
LEMMA OneMoves ==
  ASSUME LockedInv, AloneInv, ReviewedInv, NEW p \in Procs, Others(p),
         proc[p].pc \notin Rest, waived => waived',
         CursorLeads', ReviewedWasValidated',
         CursorFollowed(p)', Validated(p)'
  PROVE  ReviewedInv'
<1>1. ASSUME NEW q \in Procs, q # p
      PROVE  (CursorFollowed(q) /\ Validated(q))'
  <2>1. proc[q].pc \in Rest /\ proc'[q] = proc[q] /\ (proc[q].ro => waived)
    BY <1>1, OthersRest DEF AloneInv, Others, ReviewedInv, Validated
  <2>2. proc'[q].pc \in Rest /\ (proc'[q].ro => waived')
    BY <2>1
  <2>. QED
    BY <2>2
       DEF Rest, CursorFollowed, Validated, Iterating, Executing, Reviewing
<1>. QED  BY <1>1 DEF ReviewedInv

(* What a step that leaves the iterations alone keeps.                     *)
LEMMA FilesStay ==
  ASSUME ReviewedInv, validated \subseteq validated', waived => waived',
         UNCHANGED <<cursor, snapshot, result, review, content, outcome>>,
         doc'.status \in {doc.status, "EXECUTING", "BLOCKED",
                          "CHANGES_REQUESTED"}
  PROVE  CursorLeads' /\ ReviewedWasValidated'
<1>1. CursorLeads'
  BY DEF ReviewedInv, CursorLeads
<1>2. ReviewedWasValidated'
  BY DEF ReviewedInv, ReviewedWasValidated, outcome, Passed
<1>. QED  BY <1>1, <1>2

(* A session goes to a place that relies on nothing.                       *)
LEMMA QuietStep ==
  ASSUME LockedInv, AloneInv, ReviewedInv, NEW p \in Procs, Others(p),
         proc[p].pc \notin Rest, proc'[p].pc \in Quiet,
         proc'[p].ro => proc[p].ro, waived' = waived,
         validated \subseteq validated',
         UNCHANGED <<cursor, snapshot, result, review, content, outcome>>,
         doc'.status \in {doc.status, "BLOCKED", "CHANGES_REQUESTED"}
  PROVE  ReviewedInv'
<1>1. CursorLeads' /\ ReviewedWasValidated'
  BY FilesStay
<1>2. proc'[p].ro => waived'
  BY DEF ReviewedInv, Validated
<1>3. CursorFollowed(p)' /\ Validated(p)'
  BY <1>2 DEF Quiet, Rest, CursorFollowed, Validated, Iterating, Executing,
     Reviewing
<1>. QED  BY <1>1, <1>3, OneMoves

LEMMA LeavingIsReviewed ==
  ASSUME LockedInv, AloneInv, ReviewedInv, NEW p \in Procs, Leave(p),
         proc[p].pc \notin Rest, UNCHANGED <<waived, validated>>,
         UNCHANGED <<cursor, snapshot, result, review, content, outcome>>,
         doc'.status \in {doc.status, "BLOCKED"}
  PROVE  ReviewedInv'
BY Leaving, QuietStep DEF Moves, Quiet, Rest

LEMMA ReviewedSteps1 ==
  ASSUME LockedInv, AloneInv, ReviewedInv, NEW p \in Procs,
         proc[p].pc \notin Rest,
         RunStarted(p) \/ InitRun(p) \/ Bootstrap(p)
  PROVE  ReviewedInv'
<1>1. /\ CursorFollowed(p) /\ Validated(p) /\ CursorLeads
      /\ cursor = 0 /\ proc[p].phase = "executor"
      /\ doc.status \notin {"REVIEWING", "APPROVED"}
  BY DEF ReviewedInv, CursorFollowed, CursorLeads, RunStarted, InitRun,
     Bootstrap, At
<1>2. /\ Others(p) /\ proc'[p].ro = proc[p].ro
      /\ proc'[p].phase = proc[p].phase
      /\ \/ proc'[p].pc \in {"init", "bootstrap", "failed"}
         \/ proc'[p].pc = "top" /\ proc'[p].it = 1
      /\ doc'.status \in {doc.status, "EXECUTING"}
  BY RunStartedDoes, InitRunDoes, BootstrapDoes
     DEF Moves, SameSession, Bootstrap
<1>3. UNCHANGED <<cursor, snapshot, result, review, content, outcome, waived,
                  validated>>
  BY DEF RunStarted, InitRun, Bootstrap, artifacts, worktree, history
<1>4. CursorLeads' /\ ReviewedWasValidated'
  BY <1>2, <1>3, FilesStay
<1>5. CursorFollowed(p)' /\ Validated(p)'
  <2>1. /\ cursor' = 0 /\ doc'.status \notin {"REVIEWING", "APPROVED"}
        /\ proc'[p].phase = "executor" /\ (proc'[p].ro => waived')
    BY <1>1, <1>2, <1>3 DEF Validated
  <2>. QED
    BY <1>2, <2>1
       DEF CursorFollowed, Validated, Iterating, Executing, Reviewing
<1>. QED  BY <1>2, <1>3, <1>4, <1>5, OneMoves

(* The phase plan_resume chooses reviews only what passed validation.      *)
LEMMA PlannedReviewIsValidated ==
  ASSUME LockedInv, ReviewedInv, NEW p \in Procs, Resumable,
         PlanPhase(proc[p].ro) = "reviewer"
  PROVE  Passed(content)
<1>1. CASE proc[p].ro
  BY <1>1 DEF ReviewedInv, Validated, Passed
<1>2. CASE ~proc[p].ro /\ snapshot[PlanCursor] # NoContent
           /\ (doc.status = "APPROVED" => GithubBranch)
  <2>1. snapshot[PlanCursor] = content
    BY <1>2 DEF Resumable, SnapshotHolds
  <2>2. PlanCursor \in Iterations
    BY SessionFields DEF PlanCursor, Iterations
  <2>. QED  BY <1>2, <2>1, <2>2 DEF ReviewedInv, ReviewedWasValidated
<1>3. CASE ~proc[p].ro /\ snapshot[PlanCursor] = NoContent
  <2>1. PlanCursor \in Iterations
    BY SessionFields DEF PlanCursor, Iterations
  <2>2. doc.status # "APPROVED"
    BY <1>3 DEF ReviewedInv, CursorLeads, PlanCursor
  <2>3. Reviewable(PlanCursor)
    BY <1>3, <2>2 DEF PlanPhase
  <2>4. doc.status = "REVIEWING"
    BY <1>3, <2>1, <2>3 DEF Reviewable, ReviewedInv, CursorLeads
  <2>5. cursor # 0 /\ PlanCursor = cursor
    BY <2>4 DEF ReviewedInv, CursorLeads, PlanCursor
  <2>. QED  BY <1>3, <2>4, <2>5 DEF ReviewedInv, ReviewedWasValidated
<1>4. doc.status = "APPROVED" => GithubBranch
  BY DEF PlanPhase
<1>. QED  BY <1>1, <1>2, <1>3, <1>4

LEMMA ReviewedSteps2 ==
  ASSUME LockedInv, AloneInv, ReviewedInv, NEW p \in Procs,
         proc[p].pc \notin Rest,
         \/ AuthorizeExtension(p) \/ RecordExtension(p) \/ PlanResume(p)
         \/ LockLoop(p)
  PROVE  ReviewedInv'
<1>1. UNCHANGED <<cursor, snapshot, result, review, content, outcome, waived,
                  validated>>
  BY DEF AuthorizeExtension, RecordExtension, PlanResume, LockLoop,
     artifacts, worktree, history
<1>2. CASE Leave(p) /\ doc' = doc
  BY <1>1, <1>2, LeavingIsReviewed
<1>3. CASE AuthorizeExtension(p) /\ ~Leave(p)
  BY <1>1, <1>3, AuthorizeExtensionDoes, QuietStep
     DEF AuthorizeExtension, Moves, SameSession, Quiet
<1>4. CASE RecordExtension(p) /\ ~(Leave(p) /\ doc' = doc)
  BY <1>1, <1>4, RecordExtensionDoes, QuietStep DEF Moves, Quiet
<1>5. CASE PlanResume(p) /\ ~Leave(p)
  <2>1. /\ Resumable /\ Others(p) /\ doc' = doc
        /\ proc'[p].pc = "lock" /\ proc'[p].ro = proc[p].ro
        /\ proc'[p].phase = PlanPhase(proc[p].ro)
        /\ proc'[p].it = PlanIteration(proc[p].ro)
    BY <1>5, PlanResumeDoes DEF PlanResume, Moves
  <2>2. CursorFollowed(p)'
    <3>1. proc'[p].it >= cursor /\ cursor \in Nat
      BY <2>1, SessionFields DEF PlanIteration, PlanCursor
    <3>2. doc.status \in {"REVIEWING", "APPROVED"} => proc'[p].it = cursor
      BY <2>1 DEF PlanIteration, PlanCursor, ReviewedInv, CursorLeads
    <3>. QED
      BY <1>1, <2>1, <3>1, <3>2
         DEF CursorFollowed, Iterating, Executing, Reviewing
  <2>3. Validated(p)'
    <3>1. proc'[p].phase = "reviewer" => Passed(content)'
      BY <1>1, <2>1, PlannedReviewIsValidated DEF Passed
    <3>2. proc'[p].ro => waived'
      BY <1>1, <2>1 DEF ReviewedInv, Validated
    <3>. QED  BY <2>1, <3>1, <3>2 DEF Validated
  <2>. QED  BY <1>1, <2>1, <2>2, <2>3, FilesStay, OneMoves
<1>6. CASE LockLoop(p) /\ ~Leave(p)
  <2>1. /\ Others(p) /\ doc' = doc /\ proc[p].pc = "lock"
        /\ proc'[p].pc = "top" /\ proc'[p].it = proc[p].it
        /\ proc'[p].ro = proc[p].ro /\ proc'[p].phase = proc[p].phase
    BY <1>6, LockLoopDoes DEF LockLoop, Moves, At
  <2>2. CursorFollowed(p)'
    BY <1>1, <2>1
       DEF ReviewedInv, CursorFollowed, Iterating, Executing, Reviewing
  <2>3. Validated(p)'
    BY <1>1, <2>1 DEF ReviewedInv, Validated, Passed
  <2>. QED  BY <1>1, <2>1, <2>2, <2>3, FilesStay, OneMoves
<1>7. AuthorizeExtension(p) \/ PlanResume(p) \/ LockLoop(p) => doc' = doc
  BY DEF AuthorizeExtension, PlanResume, LockLoop
<1>. QED  BY <1>2, <1>3, <1>4, <1>5, <1>6, <1>7

LEMMA ReviewedSteps3 ==
  ASSUME LockedInv, AloneInv, ReviewedInv, NEW p \in Procs,
         proc[p].pc \notin Rest,
         \/ WriteCursor(p) \/ LoopExhausted(p) \/ BlockRun(p)
         \/ InstructionsRefused(p) \/ Exit(p) \/ Kill(p) \/ Signal(p)
  PROVE  ReviewedInv'
<1>1. CASE LoopExhausted(p)
  <2>1. doc'.status \in {doc.status, "BLOCKED"}
    BY <1>1, LoopExhaustedKeepsLocks, Blocks DEF LoopExhausted
  <2>2. proc'[p].ro = proc[p].ro
    BY <1>1, SessionFields, GoesTo DEF LoopExhausted, SameSession, Labels
  <2>. QED
    BY <1>1, <2>1, <2>2, LoopExhaustedKeepsLocks, QuietStep
       DEF LoopExhausted, Moves, Quiet, artifacts, worktree, history
<1>2. CASE BlockRun(p)
  <2>1. doc'.status \in {doc.status, "BLOCKED"}
    BY <1>2, FailuresDiffer, Blocks DEF BlockRun
  <2>2. proc'[p].ro = proc[p].ro
    BY <1>2, SessionFields, GoesTo DEF BlockRun, SameSession, Labels
  <2>. QED
    BY <1>2, <2>1, <2>2, BlockRunKeepsLocks, QuietStep
       DEF BlockRun, Moves, Quiet, artifacts, worktree, history
<1>3. CASE InstructionsRefused(p) \/ Exit(p) \/ Kill(p) \/ Signal(p)
  <2>1. Leave(p) /\ doc'.status \in {doc.status, "BLOCKED"}
    BY <1>3, SignalDoes DEF InstructionsRefused, Exit, Kill
  <2>. QED
    BY <1>3, <2>1, LeavingIsReviewed
       DEF InstructionsRefused, Exit, Kill, Signal, artifacts, worktree, history
<1>4. CASE WriteCursor(p)
  <2>1. /\ proc[p].pc = "top" /\ cursor' = proc[p].it /\ doc' = doc
        /\ Others(p) /\ SameSession(p)
        /\ proc'[p].pc \in {"begin", "failed"} \/ proc[p].phase = "reviewer"
        /\ proc'[p].pc \in {"begin", "review", "failed"}
        /\ UNCHANGED <<snapshot, result, review, content, outcome, waived,
                       validated>>
    BY <1>4, WriteCursorDoes
       DEF WriteCursor, At, Moves, worktree, history
  <2>2. /\ cursor' >= cursor /\ cursor \in Nat /\ cursor' \in Nat
        /\ doc.status \in {"REVIEWING", "APPROVED"} => cursor' = cursor
        /\ proc[p].phase = "reviewer" => Passed(content)
        /\ proc[p].ro => waived
    BY <2>1, SessionFields DEF ReviewedInv, CursorFollowed, Validated
  <2>3. CursorLeads' /\ ReviewedWasValidated'
    BY <2>1, <2>2
       DEF ReviewedInv, CursorLeads, ReviewedWasValidated, Iterations, outcome,
           Passed
  <2>4. CursorFollowed(p)'
    BY <2>1, <2>2
       DEF SameSession, CursorFollowed, Iterating, Executing, Reviewing
  <2>5. Validated(p)'
    BY <2>1, <2>2 DEF SameSession, Validated, Passed
  <2>. QED  BY <2>1, <2>3, <2>4, <2>5, OneMoves
<1>. QED  BY <1>1, <1>2, <1>3, <1>4

(* A refused event ends the session; otherwise it goes on.                 *)
LEMMA EventDoes ==
  ASSUME LockedInv, NEW p \in Procs,
         ExecutorStarted(p) \/ ReviewStarted(p) \/ ReviewApproved(p)
  PROVE  /\ Others(p)
         /\ UNCHANGED <<artifacts, worktree, outcome, history>>
         /\ \/ Leave(p) /\ doc' = doc
            \/ /\ SameSession(p) /\ mutex' = mutex
               /\ \/ /\ proc[p].pc = "begin" /\ proc'[p].pc = "prompt"
                     /\ doc'.status = "EXECUTING"
                  \/ /\ proc[p].pc = "review" /\ proc'[p].pc = "snapshot"
                     /\ doc'.status = "REVIEWING"
                  \/ /\ proc[p].pc = "approve" /\ proc'[p].pc = "finalize"
                     /\ doc'.status = "APPROVED"
<1>1. CASE ExecutorStarted(p)
  BY <1>1, TransitionsTo
     DEF ExecutorStarted, At, Moves, Labels, Doc!RunnerEvents, Doc!Target
<1>2. CASE ReviewStarted(p)
  BY <1>2, TransitionsTo
     DEF ReviewStarted, At, Moves, Labels, Doc!RunnerEvents, Doc!Target
<1>3. CASE ReviewApproved(p)
  BY <1>3, TransitionsTo
     DEF ReviewApproved, At, Moves, Labels, Doc!RunnerEvents, Doc!Target
<1>. QED  BY <1>1, <1>2, <1>3

(* One iteration works on the cursor.                                      *)
LEMMA IterationIsCursor ==
  ASSUME LockedInv, ReviewedInv, NEW p \in Procs, proc[p].pc \in Iterating
  PROVE  /\ proc[p].it = cursor /\ cursor \in Iterations /\ cursor # 0
         /\ proc[p].ro => waived
BY SessionFields
   DEF ReviewedInv, CursorFollowed, Validated, SessionInv, Placed, Iterations

LEMMA ReviewedSteps4 ==
  ASSUME LockedInv, AloneInv, ReviewedInv, NEW p \in Procs,
         proc[p].pc \notin Rest,
         ExecutorStarted(p) \/ ReviewStarted(p) \/ ReviewApproved(p)
  PROVE  ReviewedInv'
<1>1. UNCHANGED <<cursor, snapshot, result, review, content, outcome, waived,
                  validated>>
  BY EventDoes DEF artifacts, worktree, history
<1>2. CASE Leave(p) /\ doc' = doc
  BY <1>1, <1>2, LeavingIsReviewed
<1>3. ASSUME SameSession(p), proc[p].pc = "begin", proc'[p].pc = "prompt",
             doc'.status = "EXECUTING"
      PROVE  ReviewedInv'
  <2>1. proc[p].it = cursor /\ (proc[p].ro => waived)
    BY <1>3, IterationIsCursor DEF Iterating, Executing
  <2>2. CursorFollowed(p)' /\ Validated(p)'
    BY <1>1, <1>3, <2>1
       DEF SameSession, CursorFollowed, Validated, Iterating, Executing
  <2>. QED  BY <1>1, <1>3, <2>2, EventDoes, FilesStay, OneMoves
<1>4. ASSUME SameSession(p), proc[p].pc = "review", proc'[p].pc = "snapshot",
             doc'.status = "REVIEWING"
      PROVE  ReviewedInv'
  <2>1. proc[p].it = cursor /\ cursor # 0 /\ (proc[p].ro => waived)
    BY <1>4, IterationIsCursor DEF Iterating, Reviewing
  <2>2. Passed(content)
    BY <1>4 DEF ReviewedInv, Validated
  <2>3. CursorFollowed(p)' /\ Validated(p)'
    BY <1>1, <1>4, <2>1, <2>2
       DEF SameSession, CursorFollowed, Validated, Passed, Iterating,
           Executing, Reviewing
  <2>4. CursorLeads' /\ ReviewedWasValidated'
    BY <1>1, <1>4, <2>1, <2>2
       DEF ReviewedInv, CursorLeads, ReviewedWasValidated, Passed, outcome
  <2>. QED  BY <1>1, <1>4, <2>3, <2>4, EventDoes, OneMoves
<1>5. ASSUME SameSession(p), proc[p].pc = "approve", proc'[p].pc = "finalize",
             doc'.status = "APPROVED"
      PROVE  ReviewedInv'
  <2>1. proc[p].it = cursor /\ cursor # 0 /\ (proc[p].ro => waived)
    BY <1>5, IterationIsCursor DEF Iterating, Reviewing
  <2>2. snapshot[cursor] # NoContent
    BY <1>5, <2>1 DEF ReviewedInv, CursorFollowed
  <2>3. CursorFollowed(p)' /\ Validated(p)'
    BY <1>1, <1>5, <2>1
       DEF SameSession, CursorFollowed, Validated, Iterating, Executing,
           Reviewing
  <2>4. CursorLeads' /\ ReviewedWasValidated'
    BY <1>1, <1>5, <2>1, <2>2
       DEF ReviewedInv, CursorLeads, ReviewedWasValidated, Passed, outcome
  <2>. QED  BY <1>1, <1>5, <2>3, <2>4, EventDoes, OneMoves
<1>. QED  BY <1>2, <1>3, <1>4, <1>5, EventDoes

LEMMA ReviewedSteps5 ==
  ASSUME LockedInv, AloneInv, ReviewedInv, NEW p \in Procs,
         proc[p].pc \notin Rest,
         ExecutorLaunched(p) \/ ExecutorEnds(p) \/ Validate(p)
  PROVE  ReviewedInv'
<1>1. /\ Others(p) /\ SameSession(p) /\ doc' = doc
      /\ validated \subseteq validated'
      /\ UNCHANGED <<cursor, snapshot, result, review, content, outcome,
                     waived>>
      /\ \/ /\ proc[p].pc \in {"prompt", "executing"}
            /\ proc'[p].pc \in {"executing", "validate"}
         \/ /\ proc[p].pc = "validate" /\ proc'[p].pc = "review"
            /\ content \in validated'
         \/ proc'[p].pc = "failed"
  <2>1. CASE ExecutorLaunched(p)
    BY <2>1, ExecutorLaunchedKeepsLocks
       DEF ExecutorLaunched, At, Moves, artifacts, worktree, history
  <2>2. CASE ExecutorEnds(p)
    BY <2>2, ExecutorEndsKeepsLocks
       DEF ExecutorEnds, At, Moves, worktree, history
  <2>3. CASE Validate(p)
    BY <2>3, ValidateKeepsLocks DEF Validate, At, Moves, artifacts, worktree
  <2>. QED  BY <2>1, <2>2, <2>3
<1>2. CASE proc'[p].pc = "failed"
  BY <1>1, <1>2, QuietStep DEF SameSession, Quiet
<1>3. CASE /\ proc[p].pc \in {"prompt", "executing", "validate"}
           /\ proc'[p].pc \in {"executing", "validate", "review"}
           /\ proc'[p].pc = "review" => content \in validated'
           /\ proc'[p].pc # "review" => proc[p].pc \in {"prompt", "executing"}
  <2>1. proc[p].it = cursor /\ (proc[p].ro => waived)
    BY <1>3, IterationIsCursor DEF Iterating, Executing
  <2>2. doc.status = "EXECUTING"
    BY <1>3 DEF ReviewedInv, CursorFollowed
  <2>3. CursorFollowed(p)' /\ Validated(p)'
    BY <1>1, <1>3, <2>1, <2>2
       DEF SameSession, CursorFollowed, Validated, Passed, Iterating,
           Executing, Reviewing
  <2>. QED  BY <1>1, <2>3, FilesStay, OneMoves
<1>. QED  BY <1>1, <1>2, <1>3

LEMMA ReviewedSteps6 ==
  ASSUME LockedInv, AloneInv, ReviewedInv, NEW p \in Procs,
         proc[p].pc \notin Rest,
         RecordReviewSnapshot(p) \/ ReviewerEnds(p) \/ MoveReview(p)
  PROVE  ReviewedInv'
<1>1. /\ proc[p].pc \in {"snapshot", "reviewing", "move"}
      /\ proc[p].it = cursor /\ cursor \in Iterations
      /\ proc[p].ro => waived
      /\ UNCHANGED <<doc, cursor, content, outcome, waived, validated>>
  BY IterationIsCursor
     DEF RecordReviewSnapshot, ReviewerEnds, MoveReview, At, Iterating,
         Reviewing, worktree, history
<1>2. Others(p) /\ SameLoop(p)
  BY RecordReviewSnapshotDoes, ReviewerEndsDoes, MoveReviewDoes DEF Moves
<1>3. /\ snapshot \in [Iterations -> MaybeContents]
      /\ result \in [Iterations -> {"none", "completed", "failed"}]
      /\ review \in [Iterations -> Verdicts \cup {"none"}]
      /\ content # NoContent
  BY ContentsDiffer DEF LockedInv, Typed, TypedFiles
<1>4. CASE RecordReviewSnapshot(p)
  <2>1. UNCHANGED <<result, review>> /\ proc[p].pc = "snapshot"
    BY <1>4 DEF RecordReviewSnapshot, At
  <2>2. CASE proc'[p].pc = "failed" /\ snapshot' = snapshot
    BY <1>1, <1>2, <2>1, <2>2, QuietStep DEF SameLoop, Quiet
  <2>3. CASE /\ proc'[p].pc = "reviewing" /\ proc'[p].before = content
             /\ snapshot' = [snapshot EXCEPT ![cursor] = content]
    <3>1. Passed(content)
      BY <2>1 DEF ReviewedInv, Validated
    <3>2. /\ snapshot'[cursor] = content
          /\ \A n \in Iterations : n # cursor => snapshot'[n] = snapshot[n]
      BY <1>1, <1>3, <2>3
    <3>3. CursorLeads'
      BY <1>1, <1>3, <2>1, <3>2, SessionFields
         DEF ReviewedInv, CursorLeads, Iterations
    <3>4. ReviewedWasValidated'
      BY <1>1, <3>1, <3>2
         DEF ReviewedInv, ReviewedWasValidated, Passed, outcome
    <3>5. CursorFollowed(p)'
      BY <1>1, <1>2, <1>3, <2>3, <3>2
         DEF SameLoop, CursorFollowed, Iterating, Executing, Reviewing
    <3>6. Validated(p)'
      BY <1>1, <1>2, <2>3, <3>1 DEF SameLoop, Validated, Passed
    <3>. QED  BY <1>1, <1>2, <3>3, <3>4, <3>5, <3>6, OneMoves
  <2>. QED  BY <1>1, <1>4, <2>2, <2>3, RecordReviewSnapshotDoes
<1>5. CASE ReviewerEnds(p) \/ MoveReview(p)
  <2>1. /\ proc[p].pc \in {"reviewing", "move"} /\ snapshot' = snapshot
        /\ proc'[p].pc \in {"move", "compare", "failed"}
        /\ proc'[p].pc # "failed" => proc'[p].before = proc[p].before
    BY <1>5, ReviewerEndsDoes, MoveReviewDoes DEF ReviewerEnds, MoveReview, At
  <2>2. snapshot[cursor] # NoContent /\ Passed(proc[p].before)
    BY <1>1, <2>1 DEF ReviewedInv, CursorFollowed, Validated
  <2>3. \A n \in Iterations : n # cursor =>
          result'[n] = result[n] /\ review'[n] = review[n]
    <3>1. CASE ReviewerEnds(p)
      BY <1>1, <1>3, <3>1, ReviewerEndsDoes DEF ReviewerEnds
    <3>2. CASE MoveReview(p)
      BY <1>1, <1>3, <3>2, MoveReviewDoes DEF MoveReview
    <3>. QED  BY <1>5, <3>1, <3>2
  <2>4. CursorLeads'
    BY <1>1, <2>1, <2>2, <2>3 DEF ReviewedInv, CursorLeads
  <2>5. ReviewedWasValidated'
    BY <1>1, <2>1 DEF ReviewedInv, ReviewedWasValidated, Passed, outcome
  <2>6. CursorFollowed(p)'
    BY <1>1, <1>2, <2>1, <2>2
       DEF SameLoop, CursorFollowed, Iterating, Executing, Reviewing
  <2>7. Validated(p)'
    BY <1>1, <1>2, <2>1, <2>2 DEF SameLoop, Validated, Passed
  <2>. QED  BY <1>1, <1>2, <2>4, <2>5, <2>6, <2>7, OneMoves
<1>. QED  BY <1>4, <1>5

LEMMA ReviewedSteps7 ==
  ASSUME LockedInv, AloneInv, ReviewedInv, NEW p \in Procs,
         proc[p].pc \notin Rest, CompareAndDecide(p)
  PROVE  ReviewedInv'
<1>1. /\ proc[p].pc = "compare" /\ proc[p].it = cursor /\ cursor \in Iterations
      /\ proc[p].ro => waived
      /\ UNCHANGED <<cursor, snapshot, result, review, content, outcome,
                     waived, validated>>
  BY IterationIsCursor
     DEF CompareAndDecide, At, Iterating, Reviewing, artifacts, worktree,
         history
<1>2. Others(p)
  BY CompareAndDecideDoes DEF Moves
<1>3. CASE Leave(p) /\ doc' = doc
  BY <1>1, <1>3, LeavingIsReviewed
<1>4. CASE proc'[p].pc = "failed" /\ SameLoop(p) /\ doc' = doc
  BY <1>1, <1>2, <1>4, QuietStep DEF SameLoop, Quiet
<1>5. CASE /\ proc'[p].pc = "freeze" /\ SameLoop(p) /\ doc' = doc
           /\ content = proc[p].before /\ proc'[p].before = content
  <2>1. snapshot[cursor] # NoContent /\ Passed(proc[p].before)
    BY <1>1 DEF ReviewedInv, CursorFollowed, Validated
  <2>2. CursorFollowed(p)'
    BY <1>1, <1>5, <2>1
       DEF SameLoop, CursorFollowed, Iterating, Executing, Reviewing
  <2>3. Validated(p)'
    BY <1>1, <1>5, <2>1 DEF SameLoop, Validated, Passed
  <2>. QED  BY <1>1, <1>2, <1>5, <2>2, <2>3, FilesStay, OneMoves
<1>6. CASE /\ proc'[p].pc = IF proc[p].ro THEN "exiting" ELSE "top"
           /\ proc'[p].it = proc[p].it + 1 /\ proc'[p].phase = "executor"
           /\ proc'[p].ro = proc[p].ro
           /\ doc'.status = "CHANGES_REQUESTED"
  <2>1. CursorFollowed(p)'
    BY <1>1, <1>6
       DEF CursorFollowed, Iterating, Executing, Reviewing, Iterations
  <2>2. Validated(p)'
    BY <1>1, <1>6 DEF Validated
  <2>. QED  BY <1>1, <1>2, <1>6, <2>1, <2>2, FilesStay, OneMoves
<1>. QED  BY <1>3, <1>4, <1>5, <1>6, CompareAndDecideDoes

LEMMA ReviewedSteps8 ==
  ASSUME LockedInv, AloneInv, ReviewedInv, NEW p \in Procs,
         proc[p].pc \notin Rest, FreezeManifest(p) \/ Finalize(p)
  PROVE  ReviewedInv'
<1>1. UNCHANGED <<doc, cursor, snapshot, result, review, content, waived,
                  validated>>
  BY DEF FreezeManifest, Finalize, artifacts, worktree, history
<1>2. CursorLeads'
  BY <1>1 DEF ReviewedInv, CursorLeads
<1>3. CASE FreezeManifest(p)
  <2>1. /\ proc[p].pc = "freeze" /\ proc[p].it = cursor /\ (proc[p].ro => waived)
        /\ published' = published
        /\ Passed(proc[p].before) /\ snapshot[cursor] # NoContent
    BY <1>3, IterationIsCursor
       DEF FreezeManifest, At, Iterating, Reviewing, ReviewedInv, Validated,
           CursorFollowed
  <2>2. ReviewedWasValidated'
    BY <1>1, <1>3, <2>1, FreezeManifestKeepsLocks
       DEF ReviewedInv, ReviewedWasValidated, Passed
  <2>3. /\ Others(p) /\ SameSession(p)
        /\ proc'[p].pc \in {"approve", "failed"}
    BY <1>3, FreezeManifestKeepsLocks DEF Moves
  <2>4. CursorFollowed(p)'
    BY <1>1, <2>1, <2>3
       DEF SameSession, CursorFollowed, Iterating, Executing, Reviewing
  <2>5. Validated(p)'
    BY <1>1, <2>1, <2>3 DEF SameSession, Validated
  <2>. QED  BY <1>1, <1>2, <2>2, <2>3, <2>4, <2>5, OneMoves
<1>4. CASE Finalize(p)
  <2>1. /\ published' \in {published, content} /\ manifest' = manifest
        /\ published' # published => content = manifest
        /\ Leave(p)
    BY <1>4 DEF Finalize, ReviewedSnapshot
  <2>2. content # NoContent
    BY ContentsDiffer DEF LockedInv, Typed, TypedFiles
  <2>3. ReviewedWasValidated'
    BY <1>1, <2>1, <2>2 DEF ReviewedInv, ReviewedWasValidated, Passed
  <2>4. /\ Others(p) /\ proc'[p].pc \in Rest /\ proc'[p].ro = FALSE
    BY <2>1, Leaving DEF Moves, Rest
  <2>5. CursorFollowed(p)' /\ Validated(p)'
    BY <2>4
       DEF Rest, CursorFollowed, Validated, Iterating, Executing, Reviewing
  <2>. QED  BY <1>1, <1>2, <2>3, <2>4, <2>5, OneMoves
<1>. QED  BY <1>3, <1>4

(* An agent works, somebody edits, or the operator restores HEAD.          *)
LEMMA EditsAreReviewed ==
  ASSUME LockedInv, AloneInv, ReviewedInv,
         \/ \E p \in Procs : AgentWorks(p)
         \/ Drift \/ RestoreHead \/ UNCHANGED vars
  PROVE  ReviewedInv'
<1>1. /\ UNCHANGED <<doc, proc, cursor, snapshot, result, review, outcome,
                     validated>>
      /\ waived => waived'
  BY DEF AgentWorks, Drift, RestoreHead, vars, artifacts, worktree, history
<1>2. /\ CursorLeads'
      /\ \A q \in Procs : CursorFollowed(q)'
  BY <1>1 DEF ReviewedInv, CursorLeads, CursorFollowed
<1>3. CASE waived' \/ content' = content
  <2>1. ReviewedWasValidated'
    BY <1>1, <1>3 DEF ReviewedInv, ReviewedWasValidated, Passed, outcome
  <2>2. ASSUME NEW q \in Procs PROVE Validated(q)'
    BY <1>1, <1>3 DEF ReviewedInv, Validated, Passed
  <2>. QED  BY <1>2, <2>1, <2>2 DEF ReviewedInv
<1>4. ASSUME NEW p \in Procs, AgentWorks(p) PROVE ReviewedInv'
  <2>1. proc[p].pc \in {"executing", "reviewing"}
    BY <1>4 DEF AgentWorks, At
  <2>2. proc[p].it = cursor
    BY <2>1, IterationIsCursor DEF Iterating, Executing, Reviewing
  <2>3. ~(doc.status = "REVIEWING" /\ snapshot[cursor] = NoContent)
    BY <2>1, <2>2 DEF ReviewedInv, CursorFollowed
  <2>4. ReviewedWasValidated'
    BY <1>1, <2>3 DEF ReviewedInv, ReviewedWasValidated, Passed, outcome
  <2>5. ASSUME NEW q \in Procs PROVE Validated(q)'
    <3>1. q # p => proc[q].pc \in Rest
      BY <2>1, OthersRest DEF AloneInv, Rest
    <3>2. proc[q].pc \notin {"review", "snapshot", "top", "lock"}
      BY <2>1, <3>1 DEF Rest
    <3>. QED  BY <1>1, <3>2 DEF ReviewedInv, Validated, Passed
  <2>. QED  BY <1>2, <2>4, <2>5 DEF ReviewedInv
<1>5. CASE Drift \/ RestoreHead \/ UNCHANGED vars
  BY <1>3, <1>5 DEF Drift, RestoreHead, vars, worktree
<1>. QED  BY <1>4, <1>5

LEMMA ResumingIsReviewed ==
  ASSUME ~MayOverlap, LockedInv, AloneInv, ReviewedInv,
         NEW ro \in BOOLEAN, NEW add \in Extensions, ResumeExec(ro, add)
  PROVE  ReviewedInv'
<1>1. /\ Others("resume") /\ proc["fresh"].pc = "done"
      /\ proc'["resume"].pc \in Quiet /\ proc'["resume"].ro = ro
      /\ waived' = (waived \/ ro)
      /\ UNCHANGED <<doc, cursor, snapshot, result, review, content, outcome,
                     validated>>
  BY ResumeExecDoes DEF ResumeExec, At, Moves, Quiet, artifacts, worktree
<1>2. CursorLeads' /\ ReviewedWasValidated'
  BY <1>1, FilesStay
<1>3. ASSUME NEW q \in Procs
      PROVE  (CursorFollowed(q) /\ Validated(q))'
  <2>1. proc'[q].pc \in Quiet /\ (proc'[q].ro => waived')
    BY <1>1 DEF Others, Procs, Quiet, Rest, ReviewedInv, Validated
  <2>. QED
    BY <2>1
       DEF Quiet, Rest, CursorFollowed, Validated, Iterating, Executing,
           Reviewing
<1>. QED  BY <1>2, <1>3 DEF ReviewedInv

LEMMA ReviewedStep ==
  ASSUME ~MayOverlap, ~MayTear, LockedInv, AloneInv, ReviewedInv, [Next]_vars
  PROVE  ReviewedInv'
<1>1. ASSUME NEW p \in Procs, SessionStep(p)
      PROVE  ReviewedInv'
  <2>1. proc[p].pc \notin Rest
    BY <1>1, RestingSteps DEF AloneInv
  <2>2. ~CursorTruncated(p)
    BY DEF CursorTruncated
  <2>. QED
    BY <1>1, <2>1, <2>2, ReviewedSteps1, ReviewedSteps2, ReviewedSteps3,
       ReviewedSteps4, ReviewedSteps5, ReviewedSteps6, ReviewedSteps7,
       ReviewedSteps8
       DEF SessionStep, Step
<1>. QED
  BY <1>1, ResumingIsReviewed, EditsAreReviewed, StepsAre

LEMMA InitReviewed ==
  ASSUME Init
  PROVE  ReviewedInv
<1>1. /\ proc["resume"].pc = "idle" /\ ~proc["resume"].ro
      /\ proc["fresh"].pc = "start" /\ ~proc["fresh"].ro
      /\ proc["fresh"].phase = "executor"
  BY IdleIsSession DEF Init, Procs, Idle
<1>2. CursorLeads /\ ReviewedWasValidated
  BY DEF Init, Doc!EmptyDocument, Doc!NoStatus, CursorLeads,
     ReviewedWasValidated
<1>3. ASSUME NEW p \in Procs PROVE CursorFollowed(p) /\ Validated(p)
  BY <1>1
     DEF Init, Procs, CursorFollowed, Validated, Iterating, Executing, Reviewing
<1>. QED  BY <1>2, <1>3 DEF ReviewedInv

(***************************************************************************)
(* While sessions alternate and the iteration file is never torn, the file *)
(* leads every other artifact, and what is reviewed, frozen or published   *)
(* passed the validations, or an operator waived them.                     *)
(***************************************************************************)
THEOREM ReviewsAreValidated ==
  ASSUME ~MayOverlap, ~MayTear
  PROVE  Spec => [](LockedInv /\ AloneInv /\ ReviewedInv)
<1>1. LockedInv /\ AloneInv /\ ReviewedInv /\ [Next]_vars
        => (LockedInv /\ AloneInv /\ ReviewedInv)'
  BY LockedStep, AloneStep, ReviewedStep
<1>2. Init => LockedInv /\ AloneInv /\ ReviewedInv
  BY InitLocked, InitAlone, InitReviewed
<1>. QED  BY <1>1, <1>2, PTL DEF Spec

(***************************************************************************)
(* What is APPROVED passed the validations: neither a kill nor a signal,   *)
(* in any phase, lets a resume session review and approve a snapshot the   *)
(* validations never saw.                                                  *)
(***************************************************************************)
THEOREM ApprovalsAreValidated ==
  ASSUME ~MayOverlap, ~MayTear
  PROVE  Spec => []ApprovedWasValidated
<1>1. LockedInv /\ ReviewedInv => ApprovedWasValidated
  BY DEF LockedInv, FrozenWasApproved, ReviewedInv, ReviewedWasValidated,
     Passed, ApprovedWasValidated
<1>. QED  BY <1>1, ReviewsAreValidated, PTL

(***************************************************************************)
(* The dedicated branch holds a snapshot that was approved and validated,  *)
(* whoever publishes it, in a worktree that may drift.                     *)
(***************************************************************************)
THEOREM PublicationsAreValidated ==
  ASSUME ~MayOverlap, ~MayTear
  PROVE  Spec => []PublishedWasApproved
<1>1. LockedInv /\ ReviewedInv => PublishedWasApproved
  BY DEF LockedInv, FrozenWasApproved, ReviewedInv, ReviewedWasValidated,
     Passed, PublishedWasApproved
<1>. QED  BY <1>1, ReviewsAreValidated, PTL

-----------------------------------------------------------------------------
(* Layer 4: moreover, no session is review-only.                           *)

LEMMA OneMovesUnreviewed ==
  ASSUME LockedInv, AloneInv, UnreviewedInv, NEW p \in Procs, Others(p),
         proc[p].pc \notin Rest, SnapshotHasReport', Unreviewed(p)'
  PROVE  UnreviewedInv'
<1>1. ASSUME NEW q \in Procs, q # p PROVE Unreviewed(q)'
  <2>1. proc'[q].pc \in Rest /\ ~proc'[q].ro
    BY <1>1, OthersRest DEF AloneInv, Others, UnreviewedInv, Unreviewed
  <2>. QED  BY <2>1 DEF Rest, Unreviewed
<1>. QED  BY <1>1 DEF UnreviewedInv

LEMMA ReportsStay ==
  ASSUME UnreviewedInv, UNCHANGED <<cursor, cursorReport, snapshot>>,
         doc'.status = "EXECUTING" => doc.status = "EXECUTING"
  PROVE  SnapshotHasReport'
BY DEF UnreviewedInv, SnapshotHasReport, PlanCursor

(* A session goes to a place that relies on nothing.                       *)
LEMMA QuietUnreviewed ==
  ASSUME LockedInv, AloneInv, UnreviewedInv, NEW p \in Procs, Others(p),
         proc[p].pc \notin Rest,
         proc'[p].pc \in Quiet \cup {"init", "bootstrap", "finalize"},
         proc'[p].ro => proc[p].ro, SnapshotHasReport'
  PROVE  UnreviewedInv'
<1>1. ~proc'[p].ro
  BY DEF UnreviewedInv, Unreviewed
<1>2. Unreviewed(p)'
  BY <1>1 DEF Unreviewed, Quiet, Rest
<1>. QED  BY <1>2, OneMovesUnreviewed

LEMMA LeavingUnreviewed ==
  ASSUME LockedInv, AloneInv, UnreviewedInv, NEW p \in Procs, Leave(p),
         proc[p].pc \notin Rest, UNCHANGED <<cursor, cursorReport, snapshot>>,
         doc' = doc \/ doc'.status = "BLOCKED"
  PROVE  UnreviewedInv'
BY Leaving, ReportsStay, QuietUnreviewed DEF Moves, Quiet, Rest

LEMMA UnreviewedSteps1 ==
  ASSUME LockedInv, AloneInv, ReviewedInv, UnreviewedInv, NEW p \in Procs,
         proc[p].pc \notin Rest,
         RunStarted(p) \/ InitRun(p) \/ Bootstrap(p)
  PROVE  UnreviewedInv'
<1>1. cursor = 0 /\ proc[p].phase = "executor"
  BY DEF ReviewedInv, CursorFollowed, RunStarted, InitRun, Bootstrap, At
<1>2. /\ Others(p) /\ proc'[p].ro = proc[p].ro
      /\ proc'[p].phase = proc[p].phase
      /\ \/ proc'[p].pc \in {"init", "bootstrap", "failed"}
         \/ proc'[p].pc = "top" /\ proc'[p].it = 1
  BY RunStartedDoes, InitRunDoes, BootstrapDoes
     DEF Moves, SameSession, Bootstrap
<1>3. UNCHANGED <<cursor, cursorReport, snapshot>>
  BY DEF RunStarted, InitRun, Bootstrap, artifacts
<1>4. 1 \in Iterations /\ snapshot[1] = NoContent
  BY <1>1 DEF ReviewedInv, CursorLeads, Iterations
<1>5. SnapshotHasReport'
  BY <1>1, <1>3, <1>4 DEF UnreviewedInv, SnapshotHasReport, PlanCursor
<1>6. CASE proc'[p].pc = "top" /\ proc'[p].it = 1
  <2>1. Unreviewed(p)'
    BY <1>1, <1>2, <1>3, <1>4, <1>6 DEF UnreviewedInv, Unreviewed
  <2>. QED  BY <1>2, <1>5, <2>1, OneMovesUnreviewed
<1>7. CASE proc'[p].pc \in {"init", "bootstrap", "failed"}
  BY <1>2, <1>5, <1>7, QuietUnreviewed DEF Quiet
<1>. QED  BY <1>2, <1>6, <1>7

(* plan_resume starts an executor only where no snapshot is bound, and a   *)
(* reviewer never over an executor that was interrupted.                   *)
LEMMA PlannedExecutorIsFree ==
  ASSUME LockedInv, ReviewedInv, UnreviewedInv, NEW p \in Procs, Resumable,
         PlanPhase(proc[p].ro) # "complete"
  PROVE  /\ /\ PlanPhase(proc[p].ro) = "executor"
            /\ PlanIteration(proc[p].ro) \in Iterations
            => snapshot[PlanIteration(proc[p].ro)] = NoContent
         /\ PlanPhase(proc[p].ro) = "reviewer" => doc.status # "EXECUTING"
<1>1. ~proc[p].ro /\ cursor \in Nat /\ PlanCursor \in Iterations
  BY SessionFields
     DEF UnreviewedInv, Unreviewed, PlanCursor, Iterations
<1>2. CASE doc.status = "CHANGES_REQUESTED"
  BY <1>1, <1>2
     DEF PlanPhase, PlanIteration, PlanCursor, ReviewedInv, CursorLeads
<1>3. CASE doc.status = "APPROVED"
  BY <1>3 DEF PlanPhase
<1>4. CASE doc.status \notin {"CHANGES_REQUESTED", "APPROVED"}
  <2>1. PlanIteration(proc[p].ro) = PlanCursor
    BY <1>4 DEF PlanIteration
  <2>2. PlanPhase(proc[p].ro) =
          IF Reviewable(PlanCursor) THEN "reviewer" ELSE "executor"
    BY <1>1, <1>4 DEF PlanPhase
  <2>3. ~Reviewable(PlanCursor) => snapshot[PlanCursor] = NoContent
    BY <1>1 DEF Reviewable, UnreviewedInv, SnapshotHasReport
  <2>4. doc.status = "EXECUTING" => ~Reviewable(PlanCursor)
    BY <1>1
       DEF Reviewable, UnreviewedInv, SnapshotHasReport, ReviewedInv,
           CursorLeads
  <2>. QED  BY <2>1, <2>2, <2>3, <2>4
<1>. QED  BY <1>2, <1>3, <1>4

LEMMA UnreviewedSteps2 ==
  ASSUME LockedInv, AloneInv, ReviewedInv, UnreviewedInv, NEW p \in Procs,
         proc[p].pc \notin Rest,
         \/ AuthorizeExtension(p) \/ RecordExtension(p) \/ PlanResume(p)
         \/ LockLoop(p)
  PROVE  UnreviewedInv'
<1>1. UNCHANGED <<cursor, cursorReport, snapshot>>
  BY DEF AuthorizeExtension, RecordExtension, PlanResume, LockLoop, artifacts
<1>2. AuthorizeExtension(p) \/ PlanResume(p) \/ LockLoop(p) => doc' = doc
  BY DEF AuthorizeExtension, PlanResume, LockLoop
<1>3. CASE Leave(p) /\ doc' = doc
  BY <1>1, <1>3, LeavingUnreviewed
<1>4. CASE AuthorizeExtension(p) /\ ~Leave(p)
  BY <1>1, <1>2, <1>4, AuthorizeExtensionDoes, ReportsStay, QuietUnreviewed
     DEF Moves, SameSession, Quiet
<1>5. CASE RecordExtension(p) /\ ~(Leave(p) /\ doc' = doc)
  BY <1>1, <1>5, RecordExtensionDoes, ReportsStay, QuietUnreviewed
     DEF Moves, Quiet
<1>6. CASE PlanResume(p) /\ ~Leave(p)
  <2>1. /\ Resumable /\ PlanPhase(proc[p].ro) # "complete" /\ Others(p)
        /\ proc'[p].pc = "lock" /\ proc'[p].ro = proc[p].ro
        /\ proc'[p].phase = PlanPhase(proc[p].ro)
        /\ proc'[p].it = PlanIteration(proc[p].ro)
    BY <1>6, PlanResumeDoes DEF Moves
  <2>2. PlanPhase(proc[p].ro) \in {"executor", "reviewer"}
    BY <2>1 DEF PlanPhase
  <2>3. Unreviewed(p)'
    BY <1>1, <1>2, <1>6, <2>1, <2>2, PlannedExecutorIsFree
       DEF UnreviewedInv, Unreviewed
  <2>. QED  BY <1>1, <1>2, <1>6, <2>1, <2>3, ReportsStay, OneMovesUnreviewed
<1>7. CASE LockLoop(p) /\ ~Leave(p)
  <2>1. /\ Others(p) /\ proc[p].pc = "lock"
        /\ proc'[p].pc = "top" /\ proc'[p].it = proc[p].it
        /\ proc'[p].ro = proc[p].ro /\ proc'[p].phase = proc[p].phase
    BY <1>7, LockLoopDoes DEF LockLoop, Moves, At
  <2>2. Unreviewed(p)'
    BY <1>1, <1>2, <1>7, <2>1 DEF UnreviewedInv, Unreviewed
  <2>. QED  BY <1>1, <1>2, <1>7, <2>1, <2>2, ReportsStay, OneMovesUnreviewed
<1>. QED  BY <1>2, <1>3, <1>4, <1>5, <1>6, <1>7

LEMMA UnreviewedSteps3 ==
  ASSUME LockedInv, AloneInv, ReviewedInv, UnreviewedInv, NEW p \in Procs,
         proc[p].pc \notin Rest,
         \/ WriteCursor(p) \/ LoopExhausted(p) \/ BlockRun(p)
         \/ InstructionsRefused(p) \/ Exit(p) \/ Kill(p) \/ Signal(p)
         \/ Finalize(p)
  PROVE  UnreviewedInv'
<1>1. CASE LoopExhausted(p) \/ BlockRun(p)
  <2>1. doc' = doc \/ doc'.status = "BLOCKED"
    BY <1>1, LoopExhaustedKeepsLocks, FailuresDiffer, Blocks
       DEF LoopExhausted, BlockRun
  <2>2. proc'[p].ro = proc[p].ro /\ proc'[p].pc = "exiting" /\ Others(p)
    BY <1>1, SessionFields, GoesTo
       DEF LoopExhausted, BlockRun, SameSession, Labels
  <2>3. UNCHANGED <<cursor, cursorReport, snapshot>>
    BY <1>1 DEF LoopExhausted, BlockRun, artifacts
  <2>. QED  BY <2>1, <2>2, <2>3, ReportsStay, QuietUnreviewed DEF Quiet
<1>2. CASE \/ InstructionsRefused(p) \/ Exit(p) \/ Kill(p) \/ Signal(p)
           \/ Finalize(p)
  <2>1. Leave(p) /\ (doc' = doc \/ doc'.status = "BLOCKED")
    BY <1>2, SignalDoes DEF InstructionsRefused, Exit, Kill, Finalize
  <2>2. UNCHANGED <<cursor, cursorReport, snapshot>>
    BY <1>2
       DEF InstructionsRefused, Exit, Kill, Signal, Finalize, artifacts
  <2>. QED  BY <2>1, <2>2, LeavingUnreviewed
<1>3. CASE WriteCursor(p)
  <2>1. /\ proc[p].pc = "top" /\ cursor' = proc[p].it
        /\ UNCHANGED <<doc, cursorReport, snapshot>>
        /\ proc[p].it <= proc[p].limit
    BY <1>3 DEF WriteCursor, At, WithinLimit
  <2>2. /\ Others(p) /\ SameSession(p) /\ ~proc[p].ro
        /\ \/ proc'[p].pc = "begin" /\ proc[p].phase = "executor"
           \/ /\ proc'[p].pc = "review" /\ proc[p].phase = "reviewer"
              /\ proc[p].it \in cursorReport
           \/ proc'[p].pc = "failed"
    BY <1>3, WriteCursorDoes DEF Moves, UnreviewedInv, Unreviewed
  <2>3. proc[p].it \in Iterations
    BY <2>1, SessionFields DEF SessionInv, Placed, Iterations
  <2>4. /\ proc[p].phase = "executor" => snapshot[proc[p].it] = NoContent
        /\ proc[p].phase # "executor" => doc.status # "EXECUTING"
    BY <2>1, <2>3 DEF UnreviewedInv, Unreviewed
  <2>5. PlanCursor' = proc[p].it
    BY <2>1, <2>3 DEF PlanCursor, Iterations
  <2>6. SnapshotHasReport'
    BY <2>1, <2>4, <2>5 DEF UnreviewedInv, SnapshotHasReport
  <2>7. Unreviewed(p)'
    BY <2>1, <2>2, <2>4 DEF SameSession, Unreviewed
  <2>. QED  BY <2>2, <2>6, <2>7, OneMovesUnreviewed
<1>. QED  BY <1>1, <1>2, <1>3

LEMMA UnreviewedSteps4 ==
  ASSUME LockedInv, AloneInv, ReviewedInv, UnreviewedInv, NEW p \in Procs,
         proc[p].pc \notin Rest,
         ExecutorStarted(p) \/ ReviewStarted(p) \/ ReviewApproved(p)
  PROVE  UnreviewedInv'
<1>1. Others(p) /\ UNCHANGED <<cursor, cursorReport, snapshot>>
  BY EventDoes DEF artifacts
<1>2. CASE Leave(p) /\ doc' = doc
  BY <1>1, <1>2, LeavingUnreviewed
<1>3. ASSUME SameSession(p), proc[p].pc = "begin", proc'[p].pc = "prompt"
      PROVE  UnreviewedInv'
  <2>1. proc[p].it = cursor /\ cursor # 0
    BY <1>3, IterationIsCursor DEF Iterating, Executing
  <2>2. snapshot[proc[p].it] = NoContent
    BY <1>3 DEF UnreviewedInv, Unreviewed
  <2>3. SnapshotHasReport'
    BY <1>1, <2>1, <2>2 DEF UnreviewedInv, SnapshotHasReport, PlanCursor
  <2>4. Unreviewed(p)'
    BY <1>1, <1>3, <2>2 DEF SameSession, UnreviewedInv, Unreviewed
  <2>. QED  BY <1>1, <2>3, <2>4, OneMovesUnreviewed
<1>4. ASSUME SameSession(p), proc[p].pc = "review", proc'[p].pc = "snapshot",
             doc'.status = "REVIEWING"
      PROVE  UnreviewedInv'
  <2>1. Unreviewed(p)'
    BY <1>1, <1>4 DEF SameSession, UnreviewedInv, Unreviewed
  <2>. QED  BY <1>1, <1>4, <2>1, ReportsStay, OneMovesUnreviewed
<1>5. ASSUME SameSession(p), proc'[p].pc = "finalize",
             doc'.status = "APPROVED"
      PROVE  UnreviewedInv'
  BY <1>1, <1>5, ReportsStay, QuietUnreviewed DEF SameSession
<1>. QED  BY <1>2, <1>3, <1>4, <1>5, EventDoes

LEMMA UnreviewedSteps5 ==
  ASSUME LockedInv, AloneInv, ReviewedInv, UnreviewedInv, NEW p \in Procs,
         proc[p].pc \notin Rest,
         ExecutorLaunched(p) \/ ExecutorEnds(p) \/ Validate(p)
  PROVE  UnreviewedInv'
<1>1. CASE ExecutorLaunched(p)
  <2>1. /\ Others(p) /\ SameSession(p) /\ proc'[p].pc = "executing"
        /\ proc[p].pc = "prompt"
        /\ UNCHANGED <<doc, cursor, cursorReport, snapshot>>
    BY <1>1, ExecutorLaunchedKeepsLocks
       DEF ExecutorLaunched, At, Moves, artifacts
  <2>2. Unreviewed(p)'
    BY <2>1 DEF SameSession, UnreviewedInv, Unreviewed
  <2>. QED  BY <2>1, <2>2, ReportsStay, OneMovesUnreviewed
<1>2. CASE ExecutorEnds(p)
  <2>1. /\ Others(p) /\ SameSession(p) /\ proc[p].pc = "executing"
        /\ \/ proc'[p].pc = "validate" /\ proc[p].it \in cursorReport'
           \/ proc'[p].pc = "failed"
        /\ UNCHANGED <<doc, cursor, snapshot>>
    BY <1>2, ExecutorEndsKeepsLocks DEF ExecutorEnds, At, Moves
  <2>2. /\ snapshot[proc[p].it] = NoContent /\ ~proc[p].ro
        /\ \A n \in cursorReport : n # proc[p].it => n \in cursorReport'
    BY <1>2, <2>1 DEF ExecutorEnds, UnreviewedInv, Unreviewed
  <2>3. SnapshotHasReport'
    BY <2>1, <2>2 DEF UnreviewedInv, SnapshotHasReport, PlanCursor
  <2>4. Unreviewed(p)'
    BY <2>1, <2>2 DEF SameSession, Unreviewed
  <2>. QED  BY <2>1, <2>3, <2>4, OneMovesUnreviewed
<1>3. CASE Validate(p)
  <2>1. /\ Others(p) /\ SameSession(p) /\ proc[p].pc = "validate"
        /\ proc'[p].pc \in {"review", "failed"}
        /\ UNCHANGED <<doc, cursor, cursorReport, snapshot>>
    BY <1>3, ValidateKeepsLocks DEF Validate, At, Moves, artifacts
  <2>2. Unreviewed(p)'
    BY <2>1 DEF SameSession, UnreviewedInv, Unreviewed
  <2>. QED  BY <2>1, <2>2, ReportsStay, OneMovesUnreviewed
<1>. QED  BY <1>1, <1>2, <1>3

LEMMA UnreviewedSteps6 ==
  ASSUME LockedInv, AloneInv, ReviewedInv, UnreviewedInv, NEW p \in Procs,
         proc[p].pc \notin Rest,
         \/ RecordReviewSnapshot(p) \/ ReviewerEnds(p) \/ MoveReview(p)
         \/ FreezeManifest(p)
  PROVE  UnreviewedInv'
<1>1. /\ proc[p].pc \in {"snapshot", "reviewing", "move", "freeze"}
      /\ UNCHANGED <<doc, cursor, cursorReport>>
  BY DEF RecordReviewSnapshot, ReviewerEnds, MoveReview, FreezeManifest, At,
     artifacts
<1>2. doc.status = "REVIEWING" /\ ~proc[p].ro
  BY <1>1 DEF UnreviewedInv, Unreviewed
<1>3. Others(p) /\ proc'[p].it = proc[p].it /\ proc'[p].ro = proc[p].ro
  BY RecordReviewSnapshotDoes, ReviewerEndsDoes, MoveReviewDoes,
     FreezeManifestKeepsLocks DEF Moves, SameLoop, SameSession
<1>4. proc'[p].pc \in {"reviewing", "move", "compare", "approve", "failed"}
  BY RecordReviewSnapshotDoes, ReviewerEndsDoes, MoveReviewDoes,
     FreezeManifestKeepsLocks
<1>5. Unreviewed(p)'
  BY <1>1, <1>2, <1>3, <1>4 DEF Unreviewed
<1>6. SnapshotHasReport'
  <2>1. CASE RecordReviewSnapshot(p)
    <3>1. proc[p].it \in cursorReport
      BY <2>1 DEF RecordReviewSnapshot, At, UnreviewedInv, Unreviewed
    <3>2. \A n \in Iterations : n # proc[p].it => snapshot'[n] = snapshot[n]
      BY <2>1 DEF RecordReviewSnapshot, LockedInv, Typed, TypedFiles
    <3>. QED
      BY <1>1, <1>2, <3>1, <3>2 DEF UnreviewedInv, SnapshotHasReport
  <2>2. CASE ReviewerEnds(p) \/ MoveReview(p) \/ FreezeManifest(p)
    BY <1>1, <2>2, ReportsStay
       DEF ReviewerEnds, MoveReview, FreezeManifest, artifacts
  <2>. QED  BY <2>1, <2>2
<1>. QED  BY <1>1, <1>3, <1>5, <1>6, OneMovesUnreviewed

LEMMA UnreviewedSteps7 ==
  ASSUME LockedInv, AloneInv, ReviewedInv, UnreviewedInv, NEW p \in Procs,
         proc[p].pc \notin Rest, CompareAndDecide(p)
  PROVE  UnreviewedInv'
<1>1. /\ proc[p].pc = "compare" /\ proc[p].it = cursor /\ cursor \in Iterations
      /\ UNCHANGED <<cursor, cursorReport, snapshot>>
      /\ doc.status = "REVIEWING" /\ ~proc[p].ro
  BY IterationIsCursor
     DEF CompareAndDecide, At, Iterating, Reviewing, artifacts, UnreviewedInv,
         Unreviewed
<1>2. Others(p)
  BY CompareAndDecideDoes DEF Moves
<1>3. CASE Leave(p) /\ doc' = doc
  BY <1>1, <1>3, LeavingUnreviewed
<1>4. CASE /\ proc'[p].pc \in {"failed", "freeze"} /\ SameLoop(p)
           /\ doc' = doc
  <2>1. Unreviewed(p)'
    BY <1>1, <1>4 DEF SameLoop, Unreviewed
  <2>. QED  BY <1>1, <1>2, <1>4, <2>1, ReportsStay, OneMovesUnreviewed
<1>5. CASE /\ proc'[p].pc = IF proc[p].ro THEN "exiting" ELSE "top"
           /\ proc'[p].it = proc[p].it + 1 /\ proc'[p].phase = "executor"
           /\ proc'[p].ro = proc[p].ro
           /\ doc'.status = "CHANGES_REQUESTED"
  <2>1. proc'[p].it \in Iterations => snapshot[proc'[p].it] = NoContent
    BY <1>1, <1>5 DEF ReviewedInv, CursorLeads, Iterations
  <2>2. Unreviewed(p)'
    BY <1>1, <1>5, <2>1 DEF Unreviewed
  <2>. QED  BY <1>1, <1>2, <1>5, <2>2, ReportsStay, OneMovesUnreviewed
<1>. QED  BY <1>3, <1>4, <1>5, CompareAndDecideDoes

LEMMA UnreviewedStep ==
  ASSUME ~MayOverlap, ~MayTear, ~MayReviewOnly,
         LockedInv, AloneInv, ReviewedInv, UnreviewedInv, [Next]_vars
  PROVE  UnreviewedInv'
<1>1. ASSUME NEW p \in Procs, SessionStep(p)
      PROVE  UnreviewedInv'
  <2>1. proc[p].pc \notin Rest
    BY <1>1, RestingSteps DEF AloneInv
  <2>2. ~CursorTruncated(p)
    BY DEF CursorTruncated
  <2>. QED
    BY <1>1, <2>1, <2>2, UnreviewedSteps1, UnreviewedSteps2, UnreviewedSteps3,
       UnreviewedSteps4, UnreviewedSteps5, UnreviewedSteps6, UnreviewedSteps7
       DEF SessionStep, Step
<1>2. ASSUME NEW ro \in BOOLEAN, NEW add \in Extensions, ResumeExec(ro, add),
             ro => MayReviewOnly
      PROVE  UnreviewedInv'
  <2>1. /\ Others("resume") /\ proc["fresh"].pc = "done"
        /\ proc'["resume"].pc \in {"plan", "authorize"}
        /\ ~proc'["resume"].ro
        /\ UNCHANGED <<doc, cursor, cursorReport, snapshot>>
    BY <1>2, ResumeExecDoes DEF ResumeExec, At, Moves, artifacts
  <2>2. SnapshotHasReport'
    BY <2>1, ReportsStay
  <2>3. ASSUME NEW q \in Procs PROVE Unreviewed(q)'
    <3>1. proc'[q].pc \in {"plan", "authorize", "done"} /\ ~proc'[q].ro
      BY <2>1 DEF Others, Procs, UnreviewedInv, Unreviewed
    <3>. QED  BY <3>1 DEF Unreviewed
  <2>. QED  BY <2>2, <2>3 DEF UnreviewedInv
<1>3. ASSUME EditsOnly PROVE UnreviewedInv'
  BY <1>3 DEF EditsOnly, artifacts, UnreviewedInv, SnapshotHasReport,
     Unreviewed, PlanCursor
<1>. QED  BY <1>1, <1>2, <1>3, StepsAre, EditsAre

LEMMA InitUnreviewed ==
  ASSUME Init
  PROVE  UnreviewedInv
<1>1. /\ proc["resume"].pc = "idle" /\ ~proc["resume"].ro
      /\ proc["fresh"].pc = "start" /\ ~proc["fresh"].ro
  BY IdleIsSession DEF Init, Procs, Idle
<1>2. SnapshotHasReport
  BY DEF Init, Doc!EmptyDocument, Doc!NoStatus, SnapshotHasReport
<1>3. ASSUME NEW p \in Procs PROVE Unreviewed(p)
  BY <1>1 DEF Procs, Unreviewed
<1>. QED  BY <1>2, <1>3 DEF UnreviewedInv

(***************************************************************************)
(* Without review-only sessions, an executor never works under a review    *)
(* snapshot, and every snapshot has the report of its executor.            *)
(***************************************************************************)
THEOREM ExecutorsAreUnreviewed ==
  ASSUME ~MayOverlap, ~MayTear, ~MayReviewOnly
  PROVE  Spec => [](LockedInv /\ AloneInv /\ ReviewedInv /\ UnreviewedInv)
<1>1. LockedInv /\ AloneInv /\ ReviewedInv /\ UnreviewedInv /\ [Next]_vars
        => (LockedInv /\ AloneInv /\ ReviewedInv /\ UnreviewedInv)'
  BY LockedStep, AloneStep, ReviewedStep, UnreviewedStep
<1>2. Init => LockedInv /\ AloneInv /\ ReviewedInv /\ UnreviewedInv
  BY InitLocked, InitAlone, InitReviewed, InitUnreviewed
<1>. QED  BY <1>1, <1>2, PTL DEF Spec

(***************************************************************************)
(* A run whose executor was interrupted can be resumed: its plan finds no  *)
(* snapshot that the edits of the executor contradict.                     *)
(***************************************************************************)
THEOREM InterruptedExecutorsResume ==
  ASSUME ~MayOverlap, ~MayTear, ~MayReviewOnly
  PROVE  Spec => []InterruptedExecutorResumable
<1>1. LockedInv /\ UnreviewedInv => InterruptedExecutorResumable
  <2>. SUFFICES ASSUME LockedInv, UnreviewedInv, doc.status = "EXECUTING",
                       ValidRun
                PROVE  Resumable
    BY DEF InterruptedExecutorResumable
  <2>1. SnapshotHolds
    BY DEF UnreviewedInv, SnapshotHasReport, SnapshotHolds
  <2>2. PlanCursor <= doc.limit
    BY SessionFields DEF PlanCursor, Procs
  <2>. QED  BY <2>1, <2>2 DEF Resumable
<1>. QED  BY <1>1, ExecutorsAreUnreviewed, PTL

-----------------------------------------------------------------------------
(* Layer 5: moreover, nothing is killed.                                   *)

(* The last review of the run requested the changes that its status says.  *)
ChangesStand ==
  /\ ChangesRequested(cursor)
  /\ doc.status = "CHANGES_REQUESTED"
       /\ (\A p \in Procs : proc[p].pc # "begin") =>
       cursor # 0 /\ review[cursor] = "CHANGES_REQUESTED"

LEMMA OneMovesAnswered ==
  ASSUME LockedInv, AloneInv, AnsweredInv, NEW p \in Procs, Others(p),
         proc[p].pc \notin Rest, ChangesStand', Answers(p)'
  PROVE  AnsweredInv'
<1>1. ASSUME NEW q \in Procs, q # p PROVE Answers(q)'
  <2>1. proc'[q].pc \in Rest
    BY <1>1, OthersRest DEF AloneInv, Others
  <2>. QED  BY <2>1 DEF Rest, Answers
<1>. QED  BY <1>1 DEF AnsweredInv, ChangesStand

(* A session that does not start an executor leaves the reviews alone.     *)
LEMMA ReviewsStay ==
  ASSUME LockedInv, AloneInv, AnsweredInv, NEW p \in Procs, Others(p),
         proc[p].pc \notin Rest, UNCHANGED <<cursor, review>>,
         \/ doc'.status # "CHANGES_REQUESTED"
         \/ doc'.status = doc.status /\ proc[p].pc # "begin"
  PROVE  ChangesStand'
<1>1. ChangesRequested(cursor)'
  BY DEF AnsweredInv, ChangesRequested
<1>2. ASSUME doc'.status = "CHANGES_REQUESTED"
      PROVE  cursor' # 0 /\ review'[cursor'] = "CHANGES_REQUESTED"
  <2>1. proc[p].pc # "begin" /\ doc.status = "CHANGES_REQUESTED"
    BY <1>2
  <2>2. \A q \in Procs : proc[q].pc # "begin"
    BY <2>1, OthersRest DEF AloneInv, Rest
  <2>. QED  BY <2>1, <2>2 DEF AnsweredInv
<1>. QED  BY <1>1, <1>2 DEF ChangesStand

(* Places that answer no review.                                           *)
Silent == Labels \ {"top", "lock", "begin", "prompt", "executing"}

LEMMA SilentStep ==
  ASSUME LockedInv, AloneInv, AnsweredInv, NEW p \in Procs, Others(p),
         proc[p].pc \notin Rest, proc'[p].pc \in Silent, ChangesStand'
  PROVE  AnsweredInv'
BY OneMovesAnswered DEF Silent, Answers

LEMMA LeavingAnswered ==
  ASSUME LockedInv, AloneInv, AnsweredInv, NEW p \in Procs, Leave(p),
         proc[p].pc \notin Rest, UNCHANGED <<cursor, review>>,
         \/ doc'.status # "CHANGES_REQUESTED"
         \/ doc'.status = doc.status /\ proc[p].pc # "begin"
  PROVE  AnsweredInv'
<1>1. Others(p) /\ proc'[p].pc \in Silent
  BY Leaving DEF Moves, Silent, Labels
<1>2. ChangesStand'
  BY <1>1, ReviewsStay
<1>. QED  BY <1>1, <1>2, SilentStep

LEMMA AnsweredSteps1 ==
  ASSUME LockedInv, AloneInv, ReviewedInv, AnsweredInv, NEW p \in Procs,
         proc[p].pc \notin Rest,
         RunStarted(p) \/ InitRun(p) \/ Bootstrap(p)
  PROVE  AnsweredInv'
<1>1. /\ Others(p) /\ proc[p].pc \in {"start", "init", "bootstrap"}
      /\ proc'[p].phase = proc[p].phase
      /\ doc'.status \in {"EXECUTING", doc.status}
      /\ UNCHANGED <<cursor, review>>
      /\ \/ proc'[p].pc \in {"init", "bootstrap", "failed"}
         \/ proc'[p].pc = "top" /\ proc'[p].it = 1
  BY RunStartedDoes, InitRunDoes, BootstrapDoes
     DEF RunStarted, InitRun, Bootstrap, At, Moves, SameSession, artifacts
<1>2. ChangesStand'
  BY <1>1, ReviewsStay
<1>3. proc[p].phase = "executor"
  BY <1>1 DEF ReviewedInv, CursorFollowed
<1>4. Answers(p)'
  BY <1>1, <1>3 DEF Answers, ChangesRequested
<1>. QED  BY <1>1, <1>2, <1>4, OneMovesAnswered

(* plan_resume goes on with the iteration after the review that requested  *)
(* changes, or with the interrupted one.                                   *)
LEMMA PlannedExecutorAnswers ==
  ASSUME LockedInv, AloneInv, UnreviewedInv, AnsweredInv, NEW p \in Procs,
         proc[p].pc = "plan", Resumable,
         PlanPhase(proc[p].ro) # "complete"
  PROVE  /\ PlanPhase(proc[p].ro) = "executor" =>
              ChangesRequested(PlanIteration(proc[p].ro))
         /\ PlanPhase(proc[p].ro) = "reviewer" =>
              /\ PlanIteration(proc[p].ro) = PlanCursor
              /\ doc.status # "CHANGES_REQUESTED"
<1>1. ~proc[p].ro /\ cursor \in Nat
  BY SessionFields DEF UnreviewedInv, Unreviewed
<1>2. CASE doc.status = "CHANGES_REQUESTED"
  <2>1. \A q \in Procs : proc[q].pc # "begin"
    BY OthersRest DEF AloneInv, Rest
  <2>2. cursor # 0 /\ review[cursor] = "CHANGES_REQUESTED"
    BY <1>2, <2>1 DEF AnsweredInv
  <2>3. PlanIteration(proc[p].ro) = cursor + 1 /\ (cursor + 1) - 1 = cursor
    BY <1>1, <1>2, <2>2 DEF PlanIteration, PlanCursor
  <2>4. PlanPhase(proc[p].ro) = "executor"
    BY <1>1, <1>2 DEF PlanPhase
  <2>. QED  BY <2>2, <2>3, <2>4 DEF ChangesRequested
<1>3. CASE doc.status # "CHANGES_REQUESTED"
  <2>1. PlanIteration(proc[p].ro) = PlanCursor
    BY <1>3 DEF PlanIteration
  <2>2. ChangesRequested(PlanCursor)
    BY DEF AnsweredInv, PlanCursor, ChangesRequested
  <2>. QED  BY <1>3, <2>1, <2>2
<1>. QED  BY <1>2, <1>3

LEMMA AnsweredSteps2 ==
  ASSUME LockedInv, AloneInv, ReviewedInv, UnreviewedInv, AnsweredInv,
         NEW p \in Procs, proc[p].pc \notin Rest,
         \/ AuthorizeExtension(p) \/ RecordExtension(p) \/ PlanResume(p)
         \/ LockLoop(p)
  PROVE  AnsweredInv'
<1>1. UNCHANGED <<cursor, review>> /\ proc[p].pc # "begin"
  BY DEF AuthorizeExtension, RecordExtension, PlanResume, LockLoop, artifacts,
     At
<1>2. AuthorizeExtension(p) \/ PlanResume(p) \/ LockLoop(p) => doc' = doc
  BY DEF AuthorizeExtension, PlanResume, LockLoop
<1>3. CASE Leave(p) /\ doc' = doc
  BY <1>1, <1>3, LeavingAnswered
<1>4. CASE AuthorizeExtension(p) /\ ~Leave(p)
  <2>1. Others(p) /\ proc'[p].pc \in Silent
    BY <1>4, AuthorizeExtensionDoes DEF Moves, Silent, Labels
  <2>. QED  BY <1>1, <1>2, <1>4, <2>1, ReviewsStay, SilentStep
<1>5. CASE RecordExtension(p) /\ ~(Leave(p) /\ doc' = doc)
  <2>1. Others(p) /\ proc'[p].pc \in Silent /\ proc[p].pc = "extend"
    BY <1>5, RecordExtensionDoes DEF RecordExtension, At, Moves, Silent, Labels
  <2>2. cursor = doc.limit /\ review[cursor] = "CHANGES_REQUESTED"
    BY <2>1 DEF AloneInv, StillSpent
  <2>3. doc.limit >= 1
    BY SessionFields
  <2>4. ChangesStand'
    BY <1>1, <2>2, <2>3 DEF AnsweredInv, ChangesStand, ChangesRequested
  <2>. QED  BY <2>1, <2>4, SilentStep
<1>6. CASE PlanResume(p) /\ ~Leave(p)
  <2>1. /\ Resumable /\ PlanPhase(proc[p].ro) # "complete" /\ Others(p)
        /\ proc[p].pc = "plan"
        /\ proc'[p].pc = "lock" /\ proc'[p].phase = PlanPhase(proc[p].ro)
        /\ proc'[p].it = PlanIteration(proc[p].ro)
    BY <1>6, PlanResumeDoes DEF PlanResume, At, Moves
  <2>2. PlanCursor' = PlanCursor
    BY <1>1 DEF PlanCursor
  <2>3. Answers(p)'
    BY <1>1, <1>2, <1>6, <2>1, <2>2, PlannedExecutorAnswers
       DEF Answers, ChangesRequested
  <2>. QED  BY <1>1, <1>2, <1>6, <2>1, <2>3, ReviewsStay, OneMovesAnswered
<1>7. CASE LockLoop(p) /\ ~Leave(p)
  <2>1. /\ Others(p) /\ proc[p].pc = "lock"
        /\ proc'[p].pc = "top" /\ proc'[p].it = proc[p].it
        /\ proc'[p].phase = proc[p].phase
        /\ proc[p].phase = "executor" =>
             proc'[p].feedback = Feedback(proc[p].it)
    BY <1>7, LockLoopDoes DEF LockLoop, Moves, At
  <2>2. PlanCursor' = PlanCursor
    BY <1>1 DEF PlanCursor
  <2>3. proc[p].phase = "executor" /\ proc[p].it > 1 =>
          Feedback(proc[p].it) = proc[p].it - 1
    BY <2>1 DEF AnsweredInv, Answers, ChangesRequested, Feedback
  <2>4. Answers(p)'
    BY <1>1, <1>2, <1>7, <2>1, <2>2, <2>3
       DEF AnsweredInv, Answers, ChangesRequested
  <2>. QED  BY <1>1, <1>2, <1>7, <2>1, <2>4, ReviewsStay, OneMovesAnswered
<1>. QED  BY <1>2, <1>3, <1>4, <1>5, <1>6, <1>7

(* block_run and handle_loop_signal leave no run at CHANGES_REQUESTED.     *)
LEMMA BlockedForGood ==
  ASSUME LockedInv, NEW f \in Failures, Block(f)
  PROVE  doc'.status # "CHANGES_REQUESTED"
<1>1. CASE doc' = doc /\ ~Doc!FailureWrites(doc)
  BY <1>1
     DEF LockedInv, Typed, TypedFiles, Doc!FailureWrites, Doc!Readable,
         Doc!Sources
<1>2. CASE doc' = Doc!FailureDoc(doc, f)
  BY <1>2, FailureWrites
<1>. QED  BY <1>1, <1>2 DEF Block

LEMMA AnsweredSteps3 ==
  ASSUME ~MayKill,
         LockedInv, AloneInv, ReviewedInv, UnreviewedInv, AnsweredInv,
         NEW p \in Procs, proc[p].pc \notin Rest,
         \/ LoopExhausted(p) \/ BlockRun(p) \/ Signal(p) \/ Kill(p)
         \/ InstructionsRefused(p) \/ Exit(p) \/ Finalize(p)
  PROVE  AnsweredInv'
<1>1. CASE LoopExhausted(p) \/ BlockRun(p)
  <2>1. doc'.status # "CHANGES_REQUESTED"
    BY <1>1, LoopExhaustedKeepsLocks, FailuresDiffer, BlockedForGood
       DEF LoopExhausted, BlockRun
  <2>2. /\ Others(p) /\ proc'[p].pc \in Silent
        /\ UNCHANGED <<cursor, review>>
    BY <1>1, LoopExhaustedKeepsLocks, BlockRunKeepsLocks
       DEF LoopExhausted, BlockRun, Moves, Silent, Labels, artifacts
  <2>. QED  BY <2>1, <2>2, ReviewsStay, SilentStep
<1>2. CASE Signal(p)
  <2>1. doc'.status # "CHANGES_REQUESTED"
    BY <1>2, FailuresDiffer, BlockedForGood DEF Signal, LeftAlone
  <2>. QED  BY <1>2, <2>1, LeavingAnswered DEF Signal, artifacts
<1>3. CASE InstructionsRefused(p) \/ Exit(p) \/ Finalize(p)
  <2>1. /\ Leave(p) /\ doc' = doc /\ proc[p].pc # "begin"
        /\ UNCHANGED <<cursor, review>>
    BY <1>3 DEF InstructionsRefused, Exit, Finalize, At, artifacts
  <2>. QED  BY <2>1, LeavingAnswered
<1>. QED  BY <1>1, <1>2, <1>3 DEF Kill

LEMMA AnsweredWriteCursor ==
  ASSUME LockedInv, AloneInv, ReviewedInv, UnreviewedInv, AnsweredInv,
         NEW p \in Procs, proc[p].pc \notin Rest, WriteCursor(p)
  PROVE  AnsweredInv'
<1>1. /\ proc[p].pc = "top" /\ cursor' = proc[p].it /\ proc[p].it \in Nat
      /\ UNCHANGED <<doc, review>> /\ Others(p) /\ SameSession(p)
      /\ \/ proc'[p].pc = "begin" /\ proc[p].phase = "executor"
         \/ proc'[p].pc = "review" /\ proc[p].phase = "reviewer"
         \/ proc'[p].pc = "failed"
  BY WriteCursorDoes, SessionFields DEF WriteCursor, At, Moves
<1>2. CASE proc[p].phase = "executor"
  <2>1. proc'[p].pc = "begin"
    BY <1>1, <1>2, GoesTo, SessionFields DEF WriteCursor, Labels
  <2>2. ChangesRequested(proc[p].it)
    BY <1>1, <1>2 DEF AnsweredInv, Answers
  <2>3. ChangesStand'
    BY <1>1, <2>1, <2>2 DEF ChangesStand, ChangesRequested
  <2>4. Answers(p)'
    BY <1>1, <1>2, <2>1, <2>2
       DEF SameSession, AnsweredInv, Answers, ChangesRequested
  <2>. QED  BY <1>1, <2>3, <2>4, OneMovesAnswered
<1>3. CASE proc[p].phase = "reviewer"
  <2>1. proc[p].it = PlanCursor /\ doc.status # "CHANGES_REQUESTED"
    BY <1>1, <1>3 DEF AnsweredInv, Answers
  <2>2. ChangesStand'
    BY <1>1, <2>1 DEF AnsweredInv, ChangesStand, ChangesRequested, PlanCursor
  <2>3. proc'[p].pc \in Silent
    BY <1>1, <1>3 DEF Silent, Labels
  <2>. QED  BY <1>1, <2>2, <2>3, SilentStep
<1>4. proc[p].phase \in {"executor", "reviewer"}
  BY SessionFields DEF ProcRecords
<1>. QED  BY <1>2, <1>3, <1>4

(* No event of the loop is refused while changes are requested.            *)
LEMMA RequestedChangesGoOn ==
  ASSUME LockedInv, NEW p \in Procs, ExecutorStarted(p), Leave(p),
         doc' = doc, doc.status = "CHANGES_REQUESTED"
  PROVE  FALSE
<1>1. Doc!TransitionSucceeds(doc, "executor_started")
  BY DEF LockedInv, Typed, TypedFiles, Doc!TransitionSucceeds,
     Doc!TransitionWrites, Doc!Readable, Doc!Sources, Doc!Target
<1>2. proc[p].pc = "begin"
  BY DEF ExecutorStarted, At
<1>3. proc'[p].pc \in Rest
  BY Leaving DEF Rest
<1>4. proc' = [proc EXCEPT ![p] = [proc[p] EXCEPT !.pc = "prompt"]]
  BY <1>1 DEF ExecutorStarted, Transition
<1>5. proc'[p].pc = "prompt"
  BY <1>4, SessionFields DEF ProcRecords
<1>. QED  BY <1>3, <1>5 DEF Rest

LEMMA AnsweredSteps4 ==
  ASSUME LockedInv, AloneInv, ReviewedInv, UnreviewedInv, AnsweredInv,
         NEW p \in Procs, proc[p].pc \notin Rest,
         ExecutorStarted(p) \/ ReviewStarted(p) \/ ReviewApproved(p)
  PROVE  AnsweredInv'
<1>1. Others(p) /\ UNCHANGED <<cursor, review>>
  BY EventDoes DEF artifacts
<1>2. CASE Leave(p) /\ doc' = doc
  <2>1. doc.status # "CHANGES_REQUESTED" \/ proc[p].pc # "begin"
    BY <1>2, RequestedChangesGoOn DEF ReviewStarted, ReviewApproved, At
  <2>. QED  BY <1>1, <1>2, <2>1, LeavingAnswered
<1>3. ASSUME SameSession(p), proc[p].pc = "begin", proc'[p].pc = "prompt",
             doc'.status = "EXECUTING"
      PROVE  AnsweredInv'
  <2>1. Answers(p)'
    BY <1>1, <1>3 DEF SameSession, AnsweredInv, Answers, ChangesRequested
  <2>. QED  BY <1>1, <1>3, <2>1, ReviewsStay, OneMovesAnswered
<1>4. ASSUME proc'[p].pc \in {"snapshot", "finalize"},
             doc'.status \in {"REVIEWING", "APPROVED"}
      PROVE  AnsweredInv'
  <2>1. proc'[p].pc \in Silent
    BY <1>4 DEF Silent, Labels
  <2>. QED  BY <1>1, <1>4, <2>1, ReviewsStay, SilentStep
<1>. QED  BY <1>2, <1>3, <1>4, EventDoes

LEMMA AnsweredSteps5 ==
  ASSUME LockedInv, AloneInv, ReviewedInv, UnreviewedInv, AnsweredInv,
         NEW p \in Procs, proc[p].pc \notin Rest,
         \/ ExecutorLaunched(p) \/ ExecutorEnds(p) \/ Validate(p)
         \/ RecordReviewSnapshot(p) \/ ReviewerEnds(p) \/ FreezeManifest(p)
  PROVE  AnsweredInv'
<1>1. /\ Others(p) /\ UNCHANGED <<doc, cursor, review>>
      /\ proc[p].pc # "begin"
  BY ExecutorLaunchedKeepsLocks, ExecutorEndsKeepsLocks, ValidateKeepsLocks,
     RecordReviewSnapshotDoes, ReviewerEndsDoes, FreezeManifestKeepsLocks
     DEF ExecutorLaunched, ExecutorEnds, Validate, RecordReviewSnapshot,
         ReviewerEnds, FreezeManifest, At, Moves, artifacts
<1>2. ChangesStand'
  BY <1>1, ReviewsStay
<1>3. CASE ExecutorLaunched(p)
  <2>1. /\ proc[p].pc = "prompt" /\ proc'[p].pc = "executing"
        /\ SameSession(p)
    BY <1>3, ExecutorLaunchedKeepsLocks DEF ExecutorLaunched, At
  <2>2. Answers(p)'
    BY <1>1, <2>1 DEF SameSession, AnsweredInv, Answers, ChangesRequested
  <2>. QED  BY <1>1, <1>2, <2>2, OneMovesAnswered
<1>4. CASE ~ExecutorLaunched(p)
  <2>1. proc'[p].pc \in {"validate", "review", "reviewing", "move", "approve",
                         "failed"}
    BY <1>4, ExecutorEndsKeepsLocks, ValidateKeepsLocks,
       RecordReviewSnapshotDoes, ReviewerEndsDoes, FreezeManifestKeepsLocks
  <2>2. proc'[p].pc \in Silent
    BY <2>1 DEF Silent, Labels
  <2>. QED  BY <1>1, <1>2, <2>2, SilentStep
<1>. QED  BY <1>3, <1>4

LEMMA AnsweredSteps6 ==
  ASSUME LockedInv, AloneInv, ReviewedInv, UnreviewedInv, AnsweredInv,
         NEW p \in Procs, proc[p].pc \notin Rest,
         MoveReview(p) \/ CompareAndDecide(p)
  PROVE  AnsweredInv'
<1>1. /\ proc[p].pc \in {"move", "compare"} /\ proc[p].it = cursor
      /\ cursor \in Iterations /\ cursor' = cursor
      /\ doc.status = "REVIEWING" /\ ~proc[p].ro
  BY IterationIsCursor
     DEF MoveReview, CompareAndDecide, At, Iterating, Reviewing, artifacts,
         UnreviewedInv, Unreviewed
<1>2. Others(p)
  BY MoveReviewDoes, CompareAndDecideDoes DEF Moves
<1>3. CASE MoveReview(p)
  <2>1. doc' = doc /\ proc'[p].pc \in Silent
    BY <1>3, MoveReviewDoes DEF MoveReview, Silent, Labels
  <2>2. cursor > 1 => cursor - 1 \in Iterations /\ cursor - 1 # cursor
    BY <1>1 DEF Iterations
  <2>3. \A n \in Iterations : n # cursor => review'[n] = review[n]
    BY <1>1, <1>3, MoveReviewDoes DEF LockedInv, Typed, TypedFiles
  <2>4. ChangesStand'
    BY <1>1, <2>1, <2>2, <2>3 DEF AnsweredInv, ChangesStand, ChangesRequested
  <2>. QED  BY <1>2, <2>1, <2>4, SilentStep
<1>4. CASE CompareAndDecide(p)
  <2>1. review' = review
    BY <1>4 DEF CompareAndDecide, artifacts
  <2>2. CASE Leave(p) /\ doc' = doc
    BY <1>1, <2>1, <2>2, LeavingAnswered
  <2>3. CASE proc'[p].pc \in {"failed", "freeze"} /\ doc' = doc
    <3>1. proc'[p].pc \in Silent
      BY <2>3 DEF Silent, Labels
    <3>. QED  BY <1>1, <1>2, <2>1, <2>3, <3>1, ReviewsStay, SilentStep
  <2>4. CASE /\ proc'[p].pc = IF proc[p].ro THEN "exiting" ELSE "top"
             /\ proc'[p].it = proc[p].it + 1 /\ proc'[p].phase = "executor"
             /\ proc'[p].feedback = proc[p].it
             /\ doc'.status = "CHANGES_REQUESTED"
             /\ review[proc[p].it] = "CHANGES_REQUESTED"
    <3>1. cursor # 0 /\ (cursor + 1) - 1 = cursor
      BY <1>1 DEF Iterations
    <3>2. ChangesStand'
      BY <1>1, <2>1, <2>4, <3>1 DEF AnsweredInv, ChangesStand, ChangesRequested
    <3>3. Answers(p)'
      BY <1>1, <2>1, <2>4, <3>1 DEF Answers, ChangesRequested
    <3>. QED  BY <1>2, <3>2, <3>3, OneMovesAnswered
  <2>. QED  BY <1>4, <2>2, <2>3, <2>4, CompareAndDecideDoes
<1>. QED  BY <1>3, <1>4

LEMMA AnsweredStep ==
  ASSUME ~MayOverlap, ~MayTear, ~MayReviewOnly, ~MayKill,
         LockedInv, AloneInv, ReviewedInv, UnreviewedInv, AnsweredInv,
         [Next]_vars
  PROVE  AnsweredInv'
<1>1. ASSUME NEW p \in Procs, SessionStep(p)
      PROVE  AnsweredInv'
  <2>1. proc[p].pc \notin Rest
    BY <1>1, RestingSteps DEF AloneInv
  <2>2. ~CursorTruncated(p)
    BY DEF CursorTruncated
  <2>. QED
    BY <1>1, <2>1, <2>2, AnsweredSteps1, AnsweredSteps2, AnsweredSteps3,
       AnsweredWriteCursor, AnsweredSteps4, AnsweredSteps5, AnsweredSteps6
       DEF SessionStep, Step
<1>2. ASSUME NEW ro \in BOOLEAN, NEW add \in Extensions, ResumeExec(ro, add)
      PROVE  AnsweredInv'
  <2>1. /\ Others("resume") /\ proc["fresh"].pc = "done"
        /\ proc["resume"].pc = "idle"
        /\ proc'["resume"].pc \in {"plan", "authorize"}
        /\ UNCHANGED <<doc, cursor, review>>
    BY <1>2, ResumeExecDoes DEF ResumeExec, At, Moves, artifacts
  <2>2. \A q \in Procs : /\ proc[q].pc # "begin"
                         /\ proc'[q].pc \in {"plan", "authorize", "done"}
    BY <2>1 DEF Others, Procs
  <2>. QED  BY <2>1, <2>2 DEF AnsweredInv, ChangesRequested, Answers
<1>3. ASSUME EditsOnly PROVE AnsweredInv'
  BY <1>3 DEF EditsOnly, artifacts, AnsweredInv, ChangesRequested, Answers,
     PlanCursor
<1>. QED  BY <1>1, <1>2, <1>3, StepsAre, EditsAre

LEMMA InitAnswered ==
  ASSUME Init
  PROVE  AnsweredInv
<1>1. proc["resume"].pc = "idle" /\ proc["fresh"].pc = "start"
  BY IdleIsSession DEF Init, Procs, Idle
<1>. QED
  BY <1>1 DEF Init, Doc!EmptyDocument, Doc!NoStatus, Procs, AnsweredInv,
     ChangesRequested, Answers

-----------------------------------------------------------------------------
(***************************************************************************)
(* The inductive invariant, with what each of its layers assumes of the    *)
(* environment, holds of every reachable state of every instance.          *)
(***************************************************************************)
THEOREM LoopInvariance == Spec => []IInv
<1>1. Init => IInv
  BY InitLocked, InitAlone, InitReviewed, InitUnreviewed, InitAnswered
     DEF IInv
<1>2. IInv /\ [Next]_vars => IInv'
  <2>. SUFFICES ASSUME IInv, [Next]_vars PROVE IInv'
    OBVIOUS
  <2>1. LockedInv'
    BY LockedStep DEF IInv
  <2>2. ~MayOverlap => AloneInv'
    BY AloneStep DEF IInv
  <2>3. ~MayOverlap /\ ~MayTear => ReviewedInv'
    BY ReviewedStep DEF IInv
  <2>4. ~MayOverlap /\ ~MayTear /\ ~MayReviewOnly => UnreviewedInv'
    BY UnreviewedStep DEF IInv
  <2>5. ~MayOverlap /\ ~MayTear /\ ~MayReviewOnly /\ ~MayKill => AnsweredInv'
    BY AnsweredStep DEF IInv
  <2>. QED  BY <2>1, <2>2, <2>3, <2>4, <2>5 DEF IInv
<1>. QED  BY <1>1, <1>2, PTL DEF Spec

(***************************************************************************)
(* An executor after the first iteration answers the review before it:     *)
(* that review requested changes, and it is the one the executor is shown, *)
(* in the session that reviewed as in every later one.                     *)
(***************************************************************************)
THEOREM ExecutorsFollowFeedback ==
  ASSUME ~MayOverlap, ~MayTear, ~MayReviewOnly, ~MayKill
  PROVE  Spec => []FeedbackFollowed
<1>1. IInv => FeedbackFollowed
  <2>. SUFFICES ASSUME AnsweredInv PROVE FeedbackFollowed
    BY DEF IInv
  <2>. QED  BY DEF AnsweredInv, Answers, ChangesRequested, FeedbackFollowed, At
<1>. QED  BY <1>1, LoopInvariance, PTL
=============================================================================
