------------------------------ MODULE RunState ------------------------------
(***************************************************************************)
(* The run document state.json and the operations of state_machine.py that *)
(* write it, each as one atomic step.  The abstraction of a whole          *)
(* operation to one step is what .state.lock and the atomic replacement of *)
(* the file pay for: module RunStateFile models those and is shown to      *)
(* implement this module.                                                  *)
(*                                                                         *)
(* An operation that raises StateTransitionError, or that finds its result *)
(* already applied, writes nothing and is a stuttering step.               *)
(***************************************************************************)
EXTENDS Integers

CONSTANTS
  Metadata,        \* the frozen metadata a run may be bound to
  NoMetadata,      \* the empty metadata {} of a document before init-run
  Failures,        \* structured failures a caller may record
  NoFailure,       \* the document has no "failure" member
  OriginalLimit,   \* metadata.max_iterations of the run
  MaxEffective     \* MAX_EFFECTIVE_ITERATIONS, the defensive cap

ASSUME ConstantsAssumption ==
  /\ NoMetadata \notin Metadata
  /\ NoFailure \notin Failures
  /\ OriginalLimit \in Nat \ {0}
  /\ MaxEffective \in Nat
  /\ OriginalLimit <= MaxEffective

VARIABLE doc
vars == <<doc>>

(***************************************************************************)
(* The document.  NoStatus is both a missing file and a null "status": no  *)
(* operation that writes tells them apart.  The iteration budget is an     *)
(* append-only chain of extensions; limit is its effective limit and       *)
(* previous the limit its latest extension started from, OriginalLimit and *)
(* 0 while there is no budget member.  The limits of a chain strictly      *)
(* grow, so two budgets of one run are equal exactly when limit is.        *)
(***************************************************************************)
NoStatus == "NONE"

States ==
  {"EXECUTING", "REVIEWING", "CHANGES_REQUESTED", "APPROVED",
   "AWAITING_HUMAN_APPROVAL", "HUMAN_APPROVED", "BLOCKED"}

Decisions == {"approve", "reject"}

Documents ==
  [status   : States \cup {NoStatus},
   metadata : Metadata \cup {NoMetadata},
   failure  : Failures \cup {NoFailure},
   limit    : OriginalLimit..MaxEffective,
   previous : 0..MaxEffective,
   decision : Decisions \cup {"none"}]

EmptyDocument ==
  [status |-> NoStatus, metadata |-> NoMetadata, failure |-> NoFailure,
   limit |-> OriginalLimit, previous |-> 0, decision |-> "none"]

(* The status a recorded human decision requires. *)
DecisionTarget(d) == IF d = "approve" THEN "HUMAN_APPROVED" ELSE "BLOCKED"

(* read_state_document refuses every document for which this is false. *)
Readable(d) == d.decision # "none" => d.status = DecisionTarget(d.decision)

-----------------------------------------------------------------------------
(* The transition table. *)

Sources ==
  [run_started              |-> {NoStatus},
   executor_started         |-> {"CHANGES_REQUESTED", "BLOCKED"},
   review_started           |-> {"EXECUTING", "CHANGES_REQUESTED", "BLOCKED",
                                 "APPROVED"},
   review_changes_requested |-> {"REVIEWING"},
   review_approved          |-> {"REVIEWING", "AWAITING_HUMAN_APPROVAL"},
   approval_requested       |-> {"APPROVED"},
   run_blocked              |-> {NoStatus, "EXECUTING", "REVIEWING",
                                 "CHANGES_REQUESTED", "APPROVED",
                                 "AWAITING_HUMAN_APPROVAL"}]

Target ==
  [run_started              |-> "EXECUTING",
   executor_started         |-> "EXECUTING",
   review_started           |-> "REVIEWING",
   review_changes_requested |-> "CHANGES_REQUESTED",
   review_approved          |-> "APPROVED",
   approval_requested       |-> "AWAITING_HUMAN_APPROVAL",
   run_blocked              |-> "BLOCKED"]

(* The events the transition-state command exposes to run_task.sh. *)
RunnerEvents ==
  {"run_started", "executor_started", "review_started",
   "review_changes_requested", "review_approved"}

TransitionEvents == RunnerEvents \cup {"approval_requested"}

(***************************************************************************)
(* Each operation is a pair: whether it writes, and what it writes.  Both  *)
(* are functions of the document read under the lock.                      *)
(***************************************************************************)
UndecidedNotChecked(d, e) ==             \* fault: human_decision ignored
  Readable(d) /\ d.status # Target[e] /\ d.status \in Sources[e]
TransitionWrites(d, e) ==
  /\ Readable(d)
  /\ d.status # Target[e]
  /\ d.decision = "none"
  /\ d.status \in Sources[e]

TransitionDoc(d, e) == [d EXCEPT !.status = Target[e]]

(* transition_run succeeds: it writes, or it finds the event applied. *)
TransitionSucceeds(d, e) ==
  Readable(d) /\ (d.status = Target[e] \/ TransitionWrites(d, e))

(***************************************************************************)
(* initialize_run_state rebuilds every document without metadata, of which *)
(* it keeps only the status.  It never looks at that status: that a cause  *)
(* or a decision is never dropped is its caller's doing.  The one caller   *)
(* is init-run, run by a fresh run just after run_started.                 *)
(***************************************************************************)
InitializeWrites(d) ==
  /\ Readable(d)
  /\ d.metadata = NoMetadata

InitializeEligible(d) ==
  /\ d.status \in {NoStatus, "EXECUTING"}
  /\ InitializeWrites(d)

InitializeDoc(d, m) ==
  [EmptyDocument EXCEPT !.status = d.status, !.metadata = m]

(* record_run_failure: the first failure of a blocked run is kept. *)
LatestFailureWrites(d) ==      \* fault: a second failure replaces the first
  /\ Readable(d)
  /\ d.status \in Sources["run_blocked"] \cup {"BLOCKED"}
FailureWrites(d) ==
  /\ Readable(d)
  /\ ~(d.status = "BLOCKED" /\ d.failure # NoFailure)
  /\ d.status \in Sources["run_blocked"] \cup {"BLOCKED"}

StatusOnlyDoc(d, f) == [d EXCEPT !.status = "BLOCKED"]  \* fault
FailureDoc(d, f) == [d EXCEPT !.status = "BLOCKED", !.failure = f]

(***************************************************************************)
(* record_iteration_budget_extension compares the failure and the budget   *)
(* its caller saw with the document's.  The caller also refuses a run      *)
(* without metadata or with a human decision.                              *)
(***************************************************************************)
ExtensionWrites(d, f, old) ==
  /\ Readable(d)
  /\ d.status = "BLOCKED"
  /\ d.failure = f
  /\ d.limit = old

ExtensionEligible(d, f, old) ==
  /\ d.metadata # NoMetadata
  /\ d.decision = "none"
  /\ f # NoFailure
  /\ ExtensionWrites(d, f, old)

ExtensionDoc(d, new) ==
  [d EXCEPT !.limit = new, !.previous = d.limit,
            !.status = "CHANGES_REQUESTED"]

(* record_human_decision: one write for the decision and its status. *)
DecisionWrites(d) ==
  /\ Readable(d)
  /\ d.decision = "none"
  /\ d.status = "AWAITING_HUMAN_APPROVAL"

DecisionDoc(d, v) ==
  [d EXCEPT !.decision = v, !.status = DecisionTarget(v)]

-----------------------------------------------------------------------------
Init == doc = EmptyDocument

TransitionRun(e) ==
  /\ TransitionWrites(doc, e)
  /\ doc' = TransitionDoc(doc, e)

InitializeRunState(m) ==
  /\ InitializeEligible(doc)
  /\ doc' = InitializeDoc(doc, m)

RecordRunFailure(f) ==
  /\ FailureWrites(doc)
  /\ doc' = FailureDoc(doc, f)

RecordIterationBudgetExtension(f, new) ==
  /\ ExtensionEligible(doc, f, doc.limit)
  /\ new > doc.limit
  /\ doc' = ExtensionDoc(doc, new)

RecordHumanDecision(v) ==
  /\ DecisionWrites(doc)
  /\ doc' = DecisionDoc(doc, v)

Next ==
  \/ \E e \in TransitionEvents : TransitionRun(e)
  \/ \E m \in Metadata : InitializeRunState(m)
  \/ \E f \in Failures : RecordRunFailure(f)
  \/ \E f \in Failures, new \in OriginalLimit..MaxEffective :
        RecordIterationBudgetExtension(f, new)
  \/ \E v \in Decisions : RecordHumanDecision(v)

Spec == Init /\ [][Next]_vars

-----------------------------------------------------------------------------
(* Every field of the document holds a value of its JSON contract. *)
TypeOK == doc \in Documents

(***************************************************************************)
(* No sequence of operations writes a document that read_state_document    *)
(* then refuses: such a run could never be read, resumed or blocked again. *)
(***************************************************************************)
DocumentReadable == Readable(doc)

(***************************************************************************)
(* A run is HUMAN_APPROVED only with the authenticated decision that made  *)
(* it so: no event exposed to the shell engine grants it.                  *)
(***************************************************************************)
HumanApprovalIsDecided ==
  doc.status = "HUMAN_APPROVED" => doc.decision = "approve"

(***************************************************************************)
(* A blocked run says why: it holds a structured failure or the rejection  *)
(* that blocked it.                                                        *)
(***************************************************************************)
BlockedHasCause ==
  doc.status = "BLOCKED" => doc.failure # NoFailure \/ doc.decision = "reject"

(***************************************************************************)
(* "Publish the first structured failure": the cause of a block survives   *)
(* every later failure report, until some operation leaves BLOCKED.        *)
(***************************************************************************)
FirstFailureKept ==
  [][doc.status = "BLOCKED" /\ doc'.status = "BLOCKED"
       /\ doc.failure # NoFailure => doc'.failure = doc.failure]_vars

(***************************************************************************)
(* A human decision is terminal: no operation changes it, nor the status   *)
(* it decided.                                                             *)
(***************************************************************************)
DecisionFinal ==
  [][doc.decision # "none" =>
       doc'.decision = doc.decision /\ doc'.status = doc.status]_vars

(***************************************************************************)
(* An iteration budget only grows once the run is bound to its metadata,   *)
(* and the metadata is never replaced.                                     *)
(***************************************************************************)
BindingKept ==
  [][doc.metadata # NoMetadata =>
       doc'.metadata = doc.metadata /\ doc'.limit >= doc.limit]_vars
=============================================================================
