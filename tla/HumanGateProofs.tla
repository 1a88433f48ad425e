-------------------------- MODULE HumanGateProofs ---------------------------
(***************************************************************************)
(* Proofs about the run document, for every set of metadata and failures   *)
(* and every pair of limits, and about the human gate, which only moves    *)
(* the document by operations of RunState and binds every decision to the  *)
(* request it answers, for any number of runners, claimers, trees, deaths  *)
(* and edits.                                                              *)
(*                                                                         *)
(* Of the invariants of the document none is inductive alone.              *)
(* DocumentReadable needs to know that an operation whose guard only looks *)
(* at the status never meets a decided document, which is DocumentReadable *)
(* itself together with the types; BlockedHasCause needs the types and     *)
(* DocumentReadable, because the decision operation is the only one that   *)
(* may leave failure empty.  IInv is their conjunction.                    *)
(***************************************************************************)
EXTENDS HumanGate, TLAPS

-----------------------------------------------------------------------------
(* The run document *)

IInv ==
  /\ TypeOK
  /\ DocumentReadable
  /\ HumanApprovalIsDecided
  /\ BlockedHasCause

(* A status transition keeps every part of IInv: its target is one of the  *)
(* table's, never HUMAN_APPROVED, and it starts from an undecided document. *)
LEMMA TransitionKeeps ==
  ASSUME IInv, NEW e \in TransitionEvents, TransitionRun(e)
  PROVE  IInv'
<1> USE DEF IInv, TypeOK, DocumentReadable, HumanApprovalIsDecided,
            BlockedHasCause, Readable, DecisionTarget, Documents, States,
            Decisions, TransitionRun, TransitionWrites, TransitionDoc,
            NoStatus
<1>1. Target[e] \in {"EXECUTING", "REVIEWING", "CHANGES_REQUESTED",
                     "APPROVED", "AWAITING_HUMAN_APPROVAL"}
  BY DEF TransitionEvents, RunnerEvents, Target
<1>2. /\ doc'.status = Target[e]
      /\ doc'.metadata = doc.metadata
      /\ doc'.failure = doc.failure
      /\ doc'.limit = doc.limit
      /\ doc'.decision = "none"
  OBVIOUS
<1>3. doc' \in Documents
  BY <1>1
<1> QED
  BY <1>1, <1>2, <1>3

(* Binding the metadata keeps IInv: the new document has no decision, and  *)
(* its status is one in which the run is neither blocked nor decided.      *)
LEMMA InitializeKeeps ==
  ASSUME IInv, NEW m \in Metadata, InitializeRunState(m)
  PROVE  IInv'
<1>1. doc.status \in {NoStatus, "EXECUTING"}
  BY DEF InitializeRunState, InitializeEligible
<1>2. doc' = [status |-> doc.status, metadata |-> m, failure |-> NoFailure,
              limit |-> OriginalLimit, previous |-> 0, decision |-> "none"]
  BY DEF InitializeRunState, InitializeDoc, EmptyDocument
<1>3. OriginalLimit \in OriginalLimit..MaxEffective /\ 0 \in 0..MaxEffective
  BY ConstantsAssumption
<1>4. doc' \in Documents
  BY <1>1, <1>2, <1>3 DEF Documents, States, Decisions
<1> QED
  BY <1>1, <1>2, <1>4
     DEF IInv, TypeOK, DocumentReadable, HumanApprovalIsDecided,
         BlockedHasCause, Readable, NoStatus

(* Recording a failure keeps IInv: it may meet a decided document, but only *)
(* a rejected one, which is blocked already.                               *)
LEMMA FailureKeeps ==
  ASSUME IInv, NEW f \in Failures, RecordRunFailure(f)
  PROVE  IInv'
<1> USE DEF IInv, TypeOK, DocumentReadable, HumanApprovalIsDecided,
            BlockedHasCause, Readable, DecisionTarget, Documents, States,
            Decisions, RecordRunFailure, FailureWrites, FailureDoc, Sources,
            NoStatus
<1>1. doc' = [doc EXCEPT !.status = "BLOCKED", !.failure = f]
  OBVIOUS
<1>2. doc' \in Documents
  BY <1>1
<1>3. doc.status # "HUMAN_APPROVED"
  OBVIOUS
<1> QED
  BY <1>1, <1>2, <1>3, ConstantsAssumption

(* Extending the budget keeps IInv: the caller refused decided documents.  *)
LEMMA ExtensionKeeps ==
  ASSUME IInv, NEW f \in Failures, NEW new \in OriginalLimit..MaxEffective,
         RecordIterationBudgetExtension(f, new)
  PROVE  IInv'
<1>1. doc.limit \in 0..MaxEffective
  BY ConstantsAssumption DEF IInv, TypeOK, Documents
<1> QED
  BY <1>1
     DEF IInv, TypeOK, DocumentReadable, HumanApprovalIsDecided,
         BlockedHasCause, Readable, DecisionTarget, Documents, States,
         Decisions, RecordIterationBudgetExtension, ExtensionEligible,
         ExtensionWrites, ExtensionDoc, NoStatus

(* Recording a decision keeps IInv: decision and status move together.     *)
LEMMA DecisionKeeps ==
  ASSUME IInv, NEW v \in Decisions, RecordHumanDecision(v)
  PROVE  IInv'
BY DEF IInv, TypeOK, DocumentReadable, HumanApprovalIsDecided,
       BlockedHasCause, Readable, DecisionTarget, Documents, States,
       Decisions, RecordHumanDecision, DecisionWrites, DecisionDoc, NoStatus

(* Every step of the specification keeps IInv. *)
LEMMA StepKeeps == IInv /\ [Next]_vars => IInv'
<1> SUFFICES ASSUME IInv, [Next]_vars PROVE IInv'
  OBVIOUS
<1>1. CASE \E e \in TransitionEvents : TransitionRun(e)
  BY <1>1, TransitionKeeps
<1>2. CASE \E m \in Metadata : InitializeRunState(m)
  BY <1>2, InitializeKeeps
<1>3. CASE \E f \in Failures : RecordRunFailure(f)
  BY <1>3, FailureKeeps
<1>4. CASE \E f \in Failures, new \in OriginalLimit..MaxEffective :
              RecordIterationBudgetExtension(f, new)
  BY <1>4, ExtensionKeeps
<1>5. CASE \E v \in Decisions : RecordHumanDecision(v)
  BY <1>5, DecisionKeeps
<1>6. CASE UNCHANGED vars
  BY <1>6 DEF vars, IInv, TypeOK, DocumentReadable, HumanApprovalIsDecided,
              BlockedHasCause
<1> QED
  BY <1>1, <1>2, <1>3, <1>4, <1>5, <1>6 DEF Next

LEMMA InitHolds == Init => IInv
BY ConstantsAssumption
   DEF Init, EmptyDocument, IInv, TypeOK, DocumentReadable,
       HumanApprovalIsDecided, BlockedHasCause, Readable, Documents, NoStatus

(* Every reachable document satisfies the inductive invariant. *)
THEOREM Invariance == Spec => []IInv
BY InitHolds, StepKeeps, PTL DEF Spec

(* Type correctness of the run document. *)
THEOREM TypeCorrect == Spec => []TypeOK
<1>1. IInv => TypeOK
  BY DEF IInv
<1> QED
  BY <1>1, Invariance, PTL

(* No operation writes a document the reader refuses. *)
THEOREM AlwaysReadable == Spec => []DocumentReadable
<1>1. IInv => DocumentReadable
  BY DEF IInv
<1> QED
  BY <1>1, Invariance, PTL

(* HUMAN_APPROVED never appears without an approving decision. *)
THEOREM ApprovalIsDecided == Spec => []HumanApprovalIsDecided
<1>1. IInv => HumanApprovalIsDecided
  BY DEF IInv
<1> QED
  BY <1>1, Invariance, PTL

(* A blocked run always holds its cause. *)
THEOREM BlockedIsExplained == Spec => []BlockedHasCause
<1>1. IInv => BlockedHasCause
  BY DEF IInv
<1> QED
  BY <1>1, Invariance, PTL

-----------------------------------------------------------------------------
(* The action properties, each from IInv in the state before the step. *)

(* While a run stays blocked its first failure stays. *)
THEOREM FirstFailure == Spec => FirstFailureKept
<1>1. IInv /\ [Next]_vars =>
        [doc.status = "BLOCKED" /\ doc'.status = "BLOCKED"
           /\ doc.failure # NoFailure => doc'.failure = doc.failure]_vars
  <2> SUFFICES ASSUME IInv, Next, doc.status = "BLOCKED",
                      doc'.status = "BLOCKED", doc.failure # NoFailure
               PROVE  doc'.failure = doc.failure
    BY DEF vars
  <2>1. CASE \E e \in TransitionEvents : TransitionRun(e)
    BY <2>1 DEF TransitionRun, TransitionDoc, IInv, TypeOK, Documents
  <2>2. CASE \E m \in Metadata : InitializeRunState(m)
    BY <2>2 DEF InitializeRunState, InitializeEligible, NoStatus
  <2>3. CASE \E f \in Failures : RecordRunFailure(f)
    BY <2>3 DEF RecordRunFailure, FailureWrites
  <2>4. CASE \E f \in Failures, new \in OriginalLimit..MaxEffective :
                RecordIterationBudgetExtension(f, new)
    BY <2>4 DEF RecordIterationBudgetExtension, ExtensionDoc, IInv, TypeOK,
                Documents
  <2>5. CASE \E v \in Decisions : RecordHumanDecision(v)
    BY <2>5 DEF RecordHumanDecision, DecisionWrites
  <2> QED
    BY <2>1, <2>2, <2>3, <2>4, <2>5 DEF Next
<1> QED
  BY <1>1, Invariance, PTL DEF Spec, FirstFailureKept

LEMMA DecisionStays ==
  ASSUME IInv, [Next]_vars, doc.decision # "none"
  PROVE  doc'.decision = doc.decision /\ doc'.status = doc.status
<1>1. doc.status \in {"HUMAN_APPROVED", "BLOCKED"}
  BY DEF IInv, DocumentReadable, Readable, DecisionTarget
<1>2. CASE \E e \in TransitionEvents : TransitionRun(e)
  BY <1>2 DEF TransitionRun, TransitionWrites
<1>3. CASE \E m \in Metadata : InitializeRunState(m)
  BY <1>1, <1>3 DEF InitializeRunState, InitializeEligible, NoStatus
<1>4. CASE \E f \in Failures : RecordRunFailure(f)
  BY <1>1, <1>4 DEF RecordRunFailure, FailureWrites, FailureDoc, Sources,
                    IInv, TypeOK, Documents, NoStatus
<1>5. CASE \E f \in Failures, new \in OriginalLimit..MaxEffective :
              RecordIterationBudgetExtension(f, new)
  BY <1>5 DEF RecordIterationBudgetExtension, ExtensionEligible
<1>6. CASE \E v \in Decisions : RecordHumanDecision(v)
  BY <1>6 DEF RecordHumanDecision, DecisionWrites
<1>7. CASE UNCHANGED vars
  BY <1>7 DEF vars
<1> QED
  BY <1>2, <1>3, <1>4, <1>5, <1>6, <1>7 DEF Next

(* A human decision, and the status it fixes, never change again. *)
THEOREM DecisionIsFinal == Spec => DecisionFinal
<1>1. IInv /\ [Next]_vars =>
        [doc.decision # "none" =>
           doc'.decision = doc.decision /\ doc'.status = doc.status]_vars
  BY DecisionStays
<1> QED
  BY <1>1, Invariance, PTL DEF Spec, DecisionFinal

(* Bound metadata is never replaced and the budget only grows. *)
THEOREM BindingIsKept == Spec => BindingKept
<1>1. IInv /\ [Next]_vars =>
        [doc.metadata # NoMetadata =>
           doc'.metadata = doc.metadata /\ doc'.limit >= doc.limit]_vars
  <2> SUFFICES ASSUME IInv, Next, doc.metadata # NoMetadata
               PROVE  doc'.metadata = doc.metadata /\ doc'.limit >= doc.limit
    BY DEF vars
  <2>0. doc \in Documents /\ doc.limit \in Int
    BY ConstantsAssumption DEF IInv, TypeOK, Documents
  <2>1. CASE \E e \in TransitionEvents : TransitionRun(e)
    BY <2>0, <2>1 DEF TransitionRun, TransitionDoc, Documents
  <2>2. CASE \E m \in Metadata : InitializeRunState(m)
    BY <2>2 DEF InitializeRunState, InitializeEligible, InitializeWrites
  <2>3. CASE \E f \in Failures : RecordRunFailure(f)
    BY <2>0, <2>3 DEF RecordRunFailure, FailureDoc, Documents
  <2>4. CASE \E f \in Failures, new \in OriginalLimit..MaxEffective :
                RecordIterationBudgetExtension(f, new)
    <3>1. PICK f \in Failures, new \in OriginalLimit..MaxEffective :
             RecordIterationBudgetExtension(f, new)
      BY <2>4
    <3>2. new > doc.limit /\ doc'.limit = new /\ doc'.metadata = doc.metadata
      BY <2>0, <3>1 DEF RecordIterationBudgetExtension, ExtensionDoc,
                        Documents
    <3>3. new \in Int
      BY ConstantsAssumption
    <3> QED
      BY <2>0, <3>2, <3>3
  <2>5. CASE \E v \in Decisions : RecordHumanDecision(v)
    BY <2>0, <2>5 DEF RecordHumanDecision, DecisionDoc, Documents
  <2> QED
    BY <2>1, <2>2, <2>3, <2>4, <2>5 DEF Next
<1> QED
  BY <1>1, Invariance, PTL DEF Spec, BindingKept

-----------------------------------------------------------------------------
(* The human gate *)

USE GateConstantsAssumption

Holding == {"write", "open", "offer", "consume", "decide"}

Typed ==
  /\ request \in Requests /\ tree \in Trees
  /\ pc \in [Processes -> {"idle", "asked", "pressed"} \cup Holding]
  /\ arg \in [Processes -> Trees \cup Decisions \cup {"none"}]

(* What a process knows while it holds .approval.lock.                     *)
RunnerInv(r) ==
  /\ pc[r] \in {"idle", "asked", "write", "open", "offer"}
  /\ pc[r] \in {"asked", "write"} => arg[r] \in Trees
  /\ pc[r] = "write" => request = NoRequest /\ doc.decision = "none"
  /\ pc[r] = "open" => request # NoRequest
  /\ pc[r] = "offer" => doc.decision = "none"

ClaimerInv(p) ==
  /\ pc[p] \in {"idle", "pressed", "consume", "decide"}
  /\ pc[p] # "idle" => request # NoRequest /\ arg[p] \in Decisions
  /\ pc[p] = "decide" => request.consumed

Exclusive == \A p \in Processes : pc[p] \in Holding => approvalLock = p

(* One claim succeeded exactly when the run is decided.                    *)
ClaimsCounted == claims = IF doc.decision = "none" THEN 0 ELSE 1

AnswersTrue ==
  /\ "reject" \in answers => doc.decision = "reject"
  /\ answers \cap {"approve", "ready"} # {} =>
       doc.status = "HUMAN_APPROVED" /\ doc.decision = "approve"

GateInv ==
  /\ Typed /\ Exclusive
  /\ \A r \in Runners : RunnerInv(r)
  /\ \A p \in Claimers : ClaimerInv(p)
  /\ DecisionIsBound /\ ButtonWasPending /\ ClaimsCounted /\ AnswersTrue

-----------------------------------------------------------------------------
(* Every step of the gate is an operation of RunState, or none.            *)
LEMMA GateSteps ==
  ASSUME [GateNext]_gateVars, \A p \in Claimers : ClaimerInv(p)
  PROVE  [Next]_vars
<1>. USE DEF vars
<1>1. CASE \E r \in Runners : RequestApproval(r)
  BY <1>1 DEF RequestApproval, Next, TransitionRun, TransitionEvents
<1>2. CASE \E p \in Claimers : Decide(p)
  <2>1. PICK p \in Claimers : Decide(p)
    BY <1>2
  <2>2. arg[p] \in Decisions
    BY <2>1 DEF ClaimerInv, Decide, At
  <2>. QED  BY <2>1, <2>2 DEF Decide, Next, RecordHumanDecision
<1>3. CASE OtherWriter
  BY <1>3 DEF OtherWriter, Next, TransitionEvents
<1>4. CASE UNCHANGED doc
  BY <1>4
<1>. QED
  BY <1>1, <1>2, <1>3, <1>4 DEF GateNext, Runner, Claims, AskForApproval,
     OpenGate, WriteRequest, CheckOffer, OfferButton, Wait, Press, Claim,
     Consume, Edit, Die, gateVars

LEMMA InitGateInv == GateInit => GateInv
BY DEF GateInit, Init, EmptyDocument, GateInv, Typed, Holding, RunnerInv,
   ClaimerInv, Exclusive, DecisionIsBound, ButtonWasPending, ClaimsCounted,
   AnswersTrue, Requests, NoRequest, Processes

(* An undecided run stays so in every step but Decide.                     *)
LEMMA OthersDoNotDecide ==
  ASSUME IInv, OtherWriter \/ (\E r \in Runners : RequestApproval(r))
  PROVE  doc'.decision = doc.decision
<1>. USE DEF IInv, TypeOK, Documents
<1>1. CASE \E r \in Runners : RequestApproval(r)
  BY <1>1 DEF RequestApproval, TransitionDoc
<1>2. CASE \E e \in RunnerEvents : TransitionRun(e)
  BY <1>2 DEF TransitionRun, TransitionDoc
<1>3. CASE \E m \in Metadata : InitializeRunState(m)
  BY <1>3 DEF InitializeRunState, InitializeEligible, InitializeWrites,
     InitializeDoc, EmptyDocument, Readable, DecisionTarget, Decisions, NoStatus
<1>4. CASE \E f \in Failures : RecordRunFailure(f)
  BY <1>4 DEF RecordRunFailure, FailureDoc
<1>5. CASE \E f \in Failures, new \in OriginalLimit..MaxEffective :
             RecordIterationBudgetExtension(f, new)
  BY <1>5 DEF RecordIterationBudgetExtension, ExtensionDoc
<1>. QED  BY <1>1, <1>2, <1>3, <1>4, <1>5 DEF OtherWriter

-----------------------------------------------------------------------------
(* Only process p moves, and what the others know stays true.              *)
Moves(p) ==
  \A q \in Processes \ {p} : pc'[q] = pc[q] /\ arg'[q] = arg[q]

LEMMA OthersKeep ==
  ASSUME GateInv, NEW p \in Processes, Moves(p),
         request' = request, doc'.decision = doc.decision
  PROVE  /\ \A r \in Runners \ {p} : RunnerInv(r)'
         /\ \A q \in Claimers \ {p} : ClaimerInv(q)'
BY DEF GateInv, RunnerInv, ClaimerInv, Moves, Processes

(* The holder of the lock may write: nobody else is inside a call.         *)
LEMMA OutsidersKeep ==
  ASSUME GateInv, NEW p \in Processes, Moves(p), pc[p] \in Holding,
         request' # NoRequest
  PROVE  /\ \A r \in Runners \ {p} : RunnerInv(r)'
         /\ \A q \in Claimers \ {p} : ClaimerInv(q)'
<1>1. \A q \in Processes \ {p} : pc[q] \notin Holding
  BY DEF GateInv, Exclusive
<1>. QED  BY <1>1 DEF GateInv, RunnerInv, ClaimerInv, Moves, Holding, Processes

(* What was decided, answered and offered stays true of a run document     *)
(* that is not decided now.                                                *)
LEMMA RecordKeeps ==
  ASSUME IInv, GateInv, [Next]_vars, doc'.decision = doc.decision,
         UNCHANGED <<bound, button, claims, answers>>,
         request' = request \/ doc.decision = "none"
  PROVE  DecisionIsBound' /\ ButtonWasPending' /\ ClaimsCounted' /\ AnswersTrue'
<1>1. doc.decision # "none" => doc'.status = doc.status
  BY DecisionStays
<1>. QED
  BY <1>1 DEF GateInv, DecisionIsBound, ButtonWasPending, ClaimsCounted,
     AnswersTrue

-----------------------------------------------------------------------------
(* The steps of a runner *)

LEMMA AskKeeps ==
  ASSUME IInv, GateInv, [Next]_vars, NEW r \in Runners,
         AskForApproval(r) \/ OpenGate(r) \/ CheckOffer(r) \/ Wait(r)
  PROVE  GateInv'
<1>. USE DEF AskForApproval, OpenGate, CheckOffer, Wait, At, Goto, Begin,
         Take, Free, Finish, files, history, Processes
<1>1. Typed'
  BY DEF GateInv, Typed, Holding
<1>2. Exclusive' /\ Moves(r)
  BY DEF GateInv, Typed, Exclusive, Moves, Holding
<1>3. UNCHANGED <<doc, request, bound, button, claims>>
  OBVIOUS
<1>4. CASE Wait(r)
  <2>1. \A p \in Processes : pc'[p] = pc[p] /\ arg'[p] = arg[p]
    BY <1>4
  <2>2. (\A q \in Runners : RunnerInv(q)') /\ \A p \in Claimers : ClaimerInv(p)'
    BY <1>3, <2>1 DEF GateInv, RunnerInv, ClaimerInv
  <2>3. AnswersTrue'
    BY <1>4 DEF GateInv, AnswersTrue, DecisionReady, DecisionBinds
  <2>. QED
    BY <1>1, <1>2, <1>3, <2>2, <2>3
       DEF GateInv, DecisionIsBound, ButtonWasPending, ClaimsCounted
<1>5. CASE CheckOffer(r)
  <2>1. doc.decision = "none"
    BY <1>5 DEF MayOffer, DecisionBinds, GateInv, DecisionIsBound, IInv,
       DocumentReadable, Readable, DecisionTarget
  <2>2. RunnerInv(r)'
    BY <1>5, <2>1 DEF GateInv, Typed, RunnerInv
  <2>. QED
    BY <1>1, <1>2, <1>3, <1>5, <2>2, OthersKeep, RecordKeeps DEF GateInv
<1>6. CASE AskForApproval(r) \/ OpenGate(r)
  <2>1. RunnerInv(r)'
    BY <1>6 DEF GateInv, Typed, RunnerInv, Creates, Promotes
  <2>. QED
    BY <1>1, <1>2, <1>3, <1>6, <2>1, OthersKeep, RecordKeeps DEF GateInv
<1>. QED  BY <1>4, <1>5, <1>6

(* A request is written when there was none, for an undecided run.         *)
LEMMA WriteRequestKeeps ==
  ASSUME IInv, GateInv, [Next]_vars, NEW r \in Runners, WriteRequest(r)
  PROVE  GateInv'
<1>. USE DEF WriteRequest, At, Goto, history, Processes
<1>1. arg[r] \in Trees /\ request = NoRequest /\ doc.decision = "none"
  BY DEF GateInv, RunnerInv
<1>2. request' \in Requests /\ request' # NoRequest
  BY <1>1 DEF Requests, NoRequest
<1>3. Typed' /\ Exclusive' /\ Moves(r) /\ RunnerInv(r)'
  BY <1>2 DEF GateInv, Typed, Exclusive, Moves, RunnerInv, Holding
<1>4. pc[r] \in Holding /\ UNCHANGED <<doc, bound, button, claims, answers>>
  BY DEF Holding
<1>. QED  BY <1>1, <1>2, <1>3, <1>4, OutsidersKeep, RecordKeeps DEF GateInv

LEMMA RequestApprovalKeeps ==
  ASSUME IInv, GateInv, [Next]_vars, NEW r \in Runners, RequestApproval(r)
  PROVE  GateInv'
<1>. USE DEF RequestApproval, At, Finish, Begin, files, history, Processes
<1>1. Typed' /\ Exclusive' /\ Moves(r) /\ RunnerInv(r)'
  BY DEF GateInv, Typed, Exclusive, Moves, RunnerInv, Holding
<1>2. doc'.decision = doc.decision
  BY OthersDoNotDecide
<1>. QED  BY <1>1, <1>2, OthersKeep, RecordKeeps DEF GateInv

LEMMA OfferKeeps ==
  ASSUME IInv, GateInv, [Next]_vars, NEW r \in Runners, OfferButton(r)
  PROVE  GateInv'
<1>. USE DEF OfferButton, At, Finish, Begin, history, Processes
<1>1. Typed' /\ Exclusive' /\ Moves(r) /\ RunnerInv(r)'
  BY DEF GateInv, Typed, Exclusive, Moves, RunnerInv, Holding
<1>2. ButtonWasPending'
  BY DEF GateInv, RunnerInv, ButtonWasPending
<1>3. UNCHANGED <<doc, request, bound, claims, answers>>
  OBVIOUS
<1>. QED
  BY <1>1, <1>2, <1>3, OthersKeep DEF GateInv, DecisionIsBound, ClaimsCounted,
     AnswersTrue

-----------------------------------------------------------------------------
(* The steps of a claimer *)

LEMMA PressKeeps ==
  ASSUME IInv, GateInv, [Next]_vars, NEW p \in Claimers, NEW v \in Decisions,
         Press(p, v)
  PROVE  GateInv'
<1>. USE DEF Press, At, Begin, files, history, Processes
<1>1. Typed' /\ Exclusive' /\ Moves(p) /\ ClaimerInv(p)'
  BY DEF GateInv, Typed, Exclusive, Moves, ClaimerInv, Holding
<1>. QED  BY <1>1, OthersKeep, RecordKeeps DEF GateInv

(* A replay is answered "approve" only for a run that was approved.        *)
LEMMA ClaimKeeps ==
  ASSUME IInv, GateInv, [Next]_vars, NEW p \in Claimers, Claim(p)
  PROVE  GateInv'
<1>. USE DEF Claim, At, Goto, Begin, Take, Free, Finish, files, Processes
<1>1. Typed' /\ Exclusive' /\ Moves(p)
  BY DEF GateInv, Typed, Exclusive, Moves, Holding
<1>2. ClaimerInv(p)'
  BY DEF GateInv, Typed, ClaimerInv
<1>3. UNCHANGED <<doc, request, bound, button, claims>>
  OBVIOUS
<1>4. AnswersTrue'
  BY DEF GateInv, AnswersTrue, Replays, DecisionReady, DecisionBinds
<1>. QED
  BY <1>1, <1>2, <1>3, <1>4, OthersKeep
     DEF GateInv, DecisionIsBound, ButtonWasPending, ClaimsCounted

LEMMA ConsumeKeeps ==
  ASSUME IInv, GateInv, [Next]_vars, NEW p \in Claimers, Consume(p)
  PROVE  GateInv'
<1>. USE DEF Consume, Consumed, At, Goto, history, Processes
<1>1. request \in Requests /\ request # NoRequest
  BY DEF GateInv, Typed, ClaimerInv
<1>2. /\ request' \in Requests /\ request' # NoRequest
      /\ request'.consumed /\ request'.tree = request.tree
  BY <1>1 DEF Requests, NoRequest
<1>3. Typed' /\ Exclusive' /\ Moves(p) /\ ClaimerInv(p)'
  BY <1>2 DEF GateInv, Typed, Exclusive, Moves, ClaimerInv, Holding
<1>4. pc[p] \in Holding
  BY DEF Holding
<1>5. DecisionIsBound'
  BY <1>2 DEF GateInv, DecisionIsBound
<1>. QED
  BY <1>2, <1>3, <1>4, <1>5, OutsidersKeep DEF GateInv, ButtonWasPending,
     ClaimsCounted, AnswersTrue

(* The decision is the first one, for the request that is consumed.        *)
LEMMA DecideKeeps ==
  ASSUME IInv, GateInv, [Next]_vars, NEW p \in Claimers, Decide(p)
  PROVE  GateInv'
<1>. USE DEF Decide, At, Finish, Begin, history, Processes
<1>1. /\ request # NoRequest /\ request.consumed
      /\ arg[p] \in Decisions /\ pc[p] \in Holding
  BY DEF GateInv, ClaimerInv, Holding
<1>2. Typed' /\ Exclusive' /\ Moves(p) /\ ClaimerInv(p)'
  BY DEF GateInv, Typed, Exclusive, Moves, ClaimerInv, Holding
<1>3. /\ \A r \in Runners \ {p} : RunnerInv(r)'
      /\ \A q \in Claimers \ {p} : ClaimerInv(q)'
  BY <1>1, <1>2, OutsidersKeep
<1>4. CASE DecisionWrites(doc)
  <2>1. /\ doc.decision = "none" /\ doc.status = "AWAITING_HUMAN_APPROVAL"
        /\ doc'.decision = arg[p] /\ doc'.status = DecisionTarget(arg[p])
    BY <1>4 DEF DecisionWrites, DecisionDoc, IInv, TypeOK, Documents
  <2>2. DecisionIsBound' /\ ButtonWasPending' /\ ClaimsCounted'
    BY <1>1, <1>4, <2>1 DEF GateInv, DecisionIsBound, ButtonWasPending,
       ClaimsCounted, Decisions
  <2>3. AnswersTrue'
    BY <1>1, <1>4, <2>1 DEF GateInv, AnswersTrue, DecisionTarget, Decisions
  <2>. QED  BY <1>2, <1>3, <2>2, <2>3 DEF GateInv
<1>5. CASE ~DecisionWrites(doc)
  BY <1>2, <1>3, <1>5, RecordKeeps DEF GateInv
<1>. QED  BY <1>4, <1>5

-----------------------------------------------------------------------------
(* Everybody else *)

LEMMA DieKeeps ==
  ASSUME IInv, GateInv, [Next]_vars, NEW p \in Processes, Die(p)
  PROVE  GateInv'
<1>. USE DEF Die, At, Finish, Begin, files, history, Processes
<1>1. Typed' /\ Exclusive' /\ Moves(p)
  BY DEF GateInv, Typed, Exclusive, Moves, Holding
<1>2. /\ p \in Runners => RunnerInv(p)'
      /\ p \in Claimers => ClaimerInv(p)'
  BY DEF GateInv, Typed, RunnerInv, ClaimerInv
<1>. QED  BY <1>1, <1>2, OthersKeep, RecordKeeps DEF GateInv

LEMMA WorldKeeps ==
  ASSUME IInv, GateInv, [Next]_vars, OtherWriter \/ Edit \/ UNCHANGED gateVars
  PROVE  GateInv'
<1>. USE DEF OtherWriter, Edit, gateVars, files, history, bounds
<1>1. doc'.decision = doc.decision
  BY OthersDoNotDecide
<1>2. Typed' /\ Exclusive'
  BY DEF GateInv, Typed, Exclusive
<1>3. (\A r \in Runners : RunnerInv(r)') /\ \A p \in Claimers : ClaimerInv(p)'
  BY <1>1 DEF GateInv, RunnerInv, ClaimerInv
<1>. QED  BY <1>1, <1>2, <1>3, RecordKeeps DEF GateInv

(* Only RequestApproval makes a run awaiting, and its runner has written   *)
(* or found the request, which nobody ever takes away.                     *)
AwaitingHasRequest ==
  doc.status = "AWAITING_HUMAN_APPROVAL" => request # NoRequest

LEMMA OthersDoNotAwait ==
  ASSUME IInv, OtherWriter, doc'.status = "AWAITING_HUMAN_APPROVAL"
  PROVE  doc.status = "AWAITING_HUMAN_APPROVAL"
<1>. USE DEF IInv, TypeOK, Documents
<1>1. CASE \E e \in RunnerEvents : TransitionRun(e)
  BY <1>1 DEF TransitionRun, TransitionDoc, RunnerEvents, Target
<1>2. CASE \E m \in Metadata : InitializeRunState(m)
  BY <1>2 DEF InitializeRunState, InitializeDoc, EmptyDocument
<1>3. CASE \E f \in Failures : RecordRunFailure(f)
  BY <1>3 DEF RecordRunFailure, FailureDoc
<1>4. CASE \E f \in Failures, new \in OriginalLimit..MaxEffective :
             RecordIterationBudgetExtension(f, new)
  BY <1>4 DEF RecordIterationBudgetExtension, ExtensionDoc
<1>. QED  BY <1>1, <1>2, <1>3, <1>4 DEF OtherWriter

LEMMA AwaitingStays ==
  ASSUME IInv, GateInv, AwaitingHasRequest, [GateNext]_gateVars
  PROVE  AwaitingHasRequest'
<1>. USE DEF AwaitingHasRequest, files
<1>1. CASE OtherWriter
  BY <1>1, OthersDoNotAwait DEF OtherWriter
<1>2. CASE \E r \in Runners : RequestApproval(r)
  BY <1>2 DEF RequestApproval, At, GateInv, RunnerInv
<1>3. CASE \E r \in Runners : WriteRequest(r)
  BY <1>3 DEF WriteRequest, At, GateInv, RunnerInv, NoRequest
<1>4. CASE \E p \in Claimers : Consume(p)
  <2>1. PICK p \in Claimers : Consume(p)
    BY <1>4
  <2>2. request \in Requests /\ request'.consumed
    BY <2>1 DEF Consume, Consumed, GateInv, Typed, Requests, NoRequest
  <2>. QED  BY <2>2 DEF NoRequest
<1>5. CASE \E p \in Claimers : Decide(p)
  <2>1. PICK p \in Claimers : Decide(p)
    BY <1>5
  <2>2. request # NoRequest /\ UNCHANGED request
    BY <2>1 DEF Decide, At, GateInv, ClaimerInv
  <2>. QED  BY <2>2
<1>6. CASE UNCHANGED <<doc, request>>
  BY <1>6
<1>. QED
  BY <1>1, <1>2, <1>3, <1>4, <1>5, <1>6 DEF GateNext, Runner, Claims,
     AskForApproval, OpenGate, CheckOffer, OfferButton, Wait, Press, Claim,
     Edit, Die, gateVars

LEMMA GateStepKeeps ==
  IInv /\ GateInv /\ [GateNext]_gateVars => IInv' /\ GateInv' /\ [Next]_vars
<1>. SUFFICES ASSUME IInv, GateInv, [GateNext]_gateVars
              PROVE  IInv' /\ GateInv' /\ [Next]_vars
  OBVIOUS
<1>1. [Next]_vars
  BY GateSteps DEF GateInv
<1>2. IInv'
  BY <1>1, StepKeeps
<1>3. CASE \E r \in Runners : Runner(r)
  BY <1>1, <1>2, <1>3, AskKeeps, WriteRequestKeeps, RequestApprovalKeeps, OfferKeeps
     DEF Runner
<1>4. CASE \E p \in Claimers : Claims(p) \/ \E v \in Decisions : Press(p, v)
  BY <1>1, <1>2, <1>4, PressKeeps, ClaimKeeps, ConsumeKeeps, DecideKeeps DEF Claims
<1>5. CASE \E p \in Processes : Die(p)
  BY <1>1, <1>2, <1>5, DieKeeps
<1>6. CASE OtherWriter \/ Edit \/ UNCHANGED gateVars
  BY <1>1, <1>2, <1>6, WorldKeeps
<1>. QED  BY <1>1, <1>2, <1>3, <1>4, <1>5, <1>6 DEF GateNext

-----------------------------------------------------------------------------
(* The invariant holds of every gate, and of the run document it moves.    *)
THEOREM GateInvariance == GateSpec => [](IInv /\ GateInv)
<1>1. GateInit => IInv /\ GateInv
  BY InitHolds, InitGateInv DEF GateInit
<1>. QED  BY <1>1, GateStepKeeps, PTL DEF GateSpec

(* Whatever the gate and everybody else do to state.json is a behaviour of *)
(* the operations of state_machine.py: RunState's theorems hold of it.     *)
THEOREM GateImplementsRunState == GateSpec => Spec
<1>1. GateInit => Init
  BY DEF GateInit
<1>. QED  BY <1>1, GateInvariance, GateStepKeeps, PTL DEF GateSpec, Spec

(* _claim_human_approval_locked: no decision without a consumed request    *)
(* for the tree that it decided.                                           *)
THEOREM DecisionsAreBound == GateSpec => []DecisionIsBound
<1>1. GateInv => DecisionIsBound
  BY DEF GateInv
<1>. QED  BY <1>1, GateInvariance, PTL

(* apply_human_approval, apply_human_rejection, wait_for_decision: at most *)
(* one claim succeeds, and every answer agrees with the run document.      *)
THEOREM AnswersAlwaysAgree == GateSpec => []AnswersAgree
<1>1. GateInv => AnswersAgree
  BY DEF GateInv, AnswersTrue, ClaimsCounted, AnswersAgree
<1>. QED  BY <1>1, GateInvariance, PTL

(* create_approval_request writes the request before the status, whoever   *)
(* dies in between: plan_resume finds what it needs in an awaiting run, and *)
(* the migration may approve it.                                           *)
THEOREM AwaitingRunsResume == GateSpec => []AwaitingIsResumable
<1>1. GateInit => AwaitingHasRequest
  BY DEF GateInit, Init, EmptyDocument, AwaitingHasRequest, NoStatus
<1>2. IInv /\ AwaitingHasRequest => AwaitingIsResumable
  BY DEF IInv, DocumentReadable, Readable, DecisionTarget, AwaitingHasRequest,
         AwaitingIsResumable, TransitionWrites, Sources, Target
<1>3. IInv /\ GateInv /\ AwaitingHasRequest /\ [GateNext]_gateVars
        => AwaitingHasRequest'
  BY AwaitingStays
<1>. QED  BY <1>1, <1>2, <1>3, GateInvariance, PTL DEF GateSpec

(* enqueue_notification: no button is offered for a run that is decided.   *)
THEOREM ButtonsArePending == GateSpec => []ButtonWasPending
<1>1. GateInv => ButtonWasPending
  BY DEF GateInv
<1>. QED  BY <1>1, GateInvariance, PTL
=============================================================================
