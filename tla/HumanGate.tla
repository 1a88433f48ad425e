----------------------------- MODULE HumanGate ------------------------------
(***************************************************************************)
(* The human gate of approval.py: a runner opens a request for the tree    *)
(* that was reviewed, a bot process (claimer) turns the press of a button  *)
(* into a decision, and both wait for .approval.lock.  Everybody else      *)
(* writes state.json without that lock, by the operations of RunState.     *)
(*                                                                         *)
(* Telegram approval is retired (enqueue_notification says so): in this    *)
(* repository only tests call these functions.  What remains in use is     *)
(* what the gate left on disk: plan_resume reads the request and the       *)
(* decision of a run an earlier release stopped at, and the migration of   *)
(* run_task.sh takes such a run on.                                        *)
(*                                                                         *)
(* A process may die between any two steps; the kernel then drops its      *)
(* lock, and the files stay as they are.                                   *)
(***************************************************************************)
EXTENDS RunState

CONSTANTS
  Trees,       \* contents of the worktree, as compute_diff_hash tells them
  Runners,     \* processes that create the request and offer the button
  Claimers,    \* processes that apply approvals and rejections
  MaxCrashes,  \* bound on processes that die inside an operation
  MaxEdits     \* bound on edits of the worktree

ASSUME GateConstantsAssumption ==
  /\ Runners \cap Claimers = {}
  /\ "nobody" \notin Runners \cup Claimers
  /\ "none" \notin Trees
  /\ MaxCrashes \in Nat /\ MaxEdits \in Nat

Processes == Runners \cup Claimers

VARIABLES
  request,       \* human_approval_request.json
  bound,         \* the tree named by the decision in state.json
  button,        \* the last offer: what had been decided when it was written
  approvalLock,  \* the process that holds .approval.lock
  pc,            \* what each process is doing
  arg,           \* the tree a runner asked for, the decision a claimer applies
  tree,          \* the worktree
  claims,        \* history: claims answered "accepted" or "rejected"
  answers,       \* history: every successful answer that was given
  crashes, edits

files == <<request, bound, button>>
history == <<claims, answers>>
bounds == <<crashes, edits>>
gateVars == <<doc, files, approvalLock, pc, arg, tree, history, bounds>>

NoRequest == [consumed |-> FALSE, tree |-> "none"]
Requests == [consumed : BOOLEAN, tree : Trees] \cup {NoRequest}

GateInit ==
  /\ Init
  /\ request = NoRequest /\ bound = "none" /\ button = "unpublished"
  /\ approvalLock = "nobody"
  /\ pc = [p \in Processes |-> "idle"]
  /\ arg = [p \in Processes |-> "none"]
  /\ tree \in Trees
  /\ claims = 0 /\ answers = {} /\ crashes = 0 /\ edits = 0

-----------------------------------------------------------------------------
At(p, label) == pc[p] = label
Goto(p, label) == pc' = [pc EXCEPT ![p] = label] /\ UNCHANGED arg
Begin(p, label, value) ==
  pc' = [pc EXCEPT ![p] = label] /\ arg' = [arg EXCEPT ![p] = value]

(* run_scoped_lock: flock waits until nobody holds the lock. *)
Free == approvalLock = "nobody"
TakeNothing(p) == UNCHANGED approvalLock   \* fault: no lock is taken
Take(p) == Free /\ approvalLock' = p

(* The call ends or its process dies: in both cases the lock is dropped. *)
Finish(p) ==
  /\ Begin(p, "idle", "none")
  /\ approvalLock' = IF approvalLock = p THEN "nobody" ELSE approvalLock

(* _validate_decision_binding: an approval of the tree of the request,     *)
(* whose token was consumed.                                               *)
DecisionBinds ==
  /\ request # NoRequest /\ request.consumed
  /\ doc.decision = "approve" /\ bound = request.tree

(* _decision_ready_locked, _idempotent_replay_locked *)
DecisionReady == DecisionBinds /\ doc.status = "HUMAN_APPROVED"

-----------------------------------------------------------------------------
(* A runner: create_approval_request *)

(* The tree is hashed before the lock is taken. *)
AskForApproval(r) ==
  /\ At(r, "idle") /\ Begin(r, "asked", tree)
  /\ UNCHANGED <<doc, files, approvalLock, tree, history, bounds>>

(* A new gate opens only from APPROVED; a request for the same tree is     *)
(* promoted; one for another tree, or in another status, stays as it is.   *)
Creates(r) ==
  request = NoRequest /\ doc.status = "APPROVED" /\ doc.decision = "none"
AnyPromotes(r) ==   \* fault: the status is published before the request
  ~DecisionReady /\ doc.status = "APPROVED"
Promotes(r) ==
  /\ request # NoRequest /\ request.tree = arg[r]
  /\ ~DecisionReady /\ doc.status = "APPROVED"

OpenGate(r) ==
  /\ At(r, "asked") /\ Free
  /\ \/ Creates(r) /\ Take(r) /\ Goto(r, "write")
     \/ Promotes(r) /\ Take(r) /\ Goto(r, "open")
     \/ ~Creates(r) /\ ~Promotes(r) /\ Finish(r)
  /\ UNCHANGED <<doc, files, tree, history, bounds>>

WriteRequest(r) ==
  /\ At(r, "write") /\ Goto(r, "open")
  /\ request' = [consumed |-> FALSE, tree |-> arg[r]]
  /\ UNCHANGED <<doc, bound, button, approvalLock, tree, history, bounds>>

(* The status may have changed since it was read: then this raises. *)
RequestApproval(r) ==
  /\ At(r, "open") /\ Finish(r)
  /\ doc' = IF TransitionWrites(doc, "approval_requested")
            THEN TransitionDoc(doc, "approval_requested") ELSE doc
  /\ UNCHANGED <<files, tree, history, bounds>>

(* enqueue_notification: _awaiting_button_publish_allowed_locked *)
MayOffer ==
  /\ doc.status = "AWAITING_HUMAN_APPROVAL" /\ request # NoRequest
  /\ ~DecisionBinds

CheckOffer(r) ==
  /\ At(r, "idle") /\ MayOffer
  /\ Take(r) /\ Goto(r, "offer")
  /\ UNCHANGED <<doc, files, tree, history, bounds>>

OfferButton(r) ==
  /\ At(r, "offer") /\ Finish(r)
  /\ button' = doc.decision
  /\ UNCHANGED <<doc, request, bound, tree, history, bounds>>

(* wait_for_decision returns True: polls and the last look are alike. *)
Wait(r) ==
  /\ At(r, "idle") /\ Free /\ DecisionReady
  /\ answers' = answers \cup {"ready"}
  /\ UNCHANGED <<doc, files, approvalLock, pc, arg, tree, claims, bounds>>

-----------------------------------------------------------------------------
(* A claimer.  A stranger, a stale token and a missing request are refused *)
(* before the lock is taken, and change nothing.                           *)

Press(p, v) ==
  /\ At(p, "idle") /\ request # NoRequest
  /\ Begin(p, "pressed", v)
  /\ UNCHANGED <<doc, files, approvalLock, tree, history, bounds>>

Claimable ==
  doc.decision = "none" /\ doc.status = "AWAITING_HUMAN_APPROVAL"

AnyDecisionReplays(p) ==   \* fault: the decision is not compared
  arg[p] = "approve" /\ doc.decision # "none"
Replays(p) == arg[p] = "approve" /\ DecisionReady

(* _claim_human_approval_locked, apply_human_rejection: what they check. *)
Claim(p) ==
  /\ At(p, "pressed") /\ Free
  /\ \/ /\ Claimable /\ Take(p)
        /\ Goto(p, IF request.consumed THEN "decide" ELSE "consume")
        /\ UNCHANGED answers
     \/ /\ ~Claimable /\ Finish(p)
        /\ answers' = answers \cup (IF Replays(p) THEN {"approve"} ELSE {})
  /\ UNCHANGED <<doc, files, tree, claims, bounds>>

LeftUnconsumed(r) == r   \* fault: the consumption is not saved
Consumed(r) == [r EXCEPT !.consumed = TRUE]

Consume(p) ==
  /\ At(p, "consume") /\ Goto(p, "decide")
  /\ request' = Consumed(request)
  /\ UNCHANGED <<doc, bound, button, approvalLock, tree, history, bounds>>

(* record_human_decision, or StateTransitionError when somebody blocked or *)
(* moved the run since its status was read.                                *)
Decide(p) ==
  /\ At(p, "decide") /\ Finish(p)
  /\ IF DecisionWrites(doc)
     THEN /\ doc' = DecisionDoc(doc, arg[p])
          /\ bound' = request.tree
          /\ claims' = claims + 1
          /\ answers' = answers \cup {arg[p]}
     ELSE UNCHANGED <<doc, bound, history>>
  /\ UNCHANGED <<request, button, tree, bounds>>

-----------------------------------------------------------------------------
(* Everybody else *)

(* The loop, signal handlers and operators: only .state.lock is taken. *)
OtherWriter ==
  /\ \/ \E e \in RunnerEvents : TransitionRun(e)
     \/ \E m \in Metadata : InitializeRunState(m)
     \/ \E f \in Failures : RecordRunFailure(f)
     \/ \E f \in Failures, new \in OriginalLimit..MaxEffective :
          RecordIterationBudgetExtension(f, new)
  /\ UNCHANGED <<files, approvalLock, pc, arg, tree, history, bounds>>

Edit ==
  /\ edits < MaxEdits /\ edits' = edits + 1
  /\ tree' \in Trees \ {tree}
  /\ UNCHANGED <<doc, files, approvalLock, pc, arg, history, crashes>>

Die(p) ==
  /\ ~At(p, "idle") /\ Finish(p)
  /\ crashes < MaxCrashes /\ crashes' = crashes + 1
  /\ UNCHANGED <<doc, files, tree, history, edits>>

Runner(r) ==
  \/ AskForApproval(r) \/ OpenGate(r) \/ WriteRequest(r) \/ RequestApproval(r)
  \/ CheckOffer(r) \/ OfferButton(r) \/ Wait(r)

Claims(p) == Claim(p) \/ Consume(p) \/ Decide(p)

GateNext ==
  \/ \E r \in Runners : Runner(r)
  \/ \E p \in Claimers : Claims(p) \/ \E v \in Decisions : Press(p, v)
  \/ \E p \in Processes : Die(p)
  \/ OtherWriter \/ Edit

GateSpec == GateInit /\ [][GateNext]_gateVars

-----------------------------------------------------------------------------
(* Properties *)

(* Every variable keeps its type; who holds the lock is inside a call.     *)
GateTypeOK ==
  /\ TypeOK
  /\ request \in Requests /\ bound \in Trees \cup {"none"}
  /\ button \in {"unpublished", "none"} \cup Decisions
  /\ approvalLock \in Processes \cup {"nobody"}
  /\ pc \in [Processes -> {"idle", "asked", "write", "open", "offer",
                           "pressed", "consume", "decide"}]
  /\ arg \in [Processes -> Trees \cup Decisions \cup {"none"}]
  /\ \A r \in Runners : arg[r] \in Trees \cup {"none"}
  /\ \A p \in Claimers : arg[p] \in Decisions \cup {"none"}
  /\ tree \in Trees
  /\ claims \in Nat /\ answers \subseteq Decisions \cup {"ready"}
  /\ crashes \in 0..MaxCrashes /\ edits \in 0..MaxEdits

(***************************************************************************)
(* "Mark consumed before exclusive publish so waiters never accept an      *)
(* unbound decision": a decision is only ever published for the tree of a  *)
(* request whose token is consumed, whoever died, blocked the run or       *)
(* retried the request in between, so a later verification can accept it.  *)
(***************************************************************************)
DecisionIsBound ==
  doc.decision # "none" =>
    request # NoRequest /\ request.consumed /\ bound = request.tree

(***************************************************************************)
(* "Concurrent replays yield one accepted": however many presses race, and *)
(* whatever interrupted them, one claim succeeds, and every answer that    *)
(* was ever given (also to a waiting runner) agrees with the run document. *)
(***************************************************************************)
AnswersAgree ==
  /\ claims <= 1
  /\ "reject" \in answers => doc.decision = "reject"
  /\ answers \cap {"approve", "ready"} # {} =>
       doc.status = "HUMAN_APPROVED" /\ doc.decision = "approve"

(***************************************************************************)
(* "A callback between request creation and notify cannot yield a stale    *)
(* approval button": no button is offered for a run that is decided.       *)
(***************************************************************************)
ButtonWasPending == button \in {"unpublished", "none"}

(***************************************************************************)
(* A run left awaiting can be resumed, wherever the runner or the claim    *)
(* that left it died: plan_resume finds the request whose tree it compares *)
(* the worktree with, and the migration of run_task.sh may then approve    *)
(* the run (review_approved).                                              *)
(***************************************************************************)
AwaitingIsResumable ==
  doc.status = "AWAITING_HUMAN_APPROVAL" =>
    request # NoRequest /\ TransitionWrites(doc, "review_approved")
=============================================================================
