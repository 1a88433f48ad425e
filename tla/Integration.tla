---------------------------- MODULE Integration -----------------------------
(***************************************************************************)
(* integrate_reviewed_snapshot and publish_reviewed_branch: the two ways   *)
(* an approved snapshot leaves its worktree.  Both take .integration.lock  *)
(* of the run and then the lock of the repository.  The people who work in *)
(* the repository, in the worktrees and on the remote take no lock, a      *)
(* session may be killed between any two steps, and a push may fail before *)
(* or after the remote applied it.                                         *)
(*                                                                         *)
(* A step is one read, or one write, of state that others change: the      *)
(* worktree, HEAD, the remote, the records.                                *)
(***************************************************************************)
EXTENDS Sequences, Naturals

CONSTANTS
  LocalRuns, GithubRuns, Files, Stamps, Root, Foreign, NoCommit, MaxHistory,
                \* as in Promotion
  Sessions,     \* operators' integrate commands and resumed publications
  MayInterfere, \* other people drift, dirty, commit or push
  MayKill,      \* SIGKILL
  MayDisconnect \* a push may report failure

ASSUME SessionConstantsAssumption ==
  /\ Sessions # {} /\ "none" \notin Sessions
  /\ {MayInterfere, MayKill, MayDisconnect} \subseteq BOOLEAN

VARIABLES
  base, line, branch,  \* as in Promotion
  drifted,      \* entries of the worktree that are no longer as reviewed
  dirty,        \* the canonical checkout has uncommitted changes
  remoteBase,   \* the base branch on the remote
  localBranch,  \* the dedicated branch in the local repository
  integration,  \* integration.json: its commit
  publication,  \* github_branch.json: its result and commit
  runLock,      \* the holder of .integration.lock of each run
  repoLock,     \* the holder of agent-loop-integration.lock
  session

others  == <<drifted, dirty, remoteBase>>
records == <<integration, publication>>
locks   == <<runLock, repoLock>>
vars == <<base, line, branch, localBranch, others, records, locks, session>>

Promotion == INSTANCE Promotion

ASSUME PromotionConstantsAssumption ==
  /\ LocalRuns \cap GithubRuns = {}
  /\ ({Root, NoCommit} \cup Foreign) \cap Promotion!Commits = {}
  /\ {Root, NoCommit} \cap Foreign = {} /\ Root # NoCommit
  /\ MaxHistory \in Nat \ {0}

Runs == LocalRuns \cup GithubRuns
Tip == line[Len(line)]

NoPublication == [result |-> "none", commit |-> NoCommit]

Idle == [pc |-> "idle", run |-> NoCommit, left |-> {}, altered |-> {},
         commit |-> NoCommit, offline |-> FALSE]

At(s, label) == session[s].pc = label
RunOf(s) == session[s].run
CommitOf(s) == session[s].commit
Github(s) == RunOf(s) \in GithubRuns

Goto(s, label) == session' = [session EXCEPT ![s].pc = label]

(* The command ends or dies; both locks are released. *)
LeaveRepositoryLocked(s) ==   \* fault: only the run is unlocked
  /\ runLock' = [r \in Runs |-> IF runLock[r] = s THEN "none" ELSE runLock[r]]
  /\ UNCHANGED repoLock
Unlock(s) ==
  /\ runLock' = [r \in Runs |-> IF runLock[r] = s THEN "none" ELSE runLock[r]]
  /\ repoLock' = IF repoLock = s THEN "none" ELSE repoLock
Finish(s) == session' = [session EXCEPT ![s] = Idle] /\ Unlock(s)
Abort(s) == Goto(s, "aborted") /\ Unlock(s)

Require(condition, s, label) ==
  IF condition THEN Goto(s, label) /\ UNCHANGED locks ELSE Abort(s)

-----------------------------------------------------------------------------
(* What both commands check *)

Matches(r) == drifted[r] = {}
Canonical(r) == ~dirty /\ Tip = base[r]

Begin(s) ==
  /\ At(s, "idle")
  /\ \E r \in Runs :
       /\ base[r] # NoCommit
       /\ runLock[r] = "none"
       /\ runLock' = [runLock EXCEPT ![r] = s]
       /\ session' = [session EXCEPT ![s].pc = "verify", ![s].run = r]
  /\ UNCHANGED <<base, line, branch, localBranch, others, records, repoLock>>

(* verify_reviewed_snapshot and _validate_manifest *)
Verify(s) ==
  /\ At(s, "verify")
  /\ Require(Matches(RunOf(s)), s, "repository")
  /\ UNCHANGED <<base, line, branch, localBranch, others, records>>

LockRepository(s) ==
  /\ At(s, "repository")
  /\ repoLock = "none"
  /\ repoLock' = s
  /\ Goto(s, "inspect")
  /\ UNCHANGED <<base, line, branch, localBranch, others, records, runLock>>

StartBuilding(s) ==
  session' = [session EXCEPT ![s].pc = "build", ![s].left = Files]

(* An existing integration.json must describe HEAD. *)
InspectLocal(s) ==
  /\ At(s, "inspect") /\ ~Github(s)
  /\ LET r == RunOf(s) IN
     \/ ~dirty /\ integration[r] = Tip /\ Finish(s)
     \/ /\ integration[r] = NoCommit /\ Canonical(r)
        /\ StartBuilding(s) /\ UNCHANGED locks
     \/ /\ dirty \/ (integration[r] \notin {NoCommit, Tip})
                 \/ (integration[r] = NoCommit /\ Tip # base[r])
        /\ Abort(s)
  /\ UNCHANGED <<base, line, branch, localBranch, others, records>>

(* The base branch of the remote must still be the approved base commit. *)
InspectGithub(s) ==
  /\ At(s, "inspect") /\ Github(s)
  /\ LET r == RunOf(s) IN
     IF ~Canonical(r) \/ remoteBase # base[r]
     THEN Abort(s)
     ELSE /\ IF publication[r] = NoPublication
             THEN StartBuilding(s)
             ELSE session' = [session EXCEPT
                    ![s].pc = "final",
                    ![s].commit = publication[r].commit]
          /\ UNCHANGED locks
  /\ UNCHANGED <<base, line, branch, localBranch, others, records>>

-----------------------------------------------------------------------------
(* _build_tree_and_commit *)

(* The bytes of an entry enter the tree if they have the reviewed hash. *)
UncheckedBytes(s, f) ==   \* fault: the hash of the bytes is not compared
  session' = [session EXCEPT
    ![s].left = @ \ {f}, ![s].altered = @ \cup ({f} \cap drifted[RunOf(s)])]
ReviewedBytes(s, f) ==
  /\ f \notin drifted[RunOf(s)]
  /\ session' = [session EXCEPT ![s].left = @ \ {f}]

ReadEntry(s) ==
  /\ At(s, "build")
  /\ \E f \in session[s].left :
       \/ ReviewedBytes(s, f) /\ UNCHANGED locks
       \/ f \in drifted[RunOf(s)] /\ Abort(s)
  /\ UNCHANGED <<base, line, branch, localBranch, others, records>>

CommitTree(s) ==
  /\ At(s, "build") /\ session[s].left = {}
  /\ \E stamp \in Stamps :
       session' = [session EXCEPT
         ![s].pc = IF Github(s) THEN "prepare" ELSE "final",
         ![s].commit = [run |-> RunOf(s), altered |-> session[s].altered,
                        stamp |-> stamp]]
  /\ UNCHANGED <<base, line, branch, localBranch, others, records, locks>>

(* The commit is recorded before any ref names it. *)
ForgottenPreparation(s) == UNCHANGED publication  \* fault: only at the end
RecordPreparation(s) ==
  publication' = [publication EXCEPT
    ![RunOf(s)] = [result |-> "prepared", commit |-> CommitOf(s)]]

Prepare(s) ==
  /\ At(s, "prepare")
  /\ RecordPreparation(s)
  /\ Goto(s, "final")
  /\ UNCHANGED <<base, line, branch, localBranch, others, integration, locks>>

FinalVerification(s) ==
  /\ At(s, "final")
  /\ Require(Matches(RunOf(s)) /\ Canonical(RunOf(s)), s,
             IF Github(s) THEN "localBranch" ELSE "merge")
  /\ UNCHANGED <<base, line, branch, localBranch, others, records>>

-----------------------------------------------------------------------------
(* Local integration *)

(***************************************************************************)
(* git merge --ff-only: the commit's parent must be HEAD.  Uncommitted     *)
(* changes stop it only when they touch the same paths.                    *)
(***************************************************************************)
FastForward(s) == Tip = base[RunOf(s)]

Merge(s) ==
  /\ At(s, "merge")
  /\ \/ /\ FastForward(s)
        /\ line' = Append(line, CommitOf(s))
        /\ Goto(s, "merged") /\ UNCHANGED locks
     \/ /\ ~FastForward(s) \/ dirty
        /\ Abort(s) /\ UNCHANGED line
  /\ UNCHANGED <<base, branch, localBranch, others, records>>

RecordIntegration(s) ==
  /\ At(s, "merged")
  /\ IF Tip = CommitOf(s) /\ ~dirty
     THEN /\ integration' = [integration EXCEPT ![RunOf(s)] = CommitOf(s)]
          /\ Finish(s)
     ELSE Abort(s) /\ UNCHANGED integration
  /\ UNCHANGED <<base, line, branch, localBranch, others, publication>>

-----------------------------------------------------------------------------
(* Publication of the dedicated branch *)

UpdateRef(s) ==
  /\ At(s, "localBranch")
  /\ \/ /\ localBranch[RunOf(s)] \in {NoCommit, CommitOf(s)}
        /\ localBranch' = [localBranch EXCEPT ![RunOf(s)] = CommitOf(s)]
        /\ Goto(s, "remote") /\ UNCHANGED locks
     \/ /\ localBranch[RunOf(s)] \notin {NoCommit, CommitOf(s)}
        /\ Abort(s) /\ UNCHANGED localBranch
  /\ UNCHANGED <<base, line, branch, others, records>>

ReadRemote(s) ==
  /\ At(s, "remote")
  /\ Goto(s, IF branch[RunOf(s)] = NoCommit THEN "push" ELSE "confirm")
  /\ UNCHANGED <<base, line, branch, localBranch, others, records, locks>>

(***************************************************************************)
(* git push without --force: a branch that somebody created meanwhile is   *)
(* fast-forwarded if it is at the base commit or before it, and refused    *)
(* otherwise.  An answer that is lost leaves the ref either way.           *)
(***************************************************************************)
PushAccepted(s) ==
  branch[RunOf(s)] \in {NoCommit, CommitOf(s)} \cup Promotion!UpTo(RunOf(s))

Push(s) ==
  /\ At(s, "push")
  /\ \/ /\ PushAccepted(s)
        /\ branch' = [branch EXCEPT ![RunOf(s)] = CommitOf(s)]
        /\ \/ Goto(s, "confirm") /\ UNCHANGED locks
           \/ /\ MayDisconnect
              /\ session' = [session EXCEPT ![s].pc = "aborted",
                                            ![s].offline = TRUE]
              /\ Unlock(s)
     \/ /\ ~PushAccepted(s)
        /\ Abort(s) /\ UNCHANGED branch
     \/ /\ MayDisconnect
        /\ session' = [session EXCEPT ![s].pc = "aborted",
                                      ![s].offline = TRUE]
        /\ Unlock(s) /\ UNCHANGED branch
  /\ UNCHANGED <<base, line, localBranch, others, records>>

(* The remote is read again before the record says "branch_published". *)
ReachedRemote(s) == branch[RunOf(s)] # NoCommit   \* fault: any commit will do
OnRemote(s) == branch[RunOf(s)] = CommitOf(s)

Confirm(s) ==
  /\ At(s, "confirm")
  /\ Require(OnRemote(s), s, "publish")
  /\ UNCHANGED <<base, line, branch, localBranch, others, records>>

RecordPublication(s) ==
  /\ At(s, "publish")
  /\ publication' = [publication EXCEPT
       ![RunOf(s)] = [result |-> "branch_published", commit |-> CommitOf(s)]]
  /\ Finish(s)
  /\ UNCHANGED <<base, line, branch, localBranch, others, integration>>

(* The error is reported to the operator. *)
Report(s) ==
  /\ At(s, "aborted")
  /\ Finish(s)
  /\ UNCHANGED <<base, line, branch, localBranch, others, records>>

Kill(s) ==
  /\ MayKill /\ ~At(s, "idle") /\ ~At(s, "aborted")
  /\ Finish(s)
  /\ UNCHANGED <<base, line, branch, localBranch, others, records>>

-----------------------------------------------------------------------------
(* Everybody else: external to the program *)

ApproveRun(r) ==
  /\ Promotion!Approve(r)
  /\ UNCHANGED <<localBranch, others, records, locks, session>>

OthersWork ==
  /\ MayInterfere
  /\ \/ Promotion!OthersCommit /\ UNCHANGED <<others>>
     \/ /\ \E r \in Runs : base[r] # NoCommit /\ Promotion!OthersTakeBranch(r)
        /\ UNCHANGED others
     \/ /\ \E r \in Runs, f \in Files :
             /\ base[r] # NoCommit
             /\ drifted' = [drifted EXCEPT
                  ![r] = IF f \in @ THEN @ \ {f} ELSE @ \cup {f}]
        /\ UNCHANGED <<base, line, branch, dirty, remoteBase>>
     \/ /\ dirty' = ~dirty
        /\ UNCHANGED <<base, line, branch, drifted, remoteBase>>
     \/ /\ remoteBase' = Tip
        /\ UNCHANGED <<base, line, branch, drifted, dirty>>
  /\ UNCHANGED <<localBranch, records, locks, session>>

-----------------------------------------------------------------------------
Init ==
  /\ Promotion!Init
  /\ drifted = [r \in Runs |-> {}]
  /\ dirty = FALSE
  /\ remoteBase = Root
  /\ localBranch = [r \in Runs |-> NoCommit]
  /\ integration = [r \in Runs |-> NoCommit]
  /\ publication = [r \in Runs |-> NoPublication]
  /\ runLock = [r \in Runs |-> "none"]
  /\ repoLock = "none"
  /\ session = [s \in Sessions |-> Idle]

Step(s) ==
  \/ Verify(s) \/ LockRepository(s) \/ InspectLocal(s) \/ InspectGithub(s)
  \/ ReadEntry(s) \/ CommitTree(s) \/ Prepare(s) \/ FinalVerification(s)
  \/ Merge(s) \/ RecordIntegration(s)
  \/ UpdateRef(s) \/ ReadRemote(s) \/ Push(s) \/ Confirm(s)
  \/ RecordPublication(s) \/ Report(s)

Next ==
  \/ \E s \in Sessions : Begin(s) \/ Step(s) \/ Kill(s)
  \/ \E r \in Runs : ApproveRun(r)
  \/ OthersWork

Spec == Init /\ [][Next]_vars

-----------------------------------------------------------------------------
(* Properties *)

Commits == Promotion!Commits
SessionPcs ==
  {"idle", "verify", "repository", "inspect", "build", "prepare", "final",
   "merge", "merged", "localBranch", "remote", "push", "confirm", "publish",
   "aborted"}

Unlocked == {"idle", "aborted"}
Waiting == {"verify", "repository"}

(* Every variable keeps its type; a lock names exactly the session in it. *)
TypeOK ==
  /\ base \in [Runs -> Commits \cup Foreign \cup {Root, NoCommit}]
  /\ line \in Seq(Commits \cup Foreign \cup {Root})
  /\ branch \in [Runs -> Commits \cup Foreign \cup {Root, NoCommit}]
  /\ drifted \in [Runs -> SUBSET Files]
  /\ dirty \in BOOLEAN
  /\ remoteBase \in Commits \cup Foreign \cup {Root}
  /\ localBranch \in [Runs -> Commits \cup {NoCommit}]
  /\ integration \in [Runs -> Commits \cup {NoCommit}]
  /\ publication \in [Runs -> [result : {"none", "prepared", "branch_published"},
                               commit : Commits \cup {NoCommit}]]
  /\ runLock \in [Runs -> Sessions \cup {"none"}]
  /\ repoLock \in Sessions \cup {"none"}
  /\ session \in [Sessions ->
       [pc : SessionPcs, run : Runs \cup {NoCommit}, left : SUBSET Files,
        altered : SUBSET Files, commit : Commits \cup {NoCommit},
        offline : BOOLEAN]]
  /\ \A s \in Sessions :
       /\ repoLock = s <=> session[s].pc \notin Unlocked \cup Waiting
       /\ \A r \in Runs : runLock[r] = s <=>
            RunOf(s) = r /\ session[s].pc \notin Unlocked

(***************************************************************************)
(* A ref that names a commit made for a run names the one its record       *)
(* names: a crash at any point leaves a record from which the publication  *)
(* is resumed with the same commit.                                        *)
(***************************************************************************)
MadeFor(r) == {c \in Commits : c.run = r}

RefsAreRecorded ==
  \A r \in GithubRuns :
    \A ref \in {localBranch[r], branch[r]} :
      ref \in MadeFor(r) => publication[r].commit = ref

(***************************************************************************)
(* Records tell the truth, whoever commits, kills or disconnects: one that *)
(* says "branch_published" of the remote, as long as nobody else moves the *)
(* dedicated branch once it is published, and integration.json of          *)
(* canonical history, where its commit stands on the base of the run.      *)
(***************************************************************************)
RecordsTellTheTruth ==
  /\ \A r \in GithubRuns :
       publication[r].result = "branch_published" =>
         branch[r] = publication[r].commit
  /\ \A r \in LocalRuns :
       integration[r] # NoCommit =>
         \E i \in 2..Len(line) :
           line[i] = integration[r] /\ line[i - 1] = base[r]

(***************************************************************************)
(* When nobody interferes, killed and disconnected sessions never leave a  *)
(* publication that a later session has to refuse: a session that reports  *)
(* an error lost its connection.                                           *)
(***************************************************************************)
PublicationResumes ==
  \A s \in Sessions :
    At(s, "aborted") /\ Github(s) => session[s].offline

(***************************************************************************)
(* AGENT_ORCHESTRATION.md: a dirty checkout, drift or a diverged base      *)
(* abort without changing the branch.                                      *)
(***************************************************************************)
AbortLeavesBranch ==
  \A s \in Sessions :
    At(s, "aborted") /\ CommitOf(s) # NoCommit =>
      \A i \in 1..Len(line) : line[i] # CommitOf(s)

(***************************************************************************)
(* The two commands keep the promises of module Promotion: only approved   *)
(* bytes, only onto the reviewed base, and no commit that others put on a  *)
(* dedicated branch is lost.                                               *)
(***************************************************************************)
ImplementsPromotion == Promotion!Spec

(***************************************************************************)
(* A started command keeps running, and flock eventually serves each       *)
(* waiter for the repository lock.  Nothing makes an operator start one.   *)
(***************************************************************************)
FairSpec ==
  /\ Spec
  /\ \A s \in Sessions : WF_vars(Step(s)) /\ SF_vars(LockRepository(s))

(* A command that took the locks of its run always ends, killed or not:    *)
(* no session waits for ever for a lock somebody left behind.              *)
CommandEnds ==
  \A s \in Sessions : ~At(s, "idle") ~> At(s, "idle")
=============================================================================
