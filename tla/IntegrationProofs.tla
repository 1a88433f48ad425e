-------------------------- MODULE IntegrationProofs -------------------------
(***************************************************************************)
(* The two commands implement module Promotion, and their records tell the *)
(* truth, for any number of runs, sessions, entries and commits of others. *)
(***************************************************************************)
EXTENDS Integration, TLAPS

USE SessionConstantsAssumption, PromotionConstantsAssumption

Approved(r) == Promotion!ApprovedCommits(r)

SessionRecords ==
  [pc : SessionPcs, run : Runs \cup {NoCommit}, left : SUBSET Files,
   altered : SUBSET Files, commit : Commits \cup {NoCommit},
   offline : BOOLEAN]

(* What canonical history, and a branch on the remote, may hold.           *)
Placed == {c \in Commits : c.run \in LocalRuns} \cup Foreign \cup {Root}
Refs == Commits \cup Foreign \cup {Root, NoCommit}

Typed ==
  /\ base \in [Runs -> Placed \cup {NoCommit}]
  /\ line \in Seq(Placed) /\ Len(line) > 0
  /\ branch \in [Runs -> Refs]
  /\ localBranch \in [Runs -> Commits \cup {NoCommit}]
  /\ \A r \in Runs : localBranch[r] \in MadeFor(r) \cup {NoCommit}
  /\ integration \in [Runs -> Commits \cup {NoCommit}]
  /\ DOMAIN publication = Runs
  /\ DOMAIN runLock = Runs
  /\ session \in [Sessions -> SessionRecords]

(* A session holds the locks of the place it is in. *)
Holds(s) ==
  /\ session[s].pc \notin Unlocked =>
       RunOf(s) \in Runs /\ runLock[RunOf(s)] = s
  /\ session[s].pc \notin Unlocked \cup Waiting => repoLock = s

(* The commit of a run is in canonical history, on the base of the run.    *)
Stands(c, r) ==
  \E i \in 2..Len(line) : line[i] = c /\ line[i - 1] = base[r]

Publishing == {"localBranch", "remote", "push", "confirm", "publish"}
Committed == Publishing \cup {"final", "merge", "merged"}

(* What a session relies on while it holds the lock of its run.            *)
Knows(s) ==
  LET r == RunOf(s)
      pc == session[s].pc IN
  /\ session[s].altered = {}
  /\ pc \notin Unlocked => base[r] # NoCommit
  /\ pc \in {"build", "prepare"} /\ Github(s) =>
       publication[r] = NoPublication
  /\ pc = "prepare" \/ pc \in Publishing => Github(s)
  /\ pc \in {"merge", "merged"} => ~Github(s)
  /\ pc = "prepare" \/ pc \in Committed => CommitOf(s) \in Approved(r)
  /\ pc \in Committed /\ Github(s) => publication[r].commit = CommitOf(s)
  /\ pc = "publish" => branch[r] = CommitOf(s)
  /\ pc = "merged" => Stands(CommitOf(s), r)

(* A prepared commit holds the reviewed bytes. *)
PreparedIsApproved ==
  \A r \in Runs :
    publication[r] = NoPublication \/ publication[r].commit \in Approved(r)

IInv ==
  /\ Typed /\ PreparedIsApproved
  /\ \A s \in Sessions : Holds(s) /\ Knows(s)
  /\ RefsAreRecorded /\ RecordsTellTheTruth

-----------------------------------------------------------------------------
LEMMA CommitsAreNew ==
  /\ Root \notin Commits /\ Foreign \cap Commits = {} /\ NoCommit \notin Commits
  /\ NoCommit \notin Placed /\ Placed \subseteq Refs
  /\ \A r \in Runs : Approved(r) \subseteq MadeFor(r) /\ MadeFor(r) \subseteq Commits
  /\ \A r \in LocalRuns : Approved(r) \subseteq Placed
  /\ \A r \in GithubRuns : MadeFor(r) \cap Placed = {}
<1>1. /\ Root \notin Commits /\ Foreign \cap Commits = {}
      /\ NoCommit \notin Commits
  BY DEF Commits
<1>2. ASSUME NEW r \in Runs PROVE Approved(r) \subseteq MadeFor(r)
  BY DEF Commits, Approved, Promotion!Commits, Promotion!ApprovedCommits, Runs,
     Promotion!Runs, MadeFor
<1>3. NoCommit \notin Placed /\ Placed \subseteq Refs
  BY <1>1 DEF Placed, Refs
<1>4. \A r \in LocalRuns : Approved(r) \subseteq Placed
  BY <1>2 DEF Placed, MadeFor, Runs
<1>5. \A r \in GithubRuns : MadeFor(r) \cap Placed = {}
  BY <1>1 DEF Placed, MadeFor
<1>. QED  BY <1>1, <1>2, <1>3, <1>4, <1>5 DEF MadeFor

LEMMA InitHolds == Init => IInv
<1>. SUFFICES ASSUME Init PROVE IInv
  OBVIOUS
<1>. USE DEF Init, Promotion!Init
<1>1. Typed
  <2>1. line \in Seq(Placed) /\ Len(line) > 0
    BY DEF Placed
  <2>2. base \in [Runs -> Placed \cup {NoCommit}] /\ branch \in [Runs -> Refs]
    BY DEF Refs, Runs, Promotion!Runs
  <2>. QED
    BY <2>1, <2>2 DEF Typed, Idle, SessionRecords, SessionPcs
<1>2. PreparedIsApproved
  BY DEF PreparedIsApproved
<1>3. \A s \in Sessions : Holds(s) /\ Knows(s)
  BY DEF Holds, Knows, Idle, Unlocked, Waiting, Publishing, Committed
<1>4. RefsAreRecorded
  BY CommitsAreNew DEF RefsAreRecorded, Runs, Promotion!Runs
<1>5. RecordsTellTheTruth
  BY DEF RecordsTellTheTruth, NoPublication, Runs
<1>. QED  BY <1>1, <1>2, <1>3, <1>4, <1>5 DEF IInv

-----------------------------------------------------------------------------
(* Steps that only move one session and its locks.                         *)

Mine(s) == \A t \in Sessions : t # s => session'[t] = session[t]

(* A lock that somebody else holds is not touched.                         *)
LocksLeft(s) ==
  /\ DOMAIN runLock' = Runs
  /\ \A r \in Runs : runLock[r] \notin {s, "none"} => runLock'[r] = runLock[r]
  /\ repoLock \notin {s, "none"} => repoLock' = repoLock

LEMMA UnlockLeaves ==
  ASSUME NEW s \in Sessions, Unlock(s)
  PROVE  LocksLeft(s)
BY DEF Unlock, LocksLeft

LEMMA OthersHold ==
  ASSUME IInv, NEW s \in Sessions, Mine(s), LocksLeft(s), Holds(s)'
  PROVE  \A t \in Sessions : Holds(t)'
<1>. SUFFICES ASSUME NEW t \in Sessions, t # s PROVE Holds(t)'
  OBVIOUS
<1>1. Holds(t) /\ session'[t] = session[t]
  BY DEF IInv, Mine
<1>. QED  BY <1>1 DEF Holds, LocksLeft, RunOf

(* No other session works on the run of a session that holds its lock.     *)
LEMMA RunIsOwned ==
  ASSUME IInv, NEW s \in Sessions, NEW t \in Sessions, t # s,
         session[s].pc \notin Unlocked, session[t].pc \notin Unlocked
  PROVE  RunOf(t) # RunOf(s) /\ RunOf(t) \in Runs
BY DEF IInv, Holds

(* Goto moves a session and leaves the rest of it as it is.                *)
LEMMA GoesTo ==
  ASSUME IInv, NEW s \in Sessions, NEW label \in SessionPcs, Goto(s, label)
  PROVE  /\ session' \in [Sessions -> SessionRecords] /\ Mine(s)
         /\ session'[s].pc = label /\ RunOf(s)' = RunOf(s)
         /\ CommitOf(s)' = CommitOf(s)
         /\ session'[s].altered = session[s].altered
BY DEF Goto, IInv, Typed, SessionRecords, Mine, RunOf, CommitOf

LEMMA GoesForRun ==
  ASSUME session \in [Sessions -> SessionRecords], NEW s \in Sessions,
         NEW r \in Runs, "verify" \in SessionPcs,
         session' = [session EXCEPT ![s].pc = "verify", ![s].run = r]
  PROVE  /\ session' \in [Sessions -> SessionRecords]
         /\ \A t \in Sessions : t # s => session'[t] = session[t]
         /\ session'[s].pc = "verify" /\ session'[s].run = r
         /\ session'[s].altered = session[s].altered
BY DEF SessionRecords

LEMMA GoesOffline ==
  ASSUME session \in [Sessions -> SessionRecords], NEW s \in Sessions,
         "aborted" \in SessionPcs,
         session' = [session EXCEPT ![s].pc = "aborted", ![s].offline = TRUE]
  PROVE  /\ session' \in [Sessions -> SessionRecords]
         /\ \A t \in Sessions : t # s => session'[t] = session[t]
         /\ session'[s].pc = "aborted"
         /\ session'[s].altered = session[s].altered
BY DEF SessionRecords

(* A session that ends, or gives up, relies on nothing any more.           *)
LEMMA LeavesBehind ==
  ASSUME IInv, NEW s \in Sessions,
         \/ Finish(s) \/ Abort(s)
         \/ /\ session' = [session EXCEPT ![s].pc = "aborted",
                                          ![s].offline = TRUE]
            /\ Unlock(s)
  PROVE  /\ session' \in [Sessions -> SessionRecords] /\ Mine(s)
         /\ LocksLeft(s) /\ session'[s].pc \in Unlocked
         /\ Holds(s)' /\ Knows(s)'
<1>1. LocksLeft(s)
  BY UnlockLeaves DEF Finish, Abort
<1>2. session[s].altered = {}
  BY DEF IInv, Knows
<1>3. /\ session' \in [Sessions -> SessionRecords] /\ Mine(s)
      /\ session'[s].pc \in Unlocked /\ session'[s].altered = {}
  <2>1. CASE Finish(s)
    <3>1. Idle \in SessionRecords /\ Idle.pc = "idle" /\ Idle.altered = {}
      BY DEF Idle, SessionRecords, SessionPcs
    <3>. QED  BY <2>1, <3>1 DEF Finish, IInv, Typed, Mine, Unlocked
  <2>2. CASE Abort(s)
    BY <2>2, <1>2, GoesTo DEF Abort, SessionPcs, Unlocked
  <2>3. CASE session' = [session EXCEPT ![s].pc = "aborted",
                                        ![s].offline = TRUE]
    <3>1. session \in [Sessions -> SessionRecords] /\ "aborted" \in SessionPcs
      BY DEF IInv, Typed, SessionPcs
    <3>2. /\ session' \in [Sessions -> SessionRecords]
          /\ \A t \in Sessions : t # s => session'[t] = session[t]
          /\ session'[s].pc = "aborted"
          /\ session'[s].altered = session[s].altered
      BY <2>3, <3>1, GoesOffline, Zenon
    <3>. QED  BY <1>2, <3>2 DEF Mine, Unlocked
  <2>. QED  BY <2>1, <2>2, <2>3
<1>. QED
  BY <1>1, <1>3 DEF Holds, Knows, Unlocked, Publishing, Committed

(* A step that changes nothing but a session and its locks.                *)
LEMMA SessionStepKeeps ==
  ASSUME IInv, NEW s \in Sessions, Mine(s), LocksLeft(s),
         session' \in [Sessions -> SessionRecords],
         UNCHANGED <<base, line, branch, localBranch, records>>,
         Holds(s)', Knows(s)'
  PROVE  IInv'
<1>. USE DEF records
<1>1. Typed'
  BY DEF IInv, Typed, LocksLeft
<1>2. \A t \in Sessions : Knows(t)'
  <2>. SUFFICES ASSUME NEW t \in Sessions, t # s PROVE Knows(t)'
    OBVIOUS
  <2>1. Knows(t) /\ session'[t] = session[t]
    BY DEF IInv, Mine
  <2>. QED  BY <2>1 DEF Knows, RunOf, CommitOf, Github, Stands
<1>3. PreparedIsApproved' /\ RefsAreRecorded' /\ RecordsTellTheTruth'
  BY DEF IInv, PreparedIsApproved, RefsAreRecorded, RecordsTellTheTruth
<1>. QED  BY <1>1, <1>2, <1>3, OthersHold DEF IInv

LEMMA LeavingKeeps ==
  ASSUME IInv, NEW s \in Sessions,
         \/ Finish(s) \/ Abort(s)
         \/ /\ session' = [session EXCEPT ![s].pc = "aborted",
                                          ![s].offline = TRUE]
            /\ Unlock(s),
         UNCHANGED <<base, line, branch, localBranch, records>>
  PROVE  IInv'
BY LeavesBehind, SessionStepKeeps

LEMMA BeginKeeps ==
  ASSUME IInv, NEW s \in Sessions, Begin(s)
  PROVE  IInv'
<1>. USE DEF Begin, At
<1>1. PICK r \in Runs :
        /\ base[r] # NoCommit /\ runLock[r] = "none"
        /\ runLock' = [runLock EXCEPT ![r] = s]
        /\ session' = [session EXCEPT ![s].pc = "verify", ![s].run = r]
  OBVIOUS
<1>2. /\ session' \in [Sessions -> SessionRecords] /\ Mine(s)
      /\ session'[s].pc = "verify" /\ session'[s].run = r
      /\ session'[s].altered = session[s].altered
  <2>1. session \in [Sessions -> SessionRecords] /\ "verify" \in SessionPcs
    BY DEF IInv, Typed, SessionPcs
  <2>. QED  BY <1>1, <2>1, GoesForRun, Zenon DEF Mine
<1>3. LocksLeft(s)
  BY <1>1 DEF IInv, Typed, LocksLeft
<1>4. Holds(s)'
  <2>1. runLock'[r] = s
    BY <1>1 DEF IInv, Typed
  <2>. QED  BY <1>2, <2>1 DEF Holds, Unlocked, Waiting, RunOf
<1>5. Knows(s)'
  BY <1>1, <1>2 DEF IInv, Knows, Unlocked, RunOf, Publishing, Committed
<1>. QED  BY <1>2, <1>3, <1>4, <1>5, SessionStepKeeps

(* The steps that only look, until a commit is made.                       *)
LEMMA LookingKeeps ==
  ASSUME IInv, NEW s \in Sessions,
         Verify(s) \/ LockRepository(s) \/ InspectLocal(s) \/ ReadRemote(s)
           \/ FinalVerification(s) \/ Confirm(s)
  PROVE  IInv'
<1>. USE DEF At, Require, locks
<1>1. CASE Verify(s)
  <2>1. CASE Abort(s)
    BY <1>1, <2>1, LeavingKeeps DEF Verify
  <2>2. CASE Goto(s, "repository") /\ UNCHANGED locks
    <3>1. /\ session' \in [Sessions -> SessionRecords] /\ Mine(s)
          /\ session'[s].pc = "repository" /\ RunOf(s)' = RunOf(s)
          /\ session'[s].altered = session[s].altered
      BY <2>2, GoesTo DEF SessionPcs
    <3>2. LocksLeft(s) /\ Holds(s)' /\ Knows(s)'
      BY <1>1, <2>2, <3>1 DEF Verify, IInv, Typed, LocksLeft, Holds, Knows,
         Unlocked, Waiting, Publishing, Committed
    <3>. QED  BY <1>1, <3>1, <3>2, SessionStepKeeps DEF Verify
  <2>. QED  BY <1>1, <2>1, <2>2 DEF Verify
<1>2. CASE LockRepository(s)
  <2>1. /\ session' \in [Sessions -> SessionRecords] /\ Mine(s)
        /\ session'[s].pc = "inspect" /\ RunOf(s)' = RunOf(s)
        /\ session'[s].altered = session[s].altered
    BY <1>2, GoesTo DEF LockRepository, SessionPcs
  <2>2. LocksLeft(s) /\ Holds(s)' /\ Knows(s)'
    BY <1>2, <2>1 DEF LockRepository, IInv, Typed, LocksLeft, Holds, Knows,
       Unlocked, Waiting, Publishing, Committed
  <2>. QED  BY <1>2, <2>1, <2>2, SessionStepKeeps DEF LockRepository
<1>3. CASE InspectLocal(s)
  <2>1. CASE Finish(s) \/ Abort(s)
    BY <1>3, <2>1, LeavingKeeps DEF InspectLocal
  <2>2. CASE StartBuilding(s) /\ UNCHANGED locks
    <3>1. /\ session' \in [Sessions -> SessionRecords] /\ Mine(s)
          /\ session'[s].pc = "build" /\ RunOf(s)' = RunOf(s)
          /\ session'[s].altered = session[s].altered
      <4>1. session \in [Sessions -> SessionRecords] /\ "build" \in SessionPcs
        BY DEF IInv, Typed, SessionPcs
      <4>. QED  BY <2>2, <4>1 DEF StartBuilding, SessionRecords, Mine, RunOf
    <3>2. LocksLeft(s) /\ Holds(s)' /\ Knows(s)'
      BY <1>3, <2>2, <3>1 DEF InspectLocal, IInv, Typed, LocksLeft, Holds,
         Knows, Unlocked, Waiting, Publishing, Committed, Github
    <3>. QED  BY <1>3, <3>1, <3>2, SessionStepKeeps DEF InspectLocal
  <2>. QED  BY <1>3, <2>1, <2>2 DEF InspectLocal
<1>4. CASE ReadRemote(s)
  <2>1. PICK label \in {"push", "confirm"} : Goto(s, label)
    BY <1>4 DEF ReadRemote
  <2>2. /\ session' \in [Sessions -> SessionRecords] /\ Mine(s)
        /\ session'[s].pc = label /\ RunOf(s)' = RunOf(s)
        /\ CommitOf(s)' = CommitOf(s)
        /\ session'[s].altered = session[s].altered
    BY <2>1, GoesTo DEF SessionPcs
  <2>3. LocksLeft(s) /\ Holds(s)' /\ Knows(s)'
    BY <1>4, <2>2 DEF ReadRemote, IInv, Typed, LocksLeft, Holds, Knows,
       Unlocked, Waiting, Publishing, Committed, Github, records
  <2>. QED  BY <1>4, <2>2, <2>3, SessionStepKeeps DEF ReadRemote
<1>5. CASE FinalVerification(s)
  <2>1. CASE Abort(s)
    BY <1>5, <2>1, LeavingKeeps DEF FinalVerification
  <2>2. CASE ~Abort(s)
    <3>1. PICK label \in {"localBranch", "merge"} :
            /\ Goto(s, label) /\ UNCHANGED locks
            /\ label = "localBranch" <=> Github(s)
      BY <1>5, <2>2 DEF FinalVerification
    <3>2. /\ session' \in [Sessions -> SessionRecords] /\ Mine(s)
          /\ session'[s].pc = label /\ RunOf(s)' = RunOf(s)
          /\ CommitOf(s)' = CommitOf(s)
          /\ session'[s].altered = session[s].altered
      BY <3>1, GoesTo DEF SessionPcs
    <3>3. LocksLeft(s) /\ Holds(s)' /\ Knows(s)'
      BY <1>5, <3>1, <3>2 DEF FinalVerification, IInv, Typed, LocksLeft,
         Holds, Knows, Unlocked, Waiting, Publishing, Committed, Github,
         records
    <3>. QED  BY <1>5, <3>2, <3>3, SessionStepKeeps DEF FinalVerification
  <2>. QED  BY <2>1, <2>2
<1>6. CASE Confirm(s)
  <2>1. CASE Abort(s)
    BY <1>6, <2>1, LeavingKeeps DEF Confirm
  <2>2. CASE OnRemote(s) /\ Goto(s, "publish") /\ UNCHANGED locks
    <3>1. /\ session' \in [Sessions -> SessionRecords] /\ Mine(s)
          /\ session'[s].pc = "publish" /\ RunOf(s)' = RunOf(s)
          /\ CommitOf(s)' = CommitOf(s)
          /\ session'[s].altered = session[s].altered
      BY <2>2, GoesTo DEF SessionPcs
    <3>2. LocksLeft(s) /\ Holds(s)' /\ Knows(s)'
      BY <1>6, <2>2, <3>1 DEF Confirm, OnRemote, IInv, Typed, LocksLeft, Holds,
         Knows, Unlocked, Waiting, Publishing, Committed, Github, records
    <3>. QED  BY <1>6, <3>1, <3>2, SessionStepKeeps DEF Confirm
  <2>. QED  BY <1>6, <2>1, <2>2 DEF Confirm
<1>. QED  BY <1>1, <1>2, <1>3, <1>4, <1>5, <1>6

-----------------------------------------------------------------------------
(* The commit is built, or found in the record of an earlier session.      *)

LEMMA GoesWithCommit ==
  ASSUME session \in [Sessions -> SessionRecords], NEW s \in Sessions,
         NEW label \in SessionPcs, NEW c \in Commits,
         session' = [session EXCEPT ![s].pc = label, ![s].commit = c]
  PROVE  /\ session' \in [Sessions -> SessionRecords]
         /\ \A t \in Sessions : t # s => session'[t] = session[t]
         /\ session'[s].pc = label /\ session'[s].commit = c
         /\ session'[s].run = session[s].run
         /\ session'[s].altered = session[s].altered
BY DEF SessionRecords

(* A session that holds both locks goes on.                                *)
LEMMA StaysInside ==
  ASSUME IInv, NEW s \in Sessions, session[s].pc \notin Unlocked \cup Waiting,
         NEW label \in SessionPcs, Goto(s, label), UNCHANGED locks
  PROVE  /\ session' \in [Sessions -> SessionRecords] /\ Mine(s)
         /\ LocksLeft(s) /\ Holds(s)'
         /\ session'[s].pc = label /\ RunOf(s)' = RunOf(s)
         /\ CommitOf(s)' = CommitOf(s) /\ session'[s].altered = {}
<1>1. /\ session' \in [Sessions -> SessionRecords] /\ Mine(s)
      /\ session'[s].pc = label /\ RunOf(s)' = RunOf(s)
      /\ CommitOf(s)' = CommitOf(s)
      /\ session'[s].altered = session[s].altered
  BY GoesTo
<1>2. LocksLeft(s) /\ Holds(s)'
  BY <1>1 DEF IInv, Typed, LocksLeft, Holds, locks
<1>. QED  BY <1>1, <1>2 DEF IInv, Knows

LEMMA InspectGithubKeeps ==
  ASSUME IInv, NEW s \in Sessions, InspectGithub(s)
  PROVE  IInv'
<1>. USE DEF At, locks
<1>0. /\ session[s].pc = "inspect" /\ RunOf(s) \in Runs
      /\ session \in [Sessions -> SessionRecords]
      /\ UNCHANGED <<base, line, branch, localBranch, records>>
  BY DEF InspectGithub, IInv, Typed, Holds, Unlocked
<1>1. CASE Abort(s)
  BY <1>0, <1>1, LeavingKeeps
<1>2. CASE /\ publication[RunOf(s)] = NoPublication
           /\ StartBuilding(s) /\ UNCHANGED locks
  <2>1. /\ session' \in [Sessions -> SessionRecords] /\ Mine(s)
        /\ session'[s].pc = "build" /\ RunOf(s)' = RunOf(s)
        /\ session'[s].altered = session[s].altered
    <3>1. "build" \in SessionPcs
      BY DEF SessionPcs
    <3>. QED
      BY <1>0, <1>2, <3>1 DEF StartBuilding, SessionRecords, Mine, RunOf
  <2>2. LocksLeft(s) /\ Holds(s)' /\ Knows(s)'
    BY <1>0, <1>2, <2>1 DEF IInv, Typed, LocksLeft, Holds, Knows, Unlocked,
       Waiting, Publishing, Committed, Github, records
  <2>. QED  BY <1>0, <2>1, <2>2, SessionStepKeeps
<1>3. CASE /\ publication[RunOf(s)] # NoPublication /\ Github(s)
           /\ session' = [session EXCEPT
                ![s].pc = "final",
                ![s].commit = publication[RunOf(s)].commit]
           /\ UNCHANGED locks
  <2>. DEFINE c == publication[RunOf(s)].commit
  <2>1. c \in Approved(RunOf(s))
    BY <1>0, <1>3 DEF IInv, PreparedIsApproved
  <2>2. c \in Commits /\ "final" \in SessionPcs
    BY <1>0, <2>1, CommitsAreNew DEF SessionPcs
  <2>3. /\ session' \in [Sessions -> SessionRecords] /\ Mine(s)
        /\ session'[s].pc = "final" /\ RunOf(s)' = RunOf(s)
        /\ CommitOf(s)' = c
        /\ session'[s].altered = session[s].altered
    <3>. HIDE DEF c
    <3>0. session' = [session EXCEPT ![s].pc = "final", ![s].commit = c]
      BY <1>3 DEF c
    <3>1. /\ session' \in [Sessions -> SessionRecords]
          /\ \A t \in Sessions : t # s => session'[t] = session[t]
          /\ session'[s].pc = "final" /\ session'[s].commit = c
          /\ session'[s].run = session[s].run
          /\ session'[s].altered = session[s].altered
      BY <1>0, <2>2, <3>0, GoesWithCommit, Zenon
    <3>. QED  BY <3>1 DEF Mine, RunOf, CommitOf
  <2>4. LocksLeft(s) /\ Holds(s)'
    BY <1>0, <1>3, <2>3 DEF IInv, Typed, LocksLeft, Holds, Unlocked, Waiting
  <2>5. Knows(s)'
    BY <1>0, <1>3, <2>1, <2>3 DEF IInv, Knows, Unlocked, Publishing,
       Committed, Github, Approved, Promotion!ApprovedCommits, records
  <2>. QED  BY <1>0, <2>3, <2>4, <2>5, SessionStepKeeps
<1>. QED  BY <1>1, <1>2, <1>3 DEF InspectGithub

LEMMA ReadEntryKeeps ==
  ASSUME IInv, NEW s \in Sessions, ReadEntry(s)
  PROVE  IInv'
<1>. USE DEF At, locks
<1>1. CASE Abort(s)
  BY <1>1, LeavingKeeps DEF ReadEntry
<1>2. CASE \E f \in session[s].left : ReviewedBytes(s, f) /\ UNCHANGED locks
  <2>1. PICK f : session' = [session EXCEPT ![s].left = @ \ {f}]
    BY <1>2 DEF ReviewedBytes
  <2>2. /\ session' \in [Sessions -> SessionRecords] /\ Mine(s)
        /\ session'[s].pc = session[s].pc /\ RunOf(s)' = RunOf(s)
        /\ session'[s].altered = session[s].altered
    BY <2>1 DEF IInv, Typed, SessionRecords, Mine, RunOf
  <2>3. LocksLeft(s) /\ Holds(s)' /\ Knows(s)'
    BY <1>2, <2>2 DEF ReadEntry, IInv, Typed, LocksLeft, Holds, Knows,
       Publishing, Committed, Github, records
  <2>. QED  BY <2>2, <2>3, SessionStepKeeps DEF ReadEntry
<1>. QED  BY <1>1, <1>2 DEF ReadEntry

(* Every entry was read as reviewed: the commit is an approved one.        *)
LEMMA CommitTreeKeeps ==
  ASSUME IInv, NEW s \in Sessions, CommitTree(s)
  PROVE  IInv'
<1>. USE DEF At, locks
<1>1. PICK label \in {"prepare", "final"}, stamp \in Stamps :
        /\ session' = [session EXCEPT
             ![s].pc = label,
             ![s].commit = [run |-> RunOf(s), altered |-> session[s].altered,
                            stamp |-> stamp]]
        /\ label = "prepare" <=> Github(s)
  BY DEF CommitTree
<1>2. /\ RunOf(s) \in Runs /\ session[s].altered = {}
      /\ session \in [Sessions -> SessionRecords] /\ label \in SessionPcs
  BY DEF CommitTree, IInv, Typed, Holds, Knows, Unlocked, SessionPcs
<1>. DEFINE c == [run |-> RunOf(s), altered |-> session[s].altered,
                  stamp |-> stamp]
<1>3. c \in Approved(RunOf(s))
  BY <1>2 DEF Approved, Promotion!ApprovedCommits
<1>4. c \in Commits
  BY <1>2, <1>3, CommitsAreNew
<1>5. /\ session' \in [Sessions -> SessionRecords] /\ Mine(s)
      /\ session'[s].pc = label /\ RunOf(s)' = RunOf(s)
      /\ CommitOf(s)' = c /\ session'[s].altered = {}
  <2>. HIDE DEF c
  <2>1. session' = [session EXCEPT ![s].pc = label, ![s].commit = c]
    BY <1>1 DEF c
  <2>2. /\ session' \in [Sessions -> SessionRecords]
        /\ \A t \in Sessions : t # s => session'[t] = session[t]
        /\ session'[s].pc = label /\ session'[s].commit = c
        /\ session'[s].run = session[s].run
        /\ session'[s].altered = session[s].altered
    BY <1>2, <1>4, <2>1, GoesWithCommit, Zenon
  <2>. QED  BY <1>2, <2>2 DEF Mine, RunOf, CommitOf
<1>. HIDE DEF c
<1>6. LocksLeft(s) /\ Holds(s)'
  BY <1>1, <1>5 DEF CommitTree, IInv, Typed, LocksLeft, Holds, Unlocked,
     Waiting
<1>7. Knows(s)'
  BY <1>1, <1>3, <1>5 DEF CommitTree, IInv, Knows, Unlocked, Publishing,
     Committed, Github, Approved, Promotion!ApprovedCommits, records
<1>. QED  BY <1>5, <1>6, <1>7, SessionStepKeeps DEF CommitTree

-----------------------------------------------------------------------------
(* Steps that write: the records, the refs, canonical history.             *)

LEMMA HistoryGrows ==
  ASSUME Typed, NEW c, NEW r \in Runs, Stands(c, r), base'[r] = base[r],
         line' = line \/ \E d \in Placed :
                           line' = Append(line, d)
  PROVE  Stands(c, r)'
<1>1. PICK i \in 2..Len(line) : line[i] = c /\ line[i - 1] = base[r]
  BY DEF Stands
<1>2. i \in 2..Len(line') /\ line'[i] = line[i] /\ line'[i - 1] = line[i - 1]
  <2>1. Len(line) \in Nat /\ i \in 1..Len(line) /\ i - 1 \in 1..Len(line)
    BY <1>1 DEF Typed
  <2>2. CASE line' = line
    BY <1>1, <2>2
  <2>3. ASSUME NEW d \in Placed, line' = Append(line, d)
        PROVE  /\ Len(line') = Len(line) + 1
               /\ \A j \in 1..Len(line) : line'[j] = line[j]
    BY <2>3 DEF Typed
  <2>. QED  BY <1>1, <2>1, <2>2, <2>3
<1>. QED  BY <1>1, <1>2 DEF Stands

(* What a session writes is about its own run.                             *)
LEMMA OthersKnow ==
  ASSUME IInv, NEW s \in Sessions, Mine(s), session[s].pc \notin Unlocked,
         UNCHANGED base,
         line' = line \/ \E d \in Placed :
                           line' = Append(line, d),
         \A r \in Runs : r # RunOf(s) =>
           publication'[r] = publication[r] /\ branch'[r] = branch[r]
  PROVE  \A t \in Sessions : t # s => Knows(t)'
<1>. SUFFICES ASSUME NEW t \in Sessions, t # s PROVE Knows(t)'
  OBVIOUS
<1>1. Knows(t) /\ session'[t] = session[t] /\ RunOf(t)' = RunOf(t)
  BY DEF IInv, Mine, RunOf
<1>2. CASE session[t].pc \in Unlocked
  BY <1>1, <1>2 DEF Knows, Unlocked, Publishing, Committed
<1>3. CASE session[t].pc \notin Unlocked
  <2>1. RunOf(t) # RunOf(s) /\ RunOf(t) \in Runs
    BY <1>3, RunIsOwned
  <2>2. Stands(CommitOf(t), RunOf(t)) => Stands(CommitOf(t), RunOf(t))'
    BY <1>1, <2>1, HistoryGrows DEF IInv, CommitOf
  <2>. QED  BY <1>1, <2>1, <2>2 DEF Knows, CommitOf, Github
<1>. QED  BY <1>2, <1>3

LEMMA PrepareKeeps ==
  ASSUME IInv, NEW s \in Sessions, Prepare(s)
  PROVE  IInv'
<1>. DEFINE r == RunOf(s)
<1>1. /\ session[s].pc = "prepare" /\ r \in Runs /\ r \in GithubRuns
      /\ publication[r] = NoPublication /\ CommitOf(s) \in Approved(r)
      /\ base[r] # NoCommit
  BY DEF Prepare, At, IInv, Holds, Knows, Unlocked, Github
<1>2. /\ session' \in [Sessions -> SessionRecords] /\ Mine(s)
      /\ LocksLeft(s) /\ Holds(s)'
      /\ session'[s].pc = "final" /\ RunOf(s)' = r
      /\ CommitOf(s)' = CommitOf(s) /\ session'[s].altered = {}
  BY <1>1, StaysInside DEF Prepare, SessionPcs, Unlocked, Waiting
<1>3. /\ DOMAIN publication' = Runs
      /\ publication'[r].commit = CommitOf(s)
      /\ publication'[r].result = "prepared"
      /\ \A q \in Runs : q # r => publication'[q] = publication[q]
      /\ UNCHANGED <<base, line, branch, localBranch, integration>>
  BY <1>1 DEF Prepare, RecordPreparation, IInv, Typed
<1>. HIDE DEF r
<1>4. Typed'
  BY <1>2, <1>3 DEF IInv, Typed, LocksLeft
<1>5. Knows(s)'
  BY <1>1, <1>2, <1>3 DEF Knows, Publishing, Committed, Github, Approved,
     Promotion!ApprovedCommits
<1>6. \A t \in Sessions : Holds(t)' /\ Knows(t)'
  BY <1>1, <1>2, <1>3, <1>5, OthersHold, OthersKnow DEF r, Unlocked
<1>7. PreparedIsApproved'
  BY <1>1, <1>3 DEF IInv, PreparedIsApproved, Approved,
     Promotion!ApprovedCommits
<1>8. RefsAreRecorded'
  <2>1. localBranch[r] \notin MadeFor(r) /\ branch[r] \notin MadeFor(r)
    BY <1>1, CommitsAreNew DEF IInv, RefsAreRecorded, NoPublication
  <2>. QED  BY <1>3, <2>1 DEF IInv, RefsAreRecorded, Runs
<1>9. RecordsTellTheTruth'
  BY <1>3 DEF IInv, RecordsTellTheTruth, Runs
<1>. QED  BY <1>4, <1>6, <1>7, <1>8, <1>9 DEF IInv

LEMMA MergeKeeps ==
  ASSUME IInv, NEW s \in Sessions, Merge(s)
  PROVE  IInv'
<1>. DEFINE r == RunOf(s)
<1>0. /\ session[s].pc = "merge" /\ r \in Runs /\ ~Github(s)
      /\ CommitOf(s) \in Approved(r) /\ base[r] # NoCommit
  BY DEF Merge, At, IInv, Holds, Knows, Unlocked, Committed
<1>1. CASE Abort(s) /\ UNCHANGED line
  BY <1>1, LeavingKeeps DEF Merge
<1>2. CASE /\ FastForward(s) /\ line' = Append(line, CommitOf(s))
           /\ Goto(s, "merged") /\ UNCHANGED locks
  <2>1. /\ session' \in [Sessions -> SessionRecords] /\ Mine(s)
        /\ LocksLeft(s) /\ Holds(s)'
        /\ session'[s].pc = "merged" /\ RunOf(s)' = r
        /\ CommitOf(s)' = CommitOf(s) /\ session'[s].altered = {}
    BY <1>0, <1>2, StaysInside DEF SessionPcs, Unlocked, Waiting
  <2>2. UNCHANGED <<base, branch, localBranch, integration, publication>>
    BY DEF Merge, records
  <2>3. CommitOf(s) \in Placed
    BY <1>0, CommitsAreNew DEF Github, Runs
  <2>4. Stands(CommitOf(s), r)'
    <3>1. Len(line) + 1 \in 2..Len(line')
      BY <1>2, <2>3 DEF IInv, Typed
    <3>2. line'[Len(line) + 1] = CommitOf(s) /\ line'[Len(line)] = base[r]
      BY <1>2, <2>3 DEF IInv, Typed, FastForward, Tip
    <3>3. (Len(line) + 1) - 1 = Len(line)
      BY DEF IInv, Typed
    <3>. QED  BY <2>1, <2>2, <3>1, <3>2, <3>3 DEF Stands
  <2>5. Typed'
    BY <1>2, <2>1, <2>2, <2>3 DEF IInv, Typed, LocksLeft
  <2>6. Knows(s)'
    BY <1>0, <2>1, <2>2, <2>4 DEF Knows, Publishing, Committed, Github,
       Approved, Promotion!ApprovedCommits
  <2>7. \A t \in Sessions : Holds(t)' /\ Knows(t)'
    BY <1>0, <1>2, <2>1, <2>2, <2>3, <2>6, OthersHold, OthersKnow
       DEF Unlocked
  <2>8. PreparedIsApproved' /\ RefsAreRecorded'
    BY <2>2 DEF IInv, PreparedIsApproved, RefsAreRecorded, Approved,
       Promotion!ApprovedCommits
  <2>9. RecordsTellTheTruth'
    <3>1. \A q \in Runs : Stands(integration[q], q) =>
                            Stands(integration[q], q)'
      BY <1>2, <2>2, <2>3, HistoryGrows DEF IInv
    <3>. QED  BY <2>2, <3>1 DEF IInv, RecordsTellTheTruth, Stands, Runs
  <2>. QED  BY <2>5, <2>7, <2>8, <2>9 DEF IInv
<1>. QED  BY <1>1, <1>2 DEF Merge

LEMMA RecordIntegrationKeeps ==
  ASSUME IInv, NEW s \in Sessions, RecordIntegration(s)
  PROVE  IInv'
<1>. DEFINE r == RunOf(s)
<1>0. /\ session[s].pc = "merged" /\ r \in Runs
      /\ CommitOf(s) \in Approved(r) /\ Stands(CommitOf(s), r)
  BY DEF RecordIntegration, At, IInv, Holds, Knows, Unlocked, Committed
<1>1. CASE Abort(s) /\ UNCHANGED integration
  BY <1>1, LeavingKeeps DEF RecordIntegration, records
<1>2. CASE /\ integration' = [integration EXCEPT ![RunOf(s)] = CommitOf(s)]
           /\ Finish(s)
  <2>1. /\ session' \in [Sessions -> SessionRecords] /\ Mine(s)
        /\ LocksLeft(s) /\ Holds(s)' /\ Knows(s)'
    BY <1>2, LeavesBehind
  <2>2. UNCHANGED <<base, line, branch, localBranch, publication>>
    BY DEF RecordIntegration
  <2>3. /\ integration' \in [Runs -> Commits \cup {NoCommit}]
        /\ integration'[r] = CommitOf(s)
        /\ \A q \in Runs : q # r => integration'[q] = integration[q]
    BY <1>0, <1>2, CommitsAreNew DEF IInv, Typed
  <2>. HIDE DEF r
  <2>4. Typed'
    BY <2>1, <2>2, <2>3 DEF IInv, Typed, LocksLeft
  <2>5. \A t \in Sessions : Holds(t)' /\ Knows(t)'
    BY <1>0, <2>1, <2>2, OthersHold, OthersKnow DEF Unlocked
  <2>6. PreparedIsApproved' /\ RefsAreRecorded'
    BY <2>2 DEF IInv, PreparedIsApproved, RefsAreRecorded, Approved,
       Promotion!ApprovedCommits
  <2>7. RecordsTellTheTruth'
    BY <1>0, <2>2, <2>3 DEF IInv, RecordsTellTheTruth, Stands, Runs
  <2>. QED  BY <2>4, <2>5, <2>6, <2>7 DEF IInv
<1>. QED  BY <1>1, <1>2 DEF RecordIntegration

(* The prepared commit becomes the local branch, then the remote one.      *)
LEMMA UpdateRefKeeps ==
  ASSUME IInv, NEW s \in Sessions, UpdateRef(s)
  PROVE  IInv'
<1>. DEFINE r == RunOf(s)
<1>0. /\ session[s].pc = "localBranch" /\ r \in Runs /\ Github(s)
      /\ CommitOf(s) \in Approved(r) /\ publication[r].commit = CommitOf(s)
      /\ base[r] # NoCommit
  BY DEF UpdateRef, At, IInv, Holds, Knows, Unlocked, Committed, Publishing
<1>1. CASE Abort(s) /\ UNCHANGED localBranch
  BY <1>1, LeavingKeeps DEF UpdateRef
<1>2. CASE /\ localBranch' = [localBranch EXCEPT ![RunOf(s)] = CommitOf(s)]
           /\ Goto(s, "remote") /\ UNCHANGED locks
  <2>1. /\ session' \in [Sessions -> SessionRecords] /\ Mine(s)
        /\ LocksLeft(s) /\ Holds(s)'
        /\ session'[s].pc = "remote" /\ RunOf(s)' = r
        /\ CommitOf(s)' = CommitOf(s) /\ session'[s].altered = {}
    BY <1>0, <1>2, StaysInside DEF SessionPcs, Unlocked, Waiting
  <2>2. UNCHANGED <<base, line, branch, integration, publication>>
    BY DEF UpdateRef, records
  <2>3. /\ localBranch' \in [Runs -> Commits \cup {NoCommit}]
        /\ localBranch'[r] = CommitOf(s)
        /\ \A q \in Runs : q # r => localBranch'[q] = localBranch[q]
    BY <1>0, <1>2, CommitsAreNew DEF IInv, Typed
  <2>. HIDE DEF r
  <2>4. Typed'
    <3>1. Typed /\ DOMAIN runLock' = Runs
      BY <2>1 DEF IInv, LocksLeft
    <3>2. /\ base' = base /\ line' = line /\ branch' = branch
          /\ integration' = integration /\ publication' = publication
      BY <2>2
    <3>3. /\ session' \in [Sessions -> SessionRecords]
          /\ localBranch' \in [Runs -> Commits \cup {NoCommit}]
      BY <2>1, <2>3
    <3>4. \A q \in Runs : localBranch'[q] \in MadeFor(q) \cup {NoCommit}
      <4>1. CommitOf(s) \in MadeFor(r)
        BY <1>0, CommitsAreNew
      <4>. QED  BY <2>3, <3>1, <4>1 DEF Typed
    <3>. QED  BY <3>1, <3>2, <3>3, <3>4, Zenon DEF Typed
  <2>5. Knows(s)'
    <3>1. /\ base'[r] = base[r] /\ publication'[r] = publication[r]
          /\ Approved(r)' = Approved(r) /\ Github(s)'
      BY <1>0, <2>1, <2>2 DEF Approved, Promotion!ApprovedCommits, Github, r
    <3>. QED  BY <1>0, <2>1, <3>1 DEF Knows, Publishing, Committed
  <2>6. \A t \in Sessions : Holds(t)' /\ Knows(t)'
    BY <1>0, <2>1, <2>2, <2>5, OthersHold, OthersKnow DEF Unlocked
  <2>7. PreparedIsApproved' /\ RecordsTellTheTruth'
    BY <2>2 DEF IInv, PreparedIsApproved, RecordsTellTheTruth, Approved,
       Promotion!ApprovedCommits
  <2>8. RefsAreRecorded'
    BY <1>0, <2>2, <2>3 DEF IInv, RefsAreRecorded, Runs
  <2>. QED  BY <2>4, <2>6, <2>7, <2>8 DEF IInv
<1>. QED  BY <1>1, <1>2 DEF UpdateRef

LEMMA PushKeeps ==
  ASSUME IInv, NEW s \in Sessions, Push(s)
  PROVE  IInv'
<1>. DEFINE r == RunOf(s)
<1>0. /\ session[s].pc = "push" /\ r \in Runs /\ Github(s)
      /\ CommitOf(s) \in Approved(r) /\ publication[r].commit = CommitOf(s)
      /\ base[r] # NoCommit
      /\ UNCHANGED <<base, line, localBranch, integration, publication>>
  BY DEF Push, At, IInv, Holds, Knows, Unlocked, Committed, Publishing,
     records
<1>1. CASE UNCHANGED branch
  <2>1. CASE Goto(s, "confirm") /\ UNCHANGED locks
    <3>1. /\ session' \in [Sessions -> SessionRecords] /\ Mine(s)
          /\ LocksLeft(s) /\ Holds(s)'
          /\ session'[s].pc = "confirm" /\ RunOf(s)' = r
          /\ CommitOf(s)' = CommitOf(s) /\ session'[s].altered = {}
      BY <1>0, <2>1, StaysInside DEF SessionPcs, Unlocked, Waiting
    <3>2. Knows(s)'
      BY <1>0, <1>1, <3>1 DEF Knows, Publishing, Committed, Github, Approved,
         Promotion!ApprovedCommits
    <3>. QED  BY <1>0, <1>1, <3>1, <3>2, SessionStepKeeps DEF records
  <2>. QED  BY <1>0, <1>1, <2>1, LeavingKeeps DEF Push, records
<1>2. CASE branch' = [branch EXCEPT ![RunOf(s)] = CommitOf(s)]
  <2>1. /\ session' \in [Sessions -> SessionRecords] /\ Mine(s)
        /\ LocksLeft(s) /\ Holds(s)' /\ Knows(s)'
    <3>1. CASE Goto(s, "confirm") /\ UNCHANGED locks
      <4>1. /\ session' \in [Sessions -> SessionRecords] /\ Mine(s)
            /\ LocksLeft(s) /\ Holds(s)'
            /\ session'[s].pc = "confirm" /\ RunOf(s)' = r
            /\ CommitOf(s)' = CommitOf(s) /\ session'[s].altered = {}
        BY <1>0, <3>1, StaysInside DEF SessionPcs, Unlocked, Waiting
      <4>. QED
        BY <1>0, <4>1 DEF Knows, Publishing, Committed, Github, Approved,
           Promotion!ApprovedCommits
    <3>. QED  BY <3>1, LeavesBehind DEF Push
  <2>2. /\ branch' \in [Runs -> Refs]
        /\ branch'[r] = CommitOf(s)
        /\ \A q \in Runs : q # r => branch'[q] = branch[q]
    <3>1. CommitOf(s) \in Refs
      BY <1>0, CommitsAreNew DEF Refs
    <3>. QED  BY <1>0, <1>2, <3>1 DEF IInv, Typed
  <2>. HIDE DEF r
  <2>3. Typed'
    BY <1>0, <2>1, <2>2 DEF IInv, Typed, LocksLeft
  <2>4. \A t \in Sessions : Holds(t)' /\ Knows(t)'
    BY <1>0, <2>1, <2>2, OthersHold, OthersKnow DEF Unlocked, r
  <2>5. PreparedIsApproved'
    BY <1>0 DEF IInv, PreparedIsApproved, Approved, Promotion!ApprovedCommits
  <2>6. RefsAreRecorded' /\ RecordsTellTheTruth'
    BY <1>0, <2>2 DEF IInv, RefsAreRecorded, RecordsTellTheTruth, Runs
  <2>. QED  BY <2>3, <2>4, <2>5, <2>6 DEF IInv
<1>. QED  BY <1>1, <1>2 DEF Push

LEMMA RecordPublicationKeeps ==
  ASSUME IInv, NEW s \in Sessions, RecordPublication(s)
  PROVE  IInv'
<1>. DEFINE r == RunOf(s)
<1>0. /\ session[s].pc = "publish" /\ r \in Runs /\ Github(s)
      /\ CommitOf(s) \in Approved(r) /\ publication[r].commit = CommitOf(s)
      /\ branch[r] = CommitOf(s)
      /\ UNCHANGED <<base, line, branch, localBranch, integration>>
  BY DEF RecordPublication, At, IInv, Holds, Knows, Unlocked, Committed,
     Publishing
<1>1. /\ session' \in [Sessions -> SessionRecords] /\ Mine(s)
      /\ LocksLeft(s) /\ Holds(s)' /\ Knows(s)'
  BY LeavesBehind DEF RecordPublication
<1>2. /\ DOMAIN publication' = Runs
      /\ publication'[r].commit = CommitOf(s)
      /\ \A q \in Runs : q # r => publication'[q] = publication[q]
  BY <1>0 DEF RecordPublication, IInv, Typed
<1>. HIDE DEF r
<1>3. Typed'
  BY <1>0, <1>1, <1>2 DEF IInv, Typed, LocksLeft
<1>4. \A t \in Sessions : Holds(t)' /\ Knows(t)'
  BY <1>0, <1>1, <1>2, OthersHold, OthersKnow DEF Unlocked, r
<1>5. PreparedIsApproved'
  BY <1>0, <1>2 DEF IInv, PreparedIsApproved, Approved,
     Promotion!ApprovedCommits
<1>6. RefsAreRecorded' /\ RecordsTellTheTruth'
  BY <1>0, <1>2 DEF IInv, RefsAreRecorded, RecordsTellTheTruth, Runs
<1>. QED  BY <1>3, <1>4, <1>5, <1>6 DEF IInv

-----------------------------------------------------------------------------
(* Approvals and other people: no session, lock or record is touched.      *)
LEMMA WorldKeeps ==
  ASSUME IInv, OthersWork \/ \E r \in Runs : ApproveRun(r)
  PROVE  IInv'
<1>1. UNCHANGED <<session, runLock, repoLock, localBranch, integration,
                  publication>>
  BY DEF OthersWork, ApproveRun, locks, records
<1>2. /\ base' \in [Runs -> Placed \cup {NoCommit}]
      /\ \A r \in Runs : base[r] # NoCommit => base'[r] = base[r]
  <2>1. CASE UNCHANGED base
    BY <2>1 DEF IInv, Typed
  <2>2. CASE \E r \in Runs : ApproveRun(r)
    <3>1. Promotion!Tip \in Placed
      BY DEF IInv, Typed, Promotion!Tip
    <3>. QED
      BY <2>2, <3>1 DEF ApproveRun, Promotion!Approve, IInv, Typed
  <2>. QED
    BY <2>1, <2>2 DEF OthersWork, Promotion!OthersCommit,
       Promotion!OthersTakeBranch
<1>3. line' = line \/ \E d \in Placed :
                        line' = Append(line, d)
  BY DEF OthersWork, ApproveRun, Promotion!Approve, Promotion!OthersCommit,
     Promotion!OthersTakeBranch, Placed
<1>4. /\ branch' \in [Runs -> Refs]
      /\ \A r \in Runs :
           \/ branch'[r] = branch[r]
           \/ /\ r \in GithubRuns /\ branch[r] = NoCommit
              /\ branch'[r] \in Placed
  <2>1. CASE UNCHANGED branch
    BY <2>1 DEF IInv, Typed
  <2>2. CASE \E r \in Runs : Promotion!OthersTakeBranch(r)
    <3>1. Promotion!History(line) \subseteq Placed
      BY DEF IInv, Typed, Promotion!History
    <3>2. Foreign \cup Promotion!History(line) \subseteq Placed
      BY <3>1 DEF Placed
    <3>. QED
      BY <2>2, <3>2, CommitsAreNew DEF Promotion!OthersTakeBranch, IInv, Typed
  <2>. QED
    BY <2>1, <2>2 DEF OthersWork, ApproveRun, Promotion!Approve,
       Promotion!OthersCommit
<1>5. Typed'
  <2>1. line' \in Seq(Placed) /\ Len(line') > 0
    <3>1. line \in Seq(Placed) /\ Len(line) > 0
      BY DEF IInv, Typed
    <3>2. ASSUME NEW d \in Placed,
                 line' = Append(line, d)
          PROVE  line' \in Seq(Placed) /\ Len(line') > 0
      BY <3>1, <3>2
    <3>. QED  BY <1>3, <3>1, <3>2
  <2>2. Typed
    BY DEF IInv
  <2>. QED  BY <1>1, <1>2, <1>4, <2>1, <2>2 DEF Typed
<1>6. \A r \in Runs, c \in Commits :
        base[r] # NoCommit /\ Stands(c, r) => Stands(c, r)'
  BY <1>2, <1>3, HistoryGrows DEF IInv
<1>7. \A s \in Sessions : Holds(s)' /\ Knows(s)'
  <2>. SUFFICES ASSUME NEW s \in Sessions PROVE Holds(s)' /\ Knows(s)'
    OBVIOUS
  <2>1. Holds(s)'
    BY <1>1 DEF IInv, Holds, RunOf
  <2>0. Knows(s) /\ session'[s] = session[s]
    BY <1>1 DEF IInv
  <2>2. CASE session[s].pc \in Unlocked
    BY <2>0, <2>1, <2>2 DEF Knows, Unlocked, Publishing, Committed
  <2>3. CASE session[s].pc \notin Unlocked
    <3>1. /\ RunOf(s) \in Runs /\ base[RunOf(s)] # NoCommit
          /\ session[s].pc \in Committed =>
               CommitOf(s) \in Commits /\ CommitOf(s) # NoCommit
      BY <2>0, <2>3, CommitsAreNew DEF IInv, Holds, Knows
    <3>2. /\ RunOf(s)' = RunOf(s) /\ CommitOf(s)' = CommitOf(s)
          /\ Approved(RunOf(s))' = Approved(RunOf(s))
          /\ Github(s)' = Github(s) /\ base'[RunOf(s)] = base[RunOf(s)]
          /\ publication'[RunOf(s)] = publication[RunOf(s)]
      BY <1>1, <1>2, <3>1 DEF RunOf, CommitOf, Github, Approved,
         Promotion!ApprovedCommits
    <3>3. session[s].pc = "publish" => branch'[RunOf(s)] = CommitOf(s)
      BY <1>4, <2>0, <3>1 DEF Knows, Committed, Publishing
    <3>4. session[s].pc = "merged" => Stands(CommitOf(s), RunOf(s))'
      <4>. SUFFICES ASSUME session[s].pc = "merged"
                    PROVE  Stands(CommitOf(s), RunOf(s))'
        OBVIOUS
      <4>1. Stands(CommitOf(s), RunOf(s)) /\ CommitOf(s) \in Commits
        BY <2>0, <3>1 DEF Knows, Committed
      <4>. QED  BY <1>6, <3>1, <3>2, <4>1 DEF Stands
    <3>5. session'[s].pc = session[s].pc /\ session'[s].altered = {}
      BY <2>0 DEF Knows
    <3>6. Knows(s)'
      BY <2>0, <3>1, <3>2, <3>3, <3>4, <3>5, Zenon DEF Knows
    <3>. QED  BY <2>1, <3>6
  <2>. QED  BY <2>1, <2>2, <2>3
<1>8. PreparedIsApproved'
  BY <1>1 DEF IInv, PreparedIsApproved, Approved, Promotion!ApprovedCommits
<1>9. RefsAreRecorded'
  BY <1>1, <1>4, CommitsAreNew DEF IInv, RefsAreRecorded, Runs
<1>10. RecordsTellTheTruth'
  <2>1. \A r \in GithubRuns :
          publication[r].result = "branch_published" =>
            branch[r] = publication[r].commit /\ branch[r] # NoCommit
    BY CommitsAreNew DEF IInv, RecordsTellTheTruth, PreparedIsApproved, Runs,
       NoPublication
  <2>2. \A r \in LocalRuns :
          integration[r] # NoCommit =>
            /\ integration[r] \in Commits /\ base[r] # NoCommit
            /\ Stands(integration[r], r)
    BY CommitsAreNew DEF IInv, RecordsTellTheTruth, Typed, Stands, Runs
  <2>. QED
    BY <1>1, <1>4, <1>6, <2>1, <2>2 DEF RecordsTellTheTruth, Stands, Runs
<1>. QED  BY <1>5, <1>7, <1>8, <1>9, <1>10 DEF IInv

LEMMA StepKeeps == IInv /\ [Next]_vars => IInv'
<1>. SUFFICES ASSUME IInv, [Next]_vars PROVE IInv'
  OBVIOUS
<1>1. ASSUME NEW s \in Sessions, Begin(s) \/ Step(s) \/ Kill(s) PROVE IInv'
  <2>1. CASE Report(s) \/ Kill(s)
    BY <2>1, LeavingKeeps DEF Report, Kill
  <2>. QED
    BY <1>1, <2>1, BeginKeeps, LookingKeeps, InspectGithubKeeps,
       ReadEntryKeeps, CommitTreeKeeps, PrepareKeeps, MergeKeeps,
       RecordIntegrationKeeps, UpdateRefKeeps, PushKeeps,
       RecordPublicationKeeps DEF Step
<1>2. CASE UNCHANGED vars
  BY <1>2 DEF vars, others, records, locks, IInv, Typed, PreparedIsApproved,
     Holds, Knows, RunOf, CommitOf, Github, Stands, RefsAreRecorded,
     RecordsTellTheTruth, Approved, Promotion!ApprovedCommits
<1>. QED  BY <1>1, <1>2, WorldKeeps DEF Next

-----------------------------------------------------------------------------
(* The invariant of sessions, locks, records, refs and history.            *)
THEOREM Invariance == Spec => []IInv
BY InitHolds, StepKeeps, PTL DEF Spec

(* publish_reviewed_branch: a ref never names a commit of a run that its   *)
(* record does not name, so a crash leaves a publication to be resumed.    *)
THEOREM RefsHaveRecords == Spec => []RefsAreRecorded
<1>1. IInv => RefsAreRecorded
  BY DEF IInv
<1>. QED  BY <1>1, Invariance, PTL

(* integration.json and github_branch.json say what has happened.          *)
THEOREM RecordsAreTrue == Spec => []RecordsTellTheTruth
<1>1. IInv => RecordsTellTheTruth
  BY DEF IInv
<1>. QED  BY <1>1, Invariance, PTL

(* Every step of the two commands is a step of Promotion, or none.         *)
LEMMA StepImplements ==
  ASSUME IInv, [Next]_vars
  PROVE  [Promotion!Next]_<<base, line, branch>>
<1>1. ASSUME NEW s \in Sessions, Merge(s)
      PROVE  [Promotion!Next]_<<base, line, branch>>
  <2>1. CASE UNCHANGED line
    BY <1>1, <2>1 DEF Merge
  <2>2. CASE FastForward(s) /\ line' = Append(line, CommitOf(s))
    <3>1. /\ RunOf(s) \in LocalRuns /\ RunOf(s) \in Promotion!Runs
          /\ CommitOf(s) \in Promotion!ApprovedCommits(RunOf(s))
      BY <1>1 DEF Merge, At, IInv, Holds, Knows, Unlocked, Committed, Github,
         Runs, Promotion!Runs, Approved
    <3>2. Promotion!Integrate(RunOf(s))
      BY <1>1, <2>2, <3>1 DEF Merge, FastForward, Tip, Promotion!Integrate,
         Promotion!Tip
    <3>. QED  BY <3>1, <3>2 DEF Promotion!Next
  <2>. QED  BY <1>1, <2>1, <2>2 DEF Merge
<1>2. ASSUME NEW s \in Sessions, Push(s)
      PROVE  [Promotion!Next]_<<base, line, branch>>
  <2>1. CASE UNCHANGED branch
    BY <1>2, <2>1 DEF Push
  <2>2. CASE /\ PushAccepted(s)
             /\ branch' = [branch EXCEPT ![RunOf(s)] = CommitOf(s)]
    <3>1. /\ RunOf(s) \in GithubRuns /\ RunOf(s) \in Promotion!Runs
          /\ CommitOf(s) \in Promotion!ApprovedCommits(RunOf(s))
          /\ base[RunOf(s)] # NoCommit
      BY <1>2 DEF Push, At, IInv, Holds, Knows, Unlocked, Committed,
         Publishing, Github, Runs, Promotion!Runs, Approved
    <3>2. CASE branch[RunOf(s)] = CommitOf(s)
      BY <1>2, <2>2, <3>1, <3>2 DEF Push, IInv, Typed
    <3>3. CASE branch[RunOf(s)] = NoCommit
      <4>1. Promotion!Publish(RunOf(s))
        BY <1>2, <2>2, <3>1, <3>3 DEF Push, Promotion!Publish
      <4>. QED  BY <3>1, <4>1 DEF Promotion!Next
    <3>4. CASE branch[RunOf(s)] \in Promotion!UpTo(RunOf(s))
      <4>1. Promotion!Publish(RunOf(s))
        BY <1>2, <2>2, <3>1, <3>4 DEF Push, Promotion!Publish
      <4>. QED  BY <3>1, <4>1 DEF Promotion!Next
    <3>. QED  BY <2>2, <3>2, <3>3, <3>4 DEF PushAccepted
  <2>. QED  BY <1>2, <2>1, <2>2 DEF Push
<1>3. ASSUME NEW s \in Sessions, Begin(s) \/ Step(s) \/ Kill(s),
             ~Merge(s), ~Push(s)
      PROVE  UNCHANGED <<base, line, branch>>
  BY <1>3 DEF Step, Begin, Verify, LockRepository, InspectLocal,
     InspectGithub, ReadEntry, CommitTree, Prepare, FinalVerification,
     RecordIntegration, UpdateRef, ReadRemote, Confirm, RecordPublication,
     Report, Kill
<1>4. CASE OthersWork \/ \E r \in Runs : ApproveRun(r)
  BY <1>4 DEF OthersWork, ApproveRun, Promotion!Next, Runs, Promotion!Runs
<1>5. CASE UNCHANGED vars
  BY <1>5 DEF vars
<1>. QED  BY <1>1, <1>2, <1>3, <1>4, <1>5 DEF Next

(* integrate and the publication only ever promote an approved snapshot,   *)
(* onto the commit it was reviewed against, and what others pushed to a    *)
(* dedicated branch is never lost, although a push that finds the branch   *)
(* at the base commit or before it moves it.                               *)
THEOREM Implements == Spec => ImplementsPromotion
<1>1. Init => Promotion!Init
  BY DEF Init
<1>2. IInv /\ [Next]_vars => [Promotion!Next]_<<base, line, branch>>
  BY StepImplements
<1>. QED
  BY <1>1, <1>2, Invariance, PTL DEF Spec, ImplementsPromotion, Promotion!Spec

-----------------------------------------------------------------------------
(* A repository that publishes dedicated branches, and whose canonical     *)
(* branch, worktrees and remote nobody else changes: history is the base   *)
(* of every run, and a ref holds what the record of its run names.         *)
QuietInv ==
  /\ line = <<Root>> /\ remoteBase = Root /\ ~dirty
  /\ drifted = [r \in Runs |-> {}]
  /\ \A r \in Runs : /\ base[r] \in {Root, NoCommit}
                     /\ branch[r] \in MadeFor(r) \cup {NoCommit}
  /\ \A s \in Sessions : At(s, "confirm") => OnRemote(s)
  /\ PublicationResumes

LEMMA InitIsQuiet == Init => QuietInv
BY CommitsAreNew DEF Init, Promotion!Init, QuietInv, PublicationResumes, At,
   Idle, Runs, Promotion!Runs

(* What the checks of a session find in such a repository.                 *)
LEMMA QuietRepository ==
  ASSUME LocalRuns = {}, IInv, QuietInv, NEW s \in Sessions,
         session[s].pc \notin Unlocked
  PROVE  /\ Github(s) /\ RunOf(s) \in Runs
         /\ base[RunOf(s)] = Root /\ Tip = Root
         /\ Matches(RunOf(s)) /\ Canonical(RunOf(s))
<1>1. RunOf(s) \in Runs /\ base[RunOf(s)] # NoCommit
  BY DEF IInv, Holds, Knows
<1>2. RunOf(s) \in GithubRuns
  BY <1>1 DEF Runs
<1>3. Tip = Root
  BY DEF QuietInv, Tip
<1>. QED  BY <1>1, <1>2, <1>3 DEF QuietInv, Github, Matches, Canonical

(* A ref of its run, once there is one, is the commit of the session.      *)
LEMMA QuietRefs ==
  ASSUME LocalRuns = {}, IInv, QuietInv, NEW s \in Sessions,
         session[s].pc \in Publishing
  PROVE  /\ localBranch[RunOf(s)] \in {NoCommit, CommitOf(s)}
         /\ branch[RunOf(s)] \in {NoCommit, CommitOf(s)}
<1>1. RunOf(s) \in Runs /\ RunOf(s) \in GithubRuns
  BY QuietRepository DEF Publishing, Unlocked, Github
<1>2. publication[RunOf(s)].commit = CommitOf(s)
  BY <1>1 DEF IInv, Knows, Committed, Github
<1>3. /\ localBranch[RunOf(s)] \in MadeFor(RunOf(s)) \cup {NoCommit}
      /\ branch[RunOf(s)] \in MadeFor(RunOf(s)) \cup {NoCommit}
  BY <1>1 DEF IInv, Typed, QuietInv
<1>. QED  BY <1>1, <1>2, <1>3 DEF IInv, RefsAreRecorded

LEMMA QuietSession ==
  ASSUME IInv, QuietInv, NEW s \in Sessions, Mine(s),
         UNCHANGED <<base, line, branch, others>>,
         At(s, "confirm")' => OnRemote(s)',
         At(s, "aborted")' => session'[s].offline
  PROVE  QuietInv'
<1>1. ASSUME NEW t \in Sessions, t # s
      PROVE  /\ (At(t, "confirm") => OnRemote(t))'
             /\ (At(t, "aborted") /\ Github(t) => session[t].offline)'
  BY <1>1 DEF QuietInv, PublicationResumes, Mine, At, OnRemote, RunOf,
     CommitOf, Github
<1>. QED  BY <1>1 DEF QuietInv, PublicationResumes, others

LEMMA QuietGoes ==
  ASSUME IInv, QuietInv, NEW s \in Sessions,
         UNCHANGED <<base, line, branch, others>>,
         \/ Finish(s)
         \/ \E label \in SessionPcs :
              /\ Goto(s, label) /\ label # "aborted"
              /\ label = "confirm" => OnRemote(s)
  PROVE  QuietInv'
<1>1. CASE Finish(s)
  BY <1>1, QuietSession DEF Finish, Idle, IInv, Typed, Mine, At
<1>2. ASSUME NEW label \in SessionPcs, Goto(s, label), label # "aborted",
             label = "confirm" => OnRemote(s)
      PROVE  QuietInv'
  <2>1. /\ Mine(s) /\ session'[s].pc = label /\ RunOf(s)' = RunOf(s)
        /\ CommitOf(s)' = CommitOf(s)
    BY <1>2, GoesTo
  <2>. QED  BY <1>2, <2>1, QuietSession DEF At, OnRemote
<1>. QED  BY <1>1, <1>2

LEMMA QuietPush ==
  ASSUME LocalRuns = {}, IInv, QuietInv, NEW s \in Sessions, Push(s)
  PROVE  QuietInv'
<1>1. /\ At(s, "push") /\ PushAccepted(s)
      /\ RunOf(s) \in Runs /\ session[s].pc \notin Unlocked
      /\ CommitOf(s) \in MadeFor(RunOf(s))
  <2>1. /\ session[s].pc \in Publishing /\ session[s].pc \notin Unlocked
        /\ session[s].pc \in Committed
    BY DEF Push, At, Publishing, Committed, Unlocked
  <2>2. CommitOf(s) \in MadeFor(RunOf(s))
    BY <2>1, CommitsAreNew, QuietRepository DEF IInv, Knows
  <2>. QED
    BY <2>1, <2>2, QuietRefs, QuietRepository, CommitsAreNew
       DEF Push, PushAccepted
<1>2. /\ Mine(s) /\ RunOf(s)' = RunOf(s) /\ CommitOf(s)' = CommitOf(s)
      /\ \/ /\ session'[s].pc = "confirm"
            /\ branch' = [branch EXCEPT ![RunOf(s)] = CommitOf(s)]
         \/ /\ session'[s].pc = "aborted" /\ session'[s].offline
            /\ \/ branch' = [branch EXCEPT ![RunOf(s)] = CommitOf(s)]
               \/ UNCHANGED branch
  <2>1. CASE /\ Goto(s, "confirm")
             /\ branch' = [branch EXCEPT ![RunOf(s)] = CommitOf(s)]
    <3>1. /\ Mine(s) /\ session'[s].pc = "confirm" /\ RunOf(s)' = RunOf(s)
          /\ CommitOf(s)' = CommitOf(s)
      BY <2>1, GoesTo DEF SessionPcs
    <3>. QED  BY <2>1, <3>1
  <2>2. CASE session' = [session EXCEPT ![s].pc = "aborted",
                                        ![s].offline = TRUE]
    <3>1. session \in [Sessions -> SessionRecords]
      BY DEF IInv, Typed
    <3>2. /\ Mine(s) /\ session'[s].pc = "aborted" /\ session'[s].offline
          /\ session'[s].run = session[s].run
          /\ session'[s].commit = session[s].commit
      BY <2>2, <3>1 DEF SessionRecords, Mine
    <3>3. \/ branch' = [branch EXCEPT ![RunOf(s)] = CommitOf(s)]
          \/ UNCHANGED branch
      BY DEF Push
    <3>. QED  BY <3>2, <3>3 DEF RunOf, CommitOf
  <2>. QED  BY <1>1, <2>1, <2>2 DEF Push
<1>3. /\ UNCHANGED <<base, line, others>>
      /\ branch \in [Runs -> Refs]
  BY DEF Push, IInv, Typed
<1>4. ASSUME NEW t \in Sessions, t # s
      PROVE  /\ (At(t, "confirm") => OnRemote(t))'
             /\ (At(t, "aborted") /\ Github(t) => session[t].offline)'
  <2>1. session'[t] = session[t] /\ RunOf(t)' = RunOf(t)
        /\ CommitOf(t)' = CommitOf(t)
    BY <1>2, <1>4 DEF Mine, RunOf, CommitOf
  <2>2. At(t, "confirm") =>
          OnRemote(t) /\ RunOf(t) # RunOf(s) /\ RunOf(t) \in Runs
    BY <1>1, <1>4, RunIsOwned DEF At, Unlocked, QuietInv
  <2>3. RunOf(t) # RunOf(s) /\ RunOf(t) \in Runs =>
          branch'[RunOf(t)] = branch[RunOf(t)]
    BY <1>1, <1>2, <1>3
  <2>4. (At(t, "confirm") => OnRemote(t))'
    BY <2>1, <2>2, <2>3 DEF At, OnRemote
  <2>. QED  BY <2>1, <2>4 DEF QuietInv, PublicationResumes, At, Github
<1>5. /\ (At(s, "confirm") => OnRemote(s))'
      /\ (At(s, "aborted") /\ Github(s) => session[s].offline)'
  BY <1>1, <1>2, <1>3 DEF At, OnRemote
<1>6. \A r \in Runs : branch'[r] \in MadeFor(r) \cup {NoCommit}
  BY <1>1, <1>2, <1>3 DEF QuietInv
<1>. QED
  BY <1>3, <1>4, <1>5, <1>6 DEF QuietInv, PublicationResumes, others

LEMMA QuietSteps ==
  ASSUME LocalRuns = {}, IInv, QuietInv, NEW s \in Sessions,
         Begin(s) \/ Step(s) \/ Kill(s)
  PROVE  QuietInv'
<1>1. CASE Begin(s)
  <2>1. PICK r \in Runs :
          session' = [session EXCEPT ![s].pc = "verify", ![s].run = r]
    BY <1>1 DEF Begin
  <2>2. session \in [Sessions -> SessionRecords] /\ "verify" \in SessionPcs
    BY DEF IInv, Typed, SessionPcs
  <2>3. Mine(s) /\ session'[s].pc = "verify"
    BY <2>1, <2>2, GoesForRun, Zenon DEF Mine
  <2>. QED  BY <1>1, <2>3, QuietSession DEF Begin, At
<1>2. CASE Verify(s) \/ LockRepository(s) \/ FinalVerification(s)
  <2>1. Github(s) /\ Matches(RunOf(s)) /\ Canonical(RunOf(s))
    BY <1>2, QuietRepository
       DEF Verify, LockRepository, FinalVerification, At, Unlocked
  <2>. QED
    BY <1>2, <2>1, QuietGoes
       DEF Verify, LockRepository, FinalVerification, Require, SessionPcs
<1>3. CASE InspectLocal(s) \/ Merge(s) \/ RecordIntegration(s)
  BY <1>3, QuietRepository
     DEF InspectLocal, Merge, RecordIntegration, At, Unlocked, IInv, Knows
<1>4. CASE InspectGithub(s)
  <2>1. Canonical(RunOf(s)) /\ remoteBase = base[RunOf(s)]
    BY <1>4, QuietRepository DEF InspectGithub, At, Unlocked, QuietInv
  <2>2. \/ StartBuilding(s)
        \/ session' = [session EXCEPT ![s].pc = "final",
                         ![s].commit = publication[RunOf(s)].commit]
    BY <1>4, <2>1 DEF InspectGithub
  <2>3. Mine(s) /\ session'[s].pc \in {"build", "final"}
    BY <2>2 DEF StartBuilding, IInv, Typed, SessionRecords, Mine
  <2>. QED  BY <1>4, <2>3, QuietSession DEF InspectGithub, At
<1>5. CASE ReadEntry(s)
  <2>1. Matches(RunOf(s)) /\ At(s, "build")
    BY <1>5, QuietRepository DEF ReadEntry, At, Unlocked
  <2>2. PICK f \in session[s].left :
          session' = [session EXCEPT ![s].left = @ \ {f}]
    BY <1>5, <2>1 DEF ReadEntry, ReviewedBytes, Matches
  <2>3. Mine(s) /\ session'[s].pc = "build"
    BY <2>1, <2>2 DEF IInv, Typed, SessionRecords, Mine, At
  <2>. QED  BY <1>5, <2>3, QuietSession DEF ReadEntry, At
<1>6. CASE CommitTree(s)
  <2>1. Mine(s) /\ session'[s].pc \in {"prepare", "final"}
    <3>1. session \in [Sessions -> SessionRecords]
      BY DEF IInv, Typed
    <3>. QED  BY <1>6, <3>1 DEF CommitTree, SessionRecords, Mine
  <2>. QED  BY <1>6, <2>1, QuietSession DEF CommitTree, At
<1>7. CASE Prepare(s)
  BY <1>7, QuietGoes DEF Prepare, SessionPcs
<1>8. CASE UpdateRef(s)
  <2>1. localBranch[RunOf(s)] \in {NoCommit, CommitOf(s)}
    BY <1>8, QuietRefs DEF UpdateRef, At, Publishing
  <2>. QED  BY <1>8, <2>1, QuietGoes DEF UpdateRef, SessionPcs
<1>9. CASE ReadRemote(s)
  <2>1. branch[RunOf(s)] \in {NoCommit, CommitOf(s)}
    BY <1>9, QuietRefs DEF ReadRemote, At, Publishing
  <2>. QED  BY <1>9, <2>1, QuietGoes DEF ReadRemote, OnRemote, SessionPcs
<1>10. CASE Push(s)
  BY <1>10, QuietPush
<1>11. CASE Confirm(s)
  <2>1. OnRemote(s)
    BY <1>11 DEF Confirm, QuietInv
  <2>. QED  BY <1>11, <2>1, QuietGoes DEF Confirm, Require, SessionPcs
<1>12. CASE RecordPublication(s) \/ Report(s) \/ Kill(s)
  BY <1>12, QuietGoes DEF RecordPublication, Report, Kill
<1>. QED
  BY <1>1, <1>2, <1>3, <1>4, <1>5, <1>6, <1>7, <1>8, <1>9, <1>10, <1>11,
     <1>12 DEF Step

LEMMA QuietKept ==
  ASSUME LocalRuns = {}, ~MayInterfere, IInv, QuietInv, [Next]_vars
  PROVE  QuietInv'
<1>1. ASSUME NEW r \in Runs, ApproveRun(r) PROVE QuietInv'
  BY <1>1 DEF ApproveRun, Promotion!Approve, Promotion!Tip, IInv, Typed,
     QuietInv, PublicationResumes, At, OnRemote, RunOf, CommitOf, Github,
     others
<1>2. CASE UNCHANGED vars
  BY <1>2 DEF vars, others, QuietInv, PublicationResumes, At, OnRemote,
     RunOf, CommitOf, Github
<1>. QED  BY <1>1, <1>2, QuietSteps DEF Next, OthersWork

(***************************************************************************)
(* While nobody else changes the repository, a publication never has to be *)
(* refused: wherever earlier sessions were killed or lost an answer, a     *)
(* session reports an error only when its own push did.                    *)
(***************************************************************************)
THEOREM PublicationsResume ==
  ASSUME LocalRuns = {}, ~MayInterfere
  PROVE  Spec => []PublicationResumes
<1>1. IInv /\ QuietInv /\ [Next]_vars => QuietInv'
  BY QuietKept
<1>2. QuietInv => PublicationResumes
  BY DEF QuietInv
<1>. QED  BY <1>1, <1>2, InitIsQuiet, Invariance, PTL DEF Spec
=============================================================================
