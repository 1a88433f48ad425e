-------------------------- MODULE AtomicFileProofs --------------------------
(***************************************************************************)
(* A path written by atomic_write_* or exclusive_write_json never holds a  *)
(* partial payload, keeps what was reported and has one exclusive winner,  *)
(* for any number of writers, failures, kills and power losses.            *)
(***************************************************************************)
EXTENDS AtomicFile, FiniteSetTheorems, TLAPS

USE FileWritersAssumption

Labels == {"idle", "write", "sync", "publish", "syncDirectory", "done",
           "lost", "failed", "killed"}

Typed ==
  /\ writer \in [Writers -> Labels]
  /\ content \in [Writers -> {"none", "partial", "whole"}]
  /\ entry \in onDisk /\ onDisk \subseteq Files
  /\ turn \in [Writers -> Nat]

(* How far the temporary file of a writer is.                              *)
Progress(w) ==
  /\ writer[w] \in {"sync", "publish"} => content[w] = "whole"
  /\ writer[w] \in {"publish", "syncDirectory", "done"} => w \in synced
  /\ writer[w] \in {"idle", "write", "sync", "publish"} =>
       w \notin onDisk /\ turn[w] = 0

(* Publications are numbered in their order.                               *)
Published == {w \in Writers : turn[w] > 0}
Numbered ==
  /\ IsFiniteSet(Published)
  /\ \A w \in Writers : turn[w] <= Cardinality(Published)

(* Until it synchronized the directory, a writer is only overtaken.        *)
NotUndone(w) ==
  /\ writer[w] = "syncDirectory" =>
       entry # Missing /\ turn[entry] >= turn[w]
  /\ exclusive /\ writer[w] = "syncDirectory" => entry = w
  /\ exclusive /\ writer[w] = "done" => onDisk = {w}

IInv ==
  /\ Typed /\ Numbered
  /\ \A w \in Writers : Progress(w) /\ NotUndone(w)
  /\ NeverPartial /\ ReportedSurvives

-----------------------------------------------------------------------------
LEMMA InitHolds == Init => IInv
<1>. SUFFICES ASSUME Init PROVE IInv
  OBVIOUS
<1>1. Published = {}
  BY DEF Init, Published
<1>2. Numbered
  BY <1>1, FS_EmptySet DEF Numbered, Init
<1>. QED
  BY <1>2 DEF Init, IInv, Typed, Labels, Files, Progress, NotUndone,
     NeverPartial, ReportedSurvives, At

(* The steps before the publication.                                       *)
LEMMA PrepareKeeps ==
  ASSUME IInv, UNCHANGED exclusive, NEW w \in Writers,
         Create(w) \/ WriteAll(w) \/ Sync(w) \/ Lose(w) \/ Fail(w) \/ Kill(w)
  PROVE  IInv'
<1>. USE DEF Create, WriteAll, Sync, SyncFile, Lose, Fail, Kill, Busy, At, Goto,
         disk
<1>1. UNCHANGED <<entry, onDisk, turn>>
  OBVIOUS
<1>2. Typed'
  BY DEF IInv, Typed, Labels
<1>3. Numbered'
  BY <1>1 DEF IInv, Numbered, Published
<1>4. \A v \in Writers : Progress(v)' /\ NotUndone(v)'
  BY <1>1 DEF IInv, Typed, Labels, Progress, NotUndone
<1>5. NeverPartial'
  BY <1>1 DEF IInv, Typed, Files, Progress, NeverPartial
<1>6. ReportedSurvives'
  BY <1>1 DEF IInv, Typed, ReportedSurvives
<1>. QED  BY <1>2, <1>3, <1>4, <1>5, <1>6 DEF IInv

(* A publication comes after every earlier one.                            *)
LEMMA PublishKeeps ==
  ASSUME IInv, UNCHANGED exclusive, NEW w \in Writers, Publish(w)
  PROVE  IInv'
<1>. USE DEF Publish, At, Goto
<1>1. /\ turn[w] = 0 /\ w \notin onDisk /\ content[w] = "whole" /\ w \in synced
      /\ exclusive => entry = Missing
  BY DEF IInv, Progress, MayPublish
<1>2. /\ Cardinality(Published) \in Nat /\ NextTurn = 1 + Cardinality(Published)
      /\ \A v \in Writers : turn[v] < NextTurn
  <2>1. Cardinality(Published) \in Nat
    BY FS_CardinalityType DEF IInv, Numbered
  <2>2. NextTurn = 1 + Cardinality(Published)
    BY DEF NextTurn, Published
  <2>. QED  BY <2>1, <2>2 DEF IInv, Typed, Numbered
<1>3. turn' = [turn EXCEPT ![w] = NextTurn] /\ turn'[w] = NextTurn
        /\ \A v \in Writers \ {w} : turn'[v] = turn[v]
  BY DEF IInv, Typed
<1>4. Typed'
  BY <1>2 DEF IInv, Typed, Labels, Files
<1>5. Numbered'
  <2>1. Published' = Published \cup {w} /\ w \notin Published
    BY <1>1, <1>2, <1>3 DEF Published
  <2>2. /\ IsFiniteSet(Published \cup {w})
        /\ Cardinality(Published \cup {w}) = Cardinality(Published) + 1
    BY <2>1, FS_AddElement, Zenon DEF IInv, Numbered
  <2>3. /\ IsFiniteSet(Published')
        /\ Cardinality(Published') = Cardinality(Published) + 1
    BY <2>1, <2>2
  <2>4. \A v \in Writers : turn'[v] <= Cardinality(Published')
    BY <1>2, <1>3, <2>3 DEF IInv, Typed
  <2>. QED  BY <2>3, <2>4 DEF Numbered
<1>6. \A v \in Writers : Progress(v)'
  BY <1>3 DEF IInv, Typed, Progress
<1>7. \A v \in Writers : NotUndone(v)'
  <2>. SUFFICES ASSUME NEW v \in Writers PROVE NotUndone(v)'
    OBVIOUS
  <2>1. exclusive => \A u \in Writers : writer[u] \notin {"syncDirectory", "done"}
    BY <1>1 DEF IInv, Typed, NotUndone
  <2>2. turn'[w] >= turn'[v] /\ turn'[w] \in Nat
    BY <1>2, <1>3 DEF IInv, Typed
  <2>. QED  BY <2>1, <2>2 DEF IInv, Typed, NotUndone
<1>8. NeverPartial'
  BY <1>1 DEF IInv, NeverPartial
<1>9. ReportedSurvives'
  BY <1>1, <1>2, <1>3 DEF IInv, Typed, Files, ReportedSurvives
<1>. QED  BY <1>4, <1>5, <1>6, <1>7, <1>8, <1>9 DEF IInv

LEMMA SyncDirectoryKeeps ==
  ASSUME IInv, UNCHANGED exclusive, NEW w \in Writers, SyncDirectory(w)
  PROVE  IInv'
<1>. USE DEF SyncDirectory, SyncEntries, At, Goto
<1>1. Typed' /\ Numbered'
  BY DEF IInv, Typed, Labels, Numbered, Published
<1>2. \A v \in Writers : Progress(v)' /\ NotUndone(v)'
  BY DEF IInv, Typed, Progress, NotUndone
<1>3. NeverPartial'
  BY DEF IInv, Typed, NeverPartial
<1>4. ReportedSurvives'
  BY DEF IInv, Typed, NotUndone, ReportedSurvives
<1>. QED  BY <1>1, <1>2, <1>3, <1>4 DEF IInv

(* What a power loss leaves was on the disk.                               *)
LEMMA PowerLossKeeps ==
  ASSUME IInv, UNCHANGED exclusive, PowerLoss
  PROVE  IInv'
<1>. USE DEF PowerLoss, Busy, At
<1>1. Typed' /\ Numbered'
  BY DEF IInv, Typed, Labels, Numbered, Published
<1>2. \A v \in Writers : Progress(v)' /\ NotUndone(v)'
  BY DEF IInv, Typed, Progress, NotUndone
<1>3. NeverPartial'
  BY DEF IInv, Typed, Files, NeverPartial
<1>4. ReportedSurvives'
  BY DEF IInv, Typed, ReportedSurvives
<1>. QED  BY <1>1, <1>2, <1>3, <1>4 DEF IInv

LEMMA StepKeeps == IInv /\ [Next]_vars => IInv'
<1>. SUFFICES ASSUME IInv, [Next]_vars PROVE IInv'
  OBVIOUS
<1>1. CASE Next
  BY <1>1, PrepareKeeps, PublishKeeps, SyncDirectoryKeeps, PowerLossKeeps
     DEF Next
<1>2. CASE UNCHANGED vars
  BY <1>2 DEF vars, disk, IInv, Typed, Numbered, Published, Progress,
     NotUndone, NeverPartial, ReportedSurvives, At
<1>. QED  BY <1>1, <1>2

-----------------------------------------------------------------------------
(* The invariant of the path, its temporary files and the disk.            *)
THEOREM Invariance == Spec => []IInv
BY InitHolds, StepKeeps, PTL DEF Spec

(* atomic_write_text: neither a reader nor a crash ever finds a partial    *)
(* payload under the path.                                                 *)
THEOREM PayloadIsWhole == Spec => []NeverPartial
<1>1. IInv => NeverPartial
  BY DEF IInv
<1>. QED  BY <1>1, Invariance, PTL

(* _fsync_directory: a reported write is never undone.                     *)
THEOREM ReportedIsKept == Spec => []ReportedSurvives
<1>1. IInv => ReportedSurvives
  BY DEF IInv
<1>. QED  BY <1>1, Invariance, PTL

(* exclusive_write_json: a writer that was told it won is the only one.    *)
THEOREM WinnerIsAlone == Spec => []OneWinner
<1>1. IInv => OneWinner
  BY DEF IInv, Typed, NotUndone, OneWinner, At
<1>. QED  BY <1>1, Invariance, PTL
=============================================================================
