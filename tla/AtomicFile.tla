----------------------------- MODULE AtomicFile -----------------------------
(***************************************************************************)
(* atomic_write_text and exclusive_write_json on one path, with failing    *)
(* system calls, killed writers and power loss.  Each writer has one       *)
(* payload, in a temporary file of its own, which is also the inode the    *)
(* path names once the writer has published it.                            *)
(***************************************************************************)
EXTENDS Naturals, FiniteSets

CONSTANTS
  Writers,
  Missing     \* the path names no file

ASSUME FileWritersAssumption == Missing \notin Writers

VARIABLES
  exclusive, \* the path is one of exclusive_write_json; it stays so
  writer,    \* what each writer does, and how its call ended
  content,   \* the bytes of each temporary file
  synced,    \* the temporary files whose bytes are on the disk
  temporary, \* the temporary names that exist
  entry,     \* the file the path names
  onDisk,    \* the entries a power loss may leave, the current one included
  turn       \* history: the place of each publication in their order

disk == <<content, synced, temporary>>
vars == <<exclusive, writer, disk, entry, onDisk, turn>>

Files == Writers \cup {Missing}
At(w, label) == writer[w] = label
Goto(w, label) == writer' = [writer EXCEPT ![w] = label]
NextTurn == 1 + Cardinality({w \in Writers : turn[w] > 0})

Init ==
  /\ exclusive \in BOOLEAN
  /\ writer = [w \in Writers |-> "idle"]
  /\ content = [w \in Writers |-> "none"]
  /\ synced = {} /\ temporary = {}
  /\ entry = Missing /\ onDisk = {Missing}
  /\ turn = [w \in Writers |-> 0]

Unlink(w) == temporary' = temporary \ {w}

-----------------------------------------------------------------------------
Create(w) ==
  /\ At(w, "idle")
  /\ temporary' = temporary \cup {w}
  /\ content' = [content EXCEPT ![w] = "partial"]
  /\ Goto(w, "write")
  /\ UNCHANGED <<synced, entry, onDisk, turn>>

WriteAll(w) ==
  /\ At(w, "write")
  /\ content' = [content EXCEPT ![w] = "whole"]
  /\ Goto(w, "sync")
  /\ UNCHANGED <<synced, temporary, entry, onDisk, turn>>

SyncNothing(w) == UNCHANGED synced   \* fault: no fsync of the file
SyncFile(w) == synced' = synced \cup {w}

Sync(w) ==
  /\ At(w, "sync")
  /\ SyncFile(w)
  /\ Goto(w, "publish")
  /\ UNCHANGED <<content, temporary, entry, onDisk, turn>>

(* os.link fails if the path exists; os.replace does not. *)
MayPublish == exclusive => entry = Missing

Publish(w) ==
  /\ At(w, "publish") /\ MayPublish
  /\ entry' = w
  /\ onDisk' = onDisk \cup {w}
  /\ turn' = [turn EXCEPT ![w] = NextTurn]
  /\ temporary' = IF exclusive THEN temporary ELSE temporary \ {w}
  /\ Goto(w, "syncDirectory")
  /\ UNCHANGED <<content, synced>>

Lose(w) ==
  /\ At(w, "publish") /\ ~MayPublish
  /\ Unlink(w)
  /\ Goto(w, "lost")
  /\ UNCHANGED <<content, synced, entry, onDisk, turn>>

DirectoryNotSynced == UNCHANGED onDisk   \* fault: no fsync of the directory
SyncEntries == onDisk' = {entry}

SyncDirectory(w) ==
  /\ At(w, "syncDirectory")
  /\ SyncEntries
  /\ Unlink(w)
  /\ Goto(w, "done")
  /\ UNCHANGED <<content, synced, entry, turn>>

Busy(w) == writer[w] \in {"write", "sync", "publish", "syncDirectory"}

(* A system call fails: the temporary file is unlinked, the error raised. *)
Fail(w) ==
  /\ Busy(w)
  /\ Unlink(w)
  /\ Goto(w, "failed")
  /\ UNCHANGED <<content, synced, entry, onDisk, turn>>

Kill(w) ==
  /\ Busy(w)
  /\ Goto(w, "killed")
  /\ UNCHANGED <<disk, entry, onDisk, turn>>

(* External: what was not synced may be lost; every writer stops. *)
PowerLoss ==
  /\ entry' \in onDisk
  /\ onDisk' = {entry'}
  /\ content' = [w \in Writers |->
       IF w \in synced \/ content[w] = "none" THEN content[w] ELSE "partial"]
  /\ writer' = [w \in Writers |-> IF Busy(w) THEN "killed" ELSE writer[w]]
  /\ UNCHANGED <<synced, temporary, turn>>

-----------------------------------------------------------------------------
Next ==
  /\ \/ \E w \in Writers :
          \/ Create(w) \/ WriteAll(w) \/ Sync(w) \/ Publish(w) \/ Lose(w)
          \/ SyncDirectory(w) \/ Fail(w) \/ Kill(w)
     \/ PowerLoss
  /\ UNCHANGED exclusive

Spec == Init /\ [][Next]_vars

-----------------------------------------------------------------------------
(* Properties *)

(* Every variable keeps its type; only a killed writer leaves a temporary  *)
(* file, and the disk may hold the current entry.                          *)
TypeOK ==
  /\ exclusive \in BOOLEAN
  /\ writer \in [Writers -> {"idle", "write", "sync", "publish", "done",
                             "syncDirectory", "lost", "failed", "killed"}]
  /\ content \in [Writers -> {"none", "partial", "whole"}]
  /\ synced \subseteq Writers
  /\ temporary \subseteq {w \in Writers : Busy(w) \/ At(w, "killed")}
  /\ entry \in onDisk /\ onDisk \subseteq Files
  /\ turn \in [Writers -> Nat]

(* Neither a reader nor a machine that lost its power finds partial JSON   *)
(* under the path.                                                         *)
NeverPartial ==
  \A f \in onDisk \ {Missing} : content[f] = "whole" /\ f \in synced

(* A write that was reported is not undone by a power loss: what the disk  *)
(* may hold is that payload or one published after it.                     *)
ReportedSurvives ==
  \A w \in Writers : At(w, "done") =>
    \A f \in onDisk : f # Missing /\ turn[f] >= turn[w]

(* exclusive_write_json has one winner, which no loser ever overwrites.    *)
OneWinner ==
  exclusive => \A w \in Writers : At(w, "done") => entry = w
=============================================================================
