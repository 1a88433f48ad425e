---------------------------- MODULE RunStateFile ----------------------------
(***************************************************************************)
(* How state_machine.py and atomic.py carry out one operation on           *)
(* state.json: take .state.lock, read the file, decide, write a temporary  *)
(* file in the same directory, rename it over state.json, release the lock.*)
(* A process may be killed between any two steps; the temporary file it was *)
(* writing then stays in the directory.  Readers take no lock.             *)
(* Power loss and the fsyncs against it are the subject of AtomicFile.     *)
(*                                                                         *)
(* Files are inodes: a rename replaces the inode state.json names, and a   *)
(* reader that has it open keeps reading the old one.                      *)
(***************************************************************************)
EXTENDS Integers

CONSTANTS
  Metadata, NoMetadata, Failures, NoFailure, OriginalLimit, MaxEffective,
  Session,       \* the process that runs the loop: .resume.lock and
                 \* agent-loop.lock leave one
  Gates,         \* processes of the human gate of approval.py
  Readers,       \* processes that read the document without its lock
  Inodes,        \* the inodes of the run directory's file system
  Missing,       \* state.json does not exist
  Torn,          \* the content of a file not completely written
  NoWriter       \* nobody holds .state.lock

ASSUME FileConstantsAssumption ==
  /\ NoMetadata \notin Metadata
  /\ NoFailure \notin Failures
  /\ OriginalLimit \in Nat \ {0}
  /\ MaxEffective \in Nat
  /\ OriginalLimit <= MaxEffective
  /\ Session \notin Gates
  /\ NoWriter \notin Gates \cup {Session}
  /\ Missing \notin Inodes

VARIABLES
  entry,      \* the inode the name state.json has in the directory
  data,       \* the content of each inode
  leftover,   \* temporary files that killed writers left behind
  lock,       \* the holder of .state.lock
  writer,     \* the processes that update the document
  reader      \* the processes that read it without the lock
files == <<entry, data, leftover>>
vars == <<files, lock, writer, reader>>

Writers == Gates \cup {Session}

(* The document state.json holds, EmptyDocument when it does not exist. *)
Content(ino) ==
  IF ino = Missing
  THEN [status |-> "NONE", metadata |-> NoMetadata, failure |-> NoFailure,
        limit |-> OriginalLimit, previous |-> 0, decision |-> "none"]
  ELSE data[ino]

Document == Content(entry)

State == INSTANCE RunState WITH doc <- Document

ASSUME TornIsNoDocument == Torn \notin State!Documents

-----------------------------------------------------------------------------
(***************************************************************************)
(* The operations, by the process that calls them, and what each makes of  *)
(* the document it reads under the lock.  "extend" carries the limit it    *)
(* asks for; the failure and the limit it compares are those of the        *)
(* document its caller read before, without the lock.  Only the session    *)
(* records failures.                                                       *)
(***************************************************************************)
SessionOperations ==
  ({"transition"} \X State!RunnerEvents)
    \cup ({"initialize"} \X Metadata)
    \cup ({"fail"} \X Failures)
    \cup ({"extend"} \X (OriginalLimit..MaxEffective))

GateOperations ==
  ({"transition"} \X {"approval_requested"})
    \cup ({"decide"} \X State!Decisions)

Operations(w) == IF w = Session THEN SessionOperations ELSE GateOperations

Writes(d, op, saw) ==
  \/ op[1] = "transition" /\ State!TransitionWrites(d, op[2])
  \/ op[1] = "initialize" /\ State!InitializeWrites(d)
  \/ op[1] = "fail"       /\ State!FailureWrites(d)
  \/ op[1] = "extend"     /\ State!ExtensionWrites(d, saw.failure, saw.limit)
  \/ op[1] = "decide"     /\ State!DecisionWrites(d)

Updated(d, op) ==
  CASE op[1] = "transition" -> State!TransitionDoc(d, op[2])
    [] op[1] = "initialize" -> State!InitializeDoc(d, op[2])
    [] op[1] = "fail"       -> State!FailureDoc(d, op[2])
    [] op[1] = "extend"     -> State!ExtensionDoc(d, op[2])
    [] op[1] = "decide"     -> State!DecisionDoc(d, op[2])

(* authorize_iteration_extension refuses every other document. *)
MayExtend(d, new) ==
  /\ State!ExtensionEligible(d, d.failure, d.limit)
  /\ new > d.limit

-----------------------------------------------------------------------------
(* A writer *)

NoOperation == <<"none", "none">>
Idle == [pc |-> "idle", op |-> NoOperation, saw |-> State!EmptyDocument,
         old |-> State!EmptyDocument, tmp |-> Missing]
Releasing == [Idle EXCEPT !.pc = "release"]

At(w, label) == writer[w].pc = label
Goto(w, label) == writer' = [writer EXCEPT ![w].pc = label]

(* The caller may have read the document before it asks for the lock; a    *)
(* fresh run calls init-run for the document that its run_started left.    *)
Call(w, op) ==
  /\ At(w, "idle")
  /\ op[1] = "initialize" => State!InitializeEligible(Document)
  /\ op[1] = "extend" => MayExtend(Document, op[2])
  /\ writer' = [writer EXCEPT ![w] =
                  [Idle EXCEPT !.pc = "called", !.op = op,
                     !.saw = IF op[1] = "extend" THEN Document ELSE @]]
  /\ UNCHANGED <<files, lock, reader>>

(* run_scoped_lock left out: the body runs whoever holds the lock. *)
AcquireNothing(w) ==                            \* fault: no lock
  /\ At(w, "called")
  /\ Goto(w, "locked")
  /\ UNCHANGED <<files, lock, reader>>

Acquire(w) ==
  /\ At(w, "called")
  /\ lock = NoWriter
  /\ lock' = w
  /\ Goto(w, "locked")
  /\ UNCHANGED <<files, reader>>

ReadAndDecide(w) ==
  /\ At(w, "locked")
  /\ writer' = [writer EXCEPT ![w] =
       IF Writes(Document, @.op, @.saw)
       THEN [@ EXCEPT !.pc = "create", !.old = Document] ELSE Releasing]
  /\ UNCHANGED <<files, lock, reader>>

(***************************************************************************)
(* mkstemp: an inode nobody names and nobody has open.  The file system    *)
(* reuses the inodes of unlinked files, and with them their numbers.       *)
(***************************************************************************)
OpenFiles == {reader[r].fd : r \in Readers}
InUse ==
  {entry} \cup leftover \cup {writer[w].tmp : w \in Writers} \cup OpenFiles
WriteInPlace == IF entry = Missing THEN Inodes \ InUse
                ELSE {entry}                    \* fault: no temporary file
FreeInodes == Inodes \ InUse

CreateTemp(w) ==
  /\ At(w, "create")
  /\ \E ino \in FreeInodes :
       /\ data' = [i \in Inodes |->
                      IF i \in InUse \ {ino} THEN data[i] ELSE Torn]
       /\ writer' = [writer EXCEPT ![w].pc = "fill", ![w].tmp = ino]
  /\ UNCHANGED <<entry, leftover, lock, reader>>

(* write, flush, fchmod and fsync of the temporary file. *)
FillTemp(w) ==
  /\ At(w, "fill")
  /\ data' = [data EXCEPT ![writer[w].tmp] =
                Updated(writer[w].old, writer[w].op)]
  /\ Goto(w, "replace")
  /\ UNCHANGED <<entry, leftover, lock, reader>>

(* The fsync of the directory that follows may only fail, and report it. *)
Replace(w) ==
  /\ At(w, "replace")
  /\ entry' = writer[w].tmp
  /\ data' = [i \in Inodes |-> IF i \in {writer[w].tmp} \cup OpenFiles
                                         \cup leftover
                               THEN data[i] ELSE Torn]
  /\ writer' = [writer EXCEPT ![w] = Releasing]
  /\ UNCHANGED <<leftover, lock, reader>>

(* A write that fails unlinks its temporary file and raises. *)
WriteFails(w) ==
  /\ At(w, "create") \/ At(w, "fill") \/ At(w, "replace")
  /\ writer' = [writer EXCEPT ![w] = Releasing]
  /\ UNCHANGED <<files, lock, reader>>

Release(w) ==
  /\ At(w, "release")
  /\ lock' = IF lock = w THEN NoWriter ELSE lock
  /\ writer' = [writer EXCEPT ![w] = Idle]
  /\ UNCHANGED <<files, reader>>

(* The kernel releases the lock of a killed process.  The temporary file   *)
(* it was writing is never removed; nobody reads what it holds.            *)
Kill(w) ==
  /\ ~At(w, "idle")
  /\ lock' = IF lock = w THEN NoWriter ELSE lock
  /\ leftover' = leftover \cup ({writer[w].tmp} \ {Missing})
  /\ data' = [i \in Inodes |-> IF i = writer[w].tmp THEN Torn ELSE data[i]]
  /\ writer' = [writer EXCEPT ![w] = Idle]
  /\ UNCHANGED <<entry, reader>>

-----------------------------------------------------------------------------
(* read_state_document: lstat, open, compare the inodes, read. *)

NotReading == [pc |-> "idle", seen |-> Missing, fd |-> Missing]

Lstat(r) ==
  /\ reader[r].pc = "idle"
  /\ entry # Missing
  /\ reader' = [reader EXCEPT ![r] = [NotReading EXCEPT !.pc = "open",
                                                        !.seen = entry]]
  /\ UNCHANGED <<files, lock, writer>>

(* "run state changed while opening" ends the read. *)
Open(r) ==
  /\ reader[r].pc = "open"
  /\ reader' = [reader EXCEPT ![r] =
       IF entry = reader[r].seen
       THEN [NotReading EXCEPT !.pc = "read", !.fd = entry] ELSE NotReading]
  /\ UNCHANGED <<files, lock, writer>>

Read(r) ==
  /\ reader[r].pc = "read"
  /\ reader' = [reader EXCEPT ![r] = NotReading]
  /\ UNCHANGED <<files, lock, writer>>

-----------------------------------------------------------------------------
Init ==
  /\ entry = Missing
  /\ data = [ino \in Inodes |-> Torn]
  /\ leftover = {}
  /\ lock = NoWriter
  /\ writer = [w \in Writers |-> Idle]
  /\ reader = [r \in Readers |-> NotReading]

WriterStep(w) ==
  \/ Acquire(w) \/ ReadAndDecide(w) \/ CreateTemp(w) \/ FillTemp(w)
  \/ Replace(w) \/ WriteFails(w) \/ Release(w)

ReaderStep(r) == Lstat(r) \/ Open(r) \/ Read(r)

Next ==
  \/ \E w \in Writers : (\E op \in Operations(w) : Call(w, op))
                        \/ WriterStep(w) \/ Kill(w)
  \/ \E r \in Readers : ReaderStep(r)

Spec == Init /\ [][Next]_vars

-----------------------------------------------------------------------------
Holding == {"locked", "create", "fill", "replace", "release"}
Labels == Holding \cup {"idle", "called"}

WriterRecords ==
  [pc  : Labels,
   op  : SessionOperations \cup GateOperations \cup {NoOperation},
   saw : State!Documents,
   old : State!Documents,
   tmp : Inodes \cup {Missing}]

(* Every variable holds a value of its kind. *)
TypeOK ==
  /\ entry \in Inodes \cup {Missing}
  /\ data \in [Inodes -> State!Documents \cup {Torn}]
  /\ leftover \subseteq Inodes
  /\ lock \in Writers \cup {NoWriter}
  /\ writer \in [Writers -> WriterRecords]
  /\ reader \in [Readers -> [pc   : {"idle", "open", "read"},
                             seen : Inodes \cup {Missing},
                             fd   : Inodes \cup {Missing}]]

(***************************************************************************)
(* Nobody ever reads a partial document, with or without the lock, nor     *)
(* finds one after a crash: state.json and every file a reader has open    *)
(* are complete, although inodes are reused.                               *)
(***************************************************************************)
NothingTornIsRead ==
  /\ Document # Torn
  /\ \A r \in Readers : Content(reader[r].fd) # Torn

(***************************************************************************)
(* No update is lost: what a writer is about to rename over state.json was *)
(* computed from the document it replaces.                                 *)
(***************************************************************************)
NoLostUpdate ==
  \A w \in Writers : At(w, "replace") => writer[w].old = Document

(***************************************************************************)
(* The protocol implements the atomic operations of RunState.              *)
(***************************************************************************)
ImplementsRunState == State!Spec
=============================================================================
