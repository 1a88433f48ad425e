------------------------- MODULE RunStateFileProofs -------------------------
(***************************************************************************)
(* The locked replacement of state.json implements the atomic operations   *)
(* of RunState, and never shows a partial document, for any number of gate *)
(* processes, readers, inodes and metadata values.                         *)
(***************************************************************************)
EXTENDS RunStateFile, TLAPS

USE FileConstantsAssumption, TornIsNoDocument

Documents == State!Documents
Deciding == {"create", "fill", "replace"}
Pending(w) == writer[w].pc \in {"called", "locked"} \cup Deciding

(* What a writer that has decided still knows of the document. *)
DecisionHolds(w) ==
  writer[w].pc \in Deciding =>
    /\ writer[w].old = Document
    /\ Writes(Document, writer[w].op, writer[w].saw)

(* Its temporary file is not state.json, nor open in a reader, nor one     *)
(* that a killed writer left.                                              *)
TempIsPrivate(w) ==
  /\ writer[w].pc \in {"fill", "replace"} =>
       /\ writer[w].tmp \in Inodes
       /\ writer[w].tmp # entry
       /\ writer[w].tmp \notin OpenFiles \cup leftover
  /\ writer[w].pc \notin {"fill", "replace"} => writer[w].tmp = Missing

TempIsComplete(w) ==
  writer[w].pc = "replace" =>
    data[writer[w].tmp] = Updated(writer[w].old, writer[w].op)

(* Until the extension is written, the document stays the one it saw. *)
ExtensionHolds(w) ==
  Pending(w) /\ writer[w].op[1] = "extend" =>
    /\ w = Session
    /\ writer[w].saw = Document
    /\ MayExtend(Document, writer[w].op[2])

(* Until the metadata is written, the run is where run_started left it. *)
InitializeHolds(w) ==
  Pending(w) /\ writer[w].op[1] = "initialize" =>
    /\ w = Session
    /\ State!InitializeEligible(Document)

WriterInv(w) ==
  /\ writer[w].pc \in Holding => lock = w
  /\ Pending(w) => writer[w].op \in Operations(w)
  /\ DecisionHolds(w)
  /\ TempIsPrivate(w)
  /\ TempIsComplete(w)
  /\ ExtensionHolds(w)
  /\ InitializeHolds(w)

ReaderInv(r) ==
  reader[r].fd # Missing => data[reader[r].fd] \in Documents

(* What a killed writer left is not state.json, nor open in a reader.      *)
LeftoversAreDead == leftover \cap ({entry} \cup OpenFiles) = {}

IInv ==
  /\ TypeOK
  /\ Document \in Documents
  /\ \A w \in Writers : WriterInv(w)
  /\ \A r \in Readers : ReaderInv(r)
  /\ LeftoversAreDead

-----------------------------------------------------------------------------
LEMMA EmptyIsDocument == State!EmptyDocument \in Documents
BY DEF Documents, State!Documents, State!EmptyDocument, State!NoStatus

LEMMA MissingIsEmpty == Content(Missing) = State!EmptyDocument
BY DEF Content, State!EmptyDocument, State!NoStatus

LEMMA InitializedIsDocument ==
  ASSUME NEW d \in Documents, NEW m \in Metadata, NEW x,
         x = State!InitializeDoc(d, m)
  PROVE  x \in Documents
<1>1. x = [status |-> d.status, metadata |-> m, failure |-> NoFailure,
           limit |-> OriginalLimit, previous |-> 0, decision |-> "none"]
  BY DEF State!InitializeDoc, State!EmptyDocument
<1>2. OriginalLimit \in OriginalLimit..MaxEffective /\ 0 \in 0..MaxEffective
  OBVIOUS
<1>. QED  BY <1>1, <1>2 DEF Documents, State!Documents

(* An operation turns a document into a document. *)
LEMMA UpdatedIsDocument ==
  ASSUME NEW w \in Writers, NEW op \in Operations(w), NEW d \in Documents,
         NEW saw, Writes(d, op, saw)
  PROVE  Updated(d, op) \in Documents
<1>1. CASE op \in {"transition"} \X State!TransitionEvents
  <2>1. State!Target[op[2]] \in State!States
    BY <1>1 DEF State!Target, State!States, State!TransitionEvents,
                State!RunnerEvents
  <2>2. Updated(d, op) = [d EXCEPT !.status = State!Target[op[2]]]
    BY <1>1 DEF Updated, State!TransitionDoc
  <2>. QED  BY <2>1, <2>2 DEF Documents, State!Documents
<1>2. CASE op \in {"initialize"} \X Metadata
  <2>1. Updated(d, op) = State!InitializeDoc(d, op[2]) /\ op[2] \in Metadata
    BY <1>2 DEF Updated
  <2>. QED  BY <2>1, InitializedIsDocument
<1>3. CASE op \in {"fail"} \X Failures
  BY <1>3 DEF Updated, State!FailureDoc, Documents, State!Documents,
              State!States
<1>4. CASE op \in {"extend"} \X (OriginalLimit..MaxEffective)
  <2>1. /\ Updated(d, op) = State!ExtensionDoc(d, op[2])
        /\ op[2] \in OriginalLimit..MaxEffective
    BY <1>4 DEF Updated
  <2>2. d.limit \in 0..MaxEffective
    BY DEF Documents, State!Documents
  <2>. QED
    BY <2>1, <2>2
       DEF State!ExtensionDoc, Documents, State!Documents, State!States
<1>5. CASE op \in {"decide"} \X State!Decisions
  BY <1>5 DEF Updated, State!DecisionDoc, State!DecisionTarget,
              State!Decisions, Documents, State!Documents, State!States
<1>6. CASE w = Session
  BY <1>1, <1>2, <1>3, <1>4, <1>6
     DEF Operations, SessionOperations, State!TransitionEvents
<1>7. CASE w # Session
  <2>1. op \in {"transition"} \X {"approval_requested"}
          => op \in {"transition"} \X State!TransitionEvents
    BY DEF State!TransitionEvents
  <2>. QED  BY <1>1, <1>5, <1>7, <2>1 DEF Operations, GateOperations
<1>. QED  BY <1>6, <1>7

(* The gate writes nothing to a document whose budget may be extended, nor *)
(* to one that a fresh run is about to bind.                               *)
LEMMA GateLeavesBlocked ==
  ASSUME NEW d, d.status \in {"NONE", "EXECUTING", "BLOCKED"},
         NEW op \in GateOperations, NEW saw
  PROVE  ~Writes(d, op, saw)
<1>1. CASE op \in {"transition"} \X {"approval_requested"}
  BY <1>1 DEF Writes, State!TransitionWrites, State!Sources
<1>2. CASE op \in {"decide"} \X State!Decisions
  BY <1>2 DEF Writes, State!DecisionWrites
<1>. QED  BY <1>1, <1>2 DEF GateOperations

-----------------------------------------------------------------------------
(* A step of one writer that leaves the files alone: what the others and   *)
(* the readers rely on is unchanged.                                       *)
LEMMA OthersKeep ==
  ASSUME IInv, NEW w \in Writers, UNCHANGED <<files, reader>>,
         NEW x \in WriterRecords, writer' = [writer EXCEPT ![w] = x],
         \A v \in Writers \ {w} : lock = v => lock' = v,
         lock' \in Writers \cup {NoWriter},
         WriterInv(w)'
  PROVE  IInv'
<1>1. Document' = Document /\ OpenFiles' = OpenFiles
  BY DEF files, Document, Content, OpenFiles
<1>2. TypeOK'
  BY DEF IInv, TypeOK, files
<1>3. ASSUME NEW v \in Writers \ {w} PROVE WriterInv(v)'
  <2>1. writer'[v] = writer[v]
    BY DEF IInv, TypeOK
  <2>2. WriterInv(v)
    BY DEF IInv
  <2>. QED
    BY <1>1, <2>1, <2>2
       DEF WriterInv, DecisionHolds, TempIsPrivate, TempIsComplete,
           ExtensionHolds, InitializeHolds, Pending, files
<1>4. (\A r \in Readers : ReaderInv(r)') /\ LeftoversAreDead'
  BY <1>1 DEF IInv, ReaderInv, LeftoversAreDead, files
<1>. QED  BY <1>1, <1>2, <1>3, <1>4 DEF IInv

(* Idle and releasing writers rely on nothing but the lock.                *)
LEMMA QuietWriter ==
  ASSUME TypeOK, NEW w \in Writers,
         \/ writer' = [writer EXCEPT ![w] = Idle]
         \/ writer' = [writer EXCEPT ![w] = Releasing] /\ lock' = w
  PROVE  WriterInv(w)'
<1>1. /\ \/ writer'[w].pc = "idle"
         \/ writer'[w].pc = "release" /\ lock' = w
      /\ writer'[w].tmp = Missing
  BY DEF TypeOK, Idle, Releasing
<1>. QED
  BY <1>1 DEF WriterInv, DecisionHolds, TempIsPrivate, TempIsComplete,
              ExtensionHolds, InitializeHolds, Pending, Deciding, Holding

LEMMA QuietRecords == Idle \in WriterRecords /\ Releasing \in WriterRecords
BY EmptyIsDocument
   DEF Idle, Releasing, WriterRecords, Labels, Holding, Documents,
       NoOperation

LEMMA CallKeeps ==
  ASSUME IInv, NEW w \in Writers, NEW op \in Operations(w), Call(w, op)
  PROVE  IInv'
<1> DEFINE x == [Idle EXCEPT !.pc = "called", !.op = op,
                   !.saw = IF op[1] = "extend" THEN Document ELSE @]
<1>1. writer' = [writer EXCEPT ![w] = x] /\ UNCHANGED <<files, lock, reader>>
  BY DEF Call
<1>2. /\ x.pc = "called" /\ x.op = op /\ x.tmp = Missing
      /\ op[1] = "extend" => x.saw = Document
  BY DEF Idle
<1>3. x \in WriterRecords
  <2>1. op \in SessionOperations \cup GateOperations
    BY DEF Operations
  <2>. QED
    BY <2>1, QuietRecords, EmptyIsDocument
       DEF IInv, WriterRecords, Labels, Holding, Idle, Documents
<1>4. writer'[w] = x /\ Document' = Document
  BY <1>1 DEF IInv, TypeOK, files, Document, Content
<1>5. /\ op[1] = "extend" => w = Session /\ MayExtend(Document, op[2])
      /\ op[1] = "initialize" =>
           w = Session /\ State!InitializeEligible(Document)
  BY DEF Call, Operations, GateOperations
<1>6. WriterInv(w)'
  BY <1>2, <1>4, <1>5
     DEF WriterInv, DecisionHolds, TempIsPrivate, TempIsComplete,
         ExtensionHolds, InitializeHolds, Pending, Deciding, Holding
<1>7. lock' \in Writers \cup {NoWriter} /\ lock' = lock
  BY <1>1 DEF IInv, TypeOK
<1>. QED  BY <1>1, <1>3, <1>6, <1>7, OthersKeep

LEMMA AcquireKeeps ==
  ASSUME IInv, NEW w \in Writers, Acquire(w)
  PROVE  IInv'
<1> DEFINE x == [writer[w] EXCEPT !.pc = "locked"]
<1>1. /\ writer' = [writer EXCEPT ![w] = x] /\ lock' = w
      /\ UNCHANGED <<files, reader>>
  BY DEF Acquire, Goto
<1>2. writer[w] \in WriterRecords /\ WriterInv(w) /\ writer[w].pc = "called"
  BY DEF IInv, TypeOK, Acquire, At
<1>3. x \in WriterRecords
  BY <1>2 DEF WriterRecords, Labels, Holding
<1>4. /\ writer'[w].pc = "locked" /\ writer'[w].op = writer[w].op
      /\ writer'[w].tmp = writer[w].tmp
      /\ writer'[w].saw = writer[w].saw /\ Document' = Document
  BY <1>1, <1>2 DEF IInv, TypeOK, files, Document, Content, WriterRecords
<1>5. WriterInv(w)'
  BY <1>1, <1>2, <1>4
     DEF WriterInv, DecisionHolds, TempIsPrivate, TempIsComplete,
         ExtensionHolds, InitializeHolds, Pending, Deciding, Holding
<1>6. \A v \in Writers \ {w} : lock # v
  BY DEF Acquire, Writers
<1>. QED  BY <1>1, <1>3, <1>5, <1>6, OthersKeep

LEMMA ReadAndDecideKeeps ==
  ASSUME IInv, NEW w \in Writers, ReadAndDecide(w)
  PROVE  IInv'
<1>1. /\ writer[w] \in WriterRecords /\ WriterInv(w)
      /\ writer[w].pc = "locked" /\ lock = w
      /\ UNCHANGED <<files, lock, reader>> /\ Document' = Document
  BY DEF IInv, TypeOK, ReadAndDecide, At, WriterInv, Holding, files,
         Document, Content
<1>2. CASE ~Writes(Document, writer[w].op, writer[w].saw)
  <2>1. writer' = [writer EXCEPT ![w] = Releasing]
    BY <1>2 DEF ReadAndDecide
  <2>2. WriterInv(w)'
    BY <1>1, <2>1, QuietWriter DEF IInv
  <2>. QED  BY <1>1, <2>1, <2>2, QuietRecords, OthersKeep DEF Writers
<1>3. CASE Writes(Document, writer[w].op, writer[w].saw)
  <2> DEFINE x == [writer[w] EXCEPT !.pc = "create", !.old = Document]
  <2>1. writer' = [writer EXCEPT ![w] = x]
    BY <1>3 DEF ReadAndDecide
  <2>2. x \in WriterRecords
    BY <1>1 DEF IInv, WriterRecords, Labels, Holding, Documents
  <2>3. /\ writer'[w].pc = "create" /\ writer'[w].op = writer[w].op
        /\ writer'[w].tmp = writer[w].tmp
        /\ writer'[w].saw = writer[w].saw /\ writer'[w].old = Document
    BY <1>1, <2>1 DEF IInv, TypeOK, WriterRecords
  <2>4. WriterInv(w)'
    BY <1>1, <1>3, <2>3
       DEF WriterInv, DecisionHolds, TempIsPrivate, TempIsComplete,
           ExtensionHolds, InitializeHolds, Pending, Deciding, Holding
  <2>. QED  BY <1>1, <2>1, <2>2, <2>4, OthersKeep DEF Writers
<1>. QED  BY <1>2, <1>3

LEMMA QuietKeeps ==
  ASSUME IInv, NEW w \in Writers,
         \/ WriteFails(w) \/ Release(w)
         \/ Kill(w) /\ writer[w].pc \notin {"fill", "replace"}
  PROVE  IInv' /\ Document' = Document
<1>0. UNCHANGED files => Document' = Document
  BY DEF files, Document, Content
<1>1. CASE WriteFails(w)
  <2>1. /\ writer' = [writer EXCEPT ![w] = Releasing]
        /\ UNCHANGED <<files, lock, reader>>
        /\ lock = w
    BY <1>1 DEF IInv, WriteFails, At, WriterInv, Holding
  <2>2. WriterInv(w)'
    BY <2>1, QuietWriter DEF IInv
  <2>. QED  BY <1>0, <2>1, <2>2, QuietRecords, OthersKeep DEF Writers
<1>2. CASE Release(w) \/ (Kill(w) /\ writer[w].pc \notin {"fill", "replace"})
  <2>1. /\ writer' = [writer EXCEPT ![w] = Idle]
        /\ UNCHANGED <<files, reader>>
        /\ lock' = IF lock = w THEN NoWriter ELSE lock
    <3>1. CASE Release(w)
      BY <3>1 DEF Release
    <3>2. CASE Kill(w) /\ writer[w].pc \notin {"fill", "replace"}
      <4>1. writer[w].tmp = Missing
        BY <3>2 DEF IInv, WriterInv, TempIsPrivate
      <4>2. data' = [i \in Inodes |-> data[i]]
        BY <3>2, <4>1 DEF Kill
      <4>. QED  BY <3>2, <4>1, <4>2 DEF Kill, IInv, TypeOK, files
    <3>. QED  BY <1>2, <3>1, <3>2
  <2>2. WriterInv(w)'
    BY <2>1, QuietWriter DEF IInv
  <2>3. /\ lock' \in Writers \cup {NoWriter}
        /\ \A v \in Writers \ {w} : lock = v => lock' = v
    BY <2>1 DEF IInv, TypeOK
  <2>. QED  BY <1>0, <2>1, <2>2, <2>3, QuietRecords, OthersKeep
<1>. QED  BY <1>1, <1>2

-----------------------------------------------------------------------------
(* Only the lock holder has decided: the other writers have no temp file.  *)
LEMMA OthersUndecided ==
  ASSUME IInv, NEW w \in Writers, lock = w, NEW v \in Writers \ {w}
  PROVE  writer[v].pc \notin Holding
BY DEF IInv, WriterInv

(* A writer killed while it writes leaves a file that nobody looks at.     *)
LEMMA KillKeeps ==
  ASSUME IInv, NEW w \in Writers, Kill(w), writer[w].pc \in {"fill", "replace"}
  PROVE  IInv' /\ Document' = Document
<1> DEFINE tmp == writer[w].tmp
<1>1. /\ lock = w /\ lock' = NoWriter
      /\ leftover' = leftover \cup {tmp}
      /\ data' = [i \in Inodes |-> IF i = tmp THEN Torn ELSE data[i]]
      /\ writer' = [writer EXCEPT ![w] = Idle]
      /\ UNCHANGED <<entry, reader>>
      /\ tmp \in Inodes /\ tmp # entry /\ tmp \notin OpenFiles
  BY DEF Kill, IInv, WriterInv, TempIsPrivate, Holding
<1>2. Document' = Document /\ OpenFiles' = OpenFiles
  BY <1>1 DEF Document, Content, OpenFiles, IInv, TypeOK
<1>3. TypeOK'
  <2>1. data' \in [Inodes -> State!Documents \cup {Torn}]
    BY <1>1 DEF IInv, TypeOK
  <2>2. writer' \in [Writers -> WriterRecords]
    BY <1>1, QuietRecords DEF IInv, TypeOK
  <2>. QED  BY <1>1, <2>1, <2>2 DEF IInv, TypeOK
<1>4. (\A r \in Readers : ReaderInv(r)') /\ LeftoversAreDead'
  BY <1>1, <1>2 DEF IInv, TypeOK, ReaderInv, OpenFiles, LeftoversAreDead
<1>5. WriterInv(w)'
  BY <1>1, QuietWriter DEF IInv
<1>6. ASSUME NEW v \in Writers \ {w} PROVE WriterInv(v)'
  <2>1. /\ writer[v].pc \notin Holding /\ WriterInv(v)
        /\ writer'[v] = writer[v]
    BY <1>1, OthersUndecided DEF IInv, TypeOK
  <2>. QED
    BY <1>2, <2>1
       DEF WriterInv, DecisionHolds, TempIsPrivate, TempIsComplete,
           ExtensionHolds, InitializeHolds, Pending, Deciding, Holding
<1>. QED  BY <1>2, <1>3, <1>4, <1>5, <1>6 DEF IInv

LEMMA CreateTempKeeps ==
  ASSUME IInv, NEW w \in Writers, CreateTemp(w)
  PROVE  IInv' /\ Document' = Document
<1>1. PICK ino \in FreeInodes :
        /\ data' = [i \in Inodes |->
                       IF i \in InUse \ {ino} THEN data[i] ELSE Torn]
        /\ writer' = [writer EXCEPT ![w].pc = "fill", ![w].tmp = ino]
  BY DEF CreateTemp
<1>2. /\ UNCHANGED <<entry, leftover, lock, reader>>
      /\ writer[w] \in WriterRecords /\ WriterInv(w) /\ lock = w
      /\ writer[w].pc = "create"
  BY DEF CreateTemp, IInv, TypeOK, WriterInv, At, Holding
<1>3. /\ ino \in Inodes /\ ino # entry /\ ino \notin OpenFiles \cup leftover
      /\ entry \in InUse /\ OpenFiles \subseteq InUse
  BY DEF FreeInodes, InUse
<1>4. Document' = Document
  BY <1>1, <1>2, <1>3 DEF Document, Content, IInv, TypeOK
<1>5. OpenFiles' = OpenFiles
  BY <1>2 DEF OpenFiles
<1>6. \A v \in Writers \ {w} : writer'[v] = writer[v]
  BY <1>1 DEF IInv, TypeOK
<1>7. /\ writer'[w].pc = "fill" /\ writer'[w].tmp = ino
      /\ writer'[w].op = writer[w].op /\ writer'[w].saw = writer[w].saw
      /\ writer'[w].old = writer[w].old
  BY <1>1, <1>2 DEF IInv, TypeOK, WriterRecords
<1>8. TypeOK'
  <2>1. data' \in [Inodes -> State!Documents \cup {Torn}]
    BY <1>1 DEF IInv, TypeOK
  <2>2. writer' \in [Writers -> WriterRecords]
    BY <1>1, <1>2, <1>3 DEF IInv, TypeOK, WriterRecords, Labels, Holding
  <2>. QED  BY <1>2, <2>1, <2>2 DEF IInv, TypeOK
<1>9. (\A r \in Readers : ReaderInv(r)') /\ LeftoversAreDead'
  BY <1>1, <1>2, <1>3, <1>5
     DEF IInv, TypeOK, ReaderInv, OpenFiles, LeftoversAreDead
<1>10. WriterInv(w)'
  BY <1>2, <1>3, <1>4, <1>5, <1>7
     DEF WriterInv, DecisionHolds, TempIsPrivate, TempIsComplete,
         ExtensionHolds, InitializeHolds, Pending, Deciding, Holding
<1>11. ASSUME NEW v \in Writers \ {w} PROVE WriterInv(v)'
  <2>1. writer[v].pc \notin Holding /\ WriterInv(v)
    BY <1>2, OthersUndecided DEF IInv
  <2>. QED
    BY <1>2, <1>4, <1>6, <2>1
       DEF WriterInv, DecisionHolds, TempIsPrivate, TempIsComplete,
           ExtensionHolds, InitializeHolds, Pending, Deciding, Holding
<1>. QED  BY <1>4, <1>8, <1>9, <1>10, <1>11 DEF IInv

LEMMA FillTempKeeps ==
  ASSUME IInv, NEW w \in Writers, FillTemp(w)
  PROVE  IInv' /\ Document' = Document
<1> DEFINE tmp == writer[w].tmp
           new == Updated(writer[w].old, writer[w].op)
<1>1. /\ data' = [data EXCEPT ![tmp] = new]
      /\ writer' = [writer EXCEPT ![w].pc = "replace"]
      /\ UNCHANGED <<entry, leftover, lock, reader>>
      /\ writer[w] \in WriterRecords /\ WriterInv(w) /\ lock = w
      /\ writer[w].pc = "fill"
  BY DEF FillTemp, Goto, IInv, TypeOK, WriterInv, At, Holding
<1>2. /\ tmp \in Inodes /\ tmp # entry /\ tmp \notin OpenFiles \cup leftover
      /\ writer[w].op \in Operations(w) /\ writer[w].old = Document
      /\ Writes(Document, writer[w].op, writer[w].saw)
  BY <1>1 DEF WriterInv, TempIsPrivate, DecisionHolds, Pending, Deciding
<1>3. new \in Documents
  BY <1>2, UpdatedIsDocument DEF IInv
<1>4. Document' = Document
  BY <1>1, <1>2 DEF Document, Content, IInv, TypeOK
<1>5. OpenFiles' = OpenFiles
  BY <1>1 DEF OpenFiles
<1>6. \A v \in Writers \ {w} : writer'[v] = writer[v]
  BY <1>1 DEF IInv, TypeOK
<1>7. /\ writer'[w].pc = "replace" /\ writer'[w].tmp = tmp
      /\ writer'[w].op = writer[w].op /\ writer'[w].saw = writer[w].saw
      /\ writer'[w].old = writer[w].old /\ data'[tmp] = new
  BY <1>1, <1>2 DEF IInv, TypeOK, WriterRecords
<1>8. TypeOK'
  <2>1. data' \in [Inodes -> State!Documents \cup {Torn}]
    BY <1>1, <1>3 DEF IInv, TypeOK, Documents
  <2>2. writer' \in [Writers -> WriterRecords]
    BY <1>1 DEF IInv, TypeOK, WriterRecords, Labels, Holding
  <2>. QED  BY <1>1, <2>1, <2>2 DEF IInv, TypeOK
<1>9. (\A r \in Readers : ReaderInv(r)') /\ LeftoversAreDead'
  BY <1>1, <1>2, <1>5 DEF IInv, TypeOK, ReaderInv, OpenFiles, LeftoversAreDead
<1>10. WriterInv(w)'
  BY <1>1, <1>2, <1>4, <1>5, <1>7
     DEF WriterInv, DecisionHolds, TempIsPrivate, TempIsComplete,
         ExtensionHolds, InitializeHolds, Pending, Deciding, Holding
<1>11. ASSUME NEW v \in Writers \ {w} PROVE WriterInv(v)'
  <2>1. writer[v].pc \notin Holding /\ WriterInv(v)
    BY <1>1, OthersUndecided DEF IInv
  <2>. QED
    BY <1>1, <1>4, <1>6, <2>1
       DEF WriterInv, DecisionHolds, TempIsPrivate, TempIsComplete,
           ExtensionHolds, InitializeHolds, Pending, Deciding, Holding
<1>. QED  BY <1>4, <1>8, <1>9, <1>10, <1>11 DEF IInv

(* The rename is the step that carries out the operation: it is a step of  *)
(* RunState, and it keeps what the other writers rely on.                  *)
LEMMA ReplaceKeeps ==
  ASSUME IInv, NEW w \in Writers, Replace(w)
  PROVE  /\ IInv'
         /\ writer[w].op \in Operations(w)
         /\ Writes(Document, writer[w].op, writer[w].saw)
         /\ Document' = Updated(Document, writer[w].op)
<1> DEFINE tmp == writer[w].tmp
<1>1. /\ entry' = tmp
      /\ data' = [i \in Inodes |-> IF i \in {tmp} \cup OpenFiles \cup leftover
                                   THEN data[i] ELSE Torn]
      /\ writer' = [writer EXCEPT ![w] = Releasing]
      /\ UNCHANGED <<leftover, lock, reader>>
      /\ writer[w] \in WriterRecords /\ WriterInv(w) /\ lock = w
      /\ writer[w].pc = "replace"
  BY DEF Replace, IInv, TypeOK, WriterInv, At, Holding
<1>2. /\ tmp \in Inodes \ leftover /\ writer[w].old = Document
      /\ writer[w].op \in Operations(w)
      /\ Writes(Document, writer[w].op, writer[w].saw)
      /\ data[tmp] = Updated(Document, writer[w].op)
  BY <1>1 DEF WriterInv, TempIsPrivate, DecisionHolds, TempIsComplete,
              Pending, Deciding
<1>3. Document' = Updated(Document, writer[w].op)
  BY <1>1, <1>2 DEF Document, Content
<1>4. Document' \in Documents
  BY <1>2, <1>3, UpdatedIsDocument DEF IInv
<1>5. TypeOK'
  <2>1. data' \in [Inodes -> State!Documents \cup {Torn}]
    BY <1>1 DEF IInv, TypeOK
  <2>2. writer' \in [Writers -> WriterRecords]
    BY <1>1, QuietRecords DEF IInv, TypeOK
  <2>. QED  BY <1>1, <1>2, <2>1, <2>2 DEF IInv, TypeOK
<1>6. (\A r \in Readers : ReaderInv(r)') /\ LeftoversAreDead'
  BY <1>1, <1>2 DEF IInv, TypeOK, ReaderInv, OpenFiles, LeftoversAreDead
<1>7. WriterInv(w)'
  BY <1>1, QuietWriter DEF IInv
<1>8. ASSUME NEW v \in Writers \ {w} PROVE WriterInv(v)'
  <2>1. /\ writer[v].pc \notin Holding /\ WriterInv(v)
        /\ writer'[v] = writer[v]
    BY <1>1, OthersUndecided DEF IInv, TypeOK
  <2>2. CASE Pending(v) /\ writer[v].op[1] \in {"extend", "initialize"}
    <3>1. v = Session /\ Document.status \in {"NONE", "EXECUTING", "BLOCKED"}
      BY <2>1, <2>2
         DEF WriterInv, ExtensionHolds, InitializeHolds, MayExtend,
             State!ExtensionEligible, State!ExtensionWrites,
             State!InitializeEligible, State!NoStatus
    <3>2. writer[w].op \in GateOperations
      BY <1>2, <3>1 DEF Operations
    <3>. QED  BY <1>2, <3>1, <3>2, GateLeavesBlocked
  <2>3. CASE ~(Pending(v) /\ writer[v].op[1] \in {"extend", "initialize"})
    BY <1>1, <2>1, <2>3
       DEF WriterInv, DecisionHolds, TempIsPrivate, TempIsComplete,
           ExtensionHolds, InitializeHolds, Pending, Deciding, Holding
  <2>. QED  BY <2>2, <2>3
<1>. QED  BY <1>2, <1>3, <1>4, <1>5, <1>6, <1>7, <1>8 DEF IInv

LEMMA ReaderKeeps ==
  ASSUME IInv, NEW r \in Readers, ReaderStep(r)
  PROVE  IInv' /\ Document' = Document
<1>1. UNCHANGED <<files, lock, writer>>
  BY DEF ReaderStep, Lstat, Open, Read
<1>2. Document' = Document
  BY <1>1 DEF files, Document, Content
<1>3. PICK x \in [pc   : {"idle", "open", "read"},
                 seen : Inodes \cup {Missing},
                 fd   : {entry, Missing}] :
        reader' = [reader EXCEPT ![r] = x]
  <2> DEFINE X == [pc   : {"idle", "open", "read"},
                   seen : Inodes \cup {Missing},
                   fd   : {entry, Missing}]
  <2>1. NotReading \in X
    BY DEF NotReading
  <2>2. /\ [NotReading EXCEPT !.pc = "open", !.seen = entry] \in X
        /\ [NotReading EXCEPT !.pc = "read", !.fd = entry] \in X
    BY DEF NotReading, IInv, TypeOK
  <2>. QED
    BY <2>1, <2>2 DEF ReaderStep, Lstat, Open, Read
<1>4. TypeOK'
  BY <1>1, <1>3 DEF IInv, TypeOK, files
<1>5. \A v \in Readers : reader'[v].fd \in {reader[v].fd, entry, Missing}
  BY <1>3 DEF IInv, TypeOK
<1>6. ASSUME NEW v \in Readers PROVE ReaderInv(v)'
  <2>1. entry # Missing => data[entry] \in Documents
    BY DEF IInv, Document, Content
  <2>. QED  BY <1>1, <1>5, <2>1 DEF IInv, ReaderInv, files
<1>7. OpenFiles' \subseteq OpenFiles \cup {entry, Missing}
  BY <1>5 DEF OpenFiles
<1>8. ASSUME NEW w \in Writers PROVE WriterInv(w)'
  <2>1. WriterInv(w) /\ Missing \notin Inodes
    BY DEF IInv
  <2>. QED
    BY <1>1, <1>2, <1>7, <2>1
       DEF WriterInv, DecisionHolds, TempIsPrivate, TempIsComplete,
           ExtensionHolds, InitializeHolds, Pending, Deciding, Holding, files
<1>9. LeftoversAreDead'
  BY <1>1, <1>7 DEF IInv, TypeOK, LeftoversAreDead, files
<1>. QED  BY <1>2, <1>4, <1>6, <1>8, <1>9 DEF IInv

-----------------------------------------------------------------------------
LEMMA InitHolds == Init => IInv
<1> SUFFICES ASSUME Init PROVE IInv
  OBVIOUS
<1>1. /\ Document = State!EmptyDocument
      /\ \A w \in Writers : writer[w] = Idle
      /\ \A r \in Readers : reader[r] = NotReading
  BY MissingIsEmpty DEF Init, Document
<1>2. TypeOK
  BY QuietRecords, EmptyIsDocument
     DEF Init, TypeOK, NotReading
<1>3. \A w \in Writers : writer[w].pc = "idle" /\ writer[w].tmp = Missing
  BY <1>1 DEF Idle
<1>4. \A r \in Readers : reader[r].fd = Missing
  BY <1>1 DEF NotReading
<1>. QED
  BY <1>1, <1>2, <1>3, <1>4, EmptyIsDocument
     DEF IInv, WriterInv, DecisionHolds, TempIsPrivate, TempIsComplete,
         ExtensionHolds, InitializeHolds, Pending, Deciding, Holding,
         ReaderInv, LeftoversAreDead, Init

(* Every step but a rename keeps the document; every step keeps IInv.      *)
LEMMA StepKeeps ==
  ASSUME IInv, [Next]_vars
  PROVE  /\ IInv'
         /\ \/ Document' = Document
            \/ \E w \in Writers : Replace(w)
<1>1. CASE UNCHANGED vars
  <2>1. /\ UNCHANGED <<entry, data, leftover, lock, writer, reader>>
        /\ Document' = Document /\ OpenFiles' = OpenFiles
    BY <1>1 DEF vars, files, Document, Content, OpenFiles
  <2>. QED
    BY <2>1 DEF IInv, TypeOK, WriterInv, DecisionHolds, TempIsPrivate,
                TempIsComplete, ExtensionHolds, InitializeHolds, Pending,
                ReaderInv, LeftoversAreDead
<1>2. ASSUME NEW w \in Writers, NEW op \in Operations(w), Call(w, op)
      PROVE  IInv' /\ Document' = Document
  BY <1>2, CallKeeps DEF Call, files, Document, Content
<1>3. ASSUME NEW w \in Writers, WriterStep(w) \/ Kill(w)
      PROVE  IInv' /\ (Document' = Document \/ Replace(w))
  <2>1. CASE Acquire(w)
    BY <2>1, AcquireKeeps DEF Acquire, files, Document, Content
  <2>2. CASE ReadAndDecide(w)
    BY <2>2, ReadAndDecideKeeps DEF ReadAndDecide, files, Document, Content
  <2>3. CASE CreateTemp(w)
    BY <2>3, CreateTempKeeps
  <2>4. CASE FillTemp(w)
    BY <2>4, FillTempKeeps
  <2>5. CASE Replace(w)
    BY <2>5, ReplaceKeeps
  <2>6. CASE WriteFails(w) \/ Release(w) \/ Kill(w)
    BY <2>6, QuietKeeps, KillKeeps
  <2>. QED  BY <1>3, <2>1, <2>2, <2>3, <2>4, <2>5, <2>6 DEF WriterStep
<1>4. ASSUME NEW r \in Readers, ReaderStep(r)
      PROVE  IInv' /\ Document' = Document
  BY <1>4, ReaderKeeps
<1>. QED  BY <1>1, <1>2, <1>3, <1>4 DEF Next

(***************************************************************************)
(* The invariant behind the results below.                                 *)
(***************************************************************************)
THEOREM Invariance == Spec => []IInv
<1>1. IInv /\ [Next]_vars => IInv'
  BY StepKeeps
<1>. QED  BY <1>1, InitHolds, PTL DEF Spec

(***************************************************************************)
(* Every variable of the protocol keeps the type it is declared with.      *)
(***************************************************************************)
THEOREM TypeCorrect == Spec => []TypeOK
<1>1. IInv => TypeOK
  BY DEF IInv
<1>. QED  BY <1>1, Invariance, PTL

(***************************************************************************)
(* read_state_document never sees a partial file, although it takes no     *)
(* lock, inodes are reused, and writers are killed while they write.       *)
(***************************************************************************)
THEOREM NeverTorn == Spec => []NothingTornIsRead
<1>1. IInv => NothingTornIsRead
  <2> SUFFICES ASSUME IInv PROVE NothingTornIsRead
    OBVIOUS
  <2>1. Torn \notin Documents
    BY DEF Documents
  <2>2. Content(Missing) # Torn
    BY <2>1, MissingIsEmpty, EmptyIsDocument
  <2>3. \A r \in Readers : Content(reader[r].fd) # Torn
    BY <2>1, <2>2 DEF IInv, ReaderInv, Content
  <2>. QED  BY <2>1, <2>3 DEF IInv, NothingTornIsRead
<1>. QED  BY <1>1, Invariance, PTL

(***************************************************************************)
(* .state.lock loses no update: what is renamed over state.json was made   *)
(* from the document it replaces.                                          *)
(***************************************************************************)
THEOREM UpdatesAreKept == Spec => []NoLostUpdate
<1>1. IInv => NoLostUpdate
  BY DEF IInv, NoLostUpdate, WriterInv, DecisionHolds, Deciding, At
<1>. QED  BY <1>1, Invariance, PTL

(* A rename is a step of the atomic specification.                         *)
LEMMA ReplaceIsAtomic ==
  ASSUME IInv, NEW w \in Writers, Replace(w)
  PROVE  State!Next
<1> DEFINE op == writer[w].op
<1>1. /\ op \in Operations(w)
      /\ Writes(Document, op, writer[w].saw)
      /\ Document' = Updated(Document, op)
  BY ReplaceKeeps
<1>2. CASE op \in {"transition"} \X State!TransitionEvents
  <2>1. /\ op[2] \in State!TransitionEvents
        /\ State!TransitionWrites(Document, op[2])
        /\ Document' = State!TransitionDoc(Document, op[2])
    BY <1>1, <1>2 DEF Writes, Updated
  <2>. QED  BY <2>1 DEF State!Next, State!TransitionRun
<1>3. CASE op \in {"initialize"} \X Metadata
  <2>1. /\ op[2] \in Metadata /\ State!InitializeWrites(Document)
        /\ Document' = State!InitializeDoc(Document, op[2])
    BY <1>1, <1>3 DEF Writes, Updated
  <2>2. State!InitializeEligible(Document)
    BY <1>3 DEF IInv, WriterInv, InitializeHolds, Pending, Deciding,
                Replace, At
  <2>. QED  BY <2>1, <2>2 DEF State!Next, State!InitializeRunState
<1>4. CASE op \in {"fail"} \X Failures
  <2>1. /\ op[2] \in Failures /\ State!FailureWrites(Document)
        /\ Document' = State!FailureDoc(Document, op[2])
    BY <1>1, <1>4 DEF Writes, Updated
  <2>. QED  BY <2>1 DEF State!Next, State!RecordRunFailure
<1>5. CASE op \in {"decide"} \X State!Decisions
  <2>1. /\ op[2] \in State!Decisions /\ State!DecisionWrites(Document)
        /\ Document' = State!DecisionDoc(Document, op[2])
    BY <1>1, <1>5 DEF Writes, Updated
  <2>. QED  BY <2>1 DEF State!Next, State!RecordHumanDecision
<1>6. CASE op \in {"extend"} \X (OriginalLimit..MaxEffective)
  <2>1. /\ op[2] \in OriginalLimit..MaxEffective
        /\ Document' = State!ExtensionDoc(Document, op[2])
    BY <1>1, <1>6 DEF Updated
  <2>2. MayExtend(Document, op[2])
    BY <1>6 DEF IInv, WriterInv, ExtensionHolds, Pending, Deciding,
                Replace, At
  <2>3. Document.failure \in Failures
    BY <2>2 DEF IInv, Documents, State!Documents, MayExtend,
                State!ExtensionEligible
  <2>4. State!RecordIterationBudgetExtension(Document.failure, op[2])
    BY <2>1, <2>2 DEF State!RecordIterationBudgetExtension, MayExtend
  <2>. QED  BY <2>1, <2>3, <2>4 DEF State!Next
<1>7. CASE w = Session
  BY <1>1, <1>2, <1>3, <1>4, <1>6, <1>7
     DEF Operations, SessionOperations, State!TransitionEvents
<1>8. CASE w # Session
  <2>1. op \in {"transition"} \X {"approval_requested"}
          => op \in {"transition"} \X State!TransitionEvents
    BY DEF State!TransitionEvents
  <2>. QED
    BY <1>1, <1>2, <1>5, <1>8, <2>1 DEF Operations, GateOperations
<1>. QED  BY <1>7, <1>8

(***************************************************************************)
(* The protocol of lock, temporary file and rename implements the atomic   *)
(* operations of RunState: what HumanGateProofs proves of the document     *)
(* holds of state.json whoever reads or writes it, and whoever is killed.  *)
(***************************************************************************)
THEOREM Implements == Spec => ImplementsRunState
<1>1. Init => State!Init
  BY MissingIsEmpty DEF Init, Document, State!Init
<1>2. IInv /\ [Next]_vars => [State!Next]_(State!vars)
  <2> SUFFICES ASSUME IInv, [Next]_vars PROVE [State!Next]_(State!vars)
    OBVIOUS
  <2>1. CASE Document' = Document
    BY <2>1 DEF State!vars
  <2>2. CASE \E w \in Writers : Replace(w)
    BY <2>2, ReplaceIsAtomic
  <2>. QED  BY <2>1, <2>2, StepKeeps
<1>. QED  BY <1>1, <1>2, Invariance, PTL DEF Spec, ImplementsRunState, State!Spec
=============================================================================
