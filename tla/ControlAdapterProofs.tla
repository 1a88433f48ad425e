------------------------ MODULE ControlAdapterProofs ------------------------
(***************************************************************************)
(* The frozen adapter rules a run and an unauthorized or unrecorded        *)
(* profile is never integrated, for any candidates, commands and number of *)
(* edits, rounds and deaths.                                               *)
(***************************************************************************)
EXTENDS ControlAdapter, TLAPS

USE AdapterConstantsAssumption

Typed ==
  /\ configured \in BOOLEAN /\ changed \in BOOLEAN
  /\ store \in [Files -> {"absent", "base"}]
  /\ after \in {"none", "validate", "finalize"}
  /\ tree \in Profiles
  /\ recorded \in [differs : BOOLEAN, profile : Profiles \cup {"none"}]

(* Where the session of a run can be says how far its adapter is.          *)
Creating == session \in {"capture", "store", "bind"}
AdapterHolds ==
  /\ session = "bind" => published
  /\ published => Missing = {}
  /\ legacy => ~published /\ ~Creating /\ bound
  /\ bound /\ ~legacy => published
  /\ ~Creating /\ session # "off" => bound

(* An approved run is left alone by sessions, and only it is integrated.   *)
ApprovedRests ==
  /\ status = "APPROVED" => session = "off"
  /\ integrating # "off" \/ integrated # "none" => status = "APPROVED"

(* What was built is still in the worktree, or somebody edited it since.   *)
BuiltIsThere ==
  integrating \in {"hash again", "transport again"} /\ ~late =>
    tree = manifest.profile

IInv ==
  Typed /\ AdapterHolds /\ ApprovedRests /\ BuiltIsThere
    /\ TransportIsAuthorized /\ TransportIsRecorded

-----------------------------------------------------------------------------
(* A captured file that is not missing has the bytes of the base commit.   *)
LEMMA StoredIsBase ==
  ASSUME Typed, Missing = {}
  PROVE  \A f \in Captured : store[f] = "base"
BY DEF Typed, Missing, Captured

LEMMA InitIInv == Init => IInv
<1>. SUFFICES ASSUME Init PROVE IInv
  OBVIOUS
<1>1. Typed
  BY DEF Init, Typed, Nothing, Profiles
<1>2. AdapterHolds
  <2>1. CASE legacy = TRUE  BY <2>1 DEF Init, AdapterHolds, Creating
  <2>2. CASE legacy = FALSE  BY <2>2 DEF Init, AdapterHolds, Creating
  <2>. QED  BY <2>1, <2>2 DEF Init
<1>3. ApprovedRests /\ BuiltIsThere
  BY DEF Init, ApprovedRests, BuiltIsThere
<1>4. TransportIsAuthorized /\ TransportIsRecorded
  BY DEF Init, TransportIsAuthorized, TransportIsRecorded
<1>. QED  BY <1>1, <1>2, <1>3, <1>4 DEF IInv

(***************************************************************************)
(* The steps of a session that is not finalizing change neither the        *)
(* integration nor the worktree, and the run was not approved.             *)
(***************************************************************************)
Aside ==
  /\ UNCHANGED <<integrating, integrated, tree, flagged, late>>
  /\ session # "off"
  /\ status' = status \/ status' = "BLOCKED"

LEMMA AsideKeeps ==
  ASSUME IInv, Aside
  PROVE  ApprovedRests' /\ BuiltIsThere' /\ TransportIsAuthorized'
           /\ TransportIsRecorded'
BY DEF IInv, Aside, ApprovedRests, BuiltIsThere, TransportIsAuthorized,
   TransportIsRecorded

LEMMA CreationKeeps ==
  ASSUME IInv,
         RefuseCapture \/ Capture \/ StoreFile \/ PublishManifest \/ BindRun
  PROVE  IInv'
<1>. USE DEF adapter, run, review, integration, bounds
<1>1. Aside
  BY DEF IInv, AdapterHolds, Aside, RefuseCapture, Capture, StoreFile,
     PublishManifest, BindRun, At, Goto, Block
<1>2. Typed'
  BY DEF IInv, Typed, RefuseCapture, Capture, StoreFile, PublishManifest,
     BindRun
<1>3. AdapterHolds'
  <2>. USE DEF IInv, AdapterHolds, Creating, At, Goto, Block
  <2>1. CASE RefuseCapture  BY <2>1 DEF RefuseCapture, Missing, Captured
  <2>2. CASE Capture  BY <2>2 DEF Capture, Missing, Captured
  <2>3. CASE StoreFile
    BY <2>3 DEF StoreFile, Missing, Captured, Typed
  <2>4. CASE PublishManifest
    BY <2>4 DEF PublishManifest, AllStored, Missing, Captured
  <2>5. CASE BindRun  BY <2>5 DEF BindRun, Missing, Captured
  <2>. QED  BY <2>1, <2>2, <2>3, <2>4, <2>5
<1>. QED  BY <1>1, <1>2, <1>3, AsideKeeps DEF IInv

LEMMA PhasesKeep ==
  ASSUME IInv,
         \/ Bootstrap \/ Validate \/ Execute \/ Exhaust \/ Review \/ Verdict
         \/ ReadEntries \/ PublishReview
  PROVE  IInv'
<1>. USE DEF adapter, run, review, integration, bounds, Bootstrap, Validate,
         RunCommands, Execute, Exhaust, Review, Verdict, ReadEntries,
         PublishReview, Instructed, At, Goto, Block
<1>1. Aside
  BY DEF IInv, AdapterHolds, Aside
<1>2. Typed'
  <2>1. store' \in [Files -> {"absent", "base"}]
    BY DEF IInv, Typed, Files
  <2>2. after' \in {"none", "validate", "finalize"}
    BY DEF IInv, Typed
  <2>. QED  BY <2>1, <2>2 DEF IInv, Typed
<1>3. ~Creating /\ ~Creating'
  BY DEF Creating
<1>4. /\ UNCHANGED <<configured, legacy, published, bound>>
      /\ published => store' = store
  OBVIOUS
<1>5. published => Missing' = Missing
  BY <1>4 DEF Missing, Captured
<1>6. AdapterHolds'
  BY <1>1, <1>3, <1>4, <1>5 DEF IInv, AdapterHolds, Aside, Creating
<1>. QED  BY <1>1, <1>2, <1>6, AsideKeeps DEF IInv

LEMMA CandidateKeeps ==
  ASSUME IInv, ReadChange \/ Judge
  PROVE  IInv'
<1>. USE DEF adapter, run, review, integration, bounds, ReadChange, Judge,
         At, Goto, Block
<1>1. Aside
  BY DEF IInv, AdapterHolds, Aside
<1>2. Typed'
  <2>1. recorded' \in [differs : BOOLEAN, profile : Profiles \cup {"none"}]
    BY DEF IInv, Typed
  <2>2. changed' \in BOOLEAN
    BY DEF IInv, Typed
  <2>. QED  BY <2>1, <2>2 DEF IInv, Typed
<1>3. ~Creating /\ ~Creating' /\ session' # "bind"
  BY DEF IInv, Typed, Creating
<1>4. UNCHANGED <<configured, legacy, published, bound, store>>
  OBVIOUS
<1>5. Missing' = Missing
  BY <1>4 DEF Missing, Captured
<1>6. AdapterHolds'
  BY <1>1, <1>3, <1>4, <1>5 DEF IInv, AdapterHolds, Aside, Creating
<1>. QED  BY <1>1, <1>2, <1>6, AsideKeeps DEF IInv

(* Nothing was integrated before a run is approved: "late" starts again.   *)
LEMMA FinalizeKeeps ==
  ASSUME IInv, Finalize
  PROVE  IInv'
<1>. USE DEF adapter, run, review, integration, bounds, Finalize, At, Block
<1>1. Typed' /\ AdapterHolds'
  BY DEF IInv, Typed, AdapterHolds, Creating, Missing, Captured
<1>2. integrating = "off" /\ integrated = "none"
  BY DEF IInv, ApprovedRests
<1>. QED
  BY <1>1, <1>2 DEF IInv, ApprovedRests, BuiltIsThere, TransportIsAuthorized,
     TransportIsRecorded

LEMMA ResumeKeeps ==
  ASSUME IInv, Resume
  PROVE  IInv'
<1>. USE DEF adapter, run, review, integration, bounds, Resume
<1>1. Typed' /\ AdapterHolds'
  BY DEF IInv, Typed, AdapterHolds, Creating, Missing, Captured
<1>. QED
  BY <1>1 DEF IInv, ApprovedRests, BuiltIsThere, TransportIsAuthorized,
     TransportIsRecorded

(* The bytes that are committed are compared with the entries of the       *)
(* manifest, the candidate with the record: both looks must agree.         *)
LEMMA IntegrateKeeps ==
  ASSUME IInv, Integrate
  PROVE  IInv'
<1>. USE DEF adapter, run, review, bounds
<1>1. Typed' /\ AdapterHolds' /\ ApprovedRests'
  BY DEF IInv, Typed, AdapterHolds, Creating, Missing, Captured, Integrate,
     ApprovedRests
<1>2. CASE integrated' = integrated
  <2>1. /\ Look.hash = "transport" /\ Look.transport = "build"
        /\ Look.build = "hash again"
    BY DEF Look
  <2>2. /\ integrating' = "hash again" => integrating = "build" /\ Passes
        /\ integrating' = "transport again" => integrating = "hash again"
        /\ UNCHANGED <<tree, manifest, late>>
    BY <2>1 DEF Integrate
  <2>3. BuiltIsThere'
    BY <2>2 DEF IInv, BuiltIsThere, Passes
  <2>. QED
    BY <1>1, <1>2, <2>3 DEF IInv, Integrate, TransportIsAuthorized,
       TransportIsRecorded
<1>3. CASE integrated' # integrated
  <2>1. /\ integrating = "transport again" /\ Transports
        /\ integrating' = "off" /\ integrated' = manifest.profile
        /\ UNCHANGED <<flagged, tree, manifest, recorded, late>>
    BY <1>3 DEF Integrate, Passes
  <2>2. TransportIsAuthorized'
    BY <2>1 DEF TransportIsAuthorized, Transports, Allowed
  <2>3. manifest.profile # "base" /\ ~late =>
          recorded.differs /\ recorded.profile = manifest.profile
    BY <2>1 DEF IInv, BuiltIsThere, Transports
  <2>4. recorded = [differs |-> recorded.differs, profile |-> recorded.profile]
        /\ recorded.differs \in BOOLEAN
    BY DEF IInv, Typed
  <2>5. TransportIsRecorded'
    BY <2>1, <2>3, <2>4 DEF TransportIsRecorded
  <2>6. BuiltIsThere'
    BY <2>1 DEF BuiltIsThere
  <2>. QED  BY <1>1, <2>2, <2>5, <2>6 DEF IInv
<1>. QED  BY <1>2, <1>3

LEMMA WorldKeeps ==
  ASSUME IInv, Edit \/ Die
  PROVE  IInv'
<1>. USE DEF adapter, run, review, integration, bounds, Edit, Die, At
<1>1. Typed' /\ AdapterHolds' /\ ApprovedRests'
  BY DEF IInv, Typed, AdapterHolds, Creating, Missing, Captured, ApprovedRests
<1>2. BuiltIsThere' /\ TransportIsAuthorized' /\ TransportIsRecorded'
  BY DEF IInv, ApprovedRests, BuiltIsThere, TransportIsAuthorized,
     TransportIsRecorded
<1>. QED  BY <1>1, <1>2 DEF IInv

LEMMA StepKeeps == IInv /\ [Next]_vars => IInv'
<1>. SUFFICES ASSUME IInv, [Next]_vars PROVE IInv'
  OBVIOUS
<1>1. CASE Session
  BY <1>1, CreationKeeps, PhasesKeep, CandidateKeeps, FinalizeKeeps
     DEF Session
<1>2. CASE Resume \/ Integrate \/ Edit \/ Die
  BY <1>2, ResumeKeeps, IntegrateKeeps, WorldKeeps
<1>3. CASE UNCHANGED vars
  <2>. USE <1>3 DEF vars, adapter, run, review, integration, bounds
  <2>1. Typed' /\ AdapterHolds'
    BY DEF IInv, Typed, AdapterHolds, Creating, Missing, Captured
  <2>2. ApprovedRests' /\ BuiltIsThere'
    BY DEF IInv, ApprovedRests, BuiltIsThere
  <2>3. TransportIsAuthorized' /\ TransportIsRecorded'
    BY DEF IInv, TransportIsAuthorized, TransportIsRecorded
  <2>. QED  BY <2>1, <2>2, <2>3 DEF IInv
<1>. QED  BY <1>1, <1>2, <1>3 DEF Next

-----------------------------------------------------------------------------
(* The invariant holds of every run, whatever it configures.               *)
THEOREM Invariance == Spec => []IInv
BY InitIInv, StepKeeps, PTL DEF Spec

(* A run that may be resumed has its whole adapter: init-run was killed    *)
(* before write_run_metadata, or materialize_control_adapter was done.     *)
THEOREM AdapterIsWhole == Spec => []ResumableIsComplete
<1>1. IInv => ResumableIsComplete
  BY StoredIsBase DEF IInv, AdapterHolds, ResumableIsComplete
<1>. QED  BY <1>1, Invariance, PTL

(* assert_candidate_transport: no profile is integrated without the flag.  *)
THEOREM TransportNeedsFlag == Spec => []TransportIsAuthorized
<1>1. IInv => TransportIsAuthorized
  BY DEF IInv
<1>. QED  BY <1>1, Invariance, PTL

(* assert_candidate_transport and the comparison of the bytes: unless the  *)
(* worktree is edited during integrate, what is integrated was recorded.   *)
THEOREM TransportNeedsRecord == Spec => []TransportIsRecorded
<1>1. IInv => TransportIsRecorded
  BY DEF IInv
<1>. QED  BY <1>1, Invariance, PTL

(* When every configured command is rewritten so that it does not run a    *)
(* file of the worktree, the controller obeys, sends and runs nothing but  *)
(* what the base commit holds, in any phase of any session.  Adapter.cfg   *)
(* checks which commands are.                                              *)
THEOREM ControlStaysBase ==
  ASSUME "worktree" \notin GateSources
  PROVE  Spec => []ControlIsBase
<1>1. Init => ControlIsBase
  BY DEF Init, ControlIsBase
<1>2. IInv /\ ControlIsBase /\ [Next]_vars => ControlIsBase'
  <2>. SUFFICES ASSUME IInv, ControlIsBase, [Next]_vars PROVE ControlIsBase'
    OBVIOUS
  <2>1. legacy' = legacy
    BY DEF vars, adapter, run, Next, Session, RefuseCapture, Capture,
       StoreFile, PublishManifest, BindRun, Bootstrap, Validate, RunCommands,
       Execute, Exhaust, ReadChange, Judge, Review, Verdict, ReadEntries,
       PublishReview, Finalize, Resume, Integrate, Edit, Die
  <2>2. CASE Bootstrap \/ Validate \/ Execute \/ Review
    <3>1. ~legacy => published /\ \A f \in Captured : store[f] = "base"
      BY <2>2, StoredIsBase DEF IInv, AdapterHolds, Creating, Bootstrap,
         Validate, RunCommands, Execute, Review, At
    <3>2. legacy => ~published
      BY DEF IInv, AdapterHolds
    <3>3. ~legacy => ControlProfile = "base"
      BY <3>1 DEF ControlProfile, Captured, IInv, Typed, Files
    <3>4. Instruction = "base"
      BY <3>1, <3>2 DEF Instruction, Captured, Files
    <3>5. \A source \in Gates :
            Obeyed(source) \subseteq IF legacy THEN {"profile"} ELSE {}
      BY <3>1, <3>2, <3>3 DEF Gates, Obeyed, FrozenScript, Captured, Files
    <3>. QED
      BY <2>1, <2>2, <3>3, <3>4, <3>5 DEF ControlIsBase, Bootstrap, Validate,
         RunCommands, Execute, Review, Instructed
  <2>3. CASE ~(Bootstrap \/ Validate \/ Execute \/ Review)
    <3>1. strayed' = strayed
      BY <2>3 DEF vars, Next, Session, RefuseCapture, Capture, StoreFile,
         PublishManifest, BindRun, Exhaust, ReadChange, Judge, Verdict,
         ReadEntries, PublishReview, Finalize, Resume, Integrate, Edit, Die
    <3>. QED  BY <2>1, <3>1 DEF ControlIsBase
  <2>. QED  BY <2>2, <2>3
<1>. QED  BY <1>1, <1>2, Invariance, PTL DEF Spec
=============================================================================
