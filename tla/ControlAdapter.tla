--------------------------- MODULE ControlAdapter ---------------------------
(***************************************************************************)
(* The control adapter of a run: profile, instructions and gate scripts    *)
(* are captured from the base commit before the executor starts, and rule  *)
(* the run from then on; the project.toml of the worktree is a candidate   *)
(* that may be transported into the integration, when the run was created  *)
(* with --allow-candidate-profile, and is never obeyed.                    *)
(*                                                                         *)
(* Anybody may edit the project.toml of the worktree at any time, and the  *)
(* session may die between any two steps.  Of the worktree, only that file *)
(* is kept; which phase a resumption starts with is left open (RunLoop     *)
(* models how it is chosen).                                               *)
(***************************************************************************)
EXTENDS Argv

CONSTANTS
  Candidates,  \* valid profiles that differ from the one of the base commit
  Commands,    \* pairs <<interpreter, arguments>> a profile may configure
  MaxEdits,    \* bound on edits of the worktree's project.toml
  MaxRounds,   \* bound on executor phases
  MaxDeaths    \* bound on sessions that die

ASSUME AdapterConstantsAssumption ==
  /\ Candidates \cap {"base", "broken", "deleted", "none"} = {}
  /\ MaxEdits \in Nat /\ MaxRounds \in Nat /\ MaxDeaths \in Nat

(* project.toml as in the base commit, a candidate, invalid, or deleted.   *)
Profiles == Candidates \cup {"base", "broken", "deleted"}

Files == {"instruction", "profile", "script"}

VARIABLES
  configured,  \* the base commit has a project.toml
  legacy,      \* the run is older than the control adapter
  flagged,     \* --allow-candidate-profile, kept in the metadata
  store,       \* control-adapter/files: the bytes of each file
  published,   \* control-adapter/manifest.json exists
  bound,       \* the metadata of the run is written
  status,      \* state.json
  session, after,   \* where the session is; after accepting a candidate
  tree,        \* the project.toml of the worktree
  changed,     \* profile_path_changed, as it was read
  before,      \* BEFORE_HASH
  manifest,    \* reviewed_manifest.json: its entry and its snapshot hash
  recorded,    \* candidate-profile.json
  integrating, integrated,  \* where integrate is; the profile it committed
  strayed,     \* history: control that did not come from the base commit
  late,        \* history: the worktree was edited after the approval
  rounds, edits, deaths

run == <<configured, legacy, flagged>>
adapter == <<run, store, published, bound>>
review == <<before, manifest>>
integration == <<integrating, integrated>>
bounds == <<rounds, edits, deaths>>
vars == <<adapter, status, session, after, tree, changed, review, recorded,
          integration, strayed, late, bounds>>

Nothing == [differs |-> FALSE, profile |-> "none"]
Unreviewed == [profile |-> "none", hash |-> "none"]

(* A run about to be created, or a legacy one, bound and interrupted. *)
Init ==
  /\ configured \in BOOLEAN
  /\ legacy \in BOOLEAN /\ flagged \in (IF legacy THEN {FALSE} ELSE BOOLEAN)
  /\ store = [f \in Files |-> "absent"]
  /\ published = FALSE /\ bound = legacy
  /\ status = "EXECUTING"
  /\ session = (IF legacy THEN "off" ELSE "capture") /\ after = "none"
  /\ tree = "base" /\ changed = FALSE
  /\ before = "none" /\ manifest = Unreviewed /\ recorded = Nothing
  /\ integrating = "off" /\ integrated = "none"
  /\ strayed = {} /\ late = FALSE
  /\ rounds = 0 /\ edits = 0 /\ deaths = 0

-----------------------------------------------------------------------------
At(label) == session = label
Goto(label) == session' = label /\ UNCHANGED status
Block == session' = "off" /\ status' = "BLOCKED"

(* What is captured: without a profile there is nothing to point to.       *)
Captured == IF configured THEN Files ELSE {}
Missing == {f \in Captured : store[f] = "absent"}

(* load_control_profile: the captured one, the default one that stands for *)
(* a base commit without a profile, or, for a legacy run, the live one,    *)
(* which raises ProfileError when it is broken.                            *)
ControlProfile == IF store["profile"] # "absent" THEN store["profile"]
                  ELSE IF published THEN "base" ELSE tree

(* load_frozen_instruction_text: frozen, or captured again from the base. *)
Instruction ==
  IF published /\ configured THEN store["instruction"] ELSE "base"

(* What the configured commands run once they are rewritten; a command     *)
(* whose script the base commit lacks is refused.                          *)
GateSources ==
  {Runs(c[1], Rewrite(c[1], c[2])) : c \in
     {c \in Commands : Capturable(c[1], c[2])}}

(* rewrite_frozen_entrypoint: the frozen copy, or else the blob of the     *)
(* base commit, which is then stored.                                      *)
FrozenScript == IF published THEN store["script"] ELSE "base"

(* The default profile has no commands. *)
Gates == IF ~configured /\ ControlProfile = "base" THEN {"none"}
         ELSE GateSources

Obeyed(source) ==
  {f \in {"profile"} : ControlProfile # "base"} \cup
  {f \in {"script"} :
     source = "worktree" \/ (source = "frozen" /\ FrozenScript # "base")}

(* verify_control_adapter_binding *)
Verified == IF legacy THEN ~published
            ELSE published /\ \A f \in Captured : store[f] = "base"

(* Allowed: validate_authorization; a legacy run has no authorization. *)
MissingIsAllowed == flagged \/ legacy   \* fault: no authorization refuses
Allowed == flagged

-----------------------------------------------------------------------------
(* init-run *)

(* capture_control_adapter: a configured file is not in the base commit. *)
RefuseCapture ==
  /\ At("capture") /\ Block
  /\ UNCHANGED <<adapter, after, tree, changed, review, recorded,
                 integration, strayed, late, bounds>>

Capture ==
  /\ At("capture") /\ Goto("store")
  /\ UNCHANGED <<adapter, after, tree, changed, review, recorded,
                 integration, strayed, late, bounds>>

(* materialize_control_adapter *)
StoreFile ==
  /\ At("store")
  /\ \E f \in Missing : store' = [store EXCEPT ![f] = "base"]
  /\ UNCHANGED <<run, published, bound, status, session, after,
                 tree, changed, review, recorded, integration, strayed, late,
                 bounds>>

SomeStored == Missing # Captured   \* fault: the manifest comes too early
AllStored == Missing = {}

PublishManifest ==
  /\ At("store") /\ AllStored /\ Goto("bind")
  /\ published' = TRUE
  /\ UNCHANGED <<run, store, bound, after, tree, changed, review,
                 recorded, integration, strayed, late, bounds>>

(* write_run_metadata: from here on the run can be resumed. *)
BindRun ==
  /\ At("bind") /\ Goto("bootstrap")
  /\ bound' = TRUE
  /\ UNCHANGED <<run, store, published, after, tree, changed,
                 review, recorded, integration, strayed, late, bounds>>

-----------------------------------------------------------------------------
(* The phases *)

(* run-bootstrap, run-validations: every command of the control profile is *)
(* run on its own; one that fails blocks the run.                          *)
RunCommands(phase, next) ==
  /\ At(phase)
  /\ \/ /\ ControlProfile # "broken"
        /\ \E source \in Gates :
             /\ strayed' = strayed \cup Obeyed(source)
             /\ store' = IF published \/ source # "frozen" THEN store
                         ELSE [store EXCEPT !["script"] = "base"]
        /\ (Goto(next) \/ Block)
     \/ /\ ControlProfile = "broken" /\ Block
        /\ UNCHANGED <<store, strayed>>
  /\ UNCHANGED <<run, published, bound, after, tree, changed,
                 review, recorded, integration, late, bounds>>

Bootstrap == RunCommands("bootstrap", "execute")
Validate == RunCommands("validate", "review")

(* The instruction file the controller adds to the prompt of an agent      *)
(* phase, and its limits.  The text of the prompt also sends the agent to  *)
(* the worktree's project.toml, for the documentation that it lists: that  *)
(* is what the agent works on, and no part of the control.                 *)
Instructed ==
  strayed' = strayed
    \cup (IF Instruction # "base" THEN {"instruction"} ELSE {})
    \cup (IF ControlProfile # "base" THEN {"profile"} ELSE {})

Execute ==
  /\ At("execute") /\ rounds < MaxRounds
  /\ rounds' = rounds + 1
  /\ after' = "validate"
  /\ Instructed /\ (Goto("accept") \/ Block)
  /\ UNCHANGED <<adapter, tree, changed, review, recorded, integration, late,
                 edits, deaths>>

(* The budget is spent. *)
Exhaust ==
  /\ At("execute") /\ rounds = MaxRounds /\ Block
  /\ UNCHANGED <<adapter, after, tree, changed, review, recorded,
                 integration, strayed, late, bounds>>

(* accept_candidate_profile reads whether project.toml changed, ...        *)
ReadChange ==
  /\ At("accept") /\ Goto("judge")
  /\ changed' = (tree # "base")
  /\ UNCHANGED <<adapter, after, tree, review, recorded, integration,
                 strayed, late, bounds>>

(* ... then reads it again, to judge and record what it found.             *)
Acceptable ==
  Verified /\ IF changed THEN Allowed /\ tree # "broken" ELSE tree = "base"

Judge ==
  /\ At("judge")
  /\ \/ /\ Acceptable /\ Goto(after)
        /\ recorded' = [differs |-> changed, profile |-> tree]
     \/ /\ ~Acceptable /\ Block
        /\ UNCHANGED recorded
  /\ UNCHANGED <<adapter, after, tree, changed, review, integration, strayed,
                 late, bounds>>

Review ==
  /\ At("review")
  /\ before' = tree
  /\ Instructed /\ (Goto("reviewing") \/ Block)
  /\ UNCHANGED <<adapter, after, tree, changed, manifest, recorded,
                 integration, late, bounds>>

(* The verdict, for a worktree that is as it was before the review. *)
Verdict ==
  /\ At("reviewing")
  /\ \/ tree = before /\ (Goto("execute") \/ Goto("entries"))
     \/ Block
  /\ UNCHANGED <<adapter, after, tree, changed, review, recorded,
                 integration, strayed, late, bounds>>

(* build_snapshot_manifest reads the entries, and then the hash. *)
ReadEntries ==
  /\ At("entries") /\ Goto("hash")
  /\ manifest' = [profile |-> tree, hash |-> "none"]
  /\ UNCHANGED <<adapter, after, tree, changed, before, recorded,
                 integration, strayed, late, bounds>>

(* prepare_review_artifacts publishes the manifest of the reviewed hash;   *)
(* the candidate is accepted, and recorded, only after that.               *)
PublishReview ==
  /\ At("hash")
  /\ \/ /\ tree = before /\ manifest' = [manifest EXCEPT !.hash = tree]
        /\ after' = "finalize" /\ Goto("accept")
     \/ /\ tree # before /\ manifest' = Unreviewed
        /\ Block /\ UNCHANGED after
  /\ UNCHANGED <<adapter, tree, changed, before, recorded, integration,
                 strayed, late, bounds>>

(* finalize_reviewed_run *)
Finalize ==
  /\ At("finalize")
  /\ IF tree = before THEN session' = "off" /\ status' = "APPROVED" ELSE Block
  /\ late' = FALSE
  /\ UNCHANGED <<adapter, after, tree, changed, review, recorded,
                 integration, strayed, bounds>>

-----------------------------------------------------------------------------
(* Later sessions, integration, and the world *)

(* validate_run: evaluate_live_profile.  It reads the file twice as well,  *)
(* but what it accepts is a file that could be accepted at the second look. *)
Resume ==
  /\ At("off") /\ bound /\ status # "APPROVED"
  /\ Verified
  /\ (tree = "base" \/ (Allowed /\ tree # "broken"))
  /\ status' = "EXECUTING" /\ session' \in {"execute", "review"}
  /\ UNCHANGED <<adapter, after, tree, changed, review, recorded,
                 integration, strayed, late, bounds>>

(* assert_candidate_transport, for a manifest with project.toml in it *)
AnyRecordTransports ==   \* fault: the record is not compared
  manifest.profile # "base" => Allowed /\ recorded # Nothing
Transports ==
  /\ Verified
  /\ manifest.profile # "base" =>
       /\ Allowed
       /\ tree # "broken"
       /\ recorded.differs /\ recorded.profile = tree

(***************************************************************************)
(* integrate_reviewed_snapshot verifies the hash and the transport, builds *)
(* the commit from bytes that match the entries, and verifies both again;  *)
(* each is a separate look at the worktree, and each may raise.            *)
(***************************************************************************)
Look == [hash |-> "transport", transport |-> "build", build |-> "hash again"]
Passes ==
  CASE integrating \in {"hash", "hash again"} -> tree = manifest.hash
    [] integrating \in {"transport", "transport again"} -> Transports
    [] integrating = "build" -> tree = manifest.profile

Integrate ==
  /\ status = "APPROVED"
  /\ \/ /\ integrating = "off" /\ integrated = "none"
        /\ integrating' = "hash" /\ UNCHANGED integrated
     \/ /\ integrating # "off" /\ ~Passes
        /\ integrating' = "off" /\ UNCHANGED integrated
     \/ /\ integrating \in {"hash", "transport", "build"} /\ Passes
        /\ integrating' = Look[integrating] /\ UNCHANGED integrated
     \/ /\ integrating = "hash again" /\ Passes
        /\ integrating' = "transport again" /\ UNCHANGED integrated
     \/ /\ integrating = "transport again" /\ Passes
        /\ integrating' = "off" /\ integrated' = manifest.profile
  /\ UNCHANGED <<adapter, status, session, after, tree, changed, review,
                 recorded, strayed, late, bounds>>

Edit ==
  /\ edits < MaxEdits /\ edits' = edits + 1
  /\ tree' \in Profiles \ {tree}
  /\ late' = (late \/ status = "APPROVED")
  /\ UNCHANGED <<adapter, status, session, after, changed, review, recorded,
                 integration, strayed, rounds, deaths>>

Die ==
  /\ ~At("off") /\ session' = "off"
  /\ deaths < MaxDeaths /\ deaths' = deaths + 1
  /\ UNCHANGED <<adapter, status, after, tree, changed, review, recorded,
                 integration, strayed, late, rounds, edits>>

Session ==
  \/ RefuseCapture \/ Capture \/ StoreFile \/ PublishManifest \/ BindRun
  \/ Bootstrap \/ Execute \/ Exhaust \/ ReadChange \/ Judge \/ Validate
  \/ Review \/ Verdict \/ ReadEntries \/ PublishReview \/ Finalize

Next == Session \/ Resume \/ Integrate \/ Edit \/ Die

Spec == Init /\ [][Next]_vars

-----------------------------------------------------------------------------
(* Properties *)

(***************************************************************************)
(* "Execute the captured gate/hook script, not a candidate replacement":   *)
(* whatever is edited, and whenever, the controller takes the profile and  *)
(* limits it obeys, the instruction files it sends and the scripts it runs *)
(* from the base commit, in every phase and for every configured command.  *)
(* A legacy run has no frozen profile.                                     *)
(***************************************************************************)
ControlIsBase == strayed \subseteq (IF legacy THEN {"profile"} ELSE {})

(***************************************************************************)
(* A run that was interrupted while it was created can either not be       *)
(* resumed, or has its whole adapter: no session runs with a part of it.   *)
(***************************************************************************)
ResumableIsComplete ==
  bound /\ ~legacy => published /\ \A f \in Captured : store[f] = "base"

(***************************************************************************)
(* "The authorization is only the flag of agent-loop run": no edit at any  *)
(* moment of reviewing, resuming or integrating gets a profile integrated  *)
(* that the run was not created to transport.                              *)
(***************************************************************************)
TransportIsAuthorized == integrated \notin {"none", "base"} => flagged

(***************************************************************************)
(* "verify and integrate transport the change only when the recorded       *)
(* authorization and the reviewed snapshot agree": what is integrated is   *)
(* the candidate that was validated and recorded, also when the worktree   *)
(* was changed and changed back while it was reviewed.  It takes several   *)
(* edits during integrate itself, under its own looks, to break this.      *)
(***************************************************************************)
TransportIsRecorded ==
  integrated \notin {"none", "base"} /\ ~late =>
    recorded = [differs |-> TRUE, profile |-> integrated]
=============================================================================
