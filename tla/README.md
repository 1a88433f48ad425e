# A verification project for the agent loop

TLA+ models of "Probable Happiness", a harness that lets one coding agent
execute a task in an isolated git worktree, lets another review the result,
and turns an approved worktree into a commit. The models are translated from
the code under `scripts/agents/`, checked by TLC on small instances, and, for
the parts whose invariants carry the rest (the run document and its lock, the
agent loop and its resumptions, file writes, the human gate, integration and
publication, the outbox and what a reader sees of a summary, phase supervision,
the control adapter), proved with TLAPS.

Paths below are relative to the repository root; `dx/` is
`scripts/agents/dx/`.

## 1. The system

```
agent-loop run | resume            agent-loop integrate         systemd unit
        |                                  |                         |
   dx/cli.py (.resume.lock)         dx/integration.py          dx/bridge.py
        |                           dx/github_branch.py              |
   run_task.sh (agent-loop.lock)           |                   dx/telegram.py
        |   \__ dx/runtime.py supervise    |                         |
        |        (one systemd scope per phase)                       |
        v                                  v                         v
   run directory: state.json, iteration, cursor-N.json, review-N*.json,
   reviewer-N-result.json, reviewed_manifest.json, integration.json,
   github_branch.json, telegram_notify.json          + the git worktree
```

| Component | State it keeps | Operations | Hard behaviour |
|---|---|---|---|
| run document (`dx/state_machine.py`) | `state.json`: status, metadata, failure, budget, decision | seven kinds of transition, initialize, fail, extend, decide | several writers, lock-free readers, the first failure must survive |
| atomic writes (`dx/atomic.py`) | files of the run directory | replace, publish exclusively, scoped lock | failing calls, kills, power loss |
| agent loop (`run_task.sh`) | the iteration file, reports, reviews, worktree | executor, validations, review, verdict, finalisation | kill and signals between any two commands |
| resumption and budget (`dx/runstate.py`, `dx/cli.py`) | the budget chain in `state.json` | plan, authorize an extension | infers the phase from leftovers; plans before it locks |
| reviewed snapshot (`dx/snapshot.py`, `dx/approval.py`) | `reviewed_manifest.json` | freeze, verify | drift between check and use |
| integration (`dx/integration.py`) | `integration.json`, the canonical branch | verify, build the commit, fast-forward, record | races with operators, partial failure |
| publication (`dx/github_branch.py`) | `github_branch.json`, local and remote ref | prepare, ref, push, confirm, record | lost answers, resumption |
| outbox and bridge (`dx/approval.py`, `dx/bridge.py`, `dx/telegram.py`) | `telegram_notify.json`, the lock of the bot | enqueue, list, send, record | at-least-once delivery, replaced notices |
| supervision (`dx/runtime.py`, `dx/systemd_scope.py`) | a systemd scope, report and result files | start, poll, stop, reap, report | orphans, races of exit, signal, timeout and limits, a systemctl that fails or answers nothing |
| human gate, retired (`dx/approval.py`) | request and offer files, the decision in `state.json`, `.approval.lock` | request, press, claim, reject, offer, wait | presses race with each other, with the offer and with other writers of the run; a claim dies between token and decision |
| control adapter (`dx/control_adapter.py`) | `control-adapter/`, `candidate-profile.json` | capture, materialize, verify, rewrite commands, accept and transport a candidate | the worktree's copy changes at any time; argv scans; interrupted creation |
| profile, config, paths | none | parse and validate | pure functions, not modelled |
| manual review, wrapper, installation | none | | not modelled |

What makes each correct is stated in section 4; `PROJECT.json` lists the
hazards line by line.

## 2. The modules

| Module | Models | Built from |
|---|---|---|
| `RunState` | `state.json` and its operations, each one step | |
| `RunStateFile` | one operation as lock, read, temporary file, rename, release | refines `RunState` |
| `RunLoop` | the fresh run and the resume sessions | instance of `RunState` for `state.json` |
| `Promotion` | what integrate and publish promise | |
| `Integration` | how the two commands do it | refines `Promotion` |
| `AtomicFile` | one path under `atomic_write_*` and `exclusive_write_json` | |
| `Chunks` | how a summary is split into messages, as functions of lengths | |
| `Outbox` | notices, bridges and the chat | uses `Chunks` |
| `Supervisor` | `supervise_command` and the systemd scope | |
| `HumanGate` | the gate of `dx/approval.py` and everybody else who writes the run | extends `RunState`; refines it |
| `Argv` | the scans of configured commands, and what interpreters do with the same arguments | |
| `ControlAdapter` | one run from capture to integration while `project.toml` is edited | uses `Argv` |
| `HumanGateProofs` (with `RunState`), `RunStateFileProofs`, `RunLoopProofs`, `AtomicFileProofs`, `SupervisorProofs`, `IntegrationProofs`, `ControlAdapterProofs`, `OutboxProofs` (with `Chunks`) | theorems | extend the modules they are about |

The `MC*` modules add the symmetry sets TLC uses, and the sets of reports
(`MCOutbox`) and of commands (`MCControlAdapter`) that are tried.

### How state and actions correspond to the code

**RunState.** The variable `doc` is the JSON document; a missing file and a
null status are one value, `NoStatus`, because no writer tells them apart. An
operation is a pair of operators, when it writes and what it writes
(`TransitionWrites`/`TransitionDoc` for `transition_run`, and so on), so that
the other modules use the same text. An operation that raises, or finds its
result applied, is a stutter. The budget is its effective limit and the limit
the latest extension started from: limits of a chain strictly grow, so equal
limits are equal budgets and the compare-and-set compares limits.

**RunStateFile.** `entry` is the inode the name `state.json` has, `data` what
the inodes hold. A writer goes through `Acquire`, `ReadAndDecide`,
`CreateTemp`, `FillTemp`, `Replace`, `Release`, may fail at the write, and may
be killed anywhere; the kernel then drops its lock and its temporary file
stays (`leftover`), with an inode that is not used again. A reader does `Lstat`, `Open`, `Read` without a lock and keeps its inode
across renames, as `read_state_document` does. A loop session issues the
operations of `cmd_transition_state`, `cmd_record_failure`, `cmd_init_run` and
the extension; gates issue the operations of `dx/approval.py`. Only the loop
session records failures. `initialize_run_state` itself refuses only a bound
document (`InitializeWrites`); that it is called on a fresh one is what its
caller does (`InitializeEligible`). There is one loop session: `.resume.lock` and `agent-loop.lock` leave no more for most of a
run, and `RunLoop` treats the overlap that they do allow.

**RunLoop.** One process `"fresh"` and one process `"resume"`, each with a
program counter that names the place in `run_task.sh`. A step is one command
between two writes to shared state. Everything a worktree can contain is one
value of `Contents` (or `Base`); a hash and the bytes it identifies are the same
value. `grant` and `rewritten` are the bindings of the budget chain: the
snapshot an extension was granted for, and the granted reviews that were
replaced since. The agents are external: they edit at any time while they run
and end in any way. `history` variables record what properties speak of
(validated contents, contents of reviews that approved, whether an operator
waived validations) and are read by no action.

**Integration.** A session is one `integrate` command or one publication. Each
step is one read or one write of what others change: the verification, HEAD,
each entry of the worktree, the fast-forward, the record. A commit is the run
it was made for, the entries whose bytes are not the reviewed ones, and a
stamp for author, date and message. The two verifications of the worktree that
the code makes back to back (`verify_reviewed_snapshot`,
`_validate_manifest`) are one step. The canonical checkout stays on one
branch, and nobody rewrites its history: its history only grows.
The push has no `--force`: it creates the dedicated branch, or fast-forwards
one that others created meanwhile at the base commit or an ancestor of it
(`PushAccepted`); any other is refused. `Promotion` promises as much, and no
more: no commit at the remote is lost. Nobody moves the branch once it is
published, which `RecordsTellTheTruth` needs and its comment says.

**Outbox.** `outbox[r]` is `telegram_notify.json` of run `r`; a bridge works on
the payloads it listed, so a notice can be replaced under it. An approval has
as many messages as its summary needs (`Chunks`), a failure one.

**Chunks.** A report is the sequence of the lengths of its lines. `Split` is
`split_telegram_message`, a recursion over the lines whose step is `Placed`,
with the cut of a line that is too long; `Sent` is
what is left after `notify-approved` appended its closing sentence and the
bridge applied `truncate_message`; `Shown` the lines a reader sees whole. The
sanitizer and blank lines are left out.

**Supervisor.** `scope` is the set of live processes of the unit, with the
attempt that started them, so a killed supervisor's orphans are visible.
Output is counted in chunks. A signal is noted while handlers are installed
and kills the supervisor otherwise (`Die`). systemctl fails in two ways. One
raises (`StopFails`), and the error is raised again after a last attempt. In
the other `systemctl show` fails without output, the unit reads as absent and
its control group as empty: `stop_user_scope` returns and may leave processes
(`StopUnanswered`), a start is refused by systemd-run only (`RefusedStart`), or
given up for a unit that is never seen active (`GiveUpStart`). `unseen` names
the attempts whose final stop was left unanswered. `Join` may give up on a copying
thread (`stalled`), which then still counts one chunk or none (`CopyLate`).

**HumanGate.** Approval by buttons is retired (`enqueue_notification` says so),
and only tests call the functions that open the gate and answer it. What is
still in use is what it left on disk: `plan_resume` reads the request and the
decision of such a run, and `run_task.sh` migrates it. The model therefore has
no fairness: it asks what any interleaving, or death, can leave behind. A
runner creates or promotes a request and offers the button; a
claimer turns one press into a decision. The steps are the reads and writes of
`create_approval_request`, `enqueue_notification`, `claim_human_approval` and
`apply_human_rejection` that others can come between: the tree is hashed before
`.approval.lock` is taken; under it the request is written before the status is
changed, and the token consumed before the decision is recorded. All other
writers of `state.json` (`OtherWriter`) take only `.state.lock`, so they come
between any two of those steps. `doc.decision` and `bound` together are the
decision file; a token is the tree its request was made for.

**ControlAdapter.** One run and the sessions that work on it one after the
other. Of the worktree only `project.toml` is kept: as in the base commit, a
valid candidate, broken or deleted. `store` is what `control-adapter/files`
holds of each kind of file, `published` the manifest that is written last,
`bound` the metadata. Each look at the file is a step of its own, so it may
change between `profile_path_changed` and the read that judges it, between the
entries and the hash of the manifest, and between the five looks of
`integrate`. Which phase a resumption starts with is left open. `strayed` is
about the controller: the profile and limits it obeys, the instruction files it
sends, the scripts it runs. The prompts of `run_task.sh` (450 and 527) also name
`.agent-loop/project.toml` of the worktree for the agents to read; what an agent
makes of it is its work, which the controller then validates and has reviewed,
and no property is about it.

**Argv.** `Walk`, `Entrypoint`, `UsesModule` and `UnsafePathDisabled` are the
scans of the code; `Python` and `Shell` say, from the manuals of the
interpreters, what a command runs. `Runs(kind, Rewrite(kind, args))` relates
the two: it says where the code that a rewritten command runs comes from.

**AtomicFile.** `onDisk` is the set of directory entries that a power loss may
leave; `synced` the files whose bytes survive it. Renames that were not
synced may or may not survive.

## 3. Bounds and abstractions

| Bound | Where | Value | Why it is enough |
|---|---|---|---|
| `OriginalLimit`, `MaxEffective` | RunState, RunLoop | 1 or 2, up to 3 (50 in the code) | a spent budget, an extension and a refused one; two iterations of a limit give feedback that is answered |
| `Contents` | RunLoop | 1 or 2, and the base | a reviewed content, and one that is not; with one, the base is the other |
| one resume session at a time | RunLoop | | `.resume.lock`; sessions follow each other without bound |
| `MaxHistory`, `Foreign` | Promotion, Integration | 2, 2 (1 in `PromoteResume`, where nobody interferes) | commits by others only, integrations come on top; one commit of others in history, under a run or beside it, and one that is not |
| `Files`, `Stamps` | Integration | 1, 2 | a manifest with one entry that may change; two commits of one content |
| `Sessions` | Integration | 2 | two commands that race |
| `MaxRun`, `Bridges`, `MaxNotices`, `MaxTrouble` | Outbox | 2 each | one run that holds another up, a notice replaced once, a crash and a lost answer |
| `MaxAttempts`, `MaxOutput` | Supervisor | 2 each | an orphan and its successor; a budget reached and exceeded |
| `Inodes`, `Readers`, `Gates` | RunStateFile | 3, 1, 1 | `state.json`, a temporary file, and an open old file or one that a killed writer left; freed inodes are reused at once. After two leftovers no write is possible any more: more of them are covered by the proofs, which hold for any number |
| `Failures` | HumanGate, RunStateFile | 2, 1 | a second failure that must not replace the first; the file protocol does not look into a document |
| `Writers` | AtomicFile | 3 | a loser, a winner and a later writer |
| `Runners`, `Claimers`, `Trees`, `MaxEdits`, `MaxCrashes` | HumanGate | 1, 2, 2, 1, 2 | two presses race with each other and with an offer; a request for another tree; a claim that dies, and the one that completes it dies too |
| `Candidates`, `MaxEdits`, `MaxRounds`, `MaxDeaths` | ControlAdapter | 1, 4, 2, 2 | a candidate that comes, goes and comes back around one check; an executor that follows a review; creation and a phase interrupted |
| `Commands` | ControlAdapter | all of three arguments with single letters, of two with clusters of two letters | the scans look at most at an option, its value and the script |
| `Reports` | Outbox | lengths at, below and above the limit of a chunk | the header, the newline and the closing sentence each cross the limit |

Switches turn a part of the environment on. In `RunLoop`: `MayKill` (SIGKILL
between any two steps), `MayTear` (the iteration file is left truncated),
`MayDrift` (others edit the worktree), `MayReviewOnly`, `MayOverlap` (a
resumption while the fresh run is live), `GithubBranch` (the promotion mode).
In `Integration`: `MayInterfere`, `MayKill`, `MayDisconnect`. In `Supervisor`:
`MayKill`, `MayFail`, `MayStall`. In `MCControlAdapter`: `Attached` (options of
python that carry their value). A property the code keeps only without a part
is checked without it, and section 5 names the configuration that turns it on.

Deadlock is not checked where the system may rest: a decided run, a finished
loop, a supervisor that ended, writers that are done. `Integration` and
`Outbox` never stop and are checked for deadlock.

## 4. What is checked

| Run | Question | Properties | Distinct states |
|---|---|---|---|
| `HumanGate` | what can `state.json` contain; is a decision at the gate final, bound and unique; can a run it left be resumed? | `DocumentReadable` `BlockedHasCause` `FirstFailureKept` `DecisionFinal` `DecisionIsBound` `AnswersAgree` `ButtonWasPending` `AwaitingIsResumable` | 236 748 |
| `StateFile` | do lock and rename make operations atomic? | `NothingTornIsRead` `ImplementsRunState` | 1 178 368 |
| `LoopCrash` | kills and signals, with resumption and extensions | `TypeOK` `ApprovedWasReviewed` `ApprovedWasValidated` `InterruptedExecutorResumable` `BudgetGrowsOnlyWhenSpent` `ApprovedIsTerminal` | 577 325 |
| `LoopOverlap` | what survives a resumption, also a review-only one, during a live run, and a truncated iteration file? | `ReviewOnlyNeverExecutes` `RunStateImplemented` | 689 182 |
| `LoopGithub` | two iterations and a publication in a worktree that drifts | `PublishedWasApproved` `FeedbackFollowed` `SessionEnds` | 173 492 |
| `Promote` | racing, killed, disconnected commands among other people | `RefsAreRecorded` `RecordsTellTheTruth` `ImplementsPromotion` | 1 063 538 |
| `PromoteResume` | can a publication always be resumed, and is a lock ever left behind? | `PublicationResumes` `CommandEnds` | 10 244 |
| `Outbox` | two bridges, crashes, lost answers, one run's refused message, and the others; summaries of boundary lengths | `MarkedWasDelivered` `SummaryArrives` `DuplicatesAreExplained` `NoticesArrive` | 100 982 |
| `Supervise` | what report and result mean; does a supervisor end? | `NothingOutlivesReport` `OneAttemptAlive` `CompletedIsUndisturbed` `SupervisorEnds` | 68 382 |
| `AtomicFile` | replacing and publishing under failures and power loss | `NeverPartial` `ReportedSurvives` | 2 284 |
| `Adapter` | what do the phases of a run obey, and what gets integrated, while `project.toml` changes and sessions die? | `ControlIsBase` `ResumableIsComplete` `TransportIsAuthorized` `TransportIsRecorded` | 1 181 342 |

Every module states its type invariant. Those of `RunLoop` (which `LoopCrash`
also checks), `RunState`, `RunStateFile` and `Outbox` are proved, and the
inductive invariants of the other proofs contain the types.

In `RunLoop`, `TypeOK` includes that the iteration file never exceeds the
effective limit of `state.json`, a relation of two files written at different
times.

Every property of a passing run is also run against a plausible bug: an
operator marked `\* fault:` next to the definition it replaces, a dropped
check, an off-by-one, a missing reset, a wrong order. `PROJECT.json` pairs
them; with the fault in place TLC finds the property violated.

### Fairness

- `RunLoop`: weak fairness of each process's own steps. The script runs its
  next command, and `supervise` ends an agent by its phase timeout (this is
  what `SupervisorEnds` is about). Resuming, signals, kills and edits carry no
  fairness.
- `Integration`: weak fairness of a started command and strong fairness of
  taking the lock, since `flock` serves every waiter of a
  lock that is released again and again. Starting a command carries none.
- `Outbox`: weak fairness of the bridge as a whole, which the systemd unit
  restarts (`Restart=on-failure`); strong fairness of an accepted send, for
  messages that are not refused for ever; a controller that is not killed goes
  on, and a run is resumed.
- `Supervisor`: time passes, the copying thread and the supervisor run. The
  phase may hang for ever.
- `HumanGate`, `RunStateFile`, `AtomicFile` and `ControlAdapter` have safety
  properties only, and no fairness.

In `LoopGithub` others edit the worktree at any time, and an edit sets
`waived`: of an edited worktree `PublishedWasApproved` says that what is
published was approved, no longer that it was validated.

## 5. Where the code and its documentation disagree

One run checks a property a document states, and TLC finds it violated; the
quoted line is in `PROJECT.json` under `findings`. `FindSkippedIteration`: the
cursor is advanced before the status leaves `CHANGES_REQUESTED`; a kill in
between makes the resumption start at N+2, with no feedback.

The other `Find*.cfg` files show further behaviour that a reader of the
documents would not expect. They are not part of the regular runs; each is
checked by hand with the module named here
(`tlc -config FindAbort.cfg MCIntegration`).

| Configuration | What happens | What is written about it |
|---|---|---|
| `FindGithubReview` (`MCRunLoop`) | Resuming an `APPROVED` run in `github_branch` mode, to retry the push, reviews it again. | `docs/PROJECT_PROFILE.md:220`: the manifest is validated, the review is not repeated |
| `FindAttachedOption` (`MCControlAdapter`) | An option that carries its value (`python3 -Wdefault::DeprecationWarning scripts/gate.py`) is read letter by letter (`dx/control_adapter.py:162`); the `c` in it is taken for `-c`, so the script of the worktree runs instead of the frozen one. | `docs/PROJECT_PROFILE.md:78-82`: gates run from the captured copy |
| `FindTornCursor` (`MCRunLoop`) | The cursor file is truncated before it is written; an empty one is read as iteration 1, and the snapshot of review 1 then refuses the worktree. | `docs/PROJECT_PROFILE.md:213`: an interrupted executor resumes in the same iteration |
| `FindReviewOnly` (`MCRunLoop`) | A review-only attempt during an interrupted iteration leaves a snapshot under which an executor later works; when that executor is interrupted the run cannot be resumed. | the same line |
| `FindBootstrap` (`MCRunLoop`) | A run whose bootstrap failed is resumed without it. | `docs/PROJECT_PROFILE.md:148`: the bootstrap runs before the executor |
| `FindBrokenChain` (`MCRunLoop`) | A session planned back to a granted iteration replaces its review, and the budget chain refuses the run for ever. | `docs/PROJECT_PROFILE.md:259`: the authorized feedback stays in the same file |
| `FindStalePlan` (`MCRunLoop`) | A plan made before `agent-loop.lock` reviews content that no validation has passed. | `docs/AGENT_ORCHESTRATION.md:280`: validations come before the reviewer |
| `FindStaleApproved` (`MCRunLoop`) | A plan made before `agent-loop.lock` takes an approval away. | `docs/AGENT_ORCHESTRATION.md:245`: `APPROVED` is terminal |
| `FindAbort` (`MCIntegration`) | A checkout that gets dirty during the merge makes `integrate` fail with the branch advanced and no record. | `docs/AGENT_ORCHESTRATION.md:115`: an abort does not move the branch |
| `FindUnansweredStop` (`Supervisor`) | `systemctl show` fails without output: the unit reads as absent and its control group as empty, `stop_user_scope` returns, and a process of the phase can outlive the report. | `dx/systemd_scope.py:166`: prove its cgroup is empty |
| `FindDuplicate` (`MCOutbox`) | A lost answer or a crash repeats a chunk: delivery is at least once. | `dx/approval.py:833`: retries never duplicate a chunk |
| `FindUnannounced` (`MCOutbox`) | A kill after `APPROVED` loses the terminal notice, and resumption does not send it. | `docs/PROJECT_PROFILE.md:104`: a terminal message is enqueued |

The passing runs show what remains true in the same situations. With an
overlapping session or a torn cursor an approved run still holds the manifest
of a reviewed content, a review-only session starts no executor, and every
write is still an operation of `RunState` (`LoopOverlap`). A broken chain
refuses a run and approves nothing. Duplicates are bounded by crashes and lost
answers (`Outbox`). `NothingOutlivesReport` holds for every attempt whose final
stop was answered, and a process that an unanswered stop left is never joined by
those of another attempt (`OneAttemptAlive`).

## 6. What is proved

The proof modules assume only the named assumptions on the constants of their
modules, which TLC evaluates on the instances it checks; `ControlStaysBase`,
`PublicationsResume`, `SummariesArrive` and the theorems of `RunLoopProofs`
state what else they assume. The theorems hold for any metadata, failures,
limits, extensions, worktree contents, gates, processes, trees, readers,
inodes, writers, runs, manifest entries, sessions, commits of others, attempts,
output budgets, candidates, notices, bridges and numbers of edits and deaths,
and for any finite set of reports.

**HumanGateProofs, the run document.** `IInv` is the conjunction of the four state invariants:
`TypeOK`, `DocumentReadable`, `HumanApprovalIsDecided`, `BlockedHasCause`. They
need one another: that a decided run accepts no event follows from readability
(a decided run is `HUMAN_APPROVED` or `BLOCKED`) together with the guard on
`human_decision`, and that `BLOCKED` has a cause needs that an extension keeps
the failure. One lemma per operation shows that it keeps `IInv`; the action
properties `FirstFailureKept`, `DecisionFinal` and `BindingKept` follow from
`IInv` before the step. `HumanApprovalIsDecided` and `BindingKept` are close to
what one operation does; they are proved and no run repeats them.

**RunStateFileProofs.** `Implements` shows `Spec => ImplementsRunState`, under
the mapping `doc <- Document`, the content of the inode that `state.json`
names. `Replace` is the step that maps to an operation; all others stutter.
The inductive invariant says that

- at most the holder of `.state.lock` is between `Acquire` and `Release`;
- a temporary file belongs to one writer (`TempIsPrivate`) and is neither
  `state.json` nor open in a reader (`ReaderInv`), so no inode that is read is
  ever written; a full one holds a whole document (`TempIsComplete`). This
  gives `NothingTornIsRead` although inodes are reused;
- a file that a killed writer left is neither `state.json` nor open in a reader
  (`LeftoversAreDead`);
- a writer that decided to write holds the document it read and it is still the
  document (`DecisionHolds`), which is `NoLostUpdate`;
- until a pending extension is written, the document is the one its caller saw
  before the lock (`ExtensionHolds`). So the compare-and-set of
  `record_iteration_budget_extension` never refuses while there is one
  session: `.resume.lock` and `agent-loop.lock` already serialise the callers.

With `Implements`, what `HumanGateProofs` proves of `doc` holds of the file.

**RunLoopProofs.** The inductive invariant `IInv` comes in five layers, and each
assumes one thing more of the environment than the layer before. That is how
the loop is: each assumption is a switch of `RunLoop`, and a `Find*`
configuration shows what goes wrong without it.

| Layer | Assumes | Says | What is lost otherwise |
|---|---|---|---|
| `LockedInv` | nothing | the types; a session inside the loop holds `agent-loop.lock` and its iteration is within its limit, its limit within that of `state.json` (`Placed`); a review-only session is never at an executor; what is frozen was approved (`Approving`, `FrozenWasApproved`) | |
| `AloneInv` | no resumption while the run is live | one session is live and holds the lock only inside the loop; an approved run has no session that writes the status (`ApprovalStands`); an authorized extension is still spent when it is written (`StillSpent`) | `FindStalePlan`, `FindStaleApproved` |
| `ReviewedInv` | the iteration file is never truncated | the file leads every artifact (`CursorLeads`) and the iteration of every session agrees with it (`CursorFollowed`); what is, or would next be, reviewed passed the validations (`Validated`, `ReviewedWasValidated`) | `FindTornCursor` |
| `UnreviewedInv` | no review-only sessions | a snapshot has the report of an executor (`SnapshotHasReport`), and an executor works only where there is no snapshot | `FindReviewOnly` |
| `AnsweredInv` | no SIGKILL | a run whose changes were requested stays at that iteration until the next executor (`ChangesRequested`, `Answers`) | `FindSkippedIteration` |

Four strengthenings were only found by proving. The holder of the lock is in
the loop (`LockIsHeld`), or a resumption would not follow a finished run. A
fresh run's phase is the executor before it enters the loop. A review-only
session waives validations. A session about to review is at the iteration its
plan would choose, and the status is then not `CHANGES_REQUESTED`: the cursor is
advanced before the status leaves it.

`LoopInvariance` is unconditional: the layers are implications from the
switches. From `LockedInv` alone follow `TypesHold`,
`ApprovedManifestWasReviewed`, `ReviewOnlyRunsNoExecutor` and
`PublicationWasReviewed`, which therefore hold with overlapping sessions, torn
cursors, kills and edits. `LoopImplementsRunState` needs only `LockedInv` too:
every write to `state.json` is an operation of `RunState` that the document
accepts, so what `HumanGateProofs` proves of it holds of the loop. `ApprovalIsTerminal`
excludes the mode `github_branch`, in which `FindGithubReview` reviews an
approved run again. `PublishedWasReviewed` is stated for the proofs only; the run
checks the stronger `PublishedWasApproved`.

**AtomicFileProofs.** A published file was synced by its writer before it was
linked or renamed, and a directory entry is reported only after the directory
was synced; the invariant says of each writer how far it came, what its
temporary file holds and which entries a power loss can leave. Then the name
never has a partial file (`NeverPartial`), reported content survives
(`ReportedSurvives`), and, when writes are exclusive, the set of writers that
published has at most one member (`OneWinner`, which is proved only: the one
production caller of an exclusive write is a single writer in a fresh directory).

**SupervisorProofs.** `IInv` says that everybody alive belongs to the attempt
started last (`OfThisAttempt`), because a start is refused while the unit is
active; that the scope is empty from the final stop on, unless systemctl did not
answer it (`Reaped`), so `ReportIsLast` excepts the attempts in `unseen` and no
others; that the main process is gone in either case; that a noted signal is still known to the supervisor
(`SignalNoted`); and that after the join the copy is complete unless a limit or
a thread that was given up says otherwise (`Joined`).

**HumanGateProofs, the gate.** `GateImplementsRunState` shows that the gate
refines `RunState`, so the invariant of the run document holds of it and is used with
`GateInv`: one process at a time is inside `.approval.lock` (`Exclusive`), and
what it read under the lock about the request and about the run being
undecided still holds when it writes (`RunnerInv`, `ClaimerInv`), although
others block or move the run meanwhile: none of them decides it. The number of
claims is then at most one, and is one only for a decided run. The request is
written before the status is changed, and nobody else moves a run to awaiting
(`OthersDoNotAwait`): so an awaiting run has one (`AwaitingHasRequest`), and
`AwaitingRunsResume` follows with the readability of the document.

**IntegrationProofs.** A session holds the locks of the place it is in
(`Holds`), so no two work on one run, and relies on what it learned under them
(`Knows`): its commit was approved, because every entry was read as it was
reviewed; the record of a publication names that commit before any ref does;
what it pushed is at the remote; what it merged stands in history on the commit
it was reviewed against. Others only append to history and only take a remote
branch that is free, for a commit of their own or of history (`HistoryGrows`,
`WorldKeeps`), so a session that is overtaken keeps what it relies on. `RefsAreRecorded` and `RecordsTellTheTruth`
are parts of the invariant. `Implements` maps `Merge` to `Integrate` and `Push`
to `Publish`, which creates the branch or fast-forwards one at the base or an
ancestor, or to a stutter when the fast-forward is refused or the branch is
already there; all other steps of the commands stutter. `PublicationsResume`
assumes that nobody else works in the repository (`~MayInterfere`) and that it
is one that publishes branches (no local runs, whose integration would move the
base of the others). `QuietInv` then says that history and the remote base are
the base of every run, so that every check passes, and that a ref of a run is
missing or holds the commit of the record, so that neither the ref update nor
the push is ever refused. Only the session's own lost connection remains.

**OutboxProofs.** The invariant has four parts.

- `ListingInv`: the types; one bridge at a time is working, the holder of the
  bot's lock; a notice a bridge listed is still what the outbox has, or was
  replaced by one with a higher identity. So the progress a bridge records is
  that of the notice it lists, or is dropped.
- `ArrivedInv`: what is recorded as sent, or is about to be, was delivered. This
  is `MarkedWasDelivered` with the bridge between sending and recording.
- `CountedInv`: a message still to be sent was delivered at most `trouble`
  times, unless a bridge is just about to record it. `DuplicatesAreExplained`
  needs it because a message is sent again exactly when it was delivered and
  not recorded, and each such round costs a crash or a lost answer.
- `SummaryInv`: an approval has as many parts as some report was split into.

`SummariesArrive` needs the data as well. `Size` is a fold over a set, and
`Split` a recursion over the lines; the first sections of the module prove, for
every report, that `Size` is additive and grows, that the chunks divide the
lines in order (`SplitIsDivided`), and that a chunk takes at most `BodyLimit`.
The library's induction theorems cannot be instantiated by the prover, so each
of these lemmas takes the least counterexample (`LeastNatural`). A header of
fewer than 100 parts takes at most 8 characters, so the lines of a chunk end at
3484 at most, and what `truncate_message` keeps after `notify-approved` added
its sentence has them all (`LinesAreShown`). The theorem states its assumption, that
reports split into fewer than 100 parts: from 100 parts on the header is longer,
and a full last chunk can lose characters to the closing sentence.

**ControlAdapterProofs.** A file of the adapter is absent or as in the base
commit; the manifest exists only when all are there; metadata is bound only
after it; the manifest of a review and the record of the candidate agree once
the session is past the check that compares them, unless the worktree was
edited since. `ControlStaysBase` assumes that no configured command, once
rewritten, runs a file of the worktree (`"worktree" \notin GateSources`): the
run `Adapter` establishes it for all commands up to three arguments, and
`FindAttachedOption` shows where it fails.

Theorems, besides the invariance of each module:

| Module | Theorems |
|---|---|
| `RunStateFileProofs` | `TypeCorrect`, `NeverTorn`, `UpdatesAreKept`, `Implements` |
| `RunLoopProofs` | `TypesHold`, `ApprovedManifestWasReviewed`, `ReviewOnlyRunsNoExecutor`, `PublicationWasReviewed`, `LoopImplementsRunState`, `LocksHold`; without overlap `SessionsAlternate`, `ApprovalIsTerminal` (in the local promotion mode), `OnlySpentBudgetsGrow`; and with a whole cursor `ApprovalsAreValidated`, `PublicationsAreValidated`; and without review-only sessions `InterruptedExecutorsResume`; and without kills `ExecutorsFollowFeedback` |
| `AtomicFileProofs` | `PayloadIsWhole`, `ReportedIsKept`, `WinnerIsAlone` |
| `SupervisorProofs` | `ReportIsLast`, `AttemptsAreApart`, `CompletedIsTrue` |
| `HumanGateProofs` | of `RunState`: `TypeCorrect`, `AlwaysReadable`, `ApprovalIsDecided`, `BlockedIsExplained`, `FirstFailure`, `DecisionIsFinal`, `BindingIsKept`; of `HumanGate`: `GateImplementsRunState`, `DecisionsAreBound`, `AnswersAlwaysAgree`, `ButtonsArePending`, `AwaitingRunsResume` |
| `IntegrationProofs` | `RefsHaveRecords`, `RecordsAreTrue`, `Implements`, `PublicationsResume` |
| `ControlAdapterProofs` | `AdapterIsWhole`, `TransportNeedsFlag`, `TransportNeedsRecord`, `ControlStaysBase` |
| `OutboxProofs` | `TypeCorrect`, `MarkedIsDelivered`, `DuplicatesExplained`; for reports of fewer than 100 parts `SummariesArrive` |

**Only model-checked**: the liveness properties `SessionEnds`, `CommandEnds`,
`NoticesArrive` and `SupervisorEnds` (fairness and `ENABLED` are
beyond the prover), and the scans of `Argv`, which TLC enumerates for every
command of the lengths tried; that the answer is the same for longer commands
is not proved.

## 7. What is not modelled

- Parsing and validation: profile, configuration, reviewer JSON. Their
  refusals are nondeterministic failures in `RunLoop` and `ControlAdapter`.
- `attach_evidence`, which copies files into a run directory once, and the
  phases of `plan_resume` for runs of older versions. Of these,
  `awaiting_human` migrates a run that an earlier release left at the gate
  through `finalize_reviewed_run` (`run_task.sh:304-309`); nothing in this
  version opens the gate, so no run of `RunLoop` gets there. `HumanGate` says
  what such a run looks like (`AwaitingIsResumable`).
- The contents of hashes, manifests, prompts and messages; the sanitizer; sizes
  of artifacts; heartbeats; the collection of the files of a snapshot.
- A failure of `record-failure` itself, which has the effect of a kill before
  `BlockRun`.
- The operator switching branches, or rewriting history, in the canonical
  checkout during an integration.
- The wrapper `agent-loop`, the manual review and the installation: argument
  dispatch and files written once, without state that outlives them.
- Of the interpreters in `Argv`: options of python that carry their value are
  modelled but tried only by `FindAttachedOption`; interpreters other than
  python and shells, which the code does not scan.

## 8. Plan

1. Done: `RunState`, `RunStateFile`, `RunLoop`, `AtomicFile`, `HumanGate`,
   `Integration` with `Promotion`, `Supervisor` and `ControlAdapter` with
   proofs; `Outbox` with `Chunks`, and proofs; `Argv`.
2. Proofs still worth their effort: that the scans of `Argv` agree with the
   interpreters for commands of any length without attached options, by the
   least counterexample as in `OutboxProofs`.
3. Smaller models still possible: the budget chain with its bindings as a data
   structure, and the collection of a snapshot under concurrent edits.
