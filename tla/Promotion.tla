----------------------------- MODULE Promotion ------------------------------
(***************************************************************************)
(* What "agent-loop integrate" and the github_branch publication promise,  *)
(* whatever processes carry them out: an approved snapshot, and nothing    *)
(* else, becomes one commit, on exactly the commit it was reviewed         *)
(* against; canonical history only grows; a dedicated branch that exists   *)
(* on the remote is at most fast-forwarded, so that no commit is lost.     *)
(***************************************************************************)
EXTENDS Sequences, Naturals

CONSTANTS
  LocalRuns,    \* runs whose approval mode is none or telegram
  GithubRuns,   \* runs whose approval mode is github_branch
  Files,        \* the entries of a reviewed manifest
  Stamps,       \* author, date and message of a commit
  Root,         \* the first commit of the canonical branch
  Foreign,      \* the other commits this system did not make
  NoCommit,     \* a ref or record that does not exist
  MaxHistory    \* bound on the length of canonical history

Runs == LocalRuns \cup GithubRuns

(***************************************************************************)
(* A commit made from the worktree of a run: "altered" holds the entries   *)
(* whose bytes are not the ones the reviewer approved.  Its parent is the  *)
(* base commit of the run.                                                 *)
(***************************************************************************)
Commits == [run : Runs, altered : SUBSET Files, stamp : Stamps]
ApprovedCommits(r) == [run : {r}, altered : {{}}, stamp : Stamps]

History(commits) == {commits[i] : i \in 1..Len(commits)}

VARIABLES
  base,    \* the base commit of each run; NoCommit before its approval
  line,    \* the history of the canonical branch, the last one being HEAD
  branch   \* refs/heads/agent-loop/<task>/<run> on the remote

Tip == line[Len(line)]

(* The base commit of a run and its ancestors.                             *)
UpTo(r) ==
  {line[i] : i \in {j \in 1..Len(line) :
                     \E k \in j..Len(line) : line[k] = base[r]}}

Init ==
  /\ base = [r \in Runs |-> NoCommit]
  /\ line = <<Root>>
  /\ branch = [r \in Runs |-> NoCommit]

(* A run that started from HEAD is approved. *)
Approve(r) ==
  /\ base[r] = NoCommit
  /\ base' = [base EXCEPT ![r] = Tip]
  /\ UNCHANGED <<line, branch>>

Integrate(r) ==
  /\ r \in LocalRuns
  /\ base[r] = Tip
  /\ \E c \in ApprovedCommits(r) : line' = Append(line, c)
  /\ UNCHANGED <<base, branch>>

Publish(r) ==
  /\ r \in GithubRuns
  /\ base[r] # NoCommit
  /\ branch[r] = NoCommit \/ branch[r] \in UpTo(r)
  /\ \E c \in ApprovedCommits(r) : branch' = [branch EXCEPT ![r] = c]
  /\ UNCHANGED <<base, line>>

(* Other people work on the same repository and the same remote. *)
OthersCommit ==
  /\ Len(line) < MaxHistory
  /\ \E c \in Foreign \ History(line) : line' = Append(line, c)
  /\ UNCHANGED <<base, branch>>

(* The name of the branch is free for a commit of their own, or one of     *)
(* canonical history.                                                      *)
OthersTakeBranch(r) ==
  /\ r \in GithubRuns
  /\ branch[r] = NoCommit
  /\ \E c \in Foreign \cup History(line) : branch' = [branch EXCEPT ![r] = c]
  /\ UNCHANGED <<base, line>>

Next ==
  \/ OthersCommit
  \/ \E r \in Runs : Approve(r) \/ Integrate(r) \/ Publish(r)
                       \/ OthersTakeBranch(r)

Spec == Init /\ [][Next]_<<base, line, branch>>
=============================================================================
