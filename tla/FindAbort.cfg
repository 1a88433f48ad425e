CONSTANTS
  LocalRuns = {local}
  GithubRuns = {}
  Files = {f1}
  Stamps = {t1, t2}
  Root = Root
  Foreign = {x}
  NoCommit = NoCommit
  MaxHistory = 2
  Sessions = {s1}
  MayInterfere = TRUE
  MayKill = FALSE
  MayDisconnect = TRUE
SPECIFICATION Spec
INVARIANT AbortLeavesBranch
