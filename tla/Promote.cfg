CONSTANTS
  LocalRuns = {local}
  GithubRuns = {github}
  Files = {f1}
  Stamps = {t1, t2}
  Root = Root
  Foreign = {x, y}
  NoCommit = NoCommit
  MaxHistory = 2
  Sessions = {s1, s2}
  MayInterfere = TRUE
  MayKill = TRUE
  MayDisconnect = TRUE
SPECIFICATION Spec
SYMMETRY Symmetry
INVARIANTS RefsAreRecorded RecordsTellTheTruth
PROPERTY ImplementsPromotion
