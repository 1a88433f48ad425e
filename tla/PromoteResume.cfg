CONSTANTS
  LocalRuns = {}
  GithubRuns = {g1, g2}
  Files = {f1}
  Stamps = {t1, t2}
  Root = Root
  Foreign = {x}
  NoCommit = NoCommit
  MaxHistory = 2
  Sessions = {s1, s2}
  MayInterfere = FALSE
  MayKill = TRUE
  MayDisconnect = TRUE
SPECIFICATION FairSpec
INVARIANT PublicationResumes
PROPERTY CommandEnds
