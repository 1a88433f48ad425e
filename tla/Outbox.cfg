CONSTANTS
  Reports <- MCReports
  MaxRun = 2
  Refused = {1}
  Bridges = {b1, b2}
  MaxNotices = 2
  MaxTrouble = 2
SPECIFICATION FairSpec
INVARIANTS MarkedWasDelivered SummaryArrives DuplicatesAreExplained
PROPERTIES NoticesArrive
