CONSTANTS
  Reports <- MCReports
  MaxRun = 1
  Refused = {}
  Bridges = {b1}
  MaxNotices = 1
  MaxTrouble = 0
SPECIFICATION FairSpec
PROPERTY ApprovalIsAnnounced
