\* Cut-off writes, failed opens and failed reads of the backup files, purge and zap.
CONSTANTS
  Key = {k1, k2, k3}
  ReportSize = 1
  RequestedMax = 0
  MinGap = 1
  ReplyMax = 1
  BaseSizes = {}
  PurgeSizes = {0, 9}
  MaxFrequency = 2
  MaxPasses = 1
  Faults = TRUE
SPECIFICATION MaintenanceSpec
SYMMETRY KeySymmetry
INVARIANTS
  RankingBounded
  SavedRankingReloads
  RankingIsTop
  SavedCopyIsTop
PROPERTIES
  PurgeKeepsTop
