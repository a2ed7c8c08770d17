\* M = 2 of three keys, and files that are renamed, opened and dumped one by one.
CONSTANTS
  Key = {k1, k2, k3}
  ReportSize = 1
  RequestedMax = 0
  MinGap = 1
  ReplyMax = 1
  BaseSizes = {3}
  PurgeSizes = {}
  MaxFrequency = 3
  MaxPasses = 2
  Faults = FALSE
SPECIFICATION Spec
SYMMETRY KeySymmetry
INVARIANTS
  TypeOK
  RankingMirrorsKeys
  RankingIsTop
  SavedCopyIsTop
  SavedRankingReloads
  AnswersAgree
PROPERTIES
  HotKeysSpec
  IncumbentsKeepTies
