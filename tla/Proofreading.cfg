SPECIFICATION ProofreadingSpec
CONSTANTS
  Samples <- MCSamples
  Main <- MCMain
  Truth <- MCTruth
  Earlier <- MCEarlier
  Ranges <- MCRanges
  Fixes = {"b"}
  AllowedSwaps <- MCAllowedSwaps
  NumTargets <- MCNumTargets
  NumPerspectives = 2
  AnswersTo <- MCAnswersTo
  RecheckVerdicts = {"keep", "withdraw"}
  RecheckSettings = {TRUE, FALSE}
  MaxLaunches = 2
  Judgeable = {2}
  Modes = {"split", "split-recheck", "full-text"}
  Limits <- MCLimits
  LongChecks <- MCLongChecks
  LongRechecks <- MCLongRechecks
  SettingsMayBe = {TRUE, FALSE}
  MaxTroubles = 2
INVARIANTS
  FindingsAreGroups
  AnswersSavedOnce
  PlanTilesText
  RecheckSeesCheck
  QuotesAreFound
  MisquotesAreTraced
  PipelineAccounts
  ExportIsPipelineResult
  DetectionIsMaximum
  ScoresAddUp
PROPERTIES
  FindingsOnlyGrow
CHECK_DEADLOCK FALSE
