SPECIFICATION FairSpec
CONSTANTS
  Runs = {r1, r2}
  Findings <- MCFindings
  Filters <- MCFilters
  Budgets <- MCBudgets
INVARIANTS
  QuietPageIsCurrent
  ShowsItsRun
  DetailsFollowList
PROPERTIES
  PendingCoversControl
  PageCatchesUp
  StreamEnds
  LoadingEnds
CHECK_DEADLOCK FALSE
