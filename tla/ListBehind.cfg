SPECIFICATION Spec
CONSTANTS
  Runs = {r1}
  Findings <- MCFindings
  Filters <- MCFilters
  Budgets <- MCQuietBudget
INVARIANT CurrentListHasCaughtUp
CHECK_DEADLOCK FALSE
