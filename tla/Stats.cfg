CONSTANTS
  Items <- MCItems
  Tables <- MCTables
  Now = 2
  Categories <- MCCategories
  NewCategories <- MCNewCategories
  Coroutines = {1, 2}
  MaxDepth = 2
  MaxWrites = 1
  MaxCategories = 1
SPECIFICATION Spec
INVARIANTS TypeOK DerivedAgree FreshShowsTable OnePeriodShown
CHECK_DEADLOCK FALSE
