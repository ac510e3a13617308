CONSTANTS
  Items <- MCItems
  Tables <- MCOneTable
  Now = 2
  Categories <- MCCategories
  NewCategories <- MCNewCategories
  Coroutines = {1}
  MaxDepth = 3
  MaxWrites = 0
  MaxCategories = 1
SPECIFICATION Spec
INVARIANT MissingFiguresAreMade
CHECK_DEADLOCK FALSE
