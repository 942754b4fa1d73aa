SPECIFICATION Spec
CONSTANTS
  Setters = {set1, set2}
  Getters = {get1}
  Refreshers = {refresh1}
  Adders = {addMem, add1}
  MemAdder = addMem
  Quiet = TRUE
  NoOne = NoOne
INVARIANT NobodyStuck
PROPERTY EveryCallReturns
