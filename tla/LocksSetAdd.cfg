SPECIFICATION Spec
CONSTANTS
  Setters = {set1}
  Getters = {}
  Refreshers = {}
  Adders = {addMem, add1}
  MemAdder = addMem
  Quiet = FALSE
  NoOne = NoOne
PROPERTY SetReturns
CHECK_DEADLOCK FALSE
