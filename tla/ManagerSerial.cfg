SPECIFICATION SerialSpec
CONSTANTS
  None = None
  Nil = nil
  mem = mem
  file = file
  kie = kie
  Key = {k1, k2}
  Value = {v1}
  Source = {mem, file, kie}
  Mem = mem
  Dynamic = {file, kie}
  Remote = {kie}
  ModuleSources = {mem, file}
  Priority <- Precedence
  MinPriority <- NoPriorityBelow
  MaxChanges = 2
PROPERTY ImplementsManager
CHECK_DEADLOCK FALSE
