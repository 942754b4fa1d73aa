SPECIFICATION RaceSpec
CONSTANTS
  None = None
  Nil = nil
  mem = mem
  file = file
  kie = kie
  Key = {k1}
  Value = {v1}
  Source = {mem, file, kie}
  Mem = mem
  Dynamic = {file, kie}
  Remote = {kie}
  ModuleSources = {mem, file}
  Priority <- Precedence
  MinPriority <- NoPriorityBelow
  MaxChanges = 2
INVARIANT PrecedenceAtRest
CHECK_DEADLOCK FALSE
