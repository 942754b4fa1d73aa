SPECIFICATION FairSpec
CONSTANTS
  None = None
  Nil = nil
  mem = mem
  file = file
  kie = kie
  Key = {k1}
  Value = {v1, nil}
  Source = {mem, file, kie}
  Mem = mem
  Dynamic = {file, kie}
  Remote = {kie}
  ModuleSources = {mem, file}
  Priority <- Precedence
  MinPriority <- NoPriorityBelow
  MaxChanges = 4
INVARIANT TypeOK
INVARIANT PrecedenceServed
INVARIANT RouteBacked
PROPERTY AnnouncedIsServed
PROPERTY RouteKept
PROPERTY Converges
CHECK_DEADLOCK FALSE
