SPECIFICATION Spec
CONSTANTS
  p1 = p1
  p2 = p2
  v1 = v1
  v2 = v2
  FirstDisk <- InBoth
  Key = {k1}
  Value = {v1, v2}
  None = None
  Name = file
  ConfigMapName = configmap
  Path = {p1, p2}
  InDirectory = {p2}
  Priority = {0, 1}
  MapPriority = {0}
  ConfigMapSourcePriority = 1
  Contains <- SecondContainsFirst
  MaxUint32 = 2
  NoFile = NoFile
  Garbage = Garbage
  Nobody = Nobody
  MaxWrites = 2
  MaxAdds = 2
INVARIANT LocalTypeOK
INVARIANT SoleFileRules
INVARIANT ToldAll
PROPERTY ChangesAreTold
PROPERTY NothingUnlisted
PROPERTY Reloads
CHECK_DEADLOCK FALSE
