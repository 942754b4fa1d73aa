SPECIFICATION Spec
CONSTANTS
  Path = {p1, p2}
  Provider = {kie, other}
  Installed = {kie}
  BuiltIn = {mem}
  FileSource = file
  CustomList = {{mem}, {mem, file}}
  NoProvider = NoProvider
  MaxCalls = 4
  MaxChanges = 1
INVARIANT TypeOK
INVARIANT FilesServed
INVARIANT RunningHasAll
INVARIANT FreshStart
CHECK_DEADLOCK FALSE
