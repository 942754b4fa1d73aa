SPECIFICATION Spec
CONSTANTS
  Name <- Names
  Key <- Keys
  Value <- Values
  None = None
  NoNumber = NoNumber
  Type <- Types
  Place <- Places
  Before <- Objects
  MaxChanges = 1
INVARIANT TypeOK
INVARIANT FilledAsConfigured
INVARIANT NothingInvented
INVARIANT MapsComplete
INVARIANT ErrorsAreDue

