SPECIFICATION Spec
CONSTANTS
  a = a
  b = b
  exact = exact
  some = some
  NoPrefix = NoPrefix
  Listener = {l1, l2}
  Pattern = {exact, some}
  Prefix <- CoveredPrefixes
  Key <- EventKeys
  Matches <- TwoMatches
  MaxCalls = 1
SYMMETRY SameListeners
INVARIANT TypeOK
INVARIANT FindsShortest
INVARIANT NoDeadBranch
INVARIANT HasWhatItAsked
PROPERTY CalledAsAsked
PROPERTY ModuleEventOnce
