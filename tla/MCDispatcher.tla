---------------------------- MODULE MCDispatcher ----------------------------
(* Instances of Dispatcher for TLC.  Names are sequences of parts; the     *)
(* pattern exact matches one of them, some matches two.                    *)
EXTENDS Dispatcher, TLC

CONSTANTS a, b, exact, some

CoveredPrefixes == {<<a>>, <<a, a, b>>}
EventKeys == {<<a>>, <<a, b>>, <<a, a, b>>, <<b>>}
TwoMatches == {m \in {<<exact, <<a>>>>, <<some, <<a>>>>, <<some, <<b>>>>} :
                 m[1] \in Pattern}

\* Listeners are only compared with each other.
SameListeners == Permutations(Listener)
=============================================================================
