--------------------------- MODULE MCRemoteSources ---------------------------
(* Instances of RemoteSources for TLC. *)
EXTENDS RemoteSources

\* Keys that are gone are disabled in one dimension, so that an empty list is the
\* answer, and deleted in the other, which is answered with none.
NoKeys == [d \in Dimension |-> IF d = App THEN {EmptyConfig} ELSE {NoConfig}]
=============================================================================
