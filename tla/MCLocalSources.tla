--------------------------- MODULE MCLocalSources ---------------------------
(* An instance of LocalSources for TLC: one key, two files and two values. *)
(* The sources only compare values with each other, so of the first        *)
(* contents that differ by an exchange of the values one is enough.  Both  *)
(* files have the key first, and each contest for it is a write away.      *)
EXTENDS LocalSources

CONSTANTS p1, p2, v1, v2

\* As the path of /mnt/etc/app.yaml contains that of /etc/app.yaml.
SecondContainsFirst == {<<p2, p1>>}

ContentOf(v) == [k \in Key |-> v]

InBoth == {[p \in Path |-> IF p = p1 THEN ContentOf(v1) ELSE ContentOf(v2)]}
=============================================================================
