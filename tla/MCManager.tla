------------------------------ MODULE MCManager ------------------------------
(* Instances of Manager for TLC. *)
EXTENDS Manager

CONSTANTS mem, file, kie

\* kie before the others, as in README's list; mem and file share one
\* precedence, as SetPriority allows.
Precedence == [s \in Source |-> IF s = kie THEN 0 ELSE 4]

NoPriorityBelow == 0
=============================================================================
