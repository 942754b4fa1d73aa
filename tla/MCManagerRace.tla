---------------------------- MODULE MCManagerRace ----------------------------
(* Instances of ManagerRace for TLC. *)
EXTENDS ManagerRace

CONSTANTS mem, file, kie

\* The precedences of archaius.go: kie 0, mem 1, file 4.
Precedence == [s \in Source |-> IF s = kie THEN 0 ELSE IF s = mem THEN 1 ELSE 4]

NoPriorityBelow == 0
=============================================================================
