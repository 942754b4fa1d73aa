------------------------------ MODULE EventTool ------------------------------
(***************************************************************************)
(* event/tool.go: the comparison of two configurations of one source that  *)
(* the remote sources (kie, configcenter) turn into change events.  A      *)
(* configuration is a Go map[string]interface{}; here it is a function on  *)
(* Key whose value None means "not in the map".  A nil map and an empty    *)
(* one give the same events, so both are the function that is None         *)
(* everywhere.                                                             *)
(***************************************************************************)
CONSTANTS Key,    \* configuration keys
          Value,  \* configuration values
          None    \* the key is absent

ASSUME NoneAssumption == None \notin Value

Config == [Key -> Value \cup {None}]

EmptyConfig == [k \in Key |-> None]

Create == "CREATE"
Update == "UPDATE"
Delete == "DELETE"

\* event.Event, without HasUpdated (see Manager: the events not yet accepted).
EventFrom(S) == [source : S, type : {Create, Update, Delete},
                 key : Key, val : Value]

ConstructEvent(source, type, key, val) ==
  [source |-> source, type |-> type, key |-> key, val |-> val]

\* Mutants of PopulateEvents: a DELETE with the value after the change, no
\* DELETE at all, an UPDATE for a value that is the same (no DeepEqual).
DeleteWithoutValue(source, current, updated) ==
  {ConstructEvent(source, IF current[k] = None THEN Create
                          ELSE IF updated[k] = None THEN Delete ELSE Update,
                  k, updated[k]) :
     k \in {j \in Key : updated[j] # current[j]}}

NoDelete(source, current, updated) ==
  {ConstructEvent(source, IF current[k] = None THEN Create ELSE Update,
                  k, updated[k]) :
     k \in {j \in Key : updated[j] \notin {None, current[j]}}}

NoComparison(source, current, updated) ==
  {ConstructEvent(source, IF current[k] = None THEN Create
                          ELSE IF updated[k] = None THEN Delete ELSE Update,
                  k, IF updated[k] = None THEN current[k] ELSE updated[k]) :
     k \in {j \in Key : updated[j] # None \/ current[j] # None}}

\* The slice is built by ranging over Go maps, so its order is arbitrary: a set.
PopulateEvents(source, current, updated) ==
       {ConstructEvent(source, Create, k, updated[k]) :
          k \in {j \in Key : updated[j] # None /\ current[j] = None}}
  \cup {ConstructEvent(source, Update, k, updated[k]) :
          k \in {j \in Key : /\ None \notin {updated[j], current[j]}
                             /\ updated[j] # current[j]}}
  \cup {ConstructEvent(source, Delete, k, current[k]) :
          k \in {j \in Key : updated[j] = None /\ current[j] # None}}

\* What a holder of configuration c has once it has followed event e.
Follow(c, e) == [c EXCEPT ![e.key] = IF e.type = Delete THEN None ELSE e.val]

\* The event makes sense to one who has config.
Fits(e, config) ==
  /\ e.type = Create => config[e.key] = None
  /\ e.type = Update => config[e.key] \notin {None, e.val}
  /\ e.type = Delete => config[e.key] = e.val
=============================================================================
