----------------------------- MODULE EventReplay -----------------------------
(***************************************************************************)
(* A holder of a copy of one source's configuration that learns of it only *)
(* through the events PopulateEvents makes, taken in any order: what the   *)
(* Manager and its listeners are to a remote source.                       *)
(***************************************************************************)
EXTENDS EventTool

CONSTANT Name  \* the source

ASSUME NameAssumption == Name # None

VARIABLES current,  \* the source's configuration, as updateConfigAndFireEvent left it
          pending,  \* events of the last change not yet handed over
          copy      \* what the events taken since the last Cleanup add up to

vars == <<current, pending, copy>>

Init ==
  /\ current = EmptyConfig
  /\ pending = {}
  /\ copy = EmptyConfig

\* The lock is held until the last event is handed over, so another
\* configuration is not compared before.
UpdateConfigAndFireEvent(config) ==
  /\ pending = {}
  /\ pending' = PopulateEvents(Name, current, config)
  /\ current' = config
  /\ UNCHANGED copy

OnEvent ==
  \E e \in pending :
    /\ pending' = pending \ {e}
    /\ copy' = Follow(copy, e)
    /\ UNCHANGED current

\* The configuration is dropped and nobody told; whoever cleans a source up
\* drops the copy of it.
Cleanup ==
  /\ pending = {}
  /\ current' = EmptyConfig
  /\ copy' = EmptyConfig
  /\ UNCHANGED pending

Next ==
  \/ \E config \in Config : UpdateConfigAndFireEvent(config)
  \/ OnEvent
  \/ Cleanup

Spec == Init /\ [][Next]_vars

-----------------------------------------------------------------------------
\* The variables hold values of their types.
TypeOK ==
  /\ current \in Config
  /\ pending \in SUBSET EventFrom({Name})
  /\ copy \in Config

\* PopulateEvents says all there is to say: when every event of a change has
\* been taken, in whatever order, the copy is the source's configuration.
CopyFollows == pending = {} => copy = current

\* PopulateEvents says nothing false or needless: at every moment, each event
\* still to come makes sense to the holder of the copy.  A CREATE finds the
\* key absent, an UPDATE finds another value, a DELETE finds the value it
\* carries; so no key has two events, and no unchanged key has one.
EventsFit == \A e \in pending : Fits(e, copy)
=============================================================================
