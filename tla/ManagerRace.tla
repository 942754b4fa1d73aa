----------------------------- MODULE ManagerRace -----------------------------
(***************************************************************************)
(* updateEvent of source/manager.go step by step.  ConfigurationMap is a   *)
(* sync.Map: its Load and its Store are atomic, what lies between them is  *)
(* not.  Each source's goroutine loads the route of a key, decides (for a  *)
(* DELETE this is the scan of findNextBestSource), stores the new route    *)
(* and dispatches; goroutines of different sources interleave freely.      *)
(* Pulls stay atomic.                                                      *)
(***************************************************************************)
EXTENDS Manager

VARIABLE handler  \* the updateEvent call each source's goroutine is in

raceVars == <<vars, handler>>

Free == [pc |-> "free"]

\* s is between the Load and the end of the call for key.
InFlight(s, key) == handler[s] # Free /\ handler[s].event.key = key

RaceInit == Init /\ handler = [s \in Source |-> Free]

\* ConfigurationMap.Load; module tells OnModuleEvent's calls from OnEvent's.
Load(s, e) ==
  /\ handler[s] = Free
  /\ e \in todo[s] \/ (todo[s] = {} /\ e \in skipped[s])
  /\ handler' = [handler EXCEPT
       ![s] = [pc |-> "loaded", event |-> e, module |-> e \notin todo[s],
               current |-> configurationMap[e.key]]]
  /\ UNCHANGED vars

\* Mutant: a CREATE or an UPDATE is never ignored.
AcceptsAllLoaded(h) == h.event.type = Delete => h.current = h.event.source

\* updateEvent returns without ErrIgnoreChange, going by the route it loaded.
AcceptsLoaded(h) ==
  LET e == h.event
  IN IF e.type = Delete
     THEN h.current = e.source
     ELSE \/ h.current \in {None, e.source}
          \/ GetHighPrioritySource(h.current, e.source) # h.current

Decide(s) ==
  LET h == handler[s]
      e == h.event
  IN /\ h.pc = "loaded"
     /\ todo' = [todo EXCEPT ![s] = @ \ {e}]
     /\ \/ /\ AcceptsLoaded(h)
           /\ \E r \in NewRoutes(e) :
                handler' = [handler EXCEPT
                  ![s] = [pc |-> "store", event |-> e, module |-> h.module,
                          next |-> r]]
           /\ skipped' = [skipped EXCEPT ![s] = @ \ {e}]
        \/ /\ ~AcceptsLoaded(h)
           /\ handler' = [handler EXCEPT ![s] = Free]
           /\ skipped' = [skipped EXCEPT
                ![s] = IF s \in ModuleSources /\ ~h.module
                       THEN @ \cup {e} ELSE @ \ {e}]
     /\ UNCHANGED <<phase, configurationMap, configs, view, silent, deleted,
                    changes>>

\* ConfigurationMap.Store or Delete.
Store(s) ==
  /\ handler[s].pc = "store"
  /\ configurationMap' =
       [configurationMap EXCEPT ![handler[s].event.key] = handler[s].next]
  /\ handler' = [handler EXCEPT ![s].pc = "dispatch"]
  /\ UNCHANGED <<phase, configs, todo, skipped, view, silent, deleted, changes>>

\* DispatchEvent for OnEvent; OnModuleEvent tells module listeners only.
Dispatch(s) ==
  /\ handler[s].pc = "dispatch"
  /\ view' = IF handler[s].module THEN view ELSE Follow(view, handler[s].event)
  /\ handler' = [handler EXCEPT ![s] = Free]
  /\ UNCHANGED <<phase, configurationMap, configs, todo, skipped, silent,
                 deleted, changes>>

Pulls(s) == (Pull(s) \/ Refresh(s)) /\ UNCHANGED handler

\* Everything else; a source makes its next change after its last call.
Environment ==
  /\ \/ \E s \in Source :
          \/ AddSource(s) \/ PullFails(s) \/ Watch(s) \/ SilentChange(s)
          \/ handler[s] = Free /\ Change(s)
     \/ /\ handler[Mem] = Free
        /\ \E k \in Key : DeleteKey(k) \/ \E v \in Value : Set(k, v)
     \/ Cleanup
  /\ UNCHANGED handler

RaceNext ==
  \/ \E s \in Source :
       \/ \E e \in todo[s] \cup skipped[s] : Load(s, e)
       \/ Decide(s) \/ Store(s) \/ Dispatch(s)
       \/ Pulls(s)
  \/ Environment

RaceSpec == RaceInit /\ [][RaceNext]_raceVars

\* The schedules in which no two calls are in flight for the same key and
\* pulls run alone, as if the sources took turns.
SerialNext ==
  \/ \E s \in Source :
       \/ \E e \in todo[s] \cup skipped[s] :
            /\ \A t \in Source : ~InFlight(t, e.key)
            /\ Load(s, e)
       \/ Decide(s) \/ Store(s) \/ Dispatch(s)
       \/ /\ \A t \in Source : handler[t] = Free
          /\ Pulls(s)
  \/ Environment

SerialSpec == RaceInit /\ [][SerialNext]_raceVars

-----------------------------------------------------------------------------
\* A call takes effect when it decides: the route it will store and the
\* event it will dispatch count from then on.
Decided(k) == {s \in Source : InFlight(s, k) /\ handler[s].pc # "loaded"}

RouteBar ==
  [k \in Key |->
     IF \E s \in Decided(k) : handler[s].pc = "store"
     THEN handler[CHOOSE s \in Decided(k) : handler[s].pc = "store"].next
     ELSE configurationMap[k]]

ViewBar ==
  [k \in Key |->
     IF \E s \in Decided(k) : ~handler[s].module
     THEN Follow(view, handler[CHOOSE s \in Decided(k) :
                                 ~handler[s].module].event)[k]
     ELSE view[k]]

Atomic == INSTANCE Manager WITH configurationMap <- RouteBar, view <- ViewBar

\* When the sources take turns on a key, OnEvent and OnModuleEvent are as
\* good as atomic: every step of updateEvent is a step of Manager or none,
\* although other keys, other sources and the scan of findNextBestSource
\* interleave with it.
ImplementsManager == Atomic!Spec

\* README "if two sources have same key then key with higher precedence will
\* be selected", at the moments when no call is in flight.
PrecedenceAtRest ==
  (\A s \in Source : handler[s] = Free) => PrecedenceServed
=============================================================================
