------------------------------- MODULE Manager -------------------------------
(***************************************************************************)
(* source/manager.go: the Manager routes every key to the source of best   *)
(* precedence that has it (lesser value, higher precedence) and keeps the  *)
(* route up to date from the pulls and the events of the sources.          *)
(*                                                                         *)
(* Every source has one goroutine that changes it and then hands its       *)
(* events to the Manager one OnEvent at a time; goroutines of different    *)
(* sources interleave between calls.  Here a call of OnEvent, one round of *)
(* OnModuleEvent's loop and a pull are atomic; ManagerRace splits OnEvent  *)
(* into the loads and stores it is made of.                                *)
(***************************************************************************)
EXTENDS EventTool, Integers, FiniteSets

CONSTANTS Source,         \* names of the sources
          Mem,            \* the memory source, written by the application
          Dynamic,        \* sources with a watcher or a ticker
          Remote,         \* sources whose configuration is loaded by the pull
          ModuleSources,  \* sources that also call OnModuleEvent
          Priority,       \* ConfigSource.GetPriority
          MinPriority,    \* the least int
          Nil,            \* the nil value of a key that is present
          MaxChanges      \* bound on the changes of all the sources together

ASSUME SourceAssumption ==
  /\ None \notin Source
  /\ Mem \in Source
  /\ Dynamic \subseteq Source \ {Mem}
  /\ Remote \subseteq Dynamic
  /\ ModuleSources \subseteq Source
ASSUME PriorityAssumption ==
  /\ MinPriority \in Int
  /\ Priority \in [Source -> Int]
  /\ \A s \in Source : Priority[s] >= MinPriority
ASSUME ChangesAssumption == MaxChanges \in Nat

VARIABLES
  phase,             \* how far AddSource has come with each source
  configurationMap,  \* key to the name of the source it is routed to
  configs,           \* the configuration each source holds
  todo,              \* events of a source not yet handed to OnEvent
  skipped,           \* events OnEvent ignored and OnModuleEvent will retry
  view,              \* what a listener of every key has been told
  silent,            \* history: keys a source changed without an event
  deleted,           \* history: keys the application deleted from Mem
  changes            \* changes made so far

vars == <<phase, configurationMap, configs, todo, skipped, view,
          silent, deleted, changes>>

Phase == {"new", "added", "failed", "pulled", "watching"}
Event == EventFrom(Source)

(***************************************************************************)
(* Helpers of the Manager.                                                 *)
(***************************************************************************)
Registered(s) == s \in Source /\ phase[s] # "new"

Usable(s, k) == configs[s][k] \notin {None, Nil}

\* Mutant of FindNextBestSource: a source without the key is as good as one
\* with it.
AnyNextSource(key, sourceName) ==
  LET candidates == {s \in Source \ {sourceName} : Registered(s)}
  IN {s \in candidates : \A t \in candidates : Priority[s] <= Priority[t]}

\* The sources findNextBestSource may return: its range over the map of
\* sources has no order, so among equals any may win.
FindNextBestSource(key, sourceName) ==
  LET candidates == {s \in Source \ {sourceName} :
                       Registered(s) /\ Usable(s, key)}
  IN {s \in candidates : \A t \in candidates : Priority[s] <= Priority[t]}

GetHighPrioritySource(a, b) ==
  IF Registered(a) /\ (Registered(b) => Priority[a] < Priority[b]) THEN a
  ELSE IF Registered(b) THEN b ELSE None

\* Mutant: a CREATE or an UPDATE is never ignored.
AcceptsAll(e) == e.type = Delete => configurationMap[e.key] = e.source

\* updateEvent returns without ErrIgnoreChange.
Accepts(e) ==
  LET current == configurationMap[e.key]
  IN IF e.type = Delete
     THEN current = e.source
     ELSE \/ current \in {None, e.source}
          \/ GetHighPrioritySource(current, e.source) # current

\* Mutants: the key of a DELETE is stored with no source's name; an accepted
\* event of another source does not move the key.
StoresNoName(e) ==
  LET best == FindNextBestSource(e.key, e.source)
  IN IF e.type # Delete THEN {e.source}
     ELSE IF best = {} THEN {Nil} ELSE best

KeepsRoute(e) ==
  LET best == FindNextBestSource(e.key, e.source)
      current == configurationMap[e.key]
  IN IF e.type # Delete THEN {IF current = None THEN e.source ELSE current}
     ELSE IF best = {} THEN {None} ELSE best

\* Where updateEvent may leave the key of an event it accepts.
NewRoutes(e) ==
  LET best == FindNextBestSource(e.key, e.source)
  IN IF e.type # Delete THEN {e.source}
     ELSE IF best = {} THEN {None} ELSE best

\* Mutant: the comparison turned round.
RoutesToWorst(s, config) ==
  [k \in Key |->
     LET current == configurationMap[k]
     IN IF /\ config[k] # None
           /\ Registered(current) => Priority[current] < Priority[s]
        THEN s ELSE current]

\* updateConfigurationMap, for the configuration that s returned.
UpdateConfigurationMap(s, config) ==
  [k \in Key |->
     LET current == configurationMap[k]
     IN IF /\ config[k] # None
           /\ Registered(current) => Priority[current] > Priority[s]
        THEN s ELSE current]

\* GetConfig: the sources it may read key from; none, and it returns nil.
GetConfig(key) ==
  LET r == configurationMap[key]
  IN IF ~Registered(r) THEN {}
     ELSE IF configs[r][key] # None THEN {r}
     ELSE FindNextBestSource(key, r)

IsKeyExist(key) == configurationMap[key] # None

Pending(s, k) == \E e \in todo[s] : e.key = k

-----------------------------------------------------------------------------
\* file, env and cli have read their input before they are added; a remote
\* source has nothing until it is pulled, and nobody has called Set.
Init ==
  /\ phase = [s \in Source |-> "new"]
  /\ configurationMap = [k \in Key |-> None]
  /\ configs \in [Source -> Config]
  /\ \A s \in Remote \cup {Mem} : configs[s] = EmptyConfig
  /\ todo = [s \in Source |-> {}]
  /\ skipped = [s \in Source |-> {}]
  /\ view = EmptyConfig
  /\ silent = [s \in Source |-> {}]
  /\ deleted = {}
  /\ changes = 0

\* AddSource up to the unlock: the name is taken from here on.
AddSource(s) ==
  /\ phase[s] = "new"
  /\ phase' = [phase EXCEPT ![s] = "added"]
  /\ UNCHANGED <<configurationMap, configs, todo, skipped, view, silent,
                 deleted, changes>>

\* The pull that follows: a remote source loads its configuration in it,
\* the other sources return the one they hold.
Pull(s) ==
  /\ phase[s] = "added"
  /\ \E config \in Config :
       /\ s \notin Remote => config = configs[s]
       /\ configs' = [configs EXCEPT ![s] = config]
       /\ configurationMap' = UpdateConfigurationMap(s, config)
       /\ silent' = [silent EXCEPT ![s] = {k \in @ : config[k] = None}]
  /\ phase' = [phase EXCEPT ![s] = "pulled"]
  /\ UNCHANGED <<todo, skipped, view, deleted, changes>>

\* The server cannot be reached: AddSource returns the error, the name
\* stays taken and Watch is never called.
PullFails(s) ==
  /\ phase[s] = "added" /\ s \in Remote
  /\ phase' = [phase EXCEPT ![s] = "failed"]
  /\ UNCHANGED <<configurationMap, configs, todo, skipped, view, silent,
                 deleted, changes>>

\* The goroutine AddSource starts has given the source its callback.
Watch(s) ==
  /\ phase[s] = "pulled"
  /\ phase' = [phase EXCEPT ![s] = "watching"]
  /\ UNCHANGED <<configurationMap, configs, todo, skipped, view, silent,
                 deleted, changes>>

Idle(s) == todo[s] = {} /\ skipped[s] = {}

\* A watcher or a ticker of s finds another configuration and stores it;
\* its events are then handed over one by one.
Change(s) ==
  /\ s \in Dynamic /\ phase[s] = "watching" /\ Idle(s)
  /\ changes < MaxChanges
  /\ \E config \in Config :
       LET events == PopulateEvents(s, configs[s], config)
       IN /\ config # configs[s]
          /\ configs' = [configs EXCEPT ![s] = config]
          /\ todo' = [todo EXCEPT ![s] = events]
          /\ silent' = [silent EXCEPT ![s] = @ \ {e.key : e \in events}]
  /\ changes' = changes + 1
  /\ UNCHANGED <<phase, configurationMap, skipped, view, deleted>>

\* The same while the source has no callback, before Watch or because the
\* pull had failed and Watch never runs: no event is made.
SilentChange(s) ==
  /\ s \in Dynamic /\ changes < MaxChanges
  /\ phase[s] \in (IF s \in Remote THEN {"pulled", "failed"} ELSE {"pulled"})
  /\ \E config \in Config :
       /\ config # configs[s]
       /\ configs' = [configs EXCEPT ![s] = config]
       /\ silent' = [silent EXCEPT
            ![s] = @ \cup {k \in Key : config[k] # configs[s][k]}]
  /\ changes' = changes + 1
  /\ UNCHANGED <<phase, configurationMap, todo, skipped, view, deleted>>

\* Manager.Set: every source but Mem ignores it.
Set(k, v) ==
  /\ phase[Mem] = "watching" /\ Idle(Mem) /\ changes < MaxChanges
  /\ LET type == IF configs[Mem][k] = None THEN Create ELSE Update
     IN todo' = [todo EXCEPT ![Mem] = {ConstructEvent(Mem, type, k, v)}]
  /\ configs' = [configs EXCEPT ![Mem][k] = v]
  /\ silent' = [silent EXCEPT ![Mem] = @ \ {k}]
  /\ deleted' = deleted \ {k}
  /\ changes' = changes + 1
  /\ UNCHANGED <<phase, configurationMap, skipped, view>>

\* Manager.Delete: the event is made, the memory source keeps the value.
DeleteKey(k) ==
  /\ phase[Mem] = "watching" /\ Idle(Mem) /\ changes < MaxChanges
  /\ configs[Mem][k] # None
  /\ todo' = [todo EXCEPT
       ![Mem] = {ConstructEvent(Mem, Delete, k, configs[Mem][k])}]
  /\ deleted' = deleted \cup {k}
  /\ changes' = changes + 1
  /\ UNCHANGED <<phase, configurationMap, configs, skipped, view, silent>>

\* OnEvent: updateEvent, then DispatchEvent unless the event is ignored.
OnEvent(s, e) ==
  /\ e \in todo[s]
  /\ todo' = [todo EXCEPT ![s] = @ \ {e}]
  /\ \/ /\ Accepts(e)
        /\ \E r \in NewRoutes(e) :
             configurationMap' = [configurationMap EXCEPT ![e.key] = r]
        /\ view' = Follow(view, e)
        /\ UNCHANGED skipped
     \/ /\ ~Accepts(e)
        /\ skipped' = IF s \in ModuleSources
                      THEN [skipped EXCEPT ![s] = @ \cup {e}] ELSE skipped
        /\ UNCHANGED <<configurationMap, view>>
  /\ UNCHANGED <<phase, configs, silent, deleted, changes>>

\* One round of OnModuleEvent: an event OnEvent had ignored goes through
\* updateEvent again; if it is accepted only module listeners hear of it.
OnModuleEvent(s, e) ==
  /\ todo[s] = {} /\ e \in skipped[s]
  /\ skipped' = [skipped EXCEPT ![s] = @ \ {e}]
  /\ IF Accepts(e)
     THEN \E r \in NewRoutes(e) :
            configurationMap' = [configurationMap EXCEPT ![e.key] = r]
     ELSE UNCHANGED configurationMap
  /\ UNCHANGED <<phase, configs, todo, view, silent, deleted, changes>>

\* Refresh routes what the source returns.  That a remote source reloads its
\* configuration for it is a Change or a SilentChange before this step.
Refresh(s) ==
  /\ Registered(s)
  /\ configurationMap' = UpdateConfigurationMap(s, configs[s])
  /\ silent' = [silent EXCEPT ![s] = {k \in @ : configs[s][k] = None}]
  /\ UNCHANGED <<phase, configs, todo, skipped, view, deleted, changes>>

\* Cleanup: every source forgets its configuration, no route is touched.
Cleanup ==
  /\ changes < MaxChanges
  /\ configs' = [s \in Source |->
                   IF Registered(s) THEN EmptyConfig ELSE configs[s]]
  /\ silent' = [s \in Source |->
       IF Registered(s) THEN silent[s] \cup {k \in Key : configs[s][k] # None}
       ELSE silent[s]]
  /\ changes' = changes + 1
  /\ UNCHANGED <<phase, configurationMap, todo, skipped, view, deleted>>

Next ==
  \/ \E s \in Source :
       \/ AddSource(s) \/ Pull(s) \/ PullFails(s) \/ Watch(s)
       \/ Change(s) \/ SilentChange(s) \/ Refresh(s)
       \/ \E e \in todo[s] : OnEvent(s, e)
       \/ \E e \in skipped[s] : OnModuleEvent(s, e)
  \/ \E k \in Key : DeleteKey(k) \/ \E v \in Value : Set(k, v)
  \/ Cleanup

Spec == Init /\ [][Next]_vars

(***************************************************************************)
(* The goroutines of the sources keep running: AddSource goes on to the    *)
(* pull and to Watch, events that were made are handed over, ignored ones  *)
(* are retried.  Nothing makes a source change, nor the application call.  *)
(***************************************************************************)
Fairness ==
  \A s \in Source :
    /\ WF_vars(Pull(s) \/ PullFails(s))
    /\ WF_vars(Watch(s))
    /\ WF_vars(\E e \in todo[s] : OnEvent(s, e))
    /\ WF_vars(\E e \in skipped[s] : OnModuleEvent(s, e))

FairSpec == Spec /\ Fairness

-----------------------------------------------------------------------------
\* The variables hold values of their types.
TypeOK ==
  /\ phase \in [Source -> Phase]
  /\ configurationMap \in [Key -> Source \cup {None}]
  /\ configs \in [Source -> Config]
  /\ todo \in [Source -> SUBSET Event]
  /\ skipped \in [Source -> SUBSET Event]
  /\ view \in Config
  /\ silent \in [Source -> SUBSET Key]
  /\ deleted \in SUBSET Key
  /\ changes \in Nat

\* The Manager has heard all that s has to say of k: s is pulled, no event
\* on k is under way, k was not changed behind the Manager's back, and the
\* value is not one the application deleted from the memory source.
Settled(s, k) ==
  /\ phase[s] \in {"pulled", "watching"}
  /\ ~Pending(s, k)
  /\ k \notin silent[s]
  /\ s = Mem => k \notin deleted

\* README "key with higher precedence will be selected": whatever the other
\* sources are in the middle of, GetConfig never reads a key from a source
\* of lesser precedence than one that has announced a value for it, and
\* never misses the key (configValueBySource, updateEvent, the pulls).
PrecedenceServed ==
  \A s \in Source, k \in Key :
    Settled(s, k) /\ Usable(s, k) =>
      /\ GetConfig(k) # {}
      /\ \A t \in GetConfig(k) : Priority[t] <= Priority[s]

\* A key stays in ConfigurationMap only while its source has it, is about
\* to announce that it lost it, or lost it without saying so: IsKeyExist
\* does not answer yes for a key that is gone from every source.
Backed(r, k) ==
  Registered(r) /\ (configs[r][k] # None \/ Pending(r, k) \/ k \in silent[r])

RouteBacked == \A k \in Key : IsKeyExist(k) => Backed(configurationMap[k], k)

(***************************************************************************)
(* The inductive invariant behind the two (see ManagerProofs).             *)
(***************************************************************************)
\* Events are under way only in a source that has its callback, and are its
\* own.
OwnEvents ==
  \A s \in Source : \A e \in todo[s] \cup skipped[s] :
    e.source = s /\ phase[s] = "watching"

\* An event still tells what its source holds: a DELETE a key it lost or that
\* the application deleted, the others their value, unless a Cleanup has
\* taken it away since.
EventsTrue ==
  \A s \in Source : \A e \in todo[s] \cup skipped[s] :
    IF e.type = Delete
    THEN configs[s][e.key] = None \/ (s = Mem /\ e.key \in deleted)
    ELSE \/ configs[s][e.key] = e.val
         \/ configs[s][e.key] = None /\ e.key \in silent[s]

\* A remote source holds nothing before its pull.
RemoteEmpty ==
  \A s \in Remote : phase[s] \in {"new", "added"} =>
    configs[s] = EmptyConfig /\ silent[s] = {}

\* A key is routed to a source of at least the precedence of every source
\* that has announced a value for it.
PrecedenceRouted ==
  \A s \in Source, k \in Key :
    Settled(s, k) /\ Usable(s, k) =>
      IsKeyExist(k) /\ Priority[configurationMap[k]] <= Priority[s]

IInv ==
  TypeOK /\ OwnEvents /\ EventsTrue /\ RemoteEmpty /\ RouteBacked
    /\ PrecedenceRouted

AnnouncesServed ==
  \A k \in Key :
    view'[k] \notin {view[k], None} /\ k \notin silent[configurationMap'[k]] =>
      GetConfig(k)' # {} /\ \A t \in GetConfig(k)' : configs'[t][k] = view'[k]

\* DispatchEvent tells a listener of a value only if GetConfig returns this
\* very value at that instant, so a listener that calls Get is not surprised
\* (values a Cleanup or a concurrent silent change took away excepted).
AnnouncedIsServed == [][AnnouncesServed]_vars

KeepsRoutes ==
  \A k \in Key :
    LET r == configurationMap[k]
        q == configurationMap'[k]
    IN /\ r # None /\ q # r
       /\ configs[r][k] # None /\ k \notin silent[r]
       /\ r = Mem => k \notin deleted
       => q # None /\ Priority[q] <= Priority[r]

\* A key is taken from a source that holds it only for one of at least its
\* precedence, unless the application deleted it from Mem or the source
\* changed it silently: neither the events of lesser sources nor their pulls
\* take it away.
RouteKept == [][KeepsRoutes]_vars

\* Every key is where it belongs: it is read from a source of the best
\* precedence among the watched ones that have it, and it exists only if a
\* source has it.
Converged ==
  \A k \in Key :
    /\ \A s \in Source :
         /\ phase[s] = "watching" /\ Usable(s, k) /\ k \notin silent[s]
         /\ s = Mem => k \notin deleted
         => /\ GetConfig(k) # {}
            /\ \A t \in GetConfig(k) : Priority[t] <= Priority[s]
    /\ IsKeyExist(k) => \E s \in Source : \/ configs[s][k] # None
                                          \/ k \in silent[s]

\* Once the sources stop changing, every key ends up where it belongs.
Converges == <>[]Converged

\* Once the application has deleted a key and the memory source has nothing
\* more to tell, GetConfig does not read the key from the memory source
\* ("Delete delete the configuration key, value pairs in memory source").
DeletedStaysDeleted ==
  \A k \in deleted : Idle(Mem) => Mem \notin GetConfig(k)
=============================================================================
