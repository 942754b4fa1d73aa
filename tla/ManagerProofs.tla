---------------------------- MODULE ManagerProofs ----------------------------
(* Proofs about Manager, for all sources, precedences, keys and values, and *)
(* of its implementation by ManagerRace on the serial schedules.            *)
EXTENDS ManagerRace, EventToolProofs, WellFoundedInduction

USE NoneAssumption, SourceAssumption, PriorityAssumption, ChangesAssumption

-----------------------------------------------------------------------------
(***************************************************************************)
(* Lemmas about the helpers.                                               *)
(***************************************************************************)

\* Among sources there is one of the best precedence: priorities are bounded
\* below, so their distances from the bound are natural numbers.
LEMMA BestExists ==
  ASSUME NEW C, C \subseteq Source, C # {}
  PROVE  \E s \in C : \A t \in C : Priority[s] <= Priority[t]
<1> DEFINE T == {Priority[s] - MinPriority : s \in C}
           R == OpToRel(<, Nat)
<1>1. T \subseteq Nat /\ T # {}
  OBVIOUS
<1>2. IsWellFoundedOn(R, Nat)
  BY NatLessThanWellFounded
<1> HIDE DEF T, R
<1>3. PICK m \in T : \A n \in T : ~(<<n, m>> \in R)
  BY <1>1, <1>2, WFMin, Zenon
<1>4. \A n \in T : ~(n < m)
  BY <1>1, <1>3 DEF R, OpToRel
<1>5. PICK s \in C : m = Priority[s] - MinPriority
  BY <1>3 DEF T
<1>6. \A t \in C : Priority[s] <= Priority[t]
  <2> SUFFICES ASSUME NEW t \in C PROVE Priority[s] <= Priority[t]
    OBVIOUS
  <2>1. Priority[t] - MinPriority \in T
    BY DEF T
  <2> QED BY <1>4, <1>5, <2>1
<1> QED BY <1>6

\* What findNextBestSource returns is usable and of no lesser precedence than
\* any other usable source, and it returns one if there is one.
LEMMA NextBest ==
  ASSUME NEW k \in Key, NEW r
  PROVE  /\ \A q \in FindNextBestSource(k, r) :
              /\ q \in Source /\ q # r /\ Registered(q) /\ Usable(q, k)
              /\ \A t \in Source :
                   t # r /\ Registered(t) /\ Usable(t, k)
                     => Priority[q] <= Priority[t]
         /\ \A t \in Source :
              t # r /\ Registered(t) /\ Usable(t, k)
                => FindNextBestSource(k, r) # {}
<1> DEFINE C == {s \in Source \ {r} : Registered(s) /\ Usable(s, k)}
<1>1. FindNextBestSource(k, r) =
        {s \in C : \A t \in C : Priority[s] <= Priority[t]}
  BY DEF FindNextBestSource
<1>2. C # {} => FindNextBestSource(k, r) # {}
  <2> HIDE DEF C
  <2>1. C \subseteq Source
    BY DEF C
  <2> QED BY <1>1, <2>1, BestExists
<1> QED BY <1>1, <1>2

\* An event that is no DELETE is ignored only for a source of strictly better
\* precedence, and accepted only from one of at least the present precedence.
LEMMA Compared ==
  ASSUME NEW e, e.type # Delete, e.source \in Source, e.key \in Key,
         Registered(e.source),
         configurationMap[e.key] \in Source,
         Registered(configurationMap[e.key])
  PROVE  /\ ~Accepts(e) => Priority[configurationMap[e.key]] < Priority[e.source]
         /\ Accepts(e) => Priority[e.source] <= Priority[configurationMap[e.key]]
BY DEF Accepts, GetHighPrioritySource

-----------------------------------------------------------------------------
LEMMA NextTypeOK == TypeOK /\ [Next]_vars => TypeOK'
<1> SUFFICES ASSUME TypeOK, [Next]_vars PROVE TypeOK'
  OBVIOUS
<1> USE DEF TypeOK
<1>1. ASSUME NEW s \in Source, AddSource(s) PROVE TypeOK'
  BY <1>1 DEF AddSource, Phase
<1>2. ASSUME NEW s \in Source, Pull(s) PROVE TypeOK'
  <2>1. PICK config \in Config :
          /\ configs' = [configs EXCEPT ![s] = config]
          /\ configurationMap' = UpdateConfigurationMap(s, config)
    BY <1>2 DEF Pull
  <2>2. configurationMap' \in [Key -> Source \cup {None}]
    BY <2>1 DEF UpdateConfigurationMap
  <2>3. configs' \in [Source -> Config] /\ phase' \in [Source -> Phase]
    BY <1>2, <2>1 DEF Pull, Phase
  <2> QED BY <1>2, <2>2, <2>3 DEF Pull
<1>3. ASSUME NEW s \in Source, PullFails(s) \/ Watch(s) PROVE TypeOK'
  BY <1>3 DEF PullFails, Watch, Phase
<1>4. ASSUME NEW s \in Source, Change(s) PROVE TypeOK'
  <2>1. PICK config \in Config :
          /\ configs' = [configs EXCEPT ![s] = config]
          /\ todo' = [todo EXCEPT ![s] = PopulateEvents(s, configs[s], config)]
    BY <1>4 DEF Change
  <2>2. PopulateEvents(s, configs[s], config) \in SUBSET Event
    BY PopulateEventsType DEF Event, EventFrom
  <2>3. configs' \in [Source -> Config] /\ todo' \in [Source -> SUBSET Event]
    BY <2>1, <2>2
  <2>4. silent' \in [Source -> SUBSET Key]
    BY <1>4 DEF Change
  <2> QED BY <1>4, <2>3, <2>4 DEF Change
<1>5. ASSUME NEW s \in Source, SilentChange(s) PROVE TypeOK'
  BY <1>5 DEF SilentChange
<1>6. ASSUME NEW s \in Source, Refresh(s) PROVE TypeOK'
  <2>1. configurationMap' \in [Key -> Source \cup {None}]
    BY <1>6 DEF Refresh, UpdateConfigurationMap
  <2> QED BY <1>6, <2>1 DEF Refresh
<1>7. ASSUME NEW s \in Source, NEW e \in todo[s], OnEvent(s, e) PROVE TypeOK'
  <2>1. e \in Event
    OBVIOUS
  <2>2. \A r \in NewRoutes(e) : e.source \in Source => r \in Source \cup {None}
    BY <2>1, NextBest DEF NewRoutes, Event, EventFrom
  <2>3. configurationMap' \in [Key -> Source \cup {None}]
    BY <1>7, <2>1, <2>2 DEF OnEvent, Event, EventFrom
  <2>4. view' \in Config
    BY <1>7, <2>1 DEF OnEvent, Follow, Event, EventFrom, Config
  <2>5. skipped' \in [Source -> SUBSET Event] /\ todo' \in [Source -> SUBSET Event]
    BY <1>7, <2>1 DEF OnEvent
  <2> QED BY <1>7, <2>3, <2>4, <2>5 DEF OnEvent
<1>8. ASSUME NEW s \in Source, NEW e \in skipped[s], OnModuleEvent(s, e)
      PROVE  TypeOK'
  <2>1. e \in Event
    OBVIOUS
  <2>2. \A r \in NewRoutes(e) : e.source \in Source => r \in Source \cup {None}
    BY <2>1, NextBest DEF NewRoutes, Event, EventFrom
  <2>3. configurationMap' \in [Key -> Source \cup {None}]
    BY <1>8, <2>1, <2>2 DEF OnModuleEvent, Event, EventFrom
  <2> QED BY <1>8, <2>3 DEF OnModuleEvent
<1>9. ASSUME NEW k \in Key, NEW v \in Value, Set(k, v) PROVE TypeOK'
  <2>1. configs' \in [Source -> Config]
    BY <1>9 DEF Set, Config
  <2>2. todo' \in [Source -> SUBSET Event]
    BY <1>9 DEF Set, ConstructEvent, Event, EventFrom
  <2> QED BY <1>9, <2>1, <2>2 DEF Set
<1>10. ASSUME NEW k \in Key, DeleteKey(k) PROVE TypeOK'
  <2>1. todo' \in [Source -> SUBSET Event]
    BY <1>10 DEF DeleteKey, ConstructEvent, Event, EventFrom, Config
  <2> QED BY <1>10, <2>1 DEF DeleteKey
<1>11. CASE Cleanup
  <2>1. configs' \in [Source -> Config]
    BY <1>11 DEF Cleanup, EmptyConfig, Config
  <2>2. silent' \in [Source -> SUBSET Key]
    BY <1>11 DEF Cleanup
  <2> QED BY <1>11, <2>1, <2>2 DEF Cleanup
<1>12. CASE UNCHANGED vars
  BY <1>12 DEF vars
<1> QED BY <1>1, <1>2, <1>3, <1>4, <1>5, <1>6, <1>7, <1>8, <1>9, <1>10,
           <1>11, <1>12 DEF Next

LEMMA NextEvents ==
  IInv /\ [Next]_vars => OwnEvents' /\ EventsTrue' /\ RemoteEmpty'
<1> SUFFICES ASSUME IInv, [Next]_vars
             PROVE  OwnEvents' /\ EventsTrue' /\ RemoteEmpty'
  OBVIOUS
<1> USE DEF IInv, OwnEvents, EventsTrue, RemoteEmpty
<1>1. ASSUME NEW s \in Source, AddSource(s)
      PROVE  OwnEvents' /\ EventsTrue' /\ RemoteEmpty'
  BY <1>1 DEF AddSource, TypeOK
<1>2. ASSUME NEW s \in Source, Pull(s)
      PROVE  OwnEvents' /\ EventsTrue' /\ RemoteEmpty'
  <2>1. PICK config \in Config : configs' = [configs EXCEPT ![s] = config]
    BY <1>2 DEF Pull
  <2>2. todo[s] = {} /\ skipped[s] = {}
    BY <1>2 DEF Pull
  <2> QED BY <1>2, <2>1, <2>2 DEF Pull, TypeOK
<1>3. ASSUME NEW s \in Source, PullFails(s) \/ Watch(s)
      PROVE  OwnEvents' /\ EventsTrue' /\ RemoteEmpty'
  BY <1>3 DEF PullFails, Watch, TypeOK
<1>4. ASSUME NEW s \in Source, Change(s)
      PROVE  OwnEvents' /\ EventsTrue' /\ RemoteEmpty'
  <2>1. PICK config \in Config :
          /\ configs' = [configs EXCEPT ![s] = config]
          /\ todo' = [todo EXCEPT ![s] = PopulateEvents(s, configs[s], config)]
    BY <1>4 DEF Change
  <2>2. configs[s] \in Config
    BY DEF TypeOK
  <2>3. \A e \in PopulateEvents(s, configs[s], config) :
          /\ e.source = s
          /\ config[e.key] = IF e.type = Delete THEN None ELSE e.val
    BY <2>2, PopulateEventsType, PopulateEventsComplete DEF EventFrom
  <2>4. OwnEvents'
    BY <1>4, <2>1, <2>3 DEF Change, TypeOK
  <2>5. EventsTrue'
    BY <1>4, <2>1, <2>3 DEF Change, Idle, TypeOK
  <2>6. RemoteEmpty'
    BY <1>4, <2>1 DEF Change, TypeOK
  <2> QED BY <2>4, <2>5, <2>6
<1>5. ASSUME NEW s \in Source, SilentChange(s)
      PROVE  OwnEvents' /\ EventsTrue' /\ RemoteEmpty'
  <2>1. phase[s] \notin {"new", "added", "watching"}
    BY <1>5 DEF SilentChange
  <2> QED BY <1>5, <2>1 DEF SilentChange, TypeOK
<1>6. ASSUME NEW s \in Source, Refresh(s)
      PROVE  OwnEvents' /\ EventsTrue' /\ RemoteEmpty'
  BY <1>6 DEF Refresh, TypeOK
<1>7. ASSUME NEW s \in Source, NEW e \in todo[s], OnEvent(s, e)
      PROVE  OwnEvents' /\ EventsTrue' /\ RemoteEmpty'
  <2>1. \A t \in Source : todo'[t] \cup skipped'[t] \subseteq todo[t] \cup skipped[t]
    BY <1>7 DEF OnEvent, TypeOK
  <2> QED BY <1>7, <2>1 DEF OnEvent
<1>8. ASSUME NEW s \in Source, NEW e \in skipped[s], OnModuleEvent(s, e)
      PROVE  OwnEvents' /\ EventsTrue' /\ RemoteEmpty'
  <2>1. \A t \in Source : todo'[t] \cup skipped'[t] \subseteq todo[t] \cup skipped[t]
    BY <1>8 DEF OnModuleEvent, TypeOK
  <2> QED BY <1>8, <2>1 DEF OnModuleEvent
<1>9. ASSUME NEW k \in Key, NEW v \in Value, Set(k, v)
      PROVE  OwnEvents' /\ EventsTrue' /\ RemoteEmpty'
  <2>1. PICK type \in {Create, Update} :
          todo' = [todo EXCEPT ![Mem] = {ConstructEvent(Mem, type, k, v)}]
    BY <1>9 DEF Set
  <2>2. configs' = [configs EXCEPT ![Mem][k] = v]
    BY <1>9 DEF Set
  <2> QED BY <1>9, <2>1, <2>2
          DEF Set, Idle, ConstructEvent, TypeOK, Config, Create, Update, Delete
<1>10. ASSUME NEW k \in Key, DeleteKey(k)
       PROVE  OwnEvents' /\ EventsTrue' /\ RemoteEmpty'
  BY <1>10 DEF DeleteKey, Idle, ConstructEvent, TypeOK
<1>11. ASSUME Cleanup PROVE OwnEvents' /\ EventsTrue' /\ RemoteEmpty'
  <2>1. \A s \in Source, k \in Key :
          /\ phase[s] # "new" => configs'[s][k] = None
          /\ phase[s] # "new" /\ configs[s][k] # None => k \in silent'[s]
          /\ k \in silent[s] => k \in silent'[s]
          /\ configs[s][k] = None => configs'[s][k] = None
    BY <1>11 DEF Cleanup, Registered, EmptyConfig, TypeOK
  <2>2. OwnEvents'
    BY <1>11 DEF Cleanup
  <2>3. EventsTrue'
    <3>1. /\ todo' = todo /\ skipped' = skipped /\ deleted' = deleted
      BY <1>11 DEF Cleanup
    <3>2. \A s \in Source : \A e \in todo[s] \cup skipped[s] :
            e.key \in Key /\ e.val \in Value /\ phase[s] = "watching"
      BY DEF TypeOK, Event, EventFrom
    <3>3. \A s \in Source : \A e \in todo[s] \cup skipped[s] :
            /\ configs'[s][e.key] = None
            /\ configs[s][e.key] = None \/ e.key \in silent'[s]
            /\ e.key \in silent[s] => e.key \in silent'[s]
      BY <2>1, <3>2
    <3>4. \A s \in Source : \A e \in todo[s] \cup skipped[s] :
            e.type # Delete => e.key \in silent'[s]
      BY <3>2, <3>3
    <3> QED BY <3>1, <3>3, <3>4
  <2>4. RemoteEmpty'
    BY <1>11 DEF Cleanup, EmptyConfig, TypeOK
  <2> QED BY <2>2, <2>3, <2>4
<1>12. CASE UNCHANGED vars
  BY <1>12 DEF vars
<1> QED BY <1>1, <1>2, <1>3, <1>4, <1>5, <1>6, <1>7, <1>8, <1>9, <1>10,
           <1>11, <1>12 DEF Next

\* An accepted event leaves its key unrouted or routed to a source that has
\* it; only a Cleanup may have taken the value away since.
LEMMA AcceptedBacked ==
  ASSUME IInv, NEW s \in Source, NEW e \in todo[s] \cup skipped[s],
         NEW r \in NewRoutes(e), r # None
  PROVE  Registered(r) /\ (configs[r][e.key] # None \/ e.key \in silent[r])
<1>1. e \in Event /\ e.source = s /\ phase[s] = "watching"
  BY DEF IInv, OwnEvents, TypeOK
<1>2. CASE e.type = Delete
  <2>1. r \in FindNextBestSource(e.key, s)
    BY <1>1, <1>2 DEF NewRoutes
  <2> QED BY <1>1, <2>1, NextBest DEF Usable, Event, EventFrom
<1>3. CASE e.type # Delete
  <2>1. r = s
    BY <1>1, <1>3 DEF NewRoutes
  <2>2. configs[s][e.key] = e.val \/ e.key \in silent[s]
    BY <1>3 DEF IInv, EventsTrue
  <2> QED BY <1>1, <2>1, <2>2 DEF Registered, Event, EventFrom
<1> QED BY <1>2, <1>3

LEMMA NextRouteBacked == IInv /\ [Next]_vars => RouteBacked'
<1> SUFFICES ASSUME IInv, [Next]_vars PROVE RouteBacked'
  OBVIOUS
<1> USE DEF RouteBacked, Backed, IsKeyExist, Registered, Pending
<1>0. TypeOK /\ RouteBacked /\ OwnEvents /\ EventsTrue /\ RemoteEmpty
  BY DEF IInv
<1>1. ASSUME NEW s \in Source, AddSource(s) PROVE RouteBacked'
  BY <1>0, <1>1 DEF AddSource, TypeOK
<1>2. ASSUME NEW s \in Source, Pull(s) PROVE RouteBacked'
  <2>1. PICK config \in Config :
          /\ s \notin Remote => config = configs[s]
          /\ configs' = [configs EXCEPT ![s] = config]
          /\ configurationMap' = UpdateConfigurationMap(s, config)
    BY <1>2 DEF Pull
  <2>2. todo[s] = {}
    BY <1>0, <1>2 DEF Pull, OwnEvents
  <2>3. ASSUME NEW k \in Key, NEW r \in Source, configurationMap[k] = r
        PROVE  Backed(r, k)'
    <3>1. Backed(r, k)
      BY <1>0, <2>3
    <3>2. CASE r = s
      <4>1. s \notin Remote
        BY <1>0, <1>2, <2>2, <3>1, <3>2 DEF Pull, RemoteEmpty, EmptyConfig
      <4>2. configs'[s][k] = configs[s][k]
        BY <1>0, <2>1, <4>1 DEF TypeOK
      <4>3. k \in silent[s] /\ configs[s][k] = None => k \in silent'[s]
        BY <1>0, <1>2, <2>1, <4>1, <4>2 DEF Pull, TypeOK
      <4>4. phase'[s] = "pulled"
        BY <1>0, <1>2 DEF Pull, TypeOK
      <4> QED BY <2>2, <3>1, <3>2, <4>2, <4>3, <4>4
    <3>3. CASE r # s
      BY <1>0, <1>2, <2>1, <3>1, <3>3 DEF Pull, TypeOK
    <3> QED BY <3>2, <3>3
  <2>4. ASSUME NEW k \in Key, configurationMap'[k] # configurationMap[k]
        PROVE  configurationMap'[k] = s /\ Backed(s, k)'
    BY <1>0, <1>2, <2>1, <2>4 DEF Pull, UpdateConfigurationMap, TypeOK
  <2>5. ASSUME NEW k \in Key, configurationMap'[k] # None
        PROVE  Backed(configurationMap[k], k)'
    <3>1. CASE configurationMap'[k] = configurationMap[k]
      <4>1. configurationMap[k] \in Source
        BY <1>0, <2>5, <3>1 DEF TypeOK
      <4> QED BY <2>3, <3>1, <4>1
    <3>2. CASE configurationMap'[k] # configurationMap[k]
      BY <2>4, <3>2
    <3> QED BY <3>1, <3>2
  <2> QED BY <2>5
<1>3. ASSUME NEW s \in Source, PullFails(s) \/ Watch(s) PROVE RouteBacked'
  BY <1>0, <1>3 DEF PullFails, Watch, TypeOK
<1>4. ASSUME NEW s \in Source, Change(s) PROVE RouteBacked'
  <2>1. PICK config \in Config :
          /\ configs' = [configs EXCEPT ![s] = config]
          /\ todo' = [todo EXCEPT ![s] = PopulateEvents(s, configs[s], config)]
          /\ silent' = [silent EXCEPT ![s] =
               @ \ {e.key : e \in PopulateEvents(s, configs[s], config)}]
    BY <1>4 DEF Change
  <2>2. \A k \in Key : \/ \E e \in todo'[s] : e.key = k
                       \/ /\ config[k] = configs[s][k]
                          /\ k \in silent[s] => k \in silent'[s]
    BY <1>0, <2>1, PopulateEventsComplete DEF TypeOK
  <2>3. todo[s] = {}
    BY <1>4 DEF Change, Idle
  <2>4. configurationMap' = configurationMap /\ phase' = phase
    BY <1>4 DEF Change
  <2> QED BY <1>0, <2>1, <2>2, <2>3, <2>4 DEF TypeOK
<1>5. ASSUME NEW s \in Source, SilentChange(s) PROVE RouteBacked'
  BY <1>0, <1>5 DEF SilentChange, TypeOK
<1>6. ASSUME NEW s \in Source, Refresh(s) PROVE RouteBacked'
  BY <1>0, <1>6 DEF Refresh, UpdateConfigurationMap, TypeOK
<1>7. ASSUME NEW s \in Source, NEW e \in todo[s], OnEvent(s, e)
      PROVE  RouteBacked'
  <2>1. e \in Event /\ e.source = s
    BY <1>0 DEF TypeOK, OwnEvents
  <2>2. /\ phase' = phase /\ configs' = configs /\ silent' = silent
        /\ todo' = [todo EXCEPT ![s] = @ \ {e}]
    BY <1>7 DEF OnEvent
  <2>3. \A k \in Key, r \in Source : Pending(r, k) /\ ~(r = s /\ k = e.key)
          => Pending(r, k)'
    BY <1>0, <2>2 DEF TypeOK
  <2>4. CASE Accepts(e)
    <3>1. PICK r \in NewRoutes(e) :
            configurationMap' = [configurationMap EXCEPT ![e.key] = r]
      BY <1>7, <2>4 DEF OnEvent
    <3>2. r # None =>
            Registered(r) /\ (configs[r][e.key] # None \/ e.key \in silent[r])
      BY AcceptedBacked
    <3> QED BY <1>0, <2>1, <2>2, <2>3, <3>1, <3>2 DEF TypeOK, Event, EventFrom
  <2>5. CASE ~Accepts(e)
    <3>1. configurationMap' = configurationMap
      BY <1>7, <2>5 DEF OnEvent
    <3>2. configurationMap[e.key] # s
      BY <2>1, <2>5 DEF Accepts
    <3> QED BY <1>0, <2>2, <2>3, <3>1, <3>2 DEF TypeOK
  <2> QED BY <2>4, <2>5
<1>8. ASSUME NEW s \in Source, NEW e \in skipped[s], OnModuleEvent(s, e)
      PROVE  RouteBacked'
  <2>1. e \in Event /\ e.source = s
    BY <1>0 DEF TypeOK, OwnEvents
  <2>2. phase' = phase /\ configs' = configs /\ silent' = silent /\ todo' = todo
    BY <1>8 DEF OnModuleEvent
  <2>3. CASE Accepts(e)
    <3>1. PICK r \in NewRoutes(e) :
            configurationMap' = [configurationMap EXCEPT ![e.key] = r]
      BY <1>8, <2>3 DEF OnModuleEvent
    <3>2. r # None =>
            Registered(r) /\ (configs[r][e.key] # None \/ e.key \in silent[r])
      BY AcceptedBacked
    <3> QED BY <1>0, <2>1, <2>2, <3>1, <3>2 DEF TypeOK, Event, EventFrom
  <2>4. CASE ~Accepts(e)
    BY <1>0, <1>8, <2>2, <2>4 DEF OnModuleEvent
  <2> QED BY <2>3, <2>4
<1>9. ASSUME NEW k \in Key, NEW v \in Value, Set(k, v) PROVE RouteBacked'
  <2>1. /\ configs' = [configs EXCEPT ![Mem][k] = v]
        /\ silent' = [silent EXCEPT ![Mem] = @ \ {k}]
        /\ phase' = phase /\ configurationMap' = configurationMap
        /\ \A r \in Source : todo[r] \subseteq todo'[r]
    BY <1>0, <1>9 DEF Set, Idle, TypeOK
  <2>2. \A r \in Source, j \in Key :
          /\ configs[r][j] # None => configs'[r][j] # None
          /\ j \in silent[r] => j \in silent'[r] \/ configs'[r][j] # None
    BY <1>0, <2>1 DEF TypeOK, Config
  <2> QED BY <1>0, <2>1, <2>2
<1>10. ASSUME NEW k \in Key, DeleteKey(k) PROVE RouteBacked'
  <2>1. \A r \in Source : todo[r] \subseteq todo'[r]
    BY <1>0, <1>10 DEF DeleteKey, Idle, TypeOK
  <2> QED BY <1>0, <1>10, <2>1 DEF DeleteKey
<1>11. CASE Cleanup
  <2>1. \A r \in Source, k \in Key :
          phase[r] # "new" /\ (configs[r][k] # None \/ k \in silent[r])
            => k \in silent'[r]
    BY <1>0, <1>11 DEF Cleanup, TypeOK
  <2>2. phase' = phase /\ configurationMap' = configurationMap /\ todo' = todo
    BY <1>11 DEF Cleanup
  <2> QED BY <1>0, <2>1, <2>2
<1>12. CASE UNCHANGED vars
  BY <1>0, <1>12 DEF vars
<1> QED BY <1>1, <1>2, <1>3, <1>4, <1>5, <1>6, <1>7, <1>8, <1>9, <1>10,
           <1>11, <1>12 DEF Next

\* The route of k is at least as good as t.
Covers(k, t) ==
  IsKeyExist(k) /\ Priority[configurationMap[k]] <= Priority[t]

\* updateEvent leaves the key of an event covered for every source that has
\* announced a value for it, the source of the event included.
LEMMA UpdateEventCovers ==
  ASSUME IInv, NEW s \in Source, NEW e \in todo[s] \cup skipped[s],
         NEW r \in Source \cup {None},
         \/ Accepts(e) /\ r \in NewRoutes(e)
         \/ ~Accepts(e) /\ r = configurationMap[e.key],
         NEW t \in Source, phase[t] \in {"pulled", "watching"},
         Usable(t, e.key), e.key \notin silent[t],
         t = Mem => e.key \notin deleted,
         t = s \/ Covers(e.key, t)
  PROVE  r # None /\ Priority[r] <= Priority[t]
<1>1. e \in Event /\ e.key \in Key /\ e.source = s /\ phase[s] = "watching"
  BY DEF IInv, OwnEvents, TypeOK, Event, EventFrom
<1>2. \/ configurationMap[e.key] = None
      \/ configurationMap[e.key] \in Source /\ Registered(configurationMap[e.key])
  BY <1>1 DEF IInv, RouteBacked, Backed, IsKeyExist, Registered
<1>3. CASE e.type = Delete
  <2>1. t # s
    BY <1>3 DEF IInv, EventsTrue, Usable
  <2>2. CASE Accepts(e)
    <3>1. Registered(t)
      BY DEF Registered
    <3>2. FindNextBestSource(e.key, s) # {}
      BY <1>1, <2>1, <3>1, NextBest
    <3>3. r \in FindNextBestSource(e.key, s)
      BY <1>1, <1>3, <2>2, <3>2 DEF NewRoutes
    <3> QED BY <1>1, <2>1, <3>1, <3>3, NextBest
  <2>3. CASE ~Accepts(e)
    BY <2>1, <2>3 DEF Covers, IsKeyExist
  <2> QED BY <2>2, <2>3
<1>4. CASE e.type # Delete
  <2>1. CASE Accepts(e)
    <3>1. r = s
      BY <1>1, <1>4, <2>1 DEF NewRoutes
    <3>2. CASE t = s
      BY <3>1, <3>2
    <3>3. CASE t # s
      <4>1. configurationMap[e.key] \in Source /\ Registered(configurationMap[e.key])
        BY <1>2, <3>3 DEF Covers, IsKeyExist
      <4>2. Priority[s] <= Priority[configurationMap[e.key]]
        BY <1>1, <1>4, <2>1, <4>1, Compared DEF Registered
      <4> QED BY <3>1, <3>3, <4>1, <4>2 DEF Covers
    <3> QED BY <3>2, <3>3
  <2>2. CASE ~Accepts(e)
    <3>1. configurationMap[e.key] \in Source /\ Registered(configurationMap[e.key])
      BY <1>1, <1>2, <1>4, <2>2 DEF Accepts
    <3>2. Priority[configurationMap[e.key]] < Priority[s]
      BY <1>1, <1>4, <2>2, <3>1, Compared DEF Registered
    <3> QED BY <2>2, <3>1, <3>2 DEF Covers
  <2> QED BY <2>1, <2>2
<1> QED BY <1>3, <1>4

\* updateConfigurationMap keeps what is covered and covers what it is given.
LEMMA UpdateConfigurationMapCovers ==
  ASSUME TypeOK, RouteBacked, NEW s \in Source, NEW config \in Config,
         NEW k \in Key, NEW t \in Source,
         Covers(k, t) \/ (t = s /\ config[k] # None)
  PROVE  LET r == UpdateConfigurationMap(s, config)[k]
         IN r # None /\ Priority[r] <= Priority[t]
<1> DEFINE c == configurationMap[k]
           r == UpdateConfigurationMap(s, config)[k]
<1>1. c = None \/ (c \in Source /\ Registered(c))
  BY DEF TypeOK, RouteBacked, Backed, IsKeyExist
<1>2. r = IF config[k] # None /\ (Registered(c) => Priority[c] > Priority[s])
          THEN s ELSE c
  BY DEF UpdateConfigurationMap
<1>3. ~Registered(None)
  BY DEF Registered
<1> QED BY <1>1, <1>2, <1>3 DEF Covers, IsKeyExist

LEMMA NextPrecedenceRouted == IInv /\ [Next]_vars => PrecedenceRouted'
<1> SUFFICES ASSUME IInv, [Next]_vars,
                    NEW t \in Source, NEW k \in Key,
                    Settled(t, k)', Usable(t, k)'
             PROVE  Covers(k, t)'
  BY DEF PrecedenceRouted, Covers
<1> USE DEF Settled, Usable, Pending
<1>a. TypeOK /\ RouteBacked /\ OwnEvents /\ EventsTrue
  BY DEF IInv
<1>b. Settled(t, k) /\ Usable(t, k) => Covers(k, t)
  BY DEF IInv, PrecedenceRouted, Covers
<1>c. ASSUME Settled(t, k), Usable(t, k), configurationMap' = configurationMap
      PROVE  Covers(k, t)'
  BY <1>b, <1>c DEF Covers, IsKeyExist
<1>1. ASSUME NEW s \in Source, AddSource(s) PROVE Covers(k, t)'
  BY <1>a, <1>c, <1>1 DEF AddSource, TypeOK
<1>2. ASSUME NEW s \in Source, Pull(s) PROVE Covers(k, t)'
  <2>1. PICK config \in Config :
          /\ configs' = [configs EXCEPT ![s] = config]
          /\ configurationMap' = UpdateConfigurationMap(s, config)
    BY <1>2 DEF Pull
  <2>2. t # s => Settled(t, k) /\ Usable(t, k)
    BY <1>a, <1>2, <2>1 DEF Pull, TypeOK
  <2>3. t = s => config[k] # None
    BY <1>a, <2>1 DEF TypeOK
  <2>4. Covers(k, t) \/ (t = s /\ config[k] # None)
    BY <1>b, <2>2, <2>3
  <2> QED BY <1>a, <2>1, <2>4, UpdateConfigurationMapCovers DEF Covers, IsKeyExist
<1>3. ASSUME NEW s \in Source, PullFails(s) \/ Watch(s) PROVE Covers(k, t)'
  BY <1>a, <1>c, <1>3 DEF PullFails, Watch, TypeOK
<1>4. ASSUME NEW s \in Source, Change(s) PROVE Covers(k, t)'
  <2>1. PICK config \in Config :
          /\ configs' = [configs EXCEPT ![s] = config]
          /\ todo' = [todo EXCEPT ![s] = PopulateEvents(s, configs[s], config)]
          /\ silent' = [silent EXCEPT ![s] =
               @ \ {e.key : e \in PopulateEvents(s, configs[s], config)}]
    BY <1>4 DEF Change
  <2>2. /\ configurationMap' = configurationMap /\ phase' = phase
        /\ deleted' = deleted /\ todo[s] = {}
    BY <1>4 DEF Change, Idle
  <2>3. CASE t = s
    <3>1. \A e \in PopulateEvents(s, configs[s], config) : e.key # k
      BY <1>a, <2>1, <2>3 DEF TypeOK
    <3>2. config[k] = configs[s][k]
      <4>1. configs[s] \in Config
        BY <1>a DEF TypeOK
      <4>2. configs[s][k] # config[k] =>
              \E e \in PopulateEvents(s, configs[s], config) : e.key = k
        BY <4>1, PopulateEventsComplete
      <4> QED BY <3>1, <4>2
    <3>3. k \notin silent[s]
      BY <1>a, <2>1, <2>3, <3>1 DEF TypeOK
    <3> QED BY <1>a, <1>c, <2>1, <2>2, <2>3, <3>2, <3>3 DEF TypeOK
  <2>4. CASE t # s
    BY <1>a, <1>c, <2>1, <2>2, <2>4 DEF TypeOK
  <2> QED BY <2>3, <2>4
<1>5. ASSUME NEW s \in Source, SilentChange(s) PROVE Covers(k, t)'
  <2>1. PICK config \in Config :
          /\ configs' = [configs EXCEPT ![s] = config]
          /\ silent' = [silent EXCEPT
               ![s] = @ \cup {j \in Key : config[j] # configs[s][j]}]
    BY <1>5 DEF SilentChange
  <2>2. k \notin silent[t] /\ configs'[t][k] = configs[t][k]
    BY <1>a, <2>1 DEF TypeOK
  <2> QED BY <1>c, <1>5, <2>2 DEF SilentChange
<1>6. ASSUME NEW s \in Source, Refresh(s) PROVE Covers(k, t)'
  <2>1. configurationMap' = UpdateConfigurationMap(s, configs[s])
    BY <1>6 DEF Refresh
  <2>2. t # s => Settled(t, k) /\ Usable(t, k)
    BY <1>a, <1>6 DEF Refresh, TypeOK
  <2>3. t = s => configs[s][k] # None
    BY <1>6 DEF Refresh
  <2>4. Covers(k, t) \/ (t = s /\ configs[s][k] # None)
    BY <1>b, <2>2, <2>3
  <2>5. configs[s] \in Config
    BY <1>a DEF TypeOK
  <2> QED BY <1>a, <2>1, <2>4, <2>5, UpdateConfigurationMapCovers
          DEF Covers, IsKeyExist
<1>7. ASSUME NEW s \in Source, NEW e \in todo[s], OnEvent(s, e)
      PROVE  Covers(k, t)'
  <2>1. /\ phase' = phase /\ configs' = configs /\ silent' = silent
        /\ deleted' = deleted /\ todo' = [todo EXCEPT ![s] = @ \ {e}]
    BY <1>7 DEF OnEvent
  <2>2. ~(t = s /\ k = e.key) => Settled(t, k) /\ Usable(t, k)
    BY <1>a, <2>1 DEF TypeOK
  <2>3. PICK r \in Source \cup {None} :
          /\ \/ Accepts(e) /\ r \in NewRoutes(e)
             \/ ~Accepts(e) /\ r = configurationMap[e.key]
          /\ configurationMap' = [configurationMap EXCEPT ![e.key] = r]
    <3>1. e.key \in Key /\ e.source \in Source
      BY <1>a DEF TypeOK, Event, EventFrom
    <3>2. NewRoutes(e) \subseteq Source \cup {None}
      BY <3>1, NextBest DEF NewRoutes
    <3>3. configurationMap[e.key] \in Source \cup {None}
      BY <1>a, <3>1 DEF TypeOK
    <3>4. configurationMap =
            [configurationMap EXCEPT ![e.key] = configurationMap[e.key]]
      BY <1>a, <3>1 DEF TypeOK
    <3> QED BY <1>7, <3>2, <3>3, <3>4 DEF OnEvent
  <2>4. CASE k = e.key
    <3>1. r # None /\ Priority[r] <= Priority[t]
      BY <1>a, <1>b, <2>1, <2>2, <2>3, <2>4, UpdateEventCovers
    <3> QED BY <1>a, <2>3, <2>4, <3>1 DEF Covers, IsKeyExist, TypeOK
  <2>5. CASE k # e.key
    <3>1. configurationMap'[k] = configurationMap[k]
      BY <1>a, <2>3, <2>5 DEF TypeOK
    <3> QED BY <1>b, <2>2, <2>5, <3>1 DEF Covers, IsKeyExist
  <2> QED BY <2>4, <2>5
<1>8. ASSUME NEW s \in Source, NEW e \in skipped[s], OnModuleEvent(s, e)
      PROVE  Covers(k, t)'
  <2>1. /\ phase' = phase /\ configs' = configs /\ silent' = silent
        /\ deleted' = deleted /\ todo' = todo
    BY <1>8 DEF OnModuleEvent
  <2>2. Settled(t, k) /\ Usable(t, k)
    BY <2>1
  <2>3. PICK r \in Source \cup {None} :
          /\ \/ Accepts(e) /\ r \in NewRoutes(e)
             \/ ~Accepts(e) /\ r = configurationMap[e.key]
          /\ configurationMap' = [configurationMap EXCEPT ![e.key] = r]
    <3>1. e.key \in Key /\ e.source \in Source
      BY <1>a DEF TypeOK, Event, EventFrom
    <3>2. NewRoutes(e) \subseteq Source \cup {None}
      BY <3>1, NextBest DEF NewRoutes
    <3>3. configurationMap[e.key] \in Source \cup {None}
      BY <1>a, <3>1 DEF TypeOK
    <3>4. configurationMap =
            [configurationMap EXCEPT ![e.key] = configurationMap[e.key]]
      BY <1>a, <3>1 DEF TypeOK
    <3> QED BY <1>8, <3>2, <3>3, <3>4 DEF OnModuleEvent
  <2>4. CASE k = e.key
    <3>1. r # None /\ Priority[r] <= Priority[t]
      BY <1>a, <1>b, <2>2, <2>3, <2>4, UpdateEventCovers
    <3> QED BY <1>a, <2>3, <2>4, <3>1 DEF Covers, IsKeyExist, TypeOK
  <2>5. CASE k # e.key
    <3>1. configurationMap'[k] = configurationMap[k]
      BY <1>a, <2>3, <2>5 DEF TypeOK
    <3> QED BY <1>b, <2>2, <3>1 DEF Covers, IsKeyExist
  <2> QED BY <2>4, <2>5
<1>9. ASSUME NEW j \in Key, NEW v \in Value, Set(j, v) PROVE Covers(k, t)'
  <2>1. /\ configs' = [configs EXCEPT ![Mem][j] = v]
        /\ silent' = [silent EXCEPT ![Mem] = @ \ {j}]
        /\ deleted' = deleted \ {j}
        /\ phase' = phase /\ configurationMap' = configurationMap
        /\ todo[Mem] = {}
    BY <1>9 DEF Set, Idle
  <2>2. \E e \in todo'[Mem] : e.key = j
    BY <1>a, <1>9 DEF Set, ConstructEvent, TypeOK
  <2>3. \A s \in Source : s # Mem => todo'[s] = todo[s]
    BY <1>a, <1>9 DEF Set, TypeOK
  <2>4. t # Mem \/ k # j
    BY <2>2
  <2> QED BY <1>a, <1>c, <2>1, <2>3, <2>4 DEF TypeOK, Config
<1>10. ASSUME NEW j \in Key, DeleteKey(j) PROVE Covers(k, t)'
  <2>1. \A s \in Source : todo[s] \subseteq todo'[s]
    BY <1>a, <1>10 DEF DeleteKey, Idle, TypeOK
  <2> QED BY <1>c, <1>10, <2>1 DEF DeleteKey
<1>11. ASSUME Cleanup PROVE Covers(k, t)'
  <2>1. phase[t] # "new"
    BY <1>11 DEF Cleanup
  <2>2. configs'[t][k] = None
    BY <1>11, <2>1 DEF Cleanup, Registered, EmptyConfig
  <2> QED BY <2>2
<1>12. CASE UNCHANGED vars
  BY <1>c, <1>12 DEF vars
<1> QED BY <1>1, <1>2, <1>3, <1>4, <1>5, <1>6, <1>7, <1>8, <1>9, <1>10,
           <1>11, <1>12 DEF Next

-----------------------------------------------------------------------------
LEMMA InitIInv == Init => IInv
<1> SUFFICES ASSUME Init PROVE IInv
  OBVIOUS
<1>1. TypeOK
  BY DEF Init, TypeOK, Phase, EmptyConfig, Config
<1>2. OwnEvents /\ EventsTrue /\ RemoteEmpty
  BY DEF Init, OwnEvents, EventsTrue, RemoteEmpty
<1>3. RouteBacked /\ PrecedenceRouted
  BY DEF Init, RouteBacked, IsKeyExist, PrecedenceRouted, Settled
<1> QED BY <1>1, <1>2, <1>3 DEF IInv

LEMMA NextIInv == IInv /\ [Next]_vars => IInv'
BY NextTypeOK, NextEvents, NextRouteBacked, NextPrecedenceRouted DEF IInv

\* What GetConfig reads follows from the routes: the routed source, or, where
\* that one has lost the key, the best of the others.
LEMMA RoutedIsServed == IInv => PrecedenceServed
<1> SUFFICES ASSUME IInv, NEW s \in Source, NEW k \in Key,
                    Settled(s, k), Usable(s, k)
             PROVE  /\ GetConfig(k) # {}
                    /\ \A t \in GetConfig(k) : Priority[t] <= Priority[s]
  BY DEF PrecedenceServed
<1> DEFINE r == configurationMap[k]
<1>1. r # None /\ Priority[r] <= Priority[s] /\ Registered(r)
  BY DEF IInv, PrecedenceRouted, IsKeyExist, RouteBacked, Backed
<1>2. CASE configs[r][k] # None
  BY <1>1, <1>2 DEF GetConfig
<1>3. CASE configs[r][k] = None
  <2>1. GetConfig(k) = FindNextBestSource(k, r)
    BY <1>1, <1>3 DEF GetConfig
  <2>2. s # r /\ Registered(s)
    BY <1>3 DEF Usable, Settled, Registered
  <2> QED BY <2>1, <2>2, NextBest
<1> QED BY <1>2, <1>3

(***************************************************************************)
(* The two action properties, from the same invariant.                     *)
(***************************************************************************)
\* Only OnEvent tells listeners of a value, and it has just stored the route.
LEMMA StepAnnouncesServed == IInv /\ [Next]_vars => [AnnouncesServed]_vars
<1> SUFFICES ASSUME IInv, Next,
                    NEW k \in Key, view'[k] \notin {view[k], None},
                    k \notin silent[configurationMap'[k]]
             PROVE  /\ GetConfig(k)' # {}
                    /\ \A t \in GetConfig(k)' : configs'[t][k] = view'[k]
  BY DEF AnnouncesServed
<1>1. PICK s \in Source : \E e \in todo[s] : OnEvent(s, e) /\ Accepts(e)
  BY DEF Next, AddSource, Pull, PullFails, Watch, Change, SilentChange, Refresh,
         OnEvent, OnModuleEvent, DeleteKey, Set, Cleanup
<1>2. PICK e \in todo[s] : OnEvent(s, e) /\ Accepts(e)
  BY <1>1
<1>3. e \in Event /\ e.source = s /\ Registered(s)
  BY DEF IInv, TypeOK, OwnEvents, Registered
<1>4. view' = Follow(view, e) /\ view \in Config
  BY <1>2 DEF OnEvent, IInv, TypeOK
<1>5. e.key = k /\ e.type # Delete /\ view'[k] = e.val
  BY <1>3, <1>4 DEF Follow, Config, Event, EventFrom
<1>6. configurationMap'[k] = s
  BY <1>2, <1>3, <1>5 DEF OnEvent, NewRoutes, IInv, TypeOK
<1>7. configs[s][k] = e.val /\ e.val # None
  BY <1>3, <1>5, <1>6 DEF IInv, EventsTrue, Event, EventFrom
<1>8. configs' = configs /\ phase' = phase
  BY <1>2 DEF OnEvent
<1>9. GetConfig(k)' = {s}
  BY <1>3, <1>6, <1>7, <1>8 DEF GetConfig, Registered
<1> QED BY <1>5, <1>7, <1>8, <1>9

\* A pull moves a route only to a source of strictly better precedence.
LEMMA PullKeepsRoutes ==
  ASSUME IInv, NEW s \in Source, NEW config \in Config,
         configurationMap' = UpdateConfigurationMap(s, config)
  PROVE  KeepsRoutes
<1> SUFFICES ASSUME NEW k \in Key, configurationMap[k] # None,
                    configurationMap'[k] # configurationMap[k]
             PROVE  /\ configurationMap'[k] # None
                    /\ Priority[configurationMap'[k]] <= Priority[configurationMap[k]]
  BY DEF KeepsRoutes
<1>1. Registered(configurationMap[k])
  BY DEF IInv, RouteBacked, IsKeyExist, Backed
<1>2. configurationMap'[k] = s /\ Priority[configurationMap[k]] > Priority[s]
  BY <1>1 DEF UpdateConfigurationMap
<1> QED BY <1>1, <1>2 DEF Registered

\* updateEvent takes a key from its source for a source of at least its
\* precedence, or because the source has lost the key.
LEMMA UpdateEventKeepsRoutes ==
  ASSUME IInv, NEW s \in Source, NEW e \in todo[s] \cup skipped[s],
         Accepts(e), NEW q \in NewRoutes(e),
         configurationMap' = [configurationMap EXCEPT ![e.key] = q]
  PROVE  KeepsRoutes
<1> DEFINE r == configurationMap[e.key]
<1>1. e \in Event /\ e.key \in Key /\ e.source = s /\ Registered(s)
  BY DEF IInv, TypeOK, OwnEvents, Event, EventFrom, Registered
<1> SUFFICES ASSUME r # None, q # r,
                    configs[r][e.key] # None, e.key \notin silent[r],
                    r = Mem => e.key \notin deleted
             PROVE  q # None /\ Priority[q] <= Priority[r]
  BY <1>1 DEF KeepsRoutes, IInv, TypeOK
<1>2. r \in Source /\ Registered(r)
  BY <1>1 DEF IInv, RouteBacked, IsKeyExist, Backed, Registered
<1>3. e.type # Delete
  BY <1>1 DEF Accepts, IInv, EventsTrue
<1>4. q = s
  BY <1>1, <1>3 DEF NewRoutes
<1>5. Priority[s] <= Priority[r]
  BY <1>1, <1>2, <1>3, Compared
<1> QED BY <1>4, <1>5

LEMMA StepKeepsRoutes == IInv /\ [Next]_vars => [KeepsRoutes]_vars
<1> SUFFICES ASSUME IInv, Next PROVE KeepsRoutes
  OBVIOUS
<1>1. CASE UNCHANGED configurationMap
  BY <1>1 DEF KeepsRoutes
<1>2. ASSUME NEW s \in Source, Pull(s) PROVE KeepsRoutes
  BY <1>2, PullKeepsRoutes DEF Pull
<1>3. ASSUME NEW s \in Source, Refresh(s) PROVE KeepsRoutes
  BY <1>3, PullKeepsRoutes DEF Refresh, IInv, TypeOK
<1>4. ASSUME NEW s \in Source, NEW e \in todo[s], OnEvent(s, e)
      PROVE  KeepsRoutes
  BY <1>1, <1>4, UpdateEventKeepsRoutes DEF OnEvent
<1>5. ASSUME NEW s \in Source, NEW e \in skipped[s], OnModuleEvent(s, e)
      PROVE  KeepsRoutes
  BY <1>1, <1>5, UpdateEventKeepsRoutes DEF OnModuleEvent
<1> QED BY <1>1, <1>2, <1>3, <1>4, <1>5
        DEF Next, AddSource, PullFails, Watch, Change, SilentChange, DeleteKey,
            Set, Cleanup

\* The variables keep their types.
THEOREM TypeCorrect == Spec => []TypeOK
<1>1. IInv => TypeOK
  BY DEF IInv
<1> QED BY <1>1, InitIInv, NextIInv, PTL DEF Spec

\* GetConfig never reads a key from a source of lesser precedence than one
\* that has announced a value for it, whatever the others are in the middle
\* of.
THEOREM PrecedenceHolds == Spec => []PrecedenceServed
<1> QED BY RoutedIsServed, InitIInv, NextIInv, PTL DEF Spec

\* Whenever the goroutines of the sources have handed over all their events,
\* every key is where it belongs: what Converges leaves to fairness is only
\* that such a moment comes, not what the Manager has made of the events.
THEOREM ConvergedAtRest == Spec => []((\A s \in Source : Idle(s)) => Converged)
<1>1. IInv => ((\A s \in Source : Idle(s)) => Converged)
  <2> SUFFICES ASSUME IInv, \A s \in Source : Idle(s), NEW k \in Key
               PROVE  /\ \A s \in Source :
                           /\ phase[s] = "watching" /\ Usable(s, k)
                           /\ k \notin silent[s]
                           /\ s = Mem => k \notin deleted
                           => /\ GetConfig(k) # {}
                              /\ \A t \in GetConfig(k) :
                                   Priority[t] <= Priority[s]
                      /\ IsKeyExist(k) =>
                           \E s \in Source : configs[s][k] # None \/ k \in silent[s]
    BY DEF Converged
  <2>1. \A s \in Source : ~Pending(s, k)
    BY DEF Idle, Pending
  <2>2. ASSUME NEW s \in Source, phase[s] = "watching", Usable(s, k),
               k \notin silent[s], s = Mem => k \notin deleted
        PROVE  /\ GetConfig(k) # {}
               /\ \A t \in GetConfig(k) : Priority[t] <= Priority[s]
    <3>1. Settled(s, k)
      BY <2>1, <2>2 DEF Settled
    <3> QED BY <2>2, <3>1, RoutedIsServed DEF PrecedenceServed
  <2>3. ASSUME IsKeyExist(k)
        PROVE  \E s \in Source : configs[s][k] # None \/ k \in silent[s]
    <3>1. Backed(configurationMap[k], k) /\ configurationMap[k] \in Source
      BY <2>3 DEF IInv, TypeOK, RouteBacked, IsKeyExist
    <3> QED BY <2>1, <3>1 DEF Backed
  <2> QED BY <2>2, <2>3
<1> QED BY <1>1, InitIInv, NextIInv, PTL DEF Spec

\* A key is routed only to a registered source that has it, is about to
\* announce that it lost it, or lost it without an event.
THEOREM RoutesBacked == Spec => []RouteBacked
<1>1. IInv => RouteBacked
  BY DEF IInv
<1> QED BY <1>1, InitIInv, NextIInv, PTL DEF Spec

\* Whoever is told of a value and asks for it is answered with this very
\* value.
THEOREM ToldIsServed == Spec => AnnouncedIsServed
<1> QED BY StepAnnouncesServed, InitIInv, NextIInv, PTL DEF Spec, AnnouncedIsServed

\* A key is taken from a source that holds it only for one of at least its
\* precedence.
THEOREM RoutesAreKept == Spec => RouteKept
<1> QED BY StepKeepsRoutes, InitIInv, NextIInv, PTL DEF Spec, RouteKept

-----------------------------------------------------------------------------
(***************************************************************************)
(* updateEvent in steps implements Manager when the calls for one key take *)
(* turns.                                                                  *)
(***************************************************************************)
Calls ==
       {Free}
  \cup [pc : {"loaded"}, event : Event, module : BOOLEAN,
        current : Source \cup {None}]
  \cup [pc : {"store", "dispatch"}, event : Event, module : BOOLEAN,
        next : Source \cup {None}]

\* What a call has loaded is still so when it decides.
LoadedHolds(s) ==
  LET h == handler[s]
  IN /\ h.event \in (IF h.module THEN skipped[s] ELSE todo[s])
     /\ h.module => todo[s] = {}
     /\ h.current = configurationMap[h.event.key]

OneCallPerKey ==
  \A s, t \in Source :
    s # t /\ handler[s].pc # "free" /\ handler[t].pc # "free" =>
      handler[s].event.key # handler[t].event.key

SerialInv ==
  /\ TypeOK
  /\ handler \in [Source -> Calls]
  /\ \A s \in Source : todo[s] \cap skipped[s] = {}
  /\ \A s \in Source : handler[s].pc = "loaded" => LoadedHolds(s)
  /\ OneCallPerKey

\* The cases of a call, and what it holds in each.
LEMMA CallCases ==
  ASSUME NEW h \in Calls
  PROVE  /\ h.pc \in {"free", "loaded", "store", "dispatch"}
         /\ h = Free <=> h.pc = "free"
         /\ h.pc # "free" => /\ h.event \in Event /\ h.event.key \in Key
                             /\ h.event.source \in Source
                             /\ h.module \in BOOLEAN
         /\ h.pc = "loaded" => h.current \in Source \cup {None}
         /\ h.pc \in {"store", "dispatch"} => h.next \in Source \cup {None}
BY DEF Calls, Free, Event, EventFrom

LEMMA NextSerialInv == SerialInv /\ [SerialNext]_raceVars => SerialInv'
<1> SUFFICES ASSUME SerialInv, [SerialNext]_raceVars PROVE SerialInv'
  OBVIOUS
<1>0. \A s \in Source : handler[s] \in Calls
  BY DEF SerialInv
<1>1. ASSUME NEW s \in Source, NEW e \in todo[s] \cup skipped[s],
             \A t \in Source : ~InFlight(t, e.key), Load(s, e)
      PROVE  SerialInv'
  <2>1. e \in Event /\ e.key \in Key
    BY DEF SerialInv, TypeOK, Event, EventFrom
  <2> DEFINE h == [pc |-> "loaded", event |-> e, module |-> e \notin todo[s],
                   current |-> configurationMap[e.key]]
  <2>2. h \in Calls
    BY <2>1 DEF Calls, SerialInv, TypeOK
  <2>3. handler' = [handler EXCEPT ![s] = h] /\ UNCHANGED vars
    BY <1>1 DEF Load
  <2>4. \A t \in Source : handler'[t] = IF t = s THEN h ELSE handler[t]
    BY <2>3 DEF SerialInv
  <2>5. LoadedHolds(s)'
    <3>1. h.event = e /\ h.module = (e \notin todo[s])
          /\ h.current = configurationMap[e.key]
      OBVIOUS
    <3>2. handler'[s] = h
      BY <2>4
    <3>3. /\ e \in (IF h.module THEN skipped[s] ELSE todo[s])
          /\ h.module => todo[s] = {}
      <4> HIDE DEF h
      <4> QED BY <1>1, <3>1 DEF Load
    <3> HIDE DEF h
    <3> QED BY <2>3, <3>1, <3>2, <3>3 DEF LoadedHolds, vars
  <2>6. \A t \in Source : handler'[t].pc = "loaded" => LoadedHolds(t)'
    BY <2>3, <2>4, <2>5 DEF SerialInv, LoadedHolds, vars
  <2>7. OneCallPerKey'
    <3>1. \A t \in Source : handler[t].pc # "free" => handler[t].event.key # e.key
      BY <1>0, <1>1, CallCases DEF InFlight
    <3> QED BY <2>4, <3>1 DEF OneCallPerKey, SerialInv
  <2> QED BY <2>2, <2>3, <2>6, <2>7 DEF SerialInv, TypeOK, vars
<1>2. ASSUME NEW s \in Source, Decide(s) PROVE SerialInv'
  <2> DEFINE e == handler[s].event
  <2>1. /\ e \in Event /\ handler[s].module \in BOOLEAN /\ LoadedHolds(s)
        /\ e.source \in Source
    BY <1>0, <1>2, CallCases DEF Decide, SerialInv
  <2>2. NewRoutes(e) \subseteq Source \cup {None}
    BY <2>1, NextBest DEF NewRoutes, Event, EventFrom
  <2>3. PICK h \in Calls :
          /\ handler' = [handler EXCEPT ![s] = h]
          /\ h.pc # "loaded" /\ (h.pc # "free" => h.event = e)
    <3>1. CASE AcceptsLoaded(handler[s])
      <4>1. PICK r \in NewRoutes(e) :
              handler' = [handler EXCEPT
                ![s] = [pc |-> "store", event |-> e,
                        module |-> handler[s].module, next |-> r]]
        BY <1>2, <3>1 DEF Decide
      <4>2. [pc |-> "store", event |-> e,
             module |-> handler[s].module, next |-> r] \in Calls
        BY <2>1, <2>2 DEF Calls
      <4> QED BY <4>1, <4>2
    <3>2. CASE ~AcceptsLoaded(handler[s])
      <4>1. handler' = [handler EXCEPT ![s] = Free]
        BY <1>2, <3>2 DEF Decide
      <4>2. Free \in Calls /\ Free.pc = "free"
        BY DEF Free, Calls
      <4> QED BY <4>1, <4>2
    <3> QED BY <3>1, <3>2
  <2>4. \A t \in Source : handler'[t] = IF t = s THEN h ELSE handler[t]
    BY <2>3 DEF SerialInv
  <2>5. /\ UNCHANGED <<phase, configurationMap, configs, view, silent, deleted,
                       changes>>
        /\ todo' = [todo EXCEPT ![s] = @ \ {e}]
        /\ \E S \in SUBSET Event :
             S \subseteq skipped[s] \cup {e} /\ skipped' = [skipped EXCEPT ![s] = S]
    BY <1>2, <2>1 DEF Decide, SerialInv, TypeOK
  <2>6. TypeOK'
    BY <2>5 DEF SerialInv, TypeOK
  <2>7. \A t \in Source : todo'[t] \cap skipped'[t] = {}
    BY <2>5 DEF SerialInv, TypeOK
  <2>8. \A t \in Source : handler'[t].pc = "loaded" => LoadedHolds(t)'
    <3> SUFFICES ASSUME NEW t \in Source, handler'[t].pc = "loaded"
                 PROVE  LoadedHolds(t)'
      OBVIOUS
    <3>1. t # s /\ handler'[t] = handler[t] /\ LoadedHolds(t)
      BY <2>3, <2>4 DEF SerialInv
    <3>2. todo'[t] = todo[t] /\ skipped'[t] = skipped[t]
      BY <2>5, <3>1 DEF SerialInv, TypeOK
    <3> QED BY <2>5, <3>1, <3>2 DEF LoadedHolds
  <2>9. OneCallPerKey'
    <3>1. handler[s].pc # "free"
      BY <1>2 DEF Decide
    <3> QED BY <2>3, <2>4, <3>1 DEF OneCallPerKey, SerialInv
  <2> QED BY <2>3, <2>6, <2>7, <2>8, <2>9 DEF SerialInv
<1>3. ASSUME NEW s \in Source, Store(s) PROVE SerialInv'
  <2> DEFINE e == handler[s].event
  <2>1. e.key \in Key /\ handler[s].next \in Source \cup {None}
    BY <1>0, <1>3, CallCases DEF Store
  <2>2. [handler[s] EXCEPT !.pc = "dispatch"] \in Calls
    <3>1. handler[s] \in [pc : {"store", "dispatch"}, event : Event,
                          module : BOOLEAN, next : Source \cup {None}]
      BY <1>0, <1>3 DEF Store, Calls, Free
    <3> QED BY <3>1 DEF Calls
  <2>3. \A t \in Source :
          handler'[t] = IF t = s THEN [handler[s] EXCEPT !.pc = "dispatch"]
                                 ELSE handler[t]
    BY <1>3 DEF Store, SerialInv
  <2>4. /\ UNCHANGED <<phase, configs, todo, skipped, view, silent, deleted, changes>>
        /\ configurationMap' = [configurationMap EXCEPT ![e.key] = handler[s].next]
        /\ handler' \in [Source -> Calls]
    BY <1>3, <2>2 DEF Store, SerialInv
  <2>5. TypeOK'
    BY <2>1, <2>4 DEF SerialInv, TypeOK
  <2>6. handler[s].pc = "store" /\ handler'[s].pc = "dispatch"
        /\ handler'[s].event = e
    <3>1. handler[s] \in [pc : {"store", "dispatch"}, event : Event,
                          module : BOOLEAN, next : Source \cup {None}]
      BY <1>0, <1>3 DEF Store, Calls, Free
    <3> QED BY <1>3, <2>3, <3>1 DEF Store
  <2>7. \A t \in Source : handler'[t].pc = "loaded" => LoadedHolds(t)'
    <3> SUFFICES ASSUME NEW t \in Source, handler'[t].pc = "loaded"
                 PROVE  LoadedHolds(t)'
      OBVIOUS
    <3>1. t # s /\ handler'[t] = handler[t] /\ LoadedHolds(t)
      BY <2>3, <2>6 DEF SerialInv
    <3>2. handler[t].event.key # e.key
      BY <2>3, <2>6, <3>1 DEF OneCallPerKey, SerialInv
    <3>3. configurationMap'[handler[t].event.key] = configurationMap[handler[t].event.key]
      BY <2>4, <3>2 DEF SerialInv, TypeOK
    <3> QED BY <2>4, <3>1, <3>3 DEF LoadedHolds
  <2>8. OneCallPerKey'
    BY <2>3, <2>6 DEF OneCallPerKey, SerialInv
  <2> QED BY <2>4, <2>5, <2>7, <2>8 DEF SerialInv
<1>4. ASSUME NEW s \in Source, Dispatch(s) PROVE SerialInv'
  <2>1. handler[s].event \in Event /\ handler[s].pc = "dispatch"
    BY <1>0, <1>4, CallCases DEF Dispatch
  <2>2. \A t \in Source : handler'[t] = IF t = s THEN Free ELSE handler[t]
    BY <1>4 DEF Dispatch, SerialInv
  <2>3. handler' \in [Source -> Calls]
    BY <1>4 DEF Dispatch, SerialInv, Calls
  <2>4. UNCHANGED <<phase, configurationMap, configs, todo, skipped, silent,
                    deleted, changes>>
    BY <1>4 DEF Dispatch
  <2>5. view' \in Config
    BY <1>4, <2>1 DEF Dispatch, SerialInv, TypeOK, Follow, Config, Event, EventFrom
  <2>6. TypeOK'
    BY <2>4, <2>5 DEF SerialInv, TypeOK
  <2>7. \A t \in Source : handler'[t].pc = "loaded" => LoadedHolds(t)'
    BY <2>2, <2>4 DEF SerialInv, LoadedHolds, Free
  <2>8. OneCallPerKey'
    BY <2>2 DEF OneCallPerKey, SerialInv, Free
  <2> QED BY <2>3, <2>4, <2>6, <2>7, <2>8 DEF SerialInv
<1>5. ASSUME NEW s \in Source, \A t \in Source : handler[t] = Free, Pulls(s)
      PROVE  SerialInv'
  <2>1. TypeOK'
    BY <1>5, NextTypeOK DEF Pulls, Next, SerialInv
  <2>2. handler' = handler /\ UNCHANGED <<todo, skipped>>
    BY <1>5 DEF Pulls, Pull, Refresh
  <2> QED BY <1>5, <2>1, <2>2 DEF SerialInv, OneCallPerKey, Free
<1>6. CASE Environment
  <2>1. TypeOK'
    BY <1>6, NextTypeOK DEF Environment, Next, SerialInv
  <2>2. handler' = handler /\ configurationMap' = configurationMap
    BY <1>6 DEF Environment, AddSource, PullFails, Watch, SilentChange, Change,
                DeleteKey, Set, Cleanup
  <2>3. \A t \in Source :
          \/ todo'[t] = todo[t] /\ skipped'[t] = skipped[t]
          \/ handler[t] = Free /\ skipped'[t] = {}
    BY <1>6 DEF Environment, AddSource, PullFails, Watch, SilentChange, Change,
                DeleteKey, Set, Cleanup, Idle, SerialInv, TypeOK
  <2> QED BY <2>1, <2>2, <2>3 DEF SerialInv, LoadedHolds, OneCallPerKey, Free
<1>7. CASE UNCHANGED raceVars
  BY <1>7 DEF raceVars, vars, SerialInv, TypeOK, LoadedHolds, OneCallPerKey
<1> QED BY <1>1, <1>2, <1>3, <1>4, <1>5, <1>6, <1>7 DEF SerialNext

\* The call s is in counts as stored, as told, on key k.
Storing(s, k) == handler[s].pc = "store" /\ handler[s].event.key = k

Telling(s, k) ==
  /\ handler[s].pc \in {"store", "dispatch"} /\ ~handler[s].module
  /\ handler[s].event.key = k

\* What the refinement mapping makes of a key: at most one call counts on it.
BarsHold ==
  \A k \in Key :
    /\ \A s \in Source : Storing(s, k) => RouteBar[k] = handler[s].next
    /\ (\A s \in Source : ~Storing(s, k)) => RouteBar[k] = configurationMap[k]
    /\ \A s \in Source :
         Telling(s, k) => ViewBar[k] = Follow(view, handler[s].event)[k]
    /\ (\A s \in Source : ~Telling(s, k)) => ViewBar[k] = view[k]

LEMMA Bars == SerialInv => BarsHold
<1> SUFFICES ASSUME SerialInv, NEW k \in Key
             PROVE  /\ \A s \in Source : Storing(s, k) => RouteBar[k] = handler[s].next
                    /\ (\A s \in Source : ~Storing(s, k))
                         => RouteBar[k] = configurationMap[k]
                    /\ \A s \in Source :
                         Telling(s, k)
                           => ViewBar[k] = Follow(view, handler[s].event)[k]
                    /\ (\A s \in Source : ~Telling(s, k)) => ViewBar[k] = view[k]
  BY DEF BarsHold
<1>1. \A s \in Source : s \in Decided(k) <=>
        handler[s].pc \in {"store", "dispatch"} /\ handler[s].event.key = k
  <2>1. \A s \in Source :
          /\ handler[s].pc \in {"free", "loaded", "store", "dispatch"}
          /\ handler[s] = Free <=> handler[s].pc = "free"
    BY CallCases DEF SerialInv
  <2> QED BY <2>1 DEF Decided, InFlight
<1>2. Decided(k) \subseteq Source /\ \A s, t \in Decided(k) : s = t
  <2>1. Decided(k) \subseteq Source
    BY DEF Decided
  <2> QED BY <1>1, <2>1 DEF SerialInv, OneCallPerKey
<1>3. \A s \in Source :
        /\ Storing(s, k) <=> s \in Decided(k) /\ handler[s].pc = "store"
        /\ Telling(s, k) <=> s \in Decided(k) /\ ~handler[s].module
  BY <1>1 DEF Storing, Telling
<1> HIDE DEF Storing, Telling, Decided
<1>4. RouteBar[k] =
        IF \E s \in Decided(k) : handler[s].pc = "store"
        THEN handler[CHOOSE s \in Decided(k) : handler[s].pc = "store"].next
        ELSE configurationMap[k]
  BY DEF RouteBar
<1>5. ViewBar[k] =
        IF \E s \in Decided(k) : ~handler[s].module
        THEN Follow(view, handler[CHOOSE s \in Decided(k) : ~handler[s].module].event)[k]
        ELSE view[k]
  BY DEF ViewBar
<1>6. ASSUME NEW s \in Source, Storing(s, k) PROVE RouteBar[k] = handler[s].next
  <2>1. s = CHOOSE t \in Decided(k) : handler[t].pc = "store"
    BY <1>2, <1>3, <1>6
  <2> QED BY <1>3, <1>4, <1>6, <2>1
<1>7. ASSUME NEW s \in Source, Telling(s, k)
      PROVE  ViewBar[k] = Follow(view, handler[s].event)[k]
  <2>1. s = CHOOSE t \in Decided(k) : ~handler[t].module
    BY <1>2, <1>3, <1>7
  <2> QED BY <1>3, <1>5, <1>7, <2>1
<1> QED BY <1>2, <1>3, <1>4, <1>5, <1>6, <1>7

LEMMA BarsAreFunctions ==
  /\ RouteBar = [k \in Key |-> RouteBar[k]]
  /\ ViewBar = [k \in Key |-> ViewBar[k]]
BY DEF RouteBar, ViewBar

\* The helpers that do not read the mapped variables mean the same above.
LEMMA SameHelpers ==
  ASSUME NEW s, NEW e, NEW c, NEW d
  PROVE  /\ Atomic!Follow(c, e) = Follow(c, e)
         /\ Atomic!PopulateEvents(s, c, d) = PopulateEvents(s, c, d)
         /\ Atomic!NewRoutes(e) = NewRoutes(e)
         /\ Atomic!GetHighPrioritySource(c, d) = GetHighPrioritySource(c, d)
<1>1. Atomic!FindNextBestSource(e.key, e.source) = FindNextBestSource(e.key, e.source)
  BY DEF Atomic!FindNextBestSource, FindNextBestSource, Atomic!Registered, Registered,
         Atomic!Usable, Usable
<1> QED BY <1>1
        DEF Atomic!Follow, Follow, Atomic!Delete, Delete, Atomic!Create, Create,
            Atomic!Update, Update, Atomic!ConstructEvent, ConstructEvent,
            Atomic!PopulateEvents, PopulateEvents, Atomic!NewRoutes, NewRoutes,
            Atomic!GetHighPrioritySource, GetHighPrioritySource,
            Atomic!Registered, Registered

\* A step that changes no call that counts on a key, nor what the key is mapped
\* over, leaves the key as it is mapped.
LEMMA RouteBarKept ==
  ASSUME BarsHold, BarsHold', NEW k \in Key,
         configurationMap'[k] = configurationMap[k],
         \A s \in Source : /\ Storing(s, k)' <=> Storing(s, k)
                           /\ Storing(s, k) => handler'[s].next = handler[s].next
  PROVE  RouteBar'[k] = RouteBar[k]
<1>1. CASE \E s \in Source : Storing(s, k)
  BY <1>1 DEF BarsHold
<1>2. CASE \A s \in Source : ~Storing(s, k)
  BY <1>2 DEF BarsHold
<1> QED BY <1>1, <1>2

LEMMA ViewBarKept ==
  ASSUME BarsHold, BarsHold', NEW k \in Key,
         view \in Config, view' \in Config, view'[k] = view[k],
         \A s \in Source : /\ Telling(s, k)' <=> Telling(s, k)
                           /\ Telling(s, k) => handler'[s].event = handler[s].event
  PROVE  ViewBar'[k] = ViewBar[k]
<1>1. CASE \E s \in Source : Telling(s, k)
  <2>1. PICK s \in Source : Telling(s, k)
    BY <1>1
  <2>2. /\ ViewBar[k] = Follow(view, handler[s].event)[k]
        /\ handler[s].event.key = k
    BY <2>1 DEF BarsHold, Telling
  <2>3. ViewBar'[k] = Follow(view', handler[s].event)[k]
    BY <2>1 DEF BarsHold
  <2> QED BY <2>2, <2>3 DEF Follow, Config
<1>2. CASE \A s \in Source : ~Telling(s, k)
  BY <1>2 DEF BarsHold
<1> QED BY <1>1, <1>2

LEMMA BarsEqual ==
  ASSUME \A k \in Key : RouteBar'[k] = RouteBar[k] /\ ViewBar'[k] = ViewBar[k]
  PROVE  RouteBar' = RouteBar /\ ViewBar' = ViewBar
<1>1. (/\ RouteBar = [k \in Key |-> RouteBar[k]]
       /\ ViewBar = [k \in Key |-> ViewBar[k]])'
  BY BarsAreFunctions, PTL
<1> QED BY <1>1, BarsAreFunctions

\* The step of a call takes effect when it decides, and then once.
LEMMA DecideImplements ==
  ASSUME SerialInv, BarsHold, BarsHold', NEW s \in Source, Decide(s)
  PROVE  \/ \E e \in todo[s] : Atomic!OnEvent(s, e)
         \/ \E e \in skipped[s] : Atomic!OnModuleEvent(s, e)
<1> DEFINE h == handler[s]
           e == h.event
<1>1. /\ e \in Event /\ e.key \in Key /\ h.module \in BOOLEAN /\ h.pc = "loaded"
      /\ e \in (IF h.module THEN skipped[s] ELSE todo[s])
      /\ h.module => todo[s] = {}
      /\ h.current = configurationMap[e.key]
      /\ todo[s] \cap skipped[s] = {}
  <2>1. h \in Calls /\ h.pc = "loaded"
    BY DEF Decide, SerialInv
  <2>2. LoadedHolds(s)
    BY <2>1 DEF SerialInv
  <2> QED BY <2>1, <2>2, CallCases DEF LoadedHolds, SerialInv
<1>2. \A t \in Source : t # s /\ handler[t].pc # "free" => handler[t].event.key # e.key
  BY <1>1 DEF SerialInv, OneCallPerKey
<1>3. RouteBar[e.key] = configurationMap[e.key]
  <2>1. \A t \in Source : ~Storing(t, e.key)
    BY <1>1, <1>2 DEF Storing
  <2> QED BY <1>1, <2>1 DEF BarsHold
<1>4. AcceptsLoaded(h) <=> Atomic!Accepts(e)
  BY <1>1, <1>3, SameHelpers
     DEF AcceptsLoaded, Atomic!Accepts, Atomic!Delete, Delete
<1>5. /\ UNCHANGED <<phase, configurationMap, configs, view, silent, deleted, changes>>
      /\ todo' = [todo EXCEPT ![s] = @ \ {e}]
  BY DEF Decide
<1>6. \A t \in Source : t # s => handler'[t] = handler[t]
  BY DEF Decide, SerialInv
<1>7. view \in Config /\ todo \in [Source -> SUBSET Event]
      /\ skipped \in [Source -> SUBSET Event]
  BY DEF SerialInv, TypeOK
<1>8. CASE AcceptsLoaded(h)
  <2>1. PICK r \in NewRoutes(e) :
          handler' = [handler EXCEPT
            ![s] = [pc |-> "store", event |-> e, module |-> h.module, next |-> r]]
    BY <1>8 DEF Decide
  <2>2. /\ handler'[s].pc = "store" /\ handler'[s].event = e
        /\ handler'[s].module = h.module /\ handler'[s].next = r
    BY <2>1 DEF SerialInv
  <2>3. skipped' = [skipped EXCEPT ![s] = @ \ {e}]
    BY <1>8 DEF Decide
  <2>4. \A k \in Key :
          RouteBar'[k] = IF k = e.key THEN r ELSE RouteBar[k]
    <3>1. RouteBar'[e.key] = r
      BY <1>1, <2>2 DEF BarsHold, Storing
    <3>2. ASSUME NEW k \in Key, k # e.key PROVE RouteBar'[k] = RouteBar[k]
      <4>1. \A t \in Source : /\ Storing(t, k)' <=> Storing(t, k)
                              /\ Storing(t, k) => handler'[t].next = handler[t].next
        BY <1>6, <2>2, <3>2 DEF Storing
      <4> QED BY <1>5, <4>1, RouteBarKept
    <3> QED BY <3>1, <3>2
  <2>5. RouteBar' = [RouteBar EXCEPT ![e.key] = r]
    <3>1. (RouteBar = [k \in Key |-> RouteBar[k]])'
      BY BarsAreFunctions, PTL
    <3> QED BY <2>4, <3>1, BarsAreFunctions
  <2>6. ASSUME NEW k \in Key, k # e.key \/ h.module PROVE ViewBar'[k] = ViewBar[k]
    <3>1. \A t \in Source : /\ Telling(t, k)' <=> Telling(t, k)
                            /\ Telling(t, k) => handler'[t].event = handler[t].event
      BY <1>1, <1>6, <2>2, <2>6 DEF Telling
    <3> QED BY <1>5, <1>7, <3>1, ViewBarKept
  <2>7. CASE ~h.module
    <3>1. ViewBar'[e.key] = Follow(view, e)[e.key]
      BY <1>1, <1>5, <2>2, <2>7 DEF BarsHold, Telling
    <3>2. ViewBar' = Follow(ViewBar, e)
      <4>1. (ViewBar = [k \in Key |-> ViewBar[k]])'
        BY BarsAreFunctions, PTL
      <4>2. ViewBar'[e.key] = IF e.type = Delete THEN None ELSE e.val
        BY <1>1, <1>7, <3>1 DEF Follow, Config
      <4> QED BY <2>6, <4>1, <4>2, BarsAreFunctions DEF Follow
    <3>3. skipped' = skipped
      BY <1>1, <1>7, <2>3, <2>7
    <3>4. e \in todo[s]
      BY <1>1, <2>7
    <3>5. Atomic!OnEvent(s, e)
      BY <1>4, <1>5, <1>8, <2>5, <3>2, <3>3, <3>4, SameHelpers DEF Atomic!OnEvent
    <3> QED BY <3>4, <3>5
  <2>8. CASE h.module
    <3>1. (ViewBar = [k \in Key |-> ViewBar[k]])'
      BY BarsAreFunctions, PTL
    <3>2. ViewBar' = ViewBar
      BY <2>6, <2>8, <3>1, BarsAreFunctions
    <3>3. todo' = todo /\ todo[s] = {} /\ e \in skipped[s]
      BY <1>1, <1>5, <1>7, <2>8
    <3>4. Atomic!OnModuleEvent(s, e)
      BY <1>4, <1>5, <1>8, <2>3, <2>5, <3>2, <3>3, SameHelpers
         DEF Atomic!OnModuleEvent
    <3> QED BY <3>3, <3>4
  <2> QED BY <1>1, <2>7, <2>8
<1>9. CASE ~AcceptsLoaded(h)
  <2>1. /\ handler'[s].pc = "free"
        /\ skipped' = [skipped EXCEPT ![s] = IF s \in ModuleSources /\ ~h.module
                                             THEN @ \cup {e} ELSE @ \ {e}]
    BY <1>9 DEF Decide, SerialInv, Free
  <2>2. RouteBar' = RouteBar /\ ViewBar' = ViewBar
    <3>1. ASSUME NEW k \in Key
          PROVE  RouteBar'[k] = RouteBar[k] /\ ViewBar'[k] = ViewBar[k]
      <4>1. \A t \in Source : /\ Storing(t, k)' <=> Storing(t, k)
                              /\ Storing(t, k) => handler'[t].next = handler[t].next
                              /\ Telling(t, k)' <=> Telling(t, k)
                              /\ Telling(t, k) => handler'[t].event = handler[t].event
        BY <1>1, <1>6, <2>1 DEF Storing, Telling
      <4> QED BY <1>5, <1>7, <4>1, RouteBarKept, ViewBarKept
    <3> QED BY <3>1, BarsEqual
  <2>3. CASE ~h.module
    <3>1. e \in todo[s] /\ e \notin skipped[s]
      BY <1>1, <2>3
    <3>2. skipped' = IF s \in ModuleSources
                     THEN [skipped EXCEPT ![s] = @ \cup {e}] ELSE skipped
      BY <1>7, <2>1, <2>3, <3>1
    <3>3. Atomic!OnEvent(s, e)
      BY <1>4, <1>5, <1>9, <2>2, <3>1, <3>2 DEF Atomic!OnEvent
    <3> QED BY <3>1, <3>3
  <2>4. CASE h.module
    <3>1. todo' = todo /\ todo[s] = {} /\ e \in skipped[s]
      BY <1>1, <1>5, <1>7, <2>4
    <3>2. skipped' = [skipped EXCEPT ![s] = @ \ {e}]
      BY <2>1, <2>4
    <3>3. Atomic!OnModuleEvent(s, e)
      BY <1>4, <1>5, <1>9, <2>2, <3>1, <3>2 DEF Atomic!OnModuleEvent
    <3> QED BY <3>1, <3>3
  <2> QED BY <1>1, <2>3, <2>4
<1> QED BY <1>8, <1>9

\* Load, Store and Dispatch are invisible: the call counts before its Store and
\* its dispatch, and not before it has decided.
LEMMA LoadStutters ==
  ASSUME SerialInv, BarsHold, BarsHold',
         NEW s \in Source, NEW e, Load(s, e)
  PROVE  UNCHANGED Atomic!vars
<1>1. handler[s].pc = "free" /\ handler'[s].pc = "loaded"
  BY DEF Load, SerialInv, Free
<1>2. \A t \in Source : t # s => handler'[t] = handler[t]
  BY DEF Load, SerialInv
<1>3. UNCHANGED vars /\ view \in Config
  BY DEF Load, SerialInv, TypeOK
<1>4. ASSUME NEW k \in Key
      PROVE  RouteBar'[k] = RouteBar[k] /\ ViewBar'[k] = ViewBar[k]
  <2>1. \A t \in Source : /\ Storing(t, k)' <=> Storing(t, k)
                          /\ Storing(t, k) => handler'[t].next = handler[t].next
                          /\ Telling(t, k)' <=> Telling(t, k)
                          /\ Telling(t, k) => handler'[t].event = handler[t].event
    BY <1>1, <1>2 DEF Storing, Telling
  <2> QED BY <1>3, <2>1, RouteBarKept, ViewBarKept DEF vars
<1> QED BY <1>3, <1>4, BarsEqual DEF vars, Atomic!vars

LEMMA StoreStutters ==
  ASSUME SerialInv, SerialInv', BarsHold, BarsHold', NEW s \in Source, Store(s)
  PROVE  UNCHANGED Atomic!vars
<1> DEFINE e == handler[s].event
<1>1. /\ e.key \in Key /\ handler[s].pc = "store"
      /\ handler[s] \in [pc : {"store", "dispatch"}, event : Event,
                         module : BOOLEAN, next : Source \cup {None}]
  <2>1. handler[s] \in Calls /\ handler[s].pc = "store"
    BY DEF Store, SerialInv
  <2>2. handler[s] \in [pc : {"store", "dispatch"}, event : Event,
                        module : BOOLEAN, next : Source \cup {None}]
    BY <2>1 DEF Calls, Free
  <2> QED BY <2>1, <2>2, CallCases
<1>2. /\ handler'[s].pc = "dispatch" /\ handler'[s].event = e
      /\ handler'[s].module = handler[s].module
  <2>1. handler'[s] = [handler[s] EXCEPT !.pc = "dispatch"]
    BY DEF Store, SerialInv
  <2> QED BY <1>1, <2>1
<1>3. \A t \in Source : t # s => handler'[t] = handler[t]
  BY DEF Store, SerialInv
<1>4. /\ UNCHANGED <<phase, configs, todo, skipped, view, silent, deleted, changes>>
      /\ configurationMap' = [configurationMap EXCEPT ![e.key] = handler[s].next]
      /\ view \in Config /\ configurationMap \in [Key -> Source \cup {None}]
  BY DEF Store, SerialInv, TypeOK
<1>5. ASSUME NEW k \in Key PROVE RouteBar'[k] = RouteBar[k]
  <2>1. CASE k = e.key
    <3>1. \A t \in Source : ~Storing(t, k)'
      <4>1. \A t \in Source : t # s /\ handler[t].pc # "free"
                                => handler[t].event.key # e.key
        BY <1>1 DEF SerialInv, OneCallPerKey
      <4> QED BY <1>2, <1>3, <2>1, <4>1 DEF Storing
    <3>2. RouteBar'[k] = configurationMap'[k]
      BY <3>1 DEF BarsHold
    <3>3. RouteBar[k] = handler[s].next
      BY <1>1, <2>1 DEF BarsHold, Storing
    <3> QED BY <1>1, <1>4, <2>1, <3>2, <3>3
  <2>2. CASE k # e.key
    <3>1. \A t \in Source : /\ Storing(t, k)' <=> Storing(t, k)
                            /\ Storing(t, k) => handler'[t].next = handler[t].next
      BY <1>2, <1>3, <2>2 DEF Storing
    <3> QED BY <1>4, <2>2, <3>1, RouteBarKept
  <2> QED BY <2>1, <2>2
<1>6. ASSUME NEW k \in Key PROVE ViewBar'[k] = ViewBar[k]
  <2>1. \A t \in Source : /\ Telling(t, k)' <=> Telling(t, k)
                          /\ Telling(t, k) => handler'[t].event = handler[t].event
    BY <1>1, <1>2, <1>3 DEF Telling
  <2> QED BY <1>4, <2>1, ViewBarKept
<1> QED BY <1>4, <1>5, <1>6, BarsEqual DEF Atomic!vars

LEMMA DispatchStutters ==
  ASSUME SerialInv, SerialInv', BarsHold, BarsHold', NEW s \in Source, Dispatch(s)
  PROVE  UNCHANGED Atomic!vars
<1> DEFINE e == handler[s].event
<1>1. /\ e \in Event /\ e.key \in Key /\ handler[s].pc = "dispatch"
      /\ handler[s].module \in BOOLEAN
  BY CallCases DEF Dispatch, SerialInv
<1>2. /\ handler'[s].pc = "free"
      /\ \A t \in Source : t # s => handler'[t] = handler[t]
  BY DEF Dispatch, SerialInv, Free
<1>3. /\ UNCHANGED <<phase, configurationMap, configs, todo, skipped, silent,
                     deleted, changes>>
      /\ view' = IF handler[s].module THEN view ELSE Follow(view, e)
      /\ view \in Config /\ view' \in Config
  BY DEF Dispatch, SerialInv, TypeOK
<1>4. ASSUME NEW k \in Key PROVE RouteBar'[k] = RouteBar[k]
  <2>1. \A t \in Source : /\ Storing(t, k)' <=> Storing(t, k)
                          /\ Storing(t, k) => handler'[t].next = handler[t].next
    BY <1>1, <1>2 DEF Storing
  <2> QED BY <1>3, <2>1, RouteBarKept
<1>5. ASSUME NEW k \in Key PROVE ViewBar'[k] = ViewBar[k]
  <2>1. CASE k = e.key /\ ~handler[s].module
    <3>1. \A t \in Source : ~Telling(t, k)'
      <4>1. \A t \in Source : t # s /\ handler[t].pc # "free"
                                => handler[t].event.key # e.key
        BY <1>1 DEF SerialInv, OneCallPerKey
      <4> QED BY <1>2, <2>1, <4>1 DEF Telling
    <3>2. ViewBar'[k] = view'[k]
      BY <3>1 DEF BarsHold
    <3>3. ViewBar[k] = Follow(view, e)[k]
      BY <1>1, <2>1 DEF BarsHold, Telling
    <3> QED BY <1>3, <2>1, <3>2, <3>3
  <2>2. CASE k # e.key \/ handler[s].module
    <3>1. \A t \in Source : /\ Telling(t, k)' <=> Telling(t, k)
                            /\ Telling(t, k) => handler'[t].event = handler[t].event
      BY <1>2, <2>2 DEF Telling
    <3>2. view'[k] = view[k]
      BY <1>1, <1>3, <2>2 DEF Follow, Config
    <3> QED BY <1>3, <3>1, <3>2, ViewBarKept
  <2> QED BY <1>1, <2>1, <2>2
<1> QED BY <1>3, <1>4, <1>5, BarsEqual DEF Atomic!vars

\* Pulls run alone, when nothing counts but what is stored and told.
LEMMA PullsImplement ==
  ASSUME SerialInv, SerialInv', BarsHold, BarsHold',
         \A t \in Source : handler[t] = Free, NEW s \in Source, Pulls(s)
  PROVE  Atomic!Pull(s) \/ Atomic!Refresh(s)
<1>1. handler' = handler
  BY DEF Pulls
<1>2. \A t \in Source, k \in Key :
        ~Storing(t, k) /\ ~Telling(t, k) /\ ~Storing(t, k)' /\ ~Telling(t, k)'
  BY <1>1 DEF Storing, Telling, Free
<1>3. RouteBar = configurationMap /\ ViewBar = view
  <2>1. \A k \in Key : RouteBar[k] = configurationMap[k] /\ ViewBar[k] = view[k]
    BY <1>2 DEF BarsHold
  <2> QED BY <2>1, BarsAreFunctions DEF SerialInv, TypeOK, Config
<1>4. RouteBar' = configurationMap' /\ ViewBar' = view'
  <2>1. \A k \in Key : RouteBar'[k] = configurationMap'[k] /\ ViewBar'[k] = view'[k]
    BY <1>2 DEF BarsHold
  <2>2. (/\ RouteBar = [k \in Key |-> RouteBar[k]]
         /\ ViewBar = [k \in Key |-> ViewBar[k]])'
    BY BarsAreFunctions, PTL
  <2> QED BY <2>1, <2>2 DEF SerialInv, TypeOK, Config
<1>5. \A c : Atomic!UpdateConfigurationMap(s, c) = UpdateConfigurationMap(s, c)
  BY <1>3 DEF Atomic!UpdateConfigurationMap, UpdateConfigurationMap,
              Atomic!Registered, Registered
<1>6. CASE Pull(s)
  <2>1. PICK config \in Config :
          /\ s \notin Remote => config = configs[s]
          /\ configs' = [configs EXCEPT ![s] = config]
          /\ configurationMap' = UpdateConfigurationMap(s, config)
          /\ silent' = [silent EXCEPT ![s] = {k \in @ : config[k] = None}]
    BY <1>6 DEF Pull
  <2>2. config \in Atomic!Config /\ RouteBar' = Atomic!UpdateConfigurationMap(s, config)
    BY <1>4, <1>5, <2>1 DEF Atomic!Config, Config
  <2>3. /\ phase[s] = "added" /\ phase' = [phase EXCEPT ![s] = "pulled"]
        /\ UNCHANGED <<todo, skipped, ViewBar, deleted, changes>>
    BY <1>3, <1>4, <1>6 DEF Pull
  <2> QED BY <2>1, <2>2, <2>3, Zenon DEF Atomic!Pull
<1>7. CASE Refresh(s)
  BY <1>3, <1>4, <1>5, <1>7
     DEF Refresh, Atomic!Refresh, Atomic!Registered, Registered
<1> QED BY <1>6, <1>7 DEF Pulls

LEMMA EnvironmentImplements ==
  ASSUME SerialInv, BarsHold, BarsHold', Environment
  PROVE  Atomic!Next
<1>1. /\ handler' = handler /\ configurationMap' = configurationMap
      /\ view' = view /\ view \in Config
  BY DEF Environment, AddSource, PullFails, Watch, SilentChange, Change,
         DeleteKey, Set, Cleanup, SerialInv, TypeOK
<1>2. RouteBar' = RouteBar /\ ViewBar' = ViewBar
  BY <1>1, RouteBarKept, ViewBarKept, BarsEqual DEF Storing, Telling
<1>3. ASSUME NEW s \in Source, AddSource(s) \/ PullFails(s) \/ Watch(s)
      PROVE  Atomic!Next
  BY <1>2, <1>3 DEF Atomic!Next, AddSource, Atomic!AddSource,
                    PullFails, Atomic!PullFails, Watch, Atomic!Watch
<1>4. ASSUME NEW s \in Source, SilentChange(s) PROVE Atomic!Next
  <2>1. Atomic!SilentChange(s)
    BY <1>2, <1>4 DEF SilentChange, Atomic!SilentChange, Atomic!Config, Config
  <2> QED BY <2>1 DEF Atomic!Next
<1>5. ASSUME NEW s \in Source, Change(s) PROVE Atomic!Next
  <2>1. Atomic!Change(s)
    BY <1>2, <1>5, SameHelpers
       DEF Change, Atomic!Change, Atomic!Config, Config, Atomic!Idle, Idle
  <2> QED BY <2>1 DEF Atomic!Next
<1>6. ASSUME NEW k \in Key, DeleteKey(k) PROVE Atomic!Next
  <2>1. Atomic!DeleteKey(k)
    BY <1>2, <1>6 DEF DeleteKey, Atomic!DeleteKey, Atomic!Idle, Idle, Delete,
                      Atomic!Delete, ConstructEvent, Atomic!ConstructEvent
  <2> QED BY <2>1 DEF Atomic!Next
<1>7. ASSUME NEW k \in Key, NEW v \in Value, Set(k, v) PROVE Atomic!Next
  <2>1. Atomic!Set(k, v)
    BY <1>2, <1>7 DEF Set, Atomic!Set, Atomic!Idle, Idle, Create, Atomic!Create,
                      Update, Atomic!Update, ConstructEvent, Atomic!ConstructEvent
  <2> QED BY <2>1 DEF Atomic!Next
<1>8. CASE Cleanup
  <2>1. Atomic!Cleanup
    BY <1>2, <1>8 DEF Cleanup, Atomic!Cleanup, Atomic!Registered, Registered,
                      Atomic!EmptyConfig, EmptyConfig
  <2> QED BY <2>1 DEF Atomic!Next
<1> QED BY <1>3, <1>4, <1>5, <1>6, <1>7, <1>8 DEF Environment

LEMMA StepImplements ==
  SerialInv /\ [SerialNext]_raceVars => [Atomic!Next]_(Atomic!vars)
<1> SUFFICES ASSUME SerialInv, [SerialNext]_raceVars
             PROVE  Atomic!Next \/ UNCHANGED Atomic!vars
  OBVIOUS
<1>1. SerialInv'
  BY NextSerialInv
<1>2. BarsHold /\ BarsHold'
  BY <1>1, Bars, PTL
<1>3. ASSUME NEW s \in Source, NEW e \in todo[s] \cup skipped[s], Load(s, e)
      PROVE  UNCHANGED Atomic!vars
  BY <1>2, <1>3, LoadStutters
<1>4. ASSUME NEW s \in Source, Decide(s) PROVE Atomic!Next
  BY <1>2, <1>4, DecideImplements DEF Atomic!Next
<1>5. ASSUME NEW s \in Source, Store(s) \/ Dispatch(s) PROVE UNCHANGED Atomic!vars
  BY <1>1, <1>2, <1>5, StoreStutters, DispatchStutters
<1>6. ASSUME NEW s \in Source, \A t \in Source : handler[t] = Free, Pulls(s)
      PROVE  Atomic!Next
  BY <1>1, <1>2, <1>6, PullsImplement DEF Atomic!Next
<1>7. CASE Environment
  BY <1>2, <1>7, EnvironmentImplements
<1>8. CASE UNCHANGED raceVars
  <2>1. ASSUME NEW k \in Key
        PROVE  RouteBar'[k] = RouteBar[k] /\ ViewBar'[k] = ViewBar[k]
    BY <1>2, <1>8, RouteBarKept, ViewBarKept
       DEF raceVars, vars, Storing, Telling, SerialInv, TypeOK
  <2> QED BY <1>8, <2>1, BarsEqual DEF raceVars, vars, Atomic!vars
<1> QED BY <1>3, <1>4, <1>5, <1>6, <1>7, <1>8 DEF SerialNext

LEMMA RaceInitImplements == RaceInit => SerialInv /\ Atomic!Init
<1> SUFFICES ASSUME RaceInit PROVE SerialInv /\ Atomic!Init
  OBVIOUS
<1>1. Init /\ handler = [s \in Source |-> Free]
  BY DEF RaceInit
<1>2. TypeOK /\ \A s \in Source : todo[s] = {}
  BY <1>1, InitIInv DEF IInv, Init
<1>3. SerialInv
  BY <1>1, <1>2 DEF SerialInv, Calls, Free, OneCallPerKey
<1>4. RouteBar = configurationMap /\ ViewBar = view
  <2>1. \A k \in Key : RouteBar[k] = configurationMap[k] /\ ViewBar[k] = view[k]
    BY <1>1, <1>3, Bars DEF BarsHold, Storing, Telling, Free
  <2> QED BY <1>2, <2>1, BarsAreFunctions DEF TypeOK, Config
<1> QED BY <1>1, <1>3, <1>4
        DEF Init, Atomic!Init, EmptyConfig, Atomic!EmptyConfig, Config, Atomic!Config

\* updateEvent in steps is as good as atomic on the serial schedules.
THEOREM SerialImplementation == SerialSpec => ImplementsManager
<1> QED BY RaceInitImplements, NextSerialInv, StepImplements, PTL
        DEF SerialSpec, ImplementsManager, Atomic!Spec
=============================================================================
