------------------------- MODULE RemoteSourcesProofs -------------------------
(***************************************************************************)
(* Proofs about EventReplay, what a source with events promises, about     *)
(* KieSource, which implements it, and about RemoteSources and the other   *)
(* sources it is made of, for all keys, values, revisions, pullers,        *)
(* groups, namespaces and fields.                                          *)
(***************************************************************************)
EXTENDS RemoteSources, EventToolProofs, FiniteSetTheorems, SequenceTheorems,
        WellFoundedInduction

-----------------------------------------------------------------------------
(***************************************************************************)
(* EventReplay.                                                            *)
(***************************************************************************)

\* What is still to come, key by key: a key without a pending event is right
\* already, and a pending event will make its key right.
PendingSuffices ==
  /\ \A k \in Key : copy[k] = current[k] \/ \E e \in pending : e.key = k
  /\ \A e \in pending :
       current[e.key] = IF e.type = Delete THEN None ELSE e.val

\* No key has two events: taking one leaves the others fitting.
PendingFits ==
  /\ \A e \in pending : Fits(e, copy)
  /\ \A e, f \in pending : e.key = f.key => e = f

IInv == TypeOK /\ PendingSuffices /\ PendingFits

LEMMA InitIInv == Init => IInv
BY DEF Init, IInv, TypeOK, PendingSuffices, PendingFits, EmptyConfig, Config

LEMMA NextIInv == IInv /\ [Next]_vars => IInv'
<1> SUFFICES ASSUME IInv, [Next]_vars PROVE IInv'
  OBVIOUS
<1> USE DEF IInv
<1>1. CASE \E next \in Config : UpdateConfigAndFireEvent(next)
  <2> PICK next \in Config : /\ pending = {}
                               /\ pending' = PopulateEvents(Name, current, next)
                               /\ current' = next
                               /\ copy' = copy
    BY <1>1 DEF UpdateConfigAndFireEvent
  <2>1. TypeOK'
    BY PopulateEventsType DEF TypeOK
  <2>2. PendingSuffices'
    BY PopulateEventsComplete DEF TypeOK, PendingSuffices
  <2>3. copy = current
    <3>1. \A k \in Key : copy[k] = current[k]
      BY DEF PendingSuffices
    <3> QED BY <3>1 DEF TypeOK, Config
  <2>4. PendingFits'
    BY <2>3, PopulateEventsFit DEF TypeOK, PendingFits
  <2> QED BY <2>1, <2>2, <2>4
<1>2. CASE OnEvent
  <2> PICK e \in pending : /\ pending' = pending \ {e}
                           /\ copy' = Follow(copy, e)
                           /\ current' = current
    BY <1>2 DEF OnEvent
  <2>1. e \in EventFrom({Name})
    BY DEF TypeOK
  <2>2. \A k \in Key : copy'[k] = IF k = e.key THEN current[k] ELSE copy[k]
    BY <2>1 DEF Follow, TypeOK, Config, EventFrom, PendingSuffices
  <2>3. TypeOK'
    BY <2>1 DEF TypeOK, Follow, Config, EventFrom
  <2>4. PendingSuffices'
    BY <2>2 DEF PendingSuffices
  <2>5. \A f \in pending' : copy'[f.key] = copy[f.key]
    <3> SUFFICES ASSUME NEW f \in pending' PROVE copy'[f.key] = copy[f.key]
      OBVIOUS
    <3>1. f.key # e.key
      BY DEF PendingFits
    <3>2. f.key \in Key
      BY DEF TypeOK, EventFrom
    <3> QED BY <2>2, <3>1, <3>2
  <2>6. PendingFits'
    BY <2>5 DEF PendingFits, Fits
  <2> QED BY <2>3, <2>4, <2>6
<1>3. CASE Cleanup
  BY <1>3 DEF Cleanup, TypeOK, PendingSuffices, PendingFits, EmptyConfig, Config
<1>4. CASE UNCHANGED vars
  BY <1>4 DEF vars, TypeOK, PendingSuffices, PendingFits
<1> QED BY <1>1, <1>2, <1>3, <1>4 DEF Next

\* The variables keep their types.
THEOREM TypeCorrect == Spec => []TypeOK
<1>1. IInv => TypeOK
  BY DEF IInv
<1> QED BY <1>1, InitIInv, NextIInv, PTL DEF Spec

\* Whatever the source changes and in whatever order its events are taken,
\* a holder that has taken them all has the source's configuration.
THEOREM ReplayConverges == Spec => []CopyFollows
<1>1. IInv => CopyFollows
  <2> SUFFICES ASSUME IInv, pending = {} PROVE copy = current
    BY DEF CopyFollows
  <2>1. \A k \in Key : copy[k] = current[k]
    BY DEF IInv, PendingSuffices
  <2> QED BY <2>1 DEF IInv, TypeOK, Config
<1> QED BY <1>1, InitIInv, NextIInv, PTL DEF Spec

\* Each event still to come makes sense to the holder, whichever of them it
\* has taken before: CREATE of an absent key, UPDATE to another value, DELETE
\* of the value it has.
THEOREM EventsAlwaysFit == Spec => []EventsFit
<1>1. IInv => EventsFit
  BY DEF IInv, PendingFits, EventsFit
<1> QED BY <1>1, InitIInv, NextIInv, PTL DEF Spec

-----------------------------------------------------------------------------
(***************************************************************************)
(* KieSource.                                                              *)
(***************************************************************************)

USE KieAssumption DEF ConcurrentReturns, ConcurrentFails

-----------------------------------------------------------------------------
(***************************************************************************)
(* Lemmas about the helpers.                                               *)
(***************************************************************************)

LEMMA EmptyIsConfig == EmptyConfig \in Config
BY DEF EmptyConfig, Config

\* The union of two configurations is one.
LEMMA MergeType ==
  ASSUME NEW c \in [Dimension -> Config]
  PROVE  MergeConfig(c) \in Config
BY DEF MergeConfig, Dimension, Config

\* What a request finds is what the server has, or one of the answers to none.
LEMMA ResponseType ==
  ASSUME NEW d \in Dimension, server[d] \in Config, NEW kv \in Responses(d)
  PROVE  kv \in Config \cup {NoConfig}
BY EmptyIsConfig DEF Responses

\* The states of a request.
LEMMA CallTypes ==
  /\ NotSent \in Call /\ Failed \in Call
  /\ \A rev \in 0..MaxRevision :
       /\ Done(rev) \in Call
       /\ \A kv \in Config \cup {NoConfig} : Answered(kv, rev) \in Call
BY DEF NotSent, Failed, Done, Answered, Call

LEMMA AtRestType == AtRest \in [Dimension -> Call]
BY CallTypes DEF AtRest

\* A request changed by one step stays a request.
LEMMA CallsType ==
  ASSUME NEW c \in [Goroutine -> [Dimension -> Call]],
         NEW g \in Goroutine, NEW d \in Dimension, NEW request \in Call
  PROVE  [c EXCEPT ![g][d] = request] \in [Goroutine -> [Dimension -> Call]]
OBVIOUS

\* So they do when those of one goroutine are forgotten.
LEMMA ForgottenType ==
  ASSUME NEW c \in [Goroutine -> [Dimension -> Call]], NEW g \in Goroutine
  PROVE  [c EXCEPT ![g] = AtRest] \in [Goroutine -> [Dimension -> Call]]
BY AtRestType

\* An answered request has a content and a revision, one that is done has a
\* revision, one that failed has nothing.
LEMMA CallFields ==
  ASSUME NEW request \in Call
  PROVE  /\ request.state = "answered" =>
              /\ request.kv \in Config \cup {NoConfig}
              /\ request.revision \in 0..MaxRevision
         /\ request.state = "done" => request.revision \in 0..MaxRevision
         /\ request.state = "failed" => request = Failed
<1>1. CASE request = NotSent
  BY <1>1 DEF NotSent
<1>4. CASE request = Failed
  BY <1>4 DEF Failed
<1>2. CASE request \in [state : {"answered"}, kv : Config \cup {NoConfig},
                        revision : 0..MaxRevision]
  BY <1>2
<1>3. CASE request \in [state : {"done"}, revision : 0..MaxRevision]
  BY <1>3
<1> QED BY <1>1, <1>2, <1>3, <1>4 DEF Call

\* The least of the revisions of two requests that are done.
LEMMA LeastRevision ==
  ASSUME NEW c \in [Dimension -> Call],
         \A d \in Dimension : c[d].revision \in 0..MaxRevision
  PROVE  LET least == CHOOSE m \in {c[d].revision : d \in Dimension} :
                        \A d \in Dimension : m <= c[d].revision
         IN least \in 0..MaxRevision /\ \A d \in Dimension : least <= c[d].revision
<1>1. \E m \in {c[d].revision : d \in Dimension} :
        \A d \in Dimension : m <= c[d].revision
  <2>1. CASE c[App].revision <= c[Service].revision
    BY <2>1 DEF Dimension
  <2>2. CASE c[Service].revision <= c[App].revision
    BY <2>2 DEF Dimension
  <2> QED BY <2>1, <2>2 DEF Dimension
<1> QED BY <1>1

\* In a step only the cache of d changes, to what was answered; an answer
\* without a list leaves it, and hides a change if something is cached.
LEMMA CacheStep ==
  ASSUME NEW kv \in Config \cup {NoConfig}, NEW d \in Dimension,
         cache \in [Dimension -> Config], hidden \subseteq Dimension,
         SetDimensionConfigs(kv, d)
  PROVE  /\ cache' \in [Dimension -> Config]
         /\ hidden' \subseteq Dimension /\ hidden' \ {d} = hidden \ {d}
         /\ \A e \in Dimension \ {d} : cache'[e] = cache[e]
         /\ kv # NoConfig => cache'[d] = kv
         /\ kv = NoConfig => d \in hidden' \/ cache'[d] = EmptyConfig
<1>1. CASE Updates(kv, d)
  BY <1>1 DEF SetDimensionConfigs, Updates
<1>2. CASE ~Updates(kv, d)
  BY <1>2 DEF SetDimensionConfigs, Updates
<1> QED BY <1>1, <1>2

-----------------------------------------------------------------------------
(***************************************************************************)
(* Types.                                                                  *)
(***************************************************************************)

\* The part of KieTypeOK that is KieSource's own.
OwnTypeOK ==
  /\ RefreshMode \in Mode
  /\ server \in [Dimension -> Config] /\ cache \in [Dimension -> Config]
  /\ revision \in 0..MaxRevision
  /\ changedAt \in [Dimension -> 0..MaxRevision]
  /\ currentRevision \in 0..MaxRevision
  /\ calls \in [Goroutine -> [Dimension -> Call]]
  /\ merging \in [Goroutine -> Config \cup {NoConfig}]
  /\ config \in [Goroutine -> Config \cup {NoConfig}]
  /\ watched \in [Dimension -> -1..MaxRevision]
  /\ hidden \subseteq Dimension /\ ahead \in [Dimension -> SUBSET Dimension]
  /\ {overtaken, overlapped, cleaned} \subseteq BOOLEAN
  /\ failures \in 0..MaxFailures

LEMMA InitOwnType == KieInit => OwnTypeOK
<1> SUFFICES ASSUME KieInit PROVE OwnTypeOK
  OBVIOUS
<1>1. server \in [Dimension -> Config] /\ cache \in [Dimension -> Config]
  BY EmptyIsConfig DEF KieInit
<1>2. calls \in [Goroutine -> [Dimension -> Call]]
  BY AtRestType DEF KieInit
<1>3. watched \in [Dimension -> -1..MaxRevision]
  BY DEF KieInit, KieAssumption
<1>4. 0 \in 0..MaxRevision /\ 0 \in 0..MaxFailures
  BY DEF KieAssumption
<1>5. RefreshMode \in Mode /\ revision \in 0..MaxRevision
  BY <1>4 DEF KieInit
<1>6. changedAt \in [Dimension -> 0..MaxRevision]
  BY <1>4 DEF KieInit
<1>7. currentRevision \in 0..MaxRevision /\ failures \in 0..MaxFailures
  BY <1>4 DEF KieInit
<1>8. /\ merging \in [Goroutine -> Config \cup {NoConfig}]
      /\ config \in [Goroutine -> Config \cup {NoConfig}]
      /\ hidden \subseteq Dimension /\ ahead \in [Dimension -> SUBSET Dimension]
      /\ {overtaken, overlapped, cleaned} \subseteq BOOLEAN
  BY DEF KieInit
<1> QED BY <1>1, <1>2, <1>3, <1>5, <1>6, <1>7, <1>8 DEF OwnTypeOK

LEMMA NextOwnType == OwnTypeOK /\ [KieNext]_kieVars => OwnTypeOK'
<1> SUFFICES ASSUME OwnTypeOK, [KieNext]_kieVars PROVE OwnTypeOK'
  OBVIOUS
<1> USE DEF OwnTypeOK, store, merges
<1>1. ASSUME NEW d \in Dimension, NEW k \in Key, NEW v \in Value \cup {None},
             Put(d, k, v)
      PROVE  OwnTypeOK'
  <2>1. server' \in [Dimension -> Config]
    BY <1>1 DEF Put, Config
  <2>2. revision' \in 0..MaxRevision /\ changedAt' \in [Dimension -> 0..MaxRevision]
    BY <1>1 DEF Put
  <2> QED BY <1>1, <2>1, <2>2 DEF Put, marks
<1>2. ASSUME NEW p \in Puller, NEW d \in Dimension, List(p, d)
      PROVE  OwnTypeOK'
  <2>1. p \in Goroutine
    BY DEF Goroutine
  <2>2. PICK request \in Call : calls' = [calls EXCEPT ![p][d] = request]
    BY <1>2, CallTypes, ResponseType DEF List
  <2>3. {overtaken, overlapped, cleaned}' \subseteq BOOLEAN
    BY <1>2 DEF List, MayAsk
  <2> QED BY <1>2, <2>1, <2>2, <2>3, CallsType DEF List
<1>3. ASSUME NEW p \in Puller, NEW d \in Dimension, ListFails(p, d)
      PROVE  OwnTypeOK'
  <2>1. calls' \in [Goroutine -> [Dimension -> Call]]
    BY <1>3, CallTypes, CallsType DEF ListFails, Goroutine
  <2>2. failures' \in 0..MaxFailures
    BY <1>3 DEF ListFails
  <2>3. {overtaken, overlapped, cleaned}' \subseteq BOOLEAN
    BY <1>3 DEF ListFails, MayAsk
  <2> QED BY <1>3, <2>1, <2>2, <2>3 DEF ListFails
<1>4. ASSUME NEW g \in Goroutine, NEW d \in Dimension,
             calls[g][d].state = "answered",
             SetDimensionConfigs(calls[g][d].kv, d),
             calls' \in {[calls EXCEPT ![g][d] = Done(@.revision)],
                         [calls EXCEPT ![g][d] = NotSent]},
             UNCHANGED <<RefreshMode, store, currentRevision, merges, watched,
                         ahead, failures, marks>>
      PROVE  OwnTypeOK'
  <2>1. /\ calls[g][d].kv \in Config \cup {NoConfig}
        /\ calls[g][d].revision \in 0..MaxRevision
    BY <1>4, CallFields
  <2>2. cache' \in [Dimension -> Config] /\ hidden' \subseteq Dimension
    BY <1>4, <2>1, CacheStep
  <2>3. calls' \in [Goroutine -> [Dimension -> Call]]
    <3>1. PICK request \in {Done(calls[g][d].revision), NotSent} :
            calls' = [calls EXCEPT ![g][d] = request]
      BY <1>4
    <3>2. request \in Call
      BY <2>1, <3>1, CallTypes
    <3> QED BY <3>1, <3>2, CallsType
  <2> QED BY <1>4, <2>2, <2>3 DEF marks
<1>5. ASSUME NEW p \in Puller, Merge(p)
      PROVE  OwnTypeOK'
  <2>1. p \in Goroutine
    BY DEF Goroutine
  <2>2. calls' \in [Goroutine -> [Dimension -> Call]]
    <3>1. calls' = [calls EXCEPT ![p] = AtRest]
      BY <1>5 DEF Merge
    <3>2. calls \in [Goroutine -> [Dimension -> Call]]
      OBVIOUS
    <3> QED BY <2>1, <3>1, <3>2, ForgottenType
  <2>3. CASE \E d \in Dimension : calls[p][d] = Failed
    BY <1>5, <2>2, <2>3 DEF Merge, marks
  <2>4. CASE ~\E d \in Dimension : calls[p][d] = Failed
    <3>1. \A d \in Dimension : calls[p][d].state = "done"
      BY <1>5, <2>1, <2>4, CallFields DEF Merge
    <3>3. currentRevision' = CHOOSE m \in {calls[p][d].revision : d \in Dimension} :
                               \A d \in Dimension : m <= calls[p][d].revision
      BY <1>5, <2>4 DEF Merge
    <3>4. currentRevision' \in 0..MaxRevision
      <4>1. calls[p] \in [Dimension -> Call]
        BY <2>1
      <4>2. \A d \in Dimension : calls[p][d].revision \in 0..MaxRevision
        BY <3>1, <4>1, CallFields
      <4> QED BY <3>3, <4>1, <4>2, LeastRevision
    <3>5. merging' \in [Goroutine -> Config \cup {NoConfig}]
      BY <1>5, <2>1, <2>4 DEF Merge, BeginMerge, Dimension
    <3> QED BY <1>5, <2>2, <3>4, <3>5 DEF Merge, marks
  <2> QED BY <2>3, <2>4
<1>6. ASSUME NEW d \in Dimension, WatchAnswers(d)
      PROVE  OwnTypeOK'
  <2>1. PICK request \in Call : calls' = [calls EXCEPT ![d][d] = request]
    BY <1>6, CallTypes, ResponseType DEF WatchAnswers
  <2>2. calls' \in [Goroutine -> [Dimension -> Call]]
    BY <2>1, CallsType DEF Goroutine
  <2> QED BY <1>6, <2>2 DEF WatchAnswers, marks
<1>7. ASSUME NEW d \in Dimension, WatchMerges(d)
      PROVE  OwnTypeOK'
  <2>1. calls' \in [Goroutine -> [Dimension -> Call]]
    BY <1>7, ForgottenType DEF WatchMerges, Goroutine
  <2>2. merging' \in [Goroutine -> Config \cup {NoConfig}]
    BY <1>7 DEF WatchMerges, BeginMerge, Goroutine, Dimension
  <2>3. ahead' \in [Dimension -> SUBSET Dimension]
    BY <1>7 DEF WatchMerges
  <2> QED BY <1>7, <2>1, <2>2, <2>3 DEF WatchMerges, marks
<1>8. ASSUME NEW g \in Goroutine, Fire(g)
      PROVE  OwnTypeOK'
  BY <1>8 DEF Fire, TurnOf
<1>9. CASE TakeEvent \/ KieCleanup
  BY <1>9 DEF TakeEvent, KieCleanup, marks
<1>10. CASE UNCHANGED kieVars
  BY <1>10 DEF kieVars, marks
<1>11. ASSUME NEW p \in Puller, NEW d \in Dimension, Cache(p, d)
       PROVE  OwnTypeOK'
  BY <1>4, <1>11 DEF Cache, Goroutine
<1>12. ASSUME NEW d \in Dimension, WatchCaches(d)
       PROVE  OwnTypeOK'
  BY <1>4, <1>12 DEF WatchCaches, Goroutine
<1>13. ASSUME NEW d \in Dimension, WatchFails(d)
       PROVE  OwnTypeOK'
  BY <1>13 DEF WatchFails, marks
<1>14. ASSUME NEW g \in Goroutine, EndMerge(g)
       PROVE  OwnTypeOK'
  <2>1. [cache EXCEPT ![App] = merging[g]] \in [Dimension -> Config]
    BY <1>14 DEF EndMerge
  <2>2. config' \in [Goroutine -> Config \cup {NoConfig}]
    BY <1>14, <2>1, MergeType DEF EndMerge
  <2> QED BY <1>14, <2>2 DEF EndMerge, marks
<1> QED
  BY <1>1, <1>2, <1>3, <1>5, <1>6, <1>7, <1>8, <1>9, <1>10, <1>11, <1>12, <1>13,
     <1>14
  DEF KieNext, Pull, Watch, Goroutine

-----------------------------------------------------------------------------
(***************************************************************************)
(* KieSource implements EventReplay.                                       *)
(***************************************************************************)

\* Every step is a step of EventReplay or leaves its variables alone.
LEMMA StepImplements == OwnTypeOK /\ [KieNext]_kieVars => [Next]_vars
<1> SUFFICES ASSUME OwnTypeOK, [KieNext]_kieVars PROVE [Next]_vars
  OBVIOUS
<1>1. ASSUME NEW g \in Goroutine, Fire(g)
      PROVE  Next
  <2>1. config[g] \in Config
    BY <1>1 DEF Fire, OwnTypeOK
  <2> QED BY <1>1, <2>1 DEF Fire, Next
<1>2. CASE TakeEvent \/ KieCleanup
  BY <1>2 DEF TakeEvent, KieCleanup, Next
<1>3. CASE UNCHANGED kieVars
  BY <1>3 DEF kieVars, vars
<1>4. CASE KieNext /\ ~TakeEvent /\ ~KieCleanup /\ ~(\E g \in Goroutine : Fire(g))
  BY <1>4 DEF KieNext, Pull, Watch, Put, List, ListFails, Cache, Merge, EndMerge,
              WatchAnswers, WatchFails, WatchCaches, WatchMerges
<1> QED BY <1>1, <1>2, <1>3, <1>4

\* Pulls and watches of any number of goroutines, with failures, keep the
\* promise of EventReplay: one change at a time, told in full.
THEOREM Implementation == KieSpec => ImplementsReplay
<1>1. KieInit => Init
  BY DEF KieInit
<1> QED BY <1>1, InitOwnType, NextOwnType, StepImplements, PTL
        DEF KieSpec, ImplementsReplay, Spec

\* So what is proved of EventReplay holds of it: when the events of a change
\* have all been taken, the Manager has been told what is in use.
THEOREM KieCopyFollows == KieSpec => []CopyFollows
BY Implementation, ReplayConverges DEF ImplementsReplay

\* No event is about a key that did not change, or says what is known already.
THEOREM KieEventsFit == KieSpec => []EventsFit
BY Implementation, EventsAlwaysFit DEF ImplementsReplay

\* The state of the source and of its client keeps its types.
THEOREM KieTypeCorrect == KieSpec => []KieTypeOK
<1>1. OwnTypeOK /\ TypeOK => KieTypeOK
  BY DEF OwnTypeOK, KieTypeOK
<1>2. KieSpec => []TypeOK
  BY Implementation, TypeCorrect DEF ImplementsReplay
<1> QED BY <1>1, <1>2, InitOwnType, NextOwnType, PTL DEF KieSpec

-----------------------------------------------------------------------------
(***************************************************************************)
(* Who works in which mode.                                                *)
(***************************************************************************)

\* In watch mode nobody pulls, in interval mode nobody watches.
Roles ==
  /\ RefreshMode = ModeWatch => \A p \in Puller : Idle(p)
  /\ RefreshMode = ModeInterval => \A d \in Dimension : Idle(d)

LEMMA RestStates == NotSent.state = "not sent" /\ Failed.state = "failed"
BY DEF NotSent, Failed

\* A goroutine at rest has nothing to go on with.
LEMMA IdleRests ==
  ASSUME NEW g \in Goroutine, Idle(g)
  PROVE  /\ \A d \in Dimension : calls[g][d].state = "not sent"
         /\ merging[g] = NoConfig /\ config[g] = NoConfig
BY RestStates DEF Idle, Merges, AtRest

\* One that has to wait for the other mode does nothing.
LEMMA OtherModeRests ==
  ASSUME OwnTypeOK, Roles
  PROVE  /\ RefreshMode = ModeWatch =>
              \A p \in Puller : ~Pull(p) /\ ~Fire(p) /\ \A d \in Dimension : ~ListFails(p, d)
         /\ RefreshMode = ModeInterval =>
              \A d \in Dimension : ~Watch(d) /\ ~Fire(d) /\ ~WatchFails(d)
<1>1. ASSUME RefreshMode = ModeWatch, NEW p \in Puller
      PROVE  ~Pull(p) /\ ~Fire(p) /\ \A d \in Dimension : ~ListFails(p, d)
  <2>1. Idle(p)
    BY <1>1 DEF Roles
  <2>2. /\ \A d \in Dimension : calls[p][d].state = "not sent"
        /\ merging[p] = NoConfig /\ config[p] = NoConfig
    BY <2>1, IdleRests DEF Goroutine
  <2> QED BY <1>1, <2>2 DEF Pull, List, ListFails, MayAsk, Cache, Merge, EndMerge,
             Fire, Dimension, ModeWatch, ModeInterval
<1>2. ASSUME RefreshMode = ModeInterval, NEW d \in Dimension
      PROVE  ~Watch(d) /\ ~Fire(d) /\ ~WatchFails(d)
  <2>1. Idle(d)
    BY <1>2 DEF Roles
  <2>2. calls[d][d].state = "not sent" /\ merging[d] = NoConfig /\ config[d] = NoConfig
    BY <2>1, IdleRests DEF Goroutine
  <2> QED BY <1>2, <2>2 DEF Watch, WatchAnswers, WatchCaches, WatchMerges, EndMerge,
             WatchFails, Fire, ModeWatch, ModeInterval
<1> QED BY <1>1, <1>2

\* A step of one goroutine leaves the others alone.
LEMMA OthersRest ==
  ASSUME OwnTypeOK, NEW g \in Goroutine, NEW e \in Goroutine \ {g}, Idle(e),
         \/ g \in Puller /\ (Pull(g) \/ \E d \in Dimension : ListFails(g, d))
         \/ g \in Dimension /\ (Watch(g) \/ WatchFails(g))
         \/ Fire(g)
  PROVE  Idle(e)'
BY DEF Pull, List, ListFails, Cache, Merge, EndMerge, BeginMerge, Watch, WatchAnswers,
       WatchCaches, WatchMerges, WatchFails, Fire, Idle, Merges, merges, OwnTypeOK,
       Goroutine

LEMMA ModeStays == [KieNext]_kieVars => RefreshMode' = RefreshMode
BY DEF KieNext, Pull, Watch, Put, List, ListFails, Cache, Merge, EndMerge,
       WatchAnswers, WatchCaches, WatchMerges, WatchFails, Fire, TakeEvent,
       KieCleanup, kieVars

LEMMA InitRoles == KieInit => Roles
BY DEF KieInit, Roles, Idle, Merges, Goroutine

LEMMA NextRoles == OwnTypeOK /\ Roles /\ [KieNext]_kieVars => Roles'
<1> SUFFICES ASSUME OwnTypeOK, Roles, [KieNext]_kieVars PROVE Roles'
  OBVIOUS
<1>1. RefreshMode' = RefreshMode
  BY ModeStays
<1>2. Puller \cap Dimension = {}
  BY DEF KieAssumption
<1>3. ASSUME NEW p \in Puller,
             Pull(p) \/ (\E d \in Dimension : ListFails(p, d)) \/ Fire(p)
      PROVE  Roles'
  <2>1. RefreshMode # ModeWatch
    BY <1>3, OtherModeRests
  <2>2. \A d \in Dimension : Idle(d) => Idle(d)'
    BY <1>2, <1>3, OthersRest DEF Goroutine
  <2> QED BY <1>1, <2>1, <2>2 DEF Roles
<1>4. ASSUME NEW d \in Dimension, Watch(d) \/ WatchFails(d) \/ Fire(d)
      PROVE  Roles'
  <2>1. RefreshMode # ModeInterval
    BY <1>4, OtherModeRests
  <2>2. \A p \in Puller : Idle(p) => Idle(p)'
    BY <1>2, <1>4, OthersRest DEF Goroutine
  <2> QED BY <1>1, <2>1, <2>2 DEF Roles
<1>5. ASSUME UNCHANGED <<calls, merges>> PROVE Roles'
  BY <1>1, <1>5 DEF Roles, Idle, Merges, merges
<1>6. CASE \E d \in Dimension, k \in Key, v \in Value \cup {None} : Put(d, k, v)
  BY <1>5, <1>6 DEF Put
<1>7. CASE TakeEvent \/ KieCleanup \/ UNCHANGED kieVars
  BY <1>5, <1>7 DEF TakeEvent, KieCleanup, kieVars
<1> QED BY <1>3, <1>4, <1>6, <1>7 DEF KieNext, Goroutine

-----------------------------------------------------------------------------
(***************************************************************************)
(* The revision a goroutine asks with never runs ahead of the cache, but   *)
(* of a dimension of which a change was passed over.                       *)
(***************************************************************************)

\* What a request for d found is what the server has.
Found(kv, d) ==
  /\ kv \in Config => kv = server[d]
  /\ kv = NoConfig => server[d] = EmptyConfig

CachedOrHidden(d) == d \in hidden \/ cache[d] = server[d]

\* A request answered at a revision has what the server had then, and goes
\* beyond currentRevision; one that is done has left it in the cache.
Covers(p, d) ==
  /\ calls[p][d].state = "answered" =>
       /\ currentRevision <= calls[p][d].revision
       /\ calls[p][d].revision <= revision
       /\ changedAt[d] <= calls[p][d].revision => Found(calls[p][d].kv, d)
  /\ calls[p][d].state = "done" =>
       /\ calls[p][d].revision <= revision
       /\ changedAt[d] <= calls[p][d].revision => CachedOrHidden(d)

CacheCovers ==
  \A d \in Dimension :
    /\ changedAt[d] <= revision
    /\ changedAt[d] <= currentRevision => CachedOrHidden(d)

RequestsCover == \A p \in Puller, d \in Dimension : Covers(p, d)

\* One pull at a time has requests under way.
OneAsks ==
  \A p, q \in Puller : calls[p] # AtRest /\ calls[q] # AtRest => p = q

PullInv ==
  RefreshMode = ModeInterval /\ ~overlapped =>
    currentRevision <= revision /\ CacheCovers /\ RequestsCover /\ OneAsks

\* A watching goroutine has what the server had at the revision it has seen, or
\* is about to cache it.
WatchCovers(d) ==
  /\ changedAt[d] <= revision /\ watched[d] <= revision
  /\ changedAt[d] <= watched[d] =>
       IF calls[d][d].state = "answered" THEN Found(calls[d][d].kv, d)
       ELSE CachedOrHidden(d)

WatchedCovers ==
  RefreshMode = ModeWatch => \A d \in Dimension : WatchCovers(d)

\* A request that is not under way covers what it has to.
LEMMA RestCovers ==
  ASSUME NEW p, NEW d, calls[p][d] \in {NotSent, Failed} PROVE Covers(p, d)
<1>1. CASE calls[p][d] = NotSent
  BY <1>1, RestStates DEF Covers
<1>2. CASE calls[p][d] = Failed
  BY <1>2, RestStates DEF Covers
<1> QED BY <1>1, <1>2

LEMMA InitPullInv == KieInit => PullInv
<1> SUFFICES ASSUME KieInit PROVE PullInv
  OBVIOUS
<1>1. CacheCovers /\ currentRevision <= revision
  BY DEF KieInit, CacheCovers, CachedOrHidden
<1>2. \A g \in Goroutine, d \in Dimension : calls[g][d] = NotSent
  BY DEF KieInit, AtRest
<1>3. RequestsCover
  BY <1>2, RestCovers DEF RequestsCover, Goroutine
<1>4. OneAsks
  BY DEF KieInit, OneAsks, Goroutine
<1> QED BY <1>1, <1>3, <1>4 DEF PullInv

LEMMA InitWatchedCovers == KieInit => WatchedCovers
<1> SUFFICES ASSUME KieInit, NEW d \in Dimension PROVE WatchCovers(d)
  BY DEF WatchedCovers
<1>1. /\ changedAt[d] = 0 /\ watched[d] = -1 /\ revision = 0
  BY DEF KieInit
<1> QED BY <1>1 DEF WatchCovers

\* What the server has at the moment is what a request finds.
LEMMA ResponseIsFound ==
  ASSUME OwnTypeOK, NEW d \in Dimension, NEW kv \in Responses(d)
  PROVE  Found(kv, d)
<1>1. server[d] \in Config /\ NoConfig \notin Config
  BY DEF OwnTypeOK, KieAssumption
<1>2. CASE server[d] = EmptyConfig
  BY <1>1, <1>2, EmptyIsConfig DEF Responses, Found, KieAssumption
<1>3. CASE server[d] # EmptyConfig
  BY <1>1, <1>3 DEF Responses, Found
<1> QED BY <1>2, <1>3

\* What a request found is cached when it has been taken, or hidden.
LEMMA FoundIsCached ==
  ASSUME OwnTypeOK, NEW d \in Dimension, NEW kv \in Config \cup {NoConfig},
         Found(kv, d), SetDimensionConfigs(kv, d), server' = server
  PROVE  CachedOrHidden(d)'
<1>1. CASE kv = NoConfig
  <2>1. d \in hidden' \/ cache'[d] = EmptyConfig
    BY <1>1, CacheStep DEF OwnTypeOK
  <2> QED BY <1>1, <2>1 DEF Found, CachedOrHidden
<1>2. CASE kv \in Config /\ kv # NoConfig
  <2>1. cache'[d] = kv
    BY <1>2, CacheStep DEF OwnTypeOK
  <2> QED BY <1>2, <2>1 DEF Found, CachedOrHidden
<1> QED BY <1>1, <1>2

\* What Covers says of a request is not disturbed when neither the request nor
\* the server nor the cache changes.
LEMMA CoversStays ==
  ASSUME NEW p \in Puller, NEW d \in Dimension, Covers(p, d),
         calls'[p][d] = calls[p][d], server'[d] = server[d],
         CachedOrHidden(d) => CachedOrHidden(d)',
         changedAt'[d] = changedAt[d], revision' = revision,
         currentRevision' = currentRevision
  PROVE  Covers(p, d)'
BY DEF Covers, Found

\* A goroutine of which a request is under way is not at rest.
LEMMA AskingIsNotRest ==
  ASSUME NEW g, NEW d \in Dimension, calls[g][d] # NotSent
  PROVE  calls[g] # AtRest
BY DEF AtRest

LEMMA NextPullInv == OwnTypeOK /\ Roles /\ PullInv /\ [KieNext]_kieVars => PullInv'
<1> SUFFICES ASSUME OwnTypeOK, Roles, PullInv, [KieNext]_kieVars PROVE PullInv'
  OBVIOUS
<1> USE DEF store, merges
<1>1. RefreshMode' = RefreshMode
  BY ModeStays
<1>2. overlapped => overlapped'
  BY DEF KieNext, Pull, Watch, Put, List, ListFails, MayAsk, Cache, Merge, EndMerge,
         WatchAnswers, WatchCaches, WatchMerges, WatchFails, Fire, TakeEvent,
         KieCleanup, kieVars, marks
<1> SUFFICES ASSUME RefreshMode = ModeInterval, ~overlapped'
             PROVE  /\ currentRevision' <= revision'
                    /\ CacheCovers' /\ RequestsCover' /\ OneAsks'
  BY <1>1 DEF PullInv
<1>3. \A p \in Puller : p \in Goroutine
  BY DEF Goroutine
<1>7. /\ currentRevision <= revision
      /\ CacheCovers /\ RequestsCover /\ OneAsks
  BY <1>2 DEF PullInv
<1> DEFINE Goal == /\ currentRevision' <= revision'
                   /\ CacheCovers' /\ RequestsCover' /\ OneAsks'
<1>8. ASSUME NEW d \in Dimension, NEW k \in Key, NEW v \in Value \cup {None},
             Put(d, k, v)
      PROVE  Goal
  <2>1. /\ revision' = revision + 1 /\ changedAt'[d] = revision + 1
        /\ UNCHANGED <<cache, hidden, calls, currentRevision>>
        /\ \A e \in Dimension \ {d} :
             changedAt'[e] = changedAt[e] /\ server'[e] = server[e]
    BY <1>8 DEF Put, OwnTypeOK
  <2>2. revision \in Nat /\ currentRevision \in Nat /\ changedAt \in [Dimension -> Nat]
    BY DEF OwnTypeOK
  <2>3. currentRevision' <= revision' /\ CacheCovers'
    BY <1>7, <2>1, <2>2 DEF CacheCovers, CachedOrHidden
  <2>4. ASSUME NEW p \in Puller, NEW e \in Dimension PROVE Covers(p, e)'
    <3>1. calls[p][e] \in Call
      BY <1>3 DEF OwnTypeOK
    <3>2. CASE calls[p][e].state = "answered"
      <4>1. calls[p][e].revision \in Nat
        BY <3>1, <3>2, CallFields
      <4> QED BY <1>7, <2>1, <2>2, <3>2, <4>1 DEF RequestsCover, Covers, Found
    <3>3. CASE calls[p][e].state = "done"
      <4>1. calls[p][e].revision \in Nat
        BY <3>1, <3>3, CallFields
      <4> QED BY <1>7, <2>1, <2>2, <3>3, <4>1 DEF RequestsCover, Covers, CachedOrHidden
    <3> QED BY <2>1, <3>2, <3>3 DEF Covers
  <2>5. RequestsCover' /\ OneAsks'
    BY <1>7, <2>1, <2>4 DEF RequestsCover, OneAsks
  <2> QED BY <2>3, <2>5
<1>9. ASSUME NEW p \in Puller, NEW d \in Dimension, NEW request,
             \A q \in Puller \ {p} : calls[q] = AtRest,
             calls' = [calls EXCEPT ![p][d] = request],
             UNCHANGED <<server, revision, changedAt, currentRevision>>,
             \A e \in Dimension \ {d} : cache'[e] = cache[e] /\ (e \in hidden' <=> e \in hidden),
             changedAt[d] <= currentRevision => CachedOrHidden(d)',
             Covers(p, d)'
      PROVE  Goal
  <2>1. \A e \in Dimension \ {d} : CachedOrHidden(e)' <=> CachedOrHidden(e)
    BY <1>9 DEF CachedOrHidden
  <2>2. \A q \in Puller \ {p} : calls'[q] = AtRest
    BY <1>3, <1>9 DEF OwnTypeOK
  <2>3. ASSUME NEW q \in Puller, NEW e \in Dimension PROVE Covers(q, e)'
    <3>1. CASE q # p
      <4>1. calls'[q][e] = NotSent
        BY <2>2, <3>1 DEF AtRest
      <4> QED BY <4>1, RestStates DEF Covers
    <3>2. CASE q = p /\ e # d
      <4>1. calls'[p][e] = calls[p][e]
        BY <1>3, <1>9, <3>2 DEF OwnTypeOK
      <4> QED BY <1>7, <1>9, <2>1, <3>2, <4>1, CoversStays DEF RequestsCover
    <3> QED BY <1>9, <3>1, <3>2
  <2>4. OneAsks'
    BY <2>2 DEF OneAsks
  <2>5. currentRevision' <= revision' /\ CacheCovers'
    BY <1>7, <1>9, <2>1 DEF CacheCovers
  <2> QED BY <2>3, <2>4, <2>5 DEF RequestsCover
<1>10. ASSUME NEW p \in Puller, NEW d \in Dimension, MayAsk(p, d)
      PROVE  \A q \in Puller \ {p} : calls[q] = AtRest
  BY <1>10 DEF MayAsk
<1>11. ASSUME NEW p \in Puller, NEW d \in Dimension, List(p, d)
       PROVE  Goal
  <2>1. UNCHANGED <<server, revision, changedAt, currentRevision, cache, hidden>>
    BY <1>11 DEF List
  <2>2. changedAt[d] <= currentRevision => CachedOrHidden(d)'
    BY <1>7, <2>1 DEF CacheCovers, CachedOrHidden
  <2>3. PICK request :
          /\ calls' = [calls EXCEPT ![p][d] = request]
          /\ \/ currentRevision >= revision /\ request = Done(revision)
             \/ \E kv \in Responses(d) : request = Answered(kv, revision)
    BY <1>11 DEF List
  <2>4. calls'[p][d] = request
    BY <1>3, <2>3 DEF OwnTypeOK
  <2>5. Covers(p, d)'
    <3>1. CASE currentRevision >= revision /\ request = Done(revision)
      <4>1. currentRevision = revision
        BY <1>7, <3>1 DEF OwnTypeOK
      <4>2. changedAt[d] <= revision => CachedOrHidden(d)
        BY <1>7, <4>1 DEF CacheCovers
      <4> QED BY <2>1, <2>4, <3>1, <4>2 DEF Covers, CachedOrHidden, Done, OwnTypeOK
    <3>2. ASSUME NEW kv \in Responses(d), request = Answered(kv, revision)
          PROVE  Covers(p, d)'
      <4>1. Found(kv, d)'
        BY <2>1, ResponseIsFound DEF Found
      <4> QED BY <1>7, <2>1, <2>4, <3>2, <4>1 DEF Covers, Answered, OwnTypeOK
    <3> QED BY <2>3, <3>1, <3>2
  <2>6. \A q \in Puller \ {p} : calls[q] = AtRest
    BY <1>10, <1>11 DEF List
  <2> QED BY <1>9, <2>1, <2>2, <2>3, <2>5, <2>6
<1>12. ASSUME NEW p \in Puller, NEW d \in Dimension, ListFails(p, d)
       PROVE  Goal
  <2>1. /\ calls' = [calls EXCEPT ![p][d] = Failed]
        /\ UNCHANGED <<server, revision, changedAt, currentRevision, cache, hidden>>
    BY <1>12 DEF ListFails
  <2>2. changedAt[d] <= currentRevision => CachedOrHidden(d)'
    BY <1>7, <2>1 DEF CacheCovers, CachedOrHidden
  <2>3. calls'[p][d] = Failed
    BY <1>3, <2>1 DEF OwnTypeOK
  <2>4. Covers(p, d)'
    BY <2>3 DEF Covers, Failed
  <2>5. \A q \in Puller \ {p} : calls[q] = AtRest
    BY <1>10, <1>12 DEF ListFails
  <2> QED BY <1>9, <2>1, <2>2, <2>4, <2>5
<1>13. ASSUME NEW p \in Puller, NEW d \in Dimension, Cache(p, d)
       PROVE  Goal
  <2> DEFINE request == calls[p][d]
  <2>1. /\ request.state = "answered"
        /\ SetDimensionConfigs(request.kv, d)
        /\ calls' = [calls EXCEPT ![p][d] = Done(request.revision)]
        /\ UNCHANGED <<server, revision, changedAt, currentRevision>>
    BY <1>13 DEF Cache
  <2>2. /\ currentRevision <= request.revision
        /\ request.revision <= revision
        /\ changedAt[d] <= request.revision => Found(request.kv, d)
    BY <1>7, <2>1 DEF RequestsCover, Covers
  <2>3. request.kv \in Config \cup {NoConfig} /\ request.revision \in Nat
    BY <1>3, <2>1, CallFields DEF OwnTypeOK
  <2>4. \A e \in Dimension \ {d} : cache'[e] = cache[e] /\ (e \in hidden' <=> e \in hidden)
    BY <2>1, <2>3, CacheStep DEF OwnTypeOK
  <2>5. changedAt[d] <= request.revision => CachedOrHidden(d)'
    BY <2>1, <2>2, <2>3, FoundIsCached
  <2>6. calls'[p][d] = Done(request.revision)
    BY <1>3, <2>1 DEF OwnTypeOK
  <2>7. Covers(p, d)'
    BY <2>1, <2>2, <2>5, <2>6 DEF Covers, Done
  <2>8. \A q \in Puller \ {p} : calls[q] = AtRest
    <3>1. calls[p] # AtRest
      BY <2>1, AskingIsNotRest, RestStates
    <3> QED BY <1>7, <3>1 DEF OneAsks
  <2>9. changedAt[d] <= currentRevision => CachedOrHidden(d)'
    BY <2>2, <2>3, <2>5 DEF OwnTypeOK
  <2> QED BY <1>9, <2>1, <2>4, <2>7, <2>8, <2>9
<1>14. ASSUME NEW p \in Puller, Merge(p)
       PROVE  Goal
  <2>1. /\ calls' = [calls EXCEPT ![p] = AtRest]
        /\ UNCHANGED <<server, revision, changedAt, cache, hidden>>
    BY <1>14 DEF Merge
  <2>2. \A q \in Puller : calls'[q] = AtRest
    <3>1. calls[p] # AtRest
      BY <1>14, RestStates DEF Merge, AtRest, Dimension
    <3>2. \A q \in Puller \ {p} : calls[q] = AtRest
      BY <1>7, <3>1 DEF OneAsks
    <3> QED BY <1>3, <2>1, <3>2 DEF OwnTypeOK
  <2>3. \A q \in Puller, d \in Dimension : calls'[q][d] = NotSent
    BY <2>2 DEF AtRest
  <2>4. RequestsCover' /\ OneAsks'
    BY <2>2, <2>3, RestStates DEF RequestsCover, Covers, OneAsks
  <2>5. \A d \in Dimension : CachedOrHidden(d)' <=> CachedOrHidden(d)
    BY <2>1 DEF CachedOrHidden
  <2>6. CASE \E d \in Dimension : calls[p][d] = Failed
    <3>1. currentRevision' = currentRevision
      BY <1>14, <2>6 DEF Merge
    <3>2. currentRevision' <= revision' /\ CacheCovers'
      BY <1>7, <2>1, <2>5, <3>1 DEF CacheCovers
    <3> QED BY <2>4, <3>2
  <2>7. CASE ~\E d \in Dimension : calls[p][d] = Failed
    <3>1. calls[p] \in [Dimension -> Call]
      BY <1>3 DEF OwnTypeOK
    <3>2. \A d \in Dimension : calls[p][d].state = "done"
      BY <1>14, <2>7, <3>1, CallFields DEF Merge
    <3>3. \A d \in Dimension : calls[p][d].revision \in 0..MaxRevision
      BY <3>1, <3>2, CallFields
    <3>4. currentRevision' = CHOOSE m \in {calls[p][d].revision : d \in Dimension} :
                               \A d \in Dimension : m <= calls[p][d].revision
      BY <1>14, <2>7 DEF Merge
    <3>5. /\ currentRevision' \in 0..MaxRevision
          /\ \A d \in Dimension : currentRevision' <= calls[p][d].revision
      BY <3>1, <3>3, <3>4, LeastRevision
    <3>6. \A d \in Dimension :
            /\ calls[p][d].revision <= revision
            /\ changedAt[d] <= calls[p][d].revision => CachedOrHidden(d)
      BY <1>7, <3>2 DEF RequestsCover, Covers
    <3>7. currentRevision' <= revision'
      BY <2>1, <3>3, <3>5, <3>6 DEF OwnTypeOK, Dimension
    <3>8. CacheCovers'
      <4> SUFFICES ASSUME NEW d \in Dimension, changedAt[d] <= currentRevision'
                   PROVE  CachedOrHidden(d)
        BY <1>7, <2>1, <2>5 DEF CacheCovers
      <4>1. changedAt[d] <= calls[p][d].revision
        BY <3>3, <3>5 DEF OwnTypeOK
      <4> QED BY <3>6, <4>1
    <3> QED BY <2>4, <3>7, <3>8
  <2> QED BY <2>6, <2>7
<1>15. CASE UNCHANGED <<store, cache, hidden, currentRevision, calls>>
  BY <1>7, <1>15 DEF CacheCovers, CachedOrHidden, RequestsCover, Covers, Found, OneAsks
<1>16. CASE TakeEvent \/ KieCleanup \/ (\E g \in Goroutine : Fire(g) \/ EndMerge(g))
            \/ UNCHANGED kieVars
  BY <1>15, <1>16 DEF TakeEvent, KieCleanup, Fire, EndMerge, kieVars
<1> QED
  BY <1>3, <1>8, <1>11, <1>12, <1>13, <1>14, <1>16, OtherModeRests DEF KieNext, Pull

LEMMA NextWatchedCovers ==
  OwnTypeOK /\ Roles /\ WatchedCovers /\ [KieNext]_kieVars => WatchedCovers'
<1> SUFFICES ASSUME OwnTypeOK, Roles, WatchedCovers, [KieNext]_kieVars
             PROVE  WatchedCovers'
  OBVIOUS
<1> USE DEF store, merges
<1>1. RefreshMode' = RefreshMode
  BY ModeStays
<1> SUFFICES ASSUME RefreshMode = ModeWatch, NEW d \in Dimension
             PROVE  WatchCovers(d)'
  BY <1>1 DEF WatchedCovers
<1>2. WatchCovers(d)
  BY DEF WatchedCovers
<1>3. /\ revision \in Nat /\ changedAt \in [Dimension -> Nat]
      /\ watched \in [Dimension -> Int]
  BY DEF OwnTypeOK
<1>4. ASSUME NEW e \in Dimension, NEW k \in Key, NEW v \in Value \cup {None},
             Put(e, k, v)
      PROVE  WatchCovers(d)'
  <2>1. /\ revision' = revision + 1 /\ changedAt'[e] = revision + 1
        /\ UNCHANGED <<cache, hidden, calls, watched>>
        /\ e # d => changedAt'[d] = changedAt[d] /\ server'[d] = server[d]
    BY <1>4 DEF Put, OwnTypeOK
  <2>2. CASE e = d
    BY <1>2, <1>3, <2>1, <2>2 DEF WatchCovers
  <2>3. CASE e # d
    BY <1>2, <1>3, <2>1, <2>3 DEF WatchCovers, CachedOrHidden, Found
  <2> QED BY <2>2, <2>3
<1>5. ASSUME NEW e \in Dimension \ {d}, WatchAnswers(e) \/ WatchFails(e) \/ WatchCaches(e)
                               \/ WatchMerges(e)
      PROVE  WatchCovers(d)'
  <2>1. /\ UNCHANGED <<store, watched[d], calls[d][d]>>
    BY <1>5 DEF WatchAnswers, WatchFails, WatchCaches, WatchMerges, OwnTypeOK, Goroutine
  <2>2. cache'[d] = cache[d] /\ (d \in hidden' <=> d \in hidden)
    <3>1. CASE WatchCaches(e)
      <4>1. calls[e][e].kv \in Config \cup {NoConfig}
        BY <3>1, CallFields DEF WatchCaches, OwnTypeOK, Goroutine
      <4> QED BY <3>1, <4>1, CacheStep DEF WatchCaches, OwnTypeOK
    <3>2. CASE ~WatchCaches(e)
      BY <1>5, <3>2 DEF WatchAnswers, WatchFails, WatchMerges
    <3> QED BY <3>1, <3>2
  <2> QED BY <1>2, <2>1, <2>2 DEF WatchCovers, CachedOrHidden, Found
<1>6. CASE WatchAnswers(d)
  <2>1. PICK kv \in Responses(d) : calls' = [calls EXCEPT ![d][d] = Answered(kv, revision)]
    BY <1>6 DEF WatchAnswers
  <2>2. calls'[d][d] = Answered(kv, revision)
    BY <2>1 DEF OwnTypeOK, Goroutine
  <2>3. UNCHANGED store /\ watched'[d] = revision
    BY <1>6 DEF WatchAnswers, OwnTypeOK
  <2>4. Found(kv, d)'
    BY <2>3, ResponseIsFound DEF Found
  <2> QED BY <1>2, <1>3, <2>2, <2>3, <2>4 DEF WatchCovers, Answered
<1>7. CASE WatchFails(d)
  <2>1. UNCHANGED <<store, cache, calls>>
    BY <1>7 DEF WatchFails
  <2>2. calls[d][d].state # "answered"
    BY <1>7, IdleRests DEF WatchFails, Goroutine
  <2>3. CASE UNCHANGED <<watched, hidden>>
    BY <1>2, <2>1, <2>2, <2>3 DEF WatchCovers, CachedOrHidden
  <2>4. CASE /\ watched' = [watched EXCEPT ![d] = revision]
             /\ hidden' = IF cache[d] # server[d] THEN hidden \cup {d} ELSE hidden
    <3>1. CachedOrHidden(d)' /\ watched'[d] = revision
      BY <2>1, <2>4 DEF CachedOrHidden, OwnTypeOK
    <3> QED BY <1>2, <1>3, <2>1, <2>2, <3>1 DEF WatchCovers
  <2> QED BY <1>7, <2>3, <2>4 DEF WatchFails
<1>8. CASE WatchCaches(d)
  <2>1. /\ calls[d][d].state = "answered"
        /\ calls[d][d].kv \in Config \cup {NoConfig}
    BY <1>8, CallFields DEF WatchCaches, OwnTypeOK, Goroutine
  <2>2. UNCHANGED <<store, watched>> /\ SetDimensionConfigs(calls[d][d].kv, d)
    BY <1>8 DEF WatchCaches
  <2>3. calls'[d][d].state # "answered"
    BY <1>8, RestStates DEF WatchCaches, Done, OwnTypeOK, Goroutine
  <2>4. changedAt[d] <= watched[d] => CachedOrHidden(d)'
    BY <1>2, <2>1, <2>2, FoundIsCached DEF WatchCovers
  <2> QED BY <1>2, <2>2, <2>3, <2>4 DEF WatchCovers
<1>9. CASE WatchMerges(d)
  <2>1. UNCHANGED <<store, watched, cache, hidden>>
    BY <1>9 DEF WatchMerges
  <2>2. calls[d][d].state = "done" /\ calls'[d][d] = NotSent
    BY <1>9 DEF WatchMerges, AtRest, OwnTypeOK, Goroutine
  <2> QED BY <1>2, <2>1, <2>2, RestStates DEF WatchCovers, CachedOrHidden
<1>10. CASE UNCHANGED <<store, cache, hidden, watched, calls>>
  BY <1>2, <1>10 DEF WatchCovers, CachedOrHidden, Found
<1>11. CASE TakeEvent \/ KieCleanup \/ (\E g \in Goroutine : Fire(g) \/ EndMerge(g))
            \/ UNCHANGED kieVars
  BY <1>10, <1>11 DEF TakeEvent, KieCleanup, Fire, EndMerge, kieVars
<1> QED
  BY <1>4, <1>5, <1>6, <1>7, <1>8, <1>9, <1>11, OtherModeRests
  DEF KieNext, Watch, Goroutine

\* "Find the minimum valid revision from responses" is right: a dimension with
\* no change after the revision a goroutine asks with is cached as it is,
\* whatever fails: in interval mode while no two pulls overlap, in watch mode
\* always, but for a dimension that was answered with a newer revision and no
\* list since it was last cached.
THEOREM RevisionNeverAhead == KieSpec => []RevisionCovers
<1> DEFINE Inv == OwnTypeOK /\ Roles /\ PullInv /\ WatchedCovers
<1>1. Inv => RevisionCovers
  BY DEF PullInv, CacheCovers, CachedOrHidden, WatchedCovers, WatchCovers, RevisionCovers
<1>2. Inv /\ [KieNext]_kieVars => Inv'
  BY NextOwnType, NextRoles, NextPullInv, NextWatchedCovers
<1>3. KieInit => Inv
  BY InitOwnType, InitRoles, InitPullInv, InitWatchedCovers
<1> QED BY <1>1, <1>2, <1>3, PTL DEF KieSpec

\* With a server that answers a request that finds no key with an empty list
\* the client does what its comment says, "if found an
\* updated kv or no kv was found, then update configs cache", while no two
\* pulls overlap.
THEOREM ListsNeverHide ==
  ASSUME \A d \in Dimension : NotFound[d] = {EmptyConfig}
  PROVE  KieSpec => []NotFoundUpdates
<1> DEFINE Listed == RefreshMode = ModeInterval =>
                       /\ hidden = {}
                       /\ \A p \in Puller, d \in Dimension :
                            calls[p][d].state = "answered" => calls[p][d].kv # NoConfig
<1> DEFINE Inv == OwnTypeOK /\ Roles /\ PullInv /\ Listed
<1>1. KieInit => Listed
  <2> SUFFICES ASSUME KieInit PROVE Listed
    OBVIOUS
  <2>1. \A g \in Goroutine, d \in Dimension : calls[g][d] = NotSent
    BY DEF KieInit, AtRest
  <2> QED BY <2>1, RestStates DEF KieInit, Goroutine
<1>2. OwnTypeOK /\ Roles /\ Listed /\ [KieNext]_kieVars => Listed'
  <2> SUFFICES ASSUME OwnTypeOK, Roles, Listed, [KieNext]_kieVars,
                      RefreshMode = ModeInterval
               PROVE  Listed'
    BY ModeStays
  <2> USE DEF store, merges
  <2>1. \A p \in Puller : p \in Goroutine
    BY DEF Goroutine
  <2>2. ASSUME NEW p \in Puller, NEW d \in Dimension, NEW request \in Call,
               request.state = "answered" => request.kv # NoConfig,
               calls' = [calls EXCEPT ![p][d] = request], hidden' = {}
        PROVE  Listed'
    <3>1. \A q \in Puller, e \in Dimension :
            calls'[q][e] = IF q = p /\ e = d THEN request ELSE calls[q][e]
      BY <2>1, <2>2 DEF OwnTypeOK
    <3> QED BY <2>2, <3>1
  <2>3. ASSUME NEW p \in Puller, NEW d \in Dimension, List(p, d)
        PROVE  Listed'
    <3>1. hidden' = {}
      BY <2>3 DEF List
    <3>2. \A kv \in Responses(d) : kv \in Config /\ kv # NoConfig
      BY DEF Responses, OwnTypeOK, KieAssumption
    <3>3. PICK request \in {Done(revision)} \cup {Answered(kv, revision) : kv \in Responses(d)} :
            calls' = [calls EXCEPT ![p][d] = request]
      BY <2>3 DEF List
    <3>4. request \in Call /\ (request.state = "answered" => request.kv # NoConfig)
      <4>1. CASE request = Done(revision)
        BY <4>1, CallTypes DEF Done, OwnTypeOK
      <4>2. ASSUME NEW kv \in Responses(d), request = Answered(kv, revision)
            PROVE  request \in Call /\ request.kv # NoConfig
        <5>1. kv \in Config /\ kv # NoConfig /\ revision \in 0..MaxRevision
          BY <3>2 DEF OwnTypeOK
        <5> QED BY <4>2, <5>1, CallTypes DEF Answered
      <4> QED BY <3>3, <4>1, <4>2
    <3> QED BY <2>2, <3>1, <3>3, <3>4
  <2>4. ASSUME NEW p \in Puller, NEW d \in Dimension, ListFails(p, d)
        PROVE  Listed'
    BY <2>2, <2>4, CallTypes, RestStates DEF ListFails
  <2>5. ASSUME NEW p \in Puller, NEW d \in Dimension, Cache(p, d)
        PROVE  Listed'
    <3>1. calls[p][d].kv # NoConfig /\ calls[p][d].revision \in 0..MaxRevision
      BY <2>1, <2>5, CallFields DEF Cache, OwnTypeOK
    <3>2. hidden' = {}
      BY <2>5, <3>1 DEF Cache, SetDimensionConfigs
    <3>3. Done(calls[p][d].revision) \in Call
          /\ Done(calls[p][d].revision).state # "answered"
      BY <3>1, CallTypes DEF Done
    <3> QED BY <2>2, <2>5, <3>2, <3>3 DEF Cache
  <2>6. ASSUME NEW p \in Puller, Merge(p)
        PROVE  Listed'
    <3>1. hidden' = hidden /\ calls' = [calls EXCEPT ![p] = AtRest]
      BY <2>6 DEF Merge
    <3>2. \A q \in Puller, e \in Dimension : calls'[q][e] \in {calls[q][e], NotSent}
      BY <2>1, <3>1 DEF AtRest, OwnTypeOK
    <3> QED BY <3>1, <3>2, RestStates
  <2>7. CASE UNCHANGED <<hidden, calls>>
    BY <2>7
  <2>8. CASE \/ \E d \in Dimension, k \in Key, v \in Value \cup {None} : Put(d, k, v)
             \/ \E g \in Goroutine : Fire(g) \/ EndMerge(g)
             \/ TakeEvent \/ KieCleanup \/ UNCHANGED kieVars
    BY <2>7, <2>8 DEF Put, TakeEvent, KieCleanup, Fire, EndMerge, kieVars
  <2> QED
    BY <2>1, <2>3, <2>4, <2>5, <2>6, <2>8, OtherModeRests DEF KieNext, Pull
<1>3. Inv => NotFoundUpdates
  BY DEF PullInv, CacheCovers, CachedOrHidden, NotFoundUpdates
<1>4. KieInit => Inv
  BY <1>1, InitOwnType, InitRoles, InitPullInv
<1>5. Inv /\ [KieNext]_kieVars => Inv'
  BY <1>2, NextOwnType, NextRoles, NextPullInv
<1> QED BY <1>3, <1>4, <1>5, PTL DEF KieSpec

-----------------------------------------------------------------------------
(***************************************************************************)
(* In watch mode what is cached is used.                                   *)
(***************************************************************************)

\* Some goroutine has cached what it has not begun to merge.
Unmerged == \E d \in Dimension : calls[d][d].state = "done"

\* A goroutine that began to merge after d is not yet done with it.
Followed(d) == \E e \in Dimension : d \in ahead[e]

\* Who merges has read nothing that has changed since, but that somebody is to
\* merge again or began to merge later.
FreshMerge(d) ==
  /\ merging[d] # NoConfig => merging[d] = cache[App] \/ Unmerged \/ Followed(d)
  /\ config[d] # NoConfig => config[d] = MergeConfig(cache) \/ Unmerged \/ Followed(d)

\* A goroutine with a request under way has merged nothing, and one step of a
\* merge is done at a time.
OneThing(d) ==
  /\ calls[d][d] # NotSent => ~Merges(d)
  /\ merging[d] = NoConfig \/ config[d] = NoConfig
  /\ ahead[d] # {} => Merges(d)

\* When nobody has still to merge, the union of the cache is in use.
UnionReaches ==
  current = MergeConfig(cache) \/ Unmerged \/ \E d \in Dimension : Merges(d)

WatchInv ==
  RefreshMode = ModeWatch /\ ~overtaken /\ ~cleaned =>
    /\ \A d \in Dimension : OneThing(d) /\ FreshMerge(d)
    /\ UnionReaches

LEMMA InitWatchInv == KieInit => WatchInv
<1> SUFFICES ASSUME KieInit PROVE WatchInv
  OBVIOUS
<1>1. \A d \in Dimension : /\ merging[d] = NoConfig /\ config[d] = NoConfig
                           /\ calls[d][d] = NotSent /\ ahead[d] = {}
  BY DEF KieInit, Goroutine, AtRest
<1>2. current = MergeConfig(cache)
  BY DEF KieInit, Init, MergeConfig, EmptyConfig, Dimension
<1> QED BY <1>1, <1>2 DEF WatchInv, OneThing, FreshMerge, UnionReaches, Merges

\* The conclusion each step has to reach.
WatchGoal ==
  (\A d \in Dimension : OneThing(d) /\ FreshMerge(d)) /\ UnionReaches

\* A request that is sent, answered or fails changes nothing that is merged.
LEMMA RequestWaits ==
  ASSUME OwnTypeOK, WatchGoal, NEW d \in Dimension, WatchAnswers(d) \/ WatchFails(d)
  PROVE  WatchGoal'
<1>1. UNCHANGED <<merging, config, cache, current, ahead>>
  BY DEF WatchAnswers, WatchFails, merges, vars
<1>2. /\ \A e \in Dimension \ {d} : calls'[e][e] = calls[e][e]
      /\ calls[d][d].state # "done" /\ ~Merges(d)
  BY RestStates DEF WatchAnswers, WatchFails, Idle, AtRest, OwnTypeOK, Goroutine
<1> QED BY <1>1, <1>2
        DEF WatchGoal, OneThing, FreshMerge, UnionReaches, Unmerged, Followed, Merges

\* A response that is not merged left the union of the cache as it was; one
\* that is merged has still to be.
LEMMA CachedWaits ==
  ASSUME OwnTypeOK, WatchGoal, NEW d \in Dimension, WatchCaches(d)
  PROVE  WatchGoal'
<1>1. UNCHANGED <<merging, config, current, ahead>>
  BY DEF WatchCaches, merges, vars
<1>2. \A e \in Dimension \ {d} : calls'[e][e] = calls[e][e]
  BY DEF WatchCaches, OwnTypeOK, Goroutine
<1>3. calls[d][d].state = "answered" /\ calls[d][d] # NotSent
  BY RestStates DEF WatchCaches
<1>4. CASE Updates(calls[d][d].kv, d)
  <2>1. calls'[d][d] = Done(calls[d][d].revision)
    BY <1>4 DEF WatchCaches, OwnTypeOK, Goroutine
  <2>2. Unmerged'
    BY <2>1 DEF Unmerged, Done
  <2> QED BY <1>1, <1>2, <1>3, <2>2
          DEF WatchGoal, OneThing, FreshMerge, UnionReaches, Merges
<1>5. CASE ~Updates(calls[d][d].kv, d)
  <2>1. cache' = cache
    BY <1>5 DEF WatchCaches, SetDimensionConfigs
  <2> QED BY <1>1, <1>2, <1>3, <2>1
          DEF WatchGoal, OneThing, FreshMerge, UnionReaches, Unmerged, Followed, Merges
<1> QED BY <1>4, <1>5

\* Who begins to merge comes after all who merge already.
LEMMA MergeFollows ==
  ASSUME OwnTypeOK, WatchGoal, NEW d \in Dimension, WatchMerges(d)
  PROVE  WatchGoal'
<1>1. UNCHANGED <<config, cache, current>>
  BY DEF WatchMerges, vars
<1>2. calls[d][d].state = "done" /\ calls[d][d] # NotSent /\ calls'[d][d] = NotSent
  BY RestStates DEF WatchMerges, AtRest, OwnTypeOK, Goroutine
<1>3. ~Merges(d) /\ ahead[d] = {}
  BY <1>2 DEF WatchGoal, OneThing
<1>4. \A e \in Dimension \ {d} :
        calls'[e][e] = calls[e][e] /\ merging'[e] = merging[e] /\ ahead'[e] = ahead[e]
  BY DEF WatchMerges, BeginMerge, OwnTypeOK, Goroutine
<1>5. merging'[d] = cache[App] /\ ahead'[d] = {e \in Dimension : Merges(e)}
  BY DEF WatchMerges, BeginMerge, OwnTypeOK, Goroutine
<1>6. cache[App] # NoConfig
  BY DEF OwnTypeOK, Dimension, KieAssumption
<1>7. \A e \in Dimension \ {d} : OneThing(e)' /\ (Merges(e)' <=> Merges(e))
  BY <1>1, <1>4 DEF WatchGoal, OneThing, Merges
<1>8. \A e \in Dimension \ {d} : FreshMerge(e)'
  BY <1>5, <1>7 DEF FreshMerge, Followed, Merges
<1>9. OneThing(d)' /\ FreshMerge(d)' /\ Merges(d)'
  BY <1>1, <1>2, <1>3, <1>5, <1>6 DEF OneThing, FreshMerge, Merges
<1> QED BY <1>7, <1>8, <1>9 DEF WatchGoal, UnionReaches

\* The second read of a merge gives the union of what is cached, if the first
\* has not grown old.
LEMMA MergeEnds ==
  ASSUME OwnTypeOK, WatchGoal, NEW d \in Dimension, EndMerge(d)
  PROVE  WatchGoal'
<1>1. UNCHANGED <<calls, cache, current, ahead>>
  BY DEF EndMerge, vars
<1>2. merging[d] # NoConfig /\ merging'[d] = NoConfig
  BY DEF EndMerge, OwnTypeOK, Goroutine
<1>3. config'[d] = MergeConfig([cache EXCEPT ![App] = merging[d]])
  BY DEF EndMerge, OwnTypeOK, Goroutine
<1>4. \A e \in Dimension \ {d} : merging'[e] = merging[e] /\ config'[e] = config[e]
  BY DEF EndMerge, OwnTypeOK, Goroutine
<1>5. config'[d] # NoConfig
  <2>1. [cache EXCEPT ![App] = merging[d]] \in [Dimension -> Config]
    BY <1>2 DEF OwnTypeOK, Goroutine
  <2> QED BY <1>3, <2>1, MergeType DEF KieAssumption
<1>6. merging[d] = cache[App] => config'[d] = MergeConfig(cache)
  <2>1. [cache EXCEPT ![App] = cache[App]] = cache
    BY DEF OwnTypeOK
  <2> QED BY <1>3, <2>1
<1>7. \A e \in Dimension : Merges(e)' <=> Merges(e)
  BY <1>2, <1>4, <1>5 DEF Merges
<1>8. ASSUME NEW e \in Dimension PROVE OneThing(e)' /\ FreshMerge(e)'
  <2>1. CASE e = d
    BY <1>1, <1>2, <1>6, <1>7, <2>1
    DEF WatchGoal, OneThing, FreshMerge, Unmerged, Followed
  <2>2. CASE e # d
    BY <1>1, <1>4, <1>7, <2>2
    DEF WatchGoal, OneThing, FreshMerge, Unmerged, Followed
  <2> QED BY <2>1, <2>2
<1> QED BY <1>1, <1>7, <1>8 DEF WatchGoal, UnionReaches, Unmerged

\* What is put into use in its turn is the union of the cache, or somebody is
\* still to put that into use.
LEMMA FiredIsUnion ==
  ASSUME OwnTypeOK, WatchGoal, NEW d \in Dimension, Fire(d), ~overtaken'
  PROVE  WatchGoal'
<1>1. UNCHANGED <<calls, cache, merging>>
  BY DEF Fire
<1>2. config[d] # NoConfig /\ config'[d] = NoConfig /\ current' = config[d]
  BY DEF Fire, UpdateConfigAndFireEvent, OwnTypeOK, Goroutine
<1>3. ahead[d] = {} /\ ahead'[d] = {}
  BY DEF Fire, TurnOf, OwnTypeOK
<1>4. \A e \in Dimension \ {d} :
        config'[e] = config[e] /\ ahead'[e] = ahead[e] \ {d}
  BY DEF Fire, TurnOf, OwnTypeOK, Goroutine
<1>5. merging[d] = NoConfig
  BY <1>2 DEF WatchGoal, OneThing
<1>6. \A e \in Dimension \ {d} : Merges(e)' <=> Merges(e)
  BY <1>1, <1>4 DEF Merges
<1>7. \A e \in Dimension \ {d} : Followed(e) => Followed(e)'
  BY <1>3, <1>4 DEF Followed
<1>8. ASSUME NEW e \in Dimension PROVE OneThing(e)' /\ FreshMerge(e)'
  <2>1. CASE e = d
    BY <1>1, <1>2, <1>3, <1>5, <2>1 DEF WatchGoal, OneThing, FreshMerge, Merges
  <2>2. CASE e # d
    BY <1>1, <1>4, <1>6, <1>7, <2>2 DEF WatchGoal, OneThing, FreshMerge, Unmerged
  <2> QED BY <2>1, <2>2
<1>9. UnionReaches'
  <2>1. CASE config[d] = MergeConfig(cache)
    BY <1>1, <1>2, <2>1 DEF UnionReaches
  <2>2. CASE Unmerged
    BY <1>1, <2>2 DEF UnionReaches, Unmerged
  <2>3. CASE Followed(d)
    <3>1. PICK e \in Dimension : d \in ahead[e]
      BY <2>3 DEF Followed
    <3>2. e # d
      BY <1>3, <3>1
    <3>3. Merges(e)
      BY <3>1 DEF WatchGoal, OneThing
    <3> QED BY <1>6, <3>2, <3>3 DEF UnionReaches
  <2> QED BY <1>2, <2>1, <2>2, <2>3 DEF WatchGoal, FreshMerge
<1> QED BY <1>8, <1>9 DEF WatchGoal

LEMMA NextWatchInv == OwnTypeOK /\ Roles /\ WatchInv /\ [KieNext]_kieVars => WatchInv'
<1> SUFFICES ASSUME OwnTypeOK, Roles, WatchInv, [KieNext]_kieVars,
                    RefreshMode = ModeWatch, ~overtaken', ~cleaned'
             PROVE  WatchGoal'
  BY ModeStays DEF WatchInv, WatchGoal
<1>1. ~overtaken /\ ~cleaned
  <2>1. overtaken => overtaken'
    BY DEF KieNext, Pull, Watch, Put, List, ListFails, MayAsk, Cache, Merge, EndMerge,
           WatchAnswers, WatchCaches, WatchMerges, WatchFails, Fire, TurnOf, TakeEvent,
           KieCleanup, kieVars, marks
  <2>2. cleaned => cleaned'
    BY DEF KieNext, Pull, Watch, Put, List, ListFails, MayAsk, Cache, Merge, EndMerge,
           WatchAnswers, WatchCaches, WatchMerges, WatchFails, Fire, TakeEvent,
           KieCleanup, kieVars, marks
  <2> QED BY <2>1, <2>2
<1>2. WatchGoal
  BY <1>1 DEF WatchInv, WatchGoal
<1>3. CASE UNCHANGED <<calls, merges, cache, current, ahead>>
  BY <1>2, <1>3 DEF WatchGoal, OneThing, FreshMerge, UnionReaches, Unmerged, Followed,
                    Merges, merges
<1>4. CASE \/ \E d \in Dimension, k \in Key, v \in Value \cup {None} : Put(d, k, v)
           \/ TakeEvent \/ UNCHANGED kieVars
  BY <1>3, <1>4 DEF Put, TakeEvent, OnEvent, kieVars, vars
<1>5. ~KieCleanup
  BY DEF KieCleanup
<1> QED
  BY <1>2, <1>4, <1>5, OtherModeRests, RequestWaits, CachedWaits, MergeFollows,
     MergeEnds, FiredIsUnion DEF KieNext, Watch, Goroutine

\* "Watch watch the configuration changes and update in real time": in watch
\* mode, when the goroutines wait for the next change, the union of what they
\* cached is in use, however their merges were interleaved with what they
\* cached, unless a merge was put into use before one that began earlier, or
\* Cleanup was called.
THEOREM WatchedIsUsed == KieSpec => []CachedIsUsed
<1> DEFINE Inv == OwnTypeOK /\ Roles /\ WatchInv
<1>1. Inv => CachedIsUsed
  <2> SUFFICES ASSUME OwnTypeOK, WatchInv,
                      RefreshMode = ModeWatch, ~overtaken, ~cleaned,
                      \A d \in Dimension : Idle(d)
               PROVE  current = MergeConfig(cache)
    BY DEF CachedIsUsed
  <2>1. \A d \in Dimension : calls[d][d].state # "done" /\ ~Merges(d)
    BY RestStates DEF Idle, AtRest
  <2> QED BY <2>1 DEF WatchInv, UnionReaches, Unmerged
<1>2. Inv /\ [KieNext]_kieVars => Inv'
  BY NextOwnType, NextRoles, NextWatchInv
<1>3. KieInit => Inv
  BY InitOwnType, InitRoles, InitWatchInv
<1> QED BY <1>1, <1>2, <1>3, PTL DEF KieSpec

HIDE KieAssumption DEF ConcurrentReturns, ConcurrentFails
USE NoneAssumption

-----------------------------------------------------------------------------
(***************************************************************************)
(* Lemmas about apollo's helpers.                                          *)
(***************************************************************************)

\* A change of a list, and an event made of one.
ApolloChange ==
  [type : {Apollo!ADDED, Apollo!MODIFIED, Apollo!DELETED, Apollo!Unknown},
   field : Field, newValue : Value \cup {None}]

ApolloEvent ==
  [source : {"apollo"}, type : {Apollo!Create, Apollo!Update, Apollo!Delete},
   key : Apollo!EventKey, val : Value \cup {None}]

LEMMA NilIsNoEvent == Apollo!NilEvent \notin ApolloEvent
BY DEF Apollo!NilEvent, ApolloEvent, Apollo!Create, Apollo!Update, Apollo!Delete

LEMMA NoneIsNil == Apollo!NoNil(<<>>)
BY DEF Apollo!NoNil

\* Who appends an event makes no entry nil.
LEMMA AppendNoNil ==
  ASSUME NEW es \in Seq(ApolloEvent \cup {Apollo!NilEvent}),
         NEW e \in ApolloEvent \cup {Apollo!NilEvent}
  PROVE  /\ Append(es, e) \in Seq(ApolloEvent \cup {Apollo!NilEvent})
         /\ Apollo!NoNil(Append(es, e)) <=> Apollo!NoNil(es) /\ e # Apollo!NilEvent
<1>1. Len(es) \in Nat /\ DOMAIN es = 1..Len(es)
  BY LenProperties
<1>2. /\ Append(es, e) \in Seq(ApolloEvent \cup {Apollo!NilEvent})
      /\ DOMAIN Append(es, e) = 1..(Len(es) + 1)
      /\ \A i \in 1..Len(es) : Append(es, e)[i] = es[i]
      /\ Append(es, e)[Len(es) + 1] = e
  BY <1>1, AppendProperties
<1> QED BY <1>1, <1>2 DEF Apollo!NoNil

\* A list of events none of which is nil.
LEMMA EventsNoneNil ==
  ASSUME NEW es \in Seq(ApolloEvent \cup {Apollo!NilEvent}), Apollo!NoNil(es)
  PROVE  es \in Seq(ApolloEvent)
<1>1. Len(es) \in Nat /\ DOMAIN es = 1..Len(es)
  BY LenProperties
<1>2. \A i \in 1..Len(es) : es[i] \in ApolloEvent
  BY <1>1, ElementOfSeq DEF Apollo!NoNil
<1>3. es = [i \in 1..Len(es) |-> es[i]]
  BY <1>1, SeqDef
<1> QED BY <1>1, <1>2, <1>3, IsASeq

LEMMA KeyOfType ==
  ASSUME NEW ns \in Namespace, NEW f \in Field
  PROVE  Apollo!KeyOf(ns, f) \in Apollo!EventKey /\ Apollo!KeyOf(ns, f)[2] = f
BY DEF Apollo!KeyOf, Apollo!EventKey

\* A set of numbers up to a bound has a greatest.
LEMMA GreatestExists ==
  ASSUME NEW n \in Nat, NEW S, S \subseteq 1..n, S # {}
  PROVE  \E x \in S : \A y \in S : x >= y
<1> DEFINE T == {n - x : x \in S}
           R == OpToRel(<, Nat)
<1>1. T \subseteq Nat /\ T # {}
  <2>1. \A x \in S : n - x \in Nat
    OBVIOUS
  <2> QED BY <2>1
<1>2. IsWellFoundedOn(R, Nat)
  BY NatLessThanWellFounded
<1> HIDE DEF T, R
<1>3. PICK m \in T : \A k \in T : ~(<<k, m>> \in R)
  BY <1>1, <1>2, WFMin, Zenon
<1>4. \A k \in T : ~(k < m)
  BY <1>1, <1>3 DEF R, OpToRel
<1>5. PICK x \in S : m = n - x
  BY <1>3 DEF T
<1>6. \A y \in S : x >= y
  <2> SUFFICES ASSUME NEW y \in S PROVE x >= y
    OBVIOUS
  <2>1. n - y \in T
    BY DEF T
  <2> QED BY <1>4, <1>5, <2>1
<1> QED BY <1>6

\* The last of the events about a key that a list has.
LEMMA LastAbout ==
  ASSUME NEW c, NEW es, NEW key \in Apollo!EventKey, NEW n \in Nat,
         DOMAIN es = 1..n, n > 0, es[n].key = key
  PROVE  Apollo!FollowAll(c, es)[key] = Apollo!Follow(c, es[n])[key]
<1> DEFINE about == {i \in DOMAIN es : es[i].key = key}
<1>1. n \in about /\ \A i \in about : i \in Int /\ n >= i
  OBVIOUS
<1>2. Apollo!Max(about) = n
  BY <1>1 DEF Apollo!Max
<1>3. about # {}
  BY <1>1
<1> QED BY <1>2, <1>3 DEF Apollo!FollowAll

\* Of a list of events only the last one about a key counts: to follow one
\* more is to follow the list and then that one.
LEMMA FollowOneMore ==
  ASSUME NEW c \in Apollo!Config, NEW es \in Seq(ApolloEvent),
         NEW e \in ApolloEvent
  PROVE  Apollo!FollowAll(c, Append(es, e)) =
           Apollo!Follow(Apollo!FollowAll(c, es), e)
<1> DEFINE longer == Append(es, e)
<1>1. /\ longer \in Seq(ApolloEvent) /\ Len(longer) = Len(es) + 1
      /\ \A i \in 1..Len(es) : longer[i] = es[i]
      /\ longer[Len(es) + 1] = e
  BY AppendProperties
<1>2. DOMAIN longer = 1..(Len(es) + 1) /\ DOMAIN es = 1..Len(es) /\ Len(es) \in Nat
  BY <1>1, LenProperties
<1> HIDE DEF longer
<1>3. ASSUME NEW key \in Apollo!EventKey, key # e.key
      PROVE  Apollo!FollowAll(c, longer)[key] = Apollo!FollowAll(c, es)[key]
  <2>1. \A i \in DOMAIN longer :
          longer[i].key = key => i \in DOMAIN es /\ longer[i] = es[i]
    BY <1>1, <1>2, <1>3
  <2>2. \A i \in DOMAIN es : i \in DOMAIN longer /\ longer[i] = es[i]
    BY <1>1, <1>2
  <2> DEFINE about == {i \in DOMAIN es : es[i].key = key}
  <2>3. {i \in DOMAIN longer : longer[i].key = key} = about
    BY <2>1, <2>2
  <2>4. CASE about = {}
    BY <2>3, <2>4 DEF Apollo!FollowAll
  <2>5. CASE about # {}
    <3>1. Apollo!Max(about) \in about
      <4>1. about \subseteq 1..Len(es)
        BY <1>2
      <4>2. \E x \in about : \A y \in about : x >= y
        BY <2>5, <4>1, <1>2, GreatestExists
      <4> QED BY <4>2 DEF Apollo!Max
    <3>2. longer[Apollo!Max(about)] = es[Apollo!Max(about)]
      BY <2>2, <3>1
    <3> QED BY <2>3, <2>5, <3>2 DEF Apollo!FollowAll
  <2> QED BY <2>4, <2>5
<1>4. e.key \in Apollo!EventKey
  BY DEF ApolloEvent
<1>5. Apollo!FollowAll(c, longer)[e.key] = Apollo!Follow(c, e)[e.key]
  BY <1>1, <1>2, <1>4, LastAbout
<1>6. Apollo!Follow(c, e)[e.key] =
        Apollo!Follow(Apollo!FollowAll(c, es), e)[e.key]
  BY <1>4 DEF Apollo!Follow, Apollo!FollowAll, Apollo!Config
<1> DEFINE all == Apollo!FollowAll(c, longer)
           both == Apollo!Follow(Apollo!FollowAll(c, es), e)
<1>7. all = [key \in Apollo!EventKey |-> all[key]]
  BY DEF Apollo!FollowAll
<1>8. both = [key \in Apollo!EventKey |-> both[key]]
  <2> DEFINE f == Apollo!FollowAll(c, es)
  <2>1. f = [key \in Apollo!EventKey |-> f[key]]
    BY DEF Apollo!FollowAll
  <2> HIDE DEF f
  <2>2. Apollo!Follow(f, e) =
          [key \in Apollo!EventKey |-> Apollo!Follow(f, e)[key]]
    BY <2>1 DEF Apollo!Follow
  <2> QED BY <2>2 DEF f
<1>9. \A key \in Apollo!EventKey : all[key] = both[key]
  <2> SUFFICES ASSUME NEW key \in Apollo!EventKey, key # e.key
               PROVE  all[key] = both[key]
    BY <1>5, <1>6
  <2>1. both[key] = Apollo!FollowAll(c, es)[key]
    BY DEF Apollo!Follow, Apollo!FollowAll
  <2> QED BY <1>3, <2>1
<1> HIDE DEF all, both
<1>10. all = both
  BY <1>7, <1>8, <1>9
<1> QED BY <1>10 DEF all, both, longer

\* The elements of a set are counted alike in every module.
LEMMA SameCount ==
  ASSUME NEW S PROVE Apollo!Cardinality(S) = Cardinality(S)
BY DEF Apollo!Cardinality, Cardinality

\* A key that no two namespaces have has one answer.
LEMMA OneHolder ==
  ASSUME NEW H, H \subseteq Namespace, ~(Cardinality(H) > 1)
  PROVE  \A m, n \in H : m = n
<1> SUFFICES ASSUME NEW m \in H, NEW n \in H, m # n PROVE FALSE
  OBVIOUS
<1>1. IsFiniteSet(H)
  BY FS_Subset, ApolloAssumption
<1>2. IsFiniteSet({m}) /\ Cardinality({m}) = 1
  BY FS_Singleton
<1>3. Cardinality({m} \cup {n}) = 2
  BY <1>2, FS_AddElement
<1>4. Cardinality({m} \cup {n}) <= Cardinality(H) /\ Cardinality(H) \in Nat
  BY <1>1, FS_Subset, FS_CardinalityType
<1> QED BY <1>3, <1>4

\* The answers to a key depend only on what the namespaces have for it.
LEMMA SameAnswers ==
  ASSUME NEW key \in Apollo!EventKey, ignoreNamespace' = ignoreNamespace,
         \A ns \in Namespace :
           Apollo!KeyOf(ns, key[2]) = key =>
             content'[ns][key[2]] = content[ns][key[2]]
  PROVE  Apollo!Answers(key)' = Apollo!Answers(key)
<1>1. Apollo!Holding(key)' = Apollo!Holding(key)
  BY DEF Apollo!Holding, Apollo!KeyOf
<1>2. \A ns \in Apollo!Holding(key) : content'[ns][key[2]] = content[ns][key[2]]
  BY DEF Apollo!Holding
<1> QED BY <1>1, <1>2 DEF Apollo!Answers

\* A list of changes says of each field that changed what it has now, and of no
\* other field.
LEMMA ListSaysAll ==
  ASSUME NEW old \in Apollo!Fields, NEW new \in Apollo!Fields,
         NEW list \in Apollo!ChangeLists(old, new)
  PROVE  /\ list \in Seq(ApolloChange)
         /\ \A i \in DOMAIN list :
              list[i] \in Apollo!Change(old, new, list[i].field)
         /\ \A i \in DOMAIN list :
              old[list[i].field] # new[list[i].field]
         /\ \A f \in Field : old[f] # new[f] =>
              \E i \in DOMAIN list : list[i].field = f
<1> DEFINE changed == {f \in Field : old[f] # new[f]}
           n == Cardinality(changed)
           field == [i \in 1..n |-> list[i].field]
<1>1. IsFiniteSet(changed) /\ n \in Nat
  BY FS_Subset, FS_CardinalityType, ApolloAssumption
<1>2. /\ list \in [1..n -> UNION {Apollo!Change(old, new, f) : f \in changed}]
      /\ \A i, j \in 1..n : list[i].field = list[j].field => i = j
  BY SameCount DEF Apollo!ChangeLists
<1> HIDE DEF n
<1>3. ASSUME NEW i \in 1..n
      PROVE  /\ list[i] \in Apollo!Change(old, new, list[i].field)
             /\ list[i].field \in changed /\ list[i] \in ApolloChange
  <2>1. PICK f \in changed : list[i] \in Apollo!Change(old, new, f)
    BY <1>2
  <2>2. list[i].field = f
    BY <2>1 DEF Apollo!Change
  <2>3. list[i] \in ApolloChange
    BY <2>1 DEF Apollo!Change, ApolloChange, Apollo!Fields
  <2> QED BY <2>1, <2>2, <2>3
<1>4. DOMAIN list = 1..n
  BY <1>2
<1>5. list \in Seq(ApolloChange)
  BY <1>1, <1>2, <1>3, <1>4, IsASeq
<1>6. \A f \in changed : \E i \in 1..n : list[i].field = f
  <2>1. field \in Injection(1..n, changed)
    BY <1>2, <1>3 DEF Injection, IsInjective
  <2>2. Cardinality(1..n) = n
    BY <1>1, FS_Interval
  <2>3. field \in Surjection(1..n, changed)
    BY <1>1, <2>1, <2>2, FS_Injection DEF n
  <2> QED BY <2>3 DEF Surjection
<1> QED BY <1>3, <1>4, <1>5, <1>6

-----------------------------------------------------------------------------
(***************************************************************************)
(* What the apollo source tells is what readers are answered.              *)
(***************************************************************************)

ApolloTypes ==
  /\ {ignoreNamespace, started, apolloCleaned} \subseteq BOOLEAN
  /\ content \in [Namespace -> Apollo!Fields]
  /\ source \in {"new", "pulled", "watched", "panicked"}
  /\ callback # <<>> =>
       callback[1] \in Namespace /\ callback[2] \in Seq(ApolloChange)
  /\ events \in Seq(ApolloEvent \cup {Apollo!NilEvent})
  /\ told \in Apollo!Config /\ moduleCopy \in Apollo!Config
  /\ missed \subseteq Apollo!EventKey
  /\ polls \in 0..MaxPolls

\* A callback is under way only when the source watches, and it alone has
\* events to hand over together.
CallbackFits ==
  /\ source \in {"new", "pulled"} => callback = <<>>
  /\ callback = <<>> => events = <<>>

\* The callback has still to tell of key.
Waits(key) ==
  callback # <<>> /\ \E i \in DOMAIN callback[2] :
    key = Apollo!KeyOf(callback[1], callback[2][i].field)

\* What the Manager has been told of a key is answered, or will be corrected,
\* unless the program is to end.
ToldAnswers ==
  ~apolloCleaned /\ source # "new" /\ Apollo!NoNil(events) =>
    \A key \in Apollo!EventKey \ missed :
      told[key] \in Apollo!Answers(key) \/ Waits(key)

\* What the callback has still to tell is answered.
ChangeAnswers(change, key) ==
  /\ key \notin missed => Apollo!Answers(key) = {change.newValue}
  /\ change.type # Apollo!Unknown =>
       (change.type = Apollo!DELETED <=> change.newValue = None)

ChangesAnswer ==
  ~apolloCleaned /\ callback # <<>> =>
    \A i \in DOMAIN callback[2] :
      ChangeAnswers(callback[2][i],
                    Apollo!KeyOf(callback[1], callback[2][i].field))

ApolloInv ==
  /\ ApolloTypes /\ CallbackFits
  /\ Apollo!Shared \subseteq missed
  /\ Apollo!NoNil(events) => told = Apollo!FollowAll(moduleCopy, events)
  /\ ToldAnswers /\ ChangesAnswer

\* Who follows no events has what it had.
LEMMA FollowNone ==
  ASSUME NEW c \in Apollo!Config PROVE Apollo!FollowAll(c, <<>>) = c
BY DEF Apollo!FollowAll, Apollo!Config

\* An event leaves a configuration one.
LEMMA ApolloFollowType ==
  ASSUME NEW c \in Apollo!Config, NEW e \in ApolloEvent
  PROVE  /\ Apollo!Follow(c, e) \in Apollo!Config
         /\ \A key \in Apollo!EventKey :
              Apollo!Follow(c, e)[key] =
                IF key # e.key THEN c[key]
                ELSE IF e.type = Apollo!Delete THEN None ELSE e.val
BY DEF Apollo!Follow, Apollo!Config, ApolloEvent

LEMMA ApolloInitInv == Apollo!Init => ApolloInv
<1> SUFFICES ASSUME Apollo!Init PROVE ApolloInv
  OBVIOUS
<1> USE DEF Apollo!Init
<1>1. Apollo!EmptyConfig \in Apollo!Config
  BY DEF Apollo!EmptyConfig, Apollo!Config
<1>2. ApolloTypes
  <2>1. events \in Seq(ApolloEvent \cup {Apollo!NilEvent})
    OBVIOUS
  <2>2. Apollo!Shared \subseteq Apollo!EventKey
    BY DEF Apollo!Shared
  <2>3. 0 \in 0..MaxPolls
    BY ApolloAssumption
  <2> QED BY <1>1, <2>1, <2>2, <2>3 DEF ApolloTypes
<1>3. told = Apollo!FollowAll(moduleCopy, events)
  BY <1>1, FollowNone
<1> QED BY <1>2, <1>3 DEF ApolloInv, CallbackFits, ToldAnswers, ChangesAnswer

LEMMA ApolloPulls == ApolloInv /\ Apollo!GetConfigurations => ApolloInv'
<1> SUFFICES ASSUME ApolloInv, Apollo!GetConfigurations PROVE ApolloInv'
  OBVIOUS
<1> USE DEF ApolloInv, Apollo!GetConfigurations
<1>1. callback = <<>> /\ events = <<>>
  BY DEF CallbackFits
<1>2. told' \in Apollo!Config /\ moduleCopy' = told'
  OBVIOUS
<1>3. \A key \in Apollo!EventKey : Apollo!Answers(key)' = Apollo!Answers(key)
  BY SameAnswers
<1>4. Apollo!Shared' = Apollo!Shared
  BY DEF Apollo!Shared, Apollo!Holding, Apollo!KeyOf
<1>5. ToldAnswers'
  BY <1>3 DEF ToldAnswers
<1>6. Apollo!NoNil(events)' => told' = Apollo!FollowAll(moduleCopy, events)'
  <2>1. Apollo!FollowAll(moduleCopy', <<>>) = moduleCopy'
    BY <1>2, FollowNone
  <2> QED BY <1>1, <1>2, <2>1
<1>7. ApolloTypes'
  BY <1>2 DEF ApolloTypes
<1> QED BY <1>1, <1>4, <1>5, <1>6, <1>7 DEF CallbackFits, ChangesAnswer

LEMMA ApolloWatches == ApolloInv /\ Apollo!Watch => ApolloInv'
<1> SUFFICES ASSUME ApolloInv, Apollo!Watch PROVE ApolloInv'
  OBVIOUS
<1> USE DEF ApolloInv, Apollo!Watch
<1>1. callback = <<>> /\ events = <<>>
  BY DEF CallbackFits
<1>2. \A key \in Apollo!EventKey : Apollo!Answers(key)' = Apollo!Answers(key)
  BY SameAnswers
<1>3. Apollo!Shared' = Apollo!Shared
  BY DEF Apollo!Shared, Apollo!Holding, Apollo!KeyOf
<1>4. ToldAnswers'
  BY <1>1, <1>2 DEF ToldAnswers, Waits
<1>5. Apollo!NoNil(events)' => told' = Apollo!FollowAll(moduleCopy, events)'
  OBVIOUS
<1>6. ApolloTypes'
  BY DEF ApolloTypes
<1> QED BY <1>1, <1>3, <1>4, <1>5, <1>6 DEF CallbackFits, ChangesAnswer

LEMMA ApolloCleans == ApolloInv /\ Apollo!Cleanup => ApolloInv'
<1> SUFFICES ASSUME ApolloInv, Apollo!Cleanup PROVE ApolloInv'
  OBVIOUS
<1> USE DEF ApolloInv, Apollo!Cleanup
<1>1. \A key \in Apollo!EventKey : Apollo!Holding(key)' = {}
  BY DEF Apollo!Holding, Apollo!EventKey
<1>2. Apollo!Shared' = {}
  BY <1>1, SameCount, FS_EmptySet DEF Apollo!Shared
<1>3. Apollo!NoNil(events)' => told' = Apollo!FollowAll(moduleCopy, events)'
  OBVIOUS
<1>4. ApolloTypes'
  BY DEF ApolloTypes, Apollo!Fields
<1> QED BY <1>2, <1>3, <1>4 DEF CallbackFits, ToldAnswers, ChangesAnswer

\* The end of a callback: all it told of is told again, together, or a nil event
\* ends the program.
LEMMA ApolloTellsModule == ApolloInv /\ Apollo!OnModuleEvent => ApolloInv'
<1> SUFFICES ASSUME ApolloInv, Apollo!OnModuleEvent PROVE ApolloInv'
  OBVIOUS
<1>1. UNCHANGED <<ignoreNamespace, content, started, told, missed, apolloCleaned,
                  polls>>
  BY DEF Apollo!OnModuleEvent
<1>2. \A key \in Apollo!EventKey : Apollo!Answers(key)' = Apollo!Answers(key)
  BY <1>1, SameAnswers
<1>3. Apollo!Shared' = Apollo!Shared
  BY <1>1 DEF Apollo!Shared, Apollo!Holding, Apollo!KeyOf
<1>4. CASE Apollo!NoNil(events)
  <2> USE DEF ApolloInv
  <2>1. /\ moduleCopy' = told /\ told \in Apollo!Config
        /\ callback' = <<>> /\ events' = <<>> /\ callback # <<>> /\ callback[2] = <<>>
        /\ source' = source
    BY <1>4 DEF ApolloTypes, Apollo!OnModuleEvent
  <2>2. \A key : ~Waits(key)
    BY <2>1 DEF Waits
  <2>3. ToldAnswers'
    BY <1>1, <1>2, <1>4, <2>1, <2>2 DEF ToldAnswers
  <2>4. told' = Apollo!FollowAll(moduleCopy, events)'
    <3>1. Apollo!FollowAll(moduleCopy', <<>>) = moduleCopy'
      BY <2>1, FollowNone
    <3> QED BY <1>1, <2>1, <3>1
  <2>5. events' \in Seq(ApolloEvent \cup {Apollo!NilEvent})
    BY <2>1
  <2>6. ApolloTypes'
    BY <1>1, <2>1, <2>5 DEF ApolloTypes
  <2> QED BY <1>1, <1>3, <2>1, <2>3, <2>4, <2>6 DEF CallbackFits, ChangesAnswer
<1>5. CASE ~Apollo!NoNil(events)
  <2>1. source' = "panicked" /\ UNCHANGED <<callback, events, moduleCopy>>
    BY <1>5 DEF Apollo!OnModuleEvent
  <2>2. callback # <<>> /\ callback[2] = <<>>
    BY DEF Apollo!OnModuleEvent
  <2>3. ~Apollo!NoNil(events)'
    BY <1>5, <2>1 DEF Apollo!NoNil
  <2>4. ApolloTypes'
    BY <1>1, <2>1 DEF ApolloInv, ApolloTypes
  <2>5. ChangesAnswer'
    BY <2>1, <2>2 DEF ChangesAnswer
  <2> QED BY <1>1, <1>3, <2>1, <2>2, <2>3, <2>4, <2>5
          DEF ApolloInv, CallbackFits, ToldAnswers
<1> QED BY <1>4, <1>5

\* The events of a change are of its key and carry its value.
LEMMA EventOfChange ==
  ASSUME NEW change \in ApolloChange, NEW ns \in Namespace,
         NEW e \in Apollo!EventsOf(change, ns)
  PROVE  /\ e \in ApolloEvent
         /\ e.key = Apollo!KeyOf(ns, change.field)
         /\ change.type # Apollo!Unknown
         /\ e.type = Apollo!Delete <=> change.type = Apollo!DELETED
         /\ e.val = change.newValue
<1> USE DEF Apollo!ADDED, Apollo!MODIFIED, Apollo!DELETED, Apollo!Unknown,
            Apollo!Create, Apollo!Update, Apollo!Delete
<1>1. PICK t \in Apollo!TransformEventType(change.type) :
        e = Apollo!ConstructEvent("apollo", t, Apollo!KeyOf(ns, change.field),
                                  change.newValue)
  BY DEF Apollo!EventsOf
<1>2. \/ change.type = Apollo!ADDED /\ t = Apollo!Create
      \/ change.type = Apollo!MODIFIED /\ t = Apollo!Update
      \/ change.type = Apollo!DELETED /\ t = Apollo!Delete
  BY DEF Apollo!TransformEventType, ApolloChange
<1>3. change.field \in Field /\ change.newValue \in Value \cup {None}
  BY DEF ApolloChange
<1>4. Apollo!KeyOf(ns, change.field) \in Apollo!EventKey
  BY <1>3, KeyOfType
<1>5. /\ e.source = "apollo" /\ e.type = t /\ e.val = change.newValue
      /\ e.key = Apollo!KeyOf(ns, change.field)
  BY <1>1 DEF Apollo!ConstructEvent
<1>6. e \in ApolloEvent
  BY <1>1, <1>2, <1>3, <1>4 DEF Apollo!ConstructEvent, ApolloEvent
<1> QED BY <1>2, <1>5, <1>6

\* What is left of a list of changes when the first is taken off.
LEMMA ChangesLeft ==
  ASSUME NEW list \in Seq(ApolloChange), list # <<>>
  PROVE  /\ Head(list) = list[1] /\ 1 \in DOMAIN list
         /\ \A i \in DOMAIN list : list[i] \in ApolloChange
         /\ Tail(list) \in Seq(ApolloChange)
         /\ \A i \in DOMAIN Tail(list) :
              i + 1 \in DOMAIN list /\ Tail(list)[i] = list[i + 1]
         /\ \A i \in DOMAIN list : i # 1 =>
              i - 1 \in DOMAIN Tail(list) /\ list[i] = Tail(list)[i - 1]
<1>1. Tail(list) \in Seq(ApolloChange) /\ Len(Tail(list)) = Len(list) - 1
  BY HeadTailProperties
<1>2. DOMAIN list = 1..Len(list) /\ DOMAIN Tail(list) = 1..Len(Tail(list))
  BY <1>1, LenProperties
<1>3. \A i \in 1..Len(Tail(list)) : Tail(list)[i] = list[i + 1]
  BY HeadTailProperties
<1>4. Len(list) \in Nat /\ Len(list) # 0
  BY LenProperties, EmptySeq
<1>5. \A i \in DOMAIN list : list[i] \in ApolloChange
  BY <1>2, ElementOfSeq
<1>6. Head(list) = list[1]
  OBVIOUS
<1> QED BY <1>1, <1>2, <1>3, <1>4, <1>5, <1>6

\* One change of the callback is handled.
LEMMA ApolloUpdates == ApolloInv /\ Apollo!UpdateCallback => ApolloInv'
<1> SUFFICES ASSUME ApolloInv, Apollo!UpdateCallback PROVE ApolloInv'
  OBVIOUS
<1>1. PICK ns \in Namespace, list \in Seq(ApolloChange) :
        callback[1] = ns /\ callback[2] = list
  BY DEF Apollo!UpdateCallback, ApolloInv, ApolloTypes
<1>2. /\ callback # <<>> /\ list # <<>>
      /\ callback' = <<ns, Tail(list)>>
      /\ UNCHANGED <<ignoreNamespace, content, started, source, moduleCopy,
                     missed, apolloCleaned, polls>>
  BY <1>1 DEF Apollo!UpdateCallback
<1>3. callback' # <<>> /\ callback'[1] = ns /\ callback'[2] = Tail(list)
  BY <1>2
<1>4. \A i \in DOMAIN list : list[i] \in ApolloChange
  BY <1>2, ChangesLeft
<1>5. \A i \in DOMAIN list :
        Apollo!KeyOf(ns, list[i].field) \in Apollo!EventKey
  BY <1>4, KeyOfType DEF ApolloChange
<1>6. /\ \A k \in Apollo!EventKey : Apollo!Answers(k)' = Apollo!Answers(k)
      /\ Apollo!Shared' = Apollo!Shared
      /\ \A f : Apollo!KeyOf(ns, f)' = Apollo!KeyOf(ns, f)
  BY <1>2, SameAnswers DEF Apollo!Shared, Apollo!Holding, Apollo!KeyOf
<1>7. PICK key \in Apollo!EventKey : key = Apollo!KeyOf(ns, list[1].field)
  BY <1>2, <1>5, ChangesLeft
<1>8. \/ told' = told /\ events' = Append(events, Apollo!NilEvent)
      \/ \E e \in Apollo!EventsOf(list[1], ns) :
           told' = Apollo!Follow(told, e) /\ events' = Append(events, e)
  <2>1. Head(list) = list[1]
    BY <1>2, ChangesLeft
  <2> QED BY <1>1, <1>7, <2>1 DEF Apollo!UpdateCallback
<1>9. events \in Seq(ApolloEvent \cup {Apollo!NilEvent})
  BY DEF ApolloInv, ApolloTypes
<1>10. CallbackFits'
  BY <1>2, <1>3 DEF ApolloInv, CallbackFits
<1>11. ChangesAnswer'
  <2> SUFFICES ASSUME ~apolloCleaned, NEW i \in DOMAIN Tail(list)
               PROVE  ChangeAnswers(Tail(list)[i],
                                    Apollo!KeyOf(ns, Tail(list)[i].field))'
    BY <1>2, <1>3 DEF ChangesAnswer
  <2>1. i + 1 \in DOMAIN list /\ Tail(list)[i] = list[i + 1]
    BY <1>2, ChangesLeft
  <2>2. ChangeAnswers(list[i + 1], Apollo!KeyOf(ns, list[i + 1].field))
    BY <1>1, <1>2, <2>1 DEF ApolloInv, ChangesAnswer
  <2>3. PICK k \in Apollo!EventKey : k = Apollo!KeyOf(ns, list[i + 1].field)
    BY <1>5, <2>1
  <2>4. k = Apollo!KeyOf(ns, list[i + 1].field)'
    BY <1>6, <2>3
  <2> QED BY <1>2, <1>6, <2>1, <2>2, <2>3, <2>4 DEF ChangeAnswers
<1>12. \A k \in Apollo!EventKey :
         Waits(k) /\ k # key => Waits(k)'
  <2> SUFFICES ASSUME NEW k \in Apollo!EventKey, k # key,
                      NEW i \in DOMAIN list,
                      k = Apollo!KeyOf(ns, list[i].field)
               PROVE  Waits(k)'
    BY <1>1 DEF Waits
  <2>1. i # 1
    BY <1>7
  <2>2. i - 1 \in DOMAIN Tail(list) /\ list[i] = Tail(list)[i - 1]
    BY <1>2, <2>1, ChangesLeft
  <2>3. k = Apollo!KeyOf(ns, Tail(list)[i - 1].field)'
    BY <1>6, <2>2
  <2> QED BY <1>3, <2>2, <2>3 DEF Waits
<1>13. Tail(list) \in Seq(ApolloChange)
  BY <1>2, ChangesLeft
<1>14. CASE told' = told /\ events' = Append(events, Apollo!NilEvent)
  <2>1. /\ events' \in Seq(ApolloEvent \cup {Apollo!NilEvent})
        /\ ~Apollo!NoNil(events')
    BY <1>9, <1>14, AppendNoNil
  <2>2. ~Apollo!NoNil(events)'
    BY <2>1 DEF Apollo!NoNil
  <2>3. ApolloTypes'
    BY <1>2, <1>3, <1>13, <1>14, <2>1 DEF ApolloInv, ApolloTypes
  <2> QED BY <1>2, <1>6, <1>10, <1>11, <2>2, <2>3 DEF ApolloInv, ToldAnswers
<1>15. ASSUME NEW e \in Apollo!EventsOf(list[1], ns),
              told' = Apollo!Follow(told, e),
              events' = Append(events, e)
       PROVE  ApolloInv'
  <2>1. 1 \in DOMAIN list /\ list[1] \in ApolloChange
    BY <1>2, <1>4, ChangesLeft
  <2>2. /\ e \in ApolloEvent /\ e.key = key
        /\ list[1].type # Apollo!Unknown
        /\ e.type = Apollo!Delete <=> list[1].type = Apollo!DELETED
        /\ e.val = list[1].newValue
    BY <1>7, <2>1, EventOfChange
  <2>3. told \in Apollo!Config /\ moduleCopy \in Apollo!Config
    BY DEF ApolloInv, ApolloTypes
  <2>4. /\ told' \in Apollo!Config
        /\ \A k \in Apollo!EventKey \ {key} : told'[k] = told[k]
        /\ told'[key] = IF e.type = Apollo!Delete THEN None ELSE e.val
    BY <1>15, <2>2, <2>3, ApolloFollowType
  <2>5. /\ events' \in Seq(ApolloEvent \cup {Apollo!NilEvent})
        /\ Apollo!NoNil(events)' => Apollo!NoNil(events)
    <3>1. /\ events' \in Seq(ApolloEvent \cup {Apollo!NilEvent})
          /\ Apollo!NoNil(events') => Apollo!NoNil(events)
      BY <1>9, <1>15, <2>2, AppendNoNil
    <3>2. Apollo!NoNil(events)' => Apollo!NoNil(events')
      BY DEF Apollo!NoNil
    <3> QED BY <3>1, <3>2
  <2>6. ToldAnswers'
    <3> SUFFICES ASSUME ~apolloCleaned, source # "new", Apollo!NoNil(events),
                        NEW k \in Apollo!EventKey, k \notin missed
                 PROVE  told'[k] \in Apollo!Answers(k) \/ Waits(k)'
      BY <1>2, <1>6, <2>5 DEF ToldAnswers
    <3>1. CASE k # key
      BY <1>12, <2>4, <3>1 DEF ApolloInv, ToldAnswers
    <3>2. CASE k = key
      <4>1. ChangeAnswers(list[1], key)
        BY <1>1, <1>2, <1>7, <2>1 DEF ApolloInv, ChangesAnswer
      <4> QED BY <2>2, <2>4, <3>2, <4>1 DEF ChangeAnswers
    <3> QED BY <3>1, <3>2
  <2>7. Apollo!NoNil(events)' => told' = Apollo!FollowAll(moduleCopy, events)'
    <3> SUFFICES ASSUME Apollo!NoNil(events)
                 PROVE  told' = Apollo!FollowAll(moduleCopy, events)'
      BY <2>5
    <3>1. events \in Seq(ApolloEvent)
      BY <1>9, EventsNoneNil
    <3> QED BY <1>2, <1>15, <2>2, <2>3, <3>1, FollowOneMore DEF ApolloInv
  <2>8. ApolloTypes'
    BY <1>2, <1>3, <1>13, <2>4, <2>5 DEF ApolloInv, ApolloTypes
  <2> QED BY <1>2, <1>6, <1>10, <1>11, <2>6, <2>7, <2>8 DEF ApolloInv
<1> QED BY <1>8, <1>14, <1>15

\* A key whose field did not change in the namespace polled has its answers.
LEMMA PolledOthers ==
  ASSUME NEW ns \in Namespace, NEW new \in Apollo!Fields, ApolloTypes,
         content' = [content EXCEPT ![ns] = new],
         ignoreNamespace' = ignoreNamespace,
         NEW key \in Apollo!EventKey,
         \A f \in Field : new[f] # content[ns][f] => key # Apollo!KeyOf(ns, f)
  PROVE  Apollo!Answers(key)' = Apollo!Answers(key)
<1>1. key[2] \in Field
  BY DEF Apollo!EventKey
<1>2. \A m \in Namespace :
        Apollo!KeyOf(m, key[2]) = key => content'[m][key[2]] = content[m][key[2]]
  BY <1>1 DEF ApolloTypes
<1> QED BY <1>2, SameAnswers

\* A key whose field changed is answered with what it has now, unless another
\* namespace has the key, now or before.
LEMMA PolledField ==
  ASSUME NEW ns \in Namespace, NEW new \in Apollo!Fields, ApolloTypes,
         content' = [content EXCEPT ![ns] = new],
         ignoreNamespace' = ignoreNamespace,
         NEW f \in Field, new[f] # content[ns][f],
         NEW key, key = Apollo!KeyOf(ns, f),
         key \notin Apollo!Shared, key \notin Apollo!Shared'
  PROVE  Apollo!Answers(key)' = {new[f]}
<1>1. key \in Apollo!EventKey /\ key[2] = f /\ Apollo!KeyOf(ns, f)' = key
  BY KeyOfType DEF Apollo!KeyOf
<1>2. \A m, n \in Apollo!Holding(key) : m = n
  <2>1. Apollo!Holding(key) \subseteq Namespace
    BY DEF Apollo!Holding
  <2>2. ~(Cardinality(Apollo!Holding(key)) > 1)
    BY <1>1, SameCount DEF Apollo!Shared
  <2> QED BY <2>1, <2>2, OneHolder
<1>3. \A m, n \in Apollo!Holding(key)' : m = n
  <2>1. Apollo!Holding(key)' \subseteq Namespace
    BY DEF Apollo!Holding
  <2>2. ~(Cardinality(Apollo!Holding(key)') > 1)
    BY <1>1, SameCount DEF Apollo!Shared
  <2> QED BY <2>1, <2>2, OneHolder
<1>4. content'[ns][f] = new[f]
  BY DEF ApolloTypes
<1>5. \A m \in Namespace \ {ns} :
        m \in Apollo!Holding(key)' <=> m \in Apollo!Holding(key)
  <2>1. \A m \in Namespace \ {ns} : content'[m] = content[m]
    BY DEF ApolloTypes
  <2> QED BY <2>1 DEF Apollo!Holding, Apollo!KeyOf
<1>6. CASE new[f] # None
  <2>1. ns \in Apollo!Holding(key)'
    BY <1>1, <1>4, <1>6 DEF Apollo!Holding
  <2>2. Apollo!Holding(key)' = {ns}
    BY <1>3, <2>1
  <2> QED BY <1>1, <1>4, <2>2 DEF Apollo!Answers
<1>7. CASE new[f] = None
  <2>1. ns \in Apollo!Holding(key)
    BY <1>1, <1>7 DEF Apollo!Holding
  <2>2. \A m \in Apollo!Holding(key)' : m \in Namespace /\ m # ns
    BY <1>1, <1>4, <1>7 DEF Apollo!Holding
  <2>3. Apollo!Holding(key)' = {}
    BY <1>2, <1>5, <2>1, <2>2
  <2> QED BY <1>7, <2>3 DEF Apollo!Answers
<1> QED BY <1>6, <1>7

\* A poll found changes: the callback tells of all of them, or, if the source
\* does not watch, none is.
LEMMA ApolloPolls ==
  ASSUME NEW ns \in Namespace, NEW new \in Apollo!Fields
  PROVE  ApolloInv /\ Apollo!Poll(ns, new) => ApolloInv'
<1> SUFFICES ASSUME ApolloInv, Apollo!Poll(ns, new) PROVE ApolloInv'
  OBVIOUS
<1>1. /\ UNCHANGED <<ignoreNamespace, started, source, events, told, moduleCopy,
                     apolloCleaned>>
      /\ polls' \in 0..MaxPolls
      /\ callback = <<>>
      /\ content' = [content EXCEPT ![ns] = new]
  BY ApolloAssumption DEF Apollo!Poll, ApolloInv, ApolloTypes
<1>2. ApolloTypes /\ content' \in [Namespace -> Apollo!Fields]
  BY <1>1 DEF ApolloInv, ApolloTypes
<1>3. Apollo!NoNil(events)' => told' = Apollo!FollowAll(moduleCopy, events)'
  BY <1>1 DEF ApolloInv
<1>4. Apollo!Shared \subseteq missed /\ Apollo!Shared' \subseteq Apollo!EventKey
  BY DEF ApolloInv, Apollo!Shared
<1>5. \A key \in Apollo!EventKey \ missed :
        ~apolloCleaned /\ source # "new" => told[key] \in Apollo!Answers(key)
  <2>1. Apollo!NoNil(events)
    BY <1>1, NoneIsNil DEF ApolloInv, CallbackFits
  <2> QED BY <1>1, <2>1 DEF ApolloInv, ToldAnswers, Waits
<1>6. CASE source = "watched"
  <2>1. PICK list \in Apollo!ChangeLists(content[ns], new) :
          callback' = <<ns, list>> /\ missed' = missed \cup Apollo!Shared'
    BY <1>6 DEF Apollo!Poll
  <2>2. content[ns] \in Apollo!Fields
    BY <1>2 DEF ApolloTypes
  <2>3. /\ list \in Seq(ApolloChange)
        /\ \A i \in DOMAIN list :
             list[i] \in Apollo!Change(content[ns], new, list[i].field)
        /\ \A i \in DOMAIN list :
             content[ns][list[i].field] # new[list[i].field]
        /\ \A f \in Field : content[ns][f] # new[f] =>
             \E i \in DOMAIN list : list[i].field = f
    BY <2>2, ListSaysAll
  <2>4. callback' # <<>> /\ callback'[1] = ns /\ callback'[2] = list
    BY <2>1
  <2>5. \A f : Apollo!KeyOf(ns, f)' = Apollo!KeyOf(ns, f)
    BY <1>1 DEF Apollo!KeyOf
  <2>6. ToldAnswers'
    <3> SUFFICES ASSUME NEW key \in Apollo!EventKey, key \notin missed',
                        ~apolloCleaned, ~Waits(key)'
                 PROVE  told[key] \in Apollo!Answers(key)'
      BY <1>1 DEF ToldAnswers
    <3>1. \A f \in Field : new[f] # content[ns][f] => key # Apollo!KeyOf(ns, f)
      BY <2>3, <2>4, <2>5 DEF Waits
    <3>2. Apollo!Answers(key)' = Apollo!Answers(key)
      BY <1>1, <1>2, <3>1, PolledOthers
    <3> QED BY <1>5, <1>6, <2>1, <3>2
  <2>7. ChangesAnswer'
    <3> SUFFICES ASSUME NEW i \in DOMAIN list
                 PROVE  ChangeAnswers(list[i], Apollo!KeyOf(ns, list[i].field))'
      BY <2>4 DEF ChangesAnswer
    <3>1. list[i] \in ApolloChange
      BY <2>3, ElementOfSeq, LenProperties
    <3>2. PICK f \in Field : f = list[i].field
      BY <3>1 DEF ApolloChange
    <3>3. PICK key \in Apollo!EventKey : key = Apollo!KeyOf(ns, f)
      BY KeyOfType
    <3>4. list[i].newValue = new[f]
      BY <2>3, <3>2 DEF Apollo!Change
    <3>5. key \notin missed' => Apollo!Answers(key)' = {new[f]}
      <4> SUFFICES ASSUME key \notin missed'
                   PROVE  Apollo!Answers(key)' = {new[f]}
        OBVIOUS
      <4>1. key \notin Apollo!Shared /\ key \notin Apollo!Shared'
        BY <1>4, <2>1
      <4>2. new[f] # content[ns][f]
        BY <2>3, <3>2
      <4> QED BY <1>1, <1>2, <3>3, <4>1, <4>2, PolledField
    <3>6. list[i].type # Apollo!Unknown =>
            (list[i].type = Apollo!DELETED <=> new[f] = None)
      BY <2>3, <3>2 DEF Apollo!Change, Apollo!ADDED, Apollo!MODIFIED,
                        Apollo!DELETED, Apollo!Unknown
    <3>7. Apollo!KeyOf(ns, list[i].field)' = key
      BY <2>5, <3>2, <3>3
    <3> QED BY <3>4, <3>5, <3>6, <3>7 DEF ChangeAnswers
  <2>8. ApolloTypes'
    BY <1>1, <1>2, <1>4, <2>1, <2>3, <2>4 DEF ApolloTypes
  <2>9. CallbackFits'
    BY <1>1, <1>6, <2>4 DEF CallbackFits
  <2> QED BY <1>3, <2>1, <2>6, <2>7, <2>8, <2>9 DEF ApolloInv
<1>7. CASE source # "watched"
  <2>1. /\ callback' = callback
        /\ missed' = missed \cup Apollo!Shared' \cup
             {Apollo!KeyOf(ns, f) : f \in {g \in Field : new[g] # content[ns][g]}}
    <3>1. \A f : Apollo!KeyOf(ns, f)' = Apollo!KeyOf(ns, f)
      BY <1>1 DEF Apollo!KeyOf
    <3> QED BY <1>7, <3>1 DEF Apollo!Poll
  <2>2. missed' \subseteq Apollo!EventKey
    BY <1>2, <1>4, <2>1, KeyOfType DEF ApolloTypes
  <2>3. ToldAnswers'
    <3> SUFFICES ASSUME NEW key \in Apollo!EventKey, key \notin missed',
                        ~apolloCleaned, source # "new"
                 PROVE  told[key] \in Apollo!Answers(key)'
      BY <1>1 DEF ToldAnswers
    <3>1. \A f \in Field : new[f] # content[ns][f] => key # Apollo!KeyOf(ns, f)
      BY <2>1
    <3>2. Apollo!Answers(key)' = Apollo!Answers(key)
      BY <1>1, <1>2, <3>1, PolledOthers
    <3> QED BY <1>5, <2>1, <3>2
  <2>4. ApolloTypes'
    BY <1>1, <1>2, <2>1, <2>2 DEF ApolloTypes
  <2>5. CallbackFits' /\ ChangesAnswer'
    BY <1>1, <2>1 DEF ApolloInv, CallbackFits, ChangesAnswer
  <2> QED BY <1>3, <2>1, <2>3, <2>4, <2>5 DEF ApolloInv
<1> QED BY <1>6, <1>7

LEMMA ApolloStill ==
  ApolloInv /\ UNCHANGED apolloVars => ApolloInv'
<1> SUFFICES ASSUME ApolloInv, UNCHANGED apolloVars PROVE ApolloInv'
  OBVIOUS
<1> USE DEF apolloVars
<1>1. \A key \in Apollo!EventKey : Apollo!Answers(key)' = Apollo!Answers(key)
  BY SameAnswers
<1>2. Apollo!Shared' = Apollo!Shared
  BY DEF Apollo!Shared, Apollo!Holding, Apollo!KeyOf
<1>3. ApolloTypes' /\ CallbackFits'
  BY DEF ApolloInv, ApolloTypes, CallbackFits
<1>4. Apollo!NoNil(events)' => told' = Apollo!FollowAll(moduleCopy, events)'
  BY DEF ApolloInv
<1>5. \A m, f : Apollo!KeyOf(m, f)' = Apollo!KeyOf(m, f)
  BY DEF Apollo!KeyOf
<1>6. ToldAnswers'
  BY <1>1, <1>5 DEF ApolloInv, ToldAnswers, Waits
<1>7. ChangesAnswer'
  <2> SUFFICES ASSUME ~apolloCleaned, callback # <<>>
               PROVE  ChangesAnswer'
    BY DEF ChangesAnswer
  <2>1. PICK ns \in Namespace, list \in Seq(ApolloChange) :
          callback[1] = ns /\ callback[2] = list
    BY DEF ApolloInv, ApolloTypes
  <2> SUFFICES ASSUME NEW i \in DOMAIN list
               PROVE  ChangeAnswers(list[i], Apollo!KeyOf(ns, list[i].field))'
    BY <2>1 DEF ChangesAnswer
  <2>2. ChangeAnswers(list[i], Apollo!KeyOf(ns, list[i].field))
    BY <2>1 DEF ApolloInv, ChangesAnswer
  <2>3. list[i] \in ApolloChange
    BY ElementOfSeq, LenProperties
  <2>4. PICK key \in Apollo!EventKey : key = Apollo!KeyOf(ns, list[i].field)
    BY <2>3, KeyOfType DEF ApolloChange
  <2>5. key = Apollo!KeyOf(ns, list[i].field)'
    BY <1>5, <2>4
  <2> QED BY <1>1, <2>2, <2>4, <2>5 DEF ChangeAnswers
<1> QED BY <1>2, <1>3, <1>4, <1>6, <1>7 DEF ApolloInv

-----------------------------------------------------------------------------
(***************************************************************************)
(* The config center source.                                               *)
(***************************************************************************)

\* What is proved of PopulateEvents, for the values of the config center.
CCTool == INSTANCE EventToolProofs WITH Value <- CCValue

LEMMA SameTool ==
  /\ CC!Config = CCTool!Config
  /\ CC!EventFrom({Name}) = CCTool!EventFrom({Name})
  /\ \A c, d : CC!PopulateEvents(Name, c, d) = CCTool!PopulateEvents(Name, c, d)
  /\ \A e, c : CC!Fits(e, c) <=> CCTool!Fits(e, c)
  /\ CC!Delete = CCTool!Delete
BY DEF CC!Config, CC!EventFrom, CC!PopulateEvents, CC!Fits, CC!ConstructEvent,
       CC!Create, CC!Update, CC!Delete, CCTool!Config, CCTool!EventFrom,
       CCTool!PopulateEvents, CCTool!Fits, CCTool!ConstructEvent, CCTool!Create,
       CCTool!Update, CCTool!Delete

\* The events of a pull or a message.
LEMMA CCEvents ==
  ASSUME NEW cur \in CC!Config, NEW upd \in CC!Config
  PROVE  LET S == CC!PopulateEvents(Name, cur, upd)
         IN /\ S \in SUBSET CC!EventFrom({Name})
            /\ \A e \in S : upd[e.key] = IF e.type = CC!Delete THEN None ELSE e.val
            /\ \A k \in Key : cur[k] # upd[k] => \E e \in S : e.key = k
            /\ \A e \in S : CC!Fits(e, cur)
            /\ \A e, f \in S : e.key = f.key => e = f
<1>1. None \notin CCValue
  BY ConfigCenterAssumption
<1> QED BY <1>1, SameTool, CCTool!PopulateEventsType,
           CCTool!PopulateEventsComplete, CCTool!PopulateEventsFit

\* What is told of a key last is what is in use.
CCTellsCurrent ==
  /\ \A k \in Key \ heard :
       ccCopy[k] = ccCurrent[k] \/ \E e \in ccPending : e.key = k
  /\ \A e \in ccPending :
       ccCurrent[e.key] = IF e.type = CC!Delete THEN None ELSE e.val

\* What is still to be told makes sense, but of keys that were heard of.
CCTellsFitting ==
  /\ \A e \in ccPending \cup announced : e.key \in heard \/ CC!Fits(e, ccCopy)
  /\ \A e, f \in ccPending : e.key = f.key => e = f
  /\ \A e, f \in announced : e.key = f.key => e = f

\* The lock: no pull tells while a message does.
OneTells == ccPending = {} \/ announced = {}

\* Nothing is watched in interval mode.
NothingHeard ==
  ccRefreshMode = CC!ModeInterval =>
    watcher = "off" /\ messages = <<>> /\ announced = {}

CCInv ==
  /\ CC!CCTypeOK /\ OneTells /\ NothingHeard
  /\ ~torn => CCTellsCurrent /\ CCTellsFitting

LEMMA CCInitInv == CC!CCInit => CCInv
<1> SUFFICES ASSUME CC!CCInit PROVE CCInv
  OBVIOUS
<1> USE DEF CC!CCInit, CC!Init
<1>1. CC!EmptyConfig \in CC!Config
  BY DEF CC!EmptyConfig, CC!Config
<1>2. messages \in Seq(CC!Config \cup {Malformed})
  OBVIOUS
<1>3. /\ 0 \in 0..MaxChanges /\ 0 \in 0..MaxMalformed
      /\ watcher \in {"off", "pull", "dial", "open", "closed"}
      /\ groups \in [Group -> CC!Config]
      /\ fetched \in [CC!Goroutine -> CC!Config \cup {NoConfig}]
  BY <1>1, ConfigCenterAssumption
<1>4. CC!CCTypeOK
  BY <1>1, <1>2, <1>3 DEF CC!CCTypeOK, CC!TypeOK
<1>5. NothingHeard
  BY DEF NothingHeard, CC!ModeInterval, CC!ModeWatch
<1> QED BY <1>4, <1>5 DEF CCInv, OneTells, CCTellsCurrent, CCTellsFitting

\* A pull is put into use when everything has been told: it is compared with
\* what the Manager knows, but for the keys that were heard of.
LEMMA CCRefreshes ==
  ASSUME NEW g \in CC!Goroutine
  PROVE  CCInv /\ CC!RefreshConfigurations(g) => CCInv'
<1> SUFFICES ASSUME CCInv, CC!RefreshConfigurations(g) PROVE CCInv'
  OBVIOUS
<1> DEFINE pull == fetched[g]
<1>1. /\ pull # NoConfig /\ announced = {} /\ ccPending = {}
      /\ ccPending' = CC!PopulateEvents(Name, ccCurrent, pull)
      /\ ccCurrent' = pull /\ ccCopy' = ccCopy
      /\ fetched' = [fetched EXCEPT ![g] = NoConfig]
      /\ firing' = IF ccPending' = {} THEN Nobody ELSE g
      /\ UNCHANGED <<ccRefreshMode, groups, changes, watcher, messages, announced,
                     heard, torn, ccCleaned, malformed>>
  BY DEF CC!RefreshConfigurations, CC!UpdateConfigAndFireEvent, CC!server, CC!link
<1>2. CC!CCTypeOK
  BY DEF CCInv
<1>3. pull \in CC!Config /\ ccCurrent \in CC!Config
  BY <1>1, <1>2 DEF CC!CCTypeOK, CC!TypeOK
<1> HIDE DEF pull
<1>4. /\ ccPending' \in SUBSET CC!EventFrom({Name})
      /\ \A e \in ccPending' :
           ccCurrent'[e.key] = IF e.type = CC!Delete THEN None ELSE e.val
      /\ \A k \in Key : ccCurrent[k] # ccCurrent'[k] =>
           \E e \in ccPending' : e.key = k
      /\ \A e \in ccPending' : CC!Fits(e, ccCurrent)
      /\ \A e, f \in ccPending' : e.key = f.key => e = f
  BY <1>1, <1>3, CCEvents
<1>5. g # Nobody
  BY ConfigCenterAssumption DEF CC!Goroutine, CC!Caller, CC!Watcher
<1>6. CC!CCTypeOK'
  BY <1>1, <1>2, <1>3, <1>4, <1>5 DEF CC!CCTypeOK, CC!TypeOK
<1>7. ~torn => CCTellsCurrent'
  BY <1>1, <1>4 DEF CCInv, CCTellsCurrent
<1>8. ~torn => CCTellsFitting'
  <2> SUFFICES ASSUME ~torn, NEW e \in ccPending', e.key \notin heard
               PROVE  CC!Fits(e, ccCopy)
    BY <1>1, <1>4 DEF CCTellsFitting
  <2>1. e.key \in Key
    BY <1>4 DEF CC!EventFrom
  <2>2. ccCopy[e.key] = ccCurrent[e.key]
    BY <1>1, <2>1 DEF CCInv, CCTellsCurrent
  <2> QED BY <1>4, <2>2 DEF CC!Fits
<1> QED BY <1>1, <1>6, <1>7, <1>8 DEF CCInv, OneTells, NothingHeard

\* What an event leaves of a configuration.
LEMMA CCFollowed ==
  ASSUME NEW c \in CC!Config, NEW e \in CC!EventFrom({Name})
  PROVE  /\ e.key \in Key
         /\ CC!Follow(c, e) \in CC!Config
         /\ \A k \in Key : CC!Follow(c, e)[k] =
              IF k # e.key THEN c[k]
              ELSE IF e.type = CC!Delete THEN None ELSE e.val
BY DEF CC!Follow, CC!Config, CC!EventFrom

LEMMA CCTakes == CCInv /\ CC!TakeEvent => CCInv'
<1> SUFFICES ASSUME CCInv, CC!TakeEvent PROVE CCInv'
  OBVIOUS
<1>1. PICK e \in ccPending :
        /\ ccPending' = ccPending \ {e} /\ ccCopy' = CC!Follow(ccCopy, e)
        /\ ccCurrent' = ccCurrent
        /\ firing' = IF ccPending' = {} THEN Nobody ELSE firing
        /\ UNCHANGED <<ccRefreshMode, groups, changes, fetched, watcher, messages,
                       announced, heard, torn, ccCleaned, malformed>>
  BY DEF CC!TakeEvent, CC!OnEvent, CC!server, CC!link
<1>2. CC!CCTypeOK
  BY DEF CCInv
<1>3. e \in CC!EventFrom({Name}) /\ ccCopy \in CC!Config
  BY <1>2 DEF CC!CCTypeOK, CC!TypeOK
<1>4. /\ e.key \in Key /\ ccCopy' \in CC!Config
      /\ \A k \in Key : ccCopy'[k] =
           IF k # e.key THEN ccCopy[k]
           ELSE IF e.type = CC!Delete THEN None ELSE e.val
  BY <1>1, <1>3, CCFollowed
<1>5. CC!CCTypeOK'
  BY <1>1, <1>2, <1>4 DEF CC!CCTypeOK, CC!TypeOK
<1>6. announced = {}
  BY <1>1 DEF CCInv, OneTells
<1>7. ~torn => CCTellsCurrent'
  BY <1>1, <1>4 DEF CCInv, CCTellsCurrent
<1>8. ~torn => CCTellsFitting'
  <2> SUFFICES ASSUME ~torn, NEW f \in ccPending', f.key \notin heard
               PROVE  CC!Fits(f, ccCopy)'
    BY <1>1, <1>6 DEF CCInv, CCTellsFitting
  <2>1. f.key # e.key /\ CC!Fits(f, ccCopy)
    BY <1>1 DEF CCInv, CCTellsFitting
  <2>2. f.key \in Key
    BY <1>1, <1>2 DEF CC!CCTypeOK, CC!TypeOK, CC!EventFrom
  <2>3. ccCopy'[f.key] = ccCopy[f.key]
    BY <1>4, <2>1, <2>2
  <2> QED BY <2>1, <2>3 DEF CC!Fits
<1> QED BY <1>1, <1>5, <1>6, <1>7, <1>8 DEF CCInv, OneTells, NothingHeard

\* A message is read when everything has been told.
LEMMA CCReads == CCInv /\ CC!ReadMessage => CCInv'
<1> SUFFICES ASSUME CCInv, CC!ReadMessage PROVE CCInv'
  OBVIOUS
<1>1. /\ messages # <<>> /\ announced = {} /\ messages' = Tail(messages)
      /\ UNCHANGED <<ccCurrent, ccPending, ccCopy, ccRefreshMode, groups, changes,
                     fetched, firing, watcher, heard, torn, ccCleaned, malformed>>
  BY DEF CC!ReadMessage, CC!vars, CC!server
<1>2. CC!CCTypeOK
  BY DEF CCInv
<1>3. /\ Head(messages) \in CC!Config \cup {Malformed}
      /\ Tail(messages) \in Seq(CC!Config \cup {Malformed})
  BY <1>1, <1>2, HeadTailProperties DEF CC!CCTypeOK
<1>4. ccRefreshMode # CC!ModeInterval
  BY <1>1 DEF CCInv, NothingHeard
<1>5. CASE UNCHANGED announced
  <2>1. CC!CCTypeOK'
    BY <1>1, <1>2, <1>3, <1>5 DEF CC!CCTypeOK, CC!TypeOK
  <2> QED BY <1>1, <1>4, <1>5, <2>1
          DEF CCInv, OneTells, NothingHeard, CCTellsCurrent, CCTellsFitting
<1>6. CASE /\ Head(messages) # Malformed /\ ccPending = {}
           /\ announced' = CC!PopulateEvents(Name, ccCurrent, Head(messages))
  <2>1. ccCurrent \in CC!Config /\ Head(messages) \in CC!Config
    BY <1>2, <1>3, <1>6 DEF CC!CCTypeOK, CC!TypeOK
  <2>2. /\ announced' \in SUBSET CC!EventFrom({Name})
        /\ \A e \in announced' : CC!Fits(e, ccCurrent)
        /\ \A e, f \in announced' : e.key = f.key => e = f
    BY <1>6, <2>1, CCEvents
  <2>3. CC!CCTypeOK'
    BY <1>1, <1>2, <1>3, <2>2 DEF CC!CCTypeOK, CC!TypeOK
  <2>4. ~torn => CCTellsFitting'
    <3> SUFFICES ASSUME ~torn, NEW e \in announced', e.key \notin heard
                 PROVE  CC!Fits(e, ccCopy)
      BY <1>1, <1>6, <2>2 DEF CCTellsFitting
    <3>1. e.key \in Key
      BY <2>2 DEF CC!EventFrom
    <3>2. ccCopy[e.key] = ccCurrent[e.key]
      BY <1>6, <3>1 DEF CCInv, CCTellsCurrent
    <3> QED BY <2>2, <3>2 DEF CC!Fits
  <2> QED BY <1>1, <1>4, <1>6, <2>3, <2>4
          DEF CCInv, OneTells, NothingHeard, CCTellsCurrent
<1> QED BY <1>5, <1>6 DEF CC!ReadMessage

LEMMA CCHears == CCInv /\ CC!TakeAnnounced => CCInv'
<1> SUFFICES ASSUME CCInv, CC!TakeAnnounced PROVE CCInv'
  OBVIOUS
<1>1. PICK e \in announced :
        /\ announced' = announced \ {e} /\ ccCopy' = CC!Follow(ccCopy, e)
        /\ heard' = heard \cup {e.key}
        /\ UNCHANGED <<ccCurrent, ccPending, ccRefreshMode, groups, changes,
                       fetched, firing, watcher, messages, torn, ccCleaned,
                       malformed>>
  BY DEF CC!TakeAnnounced, CC!server
<1>2. CC!CCTypeOK
  BY DEF CCInv
<1>3. e \in CC!EventFrom({Name}) /\ ccCopy \in CC!Config
  BY <1>2 DEF CC!CCTypeOK, CC!TypeOK
<1>4. /\ e.key \in Key /\ ccCopy' \in CC!Config
      /\ \A k \in Key \ {e.key} : ccCopy'[k] = ccCopy[k]
  BY <1>1, <1>3, CCFollowed
<1>5. CC!CCTypeOK'
  BY <1>1, <1>2, <1>4 DEF CC!CCTypeOK, CC!TypeOK
<1>6. ccPending = {}
  BY <1>1 DEF CCInv, OneTells
<1>7. ~torn => CCTellsCurrent'
  BY <1>1, <1>4, <1>6 DEF CCInv, CCTellsCurrent
<1>8. ~torn => CCTellsFitting'
  <2> SUFFICES ASSUME ~torn, NEW f \in announced', f.key \notin heard'
               PROVE  CC!Fits(f, ccCopy)'
    BY <1>1, <1>6 DEF CCInv, CCTellsFitting
  <2>1. f.key # e.key /\ CC!Fits(f, ccCopy)
    BY <1>1 DEF CCInv, CCTellsFitting
  <2>2. f.key \in Key
    BY <1>1, <1>2 DEF CC!CCTypeOK, CC!EventFrom
  <2>3. ccCopy'[f.key] = ccCopy[f.key]
    BY <1>4, <2>1, <2>2
  <2> QED BY <2>1, <2>3 DEF CC!Fits
<1>9. NothingHeard'
  BY <1>1 DEF CCInv, NothingHeard
<1> QED BY <1>1, <1>5, <1>6, <1>7, <1>8, <1>9 DEF CCInv, OneTells

\* Cleanup between two changes leaves nothing in use and nothing known.
LEMMA CCCleans == CCInv /\ CC!CCCleanup => CCInv'
<1> SUFFICES ASSUME CCInv, CC!CCCleanup PROVE CCInv'
  OBVIOUS
<1>1. /\ torn' = (ccPending # {} \/ announced # {})
      /\ ccCurrent' = CC!EmptyConfig /\ ccCopy' = CC!EmptyConfig
      /\ ccCleaned' = TRUE
      /\ UNCHANGED <<ccPending, ccRefreshMode, groups, changes, fetched, firing,
                     watcher, messages, announced, heard, malformed>>
  BY DEF CC!CCCleanup, CC!server, CC!link
<1>2. CC!CCTypeOK
  BY DEF CCInv
<1>3. CC!EmptyConfig \in CC!Config
  BY DEF CC!EmptyConfig, CC!Config
<1>4. CC!CCTypeOK'
  BY <1>1, <1>2, <1>3 DEF CC!CCTypeOK, CC!TypeOK
<1>5. ~torn' => CCTellsCurrent' /\ CCTellsFitting'
  BY <1>1 DEF CCTellsCurrent, CCTellsFitting
<1> QED BY <1>1, <1>4, <1>5 DEF CCInv, OneTells, NothingHeard

\* Cleanup within a change tears it; the types are left.
LEMMA CCCleansWithin ==
  ASSUME NEW g \in CC!Goroutine
  PROVE  CCInv /\ CC!CleanupWithin(g) => CCInv'
<1> SUFFICES ASSUME CCInv, CC!CleanupWithin(g) PROVE CCInv'
  OBVIOUS
<1>1. /\ fetched[g] # NoConfig /\ announced = {} /\ torn' = TRUE
      /\ ccPending' = CC!PopulateEvents(Name, ccCurrent, fetched[g])
      /\ ccCurrent' = fetched[g] /\ ccCopy' = CC!EmptyConfig
      /\ fetched' = [fetched EXCEPT ![g] = NoConfig]
      /\ firing' = IF ccPending' = {} THEN Nobody ELSE g
      /\ ccCleaned' = TRUE
      /\ UNCHANGED <<ccRefreshMode, groups, changes, watcher, messages, announced,
                     heard, malformed>>
  BY DEF CC!CleanupWithin, CC!server, CC!link
<1>2. CC!CCTypeOK
  BY DEF CCInv
<1>3. fetched[g] \in CC!Config /\ ccCurrent \in CC!Config
  BY <1>1, <1>2 DEF CC!CCTypeOK, CC!TypeOK
<1>4. ccPending' \in SUBSET CC!EventFrom({Name})
  BY <1>1, <1>3, CCEvents
<1>5. CC!EmptyConfig \in CC!Config
  BY DEF CC!EmptyConfig, CC!Config
<1>6. g # Nobody
  BY ConfigCenterAssumption DEF CC!Goroutine, CC!Caller, CC!Watcher
<1>7. CC!CCTypeOK'
  BY <1>1, <1>2, <1>3, <1>4, <1>5, <1>6 DEF CC!CCTypeOK, CC!TypeOK
<1> QED BY <1>1, <1>7 DEF CCInv, OneTells, NothingHeard

\* The steps that tell nothing and use nothing.
CCOthers ==
  \/ \E g \in Group, k \in Key, v \in CCValue \cup {None} : CC!Change(g, k, v)
  \/ \E g \in CC!Goroutine : CC!PullConfigs(g) \/ CC!PullFails(g)
  \/ CC!SendMalformed \/ CC!Dial \/ CC!Disconnect

LEMMA CCOthersInv == CCInv /\ CCOthers => CCInv'
<1> SUFFICES ASSUME CCInv, CCOthers PROVE CCInv'
  OBVIOUS
<1>1. CC!CCTypeOK
  BY DEF CCInv
<1>2. UNCHANGED <<ccCurrent, ccPending, ccCopy, ccRefreshMode, firing, announced,
                  heard, torn, ccCleaned>>
  BY DEF CCOthers, CC!Change, CC!PullConfigs, CC!PullFails, CC!MayPull,
         CC!SendMalformed, CC!Dial, CC!Disconnect, CC!vars, CC!server
<1>3. ASSUME NEW g \in Group, NEW k \in Key, NEW v \in CCValue \cup {None},
             CC!Change(g, k, v)
      PROVE  CC!CCTypeOK' /\ NothingHeard'
  <2>1. /\ changes' \in 0..MaxChanges /\ groups' \in [Group -> CC!Config]
        /\ UNCHANGED <<fetched, watcher, malformed>>
    BY <1>1, <1>3, ConfigCenterAssumption DEF CC!Change, CC!CCTypeOK, CC!Config
  <2>2. messages' \in Seq(CC!Config \cup {Malformed})
    <3>1. CASE UNCHANGED messages
      BY <1>1, <3>1 DEF CC!CCTypeOK
    <3>2. CASE \E c \in CC!Flatten' : messages' = Append(messages, c)
      <4>1. PICK c \in CC!Config : messages' = Append(messages, c)
        BY <3>2 DEF CC!Flatten
      <4> QED BY <1>1, <4>1, AppendProperties DEF CC!CCTypeOK
    <3> QED BY <1>3, <3>1, <3>2 DEF CC!Change
  <2>3. NothingHeard'
    BY <1>2, <1>3, <2>1 DEF CCInv, NothingHeard, CC!Change
  <2> QED BY <1>1, <1>2, <2>1, <2>2, <2>3 DEF CC!CCTypeOK, CC!TypeOK
<1>4. ASSUME NEW g \in CC!Goroutine, CC!PullConfigs(g) \/ CC!PullFails(g)
      PROVE  CC!CCTypeOK' /\ NothingHeard'
  <2>1. /\ watcher' = IF g = CC!Watcher THEN "dial" ELSE watcher
        /\ g = CC!Watcher => watcher = "pull"
        /\ UNCHANGED <<groups, changes, messages, malformed>>
    BY <1>4 DEF CC!PullConfigs, CC!PullFails, CC!MayPull, CC!server
  <2>2. fetched' \in [CC!Goroutine -> CC!Config \cup {NoConfig}]
    BY <1>1, <1>4 DEF CC!PullConfigs, CC!PullFails, CC!CCTypeOK, CC!Flatten
  <2>3. NothingHeard'
    BY <1>2, <2>1 DEF CCInv, NothingHeard
  <2>4. watcher' \in {"off", "pull", "dial", "open", "closed"}
    BY <1>1, <2>1 DEF CC!CCTypeOK
  <2> QED BY <1>1, <1>2, <2>1, <2>2, <2>3, <2>4 DEF CC!CCTypeOK, CC!TypeOK
<1>5. ASSUME CC!SendMalformed
      PROVE  CC!CCTypeOK' /\ NothingHeard'
  <2>1. /\ watcher = "open" /\ malformed' \in 0..MaxMalformed
        /\ messages' = Append(messages, Malformed)
        /\ UNCHANGED <<groups, changes, fetched, watcher>>
    BY <1>1, <1>5, ConfigCenterAssumption DEF CC!SendMalformed, CC!CCTypeOK, CC!server
  <2>2. messages' \in Seq(CC!Config \cup {Malformed})
    BY <1>1, <2>1, AppendProperties DEF CC!CCTypeOK
  <2> QED BY <1>1, <1>2, <2>1, <2>2 DEF CC!CCTypeOK, CC!TypeOK, CCInv, NothingHeard
<1>6. ASSUME CC!Dial \/ CC!Disconnect
      PROVE  CC!CCTypeOK' /\ NothingHeard'
  <2>1. /\ watcher \in {"dial", "open"} /\ watcher' \in {"open", "closed"}
        /\ messages' \in {messages, <<>>}
        /\ UNCHANGED <<groups, changes, fetched, malformed>>
    BY <1>6 DEF CC!Dial, CC!Disconnect, CC!server
  <2>2. messages' \in Seq(CC!Config \cup {Malformed})
    <3>1. <<>> \in Seq(CC!Config \cup {Malformed})
      OBVIOUS
    <3> QED BY <1>1, <2>1, <3>1 DEF CC!CCTypeOK
  <2> QED BY <1>1, <1>2, <2>1, <2>2 DEF CC!CCTypeOK, CC!TypeOK, CCInv, NothingHeard
<1>7. CC!CCTypeOK' /\ NothingHeard'
  BY <1>3, <1>4, <1>5, <1>6 DEF CCOthers
<1> QED BY <1>2, <1>7 DEF CCInv, OneTells, CCTellsCurrent, CCTellsFitting

LEMMA CCNextInv == CCInv /\ (CC!CCNext \/ UNCHANGED ccVars) => CCInv'
<1>1. CCInv /\ UNCHANGED ccVars => CCInv'
  <2>1. CC!CCTypeOK /\ UNCHANGED ccVars => CC!CCTypeOK'
    BY DEF ccVars, CC!CCTypeOK, CC!TypeOK
  <2>2. OneTells /\ NothingHeard /\ UNCHANGED ccVars => OneTells' /\ NothingHeard'
    BY DEF ccVars, OneTells, NothingHeard
  <2>3. CCTellsCurrent /\ UNCHANGED ccVars => CCTellsCurrent'
    BY DEF ccVars, CCTellsCurrent
  <2>4. CCTellsFitting /\ UNCHANGED ccVars => CCTellsFitting'
    BY DEF ccVars, CCTellsFitting
  <2>5. UNCHANGED ccVars => torn' = torn
    BY DEF ccVars
  <2> QED BY <2>1, <2>2, <2>3, <2>4, <2>5 DEF CCInv
<1>2. CC!CCNext => \/ CCOthers \/ CC!CCCleanup \/ CC!ReadMessage \/ CC!TakeEvent
                   \/ CC!TakeAnnounced
                   \/ \E g \in CC!Goroutine :
                        CC!RefreshConfigurations(g) \/ CC!CleanupWithin(g)
  BY DEF CC!CCNext, CCOthers
<1> QED BY <1>1, <1>2, CCOthersInv, CCCleans, CCCleansWithin, CCReads, CCTakes, CCHears, CCRefreshes

\* In interval mode a step is one of EventReplay, unless it tears.
LEMMA CCStepReplays ==
  CCInv /\ CC!CCNext /\ ccRefreshMode = CC!ModeInterval /\ ~torn'
    => [CC!Next]_(CC!vars)
<1> SUFFICES ASSUME CCInv, CC!CCNext, ccRefreshMode = CC!ModeInterval, ~torn'
             PROVE  [CC!Next]_(CC!vars)
  OBVIOUS
<1>1. watcher = "off" /\ messages = <<>> /\ announced = {}
  BY DEF CCInv, NothingHeard
<1>2. ASSUME NEW g \in CC!Goroutine, CC!RefreshConfigurations(g)
      PROVE  CC!Next
  <2>1. fetched[g] \in CC!Config
    BY <1>2 DEF CC!RefreshConfigurations, CCInv, CC!CCTypeOK
  <2> QED BY <1>2, <2>1 DEF CC!RefreshConfigurations, CC!Next
<1>3. CASE CC!TakeEvent
  BY <1>3 DEF CC!TakeEvent, CC!Next
<1>4. CASE CC!CCCleanup
  <2>1. CC!Cleanup
    BY <1>4 DEF CC!CCCleanup, CC!Cleanup
  <2> QED BY <2>1 DEF CC!Next
<1>5. CASE CC!ReadMessage \/ CC!TakeAnnounced
  BY <1>1, <1>5 DEF CC!ReadMessage, CC!TakeAnnounced
<1>6. CASE CCOthers
  BY <1>6 DEF CCOthers, CC!Change, CC!PullConfigs, CC!PullFails, CC!MayPull,
         CC!SendMalformed, CC!Dial, CC!Disconnect, CC!vars
<1>7. \A g \in CC!Goroutine : ~CC!CleanupWithin(g)
  BY DEF CC!CleanupWithin
<1> QED BY <1>2, <1>3, <1>4, <1>5, <1>6, <1>7 DEF CC!CCNext, CCOthers

LEMMA ApolloNextInv == ApolloInv /\ (Apollo!Next \/ UNCHANGED apolloVars) => ApolloInv'
BY ApolloPulls, ApolloWatches, ApolloCleans, ApolloTellsModule, ApolloUpdates,
   ApolloPolls, ApolloStill DEF Apollo!Next

-----------------------------------------------------------------------------
(***************************************************************************)
(* The plugin.                                                             *)
(***************************************************************************)

RemoteInv == plugin \in Plugins /\ OwnTypeOK /\ IInv /\ CCInv /\ ApolloInv

LEMMA RemoteInitInv == RemoteInit => RemoteInv
BY InitOwnType, InitIInv, CCInitInv, ApolloInitInv DEF RemoteInit, RemoteInv, KieInit

\* A step is one of each source or leaves it alone.
LEMMA StepOfEach ==
  [RemoteNext]_remoteVars =>
    /\ plugin' = plugin
    /\ [KieNext]_kieVars
    /\ CC!CCNext \/ UNCHANGED ccVars
    /\ Apollo!Next \/ UNCHANGED apolloVars
BY DEF RemoteNext, ByKie, ByConfigCenter, ByApollo, remoteVars

LEMMA RemoteNextInv == RemoteInv /\ [RemoteNext]_remoteVars => RemoteInv'
<1> SUFFICES ASSUME RemoteInv, [RemoteNext]_remoteVars PROVE RemoteInv'
  OBVIOUS
<1>1. OwnTypeOK' /\ IInv'
  BY StepOfEach, NextOwnType, StepImplements, NextIInv DEF RemoteInv
<1> QED BY <1>1, StepOfEach, CCNextInv, ApolloNextInv DEF RemoteInv

LEMMA RemoteAlways == RemoteSpec => []RemoteInv
BY RemoteInitInv, RemoteNextInv, PTL DEF RemoteSpec

\* The variables of every source keep their types.
THEOREM RemoteTypeCorrect == RemoteSpec => []RemoteTypeOK
<1>1. ApolloInv => Apollo!TypeOK
  BY DEF ApolloInv, ApolloTypes, ApolloEvent, Apollo!TypeOK
<1>2. RemoteInv => RemoteTypeOK
  BY <1>1 DEF RemoteInv, RemoteTypeOK, OwnTypeOK, KieTypeOK, IInv, CCInv
<1> QED BY <1>2, RemoteAlways, PTL

\* kie keeps its promise among the other sources.
THEOREM RemoteReplays == RemoteSpec => ImplementsReplay
<1>1. RemoteInit => Init
  BY DEF RemoteInit, KieInit
<1>2. RemoteInv /\ [RemoteNext]_remoteVars => [Next]_vars
  BY StepOfEach, StepImplements DEF RemoteInv
<1> QED BY <1>1, <1>2, RemoteAlways, PTL DEF RemoteSpec, ImplementsReplay, Spec

\* The config center source keeps the promise of EventReplay in interval mode,
\* whatever pulls at once and fails, unless Cleanup tore a change.
THEOREM IntervalModeReplays == RemoteSpec => IntervalReplays
<1>1. RemoteInv /\ [RemoteNext]_remoteVars =>
        [ccRefreshMode = CC!ModeInterval /\ ~torn' => CC!Next]_(CC!vars)
  <2>1. UNCHANGED ccVars => UNCHANGED CC!vars
    BY DEF ccVars, CC!vars
  <2> QED BY <2>1, StepOfEach, CCStepReplays DEF RemoteInv
<1> QED BY <1>1, RemoteAlways, PTL DEF RemoteSpec, IntervalReplays, CC!IntervalReplays

\* In both modes, who follows the events of the config center source knows what
\* is in use, but of the keys messages were about, unless Cleanup tore a change.
THEOREM ToldOrHeard == RemoteSpec => []ToldUnlessHeard
<1>1. CCInv => CC!ToldUnlessHeard
  BY DEF CCInv, CCTellsCurrent, CCTellsFitting, CC!ToldUnlessHeard
<1>2. RemoteInv => ToldUnlessHeard
  BY <1>1 DEF RemoteInv, ToldUnlessHeard
<1> QED BY <1>2, RemoteAlways, PTL

\* Whoever follows the events of the apollo source, of either kind, knows what
\* the client answers, but of keys that changed in a way no event says.
THEOREM ToldIsWhatIsAnswered == RemoteSpec => []ToldIsAnswered
<1>1. ApolloInv => Apollo!ToldIsAnswered
  <2> SUFFICES ASSUME ApolloInv, source = "watched", callback = <<>>,
                      ~apolloCleaned,
                      NEW key \in Apollo!EventKey \ missed
               PROVE  {told[key], moduleCopy[key]} = Apollo!Answers(key)
    BY DEF Apollo!ToldIsAnswered
  <2>1. Apollo!NoNil(events) /\ told = moduleCopy
    BY FollowNone, NoneIsNil DEF ApolloInv, CallbackFits, ApolloTypes
  <2>2. told[key] \in Apollo!Answers(key)
    BY <2>1 DEF ApolloInv, ToldAnswers, Waits
  <2>3. \A m, n \in Apollo!Holding(key) : m = n
    <3>1. Apollo!Holding(key) \subseteq Namespace
      BY DEF Apollo!Holding
    <3>2. ~(Cardinality(Apollo!Holding(key)) > 1)
      BY SameCount DEF ApolloInv, Apollo!Shared
    <3> QED BY <3>1, <3>2, OneHolder
  <2>4. \A v, w \in Apollo!Answers(key) : v = w
    BY <2>3 DEF Apollo!Answers
  <2> QED BY <2>1, <2>2, <2>4
<1>2. RemoteInv => ToldIsAnswered
  BY <1>1 DEF RemoteInv, ToldIsAnswered
<1> QED BY <1>2, RemoteAlways, PTL
=============================================================================
