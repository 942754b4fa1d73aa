--------------------------- MODULE EventToolProofs ---------------------------
(* What PopulateEvents returns, for all keys, values and configurations. *)
EXTENDS EventTool, TLAPS

\* The events of a comparison are events of the source it was made for.
LEMMA PopulateEventsType ==
  ASSUME NEW s, NEW cur \in Config, NEW upd \in Config
  PROVE  PopulateEvents(s, cur, upd) \subseteq EventFrom({s})
<1> SUFFICES ASSUME NEW e \in PopulateEvents(s, cur, upd)
             PROVE  e \in EventFrom({s})
  OBVIOUS
<1>1. CASE \E k \in Key : /\ upd[k] # None
                          /\ e = ConstructEvent(s, Create, k, upd[k])
  BY <1>1 DEF EventFrom, ConstructEvent, Config, Create
<1>2. CASE \E k \in Key : /\ upd[k] # None
                          /\ e = ConstructEvent(s, Update, k, upd[k])
  BY <1>2 DEF EventFrom, ConstructEvent, Config, Update
<1>3. CASE \E k \in Key : /\ cur[k] # None
                          /\ e = ConstructEvent(s, Delete, k, cur[k])
  BY <1>3 DEF EventFrom, ConstructEvent, Config, Delete
<1> QED BY <1>1, <1>2, <1>3 DEF PopulateEvents

\* Every event brings its key to the updated configuration, and every key on
\* which the configurations differ has an event.
LEMMA PopulateEventsComplete ==
  ASSUME NEW s, NEW cur \in Config, NEW upd \in Config
  PROVE  /\ \A e \in PopulateEvents(s, cur, upd) :
              upd[e.key] = IF e.type = Delete THEN None ELSE e.val
         /\ \A k \in Key : cur[k] # upd[k] =>
              \E e \in PopulateEvents(s, cur, upd) : e.key = k
<1>1. ASSUME NEW e \in PopulateEvents(s, cur, upd)
      PROVE  upd[e.key] = IF e.type = Delete THEN None ELSE e.val
  <2>1. CASE \E k \in Key : e = ConstructEvent(s, Create, k, upd[k])
    BY <2>1 DEF ConstructEvent, Create, Delete
  <2>2. CASE \E k \in Key : e = ConstructEvent(s, Update, k, upd[k])
    BY <2>2 DEF ConstructEvent, Update, Delete
  <2>3. CASE \E k \in Key : /\ upd[k] = None
                            /\ e = ConstructEvent(s, Delete, k, cur[k])
    BY <2>3 DEF ConstructEvent
  <2> QED BY <1>1, <2>1, <2>2, <2>3 DEF PopulateEvents
<1>2. ASSUME NEW k \in Key, cur[k] # upd[k]
      PROVE  \E e \in PopulateEvents(s, cur, upd) : e.key = k
  <2>1. CASE upd[k] # None /\ cur[k] = None
    <3>1. ConstructEvent(s, Create, k, upd[k]) \in PopulateEvents(s, cur, upd)
      BY <2>1 DEF PopulateEvents
    <3> QED BY <3>1 DEF ConstructEvent
  <2>2. CASE upd[k] # None /\ cur[k] # None
    <3>1. ConstructEvent(s, Update, k, upd[k]) \in PopulateEvents(s, cur, upd)
      BY <1>2, <2>2 DEF PopulateEvents
    <3> QED BY <3>1 DEF ConstructEvent
  <2>3. CASE upd[k] = None
    <3>1. ConstructEvent(s, Delete, k, cur[k]) \in PopulateEvents(s, cur, upd)
      BY <1>2, <2>3 DEF PopulateEvents
    <3> QED BY <3>1 DEF ConstructEvent
  <2> QED BY <2>1, <2>2, <2>3
<1> QED BY <1>1, <1>2

\* Every event fits the configuration it was compared with, and no key has
\* two.
LEMMA PopulateEventsFit ==
  ASSUME NEW s, NEW cur \in Config, NEW upd \in Config
  PROVE  /\ \A e \in PopulateEvents(s, cur, upd) : Fits(e, cur)
         /\ \A e, f \in PopulateEvents(s, cur, upd) : e.key = f.key => e = f
<1>1. ASSUME NEW e \in PopulateEvents(s, cur, upd)
      PROVE  \/ /\ upd[e.key] # None /\ cur[e.key] = None
                /\ e = ConstructEvent(s, Create, e.key, upd[e.key])
             \/ /\ upd[e.key] # None /\ cur[e.key] # None
                /\ upd[e.key] # cur[e.key]
                /\ e = ConstructEvent(s, Update, e.key, upd[e.key])
             \/ /\ upd[e.key] = None /\ cur[e.key] # None
                /\ e = ConstructEvent(s, Delete, e.key, cur[e.key])
  BY <1>1 DEF PopulateEvents, ConstructEvent
<1>2. \A e \in PopulateEvents(s, cur, upd) : Fits(e, cur)
  BY <1>1 DEF Fits, ConstructEvent, Create, Update, Delete
<1>3. ASSUME NEW e \in PopulateEvents(s, cur, upd),
             NEW f \in PopulateEvents(s, cur, upd), e.key = f.key
      PROVE  e = f
  BY <1>1, <1>3
<1> QED BY <1>2, <1>3
=============================================================================
