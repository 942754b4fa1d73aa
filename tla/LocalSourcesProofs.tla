------------------------- MODULE LocalSourcesProofs -------------------------
(***************************************************************************)
(* Proofs about LocalSources and the two sources it is made of, for all    *)
(* files, keys, values and priorities.                                     *)
(***************************************************************************)
EXTENDS LocalSources, EventToolProofs, SequenceTheorems

USE NoneAssumption, FileAssumption, ConfigMapAssumption

-----------------------------------------------------------------------------
(***************************************************************************)
(* What the invariants say, of states given by their parts.                *)
(***************************************************************************)

Infos == [Key -> Info \cup {NoInfo}]

\* What the holder of a copy has for the key of e once it has taken e.
Result(e) == IF e.type = Delete THEN None ELSE e.val

About(k, events) == \E e \in events : e.key = k

\* But for the keys of S: a copy has the value, or an event is on its way about
\* the key; and every such event is about that value.
Announces(S, c, vals, events) ==
  \A k \in Key \ S :
    /\ c[k] = vals[k] \/ \E g \in Goroutine : About(k, events[g])
    /\ \A g \in Goroutine : \A e \in events[g] :
         e.key = k => Result(e) = vals[k]

\* The keys that two contents have are among those of S, and the others follow
\* the only content that has them.
Follows(S, contents, confs) ==
  /\ Conflicts(contents) \subseteq S
  /\ \A k \in Key \ S :
       LET owners == {p \in Path : contents[p][k] # None}
       IN IF owners = {} THEN confs[k] = NoInfo
          ELSE \E p \in owners :
                 confs[k] = [path |-> p, value |-> contents[p][k]]

\* The infos of a comparison with p found to contain config, as far as the keys
\* go that no other file has.
FollowsFile(new, confs, config, p) ==
  \A k \in Key :
    /\ config[k] = None =>
         new[k] = IF confs[k].path = p THEN NoInfo ELSE confs[k]
    /\ config[k] # None /\ confs[k].path \in {p, Nobody} =>
         new[k] = [path |-> p, value |-> config[k]]
    /\ config[k] # None => new[k] # NoInfo
    /\ new[k] \in {confs[k], NoInfo} \/ new[k].value = config[k]

LEMMA InfoParts ==
  ASSUME NEW info \in Info \cup {NoInfo}
  PROVE  /\ info.path = Nobody <=> info = NoInfo
         /\ info.path # Nobody =>
              /\ info.path \in Path /\ info.value \in Value
              /\ info = [path |-> info.path, value |-> info.value]
<1>1. CASE info = NoInfo
  BY <1>1 DEF NoInfo
<1>2. CASE info \in Info
  <2>1. PICK p \in Path, v \in Value : info = [path |-> p, value |-> v]
    BY <1>2 DEF Info
  <2>2. info.path = p /\ info.value = v
    BY <2>1
  <2>3. p # Nobody
    OBVIOUS
  <2>4. info # NoInfo
    BY <2>2, <2>3 DEF NoInfo
  <2> QED BY <2>1, <2>2, <2>3, <2>4
<1> QED BY <1>1, <1>2

\* A comparison keeps the keys of only one file with that file.
LEMMA ComparingFollows ==
  ASSUME NEW S, NEW contents \in [Path -> Config], NEW confs \in Infos,
         NEW new, NEW p \in Path, NEW config \in Config,
         Follows(S, contents, confs), FollowsFile(new, confs, config, p)
  PROVE  LET now == [contents EXCEPT ![p] = config]
         IN Follows(S \cup Conflicts(now), now, new)
<1> DEFINE now == [contents EXCEPT ![p] = config]
           T == S \cup Conflicts(now)
<1>1. Conflicts(now) \subseteq T
  OBVIOUS
<1>2. ASSUME NEW k \in Key, k \notin T
      PROVE  LET owners == {q \in Path : now[q][k] # None}
             IN IF owners = {} THEN new[k] = NoInfo
                ELSE \E q \in owners : new[k] = [path |-> q, value |-> now[q][k]]
  <2> DEFINE owners == {q \in Path : contents[q][k] # None}
  <2>1. now[p] = config /\ \A q \in Path : q # p => now[q] = contents[q]
    OBVIOUS
  <2>2. \A q, r \in Path : q # r => now[q][k] = None \/ now[r][k] = None
    BY <1>2 DEF Conflicts
  <2>3. \A q, r \in Path : q # r => contents[q][k] = None \/ contents[r][k] = None
    BY <1>2 DEF Conflicts, Follows
  <2>4. IF owners = {} THEN confs[k] = NoInfo
        ELSE \E q \in owners : confs[k] = [path |-> q, value |-> contents[q][k]]
    BY <1>2 DEF Follows
  <2>5. confs[k] \in Info \cup {NoInfo} /\ NoInfo.path = Nobody
    BY DEF Infos, NoInfo
  <2>6. CASE config[k] # None
    <3>1. \A q \in Path : q # p => contents[q][k] = None
      BY <2>1, <2>2, <2>6
    <3>2. confs[k].path \in {p, Nobody}
      <4>1. CASE owners = {}
        BY <2>4, <2>5, <4>1
      <4>2. CASE owners # {}
        <5>1. PICK q \in owners : confs[k] = [path |-> q, value |-> contents[q][k]]
          BY <2>4, <4>2
        <5> QED BY <5>1, <3>1
      <4> QED BY <4>1, <4>2
    <3>3. new[k] = [path |-> p, value |-> config[k]]
      BY <2>6, <3>2 DEF FollowsFile
    <3> QED BY <2>1, <2>6, <3>3
  <2>7. CASE config[k] = None
    <3>1. new[k] = IF confs[k].path = p THEN NoInfo ELSE confs[k]
      BY <2>7 DEF FollowsFile
    <3>2. CASE owners = {}
      <4>1. \A q \in Path : now[q][k] = None
        BY <2>1, <2>7, <3>2
      <4>2. new[k] = NoInfo
        BY <2>4, <2>5, <3>1, <3>2
      <4> QED BY <4>1, <4>2
    <3>3. CASE owners # {}
      <4>1. PICK q \in owners : confs[k] = [path |-> q, value |-> contents[q][k]]
        BY <2>4, <3>3
      <4>2. confs[k].path = q /\ \A r \in Path : r # q => contents[r][k] = None
        BY <2>3, <4>1
      <4>3. CASE q = p
        <5>1. \A r \in Path : now[r][k] = None
          BY <2>1, <2>7, <4>2, <4>3
        <5>2. new[k] = NoInfo
          BY <3>1, <4>2, <4>3
        <5> QED BY <5>1, <5>2
      <4>4. CASE q # p
        <5>1. now[q][k] = contents[q][k] /\ now[q][k] # None
          BY <2>1, <4>4
        <5>2. new[k] = [path |-> q, value |-> now[q][k]]
          BY <3>1, <4>1, <4>2, <4>4, <5>1
        <5> QED BY <5>1, <5>2
      <4> QED BY <4>3, <4>4
    <3> QED BY <3>2, <3>3
  <2> QED BY <2>6, <2>7
<1> QED BY <1>1, <1>2 DEF Follows

\* The holder of the copy takes an event.
LEMMA TakingAnnounces ==
  ASSUME NEW g \in Goroutine, NEW pending, NEW e \in pending[g], NEW S,
         NEW c \in Config, NEW vals, DOMAIN pending = Goroutine,
         e.key \in Key, Announces(S, c, vals, pending)
  PROVE  Announces(S, Follow(c, e), vals, [pending EXCEPT ![g] = @ \ {e}])
<1> DEFINE left == [pending EXCEPT ![g] = @ \ {e}]
           d == Follow(c, e)
<1>1. \A h \in Goroutine : left[h] = IF h = g THEN pending[h] \ {e} ELSE pending[h]
  OBVIOUS
<1>2. \A k \in Key : d[k] = IF k = e.key THEN Result(e) ELSE c[k]
  BY DEF Follow, Result, Config
<1> HIDE DEF left, d
<1> SUFFICES ASSUME NEW k \in Key, k \notin S
             PROVE  /\ d[k] = vals[k] \/ \E h \in Goroutine : About(k, left[h])
                    /\ \A h \in Goroutine : \A f \in left[h] :
                         f.key = k => Result(f) = vals[k]
  BY DEF Announces, left, d
<1>3. /\ c[k] = vals[k] \/ \E h \in Goroutine : About(k, pending[h])
      /\ \A h \in Goroutine : \A f \in pending[h] :
           f.key = k => Result(f) = vals[k]
  BY DEF Announces
<1>4. \A h \in Goroutine : \A f \in left[h] : f.key = k => Result(f) = vals[k]
  BY <1>1, <1>3
<1>5. CASE k = e.key
  BY <1>2, <1>3, <1>4, <1>5
<1>6. CASE k # e.key
  <2>1. \A h \in Goroutine : About(k, pending[h]) => About(k, left[h])
    BY <1>1, <1>6 DEF About
  <2> QED BY <1>2, <1>3, <1>4, <1>6, <2>1
<1> QED BY <1>5, <1>6

-----------------------------------------------------------------------------
(***************************************************************************)
(* The parts of the invariants that both sources have.                     *)
(***************************************************************************)

DiskOK ==
  /\ disk \in [Path -> Content]
  /\ watched \subseteq Path /\ receiving \in BOOLEAN
  /\ notices \subseteq Path \X {"Write", "Remove", "Rename"}

HeldOK ==
  /\ files \in [Path -> Seq(0..MaxUint32)]
  /\ Configurations \in Infos
  /\ loaded \in [Path -> Config]

WorkOK(source) ==
  /\ reading \in [Goroutine -> [path : Path, content : Config] \cup {NoReading}]
  /\ todo \in [Goroutine -> SUBSET EventFrom({source})]
  /\ copy \in Config

\* Who compares has fired what it compared before, and nobody fires without a
\* callback.
Resting ==
  \A g \in Goroutine : reading[g] # NoReading \/ ~watching => todo[g] = {}

LEMMA ValuesType ==
  ASSUME NEW confs \in Infos
  PROVE  ValuesOf(confs) \in Config
<1>1. \A k \in Key : confs[k] # NoInfo => confs[k].value \in Value
  BY InfoParts DEF Infos
<1> QED BY <1>1 DEF ValuesOf, Config

LEMMA NoReadingParts ==
  ASSUME NEW r \in [path : Path, content : Config] \cup {NoReading}
  PROVE  r # NoReading <=> r.path # Nobody
<1>1. CASE r = NoReading
  BY <1>1 DEF NoReading
<1>2. CASE r \in [path : Path, content : Config]
  <2>1. r.path \in Path /\ r.path # Nobody
    BY <1>2
  <2> QED BY <2>1 DEF NoReading
<1> QED BY <1>1, <1>2

LEMMA FilePriorityType ==
  ASSUME files \in [Path -> Seq(0..MaxUint32)], NEW p \in Path
  PROVE  FilePriority(p) \in 0..MaxUint32
<1>1. CASE files[p] = <<>>
  BY <1>1 DEF FilePriority
<1>2. CASE files[p] # <<>>
  <2>1. files[p] \in Seq(0..MaxUint32) /\ Len(files[p]) \in 1..Len(files[p])
    BY <1>2, EmptySeq, LenProperties
  <2>2. files[p][Len(files[p])] \in 0..MaxUint32
    BY <2>1, ElementOfSeq
  <2> QED BY <1>2, <2>2 DEF FilePriority
<1> QED BY <1>1, <1>2

LEMMA HandlePriorityKeeps ==
  ASSUME HeldOK, NEW p \in Path, NEW priority \in 0..MaxUint32,
         HandlePriority(p, priority), UNCHANGED <<Configurations, loaded>>
  PROVE  HeldOK'
<1>1. files[p] \in Seq(0..MaxUint32)
  BY DEF HeldOK
<1>2. Append(files[p], priority) \in Seq(0..MaxUint32)
  BY <1>1, AppendProperties
<1> QED BY <1>2 DEF HeldOK, HandlePriority

LEMMA EnvironmentKeeps ==
  ASSUME DiskOK, NEW p \in Path,
         (\E content \in Content : Write(p, content))
           \/ (\E op \in {"Remove", "Rename"} : Remove(p, op))
  PROVE  DiskOK'
<1>1. PICK content \in Content, op \in {"Write", "Remove", "Rename"} :
        Changed(p, content, op)
  BY DEF Write, Remove, Content
<1>2. disk' \in [Path -> Content]
  BY <1>1 DEF DiskOK, Changed
<1>3. notices' \subseteq Path \X {"Write", "Remove", "Rename"}
  BY <1>1 DEF DiskOK, Changed
<1>4. watched' \subseteq Path /\ receiving' = receiving
  BY DEF DiskOK, Write, Remove, Changed
<1> QED BY <1>2, <1>3, <1>4 DEF DiskOK

LEMMA ReadKeeps ==
  ASSUME NEW source, WorkOK(source), Resting, NEW g \in Goroutine, NEW p \in Path,
         disk[p] \in Config, todo[g] = {}, Read(g, p),
         UNCHANGED <<todo, copy, watching>>
  PROVE  WorkOK(source)' /\ Resting'
<1>1. [path |-> p, content |-> disk[p]] \in [path : Path, content : Config]
  OBVIOUS
<1>2. WorkOK(source)'
  BY <1>1 DEF WorkOK, Read
<1>3. Resting'
  BY DEF WorkOK, Resting, Read
<1> QED BY <1>2, <1>3

LEMMA OnEventKeeps ==
  ASSUME NEW source, WorkOK(source), Resting, NEW g \in Goroutine, NEW e,
         OnEvent(g, e)
  PROVE  /\ WorkOK(source)' /\ Resting'
         /\ \A S, vals : Announces(S, copy, vals, todo) =>
              Announces(S, copy', vals, todo')
<1>1. e \in EventFrom({source}) /\ e \in todo[g] /\ DOMAIN todo = Goroutine
  BY DEF OnEvent, WorkOK
<1>2. e.key \in Key /\ e.val \in Value
  BY <1>1 DEF EventFrom
<1>3. todo' = [todo EXCEPT ![g] = @ \ {e}] /\ copy' = Follow(copy, e)
  BY DEF OnEvent
<1>4. copy' \in Config
  BY <1>2, <1>3 DEF WorkOK, Follow, Config
<1>5. todo' \in [Goroutine -> SUBSET EventFrom({source})]
  BY <1>3 DEF WorkOK
<1>6. WorkOK(source)'
  BY <1>4, <1>5 DEF WorkOK, OnEvent
<1>7. Resting'
  <2>1. UNCHANGED <<reading, watching>> /\ \A h \in Goroutine : todo'[h] \subseteq todo[h]
    BY <1>1, <1>3 DEF OnEvent
  <2> QED BY <2>1 DEF Resting
<1>8. ASSUME NEW S, NEW vals, Announces(S, copy, vals, todo)
      PROVE  Announces(S, copy', vals, todo')
  <2>1. copy \in Config
    BY DEF WorkOK
  <2> QED BY <1>1, <1>2, <1>3, <1>8, <2>1, TakingAnnounces
<1> QED BY <1>6, <1>7, <1>8

\* A comparison of what g has read: the events and infos it comes to are given.
LEMMA ComparesKeeps ==
  ASSUME NEW source, HeldOK, WorkOK(source), Resting, NEW g \in Goroutine,
         reading[g] # NoReading,
         NEW infos \in Infos, NEW events \in SUBSET EventFrom({source}),
         Compares(g, infos, events), HasCompared(g),
         UNCHANGED <<files, watching, copy>>
  PROVE  HeldOK' /\ WorkOK(source)' /\ Resting'
<1>1. reading[g].path \in Path /\ reading[g].content \in Config
  BY DEF WorkOK
<1>2. HeldOK'
  BY <1>1 DEF HeldOK, Compares
<1>3. WorkOK(source)'
  BY DEF WorkOK, Compares, Announced, HasCompared
<1>4. Resting'
  <2>1. reading' = [reading EXCEPT ![g] = NoReading]
        /\ todo' = [todo EXCEPT ![g] = IF watching THEN events ELSE {}]
    BY DEF Compares, Announced, HasCompared
  <2> QED BY <2>1 DEF Resting, WorkOK
<1> QED BY <1>2, <1>3, <1>4

\* A comparison announces what it changes: either an event is fired about a key
\* or its value is what it was.  Of keys both goroutines have events on (raced)
\* nothing is said.
LEMMA ComparesTold ==
  ASSUME NEW source, WorkOK(source), Resting, NEW g \in Goroutine,
         reading[g] # NoReading, NEW infos, NEW events, NEW S, NEW T,
         Compares(g, infos, events), UNCHANGED <<watching, copy>>,
         \A e \in events : Result(e) = ValuesOf(infos)[e.key],
         \A k \in Key \ T : \/ About(k, events)
                            \/ k \notin S /\ ValuesOf(infos)[k] = Values[k],
         watching, Announces(raced \cup S, copy, Values, todo)
  PROVE  Announces(raced' \cup T, copy', ValuesOf(infos), todo')
<1> DEFINE vals == ValuesOf(infos)
<1> SUFFICES ASSUME NEW k \in Key, k \notin raced', k \notin T
             PROVE  /\ copy'[k] = vals[k] \/ \E h \in Goroutine : About(k, todo'[h])
                    /\ \A h \in Goroutine : \A e \in todo'[h] :
                         e.key = k => Result(e) = vals[k]
  BY DEF Announces
<1>1. DOMAIN todo = Goroutine /\ todo[g] = {}
  BY DEF WorkOK, Resting
<1>2. /\ todo' = [todo EXCEPT ![g] = events] /\ copy' = copy
      /\ raced \subseteq raced'
      /\ ~\A h \in Goroutine : About(k, todo'[h])
  BY DEF Compares, Announced, About
<1>3. todo'[g] = events /\ \A h \in Goroutine : h # g => todo'[h] = todo[h]
  BY <1>1, <1>2
<1> HIDE DEF vals
<1>4. CASE About(k, events)
  <2>1. \A h \in Goroutine : h # g => ~About(k, todo'[h])
    BY <1>2, <1>3, <1>4 DEF Goroutine
  <2>2. ASSUME NEW h \in Goroutine, NEW e \in todo'[h], e.key = k
        PROVE  Result(e) = vals[k]
    <3>1. h = g
      BY <2>1, <2>2 DEF About
    <3> QED BY <1>3, <2>2, <3>1 DEF vals
  <2> QED BY <1>3, <1>4, <2>2
<1>5. CASE ~About(k, events)
  <2>1. k \notin S /\ vals[k] = Values[k]
    BY <1>5 DEF vals
  <2>2. /\ copy[k] = Values[k] \/ \E h \in Goroutine : About(k, todo[h])
        /\ \A h \in Goroutine : \A e \in todo[h] :
             e.key = k => Result(e) = Values[k]
    BY <1>2, <2>1 DEF Announces
  <2>3. ~About(k, todo[g])
    BY <1>1 DEF About
  <2>4. \A h \in Goroutine : \A e \in todo'[h] : e.key = k => h # g /\ e \in todo[h]
    BY <1>3, <1>5 DEF About
  <2> QED BY <1>2, <1>3, <2>1, <2>2, <2>3, <2>4
<1> QED BY <1>4, <1>5

LEMMA ComparesFollows ==
  ASSUME NEW source, HeldOK, WorkOK(source), NEW g \in Goroutine,
         reading[g] # NoReading, NEW infos, NEW events,
         Compares(g, infos, events),
         FollowsFile(infos, Configurations, reading[g].content, reading[g].path),
         Follows(shared, loaded, Configurations)
  PROVE  Follows(shared', loaded', Configurations')
<1>1. reading[g].path \in Path /\ reading[g].content \in Config
  BY DEF WorkOK
<1>2. /\ loaded' = [loaded EXCEPT ![reading[g].path] = reading[g].content]
      /\ Configurations' = infos /\ shared' = shared \cup Conflicts(loaded')
  BY DEF Compares
<1>3. Configurations \in Infos /\ loaded \in [Path -> Config]
  BY DEF HeldOK
<1> DEFINE now == [loaded EXCEPT ![reading[g].path] = reading[g].content]
<1>4. Follows(shared \cup Conflicts(now), now, infos)
  BY <1>1, <1>3, ComparingFollows
<1>5. loaded' = now /\ shared' = shared \cup Conflicts(now)
  BY <1>2
<1> QED BY <1>2, <1>4, <1>5

\* Nothing is held: there is nothing that could be attributed wrongly.
LEMMA EmptiedFollows ==
  /\ NoInfos \in Infos
  /\ [p \in Path |-> EmptyConfig] \in [Path -> Config]
  /\ \A S : Follows(S, [p \in Path |-> EmptyConfig], NoInfos)
<1>1. NoInfos \in Infos /\ \A k \in Key : NoInfos[k] = NoInfo
  BY DEF NoInfos, Infos
<1>2. [p \in Path |-> EmptyConfig] \in [Path -> Config]
      /\ \A p \in Path, k \in Key : [q \in Path |-> EmptyConfig][p][k] = None
  BY DEF EmptyConfig, Config
<1>3. Conflicts([p \in Path |-> EmptyConfig]) = {}
  BY <1>2 DEF Conflicts
<1> QED BY <1>1, <1>2, <1>3 DEF Follows

\* Keys that more than one file has are taken over: the others stay with theirs.
LEMMA TakingOver ==
  ASSUME NEW confs, NEW config \in Config, NEW p \in Path, NEW new \in Infos,
         FollowsFile(new, confs, config, p),
         NEW S \in SUBSET Contested(confs, config, p)
  PROVE  /\ TakenOver(new, config, S) \in Infos
         /\ FollowsFile(TakenOver(new, config, S), confs, config, p)
<1> DEFINE taken == TakenOver(new, config, S)
<1>1. ASSUME NEW k \in Key, k \in S
      PROVE  /\ config[k] # None /\ confs[k].path \notin {p, Nobody}
             /\ taken[k] \in Info /\ taken[k].value = config[k]
  <2>1. config[k] # None /\ confs[k].path \notin {p, Nobody}
    BY <1>1 DEF Contested
  <2>2. new[k] \in Info /\ config[k] \in Value
    BY <2>1 DEF FollowsFile, Infos, Config
  <2>3. taken[k] = [new[k] EXCEPT !.value = config[k]]
    BY <1>1 DEF TakenOver
  <2> QED BY <2>1, <2>2, <2>3 DEF Info
<1>2. \A k \in Key \ S : taken[k] = new[k]
  BY DEF TakenOver
<1>3. taken \in Infos
  <2>1. \A k \in Key : taken[k] \in Info \cup {NoInfo}
    BY <1>1, <1>2 DEF Infos
  <2>2. taken = [k \in Key |-> taken[k]]
    BY DEF TakenOver
  <2> HIDE DEF taken
  <2> QED BY <2>1, <2>2 DEF Infos
<1>4. \A i \in Info : i # NoInfo
  BY DEF Info, NoInfo
<1> HIDE DEF taken
<1>5. FollowsFile(taken, confs, config, p)
  BY <1>1, <1>2, <1>4 DEF FollowsFile
<1> QED BY <1>3, <1>5 DEF taken

\* A comparison with p that stores what it found after Cleanup has emptied the
\* source, and that began, with these infos, before it emptied them or after.
LEMMA InterruptedFollows ==
  ASSUME HeldOK, Follows(shared, loaded, Configurations),
         NEW p \in Path, NEW config \in Config,
         NEW confs \in {Configurations, NoInfos},
         NEW new \in Infos, FollowsFile(new, confs, config, p),
         NEW S \in SUBSET Contested(confs, config, p),
         Configurations' = TakenOver(new, config, S),
         loaded' = [(IF confs = NoInfos THEN [q \in Path |-> EmptyConfig]
                     ELSE loaded) EXCEPT ![p] = config],
         shared' = shared \cup Conflicts(loaded')
  PROVE  /\ Configurations' \in Infos /\ loaded' \in [Path -> Config]
         /\ Follows(shared', loaded', Configurations')
<1> DEFINE contents == IF confs = NoInfos THEN [q \in Path |-> EmptyConfig]
                       ELSE loaded
           now == [contents EXCEPT ![p] = config]
<1>1. /\ confs \in Infos /\ contents \in [Path -> Config]
      /\ Follows(shared, contents, confs)
  <2>1. CASE confs = NoInfos
    <3>1. contents = [q \in Path |-> EmptyConfig]
      BY <2>1
    <3> HIDE DEF contents
    <3> QED BY <2>1, <3>1, EmptiedFollows
  <2>2. CASE confs # NoInfos
    <3>1. contents = loaded /\ confs = Configurations
      BY <2>2
    <3> HIDE DEF contents
    <3> QED BY <3>1 DEF HeldOK
  <2> QED BY <2>1, <2>2
<1>2. loaded' = now
  OBVIOUS
<1> HIDE DEF contents
<1>3. /\ TakenOver(new, config, S) \in Infos
      /\ FollowsFile(TakenOver(new, config, S), confs, config, p)
  BY TakingOver
<1> DEFINE taken == TakenOver(new, config, S)
<1> HIDE DEF taken
<1>4. Follows(shared \cup Conflicts(now), now, taken)
  BY <1>1, <1>3, ComparingFollows DEF taken
<1>5. Configurations' = taken /\ taken \in Infos
  BY <1>3 DEF taken
<1>6. now \in [Path -> Config]
  BY <1>1
<1>7. shared' = shared \cup Conflicts(now)
  BY <1>2
<1> QED BY <1>2, <1>4, <1>5, <1>6, <1>7

LEMMA ListedPriority ==
  ASSUME NEW p \in Path, FilePriority(p) # MaxUint32
  PROVE  p \in {q \in Path : files[q] # <<>>}
BY DEF FilePriority

\* What a comparison with a listed file brings is what the file contains.
LEMMA ComparisonOfListed ==
  ASSUME NEW g \in Goroutine, reading[g].path \in {p \in Path : files[p] # <<>>},
         NEW confs, confs = Configurations \/ confs = NoInfos,
         FollowsFile(Configurations', confs, reading[g].content, reading[g].path),
         \A h \in Goroutine : h # g => todo'[h] = todo[h]
  PROVE  OfListedFiles
<1>1. ASSUME NEW k \in Key, Configurations'[k] \notin {Configurations[k], NoInfo}
      PROVE  reading[g].content[k] = Configurations'[k].value
  <2>1. NoInfos[k] = NoInfo
    BY DEF NoInfos
  <2> QED BY <1>1, <2>1 DEF FollowsFile
<1> QED BY <1>1 DEF OfListedFiles

\* A step that only takes away.
LEMMA NothingNewIsListed ==
  ASSUME \A k \in Key : Configurations'[k] \in {Configurations[k], NoInfo},
         \A g \in Goroutine : todo'[g] \subseteq todo[g]
  PROVE  OfListedFiles
BY DEF OfListedFiles

-----------------------------------------------------------------------------
(***************************************************************************)
(* The file source.                                                        *)
(***************************************************************************)

\* AddFile is at work as long as it has read a file.
JobOK ==
  /\ \/ adding = File!NoJob
     \/ adding \in [paths : SUBSET Path, watch : SUBSET Path, listed : BOOLEAN,
                    priority : Priority, directory : BOOLEAN]
  /\ adding.paths \subseteq adding.watch
  /\ adding = File!NoJob => reading[App] = NoReading

FileTold ==
  /\ Follows(shared, loaded, Configurations)
  /\ ~cleaned /\ watching => Announces(raced, copy, Values, todo)

FileInv == DiskOK /\ HeldOK /\ WorkOK(Name) /\ Resting /\ JobOK /\ FileTold

\* What compareUpdate makes of the infos.
LEMMA FileCompared ==
  ASSUME NEW confs \in Infos, NEW config \in Config, NEW p \in Path
  PROVE  LET new == File!Compared(confs, config, p)
         IN new \in Infos /\ FollowsFile(new, confs, config, p)
<1> DEFINE new == File!Compared(confs, config, p)
<1>1. ASSUME NEW k \in Key
      PROVE  /\ new[k] \in Info \cup {NoInfo}
             /\ config[k] = None =>
                  new[k] = IF confs[k].path = p THEN NoInfo ELSE confs[k]
             /\ config[k] # None /\ confs[k].path \in {p, Nobody} =>
                  new[k] = [path |-> p, value |-> config[k]]
             /\ config[k] # None => new[k] # NoInfo
             /\ new[k] \in {confs[k], NoInfo} \/ new[k].value = config[k]
  <2> DEFINE info == confs[k]
  <2>1. info \in Info \cup {NoInfo} /\ config[k] \in Value \cup {None}
    BY DEF Infos, Config
  <2>2. new[k] = IF config[k] = None
                 THEN IF info.path = p THEN NoInfo ELSE info
                 ELSE IF info = NoInfo THEN [path |-> p, value |-> config[k]]
                 ELSE IF info.path = p \/ File!Overrides(p, info.path)
                 THEN [info EXCEPT !.value = config[k]] ELSE info
    BY DEF File!Compared, File!NoInfo, NoInfo
  <2> HIDE DEF new, info
  <2>3. info # NoInfo /\ config[k] # None =>
          /\ [info EXCEPT !.value = config[k]] = [path |-> info.path, value |-> config[k]]
          /\ [info EXCEPT !.value = config[k]] \in Info
    <3> SUFFICES ASSUME info # NoInfo, config[k] # None
                 PROVE  /\ [info EXCEPT !.value = config[k]] =
                             [path |-> info.path, value |-> config[k]]
                        /\ [info EXCEPT !.value = config[k]] \in Info
      OBVIOUS
    <3> QED BY <2>1 DEF Info
  <2>4. [path |-> p, value |-> config[k]] \in Info \/ config[k] = None
    BY <2>1 DEF Info
  <2>5. info.path = Nobody <=> info = NoInfo
    BY <2>1, InfoParts
  <2>6. \A i \in Info : i # NoInfo
    BY DEF Info, NoInfo
  <2> QED BY <2>1, <2>2, <2>3, <2>4, <2>5, <2>6 DEF info
<1>2. new = [k \in Key |-> new[k]]
  BY DEF File!Compared
<1> HIDE DEF new
<1> QED BY <1>1, <1>2 DEF Infos, FollowsFile, new

\* Its events tell the new values, and every value that is new.
LEMMA FileEvents ==
  ASSUME NEW confs \in Infos, NEW config \in Config, NEW p \in Path
  PROVE  LET new == File!Compared(confs, config, p)
             events == File!ComparedEvents(confs, config, p)
         IN /\ events \subseteq EventFrom({Name})
            /\ PopulateEvents(Name, ValuesOf(confs), ValuesOf(new)) \subseteq events
            /\ \A e \in events : Result(e) = ValuesOf(new)[e.key]
            /\ \A k \in Key :
                 About(k, events) \/ ValuesOf(new)[k] = ValuesOf(confs)[k]
<1> DEFINE new == File!Compared(confs, config, p)
           events == File!ComparedEvents(confs, config, p)
           changed == PopulateEvents(Name, ValuesOf(confs), ValuesOf(new))
           taken == {j \in Key : /\ config[j] # None
                                 /\ confs[j].path \notin {p, Nobody}
                                 /\ File!Overrides(p, confs[j].path)}
           takes == {ConstructEvent(Name, Update, k, config[k]) : k \in taken}
<1>1. new \in Infos /\ ValuesOf(new) \in Config /\ ValuesOf(confs) \in Config
  BY FileCompared, ValuesType
<1>2. events = changed \cup takes
  BY DEF File!ComparedEvents, File!PopulateEvents, PopulateEvents,
         File!ConstructEvent, ConstructEvent, File!ValuesOf, ValuesOf,
         File!Create, Create, File!Update, Update, File!Delete, Delete,
         File!NoInfo, NoInfo, File!TakenEvents, File!Contested
<1>3. ASSUME NEW e \in takes
      PROVE  e \in EventFrom({Name}) /\ Result(e) = ValuesOf(new)[e.key]
  <2>1. PICK k \in taken : e = ConstructEvent(Name, Update, k, config[k])
    OBVIOUS
  <2>2. k \in Key /\ config[k] \in Value /\ config[k] # None
    BY DEF Config
  <2>3. e.type = Update /\ e.key = k /\ e.val = config[k] /\ e \in EventFrom({Name})
    BY <2>1, <2>2 DEF ConstructEvent, EventFrom
  <2>4. confs[k] \in Info \cup {NoInfo} /\ confs[k].path # Nobody
    BY <2>2 DEF Infos
  <2>5. confs[k] # NoInfo /\ confs[k] = [path |-> confs[k].path, value |-> confs[k].value]
    BY <2>4, InfoParts
  <2>6. new[k] = [confs[k] EXCEPT !.value = config[k]]
    BY <2>2, <2>5 DEF File!Compared, File!NoInfo, NoInfo
  <2>7. new[k].value = config[k]
    BY <2>5, <2>6
  <2>8. new[k] # NoInfo
    <3>1. new[k].path # Nobody
      BY <2>4, <2>5, <2>6
    <3> QED BY <3>1 DEF NoInfo
  <2>9. ValuesOf(new)[k] = config[k]
    BY <2>2, <2>7, <2>8 DEF ValuesOf
  <2> QED BY <2>3, <2>9 DEF Result, Update, Delete
<1> HIDE DEF new, events, takes, taken
<1>4. /\ changed \subseteq EventFrom({Name})
      /\ \A e \in changed : Result(e) = ValuesOf(new)[e.key]
      /\ \A k \in Key : ValuesOf(confs)[k] # ValuesOf(new)[k] => About(k, changed)
  <2> DEFINE old == ValuesOf(confs)
             upd == ValuesOf(new)
  <2> HIDE DEF old, upd
  <2>1. old \in Config /\ upd \in Config
    BY <1>1 DEF old, upd
  <2>2. PopulateEvents(Name, old, upd) \subseteq EventFrom({Name})
    BY <2>1, PopulateEventsType
  <2>3. /\ \A e \in PopulateEvents(Name, old, upd) :
             upd[e.key] = IF e.type = Delete THEN None ELSE e.val
        /\ \A k \in Key : old[k] # upd[k] =>
             \E e \in PopulateEvents(Name, old, upd) : e.key = k
    BY <2>1, PopulateEventsComplete
  <2> QED BY <2>2, <2>3 DEF Result, About, old, upd
<1> HIDE DEF changed
<1>5. \A k : About(k, changed) => About(k, events)
  BY <1>2 DEF About
<1> QED BY <1>2, <1>3, <1>4, <1>5 DEF new, events, changed

\* compareUpdate of what g has read, on the infos the source has.
LEMMA FileCompareUpdate ==
  ASSUME FileInv, NEW g \in Goroutine, reading[g] # NoReading,
         File!CompareUpdate(g), File!HasCompared(g),
         UNCHANGED <<files, watching, copy, cleaned>>
  PROVE  HeldOK' /\ WorkOK(Name)' /\ Resting' /\ FileTold'
<1> DEFINE p == reading[g].path
           config == reading[g].content
           infos == File!Compared(Configurations, config, p)
           events == File!ComparedEvents(Configurations, config, p)
<1> USE DEF FileInv
<1>1. p \in Path /\ config \in Config /\ Configurations \in Infos
  BY DEF WorkOK, HeldOK
<1>2. HasCompared(g)
  BY DEF File!HasCompared, HasCompared, File!NoReading, NoReading,
         File!Goroutine, Goroutine, File!App, App, File!Watcher, Watcher
<1>3. CASE File!FilePriority(p) = MaxUint32
  <2>1. UNCHANGED <<Configurations, loaded, shared, raced, todo>>
    BY <1>3 DEF File!CompareUpdate
  <2>2. HeldOK'
    BY <2>1 DEF HeldOK
  <2>3. WorkOK(Name)'
    BY <1>2, <2>1 DEF WorkOK, HasCompared
  <2>4. Resting'
    BY <1>2, <2>1 DEF WorkOK, Resting, HasCompared
  <2>5. Values' = Values
    BY <2>1 DEF Values, ValuesOf
  <2>6. FileTold'
    BY <2>1, <2>5 DEF FileTold
  <2> QED BY <2>2, <2>3, <2>4, <2>6
<1>4. CASE File!FilePriority(p) # MaxUint32
  <2>1. Compares(g, infos, events)
    BY <1>4 DEF File!CompareUpdate, File!Compares, Compares, File!Announced,
                Announced, File!Conflicts,
                Conflicts, File!Goroutine, Goroutine, File!App, App,
                File!Watcher, Watcher
  <2> HIDE DEF p, config
  <2>2. infos \in Infos /\ FollowsFile(infos, Configurations, config, p)
    BY <1>1, FileCompared
  <2>3. /\ events \subseteq EventFrom({Name})
        /\ \A e \in events : Result(e) = ValuesOf(infos)[e.key]
        /\ \A k \in Key :
             About(k, events) \/ ValuesOf(infos)[k] = ValuesOf(Configurations)[k]
    BY <1>1, FileEvents
  <2> HIDE DEF infos, events
  <2> USE DEF p, config
  <2>4. HeldOK' /\ WorkOK(Name)' /\ Resting'
    BY <1>2, <2>1, <2>2, <2>3, ComparesKeeps
  <2>5. Follows(shared', loaded', Configurations')
    BY <2>1, <2>2, ComparesFollows DEF FileTold
  <2>6. ASSUME ~cleaned, watching
        PROVE  Announces(raced', copy', Values', todo')
    <3>1. Announces(raced \cup {}, copy, Values, todo)
      BY <2>6 DEF FileTold
    <3>2. \A k \in Key \ {} : \/ About(k, events)
                              \/ k \notin {} /\ ValuesOf(infos)[k] = Values[k]
      BY <2>3 DEF Values
    <3>3. Announces(raced' \cup {}, copy', ValuesOf(infos), todo')
      BY <2>1, <2>3, <2>6, <3>1, <3>2, ComparesTold
    <3>4. Configurations' = infos
      BY <2>1 DEF Compares
    <3>5. Values' = ValuesOf(infos)
      BY <3>4 DEF Values, ValuesOf
    <3> QED BY <3>3, <3>5
  <2> QED BY <2>4, <2>5, <2>6 DEF FileTold
<1> QED BY <1>3, <1>4


LEMMA FileToldStays ==
  ASSUME FileTold,
         UNCHANGED <<Configurations, loaded, shared, todo, copy, raced, watching,
                     cleaned>>
  PROVE  FileTold'
<1>1. Values' = Values
  BY DEF Values, ValuesOf
<1> QED BY <1>1 DEF FileTold

LEMMA WorkStays ==
  ASSUME NEW source, WorkOK(source), Resting,
         UNCHANGED <<reading, todo, copy, watching>>
  PROVE  WorkOK(source)' /\ Resting'
BY DEF WorkOK, Resting

LEMMA HeldStays ==
  ASSUME HeldOK, UNCHANGED held
  PROVE  HeldOK'
BY DEF HeldOK, held

LEMMA DiskStays ==
  ASSUME DiskOK, UNCHANGED <<disk, receiving, watched, notices>>
  PROVE  DiskOK'
BY DEF DiskOK

LEMMA JobStays ==
  ASSUME JobOK, UNCHANGED <<adding, reading, cleaned, files>>
  PROVE  JobOK'
BY DEF JobOK

LEMMA FileEnvironmentKeeps ==
  ASSUME FileInv, File!Environment
  PROVE  FileInv'
<1> USE DEF FileInv
<1> File!Content = Content
  BY DEF File!Content, Content, File!Config, Config
<1>1. PICK p \in Path :
        \/ \E content \in Content : Write(p, content)
        \/ \E op \in {"Remove", "Rename"} : Remove(p, op)
  <2>1. PICK p \in Path : \/ \E content \in Content : File!Write(p, content)
                          \/ \E op \in {"Remove", "Rename"} : File!Remove(p, op)
    BY DEF File!Environment
  <2>2. \A content : File!Write(p, content) => Write(p, content)
    BY DEF File!Write, Write, File!Changed, Changed, File!held, held
  <2>3. \A op : File!Remove(p, op) => Remove(p, op)
    BY DEF File!Remove, Remove, File!Changed, Changed, File!held, held
  <2> QED BY <2>1, <2>2, <2>3
<1>2. UNCHANGED <<held, watching, receiving, reading, todo, copy, shared, raced, cleaned>>
  BY <1>1 DEF Write, Remove, Changed
<1>3. UNCHANGED adding
  BY DEF File!Environment
<1>4. DiskOK'
  BY <1>1, EnvironmentKeeps
<1>5. HeldOK' /\ WorkOK(Name)' /\ Resting'
  BY <1>2, HeldStays, WorkStays
<1>6. JobOK'
  BY <1>2, <1>3, JobStays DEF held
<1>7. FileTold'
  BY <1>2, FileToldStays DEF held
<1> QED BY <1>4, <1>5, <1>6, <1>7

\* AddFile and AddDirectory.
LEMMA FileStartKeeps ==
  ASSUME FileInv, NEW paths \in SUBSET Path, NEW priority \in Priority,
         NEW directory \in BOOLEAN, File!Start(paths, priority, directory)
  PROVE  FileInv'
<1> USE DEF FileInv
<1>1. /\ UNCHANGED <<disk, held, watching, receiving, watched, notices, reading, todo, copy,
                     shared, raced, cleaned>>
      /\ adding = File!NoJob
      /\ adding' = [paths |-> paths, watch |-> paths, listed |-> FALSE,
                    priority |-> priority, directory |-> directory]
  BY DEF File!Start, File!tableVars, File!held, held, File!history
<1>2. DiskOK' /\ HeldOK' /\ WorkOK(Name)' /\ Resting'
  BY <1>1, DiskStays, HeldStays, WorkStays
<1>3. JobOK'
  BY <1>1 DEF JobOK
<1>4. FileTold'
  BY <1>1, FileToldStays DEF held
<1> QED BY <1>2, <1>3, <1>4

LEMMA FileReadFileKeeps ==
  ASSUME FileInv, NEW p \in Path, File!ReadFile(p)
  PROVE  FileInv'
<1> USE DEF FileInv
<1>1. /\ UNCHANGED <<disk, held, watching, receiving, watched, notices, todo, copy, shared,
                     raced, cleaned>>
      /\ p \in adding.paths /\ reading[App] = NoReading /\ todo[App] = {}
  BY DEF File!ReadFile, File!held, held, File!App, App, File!NoReading, NoReading
<1>2. App \in Goroutine
  BY DEF Goroutine
<1>3. adding # File!NoJob
  BY <1>1 DEF File!NoJob
<1>4. DiskOK' /\ HeldOK'
  BY <1>1, DiskStays, HeldStays
<1>5. FileTold'
  BY <1>1, FileToldStays DEF held
<1>6. CASE disk[p] \in Config
  <2>1. Read(App, p) /\ UNCHANGED adding
    BY <1>6 DEF File!ReadFile, File!Read, Read, File!Config, Config, File!App,
                App, File!Goroutine, Goroutine, File!Watcher, Watcher
  <2>2. WorkOK(Name)' /\ Resting'
    BY <1>1, <1>2, <1>6, <2>1, ReadKeeps
  <2>3. JobOK'
    BY <1>1, <1>3, <2>1 DEF JobOK, held
  <2> QED BY <1>4, <1>5, <2>2, <2>3
<1>7. CASE disk[p] \notin Config
  <2>1. /\ adding' = IF adding.directory
                     THEN [adding EXCEPT !.paths = @ \ {p}] ELSE File!NoJob
        /\ UNCHANGED reading
    BY <1>7 DEF File!ReadFile, File!Config, Config
  <2>2. WorkOK(Name)' /\ Resting'
    BY <1>1, <2>1, WorkStays
  <2>3. adding \in [paths : SUBSET Path, watch : SUBSET Path, listed : BOOLEAN,
                    priority : Priority, directory : BOOLEAN]
        /\ adding.paths \subseteq adding.watch
    BY <1>3 DEF JobOK
  <2>4. CASE adding.directory
    <3>1. /\ adding' \in [paths : SUBSET Path, watch : SUBSET Path, listed : BOOLEAN,
                          priority : Priority, directory : BOOLEAN]
          /\ adding'.paths \subseteq adding'.watch
      BY <2>1, <2>3, <2>4
    <3> QED BY <1>1, <1>3, <1>4, <1>5, <2>1, <2>2, <3>1 DEF JobOK, held
  <2>5. CASE ~adding.directory
    <3>1. adding' = File!NoJob /\ adding'.paths \subseteq adding'.watch
      BY <2>1, <2>5 DEF File!NoJob
    <3>2. JobOK'
      BY <1>1, <2>1, <3>1 DEF JobOK, held
    <3> QED BY <1>4, <1>5, <2>2, <3>2
  <2> QED BY <2>4, <2>5
<1> QED BY <1>6, <1>7

LEMMA FileListFileKeeps ==
  ASSUME FileInv, File!ListFile
  PROVE  FileInv'
<1> USE DEF FileInv
<1>1. /\ UNCHANGED <<disk, Configurations, loaded, watching, receiving, watched, notices,
                     reading, todo, copy, shared, raced, cleaned>>
      /\ adding' = [adding EXCEPT !.listed = TRUE]
      /\ reading[App] # NoReading
      /\ HandlePriority(reading[App].path, adding.priority)
  BY DEF File!ListFile, File!history, File!App, App, File!NoReading, NoReading,
         File!HandlePriority, HandlePriority
<1>2. App \in Goroutine
  BY DEF Goroutine
<1>3. adding \in [paths : SUBSET Path, watch : SUBSET Path, listed : BOOLEAN,
                  priority : Priority, directory : BOOLEAN]
      /\ adding.paths \subseteq adding.watch /\ adding # File!NoJob
  BY <1>1 DEF JobOK
<1>4. adding.priority \in 0..MaxUint32 /\ reading[App].path \in Path
  BY <1>1, <1>2, <1>3 DEF WorkOK
<1>5. DiskOK' /\ WorkOK(Name)' /\ Resting'
  BY <1>1, DiskStays, WorkStays
<1>6. HeldOK'
  BY <1>1, <1>4, HandlePriorityKeeps
<1>7. JobOK'
  <2>2. /\ adding' \in [paths : SUBSET Path, watch : SUBSET Path, listed : BOOLEAN,
                        priority : Priority, directory : BOOLEAN]
        /\ adding'.paths \subseteq adding'.watch
    BY <1>1, <1>3
  <2>3. adding' # File!NoJob
    BY <1>1, <1>3 DEF File!NoJob
  <2> QED BY <1>1, <2>2, <2>3 DEF JobOK
<1>8. FileTold'
  BY <1>1, FileToldStays
<1> QED BY <1>5, <1>6, <1>7, <1>8

LEMMA FileHandleFileKeeps ==
  ASSUME FileInv, File!HandleFile
  PROVE  FileInv'
<1> USE DEF FileInv
<1>1. /\ UNCHANGED <<disk, files, watching, receiving, watched, notices, copy, cleaned>>
      /\ reading[App] # NoReading
      /\ File!CompareUpdate(App) /\ File!HasCompared(App)
      /\ adding' = [adding EXCEPT !.paths = @ \ {reading[App].path},
                                  !.listed = FALSE]
  BY DEF File!HandleFile, File!App, App, File!NoReading, NoReading
<1>2. App \in Goroutine
  BY DEF Goroutine
<1>3. adding \in [paths : SUBSET Path, watch : SUBSET Path, listed : BOOLEAN,
                  priority : Priority, directory : BOOLEAN]
      /\ adding.paths \subseteq adding.watch
  BY <1>1 DEF JobOK
<1>4. HeldOK' /\ WorkOK(Name)' /\ Resting' /\ FileTold'
  BY <1>1, <1>2, FileCompareUpdate
<1>5. DiskOK'
  BY <1>1, DiskStays
<1>6. JobOK'
  <2>1. /\ adding' \in [paths : SUBSET Path, watch : SUBSET Path, listed : BOOLEAN,
                        priority : Priority, directory : BOOLEAN]
        /\ adding'.paths \subseteq adding'.watch
    BY <1>1, <1>3
  <2>2. reading'[App] = NoReading
    BY <1>1, <1>2 DEF File!HasCompared, WorkOK, File!NoReading, NoReading
  <2> QED BY <1>1, <1>3, <2>1, <2>2 DEF JobOK
<1> QED BY <1>4, <1>5, <1>6

LEMMA FileFinishAddKeeps ==
  ASSUME FileInv, File!FinishAdd
  PROVE  FileInv'
<1> USE DEF FileInv
<1>1. /\ UNCHANGED <<disk, held, watching, receiving, notices, reading, todo, copy, shared,
                     raced, cleaned>>
      /\ reading[App] = NoReading
      /\ adding' = File!NoJob
      /\ watched' \subseteq watched \cup adding.watch
  BY DEF File!FinishAdd, File!held, held, File!history, File!App, App,
         File!NoReading, NoReading
<1>2. adding.watch \subseteq Path
  BY DEF JobOK, File!NoJob
<1>3. DiskOK'
  BY <1>1, <1>2 DEF DiskOK
<1>4. HeldOK' /\ WorkOK(Name)' /\ Resting'
  BY <1>1, HeldStays, WorkStays
<1>5. JobOK'
  BY <1>1 DEF JobOK, held, File!NoJob
<1>6. FileTold'
  BY <1>1, FileToldStays DEF held
<1> QED BY <1>3, <1>4, <1>5, <1>6

LEMMA FileWatchKeeps ==
  ASSUME FileInv, File!StartWatch
  PROVE  FileInv'
<1> USE DEF FileInv
<1>1. /\ UNCHANGED <<disk, held, notices, reading, todo, adding, shared, raced,
                     cleaned>>
      /\ ~watching
      /\ copy' = Values
      /\ watched' \subseteq Path /\ receiving' = TRUE
  BY DEF File!StartWatch, File!Watch, File!held, held, File!history,
         File!Values, Values, File!ValuesOf, ValuesOf, File!NoInfo, NoInfo
<1>2. \A g \in Goroutine : todo[g] = {}
  BY <1>1 DEF Resting
<1>3. DiskOK' /\ HeldOK'
  BY <1>1, HeldStays DEF DiskOK
<1>4. WorkOK(Name)' /\ Resting'
  BY <1>1, <1>2, ValuesType DEF WorkOK, Resting, Values, HeldOK
<1>5. JobOK'
  BY <1>1, JobStays DEF held
<1>6. FileTold'
  <2>1. Values' = Values /\ UNCHANGED <<Configurations, loaded>>
    BY <1>1 DEF Values, ValuesOf, held
  <2>2. Announces(raced, Values, Values, todo)
    BY <1>2 DEF Announces
  <2>3. Follows(shared, loaded, Configurations)
    BY DEF FileTold
  <2> QED BY <1>1, <2>1, <2>2, <2>3 DEF FileTold
<1> QED BY <1>3, <1>4, <1>5, <1>6

LEMMA FileReceiveKeeps ==
  ASSUME FileInv, NEW notice \in notices, File!Receive(notice[1], notice[2])
  PROVE  FileInv'
<1> USE DEF FileInv
<1>1. PICK p \in Path, op \in {"Write", "Remove", "Rename"} :
        p = notice[1] /\ op = notice[2]
  BY DEF DiskOK
<1>2. /\ UNCHANGED <<disk, held, watching, receiving, adding, todo, copy, shared, raced,
                     cleaned>>
      /\ todo[Watcher] = {}
      /\ notices' \subseteq notices /\ watched' \subseteq watched \cup {p}
      /\ IF op = "Write" /\ disk[p] \in Config
         THEN Read(Watcher, p) ELSE UNCHANGED <<reading, missed>>
  BY <1>1 DEF File!Receive, File!held, held, File!Read, Read, File!Config, Config,
              File!App, App, File!Goroutine, Goroutine, File!Watcher, Watcher,
              File!NoReading, NoReading
<1>3. Watcher \in Goroutine /\ Watcher # App
  BY DEF Goroutine, Watcher, App
<1>4. DiskOK' /\ HeldOK'
  BY <1>2, HeldStays DEF DiskOK
<1>5. FileTold'
  BY <1>2, FileToldStays DEF held
<1>6. CASE op = "Write" /\ disk[p] \in Config
  <2>1. WorkOK(Name)' /\ Resting'
    BY <1>2, <1>3, <1>6, ReadKeeps
  <2>2. reading' = [reading EXCEPT ![Watcher] = [path |-> p, content |-> disk[p]]]
    BY <1>2, <1>6 DEF Read
  <2>3. reading'[App] = reading[App]
    BY <1>3, <2>2 DEF WorkOK, Goroutine
  <2>4. JobOK'
    BY <1>2, <2>3 DEF JobOK, held
  <2> QED BY <1>4, <1>5, <2>1, <2>4
<1>7. CASE ~(op = "Write" /\ disk[p] \in Config)
  BY <1>2, <1>4, <1>5, <1>7, WorkStays, JobStays DEF held
<1> QED BY <1>6, <1>7

LEMMA FileReloadKeeps ==
  ASSUME FileInv, File!Reload
  PROVE  FileInv'
<1> USE DEF FileInv
<1>1. /\ UNCHANGED <<disk, files, watching, receiving, watched, notices, adding, copy, cleaned>>
      /\ reading[Watcher] # NoReading
      /\ File!CompareUpdate(Watcher) /\ File!HasCompared(Watcher)
  BY DEF File!Reload, File!Watcher, Watcher, File!NoReading, NoReading
<1>2. Watcher \in Goroutine /\ Watcher # App
  BY DEF Goroutine, Watcher, App
<1>3. HeldOK' /\ WorkOK(Name)' /\ Resting' /\ FileTold'
  BY <1>1, <1>2, FileCompareUpdate
<1>4. DiskOK'
  BY <1>1, DiskStays
<1>5. reading'[App] = reading[App]
  BY <1>1, <1>2 DEF File!HasCompared, WorkOK
<1>6. JobOK'
  BY <1>1, <1>5 DEF JobOK
<1> QED BY <1>3, <1>4, <1>6

LEMMA FileFireKeeps ==
  ASSUME FileInv, NEW g \in Goroutine, NEW e, File!Fire(g, e)
  PROVE  FileInv'
<1> USE DEF FileInv
<1>1. OnEvent(g, e) /\ UNCHANGED adding
  BY DEF File!Fire, File!OnEvent, OnEvent, File!Follow, Follow, File!held, held,
         File!history, history, File!Delete, Delete
<1>2. UNCHANGED <<disk, held, watching, receiving, watched, notices, reading, shared, raced,
                  cleaned>>
  BY <1>1 DEF OnEvent, history
<1>3. /\ WorkOK(Name)' /\ Resting'
      /\ \A S, vals : Announces(S, copy, vals, todo) =>
           Announces(S, copy', vals, todo')
  BY <1>1, OnEventKeeps
<1>4. DiskOK' /\ HeldOK'
  BY <1>2, DiskStays, HeldStays
<1>5. JobOK'
  BY <1>1, <1>2, JobStays DEF held
<1>6. FileTold'
  <2>1. Values' = Values /\ UNCHANGED <<Configurations, loaded>>
    BY <1>2 DEF Values, ValuesOf, held
  <2>2. ~cleaned /\ watching => Announces(raced, copy', Values, todo')
    BY <1>3 DEF FileTold
  <2> QED BY <1>2, <2>1, <2>2 DEF FileTold
<1> QED BY <1>3, <1>4, <1>5, <1>6

LEMMA FileWatchEndsKeeps ==
  ASSUME FileInv, File!WatchEnds
  PROVE  FileInv'
<1> USE DEF FileInv
<1>1. /\ UNCHANGED <<disk, held, watching, reading, todo, adding, copy, shared,
                     raced, cleaned>>
      /\ receiving' = FALSE /\ watched' = {} /\ notices' = {}
  BY DEF File!WatchEnds, File!WatcherFails, File!held, held
<1>2. DiskOK' /\ HeldOK' /\ WorkOK(Name)' /\ Resting'
  BY <1>1, HeldStays, WorkStays DEF DiskOK
<1>3. JobOK' /\ FileTold'
  BY <1>1, JobStays, FileToldStays DEF held
<1> QED BY <1>2, <1>3

\* Cleanup leaves nothing, or what a comparison that had begun found.  Of what
\* the Manager was told of the source nothing is claimed after it.
LEMMA FileCleanupKeeps ==
  ASSUME FileInv, File!Cleanup
  PROVE  FileInv'
<1> USE DEF FileInv
<1> DEFINE p == reading[Watcher].path
           config == reading[Watcher].content
           Emptied == [q \in Path |-> EmptyConfig]
<1>1. /\ adding = File!NoJob /\ cleaned' = TRUE
      /\ files' = [q \in Path |-> <<>>]
      /\ receiving' = FALSE /\ watched' = {} /\ notices' = {}
      /\ UNCHANGED <<disk, watching, adding, copy>>
  BY DEF File!Cleanup
<1>2. Watcher \in Goroutine /\ Watcher # App /\ reading[App] = NoReading
  BY <1>1 DEF Goroutine, Watcher, App, JobOK
<1>3. DiskOK'
  BY <1>1 DEF DiskOK
<1>4. files' \in [Path -> Seq(0..MaxUint32)]
  BY <1>1, EmptySeq
<1>5. /\ File!EmptyConfig = EmptyConfig /\ File!NoInfos = NoInfos
      /\ File!Watcher = Watcher /\ File!NoReading = NoReading
  BY DEF File!EmptyConfig, EmptyConfig, File!NoInfos, NoInfos, File!NoInfo, NoInfo,
         File!Watcher, Watcher, File!NoReading, NoReading
<1>6. /\ \A contents : File!Conflicts(contents) = Conflicts(contents)
      /\ \A confs : File!Contested(confs, config, p) = Contested(confs, config, p)
      /\ \A infos, S : File!TakenOver(infos, config, S) = TakenOver(infos, config, S)
  BY DEF File!Conflicts, Conflicts, File!Contested, Contested, File!TakenOver,
         TakenOver
<1>7. SUFFICES HeldOK' /\ WorkOK(Name)' /\ Resting' /\ JobOK'
               /\ Follows(shared', loaded', Configurations')
  BY <1>1, <1>3 DEF FileTold
<1>8. CASE /\ Configurations' = NoInfos /\ loaded' = Emptied
           /\ UNCHANGED <<reading, todo, shared>>
  <2>1. HeldOK' /\ Follows(shared', loaded', Configurations')
    BY <1>4, <1>8, EmptiedFollows DEF HeldOK
  <2>2. WorkOK(Name)' /\ Resting'
    BY <1>1, <1>8, WorkStays
  <2>3. JobOK'
    BY <1>1, <1>2, <1>8 DEF JobOK
  <2> QED BY <2>1, <2>2, <2>3
<1>9. CASE /\ p # Nobody
           /\ \E confs \in {Configurations, NoInfos} :
              \E unlisted \in SUBSET File!Contested(confs, config, p) :
                /\ Configurations' =
                     File!TakenOver(File!Compared(confs, config, p), config,
                                    unlisted)
                /\ loaded' = [(IF confs = NoInfos THEN Emptied ELSE loaded)
                                EXCEPT ![p] = config]
                /\ File!Announced(Watcher,
                     {e \in File!ComparedEvents(confs, config, p) :
                        e.key \notin unlisted}
                     \cup File!TakenEvents(config, unlisted))
           /\ shared' = shared \cup File!Conflicts(loaded')
           /\ reading' = [reading EXCEPT ![Watcher] = NoReading]
  <2>1. PICK confs \in {Configurations, NoInfos},
             unlisted \in SUBSET Key :
          /\ unlisted \subseteq File!Contested(confs, config, p)
          /\ Configurations' =
               File!TakenOver(File!Compared(confs, config, p), config, unlisted)
          /\ loaded' = [(IF confs = NoInfos THEN Emptied ELSE loaded)
                          EXCEPT ![p] = config]
          /\ File!Announced(Watcher,
               {e \in File!ComparedEvents(confs, config, p) :
                  e.key \notin unlisted}
               \cup File!TakenEvents(config, unlisted))
    BY <1>9 DEF File!Contested
  <2>2. p \in Path /\ config \in Config
    BY <1>2, <1>9, NoReadingParts DEF WorkOK
  <2>3. confs \in Infos
    BY EmptiedFollows DEF HeldOK
  <2> DEFINE events == {e \in File!ComparedEvents(confs, config, p) :
                          e.key \notin unlisted}
                         \cup File!TakenEvents(config, unlisted)
  <2>4. events \subseteq EventFrom({Name})
    <3>1. File!ComparedEvents(confs, config, p) \subseteq EventFrom({Name})
      BY <2>2, <2>3, FileEvents
    <3>2. File!TakenEvents(config, unlisted) \subseteq EventFrom({Name})
      <4>1. \A k \in unlisted : k \in Key /\ config[k] \in Value
        BY <2>1, <2>2 DEF File!Contested, Config
      <4> QED BY <4>1 DEF File!TakenEvents, File!ConstructEvent, File!Update,
                          Update, EventFrom
    <3> QED BY <3>1, <3>2
  <2>5. todo' = [todo EXCEPT ![Watcher] = IF watching THEN events ELSE {}]
    BY <2>1 DEF File!Announced, File!Watcher, Watcher
  <2>6. /\ File!Compared(confs, config, p) \in Infos
        /\ FollowsFile(File!Compared(confs, config, p), confs, config, p)
    BY <2>2, <2>3, FileCompared
  <2> DEFINE new == File!Compared(confs, config, p)
             contents == IF confs = NoInfos THEN Emptied ELSE loaded
  <2>7. /\ Configurations' = TakenOver(new, config, unlisted)
        /\ unlisted \in SUBSET Contested(confs, config, p)
        /\ loaded' = [contents EXCEPT ![p] = config]
        /\ shared' = shared \cup Conflicts(loaded')
        /\ reading' = [reading EXCEPT ![Watcher] = NoReading]
    BY <1>6, <1>9, <2>1
  <2> HIDE DEF events, new, p, config
  <2>8. /\ Configurations' \in Infos /\ loaded' \in [Path -> Config]
        /\ Follows(shared', loaded', Configurations')
    BY <2>2, <2>6, <2>7, InterruptedFollows DEF FileTold, new
  <2>9. HeldOK'
    BY <1>4, <2>8 DEF HeldOK
  <2>10. WorkOK(Name)'
    BY <1>1, <1>2, <2>4, <2>5, <2>7 DEF WorkOK
  <2>11. Resting'
    BY <1>1, <1>2, <2>5, <2>7 DEF WorkOK, Resting
  <2>12. JobOK'
    BY <1>1, <1>2, <2>7 DEF JobOK, WorkOK
  <2> QED BY <2>8, <2>9, <2>10, <2>11, <2>12
<1> QED BY <1>8, <1>9
        DEF File!Cleanup, File!EmptyConfig, EmptyConfig, File!NoInfos, NoInfos,
            File!NoInfo, NoInfo, File!Watcher, Watcher, File!NoReading, NoReading

LEMMA InitFileInv == InitFile => FileInv
<1> SUFFICES ASSUME InitFile PROVE FileInv
  OBVIOUS
<1> USE DEF InitFile, File!Init, File!InitTable
<1>1. DiskOK
  BY DEF DiskOK, Content
<1>2. HeldOK
  BY EmptySeq DEF HeldOK, Infos, File!NoInfos, File!NoInfo, NoInfo, Config,
     File!EmptyConfig
<1>3. WorkOK(Name)
  BY DEF WorkOK, File!Goroutine, Goroutine, File!App, App, File!Watcher, Watcher,
     File!NoReading, NoReading, Config, File!EmptyConfig
<1>4. Resting
  BY DEF Resting, File!Goroutine, Goroutine, File!App, App, File!Watcher, Watcher
<1>5. JobOK
  BY DEF JobOK, File!NoJob, File!Goroutine, Goroutine, File!App, App,
     File!NoReading, NoReading
<1>6. FileTold
  <2>1. Follows({}, loaded, Configurations)
    BY DEF Follows, Conflicts, File!NoInfos, File!NoInfo, NoInfo,
       File!EmptyConfig
  <2> QED BY <2>1 DEF FileTold
<1> QED BY <1>1, <1>2, <1>3, <1>4, <1>5, <1>6 DEF FileInv

LEMMA FileNextKeeps ==
  ASSUME FileInv, File!Next
  PROVE  FileInv'
<1>1. CASE File!Environment
  BY <1>1, FileEnvironmentKeeps
<1>2. CASE \E p \in Path : \/ \E priority \in Priority : File!AddFile(p, priority)
                           \/ File!ReadFile(p)
  <2>1. PICK p \in Path : \/ \E priority \in Priority : File!AddFile(p, priority)
                          \/ File!ReadFile(p)
    BY <1>2
  <2>2. ASSUME NEW priority \in Priority, File!AddFile(p, priority)
        PROVE  FileInv'
    BY <2>2, FileStartKeeps DEF File!AddFile
  <2> QED BY <2>1, <2>2, FileReadFileKeeps
<1>3. CASE \E priority \in Priority : File!AddDirectory(priority)
  <2>1. PICK priority \in Priority : File!AddDirectory(priority)
    BY <1>3
  <2>2. File!Start(InDirectory, priority, TRUE)
    BY <2>1 DEF File!AddDirectory
  <2> QED BY <2>2, FileStartKeeps
<1>4. CASE File!ListFile \/ File!HandleFile \/ File!FinishAdd
  BY <1>4, FileListFileKeeps, FileHandleFileKeeps, FileFinishAddKeeps
<1>5. CASE File!StartWatch \/ File!WatchEnds \/ File!Reload \/ File!Cleanup
  BY <1>5, FileWatchKeeps, FileWatchEndsKeeps, FileReloadKeeps, FileCleanupKeeps
<1>6. CASE \E notice \in notices : File!Receive(notice[1], notice[2])
  BY <1>6, FileReceiveKeeps
<1>7. CASE \E g \in File!Goroutine : \E e \in todo[g] : File!Fire(g, e)
  <2>1. PICK g \in Goroutine : \E e \in todo[g] : File!Fire(g, e)
    BY <1>7 DEF File!Goroutine, Goroutine, File!App, App, File!Watcher, Watcher
  <2> QED BY <2>1, FileFireKeeps
<1> QED BY <1>1, <1>2, <1>3, <1>4, <1>5, <1>6, <1>7 DEF File!Next

\* compareUpdate's events tell what it changes.
LEMMA FileCompareTells ==
  ASSUME FileInv, NEW g \in Goroutine, reading[g] # NoReading, watching,
         File!CompareUpdate(g), Configurations' # Configurations
  PROVE  File!Tells({})
<1> DEFINE p == reading[g].path
           config == reading[g].content
           infos == File!Compared(Configurations, config, p)
           events == File!ComparedEvents(Configurations, config, p)
<1>1. p \in Path /\ config \in Config /\ Configurations \in Infos
  BY DEF FileInv, WorkOK, HeldOK
<1>2. Configurations' = infos /\ todo' = [todo EXCEPT ![g] = events]
  BY DEF File!CompareUpdate, File!Compares, File!Announced
<1>3. todo'[g] = events
  BY <1>2 DEF FileInv, WorkOK
<1> HIDE DEF p, config
<1>4. /\ PopulateEvents(Name, ValuesOf(Configurations), ValuesOf(infos)) \subseteq events
      /\ \A e \in events : Result(e) = ValuesOf(infos)[e.key]
  BY <1>1, FileEvents
<1> HIDE DEF infos, events
<1>5. File!ValuesOf(Configurations') = ValuesOf(infos)
  BY <1>2 DEF File!ValuesOf, ValuesOf, File!NoInfo, NoInfo
<1>6. File!PopulateEvents(Name, File!Values, File!ValuesOf(Configurations')) =
        PopulateEvents(Name, ValuesOf(Configurations), ValuesOf(infos))
  <2>1. File!Values = ValuesOf(Configurations)
    BY DEF File!Values, File!ValuesOf, ValuesOf, File!NoInfo, NoInfo
  <2>2. \A old, upd : File!PopulateEvents(Name, old, upd) = PopulateEvents(Name, old, upd)
    BY DEF File!PopulateEvents, PopulateEvents, File!ConstructEvent,
           ConstructEvent, File!Create, Create, File!Update, Update, File!Delete,
           Delete
  <2> QED BY <1>5, <2>1, <2>2
<1>7. g \in File!Goroutine
  BY DEF File!Goroutine, Goroutine, File!App, App, File!Watcher, Watcher
<1>8. {e \in File!PopulateEvents(Name, File!Values, File!ValuesOf(Configurations')) :
         e.key \notin {}} \subseteq todo'[g]
  BY <1>3, <1>4, <1>6
<1>9. \A e \in todo'[g] : File!ValuesOf(Configurations')[e.key] =
                            IF e.type = File!Delete THEN None ELSE e.val
  BY <1>3, <1>4, <1>5 DEF Result, File!Delete, Delete
<1> QED BY <1>7, <1>8, <1>9 DEF File!Tells

LEMMA FileTells ==
  ASSUME FileInv, File!Next
  PROVE  File!ChangeIsTold
<1> SUFFICES ASSUME watching, cleaned' = cleaned, Configurations' # Configurations
             PROVE  File!Tells({})
  BY DEF File!ChangeIsTold
<1>1. CASE File!HandleFile
  BY <1>1, FileCompareTells DEF File!HandleFile, File!App, App, File!NoReading,
     NoReading, Goroutine
<1>2. CASE File!Reload
  BY <1>2, FileCompareTells DEF File!Reload, File!Watcher, Watcher,
     File!NoReading, NoReading, Goroutine
<1>3. CASE File!Cleanup
  BY <1>3 DEF File!Cleanup
<1> QED BY <1>1, <1>2, <1>3
    DEF File!Next, File!Environment, File!Write, File!Remove, File!Changed,
        File!AddFile, File!AddDirectory, File!Start, File!tableVars, File!held,
        File!ReadFile, File!ListFile, File!FinishAdd, File!StartWatch, File!Watch,
        File!WatchEnds, File!WatcherFails, File!Receive, File!Fire, File!OnEvent

\* HandleFile and Reload.
LEMMA FileCompareListed ==
  ASSUME FileInv, NEW g \in Goroutine, reading[g] # NoReading,
         File!CompareUpdate(g)
  PROVE  OfListedFiles
<1> DEFINE p == reading[g].path
           config == reading[g].content
<1>1. p \in Path /\ config \in Config /\ Configurations \in Infos
  BY DEF FileInv, WorkOK, HeldOK
<1>2. File!FilePriority(p) = FilePriority(p)
  BY DEF File!FilePriority, FilePriority
<1>3. CASE FilePriority(p) = MaxUint32
  <2>1. UNCHANGED <<Configurations, todo>>
    BY <1>2, <1>3 DEF File!CompareUpdate
  <2> QED BY <2>1, NothingNewIsListed
<1>4. CASE FilePriority(p) # MaxUint32
  <2>1. Configurations' = File!Compared(Configurations, config, p)
        /\ \E events : todo' = [todo EXCEPT ![g] = events]
    BY <1>2, <1>4 DEF File!CompareUpdate, File!Compares, File!Announced
  <2>2. FollowsFile(Configurations', Configurations, config, p)
    BY <1>1, <2>1, FileCompared
  <2>3. \A h \in Goroutine : h # g => todo'[h] = todo[h]
    BY <2>1 DEF FileInv, WorkOK
  <2>4. p \in {q \in Path : files[q] # <<>>}
    BY <1>1, <1>4, ListedPriority
  <2> QED BY <2>2, <2>3, <2>4, ComparisonOfListed
<1> QED BY <1>3, <1>4

LEMMA FileCleanupListed ==
  ASSUME FileInv, File!Cleanup
  PROVE  OfListedFiles
<1> DEFINE p == reading[Watcher].path
           config == reading[Watcher].content
<1>1. /\ File!NoInfos = NoInfos /\ File!Watcher = Watcher
      /\ \A q : File!FilePriority(q) = FilePriority(q)
      /\ \A confs : File!Contested(confs, config, p) = Contested(confs, config, p)
      /\ \A infos, S : File!TakenOver(infos, config, S) = TakenOver(infos, config, S)
      /\ Watcher \in Goroutine
  BY DEF File!NoInfos, NoInfos, File!NoInfo, NoInfo, File!Watcher, Watcher,
         File!FilePriority, FilePriority, File!Contested, Contested,
         File!TakenOver, TakenOver, Goroutine
<1>2. CASE Configurations' = NoInfos /\ UNCHANGED todo
  <2>1. \A k \in Key : Configurations'[k] = NoInfo
    BY <1>2 DEF NoInfos
  <2> QED BY <1>2, <2>1, NothingNewIsListed
<1>3. CASE ~(Configurations' = NoInfos /\ UNCHANGED todo)
  <2>1. /\ p # Nobody /\ FilePriority(p) # MaxUint32
        /\ \E confs \in {Configurations, NoInfos} :
           \E unlisted \in SUBSET File!Contested(confs, config, p) :
             /\ Configurations' =
                  File!TakenOver(File!Compared(confs, config, p), config, unlisted)
             /\ File!Announced(Watcher,
                               {e \in File!ComparedEvents(confs, config, p) :
                                  e.key \notin unlisted}
                                 \cup File!TakenEvents(config, unlisted))
    BY <1>1, <1>3 DEF File!Cleanup
  <2>2. PICK confs \in {Configurations, NoInfos}, unlisted \in SUBSET Key :
          /\ unlisted \subseteq File!Contested(confs, config, p)
          /\ Configurations' =
               File!TakenOver(File!Compared(confs, config, p), config, unlisted)
    BY <2>1 DEF File!Contested
  <2>3. \A h \in Goroutine : h # Watcher => todo'[h] = todo[h]
    BY <2>1 DEF File!Announced, FileInv, WorkOK
  <2>4. p \in Path /\ config \in Config
    BY <1>1, <2>1, NoReadingParts DEF FileInv, WorkOK
  <2>5. confs \in Infos
    BY EmptiedFollows DEF FileInv, HeldOK
  <2>6. FollowsFile(Configurations', confs, config, p)
    BY <1>1, <2>2, <2>4, <2>5, FileCompared, TakingOver
  <2>7. p \in {q \in Path : files[q] # <<>>}
    BY <2>1, <2>4, ListedPriority
  <2> QED BY <1>1, <2>3, <2>6, <2>7, ComparisonOfListed
<1> QED BY <1>2, <1>3

LEMMA FileListed ==
  ASSUME FileInv, File!Next
  PROVE  OfListedFiles
<1>1. CASE File!HandleFile
  BY <1>1, FileCompareListed DEF File!HandleFile, File!App, App, File!NoReading,
     NoReading, Goroutine
<1>2. CASE File!Reload
  BY <1>2, FileCompareListed DEF File!Reload, File!Watcher, Watcher,
     File!NoReading, NoReading, Goroutine
<1>3. CASE File!Cleanup
  BY <1>3, FileCleanupListed
<1>4. CASE UNCHANGED <<Configurations, todo>>
  BY <1>4, NothingNewIsListed
<1>5. CASE \E g \in File!Goroutine : \E e \in todo[g] : File!Fire(g, e)
  <2>1. PICK g \in File!Goroutine : \E e \in todo[g] : File!Fire(g, e)
    BY <1>5
  <2>2. PICK e \in todo[g] : todo' = [todo EXCEPT ![g] = @ \ {e}]
    BY <2>1 DEF File!Fire, File!OnEvent
  <2>3. \A h \in Goroutine : todo'[h] \subseteq todo[h]
    BY <2>2 DEF FileInv, WorkOK
  <2>4. UNCHANGED Configurations
    BY <2>1 DEF File!Fire, File!OnEvent, File!held
  <2> QED BY <2>3, <2>4, NothingNewIsListed
<1> QED BY <1>1, <1>2, <1>3, <1>4, <1>5
    DEF File!Next, File!Environment, File!Write, File!Remove, File!Changed,
        File!AddFile, File!AddDirectory, File!Start, File!tableVars, File!held,
        File!ReadFile, File!ListFile, File!FinishAdd, File!StartWatch, File!Watch,
        File!WatchEnds, File!WatcherFails, File!Receive

-----------------------------------------------------------------------------
(***************************************************************************)
(* The configmap source.                                                   *)
(***************************************************************************)

\* A walk that is not at a file, and the application without a walk, has
\* nothing read and nothing to fire.
WalkOK ==
  /\ walk \in [Goroutine -> {ConfigMap!NoWalk} \cup
                 [paths : SUBSET Path, at : Path \cup {Nobody}, listed : BOOLEAN,
                  priority : 0..MaxUint32]]
  /\ \A g \in Goroutine :
       /\ walk[g].at \in walk[g].paths \cup {Nobody}
       /\ walk[g].listed => walk[g].at # Nobody
       /\ walk[g].at = Nobody /\ (g = App \/ walk[g] # ConfigMap!NoWalk) =>
            reading[g] = NoReading /\ todo[g] = {}

MapTold ==
  /\ Follows(shared, loaded, Configurations)
  /\ watching => Announces(raced \cup tied, copy, Values, todo)

MapInv ==
  /\ DiskOK /\ HeldOK /\ WorkOK(ConfigMapName) /\ Resting /\ WalkOK /\ MapTold
  /\ tied \subseteq Key

LEMMA MapPriorityType ==
  ASSUME HeldOK, NEW p \in Path
  PROVE  ConfigMap!FilePriority(p) \in 0..MaxUint32
<1>1. ConfigMap!FilePriority(p) = FilePriority(p)
  BY DEF ConfigMap!FilePriority, FilePriority
<1> QED BY <1>1, FilePriorityType DEF HeldOK

\* What compareUpdate makes of the infos.
LEMMA MapCompared ==
  ASSUME NEW confs \in Infos, NEW config \in Config, NEW p \in Path
  PROVE  LET new == ConfigMap!Compared(confs, config, p)
         IN new \in Infos /\ FollowsFile(new, confs, config, p)
<1> DEFINE new == ConfigMap!Compared(confs, config, p)
           others == ConfigMap!Ties(confs, config, p)
                       \cup ConfigMap!TakesOver(confs, config, p)
<1>1. ASSUME NEW k \in Key
      PROVE  /\ new[k] \in Info \cup {NoInfo}
             /\ config[k] = None =>
                  new[k] = IF confs[k].path = p THEN NoInfo ELSE confs[k]
             /\ config[k] # None /\ confs[k].path \in {p, Nobody} =>
                  new[k] = [path |-> p, value |-> config[k]]
             /\ config[k] # None => new[k] # NoInfo
             /\ new[k] \in {confs[k], NoInfo} \/ new[k].value = config[k]
  <2> DEFINE info == confs[k]
  <2>1. info \in Info \cup {NoInfo} /\ config[k] \in Value \cup {None}
    BY DEF Infos, Config
  <2>2. new[k] = IF config[k] = None
                 THEN IF info.path = p THEN NoInfo ELSE info
                 ELSE IF info = NoInfo THEN [path |-> p, value |-> config[k]]
                 ELSE IF info.path = p \/ k \in others
                 THEN [info EXCEPT !.value = config[k]] ELSE info
    BY DEF ConfigMap!Compared, ConfigMap!NoInfo, NoInfo
  <2> HIDE DEF new, info, others
  <2>3. info # NoInfo /\ config[k] # None =>
          /\ [info EXCEPT !.value = config[k]] = [path |-> info.path, value |-> config[k]]
          /\ [info EXCEPT !.value = config[k]] \in Info
    <3> SUFFICES ASSUME info # NoInfo, config[k] # None
                 PROVE  /\ [info EXCEPT !.value = config[k]] =
                             [path |-> info.path, value |-> config[k]]
                        /\ [info EXCEPT !.value = config[k]] \in Info
      OBVIOUS
    <3> QED BY <2>1 DEF Info
  <2>4. [path |-> p, value |-> config[k]] \in Info \/ config[k] = None
    BY <2>1 DEF Info
  <2>5. info.path = Nobody <=> info = NoInfo
    BY <2>1, InfoParts
  <2>6. \A i \in Info : i # NoInfo
    BY DEF Info, NoInfo
  <2> QED BY <2>1, <2>2, <2>3, <2>4, <2>5, <2>6 DEF info
<1>2. new = [k \in Key |-> new[k]]
  BY DEF ConfigMap!Compared
<1> HIDE DEF new
<1> QED BY <1>1, <1>2 DEF Infos, FollowsFile, new

LEMMA SameMapTool ==
  /\ \A old, upd : ConfigMap!PopulateEvents(ConfigMapName, old, upd) =
                     PopulateEvents(ConfigMapName, old, upd)
  /\ \A confs : ConfigMap!ValuesOf(confs) = ValuesOf(confs)
  /\ ConfigMap!Goroutine = Goroutine
<1>1. \A old, upd : ConfigMap!PopulateEvents(ConfigMapName, old, upd) =
                      PopulateEvents(ConfigMapName, old, upd)
  BY DEF ConfigMap!PopulateEvents, PopulateEvents, ConfigMap!ConstructEvent,
         ConstructEvent, ConfigMap!Create, Create, ConfigMap!Update, Update,
         ConfigMap!Delete, Delete
<1>2. \A confs : ConfigMap!ValuesOf(confs) = ValuesOf(confs)
  BY DEF ConfigMap!ValuesOf, ValuesOf, ConfigMap!NoInfo, NoInfo
<1>3. ConfigMap!Goroutine = Goroutine
  BY DEF ConfigMap!Goroutine, Goroutine, ConfigMap!App, App, ConfigMap!Watcher,
         Watcher
<1> QED BY <1>1, <1>2, <1>3

\* Its events tell the new values, and every value that is new but those of the
\* ties.
LEMMA MapEvents ==
  ASSUME HeldOK, NEW confs \in Infos, NEW config \in Config, NEW p \in Path
  PROVE  LET new == ConfigMap!Compared(confs, config, p)
             events == ConfigMap!ComparedEvents(confs, config, p)
             ties == ConfigMap!Ties(confs, config, p)
         IN /\ events \subseteq EventFrom({ConfigMapName})
            /\ \A e \in PopulateEvents(ConfigMapName, ValuesOf(confs), ValuesOf(new)) :
                 e \in events \/ (e.key \in ties /\ ~About(e.key, events))
            /\ \A e \in events : Result(e) = ValuesOf(new)[e.key]
            /\ \A k \in Key : \/ About(k, events) \/ k \in ties
                              \/ ValuesOf(new)[k] = ValuesOf(confs)[k]
<1> DEFINE new == ConfigMap!Compared(confs, config, p)
           events == ConfigMap!ComparedEvents(confs, config, p)
           ties == ConfigMap!Ties(confs, config, p)
           taken == ConfigMap!TakesOver(confs, config, p)
           changed == PopulateEvents(ConfigMapName, ValuesOf(confs), ValuesOf(new))
           takes == {ConstructEvent(ConfigMapName, Update, k, config[k]) : k \in taken}
<1>1. new \in Infos /\ ValuesOf(new) \in Config /\ ValuesOf(confs) \in Config
  BY MapCompared, ValuesType
<1>2. events = {e \in changed : e.key \notin ties} \cup takes
  <2>1. ConfigMap!Update = Update
    BY DEF ConfigMap!Update, Update
  <2>2. \A k : ConfigMap!ConstructEvent(ConfigMapName, Update, k, config[k]) =
                 ConstructEvent(ConfigMapName, Update, k, config[k])
    BY DEF ConfigMap!ConstructEvent, ConstructEvent
  <2> QED BY <2>1, <2>2, SameMapTool
          DEF ConfigMap!ComparedEvents, ConfigMap!TakenEvents
<1>3. taken \cap ties = {}
  <2> SUFFICES ASSUME NEW k \in Key, k \in taken, k \in ties PROVE FALSE
    BY DEF ConfigMap!Ties, ConfigMap!TakesOver, ConfigMap!Contested
  <2>1. confs[k].path \in Path
    BY InfoParts DEF Infos, ConfigMap!Ties, ConfigMap!Contested
  <2>2. ConfigMap!FilePriority(p) \in Int /\ ConfigMap!FilePriority(confs[k].path) \in Int
    BY <2>1, MapPriorityType
  <2>3. ConfigMap!FilePriority(p) < ConfigMap!FilePriority(confs[k].path)
    BY DEF ConfigMap!TakesOver, ConfigMap!Overrides
  <2>4. ConfigMap!FilePriority(confs[k].path) = ConfigMap!FilePriority(p)
    BY DEF ConfigMap!Ties
  <2> QED BY <2>2, <2>3, <2>4
<1>4. ASSUME NEW e \in takes
      PROVE  /\ e \in EventFrom({ConfigMapName}) /\ Result(e) = ValuesOf(new)[e.key]
             /\ e.key \notin ties
  <2>1. PICK k \in taken : e = ConstructEvent(ConfigMapName, Update, k, config[k])
    OBVIOUS
  <2>2. k \in Key /\ config[k] \in Value /\ config[k] # None
        /\ confs[k].path \notin {p, Nobody}
    BY DEF Config, ConfigMap!TakesOver, ConfigMap!Contested
  <2>3. e.type = Update /\ e.key = k /\ e.val = config[k]
        /\ e \in EventFrom({ConfigMapName})
    BY <2>1, <2>2 DEF ConstructEvent, EventFrom
  <2>4. confs[k] \in Info \cup {NoInfo} /\ confs[k].path # Nobody
    BY <2>2 DEF Infos
  <2>5. confs[k] # NoInfo /\ confs[k] = [path |-> confs[k].path, value |-> confs[k].value]
    BY <2>4, InfoParts
  <2>6. new[k] = [confs[k] EXCEPT !.value = config[k]]
    BY <2>1, <2>2, <2>5 DEF ConfigMap!Compared, ConfigMap!NoInfo, NoInfo
  <2>7. new[k].value = config[k]
    BY <2>5, <2>6
  <2>8. new[k] # NoInfo
    <3>1. new[k].path # Nobody
      BY <2>4, <2>5, <2>6
    <3> QED BY <3>1 DEF NoInfo
  <2>9. ValuesOf(new)[k] = config[k]
    BY <2>2, <2>7, <2>8 DEF ValuesOf
  <2> QED BY <1>3, <2>1, <2>3, <2>9 DEF Result, Update, Delete
<1> HIDE DEF new, events, ties, takes, taken
<1>5. /\ changed \subseteq EventFrom({ConfigMapName})
      /\ \A e \in changed : Result(e) = ValuesOf(new)[e.key]
      /\ \A k \in Key : ValuesOf(confs)[k] # ValuesOf(new)[k] => About(k, changed)
  <2> DEFINE old == ValuesOf(confs)
             upd == ValuesOf(new)
  <2> HIDE DEF old, upd
  <2>1. old \in Config /\ upd \in Config
    BY <1>1 DEF old, upd
  <2>2. PopulateEvents(ConfigMapName, old, upd) \subseteq EventFrom({ConfigMapName})
    BY <2>1, PopulateEventsType
  <2>3. /\ \A e \in PopulateEvents(ConfigMapName, old, upd) :
             upd[e.key] = IF e.type = Delete THEN None ELSE e.val
        /\ \A k \in Key : old[k] # upd[k] =>
             \E e \in PopulateEvents(ConfigMapName, old, upd) : e.key = k
    BY <2>1, PopulateEventsComplete
  <2> QED BY <2>2, <2>3 DEF Result, About, old, upd
<1> HIDE DEF changed
<1>6. \A e \in changed : e \in events \/ (e.key \in ties /\ ~About(e.key, events))
  BY <1>2, <1>4 DEF About
<1>7. \A k \in Key : \/ About(k, events) \/ k \in ties
                     \/ ValuesOf(new)[k] = ValuesOf(confs)[k]
  BY <1>2, <1>5 DEF About
<1>8. events \subseteq EventFrom({ConfigMapName})
      /\ \A e \in events : Result(e) = ValuesOf(new)[e.key]
  BY <1>2, <1>4, <1>5
<1> QED BY <1>6, <1>7, <1>8 DEF new, events, ties, changed

LEMMA MapToldStays ==
  ASSUME MapTold,
         UNCHANGED <<Configurations, loaded, shared, todo, copy, raced, watching,
                     tied>>
  PROVE  MapTold'
<1>1. Values' = Values
  BY DEF Values, ValuesOf
<1> QED BY <1>1 DEF MapTold

LEMMA WalkStays ==
  ASSUME WalkOK, UNCHANGED <<walk, reading, todo>>
  PROVE  WalkOK'
BY DEF WalkOK

\* compareUpdate of what g has read.
LEMMA MapCompareUpdate ==
  ASSUME MapInv, NEW g \in Goroutine, reading[g] # NoReading,
         ConfigMap!CompareUpdate(g), ConfigMap!HasCompared(g),
         UNCHANGED <<files, watching, copy>>
  PROVE  HeldOK' /\ WorkOK(ConfigMapName)' /\ Resting' /\ MapTold' /\ (tied \subseteq Key)'
<1> DEFINE p == reading[g].path
           config == reading[g].content
           infos == ConfigMap!Compared(Configurations, config, p)
           events == ConfigMap!ComparedEvents(Configurations, config, p)
           ties == ConfigMap!Ties(Configurations, config, p)
<1> USE DEF MapInv
<1>1. p \in Path /\ config \in Config /\ Configurations \in Infos
  BY DEF WorkOK, HeldOK
<1>2. HasCompared(g)
  BY SameMapTool DEF ConfigMap!HasCompared, HasCompared, ConfigMap!NoReading, NoReading
<1>3. CASE ConfigMap!FilePriority(p) = MaxUint32
  <2>1. UNCHANGED <<Configurations, loaded, shared, raced, todo, tied>>
    BY <1>3 DEF ConfigMap!CompareUpdate
  <2>2. HeldOK'
    BY <2>1 DEF HeldOK
  <2>3. WorkOK(ConfigMapName)'
    BY <1>2, <2>1 DEF WorkOK, HasCompared
  <2>4. Resting'
    BY <1>2, <2>1 DEF WorkOK, Resting, HasCompared
  <2>5. MapTold'
    BY <2>1, MapToldStays
  <2> QED BY <2>1, <2>2, <2>3, <2>4, <2>5
<1>4. CASE ConfigMap!FilePriority(p) # MaxUint32
  <2>1. Compares(g, infos, events) /\ tied' = (tied \cup ties) \ {e.key : e \in events}
    BY <1>4, SameMapTool
       DEF ConfigMap!CompareUpdate, ConfigMap!Compares, Compares,
           ConfigMap!Announced, Announced, ConfigMap!Conflicts, Conflicts
  <2>2. ties \subseteq Key
    BY DEF ConfigMap!Ties, ConfigMap!Contested
  <2> HIDE DEF p, config
  <2>3. infos \in Infos /\ FollowsFile(infos, Configurations, config, p)
    BY <1>1, MapCompared
  <2>4. /\ events \subseteq EventFrom({ConfigMapName})
        /\ \A e \in events : Result(e) = ValuesOf(infos)[e.key]
        /\ \A k \in Key : \/ About(k, events) \/ k \in ties
                          \/ ValuesOf(infos)[k] = ValuesOf(Configurations)[k]
    BY <1>1, MapEvents
  <2> USE DEF p, config
  <2> HIDE DEF infos, events, ties
  <2>5. HeldOK' /\ WorkOK(ConfigMapName)' /\ Resting'
    BY <1>2, <2>1, <2>3, <2>4, ComparesKeeps
  <2>6. Follows(shared', loaded', Configurations')
    BY <2>1, <2>3, ComparesFollows DEF MapTold
  <2>7. ASSUME watching
        PROVE  Announces(raced' \cup tied', copy', Values', todo')
    <3>1. Announces(raced \cup tied, copy, Values, todo)
      BY <2>7 DEF MapTold
    <3>2. \A k \in Key \ tied' : \/ About(k, events)
                                 \/ k \notin tied /\ ValuesOf(infos)[k] = Values[k]
      BY <2>1, <2>4 DEF Values, About
    <3>3. Announces(raced' \cup tied', copy', ValuesOf(infos), todo')
      BY <2>1, <2>4, <2>7, <3>1, <3>2, ComparesTold
    <3>4. Configurations' = infos
      BY <2>1 DEF Compares
    <3>5. Values' = ValuesOf(infos)
      BY <3>4 DEF Values, ValuesOf
    <3> QED BY <3>3, <3>5
  <2>8. tied' \subseteq Key
    BY <2>1, <2>2
  <2> QED BY <2>5, <2>6, <2>7, <2>8 DEF MapTold
<1> QED BY <1>3, <1>4

\* What a walk may be, apart from no walk.
Walks == [paths : SUBSET Path, at : Path \cup {Nobody}, listed : BOOLEAN,
          priority : 0..MaxUint32]

LEMMA NoWalkParts ==
  /\ ConfigMap!NoWalk.paths = {} /\ ConfigMap!NoWalk.at = Nobody
  /\ ConfigMap!NoWalk.listed = FALSE
BY DEF ConfigMap!NoWalk

LEMMA WalkOfType ==
  ASSUME NEW paths \in SUBSET Path, NEW priority \in 0..MaxUint32
  PROVE  LET w == ConfigMap!WalkOf(paths, priority)
         IN /\ w \in {ConfigMap!NoWalk} \cup Walks
            /\ w.at = Nobody /\ w.listed = FALSE
<1>1. CASE paths = {}
  BY <1>1, NoWalkParts DEF ConfigMap!WalkOf
<1>2. CASE paths # {}
  BY <1>2 DEF ConfigMap!WalkOf, Walks
<1> QED BY <1>1, <1>2

\* A walk changes, of one goroutine.
LEMMA WalkChanges ==
  ASSUME WalkOK, NEW g \in Goroutine, NEW w \in {ConfigMap!NoWalk} \cup Walks,
         walk' = [walk EXCEPT ![g] = w],
         w.at \in w.paths \cup {Nobody}, w.listed => w.at # Nobody,
         w.at = Nobody /\ (g = App \/ w # ConfigMap!NoWalk) =>
           reading'[g] = NoReading /\ todo'[g] = {},
         \A h \in Goroutine \ {g} : reading'[h] = reading[h] /\ todo'[h] = todo[h]
  PROVE  WalkOK'
<1>1. walk' \in [Goroutine -> {ConfigMap!NoWalk} \cup Walks]
  BY DEF WalkOK, Walks
<1>2. ASSUME NEW h \in Goroutine
      PROVE  /\ walk'[h].at \in walk'[h].paths \cup {Nobody}
             /\ walk'[h].listed => walk'[h].at # Nobody
             /\ walk'[h].at = Nobody /\ (h = App \/ walk'[h] # ConfigMap!NoWalk) =>
                  reading'[h] = NoReading /\ todo'[h] = {}
  <2>1. CASE h = g
    <3>1. walk'[h] = w
      BY <2>1 DEF WalkOK
    <3> QED BY <2>1, <3>1
  <2>2. CASE h # g
    <3>1. walk'[h] = walk[h] /\ reading'[h] = reading[h] /\ todo'[h] = todo[h]
      BY <2>2 DEF WalkOK
    <3> QED BY <3>1 DEF WalkOK
  <2> QED BY <2>1, <2>2
<1> QED BY <1>1, <1>2 DEF WalkOK, Walks

LEMMA MapEnvironmentKeeps ==
  ASSUME MapInv, ConfigMap!Environment
  PROVE  MapInv'
<1> USE DEF MapInv
<1> ConfigMap!Content = Content
  BY DEF ConfigMap!Content, Content, ConfigMap!Config, Config
<1>1. PICK p \in Path :
        \/ \E content \in Content : Write(p, content)
        \/ \E op \in {"Remove", "Rename"} : Remove(p, op)
  <2>1. PICK p \in Path :
          \/ \E content \in Content : ConfigMap!Write(p, content)
          \/ \E op \in {"Remove", "Rename"} : ConfigMap!Remove(p, op)
    BY DEF ConfigMap!Environment
  <2>2. \A content : ConfigMap!Write(p, content) => Write(p, content)
    BY DEF ConfigMap!Write, Write, ConfigMap!Changed, Changed, ConfigMap!held, held
  <2>3. \A op : ConfigMap!Remove(p, op) => Remove(p, op)
    BY DEF ConfigMap!Remove, Remove, ConfigMap!Changed, Changed, ConfigMap!held, held
  <2> QED BY <2>1, <2>2, <2>3
<1>2. UNCHANGED <<held, watching, receiving, reading, todo, copy, shared, raced, walk, tied>>
  BY <1>1 DEF Write, Remove, Changed, ConfigMap!Environment
<1>3. DiskOK'
  BY <1>1, EnvironmentKeeps
<1>4. HeldOK' /\ WorkOK(ConfigMapName)' /\ Resting' /\ WalkOK'
  BY <1>2, HeldStays, WorkStays, WalkStays
<1>5. MapTold'
  BY <1>2, MapToldStays DEF held
<1> QED BY <1>2, <1>3, <1>4, <1>5

\* AddFile and AddDirectory.
LEMMA MapStartKeeps ==
  ASSUME MapInv, NEW paths \in SUBSET Path, NEW priority \in MapPriority,
         ConfigMap!Start(paths, priority), watched' \subseteq watched \cup InDirectory
  PROVE  MapInv'
<1> USE DEF MapInv
<1>1. /\ UNCHANGED <<disk, held, watching, receiving, notices, reading, todo, copy, shared,
                     raced, tied>>
      /\ walk[App] = ConfigMap!NoWalk
      /\ walk' = [walk EXCEPT ![App] = ConfigMap!WalkOf(paths, priority)]
  BY DEF ConfigMap!Start, ConfigMap!held, held, ConfigMap!history, ConfigMap!App, App
<1>2. DiskOK' /\ HeldOK' /\ WorkOK(ConfigMapName)' /\ Resting'
  BY <1>1, HeldStays, WorkStays DEF DiskOK
<1>3. MapTold'
  BY <1>1, MapToldStays DEF held
<1>4. WalkOK'
  <2>1. App \in Goroutine /\ priority \in 0..MaxUint32
    BY DEF Goroutine
  <2>2. reading[App] = NoReading /\ todo[App] = {}
    BY <1>1, <2>1, NoWalkParts DEF WalkOK
  <2> QED BY <1>1, <2>1, <2>2, WalkOfType, WalkChanges
<1> QED BY <1>1, <1>2, <1>3, <1>4

LEMMA MapVisitKeeps ==
  ASSUME MapInv, NEW g \in Goroutine, NEW p \in Path, ConfigMap!Visit(g, p)
  PROVE  MapInv'
<1> USE DEF MapInv
<1>1. /\ UNCHANGED <<disk, held, watching, receiving, notices, todo, copy, shared, raced, tied>>
      /\ p \in walk[g].paths /\ walk[g].at = Nobody
  BY DEF ConfigMap!Visit, ConfigMap!held, held
<1>2. /\ walk[g] # ConfigMap!NoWalk /\ walk[g] \in Walks
      /\ reading[g] = NoReading /\ todo[g] = {}
  BY <1>1, NoWalkParts DEF WalkOK, Walks
<1>3. HeldOK'
  BY <1>1, HeldStays
<1>4. MapTold'
  BY <1>1, MapToldStays DEF held
<1>5. CASE disk[p] \in Config
  <2>1. Read(g, p) /\ walk' = [walk EXCEPT ![g].at = p] /\ UNCHANGED watched
    BY <1>5, SameMapTool DEF ConfigMap!Visit, ConfigMap!Read, Read, ConfigMap!Config, Config
  <2>2. WorkOK(ConfigMapName)' /\ Resting' /\ DiskOK'
    BY <1>1, <1>2, <1>5, <2>1, ReadKeeps, DiskStays
  <2>3. WalkOK'
    <3> DEFINE w == [walk[g] EXCEPT !.at = p]
    <3>1. w \in Walks /\ w.at = p /\ w.paths = walk[g].paths /\ p # Nobody
      BY <1>2 DEF Walks
    <3>2. walk' = [walk EXCEPT ![g] = w]
      BY <2>1 DEF WalkOK
    <3>3. \A h \in Goroutine \ {g} : reading'[h] = reading[h] /\ todo'[h] = todo[h]
      BY <1>1, <2>1 DEF Read, WorkOK
    <3> HIDE DEF w
    <3> QED BY <1>1, <3>1, <3>2, <3>3, WalkChanges
  <2> QED BY <1>1, <1>3, <1>4, <2>2, <2>3
<1>6. CASE disk[p] \notin Config
  <2>1. /\ walk' = [walk EXCEPT ![g] = ConfigMap!NoWalk]
        /\ watched' \subseteq watched \cup {p} /\ UNCHANGED reading
    BY <1>6 DEF ConfigMap!Visit, ConfigMap!Config, Config
  <2>2. WorkOK(ConfigMapName)' /\ Resting' /\ DiskOK'
    BY <1>1, <2>1, WorkStays DEF DiskOK
  <2>3. WalkOK'
    BY <1>1, <1>2, <2>1, NoWalkParts, WalkChanges
  <2> QED BY <1>1, <1>3, <1>4, <2>2, <2>3
<1> QED BY <1>5, <1>6

LEMMA MapListFileKeeps ==
  ASSUME MapInv, NEW g \in Goroutine, ConfigMap!ListFile(g)
  PROVE  MapInv'
<1> USE DEF MapInv
<1>1. /\ UNCHANGED <<disk, Configurations, loaded, watching, receiving, watched, notices,
                     reading, todo, copy, shared, raced, tied>>
      /\ walk[g].at # Nobody
      /\ walk' = [walk EXCEPT ![g].listed = TRUE]
      /\ HandlePriority(walk[g].at, walk[g].priority)
  BY DEF ConfigMap!ListFile, ConfigMap!history, ConfigMap!HandlePriority, HandlePriority
<1>2. walk[g] \in Walks /\ walk[g].at \in walk[g].paths
  BY <1>1, NoWalkParts DEF WalkOK, Walks
<1>3. walk[g].at \in Path /\ walk[g].priority \in 0..MaxUint32
  BY <1>2 DEF Walks
<1>4. DiskOK' /\ WorkOK(ConfigMapName)' /\ Resting' /\ HeldOK'
  BY <1>1, <1>3, DiskStays, WorkStays, HandlePriorityKeeps
<1>5. MapTold'
  BY <1>1, MapToldStays
<1>6. WalkOK'
  <2> DEFINE w == [walk[g] EXCEPT !.listed = TRUE]
  <2>1. w \in Walks /\ w.at = walk[g].at /\ w.paths = walk[g].paths
    BY <1>2 DEF Walks
  <2>2. walk' = [walk EXCEPT ![g] = w]
    BY <1>1 DEF WalkOK
  <2> HIDE DEF w
  <2> QED BY <1>1, <1>2, <2>1, <2>2, WalkChanges
<1> QED BY <1>1, <1>4, <1>5, <1>6

LEMMA MapCompareKeeps ==
  ASSUME MapInv, NEW g \in Goroutine, ConfigMap!Compare(g)
  PROVE  MapInv'
<1> USE DEF MapInv
<1>1. /\ UNCHANGED <<disk, files, watching, receiving, watched, notices, copy, walk>>
      /\ reading[g] # NoReading /\ (walk[g] = ConfigMap!NoWalk \/ walk[g].listed)
      /\ ConfigMap!CompareUpdate(g) /\ ConfigMap!HasCompared(g)
  BY DEF ConfigMap!Compare, ConfigMap!NoReading, NoReading
<1>2. /\ HeldOK' /\ WorkOK(ConfigMapName)' /\ Resting' /\ MapTold'
      /\ (tied \subseteq Key)'
  BY <1>1, MapCompareUpdate
<1>3. DiskOK'
  BY <1>1, DiskStays
<1>4. WalkOK'
  <2>1. ~(walk[g].at = Nobody /\ (g = App \/ walk[g] # ConfigMap!NoWalk))
    BY <1>1, NoWalkParts DEF WalkOK
  <2>2. \A h \in Goroutine \ {g} : reading'[h] = reading[h] /\ todo'[h] = todo[h]
    BY <1>1 DEF ConfigMap!HasCompared, ConfigMap!CompareUpdate, ConfigMap!Compares,
                ConfigMap!Announced, WorkOK
  <2>3. ASSUME NEW h \in Goroutine,
               walk[h].at = Nobody /\ (h = App \/ walk[h] # ConfigMap!NoWalk)
        PROVE  reading'[h] = NoReading /\ todo'[h] = {}
    BY <2>1, <2>2, <2>3 DEF WalkOK
  <2> QED BY <1>1, <2>3 DEF WalkOK
<1> QED BY <1>2, <1>3, <1>4

LEMMA MapWatchFileKeeps ==
  ASSUME MapInv, NEW g \in Goroutine, ConfigMap!WatchFile(g)
  PROVE  MapInv'
<1> USE DEF MapInv
<1> DEFINE p == walk[g].at
<1>1. /\ UNCHANGED <<disk, held, watching, receiving, notices, reading, todo, copy, shared,
                     raced, tied>>
      /\ p # Nobody /\ reading[g] = NoReading /\ todo[g] = {}
      /\ watched' \subseteq watched \cup {p}
      /\ walk' = [walk EXCEPT ![g] =
                    ConfigMap!WalkOf(walk[g].paths \ {p}, walk[g].priority)]
  BY DEF ConfigMap!WatchFile, ConfigMap!held, held, ConfigMap!history,
         ConfigMap!NoReading, NoReading, WalkOK
<1>2. walk[g] \in Walks /\ p \in Path
  BY <1>1, NoWalkParts DEF WalkOK, Walks
<1>3. walk[g].paths \subseteq Path /\ walk[g].priority \in 0..MaxUint32
  BY <1>2 DEF Walks
<1>4. DiskOK' /\ HeldOK' /\ WorkOK(ConfigMapName)' /\ Resting'
  BY <1>1, <1>2, HeldStays, WorkStays DEF DiskOK
<1>5. MapTold'
  BY <1>1, MapToldStays DEF held
<1>6. WalkOK'
  <2> DEFINE w == ConfigMap!WalkOf(walk[g].paths \ {p}, walk[g].priority)
  <2>1. w \in {ConfigMap!NoWalk} \cup Walks /\ w.at = Nobody /\ w.listed = FALSE
    BY <1>3, WalkOfType
  <2>2. walk' = [walk EXCEPT ![g] = w]
    BY <1>1
  <2> HIDE DEF w
  <2> QED BY <1>1, <2>1, <2>2, WalkChanges
<1> QED BY <1>1, <1>4, <1>5, <1>6

LEMMA MapWatchKeeps ==
  ASSUME MapInv, ConfigMap!StartWatch
  PROVE  MapInv'
<1> USE DEF MapInv
<1>1. /\ UNCHANGED <<disk, held, notices, reading, todo, walk, tied, shared, raced>>
      /\ ~watching /\ copy' = Values /\ watched' \subseteq Path
      /\ receiving' = TRUE
  BY SameMapTool DEF ConfigMap!StartWatch, ConfigMap!Watch, ConfigMap!held, held,
     ConfigMap!history, ConfigMap!Values, Values
<1>2. \A g \in Goroutine : todo[g] = {}
  BY <1>1 DEF Resting
<1>3. DiskOK' /\ HeldOK' /\ WalkOK'
  BY <1>1, HeldStays, WalkStays DEF DiskOK
<1>4. WorkOK(ConfigMapName)' /\ Resting'
  BY <1>1, <1>2, ValuesType DEF WorkOK, Resting, Values, HeldOK
<1>5. MapTold'
  <2>1. Values' = Values /\ UNCHANGED <<Configurations, loaded>>
    BY <1>1 DEF Values, ValuesOf, held
  <2>2. Announces(raced \cup tied, Values, Values, todo)
    BY <1>2 DEF Announces
  <2>3. Follows(shared, loaded, Configurations)
    BY DEF MapTold
  <2> QED BY <1>1, <2>1, <2>2, <2>3 DEF MapTold
<1> QED BY <1>1, <1>3, <1>4, <1>5

LEMMA MapFireKeeps ==
  ASSUME MapInv, NEW g \in Goroutine, NEW e, ConfigMap!Fire(g, e)
  PROVE  MapInv'
<1> USE DEF MapInv
<1>1. OnEvent(g, e) /\ UNCHANGED <<walk, tied>>
  BY DEF ConfigMap!Fire, ConfigMap!OnEvent, OnEvent, ConfigMap!Follow, Follow,
         ConfigMap!held, held, ConfigMap!history, history, ConfigMap!Delete, Delete
<1>2. UNCHANGED <<disk, held, watching, receiving, watched, notices, reading, shared, raced>>
  BY <1>1 DEF OnEvent, history
<1>3. /\ WorkOK(ConfigMapName)' /\ Resting'
      /\ \A S, vals : Announces(S, copy, vals, todo) =>
           Announces(S, copy', vals, todo')
  BY <1>1, OnEventKeeps
<1>4. DiskOK' /\ HeldOK'
  BY <1>2, DiskStays, HeldStays
<1>5. WalkOK'
  <2>1. \A h \in Goroutine : todo[h] = {} => todo'[h] = {}
    BY <1>1 DEF OnEvent, WorkOK
  <2> QED BY <1>1, <1>2, <2>1 DEF WalkOK
<1>6. MapTold'
  <2>1. Values' = Values /\ UNCHANGED <<Configurations, loaded>>
    BY <1>2 DEF Values, ValuesOf, held
  <2>2. watching => Announces(raced \cup tied, copy', Values, todo')
    BY <1>3 DEF MapTold
  <2>3. Follows(shared, loaded, Configurations)
    BY DEF MapTold
  <2> QED BY <1>1, <1>2, <2>1, <2>2, <2>3 DEF MapTold
<1> QED BY <1>1, <1>3, <1>4, <1>5, <1>6

LEMMA MapReceiveKeeps ==
  ASSUME MapInv, NEW notice \in notices, ConfigMap!Receive(notice[1], notice[2])
  PROVE  MapInv'
<1> USE DEF MapInv
<1>1. PICK p \in Path, op \in {"Write", "Remove", "Rename"} :
        p = notice[1] /\ op = notice[2]
  BY DEF DiskOK
<1> DEFINE reads == op = "Write" /\ files[p] # <<>> /\ disk[p] \in Config
           begins == op = "Write" /\ files[p] = <<>> /\ disk[p] # NoFile
<1>2. /\ UNCHANGED <<disk, held, watching, receiving, todo, copy, shared, raced, tied>>
      /\ walk[Watcher] = ConfigMap!NoWalk
      /\ reading[Watcher] = NoReading /\ todo[Watcher] = {}
      /\ notices' \subseteq notices /\ watched' \subseteq watched \cup {p}
  BY <1>1 DEF ConfigMap!Receive, ConfigMap!Idle, ConfigMap!held, held,
              ConfigMap!Watcher, Watcher, ConfigMap!NoReading, NoReading
<1>3. /\ IF reads THEN Read(Watcher, p) ELSE UNCHANGED <<reading, missed>>
      /\ IF begins
         THEN \E priority \in ConfigMap!AppearsWith(p) :
                walk' = [walk EXCEPT ![Watcher] =
                           ConfigMap!WalkOf({p}, priority)]
         ELSE walk' = walk
  BY <1>1, SameMapTool
     DEF ConfigMap!Receive, ConfigMap!Read, Read, ConfigMap!Config, Config,
         ConfigMap!Watcher, Watcher
<1>4. Watcher \in Goroutine /\ Watcher # App
  BY DEF Goroutine, Watcher, App
<1>5. DiskOK' /\ HeldOK'
  BY <1>2, HeldStays DEF DiskOK
<1>6. MapTold'
  BY <1>2, MapToldStays DEF held
<1>7. CASE reads
  <2>1. WorkOK(ConfigMapName)' /\ Resting'
    BY <1>2, <1>3, <1>4, <1>7, ReadKeeps
  <2>2. WalkOK'
    <3>1. walk' = walk
      BY <1>3, <1>7
    <3>2. reading'[App] = reading[App] /\ Goroutine = {App, Watcher}
      BY <1>3, <1>4, <1>7 DEF Read, WorkOK, Goroutine
    <3> QED BY <1>2, <1>4, <3>1, <3>2 DEF WalkOK
  <2> QED BY <1>2, <1>5, <1>6, <2>1, <2>2
<1>8. CASE ~reads
  <2>1. WorkOK(ConfigMapName)' /\ Resting'
    BY <1>2, <1>3, <1>8, WorkStays
  <2>2. CASE begins
    <3>0. PICK priority \in ConfigMap!AppearsWith(p) :
            walk' = [walk EXCEPT ![Watcher] = ConfigMap!WalkOf({p}, priority)]
      BY <1>3, <2>2
    <3> DEFINE w == ConfigMap!WalkOf({p}, priority)
    <3>1. w \in {ConfigMap!NoWalk} \cup Walks /\ w.at = Nobody /\ w.listed = FALSE
      <4>1. priority \in 0..MaxUint32
        BY MapPriorityType DEF ConfigMap!AppearsWith
      <4> QED BY <4>1, WalkOfType
    <3>2. walk' = [walk EXCEPT ![Watcher] = w] /\ UNCHANGED <<reading, todo>>
      BY <1>2, <1>3, <1>8, <2>2, <3>0
    <3> HIDE DEF w
    <3>3. WalkOK'
      BY <1>2, <1>4, <3>1, <3>2, WalkChanges
    <3> QED BY <1>2, <1>5, <1>6, <2>1, <3>3
  <2>3. CASE ~begins
    BY <1>2, <1>3, <1>5, <1>6, <1>8, <2>1, <2>3, WalkStays
  <2> QED BY <2>2, <2>3
<1> QED BY <1>7, <1>8

LEMMA MapWatchEndsKeeps ==
  ASSUME MapInv, ConfigMap!WatchEnds
  PROVE  MapInv'
<1> USE DEF MapInv
<1>1. /\ UNCHANGED <<disk, held, watching, reading, todo, copy, shared, raced,
                     walk, tied>>
      /\ receiving' = FALSE /\ watched' = {} /\ notices' = {}
  BY DEF ConfigMap!WatchEnds, ConfigMap!WatcherFails, ConfigMap!held, held
<1>2. DiskOK' /\ HeldOK' /\ WorkOK(ConfigMapName)' /\ Resting'
  BY <1>1, HeldStays, WorkStays DEF DiskOK
<1>3. WalkOK' /\ MapTold' /\ (tied \subseteq Key)'
  BY <1>1, WalkStays, MapToldStays DEF held
<1> QED BY <1>2, <1>3

\* Cleanup leaves nothing, or what a comparison that had begun found; files and
\* keys are emptied apart, so that it may have found either.
LEMMA MapCleanupKeeps ==
  ASSUME MapInv, ConfigMap!Cleanup
  PROVE  MapInv'
<1> USE DEF MapInv
<1> DEFINE p == reading[Watcher].path
           config == reading[Watcher].content
           Emptied == [q \in Path |-> EmptyConfig]
<1>1. /\ walk[App] = ConfigMap!NoWalk /\ todo[Watcher] = {}
      /\ files' = [q \in Path |-> <<>>]
      /\ watching' = FALSE /\ receiving' = FALSE
      /\ watched' = {} /\ notices' = {}
      /\ UNCHANGED <<disk, todo, copy, raced, walk, tied>>
  BY DEF ConfigMap!Cleanup, ConfigMap!App, App, ConfigMap!Watcher, Watcher
<1>2. App \in Goroutine /\ Watcher \in Goroutine /\ Goroutine = {App, Watcher}
  BY DEF Goroutine
<1>3. reading[App] = NoReading /\ todo[App] = {}
  BY <1>1, <1>2, NoWalkParts DEF WalkOK
<1>4. reading' \in {reading, [reading EXCEPT ![Watcher] = NoReading]}
  BY DEF ConfigMap!Cleanup, ConfigMap!Watcher, Watcher, ConfigMap!NoReading, NoReading
<1>5. DiskOK'
  BY <1>1 DEF DiskOK
<1>6. WorkOK(ConfigMapName)'
  BY <1>1, <1>4 DEF WorkOK
<1>7. Resting'
  BY <1>1, <1>2, <1>3 DEF Resting
<1>8. WalkOK'
  <2>1. \A g \in Goroutine : reading'[g] \in {reading[g], NoReading}
    BY <1>4 DEF WorkOK
  <2> QED BY <1>1, <2>1 DEF WalkOK
<1>9. files' \in [Path -> Seq(0..MaxUint32)]
  BY <1>1, EmptySeq
<1>10. /\ Configurations' \in Infos /\ loaded' \in [Path -> Config]
       /\ Follows(shared', loaded', Configurations')
  <2>1. CASE /\ Configurations' = NoInfos /\ loaded' = Emptied
             /\ UNCHANGED shared
    BY <2>1, EmptiedFollows
  <2>2. CASE /\ p # Nobody
             /\ \E confs \in {Configurations, NoInfos} :
                \E unlisted \in SUBSET Contested(confs, config, p) :
                  /\ Configurations' =
                       TakenOver(ConfigMap!Compared(confs, config, p), config,
                                 unlisted)
                  /\ loaded' = [(IF confs = NoInfos THEN Emptied ELSE loaded)
                                  EXCEPT ![p] = config]
             /\ shared' = shared \cup Conflicts(loaded')
    <3>1. PICK confs \in {Configurations, NoInfos}, unlisted \in SUBSET Key :
            /\ unlisted \in SUBSET Contested(confs, config, p)
            /\ Configurations' =
                 TakenOver(ConfigMap!Compared(confs, config, p), config, unlisted)
            /\ loaded' = [(IF confs = NoInfos THEN Emptied ELSE loaded)
                            EXCEPT ![p] = config]
      BY <2>2 DEF Contested
    <3>2. p \in Path /\ config \in Config /\ confs \in Infos
      BY <1>2, <2>2, NoReadingParts, EmptiedFollows DEF WorkOK, HeldOK
    <3> DEFINE new == ConfigMap!Compared(confs, config, p)
    <3>3. new \in Infos /\ FollowsFile(new, confs, config, p)
      BY <3>2, MapCompared
    <3>4. /\ Configurations' = TakenOver(new, config, unlisted)
          /\ unlisted \in SUBSET Contested(confs, config, p)
          /\ loaded' = [(IF confs = NoInfos THEN Emptied ELSE loaded)
                          EXCEPT ![p] = config]
          /\ shared' = shared \cup Conflicts(loaded')
      BY <2>2, <3>1
    <3>5. Follows(shared, loaded, Configurations)
      BY DEF MapTold
    <3> HIDE DEF p, config, new
    <3> QED BY <3>2, <3>3, <3>4, <3>5, InterruptedFollows
  <2>3. /\ ConfigMap!EmptyConfig = EmptyConfig /\ ConfigMap!NoInfos = NoInfos
        /\ ConfigMap!Watcher = Watcher
        /\ \A contents : ConfigMap!Conflicts(contents) = Conflicts(contents)
        /\ \A confs : ConfigMap!Contested(confs, config, p) =
                         Contested(confs, config, p)
        /\ \A infos, S : ConfigMap!TakenOver(infos, config, S) =
                            TakenOver(infos, config, S)
    BY DEF ConfigMap!EmptyConfig, EmptyConfig, ConfigMap!NoInfos, NoInfos,
           ConfigMap!NoInfo, NoInfo, ConfigMap!Watcher, Watcher,
           ConfigMap!Conflicts, Conflicts, ConfigMap!Contested, Contested,
           ConfigMap!TakenOver, TakenOver
  <2> HIDE DEF p, config
  <2> QED BY <2>1, <2>2, <2>3 DEF ConfigMap!Cleanup, p, config
<1>11. HeldOK'
  BY <1>9, <1>10 DEF HeldOK
<1>12. MapTold'
  BY <1>1, <1>10 DEF MapTold
<1> QED BY <1>1, <1>5, <1>6, <1>7, <1>8, <1>11, <1>12

LEMMA InitMapInv == InitConfigMap => MapInv
<1> SUFFICES ASSUME InitConfigMap PROVE MapInv
  OBVIOUS
<1> USE DEF InitConfigMap, ConfigMap!Init, ConfigMap!InitTable
<1>1. DiskOK
  BY DEF DiskOK, Content
<1>2. Configurations = NoInfos /\ loaded = [p \in Path |-> EmptyConfig]
  BY DEF ConfigMap!EmptyConfig, EmptyConfig, ConfigMap!NoInfos, NoInfos,
         ConfigMap!NoInfo, NoInfo
<1>3. HeldOK
  <2>1. files \in [Path -> Seq(0..MaxUint32)]
    BY EmptySeq
  <2> QED BY <1>2, <2>1, EmptiedFollows DEF HeldOK
<1>4. WorkOK(ConfigMapName)
  BY SameMapTool DEF WorkOK, ConfigMap!NoReading, NoReading, Config,
     ConfigMap!EmptyConfig
<1>5. Resting
  BY SameMapTool DEF Resting
<1>6. WalkOK
  <2>1. /\ reading = [g \in Goroutine |-> NoReading]
        /\ todo = [g \in Goroutine |-> {}]
        /\ walk = [g \in Goroutine |-> ConfigMap!NoWalk]
    BY SameMapTool DEF ConfigMap!NoReading, NoReading
  <2> QED BY <2>1, NoWalkParts DEF WalkOK
<1>7. MapTold
  <2>1. Follows(shared, loaded, Configurations)
    BY <1>2, EmptiedFollows
  <2> QED BY <2>1 DEF MapTold
<1> QED BY <1>1, <1>3, <1>4, <1>5, <1>6, <1>7 DEF MapInv

LEMMA MapNextKeeps ==
  ASSUME MapInv, ConfigMap!Next
  PROVE  MapInv'
<1>1. CASE ConfigMap!Environment
  BY <1>1, MapEnvironmentKeeps
<1>2. CASE \E priority \in MapPriority :
             \/ \E p \in Path : ConfigMap!AddFile(p, priority)
             \/ ConfigMap!AddDirectory(priority)
  <2>1. PICK priority \in MapPriority :
          \/ \E p \in Path : ConfigMap!AddFile(p, priority)
          \/ ConfigMap!AddDirectory(priority)
    BY <1>2
  <2>2. ASSUME NEW p \in Path, ConfigMap!AddFile(p, priority)
        PROVE  MapInv'
    <3>1. ConfigMap!Start({p}, priority) /\ watched' \subseteq watched \cup InDirectory
      BY <2>2 DEF ConfigMap!AddFile
    <3> QED BY <3>1, MapStartKeeps
  <2>3. ASSUME ConfigMap!AddDirectory(priority)
        PROVE  MapInv'
    <3> DEFINE there == {p \in InDirectory : disk[p] # NoFile}
    <3>1. ConfigMap!Start(there, priority) /\ watched' \subseteq watched \cup InDirectory
      BY <2>3 DEF ConfigMap!AddDirectory
    <3>2. there \in SUBSET Path
      OBVIOUS
    <3> HIDE DEF there
    <3> QED BY <3>1, <3>2, MapStartKeeps
  <2> QED BY <2>1, <2>2, <2>3
<1>3. CASE \E g \in Goroutine : \/ \E p \in Path : ConfigMap!Visit(g, p)
                                \/ \E e \in todo[g] : ConfigMap!Fire(g, e)
                                \/ ConfigMap!ListFile(g) \/ ConfigMap!Compare(g)
                                \/ ConfigMap!WatchFile(g)
  BY <1>3, MapVisitKeeps, MapFireKeeps, MapListFileKeeps, MapCompareKeeps,
     MapWatchFileKeeps
<1>4. CASE \E notice \in notices : ConfigMap!Receive(notice[1], notice[2])
  BY <1>4, MapReceiveKeeps
<1>5. CASE ConfigMap!StartWatch \/ ConfigMap!WatchEnds \/ ConfigMap!Cleanup
  BY <1>5, MapWatchKeeps, MapWatchEndsKeeps, MapCleanupKeeps
<1> QED BY <1>1, <1>2, <1>3, <1>4, <1>5, SameMapTool DEF ConfigMap!Next

\* compareUpdate's events tell what it changes, but for the ties.
LEMMA MapCompareTells ==
  ASSUME MapInv, NEW g \in Goroutine, reading[g] # NoReading, watching,
         ConfigMap!CompareUpdate(g), Configurations' # Configurations
  PROVE  ConfigMap!Tells(tied')
<1> DEFINE p == reading[g].path
           config == reading[g].content
           infos == ConfigMap!Compared(Configurations, config, p)
           events == ConfigMap!ComparedEvents(Configurations, config, p)
           ties == ConfigMap!Ties(Configurations, config, p)
           changed == PopulateEvents(ConfigMapName, ValuesOf(Configurations),
                                     ValuesOf(infos))
<1>1. p \in Path /\ config \in Config /\ Configurations \in Infos
  BY DEF MapInv, WorkOK, HeldOK
<1>2. /\ Configurations' = infos /\ todo' = [todo EXCEPT ![g] = events]
      /\ tied' = (tied \cup ties) \ {e.key : e \in events}
  BY DEF ConfigMap!CompareUpdate, ConfigMap!Compares, ConfigMap!Announced
<1>3. todo'[g] = events
  BY <1>2 DEF MapInv, WorkOK
<1> HIDE DEF p, config
<1>4. /\ \A e \in changed : e \in events \/ (e.key \in ties /\ ~About(e.key, events))
      /\ \A e \in events : Result(e) = ValuesOf(infos)[e.key]
  BY <1>1, MapEvents DEF MapInv
<1> HIDE DEF infos, events, ties
<1>5. ConfigMap!ValuesOf(Configurations') = ValuesOf(infos)
  BY <1>2, SameMapTool
<1>6. ConfigMap!Values = ValuesOf(Configurations)
  BY SameMapTool DEF ConfigMap!Values
<1>7. ConfigMap!PopulateEvents(ConfigMapName, ConfigMap!Values,
                               ConfigMap!ValuesOf(Configurations')) = changed
  BY <1>5, <1>6, SameMapTool
<1> HIDE DEF changed
<1>8. {e \in changed : e.key \notin tied'} \subseteq todo'[g]
  BY <1>2, <1>3, <1>4 DEF About
<1>9. \A e \in todo'[g] : ConfigMap!ValuesOf(Configurations')[e.key] =
                            IF e.type = ConfigMap!Delete THEN None ELSE e.val
  BY <1>3, <1>4, <1>5 DEF Result, ConfigMap!Delete, Delete
<1> QED BY <1>7, <1>8, <1>9, SameMapTool DEF ConfigMap!Tells

LEMMA MapTells ==
  ASSUME MapInv, ConfigMap!Next
  PROVE  ConfigMap!ChangeIsTold
<1> SUFFICES ASSUME watching, watching', Configurations' # Configurations
             PROVE  ConfigMap!Tells(tied')
  BY DEF ConfigMap!ChangeIsTold
<1>1. ASSUME NEW g \in Goroutine, ConfigMap!Compare(g)
      PROVE  ConfigMap!Tells(tied')
  BY <1>1, MapCompareTells DEF ConfigMap!Compare, ConfigMap!NoReading, NoReading
<1>2. ~ConfigMap!Cleanup
  BY DEF ConfigMap!Cleanup
<1>3. ~ConfigMap!Environment /\ ~ConfigMap!StartWatch /\ ~ConfigMap!WatchEnds
  BY DEF ConfigMap!Environment, ConfigMap!Write, ConfigMap!Remove,
         ConfigMap!Changed, ConfigMap!held, ConfigMap!StartWatch, ConfigMap!Watch,
         ConfigMap!WatchEnds, ConfigMap!WatcherFails
<1>4. \A priority \in MapPriority : /\ ~ConfigMap!AddDirectory(priority)
                                    /\ \A p \in Path : ~ConfigMap!AddFile(p, priority)
  BY DEF ConfigMap!AddDirectory, ConfigMap!AddFile, ConfigMap!Start, ConfigMap!held
<1>5. \A g \in Goroutine : /\ \A p \in Path : ~ConfigMap!Visit(g, p)
                           /\ \A e \in todo[g] : ~ConfigMap!Fire(g, e)
                           /\ ~ConfigMap!ListFile(g) /\ ~ConfigMap!WatchFile(g)
  BY DEF ConfigMap!Visit, ConfigMap!Fire, ConfigMap!OnEvent, ConfigMap!ListFile,
         ConfigMap!WatchFile, ConfigMap!held
<1>6. \A notice \in notices : ~ConfigMap!Receive(notice[1], notice[2])
  BY DEF ConfigMap!Receive, ConfigMap!held
<1> QED BY <1>1, <1>2, <1>3, <1>4, <1>5, <1>6, SameMapTool DEF ConfigMap!Next

LEMMA MapCompareListed ==
  ASSUME MapInv, NEW g \in Goroutine, ConfigMap!Compare(g)
  PROVE  OfListedFiles
<1> DEFINE p == reading[g].path
           config == reading[g].content
<1>1. /\ ConfigMap!CompareUpdate(g) /\ p \in Path /\ config \in Config
      /\ Configurations \in Infos
  BY DEF MapInv, WorkOK, HeldOK, ConfigMap!Compare, ConfigMap!NoReading, NoReading
<1>2. ConfigMap!FilePriority(p) = FilePriority(p)
  BY DEF ConfigMap!FilePriority, FilePriority
<1>3. CASE FilePriority(p) = MaxUint32
  <2>1. UNCHANGED <<Configurations, todo>>
    BY <1>1, <1>2, <1>3 DEF ConfigMap!CompareUpdate
  <2> QED BY <2>1, NothingNewIsListed
<1>4. CASE FilePriority(p) # MaxUint32
  <2>1. Configurations' = ConfigMap!Compared(Configurations, config, p)
        /\ \E events : todo' = [todo EXCEPT ![g] = events]
    BY <1>1, <1>2, <1>4 DEF ConfigMap!CompareUpdate, ConfigMap!Compares,
                            ConfigMap!Announced
  <2>2. FollowsFile(Configurations', Configurations, config, p)
    BY <1>1, <2>1, MapCompared
  <2>3. \A h \in Goroutine : h # g => todo'[h] = todo[h]
    BY <2>1 DEF MapInv, WorkOK
  <2>4. p \in {q \in Path : files[q] # <<>>}
    BY <1>1, <1>4, ListedPriority
  <2> QED BY <2>2, <2>3, <2>4, ComparisonOfListed
<1> QED BY <1>3, <1>4

LEMMA MapCleanupListed ==
  ASSUME MapInv, ConfigMap!Cleanup
  PROVE  OfListedFiles
<1> DEFINE p == reading[Watcher].path
           config == reading[Watcher].content
<1>1. /\ ConfigMap!NoInfos = NoInfos /\ ConfigMap!Watcher = Watcher
      /\ \A q : ConfigMap!FilePriority(q) = FilePriority(q)
      /\ \A confs : ConfigMap!Contested(confs, config, p) =
                       Contested(confs, config, p)
      /\ \A infos, S : ConfigMap!TakenOver(infos, config, S) =
                          TakenOver(infos, config, S)
      /\ Watcher \in Goroutine /\ todo' = todo
  BY DEF ConfigMap!NoInfos, NoInfos, ConfigMap!NoInfo, NoInfo, ConfigMap!Watcher,
         Watcher, ConfigMap!FilePriority, FilePriority, ConfigMap!Contested,
         Contested, ConfigMap!TakenOver, TakenOver, Goroutine, ConfigMap!Cleanup
<1>2. CASE Configurations' = NoInfos
  <2>1. \A k \in Key : Configurations'[k] = NoInfo
    BY <1>2 DEF NoInfos
  <2> QED BY <1>1, <2>1, NothingNewIsListed
<1>3. CASE Configurations' # NoInfos
  <2>1. /\ p # Nobody /\ FilePriority(p) # MaxUint32
        /\ \E confs \in {Configurations, NoInfos} :
           \E unlisted \in SUBSET ConfigMap!Contested(confs, config, p) :
             Configurations' =
               ConfigMap!TakenOver(ConfigMap!Compared(confs, config, p), config,
                                   unlisted)
    BY <1>1, <1>3 DEF ConfigMap!Cleanup
  <2>2. PICK confs \in {Configurations, NoInfos}, unlisted \in SUBSET Key :
          /\ unlisted \subseteq ConfigMap!Contested(confs, config, p)
          /\ Configurations' =
               ConfigMap!TakenOver(ConfigMap!Compared(confs, config, p), config,
                                   unlisted)
    BY <2>1 DEF ConfigMap!Contested
  <2>3. p \in Path /\ config \in Config
    BY <1>1, <2>1, NoReadingParts DEF MapInv, WorkOK
  <2>4. confs \in Infos
    BY EmptiedFollows DEF MapInv, HeldOK
  <2>5. FollowsFile(Configurations', confs, config, p)
    BY <1>1, <2>2, <2>3, <2>4, MapCompared, TakingOver
  <2>6. p \in {q \in Path : files[q] # <<>>}
    BY <2>1, <2>3, ListedPriority
  <2> QED BY <1>1, <2>5, <2>6, ComparisonOfListed
<1> QED BY <1>2, <1>3

LEMMA MapListed ==
  ASSUME MapInv, ConfigMap!Next
  PROVE  OfListedFiles
<1>1. CASE \E g \in Goroutine : ConfigMap!Compare(g)
  BY <1>1, MapCompareListed
<1>2. CASE ConfigMap!Cleanup
  BY <1>2, MapCleanupListed
<1>3. CASE UNCHANGED <<Configurations, todo>>
  BY <1>3, NothingNewIsListed
<1>4. CASE \E g \in Goroutine : \E e \in todo[g] : ConfigMap!Fire(g, e)
  <2>1. PICK g \in Goroutine : \E e \in todo[g] : ConfigMap!Fire(g, e)
    BY <1>4
  <2>2. PICK e \in todo[g] : todo' = [todo EXCEPT ![g] = @ \ {e}]
    BY <2>1 DEF ConfigMap!Fire, ConfigMap!OnEvent
  <2>3. \A h \in Goroutine : todo'[h] \subseteq todo[h]
    BY <2>2 DEF MapInv, WorkOK
  <2>4. UNCHANGED Configurations
    BY <2>1 DEF ConfigMap!Fire, ConfigMap!OnEvent, ConfigMap!held
  <2> QED BY <2>3, <2>4, NothingNewIsListed
<1>5. CASE \E priority \in MapPriority :
             \/ \E p \in Path : ConfigMap!AddFile(p, priority)
             \/ ConfigMap!AddDirectory(priority)
  BY <1>3, <1>5 DEF ConfigMap!AddDirectory, ConfigMap!AddFile, ConfigMap!Start,
                    ConfigMap!held
<1>6. CASE \E g \in Goroutine : \/ \E p \in Path : ConfigMap!Visit(g, p)
                                \/ ConfigMap!ListFile(g) \/ ConfigMap!WatchFile(g)
  BY <1>3, <1>6 DEF ConfigMap!Visit, ConfigMap!ListFile, ConfigMap!WatchFile,
                    ConfigMap!held
<1>7. CASE \/ ConfigMap!Environment \/ ConfigMap!StartWatch \/ ConfigMap!WatchEnds
           \/ \E notice \in notices : ConfigMap!Receive(notice[1], notice[2])
  BY <1>3, <1>7
     DEF ConfigMap!Environment, ConfigMap!Write, ConfigMap!Remove,
         ConfigMap!Changed, ConfigMap!held, ConfigMap!StartWatch, ConfigMap!Watch,
         ConfigMap!WatchEnds, ConfigMap!WatcherFails, ConfigMap!Receive
<1> QED BY <1>1, <1>2, <1>4, <1>5, <1>6, <1>7, SameMapTool DEF ConfigMap!Next

-----------------------------------------------------------------------------
(***************************************************************************)
(* Whichever source is under test.                                         *)
(***************************************************************************)

LocalInv == IF kind = "file" THEN FileInv ELSE MapInv

LEMMA FileInvStays ==
  ASSUME FileInv, UNCHANGED localVars
  PROVE  FileInv'
<1> USE DEF FileInv
<1>1. UNCHANGED <<disk, held, watching, receiving, watched, notices, reading, todo, copy,
                  shared, raced, cleaned, adding>>
  BY DEF localVars, tableVars, history
<1>2. DiskOK' /\ HeldOK' /\ WorkOK(Name)' /\ Resting'
  BY <1>1, DiskStays, HeldStays, WorkStays
<1>3. JobOK' /\ FileTold'
  BY <1>1, JobStays, FileToldStays DEF held
<1> QED BY <1>2, <1>3

LEMMA MapInvStays ==
  ASSUME MapInv, UNCHANGED localVars
  PROVE  MapInv'
<1> USE DEF MapInv
<1>1. UNCHANGED <<disk, held, watching, receiving, watched, notices, reading, todo, copy,
                  shared, raced, walk, tied>>
  BY DEF localVars, tableVars, history
<1>2. DiskOK' /\ HeldOK' /\ WorkOK(ConfigMapName)' /\ Resting'
  BY <1>1, DiskStays, HeldStays, WorkStays
<1>3. WalkOK' /\ MapTold' /\ (tied \subseteq Key)'
  BY <1>1, WalkStays, MapToldStays DEF held
<1> QED BY <1>2, <1>3

LEMMA InitLocalInv == Init => LocalInv
BY InitFileInv, InitMapInv DEF Init, InitFile, InitConfigMap, LocalInv

LEMMA NextLocalInv == LocalInv /\ [Next]_localVars => LocalInv'
<1> SUFFICES ASSUME LocalInv, [Next]_localVars PROVE LocalInv'
  OBVIOUS
<1>1. CASE ByFile(File!Next)
  <2>1. FileInv /\ File!Next /\ kind = "file" /\ kind' = kind
    BY <1>1 DEF ByFile, LocalInv
  <2> QED BY <2>1, FileNextKeeps DEF LocalInv
<1>2. CASE ByConfigMap(ConfigMap!Next)
  <2>1. MapInv /\ ConfigMap!Next /\ kind # "file" /\ kind' = kind
    BY <1>2 DEF ByConfigMap, LocalInv
  <2> QED BY <2>1, MapNextKeeps DEF LocalInv
<1>3. CASE UNCHANGED localVars
  <2>1. kind' = kind
    BY <1>3 DEF localVars
  <2> QED BY <1>3, <2>1, FileInvStays, MapInvStays DEF LocalInv
<1> QED BY <1>1, <1>2, <1>3 DEF Next

LEMMA LocalInvariance == Spec => []LocalInv
<1>1. Init => LocalInv
  BY InitLocalInv
<1>2. LocalInv /\ [Next]_localVars => LocalInv'
  BY NextLocalInv
<1> QED BY <1>1, <1>2, PTL DEF Spec

LEMMA ListedTypes ==
  ASSUME HeldOK, NEW p \in Path, NEW i \in DOMAIN files[p]
  PROVE  files[p][i] \in 0..MaxUint32
<1>1. files[p] \in Seq(0..MaxUint32)
  BY DEF HeldOK
<1>2. i \in 1..Len(files[p])
  BY <1>1, LenProperties
<1> QED BY <1>1, <1>2, ElementOfSeq

LEMMA FileTypes ==
  ASSUME FileInv
  PROVE  File!TypeOK
<1> USE DEF FileInv
<1>1. /\ File!Content = Content /\ File!Config = Config
      /\ File!Info = Info /\ File!NoInfo = NoInfo /\ File!NoReading = NoReading
      /\ File!EventFrom({Name}) = EventFrom({Name})
  BY DEF File!Content, Content, File!Config, Config, File!Info, Info,
         File!NoInfo, NoInfo, File!NoReading, NoReading, File!EventFrom,
         EventFrom, File!Create, Create, File!Update, Update, File!Delete, Delete
<1>2. File!Goroutine = Goroutine
  BY DEF File!Goroutine, Goroutine, File!App, App, File!Watcher, Watcher
<1>3. File!TableTypeOK
  BY <1>1, <1>2, ListedTypes DEF File!TableTypeOK, DiskOK, HeldOK, WorkOK, Infos
<1>4. adding.paths \subseteq adding.watch /\ adding.watch \subseteq Path
  BY DEF JobOK, File!NoJob
<1> QED BY <1>3, <1>4 DEF File!TypeOK

LEMMA MapTypes ==
  ASSUME MapInv
  PROVE  ConfigMap!TypeOK
<1> USE DEF MapInv
<1>1. /\ ConfigMap!Content = Content /\ ConfigMap!Config = Config
      /\ ConfigMap!Info = Info /\ ConfigMap!NoInfo = NoInfo
      /\ ConfigMap!NoReading = NoReading
      /\ ConfigMap!EventFrom({ConfigMapName}) = EventFrom({ConfigMapName})
  BY DEF ConfigMap!Content, Content, ConfigMap!Config, Config, ConfigMap!Info,
         Info, ConfigMap!NoInfo, NoInfo, ConfigMap!NoReading, NoReading,
         ConfigMap!EventFrom, EventFrom, ConfigMap!Create, Create,
         ConfigMap!Update, Update, ConfigMap!Delete, Delete
<1>2. ConfigMap!TableTypeOK
  BY <1>1, SameMapTool, ListedTypes
     DEF ConfigMap!TableTypeOK, DiskOK, HeldOK, WorkOK, Infos
<1>3. ASSUME NEW g \in Goroutine
      PROVE  /\ walk[g].paths \subseteq Path
             /\ walk[g].at \in walk[g].paths \cup {Nobody}
  BY NoWalkParts DEF WalkOK
<1> QED BY <1>2, <1>3, SameMapTool DEF ConfigMap!TypeOK

\* The variables hold values of their types, whatever files change and however
\* AddFile, Watch, the watcher and Cleanup meet.
THEOREM LocalTypeCorrect == Spec => []LocalTypeOK
<1>1. LocalInv => LocalTypeOK
  BY FileTypes, MapTypes DEF LocalInv, LocalTypeOK
<1> QED BY <1>1, LocalInvariance, PTL

\* A key that only one file ever had follows that file (compareUpdate), before
\* Cleanup and after it.
THEOREM SoleFileIsFollowed == Spec => []SoleFileRules
<1>1. ASSUME FileInv PROVE File!SoleFileRules
  BY <1>1 DEF FileInv, FileTold, File!SoleFileRules, File!SoleKeysFollow, Follows,
              File!NoInfo, NoInfo
<1>2. ASSUME MapInv PROVE ConfigMap!SoleFileRules
  BY <1>2 DEF MapInv, MapTold, ConfigMap!SoleFileRules, ConfigMap!SoleKeysFollow,
              Follows, ConfigMap!NoInfo, NoInfo
<1>3. LocalInv => SoleFileRules
  BY <1>1, <1>2 DEF LocalInv, SoleFileRules
<1> QED BY <1>3, LocalInvariance, PTL

\* When no event is on its way the Manager has been told the values the source
\* has, although the two goroutines fire theirs without the lock under which
\* they found them, but for the keys on which both fired at once and, in the
\* configmap source, those of a tie; in the file source up to Cleanup.
THEOREM ManagerIsTold == Spec => []ToldAll
<1>1. ASSUME NEW S, NEW vals, Announces(S, copy, vals, todo),
             \A g \in Goroutine : todo[g] = {}
      PROVE  \A k \in Key \ S : copy[k] = vals[k]
  BY <1>1 DEF Announces, About
<1>2. ASSUME FileInv PROVE File!ToldAll
  <2>1. File!Values = Values /\ File!Goroutine = Goroutine
    BY DEF File!Values, Values, File!ValuesOf, ValuesOf, File!NoInfo, NoInfo,
           File!Goroutine, Goroutine, File!App, App, File!Watcher, Watcher
  <2> QED BY <1>1, <1>2, <2>1 DEF FileInv, FileTold, File!ToldAll, File!ToldAllBut
<1>3. ASSUME MapInv PROVE ConfigMap!ToldAll
  <2>1. ConfigMap!Values = Values
    BY SameMapTool DEF ConfigMap!Values, Values
  <2> QED BY <1>1, <1>3, <2>1, SameMapTool
          DEF MapInv, MapTold, ConfigMap!ToldAll, ConfigMap!ToldAllBut
<1>4. LocalInv => ToldAll
  BY <1>2, <1>3 DEF LocalInv, ToldAll
<1> QED BY <1>4, LocalInvariance, PTL

\* Every change of a value goes out as an event, and every event is about the
\* value the source then has (compareUpdate); a tie in the configmap source and
\* Cleanup alone are silent.
THEOREM EveryChangeIsTold == Spec => ChangesAreTold
<1>1. LocalInv /\ [Next]_localVars => [TellsChanges]_localVars
  <2> SUFFICES ASSUME LocalInv, Next PROVE TellsChanges
    OBVIOUS
  <2>1. CASE ByFile(File!Next)
    BY <2>1, FileTells DEF ByFile, LocalInv, TellsChanges
  <2>2. CASE ByConfigMap(ConfigMap!Next)
    BY <2>2, MapTells DEF ByConfigMap, LocalInv, TellsChanges
  <2> QED BY <2>1, <2>2 DEF Next
<1> QED BY <1>1, LocalInvariance, PTL DEF Spec, ChangesAreTold

\* A watcher may still compare, after Cleanup, a file that it read before.
\* Whatever AddFile does meanwhile, only what a file contained that is listed
\* then comes into the source or is told (compareUpdate): a file that was not
\* added again brings nothing back.
THEOREM NothingComesBack == Spec => NothingUnlisted
<1>1. LocalInv /\ [Next]_localVars => [OfListedFiles]_localVars
  <2> SUFFICES ASSUME LocalInv, Next PROVE OfListedFiles
    OBVIOUS
  <2>1. CASE ByFile(File!Next)
    BY <2>1, FileListed DEF ByFile, LocalInv
  <2>2. CASE ByConfigMap(ConfigMap!Next)
    BY <2>2, MapListed DEF ByConfigMap, LocalInv
  <2> QED BY <2>1, <2>2 DEF Next
<1> QED BY <1>1, LocalInvariance, PTL DEF Spec, NothingUnlisted

-----------------------------------------------------------------------------
(***************************************************************************)
(* No change of a watched file is lost: until it has been compared, it is  *)
(* clear who will compare it.                                              *)
(***************************************************************************)

\* Of files with these contents, that were compared with the known ones last,
\* and apart from the lost: who reads a file has read what it contains and is
\* the only one to read it, or it is due to be read again; and what it contains
\* is known, unless it is passed over, or due to be read, or being read.
Fresh(contents, known, read, lost, due, over) ==
  \A p \in Path \ lost : contents[p] \in Config =>
    /\ \A g \in Goroutine : read[g].path = p =>
         \/ p \in due
         \/ /\ read[g].content = contents[p]
            /\ \A h \in Goroutine \ {g} : read[h].path # p
    /\ \/ p \in over \cup due \/ known[p] = contents[p]
       \/ \E g \in Goroutine : read[g].path = p

\* fsnotify has told of the file and nobody has heard.
Told == {p \in Path : <<p, "Write">> \in notices}

\* The file and the content that are read do not change, nor what was compared.
LEMMA FreshStays ==
  ASSUME NEW due, NEW over, NEW due2, NEW over2,
         Fresh(disk, loaded, reading, missed, due, over),
         UNCHANGED <<disk, loaded, reading, missed>>,
         due \subseteq due2, over \subseteq over2
  PROVE  Fresh(disk', loaded', reading', missed', due2, over2)
BY DEF Fresh

LEMMA EnvironmentFresh ==
  ASSUME NEW p \in Path, NEW due, NEW over, NEW due2,
         disk \in [Path -> Content],
         Fresh(disk, loaded, reading, missed, due, over),
         \/ \E content \in Content : Write(p, content) /\ (p \in watched => p \in due2)
         \/ \E op \in {"Remove", "Rename"} : Remove(p, op),
         due \subseteq due2
  PROVE  Fresh(disk', loaded', reading', missed', due2, over)
<1>1. /\ \E content : disk' = [disk EXCEPT ![p] = content]
      /\ UNCHANGED <<loaded, reading>>
  BY DEF Write, Remove, Changed, held
<1>2. \A q \in Path : q # p => disk'[q] = disk[q] /\ (q \in missed' <=> q \in missed)
  BY <1>1 DEF Write, Remove
<1>3. \/ p \in missed' \/ p \in due2
      \/ disk'[p] \notin Config
  <2>1. ASSUME NEW op, Remove(p, op) PROVE disk'[p] = NoFile
    BY <2>1 DEF Remove, Changed
  <2>2. ASSUME NEW content \in Content, Write(p, content), p \in watched => p \in due2
        PROVE  p \in missed' \/ p \in due2
    BY <2>2 DEF Write
  <2> QED BY <2>1, <2>2
<1> QED BY <1>1, <1>2, <1>3 DEF Fresh

\* A file that was due is read; another goroutine that reads it too may compare
\* last.
LEMMA ReadFresh ==
  ASSUME NEW source, WorkOK(source), NEW g \in Goroutine, NEW p \in Path,
         NEW due, NEW over, NEW due2,
         Fresh(disk, loaded, reading, missed, due, over),
         reading[g] = NoReading, Read(g, p), UNCHANGED <<disk, loaded>>,
         due \ {p} \subseteq due2
  PROVE  Fresh(disk', loaded', reading', missed', due2, over)
<1>1. /\ reading'[g].path = p /\ reading'[g].content = disk[p]
      /\ \A h \in Goroutine \ {g} : reading'[h] = reading[h]
  BY DEF Read, WorkOK
<1>2. reading[g].path = Nobody
  BY DEF NoReading
<1>3. ASSUME NEW q \in Path \ missed', q # p, disk[q] \in Config
      PROVE  /\ \A h \in Goroutine : reading'[h].path = q =>
                  \/ q \in due2
                  \/ /\ reading'[h].content = disk[q]
                     /\ \A i \in Goroutine \ {h} : reading'[i].path # q
             /\ \/ q \in over \cup due2 \/ loaded[q] = disk[q]
                \/ \E h \in Goroutine : reading'[h].path = q
  <2>1. q \notin missed
    BY <1>3 DEF Read
  <2>2. \A h \in Goroutine : reading'[h].path = q <=> reading[h].path = q
    BY <1>1, <1>2, <1>3
  <2>3. \A h \in Goroutine : reading'[h].path = q => reading'[h] = reading[h]
    BY <1>1, <1>3
  <2> QED BY <1>3, <2>1, <2>2, <2>3 DEF Fresh
<1>4. ASSUME p \notin missed'
      PROVE  \A h \in Goroutine : reading'[h].path = p => h = g
  BY <1>1, <1>4 DEF Read
<1> QED BY <1>1, <1>3, <1>4 DEF Fresh

\* What was due is gone, or cannot be converted.
LEMMA DropFresh ==
  ASSUME NEW p \in Path, NEW due, NEW over, NEW due2,
         Fresh(disk, loaded, reading, missed, due, over),
         disk[p] \notin Config, UNCHANGED <<disk, loaded, reading, missed>>,
         due \ {p} \subseteq due2
  PROVE  Fresh(disk', loaded', reading', missed', due2, over)
BY DEF Fresh

\* What fsnotify has told of is lost.
LEMMA LostFresh ==
  ASSUME NEW more, NEW over, Fresh(disk, loaded, reading, missed, Told \cup more, over),
         UNCHANGED <<disk, loaded, reading>>, missed' = missed \cup Told,
         NEW due2, more \subseteq due2
  PROVE  Fresh(disk', loaded', reading', missed', due2, over)
BY DEF Fresh

\* A file that is being read is listed.
LEMMA ListFresh ==
  ASSUME NEW g \in Goroutine, NEW due, NEW over, NEW over2,
         Fresh(disk, loaded, reading, missed, due, over),
         UNCHANGED <<disk, loaded, reading, missed>>,
         over \ {reading[g].path} \subseteq over2
  PROVE  Fresh(disk', loaded', reading', missed', due, over2)
BY DEF Fresh

\* What was read is compared, or passed over.
LEMMA CompareFresh ==
  ASSUME NEW source, WorkOK(source), NEW g \in Goroutine, NEW due, NEW over,
         loaded \in [Path -> Config],
         Fresh(disk, loaded, reading, missed, due, over),
         reading[g].path \in Path, HasCompared(g), UNCHANGED disk,
         \/ loaded' = [loaded EXCEPT ![reading[g].path] = reading[g].content]
         \/ UNCHANGED loaded /\ reading[g].path \in over \cup missed'
  PROVE  Fresh(disk', loaded', reading', missed', due, over)
<1> DEFINE p == reading[g].path
<1>1. /\ reading'[g].path = Nobody
      /\ \A h \in Goroutine \ {g} : reading'[h] = reading[h]
  BY DEF HasCompared, WorkOK, NoReading
<1>2. \A q \in Path \ {p} : loaded'[q] = loaded[q]
  OBVIOUS
<1>3. missed' \in {missed, missed \ {p}}
  BY DEF HasCompared
<1>4. ASSUME NEW q \in Path \ missed', q # p, disk[q] \in Config
      PROVE  /\ \A h \in Goroutine : reading'[h].path = q =>
                  \/ q \in due
                  \/ /\ reading'[h].content = disk[q]
                     /\ \A i \in Goroutine \ {h} : reading'[i].path # q
             /\ \/ q \in over \cup due \/ loaded'[q] = disk[q]
                \/ \E h \in Goroutine : reading'[h].path = q
  <2>1. q \notin missed /\ loaded'[q] = loaded[q]
    BY <1>2, <1>3, <1>4
  <2>2. \A h \in Goroutine : reading'[h].path = q <=> reading[h].path = q
    BY <1>1, <1>4
  <2>3. \A h \in Goroutine : reading'[h].path = q => reading'[h] = reading[h]
    BY <1>1, <1>4
  <2> QED BY <1>4, <2>1, <2>2, <2>3 DEF Fresh
<1>5. ASSUME p \notin missed', p \notin due, disk[p] \in Config
      PROVE  /\ p \in over \/ loaded'[p] = disk[p]
             /\ \A h \in Goroutine : reading'[h].path # p
  <2>1. /\ reading[g].content = disk[p]
        /\ \A h \in Goroutine \ {g} : reading[h].path # p
    <3>1. CASE p \in missed
      BY <1>5, <3>1 DEF HasCompared
    <3>2. CASE p \notin missed
      BY <1>5, <3>2 DEF Fresh
    <3> QED BY <3>1, <3>2
  <2>2. p \in over \/ loaded'[p] = disk[p]
    BY <1>5, <2>1
  <2> QED BY <1>1, <2>1, <2>2
<1> QED BY <1>4, <1>5 DEF Fresh

-----------------------------------------------------------------------------
(***************************************************************************)
(* Of the file source.                                                     *)
(***************************************************************************)

FileOver == {p \in Path : FilePriority(p) = MaxUint32}

FileFresh == Fresh(disk, loaded, reading, missed, Told, FileOver)

LEMMA SameFileTool ==
  /\ File!Config = Config /\ File!Content = Content
  /\ File!Goroutine = Goroutine /\ File!App = App /\ File!Watcher = Watcher
  /\ File!NoReading = NoReading
  /\ \A p : File!FilePriority(p) = FilePriority(p)
BY DEF File!Config, Config, File!Content, Content, File!Goroutine, Goroutine,
       File!App, App, File!Watcher, Watcher, File!NoReading, NoReading,
       File!FilePriority, FilePriority

LEMMA FileOverStays ==
  ASSUME UNCHANGED files
  PROVE  FileOver' = FileOver
BY DEF FileOver, FilePriority

\* Another step that neither changes a file nor reads or compares one.
LEMMA FileFreshStays ==
  ASSUME FileFresh,
         UNCHANGED <<disk, files, loaded, reading, missed, notices, cleaned>>
  PROVE  FileFresh'
<1>1. FileOver' = FileOver /\ Told' = Told
  BY FileOverStays DEF Told
<1> QED BY <1>1 DEF FileFresh

LEMMA FileEnvironmentFresh ==
  ASSUME FileInv, FileFresh, File!Environment
  PROVE  FileFresh'
<1>1. PICK p \in Path : \/ \E content \in Content : File!Write(p, content)
                        \/ \E op \in {"Remove", "Rename"} : File!Remove(p, op)
  BY SameFileTool DEF File!Environment
<1>2. /\ UNCHANGED <<held, cleaned>>
      /\ notices \subseteq notices'
  BY <1>1 DEF File!Write, File!Remove, File!Changed, File!held, held
<1>3. \/ \E content \in Content : Write(p, content) /\ (p \in watched => p \in Told')
      \/ \E op \in {"Remove", "Rename"} : Remove(p, op)
  <2>1. ASSUME NEW content, File!Write(p, content)
        PROVE  Write(p, content) /\ (p \in watched => p \in Told')
    BY <2>1 DEF File!Write, Write, File!Changed, Changed, File!held, held, Told
  <2>2. \A op : File!Remove(p, op) => Remove(p, op)
    BY DEF File!Remove, Remove, File!Changed, Changed, File!held, held
  <2> QED BY <1>1, <2>1, <2>2
<1>4. Told \subseteq Told' /\ FileOver' = FileOver
  BY <1>2, FileOverStays DEF Told, held
<1> QED BY <1>2, <1>3, <1>4, EnvironmentFresh DEF FileFresh, FileInv, DiskOK

LEMMA FileReadFileFresh ==
  ASSUME FileInv, FileFresh, NEW p \in Path, File!ReadFile(p)
  PROVE  FileFresh'
<1>1. /\ UNCHANGED <<disk, files, loaded, notices, cleaned>>
      /\ reading[App] = NoReading
  BY SameFileTool DEF File!ReadFile, File!held
<1>2. Told' = Told /\ FileOver' = FileOver /\ App \in Goroutine
  BY <1>1, FileOverStays DEF Told, Goroutine
<1>3. CASE disk[p] \in Config
  <2>1. Read(App, p)
    BY <1>3, SameFileTool DEF File!ReadFile, File!Read, Read
  <2> QED BY <1>1, <1>2, <2>1, ReadFresh DEF FileFresh, FileInv
<1>4. CASE disk[p] \notin Config
  <2>1. UNCHANGED <<reading, missed>>
    BY <1>4, SameFileTool DEF File!ReadFile
  <2> QED BY <1>1, <2>1, FileFreshStays
<1> QED BY <1>3, <1>4

LEMMA FileListFileFresh ==
  ASSUME FileInv, FileFresh, File!ListFile
  PROVE  FileFresh'
<1>1. /\ UNCHANGED <<disk, loaded, reading, missed, notices, cleaned>>
      /\ HandlePriority(reading[App].path, adding.priority)
  BY SameFileTool DEF File!ListFile, File!history, File!HandlePriority,
                      HandlePriority
<1>2. Told' = Told /\ App \in Goroutine
  BY <1>1 DEF Told, Goroutine
<1>3. FileOver \ {reading[App].path} \subseteq FileOver'
  <2>1. \A p \in Path \ {reading[App].path} : files'[p] = files[p]
    BY <1>1 DEF HandlePriority, FileInv, HeldOK
  <2> QED BY <2>1 DEF FileOver, FilePriority
<1> QED BY <1>1, <1>2, <1>3, ListFresh DEF FileFresh

\* The comparisons of HandleFile and Reload.
LEMMA FileCompareFresh ==
  ASSUME FileInv, FileFresh, NEW g \in Goroutine, reading[g] # NoReading,
         File!CompareUpdate(g), File!HasCompared(g),
         UNCHANGED <<disk, files, notices, cleaned>>
  PROVE  FileFresh'
<1>1. HasCompared(g)
  BY SameFileTool DEF File!HasCompared, HasCompared
<1>2. Told' = Told /\ FileOver' = FileOver /\ reading[g].path \in Path
  BY FileOverStays DEF Told, FileInv, WorkOK
<1>3. \/ loaded' = [loaded EXCEPT ![reading[g].path] = reading[g].content]
      \/ UNCHANGED loaded /\ reading[g].path \in FileOver
  <2>1. CASE FilePriority(reading[g].path) = MaxUint32
    BY <1>2, <2>1, SameFileTool DEF File!CompareUpdate, FileOver
  <2>2. CASE FilePriority(reading[g].path) # MaxUint32
    BY <2>2, SameFileTool DEF File!CompareUpdate, File!Compares
  <2> QED BY <2>1, <2>2
<1> QED BY <1>1, <1>2, <1>3, CompareFresh DEF FileFresh, FileInv, HeldOK

LEMMA FileReceiveFresh ==
  ASSUME FileInv, FileFresh, NEW notice \in notices,
         File!Receive(notice[1], notice[2])
  PROVE  FileFresh'
<1>1. PICK p \in Path, op \in {"Write", "Remove", "Rename"} :
        p = notice[1] /\ op = notice[2]
  BY DEF FileInv, DiskOK
<1>2. /\ UNCHANGED <<disk, files, loaded, cleaned>>
      /\ reading[Watcher] = NoReading
      /\ notices' = notices \ {<<p, op>>}
      /\ IF op = "Write" /\ disk[p] \in Config
         THEN Read(Watcher, p) ELSE UNCHANGED <<reading, missed>>
  BY <1>1, SameFileTool DEF File!Receive, File!held, File!Read, Read
<1>3. FileOver' = FileOver /\ Watcher \in Goroutine
  BY <1>2, FileOverStays DEF Goroutine
<1>4. Told \ {p} \subseteq Told' /\ (op # "Write" => Told \subseteq Told')
  BY <1>2 DEF Told
<1>5. CASE op = "Write" /\ disk[p] \in Config
  BY <1>2, <1>3, <1>4, <1>5, ReadFresh DEF FileFresh, FileInv
<1>6. CASE op = "Write" /\ disk[p] \notin Config
  BY <1>2, <1>3, <1>4, <1>6, DropFresh DEF FileFresh
<1>7. CASE op # "Write"
  BY <1>2, <1>3, <1>4, <1>7, FreshStays DEF FileFresh
<1> QED BY <1>5, <1>6, <1>7

LEMMA FileNextFresh ==
  ASSUME FileInv, FileFresh, File!Next
  PROVE  FileFresh'
<1>1. CASE File!Environment
  BY <1>1, FileEnvironmentFresh
<1>2. ASSUME NEW p \in Path, NEW priority \in Priority, File!AddFile(p, priority)
      PROVE  FileFresh'
  BY <1>2, FileFreshStays
     DEF File!AddFile, File!Start, File!tableVars, File!held, File!history
<1>3. CASE \E p \in Path : File!ReadFile(p)
  BY <1>3, FileReadFileFresh
<1>4. CASE \E priority \in Priority : File!AddDirectory(priority)
  BY <1>4, FileFreshStays
     DEF File!AddDirectory, File!Start, File!tableVars, File!held, File!history
<1>5. CASE File!ListFile
  BY <1>5, FileListFileFresh
<1>6. CASE File!HandleFile
  BY <1>6, FileCompareFresh, SameFileTool DEF File!HandleFile, Goroutine
<1>7. CASE File!FinishAdd \/ File!StartWatch
  BY <1>7, FileFreshStays
     DEF File!FinishAdd, File!StartWatch, File!Watch, File!held, File!history
<1>8. CASE File!Reload
  BY <1>8, FileCompareFresh, SameFileTool DEF File!Reload, Goroutine
<1>9. CASE File!WatchEnds \/ File!Cleanup
  <2>1. CASE File!Cleanup
    BY <2>1 DEF File!Cleanup, FileFresh, Fresh
  <2>2. CASE File!WatchEnds
    <3>1. /\ UNCHANGED <<disk, files, loaded, reading>> /\ notices' = {}
          /\ missed' = missed \cup Told
      BY <2>2 DEF File!WatchEnds, File!WatcherFails, File!held, Told
    <3>2. FileOver' = FileOver
      BY <3>1, FileOverStays
    <3>3. Fresh(disk, loaded, reading, missed, Told \cup {}, FileOver)
      BY DEF FileFresh
    <3> QED BY <3>1, <3>2, <3>3, LostFresh DEF FileFresh
  <2> QED BY <1>9, <2>1, <2>2
<1>10. CASE \E notice \in notices : File!Receive(notice[1], notice[2])
  BY <1>10, FileReceiveFresh
<1>11. CASE \E g \in File!Goroutine : \E e \in todo[g] : File!Fire(g, e)
  BY <1>11, FileFreshStays DEF File!Fire, File!OnEvent, File!held, File!history
<1> QED BY <1>1, <1>2, <1>3, <1>4, <1>5, <1>6, <1>7, <1>8, <1>9, <1>10, <1>11
        DEF File!Next

\* At first every file is among the missed.
LEMMA InitFileFresh == InitFile => FileFresh
BY DEF InitFile, File!Init, File!InitTable, FileFresh, Fresh

-----------------------------------------------------------------------------
(***************************************************************************)
(* Of the configmap source.  Its watcher also has files to add; and a file *)
(* that it was adding when Cleanup came may be compared without being      *)
(* listed, which only matters if fsnotify watched it by then.              *)
(***************************************************************************)

MapOver == {p \in Path : PassedOver(p)}

\* The file the watcher is about to add, but has not read.
ToVisit == IF walk[Watcher].at = Nobody THEN walk[Watcher].paths ELSE {}

\* g has what it takes to compare.
Ready(g) ==
  reading[g] # NoReading /\ (walk[g] = ConfigMap!NoWalk \/ walk[g].listed)

\* What is compared is listed, but for a file that the watcher was adding when
\* Cleanup came.
ReadyListed ==
  \A g \in Goroutine : Ready(g) /\ files[reading[g].path] = <<>> =>
    /\ g = Watcher /\ walk[g] # ConfigMap!NoWalk
    /\ reading[g].path \in missed /\ ~watching

MapReads ==
  /\ ReadyListed
  /\ \A g \in Goroutine :
       /\ reading[g] # NoReading /\ walk[g] # ConfigMap!NoWalk =>
            reading[g].path = walk[g].at
       /\ walk[g].at = Nobody \/ walk[g].listed \/ reading[g] # NoReading
  /\ \A p, q \in walk[Watcher].paths : p = q
  /\ ~receiving => watched = {} /\ notices = {}
  /\ receiving => watching

MapFresh ==
  MapReads /\ Fresh(disk, loaded, reading, missed, Told \cup ToVisit, MapOver)

LEMMA SameMapFiles ==
  /\ ConfigMap!Config = Config /\ ConfigMap!Content = Content
  /\ ConfigMap!Goroutine = Goroutine
  /\ ConfigMap!App = App /\ ConfigMap!Watcher = Watcher
  /\ ConfigMap!NoReading = NoReading
  /\ \A p : ConfigMap!FilePriority(p) = FilePriority(p)
BY DEF ConfigMap!Config, Config, ConfigMap!Content, Content, ConfigMap!Goroutine,
       Goroutine, ConfigMap!App, App, ConfigMap!Watcher, Watcher,
       ConfigMap!NoReading, NoReading, ConfigMap!FilePriority, FilePriority

LEMMA MapOverStays ==
  ASSUME UNCHANGED files
  PROVE  MapOver' = MapOver
BY DEF MapOver, PassedOver, FilePriority

LEMMA TwoGoroutines ==
  /\ Goroutine = {App, Watcher} /\ App # Watcher
  /\ \A g \in Goroutine : g # Watcher => g = App
BY DEF Goroutine, App, Watcher

\* Another step that neither changes a file nor reads or compares one.
LEMMA MapFreshStays ==
  ASSUME MapFresh,
         UNCHANGED <<disk, files, loaded, reading, missed, notices, walk, watching,
                     receiving>>,
         receiving \/ watched' = watched
  PROVE  MapFresh'
<1>1. MapOver' = MapOver /\ Told' = Told /\ ToVisit' = ToVisit
  BY MapOverStays DEF Told, ToVisit
<1>2. MapReads'
  BY <1>1 DEF MapFresh, MapReads, ReadyListed, Ready
<1> QED BY <1>1, <1>2 DEF MapFresh

LEMMA MapEnvironmentFresh ==
  ASSUME MapInv, MapFresh, ConfigMap!Environment
  PROVE  MapFresh'
<1>1. PICK p \in Path :
        \/ \E content \in Content : ConfigMap!Write(p, content)
        \/ \E op \in {"Remove", "Rename"} : ConfigMap!Remove(p, op)
  BY SameMapFiles DEF ConfigMap!Environment
<1>2. /\ UNCHANGED <<held, reading, watching, receiving, walk>>
      /\ notices \subseteq notices' /\ watched' \subseteq watched
      /\ p \notin watched => notices' = notices
  BY <1>1 DEF ConfigMap!Environment, ConfigMap!Write, ConfigMap!Remove,
              ConfigMap!Changed, ConfigMap!held, held
<1>3. \/ /\ \E content \in Content :
              Write(p, content) /\ (p \in watched => p \in Told')
         /\ missed' = IF p \in watched THEN missed \ {p} ELSE missed \cup {p}
      \/ /\ \E op \in {"Remove", "Rename"} : Remove(p, op)
         /\ missed' = missed
  <2>1. ASSUME NEW content, ConfigMap!Write(p, content)
        PROVE  /\ Write(p, content) /\ (p \in watched => p \in Told')
               /\ missed' = IF p \in watched THEN missed \ {p} ELSE missed \cup {p}
    BY <2>1 DEF ConfigMap!Write, Write, ConfigMap!Changed, Changed,
                ConfigMap!held, held, Told
  <2>2. ASSUME NEW op, ConfigMap!Remove(p, op)
        PROVE  Remove(p, op) /\ missed' = missed
    BY <2>2 DEF ConfigMap!Remove, Remove, ConfigMap!Changed, Changed,
                ConfigMap!held, held
  <2> QED BY <1>1, <2>1, <2>2
<1>4. /\ Told \subseteq Told' /\ MapOver' = MapOver /\ ToVisit' = ToVisit
      /\ UNCHANGED <<files, loaded>>
  BY <1>2, MapOverStays DEF Told, ToVisit, held
<1>5. MapReads'
  <2>1. ~watching => missed \subseteq missed'
    BY <1>3 DEF MapFresh, MapReads
  <2>2. ReadyListed'
    BY <1>2, <1>4, <2>1 DEF MapFresh, MapReads, ReadyListed, Ready
  <2>3. ~receiving' => watched' = {} /\ notices' = {}
    BY <1>2 DEF MapFresh, MapReads
  <2> QED BY <1>2, <1>4, <2>2, <2>3 DEF MapFresh, MapReads
<1>6. Fresh(disk', loaded', reading', missed', Told' \cup ToVisit', MapOver)
  <2> DEFINE due == Told' \cup ToVisit'
  <2>1. Told \cup ToVisit \subseteq due /\ (p \in Told' => p \in due)
    BY <1>4
  <2> HIDE DEF due
  <2>2. Fresh(disk', loaded', reading', missed', due, MapOver)
    BY <1>3, <2>1, EnvironmentFresh DEF MapFresh, MapInv, DiskOK
  <2> QED BY <2>2 DEF due
<1> QED BY <1>4, <1>5, <1>6 DEF MapFresh

\* AddFile and AddDirectory.
LEMMA MapStartFresh ==
  ASSUME MapInv, MapFresh, NEW paths \in SUBSET Path, NEW priority \in MapPriority,
         ConfigMap!Start(paths, priority),
         receiving \/ watched' = watched
  PROVE  MapFresh'
<1>1. /\ UNCHANGED <<disk, files, loaded, reading, missed, notices, watching,
                     receiving>>
      /\ walk[App] = ConfigMap!NoWalk /\ walk'[App].at = Nobody
      /\ \A g \in Goroutine : g # App => walk'[g] = walk[g]
  BY SameMapFiles, WalkOfType, TwoGoroutines
     DEF ConfigMap!Start, ConfigMap!held, ConfigMap!history, MapInv, WalkOK
<1>2. reading[App] = NoReading /\ walk'[Watcher] = walk[Watcher]
  BY <1>1, TwoGoroutines, NoWalkParts DEF MapInv, WalkOK
<1>3. MapOver' = MapOver /\ Told' = Told /\ ToVisit' = ToVisit
  BY <1>1, <1>2, MapOverStays DEF Told, ToVisit
<1>4. \A g \in Goroutine : reading[g] # NoReading => walk'[g] = walk[g]
  BY <1>1, <1>2
<1>5. ReadyListed'
  BY <1>1, <1>4 DEF MapFresh, MapReads, ReadyListed, Ready
<1>6. \A g \in Goroutine :
        /\ reading'[g] # NoReading /\ walk'[g] # ConfigMap!NoWalk =>
             reading'[g].path = walk'[g].at
        /\ walk'[g].at = Nobody \/ walk'[g].listed \/ reading'[g] # NoReading
  BY <1>1, <1>4 DEF MapFresh, MapReads
<1>7. MapReads'
  BY <1>1, <1>2, <1>3, <1>5, <1>6 DEF MapFresh, MapReads
<1> QED BY <1>1, <1>3, <1>7 DEF MapFresh

LEMMA MapVisitFresh ==
  ASSUME MapInv, MapFresh, NEW g \in Goroutine, NEW p \in Path, ConfigMap!Visit(g, p)
  PROVE  MapFresh'
<1>1. /\ UNCHANGED <<disk, files, loaded, notices, watching, receiving>>
      /\ p \in walk[g].paths /\ walk[g].at = Nobody
  BY DEF ConfigMap!Visit, ConfigMap!held
<1>2. /\ walk[g] # ConfigMap!NoWalk /\ walk[g] \in Walks
      /\ reading[g] = NoReading /\ ~walk[g].listed
  BY <1>1, NoWalkParts DEF MapInv, WalkOK, Walks
<1>3. MapOver' = MapOver /\ Told' = Told
  BY <1>1, MapOverStays DEF Told
<1>4. g = Watcher => ToVisit = {p}
  BY <1>1 DEF ToVisit, MapFresh, MapReads
<1>5. CASE disk[p] \in Config
  <2>1. Read(g, p) /\ walk' = [walk EXCEPT ![g].at = p] /\ UNCHANGED watched
    BY <1>5, SameMapFiles DEF ConfigMap!Visit, ConfigMap!Read, Read
  <2>2. /\ reading'[g].path = p
        /\ \A h \in Goroutine : h # g => reading'[h] = reading[h] /\ walk'[h] = walk[h]
    BY <2>1 DEF Read, MapInv, WorkOK, WalkOK
  <2>3. /\ walk'[g].at = p /\ walk'[g].listed = walk[g].listed
        /\ walk'[g].paths = walk[g].paths /\ missed \subseteq missed'
    BY <1>2, <2>1 DEF Walks, MapInv, WalkOK, Read
  <2>4. walk'[g] # ConfigMap!NoWalk /\ p # Nobody
    BY <2>3, NoWalkParts
  <2>5. ToVisit' \subseteq ToVisit /\ ToVisit \ {p} \subseteq ToVisit'
    <3>1. CASE g = Watcher
      BY <1>4, <2>3, <2>4, <3>1 DEF ToVisit
    <3>2. CASE g # Watcher
      BY <2>2, <3>2, TwoGoroutines DEF ToVisit
    <3> QED BY <3>1, <3>2
  <2>6. MapReads'
    <3>1. ReadyListed'
      BY <1>1, <1>2, <2>2, <2>3, <2>4 DEF MapFresh, MapReads, ReadyListed, Ready
    <3>2. \A h \in Goroutine :
            /\ reading'[h] # NoReading /\ walk'[h] # ConfigMap!NoWalk =>
                 reading'[h].path = walk'[h].at
            /\ walk'[h].at = Nobody \/ walk'[h].listed \/ reading'[h] # NoReading
      BY <2>2, <2>3, <2>4, NoReadingParts DEF MapFresh, MapReads, NoReading
    <3> QED BY <1>1, <2>1, <2>5, <3>1, <3>2 DEF MapFresh, MapReads
  <2>7. Fresh(disk', loaded', reading', missed', Told' \cup ToVisit', MapOver)
    <3> DEFINE due == Told' \cup ToVisit'
    <3>1. (Told \cup ToVisit) \ {p} \subseteq due
      BY <1>3, <2>5
    <3> HIDE DEF due
    <3>2. Fresh(disk', loaded', reading', missed', due, MapOver)
      BY <1>1, <1>2, <2>1, <3>1, ReadFresh DEF MapFresh, MapInv
    <3> QED BY <3>2 DEF due
  <2> QED BY <1>3, <2>6, <2>7 DEF MapFresh
<1>6. CASE disk[p] \notin Config
  <2>1. /\ walk' = [walk EXCEPT ![g] = ConfigMap!NoWalk]
        /\ UNCHANGED <<reading, missed>> /\ (receiving \/ watched' = watched)
    BY <1>6, SameMapFiles DEF ConfigMap!Visit
  <2>2. /\ walk'[g] = ConfigMap!NoWalk
        /\ \A h \in Goroutine : h # g => walk'[h] = walk[h]
    BY <2>1 DEF MapInv, WalkOK
  <2>3. ToVisit' \subseteq ToVisit /\ ToVisit \ {p} \subseteq ToVisit'
    <3>1. CASE g = Watcher
      BY <1>4, <2>2, <3>1, NoWalkParts DEF ToVisit
    <3>2. CASE g # Watcher
      BY <2>2, <3>2, TwoGoroutines DEF ToVisit
    <3> QED BY <3>1, <3>2
  <2>4. \A h \in Goroutine : reading[h] # NoReading => walk'[h] = walk[h]
    BY <1>2, <2>2
  <2>5. MapReads'
    <3>1. ReadyListed'
      BY <1>1, <2>1, <2>4 DEF MapFresh, MapReads, ReadyListed, Ready
    <3>2. \A h \in Goroutine :
            /\ reading'[h] # NoReading /\ walk'[h] # ConfigMap!NoWalk =>
                 reading'[h].path = walk'[h].at
            /\ walk'[h].at = Nobody \/ walk'[h].listed \/ reading'[h] # NoReading
      BY <2>1, <2>2, <2>4, NoWalkParts DEF MapFresh, MapReads
    <3>3. walk'[Watcher].paths \subseteq walk[Watcher].paths
      BY <2>2, NoWalkParts, TwoGoroutines
    <3> QED BY <1>1, <2>1, <3>1, <3>2, <3>3 DEF MapFresh, MapReads
  <2>6. Fresh(disk', loaded', reading', missed', Told' \cup ToVisit', MapOver)
    <3> DEFINE due == Told' \cup ToVisit'
    <3>1. (Told \cup ToVisit) \ {p} \subseteq due
      BY <1>3, <2>3
    <3> HIDE DEF due
    <3>2. Fresh(disk', loaded', reading', missed', due, MapOver)
      BY <1>1, <1>6, <2>1, <3>1, DropFresh DEF MapFresh
    <3> QED BY <3>2 DEF due
  <2> QED BY <1>3, <2>5, <2>6 DEF MapFresh
<1> QED BY <1>5, <1>6

LEMMA MapListFileFresh ==
  ASSUME MapInv, MapFresh, NEW g \in Goroutine, ConfigMap!ListFile(g)
  PROVE  MapFresh'
<1> DEFINE p == walk[g].at
<1>1. /\ UNCHANGED <<disk, loaded, reading, missed, notices, watching, receiving,
                     watched>>
      /\ p # Nobody /\ HandlePriority(p, walk[g].priority)
      /\ walk' = [walk EXCEPT ![g].listed = TRUE]
  BY DEF ConfigMap!ListFile, ConfigMap!history, ConfigMap!HandlePriority,
         HandlePriority
<1>2. walk[g] # ConfigMap!NoWalk /\ walk[g] \in Walks /\ p \in Path
  BY <1>1, NoWalkParts DEF MapInv, WalkOK, Walks
<1>3. /\ walk'[g].at = p /\ walk'[g].paths = walk[g].paths
      /\ \A h \in Goroutine : h # g => walk'[h] = walk[h]
  BY <1>1, <1>2 DEF MapInv, WalkOK, Walks
<1>4. walk'[g] # ConfigMap!NoWalk
  BY <1>1, <1>3, NoWalkParts
<1>5. /\ \A q \in Path \ {p} : files'[q] = files[q]
      /\ files'[p] # <<>>
  <2>1. files[p] \in Seq(0..MaxUint32) /\ walk[g].priority \in 0..MaxUint32
    BY <1>2 DEF MapInv, HeldOK, Walks
  <2>2. Append(files[p], walk[g].priority) # <<>>
    BY <2>1, AppendProperties
  <2>4. CASE \E i \in DOMAIN files[p] : files[p][i] = walk[g].priority
    BY <1>1, <2>4 DEF HandlePriority
  <2>5. CASE ~\E i \in DOMAIN files[p] : files[p][i] = walk[g].priority
    <3>1. files' = [files EXCEPT ![p] = Append(@, walk[g].priority)]
      BY <1>1, <2>5 DEF HandlePriority
    <3> QED BY <1>2, <2>2, <3>1 DEF MapInv, HeldOK
  <2> QED BY <2>4, <2>5
<1>6. reading[g].path = p
  <2>1. ~walk[g].listed
    BY DEF ConfigMap!ListFile
  <2> QED BY <1>1, <1>2, <2>1 DEF MapFresh, MapReads
<1>7. Told' = Told /\ ToVisit' = ToVisit
  <2>1. CASE g = Watcher
    BY <1>1, <1>3, <2>1 DEF Told, ToVisit
  <2>2. CASE g # Watcher
    BY <1>1, <1>3, <2>2, TwoGoroutines DEF Told, ToVisit
  <2> QED BY <2>1, <2>2
<1>8. MapReads'
  <2>1. ASSUME NEW h \in Goroutine, Ready(h)', files'[reading'[h].path] = <<>>
        PROVE  /\ h = Watcher /\ walk'[h] # ConfigMap!NoWalk
               /\ reading'[h].path \in missed' /\ ~watching'
    <3>1. reading[h].path \in Path /\ reading[h].path # p
      BY <1>1, <1>5, <2>1 DEF Ready, MapInv, WorkOK
    <3>2. h # g
      BY <1>1, <1>6, <2>1, <3>1 DEF Ready
    <3>3. Ready(h) /\ files[reading[h].path] = <<>> /\ walk'[h] = walk[h]
      BY <1>1, <1>3, <1>5, <2>1, <3>1, <3>2 DEF Ready
    <3> QED BY <1>1, <3>3 DEF MapFresh, MapReads, ReadyListed
  <2>2. \A h \in Goroutine :
          /\ reading'[h] # NoReading /\ walk'[h] # ConfigMap!NoWalk =>
               reading'[h].path = walk'[h].at
          /\ walk'[h].at = Nobody \/ walk'[h].listed \/ reading'[h] # NoReading
    <3>1. walk'[g].listed
      BY <1>1, <1>2 DEF MapInv, WalkOK, Walks
    <3> QED BY <1>1, <1>2, <1>3, <3>1 DEF MapFresh, MapReads
  <2> QED BY <1>1, <1>7, <2>1, <2>2 DEF MapFresh, MapReads, ReadyListed
<1>9. Fresh(disk', loaded', reading', missed', Told \cup ToVisit, MapOver')
  <2> DEFINE over2 == MapOver'
  <2>1. MapOver \ {reading[g].path} \subseteq over2
    BY <1>5, <1>6 DEF MapOver, PassedOver, FilePriority
  <2> HIDE DEF over2
  <2>2. Fresh(disk', loaded', reading', missed', Told \cup ToVisit, over2)
    BY <1>1, <2>1, ListFresh DEF MapFresh
  <2> QED BY <2>2 DEF over2
<1> QED BY <1>7, <1>8, <1>9 DEF MapFresh

LEMMA MapCompareFresh ==
  ASSUME MapInv, MapFresh, NEW g \in Goroutine, ConfigMap!Compare(g)
  PROVE  MapFresh'
<1> DEFINE p == reading[g].path
<1>1. /\ UNCHANGED <<disk, files, notices, watching, receiving, watched, walk>>
      /\ Ready(g) /\ HasCompared(g)
  BY SameMapFiles DEF ConfigMap!Compare, ConfigMap!HasCompared, HasCompared, Ready
<1>2. MapOver' = MapOver /\ Told' = Told /\ ToVisit' = ToVisit /\ p \in Path
  BY <1>1, MapOverStays DEF Told, ToVisit, Ready, MapInv, WorkOK
<1>3. /\ reading'[g] = NoReading
      /\ \A h \in Goroutine : h # g => reading'[h] = reading[h]
  BY <1>1 DEF HasCompared, MapInv, WorkOK
<1>4. \A q \in missed : q \in missed' \/ (q = p /\ files[p] # <<>>
                                            /\ \A h \in Goroutine : h # g => reading[h].path # p)
  BY <1>1 DEF HasCompared
<1>5. MapReads'
  <2>1. ASSUME NEW h \in Goroutine, Ready(h)', files'[reading'[h].path] = <<>>
        PROVE  /\ h = Watcher /\ walk'[h] # ConfigMap!NoWalk
               /\ reading'[h].path \in missed' /\ ~watching'
    <3>1. h # g
      BY <1>3, <2>1 DEF Ready
    <3>2. Ready(h) /\ files[reading[h].path] = <<>> /\ reading'[h] = reading[h]
      BY <1>1, <1>3, <2>1, <3>1 DEF Ready
    <3> QED BY <1>1, <1>4, <3>1, <3>2 DEF MapFresh, MapReads, ReadyListed
  <2>2. \A h \in Goroutine :
          /\ reading'[h] # NoReading /\ walk'[h] # ConfigMap!NoWalk =>
               reading'[h].path = walk'[h].at
          /\ walk'[h].at = Nobody \/ walk'[h].listed \/ reading'[h] # NoReading
    BY <1>1, <1>3, NoWalkParts DEF MapFresh, MapReads, Ready
  <2> QED BY <1>1, <1>2, <2>1, <2>2 DEF MapFresh, MapReads, ReadyListed
<1>6. \/ loaded' = [loaded EXCEPT ![p] = reading[g].content]
      \/ UNCHANGED loaded /\ p \in MapOver \cup missed'
  <2>1. CASE FilePriority(p) = MaxUint32 /\ files[p] # <<>>
    BY <1>2, <2>1, SameMapFiles
       DEF ConfigMap!Compare, ConfigMap!CompareUpdate, MapOver, PassedOver
  <2>2. CASE FilePriority(p) = MaxUint32 /\ files[p] = <<>>
    <3>1. p \in missed
      BY <1>1, <2>2 DEF MapFresh, MapReads, ReadyListed
    <3>2. p \in missed'
      BY <1>4, <2>2, <3>1
    <3> QED BY <2>2, <3>2, SameMapFiles
            DEF ConfigMap!Compare, ConfigMap!CompareUpdate
  <2>3. CASE FilePriority(p) # MaxUint32
    BY <2>3, SameMapFiles
       DEF ConfigMap!Compare, ConfigMap!CompareUpdate, ConfigMap!Compares
  <2> QED BY <2>1, <2>2, <2>3
<1>7. Fresh(disk', loaded', reading', missed', Told \cup ToVisit, MapOver)
  BY <1>1, <1>2, <1>6, CompareFresh DEF MapFresh, MapInv, HeldOK
<1> QED BY <1>2, <1>5, <1>7 DEF MapFresh

LEMMA MapWatchFileFresh ==
  ASSUME MapInv, MapFresh, NEW g \in Goroutine, ConfigMap!WatchFile(g)
  PROVE  MapFresh'
<1> DEFINE p == walk[g].at
           w == ConfigMap!WalkOf(walk[g].paths \ {p}, walk[g].priority)
<1>1. /\ UNCHANGED <<disk, files, loaded, reading, missed, notices, watching,
                     receiving>>
      /\ p # Nobody /\ reading[g] = NoReading
      /\ receiving \/ watched' = watched
      /\ walk' = [walk EXCEPT ![g] = w]
  BY SameMapFiles DEF ConfigMap!WatchFile, ConfigMap!held, ConfigMap!history,
                      MapInv, WalkOK
<1>2. walk[g] \in Walks
  BY <1>1, NoWalkParts DEF MapInv, WalkOK, Walks
<1>3. w.at = Nobody
  BY <1>2, WalkOfType DEF Walks
<1>4. /\ walk'[g] = w
      /\ \A h \in Goroutine : h # g => walk'[h] = walk[h]
  BY <1>1 DEF MapInv, WalkOK
<1>5. MapOver' = MapOver /\ Told' = Told
  BY <1>1, MapOverStays DEF Told
<1>6. ToVisit' = ToVisit /\ \A q, r \in walk'[Watcher].paths : q = r
  <2>1. CASE g = Watcher
    <3>1. ToVisit = {} /\ walk[g].paths \ {p} = {}
      BY <1>1, <2>1, TwoGoroutines DEF ToVisit, MapFresh, MapReads, MapInv, WalkOK
    <3>2. w.paths = {}
      BY <3>1, NoWalkParts DEF ConfigMap!WalkOf
    <3> QED BY <1>3, <1>4, <2>1, <3>1, <3>2 DEF ToVisit
  <2>2. CASE g # Watcher
    BY <1>4, <2>2, TwoGoroutines DEF ToVisit, MapFresh, MapReads
  <2> QED BY <2>1, <2>2
<1>7. ReadyListed'
  BY <1>1, <1>4 DEF MapFresh, MapReads, ReadyListed, Ready
<1>8. \A h \in Goroutine :
        /\ reading'[h] # NoReading /\ walk'[h] # ConfigMap!NoWalk =>
             reading'[h].path = walk'[h].at
        /\ walk'[h].at = Nobody \/ walk'[h].listed \/ reading'[h] # NoReading
  BY <1>1, <1>3, <1>4 DEF MapFresh, MapReads
<1>9. MapReads'
  BY <1>1, <1>6, <1>7, <1>8 DEF MapFresh, MapReads
<1> QED BY <1>1, <1>5, <1>6, <1>9 DEF MapFresh

LEMMA MapWatchFresh ==
  ASSUME MapInv, MapFresh, ConfigMap!StartWatch
  PROVE  MapFresh'
<1>1. /\ UNCHANGED <<disk, files, loaded, reading, missed, notices, walk>>
      /\ watching' = TRUE /\ receiving' = TRUE /\ walk[Watcher] = ConfigMap!NoWalk
  BY SameMapFiles DEF ConfigMap!StartWatch, ConfigMap!Watch, ConfigMap!held,
                      ConfigMap!history
<1>2. MapOver' = MapOver /\ Told' = Told /\ ToVisit' = ToVisit
  BY <1>1, MapOverStays DEF Told, ToVisit
<1>3. ReadyListed'
  BY <1>1 DEF MapFresh, MapReads, ReadyListed, Ready
<1> QED BY <1>1, <1>2, <1>3 DEF MapFresh, MapReads

LEMMA MapReceiveFresh ==
  ASSUME MapInv, MapFresh, NEW notice \in notices,
         ConfigMap!Receive(notice[1], notice[2])
  PROVE  MapFresh'
<1>1. PICK p \in Path, op \in {"Write", "Remove", "Rename"} :
        p = notice[1] /\ op = notice[2]
  BY DEF MapInv, DiskOK
<1> DEFINE reads == op = "Write" /\ files[p] # <<>> /\ disk[p] \in Config
           begins == op = "Write" /\ files[p] = <<>> /\ disk[p] # NoFile
<1>2. PICK priority \in ConfigMap!AppearsWith(p) :
         walk' = IF begins
                 THEN [walk EXCEPT ![Watcher] = ConfigMap!WalkOf({p}, priority)]
                 ELSE walk
  <2>1. ConfigMap!AppearsWith(p) # {}
    <3> DEFINE parts == {q \in Path : <<p, q>> \in Contains /\ files[q] # <<>>}
    <3>1. CASE parts = {}
      BY <3>1 DEF ConfigMap!AppearsWith
    <3>2. ASSUME NEW q \in parts PROVE ConfigMap!FilePriority(q) \in ConfigMap!AppearsWith(p)
      BY <3>2 DEF ConfigMap!AppearsWith
    <3> QED BY <3>1, <3>2
  <2> QED BY <1>1, <2>1, SameMapFiles DEF ConfigMap!Receive
<1> DEFINE w == ConfigMap!WalkOf({p}, priority)
<1>3. /\ UNCHANGED <<disk, files, loaded, watching, receiving>>
      /\ walk[Watcher] = ConfigMap!NoWalk
      /\ reading[Watcher] = NoReading
      /\ notices' = notices \ {<<p, op>>}
      /\ IF reads THEN Read(Watcher, p) ELSE UNCHANGED <<reading, missed>>
  BY <1>1, SameMapFiles DEF ConfigMap!Receive, ConfigMap!Idle, ConfigMap!held,
                            ConfigMap!Read, Read
<1>4. MapOver' = MapOver /\ Watcher \in Goroutine /\ watching /\ receiving
  BY <1>3, MapOverStays DEF Goroutine, MapFresh, MapReads
<1>5. /\ w # ConfigMap!NoWalk /\ w.at = Nobody /\ w.paths = {p} /\ ~w.listed
  BY NoWalkParts DEF ConfigMap!WalkOf
<1>6. ToVisit = {}
  BY <1>3, NoWalkParts DEF ToVisit
<1>7. /\ walk'[Watcher] = IF begins THEN w ELSE ConfigMap!NoWalk
      /\ \A g \in Goroutine : g # Watcher => walk'[g] = walk[g]
  BY <1>2, <1>3, <1>4 DEF MapInv, WalkOK
<1> HIDE DEF w
<1>8. ToVisit' = IF begins THEN {p} ELSE {}
  BY <1>5, <1>7, NoWalkParts DEF ToVisit
<1>9. Told \ {p} \subseteq Told' /\ (op # "Write" => Told \subseteq Told')
  BY <1>3 DEF Told
<1>10. /\ reading'[Watcher].path \in {Nobody, p}
       /\ reading'[Watcher] # NoReading => reads
       /\ \A g \in Goroutine : g # Watcher => reading'[g] = reading[g]
  BY <1>3, <1>4 DEF Read, MapInv, WorkOK, NoReading
<1>11. MapReads'
  <2>1. ReadyListed'
    <3> SUFFICES ASSUME NEW g \in Goroutine, Ready(g)',
                        files'[reading'[g].path] = <<>>
                 PROVE  /\ g = Watcher /\ walk'[g] # ConfigMap!NoWalk
                        /\ reading'[g].path \in missed' /\ ~watching'
      BY DEF ReadyListed
    <3>1. CASE g = Watcher
      <4>1. reads /\ reading'[g].path = p
        BY <1>3, <1>4, <1>10, <3>1 DEF Ready, Read, MapInv, WorkOK
      <4> QED BY <1>3, <4>1
    <3>2. CASE g # Watcher
      <4>1. Ready(g) /\ files[reading[g].path] = <<>>
        BY <1>3, <1>7, <1>10, <3>2 DEF Ready
      <4> QED BY <1>4, <4>1 DEF MapFresh, MapReads, ReadyListed
    <3> QED BY <3>1, <3>2
  <2>2. \A g \in Goroutine :
          /\ reading'[g] # NoReading /\ walk'[g] # ConfigMap!NoWalk =>
               reading'[g].path = walk'[g].at
          /\ walk'[g].at = Nobody \/ walk'[g].listed \/ reading'[g] # NoReading
    <3>1. walk'[Watcher].at = Nobody
          /\ (reading'[Watcher] # NoReading => walk'[Watcher] = ConfigMap!NoWalk)
      BY <1>5, <1>7, <1>10, NoWalkParts
    <3> QED BY <1>7, <1>10, <3>1 DEF MapFresh, MapReads
  <2>3. \A q, r \in walk'[Watcher].paths : q = r
    BY <1>5, <1>7, NoWalkParts
  <2> QED BY <1>3, <1>4, <2>1, <2>2, <2>3 DEF MapReads
<1>12. Fresh(disk', loaded', reading', missed', Told' \cup ToVisit', MapOver)
  <2> DEFINE due == Told' \cup ToVisit'
  <2>1. /\ (Told \cup ToVisit) \ {p} \subseteq due
        /\ op # "Write" \/ begins => Told \cup ToVisit \subseteq due
    BY <1>6, <1>8, <1>9
  <2> HIDE DEF due
  <2>2. CASE reads
    <3>1. Fresh(disk', loaded', reading', missed', due, MapOver)
      BY <1>3, <1>4, <2>1, <2>2, ReadFresh DEF MapFresh, MapInv
    <3> QED BY <3>1 DEF due
  <2>3. CASE ~reads /\ (op # "Write" \/ begins)
    <3>1. Fresh(disk', loaded', reading', missed', due, MapOver)
      BY <1>3, <2>1, <2>3, FreshStays DEF MapFresh
    <3> QED BY <3>1 DEF due
  <2>4. CASE ~reads /\ ~(op # "Write" \/ begins)
    <3>1. Fresh(disk', loaded', reading', missed', due, MapOver)
      BY <1>3, <2>1, <2>4, DropFresh DEF MapFresh
    <3> QED BY <3>1 DEF due
  <2> QED BY <2>2, <2>3, <2>4
<1> QED BY <1>4, <1>11, <1>12 DEF MapFresh

LEMMA MapWatchEndsFresh ==
  ASSUME MapInv, MapFresh, ConfigMap!WatchEnds
  PROVE  MapFresh'
<1>1. /\ UNCHANGED <<disk, files, loaded, reading, walk, watching>>
      /\ receiving' = FALSE /\ watched' = {} /\ notices' = {}
      /\ walk[Watcher] = ConfigMap!NoWalk
      /\ missed' = missed \cup {p \in Path : <<p, "Write">> \in notices}
  BY SameMapFiles DEF ConfigMap!WatchEnds, ConfigMap!WatcherFails, ConfigMap!held
<1>2. MapOver' = MapOver /\ Told' = {} /\ ToVisit = {} /\ ToVisit' = {}
  BY <1>1, MapOverStays, NoWalkParts DEF Told, ToVisit
<1>3. MapReads'
  BY <1>1 DEF MapFresh, MapReads, ReadyListed, Ready
<1>4. Fresh(disk', loaded', reading', missed', {}, MapOver)
  BY <1>1, <1>2, LostFresh DEF MapFresh, Told
<1> QED BY <1>2, <1>3, <1>4 DEF MapFresh

LEMMA MapCleanupFresh ==
  ASSUME MapInv, MapFresh, ConfigMap!Cleanup
  PROVE  MapFresh'
<1>1. /\ walk[App] = ConfigMap!NoWalk /\ watching' = FALSE /\ receiving' = FALSE /\ missed' = Path
      /\ watched' = {} /\ notices' = {} /\ walk' = walk
      /\ reading' \in {reading, [reading EXCEPT ![Watcher] = NoReading]}
      /\ \/ walk[Watcher] # ConfigMap!NoWalk /\ reading' = reading
         \/ /\ walk[Watcher] = ConfigMap!NoWalk \/ walk[Watcher].listed
            /\ reading' = [reading EXCEPT ![Watcher] = NoReading]
  BY SameMapFiles DEF ConfigMap!Cleanup
<1>2. reading[App] = NoReading /\ walk[App].at = Nobody
  BY <1>1, TwoGoroutines, NoWalkParts DEF MapInv, WalkOK
<1>3. /\ reading'[App] = NoReading
      /\ reading'[Watcher] \in {reading[Watcher], NoReading}
      /\ reading'[Watcher] # NoReading => walk[Watcher] # ConfigMap!NoWalk
      /\ reading'[Watcher].path \in Path \cup {Nobody}
      /\ \/ reading'[Watcher] = reading[Watcher]
         \/ walk[Watcher] = ConfigMap!NoWalk \/ walk[Watcher].listed
  BY <1>1, <1>2, TwoGoroutines, NoReadingParts DEF MapInv, WorkOK, NoReading
<1>4. ReadyListed'
  <2> SUFFICES ASSUME NEW g \in Goroutine, Ready(g)'
               PROVE  /\ g = Watcher /\ walk'[g] # ConfigMap!NoWalk
                      /\ reading'[g].path \in missed' /\ ~watching'
    BY DEF ReadyListed
  <2>1. g = Watcher /\ reading'[g] # NoReading
    BY <1>3, TwoGoroutines DEF Ready
  <2>2. reading'[g].path \in Path
    BY <1>1, <1>3, <2>1 DEF MapInv, WorkOK
  <2> QED BY <1>1, <1>3, <2>1, <2>2
<1>5. \A g \in Goroutine :
        /\ reading'[g] # NoReading /\ walk'[g] # ConfigMap!NoWalk =>
             reading'[g].path = walk'[g].at
        /\ walk'[g].at = Nobody \/ walk'[g].listed \/ reading'[g] # NoReading
  BY <1>1, <1>2, <1>3, TwoGoroutines, NoWalkParts DEF MapFresh, MapReads
<1>6. MapReads'
  BY <1>1, <1>4, <1>5 DEF MapFresh, MapReads
<1> QED BY <1>1, <1>6 DEF MapFresh, Fresh

LEMMA MapNextFresh ==
  ASSUME MapInv, MapFresh, ConfigMap!Next
  PROVE  MapFresh'
<1>1. CASE ConfigMap!Environment
  BY <1>1, MapEnvironmentFresh
<1>2. ASSUME NEW priority \in MapPriority, NEW p \in Path,
             ConfigMap!AddFile(p, priority)
      PROVE  MapFresh'
  <2>1. ConfigMap!Start({p}, priority) /\ watched' = watched
    BY <1>2 DEF ConfigMap!AddFile
  <2> QED BY <2>1, MapStartFresh
<1>3. ASSUME NEW priority \in MapPriority, ConfigMap!AddDirectory(priority)
      PROVE  MapFresh'
  <2> DEFINE there == {p \in InDirectory : disk[p] # NoFile}
  <2>1. ConfigMap!Start(there, priority) /\ (receiving \/ watched' = watched)
    BY <1>3 DEF ConfigMap!AddDirectory
  <2>2. there \in SUBSET Path
    OBVIOUS
  <2> HIDE DEF there
  <2> QED BY <2>1, <2>2, MapStartFresh
<1>4. ASSUME NEW g \in Goroutine, NEW e, ConfigMap!Fire(g, e)
      PROVE  MapFresh'
  BY <1>4, MapFreshStays DEF ConfigMap!Fire, ConfigMap!OnEvent, ConfigMap!held,
                             ConfigMap!history
<1>5. CASE \E notice \in notices : ConfigMap!Receive(notice[1], notice[2])
  BY <1>5, MapReceiveFresh
<1>6. CASE ConfigMap!StartWatch \/ ConfigMap!WatchEnds \/ ConfigMap!Cleanup
  BY <1>6, MapWatchFresh, MapWatchEndsFresh, MapCleanupFresh
<1>7. CASE \E g \in Goroutine : \/ \E p \in Path : ConfigMap!Visit(g, p)
                                \/ ConfigMap!ListFile(g) \/ ConfigMap!Compare(g)
                                \/ ConfigMap!WatchFile(g)
  BY <1>7, MapVisitFresh, MapListFileFresh, MapCompareFresh, MapWatchFileFresh
<1> QED BY <1>1, <1>2, <1>3, <1>4, <1>5, <1>6, <1>7, SameMapFiles
        DEF ConfigMap!Next

LEMMA InitMapFresh == InitConfigMap => MapFresh
<1> SUFFICES ASSUME InitConfigMap PROVE MapFresh
  OBVIOUS
<1>1. /\ \A g \in Goroutine : reading[g] = NoReading /\ walk[g] = ConfigMap!NoWalk
      /\ watched = {} /\ notices = {} /\ missed = Path /\ ~receiving
  BY SameMapFiles DEF InitConfigMap, ConfigMap!Init, ConfigMap!InitTable
<1>2. MapReads
  BY <1>1, NoWalkParts, TwoGoroutines DEF MapReads, ReadyListed, Ready
<1> QED BY <1>1, <1>2 DEF MapFresh, Fresh

-----------------------------------------------------------------------------
(***************************************************************************)
(* Of the source under test.                                               *)
(***************************************************************************)

LocalFresh == IF kind = "file" THEN FileFresh ELSE MapFresh

LEMMA LocalFreshInvariance == Spec => []LocalFresh
<1>1. Init => LocalFresh
  BY InitFileFresh, InitMapFresh
     DEF Init, InitFile, InitConfigMap, LocalFresh
<1>2. LocalInv /\ LocalFresh /\ [Next]_localVars => LocalFresh'
  <2> SUFFICES ASSUME LocalInv, LocalFresh, [Next]_localVars PROVE LocalFresh'
    OBVIOUS
  <2>1. CASE ByFile(File!Next)
    <3>1. FileInv /\ FileFresh /\ File!Next /\ kind = "file" /\ kind' = kind
      BY <2>1 DEF ByFile, LocalInv, LocalFresh
    <3> QED BY <3>1, FileNextFresh DEF LocalFresh
  <2>2. CASE ByConfigMap(ConfigMap!Next)
    <3>1. MapInv /\ MapFresh /\ ConfigMap!Next /\ kind # "file" /\ kind' = kind
      BY <2>2 DEF ByConfigMap, LocalInv, LocalFresh
    <3> QED BY <3>1, MapNextFresh DEF LocalFresh
  <2>3. CASE UNCHANGED localVars
    <3>1. UNCHANGED <<disk, files, loaded, reading, missed, notices, cleaned, walk,
                      watching, receiving, watched, kind>>
      BY <2>3 DEF localVars, tableVars, held, history
    <3> QED BY <3>1, FileFreshStays, MapFreshStays DEF LocalFresh
  <2> QED BY <2>1, <2>2, <2>3 DEF Next
<1> QED BY <1>1, <1>2, LocalInvariance, PTL DEF Spec

\* No change of a file under the source's watch is lost, however the watcher,
\* AddFile and Cleanup meet: when nothing is left of what fsnotify told, or of
\* what was read, the source has the content of every such file (watchFile,
\* updateFile, compareUpdate).  What Reloads leaves to fairness is only that such
\* a moment comes.
THEOREM NoChangeIsLost == Spec => [](AtRest => Reloaded)
<1>1. ASSUME FileInv, FileFresh, AtRest PROVE File!HasReloaded
  <2>1. Told = {} /\ \A g \in Goroutine : reading[g].path = Nobody
    BY <1>1 DEF AtRest, Told, NoReading
  <2>2. ASSUME NEW p \in Path, files[p] # <<>>, p \notin missed, disk[p] \in Config
        PROVE  loaded[p] = disk[p] \/ File!PassedOver(p)
    <3>1. Fresh(disk, loaded, reading, missed, Told, FileOver)
      BY <1>1, <2>2 DEF FileFresh, FileInv, JobOK
    <3>2. p \in FileOver \/ loaded[p] = disk[p]
      BY <2>1, <2>2, <3>1 DEF Fresh
    <3> QED BY <2>2, <3>2, SameFileTool DEF FileOver, File!PassedOver
  <2> QED BY <2>2, SameFileTool DEF File!HasReloaded, File!Caught
<1>2. ASSUME MapInv, MapFresh, AtRest PROVE ConfigMap!HasFound
  <2>1. /\ Told = {} /\ ToVisit = {}
        /\ \A g \in Goroutine : reading[g].path = Nobody
    BY <1>2, NoWalkParts DEF AtRest, Told, ToVisit, NoReading
  <2>2. ASSUME NEW p \in watched, p \notin missed, disk[p] \in Config
        PROVE  loaded[p] = disk[p] \/ ConfigMap!PassedOver(p)
    <3>1. p \in Path
      BY <1>2 DEF MapInv, DiskOK
    <3>2. p \in MapOver \/ loaded[p] = disk[p]
      BY <1>2, <2>1, <2>2, <3>1 DEF MapFresh, Fresh
    <3> QED BY <3>2, SameMapFiles DEF MapOver, PassedOver, ConfigMap!PassedOver
  <2> QED BY <2>2, SameMapFiles DEF ConfigMap!HasFound, ConfigMap!Caught
<1>3. LocalInv /\ LocalFresh => (AtRest => Reloaded)
  BY <1>1, <1>2 DEF LocalInv, LocalFresh, Reloaded
<1> QED BY <1>3, LocalInvariance, LocalFreshInvariance, PTL
=============================================================================
