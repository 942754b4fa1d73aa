------------------------- MODULE ManagerLocksProofs -------------------------
(***************************************************************************)
(* Proofs about ManagerLocks, for any number of goroutines of each sort:   *)
(* where a goroutine is in its call says which locks it holds, so nobody   *)
(* keeps one, and while there is a call under way one can go on.           *)
(***************************************************************************)
EXTENDS ManagerLocks, TLAPS

USE ProcAssumption, MemAssumption, QuietAssumption

-----------------------------------------------------------------------------
(***************************************************************************)
(* What a goroutine holds at each place of its code.                       *)
(***************************************************************************)

\* The places where p reads the sources twice: Set and Delete inside
\* getHighPrioritySource, OnModuleEvent or findNextBestSource.
SourcesTwice(p) ==
  IF p \in Setters THEN {"compare", "retry", "scan", "probe", "probed"} ELSE {}

SourcesOnce(p) ==
  IF p \in Setters
  THEN {"sources", "elsewhere", "ignored", "delete", "clean", "cleaned", "return"}
  ELSE IF p \in Getters THEN {"source", "scan", "probe", "probed"}
  ELSE IF p \in Refreshers THEN {"onEvent"}
  ELSE {"pull", "route"}

KieOnce(p) ==
  IF p \in Setters THEN {"probe"}
  ELSE IF p \in Getters THEN {"asked", "probe", "answered"}
  ELSE {}

\* How often p holds l for reading when it is at place.
Reads(p, place, l) ==
  IF l = "kie" THEN IF place \in KieOnce(p) THEN 1 ELSE 0
  ELSE IF place \in SourcesTwice(p) THEN 2
  ELSE IF place \in SourcesOnce(p) THEN 1 ELSE 0

\* Where p holds l for writing: kie is cleaned up, or refreshes; a source is
\* being registered.
Writes(p, l) ==
  IF l = "kie"
  THEN IF p \in Setters THEN {"cleaned"}
       ELSE IF p \in Getters THEN {}
       ELSE IF p \in Refreshers THEN {"fired", "event", "onEvent"} ELSE {}
  ELSE IF p \in Setters \cup Getters \cup Refreshers THEN {} ELSE {"named"}

\* What the code says of one step of p from one place to the next.
Fits(p, from, op, lock, to) ==
  /\ op \in {"RLock", "RUnlock", "Lock", "Unlock", "Miss", "Ready", "Start"}
  /\ op \in {"RLock", "RUnlock", "Lock", "Unlock"} => lock \in Locks
  /\ \A l \in Locks :
       Reads(p, to, l) = IF l # lock THEN Reads(p, from, l)
                         ELSE IF op = "RLock" THEN Reads(p, from, l) + 1
                         ELSE IF op = "RUnlock" THEN Reads(p, from, l) - 1
                         ELSE Reads(p, from, l)
  /\ \A l \in Locks :
       to \in Writes(p, l) <=>
         IF l # lock THEN from \in Writes(p, l)
         ELSE IF op = "Lock" THEN TRUE
         ELSE IF op = "Unlock" THEN FALSE
         ELSE from \in Writes(p, l)
  /\ op = "Unlock" => from \in Writes(p, lock)

LEMMA SetFits ==
  ASSUME NEW p \in Setters, NEW step \in SetCode
  PROVE  Fits(p, step[1], step[2], step[3], step[4])
BY DEF SetCode, Fits, Reads, Writes, SourcesTwice, SourcesOnce, KieOnce, Locks

LEMMA CleanFits ==
  ASSUME NEW p \in Setters, NEW step \in CleanCode
  PROVE  Fits(p, step[1], step[2], step[3], step[4])
BY DEF CleanCode, Fits, Reads, Writes, SourcesTwice, SourcesOnce, KieOnce, Locks

LEMMA GetFits ==
  ASSUME NEW p \in Getters \ Setters, NEW step \in GetCode
  PROVE  Fits(p, step[1], step[2], step[3], step[4])
BY DEF GetCode, Fits, Reads, Writes, SourcesTwice, SourcesOnce, KieOnce, Locks

LEMMA RefreshFits ==
  ASSUME NEW p \in Refreshers \ (Setters \cup Getters), NEW step \in RefreshCode
  PROVE  Fits(p, step[1], step[2], step[3], step[4])
BY DEF RefreshCode, Fits, Reads, Writes, SourcesTwice, SourcesOnce, KieOnce, Locks

LEMMA AddFits ==
  ASSUME NEW p \in Adders \ (Setters \cup Getters \cup Refreshers),
         NEW step \in AddCode \cup AddMemoryCode
  PROVE  Fits(p, step[1], step[2], step[3], step[4])
BY DEF AddCode, AddMemoryCode, Fits, Reads, Writes, SourcesTwice, SourcesOnce,
       KieOnce, Locks

LEMMA CodeFits ==
  ASSUME NEW p \in Proc, NEW step \in Code(p)
  PROVE  Fits(p, step[1], step[2], step[3], step[4])
<1>1. CASE p \in Setters
  BY <1>1, SetFits, CleanFits DEF Code
<1>2. CASE p \in Getters \ Setters
  BY <1>2, GetFits DEF Code
<1>3. CASE p \in Refreshers \ (Setters \cup Getters)
  BY <1>3, RefreshFits DEF Code
<1>4. CASE p \in Adders \ (Setters \cup Getters \cup Refreshers)
  BY <1>4, AddFits DEF Code
<1> QED BY <1>1, <1>2, <1>3, <1>4 DEF Proc

-----------------------------------------------------------------------------
(***************************************************************************)
(* The invariant.                                                          *)
(***************************************************************************)

Mutex == [readers : [Proc -> Int], writer : Proc \cup {NoOne},
          waiting : Proc \cup {NoOne}]

TypesOK ==
  /\ DOMAIN pc = Proc
  /\ mutex \in [Locks -> Mutex]

\* A lock has been taken as often as the places of the goroutines say.
HeldByPlace ==
  /\ \A p \in Proc, l \in Locks : mutex[l].readers[p] = Reads(p, pc[p], l)
  /\ \A p \in Proc, l \in Locks : mutex[l].writer = p <=> pc[p] \in Writes(p, l)

\* What RWMutex is for; a writer that waits has none before it.
Excludes ==
  \A l \in Locks :
    /\ mutex[l].waiting # NoOne => mutex[l].writer = NoOne
    /\ mutex[l].writer # NoOne => \A p \in Proc : mutex[l].readers[p] = 0

LocksInv == TypesOK /\ HeldByPlace /\ Excludes

LEMMA InitLocksInv == Init => LocksInv
<1> SUFFICES ASSUME Init PROVE LocksInv
  OBVIOUS
<1> USE DEF Init
<1>1. TypesOK
  BY DEF TypesOK, Mutex
<1>2. HeldByPlace
  BY DEF HeldByPlace, Reads, Writes, SourcesTwice, SourcesOnce, KieOnce
<1>3. Excludes
  BY DEF Excludes
<1> QED BY <1>1, <1>2, <1>3 DEF LocksInv

\* What p makes of a lock by an operation.
Moves(p, op, old, new) ==
  /\ \A q \in Proc : new.readers[q] =
       IF q # p THEN old.readers[q]
       ELSE IF op = "RLock" THEN old.readers[q] + 1
       ELSE IF op = "RUnlock" THEN old.readers[q] - 1
       ELSE old.readers[q]
  /\ \A q \in Proc : new.writer = q <=>
       IF q # p THEN old.writer = q
       ELSE IF op = "Lock" THEN TRUE
       ELSE IF op = "Unlock" THEN FALSE
       ELSE old.writer = q
  /\ new.waiting # NoOne => new.writer = NoOne
  /\ new.writer # NoOne => \A q \in Proc : new.readers[q] = 0

\* A step over an operation on a lock.
LEMMA HeldMoves ==
  ASSUME LocksInv, NEW p \in Proc, NEW lock \in Locks, NEW op, NEW to,
         Fits(p, pc[p], op, lock, to), pc' = [pc EXCEPT ![p] = to],
         NEW m \in Mutex, mutex' = [mutex EXCEPT ![lock] = m],
         Moves(p, op, mutex[lock], m)
  PROVE  LocksInv'
<1> USE DEF LocksInv
<1>1. TypesOK'
  BY DEF TypesOK
<1>2. pc'[p] = to /\ mutex'[lock] = m
      /\ (\A q \in Proc : q # p => pc'[q] = pc[q])
      /\ (\A l \in Locks : l # lock => mutex'[l] = mutex[l])
  BY DEF TypesOK
<1>3. Excludes'
  BY <1>2 DEF Excludes, Moves
<1>4. ASSUME NEW q \in Proc, NEW l \in Locks
      PROVE  /\ mutex'[l].readers[q] = Reads(q, pc'[q], l)
             /\ mutex'[l].writer = q <=> pc'[q] \in Writes(q, l)
  <2>1. /\ mutex[l].readers[q] = Reads(q, pc[q], l)
        /\ mutex[l].writer = q <=> pc[q] \in Writes(q, l)
    BY DEF HeldByPlace
  <2>2. CASE q # p
    BY <1>2, <2>1, <2>2 DEF Moves
  <2>3. CASE q = p /\ l # lock
    BY <1>2, <2>1, <2>3 DEF Fits
  <2>4. CASE q = p /\ l = lock
    BY <1>2, <2>1, <2>4 DEF Fits, Moves
  <2> QED BY <2>2, <2>3, <2>4
<1>5. HeldByPlace'
  BY <1>4 DEF HeldByPlace
<1> QED BY <1>1, <1>3, <1>5

\* A step over an operation that is on no lock.
LEMMA HeldStays ==
  ASSUME LocksInv, NEW p \in Proc, NEW op \in {"Miss", "Ready", "Start"},
         NEW lock, NEW to, Fits(p, pc[p], op, lock, to),
         pc' = [pc EXCEPT ![p] = to], UNCHANGED mutex
  PROVE  LocksInv'
<1> USE DEF LocksInv
<1>1. TypesOK' /\ Excludes'
  BY DEF TypesOK, Excludes
<1>2. ASSUME NEW q \in Proc, NEW l \in Locks
      PROVE  /\ mutex'[l].readers[q] = Reads(q, pc'[q], l)
             /\ mutex'[l].writer = q <=> pc'[q] \in Writes(q, l)
  <2>1. /\ mutex[l].readers[q] = Reads(q, pc[q], l)
        /\ mutex[l].writer = q <=> pc[q] \in Writes(q, l)
    BY DEF HeldByPlace
  <2>2. CASE q # p
    BY <2>1, <2>2 DEF TypesOK
  <2>3. CASE q = p
    <3>1. pc'[q] = to
      BY <2>3 DEF TypesOK
    <3>2. Reads(p, to, l) = Reads(p, pc[p], l)
      BY DEF Fits
    <3>3. to \in Writes(p, l) <=> pc[p] \in Writes(p, l)
      BY DEF Fits
    <3> QED BY <2>1, <2>3, <3>1, <3>2, <3>3
  <2> QED BY <2>2, <2>3
<1>3. HeldByPlace'
  BY <1>2 DEF HeldByPlace
<1> QED BY <1>1, <1>3

LEMMA StepLocksInv ==
  ASSUME LocksInv, NEW p \in Proc, Step(p)
  PROVE  LocksInv'
<1> USE DEF LocksInv
<1>1. PICK step \in Code(p) :
        LET op == step[2]  l == step[3]  to == step[4]
        IN /\ pc[p] = step[1]
           /\ \/ op = "RLock" /\ RLock(p, l, to)
              \/ op = "RUnlock" /\ RUnlock(p, l, to)
              \/ op = "Lock" /\ Announce(p, l)
              \/ op = "Lock" /\ Lock(p, l, to)
              \/ op = "Unlock" /\ Unlock(p, l, to)
              \/ op \in {"Miss", "Ready", "Start"} /\ GoesTo(p, to) /\ UNCHANGED mutex
  BY DEF Step
<1>2. PICK op, l, to : op = step[2] /\ l = step[3] /\ to = step[4]
  OBVIOUS
<1>3. Fits(p, pc[p], op, l, to)
  BY <1>1, <1>2, CodeFits
<1>4. op \in {"RLock", "RUnlock", "Lock", "Unlock"} => l \in Locks /\ mutex[l] \in Mutex
  BY <1>3 DEF Fits, TypesOK
<1>5. CASE op = "RLock" /\ RLock(p, l, to)
  <2> DEFINE m == [mutex[l] EXCEPT !.readers[p] = @ + 1]
  <2>1. m \in Mutex /\ m.writer = NoOne /\ m.waiting = NoOne /\ mutex[l].writer = NoOne
    BY <1>4, <1>5 DEF RLock, Mutex
  <2>2. \A q \in Proc : m.readers[q] = IF q # p THEN mutex[l].readers[q]
                                       ELSE mutex[l].readers[q] + 1
    BY <1>4, <1>5 DEF Mutex
  <2>3. mutex' = [mutex EXCEPT ![l] = m] /\ pc' = [pc EXCEPT ![p] = to]
    BY <1>4, <1>5 DEF RLock, GoesTo, TypesOK
  <2> HIDE DEF m
  <2>9. Moves(p, op, mutex[l], m)
    BY <1>4, <1>5, <2>1, <2>2, <2>3 DEF Moves, LocksInv, Excludes
  <2> QED BY <1>3, <1>4, <1>5, <2>1, <2>3, <2>9, HeldMoves
<1>6. CASE op = "RUnlock" /\ RUnlock(p, l, to)
  <2> DEFINE m == [mutex[l] EXCEPT !.readers[p] = @ - 1]
  <2>1. m \in Mutex /\ m.writer = mutex[l].writer /\ m.waiting = mutex[l].waiting
    BY <1>4, <1>6 DEF RUnlock, Mutex
  <2>2. \A q \in Proc : m.readers[q] = IF q # p THEN mutex[l].readers[q]
                                       ELSE mutex[l].readers[q] - 1
    BY <1>4, <1>6 DEF Mutex
  <2>3. mutex' = [mutex EXCEPT ![l] = m] /\ pc' = [pc EXCEPT ![p] = to]
    BY <1>4, <1>6 DEF RUnlock, GoesTo, TypesOK
  <2>4. mutex[l].writer = NoOne
    <3>1. Reads(p, to, l) = Reads(p, pc[p], l) - 1
      BY <1>3, <1>4, <1>6 DEF Fits
    <3>2. Reads(p, pc[p], l) # 0
      BY <3>1 DEF Reads
    <3> QED BY <1>4, <1>6, <3>2 DEF HeldByPlace, Excludes
  <2> HIDE DEF m
  <2>9. Moves(p, op, mutex[l], m)
    BY <1>4, <1>6, <2>1, <2>2, <2>3, <2>4 DEF Moves, LocksInv, Excludes
  <2> QED BY <1>3, <1>4, <1>6, <2>1, <2>3, <2>9, HeldMoves
<1>7. CASE op = "Lock" /\ Announce(p, l)
  <2>1. /\ mutex' = [mutex EXCEPT ![l].waiting = p] /\ UNCHANGED pc
        /\ mutex[l].writer = NoOne
    BY <1>7 DEF Announce
  <2>2. \A k \in Locks : /\ mutex'[k] \in Mutex
                         /\ mutex'[k].readers = mutex[k].readers
                         /\ mutex'[k].writer = mutex[k].writer
                         /\ k # l => mutex'[k] = mutex[k]
    BY <1>4, <1>7, <2>1 DEF TypesOK, Mutex
  <2>3. TypesOK'
    BY <2>1, <2>2 DEF TypesOK
  <2>4. HeldByPlace'
    BY <2>1, <2>2 DEF HeldByPlace
  <2>5. Excludes'
    BY <2>1, <2>2 DEF Excludes
  <2> QED BY <2>3, <2>4, <2>5
<1>8. CASE op = "Lock" /\ Lock(p, l, to)
  <2> DEFINE m == [mutex[l] EXCEPT !.waiting = NoOne, !.writer = p]
  <2>1. m \in Mutex /\ m.writer = p /\ m.waiting = NoOne
        /\ m.readers = mutex[l].readers
    BY <1>4, <1>8 DEF Mutex
  <2>2. mutex[l].writer = NoOne /\ \A q \in Proc : m.readers[q] = 0
    BY <1>4, <1>8, <2>1 DEF Lock, Excludes
  <2>3. mutex' = [mutex EXCEPT ![l] = m] /\ pc' = [pc EXCEPT ![p] = to]
    BY <1>4, <1>8 DEF Lock, GoesTo, TypesOK
  <2> HIDE DEF m
  <2>9. Moves(p, op, mutex[l], m)
    BY <1>4, <1>8, <2>1, <2>2, <2>3 DEF Moves, LocksInv, Excludes
  <2> QED BY <1>3, <1>4, <1>8, <2>1, <2>3, <2>9, HeldMoves
<1>9. CASE op = "Unlock" /\ Unlock(p, l, to)
  <2> DEFINE m == [mutex[l] EXCEPT !.writer = NoOne]
  <2>1. m \in Mutex /\ m.writer = NoOne /\ m.readers = mutex[l].readers
    BY <1>4, <1>9 DEF Mutex
  <2>2. mutex[l].writer = p
    BY <1>3, <1>4, <1>9 DEF Fits, HeldByPlace
  <2>3. mutex' = [mutex EXCEPT ![l] = m] /\ pc' = [pc EXCEPT ![p] = to]
    BY <1>4, <1>9 DEF Unlock, GoesTo, TypesOK
  <2> HIDE DEF m
  <2>9. Moves(p, op, mutex[l], m)
    BY <1>4, <1>9, <2>1, <2>2, <2>3 DEF Moves, LocksInv, Excludes
  <2> QED BY <1>3, <1>4, <1>9, <2>1, <2>3, <2>9, HeldMoves
<1>10. CASE op \in {"Miss", "Ready", "Start"} /\ GoesTo(p, to) /\ UNCHANGED mutex
  BY <1>3, <1>10, HeldStays DEF GoesTo
<1> QED BY <1>1, <1>2, <1>5, <1>6, <1>7, <1>8, <1>9, <1>10

LEMMA NextLocksInv == LocksInv /\ [Next]_vars => LocksInv'
<1> SUFFICES ASSUME LocksInv, [Next]_vars PROVE LocksInv'
  OBVIOUS
<1>1. CASE \E p \in Proc : Step(p)
  BY <1>1, StepLocksInv
<1>2. CASE UNCHANGED <<pc, mutex>>
  BY <1>2 DEF LocksInv, TypesOK, HeldByPlace, Excludes
<1> QED BY <1>1, <1>2 DEF Next, Watch, vars

LEMMA LocksInvariance == Spec => []LocksInv
BY InitLocksInv, NextLocksInv, PTL DEF Spec

\* A goroutine between calls holds no lock.
LocksReturned ==
  \A p \in Proc, l \in Locks :
    pc[p] = "idle" =>
      mutex[l].readers[p] = 0 /\ mutex[l].writer # p

\* Every path through Set, Delete, Cleanup, GetConfig, AddSource and a refresh
\* of kie gives back the locks it takes.
THEOREM CallsReturnLocks == Spec => []LocksReturned
<1>1. ASSUME NEW p \in Proc, NEW l \in Locks
      PROVE  Reads(p, "idle", l) = 0 /\ "idle" \notin Writes(p, l)
  BY DEF Reads, Writes, SourcesTwice, SourcesOnce, KieOnce
<1>2. LocksInv => LocksReturned
  BY <1>1 DEF LocksInv, HeldByPlace, LocksReturned
<1> QED BY <1>2, LocksInvariance, PTL

\* While a goroutine is where it writes under a lock - a source is registered,
\* kie refreshes and fires its events, or is cleaned up - no other goroutine is
\* at a place where it reads or writes under that lock.
WritersAlone ==
  \A l \in Locks : \A p, q \in Proc :
    pc[p] \in Writes(p, l) /\ p # q =>
      pc[q] \notin Writes(q, l) /\ Reads(q, pc[q], l) = 0

\* The locks keep what is written apart from what is read.
THEOREM SectionsExclude == Spec => []WritersAlone
<1>1. LocksInv => WritersAlone
  BY DEF LocksInv, HeldByPlace, Excludes, WritersAlone
<1> QED BY <1>1, LocksInvariance, PTL

-----------------------------------------------------------------------------
(***************************************************************************)
(* Nobody is stuck: as long as the application adds its sources at rest,   *)
(* some call under way can always go on.                                   *)
(***************************************************************************)

\* Where p gives a lock back, or starts Watch: nothing keeps it there.
FreePlaces(p) ==
  IF p \in Setters THEN {"return", "compare", "retry", "probe", "probed", "cleaned"}
  ELSE IF p \in Getters THEN {"source", "asked", "probe", "probed", "answered"}
  ELSE IF p \in Refreshers THEN {"onEvent", "fired"}
  ELSE IF p = MemAdder THEN {"named", "pull", "watch"} ELSE {"named", "pull", "route"}

\* Where p wants to read what l guards.
ReadPlaces(p, l) ==
  IF l = "kie"
  THEN IF p \in Setters THEN {"scan"}
       ELSE IF p \in Getters THEN {"askKie", "scan", "askAgain"} ELSE {}
  ELSE IF p \in Setters THEN {"idle", "elsewhere", "ignored", "delete"}
  ELSE IF p \in Getters THEN {"idle", "kieMissed", "missed"}
  ELSE IF p \in Refreshers THEN {"event"}
  ELSE IF p = MemAdder THEN {"added"} ELSE {"added", "pulled"}

\* Where p wants to write under l.
LockPlaces(p, l) ==
  IF l = "kie"
  THEN IF p \in Setters THEN {"clean"}
       ELSE IF p \in Getters THEN {}
       ELSE IF p \in Refreshers THEN {"idle"} ELSE {}
  ELSE IF p \in Setters \cup Getters \cup Refreshers THEN {} ELSE {"new"}

\* Where p waits for the memory source.
MemoryWaits(p) == IF p \in Setters THEN {"sources"} ELSE {}

Places(p) == {"idle"} \cup FreePlaces(p) \cup ReadPlaces(p, "kie")
               \cup ReadPlaces(p, "sourceMapMux") \cup LockPlaces(p, "kie")
               \cup LockPlaces(p, "sourceMapMux") \cup MemoryWaits(p)

MemoryPlaces == {"named", "added", "pull", "watch"}

\* What a step of p says of its two ends.
Joins(p, from, op, lock, to) ==
  /\ to \in Places(p)
  /\ op = "Lock" => lock \in Locks /\ from \in LockPlaces(p, lock)
  /\ \A l \in Locks : from \in LockPlaces(p, l) => op = "Lock" /\ lock = l
  /\ op = "Start" => p = MemAdder
  /\ p = MemAdder =>
       /\ op = "Lock" => to \in MemoryPlaces
       /\ from \in MemoryPlaces => to \in MemoryPlaces \/ op = "Start"

\* The step out of each place.
Leaves(p, place) ==
  /\ place \in FreePlaces(p) =>
       \E step \in Code(p) : step[1] = place /\ step[2] \in {"RUnlock", "Unlock", "Start"}
  /\ \A l \in Locks : place \in ReadPlaces(p, l) =>
       \E step \in Code(p) : step[1] = place /\ step[2] = "RLock" /\ step[3] = l
  /\ \A l \in Locks : place \in LockPlaces(p, l) =>
       \E step \in Code(p) : step[1] = place /\ step[2] = "Lock" /\ step[3] = l
  /\ place \in MemoryWaits(p) =>
       \A op \in {"Miss", "Ready"} :
         \E step \in Code(p) : step[1] = place /\ step[2] = op

LEMMA CodeJoins ==
  ASSUME NEW p \in Proc, NEW step \in Code(p)
  PROVE  Joins(p, step[1], step[2], step[3], step[4])
<1> USE DEF Joins, Places, FreePlaces, ReadPlaces, LockPlaces, MemoryWaits,
            MemoryPlaces, Locks
<1>1. CASE p \in Setters
  <2>1. step \in SetCode \cup CleanCode
    BY <1>1 DEF Code
  <2> QED BY <1>1, <2>1 DEF SetCode, CleanCode
<1>2. CASE p \in Getters \ Setters
  <2>1. step \in GetCode
    BY <1>2 DEF Code
  <2> QED BY <1>2, <2>1 DEF GetCode
<1>3. CASE p \in Refreshers \ (Setters \cup Getters)
  <2>1. step \in RefreshCode
    BY <1>3 DEF Code
  <2> QED BY <1>3, <2>1 DEF RefreshCode
<1>4. CASE p \in Adders \ (Setters \cup Getters \cup Refreshers) /\ p # MemAdder
  <2>1. step \in AddCode
    BY <1>4 DEF Code
  <2> QED BY <1>4, <2>1 DEF AddCode
<1>5. CASE p = MemAdder
  <2>1. p \notin Setters \cup Getters \cup Refreshers
    BY <1>5
  <2>2. step \in AddMemoryCode
    BY <1>5, <2>1 DEF Code
  <2> QED BY <1>5, <2>1, <2>2 DEF AddMemoryCode
<1> QED BY <1>1, <1>2, <1>3, <1>4, <1>5 DEF Proc

LEMMA CodeLeaves ==
  ASSUME NEW p \in Proc, NEW place \in Places(p)
  PROVE  Leaves(p, place)
<1> USE DEF Leaves, FreePlaces, ReadPlaces, LockPlaces, MemoryWaits, Locks
<1>1. CASE p \in Setters
  <2>1. Code(p) = SetCode \cup CleanCode
    BY <1>1 DEF Code
  <2> QED BY <1>1, <2>1 DEF SetCode, CleanCode
<1>2. CASE p \in Getters \ Setters
  <2>1. Code(p) = GetCode
    BY <1>2 DEF Code
  <2> QED BY <1>2, <2>1 DEF GetCode
<1>3. CASE p \in Refreshers \ (Setters \cup Getters)
  <2>1. Code(p) = RefreshCode
    BY <1>3 DEF Code
  <2> QED BY <1>3, <2>1 DEF RefreshCode
<1>4. CASE p \in Adders \ (Setters \cup Getters \cup Refreshers) /\ p # MemAdder
  <2>1. Code(p) = AddCode
    BY <1>4 DEF Code
  <2> QED BY <1>4, <2>1 DEF AddCode
<1>5. CASE p = MemAdder
  <2>1. p \notin Setters \cup Getters \cup Refreshers /\ Code(p) = AddMemoryCode
    BY <1>5 DEF Code
  <2> QED BY <1>5, <2>1 DEF AddMemoryCode
<1> QED BY <1>1, <1>2, <1>3, <1>4, <1>5 DEF Proc

\* The goroutines take no step but those of their code.
AtPlaces == \A p \in Proc : pc[p] \in Places(p)

\* Who waits for a lock is about to take it.
WaitersAtLock ==
  \A l \in Locks, p \in Proc :
    mutex[l].waiting = p => pc[p] \in LockPlaces(p, l)

\* AddSource has registered the memory source and not yet started its Watch.
MemoryAdded ==
  /\ memory \in {"absent", "registered", "started", "offered", "taken"}
  /\ memory = "registered" => pc[MemAdder] \in MemoryPlaces

\* The discipline Quiet, at every moment.
AddedAtRest ==
  Quiet => \A p \in Adders, q \in Setters \cup Getters : ~Started(p) \/ ~Started(q)

CallsInv == LocksInv /\ AtPlaces /\ WaitersAtLock /\ MemoryAdded /\ AddedAtRest

LEMMA InitCallsInv == Init => CallsInv
<1> SUFFICES ASSUME Init PROVE CallsInv
  OBVIOUS
<1> USE DEF Init
<1>1. AtPlaces
  BY DEF AtPlaces, Places, LockPlaces
<1>2. WaitersAtLock /\ MemoryAdded
  BY DEF WaitersAtLock, MemoryAdded
<1>3. AddedAtRest
  <2>1. \A p \in Proc : ~Started(p)
    BY DEF Started
  <2> QED BY <2>1 DEF AddedAtRest, Proc
<1> QED BY <1>1, <1>2, <1>3, InitLocksInv DEF CallsInv

\* What a step of p leaves to the others: their places, and what they wait for.
Leave(p) ==
  /\ \A q \in Proc : q # p => pc'[q] = pc[q]
  /\ \A q \in Proc, l \in Locks : q # p =>
       (mutex'[l].waiting = q => mutex[l].waiting = q)

LEMMA AnnounceCallsInv ==
  ASSUME CallsInv, NEW p \in Proc, NEW l \in Locks,
         Announce(p, l), pc[p] \in LockPlaces(p, l), UNCHANGED memory
  PROVE  Leave(p) /\ AtPlaces' /\ WaitersAtLock' /\ MemoryAdded'
<1> USE DEF CallsInv
<1>1. UNCHANGED pc /\ mutex' = [mutex EXCEPT ![l].waiting = p]
  BY DEF Announce
<1>2. \A k \in Locks : mutex'[k].waiting = IF k = l THEN p ELSE mutex[k].waiting
  BY <1>1 DEF LocksInv, TypesOK, Mutex
<1> QED BY <1>1, <1>2 DEF Leave, AtPlaces, WaitersAtLock, MemoryAdded

\* A step of p over an operation that it finishes.
LEMMA MoveCallsInv ==
  ASSUME CallsInv, NEW p \in Proc, NEW op, NEW lock, NEW to,
         Joins(p, pc[p], op, lock, to), pc' = [pc EXCEPT ![p] = to],
         \A k \in Locks : mutex'[k].waiting =
           IF op = "Lock" /\ k = lock THEN NoOne ELSE mutex[k].waiting,
         \/ memory' = memory /\ op # "Start"
         \/ op = "Lock" /\ p = MemAdder /\ memory' = "registered"
         \/ op = "Ready" /\ memory # "registered" /\ memory' = "taken"
         \/ op = "Start" /\ memory' = "started"
  PROVE  Leave(p) /\ AtPlaces' /\ WaitersAtLock' /\ MemoryAdded'
<1> USE DEF CallsInv
<1>1. pc'[p] = to /\ \A q \in Proc : q # p => pc'[q] = pc[q]
  BY DEF LocksInv, TypesOK
<1>2. Leave(p)
  BY <1>1 DEF Leave
<1>3. AtPlaces'
  BY <1>1 DEF AtPlaces, Joins
<1>4. WaitersAtLock'
  <2> SUFFICES ASSUME NEW l \in Locks, NEW q \in Proc, mutex'[l].waiting = q
               PROVE  pc'[q] \in LockPlaces(q, l)
    BY DEF WaitersAtLock
  <2>1. mutex[l].waiting = q /\ ~(op = "Lock" /\ l = lock)
    OBVIOUS
  <2>2. pc[q] \in LockPlaces(q, l)
    BY <2>1 DEF WaitersAtLock
  <2>3. q # p
    BY <2>1, <2>2 DEF Joins
  <2> QED BY <1>1, <2>2, <2>3
<1>5. MemoryAdded'
  <2>1. CASE memory' = memory /\ op # "Start"
    BY <1>1, <2>1 DEF MemoryAdded, Joins
  <2>2. CASE op = "Lock" /\ p = MemAdder /\ memory' = "registered"
    BY <1>1, <2>2 DEF MemoryAdded, Joins
  <2>3. CASE memory' \in {"taken", "started"}
    BY <2>3 DEF MemoryAdded
  <2> QED BY <2>1, <2>2, <2>3
<1> QED BY <1>2, <1>3, <1>4, <1>5

LEMMA StepCallsInv ==
  ASSUME CallsInv, NEW p \in Proc, Step(p)
  PROVE  CallsInv'
<1> USE DEF CallsInv
<1>1. PICK step \in Code(p) :
        LET op == step[2]  l == step[3]  to == step[4]
        IN /\ pc[p] = step[1]
           /\ \/ op = "RLock" /\ RLock(p, l, to) /\ UNCHANGED memory
              \/ op = "RUnlock" /\ RUnlock(p, l, to) /\ UNCHANGED memory
              \/ op = "Lock" /\ Announce(p, l) /\ UNCHANGED memory
              \/ op = "Lock" /\ Lock(p, l, to)
              \/ op = "Unlock" /\ Unlock(p, l, to) /\ UNCHANGED memory
              \/ op = "Miss" /\ Miss /\ GoesTo(p, to) /\ UNCHANGED <<mutex, memory>>
              \/ op = "Ready" /\ Ready /\ GoesTo(p, to) /\ UNCHANGED mutex
              \/ op = "Start" /\ Start /\ GoesTo(p, to) /\ UNCHANGED mutex
  BY DEF Step
<1>2. PICK op, l, to : op = step[2] /\ l = step[3] /\ to = step[4]
  OBVIOUS
<1>3. /\ Joins(p, pc[p], op, l, to) /\ Fits(p, pc[p], op, l, to)
  BY <1>1, <1>2, CodeJoins, CodeFits
<1>4. op \in {"RLock", "RUnlock", "Lock", "Unlock"} => l \in Locks
  BY <1>3 DEF Fits
<1>5. Leave(p) /\ AtPlaces' /\ WaitersAtLock' /\ MemoryAdded'
  <2>1. CASE op = "Lock" /\ Announce(p, l) /\ UNCHANGED memory
    BY <1>3, <1>4, <2>1, AnnounceCallsInv DEF Joins
  <2>2. CASE \/ op = "RLock" /\ RLock(p, l, to) /\ UNCHANGED memory
             \/ op = "RUnlock" /\ RUnlock(p, l, to) /\ UNCHANGED memory
             \/ op = "Unlock" /\ Unlock(p, l, to) /\ UNCHANGED memory
    <3>0. l \in Locks /\ mutex \in [Locks -> Mutex]
      BY <1>4, <2>2 DEF LocksInv, TypesOK
    <3>1. \A k \in Locks : mutex'[k].waiting = mutex[k].waiting
      <4>1. CASE RLock(p, l, to)
        BY <3>0, <4>1, SMTT(30) DEF RLock, Mutex
      <4>2. CASE RUnlock(p, l, to)
        BY <3>0, <4>2, SMTT(30) DEF RUnlock, Mutex
      <4>3. CASE Unlock(p, l, to)
        BY <3>0, <4>3, SMTT(30) DEF Unlock, Mutex
      <4> QED BY <2>2, <4>1, <4>2, <4>3
    <3> QED BY <1>3, <2>2, <3>1, MoveCallsInv DEF RLock, RUnlock, Unlock, GoesTo
  <2>3. CASE op = "Lock" /\ Lock(p, l, to)
    <3>1. \A k \in Locks : mutex'[k].waiting =
            IF k = l THEN NoOne ELSE mutex[k].waiting
      <4>1. l \in Locks /\ mutex \in [Locks -> Mutex]
        BY <1>4, <2>3 DEF LocksInv, TypesOK
      <4> QED BY <2>3, <4>1, SMTT(30) DEF Lock, Mutex
    <3>2. \/ memory' = memory /\ op # "Start"
          \/ op = "Lock" /\ p = MemAdder /\ memory' = "registered"
      BY <2>3 DEF Lock
    <3>3. \A k \in Locks : mutex'[k].waiting =
            IF op = "Lock" /\ k = l THEN NoOne ELSE mutex[k].waiting
      BY <2>3, <3>1
    <3>4. pc' = [pc EXCEPT ![p] = to]
      BY <2>3 DEF Lock, GoesTo
    <3> QED BY <1>3, <3>2, <3>3, <3>4, MoveCallsInv
  <2>4. CASE /\ GoesTo(p, to) /\ UNCHANGED mutex
             /\ \/ op = "Miss" /\ UNCHANGED memory
                \/ op = "Ready" /\ Ready
                \/ op = "Start" /\ Start
    BY <1>3, <2>4, MoveCallsInv DEF Ready, Start, GoesTo
  <2> QED BY <1>1, <1>2, <2>1, <2>2, <2>3, <2>4
<1>6. AddedAtRest'
  <2> SUFFICES ASSUME Quiet, NEW a \in Adders, NEW q \in Setters \cup Getters,
                      Started(a)', Started(q)'
               PROVE  FALSE
    BY DEF AddedAtRest
  <2>1. a # q /\ a \in Proc /\ q \in Proc
    BY DEF Proc
  <2>2. \A r \in Proc : r # p /\ Started(r)' => Started(r)
    BY <1>5 DEF Leave, Started
  <2>3. Started(p) \/ \A r \in Rivals(p) : ~Started(r)
    BY DEF Step, MayGoOn
  <2>4. CASE p # a /\ p # q
    BY <2>1, <2>2, <2>4 DEF AddedAtRest
  <2>5. CASE p = a
    <3>1. q \in Rivals(p)
      BY <2>5 DEF Rivals
    <3> QED BY <2>1, <2>2, <2>3, <2>5, <3>1 DEF AddedAtRest
  <2>6. CASE p = q
    <3>1. a \in Rivals(p)
      BY <2>6 DEF Rivals
    <3> QED BY <2>1, <2>2, <2>3, <2>6, <3>1 DEF AddedAtRest
  <2> QED BY <2>4, <2>5, <2>6
<1> QED BY <1>5, <1>6, StepLocksInv

LEMMA NextCallsInv == CallsInv /\ [Next]_vars => CallsInv'
<1> SUFFICES ASSUME CallsInv, [Next]_vars PROVE CallsInv'
  OBVIOUS
<1>1. CASE \E p \in Proc : Step(p)
  BY <1>1, StepCallsInv
<1>2. CASE UNCHANGED <<pc, mutex>> /\ memory' \in {memory, "offered"}
  <2>1. LocksInv'
    BY <1>2, NextLocksInv DEF CallsInv
  <2> QED BY <1>2, <2>1 DEF CallsInv, AtPlaces, WaitersAtLock, MemoryAdded,
                            AddedAtRest, Started
<1> QED BY <1>1, <1>2 DEF Next, Watch, vars
\* Set, Delete, Cleanup, GetConfig, AddSource, the refreshes of kie and the first
\* Watch of the memory source never all wait for each other, however many of
\* them there are, as long as the application adds its sources at rest.
THEOREM NobodyIsStuck == Spec => []NobodyStuck
<1>1. CallsInv => NobodyStuck
  <2> SUFFICES ASSUME CallsInv, Quiet, NEW p0 \in Proc, Started(p0),
                      memory # "started",
                      \A p \in Proc : Started(p) => ~CanGoOn(p)
               PROVE  FALSE
    BY DEF NobodyStuck
  <2> USE DEF CallsInv
  <2>1. \A p \in Proc : pc[p] \in Places(p) /\ Leaves(p, pc[p])
    BY CodeLeaves DEF AtPlaces
  <2>2. ASSUME NEW p \in Proc PROVE pc[p] \notin FreePlaces(p)
    <3> SUFFICES ASSUME pc[p] \in FreePlaces(p) PROVE FALSE
      OBVIOUS
    <3>1. Started(p)
      BY DEF FreePlaces, Started
    <3>2. CanGoOn(p)
      BY <2>1 DEF Leaves, CanGoOn
    <3> QED BY <3>1, <3>2
  <2>3. ASSUME NEW p \in Proc, NEW l \in Locks, pc[p] \in ReadPlaces(p, l),
               Started(p)
        PROVE  mutex[l].writer # NoOne \/ mutex[l].waiting # NoOne
    <3>1. PICK step \in Code(p) : step[1] = pc[p] /\ step[2] = "RLock" /\ step[3] = l
      BY <2>1, <2>3 DEF Leaves
    <3> QED BY <2>3, <3>1 DEF CanGoOn
  <2>4. ASSUME NEW p \in Proc, NEW l \in Locks, pc[p] \in LockPlaces(p, l),
               Started(p)
        PROVE  /\ mutex[l].writer # NoOne \/ mutex[l].waiting # NoOne
               /\ mutex[l].waiting = p =>
                    \E q \in Proc : mutex[l].readers[q] # 0
    <3>1. PICK step \in Code(p) : step[1] = pc[p] /\ step[2] = "Lock" /\ step[3] = l
      BY <2>1, <2>4 DEF Leaves
    <3> QED BY <2>4, <3>1 DEF CanGoOn
  <2>5. \A l \in Locks, p \in Proc : mutex[l].waiting = p =>
          Started(p) /\ pc[p] \in LockPlaces(p, l)
    BY DEF WaitersAtLock, Started
  <2>6. \A l \in Locks : mutex[l] \in Mutex
    BY DEF LocksInv, TypesOK
  <2>7. \A p \in Proc, l \in Locks :
          /\ mutex[l].readers[p] = Reads(p, pc[p], l)
          /\ mutex[l].writer = p => pc[p] \in Writes(p, l)
    BY DEF LocksInv, HeldByPlace
  \* Nobody reads the settings of kie, so nobody waits to write them.
  <2>8. mutex["kie"].waiting = NoOne
    <3>1. \A p \in Proc : Reads(p, pc[p], "kie") = 0
      BY <2>2 DEF Reads, KieOnce, FreePlaces
    <3> QED BY <2>4, <2>5, <2>6, <2>7, <3>1 DEF Locks, Mutex
  \* Nobody is registering a source, or waits to.
  <2>9. mutex["sourceMapMux"].writer = NoOne
    <3>1. \A p \in Proc : pc[p] \notin Writes(p, "sourceMapMux")
      BY <2>2 DEF Writes, FreePlaces, Proc
    <3> QED BY <2>6, <2>7, <3>1 DEF Locks, Mutex
  <2>10. mutex["sourceMapMux"].waiting = NoOne
    <3> SUFFICES ASSUME NEW a \in Proc, mutex["sourceMapMux"].waiting = a
                 PROVE  FALSE
      BY <2>6 DEF Locks, Mutex
    <3>1. Started(a) /\ pc[a] \in LockPlaces(a, "sourceMapMux")
      BY <2>5 DEF Locks
    <3>2. a \in Adders
      BY <3>1 DEF LockPlaces, Proc
    <3>3. \A q \in Setters \cup Getters : ~Started(q)
      BY <3>1, <3>2 DEF AddedAtRest
    <3>4. ASSUME NEW q \in Proc PROVE Reads(q, pc[q], "sourceMapMux") = 0
      <4>1. CASE q \in Setters \cup Getters
        <5>1. pc[q] \in {"idle", "new"}
          BY <3>3, <4>1 DEF Started
        <5> QED BY <5>1 DEF Reads, SourcesTwice, SourcesOnce
      <4>2. CASE q \notin Setters \cup Getters
        <5>1. q = MemAdder => pc[q] # "route"
          BY <2>1, <4>2 DEF Places, FreePlaces, ReadPlaces, LockPlaces, MemoryWaits
        <5> QED BY <2>2, <4>2, <5>1 DEF Reads, SourcesTwice, SourcesOnce, FreePlaces
      <4> QED BY <4>1, <4>2
    <3> QED BY <2>4, <2>7, <3>1, <3>4 DEF Locks
  \* So nobody is about to read the sources, and kie has no writer left.
  <2>11. \A p \in Proc : Started(p) => pc[p] \notin ReadPlaces(p, "sourceMapMux")
    BY <2>3, <2>9, <2>10 DEF Locks
  <2>12. mutex["kie"].writer = NoOne
    <3>1. ASSUME NEW p \in Proc, pc[p] \in Writes(p, "kie") PROVE FALSE
      <4>1. Started(p)
        BY <3>1 DEF Writes, Started
      <4> QED BY <2>2, <2>11, <3>1, <4>1 DEF Writes, FreePlaces, ReadPlaces
    <3> QED BY <2>6, <2>7, <3>1 DEF Locks, Mutex
  <2>13. \A p \in Proc : Started(p) =>
           pc[p] \notin ReadPlaces(p, "kie") /\ pc[p] \notin LockPlaces(p, "kie")
    BY <2>3, <2>4, <2>8, <2>12 DEF Locks
  <2>14. \A p \in Proc : Started(p) => pc[p] \notin LockPlaces(p, "sourceMapMux")
    BY <2>4, <2>9, <2>10 DEF Locks
  \* What is left is a Set that waits for the memory source.
  <2>15. \A p \in Proc : pc[p] \notin MemoryWaits(p)
    <3> SUFFICES ASSUME NEW p \in Proc, pc[p] \in MemoryWaits(p) PROVE FALSE
      OBVIOUS
    <3>1. p \in Setters /\ Started(p)
      BY DEF MemoryWaits, Started
    <3>2. \A op \in {"Miss", "Ready"} :
            \E step \in Code(p) : step[1] = pc[p] /\ step[2] = op
      BY <2>1 DEF Leaves
    <3>3. CASE memory = "absent"
      <4>1. PICK step \in Code(p) : step[1] = pc[p] /\ step[2] = "Miss"
        BY <3>2
      <4> QED BY <3>1, <3>3, <4>1 DEF CanGoOn
    <3>4. CASE memory \in {"offered", "taken"}
      <4>1. PICK step \in Code(p) : step[1] = pc[p] /\ step[2] = "Ready"
        BY <3>2
      <4> QED BY <3>1, <3>4, <4>1 DEF CanGoOn
    <3>5. CASE memory = "registered"
      <4>1. Started(MemAdder)
        BY <3>5 DEF MemoryAdded, MemoryPlaces, Started
      <4> QED BY <3>1, <4>1 DEF AddedAtRest
    <3> QED BY <3>3, <3>4, <3>5 DEF MemoryAdded
  <2>16. pc[p0] = "idle"
    BY <2>1, <2>2, <2>11, <2>13, <2>14, <2>15 DEF Places
  <2>17. PICK l \in Locks : mutex[l].waiting = p0
    BY <2>16 DEF Started
  <2> QED BY <2>8, <2>10, <2>17 DEF Locks
<1>2. Spec => []CallsInv
  BY InitCallsInv, NextCallsInv, PTL DEF Spec
<1> QED BY <1>1, <1>2, PTL
=============================================================================
