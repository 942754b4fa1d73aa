---------------------------- MODULE ManagerLocks ----------------------------
(***************************************************************************)
(* The locks the goroutines around the Manager take and in which order:    *)
(* sourceMapMux of source/manager.go, and the RWMutex of the kie source,   *)
(* which is held over the events of a refresh; and the channel Ready of    *)
(* the memory source, on which the first Set or Delete waits for Watch.    *)
(* What the calls compute is in Manager; here a call is the lock           *)
(* operations it makes, every branch of it included.                       *)
(*                                                                         *)
(* Go's sync.RWMutex (external): RLock waits while a writer holds the lock *)
(* or waits for it, so a goroutine that already reads blocks behind a      *)
(* waiting writer when it takes the read lock again.                       *)
(***************************************************************************)
EXTENDS Integers

CONSTANTS Setters,     \* goroutines that call Set, Delete or Clean
          Getters,     \* goroutines that call GetConfig
          Refreshers,  \* goroutines of the kie source
          Adders,      \* goroutines that call AddSource, once each
          MemAdder,    \* the one of them that adds the memory source
          Quiet,       \* whether the application adds sources only while
                       \* none of its goroutines sets or reads
          NoOne

Proc == Setters \cup Getters \cup Refreshers \cup Adders

ASSUME ProcAssumption ==
  /\ NoOne \notin Proc
  /\ Setters \cap (Getters \cup Refreshers \cup Adders) = {}
  /\ Getters \cap (Refreshers \cup Adders) = {}
  /\ Refreshers \cap Adders = {}
ASSUME MemAssumption == MemAdder \in Adders
ASSUME QuietAssumption == Quiet \in BOOLEAN

Locks == {"sourceMapMux", "kie"}

VARIABLES pc,     \* where each goroutine is in its call
          mutex,  \* the locks
          memory  \* how far the memory source is: "absent", "registered",
                  \* "started" (its goroutine), "offered" (Ready), "taken"

vars == <<pc, mutex, memory>>

(***************************************************************************)
(* The calls.  A step <<from, op, lock, to>> moves a goroutine over one    *)
(* operation on a lock, or on the memory source; two steps from one place  *)
(* are two branches.                                                       *)
(***************************************************************************)
\* Mutants of SetCode: a return that forgets RUnlock; Ready is awaited whether
\* or not the source is there.
SetForgetsUnlock ==
  {<<"idle",    "RLock",   "sourceMapMux", "return">>,
   <<"idle",    "RLock",   "sourceMapMux", "idle">>,
   <<"return",  "RUnlock", "sourceMapMux", "idle">>}

SetAwaitsSource ==
  {<<"idle",    "RLock",   "sourceMapMux", "sources">>,
   <<"sources", "Ready",   "memory",       "return">>,
   <<"return",  "RUnlock", "sourceMapMux", "idle">>}

\* Manager.Set and Manager.Delete read-lock the sources and call the memory
\* source if it is there, which waits for Ready and comes back through OnEvent.
\* If the key is routed elsewhere Set is compared by getHighPrioritySource,
\* and once more by OnModuleEvent if it lost; Delete lets findNextBestSource
\* ask kie.
SetCode ==
  {<<"idle",    "RLock",   "sourceMapMux", "sources">>,
   <<"sources", "Miss",    "memory",       "return">>,
   <<"sources", "Ready",   "memory",       "return">>,
   <<"sources", "Ready",   "memory",       "elsewhere">>,
   <<"sources", "Ready",   "memory",       "delete">>,
   <<"elsewhere", "RLock", "sourceMapMux", "compare">>,
   <<"compare", "RUnlock", "sourceMapMux", "return">>,
   <<"compare", "RUnlock", "sourceMapMux", "ignored">>,
   <<"ignored", "RLock",   "sourceMapMux", "retry">>,
   <<"retry",   "RUnlock", "sourceMapMux", "return">>,
   <<"delete",  "RLock",   "sourceMapMux", "scan">>,
   <<"scan",    "RLock",   "kie",          "probe">>,
   <<"probe",   "RUnlock", "kie",          "probed">>,
   <<"probed",  "RUnlock", "sourceMapMux", "return">>,
   <<"return",  "RUnlock", "sourceMapMux", "idle">>}

\* Manager.Cleanup cleans every source up under the read lock; kie takes its
\* own lock for that.
CleanCode ==
  {<<"idle",    "RLock",   "sourceMapMux", "clean">>,
   <<"clean",   "Lock",    "kie",          "cleaned">>,
   <<"cleaned", "Unlock",  "kie",          "return">>}

\* GetConfig looks the routed source up and asks it.  If it has lost the key,
\* findNextBestSource asks the other sources under the read lock, and the
\* one it finds is asked again.
GetCode ==
  {<<"idle",   "RLock",   "sourceMapMux", "source">>,
   <<"source", "RUnlock", "sourceMapMux", "idle">>,
   <<"source", "RUnlock", "sourceMapMux", "askKie">>,
   <<"source", "RUnlock", "sourceMapMux", "missed">>,
   <<"askKie", "RLock",   "kie",          "asked">>,
   <<"asked",  "RUnlock", "kie",          "idle">>,
   <<"asked",  "RUnlock", "kie",          "kieMissed">>,
   <<"kieMissed", "RLock", "sourceMapMux", "probed">>,
   <<"missed", "RLock",   "sourceMapMux", "scan">>,
   <<"scan",   "RLock",   "kie",          "probe">>,
   <<"probe",  "RUnlock", "kie",          "probed">>,
   <<"probed", "RUnlock", "sourceMapMux", "idle">>,
   <<"probed", "RUnlock", "sourceMapMux", "askAgain">>,
   <<"askAgain", "RLock", "kie",          "answered">>,
   <<"answered", "RUnlock", "kie",        "idle">>}

\* updateConfigAndFireEvent keeps kie locked while its events (one, here) go
\* through OnEvent, which read-locks the sources.
RefreshCode ==
  {<<"idle",    "Lock",    "kie",          "fired">>,
   <<"idle",    "Lock",    "kie",          "event">>,
   <<"event",   "RLock",   "sourceMapMux", "onEvent">>,
   <<"onEvent", "RUnlock", "sourceMapMux", "fired">>,
   <<"fired",   "Unlock",  "kie",          "idle">>}

\* AddSource registers the name under the lock, or finds it taken; the pull
\* and the update of the routes (one key, here) read-lock for a lookup each.
AddCode ==
  {<<"new",    "Lock",    "sourceMapMux", "named">>,
   <<"named",  "Unlock",  "sourceMapMux", "idle">>,
   <<"named",  "Unlock",  "sourceMapMux", "added">>,
   <<"added",  "RLock",   "sourceMapMux", "pull">>,
   <<"pull",   "RUnlock", "sourceMapMux", "pulled">>,
   <<"pulled", "RLock",   "sourceMapMux", "route">>,
   <<"route",  "RUnlock", "sourceMapMux", "idle">>}

\* The memory source has no key yet; AddSource starts a goroutine for Watch.
AddMemoryCode ==
  {<<"new",    "Lock",    "sourceMapMux", "named">>,
   <<"named",  "Unlock",  "sourceMapMux", "added">>,
   <<"added",  "RLock",   "sourceMapMux", "pull">>,
   <<"pull",   "RUnlock", "sourceMapMux", "watch">>,
   <<"watch",  "Start",   "memory",       "idle">>}

Code(p) == IF p \in Setters THEN SetCode \cup CleanCode
           ELSE IF p \in Getters THEN GetCode
           ELSE IF p \in Refreshers THEN RefreshCode
           ELSE IF p = MemAdder THEN AddMemoryCode
           ELSE AddCode

-----------------------------------------------------------------------------
Init ==
  /\ pc = [p \in Proc |-> IF p \in Adders THEN "new" ELSE "idle"]
  /\ mutex = [l \in Locks |-> [readers |-> [p \in Proc |-> 0],
                               writer |-> NoOne, waiting |-> NoOne]]
  /\ memory = "absent"

GoesTo(p, to) == pc' = [pc EXCEPT ![p] = to]

RLock(p, l, to) ==
  /\ mutex[l].writer = NoOne /\ mutex[l].waiting = NoOne
  /\ mutex' = [mutex EXCEPT ![l].readers[p] = @ + 1]
  /\ GoesTo(p, to)

RUnlock(p, l, to) ==
  /\ mutex' = [mutex EXCEPT ![l].readers[p] = @ - 1]
  /\ GoesTo(p, to)

\* Lock keeps new readers out first and then waits for the present ones.
Announce(p, l) ==
  /\ mutex[l].writer = NoOne /\ mutex[l].waiting = NoOne
  /\ mutex' = [mutex EXCEPT ![l].waiting = p]
  /\ UNCHANGED pc

\* AddSource registers its source in the same critical section.
Lock(p, l, to) ==
  /\ mutex[l].waiting = p
  /\ \A q \in Proc : mutex[l].readers[q] = 0
  /\ mutex' = [mutex EXCEPT ![l].waiting = NoOne, ![l].writer = p]
  /\ memory' = IF p = MemAdder THEN "registered" ELSE memory
  /\ GoesTo(p, to)

Unlock(p, l, to) ==
  /\ mutex' = [mutex EXCEPT ![l].writer = NoOne]
  /\ GoesTo(p, to)

\* Set and Delete pass over a memory source that is not there.
Miss == memory = "absent"

\* waitOnce: the first Set or Delete receives from Ready, the others wait for it.
Ready == memory \in {"offered", "taken"} /\ memory' = "taken"

Start == memory' = "started"

\* The goroutine started runs Watch, and waits for a Set in its turn.
Watch ==
  /\ memory = "started"
  /\ memory' = "offered"
  /\ UNCHANGED <<pc, mutex>>

Started(p) ==
  pc[p] \notin {"idle", "new"} \/ \E l \in Locks : mutex[l].waiting = p

\* Whom p must find at rest to start a call, under the discipline Quiet.
Rivals(p) == IF p \in Adders THEN Setters \cup Getters
             ELSE IF p \in Refreshers THEN {} ELSE Adders

MayGoOn(p) == Quiet /\ ~Started(p) => \A q \in Rivals(p) : ~Started(q)

Step(p) ==
  /\ MayGoOn(p)
  /\ \E step \in Code(p) :
       LET op == step[2]  l == step[3]  to == step[4]
       IN /\ pc[p] = step[1]
          /\ \/ op = "RLock" /\ RLock(p, l, to) /\ UNCHANGED memory
             \/ op = "RUnlock" /\ RUnlock(p, l, to) /\ UNCHANGED memory
             \/ op = "Lock" /\ Announce(p, l) /\ UNCHANGED memory
             \/ op = "Lock" /\ Lock(p, l, to)
             \/ op = "Unlock" /\ Unlock(p, l, to) /\ UNCHANGED memory
             \/ op = "Miss" /\ Miss /\ GoesTo(p, to) /\ UNCHANGED <<mutex, memory>>
             \/ op = "Ready" /\ Ready /\ GoesTo(p, to) /\ UNCHANGED mutex
             \/ op = "Start" /\ Start /\ GoesTo(p, to) /\ UNCHANGED mutex

Next == (\E p \in Proc : Step(p)) \/ Watch

\* A goroutine inside a call goes on when it can.  Strong fairness: an Unlock
\* of Go's RWMutex lets the readers in that wait for it, so a goroutine is not
\* overtaken for ever.  Nothing makes a goroutine start a call; a goroutine
\* that was started runs.
Fairness == WF_vars(Watch) /\ \A p \in Proc : SF_vars(Started(p) /\ Step(p))

Spec == Init /\ [][Next]_vars /\ Fairness

-----------------------------------------------------------------------------
\* The guard of a step of p in a call it has started.
CanGoOn(p) ==
  \E step \in Code(p) :
    LET op == step[2]  l == step[3]
    IN /\ pc[p] = step[1]
       /\ op = "RLock" => mutex[l].writer = NoOne /\ mutex[l].waiting = NoOne
       /\ op = "Lock" =>
            \/ mutex[l].writer = NoOne /\ mutex[l].waiting = NoOne
            \/ mutex[l].waiting = p /\ \A q \in Proc : mutex[l].readers[q] = 0
       /\ op = "Miss" => memory = "absent"
       /\ op = "Ready" => memory \in {"offered", "taken"}

\* The locks, and the memory source on which Set waits inside one, never stop
\* everyone: while a call is under way, one of them can go on, or Watch can.
\* (Without Quiet, a Set and an AddSource stop each other.)
NobodyStuck ==
  Quiet /\ (\E p \in Proc : Started(p)) =>
    memory = "started" \/ \E p \in Proc : Started(p) /\ CanGoOn(p)

\* Every call returns: no goroutine waits for ever on the others, nor on a
\* memory source that is still being added.
EveryCallReturns == \A p \in Proc : Started(p) ~> pc[p] = "idle"

\* "Set add the configuration key, value pairs into memory source at runtime":
\* the call comes back although a source is being added.
SetReturns == \A p \in Setters : Started(p) ~> pc[p] = "idle"
=============================================================================
