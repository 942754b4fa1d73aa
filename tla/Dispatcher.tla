----------------------------- MODULE Dispatcher -----------------------------
(***************************************************************************)
(* event/event_system.go: the Dispatcher keeps the listeners the           *)
(* application registers for keys (regular expressions) and the module     *)
(* listeners it registers for prefixes, and starts a goroutine for every   *)
(* call of a listener.  The maps have no lock: the calls that register and *)
(* dispatch are taken one at a time.                                       *)
(***************************************************************************)
EXTENDS Sequences, FiniteSets, Integers

CONSTANTS Listener,       \* listeners, of either kind
          Pattern,        \* the regular expressions listeners register; one
                          \* of the same text as a prefix is told from it
          Prefix,         \* the prefixes module listeners register
          Key,            \* keys of events, sequences of the parts between
                          \* the dots; a prefix may be one
          Matches,        \* pairs <<pattern, key>> for which the regexp matches
          NoPrefix,
          MaxCalls        \* bound on the listener goroutines that have not run

ASSUME DispatcherAssumption ==
  /\ Prefix \subseteq Key
  /\ Matches \subseteq Pattern \X Key
  /\ <<>> \notin Prefix /\ NoPrefix \notin Prefix
  /\ Pattern \cap Prefix = {}
  /\ Key \subseteq Seq(UNION {{k[i] : i \in DOMAIN k} : k \in Key})
  /\ MaxCalls \in Nat

VARIABLES
  listeners,          \* pattern to its listeners
  moduleListeners,    \* prefix to its module listeners
  entries,            \* prefixes that have an entry in the map, maybe empty
  modulePrefixIndex,  \* the tree of the prefixes
  calls,              \* goroutines started for a listener and not yet run
  asked,              \* history: <<listener, pattern>> the application wants
  moduleAsked,        \* history: <<listener, prefix>> the application wants
  cut                 \* history: those of both a call did not get to

wishes == <<asked, moduleAsked, cut>>
vars == <<listeners, moduleListeners, entries, modulePrefixIndex, calls, wishes>>

Index == INSTANCE PrefixIndex

\* The arguments of a call: one or two names, in the order they are given.
Args(S) == {<<x>> : x \in S} \cup {<<x, y>> : x \in S, y \in S}

Elements(args) == {args[i] : i \in DOMAIN args}

\* The names a registration gets to: it returns at the first one for which
\* map has the listener already, also by this same call.
Reached(map, l, args) ==
  {args[i] : i \in {j \in DOMAIN args :
     /\ \A h \in 1..j : l \notin map[args[h]]
     /\ \A g, h \in 1..j : g # h => args[g] # args[h]}}

\* What the application asks for with args and does not get by it.
CutOff(map, l, args) ==
  {<<l, p>> : p \in {q \in Elements(args) \ Reached(map, l, args) :
                       l \notin map[q]}}

-----------------------------------------------------------------------------
Init ==
  /\ listeners = [p \in Pattern |-> {}]
  /\ moduleListeners = [p \in Prefix |-> {}]
  /\ entries = {}
  /\ modulePrefixIndex = Index!EmptyIndex
  /\ calls = {}
  /\ asked = {} /\ moduleAsked = {} /\ cut = {}

RegisterListener(l, keys) ==
  /\ listeners' = [p \in Pattern |->
       IF p \in Reached(listeners, l, keys) THEN listeners[p] \cup {l}
       ELSE listeners[p]]
  /\ asked' = asked \cup {<<l, p>> : p \in Elements(keys)}
  /\ cut' = (cut \ ({l} \X Reached(listeners, l, keys)))
             \cup CutOff(listeners, l, keys)
  /\ UNCHANGED <<moduleListeners, entries, modulePrefixIndex, calls,
                 moduleAsked>>

\* Mutant: the loop returns where it should go on, at a key without the listener.
UnRegisterUpTo(l, keys) ==
  LET first == {keys[i] : i \in {j \in DOMAIN keys :
                  \A h \in 1..j : l \in listeners[keys[h]]}}
  IN /\ listeners' = [p \in Pattern |->
          IF p \in first THEN listeners[p] \ {l} ELSE listeners[p]]
     /\ asked' = asked \ ({l} \X Elements(keys))
     /\ cut' = cut \ ({l} \X Elements(keys))
     /\ UNCHANGED <<moduleListeners, entries, modulePrefixIndex, calls,
                    moduleAsked>>

UnRegisterListener(l, keys) ==
  /\ listeners' = [p \in Pattern |->
       IF p \in Elements(keys) THEN listeners[p] \ {l} ELSE listeners[p]]
  /\ asked' = asked \ ({l} \X Elements(keys))
  /\ cut' = cut \ ({l} \X Elements(keys))
  /\ UNCHANGED <<moduleListeners, entries, modulePrefixIndex, calls,
                 moduleAsked>>

\* A prefix enters the tree only when it has no entry in the map yet.
RegisterModuleListener(l, prefixes) ==
  LET reached == Reached(moduleListeners, l, prefixes)
      fresh == reached \ entries
  IN /\ moduleListeners' = [p \in Prefix |->
          IF p \in reached THEN moduleListeners[p] \cup {l}
          ELSE moduleListeners[p]]
     /\ entries' = entries \cup reached
     /\ modulePrefixIndex' =
          [nodes |-> modulePrefixIndex.nodes \cup
             UNION {Index!AddPrefix(Index!EmptyIndex, p).nodes : p \in fresh},
           marked |-> modulePrefixIndex.marked \cup fresh]
     /\ moduleAsked' = moduleAsked \cup {<<l, p>> : p \in Elements(prefixes)}
     /\ cut' = (cut \ ({l} \X reached)) \cup CutOff(moduleListeners, l, prefixes)
     /\ UNCHANGED <<listeners, calls, asked>>

\* The entry stays when its last listener goes, the prefix leaves the tree.
UnRegisterModuleListener(l, prefix) ==
  /\ moduleListeners' = [moduleListeners EXCEPT ![prefix] = @ \ {l}]
  /\ modulePrefixIndex' =
       IF prefix \in entries /\ moduleListeners[prefix] \subseteq {l}
       THEN Index!RemovePrefix(modulePrefixIndex, prefix)
       ELSE modulePrefixIndex
  /\ moduleAsked' = moduleAsked \ {<<l, prefix>>}
  /\ cut' = cut \ {<<l, prefix>>}
  /\ UNCHANGED <<listeners, entries, calls, asked>>

\* Mutants: the pattern for the key of the event, every pattern taken for one
\* that matches.
CallWithPattern(key) ==
  /\ calls' = calls \cup
       UNION {[listener : listeners[p], name : {p}, keys : {{p}}] :
                p \in {q \in Pattern : <<q, key>> \in Matches}}
  /\ UNCHANGED <<listeners, moduleListeners, entries, modulePrefixIndex,
                 wishes>>

CallAll(key) ==
  /\ calls' = calls \cup
       UNION {[listener : listeners[p], name : {p}, keys : {{key}}] : p \in Pattern}
  /\ UNCHANGED <<listeners, moduleListeners, entries, modulePrefixIndex,
                 wishes>>

\* A goroutine for every listener of every pattern that matches.
DispatchEvent(key) ==
  /\ calls' = calls \cup
       UNION {[listener : listeners[p], name : {p}, keys : {{key}}] :
                p \in {q \in Pattern : <<q, key>> \in Matches}}
  /\ UNCHANGED <<listeners, moduleListeners, entries, modulePrefixIndex,
                 wishes>>

\* Mutant: an event goes to every prefix of its key.
GroupByEvery(keys) ==
  [p \in Prefix |-> {k \in keys : Index!IsPrefix(p, k)}]

\* parseEvents: the events by the prefix FindPrefix gives for their keys.
ParseEvents(keys) ==
  [p \in Prefix |-> {k \in keys : Index!FindPrefix(modulePrefixIndex, k) = p}]

\* A goroutine for every listener of every prefix that has events.
DispatchModuleEvent(keys) ==
  /\ calls' = calls \cup
       UNION {[listener : moduleListeners[p], name : {p},
               keys : {ParseEvents(keys)[p]}] :
                p \in {q \in Prefix : ParseEvents(keys)[q] # {}}}
  /\ UNCHANGED <<listeners, moduleListeners, entries, modulePrefixIndex,
                 wishes>>

\* A goroutine calls its listener; any of those started may be the next.
Event(c) ==
  /\ calls' = calls \ {c}
  /\ UNCHANGED <<listeners, moduleListeners, entries, modulePrefixIndex,
                 wishes>>

Registrations ==
  \E l \in Listener :
    \/ \E keys \in Args(Pattern) :
         RegisterListener(l, keys) \/ UnRegisterListener(l, keys)
    \/ \E prefixes \in Args(Prefix) : RegisterModuleListener(l, prefixes)
    \/ \E prefix \in Prefix : UnRegisterModuleListener(l, prefix)

Dispatches ==
  /\ Cardinality(calls) < MaxCalls
  /\ \/ \E key \in Key : DispatchEvent(key)
     \/ \E keys \in SUBSET Key \ {{}} : DispatchModuleEvent(keys)

Next ==
  \/ Registrations
  \/ Dispatches
  \/ \E c \in calls : Event(c)

Spec == Init /\ [][Next]_vars

-----------------------------------------------------------------------------
\* The variables hold values of their types.
TypeOK ==
  /\ listeners \in [Pattern -> SUBSET Listener]
  /\ moduleListeners \in [Prefix -> SUBSET Listener]
  /\ entries \in SUBSET Prefix
  /\ modulePrefixIndex.marked \subseteq Prefix \cap modulePrefixIndex.nodes
  /\ modulePrefixIndex.nodes \subseteq {<<>>} \cup UNION {Index!Prefixes(p) : p \in Prefix}
  /\ \A c \in calls : /\ c.listener \in Listener
                      /\ c.name \in Pattern \cup Prefix
                      /\ c.keys \subseteq Key
  /\ asked \subseteq Listener \X Pattern
  /\ moduleAsked \subseteq Listener \X Prefix
  /\ cut \subseteq asked \cup moduleAsked

\* The walk finds the shortest prefix of the key that is in the tree, whatever
\* came and went around it before, and nothing if there is none
\* (TestDispatcher_DispatchModuleEvent: a shorter prefix covers a longer one).
FindsShortest ==
  \A key \in Key :
    LET covering == {p \in modulePrefixIndex.marked :
                       Index!IsPrefix(p, key)}
        found == Index!FindPrefix(modulePrefixIndex, key)
    IN IF covering = {} THEN found = NoPrefix
       ELSE found \in covering /\ \A p \in covering : Len(found) <= Len(p)

\* RemovePrefix leaves no branch behind that leads to no prefix: the tree
\* does not grow with registrations that come and go; and a prefix the tree
\* finds has a listener: one whose listeners are all gone does not hide a
\* longer prefix that still has some.
NoDeadBranch ==
  /\ \A n \in modulePrefixIndex.nodes \ {<<>>} :
       \E p \in modulePrefixIndex.marked : Index!IsPrefix(n, p)
  /\ \A p \in modulePrefixIndex.marked : moduleListeners[p] # {}

\* Whatever comes and goes, a listener has exactly what it asked for and has
\* not taken back, except what its last call for it did not get to: a call ends
\* without an error at the first name the listener has already.
HasWhatItAsked ==
  /\ UNION {listeners[p] \X {p} : p \in Pattern} = asked \ cut
  /\ UNION {moduleListeners[p] \X {p} : p \in Prefix} = moduleAsked \ cut

CallsWhoAsked ==
  \A c \in calls' \ calls :
    \/ /\ <<c.listener, c.name>> \in asked
       /\ \A k \in c.keys : <<c.name, k>> \in Matches
    \/ /\ <<c.listener, c.name>> \in moduleAsked
       /\ \A k \in c.keys : Index!IsPrefix(c.name, k)

\* Only who asked is called, and only with what he asked for: a goroutine
\* started by DispatchEvent has a key that matches, one started by
\* DispatchModuleEvent has events under its prefix alone.
CalledAsAsked == [][CallsWhoAsked]_vars

GivesEventOnce ==
  \A c, d \in calls' \ calls :
    c # d /\ c.listener = d.listener /\ {c.name, d.name} \subseteq Prefix
      => c.keys \cap d.keys = {}

\* "Events with the same prefix will only be callback once": one dispatch
\* gives no module listener the same event in two calls.
ModuleEventOnce == [][GivesEventOnce]_vars

\* "Register all moduleListener for different key(prefix) changes": an event
\* under a prefix that has listeners reaches some listener, this one or that
\* of a shorter prefix.
RegisteredIsFound ==
  \A p \in Prefix :
    moduleListeners[p] # {} =>
      Index!FindPrefix(modulePrefixIndex, p) # NoPrefix
=============================================================================
