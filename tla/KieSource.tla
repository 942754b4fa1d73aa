------------------------------ MODULE KieSource ------------------------------
(***************************************************************************)
(* source/remote/kie: the client (kie_client.go) caches the configuration  *)
(* of each dimension the server has for this program, the source           *)
(* (kie_source.go) puts their union into use and fires the events.  In     *)
(* interval mode goroutines pull both dimensions and go by the revision of *)
(* the server; in watch mode each dimension has a goroutine that waits for *)
(* its next change.  Every request, every write to the cache, every read   *)
(* of it by a merge and every hold of the source's lock is a step of its   *)
(* own.                                                                    *)
(*                                                                         *)
(* EventReplay is what this promises to the Manager: current is            *)
(* Source.currentConfig, pending the events of the call that holds the     *)
(* lock, copy what the Manager has been told.  The model starts when an    *)
(* empty server has been pulled and the callback is set.                   *)
(***************************************************************************)
EXTENDS EventReplay, Integers, FiniteSets

CONSTANTS Puller,       \* goroutines that pull in interval mode
          Mode,         \* the refresh modes
          NotFound,     \* of each dimension: the answers to a request that finds no key
          NoConfig,     \* a nil response, or nothing merged
          MaxRevision,  \* bound on the changes of the server
          MaxFailures   \* bound on the requests that fail

App == "app"
Service == "service"
Dimension == {App, Service}

ModeWatch == "watch"
ModeInterval == "interval"

ASSUME KieAssumption ==
  /\ Puller \cap Dimension = {}
  /\ Mode \subseteq {ModeWatch, ModeInterval}
  /\ NoConfig \notin Config
  \* an empty list (of enabled keys), or nil (client.ErrKeyNotExist)
  /\ NotFound \in [Dimension -> SUBSET {EmptyConfig, NoConfig} \ {{}}]
  /\ MaxRevision \in Nat /\ MaxFailures \in Nat

VARIABLES
  RefreshMode,
  server,           \* the enabled keys of each dimension, on the server
  revision,         \* the server's revision
  changedAt,        \* history: the revision of each dimension's last change
  cache,            \* Kie.dimensions[d].config
  currentRevision,  \* Kie.currentRevision
  calls,            \* the requests a goroutine has under way, by dimension
  merging,          \* what a goroutine that merges has read of the first dimension
  config,           \* the merged configuration a goroutine is about to use
  watched,          \* the revision each watching goroutine has seen
  hidden,           \* history: dimensions of which a change was passed over: an
                    \* answer had a newer revision and no list
  ahead,            \* history: of each watching goroutine those whose merge began
                    \* before its own and is not yet in use
  overtaken,        \* history: a merge was used before one that began earlier
  overlapped,       \* history: two pulls had requests under way at once
  cleaned,          \* Cleanup has been called
  failures          \* requests that failed so far

marks == <<overtaken, overlapped, cleaned>>

store == <<server, revision, changedAt>>

merges == <<merging, config>>

kieVars == <<vars, RefreshMode, store, cache, currentRevision, calls, merges,
             watched, hidden, ahead, marks, failures>>

Goroutine == Puller \cup Dimension

(***************************************************************************)
(* A request of a pull: not sent, answered with what is to be cached, or   *)
(* done, with the revision of the response if it succeeded.  A pull keeps  *)
(* one per dimension, a watching goroutine one for its dimension.          *)
(***************************************************************************)
NotSent == [state |-> "not sent"]
Answered(kv, rev) == [state |-> "answered", kv |-> kv, revision |-> rev]
Done(rev) == [state |-> "done", revision |-> rev]
Failed == [state |-> "failed"]
Call == {NotSent, Failed}
          \cup [state : {"answered"}, kv : Config \cup {NoConfig},
                revision : 0..MaxRevision]
          \cup [state : {"done"}, revision : 0..MaxRevision]

AtRest == [d \in Dimension |-> NotSent]

Merges(g) == merging[g] # NoConfig \/ config[g] # NoConfig

Idle(g) == calls[g] = AtRest /\ ~Merges(g)

\* What a request for d may find.
Responses(d) ==
  IF server[d] = EmptyConfig THEN NotFound[d] ELSE {server[d]}

\* mergeConfig: dimensionPrecedence goes from low to high.
MergeConfig(c) ==
  [k \in Key |-> IF c[Service][k] # None THEN c[Service][k] ELSE c[App][k]]

\* Mutant: an empty list is no update.
UpdatesIfAny(kv, d) == kv # NoConfig /\ kv # EmptyConfig

\* setDimensionConfigs: whether it updates the cache, and the cache it leaves.
Updates(kv, d) == kv # NoConfig /\ {kv, cache[d]} # {EmptyConfig}

\* An answer without a list (client.ErrKeyNotExist) leaves what is cached.
SetDimensionConfigs(kv, d) ==
  /\ cache' = IF Updates(kv, d) THEN [cache EXCEPT ![d] = kv] ELSE cache
  /\ hidden' = IF kv = NoConfig /\ cache[d] # EmptyConfig
               THEN hidden \cup {d} ELSE hidden \ {d}

-----------------------------------------------------------------------------
KieInit ==
  /\ Init
  /\ RefreshMode \in Mode
  /\ server = [d \in Dimension |-> EmptyConfig]
  /\ revision = 0
  /\ changedAt = [d \in Dimension |-> 0]
  /\ cache = [d \in Dimension |-> EmptyConfig]
  /\ currentRevision = 0
  /\ calls = [g \in Goroutine |-> AtRest]
  /\ merging = [g \in Goroutine |-> NoConfig]
  /\ config = [g \in Goroutine |-> NoConfig]
  /\ watched = [d \in Dimension |-> -1]
  /\ hidden = {}
  /\ ahead = [d \in Dimension |-> {}]
  /\ overtaken = FALSE /\ overlapped = FALSE /\ cleaned = FALSE
  /\ failures = 0

\* A key is created, changed or deleted in one dimension (external).
Put(d, k, v) ==
  /\ revision < MaxRevision
  /\ server[d][k] # v
  /\ server' = [server EXCEPT ![d][k] = v]
  /\ revision' = revision + 1
  /\ changedAt' = [changedAt EXCEPT ![d] = revision']
  /\ UNCHANGED <<vars, RefreshMode, cache, currentRevision, calls, merges,
                 watched, hidden, ahead, marks, failures>>

\* p may ask for d.  History: another pull has requests under way.
MayAsk(p, d) ==
  /\ RefreshMode = ModeInterval
  /\ ~Merges(p) /\ calls[p][d] = NotSent
  /\ overlapped' = (overlapped \/ \E q \in Puller \ {p} : calls[q] # AtRest)
  /\ UNCHANGED <<overtaken, cleaned>>

\* PullConfigs asks for d what is newer than currentRevision; no changes
\* leave the cache alone (client.ErrNoChanges).
List(p, d) ==
  /\ MayAsk(p, d)
  /\ IF currentRevision >= revision
     THEN calls' = [calls EXCEPT ![p][d] = Done(revision)]
     ELSE \E kv \in Responses(d) :
            calls' = [calls EXCEPT ![p][d] = Answered(kv, revision)]
  /\ UNCHANGED <<vars, RefreshMode, store, cache, currentRevision, merges,
                 watched, hidden, ahead, failures>>

ListFails(p, d) ==
  /\ MayAsk(p, d)
  /\ calls' = [calls EXCEPT ![p][d] = Failed]
  /\ failures < MaxFailures /\ failures' = failures + 1
  /\ UNCHANGED <<vars, RefreshMode, store, cache, currentRevision, merges,
                 watched, hidden, ahead>>

Cache(p, d) ==
  /\ calls[p][d].state = "answered"
  /\ SetDimensionConfigs(calls[p][d].kv, d)
  /\ calls' = [calls EXCEPT ![p][d] = Done(@.revision)]
  /\ UNCHANGED <<vars, RefreshMode, store, currentRevision, merges, watched,
                 ahead, marks, failures>>

\* queue.Concurrent starts a worker for every dimension, waits for all of them
\* and returns an error if one of them had one.
ConcurrentReturns(p) == \A d \in Dimension : calls[p][d].state \in {"done", "failed"}
ConcurrentFails(p) == \E d \in Dimension : calls[p][d] = Failed

\* mergeConfig takes and gives back the lock of each dimension, the first one
\* first, and another goroutine may cache in between.
BeginMerge(g) == merging' = [merging EXCEPT ![g] = cache[App]]

EndMerge(g) ==
  /\ merging[g] # NoConfig
  /\ config' = [config EXCEPT ![g] = MergeConfig([cache EXCEPT ![App] = merging[g]])]
  /\ merging' = [merging EXCEPT ![g] = NoConfig]
  /\ UNCHANGED <<vars, RefreshMode, store, cache, currentRevision, calls,
                 watched, hidden, ahead, marks, failures>>

\* Mutant: the greatest of the revisions.
MergeGreatest(p) ==
  /\ ConcurrentReturns(p)
  /\ calls' = [calls EXCEPT ![p] = AtRest]
  /\ IF ConcurrentFails(p)
     THEN UNCHANGED <<currentRevision, merging>>
     ELSE /\ currentRevision' =
               CHOOSE r \in {calls[p][d].revision : d \in Dimension} :
                 \A d \in Dimension : r >= calls[p][d].revision
          /\ BeginMerge(p)
  /\ UNCHANGED <<vars, RefreshMode, store, cache, config, watched, hidden, ahead,
                 marks, failures>>

\* The end of PullConfigs: an error, or the least of the revisions and the
\* union of the dimensions.
Merge(p) ==
  /\ ConcurrentReturns(p)
  /\ calls' = [calls EXCEPT ![p] = AtRest]
  /\ IF ConcurrentFails(p)
     THEN UNCHANGED <<currentRevision, merging>>
     ELSE /\ currentRevision' =
               CHOOSE r \in {calls[p][d].revision : d \in Dimension} :
                 \A d \in Dimension : r <= calls[p][d].revision
          /\ BeginMerge(p)
  /\ UNCHANGED <<vars, RefreshMode, store, cache, config, watched, hidden, ahead,
                 marks, failures>>

\* watchKVDimensionally: the request is held until there is news.
WatchAnswers(d) ==
  /\ RefreshMode = ModeWatch /\ Idle(d)
  /\ watched[d] < revision
  /\ \E kv \in Responses(d) :
       calls' = [calls EXCEPT ![d][d] = Answered(kv, revision)]
  /\ watched' = [watched EXCEPT ![d] = revision]
  /\ UNCHANGED <<vars, RefreshMode, store, cache, currentRevision, merges, hidden,
                 ahead, marks, failures>>

\* The request fails and is sent again; if the response has a revision, it is
\* taken before the error is looked at.
WatchFails(d) ==
  /\ RefreshMode = ModeWatch /\ Idle(d)
  /\ failures < MaxFailures /\ failures' = failures + 1
  /\ \/ UNCHANGED <<watched, hidden>>
     \/ /\ watched' = [watched EXCEPT ![d] = revision]
        /\ hidden' = IF cache[d] # server[d] THEN hidden \cup {d} ELSE hidden
  /\ UNCHANGED <<vars, RefreshMode, store, cache, currentRevision, calls, merges,
                 ahead, marks>>

\* Mutant of WatchCaches: a dimension that has become empty is not merged.
WatchCachesIfAny(d) ==
  /\ calls[d][d].state = "answered"
  /\ SetDimensionConfigs(calls[d][d].kv, d)
  /\ calls' = [calls EXCEPT
       ![d][d] = IF Updates(@.kv, d) /\ @.kv # EmptyConfig
                 THEN Done(@.revision) ELSE NotSent]
  /\ UNCHANGED <<vars, RefreshMode, store, currentRevision, merges, watched,
                 ahead, marks, failures>>

WatchCaches(d) ==
  /\ calls[d][d].state = "answered"
  /\ SetDimensionConfigs(calls[d][d].kv, d)
  /\ calls' = [calls EXCEPT
       ![d][d] = IF Updates(@.kv, d) THEN Done(@.revision) ELSE NotSent]
  /\ UNCHANGED <<vars, RefreshMode, store, currentRevision, merges, watched,
                 ahead, marks, failures>>

WatchMerges(d) ==
  /\ calls[d][d].state = "done"
  /\ calls' = [calls EXCEPT ![d] = AtRest]
  /\ BeginMerge(d)
  /\ ahead' = [ahead EXCEPT ![d] = {e \in Dimension : Merges(e)}]
  /\ UNCHANGED <<vars, RefreshMode, store, cache, currentRevision, config,
                 watched, hidden, marks, failures>>

\* What g has merged is in use.  History: it was not its turn.
TurnOf(g) ==
  /\ overtaken' = (overtaken \/ (g \in Dimension /\ ahead[g] # {}))
  /\ ahead' = [d \in Dimension |-> IF d = g THEN {} ELSE ahead[d] \ {g}]

\* Mutant: the lock is not held over the events.
FireUnlocked(g) ==
  /\ config[g] # NoConfig
  /\ pending' = PopulateEvents(Name, current, config[g])
  /\ current' = config[g]
  /\ config' = [config EXCEPT ![g] = NoConfig]
  /\ TurnOf(g)
  /\ UNCHANGED <<copy, RefreshMode, store, cache, currentRevision, calls, merging,
                 watched, hidden, overlapped, cleaned, failures>>

\* updateConfigAndFireEvent takes the lock.
Fire(g) ==
  /\ config[g] # NoConfig
  /\ UpdateConfigAndFireEvent(config[g])
  /\ config' = [config EXCEPT ![g] = NoConfig]
  /\ TurnOf(g)
  /\ UNCHANGED <<RefreshMode, store, cache, currentRevision, calls, merging,
                 watched, hidden, overlapped, cleaned, failures>>

\* The Manager takes an event.
TakeEvent ==
  /\ OnEvent
  /\ UNCHANGED <<RefreshMode, store, cache, currentRevision, calls, merges,
                 watched, hidden, ahead, marks, failures>>

\* Cleanup takes the lock; no goroutine ends, and what they still find is put
\* into use again.
KieCleanup ==
  /\ ~cleaned /\ cleaned' = TRUE
  /\ Cleanup
  /\ UNCHANGED <<RefreshMode, store, cache, currentRevision, calls, merges,
                 watched, hidden, ahead, overtaken, overlapped, failures>>

Pull(p) ==
  \/ \E d \in Dimension : List(p, d) \/ Cache(p, d)
  \/ Merge(p) \/ EndMerge(p)

Watch(d) == WatchAnswers(d) \/ WatchCaches(d) \/ WatchMerges(d) \/ EndMerge(d)

KieNext ==
  \/ \E d \in Dimension, k \in Key, v \in Value \cup {None} : Put(d, k, v)
  \/ \E p \in Puller : Pull(p) \/ \E d \in Dimension : ListFails(p, d)
  \/ \E d \in Dimension : Watch(d) \/ WatchFails(d)
  \/ \E g \in Goroutine : Fire(g)
  \/ TakeEvent \/ KieCleanup

\* Some ticker ticks, the loop of a watch goes on, the server answers (its
\* failures are bounded), somebody who waits for the lock gets it, and the
\* Manager takes its events.  Nothing makes the server change.
KieFairness ==
  /\ WF_kieVars(\E p \in Puller : Pull(p))
  /\ WF_kieVars(\E d \in Dimension : Watch(d))
  /\ WF_kieVars(\E g \in Goroutine : Fire(g))
  /\ WF_kieVars(TakeEvent)

KieSpec == KieInit /\ [][KieNext]_kieVars /\ KieFairness

-----------------------------------------------------------------------------
\* The variables hold values of their types.
KieTypeOK ==
  /\ TypeOK
  /\ RefreshMode \in Mode
  /\ server \in [Dimension -> Config] /\ cache \in [Dimension -> Config]
  /\ revision \in 0..MaxRevision
  /\ changedAt \in [Dimension -> 0..MaxRevision]
  /\ currentRevision \in 0..MaxRevision
  /\ calls \in [Goroutine -> [Dimension -> Call]]
  /\ merging \in [Goroutine -> Config \cup {NoConfig}]
  /\ config \in [Goroutine -> Config \cup {NoConfig}]
  /\ watched \in [Dimension -> -1..MaxRevision]
  /\ hidden \subseteq Dimension /\ ahead \in [Dimension -> SUBSET Dimension]
  /\ {overtaken, overlapped, cleaned} \subseteq BOOLEAN
  /\ failures \in 0..MaxFailures

\* The source keeps EventReplay's promise in both modes, whatever the server
\* and the goroutines do: one change at a time, told in full.
ImplementsReplay == Spec

\* The revision a goroutine asks with never runs ahead of the cache: a
\* dimension with no change after it is cached as it is on the server, so "no
\* changes" is never the answer to a request that should have brought one
\* ("Find the minimum valid revision from responses"), also when one of the two
\* requests of a pull fails.  It does if a response has a newer revision and no
\* list, and if two pulls run at once: then the older answer may be cached under
\* the newer revision, and stay.
RevisionCovers ==
  \A d \in Dimension \ hidden :
    /\ RefreshMode = ModeInterval /\ ~overlapped /\ changedAt[d] <= currentRevision
         => cache[d] = server[d]
    /\ RefreshMode = ModeWatch /\ changedAt[d] <= watched[d]
         => cache[d] = server[d] \/ calls[d][d].state = "answered"

\* "If found an updated kv or no kv was found, then update configs cache": while
\* pulls do not overlap, what was asked for up to currentRevision is cached.
NotFoundUpdates ==
  RefreshMode = ModeInterval /\ ~overlapped =>
    \A d \in Dimension : changedAt[d] <= currentRevision => cache[d] = server[d]

\* The server's configuration is cached, unless pulls overlapped, but for the
\* dimensions of which a change was passed over, and what is cached is in use:
\* in interval mode also after Cleanup, in watch mode unless a merge was
\* overtaken or Cleanup called.
CaughtUp ==
  ~overlapped =>
    /\ \A d \in Dimension \ hidden : cache[d] = server[d]
    /\ RefreshMode = ModeInterval \/ ~(overtaken \/ cleaned) =>
         current = MergeConfig(cache)

\* "Watch watch the configuration changes and update in real time": when the
\* goroutines wait for the next change, what they cached is in use, unless a
\* merge was put into use before one that began earlier: the lock does not keep
\* the order of the merges, and the older is then used last.
CachedIsUsed ==
  /\ RefreshMode = ModeWatch /\ ~overtaken /\ ~cleaned
  /\ \A d \in Dimension : Idle(d)
  => current = MergeConfig(cache)
=============================================================================
