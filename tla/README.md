# go-archaius in TLA+

go-archaius is a configuration library: it collects key/value pairs from
several sources (files, environment, command line, memory, remote servers),
serves every key from the source of best precedence that has it, and tells
listeners of changes at run time. This directory models its concurrent core,
model-checks it with TLC and proves the main results with TLAPS. All line
numbers refer to the repository the modules sit beside.

## 1. Inventory

| component | code | state | operations | hard behaviour |
|---|---|---|---|---|
| Manager | `source/manager.go` | `Sources`, `ConfigurationMap` (key to source name), `sourceMapMux` | AddSource, Refresh, Cleanup, Set, Delete, GetConfig, IsKeyExist, OnEvent, OnModuleEvent | called by the goroutines of all the sources at once; routes are loaded, decided on and stored with nothing held in between; a read lock taken inside itself |
| Dispatcher | `event/event_system.go` | listeners by regular expression, module listeners by prefix, the tree `PrefixIndex` | register and unregister both kinds, DispatchEvent, DispatchModuleEvent | registration and removal in any order around a tree that is pruned; a goroutine for every call of a listener |
| Event tool | `event/tool.go` | none | PopulateEvents | the events of a change are in no order |
| memory source | `source/mem/mem.go` | `Configs`, callback | Set, Delete, Watch, Cleanup | the application's goroutine runs through the Manager; first Set waits for Watch |
| file source | `source/file/file.go` | `files` with priorities, `Configurations` (key to value and file), watcher, callback | AddFile, Watch, watchFile, compareUpdate, Cleanup | AddFile and the watcher's goroutine compare at once and fire outside the lock; changes before the watch; files that vanish; an error of fsnotify ends the goroutine; Cleanup takes another lock than compareUpdate |
| kie source | `source/remote/kie` | cache of each dimension, `currentRevision`, `currentConfig`, callback | GetConfigurations, PullConfigs, Watch, updateConfigAndFireEvent, Cleanup | concurrent requests, failures of one of two, answers without a list, merges that lock one dimension at a time, begun in one order and used in another |
| configmap source | `source/configmap` | as the file source; one object for the program | AddFile (a walk), Watch, watchFile, updateFile, compareUpdate, Cleanup | the watcher adds files with a walk of its own beside the application's; ties of priority change values silently; Cleanup takes the callback from under the watcher, and the source is used again |
| configcenter source | `source/remote/configcenter`, `pkg/configcenter` | `currentConfig`, callback, a websocket | GetConfigurations, refreshConfigurations, Watch, Cleanup | messages are compared and told but never stored; Cleanup holds a lock nothing else takes; groups are merged in the order of a map; nothing reconnects |
| apollo source | `source/apollo` | the cache of an external client, callback | GetConfigurations, Watch, UpdateCallback, Cleanup | the client may run before Watch; a type of change it does not know ends the program; keys of two namespaces folded into one |
| env, cli | `source/env`, `source/cli` | read once | none later | none |
| lifecycle | `archaius.go`, `options.go`, `remote.go` | `manager`, `fs`, `running`, `configServerRunning` | Init, CustomInit, EnableRemoteSource, AddSource, AddFile, Clean | failures half-way, Init after Clean, a file source that is not the manager's |
| queue | `source/util/queue` | channel, wait group | Concurrent | the first error waits for the last piece |
| unmarshal | `source/unmarshal.go` | none of its own: it reads the Manager key by key | Manager.Unmarshal | the configuration changes under the walk; errors and recovered panics half-way |
| casts, YAML, expansion | `pkg/cast`, `source/util` | none | pure | none |

How they interact. A source's goroutine (file watcher, ticker, watch of a
dimension) or the application's (Set, Delete, AddFile) changes the source's own
map, computes events and calls `Manager.OnEvent` for each, some sources also
`OnModuleEvent` with all of them. The Manager updates its route for the key, and
hands the event to the Dispatcher unless the route is not affected. `GetConfig`
looks the route up, asks the routed source, and falls back to the next best
source if it has lost the key. Nothing spans these calls but the locks
`sourceMapMux` (Manager) and the lock of the kie source, which is held while its
events are handed over.

What makes each correct: Manager - a read is served by the best source that has
announced the key, whatever is in flight, and listeners and readers agree;
Dispatcher - who asked is called with what he asked for, and the tree stays
exact; Event tool - the events of a change add up to it in any order; sources -
what they hold follows their input, and every change of it is told; unmarshal - the
object holds what is configured, of no other moment than the call, and no map half
filled;
lifecycle - what a call took without an error is served, and a failure never stands
in the way of the next Init.

`PROJECT.json` lists the hazards of the code by line with the properties that
would catch them.

## 2. Modules and their correspondence to the code

**EventTool** - `PopulateEvents` and the shape of events. A configuration is a
function from keys to values, `None` standing for a key that is not in the map.
Since the Go code ranges over maps the events of one change are a set.

**EventReplay** - the abstract promise of a remote source to the Manager: one
change at a time is compared with the last one and told in full, and whoever
follows the events, in any order, ends up with the source's configuration.

**KieSource** extends it to `kie_source.go` and `kie_client.go`: the server's two
dimensions, requests that are sent, answered, cached and merged in steps of their
own (`ConcurrentReturns` and `ConcurrentFails` are `queue.Concurrent`), the
revision, failures, any number of goroutines that pull (`Puller`: every
GetConfigurations in interval mode, so every Refresh, starts one more ticker), the
two goroutines of watch mode, and Cleanup, which stops none of them. It is shown to
implement EventReplay (`ImplementsReplay`; the variables carry the same names, so the
refinement mapping is the identity on them). The model starts when an empty server
has been pulled and the callback is set. A merge is two steps, for mergeConfig takes and
gives back the lock of each dimension (`merging` is what it has read of the first), and
what another goroutine caches in between is in it or not. A request that finds no key
is answered with an empty list or with a nil response and ErrKeyNotExist (`NotFound`, a
constant for each dimension: that is the server's and the external client's choice, an
empty list where keys are disabled, for instance, and none where they are deleted); the second leaves what
is cached (line 212). A watch request that fails may carry a revision, which is taken
before the error is looked at (`WatchFails`, lines 188-198). The server (external) has
one revision for all its keys; a successful answer has the state and the revision of
its moment. History variables name the runs in which less holds: `overlapped` (two pulls
had requests under way at once: an older answer may be cached under a newer revision,
and stay), `hidden` (the dimensions of which an answer with a newer revision brought no
list, until one does), `overtaken` (a merge of a watch was put into use before one that
began earlier, which `ahead` records: the older is then used last) and `cleaned`.

**ConfigCenterSource** extends EventReplay to the config center: pulls by tickers and
by Refresh under the source's lock, as kie's; in watch mode one pull, a websocket
that is dialled once (`watcher`), its messages, read one after the other and
compared with the configuration in use under the read lock. A message is told and
not stored, so in watch mode it does not implement EventReplay: `heard` (history) are
the keys of messages, and `ToldUnlessHeard` says what holds of the others, in both
modes. Cleanup may fall between the events of a change, and between the comparison and
the assignment of what was pulled (`CleanupWithin`, lines 133-138); `torn` (history) says
that it did. `Flatten` is any order of the server's groups.

**ApolloSource** - the callback of an external client that keeps the values and polls.
`started` is drawn in the first state because the client is started once for the
program, maybe by an earlier source; `missed` (history) are the keys that changed
before Watch, and those two namespaces had at once. A change of a type the source does
not know leaves a nil entry in the slice of events (`NilEvent`, `apollo.go:152-156`), and
OnModuleEvent dereferences it (`manager.go:387`): the program ends, which is the source
"panicked", in which nothing goes on. A DELETE carries the new value of the change, as in the code, and the Manager
ignores it.

**RemoteSources** puts the three together as `remote.go` and EnableRemoteSource do: each
package installs itself by name, and the options make one of them the plugin of the
program. The steps are those of the plugin; the variables of the others rest in one
initial state.

**Manager** - `ConfigurationMap`, the sources' configurations, the events each
source's goroutine has not yet handed over (`todo`) and those `OnEvent` ignored
and `OnModuleEvent` retries (`skipped`: the events whose `HasUpdated` is false).
AddSource is three steps as in the code: the name is taken (`added`), the pull
routes the keys (`pulled`) or fails (`failed`, the name stays taken), a goroutine
calls Watch (`watching`). A call of OnEvent and one pull are atomic here. `view`
is a listener of every key that gets its events in order; `silent` and `deleted`
are history variables: the keys a source changed without any event, and the keys
the application deleted. Refresh of a remote source is a Change or SilentChange
followed by Refresh. There is one application goroutine. env and cli are sources
that are not in `Dynamic`. `MinPriority` is Go's least integer.

**ManagerRace** splits a call of updateEvent into the Load of the route, the
decision (with the scan of findNextBestSource), the Store and the dispatch, with
all sources interleaving. `ImplementsManager` refines it to Manager: a call takes
effect when it decides (`RouteBar`, `ViewBar` count its Store and its dispatch from
then on). It holds for the schedules of `SerialSpec`; without them
`PrecedenceAtRest` fails.

**ManagerLocks** - the same calls reduced to the locks they take: for each call a
set of steps `<<from, op, lock, to>>`, every branch included, over Go's RWMutex
(external), whose RLock waits behind a writer that waits. Clean is a call of its own,
and `memory` is the handshake of the memory source: its Watch, in the goroutine that
AddSource starts, offers Ready and waits, and the first Set or Delete, inside the
Manager's read lock, waits for it.

**PrefixIndex** - the tree's AddPrefix, RemovePrefix and FindPrefix as operators. A
node is the name that leads to it, dotted names are sequences of parts; names
with empty parts are left out. **Dispatcher** uses it: the two registries, the
entries that outlive their listeners, the early return of a registration at a
name that has the listener already, and a goroutine for each call of a listener.
The maps have no lock, so calls are taken one at a time. UnRegisterModuleListener
takes one prefix here; of several it is the same step repeated. `cut` (history) are the
names that a listener asked for and a call did not get to.

**WatchedFiles** - what the file and the configmap source have in common: the files
and fsnotify (external), the table of file priorities, the table of keys with the
file each is attributed to, and the reading, comparing and firing of the two
goroutines (the application in AddFile, and watchFile). `receiving` says that watchFile
takes notices: an error of fsnotify ends it for good (`WatcherFails`, `file.go:446`,
`configmap_source.go:406`), with what was told and not received, and so does Cleanup; only
the configmap source can be watched again. What a file contains is what its handler
makes of it, or `Garbage`; which handler that is, is left out. Only the last priority of a file
counts, so a pair listed again is not repeated in `files`. History variables:
`loaded` (the content of each file that was compared last), `shared` (keys two
files had at once), `raced` (keys on which both goroutines had events at once),
`missed` (files whose present content is neither read nor told of: not yet read,
changed when nobody watched, told of to a goroutine that ended, or read by both
goroutines at once). `copy` starts
with the values at Watch: the Manager pulls and then watches, and what changes in
between is a SilentChange of Manager.

**FileSource** - `file.go`: AddFile of a file or of a directory, file by file: read
and convert, handlePriority, compareUpdate, the events; Watch; what watchFile does
with a notice; Cleanup, once. An application may add files after it, as it may after
archaius.Clean, and a file read before Cleanup may be compared after the file is listed
again: then its old content is back until it changes. Cleanup takes only filelock,
which compareUpdate does not, so a comparison may be under way: it may have seen the
old keys or none, may find a file unlisted from some key on (it then takes such keys
over, `unlisted`), and stores its result and sends its events after Cleanup.

**ConfigMapSource** - `configmap_source.go`: AddFile's walk, by the application or by
the watcher (updateFile adds the files it does not know, with the priority of a listed
file whose path theirs contains, `Contains`, or else the source's own), the watched
directory, ties of priority, Cleanup, also within a comparison as above, and use after it.
`tied` (history) are the keys whose last change was a tie, which no event tells.
Cleanup is modelled while the watcher fires no event: an event fired then goes
through a nil callback and ends the program. The watcher of a second Watch starts
when a walk of the first is over.

**LocalSources** declares the state of the two once, draws the source under test in
the first state and gives each goroutine its fairness.

**Unmarshal** - `source/unmarshal.go` as a stack of `frames`: the object, and above it
the pointers, maps and entries that are built apart for a place of it. A frame has
what it holds, a function from places to values, and the tasks still to be done in it:
fill a place of a type, ask Configs for one key after the other, make the entries of a
map. When it has none left, what was built takes its place in the frame below
(`KeepBuilt`); an error loses all but the object. Types are records built by `Basic`,
`Struct`, `PtrTo` and `MapOf`; the constant `Place` names the places an object of a type
may have, closed under `Parts`, so that the module itself needs no recursion
(MCUnmarshal computes it). The configuration may change between any two reads
(`Change`); `had` (history) are the values each key had during the call. Conversions
keep what the code does: a number is truncated, a word counts as zero, nothing converts
to an interface. The end of the call (`Done`) is the only state it may stop in, which
TLC's deadlock check shows.

**Lifecycle** - the package's variables over the calls of one goroutine: which
sources the manager has and has pulled, which object is the package's file source,
which files it has listed. Init is two actions, for the outcomes of
initFileSource; the sources after it are added in the order of the code, and an
early return leaves what was added before. `wanted`, `skipped`, `promised` and
`last` are history variables: the sources and files that a call asked for, and the
remote source left out because configServerRunning was set. Calls before any Init,
which use a nil manager, are left out.

**MC\*** modules give TLC its instances. The operators introduced by a comment
"Mutant" are deliberate errors: each replaces one definition to show that a
property can fail. No specification uses them.

## 3. Runs

| run | cfg | bounds | shows |
|---|---|---|---|
| dispatcher | Dispatcher.cfg | 2 listeners, 2 patterns, one matching 2 names, prefixes `a` and `a.a.b`, 4 event keys, 1 pending call | the tree finds the shortest prefix and has no dead branch; a prefix found has a listener; a listener has what it asked for; calls are what was asked for; no module listener gets an event twice |
| dispatcher_found | DispatcherFound.cfg | the same | **violated**: register, unregister, register again - the prefix is not found |
| manager | Manager.cfg | mem, file, kie; mem and file of one precedence; 1 key with a value or a present nil; 4 changes; fair goroutines | precedence of reads, backed routes, listeners told what is served, routes kept, convergence |
| manager_delete | ManagerDelete.cfg | the same, 1 value | **violated**: a deleted key of the memory source is read again |
| manager_serial | ManagerSerial.cfg | 2 keys, 2 changes | updateEvent in steps implements Manager when calls for one key take turns |
| manager_race | ManagerRace.cfg | 1 key, 2 changes | **violated**: two calls in flight leave a key with the lesser source |
| locks | Locks.cfg | 2 setters (who also clean), 1 getter, 1 refresher, the adder of the memory source and another, `Quiet` | some call under way can always go on, and every call returns, if sources are added only while nobody sets or reads, a first Set during the memory source's handshake included |
| locks_set_add | LocksSetAdd.cfg | 1 setter, 1 adder | **violated**: Set and AddSource block each other for ever |
| remote | Remote.cfg | kie: both modes, 1 key, 2 dimensions, 2 changes, 1 failure, 2 pullers, no key answered with an empty list in one dimension and with none in the other; config center: both modes, 1 key of 2 values, 2 groups, 2 changes, 1 message that cannot be decoded, a ticker, Refresh and Watch; apollo: 2 namespaces, 2 fields, 2 polls; 1 Cleanup each | events are exact and complete, the revision hides no change, what is cached is used, EventReplay is implemented (by the config center in interval mode), what is told is what readers find; when the servers rest, what they have gets into use: each but for the named exceptions |
| local | Local.cfg | 2 files, 1 of them in the directory, 1 key, 2 values, 2 changes of files, 2 AddFile, 1 Cleanup, an end of the watcher; file source: 2 priorities | a key of one file follows it, all changes but ties are told, nothing unlisted comes back, watched changes are reloaded, files that appear in the watched directory are found |
| lifecycle | Lifecycle.cfg | 2 files, 2 providers of which 1 is installed, mem, CustomInit with and without a file source, 4 calls, 1 change of a file or of the server | what was promised is served, a running archaius has all its sources, an Init that has all it needs ends well |
| unmarshal | Unmarshal.cfg | 9 types with every kind of field in every kind of place, empty and filled objects, 4 nested keys, a number too large and a word, 1 change | the object is as configured in every place the walk gets to, nothing is invented, no map is half filled, errors have a cause, the walk never gets stuck |

Why the bounds are enough for the question asked. The Manager treats keys
independently, so one key suffices where no property relates two (manager), and
the interesting sources are three: one that wins, one that loses, one tied; four
changes let a key be gained, moved, lost and gained again by different sources.
manager_serial needs two keys because one goroutine handles several in turn.
Prefixes `a` and `a.a.b` give a node that is both inner and marked, an unmarked
node in between, and a leaf. In remote two changes allow
each dimension, group or namespace to change, or one to change and change back; one
failure is one pull that fails half-way or one watch that fails with a newer revision, two
pullers overlap. In local two paths give
every relation of a changed file to the file a key belongs to (the same, another,
none), and two changes a change and its undoing; two calls of AddFile and a Cleanup
give the configmap source a use after it. In unmarshal one change falls between any
two reads, and the keys put a value beside and below another one. In
lifecycle four calls are a failure, another call, Clean and the call in question.
Every bound is a CONSTANT in a guard (`MaxChanges`, `MaxCalls`, `MaxRevision`,
`MaxFailures`, `MaxMalformed`, `MaxPolls`, `MaxWrites`, `MaxAdds`). The runs of Manager,
RemoteSources, LocalSources and Lifecycle say CHECK_DEADLOCK FALSE because these bounds let the models stop.

Two reductions. The listeners of the run dispatcher are a symmetry set: the code
never compares them but for equality, the two start alike, and its properties are
about states and steps, no liveness. In local, `FirstDisk` is one
disk on which both files have the key, with different values: the sources only compare
values, and a file without the key, equal to the other, gone or not convertible is a write away.

Fairness. Manager: weak fairness of what the goroutines go on to do by
themselves (pull, Watch, hand events over, retry); none for changes and calls of
the application. ManagerLocks: strong fairness of a step inside a call, because
Unlock of Go's RWMutex lets waiting readers in before another writer; weak fairness
of the memory source's Watch, a goroutine that was started; none for starting a
call. KieSource and ConfigCenterSource: weak fairness of some ticker's pull, of some
watch's loop, of somebody who waits for the lock getting it, and of the Manager
taking events; none for one goroutine against another, for changes, messages, Refresh
or Cleanup; failures are bounded. LocalSources: weak fairness of each goroutine's own
steps; none for writes and calls. Lifecycle, Unmarshal
and ApolloSource state no liveness.

## 4. Findings

Four runs state what a comment or the README of the repository says and show that
the code does otherwise: deleted keys of the memory source come back
(`mem.go:140`), routes race (`manager.go:414`), Set blocks with AddSource
(`manager.go:87`), a prefix registered again is not found
(`event_system.go:244`). The sentences are quoted in `PROJECT.json`.

Further deviations are written into properties as exceptions, named where they
are made:

* kie: an answer without a list leaves what is cached under a newer revision, which then
  hides the change, although the comment at `kie_client.go:145` says that the cache is
  updated if no kv was found (line 212, `hidden`; `NotFoundUpdates` is that sentence, and
  ListsNeverHide says when it is true); watches may apply merges out of order (`kie_client.go:203`, `overtaken`); a watch that
  fails takes the response's revision and so passes over a change (`kie_client.go:188`,
  `hidden`); two pulls
  at once may cache an older answer under a newer revision, which then hides the
  change (`kie_source.go:99`, `overlapped`); after Cleanup the watches use nothing until
  the server changes.
* config center: what a message tells is not served, not told again by the pull that
  brings it, and a message that returns to the value last pulled says nothing
  (`config_center_source.go:195`, `heard`); Cleanup excludes nobody (line 222, `torn`); a key of two
  groups flips from pull to pull (`client.go:205`); when the dial fails or the connection
  ends nothing is watched any more; PullConfigs ignores the labels that AddDimensionInfo adds.
* apollo: changes before Watch are not told; with ignoreNameSpace one namespace's DELETE is
  told while another answers (`apollo.go:161`, `missed`); a change of an unknown type ends
  the program (`apollo.go:154`, "panicked").
* files: a key of two files forgets the better one (`file.go:517`, `shared`); a tie
  changes a value silently (`configmap_source.go:510`, `tied`); after an error of fsnotify no
  change is reloaded any more (`file.go:446`, `configmap_source.go:406`), nor one that
  happens before the watch or under an overlap of two reads (`missed`); a file that is
  read before Cleanup and listed again after it may come back with its old content
  (`file.go:437`).
* dispatcher: a registration ends without an error at the first name the listener has
  already and skips the names after it (`event_system.go:171`, `cut`).
* lifecycle: Clean leaves configServerRunning set, so that the next Init has no remote
  source and reports no error (`archaius.go:311`, `skipped`).
* unmarshal: a field tagged `"-"` ends the struct, the fields after it are never filled
  (`unmarshal.go:141`); a field of an interface type is an error; a map is replaced also
  when nothing is configured for it; numbers are truncated and words are zero without an
  error (lines 541-543); a key that goes between Configs and GetConfig makes reflect
  panic, which becomes an error (line 325).

## 5. Theorems

All in modules of their own, with no assumption beyond the named ASSUMEs of the
modules (ListsNeverHide states one more): no bound on sources, keys, values,
priorities, files, listeners, goroutines or changes. The ASSUMEs say what the
constants are: numbers are numbers, marks like `None` are no values, the sets of
apollo's namespaces and fields are finite, names are sequences of their parts, a
pattern is told from a prefix, a goroutine of ManagerLocks makes calls of one kind
(`ProcAssumption`), the places of an object form a tree (`PathAssumption`, below). TLC
evaluates them in the runs.

Every safety property and every action property of every passing run is proved, and
of three of the four liveness properties the part that needs no fairness. Each
proof has the same plan: an inductive invariant, shown for the initial states and
kept by every action (one lemma for each), from which the property follows. The
types alone are seldom enough; what had to be added says why the code is right.

* `EventToolProofs`: what PopulateEvents returns (its events are typed, at most one
  for a key, none for a key that did not change).
* `RemoteSourcesProofs`, of EventReplay: `TypeCorrect`, `ReplayConverges` (`CopyFollows`),
  `EventsAlwaysFit` (`EventsFit`). The invariant needs two facts more than CopyFollows:
  a key with no event pending is already right in the copy, and each pending event fits
  the copy and carries the new value.
  Of KieSource: `Implementation` (`ImplementsReplay`), it refines
  EventReplay, each step being one of its steps or a stutter; the types of the
  source suffice, since what a goroutine puts into use is a configuration. From it
  `KieCopyFollows`, `KieEventsFit` and `KieTypeCorrect`. `RevisionNeverAhead`
  (`RevisionCovers`) holds for any number of pulling goroutines and whatever is answered, in
  interval mode for the runs in which no two pulls overlapped, in watch mode always, but for
  the dimensions in `hidden`. Its invariant `PullInv` adds
  that at most one pull then has requests under way, that an answered request holds
  what the server had at the answer's revision, which is not behind currentRevision, and
  that a request that is done has left that in the cache or hidden its dimension;
  `WatchedCovers` says the same of a watch's revision. `ListsNeverHide`
  (`NotFoundUpdates`) assumes a server that answers with empty lists: then nothing is hidden
  in interval mode, and the comment of line 145 is right: the nil response alone makes it
  wrong. No run checks NotFoundUpdates, for with that response it does not hold. `WatchedIsUsed` (`CachedIsUsed`)
  rests on `WatchInv`: what a goroutine has read for its merge is what is cached,
  unless somebody has still to merge or began to merge after it; and as long as no merge
  has overtaken another, the merge of the cache is in use or on its way.
  Of RemoteSources: `RemoteTypeCorrect` (`RemoteTypeOK`), `RemoteReplays`
  (`ImplementsReplay`, now of the plugin among the others), `IntervalModeReplays`
  (`IntervalReplays`: the config center refines EventReplay in interval mode),
  `ToldOrHeard` (`ToldUnlessHeard`) and `ToldIsWhatIsAnswered` (`ToldIsAnswered`). For the
  config center `CCInv` adds that one goroutine tells at a time, that nothing is heard in
  interval mode, and the two facts of EventReplay for the keys no message was about. For
  apollo `ApolloInv` adds that the changes a callback has still to tell lead to what
  the client answers, and that what the Manager was told is what the module event it
  is about to get amounts to, both unless a nil entry is among the events; keys two
  namespaces share are among the missed.
* `ManagerProofs`: `TypeCorrect` (`TypeOK`), `PrecedenceHolds` (`PrecedenceServed`),
  `RoutesBacked` (`RouteBacked`), `ToldIsServed` (`AnnouncedIsServed`), `RoutesAreKept`
  (`RouteKept`), and `ConvergedAtRest`: what Converges promises holds whenever no event
  is under way. PrecedenceServed is not inductive: a DELETE that is
  handled late, or a retry of OnModuleEvent, may move a route. `IInv` adds that events
  under way belong to watching sources and still tell the truth about their source
  (`OwnEvents`, `EventsTrue`), that remote sources are empty before their pull, that
  routes are backed, and that the route itself, not only the read, respects the
  precedence (`PrecedenceRouted`). `SerialImplementation` (`ImplementsManager`): the steps of
  updateEvent refine Manager on the serial schedules. Its invariant `SerialInv` says
  that of the calls under way no two are for one key, and that what a call has loaded is
  still the route when it decides; `RouteBar` and `ViewBar` are shown to change only at
  the decision, the Store and the dispatch being stutters.
* `ManagerLocksProofs`: `CallsReturnLocks` (locks are given back), `SectionsExclude` and
  `NobodyIsStuck` (`NobodyStuck`), for any number of goroutines. `Reads` and `Writes` say
  for each place of the code which locks are held there and how often; the invariant is
  that the locks agree with them, that a waiting writer has none before it, and that a
  writer excludes readers. `CodeFits` checks them against every step of the code.
  NobodyIsStuck is the absence of deadlock under `Quiet`. `CallsInv` adds where a
  goroutine of each kind can be, that who waits for a lock as a writer is at its Lock,
  how far the memory source is when it is registered, and that nobody adds a source
  while others set or read. Then, were everybody stuck: nobody has kie's lock as a
  reader, for it could go on, so nobody waits to write it; and nobody registers a
  source. Who waits to register one meets no Set or Get under `Quiet`, so nobody reads
  `sourceMapMux` meanwhile and the writer goes on: nobody waits for that either. With no
  writer every reader goes on, and only a Set that waits for the memory source is left:
  but that source is missing still, and the Set fails, or it is there and is used.
* `DispatcherProofs`: `DispatcherTypeCorrect` (`TypeOK`), `ShortestIsFound`
  (`FindsShortest`), `BranchesAreAlive` (`NoDeadBranch`), `AskedIsGranted`
  (`HasWhatItAsked`), `OnlyWhoAskedIsCalled` (`CalledAsAsked`), `EventIsGivenOnce`
  (`ModuleEventOnce`). The invariant of the tree (`IndexOK`): with a node it has every
  node above it, and every node but the root leads to a marked one; `AddPrefixesOK`,
  `RemovePrefixOK` and `FindPrefixFinds` are about PrefixIndex alone. What is marked is
  listened to, and the registries are what was asked for without what was cut.
* `LocalSourcesProofs`: `LocalTypeCorrect` (`LocalTypeOK`), `SoleFileIsFollowed`
  (`SoleFileRules`), `ManagerIsTold` (`ToldAll`), `EveryChangeIsTold` (`ChangesAreTold`),
  `NothingComesBack` (`NothingUnlisted`). ToldAll speaks of moments without an event
  under way; the invariant `Announces` of the others: outside the excepted keys the copy
  is right or some event is about the key, and every event about it carries the value
  the source now has. `Resting` and `WalkOK` add that a goroutine compares only when it
  has fired what it compared before. One set of lemmas about compareUpdate, which take
  its infos and events as parameters, serves both sources (`FileInv`, `MapInv`); the
  proof for the configmap source needs that a tie and a take-over exclude each other.
  `NoChangeIsLost`: whenever fsnotify's notices are used up and nothing is read that was
  not compared, what Reloads promises holds. Its invariant `Fresh` says of each file not
  among the missed that it is as it was compared last, or passed over, or being read, or
  due to be read; and that who reads it has its present content and reads it alone, or
  it is due to be read again. For the configmap source a file is also due when the
  watcher has begun a walk to add it, and `MapReads` adds that only listed files are
  compared, but for one the watcher was adding when Cleanup came.
* `LifecycleProofs`: `TypeCorrect`, `PromisedFilesServed` (`FilesServed`),
  `RunningComplete` (`RunningHasAll`), `InitCanBeRetried` (`FreshStart`). The invariant
  needs one fact more than these four: the package's file source has a number within
  the calls made, so it is never one of the application's own, and adding a source of
  another name leaves the manager's file source what it was.

* `UnmarshalProofs`: `UnmarshalTypeCorrect` (`TypeOK`), `UnmarshalInventsNothing`
  (`NothingInvented`), `UnmarshalKeepsMapsComplete` (`MapsComplete`), `UnmarshalErrorsAreDue`
  (`ErrorsAreDue`), `UnmarshalFillsAsConfigured` (`FilledAsConfigured`), for any types, keys
  and values. What is built apart must be as right
  as the object, for it becomes part of it: `UnmarshalInv` says of every frame that it
  holds only what was heard (`OnlyHeard`), that it is under the place it is built for
  (`Nested`) and has something there before it is kept (`Rooted`), and that a map in it
  has an entry for every key configured throughout, or one that is being built or still
  to be made (`MapsGrow`). Tasks are about places of the type (`TasksFit`), in the object
  itself about none in a map (`Direct`): its maps change only as a whole. One lemma for
  each way to change the frames (`ThenKeeps`, `ValueKeeps`, `BuildKeeps`, `KeepKeeps`,
  `FailKeeps`) carries the proof; they rest on lemmas about prefixes of paths.
  FilledAsConfigured says of a call during which no key changed (`Calm`) that every
  field the walk gets to has what is configured, converted, or what it had. Its
  invariant `Filling` has three parts: every leaf with something configured has it,
  converted, in the innermost frame that it is in, or a task of that frame gets to it
  (`LeavesMet`); every value is at such a leaf, or is one the object had (`OnlySet`); and
  a map of the object has nothing but such values, or is in what is being built, or a
  task gets to it (`MapsRenewed`). Writing a field, building a value and keeping it each
  have a lemma (`WriteFills`, `BuildFills`, `KeepFills`).
  `PathAssumption` is what makes places a tree: a path leads to one place, but for a
  pointer and what it points to; every leaf and map is reached from the type itself; and
  below a struct or a pointer is only what its parts lead to. For Go types it says that no
  two fields of a struct have the same tag, so it excludes these, as section 6 says.

Model-checked only: liveness (Converges, EveryCallReturns, CatchesUp, Reloads) and
everything that needs ENABLED, which are out of the prover's reach. What there is in
them of safety is proved: ConvergedAtRest, NoChangeIsLost, NobodyIsStuck; of CatchesUp
that what is cached is used (WatchedIsUsed) and that no revision hides a change
(RevisionNeverAhead).

## 6. Not modelled, and why

* casts, YAML, expansion of environment variables (`pkg/cast`, `source/util`): pure
  functions of strings and Go values, no state; what their results mean to the callers
  is in Unmarshal and WatchedFiles.
* Unmarshal of slices, arrays, pointers to pointers and fields tagged `",inline"`:
  reflection on one value each, read once. (An object that is a pointer to a pointer is
  filled twice, lines 102-111.) Two fields with one tag would be one place.
  Types that contain themselves are outside the model's finite
  types: for a nil pointer to its own type the walk never ends.
* A Refresh of kie in watch mode: it shares the cache with the watches, so a Refresh
  that fails after it has cached one dimension may leave a deletion that is never
  used. The product of both modes' goroutines is too large for a run.
* Marshal, ConfigsWithSourceNames and AddDimensionInfo of the Manager: reads of the sources, and a
  label appended. `updateConfigurationMapByDI` and `findFirstRegisterPrefix`: nothing
  calls them.
* The config center's URLs, headers, dimension strings and choice of a server: one server
  that may fail stands for them. AddConfig and DeleteConfig: the change of the server they
  ask for is `Change`.
* Calls of the package's functions from several goroutines at once during Init and Clean,
  and calls before any Init (a nil manager).
* Two calls of AddFile at once, a second Cleanup of a local source, and a Cleanup of the
  configmap source that ends the program under a watcher that fires. Which handler
  converts a file, and the handler that a file added by the configmap source's watcher
  takes from a listed one.

What could be added next: the refresh of kie in watch mode as an instance of its own, and
Unmarshal of slices. Both need new constants, not new invariants of the old models.
