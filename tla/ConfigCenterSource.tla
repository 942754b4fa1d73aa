------------------------- MODULE ConfigCenterSource -------------------------
(***************************************************************************)
(* source/remote/configcenter: goroutines pull the configuration of the    *)
(* server, put it into use and fire its events under the source's lock, as *)
(* kie's do.  In watch mode, Watch pulls once and then dials a websocket,  *)
(* whose messages are compared with the configuration in use and told, and *)
(* never put into use.  Cleanup takes a lock of its own.                   *)
(*                                                                         *)
(* The variables of EventReplay are those of the source: current is        *)
(* Source.currentConfig, pending the events of a pull, copy what the       *)
(* Manager has been told, by pulls and messages.  The model starts when an *)
(* empty server has been pulled and Watch has set the callback.            *)
(***************************************************************************)
EXTENDS EventReplay, Integers, Sequences
LOCAL INSTANCE SequencesExt

CONSTANTS Ticker,      \* goroutines that pull again and again, in interval mode
          Refresher,   \* goroutines that call Refresh
          Mode,        \* the refresh modes
          Group,       \* the dimensions by which the server groups its keys
          NoConfig,    \* nothing pulled
          Malformed,   \* a message that is no configuration
          Nobody,
          MaxChanges,  \* bound on the changes of the server
          MaxMalformed \* bound on the messages that cannot be decoded

ModeWatch == "watch"
ModeInterval == "interval"
Watcher == "Watch"  \* the goroutine of Watch, in watch mode

Caller == Ticker \cup Refresher

VARIABLES
  RefreshMode,
  groups,     \* the server: the keys of each group
  changes,    \* of the server so far
  fetched,    \* the configuration a goroutine has pulled and not yet used
  firing,     \* the goroutine that holds the lock over its events
  watcher,    \* where Watch is, and the goroutine it leaves
  messages,   \* sent over the websocket and not read
  announced,  \* events of the message read last and not yet handed over
  heard,      \* history: the keys of the messages' events
  torn,       \* history: Cleanup came within a change or between its events
  cleaned,    \* Cleanup has been called
  malformed   \* messages sent so far

link == <<watcher, messages, announced, heard>>
server == <<RefreshMode, groups, changes>>
ccVars == <<vars, server, fetched, firing, link, torn, cleaned, malformed>>

Goroutine == Caller \cup {Watcher}

\* The groups are merged in the order of a Go map, any: the last one with a
\* key has it.
Flatten ==
  {config \in Config : \E order \in SetToSeqs(Group) : \A k \in Key :
     LET having == {i \in DOMAIN order : groups[order[i]][k] # None}
     IN config[k] = IF having = {} THEN None ELSE groups[order[Max(having)]][k]}

-----------------------------------------------------------------------------
CCInit ==
  /\ Init
  /\ RefreshMode \in Mode
  /\ groups = [g \in Group |-> EmptyConfig]
  /\ changes = 0 /\ malformed = 0
  /\ fetched = [g \in Goroutine |-> NoConfig]
  /\ firing = Nobody
  /\ watcher = IF RefreshMode = ModeWatch THEN "pull" ELSE "off"
  /\ messages = <<>> /\ announced = {} /\ heard = {}
  /\ torn = FALSE /\ cleaned = FALSE

\* A key of one group is created, changed or deleted; whoever is connected is
\* sent the configuration that makes (external).
Change(g, k, v) ==
  /\ changes < MaxChanges /\ changes' = changes + 1
  /\ groups[g][k] # v
  /\ groups' = [groups EXCEPT ![g][k] = v]
  /\ IF watcher = "open"
     THEN \E config \in Flatten' : messages' = Append(messages, config)
     ELSE UNCHANGED messages
  /\ UNCHANGED <<vars, RefreshMode, fetched, firing, watcher, announced, heard,
                 torn, cleaned, malformed>>

\* The server sends what GetConfigs cannot decode (external).
SendMalformed ==
  /\ watcher = "open"
  /\ malformed < MaxMalformed /\ malformed' = malformed + 1
  /\ messages' = Append(messages, Malformed)
  /\ UNCHANGED <<vars, server, fetched, firing, watcher, announced, heard, torn,
                 cleaned>>

\* g has nothing under way and pulls: Watch once, before it dials.
MayPull(g) ==
  /\ g \in Ticker => RefreshMode = ModeInterval
  /\ fetched[g] = NoConfig /\ firing # g
  /\ g = Watcher => watcher = "pull"
  /\ watcher' = IF g = Watcher THEN "dial" ELSE watcher
  /\ UNCHANGED <<vars, server, firing, messages, announced, heard, torn, cleaned>>

PullConfigs(g) ==
  /\ MayPull(g)
  /\ \E config \in Flatten : fetched' = [fetched EXCEPT ![g] = config]
  /\ UNCHANGED malformed

\* An error of the request, a bad status, or a body that cannot be decoded;
\* Watch goes on all the same.
PullFails(g) ==
  /\ MayPull(g)
  /\ UNCHANGED <<fetched, malformed>>

\* Mutant: the lock is not held over the events.
RefreshUnlocked(g) ==
  /\ fetched[g] # NoConfig
  /\ pending' = PopulateEvents(Name, current, fetched[g])
  /\ current' = fetched[g]
  /\ fetched' = [fetched EXCEPT ![g] = NoConfig]
  /\ UNCHANGED <<copy, server, firing, link, torn, cleaned, malformed>>

\* The rest of refreshConfigurations takes the lock.
RefreshConfigurations(g) ==
  /\ fetched[g] # NoConfig
  /\ announced = {}
  /\ UpdateConfigAndFireEvent(fetched[g])
  /\ fetched' = [fetched EXCEPT ![g] = NoConfig]
  /\ firing' = IF pending' = {} THEN Nobody ELSE g
  /\ UNCHANGED <<server, link, torn, cleaned, malformed>>

TakeEvent ==
  /\ OnEvent
  /\ firing' = IF pending' = {} THEN Nobody ELSE firing
  /\ UNCHANGED <<server, fetched, link, torn, cleaned, malformed>>

\* Watch dials when its pull is over.  If that fails nothing is watched.
Dial ==
  /\ watcher = "dial" /\ fetched[Watcher] = NoConfig /\ firing # Watcher
  /\ watcher' \in {"open", "closed"}
  /\ UNCHANGED <<vars, server, fetched, firing, messages, announced, heard, torn,
                 cleaned, malformed>>

\* The watching goroutine reads a message.  If it is a configuration the
\* callback compares it, under the read lock, which is held over the events.
ReadMessage ==
  /\ messages # <<>> /\ announced = {}
  /\ messages' = Tail(messages)
  /\ IF Head(messages) = Malformed
     THEN UNCHANGED announced
     ELSE /\ pending = {}
          /\ announced' = PopulateEvents(Name, current, Head(messages))
  /\ UNCHANGED <<vars, server, fetched, firing, watcher, heard, torn, cleaned,
                 malformed>>

TakeAnnounced ==
  /\ \E e \in announced :
       /\ announced' = announced \ {e}
       /\ copy' = Follow(copy, e)
       /\ heard' = heard \cup {e.key}
  /\ UNCHANGED <<current, pending, server, fetched, firing, watcher, messages,
                 torn, cleaned, malformed>>

\* ReadMessage fails, or keepAlive finds no pong and closes the connection:
\* the goroutine ends and nothing dials again.
Disconnect ==
  /\ watcher = "open" /\ announced = {}
  /\ watcher' = "closed" /\ messages' = <<>>
  /\ UNCHANGED <<vars, server, fetched, firing, announced, heard, torn, cleaned,
                 malformed>>

\* Cleanup holds connsLock, which nothing else takes.
CCCleanup ==
  /\ ~cleaned /\ cleaned' = TRUE
  /\ torn' = (pending # {} \/ announced # {})
  /\ current' = EmptyConfig /\ copy' = EmptyConfig
  /\ UNCHANGED <<pending, server, fetched, firing, link, malformed>>

\* So it may come when g has compared what it pulled with what is in use, and
\* not yet put it into use: what the events say was dropped, and is told.
CleanupWithin(g) ==
  /\ ~cleaned /\ cleaned' = TRUE /\ torn' = TRUE
  /\ fetched[g] # NoConfig
  /\ pending = {} /\ announced = {}
  /\ pending' = PopulateEvents(Name, current, fetched[g])
  /\ current' = fetched[g] /\ copy' = EmptyConfig
  /\ fetched' = [fetched EXCEPT ![g] = NoConfig]
  /\ firing' = IF pending' = {} THEN Nobody ELSE g
  /\ UNCHANGED <<server, link, malformed>>

CCNext ==
  \/ \E g \in Group, k \in Key, v \in Value \cup {None} : Change(g, k, v)
  \/ \E g \in Goroutine :
       PullConfigs(g) \/ PullFails(g) \/ RefreshConfigurations(g) \/ CleanupWithin(g)
  \/ SendMalformed \/ Dial \/ ReadMessage \/ Disconnect
  \/ TakeEvent \/ TakeAnnounced
  \/ CCCleanup

\* Some ticker ticks and is answered again and again, somebody who waits for the
\* lock gets it, and the Manager takes its events.
CCFairness ==
  /\ WF_ccVars(\E t \in Ticker : PullConfigs(t))
  /\ WF_ccVars(\E g \in Goroutine : RefreshConfigurations(g))
  /\ WF_ccVars(TakeEvent)

CCSpec == CCInit /\ [][CCNext]_ccVars /\ CCFairness

-----------------------------------------------------------------------------
\* The variables hold values of their types.
CCTypeOK ==
  /\ TypeOK
  /\ RefreshMode \in Mode
  /\ groups \in [Group -> Config] /\ changes \in 0..MaxChanges
  /\ fetched \in [Goroutine -> Config \cup {NoConfig}]
  /\ firing \in Goroutine \cup {Nobody} /\ (firing = Nobody <=> pending = {})
  /\ watcher \in {"off", "pull", "dial", "open", "closed"}
  /\ messages \in Seq(Config \cup {Malformed})
  /\ announced \in SUBSET EventFrom({Name}) /\ heard \in SUBSET Key
  /\ {torn, cleaned} \subseteq BOOLEAN
  /\ malformed \in 0..MaxMalformed

\* In interval mode the source keeps EventReplay's promise, whatever pulls at
\* once and fails, unless Cleanup came within a change or between its events.
IntervalReplays == [][RefreshMode = ModeInterval /\ ~torn' => Next]_vars

\* Whoever follows the events knows what a reader finds, except for the keys
\* some message was about: those are told and never put into use, whether the
\* pull of Watch, a Refresh or a message before said something else of them.
\* Of the other keys every event makes sense.
ToldUnlessHeard ==
  ~torn =>
    /\ \A e \in pending \cup announced : e.key \in heard \/ Fits(e, copy)
    /\ pending \cup announced = {} =>
         \A k \in Key \ heard : copy[k] = current[k]

\* What the server has is in use and told, for every key that has one value:
\* one that two groups have with two values changes from pull to pull.
Settled ==
  RefreshMode = ModeInterval =>
    \A k \in Key : (\A c, d \in Flatten : c[k] = d[k]) =>
      \A c \in Flatten :
        current[k] = c[k] /\ (torn \/ pending # {} \/ copy[k] = c[k])
=============================================================================
