---------------------------- MODULE WatchedFiles ----------------------------
(***************************************************************************)
(* What the two sources that read files have in common (source/file and    *)
(* source/configmap): the files themselves and fsnotify (external), the    *)
(* table of the priorities of files, the table of keys with the file each  *)
(* is attributed to, and the two goroutines that read files, compare what  *)
(* they read with the table under the source's lock, and fire the events   *)
(* afterwards without it.                                                  *)
(***************************************************************************)
EXTENDS EventTool, Integers, Sequences

CONSTANTS Name,        \* the source
          Path,        \* files
          InDirectory, \* the files of the one directory
          Priority,    \* priorities AddFile is given; the least goes first
          MaxUint32,   \* no priority is less
          NoFile,      \* the file does not exist
          Garbage,     \* a content that the handler cannot convert
          Nobody,
          FirstDisk,   \* what the files may contain at first
          MaxWrites,   \* bound on the changes of the files
          MaxAdds      \* bound on the calls of AddFile

ASSUME FileAssumption ==
  /\ InDirectory \subseteq Path /\ Nobody \notin Path
  /\ FirstDisk \subseteq [Path -> Config]
  /\ {NoFile, Garbage} \cap Config = {} /\ NoFile # Garbage
  /\ MaxUint32 \in Nat /\ Priority \subseteq 0..MaxUint32
  /\ MaxWrites \in Nat /\ MaxAdds \in Nat

App == "application"
Watcher == "watchFile"
Goroutine == {App, Watcher}

VARIABLES
  disk,            \* what the files contain, converted by their handler
  files,           \* Source.files: the priorities listed for each file
  Configurations,  \* key to its value and the file it is attributed to
  watching,        \* the callback is set
  receiving,       \* watchFile receives what fsnotify tells
  watched,         \* files fsnotify watches
  notices,         \* fsnotify's events, not yet received
  reading,         \* the file a goroutine has read and not yet compared
  todo,            \* events a goroutine has still to fire
  copy,            \* what the Manager has been told
  loaded,          \* history: the content of each file compared last
  shared,          \* history: keys that two files have had at once
  raced,           \* history: keys both goroutines had events on at once
  missed,          \* history: files whose content is neither read nor told of
  cleaned,         \* Cleanup has been called
  writes           \* changes of files

history == <<shared, raced, missed>>
held == <<files, Configurations, loaded>>
tableVars == <<disk, held, watching, receiving, watched, notices, reading,
               todo, copy, history, cleaned, writes>>

Info == [path : Path, value : Value]
NoInfo == [path |-> Nobody]
NoInfos == [k \in Key |-> NoInfo]

Content == Config \cup {NoFile, Garbage}

NoReading == [path |-> Nobody]

ValuesOf(confs) == [k \in Key |-> IF confs[k] = NoInfo THEN None
                                ELSE confs[k].value]

Values == ValuesOf(Configurations)

\* Mutant of FilePriority: a file that is not listed has the best priority.
UnlistedFirst(p) == IF files[p] = <<>> THEN 0 ELSE files[p][Len(files[p])]

\* The last entry for p counts.
FilePriority(p) ==
  IF files[p] = <<>> THEN MaxUint32 ELSE files[p][Len(files[p])]

\* handlePriority: a pair that is listed already is only listed again.
HandlePriority(p, priority) ==
  files' = IF \E i \in DOMAIN files[p] : files[p][i] = priority THEN files
           ELSE [files EXCEPT ![p] = Append(@, priority)]

\* A key of another file is taken over with a better priority.
Overrides(p, q) == FilePriority(p) < FilePriority(q)

Conflicts(contents) ==
  {k \in Key : \E p, q \in Path :
     p # q /\ None \notin {contents[p][k], contents[q][k]}}

\* Keys of other files that p, found to contain config, has as well.
Contested(confs, config, p) ==
  {k \in Key : config[k] # None /\ confs[k].path \notin {p, Nobody}}

\* Those of S are taken over, each with its event.
TakenOver(infos, config, S) ==
  [k \in Key |-> IF k \in S THEN [infos[k] EXCEPT !.value = config[k]]
                 ELSE infos[k]]

TakenEvents(config, S) == {ConstructEvent(Name, Update, k, config[k]) : k \in S}

\* A goroutine reads p; two that read it at once may compare in any order.
Read(g, p) ==
  /\ reading' = [reading EXCEPT ![g] = [path |-> p, content |-> disk[p]]]
  /\ missed' = IF \E h \in Goroutine \ {g} : reading[h].path = p
               THEN missed \cup {p} ELSE missed

HasCompared(g) ==
  LET p == reading[g].path
  IN /\ reading' = [reading EXCEPT ![g] = NoReading]
     /\ missed' = IF /\ disk[p] = reading[g].content /\ files[p] # <<>>
                     /\ \A h \in Goroutine \ {g} : reading[h].path # p
                  THEN missed \ {p} ELSE missed

\* g has events to fire.
Announced(g, events) ==
  /\ todo' = [todo EXCEPT ![g] = IF watching THEN events ELSE {}]
  /\ raced' = raced \cup {k \in Key : \A h \in Goroutine :
                            \E e \in todo'[h] : e.key = k}

\* The end of compareUpdate: g has found these infos and events.
Compares(g, infos, events) ==
  /\ Configurations' = infos
  /\ loaded' = [loaded EXCEPT ![reading[g].path] = reading[g].content]
  /\ shared' = shared \cup Conflicts(loaded')
  /\ Announced(g, events)

-----------------------------------------------------------------------------
InitTable ==
  /\ disk \in FirstDisk
  /\ files = [p \in Path |-> <<>>]
  /\ Configurations = NoInfos
  /\ watching = FALSE /\ receiving = FALSE
  /\ watched = {}
  /\ notices = {}
  /\ reading = [g \in Goroutine |-> NoReading]
  /\ todo = [g \in Goroutine |-> {}]
  /\ copy = EmptyConfig
  /\ loaded = [p \in Path |-> EmptyConfig]
  /\ shared = {} /\ raced = {} /\ missed = Path
  /\ cleaned = FALSE
  /\ writes = 0

(***************************************************************************)
(* The files and fsnotify.  A file that is removed or moved away is        *)
(* watched no longer, unless its directory is.                             *)
(***************************************************************************)
Changed(p, content, op) ==
  /\ writes < MaxWrites /\ disk[p] # content
  /\ disk' = [disk EXCEPT ![p] = content]
  /\ writes' = writes + 1
  /\ notices' = IF p \in watched THEN notices \cup {<<p, op>>} ELSE notices
  /\ UNCHANGED <<held, watching, receiving, reading, todo, copy, shared, raced,
                 cleaned>>

\* Write or Create.
Write(p, content) ==
  /\ content # NoFile
  /\ Changed(p, content, "Write")
  /\ missed' = IF p \in watched THEN missed \ {p} ELSE missed \cup {p}
  /\ UNCHANGED watched

Remove(p, op) ==
  /\ Changed(p, NoFile, op)
  /\ watched' = watched \ {p} \/ (p \in InDirectory /\ UNCHANGED watched)
  /\ UNCHANGED missed

\* The callback takes an event.
OnEvent(g, e) ==
  /\ e \in todo[g]
  /\ todo' = [todo EXCEPT ![g] = @ \ {e}]
  /\ copy' = Follow(copy, e)
  /\ UNCHANGED <<disk, held, watching, receiving, watched, notices, reading,
                 history, cleaned, writes>>

\* Watch sets the callback; startWatchPool gives up at the first file that is
\* gone.
Watch ==
  LET listed == {p \in Path : files[p] # <<>>}
      there == {p \in listed : disk[p] # NoFile}
  IN /\ ~watching
     /\ watching' = TRUE /\ receiving' = TRUE
     /\ watched' \in (IF there = listed THEN {listed} ELSE SUBSET there)
     /\ copy' = Values
     /\ UNCHANGED <<disk, held, notices, reading, todo, history, cleaned,
                    writes>>

\* watchFile ends for good at an error of fsnotify.  What was told and not
\* received is lost.
WatcherFails ==
  /\ receiving /\ reading[Watcher] = NoReading /\ todo[Watcher] = {}
  /\ receiving' = FALSE /\ watched' = {} /\ notices' = {}
  /\ missed' = missed \cup {p \in Path : <<p, "Write">> \in notices}
  /\ UNCHANGED <<disk, held, watching, reading, todo, copy, shared, raced,
                 cleaned, writes>>

-----------------------------------------------------------------------------
\* The variables hold values of their types.
TableTypeOK ==
  /\ disk \in [Path -> Content] /\ loaded \in [Path -> Config]
  /\ \A p \in Path : \A i \in DOMAIN files[p] : files[p][i] \in 0..MaxUint32
  /\ Configurations \in [Key -> Info \cup {NoInfo}]
  /\ watched \subseteq Path /\ receiving \in BOOLEAN
  /\ notices \subseteq Path \X {"Write", "Remove", "Rename"}
  /\ reading \in [Goroutine -> [path : Path, content : Config] \cup {NoReading}]
  /\ todo \in [Goroutine -> SUBSET EventFrom({Name})]
  /\ copy \in Config

\* Between changes the Manager has been told exactly the values the source
\* has, except for the keys of S.
ToldAllBut(S) ==
  watching /\ (\A g \in Goroutine : todo[g] = {}) =>
    \A k \in Key \ S : copy[k] = Values[k]

\* A key that no two files ever had at once has the value its file was last
\* found to contain, and is gone when the file has lost it.
SoleKeysFollow ==
  \A k \in Key \ shared :
    LET owners == {p \in Path : loaded[p][k] # None}
    IN IF owners = {} THEN Configurations[k] = NoInfo
       ELSE \E p \in owners :
              Configurations[k] = [path |-> p, value |-> loaded[p][k]]

\* In a step: every change of a value, but of the keys of S, is among the events
\* that go out with it, and every event is about the value the source then has.
Tells(S) ==
  \E g \in Goroutine :
    /\ {e \in PopulateEvents(Name, Values, ValuesOf(Configurations')) :
          e.key \notin S} \subseteq todo'[g]
    /\ \A e \in todo'[g] :
         ValuesOf(Configurations')[e.key] =
           IF e.type = Delete THEN None ELSE e.val

\* In a step: what comes to a key is the content of a file that is listed, and so
\* is what is told.
OfListedFiles ==
  LET listed == {p \in Path : files[p] # <<>>}
  IN /\ \A k \in Key :
          Configurations'[k] \notin {Configurations[k], NoInfo} =>
            \E g \in Goroutine :
              /\ reading[g].path \in listed
              /\ reading[g].content[k] = Configurations'[k].value
     /\ \A g \in Goroutine :
          todo'[g] \subseteq todo[g] \/ reading[g].path \in listed

\* compareUpdate passes over a listed file of the worst priority.
PassedOver(p) == files[p] # <<>> /\ FilePriority(p) = MaxUint32

\* Every file of S whose last change the source was told of has been read
\* again.
Caught(S) ==
  \A p \in S \ missed :
    disk[p] \in Config => loaded[p] = disk[p] \/ PassedOver(p)
=============================================================================
