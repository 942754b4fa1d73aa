-------------------------- MODULE ConfigMapSource ---------------------------
(***************************************************************************)
(* source/configmap/configmap_source.go: the source that reads the files   *)
(* of a directory, a mounted config map.  It differs from the file source  *)
(* in this: a directory is watched itself, and the watcher adds the files  *)
(* that appear in it, each with its own walk (AddFile) beside the          *)
(* application's; each file is watched when it has been read; of two files *)
(* of the same priority the one read last gives the value of a key, and no *)
(* event says so; and Cleanup leaves a source that can be used again.      *)
(***************************************************************************)
EXTENDS WatchedFiles

CONSTANTS ConfigMapSourcePriority, \* what the watcher gives a file it adds
          Contains                 \* <<p, q>>: the path of p contains that of q

VARIABLES walk,  \* of each goroutine: what its AddFile has still to do
          adds,  \* calls of AddFile
          tied   \* history: keys whose last change was that of a tie

mapVars == <<tableVars, walk, adds, tied>>

NoWalk == [paths |-> {}, at |-> Nobody, listed |-> FALSE]

WalkOf(paths, priority) ==
  IF paths = {} THEN NoWalk
  ELSE [paths |-> paths, at |-> Nobody, listed |-> FALSE, priority |-> priority]

\* Keys of other files that p, found to contain config, gives a new value.
Ties(confs, config, p) ==
  {k \in Contested(confs, config, p) :
     /\ config[k] # confs[k].value
     /\ FilePriority(confs[k].path) = FilePriority(p)}

TakesOver(confs, config, p) ==
  {k \in Contested(confs, config, p) : Overrides(p, confs[k].path)}

\* compareUpdate: what the source holds once p is found to contain config.  A
\* key keeps its file, whoever changes its value.
Compared(confs, config, p) ==
  [k \in Key |->
    LET info == confs[k]
    IN IF config[k] = None
       THEN IF info.path = p THEN NoInfo ELSE info
       ELSE IF info = NoInfo THEN [path |-> p, value |-> config[k]]
       ELSE IF \/ info.path = p
               \/ k \in Ties(confs, config, p) \cup TakesOver(confs, config, p)
       THEN [info EXCEPT !.value = config[k]] ELSE info]

\* Mutant of ComparedEvents: a key that another file takes over is not told.
OwnEvents(confs, config, p) ==
  {e \in PopulateEvents(Name, ValuesOf(confs),
                        ValuesOf(Compared(confs, config, p))) :
     confs[e.key].path \in {p, Nobody}}

\* Its events: none for a tie, one for a key taken over even if the value is
\* the same.
ComparedEvents(confs, config, p) ==
  {e \in PopulateEvents(Name, ValuesOf(confs),
                        ValuesOf(Compared(confs, config, p))) :
     e.key \notin Ties(confs, config, p)}
  \cup TakenEvents(config, TakesOver(confs, config, p))

\* compareUpdate of the file that g has read; a file that is not listed is
\* passed over.
CompareUpdate(g) ==
  LET p == reading[g].path
      config == reading[g].content
      events == ComparedEvents(Configurations, config, p)
  IN IF FilePriority(p) = MaxUint32
     THEN UNCHANGED <<Configurations, loaded, shared, raced, todo, tied>>
     ELSE /\ Compares(g, Compared(Configurations, config, p), events)
          /\ tied' = (tied \cup Ties(Configurations, config, p))
                       \ {e.key : e \in events}

-----------------------------------------------------------------------------
Init ==
  InitTable /\ walk = [g \in Goroutine |-> NoWalk] /\ adds = 0 /\ tied = {}

Environment ==
  /\ \E p \in Path : \/ \E content \in Content : Write(p, content)
                     \/ \E op \in {"Remove", "Rename"} : Remove(p, op)
  /\ UNCHANGED <<walk, adds, tied>>

(***************************************************************************)
(* AddFile of the application: a file that exists and is not listed, or    *)
(* the directory, which is watched before its files are looked for.  The   *)
(* errors of the walk are swallowed.                                       *)
(***************************************************************************)
Start(paths, priority) ==
  /\ walk[App] = NoWalk /\ adds < MaxAdds
  /\ walk' = [walk EXCEPT ![App] = WalkOf(paths, priority)]
  /\ adds' = adds + 1
  /\ UNCHANGED <<disk, held, watching, receiving, notices, reading, todo, copy,
                 history, cleaned, writes, tied>>

AddFile(p, priority) ==
  /\ disk[p] # NoFile /\ files[p] = <<>>
  /\ Start({p}, priority)
  /\ UNCHANGED watched

AddDirectory(priority) ==
  /\ Start({p \in InDirectory : disk[p] # NoFile}, priority)
  /\ watched' = IF receiving THEN watched \cup InDirectory ELSE watched

\* The walk comes to p.  At a file that is gone, or that the handler cannot
\* convert, it ends; the latter is watched all the same.
Visit(g, p) ==
  /\ p \in walk[g].paths /\ walk[g].at = Nobody
  /\ IF disk[p] \in Config
     THEN /\ Read(g, p)
          /\ walk' = [walk EXCEPT ![g].at = p]
          /\ UNCHANGED watched
     ELSE /\ walk' = [walk EXCEPT ![g] = NoWalk]
          /\ watched' = IF receiving /\ disk[p] = Garbage
                        THEN watched \cup {p} ELSE watched
          /\ UNCHANGED <<reading, missed>>
  /\ UNCHANGED <<disk, held, watching, receiving, notices, todo, copy, shared,
                 raced, cleaned, writes, adds, tied>>

ListFile(g) ==
  /\ walk[g].at # Nobody /\ ~walk[g].listed
  /\ HandlePriority(walk[g].at, walk[g].priority)
  /\ walk' = [walk EXCEPT ![g].listed = TRUE]
  /\ UNCHANGED <<disk, Configurations, loaded, watching, receiving, watched,
                 notices, reading, todo, copy, history, cleaned, writes, adds,
                 tied>>

\* handleFile, and updateFile for a file that is listed: compare what was read.
Compare(g) ==
  /\ reading[g] # NoReading /\ (walk[g] = NoWalk \/ walk[g].listed)
  /\ CompareUpdate(g)
  /\ HasCompared(g)
  /\ UNCHANGED <<disk, files, watching, receiving, watched, notices, copy, cleaned,
                 writes, walk, adds>>

\* The file has been read, and its events fired: it is watched.
WatchFile(g) ==
  LET p == walk[g].at
      paths == walk[g].paths \ {p}
  IN /\ p # Nobody /\ walk[g].listed /\ reading[g] = NoReading /\ todo[g] = {}
     /\ watched' = IF receiving /\ disk[p] # NoFile THEN watched \cup {p}
                   ELSE watched
     /\ walk' = [walk EXCEPT ![g] = WalkOf(paths, @.priority)]
     /\ UNCHANGED <<disk, held, watching, receiving, notices, reading, todo, copy,
                    history, cleaned, writes, adds, tied>>

(***************************************************************************)
(* Watch, and the goroutine watchFile.                                     *)
(***************************************************************************)
\* One watcher at a time: that of before Cleanup has ended its walk.
StartWatch ==
  Watch /\ walk[Watcher] = NoWalk /\ UNCHANGED <<walk, adds, tied>>

WatchEnds ==
  WatcherFails /\ walk[Watcher] = NoWalk /\ UNCHANGED <<walk, adds, tied>>

Idle(g) == walk[g] = NoWalk /\ reading[g] = NoReading /\ todo[g] = {}

\* Mutant of Receive: only the files that are listed are read.
ReceiveListed(p, op) ==
  /\ <<p, op>> \in notices /\ Idle(Watcher)
  /\ notices' = notices \ {<<p, op>>}
  /\ watched' = IF op = "Rename" /\ disk[p] # NoFile THEN watched \cup {p}
                ELSE watched
  /\ IF op = "Write" /\ files[p] # <<>> /\ disk[p] \in Config
     THEN Read(Watcher, p) ELSE UNCHANGED <<reading, missed>>
  /\ UNCHANGED <<disk, held, watching, receiving, todo, copy, shared, raced,
                 cleaned, writes, walk, adds, tied>>

\* The priority of a file that appears: that of a listed file whose path its own
\* contains, or the source's own; the one that counts is the one listed last.
AppearsWith(p) ==
  LET parts == {q \in Path : <<p, q>> \in Contains /\ files[q] # <<>>}
  IN IF parts = {} THEN {ConfigMapSourcePriority} ELSE {FilePriority(q) : q \in parts}

\* updateFile: a file that is not listed is added.
Receive(p, op) ==
  LET known == files[p] # <<>>
  IN /\ <<p, op>> \in notices /\ Idle(Watcher)
     /\ notices' = notices \ {<<p, op>>}
     /\ watched' = IF op = "Rename" /\ disk[p] # NoFile THEN watched \cup {p}
                   ELSE watched
     /\ IF op = "Write" /\ known /\ disk[p] \in Config
        THEN Read(Watcher, p) ELSE UNCHANGED <<reading, missed>>
     /\ IF op = "Write" /\ ~known /\ disk[p] # NoFile
        THEN \E priority \in AppearsWith(p) :
               walk' = [walk EXCEPT ![Watcher] = WalkOf({p}, priority)]
        ELSE UNCHANGED walk
     /\ UNCHANGED <<disk, held, watching, receiving, todo, copy, shared, raced,
                    cleaned, writes, adds, tied>>

Fire(g, e) == OnEvent(g, e) /\ UNCHANGED <<walk, adds, tied>>

\* Called by an application that is not in AddFile, while the watcher fires no
\* event: an event then fired ends the program, the callback being nil.  A
\* listed file it has read is dropped, its walk goes on.  A comparison that has
\* begun, for only fileLock is taken here, may store its result after, with the
\* keys taken over at which it no longer saw a file listed (unlisted).
Cleanup ==
  LET p == reading[Watcher].path
      config == reading[Watcher].content
      walking == walk[Watcher] # NoWalk
      Emptied == [q \in Path |-> EmptyConfig]
  IN /\ ~cleaned /\ walk[App] = NoWalk /\ todo[Watcher] = {}
     /\ \/ /\ Configurations' = NoInfos /\ loaded' = Emptied
           /\ reading' = IF walking THEN reading
                         ELSE [reading EXCEPT ![Watcher] = NoReading]
           /\ UNCHANGED shared
        \/ /\ p # Nobody /\ FilePriority(p) # MaxUint32
           /\ walking => walk[Watcher].listed
           /\ \E confs \in {Configurations, NoInfos} :
              \E unlisted \in SUBSET Contested(confs, config, p) :
                /\ walking \/ (unlisted = {} /\ ComparedEvents(confs, config, p) = {})
                /\ Configurations' =
                     TakenOver(Compared(confs, config, p), config, unlisted)
                /\ loaded' = [(IF confs = NoInfos THEN Emptied ELSE loaded)
                                EXCEPT ![p] = config]
           /\ shared' = shared \cup Conflicts(loaded')
           /\ reading' = [reading EXCEPT ![Watcher] = NoReading]
     /\ files' = [q \in Path |-> <<>>]
     /\ watching' = FALSE /\ receiving' = FALSE
     /\ watched' = {} /\ notices' = {}
     /\ missed' = Path
     /\ cleaned' = TRUE
     /\ UNCHANGED <<disk, todo, copy, raced, writes, walk, adds, tied>>

Next ==
  \/ Environment
  \/ \E priority \in Priority :
       \/ \E p \in Path : AddFile(p, priority)
       \/ AddDirectory(priority)
  \/ \E g \in Goroutine : \/ \E p \in Path : Visit(g, p)
                          \/ \E e \in todo[g] : Fire(g, e)
                          \/ ListFile(g) \/ Compare(g) \/ WatchFile(g)
  \/ \E notice \in notices : Receive(notice[1], notice[2])
  \/ StartWatch \/ WatchEnds \/ Cleanup

\* The steps of a goroutine that is at work.
GoesOn(g) ==
  \/ \E p \in Path : Visit(g, p)
  \/ ListFile(g) \/ Compare(g) \/ WatchFile(g)
  \/ g = Watcher /\ \E notice \in notices : Receive(notice[1], notice[2])
  \/ \E e \in todo[g] : Fire(g, e)

-----------------------------------------------------------------------------
\* The variables hold values of their types.
TypeOK ==
  /\ TableTypeOK
  /\ \A g \in Goroutine : /\ walk[g].paths \subseteq Path
                          /\ walk[g].at \in walk[g].paths \cup {Nobody}
  /\ tied \subseteq Key

\* A key that no two files ever had at once has the value its file was last
\* found to contain, and is gone when the file has lost it, before Cleanup and
\* after it.
SoleFileRules == SoleKeysFollow

\* Every change of a value that goes out with compareUpdate is among its
\* events, a tie excepted, and every event is about the value the source has.
\* (Of a step.)
ChangeIsTold ==
  watching /\ watching' /\ Configurations' # Configurations => Tells(tied')

\* Between changes the Manager has been told exactly the values the source
\* has, for the keys that no tie changed last and on which the two goroutines
\* did not fire at once.
ToldAll == ToldAllBut(raced \cup tied)

\* The source has every watched file as it is, also one that has appeared in
\* the watched directory, if its last change happened under the watch.
HasFound == Caught(watched)
=============================================================================
