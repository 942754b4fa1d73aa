----------------------------- MODULE FileSource -----------------------------
(***************************************************************************)
(* source/file/file.go: the source that reads configuration files.         *)
(* AddFile reads a file, or every file of a directory; once Watch has      *)
(* given the source its callback a goroutine reads files again when        *)
(* fsnotify tells of them.  Both compare what they read with what the      *)
(* source holds (compareUpdate, under the lock) and fire the events        *)
(* afterwards, without the lock.                                           *)
(***************************************************************************)
EXTENDS WatchedFiles

VARIABLES adding,  \* what AddFile has still to do
          adds     \* calls of AddFile

fileVars == <<tableVars, adding, adds>>

NoJob == [paths |-> {}, watch |-> {}, listed |-> FALSE]

\* Mutant of Compared: a key that its file has lost stays.
KeepsLost(confs, config, p) ==
  [k \in Key |->
    LET info == confs[k]
    IN IF config[k] = None THEN info
       ELSE IF info = NoInfo THEN [path |-> p, value |-> config[k]]
       ELSE IF info.path = p \/ Overrides(p, info.path)
       THEN [info EXCEPT !.value = config[k]] ELSE info]

\* compareUpdate: what the source holds once p is found to contain config.  A
\* key keeps its file, whoever changes its value.
Compared(confs, config, p) ==
  [k \in Key |->
    LET info == confs[k]
    IN IF config[k] = None
       THEN IF info.path = p THEN NoInfo ELSE info
       ELSE IF info = NoInfo THEN [path |-> p, value |-> config[k]]
       ELSE IF info.path = p \/ Overrides(p, info.path)
       THEN [info EXCEPT !.value = config[k]] ELSE info]

\* Its events: a file that takes a key over says so even if the value is the
\* same.
ComparedEvents(confs, config, p) ==
       PopulateEvents(Name, ValuesOf(confs), ValuesOf(Compared(confs, config, p)))
  \cup TakenEvents(config, {k \in Contested(confs, config, p) :
                              Overrides(p, confs[k].path)})

\* compareUpdate of the file that g has read; a file that is not listed is
\* passed over.
CompareUpdate(g) ==
  LET p == reading[g].path
      config == reading[g].content
  IN IF FilePriority(p) = MaxUint32
     THEN UNCHANGED <<Configurations, loaded, shared, raced, todo>>
     ELSE Compares(g, Compared(Configurations, config, p),
                   ComparedEvents(Configurations, config, p))

-----------------------------------------------------------------------------
Init == InitTable /\ adding = NoJob /\ adds = 0

Environment ==
  /\ \E p \in Path : \/ \E content \in Content : Write(p, content)
                     \/ \E op \in {"Remove", "Rename"} : Remove(p, op)
  /\ UNCHANGED <<adding, adds>>

(***************************************************************************)
(* AddFile.                                                                *)
(***************************************************************************)
Start(paths, priority, directory) ==
  /\ adding = NoJob /\ adds < MaxAdds
  /\ adding' = [paths |-> paths, watch |-> paths, listed |-> FALSE,
                priority |-> priority, directory |-> directory]
  /\ adds' = adds + 1
  /\ UNCHANGED tableVars

\* A file that does not exist or is listed already is not added.
AddFile(p, priority) ==
  /\ disk[p] # NoFile /\ files[p] = <<>>
  /\ Start({p}, priority, FALSE)

AddDirectory(priority) == Start(InDirectory, priority, TRUE)

\* ReadFile and the handler; in a directory a file that fails is passed over.
ReadFile(p) ==
  /\ p \in adding.paths /\ reading[App] = NoReading /\ todo[App] = {}
  /\ IF disk[p] \in Config
     THEN Read(App, p) /\ UNCHANGED adding
     ELSE /\ adding' = IF adding.directory
                       THEN [adding EXCEPT !.paths = @ \ {p}] ELSE NoJob
          /\ UNCHANGED <<reading, missed>>
  /\ UNCHANGED <<disk, held, watching, receiving, watched, notices, todo, copy,
                 shared, raced, cleaned, writes, adds>>

ListFile ==
  /\ reading[App] # NoReading /\ ~adding.listed
  /\ HandlePriority(reading[App].path, adding.priority)
  /\ adding' = [adding EXCEPT !.listed = TRUE]
  /\ UNCHANGED <<disk, Configurations, loaded, watching, receiving, watched,
                 notices, reading, todo, copy, history, cleaned, writes, adds>>

\* Mutant of HandleFile: no event is fired.
HandleFileSilently ==
  /\ reading[App] # NoReading /\ adding.listed
  /\ Configurations' = Compared(Configurations, reading[App].content,
                                reading[App].path)
  /\ loaded' = [loaded EXCEPT ![reading[App].path] = reading[App].content]
  /\ shared' = shared \cup Conflicts(loaded')
  /\ HasCompared(App)
  /\ adding' = [adding EXCEPT !.paths = @ \ {reading[App].path},
                              !.listed = FALSE]
  /\ UNCHANGED <<disk, files, watching, receiving, watched, notices, todo, copy,
                 raced, cleaned, writes, adds>>

\* The rest of handleFile up to the events.
HandleFile ==
  /\ reading[App] # NoReading /\ adding.listed
  /\ CompareUpdate(App)
  /\ HasCompared(App)
  /\ adding' = [adding EXCEPT !.paths = @ \ {reading[App].path},
                              !.listed = FALSE]
  /\ UNCHANGED <<disk, files, watching, receiving, watched, notices, copy, cleaned,
                 writes, adds>>

\* AddWatchFile, once everything is read.
FinishAdd ==
  /\ adding # NoJob /\ adding.paths = {}
  /\ reading[App] = NoReading /\ todo[App] = {}
  /\ watched' = IF ~receiving THEN watched
                ELSE watched \cup {p \in adding.watch :
                                     adding.directory \/ disk[p] # NoFile}
  /\ adding' = NoJob
  /\ UNCHANGED <<disk, held, watching, receiving, notices, reading, todo, copy,
                 history, cleaned, writes, adds>>

(***************************************************************************)
(* Watch and its goroutine.                                                *)
(***************************************************************************)
StartWatch == Watch /\ UNCHANGED <<adding, adds>>

WatchEnds == WatcherFails /\ UNCHANGED <<adding, adds>>

\* A file moved away is watched again if there is one in its place; only a
\* Write or a Create is read.
Receive(p, op) ==
  /\ <<p, op>> \in notices
  /\ reading[Watcher] = NoReading /\ todo[Watcher] = {}
  /\ notices' = notices \ {<<p, op>>}
  /\ watched' = IF op = "Rename" /\ disk[p] # NoFile THEN watched \cup {p}
                ELSE watched
  /\ IF op = "Write" /\ disk[p] \in Config
     THEN Read(Watcher, p) ELSE UNCHANGED <<reading, missed>>
  /\ UNCHANGED <<disk, held, watching, receiving, adding, todo, copy, shared,
                 raced, cleaned, writes, adds>>

Reload ==
  /\ reading[Watcher] # NoReading
  /\ CompareUpdate(Watcher)
  /\ HasCompared(Watcher)
  /\ UNCHANGED <<disk, files, watching, receiving, watched, notices, adding, copy,
                 cleaned, writes, adds>>

\* Both fire their events after they have compared.
Fire(g, e) == OnEvent(g, e) /\ UNCHANGED <<adding, adds>>

\* Called by an application that is not in AddFile, which may add files again
\* later: the watcher is closed, the callback stays.  A file the watcher has read
\* is compared later, or was being compared meanwhile: only filelock is taken
\* here, and the comparison may have begun before, have seen the keys or none,
\* taken over the keys at which it no longer saw a file listed (unlisted), and
\* stored its own after.
Cleanup ==
  LET p == reading[Watcher].path
      config == reading[Watcher].content
      Emptied == [q \in Path |-> EmptyConfig]
  IN /\ ~cleaned /\ adding = NoJob
     /\ \/ /\ Configurations' = NoInfos /\ loaded' = Emptied
           /\ UNCHANGED <<reading, todo, shared, raced>>
        \/ /\ p # Nobody /\ FilePriority(p) # MaxUint32
           /\ \E confs \in {Configurations, NoInfos} :
              \E unlisted \in SUBSET Contested(confs, config, p) :
                /\ Configurations' =
                     TakenOver(Compared(confs, config, p), config, unlisted)
                /\ loaded' = [(IF confs = NoInfos THEN Emptied ELSE loaded)
                                EXCEPT ![p] = config]
                /\ Announced(Watcher, {e \in ComparedEvents(confs, config, p) :
                                          e.key \notin unlisted}
                                       \cup TakenEvents(config, unlisted))
           /\ shared' = shared \cup Conflicts(loaded')
           /\ reading' = [reading EXCEPT ![Watcher] = NoReading]
     /\ files' = [q \in Path |-> <<>>]
     /\ receiving' = FALSE /\ watched' = {} /\ notices' = {}
     /\ missed' = Path
     /\ cleaned' = TRUE
     /\ UNCHANGED <<disk, watching, adding, copy, writes, adds>>

Next ==
  \/ Environment
  \/ \E p \in Path : \/ \E priority \in Priority : AddFile(p, priority)
                     \/ ReadFile(p)
  \/ \E priority \in Priority : AddDirectory(priority)
  \/ ListFile \/ HandleFile \/ FinishAdd \/ Reload
  \/ StartWatch \/ WatchEnds \/ Cleanup
  \/ \E notice \in notices : Receive(notice[1], notice[2])
  \/ \E g \in Goroutine : \E e \in todo[g] : Fire(g, e)

\* The steps of a goroutine that is at work.
GoesOn(g) ==
  \/ g = App /\ \/ \E p \in Path : ReadFile(p)
                \/ ListFile \/ HandleFile \/ FinishAdd
  \/ g = Watcher /\ \/ Reload
                    \/ \E notice \in notices : Receive(notice[1], notice[2])
  \/ \E e \in todo[g] : Fire(g, e)

-----------------------------------------------------------------------------
\* The variables hold values of their types.
TypeOK ==
  /\ TableTypeOK
  /\ adding.paths \subseteq adding.watch /\ adding.watch \subseteq Path

\* A key that no two files ever had at once has the value its file was last
\* found to contain, and is gone when the file has lost it, before Cleanup and
\* after it.
SoleFileRules == SoleKeysFollow

\* Every change of a value in the source is among the events that go out with
\* it, and every event is about the value the source then has ("fire change
\* event if value changes"); Cleanup alone is silent.  (Of a step.)
ChangeIsTold ==
  watching /\ cleaned' = cleaned /\ Configurations' # Configurations => Tells({})

\* Between changes the Manager has been told exactly the values the source
\* has, up to Cleanup, for the keys on which the two goroutines did not fire at
\* once.
ToldAll == ~cleaned => ToldAllBut(raced)

\* The source has the content of every listed file whose last change happened
\* under its watch.
HasReloaded == Caught({p \in Path : files[p] # <<>>})
=============================================================================
