----------------------------- MODULE Lifecycle ------------------------------
(***************************************************************************)
(* archaius.go: the package's own state - its manager, its file source fs, *)
(* and the flags running and configServerRunning - over the calls that set *)
(* it up and take it down.  Each call may fail half way and leave what it  *)
(* has done so far.  What the manager does with its sources is the matter  *)
(* of Manager; here a source is registered, and pulled, or it is not.      *)
(***************************************************************************)
EXTENDS Naturals, FiniteSets

CONSTANTS Path,       \* configuration files
          Provider,   \* remote sources
          Installed,  \* those whose package is imported (InstallRemoteSource)
          BuiltIn,    \* memory, command line, environment: they never fail
          FileSource, \* the name of every file source
          CustomList, \* the names of the sources CustomInit is given
          NoProvider,
          MaxCalls,   \* bound on the calls of the application
          MaxChanges  \* bound on the changes of the files and of the server

ASSUME LifecycleAssumption ==
  /\ CustomList \subseteq SUBSET (BuiltIn \cup {FileSource})
  /\ Installed \subseteq Provider /\ NoProvider \notin Provider
  /\ FileSource \notin Provider \cup BuiltIn
  /\ MaxCalls \in Nat /\ MaxChanges \in Nat

VARIABLES
  disk,      \* "missing", "bad" for the handler, or "good"
  online,    \* the remote server answers
  running, configServerRunning,
  manager,   \* not nil
  sources,   \* Manager.Sources: the names it has, each with its object
  pulled,    \* names whose configurations the manager has pulled
  routed,    \* files whose keys the manager has been given
  fs,        \* the package's file source: a number, or Nobody for nil
  files,     \* the files each file source has listed
  calls, changes,
  wanted,    \* history: the sources the last Init in effect was asked for
  skipped,   \* history: the remote source it left out without an error
  promised,  \* history: files that a call has taken and reported no error for
  last       \* history: the last call

lifeVars == <<disk, online, running, configServerRunning, manager, sources,
              pulled, routed, fs, files, calls, changes, wanted, skipped,
              promised, last>>

Nobody == 0
Own == MaxCalls + 1 \* a file source the application has made itself
Object == 0..Own

Info == {"nil", "invalid", "valid"}

Other == [call |-> "other"]

\* Options: which files, and which sources, Init is to use.
Options ==
  {o \in [required : SUBSET Path, optional : SUBSET Path,
          remote : Provider \cup {NoProvider}, info : Info,
          uses : {{}, BuiltIn}] :
     o.required \cap o.optional = {} /\ (o.remote = NoProvider => o.info = "nil")}

Name == BuiltIn \cup Provider \cup {FileSource}

Added(names, object) == [n \in names |-> object]

With(functions, more) ==
  [n \in DOMAIN functions \cup DOMAIN more |->
     IF n \in DOMAIN more THEN more[n] ELSE functions[n]]

\* Mutant of NewManager: the manager there was is used again.
OldManager == sources

\* The sources of a new manager: none.
NewManager == <<>>

\* Mutant of RemoteOutcome: a provider that is not installed is passed over.
RemoteLenient(provider, info, registered) ==
  IF info = "nil" THEN "refused"
  ELSE IF configServerRunning THEN "skipped"
  ELSE IF provider \notin Installed THEN "none"
  ELSE IF info = "invalid" \/ provider \in registered THEN "refused"
  ELSE IF online THEN "enabled" ELSE "pull failed"

\* EnableRemoteSource, with the names the manager has.
RemoteOutcome(provider, info, registered) ==
  IF info = "nil" THEN "refused"
  ELSE IF configServerRunning THEN "skipped"
  ELSE IF \/ provider \notin Installed \/ info = "invalid"
          \/ provider \in registered
  THEN "refused"
  ELSE IF online THEN "enabled" ELSE "pull failed"

-----------------------------------------------------------------------------
Init ==
  /\ disk \in [Path -> {"missing", "good"}]
  /\ online \in BOOLEAN
  /\ running = FALSE /\ configServerRunning = FALSE
  /\ manager = FALSE /\ sources = <<>>
  /\ pulled = {} /\ routed = {}
  /\ fs = Nobody /\ files = [object \in Object |-> {}]
  /\ calls = 0 /\ changes = 0
  /\ wanted = {} /\ skipped = {} /\ promised = {} /\ last = Other

packageVars == <<running, configServerRunning, manager, sources, pulled, routed,
                 fs, files, wanted, skipped, promised>>

Change ==
  /\ changes < MaxChanges /\ changes' = changes + 1
  /\ \/ /\ \E p \in Path, status \in {"missing", "bad", "good"} :
             disk' = [disk EXCEPT ![p] = status]
        /\ UNCHANGED online
     \/ online' = ~online /\ UNCHANGED disk
  /\ UNCHANGED <<packageVars, calls, last>>

Call == calls < MaxCalls /\ calls' = calls + 1
        /\ UNCHANGED <<disk, online, changes>>

\* "can not init archaius again, call Clean first"
IgnoredInit ==
  /\ Call /\ running
  /\ last' = Other /\ UNCHANGED packageVars

FilesFail(o) == \/ \E p \in o.required : disk[p] # "good"
                \/ \E p \in o.optional : disk[p] = "bad"

\* An Init that has all it needs, or not.
InitCall(o) ==
  [call |-> "Init",
   able |-> /\ ~FilesFail(o)
            /\ \/ o.remote = NoProvider
               \/ o.remote \in Installed /\ o.info = "valid" /\ online]

\* Init up to an error of initFileSource: the manager is new and empty, fs has
\* the files added before the one that failed.
InitFilesFail(o) ==
  /\ Call /\ ~running /\ FilesFail(o)
  /\ manager' = TRUE /\ sources' = NewManager /\ pulled' = {}
  /\ routed' = {}
  /\ fs' = calls'
  /\ \E some \in SUBSET {p \in o.required \cup o.optional : disk[p] = "good"} :
       files' = [files EXCEPT ![fs'] = some]
  /\ wanted' = {} /\ skipped' = {} /\ promised' = {}
  /\ last' = InitCall(o)
  /\ UNCHANGED <<running, configServerRunning>>

\* Init from there.  The sources that come after a remote source that fails are
\* not added; one whose pull fails stays in the map.
InitArchaius(o) ==
  LET found == {p \in o.required \cup o.optional : disk[p] = "good"}
      remote == IF o.remote = NoProvider THEN "none"
                ELSE RemoteOutcome(o.remote, o.info, DOMAIN NewManager)
      fails == \/ remote \in {"refused", "pull failed"}
               \/ DOMAIN NewManager \cap ({FileSource} \cup o.uses) # {}
      names == {FileSource} \cup (IF fails THEN {} ELSE o.uses) \cup
               (IF remote = "enabled" THEN {o.remote} ELSE {})
      registered == names \cup
                    (IF remote = "pull failed" THEN {o.remote} ELSE {})
  IN /\ Call /\ ~running /\ ~FilesFail(o)
     /\ manager' = TRUE
     /\ fs' = calls' /\ files' = [files EXCEPT ![fs'] = found]
     /\ sources' = With(NewManager, Added(registered, fs'))
     /\ pulled' = names /\ routed' = found
     /\ configServerRunning' = (configServerRunning \/ remote = "enabled")
     /\ running' = ~fails
     /\ wanted' = IF fails THEN {}
                  ELSE {FileSource} \cup o.uses \cup ({o.remote} \ {NoProvider})
     /\ skipped' = IF remote = "skipped" THEN {o.remote} ELSE {}
     /\ promised' = IF fails THEN {} ELSE found
     /\ last' = InitCall(o)

\* The sources are added in turn up to one whose pull fails.  A file source
\* among them is the application's own, and fs stays what it was.
CustomInit(names) ==
  /\ Call /\ ~running
  /\ manager' = TRUE
  /\ \E done \in SUBSET names :
       /\ pulled' = done
       /\ \/ /\ done = names
             /\ sources' = Added(done, Own)
             /\ running' = TRUE /\ wanted' = names
          \/ \E failed \in names \ done :
               /\ sources' = Added(done \cup {failed}, Own)
               /\ wanted' = {} /\ UNCHANGED running
  /\ routed' = {} /\ skipped' = {} /\ promised' = {} /\ last' = Other
  /\ UNCHANGED <<configServerRunning, fs, files>>

EnableRemoteSource(provider, info) ==
  LET outcome == RemoteOutcome(provider, info, DOMAIN sources)
  IN /\ Call /\ manager
     /\ sources' = IF outcome \in {"enabled", "pull failed"}
                   THEN With(sources, Added({provider}, Own)) ELSE sources
     /\ pulled' = IF outcome = "enabled" THEN pulled \cup {provider} ELSE pulled
     /\ configServerRunning' = (configServerRunning \/ outcome = "enabled")
     /\ last' = Other
     /\ UNCHANGED <<running, manager, routed, fs, files, wanted, skipped,
                    promised>>

\* Manager.AddSource: a name is taken even if the pull fails.
AddSource(name) ==
  /\ Call /\ manager
  /\ IF name \in DOMAIN sources
     THEN UNCHANGED <<sources, pulled>>
     ELSE /\ sources' = With(sources, Added({name}, Own))
          /\ pulled' \in {pulled, pulled \cup {name}}
  /\ last' = Other
  /\ UNCHANGED <<running, configServerRunning, manager, routed, fs, files,
                 wanted, skipped, promised>>

\* Mutant of AddFile: the manager does not pull the file source again.
AddFileOnly(p) ==
  LET taken == disk[p] # "missing" /\ (p \in files[fs] \/ disk[p] = "good")
  IN /\ Call /\ fs # Nobody /\ manager
     /\ files' = IF taken THEN [files EXCEPT ![fs] = @ \cup {p}] ELSE files
     /\ promised' = IF taken THEN promised \cup {p} ELSE promised
     /\ last' = Other
     /\ UNCHANGED <<running, configServerRunning, manager, sources, pulled,
                    routed, fs, wanted, skipped>>

\* A file that fs has listed is not read again.  Refresh pulls the file source
\* that the manager has, whichever it is.
AddFile(p) ==
  LET taken == disk[p] # "missing" /\ (p \in files[fs] \/ disk[p] = "good")
      refreshed == taken /\ FileSource \in DOMAIN sources
  IN /\ Call /\ fs # Nobody /\ manager
     /\ files' = IF taken THEN [files EXCEPT ![fs] = @ \cup {p}] ELSE files
     /\ routed' = IF refreshed THEN routed \cup files'[sources[FileSource]]
                  ELSE routed
     /\ promised' = IF refreshed THEN promised \cup {p} ELSE promised
     /\ last' = Other
     /\ UNCHANGED <<running, configServerRunning, manager, sources, pulled, fs,
                    wanted, skipped>>

\* Manager.Cleanup empties the sources and forgets none; configServerRunning
\* stays.
Clean ==
  /\ Call /\ manager
  /\ files' = [object \in Object |->
                 IF /\ FileSource \in DOMAIN sources
                    /\ sources[FileSource] = object
                 THEN {} ELSE files[object]]
  /\ running' = FALSE
  /\ wanted' = {} /\ skipped' = {} /\ promised' = {}
  /\ last' = Other
  /\ UNCHANGED <<configServerRunning, manager, sources, pulled, routed, fs>>

Next ==
  \/ Change \/ IgnoredInit \/ Clean
  \/ \E o \in Options : InitFilesFail(o) \/ InitArchaius(o)
  \/ \E names \in CustomList : CustomInit(names)
  \/ \E provider \in Provider, info \in Info : EnableRemoteSource(provider, info)
  \/ \E name \in BuiltIn : AddSource(name)
  \/ \E p \in Path : AddFile(p)

Spec == Init /\ [][Next]_lifeVars

-----------------------------------------------------------------------------
\* The variables hold values of their types.
TypeOK ==
  /\ DOMAIN sources \subseteq Name /\ pulled \subseteq DOMAIN sources
  /\ \A n \in DOMAIN sources : sources[n] \in Object
  /\ fs \in Object /\ files \in [Object -> SUBSET Path]
  /\ skipped \subseteq wanted /\ wanted \subseteq Name
  /\ (running \/ sources # NewManager => manager)

\* A file that Init or AddFile has taken, and reported no error for, is in the
\* file source that the manager reads, and the manager has its keys - unless
\* that file source is not the package's (CustomInit).
FilesServed ==
  FileSource \in DOMAIN sources /\ sources[FileSource] = fs =>
    promised \subseteq routed \cap files[fs]

\* While archaius runs every source that Init was asked for is registered and
\* has been pulled, but for a remote source that was left out because of
\* configServerRunning.
RunningHasAll == running => wanted \ skipped \subseteq pulled

\* Whatever failed before, an Init ends well of which all files are there, and
\* whose remote source is not asked for or can be reached ("after you call
\* Clean, you can init archaius again").
FreshStart == last.call = "Init" /\ last.able => running
=============================================================================
