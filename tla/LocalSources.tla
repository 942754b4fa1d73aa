---------------------------- MODULE LocalSources ----------------------------
(***************************************************************************)
(* The sources that read files.  They keep the same kind of state, so the  *)
(* files, the table and the goroutines are declared once (WatchedFiles)    *)
(* and the source under test is drawn in the first state: the file source  *)
(* of archaius.Init, or a configmap source that the application adds.      *)
(***************************************************************************)
EXTENDS WatchedFiles

CONSTANTS ConfigMapName, MapPriority, ConfigMapSourcePriority, Contains

ASSUME ConfigMapAssumption ==
  /\ MapPriority \subseteq 0..MaxUint32
  /\ ConfigMapSourcePriority \in 0..MaxUint32
  /\ Contains \subseteq Path \X Path

VARIABLES kind,    \* the source under test, "file" or "configmap"
          adding,  \* of the file source
          adds, walk,
          tied

localVars == <<tableVars, kind, adding, adds, walk, tied>>

File == INSTANCE FileSource
ConfigMap == INSTANCE ConfigMapSource WITH Name <- ConfigMapName,
                                           Priority <- MapPriority

InitFile ==
  /\ kind = "file" /\ File!Init
  /\ walk = [g \in Goroutine |-> ConfigMap!NoWalk] /\ tied = {}

InitConfigMap ==
  kind = "configmap" /\ ConfigMap!Init /\ adding = File!NoJob

ByFile(A) == kind = "file" /\ A /\ UNCHANGED <<kind, walk, tied>>

ByConfigMap(A) == kind = "configmap" /\ A /\ UNCHANGED <<kind, adding>>

Init == InitFile \/ InitConfigMap

Next == ByFile(File!Next) \/ ByConfigMap(ConfigMap!Next)

GoesOn(g) == ByFile(File!GoesOn(g)) \/ ByConfigMap(ConfigMap!GoesOn(g))

\* A goroutine that is at work goes on.  Nothing changes a file, and nothing
\* calls the source.
Fairness == \A g \in Goroutine : WF_localVars(GoesOn(g))

Spec == Init /\ [][Next]_localVars /\ Fairness

-----------------------------------------------------------------------------
\* The variables hold values of their types.
LocalTypeOK == IF kind = "file" THEN File!TypeOK ELSE ConfigMap!TypeOK

\* A key that no two files ever had at once has the value its file was last
\* found to contain, and is gone when the file has lost it.
SoleFileRules ==
  IF kind = "file" THEN File!SoleFileRules ELSE ConfigMap!SoleFileRules

\* Between changes the Manager has been told exactly the values the source
\* has, for the keys on which two goroutines did not fire at once and, in the
\* configmap source, no tie of two files was last; in the file source up to
\* Cleanup.
ToldAll == IF kind = "file" THEN File!ToldAll ELSE ConfigMap!ToldAll

TellsChanges ==
  IF kind = "file" THEN File!ChangeIsTold ELSE ConfigMap!ChangeIsTold

\* Every change of a value in the source is among the events that go out with
\* it, a tie in the configmap source excepted, and every event is about the
\* value the source then has.
ChangesAreTold == [][TellsChanges]_localVars

\* What comes into the source, and what is told, is the content of a file that
\* is listed at the time: a file that was read before Cleanup and compared after
\* it brings nothing back, unless AddFile has listed the file again.
NothingUnlisted == [][OfListedFiles]_localVars

\* The source has the content of every file whose last change happened under
\* its watch; the configmap source also of one that has appeared in the
\* directory.
Reloaded == IF kind = "file" THEN File!HasReloaded ELSE ConfigMap!HasFound

\* Nothing is left of what fsnotify told, or of what a goroutine has read.
AtRest ==
  /\ notices = {} /\ walk[Watcher] = ConfigMap!NoWalk
  /\ \A g \in Goroutine : reading[g] = NoReading

\* When the files stop changing, the source ends up with their content.
Reloads == <>[]Reloaded
=============================================================================
