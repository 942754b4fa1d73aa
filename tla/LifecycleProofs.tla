--------------------------- MODULE LifecycleProofs --------------------------
(***************************************************************************)
(* Proofs about Lifecycle, for all files, providers, sources and bounds.   *)
(***************************************************************************)
EXTENDS Lifecycle, TLAPS

USE LifecycleAssumption

\* What the invariants rest on: fs is a file source of the package, never one
\* of the application's own, and the calls are within their bound.
Bounds == calls \in 0..MaxCalls /\ fs \in 0..MaxCalls

IInv == Bounds /\ TypeOK /\ FilesServed /\ RunningHasAll /\ FreshStart

-----------------------------------------------------------------------------
(***************************************************************************)
(* Lemmas about the helpers.                                               *)
(***************************************************************************)

\* Sources that are added change no other, and have the object given.
LEMMA WithAdded ==
  ASSUME NEW f, NEW names, NEW object
  PROVE  /\ DOMAIN With(f, Added(names, object)) = DOMAIN f \cup names
         /\ \A n \in names : With(f, Added(names, object))[n] = object
         /\ \A n \in DOMAIN f \ names : With(f, Added(names, object))[n] = f[n]
BY DEF With, Added

\* A new manager has no source.
LEMMA NewManagerEmpty == DOMAIN NewManager = {}
BY DEF NewManager

\* Numbers of file sources.
LEMMA Numbers ==
  /\ 0..MaxCalls \subseteq Object /\ Own \in Object /\ Own \notin 0..MaxCalls
  /\ Nobody \in 0..MaxCalls
BY DEF Object, Own, Nobody

\* A call leaves the number of calls within its bound, and gives a new file
\* source its number.
LEMMA CallBounds ==
  ASSUME Bounds, Call
  PROVE  calls' \in 0..MaxCalls
BY DEF Bounds, Call

-----------------------------------------------------------------------------
\* The initial states have the invariant.
THEOREM InitIInv == Init => IInv
<1> SUFFICES ASSUME Init PROVE IInv
  OBVIOUS
<1>1. Bounds
  BY Numbers DEF Init, Bounds
<1>2. TypeOK
  BY Numbers DEF Init, TypeOK, NewManager, Nobody
<1>3. FilesServed /\ RunningHasAll
  BY DEF Init, FilesServed, RunningHasAll
<1>4. FreshStart
  BY DEF Init, FreshStart, Other
<1> QED BY <1>1, <1>2, <1>3, <1>4 DEF IInv

\* Init keeps the invariant when initFileSource fails: the new manager has no
\* source that could serve or be asked for.
LEMMA InitFilesFailStep ==
  ASSUME IInv, NEW o \in Options, InitFilesFail(o)
  PROVE  IInv'
<1>1. /\ calls' \in 0..MaxCalls /\ fs' = calls' /\ ~running' /\ manager' = TRUE
      /\ sources' = NewManager /\ pulled' = {} /\ promised' = {}
      /\ wanted' = {} /\ skipped' = {}
  BY CallBounds DEF IInv, InitFilesFail
<1>2. files' \in [Object -> SUBSET Path]
  <2>1. PICK some \in SUBSET {p \in o.required \cup o.optional : disk[p] = "good"} :
          files' = [files EXCEPT ![fs'] = some]
    BY DEF InitFilesFail
  <2>2. some \subseteq Path
    BY <2>1 DEF Options
  <2> QED BY <2>1, <2>2 DEF IInv, TypeOK
<1>3. Bounds' /\ TypeOK'
  BY <1>1, <1>2, NewManagerEmpty, Numbers DEF Bounds, TypeOK, NewManager
<1>4. FilesServed' /\ RunningHasAll'
  BY <1>1, NewManagerEmpty DEF FilesServed, RunningHasAll, NewManager
<1>5. FreshStart'
  <2>1. FilesFail(o) /\ last' = InitCall(o)
    BY DEF InitFilesFail
  <2>2. ~last'.able
    BY <2>1 DEF InitCall
  <2> QED BY <2>2 DEF FreshStart
<1> QED BY <1>3, <1>4, <1>5 DEF IInv

\* The outcomes of EnableRemoteSource, and when it is sure to end well.
LEMMA Outcomes ==
  ASSUME NEW provider, NEW info, NEW registered
  PROVE  /\ RemoteOutcome(provider, info, registered)
              \in {"refused", "skipped", "enabled", "pull failed"}
         /\ /\ provider \in Installed /\ info = "valid" /\ online
            /\ provider \notin registered
            => RemoteOutcome(provider, info, registered)
                 \in {"skipped", "enabled"}
BY DEF RemoteOutcome

\* Init past the files keeps the invariant.
LEMMA InitArchaiusStep ==
  ASSUME IInv, NEW o \in Options, InitArchaius(o)
  PROVE  IInv'
<1> DEFINE found == {p \in o.required \cup o.optional : disk[p] = "good"}
           remote == IF o.remote = NoProvider THEN "none"
                     ELSE RemoteOutcome(o.remote, o.info, DOMAIN NewManager)
           fails == \/ remote \in {"refused", "pull failed"}
                    \/ DOMAIN NewManager \cap ({FileSource} \cup o.uses) # {}
           names == {FileSource} \cup (IF fails THEN {} ELSE o.uses) \cup
                    (IF remote = "enabled" THEN {o.remote} ELSE {})
           registered == names \cup
                         (IF remote = "pull failed" THEN {o.remote} ELSE {})
<1>1. /\ calls' \in 0..MaxCalls /\ fs' = calls' /\ manager' = TRUE
      /\ files' = [files EXCEPT ![fs'] = found]
      /\ sources' = With(NewManager, Added(registered, fs'))
      /\ pulled' = names /\ routed' = found /\ running' = ~fails
      /\ wanted' = IF fails THEN {}
                   ELSE {FileSource} \cup o.uses \cup ({o.remote} \ {NoProvider})
      /\ skipped' = IF remote = "skipped" THEN {o.remote} ELSE {}
      /\ promised' = IF fails THEN {} ELSE found
      /\ last' = InitCall(o)
  BY CallBounds DEF IInv, InitArchaius
<1>2. /\ o.required \cup o.optional \subseteq Path /\ o.uses \subseteq BuiltIn
      /\ o.remote \in Provider \cup {NoProvider}
  BY DEF Options
<1>3. remote \in {"none", "refused", "skipped", "enabled", "pull failed"}
  BY Outcomes
<1>4. o.remote = NoProvider <=> remote = "none"
  BY Outcomes
<1> HIDE DEF found, remote, fails, names, registered
<1>5. names \subseteq registered /\ registered \subseteq Name /\ FileSource \in names
  BY <1>2, <1>4 DEF names, registered, Name
<1>6. /\ DOMAIN sources' = registered
      /\ \A n \in registered : sources'[n] = fs'
  <2> DEFINE added == With(NewManager, Added(registered, fs'))
  <2>1. DOMAIN added = DOMAIN NewManager \cup registered
    BY WithAdded
  <2>2. \A n \in registered : added[n] = fs'
    BY DEF With, Added
  <2> QED BY <1>1, <2>1, <2>2, NewManagerEmpty
<1>7. found \subseteq Path /\ fs' \in Object
  BY <1>1, <1>2, Numbers DEF found
<1>8. files' \in [Object -> SUBSET Path] /\ files'[fs'] = found
  BY <1>1, <1>7 DEF IInv, TypeOK
<1>9. Bounds' /\ TypeOK'
  <2>1. skipped' \subseteq wanted' /\ wanted' \subseteq Name
    BY <1>1, <1>2, <1>4, NewManagerEmpty DEF Name, fails
  <2> QED BY <1>1, <1>5, <1>6, <1>7, <1>8, <2>1 DEF Bounds, TypeOK
<1>10. FilesServed'
  BY <1>1, <1>8 DEF FilesServed
<1>11. RunningHasAll'
  <2> SUFFICES ASSUME ~fails PROVE wanted' \ skipped' \subseteq pulled'
    BY <1>1 DEF RunningHasAll
  <2> QED BY <1>1, <1>3, <1>4 DEF fails, names
<1>12. FreshStart'
  <2> SUFFICES ASSUME last'.able PROVE ~fails
    BY <1>1 DEF FreshStart
  <2>1. \/ o.remote = NoProvider
        \/ o.remote \in Installed /\ o.info = "valid" /\ online
    BY <1>1 DEF InitCall
  <2>2. remote \in {"none", "skipped", "enabled"}
    <3>1. CASE o.remote = NoProvider
      BY <3>1 DEF remote
    <3>2. CASE o.remote # NoProvider
      <4>1. remote = RemoteOutcome(o.remote, o.info, DOMAIN NewManager)
        BY <3>2 DEF remote
      <4> QED BY <2>1, <3>2, <4>1, NewManagerEmpty DEF RemoteOutcome
    <3> QED BY <3>1, <3>2
  <2> QED BY <2>2, NewManagerEmpty DEF fails
<1> QED BY <1>9, <1>10, <1>11, <1>12 DEF IInv

\* CustomInit keeps it: the sources are the application's own, none is fs.
LEMMA CustomInitStep ==
  ASSUME IInv, NEW given \in CustomList, CustomInit(given)
  PROVE  IInv'
<1>1. /\ calls' \in 0..MaxCalls /\ manager' = TRUE /\ promised' = {}
      /\ skipped' = {} /\ last' = Other /\ fs' = fs /\ files' = files
  BY CallBounds DEF IInv, CustomInit
<1>2. given \subseteq Name
  BY DEF Name
<1>3. PICK set \in SUBSET given :
        /\ sources' = Added(set, Own) /\ pulled' \subseteq set
        /\ wanted' \in {{}, given} /\ (running' => wanted' \subseteq pulled')
  <2>1. PICK done \in SUBSET given :
          /\ pulled' = done
          /\ \/ done = given /\ sources' = Added(done, Own) /\ wanted' = given
             \/ \E failed \in given \ done :
                  sources' = Added(done \cup {failed}, Own) /\ wanted' = {}
    BY DEF CustomInit
  <2>2. CASE sources' = Added(done, Own) /\ done = given /\ wanted' = given
    BY <2>1, <2>2
  <2>3. CASE \E failed \in given \ done :
               sources' = Added(done \cup {failed}, Own) /\ wanted' = {}
    <3>1. PICK failed \in given \ done :
            sources' = Added(done \cup {failed}, Own) /\ wanted' = {}
      BY <2>3
    <3> QED BY <2>1, <3>1
  <2> QED BY <2>1, <2>2, <2>3
<1>4. DOMAIN sources' = set /\ \A n \in set : sources'[n] = Own
  BY <1>3 DEF Added
<1>5. Bounds' /\ TypeOK'
  BY <1>1, <1>2, <1>3, <1>4, Numbers DEF IInv, Bounds, TypeOK
<1>6. FilesServed' /\ RunningHasAll' /\ FreshStart'
  BY <1>1, <1>3 DEF FilesServed, RunningHasAll, FreshStart, Other
<1> QED BY <1>5, <1>6 DEF IInv

\* A call that adds a source under another name than that of the file source,
\* or none, and changes no file, keeps it.
LEMMA AddedSource ==
  ASSUME IInv, Call, manager, NEW name \in Name \ {FileSource},
         sources' \in {sources, With(sources, Added({name}, Own))},
         pulled' \in {pulled, pulled \cup {name}},
         pulled' # pulled => sources' # sources,
         last' = Other,
         UNCHANGED <<running, manager, routed, fs, files, wanted, skipped,
                     promised>>
  PROVE  IInv'
<1>1. /\ sources' # sources => DOMAIN sources' = DOMAIN sources \cup {name}
      /\ \A n \in DOMAIN sources' : sources'[n] \in Object
      /\ FileSource \in DOMAIN sources' =>
           FileSource \in DOMAIN sources /\ sources'[FileSource] = sources[FileSource]
  <2>1. CASE sources' = sources
    BY <2>1 DEF IInv, TypeOK
  <2>2. CASE sources' = With(sources, Added({name}, Own))
    BY <2>2, Numbers DEF IInv, TypeOK, With, Added
  <2> QED BY <2>1, <2>2
<1>2. calls' \in 0..MaxCalls
  BY CallBounds DEF IInv
<1>3. Bounds' /\ TypeOK'
  BY <1>1, <1>2 DEF IInv, Bounds, TypeOK
<1>4. FilesServed'
  BY <1>1 DEF IInv, FilesServed
<1>5. RunningHasAll' /\ FreshStart'
  BY DEF IInv, RunningHasAll, FreshStart, Other
<1> QED BY <1>3, <1>4, <1>5 DEF IInv

\* AddFile keeps it: what is promised has been listed and pulled.
LEMMA AddFileStep ==
  ASSUME IInv, NEW p \in Path, AddFile(p)
  PROVE  IInv'
<1>1. calls' \in 0..MaxCalls
  BY CallBounds DEF IInv, AddFile
<1>2. /\ files' \in {files, [files EXCEPT ![fs] = @ \cup {p}]}
      /\ last' = Other
      /\ UNCHANGED <<running, manager, sources, pulled, fs, wanted, skipped>>
  BY DEF AddFile
<1>3. files' \in [Object -> SUBSET Path] /\ files[fs] \subseteq files'[fs]
  BY <1>2 DEF IInv, TypeOK
<1>4. Bounds' /\ TypeOK'
  BY <1>1, <1>2, <1>3 DEF IInv, Bounds, TypeOK
<1>5. FilesServed'
  <2> SUFFICES ASSUME FileSource \in DOMAIN sources, sources[FileSource] = fs
               PROVE  promised' \subseteq routed' \cap files'[fs]
    BY <1>2 DEF FilesServed
  <2>1. promised \subseteq routed \cap files[fs]
    BY DEF IInv, FilesServed
  <2>2. CASE promised' = promised /\ routed' = routed
    BY <1>3, <2>1, <2>2
  <2>3. CASE /\ files' = [files EXCEPT ![fs] = @ \cup {p}]
             /\ routed' = routed \cup files'[fs]
             /\ promised' = promised \cup {p}
    <3>1. p \in files'[fs]
      BY <2>3 DEF IInv, TypeOK
    <3> QED BY <1>3, <2>1, <2>3, <3>1
  <2> QED BY <2>2, <2>3 DEF AddFile
<1>6. RunningHasAll' /\ FreshStart'
  BY <1>2 DEF IInv, RunningHasAll, FreshStart, Other
<1> QED BY <1>4, <1>5, <1>6 DEF IInv

\* Clean keeps it: nothing runs, and nothing is promised.
LEMMA CleanStep ==
  ASSUME IInv, Clean
  PROVE  IInv'
<1>1. calls' \in 0..MaxCalls
  BY CallBounds DEF IInv, Clean
<1>2. files' \in [Object -> SUBSET Path]
  BY DEF IInv, TypeOK, Clean
<1>3. Bounds' /\ TypeOK'
  BY <1>1, <1>2 DEF IInv, Bounds, TypeOK, Clean
<1>4. FilesServed' /\ RunningHasAll' /\ FreshStart'
  BY DEF FilesServed, RunningHasAll, FreshStart, Clean, Other
<1> QED BY <1>3, <1>4 DEF IInv

\* Every step has a place above.
THEOREM NextIInv == IInv /\ [Next]_lifeVars => IInv'
<1> SUFFICES ASSUME IInv, [Next]_lifeVars PROVE IInv'
  OBVIOUS
<1>1. CASE Change \/ UNCHANGED lifeVars
  BY <1>1 DEF Change, packageVars, lifeVars, IInv, Bounds, TypeOK, FilesServed,
              RunningHasAll, FreshStart
<1>2. CASE IgnoredInit
  <2>1. calls' \in 0..MaxCalls
    BY <1>2, CallBounds DEF IInv, IgnoredInit
  <2> QED BY <1>2, <2>1 DEF IgnoredInit, packageVars, IInv, Bounds, TypeOK,
             FilesServed, RunningHasAll, FreshStart, Other
<1>3. CASE Clean
  BY <1>3, CleanStep
<1>4. CASE \E o \in Options : InitFilesFail(o) \/ InitArchaius(o)
  BY <1>4, InitFilesFailStep, InitArchaiusStep
<1>5. CASE \E given \in CustomList : CustomInit(given)
  BY <1>5, CustomInitStep
<1>6. CASE \E provider \in Provider, info \in Info : EnableRemoteSource(provider, info)
  <2>1. PICK provider \in Provider, info \in Info : EnableRemoteSource(provider, info)
    BY <1>6
  <2>2. provider \in Name \ {FileSource}
    BY DEF Name
  <2>3. RemoteOutcome(provider, info, DOMAIN sources) = "enabled" =>
          provider \notin DOMAIN sources
    BY DEF RemoteOutcome
  <2>4. provider \notin DOMAIN sources =>
          With(sources, Added({provider}, Own)) # sources
    <3>1. DOMAIN With(sources, Added({provider}, Own)) = DOMAIN sources \cup {provider}
      BY DEF With, Added
    <3> QED BY <3>1
  <2> QED BY <2>1, <2>2, <2>3, <2>4, AddedSource DEF EnableRemoteSource
<1>7. CASE \E name \in BuiltIn : AddSource(name)
  <2>1. PICK name \in BuiltIn : AddSource(name)
    BY <1>7
  <2>2. name \in Name \ {FileSource}
    BY DEF Name
  <2>3. name \notin DOMAIN sources => With(sources, Added({name}, Own)) # sources
    <3>1. DOMAIN With(sources, Added({name}, Own)) = DOMAIN sources \cup {name}
      BY DEF With, Added
    <3> QED BY <3>1
  <2> QED BY <2>1, <2>2, <2>3, AddedSource DEF AddSource
<1>8. CASE \E p \in Path : AddFile(p)
  BY <1>8, AddFileStep
<1> QED BY <1>1, <1>2, <1>3, <1>4, <1>5, <1>6, <1>7, <1>8 DEF Next

\* The invariant holds of every behaviour.
THEOREM Invariance == Spec => []IInv
BY InitIInv, NextIInv, PTL DEF Spec

\* The state of the package keeps its types, for any files and sources.
THEOREM TypeCorrect == Spec => []TypeOK
<1>1. IInv => TypeOK
  BY DEF IInv
<1> QED BY <1>1, Invariance, PTL

\* Whatever calls fail and in whatever order they come, a file that was taken is
\* in the file source the manager reads, and has been pulled.
THEOREM PromisedFilesServed == Spec => []FilesServed
<1>1. IInv => FilesServed
  BY DEF IInv
<1> QED BY <1>1, Invariance, PTL

\* While archaius runs, the sources Init was asked for are there and pulled.
THEOREM RunningComplete == Spec => []RunningHasAll
<1>1. IInv => RunningHasAll
  BY DEF IInv
<1> QED BY <1>1, Invariance, PTL

\* Nothing that happened before can make an Init fail that has all it needs.
THEOREM InitCanBeRetried == Spec => []FreshStart
<1>1. IInv => FreshStart
  BY DEF IInv
<1> QED BY <1>1, Invariance, PTL
=============================================================================
