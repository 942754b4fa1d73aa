----------------------------- MODULE Unmarshal -----------------------------
(***************************************************************************)
(* source/unmarshal.go: Manager.Unmarshal walks over the type of an object *)
(* and asks the Manager for the value of every key it comes to, one by     *)
(* one, while the configuration may change.  A key, and the place of the   *)
(* object it fills, is the sequence of the names that lead to it.  Fields  *)
(* of basic types, structs, pointers and maps are modelled; not slices,    *)
(* pointers to pointers and fields tagged ",inline".                       *)
(***************************************************************************)
EXTENDS Sequences, SequencesExt, FiniteSets, Integers

CONSTANTS Name,       \* names of fields and of entries of maps
          Key,        \* keys of the configuration
          Value,      \* its values: a type, "int" or "string", and a number
          None,       \* the key is not configured
          NoNumber,   \* what a string that is no number reads as
          Type,       \* types of objects
          Place,      \* for each of them, the places its fields and entries
                      \* may have: path, type, and whether a map is above it
          Before,     \* for each of them, what its objects may hold at first
          MaxChanges  \* bound on the changes of the configuration

VARIABLES config,   \* the configuration
          type,     \* the type of the object
          frames,   \* the object and what is being built for it, the innermost
                    \* last: its place, what it holds and what the walk has
                    \* still to do in it, the next first
          result,   \* "running", "ok" or "error"
          had,      \* history: values each key had during the call
          before,   \* history: the object at first
          changes   \* changes of the configuration

vars == <<config, type, frames, result, had, before, changes>>

\* The object: place to what it holds.
object == frames[1].holds

Basic(kind) == [kind |-> kind]
Struct(fields) == [kind |-> "struct", fields |-> fields]
PtrTo(t) == [kind |-> "ptr", to |-> t]
MapOf(t) == [kind |-> "map", to |-> t]

\* What the object holds at a place of no basic type.
Mark(kind) == [type |-> kind]

IsBasic(t) == t.kind \in {"string", "int8", "interface"}

\* An object that holds nothing; what one holds with x at a place.
Nothing == [p \in {} |-> p]
With(holds, path, x) ==
  [p \in DOMAIN holds \cup {path} |-> IF p = path THEN x ELSE holds[p]]

GetConfig(path) == IF path \in Key THEN config[path] ELSE None

KeysUnder(path) == {k \in Key : IsStrictPrefix(path, k)}

\* Mutant of Truncate: a number too large is set as it is.
KeepNumber(n) == n

\* reflect's SetInt keeps the low bits.
Truncate(n) == ((n + 128) % 256) - 128

\* toRvalueType: a string that is no number counts as 0.
ToRvalueType(v, t) ==
  CASE t.kind = "int8" ->
         [type |-> "int8", n |-> IF v.n = NoNumber THEN 0 ELSE Truncate(v.n)]
    [] t.kind = "string" -> [type |-> "string", n |-> v.n]

\* It converts to no interface.
Converts(t) == t.kind # "interface"

\* The fields that handleStruct fills: it returns at the first that is ignored.
FieldsFilled(fields) ==
  LET ignored == {i \in DOMAIN fields : fields[i].tag = "-"}
  IN IF ignored = {} THEN Len(fields) ELSE Min(ignored) - 1

\* The place of the entry that key k makes in a map of type t at path.
EntryPath(path, t, k) ==
  IF IsBasic(t) THEN k ELSE SubSeq(k, 1, Len(path) + 1)

\* The places that come of a place: of the fields of a struct, of what a
\* pointer points to, of the entries of a map.
Parts(place) ==
  CASE place.type.kind = "struct" ->
         {[path |-> Append(place.path, place.type.fields[i].tag),
           type |-> place.type.fields[i].type, inMap |-> place.inMap] :
             i \in 1..FieldsFilled(place.type.fields)}
    [] place.type.kind = "ptr" -> {[place EXCEPT !.type = place.type.to]}
    [] place.type.kind = "map" ->
         {[path |-> EntryPath(place.path, place.type.to, k),
           type |-> place.type.to, inMap |-> TRUE] : k \in KeysUnder(place.path)}
    [] IsBasic(place.type) -> {}

\* What an object may hold at a place: the mark of its type or a value, in a
\* map that is the whole object also a value as it is configured.
Marks == {Mark(kind) : kind \in {"pointer", "map", "struct"}}
BasicValue == [type : {"int8"}, n : -128..127]
         \cup [type : {"string"}, n : Int \cup {NoNumber}]
Content == Marks \cup Value \cup BasicValue

ASSUME UnmarshalAssumption ==
  /\ Key \subseteq Seq(Name) /\ <<>> \notin Key
  /\ Value \subseteq [type : {"int", "string"}, n : Int \cup {NoNumber}]
  /\ NoNumber \notin Int /\ None \notin Value
  /\ MaxChanges \in Nat

\* A type has finitely many fields, and Place has every place that comes of it.
ASSUME TypeAssumption ==
  \A t \in Type :
    /\ [path |-> <<>>, type |-> t, inMap |-> FALSE] \in Place[t]
    /\ \A place \in Place[t] :
         /\ place = [path |-> place.path, type |-> place.type,
                     inMap |-> place.inMap]
         /\ place.path \in Seq(Name) /\ place.inMap \in BOOLEAN
         /\ IsBasic(place.type) \/ place.type.kind \in {"struct", "ptr", "map"}
         /\ place.type.kind = "struct" =>
              /\ Len(place.type.fields) \in Nat
              /\ DOMAIN place.type.fields = 1..Len(place.type.fields)
         /\ place.type.kind = "ptr" => place.type.to.kind # "ptr"
         /\ Parts(place) \subseteq Place[t]

\* A walk to a place of this type and path gets to the path goal.
Reaches(t, path, goal) == IF IsBasic(t) THEN path = goal ELSE IsPrefix(path, goal)

\* A path leads to one place, but for a pointer and what it points to, and all
\* there is under a struct comes of its fields.
ASSUME PathAssumption ==
  \A t \in Type : \A goal \in Place[t] :
    IsBasic(goal.type) \/ goal.type.kind = "map" =>
      /\ Reaches(t, <<>>, goal.path)
      /\ \A place \in Place[t] : Reaches(place.type, place.path, goal.path) =>
           /\ IsBasic(place.type) => goal.type = place.type
           /\ place.type.kind = "map" =>
                goal.type = place.type \/ goal.path # place.path
           /\ place.type.kind \in {"struct", "ptr"} =>
                \E part \in Parts(place) : Reaches(part.type, part.path, goal.path)

\* An object has the maps its type has: no field of it is in one of them.
ASSUME ObjectAssumption ==
  \A t \in Type : \A obj \in Before[t] :
    /\ obj \in [DOMAIN obj -> Content]
    /\ \A p \in DOMAIN obj :
         /\ p \in Seq(Name)
         /\ \A place \in Place[t] :
              obj[p] = Mark("map") /\ IsStrictPrefix(p, place.path) => place.inMap

-----------------------------------------------------------------------------
(***************************************************************************)
(* The walk.                                                               *)
(***************************************************************************)
Fill(t, path) == [do |-> "fill", type |-> t, path |-> path]

\* The innermost frame, and what is to be done next in it.
Top == frames[Len(frames)]
Task == Head(Top.todo)

Now(do) == result = "running" /\ Top.todo # <<>> /\ Task.do = do

NowFill(kind) == Now("fill") /\ Task.type.kind = kind

\* The innermost frame holds what is given; tasks take the place of the first.
Write(holds, tasks) ==
  frames' = [frames EXCEPT ![Len(frames)] =
               [Top EXCEPT !.holds = holds, !.todo = tasks \o Tail(@)]]

Then(tasks) == Write(Top.holds, tasks)

\* Something new is built for a place; tasks fill it, and later go on.
Build(path, holds, tasks, later) ==
  frames' = Append([frames EXCEPT ![Len(frames)].todo = later \o Tail(@)],
                   [path |-> path, holds |-> holds, todo |-> tasks])

\* Any error, or a panic that unmarshal recovers from, ends the call; what was
\* being built for the object is lost.
Fail ==
  /\ result' = "error"
  /\ frames' = <<[frames[1] EXCEPT !.todo = <<>>]>>
  /\ UNCHANGED <<config, type, had, before, changes>>

\* The walk goes on.
Quiet == UNCHANGED <<config, type, result, had, before, changes>>

\* Mutant of SetValue: a key that is not configured is an error.
SetValueOrFail ==
  /\ Now("fill") /\ IsBasic(Task.type)
  /\ LET v == GetConfig(Task.path)
     IN \/ (v = None \/ ~Converts(Task.type)) /\ Fail
        \/ /\ v # None /\ Converts(Task.type)
           /\ Write(With(Top.holds, Task.path, ToRvalueType(v, Task.type)), <<>>)
           /\ Quiet

\* setValue: a field whose key is not configured keeps what it holds.
SetValue ==
  /\ Now("fill") /\ IsBasic(Task.type)
  /\ LET v == GetConfig(Task.path)
     IN \/ v = None /\ Then(<<>>) /\ Quiet
        \/ v # None /\ ~Converts(Task.type) /\ Fail
        \/ /\ v # None /\ Converts(Task.type)
           /\ Write(With(Top.holds, Task.path, ToRvalueType(v, Task.type)), <<>>)
           /\ Quiet

HandleStruct ==
  /\ NowFill("struct")
  /\ LET fields == Task.type.fields
     IN Then([i \in 1..FieldsFilled(fields) |->
                Fill(fields[i].type, Append(Task.path, fields[i].tag))])
  /\ Quiet

\* handlePtr: what a nil pointer is to point to is built first.
HandlePtr ==
  /\ NowFill("ptr")
  /\ LET fill == Fill(Task.type.to, Task.path)
     IN \/ Task.path \in DOMAIN Top.holds /\ Then(<<fill>>)
        \/ /\ Task.path \notin DOMAIN Top.holds
           /\ Build(Task.path, With(Nothing, Task.path, Mark("pointer")), <<fill>>, <<>>)
  /\ Quiet

\* handleMap calls Configs, which asks for one key after the other.
HandleMap ==
  /\ NowFill("map")
  /\ Then(<<[do |-> "configs", type |-> Task.type.to, path |-> Task.path,
             left |-> Key, found |-> Nothing]>>)
  /\ Quiet

Configs(k) ==
  /\ Now("configs") /\ k \in Task.left
  /\ Then(<<[Task EXCEPT
               !.left = @ \ {k},
               !.found = IF config[k] = None THEN @ ELSE With(@, k, config[k])]>>)
  /\ Quiet

NowHasAll == Now("configs") /\ Task.left = {}

\* A map that is the whole object is given all of them, if they fit its type.
WholeMap ==
  /\ NowHasAll /\ Task.path = <<>>
  /\ \/ Converts(Task.type) /\ Fail
     \/ ~Converts(Task.type) /\ Write(Task.found, <<>>) /\ Quiet

\* The entries of the map are still to be made.
Entries ==
  [do |-> "entries", type |-> Task.type, path |-> Task.path,
   keys |-> KeysUnder(Task.path) \cap DOMAIN Task.found]

\* Mutant of PopulateMap: the entries are added to the map of the object.
PopulateOldMap ==
  /\ NowHasAll /\ Task.path # <<>>
  /\ Write(With(Top.holds, Task.path, Mark("map")), <<Entries>>)
  /\ Quiet

\* populateMap builds a new map.
PopulateMap ==
  /\ NowHasAll /\ Task.path # <<>>
  /\ Build(Task.path, With(Nothing, Task.path, Mark("map")), <<Entries>>, <<>>)
  /\ Quiet

\* The keys that are left after k.
Rest(k) == [Task EXCEPT !.keys = @ \ {k}]

\* Mutant of BasicEntry: a key that is gone by now is given the zero value.
ZeroIfGone(k) ==
  /\ Now("entries") /\ k \in Task.keys /\ IsBasic(Task.type)
  /\ LET v == GetConfig(k)
         zero == [type |-> Task.type.kind, n |-> 0]
         new == IF v = None THEN zero ELSE ToRvalueType(v, Task.type)
     IN \/ ~Converts(Task.type) /\ Fail
        \/ /\ Converts(Task.type)
           /\ Write(With(Top.holds, k, new), <<Rest(k)>>)
           /\ Quiet

\* The values are asked for again: reflect panics on one that is gone by now.
BasicEntry(k) ==
  /\ Now("entries") /\ k \in Task.keys /\ IsBasic(Task.type)
  /\ LET v == GetConfig(k)
     IN \/ (v = None \/ ~Converts(Task.type)) /\ Fail
        \/ /\ v # None /\ Converts(Task.type)
           /\ Write(With(Top.holds, k, ToRvalueType(v, Task.type)), <<Rest(k)>>)
           /\ Quiet

\* An entry of another type is built for every key under it, anew each time.  A
\* pointer is filled by handlePtr and once more by unmarshal.
OtherEntry(k) ==
  /\ Now("entries") /\ k \in Task.keys /\ ~IsBasic(Task.type)
  /\ LET mapKey == EntryPath(Task.path, Task.type, k)
         fill == Fill(Task.type, mapKey)
         zero == IF Task.type.kind = "struct"
                 THEN With(Nothing, mapKey, Mark("struct")) ELSE Nothing
         fills == IF Task.type.kind = "ptr" THEN <<fill, fill>> ELSE <<fill>>
     IN Build(mapKey, zero, fills, <<Rest(k)>>)
  /\ Quiet

EndOfMap == Now("entries") /\ Task.keys = {} /\ Then(<<>>) /\ Quiet

\* Mutant of Replace: what base had there stays beside it.
Merge(base, path, new) ==
  [q \in DOMAIN new \cup DOMAIN base |-> IF q \in DOMAIN new THEN new[q] ELSE base[q]]

\* What base holds once what it has under path is replaced by new.
Replace(base, path, new) ==
  [q \in DOMAIN new \cup {p \in DOMAIN base : ~IsPrefix(path, p)} |->
     IF q \in DOMAIN new THEN new[q] ELSE base[q]]

\* Set, of a pointer or a map, or SetMapIndex: what was built takes its place.
KeepBuilt ==
  /\ result = "running" /\ Top.todo = <<>> /\ Len(frames) > 1
  /\ LET last == Len(frames) - 1
     IN frames' = [SubSeq(frames, 1, last) EXCEPT
                     ![last].holds = Replace(@, Top.path, Top.holds)]
  /\ Quiet

Return ==
  /\ result = "running" /\ Top.todo = <<>> /\ Len(frames) = 1
  /\ result' = "ok"
  /\ UNCHANGED <<config, type, frames, had, before, changes>>

-----------------------------------------------------------------------------
Init ==
  /\ config \in [Key -> Value \cup {None}]
  /\ type \in Type
  /\ before \in Before[type]
  /\ frames = <<[path |-> <<>>, holds |-> before, todo |-> <<Fill(type, <<>>)>>]>>
  /\ result = "running"
  /\ had = [k \in Key |-> {config[k]}]
  /\ changes = 0

\* An event changes the value of a key, or a pull does.
Change(k, v) ==
  /\ result = "running" /\ changes < MaxChanges /\ config[k] # v
  /\ config' = [config EXCEPT ![k] = v]
  /\ had' = [had EXCEPT ![k] = @ \cup {v}]
  /\ changes' = changes + 1
  /\ UNCHANGED <<type, frames, result, before>>

Step ==
  \/ SetValue \/ HandleStruct \/ HandlePtr \/ HandleMap \/ WholeMap
  \/ PopulateMap \/ EndOfMap \/ KeepBuilt \/ Return
  \/ \E k \in Key : Configs(k) \/ BasicEntry(k) \/ OtherEntry(k)

\* Nothing is left to do: the only place where the walk may stop.
Done == result # "running" /\ UNCHANGED vars

Next == Step \/ (\E k \in Key, v \in Value \cup {None} : Change(k, v)) \/ Done

Spec == Init /\ [][Next]_vars

-----------------------------------------------------------------------------
\* The variables hold values of their types; a call that has ended has nothing
\* left to do.
TypeOK ==
  /\ config \in [Key -> Value \cup {None}]
  /\ type \in Type
  /\ object \in [DOMAIN object -> Content]
  /\ result \in {"running", "ok", "error"}
  /\ result # "running" => Len(frames) = 1 /\ Top.todo = <<>>
  /\ \A k \in Key : config[k] \in had[k] /\ had[k] \subseteq Value \cup {None}
  /\ changes \in 0..MaxChanges

Steady(k) == had[k] = {config[k]}

\* The places of basic types in an object, up to the first ignored field of
\* each struct.
Leaves == {place \in Place[type] : IsBasic(place.type)}

Fits(value, kind, v) ==
  /\ value.type = kind
  /\ kind = "string" => value.n = v.n
  /\ kind = "int8" => /\ value.n \in -128..127
                      /\ IF v.n = NoNumber THEN value.n = 0
                         ELSE (value.n - v.n) % 256 = 0

\* The type of the map that is the whole object, if it is one.
WholeTypes ==
  {place.type : place \in {p \in Place[type] :
                             p.path = <<>> /\ p.type.kind = "map"}}

\* If the configuration does not change meanwhile, an object filled without an
\* error has in each place what is configured for it; a field with nothing
\* configured keeps what it had, a map has nothing else.  (The fields after an
\* ignored one are no such places: handleStruct never gets to them.)
FilledAsConfigured ==
  result = "ok" /\ WholeTypes = {} /\ (\A k \in Key : Steady(k)) =>
    LET set == {p \in DOMAIN object : object[p] \notin Marks}
    IN /\ \A leaf \in Leaves :
            GetConfig(leaf.path) # None =>
              /\ leaf.path \in set
              /\ Fits(object[leaf.path], leaf.type.kind, config[leaf.path])
       /\ \A p \in set :
            GetConfig(p) = None \/ p \notin {leaf.path : leaf \in Leaves} =>
              /\ p \in DOMAIN before /\ object[p] = before[p]
              /\ \A place \in Place[type] :
                   place.type.kind = "map" => ~IsPrefix(place.path, p)

\* Whatever changes meanwhile, and however the call ends, the object holds no
\* value but those it had and those its keys had during the call.
NothingInvented ==
  \A p \in DOMAIN object : object[p] \notin Marks =>
    \/ p \in DOMAIN before /\ object[p] = before[p]
    \/ p \in Key /\ \E v \in had[p] \ {None} :
                      object[p] = v \/ Fits(object[p], object[p].type, v)

Under(obj, path) == {p \in DOMAIN obj : IsStrictPrefix(path, p)}

\* A map of the object is never seen half filled: it is as it was, or it has
\* an entry for, or on the way to, every key that was configured throughout the
\* call.  (In a map of basic types a shorter key's entry stands for the longer.)
MapsComplete ==
  \A q \in DOMAIN object : object[q] = Mark("map") =>
    \/ Under(object, q) = Under(before, q)
    \/ \A k \in KeysUnder(q) : None \notin had[k] =>
         \E p \in Under(object, q) : IsPrefix(p, k)

\* A call ends with an error only if the type asks for a conversion there is
\* none for, or a key that was configured during the call is gone at its end.
ErrorsAreDue ==
  result = "error" =>
    \/ \E t \in WholeTypes : t.to.kind # "interface"
    \/ \E k \in Key : config[k] = None /\ ~(had[k] \subseteq {None})
    \/ \E leaf \in Leaves :
         /\ leaf.type.kind = "interface"
         /\ leaf.path \in Key /\ had[leaf.path] # {None}
=============================================================================
