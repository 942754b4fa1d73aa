--------------------------- MODULE UnmarshalProofs --------------------------
(***************************************************************************)
(* Proofs about Unmarshal, for all types, keys, values and objects.        *)
(***************************************************************************)
EXTENDS Unmarshal, TLAPS, SequenceTheorems, WellFoundedInduction

Path == Seq(Name)

-----------------------------------------------------------------------------
(***************************************************************************)
(* Lemmas about paths.                                                     *)
(***************************************************************************)

LEMMA LengthOfPath ==
  ASSUME NEW s \in Path
  PROVE  Len(s) \in Nat /\ (Len(s) = 0 <=> s = <<>>)
BY LenProperties, EmptySeq DEF Path

LEMMA RootIsPath == <<>> \in Path /\ Len(<<>>) = 0
BY EmptySeq DEF Path

\* What is left of a path cut after its first l names.
LEMMA CutPath ==
  ASSUME NEW s \in Path, NEW l \in 0..Len(s)
  PROVE  /\ SubSeq(s, 1, l) \in Path
         /\ Len(SubSeq(s, 1, l)) = l
         /\ \A i \in 1..l : SubSeq(s, 1, l)[i] = s[i]
<1>1. \A i \in 1..l : s[i] \in Name
  BY ElementOfSeq DEF Path
<1>2. 1 \in Int /\ l \in Int /\ l - 1 + 1 = l
  BY LenProperties DEF Path
<1>3. /\ SubSeq(s, 1, l) \in Seq(Name)
      /\ Len(SubSeq(s, 1, l)) = IF 1 <= l THEN l - 1 + 1 ELSE 0
      /\ \A i \in 1..l - 1 + 1 : SubSeq(s, 1, l)[i] = s[1 + i - 1]
  BY <1>1, <1>2, SubSeqProperties
<1> QED BY <1>2, <1>3 DEF Path

\* One path is a prefix of another when it has the same names as far as it
\* goes.
LEMMA PrefixMeans ==
  ASSUME NEW s \in Path, NEW t \in Path
  PROVE  IsPrefix(s, t) <=>
           Len(s) <= Len(t) /\ \A i \in 1..Len(s) : s[i] = t[i]
<1>1. Len(s) \in Nat /\ Len(t) \in Nat
  BY LengthOfPath
<1>2. SubSeq(s, 1, Len(s)) = s
  BY SubSeqFull DEF Path
<1>3. CASE Len(s) <= Len(t)
  <2>1. Len(s) \in 0..Len(t)
    BY <1>1, <1>3
  <2> DEFINE c == SubSeq(t, 1, Len(s))
  <2>2. c \in Seq(Name) /\ Len(c) = Len(s) /\ \A i \in 1..Len(s) : c[i] = t[i]
    BY <2>1, CutPath DEF Path
  <2> HIDE DEF c
  <2>3. (\A i \in 1..Len(s) : s[i] = t[i]) => s = c
    BY <2>2, SeqEqual DEF Path
  <2>4. IsPrefix(s, t) <=> s = c
    BY <1>2, <1>3 DEF IsPrefix, c
  <2> QED BY <1>3, <2>2, <2>3, <2>4
<1>4. CASE ~(Len(s) <= Len(t))
  BY <1>4 DEF IsPrefix
<1> QED BY <1>3, <1>4

LEMMA PrefixItself ==
  ASSUME NEW s \in Path
  PROVE  IsPrefix(s, s) /\ IsPrefix(<<>>, s)
<1>1. Len(s) \in Nat /\ <<>> \in Path /\ Len(<<>>) = 0
  BY LengthOfPath, RootIsPath
<1>2. IsPrefix(s, s)
  BY <1>1, PrefixMeans
<1>3. IsPrefix(<<>>, s)
  BY <1>1, PrefixMeans
<1> QED BY <1>2, <1>3

LEMMA PrefixOfRoot ==
  ASSUME NEW s \in Path, IsPrefix(s, <<>>)
  PROVE  s = <<>>
<1>1. Len(s) \in Nat /\ (Len(s) = 0 <=> s = <<>>)
  BY LengthOfPath
<1>2. Len(s) <= Len(<<>>)
  BY DEF IsPrefix
<1> QED BY <1>1, <1>2, RootIsPath

LEMMA PrefixTransitive ==
  ASSUME NEW s \in Path, NEW t \in Path, NEW u \in Path,
         IsPrefix(s, t), IsPrefix(t, u)
  PROVE  IsPrefix(s, u)
<1>1. Len(s) \in Nat /\ Len(t) \in Nat /\ Len(u) \in Nat
  BY LengthOfPath
<1>2. Len(s) <= Len(t) /\ \A i \in 1..Len(s) : s[i] = t[i]
  BY PrefixMeans
<1>3. Len(t) <= Len(u) /\ \A i \in 1..Len(t) : t[i] = u[i]
  BY PrefixMeans
<1>4. Len(s) <= Len(u) /\ \A i \in 1..Len(s) : s[i] = u[i]
  BY <1>1, <1>2, <1>3
<1> QED BY <1>4, PrefixMeans

LEMMA PrefixAntisymmetric ==
  ASSUME NEW s \in Path, NEW t \in Path, IsPrefix(s, t), IsPrefix(t, s)
  PROVE  s = t
<1>1. Len(s) \in Nat /\ Len(t) \in Nat
  BY LengthOfPath
<1>2. Len(s) <= Len(t) /\ \A i \in 1..Len(s) : s[i] = t[i]
  BY PrefixMeans
<1>3. Len(t) <= Len(s)
  BY PrefixMeans
<1> QED BY <1>1, <1>2, <1>3, SeqEqual DEF Path

\* Of two prefixes of a path one is a prefix of the other.
LEMMA PrefixesAreNested ==
  ASSUME NEW s \in Path, NEW t \in Path, NEW u \in Path,
         IsPrefix(s, u), IsPrefix(t, u)
  PROVE  IsPrefix(s, t) \/ IsPrefix(t, s)
<1>1. Len(s) \in Nat /\ Len(t) \in Nat
  BY LengthOfPath
<1>2. \A i \in 1..Len(s) : s[i] = u[i]
  BY PrefixMeans
<1>3. \A i \in 1..Len(t) : t[i] = u[i]
  BY PrefixMeans
<1>4. CASE Len(s) <= Len(t)
  BY <1>1, <1>2, <1>3, <1>4, PrefixMeans
<1>5. CASE Len(t) <= Len(s)
  BY <1>1, <1>2, <1>3, <1>5, PrefixMeans
<1> QED BY <1>1, <1>4, <1>5

\* A place under another that is no place of itself cannot be above it.
LEMMA StrictPrefix ==
  ASSUME NEW s \in Path, NEW t \in Path
  PROVE  IsStrictPrefix(s, t) <=> IsPrefix(s, t) /\ ~IsPrefix(t, s)
BY PrefixAntisymmetric, PrefixItself DEF IsStrictPrefix

LEMMA AppendPath ==
  ASSUME NEW s \in Path, NEW x, Append(s, x) \in Path
  PROVE  IsPrefix(s, Append(s, x))
<1> DEFINE t == Append(s, x)
<1>1. Len(s) \in Nat /\ Len(t) = Len(s) + 1 /\ t \in Path
  BY LengthOfPath, LenProperties DEF Path
<1>2. \A i \in 1..Len(s) : t[i] = s[i]
  BY <1>1, LenProperties DEF Path
<1> HIDE DEF t
<1>3. IsPrefix(s, t)
  BY <1>1, <1>2, PrefixMeans
<1> QED BY <1>3 DEF t

\* An entry of a map is under the map, and above the key it is made for.
LEMMA EntryIsUnderMap ==
  ASSUME NEW path \in Path, NEW t, NEW k \in KeysUnder(path)
  PROVE  /\ EntryPath(path, t, k) \in Path
         /\ IsStrictPrefix(path, EntryPath(path, t, k))
         /\ IsPrefix(EntryPath(path, t, k), k)
<1>1. k \in Path /\ IsStrictPrefix(path, k)
  BY UnmarshalAssumption DEF KeysUnder, Path
<1>2. CASE IsBasic(t)
  BY <1>1, <1>2, PrefixItself DEF EntryPath
<1>3. CASE ~IsBasic(t)
  <2> DEFINE l == Len(path) + 1
             e == SubSeq(k, 1, l)
  <2>1. Len(path) \in Nat /\ Len(k) \in Nat
    BY <1>1, LengthOfPath
  <2>2. Len(path) <= Len(k) /\ \A i \in 1..Len(path) : path[i] = k[i]
    BY <1>1, PrefixMeans DEF IsStrictPrefix
  <2>3. Len(path) # Len(k)
    BY <1>1, <2>1, <2>2, SeqEqual DEF IsStrictPrefix, Path
  <2>4. l \in 0..Len(k)
    BY <2>1, <2>2, <2>3
  <2>5. e \in Path /\ Len(e) = l /\ \A i \in 1..l : e[i] = k[i]
    BY <1>1, <2>4, CutPath
  <2> HIDE DEF e
  <2>6. IsPrefix(e, k)
    BY <1>1, <2>1, <2>4, <2>5, PrefixMeans
  <2>7. IsPrefix(path, e) /\ path # e
    BY <2>1, <2>2, <2>5, PrefixMeans
  <2> QED BY <1>3, <2>5, <2>6, <2>7 DEF EntryPath, IsStrictPrefix, e
<1> QED BY <1>2, <1>3

-----------------------------------------------------------------------------
(***************************************************************************)
(* Lemmas about values, objects and tasks.                                 *)
(***************************************************************************)

\* What an object, or what is being built for one, may hold.
Holds == UNION {[D -> Content] : D \in SUBSET Path}

LEMMA HoldsMeans ==
  ASSUME NEW h
  PROVE  h \in Holds <=> h \in [DOMAIN h -> Content] /\ DOMAIN h \subseteq Path
<1>1. ASSUME h \in Holds
      PROVE  h \in [DOMAIN h -> Content] /\ DOMAIN h \subseteq Path
  <2>1. PICK D \in SUBSET Path : h \in [D -> Content]
    BY <1>1 DEF Holds
  <2> QED BY <2>1
<1>2. ASSUME h \in [DOMAIN h -> Content], DOMAIN h \subseteq Path
      PROVE  h \in Holds
  BY <1>2 DEF Holds
<1> QED BY <1>1, <1>2

LEMMA NothingHolds == Nothing \in Holds /\ DOMAIN Nothing = {}
<1>1. Nothing \in [{} -> Content] /\ DOMAIN Nothing = {}
  BY DEF Nothing
<1> QED BY <1>1, HoldsMeans

LEMMA WithHolds ==
  ASSUME NEW h \in Holds, NEW p \in Path, NEW x \in Content
  PROVE  /\ With(h, p, x) \in Holds
         /\ DOMAIN With(h, p, x) = DOMAIN h \cup {p}
         /\ With(h, p, x)[p] = x
         /\ \A q \in DOMAIN h \ {p} : With(h, p, x)[q] = h[q]
<1> DEFINE w == With(h, p, x)
<1>1. /\ DOMAIN w = DOMAIN h \cup {p} /\ w[p] = x
      /\ \A q \in DOMAIN h \ {p} : w[q] = h[q]
      /\ w = [q \in DOMAIN w |-> w[q]]
  BY DEF With
<1>2. h \in [DOMAIN h -> Content] /\ DOMAIN h \subseteq Path
  BY HoldsMeans
<1> HIDE DEF w
<1>3. w \in [DOMAIN w -> Content]
  BY <1>1, <1>2
<1>4. w \in Holds
  BY <1>1, <1>2, <1>3, HoldsMeans
<1> QED BY <1>1, <1>4 DEF w

LEMMA ReplaceHolds ==
  ASSUME NEW h \in Holds, NEW p \in Path, NEW new \in Holds
  PROVE  LET r == Replace(h, p, new)
         IN /\ r \in Holds
            /\ DOMAIN r = DOMAIN new \cup {q \in DOMAIN h : ~IsPrefix(p, q)}
            /\ \A q \in DOMAIN new : r[q] = new[q]
            /\ \A q \in DOMAIN r \ DOMAIN new : r[q] = h[q]
<1> DEFINE r == Replace(h, p, new)
<1>1. /\ DOMAIN r = DOMAIN new \cup {q \in DOMAIN h : ~IsPrefix(p, q)}
      /\ \A q \in DOMAIN new : r[q] = new[q]
      /\ \A q \in DOMAIN r \ DOMAIN new : r[q] = h[q]
      /\ r = [q \in DOMAIN r |-> r[q]]
  BY DEF Replace
<1>2. /\ h \in [DOMAIN h -> Content] /\ DOMAIN h \subseteq Path
      /\ new \in [DOMAIN new -> Content] /\ DOMAIN new \subseteq Path
  BY HoldsMeans
<1> HIDE DEF r
<1>3. r \in [DOMAIN r -> Content]
  BY <1>1, <1>2
<1>4. r \in Holds
  BY <1>1, <1>2, <1>3, HoldsMeans
<1> QED BY <1>1, <1>4 DEF r

\* A value that is converted is a basic value that fits the one it was made of.
LEMMA Converted ==
  ASSUME NEW v \in Value, NEW t, IsBasic(t), Converts(t)
  PROVE  LET x == ToRvalueType(v, t)
         IN x \in BasicValue /\ Fits(x, x.type, v) /\ x.type = t.kind
<1>1. v.n \in Int \cup {NoNumber} /\ NoNumber \notin Int
  BY UnmarshalAssumption
<1>2. CASE t.kind = "int8"
  <2> DEFINE n == IF v.n = NoNumber THEN 0 ELSE Truncate(v.n)
  <2>1. /\ n \in -128..127
        /\ IF v.n = NoNumber THEN n = 0 ELSE (n - v.n) % 256 = 0
    BY <1>1 DEF Truncate
  <2>2. ToRvalueType(v, t) = [type |-> "int8", n |-> n]
    BY <1>2 DEF ToRvalueType
  <2> HIDE DEF n
  <2> QED BY <1>2, <2>1, <2>2 DEF BasicValue, Fits
<1>3. CASE t.kind = "string"
  <2>1. ToRvalueType(v, t) = [type |-> "string", n |-> v.n]
    BY <1>3 DEF ToRvalueType
  <2> QED BY <1>1, <1>3, <2>1 DEF BasicValue, Fits
<1> QED BY <1>2, <1>3 DEF IsBasic, Converts

\* No value is a mark.
LEMMA ValuesAreNoMarks ==
  /\ \A x \in BasicValue : x \notin Marks /\ x # Mark("map")
  /\ \A x \in Value : x \notin Marks /\ x # Mark("map")
<1>1. \A x \in Marks : x.type \in {"pointer", "map", "struct"}
  BY DEF Marks, Mark
<1>2. Mark("map") \in Marks
  BY DEF Marks
<1>3. \A x \in BasicValue : x.type \in {"int8", "string"}
  BY DEF BasicValue
<1>4. \A x \in Value : x.type \in {"int", "string"}
  BY UnmarshalAssumption
<1> QED BY <1>1, <1>2, <1>3, <1>4

LEMMA LeastNumber ==
  ASSUME NEW S, S \subseteq Nat, S # {}
  PROVE  Min(S) \in S
<1> DEFINE R == OpToRel(<, Nat)
<1>1. IsWellFoundedOn(R, Nat)
  BY NatLessThanWellFounded
<1> HIDE DEF R
<1>2. PICK m \in S : \A k \in S : ~(<<k, m>> \in R)
  BY <1>1, WFMin, Zenon
<1>3. \A k \in S : ~(k < m)
  BY <1>2 DEF R, OpToRel
<1>4. \E x \in S : \A y \in S : x <= y
  BY <1>3
<1> QED BY <1>4 DEF Min

LEMMA FieldsAreCounted ==
  ASSUME NEW fields, Len(fields) \in Nat, DOMAIN fields = 1..Len(fields)
  PROVE  FieldsFilled(fields) \in Nat
<1> DEFINE ignored == {i \in DOMAIN fields : fields[i].tag = "-"}
<1>1. CASE ignored = {}
  BY <1>1 DEF FieldsFilled
<1>2. CASE ignored # {}
  <2>1. ignored \subseteq Nat \ {0}
    OBVIOUS
  <2>2. FieldsFilled(fields) = Min(ignored) - 1
    BY <1>2 DEF FieldsFilled
  <2> HIDE DEF ignored
  <2>3. Min(ignored) \in ignored
    BY <1>2, <2>1, LeastNumber
  <2>4. PICK m \in Nat \ {0} : m = Min(ignored)
    BY <2>1, <2>3
  <2>5. FieldsFilled(fields) = m - 1
    BY <2>2, <2>4
  <2> QED BY <2>5
<1> QED BY <1>1, <1>2

\* The first task goes, others take its place.
LEMMA AfterHead ==
  ASSUME NEW S, NEW todo \in Seq(S), todo # <<>>, NEW tasks \in Seq(S)
  PROVE  LET new == tasks \o Tail(todo)
         IN /\ new \in Seq(S)
            /\ Range(new) \subseteq Range(tasks) \cup Range(todo)
            /\ Range(tasks) \cup (Range(todo) \ {Head(todo)}) \subseteq Range(new)
            /\ Head(todo) \in Range(todo)
<1> DEFINE rest == Tail(todo)
           new == tasks \o rest
<1>1. /\ Len(todo) \in Nat \ {0} /\ DOMAIN todo = 1..Len(todo)
      /\ Len(tasks) \in Nat /\ DOMAIN tasks = 1..Len(tasks)
  BY LenProperties, EmptySeq
<1>2. /\ rest \in Seq(S) /\ Len(rest) = Len(todo) - 1
      /\ \A i \in 1..Len(rest) : rest[i] = todo[i + 1]
      /\ Head(todo) = todo[1]
  BY HeadTailProperties
<1>3. /\ new \in Seq(S) /\ Len(new) = Len(tasks) + Len(rest)
      /\ \A i \in 1..Len(tasks) + Len(rest) :
           new[i] = IF i <= Len(tasks) THEN tasks[i] ELSE rest[i - Len(tasks)]
  BY <1>2, ConcatProperties
<1>4. DOMAIN new = 1..Len(new)
  BY <1>3, LenProperties
<1> HIDE DEF new, rest
<1>5. ASSUME NEW i \in DOMAIN new
      PROVE  new[i] \in Range(tasks) \cup Range(todo)
  <2>1. CASE i <= Len(tasks)
    BY <1>1, <1>2, <1>3, <1>4, <2>1 DEF Range
  <2>2. CASE ~(i <= Len(tasks))
    <3>1. i - Len(tasks) \in 1..Len(rest) /\ i - Len(tasks) + 1 \in DOMAIN todo
      BY <1>1, <1>2, <1>3, <1>4, <2>2
    <3>2. new[i] = todo[i - Len(tasks) + 1]
      BY <1>1, <1>2, <1>3, <1>4, <2>2, <3>1
    <3> QED BY <3>1, <3>2 DEF Range
  <2> QED BY <2>1, <2>2
<1>6. ASSUME NEW i \in DOMAIN tasks
      PROVE  tasks[i] \in Range(new)
  BY <1>1, <1>2, <1>3, <1>4 DEF Range
<1>7. ASSUME NEW i \in DOMAIN todo, todo[i] # Head(todo)
      PROVE  todo[i] \in Range(new)
  <2>1. i # 1
    BY <1>2, <1>7
  <2>2. PICK j \in Nat : j = Len(tasks) + (i - 1)
    BY <1>1
  <2>3. /\ j \in DOMAIN new /\ ~(j <= Len(tasks))
        /\ j - Len(tasks) = i - 1 /\ i - 1 \in 1..Len(rest)
    BY <1>1, <1>2, <1>3, <1>4, <2>1, <2>2
  <2>4. new[j] = rest[i - 1]
    BY <1>3, <1>4, <2>3
  <2>5. rest[i - 1] = todo[i]
    BY <1>1, <1>2, <2>3
  <2> QED BY <2>3, <2>4, <2>5 DEF Range
<1>8. Head(todo) \in Range(todo)
  BY <1>1, <1>2 DEF Range
<1> QED BY <1>3, <1>5, <1>6, <1>7, <1>8 DEF Range, new, rest

LEMMA ShortTasks ==
  ASSUME NEW S
  PROVE  /\ <<>> \in Seq(S) /\ Range(<<>>) = {}
         /\ \A x \in S : <<x>> \in Seq(S) /\ Range(<<x>>) = {x}
         /\ \A x \in S : <<x, x>> \in Seq(S) /\ Range(<<x, x>>) = {x}
BY DEF Range

-----------------------------------------------------------------------------
(***************************************************************************)
(* The inductive invariant.                                                *)
(***************************************************************************)

AnyType == UNION {{place.type, place.type.to} : place \in UNION {Place[t] : t \in Type}}

\* What a frame is.
FillTask == [do : {"fill"}, type : AnyType, path : Path]
ConfigsTask ==
  [do : {"configs"}, type : AnyType, path : Path, left : SUBSET Key,
   found : UNION {[D -> Value] : D \in SUBSET Key}]
EntriesTask == [do : {"entries"}, type : AnyType, path : Path, keys : SUBSET Key]
AnyTask == FillTask \cup ConfigsTask \cup EntriesTask
Frame == [path : Path, holds : Holds, todo : Seq(AnyTask)]

Types ==
  /\ config \in [Key -> Value \cup {None}]
  /\ type \in Type /\ before \in Before[type]
  /\ frames \in Seq(Frame) /\ Len(frames) > 0
  /\ result \in {"running", "ok", "error"}
  /\ result # "running" => Len(frames) = 1 /\ Top.todo = <<>>
  /\ had \in [Key -> SUBSET (Value \cup {None})]
  /\ \A k \in Key : config[k] \in had[k]
  /\ changes \in 0..MaxChanges

\* What is still to be done in a frame.
Pending(i) == Range(frames[i].todo)

\* The places in the type of the object that a task is about: of what it fills,
\* or of the map it makes the entries of.
PlacesOf(task) ==
  {place \in Place[type] :
     /\ place.path = task.path
     /\ task.do = "fill" => place.type = task.type
     /\ task.do # "fill" => place.type.kind = "map" /\ place.type.to = task.type}

\* A task is about a place of the object.  Configs has found values the keys
\* had, and all the keys that were configured throughout; an entry is made for
\* a key under the map that was configured at some time.
TaskFits(task) ==
  /\ PlacesOf(task) # {}
  /\ task.do = "configs" =>
       /\ \A k \in DOMAIN task.found : task.found[k] \in had[k]
       /\ \A k \in Key \ task.left : None \notin had[k] => k \in DOMAIN task.found
  /\ task.do = "entries" =>
       \A k \in task.keys : IsStrictPrefix(task.path, k) /\ ~(had[k] \subseteq {None})

TasksFit == \A i \in 1..Len(frames) : \A task \in Pending(i) : TaskFits(task)

\* In the object itself nothing in a map is filled, and no entries are made:
\* both are done in frames of their own.
Direct ==
  /\ \A task \in Pending(1) :
       task.do # "entries" /\ \E place \in PlacesOf(task) : ~place.inMap
  /\ Len(frames) > 1 =>
       \E place \in Place[type] : place.path = frames[2].path /\ ~place.inMap

\* A value that key p had during the call, as it is or converted.
Heard(p, x) ==
  p \in Key /\ \E v \in had[p] \ {None} : x = v \/ Fits(x, x.type, v)

\* Every frame holds only what was heard, the object also what it had.
OnlyHeard ==
  \A i \in 1..Len(frames) : \A p \in DOMAIN frames[i].holds :
    frames[i].holds[p] \notin Marks =>
      \/ i = 1 /\ p \in DOMAIN before /\ frames[1].holds[p] = before[p]
      \/ Heard(p, frames[i].holds[p])

\* What is in a frame, or is still to be done in it, is under its path.
Nested ==
  /\ frames[1].path = <<>>
  /\ \A i \in 1..Len(frames) :
       /\ \A p \in DOMAIN frames[i].holds : IsPrefix(frames[i].path, p)
       /\ \A task \in Pending(i) : IsPrefix(frames[i].path, task.path)
       /\ i < Len(frames) => IsPrefix(frames[i].path, frames[i + 1].path)

\* A task that will put something at its own path.
Makes(task) ==
  \/ task.do = "fill" /\ task.type.kind \in {"ptr", "map"}
  \/ task.do = "configs"

\* What is built for a place has something at that place before it is kept.
Rooted ==
  \A i \in 2..Len(frames) :
    \/ frames[i].path = <<>>
    \/ frames[i].path \in DOMAIN frames[i].holds
    \/ \E task \in Pending(i) : task.path = frames[i].path /\ Makes(task)
    \/ i < Len(frames) /\ frames[i + 1].path = frames[i].path

\* Key k has its entry in the map at q of a frame, or will have it: the entry
\* is being built, or is still to be made.
HasEntry(i, q, k) == \E p \in Under(frames[i].holds, q) : IsPrefix(p, k)

WillHaveEntry(i, q, k) ==
  \/ /\ i < Len(frames)
     /\ IsStrictPrefix(q, frames[i + 1].path) /\ IsPrefix(frames[i + 1].path, k)
  \/ \E task \in Pending(i) :
       task.do = "entries" /\ task.path = q /\ k \in task.keys

\* The map at q of the object is the one it had at first.
IsOld(q) ==
  /\ q \in DOMAIN before /\ before[q] = Mark("map")
  /\ Under(frames[1].holds, q) = Under(before, q)

MapsGrow ==
  \A i \in 1..Len(frames) : \A q \in DOMAIN frames[i].holds :
    frames[i].holds[q] = Mark("map") =>
      \/ i = 1 /\ IsOld(q)
      \/ \A k \in KeysUnder(q) : None \notin had[k] =>
           HasEntry(i, q, k) \/ (i > 1 /\ WillHaveEntry(i, q, k))

UnmarshalInv ==
  /\ Types
  /\ TasksFit
  /\ Direct
  /\ OnlyHeard
  /\ Nested
  /\ Rooted
  /\ MapsGrow
  /\ ErrorsAreDue

-----------------------------------------------------------------------------
(***************************************************************************)
(* What the steps do to the frames.                                        *)
(***************************************************************************)

LEMMA TopIsFrame ==
  ASSUME Types
  PROVE  /\ Len(frames) \in Nat \ {0} /\ DOMAIN frames = 1..Len(frames)
         /\ \A i \in 1..Len(frames) : frames[i] \in Frame
         /\ Top = frames[Len(frames)] /\ Top \in Frame
<1>1. /\ Len(frames) \in Nat /\ DOMAIN frames = 1..Len(frames)
      /\ \A i \in 1..Len(frames) : frames[i] \in Frame
  BY LenProperties, ElementOfSeq DEF Types
<1>2. Len(frames) \in 1..Len(frames)
  BY <1>1 DEF Types
<1> QED BY <1>1, <1>2 DEF Top

LEMMA TaskIsPending ==
  ASSUME Types, Top.todo # <<>>
  PROVE  Task \in Pending(Len(frames)) /\ Task \in AnyTask
<1>1. Top.todo \in Seq(AnyTask) /\ Top = frames[Len(frames)]
  BY TopIsFrame DEF Frame
<1>2. Head(Top.todo) \in Range(Top.todo)
  BY <1>1, AfterHead, ShortTasks
<1>3. Head(Top.todo) \in AnyTask
  BY <1>1, HeadTailProperties
<1> QED BY <1>1, <1>2, <1>3 DEF Task, Pending

LEMMA PendingTasks ==
  ASSUME Types, NEW i \in 1..Len(frames)
  PROVE  Pending(i) \subseteq AnyTask
<1>1. frames[i].todo \in Seq(AnyTask)
  BY TopIsFrame DEF Frame
<1>2. \A j \in DOMAIN frames[i].todo : frames[i].todo[j] \in AnyTask
  BY <1>1, ElementOfSeq, LenProperties
<1> QED BY <1>2 DEF Pending, Range

\* The innermost frame after a Write.
Written(holds, tasks) ==
  LET n == Len(frames)
  IN /\ frames' \in Seq(Frame) /\ Len(frames') = n
     /\ \A i \in 1..n - 1 : frames'[i] = frames[i]
     /\ \A i \in 1..n - 1 : Range(frames'[i].todo) = Pending(i)
     /\ frames'[n].path = frames[n].path
     /\ frames'[n].holds = holds
     /\ Range(frames'[n].todo) \subseteq Range(tasks) \cup Pending(n)
     /\ Range(tasks) \cup (Pending(n) \ {Task}) \subseteq Range(frames'[n].todo)

LEMMA WriteFrames ==
  ASSUME Types, Top.todo # <<>>, NEW holds \in Holds,
         NEW tasks \in Seq(AnyTask), Write(holds, tasks)
  PROVE  Written(holds, tasks)
<1> DEFINE n == Len(frames)
           new == tasks \o Tail(Top.todo)
           frame == [Top EXCEPT !.holds = holds, !.todo = new]
<1>1. /\ n \in Nat \ {0} /\ n \in 1..n /\ DOMAIN frames = 1..n
      /\ \A i \in 1..n : frames[i] \in Frame
      /\ Top = frames[n] /\ Top \in Frame
  BY TopIsFrame
<1>2. /\ new \in Seq(AnyTask)
      /\ Range(new) \subseteq Range(tasks) \cup Range(Top.todo)
      /\ Range(tasks) \cup (Range(Top.todo) \ {Task}) \subseteq Range(new)
  BY <1>1, AfterHead DEF Frame, Task
<1>3. frame \in Frame /\ frame.path = Top.path /\ frame.holds = holds /\ frame.todo = new
  BY <1>1, <1>2 DEF Frame
<1>4. frames' = [frames EXCEPT ![n] = frame]
  BY DEF Write
<1> HIDE DEF frame, new
<1>5. /\ frames' \in Seq(Frame) /\ Len(frames') = n
      /\ \A i \in 1..n : frames'[i] = IF i = n THEN frame ELSE frames[i]
  BY <1>1, <1>3, <1>4, ExceptSeq DEF Types
<1>6. frames'[n] = frame
  BY <1>1, <1>5
<1>7. ASSUME NEW i \in 1..n - 1
      PROVE  frames'[i] = frames[i] /\ Range(frames'[i].todo) = Pending(i)
  <2>1. i \in 1..n /\ i # n
    <3>1. n \in Nat
      BY <1>1
    <3> HIDE DEF n
    <3> QED BY <3>1
  <2>2. frames'[i] = frames[i]
    BY <1>5, <2>1
  <2> QED BY <2>2 DEF Pending
<1>8. Range(frames'[n].todo) = Range(new) /\ Pending(n) = Range(Top.todo)
  BY <1>1, <1>3, <1>6 DEF Pending
<1> QED BY <1>1, <1>2, <1>3, <1>5, <1>6, <1>7, <1>8 DEF Written

\* The frames after a Build.
Built(path, holds, tasks, later) ==
  LET n == Len(frames)
  IN /\ frames' \in Seq(Frame) /\ Len(frames') = n + 1
     /\ \A i \in 1..n - 1 : frames'[i] = frames[i]
     /\ \A i \in 1..n - 1 : Range(frames'[i].todo) = Pending(i)
     /\ frames'[n].path = frames[n].path
     /\ frames'[n].holds = frames[n].holds
     /\ Range(frames'[n].todo) \subseteq Range(later) \cup Pending(n)
     /\ Range(later) \cup (Pending(n) \ {Task}) \subseteq Range(frames'[n].todo)
     /\ frames'[n + 1].path = path
     /\ frames'[n + 1].holds = holds
     /\ Range(frames'[n + 1].todo) = Range(tasks)

LEMMA BuildFrames ==
  ASSUME Types, Top.todo # <<>>, NEW path \in Path, NEW holds \in Holds,
         NEW tasks \in Seq(AnyTask), NEW later \in Seq(AnyTask),
         Build(path, holds, tasks, later)
  PROVE  Built(path, holds, tasks, later)
<1> DEFINE n == Len(frames)
           rest == later \o Tail(Top.todo)
           frame == [Top EXCEPT !.todo = rest]
           under == [frames EXCEPT ![n] = frame]
           new == [path |-> path, holds |-> holds, todo |-> tasks]
<1>1. /\ n \in Nat \ {0} /\ n \in 1..n /\ DOMAIN frames = 1..n
      /\ \A i \in 1..n : frames[i] \in Frame
      /\ Top = frames[n] /\ Top \in Frame
  BY TopIsFrame
<1>2. /\ rest \in Seq(AnyTask)
      /\ Range(rest) \subseteq Range(later) \cup Range(Top.todo)
      /\ Range(later) \cup (Range(Top.todo) \ {Task}) \subseteq Range(rest)
  BY <1>1, AfterHead DEF Frame, Task
<1>3. /\ frame \in Frame /\ frame.path = Top.path /\ frame.holds = Top.holds
      /\ frame.todo = rest
  BY <1>1, <1>2 DEF Frame
<1>4. /\ new \in Frame /\ new.path = path /\ new.holds = holds /\ new.todo = tasks
  BY DEF Frame
<1>5. frames' = Append(under, new)
  BY <1>1 DEF Build
<1> HIDE DEF frame, new, rest
<1>6. /\ under \in Seq(Frame) /\ Len(under) = n
      /\ \A i \in 1..n : under[i] = IF i = n THEN frame ELSE frames[i]
  BY <1>1, <1>3, ExceptSeq DEF Types
<1> HIDE DEF under
<1>7. /\ frames' \in Seq(Frame) /\ Len(frames') = n + 1
      /\ \A i \in 1..n : frames'[i] = under[i]
      /\ frames'[n + 1] = new
  BY <1>1, <1>4, <1>5, <1>6, AppendProperties
<1>8. frames'[n] = frame
  BY <1>1, <1>6, <1>7
<1>9. ASSUME NEW i \in 1..n - 1
      PROVE  frames'[i] = frames[i] /\ Range(frames'[i].todo) = Pending(i)
  <2>1. i \in 1..n /\ i # n
    <3>1. n \in Nat
      BY <1>1
    <3> HIDE DEF n
    <3> QED BY <3>1
  <2>2. frames'[i] = frames[i]
    BY <1>6, <1>7, <2>1
  <2> QED BY <2>2 DEF Pending
<1>10. /\ Range(frames'[n].todo) = Range(rest) /\ Pending(n) = Range(Top.todo)
       /\ Range(frames'[n + 1].todo) = Range(tasks)
  BY <1>1, <1>3, <1>4, <1>7, <1>8 DEF Pending
<1> QED BY <1>1, <1>2, <1>3, <1>4, <1>7, <1>8, <1>9, <1>10 DEF Built

\* The frames after KeepBuilt.
Kept ==
  LET n == Len(frames)
  IN /\ n - 1 \in Nat \ {0}
     /\ frames' \in Seq(Frame) /\ Len(frames') = n - 1
     /\ \A i \in 1..n - 2 : frames'[i] = frames[i]
     /\ \A i \in 1..n - 1 : Range(frames'[i].todo) = Pending(i)
     /\ frames'[n - 1].path = frames[n - 1].path
     /\ frames'[n - 1].holds =
          Replace(frames[n - 1].holds, frames[n].path, frames[n].holds)
     /\ Pending(n) = {}

LEMMA KeepFrames ==
  ASSUME Types, KeepBuilt
  PROVE  Kept
<1> DEFINE n == Len(frames)
           cut == SubSeq(frames, 1, n - 1)
           holds == Replace(frames[n - 1].holds, frames[n].path, frames[n].holds)
           frame == [frames[n - 1] EXCEPT !.holds = holds]
<1>1. /\ n \in Nat \ {0} /\ n \in 1..n /\ DOMAIN frames = 1..n
      /\ \A i \in 1..n : frames[i] \in Frame
      /\ Top = frames[n] /\ Top \in Frame
  BY TopIsFrame
<1>2. n > 1 /\ Top.todo = <<>>
  BY DEF KeepBuilt
<1>3. n - 1 \in Nat \ {0} /\ n - 1 \in 1..n /\ n - 1 \in 1..n - 1
  BY <1>1, <1>2
<1>4. holds \in Holds
  BY <1>1, <1>3, ReplaceHolds DEF Frame
<1>5. /\ frame \in Frame /\ frame.path = frames[n - 1].path
      /\ frame.holds = holds /\ frame.todo = frames[n - 1].todo
  BY <1>1, <1>3, <1>4 DEF Frame
<1>6. /\ cut \in Seq(Frame) /\ Len(cut) = n - 1
      /\ \A i \in 1..n - 1 : cut[i] = frames[i]
  <2>1. 1 \in Int /\ n - 1 \in Int /\ 1 <= n - 1 /\ n - 1 - 1 + 1 = n - 1
    BY <1>3
  <2>2. \A i \in 1..n - 1 : frames[i] \in Frame
    BY <1>1, <1>3
  <2>3. /\ cut \in Seq(Frame)
        /\ Len(cut) = IF 1 <= n - 1 THEN n - 1 - 1 + 1 ELSE 0
        /\ \A i \in 1..n - 1 - 1 + 1 : cut[i] = frames[1 + i - 1]
    BY <2>1, <2>2, SubSeqProperties
  <2>4. \A i \in 1..n - 1 : 1 + i - 1 = i
    BY <1>3
  <2> QED BY <2>1, <2>3, <2>4
<1>7. frames' = [cut EXCEPT ![n - 1].holds = Replace(@, Top.path, Top.holds)]
  BY DEF KeepBuilt
<1>8. frames' = [cut EXCEPT ![n - 1] = frame]
  <2>1. cut[n - 1] = frames[n - 1]
    BY <1>3, <1>6
  <2>2. [cut EXCEPT ![n - 1].holds = Replace(@, Top.path, Top.holds)] =
          [cut EXCEPT ![n - 1] = [cut[n - 1] EXCEPT
             !.holds = Replace(cut[n - 1].holds, Top.path, Top.holds)]]
    OBVIOUS
  <2> QED BY <1>1, <1>7, <2>1, <2>2
<1> HIDE DEF cut, frame, holds
<1>9. /\ frames' \in Seq(Frame) /\ Len(frames') = n - 1
      /\ \A i \in 1..n - 1 : frames'[i] = IF i = n - 1 THEN frame ELSE cut[i]
  BY <1>3, <1>5, <1>6, <1>8, ExceptSeq
<1>10. frames'[n - 1] = frame
  BY <1>3, <1>9
<1>11. ASSUME NEW i \in 1..n - 2
       PROVE  i \in 1..n - 1 /\ frames'[i] = frames[i]
  <2>1. i \in 1..n - 1 /\ i # n - 1
    <3>1. n \in Nat
      BY <1>1
    <3> HIDE DEF n
    <3> QED BY <3>1
  <2> QED BY <1>6, <1>9, <2>1
<1>12. ASSUME NEW i \in 1..n - 1
       PROVE  Range(frames'[i].todo) = Pending(i)
  <2>1. i = n - 1 \/ i \in 1..n - 2
    <3>1. n \in Nat
      BY <1>1
    <3> HIDE DEF n
    <3> QED BY <3>1
  <2>2. frames'[i].todo = frames[i].todo
    BY <1>5, <1>10, <1>11, <2>1
  <2> QED BY <2>2 DEF Pending
<1>13. Pending(n) = {}
  BY <1>1, <1>2, ShortTasks DEF Pending
<1> QED BY <1>3, <1>5, <1>9, <1>10, <1>11, <1>12, <1>13 DEF Kept, holds

\* The frames after Fail: the object as it is.
LEMMA FailFrames ==
  ASSUME Types, Fail
  PROVE  /\ frames' \in Seq(Frame) /\ Len(frames') = 1
         /\ frames'[1].path = frames[1].path
         /\ frames'[1].holds = frames[1].holds
         /\ frames'[1].todo = <<>> /\ Range(frames'[1].todo) = {}
<1> DEFINE frame == [frames[1] EXCEPT !.todo = <<>>]
<1>1. frames[1] \in Frame
  BY TopIsFrame
<1>2. /\ frame \in Frame /\ frame.path = frames[1].path
      /\ frame.holds = frames[1].holds /\ frame.todo = <<>>
  BY <1>1, ShortTasks DEF Frame
<1>3. frames' = <<frame>>
  BY DEF Fail
<1> HIDE DEF frame
<1>4. frames' \in Seq(Frame) /\ Len(frames') = 1 /\ frames'[1] = frame
  BY <1>2, <1>3
<1> QED BY <1>2, <1>4, ShortTasks DEF Pending

-----------------------------------------------------------------------------
(***************************************************************************)
(* What keeps the invariant when the innermost frame is changed.           *)
(***************************************************************************)

\* A task for the innermost frame.
Suits(task) ==
  /\ TaskFits(task)
  /\ IsPrefix(Top.path, task.path)
  /\ Len(frames) = 1 =>
       task.do # "entries" /\ \E place \in PlacesOf(task) : ~place.inMap

LEMMA StaysFit ==
  ASSUME type' = type, had' = had, NEW task
  PROVE  PlacesOf(task)' = PlacesOf(task) /\ (TaskFits(task)' <=> TaskFits(task))
<1>1. PlacesOf(task)' = PlacesOf(task)
  BY DEF PlacesOf
<1> QED BY <1>1 DEF TaskFits

LEMMA WriteKeepsTasks ==
  ASSUME Types, TasksFit, Direct, type' = type, had' = had,
         NEW holds, NEW tasks, Written(holds, tasks),
         \A task \in Range(tasks) : Suits(task)
  PROVE  TasksFit' /\ Direct'
<1> USE DEF Written, Pending
<1>1. PICK n \in Nat \ {0} : n = Len(frames)
  BY TopIsFrame
<1>2. ASSUME NEW i \in 1..n, NEW task \in Range(frames'[i].todo)
      PROVE  /\ TaskFits(task)
             /\ i = 1 => /\ task.do # "entries"
                         /\ \E place \in PlacesOf(task) : ~place.inMap
  <2>1. CASE task \in Range(frames[i].todo)
    BY <1>1, <2>1 DEF TasksFit, Direct
  <2>2. CASE i = n /\ task \in Range(tasks)
    BY <1>1, <2>2 DEF Suits
  <2>3. i # n => i \in 1..n - 1
    BY <1>1
  <2> QED BY <1>1, <1>2, <2>1, <2>2, <2>3
<1>3. TasksFit'
  BY <1>1, <1>2, StaysFit DEF TasksFit
<1>4. n > 1 => frames'[2].path = frames[2].path
  <2>1. n > 1 => n = 2 \/ 2 \in 1..n - 1
    BY <1>1
  <2> QED BY <1>1, <2>1
<1>5. Direct'
  <2>1. 1 \in 1..n
    BY <1>1
  <2>2. \A task \in Range(frames'[1].todo) :
          task.do # "entries" /\ \E place \in PlacesOf(task)' : ~place.inMap
    BY <1>2, <2>1, StaysFit
  <2>3. n > 1 => \E place \in Place[type] : place.path = frames'[2].path /\ ~place.inMap
    BY <1>1, <1>4 DEF Direct
  <2> QED BY <1>1, <2>2, <2>3 DEF Direct
<1> QED BY <1>3, <1>5

LEMMA WriteKeepsNested ==
  ASSUME Types, Nested, NEW holds, NEW tasks, Written(holds, tasks),
         \A task \in Range(tasks) : IsPrefix(Top.path, task.path),
         \A p \in DOMAIN holds : IsPrefix(Top.path, p)
  PROVE  Nested'
<1> USE DEF Written, Pending
<1>1. PICK n \in Nat \ {0} : n = Len(frames)
  BY TopIsFrame
<1>2. Top = frames[n]
  BY <1>1 DEF Top
<1>3. \A i \in 1..n : i = n \/ i \in 1..n - 1
  BY <1>1
<1>4. \A i \in 1..n : frames'[i].path = frames[i].path
  BY <1>1, <1>3
<1>5. ASSUME NEW i \in 1..n
      PROVE  /\ \A p \in DOMAIN frames'[i].holds : IsPrefix(frames'[i].path, p)
             /\ \A task \in Range(frames'[i].todo) : IsPrefix(frames'[i].path, task.path)
             /\ i < n => IsPrefix(frames'[i].path, frames'[i + 1].path)
  <2>1. \A p \in DOMAIN frames'[i].holds : IsPrefix(frames'[i].path, p)
    BY <1>1, <1>2, <1>3, <1>4 DEF Nested
  <2>2. \A task \in Range(frames'[i].todo) : IsPrefix(frames'[i].path, task.path)
    BY <1>1, <1>2, <1>3, <1>4 DEF Nested
  <2>3. ASSUME i < n PROVE IsPrefix(frames'[i].path, frames'[i + 1].path)
    <3>1. i + 1 \in 1..n
      BY <1>1, <2>3
    <3> QED BY <1>1, <1>4, <2>3, <3>1 DEF Nested
  <2> QED BY <2>1, <2>2, <2>3
<1>6. frames'[1].path = <<>>
  <2>1. 1 \in 1..n
    BY <1>1
  <2> QED BY <1>4, <2>1 DEF Nested
<1> QED BY <1>1, <1>5, <1>6 DEF Nested

LEMMA WriteKeepsHeard ==
  ASSUME Types, OnlyHeard, had' = had, before' = before,
         NEW holds, NEW tasks, Written(holds, tasks),
         \A p \in DOMAIN holds : holds[p] \notin Marks =>
           \/ Len(frames) = 1 /\ p \in DOMAIN before /\ holds[p] = before[p]
           \/ Heard(p, holds[p])
  PROVE  OnlyHeard'
<1> USE DEF Written
<1>1. PICK n \in Nat \ {0} : n = Len(frames)
  BY TopIsFrame
<1>2. \A i \in 1..n : i = n \/ i \in 1..n - 1
  BY <1>1
<1>3. ASSUME NEW i \in 1..n, NEW p \in DOMAIN frames'[i].holds,
             frames'[i].holds[p] \notin Marks
      PROVE  \/ i = 1 /\ p \in DOMAIN before /\ frames'[1].holds[p] = before[p]
             \/ Heard(p, frames'[i].holds[p])
  <2>1. CASE i = n
    BY <1>1, <1>3, <2>1
  <2>2. CASE i \in 1..n - 1
    BY <1>1, <1>3, <2>2 DEF OnlyHeard
  <2> QED BY <1>2, <2>1, <2>2
<1>4. \A p, x : Heard(p, x)' <=> Heard(p, x)
  BY DEF Heard
<1> QED BY <1>1, <1>3, <1>4 DEF OnlyHeard

LEMMA WriteKeepsRooted ==
  ASSUME Types, Rooted, NEW holds, NEW tasks, Written(holds, tasks),
         \/ Len(frames) = 1 \/ Top.path = <<>>
         \/ /\ DOMAIN Top.holds \subseteq DOMAIN holds
            /\ Makes(Task) /\ Task.path = Top.path =>
                 \/ Top.path \in DOMAIN holds
                 \/ \E task \in Range(tasks) : task.path = Top.path /\ Makes(task)
  PROVE  Rooted'
<1> USE DEF Written, Pending
<1>1. PICK n \in Nat \ {0} : n = Len(frames)
  BY TopIsFrame
<1>2. Top = frames[n]
  BY <1>1 DEF Top
<1>3. \A i \in 1..n : i = n \/ i \in 1..n - 1
  BY <1>1
<1>4. \A i \in 1..n : frames'[i].path = frames[i].path
  BY <1>1, <1>3
<1>5. ASSUME NEW i \in 2..n
      PROVE  \/ frames'[i].path = <<>>
             \/ frames'[i].path \in DOMAIN frames'[i].holds
             \/ \E task \in Range(frames'[i].todo) :
                  task.path = frames'[i].path /\ Makes(task)
             \/ i < n /\ frames'[i + 1].path = frames'[i].path
  <2>1. CASE i = n
    <3>1. \/ frames[n].path = <<>>
          \/ frames[n].path \in DOMAIN frames[n].holds
          \/ \E task \in Range(frames[n].todo) :
               task.path = frames[n].path /\ Makes(task)
      BY <1>1, <2>1 DEF Rooted
    <3>2. frames'[n].path = frames[n].path /\ frames'[n].holds = holds
      BY <1>1
    <3>3. n # 1
      BY <2>1
    <3>4. CASE Top.path # <<>>
      <4>1. /\ DOMAIN Top.holds \subseteq DOMAIN holds
            /\ Makes(Task) /\ Task.path = Top.path =>
                 \/ Top.path \in DOMAIN holds
                 \/ \E task \in Range(tasks) : task.path = Top.path /\ Makes(task)
        BY <1>1, <3>3, <3>4
      <4>2. ASSUME NEW task \in Range(frames[n].todo),
                   task.path = frames[n].path, Makes(task)
            PROVE  \/ Top.path \in DOMAIN holds
                   \/ \E t \in Range(frames'[n].todo) :
                        t.path = frames[n].path /\ Makes(t)
        <5>1. CASE task = Task
          BY <1>1, <1>2, <4>1, <4>2, <5>1
        <5>2. CASE task # Task
          BY <1>1, <4>2, <5>2
        <5> QED BY <5>1, <5>2
      <4> QED BY <1>2, <2>1, <3>1, <3>2, <3>4, <4>1, <4>2
    <3> QED BY <1>2, <2>1, <3>2, <3>4
  <2>2. CASE i \in 1..n - 1
    <3>1. i + 1 \in 1..n /\ i \in 2..n
      BY <1>1, <2>2
    <3> QED BY <1>1, <1>4, <2>2, <3>1 DEF Rooted
  <2>3. i \in 1..n
    OBVIOUS
  <2> QED BY <1>3, <2>1, <2>2, <2>3
<1>6. \A task : Makes(task)' <=> Makes(task)
  BY DEF Makes
<1> QED BY <1>1, <1>5, <1>6 DEF Rooted

LEMMA WriteKeepsMaps ==
  ASSUME Types, Direct, MapsGrow, had' = had, before' = before,
         NEW holds, NEW tasks, Written(holds, tasks),
         \A q \in DOMAIN holds : holds[q] = Mark("map") =>
           /\ q \in DOMAIN Top.holds /\ Top.holds[q] = Mark("map")
           /\ Under(Top.holds, q) \subseteq Under(holds, q)
           /\ Len(frames) = 1 /\ IsOld(q) => Under(holds, q) = Under(Top.holds, q)
           /\ Len(frames) > 1 /\ Task.do = "entries" /\ Task.path = q =>
                \A k \in Task.keys : None \notin had[k] =>
                  \/ \E p \in Under(holds, q) : IsPrefix(p, k)
                  \/ \E task \in Range(tasks) :
                       task.do = "entries" /\ task.path = q /\ k \in task.keys
  PROVE  MapsGrow'
<1> USE DEF Written, Pending
<1>1. PICK n \in Nat \ {0} : n = Len(frames)
  BY TopIsFrame
<1>2. Top = frames[n]
  BY <1>1 DEF Top
<1>3. \A i \in 1..n : i = n \/ i \in 1..n - 1
  BY <1>1
<1>4. \A i \in 1..n : frames'[i].path = frames[i].path
  BY <1>1, <1>3
<1>5. ASSUME NEW i \in 1..n, NEW q \in DOMAIN frames'[i].holds,
             frames'[i].holds[q] = Mark("map")
      PROVE  \/ i = 1 /\ IsOld(q)'
             \/ \A k \in KeysUnder(q) : None \notin had[k] =>
                  HasEntry(i, q, k)' \/ (i > 1 /\ WillHaveEntry(i, q, k)')
  <2>1. CASE i = n
    <3>1. /\ q \in DOMAIN Top.holds /\ Top.holds[q] = Mark("map")
          /\ Under(Top.holds, q) \subseteq Under(holds, q)
          /\ n = 1 /\ IsOld(q) => Under(holds, q) = Under(Top.holds, q)
      BY <1>1, <1>5, <2>1
    <3>2. /\ i = 1 /\ IsOld(q)
          \/ \A k \in KeysUnder(q) : None \notin had[k] =>
               HasEntry(n, q, k) \/ (n > 1 /\ WillHaveEntry(n, q, k))
      BY <1>1, <1>2, <2>1, <3>1 DEF MapsGrow
    <3>3. CASE i = 1 /\ IsOld(q)
      BY <1>1, <1>2, <2>1, <3>1, <3>3 DEF IsOld
    <3>4. ASSUME NEW k \in KeysUnder(q), None \notin had[k],
                 HasEntry(n, q, k) \/ (n > 1 /\ WillHaveEntry(n, q, k))
          PROVE  HasEntry(i, q, k)' \/ (i > 1 /\ WillHaveEntry(i, q, k)')
      <4>1. ASSUME NEW p \in Under(holds, q), IsPrefix(p, k)
            PROVE  HasEntry(i, q, k)'
        BY <1>1, <2>1, <4>1 DEF HasEntry
      <4>2. CASE HasEntry(n, q, k)
        BY <1>1, <1>2, <2>1, <3>1, <4>1, <4>2 DEF HasEntry
      <4>3. CASE n > 1 /\ WillHaveEntry(n, q, k)
        <5>1. PICK task \in Range(frames[n].todo) :
                task.do = "entries" /\ task.path = q /\ k \in task.keys
          BY <1>1, <4>3 DEF WillHaveEntry
        <5>2. CASE task # Task
          <6>1. task \in Range(frames'[n].todo)
            BY <1>1, <5>2
          <6> QED BY <1>1, <2>1, <4>3, <5>1, <6>1 DEF WillHaveEntry
        <5>3. CASE task = Task
          <6>1. \/ \E p \in Under(holds, q) : IsPrefix(p, k)
                \/ \E t \in Range(tasks) :
                     t.do = "entries" /\ t.path = q /\ k \in t.keys
            BY <1>1, <1>5, <2>1, <3>4, <4>3, <5>1, <5>3
          <6>2. CASE \E t \in Range(tasks) :
                       t.do = "entries" /\ t.path = q /\ k \in t.keys
            <7>1. PICK t \in Range(frames'[n].todo) :
                    t.do = "entries" /\ t.path = q /\ k \in t.keys
              BY <1>1, <6>2
            <7> QED BY <1>1, <2>1, <4>3, <7>1 DEF WillHaveEntry
          <6> QED BY <4>1, <6>1, <6>2
        <5> QED BY <5>2, <5>3
      <4> QED BY <3>4, <4>2, <4>3
    <3> QED BY <3>2, <3>3, <3>4
  <2>2. CASE i \in 1..n - 1
    <3>1. i + 1 \in 1..n /\ i < n
      BY <1>1, <2>2
    <3>2. frames'[i].holds = frames[i].holds /\ Range(frames'[i].todo) = Range(frames[i].todo)
      BY <1>1, <2>2
    <3>3. /\ i = 1 /\ IsOld(q)
          \/ \A k \in KeysUnder(q) : None \notin had[k] =>
               HasEntry(i, q, k) \/ (i > 1 /\ WillHaveEntry(i, q, k))
      BY <1>1, <1>5, <3>2 DEF MapsGrow
    <3>4. \A k : HasEntry(i, q, k) => HasEntry(i, q, k)'
      BY <3>2 DEF HasEntry
    <3>5. \A k : WillHaveEntry(i, q, k) => WillHaveEntry(i, q, k)'
      BY <1>1, <1>4, <3>1, <3>2 DEF WillHaveEntry
    <3>6. i = 1 /\ IsOld(q) => IsOld(q)'
      BY <3>2 DEF IsOld
    <3> QED BY <3>3, <3>4, <3>5, <3>6
  <2> QED BY <1>3, <2>1, <2>2
<1> QED BY <1>1, <1>5 DEF MapsGrow

LEMMA QuietKeepsTypes ==
  ASSUME Types, Quiet, result = "running", frames' \in Seq(Frame), Len(frames') > 0
  PROVE  Types'
BY DEF Types, Quiet

LEMMA QuietKeepsErrors ==
  ASSUME ErrorsAreDue, Quiet
  PROVE  ErrorsAreDue'
BY DEF ErrorsAreDue, WholeTypes, Leaves, Quiet

\* A task is put in place of the first one, and the frame holds what it held.
LEMMA ThenKeeps ==
  ASSUME UnmarshalInv, result = "running", Top.todo # <<>>, Quiet,
         NEW tasks \in Seq(AnyTask), Then(tasks),
         \A task \in Range(tasks) : Suits(task),
         Makes(Task) /\ Task.path = Top.path =>
           \/ Top.path \in DOMAIN Top.holds
           \/ \E task \in Range(tasks) : task.path = Top.path /\ Makes(task),
         Task.do = "entries" =>
           \A k \in Task.keys : None \notin had[k] =>
             \/ \E p \in Under(Top.holds, Task.path) : IsPrefix(p, k)
             \/ \E task \in Range(tasks) :
                  task.do = "entries" /\ task.path = Task.path /\ k \in task.keys
  PROVE  UnmarshalInv'
<1> USE DEF UnmarshalInv
<1> DEFINE holds == Top.holds
<1>1. /\ Len(frames) \in Nat \ {0} /\ Len(frames) \in 1..Len(frames)
      /\ Top = frames[Len(frames)] /\ Top \in Frame
  BY TopIsFrame
<1>2. holds \in Holds
  BY <1>1 DEF Frame
<1>3. Written(holds, tasks)
  BY <1>2, WriteFrames DEF Then
<1>4. frames' \in Seq(Frame) /\ Len(frames') > 0
  BY <1>1, <1>3 DEF Written
<1>5. Types'
  BY <1>4, QuietKeepsTypes
<1>6. type' = type /\ had' = had /\ before' = before
  BY DEF Quiet
<1>7. TasksFit' /\ Direct'
  BY <1>3, <1>6, WriteKeepsTasks
<1>8. Nested'
  <2>1. \A task \in Range(tasks) : IsPrefix(Top.path, task.path)
    BY DEF Suits
  <2>2. \A p \in DOMAIN holds : IsPrefix(Top.path, p)
    BY <1>1 DEF Nested
  <2> QED BY <1>3, <2>1, <2>2, WriteKeepsNested
<1>9. OnlyHeard'
  <2>1. \A p \in DOMAIN holds : holds[p] \notin Marks =>
           \/ Len(frames) = 1 /\ p \in DOMAIN before /\ holds[p] = before[p]
           \/ Heard(p, holds[p])
    BY <1>1 DEF OnlyHeard
  <2> QED BY <1>3, <1>6, <2>1, WriteKeepsHeard
<1>10. Rooted'
  BY <1>3, WriteKeepsRooted
<1>11. MapsGrow'
  BY <1>3, <1>6, WriteKeepsMaps
<1> QED BY <1>5, <1>7, <1>8, <1>9, <1>10, <1>11, QuietKeepsErrors

\* A value that was heard is set at a place: in the object itself at none that
\* is in a map.
LEMMA ValueKeeps ==
  ASSUME UnmarshalInv, result = "running", Top.todo # <<>>, Quiet,
         NEW tasks \in Seq(AnyTask), NEW p \in Path, NEW x \in BasicValue,
         Write(With(Top.holds, p, x), tasks),
         \A task \in Range(tasks) : Suits(task),
         Heard(p, x), IsPrefix(Top.path, p), ~Makes(Task),
         Len(frames) = 1 => \E place \in Place[type] : place.path = p /\ ~place.inMap,
         Task.do = "entries" =>
           \A k \in Task.keys : None \notin had[k] =>
             \/ IsStrictPrefix(Task.path, p) /\ IsPrefix(p, k)
             \/ \E task \in Range(tasks) :
                  task.do = "entries" /\ task.path = Task.path /\ k \in task.keys
  PROVE  UnmarshalInv'
<1> USE DEF UnmarshalInv
<1> DEFINE holds == With(Top.holds, p, x)
<1>1. /\ Len(frames) \in Nat \ {0} /\ Len(frames) \in 1..Len(frames)
      /\ Top = frames[Len(frames)] /\ Top \in Frame
  BY TopIsFrame
<1>2. /\ holds \in Holds /\ DOMAIN holds = DOMAIN Top.holds \cup {p}
      /\ holds[p] = x /\ \A q \in DOMAIN Top.holds \ {p} : holds[q] = Top.holds[q]
  <2> DEFINE was == Top.holds
  <2>1. was \in Holds /\ x \in Content
    BY <1>1 DEF Frame, Content
  <2> HIDE DEF was
  <2>2. /\ With(was, p, x) \in Holds
        /\ DOMAIN With(was, p, x) = DOMAIN was \cup {p}
        /\ With(was, p, x)[p] = x
        /\ \A q \in DOMAIN was \ {p} : With(was, p, x)[q] = was[q]
    BY <2>1, WithHolds
  <2> QED BY <2>2 DEF was
<1> HIDE DEF holds
<1>3. Written(holds, tasks)
  BY <1>2, WriteFrames DEF holds
<1>4. frames' \in Seq(Frame) /\ Len(frames') > 0
  BY <1>1, <1>3 DEF Written
<1>5. Types'
  BY <1>4, QuietKeepsTypes
<1>6. type' = type /\ had' = had /\ before' = before
  BY DEF Quiet
<1>7. TasksFit' /\ Direct'
  BY <1>3, <1>6, WriteKeepsTasks
<1>8. Nested'
  <2>1. \A task \in Range(tasks) : IsPrefix(Top.path, task.path)
    BY DEF Suits
  <2>2. \A q \in DOMAIN holds : IsPrefix(Top.path, q)
    BY <1>1, <1>2 DEF Nested
  <2> QED BY <1>3, <2>1, <2>2, WriteKeepsNested
<1>9. OnlyHeard'
  <2>1. \A q \in DOMAIN holds : holds[q] \notin Marks =>
           \/ Len(frames) = 1 /\ q \in DOMAIN before /\ holds[q] = before[q]
           \/ Heard(q, holds[q])
    BY <1>1, <1>2 DEF OnlyHeard
  <2> QED BY <1>3, <1>6, <2>1, WriteKeepsHeard
<1>10. Rooted'
  BY <1>2, <1>3, WriteKeepsRooted
<1>11. ASSUME NEW q \in DOMAIN holds, holds[q] = Mark("map")
       PROVE  /\ q \in DOMAIN Top.holds /\ Top.holds[q] = Mark("map")
              /\ Under(Top.holds, q) \subseteq Under(holds, q)
              /\ Len(frames) = 1 /\ IsOld(q) => Under(holds, q) = Under(Top.holds, q)
  <2>1. q # p
    BY <1>2, <1>11, ValuesAreNoMarks
  <2>2. ASSUME Len(frames) = 1, IsOld(q) PROVE ~IsStrictPrefix(q, p)
    <3>1. PICK place \in Place[type] : place.path = p /\ ~place.inMap
      BY <2>2
    <3> QED BY <2>2, <3>1, ObjectAssumption DEF IsOld, Types
  <2> QED BY <1>2, <1>11, <2>1, <2>2 DEF Under
<1>12. ASSUME NEW q \in DOMAIN holds, Task.do = "entries", Task.path = q,
              NEW k \in Task.keys, None \notin had[k]
       PROVE  \/ \E r \in Under(holds, q) : IsPrefix(r, k)
              \/ \E task \in Range(tasks) :
                   task.do = "entries" /\ task.path = q /\ k \in task.keys
  BY <1>2, <1>12 DEF Under
<1>13. MapsGrow'
  BY <1>3, <1>6, <1>11, <1>12, WriteKeepsMaps
<1> QED BY <1>5, <1>7, <1>8, <1>9, <1>10, <1>13, QuietKeepsErrors

\* Something new is built for a place.
LEMMA BuildKeeps ==
  ASSUME UnmarshalInv, result = "running", Top.todo # <<>>, Quiet,
         NEW path \in Path, NEW holds \in Holds,
         NEW tasks \in Seq(AnyTask), NEW later \in Seq(AnyTask),
         Build(path, holds, tasks, later),
         IsPrefix(Top.path, path),
         \A p \in DOMAIN holds : p = path /\ holds[p] \in Marks,
         \A task \in Range(tasks) : TaskFits(task) /\ IsPrefix(path, task.path),
         \A task \in Range(later) : Suits(task),
         Len(frames) = 1 => \E place \in Place[type] : place.path = path /\ ~place.inMap,
         \/ path \in DOMAIN holds
         \/ \E task \in Range(tasks) : task.path = path /\ Makes(task),
         Makes(Task) /\ Task.path = Top.path => path = Top.path,
         path \in DOMAIN holds /\ holds[path] = Mark("map") =>
           \E task \in Range(tasks) :
             /\ task.do = "entries" /\ task.path = path
             /\ \A k \in KeysUnder(path) : None \notin had[k] => k \in task.keys,
         Task.do = "entries" =>
           \A k \in Task.keys : None \notin had[k] =>
             \/ IsStrictPrefix(Task.path, path) /\ IsPrefix(path, k)
             \/ \E task \in Range(later) :
                  task.do = "entries" /\ task.path = Task.path /\ k \in task.keys
  PROVE  UnmarshalInv'
<1> USE DEF Pending
<1>1. PICK n \in Nat \ {0} : n = Len(frames)
  BY TopIsFrame DEF UnmarshalInv
<1>2. Top = frames[n]
  BY <1>1 DEF Top
<1>3. /\ Types /\ TasksFit /\ Direct /\ OnlyHeard /\ Nested /\ Rooted
      /\ MapsGrow /\ ErrorsAreDue
  BY DEF UnmarshalInv
<1>4. Built(path, holds, tasks, later)
  BY <1>3, BuildFrames
<1>5. /\ frames' \in Seq(Frame) /\ Len(frames') = n + 1
      /\ \A i \in 1..n - 1 : /\ frames'[i] = frames[i]
                             /\ Range(frames'[i].todo) = Range(frames[i].todo)
      /\ frames'[n].path = frames[n].path
      /\ frames'[n].holds = frames[n].holds
      /\ Range(frames'[n].todo) \subseteq Range(later) \cup Range(frames[n].todo)
      /\ Range(later) \cup (Range(frames[n].todo) \ {Task}) \subseteq Range(frames'[n].todo)
      /\ frames'[n + 1].path = path
      /\ frames'[n + 1].holds = holds
      /\ Range(frames'[n + 1].todo) = Range(tasks)
  BY <1>1, <1>4 DEF Built
<1>6. type' = type /\ had' = had /\ before' = before
  BY DEF Quiet
<1>7. Types'
  BY <1>3, <1>5, QuietKeepsTypes
<1>8. \A i \in 1..n + 1 : i \in 1..n - 1 \/ i = n \/ i = n + 1
  BY <1>1
<1>9. \A i \in 1..n : i \in 1..n - 1 \/ i = n
  BY <1>1
<1>10. /\ \A i \in 1..n : /\ frames'[i].path = frames[i].path
                          /\ frames'[i].holds = frames[i].holds
       /\ 1 \in 1..n
  BY <1>1, <1>5, <1>9
<1>11. TasksFit'
  <2>1. ASSUME NEW i \in 1..n + 1, NEW task \in Range(frames'[i].todo)
        PROVE  TaskFits(task)
    <3>1. CASE i \in 1..n - 1
      <4>1. i \in 1..n
        BY <1>1, <3>1
      <4> QED BY <1>1, <1>3, <1>5, <2>1, <3>1, <4>1 DEF TasksFit
    <3>2. CASE i = n
      BY <1>1, <1>3, <1>5, <2>1, <3>2 DEF TasksFit, Suits
    <3>3. CASE i = n + 1
      BY <1>5, <2>1, <3>3
    <3> QED BY <1>8, <3>1, <3>2, <3>3
  <2> QED BY <1>5, <1>6, <2>1, StaysFit DEF TasksFit
<1>12. Direct'
  <2>1. ASSUME NEW task \in Range(frames'[1].todo)
        PROVE  task.do # "entries" /\ \E place \in PlacesOf(task) : ~place.inMap
    <3>1. CASE 1 \in 1..n - 1
      BY <1>3, <1>5, <2>1, <3>1 DEF Direct
    <3>2. CASE n = 1
      BY <1>1, <1>3, <1>5, <2>1, <3>2 DEF Direct, Suits
    <3> QED BY <1>9, <1>10, <3>1, <3>2
  <2>2. \E place \in Place[type] : place.path = frames'[2].path /\ ~place.inMap
    <3>1. CASE n = 1
      BY <1>1, <1>5, <3>1
    <3>2. CASE n > 1
      <4>1. 2 \in 1..n
        BY <1>1, <3>2
      <4> QED BY <1>1, <1>3, <1>10, <3>2, <4>1 DEF Direct
    <3> QED BY <1>1, <3>1, <3>2
  <2> QED BY <1>6, <2>1, <2>2, StaysFit DEF Direct
<1>13. OnlyHeard'
  <2>1. ASSUME NEW i \in 1..n + 1, NEW p \in DOMAIN frames'[i].holds,
               frames'[i].holds[p] \notin Marks
        PROVE  \/ i = 1 /\ p \in DOMAIN before /\ frames'[1].holds[p] = before[p]
               \/ Heard(p, frames'[i].holds[p])
    <3>1. CASE i \in 1..n
      BY <1>1, <1>3, <1>10, <2>1, <3>1 DEF OnlyHeard
    <3>2. CASE i = n + 1
      BY <1>5, <2>1, <3>2
    <3> QED BY <1>1, <3>1, <3>2
  <2>2. \A p, x : Heard(p, x)' <=> Heard(p, x)
    BY <1>6 DEF Heard
  <2> QED BY <1>5, <1>6, <2>1, <2>2 DEF OnlyHeard
<1>14. Nested'
  <2>1. ASSUME NEW i \in 1..n + 1
        PROVE  /\ \A p \in DOMAIN frames'[i].holds : IsPrefix(frames'[i].path, p)
               /\ \A task \in Range(frames'[i].todo) : IsPrefix(frames'[i].path, task.path)
    <3>1. CASE i \in 1..n - 1
      BY <1>1, <1>3, <1>5, <3>1 DEF Nested
    <3>2. CASE i = n
      BY <1>1, <1>2, <1>3, <1>5, <3>2 DEF Nested, Suits
    <3>3. CASE i = n + 1
      BY <1>5, <3>3, PrefixItself
    <3> QED BY <1>8, <3>1, <3>2, <3>3
  <2>2. ASSUME NEW i \in 1..n
        PROVE  IsPrefix(frames'[i].path, frames'[i + 1].path)
    <3>1. CASE i = n
      BY <1>2, <1>5, <3>1
    <3>2. CASE i \in 1..n - 1
      <4>1. i + 1 \in 1..n /\ i < n
        BY <1>1, <3>2
      <4> QED BY <1>1, <1>3, <1>10, <4>1 DEF Nested
    <3> QED BY <1>9, <3>1, <3>2
  <2>3. \A i \in 1..n + 1 : i < n + 1 => i \in 1..n
    BY <1>1
  <2>4. frames'[1].path = <<>>
    BY <1>3, <1>10 DEF Nested
  <2> QED BY <1>5, <2>1, <2>2, <2>3, <2>4 DEF Nested
<1>15. Rooted'
  <2>1. \A task : Makes(task)' <=> Makes(task)
    BY DEF Makes
  <2>2. ASSUME NEW i \in 2..n + 1
        PROVE  \/ frames'[i].path = <<>>
               \/ frames'[i].path \in DOMAIN frames'[i].holds
               \/ \E task \in Range(frames'[i].todo) :
                    task.path = frames'[i].path /\ Makes(task)
               \/ i < n + 1 /\ frames'[i + 1].path = frames'[i].path
    <3>1. CASE i \in 1..n - 1
      <4>1. i + 1 \in 1..n /\ i \in 2..n
        BY <1>1, <3>1
      <4> QED BY <1>1, <1>3, <1>5, <1>10, <3>1, <4>1 DEF Rooted
    <3>2. CASE i = n
      <4>1. \/ frames[n].path = <<>>
            \/ frames[n].path \in DOMAIN frames[n].holds
            \/ \E task \in Range(frames[n].todo) :
                 task.path = frames[n].path /\ Makes(task)
        BY <1>1, <1>3, <3>2 DEF Rooted
      <4>2. ASSUME NEW task \in Range(frames[n].todo),
                   task.path = frames[n].path, Makes(task)
            PROVE  path = frames[n].path \/ task \in Range(frames'[n].todo)
        BY <1>2, <1>5, <4>2
      <4>3. n < n + 1
        BY <1>1
      <4> QED BY <1>5, <3>2, <4>1, <4>2, <4>3
    <3>3. CASE i = n + 1
      BY <1>5, <3>3
    <3>4. i \in 1..n + 1
      OBVIOUS
    <3> QED BY <1>8, <3>1, <3>2, <3>3, <3>4
  <2> QED BY <1>5, <2>1, <2>2 DEF Rooted
<1>16. MapsGrow'
  <2>1. ASSUME NEW i \in 1..n + 1, NEW q \in DOMAIN frames'[i].holds,
               frames'[i].holds[q] = Mark("map")
        PROVE  \/ i = 1 /\ IsOld(q)'
               \/ \A k \in KeysUnder(q) : None \notin had[k] =>
                    HasEntry(i, q, k)' \/ (i > 1 /\ WillHaveEntry(i, q, k)')
    <3>1. CASE i = n + 1
      <4>1. q = path /\ holds[path] = Mark("map")
        BY <1>5, <2>1, <3>1
      <4>2. PICK task \in Range(tasks) :
              /\ task.do = "entries" /\ task.path = path
              /\ \A k \in KeysUnder(path) : None \notin had[k] => k \in task.keys
        BY <1>5, <2>1, <3>1, <4>1
      <4>3. \A k \in KeysUnder(q) : None \notin had[k] => WillHaveEntry(i, q, k)'
        BY <1>5, <3>1, <4>1, <4>2 DEF WillHaveEntry
      <4> QED BY <1>1, <3>1, <4>3
    <3>2. CASE i \in 1..n
      <4>1. frames'[i].holds = frames[i].holds
        BY <1>10, <3>2
      <4>2. \/ i = 1 /\ IsOld(q)
            \/ \A k \in KeysUnder(q) : None \notin had[k] =>
                 HasEntry(i, q, k) \/ (i > 1 /\ WillHaveEntry(i, q, k))
        BY <1>1, <1>3, <2>1, <3>2, <4>1 DEF MapsGrow
      <4>3. i = 1 /\ IsOld(q) => IsOld(q)'
        BY <1>6, <4>1 DEF IsOld
      <4>4. \A k : HasEntry(i, q, k) => HasEntry(i, q, k)'
        BY <4>1 DEF HasEntry
      <4>5. ASSUME NEW k \in KeysUnder(q), None \notin had[k], WillHaveEntry(i, q, k)
            PROVE  WillHaveEntry(i, q, k)'
        <5>1. CASE i \in 1..n - 1
          <6>1. i + 1 \in 1..n /\ i < n /\ i < n + 1
            BY <1>1, <5>1
          <6> QED BY <1>1, <1>5, <1>10, <4>5, <5>1, <6>1 DEF WillHaveEntry
        <5>2. CASE i = n
          <6>1. PICK task \in Range(frames[n].todo) :
                  task.do = "entries" /\ task.path = q /\ k \in task.keys
            BY <1>1, <4>5, <5>2 DEF WillHaveEntry
          <6>2. CASE task # Task
            BY <1>5, <5>2, <6>1, <6>2 DEF WillHaveEntry
          <6>3. CASE task = Task
            <7>1. \/ IsStrictPrefix(q, path) /\ IsPrefix(path, k)
                  \/ \E t \in Range(later) :
                       t.do = "entries" /\ t.path = q /\ k \in t.keys
              BY <4>5, <6>1, <6>3
            <7>2. n < n + 1
              BY <1>1
            <7> QED BY <1>5, <5>2, <7>1, <7>2 DEF WillHaveEntry
          <6> QED BY <6>2, <6>3
        <5> QED BY <1>9, <3>2, <5>1, <5>2
      <4> QED BY <4>2, <4>3, <4>4, <4>5
    <3> QED BY <1>1, <3>1, <3>2
  <2> QED BY <1>5, <1>6, <2>1 DEF MapsGrow
<1> QED BY <1>3, <1>7, <1>11, <1>12, <1>13, <1>14, <1>15, <1>16, QuietKeepsErrors
     DEF UnmarshalInv

\* What was built takes its place.
LEMMA KeepKeeps ==
  ASSUME UnmarshalInv, KeepBuilt
  PROVE  UnmarshalInv'
<1> USE DEF Pending
<1>1. /\ Types /\ TasksFit /\ Direct /\ OnlyHeard /\ Nested /\ Rooted
      /\ MapsGrow /\ ErrorsAreDue
  BY DEF UnmarshalInv
<1>2. Kept
  BY <1>1, KeepFrames
<1>3. PICK m \in Nat \ {0} : Len(frames) = m + 1
  BY <1>2, TopIsFrame, <1>1 DEF Kept
<1>4. PICK new : new = frames[m + 1].holds
  OBVIOUS
<1>5. PICK base : base = frames[m].holds
  OBVIOUS
<1>6. PICK path : path = frames[m + 1].path
  OBVIOUS
<1>7. /\ m \in 1..m + 1 /\ m + 1 \in 1..m + 1 /\ m + 1 \in 2..m + 1
      /\ m \in 1..m /\ 1 \in 1..m /\ ~(m + 1 < m + 1) /\ m + 1 > 1 /\ m < m + 1
      /\ \A i \in 1..m : i \in 1..m - 1 \/ i = m
      /\ \A i \in 1..m - 1 : i + 1 \in 1..m /\ i < m /\ i < m + 1 /\ i \in 1..m
  BY <1>3
<1>8. /\ frames' \in Seq(Frame) /\ Len(frames') = m
      /\ \A i \in 1..m - 1 : frames'[i] = frames[i]
      /\ \A i \in 1..m : Range(frames'[i].todo) = Range(frames[i].todo)
      /\ frames'[m].path = frames[m].path
      /\ frames'[m].holds = Replace(base, path, new)
      /\ Range(frames[m + 1].todo) = {}
  <2>1. Len(frames) - 1 = m /\ Len(frames) - 2 = m - 1
    BY <1>3
  <2> QED BY <1>2, <1>3, <1>4, <1>5, <1>6, <2>1 DEF Kept
<1>9. Quiet /\ result = "running"
  BY DEF KeepBuilt
<1>10. type' = type /\ had' = had /\ before' = before
  BY <1>9 DEF Quiet
<1>11. Types'
  BY <1>1, <1>8, <1>9, <1>3, QuietKeepsTypes
<1>12. \A i \in 1..m : frames'[i].path = frames[i].path
  BY <1>7, <1>8
<1>13. /\ base \in Holds /\ new \in Holds /\ path \in Path /\ frames[m].path \in Path
       /\ DOMAIN base \subseteq Path /\ DOMAIN new \subseteq Path
  <2>1. frames[m] \in Frame /\ frames[m + 1] \in Frame
    BY <1>1, <1>3, <1>7, TopIsFrame
  <2>2. /\ frames[m].holds \in Holds /\ frames[m + 1].holds \in Holds
        /\ frames[m].path \in Path /\ frames[m + 1].path \in Path
    BY <2>1 DEF Frame
  <2> QED BY <1>4, <1>5, <1>6, <2>2, HoldsMeans
<1>14. LET r == frames'[m].holds
       IN /\ DOMAIN r = DOMAIN new \cup {q \in DOMAIN base : ~IsPrefix(path, q)}
          /\ \A q \in DOMAIN new : r[q] = new[q]
          /\ \A q \in DOMAIN r \ DOMAIN new : r[q] = base[q]
  <2> DEFINE r == Replace(base, path, new)
  <2>1. /\ DOMAIN r = DOMAIN new \cup {q \in DOMAIN base : ~IsPrefix(path, q)}
        /\ \A q \in DOMAIN new : r[q] = new[q]
        /\ \A q \in DOMAIN r \ DOMAIN new : r[q] = base[q]
    BY <1>13, ReplaceHolds
  <2> HIDE DEF r
  <2>2. frames'[m].holds = r
    BY <1>8 DEF r
  <2> QED BY <2>1, <2>2
<1>15. path = <<>> \/ path \in DOMAIN new
  BY <1>1, <1>3, <1>4, <1>6, <1>7, <1>8 DEF Rooted
<1>16. /\ \A p \in DOMAIN new : IsPrefix(path, p)
       /\ \A p \in DOMAIN base : IsPrefix(frames[m].path, p)
       /\ IsPrefix(frames[m].path, path)
  BY <1>1, <1>3, <1>4, <1>5, <1>6, <1>7 DEF Nested
<1>17. TasksFit'
  <2>1. ASSUME NEW i \in 1..m, NEW task \in Range(frames'[i].todo)
        PROVE  TaskFits(task)
    <3>1. i \in 1..m + 1
      BY <1>3
    <3> QED BY <1>1, <1>3, <1>8, <2>1, <3>1 DEF TasksFit
  <2> QED BY <1>8, <1>10, <2>1, StaysFit DEF TasksFit
<1>18. Direct'
  <2>1. \A task \in Range(frames'[1].todo) :
          task.do # "entries" /\ \E place \in PlacesOf(task) : ~place.inMap
    BY <1>1, <1>7, <1>8 DEF Direct
  <2>2. ASSUME m > 1
        PROVE  \E place \in Place[type] : place.path = frames'[2].path /\ ~place.inMap
    <3>1. 2 \in 1..m /\ m + 1 > 1
      BY <1>3, <2>2
    <3> QED BY <1>1, <1>3, <1>12, <3>1 DEF Direct
  <2> QED BY <1>8, <1>10, <2>1, <2>2, StaysFit DEF Direct
<1>19. OnlyHeard'
  <2>1. ASSUME NEW i \in 1..m, NEW p \in DOMAIN frames'[i].holds,
               frames'[i].holds[p] \notin Marks
        PROVE  \/ i = 1 /\ p \in DOMAIN before /\ frames'[1].holds[p] = before[p]
               \/ Heard(p, frames'[i].holds[p])
    <3>1. CASE i \in 1..m - 1
      <4>1. i \in 1..m + 1
        BY <1>3
      <4> QED BY <1>1, <1>3, <1>8, <2>1, <3>1, <4>1 DEF OnlyHeard
    <3>2. CASE i = m /\ p \in DOMAIN new
      <4>1. frames'[i].holds[p] = new[p]
        BY <1>14, <3>2
      <4>2. m + 1 # 1
        BY <1>3
      <4> QED BY <1>1, <1>3, <1>4, <1>7, <2>1, <3>2, <4>1, <4>2 DEF OnlyHeard
    <3>3. CASE i = m /\ p \notin DOMAIN new
      <4>1. p \in DOMAIN base /\ frames'[i].holds[p] = base[p]
        BY <1>14, <2>1, <3>3
      <4> QED BY <1>1, <1>3, <1>5, <1>7, <2>1, <3>3, <4>1 DEF OnlyHeard
    <3> QED BY <1>7, <3>1, <3>2, <3>3
  <2>2. \A p, x : Heard(p, x)' <=> Heard(p, x)
    BY <1>10 DEF Heard
  <2> QED BY <1>8, <1>10, <2>1, <2>2 DEF OnlyHeard
<1>20. Nested'
  <2>1. ASSUME NEW i \in 1..m
        PROVE  /\ \A p \in DOMAIN frames'[i].holds : IsPrefix(frames'[i].path, p)
               /\ \A task \in Range(frames'[i].todo) : IsPrefix(frames'[i].path, task.path)
               /\ i < m => IsPrefix(frames'[i].path, frames'[i + 1].path)
    <3>1. i \in 1..m + 1 /\ (i < m => i \in 1..m - 1)
      BY <1>3
    <3>2. \A task \in Range(frames'[i].todo) : IsPrefix(frames'[i].path, task.path)
      BY <1>1, <1>3, <1>8, <1>12, <3>1 DEF Nested
    <3>3. i < m => IsPrefix(frames'[i].path, frames'[i + 1].path)
      BY <1>1, <1>3, <1>7, <1>12, <3>1 DEF Nested
    <3>4. ASSUME NEW p \in DOMAIN frames'[i].holds
          PROVE  IsPrefix(frames'[i].path, p)
      <4>1. CASE i \in 1..m - 1
        BY <1>1, <1>3, <1>8, <3>1, <3>4, <4>1 DEF Nested
      <4>2. CASE i = m
        <5>1. p \in DOMAIN new => IsPrefix(frames[m].path, p)
          BY <1>13, <1>16, PrefixTransitive
        <5> QED BY <1>8, <1>14, <1>16, <3>4, <4>2, <5>1
      <4> QED BY <1>7, <4>1, <4>2
    <3> QED BY <3>2, <3>3, <3>4
  <2>2. frames'[1].path = <<>>
    BY <1>1, <1>7, <1>12 DEF Nested
  <2> QED BY <1>8, <2>1, <2>2 DEF Nested
<1>21. Rooted'
  <2>1. \A task : Makes(task)' <=> Makes(task)
    BY DEF Makes
  <2>2. ASSUME NEW i \in 2..m
        PROVE  \/ frames'[i].path = <<>>
               \/ frames'[i].path \in DOMAIN frames'[i].holds
               \/ \E task \in Range(frames'[i].todo) :
                    task.path = frames'[i].path /\ Makes(task)
               \/ i < m /\ frames'[i + 1].path = frames'[i].path
    <3>1. i \in 1..m /\ i \in 2..m + 1
      BY <1>3
    <3>2. \/ frames[i].path = <<>>
          \/ frames[i].path \in DOMAIN frames[i].holds
          \/ \E task \in Range(frames[i].todo) :
               task.path = frames[i].path /\ Makes(task)
          \/ frames[i + 1].path = frames[i].path
      BY <1>1, <1>3, <3>1 DEF Rooted
    <3>3. CASE i \in 1..m - 1
      BY <1>7, <1>8, <1>12, <3>2, <3>3
    <3>4. CASE i = m
      <4>1. CASE path = frames[m].path
        BY <1>12, <1>14, <1>15, <3>1, <3>4, <4>1
      <4>2. CASE path # frames[m].path /\ frames[m].path \in DOMAIN base
        <5>1. ~IsPrefix(path, frames[m].path)
          BY <1>13, <1>16, <4>2, PrefixAntisymmetric
        <5> QED BY <1>12, <1>14, <3>1, <3>4, <4>2, <5>1
      <4> QED BY <1>5, <1>6, <1>8, <1>12, <3>1, <3>2, <3>4, <4>1, <4>2
    <3> QED BY <1>7, <3>1, <3>3, <3>4
  <2> QED BY <1>8, <2>1, <2>2 DEF Rooted
<1>22. ASSUME NEW q \in DOMAIN new, new[q] = Mark("map"),
              NEW k \in KeysUnder(q), None \notin had[k]
       PROVE  HasEntry(m, q, k)'
  <2>1. ~WillHaveEntry(m + 1, q, k)
    BY <1>3, <1>7, <1>8 DEF WillHaveEntry
  <2>2. HasEntry(m + 1, q, k)
    <3>1. m + 1 # 1
      BY <1>3
    <3> QED BY <1>1, <1>3, <1>4, <1>7, <1>22, <2>1, <3>1 DEF MapsGrow
  <2>3. PICK p \in DOMAIN new : IsStrictPrefix(q, p) /\ IsPrefix(p, k)
    BY <1>4, <2>2 DEF HasEntry, Under
  <2> QED BY <1>14, <2>3 DEF HasEntry, Under
\* What is built is under a map of the frame only if it is an entry of it.
<1>23. ASSUME NEW q \in DOMAIN base, ~IsPrefix(path, q), NEW p \in DOMAIN base \cup DOMAIN new,
              IsPrefix(path, p), IsPrefix(q, p)
       PROVE  IsStrictPrefix(q, path) /\ path \in DOMAIN new
  <2>1. q \in Path /\ p \in Path
    BY <1>13
  <2>2. IsPrefix(q, path)
    BY <1>13, <1>23, <2>1, PrefixesAreNested
  <2>3. path # <<>>
    BY <1>23, <2>1, PrefixItself
  <2> QED BY <1>13, <1>15, <1>23, <2>1, <2>2, <2>3, StrictPrefix
<1>24. ASSUME NEW q \in DOMAIN base, ~IsPrefix(path, q), q \notin DOMAIN new, base[q] = Mark("map")
       PROVE  \/ m = 1 /\ IsOld(q)'
              \/ \A k \in KeysUnder(q) : None \notin had[k] =>
                   HasEntry(m, q, k)' \/ (m > 1 /\ WillHaveEntry(m, q, k)')
  <2>1. \/ m = 1 /\ IsOld(q)
        \/ \A k \in KeysUnder(q) : None \notin had[k] =>
             HasEntry(m, q, k) \/ (m > 1 /\ WillHaveEntry(m, q, k))
    BY <1>1, <1>3, <1>5, <1>7, <1>24 DEF MapsGrow
  <2>2. CASE m = 1 /\ IsOld(q)
    <3>1. ~IsStrictPrefix(q, path)
      <4>1. PICK place \in Place[type] : place.path = path /\ ~place.inMap
        BY <1>1, <1>3, <1>6, <1>7, <2>2 DEF Direct
      <4> QED BY <1>1, <2>2, <4>1, ObjectAssumption DEF IsOld, Types
    <3>2. \A p \in DOMAIN base \cup DOMAIN new : IsStrictPrefix(q, p) => ~IsPrefix(path, p)
      BY <1>23, <1>24, <3>1 DEF IsStrictPrefix
    <3>3. Under(frames'[m].holds, q) = Under(base, q)
      BY <1>14, <1>16, <3>2 DEF Under
    <3> QED BY <1>5, <1>10, <2>2, <3>3 DEF IsOld
  <2>3. ASSUME path \in DOMAIN new, IsStrictPrefix(q, path), NEW k, IsPrefix(path, k)
        PROVE  HasEntry(m, q, k)'
    BY <1>14, <2>3 DEF HasEntry, Under
  <2>4. ASSUME NEW k \in KeysUnder(q), HasEntry(m, q, k)
        PROVE  HasEntry(m, q, k)'
    <3>1. PICK p \in DOMAIN base : IsStrictPrefix(q, p) /\ IsPrefix(p, k)
      BY <1>5, <2>4 DEF HasEntry, Under
    <3>2. CASE ~IsPrefix(path, p)
      BY <1>14, <3>1, <3>2 DEF HasEntry, Under
    <3>3. CASE IsPrefix(path, p)
      <4>1. k \in Path /\ p \in Path
        BY <1>13, UnmarshalAssumption DEF KeysUnder, Path
      <4>2. IsPrefix(path, k)
        BY <1>13, <3>1, <3>3, <4>1, PrefixTransitive
      <4>3. IsStrictPrefix(q, path) /\ path \in DOMAIN new
        BY <1>23, <1>24, <3>1, <3>3 DEF IsStrictPrefix
      <4> QED BY <2>3, <4>2, <4>3
    <3> QED BY <3>2, <3>3
  <2>5. ASSUME NEW k \in KeysUnder(q), WillHaveEntry(m, q, k)
        PROVE  HasEntry(m, q, k)' \/ WillHaveEntry(m, q, k)'
    <3>1. CASE \E task \in Range(frames[m].todo) :
                 task.do = "entries" /\ task.path = q /\ k \in task.keys
      BY <1>7, <1>8, <3>1 DEF WillHaveEntry
    <3>2. CASE IsStrictPrefix(q, path) /\ IsPrefix(path, k)
      <4>1. q \in Path
        BY <1>13
      <4>2. path # <<>>
        BY <1>24, <4>1, PrefixItself
      <4> QED BY <1>15, <2>3, <3>2, <4>2
    <3> QED BY <1>6, <2>5, <3>1, <3>2 DEF WillHaveEntry
  <2> QED BY <2>1, <2>2, <2>4, <2>5
<1>25. MapsGrow'
  <2>1. ASSUME NEW i \in 1..m, NEW q \in DOMAIN frames'[i].holds,
               frames'[i].holds[q] = Mark("map")
        PROVE  \/ i = 1 /\ IsOld(q)'
               \/ \A k \in KeysUnder(q) : None \notin had[k] =>
                    HasEntry(i, q, k)' \/ (i > 1 /\ WillHaveEntry(i, q, k)')
    <3>1. CASE i \in 1..m - 1
      <4>1. frames'[i] = frames[i]
        BY <1>8, <3>1
      <4>2. \/ i = 1 /\ IsOld(q)
            \/ \A k \in KeysUnder(q) : None \notin had[k] =>
                 HasEntry(i, q, k) \/ (i > 1 /\ WillHaveEntry(i, q, k))
        <5>1. i \in 1..m + 1
          BY <1>3
        <5> QED BY <1>1, <1>3, <2>1, <4>1, <5>1 DEF MapsGrow
      <4>3. i = 1 /\ IsOld(q) => IsOld(q)'
        BY <1>10, <4>1 DEF IsOld
      <4>4. \A k : HasEntry(i, q, k) => HasEntry(i, q, k)'
        BY <4>1 DEF HasEntry
      <4>5. \A k : WillHaveEntry(i, q, k) => WillHaveEntry(i, q, k)'
        BY <1>7, <1>8, <1>12, <3>1 DEF WillHaveEntry
      <4> QED BY <4>2, <4>3, <4>4, <4>5
    <3>2. CASE i = m /\ q \in DOMAIN new
      BY <1>14, <1>22, <2>1, <3>2
    <3>3. CASE i = m /\ q \notin DOMAIN new
      <4>1. q \in DOMAIN base /\ ~IsPrefix(path, q) /\ base[q] = Mark("map")
        BY <1>14, <2>1, <3>3
      <4> QED BY <1>24, <3>3, <4>1
    <3> QED BY <1>7, <3>1, <3>2, <3>3
  <2> QED BY <1>8, <1>10, <2>1 DEF MapsGrow
<1> QED BY <1>1, <1>9, <1>11, <1>17, <1>18, <1>19, <1>20, <1>21, <1>25, QuietKeepsErrors
     DEF UnmarshalInv

\* What makes an error due.
Due ==
  \/ \E t \in WholeTypes : t.to.kind # "interface"
  \/ \E k \in Key : config[k] = None /\ ~(had[k] \subseteq {None})
  \/ \E leaf \in Leaves :
       /\ leaf.type.kind = "interface"
       /\ leaf.path \in Key /\ had[leaf.path] # {None}

LEMMA FailKeeps ==
  ASSUME UnmarshalInv, result = "running", Fail, Due
  PROVE  UnmarshalInv'
<1>1. /\ Types /\ OnlyHeard /\ Nested /\ MapsGrow
  BY DEF UnmarshalInv
<1>2. /\ frames' \in Seq(Frame) /\ Len(frames') = 1
      /\ frames'[1].path = frames[1].path
      /\ frames'[1].holds = frames[1].holds
      /\ frames'[1].todo = <<>> /\ Range(frames'[1].todo) = {}
  BY <1>1, FailFrames
<1>3. /\ result' = "error"
      /\ UNCHANGED <<config, type, had, before, changes>>
  BY DEF Fail
<1>4. Len(frames) \in Nat \ {0} /\ 1 \in 1..Len(frames)
  BY <1>1, TopIsFrame
<1>5. Types'
  BY <1>1, <1>2, <1>3 DEF Types, Top
<1>6. TasksFit' /\ Direct'
  BY <1>2 DEF TasksFit, Direct, Pending
<1>7. OnlyHeard'
  BY <1>1, <1>2, <1>3, <1>4 DEF OnlyHeard, Heard
<1>8. Nested'
  BY <1>1, <1>2, <1>4 DEF Nested, Pending
<1>9. Rooted'
  BY <1>2 DEF Rooted
<1>10. MapsGrow'
  <2>1. ASSUME NEW q \in DOMAIN frames'[1].holds, frames'[1].holds[q] = Mark("map")
        PROVE  \/ IsOld(q)'
               \/ \A k \in KeysUnder(q) : None \notin had[k] => HasEntry(1, q, k)'
    <3>1. \/ IsOld(q)
          \/ \A k \in KeysUnder(q) : None \notin had[k] => HasEntry(1, q, k)
      BY <1>1, <1>2, <1>4, <2>1 DEF MapsGrow
    <3>2. IsOld(q) => IsOld(q)'
      BY <1>2, <1>3 DEF IsOld
    <3>3. \A k : HasEntry(1, q, k) => HasEntry(1, q, k)'
      BY <1>2 DEF HasEntry
    <3> QED BY <3>1, <3>2, <3>3
  <2> QED BY <1>2, <1>3, <2>1 DEF MapsGrow
<1>11. ErrorsAreDue'
  <2>1. Due'
    BY <1>3 DEF Due, WholeTypes, Leaves
  <2> QED BY <2>1 DEF ErrorsAreDue, Due
<1> QED BY <1>5, <1>6, <1>7, <1>8, <1>9, <1>10, <1>11 DEF UnmarshalInv

\* Only what was heard grows.
LEMMA HadKeeps ==
  ASSUME UnmarshalInv, Types', ErrorsAreDue', UNCHANGED <<type, frames, before>>,
         \A k \in Key : had[k] \subseteq had'[k]
  PROVE  UnmarshalInv'
<1>1. /\ Types /\ TasksFit /\ Direct /\ OnlyHeard /\ Nested /\ Rooted /\ MapsGrow
  BY DEF UnmarshalInv
<1>2. ASSUME NEW task \in AnyTask, TaskFits(task)
      PROVE  TaskFits(task)'
  <2>1. PlacesOf(task)' = PlacesOf(task)
    BY DEF PlacesOf
  <2>2. task.do = "configs" => DOMAIN task.found \subseteq Key
    BY <1>2 DEF AnyTask, FillTask, ConfigsTask, EntriesTask
  <2>3. task.do = "entries" => task.keys \subseteq Key
    BY <1>2 DEF AnyTask, FillTask, ConfigsTask, EntriesTask
  <2>4. task.do = "configs" =>
          /\ \A k \in DOMAIN task.found : task.found[k] \in had'[k]
          /\ \A k \in Key \ task.left : None \notin had'[k] => k \in DOMAIN task.found
    BY <1>2, <2>2 DEF TaskFits
  <2>5. task.do = "entries" =>
          \A k \in task.keys : IsStrictPrefix(task.path, k) /\ ~(had'[k] \subseteq {None})
    BY <1>2, <2>3 DEF TaskFits
  <2> QED BY <1>2, <2>1, <2>4, <2>5 DEF TaskFits
<1>3. TasksFit'
  <2>1. \A i : Pending(i)' = Pending(i)
    BY DEF Pending
  <2> QED BY <1>1, <1>2, <2>1, PendingTasks DEF TasksFit
<1>4. Direct' /\ Nested' /\ Rooted'
  BY <1>1 DEF Direct, PlacesOf, Pending, Nested, Rooted, Makes
<1>5. OnlyHeard'
  <2>1. \A p, x : Heard(p, x) => Heard(p, x)'
    BY DEF Heard
  <2> QED BY <1>1, <2>1 DEF OnlyHeard
<1>6. MapsGrow'
  <2>1. \A i, q, k : /\ HasEntry(i, q, k) => HasEntry(i, q, k)'
                     /\ WillHaveEntry(i, q, k) => WillHaveEntry(i, q, k)'
    BY DEF HasEntry, WillHaveEntry, Pending
  <2>2. \A q : IsOld(q) => IsOld(q)'
    BY DEF IsOld
  <2>3. \A q : \A k \in KeysUnder(q) : None \notin had'[k] => None \notin had[k]
    BY DEF KeysUnder
  <2> QED BY <1>1, <2>1, <2>2, <2>3 DEF MapsGrow
<1> QED BY <1>1, <1>3, <1>4, <1>5, <1>6 DEF UnmarshalInv

-----------------------------------------------------------------------------
(***************************************************************************)
(* Every step keeps the invariant.                                         *)
(***************************************************************************)

LEMMA PlaceMeans ==
  ASSUME Types, NEW place \in Place[type]
  PROVE  /\ place = [path |-> place.path, type |-> place.type, inMap |-> place.inMap]
         /\ place.path \in Path /\ place.inMap \in BOOLEAN
         /\ place.type \in AnyType /\ place.type.to \in AnyType
         /\ IsBasic(place.type) \/ place.type.kind \in {"struct", "ptr", "map"}
         /\ place.type.kind = "struct" =>
              /\ Len(place.type.fields) \in Nat
              /\ DOMAIN place.type.fields = 1..Len(place.type.fields)
         /\ place.type.kind = "ptr" => place.type.to.kind # "ptr"
         /\ Parts(place) \subseteq Place[type]
<1>1. type \in Type
  BY DEF Types
<1>2. place.type \in AnyType /\ place.type.to \in AnyType
  BY <1>1 DEF AnyType
<1> QED BY <1>1, <1>2, TypeAssumption DEF Path

LEMMA StructParts ==
  ASSUME NEW place, place.type.kind = "struct",
         NEW i \in 1..FieldsFilled(place.type.fields)
  PROVE  [path |-> Append(place.path, place.type.fields[i].tag),
          type |-> place.type.fields[i].type, inMap |-> place.inMap] \in Parts(place)
<1>1. Parts(place) =
        {[path |-> Append(place.path, place.type.fields[j].tag),
          type |-> place.type.fields[j].type, inMap |-> place.inMap] :
            j \in 1..FieldsFilled(place.type.fields)}
  BY DEF Parts, IsBasic
<1> QED BY <1>1

LEMMA PtrParts ==
  ASSUME NEW place, place.type.kind = "ptr",
         place = [path |-> place.path, type |-> place.type, inMap |-> place.inMap]
  PROVE  [path |-> place.path, type |-> place.type.to, inMap |-> place.inMap]
           \in Parts(place)
<1>1. Parts(place) = {[place EXCEPT !.type = place.type.to]}
  BY DEF Parts, IsBasic
<1>2. [place EXCEPT !.type = place.type.to] =
        [path |-> place.path, type |-> place.type.to, inMap |-> place.inMap]
  OBVIOUS
<1> QED BY <1>1, <1>2

LEMMA MapParts ==
  ASSUME NEW place, place.type.kind = "map", NEW k \in KeysUnder(place.path)
  PROVE  [path |-> EntryPath(place.path, place.type.to, k),
          type |-> place.type.to, inMap |-> TRUE] \in Parts(place)
<1>1. Parts(place) =
        {[path |-> EntryPath(place.path, place.type.to, j),
          type |-> place.type.to, inMap |-> TRUE] : j \in KeysUnder(place.path)}
  BY DEF Parts, IsBasic
<1> QED BY <1>1

LEMMA WithNothing ==
  ASSUME NEW p \in Path, NEW x \in Content
  PROVE  /\ With(Nothing, p, x) \in Holds
         /\ DOMAIN With(Nothing, p, x) = {p}
         /\ With(Nothing, p, x)[p] = x
<1>1. With(Nothing, p, x) \in Holds
  BY NothingHolds, WithHolds
<1> QED BY <1>1 DEF With, Nothing

\* The first task is one of the frame.
LEMMA TaskSuits ==
  ASSUME UnmarshalInv, Top.todo # <<>>
  PROVE  /\ Types /\ Suits(Task) /\ Task \in AnyTask
         /\ Task.path \in Path /\ Top.path \in Path /\ Top.holds \in Holds
         /\ Task.do = "fill" => Task \in FillTask
         /\ Task.do = "configs" => Task \in ConfigsTask
         /\ Task.do = "entries" => Task \in EntriesTask
<1>1. /\ Types /\ TasksFit /\ Direct /\ Nested
  BY DEF UnmarshalInv
<1>2. /\ Len(frames) \in Nat \ {0} /\ Len(frames) \in 1..Len(frames)
      /\ Top = frames[Len(frames)] /\ Top \in Frame
  BY <1>1, TopIsFrame
<1>3. Task \in Pending(Len(frames)) /\ Task \in AnyTask
  BY <1>1, TaskIsPending
<1>4. Suits(Task)
  BY <1>1, <1>2, <1>3 DEF Suits, TasksFit, Direct, Nested
<1>5. /\ Task.path \in Path
      /\ Task.do = "fill" => Task \in FillTask
      /\ Task.do = "configs" => Task \in ConfigsTask
      /\ Task.do = "entries" => Task \in EntriesTask
  BY <1>3 DEF AnyTask, FillTask, ConfigsTask, EntriesTask
<1> QED BY <1>1, <1>2, <1>3, <1>4, <1>5 DEF Frame

LEMMA SetValueKeeps ==
  ASSUME UnmarshalInv, SetValue
  PROVE  UnmarshalInv'
<1>1. /\ result = "running" /\ Top.todo # <<>> /\ Task.do = "fill" /\ IsBasic(Task.type)
  BY DEF SetValue, Now
<1>2. /\ Types /\ Suits(Task) /\ Task.path \in Path /\ Top.holds \in Holds
  BY <1>1, TaskSuits
<1>3. ~Makes(Task)
  BY <1>1 DEF Makes, IsBasic
<1>4. <<>> \in Seq(AnyTask) /\ Range(<<>>) = {}
  BY ShortTasks
<1>5. PICK place \in Place[type] :
        /\ place.path = Task.path /\ place.type = Task.type
        /\ Len(frames) = 1 => ~place.inMap
  BY <1>1, <1>2 DEF Suits, TaskFits, PlacesOf
<1>6. PICK v : v = GetConfig(Task.path)
  OBVIOUS
<1>7. v # None => Task.path \in Key /\ v \in Value /\ v \in had[Task.path]
  BY <1>2, <1>6 DEF GetConfig, Types
<1>8. CASE v = None /\ Then(<<>>) /\ Quiet
  BY <1>1, <1>3, <1>4, <1>8, ThenKeeps
<1>9. CASE v # None /\ ~Converts(Task.type) /\ Fail
  <2>1. place \in Leaves /\ place.type.kind = "interface"
    BY <1>1, <1>5, <1>9 DEF Leaves, Converts
  <2>2. had[place.path] # {None}
    BY <1>5, <1>7, <1>9, UnmarshalAssumption
  <2>3. Due
    BY <1>5, <1>7, <1>9, <2>1, <2>2 DEF Due
  <2> QED BY <1>1, <1>9, <2>3, FailKeeps
<1>10. CASE /\ v # None /\ Converts(Task.type)
            /\ Write(With(Top.holds, Task.path, ToRvalueType(v, Task.type)), <<>>)
            /\ Quiet
  <2> DEFINE x == ToRvalueType(v, Task.type)
  <2>1. x \in BasicValue /\ Fits(x, x.type, v)
    BY <1>1, <1>7, <1>10, Converted
  <2>2. Write(With(Top.holds, Task.path, x), <<>>)
    BY <1>10
  <2> HIDE DEF x
  <2>3. Heard(Task.path, x)
    BY <1>7, <1>10, <2>1 DEF Heard
  <2>4. IsPrefix(Top.path, Task.path)
    BY <1>2 DEF Suits
  <2> QED BY <1>1, <1>2, <1>3, <1>4, <1>5, <1>10, <2>1, <2>2, <2>3, <2>4, ValueKeeps
<1> QED BY <1>6, <1>8, <1>9, <1>10 DEF SetValue

LEMMA HandleStructKeeps ==
  ASSUME UnmarshalInv, HandleStruct
  PROVE  UnmarshalInv'
<1>1. /\ result = "running" /\ Top.todo # <<>> /\ Task.do = "fill"
      /\ Task.type.kind = "struct" /\ Quiet
  BY DEF HandleStruct, NowFill, Now
<1>2. /\ Types /\ Suits(Task) /\ Task.path \in Path /\ Top.path \in Path
  BY <1>1, TaskSuits
<1>3. PICK place \in Place[type] :
        /\ place.path = Task.path /\ place.type = Task.type
        /\ Len(frames) = 1 => ~place.inMap
  BY <1>1, <1>2 DEF Suits, TaskFits, PlacesOf
<1> DEFINE fields == Task.type.fields
           n == FieldsFilled(fields)
           Part(i) == [path |-> Append(Task.path, fields[i].tag),
                       type |-> fields[i].type, inMap |-> place.inMap]
           F(i) == Fill(fields[i].type, Append(Task.path, fields[i].tag))
           tasks == [i \in 1..n |-> F(i)]
<1>4. n \in Nat
  BY <1>1, <1>2, <1>3, PlaceMeans, FieldsAreCounted
<1>5. ASSUME NEW i \in 1..n
      PROVE  F(i) \in AnyTask /\ Suits(F(i))
  <2>1. Part(i) \in Place[type]
    <3>1. Part(i) \in Parts(place)
      BY <1>1, <1>3, StructParts
    <3> QED BY <1>2, <3>1, PlaceMeans
  <2>2. /\ Append(Task.path, fields[i].tag) \in Path /\ fields[i].type \in AnyType
    <3>1. Part(i).path \in Path /\ Part(i).type \in AnyType
      BY <1>2, <2>1, PlaceMeans
    <3> QED BY <3>1
  <2>3. F(i) \in FillTask
    BY <2>2 DEF Fill, FillTask
  <2>4. Part(i) \in PlacesOf(F(i))
    BY <2>1 DEF PlacesOf, Fill
  <2>5. IsPrefix(Top.path, F(i).path)
    <3>1. IsPrefix(Task.path, Append(Task.path, fields[i].tag))
      BY <1>2, <2>2, AppendPath
    <3>2. IsPrefix(Top.path, Task.path)
      BY <1>2 DEF Suits
    <3>3. IsPrefix(Top.path, Append(Task.path, fields[i].tag))
      BY <1>2, <2>2, <3>1, <3>2, PrefixTransitive
    <3> QED BY <3>3 DEF Fill
  <2>6. F(i).do = "fill"
    BY DEF Fill
  <2>7. TaskFits(F(i))
    BY <2>4, <2>6 DEF TaskFits
  <2>8. Len(frames) = 1 => ~Part(i).inMap
    BY <1>3
  <2> HIDE DEF F, Part
  <2> QED BY <2>3, <2>4, <2>5, <2>6, <2>7, <2>8 DEF AnyTask, Suits
<1>6. Then(tasks)
  BY <1>1 DEF HandleStruct
<1> HIDE DEF n, F
<1>7. /\ tasks \in Seq(AnyTask)
      /\ \A task \in Range(tasks) : Suits(task)
  BY <1>4, <1>5, SeqDef DEF Range
<1>8. ~Makes(Task)
  BY <1>1 DEF Makes
<1> HIDE DEF tasks
<1> QED BY <1>1, <1>6, <1>7, <1>8, ThenKeeps

LEMMA HandlePtrKeeps ==
  ASSUME UnmarshalInv, HandlePtr
  PROVE  UnmarshalInv'
<1>1. /\ result = "running" /\ Top.todo # <<>> /\ Task.do = "fill"
      /\ Task.type.kind = "ptr" /\ Quiet
  BY DEF HandlePtr, NowFill, Now
<1>2. /\ Types /\ Suits(Task) /\ Task.path \in Path /\ Top.path \in Path
      /\ IsPrefix(Top.path, Task.path)
  BY <1>1, TaskSuits DEF Suits
<1>3. PICK place \in Place[type] :
        /\ place.path = Task.path /\ place.type = Task.type
        /\ Len(frames) = 1 => ~place.inMap
  BY <1>1, <1>2 DEF Suits, TaskFits, PlacesOf
<1> DEFINE fill == Fill(Task.type.to, Task.path)
           part == [path |-> Task.path, type |-> Task.type.to, inMap |-> place.inMap]
<1>4. part \in Place[type]
  <2>1. part \in Parts(place)
    <3>1. place = [path |-> place.path, type |-> place.type, inMap |-> place.inMap]
      BY <1>2, PlaceMeans
    <3> QED BY <1>1, <1>3, <3>1, PtrParts
  <2> QED BY <1>2, <2>1, PlaceMeans
<1>5. /\ fill \in AnyTask /\ fill.path = Task.path /\ fill.do = "fill"
      /\ part \in PlacesOf(fill)
  <2>1. Task.type.to \in AnyType
    BY <1>2, <1>3, PlaceMeans
  <2> QED BY <1>2, <1>4, <2>1 DEF Fill, FillTask, AnyTask, PlacesOf
<1>6. Suits(fill) /\ TaskFits(fill)
  <2>1. Len(frames) = 1 => ~part.inMap
    BY <1>3
  <2> HIDE DEF fill, part
  <2> QED BY <1>2, <1>5, <2>1 DEF Suits, TaskFits
<1>7. /\ <<fill>> \in Seq(AnyTask) /\ Range(<<fill>>) = {fill}
      /\ <<>> \in Seq(AnyTask) /\ Range(<<>>) = {}
  BY <1>5, ShortTasks
<1>8. CASE Task.path \in DOMAIN Top.holds /\ Then(<<fill>>)
  <2> HIDE DEF fill
  <2> QED BY <1>1, <1>6, <1>7, <1>8, ThenKeeps
<1>9. CASE Build(Task.path, With(Nothing, Task.path, Mark("pointer")), <<fill>>, <<>>)
  <2> DEFINE holds == With(Nothing, Task.path, Mark("pointer"))
  <2>1. Mark("pointer") \in Marks /\ Mark("pointer") \in Content /\ Mark("pointer") # Mark("map")
    BY DEF Marks, Content, Mark
  <2>2. holds \in Holds /\ DOMAIN holds = {Task.path} /\ holds[Task.path] = Mark("pointer")
    BY <1>2, <2>1, WithNothing
  <2>3. Build(Task.path, holds, <<fill>>, <<>>)
    BY <1>9
  <2>4. IsPrefix(Task.path, fill.path)
    BY <1>2, <1>5, PrefixItself
  <2> HIDE DEF fill, holds
  <2>5. \A p \in DOMAIN holds : p = Task.path /\ holds[p] \in Marks
    BY <2>1, <2>2
  <2>6. \A task \in Range(<<fill>>) : TaskFits(task) /\ IsPrefix(Task.path, task.path)
    BY <1>6, <1>7, <2>4
  <2>7. Task.path \in DOMAIN holds /\ holds[Task.path] # Mark("map")
    BY <2>1, <2>2
  <2> QED BY <1>1, <1>2, <1>3, <1>7, <2>2, <2>3, <2>5, <2>6, <2>7, BuildKeeps
<1> QED BY <1>8, <1>9 DEF HandlePtr

LEMMA HandleMapKeeps ==
  ASSUME UnmarshalInv, HandleMap
  PROVE  UnmarshalInv'
<1>1. /\ result = "running" /\ Top.todo # <<>> /\ Task.do = "fill"
      /\ Task.type.kind = "map" /\ Quiet
  BY DEF HandleMap, NowFill, Now
<1>2. /\ Types /\ Suits(Task) /\ Task.path \in Path
      /\ IsPrefix(Top.path, Task.path)
  BY <1>1, TaskSuits DEF Suits
<1>3. PICK place \in Place[type] :
        /\ place.path = Task.path /\ place.type = Task.type
        /\ Len(frames) = 1 => ~place.inMap
  BY <1>1, <1>2 DEF Suits, TaskFits, PlacesOf
<1> DEFINE task == [do |-> "configs", type |-> Task.type.to, path |-> Task.path,
                    left |-> Key, found |-> Nothing]
<1>4. task \in AnyTask
  <2>1. Task.type.to \in AnyType
    BY <1>2, <1>3, PlaceMeans
  <2>2. Nothing \in [{} -> Value]
    BY DEF Nothing
  <2> QED BY <1>2, <2>1, <2>2 DEF AnyTask, ConfigsTask
<1>5. /\ task.do = "configs" /\ task.path = Task.path
      /\ task.left = Key /\ DOMAIN task.found = {}
      /\ place \in PlacesOf(task)
  BY <1>1, <1>3, NothingHolds DEF PlacesOf
<1>6. Then(<<task>>)
  BY DEF HandleMap
<1> HIDE DEF task
<1>7. Suits(task)
  BY <1>2, <1>3, <1>5 DEF Suits, TaskFits
<1>8. <<task>> \in Seq(AnyTask) /\ Range(<<task>>) = {task}
  BY <1>4, ShortTasks
<1>9. Makes(task)
  BY <1>5 DEF Makes
<1> QED BY <1>1, <1>5, <1>6, <1>7, <1>8, <1>9, ThenKeeps

\* The places a task about a map is about.
LEMMA MapPlace ==
  ASSUME TaskFits(Task), Task.do # "fill"
  PROVE  \E place \in Place[type] :
           /\ place \in PlacesOf(Task)
           /\ place.path = Task.path
           /\ place.type.kind = "map" /\ place.type.to = Task.type
BY DEF TaskFits, PlacesOf

LEMMA ConfigsKeeps ==
  ASSUME UnmarshalInv, NEW k \in Key, Configs(k)
  PROVE  UnmarshalInv'
<1>1. /\ result = "running" /\ Top.todo # <<>> /\ Task.do = "configs"
      /\ k \in Task.left /\ Quiet
  BY DEF Configs, Now
<1>2. /\ Types /\ Suits(Task) /\ Task \in ConfigsTask
  BY <1>1, TaskSuits
<1> DEFINE found == IF config[k] = None THEN Task.found
                    ELSE With(Task.found, k, config[k])
           task == [Task EXCEPT !.left = @ \ {k}, !.found = found]
<1>3. Then(<<task>>)
  BY DEF Configs
<1>4. PICK D \in SUBSET Key : Task.found \in [D -> Value]
  BY <1>2 DEF ConfigsTask
<1>5. /\ found \in UNION {[E -> Value] : E \in SUBSET Key}
      /\ DOMAIN Task.found \subseteq DOMAIN found
      /\ config[k] # None => k \in DOMAIN found
      /\ \A l \in DOMAIN found :
           \/ l \in DOMAIN Task.found /\ found[l] = Task.found[l]
           \/ l = k /\ found[l] = config[k]
  <2>1. CASE config[k] = None
    BY <1>4, <2>1
  <2>2. CASE config[k] # None
    <3>1. config[k] \in Value
      BY <1>2, <2>2 DEF Types
    <3>2. found \in [D \cup {k} -> Value]
      BY <1>4, <2>2, <3>1 DEF With
    <3> QED BY <1>4, <2>2, <3>2 DEF With
  <2> QED BY <2>1, <2>2
<1> HIDE DEF found
<1>6. /\ task \in ConfigsTask /\ task.do = "configs" /\ task.path = Task.path
      /\ task.type = Task.type /\ task.left = Task.left \ {k} /\ task.found = found
  BY <1>2, <1>5 DEF ConfigsTask
<1> HIDE DEF task
<1>7. PlacesOf(task) = PlacesOf(Task)
  BY <1>1, <1>6 DEF PlacesOf
<1>8. TaskFits(task)
  <2>1. /\ config[k] \in had[k]
        /\ \A l \in DOMAIN Task.found : Task.found[l] \in had[l]
        /\ \A l \in Key \ Task.left : None \notin had[l] => l \in DOMAIN Task.found
    BY <1>1, <1>2 DEF Types, Suits, TaskFits
  <2>2. \A l \in DOMAIN task.found : task.found[l] \in had[l]
    BY <1>5, <1>6, <2>1
  <2>3. \A l \in Key \ task.left : None \notin had[l] => l \in DOMAIN task.found
    BY <1>5, <1>6, <2>1
  <2> QED BY <1>2, <1>6, <1>7, <2>2, <2>3 DEF TaskFits, Suits
<1>9. Suits(task)
  BY <1>2, <1>6, <1>7, <1>8 DEF Suits
<1>10. <<task>> \in Seq(AnyTask) /\ Range(<<task>>) = {task}
  BY <1>6, ShortTasks DEF AnyTask
<1>11. Makes(task)
  BY <1>6 DEF Makes
<1> QED BY <1>1, <1>3, <1>6, <1>9, <1>10, <1>11, ThenKeeps

LEMMA WholeMapKeeps ==
  ASSUME UnmarshalInv, WholeMap
  PROVE  UnmarshalInv'
<1>1. /\ result = "running" /\ Top.todo # <<>> /\ Task.do = "configs"
      /\ Task.path = <<>>
  BY DEF WholeMap, NowHasAll, Now
<1>2. /\ Types /\ Suits(Task) /\ Task \in ConfigsTask
      /\ Top.path \in Path /\ Task.path \in Path
  BY <1>1, TaskSuits
<1>3. PICK place \in Place[type] :
        /\ place \in PlacesOf(Task)
        /\ place.path = Task.path
        /\ place.type.kind = "map" /\ place.type.to = Task.type
  BY <1>1, <1>2, MapPlace DEF Suits
<1>4. CASE Converts(Task.type) /\ Fail
  <2>1. place.type \in WholeTypes /\ place.type.to.kind # "interface"
    BY <1>1, <1>3, <1>4 DEF WholeTypes, Converts
  <2>2. Due
    BY <2>1 DEF Due
  <2> QED BY <1>1, <1>4, <2>2, FailKeeps
<1>5. CASE Write(Task.found, <<>>) /\ Quiet
  <2>1. PICK found : found = Task.found
    OBVIOUS
  <2>2. PICK D \in SUBSET Key : found \in [D -> Value]
    BY <1>2, <2>1 DEF ConfigsTask
  <2>3. found \in Holds
    <3>1. D \subseteq Path /\ Value \subseteq Content
      BY UnmarshalAssumption DEF Path, Content
    <3>2. found \in [DOMAIN found -> Content] /\ DOMAIN found \subseteq Path
      BY <2>2, <3>1
    <3> QED BY <3>2, HoldsMeans
  <2>4. <<>> \in Seq(AnyTask) /\ Range(<<>>) = {}
    BY ShortTasks
  <2>5. Written(found, <<>>)
    BY <1>1, <1>2, <1>5, <2>1, <2>3, <2>4, WriteFrames
  <2>6. Top.path = <<>>
    BY <1>1, <1>2, PrefixOfRoot DEF Suits
  <2>7. /\ TasksFit /\ Direct /\ OnlyHeard /\ Nested /\ Rooted /\ MapsGrow /\ ErrorsAreDue
    BY DEF UnmarshalInv
  <2>8. type' = type /\ had' = had /\ before' = before
    BY <1>5 DEF Quiet
  <2>9. Types'
    <3>1. frames' \in Seq(Frame) /\ Len(frames') > 0
      BY <1>2, <2>5, TopIsFrame DEF Written
    <3> QED BY <1>1, <1>2, <1>5, <3>1, QuietKeepsTypes
  <2>10. TasksFit' /\ Direct'
    BY <1>2, <2>4, <2>5, <2>7, <2>8, WriteKeepsTasks
  <2>11. Nested'
    <3>1. \A p \in DOMAIN found : IsPrefix(Top.path, p)
      BY <2>3, <2>6, HoldsMeans, PrefixItself
    <3> QED BY <1>2, <2>4, <2>5, <2>7, <3>1, WriteKeepsNested
  <2>12. OnlyHeard'
    <3>1. ASSUME NEW p \in DOMAIN found PROVE Heard(p, found[p])
      <4>1. found[p] \in had[p] /\ found[p] \in Value /\ p \in Key
        BY <1>1, <1>2, <2>1, <2>2 DEF Suits, TaskFits
      <4> QED BY <4>1, UnmarshalAssumption DEF Heard
    <3> QED BY <1>2, <2>5, <2>7, <2>8, <3>1, WriteKeepsHeard
  <2>13. Rooted'
    BY <1>2, <2>5, <2>6, <2>7, WriteKeepsRooted
  <2>14. MapsGrow'
    <3>1. \A q \in DOMAIN found : found[q] # Mark("map")
      BY <2>2, ValuesAreNoMarks
    <3> QED BY <1>2, <2>5, <2>7, <2>8, <3>1, WriteKeepsMaps
  <2> QED BY <1>5, <2>7, <2>9, <2>10, <2>11, <2>12, <2>13, <2>14, QuietKeepsErrors
          DEF UnmarshalInv
<1> QED BY <1>4, <1>5 DEF WholeMap

LEMMA PopulateMapKeeps ==
  ASSUME UnmarshalInv, PopulateMap
  PROVE  UnmarshalInv'
<1>1. /\ result = "running" /\ Top.todo # <<>> /\ Task.do = "configs"
      /\ Task.left = {} /\ Quiet
  BY DEF PopulateMap, NowHasAll, Now
<1>2. /\ Types /\ Suits(Task) /\ Task \in ConfigsTask
      /\ Top.path \in Path /\ Task.path \in Path /\ IsPrefix(Top.path, Task.path)
  BY <1>1, TaskSuits DEF Suits
<1>3. PICK place \in Place[type] :
        /\ place \in PlacesOf(Task) /\ place.path = Task.path
        /\ place.type.kind = "map" /\ place.type.to = Task.type
  BY <1>1, <1>2, MapPlace DEF Suits
<1> DEFINE holds == With(Nothing, Task.path, Mark("map"))
<1>4. Build(Task.path, holds, <<Entries>>, <<>>)
  BY DEF PopulateMap
<1>5. /\ holds \in Holds /\ DOMAIN holds = {Task.path}
      /\ holds[Task.path] \in Marks
  <2>1. Mark("map") \in Marks /\ Mark("map") \in Content
    BY DEF Marks, Content
  <2> QED BY <1>2, <2>1, WithNothing
<1>6. /\ Entries \in AnyTask /\ Entries.do = "entries" /\ Entries.path = Task.path
      /\ Entries.type = Task.type
      /\ Entries.keys = KeysUnder(Task.path) \cap DOMAIN Task.found
  BY <1>2 DEF Entries, AnyTask, ConfigsTask, EntriesTask, KeysUnder
<1> HIDE DEF holds
<1>7. TaskFits(Entries)
  <2>1. place \in PlacesOf(Entries)
    BY <1>3, <1>6 DEF PlacesOf
  <2>2. ASSUME NEW k \in Entries.keys
        PROVE  IsStrictPrefix(Entries.path, k) /\ ~(had[k] \subseteq {None})
    <3>1. Task.found[k] \in had[k]
      BY <1>1, <1>2, <1>6 DEF Suits, TaskFits
    <3>2. Task.found[k] \in Value
      BY <1>2, <1>6 DEF ConfigsTask
    <3> QED BY <1>6, <3>1, <3>2, UnmarshalAssumption DEF KeysUnder
  <2> QED BY <1>6, <2>1, <2>2 DEF TaskFits
<1>8. ASSUME NEW k \in KeysUnder(Task.path), None \notin had[k]
      PROVE  k \in Entries.keys
  <2>1. k \in Key \ Task.left
    BY <1>1 DEF KeysUnder
  <2>2. k \in DOMAIN Task.found
    BY <1>1, <1>2, <1>8, <2>1 DEF Suits, TaskFits
  <2> QED BY <1>6, <2>2
<1>9. /\ <<Entries>> \in Seq(AnyTask) /\ Range(<<Entries>>) = {Entries}
      /\ <<>> \in Seq(AnyTask) /\ Range(<<>>) = {}
  BY <1>6, ShortTasks
<1>10. \A task \in Range(<<Entries>>) : TaskFits(task) /\ IsPrefix(Task.path, task.path)
  BY <1>2, <1>6, <1>7, <1>9, PrefixItself
<1>11. Len(frames) = 1 => \E p \in Place[type] : p.path = Task.path /\ ~p.inMap
  BY <1>2 DEF Suits, PlacesOf
<1>12. \E task \in Range(<<Entries>>) :
         /\ task.do = "entries" /\ task.path = Task.path
         /\ \A k \in KeysUnder(Task.path) : None \notin had[k] => k \in task.keys
  BY <1>6, <1>8, <1>9
<1> QED BY <1>1, <1>2, <1>4, <1>5, <1>9, <1>10, <1>11, <1>12, BuildKeeps

\* The keys left after an entry is made.
LEMMA RestSuits ==
  ASSUME UnmarshalInv, Top.todo # <<>>, Task.do = "entries", NEW k \in Task.keys
  PROVE  /\ Rest(k) \in AnyTask /\ Suits(Rest(k))
         /\ Rest(k).do = "entries" /\ Rest(k).path = Task.path
         /\ Rest(k).keys = Task.keys \ {k}
         /\ <<Rest(k)>> \in Seq(AnyTask) /\ Range(<<Rest(k)>>) = {Rest(k)}
         /\ Len(frames) # 1
<1>1. Types /\ Suits(Task) /\ Task \in EntriesTask
  BY TaskSuits
<1>2. /\ Rest(k) \in EntriesTask
      /\ Rest(k).do = "entries" /\ Rest(k).path = Task.path
      /\ Rest(k).type = Task.type /\ Rest(k).keys = Task.keys \ {k}
  BY <1>1 DEF Rest, EntriesTask
<1>3. PlacesOf(Rest(k)) = PlacesOf(Task)
  BY <1>2 DEF PlacesOf
<1>4. TaskFits(Rest(k))
  BY <1>1, <1>2, <1>3 DEF TaskFits, Suits
<1>5. Len(frames) # 1
  BY <1>1 DEF Suits
<1>6. Suits(Rest(k))
  BY <1>1, <1>2, <1>4, <1>5 DEF Suits
<1>7. Rest(k) \in AnyTask
  BY <1>2 DEF AnyTask
<1> QED BY <1>2, <1>5, <1>6, <1>7, ShortTasks

LEMMA BasicEntryKeeps ==
  ASSUME UnmarshalInv, NEW k \in Key, BasicEntry(k)
  PROVE  UnmarshalInv'
<1>1. /\ result = "running" /\ Top.todo # <<>> /\ Task.do = "entries"
      /\ k \in Task.keys /\ IsBasic(Task.type)
  BY DEF BasicEntry, Now
<1>2. /\ Types /\ Suits(Task) /\ Task \in EntriesTask
      /\ Top.path \in Path /\ Task.path \in Path /\ k \in Path
      /\ IsPrefix(Top.path, Task.path)
  BY <1>1, TaskSuits, UnmarshalAssumption DEF Suits, Path
<1>3. IsStrictPrefix(Task.path, k) /\ ~(had[k] \subseteq {None})
  BY <1>1, <1>2 DEF Suits, TaskFits
<1>4. PICK v : v = config[k]
  OBVIOUS
<1>5. v \in Value \cup {None} /\ v \in had[k] /\ GetConfig(k) = v
  BY <1>2, <1>4 DEF Types, GetConfig
<1>6. CASE v = None /\ Fail
  <2>1. Due
    BY <1>3, <1>4, <1>5, <1>6 DEF Due
  <2> QED BY <1>1, <1>6, <2>1, FailKeeps
<1>7. CASE ~Converts(Task.type) /\ Fail
  <2>1. PICK place \in Place[type] :
          /\ place.path = Task.path
          /\ place.type.kind = "map" /\ place.type.to = Task.type
    BY <1>1, <1>2, MapPlace DEF Suits
  <2>2. [path |-> k, type |-> Task.type, inMap |-> TRUE] \in Place[type]
    <3>1. k \in KeysUnder(place.path)
      BY <1>3, <2>1 DEF KeysUnder
    <3>2. EntryPath(place.path, place.type.to, k) = k
      BY <1>1, <2>1 DEF EntryPath
    <3>3. [path |-> k, type |-> Task.type, inMap |-> TRUE] \in Parts(place)
      BY <2>1, <3>1, <3>2, MapParts
    <3> QED BY <1>2, <3>3, PlaceMeans
  <2>3. PICK leaf \in Leaves : leaf.path = k /\ leaf.type = Task.type
    BY <1>1, <2>2 DEF Leaves
  <2>4. Due
    BY <1>3, <1>7, <2>3 DEF Due, Converts
  <2> QED BY <1>1, <1>7, <2>4, FailKeeps
<1>8. CASE /\ v # None /\ Converts(Task.type)
           /\ Write(With(Top.holds, k, ToRvalueType(v, Task.type)), <<Rest(k)>>)
           /\ Quiet
  <2> DEFINE x == ToRvalueType(v, Task.type)
  <2>1. x \in BasicValue /\ Fits(x, x.type, v)
    BY <1>1, <1>5, <1>8, Converted
  <2>2. Write(With(Top.holds, k, x), <<Rest(k)>>)
    BY <1>8
  <2> HIDE DEF x
  <2>3. Heard(k, x)
    BY <1>5, <1>8, <2>1 DEF Heard
  <2>4. IsPrefix(Top.path, k)
    BY <1>2, <1>3, PrefixTransitive DEF IsStrictPrefix
  <2>5. ~Makes(Task)
    BY <1>1 DEF Makes
  <2>6. /\ Suits(Rest(k)) /\ Len(frames) # 1
        /\ Rest(k).do = "entries" /\ Rest(k).path = Task.path
        /\ Rest(k).keys = Task.keys \ {k}
        /\ <<Rest(k)>> \in Seq(AnyTask) /\ Range(<<Rest(k)>>) = {Rest(k)}
    BY <1>1, RestSuits
  <2>7. ASSUME NEW l \in Task.keys
        PROVE  \/ IsStrictPrefix(Task.path, k) /\ IsPrefix(k, l)
               \/ \E task \in Range(<<Rest(k)>>) :
                    task.do = "entries" /\ task.path = Task.path /\ l \in task.keys
    BY <1>2, <1>3, <2>6, PrefixItself
  <2>8. \A task \in Range(<<Rest(k)>>) : Suits(task)
    BY <2>6
  <2> QED BY <1>1, <1>2, <1>8, <2>1, <2>2, <2>3, <2>4, <2>5, <2>6, <2>7, <2>8, ValueKeeps
<1> QED BY <1>5, <1>6, <1>7, <1>8 DEF BasicEntry

LEMMA OtherEntryKeeps ==
  ASSUME UnmarshalInv, NEW k \in Key, OtherEntry(k)
  PROVE  UnmarshalInv'
<1>1. /\ result = "running" /\ Top.todo # <<>> /\ Task.do = "entries"
      /\ k \in Task.keys /\ ~IsBasic(Task.type) /\ Quiet
  BY DEF OtherEntry, Now
<1>2. /\ Types /\ Suits(Task) /\ Task \in EntriesTask
      /\ Top.path \in Path /\ Task.path \in Path
      /\ IsPrefix(Top.path, Task.path) /\ Task.type \in AnyType
  BY <1>1, TaskSuits DEF Suits, EntriesTask
<1>3. PICK place \in Place[type] :
        /\ place.path = Task.path
        /\ place.type.kind = "map" /\ place.type.to = Task.type
  BY <1>1, <1>2, MapPlace DEF Suits
<1>4. k \in KeysUnder(Task.path)
  BY <1>1, <1>2 DEF Suits, TaskFits, KeysUnder
<1>5. PICK mapKey : mapKey = EntryPath(Task.path, Task.type, k)
  OBVIOUS
<1>6. /\ mapKey \in Path /\ IsStrictPrefix(Task.path, mapKey) /\ IsPrefix(mapKey, k)
  BY <1>2, <1>4, <1>5, EntryIsUnderMap
<1> DEFINE fill == Fill(Task.type, mapKey)
           part == [path |-> mapKey, type |-> Task.type, inMap |-> TRUE]
           zero == IF Task.type.kind = "struct"
                   THEN With(Nothing, mapKey, Mark("struct")) ELSE Nothing
           fills == IF Task.type.kind = "ptr" THEN <<fill, fill>> ELSE <<fill>>
<1>7. Build(mapKey, zero, fills, <<Rest(k)>>)
  BY <1>5 DEF OtherEntry
<1>8. part \in Place[type]
  <2>1. part \in Parts(place)
    BY <1>3, <1>4, <1>5, MapParts
  <2> QED BY <1>2, <2>1, PlaceMeans
<1>9. Task.type.kind \in {"struct", "ptr", "map"}
  <2>1. IsBasic(part.type) \/ part.type.kind \in {"struct", "ptr", "map"}
    BY <1>2, <1>8, PlaceMeans
  <2> QED BY <1>1, <2>1
<1>10. /\ fill \in AnyTask /\ fill.do = "fill" /\ fill.path = mapKey
       /\ fill.type = Task.type /\ part \in PlacesOf(fill)
  BY <1>2, <1>6, <1>8 DEF Fill, FillTask, AnyTask, PlacesOf
<1>11. /\ zero \in Holds /\ DOMAIN zero \subseteq {mapKey}
       /\ \A p \in DOMAIN zero : zero[p] \in Marks /\ zero[p] # Mark("map")
       /\ Task.type.kind = "struct" => mapKey \in DOMAIN zero
  <2>1. /\ Mark("struct") \in Marks /\ Mark("struct") \in Content
        /\ Mark("struct") # Mark("map")
    BY DEF Marks, Content, Mark
  <2>2. CASE Task.type.kind = "struct"
    <3> DEFINE new == With(Nothing, mapKey, Mark("struct"))
    <3>1. new \in Holds /\ DOMAIN new = {mapKey} /\ new[mapKey] = Mark("struct")
      BY <1>6, <2>1, WithNothing
    <3>2. zero = new
      BY <2>2
    <3> HIDE DEF new, zero
    <3> QED BY <2>1, <3>1, <3>2
  <2>3. CASE Task.type.kind # "struct"
    BY <2>3, NothingHolds
  <2> QED BY <2>2, <2>3
<1> HIDE DEF fill, zero, part
<1>12. fills \in Seq(AnyTask) /\ Range(fills) = {fill}
  BY <1>10, ShortTasks
<1> HIDE DEF fills
<1>13. TaskFits(fill)
  BY <1>10 DEF TaskFits
<1>14. Task.type.kind # "struct" => Makes(fill)
  BY <1>9, <1>10 DEF Makes
<1>15. /\ Suits(Rest(k)) /\ Len(frames) # 1
       /\ Rest(k).do = "entries" /\ Rest(k).path = Task.path
       /\ Rest(k).keys = Task.keys \ {k}
       /\ <<Rest(k)>> \in Seq(AnyTask) /\ Range(<<Rest(k)>>) = {Rest(k)}
  BY <1>1, RestSuits
<1>16. IsPrefix(Top.path, mapKey)
  BY <1>2, <1>6, PrefixTransitive DEF IsStrictPrefix
<1>17. \A p \in DOMAIN zero : p = mapKey /\ zero[p] \in Marks
  BY <1>11
<1>18. \A task \in Range(fills) : TaskFits(task) /\ IsPrefix(mapKey, task.path)
  BY <1>6, <1>10, <1>12, <1>13, PrefixItself
<1>19. \A task \in Range(<<Rest(k)>>) : Suits(task)
  BY <1>15
<1>20. \/ mapKey \in DOMAIN zero
       \/ \E task \in Range(fills) : task.path = mapKey /\ Makes(task)
  BY <1>10, <1>11, <1>12, <1>14
<1>21. ~Makes(Task)
  BY <1>1 DEF Makes
<1>22. ~(mapKey \in DOMAIN zero /\ zero[mapKey] = Mark("map"))
  BY <1>11
<1>23. ASSUME NEW l \in Task.keys
       PROVE  \/ IsStrictPrefix(Task.path, mapKey) /\ IsPrefix(mapKey, l)
              \/ \E task \in Range(<<Rest(k)>>) :
                   task.do = "entries" /\ task.path = Task.path /\ l \in task.keys
  BY <1>6, <1>15
<1> QED BY <1>1, <1>6, <1>7, <1>11, <1>12, <1>15, <1>16, <1>17, <1>18, <1>19, <1>20,
           <1>21, <1>22, <1>23, BuildKeeps

LEMMA EndOfMapKeeps ==
  ASSUME UnmarshalInv, EndOfMap
  PROVE  UnmarshalInv'
<1>1. /\ result = "running" /\ Top.todo # <<>> /\ Task.do = "entries"
      /\ Task.keys = {} /\ Then(<<>>) /\ Quiet
  BY DEF EndOfMap, Now
<1>2. <<>> \in Seq(AnyTask) /\ Range(<<>>) = {}
  BY ShortTasks
<1>3. ~Makes(Task)
  BY <1>1 DEF Makes
<1> QED BY <1>1, <1>2, <1>3, ThenKeeps

LEMMA ReturnKeeps ==
  ASSUME UnmarshalInv, Return
  PROVE  UnmarshalInv'
<1>1. Types'
  BY DEF UnmarshalInv, Types, Return, Top
<1>2. ErrorsAreDue'
  BY DEF ErrorsAreDue, Return
<1>3. \A k \in Key : had[k] \subseteq had'[k]
  BY DEF Return
<1> QED BY <1>1, <1>2, <1>3, HadKeeps DEF Return

LEMMA ChangeKeeps ==
  ASSUME UnmarshalInv, NEW k \in Key, NEW v \in Value \cup {None}, Change(k, v)
  PROVE  UnmarshalInv'
<1>1. Types
  BY DEF UnmarshalInv
<1>2. /\ result = "running" /\ changes < MaxChanges
      /\ config' = [config EXCEPT ![k] = v]
      /\ had' = [had EXCEPT ![k] = had[k] \cup {v}]
      /\ changes' = changes + 1
      /\ UNCHANGED <<type, frames, result, before>>
  BY DEF Change
<1>3. /\ had' \in [Key -> SUBSET (Value \cup {None})]
      /\ \A l \in Key : had[l] \subseteq had'[l] /\ config'[l] \in had'[l]
  BY <1>1, <1>2 DEF Types
<1>4. changes' \in 0..MaxChanges
  BY <1>1, <1>2, UnmarshalAssumption DEF Types
<1>5. config' \in [Key -> Value \cup {None}]
  BY <1>1, <1>2 DEF Types
<1>6. Types'
  BY <1>1, <1>2, <1>3, <1>4, <1>5 DEF Types, Top
<1>7. ErrorsAreDue'
  BY <1>2 DEF ErrorsAreDue
<1> QED BY <1>2, <1>3, <1>6, <1>7, HadKeeps

LEMMA UnmarshalInit == Init => UnmarshalInv
<1> SUFFICES ASSUME Init PROVE UnmarshalInv
  OBVIOUS
<1> DEFINE fill == Fill(type, <<>>)
           frame == [path |-> <<>>, holds |-> before, todo |-> <<fill>>]
           root == [path |-> <<>>, type |-> type, inMap |-> FALSE]
<1>1. /\ config \in [Key -> Value \cup {None}]
      /\ type \in Type /\ before \in Before[type]
      /\ frames = <<frame>> /\ result = "running"
      /\ had = [k \in Key |-> {config[k]}] /\ changes = 0
  BY DEF Init
<1>2. root \in Place[type]
  BY <1>1, TypeAssumption
<1>3. type \in AnyType
  <2>1. root.type \in AnyType
    BY <1>1, <1>2 DEF AnyType
  <2> QED BY <2>1
<1>4. /\ fill \in AnyTask /\ fill.do = "fill" /\ fill.path = <<>>
      /\ root \in PlacesOf(fill)
  BY <1>2, <1>3, RootIsPath DEF Fill, FillTask, AnyTask, PlacesOf
<1>5. before \in Holds
  <2>1. before \in [DOMAIN before -> Content] /\ DOMAIN before \subseteq Path
    BY <1>1, ObjectAssumption DEF Path
  <2> QED BY <2>1, HoldsMeans
<1> HIDE DEF fill
<1>6. /\ frame \in Frame /\ frame.path = <<>> /\ frame.holds = before
      /\ frame.todo # <<>> /\ Range(frame.todo) = {fill}
  BY <1>4, <1>5, RootIsPath, ShortTasks DEF Frame
<1>7. ~root.inMap
  OBVIOUS
<1> HIDE DEF frame, root
<1>8. /\ frames \in Seq(Frame) /\ Len(frames) = 1 /\ frames[1] = frame
      /\ Pending(1) = {fill}
  BY <1>1, <1>6 DEF Pending
<1>9. Types
  BY <1>1, <1>8, UnmarshalAssumption DEF Types
<1>10. TasksFit
  BY <1>4, <1>8 DEF TasksFit, TaskFits
<1>11. Direct
  BY <1>4, <1>7, <1>8 DEF Direct
<1>12. OnlyHeard
  BY <1>6, <1>8 DEF OnlyHeard
<1>13. Nested
  <2>1. \A p \in Path : IsPrefix(<<>>, p)
    BY PrefixItself
  <2>2. DOMAIN before \subseteq Path
    BY <1>5, HoldsMeans
  <2> QED BY <1>4, <1>6, <1>8, <2>1, <2>2, RootIsPath DEF Nested
<1>14. Rooted
  BY <1>8 DEF Rooted
<1>15. MapsGrow
  BY <1>6, <1>8 DEF MapsGrow, IsOld
<1>16. ErrorsAreDue
  BY <1>1 DEF ErrorsAreDue
<1> QED BY <1>9, <1>10, <1>11, <1>12, <1>13, <1>14, <1>15, <1>16 DEF UnmarshalInv

LEMMA UnmarshalStep == UnmarshalInv /\ [Next]_vars => UnmarshalInv'
<1> SUFFICES ASSUME UnmarshalInv, [Next]_vars PROVE UnmarshalInv'
  OBVIOUS
<1>1. CASE SetValue BY <1>1, SetValueKeeps
<1>2. CASE HandleStruct BY <1>2, HandleStructKeeps
<1>3. CASE HandlePtr BY <1>3, HandlePtrKeeps
<1>4. CASE HandleMap BY <1>4, HandleMapKeeps
<1>5. CASE WholeMap BY <1>5, WholeMapKeeps
<1>6. CASE PopulateMap BY <1>6, PopulateMapKeeps
<1>7. CASE EndOfMap BY <1>7, EndOfMapKeeps
<1>8. CASE KeepBuilt BY <1>8, KeepKeeps
<1>9. CASE Return BY <1>9, ReturnKeeps
<1>10. ASSUME NEW k \in Key, Configs(k) PROVE UnmarshalInv'
  BY <1>10, ConfigsKeeps
<1>11. ASSUME NEW k \in Key, BasicEntry(k) PROVE UnmarshalInv'
  BY <1>11, BasicEntryKeeps
<1>12. ASSUME NEW k \in Key, OtherEntry(k) PROVE UnmarshalInv'
  BY <1>12, OtherEntryKeeps
<1>13. ASSUME NEW k \in Key, NEW v \in Value \cup {None}, Change(k, v) PROVE UnmarshalInv'
  BY <1>13, ChangeKeeps
<1>14. CASE UNCHANGED vars
  <2>1. UnmarshalInv' <=> UnmarshalInv
    <3>1. UNCHANGED <<config, type, frames, result, had, before, changes>>
      BY <1>14 DEF vars
    <3>2. Types' /\ ErrorsAreDue' /\ \A k \in Key : had[k] \subseteq had'[k]
      BY <3>1 DEF UnmarshalInv, Types, Top, ErrorsAreDue, WholeTypes, Leaves
    <3> QED BY <3>1, <3>2, HadKeeps
  <2> QED BY <2>1
<1> QED BY <1>1, <1>2, <1>3, <1>4, <1>5, <1>6, <1>7, <1>8, <1>9, <1>10, <1>11, <1>12,
           <1>13, <1>14 DEF Next, Step, Done

-----------------------------------------------------------------------------
(***************************************************************************)
(* What is configured gets to its place, if nothing changes meanwhile: a   *)
(* second invariant, of the calls that are Calm.                           *)
(***************************************************************************)

\* There was no change, and no error.
Calm == result # "error" /\ WholeTypes = {} /\ \A k \in Key : Steady(k)

\* The task will get to the path goal.
Covers(task, goal) ==
  /\ task.do = "fill" => Reaches(task.type, task.path, goal)
  /\ task.do = "configs" => IsPrefix(task.path, goal)
  /\ task.do = "entries" =>
       \E k \in task.keys :
         Reaches(task.type, EntryPath(task.path, task.type, k), goal)

Settled(holds, leaf) ==
  /\ leaf.path \in DOMAIN holds /\ holds[leaf.path] \notin Marks
  /\ Fits(holds[leaf.path], leaf.type.kind, config[leaf.path])

\* The leaf has what is configured, or one of the tasks will get to it.
Met(holds, tasks, leaf) ==
  Settled(holds, leaf) \/ \E task \in tasks : Covers(task, leaf.path)

\* The leaves with something configured, and their paths.
SetLeaves == {leaf \in Leaves : GetConfig(leaf.path) # None}
SetPaths == {leaf.path : leaf \in SetLeaves}

MapPlaces == {place \in Place[type] : place.type.kind = "map"}

\* Frame i is the innermost that goal is in.
Innermost(i, goal) ==
  /\ IsPrefix(frames[i].path, goal)
  /\ i < Len(frames) => ~IsPrefix(frames[i + 1].path, goal)

LeavesMet ==
  \A leaf \in SetLeaves : \A i \in 1..Len(frames) :
    Innermost(i, leaf.path) => Met(frames[i].holds, Pending(i), leaf)

\* Every value is at a leaf with something configured, or the object had it.
OnlySet ==
  \A i \in 1..Len(frames) : \A p \in DOMAIN frames[i].holds :
    frames[i].holds[p] \notin Marks =>
      \/ i = 1 /\ p \in DOMAIN before /\ frames[1].holds[p] = before[p]
      \/ p \in SetPaths

\* What holds has under path comes of the configuration.
Renewed(holds, path) ==
  \A p \in DOMAIN holds :
    IsPrefix(path, p) /\ holds[p] \notin Marks => p \in SetPaths

\* A map of the object is renewed, or it will be: it is in what is being built,
\* or a task will get to it.
MapsRenewed ==
  \A map \in MapPlaces :
    \/ Len(frames) > 1 /\ IsPrefix(frames[2].path, map.path)
    \/ \E task \in Pending(1) : Covers(task, map.path)
    \/ Renewed(frames[1].holds, map.path)

Filling == LeavesMet /\ OnlySet /\ MapsRenewed

\* A Write that settles or passes on what the first task would have got to.
LEMMA WriteFills ==
  ASSUME Types, Filling, UNCHANGED <<config, type, before>>,
         NEW holds \in Holds, NEW tasks, Written(holds, tasks),
         \A leaf \in SetLeaves :
           Settled(Top.holds, leaf) \/ Covers(Task, leaf.path) =>
             Met(holds, Range(tasks), leaf),
         \A p \in DOMAIN holds : holds[p] \notin Marks =>
           \/ p \in SetPaths
           \/ p \in DOMAIN Top.holds /\ holds[p] = Top.holds[p],
         Len(frames) = 1 => \A map \in MapPlaces :
           Covers(Task, map.path) => \E task \in Range(tasks) : Covers(task, map.path)
  PROVE  Filling'
<1> DEFINE n == Len(frames)
<1>1. /\ n \in Nat \ {0} /\ n \in 1..n /\ Top = frames[n] /\ 1 \in 1..n
  BY TopIsFrame
<1>2. /\ Len(frames') = n
      /\ \A i \in 1..n - 1 : frames'[i] = frames[i]
      /\ frames'[n].path = frames[n].path /\ frames'[n].holds = holds
      /\ Range(tasks) \cup (Range(frames[n].todo) \ {Task}) \subseteq Range(frames'[n].todo)
  BY DEF Written, Pending
<1>3. SetLeaves' = SetLeaves /\ SetPaths' = SetPaths /\ MapPlaces' = MapPlaces
  BY DEF SetLeaves, SetPaths, MapPlaces, Leaves, GetConfig
<1> HIDE DEF n
<1>4. \A i \in 1..n : frames'[i].path = frames[i].path /\ (i = n \/ frames'[i] = frames[i])
  <2> SUFFICES ASSUME NEW i \in 1..n
               PROVE  frames'[i].path = frames[i].path /\ (i = n \/ frames'[i] = frames[i])
    OBVIOUS
  <2>1. i = n \/ i \in 1..n - 1
    BY <1>1
  <2> QED BY <1>2, <2>1
<1>5. LeavesMet'
  <2> SUFFICES ASSUME NEW leaf \in SetLeaves, NEW i \in 1..n,
                      IsPrefix(frames'[i].path, leaf.path),
                      i < n => ~IsPrefix(frames'[i + 1].path, leaf.path)
               PROVE  Met(frames'[i].holds, Range(frames'[i].todo), leaf)
    BY <1>2, <1>3 DEF LeavesMet, Innermost, Pending, Met, Settled, n
  <2>1. i < n => i + 1 \in 1..n
    BY <1>1
  <2>2. Innermost(i, leaf.path)
    BY <1>4, <2>1 DEF Innermost, n
  <2>3. Met(frames[i].holds, Range(frames[i].todo), leaf)
    BY <2>2 DEF Filling, LeavesMet, Pending, n
  <2>4. CASE i # n
    BY <1>4, <2>3, <2>4
  <2>5. CASE i = n
    <3>1. CASE Settled(Top.holds, leaf) \/ Covers(Task, leaf.path)
      BY <1>2, <2>5, <3>1 DEF Met
    <3>2. CASE \E task \in Range(frames[n].todo) \ {Task} : Covers(task, leaf.path)
      BY <1>2, <2>5, <3>2 DEF Met
    <3> QED BY <1>1, <2>3, <2>5, <3>1, <3>2 DEF Met
  <2> QED BY <2>4, <2>5
<1>6. OnlySet'
  <2> SUFFICES ASSUME NEW i \in 1..n, NEW p \in DOMAIN frames'[i].holds,
                      frames'[i].holds[p] \notin Marks
               PROVE  \/ i = 1 /\ p \in DOMAIN before /\ frames'[1].holds[p] = before[p]
                      \/ p \in SetPaths
    BY <1>2, <1>3 DEF OnlySet, n
  <2>1. p \in SetPaths \/ (p \in DOMAIN frames[i].holds /\ frames[i].holds[p] = frames'[i].holds[p])
    BY <1>1, <1>2, <1>4
  <2> QED BY <2>1 DEF Filling, OnlySet, n
<1>7. MapsRenewed'
  <2> SUFFICES ASSUME NEW map \in MapPlaces
               PROVE  \/ n > 1 /\ IsPrefix(frames'[2].path, map.path)
                      \/ \E task \in Range(frames'[1].todo) : Covers(task, map.path)
                      \/ Renewed(frames'[1].holds, map.path)
    BY <1>2, <1>3 DEF MapsRenewed, Renewed, Pending, n
  <2>1. \/ n > 1 /\ IsPrefix(frames[2].path, map.path)
        \/ \E task \in Range(frames[1].todo) : Covers(task, map.path)
        \/ Renewed(frames[1].holds, map.path)
    BY DEF Filling, MapsRenewed, Pending, n
  <2>2. CASE n > 1
    <3>1. 1 \in 1..n /\ 2 \in 1..n /\ 1 # n
      BY <1>1, <2>2
    <3> QED BY <1>4, <2>1, <3>1
  <2>3. CASE n = 1
    <3>1. CASE Covers(Task, map.path)
      BY <1>2, <2>3, <3>1 DEF n
    <3>2. CASE \E task \in Range(frames[1].todo) \ {Task} : Covers(task, map.path)
      BY <1>2, <2>3, <3>2
    <3>3. CASE Renewed(frames[1].holds, map.path)
      BY <1>1, <1>2, <2>3, <3>3 DEF Renewed
    <3> QED BY <2>1, <2>3, <3>1, <3>2, <3>3
  <2> QED BY <1>1, <2>2, <2>3
<1> QED BY <1>5, <1>6, <1>7 DEF Filling

\* A Build of something new, with tasks that get to all there is in it.
LEMMA BuildFills ==
  ASSUME Types, Filling, UNCHANGED <<config, type, before>>,
         NEW path \in Path, NEW holds \in Holds, NEW tasks, NEW later,
         Built(path, holds, tasks, later),
         \A p \in DOMAIN holds : holds[p] \in Marks,
         \A leaf \in SetLeaves : IsPrefix(path, leaf.path) =>
           \E task \in Range(tasks) : Covers(task, leaf.path),
         \A leaf \in SetLeaves : Covers(Task, leaf.path) =>
           \/ IsPrefix(path, leaf.path)
           \/ \E task \in Range(later) : Covers(task, leaf.path),
         Len(frames) = 1 => \A map \in MapPlaces :
           Covers(Task, map.path) => IsPrefix(path, map.path)
  PROVE  Filling'
<1> DEFINE n == Len(frames)
<1>1. /\ n \in Nat \ {0} /\ n \in 1..n /\ Top = frames[n] /\ 1 \in 1..n
  BY TopIsFrame
<1>2. /\ Len(frames') = n + 1
      /\ \A i \in 1..n - 1 : frames'[i] = frames[i]
      /\ frames'[n].path = frames[n].path /\ frames'[n].holds = frames[n].holds
      /\ Range(later) \cup (Range(frames[n].todo) \ {Task}) \subseteq Range(frames'[n].todo)
      /\ frames'[n + 1].path = path /\ frames'[n + 1].holds = holds
      /\ Range(frames'[n + 1].todo) = Range(tasks)
  BY DEF Built, Pending
<1>3. SetLeaves' = SetLeaves /\ SetPaths' = SetPaths /\ MapPlaces' = MapPlaces
  BY DEF SetLeaves, SetPaths, MapPlaces, Leaves, GetConfig
<1> HIDE DEF n
<1>4. \A i \in 1..n : /\ frames'[i].path = frames[i].path
                      /\ frames'[i].holds = frames[i].holds
                      /\ i = n \/ frames'[i] = frames[i]
  <2> SUFFICES ASSUME NEW i \in 1..n
               PROVE  /\ frames'[i].path = frames[i].path
                      /\ frames'[i].holds = frames[i].holds
                      /\ i = n \/ frames'[i] = frames[i]
    OBVIOUS
  <2>1. i = n \/ i \in 1..n - 1
    BY <1>1
  <2> QED BY <1>2, <2>1
<1>5. LeavesMet'
  <2> SUFFICES ASSUME NEW leaf \in SetLeaves, NEW i \in 1..n + 1,
                      IsPrefix(frames'[i].path, leaf.path),
                      i < n + 1 => ~IsPrefix(frames'[i + 1].path, leaf.path)
               PROVE  Met(frames'[i].holds, Range(frames'[i].todo), leaf)
    BY <1>2, <1>3 DEF LeavesMet, Innermost, Pending, Met, Settled, n
  <2>1. CASE i = n + 1
    BY <1>2, <2>1 DEF Met
  <2>2. CASE i # n + 1
    <3>1. i \in 1..n /\ i < n + 1 /\ (i < n => i + 1 \in 1..n) /\ (i = n => i + 1 = n + 1)
      BY <1>1, <2>2
    <3>2. Innermost(i, leaf.path)
      BY <1>4, <3>1 DEF Innermost, n
    <3>3. Met(frames[i].holds, Range(frames[i].todo), leaf)
      BY <3>1, <3>2 DEF Filling, LeavesMet, Pending, n
    <3>4. CASE i # n
      BY <1>4, <3>1, <3>3, <3>4
    <3>5. CASE i = n
      <4>1. ~IsPrefix(path, leaf.path)
        BY <1>2, <3>1, <3>5
      <4>2. CASE Settled(frames[n].holds, leaf)
        BY <1>2, <3>5, <4>2 DEF Met
      <4>3. CASE Covers(Task, leaf.path)
        BY <1>2, <3>5, <4>1, <4>3 DEF Met
      <4>4. CASE \E task \in Range(frames[n].todo) \ {Task} : Covers(task, leaf.path)
        BY <1>2, <3>5, <4>4 DEF Met
      <4> QED BY <3>3, <3>5, <4>2, <4>3, <4>4 DEF Met
    <3> QED BY <3>4, <3>5
  <2> QED BY <2>1, <2>2
<1>6. OnlySet'
  <2> SUFFICES ASSUME NEW i \in 1..n + 1, NEW p \in DOMAIN frames'[i].holds,
                      frames'[i].holds[p] \notin Marks
               PROVE  \/ i = 1 /\ p \in DOMAIN before /\ frames'[1].holds[p] = before[p]
                      \/ p \in SetPaths
    BY <1>2, <1>3 DEF OnlySet, n
  <2>1. i # n + 1
    BY <1>2
  <2>2. i \in 1..n
    BY <1>1, <2>1
  <2>3. frames'[i].holds = frames[i].holds
    BY <1>4, <2>2
  <2> QED BY <2>2, <2>3 DEF Filling, OnlySet, n
<1>7. MapsRenewed'
  <2> SUFFICES ASSUME NEW map \in MapPlaces
               PROVE  \/ n + 1 > 1 /\ IsPrefix(frames'[2].path, map.path)
                      \/ \E task \in Range(frames'[1].todo) : Covers(task, map.path)
                      \/ Renewed(frames'[1].holds, map.path)
    BY <1>2, <1>3 DEF MapsRenewed, Renewed, Pending, n
  <2>1. \/ n > 1 /\ IsPrefix(frames[2].path, map.path)
        \/ \E task \in Range(frames[1].todo) : Covers(task, map.path)
        \/ Renewed(frames[1].holds, map.path)
    BY DEF Filling, MapsRenewed, Pending, n
  <2>2. CASE n > 1
    <3>1. 1 \in 1..n /\ 2 \in 1..n /\ 1 # n /\ n + 1 > 1
      BY <1>1, <2>2
    <3> QED BY <1>4, <2>1, <3>1
  <2>3. CASE n = 1
    <3>0. n + 1 = 2 /\ n + 1 > 1
      BY <2>3
    <3>1. CASE Covers(Task, map.path)
      BY <1>2, <2>3, <3>0, <3>1 DEF n
    <3>2. CASE \E task \in Range(frames[1].todo) \ {Task} : Covers(task, map.path)
      BY <1>2, <2>3, <3>2
    <3>3. CASE Renewed(frames[1].holds, map.path)
      BY <1>1, <1>2, <2>3, <3>3 DEF Renewed
    <3> QED BY <2>1, <2>3, <3>1, <3>2, <3>3
  <2> QED BY <1>1, <2>2, <2>3
<1> QED BY <1>5, <1>6, <1>7 DEF Filling

\* A Keep: what was built has all there is in it.
LEMMA KeepFills ==
  ASSUME Types, Nested, Filling, UNCHANGED <<config, type, before>>, Kept
  PROVE  Filling'
<1> DEFINE n == Len(frames)
           new == frames[n].holds
           path == frames[n].path
           base == frames[n - 1].holds
           kept == Replace(base, path, new)
<1>1. /\ n \in Nat \ {0} /\ n \in 1..n /\ n - 1 \in Nat \ {0} /\ n - 1 \in 1..n
      /\ \A i \in 1..n : frames[i] \in Frame
  <2>1. n \in Nat \ {0} /\ n - 1 \in Nat \ {0} /\ \A i \in 1..n : frames[i] \in Frame
    BY TopIsFrame DEF Kept
  <2> HIDE DEF n
  <2> QED BY <2>1
<1>2. /\ Len(frames') = n - 1
      /\ \A i \in 1..n - 2 : frames'[i] = frames[i]
      /\ \A i \in 1..n - 1 : Range(frames'[i].todo) = Range(frames[i].todo)
      /\ frames'[n - 1].path = frames[n - 1].path
      /\ frames'[n - 1].holds = kept
      /\ Range(frames[n].todo) = {}
  BY DEF Kept, Pending
<1>3. SetLeaves' = SetLeaves /\ SetPaths' = SetPaths /\ MapPlaces' = MapPlaces
  BY DEF SetLeaves, SetPaths, MapPlaces, Leaves, GetConfig
<1>4. /\ DOMAIN kept = DOMAIN new \cup {q \in DOMAIN base : ~IsPrefix(path, q)}
      /\ \A q \in DOMAIN new : kept[q] = new[q]
      /\ \A q \in DOMAIN kept \ DOMAIN new : kept[q] = base[q]
  <2>1. base \in Holds /\ new \in Holds /\ path \in Path
    BY <1>1 DEF Frame
  <2> HIDE DEF n, new, base, path
  <2> QED BY <2>1, ReplaceHolds
<1>5. \A q \in DOMAIN new : IsPrefix(path, q)
  BY <1>1 DEF Nested
<1>6. IsPrefix(frames[n - 1].path, path)
  <2>1. n - 1 < n /\ n - 1 + 1 = n
    <3> HIDE DEF n
    <3> QED BY <1>1
  <2> QED BY <1>1, <2>1 DEF Nested
<1> HIDE DEF kept
<1>7. \A i \in 1..n - 1 : /\ frames'[i].path = frames[i].path
                          /\ i = n - 1 \/ (i \in 1..n - 2 /\ frames'[i] = frames[i])
                          /\ i \in 1..n /\ i < n
  <2> HIDE DEF n, path, new, base
  <2> SUFFICES ASSUME NEW i \in 1..n - 1
               PROVE  /\ frames'[i].path = frames[i].path
                      /\ i = n - 1 \/ (i \in 1..n - 2 /\ frames'[i] = frames[i])
                      /\ i \in 1..n /\ i < n
    OBVIOUS
  <2>1. (i = n - 1 \/ i \in 1..n - 2) /\ i \in 1..n /\ i < n
    BY <1>1
  <2> QED BY <1>2, <2>1
<1>8. LeavesMet'
  <2> SUFFICES ASSUME NEW leaf \in SetLeaves, NEW i \in 1..n - 1,
                      IsPrefix(frames'[i].path, leaf.path),
                      i < n - 1 => ~IsPrefix(frames'[i + 1].path, leaf.path)
               PROVE  Met(frames'[i].holds, Range(frames'[i].todo), leaf)
    BY <1>2, <1>3 DEF LeavesMet, Innermost, Pending, Met, Settled
  <2>1. CASE i # n - 1
    <3>1. i < n - 1 /\ i + 1 \in 1..n - 1
      <4> HIDE DEF n
      <4> QED BY <1>1, <2>1
    <3>2. Innermost(i, leaf.path)
      BY <1>7, <3>1 DEF Innermost
    <3>3. frames'[i] = frames[i]
      BY <1>7, <2>1
    <3> QED BY <1>7, <3>2, <3>3 DEF Filling, LeavesMet, Pending
  <2>2. CASE i = n - 1 /\ IsPrefix(path, leaf.path)
    <3>1. Innermost(n, leaf.path)
      <4>1. ~(n < n)
        <5> HIDE DEF n
        <5> QED BY <1>1
      <4> QED BY <2>2, <4>1 DEF Innermost
    <3>2. Met(new, {}, leaf)
      BY <1>1, <1>2, <3>1 DEF Filling, LeavesMet, Pending
    <3>3. Settled(kept, leaf)
      BY <1>4, <3>2 DEF Met, Settled
    <3> QED BY <1>2, <2>2, <3>3 DEF Met
  <2>3. CASE i = n - 1 /\ ~IsPrefix(path, leaf.path)
    <3>1. n - 1 < n /\ n - 1 + 1 = n
      <4> HIDE DEF n
      <4> QED BY <1>1
    <3>2. Innermost(n - 1, leaf.path)
      BY <1>2, <2>3, <3>1 DEF Innermost
    <3>3. Met(base, Range(frames[n - 1].todo), leaf)
      BY <1>1, <3>2 DEF Filling, LeavesMet, Pending
    <3>4. Settled(base, leaf) => Settled(kept, leaf)
      BY <1>4, <1>5, <2>3 DEF Settled
    <3> QED BY <1>2, <2>3, <3>3, <3>4 DEF Met
  <2> QED BY <2>1, <2>2, <2>3
<1>9. ASSUME NEW p \in DOMAIN new, new[p] \notin Marks PROVE p \in SetPaths
  <2>1. n # 1
    <3> HIDE DEF n
    <3> QED BY <1>1
  <2> QED BY <1>1, <1>9, <2>1 DEF Filling, OnlySet
<1>10. OnlySet'
  <2> SUFFICES ASSUME NEW i \in 1..n - 1, NEW p \in DOMAIN frames'[i].holds,
                      frames'[i].holds[p] \notin Marks
               PROVE  \/ i = 1 /\ p \in DOMAIN before /\ frames'[1].holds[p] = before[p]
                      \/ p \in SetPaths
    BY <1>2, <1>3 DEF OnlySet
  <2>1. CASE i # n - 1
    <3>1. frames'[i] = frames[i] /\ i \in 1..n
      BY <1>7, <2>1
    <3> QED BY <3>1 DEF Filling, OnlySet
  <2>2. CASE i = n - 1 /\ p \in DOMAIN new
    BY <1>2, <1>4, <1>9, <2>2
  <2>3. CASE i = n - 1 /\ p \notin DOMAIN new
    <3>1. p \in DOMAIN base /\ frames'[i].holds[p] = base[p]
      BY <1>2, <1>4, <2>3
    <3> QED BY <1>1, <2>3, <3>1 DEF Filling, OnlySet
  <2> QED BY <2>1, <2>2, <2>3
<1>11. MapsRenewed'
  <2> SUFFICES ASSUME NEW map \in MapPlaces
               PROVE  \/ n - 1 > 1 /\ IsPrefix(frames'[2].path, map.path)
                      \/ \E task \in Range(frames'[1].todo) : Covers(task, map.path)
                      \/ Renewed(frames'[1].holds, map.path)
    BY <1>2, <1>3 DEF MapsRenewed, Renewed, Pending
  <2>1. \/ n > 1 /\ IsPrefix(frames[2].path, map.path)
        \/ \E task \in Range(frames[1].todo) : Covers(task, map.path)
        \/ Renewed(frames[1].holds, map.path)
    BY DEF Filling, MapsRenewed, Pending
  <2>2. CASE n - 1 > 1
    <3>1. 1 \in 1..n - 1 /\ 2 \in 1..n - 1 /\ 1 # n - 1
      <4> HIDE DEF n
      <4> QED BY <1>1, <2>2
    <3>2. frames'[1] = frames[1] /\ frames'[2].path = frames[2].path
      BY <1>7, <3>1
    <3> QED BY <2>1, <2>2, <3>2
  <2>3. CASE n = 2
    <3>1. n - 1 = 1
      BY <2>3
    <3>2. frames'[1].holds = kept /\ Range(frames'[1].todo) = Range(frames[1].todo)
      <4>1. 1 \in 1..n - 1
        <5> HIDE DEF n
        <5> QED BY <1>1, <3>1
      <4> QED BY <1>2, <3>1, <4>1
    <3>3. CASE \E task \in Range(frames[1].todo) : Covers(task, map.path)
      BY <3>2, <3>3
    <3>4. CASE IsPrefix(path, map.path)
      <4> SUFFICES ASSUME NEW p \in DOMAIN kept, IsPrefix(map.path, p), kept[p] \notin Marks
                   PROVE  p \in SetPaths
        BY <3>2 DEF Renewed
      <4>1. p \in DOMAIN new
        <5> SUFFICES ASSUME p \notin DOMAIN new PROVE FALSE
          OBVIOUS
        <5>1. p \in DOMAIN base /\ ~IsPrefix(path, p)
          BY <1>4
        <5>2. p \in Path /\ path \in Path /\ map.path \in Path
          BY <1>1, <5>1, HoldsMeans, PlaceMeans DEF Frame, MapPlaces
        <5> QED BY <3>4, <5>1, <5>2, PrefixTransitive
      <4> QED BY <1>4, <1>9, <4>1
    <3>5. CASE Renewed(frames[1].holds, map.path)
      <4> SUFFICES ASSUME NEW p \in DOMAIN kept, IsPrefix(map.path, p), kept[p] \notin Marks
                   PROVE  p \in SetPaths
        BY <3>2 DEF Renewed
      <4>1. CASE p \in DOMAIN new
        BY <1>4, <1>9, <4>1
      <4>2. CASE p \notin DOMAIN new
        BY <1>4, <3>1, <3>5, <4>2 DEF Renewed
      <4> QED BY <4>1, <4>2
    <3> QED BY <2>1, <2>3, <3>3, <3>4, <3>5
  <2>4. n - 1 > 1 \/ n = 2
    <3> HIDE DEF n
    <3> QED BY <1>1
  <2> QED BY <2>2, <2>3, <2>4
<1> QED BY <1>8, <1>10, <1>11 DEF Filling

Goals == SetLeaves \cup MapPlaces

LEMMA GoalMeans ==
  ASSUME Types, NEW goal \in Goals
  PROVE  /\ goal \in Place[type] /\ goal.path \in Path
         /\ IsBasic(goal.type) \/ goal.type.kind = "map"
         /\ goal \in SetLeaves =>
              /\ IsBasic(goal.type) /\ goal \in Leaves
              /\ goal.path \in Key /\ config[goal.path] \in Value
              /\ GetConfig(goal.path) = config[goal.path]
              /\ config[goal.path] # None
         /\ goal \in MapPlaces => ~IsBasic(goal.type)
<1>1. goal \in Place[type] /\ (IsBasic(goal.type) \/ goal.type.kind = "map")
  BY DEF Goals, SetLeaves, Leaves, MapPlaces
<1>2. goal.path \in Path
  BY <1>1, PlaceMeans
<1>3. ASSUME goal \in SetLeaves
      PROVE  /\ IsBasic(goal.type) /\ goal \in Leaves
             /\ goal.path \in Key /\ config[goal.path] \in Value
             /\ GetConfig(goal.path) = config[goal.path]
             /\ config[goal.path] # None
  BY <1>3 DEF SetLeaves, Leaves, GetConfig, Types
<1>4. goal \in MapPlaces => ~IsBasic(goal.type)
  BY DEF MapPlaces, IsBasic
<1> QED BY <1>1, <1>2, <1>3, <1>4

\* What a walk from a place gets to.
LEMMA ReachesMeans ==
  ASSUME Types, NEW place \in Place[type], NEW goal \in Goals,
         Reaches(place.type, place.path, goal.path)
  PROVE  /\ IsBasic(place.type) => goal.type = place.type /\ goal \in SetLeaves
         /\ place.type.kind \in {"struct", "ptr"} =>
              \E part \in Parts(place) : Reaches(part.type, part.path, goal.path)
         /\ place.type.kind = "map" /\ goal \in SetLeaves => goal.path # place.path
<1>1. /\ goal \in Place[type] /\ type \in Type
      /\ IsBasic(goal.type) \/ goal.type.kind = "map"
      /\ goal \in SetLeaves => IsBasic(goal.type)
      /\ goal \in MapPlaces => ~IsBasic(goal.type)
  BY GoalMeans DEF Types
<1>2. /\ IsBasic(place.type) => goal.type = place.type
      /\ place.type.kind \in {"struct", "ptr"} =>
           \E part \in Parts(place) : Reaches(part.type, part.path, goal.path)
      /\ place.type.kind = "map" => goal.type = place.type \/ goal.path # place.path
  BY <1>1, PathAssumption
<1>3. place.type.kind = "map" => ~IsBasic(place.type)
  BY DEF IsBasic
<1> QED BY <1>1, <1>2, <1>3 DEF Goals

\* A step that passes its task on to others.
LEMMA ThenFills ==
  ASSUME UnmarshalInv, Filling, Quiet, Top.todo # <<>>,
         NEW tasks \in Seq(AnyTask), Then(tasks),
         \A goal \in Goals : Covers(Task, goal.path) =>
           \E task \in Range(tasks) : Covers(task, goal.path)
  PROVE  Filling'
<1>1. Types /\ Top.holds \in Holds
  BY TaskSuits
<1>2. Written(Top.holds, tasks)
  BY <1>1, WriteFrames DEF Then
<1>3. UNCHANGED <<config, type, before>>
  BY DEF Quiet
<1>4. \A leaf \in SetLeaves :
        Settled(Top.holds, leaf) \/ Covers(Task, leaf.path) =>
          Met(Top.holds, Range(tasks), leaf)
  BY DEF Met, Goals
<1>5. \A map \in MapPlaces :
        Covers(Task, map.path) => \E task \in Range(tasks) : Covers(task, map.path)
  BY DEF Goals
<1> HIDE DEF Filling
<1> QED BY <1>1, <1>2, <1>3, <1>4, <1>5, WriteFills

\* A step that sets the leaf its task is about.
LEMMA ValueFills ==
  ASSUME UnmarshalInv, Filling, Quiet, Top.todo # <<>>,
         NEW leaf \in SetLeaves, NEW x \in BasicValue,
         Fits(x, leaf.type.kind, config[leaf.path]),
         NEW tasks \in Seq(AnyTask), Write(With(Top.holds, leaf.path, x), tasks),
         \A goal \in Goals : Covers(Task, goal.path) =>
           \/ goal.path = leaf.path
           \/ \E task \in Range(tasks) : Covers(task, goal.path)
  PROVE  Filling'
<1>1. Types /\ Top.holds \in Holds
  BY TaskSuits
<1> DEFINE holds == With(Top.holds, leaf.path, x)
<1>2. leaf \in Goals /\ leaf.path \in Path /\ IsBasic(leaf.type) /\ leaf \in Place[type]
  BY <1>1, GoalMeans DEF Goals
<1>3. x \in Content /\ x \notin Marks
  BY ValuesAreNoMarks DEF Content
<1>4. /\ holds \in Holds /\ DOMAIN holds = DOMAIN Top.holds \cup {leaf.path}
      /\ holds[leaf.path] = x
      /\ \A q \in DOMAIN Top.holds \ {leaf.path} : holds[q] = Top.holds[q]
  <2>1. PICK p \in Path : p = leaf.path
    BY <1>2
  <2>2. /\ With(Top.holds, p, x) \in Holds
        /\ DOMAIN With(Top.holds, p, x) = DOMAIN Top.holds \cup {p}
        /\ With(Top.holds, p, x)[p] = x
        /\ \A q \in DOMAIN Top.holds \ {p} : With(Top.holds, p, x)[q] = Top.holds[q]
    BY <1>1, <1>3, WithHolds
  <2>3. holds = With(Top.holds, p, x)
    BY <2>1
  <2> HIDE DEF holds
  <2> QED BY <2>1, <2>2, <2>3
<1>5. Write(holds, tasks)
  OBVIOUS
<1> HIDE DEF holds, Filling
<1>6. Written(holds, tasks)
  BY <1>1, <1>4, <1>5, WriteFrames
<1>7. ASSUME NEW goal \in Goals, goal.path = leaf.path
      PROVE  goal.type = leaf.type /\ goal \in SetLeaves
  BY <1>1, <1>2, <1>7, ReachesMeans DEF Reaches
<1>8. ASSUME NEW goal \in SetLeaves,
             Settled(Top.holds, goal) \/ Covers(Task, goal.path)
      PROVE  Met(holds, Range(tasks), goal)
  <2>1. CASE goal.path = leaf.path
    <3>1. goal.type = leaf.type
      BY <1>7, <2>1 DEF Goals
    <3>2. Settled(holds, goal)
      BY <1>3, <1>4, <2>1, <3>1 DEF Settled
    <3> QED BY <3>2 DEF Met
  <2>2. CASE goal.path # leaf.path
    BY <1>4, <1>8, <2>2 DEF Met, Settled, Goals
  <2> QED BY <2>1, <2>2
<1>9. \A p \in DOMAIN holds : holds[p] \notin Marks =>
        \/ p \in SetPaths
        \/ p \in DOMAIN Top.holds /\ holds[p] = Top.holds[p]
  BY <1>4 DEF SetPaths
<1>10. ASSUME NEW map \in MapPlaces, Covers(Task, map.path)
       PROVE  \E task \in Range(tasks) : Covers(task, map.path)
  <2>1. map \in Goals /\ map \notin SetLeaves
    BY <1>1, GoalMeans DEF Goals
  <2> QED BY <1>7, <1>10, <2>1
<1>11. UNCHANGED <<config, type, before>>
  BY DEF Quiet
<1> QED BY <1>1, <1>4, <1>6, <1>8, <1>9, <1>10, <1>11, WriteFills

LEMMA SetValueFills ==
  ASSUME UnmarshalInv, Filling, SetValue, Calm'
  PROVE  Filling'
<1>1. /\ Top.todo # <<>> /\ Task.do = "fill" /\ IsBasic(Task.type)
  BY DEF SetValue, Now
<1>2. /\ Types /\ Suits(Task) /\ Task.path \in Path /\ Top.holds \in Holds
  BY <1>1, TaskSuits
<1>3. PICK place \in Place[type] : place.path = Task.path /\ place.type = Task.type
  BY <1>1, <1>2 DEF Suits, TaskFits, PlacesOf
<1>4. <<>> \in Seq(AnyTask)
  BY ShortTasks
<1>5. PICK v : v = GetConfig(Task.path)
  OBVIOUS
<1>6. ASSUME NEW goal \in Goals, Covers(Task, goal.path)
      PROVE  goal.path = Task.path /\ goal \in SetLeaves
  <2>1. Reaches(place.type, place.path, goal.path)
    BY <1>1, <1>3, <1>6 DEF Covers
  <2> QED BY <1>1, <1>2, <1>3, <2>1, ReachesMeans DEF Reaches
<1>7. CASE v = None /\ Then(<<>>) /\ Quiet
  <2>1. \A goal \in Goals : ~Covers(Task, goal.path)
    BY <1>5, <1>6, <1>7 DEF SetLeaves
  <2> QED BY <1>1, <1>4, <1>7, <2>1, ThenFills
<1>8. CASE v # None /\ ~Converts(Task.type) /\ Fail
  BY <1>8 DEF Fail, Calm
<1>9. CASE /\ v # None /\ Converts(Task.type)
           /\ Write(With(Top.holds, Task.path, ToRvalueType(v, Task.type)), <<>>)
           /\ Quiet
  <2> DEFINE x == ToRvalueType(v, Task.type)
  <2>1. place \in SetLeaves
    BY <1>1, <1>3, <1>5, <1>9 DEF SetLeaves, Leaves
  <2>2. v \in Value /\ v = config[Task.path]
    BY <1>2, <1>5, <1>9 DEF GetConfig, Types
  <2>3. x \in BasicValue /\ Fits(x, x.type, v) /\ x.type = Task.type.kind
    BY <1>1, <1>9, <2>2, Converted
  <2>4. Write(With(Top.holds, place.path, x), <<>>)
    BY <1>3, <1>9
  <2> HIDE DEF x
  <2>5. Fits(x, place.type.kind, config[place.path])
    BY <1>3, <2>2, <2>3
  <2> QED BY <1>1, <1>3, <1>4, <1>6, <1>9, <2>1, <2>3, <2>4, <2>5, ValueFills
<1> QED BY <1>5, <1>7, <1>8, <1>9 DEF SetValue

LEMMA HandleStructFills ==
  ASSUME UnmarshalInv, Filling, HandleStruct
  PROVE  Filling'
<1>1. /\ Top.todo # <<>> /\ Task.do = "fill" /\ Task.type.kind = "struct" /\ Quiet
  BY DEF HandleStruct, NowFill, Now
<1>2. /\ Types /\ Suits(Task) /\ Task.path \in Path
  BY <1>1, TaskSuits
<1>3. PICK place \in Place[type] : place.path = Task.path /\ place.type = Task.type
  BY <1>1, <1>2 DEF Suits, TaskFits, PlacesOf
<1> DEFINE fields == Task.type.fields
           n == FieldsFilled(fields)
           F(i) == Fill(fields[i].type, Append(Task.path, fields[i].tag))
           tasks == [i \in 1..n |-> F(i)]
<1>4. n \in Nat
  BY <1>1, <1>2, <1>3, PlaceMeans, FieldsAreCounted
<1>5. ASSUME NEW i \in 1..n PROVE F(i) \in AnyTask
  <2> DEFINE part == [path |-> Append(Task.path, fields[i].tag),
                      type |-> fields[i].type, inMap |-> place.inMap]
  <2>1. part \in Place[type]
    <3>1. part \in Parts(place)
      BY <1>1, <1>3, StructParts
    <3> QED BY <1>2, <3>1, PlaceMeans
  <2>2. part.path \in Path /\ part.type \in AnyType
    BY <1>2, <2>1, PlaceMeans
  <2> QED BY <2>2 DEF Fill, FillTask, AnyTask
<1>6. Then(tasks)
  BY <1>1 DEF HandleStruct
<1>7. Parts(place) =
        {[path |-> Append(Task.path, fields[i].tag), type |-> fields[i].type,
          inMap |-> place.inMap] : i \in 1..n}
  BY <1>1, <1>3 DEF Parts, IsBasic
<1>8. ASSUME NEW goal \in Goals, Covers(Task, goal.path)
      PROVE  \E i \in 1..n : Covers(F(i), goal.path)
  <2>1. Reaches(place.type, place.path, goal.path)
    BY <1>1, <1>3, <1>8 DEF Covers
  <2>2. PICK part \in Parts(place) : Reaches(part.type, part.path, goal.path)
    BY <1>1, <1>2, <1>3, <2>1, ReachesMeans
  <2>3. PICK i \in 1..n : part.path = Append(Task.path, fields[i].tag)
                          /\ part.type = fields[i].type
    BY <1>7
  <2>4. F(i).do = "fill" /\ F(i).type = part.type /\ F(i).path = part.path
    BY <2>3 DEF Fill
  <2> HIDE DEF F
  <2>5. Covers(F(i), goal.path)
    BY <2>2, <2>4 DEF Covers
  <2> QED BY <2>5
<1> HIDE DEF n, F
<1>9. tasks \in Seq(AnyTask) /\ \A i \in 1..n : F(i) \in Range(tasks)
  BY <1>4, <1>5, SeqDef DEF Range
<1> HIDE DEF tasks
<1> QED BY <1>1, <1>6, <1>8, <1>9, ThenFills

LEMMA HandlePtrFills ==
  ASSUME UnmarshalInv, Filling, HandlePtr
  PROVE  Filling'
<1>1. /\ Top.todo # <<>> /\ Task.do = "fill" /\ Task.type.kind = "ptr" /\ Quiet
  BY DEF HandlePtr, NowFill, Now
<1>2. /\ Types /\ Suits(Task) /\ Task.path \in Path
  BY <1>1, TaskSuits
<1>3. PICK place \in Place[type] : place.path = Task.path /\ place.type = Task.type
  BY <1>1, <1>2 DEF Suits, TaskFits, PlacesOf
<1> DEFINE fill == Fill(Task.type.to, Task.path)
<1>4. fill \in AnyTask /\ fill.do = "fill" /\ fill.path = Task.path /\ fill.type = Task.type.to
  <2>1. Task.type.to \in AnyType
    BY <1>2, <1>3, PlaceMeans
  <2> QED BY <1>2, <2>1 DEF Fill, FillTask, AnyTask
<1> HIDE DEF fill
<1>5. /\ <<fill>> \in Seq(AnyTask) /\ Range(<<fill>>) = {fill} /\ <<>> \in Seq(AnyTask)
  BY <1>4, ShortTasks
<1>6. ASSUME NEW goal \in Goals, IsPrefix(Task.path, goal.path)
      PROVE  Covers(fill, goal.path)
  <2>1. Reaches(place.type, place.path, goal.path)
    BY <1>1, <1>3, <1>6 DEF Reaches, IsBasic
  <2>2. PICK part \in Parts(place) : Reaches(part.type, part.path, goal.path)
    BY <1>1, <1>2, <1>3, <2>1, ReachesMeans
  <2>3. Parts(place) = {[place EXCEPT !.type = place.type.to]}
    BY <1>1, <1>3 DEF Parts, IsBasic
  <2>4. place = [path |-> place.path, type |-> place.type, inMap |-> place.inMap]
    BY <1>2, PlaceMeans
  <2>5. part.path = Task.path /\ part.type = Task.type.to
    BY <1>3, <2>3, <2>4
  <2> QED BY <1>4, <2>2, <2>5 DEF Covers
<1>7. ASSUME NEW goal \in Goals, Covers(Task, goal.path)
      PROVE  IsPrefix(Task.path, goal.path)
  BY <1>1, <1>7 DEF Covers, Reaches, IsBasic
<1>8. CASE Task.path \in DOMAIN Top.holds /\ Then(<<fill>>)
  BY <1>1, <1>5, <1>6, <1>7, <1>8, ThenFills
<1>9. CASE Build(Task.path, With(Nothing, Task.path, Mark("pointer")), <<fill>>, <<>>)
  <2> DEFINE holds == With(Nothing, Task.path, Mark("pointer"))
  <2>1. holds \in Holds /\ \A p \in DOMAIN holds : holds[p] \in Marks
    <3>1. Mark("pointer") \in Marks /\ Mark("pointer") \in Content
      BY DEF Marks, Content
    <3>2. holds \in Holds /\ DOMAIN holds = {Task.path} /\ holds[Task.path] = Mark("pointer")
      BY <1>2, <3>1, WithNothing
    <3> HIDE DEF holds
    <3> QED BY <3>1, <3>2
  <2>2. Build(Task.path, holds, <<fill>>, <<>>)
    BY <1>9
  <2> HIDE DEF holds, Filling
  <2>3. Built(Task.path, holds, <<fill>>, <<>>)
    BY <1>1, <1>2, <1>5, <2>1, <2>2, BuildFrames
  <2>4. UNCHANGED <<config, type, before>>
    BY <1>1 DEF Quiet
  <2>5. /\ \A leaf \in SetLeaves : IsPrefix(Task.path, leaf.path) =>
             \E task \in Range(<<fill>>) : Covers(task, leaf.path)
        /\ \A leaf \in SetLeaves : Covers(Task, leaf.path) => IsPrefix(Task.path, leaf.path)
        /\ \A map \in MapPlaces : Covers(Task, map.path) => IsPrefix(Task.path, map.path)
    BY <1>5, <1>6, <1>7 DEF Goals
  <2> QED BY <1>2, <2>1, <2>3, <2>4, <2>5, BuildFills
<1> QED BY <1>8, <1>9 DEF HandlePtr, fill

LEMMA HandleMapFills ==
  ASSUME UnmarshalInv, Filling, HandleMap
  PROVE  Filling'
<1>1. /\ Top.todo # <<>> /\ Task.do = "fill" /\ Task.type.kind = "map" /\ Quiet
  BY DEF HandleMap, NowFill, Now
<1>2. /\ Types /\ Suits(Task) /\ Task.path \in Path
  BY <1>1, TaskSuits
<1>3. PICK place \in Place[type] : place.path = Task.path /\ place.type = Task.type
  BY <1>1, <1>2 DEF Suits, TaskFits, PlacesOf
<1> DEFINE task == [do |-> "configs", type |-> Task.type.to, path |-> Task.path,
                    left |-> Key, found |-> Nothing]
<1>4. task \in AnyTask
  <2>1. Task.type.to \in AnyType
    BY <1>2, <1>3, PlaceMeans
  <2>2. Nothing \in [{} -> Value]
    BY DEF Nothing
  <2> QED BY <1>2, <2>1, <2>2 DEF AnyTask, ConfigsTask
<1>5. task.do = "configs" /\ task.path = Task.path
  OBVIOUS
<1>6. Then(<<task>>)
  BY DEF HandleMap
<1> HIDE DEF task
<1>7. <<task>> \in Seq(AnyTask) /\ Range(<<task>>) = {task}
  BY <1>4, ShortTasks
<1>8. \A goal \in Goals : Covers(Task, goal.path) => Covers(task, goal.path)
  BY <1>1, <1>5 DEF Covers, Reaches, IsBasic
<1> QED BY <1>1, <1>6, <1>7, <1>8, ThenFills

LEMMA ConfigsFills ==
  ASSUME UnmarshalInv, Filling, NEW k \in Key, Configs(k)
  PROVE  Filling'
<1>1. /\ Top.todo # <<>> /\ Task.do = "configs" /\ Quiet
  BY DEF Configs, Now
<1>2. /\ Types /\ Task \in ConfigsTask
  BY <1>1, TaskSuits
<1> DEFINE found == IF config[k] = None THEN Task.found
                    ELSE With(Task.found, k, config[k])
           task == [Task EXCEPT !.left = @ \ {k}, !.found = found]
<1>3. Then(<<task>>)
  BY DEF Configs
<1>4. found \in UNION {[E -> Value] : E \in SUBSET Key}
  <2>1. PICK D \in SUBSET Key : Task.found \in [D -> Value]
    BY <1>2 DEF ConfigsTask
  <2>2. CASE config[k] = None
    BY <2>1, <2>2
  <2>3. CASE config[k] # None
    <3>1. config[k] \in Value
      BY <1>2, <2>3 DEF Types
    <3>2. found \in [D \cup {k} -> Value]
      BY <2>1, <2>3, <3>1 DEF With
    <3> QED BY <2>1, <3>2
  <2> QED BY <2>2, <2>3
<1> HIDE DEF found
<1>5. task \in AnyTask /\ task.do = "configs" /\ task.path = Task.path
  BY <1>2, <1>4 DEF ConfigsTask, AnyTask
<1> HIDE DEF task
<1>6. <<task>> \in Seq(AnyTask) /\ Range(<<task>>) = {task}
  BY <1>5, ShortTasks
<1>7. \A goal \in Goals : Covers(Task, goal.path) => Covers(task, goal.path)
  BY <1>1, <1>5 DEF Covers
<1> QED BY <1>1, <1>3, <1>6, <1>7, ThenFills

LEMMA WholeMapFills ==
  ASSUME UnmarshalInv, WholeMap, Calm'
  PROVE  FALSE
<1>1. Top.todo # <<>> /\ Task.do = "configs" /\ Task.path = <<>>
  BY DEF WholeMap, NowHasAll, Now
<1>2. Types /\ Suits(Task)
  BY <1>1, TaskSuits
<1>3. PICK place \in Place[type] : place.path = <<>> /\ place.type.kind = "map"
  BY <1>1, <1>2, MapPlace DEF Suits
<1>4. WholeTypes # {}
  BY <1>3 DEF WholeTypes
<1>5. type' = type
  BY DEF WholeMap, Fail, Quiet
<1> QED BY <1>4, <1>5 DEF Calm, WholeTypes

LEMMA PopulateMapFills ==
  ASSUME UnmarshalInv, Filling, PopulateMap, Calm'
  PROVE  Filling'
<1>1. /\ Top.todo # <<>> /\ Task.do = "configs" /\ Task.left = {} /\ Quiet
  BY DEF PopulateMap, NowHasAll, Now
<1>2. /\ Types /\ Suits(Task) /\ Task \in ConfigsTask /\ Task.path \in Path
  BY <1>1, TaskSuits
<1>3. PICK place \in Place[type] :
        place.path = Task.path /\ place.type.kind = "map" /\ place.type.to = Task.type
  BY <1>1, <1>2, MapPlace DEF Suits
<1> DEFINE holds == With(Nothing, Task.path, Mark("map"))
<1>4. Build(Task.path, holds, <<Entries>>, <<>>)
  BY DEF PopulateMap
<1>5. holds \in Holds /\ \A p \in DOMAIN holds : holds[p] \in Marks
  <2>1. Mark("map") \in Marks /\ Mark("map") \in Content
    BY DEF Marks, Content
  <2>2. holds \in Holds /\ DOMAIN holds = {Task.path} /\ holds[Task.path] = Mark("map")
    BY <1>2, <2>1, WithNothing
  <2> HIDE DEF holds
  <2> QED BY <2>1, <2>2
<1>6. /\ Entries \in AnyTask /\ Entries.do = "entries" /\ Entries.path = Task.path
      /\ Entries.type = Task.type
      /\ Entries.keys = KeysUnder(Task.path) \cap DOMAIN Task.found
  BY <1>2 DEF Entries, AnyTask, ConfigsTask, EntriesTask, KeysUnder
<1> HIDE DEF holds, Filling
<1>7. <<Entries>> \in Seq(AnyTask) /\ Range(<<Entries>>) = {Entries} /\ <<>> \in Seq(AnyTask)
  BY <1>6, ShortTasks
<1>8. Built(Task.path, holds, <<Entries>>, <<>>)
  BY <1>1, <1>2, <1>4, <1>5, <1>7, BuildFrames
<1>9. ASSUME NEW leaf \in SetLeaves, IsPrefix(Task.path, leaf.path)
      PROVE  Covers(Entries, leaf.path)
  <2>1. /\ leaf \in Goals /\ leaf.path \in Path /\ leaf.path \in Key
        /\ config[leaf.path] # None
    BY <1>2, GoalMeans DEF Goals
  <2>2. leaf.path # Task.path
    BY <1>2, <1>3, <1>9, <2>1, ReachesMeans DEF Reaches, IsBasic
  <2>3. leaf.path \in KeysUnder(Task.path)
    BY <1>9, <2>1, <2>2 DEF KeysUnder, IsStrictPrefix
  <2>4. had[leaf.path] = {config[leaf.path]}
    BY <1>1, <2>1 DEF Calm, Steady, Quiet
  <2>5. leaf.path \in DOMAIN Task.found
    BY <1>1, <1>2, <2>1, <2>4 DEF Suits, TaskFits
  <2>6. leaf.path \in Entries.keys
    BY <1>6, <2>3, <2>5
  <2>7. Reaches(Task.type, EntryPath(Task.path, Task.type, leaf.path), leaf.path)
    BY <1>2, <2>3, EntryIsUnderMap DEF Reaches, EntryPath
  <2> QED BY <1>6, <2>6, <2>7 DEF Covers
<1>10. \A goal \in Goals : Covers(Task, goal.path) => IsPrefix(Task.path, goal.path)
  BY <1>1 DEF Covers
<1>11. UNCHANGED <<config, type, before>>
  BY <1>1 DEF Quiet
<1>12. /\ \A leaf \in SetLeaves : IsPrefix(Task.path, leaf.path) =>
            \E task \in Range(<<Entries>>) : Covers(task, leaf.path)
       /\ \A leaf \in SetLeaves : Covers(Task, leaf.path) => IsPrefix(Task.path, leaf.path)
       /\ \A map \in MapPlaces : Covers(Task, map.path) => IsPrefix(Task.path, map.path)
  BY <1>7, <1>9, <1>10 DEF Goals
<1> QED BY <1>2, <1>5, <1>8, <1>11, <1>12, BuildFills

\* What the rest of the entries gets to.
LEMMA RestCovers ==
  ASSUME UnmarshalInv, Top.todo # <<>>, Task.do = "entries", NEW k \in Task.keys,
         NEW goal, Covers(Task, goal)
  PROVE  \/ Reaches(Task.type, EntryPath(Task.path, Task.type, k), goal)
         \/ Covers(Rest(k), goal)
<1>1. Task \in EntriesTask
  BY TaskSuits
<1>2. /\ Rest(k).do = "entries" /\ Rest(k).path = Task.path
      /\ Rest(k).type = Task.type /\ Rest(k).keys = Task.keys \ {k}
  BY <1>1 DEF Rest, EntriesTask
<1>3. PICK l \in Task.keys : Reaches(Task.type, EntryPath(Task.path, Task.type, l), goal)
  BY DEF Covers
<1>4. CASE l = k
  BY <1>3, <1>4
<1>5. CASE l # k
  <2>1. l \in Rest(k).keys
    BY <1>2, <1>5
  <2> QED BY <1>2, <1>3, <2>1 DEF Covers
<1> QED BY <1>4, <1>5

LEMMA BasicEntryFills ==
  ASSUME UnmarshalInv, Filling, NEW k \in Key, BasicEntry(k), Calm'
  PROVE  Filling'
<1>1. /\ Top.todo # <<>> /\ Task.do = "entries" /\ k \in Task.keys /\ IsBasic(Task.type)
  BY DEF BasicEntry, Now
<1>2. /\ Types /\ Suits(Task) /\ Task \in EntriesTask /\ Task.path \in Path
  BY <1>1, TaskSuits
<1>3. k \in KeysUnder(Task.path)
  BY <1>1, <1>2 DEF Suits, TaskFits, KeysUnder
<1>4. PICK v : v = config[k]
  OBVIOUS
<1>5. v \in Value \cup {None} /\ GetConfig(k) = v
  BY <1>2, <1>4 DEF Types, GetConfig
<1>6. ~Fail
  BY DEF Fail, Calm
<1>7. /\ v # None /\ Converts(Task.type) /\ Quiet
      /\ Write(With(Top.holds, k, ToRvalueType(v, Task.type)), <<Rest(k)>>)
  BY <1>5, <1>6 DEF BasicEntry
<1>8. PICK place \in Place[type] :
        place.path = Task.path /\ place.type.kind = "map" /\ place.type.to = Task.type
  BY <1>1, <1>2, MapPlace DEF Suits
<1> DEFINE leaf == [path |-> k, type |-> Task.type, inMap |-> TRUE]
           x == ToRvalueType(v, Task.type)
<1>9. EntryPath(Task.path, Task.type, k) = k
  BY <1>1 DEF EntryPath
<1>10. leaf \in Place[type]
  <2>1. leaf \in Parts(place)
    BY <1>3, <1>8, <1>9, MapParts
  <2> QED BY <1>2, <2>1, PlaceMeans
<1>11. leaf \in SetLeaves /\ leaf.path = k /\ leaf.type = Task.type
  BY <1>1, <1>5, <1>7, <1>10 DEF SetLeaves, Leaves
<1>12. x \in BasicValue /\ Fits(x, x.type, v) /\ x.type = Task.type.kind
  BY <1>1, <1>5, <1>7, Converted
<1>13. Write(With(Top.holds, k, x), <<Rest(k)>>)
  BY <1>7
<1> HIDE DEF leaf, x, Filling
<1>14. Write(With(Top.holds, leaf.path, x), <<Rest(k)>>)
  BY <1>11, <1>13
<1>15. Fits(x, leaf.type.kind, config[leaf.path])
  BY <1>4, <1>11, <1>12
<1>16. <<Rest(k)>> \in Seq(AnyTask) /\ Range(<<Rest(k)>>) = {Rest(k)}
  BY <1>1, RestSuits
<1>17. ASSUME NEW goal \in Goals, Covers(Task, goal.path)
       PROVE  goal.path = leaf.path \/ Covers(Rest(k), goal.path)
  BY <1>1, <1>9, <1>11, <1>17, RestCovers DEF Reaches
<1>18. \A goal \in Goals : Covers(Task, goal.path) =>
         \/ goal.path = leaf.path
         \/ \E task \in Range(<<Rest(k)>>) : Covers(task, goal.path)
  BY <1>16, <1>17
<1> QED BY <1>1, <1>7, <1>11, <1>12, <1>14, <1>15, <1>16, <1>18, ValueFills

LEMMA OtherEntryFills ==
  ASSUME UnmarshalInv, Filling, NEW k \in Key, OtherEntry(k)
  PROVE  Filling'
<1>1. /\ Top.todo # <<>> /\ Task.do = "entries" /\ k \in Task.keys
      /\ ~IsBasic(Task.type) /\ Quiet
  BY DEF OtherEntry, Now
<1>2. /\ Types /\ Suits(Task) /\ Task \in EntriesTask
      /\ Task.path \in Path /\ Task.type \in AnyType
  BY <1>1, TaskSuits DEF EntriesTask
<1>3. k \in KeysUnder(Task.path)
  BY <1>1, <1>2 DEF Suits, TaskFits, KeysUnder
<1>4. PICK mapKey : mapKey = EntryPath(Task.path, Task.type, k)
  OBVIOUS
<1>5. mapKey \in Path
  BY <1>2, <1>3, <1>4, EntryIsUnderMap
<1> DEFINE fill == Fill(Task.type, mapKey)
           zero == IF Task.type.kind = "struct"
                   THEN With(Nothing, mapKey, Mark("struct")) ELSE Nothing
           fills == IF Task.type.kind = "ptr" THEN <<fill, fill>> ELSE <<fill>>
<1>6. Build(mapKey, zero, fills, <<Rest(k)>>)
  BY <1>4 DEF OtherEntry
<1>7. fill \in AnyTask /\ fill.do = "fill" /\ fill.path = mapKey /\ fill.type = Task.type
  BY <1>2, <1>5 DEF Fill, FillTask, AnyTask
<1>8. zero \in Holds /\ \A p \in DOMAIN zero : zero[p] \in Marks
  <2>1. Mark("struct") \in Marks /\ Mark("struct") \in Content
    BY DEF Marks, Content
  <2>2. CASE Task.type.kind = "struct"
    <3> DEFINE new == With(Nothing, mapKey, Mark("struct"))
    <3>1. new \in Holds /\ DOMAIN new = {mapKey} /\ new[mapKey] = Mark("struct")
      BY <1>5, <2>1, WithNothing
    <3>2. zero = new
      BY <2>2
    <3> HIDE DEF new, zero
    <3> QED BY <2>1, <3>1, <3>2
  <2>3. CASE Task.type.kind # "struct"
    BY <2>3, NothingHolds
  <2> QED BY <2>2, <2>3
<1> HIDE DEF fill, zero, Filling
<1>9. fills \in Seq(AnyTask) /\ Range(fills) = {fill}
  BY <1>7, ShortTasks
<1> HIDE DEF fills
<1>10. /\ <<Rest(k)>> \in Seq(AnyTask) /\ Range(<<Rest(k)>>) = {Rest(k)}
       /\ Len(frames) # 1
  BY <1>1, RestSuits
<1>11. Built(mapKey, zero, fills, <<Rest(k)>>)
  BY <1>1, <1>2, <1>5, <1>6, <1>8, <1>9, <1>10, BuildFrames
<1>12. UNCHANGED <<config, type, before>>
  BY <1>1 DEF Quiet
<1>13. \A leaf \in SetLeaves : IsPrefix(mapKey, leaf.path) =>
         \E task \in Range(fills) : Covers(task, leaf.path)
  BY <1>1, <1>7, <1>9 DEF Covers, Reaches
<1>14. ASSUME NEW leaf \in SetLeaves, Covers(Task, leaf.path)
       PROVE  IsPrefix(mapKey, leaf.path) \/ Covers(Rest(k), leaf.path)
  BY <1>1, <1>4, <1>14, RestCovers DEF Reaches
<1>15. \A leaf \in SetLeaves : Covers(Task, leaf.path) =>
         \/ IsPrefix(mapKey, leaf.path)
         \/ \E task \in Range(<<Rest(k)>>) : Covers(task, leaf.path)
  BY <1>10, <1>14
<1> QED BY <1>2, <1>5, <1>8, <1>10, <1>11, <1>12, <1>13, <1>15, BuildFills

LEMMA EndOfMapFills ==
  ASSUME UnmarshalInv, Filling, EndOfMap
  PROVE  Filling'
<1>1. /\ Top.todo # <<>> /\ Task.do = "entries" /\ Task.keys = {} /\ Then(<<>>) /\ Quiet
  BY DEF EndOfMap, Now
<1>2. <<>> \in Seq(AnyTask)
  BY ShortTasks
<1>3. \A goal \in Goals : ~Covers(Task, goal.path)
  BY <1>1 DEF Covers
<1> QED BY <1>1, <1>2, <1>3, ThenFills

\* A change is noticed by had.
LEMMA ChangeIsNoCalm ==
  ASSUME UnmarshalInv, NEW k \in Key, NEW v \in Value \cup {None}, Change(k, v)
  PROVE  ~Calm'
<1>1. /\ had'[k] = had[k] \cup {v} /\ config'[k] = v
      /\ config[k] # v /\ config[k] \in had[k]
  BY DEF UnmarshalInv, Types, Change
<1> QED BY <1>1 DEF Calm, Steady

\* The object as it is at first.
LEMMA InitFills == Init => Filling
<1> SUFFICES ASSUME Init PROVE Filling
  OBVIOUS
<1> DEFINE fill == Fill(type, <<>>)
<1>1. /\ type \in Type /\ Len(frames) = 1
      /\ frames[1].holds = before /\ frames[1].todo = <<fill>>
  BY DEF Init
<1>2. Types
  BY UnmarshalInit DEF UnmarshalInv
<1>3. fill.do = "fill" /\ fill.type = type /\ fill.path = <<>>
  BY DEF Fill
<1> HIDE DEF fill
<1>4. Pending(1) = {fill}
  BY <1>1 DEF Pending, Range
<1>5. ASSUME NEW goal \in Goals PROVE Covers(fill, goal.path)
  <2>1. goal \in Place[type] /\ (IsBasic(goal.type) \/ goal.type.kind = "map")
    BY <1>2, GoalMeans
  <2>2. Reaches(type, <<>>, goal.path)
    BY <1>1, <2>1, PathAssumption
  <2> QED BY <1>3, <2>2 DEF Covers
<1>6. LeavesMet
  BY <1>1, <1>4, <1>5 DEF LeavesMet, Met, Goals
<1>7. OnlySet
  BY <1>1 DEF OnlySet
<1>8. MapsRenewed
  BY <1>4, <1>5 DEF MapsRenewed, Goals
<1> QED BY <1>6, <1>7, <1>8 DEF Filling

LEMMA FillingStep ==
  UnmarshalInv /\ (Calm => Filling) /\ [Next]_vars => (Calm => Filling)'
<1> SUFFICES ASSUME UnmarshalInv, Calm => Filling, [Next]_vars, Calm'
             PROVE  Filling'
  OBVIOUS
<1>1. CASE UNCHANGED <<config, type, frames, had, before>>
           /\ result' \in {result, "ok"} /\ result \in {result', "running"}
  <2>1. Calm
    BY <1>1 DEF Calm, WholeTypes, Steady
  <2> QED BY <1>1, <2>1 DEF Filling, LeavesMet, OnlySet, MapsRenewed, Innermost, Met,
                            Settled, Renewed, Pending, SetLeaves, SetPaths, MapPlaces,
                            Leaves, GetConfig
<1>2. CASE result = "running" /\ UNCHANGED <<config, type, had>>
  <2>1. Calm
    BY <1>2 DEF Calm, WholeTypes, Steady
  <2>2. Filling
    BY <2>1
  <2> HIDE DEF Filling
  <2>3. CASE SetValue BY <2>2, <2>3, SetValueFills
  <2>4. CASE HandleStruct BY <2>2, <2>4, HandleStructFills
  <2>5. CASE HandlePtr BY <2>2, <2>5, HandlePtrFills
  <2>6. CASE HandleMap BY <2>2, <2>6, HandleMapFills
  <2>7. CASE WholeMap BY <2>7, WholeMapFills
  <2>8. CASE PopulateMap BY <2>2, <2>8, PopulateMapFills
  <2>9. CASE EndOfMap BY <2>2, <2>9, EndOfMapFills
  <2>10. CASE KeepBuilt
    <3>1. Types /\ Nested
      BY DEF UnmarshalInv
    <3>2. UNCHANGED <<config, type, before>>
      BY <2>10 DEF KeepBuilt, Quiet
    <3> QED BY <2>2, <2>10, <3>1, <3>2, KeepFrames, KeepFills
  <2>11. ASSUME NEW k \in Key, Configs(k) PROVE Filling'
    BY <2>2, <2>11, ConfigsFills
  <2>12. ASSUME NEW k \in Key, BasicEntry(k) PROVE Filling'
    BY <2>2, <2>12, BasicEntryFills
  <2>13. ASSUME NEW k \in Key, OtherEntry(k) PROVE Filling'
    BY <2>2, <2>13, OtherEntryFills
  <2>14. ASSUME NEW k \in Key, NEW v \in Value \cup {None}, Change(k, v) PROVE FALSE
    BY <2>14, ChangeIsNoCalm
  <2>15. CASE Return \/ UNCHANGED vars
    BY <1>1, <2>15 DEF Return, vars
  <2> QED BY <2>3, <2>4, <2>5, <2>6, <2>7, <2>8, <2>9, <2>10, <2>11, <2>12, <2>13,
             <2>14, <2>15 DEF Next, Step, Done
<1>3. \A k \in Key, v \in Value \cup {None} : ~Change(k, v)
  BY ChangeIsNoCalm
<1>4. CASE UNCHANGED vars
  BY <1>1, <1>4 DEF vars
<1>5. CASE Step
  <2>1. result = "running" /\ UNCHANGED <<config, type, had>>
    BY <1>5 DEF Step, SetValue, HandleStruct, HandlePtr, HandleMap, WholeMap,
                PopulateMap, EndOfMap, KeepBuilt, Return, Configs, BasicEntry,
                OtherEntry, Now, NowFill, NowHasAll, Quiet, Fail
  <2> QED BY <1>2, <2>1
<1> QED BY <1>3, <1>4, <1>5 DEF Next, Done

-----------------------------------------------------------------------------
(***************************************************************************)
(* The theorems.                                                           *)
(***************************************************************************)

\* The invariant of the walk: what each frame is, holds and has still to do.
THEOREM UnmarshalInvariant == Spec => []UnmarshalInv
<1> QED BY UnmarshalInit, UnmarshalStep, PTL DEF Spec

\* The variables of Unmarshal have their types, and nothing is left to do in a
\* call that has ended.
THEOREM UnmarshalTypeCorrect == Spec => []TypeOK
<1>1. UnmarshalInv => TypeOK
  <2> SUFFICES ASSUME UnmarshalInv PROVE TypeOK
    OBVIOUS
  <2>1. Types
    BY DEF UnmarshalInv
  <2>2. object \in [DOMAIN object -> Content]
    <3>1. frames[1].holds \in Holds
      BY <2>1, TopIsFrame DEF Frame
    <3> QED BY <3>1, HoldsMeans DEF object
  <2> QED BY <2>1, <2>2 DEF Types, TypeOK
<1> QED BY <1>1, UnmarshalInvariant, PTL

\* Whatever changes during Manager.Unmarshal and however it ends, the object has
\* only values it had before and values its keys had during the call, converted
\* to the types of the fields: for all types, keys and values, and for maps of
\* maps, structs and pointers that are built aside and kept when they are done.
THEOREM UnmarshalInventsNothing == Spec => []NothingInvented
<1>1. UnmarshalInv => NothingInvented
  <2> SUFFICES ASSUME UnmarshalInv PROVE NothingInvented
    OBVIOUS
  <2>1. OnlyHeard /\ Len(frames) \in Nat \ {0} /\ 1 \in 1..Len(frames)
    BY TopIsFrame DEF UnmarshalInv
  <2> QED BY <2>1 DEF OnlyHeard, Heard, NothingInvented, object
<1> QED BY <1>1, UnmarshalInvariant, PTL

\* A map of the object is the one it had, or has an entry for every key under it
\* that was configured throughout the call: populateMap builds a map aside, and
\* the object gets it when its entries are made.
THEOREM UnmarshalKeepsMapsComplete == Spec => []MapsComplete
<1>1. UnmarshalInv => MapsComplete
  <2> SUFFICES ASSUME UnmarshalInv PROVE MapsComplete
    OBVIOUS
  <2>1. MapsGrow /\ Len(frames) \in Nat \ {0} /\ 1 \in 1..Len(frames)
    BY TopIsFrame DEF UnmarshalInv
  <2> QED BY <2>1 DEF MapsGrow, IsOld, HasEntry, MapsComplete, object
<1> QED BY <1>1, UnmarshalInvariant, PTL

\* unmarshal returns an error only for a type that asks for a conversion there
\* is none for, or for a key that has gone during the call.
THEOREM UnmarshalErrorsAreDue == Spec => []ErrorsAreDue
<1>1. UnmarshalInv => ErrorsAreDue
  BY DEF UnmarshalInv
<1> QED BY <1>1, UnmarshalInvariant, PTL

\* If the configuration does not change during Manager.Unmarshal, a call that
\* ends without an error has filled the object as it is configured: each field
\* that the walk gets to, in structs, pointers and maps of them, has the value of
\* its key, converted, a field without a key what it had, and a map no other
\* entries.
THEOREM UnmarshalFillsAsConfigured == Spec => []FilledAsConfigured
<1>1. UnmarshalInv /\ (Calm => Filling) => FilledAsConfigured
  <2> SUFFICES ASSUME UnmarshalInv, Calm => Filling, result = "ok", WholeTypes = {},
                      \A k \in Key : Steady(k)
               PROVE  LET set == {p \in DOMAIN object : object[p] \notin Marks}
                      IN /\ \A leaf \in Leaves :
                              GetConfig(leaf.path) # None =>
                                /\ leaf.path \in set
                                /\ Fits(object[leaf.path], leaf.type.kind,
                                        config[leaf.path])
                         /\ \A p \in set :
                              GetConfig(p) = None \/ p \notin {leaf.path : leaf \in Leaves} =>
                                /\ p \in DOMAIN before /\ object[p] = before[p]
                                /\ \A place \in Place[type] :
                                     place.type.kind = "map" => ~IsPrefix(place.path, p)
    BY DEF FilledAsConfigured
  <2>1. Filling /\ Types
    BY DEF Calm, UnmarshalInv
  <2>2. Len(frames) = 1 /\ Pending(1) = {} /\ frames[1].path = <<>>
    <3>1. Len(frames) = 1 /\ Top.todo = <<>> /\ frames[1].path = <<>>
      BY <2>1 DEF Types, UnmarshalInv, Nested
    <3> QED BY <3>1, ShortTasks DEF Pending, Top
  <2>3. object = frames[1].holds
    BY DEF object
  <2>4. ASSUME NEW leaf \in Leaves, GetConfig(leaf.path) # None
        PROVE  Settled(object, leaf)
    <3>1. leaf \in SetLeaves /\ leaf.path \in Path
      BY <2>1, <2>4, PlaceMeans DEF SetLeaves, Leaves
    <3>2. Innermost(1, leaf.path)
      BY <2>2, <3>1, PrefixItself DEF Innermost
    <3> QED BY <2>1, <2>2, <2>3, <3>1, <3>2 DEF Filling, LeavesMet, Met
  <2>5. ASSUME NEW p \in DOMAIN object, object[p] \notin Marks,
               GetConfig(p) = None \/ p \notin {leaf.path : leaf \in Leaves}
        PROVE  /\ p \in DOMAIN before /\ object[p] = before[p]
               /\ \A place \in Place[type] :
                    place.type.kind = "map" => ~IsPrefix(place.path, p)
    <3>1. p \notin SetPaths
      BY <2>5 DEF SetPaths, SetLeaves
    <3>2. p \in DOMAIN before /\ object[p] = before[p]
      BY <2>1, <2>2, <2>3, <2>5, <3>1 DEF Filling, OnlySet
    <3>3. ASSUME NEW place \in Place[type], place.type.kind = "map"
          PROVE  ~IsPrefix(place.path, p)
      <4>1. place \in MapPlaces
        BY <3>3 DEF MapPlaces
      <4>2. Renewed(object, place.path)
        BY <2>1, <2>2, <2>3, <4>1 DEF Filling, MapsRenewed
      <4> QED BY <2>5, <3>1, <4>2 DEF Renewed
    <3> QED BY <3>2, <3>3
  <2> QED BY <2>4, <2>5 DEF Settled
<1>2. Init => UnmarshalInv /\ (Calm => Filling)
  BY UnmarshalInit, InitFills
<1>3. UnmarshalInv /\ (Calm => Filling) /\ [Next]_vars =>
        UnmarshalInv' /\ (Calm => Filling)'
  BY UnmarshalStep, FillingStep
<1> QED BY <1>1, <1>2, <1>3, PTL DEF Spec
=============================================================================
