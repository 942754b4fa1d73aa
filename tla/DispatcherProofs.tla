-------------------------- MODULE DispatcherProofs --------------------------
(***************************************************************************)
(* Proofs about Dispatcher and its PrefixIndex, for all listeners,         *)
(* patterns, prefixes and keys.                                            *)
(***************************************************************************)
EXTENDS Dispatcher, TLAPS, SequenceTheorems, WellFoundedInduction

\* The parts of the dotted names, and the names made of them.
Part == UNION {{k[i] : i \in DOMAIN k} : k \in Key}
Name == Seq(Part)

-----------------------------------------------------------------------------
(***************************************************************************)
(* Lemmas about prefixes of names.                                         *)
(***************************************************************************)

LEMMA NamesAreSequences == Prefix \subseteq Key /\ Key \subseteq Name
BY DispatcherAssumption DEF Name, Part

\* What is left of a name cut after its first l parts.
LEMMA CutName ==
  ASSUME NEW s \in Name, NEW l \in 0..Len(s)
  PROVE  /\ SubSeq(s, 1, l) \in Name
         /\ Len(SubSeq(s, 1, l)) = l
         /\ \A i \in 1..l : SubSeq(s, 1, l)[i] = s[i]
<1>1. \A i \in 1..l : s[i] \in Part
  BY ElementOfSeq DEF Name
<1>2. 1 \in Int /\ l \in Int /\ l - 1 + 1 = l
  BY LenProperties DEF Name
<1>3. /\ SubSeq(s, 1, l) \in Seq(Part)
      /\ Len(SubSeq(s, 1, l)) = IF 1 <= l THEN l - 1 + 1 ELSE 0
      /\ \A i \in 1..l - 1 + 1 : SubSeq(s, 1, l)[i] = s[1 + i - 1]
  BY <1>1, <1>2, SubSeqProperties
<1> QED BY <1>2, <1>3 DEF Name

LEMMA LengthOfName ==
  ASSUME NEW s \in Name
  PROVE  Len(s) \in Nat /\ (Len(s) = 0 <=> s = <<>>)
BY LenProperties, EmptySeq DEF Name

LEMMA RootIsName == <<>> \in Name /\ Len(<<>>) = 0
BY EmptySeq DEF Name

\* One name is a prefix of another when it has the same parts as far as it
\* goes, and then it is the other one cut short.
LEMMA PrefixMeans ==
  ASSUME NEW s \in Name, NEW t \in Name
  PROVE  Index!IsPrefix(s, t) <=>
           Len(s) <= Len(t) /\ \A i \in 1..Len(s) : s[i] = t[i]
<1>1. Len(s) \in Nat /\ Len(t) \in Nat
  BY LengthOfName
<1>2. SubSeq(s, 1, Len(s)) = s
  BY SubSeqFull DEF Name
<1>3. CASE Len(s) <= Len(t)
  <2>1. Len(s) \in 0..Len(t)
    BY <1>1, <1>3
  <2> DEFINE c == SubSeq(t, 1, Len(s))
  <2>2. c \in Seq(Part) /\ Len(c) = Len(s) /\ \A i \in 1..Len(s) : c[i] = t[i]
    BY <2>1, CutName DEF Name
  <2> HIDE DEF c
  <2>3. (\A i \in 1..Len(s) : s[i] = t[i]) => s = c
    BY <2>2, SeqEqual DEF Name
  <2>4. Index!IsPrefix(s, t) <=> s = c
    BY <1>2, <1>3 DEF Index!IsPrefix, c
  <2> QED BY <1>3, <2>2, <2>3, <2>4
<1>4. CASE ~(Len(s) <= Len(t))
  BY <1>4 DEF Index!IsPrefix
<1> QED BY <1>3, <1>4

LEMMA PrefixIsCut ==
  ASSUME NEW s \in Name, NEW t \in Name, Index!IsPrefix(s, t)
  PROVE  Len(s) \in 0..Len(t) /\ s = SubSeq(t, 1, Len(s))
<1>1. Len(s) \in Nat /\ Len(t) \in Nat
  BY LengthOfName
<1>2. SubSeq(s, 1, Len(s)) = s
  BY SubSeqFull DEF Name
<1> QED BY <1>1, <1>2 DEF Index!IsPrefix

LEMMA CutIsPrefix ==
  ASSUME NEW t \in Name, NEW l \in 0..Len(t)
  PROVE  Index!IsPrefix(SubSeq(t, 1, l), t)
<1> DEFINE c == SubSeq(t, 1, l)
<1>1. c \in Name /\ Len(c) = l /\ \A i \in 1..l : c[i] = t[i]
  BY CutName
<1>2. Len(t) \in Nat /\ l <= Len(t)
  BY LengthOfName
<1> HIDE DEF c
<1>3. Index!IsPrefix(c, t)
  BY <1>1, <1>2, PrefixMeans
<1> QED BY <1>3 DEF c

LEMMA PrefixesOfName ==
  ASSUME NEW t \in Name
  PROVE  Index!Prefixes(t) = {s \in Name : Index!IsPrefix(s, t)}
<1>1. ASSUME NEW s \in Index!Prefixes(t)
      PROVE  s \in Name /\ Index!IsPrefix(s, t)
  <2>1. PICK l \in 0..Len(t) : s = SubSeq(t, 1, l)
    BY DEF Index!Prefixes
  <2> QED BY <2>1, CutName, CutIsPrefix
<1>2. ASSUME NEW s \in Name, Index!IsPrefix(s, t)
      PROVE  s \in Index!Prefixes(t)
  BY <1>2, PrefixIsCut DEF Index!Prefixes
<1> QED BY <1>1, <1>2

LEMMA PrefixItself ==
  ASSUME NEW s \in Name
  PROVE  Index!IsPrefix(s, s) /\ Index!IsPrefix(<<>>, s)
<1>1. Len(s) \in Nat /\ <<>> \in Name /\ Len(<<>>) = 0
  BY LengthOfName, RootIsName
<1>2. Index!IsPrefix(s, s)
  BY <1>1, PrefixMeans
<1>3. Index!IsPrefix(<<>>, s)
  BY <1>1, PrefixMeans
<1> QED BY <1>2, <1>3

LEMMA PrefixOfRoot ==
  ASSUME NEW s \in Name, Index!IsPrefix(s, <<>>)
  PROVE  s = <<>>
<1>1. Len(s) \in Nat /\ (Len(s) = 0 <=> s = <<>>)
  BY LengthOfName
<1>2. Len(s) <= Len(<<>>)
  BY DEF Index!IsPrefix
<1> QED BY <1>1, <1>2, RootIsName

LEMMA PrefixTransitive ==
  ASSUME NEW s \in Name, NEW t \in Name, NEW u \in Name,
         Index!IsPrefix(s, t), Index!IsPrefix(t, u)
  PROVE  Index!IsPrefix(s, u)
<1>1. Len(s) \in Nat /\ Len(t) \in Nat /\ Len(u) \in Nat
  BY LengthOfName
<1>2. Len(s) <= Len(t) /\ \A i \in 1..Len(s) : s[i] = t[i]
  BY PrefixMeans
<1>3. Len(t) <= Len(u) /\ \A i \in 1..Len(t) : t[i] = u[i]
  BY PrefixMeans
<1>4. Len(s) <= Len(u) /\ \A i \in 1..Len(s) : s[i] = u[i]
  BY <1>1, <1>2, <1>3
<1> QED BY <1>4, PrefixMeans

\* Of two prefixes of a name the one that is not longer is a prefix of the
\* other.
LEMMA PrefixesAreNested ==
  ASSUME NEW s \in Name, NEW t \in Name, NEW u \in Name,
         Index!IsPrefix(s, u), Index!IsPrefix(t, u), Len(s) <= Len(t)
  PROVE  Index!IsPrefix(s, t)
<1>1. Len(s) \in Nat /\ Len(t) \in Nat
  BY LengthOfName
<1>2. \A i \in 1..Len(s) : s[i] = u[i]
  BY PrefixMeans
<1>3. \A i \in 1..Len(t) : t[i] = u[i]
  BY PrefixMeans
<1>4. \A i \in 1..Len(s) : s[i] = t[i]
  BY <1>1, <1>2, <1>3
<1> QED BY <1>4, PrefixMeans

\* A set of numbers that is not empty has a least, and that is its Min.
LEMMA MinIsLeast ==
  ASSUME NEW S, S \subseteq Nat, S # {}
  PROVE  Index!Min(S) \in S /\ \A i \in S : Index!Min(S) <= i
<1> DEFINE R == OpToRel(<, Nat)
<1>1. IsWellFoundedOn(R, Nat)
  BY NatLessThanWellFounded
<1> HIDE DEF R
<1>2. PICK m \in S : \A k \in S : ~(<<k, m>> \in R)
  BY <1>1, WFMin, Zenon
<1>3. \A k \in S : ~(k < m)
  BY <1>2 DEF R, OpToRel
<1>4. \E x \in S : \A y \in S : x <= y
  BY <1>3
<1> QED BY <1>4 DEF Index!Min

-----------------------------------------------------------------------------
(***************************************************************************)
(* What AddPrefix and RemovePrefix keep of the tree, and what FindPrefix   *)
(* finds in such a tree.                                                   *)
(***************************************************************************)

\* The root is there, and with a node all the nodes on the way to it.
Rooted(nodes) ==
  /\ nodes \subseteq Name /\ <<>> \in nodes
  /\ \A n \in nodes : \A q \in Name : Index!IsPrefix(q, n) => q \in nodes

\* Every node but the root leads to one that is marked.
Leading(nodes, marked) ==
  \A n \in nodes \ {<<>>} : \E p \in marked : Index!IsPrefix(n, p)

\* The state of the tree: a well-formed index.
IndexOK(index) ==
  /\ index = [nodes |-> index.nodes, marked |-> index.marked]
  /\ index.marked \subseteq Prefix \cap index.nodes
  /\ Rooted(index.nodes)
  /\ Leading(index.nodes, index.marked)

LEMMA EmptyIndexOK == IndexOK(Index!EmptyIndex)
<1>1. \A q \in Name : Index!IsPrefix(q, <<>>) => q = <<>>
  BY PrefixOfRoot
<1> QED BY <1>1, RootIsName DEF IndexOK, Rooted, Leading, Index!EmptyIndex

\* Adding a set of prefixes keeps the tree well-formed.
LEMMA AddPrefixesOK ==
  ASSUME NEW index, IndexOK(index), NEW S, S \subseteq Prefix
  PROVE  IndexOK([nodes |-> index.nodes \cup
                    UNION {Index!AddPrefix(Index!EmptyIndex, p).nodes : p \in S},
                  marked |-> index.marked \cup S])
<1> DEFINE grown == UNION {Index!AddPrefix(Index!EmptyIndex, p).nodes : p \in S}
           nodes == index.nodes \cup grown
           marked == index.marked \cup S
<1>1. \A p \in S : p \in Name
  BY NamesAreSequences
<1>2. \A p \in S : Index!AddPrefix(Index!EmptyIndex, p).nodes =
                     {<<>>} \cup {q \in Name : Index!IsPrefix(q, p)}
  BY <1>1, PrefixesOfName DEF Index!AddPrefix, Index!EmptyIndex
<1>3. \A n : n \in grown =>
               \E p \in S : n = <<>> \/ (n \in Name /\ Index!IsPrefix(n, p))
  BY <1>2
<1>4. \A p \in S : \A n \in Name : Index!IsPrefix(n, p) => n \in grown
  BY <1>2
<1>5. index.nodes \subseteq Name /\ <<>> \in index.nodes
  BY DEF IndexOK, Rooted
<1> HIDE DEF grown
<1>6. marked \subseteq Prefix \cap nodes
  <2>1. \A p \in S : p \in grown
    BY <1>1, <1>4, PrefixItself
  <2> QED BY <2>1 DEF IndexOK
<1>7. Rooted(nodes)
  <2>1. nodes \subseteq Name /\ <<>> \in nodes
    BY <1>3, <1>5
  <2>2. ASSUME NEW n \in nodes, NEW q \in Name, Index!IsPrefix(q, n)
        PROVE  q \in nodes
    <3>1. CASE n \in index.nodes
      BY <3>1, <2>2 DEF IndexOK, Rooted
    <3>2. CASE n \in grown
      <4>1. PICK p \in S : n = <<>> \/ (n \in Name /\ Index!IsPrefix(n, p))
        BY <3>2, <1>3
      <4>2. CASE n = <<>>
        BY <4>2, <2>2, <1>5, PrefixOfRoot
      <4>3. CASE n \in Name /\ Index!IsPrefix(n, p)
        BY <4>3, <2>2, <1>1, <1>4, PrefixTransitive
      <4> QED BY <4>1, <4>2, <4>3
    <3> QED BY <3>1, <3>2
  <2> QED BY <2>1, <2>2 DEF Rooted
<1>8. Leading(nodes, marked)
  <2> SUFFICES ASSUME NEW n \in nodes \ {<<>>}
               PROVE  \E p \in marked : Index!IsPrefix(n, p)
    BY DEF Leading
  <2>1. CASE n \in index.nodes
    BY <2>1 DEF IndexOK, Leading
  <2>2. CASE n \in grown
    BY <2>2, <1>3
  <2> QED BY <2>1, <2>2
<1> HIDE DEF nodes, marked
<1>9. IndexOK([nodes |-> nodes, marked |-> marked])
  BY <1>6, <1>7, <1>8 DEF IndexOK
<1> QED BY <1>9 DEF nodes, marked, grown

\* RemovePrefix takes away the nodes that lead to no marked one any more and
\* no others.
LEMMA RemovePrefixOK ==
  ASSUME NEW index, IndexOK(index), NEW prefix \in Prefix
  PROVE  /\ IndexOK(Index!RemovePrefix(index, prefix))
         /\ Index!RemovePrefix(index, prefix).marked = index.marked \ {prefix}
         /\ Index!RemovePrefix(index, prefix).nodes \subseteq index.nodes
<1> DEFINE way == Index!Prefixes(prefix)
           marked == index.marked \ {prefix}
           dead == {q \in way \ {<<>>} :
                      \A n \in index.nodes : Index!IsPrefix(q, n) =>
                        n \in way /\ n \notin marked}
           nodes == index.nodes \ dead
<1>1. prefix \in Name
  BY NamesAreSequences
<1>2. way = {q \in Name : Index!IsPrefix(q, prefix)}
  BY <1>1, PrefixesOfName
<1>3. index.nodes \subseteq Name /\ <<>> \in index.nodes
  BY DEF IndexOK, Rooted
<1>4. CASE prefix \notin index.nodes
  <2>1. Index!RemovePrefix(index, prefix) = index
    BY <1>4 DEF Index!RemovePrefix
  <2>2. index.marked = index.marked \ {prefix}
    BY <1>4 DEF IndexOK
  <2> QED BY <2>1, <2>2
<1>5. CASE prefix \in index.nodes
  <2> DEFINE left == [nodes |-> nodes, marked |-> marked]
  <2>1. Index!RemovePrefix(index, prefix) = left
    BY <1>5 DEF Index!RemovePrefix
  <2>2. \A q \in dead : /\ q \in way \ {<<>>}
                        /\ \A n \in index.nodes : Index!IsPrefix(q, n) =>
                             n \in way /\ n \notin marked
    OBVIOUS
  <2>3. \A q \in way \ {<<>>} : q \in dead \/ \E n \in index.nodes :
          Index!IsPrefix(q, n) /\ (n \notin way \/ n \in marked)
    OBVIOUS
  <2> HIDE DEF way, dead
  <2>4. marked \subseteq Prefix \cap nodes
    <3> SUFFICES ASSUME NEW p \in marked, p \in dead PROVE FALSE
      BY DEF IndexOK
    <3>1. p \in index.nodes /\ Index!IsPrefix(p, p)
      BY NamesAreSequences, PrefixItself DEF IndexOK
    <3> QED BY <3>1, <2>2
  <2>5. Rooted(nodes)
    <3>1. nodes \subseteq Name /\ <<>> \in nodes
      BY <1>3, <2>2
    <3>2. ASSUME NEW n \in nodes, NEW q \in Name, Index!IsPrefix(q, n),
                 q \notin nodes
          PROVE  FALSE
      <4>1. q \in index.nodes
        BY <3>2 DEF IndexOK, Rooted
      <4>2. q \in dead
        BY <4>1, <3>2
      <4>3. n \in way
        BY <4>2, <3>2, <2>2
      <4>4. n # <<>>
        BY <4>2, <3>2, <2>2, PrefixOfRoot
      <4>5. PICK m \in index.nodes :
              Index!IsPrefix(n, m) /\ (m \notin way \/ m \in marked)
        BY <4>3, <4>4, <2>3
      <4>6. Index!IsPrefix(q, m)
        BY <4>5, <3>2, <1>3, PrefixTransitive
      <4> QED BY <4>2, <4>5, <4>6, <2>2
    <3> QED BY <3>1, <3>2 DEF Rooted
  <2>6. Leading(nodes, marked)
    <3> SUFFICES ASSUME NEW n \in nodes \ {<<>>}
                 PROVE  \E p \in marked : Index!IsPrefix(n, p)
      BY DEF Leading
    \* A node that is not on the way to prefix leads to another marked one.
    <3>1. ASSUME NEW m \in index.nodes, m \notin way
          PROVE  \E p \in marked : Index!IsPrefix(m, p)
      <4>1. m # <<>> /\ m \in Name
        BY <3>1, <1>1, <1>2, <1>3, PrefixItself, RootIsName
      <4>2. PICK p \in index.marked : Index!IsPrefix(m, p)
        BY <4>1, <3>1 DEF IndexOK, Leading
      <4>3. p # prefix
        BY <4>1, <4>2, <3>1, <1>2
      <4> QED BY <4>2, <4>3
    <3>2. CASE n \notin way
      BY <3>1, <3>2
    <3>3. CASE n \in way
      <4>1. PICK m \in index.nodes :
              Index!IsPrefix(n, m) /\ (m \notin way \/ m \in marked)
        BY <3>3, <2>3
      <4>2. CASE m \in marked
        BY <4>1, <4>2
      <4>3. CASE m \notin way
        <5>1. PICK p \in marked : Index!IsPrefix(m, p)
          BY <4>3, <3>1
        <5>2. n \in Name /\ m \in Name /\ p \in Name
          BY <1>3, NamesAreSequences DEF IndexOK
        <5>3. Index!IsPrefix(n, p)
          BY <4>1, <5>1, <5>2, PrefixTransitive
        <5> QED BY <5>1, <5>3
      <4> QED BY <4>1, <4>2, <4>3
    <3> QED BY <3>2, <3>3
  <2>7. nodes \subseteq index.nodes
    OBVIOUS
  <2> HIDE DEF nodes, marked
  <2>8. IndexOK(left)
    BY <2>4, <2>5, <2>6 DEF IndexOK
  <2>9. left.marked = marked /\ left.nodes = nodes
    OBVIOUS
  <2> HIDE DEF left
  <2> QED BY <2>1, <2>7, <2>8, <2>9 DEF marked
<1> QED BY <1>4, <1>5

\* What FindPrefix gives is a prefix of the key, if it is anything.
LEMMA FoundIsPrefix ==
  ASSUME NEW index, NEW key \in Name
  PROVE  \/ Index!FindPrefix(index, key) = NoPrefix
         \/ /\ Index!FindPrefix(index, key) \in index.nodes
            /\ Index!IsPrefix(Index!FindPrefix(index, key), key)
<1> DEFINE node(i) == SubSeq(key, 1, i)
           stops == {i \in 0..Len(key) : \/ node(i) \notin index.nodes
                                         \/ node(i) \in index.marked}
           last == Index!Min(stops)
<1>1. CASE stops = {} \/ node(last) \notin index.nodes
  <2>1. Index!FindPrefix(index, key) = NoPrefix
    BY <1>1 DEF Index!FindPrefix
  <2> QED BY <2>1
<1>2. CASE ~(stops = {} \/ node(last) \notin index.nodes)
  <2>1. Index!FindPrefix(index, key) = node(last)
    BY <1>2 DEF Index!FindPrefix
  <2>2. stops \subseteq Nat
    BY LengthOfName
  <2>3. last \in stops
    BY <1>2, <2>2, MinIsLeast
  <2>4. Index!IsPrefix(node(last), key)
    BY <2>3, CutIsPrefix
  <2> QED BY <1>2, <2>1, <2>4
<1> QED BY <1>1, <1>2

\* In a well-formed tree FindPrefix finds the shortest marked prefix of the
\* key, and nothing when none is marked.
LEMMA FindPrefixFinds ==
  ASSUME NEW index, IndexOK(index), NEW key \in Name
  PROVE  LET covering == {p \in index.marked : Index!IsPrefix(p, key)}
             found == Index!FindPrefix(index, key)
         IN IF covering = {} THEN found = NoPrefix
            ELSE found \in covering /\ \A p \in covering : Len(found) <= Len(p)
<1> DEFINE node(i) == SubSeq(key, 1, i)
           stops == {i \in 0..Len(key) : \/ node(i) \notin index.nodes
                                         \/ node(i) \in index.marked}
           last == Index!Min(stops)
           covering == {p \in index.marked : Index!IsPrefix(p, key)}
           found == Index!FindPrefix(index, key)
<1>1. stops \subseteq Nat /\ Len(key) \in Nat
  BY LengthOfName
<1>2. stops # {} => last \in stops /\ \A i \in stops : last <= i
  BY <1>1, MinIsLeast
<1>3. found = IF stops = {} \/ node(last) \notin index.nodes THEN NoPrefix
              ELSE node(last)
  BY DEF Index!FindPrefix
<1>4. \A i \in 0..Len(key) : /\ node(i) \in Name /\ Len(node(i)) = i
                             /\ Index!IsPrefix(node(i), key)
  BY CutName, CutIsPrefix
<1>5. \A p \in covering : p \in Name /\ p \in index.nodes
  BY NamesAreSequences DEF IndexOK
<1>6. \A i \in stops : i \in 0..Len(key)
                       /\ (node(i) \notin index.nodes \/ node(i) \in index.marked)
  OBVIOUS
\* A prefix that covers the key is the node of its length.
<1>7. \A p \in covering : Len(p) \in stops /\ p = node(Len(p))
  BY <1>5, PrefixIsCut
<1> HIDE DEF node, stops, last, found
<1>8. CASE covering = {}
  <2>1. stops # {} => node(last) \notin index.marked
    BY <1>2, <1>4, <1>6, <1>8
  <2>2. found = NoPrefix
    BY <2>1, <1>2, <1>3, <1>6
  <2> QED BY <1>8, <2>2 DEF found
<1>9. CASE covering # {}
  <2>1. PICK p \in covering : TRUE
    BY <1>9
  <2>2. last \in stops /\ last <= Len(p) /\ last \in 0..Len(key)
    BY <2>1, <1>2, <1>6, <1>7
  <2>3. Index!IsPrefix(node(last), p)
    BY <2>1, <2>2, <1>4, <1>5, PrefixesAreNested
  <2>4. node(last) \in index.nodes
    BY <2>1, <2>2, <2>3, <1>4, <1>5 DEF IndexOK, Rooted
  <2>5. found = node(last) /\ node(last) \in index.marked
    BY <2>2, <2>4, <1>3, <1>6
  <2>6. found \in covering
    BY <2>2, <2>5, <1>4
  <2>7. \A q \in covering : Len(found) <= Len(q)
    BY <2>2, <2>5, <1>2, <1>4, <1>7
  <2> QED BY <1>9, <2>6, <2>7 DEF found
<1> QED BY <1>8, <1>9

-----------------------------------------------------------------------------
(***************************************************************************)
(* The inductive invariant.                                                *)
(***************************************************************************)

MapsOK ==
  /\ listeners \in [Pattern -> SUBSET Listener]
  /\ moduleListeners \in [Prefix -> SUBSET Listener]
  /\ entries \in SUBSET Prefix

CallsOK ==
  \A c \in calls : /\ c.listener \in Listener
                   /\ c.name \in Pattern \cup Prefix
                   /\ c.keys \subseteq Key

WishesOK ==
  /\ asked \subseteq Listener \X Pattern
  /\ moduleAsked \subseteq Listener \X Prefix
  /\ cut \subseteq asked \cup moduleAsked

\* A map gives a listener the names it is wanted for, except those cut off.
Granted(map, wanted, refused) ==
  \A l \in Listener : \A p \in DOMAIN map :
    l \in map[p] <=> <<l, p>> \in wanted /\ <<l, p>> \notin refused

\* A prefix the tree finds has its entry in the map, so that the last listener
\* to go takes it out of the tree.
MarkedAreListened ==
  \A p \in modulePrefixIndex.marked : p \in entries /\ moduleListeners[p] # {}

\* The nodes are those of prefixes and the root.
NodesOfPrefixes ==
  modulePrefixIndex.nodes \subseteq
    {<<>>} \cup UNION {Index!Prefixes(p) : p \in Prefix}

DispatcherInv ==
  /\ MapsOK
  /\ CallsOK
  /\ WishesOK
  /\ Granted(listeners, asked, cut)
  /\ Granted(moduleListeners, moduleAsked, cut)
  /\ IndexOK(modulePrefixIndex)
  /\ MarkedAreListened
  /\ NodesOfPrefixes

\* The variables a dispatch or a call leaves alone.
registered == <<listeners, moduleListeners, entries, modulePrefixIndex, wishes>>

LEMMA ArgsElements ==
  ASSUME NEW S, NEW args \in Args(S)
  PROVE  Elements(args) \subseteq S /\ Elements(args) # {}
<1>1. CASE \E x \in S : args = <<x>>
  BY <1>1 DEF Elements
<1>2. CASE \E x \in S, y \in S : args = <<x, y>>
  BY <1>2 DEF Elements
<1> QED BY <1>1, <1>2 DEF Args

LEMMA ReachedElements ==
  ASSUME NEW map, NEW l, NEW args
  PROVE  /\ Reached(map, l, args) \subseteq Elements(args)
         /\ \A p : <<l, p>> \in CutOff(map, l, args) <=>
              p \in Elements(args) \ Reached(map, l, args) /\ l \notin map[p]
         /\ \A pair \in CutOff(map, l, args) : \E p \in Elements(args) : pair = <<l, p>>
BY DEF Reached, Elements, CutOff

LEMMA InitDispatcherInv == Init => DispatcherInv
<1> SUFFICES ASSUME Init PROVE DispatcherInv
  OBVIOUS
<1>1. MapsOK /\ CallsOK /\ WishesOK
  BY DEF Init, MapsOK, CallsOK, WishesOK
<1>2. Granted(listeners, asked, cut) /\ Granted(moduleListeners, moduleAsked, cut)
  BY DEF Init, Granted
<1>3. IndexOK(modulePrefixIndex)
  BY EmptyIndexOK DEF Init
<1>4. modulePrefixIndex.nodes = {<<>>} /\ modulePrefixIndex.marked = {}
  BY DEF Init, Index!EmptyIndex
<1>5. MarkedAreListened
  BY <1>4 DEF MarkedAreListened
<1>6. NodesOfPrefixes
  BY <1>4 DEF NodesOfPrefixes
<1> QED BY <1>1, <1>2, <1>3, <1>5, <1>6 DEF DispatcherInv

\* A registration of either kind: the listener gets the names it reaches, and
\* what it does not reach is cut off.
LEMMA RegisteringGrants ==
  ASSUME NEW map, NEW new, NEW wanted, NEW refused, NEW l \in Listener, NEW args,
         Elements(args) \subseteq DOMAIN map, DOMAIN new = DOMAIN map,
         Granted(map, wanted, refused),
         \A p \in DOMAIN map :
           new[p] = IF p \in Reached(map, l, args) THEN map[p] \cup {l} ELSE map[p]
  PROVE  Granted(new, wanted \cup {<<l, p>> : p \in Elements(args)},
                 (refused \ ({l} \X Reached(map, l, args)))
                   \cup CutOff(map, l, args))
<1> DEFINE newWanted == wanted \cup {<<l, p>> : p \in Elements(args)}
           newRefused == (refused \ ({l} \X Reached(map, l, args)))
                           \cup CutOff(map, l, args)
<1> SUFFICES ASSUME NEW m \in Listener, NEW p \in DOMAIN map
             PROVE  m \in new[p] <=> <<m, p>> \in newWanted
                                     /\ <<m, p>> \notin newRefused
  BY DEF Granted
<1>1. m \in map[p] <=> <<m, p>> \in wanted /\ <<m, p>> \notin refused
  BY DEF Granted
<1>2. CASE m # l \/ p \notin Elements(args)
  <2>1. m \in new[p] <=> m \in map[p]
    BY <1>2, ReachedElements
  <2>2. <<m, p>> \in newWanted <=> <<m, p>> \in wanted
    BY <1>2
  <2>3. <<m, p>> \notin CutOff(map, l, args)
    BY <1>2, ReachedElements
  <2>4. <<m, p>> \notin {l} \X Reached(map, l, args)
    BY <1>2, ReachedElements
  <2> QED BY <1>1, <2>1, <2>2, <2>3, <2>4
<1>3. CASE m = l /\ p \in Reached(map, l, args)
  <2>1. m \in new[p] /\ <<m, p>> \in newWanted
    BY <1>3, ReachedElements
  <2>2. <<m, p>> \notin CutOff(map, l, args)
    BY <1>3, ReachedElements
  <2>3. <<m, p>> \in {l} \X Reached(map, l, args)
    BY <1>3
  <2> QED BY <2>1, <2>2, <2>3
<1>4. CASE m = l /\ p \in Elements(args) /\ p \notin Reached(map, l, args)
  <2>1. new[p] = map[p] /\ <<m, p>> \in newWanted
    BY <1>4
  <2>2. <<m, p>> \in CutOff(map, l, args) <=> l \notin map[p]
    BY <1>4, ReachedElements
  <2>3. <<m, p>> \notin {l} \X Reached(map, l, args)
    BY <1>4
  <2> QED BY <1>1, <1>4, <2>1, <2>2, <2>3
<1> QED BY <1>2, <1>3, <1>4

\* An unregistration of either kind: the listener loses the names given.
LEMMA UnregisteringGrants ==
  ASSUME NEW map, NEW new, NEW wanted, NEW refused, NEW l \in Listener, NEW names,
         DOMAIN new = DOMAIN map,
         Granted(map, wanted, refused),
         \A p \in DOMAIN map :
           new[p] = IF p \in names THEN map[p] \ {l} ELSE map[p]
  PROVE  Granted(new, wanted \ ({l} \X names), refused \ ({l} \X names))
<1> SUFFICES ASSUME NEW m \in Listener, NEW p \in DOMAIN map
             PROVE  m \in new[p] <=> <<m, p>> \in wanted \ ({l} \X names)
                                     /\ <<m, p>> \notin refused \ ({l} \X names)
  BY DEF Granted
<1>1. m \in map[p] <=> <<m, p>> \in wanted /\ <<m, p>> \notin refused
  BY DEF Granted
<1>2. <<m, p>> \in {l} \X names <=> m = l /\ p \in names
  OBVIOUS
<1> QED BY <1>1, <1>2

\* What changes for names of the other kind only.
LEMMA OthersGrant ==
  ASSUME NEW map, NEW wanted, NEW refused, NEW newRefused,
         Granted(map, wanted, refused),
         \A l \in Listener : \A p \in DOMAIN map :
           <<l, p>> \in newRefused <=> <<l, p>> \in refused
  PROVE  Granted(map, wanted, newRefused)
BY DEF Granted

LEMMA RegisterListenerKeeps ==
  ASSUME DispatcherInv, NEW l \in Listener, NEW keys \in Args(Pattern),
         RegisterListener(l, keys)
  PROVE  DispatcherInv'
<1> USE DEF DispatcherInv
<1> DEFINE reached == Reached(listeners, l, keys)
           cutOff == CutOff(listeners, l, keys)
<1>1. Elements(keys) \subseteq Pattern /\ reached \subseteq Elements(keys)
  BY ArgsElements, ReachedElements
<1>2. DOMAIN listeners = Pattern /\ DOMAIN listeners' = Pattern
      /\ DOMAIN moduleListeners = Prefix
  BY DEF MapsOK, RegisterListener
<1>3. cutOff \subseteq {<<l, p>> : p \in Elements(keys)}
  BY ReachedElements
<1>4. cut' = (cut \ ({l} \X reached)) \cup cutOff
      /\ asked' = asked \cup {<<l, p>> : p \in Elements(keys)}
      /\ moduleAsked' = moduleAsked /\ moduleListeners' = moduleListeners
  BY DEF RegisterListener
<1>5. MapsOK'
  BY <1>1 DEF MapsOK, RegisterListener
<1>6. WishesOK'
  <2> HIDE DEF reached, cutOff
  <2>1. {<<l, p>> : p \in Elements(keys)} \subseteq Listener \X Pattern
    BY <1>1
  <2>2. WishesOK
    OBVIOUS
  <2> HIDE DEF DispatcherInv
  <2> QED BY <1>3, <1>4, <2>1, <2>2 DEF WishesOK
<1>7. Granted(listeners, asked, cut)'
  <2>1. \A p \in Pattern : listeners'[p] =
          IF p \in reached THEN listeners[p] \cup {l} ELSE listeners[p]
    BY DEF RegisterListener
  <2>2. Granted(listeners', asked \cup {<<l, p>> : p \in Elements(keys)},
                (cut \ ({l} \X reached)) \cup cutOff)
    BY <1>1, <1>2, <2>1, RegisteringGrants
  <2> QED BY <1>4, <2>2 DEF Granted
<1>8. Granted(moduleListeners, moduleAsked, cut)'
  <2>1. \A m \in Listener : \A p \in Prefix : <<m, p>> \in cut' <=> <<m, p>> \in cut
    BY <1>1, <1>3, <1>4, DispatcherAssumption
  <2>2. Granted(moduleListeners, moduleAsked, cut')
    BY <1>2, <2>1, OthersGrant
  <2> QED BY <2>2, <1>4 DEF Granted
<1>9. UNCHANGED <<moduleListeners, entries, modulePrefixIndex, calls>>
  BY DEF RegisterListener
<1>10. CallsOK' /\ IndexOK(modulePrefixIndex)' /\ MarkedAreListened'
       /\ NodesOfPrefixes'
  BY <1>9 DEF CallsOK, IndexOK, Rooted, Leading, MarkedAreListened, NodesOfPrefixes
<1> QED BY <1>5, <1>6, <1>7, <1>8, <1>10

LEMMA UnRegisterListenerKeeps ==
  ASSUME DispatcherInv, NEW l \in Listener, NEW keys \in Args(Pattern),
         UnRegisterListener(l, keys)
  PROVE  DispatcherInv'
<1> USE DEF DispatcherInv
<1> DEFINE names == Elements(keys)
<1>1. names \subseteq Pattern
  BY ArgsElements
<1>2. DOMAIN listeners = Pattern /\ DOMAIN listeners' = Pattern
      /\ DOMAIN moduleListeners = Prefix
  BY DEF MapsOK, UnRegisterListener
<1>4. cut' = cut \ ({l} \X names) /\ asked' = asked \ ({l} \X names)
      /\ moduleAsked' = moduleAsked /\ moduleListeners' = moduleListeners
  BY DEF UnRegisterListener
<1>5. MapsOK'
  BY DEF MapsOK, UnRegisterListener
<1>6. WishesOK'
  BY <1>4 DEF WishesOK
<1>7. Granted(listeners, asked, cut)'
  <2>1. \A p \in DOMAIN listeners : listeners'[p] =
          IF p \in names THEN listeners[p] \ {l} ELSE listeners[p]
    BY <1>2 DEF UnRegisterListener
  <2>3. DOMAIN listeners' = DOMAIN listeners /\ Granted(listeners, asked, cut)
    BY <1>2
  <2> HIDE DEF names, DispatcherInv
  <2>2. Granted(listeners', asked \ ({l} \X names), cut \ ({l} \X names))
    BY <2>1, <2>3, UnregisteringGrants
  <2> QED BY <1>4, <2>2 DEF Granted
<1>8. Granted(moduleListeners, moduleAsked, cut)'
  <2>1. \A m \in Listener : \A p \in Prefix : <<m, p>> \in cut' <=> <<m, p>> \in cut
    BY <1>1, <1>4, DispatcherAssumption
  <2>2. Granted(moduleListeners, moduleAsked, cut')
    BY <1>2, <2>1, OthersGrant
  <2> QED BY <2>2, <1>4 DEF Granted
<1>9. UNCHANGED <<moduleListeners, entries, modulePrefixIndex, calls>>
  BY DEF UnRegisterListener
<1>10. CallsOK' /\ IndexOK(modulePrefixIndex)' /\ MarkedAreListened'
       /\ NodesOfPrefixes'
  BY <1>9 DEF CallsOK, IndexOK, Rooted, Leading, MarkedAreListened, NodesOfPrefixes
<1> QED BY <1>5, <1>6, <1>7, <1>8, <1>10

LEMMA RegisterModuleListenerKeeps ==
  ASSUME DispatcherInv, NEW l \in Listener, NEW prefixes \in Args(Prefix),
         RegisterModuleListener(l, prefixes)
  PROVE  DispatcherInv'
<1> USE DEF DispatcherInv
<1> DEFINE reached == Reached(moduleListeners, l, prefixes)
           cutOff == CutOff(moduleListeners, l, prefixes)
           fresh == reached \ entries
           grown == UNION {Index!AddPrefix(Index!EmptyIndex, p).nodes : p \in fresh}
<1>1. Elements(prefixes) \subseteq Prefix /\ reached \subseteq Elements(prefixes)
  BY ArgsElements, ReachedElements
<1>2. /\ DOMAIN moduleListeners = Prefix /\ DOMAIN moduleListeners' = Prefix
      /\ DOMAIN listeners = Pattern
  BY DEF MapsOK, RegisterModuleListener
<1>3. cutOff \subseteq {<<l, p>> : p \in Elements(prefixes)}
  BY ReachedElements
<1>4. /\ cut' = (cut \ ({l} \X reached)) \cup cutOff
      /\ moduleAsked' = moduleAsked \cup {<<l, p>> : p \in Elements(prefixes)}
      /\ entries' = entries \cup reached
      /\ UNCHANGED <<listeners, calls, asked>>
  BY DEF RegisterModuleListener
<1>5. \A p \in Prefix : moduleListeners'[p] =
        IF p \in reached THEN moduleListeners[p] \cup {l} ELSE moduleListeners[p]
  BY DEF RegisterModuleListener
<1>6. modulePrefixIndex' = [nodes |-> modulePrefixIndex.nodes \cup grown,
                            marked |-> modulePrefixIndex.marked \cup fresh]
  BY DEF RegisterModuleListener
<1>7. MapsOK'
  BY <1>1 DEF MapsOK, RegisterModuleListener
<1>8. WishesOK'
  <2> HIDE DEF reached, cutOff
  <2>1. {<<l, p>> : p \in Elements(prefixes)} \subseteq Listener \X Prefix
    BY <1>1
  <2>2. WishesOK
    OBVIOUS
  <2> HIDE DEF DispatcherInv
  <2> QED BY <1>3, <1>4, <2>1, <2>2 DEF WishesOK
<1>9. Granted(moduleListeners, moduleAsked, cut)'
  <2>1. Granted(moduleListeners',
                moduleAsked \cup {<<l, p>> : p \in Elements(prefixes)},
                (cut \ ({l} \X reached)) \cup cutOff)
    BY <1>1, <1>2, <1>5, RegisteringGrants
  <2> QED BY <1>4, <2>1 DEF Granted
<1>10. Granted(listeners, asked, cut)'
  <2>1. \A m \in Listener : \A p \in Pattern : <<m, p>> \in cut' <=> <<m, p>> \in cut
    BY <1>1, <1>3, <1>4, DispatcherAssumption
  <2>2. Granted(listeners, asked, cut')
    BY <1>2, <2>1, OthersGrant
  <2> QED BY <2>2, <1>4 DEF Granted
<1>11. IndexOK(modulePrefixIndex')
  <2>1. fresh \subseteq Prefix
    BY <1>1
  <2> HIDE DEF fresh
  <2> QED BY <1>6, <2>1, AddPrefixesOK
<1>12. MarkedAreListened'
  <2> HIDE DEF reached, grown
  <2>1. modulePrefixIndex.marked \subseteq Prefix
    BY DEF IndexOK
  <2>2. modulePrefixIndex'.marked = modulePrefixIndex.marked \cup fresh
    BY <1>6
  <2> QED BY <1>1, <1>4, <1>5, <2>1, <2>2 DEF MarkedAreListened
<1>13. NodesOfPrefixes'
  <2>1. \A p \in fresh : Index!AddPrefix(Index!EmptyIndex, p).nodes =
                           {<<>>} \cup Index!Prefixes(p)
    BY DEF Index!AddPrefix, Index!EmptyIndex
  <2>2. \A n \in grown : n = <<>> \/ \E p \in Prefix : n \in Index!Prefixes(p)
    BY <1>1, <2>1
  <2> HIDE DEF grown, fresh
  <2>3. modulePrefixIndex'.nodes = modulePrefixIndex.nodes \cup grown
    BY <1>6
  <2> QED BY <2>2, <2>3 DEF NodesOfPrefixes
<1>14. CallsOK'
  BY <1>4 DEF CallsOK
<1>15. IndexOK(modulePrefixIndex)'
  BY <1>11 DEF IndexOK, Rooted, Leading
<1> QED BY <1>7, <1>8, <1>9, <1>10, <1>12, <1>13, <1>14, <1>15

LEMMA UnRegisterModuleListenerKeeps ==
  ASSUME DispatcherInv, NEW l \in Listener, NEW prefix \in Prefix,
         UnRegisterModuleListener(l, prefix)
  PROVE  DispatcherInv'
<1> USE DEF DispatcherInv
<1> DEFINE names == {prefix}
           last == prefix \in entries /\ moduleListeners[prefix] \subseteq {l}
           pruned == Index!RemovePrefix(modulePrefixIndex, prefix)
<1>1. /\ DOMAIN moduleListeners = Prefix /\ DOMAIN moduleListeners' = Prefix
      /\ DOMAIN listeners = Pattern
  BY DEF MapsOK, UnRegisterModuleListener
<1>2. /\ cut' = cut \ ({l} \X names) /\ moduleAsked' = moduleAsked \ ({l} \X names)
      /\ UNCHANGED <<listeners, entries, calls, asked>>
  BY DEF UnRegisterModuleListener
<1>3. \A p \in DOMAIN moduleListeners : moduleListeners'[p] =
        IF p \in names THEN moduleListeners[p] \ {l} ELSE moduleListeners[p]
  BY DEF UnRegisterModuleListener, MapsOK
<1>4. modulePrefixIndex' = IF last THEN pruned ELSE modulePrefixIndex
  BY DEF UnRegisterModuleListener
<1>5. /\ IndexOK(pruned) /\ pruned.marked = modulePrefixIndex.marked \ {prefix}
      /\ pruned.nodes \subseteq modulePrefixIndex.nodes
  BY RemovePrefixOK
<1>6. MapsOK'
  BY DEF MapsOK, UnRegisterModuleListener
<1>7. WishesOK'
  BY <1>2 DEF WishesOK
<1>8. Granted(moduleListeners, moduleAsked, cut)'
  <2>1. DOMAIN moduleListeners' = DOMAIN moduleListeners
        /\ Granted(moduleListeners, moduleAsked, cut)
    BY <1>1
  <2> HIDE DEF names, DispatcherInv
  <2>2. Granted(moduleListeners', moduleAsked \ ({l} \X names),
                cut \ ({l} \X names))
    BY <1>3, <2>1, UnregisteringGrants
  <2> QED BY <1>2, <2>2 DEF Granted
<1>9. Granted(listeners, asked, cut)'
  <2>1. \A m \in Listener : \A p \in Pattern : <<m, p>> \in cut' <=> <<m, p>> \in cut
    BY <1>2, DispatcherAssumption
  <2>2. Granted(listeners, asked, cut')
    BY <1>1, <2>1, OthersGrant
  <2> QED BY <2>2, <1>2 DEF Granted
<1> HIDE DEF pruned, last
<1>10. IndexOK(modulePrefixIndex')
  BY <1>4, <1>5
<1>11. MarkedAreListened'
  <2> SUFFICES ASSUME NEW p \in modulePrefixIndex'.marked
               PROVE  p \in entries /\ moduleListeners'[p] # {}
    BY <1>2 DEF MarkedAreListened
  <2>1. p \in modulePrefixIndex.marked /\ p \in Prefix
    BY <1>4, <1>5 DEF IndexOK
  <2>2. p \in entries /\ moduleListeners[p] # {}
    BY <2>1 DEF MarkedAreListened
  <2>3. CASE p # prefix
    BY <1>1, <1>3, <2>1, <2>2, <2>3
  <2>4. CASE p = prefix
    <3>1. ~last
      BY <1>4, <1>5, <2>4
    <3>2. ~(moduleListeners[p] \subseteq {l})
      BY <2>2, <2>4, <3>1 DEF last
    <3> QED BY <1>1, <1>3, <2>1, <2>2, <2>4, <3>2
  <2> QED BY <2>3, <2>4
<1>12. NodesOfPrefixes'
  <2>1. modulePrefixIndex'.nodes \subseteq modulePrefixIndex.nodes
    BY <1>4, <1>5
  <2> QED BY <2>1 DEF NodesOfPrefixes
<1>13. CallsOK'
  BY <1>2 DEF CallsOK
<1>14. IndexOK(modulePrefixIndex)'
  BY <1>10 DEF IndexOK, Rooted, Leading
<1> QED BY <1>6, <1>7, <1>8, <1>9, <1>11, <1>12, <1>13, <1>14

\* A dispatch and a call change the started goroutines only.
LEMMA RegisteredKeeps ==
  ASSUME DispatcherInv, UNCHANGED registered, CallsOK'
  PROVE  DispatcherInv'
<1> USE DEF DispatcherInv, registered, wishes
<1>1. MapsOK' /\ WishesOK'
  BY DEF MapsOK, WishesOK
<1>2. Granted(listeners, asked, cut)' /\ Granted(moduleListeners, moduleAsked, cut)'
  BY DEF Granted
<1>3. IndexOK(modulePrefixIndex)' /\ MarkedAreListened' /\ NodesOfPrefixes'
  BY DEF IndexOK, Rooted, Leading, MarkedAreListened, NodesOfPrefixes
<1> QED BY <1>1, <1>2, <1>3

\* The goroutines a dispatch starts.
LEMMA StartedByEvent ==
  ASSUME DispatcherInv, NEW key \in Key, DispatchEvent(key),
         NEW c \in calls' \ calls
  PROVE  \E p \in Pattern : /\ <<p, key>> \in Matches
                            /\ c.listener \in listeners[p]
                            /\ c.name = p /\ c.keys = {key}
<1>1. c \in UNION {[listener : listeners[p], name : {p}, keys : {{key}}] :
                     p \in {q \in Pattern : <<q, key>> \in Matches}}
  BY DEF DispatchEvent
<1>2. PICK p \in {q \in Pattern : <<q, key>> \in Matches} :
        c \in [listener : listeners[p], name : {p}, keys : {{key}}]
  BY <1>1
<1> QED BY <1>2

LEMMA StartedByModuleEvent ==
  ASSUME DispatcherInv, NEW keys \in SUBSET Key, DispatchModuleEvent(keys),
         NEW c \in calls' \ calls
  PROVE  \E p \in Prefix :
           /\ c.listener \in moduleListeners[p] /\ c.name = p
           /\ c.keys = {k \in keys : Index!FindPrefix(modulePrefixIndex, k) = p}
<1>1. c \in UNION {[listener : moduleListeners[p], name : {p},
                    keys : {ParseEvents(keys)[p]}] :
                     p \in {q \in Prefix : ParseEvents(keys)[q] # {}}}
  BY DEF DispatchModuleEvent
<1>2. PICK p \in {q \in Prefix : ParseEvents(keys)[q] # {}} :
        c \in [listener : moduleListeners[p], name : {p},
               keys : {ParseEvents(keys)[p]}]
  BY <1>1
<1>3. ParseEvents(keys)[p] =
        {k \in keys : Index!FindPrefix(modulePrefixIndex, k) = p}
  BY DEF ParseEvents
<1> QED BY <1>2, <1>3

LEMMA DispatchEventKeeps ==
  ASSUME DispatcherInv, NEW key \in Key, DispatchEvent(key)
  PROVE  DispatcherInv'
<1>1. UNCHANGED registered
  BY DEF DispatchEvent, registered
<1>2. ASSUME NEW c \in calls'
      PROVE  c.listener \in Listener /\ c.name \in Pattern \cup Prefix
             /\ c.keys \subseteq Key
  <2>1. CASE c \in calls
    BY <2>1 DEF DispatcherInv, CallsOK
  <2>2. CASE c \notin calls
    <3>1. PICK p \in Pattern : c.listener \in listeners[p] /\ c.name = p
                               /\ c.keys = {key}
      BY <2>2, StartedByEvent
    <3> QED BY <3>1 DEF DispatcherInv, MapsOK
  <2> QED BY <2>1, <2>2
<1> QED BY <1>1, <1>2, RegisteredKeeps DEF CallsOK

LEMMA DispatchModuleEventKeeps ==
  ASSUME DispatcherInv, NEW keys \in SUBSET Key, DispatchModuleEvent(keys)
  PROVE  DispatcherInv'
<1>1. UNCHANGED registered
  BY DEF DispatchModuleEvent, registered
<1>2. ASSUME NEW c \in calls'
      PROVE  c.listener \in Listener /\ c.name \in Pattern \cup Prefix
             /\ c.keys \subseteq Key
  <2>1. CASE c \in calls
    BY <2>1 DEF DispatcherInv, CallsOK
  <2>2. CASE c \notin calls
    <3>1. PICK p \in Prefix :
            /\ c.listener \in moduleListeners[p] /\ c.name = p
            /\ c.keys = {k \in keys : Index!FindPrefix(modulePrefixIndex, k) = p}
      BY <2>2, StartedByModuleEvent
    <3> QED BY <3>1 DEF DispatcherInv, MapsOK
  <2> QED BY <2>1, <2>2
<1> QED BY <1>1, <1>2, RegisteredKeeps DEF CallsOK

LEMMA EventKeeps ==
  ASSUME DispatcherInv, NEW c \in calls, Event(c)
  PROVE  DispatcherInv'
<1>1. UNCHANGED registered
  BY DEF Event, registered
<1>2. CallsOK'
  BY DEF Event, DispatcherInv, CallsOK
<1> QED BY <1>1, <1>2, RegisteredKeeps

LEMMA NextDispatcherInv == DispatcherInv /\ [Next]_vars => DispatcherInv'
<1> SUFFICES ASSUME DispatcherInv, [Next]_vars PROVE DispatcherInv'
  OBVIOUS
<1>1. CASE UNCHANGED vars
  <2>1. UNCHANGED registered /\ UNCHANGED calls
    BY <1>1 DEF vars, registered
  <2>2. CallsOK'
    BY <2>1 DEF DispatcherInv, CallsOK
  <2> QED BY <2>1, <2>2, RegisteredKeeps
<1>2. CASE Registrations
  BY <1>2, RegisterListenerKeeps, UnRegisterListenerKeeps,
     RegisterModuleListenerKeeps, UnRegisterModuleListenerKeeps
     DEF Registrations
<1>3. CASE Dispatches
  BY <1>3, DispatchEventKeeps, DispatchModuleEventKeeps DEF Dispatches
<1>4. CASE \E c \in calls : Event(c)
  BY <1>4, EventKeeps
<1> QED BY <1>1, <1>2, <1>3, <1>4 DEF Next

LEMMA DispatcherInvHolds == Spec => []DispatcherInv
BY InitDispatcherInv, NextDispatcherInv, PTL DEF Spec

-----------------------------------------------------------------------------
(***************************************************************************)
(* The properties.                                                         *)
(***************************************************************************)

\* The variables hold values of their types, for any listeners, patterns,
\* prefixes and keys.
THEOREM DispatcherTypeCorrect == Spec => []TypeOK
<1>1. DispatcherInv => TypeOK
  BY DEF DispatcherInv, TypeOK, MapsOK, CallsOK, WishesOK, IndexOK,
     NodesOfPrefixes
<1> QED BY <1>1, DispatcherInvHolds, PTL

\* PrefixIndex.FindPrefix answers with the shortest registered prefix of a key
\* after any history of AddPrefix and RemovePrefix, and with nothing exactly
\* when the tree has none.
THEOREM ShortestIsFound == Spec => []FindsShortest
<1>1. DispatcherInv => FindsShortest
  <2> SUFFICES ASSUME DispatcherInv, NEW key \in Key
               PROVE  LET covering == {p \in modulePrefixIndex.marked :
                                         Index!IsPrefix(p, key)}
                          found == Index!FindPrefix(modulePrefixIndex, key)
                      IN IF covering = {} THEN found = NoPrefix
                         ELSE /\ found \in covering
                              /\ \A p \in covering : Len(found) <= Len(p)
    BY DEF FindsShortest
  <2>1. key \in Name /\ IndexOK(modulePrefixIndex)
    BY NamesAreSequences DEF DispatcherInv
  <2> QED BY <2>1, FindPrefixFinds
<1> QED BY <1>1, DispatcherInvHolds, PTL

\* PrefixIndex.RemovePrefix leaves no node that leads to no prefix, and a prefix
\* of the tree has a listener.
THEOREM BranchesAreAlive == Spec => []NoDeadBranch
<1>1. DispatcherInv => NoDeadBranch
  BY DEF DispatcherInv, NoDeadBranch, IndexOK, Leading, MarkedAreListened
<1> QED BY <1>1, DispatcherInvHolds, PTL

\* A map that grants has the pairs that are wanted and not cut off.
LEMMA GrantedPairs ==
  ASSUME NEW N, NEW map \in [N -> SUBSET Listener], NEW wanted, NEW refused,
         wanted \subseteq Listener \X N, Granted(map, wanted, refused)
  PROVE  UNION {map[p] \X {p} : p \in N} = wanted \ refused
<1>1. ASSUME NEW pair \in UNION {map[p] \X {p} : p \in N}
      PROVE  pair \in wanted \ refused
  <2>1. PICK p \in N : pair \in map[p] \X {p}
    BY <1>1
  <2>2. PICK l \in map[p] : pair = <<l, p>>
    BY <2>1
  <2> QED BY <2>2 DEF Granted
<1>2. ASSUME NEW pair \in wanted \ refused
      PROVE  pair \in UNION {map[p] \X {p} : p \in N}
  <2>1. PICK l \in Listener, p \in N : pair = <<l, p>>
    BY <1>2
  <2>2. l \in map[p]
    BY <2>1, <1>2 DEF Granted
  <2> QED BY <2>1, <2>2
<1> QED BY <1>1, <1>2

\* After any calls of the four registrations a listener has what it asked for
\* and did not take back, except what a call that ended early did not get to.
THEOREM AskedIsGranted == Spec => []HasWhatItAsked
<1>1. DispatcherInv => HasWhatItAsked
  BY DispatcherAssumption, GrantedPairs
     DEF DispatcherInv, HasWhatItAsked, MapsOK, WishesOK
<1> QED BY <1>1, DispatcherInvHolds, PTL

\* The goroutines DispatchEvent and DispatchModuleEvent start are for listeners
\* that asked for the name, and carry only events that fit it.
THEOREM OnlyWhoAskedIsCalled == Spec => CalledAsAsked
<1>1. DispatcherInv /\ [Next]_vars => [CallsWhoAsked]_vars
  <2> SUFFICES ASSUME DispatcherInv, Next, NEW c \in calls' \ calls
               PROVE  \/ /\ <<c.listener, c.name>> \in asked
                         /\ \A k \in c.keys : <<c.name, k>> \in Matches
                      \/ /\ <<c.listener, c.name>> \in moduleAsked
                         /\ \A k \in c.keys : Index!IsPrefix(c.name, k)
    BY DEF CallsWhoAsked
  <2>1. Dispatches
    BY DEF Next, Registrations, Event, RegisterListener, UnRegisterListener,
       RegisterModuleListener, UnRegisterModuleListener
  <2>2. CASE \E key \in Key : DispatchEvent(key)
    <3>1. PICK key \in Key : DispatchEvent(key)
      BY <2>2
    <3>2. PICK p \in Pattern : /\ <<p, key>> \in Matches
                               /\ c.listener \in listeners[p]
                               /\ c.name = p /\ c.keys = {key}
      BY <3>1, StartedByEvent
    <3>3. <<c.listener, p>> \in asked
      BY <3>2 DEF DispatcherInv, MapsOK, Granted
    <3> QED BY <3>2, <3>3
  <2>3. CASE \E keys \in SUBSET Key \ {{}} : DispatchModuleEvent(keys)
    <3>1. PICK keys \in SUBSET Key : DispatchModuleEvent(keys)
      BY <2>3
    <3>2. PICK p \in Prefix :
            /\ c.listener \in moduleListeners[p] /\ c.name = p
            /\ c.keys = {k \in keys : Index!FindPrefix(modulePrefixIndex, k) = p}
      BY <3>1, StartedByModuleEvent
    <3>3. <<c.listener, p>> \in moduleAsked
      BY <3>2 DEF DispatcherInv, MapsOK, Granted
    <3>4. ASSUME NEW k \in c.keys PROVE Index!IsPrefix(p, k)
      <4>1. k \in Name /\ Index!FindPrefix(modulePrefixIndex, k) = p
        BY <3>2, NamesAreSequences
      <4> QED BY <4>1, FoundIsPrefix, DispatcherAssumption
    <3> QED BY <3>2, <3>3, <3>4
  <2> QED BY <2>1, <2>2, <2>3 DEF Dispatches
<1> QED BY <1>1, DispatcherInvHolds, PTL DEF Spec, CalledAsAsked

\* parseEvents puts an event under one prefix only: no module listener gets it
\* twice from a dispatch.
THEOREM EventIsGivenOnce == Spec => ModuleEventOnce
<1>1. DispatcherInv /\ [Next]_vars => [GivesEventOnce]_vars
  <2> SUFFICES ASSUME DispatcherInv, Next, NEW c \in calls' \ calls,
                      NEW d \in calls' \ calls, c # d, c.listener = d.listener,
                      c.name \in Prefix, d.name \in Prefix
               PROVE  c.keys \cap d.keys = {}
    BY DEF GivesEventOnce
  <2>1. Dispatches
    BY DEF Next, Registrations, Event, RegisterListener, UnRegisterListener,
       RegisterModuleListener, UnRegisterModuleListener
  <2>2. CASE \E key \in Key : DispatchEvent(key)
    BY <2>2, StartedByEvent, DispatcherAssumption
  <2>3. CASE \E keys \in SUBSET Key \ {{}} : DispatchModuleEvent(keys)
    <3>1. PICK keys \in SUBSET Key : DispatchModuleEvent(keys)
      BY <2>3
    <3>2. \A e \in calls' \ calls :
            /\ e.name \in Prefix
            /\ e.keys = {k \in keys :
                           Index!FindPrefix(modulePrefixIndex, k) = e.name}
            /\ \E p \in Prefix : e \in [listener : moduleListeners[p], name : {p},
                                        keys : {ParseEvents(keys)[p]}]
      <4>1. \A e \in calls' \ calls : \E p \in Prefix :
              e \in [listener : moduleListeners[p], name : {p},
                     keys : {ParseEvents(keys)[p]}]
        BY <3>1 DEF DispatchModuleEvent
      <4>2. \A p \in Prefix : ParseEvents(keys)[p] =
              {k \in keys : Index!FindPrefix(modulePrefixIndex, k) = p}
        BY DEF ParseEvents
      <4> QED BY <4>1, <4>2
    <3>3. c.name # d.name
      BY <3>2
    <3> QED BY <3>2, <3>3
  <2> QED BY <2>1, <2>2, <2>3 DEF Dispatches
<1> QED BY <1>1, DispatcherInvHolds, PTL DEF Spec, ModuleEventOnce
=============================================================================
