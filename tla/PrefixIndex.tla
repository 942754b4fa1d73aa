----------------------------- MODULE PrefixIndex -----------------------------
(***************************************************************************)
(* event/event_system.go: PrefixIndex, the tree in which the Dispatcher    *)
(* looks up the module prefix an event's key belongs to.  A dotted name is *)
(* the sequence of its parts; a node of the tree is the name that leads to *)
(* it, and it is marked when its Prefix is set.                            *)
(***************************************************************************)
EXTENDS Sequences, SequencesExt, FiniteSets, Integers

CONSTANT NoPrefix  \* FindPrefix's empty string

EmptyIndex == [nodes |-> {<<>>}, marked |-> {}]

AddPrefix(index, prefix) ==
  [nodes |-> index.nodes \cup Prefixes(prefix),
   marked |-> index.marked \cup {prefix}]

\* Mutants: the whole branch goes, the node is only unmarked.
RemoveBranch(index, prefix) ==
  [nodes |-> index.nodes \ (Prefixes(prefix) \ {<<>>}),
   marked |-> index.marked \ (Prefixes(prefix) \ {<<>>})]

UnmarkOnly(index, prefix) ==
  [index EXCEPT !.marked = @ \ {prefix}]

\* The loop climbs from prefix to the root and takes nodes away as long as
\* they lead to no other node and are not marked.
RemovePrefix(index, prefix) ==
  LET marked == index.marked \ {prefix}
      dead == {q \in Prefixes(prefix) \ {<<>>} :
                 \A n \in index.nodes : IsPrefix(q, n) =>
                   n \in Prefixes(prefix) /\ n \notin marked}
  IN IF prefix \notin index.nodes THEN index
     ELSE [nodes |-> index.nodes \ dead, marked |-> marked]

\* The walk down from the root ends at the first node that is missing or
\* marked, or with the key.
FindPrefix(index, key) ==
  LET node(i) == SubSeq(key, 1, i)
      stops == {i \in 0..Len(key) : \/ node(i) \notin index.nodes
                                    \/ node(i) \in index.marked}
      last == Min(stops)
  IN IF stops = {} \/ node(last) \notin index.nodes THEN NoPrefix
     ELSE node(last)
=============================================================================
