---------------------------- MODULE ApolloSource ----------------------------
(***************************************************************************)
(* source/apollo: the apollo client (external) keeps the configuration of  *)
(* every namespace and polls the server from a goroutine that is started   *)
(* once in the life of the program.  When a poll changed a namespace it    *)
(* calls UpdateCallback with the list of changes, which hands the Manager  *)
(* an event for each, and then all of them at once; a change of a type it  *)
(* does not know ends the program there.  Readers ask the client.          *)
(***************************************************************************)
EXTENDS Sequences, FiniteSets, FiniteSetsExt, Integers

CONSTANTS Namespace, Field, Value, None,
          NoNamespace,   \* where a namespace would stand, if they are ignored
          MaxPolls       \* bound on the polls that find changes

\* The keys of events: "namespace.field", or the field alone.
EventKey == (Namespace \cup {NoNamespace}) \X Field

INSTANCE EventTool WITH Key <- EventKey

ADDED == "ADDED"
MODIFIED == "MODIFIED"
DELETED == "DELETED"
Unknown == "unknown"  \* any other ConfigChangeType

VARIABLES
  ignoreNamespace,
  content,   \* the client's cache
  started,   \* the client polls
  source,    \* "new", "pulled" by GetConfigurations, "watched", or "panicked":
             \* the program has ended
  callback,  \* the namespace and the changes UpdateCallback has still to handle
  events,    \* es: the events it has made
  copy,      \* what the Manager has been told, by the pull and by events
  moduleCopy,  \* what OnModuleEvent has told since
  missed,    \* history: keys that changed before Watch was called, or that two
             \* namespaces had at once
  cleaned,   \* Cleanup has been called
  polls

vars == <<ignoreNamespace, content, started, source, callback, events, copy,
          moduleCopy, missed, cleaned, polls>>

Fields == [Field -> Value \cup {None}]

\* The key the application uses for a field of a namespace.
KeyOf(ns, f) == <<IF ignoreNamespace THEN NoNamespace ELSE ns, f>>

\* The namespaces that have key.
Holding(key) ==
  {ns \in Namespace : KeyOf(ns, key[2]) = key /\ content[ns][key[2]] # None}

\* apollo.GetConfigByKey: if two namespaces have a key, either may answer.
Answers(key) ==
  IF Holding(key) = {} THEN {None} ELSE {content[ns][key[2]] : ns \in Holding(key)}

\* The client lists the fields that differ, in some order (external).
Change(old, new, f) ==
  [type : {IF old[f] = None THEN ADDED ELSE IF new[f] = None THEN DELETED
           ELSE MODIFIED, Unknown},
   field : {f}, newValue : {new[f]}]

ChangeLists(old, new) ==
  LET changed == {f \in Field : old[f] # new[f]}
  IN {list \in [1..Cardinality(changed) -> UNION {Change(old, new, f) : f \in changed}] :
        \A i, j \in DOMAIN list : list[i].field = list[j].field => i = j}

\* Keys two namespaces have.
Shared == {key \in EventKey : Cardinality(Holding(key)) > 1}

-----------------------------------------------------------------------------
Init ==
  /\ ignoreNamespace \in BOOLEAN /\ started \in BOOLEAN
  /\ content \in [Namespace -> Fields]
  /\ source = "new"
  /\ callback = <<>> /\ events = <<>>
  /\ copy = EmptyConfig /\ moduleCopy = EmptyConfig
  /\ missed = Shared /\ cleaned = FALSE /\ polls = 0

\* The Manager takes the keys of the client's cache, and their values from
\* GetConfigurationByKey.
GetConfigurations ==
  /\ source = "new" /\ source' = "pulled"
  /\ copy' \in {c \in Config : \A key \in EventKey : c[key] \in Answers(key)}
  /\ moduleCopy' = copy'
  /\ UNCHANGED <<ignoreNamespace, content, started, callback, events, missed,
                 cleaned, polls>>

\* gStartApolloOnce: an earlier source may have started the client already.
Watch ==
  /\ source = "pulled" /\ source' = "watched"
  /\ started' = TRUE
  /\ UNCHANGED <<ignoreNamespace, content, callback, events, copy, moduleCopy,
                 missed, cleaned, polls>>

\* A poll finds changes in a namespace and calls back, if the source is
\* registered by then (external).
Poll(ns, new) ==
  /\ UNCHANGED <<ignoreNamespace, started, source, events, copy, moduleCopy,
                 cleaned>>
  /\ started /\ polls < MaxPolls /\ polls' = polls + 1
  /\ callback = <<>>
  /\ new # content[ns]
  /\ content' = [content EXCEPT ![ns] = new]
  /\ IF source = "watched"
     THEN /\ \E list \in ChangeLists(content[ns], new) : callback' = <<ns, list>>
          /\ missed' = missed \cup Shared'
     ELSE /\ missed' = missed \cup Shared' \cup
               {KeyOf(ns, f) : f \in {g \in Field : new[g] # content[ns][g]}}
          /\ UNCHANGED callback

TransformEventType(type) ==
  CASE type = ADDED -> {Create}
    [] type = MODIFIED -> {Update}
    [] type = DELETED -> {Delete}
    [] OTHER -> {}

\* Mutant: the key is qualified also if namespaces are ignored.
EventsQualified(change, ns) ==
  {ConstructEvent("apollo", t, <<ns, change.field>>, change.newValue) :
     t \in TransformEventType(change.type)}

\* An entry of es that is left nil.
NilEvent == [type |-> "nil"]

\* The event of a change, none for a type it does not know.  A DELETE too
\* carries the new value.
EventsOf(change, ns) ==
  {ConstructEvent("apollo", t, KeyOf(ns, change.field), change.newValue) :
     t \in TransformEventType(change.type)}

\* OnEvent for the first change that is left, but for a type it does not know.
UpdateCallback ==
  /\ callback # <<>> /\ callback[2] # <<>>
  /\ LET ns == callback[1]
         change == Head(callback[2])
         es == EventsOf(change, ns)
     IN /\ callback' = <<ns, Tail(callback[2])>>
        /\ \/ /\ es = {}
              /\ events' = Append(events, NilEvent)
              /\ UNCHANGED copy
           \/ \E e \in es : /\ copy' = Follow(copy, e)
                            /\ events' = Append(events, e)
  /\ UNCHANGED <<ignoreNamespace, content, started, source, moduleCopy, missed,
                 cleaned, polls>>

\* What the Manager has once it has followed a list of events, one after the
\* other: the last one about a key decides.
FollowAll(c, es) ==
  [key \in EventKey |->
     LET about == {i \in DOMAIN es : es[i].key = key}
     IN IF about = {} THEN c[key] ELSE Follow(c, es[Max(about)])[key]]

\* Every entry of es is an event.
NoNil(es) == \A i \in DOMAIN es : es[i] # NilEvent

\* The end of the callback.  updateModuleEvent gets an error for a nil event,
\* and dereferences the event to log it.
OnModuleEvent ==
  /\ source = "watched"
  /\ callback # <<>> /\ callback[2] = <<>>
  /\ IF NoNil(events)
     THEN /\ callback' = <<>> /\ events' = <<>>
          /\ moduleCopy' = FollowAll(moduleCopy, events)
          /\ UNCHANGED source
     ELSE /\ source' = "panicked"
          /\ UNCHANGED <<callback, events, moduleCopy>>
  /\ UNCHANGED <<ignoreNamespace, content, started, copy, missed, cleaned, polls>>

\* The client's cache is emptied, also under a callback; its polls go on.
Cleanup ==
  /\ source # "panicked"
  /\ ~cleaned /\ cleaned' = TRUE
  /\ content' = [ns \in Namespace |-> [f \in Field |-> None]]
  /\ UNCHANGED <<ignoreNamespace, started, source, callback, events, copy,
                 moduleCopy, missed, polls>>

Next ==
  \/ GetConfigurations \/ Watch
  \/ \E ns \in Namespace, new \in Fields : Poll(ns, new)
  \/ UpdateCallback \/ OnModuleEvent
  \/ Cleanup

Spec == Init /\ [][Next]_vars

-----------------------------------------------------------------------------
\* The variables hold values of their types.
TypeOK ==
  /\ {ignoreNamespace, started, cleaned} \subseteq BOOLEAN
  /\ content \in [Namespace -> Fields]
  /\ source \in {"new", "pulled", "watched", "panicked"}
  /\ callback # <<>> => callback[1] \in Namespace
  /\ events \in Seq([source : {"apollo"}, type : {Create, Update, Delete},
                     key : EventKey, val : Value \cup {None}] \cup {NilEvent})
  /\ copy \in Config /\ moduleCopy \in Config
  /\ missed \subseteq EventKey
  /\ polls \in 0..MaxPolls

\* When no callback runs, who follows the events of either kind knows what
\* the client answers, except of keys that changed before Watch was called,
\* and, if namespaces are ignored, of keys that two of them had: one's DELETE is
\* told while the other answers.
ToldIsAnswered ==
  source = "watched" /\ callback = <<>> /\ ~cleaned =>
    \A key \in EventKey \ missed :
      {copy[key], moduleCopy[key]} = Answers(key)
=============================================================================
