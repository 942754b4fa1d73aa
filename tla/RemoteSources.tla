---------------------------- MODULE RemoteSources ----------------------------
(***************************************************************************)
(* The remote sources: each package installs itself by name (remote.go),   *)
(* and EnableRemoteSource makes the one that the options name the only one *)
(* of the program.  It is the plugin; the variables of the two others stay *)
(* as they are.                                                            *)
(***************************************************************************)
EXTENDS KieSource

CONSTANTS Ticker, Refresher, Group, CCValue, Malformed, Nobody, MaxChanges,
          MaxMalformed,                            \* ConfigCenterSource
          Namespace, Field, NoNamespace, MaxPolls  \* ApolloSource

ASSUME ConfigCenterAssumption ==
  /\ {None, NoConfig, Malformed} \cap [Key -> CCValue \cup {None}] = {}
  /\ None \notin CCValue /\ Malformed # NoConfig
  /\ {"Watch", Nobody} \cap (Ticker \cup Refresher) = {} /\ Nobody # "Watch"
  /\ MaxChanges \in Nat /\ MaxMalformed \in Nat
ASSUME ApolloAssumption ==
  /\ NoNamespace \notin Namespace /\ MaxPolls \in Nat
  /\ IsFiniteSet(Namespace) /\ IsFiniteSet(Field)

VARIABLES plugin,
          ccCurrent, ccPending, ccCopy, ccRefreshMode, groups, changes, fetched,
          firing, watcher, messages, announced, heard, torn, ccCleaned,
          malformed,
          ignoreNamespace, content, started, source, callback, events, told,
          moduleCopy, missed, apolloCleaned, polls

CC == INSTANCE ConfigCenterSource WITH
        Value <- CCValue, current <- ccCurrent, pending <- ccPending,
        copy <- ccCopy, RefreshMode <- ccRefreshMode, cleaned <- ccCleaned

Apollo == INSTANCE ApolloSource WITH copy <- told, cleaned <- apolloCleaned

ccVars == <<ccCurrent, ccPending, ccCopy, ccRefreshMode, groups, changes,
            fetched, firing, watcher, messages, announced, heard, torn,
            ccCleaned, malformed>>
apolloVars == <<ignoreNamespace, content, started, source, callback, events,
                told, moduleCopy, missed, apolloCleaned, polls>>
remoteVars == <<kieVars, ccVars, apolloVars, plugin>>

KieSourceName == "kie"
ConfigCenterSourceName == "config-center"
ApolloSourceName == "apollo"

-----------------------------------------------------------------------------
Plugins == {KieSourceName, ConfigCenterSourceName, ApolloSourceName}

\* Of the sources that are not the plugin one initial state stands for all.
RemoteInit ==
  /\ plugin \in Plugins
  /\ KieInit /\ CC!CCInit /\ Apollo!Init
  /\ plugin # KieSourceName => RefreshMode = ModeInterval
  /\ plugin # ConfigCenterSourceName => ccRefreshMode = ModeInterval
  /\ plugin # ApolloSourceName =>
       /\ ~started /\ ~ignoreNamespace
       /\ \A key \in Apollo!EventKey : Apollo!Answers(key) = {None}

\* A step of the plugin.
ByKie(A) ==
  plugin = KieSourceName /\ A /\ UNCHANGED <<ccVars, apolloVars, plugin>>

ByConfigCenter(A) ==
  plugin = ConfigCenterSourceName /\ A /\ UNCHANGED <<kieVars, apolloVars, plugin>>

ByApollo(A) ==
  plugin = ApolloSourceName /\ A /\ UNCHANGED <<kieVars, ccVars, plugin>>

RemoteNext ==
  \/ ByKie(KieNext)
  \/ ByConfigCenter(CC!CCNext)
  \/ ByApollo(Apollo!Next)

\* That of the plugin's own specification; apollo's promises need none.
RemoteFairness ==
  /\ WF_remoteVars(\/ ByKie(\E p \in Puller : Pull(p))
                   \/ ByConfigCenter(\E t \in Ticker : CC!PullConfigs(t)))
  /\ WF_remoteVars(ByKie(\E d \in Dimension : Watch(d)))
  /\ WF_remoteVars(\/ ByKie(\E g \in Goroutine : Fire(g))
                   \/ ByConfigCenter(\E g \in CC!Goroutine : CC!RefreshConfigurations(g)))
  /\ WF_remoteVars(ByKie(TakeEvent) \/ ByConfigCenter(CC!TakeEvent))

RemoteSpec == RemoteInit /\ [][RemoteNext]_remoteVars /\ RemoteFairness

-----------------------------------------------------------------------------
\* The variables hold values of their types.
RemoteTypeOK ==
  /\ plugin \in Plugins
  /\ KieTypeOK
  /\ plugin = ConfigCenterSourceName => CC!CCTypeOK
  /\ plugin = ApolloSourceName => Apollo!TypeOK

\* The promises of the config center source, as ConfigCenterSource states them:
\* in interval mode, one change at a time and told in full;
IntervalReplays == CC!IntervalReplays

\* in both modes, nothing false told but of what a message was about.
ToldUnlessHeard == plugin = ConfigCenterSourceName => CC!ToldUnlessHeard

\* Once the server stops changing, what it has is in use: in both modes of kie,
\* but for a dimension of which a change was passed over (hidden), and in
\* interval mode of the config center, whatever failed before.
CatchesUp == <>[](CaughtUp /\ (plugin = ConfigCenterSourceName => CC!Settled))

\* That of the apollo source: what is told is what readers are answered, but
\* for keys that changed before it watched or that two namespaces had.
ToldIsAnswered == plugin = ApolloSourceName => Apollo!ToldIsAnswered
=============================================================================
