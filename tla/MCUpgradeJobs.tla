--------------------------- MODULE MCUpgradeJobs ---------------------------
(***************************************************************************)
(* Instances of UpgradeJobs for TLC.  Every behaviour is of one            *)
(* application, with the handlers and the release check of AppRoutes:      *)
(* blueprints share no trackers and no locks.                              *)
(***************************************************************************)
EXTENDS UpgradeJobs, AppRoutes, TLC

VARIABLE chosen

MCKinds == {"upgrade", "install"} \cup UNION {DOMAIN AllRoutes[a] : a \in Apps}
MCRoutes == [a \in Apps |-> AllRoutes[a]]
MCChecks == [a \in Apps \cap DOMAIN AllChecks |-> AllChecks[a]]
MCDetects == [a \in Apps |-> AllDetects[a]]

\* faults and threads need one blueprint of each shape only
MCInit ==
    /\ Init
    /\ chosen \in Apps
    /\ setting # "gevent" => chosen \in {"mastodon", "peertube", "harmony"}

\* nobody touches the other applications
OthersRest ==
    /\ \A t \in Threads : task'[t].app \in {chosen, NoTask.app}
    /\ \A a \in Apps \ {chosen} :
          installed'[a] = installed[a] /\ lock'[a] = lock[a]

MCNext == Next /\ OthersRest /\ UNCHANGED chosen

MCVars == <<vars, chosen>>
MCSpec ==
    /\ MCInit /\ [][MCNext]_MCVars
    /\ \A t \in Threads :
          WF_MCVars(setting = "gevent" /\ ThreadStep(t) /\ UNCHANGED <<setting, chosen>>)

----------------------------------------------------------------------------
\* With gevent, whatever a background function raises, its lock is released
\* and its tracker stops running.
JobsSettle ==
    /\ setting = "gevent" /\ lock[chosen] ~> ~lock[chosen]
    /\ \A k \in Kinds :
          setting = "gevent" /\ k \in DOMAIN Routes[chosen] /\ job[chosen][k].running
              ~> k \in DOMAIN Routes[chosen] /\ ~job[chosen][k].running
=============================================================================
