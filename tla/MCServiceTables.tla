-------------------------- MODULE MCServiceTables ---------------------------
(* The two parts of the service that keep a table of their own: the        *)
(* asynchronous jobs with their monitors and the change log with its delta *)
(* clients.  A behaviour is about one of them; the other stays where it    *)
(* starts.                                                                 *)
EXTENDS AsyncJobs, DeltaFeed

VARIABLE part     \* "jobs" or "feed"
tablesVars == <<part, vars, feedVars>>

TablesInit == part \in {"jobs", "feed"} /\ Init /\ FeedInit
JobStep == part = "jobs" /\ Next /\ UNCHANGED <<part, feedVars>>
FeedStep == part = "feed" /\ FeedNext /\ UNCHANGED <<part, vars>>
TablesNext == JobStep \/ FeedStep

\* The jobs alone, and both parts with their fairness.  In the part that stays
\* where it starts no step is enabled that fairness asks for.
JobsInit == part = "jobs" /\ Init /\ FeedInit
JobsSpec == JobsInit /\ [][TablesNext]_tablesVars
FairTablesSpec == TablesInit /\ [][TablesNext]_tablesVars /\ Fairness /\ FeedFairness
=============================================================================
