------------------------------ MODULE MCTraffic ------------------------------
(* The traffic counters and the job that bills them (Traffic), and the charts drawn  *)
(* from what it stores (StatsHistory).  They share no variable, so whatever they do    *)
(* together is what each does by itself: `part` says which one moves.                  *)
EXTENDS Traffic, TLC

CONSTANTS Buckets, Hour, Day, Age, Limits, Batches, MaxTraffic, MaxTime \* of StatsHistory

VARIABLES part, now, rows

Charts == INSTANCE StatsHistory

ASSUME ChartsAssumption == Charts!BoundAssumption

\* The part that does not move starts in one state; users without a row only with statistics.
MCInit == /\ part \in {"traffic", "charts"} /\ Init /\ Charts!Init
          /\ clients = Users \/ (part = "traffic" /\ keep)
          /\ part = "charts" => keep

MCNext ==
  /\ UNCHANGED part
  /\ \/ part = "traffic" /\ Next /\ UNCHANGED <<now, rows>>
     \/ part = "charts" /\ Charts!Next /\ UNCHANGED vars

MCSpec == MCInit /\ [][MCNext]_<<part, vars, now, rows>>

\* Directions and jobs are only compared.
Symmetry == Permutations(Dirs) \union Permutations(Jobs)

\* StatsHistory: a chart has all the traffic of its hours, in the right places, and deleting
\* old rows changes no chart of the days that are kept.
ChartsComplete == []Charts!ChartIsComplete /\ Charts!RetentionKeepsCharts
==============================================================================
