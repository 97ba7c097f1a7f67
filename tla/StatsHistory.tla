----------------------------- MODULE StatsHistory -----------------------------
(***************************************************************************)
(* The stats table over time: rows the stats job adds for one tag, rows    *)
(* that are deleted when they are too old (DelStatsJob), and the chart of  *)
(* the last hours (StatsService.GetStats, downsampleStats).                *)
(*                                                                         *)
(* Time is in ticks; a chart has Buckets points (360 in the code).         *)
(***************************************************************************)
EXTENDS Integers, FiniteSetsExt

CONSTANTS Buckets,    \* numBuckets
          Hour, Day,  \* in ticks
          Age,        \* trafficAge, in days
          Limits,     \* hours a panel asks for
          Batches,    \* names of batches, used again when their rows are gone; a bound of the table
          MaxTraffic, \* bound: of a row
          MaxTime     \* bound: the clock stops here

BoundAssumption == /\ Buckets \in Nat \ {0} /\ Hour \in Nat \ {0} /\ Day \in Nat \ {0}
                   /\ Age \in Nat \ {0} /\ Limits \subseteq Nat
                   /\ MaxTraffic \in Nat /\ MaxTime \in Nat

VARIABLES now,
          rows  \* of the table, by batch and direction

vars == <<now, rows>>

Init == now = 0 /\ rows = <<>>

Tick == now < MaxTime /\ now' = now + 1 /\ UNCHANGED rows

\* A batch has a row in each direction (TRUE is up); one of them may be zero.
SaveStats(batch, up, down) ==
  /\ \A d \in BOOLEAN : <<batch, d>> \notin DOMAIN rows
  /\ up + down > 0
  /\ rows' = [i \in DOMAIN rows \union ({batch} \X BOOLEAN) |->
                IF i \in DOMAIN rows THEN rows[i]
                ELSE [time |-> now, traffic |-> IF i[2] THEN up ELSE down]]
  /\ UNCHANGED now

Since(time) == [i \in {j \in DOMAIN rows : rows[j].time >= time} |-> rows[i]]
\* Mutant: hours are taken for days.
DelOldHours == rows' = Since(now - Age * Hour) /\ UNCHANGED now
DelOldStats == rows' = Since(now - Age * Day) /\ UNCHANGED now

Next == \/ Tick \/ DelOldStats
        \/ \E batch \in Batches, up, down \in 0..MaxTraffic : SaveStats(batch, up, down)

Spec == Init /\ [][Next]_vars

-----------------------------------------------------------------------------
(* The chart. *)

Start(limit) == now - limit * Hour
Span(limit) == IF (limit * Hour) \div Buckets = 0 THEN 1 ELSE (limit * Hour) \div Buckets

\* The rows that are asked for.
Selected(limit) == {i \in DOMAIN rows : rows[i].time > Start(limit)}

\* The last bucket takes what is left over.
Bucket(limit, i) ==
  LET bucket == (rows[i].time - Start(limit)) \div Span(limit)
  IN IF bucket < 0 THEN 0 ELSE IF bucket >= Buckets THEN Buckets - 1 ELSE bucket

Traffic(S) == MapThenSumSet(LAMBDA i : rows[i].traffic, S)

\* downsampleStats: up and down of each bucket that has a row.
Chart(limit) ==
  [b \in {Bucket(limit, i) : i \in Selected(limit)} |->
     [d \in BOOLEAN |-> Traffic({i \in Selected(limit) : Bucket(limit, i) = b /\ i[2] = d})]]

-----------------------------------------------------------------------------
(* Properties. *)

\* The ticks of a chart, those of one of its points, the traffic of some ticks and of all points.
Ticks(limit) == (Start(limit) + 1)..now
TicksOf(limit, b) == (Start(limit) + b * Span(limit))..(Start(limit) + (b + 1) * Span(limit) - 1)
During(ticks, d) == Traffic({i \in DOMAIN rows : rows[i].time \in ticks /\ i[2] = d})
AllPoints(limit, d) == MapThenSumSet(LAMBDA b : Chart(limit)[b][d], DOMAIN Chart(limit))

\* However the hours divide into buckets, a chart has at most numBuckets points, all the
\* traffic of its hours is in it, and a point before the last has the traffic of its own span.
ChartIsComplete ==
  \A limit \in Limits, d \in BOOLEAN :
    /\ DOMAIN Chart(limit) \subseteq 0..(Buckets - 1)
    /\ AllPoints(limit, d) = During(Ticks(limit), d)
    /\ \A b \in DOMAIN Chart(limit) \ {Buckets - 1} :
         Chart(limit)[b][d] = During(Ticks(limit) \intersect TicksOf(limit, b), d)

\* Deleting old rows changes no chart of the days that are kept.
RetentionKeepsCharts ==
  [][now' = now /\ DOMAIN rows' \subseteq DOMAIN rows =>
       \A limit \in Limits : limit * Hour <= Age * Day => Chart(limit)' = Chart(limit)]_vars
===============================================================================
