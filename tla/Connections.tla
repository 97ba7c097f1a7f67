------------------------------ MODULE Connections ------------------------------
(***************************************************************************)
(* Connections of the running core and their tracker (ConnTracker), while  *)
(* inbounds restart (RestartInbounds: remove, close what is tracked, add), *)
(* are edited or deleted (nothing is closed) and the core stops (Box.Close *)
(* takes the inbounds away first and resets the tracker last).             *)
(*                                                                         *)
(* An inbound that is removed accepts nothing more; what it has accepted   *)
(* lives on in goroutines of its own until its connection is closed.  Every*)
(* box has a tracker of its own.                                           *)
(***************************************************************************)
EXTENDS Naturals

CONSTANTS Conns, Tags,
          Restarters,  \* callers of RestartInbounds that may overlap
          MaxAdds,     \* bound: inbounds that are added
          MaxStops,    \* bound: stops of the core
          MaxFaults    \* bound: restarts that fail

BoundAssumption == MaxAdds \in Nat /\ MaxStops \in Nat /\ MaxFaults \in Nat

VARIABLES
  inbound, \* of each tag: which inbound serves it, 0 for none
  adds,    \* inbounds so far
  first,   \* the first inbound of the present box
  box,     \* "up", "closing" (its inbounds are gone) or "down"
  stops,
  conn,    \* of each connection: phase, tag, inbound
  tracked, \* ConnTracker.connections, of the tracker of its box
  work,    \* of a restarter: "idle", "removed" or "closed", and the tag
  faults,
  outlives \* history: connections that may outlive their inbound

vars == <<inbound, adds, first, box, stops, conn, tracked, work, faults, outlives>>

Free == [phase |-> "none", tag |-> CHOOSE t \in Tags : TRUE, of |-> 0]
Idle == [step |-> "idle", tag |-> CHOOSE t \in Tags : TRUE]

Open(c) == conn[c].phase \in {"accepted", "routed"}
Of(t) == {c \in Conns : Open(c) /\ conn[c].tag = t}

Init ==
  /\ inbound = [t \in Tags |-> 1] /\ adds = 1 /\ first = 1
  /\ box = "up" /\ stops = 0
  /\ conn = [c \in Conns |-> Free] /\ tracked = {}
  /\ work = [r \in Restarters |-> Idle] /\ faults = 0 /\ outlives = {}

-----------------------------------------------------------------------------
(* Connections. *)

Becomes(c, phase) == conn' = [conn EXCEPT ![c].phase = phase]
Apart == <<inbound, adds, first, box, stops, work, faults>>

Accept(c, t) ==
  /\ conn[c].phase = "none" /\ inbound[t] # 0
  /\ conn' = [conn EXCEPT ![c] = [phase |-> "accepted", tag |-> t, of |-> inbound[t]]]
  /\ UNCHANGED <<Apart, tracked, outlives>>

\* The router refuses it, before the trackers see it.
Drop(c) == conn[c].phase = "accepted" /\ Becomes(c, "over") /\ UNCHANGED <<Apart, tracked, outlives>>

\* RoutedConnection.
Track(c) ==
  /\ conn[c].phase = "accepted" /\ Becomes(c, "routed")
  /\ tracked' = tracked \union {c}
  /\ UNCHANGED <<Apart, outlives>>

\* One direction is at its end (EOF), and the other goes on: it is no longer tracked.
HalfEnd(c) ==
  /\ conn[c].phase = "routed" /\ c \in tracked
  /\ tracked' = tracked \ {c} /\ outlives' = outlives \union {c}
  /\ UNCHANGED <<Apart, conn>>

\* A read or a write fails, at once when the connection under it has been closed.
Fail(c) ==
  /\ conn[c].phase \in {"routed", "cut"}
  /\ Becomes(c, "ending") /\ tracked' = tracked \ {c}
  /\ UNCHANGED <<Apart, outlives>>

\* Close, with the untracking that happens once.
Close(c) == conn[c].phase = "ending" /\ Becomes(c, "over") /\ UNCHANGED <<Apart, tracked, outlives>>

\* The tracker of the present box.  What a sweep leaves open is on its way to the tracker,
\* or has left it.
Sweep(all) == LET S == {c \in all : conn[c].of >= first} IN
  /\ conn' = [c \in Conns |-> IF c \in S \intersect tracked THEN [conn[c] EXCEPT !.phase = "cut"] ELSE conn[c]]
  /\ tracked' = tracked \ S
  /\ outlives' = outlives \union {c \in S : conn[c].phase = "accepted"}

-----------------------------------------------------------------------------
(* Inbounds. *)

Starts(t) == /\ adds' = adds + 1 /\ inbound' = [inbound EXCEPT ![t] = adds + 1]

\* InboundService.Save "edit" and "del": the connections stay.
Edit(t) ==
  /\ box = "up" /\ adds < MaxAdds /\ Starts(t)
  /\ outlives' = outlives \union Of(t)
  /\ UNCHANGED <<first, box, stops, conn, tracked, work, faults>>
Delete(t) ==
  /\ box = "up" /\ inbound[t] # 0
  /\ inbound' = [inbound EXCEPT ![t] = 0]
  /\ outlives' = outlives \union Of(t)
  /\ UNCHANGED <<adds, first, box, stops, conn, tracked, work, faults>>

At(r, step, t) == work' = [work EXCEPT ![r] = [step |-> step, tag |-> t]]

\* RestartInbounds, for one inbound; one that is not there is no error.
RemoveInbound(r, t) ==
  /\ work[r].step = "idle" /\ box = "up" /\ adds < MaxAdds
  /\ inbound' = [inbound EXCEPT ![t] = 0] /\ At(r, "removed", t)
  /\ UNCHANGED <<adds, first, box, stops, conn, tracked, faults, outlives>>
\* Mutant: the entries go, and the connections stay open.
DeleteOnly(r) ==
  /\ work[r].step = "removed" /\ box # "down"
  /\ tracked' = {c \in tracked : conn[c].tag # work[r].tag \/ conn[c].of < first}
  /\ outlives' = outlives \union {c \in Conns : conn[c].tag = work[r].tag /\ conn[c].phase = "accepted"}
  /\ At(r, "closed", work[r].tag)
  /\ UNCHANGED <<inbound, adds, first, box, stops, faults, conn>>
CloseConnByInbound(r) ==
  /\ work[r].step = "removed" /\ box # "down"
  /\ Sweep({c \in Conns : conn[c].tag = work[r].tag /\ Open(c)}) /\ At(r, "closed", work[r].tag)
  /\ UNCHANGED <<inbound, adds, first, box, stops, faults>>
\* An inbound that another restarter has added in between is replaced, not swept.
AddInbound(r) ==
  /\ work[r].step = "closed" /\ box = "up" /\ adds < MaxAdds
  /\ Starts(work[r].tag)
  /\ outlives' = outlives \union (IF inbound[work[r].tag] = 0 THEN {} ELSE Of(work[r].tag))
  /\ At(r, "idle", work[r].tag)
  /\ UNCHANGED <<first, box, stops, conn, tracked, faults>>

\* The listener cannot be closed or opened, or the core has stopped: the rest is left out.
Abort(r) ==
  /\ work[r].step # "idle"
  /\ IF box = "up" /\ adds < MaxAdds THEN faults < MaxFaults /\ faults' = faults + 1
                                     ELSE UNCHANGED faults
  /\ outlives' = outlives \union (IF work[r].step = "removed" THEN Of(work[r].tag) ELSE {})
  /\ At(r, "idle", work[r].tag)
  /\ UNCHANGED <<inbound, adds, first, box, stops, conn, tracked>>

\* Box.Close: the services in order, the trackers at the end.
CloseInbounds ==
  /\ box = "up" /\ stops < MaxStops /\ stops' = stops + 1
  /\ box' = "closing" /\ inbound' = [t \in Tags |-> 0]
  /\ UNCHANGED <<adds, first, conn, tracked, work, faults, outlives>>
Reset ==
  /\ box = "closing" /\ box' = "down" /\ Sweep({c \in Conns : Open(c)})
  /\ UNCHANGED <<inbound, adds, first, stops, work, faults>>
StartCore ==
  /\ box = "down" /\ adds < MaxAdds
  /\ box' = "up" /\ adds' = adds + 1 /\ first' = adds + 1 /\ inbound' = [t \in Tags |-> adds + 1]
  /\ UNCHANGED <<stops, conn, tracked, work, faults, outlives>>

Goes(c) == Drop(c) \/ Track(c) \/ Fail(c) \/ Close(c)

Next ==
  \/ \E c \in Conns : Goes(c) \/ HalfEnd(c) \/ \E t \in Tags : Accept(c, t)
  \/ \E t \in Tags : Edit(t) \/ Delete(t)
  \/ \E r \in Restarters : \/ CloseConnByInbound(r) \/ AddInbound(r) \/ Abort(r)
                           \/ \E t \in Tags : RemoveInbound(r, t)
  \/ CloseInbounds \/ Reset \/ StartCore

Spec == Init /\ [][Next]_vars

-----------------------------------------------------------------------------
(* Properties. *)

\* The variables have their types; a core that stops has no inbound, and one that runs has
\* only its own.
TypeOK ==
  /\ inbound \in [Tags -> 0..MaxAdds] /\ adds \in 1..MaxAdds
  /\ box \in {"up", "closing", "down"} /\ first \in 1..adds
  /\ \A t \in Tags : inbound[t] = 0 \/ (box = "up" /\ inbound[t] \in first..adds)
  /\ conn \in [Conns -> [phase : {"none", "accepted", "routed", "cut", "ending", "over"},
                         tag : Tags, of : 0..MaxAdds]]
  /\ tracked \subseteq Conns /\ outlives \subseteq Conns
  /\ work \in [Restarters -> [step : {"idle", "removed", "closed"}, tag : Tags]]

\* A connection that has been routed is served by the inbound of now: the one that accepted
\* it has not been replaced.  Except while its tag restarts, and except one that was not yet
\* tracked when the sweep came, or had left the tracker at the end of one direction; whose
\* inbound was edited or deleted; or was replaced by two restarts at once.
Swept ==
  \A c \in Conns :
    \/ conn[c].phase # "routed" \/ c \in outlives
    \/ inbound[conn[c].tag] = conn[c].of
    \/ box = "closing" \/ \E r \in Restarters : work[r] = [step |-> "removed", tag |-> conn[c].tag]

\* The tracker holds no connection that is over, and none that is open is missing from it
\* unless it may outlive its inbound.
Tracked ==
  \A c \in Conns : /\ c \in tracked => conn[c].phase = "routed"
                   /\ conn[c].phase = "routed" => c \in tracked \union outlives
================================================================================
