--------------------------- MODULE MCCoreLifecycle ---------------------------
(* The core: who starts and stops it (CoreLifecycle), the parts of a box          *)
(* (BoxStages), the connections it tracks (Connections).  They share no variable, so *)
(* whatever they do together is what each does by itself: `part` says which one moves. *)
EXTENDS CoreLifecycle

CONSTANTS Conns, Tags, Restarters, MaxAdds, MaxStops, MaxFaults,  \* of Connections
          Stoppers, Asked, MaxBoxes                               \* of BoxStages

VARIABLES
  part,
  inbound, adds, first, power, stops, conn, tracked, work, faults, outlives,
  pc, place, built, own, stage, closes, done, found, present, reported, manager, stopper, panicked

\* Of Connections and of BoxStages.
connVars == <<inbound, adds, first, power, stops, conn, tracked, work, faults, outlives>>
stageVars == <<pc, place, built, own, stage, closes, done, found, present, reported, manager,
               stopper, panicked>>

Tracker == INSTANCE Connections WITH box <- power
Stages == INSTANCE BoxStages WITH
  at <- place, boxes <- built, instance <- present, isRunning <- reported

ASSUME TrackerAssumption == Tracker!BoundAssumption /\ MaxAdds # 0 /\ Tags # {}
ASSUME StagesAssumption == Stages!StagesAssumption

MCInit == /\ part \in {"lifecycle", "connections", "stages"}
          /\ Init /\ Tracker!Init /\ Stages!Init

MCNext ==
  /\ UNCHANGED part
  /\ \/ part = "lifecycle" /\ Next /\ UNCHANGED <<connVars, stageVars>>
     \/ part = "connections" /\ Tracker!Next /\ UNCHANGED <<vars, stageVars>>
     \/ part = "stages" /\ Stages!Next /\ UNCHANGED <<vars, connVars>>

MCSpec == /\ MCInit /\ [][MCNext]_<<part, vars, connVars, stageVars>>
          /\ part = "lifecycle" => Fairness

\* CoreLifecycle: the flag that keeps starters out is lowered again, and a core that is down
\* is tried again, whatever the stops and the panics.
CoreIsRetried == part = "lifecycle" => FlagIsLowered /\ DownIsRetried

\* The variables of every part have their types.
PartsTypeOK == TypeOK /\ Tracker!TypeOK /\ Stages!TypeOK

\* Connections: a routed connection is served by the inbound of now, with the exceptions
\* named there, and the tracker and the open connections agree.
Swept == Tracker!Swept /\ Tracker!Tracked

\* BoxStages: what takes traffic is up only while all it needs is; a box that nobody holds
\* has been closed to its last part, and no part twice.
ClosedAsOpened == Stages!Supported /\ Stages!NothingLeft /\ Stages!ClosedOnce
\* BoxStages: a core that reports itself running is whole, and its managers are its own.
RunningIsWhole == Stages!RunningIsWhole
=============================================================================
