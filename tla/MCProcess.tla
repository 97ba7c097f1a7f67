------------------------------- MODULE MCProcess -------------------------------
(* The life of the process and of what it keeps: starts, signals and stops, the     *)
(* database file with imports and crashes, the migrations.  They share no variable, so *)
(* whatever they do together is what each does by itself: `part` says which one moves. *)
EXTENDS AppLifecycle, Sequences

CONSTANTS MaxFiles, MaxIoFaults, MaxResets,                    \* of Database
          Tags, Like, Contents, Clients, Schemes, Hosts, None,
          MaxInbounds, MaxTls, MaxOutbounds, MaxRules, MaxServers \* of Migration

VARIABLES
  part,
  docker, files, main, temp, fallback, handle, at, ioFaults, resets, live, unmigrated, strayed, broken,
  lost,  \* up to here: Database; below: Migration
  version, inbounds, tls, clients, outbounds, endpoints, rules, final, servers, protocols, old

dataVars == <<docker, files, main, temp, fallback, handle, at, ioFaults, resets, live, unmigrated,
              strayed, broken, lost>>
oldVars == <<version, inbounds, tls, clients, outbounds, endpoints, rules, final, servers, protocols, old>>

Data == INSTANCE Database WITH MaxFaults <- MaxIoFaults, faults <- ioFaults

Old == INSTANCE Migration WITH Settings <- Contents

\* One of the tags matches another, as a pattern.
Underscore == {<<"in_1", "in-1">>} \union {<<t, t>> : t \in Tags}

ASSUME DataAssumption == Data!BoundAssumption
ASSUME OldAssumption == Old!LikeAssumption /\ Old!BoundAssumption /\ Old!NameAssumption

\* The parts that do not move.
AppAtRest == stored = (CHOOSE s \in Settings : Usable(s)) /\ Init
DataAtRest == ~docker /\ files = <<[format |-> "1.1", version |-> "none", rows |-> TRUE]>>
NoInstallation == /\ version = "1.1" /\ old = Old!Simple /\ clients = Old!Simple.clients
                  /\ inbounds = <<>> /\ tls = <<>> /\ outbounds = {} /\ endpoints = {}
                  /\ rules = <<>> /\ final = None /\ servers = <<>> /\ protocols = Old!Simple.protocols

MCInit ==
  \/ part = "app" /\ Init /\ Data!Init /\ DataAtRest /\ NoInstallation
  \/ part = "data" /\ AppAtRest /\ Data!Init /\ NoInstallation
  \/ part = "migration" /\ AppAtRest /\ Data!Init /\ DataAtRest /\ Old!Init

MCNext ==
  /\ UNCHANGED part
  /\ \/ part = "app" /\ Next /\ UNCHANGED <<dataVars, oldVars>>
     \/ part = "data" /\ Data!Next /\ UNCHANGED <<vars, oldVars>>
     \/ part = "migration" /\ Old!Next /\ UNCHANGED <<vars, dataVars>>

\* The part that moves is as fair as its module says.
MCSpec == /\ MCInit /\ [][MCNext]_<<part, vars, dataVars, oldVars>>
          /\ part = "app" => Fairness
          /\ part = "data" => Data!Fairness

\* The variables of AppLifecycle and Database have their types.
PartsTypeOK == TypeOK /\ Data!TypeOK

\* Database: the file with the panel's data is there, under its name or as the fallback, but
\* for the two ways of losing it that are named there; a panel at work has its own data open,
\* and a file that says it is up to date is in the newest format, with the exceptions there.
OnItsData == Data!Kept /\ Data!OnItsData /\ Data!Stamped
\* Database: the panel comes back from every point where it died.
ComesBack == part = "data" => Data!ComesBack

\* Migration: clients keep their inbounds, and inbounds their tags and TLS settings; those
\* that shared a TLS record still do.
InboundsKept == Old!InboundsKept /\ Old!TlsShared
\* Migration: connections go where they went, also those that no rule decides, and DNS
\* servers are asked as before, with the exceptions named there.
RoutesKept == Old!RoutesKept /\ Old!ServersReached
================================================================================
