------------------------------ MODULE MCConfigSave ------------------------------
(* What changes of the tables bring about in memory: a core with the new document      *)
(* (ConfigSave), tokens that are cached (TokenCache).  They share no variable, so      *)
(* whatever they do together is what each does by itself: `part` says which one moves. *)
EXTENDS ConfigSave

CONSTANTS Stored,                                                   \* of ConfigSave: a document
          Tokens, Lasting, Searchers, Admins, MaxLoads, MaxRequests,  \* of TokenCache
          Few, Second                                               \* bounds, see MCNext

VARIABLES
  part,
  table, expired, arrays, slices, tokens, req, admin, fetched, loaded, mixed, harmed, passed, stale,
  requests

tokenVars == <<table, expired, arrays, slices, tokens, req, admin, fetched, loaded, mixed, harmed,
               passed, stale, requests>>

Cache == INSTANCE TokenCache WITH Requests <- Searchers, read <- fetched
ASSUME TokenAssumption == Cache!BoundAssumption /\ Cache!LastingAssumption

\* Parts that do not move start in one state.
MCInit == /\ part \in {"config", "searches", "loads"}
          /\ part # "config" => stored = Stored
          /\ Init
          /\ Cache!Init
          /\ part = "config" => table = <<>>
          /\ part = "loads" => Cache!ToSet(table) \subseteq Few

MCNext ==
  /\ UNCHANGED part
  /\ \/ part = "config" /\ Next /\ UNCHANGED tokenVars
     \/ part = "searches" /\ Cache!Next /\ admin'[Second] = "idle" /\ UNCHANGED vars
     \/ part = "loads" /\ Cache!Next /\ Cache!ToSet(table') \subseteq Few /\ requests' <= 1
                         /\ UNCHANGED vars

MCSpec == /\ MCInit /\ [][MCNext]_<<part, vars, tokenVars>>
          /\ part = "config" => Fairness

\* The variables of every part have their types.
PartsTypeOK == TypeOK /\ Cache!TypeOK

\* TokenCache: a request that is refused for a good token is served when it is sent again.
RefusedOnce == Cache!RefusedOnce

\* TokenCache: at rest, the cache is what the table holds, and requests that clean it up lose
\* no token that is still good.
Current == Cache!Current /\ Cache!Kept
================================================================================
