--------------------------- MODULE MCClientRecords ---------------------------
(* ClientRecords on one client with one quota: every operation treats each row by   *)
(* itself (the job is a map over the rows), so a second row adds no behaviour.      *)
EXTENDS ClientRecords

CONSTANTS c1
==============================================================================
