---------------------------- MODULE MCInboundSave ----------------------------
(* Requests that overlap, and the running core: those for inbounds, TLS records and   *)
(* clients (InboundSave), and those for outbounds, services and endpoints (Editors).  *)
(* They share no variable, so whatever they do together is what each does by itself:  *)
(* `part` says which one moves.                                                       *)
EXTENDS InboundSave, TLC

CONSTANTS PartContents, Warp, Licenses, MaxAsked, MaxFailures, MaxStops  \* of Editors

VARIABLES
  part,
  rows, used, account, lock, req, running, on, booting, doubtful, adrift, asked, failures, stops

partVars == <<rows, used, account, lock, req, running, on, booting, doubtful, adrift, asked,
              failures, stops>>

Parts == INSTANCE Editors WITH
  Contents <- PartContents, MaxSaves <- MaxAsked, MaxFaults <- MaxFailures, MaxRestarts <- MaxStops,
  writer <- lock, core <- running, up <- on, boot <- booting, suspect <- doubtful,
  saves <- asked, faults <- failures, restarts <- stops

ASSUME PartsAssumption ==
  Parts!BoundAssumption /\ Parts!WarpAssumption /\ Parts!NoneAssumption

\* The part that does not move is empty.
NoInbound ==
  /\ db = R!Empty /\ writer = None
  /\ at = [r \in Requests |-> "idle"] /\ view = [r \in Requests |-> "none"]
  /\ pending = [r \in Requests |-> None] /\ todo = [r \in Requests |-> <<>>]
  /\ touched = [r \in Requests |-> {}] /\ core = [t \in Tags |-> None]
  /\ up = TRUE /\ boot = None /\ suspect = {} /\ saves = 0 /\ faults = 0 /\ restarts = 0
NoPart ==
  /\ rows = [i \in Ids |-> None] /\ used = {} /\ account = [i \in Ids |-> None]
  /\ lock = None /\ req = [r \in Requests |-> Parts!Idle] /\ running = [t \in Tags |-> None]
  /\ on = TRUE /\ booting = None /\ doubtful = {} /\ adrift = {}
  /\ asked = 0 /\ failures = 0 /\ stops = 0

MCInit == \/ part = "inbounds" /\ Init /\ NoPart
          \/ part = "editors" /\ NoInbound /\ Parts!Init

MCNext ==
  /\ UNCHANGED part
  /\ \/ part = "inbounds" /\ Next /\ UNCHANGED partVars
     \/ part = "editors" /\ Parts!Next /\ UNCHANGED vars

MCSpec == MCInit /\ [][MCNext]_<<part, vars, partVars>>

\* All of them are only compared.
Symmetry == Permutations(Ids) \union Permutations(Tags) \union Permutations(Versions)
            \union Permutations(Requests)

\* Editors: the variables have their types, and the core has the parts the table says, with
\* the exceptions named there.
PartsFollow == Parts!TypeOK /\ Parts!PartsFollow
\* Editors: a device has the license its row says, with the exceptions named there.
LicenseFollows == Parts!LicenseFollows
==============================================================================
