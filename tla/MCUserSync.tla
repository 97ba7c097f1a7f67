----------------------------- MODULE MCUserSync -----------------------------
(* A change of the clients on its way to the running core: which users each inbound is   *)
(* given (UserSync), and what a new user map does to the live sessions of a hysteria2    *)
(* inbound (Hy2Service).  They share no variable: each is checked while the other rests. *)
EXTENDS UserSync

CONSTANTS Passwords, Names, Sessions, Handlers, Panel, NoUser, NoPassword  \* of Hy2Service

VARIABLES userMap, conn, auth, late, request, panel

serviceVars == <<userMap, conn, auth, late, request, panel>>

Service == INSTANCE Hy2Service WITH Requests <- Handlers

ASSUME ServiceAssumption == Service!NoUserAssumption /\ Service!NoPasswordAssumption

\* UserSync moves.
SyncInit == Init /\ userMap = [p \in Passwords |-> NoUser] /\ Service!Init
SyncSpec == /\ SyncInit
            /\ [][Next /\ UNCHANGED serviceVars]_<<vars, serviceVars>>
            /\ Fairness

\* Hy2Service moves.
ServiceInit == Service!Init /\ db = [c \in Clients |-> [enable |-> TRUE, banned |-> FALSE]] /\ Init
ServiceSpec == /\ ServiceInit
               /\ [][Service!Next /\ UNCHANGED vars]_<<vars, serviceVars>>
               /\ Service!Fairness

\* Hy2Service: once every UpdateInboundUsers has returned, no removed user is connected, with
\* the exception named there.
EvictedUnlessLate == Service!EvictedUnlessLate
\* Hy2Service: the session of a removed user ends.
RemovedUserLeaves == Service!RemovedUserLeaves
=============================================================================
