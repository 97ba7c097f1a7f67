----------------------------- MODULE Hy2Service -----------------------------
(***************************************************************************)
(* The forked Hysteria2 service of src/forks/patched-files/sing-quic       *)
(* (hysteria2/service.go): the user map, the registry of live sessions,    *)
(* and the two operations the panel uses to change who may be connected    *)
(* while the inbound keeps running.                                        *)
(*                                                                         *)
(* A panel goroutine runs core.UpdateInboundUsers: UpdateUsers (one swap   *)
(* of the map under userAccess), then RetainUsers (a scan of the registry  *)
(* under sessionAccess, then the victims are closed one by one with no     *)
(* lock held).  An HTTP/3 request handler runs ServeHTTP: test             *)
(* s.authenticated, read the map, write the auth fields.  Several requests *)
(* of one connection may be in ServeHTTP at once.  Every lock acquisition  *)
(* of the source is one step here, so all their interleavings are          *)
(* explored.                                                               *)
(*                                                                         *)
(* A password and a user name are opaque values.  The HTTP reply, the      *)
(* congestion control and the UDP message loop do not feed back into who   *)
(* is connected and are left out; QUIC itself is external: a connection    *)
(* can break at any time.                                                  *)
(***************************************************************************)
EXTENDS Naturals

CONSTANTS Passwords,  \* authentication strings of the inbound's users
          Names,      \* user names the traffic is accounted under
          Sessions,   \* QUIC connections (a value is reused after its session is collected)
          Requests,   \* HTTP/3 handler goroutines that may run at once
          Panel,      \* panel goroutines that may be in UpdateInboundUsers at once
          NoUser,     \* "not in the map", and the authUser of a fresh session
          NoPassword  \* the authPassword of a session that is not authenticated

NoUserAssumption == NoUser \notin Names
NoPasswordAssumption == NoPassword \notin Passwords

VARIABLES
  userMap,  \* Service.userMap: who authenticates with each password
  conn,     \* "none", "open", or "closed" (QUIC connection gone, still in Service.sessions)
  auth,     \* serverSession.authenticated/authPassword/authUser
  late,     \* history: the map had already dropped the password when auth was written
  request,  \* the program counter and locals of each ServeHTTP
  panel     \* the program counter and locals of each UpdateInboundUsers

vars == <<userMap, conn, auth, late, request, panel>>

UserMaps == [Passwords -> Names \union {NoUser}]
Known(map) == {p \in Passwords : map[p] # NoUser}

NoAuth == [password |-> NoPassword, user |-> NoUser]
IdleRequest == [at |-> "idle"]
IdlePanel == [at |-> "idle", users |-> [p \in Passwords |-> NoUser],
              toScan |-> {}, victims |-> {}]

Authenticated(s) == auth[s].password # NoPassword
Registered == {s \in Sessions : conn[s] # "none"}

\* RetainUsers holds sessionAccess for the whole scan; addSession and removeSession
\* hold it for one step.
SessionAccessFree == \A c \in Panel : panel[c].at # "scan"

\* Something still points at the session object.
Referenced(s) == \/ \E r \in Requests : request[r].at # "idle" /\ request[r].session = s
                 \/ \E c \in Panel : s \in panel[c].toScan \union panel[c].victims

Init == /\ userMap \in UserMaps     \* NewInbound's UpdateUsers(options.Users)
        /\ conn = [s \in Sessions |-> "none"]
        /\ auth = [s \in Sessions |-> NoAuth]
        /\ late = [s \in Sessions |-> FALSE]
        /\ request = [r \in Requests |-> IdleRequest]
        /\ panel = [c \in Panel |-> IdlePanel]

-----------------------------------------------------------------------------
(* Connections. *)

\* handleConnection: a fresh session is registered before any request is served.
Connect(s) ==
  /\ conn[s] = "none" /\ ~Referenced(s)
  /\ SessionAccessFree
  /\ conn' = [conn EXCEPT ![s] = "open"]
  /\ auth' = [auth EXCEPT ![s] = NoAuth]
  /\ late' = [late EXCEPT ![s] = FALSE]
  /\ UNCHANGED <<userMap, request, panel>>

\* The peer leaves, the idle timeout fires, or s.ctx is cancelled.
Disconnect(s) ==
  /\ conn[s] = "open"
  /\ conn' = [conn EXCEPT ![s] = "closed"]
  /\ UNCHANGED <<userMap, auth, late, request, panel>>

\* ServeQUICConn returned: the deferred removeSession of handleConnection.
RemoveSession(s) ==
  /\ conn[s] = "closed"
  /\ SessionAccessFree
  /\ conn' = [conn EXCEPT ![s] = "none"]
  /\ UNCHANGED <<userMap, auth, late, request, panel>>

-----------------------------------------------------------------------------
(* ServeHTTP. *)

\* An auth request arrives; one on an authenticated session only gets its reply.
ServeAuth(r, s, p) ==
  /\ request[r].at = "idle"
  /\ conn[s] = "open" /\ ~Authenticated(s)
  /\ request' = [request EXCEPT ![r] = [at |-> "lookup", session |-> s, password |-> p]]
  /\ UNCHANGED <<userMap, conn, auth, late, panel>>

\* The map is read under userAccess.RLock; an unknown password is masqueraded.
LookupUser(r) ==
  /\ request[r].at = "lookup"
  /\ LET user == userMap[request[r].password] IN
       request' = [request EXCEPT ![r] =
                     IF user = NoUser THEN IdleRequest
                     ELSE [at |-> "accept", session |-> @.session,
                           password |-> @.password, user |-> user]]
  /\ UNCHANGED <<userMap, conn, auth, late, panel>>

\* The auth fields are written under authAccess; nothing is read again.
Accept(r) ==
  /\ request[r].at = "accept"
  /\ LET s == request[r].session
         p == request[r].password
     IN /\ auth' = [auth EXCEPT ![s] = [password |-> p, user |-> request[r].user]]
        /\ late' = [late EXCEPT ![s] = userMap[p] = NoUser]
  /\ request' = [request EXCEPT ![r] = IdleRequest]
  /\ UNCHANGED <<userMap, conn, panel>>

-----------------------------------------------------------------------------
(* UpdateInboundUsers: UpdateUsers, then RetainUsers. *)

\* UpdateUsers: the whole map is replaced under userAccess.Lock.
UpdateUsers(c, users) ==
  /\ panel[c].at = "idle"
  /\ userMap' = users
  /\ panel' = [panel EXCEPT ![c] = [IdlePanel EXCEPT !.at = "retain", !.users = users]]
  /\ UNCHANGED <<conn, auth, late, request>>

\* Mutant: a call that finds another one scanning leaves the eviction to it.
BeginScanTryLock(c) ==
  /\ panel[c].at = "retain"
  /\ panel' = IF SessionAccessFree
              THEN [panel EXCEPT ![c].at = "scan", ![c].toScan = Registered]
              ELSE [panel EXCEPT ![c] = IdlePanel]
  /\ UNCHANGED <<userMap, conn, auth, late, request>>

\* RetainUsers takes sessionAccess and ranges over the sessions registered now.
BeginScan(c) ==
  /\ panel[c].at = "retain"
  /\ SessionAccessFree
  /\ panel' = [panel EXCEPT ![c].at = "scan", ![c].toScan = Registered]
  /\ UNCHANGED <<userMap, conn, auth, late, request>>

\* One iteration: the auth fields are read under the session's authAccess.
ScanSession(c, s) ==
  /\ panel[c].at = "scan" /\ s \in panel[c].toScan
  /\ LET evict == Authenticated(s) /\ auth[s].password \notin Known(panel[c].users) IN
       panel' = [panel EXCEPT ![c].toScan = @ \ {s},
                              ![c].victims = IF evict THEN @ \union {s} ELSE @]
  /\ UNCHANGED <<userMap, conn, auth, late, request>>

\* sessionAccess is released before any victim is closed.
EndScan(c) ==
  /\ panel[c].at = "scan" /\ panel[c].toScan = {}
  /\ panel' = [panel EXCEPT ![c].at = "close"]
  /\ UNCHANGED <<userMap, conn, auth, late, request>>

\* Mutant: the session is marked done but its QUIC connection is not closed.
CloseVictimNoClose(c, s) ==
  /\ panel[c].at = "close" /\ s \in panel[c].victims
  /\ panel' = [panel EXCEPT ![c].victims = @ \ {s}]
  /\ UNCHANGED <<userMap, conn, auth, late, request>>

\* closeWithError: the QUIC connection is closed unless it already is.
CloseVictim(c, s) ==
  /\ panel[c].at = "close" /\ s \in panel[c].victims
  /\ conn' = [conn EXCEPT ![s] = IF @ = "open" THEN "closed" ELSE @]
  /\ panel' = [panel EXCEPT ![c].victims = @ \ {s}]
  /\ UNCHANGED <<userMap, auth, late, request>>

EndRetain(c) ==
  /\ panel[c].at = "close" /\ panel[c].victims = {}
  /\ panel' = [panel EXCEPT ![c] = IdlePanel]
  /\ UNCHANGED <<userMap, conn, auth, late, request>>

-----------------------------------------------------------------------------
Connection(s) == Connect(s) \/ Disconnect(s) \/ RemoveSession(s)
Handler(r) == \/ \E s \in Sessions, p \in Passwords : ServeAuth(r, s, p)
              \/ LookupUser(r)
              \/ Accept(r)
Retain(c) == \/ BeginScan(c)
             \/ \E s \in Sessions : ScanSession(c, s)
             \/ EndScan(c)
             \/ \E s \in Sessions : CloseVictim(c, s)
             \/ EndRetain(c)

Next == \/ \E s \in Sessions : Connection(s)
        \/ \E r \in Requests : Handler(r)
        \/ \E c \in Panel : \/ \E users \in UserMaps : UpdateUsers(c, users)
                            \/ Retain(c)

Spec == Init /\ [][Next]_vars

\* Goroutines keep running, and a sync.Mutex hands itself to its longest waiter
\* (starvation mode), so a waiter that is free to take it again and again gets it.
\* Nothing is assumed of peers, of new requests or of new panel calls.
Fairness ==
  /\ \A r \in Requests : WF_vars(LookupUser(r)) /\ WF_vars(Accept(r))
  /\ \A s \in Sessions : SF_vars(RemoveSession(s))
  /\ \A c \in Panel : /\ SF_vars(BeginScan(c))
                      /\ WF_vars(EndScan(c))
                      /\ WF_vars(EndRetain(c))
                      /\ \A s \in Sessions : WF_vars(ScanSession(c, s)) /\ WF_vars(CloseVictim(c, s))

FairSpec == Spec /\ Fairness

-----------------------------------------------------------------------------
(* Properties. *)

RequestStates == [at : {"idle"}]
                   \union [at : {"lookup"}, session : Sessions, password : Passwords]
                   \union [at : {"accept"}, session : Sessions, password : Passwords,
                           user : Names]
PanelStates == [at : {"idle", "retain", "scan", "close"}, users : UserMaps,
                toScan : SUBSET Sessions, victims : SUBSET Sessions]

\* Every variable of the service keeps its type (NewService, serverSession).
TypeOK == /\ userMap \in UserMaps
          /\ conn \in [Sessions -> {"none", "open", "closed"}]
          /\ auth \in [Sessions -> [password : Passwords \union {NoPassword},
                                    user : Names \union {NoUser}]]
          /\ late \in [Sessions -> BOOLEAN]
          /\ request \in [Requests -> RequestStates]
          /\ panel \in [Panel -> PanelStates]

\* A session that is connected with a password the map no longer holds, and whose
\* handshake did not straddle the swap.
Removed(s) == /\ conn[s] = "open" /\ Authenticated(s) /\ ~late[s]
              /\ auth[s].password \notin Known(userMap)

\* Panel goroutine c is going to close s: it has the scan of s ahead of it with a
\* set without the password of s, or it has already chosen s as a victim.
WillEvict(c, s) ==
  \/ s \in panel[c].victims
  \/ /\ auth[s].password \notin Known(panel[c].users)
     /\ \/ panel[c].at = "retain"
        \/ panel[c].at = "scan" /\ s \in panel[c].toScan

\* Whatever the order in which several UpdateInboundUsers calls swap, scan and close, a
\* removed user's session always has a panel goroutine on its way to close it: no call's
\* scan can pass over a session another call's swap has just removed.
EvictionPending == \A s \in Sessions : Removed(s) => \E c \in Panel : WillEvict(c, s)

\* The promise of UpdateInboundUsers (endpoint.go): once every call has returned, the
\* only removed users still connected are those whose handshake straddled the swap.  The
\* comment of RetainUsers ("evicted immediately") makes no such exception.
EvictedUnlessLate ==
  (\A c \in Panel : panel[c].at = "idle") => \A s \in Sessions : ~Removed(s)

\* A removed user's session is not merely doomed: it ends (or the user is put back).
RemovedUserLeaves == \A s \in Sessions : Removed(s) ~> ~Removed(s)
=============================================================================
