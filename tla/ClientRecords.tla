---------------------------- MODULE ClientRecords ----------------------------
(***************************************************************************)
(* The rows of the clients table (model.Client) and everything that        *)
(* changes who is enabled: ClientService.Save behind the edit and bulk     *)
(* forms of the panel, ConfigService.BanClient, StatsService.SaveStats     *)
(* and the DepleteJob (ResetClients, then DepleteClients, in one           *)
(* transaction).                                                           *)
(*                                                                         *)
(* Each operation is one transaction, hence one step; what goes on in the  *)
(* running core is UserSync's matter.  A form is not one step: it shows a  *)
(* row as it was when it was opened and posts the whole row back, however  *)
(* many other operations have changed it meanwhile.                        *)
(*                                                                         *)
(* Up and down traffic are added up in "used" and "total" (the code never  *)
(* tests them apart).  Name, links, passwords and inbounds of a client are *)
(* left out.  Time is a clock that advances; a day lasts Day ticks.        *)
(***************************************************************************)
EXTENDS Naturals

CONSTANTS Clients,    \* primary keys
          Absent,     \* no row with this key
          NoForm,     \* no form is open
          Day,        \* 86400 seconds, in ticks
          MaxDays,    \* largest resetDays an administrator enters
          Volumes,    \* quotas an administrator enters; 0 is "unlimited"
          MaxTime,    \* bound: the clock stops here
          MaxTraffic  \* bound: traffic a client has altogether

ASSUME BoundAssumption == /\ Day \in Nat \ {0} /\ MaxDays \in Nat /\ MaxTime \in Nat
                          /\ MaxTraffic \in Nat /\ Volumes \subseteq Nat

VARIABLES now, rows, form

vars == <<now, rows, form>>

Rows == [enable : BOOLEAN, banned : BOOLEAN, used : Nat, total : Nat, volume : Nat,
         expiry : Nat, delayStart : BOOLEAN, autoReset : BOOLEAN, resetDays : Nat,
         nextReset : Nat]

Kinds == {"edit", "bulk"}
Forms == [client : Clients, kind : Kinds, row : Rows]

ASSUME KeyAssumption == Absent \notin Rows /\ NoForm \notin Forms

Present(c) == rows[c] # Absent

\* The condition of DepleteClients and BanClient.
OverLimit(r, dt) == \/ r.volume > 0 /\ r.used > r.volume
                    \/ r.expiry > 0 /\ r.expiry < dt

\* defaultClient of the front end.
DefaultClient == [enable |-> TRUE, banned |-> FALSE, used |-> 0, total |-> 0, volume |-> 0,
                  expiry |-> 0, delayStart |-> FALSE, autoReset |-> FALSE, resetDays |-> 0,
                  nextReset |-> 0]

Init == /\ now = 1
        /\ rows = [c \in Clients |-> Absent]
        /\ form = NoForm

Tick == /\ now < MaxTime /\ now' = now + 1
        /\ UNCHANGED <<rows, form>>

-----------------------------------------------------------------------------
(* The forms. *)

\* What the client dialog lets an administrator change, one field at a time.
Edited(r) ==
  {r} \union {[r EXCEPT !.enable = b] : b \in BOOLEAN}
      \union {[r EXCEPT !.total = @ + r.used, !.used = 0]}
      \union {[r EXCEPT !.volume = v] : v \in Volumes}
      \union {[r EXCEPT !.expiry = e] : e \in {0, now + Day}}
      \union {[r EXCEPT !.delayStart = b, !.resetDays = IF b THEN 1 ELSE 0] : b \in BOOLEAN}
      \union {[r EXCEPT !.autoReset = b, !.resetDays = IF b THEN 1 ELSE 0,
                        !.nextReset = IF b THEN @ ELSE 0] : b \in BOOLEAN}
      \union {[r EXCEPT !.resetDays = d,
                        !.nextReset = IF @ > 0 /\ @ + d * Day >= r.resetDays * Day
                                      THEN @ + d * Day - r.resetDays * Day ELSE @] :
                d \in 1..MaxDays}

\* Bound: the dates and quotas a form can post.
Bounded(r) == /\ r.expiry <= MaxTime + Day /\ r.nextReset <= MaxTime + Day
              /\ r.volume \in Volumes

\* The dialog's own rule when it is saved.
Posted(r) == IF r.delayStart /\ ~r.autoReset THEN [r EXCEPT !.expiry = 0] ELSE r

\* The columns the client list carries (ClientService.GetAll); the others arrive as zero.
Listed(r) == [r EXCEPT !.banned = FALSE, !.total = 0, !.delayStart = FALSE,
                       !.autoReset = FALSE, !.resetDays = 0, !.nextReset = 0]

\* ClientEditBulk "change limits": days and volume are added to the limits there are, and
\* with the "enable" switch on the client is enabled by the form's own test of them.
Extended(r, days, volume) ==
  [r EXCEPT !.expiry = IF @ > 0 THEN @ + days * Day ELSE @,
            !.volume = IF @ > 0 THEN @ + volume ELSE @]

BulkEnabled(r) == [r EXCEPT !.enable = /\ r.volume = 0 \/ r.used < r.volume
                                       /\ r.expiry = 0 \/ r.expiry > now]

BulkEdited(r) == UNION {{e, BulkEnabled(e)} :
                          e \in {Extended(r, days, volume) : days \in 0..1, volume \in Volumes}}

\* The dialog loads the full row, the bulk form works on the list.
OpenForm(c, kind) ==
  /\ Present(c) /\ form = NoForm
  /\ form' = [client |-> c, kind |-> kind,
              row |-> IF kind = "edit" THEN rows[c] ELSE Listed(rows[c])]
  /\ UNCHANGED <<now, rows>>

CloseForm == /\ form # NoForm /\ form' = NoForm
             /\ UNCHANGED <<now, rows>>

\* Save "new" (and "addbulk", one row at a time).
New(c) ==
  /\ ~Present(c)
  /\ \E r \in Edited(DefaultClient) : rows' = [rows EXCEPT ![c] = Posted(r)]
  /\ UNCHANGED <<now, form>>

\* Save "edit": the whole posted row is written, if there still is one to replace.
SubmitEdit ==
  /\ form # NoForm /\ form.kind = "edit"
  /\ IF Present(form.client)
     THEN \E r \in Edited(form.row) :
            Bounded(r) /\ rows' = [rows EXCEPT ![form.client] = Posted(r)]
     ELSE UNCHANGED rows
  /\ form' = NoForm
  /\ UNCHANGED now

\* Save "editbulk": an upsert of the listed columns and zeros for the others.
SubmitBulk ==
  /\ form # NoForm /\ form.kind = "bulk"
  /\ IF Present(form.client)
     THEN \E r \in BulkEdited(form.row) :
            Bounded(r) /\ rows' = [rows EXCEPT ![form.client] = r]
     ELSE UNCHANGED rows
  /\ form' = NoForm
  /\ UNCHANGED now

\* Save "del" and "delbulk".
Delete(c) ==
  /\ Present(c)
  /\ rows' = [rows EXCEPT ![c] = Absent]
  /\ UNCHANGED <<now, form>>

-----------------------------------------------------------------------------
(* BanClient, SaveStats and the DepleteJob. *)

\* Mutant: lifting a ban enables the client whatever its limits say.
BanClientBlind(c, banned) ==
  /\ Present(c)
  /\ rows' = [rows EXCEPT ![c].banned = banned, ![c].enable = ~banned]
  /\ UNCHANGED <<now, form>>

BanClient(c, banned) ==
  /\ Present(c)
  /\ rows' = [rows EXCEPT ![c].banned = banned,
                          ![c].enable = ~banned /\ ~OverLimit(rows[c], now)]
  /\ UNCHANGED <<now, form>>

\* The counters collected since the last run are added to the row.
SaveStats(c, traffic) ==
  /\ Present(c) /\ rows[c].used + rows[c].total + traffic <= MaxTraffic
  /\ rows' = [rows EXCEPT ![c].used = @ + traffic]
  /\ UNCHANGED <<now, form>>

\* ResetClients.  The three queries run before anything is saved, so a row is in one
\* of the three groups at most.
DelayedStart(r) == r.enable /\ r.delayStart /\ r.used > 0
PeriodOver(r, dt) == ~r.delayStart /\ r.autoReset /\ r.nextReset < dt

\* Mutants: the traffic of the period is dropped; the next reset is not moved on.
ResetDropsUsage(r, dt) ==
  IF PeriodOver(r, dt)
  THEN [r EXCEPT !.nextReset = dt + r.resetDays * Day, !.used = 0, !.enable = @ \/ ~r.banned]
  ELSE r
ResetKeepsDate(r, dt) ==
  IF PeriodOver(r, dt)
  THEN [r EXCEPT !.total = @ + r.used, !.used = 0, !.enable = @ \/ ~r.banned]
  ELSE r

Reset(r, dt) ==
  IF DelayedStart(r) /\ ~r.autoReset
  THEN [r EXCEPT !.expiry = dt + r.resetDays * Day, !.delayStart = FALSE]
  ELSE IF DelayedStart(r)
  THEN [r EXCEPT !.nextReset = dt + r.resetDays * Day, !.delayStart = FALSE]
  ELSE IF PeriodOver(r, dt)
  THEN [r EXCEPT !.nextReset = dt + r.resetDays * Day, !.total = @ + r.used, !.used = 0,
                 !.enable = @ \/ ~r.banned]
  ELSE r

Deplete(r, dt) == [r EXCEPT !.enable = @ /\ ~OverLimit(r, dt)]

\* The whole job on one row.
Job(r, dt) == Deplete(Reset(r, dt), dt)

\* Mutant: what a reset enables is not reported.
ReportedDepleted(r, dt) == Reset(r, dt).enable /\ OverLimit(Reset(r, dt), dt)

\* The clients whose inbounds the job hands to ApplyUserChanges.
Reported(r, dt) == \/ PeriodOver(r, dt) /\ ~r.enable /\ ~r.banned
                   \/ Reset(r, dt).enable /\ OverLimit(Reset(r, dt), dt)

DepleteJob ==
  /\ rows' = [c \in Clients |-> IF Present(c) THEN Job(rows[c], now) ELSE Absent]
  /\ UNCHANGED <<now, form>>

-----------------------------------------------------------------------------
Next == \/ Tick \/ DepleteJob \/ CloseForm \/ SubmitEdit \/ SubmitBulk
        \/ \E c \in Clients :
             \/ New(c) \/ Delete(c)
             \/ \E kind \in Kinds : OpenForm(c, kind)
             \/ \E banned \in BOOLEAN : BanClient(c, banned)
             \/ \E traffic \in 1..MaxTraffic : SaveStats(c, traffic)

Spec == Init /\ [][Next]_vars

-----------------------------------------------------------------------------
(* Properties. *)

\* Every row is a full row, and a form holds a full row of the client it was opened for.
TypeOK == /\ now \in Nat
          /\ rows \in [Clients -> Rows \union {Absent}]
          /\ form \in Forms \union {NoForm}

\* Neither the DepleteJob nor the lifting of a ban ever gives access to a client that is
\* banned or over its limits ("unbanning never grants access a depleted client shouldn't
\* have", "don't resurrect an explicitly banned client").
Granted(c) == /\ Present(c) /\ rows'[c] # Absent
              /\ ~rows[c].enable /\ rows'[c].enable
ByTheSystem == DepleteJob \/ \E c \in Clients, b \in BOOLEAN : BanClient(c, b)
GrantsWithinLimits ==
  [][ByTheSystem => \A c \in Clients :
       Granted(c) => ~rows'[c].banned /\ ~OverLimit(rows'[c], now)]_vars

\* The job moves traffic from the period to the total and loses none of it: what a
\* client has used in its life is not changed by resets, bans or depletion.
UsageConserved ==
  [][ByTheSystem => \A c \in Clients :
       Present(c) => rows'[c].used + rows'[c].total = rows[c].used + rows[c].total]_vars

\* Whoever the job disables or enables is among those whose inbounds it hands to
\* ApplyUserChanges: otherwise the running core would keep the old user set.
ReportsEveryChange ==
  [][DepleteJob => \A c \in Clients :
       Present(c) /\ rows'[c].enable # rows[c].enable => Reported(rows[c], now)]_vars

\* One run settles the table: a second run at the same time would find nobody over a
\* limit, nobody to reset, and would have no inbound to restart.
JobSettles ==
  [][DepleteJob => \A c \in Clients :
       Present(c) => /\ Job(rows'[c], now) = rows'[c]
                     /\ ~Reported(rows'[c], now)]_vars
=============================================================================
