------------------------ MODULE ClientRecords_proofs ------------------------
(***************************************************************************)
(* What the DepleteJob does to one row, for every row, every date and      *)
(* every length of a day; and from it the action properties of             *)
(* ClientRecords for every set of clients and every bound.                 *)
(***************************************************************************)
EXTENDS ClientRecords, TLAPS

-----------------------------------------------------------------------------
(* One row. *)

\* A full row stays one when a column is written.
LEMMA WithNat ==
  ASSUME NEW r \in Rows, NEW n \in Nat
  PROVE  /\ [r EXCEPT !.used = n] \in Rows
         /\ [r EXCEPT !.total = n] \in Rows
         /\ [r EXCEPT !.volume = n] \in Rows
         /\ [r EXCEPT !.expiry = n] \in Rows
         /\ [r EXCEPT !.resetDays = n] \in Rows
         /\ [r EXCEPT !.nextReset = n] \in Rows
BY SMT DEF Rows

\* A changed Boolean field leaves the record of its type.
LEMMA WithBool ==
  ASSUME NEW r \in Rows, NEW b \in BOOLEAN
  PROVE  /\ [r EXCEPT !.enable = b] \in Rows
         /\ [r EXCEPT !.banned = b] \in Rows
         /\ [r EXCEPT !.delayStart = b] \in Rows
         /\ [r EXCEPT !.autoReset = b] \in Rows
BY SMT DEF Rows

\* Days are whole and not negative.
LEMMA DaysType ==
  ASSUME NEW n \in Nat
  PROVE  n * Day \in Nat
BY BoundAssumption, SMT

\* A reset yields a full row.
LEMMA ResetType ==
  ASSUME NEW r \in Rows, NEW dt \in Nat
  PROVE  Reset(r, dt) \in Rows
<1>1. PICK d \in Nat : d = dt + r.resetDays * Day
  BY BoundAssumption, SMT DEF Rows
<1>2. [r EXCEPT !.expiry = d, !.delayStart = FALSE] \in Rows
  <2>1. [r EXCEPT !.expiry = d] \in Rows
    BY SMT DEF Rows
  <2>2. [[r EXCEPT !.expiry = d] EXCEPT !.delayStart = FALSE] \in Rows
    BY <2>1, FALSE \in BOOLEAN, WithBool
  <2> QED BY <2>2
<1>3. [r EXCEPT !.nextReset = d, !.delayStart = FALSE] \in Rows
  <2>1. [r EXCEPT !.nextReset = d] \in Rows
    BY SMT DEF Rows
  <2>2. [[r EXCEPT !.nextReset = d] EXCEPT !.delayStart = FALSE] \in Rows
    BY <2>1, FALSE \in BOOLEAN, WithBool
  <2> QED BY <2>2
<1>4. ASSUME NEW b \in BOOLEAN
      PROVE  [r EXCEPT !.nextReset = d, !.total = r.total + r.used, !.used = 0, !.enable = b] \in Rows
  <2> DEFINE p == [r EXCEPT !.nextReset = d]
             q == [p EXCEPT !.total = r.total + r.used]
             u == [q EXCEPT !.used = 0]
  <2>1. p \in Rows /\ r.total + r.used \in Nat
    BY SMT DEF Rows
  <2>2. q \in Rows
    <3> HIDE DEF p
    <3> QED BY <2>1, WithNat
  <2>3. u \in Rows
    <3> HIDE DEF q
    <3> QED BY <2>2, SMT DEF Rows
  <2>4. [u EXCEPT !.enable = b] \in Rows
    <3> HIDE DEF u
    <3> QED BY <2>3, WithBool
  <2> QED BY <2>4
<1>5. (r.enable \/ ~r.banned) \in BOOLEAN
  OBVIOUS
<1> QED BY <1>1, <1>2, <1>3, <1>4, <1>5 DEF Reset

\* So does the whole job.
LEMMA JobType ==
  ASSUME NEW r \in Rows, NEW dt \in Nat
  PROVE  Job(r, dt) \in Rows
<1>1. Reset(r, dt) \in Rows
  BY ResetType
<1>2. ASSUME NEW q \in Rows PROVE Deplete(q, dt) \in Rows
  BY WithBool, (q.enable /\ ~OverLimit(q, dt)) \in BOOLEAN DEF Deplete
<1> QED BY <1>1, <1>2 DEF Job

\* The job does not touch the ban, the quota or the number of days.
LEMMA JobKeeps ==
  ASSUME NEW r \in Rows, NEW dt \in Nat
  PROVE  /\ Job(r, dt).banned = r.banned
         /\ Job(r, dt).used + Job(r, dt).total = r.used + r.total
<1> DEFINE q == Reset(r, dt)
<1>1. q \in Rows
  BY ResetType
<1>2. q.banned = r.banned /\ q.used + q.total = r.used + r.total
  <2>1. CASE DelayedStart(r)
    BY <2>1, SMT DEF Reset, Rows
  <2>2. CASE ~DelayedStart(r)
    BY <2>2, SMT DEF Reset, Rows
  <2> QED BY <2>1, <2>2
<1>3. Job(r, dt).banned = q.banned /\ Job(r, dt).used = q.used /\ Job(r, dt).total = q.total
  <2> HIDE DEF q
  <2>1. Job(r, dt) = [q EXCEPT !.enable = q.enable /\ ~OverLimit(q, dt)]
    BY DEF Job, Deplete, q
  <2> QED BY <1>1, <2>1, SMT DEF Rows
<1> QED BY <1>2, <1>3

\* Nobody over a limit is enabled once the job has run.
LEMMA JobWithinLimits ==
  ASSUME NEW r \in Rows, NEW dt \in Nat, Job(r, dt).enable
  PROVE  ~OverLimit(Job(r, dt), dt)
<1>1. Reset(r, dt) \in Rows
  BY ResetType
<1>2. ASSUME NEW q \in Rows, Deplete(q, dt).enable PROVE ~OverLimit(Deplete(q, dt), dt)
  <2> DEFINE p == Deplete(q, dt)
  <2>1. p.enable = (q.enable /\ ~OverLimit(q, dt))
    BY SMT DEF Deplete, Rows
  <2>2. p.volume = q.volume /\ p.used = q.used /\ p.expiry = q.expiry
    <3> DEFINE b == q.enable /\ ~OverLimit(q, dt)
    <3>1. p = [q EXCEPT !.enable = b]
      BY DEF Deplete
    <3> HIDE DEF b
    <3> QED BY <3>1, SMT DEF Rows
  <2> QED BY <1>2, <2>1, <2>2 DEF OverLimit
<1> QED BY <1>1, <1>2 DEF Job

\* Only a reset enables, and never a banned client.
LEMMA JobGrants ==
  ASSUME NEW r \in Rows, NEW dt \in Nat, ~r.enable, Job(r, dt).enable
  PROVE  ~r.banned /\ PeriodOver(r, dt)
BY SMT DEF Job, Deplete, Reset, Rows, DelayedStart, PeriodOver, OverLimit

\* A change of enable is reported.
LEMMA JobReports ==
  ASSUME NEW r \in Rows, NEW dt \in Nat, Job(r, dt).enable # r.enable
  PROVE  Reported(r, dt)
<1>1. Reset(r, dt) \in Rows
  BY ResetType
<1>2. Job(r, dt).enable \in BOOLEAN /\ r.enable \in BOOLEAN
  BY JobType DEF Rows
<1>3. CASE Job(r, dt).enable
  BY <1>2, <1>3, JobGrants DEF Reported
<1>4. CASE r.enable /\ ~Job(r, dt).enable
  <2>1. Reset(r, dt).enable
    BY <1>4, SMT DEF Reset, Rows, DelayedStart, PeriodOver
  <2>2. Job(r, dt).enable = (Reset(r, dt).enable /\ ~OverLimit(Reset(r, dt), dt))
    BY <1>1, SMT DEF Job, Deplete, Rows
  <2> QED BY <1>4, <2>1, <2>2 DEF Reported
<1> QED BY <1>2, <1>3, <1>4

\* After a reset no group of ResetClients has the row any more.
LEMMA ResetDone ==
  ASSUME NEW r \in Rows, NEW dt \in Nat
  PROVE  LET q == Job(r, dt)
         IN  /\ ~DelayedStart(q)
             /\ ~PeriodOver(q, dt)
<1>1. PICK d \in Nat : d = dt + r.resetDays * Day
  BY BoundAssumption, SMT DEF Rows
<1>2. r.resetDays \in Nat /\ r.resetDays * Day \in Nat /\ d >= dt
  BY <1>1, BoundAssumption, SMT DEF Rows
<1> QED BY <1>1, <1>2, SMT DEF Job, Deplete, Reset, Rows, DelayedStart, PeriodOver

\* A second run at the same date changes nothing and reports nothing.
LEMMA JobIdempotent ==
  ASSUME NEW r \in Rows, NEW dt \in Nat
  PROVE  /\ Job(Job(r, dt), dt) = Job(r, dt)
         /\ ~Reported(Job(r, dt), dt)
<1> DEFINE q == Job(r, dt)
<1>1. q \in Rows
  BY JobType
<1>2. Reset(q, dt) = q
  BY ResetDone DEF Reset
<1>3. ~(q.enable /\ OverLimit(q, dt))
  BY JobWithinLimits
<1>4. Deplete(q, dt) = q
  <2> HIDE DEF q
  <2>1. [q EXCEPT !.enable = q.enable] = q
    BY <1>1, SMT DEF Rows
  <2>2. q.enable = (q.enable /\ ~OverLimit(q, dt))
    BY <1>1, <1>3, SMT DEF Rows
  <2> QED BY <2>1, <2>2 DEF Deplete
<1>5. ~Reported(q, dt)
  BY <1>2, <1>3, ResetDone DEF Reported
<1> QED BY <1>2, <1>4, <1>5 DEF Job

-----------------------------------------------------------------------------
(* Every row, in every step. *)

\* What an administrator can post is a full row.
LEMMA EditedType ==
  ASSUME NEW r \in Rows, now \in Nat, NEW q \in Edited(r)
  PROVE  q \in Rows /\ Posted(q) \in Rows
<1>1. q \in Rows
  <2>1. CASE q = r
    BY <2>1
  <2>2. CASE \E b \in BOOLEAN : q = [r EXCEPT !.enable = b]
    BY <2>2, WithBool
  <2>3. CASE q = [r EXCEPT !.total = r.total + r.used, !.used = 0]
    <3>1. r.total + r.used \in Nat
      BY SMT DEF Rows
    <3>2. [[r EXCEPT !.total = r.total + r.used] EXCEPT !.used = 0] \in Rows
      BY <3>1, WithNat, 0 \in Nat
    <3> QED BY <2>3, <3>2
  <2>4. CASE \E v \in Volumes : q = [r EXCEPT !.volume = v]
    BY <2>4, WithNat, BoundAssumption
  <2>5. CASE \E e \in {0, now + Day} : q = [r EXCEPT !.expiry = e]
    <3>1. now + Day \in Nat /\ 0 \in Nat
      BY BoundAssumption, SMT
    <3> QED BY <2>5, <3>1, WithNat
  <2>6. CASE \E b \in BOOLEAN : q = [r EXCEPT !.delayStart = b, !.resetDays = IF b THEN 1 ELSE 0]
    <3>1. PICK b \in BOOLEAN : q = [r EXCEPT !.delayStart = b, !.resetDays = IF b THEN 1 ELSE 0]
      BY <2>6
    <3>2. (IF b THEN 1 ELSE 0) \in Nat
      BY SMT
    <3>3. [[r EXCEPT !.delayStart = b] EXCEPT !.resetDays = IF b THEN 1 ELSE 0] \in Rows
      BY <3>2, WithBool, WithNat
    <3> QED BY <3>1, <3>3
  <2>7. CASE \E b \in BOOLEAN : q = [r EXCEPT !.autoReset = b, !.resetDays = IF b THEN 1 ELSE 0,
                                              !.nextReset = IF b THEN r.nextReset ELSE 0]
    <3>1. PICK b \in BOOLEAN : q = [r EXCEPT !.autoReset = b, !.resetDays = IF b THEN 1 ELSE 0,
                                              !.nextReset = IF b THEN r.nextReset ELSE 0]
      BY <2>7
    <3> DEFINE n == IF b THEN r.nextReset ELSE 0
               k == IF b THEN 1 ELSE 0
    <3>2. n \in Nat /\ k \in Nat
      BY SMT DEF Rows
    <3>3. q = [[[r EXCEPT !.autoReset = b] EXCEPT !.resetDays = k] EXCEPT !.nextReset = n]
      BY <3>1
    <3> HIDE DEF n, k
    <3>4. [[r EXCEPT !.autoReset = b] EXCEPT !.resetDays = k] \in Rows
      BY <3>2, WithBool, WithNat
    <3> QED BY <3>2, <3>3, <3>4, WithNat
  <2>8. CASE \E d \in 1..MaxDays :
               q = [r EXCEPT !.resetDays = d,
                             !.nextReset = IF r.nextReset > 0 /\ r.nextReset + d * Day >= r.resetDays * Day
                                           THEN r.nextReset + d * Day - r.resetDays * Day
                                           ELSE r.nextReset]
    <3>1. PICK d \in 1..MaxDays :
               q = [r EXCEPT !.resetDays = d,
                             !.nextReset = IF r.nextReset > 0 /\ r.nextReset + d * Day >= r.resetDays * Day
                                           THEN r.nextReset + d * Day - r.resetDays * Day
                                           ELSE r.nextReset]
      BY <2>8
    <3> DEFINE n == IF r.nextReset > 0 /\ r.nextReset + d * Day >= r.resetDays * Day
                    THEN r.nextReset + d * Day - r.resetDays * Day
                    ELSE r.nextReset
    <3>2. d \in Nat /\ r.resetDays \in Nat /\ r.nextReset \in Nat
      BY BoundAssumption, SMT DEF Rows
    <3>3. n \in Nat
      <4>1. d * Day \in Nat /\ r.resetDays * Day \in Nat
        BY <3>2, DaysType
      <4>2. ASSUME NEW x \in Nat, NEW y \in Nat, NEW z \in Nat
            PROVE  (IF z > 0 /\ z + x >= y THEN z + x - y ELSE z) \in Nat
        BY SMT
      <4> QED BY <3>2, <4>1, <4>2
    <3>4. q = [[r EXCEPT !.resetDays = d] EXCEPT !.nextReset = n]
      BY <3>1
    <3> HIDE DEF n
    <3> QED BY <3>2, <3>3, <3>4, WithNat
  <2> QED BY <2>1, <2>2, <2>3, <2>4, <2>5, <2>6, <2>7, <2>8 DEF Edited
<1>2. Posted(q) \in Rows
  BY <1>1, WithNat, 0 \in Nat DEF Posted
<1> QED BY <1>1, <1>2

\* What the bulk edits make of the rows has its type.
LEMMA BulkType ==
  ASSUME NEW r \in Rows, NEW q \in BulkEdited(r)
  PROVE  q \in Rows
<1>1. ASSUME NEW days \in 0..1, NEW volume \in Volumes
      PROVE  Extended(r, days, volume) \in Rows
  <2> DEFINE e == IF r.expiry > 0 THEN r.expiry + days * Day ELSE r.expiry
             v == IF r.volume > 0 THEN r.volume + volume ELSE r.volume
  <2>1. e \in Nat
    <3>1. days \in Nat /\ r.expiry \in Nat
      BY SMT DEF Rows
    <3> QED BY <3>1, DaysType, SMT
  <2>2. v \in Nat
    BY BoundAssumption, SMT DEF Rows
  <2>3. [[r EXCEPT !.expiry = e] EXCEPT !.volume = v] \in Rows
    <3> HIDE DEF e, v
    <3> QED BY <2>1, <2>2, WithNat
  <2> QED BY <2>3, Zenon DEF Extended
<1>2. ASSUME NEW p \in Rows
      PROVE  BulkEnabled(p) \in Rows
  <2> DEFINE b == /\ p.volume = 0 \/ p.used < p.volume
                  /\ p.expiry = 0 \/ p.expiry > now
  <2>1. b \in BOOLEAN /\ BulkEnabled(p) = [p EXCEPT !.enable = b]
    BY DEF BulkEnabled
  <2> HIDE DEF b
  <2> QED BY <2>1, WithBool
<1> QED BY <1>1, <1>2 DEF BulkEdited

\* The list's rows have all columns, some of them zero.
LEMMA ListedType ==
  ASSUME NEW r \in Rows
  PROVE  Listed(r) \in Rows
<1> DEFINE p == [[[r EXCEPT !.banned = FALSE] EXCEPT !.total = 0] EXCEPT !.delayStart = FALSE]
           q == [[[p EXCEPT !.autoReset = FALSE] EXCEPT !.resetDays = 0] EXCEPT !.nextReset = 0]
<1>1. FALSE \in BOOLEAN /\ 0 \in Nat
  OBVIOUS
<1>2. p \in Rows
  <2>1. [r EXCEPT !.banned = FALSE] \in Rows
    BY <1>1, WithBool
  <2>2. [[r EXCEPT !.banned = FALSE] EXCEPT !.total = 0] \in Rows
    BY <1>1, <2>1, WithNat
  <2> QED BY <1>1, <2>2, WithBool
<1>3. q \in Rows
  <2> HIDE DEF p
  <2>1. [p EXCEPT !.autoReset = FALSE] \in Rows
    BY <1>1, <1>2, WithBool
  <2>2. [[p EXCEPT !.autoReset = FALSE] EXCEPT !.resetDays = 0] \in Rows
    BY <1>1, <2>1, WithNat
  <2> QED BY <1>1, <2>2, WithNat
<1>4. Listed(r) = q
  BY DEF Listed
<1> QED BY <1>3, <1>4

\* Writing one row of the table.
LEMMA WriteRow ==
  ASSUME TypeOK, NEW c \in Clients, NEW r \in Rows \union {Absent}
  PROVE  [rows EXCEPT ![c] = r] \in [Clients -> Rows \union {Absent}]
BY DEF TypeOK

\* A row that is present is a full row.
LEMMA PresentRow ==
  ASSUME TypeOK, NEW c \in Clients, Present(c)
  PROVE  rows[c] \in Rows
BY DEF TypeOK, Present

\* A form that is open holds a full row of a client.
LEMMA OpenedForm ==
  ASSUME TypeOK, form # NoForm
  PROVE  form.client \in Clients /\ form.row \in Rows
BY SMT DEF TypeOK, Forms

-----------------------------------------------------------------------------
(* Types. *)

\* Every step keeps the types.
LEMMA TypeOKStep ==
  ASSUME TypeOK, [Next]_vars
  PROVE  TypeOK'
<1> USE DEF TypeOK
<1>1. CASE Tick
  BY <1>1, SMT DEF Tick
<1>2. CASE DepleteJob
  <2>1. ASSUME NEW c \in Clients
        PROVE  (IF Present(c) THEN Job(rows[c], now) ELSE Absent) \in Rows \union {Absent}
    BY PresentRow, JobType
  <2> QED BY <1>2, <2>1 DEF DepleteJob
<1>3. CASE CloseForm
  BY <1>3 DEF CloseForm
<1>4. CASE SubmitEdit
  <2>1. CASE Present(form.client)
    <3>1. PICK r \in Edited(form.row) : rows' = [rows EXCEPT ![form.client] = Posted(r)]
      BY <1>4, <2>1 DEF SubmitEdit
    <3>2. Posted(r) \in Rows
      BY <1>4, OpenedForm, EditedType DEF SubmitEdit
    <3> QED BY <1>4, <3>1, <3>2, OpenedForm, WriteRow DEF SubmitEdit
  <2>2. CASE ~Present(form.client)
    BY <1>4, <2>2 DEF SubmitEdit
  <2> QED BY <2>1, <2>2
<1>5. CASE SubmitBulk
  <2>1. CASE Present(form.client)
    <3>1. PICK r \in BulkEdited(form.row) : rows' = [rows EXCEPT ![form.client] = r]
      BY <1>5, <2>1 DEF SubmitBulk
    <3>2. r \in Rows
      BY <1>5, OpenedForm, BulkType DEF SubmitBulk
    <3> QED BY <1>5, <3>1, <3>2, OpenedForm, WriteRow DEF SubmitBulk
  <2>2. CASE ~Present(form.client)
    BY <1>5, <2>2 DEF SubmitBulk
  <2> QED BY <2>1, <2>2
<1>6. ASSUME NEW c \in Clients, New(c)
      PROVE  TypeOK'
  <2>1. PICK r \in Edited(DefaultClient) : rows' = [rows EXCEPT ![c] = Posted(r)]
    BY <1>6 DEF New
  <2>2. DefaultClient \in Rows
    BY FALSE \in BOOLEAN, TRUE \in BOOLEAN, 0 \in Nat DEF DefaultClient, Rows
  <2>3. Posted(r) \in Rows
    BY <2>2, EditedType
  <2> QED BY <1>6, <2>1, <2>3, WriteRow DEF New
<1>7. ASSUME NEW c \in Clients, Delete(c)
      PROVE  TypeOK'
  BY <1>7, WriteRow DEF Delete
<1>8. ASSUME NEW c \in Clients, NEW kind \in Kinds, OpenForm(c, kind)
      PROVE  TypeOK'
  <2>1. (IF kind = "edit" THEN rows[c] ELSE Listed(rows[c])) \in Rows
    BY <1>8, PresentRow, ListedType DEF OpenForm
  <2>2. form' \in Forms
    BY <1>8, <2>1 DEF OpenForm, Forms
  <2> QED BY <1>8, <2>2 DEF OpenForm
<1>9. ASSUME NEW c \in Clients, NEW banned \in BOOLEAN, BanClient(c, banned)
      PROVE  TypeOK'
  <2> DEFINE b == ~banned /\ ~OverLimit(rows[c], now)
             r == [[rows[c] EXCEPT !.banned = banned] EXCEPT !.enable = b]
  <2>1. rows[c] \in Rows
    BY <1>9, PresentRow DEF BanClient
  <2>2. r \in Rows
    BY <2>1, WithBool, b \in BOOLEAN
  <2>3. rows' = [rows EXCEPT ![c] = r]
    BY <1>9 DEF BanClient
  <2> QED BY <1>9, <2>2, <2>3, WriteRow DEF BanClient
<1>10. ASSUME NEW c \in Clients, NEW traffic \in 1..MaxTraffic, SaveStats(c, traffic)
       PROVE  TypeOK'
  <2>1. rows[c] \in Rows
    BY <1>10, PresentRow DEF SaveStats
  <2>2. rows[c].used + traffic \in Nat
    BY <2>1, BoundAssumption, SMT DEF Rows
  <2>3. rows' = [rows EXCEPT ![c] = [rows[c] EXCEPT !.used = rows[c].used + traffic]]
    BY <1>10 DEF SaveStats
  <2>4. [rows[c] EXCEPT !.used = rows[c].used + traffic] \in Rows
    BY <2>1, <2>2, WithNat
  <2> QED BY <1>10, <2>3, <2>4, WriteRow DEF SaveStats
<1>11. CASE UNCHANGED vars
  BY <1>11 DEF vars
<1> QED BY <1>1, <1>2, <1>3, <1>4, <1>5, <1>6, <1>7, <1>8, <1>9, <1>10, <1>11 DEF Next

\* TypeOK for every set of clients, every quota, length of a day and bound: whatever the
\* forms post, the job computes or the statistics add is a full row of the table.
THEOREM TypeCorrect == Spec => []TypeOK
<1>1. Init => TypeOK
  BY SMT DEF Init, TypeOK
<1>2. TypeOK /\ [Next]_vars => TypeOK'
  BY TypeOKStep
<1> QED BY <1>1, <1>2, PTL DEF Spec

-----------------------------------------------------------------------------
(* The action properties. *)

\* The job is Job on every row.
LEMMA JobOfRow ==
  ASSUME TypeOK, DepleteJob, NEW c \in Clients, Present(c)
  PROVE  rows[c] \in Rows /\ now \in Nat /\ rows'[c] = Job(rows[c], now)
BY PresentRow DEF DepleteJob, TypeOK

\* What a ban, or the lifting of one, does to each row.
LEMMA BanOfRow ==
  ASSUME TypeOK, NEW d \in Clients, NEW b \in BOOLEAN, BanClient(d, b),
         NEW c \in Clients, Present(c)
  PROVE  /\ rows'[c].used = rows[c].used /\ rows'[c].total = rows[c].total
         /\ rows'[c].enable /\ ~rows[c].enable =>
              ~rows'[c].banned /\ ~OverLimit(rows'[c], now)
<1>1. CASE c # d
  BY <1>1 DEF BanClient, TypeOK
<1>2. CASE c = d
  <2> DEFINE e == ~b /\ ~OverLimit(rows[c], now)
  <2>1. rows[c] \in Rows
    BY PresentRow
  <2>2. rows'[c] = [[rows[c] EXCEPT !.banned = b] EXCEPT !.enable = e]
    BY <1>2 DEF BanClient, TypeOK
  <2>3. e \in BOOLEAN
    OBVIOUS
  <2> HIDE DEF e
  <2>4. /\ rows'[c].used = rows[c].used /\ rows'[c].total = rows[c].total
        /\ rows'[c].volume = rows[c].volume /\ rows'[c].expiry = rows[c].expiry
    BY <2>1, <2>2, SMT DEF Rows
  <2>5. rows'[c].enable = e /\ rows'[c].banned = b
    BY <2>1, <2>2, <2>3, SMT DEF Rows
  <2> QED BY <2>4, <2>5 DEF e, OverLimit
<1> QED BY <1>1, <1>2

\* Neither the job nor the lifting of a ban gives access beyond ban and limits.
THEOREM GrantsAreWithinLimits == Spec => GrantsWithinLimits
<1>1. ASSUME TypeOK, ByTheSystem, NEW c \in Clients, Granted(c)
      PROVE  ~rows'[c].banned /\ ~OverLimit(rows'[c], now)
  <2>1. CASE DepleteJob
    BY <1>1, <2>1, JobOfRow, JobGrants, JobKeeps, JobWithinLimits DEF Granted
  <2>2. ASSUME NEW d \in Clients, NEW b \in BOOLEAN, BanClient(d, b)
        PROVE  ~rows'[c].banned /\ ~OverLimit(rows'[c], now)
    BY <1>1, <2>2, BanOfRow DEF Granted
  <2> QED BY <1>1, <2>1, <2>2 DEF ByTheSystem
<1>2. TypeOK => [ByTheSystem => \A c \in Clients :
                   Granted(c) => ~rows'[c].banned /\ ~OverLimit(rows'[c], now)]_vars
  BY <1>1
<1> QED BY <1>2, TypeCorrect, PTL DEF GrantsWithinLimits

\* No reset, ban or depletion loses traffic that was counted.
THEOREM UsageIsConserved == Spec => UsageConserved
<1>1. ASSUME TypeOK, ByTheSystem, NEW c \in Clients, Present(c)
      PROVE  rows'[c].used + rows'[c].total = rows[c].used + rows[c].total
  <2>1. CASE DepleteJob
    BY <1>1, <2>1, JobOfRow, JobKeeps
  <2>2. ASSUME NEW d \in Clients, NEW b \in BOOLEAN, BanClient(d, b)
        PROVE  rows'[c].used + rows'[c].total = rows[c].used + rows[c].total
    BY <1>1, <2>2, BanOfRow
  <2> QED BY <1>1, <2>1, <2>2 DEF ByTheSystem
<1>2. TypeOK => [ByTheSystem => \A c \in Clients :
                   Present(c) => rows'[c].used + rows'[c].total = rows[c].used + rows[c].total]_vars
  BY <1>1
<1> QED BY <1>2, TypeCorrect, PTL DEF UsageConserved

\* Every change of the job reaches ApplyUserChanges.
THEOREM ChangesAreReported == Spec => ReportsEveryChange
<1>1. ASSUME TypeOK, DepleteJob, NEW c \in Clients, Present(c), rows'[c].enable # rows[c].enable
      PROVE  Reported(rows[c], now)
  BY <1>1, JobOfRow, JobReports
<1>2. TypeOK => [DepleteJob => \A c \in Clients :
                   Present(c) /\ rows'[c].enable # rows[c].enable => Reported(rows[c], now)]_vars
  BY <1>1
<1> QED BY <1>2, TypeCorrect, PTL DEF ReportsEveryChange

\* One run of the job is enough.
THEOREM OneRunSettles == Spec => JobSettles
<1>1. ASSUME TypeOK, DepleteJob, NEW c \in Clients, Present(c)
      PROVE  Job(rows'[c], now) = rows'[c] /\ ~Reported(rows'[c], now)
  BY <1>1, JobOfRow, JobIdempotent
<1>2. TypeOK => [DepleteJob => \A c \in Clients :
                   Present(c) => /\ Job(rows'[c], now) = rows'[c]
                                 /\ ~Reported(rows'[c], now)]_vars
  BY <1>1
<1> QED BY <1>2, TypeCorrect, PTL DEF JobSettles

=============================================================================
