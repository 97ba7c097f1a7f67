--------------------------- MODULE UserSync_proofs ---------------------------
(***************************************************************************)
(* TypeOK and InSyncWhenSerial for every set of clients, of inbounds and   *)
(* of request handlers, and every bound; and, for the hysteria2 inbounds,  *)
(* what UpdateInboundUsers does to live sessions (Hy2Service).             *)
(***************************************************************************)
EXTENDS MCUserSync, TLAPS

\* What an actor reads is a table.
LEMMA ViewType ==
  ASSUME TypeOK, NEW a \in Actors
  PROVE  View(a) \in Tables
BY DEF TypeOK, View

\* The users of an inbound are clients.
LEMMA UsersType ==
  ASSUME NEW table, NEW i
  PROVE  UsersOf(i, table) \in SUBSET Clients /\ InlineUsers(table) \in SUBSET Clients
BY DEF UsersOf, LiveUsers, InlineUsers

\* The variables an operation starts with keep their types.
LEMMA StartType ==
  ASSUME TypeOK, NEW a \in Actors, NEW inbounds \in SUBSET Inbounds, Start(a, inbounds)
  PROVE  /\ at' \in [Actors -> {"idle", "check", "apply", "install"}]
         /\ todo' \in [Actors -> SUBSET Inbounds]
         /\ target' \in [Actors -> Inbounds \union {None}]
         /\ users' \in [Actors -> SUBSET Clients]
         /\ core' \in {"down", "starting", "up"}
         /\ assembled' \in SUBSET Clients
         /\ live' \in [Inbounds -> SUBSET Clients]
         /\ disturbed' \in BOOLEAN
         /\ changes' \in 0..MaxChanges /\ faults' \in 0..MaxFaults /\ restarts' \in 0..MaxRestarts
<1>1. changes' \in 0..MaxChanges
  BY BoundAssumption, SMT DEF TypeOK, Start
<1>2. disturbed' \in BOOLEAN
  BY DEF TypeOK, Start
<1> QED BY <1>1, <1>2 DEF TypeOK, Start, coreVars

\* Every step keeps the types.
LEMMA TypeOKStep ==
  ASSUME TypeOK, [Next]_vars
  PROVE  TypeOK'
<1>1. ASSUME NEW a \in Actors, Check(a)
      PROVE  TypeOK'
  BY <1>1 DEF TypeOK, Check, coreVars
<1>2. ASSUME NEW a \in Actors, Install(a)
      PROVE  TypeOK'
  <2>1. live' \in [Inbounds -> SUBSET Clients]
    BY <1>2 DEF TypeOK, Install
  <2> QED BY <1>2, <2>1 DEF TypeOK, Install, coreVars
<1>3. ASSUME NEW a \in Actors, Fail(a)
      PROVE  TypeOK'
  <2>1. faults' \in 0..MaxFaults
    BY <1>3, BoundAssumption, SMT DEF TypeOK, Fail, Broken
  <2>2. writer' \in Requests \union {None} /\ pending' \in Tables
    BY <1>3 DEF TypeOK, Fail
  <2> QED BY <1>3, <2>1, <2>2 DEF TypeOK, Fail, coreVars
<1>4. ASSUME NEW a \in Actors, Finish(a)
      PROVE  TypeOK'
  BY <1>4 DEF TypeOK, Finish, coreVars
<1>5. ASSUME NEW a \in Actors, NEW i \in Inbounds, SkipDown(a, i)
      PROVE  TypeOK'
  BY <1>5 DEF TypeOK, SkipDown, coreVars
<1>6. ASSUME NEW a \in Actors, NEW i \in Inbounds, Read(a, i)
      PROVE  TypeOK'
  <2>1. users' \in [Actors -> SUBSET Clients]
    BY <1>6, UsersType DEF TypeOK, Read
  <2>2. live' \in [Inbounds -> SUBSET Clients]
    BY <1>6 DEF TypeOK, Read
  <2> QED BY <1>6, <2>1, <2>2 DEF TypeOK, Read, coreVars
<1>7. ASSUME NEW a \in Requests, NEW c \in Clients, NEW row \in Status,
             NEW identity \in BOOLEAN, Save(a, c, row, identity)
      PROVE  TypeOK'
  <2>1. Changed(db[c], row, identity) \in SUBSET Inbounds
    BY DEF Changed
  <2>2. a \in Actors
    BY DEF Actors
  <2>3. db' \in Tables /\ pending' \in Tables /\ writer' \in Requests \union {None}
    BY <1>7 DEF TypeOK, Save, Tables
  <2> QED BY <1>7, <2>1, <2>2, <2>3, StartType DEF TypeOK, Save
<1>8. ASSUME NEW a \in Requests, NEW c \in Clients, NEW banned \in BOOLEAN, NEW within \in BOOLEAN,
             Ban(a, c, banned, within)
      PROVE  TypeOK'
  <2>1. a \in Actors
    BY DEF Actors
  <2>2. [enable |-> ~banned /\ within, banned |-> banned] \in Status
    BY (~banned /\ within) \in BOOLEAN DEF Status
  <2>3. db' \in Tables /\ pending' \in Tables /\ writer' \in Requests \union {None}
    BY <1>8, <2>2 DEF TypeOK, Ban, Tables
  <2> QED BY <1>8, <2>1, <2>3, StartType DEF TypeOK, Ban
<1>9. ASSUME NEW depleted \in SUBSET Clients, NEW reset \in SUBSET Clients, Deplete(depleted, reset)
      PROVE  TypeOK'
  <2>1. Job \in Actors
    BY DEF Actors
  <2>2. ASSUME NEW c \in Clients
        PROVE  [db[c] EXCEPT !.enable = (db[c].enable \/ c \in reset) /\ c \notin depleted] \in Status
    <3>1. \A b \in BOOLEAN : [db[c] EXCEPT !.enable = b] \in Status
      BY SMT DEF TypeOK, Tables, Status
    <3> QED BY <3>1, ((db[c].enable \/ c \in reset) /\ c \notin depleted) \in BOOLEAN
  <2>3. db' \in Tables /\ pending' \in Tables /\ writer' \in Requests \union {None}
    BY <1>9, <2>2 DEF TypeOK, Deplete, Tables
  <2> QED BY <1>9, <2>1, <2>3, StartType DEF TypeOK, Deplete
<1>10. CASE StopCore
  <2>1. restarts' \in 0..MaxRestarts
    BY <1>10, BoundAssumption, SMT DEF TypeOK, StopCore
  <2>2. live' \in [Inbounds -> SUBSET Clients] /\ disturbed' \in BOOLEAN
    BY <1>10 DEF TypeOK, StopCore
  <2> QED BY <1>10, <2>1, <2>2 DEF TypeOK, StopCore
<1>11. CASE StartCore
  <2>1. assembled' \in SUBSET Clients /\ disturbed' \in BOOLEAN
    BY <1>11, UsersType DEF TypeOK, StartCore
  <2> QED BY <1>11, <2>1 DEF TypeOK, StartCore
<1>12. CASE CoreStarted
  <2>1. live' \in [Inbounds -> SUBSET Clients]
    BY <1>12 DEF TypeOK, CoreStarted
  <2> QED BY <1>12, <2>1 DEF TypeOK, CoreStarted
<1>13. CASE UNCHANGED vars
  BY <1>13 DEF TypeOK, vars, coreVars
<1> QED BY <1>1, <1>2, <1>3, <1>4, <1>5, <1>6, <1>7, <1>8, <1>9, <1>10, <1>11, <1>12, <1>13
        DEF Next, Apply, Request

\* TypeOK, with only a Save holding the write lock, for every value of the constants.
THEOREM TypeCorrect == Spec => []TypeOK
<1>1. Init => TypeOK
  <2> SUFFICES ASSUME Init PROVE TypeOK
    OBVIOUS
  <2>1. changes \in 0..MaxChanges /\ faults \in 0..MaxFaults /\ restarts \in 0..MaxRestarts
    BY BoundAssumption, SMT DEF Init
  <2>2. live \in [Inbounds -> SUBSET Clients]
    BY UsersType DEF Init
  <2> QED BY <2>1, <2>2 DEF Init, TypeOK
<1>2. TypeOK /\ [Next]_vars => TypeOK'
  BY TypeOKStep
<1> QED BY <1>1, <1>2, PTL DEF Spec

-----------------------------------------------------------------------------
(* Serial operations keep the core in step with the table. *)

\* Inbound i of the core against a table.
InSync(i, table) == IF i \in Hy2 THEN live[i] \subseteq InlineUsers(table)
                                 ELSE live[i] = InlineUsers(table)

\* The write lock is held by an operation under way; nothing is pending without it.
LockInv == /\ writer = None => pending = db
           /\ writer # None => at[writer] # "idle"

\* An actor has a target exactly when it is about to install.
TargetInv == \A a \in Actors : IF at[a] = "install" THEN target[a] \in Inbounds
                                                    ELSE target[a] = None

\* Undisturbed, at most one operation is under way, and none while the core starts.
Alone == /\ \A a, b \in Actors : at[a] # "idle" /\ at[b] # "idle" => a = b
         /\ core = "starting" => Idle /\ assembled = InlineUsers(db)

\* Undisturbed, a running core is in step with the table; or, while an operation is
\* under way, every inbound it is done with is in step with the table it will commit.
InStep == core = "up" =>
            /\ Idle => \A i \in Inbounds : InSync(i, db)
            /\ \A a \in Actors : at[a] # "idle" =>
                 \A i \in Inbounds \ (todo[a] \union {target[a]}) : InSync(i, View(a))
            /\ \A a \in Actors : at[a] = "install" => users[a] = UsersOf(target[a], View(a))

SerialInv == LockInv /\ TargetInv /\ (~disturbed => Alone /\ InStep)

\* The write lock.
LEMMA LockStep ==
  ASSUME TypeOK, LockInv, [Next]_vars
  PROVE  LockInv'
<1> USE DEF TypeOK, LockInv
<1>1. ASSUME NEW a \in Actors, Check(a) \/ Install(a) \/ Finish(a) \/ Fail(a)
      PROVE  LockInv'
  <2>1. CASE Check(a)
    BY <2>1 DEF Check
  <2>2. CASE Install(a)
    BY <2>2 DEF Install
  <2>3. CASE Finish(a)
    BY <2>3 DEF Finish, Actors
  <2>4. CASE Fail(a)
    BY <2>4 DEF Fail, Actors
  <2> QED BY <1>1, <2>1, <2>2, <2>3, <2>4
<1>2. ASSUME NEW a \in Actors, NEW i \in Inbounds, SkipDown(a, i) \/ Read(a, i)
      PROVE  LockInv'
  BY <1>2 DEF SkipDown, Read, Actors
<1>3. ASSUME NEW a \in Requests, NEW c \in Clients, NEW row \in Status,
             NEW identity \in BOOLEAN, Save(a, c, row, identity)
      PROVE  LockInv'
  <2>1. a \in Actors /\ a # None
    BY ActorAssumption DEF Actors
  <2> QED BY <1>3, <2>1 DEF Save, Start
<1>4. ASSUME NEW a \in Requests, NEW c \in Clients, NEW banned \in BOOLEAN, NEW within \in BOOLEAN,
             Ban(a, c, banned, within)
      PROVE  LockInv'
  BY <1>4 DEF Ban, Start
<1>5. ASSUME NEW depleted \in SUBSET Clients, NEW reset \in SUBSET Clients, Deplete(depleted, reset)
      PROVE  LockInv'
  BY <1>5 DEF Deplete, Start
<1>6. CASE StopCore \/ StartCore \/ CoreStarted
  BY <1>6 DEF StopCore, StartCore, CoreStarted
<1>7. CASE UNCHANGED vars
  BY <1>7 DEF vars
<1> QED BY <1>1, <1>2, <1>3, <1>4, <1>5, <1>6, <1>7 DEF Next, Apply, Request

\* Targets.
LEMMA TargetStep ==
  ASSUME TypeOK, TargetInv, [Next]_vars
  PROVE  TargetInv'
<1> USE DEF TypeOK, TargetInv
<1>1. ASSUME NEW a \in Actors, Check(a) \/ Install(a) \/ Finish(a) \/ Fail(a)
      PROVE  TargetInv'
  BY <1>1 DEF Check, Install, Finish, Fail
<1>2. ASSUME NEW a \in Actors, NEW i \in Inbounds, SkipDown(a, i) \/ Read(a, i)
      PROVE  TargetInv'
  BY <1>2 DEF SkipDown, Read
<1>3. ASSUME NEW a \in Actors, NEW inbounds, Start(a, inbounds)
      PROVE  TargetInv'
  BY <1>3 DEF Start
<1>4. CASE StopCore \/ StartCore \/ CoreStarted
  BY <1>4 DEF StopCore, StartCore, CoreStarted
<1>5. CASE UNCHANGED vars
  BY <1>5 DEF vars
<1> QED BY <1>1, <1>2, <1>3, <1>4, <1>5 DEF Next, Apply, Request, Save, Ban, Deplete, Actors

\* Undisturbed, no two operations overlap.
LEMMA AloneStep ==
  ASSUME TypeOK, ~disturbed => Alone, [Next]_vars, ~disturbed'
  PROVE  Alone'
<1> USE DEF TypeOK, Alone, Idle
<1>1. ASSUME NEW a \in Actors, Check(a) \/ Install(a) \/ Finish(a) \/ Fail(a)
      PROVE  Alone'
  <2>1. at[a] # "idle"
    BY <1>1 DEF Check, Install, Finish, Fail, Refused, Broken
  <2>2. core # "starting" /\ core' = core
    BY <1>1, <2>1 DEF Check, Install, Finish, Fail, coreVars
  <2>3. \A b \in Actors : at'[b] # "idle" => at[b] # "idle"
    BY <1>1, <2>1 DEF Check, Install, Finish, Fail
  <2>4. ~disturbed
    BY <1>1 DEF Check, Install, Finish, Fail
  <2> QED BY <2>2, <2>3, <2>4
<1>2. ASSUME NEW a \in Actors, NEW i \in Inbounds, SkipDown(a, i) \/ Read(a, i)
      PROVE  Alone'
  <2>1. core # "starting" /\ core' = core /\ ~disturbed
    BY <1>2 DEF SkipDown, Read, coreVars
  <2>2. \A b \in Actors : at'[b] # "idle" => at[b] # "idle"
    BY <1>2 DEF SkipDown, Read
  <2> QED BY <2>1, <2>2
<1>3. ASSUME NEW a \in Actors, NEW inbounds, Start(a, inbounds)
      PROVE  Alone'
  BY <1>3 DEF Start, coreVars
<1>4. CASE StopCore
  BY <1>4 DEF StopCore
<1>5. CASE StartCore
  BY <1>5 DEF StartCore, InlineUsers
<1>6. CASE CoreStarted
  BY <1>6 DEF CoreStarted
<1>7. CASE UNCHANGED vars
  BY <1>7 DEF vars, InlineUsers
<1> QED BY <1>1, <1>2, <1>3, <1>4, <1>5, <1>6, <1>7
        DEF Next, Apply, Request, Save, Ban, Deplete, Actors

\* Tables with the same enabled clients assemble the same users.
LEMMA SameUsers ==
  ASSUME NEW t, NEW u, \A c \in Clients : t[c].enable = u[c].enable
  PROVE  InlineUsers(t) = InlineUsers(u)
BY DEF InlineUsers

\* Users read from a table are in step with it.
LEMMA InstalledInSync ==
  ASSUME NEW table, NEW i \in Inbounds, live[i] = UsersOf(i, table)
  PROVE  InSync(i, table)
BY DEF InSync, UsersOf, LiveUsers, InlineUsers

\* An operation that starts undisturbed leaves the inbounds it reports nothing about in
\* step, because their users do not change.
LEMMA StartInStep ==
  ASSUME TypeOK, ~disturbed => InStep, NEW a \in Actors, NEW inbounds,
         Start(a, inbounds), ~disturbed',
         inbounds = Inbounds \/ InlineUsers(View(a)') = InlineUsers(db)
  PROVE  InStep'
<1> SUFFICES ASSUME core' = "up" PROVE InStep'
  BY DEF InStep
<1>1. ~disturbed /\ Idle /\ core = "up" /\ live' = live
  BY DEF Start, coreVars
<1>2. at' = [at EXCEPT ![a] = "check"] /\ todo'[a] = inbounds
  BY DEF Start, TypeOK
<1>3. ~Idle'
  BY <1>2 DEF Idle, TypeOK
<1>4. \A b \in Actors : at'[b] # "idle" => b = a
  BY <1>1, <1>2 DEF Idle, TypeOK
<1>5. ASSUME NEW i \in Inbounds, i \notin inbounds
      PROVE  InSync(i, View(a))'
  <2>1. InSync(i, db)
    BY <1>1 DEF InStep
  <2>2. InlineUsers(View(a)') = InlineUsers(db)
    BY <1>5
  <2> QED BY <1>1, <2>1, <2>2 DEF InSync
<1>6. at'[a] # "install"
  BY <1>2 DEF TypeOK
<1> QED BY <1>1, <1>2, <1>3, <1>4, <1>5, <1>6 DEF InStep

\* The step of an operation under way, undisturbed.
LEMMA ApplyInStep ==
  ASSUME TypeOK, LockInv, TargetInv, ~disturbed, Alone, InStep, NEW a \in Actors, Apply(a), ~disturbed'
  PROVE  InStep'
<1>1. /\ at[a] # "idle"
      /\ \A b \in Actors : b # a => at[b] = "idle" /\ at'[b] = "idle"
  BY DEF Apply, Alone, Check, Install, Fail, Finish, SkipDown, Read, TypeOK
<1>2. CASE Check(a)
  <2> SUFFICES ASSUME core' = "up" PROVE InStep'
    BY DEF InStep
  <2>1. core = "up" /\ todo' = todo /\ target' = target /\ live' = live /\ at'[a] = "apply"
    BY <1>2 DEF Check, coreVars, TypeOK
  <2>2. View(a)' = View(a)
    BY <1>2 DEF Check, View
  <2>3. \A i \in Inbounds \ (todo[a] \union {target[a]}) : InSync(i, View(a))'
    BY <1>1, <2>1, <2>2 DEF InStep, InSync
  <2> QED BY <1>1, <2>1, <2>3 DEF InStep, Idle
<1>3. CASE Install(a)
  <2>1. /\ live' = [live EXCEPT ![target[a]] = users[a]] /\ todo' = todo
        /\ at'[a] = "apply" /\ target'[a] = None
        /\ target[a] \in Inbounds /\ users[a] = UsersOf(target[a], View(a))
    BY <1>3 DEF Install, TypeOK, TargetInv, InStep
  <2>2. View(a)' = View(a)
    BY <1>3 DEF Install, View
  <2>3. ASSUME NEW i \in Inbounds, i \notin todo[a]
        PROVE  InSync(i, View(a))'
    <3>1. CASE i = target[a]
      <4>1. live'[i] = UsersOf(i, View(a))
        BY <2>1, <3>1 DEF TypeOK
      <4> QED BY <2>2, <4>1 DEF InSync, UsersOf, LiveUsers, InlineUsers
    <3>2. CASE i # target[a]
      <4>1. InSync(i, View(a))
        BY <1>1, <1>3, <2>3, <3>2 DEF InStep, Install
      <4>2. live'[i] = live[i]
        BY <2>1, <3>2 DEF TypeOK
      <4> QED BY <2>2, <4>1, <4>2 DEF InSync
    <3> QED BY <3>1, <3>2
  <2> QED BY <1>1, <2>1, <2>3 DEF InStep, Idle
<1>4. CASE Finish(a)
  <2> SUFFICES ASSUME core' = "up" PROVE InStep'
    BY DEF InStep
  <2>1. core = "up" /\ live' = live /\ todo[a] = {} /\ target[a] = None
    BY <1>4 DEF Finish, coreVars, TargetInv
  <2>2. db' = View(a)
    BY <1>4 DEF Finish, View
  <2>3. \A i \in Inbounds : InSync(i, View(a))
    BY <1>1, <2>1, InboundAssumption DEF InStep, Inbounds
  <2>4. \A i \in Inbounds : InSync(i, db)'
    BY <2>1, <2>2, <2>3 DEF InSync, InlineUsers
  <2>5. at'[a] = "idle"
    BY <1>4 DEF Finish, TypeOK
  <2>6. \A b \in Actors : at'[b] = "idle"
    BY <1>1, <2>5
  <2> QED BY <2>4, <2>6 DEF InStep
<1>5. ASSUME NEW i \in Inbounds, SkipDown(a, i)
      PROVE  InStep'
  BY <1>5 DEF SkipDown, InStep, coreVars
<1>6. ASSUME NEW i \in Inbounds, Read(a, i)
      PROVE  InStep'
  <2>1. /\ core = "up" /\ at'[a] = "install" /\ todo'[a] = todo[a] \ {i}
        /\ target[a] = None /\ target'[a] = i /\ users'[a] = UsersOf(i, View(a))
    BY <1>6 DEF Read, TypeOK, TargetInv
  <2>2. View(a)' = View(a)
    BY <1>6 DEF Read, View
  <2>3. ASSUME NEW j \in Inbounds, j \notin todo[a], j # i
        PROVE  InSync(j, View(a))'
    <3>1. InSync(j, View(a))
      BY <1>1, <2>1, <2>3, InboundAssumption DEF InStep, Inbounds
    <3>2. live'[j] = live[j]
      BY <1>6, <2>3 DEF Read, TypeOK
    <3> QED BY <2>2, <3>1, <3>2 DEF InSync
  <2>4. users'[a] = UsersOf(target'[a], View(a)')
    BY <2>1, <2>2
  <2> QED BY <1>1, <2>1, <2>3, <2>4 DEF InStep, Idle, UsersOf, LiveUsers, InlineUsers
<1>7. ~Fail(a)
  BY DEF Fail
<1> QED BY <1>2, <1>3, <1>4, <1>5, <1>6, <1>7 DEF Apply

\* Every step keeps the invariant.
LEMMA SerialStep ==
  ASSUME TypeOK, SerialInv, [Next]_vars
  PROVE  SerialInv'
<1>1. LockInv' /\ TargetInv'
  BY LockStep, TargetStep DEF SerialInv
<1>2. ~disturbed' => Alone'
  BY AloneStep DEF SerialInv
<1> SUFFICES ASSUME ~disturbed' PROVE InStep'
  BY <1>1, <1>2 DEF SerialInv
<1>3. ~disturbed => Alone /\ InStep
  BY DEF SerialInv
<1>4. ASSUME NEW a \in Actors, Apply(a)
      PROVE  InStep'
  <2>1. ~disturbed
    BY <1>4 DEF Apply, Check, Install, Fail, Finish, SkipDown, Read
  <2> QED BY <1>3, <1>4, <2>1, ApplyInStep DEF SerialInv
<1>5. ASSUME NEW a \in Requests, NEW c \in Clients, NEW row \in Status,
             NEW identity \in BOOLEAN, Save(a, c, row, identity)
      PROVE  InStep'
  <2>1. a \in Actors /\ Start(a, Changed(db[c], row, identity))
    BY <1>5 DEF Actors, Save
  <2>2. CASE db[c].enable # row.enable \/ identity
    BY <1>3, <2>1, <2>2, StartInStep DEF Changed
  <2>3. CASE db[c].enable = row.enable /\ ~identity
    <3>1. View(a)' = [db EXCEPT ![c] = row]
      BY <1>5 DEF Save, View
    <3>2. \A d \in Clients : (View(a)')[d].enable = db[d].enable
      BY <2>3, <3>1 DEF TypeOK, Tables
    <3>3. InlineUsers(View(a)') = InlineUsers(db)
      BY <3>2, SameUsers
    <3> QED BY <1>3, <2>1, <3>3, StartInStep
  <2> QED BY <2>2, <2>3
<1>6. ASSUME NEW a \in Requests, NEW c \in Clients, NEW banned \in BOOLEAN, NEW within \in BOOLEAN,
             Ban(a, c, banned, within)
      PROVE  InStep'
  BY <1>3, <1>6, StartInStep DEF Ban, Actors
<1>7. ASSUME NEW depleted \in SUBSET Clients, NEW reset \in SUBSET Clients, Deplete(depleted, reset)
      PROVE  InStep'
  BY <1>3, <1>7, StartInStep DEF Deplete, Actors
<1>8. CASE StopCore \/ StartCore
  BY <1>8 DEF StopCore, StartCore, InStep
<1>9. CASE CoreStarted
  <2>1. Idle /\ assembled = InlineUsers(db) /\ at' = at /\ db' = db
    BY <1>3, <1>9 DEF CoreStarted, Alone
  <2>2. \A i \in Inbounds : live'[i] = InlineUsers(db)
    BY <1>9, <2>1 DEF CoreStarted
  <2>3. \A i \in Inbounds : InSync(i, db)'
    BY <2>1, <2>2 DEF InSync, InlineUsers
  <2> QED BY <2>1, <2>3 DEF InStep, Idle
<1>10. CASE UNCHANGED vars
  <2>1. InStep
    BY <1>3, <1>10 DEF vars
  <2>2. /\ db' = db /\ pending' = pending /\ writer' = writer /\ live' = live
        /\ at' = at /\ todo' = todo /\ target' = target /\ users' = users /\ core' = core
    BY <1>10 DEF vars
  <2>3. \A a \in Actors : View(a)' = View(a)
    BY <2>2 DEF View
  <2>4. /\ \A i \in Inbounds : InSync(i, db)' <=> InSync(i, db)
        /\ \A a \in Actors, i \in Inbounds : InSync(i, View(a))' <=> InSync(i, View(a))
        /\ \A a \in Actors : UsersOf(target[a], View(a))' = UsersOf(target[a], View(a))
    BY <2>2, <2>3 DEF InSync, UsersOf, LiveUsers, InlineUsers
  <2> QED BY <2>1, <2>2, <2>4 DEF InStep, Idle
<1> QED BY <1>4, <1>5, <1>6, <1>7, <1>8, <1>9, <1>10 DEF Next, Request

\* In every run in which operations neither overlap nor fail, whoever the table disables
\* is out of the core once the operation is over: for any number of clients, inbounds,
\* changes and restarts of the core.
THEOREM SerialInSync == Spec => []InSyncWhenSerial
<1>1. Init => SerialInv
  <2> SUFFICES ASSUME Init PROVE SerialInv
    OBVIOUS
  <2>1. LockInv /\ TargetInv /\ Alone
    BY DEF Init, LockInv, TargetInv, Alone
  <2>2. \A i \in Inbounds : InSync(i, db)
    BY DEF Init, InSync
  <2>3. InStep
    BY <2>2 DEF Init, InStep
  <2> QED BY <2>1, <2>3 DEF SerialInv
<1>2. TypeOK /\ SerialInv /\ [Next]_vars => SerialInv'
  BY SerialStep
<1>3. SerialInv => InSyncWhenSerial
  <2> SUFFICES ASSUME SerialInv, Quiet, ~disturbed PROVE InSyncWhenSerial
    BY DEF InSyncWhenSerial
  <2>1. \A i \in Inbounds : InSync(i, db)
    BY DEF SerialInv, InStep, Quiet
  <2> QED BY <2>1, InboundAssumption DEF InSync, InSyncWhenSerial, Inbounds
<1> QED BY <1>1, <1>2, <1>3, TypeCorrect, PTL DEF Spec

-----------------------------------------------------------------------------
\* Hy2Service (Service), for every set of passwords, sessions, handlers and panel goroutines:
\* what a new user map does to the sessions.  EvictedUnlessLate alone is not inductive: while calls
\* overlap it says nothing.  EvictionPending names, for a removed session, a panel goroutine
\* that will close it, and is.

\* A goroutine outside UpdateInboundUsers has no victims left to close.
IdleHasNoVictims == \A c \in Panel : panel[c].at = "idle" => panel[c].victims = {}

ServiceInv == Service!TypeOK /\ IdleHasNoVictims /\ Service!EvictionPending

-----------------------------------------------------------------------------
\* Every step of the service keeps the types of its variables.
LEMMA ServiceTypes ==
  ASSUME Service!TypeOK, [Service!Next]_Service!vars
  PROVE  Service!TypeOK'
<1> USE ServiceAssumption DEF Service!TypeOK, Service!NoUserAssumption,
                               Service!NoPasswordAssumption
<1>1. ASSUME NEW s \in Sessions, Service!Connection(s) PROVE Service!TypeOK'
  <2>1. CASE Service!Connect(s)
    BY <2>1 DEF Service!Connect, Service!NoAuth
  <2>2. CASE Service!Disconnect(s) \/ Service!RemoveSession(s)
    BY <2>2 DEF Service!Disconnect, Service!RemoveSession
  <2> QED BY <1>1, <2>1, <2>2 DEF Service!Connection
<1>2. ASSUME NEW r \in Handlers, NEW s \in Sessions, NEW p \in Passwords,
             Service!ServeAuth(r, s, p)
      PROVE  Service!TypeOK'
  BY <1>2 DEF Service!ServeAuth, Service!RequestStates
<1>3. ASSUME NEW r \in Handlers, Service!LookupUser(r) PROVE Service!TypeOK'
  <2>1. /\ request[r].session \in Sessions
        /\ request[r].password \in Passwords
    BY <1>3 DEF Service!LookupUser, Service!RequestStates
  <2>2. userMap[request[r].password] # NoUser => userMap[request[r].password] \in Names
    BY <2>1 DEF Service!UserMaps
  <2>3. request' \in [Handlers -> Service!RequestStates]
    BY <1>3, <2>1, <2>2 DEF Service!LookupUser, Service!RequestStates, Service!IdleRequest
  <2> QED BY <1>3, <2>3 DEF Service!LookupUser
<1>4. ASSUME NEW r \in Handlers, Service!Accept(r) PROVE Service!TypeOK'
  <2>1. /\ request[r].session \in Sessions
        /\ request[r].password \in Passwords
        /\ request[r].user \in Names
    BY <1>4 DEF Service!Accept, Service!RequestStates
  <2>2. /\ auth' \in [Sessions -> [password : Passwords \union {NoPassword},
                                   user : Names \union {NoUser}]]
        /\ late' \in [Sessions -> BOOLEAN]
    BY <1>4, <2>1 DEF Service!Accept
  <2>3. request' \in [Handlers -> Service!RequestStates]
    BY <1>4 DEF Service!Accept, Service!RequestStates, Service!IdleRequest
  <2> QED BY <1>4, <2>2, <2>3 DEF Service!Accept
<1>5. ASSUME NEW c \in Panel, NEW new \in Service!UserMaps, Service!UpdateUsers(c, new)
      PROVE  Service!TypeOK'
  BY <1>5 DEF Service!UpdateUsers, Service!PanelStates, Service!IdlePanel
<1>6. ASSUME NEW c \in Panel, Service!Retain(c) PROVE Service!TypeOK'
  <2>1. CASE Service!BeginScan(c)
    <3>1. [panel[c] EXCEPT !.at = "scan", !.toScan = Service!Registered] \in Service!PanelStates
      BY DEF Service!PanelStates, Service!Registered
    <3>2. panel' \in [Panel -> Service!PanelStates]
      BY <2>1, <3>1 DEF Service!BeginScan
    <3> QED BY <2>1, <3>2 DEF Service!BeginScan
  <2>2. ASSUME NEW s \in Sessions, Service!ScanSession(c, s) PROVE Service!TypeOK'
    <3> DEFINE evict == /\ Service!Authenticated(s)
                        /\ auth[s].password \notin Service!Known(panel[c].users)
               scanned == [panel[c] EXCEPT !.toScan = @ \ {s},
                                           !.victims = IF evict THEN @ \union {s} ELSE @]
    <3>1. panel' = [panel EXCEPT ![c] = scanned]
      BY <2>2 DEF Service!ScanSession
    <3> HIDE DEF evict
    <3>2. scanned \in Service!PanelStates
      BY DEF Service!PanelStates
    <3> HIDE DEF scanned
    <3>3. panel' \in [Panel -> Service!PanelStates]
      BY <3>1, <3>2
    <3> QED BY <2>2, <3>3 DEF Service!ScanSession
  <2>3. CASE Service!EndScan(c)
    <3>1. [panel[c] EXCEPT !.at = "close"] \in Service!PanelStates
      BY DEF Service!PanelStates
    <3>2. panel' \in [Panel -> Service!PanelStates]
      BY <2>3, <3>1 DEF Service!EndScan
    <3> QED BY <2>3, <3>2 DEF Service!EndScan
  <2>4. ASSUME NEW s \in Sessions, Service!CloseVictim(c, s) PROVE Service!TypeOK'
    <3>1. [panel[c] EXCEPT !.victims = @ \ {s}] \in Service!PanelStates
      BY DEF Service!PanelStates
    <3>2. panel' \in [Panel -> Service!PanelStates]
      BY <2>4, <3>1 DEF Service!CloseVictim
    <3>3. conn' \in [Sessions -> {"none", "open", "closed"}]
      BY <2>4 DEF Service!CloseVictim
    <3> QED BY <2>4, <3>2, <3>3 DEF Service!CloseVictim
  <2>5. CASE Service!EndRetain(c)
    BY <2>5 DEF Service!EndRetain, Service!PanelStates, Service!IdlePanel, Service!UserMaps
  <2> QED BY <1>6, <2>1, <2>2, <2>3, <2>4, <2>5 DEF Service!Retain
<1>7. CASE UNCHANGED Service!vars
  BY <1>7 DEF Service!vars
<1> QED BY <1>1, <1>2, <1>3, <1>4, <1>5, <1>6, <1>7 DEF Service!Next, Service!Handler

\* The types are right in every state the service can reach.
THEOREM ServiceTypeCorrect == Service!Spec => []Service!TypeOK
<1>1. Service!Init => Service!TypeOK
  BY ServiceAssumption DEF Service!NoUserAssumption, Service!Init, Service!TypeOK, Service!NoAuth,
     Service!IdleRequest, Service!IdlePanel, Service!UserMaps, Service!RequestStates,
     Service!PanelStates
<1>2. Service!TypeOK /\ [Service!Next]_Service!vars => Service!TypeOK'
  BY ServiceTypes
<1> QED BY <1>1, <1>2, PTL DEF Service!Spec

-----------------------------------------------------------------------------
\* Only UpdateUsers takes a goroutine out of "idle", and only EndRetain, which finds no
\* victim left, brings it back.
LEMMA IdleStep ==
  Service!TypeOK /\ IdleHasNoVictims /\ [Service!Next]_Service!vars => IdleHasNoVictims'
<1> SUFFICES ASSUME Service!TypeOK, IdleHasNoVictims,
                    [Service!Next]_Service!vars
             PROVE  IdleHasNoVictims'
  OBVIOUS
<1> USE DEF IdleHasNoVictims
<1>1. ASSUME UNCHANGED panel PROVE IdleHasNoVictims'
  BY <1>1
<1>2. ASSUME NEW c \in Panel, NEW new \in Service!UserMaps, Service!UpdateUsers(c, new)
      PROVE  IdleHasNoVictims'
  BY <1>2 DEF Service!TypeOK, Service!UpdateUsers, Service!IdlePanel
<1>3. ASSUME NEW c \in Panel, Service!Retain(c) PROVE IdleHasNoVictims'
  <2>1. panel \in [Panel -> Service!PanelStates]
    BY DEF Service!TypeOK
  <2>2. CASE Service!BeginScan(c)
    BY <2>1, <2>2 DEF Service!PanelStates, Service!BeginScan
  <2>3. ASSUME NEW s \in Sessions, Service!ScanSession(c, s) PROVE IdleHasNoVictims'
    BY <2>1, <2>3 DEF Service!PanelStates, Service!ScanSession
  <2>4. CASE Service!EndScan(c)
    BY <2>1, <2>4 DEF Service!PanelStates, Service!EndScan
  <2>5. ASSUME NEW s \in Sessions, Service!CloseVictim(c, s) PROVE IdleHasNoVictims'
    BY <2>1, <2>5 DEF Service!PanelStates, Service!CloseVictim
  <2>6. CASE Service!EndRetain(c)
    BY <2>1, <2>6 DEF Service!PanelStates, Service!EndRetain, Service!IdlePanel
  <2> QED BY <1>3, <2>2, <2>3, <2>4, <2>5, <2>6 DEF Service!Retain
<1> QED
  BY <1>1, <1>2, <1>3 DEF Service!Next, Service!vars, Service!Connection, Service!Connect,
     Service!Disconnect, Service!RemoveSession, Service!Handler, Service!ServeAuth,
     Service!LookupUser, Service!Accept

\* The heart of the argument: no step leaves a removed session without a goroutine that
\* will close it.
LEMMA EvictionStep == ServiceInv /\ [Service!Next]_Service!vars => Service!EvictionPending'
<1> SUFFICES ASSUME ServiceInv, [Service!Next]_Service!vars,
                    NEW s \in Sessions, Service!Removed(s)'
             PROVE  \E c \in Panel : Service!WillEvict(c, s)'
  BY DEF Service!EvictionPending
<1> USE DEF ServiceInv, Service!TypeOK, Service!Removed, Service!Authenticated, Service!Known
<1>1. ASSUME UNCHANGED <<userMap, panel>>, conn'[s] = "open" => conn[s] = "open",
             auth'[s] = auth[s], late'[s] = late[s]
      PROVE  \E c \in Panel : Service!WillEvict(c, s)'
  BY <1>1 DEF Service!EvictionPending, Service!WillEvict
<1>2. ASSUME NEW t \in Sessions, Service!Connection(t)
      PROVE  \E c \in Panel : Service!WillEvict(c, s)'
  <2>1. CASE Service!Connect(t)
    <3>1. s # t
      BY <2>1 DEF Service!Connect, Service!NoAuth
    <3> QED BY <1>1, <2>1, <3>1 DEF Service!Connect
  <2>2. CASE Service!Disconnect(t) \/ Service!RemoveSession(t)
    BY <1>1, <2>2 DEF Service!Disconnect, Service!RemoveSession
  <2> QED BY <1>2, <2>1, <2>2 DEF Service!Connection
<1>3. ASSUME NEW r \in Handlers, Service!Handler(r) PROVE \E c \in Panel : Service!WillEvict(c, s)'
  <2>1. CASE Service!Accept(r)
    <3>1. request[r].session \in Sessions /\ request[r].password \in Passwords
      BY <2>1 DEF Service!Accept, Service!RequestStates
    <3>2. s # request[r].session
      BY <2>1, <3>1 DEF Service!Accept
    <3> QED BY <1>1, <2>1, <3>2 DEF Service!Accept
  <2>2. CASE \E t \in Sessions, p \in Passwords : Service!ServeAuth(r, t, p)
    BY <1>1, <2>2 DEF Service!ServeAuth
  <2>3. CASE Service!LookupUser(r)
    BY <1>1, <2>3 DEF Service!LookupUser
  <2> QED BY <1>3, <2>1, <2>2, <2>3 DEF Service!Handler
<1>4. ASSUME NEW c \in Panel, NEW new \in Service!UserMaps, Service!UpdateUsers(c, new)
      PROVE  Service!WillEvict(c, s)'
  BY <1>4 DEF Service!UpdateUsers, Service!WillEvict, Service!IdlePanel
<1>5. ASSUME NEW c \in Panel, Service!Retain(c) PROVE \E d \in Panel : Service!WillEvict(d, s)'
  <2>1. Service!Removed(s)
    BY <1>5 DEF Service!Retain, Service!BeginScan, Service!ScanSession, Service!EndScan,
       Service!CloseVictim, Service!EndRetain
  <2>2. PICK d \in Panel : Service!WillEvict(d, s)
    BY <2>1 DEF Service!EvictionPending
  <2>3. CASE d # c
    <3>1. panel'[d] = panel[d] /\ auth' = auth
      BY <1>5, <2>3 DEF Service!Retain, Service!BeginScan, Service!ScanSession, Service!EndScan,
         Service!CloseVictim, Service!EndRetain
    <3> QED BY <2>2, <3>1 DEF Service!WillEvict
  <2>4. CASE d = c
    <3>1. panel[c] \in Service!PanelStates /\ auth[s].password \notin Service!Known(userMap)
      BY <2>1
    <3>2. CASE Service!BeginScan(c)
      BY <2>1, <2>2, <2>4, <3>1, <3>2 DEF Service!BeginScan, Service!WillEvict,
         Service!Registered, Service!PanelStates
    <3>3. ASSUME NEW t \in Sessions, Service!ScanSession(c, t) PROVE Service!WillEvict(c, s)'
      BY <2>1, <2>2, <2>4, <3>1, <3>3 DEF Service!ScanSession, Service!WillEvict,
         Service!PanelStates
    <3>4. CASE Service!EndScan(c)
      BY <2>2, <2>4, <3>1, <3>4 DEF Service!EndScan, Service!WillEvict, Service!PanelStates
    <3>5. ASSUME NEW t \in Sessions, Service!CloseVictim(c, t) PROVE Service!WillEvict(c, s)'
      BY <2>1, <2>2, <2>4, <3>1, <3>5 DEF Service!CloseVictim, Service!WillEvict,
         Service!PanelStates
    <3>6. ~Service!EndRetain(c)
      BY <2>2, <2>4 DEF Service!EndRetain, Service!WillEvict
    <3> QED BY <1>5, <3>2, <3>3, <3>4, <3>5, <3>6 DEF Service!Retain
  <2> QED BY <2>3, <2>4
<1>6. CASE UNCHANGED Service!vars
  BY <1>1, <1>6 DEF Service!vars
<1> QED BY <1>2, <1>3, <1>4, <1>5, <1>6 DEF Service!Next

\* The inductive invariant holds in every reachable state.
LEMMA ServiceInductive == Service!Spec => []ServiceInv
<1>1. Service!Init => ServiceInv
  <2> SUFFICES ASSUME Service!Init PROVE ServiceInv
    OBVIOUS
  <2>1. Service!TypeOK
    BY ServiceAssumption DEF Service!NoUserAssumption, Service!Init, Service!TypeOK, Service!NoAuth,
       Service!IdleRequest, Service!IdlePanel, Service!UserMaps, Service!RequestStates,
       Service!PanelStates
  <2>2. IdleHasNoVictims /\ Service!EvictionPending
    BY DEF Service!Init, IdleHasNoVictims, Service!EvictionPending, Service!Removed,
       Service!IdlePanel
  <2> QED BY <2>1, <2>2 DEF ServiceInv
<1>2. ServiceInv /\ [Service!Next]_Service!vars => ServiceInv'
  BY ServiceTypes, IdleStep, EvictionStep DEF ServiceInv
<1> QED BY <1>1, <1>2, PTL DEF Service!Spec

\* A removed user's session always has a panel goroutine on its way to close it,
\* however the UpdateInboundUsers calls, the handshakes and the disconnects interleave.
THEOREM EvictionAlwaysPending == Service!Spec => []Service!EvictionPending
<1>1. ServiceInv => Service!EvictionPending
  BY DEF ServiceInv
<1> QED BY <1>1, ServiceInductive, PTL

\* Once every UpdateInboundUsers call has returned, no removed user is connected, but for
\* those whose handshake straddled the swap of the map.
THEOREM EvictionComplete == Service!Spec => []EvictedUnlessLate
<1>1. ServiceInv => EvictedUnlessLate
  BY DEF ServiceInv, IdleHasNoVictims, Service!EvictionPending, Service!WillEvict,
     EvictedUnlessLate, Service!EvictedUnlessLate
<1> QED BY <1>1, ServiceInductive, PTL
=============================================================================
