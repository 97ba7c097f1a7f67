--------------------------- MODULE ConfigSave_proofs ---------------------------
(***************************************************************************)
(* What a change brings about in memory, for any documents, requests,      *)
(* tokens and bounds: the document the core runs after a save (ConfigSave),*)
(* and the tokens that are cached (TokenCache).                            *)
(***************************************************************************)
EXTENDS MCConfigSave, Naturals, Sequences, WellFoundedInduction, TLAPS

-----------------------------------------------------------------------------
(* ConfigSave. *)

Starting == {"read", "boot"}
Restarting == {"stop", "boot"}
Pending == \E r \in Requests : go[r] \in {"ready", "stop", "boot"}

\* startCoreInProgress is held by exactly the thread that is starting the core.
HeldBy == /\ \A r \in Requests : go[r] \in Restarting => starter = <<"go", r>>
          /\ \A t \in Threads : at[t] \in Starting => starter = <<"start", t>>

\* The one transaction is the last one; a goroutine has been started since it was written.
Order ==
  /\ writer # None => latest = writer
  /\ \A r \in Requests : at[r] = "written" <=> writer = r
  /\ \A r \in Requests : at[r] = "new" <=> go[r] = "none"
  /\ \A r \in Requests : at[r] = "new" => latest # r
  /\ \A r \in Requests : latest = r /\ r \notin failed /\ writer # r => stored = doc[r]

\* Nothing runs between a goroutine's stop and its start.
Down == \A r \in Requests : go[r] = "boot" => core = None

\* The core has the stored document, or will be restarted, or has been restarted by the
\* transaction that has not ended.
Follows ==
  ~excused =>
    /\ (\A t \in Threads : at[t] # "boot") =>
         \/ core \in {None, stored}
         \/ Pending
         \/ writer # None /\ core = doc[writer]
    /\ writer # None /\ go[writer] = "done" =>
         /\ core \in {None, doc[writer]} \/ Pending
         /\ \A t \in Threads : at[t] # "boot"
    /\ \A t \in Threads : at[t] = "boot" => read[t] = stored \/ Pending

IInv == TypeOK /\ HeldBy /\ Order /\ Down /\ Follows

-----------------------------------------------------------------------------

\* The invariant holds at the start.
LEMMA InitIInv == Init => IInv
<1> USE ConfigAssumption, ThreadAssumption, HolderAssumption
<1> SUFFICES ASSUME Init PROVE IInv
  OBVIOUS
<1>1. TypeOK
  BY DEF Init, TypeOK, Threads
<1>2. HeldBy /\ Order /\ Down /\ Follows
  BY DEF Init, HeldBy, Order, Down, Follows, Threads, Starting, Restarting
<1> QED
  BY <1>1, <1>2 DEF IInv

-----------------------------------------------------------------------------
(* The request. *)

\* A save that writes keeps the invariant.
LEMMA WriteIInv == \A r \in Requests, c \in Configs : IInv /\ Write(r, c) => IInv'
<1> USE ConfigAssumption, ThreadAssumption, HolderAssumption
<1> SUFFICES ASSUME NEW r \in Requests, NEW c \in Configs, IInv, Write(r, c) PROVE IInv'
  OBVIOUS
<1>1. TypeOK'
  BY DEF IInv, TypeOK, Write, Threads
<1>2. HeldBy' /\ Down'
  BY DEF IInv, TypeOK, Write, Threads, HeldBy, Down, Starting, Restarting
<1>3. Order'
  BY DEF IInv, TypeOK, Write, Threads, Order
<1>4. Follows'
  BY DEF IInv, TypeOK, Write, Threads, Follows, Pending
<1> QED
  BY <1>1, <1>2, <1>3, <1>4 DEF IInv

\* A commit keeps the invariant.
LEMMA CommitIInv == \A r \in Requests : IInv /\ Commit(r) => IInv'
<1> USE ConfigAssumption, ThreadAssumption, HolderAssumption
<1> SUFFICES ASSUME NEW r \in Requests, IInv, Commit(r) PROVE IInv'
  OBVIOUS
<1>1. TypeOK'
  BY DEF IInv, TypeOK, Commit, Threads
<1>2. HeldBy' /\ Down'
  BY DEF IInv, TypeOK, Commit, Threads, HeldBy, Down, Starting, Restarting
<1>3. Order'
  BY DEF IInv, TypeOK, Commit, Threads, Order
<1>4. Follows'
  <2>1. writer = r /\ (go[r] = "done" \/ Pending)
    BY DEF IInv, TypeOK, Order, Commit, Pending
  <2>2. Pending' <=> Pending
    BY DEF Commit, Pending
  <2> QED
    BY <2>1, <2>2 DEF IInv, TypeOK, Commit, Threads, Follows
<1> QED
  BY <1>1, <1>2, <1>3, <1>4 DEF IInv

\* A rollback keeps the invariant.
LEMMA RollbackIInv == \A r \in Requests : IInv /\ Rollback(r) => IInv'
<1> USE ConfigAssumption, ThreadAssumption, HolderAssumption
<1> SUFFICES ASSUME NEW r \in Requests, IInv, Rollback(r) PROVE IInv'
  OBVIOUS
<1>1. TypeOK'
  BY DEF IInv, TypeOK, Rollback, Threads
<1>2. HeldBy' /\ Down'
  BY DEF IInv, TypeOK, Rollback, Threads, HeldBy, Down, Starting, Restarting
<1>3. Order'
  BY DEF IInv, TypeOK, Rollback, Threads, Order
<1>4. Follows'
  BY DEF Rollback, Follows
<1> QED
  BY <1>1, <1>2, <1>3, <1>4 DEF IInv

-----------------------------------------------------------------------------
(* The goroutine. *)

\* The restart a save asks for keeps the invariant.
LEMMA RestartIInv == \A r \in Requests : IInv /\ Restart(r) => IInv'
<1> USE ConfigAssumption, ThreadAssumption, HolderAssumption
<1> SUFFICES ASSUME NEW r \in Requests, IInv, Restart(r) PROVE IInv'
  OBVIOUS
<1>1. CASE Claim(r)
  <2>1. TypeOK'
    BY <1>1 DEF IInv, TypeOK, Claim, Threads
  <2>2. HeldBy' /\ Down' /\ Order'
    BY <1>1 DEF IInv, TypeOK, Claim, Threads, HeldBy, Down, Order, Starting, Restarting
  <2>3. Pending' /\ Pending
    BY <1>1 DEF IInv, TypeOK, Claim, Pending
  <2>4. Follows'
    BY <1>1, <2>3 DEF IInv, TypeOK, Claim, Threads, Follows
  <2> QED
    BY <2>1, <2>2, <2>4 DEF IInv
<1>2. CASE Drop(r)
  <2>1. TypeOK'
    BY <1>2 DEF IInv, TypeOK, Drop, Threads
  <2>2. HeldBy' /\ Down' /\ Order' /\ Follows'
    BY <1>2 DEF IInv, TypeOK, Drop, Threads, HeldBy, Down, Order, Follows, Starting, Restarting
  <2> QED
    BY <2>1, <2>2 DEF IInv
<1>3. CASE StopOld(r)
  <2>1. TypeOK'
    BY <1>3 DEF IInv, TypeOK, StopOld, Threads
  <2>2. HeldBy' /\ Down' /\ Order'
    BY <1>3 DEF IInv, TypeOK, StopOld, Threads, HeldBy, Down, Order, Starting, Restarting
  <2>3. Pending' /\ Pending
    BY <1>3 DEF IInv, TypeOK, StopOld, Pending
  <2>4. Follows'
    BY <1>3, <2>3 DEF IInv, TypeOK, StopOld, Threads, Follows
  <2> QED
    BY <2>1, <2>2, <2>4 DEF IInv
<1>4. CASE Boot(r)
  <2>1. TypeOK'
    BY <1>4 DEF IInv, TypeOK, Boot, Booted, Threads
  <2>2. /\ \A t \in Threads : at[t] \notin Starting
        /\ \A q \in Requests \ {r} : go[q] \notin Restarting
    BY <1>4 DEF IInv, TypeOK, HeldBy, Boot, Restarting, Starting
  <2>3. HeldBy' /\ Down' /\ Order'
    BY <1>4, <2>2 DEF IInv, TypeOK, Boot, Threads, HeldBy, Down, Order, Starting, Restarting
  <2>4. Follows'
    <3> SUFFICES ASSUME ~excused' PROVE Follows'
      BY DEF Follows
    <3>1. latest = r /\ r \notin failed /\ core' \in {None, doc[r]}
      BY <1>4 DEF Boot, Booted
    <3>2. writer = r \/ (writer = None /\ stored = doc[r])
      BY <3>1 DEF IInv, TypeOK, Order
    <3>3. \A t \in Threads : at[t] # "boot"
      BY <2>2 DEF Starting
    <3> QED
      BY <1>4, <3>1, <3>2, <3>3 DEF Boot, Follows
  <2> QED
    BY <2>1, <2>3, <2>4 DEF IInv
<1>5. CASE BootFails(r)
  <2>1. TypeOK'
    BY <1>5 DEF IInv, TypeOK, BootFails, Threads
  <2>2. /\ \A t \in Threads : at[t] \notin Starting
        /\ \A q \in Requests \ {r} : go[q] \notin Restarting
    BY <1>5 DEF IInv, TypeOK, HeldBy, BootFails, Restarting, Starting
  <2>3. HeldBy' /\ Down' /\ Order'
    BY <1>5, <2>2 DEF IInv, TypeOK, BootFails, Threads, HeldBy, Down, Order, Starting, Restarting
  <2>4. Follows'
    BY <1>5, <2>2 DEF IInv, BootFails, Follows, Down, Starting
  <2> QED
    BY <2>1, <2>3, <2>4 DEF IInv
<1> QED
  BY <1>1, <1>2, <1>3, <1>4, <1>5 DEF Restart

-----------------------------------------------------------------------------
(* StartCore, StopCore. *)

\* The steps of a start of the core keep the invariant.
LEMMA StartIInv == \A t \in Threads : IInv /\ Start(t) => IInv'
<1> USE ConfigAssumption, ThreadAssumption, HolderAssumption
<1> SUFFICES ASSUME NEW t \in Threads, IInv, Start(t) PROVE IInv'
  OBVIOUS
<1>1. CASE CheckDown(t)
  <2>1. TypeOK'
    BY <1>1 DEF IInv, TypeOK, CheckDown, Threads
  <2>2. HeldBy' /\ Down' /\ Order'
    BY <1>1 DEF IInv, TypeOK, CheckDown, Threads, HeldBy, Down, Order, Starting, Restarting
  <2>3. Follows'
    BY <1>1 DEF IInv, TypeOK, CheckDown, Threads, Follows, Pending
  <2> QED
    BY <2>1, <2>2, <2>3 DEF IInv
<1>2. CASE Leave(t)
  <2>1. TypeOK'
    BY <1>2 DEF IInv, TypeOK, Leave, Over, Threads
  <2>2. HeldBy' /\ Down' /\ Order'
    BY <1>2 DEF IInv, TypeOK, Leave, Over, Threads, HeldBy, Down, Order, Starting, Restarting
  <2>3. Follows'
    BY <1>2 DEF IInv, TypeOK, Leave, Over, Threads, Follows, Pending
  <2> QED
    BY <2>1, <2>2, <2>3 DEF IInv
<1>3. CASE StartClaim(t)
  <2>1. TypeOK'
    BY <1>3 DEF IInv, TypeOK, StartClaim, Threads
  <2>2. HeldBy' /\ Down' /\ Order'
    BY <1>3 DEF IInv, TypeOK, StartClaim, Threads, HeldBy, Down, Order, Starting, Restarting
  <2>3. Follows'
    BY <1>3 DEF IInv, TypeOK, StartClaim, Threads, Follows, Pending
  <2> QED
    BY <2>1, <2>2, <2>3 DEF IInv
<1>4. CASE StartRead(t)
  <2>1. TypeOK'
    BY <1>4 DEF IInv, TypeOK, StartRead, Threads
  <2>2. HeldBy' /\ Down' /\ Order'
    BY <1>4 DEF IInv, TypeOK, StartRead, Threads, HeldBy, Down, Order, Starting, Restarting
  <2>3. \A u \in Threads \ {t} : at'[u] # "boot"
    BY <1>4 DEF IInv, TypeOK, HeldBy, StartRead, Starting
  <2>4. Follows'
    BY <1>4, <2>3 DEF IInv, TypeOK, StartRead, Threads, Follows
  <2> QED
    BY <2>1, <2>2, <2>4 DEF IInv
<1>5. CASE StartBoot(t)
  <2>1. TypeOK'
    BY <1>5 DEF IInv, TypeOK, StartBoot, Over, Booted, Threads
  <2>2. /\ \A u \in Threads \ {t} : at[u] \notin Starting
        /\ \A q \in Requests : go[q] \notin Restarting
    BY <1>5 DEF IInv, TypeOK, HeldBy, StartBoot, Restarting, Starting
  <2>3. HeldBy' /\ Down' /\ Order'
    BY <1>5, <2>2 DEF IInv, TypeOK, StartBoot, Over, Threads, HeldBy, Down, Order, Starting,
                      Restarting
  <2>4. Follows'
    <3> SUFFICES ASSUME ~excused' PROVE Follows'
      BY DEF Follows
    <3>1. /\ read[t] = stored \/ Pending
          /\ ~(writer # None /\ go[writer] = "done")
      BY <1>5 DEF IInv, Follows, StartBoot
    <3>2. Pending' <=> Pending
      BY <1>5 DEF StartBoot, Pending
    <3>3. \A u \in Threads : at'[u] # "boot"
      BY <1>5, <2>2 DEF IInv, TypeOK, StartBoot, Over, Starting, Threads
    <3> QED
      BY <1>5, <3>1, <3>2, <3>3 DEF StartBoot, Booted, Follows
  <2> QED
    BY <2>1, <2>3, <2>4 DEF IInv
<1>6. CASE StartFails(t)
  <2>1. TypeOK'
    BY <1>6 DEF IInv, TypeOK, StartFails, Over, Threads
  <2>2. /\ \A u \in Threads \ {t} : at[u] \notin Starting
        /\ \A q \in Requests : go[q] \notin Restarting
    BY <1>6 DEF IInv, TypeOK, HeldBy, StartFails, Restarting, Starting
  <2>3. HeldBy' /\ Down' /\ Order'
    BY <1>6, <2>2 DEF IInv, TypeOK, StartFails, Over, Threads, HeldBy, Down, Order, Starting,
                      Restarting
  <2>4. Follows'
    <3>1. Pending' <=> Pending
      BY <1>6 DEF StartFails, Pending
    <3>2. \A u \in Threads : at'[u] # "boot"
      BY <1>6, <2>2 DEF IInv, TypeOK, StartFails, Over, Starting, Threads
    <3>3. at[t] = "read" => \A u \in Threads : at[u] # "boot"
      BY <2>2 DEF Starting
    <3> QED
      BY <1>6, <3>1, <3>2, <3>3 DEF IInv, StartFails, Follows, Starting
  <2> QED
    BY <2>1, <2>3, <2>4 DEF IInv
<1> QED
  BY <1>1, <1>2, <1>3, <1>4, <1>5, <1>6 DEF Start

\* A stop of the core keeps the invariant.
LEMMA StopIInv == IInv /\ StopCore => IInv'
<1> USE ConfigAssumption, ThreadAssumption, HolderAssumption
<1> SUFFICES ASSUME IInv, StopCore PROVE IInv'
  OBVIOUS
<1>1. TypeOK'
  BY DEF IInv, TypeOK, StopCore, Threads
<1>2. HeldBy' /\ Down' /\ Order'
  BY DEF IInv, TypeOK, StopCore, Threads, HeldBy, Down, Order, Starting, Restarting
<1>3. Follows'
  BY DEF IInv, TypeOK, StopCore, Threads, Follows, Pending
<1> QED
  BY <1>1, <1>2, <1>3 DEF IInv

\* Where nothing changes the invariant is kept.
LEMMA StutterIInv == IInv /\ UNCHANGED vars => IInv'
<1> SUFFICES ASSUME IInv, UNCHANGED vars PROVE IInv'
  OBVIOUS
<1>1. TypeOK' /\ HeldBy' /\ Down' /\ Order'
  BY DEF IInv, vars, TypeOK, HeldBy, Down, Order
<1>2. Follows'
  BY DEF IInv, vars, Follows, Pending
<1> QED
  BY <1>1, <1>2 DEF IInv

-----------------------------------------------------------------------------

\* Every step keeps it, so it holds for good.
LEMMA StepIInv == IInv /\ [Next]_vars => IInv'
BY WriteIInv, CommitIInv, RollbackIInv, RestartIInv, StartIInv, StopIInv, StutterIInv DEF Next

\* The invariant of ConfigSave, in every state.
LEMMA Inductive == Spec => []IInv
BY StepIInv, InitIInv, PTL DEF Spec

\* The types, for any sets of documents and requests.
THEOREM TypeCorrect == Spec => []TypeOK
<1>1. IInv => TypeOK
  BY DEF IInv
<1> QED
  BY <1>1, Inductive, PTL

\* When nobody is saving or starting, the core that runs has the document that is stored, but
\* for the exceptions the property names: IInv says who may still change it, and when nobody
\* may, the only alternative left is the stored one.
THEOREM StoredIsRun == Spec => []RunsStored
<1>1. IInv => RunsStored
  <2> SUFFICES ASSUME IInv, Quiet, core # None, ~excused PROVE core = stored
    BY DEF RunsStored
  <2>1. \A t \in Threads : at[t] # "boot"
    BY ThreadAssumption, HolderAssumption DEF Threads, IInv, HeldBy, Starting, Quiet
  <2>2. ~Pending
    BY DEF Quiet, Pending
  <2>3. writer = None
    BY DEF IInv, TypeOK, Order, Quiet
  <2> QED
    BY <2>1, <2>2, <2>3 DEF IInv, Follows
<1> QED
  BY <1>1, Inductive, PTL

-----------------------------------------------------------------------------
(* Sequences, by the smallest number that is left out. *)

\* A set of numbers with 0 and with every successor has all numbers.
LEMMA AllNumbers ==
  ASSUME NEW T, 0 \in T, \A n \in Nat : n \in T => n + 1 \in T
  PROVE  Nat \subseteq T
<1> DEFINE Rest == Nat \ T
<1>1. CASE Rest = {}
  BY <1>1
<1>2. CASE Rest # {}
  <2>1. PICK n \in Rest : \A m \in Rest : ~ <<m, n>> \in OpToRel(<, Nat)
    <3>1. Rest \subseteq Nat
      OBVIOUS
    <3> HIDE DEF Rest
    <3> QED BY <1>2, <3>1, NatLessThanWellFounded, WFMin
  <2>2. n \in Nat /\ n # 0 /\ n - 1 \in Nat
    OBVIOUS
  <2>3. <<n - 1, n>> \in OpToRel(<, Nat)
    BY <2>2 DEF OpToRel
  <2>4. n - 1 \in T
    BY <2>1, <2>2, <2>3
  <2> QED BY <2>2, <2>4
<1> QED BY <1>1, <1>2

\* Likewise a set of sequences with the empty one and with every longer one.
LEMMA AllSequences ==
  ASSUME NEW S, NEW T, <<>> \in T, \A s \in Seq(S), x \in S : s \in T => Append(s, x) \in T
  PROVE  Seq(S) \subseteq T
<1> DEFINE N == {n \in Nat : \A s \in Seq(S) : Len(s) = n => s \in T}
<1>1. 0 \in N
  BY \A s \in Seq(S) : Len(s) = 0 => s = <<>>
<1>2. ASSUME NEW n \in Nat, n \in N PROVE n + 1 \in N
  <2> SUFFICES ASSUME NEW s \in Seq(S), Len(s) = n + 1 PROVE s \in T
    OBVIOUS
  <2> DEFINE u == SubSeq(s, 1, n)
  <2>1. u \in Seq(S) /\ Len(u) = n /\ s[n + 1] \in S
    OBVIOUS
  <2>2. s = Append(u, s[n + 1])
    <3>1. Append(u, s[n + 1]) \in Seq(S) /\ Len(Append(u, s[n + 1])) = n + 1
      BY <2>1
    <3>2. \A i \in 1..(n + 1) : Append(u, s[n + 1])[i] = s[i]
      BY <2>1
    <3> QED BY <3>1, <3>2
  <2>3. u \in T
    BY <1>2, <2>1
  <2> HIDE DEF u
  <2> QED BY <2>1, <2>2, <2>3
<1>3. Nat \subseteq N
  <2> HIDE DEF N
  <2> QED BY <1>1, <1>2, AllNumbers
<1> QED BY <1>3

-----------------------------------------------------------------------------
(* What Without leaves. *)

\* The function it goes along the sequence with.
Leaves(left, s, gone) ==
  left = [i \in 0..Len(s) |-> IF i = 0 THEN <<>>
                              ELSE IF s[i] \in gone THEN left[i - 1] ELSE Append(left[i - 1], s[i])]

\* One more entry, one more value.
LEMMA LeavesNext ==
  ASSUME NEW S, NEW s \in Seq(S), NEW x \in S, NEW gone, NEW left, Leaves(left, s, gone)
  PROVE  \E more : /\ Leaves(more, Append(s, x), gone)
                   /\ more[Len(s) + 1] = IF x \in gone THEN left[Len(s)] ELSE Append(left[Len(s)], x)
<1> DEFINE n == Len(s)
           u == Append(s, x)
           last == IF x \in gone THEN left[n] ELSE Append(left[n], x)
           more == [i \in 0..(n + 1) |-> IF i = n + 1 THEN last ELSE left[i]]
<1>1. /\ n \in Nat /\ Len(u) = n + 1 /\ u[n + 1] = x
      /\ \A i \in 1..n : u[i] = s[i]
  OBVIOUS
<1> HIDE DEF u
<1>2. \A i \in 0..n : left[i] = IF i = 0 THEN <<>>
                                ELSE IF s[i] \in gone THEN left[i - 1] ELSE Append(left[i - 1], s[i])
  BY DEF Leaves
<1> HIDE DEF n
<1>3. more[n + 1] = last /\ \A i \in 0..n : more[i] = left[i]
  BY <1>1
<1>4. \A i \in 0..(n + 1) :
        more[i] = IF i = 0 THEN <<>>
                  ELSE IF u[i] \in gone THEN more[i - 1] ELSE Append(more[i - 1], u[i])
  <2> SUFFICES ASSUME NEW i \in 0..(n + 1)
               PROVE  more[i] = IF i = 0 THEN <<>>
                                ELSE IF u[i] \in gone THEN more[i - 1] ELSE Append(more[i - 1], u[i])
    OBVIOUS
  <2>1. CASE i = 0
    BY <1>1, <1>2, <1>3, <2>1
  <2>2. CASE i \in 1..n
    <3>1. i - 1 \in 0..n
      BY <1>1, <2>2
    <3> HIDE DEF more
    <3> QED BY <1>1, <1>2, <1>3, <2>2, <3>1
  <2>3. CASE i = n + 1
    <3>1. n \in 0..n /\ i - 1 = n
      BY <1>1, <2>3
    <3> HIDE DEF more
    <3> QED BY <1>1, <1>3, <2>3, <3>1
  <2> QED BY <1>1, <2>1, <2>2, <2>3
<1>5. Leaves(more, u, gone)
  BY <1>1, <1>4 DEF Leaves
<1> QED BY <1>3, <1>5 DEF n, u

\* So every sequence has one.
LEMMA LeavesSome ==
  ASSUME NEW S, NEW gone
  PROVE  \A s \in Seq(S) : \E left : Leaves(left, s, gone)
<1> DEFINE T == {s \in Seq(S) : \E left : Leaves(left, s, gone)}
<1>1. <<>> \in T
  <2>1. Leaves([i \in 0..0 |-> <<>>], <<>>, gone)
    BY DEF Leaves
  <2> QED BY <2>1
<1>2. \A s \in Seq(S), x \in S : s \in T => Append(s, x) \in T
  BY LeavesNext
<1> HIDE DEF T
<1>3. Seq(S) \subseteq T
  BY <1>1, <1>2, AllSequences
<1> QED BY <1>3 DEF T

\* Two such functions agree.
LEMMA LeavesOne ==
  ASSUME NEW S, NEW s \in Seq(S), NEW gone, NEW f, NEW g, Leaves(f, s, gone), Leaves(g, s, gone)
  PROVE  f[Len(s)] = g[Len(s)]
<1> DEFINE T == {n \in Nat : n \in 0..Len(s) => f[n] = g[n]}
<1>1. 0 \in T
  BY DEF Leaves
<1>2. ASSUME NEW n \in Nat, n \in T PROVE n + 1 \in T
  <2> SUFFICES ASSUME n + 1 \in 0..Len(s) PROVE f[n + 1] = g[n + 1]
    OBVIOUS
  <2>1. f[n] = g[n] /\ n + 1 # 0 /\ (n + 1) - 1 = n
    BY <1>2
  <2>2. /\ f[n + 1] = IF s[n + 1] \in gone THEN f[n] ELSE Append(f[n], s[n + 1])
        /\ g[n + 1] = IF s[n + 1] \in gone THEN g[n] ELSE Append(g[n], s[n + 1])
    BY <2>1 DEF Leaves
  <2> QED BY <2>1, <2>2
<1> HIDE DEF T
<1>3. Nat \subseteq T
  BY <1>1, <1>2, AllNumbers
<1> QED BY <1>3 DEF T

\* Without, without its local function.
LEMMA WithoutLeaves ==
  ASSUME NEW S, NEW s \in Seq(S), NEW gone
  PROVE  \E left : Leaves(left, s, gone) /\ Cache!Without(s, gone) = left[Len(s)]
<1> DEFINE left == CHOOSE f : Leaves(f, s, gone)
<1>1. \E f : Leaves(f, s, gone)
  BY LeavesSome
<1>2. Leaves(left, s, gone)
  BY <1>1, Zenon
<1>3. Cache!Without(s, gone) = left[Len(s)]
  BY DEF Cache!Without, Leaves
<1> QED BY <1>2, <1>3

\* The empty sequence has nothing left.
LEMMA WithoutNone == \A gone : Cache!Without(<<>>, gone) = <<>>
<1> SUFFICES ASSUME NEW gone PROVE Cache!Without(<<>>, gone) = <<>>
  OBVIOUS
<1>1. PICK left : Leaves(left, <<>>, gone) /\ Cache!Without(<<>>, gone) = left[Len(<<>>)]
  <2>1. <<>> \in Seq({})
    OBVIOUS
  <2> QED BY <2>1, WithoutLeaves, Zenon
<1> QED BY <1>1 DEF Leaves

\* A longer sequence has its last entry left, unless that goes.
LEMMA WithoutAppend ==
  ASSUME NEW S, NEW s \in Seq(S), NEW x \in S, NEW gone
  PROVE  Cache!Without(Append(s, x), gone)
           = IF x \in gone THEN Cache!Without(s, gone) ELSE Append(Cache!Without(s, gone), x)
<1> DEFINE u == Append(s, x)
<1>1. u \in Seq(S) /\ Len(u) = Len(s) + 1
  OBVIOUS
<1>2. PICK left : Leaves(left, s, gone) /\ Cache!Without(s, gone) = left[Len(s)]
  BY WithoutLeaves
<1>3. PICK more : /\ Leaves(more, u, gone)
                  /\ more[Len(s) + 1] = IF x \in gone THEN left[Len(s)] ELSE Append(left[Len(s)], x)
  BY <1>2, LeavesNext
<1> HIDE DEF u
<1>4. PICK f : Leaves(f, u, gone) /\ Cache!Without(u, gone) = f[Len(u)]
  BY <1>1, WithoutLeaves
<1>5. f[Len(u)] = more[Len(u)]
  BY <1>1, <1>3, <1>4, LeavesOne
<1> QED BY <1>1, <1>2, <1>3, <1>4, <1>5 DEF u

\* What is left is a sequence of the same kind, of the entries that stay.
LEMMA WithoutKeeps ==
  ASSUME NEW S, NEW gone
  PROVE  \A s \in Seq(S) : /\ Cache!Without(s, gone) \in Seq(S)
                           /\ \A x : (\E i \in 1..Len(Cache!Without(s, gone)) : Cache!Without(s, gone)[i] = x)
                                       <=> x \notin gone /\ \E i \in 1..Len(s) : s[i] = x
<1> DEFINE Has(s, x) == \E i \in 1..Len(s) : s[i] = x
           W(s) == Cache!Without(s, gone)
           T == {s \in Seq(S) : W(s) \in Seq(S) /\ \A x : Has(W(s), x) <=> x \notin gone /\ Has(s, x)}
<1>1. <<>> \in T
  <2>1. W(<<>>) = <<>> /\ <<>> \in Seq(S)
    BY WithoutNone
  <2>2. \A x : ~ Has(<<>>, x)
    OBVIOUS
  <2> HIDE DEF Has, W
  <2> QED BY <2>1, <2>2
<1>2. ASSUME NEW s \in Seq(S), NEW x \in S, s \in T PROVE Append(s, x) \in T
  <2>0. ASSUME NEW u \in Seq(S), NEW y PROVE Has(Append(u, x), y) <=> y = x \/ Has(u, y)
    <3>1. /\ Len(Append(u, x)) = Len(u) + 1 /\ Append(u, x)[Len(u) + 1] = x
          /\ \A i \in 1..Len(u) : Append(u, x)[i] = u[i]
          /\ Len(u) \in Nat
      OBVIOUS
    <3> QED BY <3>1
  <2>1. W(Append(s, x)) = IF x \in gone THEN W(s) ELSE Append(W(s), x)
    BY WithoutAppend
  <2>2. W(s) \in Seq(S) /\ \A y : Has(W(s), y) <=> y \notin gone /\ Has(s, y)
    BY <1>2
  <2>3. Append(s, x) \in Seq(S)
    OBVIOUS
  <2> HIDE DEF Has, W
  <2>4. W(Append(s, x)) \in Seq(S)
    BY <2>1, <2>2
  <2>5. \A y : Has(W(Append(s, x)), y) <=> y \notin gone /\ Has(Append(s, x), y)
    BY <2>0, <2>1, <2>2
  <2> QED BY <2>3, <2>4, <2>5
<1> HIDE DEF T
<1>3. Seq(S) \subseteq T
  BY <1>1, <1>2, AllSequences
<1> QED BY <1>3 DEF T

\* What goes the first time need not be there the second.
LEMMA WithoutTwice ==
  ASSUME NEW S, NEW gone, NEW more, gone \subseteq more
  PROVE  \A s \in Seq(S) : Cache!Without(Cache!Without(s, gone), more) = Cache!Without(s, more)
<1> DEFINE T == {s \in Seq(S) : Cache!Without(Cache!Without(s, gone), more) = Cache!Without(s, more)}
<1>1. <<>> \in T
  BY WithoutNone
<1>2. ASSUME NEW s \in Seq(S), NEW x \in S, s \in T PROVE Append(s, x) \in T
  <2>1. Cache!Without(s, gone) \in Seq(S)
    BY WithoutKeeps
  <2>2. /\ Cache!Without(Append(s, x), gone)
             = IF x \in gone THEN Cache!Without(s, gone) ELSE Append(Cache!Without(s, gone), x)
        /\ Cache!Without(Append(s, x), more)
             = IF x \in more THEN Cache!Without(s, more) ELSE Append(Cache!Without(s, more), x)
        /\ Cache!Without(Append(Cache!Without(s, gone), x), more)
             = IF x \in more THEN Cache!Without(Cache!Without(s, gone), more)
               ELSE Append(Cache!Without(Cache!Without(s, gone), more), x)
    BY <2>1, WithoutAppend
  <2>3. Cache!Without(Cache!Without(s, gone), more) = Cache!Without(s, more)
    BY <1>2
  <2>4. Append(s, x) \in Seq(S)
    OBVIOUS
  <2> QED BY <2>2, <2>3, <2>4
<1> HIDE DEF T
<1>3. Seq(S) \subseteq T
  BY <1>1, <1>2, AllSequences
<1> QED BY <1>3 DEF T

\* Sequences that have the same left still do when more goes.
LEMMA WithoutMore ==
  ASSUME NEW S, NEW s \in Seq(S), NEW u \in Seq(S), NEW gone, NEW more, gone \subseteq more,
         Cache!Without(s, gone) = Cache!Without(u, gone)
  PROVE  Cache!Without(s, more) = Cache!Without(u, more)
<1>1. /\ Cache!Without(Cache!Without(s, gone), more) = Cache!Without(s, more)
      /\ Cache!Without(Cache!Without(u, gone), more) = Cache!Without(u, more)
  BY WithoutTwice
<1> QED BY <1>1

\* A sequence is the function it is.
LEMMA Spelt == \A S : \A s \in Seq(S) : s = [j \in 1..Len(s) |-> s[j]]
OBVIOUS

\* A sequence from which the append of a search has taken its entry i.
Cut(s, i) == [j \in 1..(Len(s) - 1) |-> IF j >= i THEN s[j + 1] ELSE s[j]]

\* An entry that goes may as well be cut out.
LEMMA WithoutCut ==
  ASSUME NEW S, NEW gone
  PROVE  \A s \in Seq(S) : \A i \in 1..Len(s) :
           s[i] \in gone => /\ Cut(s, i) \in Seq(S)
                            /\ Cache!Without(Cut(s, i), gone) = Cache!Without(s, gone)
<1> DEFINE T == {s \in Seq(S) : \A i \in 1..Len(s) :
                   s[i] \in gone => /\ Cut(s, i) \in Seq(S)
                                    /\ Cache!Without(Cut(s, i), gone) = Cache!Without(s, gone)}
<1>1. <<>> \in T
  OBVIOUS
<1>2. ASSUME NEW s \in Seq(S), NEW x \in S, s \in T PROVE Append(s, x) \in T
  <2> DEFINE u == Append(s, x)
  <2>1. /\ u \in Seq(S) /\ Len(u) = Len(s) + 1 /\ u[Len(s) + 1] = x /\ Len(s) \in Nat
        /\ \A j \in 1..Len(s) : u[j] = s[j]
    OBVIOUS
  <2> SUFFICES ASSUME NEW i \in 1..Len(u), u[i] \in gone
               PROVE  Cut(u, i) \in Seq(S) /\ Cache!Without(Cut(u, i), gone) = Cache!Without(u, gone)
    BY <2>1
  <2>2. Cache!Without(u, gone)
          = IF x \in gone THEN Cache!Without(s, gone) ELSE Append(Cache!Without(s, gone), x)
    BY WithoutAppend
  <2> HIDE DEF u
  <2>3. CASE i = Len(s) + 1
    <3>1. Cut(u, i) = s
      <4>1. \A j \in 1..Len(s) : Cut(u, i)[j] = s[j]
        BY <2>1, <2>3 DEF Cut
      <4>2. Cut(u, i) = [j \in 1..Len(s) |-> s[j]]
        BY <2>1, <2>3 DEF Cut
      <4> QED BY <4>2
    <3> QED BY <2>1, <2>2, <2>3, <3>1
  <2>4. CASE i \in 1..Len(s)
    <3>1. Cut(s, i) \in Seq(S) /\ Cache!Without(Cut(s, i), gone) = Cache!Without(s, gone)
      BY <1>2, <2>1, <2>4
    <3>2. Len(Cut(s, i)) = Len(s) - 1
      <4>1. Len(s) - 1 \in Nat
        BY <2>1, <2>4
      <4> QED BY <4>1 DEF Cut
    <3>3. Cut(u, i) = Append(Cut(s, i), x)
      <4>1. Append(Cut(s, i), x) \in Seq(S) /\ Len(Append(Cut(s, i), x)) = Len(s)
        BY <2>1, <2>4, <3>1, <3>2
      <4>2. ASSUME NEW j \in 1..Len(s) PROVE Append(Cut(s, i), x)[j] = Cut(u, i)[j]
        <5>1. CASE j = Len(s)
          <6>1. Append(Cut(s, i), x)[j] = x
            BY <2>1, <3>1, <3>2, <5>1
          <6>2. Cut(u, i)[j] = x
            BY <2>1, <2>4, <5>1 DEF Cut
          <6> QED BY <6>1, <6>2
        <5>2. CASE j # Len(s)
          <6>1. j \in 1..(Len(s) - 1)
            BY <2>1, <5>2
          <6>2. Append(Cut(s, i), x)[j] = Cut(s, i)[j]
            BY <3>1, <3>2, <6>1
          <6>3. Cut(s, i)[j] = Cut(u, i)[j]
            BY <2>1, <6>1 DEF Cut
          <6> QED BY <6>2, <6>3
        <5> QED BY <5>1, <5>2
      <4>3. Cut(u, i) = [j \in 1..Len(s) |-> Cut(u, i)[j]]
        BY <2>1 DEF Cut
      <4>4. Append(Cut(s, i), x) = [j \in 1..Len(s) |-> Append(Cut(s, i), x)[j]]
        BY <4>1, Spelt, Zenon
      <4>5. [j \in 1..Len(s) |-> Append(Cut(s, i), x)[j]] = [j \in 1..Len(s) |-> Cut(u, i)[j]]
        <5> DEFINE p == Append(Cut(s, i), x)
                   q == Cut(u, i)
        <5>1. \A j \in 1..Len(s) : p[j] = q[j]
          BY <4>2
        <5> HIDE DEF p, q
        <5>2. [j \in 1..Len(s) |-> p[j]] = [j \in 1..Len(s) |-> q[j]]
          BY <5>1
        <5> QED BY <5>2 DEF p, q
      <4> QED BY <4>3, <4>4, <4>5, Zenon
    <3>4. Cache!Without(Append(Cut(s, i), x), gone)
            = IF x \in gone THEN Cache!Without(Cut(s, i), gone)
              ELSE Append(Cache!Without(Cut(s, i), gone), x)
      BY <3>1, WithoutAppend
    <3>5. Append(Cut(s, i), x) \in Seq(S)
      BY <3>1
    <3> QED BY <2>2, <3>1, <3>3, <3>4, <3>5
  <2> QED BY <2>1, <2>3, <2>4
<1> HIDE DEF T
<1>3. Seq(S) \subseteq T
  BY <1>1, <1>2, AllSequences
<1> QED BY <1>3 DEF T

-----------------------------------------------------------------------------
(* TokenCache (Cache), for any number of searches, loads and tokens. *)

\* What a search knows: the array it ranges over, and what it is about to assign.
ReqRow == [phase : {"idle", "range", "shorten"}, token : Tokens \union {None},
           array : Nat, len : Nat, index : Nat \ {0},
           head : Nat, from : Nat, rest : Nat, cleaned : BOOLEAN]
RowFits(row) ==
  /\ row.array \in DOMAIN arrays /\ row.len <= Len(arrays[row.array])
  /\ row.head \in DOMAIN slices
  /\ row.from \in DOMAIN arrays /\ row.rest <= Len(arrays[row.from])
ReqTypes == req \in [Searchers -> ReqRow] /\ \A r \in Searchers : RowFits(req[r])

\* The slices that were loaded; the last one is the one of now.
SliceTypes ==
  /\ arrays \in Seq(Seq(Tokens)) /\ slices \in Seq([array : Nat, len : Nat])
  /\ Len(slices) = Len(arrays) /\ tokens = Len(slices) /\ tokens # 0
  /\ \A n \in DOMAIN slices : /\ slices[n].array \in DOMAIN arrays
                              /\ slices[n].len <= Len(arrays[slices[n].array])

TableTypes ==
  /\ table \in Seq(Tokens) /\ loaded \in Seq(Tokens) /\ fetched \in [Admins -> Seq(Tokens)]
  /\ admin \in [Admins -> {"idle", "changed", "loaded"}]
  /\ expired \subseteq Tokens /\ mixed \subseteq Searchers /\ passed \subseteq Admins
  /\ harmed \in BOOLEAN /\ stale \in BOOLEAN

\* A search that has moved the entries of the slice of now, and has still to shorten it.
AtHead(r) == req[r].phase = "shorten" /\ req[r].head = tokens

\* The slice of now has what was loaded, or will when a search has shortened it.
Own ==
  ~ harmed =>
    /\ slices[tokens].array = tokens
    /\ (\A r \in Searchers : ~ AtHead(r)) => Cache!Live(Cache!Cached) = Cache!Live(loaded)
    /\ \A r \in Searchers : AtHead(r) =>
         /\ req[r].from = tokens
         /\ Cache!Live(SubSeq(arrays[tokens], 1, req[r].rest)) = Cache!Live(loaded)
         /\ \A q \in Searchers : AtHead(q) => q = r

\* A search that is not mixed is alone with the slice of now, and knows what it has seen.
Knows(row) ==
  /\ row.array = tokens
  /\ row.phase = "shorten" => row.cleaned
  /\ ~ row.cleaned => /\ row.len = slices[tokens].len
                      /\ \A j \in 1..row.len : j < row.index => arrays[tokens][j] # row.token
Alone ==
  /\ \A r, q \in Searchers : req[r].phase = "shorten" /\ q # r /\ req[q].phase # "idle" => q \in mixed
  /\ \A r \in Searchers : req[r].phase # "idle" /\ r \notin mixed /\ ~ harmed => Knows(req[r])

\* What a handler has read is what the table holds, unless a change has passed it; and what is
\* loaded is, unless a handler has still to load or the slice is stale.
Fresh ==
  /\ \A x \in Admins :
       admin[x] = "loaded" /\ x \notin passed => Cache!Live(fetched[x]) = Cache!Live(table)
  /\ ~ stale => Cache!Live(loaded) = Cache!Live(table) \/ \E x \in Admins : admin[x] # "idle"

CacheInv == ReqTypes /\ SliceTypes /\ TableTypes /\ Own /\ Alone /\ Fresh

-----------------------------------------------------------------------------
(* The invariant at the start, and under each action. *)

\* The first entries of a sequence.
LEMMA Firsts ==
  ASSUME NEW S, NEW s \in Seq(S), NEW n \in Nat, n <= Len(s)
  PROVE  /\ SubSeq(s, 1, n) \in Seq(S) /\ Len(SubSeq(s, 1, n)) = n
         /\ \A j \in 1..n : SubSeq(s, 1, n)[j] = s[j]
OBVIOUS

\* The entries of a sequence.
LEMMA EntryOf == \A S : \A s \in Seq(S) : DOMAIN s = 1..Len(s) /\ \A n \in 1..Len(s) : s[n] \in S
OBVIOUS

\* Facts of the slice of now.
LEMMA SliceNow ==
  ASSUME SliceTypes
  PROVE  /\ tokens \in DOMAIN slices /\ tokens \in DOMAIN arrays /\ tokens \in Nat
         /\ slices[tokens] \in [array : Nat, len : Nat]
         /\ slices[tokens].array \in DOMAIN arrays
         /\ slices[tokens].len <= Len(arrays[slices[tokens].array])
         /\ \A n \in DOMAIN arrays : arrays[n] \in Seq(Tokens)
         /\ Cache!Cached \in Seq(Tokens) /\ Len(Cache!Cached) = slices[tokens].len
         /\ \A j \in 1..slices[tokens].len : Cache!Cached[j] = arrays[slices[tokens].array][j]
<1>1. /\ tokens \in DOMAIN slices /\ tokens \in DOMAIN arrays /\ tokens \in Nat
      /\ \A n \in DOMAIN arrays : arrays[n] \in Seq(Tokens)
      /\ slices[tokens] \in [array : Nat, len : Nat]
  <2>1. arrays \in Seq(Seq(Tokens)) /\ slices \in Seq([array : Nat, len : Nat])
        /\ Len(slices) = Len(arrays) /\ tokens = Len(slices) /\ tokens # 0
    BY DEF SliceTypes
  <2>2. tokens \in DOMAIN slices /\ tokens \in DOMAIN arrays /\ tokens \in Nat
    BY <2>1
  <2>3. \A n \in DOMAIN arrays : arrays[n] \in Seq(Tokens)
    BY <2>1, EntryOf, Zenon
  <2>4. slices[tokens] \in [array : Nat, len : Nat]
    BY <2>1, <2>2, EntryOf, Zenon
  <2> QED BY <2>2, <2>3, <2>4
<1>2. /\ slices[tokens].array \in DOMAIN arrays
      /\ slices[tokens].len <= Len(arrays[slices[tokens].array])
  BY <1>1 DEF SliceTypes
<1>3. slices[tokens].len \in Nat
  BY <1>1
<1>4. arrays[slices[tokens].array] \in Seq(Tokens)
  BY <1>1, <1>2
<1> QED BY <1>1, <1>2, <1>3, <1>4, Firsts DEF Cache!Cached

\* The table that the server finds is in the first slice.
LEMMA InitCache == Cache!Init => CacheInv
<1> SUFFICES ASSUME Cache!Init PROVE CacheInv
  OBVIOUS
<1>1. PICK n \in 0..Cache!Cardinality(Tokens) : \E s \in [1..n -> Tokens] :
        table = s /\ arrays = <<s>> /\ slices = <<[array |-> 1, len |-> Len(s)]>> /\ loaded = s
  BY DEF Cache!Init
<1>2. PICK s \in [1..n -> Tokens] :
        table = s /\ arrays = <<s>> /\ slices = <<[array |-> 1, len |-> Len(s)]>> /\ loaded = s
  BY <1>1
<1>3. s \in Seq(Tokens)
  <2>1. Cache!Cardinality(Tokens) \in Nat
    BY TokenAssumption DEF Cache!LastingAssumption
  <2> QED BY <2>1
<1>4. SliceTypes
  <2>1. <<s>> \in Seq(Seq(Tokens)) /\ Len(<<s>>) = 1 /\ DOMAIN <<s>> = {1} /\ <<s>>[1] = s
    BY <1>3
  <2>2. [array |-> 1, len |-> Len(s)] \in [array : Nat, len : Nat]
    BY <1>3
  <2>3. slices \in Seq([array : Nat, len : Nat]) /\ Len(slices) = 1 /\ DOMAIN slices = {1}
    BY <1>2, <2>2
  <2>4. slices[1].array = 1 /\ slices[1].len = Len(s)
    BY <1>2
  <2>5. tokens = 1
    BY DEF Cache!Init
  <2> QED BY <1>2, <1>3, <2>1, <2>3, <2>4, <2>5 DEF SliceTypes
<1>5. ReqTypes
  <2>1. Cache!Idle \in ReqRow
    BY DEF ReqRow, Cache!Idle
  <2>2. RowFits(Cache!Idle)
    BY <1>2, <1>3, <1>4 DEF RowFits, Cache!Idle, SliceTypes
  <2> QED BY <2>1, <2>2 DEF Cache!Init, ReqTypes
<1>6. TableTypes
  <2>1. table \in Seq(Tokens) /\ loaded \in Seq(Tokens)
    BY <1>2, <1>3
  <2>2. fetched \in [Admins -> Seq(Tokens)]
    BY DEF Cache!Init
  <2> QED BY <2>1, <2>2 DEF Cache!Init, TableTypes
<1>7. Cache!Cached = loaded
  BY <1>2, <1>3 DEF Cache!Init, Cache!Cached
<1>8. Own
  BY <1>2, <1>7 DEF Cache!Init, Own, AtHead, Cache!Idle
<1>9. Alone
  BY DEF Cache!Init, Alone, Cache!Idle
<1>10. Fresh
  BY <1>2 DEF Cache!Init, Fresh
<1> QED BY <1>4, <1>5, <1>6, <1>8, <1>9, <1>10 DEF CacheInv

\* A token expires.
LEMMA ExpireCache ==
  ASSUME CacheInv, NEW t \in Tokens, Cache!Expire(t)
  PROVE  CacheInv'
<1>1. /\ expired' = expired \union {t}
      /\ UNCHANGED <<table, arrays, slices, tokens, loaded, req, admin, fetched, passed, stale, mixed,
                     harmed, requests>>
  BY DEF Cache!Expire, Cache!cache, Cache!admins
<1>2. ASSUME NEW s \in Seq(Tokens), NEW u \in Seq(Tokens), Cache!Live(s) = Cache!Live(u)
      PROVE  Cache!Without(s, expired') = Cache!Without(u, expired')
  <2>1. expired \subseteq expired'
    BY <1>1
  <2>2. Cache!Without(s, expired) = Cache!Without(u, expired)
    BY <1>2 DEF Cache!Live
  <2> QED BY <2>1, <2>2, WithoutMore
<1>3. ReqTypes' /\ SliceTypes'
  BY <1>1 DEF CacheInv, ReqTypes, RowFits, SliceTypes
<1>4. TableTypes'
  BY <1>1 DEF CacheInv, TableTypes
<1>5. Own'
  <2> SUFFICES ASSUME ~ harmed PROVE Own'
    BY <1>1 DEF Own
  <2>1. slices'[tokens'].array = tokens'
    BY <1>1 DEF CacheInv, Own
  <2>2. (\A r \in Searchers : ~ AtHead(r)) =>
          Cache!Without(Cache!Cached, expired') = Cache!Without(loaded, expired')
    BY <1>2, SliceNow DEF CacheInv, Own, TableTypes
  <2>3. ASSUME NEW r \in Searchers, AtHead(r)
        PROVE  /\ req[r].from = tokens
               /\ Cache!Without(SubSeq(arrays[tokens], 1, req[r].rest), expired')
                    = Cache!Without(loaded, expired')
               /\ \A q \in Searchers : AtHead(q) => q = r
    <3>1. /\ req[r].from = tokens
          /\ Cache!Live(SubSeq(arrays[tokens], 1, req[r].rest)) = Cache!Live(loaded)
          /\ \A q \in Searchers : AtHead(q) => q = r
      BY <2>3 DEF CacheInv, Own
    <3>2. SubSeq(arrays[tokens], 1, req[r].rest) \in Seq(Tokens)
      <4>1. req[r].rest \in Nat /\ req[r].rest <= Len(arrays[tokens]) /\ arrays[tokens] \in Seq(Tokens)
        BY <3>1, SliceNow DEF CacheInv, ReqTypes, RowFits, ReqRow
      <4> QED BY <4>1, Firsts
    <3>3. loaded \in Seq(Tokens)
      BY DEF CacheInv, TableTypes
    <3> QED BY <1>2, <3>1, <3>2, <3>3
  <2>4. \A r \in Searchers : AtHead(r)' = AtHead(r)
    BY <1>1 DEF AtHead
  <2>5. Cache!Cached' = Cache!Cached
    BY <1>1 DEF Cache!Cached
  <2> QED BY <1>1, <2>1, <2>2, <2>3, <2>4, <2>5 DEF Own, Cache!Live
<1>6. Alone'
  BY <1>1 DEF CacheInv, Alone, Knows
<1>7. Fresh'
  <2>1. ASSUME NEW x \in Admins, admin[x] = "loaded", x \notin passed
        PROVE  Cache!Without(fetched[x], expired') = Cache!Without(table, expired')
    BY <1>2, <2>1 DEF CacheInv, Fresh, TableTypes
  <2>2. ~ stale => \/ Cache!Without(loaded, expired') = Cache!Without(table, expired')
                   \/ \E x \in Admins : admin[x] # "idle"
    BY <1>2 DEF CacheInv, Fresh, TableTypes
  <2> QED BY <1>1, <2>1, <2>2 DEF Fresh, Cache!Live
<1> QED BY <1>3, <1>4, <1>5, <1>6, <1>7 DEF CacheInv

\* A step of a search that leaves the slices alone: what it may make of itself.
LEMMA SearchGoesOn ==
  ASSUME CacheInv, NEW r \in Searchers, NEW row \in ReqRow, RowFits(row),
         req[r].phase # "shorten", row.phase # "shorten", req' = [req EXCEPT ![r] = row],
         mixed' \subseteq Searchers, \A q \in Searchers \ {r} : q \in mixed' <=> q \in mixed,
         row.phase # "idle" =>
           /\ (\E q \in Searchers \ {r} : req[q].phase = "shorten") => r \in mixed'
           /\ r \notin mixed' /\ ~ harmed => Knows(row),
         UNCHANGED <<table, expired, arrays, slices, tokens, loaded, admin, fetched, passed, stale,
                     harmed>>
  PROVE  CacheInv'
<1>0. /\ \A q \in Searchers \ {r} : req'[q] = req[q]
      /\ req'[r] = row
  BY DEF CacheInv, ReqTypes
<1>1. ReqTypes'
  BY <1>0 DEF CacheInv, ReqTypes, RowFits
<1>2. SliceTypes' /\ TableTypes'
  BY DEF CacheInv, SliceTypes, TableTypes
<1>3. Own'
  <2>1. \A q \in Searchers : AtHead(q)' = AtHead(q) /\ (AtHead(q) => q # r)
    BY <1>0 DEF AtHead
  <2>2. Cache!Cached' = Cache!Cached /\ Cache!Live(loaded)' = Cache!Live(loaded)
        /\ Cache!Live(Cache!Cached)' = Cache!Live(Cache!Cached)
    BY DEF Cache!Cached, Cache!Live
  <2>3. ASSUME ~ harmed, NEW q \in Searchers, AtHead(q)
        PROVE  /\ req'[q].from = tokens
               /\ Cache!Live(SubSeq(arrays[tokens], 1, req[q].rest))'
                    = Cache!Live(SubSeq(arrays[tokens], 1, req[q].rest))
    BY <1>0, <2>1, <2>3 DEF Cache!Live, CacheInv, Own
  <2> QED BY <2>1, <2>2, <2>3 DEF CacheInv, Own
<1>4. Alone'
  <2>1. ASSUME NEW p \in Searchers, NEW q \in Searchers,
               req'[p].phase = "shorten", q # p, req'[q].phase # "idle"
        PROVE  q \in mixed'
    BY <1>0, <2>1 DEF CacheInv, Alone
  <2>2. ASSUME NEW q \in Searchers, req'[q].phase # "idle", q \notin mixed', ~ harmed'
        PROVE  Knows(req[q])'
    <3>1. CASE q = r
      BY <1>0, <2>2, <3>1 DEF Knows
    <3>2. CASE q # r
      BY <1>0, <2>2, <3>2 DEF CacheInv, Alone, Knows
    <3> QED BY <3>1, <3>2
  <2> QED BY <2>1, <2>2 DEF Alone
<1>5. Fresh'
  BY DEF CacheInv, Fresh, Cache!Live
<1> QED BY <1>1, <1>2, <1>3, <1>4, <1>5 DEF CacheInv

\* A search begins.
LEMMA BeginCache ==
  ASSUME CacheInv, NEW r \in Searchers, NEW t \in Tokens, Cache!Begin(r, t)
  PROVE  CacheInv'
<1> DEFINE row == Cache!Search(t)
<1>1. /\ req[r].phase = "idle" /\ req' = [req EXCEPT ![r] = row]
      /\ mixed' = IF Cache!Shortening = {} THEN mixed \ {r} ELSE mixed \union {r}
      /\ UNCHANGED <<table, expired, arrays, slices, tokens, loaded, admin, fetched, passed, stale,
                     harmed>>
  BY DEF Cache!Begin, Cache!store, Cache!cache, Cache!admins
<1>2. row = [Cache!Idle EXCEPT !.phase = "range", !.token = t, !.array = slices[tokens].array,
                               !.len = slices[tokens].len]
  BY DEF Cache!Search
<1> HIDE DEF row
<1>3. /\ row.phase = "range" /\ row.token = t /\ row.array = slices[tokens].array
      /\ row.len = slices[tokens].len /\ row.index = 1 /\ row.head = 1 /\ row.from = 1 /\ row.rest = 0
  BY <1>2 DEF Cache!Idle
<1>4. row \in ReqRow
  <2> DEFINE row1 == [Cache!Idle EXCEPT !.phase = "range"]
             row2 == [row1 EXCEPT !.token = t]
             row3 == [row2 EXCEPT !.array = slices[tokens].array]
             row4 == [row3 EXCEPT !.len = slices[tokens].len]
  <2>0. slices[tokens] \in [array : Nat, len : Nat]
    BY SliceNow DEF CacheInv
  <2>1. row1 \in ReqRow
    <3>1. Cache!Idle \in ReqRow
      BY DEF Cache!Idle, ReqRow
    <3> QED BY <3>1 DEF ReqRow
  <2> HIDE DEF row1
  <2>2. row2 \in ReqRow
    BY <2>1 DEF ReqRow
  <2> HIDE DEF row2
  <2>3. row3 \in ReqRow
    BY <2>0, <2>2 DEF ReqRow
  <2> HIDE DEF row3
  <2>4. row4 \in ReqRow
    BY <2>0, <2>3 DEF ReqRow
  <2>5. row = row4
    BY <1>2 DEF row1, row2, row3
  <2> QED BY <2>4, <2>5
<1>5. RowFits(row)
  BY <1>3, SliceNow DEF RowFits, CacheInv, SliceTypes
<1>6. ~ harmed => Knows(row)
  BY <1>3 DEF Knows, CacheInv, Own
<1>7. (\E q \in Searchers \ {r} : req[q].phase = "shorten") => r \in mixed'
  BY <1>1 DEF Cache!Shortening
<1>8. mixed' \subseteq Searchers /\ \A q \in Searchers \ {r} : q \in mixed' <=> q \in mixed
  BY <1>1 DEF CacheInv, TableTypes
<1> QED BY <1>1, <1>3, <1>4, <1>5, <1>6, <1>7, <1>8, SearchGoesOn

\* It passes an entry.
LEMMA PassCache ==
  ASSUME CacheInv, NEW r \in Searchers, Cache!Pass(r)
  PROVE  CacheInv'
<1> DEFINE row == [req[r] EXCEPT !.index = @ + 1]
<1>1. /\ req[r].phase = "range" /\ req[r].index <= req[r].len /\ Cache!Entry(r) # req[r].token
      /\ req' = [req EXCEPT ![r] = row] /\ mixed' = mixed
      /\ UNCHANGED <<table, expired, arrays, slices, tokens, loaded, admin, fetched, passed, stale,
                     harmed>>
  BY DEF Cache!Pass, Cache!More, Cache!store, Cache!cache, Cache!admins, CacheInv, ReqTypes
<1>2. req[r] \in ReqRow /\ RowFits(req[r])
  BY DEF CacheInv, ReqTypes
<1>3. /\ row \in ReqRow /\ row.index = req[r].index + 1
      /\ row.phase = "range" /\ row.token = req[r].token /\ row.array = req[r].array
      /\ row.len = req[r].len /\ row.head = req[r].head /\ row.from = req[r].from
      /\ row.rest = req[r].rest /\ row.cleaned = req[r].cleaned
  BY <1>1, <1>2 DEF ReqRow
<1> HIDE DEF row
<1>4. RowFits(row)
  BY <1>2, <1>3 DEF RowFits
<1>5. r \notin mixed' /\ ~ harmed => Knows(row)
  <2> SUFFICES ASSUME r \notin mixed, ~ harmed PROVE Knows(row)
    BY <1>1
  <2>1. Knows(req[r])
    BY <1>1 DEF CacheInv, Alone
  <2>2. Cache!Entry(r) = arrays[tokens][req[r].index]
    BY <2>1 DEF Knows, Cache!Entry
  <2>3. req[r].index \in Nat
    BY <1>2 DEF ReqRow
  <2> QED BY <1>1, <1>3, <2>1, <2>2, <2>3 DEF Knows
<1>6. (\E q \in Searchers \ {r} : req[q].phase = "shorten") => r \in mixed'
  BY <1>1 DEF CacheInv, Alone
<1>7. mixed \subseteq Searchers
  BY DEF CacheInv, TableTypes
<1> QED BY <1>1, <1>3, <1>4, <1>5, <1>6, <1>7, SearchGoesOn

\* It finds a name, or gives up.
LEMMA EndCache ==
  ASSUME CacheInv, NEW r \in Searchers, Cache!Found(r) \/ Cache!Refuse(r)
  PROVE  CacheInv'
<1>1. /\ req[r].phase = "range" /\ req' = [req EXCEPT ![r] = Cache!Idle] /\ mixed' = mixed
      /\ UNCHANGED <<table, expired, arrays, slices, tokens, loaded, admin, fetched, passed, stale,
                     harmed>>
  BY DEF Cache!Found, Cache!Refuse, Cache!Unfound, Cache!More, Cache!store, Cache!cache, Cache!admins
<1>2. Cache!Idle \in ReqRow /\ Cache!Idle.phase = "idle"
  BY DEF ReqRow, Cache!Idle
<1>3. RowFits(Cache!Idle)
  BY SliceNow DEF RowFits, Cache!Idle, CacheInv, SliceTypes
<1>4. mixed \subseteq Searchers
  BY DEF CacheInv, TableTypes
<1> QED BY <1>1, <1>2, <1>3, <1>4, SearchGoesOn

\* What a removal makes of the array: below the slice's end, the entries after i move down.
Moved(s, i, n) == [j \in DOMAIN s |-> IF j \in i..(n - 1) THEN s[j + 1] ELSE s[j]]

\* What it leaves below the new end is the slice without entry i.
LEMMA MovedIsCut ==
  ASSUME NEW S, NEW s \in Seq(S), NEW n \in 1..Len(s), NEW i \in 1..n
  PROVE  /\ Moved(s, i, n) \in Seq(S) /\ Len(Moved(s, i, n)) = Len(s)
         /\ SubSeq(Moved(s, i, n), 1, n - 1) = Cut(SubSeq(s, 1, n), i)
<1>1. /\ Len(s) \in Nat /\ n \in Nat /\ n - 1 \in Nat /\ i \in Nat /\ n <= Len(s)
      /\ DOMAIN s = 1..Len(s) /\ \A j \in 1..Len(s) : s[j] \in S
  OBVIOUS
<1>2. Moved(s, i, n) \in Seq(S) /\ Len(Moved(s, i, n)) = Len(s)
  <2>1. \A j \in 1..Len(s) : (IF j \in i..(n - 1) THEN s[j + 1] ELSE s[j]) \in S
    BY <1>1
  <2>2. Moved(s, i, n) \in [1..Len(s) -> S]
    BY <1>1, <2>1 DEF Moved
  <2> QED BY <1>1, <2>2
<1>3. \A j \in 1..(n - 1) : Moved(s, i, n)[j] = IF j >= i THEN s[j + 1] ELSE s[j]
  BY <1>1 DEF Moved
<1> DEFINE p == SubSeq(Moved(s, i, n), 1, n - 1)
           u == SubSeq(s, 1, n)
<1>4. /\ p \in Seq(S) /\ Len(p) = n - 1
      /\ \A j \in 1..(n - 1) : p[j] = Moved(s, i, n)[j]
  BY <1>1, <1>2, Firsts
<1>5. Len(u) = n /\ \A j \in 1..n : u[j] = s[j]
  BY <1>1, Firsts
<1> HIDE DEF p, u
<1>6. p = [j \in 1..(n - 1) |-> p[j]]
  BY <1>4, Spelt, Zenon
<1>7. \A j \in 1..(n - 1) : p[j] = IF j >= i THEN u[j + 1] ELSE u[j]
  BY <1>1, <1>3, <1>4, <1>5
<1>8. [j \in 1..(n - 1) |-> p[j]] = [j \in 1..(n - 1) |-> IF j >= i THEN u[j + 1] ELSE u[j]]
  BY <1>7
<1>9. p = Cut(u, i)
  BY <1>5, <1>6, <1>8 DEF Cut
<1> QED BY <1>2, <1>9 DEF p, u

\* The row of a search that has moved the entries.
Shifted(row, pos, k, n) ==
  [row EXCEPT !.phase = "shorten", !.cleaned = TRUE, !.head = pos, !.from = k, !.rest = n]

Shortens(new, row, pos, k, n) ==
  /\ new \in ReqRow /\ new.array = row.array /\ new.len = row.len
  /\ new.phase = "shorten" /\ new.cleaned /\ new.head = pos /\ new.from = k /\ new.rest = n

\* Shifted does so.
LEMMA ShiftedRow ==
  ASSUME NEW row \in ReqRow, NEW pos \in Nat, NEW k \in Nat, NEW n \in Nat
  PROVE  Shortens(Shifted(row, pos, k, n), row, pos, k, n)
<1> DEFINE row1 == [row EXCEPT !.phase = "shorten"]
           row2 == [row1 EXCEPT !.cleaned = TRUE]
           row3 == [row2 EXCEPT !.head = pos]
           row4 == [row3 EXCEPT !.from = k]
           row5 == [row4 EXCEPT !.rest = n]
<1>1. row1 \in ReqRow /\ row1.phase = "shorten" /\ row1.array = row.array /\ row1.len = row.len
  BY DEF ReqRow
<1> HIDE DEF row1
<1>2. row2 \in ReqRow /\ row2.phase = "shorten" /\ row2.array = row.array /\ row2.len = row.len
  BY <1>1 DEF ReqRow
<1>2a. row2.cleaned
  BY <1>1, Zenon DEF ReqRow
<1> HIDE DEF row2
<1>3. /\ row3 \in ReqRow /\ row3.phase = "shorten" /\ row3.array = row.array /\ row3.len = row.len
      /\ row3.head = pos
  BY <1>2 DEF ReqRow
<1>3a. row3.cleaned
  BY <1>2, <1>2a DEF ReqRow
<1> HIDE DEF row3
<1>4. /\ row4 \in ReqRow /\ row4.phase = "shorten" /\ row4.array = row.array /\ row4.len = row.len
      /\ row4.head = pos /\ row4.from = k
  BY <1>3 DEF ReqRow
<1>4a. row4.cleaned
  BY <1>3, <1>3a DEF ReqRow
<1> HIDE DEF row4
<1>5. /\ row5 \in ReqRow /\ row5.phase = "shorten" /\ row5.array = row.array /\ row5.len = row.len
      /\ row5.head = pos /\ row5.from = k /\ row5.rest = n
  BY <1>4 DEF ReqRow
<1>5a. row5.cleaned
  BY <1>4, <1>4a DEF ReqRow
<1>6. Shifted(row, pos, k, n) = row5
  BY DEF Shifted, row1, row2, row3, row4
<1> QED BY <1>5, <1>5a, <1>6 DEF Shortens

\* A search moves the entries after an expired one down.
LEMMA ShiftCache ==
  ASSUME CacheInv, NEW r \in Searchers, Cache!Shift(r)
  PROVE  CacheInv'
<1> DEFINE k == slices[tokens].array
           n == slices[tokens].len
           i == req[r].index
           row == Shifted(req[r], tokens, k, n - 1)
<1>1. /\ req[r].phase = "range" /\ i <= req[r].len /\ arrays[req[r].array][i] \in expired /\ i <= n
      /\ arrays' = [arrays EXCEPT ![k] = Moved(arrays[k], i, n)]
      /\ harmed' = (harmed \/ r \in mixed)
      /\ mixed' = mixed \union {q \in Searchers \ {r} : req[q].phase # "idle"}
      /\ UNCHANGED <<table, expired, slices, tokens, loaded, admin, fetched, passed, stale>>
  BY DEF Cache!Shift, Cache!More, Cache!Entry, Cache!store, Cache!admins, Moved
<1>2. req' = [req EXCEPT ![r] = row]
  BY DEF Cache!Shift, Shifted
<1>3. /\ SliceTypes /\ ReqTypes /\ TableTypes /\ Own /\ Alone /\ Fresh
      /\ req[r] \in ReqRow /\ RowFits(req[r])
  BY DEF CacheInv, ReqTypes
<1>4. /\ i \in Nat \ {0} /\ n \in Nat /\ n - 1 \in Nat /\ k \in Nat /\ k \in DOMAIN arrays
      /\ tokens \in Nat /\ tokens \in DOMAIN slices /\ tokens \in DOMAIN arrays
      /\ n <= Len(arrays[k]) /\ i \in 1..n
      /\ arrays[k] \in Seq(Tokens) /\ n \in 1..Len(arrays[k])
  <2>1. /\ slices[tokens] \in [array : Nat, len : Nat] /\ k \in DOMAIN arrays /\ n <= Len(arrays[k])
        /\ tokens \in Nat /\ tokens \in DOMAIN slices /\ tokens \in DOMAIN arrays
        /\ \A m \in DOMAIN arrays : arrays[m] \in Seq(Tokens)
    BY <1>3, SliceNow, Zenon
  <2>2. n \in Nat /\ k \in Nat
    BY <2>1
  <2>3. i \in Nat \ {0}
    BY <1>3 DEF ReqRow
  <2>4. arrays[k] \in Seq(Tokens) /\ Len(arrays[k]) \in Nat
    <3> HIDE DEF k
    <3> QED BY <2>1
  <2> HIDE DEF k, n, i
  <2> QED BY <1>1, <2>1, <2>2, <2>3, <2>4
<1>5. /\ row \in ReqRow /\ row.phase = "shorten" /\ row.cleaned /\ row.head = tokens /\ row.from = k
      /\ row.rest = n - 1 /\ row.array = req[r].array /\ row.len = req[r].len
  <2>1. n - 1 \in Nat /\ k \in Nat /\ tokens \in Nat /\ req[r] \in ReqRow
    BY <1>3, <1>4
  <2>2. \A m \in Nat : Shortens(Shifted(req[r], tokens, k, m), req[r], tokens, k, m)
    <3> HIDE DEF k
    <3> QED BY <2>1, ShiftedRow, Zenon
  <2>3. Shortens(row, req[r], tokens, k, n - 1)
    <3> HIDE DEF k, n
    <3> QED BY <2>1, <2>2
  <2> HIDE DEF row, k, n
  <2> QED BY <2>3 DEF Shortens
<1> HIDE DEF row
<1>6. req'[r] = row /\ \A q \in Searchers \ {r} : req'[q] = req[q]
  BY <1>2, <1>3 DEF ReqTypes
<1>7. /\ Moved(arrays[k], i, n) \in Seq(Tokens) /\ Len(Moved(arrays[k], i, n)) = Len(arrays[k])
      /\ SubSeq(Moved(arrays[k], i, n), 1, n - 1) = Cut(SubSeq(arrays[k], 1, n), i)
  BY <1>4, MovedIsCut
<1>8. /\ arrays' \in Seq(Seq(Tokens)) /\ Len(arrays') = Len(arrays) /\ DOMAIN arrays' = DOMAIN arrays
      /\ \A m \in DOMAIN arrays : Len(arrays'[m]) = Len(arrays[m])
      /\ arrays'[k] = Moved(arrays[k], i, n)
  BY <1>1, <1>3, <1>4, <1>7 DEF SliceTypes
<1>9. SliceTypes'
  BY <1>1, <1>3, <1>8 DEF SliceTypes
<1>10. ReqTypes'
  <2>1. req' \in [Searchers -> ReqRow]
    BY <1>2, <1>3, <1>5 DEF ReqTypes
  <2>2. ASSUME NEW q \in Searchers PROVE RowFits(req[q])'
    <3>1. CASE q = r
      <4>1. /\ row.array \in DOMAIN arrays' /\ row.len <= Len(arrays'[row.array])
        BY <1>3, <1>5, <1>8 DEF RowFits
      <4>2. n - 1 <= Len(arrays'[k])
        BY <1>4, <1>8
      <4> QED BY <1>1, <1>4, <1>5, <1>6, <1>8, <3>1, <4>1, <4>2 DEF RowFits
    <3>2. CASE q # r
      <4>1. RowFits(req[q])
        BY <1>3 DEF ReqTypes
      <4> QED BY <1>1, <1>6, <1>8, <3>2, <4>1 DEF RowFits
    <3> QED BY <3>1, <3>2
  <2> QED BY <2>1, <2>2 DEF ReqTypes
<1>11. TableTypes'
  BY <1>1, <1>3 DEF TableTypes
<1>12. Alone'
  <2>1. ASSUME NEW p \in Searchers, NEW q \in Searchers,
               req'[p].phase = "shorten", q # p, req'[q].phase # "idle"
        PROVE  q \in mixed'
    <3>1. CASE q # r
      BY <1>1, <1>6, <2>1, <3>1
    <3>2. CASE q = r
      BY <1>1, <1>3, <1>6, <2>1, <3>2 DEF Alone
    <3> QED BY <3>1, <3>2
  <2>2. ASSUME NEW q \in Searchers, req'[q].phase # "idle", q \notin mixed', ~ harmed'
        PROVE  Knows(req[q])'
    <3>1. q = r
      BY <1>1, <1>6, <2>2
    <3>2. Knows(req[r])
      BY <1>1, <1>3, <2>2, <3>1 DEF Alone
    <3> QED BY <1>1, <1>5, <1>6, <3>1, <3>2 DEF Knows
  <2> QED BY <2>1, <2>2 DEF Alone
<1>13. Own'
  <2> SUFFICES ASSUME ~ harmed'
               PROVE  /\ k = tokens
                      /\ ~ \A q \in Searchers : ~ AtHead(q)'
                      /\ \A q \in Searchers : AtHead(q)' =>
                           /\ req'[q].from = tokens
                           /\ Cache!Live(SubSeq(arrays'[tokens], 1, req'[q].rest)) = Cache!Live(loaded)
                           /\ q = r
    BY <1>1 DEF Own, Cache!Live
  <2>1. ~ harmed /\ r \notin mixed /\ k = tokens
    BY <1>1, <1>3 DEF Own
  <2>2. \A q \in Searchers : ~ AtHead(q)
    BY <1>1, <1>3, <2>1 DEF Alone, AtHead
  <2>3. AtHead(r)'
    BY <1>1, <1>5, <1>6 DEF AtHead
  <2>4. \A q \in Searchers : AtHead(q)' => q = r
    BY <1>1, <1>6, <2>2 DEF AtHead
  <2>5. Cache!Live(SubSeq(arrays'[tokens], 1, n - 1)) = Cache!Live(loaded)
    <3>1. req[r].array = tokens
      BY <1>1, <1>3, <2>1 DEF Alone, Knows
    <3>2. Cache!Cached = SubSeq(arrays[k], 1, n)
      BY DEF Cache!Cached
    <3>3. /\ SubSeq(arrays[k], 1, n) \in Seq(Tokens) /\ Len(SubSeq(arrays[k], 1, n)) = n
          /\ SubSeq(arrays[k], 1, n)[i] \in expired
      BY <1>1, <1>4, <2>1, <3>1, Firsts
    <3>4. Cache!Without(Cut(SubSeq(arrays[k], 1, n), i), expired)
            = Cache!Without(SubSeq(arrays[k], 1, n), expired)
      BY <1>4, <3>3, WithoutCut
    <3>5. Cache!Live(Cache!Cached) = Cache!Live(loaded)
      BY <1>3, <2>1, <2>2 DEF Own
    <3> QED BY <1>7, <1>8, <2>1, <3>2, <3>4, <3>5 DEF Cache!Live
  <2> QED BY <1>5, <1>6, <2>1, <2>3, <2>4, <2>5
<1>14. Fresh'
  BY <1>1, <1>3 DEF Fresh, Cache!Live
<1> QED BY <1>9, <1>10, <1>11, <1>12, <1>13, <1>14 DEF CacheInv

\* The row of a search that has assigned the slice.
GoneOn(row) == [row EXCEPT !.phase = "range", !.index = @ + 1]
GoesOn(new, row) ==
  /\ new \in ReqRow /\ new.array = row.array /\ new.len = row.len /\ new.head = row.head
  /\ new.from = row.from /\ new.rest = row.rest /\ new.phase = "range" /\ new.cleaned = row.cleaned

\* GoneOn does so.
LEMMA GoneOnRow ==
  ASSUME NEW row \in ReqRow
  PROVE  GoesOn(GoneOn(row), row)
<1> DEFINE row1 == [row EXCEPT !.phase = "range"]
           row2 == [row1 EXCEPT !.index = @ + 1]
<1>1. /\ row1 \in ReqRow /\ row1.array = row.array /\ row1.len = row.len /\ row1.head = row.head
      /\ row1.from = row.from /\ row1.rest = row.rest /\ row1.phase = "range"
      /\ row1.cleaned = row.cleaned /\ row1.index = row.index
  BY DEF ReqRow
<1> HIDE DEF row1
<1>2. /\ row2 \in ReqRow /\ row2.array = row.array /\ row2.len = row.len /\ row2.head = row.head
      /\ row2.from = row.from /\ row2.rest = row.rest /\ row2.phase = "range"
      /\ row2.cleaned = row.cleaned
  BY <1>1 DEF ReqRow
<1>3. GoneOn(row) = row2
  BY <1>1 DEF GoneOn, row1
<1> QED BY <1>2, <1>3 DEF GoesOn

\* A search assigns the slice.
LEMMA ShortenCache ==
  ASSUME CacheInv, NEW r \in Searchers, Cache!Shorten(r)
  PROVE  CacheInv'
<1> DEFINE row == GoneOn(req[r])
           new == [array |-> req[r].from, len |-> req[r].rest]
<1>1. /\ req[r].phase = "shorten"
      /\ mixed' = mixed \union {q \in Searchers \ {r} : req[q].phase # "idle"}
      /\ UNCHANGED <<table, expired, arrays, tokens, loaded, admin, fetched, passed, stale>>
  BY DEF Cache!Shorten, Cache!Shortening, Cache!store, Cache!admins
<1>2. PICK s \in {req[r].head, tokens} : /\ slices' = [slices EXCEPT ![s] = new]
                                         /\ harmed' = (harmed \/ s # req[r].head)
  BY DEF Cache!Shorten
<1>3. req' = [req EXCEPT ![r] = row]
  BY DEF Cache!Shorten, GoneOn
<1>4. /\ SliceTypes /\ ReqTypes /\ TableTypes /\ Own /\ Alone /\ Fresh
      /\ req[r] \in ReqRow /\ RowFits(req[r])
  BY DEF CacheInv, ReqTypes
<1>5. GoesOn(row, req[r])
  BY <1>4, GoneOnRow
<1> HIDE DEF row
<1>6. req'[r] = row /\ \A q \in Searchers \ {r} : req'[q] = req[q]
  BY <1>3, <1>4 DEF ReqTypes
<1>7. /\ req[r].from \in Nat /\ req[r].rest \in Nat /\ req[r].head \in DOMAIN slices
      /\ req[r].from \in DOMAIN arrays /\ req[r].rest <= Len(arrays[req[r].from])
  BY <1>4 DEF ReqRow, RowFits
<1>8. s \in DOMAIN slices
  BY <1>4, <1>7, SliceNow
<1>9. /\ slices' \in Seq([array : Nat, len : Nat]) /\ Len(slices') = Len(slices)
      /\ DOMAIN slices' = DOMAIN slices /\ slices'[s] = new
      /\ \A m \in DOMAIN slices \ {s} : slices'[m] = slices[m]
  <2>1. new \in [array : Nat, len : Nat]
    BY <1>7
  <2> HIDE DEF new
  <2> QED BY <1>2, <1>4, <1>8, <2>1 DEF SliceTypes
<1>10. new.array = req[r].from /\ new.len = req[r].rest
  OBVIOUS
<1> HIDE DEF new
<1>11. SliceTypes'
  <2>1. ASSUME NEW m \in DOMAIN slices
        PROVE  slices'[m].array \in DOMAIN arrays /\ slices'[m].len <= Len(arrays[slices'[m].array])
    <3>1. CASE m = s
      BY <1>7, <1>9, <1>10, <3>1
    <3>2. CASE m # s
      BY <1>4, <1>9, <3>2 DEF SliceTypes
    <3> QED BY <3>1, <3>2
  <2> QED BY <1>1, <1>4, <1>9, <2>1 DEF SliceTypes
<1>12. ReqTypes'
  <2>1. req' \in [Searchers -> ReqRow]
    BY <1>3, <1>4, <1>5 DEF ReqTypes, GoesOn
  <2>2. ASSUME NEW q \in Searchers PROVE RowFits(req[q])'
    <3>1. CASE q = r
      BY <1>1, <1>4, <1>5, <1>6, <1>9, <3>1 DEF RowFits, GoesOn
    <3>2. CASE q # r
      <4>1. RowFits(req[q])
        BY <1>4 DEF ReqTypes
      <4> QED BY <1>1, <1>6, <1>9, <3>2, <4>1 DEF RowFits
    <3> QED BY <3>1, <3>2
  <2> QED BY <2>1, <2>2 DEF ReqTypes
<1>13. TableTypes'
  BY <1>1, <1>2, <1>4 DEF TableTypes
<1>14. Alone'
  <2>1. ASSUME NEW p \in Searchers, NEW q \in Searchers,
               req'[p].phase = "shorten", q # p, req'[q].phase # "idle"
        PROVE  q \in mixed'
    <3>1. p # r /\ req[p].phase = "shorten"
      BY <1>5, <1>6, <2>1 DEF GoesOn
    <3>2. CASE q # r
      BY <1>1, <1>6, <2>1, <3>2
    <3>3. CASE q = r
      BY <1>1, <1>4, <3>1, <3>3 DEF Alone
    <3> QED BY <3>2, <3>3
  <2>2. ASSUME NEW q \in Searchers, req'[q].phase # "idle", q \notin mixed', ~ harmed'
        PROVE  Knows(req[q])'
    <3>1. q = r
      BY <1>1, <1>6, <2>2
    <3>2. Knows(req[r])
      BY <1>1, <1>2, <1>4, <2>2, <3>1 DEF Alone
    <3>3. req[r].cleaned
      BY <1>1, <3>2 DEF Knows
    <3> QED BY <1>1, <1>5, <1>6, <3>1, <3>2, <3>3 DEF Knows, GoesOn
  <2> QED BY <2>1, <2>2 DEF Alone
<1>15. Own'
  <2> SUFFICES ASSUME ~ harmed' PROVE Own'
    BY DEF Own
  <2>1. ~ harmed /\ s = req[r].head
    BY <1>2
  <2>2. ~ AtHead(r)' /\ \A q \in Searchers \ {r} : AtHead(q)' = AtHead(q)
    BY <1>1, <1>5, <1>6 DEF AtHead, GoesOn
  <2>3. Cache!Live(loaded)' = Cache!Live(loaded)
    BY <1>1 DEF Cache!Live
  <2>4. CASE s = tokens
    <3>1. AtHead(r)
      BY <1>1, <2>1, <2>4 DEF AtHead
    <3>2. /\ req[r].from = tokens
          /\ Cache!Live(SubSeq(arrays[tokens], 1, req[r].rest)) = Cache!Live(loaded)
          /\ \A q \in Searchers : AtHead(q) => q = r
      BY <1>4, <2>1, <3>1 DEF Own
    <3>3. slices'[tokens'].array = tokens' /\ slices'[tokens'].len = req[r].rest
      BY <1>1, <1>9, <1>10, <2>4, <3>2
    <3>4. Cache!Live(Cache!Cached)' = Cache!Live(SubSeq(arrays[tokens], 1, req[r].rest))
      BY <1>1, <3>3 DEF Cache!Live, Cache!Cached
    <3>5. \A q \in Searchers : ~ AtHead(q)'
      BY <2>2, <3>2
    <3> QED BY <2>3, <3>2, <3>3, <3>4, <3>5 DEF Own
  <2>5. CASE s # tokens
    <3>1. ~ AtHead(r)
      BY <2>1, <2>5 DEF AtHead
    <3>2. slices'[tokens'] = slices[tokens]
      BY <1>1, <1>4, <1>9, <2>5, SliceNow
    <3>3. Cache!Live(Cache!Cached)' = Cache!Live(Cache!Cached)
      BY <1>1, <3>2 DEF Cache!Live, Cache!Cached
    <3>4. ASSUME NEW q \in Searchers, AtHead(q)'
          PROVE  /\ q # r /\ AtHead(q) /\ req'[q] = req[q]
                 /\ Cache!Live(SubSeq(arrays[tokens], 1, req[q].rest))'
                      = Cache!Live(SubSeq(arrays[tokens], 1, req[q].rest))
      <4>1. q # r /\ AtHead(q) /\ req'[q] = req[q]
        BY <1>6, <2>2, <3>4
      <4> QED BY <1>1, <4>1 DEF Cache!Live
    <3>5. (\A q \in Searchers : ~ AtHead(q)') => \A q \in Searchers : ~ AtHead(q)
      BY <2>2, <3>1
    <3> QED BY <1>1, <1>4, <2>1, <2>2, <2>3, <3>1, <3>2, <3>3, <3>4, <3>5 DEF Own
  <2> QED BY <2>4, <2>5
<1>16. Fresh'
  BY <1>1, <1>4 DEF Fresh, Cache!Live
<1> QED BY <1>11, <1>12, <1>13, <1>14, <1>15, <1>16 DEF CacheInv

\* A step of a handler that leaves the slices and the searches alone.
LEMMA SearchesStay ==
  ASSUME CacheInv,
         UNCHANGED <<expired, arrays, slices, tokens, loaded, req, mixed, harmed>>
  PROVE  ReqTypes' /\ SliceTypes' /\ Own' /\ Alone'
<1>1. ReqTypes' /\ SliceTypes'
  BY DEF CacheInv, ReqTypes, RowFits, SliceTypes
<1>2. Alone'
  BY DEF CacheInv, Alone, Knows
<1>3. /\ Cache!Live(Cache!Cached)' = Cache!Live(Cache!Cached) /\ Cache!Live(loaded)' = Cache!Live(loaded)
      /\ \A r \in Searchers : /\ AtHead(r)' = AtHead(r)
                              /\ Cache!Live(SubSeq(arrays[tokens], 1, req[r].rest))'
                                   = Cache!Live(SubSeq(arrays[tokens], 1, req[r].rest))
  BY DEF Cache!Live, Cache!Cached, AtHead
<1>4. Own'
  BY <1>3 DEF CacheInv, Own
<1> QED BY <1>1, <1>2, <1>4

\* The table changes: every handler that has read it holds an older one.
LEMMA ChangeCache ==
  ASSUME CacheInv, NEW a \in Admins, NEW new \in Seq(Tokens), Cache!Change(a, new)
  PROVE  CacheInv'
<1>1. /\ table' = new /\ admin' = [admin EXCEPT ![a] = "changed"]
      /\ passed' = passed \union {b \in Admins : admin[b] = "loaded"}
      /\ UNCHANGED <<expired, arrays, slices, tokens, loaded, req, fetched, stale, mixed, harmed>>
  BY DEF Cache!Change, Cache!cache
<1>2. ReqTypes' /\ SliceTypes' /\ Own' /\ Alone'
  BY <1>1, SearchesStay
<1>3. TableTypes'
  BY <1>1 DEF CacheInv, TableTypes
<1>4. admin'[a] = "changed" /\ \A x \in Admins \ {a} : admin'[x] = admin[x]
  BY <1>1 DEF CacheInv, TableTypes
<1>5. Fresh'
  BY <1>1, <1>4 DEF Fresh
<1> QED BY <1>2, <1>3, <1>5 DEF CacheInv

\* A token is added or deleted.
LEMMA EditCache ==
  ASSUME CacheInv, NEW a \in Admins, NEW t \in Tokens, Cache!AddToken(a, t) \/ Cache!DeleteToken(a, t)
  PROVE  CacheInv'
<1>1. table \in Seq(Tokens)
  BY DEF CacheInv, TableTypes
<1>2. Append(table, t) \in Seq(Tokens) /\ Cache!Without(table, {t}) \in Seq(Tokens)
  BY <1>1, WithoutKeeps
<1> QED BY <1>2, ChangeCache DEF Cache!AddToken, Cache!DeleteToken

\* A handler reads the table.
LEMMA LoadCache ==
  ASSUME CacheInv, NEW a \in Admins, Cache!LoadTokens(a)
  PROVE  CacheInv'
<1>1. /\ admin' = [admin EXCEPT ![a] = "loaded"] /\ fetched' = [fetched EXCEPT ![a] = Cache!Live(table)]
      /\ UNCHANGED <<table, expired, arrays, slices, tokens, loaded, req, passed, stale, mixed, harmed>>
  BY DEF Cache!LoadTokens, Cache!store, Cache!cache
<1>2. ReqTypes' /\ SliceTypes' /\ Own' /\ Alone'
  BY <1>1, SearchesStay
<1>3. TableTypes /\ Fresh
  BY DEF CacheInv
<1>4. Cache!Live(table) \in Seq(Tokens) /\ Cache!Live(Cache!Live(table)) = Cache!Live(table)
  <2>1. table \in Seq(Tokens)
    BY <1>3 DEF TableTypes
  <2> QED BY <2>1, WithoutKeeps, WithoutTwice DEF Cache!Live
<1>5. /\ fetched'[a] = Cache!Live(table) /\ admin'[a] = "loaded"
      /\ \A x \in Admins \ {a} : fetched'[x] = fetched[x] /\ admin'[x] = admin[x]
  BY <1>1, <1>3 DEF TableTypes
<1>6. TableTypes'
  BY <1>1, <1>3, <1>4 DEF TableTypes
<1>7. ASSUME NEW x \in Admins, admin'[x] = "loaded", x \notin passed
      PROVE  Cache!Live(fetched'[x]) = Cache!Live(table)
  BY <1>3, <1>4, <1>5, <1>7 DEF Fresh
<1>8. Fresh'
  BY <1>1, <1>5, <1>7 DEF Fresh, Cache!Live
<1> QED BY <1>2, <1>6, <1>8 DEF CacheInv

\* The table cannot be read.
LEMMA LoadFailsCache ==
  ASSUME CacheInv, NEW a \in Admins, Cache!LoadFails(a)
  PROVE  CacheInv'
<1>1. /\ admin' = [admin EXCEPT ![a] = "idle"] /\ stale'
      /\ UNCHANGED <<table, expired, arrays, slices, tokens, loaded, req, fetched, passed, mixed, harmed>>
  BY DEF Cache!LoadFails, Cache!store, Cache!cache
<1>2. ReqTypes' /\ SliceTypes' /\ Own' /\ Alone'
  BY <1>1, SearchesStay
<1>3. stale' \in BOOLEAN
  BY DEF Cache!LoadFails
<1>4. TableTypes'
  BY <1>1, <1>3 DEF CacheInv, TableTypes
<1>5. \A x \in Admins : admin'[x] = "loaded" => admin[x] = "loaded"
  BY <1>1 DEF CacheInv, TableTypes
<1>6. Fresh'
  BY <1>1, <1>5 DEF CacheInv, Fresh, Cache!Live
<1> QED BY <1>2, <1>4, <1>6 DEF CacheInv

\* It puts what it has read in a slice of its own.
LEMMA ReloadCache ==
  ASSUME CacheInv, NEW a \in Admins, Cache!ReloadTokens(a)
  PROVE  CacheInv'
<1> DEFINE s == fetched[a]
           n == Len(slices) + 1
           new == [array |-> n, len |-> Len(s)]
<1>1. /\ SliceTypes /\ ReqTypes /\ TableTypes /\ Fresh
  BY DEF CacheInv
<1>2. Len(slices) = Len(arrays) /\ n \in Nat \ {0} /\ s \in Seq(Tokens) /\ Len(s) \in Nat
  BY <1>1 DEF SliceTypes, TableTypes
<1>3. /\ admin' = [admin EXCEPT ![a] = "idle"] /\ fetched' = [fetched EXCEPT ![a] = <<>>]
      /\ arrays' = Append(arrays, s) /\ slices' = Append(slices, new)
      /\ tokens' = n /\ loaded' = s
      /\ stale' = (a \in passed) /\ passed' = passed \ {a}
      /\ mixed' = {q \in Searchers : req[q].phase # "idle"} /\ harmed' = FALSE
      /\ admin[a] = "loaded" /\ UNCHANGED <<table, expired, req>>
  BY <1>2 DEF Cache!ReloadTokens, Cache!store
<1>4. new \in [array : Nat, len : Nat] /\ new.array = n /\ new.len = Len(s)
  BY <1>2
<1> HIDE DEF new, s
<1>5. /\ arrays' \in Seq(Seq(Tokens)) /\ Len(arrays') = n /\ arrays'[n] = s
      /\ DOMAIN arrays' = DOMAIN arrays \union {n}
      /\ \A m \in DOMAIN arrays : arrays'[m] = arrays[m]
  BY <1>1, <1>2, <1>3 DEF SliceTypes
<1>6. /\ slices' \in Seq([array : Nat, len : Nat]) /\ Len(slices') = n /\ slices'[n] = new
      /\ DOMAIN slices' = DOMAIN slices \union {n} /\ n \notin DOMAIN slices
      /\ \A m \in DOMAIN slices : slices'[m] = slices[m]
  BY <1>1, <1>2, <1>3, <1>4 DEF SliceTypes
<1> HIDE DEF n
<1>7. SliceTypes'
  <2>1. ASSUME NEW m \in DOMAIN slices'
        PROVE  slices'[m].array \in DOMAIN arrays' /\ slices'[m].len <= Len(arrays'[slices'[m].array])
    <3>1. CASE m = n
      BY <1>2, <1>4, <1>5, <1>6, <3>1
    <3>2. CASE m \in DOMAIN slices
      BY <1>1, <1>5, <1>6, <3>2 DEF SliceTypes
    <3> QED BY <1>6, <3>1, <3>2
  <2> QED BY <1>2, <1>3, <1>5, <1>6, <2>1 DEF SliceTypes
<1>8. ReqTypes'
  BY <1>1, <1>3, <1>5, <1>6 DEF ReqTypes, RowFits
<1>9. TableTypes'
  <2>1. <<>> \in Seq(Tokens)
    OBVIOUS
  <2>2. fetched' \in [Admins -> Seq(Tokens)] /\ admin' \in [Admins -> {"idle", "changed", "loaded"}]
    BY <1>1, <1>3, <2>1 DEF TableTypes
  <2>3. stale' \in BOOLEAN
    <3>1. stale' = (a \in passed)
      BY <1>3
    <3> QED BY <3>1
  <2> QED BY <1>1, <1>2, <1>3, <2>2, <2>3 DEF TableTypes
<1>10. Own'
  <2>1. \A r \in Searchers : ~ AtHead(r)'
    BY <1>1, <1>3, <1>6 DEF AtHead, ReqTypes, RowFits
  <2>2. Cache!Cached' = loaded'
    <3>1. Cache!Cached' = SubSeq(s, 1, Len(s))
      BY <1>3, <1>4, <1>5, <1>6 DEF Cache!Cached
    <3> QED BY <1>2, <1>3, <3>1
  <2>3. slices'[tokens'].array = tokens'
    BY <1>3, <1>4, <1>6
  <2> QED BY <2>1, <2>2, <2>3 DEF Own, Cache!Live
<1>11. Alone'
  BY <1>3 DEF Alone
<1>12. Fresh'
  <2>1. ASSUME NEW x \in Admins, admin'[x] = "loaded", x \notin passed'
        PROVE  Cache!Live(fetched'[x]) = Cache!Live(table)
    <3>1. x # a /\ admin[x] = "loaded" /\ fetched'[x] = fetched[x] /\ x \notin passed
      BY <1>1, <1>3, <2>1 DEF TableTypes
    <3> QED BY <1>1, <3>1 DEF Fresh
  <2>2. ~ stale' => Cache!Live(loaded') = Cache!Live(table)
    BY <1>1, <1>3 DEF Fresh, s
  <2> QED BY <1>3, <2>1, <2>2 DEF Fresh, Cache!Live
<1> QED BY <1>7, <1>8, <1>9, <1>10, <1>11, <1>12 DEF CacheInv

\* Every step of the cache keeps CacheInv.
LEMMA CacheNext == CacheInv /\ [Cache!Next]_tokenVars => CacheInv'
<1> SUFFICES ASSUME CacheInv, [Cache!Next]_tokenVars PROVE CacheInv'
  OBVIOUS
<1>1. CASE \E t \in Tokens : Cache!Expire(t)
  BY <1>1, ExpireCache
<1>2. ASSUME NEW r \in Searchers,
             \/ Cache!Found(r) \/ Cache!Pass(r) \/ Cache!Shift(r) \/ Cache!Shorten(r) \/ Cache!Refuse(r)
             \/ \E t \in Tokens : Cache!Begin(r, t)
      PROVE  CacheInv'
  BY <1>2, EndCache, PassCache, ShiftCache, ShortenCache, BeginCache
<1>3. ASSUME NEW a \in Admins,
             \/ Cache!LoadTokens(a) \/ Cache!LoadFails(a) \/ Cache!ReloadTokens(a)
             \/ \E t \in Tokens : Cache!AddToken(a, t) \/ Cache!DeleteToken(a, t)
      PROVE  CacheInv'
  BY <1>3, LoadCache, LoadFailsCache, ReloadCache, EditCache
<1>4. CASE UNCHANGED tokenVars
  <2>1. UNCHANGED <<table, expired, arrays, slices, tokens, loaded, req, mixed, harmed, admin, fetched,
                    passed, stale>>
    BY <1>4 DEF tokenVars
  <2>2. ReqTypes' /\ SliceTypes' /\ Own' /\ Alone'
    BY <2>1, SearchesStay
  <2>3. TableTypes' /\ Fresh'
    BY <2>1 DEF CacheInv, TableTypes, Fresh, Cache!Live
  <2> QED BY <2>2, <2>3 DEF CacheInv
<1> QED BY <1>1, <1>2, <1>3, <1>4 DEF Cache!Next

-----------------------------------------------------------------------------

\* So CacheInv holds for good.
LEMMA CacheAlways == Cache!Spec => []CacheInv
<1>1. UNCHANGED Cache!vars => UNCHANGED tokenVars
  BY DEF Cache!vars, Cache!store, Cache!cache, Cache!admins, tokenVars
<1>2. CacheInv /\ [Cache!Next]_Cache!vars => CacheInv'
  BY <1>1, CacheNext
<1> QED
  BY <1>2, InitCache, PTL DEF Cache!Spec

\* At rest, the tokens in memory are those of the table, and a search takes no good token out of
\* them: Fresh keeps what a handler holds equal to the table until a change passes it, Own what a
\* search is about to assign.
THEOREM CacheFollows == Cache!Spec => []Current
<1>1. ASSUME CacheInv PROVE Cache!Current
  BY <1>1 DEF CacheInv, Fresh, Cache!Current
<1>2. ASSUME CacheInv PROVE Cache!Kept
  BY <1>2 DEF CacheInv, Own, AtHead, Cache!Kept, Cache!Shortening
<1>3. CacheInv => Current
  BY <1>1, <1>2 DEF Current
<1> QED
  BY <1>3, CacheAlways, PTL

\* A good token is refused only by a search that has removed an expired one itself, or has
\* overlapped a change: any other has seen all of the slice, and the token is not in it.
THEOREM RefusedOnceAlways == Cache!Spec => RefusedOnce
<1>1. ASSUME CacheInv, NEW r \in Searchers, Cache!Refuse(r), r \notin mixed, ~ harmed,
             req[r].token \in Cache!ToSet(Cache!Live(loaded))
      PROVE  req[r].cleaned
  <2> DEFINE token == req[r].token
             n == slices[tokens].len
  <2> SUFFICES ASSUME ~ req[r].cleaned PROVE FALSE
    OBVIOUS
  <2>1. req[r].phase = "range" /\ req[r] \in ReqRow
    BY <1>1 DEF Cache!Refuse, Cache!Unfound, CacheInv, ReqTypes
  <2>2. /\ req[r].array = tokens /\ req[r].len = n
        /\ \A j \in 1..n : j < req[r].index => arrays[tokens][j] # token
    BY <1>1, <2>1 DEF CacheInv, Alone, Knows
  <2>3. /\ n \in Nat /\ Cache!Cached \in Seq(Tokens) /\ Len(Cache!Cached) = n
        /\ \A j \in 1..n : Cache!Cached[j] = arrays[slices[tokens].array][j]
    BY <1>1, SliceNow DEF CacheInv
  <2>4. /\ slices[tokens].array = tokens
        /\ Cache!Live(Cache!Cached) = Cache!Live(loaded)
    BY <1>1, <2>1 DEF CacheInv, Own, Alone, AtHead
  <2> HIDE DEF n, token
  <2>5. ~ \E j \in 1..n : Cache!Cached[j] = token
    <3>1. CASE ~ Cache!More(r)
      <4>1. req[r].index \in Nat /\ req[r].index > n
        BY <2>1, <2>2, <2>3, <3>1 DEF Cache!More, ReqRow
      <4> QED BY <2>2, <2>3, <2>4, <4>1
    <3>2. CASE Cache!More(r)
      <4>1. req[r].index \in Nat /\ req[r].index <= n /\ req[r].index > n
        BY <1>1, <2>1, <2>2, <3>2 DEF Cache!Refuse, Cache!Unfound, Cache!More, ReqRow, n
      <4> QED BY <2>3, <4>1
    <3> QED BY <3>1, <3>2
  <2>6. token \in Cache!ToSet(Cache!Live(Cache!Cached))
    BY <1>1, <2>4 DEF token
  <2>7. \E j \in 1..Len(Cache!Live(Cache!Cached)) : Cache!Live(Cache!Cached)[j] = token
    <3>1. Cache!Live(Cache!Cached) \in Seq(Tokens)
      BY <2>3, WithoutKeeps DEF Cache!Live
    <3> QED BY <2>6, <3>1 DEF Cache!ToSet
  <2>8. \E j \in 1..Len(Cache!Cached) : Cache!Cached[j] = token
    <3> DEFINE s == Cache!Cached
               u == Cache!Without(s, expired)
    <3>1. s \in Seq(Tokens)
      BY <2>3
    <3>2. \E j \in 1..Len(u) : u[j] = token
      BY <2>7 DEF Cache!Live
    <3> HIDE DEF s
    <3>3. \A x : (\E j \in 1..Len(u) : u[j] = x) <=> x \notin expired /\ \E j \in 1..Len(s) : s[j] = x
      BY <3>1, WithoutKeeps
    <3> HIDE DEF u
    <3>4. \E j \in 1..Len(s) : s[j] = token
      BY <3>2, <3>3
    <3> QED BY <3>4 DEF s
  <2> QED BY <2>3, <2>5, <2>8
<1>2. CacheInv => [\A r \in Searchers :
                     Cache!Refuse(r) /\ r \notin mixed /\ ~ harmed
                       /\ req[r].token \in Cache!ToSet(Cache!Live(loaded)) => req[r].cleaned]_Cache!vars
  BY <1>1
<1> QED
  BY <1>2, CacheAlways, PTL DEF RefusedOnce, Cache!RefusedOnce

\* The variables of both parts have their types whichever of them moves, as in the run
\* `config_save`.
THEOREM PartsTypeCorrect == MCSpec => []PartsTypeOK
<1>1. MCInit => IInv /\ CacheInv
  BY InitIInv, InitCache DEF MCInit
<1>2. IInv /\ CacheInv /\ [MCNext]_<<part, vars, tokenVars>> => IInv' /\ CacheInv'
  <2> SUFFICES ASSUME IInv, CacheInv, [MCNext]_<<part, vars, tokenVars>> PROVE IInv' /\ CacheInv'
    OBVIOUS
  <2>1. [Next]_vars /\ [Cache!Next]_tokenVars
    BY DEF MCNext
  <2> QED BY <2>1, StepIInv, CacheNext
<1>3. IInv => TypeOK
  BY DEF IInv
<1>4. CacheInv => Cache!TypeOK
  <2> SUFFICES ASSUME CacheInv PROVE Cache!TypeOK
    OBVIOUS
  <2>1. \A n \in DOMAIN slices : slices[n] \in [array : Nat, len : Nat]
    BY EntryOf, Zenon DEF CacheInv, SliceTypes
  <2>2. \A n \in DOMAIN arrays : arrays[n] \in Seq(Tokens)
    BY EntryOf, Zenon DEF CacheInv, SliceTypes
  <2>3. ASSUME NEW n \in DOMAIN slices
        PROVE  /\ slices[n].array \in DOMAIN arrays
               /\ slices[n].len \in 0..Len(arrays[slices[n].array])
    <3>1. slices[n].array \in DOMAIN arrays /\ slices[n].len <= Len(arrays[slices[n].array])
      BY DEF CacheInv, SliceTypes
    <3>2. slices[n].len \in Nat /\ arrays[slices[n].array] \in Seq(Tokens)
      BY <2>1, <2>2, <3>1
    <3> QED BY <3>1, <3>2
  <2> QED BY <2>3, SliceNow DEF Cache!TypeOK, CacheInv, TableTypes
<1> QED
  BY <1>1, <1>2, <1>3, <1>4, PTL DEF MCSpec, PartsTypeOK
================================================================================
