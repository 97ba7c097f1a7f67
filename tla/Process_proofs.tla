---------------------------- MODULE Process_proofs ----------------------------
(***************************************************************************)
(* Proofs about the life of the process, of its database and of the        *)
(* installations it migrates, for any number of ports, saves, requests,    *)
(* failures and rows.                                                      *)
(*                                                                         *)
(* AppLifecycle: a server that runs once every signal has been handled     *)
(* serves the settings of the last restart that was asked for (Applied).   *)
(* The invariant says that a restart is pending, or what runs is fresh, or *)
(* the process is on its way to stop it.  Database, through an instance:   *)
(* the panel's data is there unless one of two ways of losing it has been  *)
(* taken (Kept), and open (OnItsData), and files that say they are up to   *)
(* date are (Stamped), with the exceptions named there.  The invariant says*)
(* where the data is at each step of an import.                            *)
(*                                                                         *)
(* Migration, through an instance: what an installation held, clients,     *)
(* inbounds, shared TLS settings, routes and DNS servers, is there after   *)
(* the migrations (InboundsKept, RoutesKept).  The first moves one inbound *)
(* after the other; MovedUpTo is what holds after each of them.            *)
(***************************************************************************)
EXTENDS MCProcess, WellFoundedInduction, TLAPS

\* The values of what TypeOK leaves open.
Types ==
  /\ TypeOK
  /\ server \in [Servers -> [up : BOOLEAN, version : Nat]]
  /\ read \in [cert : BOOLEAN, version : Nat]
  /\ hups \in Nat

\* A restart that was asked for is still to come; or the process has begun to stop for it, and
\* what it has started or read since is no older than the settings of then.
Pending == hups > 0 \/ channel # "none"
ToStop(s) == pc \in {"stopCron", "stopSub"} \/ (s = "web" /\ pc = "stopWeb")
Fresh ==
  /\ \A s \in Servers : server[s].up => ToStop(s) \/ server[s].version >= due
  /\ pc \in {"webListen", "subListen"} => read.version >= due
AppInv == Types /\ due <= saves /\ (Pending \/ Fresh)

\* The process ends, or the start it is in fails.
LEMMA GoneType ==
  ASSUME AppAssumption, AppInv, NEW u \in {"failed", "stopped"}, Gone(u)
  PROVE  AppInv'
<1>1. server' \in [Servers -> [up : BOOLEAN, version : Nat]] /\ \A s \in Servers : ~ server'[s].up
  BY DEF Gone, Down
<1>2. Types'
  BY <1>1 DEF Gone, AppInv, Types, TypeOK, NoPorts, settings
<1>3. Fresh'
  BY <1>1 DEF Fresh, Gone
<1> QED
  BY <1>2, <1>3 DEF AppInv, Gone, settings

\* A start that fails, and the process that ends with it.
LEMMA FailsType ==
  ASSUME AppAssumption, AppInv, NEW place, StartFails(place), pc # "off",
         ~ first => held' \in [Ports -> Servers \union {"free", "lost"}],
         pc \in {"age", "web", "webListen", "sub", "subListen"}
  PROVE  AppInv'
<1>1. CASE first
  <2>1. server' \in [Servers -> [up : BOOLEAN, version : Nat]] /\ \A s \in Servers : ~ server'[s].up
    <3>1. server' = [s \in Servers |-> Down]
      BY <1>1 DEF StartFails
    <3> QED
      BY <3>1 DEF Down
  <2>2. /\ held' \in [Ports -> Servers \union {"free", "lost"}] /\ pc' = "off"
        /\ cron' = FALSE /\ job' = FALSE /\ core' = FALSE /\ channel' = "none" /\ hups' = 0
        /\ unit' \in {"stopped", "failed"}
        /\ UNCHANGED <<first, ending, stored, saves, read, due>>
    BY <1>1 DEF StartFails, NoPorts, settings
  <2>3. Types'
    BY <2>1, <2>2 DEF AppInv, Types, TypeOK
  <2>4. Fresh'
    BY <2>1, <2>2 DEF Fresh
  <2> QED
    BY <2>2, <2>3, <2>4 DEF AppInv
<1>2. CASE ~ first
  <2>1. /\ pc' = "loop"
        /\ UNCHANGED <<first, ending, stored, saves, read, due, unit, server, cron, job, core,
                       channel, hups>>
    BY <1>2 DEF StartFails, settings
  <2>2. Types'
    BY <1>2, <2>1 DEF AppInv, Types, TypeOK
  <2>3. Pending' \/ Fresh'
    BY <2>1 DEF AppInv, Pending, Fresh, ToStop
  <2> QED
    BY <2>1, <2>2, <2>3 DEF AppInv
<1> QED
  BY <1>1, <1>2

\* APP.Start.
LEMMA StartStep ==
  ASSUME AppAssumption, AppInv,
         \/ InitApp \/ StartCron \/ StartCore \/ Notify
         \/ \E s \in Servers : ReadServer(s) \/ ListenServer(s)
  PROVE  AppInv'
<1>a. Types /\ due <= saves /\ (Pending \/ Fresh)
  BY DEF AppInv
<1>1. CASE InitApp \/ Notify \/ StartCore
  <2>1. UNCHANGED <<ending, stored, saves, read, server, held, cron, job, failedAt, channel, hups,
                    due, unit>>
    BY <1>1 DEF InitApp, Notify, StartCore, settings, signals
  <2>2. Types'
    BY <1>1, <1>a, <2>1 DEF InitApp, Notify, StartCore, Types, TypeOK
  <2>3. Pending' \/ Fresh'
    BY <1>1, <1>a, <2>1 DEF InitApp, Notify, StartCore, Pending, Fresh, ToStop
  <2> QED
    BY <1>a, <2>1, <2>2, <2>3 DEF AppInv
<1>2. CASE StartCron
  <2>1. CASE stored.age
    <3>1. /\ pc = "age" /\ cron' = TRUE /\ pc' = "web"
          /\ UNCHANGED <<first, ending, stored, saves, read, server, held, job, core, channel,
                         hups, due, unit>>
      BY <1>2, <2>1 DEF StartCron, settings, signals
    <3>2. Types'
      BY <1>a, <3>1 DEF Types, TypeOK
    <3>3. Pending' \/ Fresh'
      BY <1>a, <3>1 DEF Pending, Fresh, ToStop
    <3> QED
      BY <1>a, <3>1, <3>2, <3>3 DEF AppInv
  <2>2. CASE ~ stored.age
    BY <1>2, <2>2, <1>a, FailsType DEF StartCron, Types, TypeOK
  <2> QED
    BY <2>1, <2>2
<1>3. ASSUME NEW s \in Servers, ReadServer(s) PROVE AppInv'
  <2>1. /\ pc = s /\ pc' \in {"webListen", "subListen"}
        /\ read' = [cert |-> stored[s].cert, version |-> saves]
        /\ UNCHANGED <<first, ending, stored, saves, server, held, cron, job, core, channel, hups,
                       due, unit>>
    BY <1>3 DEF ReadServer, settings, signals
  <2>2. stored[s].cert \in BOOLEAN /\ saves \in Nat
    BY <1>a DEF Types, TypeOK, Settings, Servers
  <2>3. Types'
    <3>1. read' \in [cert : BOOLEAN, version : Nat]
      BY <2>1, <2>2
    <3> QED
      BY <1>a, <2>1, <3>1 DEF Types, TypeOK, Servers
  <2>4. Pending' \/ Fresh'
    BY <1>a, <2>1 DEF Pending, Fresh, ToStop, Servers
  <2> QED
    BY <1>a, <2>1, <2>3, <2>4 DEF AppInv
<1>4. ASSUME NEW s \in Servers, ListenServer(s) PROVE AppInv'
  <2> DEFINE port == stored[s].port
  <2>0. pc \in {"webListen", "subListen"} /\ port \in Ports
    BY <1>4, <1>a DEF ListenServer, Types, TypeOK, Settings, Servers
  <2>1. CASE /\ StartFails(s)
             /\ IF first THEN TRUE ELSE UNCHANGED held \/ held' = [held EXCEPT ![port] = "lost"]
    <3>1. ~ first => held' \in [Ports -> Servers \union {"free", "lost"}]
      BY <2>0, <2>1, <1>a DEF Types, TypeOK
    <3> QED
      BY <2>0, <2>1, <3>1, FailsType
  <2>2. CASE /\ held' = [held EXCEPT ![port] = s]
             /\ server' = [server EXCEPT ![s] = [up |-> TRUE, version |-> read.version]]
             /\ pc' = (IF s = "web" THEN "sub" ELSE "core")
             /\ UNCHANGED <<first, ending, settings, read, cron, job, core, failedAt, signals,
                            faults>>
    <3>1. /\ server' \in [Servers -> [up : BOOLEAN, version : Nat]]
          /\ server'[s].version = read.version
          /\ \A x \in Servers \ {s} : server'[x] = server[x]
      BY <2>2, <1>a DEF Types
    <3>2. held' \in [Ports -> Servers \union {"free", "lost"}]
      BY <2>0, <2>2, <1>a DEF Types, TypeOK
    <3>3. UNCHANGED <<first, ending, stored, saves, read, cron, job, core, channel, hups, due,
                      unit>>
      BY <2>2 DEF settings, signals
    <3>4. Types'
      BY <1>a, <2>0, <2>2, <3>1, <3>2, <3>3 DEF Types, TypeOK
    <3>5. Pending' \/ Fresh'
      BY <1>a, <2>0, <2>2, <3>1, <3>3 DEF Pending, Fresh, ToStop
    <3> QED
      BY <1>a, <3>3, <3>4, <3>5 DEF AppInv
  <2> QED
    BY <1>4, <2>1, <2>2 DEF ListenServer
<1> QED
  BY <1>1, <1>2, <1>3, <1>4

\* APP.Stop, and the loop around it.
LEMMA StopStep ==
  ASSUME AppAssumption, AppInv,
         TakeSignal \/ StopCron \/ StopCore \/ \E s \in Servers : StopServer(s)
  PROVE  AppInv'
<1>a. Types /\ due <= saves /\ (Pending \/ Fresh)
  BY DEF AppInv
<1>1. CASE TakeSignal
  <2>1. /\ pc = "loop" /\ pc' = "stopCron" /\ ending' \in BOOLEAN /\ channel' = "none"
        /\ UNCHANGED <<first, stored, saves, read, server, held, cron, job, core, hups, due, unit>>
    BY <1>1 DEF TakeSignal, settings
  <2>2. Types'
    BY <1>a, <2>1 DEF Types, TypeOK
  <2>3. Fresh'
    BY <2>1 DEF Fresh, ToStop
  <2> QED
    BY <1>a, <2>1, <2>2, <2>3 DEF AppInv
<1>2. CASE StopCron
  <2>1. /\ pc = "stopCron" /\ pc' = "stopSub" /\ cron' = FALSE
        /\ UNCHANGED <<first, ending, stored, saves, read, server, held, job, core, channel, hups,
                       due, unit>>
    BY <1>2 DEF StopCron, settings, signals
  <2>2. Types'
    BY <1>a, <2>1 DEF Types, TypeOK
  <2>3. Pending' \/ Fresh'
    BY <2>1 DEF Fresh, ToStop
  <2> QED
    BY <1>a, <2>1, <2>2, <2>3 DEF AppInv
<1>3. CASE StopCore
  <2>1. CASE ending
    BY <1>3, <2>1, GoneType DEF StopCore
  <2>2. CASE ~ ending
    <3>1. /\ pc = "stopCore" /\ pc' = "age" /\ core' = FALSE
          /\ UNCHANGED <<first, ending, stored, saves, read, server, held, cron, job, channel,
                         hups, due, unit>>
      BY <1>3, <2>2 DEF StopCore, settings, signals
    <3>2. Types'
      BY <1>a, <3>1 DEF Types, TypeOK
    <3>3. Pending' \/ Fresh'
      BY <1>a, <3>1 DEF Fresh, ToStop, Pending
    <3> QED
      BY <1>a, <3>1, <3>2, <3>3 DEF AppInv
  <2> QED
    BY <2>1, <2>2
<1>4. ASSUME NEW s \in Servers, StopServer(s) PROVE AppInv'
  <2>1. /\ pc = (IF s = "sub" THEN "stopSub" ELSE "stopWeb")
        /\ pc' = (IF s = "sub" THEN "stopWeb" ELSE "stopCore")
        /\ server' = [server EXCEPT ![s] = Down]
        /\ held' = [p \in Ports |-> IF held[p] = s THEN "free" ELSE held[p]]
        /\ UNCHANGED <<first, ending, stored, saves, read, cron, job, core, channel, hups, due,
                       unit>>
    BY <1>4 DEF StopServer, settings, signals
  <2>2. /\ server' \in [Servers -> [up : BOOLEAN, version : Nat]]
        /\ ~ server'[s].up
        /\ \A x \in Servers \ {s} : server'[x] = server[x]
    BY <2>1, <1>a DEF Types, Down
  <2>3. held' \in [Ports -> Servers \union {"free", "lost"}]
    BY <2>1, <1>a DEF Types, TypeOK
  <2>4. Types'
    BY <1>a, <2>1, <2>2, <2>3 DEF Types, TypeOK
  <2>5. Pending' \/ Fresh'
    BY <1>a, <2>1, <2>2 DEF Fresh, ToStop, Pending, Servers
  <2> QED
    BY <1>a, <2>1, <2>4, <2>5 DEF AppInv
<1> QED
  BY <1>1, <1>2, <1>3, <1>4

\* The scheduler, the settings, the signals and the service manager.
LEMMA OutsideStep ==
  ASSUME AppAssumption, AppInv,
         \/ CheckCore \/ CoreChecked \/ Save \/ Ask \/ HangUp \/ HangUpEarly
         \/ StopUnit \/ Kill \/ Respawn
  PROVE  AppInv'
<1>a. Types /\ due <= saves /\ (Pending \/ Fresh)
  BY DEF AppInv
<1>1. CASE CheckCore \/ CoreChecked
  <2>1. /\ {job', core'} \subseteq BOOLEAN
        /\ UNCHANGED <<pc, first, ending, stored, saves, read, server, held, cron, channel, hups,
                       due, unit>>
    BY <1>1, <1>a DEF CheckCore, CoreChecked, Apart, process, settings, signals, Types, TypeOK
  <2> QED
    BY <1>a, <2>1 DEF AppInv, Types, TypeOK, Pending, Fresh, ToStop
<1>2. CASE Save
  <2>1. /\ saves' = saves + 1 /\ saves < MaxSaves /\ stored' \in Settings
        /\ UNCHANGED <<pc, first, ending, read, server, held, cron, job, core, channel, hups, due,
                       unit>>
    BY <1>2 DEF Save, process, Rest, signals
  <2>2. saves' \in 0..MaxSaves /\ due' <= saves'
    BY <1>a, <2>1 DEF Types, TypeOK, AppAssumption
  <2> QED
    BY <1>a, <2>1, <2>2 DEF AppInv, Types, TypeOK, Pending, Fresh, ToStop
<1>3. CASE Ask
  <2>1. /\ hups' = hups + 1 /\ due' = saves
        /\ UNCHANGED <<pc, first, ending, stored, saves, read, server, held, cron, job, core,
                       channel, unit>>
    BY <1>3 DEF Ask, process, settings, Rest
  <2>2. hups' \in Nat /\ hups' > 0 /\ due' <= saves'
    BY <1>a, <2>1 DEF Types, TypeOK
  <2>3. Types'
    BY <1>a, <2>1, <2>2 DEF Types, TypeOK
  <2> QED
    BY <2>2, <2>3 DEF AppInv, Pending
<1>4. CASE HangUp
  <2>1. /\ hups' = hups - 1 /\ hups > 0 /\ channel' \in {"HUP", channel} /\ channel' # "none"
        /\ UNCHANGED <<pc, first, ending, stored, saves, read, server, held, cron, job, core, due,
                       unit>>
    BY <1>4 DEF HangUp, process, settings, Rest
  <2>2. hups' \in Nat
    BY <1>a, <2>1 DEF Types
  <2>3. Types'
    BY <1>a, <2>1, <2>2 DEF Types, TypeOK
  <2> QED
    BY <1>a, <2>1, <2>3 DEF AppInv, Pending
<1>5. CASE HangUpEarly \/ Kill
  BY <1>5, GoneType DEF HangUpEarly, Kill
<1>6. CASE StopUnit
  <2>1. CASE first
    BY <1>6, <2>1, GoneType DEF StopUnit
  <2>2. CASE ~ first
    <3>1. /\ pc # "off" /\ unit' = "stopping" /\ channel' \in {"TERM", channel} /\ channel' # "none"
          /\ UNCHANGED <<pc, first, ending, stored, saves, read, server, held, cron, job, core,
                         hups, due>>
      BY <1>6, <2>2 DEF StopUnit, process, settings, Rest
    <3> QED
      BY <1>a, <3>1 DEF AppInv, Types, TypeOK, Pending
  <2> QED
    BY <2>1, <2>2
<1>7. CASE Respawn
  <2>1. /\ unit = "failed" /\ unit' = "up" /\ pc' = "init" /\ first' = TRUE /\ ending' = FALSE
        /\ UNCHANGED <<stored, saves, read, server, held, cron, job, core, channel, hups, due>>
    BY <1>7 DEF Respawn, settings, Rest
  <2>2. pc = "off"
    BY <1>a, <2>1 DEF Types, TypeOK
  <2>3. Pending' \/ Fresh'
    BY <1>a, <2>1, <2>2 DEF Pending, Fresh, ToStop
  <2> QED
    BY <1>a, <2>1, <2>2, <2>3 DEF AppInv, Types, TypeOK
<1> QED
  BY <1>1, <1>2, <1>3, <1>4, <1>5, <1>6, <1>7

\* The invariant holds at the start.
LEMMA AppInitial == ASSUME AppAssumption, Init PROVE AppInv
<1>1. server \in [Servers -> [up : BOOLEAN, version : Nat]] /\ \A s \in Servers : ~ server[s].up
  BY DEF Init, Down
<1>2. 0 \in 0..MaxSaves /\ hups \in Nat /\ read \in [cert : BOOLEAN, version : Nat]
  BY DEF AppAssumption, Init
<1>4. held \in [Ports -> Servers \union {"free", "lost"}] /\ stored \in Settings
  BY DEF Init, NoPorts
<1>5. Types
  BY <1>1, <1>2, <1>4 DEF Init, Types, TypeOK
<1>3. Fresh
  BY <1>1 DEF Init, Fresh
<1> QED
  BY <1>5, <1>3 DEF AppInv, Init

\* Every step keeps it.
LEMMA AppNext == AppInv /\ [Next]_vars => AppInv'
<1> SUFFICES ASSUME AppInv, [Next]_vars PROVE AppInv'
  OBVIOUS
<1>1. CASE UNCHANGED vars
  BY <1>1 DEF vars, process, settings, signals, AppInv, Types, TypeOK, Pending, Fresh, ToStop
<1>2. CASE Next
  BY <1>2, AppAssumption, StartStep, StopStep, OutsideStep DEF Next, Main
<1> QED
  BY <1>1, <1>2

\* A server that runs once every signal has been handled serves the settings of the last
\* restart that was asked for, or later ones.
THEOREM AppliedAlways == Spec => [](TypeOK /\ Applied)
<1>1. Init => AppInv
  BY AppAssumption, AppInitial
<1>2. AppInv /\ [Next]_vars => AppInv'
  BY AppNext
<1>3. AppInv => TypeOK /\ Applied
  <2> SUFFICES ASSUME AppInv PROVE Applied
    BY DEF AppInv, Types
  <2> QED
    BY DEF AppInv, Types, TypeOK, Pending, Fresh, ToStop, Applied
<1> QED
  BY <1>1, <1>2, <1>3, PTL DEF Spec

-----------------------------------------------------------------------------
\* Database (Data), for any number of files and failures.

\* A file in the newest format, or one that may be older for a reason that Stamped names.
Renewed(n) == files[n].format = "1.3" \/ n \in unmigrated

\* Where an import has moved the files about.
Moved == at \in {"moved", "swapped", "migrated"}

\* How many files there are, and which of the names stand for one.
Sizes ==
  /\ ioFaults \in 0..MaxIoFaults /\ Len(files) <= MaxFiles + ioFaults
  /\ main = 0 /\ at # "moved" => /\ at \notin {"migrate", "settings", "swapped", "migrated"}
                                 /\ ioFaults > 0 /\ Len(files) < MaxFiles + ioFaults
  /\ at = "moved" => main = 0 /\ temp # fallback
  /\ Moved => fallback # 0
  /\ at \in {"temp", "closed", "copied", "cleared", "moved"} => temp # 0

\* Where the panel's data is, and what the handle has open.
Named ==
  /\ live \notin {0, temp} /\ live \in Data!Files
  /\ IF lost THEN live \notin {main, fallback}
     ELSE IF Moved THEN live = fallback ELSE live \in {main, fallback}
  /\ at = "cleared" /\ ~ lost => live = main
  /\ ~ strayed /\ ~ lost => IF Moved THEN live = fallback ELSE main = live
  /\ at = "settings" => handle = main
  /\ at \in {"run", "temp"} => broken \/ (handle = main /\ main # 0)

\* Which files are in the newest format.
Marks ==
  /\ \A n \in 1..Len(files) : files[n].version \in {"1.3", "now"} => Renewed(n)
  /\ handle # 0 => Renewed(handle)
  /\ (at = "open" /\ docker /\ main # 0) \/ at = "migrated" => Renewed(main)

DataInv == Data!TypeOK /\ docker \in BOOLEAN /\ Sizes /\ Named /\ Marks

\* What a step may do to the files: there are more of them, and none loses its format.
Keeps ==
  /\ files' \in Seq(Data!Content) /\ Len(files) <= Len(files')
  /\ \A n \in 1..Len(files') : files'[n].version \in {"1.3", "now"} => Renewed(n)'
  /\ \A n \in 1..Len(files) : Renewed(n) => Renewed(n)'

\* What is said of the files is kept while they stay as they are.
LEMMA KeepsSame ==
  ASSUME DataInv, UNCHANGED <<files, unmigrated>>
  PROVE  Keeps /\ Len(files') = Len(files)
<1>1. Len(files) \in Nat /\ files \in Seq(Data!Content)
  BY DEF DataInv, Data!TypeOK
<1> QED
  BY <1>1 DEF DataInv, Marks, Keeps, Renewed

\* It is kept when a file is added.
LEMMA KeepsMore ==
  ASSUME DataInv, NEW c \in Data!Content, files' = Append(files, c),
           unmigrated \subseteq unmigrated',
         c.version \in {"1.3", "now"} => c.format = "1.3"
  PROVE  /\ Keeps /\ Len(files') = Len(files) + 1 /\ Len(files) \in Nat
         /\ \A n : n = Len(files) + 1 /\ c.format = "1.3" => Renewed(n)'
<1>1. files \in Seq(Data!Content) /\ Len(files) \in Nat
  BY DEF DataInv, Data!TypeOK
<1>2. /\ files' \in Seq(Data!Content) /\ Len(files') = Len(files) + 1
      /\ \A n \in 1..Len(files) : files'[n] = files[n]
      /\ files'[Len(files) + 1] = c
  BY <1>1
<1>3. \A n \in 1..Len(files) : Renewed(n) => Renewed(n)'
  BY <1>2 DEF Renewed
<1>4. \A n \in 1..Len(files) : files[n].version \in {"1.3", "now"} => Renewed(n)
  BY DEF DataInv, Marks
<1>5. ASSUME NEW n \in 1..Len(files'), files'[n].version \in {"1.3", "now"} PROVE Renewed(n)'
  <2>1. CASE n = Len(files) + 1
    BY <1>2, <1>5, <2>1 DEF Renewed
  <2>2. CASE n \in 1..Len(files)
    BY <1>2, <1>3, <1>4, <1>5, <2>2
  <2>3. n \in 1..(Len(files) + 1)
    BY <1>2, <1>5
  <2>4. n = Len(files) + 1 \/ n \in 1..Len(files)
    BY <1>1, <2>3
  <2> QED
    BY <2>1, <2>2, <2>4
<1>6. \A n : n = Len(files) + 1 /\ c.format = "1.3" => Renewed(n)'
  BY <1>2 DEF Renewed
<1> QED
  BY <1>1, <1>2, <1>3, <1>5, <1>6 DEF Keeps

\* It is kept when a file is migrated or stamped.
LEMMA KeepsEdit ==
  ASSUME DataInv, NEW m \in 1..Len(files), NEW c \in Data!Content,
           files' = [files EXCEPT ![m] = c],
         unmigrated \subseteq unmigrated',
         c.version \in {"1.3", "now"} => c.format = "1.3" \/ m \in unmigrated',
         c.format = files[m].format \/ c.format = "1.3"
  PROVE  Keeps /\ Len(files') = Len(files) /\ files'[m] = c
<1>1. files \in Seq(Data!Content) /\ Len(files) \in Nat
  BY DEF DataInv, Data!TypeOK
<1>2. /\ files' \in Seq(Data!Content) /\ Len(files') = Len(files)
      /\ \A n \in 1..Len(files) \ {m} : files'[n] = files[n]
      /\ files'[m] = c
  BY <1>1
<1>3. \A n \in 1..Len(files) : Renewed(n) => Renewed(n)'
  BY <1>2 DEF Renewed
<1>4. \A n \in 1..Len(files) : files[n].version \in {"1.3", "now"} => Renewed(n)
  BY DEF DataInv, Marks
<1>5. ASSUME NEW n \in 1..Len(files), files'[n].version \in {"1.3", "now"} PROVE Renewed(n)'
  <2>1. CASE n = m
    BY <1>2, <1>5, <2>1 DEF Renewed
  <2>2. CASE n # m
    BY <1>2, <1>3, <1>4, <1>5, <2>2
  <2> QED
    BY <2>1, <2>2
<1> QED
  BY <1>1, <1>2, <1>3, <1>5 DEF Keeps

\* MigrateDb renews the file, or puts it down as one that could not be migrated.
LEMMA MigrateKeeps ==
  ASSUME DataInv, main # 0, NEW done, NEW fatal, Data!MigrateDb(done, fatal), UNCHANGED main
  PROVE  /\ Keeps /\ Len(files') = Len(files) /\ Renewed(main)'
         /\ at' \in {fatal, done}
<1>1. main \in 1..Len(files) /\ files[main] \in Data!Content
  BY DEF DataInv, Data!TypeOK, Data!Files
<1>2. CASE files' = files /\ unmigrated' = unmigrated \union {main} /\ at' = fatal
  <2>1. files' = files /\ unmigrated' = unmigrated \union {main} /\ at' = fatal
    BY <1>2
  <2>2. \A n : Renewed(n) => Renewed(n)'
    BY <2>1 DEF Renewed
  <2>3. files \in Seq(Data!Content) /\ Len(files) \in Nat /\ Len(files') = Len(files)
    BY <2>1 DEF DataInv, Data!TypeOK
  <2>4. Keeps
    <3>1. \A n \in 1..Len(files) : files[n].version \in {"1.3", "now"} => Renewed(n)
      BY DEF DataInv, Marks
    <3> QED
      BY <2>1, <2>2, <2>3, <3>1 DEF Keeps
  <2> QED
    BY <1>2, <2>1, <2>3, <2>4 DEF Renewed
<1>3. CASE /\ files' = [files EXCEPT ![main] = Data!Migrated(@)]
           /\ unmigrated' = unmigrated /\ at' = done
  <2> DEFINE c == Data!Migrated(files[main])
  <2>1. files' = [files EXCEPT ![main] = c] /\ unmigrated' = unmigrated /\ at' = done
    BY <1>3
  <2>2. /\ c \in Data!Content
        /\ c.format = files[main].format \/ c.format = "1.3"
        /\ files[main].version \in {"1.3", "now"} \/ c.format = "1.3"
    BY <1>1 DEF Data!Migrated, Data!Content, Data!Formats
  <2>3. c.format = "1.3" \/ main \in unmigrated
    BY <1>1, <2>2 DEF DataInv, Marks, Renewed
  <2> HIDE DEF c
  <2>4. Keeps /\ Len(files') = Len(files) /\ files'[main] = c
    BY <1>1, <2>1, <2>2, <2>3, KeepsEdit
  <2> QED
    BY <1>3, <2>1, <2>3, <2>4 DEF Renewed
<1> QED
  BY <1>2, <1>3 DEF Data!MigrateDb

\* A file is created: a new one, in the newest format.
LEMMA CreateKeeps ==
  ASSUME DataInv, Data!Create, unmigrated \subseteq unmigrated'
  PROVE  /\ Keeps /\ Len(files') = Len(files) + 1 /\ Renewed(main)'
         /\ Data!Files \subseteq Data!Files'
         /\ main' \in Data!Files' /\ main' \notin Data!Files /\ main' # 0
<1> DEFINE c == [format |-> "1.3", version |-> "none", rows |-> FALSE]
<1>1. files' = Append(files, c) /\ main' = Len(files) + 1
  BY DEF Data!Create
<1>2. c \in Data!Content /\ c.version = "none" /\ c.format = "1.3"
  BY DEF Data!Content, Data!Formats
<1> HIDE DEF c
<1>3. /\ Keeps /\ Len(files') = Len(files) + 1 /\ Len(files) \in Nat
      /\ \A n : n = Len(files) + 1 => Renewed(n)'
  BY <1>1, <1>2, KeepsMore
<1>4. Renewed(main)'
  BY <1>1, <1>3 DEF Renewed
<1>5. /\ main' = Len(files) + 1
      /\ Data!Files = 0..Len(files) /\ Data!Files' = 0..(Len(files) + 1)
  BY <1>1, <1>3 DEF Data!Files
<1> QED
  BY <1>3, <1>4, <1>5

\* What a step that keeps the files has still to show.
LEMMA DataKept ==
  ASSUME Data!BoundAssumption, DataInv, Keeps, UNCHANGED docker,
         {main', temp', fallback', handle', live'} \subseteq Data!Files',
         at' \in {"down", "migrate", "open", "settings", "run"} \union Data!Importing,
         main' # 0 => main' \notin {temp', fallback'},
         Sizes', Named',
         handle' # 0 => Renewed(handle)',
         ((at' = "open" /\ docker' /\ main' # 0) \/ at' = "migrated") => Renewed(main)'
  PROVE  DataInv'
<1>1. Len(files') <= MaxFiles + MaxIoFaults
  <2>1. Len(files') \in Nat /\ Len(files') <= MaxFiles + ioFaults' /\ ioFaults' \in 0..MaxIoFaults
    BY DEF Keeps, Sizes
  <2> QED
    BY <2>1 DEF Data!BoundAssumption
<1>2. Data!TypeOK'
  BY <1>1 DEF Data!TypeOK, Keeps
<1>3. Marks'
  BY DEF Marks, Keeps
<1> QED
  BY <1>2, <1>3 DEF DataInv

\* The process starts.
LEMMA OpenStep ==
  ASSUME Data!BoundAssumption, DataInv, Data!Start \/ Data!MigrateCmd \/ Data!InitDB
  PROVE  DataInv'
<1>a. /\ Data!TypeOK /\ Sizes /\ Named /\ Marks
  BY DEF DataInv
<1>b. /\ Len(files) \in Nat /\ {main, temp, fallback, handle, live} \subseteq Data!Files
      /\ MaxFiles \in Nat /\ ioFaults \in Nat
  BY <1>a DEF Data!TypeOK, Named, Sizes, Data!BoundAssumption
<1>1. CASE Data!Start
  <2>1. /\ at = "down" /\ at' = IF docker /\ main # 0 THEN "migrate" ELSE "open"
        /\ UNCHANGED <<docker, files, main, temp, fallback, handle, ioFaults, live, unmigrated,
                       strayed,
                       broken, lost>>
    BY <1>1 DEF Data!Start, Data!names, Data!bounds, Data!history
  <2>2. Keeps /\ Data!Files' = Data!Files
    BY <2>1, KeepsSame DEF Data!Files
  <2>3. Sizes' /\ Named'
    BY <1>a, <1>b, <2>1, <2>2 DEF Sizes, Named, Moved
  <2>4. /\ handle' # 0 => Renewed(handle)'
        /\ ((at' = "open" /\ docker' /\ main' # 0) \/ at' = "migrated") => Renewed(main)'
    BY <1>a, <2>1 DEF Marks, Renewed
  <2> QED
    BY <1>a, <1>b, <2>1, <2>2, <2>3, <2>4, DataKept DEF Data!TypeOK
<1>2. CASE Data!MigrateCmd
  <2>1. /\ at = "migrate" /\ Data!MigrateDb("open", "open") /\ main # 0
        /\ UNCHANGED <<docker, main, temp, fallback, handle, ioFaults, live, strayed, broken, lost>>
    BY <1>2, <1>a DEF Data!MigrateCmd, Data!names, Data!bounds, Sizes
  <2>2. Keeps /\ Len(files') = Len(files) /\ Renewed(main)' /\ at' = "open"
    BY <2>1, MigrateKeeps
  <2>3. Data!Files' = Data!Files
    BY <2>2 DEF Data!Files
  <2>4. Sizes' /\ Named'
    BY <1>a, <1>b, <2>1, <2>2, <2>3 DEF Sizes, Named, Moved
  <2>5. handle' # 0 => Renewed(handle)'
    BY <1>a, <1>b, <2>1, <2>2 DEF Marks, Keeps, Data!Files
  <2> QED
    BY <1>a, <1>b, <2>1, <2>2, <2>3, <2>4, <2>5, DataKept DEF Data!TypeOK
<1>3. CASE Data!InitDB
  <2>1. /\ at = "open" /\ at' = "settings" /\ handle' = main'
        /\ unmigrated' = IF docker THEN unmigrated ELSE unmigrated \union {main'}
        /\ UNCHANGED <<docker, temp, fallback, ioFaults, live, strayed, broken, lost>>
    BY <1>3 DEF Data!InitDB, Data!bounds
  <2>2. CASE main # 0
    <3>1. UNCHANGED <<files, main>>
      BY <1>3, <2>2 DEF Data!InitDB
    <3>2. \A n : Renewed(n) => Renewed(n)'
      BY <2>1, <3>1 DEF Renewed
    <3>3. Renewed(main)'
      BY <1>a, <2>1, <2>2, <3>1 DEF Marks, Renewed
    <3>4. Keeps /\ Data!Files' = Data!Files
      BY <1>a, <3>1, <3>2 DEF Marks, Keeps, Data!TypeOK, Data!Files
    <3>5. Sizes' /\ Named'
      BY <1>a, <1>b, <2>1, <2>2, <3>1, <3>4 DEF Sizes, Named, Moved
    <3> QED
      BY <1>a, <1>b, <2>1, <3>1, <3>3, <3>4, <3>5, DataKept DEF Data!TypeOK
  <2>3. CASE main = 0
    <3>1. Data!Create /\ unmigrated \subseteq unmigrated'
      BY <1>3, <2>1, <2>3 DEF Data!InitDB
    <3>2. /\ Keeps /\ Len(files') = Len(files) + 1 /\ Renewed(main)'
          /\ Data!Files \subseteq Data!Files'
          /\ main' \in Data!Files' /\ main' \notin Data!Files /\ main' # 0
      BY <3>1, CreateKeeps
    <3>3. Sizes'
      BY <1>a, <1>b, <2>1, <2>3, <3>2 DEF Sizes, Moved
    <3>4. Named'
      BY <1>a, <1>b, <2>1, <2>3, <3>2 DEF Named, Moved
    <3> QED
      BY <1>a, <1>b, <2>1, <3>2, <3>3, <3>4, DataKept
  <2> QED
    BY <2>2, <2>3
<1> QED
  BY <1>1, <1>2, <1>3

\* The settings, and a crash.
LEMMA SettingsStep ==
  ASSUME Data!BoundAssumption, DataInv, Data!GetAllSetting \/ Data!ResetSettings \/ Data!Crash
  PROVE  DataInv'
<1>a. /\ Data!TypeOK /\ Sizes /\ Named /\ Marks
  BY DEF DataInv
<1>b. /\ Len(files) \in Nat /\ {main, temp, fallback, handle, live} \subseteq Data!Files
      /\ MaxFiles \in Nat /\ ioFaults \in Nat
  BY <1>a DEF Data!TypeOK, Named, Sizes, Data!BoundAssumption
<1>1. CASE Data!GetAllSetting
  <2>1. /\ at \in {"settings", "run"} /\ at' = "run" /\ Data!Defaults(handle)
        /\ UNCHANGED <<docker, main, temp, fallback, handle, ioFaults, live, unmigrated, strayed,
                       broken, lost>>
    BY <1>1 DEF Data!GetAllSetting, Data!names, Data!bounds, Data!history
  <2>2. Keeps /\ Len(files') = Len(files)
    <3>1. CASE handle = 0
      BY <2>1, <3>1, KeepsSame DEF Data!Defaults
    <3>2. CASE handle # 0
      <4> DEFINE c == [files[handle] EXCEPT !.version = IF @ = "none" THEN "now" ELSE @]
      <4>1. files' = [files EXCEPT ![handle] = c] /\ handle \in 1..Len(files)
        BY <1>b, <2>1, <3>2 DEF Data!Defaults, Data!Files
      <4>2. files[handle] \in Data!Content
        BY <1>a, <4>1 DEF Data!TypeOK
      <4>3. c \in Data!Content /\ c.format = files[handle].format
        BY <4>2 DEF Data!Content
      <4>4. files[handle].format = "1.3" \/ handle \in unmigrated
        BY <1>a, <3>2 DEF Marks, Renewed
      <4> HIDE DEF c
      <4> QED
        BY <2>1, <4>1, <4>3, <4>4, KeepsEdit
    <3> QED
      BY <3>1, <3>2
  <2>3. Data!Files' = Data!Files
    BY <2>2 DEF Data!Files
  <2>4. Sizes' /\ Named'
    BY <1>a, <1>b, <2>1, <2>2, <2>3 DEF Sizes, Named, Moved
  <2>5. handle' # 0 => Renewed(handle)'
    BY <1>a, <1>b, <2>1, <2>2 DEF Marks, Keeps, Data!Files
  <2> QED
    BY <1>a, <1>b, <2>1, <2>2, <2>3, <2>4, <2>5, DataKept DEF Data!TypeOK
<1>2. CASE Data!ResetSettings
  <2>1. /\ at \in {"down", "run"}
        /\ UNCHANGED <<docker, temp, fallback, handle, at, ioFaults, live, unmigrated, strayed,
                       broken, lost>>
    BY <1>2 DEF Data!ResetSettings, Data!history
  <2>2. /\ Keeps /\ Len(files') \in {Len(files), Len(files) + 1} /\ Data!Files \subseteq Data!Files'
        /\ \/ main' = main /\ main # 0 /\ Len(files') = Len(files)
           \/ main = 0 /\ main' # 0 /\ main' \notin Data!Files /\ main' \in Data!Files'
    <3>1. CASE main # 0
      <4> DEFINE c == [files[main] EXCEPT !.version = "none"]
      <4>1. main' = main /\ files' = [files EXCEPT ![main] = c]
        BY <1>2, <3>1 DEF Data!ResetSettings
      <4>2. main \in 1..Len(files) /\ files[main] \in Data!Content
        BY <1>a, <1>b, <3>1 DEF Data!TypeOK, Data!Files
      <4>3. c \in Data!Content /\ c.format = files[main].format /\ c.version = "none"
        BY <4>2 DEF Data!Content
      <4> HIDE DEF c
      <4>4. Keeps /\ Len(files') = Len(files)
        BY <2>1, <4>1, <4>2, <4>3, KeepsEdit
      <4> QED
        BY <3>1, <4>1, <4>4 DEF Data!Files
    <3>2. CASE main = 0
      <4>1. Data!Create
        BY <1>2, <3>2 DEF Data!ResetSettings
      <4> QED
        BY <2>1, <3>2, <4>1, CreateKeeps
    <3> QED
      BY <3>1, <3>2
  <2>3. Sizes'
    BY <1>a, <1>b, <2>1, <2>2 DEF Sizes, Moved
  <2>4. Named'
    BY <1>a, <1>b, <2>1, <2>2 DEF Named, Moved
  <2>5. /\ handle' # 0 => Renewed(handle)'
        /\ ~ (at' = "open" \/ at' = "migrated")
    BY <1>a, <1>b, <2>1, <2>2 DEF Marks, Keeps, Data!Files
  <2>6. main' # 0 => main' \notin {temp', fallback'}
    BY <1>a, <1>b, <2>1, <2>2 DEF Data!TypeOK
  <2> QED
    BY <1>a, <1>b, <2>1, <2>2, <2>3, <2>4, <2>5, <2>6, DataKept DEF Data!TypeOK
<1>3. CASE Data!Crash
  <2>1. /\ at # "down" /\ ioFaults < MaxIoFaults /\ ioFaults' = ioFaults + 1
        /\ at' = "down" /\ handle' = 0 /\ broken' = FALSE
        /\ strayed' = (strayed \/ at \in {"moved", "swapped", "migrated"})
        /\ UNCHANGED <<docker, files, main, temp, fallback, live, unmigrated, lost>>
    BY <1>3 DEF Data!Crash, Data!names
  <2>2. Keeps /\ Data!Files' = Data!Files /\ Len(files') = Len(files)
    BY <2>1, KeepsSame DEF Data!Files
  <2>3. Sizes'
    BY <1>a, <1>b, <2>1, <2>2 DEF Sizes, Moved, Data!BoundAssumption
  <2>4. Named'
    BY <1>a, <1>b, <2>1, <2>2 DEF Named, Moved
  <2> QED
    BY <1>a, <1>b, <2>1, <2>2, <2>3, <2>4, DataKept DEF Data!TypeOK, Data!Files
<1> QED
  BY <1>1, <1>2, <1>3

\* An import until the files are moved.
LEMMA EarlyStep ==
  ASSUME Data!BoundAssumption, DataInv,
         \/ Data!CloseOld \/ Data!Copy \/ Data!RemoveFallback \/ Data!FailEarly
         \/ \E c \in Data!Written : Data!CreateTemp(c)
  PROVE  DataInv'
<1>a. /\ Data!TypeOK /\ Sizes /\ Named /\ Marks
  BY DEF DataInv
<1>b. /\ Len(files) \in Nat /\ {main, temp, fallback, handle, live} \subseteq Data!Files
      /\ MaxFiles \in Nat /\ ioFaults \in Nat
  BY <1>a DEF Data!TypeOK, Named, Sizes, Data!BoundAssumption
<1>1. ASSUME NEW c \in Data!Written, Data!CreateTemp(c) PROVE DataInv'
  <2>1. /\ at = "run" /\ at' = "temp" /\ Len(files) < MaxFiles
        /\ files' = Append(files, c) /\ temp' = Len(files) + 1
        /\ UNCHANGED <<docker, main, fallback, handle, ioFaults, live, unmigrated, strayed,
                       broken, lost>>
    BY <1>1 DEF Data!CreateTemp, Data!Goes, Data!bounds, Data!history
  <2>2. c \in Data!Content /\ (c.version \in {"1.3", "now"} => c.format = "1.3")
    BY DEF Data!Written
  <2>3. Keeps /\ Len(files') = Len(files) + 1
    BY <2>1, <2>2, KeepsMore
  <2>4. /\ Data!Files \subseteq Data!Files'
        /\ temp' \in Data!Files' /\ temp' \notin Data!Files /\ temp' # 0
    BY <1>b, <2>1, <2>3 DEF Data!Files
  <2>5. Sizes'
    BY <1>a, <1>b, <2>1, <2>3, <2>4 DEF Sizes, Moved
  <2>6. Named'
    BY <1>a, <1>b, <2>1, <2>3, <2>4 DEF Named, Moved
  <2>7. handle' # 0 => Renewed(handle)'
    BY <1>a, <1>b, <2>1, <2>3 DEF Marks, Keeps, Data!Files
  <2> QED
    BY <1>a, <1>b, <2>1, <2>3, <2>4, <2>5, <2>6, <2>7, DataKept DEF Data!TypeOK, Data!Importing
<1>2. ASSUME UNCHANGED <<docker, files, main, temp, live, unmigrated, strayed>>,
             handle' \in {0, handle}, fallback' \in {0, fallback},
             at' \in {"closed", "copied", "cleared"}, Sizes', Named'
      PROVE  DataInv'
  <2>1. Keeps /\ Data!Files' = Data!Files
    BY <1>2, KeepsSame DEF Data!Files
  <2>2. handle' # 0 => Renewed(handle)'
    BY <1>a, <1>2 DEF Marks, Renewed
  <2>3. {main', temp', fallback', handle', live'} \subseteq Data!Files'
    <3>1. 0 \in Data!Files
      BY <1>b DEF Data!Files
    <3> QED
      BY <1>b, <1>2, <2>1, <3>1
  <2>4. main' # 0 => main' \notin {temp', fallback'}
    BY <1>a, <1>2 DEF Data!TypeOK
  <2> QED
    BY <1>2, <2>1, <2>2, <2>3, <2>4, DataKept DEF Data!Importing
<1>3. CASE Data!CloseOld \/ Data!Copy
  <2>1. /\ \/ at = "temp" /\ at' = "closed" /\ handle' = 0
           \/ at = "closed" /\ at' = "copied" /\ UNCHANGED handle
        /\ UNCHANGED <<docker, files, main, temp, fallback, ioFaults, live, unmigrated, strayed,
                       broken, lost>>
    BY <1>3 DEF Data!CloseOld, Data!Copy, Data!Goes, Data!names, Data!bounds, Data!history
  <2>2. Sizes' /\ Named'
    BY <1>a, <1>b, <2>1 DEF Sizes, Named, Moved, Data!Files
  <2> QED
    BY <1>2, <2>1, <2>2
<1>4. CASE Data!RemoveFallback
  <2>1. /\ at = "copied" /\ at' = "cleared" /\ fallback' = 0
        /\ lost' = (lost \/ (fallback = live /\ main # live))
        /\ UNCHANGED <<docker, files, main, temp, handle, ioFaults, live, unmigrated, strayed,
                       broken>>
    BY <1>4 DEF Data!RemoveFallback, Data!Goes, Data!bounds
  <2>2. Sizes'
    BY <1>a, <1>b, <2>1 DEF Sizes, Moved
  <2>3. Named'
    BY <1>a, <1>b, <2>1 DEF Named, Moved, Data!Files
  <2> QED
    BY <1>2, <2>1, <2>2, <2>3
<1>5. CASE Data!FailEarly
  <2>1. /\ at \in {"closed", "copied", "cleared"} /\ at' = "run"
        /\ \/ ioFaults < MaxIoFaults /\ ioFaults' = ioFaults + 1
           \/ ioFaults' = ioFaults
        /\ temp' = 0 /\ broken' = TRUE
        /\ UNCHANGED <<docker, files, main, fallback, handle, live, unmigrated, strayed, lost>>
    BY <1>5 DEF Data!FailEarly, Data!Failing
  <2>2. Keeps /\ Data!Files' = Data!Files /\ Len(files') = Len(files)
    BY <2>1, KeepsSame DEF Data!Files
  <2>3. Sizes'
    BY <1>a, <1>b, <2>1, <2>2 DEF Sizes, Moved, Data!BoundAssumption
  <2>4. Named'
    BY <1>a, <1>b, <2>1, <2>2 DEF Named, Moved
  <2>5. handle' # 0 => Renewed(handle)'
    BY <1>a, <2>1 DEF Marks, Renewed
  <2>6. 0 \in Data!Files
    BY <1>b DEF Data!Files
  <2> QED
    BY <1>a, <1>b, <2>1, <2>2, <2>3, <2>4, <2>5, <2>6, DataKept DEF Data!TypeOK
<1> QED
  BY <1>1, <1>3, <1>4, <1>5

\* The files are moved, the new one is migrated and opened.
LEMMA LateStep ==
  ASSUME Data!BoundAssumption, DataInv,
           Data!MoveMain \/ Data!MoveTemp \/ Data!MigrateImport \/ Data!Finish \/ Data!FailLate
  PROVE  DataInv'
<1>a. /\ Data!TypeOK /\ Sizes /\ Named /\ Marks
  BY DEF DataInv
<1>b. /\ Len(files) \in Nat /\ {main, temp, fallback, handle, live} \subseteq Data!Files
      /\ MaxFiles \in Nat /\ ioFaults \in Nat
  BY <1>a DEF Data!TypeOK, Named, Sizes, Data!BoundAssumption
<1>c. 0 \in Data!Files
  BY <1>b DEF Data!Files
<1>1. CASE Data!MoveMain
  <2>1. /\ at = "cleared" /\ at' = "moved" /\ main # 0 /\ fallback' = main /\ main' = 0
        /\ UNCHANGED <<docker, files, temp, handle, ioFaults, live, unmigrated, strayed, broken,
                       lost>>
    BY <1>1 DEF Data!MoveMain, Data!Goes, Data!bounds, Data!history
  <2>2. Keeps /\ Data!Files' = Data!Files
    BY <2>1, KeepsSame DEF Data!Files
  <2>3. Sizes'
    BY <1>a, <1>b, <2>1 DEF Sizes, Moved, Data!TypeOK
  <2>4. Named'
    BY <1>a, <1>b, <2>1, <2>2 DEF Named, Moved
  <2>5. handle' # 0 => Renewed(handle)'
    BY <1>a, <2>1 DEF Marks, Renewed
  <2> QED
    BY <1>a, <1>b, <1>c, <2>1, <2>2, <2>3, <2>4, <2>5, DataKept DEF Data!TypeOK, Data!Importing
<1>2. CASE Data!MoveTemp
  <2>1. /\ at = "moved" /\ at' = "swapped" /\ main' = temp /\ temp' = 0
        /\ UNCHANGED <<docker, files, fallback, handle, ioFaults, live, unmigrated, strayed,
                       broken, lost>>
    BY <1>2 DEF Data!MoveTemp, Data!Goes, Data!bounds, Data!history
  <2>2. Keeps /\ Data!Files' = Data!Files
    BY <2>1, KeepsSame DEF Data!Files
  <2>3. Sizes' /\ main' # 0 /\ main' # fallback'
    BY <1>a, <1>b, <2>1 DEF Sizes, Moved
  <2>4. Named'
    BY <1>a, <1>b, <2>1, <2>2 DEF Named, Moved
  <2>5. handle' # 0 => Renewed(handle)'
    BY <1>a, <2>1 DEF Marks, Renewed
  <2> QED
    BY <1>a, <1>b, <1>c, <2>1, <2>2, <2>3, <2>4, <2>5, DataKept DEF Data!TypeOK, Data!Importing
<1>3. CASE Data!MigrateImport
  <2>1. /\ at = "swapped" /\ Data!MigrateDb("migrated", "down") /\ main # 0
        /\ strayed' = (strayed \/ at' = "down")
        /\ UNCHANGED <<docker, main, temp, fallback, handle, ioFaults, live, broken, lost>>
    BY <1>3, <1>a DEF Data!MigrateImport, Data!names, Data!bounds, Sizes
  <2>2. /\ Keeps /\ Len(files') = Len(files) /\ Renewed(main)'
        /\ at' \in {"down", "migrated"}
    BY <2>1, MigrateKeeps
  <2>3. Data!Files' = Data!Files
    BY <2>2 DEF Data!Files
  <2>4. Sizes'
    BY <1>a, <1>b, <2>1, <2>2 DEF Sizes, Moved
  <2>5. Named'
    BY <1>a, <1>b, <2>1, <2>2, <2>3 DEF Named, Moved
  <2>6. handle' # 0 => Renewed(handle)'
    BY <1>a, <1>b, <2>1, <2>2 DEF Marks, Keeps, Data!Files
  <2> QED
    BY <1>a, <1>b, <2>1, <2>2, <2>3, <2>4, <2>5, <2>6, DataKept DEF Data!TypeOK, Data!Importing
<1>4. CASE Data!Finish
  <2>1. /\ at = "migrated" /\ at' = "run" /\ handle' = main /\ live' = main /\ fallback' = 0
        /\ strayed' = FALSE /\ broken' = FALSE /\ lost' = FALSE
        /\ UNCHANGED <<docker, files, main, temp, ioFaults, unmigrated>>
    BY <1>4 DEF Data!Finish, Data!Goes, Data!bounds
  <2>2. Keeps /\ Data!Files' = Data!Files
    BY <2>1, KeepsSame DEF Data!Files
  <2>3. Sizes' /\ main # 0
    BY <1>a, <1>b, <2>1 DEF Sizes, Moved
  <2>4. Named'
    BY <1>a, <1>b, <2>1, <2>2, <2>3 DEF Named, Moved, Data!TypeOK
  <2>5. handle' # 0 => Renewed(handle)'
    BY <1>a, <2>1 DEF Marks, Renewed
  <2> QED
    BY <1>a, <1>b, <1>c, <2>1, <2>2, <2>3, <2>4, <2>5, DataKept DEF Data!TypeOK
<1>5. CASE Data!FailLate
  <2>1. /\ at \in {"moved", "migrated"} /\ at' = "run"
        /\ ioFaults < MaxIoFaults /\ ioFaults' = ioFaults + 1
        /\ \/ main' = fallback /\ lost' = lost
           \/ main' = main /\ lost' = TRUE
        /\ fallback' = 0 /\ temp' = 0 /\ broken' = TRUE
        /\ handle' \in (IF at = "moved" THEN {0} ELSE {0, main})
        /\ UNCHANGED <<docker, files, live, unmigrated, strayed>>
    BY <1>5 DEF Data!FailLate, Data!Failing
  <2>2. Keeps /\ Data!Files' = Data!Files /\ Len(files') = Len(files)
    BY <2>1, KeepsSame DEF Data!Files
  <2>3. Sizes'
    BY <1>a, <1>b, <2>1, <2>2 DEF Sizes, Moved, Data!BoundAssumption
  <2>4. Named'
    <3>1. CASE main' = fallback /\ lost' = lost
      BY <1>a, <1>b, <2>1, <2>2, <3>1 DEF Named, Moved, Sizes
    <3>2. CASE main' = main /\ lost' = TRUE
      BY <1>a, <1>b, <2>1, <2>2, <3>2 DEF Named, Moved, Sizes, Data!TypeOK
    <3> QED
      BY <2>1, <3>1, <3>2
  <2>5. handle' # 0 => Renewed(handle)'
    BY <1>a, <2>1 DEF Marks, Renewed
  <2> QED
    BY <1>a, <1>b, <1>c, <2>1, <2>2, <2>3, <2>4, <2>5, DataKept DEF Data!TypeOK
<1> QED
  BY <1>1, <1>2, <1>3, <1>4, <1>5

\* The invariant of the database holds at the start.
LEMMA DataInitial == ASSUME Data!BoundAssumption, Data!Init PROVE DataInv
<1>1. PICK c \in Data!Written : files = <<c>>
  BY DEF Data!Init
<1>2. /\ files \in Seq(Data!Content) /\ Len(files) = 1 /\ files[1] = c
      /\ c.version \in {"1.3", "now"} => c.format = "1.3"
  BY <1>1 DEF Data!Written
<1>3. Data!Files = 0..1
  BY <1>2 DEF Data!Files
<1>4. Sizes /\ Named /\ Data!TypeOK
  BY <1>2, <1>3 DEF Data!BoundAssumption, Data!Init, Sizes, Named, Moved, Data!TypeOK
<1>5. Marks
  BY <1>2 DEF Data!Init, Marks, Renewed
<1> QED
  BY <1>4, <1>5 DEF DataInv, Data!Init

\* Every step keeps it.
LEMMA DataNext == Data!BoundAssumption /\ DataInv /\ [Data!Next]_Data!vars => DataInv'
<1> SUFFICES ASSUME Data!BoundAssumption, DataInv, [Data!Next]_Data!vars PROVE DataInv'
  OBVIOUS
<1>1. CASE UNCHANGED Data!vars
  <2>1. UNCHANGED <<docker, files, main, temp, fallback, handle, at, ioFaults, live, unmigrated,
                    strayed,
                    broken, lost>>
    BY <1>1 DEF Data!vars, Data!names, Data!bounds, Data!history
  <2> QED
    BY <2>1 DEF DataInv, Data!TypeOK, Data!Files, Sizes, Named, Moved, Marks, Renewed
<1>2. CASE Data!Next
  BY <1>2, OpenStep, SettingsStep, EarlyStep, LateStep DEF Data!Next, Data!Import
<1> QED
  BY <1>1, <1>2

\* Whatever crashes and fails while a database is imported (ImportDB): the panel's data is lost
\* exactly when an import removes a fallback that a dead process has left, or cannot give the old
\* file its name back (Kept); a panel at work has its data open (OnItsData), and a file that says
\* it is up to date is (Stamped), with the exceptions named there.
THEOREM DataAlways == Data!Spec => [](Data!TypeOK /\ OnItsData)
<1>1. Data!Init => DataInv
  BY DataAssumption, DataInitial
<1>2. DataInv /\ [Data!Next]_Data!vars => DataInv'
  BY DataAssumption, DataNext
<1>3. DataInv => Data!TypeOK /\ OnItsData
  <2> SUFFICES ASSUME DataInv PROVE Data!Kept /\ Data!OnItsData /\ Data!Stamped
    BY DEF DataInv, OnItsData
  <2>1. Data!Kept /\ Data!OnItsData
    BY DEF DataInv, Named, Moved, Data!Kept, Data!OnItsData
  <2>2. DOMAIN files = 1..Len(files)
    BY DEF DataInv, Data!TypeOK
  <2>3. Data!Stamped
    BY <2>2 DEF DataInv, Marks, Renewed, Data!Stamped
  <2> QED
    BY <2>1, <2>3
<1> QED
  BY <1>1, <1>2, <1>3, PTL DEF Data!Spec

-----------------------------------------------------------------------------
\* The variables of both have their types whichever of them moves, as in the run `process`.
THEOREM PartsTypeCorrect == MCSpec => []PartsTypeOK
<1> USE AppAssumption, DataAssumption
<1>1. MCInit => AppInv /\ DataInv
  BY AppInitial, DataInitial DEF MCInit, AppAtRest
<1>2. AppInv /\ DataInv /\ [MCNext]_<<part, vars, dataVars, oldVars>> => AppInv' /\ DataInv'
  <2> SUFFICES ASSUME AppInv, DataInv, [MCNext]_<<part, vars, dataVars, oldVars>>
               PROVE  AppInv' /\ DataInv'
    OBVIOUS
  <2>1. [Next]_vars
    BY DEF MCNext
  <2>2. [Data!Next]_Data!vars
    <3>1. UNCHANGED dataVars => UNCHANGED Data!vars
      BY DEF dataVars, Data!vars, Data!names, Data!bounds, Data!history
    <3> QED
      BY <3>1 DEF MCNext
  <2> QED
    BY <2>1, <2>2, AppNext, DataNext
<1>3. AppInv /\ DataInv => PartsTypeOK
  BY DEF AppInv, Types, DataInv, PartsTypeOK
<1> QED
  BY <1>1, <1>2, <1>3, PTL DEF MCSpec

-----------------------------------------------------------------------------
(* Migration (Old), for any installation.  Numbers first: a set that does not have them all *)
(* lacks a smallest one.                                                                    *)

\* A set of numbers has a smallest.
LEMMA Smallest ==
  ASSUME NEW T, T \subseteq Nat, T # {}
  PROVE  \E i \in T : \A j \in T : i <= j
<1>1. PICK i \in T : \A j \in T : ~ <<j, i>> \in OpToRel(<, Nat)
  BY NatLessThanWellFounded, WFMin
<1>2. \A j \in T : ~ (j < i)
  BY <1>1 DEF OpToRel
<1> QED BY <1>2

\* A bounded set of numbers has a largest: the smallest of its bounds.
LEMMA Largest ==
  ASSUME NEW n \in Nat, NEW T, T \subseteq 1..n, T # {}
  PROVE  \E i \in T : \A j \in T : j <= i
<1> DEFINE U == {k \in Nat : \A j \in T : j <= k}
<1>1. U \subseteq Nat /\ U # {}
  <2>1. n \in U
    OBVIOUS
  <2> QED BY <2>1
<1>2. PICK k \in U : \A j \in U : k <= j
  <2> HIDE DEF U
  <2> QED BY <1>1, Smallest
<1>3. k \in T
  <2> SUFFICES ASSUME k \notin T PROVE FALSE
    OBVIOUS
  <2>1. k \in Nat /\ \A j \in T : j \in Nat /\ j <= k /\ j # k /\ j >= 1
    OBVIOUS
  <2>2. PICK j \in T : TRUE
    OBVIOUS
  <2>3. j \in Nat /\ j >= 1 /\ j <= k
    BY <2>1
  <2>4. k - 1 \in Nat
    BY <2>1, <2>3
  <2>5. \A i \in T : i <= k - 1
    BY <2>1
  <2>6. k - 1 \in U
    BY <2>4, <2>5
  <2> QED BY <1>2, <2>1, <2>6
<1> QED BY <1>3

\* A set of numbers with 0 and with every successor has all numbers.
LEMMA AllNumbers ==
  ASSUME NEW T, 0 \in T, \A n \in Nat : n \in T => n + 1 \in T
  PROVE  Nat \subseteq T
<1> DEFINE Missing == Nat \ T
<1> SUFFICES ASSUME Missing # {} PROVE FALSE
  OBVIOUS
<1>1. PICK n \in Missing : \A m \in Missing : n <= m
  <2>1. Missing \subseteq Nat
    OBVIOUS
  <2> HIDE DEF Missing
  <2> QED BY <2>1, Smallest
<1>2. n \in Nat /\ n # 0 /\ n - 1 \in Nat
  OBVIOUS
<1>3. n - 1 \in T
  BY <1>1, <1>2
<1> QED BY <1>2, <1>3

\* The entries of a sequence.
LEMMA EntryOf == \A S : \A s \in Seq(S) : DOMAIN s = 1..Len(s) /\ \A n \in DOMAIN s : s[n] \in S
OBVIOUS

\* A list of the installation is a sequence.
LEMMA UpToSeq == \A n \in Nat : \A S : \A s \in Old!UpTo(n, S) : s \in Seq(S)
BY DEF Old!UpTo

-----------------------------------------------------------------------------
(* What an installation is, and what each migration makes of it. *)

Row == [settings : Contents, tags : SUBSET Tags]
InstalledInbounds ==
  /\ old.inbounds \in Seq(Old!Inbound)
  /\ \A i, j \in DOMAIN old.inbounds : old.inbounds[i].tag = old.inbounds[j].tag => i = j
  /\ old.tls \in Seq(Row)
  /\ \A k, n \in DOMAIN old.tls : old.tls[k].settings = old.tls[n].settings => k = n
  /\ \A k \in DOMAIN old.tls : \A t \in old.tls[k].tags :
       \E i \in DOMAIN old.inbounds :
         old.inbounds[i].tag = t /\ old.inbounds[i].tls = old.tls[k].settings
InstalledRoutes ==
  /\ old.outbounds \subseteq Old!Outbound /\ old.outbounds # {}
  /\ \A o, p \in old.outbounds : o.tag = p.tag => o = p
  /\ old.rules \in Seq([outbound : {o.tag : o \in old.outbounds}, action : {None}, sniffed : BOOLEAN])
  /\ old.final \in {None} \union {o.tag : o \in old.outbounds}
InstalledServers == old.servers \in Seq(Old!OldServer)

\* Up to a migration the tables are as they were; from then on they say what the properties say.
OldInv ==
  /\ InstalledInbounds /\ InstalledRoutes /\ InstalledServers
  /\ version = "1.1" => /\ inbounds = old.inbounds /\ tls = old.tls /\ clients = old.clients
                        /\ outbounds = old.outbounds /\ rules = old.rules
  /\ version # "1.3" => servers = old.servers
  /\ final = old.final
  /\ InboundsKept /\ RoutesKept

\* The installations of Init.
LEMMA InstalledInit == Old!Installation => InstalledInbounds /\ InstalledRoutes /\ InstalledServers
<1> USE OldAssumption DEF Old!BoundAssumption, Old!NameAssumption
<1> DEFINE direct == [tag |-> 1, type |-> "direct"]
<1>1. /\ Old!Simple.inbounds = <<>> /\ Old!Simple.tls = <<>> /\ Old!Simple.outbounds = {direct}
      /\ Old!Simple.rules = <<>> /\ Old!Simple.servers = <<>> /\ Old!Simple.final = None
  BY DEF Old!Simple
<1>2. direct \in Old!Outbound
  BY DEF Old!Outbound, Old!OutTags
<1>3. CASE \E inb \in Old!OldInbounds : \E t \in Old!OldTls(inb) :
             old = [Old!Simple EXCEPT !.inbounds = inb, !.tls = t]
  <2>0. PICK inb \in Old!OldInbounds : \E t \in Old!OldTls(inb) :
          old = [Old!Simple EXCEPT !.inbounds = inb, !.tls = t]
    BY <1>3
  <2>1. PICK t \in Old!OldTls(inb) : old = [Old!Simple EXCEPT !.inbounds = inb, !.tls = t]
    BY <2>0
  <2>2. /\ old.inbounds = inb /\ old.tls = t /\ old.outbounds = {direct} /\ old.rules = <<>>
        /\ old.servers = <<>> /\ old.final = None
    BY <1>1, <2>1 DEF Old!Simple
  <2>3. inb \in Seq(Old!Inbound) /\ \A i, j \in DOMAIN inb : inb[i].tag = inb[j].tag => i = j
    BY UpToSeq DEF Old!OldInbounds
  <2>4. PICK order \in Old!Orders, listed \in SUBSET DOMAIN inb :
          t = [i \in DOMAIN order |->
                 [settings |-> order[i],
                  tags |-> {inb[n].tag : n \in {m \in listed : inb[m].tls = order[i]}}]]
    BY DEF Old!OldTls
  <2>5. order \in Seq(Contents) /\ \A i, j \in DOMAIN order : order[i] = order[j] => i = j
    BY UpToSeq DEF Old!Orders
  <2>6. \A n \in DOMAIN inb : inb[n].tag \in Tags
    <3>1. \A n \in DOMAIN inb : inb[n] \in Old!Inbound
      BY <2>3, EntryOf, Zenon
    <3> QED BY <3>1 DEF Old!Inbound
  <2>7. ASSUME NEW k \in DOMAIN t
        PROVE  /\ t[k] \in Row /\ t[k].settings = order[k] /\ k \in DOMAIN order
               /\ \A u \in t[k].tags : \E i \in DOMAIN inb : inb[i].tag = u /\ inb[i].tls = t[k].settings
    <3>1. /\ k \in DOMAIN order /\ order[k] \in Contents
          /\ t[k] = [settings |-> order[k],
                     tags |-> {inb[n].tag : n \in {m \in listed : inb[m].tls = order[k]}}]
      BY <2>4, <2>5
    <3>2. {inb[n].tag : n \in {m \in listed : inb[m].tls = order[k]}} \subseteq Tags
      BY <2>6
    <3> QED BY <3>1, <3>2 DEF Row
  <2>8. t \in Seq(Row)
    <3>1. DOMAIN t = 1..Len(order) /\ Len(order) \in Nat
      BY <2>4, <2>5
    <3>2. t = [k \in 1..Len(order) |-> t[k]]
      BY <2>4, <3>1
    <3>3. t \in [1..Len(order) -> Row]
      BY <2>7, <3>1, <3>2
    <3> QED BY <3>1, <3>3
  <2>9. InstalledInbounds
    BY <2>2, <2>3, <2>5, <2>7, <2>8 DEF InstalledInbounds
  <2> QED BY <1>2, <2>2, <2>9 DEF InstalledRoutes, InstalledServers
<1>4. CASE \E out \in Old!OldOutbounds :
             \E r \in Old!OldRules(out), f \in {None} \union {p.tag : p \in out} :
               old = [Old!Simple EXCEPT !.outbounds = out, !.rules = r, !.final = f]
  <2>0. PICK out \in Old!OldOutbounds :
          \E r \in Old!OldRules(out), f \in {None} \union {p.tag : p \in out} :
            old = [Old!Simple EXCEPT !.outbounds = out, !.rules = r, !.final = f]
    BY <1>4
  <2>1. PICK r \in Old!OldRules(out), f \in {None} \union {p.tag : p \in out} :
          old = [Old!Simple EXCEPT !.outbounds = out, !.rules = r, !.final = f]
    BY <2>0
  <2>2. /\ old.inbounds = <<>> /\ old.tls = <<>> /\ old.outbounds = out /\ old.rules = r
        /\ old.servers = <<>> /\ old.final = f
    BY <1>1, <2>1 DEF Old!Simple
  <2>3. out \subseteq Old!Outbound /\ out # {} /\ \A o, p \in out : o.tag = p.tag => o = p
    BY DEF Old!OldOutbounds
  <2>4. r \in Seq([outbound : {o.tag : o \in out}, action : {None}, sniffed : BOOLEAN])
    BY UpToSeq DEF Old!OldRules
  <2> QED BY <2>2, <2>3, <2>4 DEF InstalledInbounds, InstalledRoutes, InstalledServers
<1>5. CASE \E s \in Old!UpTo(MaxServers, Old!OldServer) : old = [Old!Simple EXCEPT !.servers = s]
  <2>1. PICK s \in Old!UpTo(MaxServers, Old!OldServer) : old = [Old!Simple EXCEPT !.servers = s]
    BY <1>5
  <2>2. /\ old.inbounds = <<>> /\ old.tls = <<>> /\ old.outbounds = {direct} /\ old.rules = <<>>
        /\ old.servers = s /\ old.final = None
    BY <1>1, <2>1 DEF Old!Simple
  <2>3. s \in Seq(Old!OldServer)
    BY UpToSeq
  <2> QED BY <1>2, <2>2, <2>3 DEF InstalledInbounds, InstalledRoutes, InstalledServers
<1>6. CASE \E p \in [Clients -> SUBSET {"trojan", "anytls"}] : old = [Old!Simple EXCEPT !.protocols = p]
  <2>1. /\ old.inbounds = <<>> /\ old.tls = <<>> /\ old.outbounds = {direct} /\ old.rules = <<>>
        /\ old.servers = <<>> /\ old.final = None
    BY <1>1, <1>6 DEF Old!Simple
  <2> QED BY <1>2, <2>1 DEF InstalledInbounds, InstalledRoutes, InstalledServers
<1>7. CASE \E inb \in Old!OldInbounds, c \in [Clients -> SUBSET Tags] :
             old = [Old!Simple EXCEPT !.inbounds = inb, !.clients = c]
  <2>1. PICK inb \in Old!OldInbounds, c \in [Clients -> SUBSET Tags] :
          old = [Old!Simple EXCEPT !.inbounds = inb, !.clients = c]
    BY <1>7
  <2>2. /\ old.inbounds = inb /\ old.tls = <<>> /\ old.outbounds = {direct} /\ old.rules = <<>>
        /\ old.servers = <<>> /\ old.final = None
    BY <1>1, <2>1 DEF Old!Simple
  <2>3. inb \in Seq(Old!Inbound) /\ \A i, j \in DOMAIN inb : inb[i].tag = inb[j].tag => i = j
    BY UpToSeq DEF Old!OldInbounds
  <2> QED BY <1>2, <2>2, <2>3 DEF InstalledInbounds, InstalledRoutes, InstalledServers
<1> QED BY <1>3, <1>4, <1>5, <1>6, <1>7 DEF Old!Installation

\* Before the first migration there is nothing to keep.
LEMMA OldInit == Old!Init => OldInv
BY InstalledInit DEF Old!Init, OldInv, InboundsKept, Old!InboundsKept, Old!TlsShared, RoutesKept,
   Old!RoutesKept, Old!ServersReached, Old!Migrated

-----------------------------------------------------------------------------
(* The inbounds move into their table. *)

\* What Bind has made of the first n inbounds: every one has its tag, and the TLS record that
\* lists its tag, or a new one with its settings.
Bound(moved, i) ==
  IF old.inbounds[i].tls = None THEN moved.inbounds[i].tls = 0
  ELSE /\ moved.inbounds[i].tls \in DOMAIN moved.tls
       /\ IF Old!Matches(old.tls, old.inbounds[i].tag) = {}
          THEN moved.tls[moved.inbounds[i].tls].settings = old.inbounds[i].tls
          ELSE moved.inbounds[i].tls \in Old!Matches(old.tls, old.inbounds[i].tag)
Appended(t) ==
  /\ t \in Seq(Row) /\ Len(old.tls) <= Len(t)
  /\ \A k \in DOMAIN t : IF k <= Len(old.tls) THEN t[k] = old.tls[k] ELSE t[k].tags = {}
MovedUpTo(moved, n) ==
  /\ moved.inbounds \in Seq([tag : Tags, tls : Nat]) /\ Len(moved.inbounds) = n
  /\ \A i \in 1..n : moved.inbounds[i].tag = old.inbounds[i].tag /\ Bound(moved, i)
  /\ Appended(moved.tls)

\* Records that are appended match no tag.
LEMMA AppendedMatches ==
  ASSUME InstalledInbounds, NEW t, Appended(t), NEW tag
  PROVE  Old!Matches(t, tag) = Old!Matches(old.tls, tag)
<1>1. /\ DOMAIN t = 1..Len(t) /\ DOMAIN old.tls = 1..Len(old.tls)
      /\ Len(t) \in Nat /\ Len(old.tls) \in Nat /\ Len(old.tls) <= Len(t)
  BY DEF Appended, InstalledInbounds
<1>2. \A k \in DOMAIN t : /\ k <= Len(old.tls) => t[k] = old.tls[k]
                          /\ ~ (k <= Len(old.tls)) => t[k].tags = {}
  BY DEF Appended
<1>3. \A k \in DOMAIN old.tls : k \in DOMAIN t /\ t[k] = old.tls[k]
  BY <1>1, <1>2
<1>4. \A k \in DOMAIN t : \A u \in t[k].tags : k \in DOMAIN old.tls /\ t[k] = old.tls[k]
  BY <1>1, <1>2
<1> QED BY <1>3, <1>4, Zenon DEF Old!Matches

\* The row that is found is one that matches.
LEMMA RowMatches ==
  ASSUME NEW t \in Seq(Row), NEW tag, Old!Matches(t, tag) # {}
  PROVE  Old!TlsRow(t, tag) \in Old!Matches(t, tag)
<1>1. Old!Matches(t, tag) \subseteq 1..Len(t) /\ Len(t) \in Nat
  BY DEF Old!Matches
<1>2. \E i \in Old!Matches(t, tag) : \A j \in Old!Matches(t, tag) : j <= i
  BY <1>1, Largest
<1> QED BY <1>2, Zenon DEF Old!TlsRow

\* One more inbound.
LEMMA BindMoves ==
  ASSUME InstalledInbounds, NEW n \in Nat, n + 1 <= Len(old.inbounds), NEW moved, MovedUpTo(moved, n)
  PROVE  MovedUpTo(Old!Bind(moved, old.inbounds[n + 1]), n + 1)
<1> DEFINE inb == old.inbounds[n + 1]
           row == Old!TlsRow(moved.tls, inb.tag)
           new == row = 0 /\ inb.tls # None
           t == IF new THEN Append(moved.tls, [settings |-> inb.tls, tags |-> {}]) ELSE moved.tls
           id == IF inb.tls = None THEN 0 ELSE IF new THEN Len(moved.tls) + 1 ELSE row
           more == [tls |-> t, inbounds |-> Append(moved.inbounds, [tag |-> inb.tag, tls |-> id])]
<1>1. Old!Bind(moved, old.inbounds[n + 1]) = more
  BY DEF Old!Bind
<1>2. inb.tag \in Tags /\ inb.tls \in Contents \union {None}
  <2>1. inb \in Old!Inbound
    BY EntryOf DEF InstalledInbounds
  <2> HIDE DEF inb
  <2> QED BY <2>1 DEF Old!Inbound
<1>3. /\ moved.inbounds \in Seq([tag : Tags, tls : Nat]) /\ Len(moved.inbounds) = n
      /\ \A i \in 1..n : moved.inbounds[i].tag = old.inbounds[i].tag /\ Bound(moved, i)
      /\ Appended(moved.tls) /\ moved.tls \in Seq(Row) /\ Len(moved.tls) \in Nat
      /\ DOMAIN moved.tls = 1..Len(moved.tls)
  BY DEF MovedUpTo, Appended
<1>4. Old!Matches(moved.tls, inb.tag) = Old!Matches(old.tls, inb.tag)
  BY <1>3, AppendedMatches
<1>5. \/ Old!Matches(old.tls, inb.tag) = {} /\ row = 0
      \/ /\ Old!Matches(old.tls, inb.tag) # {} /\ row \in Old!Matches(old.tls, inb.tag)
         /\ row \in 1..Len(moved.tls) /\ row # 0
  <2>1. CASE Old!Matches(old.tls, inb.tag) = {}
    BY <1>4, <2>1 DEF Old!TlsRow
  <2>2. CASE Old!Matches(old.tls, inb.tag) # {}
    <3>1. row \in Old!Matches(moved.tls, inb.tag)
      BY <1>3, <1>4, <2>2, RowMatches
    <3>2. row \in DOMAIN moved.tls
      BY <3>1 DEF Old!Matches
    <3> HIDE DEF row
    <3> QED BY <1>3, <1>4, <2>2, <3>1, <3>2
  <2> QED BY <2>1, <2>2
<1>6. inb = old.inbounds[n + 1]
  OBVIOUS
<1> HIDE DEF row, inb
<1>7. /\ t \in Seq(Row) /\ Len(t) >= Len(moved.tls) /\ DOMAIN t = 1..Len(t)
      /\ \A k \in DOMAIN moved.tls : t[k] = moved.tls[k]
      /\ \A k \in DOMAIN t \ DOMAIN moved.tls : t[k].tags = {}
      /\ new => Len(t) = Len(moved.tls) + 1 /\ t[Len(moved.tls) + 1].settings = inb.tls
  <2>1. CASE new
    <3> DEFINE last == [settings |-> inb.tls, tags |-> {}]
    <3>1. last \in Row /\ last.tags = {} /\ last.settings = inb.tls
      BY <1>2, <2>1 DEF Row
    <3>2. t = Append(moved.tls, last)
      BY <2>1
    <3> HIDE DEF last, t
    <3>3. /\ t \in Seq(Row) /\ Len(t) = Len(moved.tls) + 1 /\ DOMAIN t = 1..(Len(moved.tls) + 1)
          /\ t[Len(moved.tls) + 1] = last /\ \A k \in 1..Len(moved.tls) : t[k] = moved.tls[k]
      BY <1>3, <3>1, <3>2
    <3> QED BY <1>3, <3>1, <3>3
  <2>2. CASE ~ new
    BY <1>3, <2>2
  <2> QED BY <2>1, <2>2
<1>8. id \in Nat /\ (inb.tls # None => id \in DOMAIN t)
  BY <1>3, <1>5, <1>7
<1>9. (new => id = Len(moved.tls) + 1) /\ (inb.tls = None => id = 0) /\ (inb.tls # None /\ ~ new => id = row)
  OBVIOUS
<1>10. new <=> row = 0 /\ inb.tls # None
  OBVIOUS
<1> HIDE DEF t, id, new
<1>11. Appended(t)
  <2>1. Len(old.tls) <= Len(moved.tls) /\ Len(old.tls) \in Nat /\ Len(t) \in Nat
    <3>1. Len(old.tls) <= Len(moved.tls)
      BY <1>3 DEF Appended
    <3>2. old.tls \in Seq(Row) /\ t \in Seq(Row)
      BY <1>7 DEF InstalledInbounds
    <3> QED BY <3>1, <3>2
  <2>2. ASSUME NEW k \in DOMAIN t
        PROVE  IF k <= Len(old.tls) THEN t[k] = old.tls[k] ELSE t[k].tags = {}
    <3>1. CASE k \in DOMAIN moved.tls
      BY <1>3, <1>7, <3>1 DEF Appended
    <3>2. CASE k \notin DOMAIN moved.tls
      <4>1. t[k].tags = {}
        BY <1>7, <3>2
      <4>2. k \in 1..Len(t) /\ k \notin 1..Len(moved.tls)
        BY <1>3, <1>7, <3>2
      <4>3. ~ (k <= Len(old.tls))
        BY <1>3, <2>1, <4>2
      <4> QED BY <4>1, <4>3
    <3> QED BY <3>1, <3>2
  <2>3. t \in Seq(Row) /\ Len(old.tls) <= Len(t)
    <3>1. t \in Seq(Row) /\ Len(t) >= Len(moved.tls)
      BY <1>7
    <3> QED BY <1>3, <2>1, <3>1
  <2> QED BY <2>2, <2>3, Zenon DEF Appended
<1>12. /\ more.inbounds \in Seq([tag : Tags, tls : Nat]) /\ Len(more.inbounds) = n + 1
       /\ \A i \in 1..n : more.inbounds[i] = moved.inbounds[i]
       /\ more.inbounds[n + 1].tag = inb.tag /\ more.inbounds[n + 1].tls = id
       /\ more.tls = t
  <2> DEFINE last == [tag |-> inb.tag, tls |-> id]
  <2>1. last \in [tag : Tags, tls : Nat] /\ last.tag = inb.tag /\ last.tls = id
    BY <1>2, <1>8
  <2>2. more.inbounds = Append(moved.inbounds, last) /\ more.tls = t
    OBVIOUS
  <2> HIDE DEF more, last
  <2> QED BY <1>3, <2>1, <2>2
<1> HIDE DEF more
<1>13. \A i \in 1..n : more.inbounds[i].tag = old.inbounds[i].tag /\ Bound(more, i)
  <2> SUFFICES ASSUME NEW i \in 1..n
               PROVE  more.inbounds[i].tag = old.inbounds[i].tag /\ Bound(more, i)
    OBVIOUS
  <2>1. moved.inbounds[i].tag = old.inbounds[i].tag /\ Bound(moved, i)
    BY <1>3
  <2>2. more.inbounds[i] = moved.inbounds[i] /\ more.tls = t
    BY <1>12
  <2>3. \A k \in DOMAIN moved.tls : k \in DOMAIN t /\ t[k] = moved.tls[k]
    <3>1. \A k \in DOMAIN moved.tls : t[k] = moved.tls[k]
      BY <1>7
    <3>2. /\ DOMAIN moved.tls = 1..Len(moved.tls) /\ DOMAIN t = 1..Len(t)
          /\ Len(t) >= Len(moved.tls) /\ Len(moved.tls) \in Nat
      BY <1>3, <1>7
    <3>3. Len(t) \in Nat
      <4>1. t \in Seq(Row)
        BY <1>7
      <4> QED BY <4>1
    <3>4. \A k \in DOMAIN moved.tls : k \in DOMAIN t
      BY <3>2, <3>3
    <3> QED BY <3>1, <3>4
  <2> QED BY <2>1, <2>2, <2>3, Zenon DEF Bound
<1>14. Bound(more, n + 1)
  <2>1. CASE inb.tls = None
    BY <1>6, <1>9, <1>12, <2>1 DEF Bound
  <2>2. CASE inb.tls # None
    BY <1>5, <1>6, <1>7, <1>8, <1>9, <1>10, <1>12, <2>2 DEF Bound
  <2> QED BY <2>1, <2>2
<1>15. MovedUpTo(more, n + 1)
  <2>1. \A i \in 1..(n + 1) : i \in 1..n \/ i = n + 1
    OBVIOUS
  <2> QED BY <1>6, <1>11, <1>12, <1>13, <1>14, <2>1 DEF MovedUpTo
<1> QED BY <1>1, <1>15

\* MoveInbounds goes along the inbounds with a function; such a function exists.
Walks(f, n) ==
  f = [k \in 0..n |-> IF k = 0 THEN [tls |-> tls, inbounds |-> <<>>] ELSE Old!Bind(f[k - 1], inbounds[k])]

\* There is one for every number of inbounds.
LEMMA WalkSome == \A n \in Nat : \E f : Walks(f, n)
<1> DEFINE T == {n \in Nat : \E f : Walks(f, n)}
<1>1. 0 \in T
  <2>1. Walks([k \in 0..0 |-> [tls |-> tls, inbounds |-> <<>>]], 0)
    BY DEF Walks
  <2> QED BY <2>1
<1>2. ASSUME NEW n \in Nat, n \in T PROVE n + 1 \in T
  <2>1. PICK f : Walks(f, n)
    BY <1>2
  <2> DEFINE last == Old!Bind(f[n], inbounds[n + 1])
             g == [k \in 0..(n + 1) |-> IF k = n + 1 THEN last ELSE f[k]]
  <2>2. \A k \in 0..n : f[k] = IF k = 0 THEN [tls |-> tls, inbounds |-> <<>>]
                               ELSE Old!Bind(f[k - 1], inbounds[k])
    BY <2>1 DEF Walks
  <2>3. g[n + 1] = last /\ \A k \in 0..n : g[k] = f[k]
    OBVIOUS
  <2>4. ASSUME NEW k \in 0..(n + 1)
        PROVE  g[k] = IF k = 0 THEN [tls |-> tls, inbounds |-> <<>>]
                      ELSE Old!Bind(g[k - 1], inbounds[k])
    <3>1. CASE k = 0
      <4> HIDE DEF g
      <4> QED BY <2>2, <2>3, <3>1
    <3>2. CASE k \in 1..n
      <4>1. k - 1 \in 0..n /\ k \in 0..n /\ k # 0
        BY <3>2
      <4> HIDE DEF g
      <4> QED BY <2>2, <2>3, <4>1
    <3>3. CASE k = n + 1
      <4>1. n \in 0..n /\ k - 1 = n /\ k # 0
        BY <3>3
      <4> HIDE DEF g
      <4> QED BY <2>3, <3>3, <4>1
    <3> QED BY <3>1, <3>2, <3>3
  <2>5. Walks(g, n + 1)
    <3>1. g = [k \in 0..(n + 1) |-> g[k]]
      OBVIOUS
    <3> HIDE DEF g
    <3>2. [k \in 0..(n + 1) |-> g[k]]
            = [k \in 0..(n + 1) |-> IF k = 0 THEN [tls |-> tls, inbounds |-> <<>>]
                                    ELSE Old!Bind(g[k - 1], inbounds[k])]
      BY <2>4
    <3> QED BY <3>1, <3>2 DEF Walks
  <2> QED BY <2>5
<1> HIDE DEF T
<1>3. Nat \subseteq T
  BY <1>1, <1>2, AllNumbers
<1> QED BY <1>3 DEF T

\* What has become of all inbounds.
LEMMA AllMoved ==
  ASSUME InstalledInbounds, inbounds = old.inbounds, tls = old.tls
  PROVE  MovedUpTo(Old!MoveInbounds, Len(old.inbounds))
<1> DEFINE last == Len(old.inbounds)
           f == CHOOSE g : Walks(g, last)
<1>1. last \in Nat /\ Len(inbounds) = last
  BY DEF InstalledInbounds
<1>2. Old!MoveInbounds = f[last]
  BY <1>1 DEF Old!MoveInbounds, Walks
<1>3. Walks(f, last)
  <2>1. \E g : Walks(g, last)
    BY <1>1, WalkSome
  <2> QED BY <2>1, Zenon
<1> HIDE DEF f
<1> DEFINE T == {n \in Nat : n <= last => MovedUpTo(f[n], n)}
<1>4. 0 \in T
  <2>1. f[0] = [tls |-> tls, inbounds |-> <<>>]
    BY <1>1, <1>3 DEF Walks
  <2>2. Appended(tls)
    BY DEF Appended, InstalledInbounds
  <2>3. <<>> \in Seq([tag : Tags, tls : Nat]) /\ Len(<<>>) = 0
    OBVIOUS
  <2>4. MovedUpTo(f[0], 0)
    BY <2>1, <2>2, <2>3 DEF MovedUpTo
  <2> QED BY <2>4
<1>5. ASSUME NEW n \in Nat, n \in T PROVE n + 1 \in T
  <2> SUFFICES ASSUME n + 1 <= last PROVE MovedUpTo(f[n + 1], n + 1)
    OBVIOUS
  <2>1. MovedUpTo(f[n], n)
    BY <1>1, <1>5
  <2>2. f[n + 1] = Old!Bind(f[n], old.inbounds[n + 1])
    <3>1. n + 1 \in 0..last /\ n + 1 # 0 /\ (n + 1) - 1 = n
      BY <1>1
    <3> QED BY <1>3, <3>1 DEF Walks
  <2> QED BY <2>1, <2>2, BindMoves
<1>6. Nat \subseteq T
  <2> HIDE DEF T
  <2> QED BY <1>4, <1>5, AllNumbers
<1> QED BY <1>1, <1>2, <1>6

-----------------------------------------------------------------------------
(* To 1.2. *)

\* The TLS settings of an inbound, and those with which it shares a record.
LEMMA InboundsMigrate ==
  ASSUME OldInv, Old!To1_2
  PROVE  InboundsKept'
<1> DEFINE moved == Old!MoveInbounds
           last == Len(old.inbounds)
<1>1. /\ InstalledInbounds /\ old' = old
      /\ inbounds = old.inbounds /\ tls = old.tls /\ clients = old.clients
      /\ inbounds' = moved.inbounds
      /\ tls' = [i \in DOMAIN moved.tls |-> [settings |-> moved.tls[i].settings, tags |-> {}]]
      /\ clients' = [c \in Clients |-> Old!Ids(moved.inbounds, clients[c])]
  BY DEF OldInv, Old!To1_2
<1>2. MovedUpTo(moved, last)
  BY <1>1, AllMoved
<1> HIDE DEF moved
<1>3. /\ DOMAIN old.inbounds = 1..last /\ DOMAIN inbounds' = 1..last /\ last \in Nat
      /\ DOMAIN old.tls = 1..Len(old.tls) /\ DOMAIN moved.tls = 1..Len(moved.tls)
      /\ Len(old.tls) \in Nat /\ Len(moved.tls) \in Nat
  BY <1>1, <1>2 DEF MovedUpTo, Appended, InstalledInbounds
<1>4. \A k \in DOMAIN moved.tls : tls'[k].settings = moved.tls[k].settings
  BY <1>1
<1>5. ASSUME NEW i \in 1..last
      PROVE  /\ inbounds'[i].tag = old.inbounds[i].tag /\ old.inbounds[i].tag \in Tags
             /\ Bound(moved, i) /\ inbounds'[i].tls = moved.inbounds[i].tls
  <2>1. old.inbounds[i] \in Old!Inbound
    BY <1>1, <1>3, EntryOf DEF InstalledInbounds
  <2> QED BY <1>1, <1>2, <2>1 DEF MovedUpTo, Old!Inbound
<1>6. ASSUME NEW k \in DOMAIN old.tls, NEW t \in old.tls[k].tags, NEW i \in 1..last,
             old.inbounds[i].tag = t
      PROVE  old.inbounds[i].tls = old.tls[k].settings /\ old.tls[k].settings \in Contents
  <2>1. PICK j \in DOMAIN old.inbounds : old.inbounds[j].tag = t /\ old.inbounds[j].tls = old.tls[k].settings
    BY <1>1 DEF InstalledInbounds
  <2>2. j = i
    BY <1>1, <1>3, <1>6, <2>1 DEF InstalledInbounds
  <2>3. old.tls[k] \in Row
    BY <1>1, EntryOf DEF InstalledInbounds
  <2> QED BY <2>1, <2>2, <2>3 DEF Row
<1>7. ASSUME NEW i \in 1..last
      PROVE  \/ old.inbounds[i].tls
                  = (IF inbounds'[i].tls = 0 THEN None ELSE tls'[inbounds'[i].tls].settings)
             \/ \E t \in Tags \ {inbounds'[i].tag} : <<inbounds'[i].tag, t>> \in Like
  <2> DEFINE id == moved.inbounds[i].tls
             tag == old.inbounds[i].tag
  <2>1. CASE old.inbounds[i].tls = None
    BY <1>5, <2>1 DEF Bound
  <2>2. CASE old.inbounds[i].tls # None
    <3>1. id \in DOMAIN moved.tls /\ inbounds'[i].tls = id /\ inbounds'[i].tag = tag
      BY <1>5, <2>2 DEF Bound
    <3>2. id # 0 /\ tls'[id].settings = moved.tls[id].settings
      BY <1>3, <1>4, <3>1
    <3>3. CASE Old!Matches(old.tls, tag) = {}
      <4>1. moved.tls[id].settings = old.inbounds[i].tls
        BY <1>5, <2>2, <3>3 DEF Bound
      <4> QED BY <3>1, <3>2, <4>1
    <3>4. CASE Old!Matches(old.tls, tag) # {}
      <4>1. id \in Old!Matches(old.tls, tag)
        BY <1>5, <2>2, <3>4 DEF Bound
      <4>2. id \in DOMAIN old.tls /\ \E u \in old.tls[id].tags : <<tag, u>> \in Like
        BY <4>1 DEF Old!Matches
      <4>3. PICK u \in old.tls[id].tags : <<tag, u>> \in Like
        BY <4>2
      <4>4. CASE u = tag
        <5>1. old.inbounds[i].tls = old.tls[id].settings
          BY <1>6, <4>2, <4>4
        <5>2. moved.tls[id] = old.tls[id]
          <6>1. \A k \in DOMAIN moved.tls :
                  k <= Len(old.tls) => moved.tls[k] = old.tls[k]
            <7>1. Appended(moved.tls)
              BY <1>2, Zenon DEF MovedUpTo
            <7> QED BY <7>1 DEF Appended
          <6>2. id <= Len(old.tls)
            <7>1. old.tls \in Seq(Row)
              BY <1>1 DEF InstalledInbounds
            <7> QED BY <4>2, <7>1
          <6> QED BY <3>1, <6>1, <6>2, Zenon
        <5> QED BY <3>1, <3>2, <5>1, <5>2
      <4>5. CASE u # tag
        <5>1. u \in Tags
          BY <4>3, OldAssumption DEF Old!LikeAssumption
        <5> QED BY <3>1, <4>3, <4>5, <5>1
      <4> QED BY <4>4, <4>5
    <3> QED BY <3>3, <3>4
  <2> QED BY <2>1, <2>2
<1>8. ASSUME NEW c \in Clients
      PROVE  {inbounds'[i].tag : i \in clients'[c]}
               = old.clients[c] \intersect {old.inbounds[i].tag : i \in DOMAIN old.inbounds}
  <2>1. clients'[c] = {i \in 1..last : inbounds'[i].tag \in old.clients[c]}
    BY <1>1, <1>3 DEF Old!Ids
  <2> QED BY <1>3, <1>5, <2>1
<1>9. ASSUME NEW k \in DOMAIN old.tls, NEW t \in old.tls[k].tags, NEW u \in old.tls[k].tags,
             NEW i \in 1..last, NEW j \in 1..last,
             old.inbounds[i].tag = t, old.inbounds[j].tag = u,
             \A w \in Tags : w \in {t, u} \/ (<<t, w>> \notin Like /\ <<u, w>> \notin Like)
      PROVE  moved.inbounds[i].tls = k
  <2>1. old.inbounds[i].tls = old.tls[k].settings /\ old.inbounds[i].tls # None
    BY <1>6, <1>9, OldAssumption DEF Old!NameAssumption
  <2>2. t \in Tags /\ <<t, t>> \in Like
    BY <1>5, <1>9, OldAssumption DEF Old!LikeAssumption
  <2>3. k \in Old!Matches(old.tls, t)
    BY <2>2 DEF Old!Matches
  <2>4. moved.inbounds[i].tls \in Old!Matches(old.tls, t)
    BY <1>5, <1>9, <2>1, <2>3 DEF Bound
  <2>5. ASSUME NEW n \in Old!Matches(old.tls, t) PROVE n = k
    <3>1. n \in DOMAIN old.tls /\ \E w \in old.tls[n].tags : <<t, w>> \in Like
      BY DEF Old!Matches
    <3>2. PICK w \in old.tls[n].tags : <<t, w>> \in Like
      BY <3>1
    <3>3. w \in {t, u}
      <4>1. w \in Tags
        BY <3>2, OldAssumption DEF Old!LikeAssumption
      <4> QED BY <1>9, <3>2, <4>1
    <3>4. PICK m \in {i, j} : old.inbounds[m].tag = w
      BY <1>9, <3>3
    <3>5. old.inbounds[m].tls = old.tls[n].settings
      BY <1>6, <3>1, <3>4
    <3>6. old.inbounds[m].tls = old.tls[k].settings
      BY <1>6, <1>9, <3>3, <3>4
    <3> QED BY <1>1, <3>1, <3>5, <3>6 DEF InstalledInbounds
  <2> QED BY <2>4, <2>5
<1>10. ASSUME NEW k \in DOMAIN old.tls, NEW t \in old.tls[k].tags, NEW u \in old.tls[k].tags,
              NEW i \in 1..last, NEW j \in 1..last,
              inbounds'[i].tag = t, inbounds'[j].tag = u
       PROVE  \/ inbounds'[i].tls = inbounds'[j].tls
              \/ \E w \in Tags : w \notin {t, u} /\ (<<t, w>> \in Like \/ <<u, w>> \in Like)
  <2> SUFFICES ASSUME \A w \in Tags : w \in {t, u} \/ (<<t, w>> \notin Like /\ <<u, w>> \notin Like)
               PROVE  inbounds'[i].tls = inbounds'[j].tls
    OBVIOUS
  <2>1. old.inbounds[i].tag = t /\ old.inbounds[j].tag = u
    BY <1>5, <1>10
  <2>2. moved.inbounds[i].tls = k
    BY <1>9, <2>1
  <2>3. \A w \in Tags : w \in {u, t} \/ (<<u, w>> \notin Like /\ <<t, w>> \notin Like)
    OBVIOUS
  <2>4. moved.inbounds[j].tls = k
    BY <1>9, <2>1, <2>3
  <2> QED BY <1>5, <2>2, <2>4
<1>11. Old!InboundsKept'
  <2>1. old' = old
    BY <1>1
  <2>2. \A i \in DOMAIN inbounds' :
          /\ inbounds'[i].tag = old.inbounds[i].tag
          /\ \/ old.inbounds[i].tls
                  = (IF inbounds'[i].tls = 0 THEN None ELSE tls'[inbounds'[i].tls].settings)
             \/ \E t \in Tags \ {inbounds'[i].tag} : <<inbounds'[i].tag, t>> \in Like
    <3>1. \A i \in 1..last : inbounds'[i].tag = old.inbounds[i].tag
      BY <1>5
    <3> QED BY <1>3, <1>7, <3>1, Zenon
  <2> QED BY <1>8, <2>1, <2>2, Zenon DEF Old!InboundsKept
<1>12. Old!TlsShared'
  <2> SUFFICES ASSUME NEW k \in DOMAIN old'.tls, NEW t \in old'.tls[k].tags, NEW u \in old'.tls[k].tags,
                      NEW i \in DOMAIN inbounds', NEW j \in DOMAIN inbounds',
                      inbounds'[i].tag = t, inbounds'[j].tag = u
               PROVE  \/ inbounds'[i].tls = inbounds'[j].tls
                      \/ \E w \in Tags : w \notin {t, u} /\ (<<t, w>> \in Like \/ <<u, w>> \in Like)
    BY DEF Old!TlsShared
  <2>1. k \in DOMAIN old.tls /\ t \in old.tls[k].tags /\ u \in old.tls[k].tags
    BY <1>1
  <2>2. i \in 1..last /\ j \in 1..last
    BY <1>3
  <2> QED BY <1>10, <2>1, <2>2
<1> QED BY <1>11, <1>12 DEF InboundsKept

\* A default that stays is the default of what is left.
LEMMA DefaultMigrates ==
  ASSUME OldInv, Old!To1_2, Old!DefaultStays
  PROVE  /\ Old!Default(outbounds', final') = Old!OldDefault
         /\ Old!OldDefault \in {o.tag : o \in outbounds' \union endpoints'}
         /\ Old!OldType(Old!OldDefault) \in {"direct", "wireguard"}
<1> DEFINE d == Old!OldDefault
           tags == {o.tag : o \in old.outbounds}
<1> USE OldAssumption DEF Old!NameAssumption, Old!BoundAssumption
<1>1. /\ InstalledRoutes /\ final' = old.final
      /\ endpoints' = {o \in old.outbounds : o.type = "wireguard"}
      /\ outbounds' = {o \in old.outbounds : o.type = "direct"}
  BY DEF OldInv, Old!To1_2
<1>2. tags \subseteq Nat /\ tags # {} /\ None \notin tags
  BY <1>1 DEF InstalledRoutes, Old!Outbound, Old!OutTags
<1>3. d \in tags /\ (old.final = None => \A o \in old.outbounds : d <= o.tag)
  <2>1. CASE old.final # None
    BY <1>1, <2>1 DEF Old!OldDefault, Old!Default, InstalledRoutes
  <2>2. CASE old.final = None
    <3>1. d = CHOOSE t \in tags : \A o \in old.outbounds : t <= o.tag
      BY <1>1, <2>2 DEF Old!OldDefault, Old!Default, InstalledRoutes
    <3>2. \E t \in tags : \A u \in tags : t <= u
      BY <1>2, Smallest
    <3>3. \E t \in tags : \A o \in old.outbounds : t <= o.tag
      BY <3>2
    <3> HIDE DEF tags, d
    <3>4. d \in tags /\ \A o \in old.outbounds : d <= o.tag
      BY <3>1, <3>3
    <3> QED BY <3>4
  <2> QED BY <2>1, <2>2
<1>4. PICK o \in old.outbounds : o.tag = d
  BY <1>3
<1>5. Old!OldType(d) = o.type
  BY <1>1, <1>4 DEF Old!OldType, InstalledRoutes
<1>6. o.type \in {"direct", "wireguard"} /\ (o.type = "wireguard" => old.final # None)
  BY <1>5 DEF Old!DefaultStays
<1>7. o \in outbounds' \union endpoints'
  BY <1>1, <1>6
<1>8. Old!Default(outbounds', final') = d
  <2>1. CASE old.final # None
    BY <1>1, <2>1 DEF Old!OldDefault, Old!Default
  <2>2. CASE old.final = None
    <3> DEFINE left == {p.tag : p \in outbounds'}
    <3>1. d \in left /\ \A p \in outbounds' : d <= p.tag
      BY <1>1, <1>3, <1>4, <1>6, <2>2
    <3>2. left \subseteq Nat /\ d \in Nat
      BY <1>1, <1>2, <3>1
    <3>3. Old!Default(outbounds', final') = CHOOSE t \in left : \A p \in outbounds' : t <= p.tag
      BY <1>1, <2>2, <3>1 DEF Old!Default
    <3>4. \A t \in left : (\A p \in outbounds' : t <= p.tag) => t = d
      BY <3>1, <3>2
    <3> HIDE DEF left, d
    <3>5. (CHOOSE t \in left : \A p \in outbounds' : t <= p.tag) = d
      BY <3>1, <3>4
    <3> QED BY <3>3, <3>5
  <2> QED BY <2>1, <2>2
<1> QED BY <1>4, <1>5, <1>6, <1>7, <1>8

\* The decisions after a step, in terms of the tables after it: the installation is the same.
LEMMA DecidesPrimed ==
  ASSUME old' = old, NEW S
  PROVE  /\ Old!Decides(rules, [outbound |-> Old!Default(outbounds, final), action |-> "route"], S)'
              = Old!Decides(rules', [outbound |-> Old!Default(outbounds', final'), action |-> "route"], S)
         /\ Old!Decides(old.rules, [outbound |-> Old!OldDefault, action |-> None], S)'
              = Old!Decides(old.rules, [outbound |-> Old!OldDefault, action |-> None], S)
         /\ Old!Hits(old.rules, S)' = Old!Hits(old.rules, S)
         /\ Old!DefaultStays' <=> Old!DefaultStays
BY DEF Old!Decides, Old!Hits, Old!Outcome, Old!OldType, Old!Default, Old!OldDefault, Old!DefaultStays

\* RoutesKept after a step, likewise.
LEMMA RoutesPrimed ==
  ASSUME old' = old,
         \A S \in SUBSET {i \in DOMAIN old.rules : ~ old.rules[i].sniffed} :
           Old!Hits(old.rules, S) # {} \/ Old!DefaultStays =>
             Old!Decides(rules', [outbound |-> Old!Default(outbounds', final'), action |-> "route"], S)
               = Old!Decides(old.rules, [outbound |-> Old!OldDefault, action |-> None], S),
         \A i \in DOMAIN rules' :
           rules'[i].outbound \in {None} \union {o.tag : o \in outbounds' \union endpoints'},
         Old!DefaultStays =>
           Old!Default(outbounds', final') \in {o.tag : o \in outbounds' \union endpoints'}
  PROVE  Old!RoutesKept'
<1>1. ASSUME NEW S \in SUBSET {i \in DOMAIN old'.rules : ~ old'.rules[i].sniffed}
      PROVE  Old!Hits(old.rules, S)' # {} \/ Old!DefaultStays' =>
               Old!Decides(rules, [outbound |-> Old!Default(outbounds, final), action |-> "route"], S)'
                 = Old!Decides(old.rules, [outbound |-> Old!OldDefault, action |-> None], S)'
  BY DecidesPrimed
<1>2. Old!DefaultStays' <=> Old!DefaultStays
  BY DecidesPrimed
<1>3. Old!Default(outbounds, final)' = Old!Default(outbounds', final')
  BY DEF Old!Default
<1> QED BY <1>1, <1>2, <1>3 DEF Old!RoutesKept

\* Where connections go.
LEMMA RoutesMigrate ==
  ASSUME OldInv, Old!To1_2
  PROVE  Old!RoutesKept'
<1> DEFINE last == Len(old.rules)
           hasDns == \E i \in DOMAIN rules : rules[i].outbound \in Old!OfType("dns")
           acting == [i \in DOMAIN rules |-> Old!Acting(rules[i])]
<1> USE OldAssumption DEF Old!NameAssumption
<1>1. /\ InstalledRoutes /\ old' = old /\ outbounds = old.outbounds /\ rules = old.rules
      /\ endpoints' = {o \in outbounds : o.type = "wireguard"}
      /\ outbounds' = {o \in outbounds : o.type = "direct"}
      /\ rules' = IF hasDns THEN Append(acting, Old!Sniff) ELSE acting
  BY DEF OldInv, Old!To1_2, Old!MoveRules
<1>2. last \in Nat /\ DOMAIN old.rules = 1..last
  BY <1>1 DEF InstalledRoutes
<1>3. ASSUME NEW i \in 1..last
      PROVE  /\ old.rules[i] \in [outbound : {o.tag : o \in old.outbounds}, action : {None}, sniffed : BOOLEAN]
             /\ old.rules[i].action = None /\ old.rules[i].sniffed \in BOOLEAN
             /\ \E o \in old.outbounds : /\ o.tag = old.rules[i].outbound /\ o.tag \in Old!OutTags
                                         /\ o.type \in {"direct", "wireguard", "dns", "block"}
  <2>1. old.rules[i] \in [outbound : {o.tag : o \in old.outbounds}, action : {None}, sniffed : BOOLEAN]
    <3>1. old.rules \in Seq([outbound : {o.tag : o \in old.outbounds}, action : {None}, sniffed : BOOLEAN])
      BY <1>1 DEF InstalledRoutes
    <3> QED BY <1>2, <3>1, EntryOf, Zenon
  <2>2. PICK o \in old.outbounds : o.tag = old.rules[i].outbound
    BY <2>1
  <2>3. o \in Old!Outbound
    BY <1>1, <2>2 DEF InstalledRoutes
  <2> QED BY <2>1, <2>2, <2>3 DEF Old!Outbound
<1>4. /\ last <= Len(rules') /\ DOMAIN rules' = 1..Len(rules') /\ Len(rules') \in Nat
      /\ \A i \in 1..last : rules'[i] = Old!Acting(old.rules[i])
      /\ \A i \in DOMAIN rules' : i \in 1..last \/ rules'[i] = Old!Sniff
  <2> DEFINE S == {Old!Acting(old.rules[i]) : i \in 1..last} \union {Old!Sniff}
  <2>1. acting = [i \in 1..last |-> Old!Acting(old.rules[i])]
    BY <1>1, <1>2
  <2> HIDE DEF acting
  <2>2. acting \in Seq(S) /\ Len(acting) = last /\ \A i \in 1..last : acting[i] = Old!Acting(old.rules[i])
    BY <1>2, <2>1
  <2> HIDE DEF hasDns
  <2>3. CASE hasDns
    <3>1. rules' = Append(acting, Old!Sniff) /\ Old!Sniff \in S
      BY <1>1, <2>3
    <3> HIDE DEF S
    <3> QED BY <1>2, <2>2, <3>1
  <2>4. CASE ~ hasDns
    <3> HIDE DEF S
    <3> QED BY <1>1, <1>2, <2>2, <2>4
  <2> QED BY <2>3, <2>4
<1> HIDE DEF acting, hasDns
\* A rule does what it did.
<1>5. ASSUME NEW i \in 1..last
      PROVE  /\ rules'[i].action # "sniff" /\ old.rules[i].action # "sniff"
             /\ Old!Outcome(rules'[i]) = Old!Outcome(old.rules[i])
             /\ rules'[i].outbound \in {None} \union {o.tag : o \in outbounds' \union endpoints'}
  <2> DEFINE rule == old.rules[i]
  <2>1. PICK o \in old.outbounds : o.tag = rule.outbound /\ o.type \in {"direct", "wireguard", "dns", "block"}
    BY <1>3
  <2>2. \A p \in old.outbounds : p.tag = rule.outbound => p = o
    BY <1>1, <2>1 DEF InstalledRoutes
  <2>3. Old!OldType(rule.outbound) = o.type
    <3>1. (CHOOSE p \in old.outbounds : p.tag = rule.outbound) = o
      BY <2>1, <2>2
    <3> QED BY <3>1 DEF Old!OldType
  <2>4. \A type : rule.outbound \in Old!OfType(type) <=> o.type = type
    BY <1>1, <2>1, <2>2 DEF Old!OfType
  <2>5. rule \in [outbound : {p.tag : p \in old.outbounds}, action : {None}, sniffed : BOOLEAN]
    BY <1>3
  <2>6. rules'[i] = Old!Acting(rule) /\ rule.action = None
    BY <1>3, <1>4
  <2> HIDE DEF rule
  <2>7. CASE o.type = "block"
    <3>1. rules'[i] = [rule EXCEPT !.outbound = None, !.action = "reject"]
      BY <2>4, <2>6, <2>7 DEF Old!Acting
    <3>2. rules'[i].action = "reject" /\ rules'[i].outbound = None
      BY <2>5, <3>1
    <3> QED BY <2>3, <2>6, <2>7, <3>2 DEF Old!Outcome, rule
  <2>8. CASE o.type = "dns"
    <3>1. rules'[i] = [rule EXCEPT !.outbound = None, !.action = "hijack-dns"]
      BY <2>4, <2>6, <2>8 DEF Old!Acting
    <3>2. rules'[i].action = "hijack-dns" /\ rules'[i].outbound = None
      BY <2>5, <3>1
    <3> QED BY <2>3, <2>6, <2>8, <3>2 DEF Old!Outcome, rule
  <2>9. CASE o.type \in {"direct", "wireguard"}
    <3>1. rules'[i] = [rule EXCEPT !.action = "route"]
      BY <2>4, <2>6, <2>9 DEF Old!Acting
    <3>2. rules'[i].action = "route" /\ rules'[i].outbound = rule.outbound
      BY <2>5, <3>1
    <3>3. o \in outbounds' \union endpoints'
      BY <1>1, <2>1, <2>9
    <3>4. rules'[i].outbound \in {p.tag : p \in outbounds' \union endpoints'}
      BY <2>1, <3>2, <3>3 DEF rule
    <3> QED BY <2>3, <2>6, <2>9, <3>2, <3>4 DEF Old!Outcome, rule
  <2> QED BY <2>1, <2>7, <2>8, <2>9
<1>8. \A k \in 1..last : Old!Outcome(rules'[k]) = Old!Outcome(old.rules[k])
  BY <1>5, Zenon
\* So does the default, if it stays.
<1> DEFINE was == [outbound |-> Old!OldDefault, action |-> None]
           is == [outbound |-> Old!Default(outbounds', final'), action |-> "route"]
<1>12. Old!DefaultStays => Old!Outcome(is) = Old!Outcome(was)
  <2> SUFFICES ASSUME Old!DefaultStays PROVE Old!Outcome(is) = Old!Outcome(was)
    OBVIOUS
  <2>1. /\ is = [outbound |-> Old!OldDefault, action |-> "route"]
        /\ Old!OldType(Old!OldDefault) \in {"direct", "wireguard"}
    BY DefaultMigrates
  <2> QED BY <2>1 DEF Old!Outcome
<1> HIDE DEF was, is
<1>6. ASSUME NEW S \in SUBSET {i \in DOMAIN old.rules : ~ old.rules[i].sniffed},
             Old!Hits(old.rules, S) # {} \/ Old!DefaultStays
      PROVE  Old!Decides(rules', is, S) = Old!Decides(old.rules, was, S)
  <2>1. PICK hits : hits = Old!Hits(old.rules, S)
    OBVIOUS
  <2>2. Old!Hits(rules', S) = hits /\ hits \subseteq 1..last
    BY <1>2, <1>4, <1>5, <2>1 DEF Old!Hits
  <2>3. CASE hits = {}
    BY <1>6, <1>12, <2>1, <2>2, <2>3 DEF Old!Decides
  <2>4. CASE hits # {}
    <3>1. \E k \in hits : \A j \in hits : k <= j
      <4>1. hits \subseteq Nat
        BY <1>2, <2>2
      <4> QED BY <2>4, <4>1, Smallest
    <3>2. PICK i : i = CHOOSE k \in hits : \A j \in hits : k <= j
      OBVIOUS
    <3>3. i \in 1..last
      BY <2>2, <3>1, <3>2
    <3>4. Old!Outcome(rules'[i]) = Old!Outcome(old.rules[i])
      BY <1>8, <3>3, Zenon
    <3>5. Old!Decides(rules', is, S) = Old!Outcome(rules'[i])
      BY <2>2, <2>4, <3>2, Zenon DEF Old!Decides
    <3>6. Old!Decides(old.rules, was, S) = Old!Outcome(old.rules[i])
      BY <2>1, <2>4, <3>2, Zenon DEF Old!Decides
    <3> QED BY <3>4, <3>5, <3>6, Zenon
  <2> QED BY <2>3, <2>4
<1>7. \A i \in DOMAIN rules' : rules'[i].outbound \in {None} \union {o.tag : o \in outbounds' \union endpoints'}
  BY <1>4, <1>5 DEF Old!Sniff
<1>9. Old!DefaultStays => Old!Default(outbounds', final') \in {o.tag : o \in outbounds' \union endpoints'}
  BY DefaultMigrates
<1> QED BY <1>1, <1>6, <1>7, <1>9, RoutesPrimed DEF was, is

\* Every DNS server that has a name is asked over its transport, on its port, and under its
\* name if no port was spelt out.
LEMMA ServersMigrate ==
  ASSUME OldInv, Old!To1_3
  PROVE  Old!ServersReached'
<1> USE OldAssumption DEF Old!NameAssumption
<1>1. /\ InstalledServers /\ old' = old /\ servers = old.servers
      /\ servers' = [i \in DOMAIN servers |-> Old!Server(servers[i])]
  BY DEF OldInv, Old!To1_3
<1> DEFINE Reached(a, new) ==
      a.kind = "url" /\ a.scheme \in Schemes =>
        /\ new.address = None /\ ~ new.strategy
        /\ new.type = (IF a.scheme = "" THEN "udp" ELSE a.scheme) /\ new.port = a.port
        /\ a.port = None => new.server = <<a.host, None>>
<1>2. ASSUME NEW i \in DOMAIN servers', NEW a, NEW new, a = old.servers[i].address, new = servers'[i]
      PROVE  Reached(a, new)
  <2> SUFFICES ASSUME a.kind = "url", a.scheme \in Schemes
               PROVE  /\ new.address = None /\ ~ new.strategy
                      /\ new.type = (IF a.scheme = "" THEN "udp" ELSE a.scheme) /\ new.port = a.port
                      /\ a.port = None => new.server = <<a.host, None>>
    OBVIOUS
  <2> HIDE DEF Reached
  <2>1. PICK row : row = old.servers[i]
    OBVIOUS
  <2>2. row \in Old!OldServer /\ new = Old!Server(row) /\ a = row.address
    BY <1>1, <1>2, <2>1 DEF InstalledServers
  <2>3. row = [address |-> row.address, type |-> None, server |-> None, port |-> None,
               strategy |-> row.strategy] /\ a \in Old!Address
    BY <2>2 DEF Old!OldServer
  <2>5. a.scheme \notin {"rcode", "dhcp", "other"}
    OBVIOUS
  <2>6. CASE a.scheme = ""
    <3>1. new = [address |-> None, type |-> "udp", server |-> <<a.host, None>>, port |-> a.port, strategy |-> FALSE]
      BY <2>2, <2>3, <2>6 DEF Old!Server
    <3>2. /\ new.address = None /\ new.type = "udp" /\ new.port = a.port /\ new.server = <<a.host, None>>
          /\ new.strategy = FALSE
      BY <3>1
    <3> QED BY <2>6, <3>2
  <2>7. CASE a.scheme # ""
    <3>1. new = [address |-> None, type |-> a.scheme, server |-> <<a.host, a.port>>, port |-> a.port, strategy |-> FALSE]
      BY <2>2, <2>3, <2>5, <2>7 DEF Old!Server
    <3>2. /\ new.address = None /\ new.type = a.scheme /\ new.port = a.port /\ new.server = <<a.host, a.port>>
          /\ new.strategy = FALSE
      BY <3>1
    <3> QED BY <2>7, <3>2
  <2> QED BY <2>6, <2>7
<1>3. ASSUME NEW i \in DOMAIN servers'
      PROVE  Reached(old'.servers[i].address, servers'[i])
  <2>1. PICK a, new : a = old.servers[i].address /\ new = servers'[i]
    OBVIOUS
  <2> HIDE DEF Reached
  <2>2. Reached(a, new)
    BY <1>2, <2>1
  <2> QED BY <1>1, <2>1, <2>2
<1> QED BY <1>3 DEF Old!ServersReached

\* What is kept of the inbounds depends on the tables and on the installation alone.
LEMMA InboundsStay ==
  ASSUME InboundsKept, Old!Migrated, old' = old, inbounds' = inbounds, tls' = tls, clients' = clients
  PROVE  InboundsKept'
<1>1. Old!InboundsKept'
  <2>1. ASSUME NEW c \in Clients
        PROVE  {inbounds'[i].tag : i \in clients'[c]}
                 = old'.clients[c] \intersect {old'.inbounds[i].tag : i \in DOMAIN old'.inbounds}
    <3>1. {inbounds[i].tag : i \in clients[c]}
            = old.clients[c] \intersect {old.inbounds[i].tag : i \in DOMAIN old.inbounds}
      BY DEF InboundsKept, Old!InboundsKept
    <3> QED BY <3>1
  <2> QED BY <2>1 DEF InboundsKept, Old!InboundsKept
<1>2. Old!TlsShared'
  BY DEF InboundsKept, Old!TlsShared
<1> QED BY <1>1, <1>2 DEF InboundsKept

\* Where connections go depends on the tables and on the installation alone.
LEMMA RoutesStay ==
  ASSUME Old!RoutesKept, Old!Migrated, old' = old, rules' = rules, outbounds' = outbounds,
         endpoints' = endpoints, final' = final
  PROVE  Old!RoutesKept'
<1>1. /\ \A S \in SUBSET {i \in DOMAIN old.rules : ~ old.rules[i].sniffed} :
           Old!Hits(old.rules, S) # {} \/ Old!DefaultStays =>
             Old!Decides(rules, [outbound |-> Old!Default(outbounds, final), action |-> "route"], S)
               = Old!Decides(old.rules, [outbound |-> Old!OldDefault, action |-> None], S)
      /\ \A i \in DOMAIN rules : rules[i].outbound \in {None} \union {o.tag : o \in outbounds \union endpoints}
      /\ Old!DefaultStays => Old!Default(outbounds, final) \in {o.tag : o \in outbounds \union endpoints}
  BY DEF Old!RoutesKept
<1> QED BY <1>1, RoutesPrimed

\* What the second migration leaves alone stays kept.
LEMMA OldNext == OldInv /\ [Old!Next]_Old!vars => OldInv'
<1> SUFFICES ASSUME OldInv, [Old!Next]_Old!vars PROVE OldInv'
  OBVIOUS
<1>1. CASE Old!To1_2
  <2>1. /\ version' = "1.2" /\ version = "1.1" /\ old' = old /\ servers' = servers
        /\ final' = final
    BY <1>1 DEF Old!To1_2
  <2>2. (InstalledInbounds /\ InstalledRoutes /\ InstalledServers)'
    BY <2>1 DEF OldInv, InstalledInbounds, InstalledRoutes, InstalledServers
  <2>3. InboundsKept'
    BY <1>1, InboundsMigrate
  <2>4. RoutesKept'
    <3>1. Old!ServersReached'
      BY <2>1 DEF Old!ServersReached
    <3> QED BY <1>1, <3>1, RoutesMigrate DEF RoutesKept
  <2>5. servers' = old'.servers
    BY <2>1 DEF OldInv
  <2> QED BY <2>1, <2>2, <2>3, <2>4, <2>5 DEF OldInv
<1>2. CASE Old!To1_3
  <2>1. /\ version' = "1.3" /\ version = "1.2" /\ old' = old
        /\ UNCHANGED <<inbounds, tls, clients, outbounds, endpoints, rules, final>>
    BY <1>2 DEF Old!To1_3
  <2>2. (InstalledInbounds /\ InstalledRoutes /\ InstalledServers)'
    BY <2>1 DEF OldInv, InstalledInbounds, InstalledRoutes, InstalledServers
  <2>3. InboundsKept'
    <3>1. InboundsKept /\ Old!Migrated
      BY <2>1 DEF OldInv, Old!Migrated
    <3> QED BY <2>1, <3>1, InboundsStay
  <2>4. RoutesKept'
    <3>1. Old!RoutesKept /\ Old!Migrated
      BY <2>1 DEF OldInv, Old!Migrated, RoutesKept
    <3>2. Old!RoutesKept'
      BY <2>1, <3>1, RoutesStay
    <3> QED BY <1>2, <3>2, ServersMigrate DEF RoutesKept
  <2> QED BY <2>1, <2>2, <2>3, <2>4 DEF OldInv
<1>3. CASE UNCHANGED Old!vars
  <2>1. UNCHANGED <<version, inbounds, tls, clients, outbounds, endpoints, rules, final, servers, old>>
    BY <1>3 DEF Old!vars, Old!tables
  <2>2. (InstalledInbounds /\ InstalledRoutes /\ InstalledServers)'
    BY <2>1 DEF OldInv, InstalledInbounds, InstalledRoutes, InstalledServers
  <2>3. InboundsKept'
    <3>1. CASE Old!Migrated
      BY <2>1, <3>1, InboundsStay DEF OldInv
    <3>2. CASE ~ Old!Migrated
      BY <2>1, <3>2 DEF InboundsKept, Old!InboundsKept, Old!TlsShared, Old!Migrated
    <3> QED BY <3>1, <3>2
  <2>4. Old!RoutesKept'
    <3>1. CASE Old!Migrated
      BY <2>1, <3>1, RoutesStay DEF OldInv, RoutesKept
    <3>2. CASE ~ Old!Migrated
      BY <2>1, <3>2 DEF Old!RoutesKept, Old!Migrated
    <3> QED BY <3>1, <3>2
  <2>5. Old!ServersReached'
    BY <2>1 DEF OldInv, RoutesKept, Old!ServersReached
  <2> QED BY <2>1, <2>2, <2>3, <2>4, <2>5 DEF OldInv, RoutesKept
<1> QED BY <1>1, <1>2, <1>3 DEF Old!Next

\* Whatever an installation of 1.1 holds, within the bounds, the migrations keep the inbounds,
\* the clients' choice of them and their TLS settings, shared or not.
THEOREM InboundsAlwaysKept == Old!Spec => []InboundsKept
<1>1. OldInv => InboundsKept
  BY DEF OldInv
<1> QED BY OldInit, OldNext, <1>1, PTL DEF Old!Spec

\* Whatever an installation of 1.1 holds, within the bounds: connections that a rule decides go
\* after the migrations (to1_2, to1_3) where they went, and those that none decides where
\* route.final or the first outbound sent them, unless that is a block or dns outbound or the
\* first is wireguard.  DNS servers are asked over their transport, on their port, and under
\* their name if no port was spelt out.
THEOREM RoutesAlwaysKept == Old!Spec => []RoutesKept
<1>1. OldInv => RoutesKept
  BY DEF OldInv
<1> QED BY OldInit, OldNext, <1>1, PTL DEF Old!Spec
================================================================================
