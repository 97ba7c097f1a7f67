------------------------------- MODULE Database -------------------------------
(***************************************************************************)
(* The database file over upgrades, imports and crashes: MigrateDb (by the *)
(* entry point of the container, and by an import), InitDB and the default *)
(* settings when the panel starts, ImportDB with its temporary and fallback*)
(* files, and the global handle the panel works with.                      *)
(*                                                                         *)
(* A file has the format of a version, and a settings row that names one:  *)
(* what the migrations do to its rows is Migration.  One import at a time; *)
(* a transaction that is still open when the old database is closed is left*)
(* out.                                                                    *)
(***************************************************************************)
EXTENDS Naturals, Sequences

CONSTANTS MaxFiles,  \* bound: no import once there have been so many files
          MaxFaults, \* bound: crashes and file operations that fail
          MaxResets  \* bound: resets of the settings

BoundAssumption == MaxFiles \in Nat \ {0} /\ MaxFaults \in Nat /\ MaxResets \in Nat

VARIABLES
  docker,     \* the entry point migrates before each start
  files,      \* the content of every file there has been
  main, temp, fallback, \* which file is under each of the three names, 0 for none
  handle,     \* the file the global handle has open, 0 when it is closed
  at,         \* where the process is
  faults, resets,
  live,       \* history: the file with the panel's data
  unmigrated, \* history: files whose migration failed, or that were opened without
  strayed,    \* history: a process died in the middle of an import
  broken,     \* history: an import failed after it had closed the database
  lost        \* history: the last name of that file has been removed

names == <<main, temp, fallback>>
history == <<live, unmigrated, strayed, broken, lost>>
bounds == <<faults, resets>>
vars == <<docker, files, names, handle, at, bounds, history>>

Formats == {"1.1", "1.2", "1.3"}
\* "none": there is no such row.
Content == [format : Formats, version : {"none", "1.2", "1.3", "now"}, rows : BOOLEAN]

\* What the releases write, and what is left when the settings have been reset; one of 1.1
\* with clients and TLS records, or without.
Written == {c \in Content : \/ c.format = "1.1" /\ c.version = "none"
                            \/ c.format = "1.2" /\ c.version = "1.2" /\ c.rows
                            \/ c.format = "1.3" /\ c.version \in {"none", "1.3", "now"} /\ c.rows}

Init ==
  /\ docker \in BOOLEAN
  /\ \E c \in Written : files = <<c>>
  /\ main = 1 /\ temp = 0 /\ fallback = 0 /\ handle = 0 /\ at = "down"
  /\ faults = 0 /\ resets = 0
  /\ live = 1 /\ unmigrated = {} /\ strayed = FALSE /\ broken = FALSE /\ lost = FALSE

-----------------------------------------------------------------------------
(* MigrateDb. *)

\* The migrations to 1.2 drop columns only 1.1 has, and saving no rows is an error.  They can
\* fail for 1.1, too: without its config.json there is no table of inbounds.
Fatal(c) == c.version = "none" /\ ~(c.format = "1.1" /\ c.rows)
CanFail(c) == c.version = "none"

\* Setting the version updates a row, and creates none.
Migrated(c) ==
  [c EXCEPT !.format = IF c.version \in {"none", "1.2"} THEN "1.3" ELSE @,
            !.version = IF @ = "none" THEN @ ELSE "now"]

\* One transaction; log.Fatal ends the process.
MigrateDb(done, fatal) ==
  \/ /\ CanFail(files[main])
     /\ unmigrated' = unmigrated \union {main} /\ at' = fatal /\ UNCHANGED files
  \/ /\ ~Fatal(files[main])
     /\ files' = [files EXCEPT ![main] = Migrated(@)] /\ at' = done /\ UNCHANGED unmigrated

-----------------------------------------------------------------------------
(* The process starts and dies. *)

Start ==
  /\ at = "down"
  /\ at' = IF docker /\ main # 0 THEN "migrate" ELSE "open"
  /\ UNCHANGED <<docker, files, names, handle, bounds, history>>

\* The entry point goes on if this fails.  Mutant: it stops, and is started again.
MigrateOrStop ==
  /\ at = "migrate" /\ MigrateDb("open", "down")
  /\ UNCHANGED <<docker, names, handle, bounds, live, strayed, broken, lost>>
MigrateCmd ==
  /\ at = "migrate" /\ MigrateDb("open", "open")
  /\ UNCHANGED <<docker, names, handle, bounds, live, strayed, broken, lost>>

\* A file that is not there is created.
Create ==
  /\ files' = Append(files, [format |-> "1.3", version |-> "none", rows |-> FALSE])
  /\ main' = Len(files) + 1
InitDB ==
  /\ at = "open"
  /\ IF main # 0 THEN UNCHANGED <<files, main>> ELSE Create
  /\ handle' = main' /\ at' = "settings"
  /\ unmigrated' = IF docker THEN unmigrated ELSE unmigrated \union {main'}
  /\ UNCHANGED <<docker, temp, fallback, bounds, live, strayed, broken, lost>>

Defaults(f) == files' = IF f = 0 THEN files
                        ELSE [files EXCEPT ![f].version = IF @ = "none" THEN "now" ELSE @]

\* GetAllSetting: when the panel starts, and for every request of the settings.
GetAllSetting ==
  /\ at \in {"settings", "run"} /\ at' = "run"
  /\ Defaults(handle)
  /\ UNCHANGED <<docker, names, handle, bounds, history>>

\* "setting -reset", a process of its own, which opens the database, too.
ResetSettings ==
  /\ at \in {"down", "run"} /\ resets < MaxResets /\ resets' = resets + 1
  /\ IF main # 0 THEN files' = [files EXCEPT ![main].version = "none"] /\ UNCHANGED main
     ELSE Create
  /\ UNCHANGED <<docker, temp, fallback, handle, at, faults, history>>

Importing == {"temp", "closed", "copied", "cleared", "moved", "swapped", "migrated"}

Crash ==
  /\ at # "down" /\ faults < MaxFaults /\ faults' = faults + 1
  /\ at' = "down" /\ handle' = 0 /\ broken' = FALSE
  /\ strayed' = (strayed \/ at \in {"moved", "swapped", "migrated"})
  /\ UNCHANGED <<docker, files, names, resets, live, unmigrated, lost>>

-----------------------------------------------------------------------------
(* ImportDB. *)

Goes(from, to) == at = from /\ at' = to

\* Any file that begins as SQLite does; its bytes come later.
CreateTemp(c) ==
  /\ Goes("run", "temp") /\ Len(files) < MaxFiles
  /\ files' = Append(files, c) /\ temp' = Len(files) + 1
  /\ UNCHANGED <<docker, main, fallback, handle, bounds, history>>

CloseOld ==
  /\ Goes("temp", "closed") /\ handle' = 0
  /\ UNCHANGED <<docker, files, names, bounds, history>>

Copy == Goes("closed", "copied") /\ UNCHANGED <<docker, files, names, handle, bounds, history>>

RemoveFallback ==
  /\ Goes("copied", "cleared") /\ fallback' = 0
  /\ lost' = (lost \/ (fallback = live /\ main # live))
  /\ UNCHANGED <<docker, files, main, temp, handle, bounds, live, unmigrated, strayed, broken>>

\* Mutant: the old file gets a second name, and keeps its own until the new one takes it.
MoveMainLinked ==
  /\ main # 0 /\ Goes("cleared", "moved") /\ fallback' = main
  /\ UNCHANGED <<docker, files, main, temp, handle, bounds, history>>
MoveMain ==
  /\ main # 0 /\ Goes("cleared", "moved") /\ fallback' = main /\ main' = 0
  /\ UNCHANGED <<docker, files, temp, handle, bounds, history>>

MoveTemp ==
  /\ Goes("moved", "swapped") /\ main' = temp /\ temp' = 0
  /\ UNCHANGED <<docker, files, fallback, handle, bounds, history>>

\* The process dies here when the migration fails, as before anything deferred.
MigrateImport ==
  /\ at = "swapped" /\ MigrateDb("migrated", "down")
  /\ strayed' = (strayed \/ at' = "down")
  /\ UNCHANGED <<docker, names, handle, bounds, live, broken, lost>>

\* The handle is on the new file, and the fallback goes.  The servers and the core restart
\* (SIGHUP), the process and its handle do not.  Mutant: that would open the new file.
FinishClosed ==
  /\ Goes("migrated", "run")
  /\ live' = main /\ fallback' = 0 /\ strayed' = FALSE /\ broken' = FALSE
  /\ lost' = FALSE
  /\ UNCHANGED <<docker, files, main, temp, handle, bounds, unmigrated>>
Finish ==
  /\ Goes("migrated", "run")
  /\ handle' = main /\ live' = main /\ fallback' = 0 /\ strayed' = FALSE /\ broken' = FALSE
  /\ lost' = FALSE
  /\ UNCHANGED <<docker, files, main, temp, bounds, unmigrated>>

Failing == at' = "run" /\ faults < MaxFaults /\ faults' = faults + 1

\* An error before the files are moved: the temporary file goes, the handle stays closed.
\* There always is one when there is no file to move.
FailEarly ==
  /\ \/ at \in {"closed", "copied", "cleared"} /\ Failing
     \/ at = "cleared" /\ main = 0 /\ at' = "run" /\ UNCHANGED faults
  /\ temp' = 0 /\ broken' = TRUE
  /\ UNCHANGED <<docker, files, main, fallback, handle, resets, live, unmigrated, strayed, lost>>

\* An error when the temporary file is moved, or when the new database is opened: the old
\* file gets its name back, or that fails as well; the fallback is removed in either case.
\* The handle is closed, or on a file that has lost its name, or on the new one.
FailLate ==
  /\ at \in {"moved", "migrated"} /\ Failing
  /\ \/ main' = fallback /\ UNCHANGED lost
     \/ lost' = TRUE /\ UNCHANGED main
  /\ fallback' = 0 /\ temp' = 0 /\ broken' = TRUE
  /\ handle' \in IF at = "moved" THEN {0} ELSE {0, main}
  /\ UNCHANGED <<docker, files, resets, live, unmigrated, strayed>>

Import == \/ CloseOld \/ Copy \/ RemoveFallback \/ MoveMain \/ MoveTemp \/ MigrateImport
          \/ Finish \/ FailEarly \/ FailLate

Next == \/ Start \/ MigrateCmd \/ InitDB \/ GetAllSetting \/ ResetSettings \/ Crash \/ Import
        \/ \E c \in Written : CreateTemp(c)

Spec == Init /\ [][Next]_vars

\* A dead process is started again (systemd, the container), and each step of a start and of
\* an import comes to its end.
Fairness == WF_vars(Start \/ MigrateCmd \/ InitDB \/ GetAllSetting \/ Import)
FairSpec == Spec /\ Fairness

-----------------------------------------------------------------------------
(* Properties. *)

Files == 0..Len(files)

\* The variables have their types; two names never stand for one file.
TypeOK ==
  /\ files \in Seq(Content) /\ Len(files) <= MaxFiles + MaxFaults
  /\ main \in Files /\ temp \in Files /\ fallback \in Files /\ handle \in Files
  /\ at \in {"down", "migrate", "open", "settings", "run"} \union Importing
  /\ main # 0 => main \notin {temp, fallback}

\* The file with the panel's data is there, under its name or as the fallback, through every
\* crash and failure of an import, with two exceptions: the next import removes a fallback
\* that a dead process has left behind, and an import that cannot give the old file its name
\* back removes it.  In every other state the data is there, and after those it is not.
Kept == lost <=> live \notin {main, fallback}

\* A panel at work has its own data open, and under the right name: unless that file is lost,
\* a process died in the middle of an import (the panel then starts with the imported file,
\* or an empty one), or an import failed and nobody has restarted the process since.
OnItsData == at = "run" => lost \/ strayed \/ broken \/ (handle = main /\ main = live)

\* A file that says it is up to date is in the newest format, unless it has been opened
\* before a migration, or its migration failed: the default for the version is the newest.
Stamped ==
  \A n \in DOMAIN files : files[n].version = "now" => files[n].format = "1.3" \/ n \in unmigrated

\* The panel comes back, from every point of a start or an import where it died.
ComesBack == at = "down" ~> at = "run"
===============================================================================
