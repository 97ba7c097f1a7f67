-------------------------- MODULE MCInboundRecords --------------------------
(* The tables behind the editor (InboundRecords) and the open panels that show them *)
(* (PanelSync).  They share no variable, so whatever they do together is what each  *)
(* does by itself: `part` says which one moves.                                     *)
EXTENDS InboundRecords, TLC

CONSTANTS Panels, Objects, ClientKind, Cron, MaxTime, MaxChanges, MaxFaults  \* of PanelSync

VARIABLES
  part,
  now, version, lastUpdate, logged, tx, owed, lastLoad, seen, poll, save, blind, changes, faults

panelVars == <<now, version, lastUpdate, logged, tx, owed, lastLoad, seen, poll, save, blind,
               changes, faults>>

Panel == INSTANCE PanelSync WITH Clients <- ClientKind

ASSUME PanelAssumption == Panel!BoundAssumption /\ Panel!NameAssumption /\ MaxTime # 0

MCInit == part \in {"records", "panels"} /\ Init /\ Panel!Init

MCNext ==
  /\ UNCHANGED part
  /\ \/ part = "records" /\ Next /\ UNCHANGED panelVars
     \/ part = "panels" /\ Panel!Next /\ UNCHANGED db

MCSpec == MCInit /\ [][MCNext]_<<part, db, panelVars>>

\* Ids, tags, TLS contents, clients and credentials are only compared.
Symmetry == Permutations(Ids) \union Permutations(Tags) \union Permutations(Versions)
            \union Permutations(Clients) \union Permutations(Configs)

\* PanelSync: a panel that shows something old will be told, with the exceptions named there
\* (and the variables have their types).
Informed == Panel!TypeOK /\ Panel!Informed
==============================================================================
