-------------------------------- MODULE Ledger --------------------------------
(***************************************************************************)
(* What the traffic accounting promises, whatever counters, batches and    *)
(* transactions it uses: a byte that a user moves is owed until it is      *)
(* either added to the row of that name, once, or found to have no row, or *)
(* lost; and bytes are lost only when something has failed or stopped.     *)
(* Traffic implements this.                                                *)
(***************************************************************************)
EXTENDS Naturals

CONSTANTS Accounts  \* a name and a direction

VARIABLES owed, billed, stray, lost,  \* bytes, by account
          excuses                     \* failures, stops and crashes so far

vars == <<owed, billed, stray, lost, excuses>>

Zero == [a \in Accounts |-> 0]

Init == /\ owed = Zero /\ billed = Zero /\ stray = Zero /\ lost = Zero
        /\ excuses = 0

\* A user moves a byte.
Use(a) == /\ owed' = [owed EXCEPT ![a] = @ + 1]
          /\ UNCHANGED <<billed, stray, lost, excuses>>

\* What is owed is added to the rows, or has no row; an account is one or the other.
Settle ==
  /\ \A a \in Accounts :
       /\ owed'[a] <= owed[a] /\ billed'[a] >= billed[a] /\ stray'[a] >= stray[a]
       /\ owed[a] - owed'[a] = (billed'[a] - billed[a]) + (stray'[a] - stray[a])
       /\ billed'[a] = billed[a] \/ stray'[a] = stray[a]
  /\ UNCHANGED <<lost, excuses>>

\* A failure: what is owed may be lost in part, and is billed to nobody.
Forfeit ==
  /\ excuses' = excuses + 1
  /\ \A a \in Accounts : /\ owed'[a] <= owed[a]
                         /\ lost'[a] = lost[a] + (owed[a] - owed'[a])
  /\ UNCHANGED <<billed, stray>>

Next == (\E a \in Accounts : Use(a)) \/ Settle \/ Forfeit

Spec == Init /\ [][Next]_vars
===============================================================================
