------------------------------ MODULE TokenCache ------------------------------
(***************************************************************************)
(* The API tokens in memory (APIv2Handler): loaded from the table after    *)
(* every change of it, searched by every request, and shortened during the *)
(* search by the tokens that have expired, without a lock.                 *)
(*                                                                         *)
(* A search ranges over the slice as it was when it began, while a removal *)
(* shifts the array below it: a slice is a length over an array, and a     *)
(* removal moves the entries (Shift) before it sets the length (Shorten).  *)
(***************************************************************************)
EXTENDS Naturals, Sequences, FiniteSets, SequencesExt

CONSTANTS Tokens,
          Lasting,    \* tokens without expiry
          Requests,
          Admins,     \* handlers of addToken and deleteToken
          None,
          MaxLoads,   \* bound: times the table is loaded
          MaxRequests \* bound: searches

BoundAssumption == MaxLoads \in Nat \ {0} /\ MaxRequests \in Nat
LastingAssumption == Lasting \subseteq Tokens /\ Cardinality(Tokens) \in Nat

VARIABLES
  table,   \* the tokens in the database, by id
  expired, \* tokens whose time is over
  arrays,  \* the arrays under the slices that have been loaded
  slices,  \* each slice: its array and length
  tokens,  \* the pointer: a slice
  req,     \* where a request is in its search
  admin,   \* of an addToken or deleteToken: "idle", "changed" or "loaded"
  read,    \* what it has loaded
  loaded,  \* history: what the slice held when it was loaded
  mixed,   \* history: requests whose search has overlapped a change of the slice
  harmed,  \* history: the slice has been cut at an index of another slice
  passed,  \* history: loads that a change of the table has passed
  stale,   \* history: the slice comes from such a load, or one has failed
  requests

store == <<table, expired>>
cache == <<arrays, slices, tokens, loaded>>
admins == <<admin, read, passed, stale>>
vars == <<store, cache, req, admins, mixed, harmed, requests>>

Idle == [phase |-> "idle", token |-> None, array |-> 1, len |-> 0, index |-> 1,
         head |-> 1, from |-> 1, rest |-> 0, cleaned |-> FALSE]

\* What is left of s without some of its entries.
Without(s, gone) ==
  LET left[i \in 0 .. Len(s)] ==
        IF i = 0 THEN <<>> ELSE IF s[i] \in gone THEN left[i - 1] ELSE Append(left[i - 1], s[i])
  IN left[Len(s)]
Live(s) == Without(s, expired)
Cached == SubSeq(arrays[slices[tokens].array], 1, slices[tokens].len)
Shortening == {r \in Requests : req[r].phase = "shorten"}

\* The server starts with some tokens in the table.
Init ==
  /\ expired = {}
  /\ \E n \in 0..Cardinality(Tokens) : \E s \in [1..n -> Tokens] :
       /\ IsInjective(s)
       /\ table = s /\ arrays = <<s>> /\ slices = <<[array |-> 1, len |-> Len(s)]>> /\ loaded = s
  /\ tokens = 1
  /\ req = [r \in Requests |-> Idle]
  /\ admin = [a \in Admins |-> "idle"] /\ read = [a \in Admins |-> <<>>]
  /\ mixed = {} /\ harmed = FALSE /\ passed = {} /\ stale = FALSE /\ requests = 0

Expire(t) ==
  /\ t \notin expired \union Lasting
  /\ expired' = expired \union {t}
  /\ UNCHANGED <<table, cache, req, admins, mixed, harmed, requests>>

-----------------------------------------------------------------------------
(* Requests. *)

\* A search ranges over the slice of its first moment.
Search(token) ==
  [Idle EXCEPT !.phase = "range", !.token = token,
               !.array = slices[tokens].array, !.len = slices[tokens].len]

\* checkToken; a request that changes something searches again, for the name to log.
Begin(r, t) ==
  /\ req[r].phase = "idle" /\ requests < MaxRequests /\ requests' = requests + 1
  /\ req' = [req EXCEPT ![r] = Search(t)] 
  /\ mixed' = IF Shortening = {} THEN mixed \ {r} ELSE mixed \union {r}
  /\ UNCHANGED <<store, cache, admins, harmed>>

More(r) == req[r].phase = "range" /\ req[r].index <= req[r].len
\* The entry the range statement copies, of the array it began with.
Entry(r) == arrays[req[r].array][req[r].index]

\* findUsername returns a name.
Found(r) ==
  /\ More(r) /\ Entry(r) \notin expired /\ Entry(r) = req[r].token
  /\ req' = [req EXCEPT ![r] = Idle]
  /\ UNCHANGED <<store, cache, admins, mixed, harmed, requests>>

\* Mutant: the index moves on twice.
PassTwo(r) ==
  /\ More(r) /\ Entry(r) \notin expired /\ Entry(r) # req[r].token
  /\ req' = [req EXCEPT ![r].index = @ + 2]
  /\ UNCHANGED <<store, cache, admins, mixed, harmed, requests>>
Pass(r) ==
  /\ More(r) /\ Entry(r) \notin expired /\ Entry(r) # req[r].token
  /\ req' = [req EXCEPT ![r].index = @ + 1]
  /\ UNCHANGED <<store, cache, admins, mixed, harmed, requests>>

\* An expired entry: the slice of this moment loses what is at its index.  Mutant: the
\* entry after it.
ShiftNext(r) ==
  /\ More(r) /\ Entry(r) \in expired
  /\ LET s == slices[tokens]
         i == req[r].index
     IN /\ i <= s.len
        /\ arrays' = [arrays EXCEPT ![s.array] =
                        [j \in DOMAIN @ |-> IF j \in (i + 1)..(s.len - 1) THEN @[j + 1] ELSE @[j]]]
        /\ req' = [req EXCEPT ![r] = [@ EXCEPT !.phase = "shorten", !.cleaned = TRUE,
                                               !.head = tokens, !.from = s.array, !.rest = s.len - 1]]
  /\ harmed' = (harmed \/ r \in mixed)
  /\ mixed' = mixed \union {q \in Requests \ {r} : req[q].phase # "idle"}
  /\ UNCHANGED <<store, slices, tokens, loaded, admins, requests>>
Shift(r) ==
  /\ More(r) /\ Entry(r) \in expired
  /\ LET s == slices[tokens]
         i == req[r].index
     IN /\ i <= s.len
        /\ arrays' = [arrays EXCEPT ![s.array] =
                        [j \in DOMAIN @ |-> IF j \in i..(s.len - 1) THEN @[j + 1] ELSE @[j]]]
        /\ req' = [req EXCEPT ![r] = [@ EXCEPT !.phase = "shorten", !.cleaned = TRUE,
                                               !.head = tokens, !.from = s.array, !.rest = s.len - 1]]
  /\ harmed' = (harmed \/ r \in mixed)
  /\ mixed' = mixed \union {q \in Requests \ {r} : req[q].phase # "idle"}
  /\ UNCHANGED <<store, slices, tokens, loaded, admins, requests>>

\* The slice is assigned: the one that was read, or the one a load has put there since.
Shorten(r) ==
  /\ r \in Shortening
  /\ \E s \in {req[r].head, tokens} :
       /\ slices' = [slices EXCEPT ![s] = [array |-> req[r].from, len |-> req[r].rest]]
       /\ harmed' = (harmed \/ s # req[r].head)
  /\ req' = [req EXCEPT ![r] = [req[r] EXCEPT !.phase = "range", !.index = @ + 1]]
  /\ mixed' = mixed \union {q \in Requests \ {r} : req[q].phase # "idle"}
  /\ UNCHANGED <<store, arrays, tokens, loaded, admins, requests>>

\* The end of the range, or an index past the shortened slice: a panic, which gin recovers.
Unfound(r) ==
  /\ req[r].phase = "range"
  /\ \/ ~More(r)
     \/ More(r) /\ Entry(r) \in expired /\ req[r].index > slices[tokens].len
Refuse(r) ==
  /\ Unfound(r)
  /\ req' = [req EXCEPT ![r] = Idle]
  /\ UNCHANGED <<store, cache, admins, mixed, harmed, requests>>

-----------------------------------------------------------------------------
(* The table changes, and the slice is loaded again. *)

\* Mutant: the slice is not loaded again.
ChangeOnly(a, new) ==
  /\ admin[a] = "idle" /\ Len(arrays) < MaxLoads
  /\ table' = new
  /\ UNCHANGED <<expired, cache, req, admins, mixed, harmed, requests>>
Change(a, new) ==
  /\ admin[a] = "idle" /\ Len(arrays) < MaxLoads
  /\ table' = new
  /\ admin' = [admin EXCEPT ![a] = "changed"]
  /\ passed' = passed \union {b \in Admins : admin[b] = "loaded"}
  /\ UNCHANGED <<expired, cache, req, read, stale, mixed, harmed, requests>>

AddToken(a, t) == t \notin ToSet(table) \union expired /\ Change(a, Append(table, t))
DeleteToken(a, t) == t \in ToSet(table) /\ Change(a, Without(table, {t}))

LoadTokens(a) ==
  /\ admin[a] = "changed"
  /\ admin' = [admin EXCEPT ![a] = "loaded"]
  /\ read' = [read EXCEPT ![a] = Live(table)]
  /\ UNCHANGED <<store, cache, req, passed, stale, mixed, harmed, requests>>

\* The handler goes on whether the table was read or not.
LoadFails(a) ==
  /\ admin[a] = "changed"
  /\ admin' = [admin EXCEPT ![a] = "idle"] /\ stale' = TRUE
  /\ UNCHANGED <<store, cache, req, read, passed, mixed, harmed, requests>>

\* A new array, slice and pointer.
ReloadTokens(a) ==
  /\ admin[a] = "loaded"
  /\ admin' = [admin EXCEPT ![a] = "idle"] /\ read' = [read EXCEPT ![a] = <<>>]
  /\ arrays' = Append(arrays, read[a])
  /\ slices' = Append(slices, [array |-> Len(arrays) + 1, len |-> Len(read[a])])
  /\ tokens' = Len(slices) + 1 /\ loaded' = read[a]
  /\ stale' = (a \in passed) /\ passed' = passed \ {a}
  /\ mixed' = {q \in Requests : req[q].phase # "idle"} /\ harmed' = FALSE
  /\ UNCHANGED <<store, req, requests>>

Next ==
  \/ \E t \in Tokens : Expire(t)
  \/ \E r \in Requests : \/ Found(r) \/ Pass(r) \/ Shift(r) \/ Shorten(r) \/ Refuse(r)
                         \/ \E t \in Tokens : Begin(r, t)
  \/ \E a \in Admins : \/ LoadTokens(a) \/ LoadFails(a) \/ ReloadTokens(a)
                       \/ \E t \in Tokens : AddToken(a, t) \/ DeleteToken(a, t)

Spec == Init /\ [][Next]_vars

-----------------------------------------------------------------------------
(* Properties. *)

\* The variables have their types; the slice stays inside its array.
TypeOK ==
  /\ table \in Seq(Tokens) /\ read \in [Admins -> Seq(Tokens)]
  /\ expired \subseteq Tokens /\ mixed \subseteq Requests /\ passed \subseteq Admins
  /\ tokens \in DOMAIN slices /\ harmed \in BOOLEAN /\ stale \in BOOLEAN
  /\ \A n \in DOMAIN slices : slices[n].array \in DOMAIN arrays
  /\ \A n \in DOMAIN slices : slices[n].len \in 0..Len(arrays[slices[n].array])

\* Requests that clean up the slice take no token out of it that is still good, and lose no
\* order, unless a search that overlapped another change has cut it.
Kept == Shortening = {} /\ ~harmed => Live(Cached) = Live(loaded)

\* A good token that is in the slice is refused only by a search that has removed an expired
\* one itself (it skips the next entry, or runs past the end), or overlapped a change: the
\* same request, sent again, is served.
RefusedOnce ==
  [][\A r \in Requests :
       Refuse(r) /\ r \notin mixed /\ ~harmed /\ req[r].token \in ToSet(Live(loaded))
         => req[r].cleaned]_vars

\* When no change of the table is under way the slice was loaded from all of them, unless a
\* load failed, or its answer was older than a change and still came last.
Current ==
  (\A a \in Admins : admin[a] = "idle") /\ ~stale => Live(loaded) = Live(table)
===============================================================================
