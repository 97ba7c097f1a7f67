-------------------------- MODULE InboundSave_proofs --------------------------
(***************************************************************************)
(* Proofs about InboundSave, for every number of requests, saves, failures *)
(* and restarts of the core.                                               *)
(*                                                                         *)
(* A request changes the core before it commits, so at any time the core   *)
(* is ahead of the tables at the tags of the requests in flight.  What     *)
(* makes it right in the end is that each request, alone at a tag, leaves  *)
(* there what its own tables want (Settled), that its tables want nothing  *)
(* else anywhere else (Sound), and that a request that shares a tag with   *)
(* another one cannot commit after it.                                     *)
(*                                                                         *)
(* Editors, through an instance, is proved in the same way (second part).  *)
(***************************************************************************)
EXTENDS MCInboundSave, TLAPS, FiniteSetTheorems

-----------------------------------------------------------------------------
(* What the tables want in the core. *)

\* Tags are unique, so the configuration wanted for a tag is that of its inbound.
LEMMA WantedIs ==
  ASSUME NEW d, UniqueTags(d), NEW i \in R!Present(d)
  PROVE  Wanted(d, d.inbounds[i].tag) = Config(d, i)
BY DEF Wanted, UniqueTags

\* A tag no inbound has is not wanted.
LEMMA WantedNone ==
  ASSUME NEW d, NEW tag, \A i \in R!Present(d) : d.inbounds[i].tag # tag
  PROVE  Wanted(d, tag) = None
BY DEF Wanted

\* An inbound is given the same configuration when its content, its TLS record and its
\* users are the same.
LEMMA ConfigSame ==
  ASSUME NEW d, NEW e, NEW i,
         d.inbounds[i].content = e.inbounds[i].content,
         R!Secured(d, d.inbounds[i]) = R!Secured(e, e.inbounds[i]),
         \A c \in Clients : R!Attached(d, c, i) <=> R!Attached(e, c, i),
         \A c \in Clients : R!Attached(d, c, i) => d.clients[c].config = e.clients[c].config
  PROVE  Config(d, i) = Config(e, i)
<1>1. {<<c, d.clients[c].config>> : c \in {x \in Clients : R!Attached(d, x, i)}}
        = {<<c, e.clients[c].config>> : c \in {x \in Clients : R!Attached(e, x, i)}}
  OBVIOUS
<1> QED
  BY <1>1 DEF Config

\* The tag belongs to the same inbound in both, with the same configuration.
SameAt(d, e, tag) ==
  /\ \A i \in R!Present(d) : d.inbounds[i].tag = tag
       => i \in R!Present(e) /\ e.inbounds[i].tag = tag /\ Config(e, i) = Config(d, i)
  /\ \A i \in R!Present(e) : e.inbounds[i].tag = tag
       => i \in R!Present(d) /\ d.inbounds[i].tag = tag

\* Then the tables want the same for it.
LEMMA WantedSame ==
  ASSUME NEW d, NEW e, UniqueTags(d), UniqueTags(e), NEW tag, SameAt(d, e, tag)
  PROVE  Wanted(e, tag) = Wanted(d, tag)
<1>1. CASE \E i \in R!Present(d) : d.inbounds[i].tag = tag
  BY <1>1, WantedIs DEF SameAt
<1>2. CASE \A i \in R!Present(d) : d.inbounds[i].tag # tag
  BY <1>2, WantedNone DEF SameAt
<1> QED
  BY <1>1, <1>2

-----------------------------------------------------------------------------
(* Types of what a request makes of the tables. *)

\* The TLS record of a form or a row is a version, or none.
LEMMA SecuredType ==
  ASSUME NEW d \in R!Tables, NEW form, form.tls \in TlsIds \union {None}
  PROVE  R!Secured(d, form) \in Versions \union {None}
BY DEF R!Secured, R!Tables

\* Links are links.
LEMMA LinksType ==
  ASSUME NEW d \in R!Tables, NEW form, form.tag \in Tags, form.content \in Contents,
         form.tls \in TlsIds \union {None}, NEW config \in Configs
  PROVE  R!Links(d, form, config) \subseteq R!Link
BY SecuredType DEF R!Links, R!Link

\* The links of a client are links.
LEMMA FreshType ==
  ASSUME NEW d \in R!Tables, NEW ids, NEW config \in Configs
  PROVE  R!Fresh(d, ids, config) \subseteq R!Link
<1>1. ASSUME NEW i \in R!Present(d) PROVE R!Links(d, d.inbounds[i], config) \subseteq R!Link
  <2>1. d.inbounds[i] \in R!Inbound
    BY DEF R!Present, R!Tables
  <2> QED
    BY <2>1, LinksType DEF R!Inbound
<1> QED
  BY <1>1 DEF R!Fresh

\* A row made from a form: its fields, and that it is a row.
LEMMA RowType ==
  ASSUME NEW d \in R!Tables, NEW form, form.tag \in Tags, form.content \in Contents,
         form.tls \in TlsIds \union {None}
  PROVE  /\ R!Row(d, form) \in R!Inbound /\ R!Row(d, form) # None
         /\ R!Row(d, form).tag = form.tag /\ R!Row(d, form).content = form.content
         /\ R!Row(d, form).tls = form.tls
<1>1. R!Secured(d, form) \in Versions \union {None}
  BY SecuredType
<1>2. R!Row(d, form) \in R!Inbound
  BY <1>1 DEF R!Row, R!OutJson, R!Inbound
<1> QED
  BY <1>2, RecordAssumption DEF R!Row, R!NoneAssumption

\* The fields of a client.
LEMMA ClientFields ==
  ASSUME NEW d \in R!Tables, NEW c \in R!Registered(d)
  PROVE  /\ d.clients[c] \in R!Client /\ d.clients[c] # None
         /\ d.clients[c].inbounds \in SUBSET Ids /\ d.clients[c].config \in Configs
         /\ d.clients[c].local \in SUBSET R!Link /\ d.clients[c].external \in SUBSET Tags
BY DEF R!Registered, R!Tables, R!Client

\* A client whose links are made anew is attached to the same inbounds and has the same
\* credentials.
LEMMA RelinkedType ==
  ASSUME NEW d \in R!Tables, NEW c \in R!Registered(d), NEW ids, NEW old
  PROVE  /\ R!Relinked(d, c, ids, old) \in R!Client /\ R!Relinked(d, c, ids, old) # None
         /\ R!Relinked(d, c, ids, old).inbounds = d.clients[c].inbounds
         /\ R!Relinked(d, c, ids, old).config = d.clients[c].config
<1> DEFINE row == d.clients[c]
           local == R!Drop(row.local, old) \union R!Fresh(d, ids \intersect row.inbounds, row.config)
<1>1. /\ row \in R!Client
      /\ row.inbounds \in SUBSET Ids /\ row.config \in Configs
      /\ row.local \in SUBSET R!Link /\ row.external \in SUBSET Tags
  BY ClientFields
<1>2. local \in SUBSET R!Link
  <2>1. R!Drop(row.local, old) \subseteq R!Link
    BY <1>1 DEF R!Drop
  <2> QED
    BY <2>1, <1>1, FreshType
<1>3. R!Relinked(d, c, ids, old) = [row EXCEPT !.local = local]
  BY DEF R!Relinked
<1> HIDE DEF local, row
<1>4. [row EXCEPT !.local = local] \in R!Client
  BY <1>1, <1>2 DEF R!Client
<1>5. /\ [row EXCEPT !.local = local].inbounds = row.inbounds
      /\ [row EXCEPT !.local = local].config = row.config
  BY <1>1 DEF R!Client
<1> QED
  BY <1>3, <1>4, <1>5, RecordAssumption DEF row, R!NoneAssumption

-----------------------------------------------------------------------------
(* What a request makes of the tables: they are tables again, and want in the core what *)
(* they wanted before, except at the tags the request is going to change there.         *)

Whole(d) == d \in R!Tables /\ R!Present(d) \subseteq d.used
Elsewhere(d, e, tags) == \A tag \in Tags \ tags : Wanted(e, tag) = Wanted(d, tag)

\* But for the inbounds ids, every inbound has the same users, with the same credentials.
SameClients(d, e, ids) ==
  \A c \in Clients, i \in Ids \ ids :
    /\ R!Attached(e, c, i) <=> R!Attached(d, c, i)
    /\ R!Attached(d, c, i) => e.clients[c].config = d.clients[c].config

\* An inbound that stays as it was, with its TLS record and its users.
LEMMA SameInbound ==
  ASSUME NEW d, NEW e, NEW ids, NEW i \in Ids \ ids, SameClients(d, e, ids),
         d.inbounds[i].content = e.inbounds[i].content,
         R!Secured(d, d.inbounds[i]) = R!Secured(e, e.inbounds[i])
  PROVE  Config(e, i) = Config(d, i)
BY ConfigSame DEF SameClients

\* A row is written, from a form; its clients may change.
LEMMA RowPut ==
  ASSUME NEW d, Whole(d), UniqueTags(d), NEW id \in Ids, NEW form \in R!InboundForm,
         NEW recs \in [Clients -> R!Client \union {None}], NEW e,
         e = [R!Insert(d, id, form) EXCEPT !.clients = recs],
         SameClients(d, e, {id})
  PROVE  /\ Whole(e)
         /\ R!Present(e) = R!Present(d) \union {id} /\ e.inbounds[id].tag = form.tag
         /\ \A i \in R!Present(d) \ {id} : e.inbounds[i] = d.inbounds[i]
         /\ UniqueTags(e) => Elsewhere(d, e, {form.tag} \union TagsOf(d, {id}))
<1> DEFINE row == R!Row(d, form)
<1>1. row \in R!Inbound /\ row # None /\ row.tag = form.tag
  BY RowType DEF Whole, R!InboundForm
<1> HIDE DEF row
<1>2. /\ d.tls \in [TlsIds -> Versions \union {None}]
      /\ d.inbounds \in [Ids -> R!Inbound \union {None}]
      /\ d.used \in SUBSET Ids
  BY DEF Whole, R!Tables
<1>3. /\ e.tls = d.tls /\ e.inbounds = [d.inbounds EXCEPT ![id] = row]
      /\ e.used = d.used \union {id} /\ e.clients = recs
      /\ e = [tls |-> d.tls, inbounds |-> [d.inbounds EXCEPT ![id] = row],
              used |-> d.used \union {id}, clients |-> recs]
  BY DEF R!Insert, Whole, R!Tables, row
<1>4. e \in R!Tables
  BY <1>1, <1>2, <1>3 DEF R!Tables
<1>5. e.inbounds[id] = row /\ \A i \in Ids \ {id} : e.inbounds[i] = d.inbounds[i]
  BY <1>2, <1>3
<1>6. R!Present(e) = R!Present(d) \union {id}
  BY <1>1, <1>5 DEF R!Present
<1>7. Whole(e)
  BY <1>3, <1>4, <1>6 DEF Whole
<1>8. ASSUME UniqueTags(e), NEW tag \in Tags, tag \notin {form.tag} \union TagsOf(d, {id})
      PROVE  Wanted(e, tag) = Wanted(d, tag)
  <2>1. ASSUME NEW i \in R!Present(d), d.inbounds[i].tag = tag
        PROVE  i \in R!Present(e) /\ e.inbounds[i].tag = tag /\ Config(e, i) = Config(d, i)
    <3>1. i \in Ids \ {id}
      BY <1>8, <2>1 DEF TagsOf, R!Present
    <3>2. R!Secured(d, d.inbounds[i]) = R!Secured(e, e.inbounds[i])
      BY <3>1, <1>3, <1>5 DEF R!Secured
    <3>3. e.inbounds[i] = d.inbounds[i]
      BY <3>1, <1>5
    <3>4. Config(e, i) = Config(d, i)
      BY <3>1, <3>2, <3>3, SameInbound
    <3> QED
      BY <2>1, <3>3, <3>4, <1>6
  <2>2. ASSUME NEW i \in R!Present(e), e.inbounds[i].tag = tag
        PROVE  i \in R!Present(d) /\ d.inbounds[i].tag = tag
    <3>1. i # id
      BY <1>8, <2>2, <1>1, <1>5
    <3> QED
      BY <3>1, <2>2, <1>5, <1>6 DEF R!Present
  <2>3. SameAt(d, e, tag)
    BY <2>1, <2>2 DEF SameAt
  <2> QED
    BY <1>8, <2>3, WantedSame
<1> QED
  BY <1>1, <1>5, <1>6, <1>7, <1>8 DEF Elsewhere, R!Present

\* "new": an inbound nobody is attached to yet.
LEMMA InboundNewOk ==
  ASSUME NEW d, Whole(d), UniqueTags(d), NEW id \in Ids \ d.used, NEW form \in R!InboundForm, NEW init
  PROVE  LET e == R!InboundNew(d, id, form, init)
         IN /\ Whole(e)
            /\ R!Present(e) = R!Present(d) \union {id} /\ e.inbounds[id].tag = form.tag
            /\ \A i \in R!Present(d) \ {id} : e.inbounds[i] = d.inbounds[i]
            /\ UniqueTags(e) => Elsewhere(d, e, {form.tag})
<1> DEFINE recs == [c \in Clients |->
             IF c \in init \intersect R!Registered(d)
             THEN [d.clients[c] EXCEPT !.inbounds = @ \union {id},
                                       !.local = R!Drop(@, {form.tag})
                                                   \union R!Links(d, form, d.clients[c].config),
                                       !.external = @ \ {form.tag}]
             ELSE d.clients[c]]
           e == [R!Insert(d, id, form) EXCEPT !.clients = recs]
<1>1. ASSUME NEW c \in Clients
      PROVE  /\ recs[c] \in R!Client \union {None}
             /\ recs[c] # None <=> d.clients[c] # None
             /\ d.clients[c] # None =>
                  /\ recs[c].config = d.clients[c].config
                  /\ \A i \in Ids \ {id} : i \in recs[c].inbounds <=> i \in d.clients[c].inbounds
  <2>1. CASE c \in init \intersect R!Registered(d)
    <3> DEFINE row == d.clients[c]
               local == R!Drop(row.local, {form.tag}) \union R!Links(d, form, row.config)
    <3>1. /\ row \in R!Client /\ row # None
          /\ row.inbounds \in SUBSET Ids /\ row.config \in Configs
          /\ row.local \in SUBSET R!Link /\ row.external \in SUBSET Tags
      BY <2>1, ClientFields DEF Whole
    <3>2. local \in SUBSET R!Link
      <4>1. R!Links(d, form, row.config) \subseteq R!Link
        BY <3>1, LinksType DEF Whole, R!InboundForm
      <4> QED
        BY <4>1, <3>1 DEF R!Drop
    <3>3. recs[c] = [row EXCEPT !.inbounds = @ \union {id}, !.local = local,
                                !.external = @ \ {form.tag}]
      BY <2>1
    <3> HIDE DEF row, local, recs
    <3>4. recs[c] = [inbounds |-> row.inbounds \union {id}, config |-> row.config,
                     local |-> local, external |-> row.external \ {form.tag}]
      BY <3>1, <3>3 DEF R!Client
    <3>5. recs[c] \in R!Client /\ recs[c] # None
      BY <3>1, <3>2, <3>4, RecordAssumption DEF R!Client, R!NoneAssumption
    <3> QED
      BY <3>1, <3>4, <3>5 DEF row
  <2>2. CASE c \notin init \intersect R!Registered(d)
    <3>1. recs[c] = d.clients[c]
      BY <2>2
    <3> HIDE DEF recs
    <3> QED
      BY <3>1 DEF Whole, R!Tables
  <2> QED
    BY <2>1, <2>2
<1>2. recs \in [Clients -> R!Client \union {None}]
  BY <1>1
<1>3. e.clients = recs
  <2> HIDE DEF recs
  <2> QED BY DEF R!Insert, Whole, R!Tables
<1>4. SameClients(d, e, {id})
  <2> HIDE DEF recs, e
  <2> QED
    BY <1>1, <1>3 DEF SameClients, R!Registered, R!Attached
<1>5. TagsOf(d, {id}) = {}
  BY DEF TagsOf, Whole
<1>6. e = R!InboundNew(d, id, form, init)
  BY DEF R!InboundNew
<1> HIDE DEF e, recs
<1>7. /\ Whole(e)
      /\ R!Present(e) = R!Present(d) \union {id} /\ e.inbounds[id].tag = form.tag
      /\ \A i \in R!Present(d) \ {id} : e.inbounds[i] = d.inbounds[i]
      /\ UniqueTags(e) => Elsewhere(d, e, {form.tag} \union TagsOf(d, {id}))
  BY <1>2, <1>4, RowPut DEF e
<1> QED
  BY <1>5, <1>6, <1>7

\* "edit": the row may have been deleted before.
LEMMA InboundEditOk ==
  ASSUME NEW d, Whole(d), UniqueTags(d), NEW id \in d.used, NEW form \in R!InboundForm
  PROVE  LET e == R!InboundEdit(d, id, form)
         IN /\ Whole(e)
            /\ R!Present(e) = R!Present(d) \union {id} /\ e.inbounds[id].tag = form.tag
            /\ \A i \in R!Present(d) \ {id} : e.inbounds[i] = d.inbounds[i]
            /\ UniqueTags(e) => Elsewhere(d, e, {form.tag} \union TagsOf(d, {id}))
<1> DEFINE put == R!Insert(d, id, form)
           old == IF d.inbounds[id] = None THEN {} ELSE {d.inbounds[id].tag}
           recs == [c \in Clients |->
             IF R!Attached(d, c, id) THEN R!Relinked(put, c, {id}, {form.tag} \union old)
                                     ELSE d.clients[c]]
           e == [put EXCEPT !.clients = recs]
<1>1. id \in Ids
  BY DEF Whole, R!Tables
<1>2. put \in R!Tables /\ put.clients = d.clients
  <2>1. R!Row(d, form) \in R!Inbound
    BY RowType DEF Whole, R!InboundForm
  <2> QED
    BY <1>1, <2>1 DEF R!Insert, Whole, R!Tables
<1> HIDE DEF put
<1>3. ASSUME NEW c \in Clients
      PROVE  /\ recs[c] \in R!Client \union {None}
             /\ recs[c] # None <=> d.clients[c] # None
             /\ d.clients[c] # None => /\ recs[c].config = d.clients[c].config
                                       /\ recs[c].inbounds = d.clients[c].inbounds
  <2>1. CASE R!Attached(d, c, id)
    <3>1. recs[c] = R!Relinked(put, c, {id}, {form.tag} \union old)
      BY <2>1
    <3>2. c \in R!Registered(put) /\ d.clients[c] # None
      BY <2>1, <1>2 DEF R!Attached, R!Registered
    <3> QED
      BY <3>1, <3>2, <1>2, RelinkedType
  <2>2. CASE ~R!Attached(d, c, id)
    <3>1. recs[c] = d.clients[c]
      BY <2>2
    <3> HIDE DEF recs
    <3> QED
      BY <3>1 DEF Whole, R!Tables
  <2> QED
    BY <2>1, <2>2
<1>4. recs \in [Clients -> R!Client \union {None}]
  BY <1>3
<1>5. e.clients = recs
  <2> HIDE DEF recs
  <2> QED BY <1>2 DEF R!Tables
<1>6. e = R!InboundEdit(d, id, form)
  BY DEF R!InboundEdit, put
<1>7. SameClients(d, e, {id})
  <2> HIDE DEF recs, e
  <2> QED
    BY <1>3, <1>5 DEF SameClients, R!Registered, R!Attached
<1> HIDE DEF e, recs, old
<1>8. /\ Whole(e)
      /\ R!Present(e) = R!Present(d) \union {id} /\ e.inbounds[id].tag = form.tag
      /\ \A i \in R!Present(d) \ {id} : e.inbounds[i] = d.inbounds[i]
      /\ UniqueTags(e) => Elsewhere(d, e, {form.tag} \union TagsOf(d, {id}))
  BY <1>1, <1>4, <1>7, RowPut DEF e, put
<1> QED
  BY <1>6, <1>8, Zenon

-----------------------------------------------------------------------------
(* Changes that keep the tags. *)

\* The inbounds of e are those of d, and only those among ids may have another content,
\* another TLS record or other users.
LEMMA RowsKept ==
  ASSUME NEW d, Whole(d), UniqueTags(d), NEW e, NEW ids,
         R!Present(e) = R!Present(d),
         \A i \in R!Present(d) : e.inbounds[i].tag = d.inbounds[i].tag,
         \A i \in R!Present(d) \ ids :
           /\ e.inbounds[i].content = d.inbounds[i].content
           /\ R!Secured(e, e.inbounds[i]) = R!Secured(d, d.inbounds[i]),
         SameClients(d, e, ids)
  PROVE  UniqueTags(e) /\ Elsewhere(d, e, TagsOf(d, ids))
<1>1. UniqueTags(e)
  BY DEF UniqueTags
<1>2. ASSUME NEW tag \in Tags \ TagsOf(d, ids) PROVE Wanted(e, tag) = Wanted(d, tag)
  <2>1. ASSUME NEW i \in R!Present(d), d.inbounds[i].tag = tag PROVE Config(e, i) = Config(d, i)
    <3>1. i \in Ids \ ids
      BY <2>1 DEF TagsOf, R!Present
    <3> QED
      BY <3>1, SameInbound
  <2>2. SameAt(d, e, tag)
    BY <2>1 DEF SameAt
  <2> QED
    BY <1>1, <2>2, WantedSame
<1> QED
  BY <1>1, <1>2 DEF Elsewhere

\* Only the clients table changes.
LEMMA ClientsOk ==
  ASSUME NEW d, Whole(d), UniqueTags(d), NEW recs \in [Clients -> R!Client \union {None}],
         NEW e, e = [d EXCEPT !.clients = recs], NEW ids, SameClients(d, e, ids)
  PROVE  /\ Whole(e) /\ UniqueTags(e) /\ e.inbounds = d.inbounds
         /\ Elsewhere(d, e, TagsOf(d, ids))
<1>1. e.tls = d.tls /\ e.inbounds = d.inbounds /\ e.used = d.used /\ e \in R!Tables
  BY DEF Whole, R!Tables
<1>2. R!Present(e) = R!Present(d)
  BY <1>1 DEF R!Present
<1>3. \A form : R!Secured(e, form) = R!Secured(d, form)
  BY <1>1 DEF R!Secured
<1>4. Whole(e)
  BY <1>1, <1>2 DEF Whole
<1>5. \A i \in R!Present(d) \ ids :
        /\ e.inbounds[i].content = d.inbounds[i].content
        /\ R!Secured(e, e.inbounds[i]) = R!Secured(d, d.inbounds[i])
  BY <1>1, <1>3
<1>6. UniqueTags(e) /\ Elsewhere(d, e, TagsOf(d, ids))
  BY <1>1, <1>2, <1>5, RowsKept
<1> QED
  BY <1>1, <1>4, <1>6

\* ClientService.Save for one client: the inbounds it had or gets, unless it keeps them
\* and its credentials.
LEMMA ClientsPutOk ==
  ASSUME NEW d, Whole(d), UniqueTags(d), NEW c \in Clients, NEW form \in R!ClientForm
  PROVE  LET row == d.clients[c]
             ids == IF row = None THEN form.inbounds ELSE R!Changes(row, form, FALSE)
             e == R!ClientsPut(d, [x \in {c} |-> form])
         IN /\ Whole(e) /\ UniqueTags(e) /\ e.inbounds = d.inbounds
            /\ Elsewhere(d, e, TagsOf(d, ids))
<1> DEFINE row == d.clients[c]
           ids == IF row = None THEN form.inbounds ELSE R!Changes(row, form, FALSE)
           new == [inbounds |-> form.inbounds, config |-> form.config,
                   local |-> R!Fresh(d, form.inbounds, form.config), external |-> form.external]
           recs == [x \in Clients |-> IF x = c THEN new ELSE d.clients[x]]
           e == [d EXCEPT !.clients = recs]
<1>1. /\ form.inbounds \in SUBSET Ids /\ form.config \in Configs /\ form.external \in SUBSET Tags
  BY DEF R!ClientForm
<1>2. new \in R!Client /\ new # None /\ new.inbounds = form.inbounds /\ new.config = form.config
  <2>1. R!Fresh(d, form.inbounds, form.config) \in SUBSET R!Link
    BY <1>1, FreshType DEF Whole
  <2>2. new \in R!Client
    BY <1>1, <2>1 DEF R!Client
  <2> QED
    BY <2>2, RecordAssumption DEF R!NoneAssumption
<1> HIDE DEF new
<1>3. recs \in [Clients -> R!Client \union {None}]
  BY <1>2 DEF Whole, R!Tables
<1>4. e = R!ClientsPut(d, [x \in {c} |-> form])
  <2>1. recs = [x \in Clients |->
                 IF x \in DOMAIN [y \in {c} |-> form]
                 THEN [inbounds |-> [y \in {c} |-> form][x].inbounds,
                       config |-> [y \in {c} |-> form][x].config,
                       local |-> R!Fresh(d, [y \in {c} |-> form][x].inbounds,
                                         [y \in {c} |-> form][x].config),
                       external |-> [y \in {c} |-> form][x].external]
                 ELSE d.clients[x]]
    BY DEF new
  <2> HIDE DEF recs
  <2> QED
    BY <2>1 DEF R!ClientsPut
<1>5. e.clients = recs
  <2> HIDE DEF recs
  <2> QED BY DEF Whole, R!Tables
<1>6. recs[c] = new /\ \A x \in Clients \ {c} : recs[x] = d.clients[x]
  OBVIOUS
<1>7. ASSUME NEW i \in Ids \ ids
      PROVE  /\ R!Attached(e, c, i) <=> R!Attached(d, c, i)
             /\ R!Attached(d, c, i) => e.clients[c].config = d.clients[c].config
  <2> HIDE DEF e, recs
  <2>1. R!Attached(e, c, i) <=> i \in form.inbounds
    BY <1>2, <1>5, <1>6 DEF R!Attached, R!Registered
  <2>2. CASE row = None
    BY <2>1, <2>2 DEF R!Attached, R!Registered
  <2>3. CASE row # None
    <3>1. R!Attached(d, c, i) <=> i \in row.inbounds
      BY <2>3 DEF R!Attached, R!Registered
    <3>2. i \notin R!Changes(row, form, FALSE)
      BY <2>3
    <3>3. CASE row.config # form.config
      BY <2>1, <3>1, <3>2, <3>3 DEF R!Changes
    <3>4. CASE row.config = form.config
      BY <2>1, <3>1, <3>2, <3>4, <1>2, <1>5, <1>6 DEF R!Changes
    <3> QED
      BY <3>3, <3>4
  <2> QED
    BY <2>2, <2>3
<1>8. SameClients(d, e, ids)
  <2> HIDE DEF e, recs, ids
  <2> QED
    BY <1>5, <1>6, <1>7 DEF SameClients, R!Attached, R!Registered
<1> HIDE DEF e, recs, ids
<1>9. Whole(e) /\ UniqueTags(e) /\ e.inbounds = d.inbounds /\ Elsewhere(d, e, TagsOf(d, ids))
  BY <1>3, <1>8, ClientsOk DEF e
<1> QED
  BY <1>4, <1>9 DEF ids

\* A client that is deleted leaves its inbounds.
LEMMA ClientsDelOk ==
  ASSUME NEW d, Whole(d), UniqueTags(d), NEW c \in R!Registered(d)
  PROVE  LET e == R!ClientsDel(d, {c})
         IN /\ Whole(e) /\ UniqueTags(e) /\ e.inbounds = d.inbounds
            /\ Elsewhere(d, e, TagsOf(d, d.clients[c].inbounds))
<1> DEFINE recs == [x \in Clients |-> IF x \in {c} THEN None ELSE d.clients[x]]
           e == [d EXCEPT !.clients = recs]
<1>1. recs \in [Clients -> R!Client \union {None}]
  BY DEF Whole, R!Tables
<1>2. e = R!ClientsDel(d, {c})
  BY DEF R!ClientsDel
<1>3. e.clients = recs
  <2> HIDE DEF recs
  <2> QED BY DEF Whole, R!Tables
<1>4. c \in Clients /\ recs[c] = None /\ \A x \in Clients \ {c} : recs[x] = d.clients[x]
  BY DEF R!Registered
<1>5. SameClients(d, e, d.clients[c].inbounds)
  <2> HIDE DEF e, recs
  <2> QED
    BY <1>3, <1>4 DEF SameClients, R!Attached, R!Registered
<1> HIDE DEF e, recs
<1> QED
  BY <1>1, <1>2, <1>5, ClientsOk DEF e

-----------------------------------------------------------------------------
(* Inbounds that go, and TLS records. *)

\* "del": no row has the tag any more.
LEMMA InboundDelOk ==
  ASSUME NEW d, Whole(d), UniqueTags(d), NEW tag
  PROVE  LET e == R!InboundDel(d, tag)
         IN /\ Whole(e) /\ UniqueTags(e) /\ Elsewhere(d, e, {tag}) /\ Wanted(e, tag) = None
<1> DEFINE gone == {i \in R!Present(d) : d.inbounds[i].tag = tag}
           inbounds == [i \in Ids |-> IF i \in gone THEN None ELSE d.inbounds[i]]
           recs == [c \in Clients |->
             IF \E i \in gone : R!Attached(d, c, i)
             THEN [d.clients[c] EXCEPT !.inbounds = @ \ gone,
                                       !.local = R!Drop(@, {tag}),
                                       !.external = @ \ {tag}]
             ELSE d.clients[c]]
           e == [d EXCEPT !.inbounds = inbounds, !.clients = recs]
<1>1. ASSUME NEW c \in Clients
      PROVE  /\ recs[c] \in R!Client \union {None}
             /\ recs[c] # None <=> d.clients[c] # None
             /\ d.clients[c] # None =>
                  /\ recs[c].config = d.clients[c].config
                  /\ \A i \in Ids \ gone : i \in recs[c].inbounds <=> i \in d.clients[c].inbounds
  <2>1. CASE \E i \in gone : R!Attached(d, c, i)
    <3> DEFINE row == d.clients[c]
               local == R!Drop(row.local, {tag})
    <3>1. /\ row \in R!Client /\ row # None
          /\ row.inbounds \in SUBSET Ids /\ row.config \in Configs
          /\ row.local \in SUBSET R!Link /\ row.external \in SUBSET Tags
      BY <2>1, ClientFields DEF Whole, R!Attached
    <3>2. local \in SUBSET R!Link
      BY <3>1 DEF R!Drop
    <3>3. recs[c] = [row EXCEPT !.inbounds = @ \ gone, !.local = local, !.external = @ \ {tag}]
      BY <2>1
    <3> HIDE DEF row, local, recs, gone
    <3>4. recs[c] = [inbounds |-> row.inbounds \ gone, config |-> row.config,
                     local |-> local, external |-> row.external \ {tag}]
      BY <3>1, <3>3 DEF R!Client
    <3>5. recs[c] \in R!Client /\ recs[c] # None
      BY <3>1, <3>2, <3>4, RecordAssumption DEF R!Client, R!NoneAssumption
    <3> QED
      BY <3>1, <3>4, <3>5 DEF row
  <2>2. CASE ~ \E i \in gone : R!Attached(d, c, i)
    <3>1. recs[c] = d.clients[c]
      BY <2>2
    <3> HIDE DEF recs
    <3> QED
      BY <3>1 DEF Whole, R!Tables
  <2> QED
    BY <2>1, <2>2
<1>2. recs \in [Clients -> R!Client \union {None}]
  BY <1>1
<1>3. inbounds \in [Ids -> R!Inbound \union {None}]
  BY DEF Whole, R!Tables
<1>4. e = R!InboundDel(d, tag)
  BY DEF R!InboundDel, Whole, R!Tables
<1>5. /\ e.tls = d.tls /\ e.inbounds = inbounds /\ e.used = d.used /\ e.clients = recs
      /\ e \in R!Tables
  <2> HIDE DEF recs, inbounds
  <2> QED BY <1>2, <1>3 DEF Whole, R!Tables
<1>6. /\ R!Present(e) = R!Present(d) \ gone
      /\ \A i \in R!Present(e) : e.inbounds[i] = d.inbounds[i]
  <2> HIDE DEF recs, e
  <2> QED BY <1>5 DEF R!Present
<1>7. SameClients(d, e, gone)
  <2> HIDE DEF recs, e, gone
  <2> QED BY <1>1, <1>5 DEF SameClients, R!Registered, R!Attached
<1>8. Whole(e) /\ UniqueTags(e)
  <2> HIDE DEF recs, e, gone
  <2> QED BY <1>5, <1>6 DEF Whole, UniqueTags
<1>9. Wanted(e, tag) = None
  <2> HIDE DEF recs, e
  <2> QED BY <1>6, WantedNone
<1>10. ASSUME NEW other \in Tags \ {tag} PROVE Wanted(e, other) = Wanted(d, other)
  <2> HIDE DEF recs, e, inbounds
  <2>1. ASSUME NEW i \in R!Present(d), d.inbounds[i].tag = other
        PROVE  i \in R!Present(e) /\ e.inbounds[i].tag = other /\ Config(e, i) = Config(d, i)
    <3>1. i \in Ids \ gone /\ i \in R!Present(e)
      BY <2>1, <1>6 DEF R!Present
    <3>2. e.inbounds[i] = d.inbounds[i]
      BY <3>1, <1>6
    <3>3. R!Secured(d, d.inbounds[i]) = R!Secured(e, e.inbounds[i])
      BY <3>2, <1>5 DEF R!Secured
    <3>4. Config(e, i) = Config(d, i)
      <4> HIDE DEF gone
      <4> QED BY <3>1, <3>2, <3>3, <1>7, SameInbound
    <3> QED
      BY <2>1, <3>1, <3>2, <3>4
  <2>2. SameAt(d, e, other)
    BY <2>1, <1>6 DEF SameAt
  <2> QED
    BY <1>8, <2>2, WantedSame
<1> HIDE DEF e
<1> QED
  BY <1>4, <1>8, <1>9, <1>10 DEF Elsewhere

\* TlsService.Save: only what the record secures changes.
LEMMA TlsSaveOk ==
  ASSUME NEW d, Whole(d), UniqueTags(d), NEW t \in TlsIds, NEW version \in Versions
  PROVE  LET e == R!TlsSave(d, t, version)
             uses == {i \in R!Present(d) : d.inbounds[i].tls = t}
         IN /\ Whole(e) /\ UniqueTags(e) /\ R!Present(e) = R!Present(d)
            /\ \A i \in R!Present(d) : e.inbounds[i].tag = d.inbounds[i].tag
            /\ Elsewhere(d, e, TagsOf(d, uses))
<1> DEFINE uses == {i \in R!Present(d) : d.inbounds[i].tls = t}
           put == [d EXCEPT !.tls[t] = version]
           inbounds == [i \in Ids |-> IF i \in uses THEN R!Row(put, d.inbounds[i]) ELSE d.inbounds[i]]
           old(c) == {d.inbounds[i].tag : i \in uses \intersect d.clients[c].inbounds}
           recs == [c \in Clients |->
             IF c \in R!Registered(d) THEN R!Relinked(put, c, uses, old(c)) ELSE None]
           e == [put EXCEPT !.inbounds = inbounds, !.clients = recs]
<1>1. /\ put \in R!Tables /\ put.inbounds = d.inbounds /\ put.clients = d.clients
      /\ put.used = d.used /\ put.tls = [d.tls EXCEPT ![t] = version]
  BY DEF Whole, R!Tables
<1>2. e = R!TlsSave(d, t, version)
  BY <1>1 DEF R!TlsSave
<1> HIDE DEF put
<1>3. ASSUME NEW i \in R!Present(d)
      PROVE  /\ d.inbounds[i] \in R!Inbound
             /\ R!Row(put, d.inbounds[i]) \in R!Inbound /\ R!Row(put, d.inbounds[i]) # None
             /\ R!Row(put, d.inbounds[i]).tag = d.inbounds[i].tag
             /\ R!Row(put, d.inbounds[i]).content = d.inbounds[i].content
             /\ R!Row(put, d.inbounds[i]).tls = d.inbounds[i].tls
  <2>1. d.inbounds[i] \in R!Inbound
    BY DEF Whole, R!Tables, R!Present
  <2> QED
    BY <2>1, <1>1, RowType DEF R!Inbound
<1>4. inbounds \in [Ids -> R!Inbound \union {None}]
  BY <1>3 DEF Whole, R!Tables
<1>5. ASSUME NEW c \in Clients
      PROVE  /\ recs[c] \in R!Client \union {None}
             /\ recs[c] # None <=> d.clients[c] # None
             /\ d.clients[c] # None => /\ recs[c].config = d.clients[c].config
                                       /\ recs[c].inbounds = d.clients[c].inbounds
  <2>1. CASE c \in R!Registered(d)
    <3>1. recs[c] = R!Relinked(put, c, uses, old(c))
      BY <2>1
    <3>2. c \in R!Registered(put) /\ d.clients[c] # None
      BY <2>1, <1>1 DEF R!Registered
    <3> HIDE DEF recs, uses, old
    <3> QED
      BY <3>1, <3>2, <1>1, RelinkedType
  <2>2. CASE c \notin R!Registered(d)
    BY <2>2 DEF R!Registered
  <2> QED
    BY <2>1, <2>2
<1>6. recs \in [Clients -> R!Client \union {None}]
  BY <1>5
<1>7. /\ e.tls = put.tls /\ e.inbounds = inbounds /\ e.used = d.used /\ e.clients = recs
      /\ e \in R!Tables
  <2> HIDE DEF recs, inbounds
  <2> QED BY <1>1, <1>4, <1>6 DEF R!Tables
<1> HIDE DEF e, recs
<1>8. ASSUME NEW i \in R!Present(d)
      PROVE  /\ i \in R!Present(e)
             /\ e.inbounds[i].tag = d.inbounds[i].tag
             /\ e.inbounds[i].content = d.inbounds[i].content
             /\ e.inbounds[i].tls = d.inbounds[i].tls
  BY <1>3, <1>7 DEF R!Present
<1>9. R!Present(e) = R!Present(d)
  BY <1>7, <1>8 DEF R!Present
<1>10. Whole(e)
  BY <1>7, <1>9 DEF Whole
<1>11. \A i \in R!Present(d) \ uses : R!Secured(e, e.inbounds[i]) = R!Secured(d, d.inbounds[i])
  <2> SUFFICES ASSUME NEW i \in R!Present(d) \ uses
               PROVE  R!Secured(e, e.inbounds[i]) = R!Secured(d, d.inbounds[i])
    OBVIOUS
  <2>1. d.inbounds[i].tls # t /\ d.inbounds[i].tls \in TlsIds \union {None}
    BY <1>3 DEF R!Inbound
  <2>2. e.tls = [d.tls EXCEPT ![t] = version] /\ d.tls \in [TlsIds -> Versions \union {None}]
    BY <1>1, <1>7 DEF Whole, R!Tables
  <2> QED
    BY <1>8, <2>1, <2>2 DEF R!Secured
<1>12. SameClients(d, e, uses)
  BY <1>5, <1>7 DEF SameClients, R!Registered, R!Attached
<1>13. UniqueTags(e) /\ Elsewhere(d, e, TagsOf(d, uses))
  <2> HIDE DEF uses
  <2> QED BY <1>8, <1>9, <1>11, <1>12, RowsKept
<1> QED
  BY <1>2, <1>8, <1>9, <1>10, <1>13

\* A record no inbound names secures nothing.
LEMMA TlsDelOk ==
  ASSUME NEW d, Whole(d), UniqueTags(d), NEW t \in TlsIds, R!TlsFree(d, t)
  PROVE  LET e == R!TlsDel(d, t) IN Whole(e) /\ UniqueTags(e) /\ Elsewhere(d, e, {})
<1> DEFINE e == [d EXCEPT !.tls[t] = None]
<1>1. /\ e.tls = [d.tls EXCEPT ![t] = None] /\ e.inbounds = d.inbounds /\ e.used = d.used
      /\ e.clients = d.clients /\ e \in R!Tables
  BY DEF Whole, R!Tables
<1>2. e = R!TlsDel(d, t)
  BY DEF R!TlsDel
<1> HIDE DEF e
<1>3. R!Present(e) = R!Present(d)
  BY <1>1 DEF R!Present
<1>4. ASSUME NEW i \in R!Present(d)
      PROVE  R!Secured(e, e.inbounds[i]) = R!Secured(d, d.inbounds[i])
  <2>1. d.inbounds[i].tls # t /\ d.inbounds[i].tls \in TlsIds \union {None}
    BY DEF R!TlsFree, Whole, R!Tables, R!Present, R!Inbound
  <2>2. d.tls \in [TlsIds -> Versions \union {None}]
    BY DEF Whole, R!Tables
  <2> QED
    BY <1>1, <2>1, <2>2 DEF R!Secured
<1>5. SameClients(d, e, {})
  BY <1>1 DEF SameClients, R!Attached, R!Registered
<1>6. UniqueTags(e) /\ Elsewhere(d, e, TagsOf(d, {}))
  BY <1>1, <1>3, <1>4, <1>5, RowsKept
<1>7. Whole(e) /\ TagsOf(d, {}) = {}
  BY <1>1, <1>3 DEF Whole, TagsOf
<1> QED
  BY <1>2, <1>6, <1>7

-----------------------------------------------------------------------------
(* What a request is going to do in the core. *)

Jobs == [op : {"remove"}, what : Tags] \union [op : {"add"}, what : Ids]

\* The tag a job changes, and what it puts there, in the light of the tables p.
JobTag(p, job) == IF job.op = "remove" THEN job.what ELSE p.inbounds[job.what].tag
JobResult(p, job) == IF job.op = "remove" THEN None ELSE Config(p, job.what)

\* Every job is about one of the tags; what is added is a row of p.
JobsWithin(jobs, p, tags) ==
  \A n \in 1..Len(jobs) : /\ JobTag(p, jobs[n]) \in tags
                          /\ jobs[n].op = "add" => jobs[n].what \in R!Present(p)

\* When the jobs are done the core, which has `now` at the tag, has `result` there.
Leaves(jobs, p, tag, now, result) ==
  \/ \E n \in 1..Len(jobs) :
       /\ JobTag(p, jobs[n]) = tag /\ JobResult(p, jobs[n]) = result
       /\ \A m \in 1..Len(jobs) : m > n => JobTag(p, jobs[m]) # tag
  \/ (\A n \in 1..Len(jobs) : JobTag(p, jobs[n]) # tag) /\ now = result

\* One job is done.
LEMMA JobDone ==
  ASSUME NEW jobs \in Seq(Jobs), jobs # <<>>, NEW p, NEW tags, NEW tag, NEW now, NEW result
  PROVE  /\ Head(jobs) \in Jobs /\ Tail(jobs) \in Seq(Jobs)
         /\ JobsWithin(jobs, p, tags) =>
              JobsWithin(Tail(jobs), p, tags) /\ JobTag(p, Head(jobs)) \in tags
         /\ Leaves(jobs, p, tag, now, result) =>
              Leaves(Tail(jobs), p, tag,
                     IF JobTag(p, Head(jobs)) = tag THEN JobResult(p, Head(jobs)) ELSE now, result)
<1>1. /\ Head(jobs) = jobs[1] /\ Head(jobs) \in Jobs /\ Tail(jobs) \in Seq(Jobs)
      /\ Len(jobs) \in Nat /\ 1 \in 1..Len(jobs) /\ Len(Tail(jobs)) = Len(jobs) - 1
      /\ \A n \in 1..Len(Tail(jobs)) : Tail(jobs)[n] = jobs[n + 1]
  OBVIOUS
<1> DEFINE rest == Tail(jobs)
           k == Len(jobs)
           T(n) == JobTag(p, jobs[n])
           U(n) == JobTag(p, rest[n])
<1>2. \A n \in 1..k - 1 : U(n) = T(n + 1) /\ rest[n] = jobs[n + 1]
  BY <1>1
<1>3. JobsWithin(jobs, p, tags) => JobsWithin(rest, p, tags) /\ T(1) \in tags
  BY <1>1, <1>2 DEF JobsWithin
<1>4. ASSUME Leaves(jobs, p, tag, now, result)
      PROVE  Leaves(rest, p, tag, IF T(1) = tag THEN JobResult(p, jobs[1]) ELSE now, result)
  <2>1. CASE \E n \in 1..k : /\ T(n) = tag /\ JobResult(p, jobs[n]) = result
                             /\ \A m \in 1..k : m > n => T(m) # tag
    <3>1. PICK n \in 1..k : /\ T(n) = tag /\ JobResult(p, jobs[n]) = result
                            /\ \A m \in 1..k : m > n => T(m) # tag
      BY <2>1
    <3>2. CASE n = 1
      <4>1. \A m \in 1..k - 1 : U(m) # tag
        <5> SUFFICES ASSUME NEW m \in 1..k - 1 PROVE U(m) # tag
          OBVIOUS
        <5>1. m + 1 \in 1..k /\ m + 1 > n
          BY <3>2, <1>1
        <5> QED
          BY <5>1, <3>1, <1>2
      <4> QED
        BY <4>1, <3>1, <3>2, <1>1 DEF Leaves
    <3>3. CASE n # 1
      <4>1. n - 1 \in 1..k - 1 /\ (n - 1) + 1 = n
        BY <3>3, <1>1
      <4>2. U(n - 1) = tag /\ JobResult(p, rest[n - 1]) = result
        BY <4>1, <3>1, <1>2
      <4>3. ASSUME NEW m \in 1..k - 1, m > n - 1 PROVE U(m) # tag
        <5>1. m + 1 \in 1..k /\ m + 1 > n
          BY <4>3, <1>1
        <5> QED
          BY <5>1, <3>1, <1>2
      <4> QED
        BY <4>1, <4>2, <4>3, <1>1 DEF Leaves
    <3> QED
      BY <3>2, <3>3
  <2>2. CASE (\A n \in 1..k : T(n) # tag) /\ now = result
    <3>1. \A n \in 1..k - 1 : U(n) # tag
      <4> SUFFICES ASSUME NEW n \in 1..k - 1 PROVE U(n) # tag
        OBVIOUS
      <4>1. n + 1 \in 1..k
        BY <1>1
      <4> QED
        BY <4>1, <2>2, <1>2
    <3> QED
      BY <3>1, <2>2, <1>1 DEF Leaves
  <2> QED
    BY <1>4, <2>1, <2>2 DEF Leaves
<1> QED
  BY <1>1, <1>3, <1>4

\* RestartInbounds removes and adds the inbounds of the rows ids: it leaves what tables p
\* want that have these rows under the same tags.
LEMMA RestartsLeave ==
  ASSUME NEW d, Whole(d), UniqueTags(d), NEW ids, NEW jobs \in Restarts(d, ids),
         NEW p, UniqueTags(p),
         \A i \in R!Present(d) : i \in R!Present(p) /\ p.inbounds[i].tag = d.inbounds[i].tag
  PROVE  /\ jobs \in Seq(Jobs) /\ TagsOf(d, ids) \in SUBSET Tags
         /\ JobsWithin(jobs, p, TagsOf(d, ids))
         /\ \A tag \in TagsOf(d, ids) : \A now : Leaves(jobs, p, tag, now, Wanted(p, tag))
<1> DEFINE recs == ids \intersect R!Present(d)
           k == Cardinality(recs)
<1>1. k \in Nat
  <2>1. recs \in SUBSET Ids
    BY DEF R!Present
  <2>2. IsFiniteSet(recs)
    BY <2>1, FS_Subset, FiniteAssumption
  <2> QED
    BY <2>2, FS_CardinalityType
<1>2. PICK order \in Bijection(1..k, recs) :
        jobs = [n \in 1..2*k |-> IF n % 2 = 1 THEN Removal(d.inbounds[order[(n + 1) \div 2]].tag)
                                              ELSE Addition(order[n \div 2])]
  BY DEF Restarts
<1> HIDE DEF k
<1>3. /\ order \in [1..k -> recs]
      /\ \A m, n \in 1..k : order[m] = order[n] => m = n
      /\ \A i \in recs : \E n \in 1..k : order[n] = i
  BY <1>2 DEF Bijection, Injection, Surjection, IsInjective
<1>4. \A i \in recs : /\ i \in Ids /\ i \in R!Present(d) /\ i \in R!Present(p)
                      /\ d.inbounds[i].tag \in Tags /\ d.inbounds[i].tag \in TagsOf(d, ids)
                      /\ p.inbounds[i].tag = d.inbounds[i].tag
  BY DEF TagsOf, R!Present, Whole, R!Tables, R!Inbound
\* The n-th job is about the half-th row.
<1>5. ASSUME NEW n \in 1..2*k
      PROVE  \E half \in 1..k :
               \/ n = 2 * half - 1 /\ jobs[n] = Removal(d.inbounds[order[half]].tag)
               \/ n = 2 * half /\ jobs[n] = Addition(order[half])
  <2>1. CASE n % 2 = 1
    <3>1. (n + 1) \div 2 \in 1..k /\ n = 2 * ((n + 1) \div 2) - 1
      BY <2>1, <1>1
    <3> QED
      BY <3>1, <2>1, <1>2
  <2>2. CASE n % 2 # 1
    <3>1. n \div 2 \in 1..k /\ n = 2 * (n \div 2)
      BY <2>2, <1>1
    <3> QED
      BY <3>1, <2>2, <1>2
  <2> QED
    BY <2>1, <2>2
<1>6. Len(jobs) = 2*k /\ DOMAIN jobs = 1..2*k
  BY <1>1, <1>2
<1>7. ASSUME NEW n \in 1..2*k PROVE jobs[n] \in Jobs
  <2>1. PICK half \in 1..k : \/ jobs[n] = Removal(d.inbounds[order[half]].tag)
                             \/ jobs[n] = Addition(order[half])
    BY <1>5
  <2>2. order[half] \in Ids /\ d.inbounds[order[half]].tag \in Tags
    BY <1>3, <1>4
  <2> QED
    BY <2>1, <2>2 DEF Jobs, Removal, Addition
<1>8. jobs \in Seq(Jobs)
  <2>1. 2*k \in Nat /\ jobs \in [1..2*k -> Jobs]
    BY <1>1, <1>2, <1>7
  <2> QED
    BY <2>1
<1>9. ASSUME NEW n \in 1..2*k, NEW half \in 1..k,
             \/ n = 2 * half - 1 /\ jobs[n] = Removal(d.inbounds[order[half]].tag)
             \/ n = 2 * half /\ jobs[n] = Addition(order[half])
      PROVE  JobTag(p, jobs[n]) = d.inbounds[order[half]].tag
  BY <1>3, <1>4, <1>9 DEF JobTag, Removal, Addition
<1>10. JobsWithin(jobs, p, TagsOf(d, ids))
  <2> SUFFICES ASSUME NEW n \in 1..2*k
               PROVE  /\ JobTag(p, jobs[n]) \in TagsOf(d, ids)
                      /\ jobs[n].op = "add" => jobs[n].what \in R!Present(p)
    BY <1>6 DEF JobsWithin
  <2>1. PICK half \in 1..k : \/ n = 2 * half - 1 /\ jobs[n] = Removal(d.inbounds[order[half]].tag)
                             \/ n = 2 * half /\ jobs[n] = Addition(order[half])
    BY <1>5
  <2> QED
    BY <2>1, <1>3, <1>4, <1>9 DEF Removal, Addition
<1>11. ASSUME NEW tag \in TagsOf(d, ids), NEW now PROVE Leaves(jobs, p, tag, now, Wanted(p, tag))
  <2>1. PICK i \in recs : d.inbounds[i].tag = tag
    BY DEF TagsOf
  <2>2. PICK half \in 1..k : order[half] = i
    BY <1>3
  <2>3. 2 * half \in 1..2*k
    BY <1>1
  <2>4. jobs[2 * half] = Addition(i)
    <3>1. (2 * half) % 2 = 0 /\ (2 * half) \div 2 = half
      OBVIOUS
    <3> QED
      BY <3>1, <2>2, <2>3, <1>2
  <2>5. JobTag(p, jobs[2 * half]) = tag /\ JobResult(p, jobs[2 * half]) = Wanted(p, tag)
    BY <2>1, <2>4, <1>4, WantedIs DEF JobTag, JobResult, Addition
  <2>6. ASSUME NEW m \in 1..2*k, m > 2 * half PROVE JobTag(p, jobs[m]) # tag
    <3>1. PICK other \in 1..k : \/ m = 2 * other - 1 /\ jobs[m] = Removal(d.inbounds[order[other]].tag)
                                \/ m = 2 * other /\ jobs[m] = Addition(order[other])
      BY <1>5
    <3>2. other # half /\ order[other] # i
      BY <2>6, <3>1, <2>2, <1>3
    <3>3. d.inbounds[order[other]].tag # tag
      BY <3>2, <2>1, <1>3, <1>4 DEF UniqueTags
    <3> QED
      BY <3>1, <3>3, <1>9
  <2> QED
    BY <2>3, <2>5, <2>6, <1>6 DEF Leaves
<1>12. TagsOf(d, ids) \in SUBSET Tags
  BY <1>4 DEF TagsOf
<1> QED
  BY <1>8, <1>10, <1>11, <1>12

-----------------------------------------------------------------------------
(* The invariant. *)

\* What a request that is alone, and sees the tables as they are, can make of them.
Makes(d, e) ==
  \/ \E form \in R!InboundForm, id \in Ids \ d.used, init \in SUBSET R!Registered(d) :
       /\ R!Valid(d, form) /\ R!TagFree(d, id, form.tag)
       /\ e = R!InboundNew(d, id, form, init)
  \/ \E form \in R!InboundForm, id \in d.used :
       /\ R!Valid(d, form) /\ R!TagFree(d, id, form.tag)
       /\ e = R!InboundEdit(d, id, form)
  \/ \E tag \in Tags : e = R!InboundDel(d, tag)
  \/ \E t \in TlsIds, version \in Versions : e = R!TlsSave(d, t, version)
  \/ \E t \in TlsIds : R!TlsFree(d, t) /\ e = R!TlsDel(d, t)
  \/ \E c \in Clients, form \in R!ClientForm :
       form.inbounds \subseteq d.used /\ e = R!ClientsPut(d, [x \in {c} |-> form])
  \/ \E c \in R!Registered(d) : e = R!ClientsDel(d, {c})

TablesInv == Whole(db) /\ UniqueTags(db)

\* A request: what it holds while it is busy; its jobs are about the tags it touches; a
\* delete that has not read knows its tag and nothing else.
RequestInv(r) ==
  /\ at[r] = "idle" => /\ view[r] = "none" /\ pending[r] = None
                       /\ todo[r] = <<>> /\ touched[r] = {}
  /\ at[r] = "write" => view[r] # "none"
  /\ at[r] # "idle" /\ view[r] = "none" =>
       /\ \E tag \in Tags : touched[r] = {tag}
       /\ pending[r] = None /\ \A n \in 1..Len(todo[r]) : todo[r][n].op = "remove"
  /\ view[r] # "none" => pending[r] \in R!Tables
  /\ JobsWithin(todo[r], pending[r], touched[r])
  /\ writer = r => UniqueTags(pending[r])

\* The snapshot of r is the tables as they are, and it will not be refused for its tags.
Current(r) == view[r] = "fresh" /\ UniqueTags(pending[r])

\* What it is going to commit is then what one request makes of the tables, and wants
\* nothing new in the core but at the tags it touches.
Sound(r) == Current(r) => /\ Whole(pending[r]) /\ Makes(db, pending[r])
                          /\ Elsewhere(db, pending[r], touched[r])

\* Nobody else is busy with the tag.
Alone(r, tag) == \A q \in Busy \ {r} : tag \notin touched[q]

\* What the core is to have at a tag of r when r is done.
Result(r, tag) == IF view[r] = "none" THEN None ELSE Wanted(pending[r], tag)

\* At a tag it is alone with, a request leaves the core as its own tables want it.
Settled(r) ==
  view[r] = "none" \/ Current(r) =>
    \A tag \in touched[r] \ suspect :
      Alone(r, tag) => Leaves(todo[r], pending[r], tag, core[tag], Result(r, tag))

\* A delete that has not read yet shares no tag that is not given up.
OverlapInv ==
  \A r, q \in Busy : r # q /\ view[r] = "none" => touched[r] \intersect touched[q] \subseteq suspect

\* A start of the core has read what the tables want, but for the tags in flight.
BootInv ==
  boot # None => /\ InFlight \subseteq suspect
                 /\ boot = [tag \in Tags |-> boot[tag]]
                 /\ \A tag \in Tags \ suspect : boot[tag] = Wanted(db, tag)

IInv ==
  /\ TypeOK /\ TablesInv
  /\ \A r \in Requests : RequestInv(r) /\ Sound(r)
  /\ up => \A r \in Busy : Settled(r)
  /\ OverlapInv /\ BootInv
  /\ core = [tag \in Tags |-> core[tag]] /\ CoreFollows

-----------------------------------------------------------------------------
(* What the requests set out to do. *)

\* The plan of a request that reads the tables when it begins.
Plan(new, jobs, tags) ==
  /\ new \in R!Tables /\ jobs \in Seq(Jobs) /\ tags \in SUBSET Tags
  /\ JobsWithin(jobs, new, tags)
  /\ UniqueTags(new) => Whole(new) /\ Makes(db, new) /\ Elsewhere(db, new, tags)
  /\ up /\ UniqueTags(new) =>
       \A tag \in tags : Leaves(jobs, new, tag, core[tag], Wanted(new, tag))

\* The tag of a form is a tag.
LEMMA FormTag == ASSUME NEW form \in R!InboundForm PROVE form.tag \in Tags
BY DEF R!InboundForm

\* The tag a new row takes is free if the tags are unique afterwards.
LEMMA TagWasFree ==
  ASSUME NEW d, NEW e, NEW id, NEW tag, UniqueTags(e),
         R!Present(e) = R!Present(d) \union {id}, e.inbounds[id].tag = tag,
         \A i \in R!Present(d) \ {id} : e.inbounds[i] = d.inbounds[i]
  PROVE  R!TagFree(d, id, tag)
BY DEF UniqueTags, R!TagFree

\* Jobs that are dropped when the core is down are still jobs about the tags.
LEMMA IfUpJobs ==
  ASSUME NEW jobs \in Seq(Jobs), NEW e, NEW tags, JobsWithin(jobs, e, tags)
  PROVE  /\ IfUp(jobs) \in Seq(Jobs) /\ JobsWithin(IfUp(jobs), e, tags)
         /\ up => IfUp(jobs) = jobs
<1>1. CASE up
  BY <1>1 DEF IfUp
<1>2. CASE ~up
  <2>1. IfUp(jobs) = <<>>
    BY <1>2 DEF IfUp
  <2>2. <<>> \in Seq(Jobs) /\ JobsWithin(<<>>, e, tags)
    BY DEF JobsWithin
  <2> QED
    BY <1>2, <2>1, <2>2
<1> QED
  BY <1>1, <1>2

\* "new" adds its inbound.
LEMMA NewPlan ==
  ASSUME TablesInv, NEW id \in Ids \ db.used, NEW form \in R!InboundForm, R!Valid(db, form),
         NEW init \in SUBSET R!Registered(db)
  PROVE  Plan(R!InboundNew(db, id, form, init), IfUp(<<Addition(id)>>), {form.tag})
<1> DEFINE e == R!InboundNew(db, id, form, init)
           jobs == <<Addition(id)>>
<1>1. /\ Whole(e)
      /\ R!Present(e) = R!Present(db) \union {id} /\ e.inbounds[id].tag = form.tag
      /\ \A i \in R!Present(db) \ {id} : e.inbounds[i] = db.inbounds[i]
      /\ UniqueTags(e) => Elsewhere(db, e, {form.tag})
  BY InboundNewOk DEF TablesInv
<1>2. UniqueTags(e) => Makes(db, e)
  <2> SUFFICES ASSUME UniqueTags(e) PROVE Makes(db, e)
    OBVIOUS
  <2>1. R!TagFree(db, id, form.tag)
    <3> HIDE DEF e
    <3> QED BY <1>1, TagWasFree
  <2> QED
    BY <2>1 DEF Makes
<1> HIDE DEF e
<1>3. /\ jobs \in Seq(Jobs) /\ Len(jobs) = 1 /\ jobs[1].op = "add" /\ jobs[1].what = id
  BY DEF Jobs, Addition
<1>4. JobTag(e, jobs[1]) = form.tag /\ JobResult(e, jobs[1]) = Config(e, id)
  BY <1>1, <1>3 DEF JobTag, JobResult
<1> HIDE DEF jobs
<1>5. JobsWithin(jobs, e, {form.tag})
  BY <1>1, <1>3, <1>4 DEF JobsWithin
<1>6. UniqueTags(e) => \A now : Leaves(jobs, e, form.tag, now, Wanted(e, form.tag))
  <2>1. UniqueTags(e) => Wanted(e, form.tag) = Config(e, id)
    BY <1>1, WantedIs
  <2> QED
    BY <2>1, <1>3, <1>4 DEF Leaves
<1>7. IfUp(jobs) \in Seq(Jobs) /\ JobsWithin(IfUp(jobs), e, {form.tag}) /\ (up => IfUp(jobs) = jobs)
  BY <1>3, <1>5, IfUpJobs
<1>8. Plan(e, IfUp(jobs), {form.tag})
  BY <1>1, <1>2, <1>6, <1>7, FormTag DEF Plan, Whole
<1> QED
  BY <1>8 DEF e, jobs

\* "edit" removes the inbound under its old tag and adds it under the new one.
LEMMA EditPlan ==
  ASSUME TablesInv, NEW id \in db.used, NEW form \in R!InboundForm, R!Valid(db, form)
  PROVE  Plan(R!InboundEdit(db, id, form),
              IfUp(IF id \in R!Present(db) THEN <<Removal(db.inbounds[id].tag), Addition(id)>>
                                           ELSE <<Addition(id)>>),
              {form.tag} \union TagsOf(db, {id}))
<1> DEFINE e == R!InboundEdit(db, id, form)
           old == db.inbounds[id].tag
           both == <<Removal(old), Addition(id)>>
           one == <<Addition(id)>>
           jobs == IF id \in R!Present(db) THEN both ELSE one
           tags == {form.tag} \union TagsOf(db, {id})
<1>1. /\ Whole(e)
      /\ R!Present(e) = R!Present(db) \union {id} /\ e.inbounds[id].tag = form.tag
      /\ \A i \in R!Present(db) \ {id} : e.inbounds[i] = db.inbounds[i]
      /\ UniqueTags(e) => Elsewhere(db, e, tags)
  BY InboundEditOk DEF TablesInv
<1>2. UniqueTags(e) => Makes(db, e)
  <2> SUFFICES ASSUME UniqueTags(e) PROVE Makes(db, e)
    OBVIOUS
  <2>1. R!TagFree(db, id, form.tag)
    <3> HIDE DEF e
    <3> QED BY <1>1, TagWasFree
  <2> QED
    BY <2>1 DEF Makes
<1>3. id \in Ids /\ (id \in R!Present(db) => old \in Tags)
  BY DEF TablesInv, Whole, R!Tables, R!Present, R!Inbound
<1>4. /\ id \in R!Present(db) => TagsOf(db, {id}) = {old}
      /\ id \notin R!Present(db) => TagsOf(db, {id}) = {}
  BY DEF TagsOf
<1> HIDE DEF e, old
<1>5. UniqueTags(e) => Wanted(e, form.tag) = Config(e, id)
  BY <1>1, WantedIs
<1>6. CASE id \in R!Present(db)
  <2>1. /\ jobs = both /\ both \in Seq(Jobs) /\ Len(both) = 2
        /\ both[1].op = "remove" /\ both[1].what = old /\ both[2].op = "add" /\ both[2].what = id
    BY <1>3, <1>6 DEF Jobs, Removal, Addition
  <2> HIDE DEF both
  <2>2. /\ JobTag(e, both[1]) = old /\ JobResult(e, both[1]) = None
        /\ JobTag(e, both[2]) = form.tag /\ JobResult(e, both[2]) = Config(e, id)
    BY <1>1, <2>1 DEF JobTag, JobResult
  <2>3. JobsWithin(both, e, tags)
    <3>1. \A n \in 1..Len(both) : n = 1 \/ n = 2
      BY <2>1
    <3>2. old \in tags /\ form.tag \in tags /\ id \in R!Present(e)
      BY <1>1, <1>4, <1>6
    <3> QED
      BY <2>1, <2>2, <3>1, <3>2 DEF JobsWithin
  <2>4. ASSUME UniqueTags(e), NEW now PROVE Leaves(both, e, form.tag, now, Wanted(e, form.tag))
    BY <1>5, <2>1, <2>2, <2>4 DEF Leaves
  <2>5. ASSUME UniqueTags(e), NEW now, old # form.tag PROVE Leaves(both, e, old, now, Wanted(e, old))
    <3>1. \A i \in R!Present(e) : e.inbounds[i].tag # old
      BY <1>1, <1>6, <2>5 DEF TablesInv, UniqueTags, old
    <3>2. Wanted(e, old) = None
      BY <3>1, WantedNone
    <3> QED
      BY <2>1, <2>2, <2>5, <3>2 DEF Leaves
  <2>6. UniqueTags(e) => \A tag \in tags : \A now : Leaves(both, e, tag, now, Wanted(e, tag))
    BY <1>4, <1>6, <2>4, <2>5
  <2>7. tags \in SUBSET Tags
    BY <1>3, <1>4, <1>6, FormTag
  <2>8. IfUp(both) \in Seq(Jobs) /\ JobsWithin(IfUp(both), e, tags) /\ (up => IfUp(both) = both)
    BY <2>1, <2>3, IfUpJobs
  <2> HIDE DEF tags
  <2>9. Plan(e, IfUp(both), tags)
    BY <1>1, <1>2, <2>6, <2>7, <2>8 DEF Plan, Whole
  <2> QED
    BY <1>6, <2>9 DEF e, both, tags, old
<1>7. CASE id \notin R!Present(db)
  <2>1. /\ one \in Seq(Jobs) /\ Len(one) = 1 /\ one[1].op = "add" /\ one[1].what = id
    BY <1>3 DEF Jobs, Addition
  <2> HIDE DEF one
  <2>2. JobTag(e, one[1]) = form.tag /\ JobResult(e, one[1]) = Config(e, id)
    BY <1>1, <2>1 DEF JobTag, JobResult
  <2>3. JobsWithin(one, e, tags)
    BY <1>1, <2>1, <2>2 DEF JobsWithin
  <2>4. ASSUME UniqueTags(e) PROVE \A now : Leaves(one, e, form.tag, now, Wanted(e, form.tag))
    BY <1>5, <2>1, <2>2, <2>4 DEF Leaves
  <2>5. tags = {form.tag} /\ tags \in SUBSET Tags
    BY <1>4, <1>7, FormTag
  <2>6. IfUp(one) \in Seq(Jobs) /\ JobsWithin(IfUp(one), e, tags) /\ (up => IfUp(one) = one)
    BY <2>1, <2>3, IfUpJobs
  <2>7. UniqueTags(e) => \A tag \in tags : \A now : Leaves(one, e, tag, now, Wanted(e, tag))
    BY <2>4, <2>5
  <2> HIDE DEF tags
  <2>8. Plan(e, IfUp(one), tags)
    BY <1>1, <1>2, <2>5, <2>6, <2>7 DEF Plan, Whole
  <2> QED
    BY <1>7, <2>8 DEF e, one, tags
<1> QED
  BY <1>6, <1>7

\* A request that writes first and then restarts inbounds.
LEMMA RestartPlan ==
  ASSUME TablesInv, NEW ids, NEW jobs \in Restarts(db, ids), NEW e, Whole(e), UniqueTags(e), Makes(db, e),
         Elsewhere(db, e, TagsOf(db, ids)),
         \A i \in R!Present(db) : i \in R!Present(e) /\ e.inbounds[i].tag = db.inbounds[i].tag
  PROVE  Plan(e, jobs, TagsOf(db, ids))
<1>1. /\ jobs \in Seq(Jobs) /\ TagsOf(db, ids) \in SUBSET Tags
      /\ JobsWithin(jobs, e, TagsOf(db, ids))
      /\ \A tag \in TagsOf(db, ids) : \A now : Leaves(jobs, e, tag, now, Wanted(e, tag))
  BY RestartsLeave DEF TablesInv
<1> QED
  BY <1>1 DEF Plan, Whole

\* The plan of a saved TLS record.
LEMMA TlsPlan ==
  ASSUME TablesInv, NEW t \in TlsIds, NEW version \in Versions,
         NEW jobs \in Restarts(db, {i \in R!Present(db) : db.inbounds[i].tls = t})
  PROVE  Plan(R!TlsSave(db, t, version), jobs,
              TagsOf(db, {i \in R!Present(db) : db.inbounds[i].tls = t}))
<1> DEFINE uses == {i \in R!Present(db) : db.inbounds[i].tls = t}
           e == R!TlsSave(db, t, version)
<1>1. /\ Whole(e) /\ UniqueTags(e) /\ R!Present(e) = R!Present(db)
      /\ \A i \in R!Present(db) : e.inbounds[i].tag = db.inbounds[i].tag
      /\ Elsewhere(db, e, TagsOf(db, uses))
  BY TlsSaveOk DEF TablesInv
<1>2. Makes(db, e)
  BY DEF Makes
<1> HIDE DEF e, uses
<1>3. jobs \in Restarts(db, uses)
  BY DEF uses
<1>4. Plan(e, jobs, TagsOf(db, uses))
  BY <1>1, <1>2, <1>3, RestartPlan
<1> QED
  BY <1>4 DEF e, uses

\* The plan of a deleted TLS record.
LEMMA TlsDelPlan ==
  ASSUME TablesInv, NEW t \in TlsIds, R!TlsFree(db, t)
  PROVE  Plan(R!TlsDel(db, t), <<>>, {})
<1> DEFINE e == R!TlsDel(db, t)
<1>1. Whole(e) /\ UniqueTags(e) /\ Elsewhere(db, e, {})
  BY TlsDelOk DEF TablesInv
<1>2. Makes(db, e)
  BY DEF Makes
<1> HIDE DEF e
<1>3. <<>> \in Seq(Jobs) /\ JobsWithin(<<>>, e, {})
  BY DEF JobsWithin
<1>4. Plan(e, <<>>, {})
  BY <1>1, <1>2, <1>3 DEF Plan, Whole
<1> QED
  BY <1>4 DEF e

\* The plan of a saved client.
LEMMA ClientPlan ==
  ASSUME TablesInv, NEW c \in Clients, NEW form \in R!ClientForm, form.inbounds \subseteq db.used,
         NEW ids,
         ids = IF db.clients[c] = None THEN form.inbounds ELSE R!Changes(db.clients[c], form, FALSE),
         NEW jobs \in Restarts(db, ids)
  PROVE  Plan(R!ClientsPut(db, [x \in {c} |-> form]), jobs, TagsOf(db, ids))
<1> DEFINE e == R!ClientsPut(db, [x \in {c} |-> form])
<1>1. Whole(e) /\ UniqueTags(e) /\ e.inbounds = db.inbounds /\ Elsewhere(db, e, TagsOf(db, ids))
  BY ClientsPutOk DEF TablesInv
<1>2. Makes(db, e)
  BY DEF Makes
<1> HIDE DEF e
<1>3. \A i \in R!Present(db) : i \in R!Present(e) /\ e.inbounds[i].tag = db.inbounds[i].tag
  BY <1>1 DEF R!Present
<1>4. Plan(e, jobs, TagsOf(db, ids))
  BY <1>1, <1>2, <1>3, RestartPlan
<1> QED
  BY <1>4 DEF e

\* The plan of a deleted client.
LEMMA ClientDelPlan ==
  ASSUME TablesInv, NEW c \in R!Registered(db), NEW jobs \in Restarts(db, db.clients[c].inbounds)
  PROVE  Plan(R!ClientsDel(db, {c}), jobs, TagsOf(db, db.clients[c].inbounds))
<1> DEFINE e == R!ClientsDel(db, {c})
           ids == db.clients[c].inbounds
<1>1. Whole(e) /\ UniqueTags(e) /\ e.inbounds = db.inbounds /\ Elsewhere(db, e, TagsOf(db, ids))
  BY ClientsDelOk DEF TablesInv
<1>2. Makes(db, e)
  BY DEF Makes
<1> HIDE DEF e, ids
<1>3. \A i \in R!Present(db) : i \in R!Present(e) /\ e.inbounds[i].tag = db.inbounds[i].tag
  BY <1>1 DEF R!Present
<1>4. jobs \in Restarts(db, ids)
  BY DEF ids
<1>5. Plan(e, jobs, TagsOf(db, ids))
  BY <1>1, <1>2, <1>3, <1>4, RestartPlan
<1> QED
  BY <1>5 DEF e, ids

-----------------------------------------------------------------------------
(* Steps. *)

\* A request that does not move.
Still(q) == /\ at'[q] = at[q] /\ view'[q] = view[q] /\ pending'[q] = pending[q]
            /\ todo'[q] = todo[q] /\ touched'[q] = touched[q]

\* A request that rests while others move keeps its part of the invariant.
LEMMA StillRequest ==
  ASSUME NEW q \in Requests, Still(q), RequestInv(q), Sound(q), db' = db,
         writer' = q => writer = q
  PROVE  RequestInv(q)' /\ Sound(q)'
<1>1. RequestInv(q)'
  BY DEF Still, RequestInv
<1>2. Sound(q)'
  BY DEF Still, Sound, Current
<1> QED
  BY <1>1, <1>2

\* It stays settled where the core stays as it is.
LEMMA StillSettled ==
  ASSUME NEW q \in Requests, Still(q), Settled(q), suspect \subseteq suspect',
         \A tag \in touched[q] \ suspect' :
           Alone(q, tag)' => Alone(q, tag) /\ core'[tag] = core[tag]
  PROVE  Settled(q)'
<1> SUFFICES ASSUME view[q] = "none" \/ Current(q), NEW tag \in touched[q] \ suspect', Alone(q, tag)'
             PROVE  Leaves(todo[q], pending[q], tag, core'[tag], Result(q, tag))
  BY DEF Still, Settled, Current, Result
<1>1. Alone(q, tag) /\ core'[tag] = core[tag] /\ tag \in touched[q] \ suspect
  OBVIOUS
<1> QED
  BY <1>1 DEF Settled

\* A request begins.
LEMMA BeginKeeps ==
  ASSUME IInv, NEW r \in Requests, NEW place, NEW snapshot, NEW new, NEW jobs, NEW tags,
         Begin(r, place, snapshot, new, jobs, tags),
         \/ snapshot = "fresh" /\ place \in {"write", "core"} /\ Plan(new, jobs, tags)
         \/ /\ snapshot = "none" /\ place = "core" /\ new = None
            /\ \E tag \in Tags : tags = {tag} /\ jobs = IfUp(<<Removal(tag)>>)
  PROVE  IInv'
<1>a. /\ TypeOK /\ TablesInv /\ OverlapInv /\ BootInv /\ CoreFollows
      /\ \A q \in Requests : RequestInv(q) /\ Sound(q)
      /\ up => \A q \in Busy : Settled(q)
      /\ core = [tag \in Tags |-> core[tag]]
  BY DEF IInv
<1>b. jobs \in Seq(Jobs) /\ tags \in SUBSET Tags /\ JobsWithin(jobs, new, tags)
  <2>1. CASE Plan(new, jobs, tags)
    BY <2>1 DEF Plan
  <2>2. CASE new = None /\ \E tag \in Tags : tags = {tag} /\ jobs = IfUp(<<Removal(tag)>>)
    <3>1. PICK tag \in Tags : tags = {tag} /\ jobs = IfUp(<<Removal(tag)>>)
      BY <2>2
    <3>2. <<Removal(tag)>> \in Seq(Jobs)
      BY DEF Jobs, Removal
    <3>3. JobsWithin(<<Removal(tag)>>, new, tags)
      BY <3>1 DEF JobsWithin, JobTag, Removal
    <3> QED
      BY <3>1, <3>2, <3>3, IfUpJobs
  <2> QED
    BY <2>1, <2>2
<1>c. /\ at'[r] = place /\ view'[r] = snapshot /\ pending'[r] = new
      /\ todo'[r] = jobs /\ touched'[r] = tags
      /\ \A q \in Requests \ {r} : Still(q)
      /\ UNCHANGED <<db, writer, core, up, boot>>
      /\ at[r] = "idle"
  BY <1>a DEF Begin, Still, TypeOK
<1>d. /\ suspect' = suspect \union (IF boot # None THEN tags ELSE Unprotected(r, tags, snapshot))
      /\ suspect' \in SUBSET Tags
  BY <1>a, <1>b DEF Begin, Unprotected, TypeOK
<1>e. writer # r /\ (boot # None => ~up)
  BY <1>a, <1>c, RequestAssumption DEF TypeOK
<1>1. Busy' = Busy \union {r} /\ r \notin Busy
  BY <1>c DEF Busy, Still
<1>2. InFlight' = InFlight \union tags
  BY <1>c, <1>1 DEF InFlight, Busy, Still
<1>3. TypeOK'
  <2> USE DEF TypeOK
  <2>1. /\ at' \in [Requests -> {"idle", "write", "core"}]
        /\ view' \in [Requests -> {"none", "fresh", "old"}]
        /\ touched' \in [Requests -> SUBSET Tags]
    BY <1>a, <1>b DEF Begin
  <2>2. todo' \in [Requests -> Seq(Jobs)]
    BY <1>a, <1>b DEF Begin, Jobs
  <2>3. new \in R!Tables \union {None}
    BY DEF Plan
  <2>4. pending' \in [Requests -> R!Tables \union {None}]
    BY <1>a, <2>3 DEF Begin
  <2>5. writer' # None => at'[writer'] = "core" /\ view'[writer'] = "fresh"
    BY <1>a, <1>c, <1>e DEF Still
  <2> QED
    BY <1>a, <1>c, <1>d, <2>1, <2>2, <2>4, <2>5 DEF Jobs
<1>4. RequestInv(r)'
  <2>1. writer' # r
    BY <1>c, <1>e
  <2>2. CASE snapshot = "fresh"
    BY <2>1, <2>2, <1>b, <1>c DEF RequestInv, Plan
  <2>3. CASE snapshot = "none"
    <3>1. PICK tag \in Tags : tags = {tag} /\ jobs = IfUp(<<Removal(tag)>>)
      BY <2>3
    <3>2. \A n \in 1..Len(jobs) : jobs[n].op = "remove"
      BY <3>1 DEF IfUp, Removal
    <3> QED
      BY <2>1, <2>3, <3>1, <3>2, <1>b, <1>c DEF RequestInv
  <2> QED
    BY <2>2, <2>3
<1>5. Sound(r)'
  BY <1>c DEF Sound, Current, Plan
<1>6. ASSUME up PROVE Settled(r)'
  <2>1. ASSUME snapshot = "none" \/ (snapshot = "fresh" /\ UniqueTags(new)), NEW tag \in tags
        PROVE  Leaves(jobs, new, tag, core[tag], IF snapshot = "none" THEN None ELSE Wanted(new, tag))
    <3>1. CASE snapshot = "fresh"
      BY <2>1, <3>1, <1>6 DEF Plan
    <3>2. CASE snapshot = "none"
      <4>1. tags = {tag} /\ jobs = <<Removal(tag)>>
        BY <2>1, <3>2, <1>6 DEF IfUp
      <4> QED
        BY <4>1, <3>2 DEF Leaves, JobTag, JobResult, Removal
    <3> QED
      BY <2>1, <3>1, <3>2
  <2>2. ASSUME (view[r] = "none" \/ Current(r))', NEW tag \in (touched[r] \ suspect)'
        PROVE  Leaves(todo[r], pending[r], tag, core[tag], Result(r, tag))'
    <3>1. /\ snapshot = "none" \/ (snapshot = "fresh" /\ UniqueTags(new))
          /\ tag \in tags
      BY <2>2, <1>c DEF Current
    <3>2. Result(r, tag)' = IF snapshot = "none" THEN None ELSE Wanted(new, tag)
      BY <1>c DEF Result
    <3>3. Leaves(jobs, new, tag, core[tag], IF snapshot = "none" THEN None ELSE Wanted(new, tag))
      BY <2>1, <3>1
    <3> QED
      BY <3>2, <3>3, <1>c
  <2> QED
    BY <2>2 DEF Settled
<1>7. ASSUME NEW q \in Requests \ {r} PROVE RequestInv(q)' /\ Sound(q)'
  BY <1>a, <1>c, StillRequest
<1>8. ASSUME up, NEW q \in Busy PROVE Settled(q)'
  <2>1. q \in Requests \ {r} /\ Still(q)
    BY <1>1, <1>c DEF Busy
  <2>2. \A tag : Alone(q, tag)' => Alone(q, tag)
    BY <1>1, <1>c DEF Alone, Busy, Still
  <2> QED
    BY <1>8, <2>1, <2>2, <1>a, <1>c, <1>d, StillSettled
<1>9. OverlapInv'
  <2> SUFFICES ASSUME NEW p \in Busy', NEW q \in Busy', p # q, view'[p] = "none"
               PROVE  touched'[p] \intersect touched'[q] \subseteq suspect'
    BY DEF OverlapInv
  <2>1. CASE p # r /\ q # r
    BY <2>1, <1>1, <1>a, <1>c, <1>d DEF OverlapInv, Still, Busy
  <2>2. CASE p = r \/ q = r
    <3>1. \E x \in Busy : /\ touched'[p] \intersect touched'[q] = tags \intersect touched[x]
                          /\ view[x] = "none" \/ snapshot = "none"
      BY <2>2, <1>1, <1>c DEF Still, Busy
    <3>2. touched'[p] \intersect touched'[q] \subseteq Unprotected(r, tags, snapshot)
      BY <3>1 DEF Unprotected
    <3> QED
      BY <3>1, <3>2, <1>d
  <2> QED
    BY <2>1, <2>2
<1>10. BootInv'
  BY <1>a, <1>c, <1>d, <1>2 DEF BootInv
<1>11. CoreFollows'
  BY <1>a, <1>c, <1>d, <1>2 DEF CoreFollows
<1>12. TablesInv'
  BY <1>a, <1>c DEF TablesInv
<1>13. \A q \in Requests : RequestInv(q)' /\ Sound(q)'
  BY <1>4, <1>5, <1>7
<1>14. up' => \A q \in Busy' : Settled(q)'
  BY <1>c, <1>1, <1>6, <1>8
<1>15. (core = [tag \in Tags |-> core[tag]])'
  BY <1>a, <1>c
<1> QED
  BY <1>3, <1>9, <1>10, <1>11, <1>12, <1>13, <1>14, <1>15 DEF IInv

\* A new request keeps the invariant.
LEMMA RequestKeeps == ASSUME IInv, NEW r \in Requests, Request(r) PROVE IInv'
<1>1. TablesInv
  BY DEF IInv
<1>2. ASSUME NEW form \in R!InboundForm, NEW id \in Ids, NEW init \in SUBSET R!Registered(db),
             NewInbound(r, id, form, init)
      PROVE  IInv'
  <2>1. Plan(R!InboundNew(db, id, form, init), IfUp(<<Addition(id)>>), {form.tag})
    BY <1>1, <1>2, NewPlan DEF NewInbound
  <2> QED
    BY <1>2, <2>1, BeginKeeps DEF NewInbound
<1>3. ASSUME NEW form \in R!InboundForm, NEW id \in Ids, EditInbound(r, id, form) PROVE IInv'
  <2> DEFINE jobs == IfUp(IF id \in R!Present(db) THEN <<Removal(db.inbounds[id].tag), Addition(id)>>
                                                  ELSE <<Addition(id)>>)
             tags == {form.tag} \union TagsOf(db, {id})
  <2>1. Plan(R!InboundEdit(db, id, form), jobs, tags)
    BY <1>1, <1>3, EditPlan DEF EditInbound
  <2>2. Begin(r, "core", "fresh", R!InboundEdit(db, id, form), jobs, tags)
    BY <1>3 DEF EditInbound
  <2> HIDE DEF jobs, tags
  <2> QED
    BY <2>1, <2>2, BeginKeeps
<1>4. ASSUME NEW tag \in Tags, DelInbound(r, tag) PROVE IInv'
  BY <1>4, BeginKeeps DEF DelInbound
<1>5. ASSUME NEW t \in TlsIds, NEW version \in Versions, SaveTls(r, t, version) PROVE IInv'
  <2> DEFINE uses == {i \in R!Present(db) : db.inbounds[i].tls = t}
  <2>1. PICK jobs \in Restarts(db, uses) :
          Begin(r, "write", "fresh", R!TlsSave(db, t, version), jobs, TagsOf(db, uses))
    BY <1>5 DEF SaveTls
  <2>2. Plan(R!TlsSave(db, t, version), jobs, TagsOf(db, uses))
    BY <1>1, TlsPlan
  <2> HIDE DEF uses
  <2> QED
    BY <2>1, <2>2, BeginKeeps
<1>6. ASSUME NEW t \in TlsIds, DelTls(r, t) PROVE IInv'
  <2>1. Plan(R!TlsDel(db, t), <<>>, {})
    BY <1>1, <1>6, TlsDelPlan DEF DelTls
  <2> QED
    BY <1>6, <2>1, BeginKeeps DEF DelTls
<1>7. ASSUME NEW c \in Clients, NEW form \in R!ClientForm, SaveClient(r, c, form) PROVE IInv'
  <2> DEFINE ids == IF db.clients[c] = None THEN form.inbounds
                                            ELSE R!Changes(db.clients[c], form, FALSE)
             e == R!ClientsPut(db, [x \in {c} |-> form])
  <2>1. /\ form.inbounds \subseteq db.used
        /\ \E jobs \in Restarts(db, ids) : Begin(r, "write", "fresh", e, jobs, TagsOf(db, ids))
    BY <1>7 DEF SaveClient
  <2>2. PICK jobs \in Restarts(db, ids) : Begin(r, "write", "fresh", e, jobs, TagsOf(db, ids))
    BY <2>1
  <2>3. Plan(e, jobs, TagsOf(db, ids))
    BY <1>1, <2>1, ClientPlan
  <2> HIDE DEF ids, e
  <2> QED
    BY <2>2, <2>3, BeginKeeps
<1>8. ASSUME NEW c \in Clients, DelClient(r, c) PROVE IInv'
  <2>1. c \in R!Registered(db)
    BY <1>8 DEF DelClient
  <2> DEFINE ids == db.clients[c].inbounds
  <2>2. PICK jobs \in Restarts(db, ids) :
          Begin(r, "write", "fresh", R!ClientsDel(db, {c}), jobs, TagsOf(db, ids))
    BY <1>8 DEF DelClient
  <2>3. Plan(R!ClientsDel(db, {c}), jobs, TagsOf(db, ids))
    BY <1>1, <2>1, ClientDelPlan
  <2> HIDE DEF ids
  <2> QED
    BY <2>2, <2>3, BeginKeeps
<1> QED
  BY <1>2, <1>3, <1>4, <1>5, <1>6, <1>7, <1>8 DEF Request

\* One job is done in the core.
LEMMA CoreStepKeeps == ASSUME IInv, NEW r \in Requests, CoreStep(r) PROVE IInv'
<1> DEFINE job == Head(todo[r])
           tag0 == JobTag(pending[r], job)
           put == JobResult(pending[r], job)
<1>a. /\ TypeOK /\ TablesInv /\ OverlapInv /\ BootInv /\ CoreFollows
      /\ \A q \in Requests : RequestInv(q) /\ Sound(q)
      /\ \A q \in Busy : Settled(q)
      /\ core = [tag \in Tags |-> core[tag]]
  BY DEF IInv, CoreStep
<1>b. /\ at[r] = "core" /\ todo[r] # <<>> /\ up
      /\ todo' = [todo EXCEPT ![r] = Tail(@)]
      /\ UNCHANGED <<db, writer, at, view, pending, touched, up, boot, suspect>>
  BY DEF CoreStep
<1>c. /\ todo[r] \in Seq(Jobs) /\ touched[r] \in SUBSET Tags
      /\ JobsWithin(todo[r], pending[r], touched[r])
  BY <1>a DEF TypeOK, Jobs, RequestInv
<1>d. /\ job \in Jobs /\ Tail(todo[r]) \in Seq(Jobs)
      /\ JobsWithin(Tail(todo[r]), pending[r], touched[r])
      /\ tag0 \in touched[r] /\ tag0 \in Tags
  BY <1>b, <1>c, JobDone
<1>e. core' = [core EXCEPT ![tag0] = put]
  <2>1. core' = IF job.op = "remove"
                THEN [core EXCEPT ![job.what] = None]
                ELSE [core EXCEPT ![pending[r].inbounds[job.what].tag] = Config(pending[r], job.what)]
    BY DEF CoreStep
  <2> QED
    BY <2>1 DEF JobTag, JobResult
<1> HIDE DEF job, tag0, put
<1>f. /\ core' = [tag \in Tags |-> core'[tag]]
      /\ \A tag \in Tags : core'[tag] = IF tag = tag0 THEN put ELSE core[tag]
  BY <1>a, <1>d, <1>e
<1>g. todo'[r] = Tail(todo[r]) /\ \A q \in Requests \ {r} : Still(q)
  BY <1>a, <1>b DEF TypeOK, Still
<1>h. r \in Busy /\ Busy' = Busy /\ InFlight' = InFlight
  BY <1>b DEF Busy, InFlight
<1>1. TypeOK'
  <2>1. todo' \in [Requests -> Seq(Jobs)]
    BY <1>a, <1>b, <1>d DEF TypeOK, Jobs
  <2> QED
    BY <1>a, <1>b, <2>1 DEF TypeOK, Jobs
<1>2. ASSUME NEW q \in Requests PROVE RequestInv(q)' /\ Sound(q)'
  <2>1. CASE q = r
    <3>1. ASSUME view[r] = "none", NEW n \in 1..Len(Tail(todo[r]))
          PROVE  Tail(todo[r])[n].op = "remove"
      <4>1. \A m \in 1..Len(todo[r]) : todo[r][m].op = "remove"
        BY <3>1, <1>a, <1>b DEF RequestInv
      <4>2. n + 1 \in 1..Len(todo[r]) /\ Tail(todo[r])[n] = todo[r][n + 1]
        BY <1>b, <1>c
      <4> QED
        BY <4>1, <4>2
    <3>2. RequestInv(r)'
      BY <1>a, <1>b, <1>d, <1>g, <3>1 DEF RequestInv
    <3>3. Sound(r)'
      BY <1>a, <1>b DEF Sound, Current
    <3> QED
      BY <2>1, <3>2, <3>3
  <2>2. CASE q # r
    BY <2>2, <1>a, <1>b, <1>g, StillRequest
  <2> QED
    BY <2>1, <2>2
<1>3. ASSUME NEW q \in Busy PROVE Settled(q)'
  <2>0. q \in Requests /\ Settled(q)
    BY <1>a DEF Busy
  <2>1. CASE q = r
    <3>1. ASSUME view[r] = "none" \/ Current(r), NEW tag \in touched[r] \ suspect, Alone(r, tag)
          PROVE  Leaves(Tail(todo[r]), pending[r], tag, core'[tag], Result(r, tag))
      <4>1. Leaves(todo[r], pending[r], tag, core[tag], Result(r, tag))
        BY <2>0, <2>1, <3>1 DEF Settled
      <4>2. core'[tag] = IF tag0 = tag THEN put ELSE core[tag]
        BY <1>c, <1>f
      <4> QED
        BY <4>1, <4>2, <1>b, <1>c, JobDone DEF tag0, put, job
    <3> QED
      BY <2>1, <3>1, <1>b, <1>g, <1>h DEF Settled, Current, Result, Alone
  <2>2. CASE q # r
    <3>1. ASSUME NEW tag \in touched[q] \ suspect', Alone(q, tag)'
          PROVE  Alone(q, tag) /\ core'[tag] = core[tag]
      <4>1. Alone(q, tag)
        BY <3>1, <1>b, <1>h DEF Alone
      <4>2. tag # tag0 /\ tag \in Tags
        BY <4>1, <2>0, <2>2, <1>a, <1>d, <1>h DEF Alone, TypeOK
      <4> QED
        BY <4>1, <4>2, <1>f
    <3> QED
      BY <2>0, <2>2, <3>1, <1>b, <1>g, StillSettled
  <2> QED
    BY <2>1, <2>2
<1>4. OverlapInv' /\ BootInv' /\ TablesInv'
  BY <1>a, <1>b, <1>h DEF OverlapInv, BootInv, TablesInv
<1>5. CoreFollows'
  <2>1. tag0 \in InFlight
    BY <1>d, <1>h DEF InFlight
  <2> QED
    BY <2>1, <1>a, <1>b, <1>f, <1>h DEF CoreFollows
<1>6. (up => \A q \in Busy : Settled(q))'
  BY <1>3, <1>h
<1> QED
  BY <1>1, <1>2, <1>4, <1>5, <1>6, <1>f DEF IInv

\* "del" reads the tables, and finds what it is going to make of them.
LEMMA ReadKeeps == ASSUME IInv, NEW r \in Requests, Read(r) PROVE IInv'
<1>a. /\ TypeOK /\ TablesInv /\ OverlapInv /\ BootInv /\ CoreFollows
      /\ \A q \in Requests : RequestInv(q) /\ Sound(q)
      /\ up => \A q \in Busy : Settled(q)
      /\ core = [tag \in Tags |-> core[tag]]
  BY DEF IInv
<1>b. /\ at[r] = "core" /\ todo[r] = <<>> /\ view[r] = "none"
      /\ UNCHANGED <<db, writer, at, todo, touched, core, up, boot, suspect>>
  BY DEF Read, Done
<1>c. PICK tag0 \in Tags : touched[r] = {tag0}
  BY <1>a, <1>b DEF RequestInv
<1> DEFINE e == R!InboundDel(db, tag0)
<1>d. Whole(e) /\ UniqueTags(e) /\ Elsewhere(db, e, {tag0}) /\ Wanted(e, tag0) = None /\ Makes(db, e)
  <2>1. Makes(db, e)
    BY DEF Makes
  <2> QED
    BY <1>a, <2>1, InboundDelOk DEF TablesInv
<1>e. /\ view' = [view EXCEPT ![r] = "fresh"]
      /\ pending' = [pending EXCEPT ![r] = e]
  <2>1. (CHOOSE t \in touched[r] : TRUE) = tag0
    BY <1>c
  <2> QED
    BY <2>1 DEF Read
<1> HIDE DEF e
<1>f. view'[r] = "fresh" /\ pending'[r] = e /\ \A q \in Requests \ {r} : Still(q)
  BY <1>a, <1>b, <1>e DEF TypeOK, Still
<1>g. r \in Busy /\ Busy' = Busy /\ InFlight' = InFlight /\ writer # r
  BY <1>a, <1>b, RequestAssumption DEF Busy, InFlight, TypeOK
<1>1. TypeOK'
  <2>1. /\ view' \in [Requests -> {"none", "fresh", "old"}]
        /\ pending' \in [Requests -> R!Tables \union {None}]
    BY <1>a, <1>d, <1>e DEF TypeOK, Whole
  <2>2. writer' # None => view'[writer'] = "fresh"
    BY <1>a, <1>b, <1>e, <1>g DEF TypeOK
  <2> QED
    BY <1>a, <1>b, <2>1, <2>2 DEF TypeOK
<1>2. ASSUME NEW q \in Requests PROVE RequestInv(q)' /\ Sound(q)'
  <2>1. CASE q = r
    <3>1. JobsWithin(<<>>, e, touched[r])
      BY DEF JobsWithin
    <3>2. RequestInv(r)'
      BY <1>a, <1>b, <1>d, <1>f, <1>g, <3>1 DEF RequestInv, Whole
    <3>3. Sound(r)'
      BY <1>b, <1>c, <1>d, <1>f DEF Sound, Current
    <3> QED
      BY <2>1, <3>2, <3>3
  <2>2. CASE q # r
    BY <2>2, <1>a, <1>b, <1>f, StillRequest
  <2> QED
    BY <2>1, <2>2
<1>3. ASSUME up, NEW q \in Busy PROVE Settled(q)'
  <2>0. q \in Requests /\ Settled(q)
    BY <1>a, <1>3 DEF Busy
  <2>1. CASE q = r
    <3>1. ASSUME NEW tag \in touched[r] \ suspect, Alone(r, tag)
          PROVE  Leaves(<<>>, e, tag, core[tag], Wanted(e, tag))
      <4>1. tag = tag0
        BY <1>c
      <4>2. Leaves(<<>>, pending[r], tag, core[tag], None)
        BY <2>0, <2>1, <3>1, <1>b DEF Settled, Result
      <4>3. core[tag] = None
        BY <4>2 DEF Leaves
      <4> QED
        BY <4>1, <4>3, <1>d DEF Leaves
    <3>2. ASSUME NEW tag \in (touched[r] \ suspect)', Alone(r, tag)'
          PROVE  Leaves(todo[r], pending[r], tag, core[tag], Result(r, tag))'
      <4>1. tag \in touched[r] \ suspect /\ Alone(r, tag)
        BY <3>2, <1>b, <1>g DEF Alone
      <4>2. Result(r, tag)' = Wanted(e, tag)
        BY <1>f DEF Result
      <4> QED
        BY <3>1, <4>1, <4>2, <1>b, <1>f
    <3> QED
      BY <2>1, <3>2 DEF Settled
  <2>2. CASE q # r
    <3>1. \A tag : Alone(q, tag)' => Alone(q, tag)
      BY <1>b, <1>g DEF Alone
    <3> QED
      BY <2>0, <2>2, <3>1, <1>b, <1>f, StillSettled
  <2> QED
    BY <2>1, <2>2
<1>4. OverlapInv'
  <2> SUFFICES ASSUME NEW p \in Busy, NEW q \in Busy, p # q, view'[p] = "none"
               PROVE  touched[p] \intersect touched[q] \subseteq suspect
    BY <1>b, <1>g DEF OverlapInv
  <2>1. view[p] = "none"
    BY <1>f DEF Busy, Still
  <2> QED
    BY <2>1, <1>a DEF OverlapInv
<1>5. BootInv' /\ TablesInv' /\ CoreFollows'
  BY <1>a, <1>b, <1>g DEF BootInv, TablesInv, CoreFollows
<1>6. (up => \A q \in Busy : Settled(q))'
  BY <1>3, <1>b, <1>g
<1> QED
  BY <1>1, <1>2, <1>4, <1>5, <1>6, <1>a, <1>b DEF IInv

\* The first write takes the lock; with the core down there is nothing to do in it.
LEMMA WriteKeeps == ASSUME IInv, NEW r \in Requests, Write(r) PROVE IInv'
<1>a. /\ TypeOK /\ TablesInv /\ OverlapInv /\ BootInv /\ CoreFollows
      /\ \A q \in Requests : RequestInv(q) /\ Sound(q)
      /\ up => \A q \in Busy : Settled(q)
      /\ core = [tag \in Tags |-> core[tag]]
  BY DEF IInv
<1>b. /\ at[r] # "idle" /\ writer = None /\ view[r] = "fresh" /\ UniqueTags(pending[r])
      /\ writer' = r /\ at' = [at EXCEPT ![r] = "core"]
      /\ todo' = [todo EXCEPT ![r] = IfUp(todo[r])]
      /\ UNCHANGED <<db, view, pending, touched, core, up, boot, suspect>>
  BY DEF Write, AtWrite, Done
<1>c. /\ IfUp(todo[r]) \in Seq(Jobs)
      /\ JobsWithin(IfUp(todo[r]), pending[r], touched[r])
      /\ up => IfUp(todo[r]) = todo[r]
  <2>1. todo[r] \in Seq(Jobs) /\ JobsWithin(todo[r], pending[r], touched[r])
    BY <1>a DEF TypeOK, Jobs, RequestInv
  <2> QED
    BY <2>1, IfUpJobs
<1>d. at'[r] = "core" /\ todo'[r] = IfUp(todo[r]) /\ \A q \in Requests \ {r} : Still(q)
  BY <1>a, <1>b DEF TypeOK, Still
<1>e. r \in Busy /\ Busy' = Busy
  BY <1>b, <1>d DEF Busy, Still
<1>f. InFlight' = InFlight
  BY <1>b, <1>e DEF InFlight
<1>1. TypeOK'
  <2>1. todo' \in [Requests -> Seq(Jobs)] /\ at' \in [Requests -> {"idle", "write", "core"}]
    BY <1>a, <1>b, <1>c DEF TypeOK, Jobs
  <2>2. writer' \in Requests /\ at'[writer'] = "core" /\ view'[writer'] = "fresh"
    BY <1>b, <1>d
  <2> QED
    BY <1>a, <1>b, <2>1, <2>2 DEF TypeOK, Jobs
<1>2. ASSUME NEW q \in Requests PROVE RequestInv(q)' /\ Sound(q)'
  <2>1. CASE q = r
    <3>1. RequestInv(r)'
      BY <1>a, <1>b, <1>c, <1>d DEF RequestInv
    <3>2. Sound(r)'
      BY <1>a, <1>b DEF Sound, Current
    <3> QED
      BY <2>1, <3>1, <3>2
  <2>2. CASE q # r
    BY <2>2, <1>a, <1>b, <1>d, StillRequest
  <2> QED
    BY <2>1, <2>2
<1>3. ASSUME up, NEW q \in Busy PROVE Settled(q)'
  <2>1. q \in Requests /\ Settled(q)
    BY <1>a, <1>3 DEF Busy
  <2>2. todo'[q] = todo[q]
    BY <2>1, <1>3, <1>c, <1>d DEF Still
  <2>3. \A tag : Alone(q, tag)' <=> Alone(q, tag)
    BY <1>b, <1>e DEF Alone
  <2> QED
    BY <2>1, <2>2, <2>3, <1>b DEF Settled, Current, Result
<1>4. OverlapInv' /\ BootInv' /\ TablesInv' /\ CoreFollows'
  BY <1>a, <1>b, <1>e, <1>f DEF OverlapInv, BootInv, TablesInv, CoreFollows
<1>5. (up => \A q \in Busy : Settled(q))'
  BY <1>3, <1>b, <1>e
<1> QED
  BY <1>1, <1>2, <1>4, <1>5, <1>a, <1>b DEF IInv

\* A request commits: its tables are the tables, and no other snapshot is fresh.
LEMMA CommittedKeeps ==
  ASSUME IInv, NEW r \in Requests, at[r] = "core", writer = r, up => todo[r] = <<>>,
         todo' = [todo EXCEPT ![r] = <<>>], Committed(r)
  PROVE  IInv'
<1>a. /\ TypeOK /\ TablesInv /\ OverlapInv /\ BootInv /\ CoreFollows
      /\ \A q \in Requests : RequestInv(q) /\ Sound(q)
      /\ up => \A q \in Busy : Settled(q)
      /\ core = [tag \in Tags |-> core[tag]]
  BY DEF IInv
<1>b. /\ db' = pending[r] /\ writer' = None
      /\ at' = [at EXCEPT ![r] = "idle"]
      /\ view' = [q \in Requests |-> IF q = r THEN "none"
                                     ELSE IF view[q] = "fresh" THEN "old" ELSE view[q]]
      /\ pending' = [pending EXCEPT ![r] = None]
      /\ touched' = [touched EXCEPT ![r] = {}]
      /\ UNCHANGED <<core, up, boot, suspect>>
  BY DEF Committed
<1>c. Current(r) /\ Whole(db') /\ UniqueTags(db') /\ Elsewhere(db, db', touched[r])
  <2>1. view[r] = "fresh"
    BY <1>a, RequestAssumption DEF TypeOK
  <2>2. UniqueTags(pending[r])
    BY <1>a DEF RequestInv
  <2> QED
    BY <2>1, <2>2, <1>a, <1>b DEF Current, Sound
<1>d. /\ at'[r] = "idle" /\ view'[r] = "none" /\ pending'[r] = None
      /\ todo'[r] = <<>> /\ touched'[r] = {}
      /\ \A q \in Requests \ {r} :
           /\ at'[q] = at[q] /\ pending'[q] = pending[q]
           /\ todo'[q] = todo[q] /\ touched'[q] = touched[q]
           /\ view'[q] # "fresh" /\ (view'[q] = "none" <=> view[q] = "none")
  BY <1>a, <1>b DEF TypeOK
<1>e. r \in Busy /\ Busy' = Busy \ {r}
  BY <1>d DEF Busy
<1>f. InFlight = InFlight' \union touched[r]
  BY <1>d, <1>e DEF InFlight, Busy
<1>1. TypeOK'
  <2>1. /\ at' \in [Requests -> {"idle", "write", "core"}]
        /\ view' \in [Requests -> {"none", "fresh", "old"}]
        /\ touched' \in [Requests -> SUBSET Tags]
    BY <1>a, <1>b DEF TypeOK
  <2>2. pending' \in [Requests -> R!Tables \union {None}]
    BY <1>a, <1>b DEF TypeOK
  <2>3. todo' \in [Requests -> Seq(Jobs)]
    BY <1>a DEF TypeOK, Jobs
  <2> QED
    BY <1>a, <1>b, <1>c, <2>1, <2>2, <2>3 DEF TypeOK, Jobs, Whole
<1>2. ASSUME NEW q \in Requests PROVE RequestInv(q)' /\ Sound(q)'
  <2>1. view'[q] # "fresh" /\ writer' # q
    BY <1>b, <1>d, RequestAssumption
  <2>2. Sound(q)'
    BY <2>1 DEF Sound, Current
  <2>3. CASE q = r
    <3>1. JobsWithin(<<>>, None, {})
      BY DEF JobsWithin
    <3> QED
      BY <2>1, <2>2, <2>3, <3>1, <1>d DEF RequestInv
  <2>4. CASE q # r
    BY <2>1, <2>2, <2>4, <1>a, <1>d DEF RequestInv
  <2> QED
    BY <2>3, <2>4
<1>3. ASSUME up, NEW q \in Busy' PROVE Settled(q)'
  <2>1. q \in Busy /\ q # r /\ q \in Requests /\ Settled(q)
    BY <1>3, <1>a, <1>e DEF Busy
  <2> SUFFICES ASSUME view'[q] = "none", NEW tag \in touched'[q] \ suspect', Alone(q, tag)'
               PROVE  Leaves(todo'[q], pending'[q], tag, core'[tag], Result(q, tag)')
    BY <2>1, <1>d DEF Settled, Current
  <2>2. view[q] = "none" /\ tag \in touched[q] \ suspect
    BY <2>1, <1>b, <1>d
  <2>3. tag \notin touched[r]
    BY <2>1, <2>2, <1>a, <1>e DEF OverlapInv
  <2>4. Alone(q, tag)
    BY <2>3, <1>d, <1>e DEF Alone, Busy
  <2>5. Leaves(todo[q], pending[q], tag, core[tag], None)
    BY <2>1, <2>2, <2>4 DEF Settled, Result
  <2>6. Result(q, tag)' = None
    BY DEF Result
  <2> QED
    BY <2>1, <2>5, <2>6, <1>b, <1>d
<1>4. OverlapInv'
  BY <1>a, <1>b, <1>d, <1>e DEF OverlapInv, Busy
<1>5. BootInv'
  <2>1. ASSUME boot # None, NEW tag \in Tags \ suspect PROVE boot[tag] = Wanted(db', tag)
    <3>1. tag \notin touched[r]
      BY <2>1, <1>a, <1>f DEF BootInv
    <3> QED
      BY <2>1, <3>1, <1>a, <1>c DEF BootInv, Elsewhere
  <2> QED
    BY <2>1, <1>a, <1>b, <1>f DEF BootInv
<1>6. CoreFollows'
  <2> SUFFICES ASSUME up, NEW tag \in Tags \ (suspect \union InFlight')
               PROVE  core[tag] = Wanted(db', tag)
    BY <1>b DEF CoreFollows
  <2>1. CASE tag \notin touched[r]
    BY <2>1, <1>a, <1>c, <1>f DEF CoreFollows, Elsewhere
  <2>2. CASE tag \in touched[r]
    <3>1. Alone(r, tag)
      BY <1>d, <1>e DEF Alone, InFlight, Busy
    <3>2. Leaves(todo[r], pending[r], tag, core[tag], Wanted(pending[r], tag))
      BY <2>2, <3>1, <1>a, <1>c, <1>e DEF Settled, Result, Current
    <3> QED
      BY <3>2, <1>b DEF Leaves
  <2> QED
    BY <2>1, <2>2
<1>7. TablesInv'
  BY <1>c DEF TablesInv
<1>8. (up => \A q \in Busy : Settled(q))'
  BY <1>3, <1>b
<1> QED
  BY <1>1, <1>2, <1>4, <1>5, <1>6, <1>7, <1>8, <1>a, <1>b DEF IInv

\* A request fails: the tables stay, and what it touched in the core is given up.
LEMMA FailKeeps == ASSUME IInv, NEW r \in Requests, Fail(r) PROVE IInv'
<1>a. /\ TypeOK /\ TablesInv /\ OverlapInv /\ BootInv /\ CoreFollows
      /\ \A q \in Requests : RequestInv(q) /\ Sound(q)
      /\ up => \A q \in Busy : Settled(q)
      /\ core = [tag \in Tags |-> core[tag]]
  BY DEF IInv
<1>b. /\ at[r] # "idle"
      /\ at' = [at EXCEPT ![r] = "idle"]
      /\ view' = [view EXCEPT ![r] = "none"]
      /\ pending' = [pending EXCEPT ![r] = None]
      /\ todo' = [todo EXCEPT ![r] = <<>>]
      /\ touched' = [touched EXCEPT ![r] = {}]
      /\ writer' = IF writer = r THEN None ELSE writer
      /\ suspect' = suspect \union touched[r]
      /\ UNCHANGED <<db, core, up, boot>>
  BY DEF Fail, Refused, AtWrite, Done
<1>d. /\ at'[r] = "idle" /\ view'[r] = "none" /\ pending'[r] = None
      /\ todo'[r] = <<>> /\ touched'[r] = {}
      /\ \A q \in Requests \ {r} : Still(q)
  BY <1>a, <1>b DEF TypeOK, Still
<1>e. r \in Busy /\ Busy' = Busy \ {r}
  BY <1>b, <1>d DEF Busy, Still
<1>f. InFlight = InFlight' \union touched[r]
  BY <1>d, <1>e DEF InFlight, Busy, Still
<1>1. TypeOK'
  <2>1. /\ at' \in [Requests -> {"idle", "write", "core"}]
        /\ view' \in [Requests -> {"none", "fresh", "old"}]
        /\ touched' \in [Requests -> SUBSET Tags]
        /\ suspect' \in SUBSET Tags
    BY <1>a, <1>b DEF TypeOK
  <2>2. pending' \in [Requests -> R!Tables \union {None}]
    BY <1>a, <1>b DEF TypeOK
  <2>3. todo' \in [Requests -> Seq(Jobs)]
    BY <1>a, <1>b DEF TypeOK, Jobs
  <2>4. /\ writer' \in Requests \union {None}
        /\ writer' # None => at'[writer'] = "core" /\ view'[writer'] = "fresh"
    BY <1>a, <1>b, <1>d DEF TypeOK, Still
  <2> QED
    BY <1>a, <1>b, <2>1, <2>2, <2>3, <2>4 DEF TypeOK, Jobs
<1>2. ASSUME NEW q \in Requests PROVE RequestInv(q)' /\ Sound(q)'
  <2>1. CASE q = r
    <3>1. JobsWithin(<<>>, None, {}) /\ writer' # r
      BY <1>b, RequestAssumption DEF JobsWithin
    <3> QED
      BY <2>1, <3>1, <1>d DEF RequestInv, Sound, Current
  <2>2. CASE q # r
    BY <2>2, <1>a, <1>b, <1>d, StillRequest, RequestAssumption
  <2> QED
    BY <2>1, <2>2
<1>3. ASSUME up, NEW q \in Busy' PROVE Settled(q)'
  <2>1. q \in Requests \ {r} /\ Settled(q) /\ Still(q)
    BY <1>3, <1>a, <1>d, <1>e DEF Busy
  <2>2. ASSUME NEW tag \in touched[q] \ suspect', Alone(q, tag)' PROVE Alone(q, tag)
    BY <2>2, <1>b, <1>d, <1>e DEF Alone, Busy, Still
  <2> QED
    BY <2>1, <2>2, <1>b, StillSettled
<1>4. OverlapInv'
  BY <1>a, <1>b, <1>d, <1>e DEF OverlapInv, Busy, Still
<1>5. BootInv' /\ CoreFollows' /\ TablesInv'
  BY <1>a, <1>b, <1>f DEF BootInv, CoreFollows, TablesInv
<1>6. (up => \A q \in Busy : Settled(q))'
  BY <1>3, <1>b
<1> QED
  BY <1>1, <1>2, <1>4, <1>5, <1>6, <1>a, <1>b DEF IInv

\* The core stops, reads its configuration and starts; the requests do not move.
LEMMA StopCoreKeeps == ASSUME IInv, StopCore PROVE IInv'
<1>a. /\ TypeOK /\ TablesInv /\ OverlapInv /\ \A q \in Requests : RequestInv(q) /\ Sound(q)
  BY DEF IInv
<1>b. /\ up /\ up' = FALSE /\ core' = [t \in Tags |-> None]
      /\ UNCHANGED <<db, writer, at, view, pending, todo, touched, boot, suspect>>
  BY DEF StopCore
<1>1. TypeOK' /\ TablesInv' /\ OverlapInv'
  BY <1>a, <1>b DEF TypeOK, TablesInv, OverlapInv, Busy
<1>2. \A q \in Requests : RequestInv(q)' /\ Sound(q)'
  BY <1>a, <1>b DEF RequestInv, Sound, Current
<1>3. BootInv' /\ CoreFollows'
  BY <1>a, <1>b DEF BootInv, CoreFollows, TypeOK
<1> QED
  BY <1>1, <1>2, <1>3, <1>b DEF IInv

\* Reading the tables for a start keeps the invariant.
LEMMA GetConfigKeeps == ASSUME IInv, GetConfig PROVE IInv'
<1>a. /\ TypeOK /\ TablesInv /\ OverlapInv /\ \A q \in Requests : RequestInv(q) /\ Sound(q)
      /\ core = [tag \in Tags |-> core[tag]]
  BY DEF IInv
<1>b. /\ ~up /\ boot' = [t \in Tags |-> Wanted(db, t)] /\ suspect' = InFlight
      /\ UNCHANGED <<db, writer, at, view, pending, todo, touched, core, up>>
  BY DEF GetConfig
<1>1. Busy' = Busy /\ InFlight' = InFlight
  BY <1>b DEF Busy, InFlight
<1>2. InFlight \in SUBSET Tags
  BY <1>a DEF TypeOK, InFlight, Busy
<1>3. TypeOK' /\ TablesInv'
  BY <1>a, <1>b, <1>2 DEF TypeOK, TablesInv
<1>4. OverlapInv'
  BY <1>b, <1>1 DEF OverlapInv, InFlight
<1>5. \A q \in Requests : RequestInv(q)' /\ Sound(q)'
  BY <1>a, <1>b DEF RequestInv, Sound, Current
<1>6. BootInv' /\ CoreFollows'
  BY <1>b, <1>1 DEF BootInv, CoreFollows
<1> QED
  BY <1>3, <1>4, <1>5, <1>6, <1>a, <1>b DEF IInv

\* A start of the core keeps the invariant.
LEMMA StartCoreKeeps == ASSUME IInv, StartCore PROVE IInv'
<1>a. /\ TypeOK /\ TablesInv /\ OverlapInv /\ BootInv
      /\ \A q \in Requests : RequestInv(q) /\ Sound(q)
  BY DEF IInv
<1>b. /\ boot # None /\ up' /\ up' = TRUE /\ core' = boot /\ boot' = None
      /\ UNCHANGED <<db, writer, at, view, pending, todo, touched, suspect>>
  BY DEF StartCore
<1>1. Busy' = Busy /\ InFlight' = InFlight
  BY <1>b DEF Busy, InFlight
<1>2. TypeOK' /\ TablesInv' /\ OverlapInv' /\ BootInv'
  BY <1>a, <1>b, <1>1 DEF TypeOK, TablesInv, OverlapInv, BootInv
<1>3. \A q \in Requests : RequestInv(q)' /\ Sound(q)'
  BY <1>a, <1>b DEF RequestInv, Sound, Current
<1>4. CoreFollows'
  BY <1>a, <1>b, <1>1 DEF BootInv, CoreFollows
<1>5. ASSUME NEW q \in Busy PROVE Settled(q)'
  <2>1. touched'[q] \ suspect' = {}
    BY <1>a, <1>b DEF BootInv, InFlight
  <2> QED
    BY <2>1 DEF Settled
<1>6. (core = [tag \in Tags |-> core[tag]])'
  BY <1>a, <1>b DEF BootInv
<1> QED
  BY <1>1, <1>2, <1>3, <1>4, <1>5, <1>6 DEF IInv

-----------------------------------------------------------------------------
(* The panel that has been in use. *)

\* Clients are put into tables that have no inbound: there are no links to make.
LEMMA ServedOk ==
  ASSUME NEW d, Whole(d), R!Present(d) = {}, d.used = {}, NEW config \in Configs
  PROVE  LET e == R!ClientsPut(d, [c \in Clients |->
                    [inbounds |-> {}, config |-> config, external |-> {}]])
         IN Whole(e) /\ R!Present(e) = {} /\ e.used = {} /\ R!Registered(e) = Clients
<1> DEFINE form == [inbounds |-> {}, config |-> config, external |-> {}]
           new == [inbounds |-> {}, config |-> config, local |-> R!Fresh(d, {}, config),
                   external |-> {}]
           recs == [c \in Clients |-> new]
           e == [d EXCEPT !.clients = recs]
<1>1. new \in R!Client /\ new # None
  <2>1. R!Fresh(d, {}, config) \in SUBSET R!Link
    BY FreshType DEF Whole
  <2>2. new \in R!Client
    BY <2>1 DEF R!Client
  <2> QED
    BY <2>2, RecordAssumption DEF R!NoneAssumption
<1>2. e = R!ClientsPut(d, [c \in Clients |-> form])
  BY DEF R!ClientsPut
<1> HIDE DEF new
<1>3. recs \in [Clients -> R!Client \union {None}]
  BY <1>1
<1>4. /\ e.inbounds = d.inbounds /\ e.used = d.used /\ e.clients = recs /\ e \in R!Tables
  BY <1>3 DEF Whole, R!Tables
<1> HIDE DEF e
<1>5. R!Present(e) = {} /\ R!Registered(e) = Clients
  BY <1>1, <1>4 DEF R!Present, R!Registered
<1> QED
  BY <1>2, <1>4, <1>5 DEF Whole

\* The tables the system may start with are sound.
LEMMA PopulatedOk ==
  ASSUME NEW id \in Ids, NEW form \in R!InboundForm, form.tls # None, NEW version \in Versions,
         NEW config \in Configs
  PROVE  Whole(Populated(id, form, version, config)) /\ UniqueTags(Populated(id, form, version, config))
<1>1. Whole(R!Empty) /\ R!Present(R!Empty) = {} /\ R!Empty.used = {} /\ UniqueTags(R!Empty)
  BY DEF R!Empty, R!Present, R!Tables, Whole, UniqueTags
<1>2. form.tls \in TlsIds
  BY DEF R!InboundForm
<1> DEFINE secured == R!TlsSave(R!Empty, form.tls, version)
<1>3. Whole(secured) /\ R!Present(secured) = {}
  BY <1>1, <1>2, TlsSaveOk
<1>4. secured.used = {}
  BY <1>1 DEF R!TlsSave, Whole, R!Tables
<1> HIDE DEF secured
<1> DEFINE served == R!ClientsPut(secured, [c \in Clients |->
                       [inbounds |-> {}, config |-> config, external |-> {}]])
<1>5. Whole(served) /\ R!Present(served) = {} /\ served.used = {}
  BY <1>3, <1>4, ServedOk
<1> HIDE DEF served
<1>6. UniqueTags(served)
  BY <1>5 DEF UniqueTags
<1> DEFINE e == R!InboundNew(served, id, form, Clients)
<1>7. Whole(e) /\ R!Present(e) = {id}
  <2>1. id \in Ids \ served.used
    BY <1>5
  <2>2. /\ Whole(e)
        /\ R!Present(e) = R!Present(served) \union {id} /\ e.inbounds[id].tag = form.tag
        /\ \A i \in R!Present(served) \ {id} : e.inbounds[i] = served.inbounds[i]
        /\ UniqueTags(e) => Elsewhere(served, e, {form.tag})
    BY <2>1, <1>5, <1>6, InboundNewOk
  <2> HIDE DEF e
  <2> QED
    BY <2>2, <1>5
<1>8. e = Populated(id, form, version, config)
  BY DEF Populated, secured, served
<1> HIDE DEF e
<1> QED
  BY <1>7, <1>8 DEF UniqueTags

\* The invariant holds at the start.
LEMMA InitKeeps == Init => IInv
<1> SUFFICES ASSUME Init PROVE IInv
  OBVIOUS
<1>1. Whole(db) /\ UniqueTags(db)
  BY PopulatedOk DEF Init
<1>2. TypeOK
  <2>1. <<>> \in Seq(Jobs)
    OBVIOUS
  <2>2. todo \in [Requests -> Seq(Jobs)]
    BY <2>1 DEF Init
  <2> QED
    BY <1>1, <2>2 DEF Init, TypeOK, Whole, Jobs
<1>3. Busy = {} /\ InFlight = {}
  BY DEF Init, Busy, InFlight
<1>4. ASSUME NEW r \in Requests PROVE RequestInv(r) /\ Sound(r)
  <2>1. JobsWithin(<<>>, None, {})
    BY DEF JobsWithin
  <2> QED
    BY <2>1, RequestAssumption DEF Init, RequestInv, Sound, Current
<1>5. OverlapInv /\ BootInv
  BY <1>3 DEF OverlapInv, BootInv, Init
<1>6. core = [tag \in Tags |-> core[tag]] /\ CoreFollows
  BY DEF Init, CoreFollows
<1> QED
  BY <1>1, <1>2, <1>3, <1>4, <1>5, <1>6 DEF IInv, TablesInv

-----------------------------------------------------------------------------
(* What follows. *)

\* Every step keeps the invariant.
LEMMA NextKeeps == IInv /\ [Next]_vars => IInv'
<1> SUFFICES ASSUME IInv, [Next]_vars PROVE IInv'
  OBVIOUS
<1>1. ASSUME NEW r \in Requests, Request(r) PROVE IInv'
  BY <1>1, RequestKeeps
<1>2. ASSUME NEW r \in Requests, GoOn(r) PROVE IInv'
  <2>1. CASE CoreStep(r)
    BY <2>1, CoreStepKeeps
  <2>2. CASE Read(r)
    BY <2>2, ReadKeeps
  <2>3. CASE Write(r)
    BY <2>3, WriteKeeps
  <2>4. CASE Commit(r)
    <3>1. todo' = [todo EXCEPT ![r] = <<>>]
      BY <2>4 DEF Commit, Done, IInv, TypeOK
    <3> QED
      BY <2>4, <3>1, CommittedKeeps DEF Commit, Done
  <2>5. CASE Panic(r)
    BY <2>5, CommittedKeeps DEF Panic
  <2>6. CASE Fail(r)
    BY <2>6, FailKeeps
  <2> QED
    BY <1>2, <2>1, <2>2, <2>3, <2>4, <2>5, <2>6 DEF GoOn
<1>3. CASE StopCore
  BY <1>3, StopCoreKeeps
<1>4. CASE GetConfig
  BY <1>4, GetConfigKeeps
<1>5. CASE StartCore
  BY <1>5, StartCoreKeeps
<1>6. CASE UNCHANGED vars
  <2>1. /\ TypeOK' /\ TablesInv' /\ OverlapInv' /\ BootInv' /\ CoreFollows'
        /\ Busy' = Busy /\ (core = [tag \in Tags |-> core[tag]])'
    BY <1>6 DEF vars, IInv, TypeOK, TablesInv, OverlapInv, BootInv, CoreFollows, InFlight, Busy
  <2>2. ASSUME NEW q \in Requests
        PROVE  RequestInv(q)' /\ Sound(q)' /\ (Settled(q) => Settled(q)')
    <3>1. \A tag : Alone(q, tag)' <=> Alone(q, tag)
      BY <1>6 DEF vars, Alone, Busy
    <3> QED
      BY <3>1, <1>6 DEF vars, IInv, RequestInv, Sound, Settled, Current, Result
  <2>3. up' => \A q \in Busy' : Settled(q)'
    BY <2>1, <2>2, <1>6 DEF vars, IInv, Busy
  <2> QED
    BY <2>1, <2>2, <2>3 DEF IInv
<1> QED
  BY <1>1, <1>2, <1>3, <1>4, <1>5, <1>6 DEF Next

\* The invariant IInv, of which the theorems below are consequences, holds throughout.
THEOREM AlwaysIInv == Spec => []IInv
BY InitKeeps, NextKeeps, PTL DEF Spec

\* The variables keep their types; the write lock is held only by a request that is past
\* its write and has seen the tables as they are.
THEOREM TypeCorrect == Spec => []TypeOK
<1>1. IInv => TypeOK
  BY DEF IInv
<1> QED
  BY <1>1, AlwaysIInv, PTL

\* Whatever requests overlap, fail or panic, and whenever the core stops and starts: it
\* serves what the tables say, but for the tags that are busy or were given up.
THEOREM CoreAlwaysFollows == Spec => []CoreFollows
<1>1. IInv => CoreFollows
  BY DEF IInv
<1> QED
  BY <1>1, AlwaysIInv, PTL

\* What a request that is alone can make of the tables is a step of InboundRecords.
LEMMA MakesNext ==
  ASSUME NEW e, Makes(db, e), db' = e PROVE R!Next
<1>1. CASE \E form \in R!InboundForm, id \in Ids \ db.used, init \in SUBSET R!Registered(db) :
             /\ R!Valid(db, form) /\ R!TagFree(db, id, form.tag)
             /\ e = R!InboundNew(db, id, form, init)
  BY <1>1 DEF R!Next, R!SaveInbound
<1>2. CASE \E form \in R!InboundForm, id \in db.used :
             /\ R!Valid(db, form) /\ R!TagFree(db, id, form.tag)
             /\ e = R!InboundEdit(db, id, form)
  BY <1>2 DEF R!Next, R!SaveInbound
<1>3. CASE \E tag \in Tags : e = R!InboundDel(db, tag)
  BY <1>3 DEF R!Next, R!DelInbound
<1>4. CASE \E t \in TlsIds, version \in Versions : e = R!TlsSave(db, t, version)
  BY <1>4 DEF R!Next, R!SaveTls
<1>5. CASE \E t \in TlsIds : R!TlsFree(db, t) /\ e = R!TlsDel(db, t)
  BY <1>5 DEF R!Next, R!DelTls
<1>6. CASE \E c \in Clients, form \in R!ClientForm :
             form.inbounds \subseteq db.used /\ e = R!ClientsPut(db, [x \in {c} |-> form])
  <2>1. PICK c \in Clients, form \in R!ClientForm :
          form.inbounds \subseteq db.used /\ e = R!ClientsPut(db, [x \in {c} |-> form])
    BY <1>6
  <2>2. CASE c \in R!Registered(db)
    BY <2>1, <2>2 DEF R!Next, R!EditClient
  <2>3. CASE c \notin R!Registered(db)
    <3>1. /\ {c} \in SUBSET (Clients \ R!Registered(db))
          /\ [x \in {c} |-> form] \in [{c} -> {f \in R!ClientForm : f.inbounds \subseteq db.used}]
      BY <2>1, <2>3
    <3>2. R!AddClients
      BY <2>1, <3>1 DEF R!AddClients
    <3> QED
      BY <3>2 DEF R!Next
  <2> QED
    BY <2>2, <2>3
<1>7. CASE \E c \in R!Registered(db) : e = R!ClientsDel(db, {c})
  <2>1. R!DelClients
    BY <1>7 DEF R!DelClients
  <2> QED
    BY <2>1 DEF R!Next
<1> QED
  BY <1>1, <1>2, <1>3, <1>4, <1>5, <1>6, <1>7 DEF Makes

\* However requests overlap, what they make of the tables could have been made by one
\* request after the other: the tables take the steps of InboundRecords.
THEOREM OneAfterTheOther == Spec => Serial
<1>1. IInv /\ [Next]_vars => [R!Next]_db
  <2> SUFFICES ASSUME IInv, [Next]_vars, db' # db PROVE R!Next
    BY DEF IInv
  <2>1. PICK r \in Requests : at[r] = "core" /\ writer = r /\ db' = pending[r]
    <3>1. ASSUME NEW r \in Requests, Request(r) PROVE UNCHANGED db
      BY <3>1 DEF Request, NewInbound, EditInbound, DelInbound, SaveTls, DelTls, SaveClient,
                  DelClient, Begin
    <3>2. ~ (StopCore \/ GetConfig \/ StartCore \/ UNCHANGED vars)
      BY DEF StopCore, GetConfig, StartCore, vars
    <3>3. PICK r \in Requests : GoOn(r)
      BY <3>1, <3>2 DEF Next
    <3>4. Commit(r) \/ Panic(r)
      BY <3>3 DEF GoOn, CoreStep, Read, Write, Fail
    <3> QED
      BY <3>4 DEF Commit, Panic, Done, Committed
  <2>2. Current(r)
    BY <2>1, RequestAssumption DEF IInv, TypeOK, RequestInv, Current
  <2>3. Makes(db, pending[r])
    BY <2>2 DEF IInv, Sound
  <2> QED
    BY <2>1, <2>3, MakesNext
<1> QED
  BY <1>1, AlwaysIInv, PTL DEF Spec, Serial
-----------------------------------------------------------------------------
(* Editors (Parts).  The invariant: a request that is past the core, alone at a tag, has left *)
(* there what it says (PartSettled); an edit knows the row it replaces (Seen); the request    *)
(* that commits holds the lock (Shaped); a start of the core has read what the table wants,   *)
(* but for the tags that are in doubt (BootRead); an edit that has set the license of a       *)
(* device sees it set, or another edit has set its own since (Licensed).                      *)

\* A request and what it carries.
Forms ==
  [step : {"remote", "put", "look", "remove", "add", "write", "commit"},
   act : {"new", "edit", "del"}, id : Ids \union {None}, tag : Tags,
   content : PartContents \union {None}, license : Licenses \union {None},
   old : Tags \union {None}, snapshot : {"none", "fresh", "old"},
   put : BOOLEAN, booted : BOOLEAN]

Types ==
  /\ Parts!TypeOK
  /\ req \in [Requests -> Forms \union {Parts!Idle}]
  /\ booting \in [Tags -> PartContents \union {None}] \union {None}
  /\ booting # None => ~ on
  /\ \A i, j \in Parts!Present : rows[i].tag = rows[j].tag => i = j

\* What the operation of a request says of its form, by the step it is at.
Shaped(r) ==
  LET q == req[r] IN
  /\ q.act = "new" => q.id = None /\ q.old = None /\ ~ q.put /\ q.content \in PartContents
  /\ q.act = "del" => q.id = None /\ q.old \in {None, q.tag} /\ ~ q.put
  /\ q.act = "edit" => q.id \in used /\ q.content \in PartContents
  /\ q.step = "remote" => q.act # "del" /\ q.content \in Warp
  /\ q.step = "put" => q.act = "edit" /\ q.content \in Warp /\ q.snapshot # "none"
  /\ q.step \in {"remote", "put", "look"} => q.old = None
  /\ q.step \in {"remote", "put"} => ~ q.put
  /\ q.step = "remove" => q.act # "new" /\ (q.act = "del" => q.old = q.tag)
  /\ q.step = "add" => q.act # "del"
  /\ q.step = "commit" <=> lock = r
  /\ q.step = "commit" => q.snapshot # "old" /\ ~ Parts!Taken(q)
  /\ booting # None => q.booted

\* An edit in the core knows the row as it is; or it has found the core down, and a start of
\* the core comes or has come between.
Seen(r) ==
  LET q == req[r] IN
  Parts!InCore(r) /\ q.act = "edit" /\ q.snapshot # "old" =>
    \/ q.snapshot = "fresh" /\ q.old = IF q.id \in Parts!Present THEN rows[q.id].tag ELSE None
    \/ q.old = None /\ (q.booted \/ (~ on /\ booting = None))

\* What a request makes of a tag, once it has.
Effect(q, tag) == IF q.act # "del" /\ tag = q.tag THEN q.content ELSE None
Made(q, tag) == \/ q.step \in {"write", "commit"}
                \/ q.step = "add" /\ tag = q.old /\ tag # q.tag
Unshared(r, tag) == \A q \in Requests \ {r} : tag \notin Parts!Touched(q)
PartSettled(r) ==
  LET q == req[r] IN
  on /\ q.snapshot # "old" =>
    \A tag \in Parts!Touched(r) \ doubtful :
      Unshared(r, tag) /\ Made(q, tag) =>
        running[tag] = Effect(q, tag) \/ (q.booted /\ running[tag] = Parts!Wanted(rows, tag))

BootRead == booting # None => \A tag \in Tags \ doubtful : booting[tag] = Parts!Wanted(rows, tag)

\* The account of a device is there for good; who has set it, or found it set.
Licensed(r) ==
  LET q == req[r] IN
  q.act = "edit" =>
    /\ q.content \in Warp <=> account[q.id] # None
    /\ q.license = None <=> q.content \notin Warp
    /\ q.put => q.snapshot # "none"
    /\ q.put /\ q.snapshot # "old" =>
         \/ account[q.id] = q.license \/ q.id \in adrift
         \/ \E o \in Parts!Busy \ {r} : req[o].id = q.id /\ req[o].put
    /\ q.content \in Warp /\ q.step \notin {"remote", "put"} /\ ~ q.put /\ q.snapshot # "old" =>
         q.snapshot = "fresh" /\ q.id \in Parts!Present /\ rows[q.id].license = q.license

EdInv ==
  /\ Types
  /\ \A r \in Parts!Busy : Shaped(r) /\ Seen(r) /\ PartSettled(r) /\ Licensed(r)
  /\ BootRead /\ Parts!PartsFollow /\ Parts!LicenseFollows
-----------------------------------------------------------------------------
(* What the steps do to the requests. *)

ReqTypes == req \in [Requests -> Forms \union {Parts!Idle}]
Others(r) == \A q \in Requests \ {r} : req'[q] = req[q]

\* A request at work has a form.
LEMMA FormOf ==
  ASSUME ReqTypes, NEW r \in Parts!Busy
  PROVE  r \in Requests /\ req[r] \in Forms
BY DEF ReqTypes, Parts!Busy, Parts!Idle

\* A form is not the idle request.
LEMMA NotIdle ==
  ASSUME NEW f \in Forms
  PROVE  f.step # "idle" /\ f # Parts!Idle
BY DEF Forms, Parts!Idle

\* A request has another form after a step, or is at its end.
LEMMA Moves ==
  ASSUME ReqTypes, NEW r \in Requests, NEW f \in Forms \union {Parts!Idle},
         req' = [req EXCEPT ![r] = f]
  PROVE  ReqTypes' /\ Others(r) /\ req'[r] = f
BY DEF ReqTypes, Others

\* Who is at work after one request moves.
LEMMA BusyAfter ==
  ASSUME NEW r \in Requests, Others(r)
  PROVE  Parts!Busy' \subseteq Parts!Busy \union {r} /\ Parts!Busy \ {r} \subseteq Parts!Busy'
BY DEF Parts!Busy, Others

\* Steps and fields.
LEMMA WithStep ==
  ASSUME NEW f \in Forms, NEW s \in {"remote", "put", "look", "remove", "add", "write", "commit"}
  PROVE  [f EXCEPT !.step = s] \in Forms
BY DEF Forms

\* The tags of a request depend on its form only.
LEMMA TouchedSame ==
  ASSUME NEW q, req'[q] = req[q]
  PROVE  Parts!Touched(q)' = Parts!Touched(q) /\ Parts!InCore(q)' = Parts!InCore(q)
BY DEF Parts!Touched, Parts!InCore

-----------------------------------------------------------------------------
(* A request begins. *)

\* What beginning a request changes.
LEMMA BeginIs ==
  ASSUME Parts!NoneAssumption, Types, NEW r \in Requests,
         NEW step \in {"remote", "look"}, NEW act \in {"new", "edit", "del"},
         NEW id \in Ids \union {None}, NEW tag \in Tags, NEW content \in PartContents \union {None},
         NEW license \in Licenses \union {None},
         Parts!Begin(r, step, act, id, tag, content, license)
  PROVE  /\ ReqTypes' /\ Others(r) /\ r \notin Parts!Busy
         /\ req'[r] = [step |-> step, act |-> act, id |-> id, tag |-> tag, content |-> content,
                       license |-> license, old |-> None, snapshot |-> "none", put |-> FALSE,
                       booted |-> booting # None]
<1> DEFINE f == [step |-> step, act |-> act, id |-> id, tag |-> tag, content |-> content,
                 license |-> license, old |-> None, snapshot |-> "none", put |-> FALSE,
                 booted |-> booting # None]
<1>1. f \in Forms
  BY DEF Forms
<1>2. req' = [req EXCEPT ![r] = f] /\ req[r] = Parts!Idle
  BY DEF Parts!Begin
<1>3. r \notin Parts!Busy
  BY <1>2 DEF Parts!Busy, Parts!Idle
<1> HIDE DEF f
<1>4. ReqTypes' /\ Others(r) /\ req'[r] = f
  BY <1>1, <1>2, Moves DEF Types, ReqTypes
<1> QED
  BY <1>3, <1>4 DEF f

\* What registering a device changes.
LEMMA RegisterWarpIs ==
  ASSUME Types, NEW r \in Requests, Parts!RegisterWarp(r)
  PROVE  /\ ReqTypes' /\ Others(r) /\ r \in Parts!Busy
         /\ \E license \in Licenses :
              req'[r] = [req[r] EXCEPT !.license = license, !.step = "look"]
<1>1. r \in Parts!Busy /\ req[r] \in Forms
  BY FormOf DEF Parts!RegisterWarp, Parts!Busy, Types, ReqTypes
<1>2. PICK license \in Licenses :
        req' = [req EXCEPT ![r].license = license, ![r].step = "look"]
  BY DEF Parts!RegisterWarp
<1> DEFINE f == [req[r] EXCEPT !.license = license, !.step = "look"]
<1>3. req' = [req EXCEPT ![r] = f]
  BY <1>2 DEF Types
<1>4. f \in Forms
  BY <1>1 DEF Forms
<1> HIDE DEF f
<1>5. ReqTypes' /\ Others(r) /\ req'[r] = f
  BY <1>3, <1>4, Moves DEF Types, ReqTypes
<1> QED
  BY <1>1, <1>5 DEF f

\* What reading the license of a row changes.
LEMMA ReadLicenseIs ==
  ASSUME Types, NEW r \in Requests, Parts!ReadLicense(r)
  PROVE  /\ ReqTypes' /\ Others(r) /\ r \in Parts!Busy
         /\ \E step \in {"look", "put"} :
              /\ req'[r] = [req[r] EXCEPT !.snapshot = "fresh", !.step = step]
              /\ step = "look" => req[r].id \in Parts!Present /\ rows[req[r].id].license = req[r].license
<1>1. r \in Parts!Busy /\ req[r] \in Forms
  BY FormOf DEF Parts!ReadLicense, Parts!Busy, Types, ReqTypes
<1> DEFINE same == req[r].id \in Parts!Present /\ rows[req[r].id].license = req[r].license
           step == IF same THEN "look" ELSE "put"
           f == [req[r] EXCEPT !.snapshot = "fresh", !.step = step]
<1>2. req' = [req EXCEPT ![r].snapshot = "fresh", ![r].step = step]
  BY DEF Parts!ReadLicense
<1>3. req' = [req EXCEPT ![r] = f]
  BY <1>2 DEF Types
<1>4. f \in Forms
  BY <1>1 DEF Forms
<1> HIDE DEF f
<1>5. ReqTypes' /\ Others(r) /\ req'[r] = f
  BY <1>3, <1>4, Moves DEF Types, ReqTypes
<1> QED
  BY <1>1, <1>5 DEF f

\* What setting a license changes.
LEMMA SetWarpLicenseIs ==
  ASSUME Types, NEW r \in Requests, Parts!SetWarpLicense(r)
  PROVE  /\ ReqTypes' /\ Others(r) /\ r \in Parts!Busy
         /\ req'[r] = [req[r] EXCEPT !.put = TRUE, !.step = "look"]
<1>1. r \in Parts!Busy /\ req[r] \in Forms
  BY FormOf DEF Parts!SetWarpLicense, Parts!Busy, Types, ReqTypes
<1> DEFINE f == [req[r] EXCEPT !.put = TRUE, !.step = "look"]
<1>2. req' = [req EXCEPT ![r].put = TRUE, ![r].step = "look"]
  BY DEF Parts!SetWarpLicense
<1>3. req' = [req EXCEPT ![r] = f]
  BY <1>2 DEF Types
<1>4. f \in Forms
  BY <1>1 DEF Forms
<1> HIDE DEF f
<1>5. ReqTypes' /\ Others(r) /\ req'[r] = f
  BY <1>3, <1>4, Moves DEF Types, ReqTypes
<1> QED
  BY <1>1, <1>5 DEF f

\* A request ends without a commit.
LEMMA EndIs ==
  ASSUME Types, NEW r \in Requests, req' = [req EXCEPT ![r] = Parts!Idle]
  PROVE  ReqTypes' /\ Others(r) /\ req'[r] = Parts!Idle /\ Parts!Busy' = Parts!Busy \ {r}
<1>1. ReqTypes' /\ Others(r) /\ req'[r] = Parts!Idle
  BY Moves DEF Types, ReqTypes
<1> QED
  BY <1>1 DEF Parts!Busy, Others, Parts!Idle

\* A request that looks whether the core is there.
LEMMA LookIs ==
  ASSUME Types, NEW r \in Requests, Parts!Look(r)
  PROVE  /\ ReqTypes' /\ Others(r) /\ r \in Parts!Busy
         /\ LET q == req[r] f == req'[r] IN
            /\ f.act = q.act /\ f.id = q.id /\ f.tag = q.tag /\ f.content = q.content
            /\ f.license = q.license /\ f.put = q.put /\ f.booted = q.booted
            /\ ~ on => f.step = "write" /\ f.old = q.old /\ f.snapshot = q.snapshot
            /\ on /\ q.act = "new" => f.step = "add" /\ f.old = q.old /\ f.snapshot = q.snapshot
            /\ on /\ q.act = "del" => f.step = "remove" /\ f.old = q.tag /\ f.snapshot = q.snapshot
            /\ on /\ q.act = "edit" =>
                 /\ f.step = "remove"
                 /\ f.old = IF q.id \in Parts!Present THEN rows[q.id].tag ELSE None
                 /\ f.snapshot = IF q.snapshot = "none" THEN "fresh" ELSE q.snapshot
<1>1. r \in Parts!Busy /\ req[r] \in Forms
  BY FormOf DEF Parts!Look, Parts!Busy, Types, ReqTypes
<1> DEFINE q == req[r]
           tag == IF q.id \in Parts!Present THEN rows[q.id].tag ELSE None
           f == IF ~ on THEN [q EXCEPT !.step = "write"]
                ELSE CASE q.act = "new" -> [q EXCEPT !.step = "add"]
                 [] q.act = "del" -> [q EXCEPT !.step = "remove", !.old = q.tag]
                 [] q.act = "edit" ->
                      [q EXCEPT !.step = "remove", !.old = tag,
                                !.snapshot = IF @ = "none" THEN "fresh" ELSE @]
<1>2. req' = [req EXCEPT ![r] = f]
  BY DEF Parts!Look
<1>3. tag \in Tags \union {None}
  BY DEF Types, Parts!TypeOK, Parts!Present
<1>4. q.act \in {"new", "edit", "del"} /\ on \in BOOLEAN
  BY <1>1 DEF Forms, Types, Parts!TypeOK
<1> HIDE DEF tag
<1>a. CASE ~ on
  <2>1. f = [q EXCEPT !.step = "write"]
    BY <1>a
  <2> HIDE DEF f
  <2>2. f \in Forms
    BY <2>1, <1>1 DEF Forms
  <2>3. ReqTypes' /\ Others(r) /\ req'[r] = f
    BY <1>2, <2>2, Moves DEF Types, ReqTypes
  <2> QED
    BY <1>1, <1>a, <2>1, <2>3 DEF Forms
<1>b. CASE on /\ q.act = "new"
  <2>1. f = [q EXCEPT !.step = "add"]
    BY <1>b
  <2> HIDE DEF f
  <2>2. f \in Forms
    BY <2>1, <1>1 DEF Forms
  <2>3. ReqTypes' /\ Others(r) /\ req'[r] = f
    BY <1>2, <2>2, Moves DEF Types, ReqTypes
  <2> QED
    BY <1>1, <1>b, <2>1, <2>3 DEF Forms
<1>c. CASE on /\ q.act = "del"
  <2>1. f = [q EXCEPT !.step = "remove", !.old = q.tag]
    BY <1>c
  <2> HIDE DEF f
  <2>2. f \in Forms
    BY <2>1, <1>1 DEF Forms
  <2>3. ReqTypes' /\ Others(r) /\ req'[r] = f
    BY <1>2, <2>2, Moves DEF Types, ReqTypes
  <2> QED
    BY <1>1, <1>c, <2>1, <2>3 DEF Forms
<1>d. CASE on /\ q.act = "edit"
  <2>1. f = [q EXCEPT !.step = "remove", !.old = tag,
                      !.snapshot = IF @ = "none" THEN "fresh" ELSE @]
    BY <1>d
  <2> HIDE DEF f
  <2> DEFINE snapshot == IF q.snapshot = "none" THEN "fresh" ELSE q.snapshot
  <2>4. f = [q EXCEPT !.step = "remove", !.old = tag, !.snapshot = snapshot]
    BY <2>1
  <2>5. snapshot \in {"none", "fresh", "old"}
    BY <1>1 DEF Forms
  <2> HIDE DEF snapshot
  <2>2. f \in Forms
    BY <2>4, <2>5, <1>1, <1>3 DEF Forms
  <2>3. ReqTypes' /\ Others(r) /\ req'[r] = f
    BY <1>2, <2>2, Moves DEF Types, ReqTypes
  <2> QED
    BY <1>1, <1>d, <2>1, <2>3 DEF Forms, tag
<1> QED
  BY <1>4, <1>a, <1>b, <1>c, <1>d

\* The next step of a request, and nothing else.
LEMMA AtIs ==
  ASSUME Types, NEW r \in Parts!Busy,
         NEW s \in {"remote", "put", "look", "remove", "add", "write", "commit"}, Parts!At(r, s)
  PROVE  /\ ReqTypes' /\ Others(r) /\ r \in Requests
         /\ req'[r] = [req[r] EXCEPT !.step = s]
<1>1. r \in Requests /\ req[r] \in Forms
  BY FormOf DEF Types, ReqTypes
<1> DEFINE f == [req[r] EXCEPT !.step = s]
<1>2. req' = [req EXCEPT ![r] = f]
  BY DEF Parts!At, Types
<1>3. f \in Forms
  BY <1>1, WithStep
<1> HIDE DEF f
<1>4. ReqTypes' /\ Others(r) /\ req'[r] = f
  BY <1>1, <1>2, <1>3, Moves DEF Types, ReqTypes
<1> QED
  BY <1>1, <1>4 DEF f

\* Another transaction has committed.
LEMMA OutdatedIs ==
  ASSUME Types
  PROVE  /\ Parts!Outdated \in [Requests -> Forms \union {Parts!Idle}]
         /\ \A r \in Requests : r \notin Parts!Busy => Parts!Outdated[r] = req[r]
         /\ \A r \in Parts!Busy :
              Parts!Outdated[r] = IF req[r].snapshot = "fresh" THEN [req[r] EXCEPT !.snapshot = "old"]
                                                               ELSE req[r]
<1>1. \A r \in Requests : r \notin Parts!Busy => Parts!Outdated[r] = req[r]
  BY DEF Parts!Outdated, Parts!Busy
<1>2. \A r \in Parts!Busy :
         Parts!Outdated[r] = IF req[r].snapshot = "fresh" THEN [req[r] EXCEPT !.snapshot = "old"]
                                                          ELSE req[r]
  BY DEF Parts!Outdated, Parts!Busy
<1>3. ASSUME NEW r \in Requests PROVE Parts!Outdated[r] \in Forms \union {Parts!Idle}
  <2>1. CASE r \notin Parts!Busy
    BY <2>1, <1>1 DEF Types
  <2>2. CASE r \in Parts!Busy
    <3>1. req[r] \in Forms
      BY <2>2, FormOf DEF Types, ReqTypes
    <3>2. [req[r] EXCEPT !.snapshot = "old"] \in Forms
      BY <3>1 DEF Forms
    <3> QED
      BY <3>1, <3>2, <2>2, <1>2
  <2> QED
    BY <2>1, <2>2
<1> QED
  BY <1>1, <1>2, <1>3 DEF Parts!Outdated

-----------------------------------------------------------------------------
(* A step of one request that leaves the table and the life of the running alone. *)

\* What a step of r may do to the core, to the accounts and to the history.
Local(r) ==
  /\ Others(r)
  /\ UNCHANGED <<rows, used, on, booting>>
  /\ \A tag \in Tags \ Parts!Touched(r) : running'[tag] = running[tag]
  /\ doubtful \subseteq doubtful' /\ Parts!Touched(r) \subseteq Parts!Touched(r)' \union doubtful'
  /\ lock' = lock \/ (lock \in {None, r} /\ lock' \in {None, r})
  /\ \A i \in Ids : account'[i] = None <=> account[i] = None
  /\ \A i \in Ids : account'[i] = account[i] \/ i \in adrift'
                      \/ (r \in Parts!Busy' /\ req'[r].id = i /\ req'[r].put)
  /\ adrift \subseteq adrift'
  /\ r \in Parts!Busy /\ req[r].put =>
       \/ req[r].id \in adrift'
       \/ r \in Parts!Busy' /\ req'[r].id = req[r].id /\ req'[r].put

\* A step of r leaves the other requests their part of the invariant.
LEMMA LocalOthers ==
  ASSUME Parts!NoneAssumption, EdInv, NEW r \in Requests, Local(r), NEW q \in Parts!Busy \ {r}
  PROVE  (Shaped(q) /\ Seen(q) /\ PartSettled(q) /\ Licensed(q))'
<1>1. q \in Requests /\ q \in Parts!Busy /\ req'[q] = req[q] /\ req[q] \in Forms
  BY FormOf DEF Local, Others, Parts!Busy, EdInv, Types, ReqTypes
<1>2. Shaped(q) /\ Seen(q) /\ PartSettled(q) /\ Licensed(q)
  BY <1>1 DEF EdInv
<1>3. Shaped(q)'
  <2>1. Parts!Taken(req[q])' <=> Parts!Taken(req[q])
    BY <1>1 DEF Parts!Taken, Parts!Present, Local
  <2> QED
    BY <1>1, <1>2, <2>1, Parts!NoneAssumption DEF Shaped, Local, Parts!NoneAssumption
<1>4. Seen(q)'
  BY <1>1, <1>2, TouchedSame DEF Seen, Local, Parts!Present
<1>5. PartSettled(q)'
  <2> SUFFICES ASSUME on, req[q].snapshot # "old", NEW tag \in Parts!Touched(q),
                      tag \notin doubtful',
                      Unshared(q, tag)', Made(req[q], tag)
               PROVE  running'[tag] = Effect(req[q], tag)
                        \/ (req[q].booted /\ running'[tag] = Parts!Wanted(rows, tag))
    BY <1>1, TouchedSame DEF PartSettled, Local
  <2>1. tag \notin Parts!Touched(r)
    BY <1>1 DEF Unshared, Local
  <2>2. tag \in Tags
    BY <1>1 DEF Parts!Touched, Forms
  <2>3. Unshared(q, tag)
    <3> SUFFICES ASSUME NEW o \in Requests \ {q} PROVE tag \notin Parts!Touched(o)
      BY DEF Unshared
    <3>1. CASE o = r
      BY <3>1, <2>1
    <3>2. CASE o # r
      BY <3>2, TouchedSame DEF Unshared, Local, Others
    <3> QED
      BY <3>1, <3>2
  <2> QED
    BY <1>2, <2>1, <2>2, <2>3 DEF PartSettled, Local
<1>6. Licensed(q)'
  <2> SUFFICES ASSUME req[q].act = "edit" PROVE Licensed(q)'
    BY <1>1 DEF Licensed
  <2>1. req[q].id \in Ids
    BY <1>2 DEF Shaped, EdInv, Types, Parts!TypeOK
  <2>2. account'[req[q].id] = None <=> account[req[q].id] = None
    BY <2>1 DEF Local
  <2>3. req[q].put /\ req[q].snapshot # "old" =>
         \/ account'[req[q].id] = req[q].license \/ req[q].id \in adrift'
         \/ \E o \in Parts!Busy' \ {q} : req'[o].id = req[q].id /\ req'[o].put
    <3> SUFFICES ASSUME req[q].put, req[q].snapshot # "old", req[q].id \notin adrift',
                        ~ \E o \in Parts!Busy' \ {q} : req'[o].id = req[q].id /\ req'[o].put
                 PROVE  account'[req[q].id] = req[q].license
      OBVIOUS
    <3>1. account'[req[q].id] = account[req[q].id]
      BY <2>1 DEF Local
    <3>2. req[q].id \notin adrift
      BY DEF Local
    <3>3. ASSUME NEW o \in Parts!Busy \ {q}, req[o].id = req[q].id, req[o].put PROVE FALSE
      <4>1. CASE o = r
        BY <4>1, <3>3 DEF Local
      <4>2. CASE o # r
        BY <4>2, <3>3, BusyAfter DEF Local, Others, Parts!Busy
      <4> QED
        BY <4>1, <4>2
    <3> QED
      BY <1>2, <3>1, <3>2, <3>3 DEF Licensed
  <2>4. Parts!Present' = Parts!Present /\ rows' = rows
    BY DEF Local, Parts!Present
  <2> QED
    BY <1>1, <1>2, <2>2, <2>3, <2>4 DEF Licensed
<1> QED
  BY <1>3, <1>4, <1>5, <1>6

\* A step of r keeps the invariant if it keeps the part of r.
LEMMA LocalKeeps ==
  ASSUME Parts!NoneAssumption, EdInv, NEW r \in Requests, Local(r), ReqTypes', Parts!TypeOK',
         r \in Parts!Busy' => (Shaped(r) /\ Seen(r) /\ PartSettled(r) /\ Licensed(r))'
  PROVE  EdInv'
<1>1. Types'
  BY DEF EdInv, Types, ReqTypes, Local, Parts!Present
<1>2. \A q \in Parts!Busy' : (Shaped(q) /\ Seen(q) /\ PartSettled(q) /\ Licensed(q))'
  <2> SUFFICES ASSUME NEW q \in Parts!Busy' PROVE (Shaped(q) /\ Seen(q) /\ PartSettled(q) /\ Licensed(q))'
    OBVIOUS
  <2>1. CASE q = r
    BY <2>1
  <2>2. CASE q # r
    BY <2>2, BusyAfter, LocalOthers DEF Local
  <2> QED
    BY <2>1, <2>2
<1>3. BootRead'
  BY DEF EdInv, BootRead, Local, Parts!Wanted
<1>4. Parts!PartsFollow'
  <2> SUFFICES ASSUME on, NEW tag \in Tags, tag \notin doubtful', tag \notin Parts!InFlight'
               PROVE  running'[tag] = Parts!Wanted(rows', tag)
    BY DEF Parts!PartsFollow, Local
  <2>1. tag \notin Parts!Touched(r)
    BY DEF Local, Parts!InFlight
  <2>2. \A q \in Requests \ {r} : tag \notin Parts!Touched(q)
    BY TouchedSame DEF Local, Others, Parts!InFlight
  <2>3. tag \notin Parts!InFlight
    BY <2>1, <2>2 DEF Parts!InFlight
  <2> QED
    BY <2>1, <2>3 DEF EdInv, Parts!PartsFollow, Local
<1>5. Parts!LicenseFollows'
  <2> SUFFICES ASSUME NEW i \in Parts!Present, i \notin adrift',
                      ~ \E q \in Parts!Busy' : req'[q].id = i /\ req'[q].put
               PROVE  account'[i] = rows[i].license
    BY DEF Parts!LicenseFollows, Local, Parts!Present
  <2>1. account'[i] = account[i] /\ i \notin adrift
    BY DEF Local, Parts!Present
  <2>2. ASSUME NEW q \in Parts!Busy, req[q].id = i, req[q].put PROVE FALSE
    <3>1. CASE q = r
      BY <3>1, <2>2 DEF Local
    <3>2. CASE q # r
      BY <3>2, <2>2, BusyAfter DEF Local, Others, Parts!Busy
    <3> QED
      BY <3>1, <3>2
  <2> QED
    BY <2>1, <2>2 DEF EdInv, Parts!LicenseFollows
<1> QED
  BY <1>1, <1>2, <1>3, <1>4, <1>5 DEF EdInv

-----------------------------------------------------------------------------
(* The requests, action by action. *)

\* Beginning a request keeps the invariant.
LEMMA BeginPartKeeps ==
  ASSUME Parts!NoneAssumption, EdInv, NEW r \in Requests,
         NEW step \in {"remote", "look"}, NEW act \in {"new", "edit", "del"},
         NEW id \in Ids \union {None}, NEW tag \in Tags, NEW content \in PartContents \union {None},
         NEW license \in Licenses \union {None},
         Parts!Begin(r, step, act, id, tag, content, license),
         act \in {"new", "del"} => id = None,
         act # "del" => content \in PartContents,
         step = "remote" => act # "del" /\ content \in Warp,
         act = "edit" => /\ id \in used
                         /\ content \in Warp <=> account[id] # None
                         /\ license = None <=> content \notin Warp
                         /\ content \in Warp => step = "remote"
  PROVE  EdInv'
<1>1. /\ ReqTypes' /\ Others(r) /\ r \notin Parts!Busy
      /\ req'[r] = [step |-> step, act |-> act, id |-> id, tag |-> tag, content |-> content,
                    license |-> license, old |-> None, snapshot |-> "none", put |-> FALSE,
                    booted |-> booting # None]
  BY BeginIs DEF EdInv
<1>2. UNCHANGED <<rows, used, account, lock, running, on, booting, doubtful, adrift>>
  BY DEF Parts!Begin
<1>3. r \in Parts!Busy'
  BY <1>1 DEF Parts!Busy
<1>4. Parts!Touched(r) = {} /\ Parts!Touched(r)' = {}
  BY <1>1 DEF Parts!Touched, Parts!InCore, Parts!Busy
<1>5. Local(r)
  BY <1>1, <1>2, <1>4 DEF Local
<1>6. Parts!TypeOK'
  BY <1>1, <1>2, BusyAfter DEF EdInv, Types, Parts!TypeOK, Parts!Present
<1>7. Shaped(r)'
  <2>1. lock # r
    BY <1>1 DEF EdInv, Types, Parts!TypeOK, Parts!NoneAssumption
  <2>2. /\ req'[r].step = step /\ req'[r].act = act /\ req'[r].id = id
        /\ req'[r].content = content /\ req'[r].old = None /\ ~ req'[r].put
    BY <1>1
  <2>3. booting # None => req'[r].booted
    <3>1. req'[r].booted = (booting # None)
      BY <1>1
    <3> QED
      BY <3>1, Zenon
  <2> QED
    BY <1>2, <2>1, <2>2, <2>3 DEF Shaped
<1>8. Seen(r)' /\ PartSettled(r)'
  BY <1>1, <1>4 DEF Seen, PartSettled, Parts!InCore
<1>9. Licensed(r)'
  BY <1>1, <1>2 DEF Licensed
<1> QED
  BY <1>1, <1>5, <1>6, <1>7, <1>8, <1>9, LocalKeeps

\* A new request keeps the invariant.
LEMMA PartRequestKeeps ==
  ASSUME Parts!NoneAssumption, Parts!WarpAssumption, EdInv, NEW r \in Requests, Parts!Request(r)
  PROVE  EdInv'
<1>1. ASSUME NEW tag \in Tags, NEW content \in PartContents, Parts!New(r, tag,
             content) PROVE EdInv'
  <2>1. Parts!First(content) \in {"remote", "look"} /\ (Parts!First(content) = "remote" => content \in Warp)
    BY DEF Parts!First
  <2> QED
    BY <1>1, <2>1, BeginPartKeeps DEF Parts!New
<1>2. ASSUME NEW tag \in Tags, NEW content \in PartContents, NEW id \in Ids,
             NEW license \in Licenses \union {None}, Parts!Edit(r, id, tag, content, license)
      PROVE  EdInv'
  <2>1. Parts!First(content) \in {"remote", "look"} /\ (Parts!First(content) = "remote" <=> content \in Warp)
    BY DEF Parts!First
  <2> QED
    BY <1>2, <2>1, BeginPartKeeps DEF Parts!Edit
<1>3. ASSUME NEW tag \in Tags, Parts!Del(r, tag) PROVE EdInv'
  BY <1>3, BeginPartKeeps DEF Parts!Del
<1> QED
  BY <1>1, <1>2, <1>3 DEF Parts!Request

\* Registering a device keeps the invariant.
LEMMA RegisterWarpKeeps ==
  ASSUME Parts!NoneAssumption, EdInv, NEW r \in Requests, Parts!RegisterWarp(r)
  PROVE  EdInv'
<1>1. PICK license \in Licenses :
        /\ ReqTypes' /\ Others(r) /\ r \in Parts!Busy
        /\ req'[r] = [req[r] EXCEPT !.license = license, !.step = "look"]
  BY RegisterWarpIs DEF EdInv
<1>2. UNCHANGED <<rows, used, account, lock, running, on, booting, doubtful, adrift>>
      /\ req[r].step = "remote" /\ req[r].act = "new"
  BY DEF Parts!RegisterWarp
<1>3. req[r] \in Forms /\ Shaped(r)
  BY <1>1, FormOf DEF EdInv, Types, ReqTypes
<1>4. /\ req'[r].step = "look" /\ req'[r].act = "new" /\ req'[r].id = req[r].id
      /\ req'[r].content = req[r].content /\ req'[r].old = req[r].old
      /\ req'[r].put = req[r].put /\ req'[r].booted = req[r].booted
  BY <1>1, <1>2, <1>3 DEF Forms
<1>5. Parts!Touched(r) = {} /\ Parts!Touched(r)' = {} /\ r \in Parts!Busy'
  BY <1>2, <1>4 DEF Parts!Touched, Parts!InCore, Parts!Busy
<1>6. Local(r)
  BY <1>1, <1>2, <1>4, <1>5 DEF Local
<1>7. Parts!TypeOK'
  BY <1>1, <1>2, <1>5, BusyAfter DEF EdInv, Types, Parts!TypeOK, Parts!Present
<1>8. (Shaped(r) /\ Seen(r) /\ PartSettled(r) /\ Licensed(r))'
  BY <1>2, <1>3, <1>4, <1>5 DEF Shaped, Seen, PartSettled, Parts!InCore, Licensed
<1> QED
  BY <1>1, <1>6, <1>7, <1>8, LocalKeeps

\* Reading the license of a row keeps the invariant.
LEMMA ReadLicenseKeeps ==
  ASSUME Parts!NoneAssumption, EdInv, NEW r \in Requests, Parts!ReadLicense(r)
  PROVE  EdInv'
<1>1. PICK step \in {"look", "put"} :
        /\ ReqTypes' /\ Others(r) /\ r \in Parts!Busy
        /\ req'[r] = [req[r] EXCEPT !.snapshot = "fresh", !.step = step]
        /\ step = "look" => req[r].id \in Parts!Present /\ rows[req[r].id].license = req[r].license
  BY ReadLicenseIs DEF EdInv
<1>2. UNCHANGED <<rows, used, account, lock, running, on, booting, doubtful, adrift>>
      /\ req[r].step = "remote" /\ req[r].act = "edit"
  BY DEF Parts!ReadLicense
<1>3. req[r] \in Forms /\ Shaped(r) /\ Licensed(r)
  BY <1>1, FormOf DEF EdInv, Types, ReqTypes
<1>4. /\ req'[r].step = step /\ req'[r].act = "edit" /\ req'[r].id = req[r].id
      /\ req'[r].content = req[r].content /\ req'[r].old = req[r].old
      /\ req'[r].license = req[r].license /\ req'[r].snapshot = "fresh"
      /\ req'[r].put = req[r].put /\ req'[r].booted = req[r].booted
  BY <1>1, <1>2, <1>3 DEF Forms
<1>5. Parts!Touched(r) = {} /\ Parts!Touched(r)' = {} /\ r \in Parts!Busy'
  BY <1>1, <1>2, <1>4 DEF Parts!Touched, Parts!InCore, Parts!Busy
<1>6. Local(r)
  BY <1>1, <1>2, <1>4, <1>5 DEF Local
<1>7. Parts!TypeOK'
  BY <1>1, <1>2, <1>5, BusyAfter DEF EdInv, Types, Parts!TypeOK, Parts!Present
<1>8. (Shaped(r) /\ Seen(r) /\ PartSettled(r))'
  BY <1>2, <1>3, <1>4, <1>5 DEF Shaped, Seen, PartSettled, Parts!InCore
<1>9. Licensed(r)'
  <2>1. ~ req[r].put
    BY <1>2, <1>3 DEF Shaped
  <2>2. Parts!Present' = Parts!Present
    BY <1>2 DEF Parts!Present
  <2> QED
    BY <1>1, <1>2, <1>3, <1>4, <2>1, <2>2 DEF Licensed
<1> QED
  BY <1>1, <1>6, <1>7, <1>8, <1>9, LocalKeeps

\* Setting a license keeps the invariant.
LEMMA SetWarpLicenseKeeps ==
  ASSUME Parts!NoneAssumption, EdInv, NEW r \in Requests, Parts!SetWarpLicense(r)
  PROVE  EdInv'
<1>1. /\ ReqTypes' /\ Others(r) /\ r \in Parts!Busy
      /\ req'[r] = [req[r] EXCEPT !.put = TRUE, !.step = "look"]
  BY SetWarpLicenseIs DEF EdInv
<1>2. UNCHANGED <<rows, used, lock, running, on, booting, doubtful, adrift>>
      /\ req[r].step = "put" /\ account' = [account EXCEPT ![req[r].id] = req[r].license]
  BY DEF Parts!SetWarpLicense
<1>3. req[r] \in Forms /\ Shaped(r) /\ Licensed(r)
  BY <1>1, FormOf DEF EdInv, Types, ReqTypes
<1>4. /\ req'[r].step = "look" /\ req'[r].act = req[r].act /\ req'[r].id = req[r].id
      /\ req'[r].content = req[r].content /\ req'[r].old = req[r].old
      /\ req'[r].license = req[r].license /\ req'[r].snapshot = req[r].snapshot
      /\ req'[r].put = TRUE /\ req'[r].booted = req[r].booted
  BY <1>1, <1>3 DEF Forms
<1>5. Parts!Touched(r) = {} /\ Parts!Touched(r)' = {} /\ r \in Parts!Busy'
  BY <1>1, <1>2, <1>4 DEF Parts!Touched, Parts!InCore, Parts!Busy
<1>6. /\ req[r].act = "edit" /\ req[r].id \in Ids /\ req[r].license \in Licenses
      /\ account[req[r].id] # None /\ req[r].license # None
      /\ account \in [Ids -> Licenses \union {None}]
  BY <1>2, <1>3 DEF Shaped, Licensed, EdInv, Types, Parts!TypeOK, Forms
<1>7. /\ account' \in [Ids -> Licenses \union {None}]
      /\ account'[req[r].id] = req[r].license
      /\ \A i \in Ids \ {req[r].id} : account'[i] = account[i]
  BY <1>2, <1>6
<1>8. Local(r)
  BY <1>1, <1>2, <1>4, <1>5, <1>6, <1>7 DEF Local
<1>9. Parts!TypeOK'
  BY <1>1, <1>2, <1>5, <1>7, BusyAfter DEF EdInv, Types, Parts!TypeOK, Parts!Present
<1>10. (Shaped(r) /\ Seen(r) /\ PartSettled(r))'
  BY <1>2, <1>3, <1>4, <1>5, <1>6 DEF Shaped, Seen, PartSettled, Parts!InCore
<1>11. Licensed(r)'
  BY <1>2, <1>3, <1>4, <1>6, <1>7 DEF Shaped, Licensed
<1> QED
  BY <1>1, <1>8, <1>9, <1>10, <1>11, LocalKeeps

\* A license that cannot be set keeps the invariant.
LEMMA SetWarpLicenseFailsKeeps ==
  ASSUME Parts!NoneAssumption, EdInv, NEW r \in Requests, Parts!SetWarpLicenseFails(r)
  PROVE  EdInv'
<1>1. ReqTypes' /\ Others(r) /\ req'[r] = Parts!Idle /\ Parts!Busy' = Parts!Busy \ {r}
  BY EndIs DEF Parts!SetWarpLicenseFails, EdInv
<1>2. UNCHANGED <<rows, used, lock, running, on, booting, doubtful>>
      /\ req[r].step = "put" /\ account' = [account EXCEPT ![req[r].id] = req[r].license]
      /\ adrift' = adrift \union {req[r].id}
  BY DEF Parts!SetWarpLicenseFails
<1>3. req[r] \in Forms /\ Shaped(r) /\ Licensed(r) /\ r \in Parts!Busy
  BY <1>2, FormOf DEF EdInv, Types, ReqTypes, Parts!Busy
<1>4. Parts!Touched(r) = {} /\ Parts!Touched(r)' = {}
  BY <1>1, <1>2 DEF Parts!Touched, Parts!InCore, Parts!Idle
<1>5. /\ req[r].act = "edit" /\ req[r].id \in used /\ req[r].license \in Licenses
      /\ used \subseteq Ids /\ account[req[r].id] # None /\ req[r].license # None
      /\ account \in [Ids -> Licenses \union {None}]
  BY <1>2, <1>3 DEF Shaped, Licensed, EdInv, Types, Parts!TypeOK, Forms
<1>6. /\ account' \in [Ids -> Licenses \union {None}]
      /\ account'[req[r].id] = req[r].license
      /\ \A i \in Ids \ {req[r].id} : account'[i] = account[i]
  BY <1>2, <1>5
<1>7. Local(r)
  BY <1>1, <1>2, <1>3, <1>4, <1>5, <1>6 DEF Local
<1>8. lock # r
  BY <1>2, <1>3 DEF EdInv, Types, Parts!TypeOK, Shaped
<1>9. Parts!TypeOK'
  BY <1>1, <1>2, <1>5, <1>6, <1>8 DEF EdInv, Types, Parts!TypeOK, Parts!Present
<1> QED
  BY <1>1, <1>7, <1>9, LocalKeeps

\* Looking whether the core runs keeps the invariant.
LEMMA LookKeeps ==
  ASSUME Parts!NoneAssumption, EdInv, NEW r \in Requests, Parts!Look(r)
  PROVE  EdInv'
<1>1. req[r].step = "look" /\ r \in Parts!Busy
      /\ UNCHANGED <<rows, used, account, lock, running, on, booting, doubtful, adrift>>
  BY DEF Parts!Look, Parts!Busy
<1>2. req[r] \in Forms /\ Shaped(r) /\ Licensed(r)
  BY <1>1, FormOf DEF EdInv, Types, ReqTypes
<1>3. /\ ReqTypes' /\ Others(r)
      /\ LET q == req[r] f == req'[r] IN
            /\ f.act = q.act /\ f.id = q.id /\ f.tag = q.tag /\ f.content = q.content
            /\ f.license = q.license /\ f.put = q.put /\ f.booted = q.booted
            /\ ~ on => f.step = "write" /\ f.old = q.old /\ f.snapshot = q.snapshot
            /\ on /\ q.act = "new" => f.step = "add" /\ f.old = q.old /\ f.snapshot = q.snapshot
            /\ on /\ q.act = "del" => f.step = "remove" /\ f.old = q.tag /\ f.snapshot = q.snapshot
            /\ on /\ q.act = "edit" =>
                 /\ f.step = "remove"
                 /\ f.old = IF q.id \in Parts!Present THEN rows[q.id].tag ELSE None
                 /\ f.snapshot = IF q.snapshot = "none" THEN "fresh" ELSE q.snapshot
  BY LookIs DEF EdInv
<1>4. req[r].act \in {"new", "edit", "del"} /\ req[r].snapshot \in {"none", "fresh", "old"}
  BY <1>2 DEF Forms
<1>5. /\ req'[r].step \in {"write", "add", "remove"} /\ r \in Parts!Busy'
      /\ req'[r].snapshot = req[r].snapshot
           \/ (req[r].snapshot = "none" /\ req'[r].snapshot = "fresh")
  BY <1>1, <1>3, <1>4 DEF Parts!Busy
<1>6. Parts!Touched(r) = {} /\ req[r].old = None
  BY <1>1, <1>2 DEF Parts!Touched, Parts!InCore, Shaped
<1>7. Local(r)
  BY <1>1, <1>3, <1>5, <1>6 DEF Local
<1>8. Parts!TypeOK'
  BY <1>1, <1>3, <1>5, BusyAfter DEF EdInv, Types, Parts!TypeOK, Parts!Present
<1>9. Shaped(r)'
  <2>1. lock # r
    BY <1>1, <1>2 DEF Shaped
  <2>2. CASE ~ on
    BY <1>1, <1>2, <1>3, <1>6, <2>1, <2>2 DEF Shaped
  <2>3. CASE on
    BY <1>1, <1>2, <1>3, <1>4, <1>6, <2>1, <2>3 DEF Shaped
  <2> QED
    BY <2>2, <2>3
<1>10. Seen(r)'
  <2>1. Parts!Present' = Parts!Present
    BY <1>1 DEF Parts!Present
  <2>2. CASE ~ on
    <3>1. req'[r].old = None /\ (booting # None => req'[r].booted)
      BY <1>2, <1>3, <1>6, <2>2 DEF Shaped
    <3> QED
      BY <1>1, <2>2, <3>1 DEF Seen
  <2>3. CASE on
    BY <1>1, <1>3, <1>4, <2>1, <2>3 DEF Seen
  <2> QED
    BY <2>2, <2>3
<1>11. PartSettled(r)'
  <2> SUFFICES ASSUME on, NEW tag \in Parts!Touched(r)', Made(req'[r], tag) PROVE FALSE
    BY <1>1 DEF PartSettled, Parts!Wanted
  <2>1. req'[r].step # "write" /\ (req'[r].step = "add" => req'[r].old = None)
    BY <1>3, <1>4, <1>6
  <2>2. tag # None
    BY DEF Parts!Touched
  <2> QED
    BY <1>5, <2>1, <2>2 DEF Made
<1>12. Licensed(r)'
  <2>1. Parts!Present' = Parts!Present
    BY <1>1 DEF Parts!Present
  <2>2. ~ \E o \in Parts!Busy \ {r} : o \notin Parts!Busy' \/ req'[o] # req[o]
    BY <1>3, BusyAfter DEF Parts!Busy, Others
  <2> QED
    BY <1>1, <1>2, <1>3, <1>4, <1>5, <2>1, <2>2 DEF Licensed
<1> QED
  BY <1>3, <1>7, <1>8, <1>9, <1>10, <1>11, <1>12, LocalKeeps

\* Remove and Add do to the tags of the request what it is there for.
LEMMA RemoveKeeps ==
  ASSUME Parts!NoneAssumption, EdInv, NEW r \in Requests, Parts!Remove(r)
  PROVE  EdInv'
<1> DEFINE s == IF req[r].act = "del" THEN "write" ELSE "add"
<1>1. /\ req[r].step = "remove" /\ r \in Parts!Busy /\ on
      /\ running' = [t \in Tags |-> IF t = req[r].old THEN None ELSE running[t]]
      /\ Parts!At(r, s)
      /\ UNCHANGED <<rows, used, account, lock, on, booting, doubtful, adrift>>
  BY DEF Parts!Remove, Parts!Busy
<1>2. req[r] \in Forms /\ Shaped(r) /\ Seen(r) /\ Licensed(r)
  BY <1>1, FormOf DEF EdInv, Types, ReqTypes
<1>3. ReqTypes' /\ Others(r) /\ req'[r] = [req[r] EXCEPT !.step = s]
  BY <1>1, AtIs DEF EdInv
<1>4. /\ req'[r].step = s /\ req'[r].act = req[r].act /\ req'[r].id = req[r].id
      /\ req'[r].tag = req[r].tag /\ req'[r].content = req[r].content
      /\ req'[r].license = req[r].license /\ req'[r].old = req[r].old
      /\ req'[r].snapshot = req[r].snapshot /\ req'[r].put = req[r].put
      /\ req'[r].booted = req[r].booted
  BY <1>2, <1>3 DEF Forms
<1> HIDE DEF s
<1>s. s = IF req[r].act = "del" THEN "write" ELSE "add"
  BY DEF s
<1>5. Parts!Touched(r)' = Parts!Touched(r) /\ r \in Parts!Busy' /\ Parts!InCore(r) /\ Parts!InCore(r)'
  BY <1>1, <1>4, <1>s DEF Parts!Touched, Parts!InCore, Parts!Busy
<1>6. /\ \A t \in Tags \ Parts!Touched(r) : running'[t] = running[t]
      /\ running' \in [Tags -> PartContents \union {None}]
  <2>1. \A t \in Tags : t = req[r].old => t \in Parts!Touched(r)
    BY <1>5 DEF Parts!Touched, Parts!NoneAssumption
  <2> QED
    BY <1>1, <2>1 DEF EdInv, Types, Parts!TypeOK
<1>7. Local(r)
  BY <1>1, <1>3, <1>4, <1>5, <1>6 DEF Local
<1>8. Parts!TypeOK'
  BY <1>1, <1>3, <1>5, <1>6, BusyAfter DEF EdInv, Types, Parts!TypeOK, Parts!Present
<1>9. Shaped(r)'
  BY <1>1, <1>2, <1>4, <1>s DEF Shaped
<1>10. Seen(r)'
  <2>1. Parts!Present' = Parts!Present
    BY <1>1 DEF Parts!Present
  <2> QED
    BY <1>1, <1>2, <1>4, <1>5, <2>1 DEF Seen
<1>11. PartSettled(r)'
  <2> SUFFICES ASSUME NEW tag \in Parts!Touched(r), Made(req'[r], tag)
               PROVE  running'[tag] = Effect(req'[r], tag)
    BY <1>1, <1>5 DEF PartSettled
  <2>1. tag \in Tags
    BY <1>2 DEF Parts!Touched, Forms
  <2>2. CASE req[r].act = "del"
    <3>1. req[r].old = req[r].tag
      BY <1>1, <1>2, <2>2 DEF Shaped
    <3>2. tag = req[r].old
      BY <3>1 DEF Parts!Touched
    <3> QED
      BY <1>1, <1>4, <2>1, <2>2, <3>2 DEF Effect
  <2>3. CASE req[r].act # "del"
    <3>1. tag = req[r].old /\ tag # req[r].tag
      BY <1>4, <1>s, <2>3 DEF Made
    <3> QED
      BY <1>1, <1>4, <2>1, <3>1 DEF Effect
  <2> QED
    BY <2>2, <2>3
<1>12. Licensed(r)'
  <2>1. Parts!Present' = Parts!Present
    BY <1>1 DEF Parts!Present
  <2>2. ~ \E o \in Parts!Busy \ {r} : o \notin Parts!Busy' \/ req'[o] # req[o]
    BY <1>3, BusyAfter DEF Parts!Busy, Others
  <2>3. s \notin {"remote", "put"}
    BY <1>s
  <2> QED
    BY <1>1, <1>2, <1>4, <1>5, <2>1, <2>2, <2>3 DEF Licensed
<1> QED
  BY <1>3, <1>7, <1>8, <1>9, <1>10, <1>11, <1>12, LocalKeeps

\* Adding a part keeps the invariant.
LEMMA AddKeeps ==
  ASSUME Parts!NoneAssumption, EdInv, NEW r \in Requests, Parts!Add(r)
  PROVE  EdInv'
<1>1. /\ req[r].step = "add" /\ r \in Parts!Busy /\ on
      /\ running' = [running EXCEPT ![req[r].tag] = req[r].content]
      /\ Parts!At(r, "write")
      /\ UNCHANGED <<rows, used, account, lock, on, booting, doubtful, adrift>>
  BY DEF Parts!Add, Parts!Busy
<1>2. req[r] \in Forms /\ Shaped(r) /\ Seen(r) /\ Licensed(r) /\ PartSettled(r)
  BY <1>1, FormOf DEF EdInv, Types, ReqTypes
<1>3. ReqTypes' /\ Others(r) /\ req'[r] = [req[r] EXCEPT !.step = "write"]
  BY <1>1, AtIs DEF EdInv
<1>4. /\ req'[r].step = "write" /\ req'[r].act = req[r].act /\ req'[r].id = req[r].id
      /\ req'[r].tag = req[r].tag /\ req'[r].content = req[r].content
      /\ req'[r].license = req[r].license /\ req'[r].old = req[r].old
      /\ req'[r].snapshot = req[r].snapshot /\ req'[r].put = req[r].put
      /\ req'[r].booted = req[r].booted
  BY <1>2, <1>3 DEF Forms
<1>5. Parts!Touched(r)' = Parts!Touched(r) /\ r \in Parts!Busy' /\ Parts!InCore(r) /\ Parts!InCore(r)'
  BY <1>1, <1>4 DEF Parts!Touched, Parts!InCore, Parts!Busy
<1>6. /\ req[r].tag \in Tags /\ req[r].content \in PartContents /\ req[r].act # "del"
      /\ running \in [Tags -> PartContents \union {None}]
  BY <1>1, <1>2 DEF Shaped, Forms, EdInv, Types, Parts!TypeOK
<1>7. /\ running' \in [Tags -> PartContents \union {None}] /\ running'[req[r].tag] = req[r].content
      /\ \A t \in Tags \ {req[r].tag} : running'[t] = running[t]
  BY <1>1, <1>6
<1>8. \A t \in Tags \ Parts!Touched(r) : running'[t] = running[t]
  <2>1. req[r].tag \in Parts!Touched(r)
    BY <1>5, <1>6 DEF Parts!Touched, Parts!NoneAssumption
  <2> QED
    BY <1>7, <2>1
<1>9. Local(r)
  BY <1>1, <1>3, <1>4, <1>5, <1>8 DEF Local
<1>10. Parts!TypeOK'
  BY <1>1, <1>3, <1>5, <1>7, BusyAfter DEF EdInv, Types, Parts!TypeOK, Parts!Present
<1>11. Shaped(r)'
  BY <1>1, <1>2, <1>4 DEF Shaped
<1>12. Seen(r)'
  <2>1. Parts!Present' = Parts!Present
    BY <1>1 DEF Parts!Present
  <2> QED
    BY <1>1, <1>2, <1>4, <1>5, <2>1 DEF Seen
<1>13. PartSettled(r)'
  <2> SUFFICES ASSUME req[r].snapshot # "old", NEW tag \in Parts!Touched(r), tag \notin doubtful,
                      Unshared(r, tag)'
               PROVE  running'[tag] = Effect(req'[r], tag)
                        \/ (req[r].booted /\ running'[tag] = Parts!Wanted(rows', tag))
    BY <1>1, <1>4, <1>5 DEF PartSettled
  <2>1. tag \in Tags
    BY <1>2 DEF Parts!Touched, Forms
  <2>2. Unshared(r, tag)
    BY <1>3, TouchedSame DEF Unshared, Others
  <2>3. CASE tag = req[r].tag
    BY <1>4, <1>6, <1>7, <2>3 DEF Effect
  <2>4. CASE tag # req[r].tag
    <3>1. Made(req[r], tag)
      BY <1>1, <2>4 DEF Made, Parts!Touched
    <3>2. running[tag] = Effect(req[r], tag) \/ (req[r].booted /\ running[tag] = Parts!Wanted(rows, tag))
      BY <1>1, <1>2, <2>2, <3>1 DEF PartSettled
    <3>3. Effect(req'[r], tag) = Effect(req[r], tag)
      BY <1>4 DEF Effect
    <3> QED
      BY <1>1, <1>7, <2>1, <2>4, <3>2, <3>3
  <2> QED
    BY <2>3, <2>4
<1>14. Licensed(r)'
  <2>1. Parts!Present' = Parts!Present
    BY <1>1 DEF Parts!Present
  <2>2. ~ \E o \in Parts!Busy \ {r} : o \notin Parts!Busy' \/ req'[o] # req[o]
    BY <1>3, BusyAfter DEF Parts!Busy, Others
  <2> QED
    BY <1>1, <1>2, <1>4, <1>5, <2>1, <2>2 DEF Licensed
<1> QED
  BY <1>3, <1>9, <1>10, <1>11, <1>12, <1>13, <1>14, LocalKeeps

\* Writing keeps the invariant.
LEMMA WritePartKeeps ==
  ASSUME Parts!NoneAssumption, EdInv, NEW r \in Requests, Parts!Write(r)
  PROVE  EdInv'
<1>1. /\ req[r].step = "write" /\ r \in Parts!Busy /\ lock = None /\ lock' = r
      /\ req[r].snapshot # "old" /\ ~ Parts!Taken(req[r]) /\ Parts!At(r, "commit")
      /\ UNCHANGED <<rows, used, account, running, on, booting, doubtful, adrift>>
  BY DEF Parts!Write, Parts!Busy
<1>2. req[r] \in Forms /\ Shaped(r) /\ Seen(r) /\ Licensed(r) /\ PartSettled(r)
  BY <1>1, FormOf DEF EdInv, Types, ReqTypes
<1>3. ReqTypes' /\ Others(r) /\ req'[r] = [req[r] EXCEPT !.step = "commit"]
  BY <1>1, AtIs DEF EdInv
<1>4. /\ req'[r].step = "commit" /\ req'[r].act = req[r].act /\ req'[r].id = req[r].id
      /\ req'[r].tag = req[r].tag /\ req'[r].content = req[r].content
      /\ req'[r].license = req[r].license /\ req'[r].old = req[r].old
      /\ req'[r].snapshot = req[r].snapshot /\ req'[r].put = req[r].put
      /\ req'[r].booted = req[r].booted
  BY <1>2, <1>3 DEF Forms
<1>5. Parts!Touched(r)' = Parts!Touched(r) /\ r \in Parts!Busy' /\ Parts!InCore(r) /\ Parts!InCore(r)'
  BY <1>1, <1>4 DEF Parts!Touched, Parts!InCore, Parts!Busy
<1>6. Local(r)
  BY <1>1, <1>3, <1>4, <1>5 DEF Local
<1>7. Parts!TypeOK'
  BY <1>1, <1>3, <1>5, BusyAfter DEF EdInv, Types, Parts!TypeOK, Parts!Present
<1>8. Shaped(r)'
  <2>1. ~ Parts!Taken(req[r])'
    BY <1>1, <1>4 DEF Parts!Taken, Parts!Present
  <2> QED
    BY <1>1, <1>2, <1>4, <2>1 DEF Shaped
<1>9. Seen(r)'
  <2>1. Parts!Present' = Parts!Present
    BY <1>1 DEF Parts!Present
  <2> QED
    BY <1>1, <1>2, <1>4, <1>5, <2>1 DEF Seen
<1>10. PartSettled(r)'
  <2> SUFFICES ASSUME on, req[r].snapshot # "old", NEW tag \in Parts!Touched(r),
                      tag \notin doubtful,
                      Unshared(r, tag)'
               PROVE  running[tag] = Effect(req'[r], tag)
                        \/ (req[r].booted /\ running[tag] = Parts!Wanted(rows', tag))
    BY <1>1, <1>4, <1>5 DEF PartSettled
  <2>1. Unshared(r, tag) /\ Made(req[r], tag)
    BY <1>1, <1>3, TouchedSame DEF Unshared, Others, Made
  <2>2. Effect(req'[r], tag) = Effect(req[r], tag)
    BY <1>4 DEF Effect
  <2> QED
    BY <1>1, <1>2, <2>1, <2>2 DEF PartSettled
<1>11. Licensed(r)'
  <2>1. Parts!Present' = Parts!Present
    BY <1>1 DEF Parts!Present
  <2>2. ~ \E o \in Parts!Busy \ {r} : o \notin Parts!Busy' \/ req'[o] # req[o]
    BY <1>3, BusyAfter DEF Parts!Busy, Others
  <2> QED
    BY <1>1, <1>2, <1>4, <1>5, <2>1, <2>2 DEF Licensed
<1> QED
  BY <1>3, <1>6, <1>7, <1>8, <1>9, <1>10, <1>11, LocalKeeps

\* A request that fails leaves the core and the account as they are, and the history says so.
LEMMA FailPartKeeps ==
  ASSUME Parts!NoneAssumption, EdInv, NEW r \in Requests, Parts!Fail(r)
  PROVE  EdInv'
<1>1. /\ doubtful' = doubtful \union Parts!Touched(r)
      /\ adrift' = IF req[r].put THEN adrift \union {req[r].id} ELSE adrift
      /\ req' = [req EXCEPT ![r] = Parts!Idle]
      /\ lock' = IF lock = r THEN None ELSE lock
      /\ UNCHANGED <<rows, used, account, running, on, booting>>
      /\ r \in Parts!Busy
  BY DEF Parts!Fail, Parts!Refused, Parts!Busy
<1>2. ReqTypes' /\ Others(r) /\ req'[r] = Parts!Idle /\ Parts!Busy' = Parts!Busy \ {r}
  BY <1>1, EndIs DEF EdInv
<1>3. req[r] \in Forms /\ Shaped(r)
  BY <1>1, FormOf DEF EdInv, Types, ReqTypes
<1>4. Local(r)
  BY <1>1, <1>2 DEF Local
<1>5. Parts!Touched(r) \subseteq Tags
  BY <1>3 DEF Parts!Touched, Forms
<1>6. adrift' \subseteq used
  <2>1. req[r].put => req[r].id \in used
    BY <1>3 DEF Shaped, Forms
  <2> QED
    BY <1>1, <2>1 DEF EdInv, Types, Parts!TypeOK
<1>7. Parts!TypeOK'
  BY <1>1, <1>2, <1>5, <1>6 DEF EdInv, Types, Parts!TypeOK, Parts!Present
<1> QED
  BY <1>2, <1>4, <1>7, LocalKeeps

-----------------------------------------------------------------------------
(* What a commit makes of the table. *)

UniqueParts(t) == \A i, j \in Ids : t[i] # None /\ t[j] # None /\ t[i].tag = t[j].tag => i = j

\* Tags are unique, so what is wanted at the tag of a row is its content.
LEMMA PartWantedIs ==
  ASSUME NEW t, UniqueParts(t), NEW j \in Ids, t[j] # None
  PROVE  Parts!Wanted(t, t[j].tag) = t[j].content
<1>1. (CHOOSE i \in Ids : t[i] # None /\ t[i].tag = t[j].tag) = j
  BY DEF UniqueParts
<1> QED
  BY <1>1 DEF Parts!Wanted

\* A tag no row has is not wanted.
LEMMA PartWantedNone ==
  ASSUME NEW t, NEW tag, \A j \in Ids : t[j] # None => t[j].tag # tag
  PROVE  Parts!Wanted(t, tag) = None
BY DEF Parts!Wanted

\* Rows with the same tag and content want the same.
LEMMA PartWantedSame ==
  ASSUME NEW t, NEW u, UniqueParts(t), UniqueParts(u), NEW tag,
         \A j \in Ids : (t[j] # None /\ t[j].tag = tag) \/ (u[j] # None /\ u[j].tag = tag)
                          => t[j] = u[j]
  PROVE  Parts!Wanted(t, tag) = Parts!Wanted(u, tag)
<1>1. CASE \E j \in Ids : t[j] # None /\ t[j].tag = tag
  <2>1. PICK j \in Ids : t[j] # None /\ t[j].tag = tag
    BY <1>1
  <2> QED
    BY <2>1, PartWantedIs
<1>2. CASE \A j \in Ids : t[j] # None => t[j].tag # tag
  <2>1. \A j \in Ids : u[j] # None => u[j].tag # tag
    BY <1>2
  <2> QED
    BY <1>2, <2>1, PartWantedNone
<1> QED
  BY <1>1, <1>2

PartRows == [tag : Tags, content : PartContents, license : Licenses \union {None}]

\* A new or an edited row takes its tag, and leaves the one it had.
LEMMA PutTable ==
  ASSUME NEW t, UniqueParts(t), NEW i \in Ids, NEW row, row # None,
         \A j \in Ids \ {i} : t[j] # None => t[j].tag # row.tag,
         NEW u, u[i] = row, \A j \in Ids \ {i} : u[j] = t[j]
  PROVE  /\ UniqueParts(u)
         /\ Parts!Wanted(u, row.tag) = row.content
         /\ \A tag : tag # row.tag =>
              Parts!Wanted(u, tag) = IF t[i] # None /\ t[i].tag = tag THEN None ELSE Parts!Wanted(t, tag)
<1>1. UniqueParts(u)
  BY DEF UniqueParts
<1>2. Parts!Wanted(u, row.tag) = row.content
  BY <1>1, PartWantedIs
<1>3. ASSUME NEW tag, tag # row.tag
      PROVE  Parts!Wanted(u,
         tag) = IF t[i] # None /\ t[i].tag = tag THEN None ELSE Parts!Wanted(t, tag)
  <2>1. CASE t[i] # None /\ t[i].tag = tag
    <3>1. \A j \in Ids : u[j] # None => u[j].tag # tag
      BY <1>3, <2>1 DEF UniqueParts
    <3> QED
      BY <2>1, <3>1, PartWantedNone
  <2>2. CASE ~ (t[i] # None /\ t[i].tag = tag)
    <3>1. \A j \in Ids : (u[j] # None /\ u[j].tag = tag) \/ (t[j] # None /\ t[j].tag = tag)
                           => u[j] = t[j]
      BY <1>3, <2>2
    <3>2. Parts!Wanted(u, tag) = Parts!Wanted(t, tag)
      BY <1>1, <3>1, PartWantedSame
    <3> QED
      BY <2>2, <3>2
  <2> QED
    BY <2>1, <2>2
<1> QED
  BY <1>1, <1>2, <1>3

\* A row that is deleted leaves its tag.
LEMMA DeleteTable ==
  ASSUME NEW t, UniqueParts(t), NEW gone,
         NEW u, \A j \in Ids : u[j] = IF t[j] # None /\ t[j].tag = gone THEN None ELSE t[j]
  PROVE  /\ UniqueParts(u)
         /\ Parts!Wanted(u, gone) = None
         /\ \A tag : tag # gone => Parts!Wanted(u, tag) = Parts!Wanted(t, tag)
<1>1. \A j \in Ids : u[j] # None => u[j] = t[j] /\ t[j].tag # gone
  OBVIOUS
<1>2. UniqueParts(u)
  BY <1>1 DEF UniqueParts
<1>3. Parts!Wanted(u, gone) = None
  BY <1>1, PartWantedNone
<1>4. ASSUME NEW tag, tag # gone PROVE Parts!Wanted(u, tag) = Parts!Wanted(t, tag)
  <2>1. \A j \in Ids : (u[j] # None /\ u[j].tag = tag) \/ (t[j] # None /\ t[j].tag = tag)
                         => u[j] = t[j]
    BY <1>1, <1>4
  <2> QED
    BY <1>2, <2>1, PartWantedSame
<1> QED
  BY <1>2, <1>3, <1>4

\* The request that commits: its form and its row.
Committing(r, i) ==
  /\ r \in Parts!Busy /\ req[r] \in Forms /\ req[r].step = "commit" /\ lock = r
  /\ req[r].snapshot # "old" /\ ~ Parts!Taken(req[r])
  /\ i \in Parts!Row(req[r])
  /\ rows' = Parts!After(req[r], i)

\* What it then wants in the core: at its tag what its form says, at the tag the row had
\* nothing, and elsewhere what was wanted before.
Wants(r, i) ==
  LET q == req[r] IN
  /\ q.act # "del" =>
       /\ Parts!Wanted(rows', q.tag) = q.content
       /\ \A tag : tag # q.tag /\ i \in Parts!Present /\ rows[i].tag = tag => Parts!Wanted(rows', tag) = None
       /\ \A tag : tag # q.tag /\ ~ (i \in Parts!Present /\ rows[i].tag = tag) =>
            Parts!Wanted(rows', tag) = Parts!Wanted(rows, tag)
  /\ q.act = "del" =>
       /\ Parts!Wanted(rows', q.tag) = None
       /\ \A tag : tag # q.tag => Parts!Wanted(rows', tag) = Parts!Wanted(rows, tag)

\* The table after a commit, and what it wants.
LEMMA CommitPartTable ==
  ASSUME Parts!NoneAssumption, EdInv, NEW r, NEW i, Committing(r, i)
  PROVE  /\ rows' \in [Ids -> PartRows \union {None}] /\ UniqueParts(rows')
         /\ req[r].act # "del" =>
              /\ i \in Ids
              /\ rows'[i] = [tag |-> req[r].tag, content |-> req[r].content,
                             license |-> req[r].license]
              /\ \A j \in Ids \ {i} : rows'[j] = rows[j]
         /\ req[r].act = "del" => \A j \in Ids : rows'[j] # None => rows'[j] = rows[j]
         /\ Wants(r, i)
<1>1. rows \in [Ids -> PartRows \union {None}] /\ UniqueParts(rows) /\ Shaped(r)
  BY DEF EdInv, Types, Parts!TypeOK, PartRows, UniqueParts, Parts!Present, Committing
<1>2. CASE req[r].act = "del"
  <2>1. rows' = [j \in Ids |-> IF rows[j] # None /\ rows[j].tag = req[r].tag THEN None ELSE rows[j]]
    BY <1>2 DEF Committing, Parts!After
  <2>2. rows' \in [Ids -> PartRows \union {None}]
        /\ \A j \in Ids : rows'[j] # None => rows'[j] = rows[j]
    BY <1>1, <2>1
  <2>3. \A j \in Ids :
          rows'[j] = IF rows[j] # None /\ rows[j].tag = req[r].tag THEN None ELSE rows[j]
    BY <2>1
  <2>4. /\ UniqueParts(rows') /\ Parts!Wanted(rows', req[r].tag) = None
        /\ \A tag : tag # req[r].tag => Parts!Wanted(rows', tag) = Parts!Wanted(rows, tag)
    BY <1>1, <2>3, DeleteTable
  <2>5. Wants(r, i)
    BY <1>2, <2>4 DEF Wants
  <2> QED
    BY <1>1, <1>2, <2>2, <2>4, <2>5
<1>3. CASE req[r].act # "del"
  <2> DEFINE row == [tag |-> req[r].tag, content |-> req[r].content, license |-> req[r].license]
  <2>1. rows' = [rows EXCEPT ![i] = row]
    BY <1>3 DEF Committing, Parts!After
  <2>2. req[r].act \in {"new", "edit"}
    BY <1>3 DEF Committing, Forms
  <2>3. row \in PartRows /\ row.tag = req[r].tag /\ row.content = req[r].content
    BY <1>1, <2>2 DEF Shaped, PartRows, Committing, Forms
  <2>4. i \in Ids
    BY <1>1, <2>2 DEF Shaped, Committing, Parts!Row, EdInv, Types, Parts!TypeOK
  <2>5. \A j \in Ids \ {i} : rows[j] # None => rows[j].tag # req[r].tag
    BY <1>1, <1>3, <2>2 DEF Shaped, Committing, Parts!Taken, Parts!Present, Parts!Row,
       Parts!NoneAssumption
  <2>6. i \in Parts!Present <=> rows[i] # None
    BY <2>4 DEF Parts!Present
  <2>8. row # None
    BY <2>3 DEF PartRows, Parts!NoneAssumption
  <2> HIDE DEF row
  <2>9. /\ rows' \in [Ids -> PartRows \union {None}]
        /\ rows'[i] = row /\ \A j \in Ids \ {i} : rows'[j] = rows[j]
    BY <1>1, <2>1, <2>3, <2>4
  <2>10. \A j \in Ids \ {i} : rows[j] # None => rows[j].tag # row.tag
    BY <2>3, <2>5
  <2>7. /\ UniqueParts(rows')
        /\ Parts!Wanted(rows', row.tag) = row.content
        /\ \A tag : tag # row.tag =>
              Parts!Wanted(rows', tag) = IF rows[i] # None /\ rows[i].tag = tag THEN None
                                         ELSE Parts!Wanted(rows, tag)
    BY <1>1, <2>4, <2>8, <2>9, <2>10, PutTable
  <2>11. Wants(r, i)
    BY <1>3, <2>3, <2>6, <2>7 DEF Wants
  <2> QED
    BY <1>3, <2>4, <2>7, <2>9, <2>11 DEF row
<1> QED
  BY <1>2, <1>3

\* A commit changes what is wanted at the tags of its request only, and there it wants what
\* the request has made of the core: except at the tags it makes suspect.
LEMMA CommitSound ==
  ASSUME Parts!NoneAssumption, EdInv, NEW r, NEW i, Committing(r, i), on \/ booting # None,
         NEW tag \in Tags, tag \notin Parts!Missed(r, rows'), tag \notin Parts!Touched(r)
  PROVE  Parts!Wanted(rows', tag) = Parts!Wanted(rows, tag)
<1>a. Wants(r, i)
  BY CommitPartTable
<1>1. Shaped(r) /\ Seen(r) /\ Parts!InCore(r) /\ req[r].act \in {"new", "edit", "del"}
      /\ req[r].tag \in Tags
  BY DEF EdInv, Committing, Parts!InCore, Forms
<1>2. tag # req[r].tag /\ (req[r].old # None => tag # req[r].old)
  BY <1>1 DEF Parts!Touched, Parts!NoneAssumption
<1>3. CASE req[r].act = "del"
  BY <1>2, <1>3, <1>a DEF Wants
<1>4. CASE req[r].act = "new"
  <2>1. i \notin Parts!Present
    BY <1>4 DEF Committing, Parts!Row, EdInv, Types, Parts!TypeOK
  <2> QED
    BY <1>2, <1>4, <2>1, <1>a DEF Wants
<1>5. CASE req[r].act = "edit"
  <2>1. CASE req[r].booted
    BY <2>1 DEF Parts!Missed
  <2>2. CASE ~ req[r].booted
    <3>1. i = req[r].id
      BY <1>5 DEF Committing, Parts!Row
    <3>2. req[r].old = IF i \in Parts!Present THEN rows[i].tag ELSE None
      BY <1>1, <1>5, <2>2, <3>1 DEF Seen, Committing
    <3>3. i \in Parts!Present => rows[i].tag # None
      BY DEF EdInv, Types, Parts!TypeOK, Parts!Present, Parts!NoneAssumption
    <3>4. ~ (i \in Parts!Present /\ rows[i].tag = tag)
      BY <1>2, <3>2, <3>3
    <3> QED
      BY <1>a, <1>2, <1>5, <3>4 DEF Wants
  <2> QED
    BY <2>1, <2>2
<1> QED
  BY <1>1, <1>3, <1>4, <1>5

\* A request that commits has left in the core what the table now wants.
LEMMA CommitSettles ==
  ASSUME Parts!NoneAssumption, EdInv, NEW r, NEW i, Committing(r, i), on,
           NEW tag \in Parts!Touched(r)
  PROVE  Parts!Wanted(rows', tag) = Effect(req[r], tag)
<1>a. Wants(r, i)
  BY CommitPartTable
<1>1. Shaped(r) /\ Seen(r) /\ Parts!InCore(r) /\ req[r].act \in {"new", "edit", "del"}
  BY DEF EdInv, Committing, Parts!InCore, Forms
<1>2. tag \in {req[r].tag, req[r].old} /\ tag # None
  BY DEF Parts!Touched
<1>3. CASE tag = req[r].tag
  BY <1>a, <1>3 DEF Effect, Wants
<1>4. CASE tag # req[r].tag
  <2>1. req[r].act = "edit" /\ tag = req[r].old
    BY <1>1, <1>2, <1>4 DEF Shaped
  <2>2. i = req[r].id
    BY <2>1 DEF Committing, Parts!Row
  <2>3. i \in Parts!Present /\ rows[i].tag = tag
    BY <1>1, <1>2, <2>1, <2>2 DEF Seen, Committing
  <2> QED
    BY <1>a, <1>4, <2>1, <2>3 DEF Effect, Wants
<1> QED
  BY <1>3, <1>4

-----------------------------------------------------------------------------
(* A commit, of a request or of somebody else. *)

\* What a commit does to another request: its snapshot is old, if it has one.
Passed(o) ==
  /\ req'[o] \in Forms
  /\ req'[o].step = req[o].step /\ req'[o].act = req[o].act /\ req'[o].id = req[o].id
  /\ req'[o].tag = req[o].tag /\ req'[o].content = req[o].content
  /\ req'[o].license = req[o].license /\ req'[o].old = req[o].old
  /\ req'[o].put = req[o].put /\ req'[o].booted = req[o].booted
  /\ req'[o].snapshot = "old" \/ (req'[o].snapshot = "none" /\ req[o].snapshot = "none")

\* A request another one has passed: its form and its tags.
LEMMA PassedIs ==
  ASSUME EdInv, NEW o \in Parts!Busy, req'[o] = Parts!Outdated[o]
  PROVE  Passed(o) /\ Parts!Touched(o)' = Parts!Touched(o) /\ Parts!InCore(o)' = Parts!InCore(o)
<1>1. req[o] \in Forms /\ req[o].snapshot \in {"none", "fresh", "old"}
  BY FormOf DEF EdInv, Types, ReqTypes, Forms
<1>2. Parts!Outdated \in [Requests -> Forms \union {Parts!Idle}]
      /\ Parts!Outdated[o] = IF req[o].snapshot = "fresh" THEN [req[o] EXCEPT !.snapshot = "old"]
                                                          ELSE req[o]
  BY OutdatedIs DEF EdInv
<1>3. CASE req[o].snapshot = "fresh"
  <2>1. req'[o] = [req[o] EXCEPT !.snapshot = "old"]
    BY <1>2, <1>3
  <2>2. req'[o] \in Forms
    BY <1>1, <2>1 DEF Forms
  <2>3. Passed(o)
    BY <1>1, <2>1, <2>2 DEF Forms, Passed
  <2> QED
    BY <2>3 DEF Passed, Parts!Touched, Parts!InCore
<1>4. CASE req[o].snapshot # "fresh"
  <2>1. req'[o] = req[o]
    BY <1>2, <1>4
  <2> QED
    BY <1>1, <1>4, <2>1, TouchedSame DEF Passed
<1> QED
  BY <1>3, <1>4

\* A request that another one's commit has passed: only without a snapshot can it go on, and
\* then no tag of it that is not suspect has been touched by the other one.
LEMMA PassedKeeps ==
  ASSUME Parts!NoneAssumption, EdInv, NEW o \in Parts!Busy, Passed(o),
           Parts!Touched(o)' = Parts!Touched(o),
         Parts!InCore(o)' = Parts!InCore(o), UNCHANGED <<running, on, booting>>,
         lock # o, lock' # o,
         used \subseteq used', \A i \in used : account'[i] = account[i],
         doubtful \subseteq doubtful',
         \A tag \in Parts!Touched(o) :
           on /\ tag \notin doubtful' /\ req[o].snapshot = "none" /\ Unshared(o, tag)' =>
             /\ Unshared(o, tag)
             /\ Parts!Wanted(rows', tag) = Parts!Wanted(rows, tag)
  PROVE  (Shaped(o) /\ Seen(o) /\ PartSettled(o) /\ Licensed(o))'
<1>1. Shaped(o) /\ Seen(o) /\ PartSettled(o) /\ Licensed(o)
  BY DEF EdInv
<1>2. req[o].step # "commit"
  BY <1>1 DEF Shaped
<1>3. Shaped(o)'
  BY <1>1, <1>2 DEF Shaped, Passed
<1>4. Seen(o)'
  BY <1>1 DEF Seen, Passed
<1>5. PartSettled(o)'
  <2> SUFFICES ASSUME on, req'[o].snapshot # "old", NEW tag \in Parts!Touched(o),
                      tag \notin doubtful',
                      Unshared(o, tag)', Made(req'[o], tag)
               PROVE  running[tag] = Effect(req'[o], tag)
                        \/ (req'[o].booted /\ running[tag] = Parts!Wanted(rows', tag))
    BY DEF PartSettled
  <2>1. req[o].snapshot = "none" /\ tag \notin doubtful
    BY DEF Passed
  <2>2. Unshared(o, tag) /\ Parts!Wanted(rows', tag) = Parts!Wanted(rows, tag)
    BY <2>1
  <2>3. Made(req[o], tag) /\ Effect(req'[o], tag) = Effect(req[o], tag)
        /\ req'[o].booted = req[o].booted
    BY DEF Made, Effect, Passed
  <2>4. running[tag] = Effect(req[o], tag) \/ (req[o].booted /\ running[tag] = Parts!Wanted(rows, tag))
    BY <1>1, <2>1, <2>2, <2>3 DEF PartSettled
  <2> QED
    BY <2>2, <2>3, <2>4
<1>6. Licensed(o)'
  BY <1>1 DEF Licensed, Shaped, Passed
<1> QED
  BY <1>3, <1>4, <1>5, <1>6

\* A commit of another editor keeps the invariant.
LEMMA OtherCommitKeeps ==
  ASSUME Parts!NoneAssumption, EdInv, Parts!OtherCommit
  PROVE  EdInv'
<1>1. lock = None /\ req' = Parts!Outdated
      /\ UNCHANGED <<rows, used, account, lock, running, on, booting, doubtful, adrift>>
  BY DEF Parts!OtherCommit
<1>2. ReqTypes' /\ Parts!Busy' = Parts!Busy
  <2>1. ReqTypes'
    BY <1>1, OutdatedIs DEF EdInv, ReqTypes
  <2>2. \A o \in Requests : o \notin Parts!Busy => o \notin Parts!Busy'
    BY <1>1, OutdatedIs DEF Parts!Busy, EdInv
  <2>3. \A o \in Parts!Busy : o \in Parts!Busy'
    BY <1>1, PassedIs DEF Parts!Busy, Passed
  <2> QED
    BY <2>1, <2>2, <2>3 DEF Parts!Busy
<1>3. \A o \in Parts!Busy : Passed(o) /\ Parts!Touched(o)' = Parts!Touched(o) /\ Parts!InCore(o)' = Parts!InCore(o)
  BY <1>1, PassedIs
<1>4. \A o \in Requests : Parts!Touched(o)' = Parts!Touched(o)
  <2>1. ASSUME NEW o \in Requests, o \notin Parts!Busy PROVE Parts!Touched(o)' = Parts!Touched(o)
    BY <1>1, <2>1, OutdatedIs, TouchedSame DEF EdInv
  <2> QED
    BY <1>3, <2>1
<1>5. Parts!InFlight' = Parts!InFlight
  BY <1>4 DEF Parts!InFlight
<1>6. Types'
  BY <1>1, <1>2 DEF EdInv, Types, Parts!TypeOK, ReqTypes, Parts!Present
<1>7. ASSUME NEW o \in Parts!Busy' PROVE (Shaped(o) /\ Seen(o) /\ PartSettled(o) /\ Licensed(o))'
  <2>1. o \in Parts!Busy /\ o # None
    BY <1>2, <1>7 DEF Parts!Busy, Parts!NoneAssumption
  <2>2. \A tag : Unshared(o, tag)' => Unshared(o, tag)
    BY <1>4 DEF Unshared
  <2> QED
    BY <1>1, <1>3, <2>1, <2>2, PassedKeeps
<1>8. BootRead' /\ Parts!PartsFollow'
  BY <1>1, <1>5 DEF EdInv, BootRead, Parts!PartsFollow
<1>9. Parts!LicenseFollows'
  BY <1>1, <1>2, <1>3 DEF EdInv, Parts!LicenseFollows, Passed, Parts!Present
<1> QED
  BY <1>6, <1>7, <1>8, <1>9 DEF EdInv

\* A commit keeps the invariant.
LEMMA CommitKeeps ==
  ASSUME Parts!NoneAssumption, EdInv, NEW r \in Requests, Parts!Commit(r)
  PROVE  EdInv'
<1>1. PICK i \in Parts!Row(req[r]) :
        /\ rows' = Parts!After(req[r], i)
        /\ used' = IF req[r].act = "del" THEN used ELSE used \union {i}
        /\ account' = IF req[r].act = "new" THEN [account EXCEPT ![i] = req[r].license] ELSE account
        /\ doubtful' = doubtful \union Parts!Unordered(r) \union Parts!Missed(r, Parts!After(req[r], i))
  BY DEF Parts!Commit
<1>2. /\ req[r].step = "commit" /\ r \in Parts!Busy /\ lock' = None
      /\ req' = [Parts!Outdated EXCEPT ![r] = Parts!Idle]
      /\ UNCHANGED <<running, on, booting, adrift>>
  BY DEF Parts!Commit, Parts!Busy
<1>3. req[r] \in Forms /\ Shaped(r) /\ Seen(r) /\ PartSettled(r) /\ Licensed(r)
  BY <1>2, FormOf DEF EdInv, Types, ReqTypes
<1>4. Committing(r, i)
  BY <1>1, <1>2, <1>3 DEF Committing, Shaped
<1>5. /\ ReqTypes' /\ req'[r] = Parts!Idle /\ \A o \in Requests \ {r} : req'[o] = Parts!Outdated[o]
  BY <1>2, OutdatedIs DEF EdInv, ReqTypes
<1>6. \A o \in Parts!Busy \ {r} : Passed(o) /\ Parts!Touched(o)' = Parts!Touched(o) /\ Parts!InCore(o)' = Parts!InCore(o)
  BY <1>5, PassedIs DEF Parts!Busy
<1>7. \A o \in Requests \ {r} : Parts!Touched(o)' = Parts!Touched(o)
  <2>1. ASSUME NEW o \in Requests \ {r},
               o \notin Parts!Busy PROVE Parts!Touched(o)' = Parts!Touched(o)
    BY <1>5, <2>1, OutdatedIs, TouchedSame DEF EdInv
  <2> QED
    BY <1>6, <2>1
<1>8. Parts!Busy' = Parts!Busy \ {r} /\ Parts!Touched(r)' = {}
  <2>1. \A o \in Requests : o \notin Parts!Busy => o \notin Parts!Busy'
    BY <1>2, <1>5, OutdatedIs DEF Parts!Busy, EdInv
  <2>2. \A o \in Parts!Busy \ {r} : o \in Parts!Busy'
    BY <1>6 DEF Parts!Busy, Passed
  <2>3. r \notin Parts!Busy' /\ Parts!Touched(r)' = {}
    BY <1>5 DEF Parts!Busy, Parts!Idle, Parts!Touched, Parts!InCore
  <2> QED
    BY <2>1, <2>2, <2>3 DEF Parts!Busy
<1>9. doubtful \subseteq doubtful' /\ Parts!Unordered(r) \subseteq doubtful'
      /\ Parts!Missed(r, rows') \subseteq doubtful'
  BY <1>1
<1>10. Parts!Touched(r) \subseteq Tags /\ (req[r].act # "del" => i \in Ids)
  <2>1. req[r].act # "del" => i \in Ids
    BY <1>1, <1>3 DEF Parts!Row, Shaped, Forms, EdInv, Types, Parts!TypeOK
  <2> QED
    BY <1>3, <2>1 DEF Parts!Touched, Forms
<1>11. /\ account' \in [Ids -> Licenses \union {None}]
       /\ \A j \in Ids \ {i} : account'[j] = account[j]
       /\ req[r].act = "new" => account'[i] = req[r].license /\ i \notin used
       /\ req[r].act # "new" => account' = account
       /\ used \subseteq used' /\ used' \subseteq Ids
       /\ \A j \in used : account'[j] = account[j]
  <2>1. account \in [Ids -> Licenses \union {None}] /\ used \subseteq Ids
        /\ req[r].license \in Licenses \union {None}
    BY <1>3 DEF EdInv, Types, Parts!TypeOK, Forms
  <2>2. req[r].act = "new" => i \notin used
    BY <1>1 DEF Parts!Row
  <2> QED
    BY <1>1, <1>10, <2>1, <2>2
<1>12. /\ rows' \in [Ids -> PartRows \union {None}] /\ UniqueParts(rows')
       /\ req[r].act # "del" =>
            /\ rows'[i] = [tag |-> req[r].tag, content |-> req[r].content,
                           license |-> req[r].license]
            /\ \A j \in Ids \ {i} : rows'[j] = rows[j]
       /\ req[r].act = "del" => \A j \in Ids : rows'[j] # None => rows'[j] = rows[j]
  BY <1>4, CommitPartTable
<1>13. Types'
  <2>1. Parts!Present' \subseteq used'
    <3> SUFFICES ASSUME NEW j \in Ids, rows'[j] # None PROVE j \in used'
      BY DEF Parts!Present
    <3>1. CASE req[r].act = "del"
      BY <1>11, <1>12, <3>1 DEF EdInv, Types, Parts!TypeOK, Parts!Present
    <3>2. CASE req[r].act # "del"
      BY <1>1, <1>11, <1>12, <3>2 DEF EdInv, Types, Parts!TypeOK, Parts!Present
    <3> QED
      BY <3>1, <3>2
  <2>2. doubtful' \subseteq Tags
    <3>1. Parts!Unordered(r) \subseteq Tags /\ Parts!Missed(r, Parts!After(req[r], i)) \subseteq Tags
      BY <1>10 DEF Parts!Unordered, Parts!Missed
    <3> QED
      BY <1>1, <3>1 DEF EdInv, Types, Parts!TypeOK
  <2>3. Parts!TypeOK'
    BY <1>2, <1>8, <1>11, <1>12, <2>1, <2>2 DEF EdInv, Types, Parts!TypeOK, PartRows
  <2>4. \A j, k \in Parts!Present' : rows'[j].tag = rows'[k].tag => j = k
    BY <1>12 DEF UniqueParts, Parts!Present
  <2> QED
    BY <1>2, <1>5, <2>3, <2>4 DEF EdInv, Types, ReqTypes
<1>14. ASSUME NEW tag \in Tags, tag \notin doubtful', tag \notin Parts!Touched(r),
              on \/ booting # None
       PROVE  Parts!Wanted(rows', tag) = Parts!Wanted(rows, tag)
  BY <1>4, <1>9, <1>14, CommitSound
<1>15. ASSUME NEW o \in Parts!Busy' PROVE (Shaped(o) /\ Seen(o) /\ PartSettled(o) /\ Licensed(o))'
  <2>1. o \in Parts!Busy /\ o # r /\ o # None /\ lock = r /\ o \in Requests
    BY <1>2, <1>3, <1>8, <1>15 DEF Parts!Busy, Parts!NoneAssumption, Shaped
  <2>2. ASSUME NEW tag \in Parts!Touched(o), on, tag \notin doubtful', req[o].snapshot = "none",
               Unshared(o, tag)'
        PROVE  Unshared(o, tag) /\ Parts!Wanted(rows', tag) = Parts!Wanted(rows, tag)
    <3>1. tag \notin Parts!Touched(r)
      <4>1. o \in {q \in Parts!Busy \ {r} : req[q].snapshot = "none"}
        BY <2>1, <2>2
      <4>2. tag \in UNION {Parts!Touched(q) : q \in {q \in Parts!Busy \ {r} : req[q].snapshot = "none"}}
        BY <2>2, <4>1
      <4>3. tag \in Parts!Touched(r) => tag \in Parts!Unordered(r)
        BY <4>2 DEF Parts!Unordered
      <4> QED
        BY <1>9, <2>2, <4>3
    <3>2. Unshared(o, tag)
      BY <1>7, <2>2, <3>1 DEF Unshared
    <3>3. tag \in Tags
      <4>1. req[o] \in Forms
        BY <2>1, FormOf DEF EdInv, Types, ReqTypes
      <4> QED
        BY <2>2, <4>1 DEF Parts!Touched, Forms
    <3> QED
      BY <1>14, <2>2, <3>1, <3>2, <3>3
  <2> QED
    BY <1>2, <1>6, <1>9, <1>11, <2>1, <2>2, PassedKeeps
<1>16. BootRead'
  <2> SUFFICES ASSUME booting # None, NEW tag \in Tags, tag \notin doubtful'
               PROVE  booting[tag] = Parts!Wanted(rows', tag)
    BY <1>2 DEF BootRead
  <2>1. req[r].booted
    BY <1>3 DEF Shaped
  <2>2. Parts!Wanted(rows', tag) = Parts!Wanted(rows, tag)
    BY <1>9, <2>1 DEF Parts!Missed
  <2> QED
    BY <1>9, <2>2 DEF EdInv, BootRead
<1>17. Parts!PartsFollow'
  <2> SUFFICES ASSUME on, NEW tag \in Tags, tag \notin doubtful', tag \notin Parts!InFlight'
               PROVE  running[tag] = Parts!Wanted(rows', tag)
    BY <1>2 DEF Parts!PartsFollow
  <2>1. \A o \in Requests \ {r} : tag \notin Parts!Touched(o)
    BY <1>7 DEF Parts!InFlight
  <2>2. tag \notin doubtful
    BY <1>9
  <2>3. CASE tag \in Parts!Touched(r)
    <3>1. running[tag] = Effect(req[r], tag) \/ (req[r].booted /\ running[tag] = Parts!Wanted(rows, tag))
      <4>1. Unshared(r, tag) /\ Made(req[r], tag) /\ req[r].snapshot # "old"
        BY <1>2, <1>4, <2>1 DEF Unshared, Made, Committing
      <4> QED
        BY <1>3, <2>2, <2>3, <4>1 DEF PartSettled
    <3>2. Parts!Wanted(rows', tag) = Effect(req[r], tag)
      BY <1>4, <2>3, CommitSettles
    <3>3. req[r].booted => Parts!Wanted(rows', tag) = Parts!Wanted(rows, tag)
      BY <1>9 DEF Parts!Missed
    <3> QED
      BY <3>1, <3>2, <3>3
  <2>4. CASE tag \notin Parts!Touched(r)
    <3>1. tag \notin Parts!InFlight
      BY <2>1, <2>4 DEF Parts!InFlight
    <3> QED
      BY <1>14, <2>2, <2>4, <3>1 DEF EdInv, Parts!PartsFollow
  <2> QED
    BY <2>3, <2>4
<1>18. Parts!LicenseFollows'
  <2> SUFFICES ASSUME NEW j \in Ids, rows'[j] # None, j \notin adrift,
                      ~ \E o \in Parts!Busy' : req'[o].id = j /\ req'[o].put
               PROVE  account'[j] = rows'[j].license
    BY <1>2 DEF Parts!LicenseFollows, Parts!Present
  <2>1. ~ \E o \in Parts!Busy \ {r} : req[o].id = j /\ req[o].put
    BY <1>6, <1>8 DEF Passed
  <2>2. ASSUME rows'[j] = rows[j], account'[j] = account[j], req[r].put => req[r].id # j
        PROVE  account'[j] = rows'[j].license
    <3>1. j \in Parts!Present
      BY <2>2 DEF Parts!Present
    <3> QED
      BY <2>1, <2>2, <3>1 DEF EdInv, Parts!LicenseFollows
  <2>3. CASE req[r].act = "del"
    BY <1>3, <1>11, <1>12, <2>2, <2>3 DEF Shaped
  <2>4. CASE req[r].act = "new"
    <3>1. CASE j = i
      BY <1>11, <1>12, <2>4, <3>1
    <3>2. CASE j # i
      BY <1>3, <1>11, <1>12, <2>2, <2>4, <3>2 DEF Shaped
    <3> QED
      BY <3>1, <3>2
  <2>5. CASE req[r].act = "edit"
    <3>1. i = req[r].id /\ account' = account
      BY <1>1, <1>11, <2>5 DEF Parts!Row
    <3>2. CASE j # i
      BY <1>11, <1>12, <2>2, <2>5, <3>1, <3>2
    <3>3. CASE j = i
      <4> SUFFICES account[i] = req[r].license
        BY <1>12, <2>5, <3>1, <3>3
      <4>1. CASE req[r].content \notin Warp
        BY <1>3, <2>5, <3>1, <4>1 DEF Licensed
      <4>2. CASE req[r].content \in Warp /\ req[r].put
        BY <1>3, <1>4, <2>1, <2>5, <3>1, <3>3, <4>2 DEF Licensed, Committing
      <4>3. CASE req[r].content \in Warp /\ ~ req[r].put
        <5>1. i \in Parts!Present /\ rows[i].license = req[r].license
          BY <1>2, <1>3, <1>4, <2>5, <3>1, <4>3 DEF Licensed, Committing
        <5>2. account[i] = rows[i].license
          BY <2>1, <3>3, <4>3, <5>1 DEF EdInv, Parts!LicenseFollows
        <5> QED
          BY <5>1, <5>2
      <4> QED
        BY <4>1, <4>2, <4>3
    <3> QED
      BY <3>2, <3>3
  <2> QED
    BY <1>3, <2>3, <2>4, <2>5 DEF Forms
<1> QED
  BY <1>13, <1>15, <1>16, <1>17, <1>18 DEF EdInv

-----------------------------------------------------------------------------
(* The running stops and starts. *)

\* A stop of the core keeps the invariant.
LEMMA StopPartsKeeps ==
  ASSUME Parts!NoneAssumption, EdInv, Parts!StopCore
  PROVE  EdInv'
<1>1. /\ on /\ ~ on' /\ running' = [t \in Tags |-> None]
      /\ UNCHANGED <<rows, used, account, lock, req, booting, doubtful, adrift>>
  BY DEF Parts!StopCore
<1>2. booting = None
  BY <1>1 DEF EdInv, Types
<1>3. Types' /\ Parts!Busy' = Parts!Busy /\ Parts!Present' = Parts!Present
  BY <1>1 DEF Parts!StopCore, EdInv, Types, Parts!TypeOK, Parts!Present, Parts!Busy
<1>4. ASSUME NEW o \in Parts!Busy PROVE (Shaped(o) /\ Seen(o) /\ PartSettled(o) /\ Licensed(o))'
  <2>1. Shaped(o) /\ Seen(o) /\ Licensed(o)
    BY DEF EdInv
  <2>2. Parts!InCore(o)' = Parts!InCore(o) /\ (Parts!Taken(req[o])' <=> Parts!Taken(req[o]))
    BY <1>1, <1>3 DEF Parts!InCore, Parts!Taken
  <2>3. Shaped(o)' /\ PartSettled(o)'
    BY <1>1, <2>1, <2>2 DEF Shaped, PartSettled
  <2>4. Seen(o)'
    BY <1>1, <1>2, <1>3, <2>1, <2>2 DEF Seen
  <2>5. Licensed(o)'
    BY <1>1, <1>3, <2>1 DEF Licensed
  <2> QED
    BY <2>3, <2>4, <2>5
<1>5. BootRead' /\ Parts!PartsFollow' /\ Parts!LicenseFollows'
  BY <1>1, <1>2, <1>3 DEF BootRead, Parts!PartsFollow, EdInv, Parts!LicenseFollows
<1> QED
  BY <1>3, <1>4, <1>5 DEF EdInv

\* What is wanted at a tag is a content or nothing.
LEMMA WantedType ==
  ASSUME Parts!TypeOK, NEW tag
  PROVE  Parts!Wanted(rows, tag) \in PartContents \union {None}
<1>1. CASE \E i \in Ids : rows[i] # None /\ rows[i].tag = tag
  <2> DEFINE i == CHOOSE i \in Ids : rows[i] # None /\ rows[i].tag = tag
  <2>1. i \in Ids /\ rows[i] # None
    BY <1>1
  <2>2. rows[i].content \in PartContents
    BY <2>1 DEF Parts!TypeOK
  <2> QED
    BY <1>1, <2>2 DEF Parts!Wanted
<1>2. CASE ~ \E i \in Ids : rows[i] # None /\ rows[i].tag = tag
  BY <1>2 DEF Parts!Wanted
<1> QED
  BY <1>1, <1>2

\* Reading the table for a start keeps the invariant.
LEMMA GetPartsKeeps ==
  ASSUME Parts!NoneAssumption, EdInv, Parts!GetConfig
  PROVE  EdInv'
<1>1. /\ ~ on /\ booting = None /\ booting' = [t \in Tags |-> Parts!Wanted(rows, t)] /\ doubtful' = {}
      /\ req' = [r \in Requests |-> IF r \in Parts!Busy THEN [req[r] EXCEPT !.booted = TRUE] ELSE req[r]]
      /\ UNCHANGED <<rows, used, account, lock, running, on, adrift>>
  BY DEF Parts!GetConfig
<1>2. booting' \in [Tags -> PartContents \union {None}] /\ booting' # None
  <2>1. \A t \in Tags : Parts!Wanted(rows, t) \in PartContents \union {None}
    BY WantedType DEF EdInv, Types
  <2> QED
    BY <1>1, <2>1 DEF Parts!NoneAssumption
<1>3. ASSUME NEW o \in Parts!Busy
      PROVE  /\ o \in Requests /\ req[o] \in Forms /\ req'[o] \in Forms
             /\ req'[o].step = req[o].step /\ req'[o].act = req[o].act /\ req'[o].id = req[o].id
             /\ req'[o].tag = req[o].tag /\ req'[o].content = req[o].content
             /\ req'[o].license = req[o].license /\ req'[o].old = req[o].old
             /\ req'[o].put = req[o].put /\ req'[o].snapshot = req[o].snapshot /\ req'[o].booted
  <2>1. o \in Requests /\ req[o] \in Forms
    BY FormOf DEF EdInv, Types, ReqTypes
  <2>2. req'[o] = [req[o] EXCEPT !.booted = TRUE]
    BY <1>1, <2>1
  <2>3. req'[o] \in Forms
    BY <2>1, <2>2 DEF Forms
  <2> QED
    BY <2>1, <2>2, <2>3 DEF Forms
<1>9. \A o \in Parts!Busy : req'[o].id = req[o].id /\ (req'[o].put <=> req[o].put)
  BY <1>3
<1>4. Parts!Busy' = Parts!Busy /\ ReqTypes'
  <2>1. \A o \in Requests : o \notin Parts!Busy => req'[o] = req[o]
    BY <1>1
  <2>2. \A o \in Requests : o \in Parts!Busy' <=> o \in Parts!Busy
    BY <1>3, <2>1 DEF Parts!Busy
  <2>3. \A o \in Requests : req'[o] \in Forms \union {Parts!Idle}
    BY <1>3, <2>1 DEF EdInv, Types
  <2>4. req' = [o \in Requests |-> req'[o]]
    BY <1>1
  <2>5. ReqTypes'
    BY <2>3, <2>4 DEF ReqTypes
  <2> QED
    BY <2>2, <2>5 DEF Parts!Busy
<1>5. Types' /\ Parts!Present' = Parts!Present
  BY <1>1, <1>2, <1>4 DEF EdInv, Types, Parts!TypeOK, Parts!Present, ReqTypes
<1>6. ASSUME NEW o \in Parts!Busy PROVE (Shaped(o) /\ Seen(o) /\ PartSettled(o) /\ Licensed(o))'
  <2>1. Shaped(o) /\ Seen(o) /\ Licensed(o)
    BY DEF EdInv
  <2>2. Parts!Taken(req[o])' <=> Parts!Taken(req[o])
    <3>1. req'[o].act = req[o].act /\ req'[o].id = req[o].id /\ req'[o].tag = req[o].tag
      BY <1>3
    <3> QED
      BY <1>1, <1>5, <3>1 DEF Parts!Taken
  <2>3. Shaped(o)'
    BY <1>1, <1>3, <2>1, <2>2 DEF Shaped
  <2>4. PartSettled(o)'
    BY <1>1 DEF PartSettled
  <2>6. Seen(o)'
    <3>1. Parts!InCore(o)' = Parts!InCore(o)
      BY <1>3 DEF Parts!InCore
    <3>2. /\ req'[o].act = req[o].act /\ req'[o].id = req[o].id /\ req'[o].old = req[o].old
          /\ req'[o].snapshot = req[o].snapshot /\ req'[o].booted
      BY <1>3
    <3> QED
      BY <1>1, <1>5, <2>1, <3>1, <3>2 DEF Seen
  <2>5. Licensed(o)'
    <3>1. /\ req'[o].act = req[o].act /\ req'[o].id = req[o].id /\ req'[o].step = req[o].step
          /\ req'[o].content = req[o].content /\ req'[o].license = req[o].license
          /\ req'[o].snapshot = req[o].snapshot /\ (req'[o].put <=> req[o].put)
      BY <1>3
    <3>2. (\E q \in Parts!Busy' \ {o} : req'[q].id = req'[o].id /\ req'[q].put)
            <=> (\E q \in Parts!Busy \ {o} : req[q].id = req[o].id /\ req[q].put)
      BY <1>4, <1>9, <3>1
    <3>3. UNCHANGED <<rows, account, adrift>>
      BY <1>1
    <3> SUFFICES ASSUME req[o].act = "edit" PROVE Licensed(o)'
      BY <3>1 DEF Licensed
    <3>4. req'[o].put /\ req'[o].snapshot # "old" =>
            \/ account'[req'[o].id] = req'[o].license \/ req'[o].id \in adrift'
            \/ \E q \in Parts!Busy' \ {o} : req'[q].id = req'[o].id /\ req'[q].put
      <4>1. req[o].put /\ req[o].snapshot # "old" =>
              \/ account[req[o].id] = req[o].license \/ req[o].id \in adrift
              \/ \E q \in Parts!Busy \ {o} : req[q].id = req[o].id /\ req[q].put
        BY <2>1 DEF Licensed
      <4> QED
        BY <3>1, <3>2, <3>3, <4>1
    <3>5. /\ req[o].content \in Warp <=> account[req[o].id] # None
          /\ req[o].license = None <=> req[o].content \notin Warp
          /\ req[o].put => req[o].snapshot # "none"
          /\ req[o].content \in Warp /\ req[o].step \notin {"remote", "put"} /\ ~ req[o].put
               /\ req[o].snapshot # "old" =>
               req[o].snapshot = "fresh" /\ req[o].id \in Parts!Present
                 /\ rows[req[o].id].license = req[o].license
      BY <2>1 DEF Licensed
    <3> QED
      BY <1>5, <3>1, <3>3, <3>4, <3>5 DEF Licensed
  <2> QED
    BY <2>3, <2>4, <2>5, <2>6
<1>7. BootRead' /\ Parts!PartsFollow'
  <2>1. Parts!PartsFollow'
    BY <1>1 DEF Parts!PartsFollow
  <2>2. ASSUME NEW tag \in Tags PROVE booting'[tag] = Parts!Wanted(rows', tag)
    BY <1>1, <2>2
  <2>3. BootRead'
    BY <2>2 DEF BootRead
  <2> QED
    BY <2>1, <2>3
<1>8. Parts!LicenseFollows'
  <2>1. \A i : (\E q \in Parts!Busy' : req'[q].id = i /\ req'[q].put)
               <=> (\E q \in Parts!Busy : req[q].id = i /\ req[q].put)
    BY <1>4, <1>9
  <2> SUFFICES ASSUME NEW i \in Parts!Present
               PROVE  \/ i \in adrift \/ account[i] = rows[i].license
                      \/ \E q \in Parts!Busy' : req'[q].id = i /\ req'[q].put
    BY <1>1, <1>5 DEF Parts!LicenseFollows
  <2>2. \/ i \in adrift \/ account[i] = rows[i].license
        \/ \E q \in Parts!Busy : req[q].id = i /\ req[q].put
    BY DEF EdInv, Parts!LicenseFollows
  <2> QED
    BY <2>1, <2>2
<1> QED
  BY <1>4, <1>5, <1>6, <1>7, <1>8 DEF EdInv

\* A start of the core keeps the invariant.
LEMMA StartPartsKeeps ==
  ASSUME Parts!NoneAssumption, EdInv, Parts!StartCore
  PROVE  EdInv'
<1>1. /\ booting # None /\ on' /\ running' = booting /\ booting' = None
      /\ UNCHANGED <<rows, used, account, lock, req, doubtful, adrift>>
  BY DEF Parts!StartCore
<1>2. Types' /\ Parts!Busy' = Parts!Busy /\ Parts!Present' = Parts!Present
  BY <1>1 DEF Parts!StartCore, EdInv, Types, Parts!TypeOK, Parts!Present, Parts!Busy
<1>3. \A tag \in Tags \ doubtful : running'[tag] = Parts!Wanted(rows, tag)
  BY <1>1 DEF EdInv, BootRead
<1>4. ASSUME NEW o \in Parts!Busy PROVE (Shaped(o) /\ Seen(o) /\ PartSettled(o) /\ Licensed(o))'
  <2>1. Shaped(o) /\ Seen(o) /\ Licensed(o) /\ req[o].booted /\ req[o] \in Forms
    BY <1>1, FormOf DEF EdInv, Shaped, Types, ReqTypes
  <2>2. Parts!InCore(o)' = Parts!InCore(o) /\ (Parts!Taken(req[o])' <=> Parts!Taken(req[o]))
    BY <1>1, <1>2 DEF Parts!InCore, Parts!Taken
  <2>3. Shaped(o)'
    BY <1>1, <2>1, <2>2 DEF Shaped
  <2>4. PartSettled(o)'
    <3>1. Parts!Touched(o)' \subseteq Tags
      BY <1>1, <2>1 DEF Parts!Touched, Forms
    <3> QED
      BY <1>1, <1>3, <2>1, <3>1 DEF PartSettled
  <2>5. Seen(o)'
    BY <1>1, <1>2, <2>1, <2>2 DEF Seen
  <2>6. Licensed(o)'
    BY <1>1, <1>2, <2>1 DEF Licensed
  <2> QED
    BY <2>3, <2>4, <2>5, <2>6
<1>5. BootRead' /\ Parts!PartsFollow' /\ Parts!LicenseFollows'
  BY <1>1, <1>2, <1>3 DEF BootRead, Parts!PartsFollow, EdInv, Parts!LicenseFollows
<1> QED
  BY <1>2, <1>4, <1>5 DEF EdInv

\* The invariant holds at the start.
LEMMA InitPartsKeep ==
  ASSUME Parts!NoneAssumption, Parts!Init
  PROVE  EdInv
<1>1. PICK i \in Ids, tag \in Tags, content \in PartContents, license \in Licenses :
        LET l == IF content \in Warp THEN license ELSE None IN
        /\ rows = [j \in Ids |-> IF j = i THEN [tag |-> tag, content |-> content, license |-> l]
                                          ELSE None]
        /\ used = {i} /\ account = [j \in Ids |-> IF j = i THEN l ELSE None]
  BY DEF Parts!Init
<1> DEFINE l == IF content \in Warp THEN license ELSE None
           row == [tag |-> tag, content |-> content, license |-> l]
<1>2. /\ rows = [j \in Ids |-> IF j = i THEN row ELSE None]
      /\ used = {i} /\ account = [j \in Ids |-> IF j = i THEN l ELSE None]
  BY <1>1
<1>3. l \in Licenses \union {None} /\ row \in PartRows /\ row.license = l
  BY DEF PartRows
<1> HIDE DEF row, l
<1>4. /\ lock = None /\ req = [r \in Requests |-> Parts!Idle]
      /\ running = [t \in Tags |-> Parts!Wanted(rows, t)] /\ on = TRUE /\ booting = None
      /\ doubtful = {} /\ adrift = {}
  BY DEF Parts!Init
<1>5. Parts!Busy = {} /\ Parts!Present \subseteq {i}
  BY <1>2, <1>4 DEF Parts!Busy, Parts!Idle, Parts!Present
<1>6. rows \in [Ids -> PartRows \union {None}] /\ account \in [Ids -> Licenses \union {None}]
  BY <1>2, <1>3
<1>7. running \in [Tags -> PartContents \union {None}]
  <2>1. ASSUME NEW t \in Tags PROVE Parts!Wanted(rows, t) \in PartContents \union {None}
    <3>1. CASE \E j \in Ids : rows[j] # None /\ rows[j].tag = t
      <4> DEFINE j == CHOOSE j \in Ids : rows[j] # None /\ rows[j].tag = t
      <4>1. j \in Ids /\ rows[j] # None
        BY <3>1
      <4>2. rows[j].content \in PartContents
        BY <1>6, <4>1 DEF PartRows
      <4> QED
        BY <3>1, <4>2 DEF Parts!Wanted
    <3>2. CASE ~ \E j \in Ids : rows[j] # None /\ rows[j].tag = t
      BY <3>2 DEF Parts!Wanted
    <3> QED
      BY <3>1, <3>2
  <2> QED
    BY <1>4, <2>1
<1>8. Parts!TypeOK
  BY <1>2, <1>4, <1>5, <1>6, <1>7 DEF Parts!TypeOK, PartRows
<1>9. Types
  BY <1>4, <1>5, <1>8 DEF Types
<1>10. BootRead /\ Parts!PartsFollow
  BY <1>4 DEF BootRead, Parts!PartsFollow
<1>11. Parts!LicenseFollows
  BY <1>2, <1>3, <1>5 DEF Parts!LicenseFollows
<1> QED
  BY <1>5, <1>9, <1>10, <1>11 DEF EdInv

\* Every step keeps the invariant.
LEMMA NextPartsKeep ==
  ASSUME Parts!NoneAssumption, Parts!WarpAssumption, EdInv, [Parts!Next]_Parts!vars
  PROVE  EdInv'
<1>1. ASSUME NEW r \in Requests, Parts!GoOn(r) PROVE EdInv'
  BY <1>1, RegisterWarpKeeps, ReadLicenseKeeps, SetWarpLicenseKeeps, SetWarpLicenseFailsKeeps,
     LookKeeps, RemoveKeeps, AddKeeps, WritePartKeeps, CommitKeeps, FailPartKeeps DEF Parts!GoOn
<1>2. CASE UNCHANGED Parts!vars
  <2>1. /\ Parts!Busy' = Parts!Busy /\ Parts!Present' = Parts!Present /\ Parts!InFlight' = Parts!InFlight
        /\ \A r : /\ Parts!Touched(r)' = Parts!Touched(r) /\ Parts!InCore(r)' = Parts!InCore(r)
                  /\ Parts!Taken(req[r])' <=> Parts!Taken(req[r])
    BY <1>2 DEF Parts!vars, Parts!Busy, Parts!Present, Parts!InFlight, Parts!Touched,
       Parts!InCore, Parts!Taken
  <2>2. \A r, tag : Unshared(r, tag)' <=> Unshared(r, tag)
    BY <2>1 DEF Unshared
  <2>3. Types' /\ BootRead' /\ Parts!PartsFollow' /\ Parts!LicenseFollows'
    BY <1>2, <2>1 DEF Parts!vars, EdInv, Types, Parts!TypeOK, BootRead, Parts!PartsFollow,
       Parts!LicenseFollows
  <2>4. ASSUME NEW r \in Parts!Busy PROVE (Shaped(r) /\ Seen(r) /\ PartSettled(r) /\ Licensed(r))'
    <3>1. Shaped(r) /\ Seen(r) /\ PartSettled(r) /\ Licensed(r)
      BY DEF EdInv
    <3>2. Shaped(r)' /\ Seen(r)'
      BY <1>2, <2>1, <3>1 DEF Parts!vars, Shaped, Seen
    <3>3. PartSettled(r)'
      BY <1>2, <2>1, <2>2, <3>1 DEF Parts!vars, PartSettled
    <3>4. Licensed(r)'
      BY <1>2, <2>1, <3>1 DEF Parts!vars, Licensed
    <3> QED
      BY <3>2, <3>3, <3>4
  <2> QED
    BY <2>1, <2>3, <2>4 DEF EdInv
<1> QED
  BY <1>1, <1>2, PartRequestKeeps, OtherCommitKeeps, StopPartsKeeps, GetPartsKeeps, StartPartsKeeps
     DEF Parts!Next
\* What these steps keep, every run of the editors keeps.
LEMMA EditorsKeep == Parts!Init /\ [][Parts!Next]_Parts!vars => []EdInv
<1>1. Parts!Init => EdInv
  BY PartsAssumption, InitPartsKeep
<1>2. EdInv /\ [Parts!Next]_Parts!vars => EdInv'
  BY PartsAssumption, NextPartsKeep
<1> QED
  BY <1>1, <1>2, PTL

\* Whatever requests overlap, fail, and meet stops and starts of the core: it has the outbounds,
\* endpoints and services the tables say, with the exceptions of PartsFollow.
THEOREM PartsAlwaysFollow == Parts!Init /\ [][Parts!Next]_Parts!vars => []PartsFollow
<1>1. EdInv => PartsFollow
  BY DEF EdInv, Types, PartsFollow
<1> QED
  BY <1>1, EditorsKeep, PTL

\* And a WARP device has the license its row says, with the exceptions of LicenseFollows.
THEOREM LicensesAlwaysFollow == Parts!Init /\ [][Parts!Next]_Parts!vars => []LicenseFollows
<1>1. EdInv => LicenseFollows
  BY DEF EdInv, LicenseFollows
<1> QED
  BY <1>1, EditorsKeep, PTL
=============================================================================
