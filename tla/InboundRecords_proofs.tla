------------------------ MODULE InboundRecords_proofs ------------------------
(* Proofs about InboundRecords and about PanelSync.  What a request makes of the tables is a *)
(* function of the tables, so the work is in lemmas about those functions; the invariant adds *)
(* to the three properties that a client is attached to ids that were given out: a new inbound *)
(* finds no client attached to it.  Unique tags are what keeps one inbound's links apart from *)
(* another's.  What a reader of the panel has been told (Informed) is at the end. *)
EXTENDS MCInboundRecords, Naturals, TLAPS

Unique(d) == \A i, j \in Present(d) : d.inbounds[i].tag = d.inbounds[j].tag => i = j
Typed(d) == d \in Tables /\ Present(d) \subseteq d.used /\ Unique(d)

Served(d) ==
  \A c \in Registered(d) : d.clients[c].local = Fresh(d, d.clients[c].inbounds, d.clients[c].config)
Derived(d) == \A i \in Present(d) : d.inbounds[i].out = OutJson(d, d.inbounds[i])

Known(d) == \A c \in Registered(d) : d.clients[c].inbounds \subseteq d.used

Good(d) == Typed(d) /\ Served(d) /\ Derived(d) /\ Known(d)

-----------------------------------------------------------------------------
(* Links and derived columns. *)

\* A client's links are the links to the inbounds that are there.
LEMMA FreshHas ==
  ASSUME NEW d, NEW ids, NEW config, NEW l
  PROVE  l \in Fresh(d, ids, config)
           <=> \E i \in ids \intersect Present(d) : l \in Links(d, d.inbounds[i], config)
BY DEF Fresh

\* A link bears the tag of its inbound.
LEMMA LinkRemark ==
  ASSUME NEW d, NEW form, NEW config, NEW l \in Links(d, form, config)
  PROVE  l.remark = form.tag
BY DEF Links

\* Links depend on the tag, the content and the TLS record of the inbound.
LEMMA LinksSame ==
  ASSUME NEW d, NEW e, NEW f, NEW g, NEW config,
         f.tag = g.tag, f.content = g.content, Secured(d, f) = Secured(e, g)
  PROVE  Links(d, f, config) = Links(e, g, config)
BY DEF Links

\* The TLS record of a form or a row is a version, or none.
LEMMA SecuredType ==
  ASSUME NEW d \in Tables, NEW form, form.tls \in TlsIds \union {None}
  PROVE  Secured(d, form) \in Versions \union {None}
BY DEF Secured, Tables

\* Links have the type of links.
LEMMA LinksType ==
  ASSUME NEW d \in Tables, NEW form, form.tag \in Tags, form.content \in Contents,
         form.tls \in TlsIds \union {None}, NEW config \in Configs
  PROVE  Links(d, form, config) \subseteq Link
BY SecuredType DEF Links, Link

\* The links of a client are links.
LEMMA FreshType ==
  ASSUME NEW d \in Tables, NEW ids \in SUBSET Ids, NEW config \in Configs
  PROVE  Fresh(d, ids, config) \subseteq Link
<1> SUFFICES ASSUME NEW l \in Fresh(d, ids, config) PROVE l \in Link
  OBVIOUS
<1>1. PICK i \in ids \intersect Present(d) : l \in Links(d, d.inbounds[i], config)
  BY FreshHas
<1>2. d.inbounds[i] \in Inbound
  BY <1>1 DEF Present, Tables
<1> QED
  BY <1>1, <1>2, LinksType DEF Inbound

\* A row derived from a form has the type of a row.
LEMMA RowType ==
  ASSUME NEW d \in Tables, NEW form, form.tag \in Tags, form.content \in Contents,
         form.tls \in TlsIds \union {None}
  PROVE  /\ Row(d, form) \in Inbound
         /\ Row(d, form).out = OutJson(d, Row(d, form))
         /\ Secured(d, Row(d, form)) = Secured(d, form)
<1>1. Secured(d, form) \in Versions \union {None}
  BY SecuredType
<1>2. Row(d, form) \in Inbound
  BY <1>1, ContentAssumption DEF Row, OutJson, Inbound
<1>3. Secured(d, Row(d, form)) = Secured(d, form)
  BY DEF Secured, Row
<1>4. Row(d, form).out = OutJson(d, Row(d, form))
  BY <1>3 DEF Row, OutJson
<1> QED
  BY <1>2, <1>3, <1>4

-----------------------------------------------------------------------------
(* The tables with other clients, and with another inbound. *)

\* The derived columns of inbounds do not depend on the clients table.
LEMMA OtherClients ==
  ASSUME NEW d, Typed(d), Derived(d),
         NEW rows \in [Clients -> Client \union {None}],
         \A c \in Clients : rows[c] # None =>
           /\ rows[c].local = Fresh(d, rows[c].inbounds, rows[c].config)
           /\ rows[c].inbounds \subseteq d.used
  PROVE  Good([d EXCEPT !.clients = rows])
<1> DEFINE e == [d EXCEPT !.clients = rows]
<1>1. /\ e.tls = d.tls /\ e.inbounds = d.inbounds /\ e.used = d.used /\ e.clients = rows
      /\ e \in Tables
  BY DEF Typed, Tables
<1> HIDE DEF e
<1>2. Present(e) = Present(d)
  BY <1>1 DEF Present
<1>3. \A form : Secured(e, form) = Secured(d, form)
  BY <1>1 DEF Secured
<1>4. \A form, config : Links(e, form, config) = Links(d, form, config)
  BY <1>3 DEF Links
<1>5. \A ids, config : Fresh(e, ids, config) = Fresh(d, ids, config)
  BY <1>1, <1>2, <1>4 DEF Fresh
<1>6. Typed(e)
  BY <1>1, <1>2 DEF Typed, Unique
<1>7. Served(e)
  BY <1>1, <1>5 DEF Served, Registered
<1>8. Derived(e)
  BY <1>1, <1>2, <1>3 DEF Derived, OutJson
<1>9. Known(e)
  BY <1>1 DEF Known, Registered
<1> QED
  BY <1>6, <1>7, <1>8, <1>9 DEF Good, e

\* A row written from a form keeps tags unique and derived columns derived, and changes
\* no link to another inbound.
LEMMA Inserted ==
  ASSUME NEW d, Typed(d), Derived(d), NEW id \in Ids, NEW form \in InboundForm,
         TagFree(d, id, form.tag)
  PROVE  LET e == Insert(d, id, form)
         IN /\ Typed(e) /\ Derived(e) /\ e.clients = d.clients /\ e.used = d.used \union {id}
            /\ Present(e) = Present(d) \union {id}
            /\ \A j \in Present(d) \ {id} : \A config :
                 Links(e, e.inbounds[j], config) = Links(d, d.inbounds[j], config)
            /\ \A config : Links(e, e.inbounds[id], config) = Links(d, form, config)
            /\ e.inbounds[id].tag = form.tag
<1> DEFINE e == Insert(d, id, form)
<1>1. Row(d, form) \in Inbound /\ Row(d, form) # None
  BY RowType, NoneAssumption DEF Typed, InboundForm
<1>2. /\ e.tls = d.tls /\ e.clients = d.clients /\ e.used = d.used \union {id}
      /\ e.inbounds = [d.inbounds EXCEPT ![id] = Row(d, form)]
      /\ e \in Tables
  BY <1>1 DEF Insert, Typed, Tables
<1> HIDE DEF e
<1>3. e.inbounds[id] = Row(d, form) /\ \A j \in Ids \ {id} : e.inbounds[j] = d.inbounds[j]
  BY <1>2 DEF Typed, Tables
<1>4. Present(e) = Present(d) \union {id}
  BY <1>1, <1>3 DEF Present
<1>5. e.inbounds[id].tag = form.tag
  BY <1>3 DEF Row
<1>6. Unique(e)
  BY <1>3, <1>4, <1>5 DEF Unique, Typed, TagFree, Present
<1>7. Typed(e)
  BY <1>2, <1>4, <1>6 DEF Typed
<1>8. \A f : Secured(e, f) = Secured(d, f)
  BY <1>2 DEF Secured
<1>9. Secured(d, Row(d, form)) = Secured(d, form) /\ Row(d, form).out = OutJson(d, Row(d, form))
  BY RowType DEF Typed, InboundForm
<1>10. Derived(e)
  BY <1>3, <1>4, <1>8, <1>9 DEF Derived, OutJson, Present
<1>11. \A j \in Present(d) \ {id} : \A config :
         Links(e, e.inbounds[j], config) = Links(d, d.inbounds[j], config)
  BY <1>3, <1>8, LinksSame DEF Present
<1>12. \A config : Links(e, e.inbounds[id], config) = Links(d, form, config)
  BY <1>3, <1>8, <1>9 DEF Links, Row
<1> QED
  BY <1>2, <1>4, <1>5, <1>7, <1>10, <1>11, <1>12 DEF e

\* The tags of row id, if there is one.
Old(d, id) == IF d.inbounds[id] = None THEN {} ELSE {d.inbounds[id].tag}

\* What that means for a client that is not attached to the inbound.
LEMMA FreshOther ==
  ASSUME NEW d, Typed(d), Derived(d), NEW id \in Ids, NEW form \in InboundForm,
         TagFree(d, id, form.tag), NEW ids \in SUBSET Ids, id \notin ids, NEW config
  PROVE  Fresh(Insert(d, id, form), ids, config) = Fresh(d, ids, config)
<1> DEFINE e == Insert(d, id, form)
<1>1. /\ Present(e) = Present(d) \union {id}
      /\ \A j \in Present(d) \ {id} : Links(e, e.inbounds[j], config) = Links(d, d.inbounds[j], config)
  BY Inserted
<1> HIDE DEF e
<1>2. ASSUME NEW l PROVE l \in Fresh(e, ids, config) <=> l \in Fresh(d, ids, config)
  BY <1>1, FreshHas
<1> QED
  BY <1>2 DEF e

\* For a client that is: links under the inbound's tags make room for links to the new row.
LEMMA FreshInserted ==
  ASSUME NEW d, Typed(d), Derived(d), NEW id \in Ids, NEW form \in InboundForm,
         TagFree(d, id, form.tag), NEW ids \in SUBSET Ids, id \in ids, NEW config
  PROVE  Fresh(Insert(d, id, form), ids, config) =
           Drop(Fresh(d, ids, config), {form.tag} \union Old(d, id)) \union Links(d, form, config)
<1> DEFINE e == Insert(d, id, form)
           kept == Drop(Fresh(d, ids, config), {form.tag} \union Old(d, id))
<1>1. /\ Present(e) = Present(d) \union {id}
      /\ \A j \in Present(d) \ {id} : Links(e, e.inbounds[j], config) = Links(d, d.inbounds[j], config)
      /\ Links(e, e.inbounds[id], config) = Links(d, form, config)
  BY Inserted
<1> HIDE DEF e
<1>2. \A j \in Present(d) \ {id} : d.inbounds[j].tag \notin {form.tag} \union Old(d, id)
  BY DEF Typed, Unique, TagFree, Old, Present
<1>3. ASSUME NEW l
      PROVE  l \in Fresh(e, ids, config)
               <=> \/ \E j \in (ids \intersect Present(d)) \ {id} : l \in Links(d, d.inbounds[j], config)
                   \/ l \in Links(d, form, config)
  BY <1>1, FreshHas
<1>4. ASSUME NEW l
      PROVE  l \in kept
               <=> \E j \in (ids \intersect Present(d)) \ {id} : l \in Links(d, d.inbounds[j], config)
  <2>1. ASSUME NEW j \in (ids \intersect Present(d)) \ {id}, l \in Links(d, d.inbounds[j], config)
        PROVE  l \in kept
    BY <2>1, <1>2, FreshHas, LinkRemark DEF Drop
  <2>2. ASSUME l \in kept
        PROVE  \E j \in (ids \intersect Present(d)) \ {id} : l \in Links(d, d.inbounds[j], config)
    <3>1. PICK j \in ids \intersect Present(d) : l \in Links(d, d.inbounds[j], config)
      BY <2>2, FreshHas DEF Drop
    <3>2. j # id
      BY <3>1, <2>2, LinkRemark DEF Old, Present, Drop
    <3> QED
      BY <3>1, <3>2
  <2> QED
    BY <2>1, <2>2
<1> HIDE DEF kept
<1>5. Fresh(e, ids, config) = kept \union Links(d, form, config)
  BY <1>3, <1>4
<1> QED
  BY <1>5 DEF e, kept

\* The links to the inbound alone.
LEMMA FreshAlone ==
  ASSUME NEW d, Typed(d), Derived(d), NEW id \in Ids, NEW form \in InboundForm,
         TagFree(d, id, form.tag), NEW config
  PROVE  Fresh(Insert(d, id, form), {id}, config) = Links(d, form, config)
<1> DEFINE e == Insert(d, id, form)
<1>1. id \in Present(e) /\ Links(e, e.inbounds[id], config) = Links(d, form, config)
  BY Inserted
<1> HIDE DEF e
<1>2. ASSUME NEW l PROVE l \in Fresh(e, {id}, config) <=> l \in Links(d, form, config)
  BY <1>1, FreshHas
<1> QED
  BY <1>2 DEF e

-----------------------------------------------------------------------------
(* Requests. *)

\* A new inbound, for clients that are attached to it and clients that are not.
LEMMA InboundNewGood ==
  ASSUME NEW d, Good(d), NEW id \in Ids \ d.used, NEW form \in InboundForm,
         TagFree(d, id, form.tag), NEW init
  PROVE  Good(InboundNew(d, id, form, init))
<1> DEFINE e == Insert(d, id, form)
           rows == [c \in Clients |->
             IF c \in init \intersect Registered(d)
             THEN [d.clients[c] EXCEPT !.inbounds = @ \union {id},
                                       !.local = Drop(@, {form.tag})
                                                   \union Links(d, form, d.clients[c].config),
                                       !.external = @ \ {form.tag}]
             ELSE d.clients[c]]
<1>1. /\ Typed(e) /\ Derived(e) /\ e.used = d.used \union {id}
      /\ id \notin Present(d) /\ Old(d, id) = {}
  BY Inserted DEF Good, Typed, Old, Present
<1>2. ASSUME NEW c \in Clients
      PROVE  /\ rows[c] \in Client \union {None}
             /\ rows[c] # None => /\ rows[c].local = Fresh(e, rows[c].inbounds, rows[c].config)
                                  /\ rows[c].inbounds \subseteq e.used
  <2> DEFINE row == d.clients[c]
  <2>1. CASE row = None
    BY <2>1 DEF Registered
  <2>2. CASE row # None
    <3>1. /\ row \in Client /\ row.inbounds \subseteq d.used
          /\ row.local = Fresh(d, row.inbounds, row.config)
      BY <2>2 DEF Good, Typed, Tables, Known, Served, Registered
    <3>2. /\ row.inbounds \in SUBSET Ids /\ row.config \in Configs
          /\ row.local \in SUBSET Link /\ row.external \in SUBSET Tags
      BY <3>1 DEF Client
    <3>3. CASE c \notin init
      <4>1. Fresh(e, row.inbounds, row.config) = Fresh(d, row.inbounds, row.config)
        BY <3>1, <3>2, FreshOther DEF Good
      <4> QED
        BY <4>1, <3>3, <3>1, <1>1
    <3>4. CASE c \in init
      <4> DEFINE local == Drop(row.local, {form.tag}) \union Links(d, form, row.config)
      <4>1. Links(d, form, row.config) \subseteq Link
        BY <3>2, LinksType DEF Good, Typed, InboundForm
      <4>2. /\ rows[c].inbounds = row.inbounds \union {id} /\ rows[c].local = local
            /\ rows[c].config = row.config /\ rows[c] \in Client
        BY <4>1, <3>1, <3>2, <3>4, <2>2 DEF Client, Registered, Drop
      <4>3. Fresh(e, row.inbounds \union {id}, row.config)
              = Drop(Fresh(d, row.inbounds \union {id}, row.config), {form.tag})
                  \union Links(d, form, row.config)
        BY <1>1, <3>2, FreshInserted DEF Good
      <4>4. Fresh(d, row.inbounds \union {id}, row.config) = Fresh(d, row.inbounds, row.config)
        BY <1>1 DEF Fresh
      <4> QED
        BY <4>2, <4>3, <4>4, <3>1, <1>1
    <3> QED
      BY <3>3, <3>4
  <2> QED
    BY <2>1, <2>2
<1>3. rows \in [Clients -> Client \union {None}]
  BY <1>2
<1>4. Good([e EXCEPT !.clients = rows])
  <2> HIDE DEF e, rows
  <2> QED BY <1>1, <1>2, <1>3, OtherClients
<1> QED
  BY <1>4 DEF InboundNew

\* An inbound that is edited, or brought back by an old form.
LEMMA InboundEditGood ==
  ASSUME NEW d, Good(d), NEW id \in d.used, NEW form \in InboundForm, TagFree(d, id, form.tag)
  PROVE  Good(InboundEdit(d, id, form))
<1> DEFINE e == Insert(d, id, form)
           old == Old(d, id)
           rows == [c \in Clients |->
             IF Attached(d, c, id) THEN Relinked(e, c, {id}, {form.tag} \union old) ELSE d.clients[c]]
<1>1. id \in Ids
  BY DEF Good, Typed, Tables
<1>2. /\ Typed(e) /\ Derived(e) /\ e.used = d.used \union {id} /\ e.clients = d.clients
  BY <1>1, Inserted DEF Good
<1>3. ASSUME NEW c \in Clients
      PROVE  /\ rows[c] \in Client \union {None}
             /\ rows[c] # None => /\ rows[c].local = Fresh(e, rows[c].inbounds, rows[c].config)
                                  /\ rows[c].inbounds \subseteq e.used
  <2> DEFINE row == d.clients[c]
  <2>1. CASE row = None
    BY <2>1 DEF Registered, Attached
  <2>2. CASE row # None
    <3>1. /\ row \in Client /\ row.inbounds \subseteq d.used
          /\ row.local = Fresh(d, row.inbounds, row.config)
      BY <2>2 DEF Good, Typed, Tables, Known, Served, Registered
    <3>2. /\ row.inbounds \in SUBSET Ids /\ row.config \in Configs
          /\ row.local \in SUBSET Link /\ row.external \in SUBSET Tags
      BY <3>1 DEF Client
    <3>3. CASE id \notin row.inbounds
      <4>1. Fresh(e, row.inbounds, row.config) = Fresh(d, row.inbounds, row.config)
        BY <1>1, <3>2, <3>3, FreshOther DEF Good
      <4> QED
        BY <4>1, <3>3, <3>1, <1>2 DEF Attached
    <3>4. CASE id \in row.inbounds
      <4> DEFINE local == Drop(row.local, {form.tag} \union old) \union Links(d, form, row.config)
      <4>1. Links(d, form, row.config) \subseteq Link
        BY <3>2, LinksType DEF Good, Typed, InboundForm
      <4>2. {id} \intersect row.inbounds = {id} /\ Attached(d, c, id)
        BY <3>4, <2>2 DEF Attached, Registered
      <4>3. Fresh(e, {id}, row.config) = Links(d, form, row.config)
        BY <1>1, FreshAlone DEF Good
      <4>4. rows[c] = [row EXCEPT !.local = local]
        <5> HIDE DEF e
        <5> QED BY <4>2, <4>3, <1>2 DEF Relinked
      <4>5. local \in SUBSET Link
        BY <4>1, <3>2 DEF Drop
      <4>6. /\ rows[c].inbounds = row.inbounds /\ rows[c].local = local
            /\ rows[c].config = row.config /\ rows[c] \in Client
        <5> HIDE DEF local, rows
        <5> QED BY <4>4, <4>5, <3>1, <3>2 DEF Client
      <4>7. Fresh(e, row.inbounds, row.config) =
              Drop(Fresh(d, row.inbounds, row.config), {form.tag} \union old)
                \union Links(d, form, row.config)
        <5> HIDE DEF rows, row
        <5> QED BY <1>1, <3>2, <3>4, FreshInserted DEF Good
      <4> QED
        <5> HIDE DEF rows, row, e, old
        <5> QED BY <4>6, <4>7, <3>1, <1>2
    <3> QED
      BY <3>3, <3>4
  <2> QED
    BY <2>1, <2>2
<1>4. rows \in [Clients -> Client \union {None}]
  BY <1>3
<1>5. Good([e EXCEPT !.clients = rows])
  <2> HIDE DEF e, rows
  <2> QED BY <1>2, <1>3, <1>4, OtherClients
<1> QED
  BY <1>5 DEF InboundEdit, Old

\* Clients saved as a whole.
LEMMA ClientsPutGood ==
  ASSUME NEW d, Good(d), NEW put \in SUBSET Clients,
         NEW forms \in [put -> {f \in ClientForm : f.inbounds \subseteq d.used}]
  PROVE  Good(ClientsPut(d, forms))
<1> DEFINE rows == [c \in Clients |->
             IF c \in DOMAIN forms
             THEN [inbounds |-> forms[c].inbounds, config |-> forms[c].config,
                   local |-> Fresh(d, forms[c].inbounds, forms[c].config),
                   external |-> forms[c].external]
             ELSE d.clients[c]]
<1>1. ASSUME NEW c \in Clients
      PROVE  /\ rows[c] \in Client \union {None}
             /\ rows[c] # None => /\ rows[c].local = Fresh(d, rows[c].inbounds, rows[c].config)
                                  /\ rows[c].inbounds \subseteq d.used
  <2>1. CASE c \in put
    <3>1. /\ forms[c].inbounds \in SUBSET Ids /\ forms[c].inbounds \subseteq d.used
          /\ forms[c].config \in Configs /\ forms[c].external \in SUBSET Tags
      BY <2>1 DEF ClientForm
    <3>2. Fresh(d, forms[c].inbounds, forms[c].config) \subseteq Link
      BY <3>1, FreshType DEF Good, Typed
    <3> QED
      BY <2>1, <3>1, <3>2 DEF Client
  <2>2. CASE c \notin put
    BY <2>2 DEF Good, Typed, Tables, Served, Known, Registered
  <2> QED
    BY <2>1, <2>2
<1>2. rows \in [Clients -> Client \union {None}]
  BY <1>1
<1>3. Good([d EXCEPT !.clients = rows])
  <2> HIDE DEF rows
  <2> QED BY <1>1, <1>2, OtherClients DEF Good
<1> QED
  BY <1>3 DEF ClientsPut

\* A bulk edit that finds no changes leaves links that are right.
LEMMA ClientsEditBulkGood ==
  ASSUME NEW d, Good(d), NEW edited \in SUBSET Registered(d), NEW switched,
         NEW forms \in [edited -> [inbounds : SUBSET d.used, config : Configs]]
  PROVE  Good(ClientsEditBulk(d, forms, switched))
<1> DEFINE reported == UNION {Changes(d.clients[c], forms[c], c \in switched) : c \in DOMAIN forms}
           rows == [c \in Clients |->
             IF c \in DOMAIN forms
             THEN [d.clients[c] EXCEPT !.inbounds = forms[c].inbounds, !.config = forms[c].config,
                                       !.local = IF reported = {} THEN @
                                                 ELSE Fresh(d, forms[c].inbounds, forms[c].config)]
             ELSE d.clients[c]]
<1>1. ASSUME NEW c \in Clients
      PROVE  /\ rows[c] \in Client \union {None}
             /\ rows[c] # None => /\ rows[c].local = Fresh(d, rows[c].inbounds, rows[c].config)
                                  /\ rows[c].inbounds \subseteq d.used
  <2>1. CASE c \in edited
    <3> DEFINE row == d.clients[c]
               local == IF reported = {} THEN row.local
                        ELSE Fresh(d, forms[c].inbounds, forms[c].config)
    <3>1. /\ row \in Client /\ row.inbounds \subseteq d.used
          /\ row.local = Fresh(d, row.inbounds, row.config)
      BY <2>1 DEF Good, Typed, Tables, Known, Served, Registered
    <3>2. /\ forms[c].inbounds \in SUBSET Ids /\ forms[c].inbounds \subseteq d.used
          /\ forms[c].config \in Configs /\ c \in DOMAIN forms
      BY <2>1 DEF Good, Typed, Tables
    <3>3. Fresh(d, forms[c].inbounds, forms[c].config) \subseteq Link
      BY <3>2, FreshType DEF Good, Typed
    <3>4. local = Fresh(d, forms[c].inbounds, forms[c].config)
      <4>1. CASE reported = {}
        <5>1. Changes(row, forms[c], c \in switched) = {}
          BY <4>1, <3>2
        <5>2. CASE row.config # forms[c].config \/ c \in switched
          <6>1. row.inbounds = {} /\ forms[c].inbounds = {}
            BY <5>1, <5>2 DEF Changes
          <6> QED
            BY <6>1, <4>1, <3>1 DEF Fresh
        <5>3. CASE row.config = forms[c].config /\ c \notin switched
          <6>1. row.inbounds = forms[c].inbounds
            BY <5>1, <5>3 DEF Changes
          <6> QED
            BY <6>1, <5>3, <4>1, <3>1
        <5> QED
          BY <5>2, <5>3
      <4>2. CASE reported # {}
        BY <4>2
      <4> QED
        BY <4>1, <4>2
    <3>5. rows[c] = [row EXCEPT !.inbounds = forms[c].inbounds, !.config = forms[c].config, !.local = local]
      BY <3>2
    <3> HIDE DEF rows, local
    <3>6. /\ rows[c].inbounds = forms[c].inbounds /\ rows[c].config = forms[c].config
          /\ rows[c].local = local /\ rows[c] \in Client
      BY <3>1, <3>2, <3>3, <3>4, <3>5 DEF Client
    <3> QED
      BY <3>2, <3>4, <3>6
  <2>2. CASE c \notin edited
    BY <2>2 DEF Good, Typed, Tables, Served, Known, Registered
  <2> QED
    BY <2>1, <2>2
<1>2. rows \in [Clients -> Client \union {None}]
  BY <1>1
<1>3. Good([d EXCEPT !.clients = rows])
  <2> HIDE DEF rows
  <2> QED BY <1>1, <1>2, OtherClients DEF Good
<1> QED
  BY <1>3 DEF ClientsEditBulk

\* Clients that are deleted.
LEMMA ClientsDelGood ==
  ASSUME NEW d, Good(d), NEW gone
  PROVE  Good(ClientsDel(d, gone))
<1> DEFINE rows == [c \in Clients |-> IF c \in gone THEN None ELSE d.clients[c]]
<1>1. /\ rows \in [Clients -> Client \union {None}]
      /\ \A c \in Clients : rows[c] # None =>
           /\ rows[c].local = Fresh(d, rows[c].inbounds, rows[c].config)
           /\ rows[c].inbounds \subseteq d.used
  BY DEF Good, Typed, Tables, Served, Known, Registered
<1>2. Good([d EXCEPT !.clients = rows])
  <2> HIDE DEF rows
  <2> QED BY <1>1, OtherClients DEF Good
<1> QED
  BY <1>2 DEF ClientsDel

-----------------------------------------------------------------------------
(* Deletion of an inbound. *)

Gone(d, tag) == {i \in Present(d) : d.inbounds[i].tag = tag}
Without(d, tag) ==
  [d EXCEPT !.inbounds = [i \in Ids |-> IF i \in Gone(d, tag) THEN None ELSE d.inbounds[i]]]

\* The other inbounds stay as they are.
LEMMA Deleted ==
  ASSUME NEW d, Typed(d), Derived(d), NEW tag
  PROVE  LET e == Without(d, tag)
         IN /\ Typed(e) /\ Derived(e) /\ e.clients = d.clients /\ e.used = d.used
            /\ Present(e) = Present(d) \ Gone(d, tag)
            /\ \A j \in Present(e) : \A config :
                 Links(e, e.inbounds[j], config) = Links(d, d.inbounds[j], config)
<1> DEFINE e == Without(d, tag)
<1>1. /\ e.tls = d.tls /\ e.clients = d.clients /\ e.used = d.used
      /\ e.inbounds = [i \in Ids |-> IF i \in Gone(d, tag) THEN None ELSE d.inbounds[i]]
      /\ e \in Tables
  BY DEF Without, Typed, Tables
<1> HIDE DEF e
<1>2. Present(e) = Present(d) \ Gone(d, tag)
  BY <1>1 DEF Present, Gone
<1>3. \A j \in Present(e) : e.inbounds[j] = d.inbounds[j]
  BY <1>1, <1>2 DEF Present
<1>4. \A f : Secured(e, f) = Secured(d, f)
  BY <1>1 DEF Secured
<1>5. Typed(e)
  BY <1>1, <1>2, <1>3 DEF Typed, Unique
<1>6. Derived(e)
  BY <1>2, <1>3, <1>4 DEF Derived, OutJson
<1>7. \A j \in Present(e) : \A config : Links(e, e.inbounds[j], config) = Links(d, d.inbounds[j], config)
  BY <1>3, <1>4 DEF Links
<1> QED
  BY <1>1, <1>2, <1>5, <1>6, <1>7 DEF e

\* Links that bear the tag are those to the inbound that goes.
LEMMA FreshDeleted ==
  ASSUME NEW d, Typed(d), Derived(d), NEW tag, NEW ids \in SUBSET Ids, NEW config
  PROVE  Fresh(Without(d, tag), ids \ Gone(d, tag), config) = Drop(Fresh(d, ids, config), {tag})
<1> DEFINE e == Without(d, tag)
<1>1. /\ Present(e) = Present(d) \ Gone(d, tag)
      /\ \A j \in Present(e) : Links(e, e.inbounds[j], config) = Links(d, d.inbounds[j], config)
  BY Deleted
<1> HIDE DEF e
<1>2. ASSUME NEW l
      PROVE  l \in Fresh(e, ids \ Gone(d, tag), config) <=> l \in Drop(Fresh(d, ids, config), {tag})
  <2>1. ASSUME l \in Fresh(e, ids \ Gone(d, tag), config)
        PROVE  l \in Drop(Fresh(d, ids, config), {tag})
    <3>1. PICK j \in (ids \ Gone(d, tag)) \intersect Present(e) : l \in Links(e, e.inbounds[j], config)
      BY <2>1, FreshHas
    <3>2. j \in ids \intersect Present(d) /\ d.inbounds[j].tag # tag /\ l \in Links(d, d.inbounds[j], config)
      BY <3>1, <1>1 DEF Gone
    <3> QED
      BY <3>2, FreshHas, LinkRemark DEF Drop
  <2>2. ASSUME l \in Drop(Fresh(d, ids, config), {tag})
        PROVE  l \in Fresh(e, ids \ Gone(d, tag), config)
    <3>1. PICK j \in ids \intersect Present(d) : l \in Links(d, d.inbounds[j], config)
      BY <2>2, FreshHas DEF Drop
    <3>2. j \notin Gone(d, tag)
      BY <3>1, <2>2, LinkRemark DEF Drop, Gone
    <3> QED
      BY <3>1, <3>2, <1>1, FreshHas
  <2> QED
    BY <2>1, <2>2
<1> QED
  BY <1>2 DEF e

\* A client that is attached to none of it keeps its links.
LEMMA FreshKept ==
  ASSUME NEW d, Typed(d), Derived(d), NEW tag, NEW ids \in SUBSET Ids,
         ids \intersect Gone(d, tag) = {}, NEW config
  PROVE  Fresh(Without(d, tag), ids, config) = Fresh(d, ids, config)
<1> DEFINE e == Without(d, tag)
<1>1. /\ Present(e) = Present(d) \ Gone(d, tag)
      /\ \A j \in Present(e) : Links(e, e.inbounds[j], config) = Links(d, d.inbounds[j], config)
  BY Deleted
<1> HIDE DEF e
<1>2. ASSUME NEW l PROVE l \in Fresh(e, ids, config) <=> l \in Fresh(d, ids, config)
  BY <1>1, FreshHas
<1> QED
  BY <1>2 DEF e

\* Deleting an inbound keeps the tables good.
LEMMA InboundDelGood ==
  ASSUME NEW d, Good(d), NEW tag
  PROVE  Good(InboundDel(d, tag))
<1> DEFINE e == Without(d, tag)
           gone == Gone(d, tag)
           rows == [c \in Clients |->
             IF \E i \in gone : Attached(d, c, i)
             THEN [d.clients[c] EXCEPT !.inbounds = @ \ gone,
                                       !.local = Drop(@, {tag}),
                                       !.external = @ \ {tag}]
             ELSE d.clients[c]]
<1>1. Typed(e) /\ Derived(e) /\ e.used = d.used
  BY Deleted DEF Good
<1>2. ASSUME NEW c \in Clients
      PROVE  /\ rows[c] \in Client \union {None}
             /\ rows[c] # None => /\ rows[c].local = Fresh(e, rows[c].inbounds, rows[c].config)
                                  /\ rows[c].inbounds \subseteq e.used
  <2> DEFINE row == d.clients[c]
  <2>1. CASE row = None
    BY <2>1 DEF Registered, Attached
  <2>2. CASE row # None
    <3>1. /\ row \in Client /\ row.inbounds \subseteq d.used
          /\ row.local = Fresh(d, row.inbounds, row.config)
      BY <2>2 DEF Good, Typed, Tables, Known, Served, Registered
    <3>2. /\ row.inbounds \in SUBSET Ids /\ row.config \in Configs
          /\ row.local \in SUBSET Link /\ row.external \in SUBSET Tags
      BY <3>1 DEF Client
    <3>3. CASE row.inbounds \intersect gone = {}
      <4>1. Fresh(e, row.inbounds, row.config) = Fresh(d, row.inbounds, row.config)
        BY <3>2, <3>3, FreshKept DEF Good
      <4>2. rows[c] = row
        BY <3>3 DEF Attached
      <4> QED
        BY <4>1, <4>2, <3>1, <1>1
    <3>4. CASE row.inbounds \intersect gone # {}
      <4>1. \E i \in gone : Attached(d, c, i)
        BY <3>4, <2>2 DEF Attached, Registered
      <4>2. /\ rows[c].inbounds = row.inbounds \ gone /\ rows[c].local = Drop(row.local, {tag})
            /\ rows[c].config = row.config /\ rows[c] \in Client
        BY <4>1, <3>1, <3>2 DEF Client, Drop
      <4>3. Fresh(e, row.inbounds \ gone, row.config) = Drop(Fresh(d, row.inbounds, row.config), {tag})
        <5> HIDE DEF rows, row
        <5> QED BY <3>2, FreshDeleted DEF Good
      <4> QED
        <5> HIDE DEF rows, row, e, gone
        <5> QED BY <4>2, <4>3, <3>1, <1>1
    <3> QED
      BY <3>3, <3>4
  <2> QED
    BY <2>1, <2>2
<1>3. rows \in [Clients -> Client \union {None}]
  BY <1>2
<1>4. Good([e EXCEPT !.clients = rows])
  <2> HIDE DEF e, rows
  <2> QED BY <1>1, <1>2, <1>3, OtherClients
<1>5. InboundDel(d, tag) = [e EXCEPT !.clients = rows]
  BY DEF InboundDel, Without, Gone, Good, Typed, Tables
<1> QED
  BY <1>4, <1>5

-----------------------------------------------------------------------------
(* TLS records. *)

Uses(d, t) == {i \in Present(d) : d.inbounds[i].tls = t}
Versioned(d, t, v) == [d EXCEPT !.tls[t] = v]
Renewed(d, t, v) ==
  [Versioned(d, t, v) EXCEPT
     !.inbounds = [i \in Ids |-> IF i \in Uses(d, t) THEN Row(Versioned(d, t, v), d.inbounds[i])
                                 ELSE d.inbounds[i]]]

\* The record is there with its new content, the rest is as it was.
LEMMA VersionedFields ==
  ASSUME NEW d \in Tables, NEW t \in TlsIds, NEW v \in Versions \union {None}
  PROVE  LET e == Versioned(d, t, v)
         IN /\ e \in Tables /\ e.inbounds = d.inbounds /\ e.clients = d.clients /\ e.used = d.used
            /\ Present(e) = Present(d)
            /\ \A form : form.tls # t /\ form.tls \in TlsIds \union {None}
                 => Secured(e, form) = Secured(d, form)
BY NoneAssumption DEF Versioned, Tables, Present, Secured

\* Rows that name the record are derived anew, and only their links change.
LEMMA RenewedFields ==
  ASSUME NEW d, Typed(d), Derived(d), NEW t \in TlsIds, NEW v \in Versions
  PROVE  LET e == Versioned(d, t, v)
             f == Renewed(d, t, v)
         IN /\ Typed(f) /\ Derived(f) /\ f.used = d.used /\ Present(f) = Present(d)
            /\ \A j \in Present(d) : \A config :
                 Links(f, f.inbounds[j], config) = Links(e, d.inbounds[j], config)
            /\ \A j \in Present(d) \ Uses(d, t) : \A config :
                 Links(f, f.inbounds[j], config) = Links(d, d.inbounds[j], config)
<1> DEFINE e == Versioned(d, t, v)
           f == Renewed(d, t, v)
<1>1. /\ e \in Tables /\ e.inbounds = d.inbounds /\ e.clients = d.clients /\ e.used = d.used
      /\ \A form : form.tls # t /\ form.tls \in TlsIds \union {None} => Secured(e, form) = Secured(d, form)
  BY VersionedFields DEF Typed
<1>2. \A i \in Present(d) : d.inbounds[i] \in Inbound
  BY DEF Typed, Tables, Present
<1>3. \A i \in Present(d) : /\ Row(e, d.inbounds[i]) \in Inbound
                            /\ Row(e, d.inbounds[i]).out = OutJson(e, Row(e, d.inbounds[i]))
                            /\ Secured(e, Row(e, d.inbounds[i])) = Secured(e, d.inbounds[i])
  BY <1>1, <1>2, RowType DEF Inbound
<1> HIDE DEF e
<1>4. /\ f.tls = e.tls /\ f.clients = e.clients /\ f.used = e.used
      /\ f.inbounds = [i \in Ids |-> IF i \in Uses(d, t) THEN Row(e, d.inbounds[i]) ELSE d.inbounds[i]]
      /\ f \in Tables
  BY <1>1, <1>3 DEF Renewed, Tables, Typed, Uses, e
<1> HIDE DEF f
<1>5. Present(f) = Present(d)
  BY <1>3, <1>4, NoneAssumption DEF Present, Uses
<1>6. \A j \in Present(d) : /\ f.inbounds[j].tag = d.inbounds[j].tag
                            /\ f.inbounds[j].content = d.inbounds[j].content
                            /\ f.inbounds[j].tls = d.inbounds[j].tls
  BY <1>4 DEF Present, Row
<1>7. \A g : Secured(f, g) = Secured(e, g)
  BY <1>4 DEF Secured
<1>8. \A j \in Present(d) : Secured(f, f.inbounds[j]) = Secured(e, d.inbounds[j])
  BY <1>6, <1>7 DEF Secured
<1>9. \A j \in Present(d) \ Uses(d, t) : Secured(e, d.inbounds[j]) = Secured(d, d.inbounds[j])
  BY <1>1, <1>2 DEF Uses, Inbound
<1>10. Typed(f)
  BY <1>1, <1>4, <1>5, <1>6 DEF Typed, Unique
<1>11. ASSUME NEW i \in Present(f) PROVE f.inbounds[i].out = OutJson(f, f.inbounds[i])
  <2>1. CASE i \in Uses(d, t)
    <3>1. f.inbounds[i] = Row(e, d.inbounds[i])
      BY <2>1, <1>4, <1>5 DEF Present
    <3>2. f.inbounds[i].out = OutJson(e, f.inbounds[i])
      BY <3>1, <1>3, <1>5
    <3> QED
      BY <3>2, <1>7 DEF OutJson
  <2>2. CASE i \notin Uses(d, t)
    <3>1. f.inbounds[i] = d.inbounds[i] /\ d.inbounds[i].out = OutJson(d, d.inbounds[i])
      BY <2>2, <1>4, <1>5 DEF Present, Derived
    <3>2. Secured(f, f.inbounds[i]) = Secured(d, d.inbounds[i])
      BY <2>2, <1>5, <1>8, <1>9
    <3> QED
      BY <3>1, <3>2 DEF OutJson
  <2> QED
    BY <2>1, <2>2
<1>12. Derived(f)
  BY <1>11 DEF Derived
<1>13. \A j \in Present(d) : \A config : Links(f, f.inbounds[j], config) = Links(e, d.inbounds[j], config)
  BY <1>6, <1>8 DEF Links
<1>14. \A j \in Present(d) \ Uses(d, t) : \A config :
         Links(f, f.inbounds[j], config) = Links(d, d.inbounds[j], config)
  BY <1>6, <1>8, <1>9 DEF Links
<1> QED
  BY <1>1, <1>4, <1>5, <1>10, <1>12, <1>13, <1>14 DEF e, f

\* The tags of those of the rows ids that name the record.
OldTags(d, t, ids) == {d.inbounds[i].tag : i \in Uses(d, t) \intersect ids}

\* The links a client has after its links to these rows are made anew.
LEMMA FreshRenewed ==
  ASSUME NEW d, Typed(d), Derived(d), NEW t \in TlsIds, NEW v \in Versions,
         NEW ids \in SUBSET Ids, NEW config
  PROVE  Fresh(Renewed(d, t, v), ids, config) =
           Drop(Fresh(d, ids, config), OldTags(d, t, ids))
             \union Fresh(Versioned(d, t, v), Uses(d, t) \intersect ids, config)
<1> DEFINE e == Versioned(d, t, v)
           f == Renewed(d, t, v)
           uses == Uses(d, t)
           old == OldTags(d, t, ids)
<1>1. /\ Present(f) = Present(d)
      /\ \A j \in Present(d) : Links(f, f.inbounds[j], config) = Links(e, d.inbounds[j], config)
      /\ \A j \in Present(d) \ uses : Links(f, f.inbounds[j], config) = Links(d, d.inbounds[j], config)
  <2> HIDE DEF e, f, uses, old
  <2>1. /\ Present(f) = Present(d)
        /\ \A j \in Present(d) : \A c : Links(f, f.inbounds[j], c) = Links(e, d.inbounds[j], c)
        /\ \A j \in Present(d) \ uses : \A c : Links(f, f.inbounds[j], c) = Links(d, d.inbounds[j], c)
    BY RenewedFields, Zenon DEF e, f, uses
  <2> QED
    BY <2>1, Zenon
<1>2. Present(e) = Present(d) /\ e.inbounds = d.inbounds
  BY VersionedFields DEF Typed
<1>3. uses \subseteq Present(d)
  BY DEF Uses
<1>4. \A j \in Present(d) : d.inbounds[j].tag \in old <=> j \in uses \intersect ids
  BY <1>3 DEF Typed, Unique, OldTags
<1> HIDE DEF e, f, uses, old
<1>5. ASSUME NEW l
      PROVE  l \in Fresh(f, ids, config)
               <=> l \in Drop(Fresh(d, ids, config), old) \union Fresh(e, uses \intersect ids, config)
  <2>1. ASSUME l \in Fresh(f, ids, config)
        PROVE  l \in Drop(Fresh(d, ids, config), old) \union Fresh(e, uses \intersect ids, config)
    <3>1. PICK j \in ids \intersect Present(f) : l \in Links(f, f.inbounds[j], config)
      BY <2>1, FreshHas
    <3>2. CASE j \in uses
      BY <3>1, <3>2, <1>1, <1>2, FreshHas
    <3>3. CASE j \notin uses
      <4>1. l \in Links(d, d.inbounds[j], config) /\ j \in ids \intersect Present(d)
        BY <3>1, <3>3, <1>1
      <4>2. l.remark \notin old
        BY <4>1, <3>3, <1>4, LinkRemark
      <4> QED
        BY <4>1, <4>2, FreshHas DEF Drop
    <3> QED
      BY <3>2, <3>3
  <2>2. ASSUME l \in Drop(Fresh(d, ids, config), old)
        PROVE  l \in Fresh(f, ids, config)
    <3>1. PICK j \in ids \intersect Present(d) : l \in Links(d, d.inbounds[j], config)
      BY <2>2, FreshHas DEF Drop
    <3>2. j \notin uses
      BY <3>1, <2>2, <1>4, LinkRemark DEF Drop
    <3> QED
      BY <3>1, <3>2, <1>1, FreshHas
  <2>3. ASSUME l \in Fresh(e, uses \intersect ids, config)
        PROVE  l \in Fresh(f, ids, config)
    BY <2>3, <1>1, <1>2, FreshHas
  <2> QED
    BY <2>1, <2>2, <2>3
<1> QED
  BY <1>5 DEF e, f, uses, old

\* Saving a TLS record keeps the tables good.
LEMMA TlsSaveGood ==
  ASSUME NEW d, Good(d), NEW t \in TlsIds, NEW v \in Versions
  PROVE  Good(TlsSave(d, t, v))
<1> DEFINE e == Versioned(d, t, v)
           f == Renewed(d, t, v)
           uses == Uses(d, t)
           rows == [c \in Clients |->
             IF c \in Registered(d)
             THEN Relinked(e, c, uses, OldTags(d, t, d.clients[c].inbounds))
             ELSE None]
<1>1. Typed(f) /\ Derived(f) /\ f.used = d.used
  BY RenewedFields DEF Good
<1>2. e \in Tables /\ e.clients = d.clients
  BY VersionedFields DEF Good, Typed
<1>3. ASSUME NEW c \in Clients
      PROVE  /\ rows[c] \in Client \union {None}
             /\ rows[c] # None => /\ rows[c].local = Fresh(f, rows[c].inbounds, rows[c].config)
                                  /\ rows[c].inbounds \subseteq f.used
  <2> DEFINE row == d.clients[c]
             old == OldTags(d, t, row.inbounds)
             local == Drop(row.local, old) \union Fresh(e, uses \intersect row.inbounds, row.config)
  <2>1. CASE row = None
    BY <2>1 DEF Registered
  <2>2. CASE row # None
    <3>1. /\ row \in Client /\ row.inbounds \subseteq d.used
          /\ row.local = Fresh(d, row.inbounds, row.config)
      BY <2>2 DEF Good, Typed, Tables, Known, Served, Registered
    <3>2. /\ row.inbounds \in SUBSET Ids /\ row.config \in Configs /\ row.local \in SUBSET Link
      BY <3>1 DEF Client
    <3>3. uses \intersect row.inbounds \in SUBSET Ids
      BY <3>2
    <3>4. Fresh(e, uses \intersect row.inbounds, row.config) \subseteq Link
      BY <1>2, <3>2, <3>3, FreshType
    <3>5. rows[c] = [row EXCEPT !.local = local]
      <4> HIDE DEF e, uses
      <4> QED BY <1>2, <2>2 DEF Relinked, Registered
    <3>6. local \in SUBSET Link
      BY <3>2, <3>4 DEF Drop
    <3>7. /\ rows[c].inbounds = row.inbounds /\ rows[c].config = row.config
          /\ rows[c].local = local /\ rows[c] \in Client
      <4> HIDE DEF rows, local
      <4> QED BY <3>1, <3>5, <3>6 DEF Client
    <3>8. Fresh(f, row.inbounds, row.config) =
            Drop(Fresh(d, row.inbounds, row.config), old)
              \union Fresh(e, uses \intersect row.inbounds, row.config)
      <4>1. \A ids \in SUBSET Ids : \A config :
              Fresh(Renewed(d, t, v), ids, config) =
                Drop(Fresh(d, ids, config), OldTags(d, t, ids))
                  \union Fresh(Versioned(d, t, v), Uses(d, t) \intersect ids, config)
        BY FreshRenewed DEF Good
      <4> HIDE DEF rows, row
      <4> QED BY <3>2, <4>1, Zenon
    <3> QED
      <4> HIDE DEF rows, row, e, f, old, uses
      <4> QED BY <3>1, <3>7, <3>8, <1>1
  <2> QED
    BY <2>1, <2>2
<1>4. rows \in [Clients -> Client \union {None}]
  BY <1>3
<1>5. Good([f EXCEPT !.clients = rows])
  <2> HIDE DEF f, rows
  <2> QED BY <1>1, <1>3, <1>4, OtherClients
<1>6. TlsSave(d, t, v) = [f EXCEPT !.clients = rows]
  BY DEF TlsSave, Renewed, Versioned, Uses, OldTags, Good, Typed, Tables
<1> QED
  BY <1>5, <1>6

\* Deleting a TLS record keeps the tables good.
LEMMA TlsDelGood ==
  ASSUME NEW d, Good(d), NEW t \in TlsIds, TlsFree(d, t)
  PROVE  Good(TlsDel(d, t))
<1> DEFINE e == Versioned(d, t, None)
<1>1. /\ e \in Tables /\ e.inbounds = d.inbounds /\ e.clients = d.clients /\ e.used = d.used
      /\ Present(e) = Present(d)
      /\ \A form : form.tls # t /\ form.tls \in TlsIds \union {None} => Secured(e, form) = Secured(d, form)
  BY VersionedFields DEF Good, Typed
<1> HIDE DEF e
<1>2. \A j \in Present(d) : Secured(e, d.inbounds[j]) = Secured(d, d.inbounds[j])
  BY <1>1 DEF Good, Typed, Tables, Present, Inbound, TlsFree
<1>3. \A j \in Present(d) : \A config : Links(e, d.inbounds[j], config) = Links(d, d.inbounds[j], config)
  BY <1>2 DEF Links
<1>4. ASSUME NEW ids, NEW config PROVE Fresh(e, ids, config) = Fresh(d, ids, config)
  <2>1. ASSUME NEW l PROVE l \in Fresh(e, ids, config) <=> l \in Fresh(d, ids, config)
    BY <1>1, <1>3, FreshHas
  <2> QED
    BY <2>1
<1>5. Typed(e) /\ Known(e)
  BY <1>1 DEF Good, Typed, Unique, Known, Registered
<1>6. Served(e)
  BY <1>1, <1>4 DEF Good, Served, Registered
<1>7. Derived(e)
  BY <1>1, <1>2 DEF Good, Derived, OutJson
<1>8. TlsDel(d, t) = e
  BY DEF TlsDel, Versioned, e
<1> QED
  BY <1>5, <1>6, <1>7, <1>8 DEF Good

-----------------------------------------------------------------------------
(* The invariant. *)

IInv == Good(db)

\* Empty tables are good.
LEMMA InitGood == Init => IInv
BY DEF IInv, Init, Empty, Good, Typed, Unique, Served, Derived, Known, Tables, Present, Registered

\* Every request keeps the tables good.
LEMMA NextGood == IInv /\ [Next]_db => IInv'
<1> SUFFICES ASSUME Good(db), [Next]_db PROVE Good(db')
  BY DEF IInv
<1>1. CASE SaveInbound
  BY <1>1, InboundNewGood, InboundEditGood DEF SaveInbound, Good, Typed, Tables
<1>2. CASE DelInbound
  BY <1>2, InboundDelGood DEF DelInbound
<1>3. CASE SaveTls
  BY <1>3, TlsSaveGood DEF SaveTls
<1>4. CASE DelTls
  BY <1>4, TlsDelGood DEF DelTls
<1>5. CASE AddClients
  BY <1>5, ClientsPutGood DEF AddClients
<1>6. CASE EditClient
  <2>1. PICK c \in Registered(db), form \in ClientForm :
          form.inbounds \subseteq db.used /\ db' = ClientsPut(db, [x \in {c} |-> form])
    BY <1>6 DEF EditClient
  <2>2. /\ {c} \in SUBSET Clients
        /\ [x \in {c} |-> form] \in [{c} -> {f \in ClientForm : f.inbounds \subseteq db.used}]
    BY <2>1 DEF Registered
  <2> QED
    BY <2>1, <2>2, ClientsPutGood
<1>7. CASE EditClients
  BY <1>7, ClientsEditBulkGood DEF EditClients
<1>8. CASE DelClients
  BY <1>8, ClientsDelGood DEF DelClients
<1>9. CASE UNCHANGED db
  BY <1>9
<1> QED
  BY <1>1, <1>2, <1>3, <1>4, <1>5, <1>6, <1>7, <1>8, <1>9 DEF Next

\* Whatever requests are made, in any order and from forms of any age: the tables have
\* their types and tags stay unique.
THEOREM TypeCorrect == Spec => []TypeOK
<1>1. IInv => TypeOK
  BY DEF IInv, Good, Typed, Unique, TypeOK
<1> QED
  BY <1>1, InitGood, NextGood, PTL DEF Spec

\* Every client is served exactly the links of the inbounds it is attached to.
THEOREM LinksAlwaysFollow == Spec => []LinksFollow
<1>1. IInv => LinksFollow
  BY DEF IInv, Good, Served, LinksFollow
<1> QED
  BY <1>1, InitGood, NextGood, PTL DEF Spec

\* The client side of every inbound is derived from the row and its TLS record.
THEOREM OutJsonAlwaysFollows == Spec => []OutJsonFollows
<1>1. IInv => OutJsonFollows
  BY DEF IInv, Good, Derived, OutJsonFollows
<1> QED
  BY <1>1, InitGood, NextGood, PTL DEF Spec

-----------------------------------------------------------------------------
\* PanelSync (Panel), for any number of panels, kinds of object, changes and restarts.  The invariant:
\* what a panel does not know the server will tell it, from memory now and from the change log
\* after a restart; seconds only go up along the log; and a change that is announced before it
\* is committed is either still to be told or counted as missed.

\* What a panel shows is as committed, or it is blind to the rest.
Shown(p, o) == seen[p][o] = version[o] \/ o \in blind[p]
Awaits(p) == \E b \in owed : b.dt > lastLoad[p]

\* What a panel does not know it will be told, now and after a restart.
Told ==
  \A p \in Panels, o \in Objects :
    /\ Shown(p, o) \/ Panel!Changed(p) \/ Awaits(p)
    /\ Shown(p, o) \/ lastLoad[p] = 0 \/ logged > lastLoad[p]

\* Seconds go up: of the loads, the change log, and the transactions one after the other.
Kinds == {"save", "ban", "job", "reset"}
Times ==
  /\ logged <= now /\ lastUpdate <= now /\ \A p \in Panels : lastLoad[p] <= now
  /\ \A b \in owed : b.dt \in 1..now
  /\ tx # None => /\ tx.dt \in 1..now /\ logged <= tx.dt
                  /\ tx.stamped => lastUpdate # 0
                  /\ tx.obj \in Objects /\ tx.kind \in Kinds
  /\ lastUpdate = 0 /\ owed # {} => \E b \in owed : b.dt >= logged

\* A change that is announced before it is committed.
Announced ==
  tx # None /\ tx.stamped =>
    \A p \in Panels : \/ tx.obj \in blind[p] \/ lastLoad[p] = 0
                      \/ lastLoad[p] >= tx.dt \/ lastUpdate > lastLoad[p]

\* Versions count transactions; the answer to a save is about an object.
Saves == [Panels -> [step : {"none", "wait", "read", "answer"}, obj : Objects, ver : Panel!Numbers]]
Counted ==
  /\ changes \in 0..MaxChanges
  /\ \A o \in Objects : version[o] <= changes /\ (tx # None => version[o] < changes)
  /\ save \in Saves /\ DOMAIN poll = Panels

PanelInv == Panel!TypeOK /\ Times /\ Told /\ Announced /\ Counted

\* A step that changes nothing a panel is told by.
LEMMA ToldSame ==
  ASSUME Told, UNCHANGED <<version, lastUpdate, logged, owed, lastLoad, seen, blind>>
  PROVE  Told'
BY DEF Told, Shown, Panel!Changed, Awaits

\* Where its variables do not change, Announced holds on.
LEMMA AnnouncedSame ==
  ASSUME Announced, UNCHANGED <<tx, lastUpdate, lastLoad>>,
         \A p \in Panels : blind[p] \subseteq blind'[p]
  PROVE  Announced'
BY DEF Announced

\* The clock goes on, or a transaction begins.
LEMMA BeginStep ==
  ASSUME Panel!BoundAssumption, Panel!NameAssumption, PanelInv,
         \/ Panel!Tick \/ Panel!BeginJob \/ Panel!BeginReset
         \/ \E p \in Panels : Panel!BeginBan(p) \/ \E o \in Objects : Panel!BeginSave(p, o)
  PROVE  PanelInv'
<1>a. Panel!TypeOK /\ Times /\ Told /\ Announced /\ Counted
  BY DEF PanelInv
<1>b. /\ now \in Nat /\ lastUpdate \in Nat /\ logged \in Nat /\ changes \in Nat
      /\ \A p \in Panels : lastLoad[p] \in Nat
      /\ MaxTime \in Nat /\ MaxChanges \in Nat
  BY <1>a DEF Panel!TypeOK, Counted, Panel!BoundAssumption
<1>1. CASE Panel!Tick
  <2>1. /\ now' = now + 1 /\ now < MaxTime
        /\ UNCHANGED <<version, lastUpdate, logged, tx, owed, lastLoad, seen, poll, save, blind,
                       changes>>
    BY <1>1 DEF Panel!Tick, Panel!server, Panel!panel
  <2>2. Panel!TypeOK'
    BY <1>a, <1>b, <2>1 DEF Panel!TypeOK, Panel!Numbers
  <2>3. Times'
    <3>1. \A x \in 1..now : x \in 1..now'
      BY <1>b, <2>1
    <3>2. \A x \in Nat : x <= now => x <= now'
      BY <1>b, <2>1
    <3> QED
      BY <1>a, <1>b, <2>1, <3>1, <3>2 DEF Times
  <2>4. Told' /\ Announced' /\ Counted'
    BY <1>a, <2>1, ToldSame, AnnouncedSame DEF Counted, Saves, Panel!Numbers
  <2> QED
    BY <2>2, <2>3, <2>4 DEF PanelInv
<1>2. ASSUME NEW by, NEW kind \in Kinds, NEW o \in Objects, Panel!Begin(by, kind, o),
             \/ UNCHANGED save
             \/ \E p \in Panels : Panel!Saving(p, "wait", o)
      PROVE  PanelInv'
  <2>1. /\ tx = None /\ changes < MaxChanges /\ changes' = changes + 1
        /\ tx' = [by |-> by, kind |-> kind, obj |-> o, dt |-> now, stamped |-> FALSE]
        /\ UNCHANGED <<now, version, lastUpdate, logged, owed, lastLoad, seen, poll, blind>>
    BY <1>2 DEF Panel!Begin
  <2>2. Panel!TypeOK'
    BY <1>a, <2>1 DEF Panel!TypeOK, Panel!Numbers
  <2>3. Times'
    BY <1>a, <1>b, <2>1 DEF Times, Panel!TypeOK
  <2>4. Told' /\ Announced'
    BY <1>a, <2>1, ToldSame DEF Announced
  <2>5. version[o] \in Panel!Numbers
    BY <1>a DEF Panel!TypeOK
  <2>6. save' \in Saves
    BY <1>a, <1>2, <2>5 DEF Counted, Saves, Panel!Saving
  <2>7. /\ changes' \in 0..MaxChanges
        /\ \A x \in Objects : version'[x] <= changes' /\ (tx' # None => version'[x] < changes')
    BY <1>a, <1>b, <2>1 DEF Counted, Saves, Panel!TypeOK, Panel!Numbers
  <2>8. Counted'
    BY <1>a, <2>1, <2>6, <2>7 DEF Counted, Saves, Panel!Numbers
  <2> QED
    BY <2>2, <2>3, <2>4, <2>8 DEF PanelInv
<1> QED
  BY <1>1, <1>2 DEF Panel!BeginJob, Panel!BeginReset, Panel!BeginBan, Panel!BeginSave,
     Panel!NameAssumption, Kinds

\* LastUpdate is set to the second dt, which is no earlier than the change log if LastUpdate
\* was not set.
LEMMA SetTold ==
  ASSUME PanelInv, NEW dt \in Nat \ {0}, lastUpdate' = dt, Panel!SetBack(dt),
         UNCHANGED <<version, logged, lastLoad, seen>>,
         lastUpdate = 0 => \A p \in Panels : logged > lastLoad[p] => dt > lastLoad[p] \/ Awaits(p)',
         \A p \in Panels : Awaits(p) => dt > lastLoad[p] \/ Awaits(p)'
  PROVE  /\ Told' /\ blind' \in [Panels -> SUBSET Objects]
         /\ \A p \in Panels : blind[p] \subseteq blind'[p]
<1>a. Panel!TypeOK /\ Told
  BY DEF PanelInv
<1>b. /\ lastUpdate \in Nat /\ logged \in Nat /\ \A p \in Panels : lastLoad[p] \in Nat
  BY <1>a DEF Panel!TypeOK
<1>1. /\ blind' = [p \in Panels |-> IF lastUpdate > lastLoad[p] /\ lastLoad[p] >= dt
                                   THEN blind[p] \union Panel!Stale(p) ELSE blind[p]]
      /\ \A p \in Panels : Panel!Stale(p) \subseteq Objects /\ blind[p] \subseteq Objects
  BY <1>a DEF Panel!SetBack, Panel!Stale, Panel!TypeOK
<1>2. /\ blind' \in [Panels -> SUBSET Objects]
      /\ \A p \in Panels : blind[p] \subseteq blind'[p]
  BY <1>1
<1>3. ASSUME NEW p \in Panels, NEW o \in Objects
      PROVE  /\ Shown(p, o)' \/ Panel!Changed(p)' \/ Awaits(p)'
             /\ Shown(p, o)' \/ lastLoad'[p] = 0 \/ logged' > lastLoad'[p]
  <2>1. Shown(p, o) => Shown(p, o)'
    BY <1>2 DEF Shown
  <2>2. /\ Shown(p, o) \/ Panel!Changed(p) \/ Awaits(p)
        /\ Shown(p, o) \/ lastLoad[p] = 0 \/ logged > lastLoad[p]
    BY <1>a DEF Told
  <2>3. CASE Shown(p, o)
    BY <2>1, <2>3
  <2>4. CASE dt > lastLoad[p] \/ lastLoad[p] = 0
    BY <2>1, <2>2, <2>4 DEF Panel!Changed
  <2>5. CASE Awaits(p)
    BY <2>1, <2>2, <2>4, <2>5
  <2>6. CASE ~ Shown(p, o) /\ ~ Awaits(p) /\ lastLoad[p] # 0 /\ lastLoad[p] >= dt
    <3>1. CASE lastUpdate = 0
      BY <2>2, <2>4, <2>6, <3>1
    <3>2. CASE lastUpdate # 0
      <4>1. lastUpdate > lastLoad[p]
        BY <2>2, <2>6, <3>2 DEF Panel!Changed
      <4>2. o \in Panel!Stale(p)
        BY <2>6 DEF Shown, Panel!Stale
      <4> QED
        BY <1>1, <2>6, <4>1, <4>2 DEF Shown
    <3> QED
      BY <3>1, <3>2
  <2> QED
    BY <1>b, <2>3, <2>4, <2>5, <2>6
<1> QED
  BY <1>2, <1>3 DEF Told

\* LastUpdate is set: by the transaction before it commits, or for a ban.
LEMMA StampStep ==
  ASSUME Panel!BoundAssumption, PanelInv, Panel!Stamp
  PROVE  PanelInv'
<1>a. Panel!TypeOK /\ Times /\ Told /\ Announced /\ Counted
  BY DEF PanelInv
<1>b. /\ now \in Nat /\ lastUpdate \in Nat /\ logged \in Nat
      /\ \A p \in Panels : lastLoad[p] \in Nat
  BY <1>a DEF Panel!TypeOK
<1> DEFINE dt == IF tx.kind = "save" THEN now ELSE tx.dt
<1>1. /\ tx # None /\ tx' = [tx EXCEPT !.dt = dt, !.stamped = TRUE]
      /\ lastUpdate' = dt /\ Panel!SetBack(dt)
      /\ UNCHANGED <<now, version, logged, owed, lastLoad, seen, poll, save, changes>>
  BY DEF Panel!Stamp, Panel!panel
<1>2. dt \in 1..now /\ logged <= dt
  BY <1>a, <1>b, <1>1 DEF Times, Panel!TypeOK
<1> HIDE DEF dt
<1>3. /\ Told' /\ blind' \in [Panels -> SUBSET Objects]
      /\ \A p \in Panels : blind[p] \subseteq blind'[p]
  <2>1. \A p \in Panels : Awaits(p) => Awaits(p)'
    BY <1>1 DEF Awaits
  <2>2. \A p \in Panels : logged > lastLoad[p] => dt > lastLoad[p]
    BY <1>b, <1>2
  <2>3. dt \in Nat \ {0}
    BY <1>b, <1>2
  <2> QED
    BY <1>1, <2>1, <2>2, <2>3, SetTold
<1>4. Panel!TypeOK'
  <2>1. lastUpdate' \in 0..MaxTime
    BY <1>a, <1>1, <1>2 DEF Panel!TypeOK, Panel!BoundAssumption
  <2> QED
    BY <1>a, <1>1, <1>3, <2>1 DEF Panel!TypeOK, Panel!Numbers
<1>5. tx'.dt = dt /\ tx'.obj = tx.obj /\ tx'.kind = tx.kind
  BY <1>1
<1>6. Times'
  BY <1>a, <1>b, <1>1, <1>2, <1>5 DEF Times
<1>7. Announced'
  BY <1>b, <1>1, <1>2, <1>5 DEF Announced
<1>8. Counted'
  BY <1>a, <1>1 DEF Counted, Saves, Panel!Numbers
<1> QED
  BY <1>3, <1>4, <1>6, <1>7, <1>8 DEF PanelInv

\* A ban that sets LastUpdate after its commit keeps the invariant.
LEMMA StampBanStep ==
  ASSUME Panel!BoundAssumption, PanelInv, NEW b \in owed, Panel!StampBan(b)
  PROVE  PanelInv'
<1>a. Panel!TypeOK /\ Times /\ Told /\ Announced /\ Counted
  BY DEF PanelInv
<1>b. /\ now \in Nat /\ lastUpdate \in Nat /\ logged \in Nat
      /\ \A p \in Panels : lastLoad[p] \in Nat
      /\ \A x \in owed : x.dt \in Nat
  BY <1>a DEF Panel!TypeOK, Times
<1>1. /\ owed' = owed \ {b} /\ lastUpdate' = b.dt /\ Panel!SetBack(b.dt)
      /\ save' = [save EXCEPT ![b.by].step = "read"]
      /\ UNCHANGED <<now, version, logged, tx, lastLoad, seen, poll, changes>>
  BY DEF Panel!StampBan
<1>2. b.dt \in 1..now /\ b.dt \in Nat \ {0}
  BY <1>a, <1>b DEF Times
<1>3. \A p \in Panels, x \in owed : x.dt > lastLoad[p] => b.dt > lastLoad[p] \/ Awaits(p)'
  BY <1>1 DEF Awaits
<1>4. lastUpdate = 0 => \A p \in Panels : logged > lastLoad[p] => b.dt > lastLoad[p] \/ Awaits(p)'
  <2> SUFFICES ASSUME lastUpdate = 0, NEW p \in Panels, logged > lastLoad[p]
               PROVE  b.dt > lastLoad[p] \/ Awaits(p)'
    OBVIOUS
  <2>1. PICK x \in owed : x.dt >= logged
    BY <1>a DEF Times
  <2>2. x.dt > lastLoad[p]
    BY <1>b, <2>1
  <2> QED
    BY <1>3, <2>2
<1>5. /\ Told' /\ blind' \in [Panels -> SUBSET Objects]
      /\ \A p \in Panels : blind[p] \subseteq blind'[p]
  <2>1. \A p \in Panels : Awaits(p) => b.dt > lastLoad[p] \/ Awaits(p)'
    BY <1>3 DEF Awaits
  <2> QED
    BY <1>1, <1>2, <1>4, <2>1, SetTold
<1>6. Panel!TypeOK'
  <2>1. lastUpdate' \in 0..MaxTime
    BY <1>a, <1>1, <1>2 DEF Panel!TypeOK, Panel!BoundAssumption
  <2> QED
    BY <1>a, <1>1, <1>5, <2>1 DEF Panel!TypeOK, Panel!Numbers
<1>7. Times'
  BY <1>a, <1>b, <1>1, <1>2 DEF Times
<1>8. Announced'
  <2> SUFFICES ASSUME tx # None, tx.stamped, NEW p \in Panels
               PROVE  \/ tx.obj \in blind'[p] \/ lastLoad[p] = 0
                      \/ lastLoad[p] >= tx.dt \/ lastUpdate' > lastLoad[p]
    BY <1>1 DEF Announced
  <2>1. \/ tx.obj \in blind[p] \/ lastLoad[p] = 0
        \/ lastLoad[p] >= tx.dt \/ lastUpdate > lastLoad[p]
    BY <1>a DEF Announced
  <2>2. CASE lastUpdate > lastLoad[p] /\ lastLoad[p] >= b.dt
    <3>1. tx.obj \in Panel!Stale(p)
      BY <1>a DEF Times, Panel!Stale
    <3> QED
      BY <1>1, <2>2, <3>1 DEF Panel!SetBack
  <2> QED
    BY <1>b, <1>1, <1>2, <1>5, <2>1, <2>2
<1>9. Counted'
  BY <1>a, <1>1 DEF Counted, Saves, Panel!Numbers
<1> QED
  BY <1>5, <1>6, <1>7, <1>8, <1>9 DEF PanelInv

\* A transaction commits: who is neither told by LastUpdate nor by a ban still to come has
\* loaded since its second began.
LEMMA CommitStep ==
  ASSUME Panel!BoundAssumption, PanelInv, Panel!Commit
  PROVE  PanelInv'
<1>a. Panel!TypeOK /\ Times /\ Told /\ Announced /\ Counted
  BY DEF PanelInv
<1>b. /\ now \in Nat /\ lastUpdate \in Nat /\ logged \in Nat /\ changes \in Nat
      /\ \A p \in Panels : lastLoad[p] \in Nat
      /\ \A o \in Objects : version[o] \in Nat
  BY <1>a DEF Panel!TypeOK, Counted, Saves, Panel!Numbers
<1>1. /\ tx # None /\ (tx.stamped \/ tx.kind \in {"ban", "reset"}) /\ tx' = None
      /\ version' = [version EXCEPT ![tx.obj] = @ + 1]
      /\ logged' = IF tx.kind = "reset" THEN logged ELSE Panel!Later(logged, tx.dt)
      /\ owed' = IF tx.kind = "ban" THEN owed \union {[by |-> tx.by, dt |-> tx.dt]} ELSE owed
      /\ blind' = [p \in Panels |-> IF Panel!Misses(p) THEN blind[p] \union {tx.obj} ELSE blind[p]]
      /\ save' = IF tx.kind = "save" THEN [save EXCEPT ![tx.by].step = "read"] ELSE save
      /\ UNCHANGED <<now, lastUpdate, lastLoad, seen, poll, changes>>
  BY DEF Panel!Commit
<1>2. /\ tx.dt \in 1..now /\ tx.dt \in Nat /\ logged <= tx.dt /\ tx.obj \in Objects
      /\ tx.kind \in Kinds /\ (tx.stamped => lastUpdate # 0)
  BY <1>a, <1>b, <1>1 DEF Times
<1>3. /\ logged' = (IF tx.kind = "reset" THEN logged ELSE tx.dt)
      /\ logged' >= logged /\ logged' \in 0..now
  BY <1>a, <1>b, <1>1, <1>2 DEF Panel!Later, Times
<1>4. /\ blind' \in [Panels -> SUBSET Objects]
      /\ \A p \in Panels : blind[p] \subseteq blind'[p] /\ (Panel!Misses(p) => tx.obj \in blind'[p])
  BY <1>a, <1>1, <1>2 DEF Panel!TypeOK
<1>5. /\ \A o \in Objects : version'[o] \in Nat /\ version'[o] <= changes
      /\ \A o \in Objects \ {tx.obj} : version'[o] = version[o]
  BY <1>a, <1>b, <1>1, <1>2 DEF Counted, Saves, Panel!TypeOK
<1>6. Panel!TypeOK'
  <2>1. version' \in [Objects -> Panel!Numbers]
    <3>1. \A o \in Objects : version'[o] \in Panel!Numbers
      BY <1>a, <1>b, <1>5 DEF Counted, Saves, Panel!Numbers, Panel!BoundAssumption
    <3>2. version' = [o \in Objects |-> version'[o]]
      BY <1>a, <1>1 DEF Panel!TypeOK
    <3> QED
      BY <3>1, <3>2
  <2>2. logged' \in 0..MaxTime
    BY <1>a, <1>b, <1>3 DEF Panel!TypeOK, Panel!BoundAssumption
  <2> QED
    BY <1>a, <1>1, <1>4, <2>1, <2>2 DEF Panel!TypeOK, Panel!Numbers
<1>7. Times'
  <2>1. lastUpdate = 0 /\ owed' # {} => \E b \in owed' : b.dt >= logged'
    <3> SUFFICES ASSUME lastUpdate = 0, owed' # {}
                 PROVE  \E b \in owed' : b.dt >= logged'
      OBVIOUS
    <3>1. CASE tx.kind = "ban"
      <4> DEFINE b == [by |-> tx.by, dt |-> tx.dt]
      <4>1. b \in owed' /\ b.dt = tx.dt /\ logged' = tx.dt
        BY <1>1, <1>3, <3>1
      <4> QED
        BY <1>2, <4>1
    <3>2. CASE tx.kind = "reset"
      BY <1>a, <1>1, <1>3, <3>2 DEF Times
    <3>3. CASE tx.stamped
      BY <1>2, <3>3
    <3> QED
      BY <1>1, <3>1, <3>2, <3>3
  <2>2. \A b \in owed' : b.dt \in 1..now
    BY <1>a, <1>1, <1>2 DEF Times
  <2> QED
    BY <1>a, <1>b, <1>1, <1>3, <2>1, <2>2 DEF Times
<1>8. Told'
  <2> SUFFICES ASSUME NEW p \in Panels, NEW o \in Objects
               PROVE  /\ Shown(p, o)' \/ Panel!Changed(p)' \/ Awaits(p)'
                      /\ Shown(p, o)' \/ lastLoad'[p] = 0 \/ logged' > lastLoad'[p]
    BY DEF Told
  <2>1. Panel!Changed(p) => Panel!Changed(p)'
    BY <1>b, <1>1, <1>3 DEF Panel!Changed
  <2>2. Awaits(p) => Awaits(p)'
    BY <1>1 DEF Awaits
  <2>3. CASE o # tx.obj
    <3>1. Shown(p, o) => Shown(p, o)'
      BY <1>1, <1>4, <1>5, <2>3 DEF Shown
    <3>2. logged > lastLoad[p] => logged' > lastLoad[p]
      BY <1>b, <1>3
    <3> QED
      BY <1>a, <1>1, <2>1, <2>2, <3>1, <3>2 DEF Told
  <2>4. CASE o = tx.obj
    <3>1. CASE Panel!Misses(p)
      BY <1>4, <2>4, <3>1 DEF Shown
    <3>2. CASE lastLoad[p] = 0
      BY <1>1, <3>2 DEF Panel!Changed
    <3>3. CASE ~ Panel!Misses(p) /\ lastLoad[p] # 0
      <4>1. tx.kind # "reset" /\ lastLoad[p] < tx.dt
        BY <1>b, <1>2, <3>3 DEF Panel!Misses
      <4>2. logged' > lastLoad'[p]
        BY <1>b, <1>1, <1>3, <4>1
      <4>3. CASE tx.stamped
        <5>1. tx.obj \in blind[p] \/ lastUpdate > lastLoad[p]
          BY <1>a, <1>b, <1>1, <1>2, <3>3, <4>1, <4>3 DEF Announced
        <5> QED
          BY <1>1, <1>2, <1>4, <2>4, <4>2, <4>3, <5>1 DEF Shown, Panel!Changed
      <4>4. CASE tx.kind = "ban"
        <5> DEFINE b == [by |-> tx.by, dt |-> tx.dt]
        <5>1. b \in owed' /\ b.dt = tx.dt
          BY <1>1, <4>4
        <5>2. Awaits(p)'
          BY <1>1, <4>1, <5>1 DEF Awaits
        <5> QED
          BY <4>2, <5>2
      <4> QED
        BY <1>1, <4>1, <4>3, <4>4
    <3> QED
      BY <3>1, <3>2, <3>3
  <2> QED
    BY <2>3, <2>4
<1>9. Announced'
  BY <1>1 DEF Announced
<1>10. Counted'
  <2>1. save' \in Saves
    BY <1>a, <1>1 DEF Counted, Saves
  <2> QED
    BY <1>a, <1>1, <1>5, <2>1 DEF Counted, Saves, Panel!Numbers
<1> QED
  BY <1>6, <1>7, <1>8, <1>9, <1>10 DEF PanelInv

\* A transaction fails, or the server is restarted: what LastUpdate and bans would have told,
\* the change log does.
LEMMA FaultStep ==
  ASSUME Panel!BoundAssumption, Panel!NameAssumption, PanelInv, Panel!Rollback \/ Panel!Restart
  PROVE  PanelInv'
<1>a. Panel!TypeOK /\ Times /\ Told /\ Announced /\ Counted
  BY DEF PanelInv
<1>b. Panel!NoSave \in [step : {"none", "wait", "read", "answer"}, obj : Objects,
                         ver : Panel!Numbers]
  BY DEF Panel!NoSave, Panel!Numbers, Panel!NameAssumption, Panel!BoundAssumption
<1>c. save' \in Saves
  <2>1. ASSUME NEW p PROVE [save EXCEPT ![p] = Panel!NoSave] \in Saves
    BY <1>a, <1>b DEF Counted, Saves
  <2>2. [p \in Panels |-> Panel!NoSave] \in Saves
    BY <1>b DEF Saves
  <2> QED
    BY <1>a, <2>1, <2>2 DEF Panel!Rollback, Panel!Restart, Counted
<1>1. /\ tx' = None /\ owed' \in {owed, {}}
      /\ UNCHANGED <<now, version, logged, lastLoad, seen, blind, changes>>
      /\ \/ UNCHANGED <<lastUpdate, owed>>
         \/ lastUpdate' = 0 /\ owed' = {}
      /\ poll' \in {poll, [p \in Panels |-> None]} /\ DOMAIN poll' = Panels
  <2>1. CASE Panel!Rollback
    <3>1. /\ tx' = None
          /\ UNCHANGED <<now, version, lastUpdate, logged, owed, lastLoad, seen, poll, blind,
                         changes>>
      BY <2>1 DEF Panel!Rollback
    <3>2. DOMAIN poll = Panels
      BY <1>a DEF Counted
    <3> QED
      BY <3>1, <3>2
  <2>2. CASE Panel!Restart
    BY <1>a, <2>2 DEF Panel!Restart, Counted
  <2> QED
    BY <2>1, <2>2
<1>2. Panel!TypeOK'
  <2>1. lastUpdate' \in 0..MaxTime
    BY <1>a, <1>1 DEF Panel!TypeOK, Panel!BoundAssumption
  <2> QED
    BY <1>a, <1>1, <2>1 DEF Panel!TypeOK, Panel!Numbers
<1>3. Times'
  BY <1>a, <1>1 DEF Times, Panel!TypeOK
<1>4. Told'
  <2>1. CASE UNCHANGED <<lastUpdate, owed>>
    BY <1>a, <1>1, <2>1, ToldSame
  <2>2. CASE lastUpdate' = 0
    BY <1>a, <1>1, <2>2 DEF Told, Shown, Panel!Changed
  <2> QED
    BY <1>1, <2>1, <2>2
<1>5. Announced' /\ Counted'
  BY <1>a, <1>c, <1>1 DEF Announced, Counted, Saves, Panel!Numbers
<1> QED
  BY <1>2, <1>3, <1>4, <1>5 DEF PanelInv

\* A panel that loads: what it is not told by its answer it is blind to.
LEMMA LoadStep ==
  ASSUME PanelInv, NEW p \in Panels, lastLoad' = [lastLoad EXCEPT ![p] = now],
         seen' \in [Panels -> [Objects -> Panel!Numbers]], blind' \in [Panels -> SUBSET Objects],
         \A q \in Panels \ {p} : seen'[q] = seen[q] /\ blind'[q] = blind[q],
         \A o \in Objects : seen'[p][o] = version[o] \/ o \in blind'[p],
         UNCHANGED <<now, version, lastUpdate, logged, tx, owed, changes>>
  PROVE  Told' /\ Announced' /\ Times' /\ lastLoad' \in [Panels -> 0..MaxTime]
<1>a. Panel!TypeOK /\ Times /\ Told /\ Announced
  BY DEF PanelInv
<1>b. now \in 1..MaxTime /\ now \in Nat
  BY <1>a DEF Panel!TypeOK
<1>1. /\ lastLoad'[p] = now /\ \A q \in Panels \ {p} : lastLoad'[q] = lastLoad[q]
      /\ lastLoad' \in [Panels -> 0..MaxTime]
  BY <1>a, <1>b DEF Panel!TypeOK
<1>2. Times'
  BY <1>a, <1>b, <1>1 DEF Times
<1>3. Announced'
  BY <1>a, <1>b, <1>1 DEF Announced, Times
<1>4. ASSUME NEW q \in Panels, NEW o \in Objects
      PROVE  /\ Shown(q, o)' \/ Panel!Changed(q)' \/ Awaits(q)'
             /\ Shown(q, o)' \/ lastLoad'[q] = 0 \/ logged' > lastLoad'[q]
  <2>1. CASE q = p
    BY <2>1 DEF Shown
  <2>2. CASE q # p
    BY <1>a, <1>1, <2>2 DEF Told, Shown, Panel!Changed, Awaits
  <2> QED
    BY <2>1, <2>2
<1> QED
  BY <1>1, <1>2, <1>3, <1>4 DEF Told

\* The panels poll, and read the answers.
LEMMA PanelStep ==
  ASSUME Panel!BoundAssumption, Panel!NameAssumption, PanelInv, NEW p \in Panels,
         Panel!ReceiveSaved(p) \/ Panel!Poll(p) \/ Panel!ReceivePoll(p) \/ Panel!ReadSaved(p)
  PROVE  PanelInv'
<1>a. Panel!TypeOK /\ Times /\ Told /\ Announced /\ Counted
  BY DEF PanelInv
<1>b. /\ now \in Nat /\ now # 0 /\ lastUpdate \in Nat /\ logged \in Nat
      /\ \A q \in Panels : lastLoad[q] \in Nat /\ lastLoad[q] <= now
      /\ logged <= now
  BY <1>a DEF Panel!TypeOK, Times
<1>c. Panel!NoSave \in [step : {"none", "wait", "read", "answer"}, obj : Objects,
                         ver : Panel!Numbers]
  BY DEF Panel!NoSave, Panel!Numbers, Panel!NameAssumption, Panel!BoundAssumption
<1>1. CASE Panel!ReadSaved(p)
  <2> DEFINE o == save[p].obj
  <2>1. /\ save' = [save EXCEPT ![p] = [step |-> "answer", obj |-> o, ver |-> version[o]]]
        /\ UNCHANGED <<now, version, lastUpdate, logged, tx, owed, lastLoad, seen, poll, blind,
                       changes>>
    BY <1>1 DEF Panel!ReadSaved, Panel!Saving, Panel!server
  <2>2. o \in Objects /\ version[o] \in Panel!Numbers
    BY <1>a DEF Counted, Saves, Panel!TypeOK
  <2>3. Counted'
    <3>1. save' \in Saves
      BY <1>a, <2>1, <2>2 DEF Counted, Saves
    <3> QED
      BY <1>a, <2>1, <3>1 DEF Counted, Saves, Panel!Numbers
  <2>4. Panel!TypeOK' /\ Times'
    BY <1>a, <2>1 DEF Panel!TypeOK, Panel!Numbers, Times
  <2> QED
    BY <1>a, <2>1, <2>3, <2>4, ToldSame, AnnouncedSame DEF PanelInv
<1>2. CASE Panel!ReceiveSaved(p)
  <2> DEFINE o == save[p].obj
             old == IF Panel!Changed(p) \/ owed # {} THEN blind[p] \union Panel!Stale(p) ELSE blind[p]
             more == (old \ {o}) \union {x \in {o} : save[p].ver # version[x]}
  <2>1. /\ seen' = [seen EXCEPT ![p][o] = save[p].ver]
        /\ lastLoad' = [lastLoad EXCEPT ![p] = now] /\ save' = [save EXCEPT ![p] = Panel!NoSave]
        /\ blind' = [blind EXCEPT ![p] = more]
        /\ UNCHANGED <<now, version, lastUpdate, logged, tx, owed, poll, changes>>
    BY <1>2 DEF Panel!ReceiveSaved, Panel!server
  <2>2. o \in Objects /\ save[p].ver \in Panel!Numbers
    BY <1>a DEF Counted, Saves
  <2>3. old \subseteq Objects /\ \A x \in Objects : seen[p][x] = version[x] \/ x \in old
    <3>1. Panel!Stale(p) \subseteq Objects /\ blind[p] \subseteq Objects
      BY <1>a DEF Panel!Stale, Panel!TypeOK
    <3>2. CASE Panel!Changed(p) \/ owed # {}
      BY <3>1, <3>2 DEF Panel!Stale
    <3>3. CASE ~ Panel!Changed(p) /\ owed = {}
      BY <1>a, <3>1, <3>3 DEF Told, Shown, Awaits
    <3> QED
      BY <3>2, <3>3
  <2> HIDE DEF old
  <2>4. /\ more \subseteq Objects
        /\ seen'[p] = [seen[p] EXCEPT ![o] = save[p].ver] /\ blind'[p] = more
        /\ \A q \in Panels \ {p} : seen'[q] = seen[q] /\ blind'[q] = blind[q]
        /\ blind' \in [Panels -> SUBSET Objects] /\ seen' \in [Panels -> [Objects -> Panel!Numbers]]
    <3>1. more \subseteq Objects
      BY <2>2, <2>3
    <3> HIDE DEF more
    <3>2. blind'[p] = more /\ blind' \in [Panels -> SUBSET Objects]
      BY <1>a, <2>1, <3>1 DEF Panel!TypeOK
    <3>3. seen[p] \in [Objects -> Panel!Numbers]
      BY <1>a DEF Panel!TypeOK
    <3>4. [seen[p] EXCEPT ![o] = save[p].ver] \in [Objects -> Panel!Numbers]
      BY <2>2, <3>3
    <3>5. seen' = [seen EXCEPT ![p] = [seen[p] EXCEPT ![o] = save[p].ver]]
      BY <2>1
    <3> HIDE DEF o
    <3>6. /\ seen'[p] = [seen[p] EXCEPT ![o] = save[p].ver]
          /\ seen' \in [Panels -> [Objects -> Panel!Numbers]]
          /\ \A q \in Panels \ {p} : seen'[q] = seen[q]
      BY <1>a, <3>4, <3>5 DEF Panel!TypeOK
    <3>7. \A q \in Panels \ {p} : blind'[q] = blind[q]
      BY <1>a, <2>1 DEF Panel!TypeOK
    <3> QED
      BY <3>1, <3>2, <3>6, <3>7
  <2>5. ASSUME NEW x \in Objects PROVE seen'[p][x] = version[x] \/ x \in blind'[p]
    <3>1. seen[p] \in [Objects -> Panel!Numbers]
      BY <1>a DEF Panel!TypeOK
    <3>2. CASE x = o
      BY <2>2, <2>4, <3>1, <3>2
    <3>3. CASE x # o
      BY <2>3, <2>4, <3>1, <3>3
    <3> QED
      BY <3>2, <3>3
  <2>6. save' \in Saves
    BY <1>a, <1>c, <2>1 DEF Counted, Saves
  <2> HIDE DEF o, more
  <2>7. Told' /\ Announced' /\ Times' /\ lastLoad' \in [Panels -> 0..MaxTime]
    BY <2>1, <2>4, <2>5, LoadStep
  <2>8. Panel!TypeOK' /\ Counted'
    BY <1>a, <2>1, <2>4, <2>6, <2>7 DEF Panel!TypeOK, Panel!Numbers, Counted, Saves
  <2> QED
    BY <2>7, <2>8 DEF PanelInv
<1>3. CASE Panel!ReceivePoll(p)
  <2>1. /\ poll[p] # None
        /\ seen' = [seen EXCEPT ![p] = poll[p]] /\ lastLoad' = [lastLoad EXCEPT ![p] = now]
        /\ poll' = [poll EXCEPT ![p] = None]
        /\ blind' = [blind EXCEPT ![p] = {o \in Objects : poll[p][o] # version[o]}]
        /\ UNCHANGED <<now, version, lastUpdate, logged, tx, owed, save, changes>>
    BY <1>3 DEF Panel!ReceivePoll, Panel!server
  <2>2. poll[p] \in [Objects -> Panel!Numbers]
    BY <1>a, <2>1 DEF Panel!TypeOK
  <2>3. /\ seen'[p] = poll[p] /\ blind'[p] = {o \in Objects : poll[p][o] # version[o]}
        /\ \A q \in Panels \ {p} : seen'[q] = seen[q] /\ blind'[q] = blind[q]
        /\ blind' \in [Panels -> SUBSET Objects] /\ seen' \in [Panels -> [Objects -> Panel!Numbers]]
    BY <1>a, <2>1, <2>2 DEF Panel!TypeOK
  <2>4. \A x \in Objects : seen'[p][x] = version[x] \/ x \in blind'[p]
    BY <2>3
  <2>5. Told' /\ Announced' /\ Times' /\ lastLoad' \in [Panels -> 0..MaxTime]
    BY <2>1, <2>3, <2>4, LoadStep
  <2>6. \A q \in Panels : poll'[q] = None \/ poll'[q] \in [Objects -> Panel!Numbers]
    BY <1>a, <2>1 DEF Panel!TypeOK
  <2>7. Panel!TypeOK' /\ Counted'
    BY <1>a, <2>1, <2>3, <2>5, <2>6 DEF Panel!TypeOK, Panel!Numbers, Counted, Saves
  <2> QED
    BY <2>5, <2>7 DEF PanelInv
<1>4. CASE Panel!Poll(p)
  <2>1. /\ lastUpdate' = IF lastUpdate = 0 /\ lastLoad[p] > 0 THEN now ELSE lastUpdate
        /\ poll' \in {poll, [poll EXCEPT ![p] = version]}
        /\ UNCHANGED <<now, version, logged, tx, owed, lastLoad, seen, save, blind, changes>>
    BY <1>4 DEF Panel!Poll
  <2>2. \A q \in Panels : poll'[q] = None \/ poll'[q] \in [Objects -> Panel!Numbers]
    <3>1. version \in [Objects -> Panel!Numbers]
      BY <1>a DEF Panel!TypeOK
    <3>2. \A q \in Panels : poll[q] = None \/ poll[q] \in [Objects -> Panel!Numbers]
      BY <1>a DEF Panel!TypeOK
    <3> QED
      BY <1>a, <2>1, <3>1, <3>2 DEF Counted
  <2>3. lastUpdate' \in 0..MaxTime
    BY <1>a, <2>1 DEF Panel!TypeOK, Panel!BoundAssumption
  <2>4. Panel!TypeOK' /\ Counted'
    BY <1>a, <2>1, <2>2, <2>3 DEF Panel!TypeOK, Panel!Numbers, Counted, Saves
  <2>5. Times'
    BY <1>a, <1>b, <2>1 DEF Times
  <2>6. \A q \in Panels : Panel!Changed(q) => Panel!Changed(q)'
    BY <1>b, <2>1 DEF Panel!Changed
  <2>7. Told'
    BY <1>a, <2>1, <2>6 DEF Told, Shown, Awaits
  <2>8. Announced'
    BY <1>a, <2>1 DEF Announced, Times
  <2> QED
    BY <2>4, <2>5, <2>7, <2>8 DEF PanelInv
<1> QED
  BY <1>1, <1>2, <1>3, <1>4

\* The invariant of the panels holds at the start.
LEMMA PanelInitial ==
  ASSUME Panel!BoundAssumption, Panel!NameAssumption, MaxTime # 0, Panel!Init PROVE PanelInv
<1>1. 0 \in Panel!Numbers /\ 1 \in 1..MaxTime /\ 0 \in 0..MaxTime /\ 0 \in 0..MaxChanges
  BY DEF Panel!BoundAssumption, Panel!Numbers
<1>2. Panel!NoSave \in [step : {"none", "wait", "read", "answer"}, obj : Objects,
                         ver : Panel!Numbers]
  BY <1>1 DEF Panel!NoSave, Panel!NameAssumption
<1>3. Panel!TypeOK /\ Counted
  BY <1>1, <1>2 DEF Panel!Init, Panel!TypeOK, Counted, Saves
<1>4. Times /\ Told /\ Announced
  BY <1>1 DEF Panel!Init, Times, Told, Shown, Panel!Changed, Announced
<1> QED
  BY <1>3, <1>4 DEF PanelInv

\* Every step of a panel or of the server keeps it.
LEMMA PanelNext ==
  Panel!BoundAssumption /\ Panel!NameAssumption /\ PanelInv /\ [Panel!Next]_Panel!vars => PanelInv'
<1> SUFFICES ASSUME Panel!BoundAssumption, Panel!NameAssumption, PanelInv,
                    [Panel!Next]_Panel!vars PROVE PanelInv'
  OBVIOUS
<1>1. CASE UNCHANGED Panel!vars
  <2>1. UNCHANGED <<now, version, lastUpdate, logged, tx, owed, lastLoad, seen, poll, save, blind,
                    changes>>
    BY <1>1 DEF Panel!vars, Panel!server, Panel!panel
  <2>2. Panel!TypeOK /\ Times /\ Told /\ Announced /\ Counted
    BY DEF PanelInv
  <2>3. Panel!TypeOK' /\ Times' /\ Counted'
    BY <2>1, <2>2 DEF Panel!TypeOK, Times, Counted, Saves, Panel!Numbers
  <2> QED
    BY <2>1, <2>2, <2>3, ToldSame, AnnouncedSame DEF PanelInv
<1>2. CASE Panel!Next
  BY <1>2, BeginStep, StampStep, StampBanStep, CommitStep, FaultStep, PanelStep DEF Panel!Next
<1> QED
  BY <1>1, <1>2

\* A panel that shows something old will be told, or is blind for one of the reasons that
\* Informed names: for any number of panels, kinds of object, changes and restarts.
THEOREM InformedAlways == Panel!Spec => []Informed
<1>1. Panel!Init => PanelInv
  BY PanelAssumption, PanelInitial
<1>2. PanelInv /\ [Panel!Next]_Panel!vars => PanelInv'
  BY PanelAssumption, PanelNext
<1>3. PanelInv => Informed
  BY DEF PanelInv, Told, Shown, Awaits, Informed, Panel!Informed
<1> QED
  BY <1>1, <1>2, <1>3, PTL DEF Panel!Spec
=============================================================================
