--------------------------- MODULE InboundRecords ---------------------------
(***************************************************************************)
(* What the panel derives from its tables and stores again: the links of a *)
(* client (clients.links) and the client side of an inbound                *)
(* (inbounds.out_json).  Both follow from the inbound's row, the TLS       *)
(* record it names and, for a link, the client's credentials; every handler*)
(* that changes one of these has to write the derived columns as well.     *)
(*                                                                         *)
(* A step is one committed request (InboundSave shows that requests that   *)
(* overlap amount to this, and what they do to the running core).  Forms   *)
(* may be old: an inbound can be edited after it was deleted, which brings *)
(* its row back (gorm's Save inserts a row it cannot update), and a client *)
(* can be saved with an inbound that is gone.  Ids are never used twice.   *)
(*                                                                         *)
(* An inbound's type and options are its "content", a client's name and    *)
(* credentials its "config".  A local link is known by what LinkGenerator  *)
(* makes it from, an external one by its remark alone.  The host name a    *)
(* request was sent to is the same for all.  A form names a TLS record that*)
(* exists.                                                                 *)
(***************************************************************************)
CONSTANTS Ids,       \* ids of inbounds
          Tags,      \* tags of inbounds and remarks of links
          Contents,  \* types and options of inbounds
          WithLink,  \* contents of a type in InboundTypeWithLink
          WithOut,   \* contents of a type FillOutJson derives out_json for
          TlsIds,    \* ids of TLS records
          Versions,  \* contents of TLS records
          Clients,   \* rows of the clients table
          Configs,   \* a client's name and credentials
          None       \* no row, no TLS, no out_json

Inbound == [tag : Tags, content : Contents, tls : TlsIds \union {None},
            out : [tag : Tags, content : Contents, tls : Versions \union {None}] \union {None}]
Link == [remark : Tags, content : Contents, tls : Versions \union {None}, config : Configs]
Client == [inbounds : SUBSET Ids, config : Configs, local : SUBSET Link, external : SUBSET Tags]

\* "used": the ids AUTOINCREMENT has given.
Tables == [tls : [TlsIds -> Versions \union {None}],
           inbounds : [Ids -> Inbound \union {None}],
           used : SUBSET Ids,
           clients : [Clients -> Client \union {None}]]

\* What the dialogs post.
InboundForm == [tag : Tags, content : Contents, tls : TlsIds \union {None}]
ClientForm == [inbounds : SUBSET Ids, config : Configs, external : SUBSET Tags]

ASSUME ContentAssumption == WithLink \subseteq Contents /\ WithOut \subseteq Contents
ASSUME NoneAssumption == /\ None \notin TlsIds /\ None \notin Versions
                         /\ None \notin Inbound /\ None \notin Client

VARIABLE db

-----------------------------------------------------------------------------
(* Derived columns, as a function of the tables d. *)

Present(d) == {i \in Ids : d.inbounds[i] # None}
Registered(d) == {c \in Clients : d.clients[c] # None}
Attached(d, c, i) == c \in Registered(d) /\ i \in d.clients[c].inbounds

Secured(d, form) == IF form.tls = None THEN None ELSE d.tls[form.tls]

\* FillOutJson.
OutJson(d, form) ==
  IF form.content \in WithOut
  THEN [tag |-> form.tag, content |-> form.content, tls |-> Secured(d, form)] ELSE None

\* LinkGenerator.
Links(d, form, config) ==
  IF form.content \in WithLink
  THEN {[remark |-> form.tag, content |-> form.content, tls |-> Secured(d, form), config |-> config]}
  ELSE {}

Row(d, form) == [tag |-> form.tag, content |-> form.content, tls |-> form.tls,
                 out |-> OutJson(d, form)]

\* updateLinksWithFixedInbounds: the local links of a client are made anew.
Fresh(d, ids, config) == UNION {Links(d, d.inbounds[i], config) : i \in ids \intersect Present(d)}

\* Local links without those that bear one of the remarks.
Drop(links, remarks) == {l \in links : l.remark \notin remarks}

\* Client c after its links to the inbounds ids are made anew and the local links with
\* the old remarks are dropped (UpdateLinksByInboundChange).
Relinked(d, c, ids, old) ==
  LET mine == ids \intersect d.clients[c].inbounds
  IN [d.clients[c] EXCEPT !.local = Drop(@, old) \union Fresh(d, mine, d.clients[c].config)]

-----------------------------------------------------------------------------
(* What a request makes of the tables. *)

\* The column "tag" is unique.
TagFree(d, id, tag) == \A j \in Present(d) \ {id} : d.inbounds[j].tag # tag
Valid(d, form) == form.tls # None => d.tls[form.tls] # None

Insert(d, id, form) == [d EXCEPT !.inbounds[id] = Row(d, form), !.used = @ \union {id}]

\* InboundService.Save "new": the chosen clients are attached to the new inbound
\* (UpdateClientsOnInboundAdd); a link of theirs with its remark, local or not, goes.
InboundNew(d, id, form, init) ==
  LET e == Insert(d, id, form)
  IN [e EXCEPT !.clients = [c \in Clients |->
        IF c \in init \intersect Registered(d)
        THEN [d.clients[c] EXCEPT !.inbounds = @ \union {id},
                                  !.local = Drop(@, {form.tag})
                                              \union Links(d, form, d.clients[c].config),
                                  !.external = @ \ {form.tag}]
        ELSE d.clients[c]]]

\* "edit": the links of the clients attached to it are made anew, under its new tag.
\* Mutant: links under its old tag are forgotten.
InboundEditForgets(d, id, form) ==
  LET e == Insert(d, id, form)
  IN [e EXCEPT !.clients = [c \in Clients |->
        IF Attached(d, c, id) THEN Relinked(e, c, {id}, {form.tag}) ELSE d.clients[c]]]
InboundEdit(d, id, form) ==
  LET e == Insert(d, id, form)
      old == IF d.inbounds[id] = None THEN {} ELSE {d.inbounds[id].tag}
  IN [e EXCEPT !.clients = [c \in Clients |->
        IF Attached(d, c, id) THEN Relinked(e, c, {id}, {form.tag} \union old) ELSE d.clients[c]]]

\* "del", by tag.
InboundDel(d, tag) ==
  LET gone == {i \in Present(d) : d.inbounds[i].tag = tag}
  IN [d EXCEPT
       !.inbounds = [i \in Ids |-> IF i \in gone THEN None ELSE @[i]],
       !.clients = [c \in Clients |->
         IF \E i \in gone : Attached(d, c, i)
         THEN [d.clients[c] EXCEPT !.inbounds = @ \ gone,
                                   !.local = Drop(@, {tag}),
                                   !.external = @ \ {tag}]
         ELSE d.clients[c]]]

\* TlsService.Save "new" and "edit": links and out_json of the inbounds that name it.
\* Mutant: UpdateOutJsons is not called.
TlsSaveLinksOnly(d, t, version) ==
  LET uses == {i \in Present(d) : d.inbounds[i].tls = t}
      e == [d EXCEPT !.tls[t] = version]
  IN [e EXCEPT
       !.clients = [c \in Clients |->
         IF c \in Registered(d)
         THEN Relinked(e, c, uses, {d.inbounds[i].tag : i \in uses \intersect d.clients[c].inbounds})
         ELSE None]]
TlsSave(d, t, version) ==
  LET uses == {i \in Present(d) : d.inbounds[i].tls = t}
      e == [d EXCEPT !.tls[t] = version]
  IN [e EXCEPT
       !.inbounds = [i \in Ids |-> IF i \in uses THEN Row(e, d.inbounds[i]) ELSE @[i]],
       !.clients = [c \in Clients |->
         IF c \in Registered(d)
         THEN Relinked(e, c, uses, {d.inbounds[i].tag : i \in uses \intersect d.clients[c].inbounds})
         ELSE None]]

\* "del": refused while an inbound names it.
TlsFree(d, t) == \A i \in Present(d) : d.inbounds[i].tls # t
TlsDel(d, t) == [d EXCEPT !.tls[t] = None]

\* ClientService.Save "new", "addbulk" and "edit": whole rows, with their links made anew.
ClientsPut(d, forms) ==
  [d EXCEPT !.clients = [c \in Clients |->
     IF c \in DOMAIN forms
     THEN [inbounds |-> forms[c].inbounds, config |-> forms[c].config,
           local |-> Fresh(d, forms[c].inbounds, forms[c].config),
           external |-> forms[c].external]
     ELSE @[c]]]

\* findInboundsChanges: the inbounds an edited client makes the panel look at.
Changes(row, form, switched) ==
  IF row.config # form.config \/ switched
  THEN row.inbounds \union form.inbounds
  ELSE (row.inbounds \ form.inbounds) \union (form.inbounds \ row.inbounds)

\* "editbulk" keeps the links of the rows, and makes all of them anew as soon as one
\* client has changes.
ClientsEditBulk(d, forms, switched) ==
  LET reported == UNION {Changes(d.clients[c], forms[c], c \in switched) : c \in DOMAIN forms}
  IN [d EXCEPT !.clients = [c \in Clients |->
        IF c \in DOMAIN forms
        THEN [d.clients[c] EXCEPT !.inbounds = forms[c].inbounds, !.config = forms[c].config,
                                  !.local = IF reported = {} THEN @
                                            ELSE Fresh(d, forms[c].inbounds, forms[c].config)]
        ELSE d.clients[c]]]

ClientsDel(d, gone) ==
  [d EXCEPT !.clients = [c \in Clients |-> IF c \in gone THEN None ELSE @[c]]]

-----------------------------------------------------------------------------
Empty == [tls |-> [t \in TlsIds |-> None], inbounds |-> [i \in Ids |-> None], used |-> {},
          clients |-> [c \in Clients |-> None]]

Init == db = Empty

SaveInbound ==
  \E form \in InboundForm :
    /\ Valid(db, form)
    /\ \/ \E id \in Ids \ db.used, init \in SUBSET Registered(db) :
            TagFree(db, id, form.tag) /\ db' = InboundNew(db, id, form, init)
       \/ \E id \in db.used :
            TagFree(db, id, form.tag) /\ db' = InboundEdit(db, id, form)

DelInbound == \E tag \in Tags : db' = InboundDel(db, tag)

SaveTls == \E t \in TlsIds, version \in Versions : db' = TlsSave(db, t, version)

DelTls == \E t \in TlsIds : TlsFree(db, t) /\ db' = TlsDel(db, t)

\* A client's form can list any inbound there ever was.
AddClients ==
  \E added \in SUBSET (Clients \ Registered(db)) :
    \E forms \in [added -> {f \in ClientForm : f.inbounds \subseteq db.used}] :
      db' = ClientsPut(db, forms)

EditClient ==
  \E c \in Registered(db), form \in ClientForm :
    /\ form.inbounds \subseteq db.used
    /\ db' = ClientsPut(db, [x \in {c} |-> form])

EditClients ==
  \E edited \in SUBSET Registered(db) :
    \E switched \in SUBSET edited, forms \in [edited -> [inbounds : SUBSET db.used, config : Configs]] :
      db' = ClientsEditBulk(db, forms, switched)

DelClients == \E gone \in SUBSET Registered(db) : db' = ClientsDel(db, gone)

Next == SaveInbound \/ DelInbound \/ SaveTls \/ DelTls
        \/ AddClients \/ EditClient \/ EditClients \/ DelClients

Spec == Init /\ [][Next]_db

-----------------------------------------------------------------------------
(* Properties. *)

\* The tables have their types, ids that are present were given out, and tags are unique.
TypeOK ==
  /\ db \in Tables
  /\ Present(db) \subseteq db.used
  /\ \A i, j \in Present(db) : db.inbounds[i].tag = db.inbounds[j].tag => i = j

\* The links a client is served (its subscription) are those of the inbounds it is
\* attached to that exist, with their tag, options and TLS and the client's credentials
\* as they are now: none is missing, none is out of date, none leads to an inbound that
\* was renamed, deleted or detached.
LinksFollow ==
  \A c \in Registered(db) :
    db.clients[c].local = Fresh(db, db.clients[c].inbounds, db.clients[c].config)

\* The client side of an inbound (out_json, what a JSON or Clash subscription is built
\* from) is derived from the inbound's present tag and options and the present TLS record.
OutJsonFollows ==
  \A i \in Present(db) : db.inbounds[i].out = OutJson(db, db.inbounds[i])
=============================================================================
