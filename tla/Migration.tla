------------------------------- MODULE Migration -------------------------------
(***************************************************************************)
(* What the migrations do to the rows of an old installation (to1_1, to1_2,*)
(* to1_3): inbounds, outbounds and rules move from a file into tables, TLS *)
(* settings and clients refer to inbounds by id, dns and block outbounds   *)
(* become rule actions, DNS servers are spelt out.  Each is one            *)
(* transaction; when they run, and what failure does, is Database.         *)
(***************************************************************************)
EXTENDS Naturals, Sequences, FiniteSets

CONSTANTS
  Tags,         \* of inbounds
  Like,         \* pairs: the first, as a pattern of LIKE, matches the second
  Settings,     \* contents of a TLS object
  Clients,
  Schemes,      \* of DNS servers that have a name, the empty one included
  Hosts,
  None,
  MaxInbounds, MaxTls, MaxOutbounds, MaxRules, MaxServers \* bounds of an installation

LikeAssumption == Like \subseteq Tags \X Tags /\ \A t \in Tags : <<t, t>> \in Like
BoundAssumption == /\ MaxInbounds \in Nat /\ MaxTls \in Nat /\ MaxOutbounds \in Nat
                   /\ MaxRules \in Nat /\ MaxServers \in Nat /\ MaxOutbounds > 0
NameAssumption == /\ None \notin Settings \union {"route", "reject", "hijack-dns", "sniff"}
                  /\ None \notin Nat /\ Schemes \intersect {"rcode", "dhcp", "other"} = {}

VARIABLES
  version,
  inbounds,  \* in the order of the file, then by id: tag and TLS object, later tls_id
  tls,       \* table tls: the settings, and the tags its column names
  clients,   \* the inbounds of each: tags, later ids
  outbounds, \* the set of them: tag and type
  endpoints,
  rules,     \* route rules: outbound and action, by protocol or not
  final,     \* route.final: the outbound when no rule matches, None if none is named
  servers,   \* DNS servers
  protocols, \* of each client: those it has a configuration for
  old        \* history: the installation as it was

tables == <<inbounds, tls, clients, outbounds, endpoints, rules, final, servers, protocols>>
vars == <<version, tables, old>>

UpTo(n, S) == UNION {[1..m -> S] : m \in 0..n}

-----------------------------------------------------------------------------
(* An installation of 1.1. *)

Inbound == [tag : Tags, tls : Settings \union {None}]
OldInbounds == {s \in UpTo(MaxInbounds, Inbound) : \A i, j \in DOMAIN s : s[i].tag = s[j].tag => i = j}
\* The rows of tls: a setting, and those of the inbounds that use it which its row lists.
Orders == {s \in UpTo(MaxTls, Settings) : \A i, j \in DOMAIN s : s[i] = s[j] => i = j}
OldTls(inb) ==
  {[i \in DOMAIN order |->
      [settings |-> order[i], tags |-> {inb[n].tag : n \in {m \in listed : inb[m].tls = order[i]}}]] :
     order \in Orders, listed \in SUBSET DOMAIN inb}
\* An outbound is named by its place in the list; "direct" is every type that stays one.
OutTags == 1..MaxOutbounds
Outbound == [tag : OutTags, type : {"direct", "wireguard", "dns", "block"}]
OldOutbounds == {out \in SUBSET Outbound : /\ out # {}
                                           /\ \A o, p \in out : o.tag = p.tag => o = p}
OldRules(out) == UpTo(MaxRules, [outbound : {o.tag : o \in out}, action : {None}, sniffed : BOOLEAN])

\* An address of a DNS server: "local", "fakeip", one that is no URL (a port without a
\* scheme), or a URL.
Address == [kind : {"local", "fakeip", "bad"}, scheme : {""}, host : {None}, port : {None}]
           \union [kind : {"url"}, scheme : Schemes \union {"rcode", "dhcp", "other"}, host : Hosts, port : {None}]
           \union [kind : {"url"}, scheme : Schemes \ {""}, host : Hosts, port : Nat \intersect {53}]
OldServer == [address : Address, type : {None}, server : {None}, port : {None}, strategy : BOOLEAN]

Simple == [inbounds |-> <<>>, tls |-> <<>>, clients |-> [c \in Clients |-> {}],
           outbounds |-> {[tag |-> 1, type |-> "direct"]}, rules |-> <<>>, final |-> None,
           servers |-> <<>>, protocols |-> [c \in Clients |-> {"trojan"}]]

\* One part of the installation at a time.
Installation ==
  \/ \E inb \in OldInbounds : \E t \in OldTls(inb) : old = [Simple EXCEPT !.inbounds = inb, !.tls = t]
  \/ \E inb \in OldInbounds, c \in [Clients -> SUBSET Tags] :
       old = [Simple EXCEPT !.inbounds = inb, !.clients = c]
  \/ \E o \in OldOutbounds : \E r \in OldRules(o), f \in {None} \union {p.tag : p \in o} :
       old = [Simple EXCEPT !.outbounds = o, !.rules = r, !.final = f]
  \/ \E s \in UpTo(MaxServers, OldServer) : old = [Simple EXCEPT !.servers = s]
  \/ \E p \in [Clients -> SUBSET {"trojan", "anytls"}] : old = [Simple EXCEPT !.protocols = p]

Init ==
  /\ version = "1.1"
  /\ Installation
  /\ inbounds = old.inbounds /\ tls = old.tls /\ clients = old.clients
  /\ outbounds = old.outbounds /\ endpoints = {} /\ rules = old.rules /\ final = old.final
  /\ servers = old.servers /\ protocols = old.protocols

-----------------------------------------------------------------------------
(* To 1.2. *)

\* The row that matches the tag; 0 for none.  Every one is scanned into the same number, and
\* the last stays.
Matches(t, tag) == {i \in DOMAIN t : \E u \in t[i].tags : <<tag, u>> \in Like}
TlsRow(t, tag) ==
  IF Matches(t, tag) = {} THEN 0
  ELSE CHOOSE i \in Matches(t, tag) : \A j \in Matches(t, tag) : j <= i

\* moveJsonToDb, the inbounds: each is bound to its TLS record, or gets a new one.
Bind(state, inb) ==
  LET row == TlsRow(state.tls, inb.tag)
      new == row = 0 /\ inb.tls # None
  IN [tls |-> IF new THEN Append(state.tls, [settings |-> inb.tls, tags |-> {}]) ELSE state.tls,
      inbounds |-> Append(state.inbounds,
                          [tag |-> inb.tag,
                           tls |-> IF inb.tls = None THEN 0 ELSE IF new THEN Len(state.tls) + 1 ELSE row])]
MoveInbounds ==
  LET moved[n \in 0..Len(inbounds)] ==
        IF n = 0 THEN [tls |-> tls, inbounds |-> <<>>] ELSE Bind(moved[n - 1], inbounds[n])
  IN moved[Len(inbounds)]

OfType(type) == {o.tag : o \in {p \in outbounds : p.type = type}}

\* Mutant: a rule of a block outbound routes.
ActingOnDns(rule) ==
  IF rule.outbound \in OfType("dns") THEN [rule EXCEPT !.outbound = None, !.action = "hijack-dns"]
                                     ELSE [rule EXCEPT !.action = "route"]
\* moveJsonToDb, the rules.
Acting(rule) ==
  CASE rule.outbound \in OfType("block") -> [rule EXCEPT !.outbound = None, !.action = "reject"]
    [] rule.outbound \in OfType("dns") -> [rule EXCEPT !.outbound = None, !.action = "hijack-dns"]
    [] OTHER -> [rule EXCEPT !.action = "route"]
\* The action that finds the protocol goes to the end.
Sniff == [outbound |-> None, action |-> "sniff", sniffed |-> FALSE]
MoveRules ==
  LET moved == [i \in DOMAIN rules |-> Acting(rules[i])]
  IN IF \E i \in DOMAIN rules : rules[i].outbound \in OfType("dns") THEN Append(moved, Sniff) ELSE moved

\* migrateClients: the ids of the tags that are there.  Mutant: of those that are like them.
IdsLike(inb, tags) == {i \in DOMAIN inb : \E t \in tags : <<t, inb[i].tag>> \in Like}
Ids(inb, tags) == {i \in DOMAIN inb : inb[i].tag \in tags}

To1_2 ==
  /\ version = "1.1" /\ version' = "1.2"
  /\ LET moved == MoveInbounds
     IN /\ inbounds' = moved.inbounds
        /\ tls' = [i \in DOMAIN moved.tls |-> [settings |-> moved.tls[i].settings, tags |-> {}]]
        /\ clients' = [c \in Clients |-> Ids(moved.inbounds, clients[c])]
  /\ endpoints' = {o \in outbounds : o.type = "wireguard"}
  /\ outbounds' = {o \in outbounds : o.type = "direct"}
  /\ rules' = MoveRules
  /\ UNCHANGED <<final, servers, protocols, old>>

-----------------------------------------------------------------------------
(* To 1.3. *)

\* migrate_dns: the address of a server becomes type, server and port.
Server(s) ==
  LET a == s.address
      spelt == [s EXCEPT !.address = None, !.port = a.port, !.strategy = FALSE]
  IN CASE a.kind \in {"local", "fakeip"} -> [s EXCEPT !.address = None, !.type = a.kind]
       [] a.kind = "bad" -> s
       [] a.scheme = "rcode" -> [spelt EXCEPT !.type = "predefined"]
       [] a.scheme = "dhcp" -> [spelt EXCEPT !.type = "dhcp"]
       [] a.scheme = "" -> [spelt EXCEPT !.type = "udp", !.server = <<a.host, None>>]
       [] a.scheme = "other" -> spelt
       [] OTHER -> [spelt EXCEPT !.type = a.scheme, !.server = <<a.host, a.port>>]

\* anytls_user_config.
AnyTls(p) == IF "anytls" \in p THEN p ELSE p \union (IF "trojan" \in p THEN {"anytls"} ELSE {})

To1_3 ==
  /\ version = "1.2" /\ version' = "1.3"
  /\ protocols' = [c \in Clients |-> AnyTls(protocols[c])]
  /\ servers' = [i \in DOMAIN servers |-> Server(servers[i])]
  /\ UNCHANGED <<inbounds, tls, clients, outbounds, endpoints, rules, final, old>>

Next == To1_2 \/ To1_3

Spec == Init /\ [][Next]_vars

-----------------------------------------------------------------------------
(* Properties. *)

Migrated == version # "1.1"

\* Every client has the inbounds it had, as far as they were there, every inbound its tag
\* and its TLS settings; unless its tag is a pattern that matches another inbound's.
InboundsKept ==
  Migrated =>
    /\ \A i \in DOMAIN inbounds :
         /\ inbounds[i].tag = old.inbounds[i].tag
         /\ \/ old.inbounds[i].tls = (IF inbounds[i].tls = 0 THEN None ELSE tls[inbounds[i].tls].settings)
            \/ \E t \in Tags \ {inbounds[i].tag} : <<inbounds[i].tag, t>> \in Like
    /\ \A c \in Clients : {inbounds[i].tag : i \in clients[c]}
                            = old.clients[c] \intersect {old.inbounds[i].tag : i \in DOMAIN old.inbounds}

\* Inbounds that shared a TLS record still do: a later edit of it reaches them all.
TlsShared ==
  Migrated =>
    \A n \in DOMAIN old.tls : \A t, u \in old.tls[n].tags :
      \A i, j \in DOMAIN inbounds :
        inbounds[i].tag = t /\ inbounds[j].tag = u =>
          \/ inbounds[i].tls = inbounds[j].tls
          \/ \E w \in Tags : w \notin {t, u} /\ (<<t, w>> \in Like \/ <<u, w>> \in Like)

\* Where the core sends what no rule decides: to route.final, or else to the first outbound;
\* without any, to a direct one of its own (None).
Default(outs, named) ==
  IF named # None \/ outs = {} THEN named
  ELSE CHOOSE t \in {o.tag : o \in outs} : \A o \in outs : t <= o.tag
OldDefault == Default(old.outbounds, old.final)

\* Which outcome a connection has that the rules of S match: the first of them decides, and
\* the default if there is none.
OldType(tag) == (CHOOSE o \in old.outbounds : o.tag = tag).type
Outcome(rule) == IF rule.action = None THEN
                   (CASE OldType(rule.outbound) = "block" -> <<"reject">>
                      [] OldType(rule.outbound) = "dns" -> <<"hijack-dns">>
                      [] OTHER -> <<"route", rule.outbound>>)
                 ELSE IF rule.action = "route" THEN <<"route", rule.outbound>> ELSE <<rule.action>>
Hits(rs, S) == {i \in DOMAIN rs \intersect S : rs[i].action # "sniff"}
Decides(rs, default, S) ==
  LET hits == Hits(rs, S)
  IN Outcome(IF hits = {} THEN default ELSE rs[CHOOSE i \in hits : \A j \in hits : i <= j])

\* The default of the installation is there after the migration: it is no block or dns
\* outbound, which are removed, and no wireguard outbound that was the default as the first
\* of the list, where endpoints are not.
DefaultStays == \/ OldType(OldDefault) = "direct"
                \/ OldType(OldDefault) = "wireguard" /\ old.final # None

\* Connections go where they went, by outbounds or endpoints that are there; except by rules
\* on the protocol, as nothing sniffs it before the last rule, and by a default that does not
\* stay: unmatched connections then go elsewhere, or route.final names what is not there.
RoutesKept ==
  Migrated =>
    /\ \A S \in SUBSET {i \in DOMAIN old.rules : ~old.rules[i].sniffed} :
         Hits(old.rules, S) # {} \/ DefaultStays =>
           Decides(rules, [outbound |-> Default(outbounds, final), action |-> "route"], S)
             = Decides(old.rules, [outbound |-> OldDefault, action |-> None], S)
    /\ LET there == {o.tag : o \in outbounds \union endpoints}
       IN /\ \A i \in DOMAIN rules : rules[i].outbound \in {None} \union there
          /\ DefaultStays => Default(outbounds, final) \in there

\* A DNS server is asked as before: over the transport of its scheme, on its port, and under
\* its name; except for the name when a port was spelt out, which then stays in it, too.  An
\* address that is no URL stays as it was, and an unknown scheme leaves a server without type.
ServersReached ==
  version = "1.3" =>
    \A i \in DOMAIN servers :
      LET a == old.servers[i].address
          s == servers[i]
      IN a.kind = "url" /\ a.scheme \in Schemes =>
           /\ s.address = None /\ ~s.strategy
           /\ s.type = (IF a.scheme = "" THEN "udp" ELSE a.scheme) /\ s.port = a.port
           /\ a.port = None => s.server = <<a.host, None>>
================================================================================
