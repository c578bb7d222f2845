---------------------------- MODULE RoutingProofs ----------------------------
(***************************************************************************)
(* Theorems about Routing.  The invariant follows a message through the    *)
(* edgeports: what every message keeps (MessageOK), and the four stages an *)
(* INVITE can be in (InviteOK): placed by the phone, handed by the         *)
(* edgeport the call came in through to the edgeport of the callee, back   *)
(* at an edgeport that takes it for a new one, and out.  A second          *)
(* invariant (FormInv) follows what the phones make of the messages: where *)
(* a request goes next, against the edgeports it came through; a third     *)
(* (WaitInv) what a phone that waits for an answer waits for.              *)
(***************************************************************************)
EXTENDS Routing, FiniteSetTheorems, WellFoundedInduction, TLAPS

Methods == {"INVITE", "ACK", "BYE", "CANCEL", "REGISTER"}

MessageFields == {"type", "method", "code", "uri", "dest", "from", "to", "via", "route", "recordRoute",
                  "contact", "maxForwards", "auth", "token", "ext", "edge", "path"}

Transports == (UNION {ListeningOn[e] : e \in EdgePorts}) \cup {Phones[u].tp : u \in DOMAIN Phones}

Interface == [host : EdgeHosts \cup DOMAIN Phones, tp : Transports]

\* The Via headers against the way.
Traced(m) ==
    LET n == Len(m.via)
    IN /\ m.via[n].host \in DOMAIN Phones
       /\ n <= Len(m.path) + 1
       /\ \A i \in 1 .. n - 1 : m.via[i].host \in OwnHosts(m.path[n - i])
       /\ m.type = "request" => n = Len(m.path) + 1 /\ m.maxForwards = MaxHops - Len(m.path)

MessageOK(m) ==
    /\ DOMAIN m = MessageFields
    /\ m.type \in {"request", "response"} /\ m.code \in ResponseType \cup {None}
    /\ m.method \in Methods
    /\ m.via \in Seq(Interface) /\ m.via # <<>>
    /\ m.path \in Seq(EdgePorts)
    /\ m.maxForwards \in 0 .. MaxHops
    /\ m.method # "CANCEL" => Traced(m)

-----------------------------------------------------------------------------
(* An INVITE on its way *)

Dialled(c) == [user |-> c.to.user, host |-> c.to.host, tp |-> None]

\* Not yet routed: what the caller sent, with or without its credentials.
Untouched(c, m) ==
    /\ m.uri = Dialled(c) /\ "x-call-direction" \notin m.ext

\* A list of n addresses.
Lists(s, n) == Len(s) = n /\ s = [i \in 1 .. n |-> s[i]]

Placed(c, m) ==
    /\ m.path = <<>> /\ "x-edgeport-ref" \notin m.ext
    /\ \/ Lists(m.route, 0)
       \/ Lists(m.route, 1) /\ m.route[1].host = m.dest /\ c.route
    /\ m.dest \in EdgeHosts

\* The last of the routes is the phone, unless the URI has its host; before it
\* there is the edgeport the phone is registered at, and before that the Route
\* of the caller.
Leads(c, s, e, regs) ==
    \/ Lists(s, 1) /\ s[1].host \in OwnHosts(e) /\ <<c.to.host, e>> \in regs
    \/ Lists(s, 2) /\ s[1].host \in OwnHosts(e) /\ <<s[2].host, e>> \in regs
    \/ /\ Lists(s, 2) /\ s[1].host \in EdgeHosts /\ s[2].host \in OwnHosts(e)
       /\ <<c.to.host, e>> \in regs /\ c.route
    \/ /\ Lists(s, 3) /\ s[1].host \in EdgeHosts /\ s[2].host \in OwnHosts(e)
       /\ <<s[3].host, e>> \in regs /\ c.route

Handed(c, m, regs) ==
    /\ m.path # <<>> /\ "x-edgeport-ref" \in m.ext
    /\ m.dest = m.route[1].host
    /\ \E e \in EdgePorts : Leads(c, m.route, e, regs)

Back(c, m) ==
    /\ m.path # <<>> /\ "x-edgeport-ref" \notin m.ext
    /\ c.route /\ c.to.host \in DOMAIN Accounts
    /\ Lists(m.route, 1) /\ m.route[1].host = m.dest /\ m.dest \in EdgeHosts

Paid(c) ==
    \/ c.token # None
    \/ c.secret # None /\ c.secret = SecretOf(findResource(c.from.host, c.from.user, FALSE))

Out(c, m, regs, miss) ==
    /\ m.path # <<>> /\ "x-edgeport-ref" \notin m.ext /\ m.auth = None
    /\ \/ m.dest \in DOMAIN Accounts /\ (<<m.dest, m.path[Len(m.path)]>> \in regs \/ c.route)
       \/ /\ m.dest \in TrunkHosts /\ Paid(c)
          /\ findResource(c.to.host, c.to.user, FALSE).kind = "AGENT" => miss
    /\ \/ "x-call-direction" \in m.ext <=> Len(m.path) = 1
       \/ c.route /\ c.to.host \in DOMAIN Accounts

InviteOK(c, m, regs, miss) ==
    /\ m.from = c.from /\ m.to = c.to /\ m.token = c.token /\ m.auth \in {None, c.secret}
    /\ \/ Untouched(c, m) /\ (Placed(c, m) \/ Handed(c, m, regs) \/ Back(c, m))
       \/ Out(c, m, regs, miss)

\* The other requests carry no mark, and no credentials but an ACK.
OtherOK(m) ==
    /\ "x-edgeport-ref" \notin m.ext
    /\ m.method \in {"BYE", "CANCEL"} => m.auth = None
    /\ m.method = "REGISTER" => "x-gateway-auth" \in m.ext /\ (m.path # <<>> => m.auth = None)

-----------------------------------------------------------------------------
RouteFields == {"edge", "host", "tp", "advertised", "headers", "removes"}

RouteOK(r, regs) ==
    /\ DOMAIN r = RouteFields
    /\ r.edge \in EdgePorts /\ r.host \in DOMAIN Accounts /\ r.headers = {} /\ r.removes = {}
    /\ <<r.host, r.edge>> \in regs

LocInv == DOMAIN loc = Aors /\ \A a \in Aors : \A r \in loc[a] : RouteOK(r, registers)

WireInv == \A m \in wire : MessageOK(m)

TxOK(m) == MessageOK(m) /\ m.method = "INVITE" /\ m.type = "request" /\ m.path # <<>>

TxInv == DOMAIN tx = EdgePorts /\ \A e \in EdgePorts : tx[e] = None \/ TxOK(tx[e])

CalleeInv ==
    /\ DOMAIN callee = {"state", "at", "req", "routes", "target"}
    /\ IF callee.state = "idle" THEN callee.at = None
       ELSE callee.at \in DOMAIN Phones /\ MessageOK(callee.req)

RequestOK(c, m, regs, miss) == IF m.method = "INVITE" THEN InviteOK(c, m, regs, miss) ELSE OtherOK(m)

RequestsInv == \A m \in Requests : RequestOK(call, m, registers, failed)

CallInv == call \in Calls \cup Registrations

LostInv == lost \subseteq Methods /\ failed \in BOOLEAN

RegistersInv == registers \subseteq (DOMAIN Accounts) \X EdgePorts

RoutingInv ==
    /\ CallInv /\ LocInv /\ WireInv /\ TxInv /\ CalleeInv /\ RequestsInv /\ LostInv /\ RegistersInv

-----------------------------------------------------------------------------
(* Alterations: what each of them changes, and how *)

\* t is r but for some fields.
But(t, r, fields) == DOMAIN t = DOMAIN r /\ \A f \in DOMAIN r \ fields : t[f] = r[f]

LEMMA Tailored ==
    ASSUME NEW route, NEW r0, DOMAIN r0 = MessageFields, DOMAIN r0.uri = {"user", "host", "tp"}
    PROVE  LET t == tailor(route, r0)
           IN /\ But(t, r0, {"maxForwards", "auth", "route", "ext", "contact", "uri", "via", "recordRoute"})
              /\ t.maxForwards = r0.maxForwards - 1 /\ t.auth = None
              /\ t.route = Without(OwnHosts(r0.edge), r0.route)
              /\ t.ext = ((r0.ext \ {"x-edgeport-ref"}) \ route.removes) \cup route.headers
              /\ t.via = With(getEdgeInterface(r0.edge, [host |-> route.host, tp |-> route.tp]), r0.via)
              /\ t.uri = [r0.uri EXCEPT !.host = route.host, !.tp = route.tp]
<1> DEFINE r1 == removeXEdgePortRef(removeSelfRoutes(removeAuthorization(decreaseMaxForwards(r0))))
           r2 == addSelfVia(route, fixRequestURI(route, fixInvalidContact(r1)))
           r3 == applyXHeaders(route, r2)
           r4 == addSelfRecordRoute(route, Sender(r0), r3)
<1>1. /\ But(r1, r0, {"maxForwards", "auth", "route", "ext"})
      /\ r1.maxForwards = r0.maxForwards - 1 /\ r1.auth = None
      /\ r1.route = Without(OwnHosts(r0.edge), r0.route) /\ r1.ext = r0.ext \ {"x-edgeport-ref"}
  BY DEF MessageFields, But, removeXEdgePortRef, removeSelfRoutes, removeAuthorization, decreaseMaxForwards
<1>2. /\ But(r2, r1, {"contact", "uri", "via"})
      /\ r2.via = With(getEdgeInterface(r0.edge, [host |-> route.host, tp |-> route.tp]), r0.via)
      /\ r2.uri = [r0.uri EXCEPT !.host = route.host, !.tp = route.tp]
  BY <1>1 DEF MessageFields, But, addSelfVia, fixRequestURI, fixInvalidContact
<1>3. But(r4, r2, {"ext", "recordRoute"}) /\ r4.ext = (r2.ext \ route.removes) \cup route.headers
  BY <1>1, <1>2 DEF MessageFields, But, applyXHeaders, addSelfRecordRoute
<1>4. r4.uri = [r0.uri EXCEPT !.host = route.host, !.tp = route.tp]
  BY <1>1, <1>2, <1>3 DEF MessageFields, But
<1>5. r4.uri.host = route.host
  BY <1>4
<1>6. tailor(route, r0) = r4
  BY <1>5 DEF tailor, addRouteToNextHop
<1>7. DOMAIN r1 = MessageFields /\ DOMAIN r2 = MessageFields /\ DOMAIN r4 = MessageFields
  BY <1>1, <1>2, <1>3 DEF But
<1> HIDE DEF r1, r2, r3, r4
<1> QED BY <1>1, <1>2, <1>3, <1>4, <1>6, <1>7 DEF But, MessageFields

LEMMA Handing ==
    ASSUME NEW route, NEW r0, DOMAIN r0 = MessageFields
    PROVE  LET t == toPeerEdgePort(route, r0)
               peer == getEdgeInterface(route.edge, [host |-> route.host, tp |-> route.tp])
           IN /\ But(t, r0, {"maxForwards", "route", "ext", "via", "recordRoute"})
              /\ t.maxForwards = r0.maxForwards - 1 /\ t.ext = r0.ext \cup {"x-edgeport-ref"}
              /\ t.via = With(getEdgeInterface(r0.edge, [host |-> route.host, tp |-> route.tp]), r0.via)
              /\ t.route = IF r0.uri.host = route.host THEN With(peer, r0.route)
                           ELSE With([host |-> route.host, tp |-> route.tp], With(peer, r0.route))
<1> DEFINE r1 == addSelfRecordRoute(route, Sender(r0), addSelfVia(route, r0))
           r2 == addRouteToPeerEdgePort(route, r1)
           r3 == addRouteToNextHop(route, r2)
           peer == getEdgeInterface(route.edge, [host |-> route.host, tp |-> route.tp])
<1>1. /\ But(r1, r0, {"via", "recordRoute"})
      /\ r1.via = With(getEdgeInterface(r0.edge, [host |-> route.host, tp |-> route.tp]), r0.via)
  BY DEF MessageFields, But, addSelfVia, addSelfRecordRoute
<1>2. But(r2, r1, {"route"}) /\ r2.route = With(peer, r0.route)
  BY <1>1 DEF MessageFields, But, addRouteToPeerEdgePort
<1>3. /\ But(r3, r2, {"route"})
      /\ r3.route = IF r0.uri.host = route.host THEN With(peer, r0.route)
                    ELSE With([host |-> route.host, tp |-> route.tp], With(peer, r0.route))
  BY <1>1, <1>2 DEF MessageFields, But, addRouteToNextHop
<1>4. DOMAIN r1 = MessageFields /\ DOMAIN r2 = MessageFields /\ DOMAIN r3 = MessageFields
  BY <1>1, <1>2, <1>3 DEF But
<1>5. toPeerEdgePort(route, r0) = decreaseMaxForwards(addXEdgePortRef(r3))
  BY DEF toPeerEdgePort
<1> HIDE DEF r1, r2, r3
<1>6. /\ But(r3, r0, {"via", "recordRoute", "route"})
      /\ r3.via = With(getEdgeInterface(r0.edge, [host |-> route.host, tp |-> route.tp]), r0.via)
      /\ r3.route = IF r0.uri.host = route.host THEN With(peer, r0.route)
                    ELSE With([host |-> route.host, tp |-> route.tp], With(peer, r0.route))
  <2>1. r2.route = With(peer, r0.route) /\ r3.route = IF r0.uri.host = route.host THEN With(peer, r0.route)
                    ELSE With([host |-> route.host, tp |-> route.tp], With(peer, r0.route))
    BY <1>2, <1>3
  <2>2. r3.via = r1.via
    BY <1>2, <1>3, <1>4 DEF But, MessageFields
  <2>3. But(r3, r0, {"via", "recordRoute", "route"})
    BY <1>1, <1>2, <1>3, <1>4 DEF But, MessageFields
  <2> QED BY <1>1, <2>1, <2>2, <2>3
<1>7. LET t == decreaseMaxForwards(addXEdgePortRef(r3))
      IN /\ But(t, r3, {"maxForwards", "ext"})
         /\ t.maxForwards = r3.maxForwards - 1 /\ t.ext = r3.ext \cup {"x-edgeport-ref"}
         /\ t.via = r3.via /\ t.route = r3.route
  BY <1>4 DEF But, MessageFields, decreaseMaxForwards, addXEdgePortRef
<1> QED BY <1>4, <1>5, <1>6, <1>7 DEF But, MessageFields

\* What becomes of an ACK or a BYE, and of the registration of a trunk.
LEMMA Passed ==
    ASSUME NEW r0, DOMAIN r0 = MessageFields
    PROVE  /\ LET t == removeSelfRoutes(addSelfViaUsingExternalAddrs(decreaseMaxForwards(r0)))
              IN /\ But(t, r0, {"maxForwards", "via", "route"})
                 /\ t.maxForwards = r0.maxForwards - 1
                 /\ t.via = With(getEdgeInterface(r0.edge, r0.uri), r0.via)
           /\ LET r1 == decreaseMaxForwards(addSelfVia(createRouteFromLastMessage(r0), r0))
                  t == removeXEdgePortRef(removeSelfRoutes(removeAuthorization(r1)))
              IN /\ But(t, r0, {"maxForwards", "via", "route", "auth", "ext"})
                 /\ t.maxForwards = r0.maxForwards - 1 /\ t.auth = None
                 /\ t.ext = r0.ext \ {"x-edgeport-ref"}
                 /\ t.via = With(getEdgeInterface(r0.edge, [host |-> r0.uri.host, tp |-> r0.uri.tp]), r0.via)
<1>1. LET t == removeSelfRoutes(addSelfViaUsingExternalAddrs(decreaseMaxForwards(r0)))
      IN /\ But(t, r0, {"maxForwards", "via", "route"})
         /\ t.maxForwards = r0.maxForwards - 1
         /\ t.via = With(getEdgeInterface(r0.edge, r0.uri), r0.via)
  BY DEF But, MessageFields, removeSelfRoutes, addSelfViaUsingExternalAddrs, decreaseMaxForwards
<1>2. LET r1 == decreaseMaxForwards(addSelfVia(createRouteFromLastMessage(r0), r0))
          t == removeXEdgePortRef(removeSelfRoutes(removeAuthorization(r1)))
      IN /\ But(t, r0, {"maxForwards", "via", "route", "auth", "ext"})
         /\ t.maxForwards = r0.maxForwards - 1 /\ t.auth = None
         /\ t.ext = r0.ext \ {"x-edgeport-ref"}
         /\ t.via = With(getEdgeInterface(r0.edge, [host |-> r0.uri.host, tp |-> r0.uri.tp]), r0.via)
  BY DEF But, MessageFields, removeSelfRoutes, addSelfVia, decreaseMaxForwards, removeAuthorization,
         removeXEdgePortRef, createRouteFromLastMessage
<1> QED BY <1>1, <1>2

-----------------------------------------------------------------------------
(* What every message keeps *)

LEMMA EdgeInterface ==
    ASSUME NEW e \in EdgePorts, NEW a, ~Throws(e, a)
    PROVE  getEdgeInterface(e, a) \in Interface /\ getEdgeInterface(e, a).host \in OwnHosts(e)
<1>1. ExternalAddrs[e] \in Seq(STRING)
  BY HostsAssumption DEF HostsAssumption
<1>2. getEdgeInterface(e, a) = [host |-> IF a.host \in DOMAIN Localnet[e]
                                         THEN Localnet[e][a.host] ELSE Head(ExternalAddrs[e]),
                                tp |-> TransportOf(a)]
  BY DEF getEdgeInterface
<1>3. TransportOf(a) \in Transports
  BY DEF Throws, Transports
<1>4. getEdgeInterface(e, a).host \in OwnHosts(e)
  <2>1. CASE a.host \in DOMAIN Localnet[e]
    BY <1>2, <2>1 DEF OwnHosts
  <2>2. CASE a.host \notin DOMAIN Localnet[e]
    <3>1. ExternalAddrs[e] # <<>>
      BY <2>2 DEF Throws
    <3>2. Head(ExternalAddrs[e]) \in Range(ExternalAddrs[e])
      BY <1>1, <3>1 DEF Range
    <3> QED BY <1>2, <2>2, <3>2 DEF OwnHosts
  <2> QED BY <2>1, <2>2
<1>5. getEdgeInterface(e, a).host \in EdgeHosts
  BY <1>4 DEF EdgeHosts
<1> QED BY <1>2, <1>3, <1>4, <1>5 DEF Interface

LEMMA SelfInterface ==
    ASSUME NEW u \in DOMAIN Phones
    PROVE  Self(u) \in Interface /\ Self(u).host = u
<1>1. Phones[u].tp \in {Phones[v].tp : v \in DOMAIN Phones}
  OBVIOUS
<1>2. Phones[u].tp \in Transports
  BY <1>1 DEF Transports
<1> QED BY <1>2 DEF Self, Interface

\* A request of a phone.
LEMMA Requested ==
    ASSUME NEW u \in DOMAIN Phones, NEW method \in Methods, NEW uri, NEW route, NEW dest
    PROVE  MessageOK(Request(u, method, uri, route, dest))
<1> DEFINE m == Request(u, method, uri, route, dest)
<1>1. /\ DOMAIN m = MessageFields /\ m.type = "request" /\ m.code = None /\ m.method = method
      /\ m.via = <<Self(u)>> /\ m.path = <<>> /\ m.maxForwards = MaxHops
  BY DEF Request, MessageFields
<1> HIDE DEF m
<1>2. m.via \in Seq(Interface) /\ m.via # <<>> /\ Len(m.via) = 1 /\ m.via[1].host = u
  BY <1>1, SelfInterface
<1>3. m.path \in Seq(EdgePorts) /\ Len(m.path) = 0
  BY <1>1
<1>4. m.maxForwards \in 0 .. MaxHops /\ MaxHops - Len(m.path) = m.maxForwards
  BY <1>1, <1>3, HopsAssumption DEF HopsAssumption
<1>5. Traced(m)
  BY <1>2, <1>3, <1>4 DEF Traced
<1> QED BY <1>1, <1>2, <1>3, <1>4, <1>5 DEF MessageOK, m

\* Fields that MessageOK does not read may change.
LEMMA SameWay ==
    ASSUME NEW m, NEW t, MessageOK(m), DOMAIN t = MessageFields,
           t.type \in {"request", "response"}, t.type = "request" => m.type = "request",
           t.code \in ResponseType \cup {None}, t.method = m.method,
           t.via = m.via, t.path = m.path, t.maxForwards = m.maxForwards
    PROVE  MessageOK(t)
BY DEF MessageOK, Traced

\* One edgeport further.
Hop(m, t, e, i) ==
    /\ MessageOK(m) /\ m.type = "request" /\ m.method # "CANCEL" /\ e \in EdgePorts
    /\ i \in Interface /\ i.host \in OwnHosts(e)
    /\ DOMAIN t = MessageFields /\ t.type = "request" /\ t.code = m.code /\ t.method = m.method
    /\ t.via = With(i, m.via) /\ t.path = Append(m.path, e)
    /\ t.maxForwards = m.maxForwards - 1 /\ t.maxForwards >= 0

LEMMA Further ==
    ASSUME NEW m, NEW t, NEW e, NEW i, Hop(m, t, e, i)
    PROVE  /\ MessageOK(t) /\ t.path # <<>> /\ t.path[Len(t.path)] = e
           /\ Len(m.path) \in Nat /\ Len(t.path) = Len(m.path) + 1
<1>0. /\ MessageOK(m) /\ m.type = "request" /\ m.method # "CANCEL" /\ e \in EdgePorts
      /\ i \in Interface /\ i.host \in OwnHosts(e)
      /\ DOMAIN t = MessageFields /\ t.type = "request" /\ t.code = m.code /\ t.method = m.method
      /\ t.via = With(i, m.via) /\ t.path = Append(m.path, e)
      /\ t.maxForwards = m.maxForwards - 1 /\ t.maxForwards >= 0
  BY DEF Hop
<1> USE <1>0
<1> DEFINE n == Len(m.via)
<1>1. /\ m.via \in Seq(Interface) /\ m.path \in Seq(EdgePorts) /\ m.maxForwards \in 0 .. MaxHops
      /\ n = Len(m.path) + 1 /\ m.maxForwards = MaxHops - Len(m.path) /\ m.via[n].host \in DOMAIN Phones
      /\ \A j \in 1 .. n - 1 : m.via[j].host \in OwnHosts(m.path[n - j])
  BY DEF MessageOK, Traced
<1>2. /\ t.via \in Seq(Interface) /\ Len(t.via) = n + 1 /\ t.via[1] = i
      /\ \A j \in 2 .. n + 1 : t.via[j] = m.via[j - 1]
  <2>1. t.via = <<i>> \o m.via /\ <<i>> \in Seq(Interface) /\ Len(<<i>>) = 1 /\ <<i>>[1] = i
    BY DEF With
  <2>2. n \in Nat /\ n >= 1
    BY <1>1
  <2> QED BY <1>1, <2>1, <2>2
<1>3. /\ t.path \in Seq(EdgePorts) /\ Len(t.path) = n /\ t.path[n] = e
      /\ \A j \in 1 .. n - 1 : t.path[j] = m.path[j]
  BY <1>1
<1>4. n \in Nat /\ n >= 1 /\ MaxHops \in Nat
  BY <1>1, HopsAssumption DEF HopsAssumption
<1> HIDE DEF n
<1>5. t.via[n + 1].host \in DOMAIN Phones
  <2>1. n + 1 \in 2 .. n + 1 /\ (n + 1) - 1 = n
    BY <1>4
  <2> QED BY <1>1, <1>2, <2>1 DEF n
<1>6. ASSUME NEW j \in 1 .. n PROVE t.via[j].host \in OwnHosts(t.path[n + 1 - j])
  <2>1. CASE j = 1
    BY <1>2, <1>3, <1>4, <2>1
  <2>2. CASE j # 1
    <3>1. j - 1 \in 1 .. n - 1 /\ n - (j - 1) = n + 1 - j /\ n + 1 - j \in 1 .. n - 1 /\ (j - 1) + 1 = j
      BY <1>4, <2>2
    <3>2. m.via[j - 1].host \in OwnHosts(m.path[n + 1 - j])
      BY <1>1, <3>1
    <3>3. j \in 2 .. n + 1
      BY <1>4, <2>2
    <3>4. t.via[j] = m.via[j - 1]
      BY ONLY <1>2, <3>3
    <3> QED BY <1>3, <3>1, <3>2, <3>4
  <2> QED BY <2>1, <2>2
<1>7. Traced(t)
  <2>1. /\ Len(t.via) = n + 1 /\ n + 1 <= Len(t.path) + 1 /\ (n + 1) - 1 = n
        /\ n + 1 = Len(t.path) + 1 /\ t.maxForwards = MaxHops - Len(t.path)
    BY <1>1, <1>2, <1>3, <1>4
  <2>2. \A j \in 1 .. Len(t.via) - 1 : t.via[j].host \in OwnHosts(t.path[Len(t.via) - j])
    <3> SUFFICES ASSUME NEW j \in 1 .. Len(t.via) - 1
                 PROVE  t.via[j].host \in OwnHosts(t.path[Len(t.via) - j])
      OBVIOUS
    <3>1. j \in 1 .. n /\ Len(t.via) - j = n + 1 - j
      BY <1>4, <2>1
    <3> QED BY <1>6, <3>1
  <2>3. t.via[Len(t.via)].host \in DOMAIN Phones
    BY <1>5, <2>1
  <2> QED BY <2>1, <2>2, <2>3 DEF Traced
<1>8. t.via # <<>> /\ t.path # <<>> /\ Len(t.path) = Len(m.path) + 1
  <2>1. Len(t.via) # 0 /\ Len(t.path) # 0
    BY <1>2, <1>3, <1>4
  <2>2. t.via # <<>> /\ t.path # <<>>
    BY ONLY <2>1
  <2> QED BY <1>1, <1>3, <2>2
<1>9. t.maxForwards \in 0 .. MaxHops
  BY <1>1, <1>4
<1> QED BY <1>1, <1>2, <1>3, <1>7, <1>8, <1>9 DEF MessageOK

\* One edgeport back.
LEMMA Retraced ==
    ASSUME NEW m, MessageOK(m), m.method # "CANCEL", Tail(m.via) # <<>>,
           NEW t, DOMAIN t = MessageFields, t.type = "response", t.method = m.method,
           t.code \in ResponseType \cup {None},
           t.via = Tail(m.via), t.path = m.path, t.maxForwards = m.maxForwards
    PROVE  MessageOK(t)
<1> DEFINE n == Len(m.via)
<1>1. /\ m.via \in Seq(Interface) /\ m.via # <<>> /\ m.path \in Seq(EdgePorts)
      /\ n <= Len(m.path) + 1 /\ m.via[n].host \in DOMAIN Phones
      /\ \A j \in 1 .. n - 1 : m.via[j].host \in OwnHosts(m.path[n - j])
  BY DEF MessageOK, Traced
<1>2. /\ n \in Nat /\ n >= 2 /\ t.via \in Seq(Interface) /\ Len(t.via) = n - 1 /\ t.via # <<>>
      /\ \A j \in 1 .. n - 1 : t.via[j] = m.via[j + 1]
  BY <1>1
<1> HIDE DEF n
<1>3. t.via[n - 1].host \in DOMAIN Phones
  BY <1>1, <1>2
<1>4. ASSUME NEW j \in 1 .. (n - 1) - 1 PROVE t.via[j].host \in OwnHosts(t.path[(n - 1) - j])
  <2>1. j + 1 \in 1 .. n - 1 /\ n - (j + 1) = (n - 1) - j /\ j \in 1 .. n - 1
    BY <1>2, SMTT(30)
  <2> QED BY <1>1, <1>2, <2>1
<1>5. Traced(t)
  BY <1>1, <1>2, <1>3, <1>4, SMTT(30) DEF Traced
<1> QED BY <1>1, <1>2, <1>5 DEF MessageOK

-----------------------------------------------------------------------------
(* A list of at most three routes without some hosts.  (The recursive      *)
(* function has a value because its four steps can be written down.)       *)

Grow(hosts, list, x) == IF x.host \in hosts THEN list ELSE Append(list, x)

LEMMA WithoutValue ==
    ASSUME NEW hosts, NEW s, NEW n \in 0 .. 3, Len(s) = n
    PROVE  LET one == Grow(hosts, <<>>, s[1])
               two == Grow(hosts, one, s[2])
           IN /\ n = 0 => Without(hosts, s) = <<>>
              /\ n = 1 => Without(hosts, s) = one
              /\ n = 2 => Without(hosts, s) = two
              /\ n = 3 => Without(hosts, s) = Grow(hosts, two, s[3])
<1> DEFINE body(g) == [i \in 0 .. Len(s) |->
                         IF i = 0 THEN <<>>
                         ELSE IF s[i].host \in hosts THEN g[i - 1] ELSE Append(g[i - 1], s[i])]
           one == Grow(hosts, <<>>, s[1])
           two == Grow(hosts, one, s[2])
           three == Grow(hosts, two, s[3])
           f == [i \in 0 .. n |-> IF i = 0 THEN <<>> ELSE IF i = 1 THEN one ELSE IF i = 2 THEN two ELSE three]
<1> HIDE DEF one, two, three
<1>1. f = body(f)
  <2> SUFFICES ASSUME NEW i \in 0 .. n
               PROVE  f[i] = IF i = 0 THEN <<>>
                             ELSE IF s[i].host \in hosts THEN f[i - 1] ELSE Append(f[i - 1], s[i])
    OBVIOUS
  <2>1. i = 0 \/ i = 1 \/ i = 2 \/ i = 3
    OBVIOUS
  <2>2. CASE i = 0
    BY <2>2
  <2>3. CASE i = 1
    <3>1. f[1] = one /\ f[0] = <<>>
      BY <2>3
    <3> QED BY <2>3, <3>1 DEF one, Grow
  <2>4. CASE i = 2
    <3>1. f[2] = two /\ f[1] = one
      BY <2>4
    <3> QED BY <2>4, <3>1 DEF two, Grow
  <2>5. CASE i = 3
    <3>1. f[3] = three /\ f[2] = two
      BY <2>5
    <3> QED BY <2>5, <3>1 DEF three, Grow
  <2> QED BY <2>1, <2>2, <2>3, <2>4, <2>5
<1>2. Without(hosts, s) = (CHOOSE g : g = body(g))[Len(s)]
  BY DEF Without
<1> DEFINE k == CHOOSE g : g = body(g)
<1> HIDE DEF f, body
<1>3. k = body(k)
  BY <1>1
<1> HIDE DEF k
<1>4. ASSUME NEW i \in 0 .. n
      PROVE  k[i] = IF i = 0 THEN <<>> ELSE IF s[i].host \in hosts THEN k[i - 1] ELSE Append(k[i - 1], s[i])
  BY <1>3 DEF body
<1>5. n >= 1 => k[0] = <<>> /\ k[1] = one
  <2> HAVE n >= 1
  <2>1. 0 \in 0 .. n /\ 1 \in 0 .. n /\ 1 - 1 = 0
    OBVIOUS
  <2>2. k[0] = <<>>
    BY <1>4, <2>1
  <2>3. k[1] = IF s[1].host \in hosts THEN k[0] ELSE Append(k[0], s[1])
    BY <1>4, <2>1
  <2> QED BY <2>2, <2>3 DEF one, Grow
<1>6. n >= 2 => k[2] = two
  BY <1>4, <1>5 DEF two, Grow
<1>7. n >= 3 => k[3] = three
  BY <1>4, <1>6 DEF three, Grow
<1>8. n = 0 => k[0] = <<>>
  BY <1>4
<1>9. Without(hosts, s) = k[n]
  BY <1>2 DEF k
<1> QED BY <1>5, <1>6, <1>7, <1>8, <1>9 DEF one, two, three

-----------------------------------------------------------------------------
(* Where the router sends an INVITE *)

LEMMA CallerOrNobody ==
    ASSUME NEW h, NEW u, NEW b \in BOOLEAN
    PROVE  \/ b /\ findResource(h, u, b) = Nobody
           \/ ~b /\ findResource(h, u, b) = findResource(h, u, FALSE)
<1>1. CASE b
  BY <1>1 DEF findResource
<1>2. CASE ~b
  <2>1. b = FALSE
    BY <1>2
  <2> QED BY <1>2, <2>1
<1> QED BY <1>1, <1>2

LEMMA Directions ==
    ASSUME NEW src, NEW dst
    PROVE  LET d == getRoutingDirection(src, dst)
           IN /\ d \in {"AGENT_TO_AGENT", "AGENT_TO_PSTN", "PEER_TO_AGENT", "AGENT_TO_PEER", "FROM_PSTN",
                        "PEER_TO_PSTN", "UNKNOWN"}
              /\ d = "AGENT_TO_PSTN" => src.kind = "AGENT" /\ dst.kind = "UNKNOWN"
              /\ d = "PEER_TO_PSTN" => src.kind = "PEER" /\ dst.kind = "UNKNOWN"
              /\ d = "AGENT_TO_PEER" => dst.kind = "PEER"
              /\ d = "FROM_PSTN" => dst.kind = "NUMBER"
BY DEF getRoutingDirection

\* What a resource that was found is.
LEMMA Kinds ==
    ASSUME NEW h, NEW u, NEW b \in BOOLEAN
    PROVE  LET r == findResource(h, u, b)
           IN /\ r.kind = "PEER" => r.user \in DOMAIN Peers
              /\ r.kind = "NUMBER" => r.user \in DOMAIN Numbers
              /\ b => r.kind = "UNKNOWN"
BY DEF findResource, findNumberByTelUrl, Nobody

LEMMA TrunkRouted ==
    ASSUME NEW req, NEW number
    PROVE  LET r == TrunkRoute(req, number)
           IN \/ r = Broken
              \/ /\ DOMAIN r = RouteFields /\ r.edge = req.edge /\ r.host \in TrunkHosts
                 /\ r.headers = {"privacy", createRemotePartyId, createPAssertedIdentity,
                                 createTrunkAuthentication}
<1> DEFINE trunk == Numbers[number].trunk
           uri == IF number \in DOMAIN Numbers THEN getTrunkURI(trunk) ELSE Broken
           r == [edge |-> req.edge, host |-> uri.host, tp |-> uri.tp, advertised |-> Sender(req).host,
                 headers |-> {"privacy", createRemotePartyId, createPAssertedIdentity,
                              createTrunkAuthentication},
                 removes |-> {"privacy"}]
<1>1. TrunkRoute(req, number) = IF uri = Broken THEN Broken ELSE r
  BY DEF TrunkRoute
<1>2. uri # Broken => uri.host \in TrunkHosts
  <2> HAVE uri # Broken
  <2>1. number \in DOMAIN Numbers /\ uri = getTrunkURI(trunk)
    OBVIOUS
  <2>2. trunk # None /\ uri.host = Trunks[trunk].uri
    BY <2>1 DEF getTrunkURI
  <2>3. trunk \in DOMAIN Trunks
    BY <2>1, <2>2, NumbersAssumption DEF NumbersAssumption
  <2> QED BY <2>2, <2>3 DEF TrunkHosts
<1> HIDE DEF uri
<1> QED BY <1>1, <1>2 DEF RouteFields

LEMMA Denials ==
    ASSUME NEW req, NEW src, NEW dst, NEW direction
    PROVE  /\ checkAccess(req, src, dst, direction) \in ResponseType \cup {None}
           /\ direction \in {"AGENT_TO_PSTN", "PEER_TO_PSTN"}
                 /\ checkAccess(req, src, dst, direction) = None
              => req.auth # None /\ req.auth = SecretOf(src)
<1>1. \A secret : /\ Challenge(req, secret) \in {None, UNAUTHORIZED}
                  /\ Challenge(req, secret) = None => req.auth # None /\ req.auth = secret
  BY NoneAssumption DEF Challenge, NoneAssumption, ResponseType
<1>2. checkAgentOrPeerAccess(req, src) = Challenge(req, SecretOf(src))
  BY DEF checkAgentOrPeerAccess
<1>3. checkAccessFromPSTN(req, dst) \in {None, UNAUTHORIZED, FORBIDDEN, UNCHALLENGED}
  <2> DEFINE trunk == findBy(Trunks, "inbound", req.uri.host)
             t == CHOOSE t \in trunk : TRUE
  <2>1. checkAccessFromPSTN(req, dst) =
          CASE trunk = {} -> FORBIDDEN
            [] trunk # {} /\ Numbers[dst.user].trunk # t -> FORBIDDEN
            [] OTHER ->
                 IF Trunks[t].allow # None /\ Sender(req).host \notin Trunks[t].allow THEN UNCHALLENGED
                 ELSE IF Trunks[t].secret # None THEN Challenge(req, Trunks[t].secret)
                 ELSE None
    BY DEF checkAccessFromPSTN
  <2> HIDE DEF trunk, t
  <2> QED BY <1>1, <2>1
<1> HIDE DEF ResponseType
<1>4. {UNAUTHORIZED, FORBIDDEN, UNCHALLENGED} \subseteq ResponseType
  BY DEF ResponseType
<1> QED BY <1>1, <1>2, <1>3, <1>4 DEF checkAccess

Asked(c) == Aors \cup {c.to} \cup {Numbers[n].aorLink : n \in DOMAIN Numbers}

Leaving(c, route, e, regs, miss) ==
    /\ route.edge = e /\ route.host \in TrunkHosts /\ Paid(c)
    /\ findResource(c.to.host, c.to.user, FALSE).kind = "AGENT" => miss

RouteChosen(c, route, e, regs, miss) ==
    /\ DOMAIN route = RouteFields
    /\ "x-call-direction" \in route.headers /\ "x-edgeport-ref" \notin route.headers
    /\ \/ route.edge \in EdgePorts /\ route.host \in DOMAIN Accounts /\ <<route.host, route.edge>> \in regs
       \/ Leaving(c, route, e, regs, miss)

LEMMA CalleeKinds ==
    ASSUME NEW req, NEW deaf
    PROVE  LET dst == CalleeOf(req, deaf)
           IN /\ dst.kind = "PEER" => dst.user \in DOMAIN Peers
              /\ dst.kind = "NUMBER" => dst.user \in DOMAIN Numbers
<1>1. CASE req.token # None
  <2> DEFINE peer == findBy(Peers, "aor", Tokens[req.token].aorLink)
  <2>1. CalleeOf(req, deaf) = IF peer = {} THEN Anonymous
                              ELSE [kind |-> "PEER", user |-> CHOOSE p \in peer : TRUE]
    BY <1>1 DEF CalleeOf
  <2>2. peer # {} => (CHOOSE p \in peer : TRUE) \in DOMAIN Peers
    BY DEF findBy
  <2> HIDE DEF peer
  <2> QED BY <2>1, <2>2 DEF Anonymous
<1>2. CASE req.token = None
  <2> DEFINE b == "callee" \in deaf
  <2>1. CalleeOf(req, deaf) = findResource(req.uri.host, req.uri.user, b) /\ b \in BOOLEAN
    BY <1>2 DEF CalleeOf
  <2> HIDE DEF b
  <2> QED BY <2>1, Kinds
<1> QED BY <1>1, <1>2

LEMMA Routed ==
    ASSUME NEW c, NEW req, req.method = "INVITE", req.token = c.token, req.from = c.from, req.to = c.to,
           req.uri = Dialled(c), req.auth \in {None, c.secret},
           NEW regs, NEW pick, \A a \in Asked(c) : pick[a] = None \/ RouteOK(pick[a], regs),
           NEW deaf, NEW miss \in BOOLEAN, deaf # {} => miss
    PROVE  LET result == router(req, pick, deaf)
           IN \/ result.type = "response" /\ result.code \in ResponseType
              \/ result.type = "route" /\ RouteChosen(c, result.route, req.edge, regs, miss)
<1> DEFINE src == CallerOf(req, deaf)
           dst == CalleeOf(req, deaf)
           direction == getRoutingDirection(src, dst)
           denied == IF req.token # None
                     THEN IF "INVITE" \in Tokens[req.token].allows THEN None ELSE FORBIDDEN
                     ELSE IF req.method = "INVITE"
                     THEN checkAccess(req, src, dst, direction) ELSE None
           domain == IF req.token # None THEN Tokens[req.token].domain ELSE Agents[src.user].domain
           route == CASE direction = "AGENT_TO_AGENT" -> agentToAgent(req, pick)
                      [] direction = "AGENT_TO_PEER" -> agentToPeer(dst, pick)
                      [] direction = "AGENT_TO_PSTN" -> agentToPSTN(req, domain)
                      [] direction = "FROM_PSTN"     -> fromPSTN(dst, pick)
                      [] direction = "PEER_TO_PSTN"  -> peerToPSTN(req)
                      [] OTHER -> Broken
           mark == [route EXCEPT !.headers = @ \cup {"x-call-direction"}]
<1>1. router(req, pick, deaf) =
        CASE denied # None -> Answer(denied)
          [] denied = None /\ route = None -> Answer(TEMPORARILY_UNAVAILABLE)
          [] denied = None /\ route = Broken -> Answer(SERVER_INTERNAL_ERROR)
          [] OTHER -> [type |-> "route", direction |-> direction, route |-> mark]
  BY DEF router
<1>2. denied \in ResponseType \cup {None}
  <2>1. FORBIDDEN \in ResponseType
    BY DEF ResponseType
  <2> HIDE DEF direction, src, dst
  <2> QED BY <2>1, Denials
<1>3. direction \in {"AGENT_TO_PSTN", "PEER_TO_PSTN"} /\ denied = None => Paid(c)
  <2> HAVE direction \in {"AGENT_TO_PSTN", "PEER_TO_PSTN"} /\ denied = None
  <2>1. CASE c.token # None
    BY <2>1 DEF Paid
  <2>2. CASE c.token = None
    <3>1. src = findResource(c.from.host, c.from.user, "caller" \in deaf)
      BY <2>2 DEF CallerOf
    <3>2. src.kind \in {"AGENT", "PEER"}
      <4> HIDE DEF src, dst, denied
      <4> QED BY Directions
    <3>3. src = findResource(c.from.host, c.from.user, FALSE)
      <4> DEFINE b == "caller" \in deaf
      <4>1. b \in BOOLEAN
        OBVIOUS
      <4>2. src = findResource(c.from.host, c.from.user, b)
        BY <3>1
      <4> HIDE DEF b, src
      <4>3. b => src = Nobody
        BY <4>1, <4>2, CallerOrNobody
      <4>4. ~b
        BY <3>2, <4>3 DEF Nobody
      <4> QED BY <4>1, <4>2, <4>4, CallerOrNobody
    <3>4. req.auth # None /\ req.auth = SecretOf(src)
      <4>1. denied = checkAccess(req, src, dst, direction)
        BY <2>2
      <4> HIDE DEF src, dst, denied, direction
      <4> QED BY <4>1, Denials
    <3> HIDE DEF src
    <3> QED BY <3>3, <3>4 DEF Paid
  <2> QED BY <2>1, <2>2
<1>4. direction \in {"AGENT_TO_PSTN", "PEER_TO_PSTN"}
        => (findResource(c.to.host, c.to.user, FALSE).kind = "AGENT" => miss)
  <2> HAVE direction \in {"AGENT_TO_PSTN", "PEER_TO_PSTN"}
  <2>1. dst.kind = "UNKNOWN"
    <3> HIDE DEF src, dst, denied
    <3> QED BY Directions
  <2>2. CASE c.token # None
    BY <2>1, <2>2 DEF CalleeOf, Anonymous
  <2>3. CASE c.token = None
    <3>1. dst = findResource(c.to.host, c.to.user, "callee" \in deaf)
      BY <2>3 DEF CalleeOf, Dialled
    <3> HIDE DEF dst
    <3>2. CASE "callee" \in deaf
      BY <3>2
    <3>3. CASE "callee" \notin deaf
      <4> DEFINE b == "callee" \in deaf
      <4>1. b \in BOOLEAN /\ ~b
        BY <3>3
      <4>2. dst = findResource(c.to.host, c.to.user, b)
        BY <3>1
      <4> HIDE DEF b
      <4>3. dst = findResource(c.to.host, c.to.user, FALSE)
        BY <4>1, <4>2, CallerOrNobody
      <4>4. findResource(c.to.host, c.to.user, FALSE).kind = "UNKNOWN"
        BY <2>1, <4>3
      <4> QED BY <4>4
    <3> QED BY <3>2, <3>3
  <2> QED BY <2>2, <2>3
<1>5. denied = None /\ route # None /\ route # Broken =>
        \/ RouteOK(route, regs)
        \/ /\ DOMAIN route = RouteFields /\ route.edge \in EdgePorts /\ route.host \in DOMAIN Accounts
           /\ <<route.host, route.edge>> \in regs /\ "x-edgeport-ref" \notin route.headers
        \/ /\ DOMAIN route = RouteFields /\ Leaving(c, route, req.edge, regs, miss)
           /\ "x-edgeport-ref" \notin route.headers
  <2> HAVE denied = None /\ route # None /\ route # Broken
  <2> HIDE DEF denied, src, domain
  <2>1. CASE direction = "AGENT_TO_AGENT"
    <3>1. route = pick[c.to] /\ c.to \in Asked(c)
      BY <2>1 DEF agentToAgent, getTargetAOR, Asked
    <3> HIDE DEF route
    <3> QED BY <3>1
  <2>2. CASE direction = "AGENT_TO_PEER"
    <3>1. route = pick[Peers[dst.user].aor]
      BY <2>2 DEF agentToPeer
    <3>2. dst.kind = "PEER"
      BY <2>2, Directions
    <3>3. dst.user \in DOMAIN Peers
      BY <3>2, CalleeKinds
    <3>4. Peers[dst.user].aor \in Asked(c)
      BY <3>3 DEF Asked, Aors
    <3> HIDE DEF route
    <3> QED BY <3>1, <3>4
  <2>3. CASE direction = "FROM_PSTN"
    <3> DEFINE number == Numbers[dst.user]
               r == pick[number.aorLink]
    <3>1. route = IF r = None THEN None ELSE [r EXCEPT !.headers = @ \cup number.headers]
      BY <2>3 DEF fromPSTN
    <3>2. dst.kind = "NUMBER"
      BY <2>3, Directions
    <3>3. dst.user \in DOMAIN Numbers
      BY <3>2, CalleeKinds
    <3>4. number.aorLink \in Asked(c) /\ "x-edgeport-ref" \notin number.headers
      BY <3>3, NumbersAssumption DEF Asked, NumbersAssumption, OwnHeaders
    <3> HIDE DEF route
    <3>5. RouteOK(r, regs) /\ route = [r EXCEPT !.headers = @ \cup number.headers]
      BY <3>1, <3>4
    <3> HIDE DEF r, number
    <3>6. /\ DOMAIN route = RouteFields /\ route.edge = r.edge /\ route.host = r.host
          /\ route.headers = r.headers \cup number.headers
      BY <3>5 DEF RouteOK, RouteFields
    <3> QED BY <3>4, <3>5, <3>6 DEF RouteOK
  <2>4. CASE direction = "AGENT_TO_PSTN"
    <3>1. route = agentToPSTN(req, domain)
      BY <2>4
    <3> HIDE DEF route, direction
    <3>2. \E number : route = TrunkRoute(req, number)
      BY <3>1 DEF agentToPSTN
    <3>3. PICK number : route = TrunkRoute(req, number)
      BY <3>2
    <3>4. /\ DOMAIN route = RouteFields /\ route.edge = req.edge /\ route.host \in TrunkHosts
          /\ route.headers = {"privacy", createRemotePartyId, createPAssertedIdentity,
                              createTrunkAuthentication}
      BY <3>3, TrunkRouted
    <3>5. "x-edgeport-ref" \notin route.headers
      BY <3>4 DEF createRemotePartyId, createPAssertedIdentity, createTrunkAuthentication
    <3> QED BY <1>3, <1>4, <2>4, <3>4, <3>5 DEF Leaving
  <2>5. CASE direction = "PEER_TO_PSTN"
    <3>1. route = peerToPSTN(req)
      BY <2>5
    <3> HIDE DEF route, direction
    <3>2. \E number : route = TrunkRoute(req, number)
      BY <3>1 DEF peerToPSTN
    <3>3. PICK number : route = TrunkRoute(req, number)
      BY <3>2
    <3>4. /\ DOMAIN route = RouteFields /\ route.edge = req.edge /\ route.host \in TrunkHosts
          /\ route.headers = {"privacy", createRemotePartyId, createPAssertedIdentity,
                              createTrunkAuthentication}
      BY <3>3, TrunkRouted
    <3>5. "x-edgeport-ref" \notin route.headers
      BY <3>4 DEF createRemotePartyId, createPAssertedIdentity, createTrunkAuthentication
    <3> QED BY <1>3, <1>4, <2>5, <3>4, <3>5 DEF Leaving
  <2>6. route # Broken /\ direction \notin {"AGENT_TO_AGENT", "AGENT_TO_PEER", "FROM_PSTN", "AGENT_TO_PSTN",
                                           "PEER_TO_PSTN"} => FALSE
    <3> HIDE DEF direction
    <3> QED OBVIOUS
  <2> HIDE DEF direction, route
  <2> QED BY <2>1, <2>2, <2>3, <2>4, <2>5, <2>6
<1> HIDE DEF route, denied, direction
<1>6. CASE denied # None
  BY <1>1, <1>2, <1>6 DEF Answer
<1>7. CASE denied = None /\ (route = None \/ route = Broken)
  BY <1>1, <1>7 DEF Answer, ResponseType
<1>8. CASE denied = None /\ route # None /\ route # Broken
  <2>1. DOMAIN route = RouteFields /\ "x-edgeport-ref" \notin route.headers
    BY <1>5, <1>8 DEF RouteOK
  <2>2. /\ DOMAIN mark = RouteFields /\ mark.headers = route.headers \cup {"x-call-direction"}
        /\ mark.edge = route.edge /\ mark.host = route.host
    BY <2>1 DEF RouteFields
  <2>3. router(req, pick, deaf) = [type |-> "route", direction |-> direction, route |-> mark]
    BY <1>1, <1>8
  <2> HIDE DEF mark
  <2>4. RouteChosen(c, mark, req.edge, regs, miss)
    BY <1>5, <1>8, <2>1, <2>2 DEF RouteChosen, RouteOK, Leaving
  <2> QED BY <2>3, <2>4
<1> QED BY <1>6, <1>7, <1>8

-----------------------------------------------------------------------------
(* Short lists of routes *)

LEMMA ListIsSeq ==
    ASSUME NEW s, NEW n \in Nat, Lists(s, n), NEW S, \A i \in 1 .. n : s[i] \in S
    PROVE  s \in Seq(S)
<1>1. s = [i \in 1 .. n |-> s[i]]
  BY DEF Lists
<1>2. [i \in 1 .. n |-> s[i]] \in Seq(S)
  OBVIOUS
<1> QED BY <1>1, <1>2

LEMMA SeqIsList ==
    ASSUME NEW S, NEW s \in Seq(S)
    PROVE  Lists(s, Len(s))
BY DEF Lists

LEMMA WithList ==
    ASSUME NEW s, NEW n \in Nat, Lists(s, n), NEW x
    PROVE  /\ Lists(With(x, s), n + 1) /\ With(x, s)[1] = x
           /\ \A i \in 1 .. n : With(x, s)[i + 1] = s[i]
<1> DEFINE S == {s[i] : i \in 1 .. n} \cup {x}
<1>1. s \in Seq(S) /\ Len(s) = n
  <2>1. \A i \in 1 .. n : s[i] \in S
    OBVIOUS
  <2> HIDE DEF S
  <2> QED BY <2>1, ListIsSeq DEF Lists
<1>2. x \in S
  OBVIOUS
<1> HIDE DEF S
<1>3. /\ With(x, s) = <<x>> \o s /\ <<x>> \in Seq(S) /\ Len(<<x>>) = 1 /\ <<x>>[1] = x
  BY <1>2 DEF With
<1>4. With(x, s) \in Seq(S) /\ Len(With(x, s)) = n + 1
  BY <1>1, <1>3
<1>5. Lists(With(x, s), n + 1)
  BY <1>4, SeqIsList
<1> QED BY <1>1, <1>3, <1>5

LEMMA ReverseList ==
    ASSUME NEW s, NEW n \in Nat, Lists(s, n)
    PROVE  Lists(Reverse(s), n) /\ \A i \in 1 .. n : Reverse(s)[i] = s[n - i + 1]
<1>1. Reverse(s) = [i \in 1 .. n |-> s[n - i + 1]]
  BY DEF Reverse, Lists
<1>2. Len(Reverse(s)) = n
  BY <1>1
<1> QED BY <1>1, <1>2 DEF Lists

LEMMA WithShort ==
    ASSUME NEW s, NEW x, NEW t, t = With(x, s)
    PROVE  /\ Lists(s, 0) => Lists(t, 1) /\ t[1] = x
           /\ Lists(s, 1) => Lists(t, 2) /\ t[1] = x /\ t[2] = s[1]
           /\ Lists(s, 2) => Lists(t, 3) /\ t[1] = x /\ t[2] = s[1] /\ t[3] = s[2]
<1>1. ASSUME NEW n \in Nat, Lists(s, n), NEW k, k = n + 1
      PROVE  Lists(t, k) /\ t[1] = x /\ \A i \in 1 .. n : t[i + 1] = s[i]
  BY <1>1, WithList
<1>2. ASSUME Lists(s, 0) PROVE Lists(t, 1) /\ t[1] = x
  <2> DEFINE n == 0
             k == 1
  <2>1. n \in Nat /\ k = n + 1 /\ Lists(s, n)
    BY <1>2
  <2> HIDE DEF n, k
  <2>2. Lists(t, k) /\ t[1] = x
    BY <1>1, <2>1
  <2> QED BY <2>2 DEF k
<1>3. ASSUME Lists(s, 1) PROVE Lists(t, 2) /\ t[1] = x /\ t[2] = s[1]
  <2> DEFINE n == 1
             k == 2
  <2>1. n \in Nat /\ k = n + 1 /\ Lists(s, n) /\ n \in 1 .. n
    BY <1>3
  <2> HIDE DEF n, k
  <2>2. Lists(t, k) /\ t[1] = x /\ t[k] = s[n]
    BY <1>1, <2>1
  <2> QED BY <2>2 DEF n, k
<1>4. ASSUME Lists(s, 2) PROVE Lists(t, 3) /\ t[1] = x /\ t[2] = s[1] /\ t[3] = s[2]
  <2> DEFINE n == 2
             k == 3
             one == 1
  <2>1. n \in Nat /\ k = n + 1 /\ Lists(s, n) /\ n \in 1 .. n /\ one \in 1 .. n /\ n = one + 1
    BY <1>4
  <2> HIDE DEF n, k, one
  <2>2. Lists(t, k) /\ t[1] = x /\ t[k] = s[n] /\ t[n] = s[one]
    BY <1>1, <2>1
  <2> QED BY <2>2 DEF n, k, one
<1> QED BY <1>2, <1>3, <1>4

LEMMA ReverseShort ==
    ASSUME NEW s, NEW t, t = Reverse(s)
    PROVE  /\ Lists(s, 0) => Lists(t, 0)
           /\ Lists(s, 1) => Lists(t, 1) /\ t[1] = s[1]
           /\ Lists(s, 2) => Lists(t, 2) /\ t[1] = s[2] /\ t[2] = s[1]
           /\ Lists(s, 3) => Lists(t, 3) /\ t[1] = s[3] /\ t[2] = s[2] /\ t[3] = s[1]
<1>1. ASSUME NEW n \in Nat, Lists(s, n)
      PROVE  Lists(t, n) /\ \A i, j \in 1 .. n : i + j = n + 1 => t[i] = s[j]
  <2>1. Lists(t, n) /\ \A i \in 1 .. n : t[i] = s[n - i + 1]
    BY <1>1, ReverseList
  <2> SUFFICES ASSUME NEW i \in 1 .. n, NEW j \in 1 .. n, i + j = n + 1 PROVE t[i] = s[j]
    BY <2>1
  <2>2. n - i + 1 = j
    OBVIOUS
  <2>3. t[i] = s[n - i + 1]
    BY ONLY <2>1, i \in 1 .. n
  <2> QED BY <2>2, <2>3
<1>2. ASSUME Lists(s, 0) PROVE Lists(t, 0)
  <2> DEFINE n == 0
  <2>1. n \in Nat /\ Lists(s, n)
    BY <1>2
  <2> HIDE DEF n
  <2>2. Lists(t, n)
    BY <1>1, <2>1
  <2> QED BY <2>2 DEF n
<1>3. ASSUME Lists(s, 1) PROVE Lists(t, 1) /\ t[1] = s[1]
  <2> DEFINE n == 1
  <2>1. n \in Nat /\ n \in 1 .. n /\ n + n = n + 1 /\ Lists(s, n)
    BY <1>3
  <2> HIDE DEF n
  <2>2. Lists(t, n) /\ t[n] = s[n]
    BY <1>1, <2>1
  <2> QED BY <2>2 DEF n
<1>4. ASSUME Lists(s, 2) PROVE Lists(t, 2) /\ t[1] = s[2] /\ t[2] = s[1]
  <2> DEFINE one == 1
             n == 2
  <2>1. n \in Nat /\ {one, n} \subseteq 1 .. n /\ one + n = n + 1 /\ n + one = n + 1 /\ Lists(s, n)
    BY <1>4
  <2> HIDE DEF n, one
  <2>2. Lists(t, n) /\ t[one] = s[n] /\ t[n] = s[one]
    BY <1>1, <2>1
  <2> QED BY <2>2 DEF n, one
<1>5. ASSUME Lists(s, 3) PROVE Lists(t, 3) /\ t[1] = s[3] /\ t[2] = s[2] /\ t[3] = s[1]
  <2> DEFINE one == 1
             two == 2
             n == 3
  <2>1. /\ n \in Nat /\ {one, two, n} \subseteq 1 .. n /\ Lists(s, n)
        /\ one + n = n + 1 /\ n + one = n + 1 /\ two + two = n + 1
    BY <1>5
  <2> HIDE DEF n, one, two
  <2>2. Lists(t, n) /\ t[one] = s[n] /\ t[n] = s[one] /\ t[two] = s[two]
    BY <1>1, <2>1
  <2> QED BY <2>2 DEF n, one, two
<1> QED BY <1>2, <1>3, <1>4, <1>5

LEMMA EmptyList ==
    ASSUME NEW s
    PROVE  Lists(s, 0) <=> s = <<>>
<1>1. ASSUME Lists(s, 0) PROVE s = <<>>
  <2>1. s = [i \in 1 .. 0 |-> s[i]]
    BY <1>1 DEF Lists
  <2>2. s \in Seq({}) /\ Len(s) = 0
    BY <1>1, <2>1 DEF Lists
  <2> QED BY <2>2
<1>2. Lists(<<>>, 0)
  BY DEF Lists
<1> QED BY <1>1, <1>2

LEMMA OneMore ==
    ASSUME NEW s, NEW x, NEW t, t = Append(s, x)
    PROVE  /\ Lists(s, 0) => Lists(t, 1) /\ t[1] = x
           /\ Lists(s, 1) => Lists(t, 2) /\ t[1] = s[1] /\ t[2] = x
<1>1. ASSUME NEW n \in Nat, Lists(s, n), NEW k, k = n + 1
      PROVE  Lists(t, k) /\ t[k] = x /\ \A i \in 1 .. n : t[i] = s[i]
  <2> DEFINE S == {s[i] : i \in 1 .. n} \cup {x}
  <2>1. s \in Seq(S) /\ Len(s) = n
    <3>1. \A i \in 1 .. n : s[i] \in S
      OBVIOUS
    <3> HIDE DEF S
    <3> QED BY <1>1, <3>1, ListIsSeq DEF Lists
  <2>2. x \in S
    OBVIOUS
  <2> HIDE DEF S
  <2>3. t \in Seq(S) /\ Len(t) = k
    BY <1>1, <2>1, <2>2
  <2>4. Lists(t, k)
    BY <2>3, SeqIsList
  <2> QED BY <1>1, <2>1, <2>2, <2>4
<1>2. ASSUME Lists(s, 0) PROVE Lists(t, 1) /\ t[1] = x
  <2> DEFINE n == 0
             k == 1
  <2>1. n \in Nat /\ k = n + 1 /\ Lists(s, n)
    BY <1>2
  <2> HIDE DEF n, k
  <2>2. Lists(t, k) /\ t[k] = x
    BY <1>1, <2>1
  <2> QED BY <2>2 DEF k
<1>3. ASSUME Lists(s, 1) PROVE Lists(t, 2) /\ t[1] = s[1] /\ t[2] = x
  <2> DEFINE n == 1
             k == 2
  <2>1. n \in Nat /\ k = n + 1 /\ Lists(s, n) /\ n \in 1 .. n
    BY <1>3
  <2> HIDE DEF n, k
  <2>2. Lists(t, k) /\ t[k] = x /\ t[n] = s[n]
    BY <1>1, <2>1
  <2> QED BY <2>2 DEF n, k
<1> QED BY <1>2, <1>3

\* What is left of a list that starts with one of the hosts.
LEMMA WithoutFirst ==
    ASSUME NEW hosts, NEW s, NEW n \in 0 .. 3, Lists(s, n), n > 0 => s[1].host \in hosts
    PROVE  LET w == Without(hosts, s)
           IN /\ n \in {0, 1} => Lists(w, 0)
              /\ n = 2 /\ s[2].host \in hosts => Lists(w, 0)
              /\ n = 2 /\ s[2].host \notin hosts => Lists(w, 1) /\ w[1] = s[2]
              /\ n = 3 /\ s[2].host \in hosts /\ s[3].host \notin hosts => Lists(w, 1) /\ w[1] = s[3]
              /\ n = 3 /\ s[2].host \notin hosts /\ s[3].host \notin hosts
                   => Lists(w, 2) /\ w[1] = s[2] /\ w[2] = s[3]
<1> DEFINE w == Without(hosts, s)
           x2 == s[2]
           x3 == s[3]
           none == <<>>
           second == Append(none, x2)
           third == Append(none, x3)
           both == Append(second, x3)
<1>1. Lists(none, 0)
  BY EmptyList
<1>2. second = Append(none, x2) /\ third = Append(none, x3) /\ both = Append(second, x3)
  OBVIOUS
<1> HIDE DEF x2, x3, none, second, third, both
<1>3. Lists(second, 1) /\ second[1] = x2 /\ Lists(third, 1) /\ third[1] = x3
  BY <1>1, <1>2, OneMore, ZenonT(60)
<1>5. Lists(both, 2) /\ both[1] = x2 /\ both[2] = x3
  <2>0. both = Append(second, x3) /\ Lists(second, 1)
    BY <1>2, <1>3
  <2>1. both[2] = x3 /\ Lists(both, 2)
    BY ONLY <2>0, OneMore, ZenonT(60)
  <2>2. both[1] = second[1]
    BY ONLY <2>0, OneMore
  <2> QED BY <1>3, <2>1, <2>2
<1>4. /\ n \in {0, 1} => w = none
      /\ n = 2 => w = IF s[2].host \in hosts THEN none ELSE second
      /\ n = 3 /\ s[3].host \notin hosts => w = IF s[2].host \in hosts THEN third ELSE both
  <2>1. Len(s) = n
    BY DEF Lists
  <2> DEFINE one == Grow(hosts, <<>>, s[1])
             two == Grow(hosts, one, s[2])
  <2>2. /\ n = 0 => w = none
        /\ n = 1 => w = one
        /\ n = 2 => w = two
        /\ n = 3 => w = Grow(hosts, two, s[3])
    <3> HIDE DEF w
    <3> QED BY <2>1, WithoutValue DEF w, none
  <2>3. n > 0 => one = none /\ two = IF s[2].host \in hosts THEN none ELSE second
    BY DEF Grow, none, second, x2
  <2>4. Grow(hosts, two, s[3]) = IF s[3].host \in hosts THEN two ELSE Append(two, x3)
    BY DEF Grow, x3
  <2> HIDE DEF w, one, two
  <2>5. n = 3 /\ s[3].host \notin hosts => w = IF s[2].host \in hosts THEN third ELSE both
    BY <1>2, <2>2, <2>3, <2>4
  <2> QED BY <2>2, <2>3, <2>5
<1> HIDE DEF w
<1> QED BY <1>1, <1>3, <1>4, <1>5 DEF w, x2, x3

-----------------------------------------------------------------------------
(* An INVITE at an edgeport *)

LEMMA WireFields ==
    ASSUME NEW req, DOMAIN req = MessageFields, NEW e
    PROVE  LET t == OnTheWire(e, req)
           IN /\ But(t, req, {"edge", "route", "dest", "path"})
              /\ t.route = Reverse(req.route) /\ t.dest = NextHop(t.route, req.uri)
              /\ t.path = Append(req.path, e)
BY DEF OnTheWire, But, MessageFields

\* The addresses a message came with, before and after the edgeport took it.
LEMMA Taken ==
    ASSUME NEW m, MessageOK(m), NEW e
    PROVE  LET r0 == [m EXCEPT !.edge = e] IN But(r0, m, {"edge"}) /\ r0.edge = e /\ DOMAIN r0 = MessageFields
BY DEF MessageOK, But, MessageFields

\* A message that leaves an edgeport as a request.
LEMMA Sent ==
    ASSUME NEW m, MessageOK(m), m.type = "request", m.method # "CANCEL", NEW e \in EdgePorts,
           NEW address, ~Throws(e, address),
           NEW req, DOMAIN req = MessageFields, req.type = "request", req.code = m.code,
           req.method = m.method, req.path = m.path, req.via = With(getEdgeInterface(e, address), m.via),
           req.maxForwards = m.maxForwards - 1, ~(req.maxForwards < 0),
           NEW t, t = OnTheWire(e, req)
    PROVE  /\ MessageOK(t) /\ t.path # <<>> /\ t.path[Len(t.path)] = e
           /\ Len(m.path) \in Nat /\ Len(t.path) = Len(m.path) + 1
           /\ t.type = "request" /\ t.method = m.method
<1> DEFINE i == getEdgeInterface(e, address)
<1>1. /\ DOMAIN t = MessageFields /\ t.type = "request" /\ t.code = m.code /\ t.method = m.method
      /\ t.via = With(i, m.via) /\ t.path = Append(m.path, e) /\ t.maxForwards = m.maxForwards - 1
  BY WireFields DEF But, MessageFields
<1>2. i \in Interface /\ i.host \in OwnHosts(e)
  BY EdgeInterface
<1>3. t.maxForwards >= 0
  <2>1. m.maxForwards \in Int
    BY HopsAssumption DEF MessageOK, HopsAssumption
  <2> QED BY <1>1, <2>1
<1>4. Hop(m, t, e, i)
  BY <1>1, <1>2, <1>3 DEF Hop
<1> HIDE DEF i
<1> QED BY <1>1, <1>4, Further, ZenonT(60)

\* What an edgeport can have on its hands.
Taking(c, m, e) ==
    /\ MessageOK(m) /\ m.type = "request" /\ m.method = "INVITE"
    /\ e \in EdgePorts /\ m.dest \in OwnHosts(e)
    /\ m.from = c.from /\ m.to = c.to /\ m.token = c.token /\ m.auth \in {None, c.secret}
    /\ Untouched(c, m)

LEMMA OwnRoutes ==
    ASSUME NEW c, NEW m, NEW e, Taking(c, m, e), Placed(c, m) \/ Back(c, m)
    PROVE  Lists(Without(OwnHosts(e), m.route), 0)
<1>1. CASE Lists(m.route, 0)
  <2> DEFINE n == 0
  <2>1. n \in 0 .. 3 /\ Lists(m.route, n) /\ ~(n > 0) /\ n \in {0, 1}
    BY <1>1
  <2> HIDE DEF n
  <2> QED BY <2>1, WithoutFirst
<1>2. CASE Lists(m.route, 1) /\ m.route[1].host = m.dest
  <2> DEFINE n == 1
             hosts == OwnHosts(e)
             s == m.route
  <2>1. n \in 0 .. 3 /\ Lists(s, n) /\ s[1].host \in hosts /\ n \in {0, 1}
    BY <1>2 DEF Taking
  <2> HIDE DEF n, hosts, s
  <2>2. Lists(Without(hosts, s), 0)
    BY <2>1, WithoutFirst
  <2> QED BY <2>2 DEF hosts, s
<1> QED BY <1>1, <1>2 DEF Placed, Back

\* Sent out by the edgeport that has the route.
LEMMA SentOut ==
    ASSUME NEW c, NEW m, NEW e, Taking(c, m, e), Placed(c, m) \/ Back(c, m),
           NEW regs, NEW miss, NEW route, RouteChosen(c, route, e, regs, miss), route.edge = e,
           ~Throws(e, [host |-> route.host, tp |-> route.tp]),
           NEW req, req = tailor(route, [m EXCEPT !.edge = e]), ~(req.maxForwards < 0)
    PROVE  TxOK(OnTheWire(e, req)) /\ InviteOK(c, OnTheWire(e, req), regs, miss)
<1> DEFINE r0 == [m EXCEPT !.edge = e]
           t == OnTheWire(e, req)
           address == [host |-> route.host, tp |-> route.tp]
<1>1. /\ But(r0, m, {"edge"}) /\ r0.edge = e /\ DOMAIN r0 = MessageFields
  BY Taken DEF Taking
<1>2. DOMAIN r0.uri = {"user", "host", "tp"}
  BY <1>1 DEF But, MessageFields, Taking, Untouched, Dialled
<1>3. /\ But(req, r0, {"maxForwards", "auth", "route", "ext", "contact", "uri", "via", "recordRoute"})
      /\ req.maxForwards = r0.maxForwards - 1 /\ req.auth = None
      /\ req.route = Without(OwnHosts(r0.edge), r0.route)
      /\ req.ext = ((r0.ext \ {"x-edgeport-ref"}) \ route.removes) \cup route.headers
      /\ req.via = With(getEdgeInterface(r0.edge, address), r0.via)
      /\ req.uri = [r0.uri EXCEPT !.host = route.host, !.tp = route.tp]
  <2>1. req = tailor(route, r0)
    OBVIOUS
  <2> HIDE DEF r0
  <2> QED BY ONLY <1>1, <1>2, <2>1, Tailored, ZenonT(60)
<1> HIDE DEF r0
<1>4. /\ DOMAIN req = MessageFields /\ req.type = "request" /\ req.code = m.code /\ req.method = "INVITE"
      /\ req.path = m.path /\ req.from = c.from /\ req.to = c.to /\ req.token = c.token /\ req.auth = None
      /\ req.via = With(getEdgeInterface(e, address), m.via) /\ req.maxForwards = m.maxForwards - 1
      /\ req.route = Without(OwnHosts(e), m.route)
      /\ "x-edgeport-ref" \notin req.ext /\ "x-call-direction" \in req.ext
      /\ req.uri.host = route.host
  <2>1. /\ r0.type = "request" /\ r0.code = m.code /\ r0.method = "INVITE" /\ r0.path = m.path
        /\ r0.from = c.from /\ r0.to = c.to /\ r0.token = c.token /\ r0.via = m.via
        /\ r0.maxForwards = m.maxForwards /\ r0.route = m.route
    BY <1>1 DEF But, MessageFields, Taking
  <2>2. "x-edgeport-ref" \notin route.headers /\ "x-call-direction" \in route.headers
    BY DEF RouteChosen
  <2>3. DOMAIN req = MessageFields /\ \A f \in {"type", "code", "method", "path", "from", "to", "token"} :
                                          req[f] = r0[f]
    BY <1>1, <1>3 DEF But, MessageFields
  <2> QED BY <1>1, <1>2, <1>3, <2>1, <2>2, <2>3
<1>5. /\ MessageOK(t) /\ t.path # <<>> /\ Len(t.path) = Len(m.path) + 1 /\ t.path[Len(t.path)] = e
      /\ t.type = "request" /\ t.method = "INVITE" /\ Len(m.path) \in Nat
  BY <1>4, Sent DEF Taking
<1>6. /\ t.from = c.from /\ t.to = c.to /\ t.token = c.token /\ t.auth = None /\ t.ext = req.ext
      /\ t.route = Reverse(req.route) /\ t.dest = NextHop(t.route, req.uri)
  <2>1. /\ But(t, req, {"edge", "route", "dest", "path"})
        /\ t.route = Reverse(req.route) /\ t.dest = NextHop(t.route, req.uri)
    BY <1>4, WireFields
  <2> HIDE DEF t
  <2> QED BY <1>4, <2>1 DEF But, MessageFields
<1>7. t.dest = route.host
  <2>1. Lists(req.route, 0)
    BY <1>4, OwnRoutes
  <2>2. t.route = <<>>
    BY <1>6, <2>1, ReverseShort, EmptyList
  <2> QED BY <1>4, <1>6, <2>2 DEF NextHop
<1> HIDE DEF t
<1>8. Placed(c, m) => Len(t.path) = 1
  <2> HAVE Placed(c, m)
  <2>1. Len(m.path) = 0
    BY DEF Placed
  <2> QED BY <1>5, <2>1
<1>9. Out(c, t, regs, miss)
  BY <1>4, <1>5, <1>6, <1>7, <1>8 DEF Out, RouteChosen, Leaving, Back
<1> QED BY <1>5, <1>6, <1>9 DEF TxOK, InviteOK, t

\* The routes of an INVITE that one edgeport hands to another.
LEMMA HandedRoutes ==
    ASSUME NEW c, NEW regs, NEW f, NEW peer, peer.host \in OwnHosts(f), NEW addr, <<addr.host, f>> \in regs,
           NEW s, Lists(s, 0) \/ (Lists(s, 1) /\ s[1].host \in EdgeHosts /\ c.route),
           NEW list, list = IF c.to.host = addr.host THEN With(peer, s) ELSE With(addr, With(peer, s)),
           NEW t, t = Reverse(list)
    PROVE  Leads(c, t, f, regs)
<1> DEFINE one == With(peer, s)
           two == With(addr, one)
<1>1. one = With(peer, s) /\ two = With(addr, one) /\ list = IF c.to.host = addr.host THEN one ELSE two
  OBVIOUS
<1> HIDE DEF one, two
<1>2. CASE Lists(s, 0)
  <2>1. Lists(one, 1) /\ one[1] = peer
    BY ONLY <1>1, <1>2, WithShort
  <2>2. CASE c.to.host = addr.host
    <3>1. list = one
      BY <1>1, <2>2
    <3>2. Lists(t, 1) /\ t[1] = peer
      BY ONLY t = Reverse(list), <2>1, <3>1, ReverseShort
    <3> QED BY <2>2, <3>2 DEF Leads
  <2>3. CASE c.to.host # addr.host
    <3>1. list = two
      BY <1>1, <2>3
    <3>2. Lists(two, 2) /\ two[1] = addr /\ two[2] = peer
      BY ONLY <1>1, <2>1, WithShort
    <3>3. Lists(t, 2) /\ t[1] = peer /\ t[2] = addr
      BY ONLY t = Reverse(list), <3>1, <3>2, ReverseShort
    <3> QED BY <3>3 DEF Leads
  <2> QED BY <2>2, <2>3
<1>3. CASE Lists(s, 1) /\ s[1].host \in EdgeHosts /\ c.route
  <2>1. Lists(one, 2) /\ one[1] = peer /\ one[2] = s[1]
    BY ONLY <1>1, <1>3, WithShort
  <2>2. CASE c.to.host = addr.host
    <3>1. list = one
      BY <1>1, <2>2
    <3>2. Lists(t, 2) /\ t[1] = s[1] /\ t[2] = peer
      BY ONLY t = Reverse(list), <2>1, <3>1, ReverseShort
    <3> QED BY <1>3, <2>2, <3>2 DEF Leads
  <2>3. CASE c.to.host # addr.host
    <3>1. list = two
      BY <1>1, <2>3
    <3>2. Lists(two, 3) /\ two[1] = addr /\ two[2] = peer /\ two[3] = s[1]
      BY ONLY <1>1, <2>1, WithShort
    <3>3. Lists(t, 3) /\ t[1] = s[1] /\ t[2] = peer /\ t[3] = addr
      BY ONLY t = Reverse(list), <3>1, <3>2, ReverseShort
    <3> QED BY <1>3, <3>3 DEF Leads
  <2> QED BY <2>2, <2>3
<1> QED BY <1>2, <1>3

\* Handed to the edgeport that has the route.
LEMMA HandedOver ==
    ASSUME NEW c, NEW m, NEW e, Taking(c, m, e), Placed(c, m) \/ Back(c, m),
           NEW regs, NEW miss, NEW route, RouteChosen(c, route, e, regs, miss), route.edge # e,
           ~Throws(e, [host |-> route.host, tp |-> route.tp]),
           ~Throws(route.edge, [host |-> route.host, tp |-> route.tp]),
           NEW req, req = toPeerEdgePort(route, [m EXCEPT !.edge = e]), ~(req.maxForwards < 0)
    PROVE  TxOK(OnTheWire(e, req)) /\ InviteOK(c, OnTheWire(e, req), regs, miss)
<1> DEFINE r0 == [m EXCEPT !.edge = e]
           t == OnTheWire(e, req)
           address == [host |-> route.host, tp |-> route.tp]
           peer == getEdgeInterface(route.edge, address)
           list == IF r0.uri.host = address.host THEN With(peer, r0.route)
                   ELSE With(address, With(peer, r0.route))
<1>1. /\ But(r0, m, {"edge"}) /\ r0.edge = e /\ DOMAIN r0 = MessageFields
  BY Taken DEF Taking
<1>2. address.host = route.host /\ route.edge \in EdgePorts /\ <<address.host, route.edge>> \in regs
  BY DEF RouteChosen, Leaving
<1>3. /\ But(req, r0, {"maxForwards", "route", "ext", "via", "recordRoute"})
      /\ req.maxForwards = r0.maxForwards - 1 /\ req.ext = r0.ext \cup {"x-edgeport-ref"}
      /\ req.via = With(getEdgeInterface(r0.edge, address), r0.via)
      /\ req.route = list
  <2>1. req = toPeerEdgePort(route, r0)
    OBVIOUS
  <2> HIDE DEF r0
  <2> QED BY ONLY <1>1, <2>1, Handing
<1> HIDE DEF r0
<1>4. /\ DOMAIN req = MessageFields /\ req.type = "request" /\ req.code = m.code /\ req.method = "INVITE"
      /\ req.path = m.path /\ req.from = c.from /\ req.to = c.to /\ req.token = c.token
      /\ req.auth = m.auth /\ req.uri = m.uri
      /\ req.via = With(getEdgeInterface(e, address), m.via) /\ req.maxForwards = m.maxForwards - 1
      /\ "x-edgeport-ref" \in req.ext /\ "x-call-direction" \notin req.ext
      /\ r0.route = m.route /\ r0.uri.host = c.to.host
  <2>1. /\ r0.type = "request" /\ r0.code = m.code /\ r0.method = "INVITE" /\ r0.path = m.path
        /\ r0.from = c.from /\ r0.to = c.to /\ r0.token = c.token /\ r0.via = m.via /\ r0.auth = m.auth
        /\ r0.maxForwards = m.maxForwards /\ r0.route = m.route /\ r0.uri = m.uri /\ r0.ext = m.ext
    BY <1>1 DEF But, MessageFields, Taking
  <2>2. "x-call-direction" \notin m.ext /\ m.uri.host = c.to.host
    BY DEF Taking, Untouched, Dialled
  <2>3. DOMAIN req = MessageFields
        /\ \A f \in {"type", "code", "method", "path", "from", "to", "token", "auth", "uri"} : req[f] = r0[f]
    BY <1>1, <1>3 DEF But, MessageFields
  <2> HIDE DEF list, address
  <2> QED BY <1>1, <1>3, <2>1, <2>2, <2>3
<1>5. /\ MessageOK(t) /\ t.path # <<>> /\ t.type = "request" /\ t.method = "INVITE"
  BY <1>4, Sent DEF Taking
<1>6. /\ t.from = c.from /\ t.to = c.to /\ t.token = c.token /\ t.auth = m.auth /\ t.ext = req.ext
      /\ t.uri = m.uri /\ t.route = Reverse(req.route) /\ t.dest = NextHop(t.route, req.uri)
  <2>1. /\ But(t, req, {"edge", "route", "dest", "path"})
        /\ t.route = Reverse(req.route) /\ t.dest = NextHop(t.route, req.uri)
    BY <1>4, WireFields
  <2> HIDE DEF t
  <2> QED BY <1>4, <2>1 DEF But, MessageFields
<1>7. Lists(m.route, 0) \/ (Lists(m.route, 1) /\ m.route[1].host \in EdgeHosts /\ c.route)
  <2>1. m.dest \in EdgeHosts
    BY DEF Placed, Back
  <2> QED BY <2>1 DEF Placed, Back
<1>8. Leads(c, t.route, route.edge, regs)
  <2> DEFINE f == route.edge
             s == m.route
             w == t.route
  <2>1. peer.host \in OwnHosts(f)
    BY <1>2, EdgeInterface
  <2> HIDE DEF t, peer, address
  <2>2. list = IF c.to.host = address.host THEN With(peer, s) ELSE With(address, With(peer, s))
    BY <1>4
  <2>3. w = Reverse(list) /\ <<address.host, f>> \in regs
    BY <1>2, <1>3, <1>6
  <2>4. Lists(s, 0) \/ (Lists(s, 1) /\ s[1].host \in EdgeHosts /\ c.route)
    BY <1>7
  <2> HIDE DEF list, f, s, w
  <2>5. Leads(c, w, f, regs)
    BY ONLY <2>1, <2>2, <2>3, <2>4, HandedRoutes
  <2> QED BY <2>5 DEF w, f
<1> HIDE DEF t
<1>9. t.dest = t.route[1].host
  <2>1. ~Lists(t.route, 0)
    BY <1>8 DEF Leads, Lists
  <2>2. t.route # <<>>
    BY <2>1, EmptyList
  <2> QED BY <1>6, <2>2 DEF NextHop
<1>10. Handed(c, t, regs) /\ Untouched(c, t)
  <2>1. Untouched(c, t)
    BY <1>4, <1>6 DEF Taking, Untouched
  <2> QED BY <1>2, <1>4, <1>5, <1>6, <1>8, <1>9, <2>1 DEF Handed
<1> QED BY <1>5, <1>6, <1>10 DEF TxOK, InviteOK, t, Taking

-----------------------------------------------------------------------------
(* An INVITE that another edgeport handed over *)

LEMMA OwnEdge ==
    ASSUME NEW e \in EdgePorts, NEW f \in EdgePorts, NEW h \in OwnHosts(e), h \in OwnHosts(f)
    PROVE  e = f
<1>1. \A x, y \in EdgePorts : x # y => OwnHosts(x) \cap OwnHosts(y) = {}
  BY HostsAssumption DEF HostsAssumption
<1> QED BY <1>1

LEMMA PhonesApart ==
    ASSUME NEW e \in EdgePorts, NEW h \in DOMAIN Accounts
    PROVE  h \notin OwnHosts(e) /\ h \notin EdgeHosts /\ h \in DOMAIN Phones /\ h \notin TrunkHosts
<1>1. h \in DOMAIN Phones /\ h \notin EdgeHosts /\ h \notin TrunkHosts
  BY HostsAssumption, PhonesAssumption DEF HostsAssumption, PhonesAssumption
<1>2. OwnHosts(e) \subseteq EdgeHosts
  BY DEF EdgeHosts
<1> QED BY <1>1, <1>2

Registered(regs) == \A h, f : <<h, f>> \in regs => h \in DOMAIN Accounts /\ f \in EdgePorts

\* Where the routes s lead when edgeport e has removed its own and left t.
Landed(c, s, t, dest, e, f, regs) ==
    /\ \/ dest \in DOMAIN Accounts /\ (<<dest, e>> \in regs \/ c.route)
       \/ /\ c.route /\ c.to.host \in DOMAIN Accounts
          /\ Lists(t, 1) /\ t[1].host = dest /\ dest \in EdgeHosts
          /\ dest \in OwnHosts(f) /\ <<c.to.host, f>> \in regs
    /\ \/ s[Len(s)].host \in EdgeHosts /\ (dest \in EdgeHosts \/ dest = c.to.host)
       \/ dest = s[Len(s)].host

LEMMA RoutesLeft ==
    ASSUME NEW c, NEW regs, Registered(regs), NEW e \in EdgePorts, NEW f \in EdgePorts,
           NEW s, Leads(c, s, f, regs), s[1].host \in OwnHosts(e),
           NEW w, w = Without(OwnHosts(e), s), NEW t, t = Reverse(w),
           NEW dest, dest = IF t = <<>> THEN c.to.host ELSE t[1].host
    PROVE  Landed(c, s, t, dest, e, f, regs)
<1> DEFINE hosts == OwnHosts(e)
<1>1. \A k \in DOMAIN Accounts : k \notin hosts
  BY PhonesApart
<1>2. Lists(w, 0) => dest = c.to.host
  <2> HAVE Lists(w, 0)
  <2>1. Lists(t, 0)
    BY ReverseShort
  <2> QED BY <2>1, EmptyList
<1>3. Lists(w, 1) => Lists(t, 1) /\ t[1] = w[1] /\ dest = w[1].host
  <2> HAVE Lists(w, 1)
  <2>1. Lists(t, 1) /\ t[1] = w[1]
    BY ReverseShort
  <2>2. t # <<>>
    <3>1. ~Lists(t, 0)
      BY <2>1 DEF Lists
    <3> QED BY <3>1, EmptyList
  <2> QED BY <2>1, <2>2
<1>4. Lists(w, 2) => dest = w[2].host
  <2> HAVE Lists(w, 2)
  <2>1. Lists(t, 2) /\ t[1] = w[2]
    BY ReverseShort
  <2>2. t # <<>>
    <3>1. ~Lists(t, 0)
      BY <2>1 DEF Lists
    <3> QED BY <3>1, EmptyList
  <2> QED BY <2>1, <2>2
<1>5. w = Without(hosts, s) /\ s[1].host \in hosts
  OBVIOUS
<1>6. \A h : h \in hosts /\ h \in OwnHosts(f) => e = f
  BY OwnEdge
<1>7. \A h \in OwnHosts(f) : h \in EdgeHosts
  BY DEF EdgeHosts
<1> HIDE DEF hosts
<1>8. CASE Lists(s, 1) /\ s[1].host \in OwnHosts(f) /\ <<c.to.host, f>> \in regs
  <2>1. Lists(w, 0)
    <3> DEFINE n == 1
    <3>1. n \in 0 .. 3 /\ Lists(s, n) /\ n \in {0, 1} /\ (n > 0 => s[1].host \in hosts)
      BY <1>5, <1>8
    <3> HIDE DEF n
    <3> QED BY ONLY <1>5, <3>1, WithoutFirst
  <2>2. Len(s) = 1 /\ s[1].host \in EdgeHosts
    BY <1>7, <1>8 DEF Lists
  <2> QED BY <1>2, <1>5, <1>6, <1>8, <2>1, <2>2 DEF Registered, Landed
<1>9. CASE Lists(s, 2) /\ s[1].host \in OwnHosts(f) /\ <<s[2].host, f>> \in regs
  <2>1. s[2].host \in DOMAIN Accounts
    BY <1>9 DEF Registered
  <2>2. Lists(w, 1) /\ w[1] = s[2]
    <3> DEFINE n == 2
    <3>1. n \in 0 .. 3 /\ Lists(s, n) /\ n = 2 /\ (n > 0 => s[1].host \in hosts) /\ s[2].host \notin hosts
      BY <1>1, <1>5, <1>9, <2>1
    <3> HIDE DEF n
    <3> QED BY ONLY <1>5, <3>1, WithoutFirst
  <2>3. Len(s) = 2
    BY <1>9 DEF Lists
  <2> QED BY <1>3, <1>5, <1>6, <1>9, <2>1, <2>2, <2>3 DEF Landed
<1>10. CASE /\ Lists(s, 2) /\ s[1].host \in EdgeHosts /\ s[2].host \in OwnHosts(f)
            /\ <<c.to.host, f>> \in regs /\ c.route
  <2>1. c.to.host \in DOMAIN Accounts /\ Len(s) = 2 /\ s[2].host \in EdgeHosts
    BY <1>7, <1>10 DEF Registered, Lists
  <2> DEFINE n == 2
  <2>2. n \in 0 .. 3 /\ Lists(s, n) /\ n = 2 /\ (n > 0 => s[1].host \in hosts)
    BY <1>5, <1>10
  <2> HIDE DEF n
  <2>3. CASE s[2].host \in hosts
    <3>1. Lists(w, 0)
      BY ONLY <1>5, <2>2, <2>3, WithoutFirst
    <3> QED BY <1>2, <1>10, <2>1, <3>1 DEF Landed
  <2>4. CASE s[2].host \notin hosts
    <3>1. Lists(w, 1) /\ w[1] = s[2]
      BY ONLY <1>5, <2>2, <2>4, WithoutFirst
    <3> QED BY <1>3, <1>7, <1>10, <2>1, <3>1 DEF Landed
  <2> QED BY <2>3, <2>4
<1>11. CASE /\ Lists(s, 3) /\ s[1].host \in EdgeHosts /\ s[2].host \in OwnHosts(f)
            /\ <<s[3].host, f>> \in regs /\ c.route
  <2>1. s[3].host \in DOMAIN Accounts /\ Len(s) = 3
    BY <1>11 DEF Registered, Lists
  <2> DEFINE n == 3
  <2>2. n \in 0 .. 3 /\ Lists(s, n) /\ n = 3 /\ (n > 0 => s[1].host \in hosts) /\ s[3].host \notin hosts
    BY <1>1, <1>5, <1>11, <2>1
  <2> HIDE DEF n
  <2>3. CASE s[2].host \in hosts
    <3>1. Lists(w, 1) /\ w[1] = s[3]
      BY ONLY <1>5, <2>2, <2>3, WithoutFirst
    <3> QED BY <1>3, <1>11, <2>1, <3>1 DEF Landed
  <2>4. CASE s[2].host \notin hosts
    <3>1. Lists(w, 2) /\ w[2] = s[3]
      BY ONLY <1>5, <2>2, <2>4, WithoutFirst
    <3> QED BY <1>4, <1>11, <2>1, <3>1 DEF Landed
  <2> QED BY <2>3, <2>4
<1> QED BY <1>8, <1>9, <1>10, <1>11 DEF Leads

LEMMA FromPeer ==
    ASSUME NEW c, NEW m, NEW e, Taking(c, m, e), NEW regs, Registered(regs), Handed(c, m, regs), NEW miss,
           NEW route, route = createRouteFromLastMessage([m EXCEPT !.edge = e]),
           ~Throws(e, [host |-> route.host, tp |-> route.tp]),
           NEW req, req = tailor(route, [m EXCEPT !.edge = e]), ~(req.maxForwards < 0)
    PROVE  TxOK(OnTheWire(e, req)) /\ InviteOK(c, OnTheWire(e, req), regs, miss)
<1> DEFINE r0 == [m EXCEPT !.edge = e]
           t == OnTheWire(e, req)
           address == [host |-> route.host, tp |-> route.tp]
<1>1. /\ But(r0, m, {"edge"}) /\ r0.edge = e /\ DOMAIN r0 = MessageFields
  BY Taken DEF Taking
<1>0. m.uri = Dialled(c) /\ r0.uri = m.uri
  BY <1>1 DEF But, MessageFields, Taking, Untouched
<1>2. DOMAIN r0.uri = {"user", "host", "tp"}
  BY <1>0 DEF Dialled
<1>a. route.host = r0.uri.host /\ route.tp = r0.uri.tp /\ route.headers = {} /\ route.removes = {}
  BY DEF createRouteFromLastMessage
<1>3. /\ But(req, r0, {"maxForwards", "auth", "route", "ext", "contact", "uri", "via", "recordRoute"})
      /\ req.maxForwards = r0.maxForwards - 1 /\ req.auth = None
      /\ req.route = Without(OwnHosts(r0.edge), r0.route)
      /\ req.ext = ((r0.ext \ {"x-edgeport-ref"}) \ route.removes) \cup route.headers
      /\ req.via = With(getEdgeInterface(r0.edge, address), r0.via)
      /\ req.uri = [r0.uri EXCEPT !.host = route.host, !.tp = route.tp]
  <2>1. req = tailor(route, r0)
    OBVIOUS
  <2> HIDE DEF r0
  <2> QED BY ONLY <1>1, <1>2, <2>1, Tailored, ZenonT(60)
<1> HIDE DEF r0
<1>4. /\ DOMAIN req = MessageFields /\ req.type = "request" /\ req.code = m.code /\ req.method = "INVITE"
      /\ req.path = m.path /\ req.from = c.from /\ req.to = c.to /\ req.token = c.token /\ req.auth = None
      /\ req.via = With(getEdgeInterface(e, address), m.via) /\ req.maxForwards = m.maxForwards - 1
      /\ req.route = Without(OwnHosts(e), m.route)
      /\ "x-edgeport-ref" \notin req.ext /\ "x-call-direction" \notin req.ext
      /\ req.uri = Dialled(c)
  <2>1. /\ r0.type = "request" /\ r0.code = m.code /\ r0.method = "INVITE" /\ r0.path = m.path
        /\ r0.from = c.from /\ r0.to = c.to /\ r0.token = c.token /\ r0.via = m.via
        /\ r0.maxForwards = m.maxForwards /\ r0.route = m.route /\ r0.ext = m.ext
    BY <1>1 DEF But, MessageFields, Taking
  <2>2. "x-call-direction" \notin m.ext
    BY DEF Taking, Untouched
  <2>3. DOMAIN req = MessageFields /\ \A f \in {"type", "code", "method", "path", "from", "to", "token"} :
                                          req[f] = r0[f]
    BY <1>1, <1>3 DEF But, MessageFields
  <2>4. req.uri = Dialled(c)
    <3> DEFINE d == Dialled(c)
    <3>1. [d EXCEPT !.host = d.host, !.tp = d.tp] = d
      BY DEF Dialled
    <3>2. r0.uri = d /\ route.host = d.host /\ route.tp = d.tp
      BY <1>0, <1>a
    <3> HIDE DEF d
    <3>3. req.uri = d
      BY ONLY <1>3, <3>1, <3>2
    <3> QED BY <3>3 DEF d
  <2> QED BY <1>1, <1>3, <1>a, <2>1, <2>2, <2>3, <2>4
<1>5. /\ MessageOK(t) /\ t.path # <<>> /\ Len(t.path) = Len(m.path) + 1 /\ t.path[Len(t.path)] = e
      /\ t.type = "request" /\ t.method = "INVITE" /\ Len(m.path) \in Nat
  BY <1>4, Sent DEF Taking
<1>6. /\ t.from = c.from /\ t.to = c.to /\ t.token = c.token /\ t.auth = None /\ t.ext = req.ext
      /\ t.uri = Dialled(c) /\ t.route = Reverse(req.route) /\ t.dest = NextHop(t.route, req.uri)
  <2>1. /\ But(t, req, {"edge", "route", "dest", "path"})
        /\ t.route = Reverse(req.route) /\ t.dest = NextHop(t.route, req.uri)
    BY <1>4, WireFields
  <2> HIDE DEF t
  <2> QED BY <1>4, <2>1 DEF But, MessageFields
<1> HIDE DEF t
<1>7. Len(t.path) # 1
  <2>1. m.path # <<>> /\ m.path \in Seq(EdgePorts)
    BY DEF Handed, Taking, MessageOK
  <2>2. Len(m.path) # 0
    BY <2>1
  <2> QED BY <1>5, <2>2
<1>8. t.dest = IF t.route = <<>> THEN c.to.host ELSE t.route[1].host
  BY <1>4, <1>6 DEF NextHop, Dialled
<1>9. PICK f \in EdgePorts : Leads(c, m.route, f, regs)
  BY DEF Handed
<1>10. \/ t.dest \in DOMAIN Accounts /\ (<<t.dest, e>> \in regs \/ c.route)
       \/ /\ c.route /\ c.to.host \in DOMAIN Accounts
          /\ Lists(t.route, 1) /\ t.route[1].host = t.dest /\ t.dest \in EdgeHosts
  <2> DEFINE s == m.route
             w == req.route
             u == t.route
             dest == t.dest
  <2>1. Leads(c, s, f, regs) /\ s[1].host \in OwnHosts(e) /\ w = Without(OwnHosts(e), s)
        /\ u = Reverse(w) /\ dest = IF u = <<>> THEN c.to.host ELSE u[1].host
    BY <1>4, <1>6, <1>8, <1>9 DEF Handed, Taking
  <2>2. e \in EdgePorts /\ f \in EdgePorts
    BY <1>9 DEF Taking
  <2> HIDE DEF s, w, u, dest
  <2>3. Landed(c, s, u, dest, e, f, regs)
    BY ONLY <2>1, <2>2, RoutesLeft, Registered(regs), ZenonT(60)
  <2> QED BY <2>3 DEF u, dest, Landed
<1>11. CASE t.dest \in DOMAIN Accounts /\ (<<t.dest, e>> \in regs \/ c.route)
  <2>1. Out(c, t, regs, miss)
    BY <1>4, <1>5, <1>6, <1>7, <1>11 DEF Out
  <2> QED BY <1>5, <1>6, <2>1 DEF TxOK, InviteOK, t
<1>12. CASE /\ c.route /\ c.to.host \in DOMAIN Accounts
            /\ Lists(t.route, 1) /\ t.route[1].host = t.dest /\ t.dest \in EdgeHosts
  <2>1. Back(c, t) /\ Untouched(c, t)
    BY <1>4, <1>5, <1>6, <1>12 DEF Back, Untouched
  <2> QED BY <1>5, <1>6, <2>1 DEF TxOK, InviteOK, t
<1> QED BY <1>10, <1>11, <1>12

-----------------------------------------------------------------------------
(* What Connect makes of a request *)

Proceeds(c, t, regs, miss) == TxOK(t) /\ InviteOK(c, t, regs, miss)

LEMMA Forwarded ==
    ASSUME NEW req, NEW route
    PROVE  LET out == Forward(req, route)
               e == req.edge
               end == [host |-> route.host, tp |-> route.tp]
           IN \/ out = Answer(SERVER_INTERNAL_ERROR)
              \/ /\ ~Throws(e, end) /\ route.edge # e /\ ~Throws(route.edge, end)
                 /\ out = Send(toPeerEdgePort(route, req))
              \/ ~Throws(e, end) /\ route.edge = e /\ out = Send(tailor(route, req))
BY DEF Forward

LEMMA InviteProcessed ==
    ASSUME NEW c, NEW m, NEW e, Taking(c, m, e), NEW regs, Registered(regs),
           Placed(c, m) \/ Handed(c, m, regs) \/ Back(c, m),
           NEW pick, \A a \in Asked(c) : pick[a] = None \/ RouteOK(pick[a], regs),
           NEW deaf, NEW miss \in BOOLEAN, deaf # {} => miss,
           NEW out, out = connectProcessor([m EXCEPT !.edge = e], pick, deaf)
    PROVE  \/ out.type = "response" /\ out.code \in ResponseType
           \/ /\ out.type = "request"
              /\ ~(out.request.maxForwards < 0) => Proceeds(c, OnTheWire(e, out.request), regs, miss)
<1> DEFINE r0 == [m EXCEPT !.edge = e]
<1>1. /\ r0.edge = e /\ r0.method = "INVITE" /\ r0.token = c.token /\ r0.from = c.from /\ r0.to = c.to
      /\ r0.uri = Dialled(c) /\ r0.auth \in {None, c.secret} /\ r0.ext = m.ext
  BY Taken DEF But, MessageFields, Taking, Untouched
<1>2. out = handleRequest(r0, pick, deaf)
  <2> HIDE DEF r0
  <2>1. out = connectProcessor(r0, pick, deaf)
    BY DEF r0
  <2> QED BY <1>1, <2>1 DEF connectProcessor
<1>3. SERVER_INTERNAL_ERROR \in ResponseType
  BY DEF ResponseType
<1>4. CASE Handed(c, m, regs)
  <2> DEFINE route == createRouteFromLastMessage(r0)
             end == [host |-> route.host, tp |-> route.tp]
             req == tailor(route, r0)
  <2>1. out = Forward(r0, route)
    <3>1. getHeaderValue(r0, "x-edgeport-ref")
      BY <1>1, <1>4 DEF Handed, getHeaderValue
    <3> HIDE DEF route, r0
    <3> QED BY <1>2, <3>1 DEF handleRequest, route
  <2>2. route.edge = e
    BY <1>1 DEF createRouteFromLastMessage
  <2>3. \/ out = Answer(SERVER_INTERNAL_ERROR)
        \/ ~Throws(e, end) /\ out = Send(req)
    <3> HIDE DEF r0, route, req
    <3> QED BY <1>1, <2>1, <2>2, Forwarded DEF req
  <2>4. CASE out = Answer(SERVER_INTERNAL_ERROR)
    BY <1>3, <2>4 DEF Answer
  <2>5. CASE ~Throws(e, end) /\ out = Send(req)
    <3>1. out.type = "request" /\ out.request = req
      BY <2>5 DEF Send
    <3>2. ~(req.maxForwards < 0) => Proceeds(c, OnTheWire(e, req), regs, miss)
      BY <1>4, <2>5, FromPeer DEF Proceeds
    <3> QED BY <3>1, <3>2
  <2> QED BY <2>3, <2>4, <2>5
<1>5. CASE Placed(c, m) \/ Back(c, m)
  <2> DEFINE result == router(r0, pick, deaf)
  <2>1. out = IF result.type = "response" THEN result ELSE Forward(r0, result.route)
    <3>1. ~getHeaderValue(r0, "x-edgeport-ref")
      BY <1>1, <1>5 DEF Placed, Back, getHeaderValue
    <3> HIDE DEF r0
    <3> QED BY <1>2, <3>1 DEF handleRequest
  <2>2. \/ result.type = "response" /\ result.code \in ResponseType
        \/ result.type = "route" /\ RouteChosen(c, result.route, e, regs, miss)
    <3> HIDE DEF r0
    <3> QED BY <1>1, Routed
  <2>3. CASE result.type = "response"
    BY <2>1, <2>2, <2>3
  <2>4. CASE result.type = "route" /\ RouteChosen(c, result.route, e, regs, miss)
    <3> DEFINE route == result.route
               end == [host |-> route.host, tp |-> route.tp]
               here == tailor(route, r0)
               there == toPeerEdgePort(route, r0)
    <3>1. \/ out = Answer(SERVER_INTERNAL_ERROR)
          \/ ~Throws(e, end) /\ route.edge # e /\ ~Throws(route.edge, end) /\ out = Send(there)
          \/ ~Throws(e, end) /\ route.edge = e /\ out = Send(here)
      <4>1. out = Forward(r0, route)
        BY <2>1, <2>4
      <4> HIDE DEF r0, route, here, there
      <4> QED BY <1>1, <4>1, Forwarded DEF here, there
    <3>2. RouteChosen(c, route, e, regs, miss)
      BY <2>4
    <3> HIDE DEF result, route
    <3>3. CASE out = Answer(SERVER_INTERNAL_ERROR)
      BY <1>3, <3>3 DEF Answer
    <3>4. CASE ~Throws(e, end) /\ route.edge # e /\ ~Throws(route.edge, end) /\ out = Send(there)
      <4>1. out.type = "request" /\ out.request = there
        BY <3>4 DEF Send
      <4>2. ~(there.maxForwards < 0) => Proceeds(c, OnTheWire(e, there), regs, miss)
        BY <1>5, <3>2, <3>4, HandedOver DEF Proceeds
      <4> QED BY <4>1, <4>2
    <3>5. CASE ~Throws(e, end) /\ route.edge = e /\ out = Send(here)
      <4>1. out.type = "request" /\ out.request = here
        BY <3>5 DEF Send
      <4>2. ~(here.maxForwards < 0) => Proceeds(c, OnTheWire(e, here), regs, miss)
        BY <1>5, <3>2, <3>5, SentOut DEF Proceeds
      <4> QED BY <4>1, <4>2
    <3> QED BY <3>1, <3>3, <3>4, <3>5
  <2> QED BY <2>2, <2>3, <2>4
<1> QED BY <1>4, <1>5

LEMMA OtherProcessed ==
    ASSUME NEW m, MessageOK(m), m.type = "request", m.method \in {"BYE", "ACK", "REGISTER"}, OtherOK(m),
           NEW e \in EdgePorts, NEW pick, NEW deaf,
           NEW out, out = connectProcessor([m EXCEPT !.edge = e], pick, deaf)
    PROVE  \/ out.type = "crash"
           \/ /\ out.type = "request"
              /\ ~(out.request.maxForwards < 0) =>
                    LET t == OnTheWire(e, out.request)
                    IN MessageOK(t) /\ t.type = "request" /\ t.method = m.method /\ OtherOK(t)
<1> DEFINE r0 == [m EXCEPT !.edge = e]
<1>0. But(r0, m, {"edge"}) /\ r0.edge = e /\ DOMAIN r0 = MessageFields
  BY Taken
<1>1. /\ r0.type = "request" /\ r0.code = m.code /\ r0.method = m.method /\ r0.path = m.path
      /\ r0.auth = m.auth /\ r0.ext = m.ext /\ r0.via = m.via /\ r0.maxForwards = m.maxForwards
      /\ r0.uri = m.uri
  BY <1>0 DEF But, MessageFields
<1>2. out = connectProcessor(r0, pick, deaf)
  OBVIOUS
<1> HIDE DEF r0
<1>3. ASSUME NEW req, NEW address, ~Throws(e, address), out.type = "request", out.request = req,
             But(req, r0, {"maxForwards", "via", "route", "auth", "ext"}),
             req.maxForwards = r0.maxForwards - 1, req.via = With(getEdgeInterface(e, address), r0.via),
             "x-edgeport-ref" \notin req.ext,
             req.method \in {"BYE", "CANCEL"} => req.auth = None,
             req.method = "REGISTER" => "x-gateway-auth" \in req.ext /\ req.auth = None
      PROVE  ~(out.request.maxForwards < 0) =>
               LET t == OnTheWire(e, out.request)
               IN MessageOK(t) /\ t.type = "request" /\ t.method = m.method /\ OtherOK(t)
  <2> HAVE ~(out.request.maxForwards < 0)
  <2> DEFINE t == OnTheWire(e, req)
  <2>1. /\ DOMAIN req = MessageFields /\ req.type = "request" /\ req.code = m.code
        /\ req.method = m.method /\ req.path = m.path
    BY <1>0, <1>1, <1>3 DEF But, MessageFields
  <2>2. MessageOK(t) /\ t.type = "request" /\ t.method = m.method
    <3>1. /\ m.method # "CANCEL" /\ req.maxForwards = m.maxForwards - 1 /\ ~(req.maxForwards < 0)
          /\ req.via = With(getEdgeInterface(e, address), m.via)
      BY <1>1, <1>3
    <3> QED BY <1>3, <2>1, <3>1, Sent
  <2>3. t.auth = req.auth /\ t.ext = req.ext
    BY <2>1, WireFields DEF But, MessageFields
  <2> HIDE DEF t
  <2>4. OtherOK(t)
    BY <1>3, <2>1, <2>2, <2>3 DEF OtherOK
  <2> QED BY <1>3, <2>2, <2>4 DEF t
<1>4. CASE m.method \in {"BYE", "ACK"}
  <2> DEFINE req == removeSelfRoutes(addSelfViaUsingExternalAddrs(decreaseMaxForwards(r0)))
  <2>1. out = handleInDialog(r0)
    BY <1>1, <1>2, <1>4 DEF connectProcessor
  <2>2. /\ But(req, r0, {"maxForwards", "via", "route"}) /\ req.maxForwards = r0.maxForwards - 1
        /\ req.via = With(getEdgeInterface(e, r0.uri), r0.via)
    BY <1>0, Passed
  <2>3. \/ out.type = "crash"
        \/ ~Throws(e, r0.uri) /\ out.type = "request" /\ out.request = req
    <3> HIDE DEF req
    <3> QED BY <1>0, <2>1 DEF handleInDialog, req, Send
  <2> HIDE DEF req
  <2>4. But(req, r0, {"maxForwards", "via", "route", "auth", "ext"})
    BY <2>2 DEF But
  <2>5. req.ext = m.ext /\ req.auth = m.auth /\ req.method = m.method
    BY <1>0, <1>1, <2>2 DEF But, MessageFields
  <2>6. "x-edgeport-ref" \notin req.ext /\ (req.method \in {"BYE", "CANCEL"} => req.auth = None)
    BY <2>5 DEF OtherOK
  <2>7. req.method # "REGISTER"
    BY <1>4, <2>5
  <2> QED BY <1>3, <2>2, <2>3, <2>4, <2>6, <2>7
<1>5. CASE m.method = "REGISTER"
  <2> DEFINE r1 == decreaseMaxForwards(addSelfVia(createRouteFromLastMessage(r0), r0))
             req == removeXEdgePortRef(removeSelfRoutes(removeAuthorization(r1)))
             address == [host |-> r0.uri.host, tp |-> r0.uri.tp]
  <2>1. out = handleRegistry(r0)
    BY <1>1, <1>2, <1>5 DEF connectProcessor, OtherOK, getHeaderValue
  <2>2. /\ But(req, r0, {"maxForwards", "via", "route", "auth", "ext"})
        /\ req.maxForwards = r0.maxForwards - 1 /\ req.auth = None
        /\ req.ext = r0.ext \ {"x-edgeport-ref"}
        /\ req.via = With(getEdgeInterface(e, address), r0.via)
    BY <1>0, Passed
  <2>3. \/ out.type = "crash"
        \/ ~Throws(e, r0.uri) /\ out.type = "request" /\ out.request = req
    <3> HIDE DEF req, r1
    <3> QED BY <1>0, <2>1 DEF handleRegistry, req, r1, Send
  <2>4. Throws(e, address) <=> Throws(e, r0.uri)
    BY DEF Throws, TransportOf
  <2> HIDE DEF req, r1, address
  <2>5. "x-edgeport-ref" \notin req.ext /\ "x-gateway-auth" \in req.ext
    BY <1>1, <1>5, <2>2 DEF OtherOK
  <2> QED BY <1>3, <2>2, <2>3, <2>4, <2>5
<1> QED BY <1>4, <1>5

-----------------------------------------------------------------------------
(* The invariant: every step keeps it *)

LEMMA InviteGrows ==
    ASSUME NEW c, NEW m, NEW regs, NEW more, regs \subseteq more, NEW miss, NEW missed, miss => missed,
           RequestOK(c, m, regs, miss)
    PROVE  RequestOK(c, m, more, missed)
<1>1. \A s, e : Leads(c, s, e, regs) => Leads(c, s, e, more)
  BY DEF Leads
<1>2. Handed(c, m, regs) => Handed(c, m, more)
  BY <1>1 DEF Handed
<1>3. Out(c, m, regs, miss) => Out(c, m, more, missed)
  BY DEF Out
<1>4. InviteOK(c, m, regs, miss) => InviteOK(c, m, more, missed)
  BY <1>2, <1>3 DEF InviteOK
<1> QED BY <1>4 DEF RequestOK

\* What a message that is put on the wire has to be.
Fit(c, m, regs, miss) == MessageOK(m) /\ (m.type = "request" => RequestOK(c, m, regs, miss))

LEMMA Rewired ==
    ASSUME RoutingInv, NEW new, wire' \subseteq wire \cup new, UNCHANGED call,
           registers \subseteq registers', failed => failed',
           \A t \in new : Fit(call, t, registers', failed')
    PROVE  WireInv' /\ RequestsInv'
<1>1. WireInv'
  BY DEF RoutingInv, WireInv, Fit
<1>2. ASSUME NEW m \in wire', m.type = "request" PROVE RequestOK(call, m, registers', failed')
  <2>1. CASE m \in new
    BY <1>2, <2>1 DEF Fit
  <2>2. CASE m \in wire
    <3>1. RequestOK(call, m, registers, failed)
      BY <1>2, <2>2 DEF RoutingInv, RequestsInv, Requests
    <3> QED BY <3>1, InviteGrows
  <2> QED BY <1>2, <2>1, <2>2
<1>3. RequestsInv'
  BY <1>2 DEF RequestsInv, Requests
<1> QED BY <1>1, <1>3

LEMMA Answering ==
    ASSUME NEW c, NEW m, MessageOK(m), NEW code \in ResponseType, NEW regs, NEW miss,
           NEW t, t = Response(m, code)
    PROVE  Fit(c, t, regs, miss) /\ t.type = "response"
<1>1. /\ DOMAIN t = MessageFields /\ t.type = "response" /\ t.code = code /\ t.method = m.method
      /\ t.via = m.via /\ t.path = m.path /\ t.maxForwards = m.maxForwards
  BY DEF Response, MessageOK, MessageFields
<1>2. MessageOK(t)
  BY <1>1, SameWay
<1> QED BY <1>1, <1>2 DEF Fit

LEMMA Cancelling ==
    ASSUME NEW c, NEW x, TxOK(x), NEW regs, NEW miss
    PROVE  /\ Fit(c, CancelOf(x), regs, miss)
           /\ Fit(c, Response([x EXCEPT !.via = Tail(@)], TERMINATED), regs, miss)
<1>1. /\ MessageOK(x) /\ x.type = "request" /\ x.method = "INVITE" /\ x.path # <<>>
      /\ DOMAIN x = MessageFields
  BY DEF TxOK, MessageOK
<1>2. Fit(c, CancelOf(x), regs, miss)
  <2> DEFINE t == CancelOf(x)
  <2>1. /\ DOMAIN t = MessageFields /\ t.type = x.type /\ t.code = x.code /\ t.method = "CANCEL"
        /\ t.via = <<x.via[1]>> /\ t.path = x.path /\ t.maxForwards = x.maxForwards
        /\ t.auth = None /\ t.ext = {}
    BY <1>1 DEF CancelOf, MessageFields
  <2> HIDE DEF t
  <2>2. x.via \in Seq(Interface) /\ x.via # <<>>
    BY <1>1 DEF MessageOK
  <2>3. x.via[1] \in Interface
    BY <2>2
  <2>4. t.via \in Seq(Interface) /\ t.via # <<>>
    BY <2>1, <2>3
  <2>5. MessageOK(t)
    BY <1>1, <2>1, <2>4 DEF MessageOK, Methods
  <2>6. OtherOK(t)
    BY <2>1 DEF OtherOK
  <2> QED BY <2>1, <2>5, <2>6 DEF Fit, RequestOK, t
<1>3. Fit(c, Response([x EXCEPT !.via = Tail(@)], TERMINATED), regs, miss)
  <2> DEFINE t == Response([x EXCEPT !.via = Tail(@)], TERMINATED)
  <2>1. /\ DOMAIN t = MessageFields /\ t.type = "response" /\ t.code = TERMINATED /\ t.method = x.method
        /\ t.via = Tail(x.via) /\ t.path = x.path /\ t.maxForwards = x.maxForwards
    BY <1>1 DEF Response, MessageFields
  <2>2. TERMINATED \in ResponseType
    BY DEF ResponseType
  <2> HIDE DEF t
  <2>3. Tail(x.via) # <<>>
    <3>1. x.via \in Seq(Interface) /\ x.via # <<>> /\ x.path \in Seq(EdgePorts) /\ Len(x.via) = Len(x.path) + 1
      BY <1>1 DEF MessageOK, Traced
    <3>2. Len(x.path) # 0
      BY <1>1, <3>1
    <3> DEFINE n == Len(x.path)
    <3>3. n \in Nat /\ Len(x.via) = n + 1 /\ n # 0
      BY <3>1, <3>2
    <3> HIDE DEF n
    <3> DEFINE w == Tail(x.via)
    <3>4. w \in Seq(Interface) /\ Len(w) = n
      BY <3>1, <3>3
    <3> HIDE DEF w
    <3>5. w # <<>>
      BY ONLY <3>3, <3>4
    <3> QED BY <3>5 DEF w
  <2>4. MessageOK(t)
    BY <1>1, <2>1, <2>2, <2>3, Retraced
  <2> QED BY <2>1, <2>4 DEF Fit, t
<1> QED BY <1>2, <1>3

LEMMA Dropped ==
    ASSUME RoutingInv, NEW m \in wire, Drop(m), UNCHANGED <<call, registers>>,
           failed => failed', failed' \in BOOLEAN
    PROVE  WireInv' /\ RequestsInv' /\ TxInv' /\ LostInv'
<1>1. wire' \subseteq wire
  BY DEF Drop, Replace
<1> DEFINE new == {}
<1>0. wire' \subseteq wire \cup new /\ registers \subseteq registers' /\ \A t \in new : Fit(call, t, registers', failed')
  BY <1>1
<1> HIDE DEF new
<1>2. WireInv' /\ RequestsInv'
  BY <1>0, Rewired
<1>3. m.method \in Methods
  BY DEF RoutingInv, WireInv, MessageOK
<1>4. TxInv' /\ LostInv'
  BY <1>3 DEF RoutingInv, TxInv, LostInv, Drop
<1> QED BY <1>2, <1>4

\* The lookups of Location.
LEMMA FoundOK ==
    ASSUME RoutingInv, NEW r
    PROVE  \A a \in Asked(call) : Found(r)[a] = None \/ RouteOK(Found(r)[a], registers)
<1> SUFFICES ASSUME NEW a \in Asked(call) PROVE Found(r)[a] = None \/ RouteOK(Found(r)[a], registers)
  OBVIOUS
<1>1. Found(r)[a] = CASE a \notin Aors -> None
                      [] a \in Aors /\ loc[a] = {} -> None
                      [] OTHER -> IF r \in loc[a] THEN r ELSE CHOOSE x \in loc[a] : TRUE
  BY DEF Found, Asked
<1>2. CASE a \in Aors /\ loc[a] # {}
  <2>1. Found(r)[a] \in loc[a]
    BY <1>1, <1>2
  <2> QED BY <1>2, <2>1 DEF RoutingInv, LocInv
<1>3. CASE a \notin Aors \/ (a \in Aors /\ loc[a] = {})
  BY <1>1, <1>3
<1> QED BY <1>2, <1>3

\* An edgeport only takes an INVITE that is not out yet.
LEMMA Takes ==
    ASSUME RoutingInv, NEW m \in wire, m.type = "request", m.method = "INVITE", NEW e \in EdgePorts,
           m.dest \in OwnHosts(e)
    PROVE  Taking(call, m, e) /\ (Placed(call, m) \/ Handed(call, m, registers) \/ Back(call, m))
<1>1. MessageOK(m) /\ InviteOK(call, m, registers, failed)
  BY DEF RoutingInv, WireInv, RequestsInv, Requests, RequestOK
<1>2. ~Out(call, m, registers, failed)
  <2>1. m.dest \in EdgeHosts
    BY DEF EdgeHosts
  <2>2. m.dest \notin DOMAIN Accounts
    BY PhonesApart
  <2>3. m.dest \notin TrunkHosts
    BY <2>1, HostsAssumption DEF HostsAssumption
  <2> QED BY <2>2, <2>3 DEF Out
<1> QED BY <1>1, <1>2 DEF InviteOK, Taking

\* New messages in the place of one that an edgeport took.
LEMMA Replaced ==
    ASSUME RoutingInv, NEW m, NEW new, Replace(m, new), UNCHANGED <<call, registers>>, failed => failed',
           \A t \in new : Fit(call, t, registers, failed')
    PROVE  WireInv' /\ RequestsInv'
<1>1. wire' \subseteq wire \cup new /\ registers \subseteq registers'
      /\ \A t \in new : Fit(call, t, registers', failed')
  BY DEF Replace
<1> QED BY <1>1, Rewired

LEMMA RequestSent ==
    ASSUME RoutingInv, NEW m \in wire, NEW e \in EdgePorts, NEW req, SendRequest(e, m, req),
           UNCHANGED <<call, registers>>, failed => failed', failed' \in BOOLEAN,
           ~(req.maxForwards < 0) => /\ Fit(call, OnTheWire(e, req), registers, failed')
                                     /\ m.method = "INVITE" => TxOK(OnTheWire(e, req))
    PROVE  WireInv' /\ RequestsInv' /\ TxInv' /\ LostInv'
<1>1. CASE req.maxForwards < 0
  <2>1. Drop(m)
    BY <1>1 DEF SendRequest
  <2> QED BY <2>1, Dropped
<1>2. CASE ~(req.maxForwards < 0)
  <2> DEFINE t == OnTheWire(e, req)
             new == {t}
  <2>1. /\ Replace(m, new) /\ UNCHANGED lost
        /\ tx' = IF m.method = "INVITE" THEN [tx EXCEPT ![e] = t] ELSE tx
    BY <1>2 DEF SendRequest
  <2>2. Fit(call, t, registers, failed') /\ (m.method = "INVITE" => TxOK(t))
    BY <1>2
  <2> HIDE DEF t
  <2>3. \A x \in new : Fit(call, x, registers, failed')
    BY <2>2
  <2> HIDE DEF new
  <2>4. WireInv' /\ RequestsInv'
    BY <2>1, <2>3, Replaced
  <2>5. TxInv'
    BY <2>1, <2>2 DEF RoutingInv, TxInv
  <2>6. LostInv'
    BY <2>1 DEF RoutingInv, LostInv
  <2> QED BY <2>4, <2>5, <2>6
<1> QED BY <1>1, <1>2

LEMMA CancelSent ==
    ASSUME RoutingInv, NEW m \in wire, NEW e \in EdgePorts, NEW out, SendCancel(e, m, out),
           UNCHANGED <<call, registers>>, failed => failed', failed' \in BOOLEAN
    PROVE  WireInv' /\ RequestsInv' /\ TxInv' /\ LostInv'
<1>1. CASE Drop(m)
  BY <1>1, Dropped
<1>2. CASE out.type = "request" /\ tx[e] # None
  <2> DEFINE x == tx[e]
             one == CancelOf(x)
             two == Response([x EXCEPT !.via = Tail(@)], TERMINATED)
             new == {one, two}
  <2>1. Replace(m, new) /\ UNCHANGED <<tx, lost>>
    BY <1>2 DEF SendCancel
  <2>2. TxOK(x)
    BY <1>2 DEF RoutingInv, TxInv
  <2> HIDE DEF x
  <2>3. Fit(call, one, registers, failed') /\ Fit(call, two, registers, failed')
    BY <2>2, Cancelling
  <2> HIDE DEF one, two
  <2>4. \A t \in new : Fit(call, t, registers, failed')
    BY <2>3
  <2> HIDE DEF new
  <2>5. WireInv' /\ RequestsInv'
    BY <2>1, <2>4, Replaced
  <2>6. TxInv' /\ LostInv'
    BY <2>1 DEF RoutingInv, TxInv, LostInv
  <2> QED BY <2>5, <2>6
<1> QED BY <1>1, <1>2 DEF SendCancel

LEMMA AnswerSent ==
    ASSUME RoutingInv, NEW m \in wire, NEW code \in ResponseType, Replace(m, {Response(m, code)}),
           UNCHANGED <<tx, lost, call, registers>>, failed => failed', failed' \in BOOLEAN
    PROVE  WireInv' /\ RequestsInv' /\ TxInv' /\ LostInv'
<1> DEFINE t == Response(m, code)
           new == {t}
<1>1. MessageOK(m)
  BY DEF RoutingInv, WireInv
<1>2. t = Response(m, code) /\ Replace(m, new)
  OBVIOUS
<1> HIDE DEF t
<1>3. Fit(call, t, registers, failed')
  BY <1>1, <1>2, Answering
<1>4. \A x \in new : Fit(call, x, registers, failed')
  BY <1>3
<1> HIDE DEF new
<1>5. WireInv' /\ RequestsInv'
  BY <1>2, <1>4, Replaced
<1>6. TxInv' /\ LostInv'
  BY DEF RoutingInv, TxInv, LostInv
<1> QED BY <1>5, <1>6

LEMMA KeptByRequest ==
    ASSUME RoutingInv, NEW e \in EdgePorts, HandleRequest(e)
    PROVE  RoutingInv'
<1>1. PICK m \in wire, r \in Known \cup {None}, deaf \in SUBSET {"caller", "callee"} :
        /\ m.type = "request" /\ m.dest \in OwnHosts(e)
        /\ failed' = (failed \/ deaf # {})
        /\ LET out == connectProcessor([m EXCEPT !.edge = e], Found(r), deaf)
           IN CASE m.method = "CANCEL" -> SendCancel(e, m, out)
                [] m.method # "CANCEL" /\ out.type = "request" -> SendRequest(e, m, out.request)
                [] m.method # "CANCEL" /\ out.type = "response" ->
                      /\ Replace(m, {Response(m, out.code)})
                      /\ UNCHANGED <<tx, lost>>
                [] OTHER -> Drop(m)
        /\ UNCHANGED <<call, loc, caller, callee, registers>>
  BY ZenonT(60) DEF HandleRequest
<1> DEFINE pick == Found(r)
           out == connectProcessor([m EXCEPT !.edge = e], pick, deaf)
<1>2. /\ m.method = "CANCEL" => SendCancel(e, m, out)
      /\ m.method # "CANCEL" /\ out.type = "request" => SendRequest(e, m, out.request)
      /\ m.method # "CANCEL" /\ out.type = "response" =>
            Replace(m, {Response(m, out.code)}) /\ UNCHANGED <<tx, lost>>
      /\ m.method # "CANCEL" /\ out.type \notin {"request", "response"} => Drop(m)
  BY <1>1
<1>3. (failed => failed') /\ failed' \in BOOLEAN /\ (deaf # {} => failed')
  BY <1>1
<1>4. out = connectProcessor([m EXCEPT !.edge = e], pick, deaf)
      /\ \A a \in Asked(call) : pick[a] = None \/ RouteOK(pick[a], registers)
  BY FoundOK
<1>5. MessageOK(m) /\ RequestOK(call, m, registers, failed) /\ m.method \in Methods
  BY <1>1 DEF RoutingInv, WireInv, RequestsInv, Requests, MessageOK
<1>6. Registered(registers)
  BY DEF RoutingInv, RegistersInv, Registered
<1> HIDE DEF out, pick
<1>7. WireInv' /\ RequestsInv' /\ TxInv' /\ LostInv'
  <2>1. CASE m.method = "CANCEL"
    <3>1. SendCancel(e, m, out)
      BY <1>2, <2>1
    <3> QED BY <1>1, <1>3, <3>1, CancelSent
  <2>2. CASE m.method = "INVITE"
    <3>1. Taking(call, m, e) /\ (Placed(call, m) \/ Handed(call, m, registers) \/ Back(call, m))
      BY <1>1, <2>2, Takes
    <3>2. \/ out.type = "response" /\ out.code \in ResponseType
          \/ /\ out.type = "request"
             /\ ~(out.request.maxForwards < 0)
                  => Proceeds(call, OnTheWire(e, out.request), registers, failed')
      BY <1>3, <1>4, <1>6, <3>1, InviteProcessed
    <3>3. CASE out.type = "response" /\ out.code \in ResponseType
      <4>1. Replace(m, {Response(m, out.code)}) /\ UNCHANGED <<tx, lost>>
        BY <1>2, <2>2, <3>3
      <4> QED BY <1>1, <1>3, <3>3, <4>1, AnswerSent
    <3>4. CASE /\ out.type = "request"
               /\ ~(out.request.maxForwards < 0)
                    => Proceeds(call, OnTheWire(e, out.request), registers, failed')
      <4> DEFINE req == out.request
      <4>1. SendRequest(e, m, req)
        BY <1>2, <2>2, <3>4
      <4>2. ~(req.maxForwards < 0) => Proceeds(call, OnTheWire(e, req), registers, failed')
        BY <3>4
      <4> HIDE DEF req
      <4>3. ~(req.maxForwards < 0) => /\ Fit(call, OnTheWire(e, req), registers, failed')
                                      /\ m.method = "INVITE" => TxOK(OnTheWire(e, req))
        BY <4>2 DEF Proceeds, Fit, RequestOK, TxOK
      <4> QED BY <1>1, <1>3, <4>1, <4>3, RequestSent
    <3> QED BY <3>2, <3>3, <3>4
  <2>3. CASE m.method \in {"BYE", "ACK", "REGISTER"}
    <3>1. OtherOK(m)
      BY <1>5, <2>3 DEF RequestOK
    <3>2. \/ out.type = "crash"
          \/ /\ out.type = "request"
             /\ ~(out.request.maxForwards < 0) =>
                   LET t == OnTheWire(e, out.request)
                   IN MessageOK(t) /\ t.type = "request" /\ t.method = m.method /\ OtherOK(t)
      BY <1>1, <1>4, <1>5, <2>3, <3>1, OtherProcessed
    <3>3. CASE out.type = "crash"
      <4>1. Drop(m)
        BY <1>2, <2>3, <3>3
      <4> QED BY <1>1, <1>3, <4>1, Dropped
    <3>4. CASE /\ out.type = "request"
               /\ ~(out.request.maxForwards < 0) =>
                     LET t == OnTheWire(e, out.request)
                     IN MessageOK(t) /\ t.type = "request" /\ t.method = m.method /\ OtherOK(t)
      <4> DEFINE req == out.request
      <4>1. SendRequest(e, m, req)
        BY <1>2, <2>3, <3>4
      <4>2. ~(req.maxForwards < 0) => LET t == OnTheWire(e, req)
                                      IN MessageOK(t) /\ t.method = m.method /\ OtherOK(t)
        BY <3>4
      <4> HIDE DEF req
      <4>3. ~(req.maxForwards < 0) => /\ Fit(call, OnTheWire(e, req), registers, failed')
                                      /\ m.method = "INVITE" => TxOK(OnTheWire(e, req))
        BY <2>3, <4>2 DEF Fit, RequestOK
      <4> QED BY <1>1, <1>3, <4>1, <4>3, RequestSent
    <3> QED BY <3>2, <3>3, <3>4
  <2> QED BY <1>5, <2>1, <2>2, <2>3 DEF Methods
<1>8. CallInv' /\ LocInv' /\ CalleeInv' /\ RegistersInv'
  BY <1>1 DEF RoutingInv, CallInv, LocInv, CalleeInv, RegistersInv
<1> QED BY <1>7, <1>8 DEF RoutingInv

\* The steps that leave the edgeports and Location alone.
Still == UNCHANGED <<call, loc, tx, failed, registers>>

LEMMA KeptStill ==
    ASSUME RoutingInv, NEW new, wire' \subseteq wire \cup new, Still, lost' = lost,
           \A t \in new : Fit(call, t, registers, failed), CalleeInv'
    PROVE  RoutingInv'
<1>1. registers \subseteq registers' /\ (failed => failed') /\ call' = call
      /\ \A t \in new : Fit(call, t, registers', failed')
  BY DEF Still
<1>2. WireInv' /\ RequestsInv'
  BY <1>1, Rewired
<1>3. CallInv' /\ LocInv' /\ TxInv' /\ LostInv' /\ RegistersInv'
  BY DEF RoutingInv, CallInv, LocInv, TxInv, LostInv, RegistersInv, Still
<1> QED BY <1>2, <1>3 DEF RoutingInv

LEMMA KeptByResponse ==
    ASSUME RoutingInv, NEW e \in EdgePorts, HandleResponse(e)
    PROVE  RoutingInv'
<1>1. PICK m \in wire :
        /\ m.type = "response" /\ m.dest \in OwnHosts(e)
        /\ LET back == removeTopVia(m)
           IN Replace(m, IF m.code = TERMINATED \/ back.via = <<>> THEN {}
                         ELSE {[back EXCEPT !.dest = back.via[1].host]})
        /\ UNCHANGED <<call, loc, tx, caller, callee, lost, failed, registers>>
  BY DEF HandleResponse
<1> DEFINE back == removeTopVia(m)
           t == [back EXCEPT !.dest = back.via[1].host]
           new == IF m.code = TERMINATED \/ back.via = <<>> THEN {} ELSE {t}
<1>2. Replace(m, new)
  BY <1>1
<1>3. MessageOK(m) /\ DOMAIN m = MessageFields /\ m.via \in Seq(Interface) /\ m.via # <<>>
  BY DEF RoutingInv, WireInv, MessageOK
<1>4. back.via = Tail(m.via) /\ DOMAIN t = MessageFields /\ t.type = "response" /\ t.method = m.method
      /\ t.code = m.code /\ t.via = Tail(m.via) /\ t.path = m.path /\ t.maxForwards = m.maxForwards
  BY <1>1, <1>3 DEF removeTopVia, MessageFields
<1> HIDE DEF t, back
<1>5. back.via # <<>> => MessageOK(t)
  <2> HAVE back.via # <<>>
  <2>1. Tail(m.via) # <<>> /\ Tail(m.via) \in Seq(Interface)
    BY <1>3, <1>4
  <2>2. CASE m.method = "CANCEL"
    BY <1>3, <1>4, <2>1, <2>2 DEF MessageOK
  <2>3. CASE m.method # "CANCEL"
    <3>1. t.code \in ResponseType \cup {None}
      BY <1>3, <1>4 DEF MessageOK
    <3> QED BY <1>3, <1>4, <2>1, <2>3, <3>1, Retraced
  <2> QED BY <2>2, <2>3
<1>6. \A x \in new : Fit(call, x, registers, failed)
  BY <1>4, <1>5 DEF Fit
<1> HIDE DEF new
<1>7. wire' \subseteq wire \cup new /\ Still /\ lost' = lost
  BY <1>1, <1>2 DEF Replace, Still
<1>8. CalleeInv'
  BY <1>1 DEF RoutingInv, CalleeInv
<1> QED BY <1>6, <1>7, <1>8, KeptStill

\* What is not out yet is for an edgeport.
LEMMA DestInside ==
    ASSUME NEW c, NEW m, NEW regs, Placed(c, m) \/ Handed(c, m, regs) \/ Back(c, m)
    PROVE  m.dest \in EdgeHosts
<1>1. \A e \in EdgePorts : OwnHosts(e) \subseteq EdgeHosts
  BY DEF EdgeHosts
<1>2. Handed(c, m, regs) => m.dest \in EdgeHosts
  BY <1>1 DEF Handed, Leads
<1> QED BY <1>2 DEF Placed, Back

\* Only an INVITE to a trunk or to a phone leaves the edgeports.
LEMMA NeverInvalid ==
    ASSUME NEW c, NEW m, NEW regs, NEW miss, InviteOK(c, m, regs, miss)
    PROVE  m.dest # Invalid
<1>1. Invalid \notin EdgeHosts /\ Invalid \notin DOMAIN Phones /\ Invalid \notin TrunkHosts
  BY HostsAssumption DEF HostsAssumption
<1>2. DOMAIN Accounts \subseteq DOMAIN Phones
  BY PhonesAssumption DEF PhonesAssumption
<1>3. Placed(c, m) \/ Handed(c, m, regs) \/ Back(c, m) => m.dest \in EdgeHosts
  BY DestInside
<1>4. Out(c, m, regs, miss) => m.dest \in DOMAIN Accounts \cup TrunkHosts
  BY DEF Out
<1> QED BY <1>1, <1>2, <1>3, <1>4 DEF InviteOK

LEMMA KeptByTunnel ==
    ASSUME RoutingInv, Tunnel
    PROVE  RoutingInv'
<1>1. PICK m \in wire, u \in DOMAIN Phones :
        /\ m.dest = Invalid /\ Replace(m, {[m EXCEPT !.dest = u]})
        /\ UNCHANGED <<call, loc, tx, caller, callee, lost, failed, registers>>
  BY DEF Tunnel
<1> DEFINE t == [m EXCEPT !.dest = u]
           new == {t}
<1>2. MessageOK(m) /\ (m.type = "request" => RequestOK(call, m, registers, failed))
  BY DEF RoutingInv, WireInv, RequestsInv, Requests
<1>3. But(t, m, {"dest"}) /\ DOMAIN m = MessageFields /\ DOMAIN t = MessageFields
  BY <1>2 DEF But, MessageFields, MessageOK
<1>4. Replace(m, new)
  BY <1>1
<1> HIDE DEF t
<1>5. /\ t.type = m.type /\ t.code = m.code /\ t.method = m.method /\ t.via = m.via /\ t.path = m.path
      /\ t.maxForwards = m.maxForwards /\ t.auth = m.auth /\ t.ext = m.ext
  BY <1>3 DEF But, MessageFields
<1>6. MessageOK(t)
  <2>1. m.type \in {"request", "response"} /\ m.code \in ResponseType \cup {None}
    BY <1>2 DEF MessageOK
  <2> QED BY <1>2, <1>3, <1>5, <2>1, SameWay
<1>7. t.type = "request" => RequestOK(call, t, registers, failed)
  <2> HAVE t.type = "request"
  <2>1. m.method # "INVITE"
    BY <1>1, <1>2, <1>5, NeverInvalid DEF RequestOK
  <2> QED BY <1>2, <1>5, <2>1 DEF RequestOK, OtherOK
<1>8. \A x \in new : Fit(call, x, registers, failed)
  BY <1>6, <1>7 DEF Fit
<1> HIDE DEF new
<1>9. wire' \subseteq wire \cup new /\ Still /\ lost' = lost
  BY <1>1, <1>4 DEF Replace, Still
<1>10. CalleeInv'
  BY <1>1 DEF RoutingInv, CalleeInv
<1> QED BY <1>8, <1>9, <1>10, KeptStill

LEMMA KeptByVanish ==
    ASSUME RoutingInv, Vanish
    PROVE  RoutingInv'
<1>1. PICK m \in wire : Drop(m) /\ UNCHANGED <<call, loc, caller, callee, failed, registers>>
  BY DEF Vanish
<1>2. WireInv' /\ RequestsInv' /\ TxInv' /\ LostInv'
  <2>1. (failed => failed') /\ failed' \in BOOLEAN
    BY <1>1 DEF RoutingInv, LostInv
  <2> QED BY <1>1, <2>1, Dropped
<1>3. CallInv' /\ LocInv' /\ CalleeInv' /\ RegistersInv'
  BY <1>1 DEF RoutingInv, CallInv, LocInv, CalleeInv, RegistersInv
<1> QED BY <1>2, <1>3 DEF RoutingInv

\* What Connect makes of a registration.
LEMMA RouteAdded ==
    ASSUME NEW req, req.method = "REGISTER", req.ext = {}, NEW pick, NEW deaf,
           NEW out, out = connectProcessor(req, pick, deaf), out.type = "addRoute"
    PROVE  out.route = createRoute(req)
<1>1. out = handleRegister(req, deaf)
  BY DEF connectProcessor, getHeaderValue
<1> DEFINE res == findResource(req.from.host, req.from.user, "caller" \in deaf)
<1>2. \/ out.route = createRoute(req)
      \/ \E code : out = Answer(code)
  <2> HIDE DEF res
  <2>1. out = CASE req.auth # None /\ res = Nobody -> Answer(FORBIDDEN)
                [] req.auth # None /\ res # Nobody /\ Challenge(req, SecretOf(res)) # None ->
                     Answer(UNAUTHORIZED)
                [] req.auth # None /\ res # Nobody /\ Challenge(req, SecretOf(res)) = None ->
                     [type |-> "addRoute", route |-> createRoute(req),
                      aor |-> IF res.kind = "PEER" THEN Peers[res.user].aor ELSE getTargetAOR(req)]
                [] req.auth = None /\ req.token # None ->
                     IF "REGISTER" \in Tokens[req.token].allows
                     THEN [type |-> "addRoute", route |-> createRoute(req), aor |-> Tokens[req.token].aor]
                     ELSE Answer(FORBIDDEN)
                [] OTHER -> Answer(UNAUTHORIZED)
    BY <1>1 DEF handleRegister, res
  <2> QED BY <2>1
<1>3. \A code : Answer(code).type = "response"
  BY DEF Answer
<1> QED BY <1>2, <1>3

LEMMA KeptByRegister ==
    ASSUME RoutingInv, NEW u \in call.phones, Register(u)
    PROVE  RoutingInv'
<1>1. u \in DOMAIN Accounts
  <2>1. CASE call \in Calls
    BY <2>1, CallsAssumption DEF CallsAssumption
  <2>2. CASE call \in Registrations
    BY <2>2 DEF Registrations, createRegistrationRequest
  <2> QED BY <2>1, <2>2 DEF RoutingInv, CallInv
<1> DEFINE a == Accounts[u]
           r0 == Request(u, "REGISTER", [user |-> None, host |-> a.host, tp |-> None], <<>>, None)
<1>2. PICK e \in Phones[u].edges :
        LET req == [r0 EXCEPT !.from = [user |-> a.user, host |-> a.host], !.edge = e,
                              !.to = [user |-> a.user, host |-> a.host],
                              !.auth = a.secret, !.token = a.token]
            out == connectProcessor(req, <<>>, {})
        IN /\ out.type = "addRoute"
           /\ loc' = [loc EXCEPT ![out.aor] = {r \in @ : r.host # out.route.host} \cup {out.route}]
           /\ registers' = registers \cup {<<u, e>>}
           /\ UNCHANGED <<call, wire, tx, caller, callee, lost, failed>>
  BY DEF Register
<1> DEFINE req == [r0 EXCEPT !.from = [user |-> a.user, host |-> a.host], !.edge = e,
                             !.to = [user |-> a.user, host |-> a.host],
                             !.auth = a.secret, !.token = a.token]
           out == connectProcessor(req, <<>>, {})
           aor == out.aor
           route == out.route
<1>3. /\ out = connectProcessor(req, <<>>, {}) /\ out.type = "addRoute"
      /\ loc' = [loc EXCEPT ![aor] = {r \in loc[aor] : r.host # route.host} \cup {route}]
      /\ registers' = registers \cup {<<u, e>>}
      /\ UNCHANGED <<call, wire, tx, caller, callee, lost, failed>>
  BY <1>2
<1>4. e \in EdgePorts
  BY <1>1, PhonesAssumption DEF PhonesAssumption
<1>5. /\ req.method = "REGISTER" /\ req.ext = {} /\ req.edge = e /\ req.via = <<Self(u)>>
  <2>1. DOMAIN r0 = MessageFields /\ r0.method = "REGISTER" /\ r0.ext = {} /\ r0.via = <<Self(u)>>
    BY DEF Request, MessageFields
  <2> HIDE DEF r0
  <2> QED BY <2>1 DEF MessageFields
<1> HIDE DEF req
<1>6. route = createRoute(req)
  <2> HIDE DEF out
  <2>1. out.route = createRoute(req)
    BY <1>3, <1>5, RouteAdded
  <2> QED BY <2>1
<1> HIDE DEF out, route, aor
<1>7. route.host = u
  <2>1. Sender(req).host = u
    BY <1>5 DEF Sender, Self
  <2> QED BY <1>6, <2>1 DEF createRoute
<1>8. RouteOK(route, registers')
  <2>1. DOMAIN route = RouteFields /\ route.edge = e /\ route.headers = {} /\ route.removes = {}
    BY <1>5, <1>6 DEF createRoute, RouteFields
  <2>2. <<route.host, route.edge>> \in registers'
    BY <1>3, <1>7, <2>1
  <2> QED BY <1>1, <1>4, <1>7, <2>1, <2>2 DEF RouteOK
<1>9. LocInv'
  <2>1. \A x : RouteOK(x, registers) => RouteOK(x, registers')
    BY <1>3 DEF RouteOK
  <2>2. DOMAIN loc' = Aors /\ \A b \in Aors : \A x \in loc'[b] : x \in loc[b] \/ x = route
    BY <1>3 DEF RoutingInv, LocInv
  <2> QED BY <1>8, <2>1, <2>2 DEF RoutingInv, LocInv
<1>10. WireInv' /\ RequestsInv'
  <2> DEFINE new == {}
  <2>1. wire' \subseteq wire \cup new /\ registers \subseteq registers' /\ (failed => failed') /\ call' = call
        /\ \A t \in new : Fit(call, t, registers', failed')
    BY <1>3
  <2> HIDE DEF new
  <2> QED BY <2>1, Rewired
<1>11. CallInv' /\ TxInv' /\ CalleeInv' /\ LostInv'
  BY <1>3 DEF RoutingInv, CallInv, TxInv, CalleeInv, LostInv
<1>12. RegistersInv'
  BY <1>1, <1>3, <1>4 DEF RoutingInv, RegistersInv
<1> QED BY <1>9, <1>10, <1>11, <1>12 DEF RoutingInv

LEMMA KeptByExpire ==
    ASSUME RoutingInv, Expire
    PROVE  RoutingInv'
<1>1. PICK a \in Aors : \E r \in loc[a] :
        /\ loc' = [loc EXCEPT ![a] = @ \ {r}]
        /\ UNCHANGED <<call, wire, tx, caller, callee, lost, failed, registers>>
  BY DEF Expire
<1>2. LocInv'
  BY <1>1 DEF RoutingInv, LocInv
<1>3. /\ CallInv' /\ WireInv' /\ TxInv' /\ CalleeInv' /\ RequestsInv' /\ LostInv' /\ RegistersInv'
  BY <1>1 DEF RoutingInv, CallInv, WireInv, TxInv, CalleeInv, RequestsInv, Requests, LostInv, RegistersInv
<1> QED BY <1>2, <1>3 DEF RoutingInv

-----------------------------------------------------------------------------
(* The phones *)

\* The request that opens a call.
LEMMA Opens ==
    ASSUME RoutingInv, NEW auth, auth \in {None, call.secret}, NEW t, t = Opening(auth)
    PROVE  /\ Fit(call, t, registers, failed)
           /\ DOMAIN t = MessageFields /\ t.type = "request" /\ t.code = None /\ t.via # <<>>
           /\ t.auth = auth /\ "x-edgeport-ref" \notin t.ext
<1> DEFINE door == Door(call.ua, call.edge)
           uri == [user |-> call.to.user, host |-> call.to.host, tp |-> None]
           route == IF call.route THEN <<door>> ELSE <<>>
           ua == call.ua
           method == call.method
           host == door.host
           r0 == Request(ua, method, uri, route, host)
<1>1. ua \in DOMAIN Phones /\ method \in Methods
  <2>1. CASE call \in Calls
    BY <2>1, CallsAssumption DEF CallsAssumption, Methods
  <2>2. CASE call \in Registrations
    BY <2>2, PhonesAssumption DEF Registrations, createRegistrationRequest, Methods, PhonesAssumption
  <2> QED BY <2>1, <2>2 DEF RoutingInv, CallInv
<1>2. /\ DOMAIN r0 = MessageFields /\ r0.type = "request" /\ r0.code = None /\ r0.method = method
      /\ r0.uri = uri /\ r0.dest = host /\ r0.from = call.from /\ r0.to = call.to /\ r0.route = route
      /\ r0.path = <<>>
  BY DEF Request, MessageFields
<1>3. MessageOK(r0)
  <2> HIDE DEF ua, method, uri, route, host
  <2> QED BY <1>1, Requested
<1>4. t = [r0 EXCEPT !.auth = auth, !.token = call.token, !.ext = call.ext]
  BY DEF Opening
<1> HIDE DEF r0
<1>5. But(t, r0, {"auth", "token", "ext"}) /\ t.auth = auth /\ t.token = call.token /\ t.ext = call.ext
  BY <1>2, <1>4 DEF But, MessageFields
<1>6. /\ DOMAIN t = MessageFields /\ t.type = "request" /\ t.code = None /\ t.method = method
      /\ t.uri = uri /\ t.dest = host /\ t.from = call.from /\ t.to = call.to /\ t.route = route
      /\ t.path = <<>> /\ t.via = r0.via /\ t.maxForwards = r0.maxForwards
  BY <1>2, <1>5 DEF But, MessageFields
<1> HIDE DEF uri, route, host, door, ua, method
<1>7. MessageOK(t)
  BY <1>2, <1>3, <1>6, SameWay
<1>8. CASE call \in Calls
  <2>1. /\ method = "INVITE" /\ call.ext \cap OwnHeaders = {} /\ call.edge \in EdgePorts
        /\ ~Throws(call.edge, Self(call.ua))
    BY <1>8, CallsAssumption DEF CallsAssumption, method
  <2>2. "x-edgeport-ref" \notin t.ext /\ "x-call-direction" \notin t.ext
    BY <1>5, <2>1 DEF OwnHeaders
  <2>3. door.host \in EdgeHosts
    <3>1. getEdgeInterface(call.edge, Self(call.ua)).host \in OwnHosts(call.edge)
      BY <2>1, EdgeInterface
    <3> QED BY <2>1, <3>1 DEF EdgeHosts, door, Door
  <2>4. Lists(t.route, 0) \/ (Lists(t.route, 1) /\ t.route[1].host = t.dest /\ call.route)
    <3>1. CASE call.route
      BY <1>6, <3>1 DEF Lists, route, host
    <3>2. CASE ~call.route
      BY <1>6, <3>2 DEF Lists, route
    <3> QED BY <3>1, <3>2
  <2>5. Placed(call, t) /\ Untouched(call, t)
    BY <1>6, <2>2, <2>3, <2>4 DEF Placed, Untouched, Dialled, host, uri
  <2>6. InviteOK(call, t, registers, failed)
    BY <1>5, <1>6, <2>5 DEF InviteOK
  <2>7. RequestOK(call, t, registers, failed)
    BY <1>6, <2>1, <2>6 DEF RequestOK
  <2>8. t.via # <<>>
    BY <1>7 DEF MessageOK
  <2> QED BY <1>5, <1>6, <1>7, <2>2, <2>7, <2>8 DEF Fit
<1>9. CASE call \in Registrations
  <2>1. method = "REGISTER" /\ call.ext = {"x-gateway-auth"}
    BY <1>9 DEF Registrations, createRegistrationRequest, createTrunkAuthentication, method
  <2>2. RequestOK(call, t, registers, failed) /\ "x-edgeport-ref" \notin t.ext
    BY <1>5, <1>6, <2>1 DEF RequestOK, OtherOK
  <2>3. t.via # <<>>
    BY <1>7 DEF MessageOK
  <2> QED BY <1>5, <1>6, <1>7, <2>2, <2>3 DEF Fit
<1> QED BY <1>8, <1>9 DEF RoutingInv, CallInv

\* A request inside the dialog.
LEMMA InDialogFits ==
    ASSUME NEW c, NEW regs, NEW miss, NEW u \in DOMAIN Phones, NEW side,
           NEW method \in {"ACK", "BYE"}, NEW auth
    PROVE  /\ method = "BYE" => Fit(c, InDialog(u, method, side), regs, miss)
           /\ method = "ACK" => Fit(c, [InDialog(u, method, side) EXCEPT !.auth = auth], regs, miss)
<1> DEFINE r0 == InDialog(u, method, side)
           t == [r0 EXCEPT !.auth = auth]
<1>1. MessageOK(r0)
  <2> DEFINE target == side.target
             routes == side.routes
             dest == NextHop(side.routes, side.target)
  <2>1. r0 = Request(u, method, target, routes, dest)
    BY DEF InDialog
  <2> HIDE DEF target, routes, dest, r0
  <2>2. method \in Methods
    BY DEF Methods
  <2> QED BY <2>1, <2>2, Requested
<1>2. /\ DOMAIN r0 = MessageFields /\ r0.type = "request" /\ r0.method = method /\ r0.ext = {}
      /\ r0.auth = None /\ r0.code = None
  BY DEF InDialog, Request, MessageFields
<1> HIDE DEF r0
<1>3. /\ DOMAIN t = MessageFields /\ t.type = "request" /\ t.method = method /\ t.ext = {}
      /\ t.code = None /\ t.via = r0.via /\ t.path = r0.path /\ t.maxForwards = r0.maxForwards
  BY <1>2 DEF MessageFields
<1> HIDE DEF t
<1>4. MessageOK(t)
  BY <1>1, <1>2, <1>3, SameWay
<1>5. method = "BYE" => Fit(c, r0, regs, miss)
  BY <1>1, <1>2 DEF Fit, RequestOK, OtherOK
<1>6. method = "ACK" => Fit(c, t, regs, miss)
  BY <1>3, <1>4 DEF Fit, RequestOK, OtherOK
<1> QED BY <1>5, <1>6 DEF r0, t

\* One new message.
LEMMA KeptByOne ==
    ASSUME RoutingInv, NEW t, wire' \subseteq wire \cup {t}, Still, lost' = lost,
           Fit(call, t, registers, failed), CalleeInv'
    PROVE  RoutingInv'
<1> DEFINE new == {t}
<1>1. wire' \subseteq wire \cup new /\ \A x \in new : Fit(call, x, registers, failed)
  OBVIOUS
<1> HIDE DEF new
<1> QED BY <1>1, KeptStill

\* No new message.
LEMMA KeptByNone ==
    ASSUME RoutingInv, wire' \subseteq wire, Still, lost' = lost, CalleeInv'
    PROVE  RoutingInv'
<1> DEFINE new == {}
<1>1. wire' \subseteq wire \cup new /\ \A x \in new : Fit(call, x, registers, failed)
  OBVIOUS
<1> HIDE DEF new
<1> QED BY <1>1, KeptStill

LEMMA UaIsPhone ==
    ASSUME RoutingInv
    PROVE  call.ua \in DOMAIN Phones
<1>1. CASE call \in Calls
  BY <1>1, CallsAssumption DEF CallsAssumption
<1>2. CASE call \in Registrations
  BY <1>2, PhonesAssumption DEF Registrations, createRegistrationRequest, PhonesAssumption
<1> QED BY <1>1, <1>2 DEF RoutingInv, CallInv

LEMMA KeptByCaller ==
    ASSUME RoutingInv, Place \/ Opened \/ Cancel \/ CallerHangsUp
    PROVE  RoutingInv'
<1>1. CASE Place
  <2> DEFINE none == None
             t == Opening(none)
  <2>1. /\ wire' \subseteq wire \cup {t} /\ Still /\ lost' = lost /\ callee' = callee
    BY <1>1 DEF Place, Still
  <2>2. none \in {None, call.secret} /\ t = Opening(none)
    OBVIOUS
  <2> HIDE DEF t, none
  <2>3. Fit(call, t, registers, failed)
    BY <2>2, Opens
  <2>4. CalleeInv'
    BY <2>1 DEF RoutingInv, CalleeInv
  <2> QED BY <2>1, <2>3, <2>4, KeptByOne
<1>2. CASE Opened
  <2>1. PICK m \in wire :
        /\ \/ /\ call.secret # None
              /\ Replace(m, {Opening(call.secret)})
           \/ \E side, auth : Replace(m, {[InDialog(call.ua, "ACK", side) EXCEPT !.auth = auth]})
           \/ Replace(m, {})
        /\ UNCHANGED <<call, loc, tx, callee, lost, failed, registers>>
    <3>1. PICK m \in wire :
            /\ IF m.code = UNAUTHORIZED /\ call.secret # None /\ ~caller.tried
               THEN /\ caller' = [caller EXCEPT !.tried = TRUE]
                    /\ Replace(m, {Opening(call.secret)})
               ELSE IF m.code = OK /\ m.method = "INVITE"
               THEN LET up == [caller EXCEPT !.state = "up", !.code = OK,
                                  !.routes = Reverse(m.recordRoute),
                                  !.target = [user |-> call.to.user, host |-> m.contact.host,
                                              tp |-> m.contact.tp]]
                    IN /\ caller' = up
                       /\ Replace(m, {[InDialog(call.ua, "ACK", up) EXCEPT !.auth =
                                          IF caller.tried THEN call.secret ELSE None]})
               ELSE /\ caller' = [caller EXCEPT !.state = "over", !.code = m.code]
                    /\ Replace(m, {})
            /\ UNCHANGED <<call, loc, tx, callee, lost, failed, registers>>
      BY <1>2 DEF Opened
    <3> QED BY <3>1
  <2>2. Still /\ lost' = lost /\ CalleeInv'
    BY <2>1 DEF Still, RoutingInv, CalleeInv
  <2>3. CASE Replace(m, {Opening(call.secret)})
    <3> DEFINE auth == call.secret
               t == Opening(auth)
    <3>1. wire' \subseteq wire \cup {t} /\ auth \in {None, call.secret} /\ t = Opening(auth)
      BY <2>3 DEF Replace
    <3> HIDE DEF auth, t
    <3>2. Fit(call, t, registers, failed)
      BY <3>1, Opens
    <3> QED BY <2>2, <3>1, <3>2, KeptByOne
  <2>4. CASE \E side, auth : Replace(m, {[InDialog(call.ua, "ACK", side) EXCEPT !.auth = auth]})
    <3>1. PICK side, auth : Replace(m, {[InDialog(call.ua, "ACK", side) EXCEPT !.auth = auth]})
      BY <2>4
    <3> DEFINE method == "ACK"
               u == call.ua
               t == [InDialog(u, method, side) EXCEPT !.auth = auth]
    <3>2. wire' \subseteq wire \cup {t} /\ method \in {"ACK", "BYE"} /\ method = "ACK" /\ u \in DOMAIN Phones
      BY <3>1, UaIsPhone DEF Replace
    <3> HIDE DEF method, u
    <3>3. Fit(call, t, registers, failed)
      BY <3>2, InDialogFits
    <3> HIDE DEF t
    <3> QED BY <2>2, <3>2, <3>3, KeptByOne
  <2>5. CASE Replace(m, {})
    <3>1. wire' \subseteq wire
      BY <2>5 DEF Replace
    <3> QED BY <2>2, <3>1, KeptByNone
  <2> QED BY <2>1, <2>3, <2>4, <2>5
<1>3. CASE Cancel
  <2> DEFINE none == None
             r0 == Opening(none)
             t == [r0 EXCEPT !.method = "CANCEL"]
  <2>1. wire' \subseteq wire \cup {t} /\ Still /\ lost' = lost /\ callee' = callee
    BY <1>3 DEF Cancel, Still
  <2>2. none = None /\ none \in {None, call.secret} /\ r0 = Opening(none)
    OBVIOUS
  <2> HIDE DEF r0, none
  <2>3. /\ DOMAIN r0 = MessageFields /\ r0.auth = None /\ "x-edgeport-ref" \notin r0.ext /\ MessageOK(r0)
    BY <2>2, Opens DEF Fit
  <2>4. /\ DOMAIN t = MessageFields /\ t.type = r0.type /\ t.code = r0.code /\ t.method = "CANCEL"
        /\ t.via = r0.via /\ t.path = r0.path /\ t.maxForwards = r0.maxForwards
        /\ t.auth = None /\ t.ext = r0.ext
    BY <2>3 DEF MessageFields
  <2> HIDE DEF t
  <2>5. MessageOK(t)
    BY <2>3, <2>4 DEF MessageOK, Methods
  <2>6. Fit(call, t, registers, failed)
    BY <2>3, <2>4, <2>5 DEF Fit, RequestOK, OtherOK
  <2>7. CalleeInv'
    BY <2>1 DEF RoutingInv, CalleeInv
  <2> QED BY <2>1, <2>6, <2>7, KeptByOne
<1>4. CASE CallerHangsUp
  <2> DEFINE method == "BYE"
             u == call.ua
             side == caller
             t == InDialog(u, method, side)
  <2>1. wire' \subseteq wire \cup {t} /\ Still /\ lost' = lost /\ callee' = callee
    BY <1>4 DEF CallerHangsUp, HangUp, Still
  <2>2. method \in {"ACK", "BYE"} /\ method = "BYE" /\ u \in DOMAIN Phones
    BY UaIsPhone
  <2> HIDE DEF method, u, side
  <2>3. Fit(call, t, registers, failed)
    BY <2>2, InDialogFits
  <2>4. CalleeInv'
    BY <2>1 DEF RoutingInv, CalleeInv
  <2> HIDE DEF t
  <2> QED BY <2>1, <2>3, <2>4, KeptByOne
<1> QED BY <1>1, <1>2, <1>3, <1>4

LEMMA KeptByCallee ==
    ASSUME RoutingInv, Ring \/ PickUp \/ Cancelled \/ Acked \/ CalleeHangsUp \/ Ended
    PROVE  RoutingInv'
<1>0. /\ DOMAIN callee = {"state", "at", "req", "routes", "target"}
      /\ IF callee.state = "idle" THEN callee.at = None
         ELSE callee.at \in DOMAIN Phones /\ MessageOK(callee.req)
  BY DEF RoutingInv, CalleeInv
<1>00. None \notin DOMAIN Phones
  BY HostsAssumption DEF HostsAssumption
<1>a. ASSUME callee.at \in DOMAIN Phones, NEW state, state # "idle", callee' = [callee EXCEPT !.state = state]
      PROVE  CalleeInv'
  <2>1. MessageOK(callee.req)
    BY <1>0, <1>00, <1>a
  <2>2. DOMAIN callee' = {"state", "at", "req", "routes", "target"} /\ callee'.state = state
        /\ callee'.at = callee.at /\ callee'.req = callee.req
    BY <1>0, <1>a
  <2> QED BY <1>a, <2>1, <2>2 DEF CalleeInv
<1>b. ASSUME callee' = callee PROVE CalleeInv'
  BY <1>b DEF RoutingInv, CalleeInv
<1>1. CASE Ring
  <2>1. PICK m \in wire :
        /\ m.dest \in DOMAIN Phones /\ Replace(m, {}) /\ UNCHANGED <<call, loc, tx, caller, lost, failed, registers>>
        /\ callee' = [state |-> "ringing", at |-> m.dest, req |-> m, routes |-> m.recordRoute,
                      target |-> [user |-> m.from.user, host |-> m.contact.host, tp |-> m.contact.tp]]
    BY <1>1 DEF Ring
  <2>2. MessageOK(m)
    BY DEF RoutingInv, WireInv
  <2>3. CalleeInv'
    BY <2>1, <2>2 DEF CalleeInv
  <2>4. wire' \subseteq wire /\ Still /\ lost' = lost
    BY <2>1 DEF Replace, Still
  <2> QED BY <2>3, <2>4, KeptByNone
<1>2. CASE PickUp
  <2> DEFINE r0 == Response(callee.req, OK)
             t == [r0 EXCEPT !.contact = Contact(callee.at)]
             m == callee.req
             ok == OK
  <2>1. /\ callee.state = "ringing" /\ callee' = [callee EXCEPT !.state = "up"]
        /\ wire' \subseteq wire \cup {t} /\ Still /\ lost' = lost
    BY <1>2 DEF PickUp, Still
  <2>2. callee.at \in DOMAIN Phones /\ MessageOK(m)
    BY <1>0, <2>1
  <2>3. ok \in ResponseType /\ r0 = Response(m, ok)
    BY DEF ResponseType
  <2> HIDE DEF m, ok, r0
  <2>4. MessageOK(r0) /\ r0.type = "response"
    BY <2>2, <2>3, Answering DEF Fit
  <2>5. /\ DOMAIN t = MessageFields /\ t.type = "response" /\ t.code = r0.code /\ t.method = r0.method
        /\ t.via = r0.via /\ t.path = r0.path /\ t.maxForwards = r0.maxForwards
    BY <2>4 DEF MessageFields, MessageOK
  <2> HIDE DEF t
  <2>6. MessageOK(t)
    <3>1. t.code \in ResponseType \cup {None}
      BY <2>4, <2>5 DEF MessageOK
    <3> QED BY <2>4, <2>5, <3>1, SameWay
  <2>7. Fit(call, t, registers, failed)
    BY <2>5, <2>6 DEF Fit
  <2>8. CalleeInv'
    BY <1>a, <2>1, <2>2
  <2> QED BY <2>1, <2>7, <2>8, KeptByOne
<1>3. CASE Cancelled
  <2>1. PICK m \in wire :
        /\ callee' = IF callee.state = "ringing" THEN [callee EXCEPT !.state = "over"] ELSE callee
        /\ Replace(m, {}) /\ UNCHANGED <<call, loc, tx, caller, lost, failed, registers>>
    BY <1>3 DEF Cancelled
  <2>2. CalleeInv'
    <3>1. callee.state = "ringing" => callee.at \in DOMAIN Phones
      BY <1>0
    <3> QED BY <1>a, <1>b, <2>1, <3>1
  <2>3. wire' \subseteq wire /\ Still /\ lost' = lost
    BY <2>1 DEF Replace, Still
  <2> QED BY <2>2, <2>3, KeptByNone
<1>4. CASE Acked
  <2>1. PICK m \in wire :
        /\ callee' = IF callee.state = "up" THEN [callee EXCEPT !.state = "talking"] ELSE callee
        /\ Replace(m, {}) /\ UNCHANGED <<call, loc, tx, caller, lost, failed, registers>>
    BY <1>4 DEF Acked
  <2>2. CalleeInv'
    <3>1. callee.state = "up" => callee.at \in DOMAIN Phones
      BY <1>0
    <3> QED BY <1>a, <1>b, <2>1, <3>1
  <2>3. wire' \subseteq wire /\ Still /\ lost' = lost
    BY <2>1 DEF Replace, Still
  <2> QED BY <2>2, <2>3, KeptByNone
<1>5. CASE CalleeHangsUp
  <2> DEFINE method == "BYE"
             u == callee.at
             side == callee
             t == InDialog(u, method, side)
  <2>1. /\ callee.state = "talking" /\ callee' = [callee EXCEPT !.state = "bye"]
        /\ wire' \subseteq wire \cup {t} /\ Still /\ lost' = lost
    BY <1>5 DEF CalleeHangsUp, HangUp, Still
  <2>2. method \in {"ACK", "BYE"} /\ method = "BYE" /\ u \in DOMAIN Phones
    BY <1>0, <2>1
  <2>3. CalleeInv'
    BY <1>a, <2>1, <2>2
  <2> HIDE DEF method, u, side
  <2>4. Fit(call, t, registers, failed)
    BY <2>2, InDialogFits
  <2> HIDE DEF t
  <2> QED BY <2>1, <2>3, <2>4, KeptByOne
<1>6. CASE Ended
  <2>1. PICK m \in wire :
        /\ m.dest \in DOMAIN Phones
        /\ callee' = IF m.dest = callee.at THEN [callee EXCEPT !.state = "over"] ELSE callee
        /\ Replace(m, IF m.type = "request" THEN {Response(m, OK)} ELSE {})
        /\ UNCHANGED <<call, loc, tx, lost, failed, registers>>
    BY <1>6 DEF Ended
  <2>2. CalleeInv'
    BY <1>a, <1>b, <2>1
  <2>3. Still /\ lost' = lost
    BY <2>1 DEF Still
  <2> DEFINE ok == OK
             t == Response(m, ok)
  <2>4. wire' \subseteq wire \cup {t} /\ ok \in ResponseType /\ t = Response(m, ok)
    BY <2>1 DEF Replace, ResponseType
  <2> HIDE DEF ok, t
  <2>5. MessageOK(m)
    BY DEF RoutingInv, WireInv
  <2>6. Fit(call, t, registers, failed)
    BY <2>4, <2>5, Answering
  <2> QED BY <2>2, <2>3, <2>4, <2>6, KeptByOne
<1> QED BY <1>1, <1>2, <1>3, <1>4, <1>5, <1>6

LEMMA InitKeeps == Init => RoutingInv
<1> SUFFICES ASSUME Init PROVE RoutingInv
  OBVIOUS
<1>1. CallInv /\ WireInv /\ RequestsInv /\ LostInv /\ RegistersInv
  BY DEF Init, CallInv, WireInv, RequestsInv, Requests, LostInv, RegistersInv
<1>2. LocInv
  BY DEF Init, LocInv
<1>3. TxInv /\ CalleeInv
  BY DEF Init, TxInv, CalleeInv
<1> QED BY <1>1, <1>2, <1>3 DEF RoutingInv

LEMMA NextKeeps == RoutingInv /\ [Next]_vars => RoutingInv'
<1> SUFFICES ASSUME RoutingInv, [Next]_vars PROVE RoutingInv'
  OBVIOUS
<1>1. CASE Edges
  BY <1>1, KeptByRequest, KeptByResponse DEF Edges
<1>2. CASE Tunnel
  BY <1>2, KeptByTunnel
<1>3. CASE Vanish
  BY <1>3, KeptByVanish
<1>4. CASE \E u \in call.phones : Register(u)
  BY <1>4, KeptByRegister
<1>5. CASE Expire
  BY <1>5, KeptByExpire
<1>6. CASE Place \/ Opened \/ Cancel \/ CallerHangsUp
  BY <1>6, KeptByCaller
<1>7. CASE Ring \/ PickUp \/ Cancelled \/ Acked \/ CalleeHangsUp \/ Ended
  BY <1>7, KeptByCallee
<1>8. CASE UNCHANGED vars
  BY <1>8 DEF vars, RoutingInv, CallInv, LocInv, WireInv, TxInv, CalleeInv, RequestsInv, Requests, LostInv,
              RegistersInv
<1> QED BY <1>1, <1>2, <1>3, <1>4, <1>5, <1>6, <1>7, <1>8 DEF Next

LEMMA Invariant == Spec => []RoutingInv
BY InitKeeps, NextKeeps, PTL DEF Spec

-----------------------------------------------------------------------------
(* Theorems *)

(***************************************************************************)
(* WellFormed: every message between phones and edgeports has a Via that   *)
(* an answer can follow and a Max-Forwards that can be written, and every  *)
(* route of Location names an edgeport and a phone.                        *)
(***************************************************************************)
THEOREM WellFormed == Spec => []TypeOK
<1>1. RoutingInv => TypeOK
  <2> SUFFICES ASSUME RoutingInv PROVE TypeOK
    OBVIOUS
  <2>1. ASSUME NEW m \in wire
        PROVE  /\ m.type \in {"request", "response"} /\ m.code \in ResponseType \cup {None}
               /\ m.via # <<>> /\ m.maxForwards \in 0 .. MaxHops
               /\ \A i \in DOMAIN m.via : m.via[i] # NoInterface
    <3>1. MessageOK(m)
      BY DEF RoutingInv, WireInv
    <3>2. m.via \in Seq(Interface)
      BY <3>1 DEF MessageOK
    <3>3. \A i \in DOMAIN m.via : m.via[i] \in Interface
      BY <3>2
    <3>4. NoInterface \notin Interface
      BY HostsAssumption DEF NoInterface, Interface, HostsAssumption
    <3> QED BY <3>1, <3>3, <3>4 DEF MessageOK
  <2>2. \A a \in Aors : \A r \in loc[a] : r.edge \in EdgePorts /\ r.host \in DOMAIN Phones
    BY PhonesApart DEF RoutingInv, LocInv, RouteOK
  <2>3. lost \subseteq {"INVITE", "ACK", "BYE", "CANCEL", "REGISTER"}
    BY DEF RoutingInv, LostInv, Methods
  <2> QED BY <2>1, <2>2, <2>3 DEF TypeOK
<1> QED BY <1>1, Invariant, PTL

(***************************************************************************)
(* WayBack: whatever the edgeports, their nets and the calls are, the Via  *)
(* headers of a message name the edgeports it came through, and under them *)
(* the phone that sent it; Max-Forwards counts them.                       *)
(***************************************************************************)
THEOREM WayBack == Spec => []ViasLeadBack
<1>1. RoutingInv => ViasLeadBack
  BY DEF RoutingInv, WireInv, MessageOK, Traced, ViasLeadBack
<1> QED BY <1>1, Invariant, PTL

(***************************************************************************)
(* NoLeak: no INVITE, CANCEL, BYE or registration that leaves the          *)
(* edgeports for a phone carries credentials, and no request the mark of   *)
(* an edgeport.                                                            *)
(***************************************************************************)
THEOREM NoLeak == Spec => []NothingLeaks
<1>1. RoutingInv => NothingLeaks
  <2> SUFFICES ASSUME RoutingInv, NEW m \in Requests, m.dest \in DOMAIN Phones, m.path # <<>>
               PROVE  /\ m.method # "ACK" => m.auth = None
                      /\ "x-edgeport-ref" \notin m.ext
    BY DEF NothingLeaks
  <2>1. RequestOK(call, m, registers, failed) /\ m.method \in Methods
    BY DEF RoutingInv, RequestsInv, WireInv, MessageOK, Requests
  <2>2. CASE m.method = "INVITE"
    <3>1. m.dest \notin EdgeHosts
      BY HostsAssumption DEF HostsAssumption
    <3>2. Out(call, m, registers, failed)
      BY <2>1, <2>2, <3>1, DestInside DEF RequestOK, InviteOK
    <3> QED BY <3>2 DEF Out
  <2>3. CASE m.method # "INVITE"
    BY <2>1, <2>3 DEF RequestOK, OtherOK, Methods
  <2> QED BY <2>2, <2>3
<1> QED BY <1>1, Invariant, PTL

\* An INVITE that went through an edgeport to a host that is not an edgeport's.
LEMMA WentOut ==
    ASSUME RoutingInv, NEW m \in Requests, m.method = "INVITE", m.dest \notin EdgeHosts
    PROVE  Out(call, m, registers, failed) /\ m.path # <<>>
<1>1. InviteOK(call, m, registers, failed)
  BY DEF RoutingInv, RequestsInv, RequestOK
<1>2. Out(call, m, registers, failed)
  BY <1>1, DestInside DEF InviteOK
<1> QED BY <1>2 DEF Out

LEMMA TrunksApart ==
    ASSUME NEW h \in TrunkHosts
    PROVE  h \notin EdgeHosts /\ h \notin DOMAIN Accounts
BY HostsAssumption DEF HostsAssumption

(***************************************************************************)
(* Toll: whoever calls, and whatever the edgeports do on the way, no       *)
(* INVITE goes out to a trunk unless the caller has a token or the secret  *)
(* of its account.                                                         *)
(***************************************************************************)
THEOREM Toll == Spec => []CallsArePaidFor
<1>1. RoutingInv => CallsArePaidFor
  BY WentOut, TrunksApart DEF CallsArePaidFor, Out, Paid
<1> QED BY <1>1, Invariant, PTL

(***************************************************************************)
(* NoDetour: an INVITE for an Agent goes out to a trunk only after a       *)
(* lookup failed.                                                          *)
(***************************************************************************)
THEOREM NoDetour == Spec => []AgentsAreNotDialledOut
<1>1. RoutingInv => AgentsAreNotDialledOut
  BY WentOut, TrunksApart DEF AgentsAreNotDialledOut, Out
<1> QED BY <1>1, Invariant, PTL

(***************************************************************************)
(* RightDoor: however registrations move between the edgeports while a     *)
(* call is on its way, the edgeport that calls the phone is one the phone  *)
(* registered through, unless the caller put a Route of its own.           *)
(***************************************************************************)
THEOREM RightDoor == Spec => []ThroughTheRightDoor
<1>1. RoutingInv => ThroughTheRightDoor
  <2> SUFFICES ASSUME RoutingInv, NEW m \in Requests, m.method = "INVITE", m.dest \in DOMAIN Accounts
               PROVE  <<m.dest, m.path[Len(m.path)]>> \in registers \/ call.route
    BY DEF ThroughTheRightDoor
  <2>1. m.dest \notin EdgeHosts /\ m.dest \notin TrunkHosts
    BY HostsAssumption, PhonesAssumption DEF HostsAssumption, PhonesAssumption
  <2>2. Out(call, m, registers, failed)
    BY <2>1, WentOut
  <2> QED BY <2>1, <2>2 DEF Out
<1> QED BY <1>1, Invariant, PTL

(***************************************************************************)
(* OwnHeadersOnly: the direction of the call is on an INVITE that reaches  *)
(* a phone exactly when one edgeport brought it there, unless the caller   *)
(* put a Route and called the phone by its host.                           *)
(***************************************************************************)
THEOREM OwnHeadersOnly == Spec => []HeadersStayAtHome
<1>1. RoutingInv => HeadersStayAtHome
  <2> SUFFICES ASSUME RoutingInv, NEW m \in Requests, m.method = "INVITE", m.dest \in DOMAIN Phones
               PROVE  ("x-call-direction" \in m.ext <=> Len(m.path) = 1) \/ CalledByHost
    BY DEF HeadersStayAtHome
  <2>1. m.dest \notin EdgeHosts
    BY HostsAssumption DEF HostsAssumption
  <2>2. Out(call, m, registers, failed)
    BY <2>1, WentOut
  <2> QED BY <2>2 DEF Out, CalledByHost
<1> QED BY <1>1, Invariant, PTL

-----------------------------------------------------------------------------
(* The Routes that are left when an edgeport took its own out *)

IsList(s) == Len(s) \in Nat /\ Lists(s, Len(s))

LEMMA LeastExists ==
    ASSUME NEW T, T \subseteq Nat, T # {}
    PROVE  \E x \in T : \A y \in T : x <= y
<1> DEFINE R == OpToRel(<, Nat)
<1>1. IsWellFoundedOn(R, Nat)
  BY NatLessThanWellFounded
<1>2. \A x, y \in Nat : y < x => <<y, x>> \in R
  BY DEF OpToRel
<1> HIDE DEF R
<1>3. PICK x \in T : \A y \in T : <<y, x>> \notin R
  BY <1>1, WFMin
<1>4. \A y \in T : ~(y < x)
  BY <1>2, <1>3
<1> QED BY <1>3, <1>4

\* Induction over a set of numbers.
LEMMA InductionUpTo ==
    ASSUME NEW S, NEW n \in Nat, 0 \in S, \A i \in 0 .. n - 1 : i \in S => i + 1 \in S
    PROVE  \A i \in 0 .. n : i \in S
<1> SUFFICES ASSUME NEW k \in 0 .. n, k \notin S PROVE FALSE
  OBVIOUS
<1> DEFINE T == {i \in 0 .. n : i \notin S}
<1>1. T \subseteq Nat /\ T # {}
  OBVIOUS
<1>2. PICK x \in T : \A y \in T : x <= y
  BY <1>1, LeastExists
<1>3. x # 0 /\ x - 1 \in 0 .. n - 1
  BY <1>2
<1>4. x - 1 \in S
  BY <1>2, <1>3
<1> QED BY <1>2, <1>3, <1>4

\* One step of Without.
Next1(hosts, list, g, i) ==
    IF i = 0 THEN <<>>
    ELSE IF list[i].host \in hosts THEN g[i - 1] ELSE Append(g[i - 1], list[i])

Clean(hosts, list, w) ==
    /\ IsList(w) /\ Len(w) <= Len(list)
    /\ \A i \in 1 .. Len(w) : w[i].host \notin hosts /\ \E j \in 1 .. Len(list) : w[i] = list[j]

LEMMA AppendClean ==
    ASSUME NEW hosts, NEW list, IsList(list), NEW w, Clean(hosts, list, w), Len(w) < Len(list),
           NEW j \in 1 .. Len(list), list[j].host \notin hosts
    PROVE  Clean(hosts, list, Append(w, list[j]))
<1> DEFINE x == list[j]
           t == Append(w, x)
<1>1. Len(w) \in Nat /\ w = [i \in 1 .. Len(w) |-> w[i]]
  BY DEF Clean, IsList, Lists
<1> DEFINE S == {w[i] : i \in 1 .. Len(w)} \cup {x}
<1>2. w \in Seq(S)
  BY <1>1, ListIsSeq DEF Clean, IsList
<1>3. t \in Seq(S) /\ Len(t) = Len(w) + 1 /\ (\A i \in 1 .. Len(w) : t[i] = w[i]) /\ t[Len(w) + 1] = x
  <2> HIDE DEF S, x
  <2>1. x \in S
    BY DEF S
  <2> QED BY <1>1, <1>2, <2>1
<1>4. Lists(t, Len(t))
  BY <1>3, SeqIsList
<1>5. \A i \in 1 .. Len(t) : t[i].host \notin hosts /\ \E k \in 1 .. Len(list) : t[i] = list[k]
  <2> TAKE i \in 1 .. Len(t)
  <2>1. CASE i \in 1 .. Len(w)
    BY <1>3, <2>1 DEF Clean
  <2>2. CASE i = Len(w) + 1
    <3>1. t[i] = x
      BY <1>3, <2>2
    <3> HIDE DEF t
    <3> QED BY <3>1
  <2> QED BY <1>1, <1>3, <2>1, <2>2
<1>6. Len(list) \in Nat
  BY DEF IsList
<1>7. IsList(t)
  BY <1>1, <1>3, <1>4 DEF IsList
<1> QED BY <1>1, <1>3, <1>5, <1>6, <1>7 DEF Clean

\* What Without leaves of a list of any length.
LEMMA WithoutClean ==
    ASSUME NEW hosts, NEW list, IsList(list)
    PROVE  Clean(hosts, list, Without(hosts, list))
<1> DEFINE n == Len(list)
           Rec(g, k) == \A i \in 0 .. k : g[i] = Next1(hosts, list, g, i)
           Good(g, k) == DOMAIN g = 0 .. k /\ Rec(g, k) /\ g = [i \in 0 .. k |-> g[i]]
           S == {k \in 0 .. n : \E g : Good(g, k)}
<1>1. n \in Nat
  BY DEF IsList
<1>2. 0 \in S
  <2> DEFINE g == [i \in 0 .. 0 |-> <<>>]
  <2>1. Good(g, 0)
    BY DEF Next1
  <2> QED BY <1>1, <2>1
<1>3. ASSUME NEW k \in 0 .. n - 1, k \in S  PROVE k + 1 \in S
  <2>1. PICK g : Good(g, k)
    BY <1>3
  <2> DEFINE x == Next1(hosts, list, g, k + 1)
             h == [i \in 0 .. k + 1 |-> IF i <= k THEN g[i] ELSE x]
  <2>2. \A i \in 0 .. k : h[i] = g[i]
    BY <1>1
  <2>3. h[k + 1] = x
    BY <1>1
  <2> HIDE DEF h
  <2>4. \A i \in 0 .. k + 1 : Next1(hosts, list, h, i) = Next1(hosts, list, g, i)
    BY <1>1, <2>2 DEF Next1
  <2>5. Rec(h, k + 1)
    BY <1>1, <2>1, <2>2, <2>3, <2>4
  <2>6. DOMAIN h = 0 .. k + 1 /\ h = [i \in 0 .. k + 1 |-> h[i]]
    BY DEF h
  <2>7. Good(h, k + 1)
    BY <2>5, <2>6
  <2> QED BY <1>1, <2>7
<1>4. n \in S
  <2> HIDE DEF S, n
  <2>1. \A i \in 0 .. n : i \in S
    BY <1>1, <1>2, <1>3, InductionUpTo
  <2> QED BY <1>1, <2>1
<1> DEFINE kept == CHOOSE g : g = [i \in 0 .. n |-> IF i = 0 THEN <<>>
                         ELSE IF list[i].host \in hosts THEN g[i - 1] ELSE Append(g[i - 1], list[i])]
<1>5. Without(hosts, list) = kept[n]
  BY DEF Without
<1>6. \E g : g = [i \in 0 .. n |-> IF i = 0 THEN <<>>
                    ELSE IF list[i].host \in hosts THEN g[i - 1] ELSE Append(g[i - 1], list[i])]
  <2>1. PICK g : Good(g, n)
    BY <1>4
  <2>2. \A i \in 0 .. n : g[i] = IF i = 0 THEN <<>>
                    ELSE IF list[i].host \in hosts THEN g[i - 1] ELSE Append(g[i - 1], list[i])
    BY <2>1 DEF Next1
  <2>3. g = [i \in 0 .. n |-> g[i]]
    BY <2>1
  <2> HIDE DEF n, Good
  <2>4. g = [i \in 0 .. n |-> IF i = 0 THEN <<>>
                    ELSE IF list[i].host \in hosts THEN g[i - 1] ELSE Append(g[i - 1], list[i])]
    BY <2>2, <2>3
  <2> QED BY <2>4
<1>7. \A i \in 0 .. n : kept[i] = Next1(hosts, list, kept, i)
  <2>1. kept = [i \in 0 .. n |-> IF i = 0 THEN <<>>
                  ELSE IF list[i].host \in hosts THEN kept[i - 1] ELSE Append(kept[i - 1], list[i])]
    BY <1>6
  <2> HIDE DEF kept
  <2> QED BY <2>1 DEF Next1
<1> HIDE DEF kept
<1> DEFINE R == {k \in 0 .. n : Clean(hosts, list, kept[k]) /\ Len(kept[k]) <= k}
<1>8. 0 \in R
  <2>1. kept[0] = <<>>
    BY <1>1, <1>7 DEF Next1
  <2>2. Lists(<<>>, 0) /\ Len(<<>>) = 0
    BY EmptyList
  <2>3. Clean(hosts, list, kept[0]) /\ Len(kept[0]) <= 0
    BY <1>1, <2>1, <2>2 DEF Clean, IsList
  <2> QED BY <1>1, <2>3
<1>9. ASSUME NEW k \in 0 .. n - 1, k \in R  PROVE k + 1 \in R
  <2>1. kept[k + 1] = IF list[k + 1].host \in hosts THEN kept[k] ELSE Append(kept[k], list[k + 1])
    BY <1>1, <1>7 DEF Next1
  <2>2. Clean(hosts, list, kept[k]) /\ Len(kept[k]) <= k /\ Len(kept[k]) \in Nat
    BY <1>9 DEF Clean, IsList
  <2>3. k + 1 \in 1 .. n /\ k \in Nat /\ k + 1 \in 0 .. n
    BY <1>1
  <2>4. CASE list[k + 1].host \in hosts
    BY <2>1, <2>2, <2>3, <2>4
  <2>5. CASE list[k + 1].host \notin hosts
    <3> DEFINE w == kept[k]
               X == {w[i] : i \in 1 .. Len(w)} \cup {list[k + 1]}
    <3>1. Clean(hosts, list, w) /\ Len(w) <= k /\ Len(w) \in Nat
      BY <2>2
    <3> HIDE DEF w
    <3>2. Len(w) < Len(list) /\ k + 1 \in 1 .. Len(list)
      BY <1>1, <2>3, <3>1
    <3>3. Clean(hosts, list, Append(w, list[k + 1]))
      BY <2>5, <3>1, <3>2, AppendClean
    <3>4. w \in Seq(X)
      <4>1. \A i \in 1 .. Len(w) : w[i] \in X
        OBVIOUS
      <4> HIDE DEF X
      <4> QED BY <3>1, <4>1, ListIsSeq DEF Clean, IsList
    <3>5. list[k + 1] \in X
      OBVIOUS
    <3> HIDE DEF X
    <3>6. Len(Append(w, list[k + 1])) = Len(w) + 1
      BY <3>4, <3>5
    <3>7. kept[k + 1] = Append(w, list[k + 1])
      BY <2>1, <2>5 DEF w
    <3>8. Clean(hosts, list, kept[k + 1]) /\ Len(kept[k + 1]) <= k + 1
      BY <3>1, <3>3, <3>6, <3>7, <2>3
    <3> QED BY <2>3, <3>8
  <2> QED BY <2>4, <2>5
<1>10. n \in R
  <2> HIDE DEF R, n
  <2>1. \A i \in 0 .. n : i \in R
    BY <1>1, <1>8, <1>9, InductionUpTo
  <2> QED BY <1>1, <2>1
<1> QED BY <1>5, <1>10

-----------------------------------------------------------------------------
(* Where a request goes next, against where it has been.  Nothing in a     *)
(* message keeps it from coming back to an edgeport: an INVITE does not    *)
(* because Connect routes it once and hands it over once, an ACK or a BYE  *)
(* because each edgeport takes its own hosts out of the Routes, all of     *)
(* them.  So the invariant speaks of the Routes that are left, of the      *)
(* Record-Route and the Contact they are made from, and of the INVITE an   *)
(* edgeport keeps to cancel it.                                            *)

Distinct(p) == IsFiniteSet(Range(p)) /\ Cardinality(Range(p)) = Len(p)

\* At the door of the first edgeport, between two, or away from the second.
Straight(c, m) ==
    \/ m.path = <<>> /\ m.dest \in OwnHosts(c.edge)
    \/ m.path = <<c.edge>> /\ m.dest \notin OwnHosts(c.edge)
    \/ \E f \in EdgePorts \ {c.edge} : m.path = <<c.edge, f>> /\ m.dest \notin EdgeHosts

\* The request that opens the call, and its answers.
OpeningForm(c, m) ==
    /\ m.method = c.method /\ m.via[Len(m.via)].host = c.ua /\ IsList(m.recordRoute)
    /\ m.type = "response" /\ m.code = OK => m.contact.host \notin EdgeHosts
    /\ m.type = "request" => m.contact = Contact(c.ua) \/ IsWeb(c.ua)
    /\ m.type = "request" /\ m.method = "INVITE" => c.route \/ Straight(c, m)

\* An ACK or a BYE: no edgeport it came through is on the Routes that are left.
DialogForm(c, at, m) ==
    /\ IsList(m.route)
    /\ \A e \in Range(m.path) : \A i \in 1 .. Len(m.route) : m.route[i].host \notin OwnHosts(e)
    /\ m.dest \in EdgeHosts => m.dest = NextHop(m.route, m.uri)
    /\ IF m.uri.host \in EdgeHosts
       THEN m.method = "BYE" /\ IsWeb(c.ua) /\ m.via[Len(m.via)].host = at
       ELSE Distinct(m.path)

MessageForm(c, at, m) ==
    /\ m.type = "response" => m.method \in {"INVITE", "REGISTER", "BYE"} /\ m.dest = m.via[1].host
    /\ m.method \in {"INVITE", "REGISTER"} => OpeningForm(c, m)
    /\ m.type = "request" /\ m.method \in {"ACK", "BYE"} => DialogForm(c, at, m)
    /\ m.method = "CANCEL" => c.route \/ Distinct(m.path)

TxForm == \A e \in EdgePorts : tx[e] # None => OpeningForm(call, tx[e]) /\ tx[e].path[Len(tx[e].path)] = e

CallerForm ==
    /\ DOMAIN caller = {"state", "code", "tried", "cancels", "routes", "target"}
    /\ caller.state = "up" => IsList(caller.routes) /\ caller.target.host \notin EdgeHosts

CalleeForm ==
    callee.state # "idle" =>
        /\ callee.req.type = "request" /\ callee.req.method \in {"INVITE", "REGISTER"}
        /\ OpeningForm(call, callee.req)
        /\ IsList(callee.routes) /\ (callee.target.host \notin EdgeHosts \/ IsWeb(call.ua))

FormInv ==
    /\ \A m \in wire : MessageForm(call, callee.at, m)
    /\ TxForm /\ CallerForm /\ CalleeForm

-----------------------------------------------------------------------------
(* Lists of any length *)

LEMMA Joined ==
    ASSUME NEW a, NEW b, IsList(a), IsList(b)
    PROVE  /\ IsList(a \o b)
           /\ \A i \in 1 .. Len(a \o b) : \/ \E j \in 1 .. Len(a) : (a \o b)[i] = a[j]
                                          \/ \E j \in 1 .. Len(b) : (a \o b)[i] = b[j]
<1> DEFINE S == {a[i] : i \in 1 .. Len(a)} \cup {b[i] : i \in 1 .. Len(b)}
<1>1. (\A i \in 1 .. Len(a) : a[i] \in S) /\ (\A i \in 1 .. Len(b) : b[i] \in S)
  OBVIOUS
<1> HIDE DEF S
<1>2. a \in Seq(S) /\ b \in Seq(S)
  BY <1>1, ListIsSeq DEF IsList
<1>3. a \o b \in Seq(S) /\ Len(a \o b) = Len(a) + Len(b)
  BY <1>2
<1>4. IsList(a \o b)
  <2> DEFINE s == a \o b
  <2>1. s \in Seq(S) /\ Len(s) \in Nat
    BY <1>3
  <2> HIDE DEF s
  <2>2. IsList(s)
    BY <2>1, SeqIsList DEF IsList
  <2> QED BY <2>2 DEF s
<1>5. ASSUME NEW i \in 1 .. Len(a \o b)
      PROVE  \/ \E j \in 1 .. Len(a) : (a \o b)[i] = a[j]
             \/ \E j \in 1 .. Len(b) : (a \o b)[i] = b[j]
  <2>1. Len(a) \in Nat /\ Len(b) \in Nat
    BY DEF IsList
  <2>2. CASE i <= Len(a)
    <3>1. (a \o b)[i] = a[i] /\ i \in 1 .. Len(a)
      BY <1>2, <1>3, <2>1, <2>2
    <3> QED BY <3>1
  <2>3. CASE i > Len(a)
    <3>1. (a \o b)[i] = b[i - Len(a)] /\ i - Len(a) \in 1 .. Len(b)
      BY <1>2, <1>3, <2>1, <2>3
    <3> QED BY <3>1
  <2> QED BY <2>1, <2>2, <2>3
<1> QED BY <1>4, <1>5

LEMMA OneOrTwo ==
    ASSUME NEW a, NEW b
    PROVE  /\ IsList(<<>>) /\ Len(<<>>) = 0
           /\ IsList(<<a>>) /\ Len(<<a>>) = 1 /\ <<a>>[1] = a
           /\ IsList(<<a, b>>) /\ Len(<<a, b>>) = 2 /\ <<a, b>>[1] = a /\ <<a, b>>[2] = b
<1>1. <<>> \in Seq({a, b}) /\ <<a>> \in Seq({a, b}) /\ <<a, b>> \in Seq({a, b})
  OBVIOUS
<1>2. Len(<<>>) = 0 /\ Len(<<a>>) = 1 /\ Len(<<a, b>>) = 2
  OBVIOUS
<1>3. Lists(<<>>, 0) /\ Lists(<<a>>, 1) /\ Lists(<<a, b>>, 2)
  BY <1>1, <1>2, SeqIsList
<1> QED BY <1>2, <1>3 DEF IsList

LEMMA Reversed ==
    ASSUME NEW s, IsList(s)
    PROVE  /\ IsList(Reverse(s)) /\ Len(Reverse(s)) = Len(s)
           /\ \A i \in 1 .. Len(s) : \E j \in 1 .. Len(s) : Reverse(s)[i] = s[j]
<1> DEFINE n == Len(s)
<1>1. n \in Nat /\ Lists(s, n)
  BY DEF IsList
<1>2. Lists(Reverse(s), n) /\ \A i \in 1 .. n : Reverse(s)[i] = s[n - i + 1]
  <2> HIDE DEF n
  <2> QED BY <1>1, ReverseList
<1>3. \A i \in 1 .. n : n - i + 1 \in 1 .. n
  BY <1>1
<1>4. Len(Reverse(s)) = n
  BY <1>2 DEF Lists
<1> QED BY <1>1, <1>2, <1>3, <1>4 DEF IsList

\* The oldest Via stays.
LEMMA LastWith ==
    ASSUME NEW S, NEW via \in Seq(S), via # <<>>, NEW x, NEW t, t = With(x, via)
    PROVE  t[Len(t)] = via[Len(via)]
<1> DEFINE n == Len(via)
<1>1. n \in Nat /\ n >= 1 /\ Lists(via, n)
  BY SeqIsList
<1>2. Lists(t, n + 1) /\ \A i \in 1 .. n : t[i + 1] = via[i]
  BY <1>1, WithList
<1>3. Len(t) = n + 1 /\ n \in 1 .. n
  BY <1>1, <1>2 DEF Lists
<1> QED BY <1>2, <1>3

LEMMA LastTail ==
    ASSUME NEW S, NEW via \in Seq(S), via # <<>>, NEW t, t = Tail(via), t # <<>>
    PROVE  t[Len(t)] = via[Len(via)]
OBVIOUS

\* One edgeport more, and not one of those before.
LEMMA DistinctMore ==
    ASSUME NEW S, NEW p \in Seq(S), NEW e \in S, NEW t, t = Append(p, e)
    PROVE  /\ Range(t) = Range(p) \cup {e}
           /\ Distinct(p) /\ e \notin Range(p) => Distinct(t)
<1>1. DOMAIN p = 1 .. Len(p) /\ DOMAIN t = 1 .. Len(p) + 1 /\ Len(t) = Len(p) + 1 /\ Len(p) \in Nat
      /\ (\A i \in 1 .. Len(p) : t[i] = p[i]) /\ t[Len(p) + 1] = e
  OBVIOUS
<1>2. Range(t) = Range(p) \cup {e}
  BY <1>1 DEF Range
<1>3. ASSUME Distinct(p), e \notin Range(p)  PROVE Distinct(t)
  BY <1>1, <1>2, <1>3, FS_AddElement DEF Distinct
<1> QED BY <1>2, <1>3

LEMMA DistinctFew ==
    ASSUME NEW e \in EdgePorts
    PROVE  /\ Distinct(<<>>) /\ Range(<<>>) = {} /\ Distinct(<<e>>)
           /\ \A f \in EdgePorts \ {e} : Distinct(<<e, f>>)
<1>1. Range(<<>>) = {} /\ <<>> \in Seq(EdgePorts) /\ Len(<<>>) = 0
  BY DEF Range
<1>2. Distinct(<<>>)
  BY <1>1, FS_EmptySet DEF Distinct
<1>3. <<e>> = Append(<<>>, e) /\ <<e>> \in Seq(EdgePorts)
  OBVIOUS
<1>4. Distinct(<<e>>) /\ Range(<<e>>) = {e}
  <2> DEFINE p == <<>>
             t == <<e>>
  <2>1. p \in Seq(EdgePorts) /\ t = Append(p, e) /\ Distinct(p) /\ Range(p) = {}
    BY <1>1, <1>2, <1>3
  <2> HIDE DEF p, t
  <2>2. Range(t) = Range(p) \cup {e} /\ Distinct(t)
    BY <2>1, DistinctMore
  <2> QED BY <2>1, <2>2 DEF t
<1>5. ASSUME NEW f \in EdgePorts \ {e}  PROVE Distinct(<<e, f>>)
  <2>1. <<e, f>> = Append(<<e>>, f)
    OBVIOUS
  <2> QED BY <1>3, <1>4, <2>1, DistinctMore
<1> QED BY <1>1, <1>2, <1>4, <1>5

-----------------------------------------------------------------------------
(* What an edgeport does to the Record-Route, the Contact and the answers *)

LEMMA RecordAdded ==
    ASSUME NEW route, NEW sender, NEW req, DOMAIN req = MessageFields, IsList(req.recordRoute),
           NEW t, t = addSelfRecordRoute(route, sender, req)
    PROVE  IsList(t.recordRoute)
<1> DEFINE origin == getEdgeInterface(req.edge, sender)
           target == getEdgeInterface(req.edge, [host |-> route.advertised, tp |-> route.tp])
           own == IF origin # target THEN <<target, origin>> ELSE <<origin>>
<1>1. t.recordRoute = own \o req.recordRoute
  BY DEF addSelfRecordRoute, MessageFields
<1>2. IsList(own)
  <2> HIDE DEF origin, target
  <2> QED BY OneOrTwo
<1> QED BY <1>1, <1>2, Joined

LEMMA TailoredRecord ==
    ASSUME NEW route, NEW r0, DOMAIN r0 = MessageFields, IsList(r0.recordRoute)
    PROVE  LET t == tailor(route, r0)
           IN /\ IsList(t.recordRoute)
              /\ t.contact = r0.contact \/ r0.contact.host = Invalid
<1> DEFINE r1 == removeXEdgePortRef(removeSelfRoutes(removeAuthorization(decreaseMaxForwards(r0))))
           r2 == addSelfVia(route, fixRequestURI(route, fixInvalidContact(r1)))
           r3 == applyXHeaders(route, r2)
           r4 == addSelfRecordRoute(route, Sender(r0), r3)
           t == tailor(route, r0)
<1>1. But(r1, r0, {"maxForwards", "auth", "route", "ext"})
  BY DEF MessageFields, But, removeXEdgePortRef, removeSelfRoutes, removeAuthorization, decreaseMaxForwards
<1>2. /\ But(r2, r1, {"contact", "uri", "via"})
      /\ r2.contact = r1.contact \/ r1.contact.host = Invalid
  BY <1>1 DEF MessageFields, But, addSelfVia, fixRequestURI, fixInvalidContact
<1>3. But(r3, r2, {"ext"})
  BY <1>1, <1>2 DEF MessageFields, But, applyXHeaders
<1>4. DOMAIN r1 = MessageFields /\ DOMAIN r2 = MessageFields /\ DOMAIN r3 = MessageFields
  BY <1>1, <1>2, <1>3 DEF But
<1>5. r3.recordRoute = r0.recordRoute /\ r3.contact = r2.contact /\ r1.contact = r0.contact
  <2> HIDE DEF r1, r2, r3
  <2> QED BY <1>1, <1>2, <1>3, <1>4 DEF But, MessageFields
<1>6. tailor(route, r0) = addRouteToNextHop(route, r4)
  BY DEF tailor
<1> HIDE DEF r1, r2, r3
<1>7. IsList(r4.recordRoute)
  BY <1>4, <1>5, RecordAdded
<1>8. DOMAIN r4 = MessageFields /\ r4.contact = r3.contact
  BY <1>4 DEF addSelfRecordRoute, MessageFields
<1> HIDE DEF r4
<1>9. t.recordRoute = r4.recordRoute /\ t.contact = r4.contact
  BY <1>6, <1>8 DEF addRouteToNextHop, MessageFields
<1> QED BY <1>2, <1>5, <1>7, <1>8, <1>9

LEMMA HandingRecord ==
    ASSUME NEW route, NEW r0, DOMAIN r0 = MessageFields, IsList(r0.recordRoute)
    PROVE  IsList(toPeerEdgePort(route, r0).recordRoute)
<1> DEFINE r1 == addSelfVia(route, r0)
           r2 == addSelfRecordRoute(route, Sender(r0), r1)
           r3 == addRouteToNextHop(route, addRouteToPeerEdgePort(route, r2))
<1>1. DOMAIN r1 = MessageFields /\ r1.recordRoute = r0.recordRoute
  BY DEF addSelfVia, MessageFields
<1>2. toPeerEdgePort(route, r0) = decreaseMaxForwards(addXEdgePortRef(r3))
  BY DEF toPeerEdgePort
<1> HIDE DEF r1
<1>3. IsList(r2.recordRoute)
  BY <1>1, RecordAdded
<1>4. DOMAIN r2 = MessageFields
  BY <1>1 DEF addSelfRecordRoute, MessageFields
<1> HIDE DEF r2
<1>5. DOMAIN r3 = MessageFields /\ r3.recordRoute = r2.recordRoute
  BY <1>4 DEF addRouteToNextHop, addRouteToPeerEdgePort, MessageFields
<1> HIDE DEF r3
<1>6. decreaseMaxForwards(addXEdgePortRef(r3)).recordRoute = r3.recordRoute
  BY <1>5 DEF decreaseMaxForwards, addXEdgePortRef, MessageFields
<1> QED BY <1>2, <1>3, <1>5, <1>6

\* What Connect refuses a request with.
Refusals == {UNAUTHORIZED, UNCHALLENGED, FORBIDDEN, TEMPORARILY_UNAVAILABLE, SERVER_INTERNAL_ERROR}

LEMMA RefusalCodes == Refusals \subseteq ResponseType /\ OK \notin Refusals /\ TERMINATED \notin Refusals
BY DEF Refusals, ResponseType, OK, TERMINATED, UNAUTHORIZED, UNCHALLENGED, FORBIDDEN,
       TEMPORARILY_UNAVAILABLE, SERVER_INTERNAL_ERROR

LEMMA Refused ==
    ASSUME NEW req, NEW src, NEW dst, NEW direction
    PROVE  checkAccess(req, src, dst, direction) \in Refusals \cup {None}
<1>1. \A secret : Challenge(req, secret) \in {None, UNAUTHORIZED}
  BY DEF Challenge
<1>2. checkAgentOrPeerAccess(req, src) = Challenge(req, SecretOf(src))
  BY DEF checkAgentOrPeerAccess
<1>3. checkAccessFromPSTN(req, dst) \in {None, UNAUTHORIZED, FORBIDDEN, UNCHALLENGED}
  <2> DEFINE trunk == findBy(Trunks, "inbound", req.uri.host)
             t == CHOOSE t \in trunk : TRUE
  <2>1. checkAccessFromPSTN(req, dst) =
          CASE trunk = {} -> FORBIDDEN
            [] trunk # {} /\ Numbers[dst.user].trunk # t -> FORBIDDEN
            [] OTHER ->
                 IF Trunks[t].allow # None /\ Sender(req).host \notin Trunks[t].allow THEN UNCHALLENGED
                 ELSE IF Trunks[t].secret # None THEN Challenge(req, Trunks[t].secret)
                 ELSE None
    BY DEF checkAccessFromPSTN
  <2> HIDE DEF trunk, t
  <2> QED BY <1>1, <2>1
<1> QED BY <1>1, <1>2, <1>3 DEF checkAccess, Refusals

LEMMA RouterRefuses ==
    ASSUME NEW req, req.method \in {"INVITE", "CANCEL"}, NEW pick, NEW deaf
    PROVE  LET result == router(req, pick, deaf)
           IN \/ result.type = "response" /\ result.code \in Refusals
              \/ result.type = "route"
<1> DEFINE src == CallerOf(req, deaf)
           dst == CalleeOf(req, deaf)
           direction == getRoutingDirection(src, dst)
           denied == IF req.token # None
                     THEN IF "INVITE" \in Tokens[req.token].allows THEN None ELSE FORBIDDEN
                     ELSE IF req.method = "INVITE"
                     THEN checkAccess(req, src, dst, direction) ELSE None
           domain == IF req.token # None THEN Tokens[req.token].domain ELSE Agents[src.user].domain
           route == CASE direction = "AGENT_TO_AGENT" -> agentToAgent(req, pick)
                      [] direction = "AGENT_TO_PEER" -> agentToPeer(dst, pick)
                      [] direction = "AGENT_TO_PSTN" -> agentToPSTN(req, domain)
                      [] direction = "FROM_PSTN"     -> fromPSTN(dst, pick)
                      [] direction = "PEER_TO_PSTN"  -> peerToPSTN(req)
                      [] OTHER -> Broken
           mark == [route EXCEPT !.headers = @ \cup {"x-call-direction"}]
<1>1. router(req, pick, deaf) =
        CASE denied # None -> Answer(denied)
          [] denied = None /\ route = None -> Answer(TEMPORARILY_UNAVAILABLE)
          [] denied = None /\ route = Broken -> Answer(SERVER_INTERNAL_ERROR)
          [] OTHER -> [type |-> "route", direction |-> direction, route |-> mark]
  BY DEF router
<1>2. denied \in Refusals \cup {None}
  <2>1. FORBIDDEN \in Refusals
    BY DEF Refusals
  <2> HIDE DEF direction, src, dst
  <2> QED BY <2>1, Refused
<1> HIDE DEF denied, route, direction, mark
<1>3. TEMPORARILY_UNAVAILABLE \in Refusals /\ SERVER_INTERNAL_ERROR \in Refusals
  BY DEF Refusals
<1> QED BY <1>1, <1>2, <1>3 DEF Answer

\* The way of an INVITE through Connect: refused, sent out or handed over.
LEMMA InviteWay ==
    ASSUME NEW c, NEW m, NEW e, Taking(c, m, e), NEW regs, Registered(regs),
           Placed(c, m) \/ Handed(c, m, regs) \/ Back(c, m),
           NEW pick, \A a \in Asked(c) : pick[a] = None \/ RouteOK(pick[a], regs),
           NEW deaf, NEW miss \in BOOLEAN, deaf # {} => miss,
           NEW r0, r0 = [m EXCEPT !.edge = e],
           NEW out, out = connectProcessor(r0, pick, deaf)
    PROVE  \/ out.type = "response" /\ out.code \in Refusals
           \/ /\ out.type = "request"
              /\ \E route :
                    \/ out.request = tailor(route, r0) /\ "x-edgeport-ref" \notin route.headers
                    \/ /\ out.request = toPeerEdgePort(route, r0) /\ ~Handed(c, m, regs)
                       /\ route.edge \in EdgePorts \ {e}
                       /\ ~Throws(route.edge, [host |-> route.host, tp |-> route.tp])
<1>1. /\ r0.edge = e /\ r0.method = "INVITE" /\ r0.token = c.token /\ r0.from = c.from /\ r0.to = c.to
      /\ r0.uri = Dialled(c) /\ r0.auth \in {None, c.secret} /\ r0.ext = m.ext
  BY Taken DEF But, MessageFields, Taking, Untouched
<1>2. out = handleRequest(r0, pick, deaf)
  BY <1>1 DEF connectProcessor
<1>3. SERVER_INTERNAL_ERROR \in Refusals
  BY DEF Refusals
<1>4. CASE Handed(c, m, regs)
  <2> DEFINE route == createRouteFromLastMessage(r0)
             req == tailor(route, r0)
  <2>1. out = Forward(r0, route)
    <3>1. getHeaderValue(r0, "x-edgeport-ref")
      BY <1>1, <1>4 DEF Handed, getHeaderValue
    <3> HIDE DEF route
    <3> QED BY <1>2, <3>1 DEF handleRequest, route
  <2>2. route.edge = e /\ "x-edgeport-ref" \notin route.headers
    BY <1>1 DEF createRouteFromLastMessage
  <2> HIDE DEF route
  <2>3. out = Answer(SERVER_INTERNAL_ERROR) \/ out = Send(req)
    <3> HIDE DEF req
    <3> QED BY <1>1, <2>1, <2>2, Forwarded DEF req
  <2>4. CASE out = Answer(SERVER_INTERNAL_ERROR)
    BY <1>3, <2>4 DEF Answer
  <2>5. CASE out = Send(req)
    <3>1. out.type = "request" /\ out.request = tailor(route, r0)
      BY <2>5 DEF Send
    <3> QED BY <2>2, <3>1
  <2> QED BY <2>3, <2>4, <2>5
<1>5. CASE ~Handed(c, m, regs)
  <2> DEFINE result == router(r0, pick, deaf)
  <2>1. out = IF result.type = "response" THEN result ELSE Forward(r0, result.route)
    <3>1. ~getHeaderValue(r0, "x-edgeport-ref")
      BY <1>1, <1>5 DEF Placed, Back, getHeaderValue
    <3> QED BY <1>2, <3>1 DEF handleRequest
  <2>2. result.type = "route" => RouteChosen(c, result.route, e, regs, miss)
    <3>1. /\ \A a \in Asked(c) : pick[a] = None \/ RouteOK(pick[a], regs)
          /\ miss \in BOOLEAN /\ (deaf # {} => miss)
      OBVIOUS
    <3>2. \/ result.type = "response" /\ result.code \in ResponseType
          \/ result.type = "route" /\ RouteChosen(c, result.route, e, regs, miss)
      BY ONLY <1>1, <3>1, Routed, ZenonT(60)
    <3>3. "response" # "route"
      OBVIOUS
    <3> HIDE DEF result
    <3> QED BY <3>2, <3>3
  <2>3. (result.type = "response" /\ result.code \in Refusals) \/ result.type = "route"
    <3>1. r0.method \in {"INVITE", "CANCEL"}
      BY <1>1
    <3> QED BY ONLY <3>1, RouterRefuses
  <2> HIDE DEF result
  <2>4. CASE result.type = "response" /\ result.code \in Refusals
    BY <2>1, <2>4
  <2>5. CASE result.type = "route"
    <3> DEFINE route == result.route
               end == [host |-> route.host, tp |-> route.tp]
               here == tailor(route, r0)
               there == toPeerEdgePort(route, r0)
    <3>1. \/ out = Answer(SERVER_INTERNAL_ERROR)
          \/ route.edge # e /\ ~Throws(route.edge, end) /\ out = Send(there)
          \/ out = Send(here)
      <4>1. out = Forward(r0, route)
        BY <2>1, <2>5
      <4> HIDE DEF route, here, there
      <4> QED BY <1>1, <4>1, Forwarded DEF here, there
    <3>2. RouteChosen(c, route, e, regs, miss)
      BY <2>2, <2>5
    <3> HIDE DEF route
    <3>3. CASE out = Answer(SERVER_INTERNAL_ERROR)
      BY <1>3, <3>3 DEF Answer
    <3>4. CASE route.edge # e /\ ~Throws(route.edge, end) /\ out = Send(there)
      <4>1. out.type = "request" /\ out.request = there
        BY <3>4 DEF Send
      <4>2. route.edge \in EdgePorts \ {e}
        BY <3>2, <3>4 DEF RouteChosen, Leaving, Taking
      <4> QED BY <1>5, <3>4, <4>1, <4>2
    <3>5. CASE out = Send(here)
      <4>1. out.type = "request" /\ out.request = here
        BY <3>5 DEF Send
      <4>2. "x-edgeport-ref" \notin route.headers
        BY <3>2 DEF RouteChosen
      <4> QED BY <4>1, <4>2
    <3> QED BY <3>1, <3>3, <3>4, <3>5
  <2> QED BY <2>3, <2>4, <2>5
<1> QED BY <1>4, <1>5

\* Who can be the contact of a caller.
LEMMA Contacts ==
    ASSUME NEW u \in DOMAIN Phones
    PROVE  /\ Contact(u).host \notin EdgeHosts
           /\ Contact(u).host = Invalid => IsWeb(u)
<1>1. Invalid \notin EdgeHosts /\ u \notin EdgeHosts /\ u # Invalid
  BY HostsAssumption DEF HostsAssumption
<1>2. Contact(u).host = IF Phones[u].web THEN Invalid ELSE u
  BY DEF Contact, Self
<1> QED BY <1>1, <1>2 DEF IsWeb

LEMMA OnePlusOne ==
    ASSUME NEW S, NEW a \in S, NEW b \in S
    PROVE  Append(<<a>>, b) = <<a, b>>
<1>1. <<a, b>> = Append(<<a>>, b)
  OBVIOUS
<1> QED BY <1>1

\* An INVITE that an edgeport sent on is as it should be.
LEMMA InviteOnward ==
    ASSUME NEW c, c.ua \in DOMAIN Phones, NEW m, NEW e, Taking(c, m, e), NEW regs, NEW miss,
           Placed(c, m) \/ Handed(c, m, regs) \/ Back(c, m), OpeningForm(c, m),
           ~c.route => c.edge \in EdgePorts,
           NEW r0, r0 = [m EXCEPT !.edge = e], NEW req, NEW route,
           \/ req = tailor(route, r0) /\ "x-edgeport-ref" \notin route.headers
           \/ /\ req = toPeerEdgePort(route, r0) /\ ~Handed(c, m, regs)
              /\ route.edge \in EdgePorts \ {e}
              /\ ~Throws(route.edge, [host |-> route.host, tp |-> route.tp]),
           NEW t, t = OnTheWire(e, req), Proceeds(c, t, regs, miss)
    PROVE  OpeningForm(c, t) /\ t.path[Len(t.path)] = e
<1> DEFINE end == [host |-> route.host, tp |-> route.tp]
           peer == getEdgeInterface(route.edge, end)
           iface == getEdgeInterface(e, end)
<1>0. But(r0, m, {"edge"}) /\ r0.edge = e /\ DOMAIN r0 = MessageFields
  BY Taken DEF Taking
<1>1. /\ r0.type = "request" /\ r0.method = "INVITE" /\ r0.path = m.path /\ r0.via = m.via
      /\ r0.recordRoute = m.recordRoute /\ r0.contact = m.contact /\ r0.route = m.route /\ r0.uri = Dialled(c)
      /\ r0.ext = m.ext
  BY <1>0 DEF But, MessageFields, Taking, Untouched
<1>2. IsList(m.recordRoute) /\ m.method = c.method /\ m.via[Len(m.via)].host = c.ua
      /\ (m.contact = Contact(c.ua) \/ IsWeb(c.ua)) /\ (c.route \/ Straight(c, m))
  BY DEF OpeningForm, Taking
<1>3. /\ DOMAIN req = MessageFields /\ req.path = m.path /\ req.via = With(iface, m.via)
      /\ IsList(req.recordRoute) /\ (req.contact = m.contact \/ IsWeb(c.ua))
      /\ \/ "x-edgeport-ref" \notin req.ext
         \/ /\ ~Handed(c, m, regs) /\ peer.host \in OwnHosts(route.edge) /\ route.edge \in EdgePorts \ {e}
            /\ req.route = IF r0.uri.host = route.host THEN With(peer, m.route)
                           ELSE With(end, With(peer, m.route))
  <2>1. CASE req = tailor(route, r0) /\ "x-edgeport-ref" \notin route.headers
    <3>1. DOMAIN r0.uri = {"user", "host", "tp"}
      BY <1>1 DEF Dialled
    <3>2. /\ But(req, r0, {"maxForwards", "auth", "route", "ext", "contact", "uri", "via", "recordRoute"})
          /\ req.ext = ((r0.ext \ {"x-edgeport-ref"}) \ route.removes) \cup route.headers
          /\ req.via = With(getEdgeInterface(r0.edge, end), r0.via)
      BY ONLY <1>0, <2>1, <3>1, Tailored, ZenonT(60)
    <3>3. IsList(req.recordRoute) /\ (req.contact = r0.contact \/ r0.contact.host = Invalid)
      <4>1. IsList(r0.recordRoute)
        BY <1>1, <1>2
      <4> QED BY ONLY <1>0, <2>1, <4>1, TailoredRecord, ZenonT(60)
    <3>4. DOMAIN req = MessageFields /\ req.path = m.path
      BY <1>0, <1>1, <3>2 DEF But, MessageFields
    <3>5. req.contact = m.contact \/ IsWeb(c.ua)
      BY <1>1, <1>2, <3>3, Contacts
    <3> QED BY <1>0, <1>1, <2>1, <3>2, <3>3, <3>4, <3>5
  <2>2. CASE /\ req = toPeerEdgePort(route, r0) /\ ~Handed(c, m, regs)
             /\ route.edge \in EdgePorts \ {e} /\ ~Throws(route.edge, end)
    <3>1. /\ But(req, r0, {"maxForwards", "route", "ext", "via", "recordRoute"})
          /\ req.via = With(getEdgeInterface(r0.edge, end), r0.via)
          /\ req.route = IF r0.uri.host = route.host THEN With(peer, r0.route)
                         ELSE With(end, With(peer, r0.route))
      BY ONLY <1>0, <2>2, Handing, ZenonT(60)
    <3>2. IsList(req.recordRoute)
      <4>1. IsList(r0.recordRoute)
        BY <1>1, <1>2
      <4> QED BY ONLY <1>0, <2>2, <4>1, HandingRecord, ZenonT(60)
    <3>3. DOMAIN req = MessageFields /\ req.path = m.path /\ req.contact = m.contact
      BY <1>0, <1>1, <3>1 DEF But, MessageFields
    <3>4. peer.host \in OwnHosts(route.edge)
      BY <2>2, EdgeInterface
    <3> HIDE DEF peer
    <3> QED BY <1>0, <1>1, <2>2, <3>1, <3>2, <3>3, <3>4
  <2> QED BY <2>1, <2>2
<1> HIDE DEF peer, iface, end
<1>4. /\ But(t, req, {"edge", "route", "dest", "path"})
      /\ t.route = Reverse(req.route) /\ t.path = Append(m.path, e)
  BY <1>3, WireFields
<1>5. t.recordRoute = req.recordRoute /\ t.contact = req.contact /\ t.via = req.via /\ t.ext = req.ext
  BY <1>3, <1>4 DEF But, MessageFields
<1>6. TxOK(t) /\ InviteOK(c, t, regs, miss) /\ t.type = "request" /\ t.method = "INVITE"
  BY DEF Proceeds, TxOK
<1>7. t.via[Len(t.via)].host = c.ua
  <2>1. m.via \in Seq(Interface) /\ m.via # <<>>
    BY DEF Taking, MessageOK
  <2> QED BY <1>2, <1>3, <1>5, <2>1, LastWith
<1>8. ASSUME ~c.route PROVE Straight(c, t)
  <2>1. Straight(c, m) /\ c.edge \in EdgePorts /\ e \in EdgePorts /\ m.dest \in OwnHosts(e)
    BY <1>2, <1>8 DEF Taking
  <2>2. m.dest \in EdgeHosts
    BY <2>1 DEF EdgeHosts
  <2>3. Out(c, t, regs, miss) => t.dest \notin EdgeHosts
    <3>1. \A h \in TrunkHosts : h \notin EdgeHosts
      BY HostsAssumption DEF HostsAssumption
    <3>2. \A h \in DOMAIN Accounts : h \notin EdgeHosts
      BY <2>1, PhonesApart
    <3> QED BY <3>1, <3>2 DEF Out
  <2>4. Out(c, t, regs, miss) \/ Handed(c, t, regs)
    BY <1>6, <1>8 DEF InviteOK, TxOK, Placed, Back
  <2>5. CASE m.path = <<>>
    <3>1. e = c.edge
      BY <2>1, <2>2, <2>5, OwnEdge DEF Straight
    <3>2. t.path = <<c.edge>>
      BY <1>4, <2>5, <3>1
    <3>3. t.dest \notin OwnHosts(e)
      <4>1. CASE Out(c, t, regs, miss)
        BY <2>1, <2>3, <4>1 DEF EdgeHosts
      <4>2. CASE Handed(c, t, regs)
        <5>1. /\ peer.host \in OwnHosts(route.edge) /\ route.edge \in EdgePorts \ {e} /\ ~Handed(c, m, regs)
              /\ req.route = IF r0.uri.host = route.host THEN With(peer, m.route)
                             ELSE With(end, With(peer, m.route))
          BY <1>3, <1>5, <4>2 DEF Handed
        <5>2. Lists(m.route, 0)
          BY <1>8, <5>1 DEF Placed, Back
        <5>3. t.route[1] = peer
          <6> DEFINE one == With(peer, m.route)
                     two == With(end, one)
          <6>1. one = With(peer, m.route) /\ two = With(end, one)
            OBVIOUS
          <6>2. req.route = one \/ req.route = two
            BY <5>1
          <6> HIDE DEF one, two
          <6>3. Lists(one, 1) /\ one[1] = peer
            BY ONLY <5>2, <6>1, WithShort
          <6>4. Lists(two, 2) /\ two[2] = peer
            BY ONLY <6>1, <6>3, WithShort
          <6> QED BY ONLY <1>4, <6>2, <6>3, <6>4, ReverseShort
        <5>4. t.dest = peer.host
          BY <4>2, <5>3 DEF Handed
        <5> QED BY <2>1, <5>1, <5>4, OwnEdge
      <4> QED BY <2>4, <4>1, <4>2
    <3> QED BY <3>1, <3>2, <3>3 DEF Straight
  <2>6. CASE m.path = <<c.edge>> /\ m.dest \notin OwnHosts(c.edge)
    <3>1. e \in EdgePorts \ {c.edge}
      BY <2>1, <2>6
    <3>2. t.path = <<c.edge, e>>
      <4>1. Append(<<c.edge>>, e) = <<c.edge, e>>
        BY <2>1, OnePlusOne
      <4> QED BY ONLY <1>4, <2>6, <4>1
    <3>3. Handed(c, m, regs)
      BY <1>8, <2>6 DEF Placed, Back
    <3>4. Out(c, t, regs, miss)
      BY <1>3, <1>5, <2>4, <3>3 DEF Handed
    <3> QED BY <2>3, <3>1, <3>2, <3>4 DEF Straight
  <2> QED BY <2>1, <2>2, <2>5, <2>6 DEF Straight
<1>9. IsList(t.recordRoute) /\ (t.contact = Contact(c.ua) \/ IsWeb(c.ua)) /\ t.method = c.method
      /\ t.type # "response"
  BY <1>2, <1>3, <1>5, <1>6 DEF Taking
<1>10. t.path[Len(t.path)] = e
  <2>1. m.path \in Seq(EdgePorts) /\ e \in EdgePorts
    BY DEF Taking, MessageOK
  <2> QED BY <1>4, <2>1
<1> QED BY ONLY <1>7, <1>8, <1>9, <1>10 DEF OpeningForm

-----------------------------------------------------------------------------
(* What an edgeport sends on *)

\* What ends a registration at an edgeport, and what becomes of it otherwise.
Blocked(e, m) == Throws(e, m.uri) \/ ThrowsOnRoutes([m EXCEPT !.edge = e]) \/ m.maxForwards < 1

Through(e, m, t) ==
    /\ t.uri = m.uri /\ t.path = Append(m.path, e)
    /\ t.route = Reverse(Without(OwnHosts(e), m.route)) /\ t.dest = NextHop(t.route, t.uri)

\* The registration of a trunk, an ACK or a BYE.
LEMMA OtherOnward ==
    ASSUME NEW c, NEW at, NEW m, MessageOK(m), m.type = "request", NEW e \in EdgePorts, m.dest \in OwnHosts(e),
           MessageForm(c, at, m), m.method \in {"BYE", "ACK", "REGISTER"},
           m.method = "REGISTER" => "x-gateway-auth" \in m.ext,
           NEW pick, NEW deaf, NEW r0, r0 = [m EXCEPT !.edge = e],
           NEW out, out = connectProcessor(r0, pick, deaf)
    PROVE  \/ out.type = "crash" /\ (m.method = "REGISTER" => Blocked(e, m))
           \/ /\ out.type = "request" /\ MessageForm(c, at, OnTheWire(e, out.request))
              /\ OnTheWire(e, out.request).type = "request" /\ OnTheWire(e, out.request).method = m.method
              /\ m.method = "REGISTER" => /\ Through(e, m, OnTheWire(e, out.request))
                                          /\ out.request.maxForwards = m.maxForwards - 1
<1>0. But(r0, m, {"edge"}) /\ r0.edge = e /\ DOMAIN r0 = MessageFields
  BY Taken
<1>1. /\ r0.type = "request" /\ r0.method = m.method /\ r0.path = m.path /\ r0.via = m.via
      /\ r0.recordRoute = m.recordRoute /\ r0.contact = m.contact /\ r0.route = m.route /\ r0.uri = m.uri
      /\ r0.ext = m.ext
  BY <1>0 DEF But, MessageFields
<1>2. m.via \in Seq(Interface) /\ m.via # <<>> /\ m.path \in Seq(EdgePorts)
  BY DEF MessageOK
<1>3. ASSUME NEW req, DOMAIN req = MessageFields, req.path = m.path, NEW i, req.via = With(i, m.via),
             NEW t, t = OnTheWire(e, req)
      PROVE  /\ t.via[Len(t.via)].host = m.via[Len(m.via)].host
             /\ t.path = Append(m.path, e) /\ t.route = Reverse(req.route)
             /\ t.dest = NextHop(t.route, req.uri)
             /\ t.type = req.type /\ t.method = req.method /\ t.recordRoute = req.recordRoute
             /\ t.contact = req.contact /\ t.uri = req.uri
  <2>1. /\ But(t, req, {"edge", "route", "dest", "path"})
        /\ t.route = Reverse(req.route) /\ t.dest = NextHop(t.route, req.uri)
        /\ t.path = Append(req.path, e)
    BY <1>3, WireFields
  <2>2. /\ t.type = req.type /\ t.method = req.method /\ t.recordRoute = req.recordRoute
        /\ t.contact = req.contact /\ t.uri = req.uri /\ t.via = req.via
    BY <1>3, <2>1 DEF But, MessageFields
  <2>3. t.via[Len(t.via)] = m.via[Len(m.via)]
    BY <1>2, <1>3, <2>2, LastWith
  <2> QED BY <1>3, <2>1, <2>2, <2>3
<1>4. CASE m.method = "REGISTER"
  <2> DEFINE r1 == decreaseMaxForwards(addSelfVia(createRouteFromLastMessage(r0), r0))
             req == removeXEdgePortRef(removeSelfRoutes(removeAuthorization(r1)))
             i == getEdgeInterface(r0.edge, [host |-> r0.uri.host, tp |-> r0.uri.tp])
  <2>1. out = handleRegistry(r0)
    BY <1>1, <1>4 DEF connectProcessor, getHeaderValue
  <2>2. But(req, r0, {"maxForwards", "via", "route", "auth", "ext"}) /\ req.via = With(i, r0.via)
    BY <1>0, Passed
  <2>3. \/ out.type = "crash" /\ (Throws(r0.edge, r0.uri) \/ ThrowsOnRoutes(r0))
        \/ out.type = "request" /\ out.request = req
    <3> HIDE DEF req, r1
    <3> QED BY <1>0, <2>1 DEF handleRegistry, req, r1, Send
  <2>7. r1.route = r0.route /\ r1.maxForwards = r0.maxForwards - 1 /\ r1.edge = r0.edge /\ DOMAIN r1 = MessageFields
    BY <1>0 DEF MessageFields, decreaseMaxForwards, addSelfVia
  <2>8. req.route = Without(OwnHosts(e), m.route) /\ req.maxForwards = m.maxForwards - 1
    <3> HIDE DEF r1
    <3> QED BY <1>0, <1>1, <2>7 DEF MessageFields, But, removeXEdgePortRef, removeSelfRoutes, removeAuthorization
  <2>9. Throws(r0.edge, r0.uri) \/ ThrowsOnRoutes(r0) => Blocked(e, m)
    BY <1>0, <1>1 DEF Blocked
  <2> HIDE DEF req, r1, i
  <2>4. /\ DOMAIN req = MessageFields /\ req.path = m.path /\ req.via = With(i, m.via)
        /\ req.type = "request" /\ req.method = "REGISTER"
        /\ req.recordRoute = m.recordRoute /\ req.contact = m.contact /\ req.uri = m.uri
    BY <1>0, <1>1, <1>4, <2>2 DEF But, MessageFields
  <2>5. OpeningForm(c, m)
    BY <1>4 DEF MessageForm
  <2>6. ASSUME NEW t, t = OnTheWire(e, req)
        PROVE  MessageForm(c, at, t) /\ t.type = "request" /\ t.method = m.method /\ Through(e, m, t)
    <3>1. /\ t.via[Len(t.via)].host = m.via[Len(m.via)].host /\ t.type = "request" /\ t.method = "REGISTER"
          /\ t.recordRoute = m.recordRoute /\ t.contact = m.contact
          /\ t.path = Append(m.path, e) /\ t.route = Reverse(req.route)
          /\ t.dest = NextHop(t.route, req.uri) /\ t.uri = req.uri
      BY <1>3, <2>4, <2>6
    <3>2. OpeningForm(c, t)
      BY <1>4, <2>5, <3>1 DEF OpeningForm
    <3> QED BY <1>4, <2>4, <2>8, <3>1, <3>2 DEF MessageForm, Through
  <2> QED BY <2>3, <2>6, <2>8, <2>9
<1>5. CASE m.method \in {"BYE", "ACK"}
  <2> DEFINE req == removeSelfRoutes(addSelfViaUsingExternalAddrs(decreaseMaxForwards(r0)))
             i == getEdgeInterface(r0.edge, r0.uri)
             w == Without(OwnHosts(e), m.route)
  <2>1. out = handleInDialog(r0)
    BY <1>1, <1>5 DEF connectProcessor
  <2>2. But(req, r0, {"maxForwards", "via", "route"}) /\ req.via = With(i, r0.via)
    BY <1>0, Passed
  <2>3. out.type = "crash" \/ (out.type = "request" /\ out.request = req)
    <3> HIDE DEF req
    <3> QED BY <1>0, <2>1 DEF handleInDialog, req, Send
  <2>4. req.route = w
    BY <1>0, <1>1 DEF MessageFields, removeSelfRoutes, addSelfViaUsingExternalAddrs, decreaseMaxForwards
  <2> HIDE DEF req, i
  <2>5. /\ DOMAIN req = MessageFields /\ req.path = m.path /\ req.via = With(i, m.via)
        /\ req.type = "request" /\ req.method = m.method /\ req.uri = m.uri
    BY <1>0, <1>1, <2>2 DEF But, MessageFields
  <2>6. DialogForm(c, at, m)
    BY <1>5 DEF MessageForm
  <2>7. Clean(OwnHosts(e), m.route, w)
    BY <2>6, WithoutClean DEF DialogForm
  <2> HIDE DEF w
  <2>8. ASSUME NEW t, t = OnTheWire(e, req)
        PROVE  MessageForm(c, at, t) /\ t.type = "request" /\ t.method = m.method
    <3>1. /\ t.via[Len(t.via)].host = m.via[Len(m.via)].host /\ t.type = "request" /\ t.method = m.method
          /\ t.path = Append(m.path, e) /\ t.route = Reverse(w) /\ t.uri = m.uri
          /\ t.dest = NextHop(t.route, t.uri)
      BY <1>3, <2>4, <2>5, <2>8
    <3>2. /\ IsList(t.route) /\ Len(t.route) = Len(w)
          /\ \A k \in 1 .. Len(t.route) : t.route[k].host \notin OwnHosts(e)
                                          /\ \E j \in 1 .. Len(m.route) : t.route[k] = m.route[j]
      <4>1. IsList(w)
        BY <2>7 DEF Clean
      <4>2. /\ IsList(t.route) /\ Len(t.route) = Len(w)
            /\ \A k \in 1 .. Len(w) : \E j \in 1 .. Len(w) : t.route[k] = w[j]
        BY <3>1, <4>1, Reversed
      <4>3. \A k \in 1 .. Len(w) : w[k].host \notin OwnHosts(e) /\ \E j \in 1 .. Len(m.route) : w[k] = m.route[j]
        BY <2>7 DEF Clean
      <4>4. ASSUME NEW k \in 1 .. Len(t.route)
            PROVE  t.route[k].host \notin OwnHosts(e) /\ \E j \in 1 .. Len(m.route) : t.route[k] = m.route[j]
        <5>1. PICK j \in 1 .. Len(w) : t.route[k] = w[j]
          BY <4>2
        <5> QED BY <4>3, <5>1
      <4> QED BY <4>2, <4>4
    <3>3. Range(t.path) = Range(m.path) \cup {e} /\ (Distinct(m.path) /\ e \notin Range(m.path) => Distinct(t.path))
      BY <1>2, <3>1, DistinctMore
    <3>4. \A f \in Range(t.path) : \A k \in 1 .. Len(t.route) : t.route[k].host \notin OwnHosts(f)
      BY <2>6, <3>2, <3>3 DEF DialogForm
    <3>5. m.uri.host \notin EdgeHosts => Distinct(t.path)
      <4> HAVE m.uri.host \notin EdgeHosts
      <4>1. Distinct(m.path) /\ m.dest \in EdgeHosts /\ m.dest = NextHop(m.route, m.uri)
        BY <2>6 DEF DialogForm, EdgeHosts
      <4>2. m.route # <<>> /\ m.dest = m.route[1].host
        BY <4>1 DEF NextHop
      <4>3. Len(m.route) \in Nat /\ Len(m.route) # 0
        BY <2>6, <4>2, EmptyList DEF DialogForm, IsList
      <4>4. 1 \in 1 .. Len(m.route)
        BY <4>3
      <4>5. e \notin Range(m.path)
        BY <2>6, <4>2, <4>4 DEF DialogForm
      <4> QED BY <3>3, <4>1, <4>5
    <3>6. m.uri.host \in EdgeHosts => m.method = "BYE" /\ IsWeb(c.ua) /\ m.via[Len(m.via)].host = at
      BY <2>6 DEF DialogForm
    <3>7. DialogForm(c, at, t)
      BY <3>1, <3>2, <3>4, <3>5, <3>6 DEF DialogForm
    <3> QED BY <1>5, <3>1, <3>7 DEF MessageForm
  <2> QED BY <1>5, <2>3, <2>8
<1> QED BY <1>4, <1>5

LEMMA StraightDistinct ==
    ASSUME NEW c, c.edge \in EdgePorts, NEW m, Straight(c, m)
    PROVE  Distinct(m.path)
<1> DEFINE e == c.edge
<1>1. e \in EdgePorts
  OBVIOUS
<1>2. m.path = <<>> \/ m.path = <<e>> \/ \E f \in EdgePorts \ {e} : m.path = <<e, f>>
  BY DEF Straight
<1> HIDE DEF e
<1>3. Distinct(<<>>) /\ Distinct(<<e>>) /\ \A f \in EdgePorts \ {e} : Distinct(<<e, f>>)
  BY <1>1, DistinctFew
<1> QED BY <1>2, <1>3

\* The answer to the INVITE and the CANCEL for the next hop.
LEMMA CancelOnward ==
    ASSUME NEW c, ~c.route => c.edge \in EdgePorts, NEW at, NEW x, TxOK(x), OpeningForm(c, x)
    PROVE  /\ MessageForm(c, at, CancelOf(x))
           /\ MessageForm(c, at, Response([x EXCEPT !.via = Tail(@)], TERMINATED))
<1>1. /\ DOMAIN x = MessageFields /\ x.method = "INVITE" /\ x.type = "request"
      /\ x.via \in Seq(Interface) /\ x.via # <<>>
  BY DEF TxOK, MessageOK
<1>2. MessageForm(c, at, CancelOf(x))
  <2> DEFINE t == CancelOf(x)
  <2>1. t.type = "request" /\ t.method = "CANCEL" /\ t.path = x.path
    BY <1>1 DEF CancelOf, MessageFields
  <2> HIDE DEF t
  <2>2. c.route \/ Distinct(x.path)
    BY <1>1, StraightDistinct DEF OpeningForm
  <2> QED BY <2>1, <2>2 DEF MessageForm, t
<1>3. MessageForm(c, at, Response([x EXCEPT !.via = Tail(@)], TERMINATED))
  <2> DEFINE t == Response([x EXCEPT !.via = Tail(@)], TERMINATED)
             w == Tail(x.via)
             none == None
  <2>1. /\ t.type = "response" /\ t.code = TERMINATED /\ t.method = "INVITE" /\ t.via = w
        /\ t.recordRoute = x.recordRoute /\ t.dest = w[1].host
    BY <1>1 DEF Response, MessageFields
  <2>2. w # <<>>
    <3>1. Fit(none, t, none, none)
      BY Cancelling
    <3> HIDE DEF t
    <3> QED BY <2>1, <3>1 DEF Fit, MessageOK
  <2>3. w[Len(w)] = x.via[Len(x.via)]
    BY <1>1, <2>2, LastTail
  <2> HIDE DEF t, w
  <2>4. OpeningForm(c, t)
    BY <1>1, <2>1, <2>3, RefusalCodes DEF OpeningForm, TERMINATED, OK
  <2> QED BY <2>1, <2>4 DEF MessageForm, t
<1> QED BY <1>2, <1>3

\* An answer of Connect or of a phone that has a form.
LEMMA AnswerForm ==
    ASSUME NEW c, NEW at, NEW m, MessageOK(m), m.method \in {"INVITE", "REGISTER"}, OpeningForm(c, m),
           NEW code, code # OK, NEW t, t = Response(m, code)
    PROVE  MessageForm(c, at, t)
<1>1. /\ t.type = "response" /\ t.code = code /\ t.method = m.method /\ t.via = m.via
      /\ t.recordRoute = m.recordRoute /\ t.dest = m.via[1].host
  BY DEF Response, MessageOK, MessageFields
<1>2. OpeningForm(c, t)
  BY <1>1 DEF OpeningForm
<1> QED BY <1>1, <1>2 DEF MessageForm

-----------------------------------------------------------------------------
(* Every step keeps the forms *)

\* A form is for the phone that is called, once there is one.
LEMMA FormStays ==
    ASSUME RoutingInv, callee'.at = callee.at \/ callee.state = "idle", call' = call,
           NEW m, MessageOK(m), MessageForm(call, callee.at, m)
    PROVE  MessageForm(call', callee'.at, m)
<1>1. CASE callee'.at = callee.at
  BY <1>1
<1>2. CASE callee.state = "idle"
  <2>1. callee.at = None /\ None \notin DOMAIN Phones
    BY <1>2, HostsAssumption DEF RoutingInv, CalleeInv, HostsAssumption
  <2>2. m.method = "BYE" => m.via[Len(m.via)].host # callee.at
    BY <2>1 DEF MessageOK, Traced
  <2>3. \A at : DialogForm(call, callee.at, m) => DialogForm(call, at, m)
    BY <2>2 DEF DialogForm
  <2> QED BY <2>3 DEF MessageForm
<1> QED BY <1>1, <1>2

LEMMA FormKept ==
    ASSUME RoutingInv, RoutingInv', FormInv, NEW new, wire' \subseteq wire \cup new,
           \A t \in new : MessageForm(call, callee.at, t),
           callee'.at = callee.at \/ callee.state = "idle", call' = call,
           TxForm', CallerForm', CalleeForm'
    PROVE  FormInv'
<1>1. ASSUME NEW m \in wire' PROVE MessageForm(call', callee'.at, m)
  <2>1. MessageOK(m)
    BY DEF RoutingInv, WireInv
  <2>2. MessageForm(call, callee.at, m)
    BY DEF FormInv
  <2> QED BY <2>1, <2>2, FormStays
<1> QED BY <1>1 DEF FormInv

LEMMA FormByOne ==
    ASSUME RoutingInv, RoutingInv', FormInv, NEW t, wire' \subseteq wire \cup {t},
           MessageForm(call, callee.at, t),
           callee'.at = callee.at \/ callee.state = "idle", call' = call,
           TxForm', CallerForm', CalleeForm'
    PROVE  FormInv'
<1> DEFINE new == {t}
<1>1. wire' \subseteq wire \cup new /\ \A x \in new : MessageForm(call, callee.at, x)
  OBVIOUS
<1> HIDE DEF new
<1> QED BY <1>1, FormKept

LEMMA FormByNone ==
    ASSUME RoutingInv, RoutingInv', FormInv, wire' \subseteq wire,
           callee'.at = callee.at \/ callee.state = "idle", call' = call,
           TxForm', CallerForm', CalleeForm'
    PROVE  FormInv'
<1> DEFINE new == {}
<1>1. wire' \subseteq wire \cup new /\ \A x \in new : MessageForm(call, callee.at, x)
  OBVIOUS
<1> HIDE DEF new
<1> QED BY <1>1, FormKept

LEMMA CallEdge ==
    ASSUME RoutingInv
    PROVE  /\ call \in Calls => call.edge \in EdgePorts /\ call.method = "INVITE"
           /\ call \in Registrations => call.route /\ call.method = "REGISTER"
           /\ ~call.route => call.edge \in EdgePorts
<1>1. call \in Calls => call.edge \in EdgePorts /\ call.method = "INVITE"
  BY CallsAssumption DEF CallsAssumption
<1>2. call \in Registrations => call.route /\ call.method = "REGISTER"
  BY DEF Registrations, createRegistrationRequest
<1> QED BY <1>1, <1>2 DEF RoutingInv, CallInv

\* What an edgeport makes of a request: nothing, an answer, or a request to send on.
Onward(e, m, t) ==
    /\ t.type = "request" /\ t.method = m.method /\ MessageForm(call, callee.at, t)
    /\ tx' = IF m.method = "INVITE" THEN [tx EXCEPT ![e] = t] ELSE tx
    /\ m.method = "INVITE" => OpeningForm(call, t) /\ t.path[Len(t.path)] = e
    /\ m.method = "REGISTER" => Through(e, m, t)
    /\ Replace(m, {t}) /\ lost' = lost

Refusal(m) ==
    /\ m.method = "INVITE"
    /\ \E code \in Refusals : Replace(m, {Response(m, code)}) /\ UNCHANGED <<tx, lost>>

LEMMA Handled ==
    ASSUME RoutingInv, FormInv, NEW e \in EdgePorts, HandleRequest(e)
    PROVE  \E m \in wire :
             /\ m.type = "request" /\ m.dest \in OwnHosts(e) /\ UNCHANGED <<call, caller, callee>>
             /\ \/ Drop(m) /\ (m.method = "REGISTER" => Blocked(e, m))
                \/ Refusal(m)
                \/ m.method = "CANCEL" /\ \E out : SendCancel(e, m, out)
                \/ m.method # "CANCEL" /\ \E t : Onward(e, m, t)
<1>1. PICK m \in wire, r \in Known \cup {None}, deaf \in SUBSET {"caller", "callee"} :
        /\ m.type = "request" /\ m.dest \in OwnHosts(e)
        /\ failed' = (failed \/ deaf # {})
        /\ LET out == connectProcessor([m EXCEPT !.edge = e], Found(r), deaf)
           IN CASE m.method = "CANCEL" -> SendCancel(e, m, out)
                [] m.method # "CANCEL" /\ out.type = "request" -> SendRequest(e, m, out.request)
                [] m.method # "CANCEL" /\ out.type = "response" ->
                      /\ Replace(m, {Response(m, out.code)})
                      /\ UNCHANGED <<tx, lost>>
                [] OTHER -> Drop(m)
        /\ UNCHANGED <<call, loc, caller, callee, registers>>
  BY ZenonT(60) DEF HandleRequest
<1> DEFINE pick == Found(r)
           r0 == [m EXCEPT !.edge = e]
           out == connectProcessor(r0, pick, deaf)
           Cases == \/ Drop(m) /\ (m.method = "REGISTER" => Blocked(e, m))
                    \/ Refusal(m)
                    \/ m.method = "CANCEL" /\ \E x : SendCancel(e, m, x)
                    \/ m.method # "CANCEL" /\ \E t : Onward(e, m, t)
<1>0. SUFFICES Cases
  BY <1>1
<1>2. /\ m.method = "CANCEL" => SendCancel(e, m, out)
      /\ m.method # "CANCEL" /\ out.type = "request" => SendRequest(e, m, out.request)
      /\ m.method # "CANCEL" /\ out.type = "response" =>
            Replace(m, {Response(m, out.code)}) /\ UNCHANGED <<tx, lost>>
      /\ m.method # "CANCEL" /\ out.type \notin {"request", "response"} => Drop(m)
  BY <1>1
<1>3. /\ failed' \in BOOLEAN /\ (deaf # {} => failed') /\ r0 = [m EXCEPT !.edge = e]
      /\ out = connectProcessor(r0, pick, deaf)
      /\ \A a \in Asked(call) : pick[a] = None \/ RouteOK(pick[a], registers)
  BY <1>1, FoundOK
<1>4. /\ MessageOK(m) /\ RequestOK(call, m, registers, failed) /\ m.method \in Methods
      /\ MessageForm(call, callee.at, m)
  BY <1>1 DEF RoutingInv, WireInv, RequestsInv, Requests, MessageOK, FormInv
<1>5. Registered(registers)
  BY DEF RoutingInv, RegistersInv, Registered
<1> HIDE DEF out, pick, r0
<1>6. CASE m.method = "CANCEL"
  BY <1>2, <1>6
<1> DEFINE Ready(t, req) ==
             /\ m.method \in {"BYE", "ACK", "REGISTER", "INVITE"} /\ t = OnTheWire(e, req)
             /\ t.type = "request" /\ t.method = m.method /\ MessageForm(call, callee.at, t)
             /\ m.method = "INVITE" => OpeningForm(call, t) /\ t.path[Len(t.path)] = e
             /\ m.method = "REGISTER" => Through(e, m, t) /\ req.maxForwards = m.maxForwards - 1
<1>7. ASSUME NEW t, NEW req, Ready(t, req), SendRequest(e, m, req)
      PROVE  Cases
  <2>1. CASE req.maxForwards < 0
    <3>1. m.maxForwards \in Nat
      BY <1>4, HopsAssumption DEF MessageOK, HopsAssumption
    <3>2. m.method = "REGISTER" => Blocked(e, m)
      BY <1>7, <2>1, <3>1 DEF Blocked
    <3> QED BY <1>7, <2>1, <3>2 DEF SendRequest
  <2>2. CASE ~(req.maxForwards < 0)
    <3>1. /\ Replace(m, {t}) /\ lost' = lost
          /\ tx' = IF m.method = "INVITE" THEN [tx EXCEPT ![e] = t] ELSE tx
      BY <1>7, <2>2 DEF SendRequest
    <3>2. Onward(e, m, t)
      BY <1>7, <3>1 DEF Onward
    <3> QED BY <1>7, <3>2
  <2> QED BY <2>1, <2>2
<1>8. CASE m.method = "INVITE"
  <2>1. Taking(call, m, e) /\ (Placed(call, m) \/ Handed(call, m, registers) \/ Back(call, m))
    BY <1>1, <1>8, Takes
  <2>2. OpeningForm(call, m)
    BY <1>4, <1>8 DEF MessageForm
  <2>3. \/ out.type = "response" /\ out.code \in Refusals
        \/ /\ out.type = "request"
           /\ \E route :
                    \/ out.request = tailor(route, r0) /\ "x-edgeport-ref" \notin route.headers
                    \/ /\ out.request = toPeerEdgePort(route, r0) /\ ~Handed(call, m, registers)
                       /\ route.edge \in EdgePorts \ {e}
                       /\ ~Throws(route.edge, [host |-> route.host, tp |-> route.tp])
    BY <1>3, <1>5, <2>1, InviteWay
  <2>4. CASE out.type = "response" /\ out.code \in Refusals
    BY <1>2, <1>8, <2>4 DEF Refusal
  <2>5. CASE /\ out.type = "request"
             /\ \E route :
                    \/ out.request = tailor(route, r0) /\ "x-edgeport-ref" \notin route.headers
                    \/ /\ out.request = toPeerEdgePort(route, r0) /\ ~Handed(call, m, registers)
                       /\ route.edge \in EdgePorts \ {e}
                       /\ ~Throws(route.edge, [host |-> route.host, tp |-> route.tp])
    <3> DEFINE req == out.request
               t == OnTheWire(e, req)
    <3>1. SendRequest(e, m, req)
      BY <1>2, <1>8, <2>5
    <3>2. CASE req.maxForwards < 0
      BY <1>8, <3>1, <3>2 DEF SendRequest
    <3>3. CASE ~(req.maxForwards < 0)
      <4>1. Proceeds(call, t, registers, failed')
        <5>1. "request" # "response" /\ out = connectProcessor([m EXCEPT !.edge = e], pick, deaf)
          BY <1>3
        <5>2. \/ out.type = "response" /\ out.code \in ResponseType
              \/ /\ out.type = "request"
                 /\ ~(out.request.maxForwards < 0)
                      => Proceeds(call, OnTheWire(e, out.request), registers, failed')
          BY <1>3, <1>5, <2>1, <5>1, InviteProcessed
        <5> QED BY <2>5, <3>3, <5>1, <5>2
      <4>2. PICK route :
                    \/ req = tailor(route, r0) /\ "x-edgeport-ref" \notin route.headers
                    \/ /\ req = toPeerEdgePort(route, r0) /\ ~Handed(call, m, registers)
                       /\ route.edge \in EdgePorts \ {e}
                       /\ ~Throws(route.edge, [host |-> route.host, tp |-> route.tp])
        BY <2>5
      <4>3. t = OnTheWire(e, req)
        OBVIOUS
      <4> HIDE DEF t, req, Cases
      <4>4. call.ua \in DOMAIN Phones /\ (~call.route => call.edge \in EdgePorts)
        BY UaIsPhone, CallEdge
      <4>5. OpeningForm(call, t) /\ t.path[Len(t.path)] = e
        BY <1>3, <2>1, <2>2, <4>1, <4>2, <4>3, <4>4, InviteOnward
      <4>6. t.type = "request" /\ t.method = m.method /\ MessageForm(call, callee.at, t)
        BY <1>8, <4>1, <4>5 DEF Proceeds, TxOK, MessageForm
      <4>7. Ready(t, req)
        BY <1>8, <4>3, <4>5, <4>6
      <4> HIDE DEF Ready
      <4> QED BY <1>7, <3>1, <4>7
    <3> QED BY <3>2, <3>3
  <2> QED BY <2>3, <2>4, <2>5
<1>9. CASE m.method \in {"BYE", "ACK", "REGISTER"}
  <2>1. m.method = "REGISTER" => "x-gateway-auth" \in m.ext
    BY <1>4, <1>9 DEF RequestOK, OtherOK
  <2>2. \/ out.type = "crash" /\ (m.method = "REGISTER" => Blocked(e, m))
        \/ /\ out.type = "request" /\ MessageForm(call, callee.at, OnTheWire(e, out.request))
           /\ OnTheWire(e, out.request).type = "request" /\ OnTheWire(e, out.request).method = m.method
           /\ m.method = "REGISTER" => /\ Through(e, m, OnTheWire(e, out.request))
                                       /\ out.request.maxForwards = m.maxForwards - 1
    <3> DEFINE c == call
               at == callee.at
    <3>1. MessageForm(c, at, m)
      BY <1>4
    <3> HIDE DEF c, at
    <3>2. \/ out.type = "crash" /\ (m.method = "REGISTER" => Blocked(e, m))
          \/ /\ out.type = "request" /\ MessageForm(c, at, OnTheWire(e, out.request))
             /\ OnTheWire(e, out.request).type = "request" /\ OnTheWire(e, out.request).method = m.method
             /\ m.method = "REGISTER" => /\ Through(e, m, OnTheWire(e, out.request))
                                         /\ out.request.maxForwards = m.maxForwards - 1
      BY <1>1, <1>3, <1>4, <1>9, <2>1, <3>1, OtherOnward
    <3> QED BY <3>2 DEF c, at
  <2>3. CASE out.type = "crash"
    BY <1>2, <1>9, <2>2, <2>3
  <2>4. CASE out.type # "crash"
    <3> DEFINE req == out.request
               t == OnTheWire(e, req)
    <3>1. SendRequest(e, m, req)
      BY <1>2, <1>9, <2>2, <2>4
    <3>2. /\ t.type = "request" /\ t.method = m.method /\ MessageForm(call, callee.at, t) /\ t = OnTheWire(e, req)
          /\ m.method = "REGISTER" => Through(e, m, t) /\ req.maxForwards = m.maxForwards - 1
      BY <2>2, <2>4
    <3> HIDE DEF t, req, Cases
    <3>3. m.method \in {"BYE", "ACK", "REGISTER", "INVITE"} /\ m.method # "INVITE"
      BY <1>9
    <3>4. Ready(t, req)
      BY <3>2, <3>3
    <3> HIDE DEF Ready
    <3> QED BY <1>7, <3>1, <3>4
  <2> QED BY <2>3, <2>4
<1> QED BY <1>4, <1>6, <1>8, <1>9 DEF Methods

LEMMA FormByRequest ==
    ASSUME RoutingInv, RoutingInv', FormInv, NEW e \in EdgePorts, HandleRequest(e)
    PROVE  FormInv'
<1>1. PICK m \in wire :
        /\ m.type = "request" /\ m.dest \in OwnHosts(e) /\ UNCHANGED <<call, caller, callee>>
        /\ \/ Drop(m) \/ Refusal(m)
           \/ m.method = "CANCEL" /\ \E out : SendCancel(e, m, out)
           \/ m.method # "CANCEL" /\ \E t : Onward(e, m, t)
  BY Handled
<1>2. MessageOK(m) /\ MessageForm(call, callee.at, m)
  BY DEF RoutingInv, WireInv, FormInv
<1>3. /\ callee'.at = callee.at /\ call' = call /\ CallerForm' /\ CalleeForm'
  BY <1>1 DEF FormInv, CallerForm, CalleeForm
<1>4. UNCHANGED tx => TxForm'
  BY <1>3 DEF FormInv, TxForm
<1>5. CASE Drop(m)
  <2>1. wire' \subseteq wire /\ UNCHANGED tx
    BY <1>5 DEF Drop, Replace
  <2> QED BY <1>3, <1>4, <2>1, FormByNone
<1>6. CASE Refusal(m)
  <2>1. PICK code \in Refusals : Replace(m, {Response(m, code)}) /\ UNCHANGED <<tx, lost>>
    BY <1>6 DEF Refusal
  <2> DEFINE t == Response(m, code)
  <2>2. code # OK /\ t = Response(m, code) /\ m.method \in {"INVITE", "REGISTER"} /\ wire' \subseteq wire \cup {t}
    BY <1>6, <2>1, RefusalCodes DEF Refusal, Replace
  <2> HIDE DEF t
  <2>3. MessageForm(call, callee.at, t)
    BY <1>2, <2>2, AnswerForm DEF MessageForm
  <2> QED BY <1>3, <1>4, <2>1, <2>2, <2>3, FormByOne
<1>7. CASE m.method = "CANCEL" /\ \E out : SendCancel(e, m, out)
  <2> DEFINE x == tx[e]
             one == CancelOf(x)
             two == Response([x EXCEPT !.via = Tail(@)], TERMINATED)
             new == {one, two}
  <2>1. Drop(m) \/ (x # None /\ Replace(m, new) /\ UNCHANGED tx)
    BY <1>7 DEF SendCancel
  <2>2. CASE x # None /\ Replace(m, new) /\ UNCHANGED tx
    <3>1. TxOK(x) /\ OpeningForm(call, x)
      BY <2>2 DEF RoutingInv, TxInv, FormInv, TxForm
    <3> HIDE DEF x
    <3>2. ~call.route => call.edge \in EdgePorts
      BY CallEdge
    <3>3. MessageForm(call, callee.at, one) /\ MessageForm(call, callee.at, two)
      BY <3>1, <3>2, CancelOnward
    <3> HIDE DEF one, two
    <3>4. wire' \subseteq wire \cup new /\ \A t \in new : MessageForm(call, callee.at, t)
      BY <2>2, <3>3 DEF Replace
    <3> HIDE DEF new
    <3> QED BY <1>3, <1>4, <2>2, <3>4, FormKept
  <2> QED BY <1>5, <2>1, <2>2
<1>8. CASE m.method # "CANCEL" /\ \E t : Onward(e, m, t)
  <2>1. PICK t : Onward(e, m, t)
    BY <1>8
  <2>2. MessageForm(call, callee.at, t) /\ wire' \subseteq wire \cup {t}
    BY <2>1 DEF Onward, Replace
  <2>3. TxForm'
    BY <1>3, <2>1 DEF RoutingInv, TxInv, FormInv, TxForm, Onward
  <2> QED BY <1>3, <2>2, <2>3, FormByOne
<1> QED BY <1>1, <1>5, <1>6, <1>7, <1>8

LEMMA FormByResponse ==
    ASSUME RoutingInv, RoutingInv', FormInv, NEW e \in EdgePorts, HandleResponse(e)
    PROVE  FormInv'
<1>1. PICK m \in wire :
        /\ m.type = "response"
        /\ LET back == removeTopVia(m)
           IN Replace(m, IF m.code = TERMINATED \/ back.via = <<>> THEN {}
                         ELSE {[back EXCEPT !.dest = back.via[1].host]})
        /\ UNCHANGED <<call, loc, tx, caller, callee, lost, failed, registers>>
  BY DEF HandleResponse
<1> DEFINE back == removeTopVia(m)
           w == Tail(m.via)
           t == [back EXCEPT !.dest = back.via[1].host]
<1>2. MessageOK(m) /\ DOMAIN m = MessageFields /\ m.via \in Seq(Interface) /\ m.via # <<>>
      /\ MessageForm(call, callee.at, m)
  BY DEF RoutingInv, WireInv, MessageOK, FormInv
<1>3. back.via = w /\ t.type = "response" /\ t.method = m.method /\ t.code = m.code /\ t.via = w
      /\ t.recordRoute = m.recordRoute /\ t.contact = m.contact /\ t.dest = w[1].host
  BY <1>1, <1>2 DEF removeTopVia, MessageFields
<1>4. Replace(m, {}) \/ (w # <<>> /\ Replace(m, {t}))
  BY <1>1, <1>3
<1> HIDE DEF t, back
<1>5. callee'.at = callee.at /\ call' = call /\ TxForm' /\ CallerForm' /\ CalleeForm'
  BY <1>1 DEF FormInv, TxForm, CallerForm, CalleeForm
<1>6. CASE Replace(m, {})
  <2>1. wire' \subseteq wire
    BY <1>6 DEF Replace
  <2> QED BY <1>5, <2>1, FormByNone
<1>7. CASE w # <<>> /\ Replace(m, {t})
  <2>1. w[Len(w)] = m.via[Len(m.via)]
    BY <1>2, <1>7, LastTail
  <2> HIDE DEF w
  <2>2. m.method \in {"INVITE", "REGISTER"} => OpeningForm(call, t)
    BY <1>1, <1>2, <1>3, <2>1 DEF MessageForm, OpeningForm
  <2>3. MessageForm(call, callee.at, t)
    BY <1>1, <1>2, <1>3, <2>2 DEF MessageForm
  <2>4. wire' \subseteq wire \cup {t}
    BY <1>7 DEF Replace
  <2> QED BY <1>5, <2>3, <2>4, FormByOne
<1> QED BY <1>4, <1>6, <1>7

LEMMA FormByTunnel ==
    ASSUME RoutingInv, RoutingInv', FormInv, Tunnel
    PROVE  FormInv'
<1>1. PICK m \in wire, u \in DOMAIN Phones :
        /\ m.dest = Invalid /\ Replace(m, {[m EXCEPT !.dest = u]})
        /\ UNCHANGED <<call, loc, tx, caller, callee, lost, failed, registers>>
  BY DEF Tunnel
<1> DEFINE t == [m EXCEPT !.dest = u]
<1>2. /\ MessageOK(m) /\ (m.type = "request" => RequestOK(call, m, registers, failed))
      /\ MessageForm(call, callee.at, m)
  BY DEF RoutingInv, WireInv, RequestsInv, Requests, FormInv
<1>3. DOMAIN m = MessageFields /\ m.via \in Seq(Interface) /\ m.via # <<>> /\ m.type \in {"request", "response"}
  BY <1>2 DEF MessageOK
<1>4. But(t, m, {"dest"}) /\ t.dest = u /\ Replace(m, {t})
  BY <1>1, <1>3 DEF But, MessageFields
<1> HIDE DEF t
<1>5. /\ t.type = m.type /\ t.code = m.code /\ t.method = m.method /\ t.via = m.via /\ t.path = m.path
      /\ t.recordRoute = m.recordRoute /\ t.contact = m.contact /\ t.route = m.route /\ t.uri = m.uri
  BY <1>3, <1>4 DEF But, MessageFields
<1>6. m.type = "request"
  <2>1. m.via[1] \in Interface
    BY <1>3
  <2>2. m.via[1].host # Invalid
    BY <2>1, HostsAssumption DEF Interface, HostsAssumption
  <2> QED BY <1>1, <1>2, <1>3, <2>2 DEF MessageForm
<1>7. m.method # "INVITE"
  BY <1>1, <1>2, <1>6, NeverInvalid DEF RequestOK
<1>8. u \notin EdgeHosts
  BY HostsAssumption DEF HostsAssumption
<1>9. MessageForm(call, callee.at, t)
  <2>1. m.method = "REGISTER" => OpeningForm(call, t)
    BY <1>2, <1>5, <1>6 DEF MessageForm, OpeningForm
  <2>2. m.method \in {"ACK", "BYE"} => DialogForm(call, callee.at, t)
    BY <1>2, <1>4, <1>5, <1>6, <1>8 DEF MessageForm, DialogForm
  <2> QED BY <1>2, <1>5, <1>6, <1>7, <2>1, <2>2 DEF MessageForm
<1>10. callee'.at = callee.at /\ call' = call /\ TxForm' /\ CallerForm' /\ CalleeForm'
       /\ wire' \subseteq wire \cup {t}
  BY <1>1, <1>4 DEF FormInv, TxForm, CallerForm, CalleeForm, Replace
<1> QED BY <1>9, <1>10, FormByOne

LEMMA FormByLocation ==
    ASSUME RoutingInv, RoutingInv', FormInv, Vanish \/ (\E u \in call.phones : Register(u)) \/ Expire
    PROVE  FormInv'
<1>1. wire' \subseteq wire /\ UNCHANGED <<call, tx, caller, callee>>
  <2>1. CASE Vanish
    BY <2>1 DEF Vanish, Drop, Replace
  <2>2. CASE \E u \in call.phones : Register(u)
    BY <2>2 DEF Register
  <2>3. CASE Expire
    BY <2>3 DEF Expire
  <2> QED BY <2>1, <2>2, <2>3
<1>2. callee'.at = callee.at /\ call' = call /\ TxForm' /\ CallerForm' /\ CalleeForm'
  BY <1>1 DEF FormInv, TxForm, CallerForm, CalleeForm
<1> QED BY <1>1, <1>2, FormByNone

-----------------------------------------------------------------------------
(* What the phones send *)

LEMMA OneVia ==
    ASSUME NEW a, NEW t, t = <<a>>
    PROVE  t[Len(t)] = a
OBVIOUS

LEMMA OpeningSent ==
    ASSUME RoutingInv, NEW auth, NEW t, t = Opening(auth)
    PROVE  /\ MessageForm(call, callee.at, t)
           /\ MessageForm(call, callee.at, [t EXCEPT !.method = "CANCEL"])
<1> DEFINE door == Door(call.ua, call.edge)
           uri == [user |-> call.to.user, host |-> call.to.host, tp |-> None]
           route == IF call.route THEN <<door>> ELSE <<>>
           r0 == Request(call.ua, call.method, uri, route, door.host)
           list == <<>>
           self == Self(call.ua)
           via == <<self>>
           contact == Contact(call.ua)
<1>1. /\ DOMAIN r0 = MessageFields /\ r0.type = "request" /\ r0.method = call.method /\ r0.dest = door.host
      /\ r0.via = via /\ r0.recordRoute = list /\ r0.contact = contact /\ r0.path = list
  BY DEF Request, MessageFields
<1>2. t = [r0 EXCEPT !.auth = auth, !.token = call.token, !.ext = call.ext]
  BY DEF Opening
<1> HIDE DEF r0
<1>3. /\ DOMAIN t = MessageFields /\ t.type = "request" /\ t.method = call.method /\ t.dest = door.host
      /\ t.via = via /\ t.recordRoute = list /\ t.contact = contact /\ t.path = list
  BY <1>1, <1>2 DEF MessageFields
<1>4. via[Len(via)].host = call.ua /\ IsList(list) /\ contact = Contact(call.ua) /\ list = <<>>
  <2>1. via[Len(via)] = self
    BY OneVia
  <2> QED BY <2>1, OneOrTwo DEF Self
<1>5. call \in Calls => door.host \in OwnHosts(call.edge)
  <2> HAVE call \in Calls
  <2>1. call.edge \in EdgePorts /\ ~Throws(call.edge, Self(call.ua))
    BY CallsAssumption DEF CallsAssumption
  <2> QED BY <2>1, EdgeInterface DEF Door
<1> HIDE DEF door, uri, route, via, contact, list, self
<1>6. call.route \/ Straight(call, t)
  BY <1>3, <1>4, <1>5, CallEdge DEF Straight, RoutingInv, CallInv
<1>7. OpeningForm(call, t)
  BY <1>3, <1>4, <1>6 DEF OpeningForm
<1>8. call.method \in {"INVITE", "REGISTER"}
  BY CallEdge DEF RoutingInv, CallInv
<1>9. MessageForm(call, callee.at, t)
  BY <1>3, <1>7, <1>8 DEF MessageForm
<1>10. MessageForm(call, callee.at, [t EXCEPT !.method = "CANCEL"])
  <2> DEFINE x == [t EXCEPT !.method = "CANCEL"]
  <2>1. x.type = "request" /\ x.method = "CANCEL" /\ x.path = <<>>
    BY <1>3, <1>4 DEF MessageFields
  <2> HIDE DEF x
  <2>2. Distinct(x.path)
    <3>1. Distinct(<<>>)
      <4>1. Range(<<>>) = {} /\ Len(<<>>) = 0
        BY DEF Range
      <4> QED BY <4>1, FS_EmptySet DEF Distinct
    <3> QED BY <2>1, <3>1
  <2> QED BY <2>1, <2>2 DEF MessageForm, x
<1> QED BY <1>9, <1>10

\* A request inside the dialog goes to its first Route, or to the phone.
LEMMA DialogSent ==
    ASSUME NEW c, NEW at, NEW u \in DOMAIN Phones, NEW side, NEW auth, NEW method \in {"ACK", "BYE"},
           IsList(side.routes),
           side.target.host \in EdgeHosts => method = "BYE" /\ IsWeb(c.ua) /\ u = at
    PROVE  /\ MessageForm(c, at, InDialog(u, method, side))
           /\ MessageForm(c, at, [InDialog(u, method, side) EXCEPT !.auth = auth])
<1> DEFINE r0 == InDialog(u, method, side)
           x == [r0 EXCEPT !.auth = auth]
           target == side.target
           routes == side.routes
           self == Self(u)
           via == <<self>>
           list == <<>>
<1>1. /\ DOMAIN r0 = MessageFields /\ r0.type = "request" /\ r0.method = method /\ r0.uri = target
      /\ r0.route = routes /\ r0.dest = NextHop(routes, target) /\ r0.via = via /\ r0.path = list
  BY DEF InDialog, Request, MessageFields
<1> HIDE DEF r0
<1>2. /\ x.type = "request" /\ x.method = method /\ x.uri = target
      /\ x.route = routes /\ x.dest = NextHop(routes, target) /\ x.via = via /\ x.path = list
  BY <1>1 DEF MessageFields
<1> HIDE DEF x
<1>3. via[Len(via)].host = u /\ Range(list) = {} /\ Distinct(list) /\ IsList(routes)
      /\ (target.host \in EdgeHosts => method = "BYE" /\ IsWeb(c.ua) /\ u = at)
  <2>1. via[Len(via)] = self
    BY OneVia
  <2>2. Range(<<>>) = {} /\ Len(<<>>) = 0
    BY DEF Range
  <2>3. Distinct(<<>>)
    BY <2>2, FS_EmptySet DEF Distinct
  <2> QED BY <2>1, <2>2, <2>3 DEF Self
<1> HIDE DEF via, self, list, target, routes
<1>4. ASSUME NEW m, m.type = "request", m.method = method, m.uri = target, m.route = routes,
             m.dest = NextHop(routes, target), m.via = via, m.path = list
      PROVE  MessageForm(c, at, m)
  <2>1. DialogForm(c, at, m)
    BY <1>3, <1>4 DEF DialogForm
  <2> QED BY <1>4, <2>1 DEF MessageForm
<1> QED BY <1>1, <1>2, <1>4 DEF r0, x

LEMMA FormByCaller ==
    ASSUME RoutingInv, RoutingInv', FormInv, Place \/ Opened \/ Cancel \/ CallerHangsUp
    PROVE  FormInv'
<1>1. DOMAIN caller = {"state", "code", "tried", "cancels", "routes", "target"}
      /\ (caller.state = "up" => IsList(caller.routes) /\ caller.target.host \notin EdgeHosts)
  BY DEF FormInv, CallerForm
<1>2. ASSUME UNCHANGED <<call, tx, callee>>
      PROVE  callee'.at = callee.at /\ call' = call /\ TxForm' /\ CalleeForm'
  BY <1>2 DEF FormInv, TxForm, CalleeForm
<1>3. CASE Place
  <2> DEFINE t == Opening(None)
  <2>1. wire' \subseteq wire \cup {t} /\ UNCHANGED <<call, tx, callee>>
        /\ caller' = [caller EXCEPT !.state = "calling"]
    BY <1>3 DEF Place
  <2>2. MessageForm(call, callee.at, t)
    <3> DEFINE none == None
    <3>1. t = Opening(none)
      OBVIOUS
    <3> HIDE DEF t, none
    <3> QED BY <3>1, OpeningSent
  <2> HIDE DEF t
  <2>3. CallerForm'
    BY <1>1, <2>1 DEF CallerForm
  <2> QED BY <1>2, <2>1, <2>2, <2>3, FormByOne
<1>4. CASE Cancel
  <2> DEFINE x == Opening(None)
             t == [x EXCEPT !.method = "CANCEL"]
  <2>1. wire' \subseteq wire \cup {t} /\ UNCHANGED <<call, tx, callee>>
        /\ caller.state = "calling" /\ caller' = [caller EXCEPT !.cancels = TRUE]
    BY <1>4 DEF Cancel
  <2>2. MessageForm(call, callee.at, t)
    <3> DEFINE none == None
    <3>1. x = Opening(none)
      OBVIOUS
    <3> HIDE DEF x, none
    <3> QED BY <3>1, OpeningSent
  <2> HIDE DEF t
  <2>3. CallerForm'
    BY <1>1, <2>1 DEF CallerForm
  <2> QED BY <1>2, <2>1, <2>2, <2>3, FormByOne
<1>5. CASE CallerHangsUp
  <2> DEFINE method == "BYE"
             side == caller
             u == call.ua
             t == InDialog(u, method, side)
  <2>1. wire' \subseteq wire \cup {t} /\ UNCHANGED <<call, tx, callee>>
        /\ caller.state = "up" /\ caller' = [caller EXCEPT !.state = "bye"]
    BY <1>5 DEF CallerHangsUp, HangUp
  <2>2. MessageForm(call, callee.at, t)
    <3> DEFINE c == call
               at == callee.at
    <3>1. u \in DOMAIN Phones /\ method \in {"ACK", "BYE"} /\ IsList(side.routes)
          /\ side.target.host \notin EdgeHosts /\ t = InDialog(u, method, side)
      BY <1>1, <2>1, UaIsPhone
    <3> HIDE DEF c, at, u, method, side, t
    <3>2. MessageForm(c, at, t)
      BY <3>1, DialogSent
    <3> QED BY <3>2 DEF c, at
  <2> HIDE DEF t
  <2>3. CallerForm'
    BY <1>1, <2>1 DEF CallerForm
  <2> QED BY <1>2, <2>1, <2>2, <2>3, FormByOne
<1>6. CASE Opened
  <2>1. PICK m \in wire :
        /\ m.type = "response" /\ m.method = call.method /\ caller.state = "calling"
        /\ IF m.code = UNAUTHORIZED /\ call.secret # None /\ ~caller.tried
           THEN /\ caller' = [caller EXCEPT !.tried = TRUE]
                /\ Replace(m, {Opening(call.secret)})
           ELSE IF m.code = OK /\ m.method = "INVITE"
           THEN LET up == [caller EXCEPT !.state = "up", !.code = OK,
                              !.routes = Reverse(m.recordRoute),
                              !.target = [user |-> call.to.user, host |-> m.contact.host,
                                          tp |-> m.contact.tp]]
                IN /\ caller' = up
                   /\ Replace(m, {[InDialog(call.ua, "ACK", up) EXCEPT !.auth =
                                      IF caller.tried THEN call.secret ELSE None]})
           ELSE /\ caller' = [caller EXCEPT !.state = "over", !.code = m.code]
                /\ Replace(m, {})
        /\ UNCHANGED <<call, loc, tx, callee, lost, failed, registers>>
    BY <1>6 DEF Opened
  <2>2. /\ callee'.at = callee.at /\ call' = call /\ TxForm' /\ CalleeForm'
        /\ MessageForm(call, callee.at, m)
    BY <1>2, <2>1 DEF FormInv
  <2>3. CASE caller' = [caller EXCEPT !.tried = TRUE] /\ Replace(m, {Opening(call.secret)})
    <3> DEFINE auth == call.secret
               t == Opening(auth)
    <3>1. wire' \subseteq wire \cup {t} /\ t = Opening(auth)
      BY <2>3 DEF Replace
    <3> HIDE DEF auth, t
    <3>2. MessageForm(call, callee.at, t)
      BY <3>1, OpeningSent
    <3>3. CallerForm'
      BY <1>1, <2>1, <2>3 DEF CallerForm
    <3> QED BY <2>2, <3>1, <3>2, <3>3, FormByOne
  <2>4. CASE m.code = OK /\ m.method = "INVITE" /\ ~(call.secret # None /\ ~caller.tried /\ m.code = UNAUTHORIZED)
    <3> DEFINE up == [caller EXCEPT !.state = "up", !.code = OK,
                              !.routes = Reverse(m.recordRoute),
                              !.target = [user |-> call.to.user, host |-> m.contact.host,
                                          tp |-> m.contact.tp]]
               method == "ACK"
               auth == IF caller.tried THEN call.secret ELSE None
               u == call.ua
               t == [InDialog(u, method, up) EXCEPT !.auth = auth]
    <3>1. caller' = up /\ Replace(m, {t})
      BY <2>1, <2>4
    <3>2. OpeningForm(call, m)
      BY <2>2, <2>4 DEF MessageForm
    <3>3. IsList(m.recordRoute) /\ m.contact.host \notin EdgeHosts
      BY <2>1, <2>4, <3>2 DEF OpeningForm
    <3>4. /\ DOMAIN up = {"state", "code", "tried", "cancels", "routes", "target"}
          /\ up.routes = Reverse(m.recordRoute) /\ up.target.host = m.contact.host
      BY <1>1
    <3> HIDE DEF up
    <3>5. IsList(up.routes) /\ up.target.host \notin EdgeHosts
      BY <3>3, <3>4, Reversed
    <3>6. CallerForm'
      BY <3>1, <3>4, <3>5 DEF CallerForm
    <3>7. MessageForm(call, callee.at, t)
      <4> DEFINE c == call
                 at == callee.at
                 side == up
      <4>1. u \in DOMAIN Phones /\ method \in {"ACK", "BYE"} /\ IsList(side.routes)
            /\ side.target.host \notin EdgeHosts /\ t = [InDialog(u, method, side) EXCEPT !.auth = auth]
        BY <3>5, UaIsPhone
      <4> HIDE DEF c, at, u, method, side, t, auth
      <4>2. MessageForm(c, at, t)
        BY <4>1, DialogSent
      <4> QED BY <4>2 DEF c, at
    <3> HIDE DEF t
    <3>8. wire' \subseteq wire \cup {t}
      BY <3>1 DEF Replace
    <3> QED BY <2>2, <3>6, <3>7, <3>8, FormByOne
  <2>5. CASE caller' = [caller EXCEPT !.state = "over", !.code = m.code] /\ Replace(m, {})
    <3>1. wire' \subseteq wire /\ CallerForm'
      BY <1>1, <2>5 DEF Replace, CallerForm
    <3> QED BY <2>2, <3>1, FormByNone
  <2> QED BY <2>1, <2>3, <2>4, <2>5
<1> QED BY <1>3, <1>4, <1>5, <1>6

LEMMA FormByCallee ==
    ASSUME RoutingInv, RoutingInv', FormInv, Ring \/ PickUp \/ Cancelled \/ Acked \/ CalleeHangsUp \/ Ended
    PROVE  FormInv'
<1>0. /\ DOMAIN callee = {"state", "at", "req", "routes", "target"}
      /\ IF callee.state = "idle" THEN callee.at = None
         ELSE callee.at \in DOMAIN Phones /\ MessageOK(callee.req)
      /\ None \notin DOMAIN Phones
  BY HostsAssumption DEF RoutingInv, CalleeInv, HostsAssumption
<1>1. ASSUME UNCHANGED <<call, tx, caller>> PROVE call' = call /\ TxForm' /\ CallerForm'
  BY <1>1 DEF FormInv, TxForm, CallerForm
<1>2. ASSUME call' = call, callee.state # "idle", NEW state, callee' = [callee EXCEPT !.state = state]
      PROVE  CalleeForm' /\ callee'.at = callee.at
  <2>1. /\ callee'.at = callee.at /\ callee'.req = callee.req /\ callee'.routes = callee.routes
        /\ callee'.target = callee.target
    BY <1>0, <1>2
  <2> QED BY <1>2, <2>1 DEF FormInv, CalleeForm
<1>3. ASSUME call' = call, callee' = callee PROVE CalleeForm' /\ callee'.at = callee.at
  BY <1>3 DEF FormInv, CalleeForm
<1>4. CASE Ring
  <2>1. PICK m \in wire :
        /\ m.type = "request" /\ m.method \in {"INVITE", "REGISTER"}
        /\ m.dest \in DOMAIN Phones /\ callee.state = "idle"
        /\ callee' = [state |-> "ringing", at |-> m.dest, req |-> m, routes |-> m.recordRoute,
                      target |-> [user |-> m.from.user, host |-> m.contact.host, tp |-> m.contact.tp]]
        /\ Replace(m, {}) /\ UNCHANGED <<call, loc, tx, caller, lost, failed, registers>>
    BY <1>4 DEF Ring
  <2>2. OpeningForm(call, m)
    BY <2>1 DEF FormInv, MessageForm
  <2>3. m.contact.host \notin EdgeHosts \/ IsWeb(call.ua)
    BY <2>1, <2>2, UaIsPhone, Contacts DEF OpeningForm
  <2>4. callee'.req = m /\ callee'.routes = m.recordRoute /\ callee'.target.host = m.contact.host
    BY <2>1
  <2>5. CalleeForm'
    BY <2>1, <2>2, <2>3, <2>4 DEF CalleeForm, OpeningForm
  <2>6. wire' \subseteq wire
    BY <2>1 DEF Replace
  <2> QED BY <1>1, <2>1, <2>5, <2>6, FormByNone
<1>5. CASE PickUp
  <2> DEFINE m == callee.req
             at == callee.at
             c == call
             r0 == Response(m, OK)
             t == [r0 EXCEPT !.contact = Contact(at)]
  <2>1. /\ callee.state = "ringing" /\ callee' = [callee EXCEPT !.state = "up"]
        /\ wire' \subseteq wire \cup {t} /\ UNCHANGED <<call, tx, caller>>
    BY <1>5 DEF PickUp
  <2>2. /\ at \in DOMAIN Phones /\ MessageOK(m) /\ m.method \in {"INVITE", "REGISTER"} /\ OpeningForm(c, m)
    BY <1>0, <2>1 DEF FormInv, CalleeForm
  <2> HIDE DEF m, at, c
  <2>3. /\ DOMAIN r0 = MessageFields /\ r0.type = "response" /\ r0.method = m.method /\ r0.via = m.via
        /\ r0.recordRoute = m.recordRoute /\ r0.dest = m.via[1].host
    BY <2>2 DEF Response, MessageOK, MessageFields
  <2> HIDE DEF r0
  <2>4. /\ t.type = "response" /\ t.method = m.method /\ t.via = m.via
        /\ t.recordRoute = m.recordRoute /\ t.dest = m.via[1].host /\ t.contact = Contact(at)
    BY <2>3 DEF MessageFields
  <2> HIDE DEF t
  <2>5. OpeningForm(c, t)
    BY <2>2, <2>4, Contacts DEF OpeningForm
  <2>6. MessageForm(c, at, t)
    BY <2>2, <2>4, <2>5 DEF MessageForm
  <2>7. CalleeForm' /\ callee'.at = callee.at
    BY <1>2, <2>1
  <2>8. MessageForm(call, callee.at, t)
    BY <2>6 DEF c, at
  <2> QED BY <1>1, <2>1, <2>7, <2>8, FormByOne
<1>6. CASE Cancelled \/ Acked
  <2>1. PICK m \in wire :
        /\ \/ callee' = callee
           \/ \E state : callee.state # "idle" /\ callee' = [callee EXCEPT !.state = state]
        /\ Replace(m, {}) /\ UNCHANGED <<call, tx, caller>>
    <3>1. "ringing" # "idle" /\ "up" # "idle"
      OBVIOUS
    <3> QED BY <1>6, <3>1 DEF Cancelled, Acked
  <2>2. CalleeForm' /\ callee'.at = callee.at
    BY <1>2, <1>3, <2>1
  <2>3. wire' \subseteq wire
    BY <2>1 DEF Replace
  <2> QED BY <1>1, <2>1, <2>2, <2>3, FormByNone
<1>7. CASE CalleeHangsUp
  <2> DEFINE method == "BYE"
             side == callee
             u == callee.at
             at == callee.at
             c == call
             t == InDialog(u, method, side)
  <2>1. /\ callee.state = "talking" /\ callee' = [callee EXCEPT !.state = "bye"]
        /\ wire' \subseteq wire \cup {t} /\ UNCHANGED <<call, tx, caller>>
    BY <1>7 DEF CalleeHangsUp, HangUp
  <2>2. u \in DOMAIN Phones /\ method \in {"ACK", "BYE"} /\ method = "BYE" /\ IsList(side.routes) /\ u = at
        /\ (side.target.host \in EdgeHosts => IsWeb(c.ua)) /\ t = InDialog(u, method, side)
    BY <1>0, <2>1 DEF FormInv, CalleeForm
  <2>3. CalleeForm' /\ callee'.at = callee.at
    BY <1>2, <2>1
  <2>4. MessageForm(call, callee.at, t)
    <3> HIDE DEF c, at, u, method, side, t
    <3>1. MessageForm(c, at, t)
      BY <2>2, DialogSent
    <3> QED BY <3>1 DEF c, at
  <2> HIDE DEF t
  <2> QED BY <1>1, <2>1, <2>3, <2>4, FormByOne
<1>8. CASE Ended
  <2>1. PICK m \in wire :
        /\ m.method = "BYE" /\ m.dest \in DOMAIN Phones
        /\ caller' = IF m.dest = call.ua THEN [caller EXCEPT !.state = "over"] ELSE caller
        /\ callee' = IF m.dest = callee.at THEN [callee EXCEPT !.state = "over"] ELSE callee
        /\ Replace(m, IF m.type = "request" THEN {Response(m, OK)} ELSE {})
        /\ UNCHANGED <<call, tx>>
    BY <1>8 DEF Ended
  <2> DEFINE t == Response(m, OK)
  <2>2. MessageOK(m)
    BY DEF RoutingInv, WireInv
  <2>3. t.type = "response" /\ t.method = "BYE" /\ t.via = m.via /\ t.dest = m.via[1].host
    BY <2>1, <2>2 DEF Response, MessageOK, MessageFields
  <2>4. wire' \subseteq wire \cup {t}
    BY <2>1 DEF Replace
  <2> HIDE DEF t
  <2>5. MessageForm(call, callee.at, t)
    BY <2>3 DEF MessageForm
  <2>6. CalleeForm' /\ callee'.at = callee.at
    BY <1>0, <1>2, <1>3, <2>1
  <2>7. TxForm' /\ CallerForm'
    BY <2>1 DEF FormInv, TxForm, CallerForm
  <2> QED BY <2>1, <2>4, <2>5, <2>6, <2>7, FormByOne
<1> QED BY <1>4, <1>5, <1>6, <1>7, <1>8

LEMMA InitForm == Init => FormInv
BY DEF Init, FormInv, TxForm, CallerForm, CalleeForm

LEMMA NextForm == RoutingInv /\ RoutingInv' /\ FormInv /\ [Next]_vars => FormInv'
<1> SUFFICES ASSUME RoutingInv, RoutingInv', FormInv, [Next]_vars PROVE FormInv'
  OBVIOUS
<1>1. CASE Edges
  BY <1>1, FormByRequest, FormByResponse DEF Edges
<1>2. CASE Tunnel
  BY <1>2, FormByTunnel
<1>3. CASE Vanish \/ (\E u \in call.phones : Register(u)) \/ Expire
  BY <1>3, FormByLocation
<1>4. CASE Place \/ Opened \/ Cancel \/ CallerHangsUp
  BY <1>4, FormByCaller
<1>5. CASE Ring \/ PickUp \/ Cancelled \/ Acked \/ CalleeHangsUp \/ Ended
  BY <1>5, FormByCallee
<1>6. CASE UNCHANGED vars
  BY <1>6 DEF vars, FormInv, TxForm, CallerForm, CalleeForm
<1> QED BY <1>1, <1>2, <1>3, <1>4, <1>5, <1>6 DEF Next

LEMMA Forms == Spec => [](RoutingInv /\ FormInv)
<1>1. Init => RoutingInv /\ FormInv
  BY InitKeeps, InitForm
<1>2. RoutingInv /\ FormInv /\ [Next]_vars => (RoutingInv /\ FormInv)'
  BY NextKeeps, NextForm
<1> QED BY <1>1, <1>2, PTL DEF Spec

(***************************************************************************)
(* Circulation: whatever the edgeports, their nets, the registrations and  *)
(* the calls are, a request comes through an edgeport twice only when the  *)
(* phone put a Route of its own, or when a BYE of the callee is for a      *)
(* browser.  It needs no hypothesis about the layout.                      *)
(***************************************************************************)
THEOREM Circulation == Spec => []OnlyTheseCirculate
<1>1. RoutingInv /\ FormInv => OnlyTheseCirculate
  <2> SUFFICES ASSUME RoutingInv, FormInv, NEW m \in Requests, Cardinality(Range(m.path)) < Len(m.path),
                      ~call.route
               PROVE  m.method = "BYE" /\ IsWeb(call.ua) /\ m.via[Len(m.via)].host = callee.at
    BY DEF OnlyTheseCirculate
  <2>1. /\ m \in wire /\ m.type = "request" /\ MessageOK(m) /\ m.method \in Methods
        /\ MessageForm(call, callee.at, m)
    BY DEF Requests, RoutingInv, WireInv, MessageOK, FormInv
  <2>2. ~Distinct(m.path)
    <3>1. m.path \in Seq(EdgePorts)
      BY <2>1 DEF MessageOK
    <3>2. Len(m.path) \in Nat
      BY <3>1
    <3> QED BY <3>2 DEF Distinct
  <2>3. m.method \notin {"INVITE", "REGISTER"}
    <3>1. call.edge \in EdgePorts /\ call.method = "INVITE"
      BY CallEdge DEF RoutingInv, CallInv
    <3> QED BY <2>1, <2>2, <3>1, StraightDistinct DEF MessageForm, OpeningForm
  <2>4. m.method # "CANCEL"
    BY <2>1, <2>2 DEF MessageForm
  <2> QED BY <2>1, <2>2, <2>3, <2>4 DEF MessageForm, DialogForm, Methods
<1> QED BY <1>1, Forms, PTL

-----------------------------------------------------------------------------
(* Whoever waits has an answer coming.  What can end a call before it is   *)
(* answered is a CANCEL that reaches the phone; the edgeport that sends it *)
(* on has answered the caller, and that answer is still on its way.        *)

\* The answer of the first edgeport to a caller that cancels.
Final(c, m) == m.type = "response" /\ m.method = "INVITE" /\ m.code = TERMINATED /\ m.dest = c.ua

Answered == call.route \/ caller.state # "calling" \/ \E t \in wire : Final(call, t)

\* A CANCEL that an edgeport sent on, or an answer that its stack will keep.
Beyond(c, m) ==
    \/ m.method = "CANCEL" /\ m.path # <<>>
    \/ m.type = "response" /\ m.code = TERMINATED /\ m.dest # c.ua

\* What keeps a caller waiting for a reason.
Live(c, m) == m.method = c.method /\ (m.type = "response" /\ m.code = TERMINATED => m.dest = c.ua)

Begun == caller.state \notin {"idle", "calling"}

InTurn ==
    /\ caller.state = "idle" => wire = {} /\ callee.state = "idle"
    /\ callee.state \in {"talking", "bye"} => Begun
    /\ \A m \in wire : m.method \in {"ACK", "BYE"} => Begun

CancelsForm ==
    \A m \in wire :
        /\ m.method = "CANCEL" => caller.cancels
        /\ m.method = "CANCEL" /\ m.path = <<>> => call.route \/ m.dest \in OwnHosts(call.edge)
        /\ Beyond(call, m) => Answered

Waiting ==
    caller.state = "calling" =>
        \/ call.method \in lost \/ callee.state = "ringing"
        \/ call.route /\ caller.cancels
        \/ \E m \in wire : Live(call, m)

WaitInv == InTurn /\ CancelsForm /\ Waiting

\* One message for others, without a word from the phones.
LEMMA WaitSwap ==
    ASSUME WaitInv, NEW m \in wire, NEW new, wire' = (wire \ {m}) \cup new,
           call' = call, callee' = callee, caller'.state = caller.state, caller'.cancels = caller.cancels,
           lost \subseteq lost', ~Final(call, m),
           Live(call, m) => call.method \in lost' \/ \E t \in new : Live(call, t),
           \A t \in new :
              /\ t.method \in {"ACK", "BYE"} => m.method \in {"ACK", "BYE"}
              /\ t.method = "CANCEL" => m.method = "CANCEL"
              /\ t.method = "CANCEL" /\ t.path = <<>> =>
                    call.route \/ (m.path = <<>> /\ t.dest = m.dest)
              /\ Beyond(call, t) => Beyond(call, m) \/ Answered \/ \E x \in new : Final(call, x)
    PROVE  WaitInv'
<1>1. InTurn'
  BY DEF WaitInv, InTurn, Begun
<1>2. Answered \/ (\E x \in new : Final(call, x)) => Answered'
  BY DEF Answered
<1>3. CancelsForm'
  <2> SUFFICES ASSUME NEW t \in wire'
               PROVE  /\ t.method = "CANCEL" => caller.cancels
                      /\ t.method = "CANCEL" /\ t.path = <<>> => call.route \/ t.dest \in OwnHosts(call.edge)
                      /\ Beyond(call, t) => Answered'
    BY DEF CancelsForm
  <2>1. CASE t \in wire
    BY <1>2, <2>1 DEF WaitInv, CancelsForm
  <2>2. CASE t \in new
    BY <1>2, <2>2 DEF WaitInv, CancelsForm
  <2> QED BY <2>1, <2>2
<1>4. Waiting'
  <2>1. \/ caller.state # "calling" \/ call.method \in lost' \/ callee.state = "ringing"
        \/ call.route /\ caller.cancels
        \/ \E t \in wire' : Live(call, t)
    <3> SUFFICES ASSUME caller.state = "calling", call.method \notin lost', callee.state # "ringing",
                        ~(call.route /\ caller.cancels)
                 PROVE  \E t \in wire' : Live(call, t)
      OBVIOUS
    <3>1. PICK t \in wire : Live(call, t)
      BY DEF WaitInv, Waiting
    <3>2. CASE t = m
      BY <3>1, <3>2
    <3>3. CASE t # m
      BY <3>1, <3>3
    <3> QED BY <3>2, <3>3
  <2>2. call' = call /\ callee' = callee /\ caller'.state = caller.state /\ caller'.cancels = caller.cancels
    OBVIOUS
  <2> QED BY ONLY <2>1, <2>2 DEF Waiting
<1> QED BY <1>1, <1>3, <1>4 DEF WaitInv

\* What is dropped is on the list.
LEMMA WaitDrop ==
    ASSUME WaitInv, NEW m \in wire, ~Final(call, m), Drop(m), UNCHANGED <<call, caller, callee>>
    PROVE  WaitInv'
<1> DEFINE new == {}
<1>1. wire' = (wire \ {m}) \cup new /\ lost' = lost \cup {m.method}
  BY DEF Drop, Replace
<1>2. Live(call, m) => call.method \in lost'
  BY <1>1 DEF Live
<1>3. \A t \in new : FALSE
  OBVIOUS
<1> HIDE DEF new
<1> QED BY <1>1, <1>2, <1>3, WaitSwap

LEMMA WaitByRequest ==
    ASSUME RoutingInv, FormInv, WaitInv, NEW e \in EdgePorts, HandleRequest(e)
    PROVE  WaitInv'
<1>1. PICK m \in wire :
        /\ m.type = "request" /\ m.dest \in OwnHosts(e) /\ UNCHANGED <<call, caller, callee>>
        /\ \/ Drop(m) \/ Refusal(m)
           \/ m.method = "CANCEL" /\ \E out : SendCancel(e, m, out)
           \/ m.method # "CANCEL" /\ \E t : Onward(e, m, t)
  BY Handled
<1>2. MessageOK(m) /\ ~Final(call, m)
  BY <1>1 DEF RoutingInv, WireInv, Final
<1>3. CASE Drop(m)
  BY <1>1, <1>2, <1>3, WaitDrop
<1>4. CASE Refusal(m)
  <2>1. PICK code \in Refusals : Replace(m, {Response(m, code)}) /\ UNCHANGED <<tx, lost>>
    BY <1>4 DEF Refusal
  <2> DEFINE t == Response(m, code)
             new == {t}
  <2>2. /\ t.type = "response" /\ t.method = m.method /\ t.method = "INVITE" /\ t.code = code
        /\ code # TERMINATED /\ code \in ResponseType
    BY <1>2, <1>4, RefusalCodes DEF Refusal, Response, MessageOK, MessageFields
  <2>3. wire' = (wire \ {m}) \cup new /\ lost \subseteq lost'
    BY <2>1 DEF Replace
  <2> HIDE DEF t
  <2>4. Live(call, m) => Live(call, t)
    BY <2>2 DEF Live
  <2>5. ~Beyond(call, t)
    BY <2>2 DEF Beyond
  <2>6. /\ Live(call, m) => \E x \in new : Live(call, x)
        /\ \A x \in new : x.method = "INVITE" /\ ~Beyond(call, x)
    BY <2>2, <2>4, <2>5
  <2> HIDE DEF new
  <2> QED BY <1>1, <1>2, <2>3, <2>6, WaitSwap
<1>5. CASE m.method = "CANCEL" /\ \E out : SendCancel(e, m, out)
  <2> DEFINE x == tx[e]
             one == CancelOf(x)
             two == Response([x EXCEPT !.via = Tail(@)], TERMINATED)
             new == {one, two}
  <2>1. \/ Drop(m)
        \/ x # None /\ wire' = (wire \ {m}) \cup new /\ UNCHANGED <<tx, lost>>
    BY <1>5 DEF SendCancel, Replace
  <2>2. CASE Drop(m)
    BY <1>1, <1>2, <2>2, WaitDrop
  <2>3. CASE x # None /\ wire' = (wire \ {m}) \cup new /\ UNCHANGED <<tx, lost>>
    <3>1. /\ MessageOK(x) /\ x.method = "INVITE" /\ x.type = "request" /\ OpeningForm(call, x)
          /\ x.path[Len(x.path)] = e /\ x.path # <<>>
      BY <2>3 DEF RoutingInv, TxInv, TxOK, FormInv, TxForm
    <3>2. /\ one.method = "CANCEL" /\ one.path = x.path /\ one.type = "request"
          /\ two.method = "INVITE" /\ two.type = "response" /\ two.code = TERMINATED
          /\ two.dest = Tail(x.via)[1].host
      BY <3>1 DEF CancelOf, Response, MessageOK, MessageFields
    <3>3. x.path # <<>>
      BY <3>1
    <3> HIDE DEF one, two, x
    <3>4. Beyond(call, m) \/ Answered \/ Final(call, two)
      <4>1. SUFFICES ASSUME m.path = <<>>, ~call.route
                     PROVE  Final(call, two)
        BY <1>5 DEF Beyond, Answered
      <4>2. e = call.edge /\ call.edge \in EdgePorts
        BY <1>1, <1>5, <4>1, CallEdge, HostsAssumption DEF WaitInv, CancelsForm, HostsAssumption
      <4>3. x.path = <<e>>
        BY <3>1, <3>3, <4>1, <4>2 DEF OpeningForm, Straight
      <4>4. Tail(x.via)[1].host = call.ua
        BY <3>1, <4>3 DEF MessageOK, Traced, OpeningForm
      <4> QED BY <3>2, <4>4 DEF Final
    <3>5. \A t \in new : /\ t.method \notin {"ACK", "BYE"} /\ ~(t.method = "CANCEL" /\ t.path = <<>>)
                         /\ Beyond(call, m) \/ Answered \/ \E z \in new : Final(call, z)
      BY <3>2, <3>3, <3>4
    <3>6. ~Live(call, m)
      BY <1>5, CallEdge DEF Live, RoutingInv, CallInv
    <3> HIDE DEF new
    <3> QED BY <1>1, <1>2, <1>5, <2>3, <3>5, <3>6, WaitSwap
  <2> QED BY <2>1, <2>2, <2>3
<1>6. CASE m.method # "CANCEL" /\ \E t : Onward(e, m, t)
  <2>1. PICK t : Onward(e, m, t)
    BY <1>6
  <2> DEFINE new == {t}
  <2>2. t.type = "request" /\ t.method = m.method /\ wire' = (wire \ {m}) \cup new /\ lost' = lost
    BY <2>1 DEF Onward, Replace
  <2>3. (Live(call, m) => Live(call, t)) /\ ~Beyond(call, t)
    BY <1>6, <2>2 DEF Live, Beyond
  <2>4. /\ Live(call, m) => \E x \in new : Live(call, x)
        /\ \A x \in new : x.method = m.method /\ ~Beyond(call, x) /\ x.method # "CANCEL"
    BY <1>6, <2>2, <2>3
  <2> HIDE DEF new
  <2> QED BY <1>1, <1>2, <2>2, <2>4, WaitSwap
<1> QED BY <1>1, <1>3, <1>4, <1>5, <1>6

LEMMA UaApart ==
    ASSUME RoutingInv
    PROVE  call.ua \in DOMAIN Phones /\ call.ua # Invalid /\ \A e \in EdgePorts : call.ua \notin OwnHosts(e)
BY UaIsPhone, HostsAssumption DEF HostsAssumption, EdgeHosts

LEMMA TailEmpty ==
    ASSUME NEW S, NEW via \in Seq(S), via # <<>>, NEW t, t = Tail(via), t = <<>>
    PROVE  Len(via) = 1
<1>1. Len(t) = Len(via) - 1 /\ Len(via) \in Nat
  BY ONLY via \in Seq(S), via # <<>>, t = Tail(via)
<1>2. Len(t) = 0
  BY ONLY t = <<>>
<1> QED BY <1>1, <1>2

LEMMA WaitByResponse ==
    ASSUME RoutingInv, FormInv, WaitInv, NEW e \in EdgePorts, HandleResponse(e)
    PROVE  WaitInv'
<1>1. PICK m \in wire :
        /\ m.type = "response" /\ m.dest \in OwnHosts(e)
        /\ LET back == removeTopVia(m)
           IN Replace(m, IF m.code = TERMINATED \/ back.via = <<>> THEN {}
                         ELSE {[back EXCEPT !.dest = back.via[1].host]})
        /\ UNCHANGED <<call, loc, tx, caller, callee, lost, failed, registers>>
  BY DEF HandleResponse
<1> DEFINE back == removeTopVia(m)
           w == Tail(m.via)
           t == [back EXCEPT !.dest = back.via[1].host]
           none == {}
           new == {t}
<1>2. /\ MessageOK(m) /\ DOMAIN m = MessageFields /\ m.via \in Seq(Interface) /\ m.via # <<>>
      /\ MessageForm(call, callee.at, m) /\ m.dest # call.ua
  BY <1>1, UaApart DEF RoutingInv, WireInv, MessageOK, FormInv
<1>3. back.via = w /\ t.type = "response" /\ t.method = m.method /\ t.code = m.code
  BY <1>1, <1>2 DEF removeTopVia, MessageFields
<1>4. \/ (m.code = TERMINATED \/ w = <<>>) /\ Replace(m, none)
      \/ m.code # TERMINATED /\ Replace(m, new)
  BY <1>1, <1>3
<1> HIDE DEF t, back
<1>5. ~Final(call, m) /\ m.method # "CANCEL"
  BY <1>1, <1>2 DEF Final, MessageForm
<1>6. CASE (m.code = TERMINATED \/ w = <<>>) /\ Replace(m, none)
  <2>1. w = <<>> => m.via[Len(m.via)] = m.via[1]
    BY <1>2, TailEmpty
  <2> HIDE DEF w
  <2>2. call.method \in {"INVITE", "REGISTER"}
    BY CallEdge DEF RoutingInv, CallInv
  <2>3. ~Live(call, m)
    BY <1>1, <1>2, <1>6, <2>1, <2>2 DEF Live, MessageForm, OpeningForm
  <2>4. wire' = (wire \ {m}) \cup none /\ \A x \in none : FALSE
    BY <1>6 DEF Replace
  <2> HIDE DEF none
  <2> QED BY <1>1, <1>5, <2>3, <2>4, WaitSwap
<1>7. CASE m.code # TERMINATED /\ Replace(m, new)
  <2>1. wire' = (wire \ {m}) \cup new
    BY <1>7 DEF Replace
  <2>2. (Live(call, m) => Live(call, t)) /\ ~Beyond(call, t)
    BY <1>3, <1>5, <1>7 DEF Live, Beyond
  <2>3. /\ Live(call, m) => \E x \in new : Live(call, x)
        /\ \A x \in new : x.method = m.method /\ ~Beyond(call, x) /\ x.method # "CANCEL"
    BY <1>3, <1>5, <2>2
  <2> HIDE DEF new
  <2> QED BY <1>1, <1>5, <2>1, <2>3, WaitSwap
<1> QED BY <1>4, <1>6, <1>7

LEMMA WaitByTunnel ==
    ASSUME RoutingInv, FormInv, WaitInv, Tunnel
    PROVE  WaitInv'
<1>1. PICK m \in wire, u \in DOMAIN Phones :
        /\ m.dest = Invalid /\ Phones[u].web /\ m.path[Len(m.path)] \in Phones[u].edges
        /\ Replace(m, {[m EXCEPT !.dest = u]})
        /\ UNCHANGED <<call, loc, tx, caller, callee, lost, failed, registers>>
  BY DEF Tunnel
<1> DEFINE t == [m EXCEPT !.dest = u]
           new == {t}
<1>2. MessageOK(m) /\ DOMAIN m = MessageFields /\ m.dest # call.ua
  BY <1>1, UaApart DEF RoutingInv, WireInv, MessageOK
<1>3. /\ t.type = m.type /\ t.method = m.method /\ t.code = m.code /\ t.path = m.path /\ t.dest = u
      /\ wire' = (wire \ {m}) \cup new
  BY <1>1, <1>2 DEF MessageFields, Replace
<1> HIDE DEF t
<1>4. /\ ~Final(call, m) /\ (Live(call, m) => Live(call, t)) /\ (Beyond(call, t) => Beyond(call, m))
  BY <1>2, <1>3 DEF Final, Live, Beyond
<1>5. m.method = "CANCEL" /\ m.path = <<>> => call.route
  BY <1>1, CallEdge, HostsAssumption DEF WaitInv, CancelsForm, HostsAssumption, EdgeHosts
<1>6. /\ Live(call, m) => \E x \in new : Live(call, x)
      /\ \A x \in new : /\ x.method = m.method /\ (Beyond(call, x) => Beyond(call, m))
                        /\ x.method = "CANCEL" /\ x.path = <<>> => call.route
  BY <1>3, <1>4, <1>5
<1> HIDE DEF new
<1> QED BY <1>1, <1>3, <1>4, <1>6, WaitSwap

LEMMA WaitByLocation ==
    ASSUME RoutingInv, FormInv, WaitInv, Vanish \/ (\E u \in call.phones : Register(u)) \/ Expire
    PROVE  WaitInv'
<1>1. CASE Vanish
  <2>1. PICK m \in wire : m.dest \notin DOMAIN Phones /\ Drop(m) /\ UNCHANGED <<call, caller, callee>>
    BY <1>1 DEF Vanish
  <2>2. ~Final(call, m)
    BY <2>1, UaApart DEF Final
  <2> QED BY <2>1, <2>2, WaitDrop
<1>2. ASSUME UNCHANGED <<call, caller, callee, wire, lost>>
      PROVE  WaitInv'
  <2>1. InTurn'
    BY <1>2 DEF WaitInv, InTurn, Begun
  <2>2. CancelsForm'
    BY <1>2 DEF WaitInv, CancelsForm, Answered
  <2>3. Waiting'
    BY <1>2 DEF WaitInv, Waiting
  <2> QED BY <2>1, <2>2, <2>3 DEF WaitInv
<1>3. CASE (\E u \in call.phones : Register(u)) \/ Expire
  BY <1>2, <1>3 DEF Register, Expire
<1> QED BY <1>1, <1>2, <1>3

\* Once the call is under way, only its CANCELs are looked at.
LEMMA WaitBegun ==
    ASSUME WaitInv, call' = call, caller'.cancels = caller.cancels, caller'.state \notin {"idle", "calling"},
           \A t \in wire' : t \in wire \/ t.method # "CANCEL"
    PROVE  WaitInv'
<1>1. InTurn' /\ Waiting'
  BY DEF InTurn, Begun, Waiting
<1>2. Answered'
  BY DEF Answered
<1>3. CancelsForm'
  BY <1>2 DEF WaitInv, CancelsForm
<1> QED BY <1>1, <1>3 DEF WaitInv

LEMMA OpeningWaits ==
    ASSUME RoutingInv, NEW auth, NEW t, t = Opening(auth)
    PROVE  /\ t.type = "request" /\ t.method = call.method /\ t.method \in {"INVITE", "REGISTER"}
           /\ t.path = <<>> /\ Live(call, t) /\ ~Beyond(call, t)
           /\ DOMAIN t = MessageFields /\ (call.route \/ t.dest \in OwnHosts(call.edge))
<1>1. t.type = "request" /\ t.method = call.method /\ t.path = <<>> /\ DOMAIN t = MessageFields
  BY DEF Opening, Request, MessageFields
<1>2. t.method \in {"INVITE", "REGISTER"}
  BY <1>1, CallEdge DEF RoutingInv, CallInv
<1>3. call.route \/ t.dest \in OwnHosts(call.edge)
  <2>1. CASE call.method = "INVITE"
    <3>1. OpeningForm(call, t)
      BY <1>1, <2>1, OpeningSent DEF MessageForm
    <3> QED BY <1>1, <2>1, <3>1 DEF OpeningForm, Straight
  <2>2. CASE call.method # "INVITE"
    BY <2>2, CallEdge DEF RoutingInv, CallInv
  <2> QED BY <2>1, <2>2
<1> QED BY <1>1, <1>2, <1>3 DEF Live, Beyond

LEMMA WaitByCaller ==
    ASSUME RoutingInv, FormInv, WaitInv, Place \/ Opened \/ Cancel \/ CallerHangsUp
    PROVE  WaitInv'
<1>0. DOMAIN caller = {"state", "code", "tried", "cancels", "routes", "target"}
  BY DEF FormInv, CallerForm
<1>1. CASE Place
  <2> DEFINE none == None
             t == Opening(none)
  <2>1. /\ caller.state = "idle" /\ wire' = wire \cup {t} /\ UNCHANGED <<call, callee, lost>>
        /\ caller' = [caller EXCEPT !.state = "calling"]
    BY <1>1 DEF Place
  <2>2. caller'.state = "calling"
    BY <1>0, <2>1
  <2>3. wire = {} /\ callee.state = "idle"
    BY <2>1 DEF WaitInv, InTurn
  <2>4. t = Opening(none)
    OBVIOUS
  <2> HIDE DEF none, t
  <2>5. t.method \notin {"ACK", "BYE", "CANCEL"} /\ Live(call, t) /\ ~Beyond(call, t)
    BY <2>4, OpeningWaits
  <2>6. InTurn' /\ Waiting'
    BY <2>1, <2>2, <2>3, <2>5 DEF InTurn, Begun, Waiting
  <2>7. CancelsForm'
    BY <2>1, <2>3, <2>5 DEF CancelsForm
  <2> QED BY <2>6, <2>7 DEF WaitInv
<1>2. CASE Cancel
  <2> DEFINE none == None
             x == Opening(none)
             t == [x EXCEPT !.method = "CANCEL"]
  <2>1. /\ caller.state = "calling" /\ wire' = wire \cup {t} /\ UNCHANGED <<call, callee, lost>>
        /\ caller' = [caller EXCEPT !.cancels = TRUE]
    BY <1>2 DEF Cancel
  <2>2. caller'.state = caller.state /\ caller'.cancels
    BY <1>0, <2>1
  <2>3. /\ x.type = "request" /\ x.path = <<>> /\ DOMAIN x = MessageFields
        /\ call.route \/ x.dest \in OwnHosts(call.edge)
    <3>1. x = Opening(none)
      OBVIOUS
    <3> HIDE DEF none, x
    <3> QED BY <3>1, OpeningWaits
  <2> HIDE DEF x
  <2>4. t.type = "request" /\ t.method = "CANCEL" /\ t.path = <<>> /\ t.dest = x.dest
    BY <2>3 DEF MessageFields
  <2> HIDE DEF t
  <2>5. InTurn'
    BY <2>1, <2>2, <2>4 DEF WaitInv, InTurn, Begun
  <2>6. Answered => Answered'
    BY <2>1, <2>2 DEF Answered
  <2>7. ~Beyond(call, t)
    BY <2>4 DEF Beyond
  <2>8. CancelsForm'
    BY <2>1, <2>2, <2>3, <2>4, <2>6, <2>7 DEF WaitInv, CancelsForm
  <2>9. Waiting'
    BY <2>1, <2>2 DEF WaitInv, Waiting
  <2> QED BY <2>5, <2>8, <2>9 DEF WaitInv
<1>3. CASE CallerHangsUp
  <2>1. /\ wire' = wire \cup {InDialog(call.ua, "BYE", caller)} /\ call' = call
        /\ caller' = [caller EXCEPT !.state = "bye"]
    BY <1>3 DEF CallerHangsUp, HangUp
  <2>2. InDialog(call.ua, "BYE", caller).method = "BYE"
    BY DEF InDialog, Request
  <2>3. caller'.state = "bye" /\ caller'.cancels = caller.cancels
    BY <1>0, <2>1
  <2> QED BY <2>1, <2>2, <2>3, WaitBegun
<1>4. CASE Opened
  <2>1. PICK m \in wire :
        /\ m.type = "response" /\ m.method = call.method /\ caller.state = "calling"
        /\ IF m.code = UNAUTHORIZED /\ call.secret # None /\ ~caller.tried
           THEN /\ caller' = [caller EXCEPT !.tried = TRUE]
                /\ Replace(m, {Opening(call.secret)})
           ELSE IF m.code = OK /\ m.method = "INVITE"
           THEN LET up == [caller EXCEPT !.state = "up", !.code = OK,
                              !.routes = Reverse(m.recordRoute),
                              !.target = [user |-> call.to.user, host |-> m.contact.host,
                                          tp |-> m.contact.tp]]
                IN /\ caller' = up
                   /\ Replace(m, {[InDialog(call.ua, "ACK", up) EXCEPT !.auth =
                                      IF caller.tried THEN call.secret ELSE None]})
           ELSE /\ caller' = [caller EXCEPT !.state = "over", !.code = m.code]
                /\ Replace(m, {})
        /\ UNCHANGED <<call, loc, tx, callee, lost, failed, registers>>
    BY <1>4 DEF Opened
  <2>2. CASE m.code = UNAUTHORIZED /\ call.secret # None /\ ~caller.tried
    <3> DEFINE auth == call.secret
               t == Opening(auth)
               new == {t}
    <3>1. /\ wire' = (wire \ {m}) \cup new /\ t = Opening(auth)
          /\ caller' = [caller EXCEPT !.tried = TRUE]
      BY <2>1, <2>2 DEF Replace
    <3>2. caller'.state = caller.state /\ caller'.cancels = caller.cancels
      BY <1>0, <3>1
    <3>3. m.code # TERMINATED
      BY <2>2 DEF UNAUTHORIZED, TERMINATED
    <3> HIDE DEF auth, t
    <3>4. /\ t.method \in {"INVITE", "REGISTER"} /\ Live(call, t) /\ ~Beyond(call, t)
      BY <3>1, OpeningWaits
    <3>5. /\ \E x \in new : Live(call, x)
          /\ \A x \in new : x.method \in {"INVITE", "REGISTER"} /\ ~Beyond(call, x)
      BY <3>4
    <3>6. ~Final(call, m)
      BY <3>3 DEF Final
    <3> HIDE DEF new
    <3> QED BY <2>1, <3>1, <3>2, <3>5, <3>6, WaitSwap
  <2>3. CASE ~(m.code = UNAUTHORIZED /\ call.secret # None /\ ~caller.tried) /\ m.code = OK /\ m.method = "INVITE"
    <3> DEFINE up == [caller EXCEPT !.state = "up", !.code = OK,
                              !.routes = Reverse(m.recordRoute),
                              !.target = [user |-> call.to.user, host |-> m.contact.host,
                                          tp |-> m.contact.tp]]
               t == [InDialog(call.ua, "ACK", up) EXCEPT !.auth =
                                      IF caller.tried THEN call.secret ELSE None]
    <3>1. caller' = up /\ Replace(m, {t})
      BY <2>1, <2>3
    <3>2. caller'.state = "up" /\ caller'.cancels = caller.cancels
      BY <1>0, <3>1
    <3> HIDE DEF up
    <3>3. t.method = "ACK"
      BY DEF InDialog, Request
    <3> HIDE DEF t
    <3>4. \A x \in wire' : x \in wire \/ x.method # "CANCEL"
      BY <3>1, <3>3 DEF Replace
    <3> QED BY <2>1, <3>2, <3>4, WaitBegun
  <2>4. CASE caller' = [caller EXCEPT !.state = "over", !.code = m.code] /\ Replace(m, {})
    <3>1. caller'.state = "over" /\ caller'.cancels = caller.cancels /\ wire' \subseteq wire
      BY <1>0, <2>4 DEF Replace
    <3> QED BY <2>1, <3>1, WaitBegun
  <2> QED BY <2>1, <2>2, <2>3, <2>4
<1> QED BY <1>1, <1>2, <1>3, <1>4

LEMMA WaitByCallee ==
    ASSUME RoutingInv, FormInv, WaitInv, Ring \/ PickUp \/ Cancelled \/ Acked \/ CalleeHangsUp \/ Ended
    PROVE  WaitInv'
<1>0. /\ DOMAIN callee = {"state", "at", "req", "routes", "target"}
      /\ DOMAIN caller = {"state", "code", "tried", "cancels", "routes", "target"}
  BY DEF RoutingInv, CalleeInv, FormInv, CallerForm
<1>1. CASE Ring
  <2>1. PICK m \in wire :
        /\ m.type = "request" /\ callee' = [state |-> "ringing", at |-> m.dest, req |-> m, routes |-> m.recordRoute,
                      target |-> [user |-> m.from.user, host |-> m.contact.host, tp |-> m.contact.tp]]
        /\ Replace(m, {}) /\ UNCHANGED <<call, caller>>
    BY <1>1 DEF Ring
  <2>2. callee'.state = "ringing" /\ wire' = wire \ {m} /\ caller.state # "idle"
    BY <2>1 DEF Replace, WaitInv, InTurn
  <2>3. InTurn' /\ Waiting'
    BY <2>1, <2>2 DEF WaitInv, InTurn, Begun, Waiting
  <2>4. Answered => Answered'
    BY <2>1, <2>2 DEF Answered, Final
  <2>5. CancelsForm'
    BY <2>1, <2>2, <2>4 DEF WaitInv, CancelsForm
  <2> QED BY <2>3, <2>5 DEF WaitInv
<1>2. CASE PickUp
  <2> DEFINE m == callee.req
             t == [Response(m, OK) EXCEPT !.contact = Contact(callee.at)]
  <2>1. /\ callee.state = "ringing" /\ callee' = [callee EXCEPT !.state = "up"]
        /\ wire' = wire \cup {t} /\ UNCHANGED <<call, caller, lost>>
    BY <1>2 DEF PickUp
  <2>2. MessageOK(m) /\ m.method = call.method /\ m.method \in {"INVITE", "REGISTER"}
    BY <2>1 DEF RoutingInv, CalleeInv, FormInv, CalleeForm, OpeningForm
  <2>3. t.type = "response" /\ t.method = m.method /\ t.code = OK /\ OK # TERMINATED
    BY <2>2 DEF Response, MessageOK, MessageFields, OK, TERMINATED
  <2> HIDE DEF m, t
  <2>4. t.method \notin {"ACK", "BYE", "CANCEL"} /\ Live(call, t) /\ ~Beyond(call, t)
    BY <2>2, <2>3 DEF Live, Beyond
  <2>5. callee'.state = "up" /\ caller.state # "idle"
    BY <1>0, <2>1 DEF WaitInv, InTurn
  <2>6. InTurn' /\ Waiting'
    BY <2>1, <2>4, <2>5 DEF WaitInv, InTurn, Begun, Waiting
  <2>7. Answered => Answered'
    BY <2>1 DEF Answered
  <2>8. CancelsForm'
    BY <2>1, <2>4, <2>7 DEF WaitInv, CancelsForm
  <2> QED BY <2>6, <2>8 DEF WaitInv
<1>3. CASE Cancelled
  <2>1. PICK m \in wire :
        /\ m.type = "request" /\ m.method = "CANCEL" /\ m.dest = callee.at
        /\ callee' = IF callee.state = "ringing" THEN [callee EXCEPT !.state = "over"] ELSE callee
        /\ Replace(m, {}) /\ UNCHANGED <<call, caller, lost>>
    BY <1>3 DEF Cancelled
  <2>2. /\ wire' = wire \ {m} /\ caller.state # "idle" /\ caller.cancels
        /\ callee'.state = IF callee.state = "ringing" THEN "over" ELSE callee.state
    BY <1>0, <2>1 DEF Replace, WaitInv, InTurn, CancelsForm
  <2>3. InTurn'
    BY <2>1, <2>2 DEF WaitInv, InTurn, Begun
  <2>4. Answered => Answered'
    BY <2>1, <2>2 DEF Answered, Final
  <2>5. CancelsForm'
    BY <2>1, <2>2, <2>4 DEF WaitInv, CancelsForm
  <2>6. \/ caller.state # "calling" \/ call.method \in lost
        \/ call.route
        \/ callee.state = "ringing" /\ ~call.route /\ caller.state = "calling"
        \/ \E t \in wire : Live(call, t)
    BY DEF WaitInv, Waiting
  <2>7. ASSUME callee.state = "ringing", ~call.route, caller.state = "calling"
        PROVE  \E t \in wire : Live(call, t)
    <3>1. callee.at \in DOMAIN Phones /\ call.edge \in EdgePorts
      BY <2>7, CallEdge DEF RoutingInv, CalleeInv
    <3>2. m.path # <<>>
      BY <2>1, <2>7, <3>1, HostsAssumption DEF WaitInv, CancelsForm, HostsAssumption, EdgeHosts
    <3>3. Answered
      BY <2>1, <3>2 DEF WaitInv, CancelsForm, Beyond
    <3>4. PICK t \in wire : Final(call, t)
      BY <2>7, <3>3 DEF Answered
    <3>5. t.method = call.method
      BY <3>4 DEF Final, FormInv, MessageForm, OpeningForm
    <3> QED BY <3>4, <3>5 DEF Final, Live
  <2>8. ~Live(call, m)
    BY <2>1, CallEdge DEF Live, RoutingInv, CallInv
  <2>9. \/ caller.state # "calling" \/ call.method \in lost
        \/ call.route
        \/ \E t \in wire' : Live(call, t)
    BY <2>2, <2>6, <2>7, <2>8
  <2>10. call' = call /\ caller' = caller /\ lost' = lost
    BY <2>1
  <2>11. Waiting'
    BY ONLY <2>2, <2>9, <2>10 DEF Waiting
  <2> QED BY <2>3, <2>5, <2>11 DEF WaitInv
<1>4. CASE Acked
  <2>1. PICK m \in wire : m.method = "ACK" /\ Replace(m, {}) /\ UNCHANGED <<call, caller>>
    BY <1>4 DEF Acked
  <2>2. caller.state \notin {"idle", "calling"} /\ wire' \subseteq wire
    BY <2>1 DEF WaitInv, InTurn, Begun, Replace
  <2> QED BY <2>1, <2>2, WaitBegun
<1>5. CASE CalleeHangsUp
  <2>1. /\ callee.state = "talking" /\ wire' = wire \cup {InDialog(callee.at, "BYE", callee)}
        /\ UNCHANGED <<call, caller>>
    BY <1>5 DEF CalleeHangsUp, HangUp
  <2>2. InDialog(callee.at, "BYE", callee).method = "BYE"
    BY DEF InDialog, Request
  <2>3. caller.state \notin {"idle", "calling"}
    BY <2>1 DEF WaitInv, InTurn, Begun
  <2> QED BY <2>1, <2>2, <2>3, WaitBegun
<1>6. CASE Ended
  <2>1. PICK m \in wire :
        /\ m.method = "BYE"
        /\ caller' = IF m.dest = call.ua THEN [caller EXCEPT !.state = "over"] ELSE caller
        /\ Replace(m, IF m.type = "request" THEN {Response(m, OK)} ELSE {})
        /\ call' = call
    BY <1>6 DEF Ended
  <2>2. MessageOK(m) /\ caller.state \notin {"idle", "calling"}
    BY <2>1 DEF RoutingInv, WireInv, WaitInv, InTurn, Begun
  <2>3. caller'.state \notin {"idle", "calling"} /\ caller'.cancels = caller.cancels
    BY <1>0, <2>1, <2>2
  <2>4. Response(m, OK).method = "BYE"
    BY <2>1, <2>2 DEF Response, MessageOK, MessageFields
  <2>5. \A t \in wire' : t \in wire \/ t.method # "CANCEL"
    BY <2>1, <2>4 DEF Replace
  <2> QED BY <2>1, <2>3, <2>5, WaitBegun
<1> QED BY <1>1, <1>2, <1>3, <1>4, <1>5, <1>6

LEMMA InitWait == Init => WaitInv
BY DEF Init, WaitInv, InTurn, CancelsForm, Waiting

LEMMA NextWait == RoutingInv /\ FormInv /\ WaitInv /\ [Next]_vars => WaitInv'
<1> SUFFICES ASSUME RoutingInv, FormInv, WaitInv, [Next]_vars PROVE WaitInv'
  OBVIOUS
<1>1. CASE Edges
  BY <1>1, WaitByRequest, WaitByResponse DEF Edges
<1>2. CASE Tunnel
  BY <1>2, WaitByTunnel
<1>3. CASE Vanish \/ (\E u \in call.phones : Register(u)) \/ Expire
  BY <1>3, WaitByLocation
<1>4. CASE Place \/ Opened \/ Cancel \/ CallerHangsUp
  BY <1>4, WaitByCaller
<1>5. CASE Ring \/ PickUp \/ Cancelled \/ Acked \/ CalleeHangsUp \/ Ended
  BY <1>5, WaitByCallee
<1>6. CASE UNCHANGED vars
  BY <1>6 DEF vars, WaitInv, InTurn, CancelsForm, Waiting, Begun, Answered
<1> QED BY <1>1, <1>2, <1>3, <1>4, <1>5, <1>6 DEF Next

-----------------------------------------------------------------------------
(* The registrations of the Registry: by one edgeport to the Trunk *)

\* The edgeport of the Registry can reach its Trunks, and they are there.
RegistrarsReached ==
    /\ MaxHops > 0
    /\ \A c \in Registrations :
         /\ c.edge \in EdgePorts /\ ~Throws(c.edge, Self(c.ua))
         /\ ~Throws(c.edge, Dialled(c)) /\ c.to.host \in DOMAIN Phones

RegisterForm(c, m) ==
    /\ m.uri = Dialled(c)
    /\ \/ /\ m.path = <<>> /\ Lists(m.route, 1) /\ m.route[1].host = m.dest
          /\ m.dest \in OwnHosts(c.edge) /\ TransportOf(m.route[1]) \in ListeningOn[c.edge]
       \/ m.path # <<>> /\ m.dest = c.to.host

RegisterInv ==
    /\ "REGISTER" \notin lost
    /\ \A m \in wire : m.type = "request" /\ m.method = "REGISTER" => RegisterForm(call, m)

LEMMA RegisterSwap ==
    ASSUME RegisterInv, call' = call, NEW new, wire' \subseteq wire \cup new, "REGISTER" \notin lost',
           \A t \in new : t.type = "request" /\ t.method = "REGISTER" => RegisterForm(call, t)
    PROVE  RegisterInv'
BY DEF RegisterInv

\* A registration on its way is that of the Registry.
LEMMA RegistersOnly ==
    ASSUME RoutingInv, FormInv, RegistrarsReached, RegisterInv,
           NEW m \in wire, m.type = "request", m.method = "REGISTER"
    PROVE  /\ RegisterForm(call, m) /\ call.edge \in EdgePorts /\ ~Throws(call.edge, Dialled(call))
           /\ call.to.host \in DOMAIN Phones
           /\ m.dest \in OwnHosts(call.edge) \/ m.dest \in DOMAIN Phones
<1>1. call.method = "REGISTER" /\ RegisterForm(call, m)
  BY DEF FormInv, MessageForm, OpeningForm, RegisterInv
<1>2. call \in Registrations
  BY <1>1, CallEdge DEF RoutingInv, CallInv
<1> QED BY <1>1, <1>2 DEF RegistrarsReached, RegisterForm

LEMMA OneEdge ==
    ASSUME NEW e \in EdgePorts, NEW f \in EdgePorts, NEW h, h \in OwnHosts(e), h \in OwnHosts(f)
    PROVE  e = f
BY HostsAssumption DEF HostsAssumption

LEMMA NotBlocked ==
    ASSUME RoutingInv, FormInv, RegistrarsReached, RegisterInv, NEW e \in EdgePorts,
           NEW m \in wire, m.type = "request", m.method = "REGISTER", m.dest \in OwnHosts(e)
    PROVE  /\ ~Blocked(e, m) /\ e = call.edge
           /\ \A t : Through(e, m, t) => RegisterForm(call, t)
<1>1. /\ RegisterForm(call, m) /\ call.edge \in EdgePorts /\ ~Throws(call.edge, Dialled(call))
      /\ m.dest \notin DOMAIN Phones
  BY RegistersOnly, HostsAssumption DEF HostsAssumption, EdgeHosts
<1>2. /\ m.path = <<>> /\ Lists(m.route, 1) /\ m.route[1].host = m.dest
      /\ m.dest \in OwnHosts(call.edge) /\ TransportOf(m.route[1]) \in ListeningOn[call.edge]
      /\ m.uri = Dialled(call)
  BY <1>1, RegistersOnly DEF RegisterForm
<1>3. e = call.edge
  BY <1>1, <1>2, OneEdge
<1>4. MessageOK(m) /\ DOMAIN m = MessageFields
  BY DEF RoutingInv, WireInv, MessageOK
<1>5. ~ThrowsOnRoutes([m EXCEPT !.edge = e])
  <2> DEFINE r0 == [m EXCEPT !.edge = e]
  <2>1. r0.edge = e /\ r0.route = m.route
    BY <1>4 DEF MessageFields
  <2>2. DOMAIN m.route = {1}
    BY <1>2 DEF Lists
  <2> HIDE DEF r0
  <2> QED BY <1>2, <1>3, <2>1, <2>2 DEF ThrowsOnRoutes, r0
<1>6. ~(m.maxForwards < 1)
  <2>1. m.maxForwards = MaxHops - Len(m.path)
    BY <1>4 DEF MessageOK, Traced
  <2>2. Len(m.path) = 0
    BY <1>2
  <2> QED BY <2>1, <2>2, HopsAssumption DEF RegistrarsReached, HopsAssumption
<1>7. ~Blocked(e, m)
  BY <1>1, <1>2, <1>3, <1>5, <1>6 DEF Blocked
<1>8. ASSUME NEW t, Through(e, m, t)
      PROVE  RegisterForm(call, t)
  <2> DEFINE w == Without(OwnHosts(e), m.route)
  <2>1. IsList(m.route) /\ Len(m.route) = 1
    BY <1>2 DEF Lists, IsList
  <2>2. Clean(OwnHosts(e), m.route, w)
    BY <2>1, WithoutClean
  <2>3. /\ t.uri = m.uri /\ t.path = Append(m.path, e) /\ t.route = Reverse(w)
        /\ t.dest = NextHop(t.route, t.uri)
    BY <1>8 DEF Through
  <2> HIDE DEF w
  <2>4. IsList(w) /\ Len(w) = 0
    <3>1. \A i \in 1 .. Len(w) : FALSE
      BY <1>2, <1>3, <2>1, <2>2 DEF Clean
    <3>2. Len(w) \in Nat /\ IsList(w)
      BY <2>2 DEF Clean, IsList
    <3> QED BY <3>1, <3>2
  <2>5. IsList(t.route) /\ Len(t.route) = 0
    BY <2>3, <2>4, Reversed
  <2>6. t.route = <<>>
    BY <2>5, EmptyList DEF IsList
  <2>7. t.dest = call.to.host
    BY <1>2, <2>3, <2>6 DEF NextHop, Dialled
  <2>8. t.path # <<>>
    BY <1>2, <2>3
  <2> QED BY <1>2, <2>3, <2>7, <2>8 DEF RegisterForm
<1> QED BY <1>3, <1>7, <1>8

LEMMA RegisterByEdges ==
    ASSUME RoutingInv, FormInv, RegistrarsReached, RegisterInv, Edges
    PROVE  RegisterInv'
<1>1. PICK e \in EdgePorts : HandleRequest(e) \/ HandleResponse(e)
  BY DEF Edges
<1>2. CASE HandleRequest(e)
  <2>1. PICK m \in wire :
          /\ m.type = "request" /\ m.dest \in OwnHosts(e) /\ UNCHANGED <<call, caller, callee>>
          /\ \/ Drop(m) /\ (m.method = "REGISTER" => Blocked(e, m))
             \/ Refusal(m)
             \/ m.method = "CANCEL" /\ \E out : SendCancel(e, m, out)
             \/ m.method # "CANCEL" /\ \E t : Onward(e, m, t)
    BY <1>2, Handled
  <2>2. m.method = "REGISTER" => ~Blocked(e, m) /\ \A t : Through(e, m, t) => RegisterForm(call, t)
    BY <2>1, NotBlocked
  <2>3. MessageOK(m) /\ "REGISTER" \notin lost
    BY DEF RoutingInv, WireInv, RegisterInv
  <2>4. CASE Drop(m) /\ m.method # "REGISTER"
    <3> DEFINE none == {}
    <3>1. wire' \subseteq wire \cup none /\ "REGISTER" \notin lost' /\ \A t \in none : FALSE
      BY <2>3, <2>4 DEF Drop, Replace
    <3> HIDE DEF none
    <3> QED BY <2>1, <3>1, RegisterSwap
  <2>5. CASE Refusal(m)
    <3>1. PICK code \in Refusals : Replace(m, {Response(m, code)}) /\ UNCHANGED <<tx, lost>>
      BY <2>5 DEF Refusal
    <3> DEFINE new == {Response(m, code)}
    <3>2. wire' \subseteq wire \cup new /\ lost' = lost
      BY <3>1 DEF Replace
    <3>3. \A t \in new : t.type = "response"
      BY <2>3 DEF Response, MessageOK, MessageFields
    <3> HIDE DEF new
    <3> QED BY <2>1, <2>3, <3>2, <3>3, RegisterSwap
  <2>6. CASE m.method = "CANCEL" /\ \E out : SendCancel(e, m, out)
    <3> DEFINE one == CancelOf(tx[e])
               two == Response([tx[e] EXCEPT !.via = Tail(@)], TERMINATED)
               new == {one, two}
    <3>1. \/ Drop(m)
          \/ tx[e] # None /\ wire' \subseteq wire \cup new /\ lost' = lost
      BY <2>6 DEF SendCancel, Replace
    <3>2. CASE Drop(m)
      BY <2>4, <2>6, <3>2
    <3>3. CASE tx[e] # None /\ wire' \subseteq wire \cup new /\ lost' = lost
      <4>1. MessageOK(tx[e])
        BY <3>3 DEF RoutingInv, TxInv, TxOK
      <4>2. one.method = "CANCEL" /\ two.type = "response"
        BY <4>1 DEF CancelOf, Response, MessageOK, MessageFields
      <4> HIDE DEF one, two
      <4>3. \A t \in new : ~(t.type = "request" /\ t.method = "REGISTER")
        BY <4>2
      <4> HIDE DEF new
      <4> QED BY <2>1, <2>3, <3>3, <4>3, RegisterSwap
    <3> QED BY <3>1, <3>2, <3>3
  <2>7. CASE \E t : Onward(e, m, t)
    <3>1. PICK t : Onward(e, m, t)
      BY <2>7
    <3> DEFINE new == {t}
    <3>2. wire' \subseteq wire \cup new /\ lost' = lost
      BY <3>1 DEF Onward, Replace
    <3>3. \A x \in new : x.type = "request" /\ x.method = "REGISTER" => RegisterForm(call, x)
      BY <2>2, <3>1 DEF Onward
    <3> HIDE DEF new
    <3> QED BY <2>1, <2>3, <3>2, <3>3, RegisterSwap
  <2> QED BY <2>1, <2>2, <2>4, <2>5, <2>6, <2>7
<1>3. CASE HandleResponse(e)
  <2>1. PICK m \in wire :
        /\ m.type = "response"
        /\ LET back == removeTopVia(m)
           IN Replace(m, IF m.code = TERMINATED \/ back.via = <<>> THEN {}
                         ELSE {[back EXCEPT !.dest = back.via[1].host]})
        /\ UNCHANGED <<call, lost>>
    BY <1>3 DEF HandleResponse
  <2> DEFINE back == removeTopVia(m)
             new == {[back EXCEPT !.dest = back.via[1].host]}
  <2>2. wire' \subseteq wire \cup new
    BY <2>1 DEF Replace
  <2>3. \A t \in new : t.type = "response"
    BY <2>1 DEF removeTopVia, RoutingInv, WireInv, MessageOK, MessageFields
  <2> HIDE DEF new
  <2>4. "REGISTER" \notin lost'
    BY <2>1 DEF RegisterInv
  <2> QED BY <2>1, <2>2, <2>3, <2>4, RegisterSwap
<1> QED BY <1>1, <1>2, <1>3

LEMMA RegisterByNet ==
    ASSUME RoutingInv, FormInv, RegistrarsReached, RegisterInv,
           Tunnel \/ Vanish \/ (\E u \in call.phones : Register(u)) \/ Expire
    PROVE  RegisterInv'
<1>1. CASE Tunnel
  <2>1. PICK m \in wire, u \in DOMAIN Phones :
        m.dest = Invalid /\ Replace(m, {[m EXCEPT !.dest = u]}) /\ UNCHANGED <<call, lost>>
    BY <1>1 DEF Tunnel
  <2> DEFINE t == [m EXCEPT !.dest = u]
             new == {t}
  <2>2. MessageOK(m)
    BY DEF RoutingInv, WireInv
  <2>3. t.type = m.type /\ t.method = m.method /\ wire' \subseteq wire \cup new
    BY <2>1, <2>2 DEF MessageOK, MessageFields, Replace
  <2>4. Invalid \notin DOMAIN Phones /\ \A e \in EdgePorts : Invalid \notin OwnHosts(e)
    BY HostsAssumption DEF HostsAssumption, EdgeHosts
  <2>5. ~(m.type = "request" /\ m.method = "REGISTER")
    BY <2>1, <2>4, RegistersOnly
  <2> HIDE DEF t
  <2>6. \A x \in new : ~(x.type = "request" /\ x.method = "REGISTER")
    BY <2>3, <2>5
  <2>7. "REGISTER" \notin lost'
    BY <2>1 DEF RegisterInv
  <2> HIDE DEF new
  <2> QED BY <2>1, <2>3, <2>6, <2>7, RegisterSwap
<1>2. CASE Vanish
  <2>1. PICK m \in wire : /\ \A e \in EdgePorts : m.dest \notin OwnHosts(e)
                          /\ m.dest \notin DOMAIN Phones /\ Drop(m) /\ call' = call
    BY <1>2 DEF Vanish
  <2>2. m.type = "request" => m.method # "REGISTER"
    BY <2>1, RegistersOnly
  <2>3. m.type # "response"
    <3>1. MessageOK(m) /\ MessageForm(call, callee.at, m)
      BY DEF RoutingInv, WireInv, FormInv
    <3>2. m.type = "response" => m.dest = m.via[1].host /\ m.via[1] \in Interface
      BY <3>1 DEF MessageOK, MessageForm
    <3> QED BY <2>1, <3>2 DEF Interface, EdgeHosts
  <2> DEFINE none == {}
  <2>4. wire' \subseteq wire \cup none /\ lost' = lost \cup {m.method} /\ \A t \in none : FALSE
    BY <2>1 DEF Drop, Replace
  <2> HIDE DEF none
  <2>5. "REGISTER" \notin lost'
    BY <2>2, <2>3, <2>4 DEF RegisterInv, RoutingInv, WireInv, MessageOK
  <2> QED BY <2>1, <2>4, <2>5, RegisterSwap
<1>3. CASE (\E u \in call.phones : Register(u)) \/ Expire
  <2>1. UNCHANGED <<call, wire, lost>>
    BY <1>3 DEF Register, Expire
  <2> QED BY <2>1 DEF RegisterInv
<1> QED BY <1>1, <1>2, <1>3

LEMMA RegisterPlaced ==
    ASSUME RoutingInv, RegistrarsReached, NEW auth, NEW t, t = Opening(auth), t.method = "REGISTER"
    PROVE  RegisterForm(call, t)
<1> DEFINE door == Door(call.ua, call.edge)
           uri == [user |-> call.to.user, host |-> call.to.host, tp |-> None]
           route == IF call.route THEN <<door>> ELSE <<>>
           r0 == Request(call.ua, call.method, uri, route, door.host)
<1>1. /\ DOMAIN r0 = MessageFields /\ r0.method = call.method /\ r0.dest = door.host
      /\ r0.uri = uri /\ r0.route = route /\ r0.path = <<>>
  BY DEF Request, MessageFields
<1>2. t = [r0 EXCEPT !.auth = auth, !.token = call.token, !.ext = call.ext]
  BY DEF Opening
<1> HIDE DEF r0
<1>3. /\ t.method = call.method /\ t.dest = door.host /\ t.uri = uri /\ t.route = route /\ t.path = <<>>
  BY <1>1, <1>2 DEF MessageFields
<1>4. call \in Registrations /\ call.route
  BY <1>3, CallEdge DEF RoutingInv, CallInv
<1>5. call.edge \in EdgePorts /\ ~Throws(call.edge, Self(call.ua))
  BY <1>4 DEF RegistrarsReached
<1>6. door.host \in OwnHosts(call.edge) /\ TransportOf(door) \in ListeningOn[call.edge]
  <2> DEFINE self == Self(call.ua)
  <2>1. door.host \in OwnHosts(call.edge)
    BY <1>5, EdgeInterface DEF Door
  <2>2. door.tp = TransportOf(self) /\ TransportOf(self) \in ListeningOn[call.edge]
    BY <1>5 DEF Door, getEdgeInterface, Throws
  <2>3. TransportOf(self) # None
    BY NoneAssumption DEF TransportOf, NoneAssumption
  <2>4. TransportOf(door) = door.tp
    BY <2>2, <2>3 DEF TransportOf
  <2> QED BY <2>1, <2>2, <2>4
<1> HIDE DEF door
<1>7. Lists(route, 1) /\ route[1] = door
  BY <1>4, OneOrTwo DEF IsList
<1>8. uri = Dialled(call)
  BY DEF Dialled
<1> HIDE DEF route, uri
<1> QED BY <1>3, <1>6, <1>7, <1>8 DEF RegisterForm

LEMMA RegisterByPhones ==
    ASSUME RoutingInv, RegistrarsReached, RegisterInv,
           \/ Place \/ Opened \/ Cancel \/ CallerHangsUp
           \/ Ring \/ PickUp \/ Cancelled \/ Acked \/ CalleeHangsUp \/ Ended
    PROVE  RegisterInv'
<1>0. ASSUME wire' \subseteq wire, UNCHANGED <<call, lost>> PROVE RegisterInv'
  BY <1>0 DEF RegisterInv
<1>1. ASSUME NEW t, wire' \subseteq wire \cup {t}, UNCHANGED <<call, lost>>, ~(t.type = "request" /\ t.method = "REGISTER")
      PROVE  RegisterInv'
  BY <1>1 DEF RegisterInv
<1>2. CASE \E auth : wire' \subseteq wire \cup {Opening(auth)} /\ UNCHANGED <<call, lost>>
  <2>1. PICK auth : wire' \subseteq wire \cup {Opening(auth)} /\ UNCHANGED <<call, lost>>
    BY <1>2
  <2> DEFINE t == Opening(auth)
             new == {t}
  <2>2. t.method = "REGISTER" => RegisterForm(call, t)
    BY RegisterPlaced
  <2>3. wire' \subseteq wire \cup new /\ \A x \in new : x.method = "REGISTER" => RegisterForm(call, x)
    BY <2>1, <2>2
  <2> HIDE DEF new
  <2> QED BY <2>1, <2>3, RegisterSwap DEF RegisterInv
<1>3. CASE Place
  BY <1>2, <1>3 DEF Place
<1>4. CASE Cancel
  <2> DEFINE t == [Opening(None) EXCEPT !.method = "CANCEL"]
  <2>1. t.method = "CANCEL" /\ wire' = wire \cup {t} /\ UNCHANGED <<call, lost>>
    BY <1>4 DEF Cancel, Opening, Request
  <2> HIDE DEF t
  <2> QED BY <1>1, <2>1
<1>5. ASSUME NEW u, NEW side, wire' = wire \cup {InDialog(u, "BYE", side)}, UNCHANGED <<call, lost>>
      PROVE  RegisterInv'
  <2> DEFINE t == InDialog(u, "BYE", side)
  <2>1. t.method = "BYE"
    BY DEF InDialog, Request
  <2>2. wire' = wire \cup {t}
    BY <1>5
  <2> HIDE DEF t
  <2> QED BY <1>1, <1>5, <2>1, <2>2
<1>6. CASE CallerHangsUp \/ CalleeHangsUp
  BY <1>5, <1>6 DEF CallerHangsUp, CalleeHangsUp, HangUp
<1>7. CASE Ring \/ Cancelled \/ Acked
  <2>1. wire' \subseteq wire /\ UNCHANGED <<call, lost>>
    BY <1>7 DEF Ring, Cancelled, Acked, Replace
  <2> QED BY <1>0, <2>1
<1>8. CASE PickUp
  <2> DEFINE t == [Response(callee.req, OK) EXCEPT !.contact = Contact(callee.at)]
  <2>1. wire' = wire \cup {t} /\ UNCHANGED <<call, lost>> /\ callee.state # "idle"
    BY <1>8 DEF PickUp
  <2>2. t.type = "response"
    BY <2>1 DEF Response, RoutingInv, CalleeInv, MessageOK, MessageFields
  <2> HIDE DEF t
  <2> QED BY <1>1, <2>1, <2>2
<1>9. CASE Ended
  <2>1. PICK m \in wire :
          Replace(m, IF m.type = "request" THEN {Response(m, OK)} ELSE {}) /\ UNCHANGED <<call, lost>>
    BY <1>9 DEF Ended
  <2> DEFINE t == Response(m, OK)
  <2>2. t.type = "response"
    BY DEF Response, RoutingInv, WireInv, MessageOK, MessageFields
  <2>3. wire' \subseteq wire \cup {t}
    BY <2>1 DEF Replace
  <2> HIDE DEF t
  <2> QED BY <1>1, <2>1, <2>2, <2>3
<1>10. CASE Opened
  <2>1. PICK m \in wire :
        /\ \/ Replace(m, {Opening(call.secret)}) \/ Replace(m, {})
           \/ \E up, auth : Replace(m, {[InDialog(call.ua, "ACK", up) EXCEPT !.auth = auth]})
        /\ UNCHANGED <<call, lost>>
    BY <1>10 DEF Opened
  <2>2. CASE Replace(m, {Opening(call.secret)})
    BY <1>2, <2>1, <2>2 DEF Replace
  <2>3. CASE Replace(m, {})
    <3>1. wire' \subseteq wire
      BY <2>3 DEF Replace
    <3> QED BY <1>0, <2>1, <3>1
  <2>4. CASE \E up, auth : Replace(m, {[InDialog(call.ua, "ACK", up) EXCEPT !.auth = auth]})
    <3>1. PICK up, auth : Replace(m, {[InDialog(call.ua, "ACK", up) EXCEPT !.auth = auth]})
      BY <2>4
    <3> DEFINE t == [InDialog(call.ua, "ACK", up) EXCEPT !.auth = auth]
    <3>2. t.method = "ACK" /\ wire' \subseteq wire \cup {t}
      BY <3>1 DEF InDialog, Request, Replace
    <3> HIDE DEF t
    <3> QED BY <1>1, <2>1, <3>2
  <2> QED BY <2>1, <2>2, <2>3, <2>4
<1> QED BY <1>3, <1>4, <1>6, <1>7, <1>8, <1>9, <1>10

LEMMA NextRegisters ==
    ASSUME RegistrarsReached
    PROVE  RoutingInv /\ FormInv /\ RegisterInv /\ [Next]_vars => RegisterInv'
<1> SUFFICES ASSUME RoutingInv, FormInv, RegisterInv, [Next]_vars PROVE RegisterInv'
  OBVIOUS
<1>1. CASE Edges
  BY <1>1, RegisterByEdges
<1>2. CASE Tunnel \/ Vanish \/ (\E u \in call.phones : Register(u)) \/ Expire
  BY <1>2, RegisterByNet
<1>3. CASE \/ Place \/ Opened \/ Cancel \/ CallerHangsUp
           \/ Ring \/ PickUp \/ Cancelled \/ Acked \/ CalleeHangsUp \/ Ended
  BY <1>3, RegisterByPhones
<1>4. CASE UNCHANGED vars
  BY <1>4 DEF vars, RegisterInv
<1> QED BY <1>1, <1>2, <1>3, <1>4 DEF Next

LEMMA Waits == Spec => [](RoutingInv /\ FormInv /\ WaitInv)
<1>1. Init => RoutingInv /\ FormInv /\ WaitInv
  BY InitKeeps, InitForm, InitWait
<1>2. RoutingInv /\ FormInv /\ WaitInv /\ [Next]_vars => (RoutingInv /\ FormInv /\ WaitInv)'
  BY NextKeeps, NextForm, NextWait
<1> QED BY <1>1, <1>2, PTL DEF Spec

\* What waits has a message on the way, or its request was lost.
LEMMA WaitsFor ==
    ASSUME RoutingInv, WaitInv, call.method = "REGISTER" => "REGISTER" \notin lost
    PROVE  NobodyWaitsInVain
<1>1. call.method \in {"INVITE", "REGISTER"}
  BY CallEdge DEF RoutingInv, CallInv
<1>2. \/ caller.state # "calling" \/ "INVITE" \in lost \/ callee.state = "ringing"
      \/ call.route /\ caller.cancels
      \/ wire # {}
  BY <1>1 DEF WaitInv, Waiting
<1> QED BY <1>2 DEF NobodyWaitsInVain

(***************************************************************************)
(* EachCallEnds: whatever the layout, a phone that waits for the answer to *)
(* its call has a message on the way or a phone that rings, unless its     *)
(* INVITE was lost or it cancels a call for which it put a Route.          *)
(***************************************************************************)
THEOREM EachCallEnds == Spec => [](call \in Calls => NobodyWaitsInVain)
<1>1. RoutingInv /\ FormInv /\ WaitInv => (call \in Calls => NobodyWaitsInVain)
  BY CallEdge, WaitsFor
<1> QED BY <1>1, Waits, PTL

(***************************************************************************)
(* EachWaitEnds: the same of the registrations of the Registry, when its   *)
(* first edgeport reaches the Requester and the Trunks: what the property  *)
(* excuses is the loss of an INVITE, and then no REGISTER is lost.         *)
(***************************************************************************)
THEOREM EachWaitEnds == RegistrarsReached => (Spec => []NobodyWaitsInVain)
<1> SUFFICES ASSUME RegistrarsReached PROVE Spec => []NobodyWaitsInVain
  OBVIOUS
<1>1. Init => RegisterInv
  BY DEF Init, RegisterInv
<1>2. RoutingInv /\ FormInv /\ RegisterInv /\ [Next]_vars => RegisterInv'
  BY NextRegisters
<1>3. RoutingInv /\ WaitInv /\ RegisterInv => NobodyWaitsInVain
  BY WaitsFor DEF RegisterInv
<1> QED BY <1>1, <1>2, <1>3, Waits, PTL DEF Spec
=============================================================================
