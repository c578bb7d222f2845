------------------------- MODULE RoutingLossProofs --------------------------
(***************************************************************************)
(* Theorems about what the network of Routing loses: OnlyTheseLost, under  *)
(* a hypothesis about the layout of the network (LaidOut).                 *)
(***************************************************************************)
EXTENDS RoutingProofs

-----------------------------------------------------------------------------
(* What is lost, and why *)

Plain(u) == u \in DOMAIN Phones /\ ~Phones[u].web

(***************************************************************************)
(* LaidOut: the network is laid out for its phones.  The Registry reaches  *)
(* its Trunks; None is no message; a Trunk is there; no way is longer than *)
(* Max-Forwards; every edgeport listens for UDP, the transport of an       *)
(* address that names none, and has an address for every phone that is no  *)
(* browser; and who puts a Route calls no browser by its host.             *)
(***************************************************************************)
LaidOut ==
    /\ RegistrarsReached
    /\ DOMAIN None # MessageFields
    /\ TrunkHosts \subseteq DOMAIN Phones
    /\ MaxHops > 2 /\ IsFiniteSet(EdgePorts) /\ Cardinality(EdgePorts) <= MaxHops
    /\ \A e \in EdgePorts :
         "UDP" \in ListeningOn[e] /\ \A u \in DOMAIN Phones : Plain(u) => ~Throws(e, Self(u))
    /\ \A c \in Calls : c.route /\ c.to.host \in DOMAIN Accounts => Plain(c.to.host)

-----------------------------------------------------------------------------
(* An INVITE goes to and fro only with the registrations of the callee *)

\* The phone that is called by its host registers now here, now there.
Restless == CalledByHost /\ Cardinality(registers) > 1

\* The second edgeport it comes to is the last.
Settled(c, m, regs) ==
    \/ m.path = <<>>
    \/ Len(m.path) = 1 /\ "x-edgeport-ref" \in m.ext
    \/ /\ Len(m.path) = 2 /\ "x-edgeport-ref" \notin m.ext
       /\ \A e \in EdgePorts : m.dest \in OwnHosts(e) => <<c.to.host, e>> \in regs

\* An INVITE is not lost while the phone stays where it registered.
InviteInv ==
    /\ IsFiniteSet(registers)
    /\ "INVITE" \in lost => Restless
    /\ \A m \in Requests : m.method = "INVITE" /\ m.dest \in EdgeHosts =>
         Settled(call, m, registers) \/ Restless

-----------------------------------------------------------------------------
(* With no phone registered a call goes out at once, or nowhere *)

\* No phone has registered and no lookup has failed.
Alone == registers = {} /\ ~failed

\* The CANCEL of the caller.
Cancelling0 == [Opening(None) EXCEPT !.method = "CANCEL"]

\* Connect sends the CANCEL on from the edgeport of the caller.
GoesOut == connectProcessor([Cancelling0 EXCEPT !.edge = call.edge], Found(None), {}).type = "request"

\* Then only an INVITE to a trunk is kept, and the CANCEL follows it.
CancelInv == Alone =>
    /\ "CANCEL" \notin lost
    /\ \A m \in Requests : m.method = "INVITE" /\ m.path = <<>> => \E s \in {None, call.secret} : m = Opening(s)
    /\ \A e \in EdgePorts : tx[e] # None => e = call.edge /\ tx[e].dest \in TrunkHosts /\ GoesOut
    /\ \A m \in Requests : m.method = "CANCEL" =>
         m.dest \in TrunkHosts \/ (m = Cancelling0 /\ tx[call.edge] # None)

-----------------------------------------------------------------------------
(* The transports of a call between phones that are no browsers *)

\* The transports every edgeport listens for.
Common == {"UDP"} \cup {TransportOf(Self(u)) : u \in {u \in DOMAIN Phones : Plain(u)}}

Shared(list) == \A i \in 1 .. Len(list) : TransportOf(list[i]) \in Common

\* Hosts of edgeports, each with such a transport.
Serves(list) == Shared(list) /\ \A i \in 1 .. Len(list) : list[i].host \in EdgeHosts

\* The phone a request is for: the last of the Routes, or else the one that was dialled.
Target(c, m) ==
    IF m.dest \notin EdgeHosts THEN m.dest
    ELSE IF m.route # <<>> /\ m.route[Len(m.route)].host \notin EdgeHosts
    THEN m.route[Len(m.route)].host ELSE c.to.host

\* A route of Location has the transport of its phone.
LocForm == \A a \in Aors : \A r \in loc[a] : r.tp = Phones[r.host].tp

\* What an INVITE has gathered on its way between phones that are no browsers.
InviteServed(c, m) ==
    ~IsWeb(c.ua) /\ (m.path = <<>> \/ ~IsWeb(Target(c, m))) => Shared(m.via) /\ Serves(m.recordRoute)

BothPlain == Plain(call.ua) /\ Plain(callee.at)

At(address, u) == address.host = u /\ address.tp = Phones[u].tp

\* A request that every edgeport on its way lets through.
InDialogForm(m) ==
    /\ \E u \in DOMAIN Phones : Plain(u) /\ At(m.uri, u)
    /\ Serves(m.route) /\ m.dest = NextHop(m.route, m.uri)

\* What the dialog is made of: the answer, the requests in it, and what either phone kept.
AnswerServed(m) ==
    /\ callee.state # "idle"
    /\ BothPlain => Serves(m.recordRoute) /\ At(m.contact, callee.at)

DialogServed(m) ==
    /\ call.method = "INVITE" /\ callee.state # "idle"
    /\ BothPlain => InDialogForm(m)

MessageServed(m) ==
    /\ m.type = "request" /\ m.method = "INVITE" => InviteServed(call, m)
    /\ m.type = "response" /\ m.method = "INVITE" /\ m.code = OK => AnswerServed(m)
    /\ m.type = "request" /\ m.method \in {"ACK", "BYE"} => DialogServed(m)

CalleeServed == callee.state # "idle" /\ call.method = "INVITE" /\ BothPlain =>
    /\ Serves(callee.req.recordRoute) /\ callee.routes = callee.req.recordRoute
    /\ At(callee.target, call.ua)

CallerServed == caller.state = "up" =>
    /\ call.method = "INVITE" /\ callee.state # "idle"
    /\ BothPlain => Serves(caller.routes) /\ At(caller.target, callee.at)

DialogInv ==
    /\ \A m \in wire : MessageServed(m)
    /\ CalleeServed /\ CallerServed
    /\ callee.state = "talking" => call.method = "INVITE"
    /\ \A x \in lost : x \in {"ACK", "BYE"} => IsWeb(call.ua) \/ IsWeb(callee.at)

-----------------------------------------------------------------------------
(* Where an INVITE goes, and by which transport *)

\* The transport of a phone is the one it registered with, that of a trunk UDP.
KnownTp(route) ==
    \/ route.host \in TrunkHosts /\ route.tp = "UDP"
    \/ route.host \in DOMAIN Accounts /\ route.tp = Phones[route.host].tp

LEMMA TrunkTransport ==
    ASSUME NEW req, NEW number
    PROVE  TrunkRoute(req, number) = Broken \/ TrunkRoute(req, number).tp = "UDP"
<1> DEFINE uri == IF number \in DOMAIN Numbers THEN getTrunkURI(Numbers[number].trunk) ELSE Broken
           r == [edge |-> req.edge, host |-> uri.host, tp |-> uri.tp, advertised |-> Sender(req).host,
                 headers |-> {"privacy", createRemotePartyId, createPAssertedIdentity,
                              createTrunkAuthentication},
                 removes |-> {"privacy"}]
<1>1. TrunkRoute(req, number) = IF uri = Broken THEN Broken ELSE r
  BY DEF TrunkRoute
<1>2. uri # Broken => uri.tp = "UDP"
  <2> HAVE uri # Broken
  <2>1. uri = getTrunkURI(Numbers[number].trunk)
    OBVIOUS
  <2> HIDE DEF uri
  <2> QED BY <2>1 DEF getTrunkURI
<1> HIDE DEF uri
<1> QED BY <1>1, <1>2

\* A route the router chose is one that Location gave, or that of a trunk.
LEMMA RouteTransport ==
    ASSUME NEW c, NEW req, req.to = c.to,
           NEW regs, NEW pick, \A a \in Asked(c) : pick[a] = None \/ RouteOK(pick[a], regs),
           \A a \in Asked(c) : pick[a] # None => pick[a].tp = Phones[pick[a].host].tp,
           NEW deaf, NEW miss, NEW result, result = router(req, pick, deaf), result.type = "route",
           RouteChosen(c, result.route, req.edge, regs, miss)
    PROVE  KnownTp(result.route)
<1> DEFINE src == CallerOf(req, deaf)
           dst == CalleeOf(req, deaf)
           direction == getRoutingDirection(src, dst)
           denied == IF req.token # None
                     THEN IF "INVITE" \in Tokens[req.token].allows THEN None ELSE FORBIDDEN
                     ELSE IF req.method = "INVITE"
                     THEN checkAccess(req, src, dst, direction) ELSE None
           domain == IF req.token # None THEN Tokens[req.token].domain ELSE Agents[src.user].domain
           route == CASE direction = "AGENT_TO_AGENT" -> agentToAgent(req, pick)
                      [] direction = "AGENT_TO_PEER" -> agentToPeer(dst, pick)
                      [] direction = "AGENT_TO_PSTN" -> agentToPSTN(req, domain)
                      [] direction = "FROM_PSTN"     -> fromPSTN(dst, pick)
                      [] direction = "PEER_TO_PSTN"  -> peerToPSTN(req)
                      [] OTHER -> Broken
           mark == [route EXCEPT !.headers = @ \cup {"x-call-direction"}]
<1>1. router(req, pick, deaf) =
        CASE denied # None -> Answer(denied)
          [] denied = None /\ route = None -> Answer(TEMPORARILY_UNAVAILABLE)
          [] denied = None /\ route = Broken -> Answer(SERVER_INTERNAL_ERROR)
          [] OTHER -> [type |-> "route", direction |-> direction, route |-> mark]
  BY DEF router
<1> DEFINE given == \E a \in Asked(c) : pick[a] # None /\ route.host = pick[a].host /\ route.tp = pick[a].tp
                                        /\ DOMAIN route = RouteFields
           trunk == route.tp = "UDP" /\ route.host \in TrunkHosts /\ DOMAIN route = RouteFields
<1>2. route # None /\ route # Broken => given \/ trunk
  <2> HAVE route # None /\ route # Broken
  <2> HIDE DEF denied, src, domain
  <2>1. CASE direction = "AGENT_TO_AGENT"
    <3>1. route = pick[c.to] /\ c.to \in Asked(c)
      BY <2>1 DEF agentToAgent, getTargetAOR, Asked
    <3> HIDE DEF route
    <3> QED BY <3>1 DEF RouteOK
  <2>2. CASE direction = "AGENT_TO_PEER"
    <3>1. route = pick[Peers[dst.user].aor]
      BY <2>2 DEF agentToPeer
    <3>2. dst.kind = "PEER"
      BY <2>2, Directions
    <3>3. dst.user \in DOMAIN Peers
      BY <3>2, CalleeKinds
    <3>4. Peers[dst.user].aor \in Asked(c)
      BY <3>3 DEF Asked, Aors
    <3> HIDE DEF route
    <3> QED BY <3>1, <3>4 DEF RouteOK
  <2>3. CASE direction = "FROM_PSTN"
    <3> DEFINE number == Numbers[dst.user]
               r == pick[number.aorLink]
    <3>1. route = IF r = None THEN None ELSE [r EXCEPT !.headers = @ \cup number.headers]
      BY <2>3 DEF fromPSTN
    <3>2. dst.kind = "NUMBER"
      BY <2>3, Directions
    <3>3. dst.user \in DOMAIN Numbers
      BY <3>2, CalleeKinds
    <3>4. number.aorLink \in Asked(c)
      BY <3>3 DEF Asked
    <3> HIDE DEF route
    <3>5. RouteOK(r, regs) /\ r # None /\ route = [r EXCEPT !.headers = @ \cup number.headers]
      BY <3>1, <3>4
    <3>6. route.tp = r.tp /\ route.host = r.host /\ DOMAIN route = RouteFields
      <4> HIDE DEF r, number
      <4> QED BY <3>5 DEF RouteOK, RouteFields
    <3> QED BY <3>4, <3>5, <3>6
  <2>4. CASE direction = "AGENT_TO_PSTN"
    <3>1. route = agentToPSTN(req, domain)
      BY <2>4
    <3> HIDE DEF route, direction
    <3>2. PICK number : route = TrunkRoute(req, number)
      BY <3>1 DEF agentToPSTN
    <3> QED BY <3>2, TrunkRouted, TrunkTransport
  <2>5. CASE direction = "PEER_TO_PSTN"
    <3>1. route = peerToPSTN(req)
      BY <2>5
    <3> HIDE DEF route, direction
    <3>2. PICK number : route = TrunkRoute(req, number)
      BY <3>1 DEF peerToPSTN
    <3> QED BY <3>2, TrunkRouted, TrunkTransport
  <2>6. route # Broken /\ direction \notin {"AGENT_TO_AGENT", "AGENT_TO_PEER", "FROM_PSTN", "AGENT_TO_PSTN",
                                           "PEER_TO_PSTN"} => FALSE
    <3> HIDE DEF direction
    <3> QED OBVIOUS
  <2> HIDE DEF direction, route
  <2> QED BY <2>1, <2>2, <2>3, <2>4, <2>5, <2>6
<1> HIDE DEF route, denied, direction
<1>3. "response" # "route" /\ (\A code : Answer(code).type = "response")
  BY DEF Answer
<1>4. route # None /\ route # Broken /\ result.route = mark
  <2> HIDE DEF mark
  <2> QED BY <1>1, <1>3
<1>5. DOMAIN route = RouteFields
  BY <1>2, <1>4
<1>6. mark.host = route.host /\ mark.tp = route.tp
  BY <1>5 DEF RouteFields
<1>7. CASE given
  <2>1. PICK a \in Asked(c) : pick[a] # None /\ route.host = pick[a].host /\ route.tp = pick[a].tp
    BY <1>7
  <2>2. pick[a].host \in DOMAIN Accounts /\ pick[a].tp = Phones[pick[a].host].tp
    BY <2>1 DEF RouteOK
  <2> QED BY <1>4, <1>6, <2>1, <2>2 DEF KnownTp
<1>8. CASE trunk
  BY <1>4, <1>6, <1>8 DEF KnownTp
<1> QED BY <1>2, <1>4, <1>7, <1>8

\* The route of an INVITE: the one it came with from another edgeport, or a new one.
Chosen(c, m, e, regs, miss, route) ==
    IF Handed(c, m, regs)
    THEN route = createRouteFromLastMessage([m EXCEPT !.edge = e])
    ELSE RouteChosen(c, route, e, regs, miss) /\ KnownTp(route)

\* What throws is answered, so what goes on has an interface to each side.
LEMMA Unthrown ==
    ASSUME NEW req, NEW route, NEW out, out = Forward(req, route), out.type = "request"
    PROVE  LET e == req.edge
           IN /\ ~Throws(e, [host |-> route.host, tp |-> route.tp]) /\ ~Throws(e, Sender(req))
              /\ ~Throws(e, [host |-> route.advertised, tp |-> route.tp])
              /\ \/ route.edge = e /\ out.request = tailor(route, req)
                 \/ /\ route.edge # e /\ out.request = toPeerEdgePort(route, req)
                    /\ ~Throws(route.edge, [host |-> route.host, tp |-> route.tp])
BY DEF Forward, Answer, Send

Reaches(e, m, route) ==
    /\ ~Throws(e, [host |-> route.host, tp |-> route.tp])
    /\ ~Throws(e, Sender([m EXCEPT !.edge = e]))
    /\ ~Throws(e, [host |-> route.advertised, tp |-> route.tp])

LEMMA InviteGoes ==
    ASSUME NEW c, NEW m, NEW e, Taking(c, m, e), NEW regs, Registered(regs),
           Placed(c, m) \/ Handed(c, m, regs) \/ Back(c, m),
           NEW pick, \A a \in Asked(c) : pick[a] = None \/ RouteOK(pick[a], regs),
           \A a \in Asked(c) : pick[a] # None => pick[a].tp = Phones[pick[a].host].tp,
           NEW deaf, NEW miss \in BOOLEAN, deaf # {} => miss,
           NEW r0, r0 = [m EXCEPT !.edge = e],
           NEW out, out = connectProcessor(r0, pick, deaf), out.type = "request"
    PROVE  \E route :
             /\ Chosen(c, m, e, regs, miss, route) /\ Reaches(e, m, route)
             /\ \/ route.edge = e /\ out.request = tailor(route, r0)
                \/ /\ route.edge # e /\ out.request = toPeerEdgePort(route, r0) /\ ~Handed(c, m, regs)
                   /\ ~Throws(route.edge, [host |-> route.host, tp |-> route.tp])
<1>1. /\ r0.edge = e /\ r0.method = "INVITE" /\ r0.token = c.token /\ r0.from = c.from /\ r0.to = c.to
      /\ r0.uri = Dialled(c) /\ r0.auth \in {None, c.secret} /\ r0.ext = m.ext
  BY Taken DEF But, MessageFields, Taking, Untouched
<1>2. out = handleRequest(r0, pick, deaf)
  BY <1>1 DEF connectProcessor
<1>3. CASE Handed(c, m, regs)
  <2> DEFINE route == createRouteFromLastMessage(r0)
  <2>1. out = Forward(r0, route)
    <3>1. getHeaderValue(r0, "x-edgeport-ref")
      BY <1>1, <1>3 DEF Handed, getHeaderValue
    <3> HIDE DEF route
    <3> QED BY <1>2, <3>1 DEF handleRequest, route
  <2>2. route.edge = e /\ Chosen(c, m, e, regs, miss, route)
    BY <1>1, <1>3 DEF createRouteFromLastMessage, Chosen
  <2> HIDE DEF route
  <2>3. /\ ~Throws(e, [host |-> route.host, tp |-> route.tp]) /\ ~Throws(e, Sender(r0))
        /\ ~Throws(e, [host |-> route.advertised, tp |-> route.tp])
        /\ out.request = tailor(route, r0)
    <3>1. out.type = "request" /\ out = Forward(r0, route)
      BY <2>1
    <3>2. LET f == r0.edge
          IN /\ ~Throws(f, [host |-> route.host, tp |-> route.tp]) /\ ~Throws(f, Sender(r0))
             /\ ~Throws(f, [host |-> route.advertised, tp |-> route.tp])
             /\ \/ route.edge = f /\ out.request = tailor(route, r0)
                \/ /\ route.edge # f /\ out.request = toPeerEdgePort(route, r0)
                   /\ ~Throws(route.edge, [host |-> route.host, tp |-> route.tp])
      BY ONLY <3>1, Unthrown
    <3> QED BY <1>1, <2>2, <3>2
  <2>4. Reaches(e, m, route)
    BY <2>3 DEF Reaches
  <2> QED BY <2>2, <2>3, <2>4
<1>4. CASE ~Handed(c, m, regs)
  <2> DEFINE result == router(r0, pick, deaf)
             route == result.route
  <2>1. out = IF result.type = "response" THEN result ELSE Forward(r0, route)
    <3>1. ~getHeaderValue(r0, "x-edgeport-ref")
      BY <1>1, <1>4 DEF Placed, Back, getHeaderValue
    <3> QED BY <1>2, <3>1 DEF handleRequest
  <2>2. \/ result.type = "response" /\ result.code \in ResponseType
        \/ result.type = "route" /\ RouteChosen(c, route, e, regs, miss)
    <3>1. /\ \A a \in Asked(c) : pick[a] = None \/ RouteOK(pick[a], regs)
          /\ miss \in BOOLEAN /\ (deaf # {} => miss)
      OBVIOUS
    <3> QED BY ONLY <1>1, <3>1, Routed, ZenonT(60)
  <2>3. "response" # "route" /\ "response" # "request"
    OBVIOUS
  <2> HIDE DEF result
  <2>4. result.type = "route" /\ RouteChosen(c, route, e, regs, miss) /\ out = Forward(r0, route)
    BY <2>1, <2>2, <2>3
  <2>5. KnownTp(route)
    BY <1>1, <2>4, RouteTransport DEF result
  <2> HIDE DEF route
  <2>6. /\ ~Throws(e, [host |-> route.host, tp |-> route.tp]) /\ ~Throws(e, Sender(r0))
        /\ ~Throws(e, [host |-> route.advertised, tp |-> route.tp])
        /\ \/ route.edge = e /\ out.request = tailor(route, r0)
           \/ /\ route.edge # e /\ out.request = toPeerEdgePort(route, r0)
              /\ ~Throws(route.edge, [host |-> route.host, tp |-> route.tp])
    <3>1. out.type = "request" /\ out = Forward(r0, route)
      BY <2>4
    <3>2. LET f == r0.edge
          IN /\ ~Throws(f, [host |-> route.host, tp |-> route.tp]) /\ ~Throws(f, Sender(r0))
             /\ ~Throws(f, [host |-> route.advertised, tp |-> route.tp])
             /\ \/ route.edge = f /\ out.request = tailor(route, r0)
                \/ /\ route.edge # f /\ out.request = toPeerEdgePort(route, r0)
                   /\ ~Throws(route.edge, [host |-> route.host, tp |-> route.tp])
      BY ONLY <3>1, Unthrown
    <3> QED BY <1>1, <3>2
  <2>7. Chosen(c, m, e, regs, miss, route) /\ Reaches(e, m, route)
    BY <1>4, <2>4, <2>5, <2>6 DEF Chosen, Reaches
  <2> QED BY <1>4, <2>6, <2>7
<1> QED BY <1>3, <1>4

LEMMA FoundTransport ==
    ASSUME RoutingInv, LocForm, NEW r
    PROVE  \A a \in Asked(call) : Found(r)[a] # None => Found(r)[a].tp = Phones[Found(r)[a].host].tp
<1> SUFFICES ASSUME NEW a \in Asked(call), Found(r)[a] # None
             PROVE  Found(r)[a].tp = Phones[Found(r)[a].host].tp
  OBVIOUS
<1>1. Found(r)[a] = CASE a \notin Aors -> None
                      [] a \in Aors /\ loc[a] = {} -> None
                      [] OTHER -> IF r \in loc[a] THEN r ELSE CHOOSE x \in loc[a] : TRUE
  BY DEF Found, Asked
<1>2. a \in Aors /\ loc[a] # {}
  BY <1>1
<1>3. Found(r)[a] \in loc[a]
  BY <1>1, <1>2
<1> QED BY <1>2, <1>3 DEF LocForm

\* An edgeport at work on request m, with what the lookups give.
Handles(e, m, r, deaf) ==
    /\ m.type = "request" /\ m.dest \in OwnHosts(e)
    /\ failed' = (failed \/ deaf # {})
    /\ LET out == connectProcessor([m EXCEPT !.edge = e], Found(r), deaf)
       IN /\ m.method = "CANCEL" => SendCancel(e, m, out)
          /\ m.method # "CANCEL" /\ out.type = "request" => SendRequest(e, m, out.request)
          /\ m.method # "CANCEL" /\ out.type = "response" =>
                Replace(m, {Response(m, out.code)}) /\ UNCHANGED <<tx, lost>>
          /\ m.method # "CANCEL" /\ out.type \notin {"request", "response"} => Drop(m)
    /\ UNCHANGED <<call, loc, caller, callee, registers>>

LEMMA Handling ==
    ASSUME NEW e, HandleRequest(e)
    PROVE  \E m \in wire : \E r, deaf : Handles(e, m, r, deaf)
<1>1. PICK m \in wire, r \in Known \cup {None}, deaf \in SUBSET {"caller", "callee"} :
        /\ m.type = "request" /\ m.dest \in OwnHosts(e)
        /\ failed' = (failed \/ deaf # {})
        /\ LET out == connectProcessor([m EXCEPT !.edge = e], Found(r), deaf)
           IN CASE m.method = "CANCEL" -> SendCancel(e, m, out)
                [] m.method # "CANCEL" /\ out.type = "request" -> SendRequest(e, m, out.request)
                [] m.method # "CANCEL" /\ out.type = "response" ->
                      /\ Replace(m, {Response(m, out.code)})
                      /\ UNCHANGED <<tx, lost>>
                [] OTHER -> Drop(m)
        /\ UNCHANGED <<call, loc, caller, callee, registers>>
  BY ZenonT(60) DEF HandleRequest
<1> DEFINE out == connectProcessor([m EXCEPT !.edge = e], Found(r), deaf)
<1>2. /\ m.method = "CANCEL" => SendCancel(e, m, out)
      /\ m.method # "CANCEL" /\ out.type = "request" => SendRequest(e, m, out.request)
      /\ m.method # "CANCEL" /\ out.type = "response" =>
            Replace(m, {Response(m, out.code)}) /\ UNCHANGED <<tx, lost>>
      /\ m.method # "CANCEL" /\ out.type \notin {"request", "response"} => Drop(m)
  BY <1>1
<1>3. Handles(e, m, r, deaf)
  BY <1>1, <1>2 DEF Handles
<1> QED BY <1>3

\* An INVITE that edgeport e sends on as t.
Leaves(e, m, t, route) ==
    /\ Chosen(call, m, e, registers, failed', route) /\ Reaches(e, m, route)
    /\ Proceeds(call, t, registers, failed')
    /\ \/ route.edge = e /\ t = OnTheWire(e, tailor(route, [m EXCEPT !.edge = e]))
       \/ /\ route.edge # e /\ ~Handed(call, m, registers)
          /\ ~Throws(route.edge, [host |-> route.host, tp |-> route.tp])
          /\ t = OnTheWire(e, toPeerEdgePort(route, [m EXCEPT !.edge = e]))

LEMMA HopsLeft ==
    ASSUME NEW m, DOMAIN m = MessageFields, DOMAIN m.uri = {"user", "host", "tp"}, NEW route, NEW req,
           req = tailor(route, m) \/ req = toPeerEdgePort(route, m)
    PROVE  req.maxForwards = m.maxForwards - 1
<1>1. CASE req = tailor(route, m)
  BY ONLY DOMAIN m = MessageFields, DOMAIN m.uri = {"user", "host", "tp"}, <1>1, Tailored, ZenonT(60)
<1>2. CASE req = toPeerEdgePort(route, m)
  BY ONLY DOMAIN m = MessageFields, <1>2, Handing, ZenonT(60)
<1> QED BY <1>1, <1>2

LEMMA InviteHandled ==
    ASSUME RoutingInv, FormInv, LocForm, NEW e \in EdgePorts, NEW m \in wire, NEW r, NEW deaf,
           Handles(e, m, r, deaf), m.method = "INVITE"
    PROVE  \/ Refusal(m)
           \/ Drop(m) /\ m.maxForwards < 1
           \/ \E t, route : /\ Leaves(e, m, t, route) /\ Replace(m, {t})
                            /\ tx' = [tx EXCEPT ![e] = t] /\ lost' = lost
<1> DEFINE pick == Found(r)
           r0 == [m EXCEPT !.edge = e]
           out == connectProcessor(r0, pick, deaf)
<1>1. /\ failed' \in BOOLEAN /\ (deaf # {} => failed') /\ r0 = [m EXCEPT !.edge = e]
      /\ out = connectProcessor(r0, pick, deaf)
      /\ \A a \in Asked(call) : pick[a] = None \/ RouteOK(pick[a], registers)
      /\ \A a \in Asked(call) : pick[a] # None => pick[a].tp = Phones[pick[a].host].tp
  BY FoundOK, FoundTransport DEF Handles
<1>2. Registered(registers)
  BY DEF RoutingInv, RegistersInv, Registered
<1>3. /\ Taking(call, m, e) /\ (Placed(call, m) \/ Handed(call, m, registers) \/ Back(call, m))
      /\ MessageOK(m)
  BY Takes DEF Handles, RoutingInv, WireInv
<1>4. OpeningForm(call, m)
  BY DEF FormInv, MessageForm
<1>5. /\ out.type = "request" => SendRequest(e, m, out.request)
      /\ out.type = "response" => Replace(m, {Response(m, out.code)}) /\ UNCHANGED <<tx, lost>>
  BY DEF Handles
<1> HIDE DEF out, pick, r0
<1>6. \/ out.type = "response" /\ out.code \in Refusals
      \/ out.type = "request"
  BY <1>1, <1>2, <1>3, InviteWay
<1>7. CASE out.type = "response" /\ out.code \in Refusals
  BY <1>5, <1>7 DEF Refusal
<1>8. CASE out.type = "request"
  <2> DEFINE req == out.request
             t == OnTheWire(e, req)
  <2>0. SendRequest(e, m, req)
    BY <1>5, <1>8
  <2>1. PICK route :
             /\ Chosen(call, m, e, registers, failed', route) /\ Reaches(e, m, route)
             /\ \/ route.edge = e /\ req = tailor(route, r0)
                \/ /\ route.edge # e /\ req = toPeerEdgePort(route, r0) /\ ~Handed(call, m, registers)
                   /\ ~Throws(route.edge, [host |-> route.host, tp |-> route.tp])
    BY <1>1, <1>2, <1>3, <1>8, InviteGoes
  <2>2. ~(req.maxForwards < 0) => Proceeds(call, t, registers, failed')
    <3>1. "request" # "response" /\ out = connectProcessor([m EXCEPT !.edge = e], pick, deaf)
      BY <1>1
    <3>2. \/ out.type = "response" /\ out.code \in ResponseType
          \/ /\ out.type = "request"
             /\ ~(out.request.maxForwards < 0)
                  => Proceeds(call, OnTheWire(e, out.request), registers, failed')
      BY <1>1, <1>2, <1>3, <3>1, InviteProcessed
    <3> QED BY <1>8, <3>1, <3>2
  <2>3. req.maxForwards = m.maxForwards - 1
    <3>1. DOMAIN r0 = MessageFields /\ DOMAIN r0.uri = {"user", "host", "tp"} /\ r0.maxForwards = m.maxForwards
      BY <1>1, <1>3, Taken DEF But, MessageFields, Taking, Untouched, Dialled
    <3>2. req = tailor(route, r0) \/ req = toPeerEdgePort(route, r0)
      BY <2>1
    <3> HIDE DEF req
    <3> QED BY ONLY <3>1, <3>2, HopsLeft
  <2>4. m.maxForwards \in Nat
    BY <1>3, HopsAssumption DEF MessageOK, HopsAssumption
  <2>5. t = OnTheWire(e, req)
    OBVIOUS
  <2> HIDE DEF req, t
  <2>6. CASE req.maxForwards < 0
    BY <2>0, <2>3, <2>4, <2>6 DEF SendRequest
  <2>7. CASE ~(req.maxForwards < 0)
    <3>1. Replace(m, {t}) /\ tx' = [tx EXCEPT ![e] = t] /\ lost' = lost
      BY <2>0, <2>5, <2>7 DEF SendRequest
    <3>2. Leaves(e, m, t, route)
      BY <1>1, <2>1, <2>2, <2>5, <2>7 DEF Leaves
    <3> QED BY <3>1, <3>2
  <2> QED BY <2>6, <2>7
<1> QED BY <1>6, <1>7, <1>8

\* What an INVITE that is sent on has of the one that came.
Shaped(e, m, t, route) ==
    /\ t.type = "request" /\ t.method = "INVITE" /\ t.path = Append(m.path, e)
    /\ t.via = With(getEdgeInterface(e, [host |-> route.host, tp |-> route.tp]), m.via)
    /\ t.route # <<>> => t.dest = t.route[1].host
    /\ route.edge # e => "x-edgeport-ref" \in t.ext
    /\ route.edge = e => /\ t.ext = ((m.ext \ {"x-edgeport-ref"}) \ route.removes) \cup route.headers
                         /\ t.route = Reverse(Without(OwnHosts(e), m.route))
                         /\ t.route = <<>> => t.dest = route.host

LEMMA Shape ==
    ASSUME NEW e \in EdgePorts, NEW m, Taking(call, m, e), NEW t, NEW route, Leaves(e, m, t, route)
    PROVE  Shaped(e, m, t, route)
<1> DEFINE r0 == [m EXCEPT !.edge = e]
           end == [host |-> route.host, tp |-> route.tp]
<1>1. But(r0, m, {"edge"}) /\ r0.edge = e /\ DOMAIN r0 = MessageFields
  BY Taken DEF Taking
<1>2. /\ r0.type = "request" /\ r0.method = "INVITE" /\ r0.path = m.path /\ r0.via = m.via
      /\ r0.route = m.route /\ r0.ext = m.ext /\ r0.uri = Dialled(call)
  BY <1>1 DEF But, MessageFields, Taking, Untouched
<1>3. DOMAIN r0.uri = {"user", "host", "tp"}
  BY <1>2 DEF Dialled
<1>4. \/ route.edge = e /\ t = OnTheWire(e, tailor(route, r0))
      \/ route.edge # e /\ t = OnTheWire(e, toPeerEdgePort(route, r0))
  BY DEF Leaves
<1> HIDE DEF r0
<1>5. ASSUME NEW req, DOMAIN req = MessageFields, t = OnTheWire(e, req)
      PROVE  /\ t.type = req.type /\ t.method = req.method /\ t.path = Append(req.path, e)
             /\ t.via = req.via /\ t.ext = req.ext /\ t.route = Reverse(req.route)
             /\ t.route = <<>> => t.dest = req.uri.host
             /\ t.route # <<>> => t.dest = t.route[1].host
  <2>1. /\ But(t, req, {"edge", "route", "dest", "path"})
        /\ t.route = Reverse(req.route) /\ t.dest = NextHop(t.route, req.uri)
        /\ t.path = Append(req.path, e)
    BY <1>5, WireFields
  <2> QED BY <1>5, <2>1 DEF But, MessageFields, NextHop
<1>6. CASE route.edge = e /\ t = OnTheWire(e, tailor(route, r0))
  <2> DEFINE req == tailor(route, r0)
  <2>1. /\ But(req, r0, {"maxForwards", "auth", "route", "ext", "contact", "uri", "via", "recordRoute"})
        /\ req.route = Without(OwnHosts(r0.edge), r0.route)
        /\ req.ext = ((r0.ext \ {"x-edgeport-ref"}) \ route.removes) \cup route.headers
        /\ req.via = With(getEdgeInterface(r0.edge, end), r0.via)
        /\ req.uri = [r0.uri EXCEPT !.host = route.host, !.tp = route.tp]
    BY ONLY <1>1, <1>3, Tailored, ZenonT(60)
  <2>0. t = OnTheWire(e, req) /\ route.edge = e
    BY <1>6
  <2> HIDE DEF req
  <2>2. /\ DOMAIN req = MessageFields /\ req.type = "request" /\ req.method = "INVITE" /\ req.path = m.path
    BY <1>1, <1>2, <2>1 DEF But, MessageFields
  <2>3. req.uri.host = route.host
    BY <1>3, <2>1
  <2>4. /\ t.type = req.type /\ t.method = req.method /\ t.path = Append(req.path, e)
        /\ t.via = req.via /\ t.ext = req.ext /\ t.route = Reverse(req.route)
        /\ t.route = <<>> => t.dest = req.uri.host
        /\ t.route # <<>> => t.dest = t.route[1].host
    BY <1>5, <2>0, <2>2
  <2> QED BY ONLY <1>1, <1>2, <2>0, <2>1, <2>2, <2>3, <2>4 DEF Shaped
<1>7. CASE route.edge # e /\ t = OnTheWire(e, toPeerEdgePort(route, r0))
  <2> DEFINE req == toPeerEdgePort(route, r0)
  <2>1. /\ But(req, r0, {"maxForwards", "route", "ext", "via", "recordRoute"})
        /\ req.ext = r0.ext \cup {"x-edgeport-ref"}
        /\ req.via = With(getEdgeInterface(r0.edge, end), r0.via)
    BY ONLY <1>1, Handing, ZenonT(60)
  <2>0. t = OnTheWire(e, req) /\ route.edge # e
    BY <1>7
  <2> HIDE DEF req
  <2>2. /\ DOMAIN req = MessageFields /\ req.type = "request" /\ req.method = "INVITE" /\ req.path = m.path
    BY <1>1, <1>2, <2>1 DEF But, MessageFields
  <2>4. /\ t.type = req.type /\ t.method = req.method /\ t.path = Append(req.path, e)
        /\ t.via = req.via /\ t.ext = req.ext /\ t.route = Reverse(req.route)
        /\ t.route # <<>> => t.dest = t.route[1].host
    BY <1>5, <2>0, <2>2
  <2> QED BY ONLY <1>1, <1>2, <2>0, <2>1, <2>2, <2>4 DEF Shaped
<1> QED BY <1>4, <1>6, <1>7 DEF Shaped

-----------------------------------------------------------------------------
(* An INVITE arrives, or its callee keeps moving *)

LEMMA TwoAtLeast ==
    ASSUME NEW S, IsFiniteSet(S), NEW a \in S, NEW b \in S, a # b
    PROVE  Cardinality(S) > 1
<1> DEFINE none == {}
           one == none \cup {a}
           two == one \cup {b}
<1>1. IsFiniteSet(none) /\ Cardinality(none) = 0 /\ a \notin none
  BY FS_EmptySet
<1> HIDE DEF none
<1>2. IsFiniteSet(one) /\ Cardinality(one) = 1
  BY <1>1, FS_AddElement
<1>3. b \notin one /\ one \subseteq S
  <2>1. none = {}
    BY DEF none
  <2> QED BY <2>1
<1> HIDE DEF one
<1>4. IsFiniteSet(two) /\ Cardinality(two) = 2 /\ two \subseteq S
  BY <1>2, <1>3, FS_AddElement
<1> HIDE DEF two
<1>5. Cardinality(two) <= Cardinality(S) /\ Cardinality(S) \in Nat
  BY <1>4, FS_Subset, FS_CardinalityType
<1> QED BY <1>4, <1>5

\* Registrations only add up.
LEMMA InviteRests ==
    ASSUME NEW c, NEW m, NEW regs, NEW more, regs \subseteq more, Settled(c, m, regs)
    PROVE  Settled(c, m, more)
BY DEF Settled

\* The second edgeport an INVITE comes to is the one the callee registered with.
LEMMA Settles ==
    ASSUME RoutingInv, IsFiniteSet(registers), NEW e \in EdgePorts, NEW m \in wire,
           m.type = "request", m.method = "INVITE", m.dest \in OwnHosts(e),
           Settled(call, m, registers), NEW t, NEW route, Leaves(e, m, t, route), t.dest \in EdgeHosts
    PROVE  Settled(call, t, registers) \/ Restless
<1> USE DEF Restless
<1>1. /\ Taking(call, m, e) /\ (Placed(call, m) \/ Handed(call, m, registers) \/ Back(call, m))
      /\ Registered(registers) /\ m.path \in Seq(EdgePorts)
  BY Takes DEF RoutingInv, WireInv, MessageOK, RegistersInv, Registered
<1>2. /\ t.path = Append(m.path, e) /\ (t.route # <<>> => t.dest = t.route[1].host)
      /\ route.edge # e => "x-edgeport-ref" \in t.ext
      /\ route.edge = e => /\ t.ext = ((m.ext \ {"x-edgeport-ref"}) \ route.removes) \cup route.headers
                           /\ t.route = Reverse(Without(OwnHosts(e), m.route))
                           /\ t.route = <<>> => t.dest = route.host
  <2>1. Taking(call, m, e) /\ Leaves(e, m, t, route)
    BY <1>1
  <2>2. Shaped(e, m, t, route)
    BY <2>1, Shape
  <2> QED BY <2>2 DEF Shaped
<1>3. Len(t.path) = Len(m.path) + 1 /\ Len(m.path) \in Nat /\ (Len(m.path) = 0 <=> m.path = <<>>)
  BY <1>1, <1>2
<1>4. ~Handed(call, m, registers) => RouteChosen(call, route, e, registers, failed')
  BY DEF Leaves, Chosen
<1>5. ~Handed(call, m, registers) => route.edge # e
  <2> SUFFICES ASSUME ~Handed(call, m, registers), route.edge = e PROVE FALSE
    OBVIOUS
  <2>1. "x-call-direction" \in t.ext
    BY <1>2, <1>4 DEF RouteChosen
  <2>2. InviteOK(call, t, registers, failed')
    BY DEF Leaves, Proceeds
  <2>3. Out(call, t, registers, failed')
    BY <2>1, <2>2 DEF InviteOK, Untouched
  <2>4. DOMAIN Accounts \cap EdgeHosts = {} /\ TrunkHosts \cap EdgeHosts = {}
    BY HostsAssumption, PhonesAssumption DEF HostsAssumption, PhonesAssumption
  <2> QED BY <2>3, <2>4 DEF Out
<1>6. CASE m.path = <<>>
  <2>1. ~Handed(call, m, registers)
    BY <1>6 DEF Handed
  <2> QED BY <1>2, <1>3, <1>5, <1>6, <2>1 DEF Settled
<1>7. CASE Len(m.path) = 1 /\ "x-edgeport-ref" \in m.ext
  <2>1. Handed(call, m, registers)
    BY <1>1, <1>7 DEF Placed, Back
  <2>2. /\ route = createRouteFromLastMessage([m EXCEPT !.edge = e])
    BY <2>1 DEF Leaves, Chosen
  <2>3. route.edge = e /\ route.host = call.to.host /\ route.headers = {}
    <3> DEFINE r0 == [m EXCEPT !.edge = e]
    <3>1. r0.edge = e /\ r0.uri = Dialled(call)
      BY <1>1, Taken DEF But, MessageFields, Taking, Untouched
    <3>2. route = createRouteFromLastMessage(r0)
      BY <2>2
    <3> HIDE DEF r0
    <3> QED BY <3>1, <3>2 DEF createRouteFromLastMessage, Dialled
  <2>4. Len(t.path) = 2 /\ "x-edgeport-ref" \notin t.ext
    BY <1>2, <1>3, <1>7, <2>3
  <2>5. PICK f \in EdgePorts : Leads(call, m.route, f, registers)
    BY <2>1 DEF Handed
  <2>6. t.dest \in OwnHosts(f) /\ <<call.to.host, f>> \in registers
    <3> DEFINE s == m.route
               w == Without(OwnHosts(e), s)
               u == t.route
               dest == t.dest
               c == call
               regs == registers
    <3>0. e \in EdgePorts /\ f \in EdgePorts /\ \A x \in DOMAIN Accounts : x \notin EdgeHosts
      BY PhonesApart
    <3>1. Leads(c, s, f, regs) /\ s[1].host \in OwnHosts(e) /\ w = Without(OwnHosts(e), s)
          /\ Registered(regs) /\ dest \in EdgeHosts
      BY <1>1, <2>1, <2>5 DEF Handed, Taking
    <3>4. u = Reverse(w) /\ dest = IF u = <<>> THEN c.to.host ELSE u[1].host
      BY <1>2, <2>3
    <3> HIDE DEF s, w, u, dest, c, regs
    <3>2. Landed(c, s, u, dest, e, f, regs)
      BY ONLY <3>0, <3>1, <3>4, RoutesLeft, ZenonT(60)
    <3>5. dest \notin DOMAIN Accounts
      BY <3>0, <3>1
    <3>3. dest \in OwnHosts(f) /\ <<c.to.host, f>> \in regs
      BY <3>2, <3>5 DEF Landed
    <3> QED BY <3>3 DEF dest, c, regs
  <2>7. \A g \in EdgePorts : t.dest \in OwnHosts(g) => g = f
    BY <2>6, OwnEdge
  <2> QED BY <2>4, <2>6, <2>7 DEF Settled
<1>8. CASE /\ Len(m.path) = 2 /\ "x-edgeport-ref" \notin m.ext
           /\ \A g \in EdgePorts : m.dest \in OwnHosts(g) => <<call.to.host, g>> \in registers
  <2>1. ~Handed(call, m, registers) /\ ~Placed(call, m) /\ CalledByHost
    BY <1>1, <1>3, <1>8 DEF Handed, Placed, Back, CalledByHost
  <2>2. route.edge # e /\ <<route.host, route.edge>> \in registers
    BY <1>4, <1>5, <2>1 DEF RouteChosen, Leaving
  <2> DEFINE a == <<call.to.host, e>>
             b == <<route.host, route.edge>>
             S == registers
  <2>3. a \in S /\ b \in S /\ a # b /\ IsFiniteSet(S)
    BY <1>8, <2>2
  <2> HIDE DEF a, b, S
  <2>4. Cardinality(S) > 1
    BY <2>3, TwoAtLeast
  <2> QED BY <2>1, <2>4 DEF S
<1> QED BY <1>6, <1>7, <1>8 DEF Settled

\* The other requests pass, but for a CANCEL, or end the handler.
LEMMA OtherHandled ==
    ASSUME RoutingInv, NEW e \in EdgePorts, NEW m \in wire, NEW r, NEW deaf,
           Handles(e, m, r, deaf), m.method \notin {"INVITE", "CANCEL"}
    PROVE  \/ Drop(m) /\ Blocked(e, m)
           \/ \E t : /\ t.type = "request" /\ t.method = m.method /\ Through(e, m, t)
                     /\ Replace(m, {t}) /\ tx' = tx /\ lost' = lost
<1> DEFINE pick == Found(r)
           r0 == [m EXCEPT !.edge = e]
           out == connectProcessor(r0, pick, deaf)
           req == out.request
           t == OnTheWire(e, req)
<1>1. /\ MessageOK(m) /\ RequestOK(call, m, registers, failed) /\ m.type = "request"
      /\ m.method \in {"ACK", "BYE", "REGISTER"}
  BY DEF Handles, RoutingInv, WireInv, RequestsInv, Requests, MessageOK, Methods
<1>2. But(r0, m, {"edge"}) /\ r0.edge = e /\ DOMAIN r0 = MessageFields
  BY <1>1, Taken
<1>3. /\ out.type = "request" => SendRequest(e, m, out.request)
      /\ out.type \notin {"request", "response"} => Drop(m)
      /\ out = connectProcessor(r0, pick, deaf)
  BY DEF Handles
<1> HIDE DEF r0, pick, out
<1>4. /\ r0.type = "request" /\ r0.method = m.method /\ r0.path = m.path /\ r0.route = m.route
      /\ r0.uri = m.uri /\ r0.ext = m.ext /\ r0.maxForwards = m.maxForwards
  BY <1>1, <1>2 DEF But, MessageFields
<1>5. \/ out.type = "crash" /\ (Throws(r0.edge, r0.uri) \/ ThrowsOnRoutes(r0))
      \/ /\ out.type = "request" /\ But(req, r0, {"maxForwards", "via", "route", "auth", "ext"})
         /\ req.maxForwards = m.maxForwards - 1 /\ req.route = Without(OwnHosts(e), m.route)
  <2>1. CASE m.method = "REGISTER"
    <3> DEFINE r1 == decreaseMaxForwards(addSelfVia(createRouteFromLastMessage(r0), r0))
               q == removeXEdgePortRef(removeSelfRoutes(removeAuthorization(r1)))
    <3>1. out = handleRegistry(r0)
      BY <1>1, <1>3, <1>4, <2>1 DEF connectProcessor, getHeaderValue, RequestOK, OtherOK
    <3>2. But(q, r0, {"maxForwards", "via", "route", "auth", "ext"}) /\ q.maxForwards = r0.maxForwards - 1
      BY <1>2, Passed
    <3>3. \/ out.type = "crash" /\ (Throws(r0.edge, r0.uri) \/ ThrowsOnRoutes(r0))
          \/ out.type = "request" /\ req = q
      <4> HIDE DEF q, r1
      <4> QED BY <3>1 DEF handleRegistry, q, r1, Send
    <3>4. r1.route = r0.route /\ r1.edge = r0.edge /\ DOMAIN r1 = MessageFields
      BY <1>2 DEF MessageFields, decreaseMaxForwards, addSelfVia
    <3>5. q.route = Without(OwnHosts(e), m.route)
      <4> HIDE DEF r1
      <4> QED BY <1>2, <1>4, <3>4 DEF MessageFields, removeXEdgePortRef, removeSelfRoutes, removeAuthorization
    <3> HIDE DEF q, r1
    <3> QED BY <1>4, <3>2, <3>3, <3>5
  <2>2. CASE m.method \in {"ACK", "BYE"}
    <3> DEFINE q == removeSelfRoutes(addSelfViaUsingExternalAddrs(decreaseMaxForwards(r0)))
    <3>1. out = handleInDialog(r0)
      BY <1>3, <1>4, <2>2 DEF connectProcessor
    <3>2. But(q, r0, {"maxForwards", "via", "route"}) /\ q.maxForwards = r0.maxForwards - 1
      BY <1>2, Passed
    <3>3. \/ out.type = "crash" /\ (Throws(r0.edge, r0.uri) \/ ThrowsOnRoutes(r0))
          \/ out.type = "request" /\ req = q
      <4> HIDE DEF q
      <4> QED BY <3>1 DEF handleInDialog, q, Send
    <3>4. q.route = Without(OwnHosts(e), m.route)
      BY <1>2, <1>4 DEF MessageFields, removeSelfRoutes, addSelfViaUsingExternalAddrs, decreaseMaxForwards
    <3> HIDE DEF q
    <3>5. But(q, r0, {"maxForwards", "via", "route", "auth", "ext"})
      BY <3>2 DEF But
    <3> QED BY <1>4, <3>2, <3>3, <3>4, <3>5
  <2> QED BY <1>1, <2>1, <2>2
<1>6. ThrowsOnRoutes(r0) <=> ThrowsOnRoutes([m EXCEPT !.edge = e])
  BY DEF r0
<1>7. m.maxForwards \in Nat
  BY <1>1, HopsAssumption DEF MessageOK, HopsAssumption
<1>8. CASE out.type = "crash"
  BY <1>2, <1>3, <1>4, <1>5, <1>6, <1>8 DEF Blocked
<1>9. CASE out.type # "crash"
  <2>1. SendRequest(e, m, req) /\ t = OnTheWire(e, req)
    BY <1>3, <1>5, <1>9
  <2>2. /\ DOMAIN req = MessageFields /\ req.type = "request" /\ req.method = m.method /\ req.path = m.path
        /\ req.uri = m.uri /\ req.route = Without(OwnHosts(e), m.route) /\ req.maxForwards = m.maxForwards - 1
    BY <1>2, <1>4, <1>5, <1>9 DEF But, MessageFields
  <2> HIDE DEF t, req
  <2>3. CASE req.maxForwards < 0
    BY <1>7, <2>1, <2>2, <2>3 DEF SendRequest, Blocked
  <2>4. CASE ~(req.maxForwards < 0)
    <3>1. Replace(m, {t}) /\ tx' = tx /\ lost' = lost
      BY <1>1, <2>1, <2>4 DEF SendRequest
    <3>2. /\ But(t, req, {"edge", "route", "dest", "path"})
          /\ t.route = Reverse(req.route) /\ t.dest = NextHop(t.route, req.uri)
          /\ t.path = Append(req.path, e)
      BY <2>1, <2>2, WireFields
    <3>3. t.type = "request" /\ t.method = m.method /\ Through(e, m, t)
      BY <2>2, <3>2 DEF But, MessageFields, Through
    <3> QED BY <3>1, <3>3
  <2> QED BY <2>3, <2>4
<1> QED BY <1>8, <1>9

\* A CANCEL is dropped, or sent on with the answer to the INVITE.
LEMMA CancelHandled ==
    ASSUME RoutingInv, NEW e \in EdgePorts, NEW m \in wire, NEW r, NEW deaf,
           Handles(e, m, r, deaf), m.method = "CANCEL"
    PROVE  \/ Drop(m) /\ (tx[e] = None \/ connectProcessor([m EXCEPT !.edge = e], Found(r), deaf).type # "request")
           \/ \E one, two :
                /\ tx[e] # None /\ one = CancelOf(tx[e]) /\ two.type = "response"
                /\ two.method = "INVITE" /\ two.code = TERMINATED
                /\ Replace(m, {one, two}) /\ tx' = tx /\ lost' = lost
<1> DEFINE out == connectProcessor([m EXCEPT !.edge = e], Found(r), deaf)
           one == CancelOf(tx[e])
           two == Response([tx[e] EXCEPT !.via = Tail(@)], TERMINATED)
<1>1. SendCancel(e, m, out)
  BY DEF Handles
<1>2. CASE out.type = "request" /\ tx[e] # None
  <2>1. Replace(m, {one, two}) /\ tx' = tx /\ lost' = lost
    BY <1>1, <1>2 DEF SendCancel
  <2>2. tx[e] # None /\ two.type = "response" /\ two.method = "INVITE" /\ two.code = TERMINATED
    BY <1>2 DEF Response, RoutingInv, TxInv, TxOK, MessageOK, MessageFields
  <2>3. one = CancelOf(tx[e])
    OBVIOUS
  <2> HIDE DEF one, two
  <2> QED BY <2>1, <2>2, <2>3
<1>3. CASE ~(out.type = "request" /\ tx[e] # None)
  <2>1. Drop(m)
    BY <1>1, <1>3 DEF SendCancel
  <2> QED BY <1>3, <2>1
<1> QED BY <1>2, <1>3

\* Nothing but a request vanishes.
LEMMA Vanishing ==
    ASSUME RoutingInv, FormInv, NEW m \in wire, \A e \in EdgePorts : m.dest \notin OwnHosts(e),
           m.dest \notin DOMAIN Phones
    PROVE  m.type = "request"
<1>1. MessageOK(m) /\ MessageForm(call, callee.at, m)
  BY DEF RoutingInv, WireInv, FormInv
<1>2. m.type = "response" => m.dest = m.via[1].host /\ m.via[1] \in Interface
  BY <1>1 DEF MessageOK, MessageForm
<1> QED BY <1>1, <1>2 DEF Interface, EdgeHosts, MessageOK

\* Whatever puts no INVITE for an edgeport on the wire that is not settled.
LEMMA InviteSwap ==
    ASSUME InviteInv, NEW new, wire' \subseteq wire \cup new, call' = call, registers' = registers,
           "INVITE" \in lost' => "INVITE" \in lost \/ Restless,
           \A t \in new : t.type = "request" /\ t.method = "INVITE" /\ t.dest \in EdgeHosts =>
              Settled(call, t, registers) \/ Restless
    PROVE  InviteInv'
<1>1. Restless' <=> Restless
  BY DEF Restless, CalledByHost
<1>2. ASSUME NEW m \in wire', m.type = "request", m.method = "INVITE", m.dest \in EdgeHosts
      PROVE  Settled(call', m, registers') \/ Restless'
  BY <1>1, <1>2 DEF InviteInv, Requests
<1>3. \A m \in Requests' : m.method = "INVITE" /\ m.dest \in EdgeHosts =>
         Settled(call', m, registers') \/ Restless'
  BY <1>2 DEF Requests
<1>4. IsFiniteSet(registers') /\ ("INVITE" \in lost' => Restless')
  BY <1>1 DEF InviteInv
<1> QED BY <1>3, <1>4 DEF InviteInv

LEMMA InviteByRequest ==
    ASSUME RoutingInv, FormInv, LocForm, LaidOut, InviteInv, NEW e \in EdgePorts, HandleRequest(e)
    PROVE  InviteInv'
<1>1. PICK m \in wire : \E r, deaf : Handles(e, m, r, deaf)
  BY Handling
<1>2. PICK r, deaf : Handles(e, m, r, deaf)
  BY <1>1
<1>3. /\ m.type = "request" /\ m.dest \in OwnHosts(e) /\ call' = call /\ registers' = registers
      /\ MessageOK(m)
  BY <1>2 DEF Handles, RoutingInv, WireInv
<1>4. ASSUME NEW new, Replace(m, new), lost' = lost,
             \A t \in new : t.type = "request" /\ t.method = "INVITE" /\ t.dest \in EdgeHosts =>
                Settled(call, t, registers) \/ Restless
      PROVE  InviteInv'
  <2>1. wire' \subseteq wire \cup new
    BY <1>4 DEF Replace
  <2> QED BY <1>3, <1>4, <2>1, InviteSwap
<1>5. ASSUME Drop(m), m.method = "INVITE" => Restless
      PROVE  InviteInv'
  <2> DEFINE none == {}
  <2>1. wire' \subseteq wire \cup none /\ lost' = lost \cup {m.method} /\ \A t \in none : FALSE
    BY <1>5 DEF Drop, Replace
  <2> HIDE DEF none
  <2> QED BY <1>3, <1>5, <2>1, InviteSwap
<1>6. CASE m.method = "CANCEL"
  <2>1. CASE Drop(m)
    BY <1>5, <1>6, <2>1
  <2>2. ASSUME NEW one, NEW two, tx[e] # None, one = CancelOf(tx[e]), two.type = "response",
               Replace(m, {one, two}), lost' = lost
        PROVE  InviteInv'
    <3>1. one.method = "CANCEL"
      BY <2>2 DEF CancelOf, RoutingInv, TxInv, TxOK, MessageOK, MessageFields
    <3> DEFINE new == {one, two}
    <3>2. \A t \in new : ~(t.type = "request" /\ t.method = "INVITE")
      BY <2>2, <3>1
    <3>3. Replace(m, new)
      BY <2>2
    <3> HIDE DEF new
    <3> QED BY <1>4, <2>2, <3>2, <3>3
  <2> QED BY <1>2, <1>6, <2>1, <2>2, CancelHandled
<1>7. CASE m.method \notin {"INVITE", "CANCEL"}
  <2>1. CASE Drop(m)
    BY <1>5, <1>7, <2>1
  <2>2. ASSUME NEW t, t.method = m.method, Replace(m, {t}), lost' = lost
        PROVE  InviteInv'
    <3> DEFINE new == {t}
    <3>1. Replace(m, new) /\ \A x \in new : x.method # "INVITE"
      BY <1>7, <2>2
    <3> HIDE DEF new
    <3> QED BY <1>4, <2>2, <3>1
  <2> QED BY <1>2, <1>7, <2>1, <2>2, OtherHandled
<1>8. CASE m.method = "INVITE"
  <2>1. Settled(call, m, registers) \/ Restless
    <3>1. m \in Requests /\ m.dest \in EdgeHosts
      BY <1>3 DEF Requests, EdgeHosts
    <3> QED BY <1>8, <3>1 DEF InviteInv
  <2>2. CASE Refusal(m)
    <3>1. PICK code \in Refusals : Replace(m, {Response(m, code)}) /\ UNCHANGED <<tx, lost>>
      BY <2>2 DEF Refusal
    <3> DEFINE new == {Response(m, code)}
    <3>2. Replace(m, new) /\ \A t \in new : t.type = "response"
      BY <1>3, <3>1 DEF Response, MessageOK, MessageFields
    <3> HIDE DEF new
    <3> QED BY <1>4, <3>1, <3>2
  <2>3. CASE Drop(m) /\ m.maxForwards < 1
    <3>1. ~Settled(call, m, registers)
      <4>1. m.maxForwards = MaxHops - Len(m.path) /\ Len(m.path) \in Nat /\ MaxHops \in Nat /\ MaxHops > 2
            /\ (m.path = <<>> => Len(m.path) = 0)
        BY <1>3, <1>8, HopsAssumption DEF MessageOK, Traced, HopsAssumption, LaidOut
      <4>2. Settled(call, m, registers) => m.path = <<>> \/ Len(m.path) = 1 \/ Len(m.path) = 2
        BY Zenon DEF Settled
      <4>3. m.maxForwards < 1
        BY <2>3
      <4> DEFINE n == Len(m.path)
                 k == m.maxForwards
      <4>4. k = MaxHops - n /\ k < 1 /\ MaxHops \in Nat /\ MaxHops > 2 /\ n \in Nat
        BY <4>1, <4>3
      <4>5. Settled(call, m, registers) => n = 0 \/ n = 1 \/ n = 2
        BY <4>1, <4>2
      <4> HIDE DEF n, k
      <4>6. ~(n = 0 \/ n = 1 \/ n = 2)
        BY ONLY <4>4
      <4> QED BY ONLY <4>5, <4>6
    <3> QED BY <1>5, <2>1, <2>3, <3>1
  <2>4. ASSUME NEW t, NEW route, Leaves(e, m, t, route), Replace(m, {t}), lost' = lost
        PROVE  InviteInv'
    <3> DEFINE new == {t}
    <3>1. t.dest \in EdgeHosts => Settled(call, t, registers) \/ Restless
      BY <1>3, <1>8, <2>1, <2>4, Settles DEF InviteInv
    <3>2. /\ Replace(m, new)
          /\ \A x \in new : x.dest \in EdgeHosts => Settled(call, x, registers) \/ Restless
      BY <2>4, <3>1
    <3> HIDE DEF new
    <3> QED BY <1>4, <2>4, <3>2
  <2> QED BY <1>2, <1>8, <2>2, <2>3, <2>4, InviteHandled
<1> QED BY <1>6, <1>7, <1>8

LEMMA InviteByNet ==
    ASSUME RoutingInv, FormInv, LaidOut, InviteInv,
           \/ (\E e \in EdgePorts : HandleResponse(e)) \/ Tunnel \/ Vanish
           \/ (\E u \in call.phones : Register(u)) \/ Expire
    PROVE  InviteInv'
<1>1. CASE \E e \in EdgePorts : HandleResponse(e)
  <2>1. PICK e \in EdgePorts : HandleResponse(e)
    BY <1>1
  <2>2. PICK m \in wire :
        /\ m.type = "response"
        /\ LET back == removeTopVia(m)
           IN Replace(m, IF m.code = TERMINATED \/ back.via = <<>> THEN {}
                         ELSE {[back EXCEPT !.dest = back.via[1].host]})
        /\ UNCHANGED <<call, lost, registers>>
    BY <2>1 DEF HandleResponse
  <2> DEFINE back == removeTopVia(m)
             new == {[back EXCEPT !.dest = back.via[1].host]}
  <2>3. wire' \subseteq wire \cup new
    BY <2>2 DEF Replace
  <2>4. \A t \in new : t.type = "response"
    BY <2>2 DEF removeTopVia, RoutingInv, WireInv, MessageOK, MessageFields
  <2> HIDE DEF new
  <2> QED BY <2>2, <2>3, <2>4, InviteSwap
<1>2. CASE Tunnel
  <2>1. PICK m \in wire, u \in DOMAIN Phones :
        m.dest = Invalid /\ Replace(m, {[m EXCEPT !.dest = u]}) /\ UNCHANGED <<call, lost, registers>>
    BY <1>2 DEF Tunnel
  <2> DEFINE t == [m EXCEPT !.dest = u]
             new == {t}
  <2>2. MessageOK(m)
    BY DEF RoutingInv, WireInv
  <2>3. t.dest = u /\ wire' \subseteq wire \cup new
    BY <2>1, <2>2 DEF MessageOK, MessageFields, Replace
  <2>4. u \notin EdgeHosts
    BY HostsAssumption DEF HostsAssumption
  <2> HIDE DEF t
  <2>5. \A x \in new : x.dest \notin EdgeHosts
    BY <2>3, <2>4
  <2> HIDE DEF new
  <2> QED BY <2>1, <2>3, <2>5, InviteSwap
<1>3. CASE Vanish
  <2>1. PICK m \in wire : /\ \A e \in EdgePorts : m.dest \notin OwnHosts(e)
                          /\ m.dest \notin DOMAIN Phones /\ Drop(m) /\ UNCHANGED <<call, registers>>
    BY <1>3 DEF Vanish
  <2>2. m.type = "request"
    BY <2>1, Vanishing
  <2>3. m.method # "INVITE"
    <3> SUFFICES ASSUME m.method = "INVITE" PROVE FALSE
      OBVIOUS
    <3>1. InviteOK(call, m, registers, failed)
      BY <2>2 DEF RoutingInv, RequestsInv, Requests, RequestOK
    <3>2. m.dest \notin EdgeHosts
      BY <2>1 DEF EdgeHosts
    <3>3. Out(call, m, registers, failed)
      BY <3>1, <3>2, DestInside DEF InviteOK
    <3>4. m.dest \in DOMAIN Phones
      BY <3>3, PhonesAssumption DEF Out, LaidOut, PhonesAssumption
    <3> QED BY <2>1, <3>4
  <2> DEFINE none == {}
  <2>4. wire' \subseteq wire \cup none /\ lost' = lost \cup {m.method} /\ \A t \in none : FALSE
    BY <2>1 DEF Drop, Replace
  <2> HIDE DEF none
  <2> QED BY <2>1, <2>3, <2>4, InviteSwap
<1>4. CASE \E u \in call.phones : Register(u)
  <2>1. PICK u, e : registers' = registers \cup {<<u, e>>} /\ UNCHANGED <<call, wire, lost>>
    BY <1>4 DEF Register
  <2> DEFINE x == <<u, e>>
             S == registers
  <2>2. IsFiniteSet(S) /\ S \subseteq registers'
    BY <2>1 DEF InviteInv
  <2>3. registers' = S \cup {x}
    BY <2>1
  <2> HIDE DEF x, S
  <2>4. IsFiniteSet(registers') /\ Cardinality(S) <= Cardinality(registers')
        /\ Cardinality(S) \in Nat /\ Cardinality(registers') \in Nat
    <3>1. IsFiniteSet(registers')
      BY <2>2, <2>3, FS_AddElement
    <3> QED BY <2>2, <3>1, FS_Subset, FS_CardinalityType
  <2>5. Restless => Restless'
    BY <2>1, <2>4 DEF Restless, CalledByHost, S
  <2>6. \A m : Settled(call, m, registers) => Settled(call, m, registers')
    BY <2>2, InviteRests DEF S
  <2>7. \A m \in Requests' : m.method = "INVITE" /\ m.dest \in EdgeHosts =>
           Settled(call', m, registers') \/ Restless'
    BY <2>1, <2>5, <2>6 DEF InviteInv, Requests
  <2>8. "INVITE" \in lost' => Restless'
    BY <2>1, <2>5 DEF InviteInv
  <2> QED BY <2>4, <2>7, <2>8 DEF InviteInv
<1>5. CASE Expire
  <2> DEFINE none == {}
  <2>1. wire' \subseteq wire \cup none /\ UNCHANGED <<call, lost, registers>> /\ \A t \in none : FALSE
    BY <1>5 DEF Expire
  <2> HIDE DEF none
  <2> QED BY <2>1, InviteSwap
<1> QED BY <1>1, <1>2, <1>3, <1>4, <1>5

LEMMA InviteByPhones ==
    ASSUME RoutingInv, InviteInv,
           \/ Place \/ Opened \/ Cancel \/ CallerHangsUp
           \/ Ring \/ PickUp \/ Cancelled \/ Acked \/ CalleeHangsUp \/ Ended
    PROVE  InviteInv'
<1>0. ASSUME wire' \subseteq wire, UNCHANGED <<call, lost, registers>> PROVE InviteInv'
  <2> DEFINE none == {}
  <2>1. wire' \subseteq wire \cup none /\ \A t \in none : FALSE
    BY <1>0
  <2> HIDE DEF none
  <2> QED BY <1>0, <2>1, InviteSwap
<1>1. ASSUME NEW t, wire' \subseteq wire \cup {t}, UNCHANGED <<call, lost, registers>>,
             t.type = "request" /\ t.method = "INVITE" => t.path = <<>>
      PROVE  InviteInv'
  <2> DEFINE new == {t}
  <2>1. \A x \in new : x.type = "request" /\ x.method = "INVITE" => Settled(call, x, registers)
    BY <1>1 DEF Settled
  <2>2. wire' \subseteq wire \cup new
    BY <1>1
  <2> HIDE DEF new
  <2> QED BY <1>1, <2>1, <2>2, InviteSwap
<1>2. CASE \E auth : wire' \subseteq wire \cup {Opening(auth)} /\ UNCHANGED <<call, lost, registers>>
  <2>1. PICK auth : wire' \subseteq wire \cup {Opening(auth)} /\ UNCHANGED <<call, lost, registers>>
    BY <1>2
  <2> DEFINE t == Opening(auth)
  <2>2. t = Opening(auth)
    OBVIOUS
  <2> HIDE DEF t
  <2>3. t.path = <<>>
    BY <2>2, OpeningWaits
  <2> QED BY <1>1, <2>1, <2>2, <2>3
<1>3. CASE Place
  BY <1>2, <1>3 DEF Place
<1>4. CASE Cancel
  <2> DEFINE t == [Opening(None) EXCEPT !.method = "CANCEL"]
  <2>1. t.method = "CANCEL" /\ wire' = wire \cup {t} /\ UNCHANGED <<call, lost, registers>>
    BY <1>4 DEF Cancel, Opening, Request
  <2> HIDE DEF t
  <2> QED BY <1>1, <2>1
<1>5. ASSUME NEW u, NEW side, wire' = wire \cup {InDialog(u, "BYE", side)}, UNCHANGED <<call, lost, registers>>
      PROVE  InviteInv'
  <2> DEFINE t == InDialog(u, "BYE", side)
  <2>1. t.method = "BYE"
    BY DEF InDialog, Request
  <2>2. wire' = wire \cup {t}
    BY <1>5
  <2> HIDE DEF t
  <2> QED BY <1>1, <1>5, <2>1, <2>2
<1>6. CASE CallerHangsUp \/ CalleeHangsUp
  BY <1>5, <1>6 DEF CallerHangsUp, CalleeHangsUp, HangUp
<1>7. CASE Ring \/ Cancelled \/ Acked
  <2>1. wire' \subseteq wire /\ UNCHANGED <<call, lost, registers>>
    BY <1>7 DEF Ring, Cancelled, Acked, Replace
  <2> QED BY <1>0, <2>1
<1>8. CASE PickUp
  <2> DEFINE t == [Response(callee.req, OK) EXCEPT !.contact = Contact(callee.at)]
  <2>1. wire' = wire \cup {t} /\ UNCHANGED <<call, lost, registers>> /\ callee.state # "idle"
    BY <1>8 DEF PickUp
  <2>2. t.type = "response"
    BY <2>1 DEF Response, RoutingInv, CalleeInv, MessageOK, MessageFields
  <2> HIDE DEF t
  <2> QED BY <1>1, <2>1, <2>2
<1>9. CASE Ended
  <2>1. PICK m \in wire :
          Replace(m, IF m.type = "request" THEN {Response(m, OK)} ELSE {}) /\ UNCHANGED <<call, lost, registers>>
    BY <1>9 DEF Ended
  <2> DEFINE t == Response(m, OK)
  <2>2. t.type = "response"
    BY DEF Response, RoutingInv, WireInv, MessageOK, MessageFields
  <2>3. wire' \subseteq wire \cup {t}
    BY <2>1 DEF Replace
  <2> HIDE DEF t
  <2> QED BY <1>1, <2>1, <2>2, <2>3
<1>10. CASE Opened
  <2>1. PICK m \in wire :
        /\ \/ Replace(m, {Opening(call.secret)}) \/ Replace(m, {})
           \/ \E up, auth : Replace(m, {[InDialog(call.ua, "ACK", up) EXCEPT !.auth = auth]})
        /\ UNCHANGED <<call, lost, registers>>
    BY <1>10 DEF Opened
  <2>2. CASE Replace(m, {Opening(call.secret)})
    BY <1>2, <2>1, <2>2 DEF Replace
  <2>3. CASE Replace(m, {})
    <3>1. wire' \subseteq wire
      BY <2>3 DEF Replace
    <3> QED BY <1>0, <2>1, <3>1
  <2>4. CASE \E up, auth : Replace(m, {[InDialog(call.ua, "ACK", up) EXCEPT !.auth = auth]})
    <3>1. PICK up, auth : Replace(m, {[InDialog(call.ua, "ACK", up) EXCEPT !.auth = auth]})
      BY <2>4
    <3> DEFINE t == [InDialog(call.ua, "ACK", up) EXCEPT !.auth = auth]
    <3>2. t.method = "ACK" /\ wire' \subseteq wire \cup {t}
      BY <3>1 DEF InDialog, Request, Replace
    <3> HIDE DEF t
    <3> QED BY <1>1, <2>1, <3>2
  <2> QED BY <2>1, <2>2, <2>3, <2>4
<1> QED BY <1>3, <1>4, <1>6, <1>7, <1>8, <1>9, <1>10

LEMMA NextInvites ==
    ASSUME LaidOut
    PROVE  RoutingInv /\ FormInv /\ LocForm /\ InviteInv /\ [Next]_vars => InviteInv'
<1> SUFFICES ASSUME RoutingInv, FormInv, LocForm, InviteInv, [Next]_vars PROVE InviteInv'
  OBVIOUS
<1>1. CASE \E e \in EdgePorts : HandleRequest(e)
  BY <1>1, InviteByRequest
<1>2. CASE \/ (\E e \in EdgePorts : HandleResponse(e)) \/ Tunnel \/ Vanish
           \/ (\E u \in call.phones : Register(u)) \/ Expire
  BY <1>2, InviteByNet
<1>3. CASE \/ Place \/ Opened \/ Cancel \/ CallerHangsUp
           \/ Ring \/ PickUp \/ Cancelled \/ Acked \/ CalleeHangsUp \/ Ended
  BY <1>3, InviteByPhones
<1>4. CASE UNCHANGED vars
  BY <1>4 DEF vars, InviteInv, Requests, Restless, CalledByHost
<1> QED BY <1>1, <1>2, <1>3, <1>4 DEF Next, Edges

\* Location holds the transports of the phones.
LEMMA LocKept ==
    ASSUME RoutingInv, LocForm, [Next]_vars
    PROVE  LocForm'
<1>1. ASSUME NEW u \in call.phones, Register(u) PROVE LocForm'
  <2>1. PICK e \in Phones[u].edges :
        LET a == Accounts[u]
            req == [Request(u, "REGISTER", [user |-> None, host |-> a.host, tp |-> None], <<>>, None)
                       EXCEPT !.from = [user |-> a.user, host |-> a.host], !.edge = e,
                              !.to = [user |-> a.user, host |-> a.host],
                              !.auth = a.secret, !.token = a.token]
            out == connectProcessor(req, <<>>, {})
        IN /\ out.type = "addRoute"
           /\ loc' = [loc EXCEPT ![out.aor] =
                        {r \in @ : r.host # out.route.host} \cup {out.route}]
    BY <1>1 DEF Register
  <2> DEFINE a == Accounts[u]
             q == Request(u, "REGISTER", [user |-> None, host |-> a.host, tp |-> None], <<>>, None)
             req == [q EXCEPT !.from = [user |-> a.user, host |-> a.host], !.edge = e,
                              !.to = [user |-> a.user, host |-> a.host],
                              !.auth = a.secret, !.token = a.token]
             none == <<>>
             deaf == {}
             out == connectProcessor(req, none, deaf)
  <2>2. out.type = "addRoute"
        /\ loc' = [loc EXCEPT ![out.aor] = {r \in @ : r.host # out.route.host} \cup {out.route}]
    BY <2>1
  <2>3. /\ DOMAIN q = MessageFields /\ q.method = "REGISTER" /\ q.ext = {} /\ q.via = <<Self(u)>>
    BY DEF Request, MessageFields
  <2> HIDE DEF q
  <2>4. req.method = "REGISTER" /\ req.ext = {} /\ req.via = <<Self(u)>>
    BY <2>3 DEF MessageFields
  <2>5. out = connectProcessor(req, none, deaf)
    OBVIOUS
  <2> HIDE DEF req, out, none, deaf
  <2>6. out.route = createRoute(req)
    BY <2>2, <2>4, <2>5, RouteAdded
  <2>7. out.route.host = u /\ out.route.tp = Phones[u].tp
    <3>1. req.via[1] = Self(u)
      BY <2>4
    <3> QED BY <2>6, <3>1 DEF createRoute, Sender, Self
  <2>8. DOMAIN loc = Aors
    BY DEF RoutingInv, LocInv
  <2>9. ASSUME NEW x \in Aors, NEW r \in loc'[x] PROVE r.tp = Phones[r.host].tp
    <3>1. r \in loc[x] \/ r = out.route
      BY <2>2, <2>8
    <3> QED BY <2>7, <3>1 DEF LocForm
  <2> QED BY <2>9 DEF LocForm
<1>2. CASE Expire
  <2>1. PICK a \in Aors : \E r \in loc[a] : loc' = [loc EXCEPT ![a] = @ \ {r}]
    BY <1>2 DEF Expire
  <2> QED BY <2>1 DEF LocForm, RoutingInv, LocInv
<1>3. ASSUME loc' = loc PROVE LocForm'
  BY <1>3 DEF LocForm
<1>5. ASSUME NEW e \in EdgePorts, HandleRequest(e) PROVE loc' = loc
  <2>1. PICK m \in wire : \E r, deaf : Handles(e, m, r, deaf)
    BY <1>5, Handling
  <2> QED BY <2>1 DEF Handles
<1>6. ASSUME NEW e \in EdgePorts, HandleResponse(e) PROVE loc' = loc
  BY <1>6 DEF HandleResponse
<1>7. Place \/ Opened \/ Cancel \/ CallerHangsUp => loc' = loc
  BY DEF Place, Opened, Cancel, CallerHangsUp, HangUp
<1>8. Ring \/ PickUp \/ Cancelled \/ Acked \/ CalleeHangsUp \/ Ended => loc' = loc
  BY DEF HangUp, Ring, PickUp, Cancelled, Acked, CalleeHangsUp, Ended
<1>9. Tunnel \/ Vanish \/ UNCHANGED vars => loc' = loc
  BY DEF Tunnel, Vanish, vars
<1>4. \/ loc' = loc \/ Expire \/ \E u \in call.phones : Register(u)
  BY <1>5, <1>6, <1>7, <1>8, <1>9 DEF Next, Edges
<1> QED BY <1>1, <1>2, <1>3, <1>4

-----------------------------------------------------------------------------
(* A CANCEL takes the way of its INVITE *)

\* What the router looks at in a request, but for its method and its credentials.
SameCall(a, b) ==
    /\ a.edge = b.edge /\ a.uri = b.uri /\ a.from = b.from /\ a.to = b.to /\ a.token = b.token
    /\ a.via = b.via /\ a.ext = b.ext /\ a.route = b.route

LEMMA SameRoute ==
    ASSUME NEW a, NEW b, SameCall(a, b), b.method = "CANCEL", NEW pick, NEW deaf,
           router(a, pick, deaf).type = "route", a.method = "INVITE"
    PROVE  router(b, pick, deaf) = router(a, pick, deaf)
<1> DEFINE src(req) == CallerOf(req, deaf)
           dst(req) == CalleeOf(req, deaf)
           direction(req) == getRoutingDirection(src(req), dst(req))
           denied(req) == IF req.token # None
                          THEN IF "INVITE" \in Tokens[req.token].allows THEN None ELSE FORBIDDEN
                          ELSE IF req.method = "INVITE"
                          THEN checkAccess(req, src(req), dst(req), direction(req)) ELSE None
           domain(req) == IF req.token # None THEN Tokens[req.token].domain ELSE Agents[src(req).user].domain
           route(req) == CASE direction(req) = "AGENT_TO_AGENT" -> agentToAgent(req, pick)
                           [] direction(req) = "AGENT_TO_PEER" -> agentToPeer(dst(req), pick)
                           [] direction(req) = "AGENT_TO_PSTN" -> agentToPSTN(req, domain(req))
                           [] direction(req) = "FROM_PSTN"     -> fromPSTN(dst(req), pick)
                           [] direction(req) = "PEER_TO_PSTN"  -> peerToPSTN(req)
                           [] OTHER -> Broken
           result(no, way, turn) ==
               CASE no # None -> Answer(no)
                 [] no = None /\ way = None -> Answer(TEMPORARILY_UNAVAILABLE)
                 [] no = None /\ way = Broken -> Answer(SERVER_INTERNAL_ERROR)
                 [] OTHER -> [type |-> "route", direction |-> turn,
                              route |-> [way EXCEPT !.headers = @ \cup {"x-call-direction"}]]
<1>1. \A req : router(req, pick, deaf) = result(denied(req), route(req), direction(req))
  BY DEF router
<1>2. src(a) = src(b) /\ dst(a) = dst(b)
  BY DEF SameCall, CallerOf, CalleeOf
<1>3. direction(a) = direction(b) /\ domain(a) = domain(b)
  <2> HIDE DEF src, dst
  <2> QED BY <1>2 DEF SameCall
<1>4. denied(a) # None => result(denied(a), route(a), direction(a)).type = "response"
  <2> HIDE DEF denied, route, direction
  <2> QED BY DEF Answer
<1>5. denied(a) = None
  <2> HIDE DEF denied, route, direction, result
  <2> QED BY <1>1, <1>4
<1>6. denied(b) = None
  <2> HIDE DEF src, dst, direction
  <2> QED BY <1>5 DEF SameCall
<1>7. route(a) = route(b)
  <2>1. agentToAgent(a, pick) = agentToAgent(b, pick)
    BY DEF SameCall, agentToAgent, getTargetAOR
  <2>2. \A number : TrunkRoute(a, number) = TrunkRoute(b, number)
    BY DEF SameCall, TrunkRoute, Sender
  <2>3. \A d : agentToPSTN(a, d) = agentToPSTN(b, d)
    BY <2>2 DEF SameCall, agentToPSTN
  <2>4. peerToPSTN(a) = peerToPSTN(b)
    BY <2>2 DEF SameCall, peerToPSTN, getHeaderValue
  <2> HIDE DEF src, dst, direction, domain
  <2> QED BY <1>2, <1>3, <2>1, <2>3, <2>4
<1> HIDE DEF denied, route, direction, result
<1> QED BY <1>1, <1>3, <1>5, <1>6, <1>7

LEMMA SameForward ==
    ASSUME NEW a, NEW b, SameCall(a, b), NEW route, Forward(a, route).type = "request"
    PROVE  Forward(b, route).type = "request"
<1>1. Sender(a) = Sender(b) /\ a.edge = b.edge /\ (ThrowsOnRoutes(a) <=> ThrowsOnRoutes(b))
  BY DEF SameCall, Sender, ThrowsOnRoutes
<1> QED BY <1>1 DEF Forward, Answer, Send

LEMMA CancelFollows ==
    ASSUME RoutingInv, call \in Calls, NEW s, NEW pick, NEW e, NEW deaf,
           NEW a, a = [Opening(s) EXCEPT !.edge = e], connectProcessor(a, pick, deaf).type = "request",
           NEW final, final = [Cancelling0 EXCEPT !.edge = e]
    PROVE  connectProcessor(final, pick, deaf).type = "request"
<1> DEFINE o == Opening(s)
           n == Opening(None)
           k == [n EXCEPT !.method = "CANCEL"]
           b == [k EXCEPT !.edge = e]
           door == Door(call.ua, call.edge)
           uri == [user |-> call.to.user, host |-> call.to.host, tp |-> None]
           r0 == Request(call.ua, call.method, uri, IF call.route THEN <<door>> ELSE <<>>, door.host)
<1>1. DOMAIN r0 = MessageFields
  BY DEF Request, MessageFields
<1>2. \A auth : Opening(auth) = [r0 EXCEPT !.auth = auth, !.token = call.token, !.ext = call.ext]
  BY DEF Opening
<1>3. r0.method = "INVITE"
  <2>1. r0.method = call.method
    BY DEF Request
  <2> HIDE DEF r0
  <2> QED BY <2>1, CallEdge
<1> HIDE DEF r0
<1>4. /\ DOMAIN o = MessageFields /\ DOMAIN n = MessageFields /\ o.method = "INVITE"
      /\ o.ext = call.ext /\ n.ext = call.ext
      /\ \A f \in MessageFields \ {"auth"} : o[f] = n[f]
  BY <1>1, <1>2, <1>3 DEF MessageFields
<1>5. k = Cancelling0 /\ b = final /\ a = [o EXCEPT !.edge = e]
  BY DEF Cancelling0
<1> HIDE DEF o, n
<1>6. SameCall(a, b) /\ a.method = "INVITE" /\ b.method = "CANCEL" /\ a.ext = call.ext /\ b.ext = call.ext
  BY <1>4, <1>5 DEF SameCall, MessageFields
<1>7. ~getHeaderValue(a, "x-edgeport-ref") /\ ~getHeaderValue(b, "x-edgeport-ref")
  BY <1>6, CallsAssumption DEF CallsAssumption, OwnHeaders, getHeaderValue
<1>8. connectProcessor(a, pick, deaf).type = "request"
  OBVIOUS
<1> HIDE DEF b, k
<1>9. /\ connectProcessor(a, pick, deaf) = handleRequest(a, pick, deaf)
      /\ connectProcessor(b, pick, deaf) = handleRequest(b, pick, deaf)
  BY <1>6 DEF connectProcessor
<1> DEFINE ra == router(a, pick, deaf)
           rb == router(b, pick, deaf)
<1>10. /\ handleRequest(a, pick, deaf) = IF ra.type = "response" THEN ra ELSE Forward(a, ra.route)
       /\ handleRequest(b, pick, deaf) = IF rb.type = "response" THEN rb ELSE Forward(b, rb.route)
  BY <1>7 DEF handleRequest
<1>11. ra.type = "response" \/ ra.type = "route"
  BY DEF router, Answer
<1>12. ASSUME ra.type = "route" PROVE rb = ra
  <2>1. router(a, pick, deaf).type = "route"
    BY <1>12
  <2>2. router(b, pick, deaf) = router(a, pick, deaf)
    BY ONLY <1>6, <2>1, SameRoute
  <2> QED BY <2>2
<1> HIDE DEF ra, rb
<1>13. ra.type = "route" /\ Forward(a, ra.route).type = "request"
  BY <1>8, <1>9, <1>10, <1>11
<1>14. Forward(b, ra.route).type = "request"
  BY <1>6, <1>13, SameForward
<1> QED BY <1>5, <1>9, <1>10, <1>12, <1>13, <1>14

LEMMA FoundNothing ==
    ASSUME RoutingInv, registers = {}
    PROVE  (\A a \in Aors : loc[a] = {}) /\ \A r : Found(r) = Found(None)
<1>1. ASSUME NEW a \in Aors PROVE loc[a] = {}
  BY DEF RoutingInv, LocInv, RouteOK
<1>2. ASSUME NEW r PROVE Found(r) = Found(None)
  BY <1>1 DEF Found
<1> QED BY <1>1, <1>2

\* The phone sends its call to its edgeport.
LEMMA AtTheDoor ==
    ASSUME RoutingInv, call \in Calls, NEW auth, NEW t, t = Opening(auth)
    PROVE  t.dest \in OwnHosts(call.edge) /\ call.edge \in EdgePorts
<1> DEFINE door == Door(call.ua, call.edge)
           uri == [user |-> call.to.user, host |-> call.to.host, tp |-> None]
           r0 == Request(call.ua, call.method, uri, IF call.route THEN <<door>> ELSE <<>>, door.host)
<1>1. r0.dest = door.host
  BY DEF Request
<1>2. t = [r0 EXCEPT !.auth = auth, !.token = call.token, !.ext = call.ext]
  BY DEF Opening
<1>3. DOMAIN r0 = MessageFields
  BY DEF Request, MessageFields
<1> HIDE DEF r0
<1>4. t.dest = door.host
  BY <1>1, <1>2, <1>3 DEF MessageFields
<1>5. call.edge \in EdgePorts /\ ~Throws(call.edge, Self(call.ua))
  BY CallsAssumption DEF CallsAssumption
<1>6. door.host \in OwnHosts(call.edge)
  BY <1>5, EdgeInterface DEF Door
<1> QED BY <1>4, <1>5, <1>6

\* The INVITE of a call that went out.
SentByDoor(t) == /\ call.edge \in EdgePorts /\ tx' = [tx EXCEPT ![call.edge] = t]
                 /\ t # None /\ t.dest \in TrunkHosts /\ GoesOut

LEMMA CancelSwap ==
    ASSUME TxInv, CancelInv, Alone, NEW new, wire' \subseteq wire \cup new, UNCHANGED <<call, loc>>,
           "CANCEL" \in lost' => "CANCEL" \in lost,
           tx' = tx \/ \E t : SentByDoor(t),
           \A t \in new : t.type = "request" /\ t.method = "INVITE" /\ t.path = <<>> =>
              \E s \in {None, call.secret} : t = Opening(s),
           \A t \in new : t.type = "request" /\ t.method = "CANCEL" =>
              t.dest \in TrunkHosts \/ (t = Cancelling0 /\ tx[call.edge] # None)
    PROVE  CancelInv'
<1>1. /\ \A s : Opening(s)' = Opening(s)
      /\ Cancelling0' = Cancelling0
  BY DEF Opening, Request, Door, Cancelling0
<1>2. Found(None)' = Found(None)
  BY DEF Found
<1>3. GoesOut' <=> GoesOut
  BY <1>1, <1>2 DEF GoesOut
<1>4. ASSUME NEW e \in EdgePorts, tx'[e] # None
      PROVE  e = call.edge /\ tx'[e].dest \in TrunkHosts /\ GoesOut
  <2>1. CASE tx' = tx
    BY <1>4, <2>1 DEF CancelInv
  <2>2. ASSUME NEW t, SentByDoor(t) PROVE e = call.edge /\ tx'[e].dest \in TrunkHosts /\ GoesOut
    <3>1. CASE e = call.edge
      BY <2>2, <3>1 DEF SentByDoor, TxInv
    <3>2. CASE e # call.edge
      <4>1. tx'[e] = tx[e]
        BY <2>2, <3>2 DEF SentByDoor, TxInv
      <4> QED BY <1>4, <4>1 DEF CancelInv
    <3> QED BY <3>1, <3>2
  <2> QED BY <2>1, <2>2
<1>5. tx[call.edge] # None => tx'[call.edge] # None
  <2>1. CASE tx' = tx
    BY <2>1
  <2>2. ASSUME NEW t, SentByDoor(t) PROVE tx'[call.edge] # None
    BY <2>2 DEF SentByDoor, TxInv
  <2> QED BY <2>1, <2>2
<1>6. ASSUME NEW m \in wire', m.type = "request"
      PROVE  /\ m.method = "INVITE" /\ m.path = <<>> => \E s \in {None, call.secret} : m = Opening(s)
             /\ m.method = "CANCEL" =>
                  m.dest \in TrunkHosts \/ (m = Cancelling0 /\ tx'[call.edge] # None)
  <2>1. CASE m \in wire
    BY <1>5, <1>6, <2>1 DEF CancelInv, Requests
  <2>2. CASE m \in new
    BY <1>5, <1>6, <2>2
  <2> QED BY <2>1, <2>2
<1>7. "CANCEL" \notin lost'
  BY DEF CancelInv
<1>8. /\ \A m \in Requests' : m.method = "INVITE" /\ m.path = <<>> =>
            \E s \in {None, call.secret}' : m = Opening(s)'
      /\ \A e \in EdgePorts : tx'[e] # None => e = call'.edge /\ tx'[e].dest \in TrunkHosts /\ GoesOut'
      /\ \A m \in Requests' : m.method = "CANCEL" =>
           m.dest \in TrunkHosts \/ (m = Cancelling0' /\ tx'[call'.edge] # None)
  BY <1>1, <1>3, <1>4, <1>6 DEF Requests
<1> QED BY <1>7, <1>8 DEF CancelInv

\* A call of a phone when no phone is registered.
LEMMA InviteAlone ==
    ASSUME LaidOut, RoutingInv, FormInv, LocForm, InviteInv, CancelInv, Alone, failed' = FALSE,
           NEW e \in EdgePorts, NEW m \in wire, NEW r, NEW deaf, Handles(e, m, r, deaf), m.method = "INVITE"
    PROVE  \/ \E code : Replace(m, {Response(m, code)}) /\ UNCHANGED <<tx, lost>>
           \/ Drop(m)
           \/ \E t : t.path # <<>> /\ t.method = "INVITE" /\ SentByDoor(t) /\ Replace(m, {t}) /\ lost' = lost
<1>1. /\ m.type = "request" /\ m.dest \in OwnHosts(e) /\ registers = {} /\ failed = FALSE /\ deaf = {}
      /\ Taking(call, m, e) /\ (Placed(call, m) \/ Handed(call, m, registers) \/ Back(call, m))
  <2>1. m.type = "request" /\ m.dest \in OwnHosts(e) /\ registers = {} /\ failed = FALSE
    BY DEF Handles, Alone, RoutingInv, LostInv
  <2>2. deaf = {}
    <3>1. failed' = (failed \/ deaf # {})
      BY DEF Handles
    <3> QED BY <2>1, <3>1
  <2> QED BY <2>1, <2>2, Takes
<1>2. ~Restless
  <2>1. Cardinality({}) = 0
    BY FS_EmptySet
  <2> QED BY <1>1, <2>1 DEF Restless
<1>3. m.path = <<>>
  <2>1. m \in Requests /\ m.dest \in EdgeHosts
    BY <1>1 DEF Requests, EdgeHosts
  <2>2. Settled(call, m, registers)
    BY <1>2, <2>1 DEF InviteInv
  <2>3. ~Handed(call, m, registers)
    BY <1>1 DEF Handed, Leads
  <2>4. CASE Len(m.path) = 1 /\ "x-edgeport-ref" \in m.ext
    BY <1>1, <2>3, <2>4 DEF Placed, Back
  <2>5. CASE \A f \in EdgePorts : m.dest \in OwnHosts(f) => <<call.to.host, f>> \in registers
    BY <1>1, <2>5
  <2> QED BY <2>2, <2>4, <2>5 DEF Settled
<1>4. PICK s \in {None, call.secret} : m = Opening(s)
  BY <1>1, <1>3 DEF CancelInv, Requests
<1>5. call \in Calls /\ e = call.edge
  <2>1. call \in Calls
    <3>1. m.method = call.method
      BY <1>4, OpeningWaits
    <3> QED BY <3>1, CallEdge DEF RoutingInv, CallInv
  <2>2. m.dest \in OwnHosts(call.edge) /\ call.edge \in EdgePorts
    BY <1>4, <2>1, AtTheDoor
  <2> QED BY <1>1, <2>1, <2>2, OwnEdge
<1> DEFINE out == connectProcessor([m EXCEPT !.edge = e], Found(r), deaf)
<1>6. CASE out.type # "request"
  <2>1. /\ out.type = "response" => Replace(m, {Response(m, out.code)}) /\ UNCHANGED <<tx, lost>>
        /\ out.type \notin {"request", "response"} => Drop(m)
    BY <1>1 DEF Handles, Taking
  <2> HIDE DEF out
  <2> QED BY <1>6, <2>1
<1>7. CASE out.type = "request"
  <2>1. GoesOut
    <3>1. connectProcessor([Opening(s) EXCEPT !.edge = e], Found(r), deaf).type = "request"
      BY <1>4, <1>7
    <3>2. connectProcessor([Cancelling0 EXCEPT !.edge = e], Found(r), deaf).type = "request"
      <4> DEFINE pick == Found(r)
                 a == [Opening(s) EXCEPT !.edge = e]
                 b == [Cancelling0 EXCEPT !.edge = e]
      <4>1. /\ a = [Opening(s) EXCEPT !.edge = e] /\ b = [Cancelling0 EXCEPT !.edge = e]
            /\ call \in Calls /\ connectProcessor(a, pick, deaf).type = "request"
        BY <1>5, <3>1
      <4> HIDE DEF pick, a, b
      <4>2. connectProcessor(b, pick, deaf).type = "request"
        BY <4>1, CancelFollows
      <4> QED BY <4>2 DEF pick, b
    <3>3. Found(r) = Found(None)
      BY <1>1, FoundNothing
    <3>4. connectProcessor([Cancelling0 EXCEPT !.edge = call.edge], Found(None), {}).type = "request"
      BY <1>1, <1>5, <3>2, <3>3
    <3> QED BY <3>4 DEF GoesOut
  <2>2. ASSUME NEW t, NEW route, Leaves(e, m, t, route), Replace(m, {t}),
               tx' = [tx EXCEPT ![e] = t], lost' = lost
        PROVE  t.path # <<>> /\ t.method = "INVITE" /\ SentByDoor(t)
    <3>1. TxOK(t) /\ RouteChosen(call, route, e, registers, failed')
      <4>1. ~Handed(call, m, registers)
        BY <1>3 DEF Handed
      <4> QED BY <2>2, <4>1 DEF Leaves, Chosen, Proceeds
    <3>2. route.edge = e /\ route.host \in TrunkHosts
      BY <1>1, <3>1 DEF RouteChosen, Leaving
    <3>3. Shaped(e, m, t, route)
      BY <1>1, <2>2, Shape
    <3>4. Lists(Without(OwnHosts(e), m.route), 0)
      <4>1. Placed(call, m)
        BY <1>1, <1>3 DEF Handed, Back
      <4> QED BY <1>1, <4>1, OwnRoutes
    <3>5. t.route = <<>>
      <4>1. t.route = Reverse(Without(OwnHosts(e), m.route))
        BY <3>2, <3>3 DEF Shaped
      <4> DEFINE w == Without(OwnHosts(e), m.route)
      <4>2. Lists(w, 0) /\ t.route = Reverse(w)
        BY <3>4, <4>1
      <4> HIDE DEF w
      <4> QED BY <4>2 DEF Reverse, Lists
    <3>6. t.dest \in TrunkHosts
      BY <3>2, <3>3, <3>5 DEF Shaped
    <3>7. t # None /\ t.path # <<>> /\ t.method = "INVITE"
      <4>1. t.path # <<>> /\ t.method = "INVITE"
        BY <3>1 DEF TxOK
      <4>2. t # None
        BY <3>1 DEF TxOK, MessageOK, LaidOut
      <4> QED BY <4>1, <4>2
    <3> QED BY <1>5, <2>1, <2>2, <3>6, <3>7 DEF SentByDoor
  <2>3. Refusal(m) => \E code : Replace(m, {Response(m, code)}) /\ UNCHANGED <<tx, lost>>
    BY DEF Refusal
  <2> QED BY <2>2, <2>3, InviteHandled
<1> QED BY <1>6, <1>7

\* Only the call of a phone is cancelled.
LEMMA CancelsCall ==
    ASSUME LaidOut, RoutingInv, FormInv, tx[call.edge] # None
    PROVE  /\ call \in Calls /\ call.edge \in EdgePorts
           /\ Cancelling0.method = "CANCEL" /\ Cancelling0.dest \in OwnHosts(call.edge)
<1>1. call.edge \in EdgePorts
  BY CallsAssumption DEF CallsAssumption, LaidOut, RegistrarsReached, RoutingInv, CallInv
<1>2. TxOK(tx[call.edge]) /\ OpeningForm(call, tx[call.edge])
  BY <1>1 DEF RoutingInv, TxInv, FormInv, TxForm
<1>3. call \in Calls
  BY <1>2, CallEdge DEF TxOK, OpeningForm, RoutingInv, CallInv
<1> DEFINE t == Opening(None)
<1>4. t.dest \in OwnHosts(call.edge) /\ DOMAIN t = MessageFields
  BY <1>3, AtTheDoor, OpeningWaits
<1>5. Cancelling0 = [t EXCEPT !.method = "CANCEL"]
  BY DEF Cancelling0
<1> HIDE DEF t
<1>6. Cancelling0.method = "CANCEL" /\ Cancelling0.dest = t.dest
  BY <1>4, <1>5 DEF MessageFields
<1> QED BY <1>1, <1>3, <1>4, <1>6

LEMMA CancelByRequest ==
    ASSUME LaidOut, RoutingInv, FormInv, LocForm, InviteInv, CancelInv, Alone', NEW e \in EdgePorts,
           HandleRequest(e)
    PROVE  CancelInv'
<1>1. PICK m \in wire : \E r, deaf : Handles(e, m, r, deaf)
  BY Handling
<1>2. PICK r, deaf : Handles(e, m, r, deaf)
  BY <1>1
<1>3. /\ m.type = "request" /\ m.dest \in OwnHosts(e) /\ UNCHANGED <<call, loc, registers>>
      /\ MessageOK(m) /\ failed' = (failed \/ deaf # {})
  BY <1>2 DEF Handles, RoutingInv, WireInv
<1>4. Alone /\ TxInv /\ failed' = FALSE /\ deaf = {}
  BY <1>3 DEF Alone, RoutingInv, LostInv
<1>5. ASSUME NEW new, Replace(m, new), lost' = lost, tx' = tx,
             \A t \in new : t.type = "request" => t.method # "INVITE",
             \A t \in new : t.type = "request" /\ t.method = "CANCEL" => t.dest \in TrunkHosts
      PROVE  CancelInv'
  <2>1. wire' \subseteq wire \cup new
    BY <1>5 DEF Replace
  <2> QED BY <1>3, <1>4, <1>5, <2>1, CancelSwap
<1>6. ASSUME Drop(m), m.method # "CANCEL" PROVE CancelInv'
  <2> DEFINE none == {}
  <2>1. /\ wire' \subseteq wire \cup none /\ ("CANCEL" \in lost' => "CANCEL" \in lost) /\ tx' = tx
        /\ \A t \in none : FALSE
    BY <1>6 DEF Drop, Replace
  <2> HIDE DEF none
  <2> QED BY <1>3, <1>4, <2>1, CancelSwap
<1>7. ASSUME NEW t, t.type # "request", Replace(m, {t}), lost' = lost, tx' = tx PROVE CancelInv'
  <2> DEFINE new == {t}
  <2>1. Replace(m, new) /\ \A x \in new : x.type # "request"
    BY <1>7
  <2> HIDE DEF new
  <2> QED BY <1>5, <1>7, <2>1
<1>8. CASE m.method = "CANCEL"
  <2>1. m = Cancelling0 /\ tx[call.edge] # None
    <3>1. m \in Requests /\ m.dest \in EdgeHosts
      BY <1>3 DEF Requests, EdgeHosts
    <3>2. m.dest \notin TrunkHosts
      BY <3>1, TrunksApart
    <3> QED BY <1>4, <1>8, <3>1, <3>2 DEF CancelInv
  <2>2. CASE Drop(m) /\ (tx[e] = None \/ connectProcessor([m EXCEPT !.edge = e], Found(r), deaf).type # "request")
    <3>1. call \in Calls /\ e = call.edge
      BY <1>3, <2>1, CancelsCall, OwnEdge
    <3>2. tx[e] # None /\ GoesOut
      BY <1>4, <2>1, <3>1 DEF CancelInv
    <3>3. connectProcessor([Cancelling0 EXCEPT !.edge = call.edge], Found(None), {}).type = "request"
      BY <3>2 DEF GoesOut
    <3>4. Found(r) = Found(None)
      BY <1>4, FoundNothing DEF Alone
    <3>5. [m EXCEPT !.edge = e] = [Cancelling0 EXCEPT !.edge = call.edge]
      BY <2>1, <3>1
    <3> QED BY <1>4, <2>2, <3>2, <3>3, <3>4, <3>5
  <2>3. ASSUME NEW one, NEW two, tx[e] # None, one = CancelOf(tx[e]), two.type = "response",
               Replace(m, {one, two}), tx' = tx, lost' = lost
        PROVE  CancelInv'
    <3>1. one.method = "CANCEL" /\ one.dest \in TrunkHosts
      <4>1. TxOK(tx[e]) /\ tx[e].dest \in TrunkHosts
        BY <1>4, <2>3 DEF TxInv, CancelInv
      <4> QED BY <2>3, <4>1 DEF CancelOf, TxOK, MessageOK, MessageFields
    <3> DEFINE new == {one, two}
    <3>2. /\ \A t \in new : t.type = "request" => t.method # "INVITE"
          /\ \A t \in new : t.type = "request" /\ t.method = "CANCEL" => t.dest \in TrunkHosts
      BY <2>3, <3>1
    <3>3. Replace(m, new)
      BY <2>3
    <3> HIDE DEF new
    <3> QED BY <1>5, <2>3, <3>2, <3>3
  <2> QED BY <1>2, <1>8, <2>2, <2>3, CancelHandled
<1>9. CASE m.method = "INVITE"
  <2>1. ASSUME NEW code, Replace(m, {Response(m, code)}), UNCHANGED <<tx, lost>> PROVE CancelInv'
    <3> DEFINE t == Response(m, code)
    <3>1. t.type # "request" /\ Replace(m, {t})
      BY <1>3, <2>1 DEF Response, MessageOK, MessageFields
    <3> HIDE DEF t
    <3> QED BY <1>7, <2>1, <3>1
  <2>2. CASE Drop(m)
    BY <1>6, <1>9, <2>2
  <2>3. ASSUME NEW t, t.path # <<>>, t.method = "INVITE", SentByDoor(t), Replace(m, {t}), lost' = lost
        PROVE  CancelInv'
    <3> DEFINE new == {t}
    <3>1. /\ wire' \subseteq wire \cup new
          /\ \A x \in new : x.path # <<>> /\ x.method = "INVITE"
      BY <2>3 DEF Replace
    <3> HIDE DEF new
    <3>2. \A x \in new : x.method # "CANCEL"
      BY <3>1
    <3> QED BY <1>3, <1>4, <2>3, <3>1, <3>2, CancelSwap
  <2> QED BY <1>2, <1>4, <1>9, <2>1, <2>2, <2>3, InviteAlone
<1>10. CASE m.method \notin {"INVITE", "CANCEL"}
  <2>1. CASE Drop(m)
    BY <1>6, <1>10, <2>1
  <2>2. ASSUME NEW t, t.method = m.method, Replace(m, {t}), lost' = lost, tx' = tx
        PROVE  CancelInv'
    <3> DEFINE new == {t}
    <3>1. Replace(m, new) /\ \A x \in new : x.method # "INVITE" /\ x.method # "CANCEL"
      BY <1>10, <2>2
    <3> HIDE DEF new
    <3> QED BY <1>5, <2>2, <3>1
  <2> QED BY <1>2, <1>10, <2>1, <2>2, OtherHandled
<1> QED BY <1>8, <1>9, <1>10

LEMMA CancelByNet ==
    ASSUME LaidOut, RoutingInv, FormInv, CancelInv, Alone',
           \/ (\E e \in EdgePorts : HandleResponse(e)) \/ Tunnel \/ Vanish
           \/ (\E u \in call.phones : Register(u)) \/ Expire
    PROVE  CancelInv'
<1>0. TxInv
  BY DEF RoutingInv
<1>1. CASE \E e \in EdgePorts : HandleResponse(e)
  <2>1. PICK e \in EdgePorts : HandleResponse(e)
    BY <1>1
  <2>2. PICK m \in wire :
        /\ m.type = "response"
        /\ LET back == removeTopVia(m)
           IN Replace(m, IF m.code = TERMINATED \/ back.via = <<>> THEN {}
                         ELSE {[back EXCEPT !.dest = back.via[1].host]})
        /\ UNCHANGED <<call, loc, tx, lost, failed, registers>>
    BY <2>1 DEF HandleResponse
  <2> DEFINE back == removeTopVia(m)
             new == {[back EXCEPT !.dest = back.via[1].host]}
  <2>3. wire' \subseteq wire \cup new
    BY <2>2 DEF Replace
  <2>4. \A t \in new : t.type # "request"
    BY <2>2 DEF removeTopVia, RoutingInv, WireInv, MessageOK, MessageFields
  <2>5. Alone /\ tx' = tx /\ lost' = lost /\ UNCHANGED <<call, loc>>
    BY <2>2 DEF Alone
  <2> HIDE DEF new
  <2> QED BY <1>0, <2>3, <2>4, <2>5, CancelSwap
<1>2. CASE Tunnel
  <2>1. PICK m \in wire, u \in DOMAIN Phones :
        m.dest = Invalid /\ Replace(m, {[m EXCEPT !.dest = u]})
        /\ UNCHANGED <<call, loc, tx, lost, failed, registers>>
    BY <1>2 DEF Tunnel
  <2> DEFINE t == [m EXCEPT !.dest = u]
             new == {t}
  <2>2. MessageOK(m) /\ Alone
    BY <2>1 DEF RoutingInv, WireInv, Alone
  <2>3. t.type = m.type /\ t.method = m.method /\ t.path = m.path /\ wire' \subseteq wire \cup new
    BY <2>1, <2>2 DEF MessageOK, MessageFields, Replace
  <2>4. m.type = "request" => m.method \notin {"INVITE", "CANCEL"}
    <3> HAVE m.type = "request"
    <3>1. Invalid \notin EdgeHosts /\ Invalid \notin TrunkHosts
      BY HostsAssumption DEF HostsAssumption
    <3>2. m.method # "INVITE"
      <4>1. m.method = "INVITE" => InviteOK(call, m, registers, failed)
        BY DEF RoutingInv, RequestsInv, Requests, RequestOK
      <4> QED BY <2>1, <4>1, NeverInvalid
    <3>3. m.method # "CANCEL"
      <4> SUFFICES ASSUME m.method = "CANCEL" PROVE FALSE
        OBVIOUS
      <4>1. m = Cancelling0 /\ tx[call.edge] # None
        BY <2>1, <2>2, <3>1 DEF CancelInv, Requests
      <4>2. m.dest \in EdgeHosts
        BY <4>1, CancelsCall DEF EdgeHosts
      <4> QED BY <2>1, <3>1, <4>2
    <3> QED BY <3>2, <3>3
  <2> HIDE DEF t
  <2>5. \A x \in new : x.type = "request" => x.method \notin {"INVITE", "CANCEL"}
    BY <2>3, <2>4
  <2> HIDE DEF new
  <2>6. UNCHANGED <<call, loc>> /\ tx' = tx /\ lost' = lost
    BY <2>1
  <2> QED BY <1>0, <2>2, <2>3, <2>5, <2>6, CancelSwap
<1>3. CASE Vanish
  <2>1. PICK m \in wire : /\ \A e \in EdgePorts : m.dest \notin OwnHosts(e)
                          /\ m.dest \notin DOMAIN Phones /\ Drop(m)
                          /\ UNCHANGED <<call, loc, failed, registers>>
    BY <1>3 DEF Vanish
  <2>2. m.type = "request" /\ Alone
    BY <2>1, Vanishing DEF Alone
  <2>3. m.method # "CANCEL"
    <3> SUFFICES ASSUME m.method = "CANCEL" PROVE FALSE
      OBVIOUS
    <3>1. m = Cancelling0 /\ tx[call.edge] # None
      BY <2>1, <2>2 DEF CancelInv, Requests, LaidOut
    <3>2. call.edge \in EdgePorts /\ m.dest \in OwnHosts(call.edge)
      BY <3>1, CancelsCall
    <3> QED BY <2>1, <3>2
  <2> DEFINE none == {}
  <2>4. /\ wire' \subseteq wire \cup none /\ ("CANCEL" \in lost' => "CANCEL" \in lost) /\ tx' = tx
        /\ \A t \in none : FALSE
    BY <2>1, <2>3 DEF Drop, Replace
  <2> HIDE DEF none
  <2> QED BY <1>0, <2>1, <2>2, <2>4, CancelSwap
<1>4. CASE \E u \in call.phones : Register(u)
  <2>1. PICK u, e : registers' = registers \cup {<<u, e>>}
    BY <1>4 DEF Register
  <2> QED BY <2>1 DEF Alone
<1>5. CASE Expire
  <2>1. PICK a \in Aors : \E r \in loc[a] : registers' = registers
    BY <1>5 DEF Expire
  <2> QED BY <2>1, FoundNothing DEF Alone
<1> QED BY <1>1, <1>2, <1>3, <1>4, <1>5

LEMMA CancelByPhones ==
    ASSUME LaidOut, RoutingInv, FormInv, CancelInv, Alone',
           \/ Place \/ Opened \/ Cancel \/ CallerHangsUp
           \/ Ring \/ PickUp \/ Cancelled \/ Acked \/ CalleeHangsUp \/ Ended
    PROVE  CancelInv'
<1>a. UNCHANGED <<call, loc, tx, lost, failed, registers>> /\ TxInv
  <2>1. Place \/ Opened \/ Cancel \/ CallerHangsUp => UNCHANGED <<call, loc, tx, lost, failed, registers>>
    BY DEF Place, Opened, Cancel, CallerHangsUp, HangUp
  <2>2. Ring \/ PickUp \/ Cancelled \/ Acked \/ CalleeHangsUp \/ Ended
          => UNCHANGED <<call, loc, tx, lost, failed, registers>>
    BY DEF HangUp, Ring, PickUp, Cancelled, Acked, CalleeHangsUp, Ended
  <2> QED BY <2>1, <2>2 DEF RoutingInv
<1>b. Alone /\ tx' = tx /\ lost' = lost /\ UNCHANGED <<call, loc>>
  BY <1>a DEF Alone
<1>0. ASSUME wire' \subseteq wire PROVE CancelInv'
  <2> DEFINE none == {}
  <2>1. wire' \subseteq wire \cup none /\ \A t \in none : FALSE
    BY <1>0
  <2> HIDE DEF none
  <2> QED BY <1>a, <1>b, <2>1, CancelSwap
<1>1. ASSUME NEW t, wire' \subseteq wire \cup {t},
             t.type = "request" /\ t.method = "INVITE" /\ t.path = <<>> =>
                \E s \in {None, call.secret} : t = Opening(s),
             t.type = "request" /\ t.method = "CANCEL" =>
                t.dest \in TrunkHosts \/ (t = Cancelling0 /\ tx[call.edge] # None)
      PROVE  CancelInv'
  <2> DEFINE new == {t}
  <2>1. /\ wire' \subseteq wire \cup new
        /\ \A x \in new : x.type = "request" /\ x.method = "INVITE" /\ x.path = <<>> =>
              \E s \in {None, call.secret} : x = Opening(s)
        /\ \A x \in new : x.type = "request" /\ x.method = "CANCEL" =>
              x.dest \in TrunkHosts \/ (x = Cancelling0 /\ tx[call.edge] # None)
    BY <1>1
  <2> HIDE DEF new
  <2> QED BY <1>a, <1>b, <2>1, CancelSwap
<1>2. CASE \E auth \in {None, call.secret} : wire' \subseteq wire \cup {Opening(auth)}
  <2>1. PICK auth \in {None, call.secret} : wire' \subseteq wire \cup {Opening(auth)}
    BY <1>2
  <2> DEFINE t == Opening(auth)
  <2>2. t = Opening(auth) /\ wire' \subseteq wire \cup {t}
    BY <2>1
  <2> HIDE DEF t
  <2>3. t.method # "CANCEL"
    BY <2>2, OpeningWaits
  <2> QED BY <1>1, <2>2, <2>3
<1>3. CASE Place
  BY <1>2, <1>3 DEF Place
<1>4. CASE Cancel
  <2>1. wire' \subseteq wire \cup {Cancelling0} /\ tx[call.edge] # None
    BY <1>4 DEF Cancel, Cancelling0
  <2> DEFINE t == Cancelling0
  <2>2. t.method = "CANCEL" /\ wire' \subseteq wire \cup {t} /\ t = Cancelling0
    BY <2>1, CancelsCall
  <2> HIDE DEF t
  <2> QED BY <1>1, <2>1, <2>2
<1>5. ASSUME NEW u, NEW side, wire' = wire \cup {InDialog(u, "BYE", side)}
      PROVE  CancelInv'
  <2> DEFINE t == InDialog(u, "BYE", side)
  <2>1. t.method = "BYE"
    BY DEF InDialog, Request
  <2>2. wire' \subseteq wire \cup {t}
    BY <1>5
  <2> HIDE DEF t
  <2> QED BY <1>1, <2>1, <2>2
<1>6. CASE CallerHangsUp \/ CalleeHangsUp
  BY <1>5, <1>6 DEF CallerHangsUp, CalleeHangsUp, HangUp
<1>7. CASE Ring \/ Cancelled \/ Acked
  <2>1. wire' \subseteq wire
    BY <1>7 DEF Ring, Cancelled, Acked, Replace
  <2> QED BY <1>0, <2>1
<1>8. CASE PickUp
  <2> DEFINE t == [Response(callee.req, OK) EXCEPT !.contact = Contact(callee.at)]
  <2>1. wire' \subseteq wire \cup {t} /\ callee.state # "idle"
    BY <1>8 DEF PickUp
  <2>2. t.type = "response"
    BY <2>1 DEF Response, RoutingInv, CalleeInv, MessageOK, MessageFields
  <2> HIDE DEF t
  <2> QED BY <1>1, <2>1, <2>2
<1>9. CASE Ended
  <2>1. PICK m \in wire : Replace(m, IF m.type = "request" THEN {Response(m, OK)} ELSE {})
    BY <1>9 DEF Ended
  <2> DEFINE t == Response(m, OK)
  <2>2. t.type = "response"
    BY DEF Response, RoutingInv, WireInv, MessageOK, MessageFields
  <2>3. wire' \subseteq wire \cup {t}
    BY <2>1 DEF Replace
  <2> HIDE DEF t
  <2> QED BY <1>1, <2>2, <2>3
<1>10. CASE Opened
  <2>1. PICK m \in wire :
        \/ Replace(m, {Opening(call.secret)}) \/ Replace(m, {})
        \/ \E up, auth : Replace(m, {[InDialog(call.ua, "ACK", up) EXCEPT !.auth = auth]})
    BY <1>10 DEF Opened
  <2>2. CASE Replace(m, {Opening(call.secret)})
    BY <1>2, <2>2 DEF Replace
  <2>3. CASE Replace(m, {})
    <3>1. wire' \subseteq wire
      BY <2>3 DEF Replace
    <3> QED BY <1>0, <3>1
  <2>4. CASE \E up, auth : Replace(m, {[InDialog(call.ua, "ACK", up) EXCEPT !.auth = auth]})
    <3>1. PICK up, auth : Replace(m, {[InDialog(call.ua, "ACK", up) EXCEPT !.auth = auth]})
      BY <2>4
    <3> DEFINE t == [InDialog(call.ua, "ACK", up) EXCEPT !.auth = auth]
    <3>2. t.method = "ACK" /\ wire' \subseteq wire \cup {t}
      BY <3>1 DEF InDialog, Request, Replace
    <3> HIDE DEF t
    <3> QED BY <1>1, <3>2
  <2> QED BY <2>1, <2>2, <2>3, <2>4
<1> QED BY <1>3, <1>4, <1>6, <1>7, <1>8, <1>9, <1>10

LEMMA NextCancels ==
    ASSUME LaidOut
    PROVE  RoutingInv /\ FormInv /\ LocForm /\ InviteInv /\ CancelInv /\ [Next]_vars => CancelInv'
<1> SUFFICES ASSUME RoutingInv, FormInv, LocForm, InviteInv, CancelInv, [Next]_vars PROVE CancelInv'
  OBVIOUS
<1>0. SUFFICES ASSUME Alone' PROVE CancelInv'
  BY DEF CancelInv
<1>1. CASE \E e \in EdgePorts : HandleRequest(e)
  BY <1>1, <1>0, CancelByRequest
<1>2. CASE \/ (\E e \in EdgePorts : HandleResponse(e)) \/ Tunnel \/ Vanish
           \/ (\E u \in call.phones : Register(u)) \/ Expire
  BY <1>2, <1>0, CancelByNet
<1>3. CASE \/ Place \/ Opened \/ Cancel \/ CallerHangsUp
           \/ Ring \/ PickUp \/ Cancelled \/ Acked \/ CalleeHangsUp \/ Ended
  BY <1>3, <1>0, CancelByPhones
<1>4. CASE UNCHANGED vars
  <2>1. UNCHANGED <<call, loc, wire, tx, lost, failed, registers>>
    BY <1>4 DEF vars
  <2> DEFINE none == {}
  <2>2. Alone /\ TxInv /\ wire' \subseteq wire \cup none /\ \A t \in none : FALSE
    BY <1>0, <2>1 DEF Alone, RoutingInv
  <2> HIDE DEF none
  <2>3. tx' = tx /\ lost' = lost /\ UNCHANGED <<call, loc>>
    BY <2>1
  <2> QED BY <2>2, <2>3, CancelSwap
<1> QED BY <1>1, <1>2, <1>3, <1>4 DEF Next, Edges

-----------------------------------------------------------------------------
(* What an INVITE gathers between phones that are no browsers *)

\* What edgeport e puts before the Record-Routes.
OwnRecord(e, sender, route) ==
    LET origin == getEdgeInterface(e, sender)
        target == getEdgeInterface(e, [host |-> route.advertised, tp |-> route.tp])
    IN IF origin # target THEN <<target, origin>> ELSE <<origin>>

LEMMA Recorded ==
    ASSUME NEW route, NEW r0, DOMAIN r0 = MessageFields,
           NEW req, req = tailor(route, r0) \/ req = toPeerEdgePort(route, r0)
    PROVE  req.recordRoute = OwnRecord(r0.edge, Sender(r0), route) \o r0.recordRoute
<1>1. ASSUME NEW q, DOMAIN q = MessageFields, q.recordRoute = r0.recordRoute, q.edge = r0.edge
      PROVE  LET t == addSelfRecordRoute(route, Sender(r0), q)
             IN /\ DOMAIN t = MessageFields
                /\ t.recordRoute = OwnRecord(r0.edge, Sender(r0), route) \o r0.recordRoute
  BY <1>1 DEF addSelfRecordRoute, OwnRecord, MessageFields
<1>2. CASE req = tailor(route, r0)
  <2> DEFINE r1 == removeXEdgePortRef(removeSelfRoutes(removeAuthorization(decreaseMaxForwards(r0))))
             r2 == addSelfVia(route, fixRequestURI(route, fixInvalidContact(r1)))
             r3 == applyXHeaders(route, r2)
             r4 == addSelfRecordRoute(route, Sender(r0), r3)
  <2>1. But(r1, r0, {"maxForwards", "auth", "route", "ext"})
    BY DEF MessageFields, But, removeXEdgePortRef, removeSelfRoutes, removeAuthorization, decreaseMaxForwards
  <2>2. But(r2, r1, {"contact", "uri", "via"})
    BY <2>1 DEF MessageFields, But, addSelfVia, fixRequestURI, fixInvalidContact
  <2>3. But(r3, r2, {"ext"})
    BY <2>1, <2>2 DEF MessageFields, But, applyXHeaders
  <2>4. tailor(route, r0) = addRouteToNextHop(route, r4)
    BY DEF tailor
  <2> HIDE DEF r1, r2, r3
  <2>5. DOMAIN r3 = MessageFields /\ r3.recordRoute = r0.recordRoute /\ r3.edge = r0.edge
    BY <2>1, <2>2, <2>3 DEF But, MessageFields
  <2>6. DOMAIN r4 = MessageFields
        /\ r4.recordRoute = OwnRecord(r0.edge, Sender(r0), route) \o r0.recordRoute
    BY <1>1, <2>5
  <2> HIDE DEF r4
  <2>7. req.recordRoute = r4.recordRoute
    BY <1>2, <2>4, <2>6 DEF addRouteToNextHop, MessageFields
  <2> QED BY <2>6, <2>7
<1>3. CASE req = toPeerEdgePort(route, r0)
  <2> DEFINE r1 == addSelfVia(route, r0)
             r2 == addSelfRecordRoute(route, Sender(r0), r1)
             r3 == addRouteToNextHop(route, addRouteToPeerEdgePort(route, r2))
  <2>1. DOMAIN r1 = MessageFields /\ r1.recordRoute = r0.recordRoute /\ r1.edge = r0.edge
    BY DEF addSelfVia, MessageFields
  <2>2. toPeerEdgePort(route, r0) = decreaseMaxForwards(addXEdgePortRef(r3))
    BY DEF toPeerEdgePort
  <2> HIDE DEF r1
  <2>3. DOMAIN r2 = MessageFields
        /\ r2.recordRoute = OwnRecord(r0.edge, Sender(r0), route) \o r0.recordRoute
    BY <1>1, <2>1
  <2> HIDE DEF r2
  <2>4. DOMAIN r3 = MessageFields /\ r3.recordRoute = r2.recordRoute
    BY <2>3 DEF addRouteToNextHop, addRouteToPeerEdgePort, MessageFields
  <2> HIDE DEF r3
  <2>5. decreaseMaxForwards(addXEdgePortRef(r3)).recordRoute = r3.recordRoute
    BY <2>4 DEF decreaseMaxForwards, addXEdgePortRef, MessageFields
  <2> QED BY <1>3, <2>2, <2>3, <2>4, <2>5
<1> QED BY <1>2, <1>3

\* An interface keeps the transport of the address it is for.
LEMMA SameTransport ==
    ASSUME NEW e, NEW a, ~Throws(e, a)
    PROVE  TransportOf(getEdgeInterface(e, a)) = TransportOf(a)
<1>1. getEdgeInterface(e, a).tp = TransportOf(a)
  BY DEF getEdgeInterface
<1>2. TransportOf(a) # None
  BY NoneAssumption DEF TransportOf, NoneAssumption
<1> QED BY <1>1, <1>2 DEF TransportOf

LEMMA Transports2 ==
    ASSUME NEW e, NEW a, NEW b, a.tp = b.tp
    PROVE  TransportOf(a) = TransportOf(b)
BY DEF TransportOf

LEMMA ServesMore ==
    ASSUME NEW a, NEW b, IsList(a), IsList(b), Serves(a), Serves(b)
    PROVE  Serves(a \o b) /\ IsList(a \o b)
<1> DEFINE s == a \o b
<1>1. /\ IsList(s)
      /\ \A i \in 1 .. Len(s) : \/ \E j \in 1 .. Len(a) : s[i] = a[j]
                                \/ \E j \in 1 .. Len(b) : s[i] = b[j]
  BY Joined
<1> HIDE DEF s
<1>2. \A i \in 1 .. Len(s) : TransportOf(s[i]) \in Common /\ s[i].host \in EdgeHosts
  BY <1>1 DEF Serves, Shared
<1>3. Serves(s)
  BY <1>2 DEF Serves, Shared
<1> QED BY <1>1, <1>3 DEF s

LEMMA SharedMore ==
    ASSUME NEW S, NEW via \in Seq(S), NEW x, TransportOf(x) \in Common, Shared(via), NEW t, t = With(x, via)
    PROVE  Shared(t)
<1> DEFINE n == Len(via)
<1>1. n \in Nat /\ Lists(via, n)
  BY SeqIsList
<1>2. Lists(t, n + 1) /\ t[1] = x /\ \A i \in 1 .. n : t[i + 1] = via[i]
  BY <1>1, WithList
<1>3. Len(t) = n + 1
  BY <1>2 DEF Lists
<1>4. ASSUME NEW i \in 1 .. n + 1 PROVE TransportOf(t[i]) \in Common
  <2>1. CASE i = 1
    <3>1. t[i] = x
      BY <1>2, <2>1
    <3> QED BY <3>1
  <2>2. CASE i # 1
    <3>1. i - 1 \in 1 .. n /\ (i - 1) + 1 = i
      BY <1>1, <2>2
    <3>2. t[i] = via[i - 1]
      BY <1>2, <3>1
    <3> QED BY <3>1, <3>2 DEF Shared
  <2> QED BY <2>1, <2>2
<1> QED BY <1>3, <1>4 DEF Shared

\* What an edgeport adds to the Record-Route and to the Via.
LEMMA OwnServed ==
    ASSUME NEW e \in EdgePorts, NEW sender, NEW route,
           ~Throws(e, sender), TransportOf(sender) \in Common,
           NEW end, end = [host |-> route.host, tp |-> route.tp], ~Throws(e, end),
           NEW out, out = [host |-> route.advertised, tp |-> route.tp], ~Throws(e, out),
           TransportOf(end) \in Common
    PROVE  /\ IsList(OwnRecord(e, sender, route)) /\ Serves(OwnRecord(e, sender, route))
           /\ TransportOf(getEdgeInterface(e, end)) \in Common
<1> DEFINE origin == getEdgeInterface(e, sender)
           target == getEdgeInterface(e, out)
           one == <<origin>>
           two == <<target, origin>>
<1>1. OwnRecord(e, sender, route) = IF origin # target THEN two ELSE one
  BY DEF OwnRecord
<1>2. TransportOf(out) = TransportOf(end)
  BY DEF TransportOf
<1>3. /\ TransportOf(origin) \in Common /\ origin.host \in EdgeHosts
      /\ TransportOf(target) \in Common /\ target.host \in EdgeHosts
      /\ TransportOf(getEdgeInterface(e, end)) \in Common
  BY <1>2, SameTransport, EdgeInterface DEF EdgeHosts
<1> HIDE DEF origin, target
<1>4. /\ IsList(one) /\ Len(one) = 1 /\ one[1] = origin
      /\ IsList(two) /\ Len(two) = 2 /\ two[1] = target /\ two[2] = origin
  BY OneOrTwo
<1> HIDE DEF one, two
<1>5. (\A i \in 1 .. 1 : i = 1) /\ (\A i \in 1 .. 2 : i = 1 \/ i = 2)
  OBVIOUS
<1>6. Serves(one) /\ Serves(two)
  BY <1>3, <1>4, <1>5 DEF Serves, Shared
<1> QED BY <1>1, <1>3, <1>4, <1>6

\* The last Route of the request for another edgeport is the phone, unless it was dialled.
LEMMA LastOfReverse ==
    ASSUME NEW s, NEW n \in Nat, Lists(s, n), NEW x, NEW list, list = With(x, s), NEW t, t = Reverse(list)
    PROVE  t # <<>> /\ t[Len(t)] = x
<1> DEFINE k == n + 1
<1>1. Lists(list, k) /\ list[1] = x /\ k \in Nat /\ k >= 1
  BY WithList
<1> HIDE DEF k
<1>2. Lists(t, k) /\ \A i \in 1 .. k : t[i] = list[k - i + 1]
  BY <1>1, ReverseList
<1>3. Len(t) = k /\ k \in 1 .. k /\ k - k + 1 = 1
  BY <1>1, <1>2 DEF Lists
<1>4. t[k] = list[1]
  BY <1>2, <1>3
<1>5. t # <<>>
  <2>1. Len(<<>>) = 0
    OBVIOUS
  <2> QED BY <1>1, <1>3, <2>1
<1> QED BY <1>1, <1>3, <1>4, <1>5

LEMMA HandedLast ==
    ASSUME NEW n \in Nat, NEW s, Lists(s, n), NEW peer, NEW addr, NEW dialled,
           NEW list, list = IF dialled = addr.host THEN With(peer, s) ELSE With(addr, With(peer, s)),
           NEW t, t = Reverse(list)
    PROVE  t # <<>> /\ t[Len(t)] = IF dialled = addr.host THEN peer ELSE addr
<1> DEFINE one == With(peer, s)
           k == n + 1
<1>1. Lists(one, k) /\ k \in Nat
  BY WithList
<1>2. CASE dialled = addr.host
  <2>1. list = With(peer, s)
    BY <1>2
  <2> QED BY <1>2, <2>1, LastOfReverse
<1>3. CASE dialled # addr.host
  <2>1. list = With(addr, one)
    BY <1>3
  <2> HIDE DEF one, k
  <2>2. t # <<>> /\ t[Len(t)] = addr
    BY <1>1, <2>1, LastOfReverse
  <2> QED BY <1>3, <2>2
<1> QED BY <1>2, <1>3

LEMMA HandedTarget ==
    ASSUME RoutingInv, NEW e \in EdgePorts, NEW m, Taking(call, m, e), Handed(call, m, registers),
           NEW t, NEW route, Leaves(e, m, t, route)
    PROVE  Target(call, t) = Target(call, m) /\ route.tp = None
<1>1. Registered(registers)
  BY DEF RoutingInv, RegistersInv, Registered
<1> DEFINE r0 == [m EXCEPT !.edge = e]
<1>2. r0.edge = e /\ r0.uri = Dialled(call) /\ route = createRouteFromLastMessage(r0)
  BY Taken DEF But, MessageFields, Taking, Untouched, Leaves, Chosen
<1> HIDE DEF r0
<1>3. route.edge = e /\ route.host = call.to.host /\ route.tp = None
  BY <1>2 DEF createRouteFromLastMessage, Dialled
<1>4. Shaped(e, m, t, route)
  BY Shape
<1>5. PICK f \in EdgePorts : Leads(call, m.route, f, registers)
  BY DEF Handed
<1> DEFINE s == m.route
           w == Without(OwnHosts(e), s)
           u == t.route
           dest == t.dest
           c == call
           regs == registers
<1>6. \A x \in DOMAIN Accounts : x \notin EdgeHosts
  BY PhonesApart
<1>7. Leads(c, s, f, regs) /\ s[1].host \in OwnHosts(e) /\ w = Without(OwnHosts(e), s)
      /\ Registered(regs) /\ m.dest \in EdgeHosts
  BY <1>1, <1>5 DEF Handed, Taking, EdgeHosts
<1>8. u = Reverse(w) /\ dest = IF u = <<>> THEN c.to.host ELSE u[1].host
  BY <1>3, <1>4 DEF Shaped
<1>9. Target(c, m) = IF s[Len(s)].host \notin EdgeHosts THEN s[Len(s)].host ELSE c.to.host
  <2>1. s # <<>>
    <3>1. Len(s) # 0
      BY <1>7 DEF Leads, Lists
    <3>2. Len(<<>>) = 0
      OBVIOUS
    <3> QED BY <3>1, <3>2
  <2> QED BY <1>7, <2>1 DEF Target
<1>10. Target(c, t) = IF dest \notin EdgeHosts THEN dest
                      ELSE IF u # <<>> /\ u[Len(u)].host \notin EdgeHosts THEN u[Len(u)].host ELSE c.to.host
  BY DEF Target
<1> HIDE DEF s, w, u, dest, c, regs
<1>11. Landed(c, s, u, dest, e, f, regs)
  BY ONLY <1>7, <1>8, RoutesLeft, ZenonT(60)
<1>12. dest \in EdgeHosts => u[Len(u)].host = dest
  BY <1>6, <1>11 DEF Landed, Lists
<1>13. Target(c, t) = Target(c, m)
  BY <1>9, <1>10, <1>11, <1>12 DEF Landed
<1> QED BY <1>3, <1>13 DEF c

LEMMA HandingAs ==
    ASSUME NEW route, NEW r0, DOMAIN r0 = MessageFields, NEW req, req = toPeerEdgePort(route, r0),
           NEW end, end = [host |-> route.host, tp |-> route.tp], NEW peer, peer = getEdgeInterface(route.edge, end)
    PROVE  /\ But(req, r0, {"maxForwards", "route", "ext", "via", "recordRoute"})
           /\ req.route = IF r0.uri.host = end.host THEN With(peer, r0.route) ELSE With(end, With(peer, r0.route))
           /\ req.ext = r0.ext \cup {"x-edgeport-ref"}
<1>1. end.host = route.host /\ DOMAIN r0 = MessageFields /\ req = toPeerEdgePort(route, r0)
  OBVIOUS
<1>2. /\ But(req, r0, {"maxForwards", "route", "ext", "via", "recordRoute"})
      /\ req.route = IF r0.uri.host = route.host THEN With(peer, r0.route) ELSE With(end, With(peer, r0.route))
      /\ req.ext = r0.ext \cup {"x-edgeport-ref"}
  BY ONLY <1>1, end = [host |-> route.host, tp |-> route.tp], peer = getEdgeInterface(route.edge, end), Handing
<1> QED BY <1>1, <1>2

LEMMA SoughtTarget ==
    ASSUME RoutingInv, NEW e \in EdgePorts, NEW m, Taking(call, m, e), Placed(call, m) \/ Back(call, m),
           ~Handed(call, m, registers), NEW t, NEW route, Leaves(e, m, t, route)
    PROVE  Target(call, t) = route.host
<1>1. RouteChosen(call, route, e, registers, failed')
  BY DEF Leaves, Chosen
<1>2. CASE route.edge = e
  <2>1. Shaped(e, m, t, route)
    BY Shape
  <2>2. Lists(Without(OwnHosts(e), m.route), 0)
    BY OwnRoutes
  <2>3. t.route = <<>>
    <3>1. t.route = Reverse(Without(OwnHosts(e), m.route))
      BY <1>2, <2>1 DEF Shaped
    <3> DEFINE w == Without(OwnHosts(e), m.route)
    <3>2. Lists(w, 0) /\ t.route = Reverse(w)
      BY <2>2, <3>1
    <3> HIDE DEF w
    <3> QED BY <3>2 DEF Reverse, Lists
  <2>4. t.dest = route.host
    BY <1>2, <2>1, <2>3 DEF Shaped
  <2>5. route.host \notin EdgeHosts
    BY <1>1, PhonesApart, TrunksApart DEF RouteChosen, Leaving
  <2> QED BY <2>4, <2>5 DEF Target
<1>3. CASE route.edge # e
  <2>1. route.edge \in EdgePorts /\ route.host \in DOMAIN Accounts
    BY <1>1, <1>3 DEF RouteChosen, Leaving
  <2> DEFINE r0 == [m EXCEPT !.edge = e]
             req == toPeerEdgePort(route, r0)
             end == [host |-> route.host, tp |-> route.tp]
             peer == getEdgeInterface(route.edge, end)
             list == IF r0.uri.host = end.host THEN With(peer, r0.route)
                     ELSE With(end, With(peer, r0.route))
  <2>2. /\ But(r0, m, {"edge"}) /\ r0.edge = e /\ DOMAIN r0 = MessageFields
    BY Taken DEF Taking
  <2>3. r0.route = m.route /\ r0.uri = Dialled(call)
    BY <2>2 DEF But, MessageFields, Taking, Untouched
  <2>4. ~Throws(route.edge, end) /\ t = OnTheWire(e, req)
    BY <1>3 DEF Leaves
  <2>5. peer.host \in EdgeHosts /\ end.host = route.host
    BY <2>1, <2>4, EdgeInterface DEF EdgeHosts
  <2>12. req = toPeerEdgePort(route, r0) /\ end = [host |-> route.host, tp |-> route.tp]
         /\ peer = getEdgeInterface(route.edge, end)
    OBVIOUS
  <2> HIDE DEF r0, req, end, peer
  <2>6. But(req, r0, {"maxForwards", "route", "ext", "via", "recordRoute"}) /\ req.route = list
        /\ req.ext = r0.ext \cup {"x-edgeport-ref"}
    BY <2>2, <2>12, HandingAs
  <2> HIDE DEF req, peer, end
  <2>7. DOMAIN req = MessageFields
    BY <2>2, <2>6 DEF But
  <2>8. t.route = Reverse(list) /\ "x-edgeport-ref" \in t.ext
    <3>1. /\ But(t, req, {"edge", "route", "dest", "path"}) /\ t.route = Reverse(req.route)
      BY <2>4, <2>7, WireFields
    <3> QED BY <2>6, <2>7, <3>1 DEF But, MessageFields
  <2>9. t.dest \in EdgeHosts
    <3>1. InviteOK(call, t, registers, failed')
      BY DEF Leaves, Proceeds
    <3>2. ~Out(call, t, registers, failed')
      BY <2>8 DEF Out
    <3> QED BY <3>1, <3>2, DestInside DEF InviteOK
  <2>10. t.route # <<>> /\ t.route[Len(t.route)] = IF call.to.host = end.host THEN peer ELSE end
    <3> DEFINE s == m.route
               u == t.route
               dialled == call.to.host
    <3>1. list = IF dialled = end.host THEN With(peer, s) ELSE With(end, With(peer, s))
      BY <2>3 DEF Dialled
    <3>2. u = Reverse(list)
      BY <2>8
    <3>3. Lists(s, 0) \/ Lists(s, 1)
      BY DEF Placed, Back
    <3> HIDE DEF s, u, list, dialled
    <3>4. PICK n \in Nat : Lists(s, n)
      BY <3>3
    <3>5. u # <<>> /\ u[Len(u)] = IF dialled = end.host THEN peer ELSE end
      <4>1. CASE dialled = end.host
        <5>1. list = With(peer, s)
          BY <3>1, <4>1
        <5>2. u # <<>> /\ u[Len(u)] = peer
          BY ONLY n \in Nat, <3>2, <3>4, <5>1, LastOfReverse, ZenonT(60)
        <5> QED BY <4>1, <5>2
      <4>2. CASE dialled # end.host
        <5> DEFINE one == With(peer, s)
                   k == n + 1
        <5>1. Lists(one, k) /\ k \in Nat
          BY <3>4, WithList
        <5>2. list = With(end, one)
          BY <3>1, <4>2
        <5> HIDE DEF one, k
        <5>3. u # <<>> /\ u[Len(u)] = end
          BY ONLY <3>2, <5>1, <5>2, LastOfReverse, ZenonT(60)
        <5> QED BY <4>2, <5>3
      <4> QED BY <4>1, <4>2
    <3> QED BY <3>5 DEF u, dialled
  <2>11. route.host \notin EdgeHosts
    BY <2>1, PhonesApart
  <2> QED BY <2>5, <2>9, <2>10, <2>11 DEF Target
<1> QED BY <1>2, <1>3

\* An INVITE gathers nothing but what a call between the two phones can use.
LEMMA InviteTravels ==
    ASSUME LaidOut, RoutingInv, FormInv, NEW e \in EdgePorts, NEW m \in wire, m.type = "request",
           m.method = "INVITE", m.dest \in OwnHosts(e), InviteServed(call, m),
           NEW t, NEW route, Leaves(e, m, t, route)
    PROVE  InviteServed(call, t)
<1>1. /\ Taking(call, m, e) /\ (Placed(call, m) \/ Handed(call, m, registers) \/ Back(call, m))
      /\ m.via \in Seq(Interface) /\ m.via # <<>> /\ m.path \in Seq(EdgePorts)
  BY Takes DEF RoutingInv, WireInv, MessageOK
<1>2. /\ OpeningForm(call, m) /\ IsList(m.recordRoute) /\ call \in Calls
  <2>1. OpeningForm(call, m)
    BY DEF FormInv, MessageForm
  <2> QED BY <2>1, CallEdge DEF OpeningForm, RoutingInv, CallInv
<1>3. Shaped(e, m, t, route)
  BY <1>1, Shape
<1> DEFINE end == [host |-> route.host, tp |-> route.tp]
           sender == Sender([m EXCEPT !.edge = e])
           out == [host |-> route.advertised, tp |-> route.tp]
           own == OwnRecord(e, sender, route)
<1>4. ~Throws(e, end) /\ ~Throws(e, sender) /\ ~Throws(e, out)
  BY DEF Leaves, Reaches
<1>5. SUFFICES ASSUME ~IsWeb(call.ua), ~IsWeb(Target(call, t))
               PROVE  Shared(t.via) /\ Serves(t.recordRoute)
  <2>1. t.path # <<>>
    BY <1>1, <1>3 DEF Shaped
  <2> QED BY <2>1 DEF InviteServed
<1>6. (m.path = <<>> \/ ~IsWeb(Target(call, m))) /\ TransportOf(end) \in Common
  <2>1. "UDP" \in Common /\ "UDP" # None
    BY NoneAssumption DEF Common, NoneAssumption
  <2>2. CASE Handed(call, m, registers)
    <3>1. Target(call, t) = Target(call, m) /\ route.tp = None
      BY <1>1, <2>2, HandedTarget
    <3> QED BY <1>5, <2>1, <3>1 DEF TransportOf
  <2>3. CASE ~Handed(call, m, registers)
    <3>1. KnownTp(route) /\ Target(call, t) = route.host
      BY <1>1, <2>3, SoughtTarget DEF Leaves, Chosen
    <3>2. TransportOf(end) \in Common
      <4>1. CASE route.tp = "UDP"
        BY <2>1, <4>1 DEF TransportOf
      <4>2. CASE route.host \in DOMAIN Accounts /\ route.tp = Phones[route.host].tp
        <5>1. Plain(route.host)
          BY <1>5, <3>1, <4>2, PhonesAssumption DEF Plain, IsWeb, PhonesAssumption
        <5>2. TransportOf(Self(route.host)) \in Common
          BY <5>1 DEF Common, Plain
        <5>3. TransportOf(end) = TransportOf(Self(route.host))
          BY <4>2 DEF Self, TransportOf
        <5> QED BY <5>2, <5>3
      <4> QED BY <3>1, <4>1, <4>2 DEF KnownTp
    <3>3. CASE Placed(call, m)
      BY <3>2, <3>3 DEF Placed
    <3>4. CASE Back(call, m)
      <4>1. Plain(call.to.host)
        BY <1>2, <3>4 DEF LaidOut, Back
      <4>2. Target(call, m) = call.to.host
        BY <3>4 DEF Back, Target, Lists
      <4> QED BY <3>2, <4>1, <4>2 DEF Plain, IsWeb
    <3> QED BY <1>1, <2>3, <3>3, <3>4
  <2> QED BY <2>2, <2>3
<1>7. Shared(m.via) /\ Serves(m.recordRoute)
  BY <1>5, <1>6 DEF InviteServed
<1>8. TransportOf(sender) \in Common
  <2>1. 1 \in 1 .. Len(m.via)
    BY <1>1
  <2>2. TransportOf(m.via[1]) \in Common
    BY <1>7, <2>1 DEF Shared
  <2>3. sender.tp = m.via[1].tp
    BY <1>1 DEF Sender, Taking, MessageOK, MessageFields
  <2> QED BY <2>2, <2>3, Transports2
<1>9. /\ t.via = With(getEdgeInterface(e, end), m.via)
      /\ t.recordRoute = own \o m.recordRoute
  <2> DEFINE r0 == [m EXCEPT !.edge = e]
  <2>1. DOMAIN r0 = MessageFields /\ r0.recordRoute = m.recordRoute /\ r0.edge = e /\ sender = Sender(r0)
    BY Taken, <1>1 DEF Taking, But, MessageFields
  <2>2. PICK req : /\ t = OnTheWire(e, req)
                   /\ req = tailor(route, r0) \/ req = toPeerEdgePort(route, r0)
    BY DEF Leaves
  <2>0. r0.uri = Dialled(call)
    BY Taken, <1>1 DEF Taking, But, MessageFields, Untouched
  <2> HIDE DEF r0, sender
  <2>6. DOMAIN r0 = MessageFields /\ (req = tailor(route, r0) \/ req = toPeerEdgePort(route, r0))
    BY <2>1, <2>2
  <2>7. req.recordRoute = OwnRecord(r0.edge, Sender(r0), route) \o r0.recordRoute
    BY ONLY <2>6, Recorded, ZenonT(60)
  <2>3. req.recordRoute = own \o m.recordRoute
    BY <2>1, <2>7
  <2>4. DOMAIN req = MessageFields
    <3>1. DOMAIN r0.uri = {"user", "host", "tp"}
      BY <2>0 DEF Dialled
    <3>2. CASE req = tailor(route, r0)
      <4>1. DOMAIN req = DOMAIN r0
        BY ONLY <2>1, <3>1, <3>2, Tailored, ZenonT(60) DEF But
      <4> QED BY <2>1, <4>1
    <3>3. CASE req = toPeerEdgePort(route, r0)
      <4>1. DOMAIN req = DOMAIN r0
        BY ONLY <2>1, <3>3, Handing, ZenonT(60) DEF But
      <4> QED BY <2>1, <4>1
    <3> QED BY <2>2, <3>2, <3>3
  <2>5. t.recordRoute = req.recordRoute
    <3>1. But(t, req, {"edge", "route", "dest", "path"})
      BY <2>2, <2>4, WireFields
    <3> QED BY <2>4, <3>1 DEF But, MessageFields
  <2> QED BY <1>3, <2>3, <2>5 DEF Shaped
<1>10. IsList(own) /\ Serves(own) /\ TransportOf(getEdgeInterface(e, end)) \in Common
  <2> HIDE DEF sender
  <2>1. end = [host |-> route.host, tp |-> route.tp] /\ out = [host |-> route.advertised, tp |-> route.tp]
    OBVIOUS
  <2> HIDE DEF end, out
  <2> QED BY <1>4, <1>6, <1>8, <2>1, OwnServed
<1> HIDE DEF end, sender, out, own
<1>11. Shared(t.via)
  BY <1>1, <1>7, <1>9, <1>10, SharedMore
<1>12. Serves(t.recordRoute)
  BY <1>2, <1>7, <1>9, <1>10, ServesMore
<1> QED BY <1>11, <1>12

-----------------------------------------------------------------------------
(* An ACK or a BYE between phones that are no browsers *)

\* The callee has the dialog it had.
SameCallee ==
    /\ callee'.at = callee.at /\ (callee'.state # "idle" <=> callee.state # "idle")
    /\ callee.state # "idle" =>
         callee'.req = callee.req /\ callee'.routes = callee.routes /\ callee'.target = callee.target
    /\ callee'.state = "talking" => callee.state = "talking" \/ call.method = "INVITE"

\* The caller is as it was, or has its answer.
Speaks ==
    \/ caller.state = "up" /\ caller'.routes = caller.routes /\ caller'.target = caller.target
    \/ /\ call.method = "INVITE" /\ callee.state # "idle"
       /\ BothPlain => Serves(caller'.routes) /\ At(caller'.target, callee.at)

LEMMA DialogSwap ==
    ASSUME DialogInv, NEW new, wire' \subseteq wire \cup new, call' = call,
           SameCallee, caller'.state = "up" => Speaks,
           \A x \in lost' : x \in {"ACK", "BYE"} => x \in lost \/ IsWeb(call.ua) \/ IsWeb(callee.at),
           \A t \in new : MessageServed(t)
    PROVE  DialogInv'
<1>1. (BothPlain' <=> BothPlain) /\ (callee'.state # "idle" <=> callee.state # "idle") /\ callee'.at = callee.at
  BY DEF BothPlain, SameCallee
<1>2. ASSUME NEW m, MessageServed(m) PROVE MessageServed(m)'
  <2>1. AnswerServed(m) => AnswerServed(m)'
    BY <1>1 DEF AnswerServed
  <2>2. DialogServed(m) => DialogServed(m)'
    BY <1>1 DEF DialogServed
  <2> QED BY <1>2, <2>1, <2>2 DEF MessageServed
<1>3. ASSUME NEW m \in wire' PROVE MessageServed(m)'
  <2>1. MessageServed(m)
    BY DEF DialogInv
  <2> QED BY <1>2, <2>1
<1>4. CalleeServed'
  <2>1. CalleeServed
    BY DEF DialogInv
  <2> QED BY <1>1, <2>1 DEF CalleeServed, SameCallee
<1>5. CallerServed'
  <2>1. CallerServed
    BY DEF DialogInv
  <2> QED BY <1>1, <2>1 DEF CallerServed, Speaks
<1>6. callee'.state = "talking" => call'.method = "INVITE"
  BY DEF DialogInv, SameCallee
<1>7. \A x \in lost' : x \in {"ACK", "BYE"} => IsWeb(call'.ua) \/ IsWeb(callee'.at)
  BY <1>1 DEF DialogInv
<1> QED BY <1>3, <1>4, <1>5, <1>6, <1>7 DEF DialogInv

LEMMA NotPlain ==
    ASSUME RoutingInv, callee.state # "idle", ~BothPlain
    PROVE  IsWeb(call.ua) \/ IsWeb(callee.at)
BY UaIsPhone DEF RoutingInv, CalleeInv, BothPlain, Plain, IsWeb

LEMMA ServesLess ==
    ASSUME NEW a, Serves(a), NEW b, \A i \in 1 .. Len(b) : \E j \in 1 .. Len(a) : b[i] = a[j]
    PROVE  Serves(b)
BY DEF Serves, Shared

\* An edgeport of the way lets an ACK or a BYE through.
LEMMA NotBlockedInside ==
    ASSUME LaidOut, RoutingInv, FormInv, NEW e \in EdgePorts, NEW m \in wire, m.type = "request",
           m.method \in {"ACK", "BYE"}, m.dest \in OwnHosts(e), InDialogForm(m)
    PROVE  ~Blocked(e, m) /\ \A t : Through(e, m, t) => InDialogForm(t)
<1>1. MessageOK(m) /\ DialogForm(call, callee.at, m) /\ IsList(m.route) /\ DOMAIN m = MessageFields
  BY DEF RoutingInv, WireInv, FormInv, MessageForm, DialogForm, MessageOK
<1>2. PICK u \in DOMAIN Phones : Plain(u) /\ At(m.uri, u)
  BY DEF InDialogForm
<1>3. ~Throws(e, m.uri)
  <2>1. ~Throws(e, Self(u))
    BY <1>2 DEF LaidOut
  <2>2. Self(u).host = m.uri.host /\ Self(u).tp = m.uri.tp
    BY <1>2 DEF Self, At
  <2> QED BY <2>1, <2>2 DEF Throws, TransportOf
<1>4. ASSUME NEW x \in Common PROVE x \in ListeningOn[e]
  <2>1. CASE x = "UDP"
    BY <2>1 DEF LaidOut
  <2>2. ASSUME NEW v \in DOMAIN Phones, Plain(v), x = TransportOf(Self(v)) PROVE x \in ListeningOn[e]
    BY <2>2 DEF LaidOut, Throws
  <2> QED BY <2>1, <2>2 DEF Common
<1>5. ~ThrowsOnRoutes([m EXCEPT !.edge = e])
  <2> DEFINE r0 == [m EXCEPT !.edge = e]
  <2>1. r0.edge = e /\ r0.route = m.route
    BY <1>1 DEF MessageFields
  <2>2. DOMAIN m.route = 1 .. Len(m.route)
    BY <1>1 DEF IsList, Lists
  <2>3. \A i \in DOMAIN m.route : TransportOf(m.route[i]) \in ListeningOn[e]
    BY <1>4, <2>2 DEF InDialogForm, Serves, Shared
  <2> HIDE DEF r0
  <2>4. ~ThrowsOnRoutes(r0)
    BY <2>1, <2>3 DEF ThrowsOnRoutes
  <2> QED BY <2>4 DEF r0
<1>6. ~(m.maxForwards < 1)
  <2> DEFINE p == m.path
             S == Range(p)
             n == Len(p)
             k == m.maxForwards
             card == Cardinality(EdgePorts)
  <2>1. m.uri.host \notin EdgeHosts
    BY <1>2, HostsAssumption DEF At, HostsAssumption
  <2>2. Distinct(p) /\ p \in Seq(EdgePorts) /\ k = MaxHops - n
    BY <1>1, <2>1 DEF DialogForm, MessageOK, Traced
  <2>3. e \notin S
    <3>1. m.dest \in EdgeHosts /\ m.dest = NextHop(m.route, m.uri)
      BY DEF EdgeHosts, InDialogForm
    <3>2. m.route # <<>> /\ m.route[1].host = m.dest
      BY <2>1, <3>1 DEF NextHop
    <3>3. 1 \in 1 .. Len(m.route)
      <4>1. Len(m.route) \in Nat /\ Len(m.route) # 0
        BY <1>1, <3>2, EmptyList DEF IsList
      <4> QED BY <4>1
    <3> QED BY <1>1, <3>2, <3>3 DEF DialogForm
  <2>4. IsFiniteSet(S) /\ Cardinality(S) = n /\ S \subseteq EdgePorts /\ n \in Nat
    <3>1. S \subseteq EdgePorts
      BY <2>2 DEF Range
    <3> QED BY <2>2, <3>1 DEF Distinct
  <2>5. IsFiniteSet(EdgePorts) /\ card \in Nat /\ card <= MaxHops /\ MaxHops \in Nat
    BY FS_CardinalityType, HopsAssumption DEF LaidOut, HopsAssumption
  <2> HIDE DEF S
  <2> DEFINE T == S \cup {e}
  <2>6. Cardinality(T) = Cardinality(S) + 1
    BY <2>3, <2>4, FS_AddElement
  <2>7. T \subseteq EdgePorts
    BY <2>4
  <2> HIDE DEF T
  <2>8. Cardinality(T) <= card
    BY <2>5, <2>7, FS_Subset
  <2> HIDE DEF n, card, k
  <2>9. ~(k < 1)
    BY ONLY <2>2, <2>4, <2>5, <2>6, <2>8
  <2> QED BY <2>9 DEF k
<1>7. ASSUME NEW t, Through(e, m, t) PROVE InDialogForm(t)
  <2> DEFINE w == Without(OwnHosts(e), m.route)
  <2>1. Clean(OwnHosts(e), m.route, w)
    BY <1>1, WithoutClean
  <2>2. t.uri = m.uri /\ t.route = Reverse(w) /\ t.dest = NextHop(t.route, t.uri)
    BY <1>7 DEF Through
  <2> HIDE DEF w
  <2>3. Serves(w)
    BY <2>1, ServesLess DEF Clean, InDialogForm
  <2>4. Serves(Reverse(w))
    <3>1. IsList(w)
      BY <2>1 DEF Clean
    <3> QED BY <2>3, <3>1, Reversed, ServesLess
  <2> QED BY <1>2, <2>2, <2>4 DEF InDialogForm
<1> QED BY <1>3, <1>5, <1>6, <1>7 DEF Blocked

LEMMA DialogByRequest ==
    ASSUME LaidOut, RoutingInv, FormInv, LocForm, DialogInv, NEW e \in EdgePorts, HandleRequest(e)
    PROVE  DialogInv'
<1>1. PICK m \in wire : \E r, deaf : Handles(e, m, r, deaf)
  BY Handling
<1>2. PICK r, deaf : Handles(e, m, r, deaf)
  BY <1>1
<1>3. /\ m.type = "request" /\ m.dest \in OwnHosts(e) /\ call' = call /\ caller' = caller
      /\ SameCallee /\ MessageOK(m) /\ MessageServed(m)
  BY <1>2 DEF Handles, RoutingInv, WireInv, DialogInv, SameCallee
<1>4. caller'.state = "up" => Speaks
  BY <1>3 DEF Speaks
<1>5. ASSUME NEW new, Replace(m, new), lost' = lost, \A t \in new : MessageServed(t)
      PROVE  DialogInv'
  <2>1. wire' \subseteq wire \cup new
    BY <1>5 DEF Replace
  <2> QED BY <1>3, <1>4, <1>5, <2>1, DialogSwap
<1>6. ASSUME Drop(m), m.method \in {"ACK", "BYE"} => IsWeb(call.ua) \/ IsWeb(callee.at)
      PROVE  DialogInv'
  <2> DEFINE none == {}
  <2>1. wire' \subseteq wire \cup none /\ lost' = lost \cup {m.method} /\ \A t \in none : FALSE
    BY <1>6 DEF Drop, Replace
  <2> HIDE DEF none
  <2> QED BY <1>3, <1>4, <1>6, <2>1, DialogSwap
<1>7. CASE m.method = "CANCEL"
  <2>1. CASE Drop(m)
    BY <1>6, <1>7, <2>1
  <2>2. ASSUME NEW one, NEW two, tx[e] # None, one = CancelOf(tx[e]), two.type = "response",
               two.method = "INVITE", two.code = TERMINATED, Replace(m, {one, two}), lost' = lost
        PROVE  DialogInv'
    <3>1. one.method = "CANCEL"
      BY <2>2 DEF CancelOf, RoutingInv, TxInv, TxOK, MessageOK, MessageFields
    <3> DEFINE new == {one, two}
    <3>2. \A t \in new : MessageServed(t)
      <4>1. TERMINATED # OK
        BY DEF TERMINATED, OK
      <4>2. MessageServed(one)
        BY <3>1 DEF MessageServed
      <4>3. MessageServed(two)
        BY <2>2, <4>1 DEF MessageServed
      <4> QED BY <4>2, <4>3
    <3>3. Replace(m, new)
      BY <2>2
    <3> HIDE DEF new
    <3> QED BY <1>5, <2>2, <3>2, <3>3
  <2> QED BY <1>2, <1>7, <2>1, <2>2, CancelHandled
<1>8. CASE m.method \notin {"INVITE", "CANCEL"}
  <2>1. m.method \in {"ACK", "BYE"} => DialogServed(m)
    BY <1>3 DEF MessageServed
  <2>2. CASE Drop(m) /\ Blocked(e, m)
    <3>1. m.method \in {"ACK", "BYE"} => IsWeb(call.ua) \/ IsWeb(callee.at)
      BY <1>3, <2>1, <2>2, NotPlain, NotBlockedInside DEF DialogServed
    <3> QED BY <1>6, <2>2, <3>1
  <2>3. ASSUME NEW t, t.type = "request", t.method = m.method, Through(e, m, t), Replace(m, {t}), lost' = lost
        PROVE  DialogInv'
    <3>1. m.method \in {"ACK", "BYE"} => DialogServed(t)
      BY <1>3, <2>1, <2>3, NotBlockedInside DEF DialogServed
    <3>2. MessageServed(t)
      BY <1>8, <2>3, <3>1 DEF MessageServed
    <3> DEFINE new == {t}
    <3>3. Replace(m, new) /\ \A x \in new : MessageServed(x)
      BY <2>3, <3>2
    <3> HIDE DEF new
    <3> QED BY <1>5, <2>3, <3>3
  <2> QED BY <1>2, <1>8, <2>2, <2>3, OtherHandled
<1>9. CASE m.method = "INVITE"
  <2>1. InviteServed(call, m)
    BY <1>3, <1>9 DEF MessageServed
  <2>2. CASE Refusal(m)
    <3>1. PICK code \in Refusals : Replace(m, {Response(m, code)}) /\ UNCHANGED <<tx, lost>>
      BY <2>2 DEF Refusal
    <3> DEFINE t == Response(m, code)
    <3>2. t.type = "response" /\ t.code = code
      BY <1>3 DEF Response, MessageOK, MessageFields
    <3>3. Replace(m, {t})
      BY <3>1
    <3> HIDE DEF t
    <3>4. code # OK
      BY <3>1, RefusalCodes
    <3>5. MessageServed(t)
      BY <3>2, <3>4 DEF MessageServed
    <3> DEFINE new == {t}
    <3>6. Replace(m, new) /\ \A x \in new : MessageServed(x)
      BY <3>3, <3>5
    <3> HIDE DEF new
    <3> QED BY <1>5, <3>1, <3>6
  <2>3. CASE Drop(m)
    BY <1>6, <1>9, <2>3
  <2>4. ASSUME NEW t, NEW route, Leaves(e, m, t, route), Replace(m, {t}), lost' = lost
        PROVE  DialogInv'
    <3>1. InviteServed(call, t)
      BY <1>3, <1>9, <2>1, <2>4, InviteTravels
    <3>2. t.type = "request" /\ t.method = "INVITE"
      BY <2>4 DEF Leaves, Proceeds, TxOK
    <3>3. MessageServed(t)
      BY <3>1, <3>2 DEF MessageServed
    <3> DEFINE new == {t}
    <3>4. Replace(m, new) /\ \A x \in new : MessageServed(x)
      BY <2>4, <3>3
    <3> HIDE DEF new
    <3> QED BY <1>5, <2>4, <3>4
  <2> QED BY <1>2, <1>9, <2>2, <2>3, <2>4, InviteHandled
<1> QED BY <1>7, <1>8, <1>9

\* Fields that the stack does not touch.
LEMMA ServedSame ==
    ASSUME NEW m, MessageServed(m), NEW t, t.type = "response", m.type = "response", t.method = m.method,
           t.code = m.code, t.recordRoute = m.recordRoute, t.contact = m.contact
    PROVE  MessageServed(t)
BY DEF MessageServed, AnswerServed

LEMMA DialogDest ==
    ASSUME NEW m, InDialogForm(m), IsList(m.route)
    PROVE  m.dest \in EdgeHosts \cup DOMAIN Phones
<1>1. PICK v \in DOMAIN Phones : m.uri.host = v
  BY DEF InDialogForm, At
<1>2. m.route # <<>> => 1 \in 1 .. Len(m.route)
  <2>1. m.route # <<>> => Len(m.route) \in Nat /\ Len(m.route) # 0
    BY EmptyList DEF IsList
  <2> QED BY <2>1
<1>3. m.route = <<>> \/ m.route[1].host \in EdgeHosts
  BY <1>2 DEF InDialogForm, Serves
<1> QED BY <1>1, <1>3 DEF InDialogForm, NextHop

LEMMA DialogByNet ==
    ASSUME LaidOut, RoutingInv, FormInv, DialogInv,
           \/ (\E e \in EdgePorts : HandleResponse(e)) \/ Tunnel \/ Vanish
           \/ (\E u \in call.phones : Register(u)) \/ Expire
    PROVE  DialogInv'
<1>1. ASSUME NEW new, wire' \subseteq wire \cup new, UNCHANGED <<call, caller, callee, lost>>,
             \A t \in new : MessageServed(t)
      PROVE  DialogInv'
  <2>1. SameCallee /\ (caller'.state = "up" => Speaks)
    BY <1>1 DEF SameCallee, Speaks
  <2> QED BY <1>1, <2>1, DialogSwap
<1>2. CASE \E e \in EdgePorts : HandleResponse(e)
  <2>1. PICK e \in EdgePorts : HandleResponse(e)
    BY <1>2
  <2>2. PICK m \in wire :
        /\ m.type = "response"
        /\ LET back == removeTopVia(m)
           IN Replace(m, IF m.code = TERMINATED \/ back.via = <<>> THEN {}
                         ELSE {[back EXCEPT !.dest = back.via[1].host]})
        /\ UNCHANGED <<call, caller, callee, lost>>
    BY <2>1 DEF HandleResponse
  <2> DEFINE back == removeTopVia(m)
             t == [back EXCEPT !.dest = back.via[1].host]
             new == {t}
  <2>3. wire' \subseteq wire \cup new
    BY <2>2 DEF Replace
  <2>4. /\ t.type = "response" /\ t.method = m.method /\ t.code = m.code
        /\ t.recordRoute = m.recordRoute /\ t.contact = m.contact
    BY <2>2 DEF removeTopVia, RoutingInv, WireInv, MessageOK, MessageFields
  <2> HIDE DEF t
  <2>5. MessageServed(t)
    BY <2>2, <2>4, ServedSame DEF DialogInv
  <2>6. \A x \in new : MessageServed(x)
    BY <2>5
  <2> HIDE DEF new
  <2> QED BY <1>1, <2>2, <2>3, <2>6
<1>3. CASE Tunnel
  <2>1. PICK m \in wire, u \in DOMAIN Phones : /\ m.dest = Invalid /\ Replace(m, {[m EXCEPT !.dest = u]})
                                               /\ UNCHANGED <<call, caller, callee, lost>>
    BY <1>3 DEF Tunnel
  <2> DEFINE t == [m EXCEPT !.dest = u]
             new == {t}
  <2>2. MessageOK(m) /\ MessageServed(m)
    BY DEF RoutingInv, WireInv, DialogInv
  <2>3. /\ t.type = m.type /\ t.method = m.method /\ t.code = m.code
        /\ t.recordRoute = m.recordRoute /\ t.contact = m.contact /\ wire' \subseteq wire \cup new
    BY <2>1, <2>2 DEF MessageOK, MessageFields, Replace
  <2> HIDE DEF t
  <2>4. CASE m.type = "response"
    <3>1. MessageServed(t)
      BY <2>2, <2>3, <2>4, ServedSame
    <3>2. \A x \in new : MessageServed(x)
      BY <3>1
    <3> HIDE DEF new
    <3> QED BY <1>1, <2>1, <2>3, <3>2
  <2>5. CASE m.type = "request"
    <3>1. m.method # "INVITE"
      <4> SUFFICES ASSUME m.method = "INVITE" PROVE FALSE
        OBVIOUS
      <4>1. InviteOK(call, m, registers, failed)
        BY <2>5 DEF RoutingInv, RequestsInv, Requests, RequestOK
      <4> QED BY <2>1, <4>1, NeverInvalid
    <3>2. m.method \in {"ACK", "BYE"} => DialogServed(t)
      <4> SUFFICES ASSUME m.method \in {"ACK", "BYE"} PROVE DialogServed(t)
        OBVIOUS
      <4>1. DialogServed(m)
        BY <2>2, <2>5 DEF MessageServed
      <4>2. ~InDialogForm(m)
        <5>1. IsList(m.route)
          BY <2>5 DEF FormInv, MessageForm, DialogForm
        <5> QED BY <2>1, <5>1, DialogDest, HostsAssumption DEF HostsAssumption
      <4> QED BY <4>1, <4>2 DEF DialogServed
    <3>3. MessageServed(t)
      BY <2>3, <2>5, <3>1, <3>2 DEF MessageServed
    <3>4. \A x \in new : MessageServed(x)
      BY <3>3
    <3> HIDE DEF new
    <3> QED BY <1>1, <2>1, <2>3, <3>4
  <2> QED BY <2>2, <2>4, <2>5 DEF MessageOK
<1>4. CASE Vanish
  <2>1. PICK m \in wire : /\ \A e \in EdgePorts : m.dest \notin OwnHosts(e)
                          /\ m.dest \notin DOMAIN Phones /\ Drop(m) /\ UNCHANGED <<call, caller, callee>>
    BY <1>4 DEF Vanish
  <2>2. m.type = "request" /\ MessageServed(m)
    BY <2>1, Vanishing DEF DialogInv
  <2>3. m.method \in {"ACK", "BYE"} => IsWeb(call.ua) \/ IsWeb(callee.at)
    <3> SUFFICES ASSUME m.method \in {"ACK", "BYE"} PROVE IsWeb(call.ua) \/ IsWeb(callee.at)
      OBVIOUS
    <3>1. DialogServed(m)
      BY <2>2 DEF MessageServed
    <3>2. ~InDialogForm(m)
      <4>1. IsList(m.route)
        BY <2>2 DEF FormInv, MessageForm, DialogForm
      <4> QED BY <2>1, <4>1, DialogDest DEF EdgeHosts
    <3> QED BY <3>1, <3>2, NotPlain DEF DialogServed
  <2> DEFINE none == {}
  <2>4. wire' \subseteq wire \cup none /\ lost' = lost \cup {m.method} /\ \A t \in none : FALSE
    BY <2>1 DEF Drop, Replace
  <2> HIDE DEF none
  <2>5. SameCallee /\ (caller'.state = "up" => Speaks) /\ call' = call
    BY <2>1 DEF SameCallee, Speaks
  <2> QED BY <2>3, <2>4, <2>5, DialogSwap
<1>5. CASE (\E u \in call.phones : Register(u)) \/ Expire
  <2> DEFINE none == {}
  <2>1. wire' \subseteq wire \cup none /\ UNCHANGED <<call, caller, callee, lost>> /\ \A t \in none : FALSE
    BY <1>5 DEF Register, Expire
  <2> HIDE DEF none
  <2> QED BY <1>1, <2>1
<1> QED BY <1>2, <1>3, <1>4, <1>5

LEMMA OpeningServed ==
    ASSUME RoutingInv, NEW auth, NEW t, t = Opening(auth)
    PROVE  MessageServed(t)
<1> DEFINE door == Door(call.ua, call.edge)
           uri == [user |-> call.to.user, host |-> call.to.host, tp |-> None]
           r0 == Request(call.ua, call.method, uri, IF call.route THEN <<door>> ELSE <<>>, door.host)
           none == <<>>
           one == <<Self(call.ua)>>
<1>1. /\ DOMAIN r0 = MessageFields /\ r0.type = "request" /\ r0.method = call.method
      /\ r0.via = one /\ r0.recordRoute = none
  BY DEF Request, MessageFields
<1>2. t = [r0 EXCEPT !.auth = auth, !.token = call.token, !.ext = call.ext]
  BY DEF Opening
<1> HIDE DEF r0
<1>3. t.type = "request" /\ t.method = call.method /\ t.via = one /\ t.recordRoute = none
  BY <1>1, <1>2 DEF MessageFields
<1>4. Len(none) = 0 /\ Len(one) = 1 /\ one[1] = Self(call.ua)
  BY OneOrTwo
<1> HIDE DEF none, one
<1>5. Serves(none)
  BY <1>4 DEF Serves, Shared
<1>6. ASSUME ~IsWeb(call.ua) PROVE Shared(one)
  <2>1. TransportOf(Self(call.ua)) \in Common
    BY <1>6, UaIsPhone DEF Common, Plain, IsWeb
  <2>2. \A i \in 1 .. 1 : i = 1
    OBVIOUS
  <2> QED BY <1>4, <2>1, <2>2 DEF Shared
<1>7. InviteServed(call, t)
  BY <1>3, <1>5, <1>6 DEF InviteServed
<1>8. t.method \notin {"ACK", "BYE"}
  BY <1>3, CallEdge DEF RoutingInv, CallInv
<1> QED BY <1>3, <1>7, <1>8 DEF MessageServed

LEMMA DialogOpened ==
    ASSUME NEW u, NEW side, NEW auth, NEW method \in {"ACK", "BYE"},
           call.method = "INVITE", callee.state # "idle",
           BothPlain => Serves(side.routes) /\ \E v \in DOMAIN Phones : Plain(v) /\ At(side.target, v)
    PROVE  /\ MessageServed(InDialog(u, method, side))
           /\ MessageServed([InDialog(u, method, side) EXCEPT !.auth = auth])
<1> DEFINE d == InDialog(u, method, side)
           a == [d EXCEPT !.auth = auth]
<1>1. /\ DOMAIN d = MessageFields /\ d.type = "request" /\ d.method = method /\ d.uri = side.target
      /\ d.route = side.routes /\ d.dest = NextHop(side.routes, side.target)
  BY DEF InDialog, Request, MessageFields
<1> HIDE DEF d
<1>2. /\ a.type = "request" /\ a.method = method /\ a.uri = side.target
      /\ a.route = side.routes /\ a.dest = NextHop(side.routes, side.target)
  BY <1>1 DEF MessageFields
<1> HIDE DEF a
<1>3. ASSUME NEW x, x.type = "request", x.method = method, x.uri = side.target,
             x.route = side.routes, x.dest = NextHop(side.routes, side.target)
      PROVE  MessageServed(x)
  <2>1. BothPlain => InDialogForm(x)
    BY <1>3 DEF InDialogForm
  <2> QED BY <1>3, <2>1 DEF MessageServed, DialogServed
<1> QED BY <1>1, <1>2, <1>3 DEF a, d

LEMMA DialogByCaller ==
    ASSUME LaidOut, RoutingInv, FormInv, DialogInv, Place \/ Opened \/ Cancel \/ CallerHangsUp
    PROVE  DialogInv'
<1>1. ASSUME NEW new, wire' \subseteq wire \cup new, UNCHANGED <<call, callee, lost>>,
             caller'.state = "up" => Speaks, \A t \in new : MessageServed(t)
      PROVE  DialogInv'
  <2>1. SameCallee
    BY <1>1 DEF SameCallee
  <2> QED BY <1>1, <2>1, DialogSwap
<1>2. ASSUME NEW t, wire' \subseteq wire \cup {t}, UNCHANGED <<call, callee, lost>>,
             caller'.state = "up" => Speaks, MessageServed(t)
      PROVE  DialogInv'
  <2> DEFINE new == {t}
  <2>1. wire' \subseteq wire \cup new /\ \A x \in new : MessageServed(x)
    BY <1>2
  <2> HIDE DEF new
  <2> QED BY <1>1, <1>2, <2>1
<1>3. DOMAIN caller = {"state", "code", "tried", "cancels", "routes", "target"} /\ CallerServed
  BY DEF FormInv, CallerForm, DialogInv
<1>4. CASE Place
  <2>1. wire' \subseteq wire \cup {Opening(None)} /\ UNCHANGED <<call, callee, lost>> /\ caller'.state = "calling"
    BY <1>3, <1>4 DEF Place
  <2> DEFINE t == Opening(None)
  <2>2. MessageServed(t)
    BY OpeningServed
  <2>3. wire' \subseteq wire \cup {t}
    BY <2>1
  <2> HIDE DEF t
  <2> QED BY <1>2, <2>1, <2>2, <2>3
<1>5. CASE Cancel
  <2> DEFINE t == [Opening(None) EXCEPT !.method = "CANCEL"]
  <2>1. t.method = "CANCEL" /\ wire' \subseteq wire \cup {t} /\ UNCHANGED <<call, callee, lost>>
    BY <1>5 DEF Cancel, Opening, Request
  <2>2. caller'.state = "calling"
    BY <1>3, <1>5 DEF Cancel
  <2> HIDE DEF t
  <2>3. MessageServed(t)
    BY <2>1 DEF MessageServed
  <2> QED BY <1>2, <2>1, <2>2, <2>3
<1>6. CASE CallerHangsUp
  <2> DEFINE t == InDialog(call.ua, "BYE", caller)
  <2>1. wire' \subseteq wire \cup {t} /\ UNCHANGED <<call, callee, lost>> /\ caller.state = "up"
    BY <1>6 DEF CallerHangsUp, HangUp
  <2>2. caller'.state = "bye"
    BY <1>3, <1>6 DEF CallerHangsUp
  <2>3. /\ call.method = "INVITE" /\ callee.state # "idle"
        /\ BothPlain => Serves(caller.routes) /\ \E v \in DOMAIN Phones : Plain(v) /\ At(caller.target, v)
    BY <1>3, <2>1 DEF CallerServed, BothPlain, Plain
  <2>4. MessageServed(t)
    BY <2>3, DialogOpened
  <2> HIDE DEF t
  <2> QED BY <1>2, <2>1, <2>2, <2>4
<1>7. CASE Opened
  <2>1. PICK m \in wire :
        /\ m.type = "response" /\ m.dest = call.ua /\ m.method = call.method /\ caller.state = "calling"
        /\ IF m.code = UNAUTHORIZED /\ call.secret # None /\ ~caller.tried
           THEN /\ caller' = [caller EXCEPT !.tried = TRUE]
                /\ Replace(m, {Opening(call.secret)})
           ELSE IF m.code = OK /\ m.method = "INVITE"
           THEN LET up == [caller EXCEPT !.state = "up", !.code = OK,
                              !.routes = Reverse(m.recordRoute),
                              !.target = [user |-> call.to.user, host |-> m.contact.host,
                                          tp |-> m.contact.tp]]
                IN /\ caller' = up
                   /\ Replace(m, {[InDialog(call.ua, "ACK", up) EXCEPT !.auth =
                                      IF caller.tried THEN call.secret ELSE None]})
           ELSE /\ caller' = [caller EXCEPT !.state = "over", !.code = m.code]
                /\ Replace(m, {})
        /\ UNCHANGED <<call, callee, lost>>
    BY <1>7 DEF Opened
  <2>2. CASE m.code = UNAUTHORIZED /\ call.secret # None /\ ~caller.tried
    <3> DEFINE t == Opening(call.secret)
    <3>1. wire' \subseteq wire \cup {t} /\ caller'.state = "calling"
      BY <1>3, <2>1, <2>2 DEF Replace
    <3>2. MessageServed(t)
      BY OpeningServed
    <3> HIDE DEF t
    <3> QED BY <1>2, <2>1, <3>1, <3>2
  <2>3. CASE /\ ~(m.code = UNAUTHORIZED /\ call.secret # None /\ ~caller.tried)
             /\ ~(m.code = OK /\ m.method = "INVITE")
    <3> DEFINE none == {}
    <3>1. wire' \subseteq wire \cup none /\ caller'.state = "over" /\ \A t \in none : FALSE
      BY <1>3, <2>1, <2>3 DEF Replace
    <3> HIDE DEF none
    <3> QED BY <1>1, <2>1, <3>1
  <2>4. CASE /\ ~(m.code = UNAUTHORIZED /\ call.secret # None /\ ~caller.tried)
             /\ m.code = OK /\ m.method = "INVITE"
    <3> DEFINE up == [caller EXCEPT !.state = "up", !.code = OK,
                              !.routes = Reverse(m.recordRoute),
                              !.target = [user |-> call.to.user, host |-> m.contact.host,
                                          tp |-> m.contact.tp]]
               auth == IF caller.tried THEN call.secret ELSE None
               t == [InDialog(call.ua, "ACK", up) EXCEPT !.auth = auth]
    <3>1. caller' = up /\ Replace(m, {t})
      BY <2>1, <2>4
    <3>2. /\ up.routes = Reverse(m.recordRoute)
          /\ up.target.host = m.contact.host /\ up.target.tp = m.contact.tp
      BY <1>3
    <3>3. call.method = "INVITE" /\ callee.state # "idle"
          /\ (BothPlain => Serves(m.recordRoute) /\ At(m.contact, callee.at))
      BY <2>1, <2>4 DEF DialogInv, MessageServed, AnswerServed
    <3> HIDE DEF up
    <3>4. BothPlain => Serves(up.routes) /\ At(up.target, callee.at)
      <4>1. IsList(m.recordRoute)
        BY <2>1, <2>4 DEF FormInv, MessageForm, OpeningForm
      <4>2. Serves(m.recordRoute) => Serves(Reverse(m.recordRoute))
        BY <4>1, Reversed, ServesLess
      <4> QED BY <3>2, <3>3, <4>2 DEF At
    <3>5. MessageServed(t)
      <4>1. BothPlain => Serves(up.routes) /\ \E v \in DOMAIN Phones : Plain(v) /\ At(up.target, v)
        BY <3>4 DEF BothPlain, Plain
      <4> HIDE DEF auth
      <4> QED BY <3>3, <4>1, DialogOpened
    <3>6. Speaks
      BY <3>1, <3>3, <3>4 DEF Speaks
    <3> HIDE DEF t
    <3>7. wire' \subseteq wire \cup {t}
      BY <3>1 DEF Replace
    <3> QED BY <1>2, <2>1, <3>5, <3>6, <3>7
  <2> QED BY <2>2, <2>3, <2>4
<1> QED BY <1>4, <1>5, <1>6, <1>7

LEMMA DialogByCallee ==
    ASSUME LaidOut, RoutingInv, FormInv, DialogInv,
           PickUp \/ Cancelled \/ Acked \/ CalleeHangsUp \/ Ended
    PROVE  DialogInv'
<1>1. ASSUME NEW new, wire' \subseteq wire \cup new, UNCHANGED <<call, lost>>, SameCallee,
             caller' = caller \/ caller'.state = "over", \A t \in new : MessageServed(t)
      PROVE  DialogInv'
  <2>1. caller'.state = "up" => Speaks
    BY <1>1 DEF Speaks
  <2> QED BY <1>1, <2>1, DialogSwap
<1>2. ASSUME NEW t, wire' \subseteq wire \cup {t}, UNCHANGED <<call, lost>>, SameCallee,
             caller' = caller \/ caller'.state = "over", MessageServed(t)
      PROVE  DialogInv'
  <2> DEFINE new == {t}
  <2>1. wire' \subseteq wire \cup new /\ \A x \in new : MessageServed(x)
    BY <1>2
  <2> HIDE DEF new
  <2> QED BY <1>1, <1>2, <2>1
<1>3. DOMAIN callee = {"state", "at", "req", "routes", "target"} /\ CalleeServed
  BY DEF RoutingInv, CalleeInv, DialogInv
<1>4. ASSUME NEW s, s # "idle", s = "talking" => call.method = "INVITE",
             callee.state # "idle", callee' = [callee EXCEPT !.state = s]
      PROVE  SameCallee
  <2>1. /\ callee'.state = s /\ callee'.at = callee.at /\ callee'.req = callee.req
        /\ callee'.routes = callee.routes /\ callee'.target = callee.target
    BY <1>3, <1>4
  <2> QED BY <1>4, <2>1 DEF SameCallee
<1>5. callee' = callee => SameCallee
  BY DEF SameCallee
<1>6. CASE PickUp
  <2> DEFINE t == [Response(callee.req, OK) EXCEPT !.contact = Contact(callee.at)]
  <2>1. wire' \subseteq wire \cup {t} /\ UNCHANGED <<call, caller, lost>> /\ callee.state = "ringing"
        /\ callee' = [callee EXCEPT !.state = "up"]
    BY <1>6 DEF PickUp
  <2>2. /\ MessageOK(callee.req) /\ callee.at \in DOMAIN Phones
        /\ callee.req.method = call.method
    BY <2>1 DEF RoutingInv, CalleeInv, FormInv, CalleeForm, OpeningForm
  <2>3. /\ t.type = "response" /\ t.method = call.method /\ t.recordRoute = callee.req.recordRoute
        /\ t.contact = Contact(callee.at)
    BY <2>2 DEF Response, MessageOK, MessageFields
  <2> HIDE DEF t
  <2>4. Plain(callee.at) => At(Contact(callee.at), callee.at)
    BY DEF Plain, Contact, Self, At
  <2>5. call.method = "INVITE" => AnswerServed(t)
    BY <1>3, <2>1, <2>3, <2>4 DEF CalleeServed, AnswerServed, BothPlain
  <2>6. MessageServed(t)
    BY <2>3, <2>5 DEF MessageServed
  <2>7. SameCallee
    BY <1>4, <2>1
  <2> QED BY <1>2, <2>1, <2>6, <2>7
<1>7. CASE Cancelled
  <2> DEFINE none == {}
  <2>1. /\ wire' \subseteq wire \cup none /\ UNCHANGED <<call, caller, lost>> /\ \A t \in none : FALSE
        /\ callee' = IF callee.state = "ringing" THEN [callee EXCEPT !.state = "over"] ELSE callee
    BY <1>7 DEF Cancelled, Replace
  <2> HIDE DEF none
  <2>2. SameCallee
    BY <1>4, <1>5, <2>1
  <2> QED BY <1>1, <2>1, <2>2
<1>8. CASE Acked
  <2>1. PICK m \in wire :
        /\ m.type = "request" /\ m.method = "ACK" /\ Replace(m, {}) /\ UNCHANGED <<call, caller, lost>>
        /\ callee' = IF callee.state = "up" THEN [callee EXCEPT !.state = "talking"] ELSE callee
    BY <1>8 DEF Acked
  <2> DEFINE none == {}
  <2>2. wire' \subseteq wire \cup none /\ \A t \in none : FALSE
    BY <2>1 DEF Replace
  <2> HIDE DEF none
  <2>3. call.method = "INVITE"
    BY <2>1 DEF DialogInv, MessageServed, DialogServed
  <2>4. SameCallee
    BY <1>4, <1>5, <2>1, <2>3
  <2> QED BY <1>1, <2>1, <2>2, <2>4
<1>9. CASE CalleeHangsUp
  <2> DEFINE t == InDialog(callee.at, "BYE", callee)
  <2>1. wire' \subseteq wire \cup {t} /\ UNCHANGED <<call, caller, lost>> /\ callee.state = "talking"
        /\ callee' = [callee EXCEPT !.state = "bye"]
    BY <1>9 DEF CalleeHangsUp, HangUp
  <2>2. call.method = "INVITE"
    BY <2>1 DEF DialogInv
  <2>3. BothPlain => Serves(callee.routes) /\ \E v \in DOMAIN Phones : Plain(v) /\ At(callee.target, v)
    BY <1>3, <2>1, <2>2 DEF CalleeServed, BothPlain, Plain
  <2>4. MessageServed(t)
    BY <2>1, <2>2, <2>3, DialogOpened
  <2> HIDE DEF t
  <2>5. SameCallee
    BY <1>4, <2>1
  <2> QED BY <1>2, <2>1, <2>4, <2>5
<1>10. CASE Ended
  <2>1. PICK m \in wire :
        /\ m.method = "BYE" /\ m.dest \in DOMAIN Phones
        /\ caller' = IF m.dest = call.ua THEN [caller EXCEPT !.state = "over"] ELSE caller
        /\ callee' = IF m.dest = callee.at THEN [callee EXCEPT !.state = "over"] ELSE callee
        /\ Replace(m, IF m.type = "request" THEN {Response(m, OK)} ELSE {})
        /\ UNCHANGED <<call, lost>>
    BY <1>10 DEF Ended
  <2> DEFINE t == Response(m, OK)
  <2>2. t.type = "response" /\ t.method = "BYE"
    BY <2>1 DEF Response, RoutingInv, WireInv, MessageOK, MessageFields
  <2>3. wire' \subseteq wire \cup {t}
    BY <2>1 DEF Replace
  <2> HIDE DEF t
  <2>4. MessageServed(t)
    BY <2>2 DEF MessageServed
  <2>5. SameCallee
    <3>1. CASE m.dest = callee.at
      <4>1. callee.state # "idle"
        BY <2>1, <3>1, HostsAssumption DEF RoutingInv, CalleeInv, HostsAssumption
      <4> QED BY <1>4, <2>1, <3>1, <4>1
    <3>2. CASE m.dest # callee.at
      BY <1>5, <2>1, <3>2
    <3> QED BY <3>1, <3>2
  <2>6. caller' = caller \/ caller'.state = "over"
    <3>1. DOMAIN caller = {"state", "code", "tried", "cancels", "routes", "target"}
      BY DEF FormInv, CallerForm
    <3> QED BY <2>1, <3>1
  <2> QED BY <1>2, <2>1, <2>3, <2>4, <2>5, <2>6
<1> QED BY <1>6, <1>7, <1>8, <1>9, <1>10

\* A phone that rings takes the transports over from the INVITE.
LEMMA DialogByRing ==
    ASSUME LaidOut, RoutingInv, FormInv, DialogInv, Ring
    PROVE  DialogInv'
<1>1. PICK m \in wire :
        /\ m.type = "request" /\ m.method \in {"INVITE", "REGISTER"}
        /\ m.dest \in DOMAIN Phones /\ callee.state = "idle"
        /\ callee' = [state |-> "ringing", at |-> m.dest, req |-> m, routes |-> m.recordRoute,
                      target |-> [user |-> m.from.user, host |-> m.contact.host, tp |-> m.contact.tp]]
        /\ Replace(m, {}) /\ UNCHANGED <<call, caller, lost>>
  BY DEF Ring
<1>2. wire' \subseteq wire
  BY <1>1 DEF Replace
<1>3. MessageServed(m) /\ OpeningForm(call, m) /\ call.ua \in DOMAIN Phones
  BY <1>1, UaIsPhone DEF DialogInv, FormInv, MessageForm
<1>4. ASSUME NEW x \in wire' PROVE MessageServed(x)'
  <2>1. MessageServed(x) /\ ~AnswerServed(x) /\ ~DialogServed(x)
    BY <1>1, <1>2 DEF DialogInv, AnswerServed, DialogServed
  <2>2. /\ x.type = "request" /\ x.method = "INVITE" => InviteServed(call, x)
        /\ ~(x.type = "response" /\ x.method = "INVITE" /\ x.code = OK)
        /\ ~(x.type = "request" /\ x.method \in {"ACK", "BYE"})
    BY <2>1 DEF MessageServed
  <2> QED BY <1>1, <2>2 DEF MessageServed
<1>5. CalleeServed'
  <2> SUFFICES ASSUME call.method = "INVITE", Plain(call.ua), Plain(m.dest)
               PROVE  Serves(m.recordRoute) /\ At(callee'.target, call.ua)
    BY <1>1 DEF CalleeServed, BothPlain
  <2>1. ~IsWeb(call.ua) /\ ~IsWeb(m.dest)
    BY DEF Plain, IsWeb
  <2>2. m.method = "INVITE"
    BY <1>3 DEF OpeningForm
  <2>3. Target(call, m) = m.dest
    <3>1. m.dest \notin EdgeHosts
      BY <1>1, HostsAssumption DEF HostsAssumption
    <3> QED BY <3>1 DEF Target
  <2>4. Serves(m.recordRoute)
    BY <1>1, <1>3, <2>1, <2>2, <2>3 DEF MessageServed, InviteServed
  <2>5. m.contact = Self(call.ua)
    BY <1>1, <1>3, <2>1 DEF OpeningForm, Contact, IsWeb
  <2>6. callee'.target.host = m.contact.host /\ callee'.target.tp = m.contact.tp
    BY <1>1
  <2> QED BY <2>4, <2>5, <2>6 DEF At, Self
<1>6. caller.state # "up"
  BY <1>1 DEF DialogInv, CallerServed
<1>7. CallerServed' /\ callee'.state # "talking"
  BY <1>1, <1>6 DEF CallerServed
<1>8. \A x \in lost' : x \in {"ACK", "BYE"} => IsWeb(call'.ua) \/ IsWeb(callee'.at)
  <2>1. ~IsWeb(callee.at)
    BY <1>1, HostsAssumption DEF RoutingInv, CalleeInv, HostsAssumption, IsWeb
  <2> QED BY <1>1, <2>1 DEF DialogInv
<1> QED BY <1>4, <1>5, <1>7, <1>8 DEF DialogInv

LEMMA NextDialogs ==
    ASSUME LaidOut
    PROVE  RoutingInv /\ FormInv /\ LocForm /\ DialogInv /\ [Next]_vars => DialogInv'
<1> SUFFICES ASSUME RoutingInv, FormInv, LocForm, DialogInv, [Next]_vars PROVE DialogInv'
  OBVIOUS
<1>1. CASE Edges
  BY <1>1, DialogByRequest, DialogByNet DEF Edges
<1>2. CASE Tunnel \/ Vanish \/ (\E u \in call.phones : Register(u)) \/ Expire
  BY <1>2, DialogByNet
<1>3. CASE Place \/ Opened \/ Cancel \/ CallerHangsUp
  BY <1>3, DialogByCaller
<1>4. CASE PickUp \/ Cancelled \/ Acked \/ CalleeHangsUp \/ Ended
  BY <1>4, DialogByCallee
<1>5. CASE Ring
  BY <1>5, DialogByRing
<1>6. CASE UNCHANGED vars
  <2> DEFINE none == {}
  <2>1. /\ wire' \subseteq wire \cup none /\ UNCHANGED <<call, caller, callee, lost>> /\ \A t \in none : FALSE
        /\ SameCallee /\ (caller'.state = "up" => Speaks)
    BY <1>6 DEF vars, SameCallee, Speaks
  <2> HIDE DEF none
  <2> QED BY <2>1, DialogSwap
<1> QED BY <1>1, <1>2, <1>3, <1>4, <1>5, <1>6 DEF Next

LEMMA InitLaid == Init => LocForm /\ InviteInv /\ CancelInv /\ DialogInv
<1> SUFFICES ASSUME Init PROVE LocForm /\ InviteInv /\ CancelInv /\ DialogInv
  OBVIOUS
<1>1. /\ \A a \in Aors : loc[a] = {}
      /\ wire = {} /\ tx = [e \in EdgePorts |-> None] /\ caller.state = "idle" /\ callee.state = "idle"
      /\ lost = {} /\ registers = {}
  BY DEF Init
<1>2. LocForm
  BY <1>1 DEF LocForm
<1>3. InviteInv
  BY <1>1, FS_EmptySet DEF InviteInv, Requests
<1>4. CancelInv
  BY <1>1 DEF CancelInv, Requests
<1>5. DialogInv
  BY <1>1 DEF DialogInv, CalleeServed, CallerServed
<1> QED BY <1>2, <1>3, <1>4, <1>5

(***************************************************************************)
(* Losses: in a network laid out for its phones nothing else is lost than  *)
(* what OnlyTheseLost names, whatever the phones, the edgeports and their  *)
(* nets, the accounts and the calls are: an INVITE only while the phone    *)
(* that is called by its host registers now here, now there; an ACK or a   *)
(* BYE only of a call with a browser; a CANCEL only after a registration   *)
(* or a failed lookup; a REGISTER never.                                   *)
(***************************************************************************)
THEOREM Losses == LaidOut => (Spec => []OnlyTheseLost)
<1> SUFFICES ASSUME LaidOut PROVE Spec => []OnlyTheseLost
  OBVIOUS
<1> DEFINE Inv == RegisterInv /\ LocForm /\ InviteInv /\ CancelInv /\ DialogInv
<1>1. Init => Inv
  <2>1. Init => RegisterInv
    BY DEF Init, RegisterInv
  <2> QED BY <2>1, InitLaid
<1>2. RoutingInv /\ FormInv /\ Inv /\ [Next]_vars => Inv'
  <2> SUFFICES ASSUME RoutingInv, FormInv, Inv, [Next]_vars PROVE Inv'
    OBVIOUS
  <2>1. RegisterInv'
    BY NextRegisters DEF LaidOut
  <2>2. LocForm'
    BY LocKept
  <2>3. InviteInv'
    BY NextInvites
  <2>4. CancelInv'
    BY NextCancels
  <2>5. DialogInv'
    BY NextDialogs
  <2> QED BY <2>1, <2>2, <2>3, <2>4, <2>5
<1>3. RoutingInv /\ Inv => OnlyTheseLost
  <2> SUFFICES ASSUME RoutingInv, Inv PROVE OnlyTheseLost
    OBVIOUS
  <2>1. "REGISTER" \notin lost
    BY DEF RegisterInv
  <2>2. "INVITE" \in lost => CalledByHost /\ Cardinality(registers) > 1
    BY DEF InviteInv, Restless
  <2>3. lost \cap {"ACK", "BYE"} # {} => IsWeb(call.ua) \/ IsWeb(callee.at)
    BY DEF DialogInv
  <2>4. "CANCEL" \in lost => failed \/ registers # {}
    BY DEF CancelInv, Alone
  <2> QED BY <2>1, <2>2, <2>3, <2>4 DEF OnlyTheseLost
<1> HIDE DEF Inv
<1> QED BY <1>1, <1>2, <1>3, Forms, PTL DEF Spec
=============================================================================
