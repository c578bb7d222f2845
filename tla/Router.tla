------------------------------- MODULE Router -------------------------------
(***************************************************************************)
(* The Connect processor (mods/connect): who calls whom, may they, where   *)
(* to, and the handlers that turn a message into what the edgeport sends.  *)
(*                                                                         *)
(* The resources are constants here (Resources models how they change).    *)
(* A lookup of a resource can fail with an error other than NOT_FOUND; the *)
(* code swallows it, so `deaf` says which of the lookups fail: a subset of *)
(* {"caller", "callee"}.  `pick[aor]` is the first of the routes Location  *)
(* returns, None when there is none.                                       *)
(***************************************************************************)
EXTENDS Alterations

CONSTANTS
    Agents,     \* username -> [domain, secret]
    Peers,      \* username -> [aor, secret]
    Numbers,    \* telephone number -> [aorLink, trunk, headers]
    Trunks,     \* ref -> [inbound, allow, secret, uri, sendRegister]; allow = None: no access
                \* control list
    Egress,     \* the domains: uri -> (dialled user -> number), the policies that match
    Tokens,     \* connect token -> [domain, aor, aorLink, allows]
    Dod         \* the number a peer asks for in X-DOD-Number

Nobody == [kind |-> "UNKNOWN", user |-> None]
Anonymous == [kind |-> "AGENT", user |-> None]

\* The resources of a table with a value in a field.
findBy(table, field, value) == {ref \in DOMAIN table : table[ref][field] = value}

findDomain(uri) == IF uri \in DOMAIN Egress THEN uri ELSE None

findNumberByTelUrl(user) == user \in DOMAIN Numbers

\* A username of an Agent in another domain ends the search; an error that is
\* not NOT_FOUND looks like a resource that does not exist.
findResource(host, user, fails) ==
    CASE fails -> Nobody
      [] ~fails /\ findNumberByTelUrl(user) -> [kind |-> "NUMBER", user |-> user]
      [] ~fails /\ user \in DOMAIN Agents ->
            IF Agents[user].domain = findDomain(host) THEN [kind |-> "AGENT", user |-> user] ELSE Nobody
      [] ~fails /\ user \in DOMAIN Peers -> [kind |-> "PEER", user |-> user]
      [] OTHER -> Nobody

SecretOf(res) ==
    CASE res.kind = "AGENT" /\ res.user \in DOMAIN Agents -> Agents[res.user].secret
      [] res.kind = "PEER" -> Peers[res.user].secret
      [] OTHER -> None

\* As a bug could have it: a call of an Agent to what is not a Peer is a call out.
directionByCaller(caller, callee) ==
    CASE caller.kind = "AGENT" /\ callee.kind = "PEER" -> "AGENT_TO_PEER"
      [] caller.kind = "AGENT" /\ callee.kind # "PEER" -> "AGENT_TO_PSTN"
      [] caller.kind = "PEER"  /\ callee.kind = "AGENT" -> "PEER_TO_AGENT"
      [] callee.kind = "NUMBER" -> "FROM_PSTN"
      [] OTHER -> "UNKNOWN"

getRoutingDirection(caller, callee) ==
    CASE caller.kind = "AGENT" /\ callee.kind = "AGENT"   -> "AGENT_TO_AGENT"
      [] caller.kind = "AGENT" /\ callee.kind = "UNKNOWN" -> "AGENT_TO_PSTN"
      [] caller.kind = "PEER"  /\ callee.kind = "AGENT"   -> "PEER_TO_AGENT"
      [] caller.kind = "AGENT" /\ callee.kind = "PEER"    -> "AGENT_TO_PEER"
      [] callee.kind = "NUMBER"                           -> "FROM_PSTN"
      [] caller.kind = "PEER"  /\ callee.kind = "UNKNOWN" -> "PEER_TO_PSTN"
      [] OTHER -> "UNKNOWN"

-----------------------------------------------------------------------------
(* Access: None when nothing is wrong, else the answer *)

Challenge(req, secret) ==
    IF req.auth # None /\ req.auth = secret THEN None ELSE UNAUTHORIZED

checkAgentOrPeerAccess(req, caller) == Challenge(req, SecretOf(caller))

checkAccessFromPSTN(req, callee) ==
    LET trunk == findBy(Trunks, "inbound", req.uri.host)
        t == CHOOSE t \in trunk : TRUE
    IN CASE trunk = {} -> FORBIDDEN
         [] trunk # {} /\ Numbers[callee.user].trunk # t -> FORBIDDEN
         [] OTHER ->
              IF Trunks[t].allow # None /\ Sender(req).host \notin Trunks[t].allow THEN UNCHALLENGED
              ELSE IF Trunks[t].secret # None THEN Challenge(req, Trunks[t].secret)
              ELSE None

\* As a bug could have it: an Agent that calls out is not checked.
checkMostAccess(req, caller, callee, direction) ==
    CASE direction \in {"PEER_TO_PSTN", "AGENT_TO_AGENT"} -> checkAgentOrPeerAccess(req, caller)
      [] direction = "FROM_PSTN" -> checkAccessFromPSTN(req, callee)
      [] direction = "UNKNOWN" -> FORBIDDEN
      [] OTHER -> None

\* AGENT_TO_PEER and PEER_TO_AGENT have no case: they pass.
checkAccess(req, caller, callee, direction) ==
    CASE direction \in {"PEER_TO_PSTN", "AGENT_TO_AGENT", "AGENT_TO_PSTN"} ->
            checkAgentOrPeerAccess(req, caller)
      [] direction = "FROM_PSTN" -> checkAccessFromPSTN(req, callee)
      [] direction = "UNKNOWN" -> FORBIDDEN
      [] OTHER -> None

-----------------------------------------------------------------------------
(* Routes: None when Location has none, Broken when the code throws *)

Broken == [edge |-> None]

\* The first of the URIs; without a transport it is UDP.
getTrunkURI(trunk) ==
    IF trunk = None \/ Trunks[trunk].uri = None THEN Broken
    ELSE [host |-> Trunks[trunk].uri, tp |-> "UDP"]

createRemotePartyId == "remote-party-id"
createPAssertedIdentity == "p-asserted-identity"
createTrunkAuthentication == "x-gateway-auth"

\* A call to the PSTN leaves through the edgeport it came from.
TrunkRoute(req, number) ==
    LET uri == IF number \in DOMAIN Numbers THEN getTrunkURI(Numbers[number].trunk) ELSE Broken
    IN IF uri = Broken THEN Broken
       ELSE [edge |-> req.edge, host |-> uri.host, tp |-> uri.tp, advertised |-> Sender(req).host,
             headers |-> {"privacy", createRemotePartyId, createPAssertedIdentity,
                          createTrunkAuthentication},
             removes |-> {"privacy"}]

agentToAgent(req, pick) == pick[getTargetAOR(req)]

agentToPeer(callee, pick) == pick[Peers[callee.user].aor]

fromPSTN(callee, pick) ==
    LET route == pick[Numbers[callee.user].aorLink]
    IN IF route = None THEN None
       ELSE [route EXCEPT !.headers = @ \cup Numbers[callee.user].headers]

\* The domain of an Agent comes with its policies or without any.
agentToPSTN(req, domain) ==
    IF domain \in DOMAIN Egress /\ req.uri.user \in DOMAIN Egress[domain]
    THEN TrunkRoute(req, Egress[domain][req.uri.user]) ELSE Broken

peerToPSTN(req) ==
    TrunkRoute(req, IF getHeaderValue(req, "x-dod-number") THEN Dod ELSE None)

\* The caller and the callee a request stands for.
CallerOf(req, deaf) ==
    IF req.token # None THEN Anonymous
    ELSE findResource(req.from.host, req.from.user, "caller" \in deaf)

CalleeOf(req, deaf) ==
    IF req.token # None
    THEN LET peer == findBy(Peers, "aor", Tokens[req.token].aorLink)
         IN IF peer = {} THEN Anonymous
            ELSE [kind |-> "PEER", user |-> CHOOSE p \in peer : TRUE]
    ELSE findResource(req.uri.host, req.uri.user, "callee" \in deaf)

router(req, pick, deaf) ==
    LET caller == CallerOf(req, deaf)
        callee == CalleeOf(req, deaf)
        direction == getRoutingDirection(caller, callee)
        denied == IF req.token # None
                  THEN IF "INVITE" \in Tokens[req.token].allows THEN None ELSE FORBIDDEN
                  ELSE IF req.method = "INVITE"
                  THEN checkAccess(req, caller, callee, direction) ELSE None
        domain == IF req.token # None THEN Tokens[req.token].domain ELSE Agents[caller.user].domain
        route == CASE direction = "AGENT_TO_AGENT" -> agentToAgent(req, pick)
                   [] direction = "AGENT_TO_PEER" -> agentToPeer(callee, pick)
                   [] direction = "AGENT_TO_PSTN" -> agentToPSTN(req, domain)
                   [] direction = "FROM_PSTN"     -> fromPSTN(callee, pick)
                   [] direction = "PEER_TO_PSTN"  -> peerToPSTN(req)
                   [] OTHER -> Broken
    IN CASE denied # None -> Answer(denied)
         [] denied = None /\ route = None -> Answer(TEMPORARILY_UNAVAILABLE)
         [] denied = None /\ route = Broken -> Answer(SERVER_INTERNAL_ERROR)
         [] OTHER -> [type |-> "route", direction |-> direction,
                      route |-> [route EXCEPT !.headers = @ \cup {"x-call-direction"}]]

-----------------------------------------------------------------------------
(* Handlers *)

\* The headers and the edgeport of a route do not travel with the request.
createRouteFromLastMessage(req) ==
    [edge |-> req.edge, host |-> req.uri.host, tp |-> req.uri.tp,
     advertised |-> Sender(req).host, headers |-> {}, removes |-> {}]

\* As a bug could have it: the route does not say which edgeport has it.
createRouteNowhere(req) ==
    [edge |-> None, host |-> Sender(req).host, tp |-> Sender(req).tp,
     advertised |-> Sender(req).host, headers |-> {}, removes |-> {}]

createRoute(req) ==
    [edge |-> req.edge, host |-> Sender(req).host, tp |-> Sender(req).tp,
     advertised |-> Sender(req).host, headers |-> {}, removes |-> {}]

tailor(route, r0) ==
    LET r1 == removeXEdgePortRef(removeSelfRoutes(removeAuthorization(decreaseMaxForwards(r0))))
        r2 == addSelfVia(route, fixRequestURI(route, fixInvalidContact(r1)))
    IN addRouteToNextHop(route, addSelfRecordRoute(route, Sender(r0), applyXHeaders(route, r2)))

\* As a bug could have it: the headers of the route are applied twice.
toPeerWithHeaders(route, r0) ==
    LET r1 == addSelfRecordRoute(route, Sender(r0), addSelfVia(route, applyXHeaders(route, r0)))
        r2 == addRouteToNextHop(route, addRouteToPeerEdgePort(route, r1))
    IN decreaseMaxForwards(addXEdgePortRef(r2))

toPeerEdgePort(route, r0) ==
    LET r1 == addSelfRecordRoute(route, Sender(r0), addSelfVia(route, r0))
        r2 == addRouteToNextHop(route, addRouteToPeerEdgePort(route, r1))
    IN decreaseMaxForwards(addXEdgePortRef(r2))

\* As a bug could have it: the edgeport of the route is not looked at.
ForwardHere(req, route) ==
    IF Throws(req.edge, [host |-> route.host, tp |-> route.tp]) \/ ThrowsOnRoutes(req)
    THEN Answer(SERVER_INTERNAL_ERROR) ELSE Send(tailor(route, req))

\* What throws inside the try of handleRequest is answered 500.
Forward(req, route) ==
    LET end == [host |-> route.host, tp |-> route.tp]
        adv == [host |-> route.advertised, tp |-> route.tp]
        e == req.edge
    IN IF Throws(e, end) \/ Throws(e, adv) \/ Throws(e, Sender(req))
          \/ (route.edge # e /\ Throws(route.edge, end))
          \/ (route.edge = e /\ ThrowsOnRoutes(req))
       THEN Answer(SERVER_INTERNAL_ERROR)
       ELSE Send(IF route.edge # e THEN toPeerEdgePort(route, req) ELSE tailor(route, req))

handleRequest(req, pick, deaf) ==
    IF getHeaderValue(req, "x-edgeport-ref")
    THEN Forward(req, createRouteFromLastMessage(req))
    ELSE LET result == router(req, pick, deaf)
         IN IF result.type = "response" THEN result ELSE Forward(req, result.route)

\* A registration of a trunk, sent by the Requester through this edgeport.  It
\* is guarded no more than a BYE is.
handleRegistry(req) ==
    LET r1 == decreaseMaxForwards(addSelfVia(createRouteFromLastMessage(req), req))
    IN IF Throws(req.edge, req.uri) \/ ThrowsOnRoutes(req) THEN [type |-> "crash"]
       ELSE Send(removeXEdgePortRef(removeSelfRoutes(removeAuthorization(r1))))

\* The AOR of a Peer is its own, that of an Agent the address it registers.
handleRegister(req, deaf) ==
    LET res == findResource(req.from.host, req.from.user, "caller" \in deaf)
    IN CASE req.auth # None /\ res = Nobody -> Answer(FORBIDDEN)
         [] req.auth # None /\ res # Nobody /\ Challenge(req, SecretOf(res)) # None ->
              Answer(UNAUTHORIZED)
         [] req.auth # None /\ res # Nobody /\ Challenge(req, SecretOf(res)) = None ->
              [type |-> "addRoute", route |-> createRoute(req),
               aor |-> IF res.kind = "PEER" THEN Peers[res.user].aor ELSE getTargetAOR(req)]
         [] req.auth = None /\ req.token # None ->
              IF "REGISTER" \in Tokens[req.token].allows
              THEN [type |-> "addRoute", route |-> createRoute(req), aor |-> Tokens[req.token].aor]
              ELSE Answer(FORBIDDEN)
         [] OTHER -> Answer(UNAUTHORIZED)

\* As a bug could have it: the Route of this edgeport stays.
handleInDialogKeepsRoutes(req) ==
    IF Throws(req.edge, req.uri) THEN [type |-> "crash"]
    ELSE Send(addSelfViaUsingExternalAddrs(decreaseMaxForwards(req)))

\* BYE and ACK are not guarded: what throws there is an unhandled rejection,
\* which ends the process and leaves the edgeport without an answer.
handleInDialog(req) ==
    IF Throws(req.edge, req.uri) \/ ThrowsOnRoutes(req) THEN [type |-> "crash"]
    ELSE Send(removeSelfRoutes(addSelfViaUsingExternalAddrs(decreaseMaxForwards(req))))

connectProcessor(req, pick, deaf) ==
    CASE req.method \in {"PUBLISH", "NOTIFY", "SUBSCRIBE", "MESSAGE"} -> Answer(METHOD_NOT_ALLOWED)
      [] req.method = "REGISTER" ->
            IF getHeaderValue(req, "x-gateway-auth") THEN handleRegistry(req)
            ELSE handleRegister(req, deaf)
      [] req.method \in {"BYE", "ACK"} -> handleInDialog(req)
      [] OTHER -> handleRequest(req, pick, deaf)
=============================================================================
