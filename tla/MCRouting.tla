----------------------------- MODULE MCRouting -----------------------------
(* A small network: three edgeports, all but the first with WebSockets.    *)
EXTENDS Routing

MCLocalnet ==
    "E1" :> ("pbx" :> "e1.lan" @@ "e1.lan" :> "e1.lan" @@ "e2.lan" :> "e1.lan" @@ "requester" :> "e1.lan")
 @@ "E2" :> ("pbx" :> "e2.lan" @@ "e1.lan" :> "e2.lan" @@ "e2.lan" :> "e2.lan")
 @@ "E3" :> <<>>

MCExternalAddrs == "E1" :> <<"e1.net">> @@ "E2" :> <<"e2.net">> @@ "E3" :> <<"e3.net">>

MCListeningOn == "E1" :> {"UDP"} @@ "E2" :> {"UDP", "WS"} @@ "E3" :> {"UDP", "WS"}

Phone(tp, edges, web) == [tp |-> tp, edges |-> edges, web |-> web]

MCPhones ==
    "alice" :> Phone("UDP", {"E1"}, FALSE) @@ "bob" :> Phone("UDP", {"E1", "E3"}, FALSE)
 @@ "wendy" :> Phone("WS", {"E2"}, TRUE) @@ "pbx" :> Phone("UDP", {"E1", "E2"}, FALSE)
 @@ "carrier" :> Phone("UDP", {}, FALSE) @@ "requester" :> Phone("UDP", {}, FALSE)

MCAgents == [u \in {"1001", "1002", "1003"} |-> [domain |-> "local", secret |-> "s" \o u]]

Backend == [user |-> "backend", host |-> "aor"]

MCPeers == "asterisk" :> [aor |-> Backend, secret |-> "speer"]

MCNumbers == "+1700" :> [aorLink |-> Backend, trunk |-> "T1", headers |-> {"x-room-id"}]

MCTrunks == "T1" :> [inbound |-> "in.routr", allow |-> {"carrier"}, secret |-> None, uri |-> "carrier",
                     sendRegister |-> TRUE]

MCEgress == "local" :> ("+1800" :> "+1700" @@ "1002" :> "+1700")

Guest == [user |-> "guest", host |-> "local"]

MCTokens == "jwt" :> [domain |-> "local", aor |-> Guest, aorLink |-> Backend, allows |-> {"INVITE", "REGISTER"}]

Address(user, host) == [user |-> user, host |-> host]

Account(user, host, secret) == [user |-> user, host |-> host, secret |-> secret, token |-> None]

MCAccounts ==
    "bob" :> Account("1002", "local", "s1002") @@ "wendy" :> Account("1003", "local", "s1003")
 @@ "pbx" :> Account("asterisk", "pbx", "speer")

Open(ua, edge, from, to, secret, phones) ==
    [ua |-> ua, edge |-> edge, method |-> "INVITE", from |-> from, to |-> to, token |-> None,
     ext |-> {}, route |-> FALSE, secret |-> secret, phones |-> phones]

Alice(to, phones) == Open("alice", "E1", Address("1001", "local"), to, "s1001", phones)
Wendy(to, phones) == Open("wendy", "E2", Address("1003", "local"), to, "s1003", phones)
Pbx(to, phones) == Open("pbx", "E2", Address("asterisk", "pbx"), to, "speer", phones)
Bob == Address("1002", "local")

MCCalls ==
  { Alice(Bob, {"bob"}), Alice(Address("1003", "local"), {"wendy"}), Wendy(Bob, {"bob"}),
    [Alice(Bob, {"bob"}) EXCEPT !.secret = "guess"], [Alice(Bob, {"bob"}) EXCEPT !.route = TRUE],
    [Alice(Address("1003", "local"), {"wendy"}) EXCEPT !.edge = "E2"],
    Wendy(Address("asterisk", "local"), {"pbx"}),
    Alice(Address("asterisk", "local"), {"pbx"}), Alice(Address("+1800", "local"), {}),
    [Alice(Backend, {"pbx"}) EXCEPT !.token = "jwt"],
    Open("carrier", "E1", Address("+1900", "carrier"), Address("+1700", "in.routr"), None, {"pbx"}),
    Open("carrier", "E1", Address("+1900", "carrier"), Address("+1700", "other"), None, {"pbx"}),
    Pbx(Bob, {"bob"}), [Pbx(Address("+1800", "pbx"), {}) EXCEPT !.ext = {"x-dod-number"}],
    Open("alice", "E1", Address("9999", "local"), Bob, None, {"bob"}),
    [Alice(Address("asterisk", "pbx"), {"pbx"}) EXCEPT !.route = TRUE] }
=============================================================================
