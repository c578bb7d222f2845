---------------------------- MODULE ResourceKinds ----------------------------
(***************************************************************************)
(* The seven kinds of resource that Routr is configured with, and what     *)
(* each layer between an operator and the database does to a request: the  *)
(* prompts of ctl, the checks of common and the managers of pgdata.        *)
(*                                                                         *)
(* A value is abstract: None is the default of the schema (null, false, 0, *)
(* the algorithm that nobody chose), "good" another value that the checks  *)
(* accept, "bad" one that they refuse, "badPort" an address whose port     *)
(* alone is wrong.  A link holds the reference of another resource or None.*)
(* A request is a function on the fields that it carries.                  *)
(***************************************************************************)
EXTENDS Naturals, FiniteSets

CONSTANTS
    Refs,     \* the references (uuid) that may ever be given out
    KindOf,   \* the kind of the resource that gets a reference
    Uris,     \* the outbound SIP URIs a Trunk may be given
    None,     \* the default of a field
    Absent    \* no such row

Kinds == {"agent", "peer", "domain", "trunk", "number", "credentials", "acl"}

ASSUME KindOfType == KindOf \in [Refs -> Kinds]
ASSUME UrisAreNotRefs == Uris \cap Refs = {}
ASSUME MarksAreNotValues ==
    /\ Absent \notin Refs \cup Uris \cup {None, "good", "bad", "badPort"}
    /\ None \notin Refs \cup Uris \cup {"good", "bad", "badPort"}

Marks  == {"good", "bad", "badPort"}
Values == Refs \cup Marks \cup {None}

-----------------------------------------------------------------------------
(***************************************************************************)
(* The managers.  need: what a creation must carry; check and recheck:     *)
(* what is looked at in a creation and in an update when it is there;      *)
(* links: the fields with a foreign key, and the kind they lead to; plain: *)
(* the other fields that an update may carry; fixed: the ones only a       *)
(* creation carries; resets: the fields that mapToPrisma writes even when  *)
(* the request does not carry them (x || null, x || 0, x ?? NONE).         *)
(***************************************************************************)

AgentManager ==
    [need |-> {"name", "username"}, check |-> {"name", "username"},
     recheck |-> {"name"},
     links |-> [domainRef |-> "domain", credentialsRef |-> "credentials"],
     plain |-> {"name", "privacy", "enabled", "maxContacts", "expires"},
     fixed |-> {"username"},
     resets |-> {"domainRef", "credentialsRef", "privacy", "expires"}]

\* As a bug could have it: an update of a Peer does not check its AOR.
PeerManagerTrusting ==
    [need |-> {"name", "username", "aor"},
     check |-> {"name", "username", "aor", "contactAddr"},
     recheck |-> {"name", "contactAddr"},
     links |-> [accessControlListRef |-> "acl", credentialsRef |-> "credentials"],
     plain |-> {"name", "aor", "contactAddr", "withSessionAffinity", "balancingAlgorithm",
                "enabled", "maxContacts", "expires"},
     fixed |-> {"username"},
     resets |-> {"accessControlListRef", "credentialsRef", "expires"}]

PeerManager ==
    [need |-> {"name", "username", "aor"},
     check |-> {"name", "username", "aor", "contactAddr"},
     recheck |-> {"name", "aor", "contactAddr"},
     links |-> [accessControlListRef |-> "acl", credentialsRef |-> "credentials"],
     plain |-> {"name", "aor", "contactAddr", "withSessionAffinity", "balancingAlgorithm",
                "enabled", "maxContacts", "expires"},
     fixed |-> {"username"},
     resets |-> {"accessControlListRef", "credentialsRef", "expires"}]

DomainManager ==
    [need |-> {"name", "domainUri"}, check |-> {"name", "domainUri"},
     recheck |-> {"name"},
     links |-> [accessControlListRef |-> "acl"],
     plain |-> {"name"}, fixed |-> {"domainUri"},
     resets |-> {"accessControlListRef"}]

TrunkManager ==
    [need |-> {"name", "inboundUri"}, check |-> {"name", "inboundUri", "uris"},
     recheck |-> {"name", "inboundUri"},
     links |-> [accessControlListRef |-> "acl", inboundCredentialsRef |-> "credentials",
                outboundCredentialsRef |-> "credentials"],
     plain |-> {"name", "inboundUri", "sendRegister"}, fixed |-> {},
     resets |-> {"accessControlListRef", "inboundCredentialsRef", "outboundCredentialsRef"}]

NumberManager ==
    [need |-> {"name", "telUrl", "city", "country"},
     check |-> {"name", "telUrl", "aorLink", "extraHeaders", "sessionAffinityHeader"},
     recheck |-> {"name", "aorLink", "extraHeaders", "sessionAffinityHeader"},
     links |-> [trunkRef |-> "trunk"],
     plain |-> {"name", "aorLink", "sessionAffinityHeader", "extraHeaders"},
     fixed |-> {"telUrl", "city", "country"},
     resets |-> {}]

CredentialsManager ==
    [need |-> {"name", "username", "password"}, check |-> {"name", "username"},
     recheck |-> {"name", "username"},
     links |-> [f \in {} |-> "none"],
     plain |-> {"name", "username", "password"}, fixed |-> {}, resets |-> {}]

ACLManager ==
    [need |-> {"name", "allow", "deny"}, check |-> {"name", "allow", "deny"},
     recheck |-> {"name", "allow", "deny"},
     links |-> [f \in {} |-> "none"],
     plain |-> {"name", "allow", "deny"}, fixed |-> {}, resets |-> {}]

getManager ==
    [agent |-> AgentManager, peer |-> PeerManager, domain |-> DomainManager,
     trunk |-> TrunkManager, number |-> NumberManager,
     credentials |-> CredentialsManager, acl |-> ACLManager]

Links     == [k \in Kinds |-> DOMAIN getManager[k].links]
Updatable == [k \in Kinds |-> Links[k] \cup getManager[k].plain]
FieldsOf  == [k \in Kinds |-> Updatable[k] \cup getManager[k].fixed]
Fields    == UNION {FieldsOf[k] : k \in Kinds}

\* What a row keeps beside its fields: the URIs of a Trunk, and the numbers of
\* the egress policies of a Domain.
KidsOf    == [k \in Kinds |-> CASE k = "trunk"  -> Uris
                                 [] k = "domain" -> {n \in Refs : KindOf[n] = "number"}
                                 [] OTHER        -> {}]

Rows(k) == [fields : [FieldsOf[k] -> Values], kids : [KidsOf[k] -> Nat]]
ASSUME AbsentIsNoRow == \A k \in Kinds : Absent \notin Rows(k)

\* The messages of a creation and of an update.
IsCreation(k, q) == DOMAIN q \subseteq FieldsOf[k]  /\ q \in [DOMAIN q -> Values]
IsUpdate(k, q)   == DOMAIN q \subseteq Updatable[k] /\ q \in [DOMAIN q -> Values]

Value(q, f)      == IF f \in DOMAIN q THEN q[f] ELSE None

-----------------------------------------------------------------------------
(***************************************************************************)
(* The checks of common.  A check refuses a value that is there and wrong; *)
(* isValidContactAddress takes the port from the part before the colon, so *)
(* it always looks at 5060.  The URIs of a Trunk are a flaw of their own:  *)
(* "bad" is an error of the host, the port or the priority; "badWeight" a  *)
(* weight out of range (or absent) beside a good priority, for which the   *)
(* code throws the result of isValidPriority, that is, undefined.          *)
(***************************************************************************)
Flaws == {"none", "bad", "badWeight"}

isValidText(v)           == v \notin {"bad", "badPort"}
isValidContactAddress(v) == v # "bad"

isValid(f, v) ==
    IF f = "contactAddr" THEN isValidContactAddress(v) ELSE isValidText(v)

hasValidOutboundUrisOrThrow(flaw) ==
    CASE flaw = "bad" -> "BAD_REQUEST" [] flaw = "badWeight" -> "undefined" [] OTHER -> "OK"

validOrThrowCreate(k, req, flaw) ==
    LET M == getManager[k]
    IN  IF \/ \E f \in M.need : Value(req, f) = None
           \/ \E f \in M.check \ {"uris"} : ~isValid(f, Value(req, f))
        THEN "BAD_REQUEST"
        ELSE IF "uris" \in M.check THEN hasValidOutboundUrisOrThrow(flaw) ELSE "OK"

\* A name is required although only isValidNameOrThrow is called: the length
\* of undefined is a TypeError of the library, which update answers as UNKNOWN.
validOrThrowUpdate(k, req) ==
    IF "name" \notin DOMAIN req THEN "UNKNOWN"
    ELSE IF \/ req["name"] = None
            \/ \E f \in getManager[k].recheck : ~isValid(f, Value(req, f))
    THEN "BAD_REQUEST"
    ELSE "OK"

-----------------------------------------------------------------------------
(***************************************************************************)
(* mapToPrisma: what a request leaves in the fields of a row.              *)
(***************************************************************************)
mapToPrisma(k, old, req) ==
    [f \in FieldsOf[k] |->
        IF f \in DOMAIN req THEN req[f]
        ELSE IF f \in getManager[k].resets THEN None
        ELSE old[f]]

NoFields(k) == [f \in FieldsOf[k] |-> None]
NoKids(k)   == [x \in KidsOf[k] |-> 0]

\* egressPolicies: {create: ...} and uris: {create: ...} add to what is there.
WithKids(kids, new) == [x \in DOMAIN kids |-> kids[x] + (IF x \in new THEN 1 ELSE 0)]

=============================================================================
