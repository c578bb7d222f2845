----------------------------- MODULE CtlCommands -----------------------------
(***************************************************************************)
(* The create and update commands of ctl, as the fields they prompt for.   *)
(* A prompt whose default is found in the resource that was read offers    *)
(* that value ("keeps"); the others offer nothing, because the messages of *)
(* the API carry no *_ref field and the password is never echoed.  Answers *)
(* in "drops" never reach the request: the command rewrites the privacy    *)
(* with CT.Privacy[answer], whose keys are not the values it offers.  A    *)
(* list with no matching default offers its first choice ("first").        *)
(***************************************************************************)
EXTENDS ResourceKinds

\* As a bug could have it: the session also prompts for the username.
AgentsUpdateUsername ==
    [asks  |-> {"name", "username", "domainRef", "credentialsRef", "maxContacts", "privacy", "enabled"},
     keeps |-> {"name", "username", "maxContacts", "enabled"}, drops |-> {"privacy"}, first |-> {}]

AgentsUpdate ==
    [asks  |-> {"name", "domainRef", "credentialsRef", "maxContacts", "privacy", "enabled"},
     keeps |-> {"name", "maxContacts", "enabled"}, drops |-> {"privacy"}, first |-> {}]

\* As a bug could have it: the prompt for the AOR does not offer the old one.
PeersUpdateBlank ==
    [asks  |-> {"name", "aor", "contactAddr", "maxContacts", "accessControlListRef",
                "credentialsRef", "withSessionAffinity", "balancingAlgorithm", "enabled"},
     keeps |-> {"name", "contactAddr", "maxContacts", "withSessionAffinity",
                "balancingAlgorithm", "enabled"},
     drops |-> {}, first |-> {"balancingAlgorithm"}]

PeersUpdate ==
    [asks  |-> {"name", "aor", "contactAddr", "maxContacts", "accessControlListRef",
                "credentialsRef", "withSessionAffinity", "balancingAlgorithm", "enabled"},
     keeps |-> {"name", "aor", "contactAddr", "maxContacts", "withSessionAffinity",
                "balancingAlgorithm", "enabled"},
     drops |-> {}, first |-> {"balancingAlgorithm"}]

DomainsUpdate ==
    [asks  |-> {"name", "accessControlListRef"}, keeps |-> {"name"}, drops |-> {}, first |-> {}]

TrunksUpdate ==
    [asks  |-> {"name", "inboundUri", "accessControlListRef", "inboundCredentialsRef",
                "outboundCredentialsRef", "sendRegister"},
     keeps |-> {"name", "inboundUri", "sendRegister"}, drops |-> {}, first |-> {}]

NumbersUpdate ==
    [asks  |-> {"name", "aorLink", "trunkRef", "sessionAffinityHeader", "extraHeaders"},
     keeps |-> {"name", "aorLink", "sessionAffinityHeader", "extraHeaders"},
     drops |-> {}, first |-> {}]

CredentialsUpdate ==
    [asks  |-> {"name", "username", "password"}, keeps |-> {"name", "username"},
     drops |-> {}, first |-> {}]

AclUpdate ==
    [asks  |-> {"name", "deny", "allow"}, keeps |-> {"name", "deny", "allow"},
     drops |-> {}, first |-> {}]

UpdateCommand ==
    [agent |-> AgentsUpdate, peer |-> PeersUpdate, domain |-> DomainsUpdate,
     trunk |-> TrunksUpdate, number |-> NumbersUpdate,
     credentials |-> CredentialsUpdate, acl |-> AclUpdate]

\* What a prompt accepts: its validator makes the check of common that the
\* server makes too, and for these fields asks for a value.
Required       == {"name", "username", "aor", "inboundUri", "domainUri", "allow", "deny"}
validate(f, v) == isValid(f, v) /\ (f \in Required => v # None)

\* The answers that leave the request without the field: the choice "None" of
\* a list of references is undefined, and an empty list is not on the wire.
Unsent(k, f, v) == v = None /\ (f \in Links[k] \/ f = "extraHeaders")

\* What a prompt the user only confirms answers.
Offered(k, f, seen) ==
    LET U == UpdateCommand[k]
    IN  IF f \in U.first /\ seen[f] = None THEN "good"
        ELSE IF f \in U.keeps THEN seen[f] ELSE None

\* The request of an update command: chosen are the answers the user gave,
\* seen the fields that were read.
UpdateAnswers(k, chosen, seen) ==
    LET U         == UpdateCommand[k]
        answer(f) == IF f \in DOMAIN chosen THEN chosen[f] ELSE Offered(k, f, seen)
    IN  [f \in {g \in U.asks \ U.drops : ~Unsent(k, g, answer(g))} |-> answer(f)]

-----------------------------------------------------------------------------
(***************************************************************************)
(* The fields the create commands ask for.                                 *)
(***************************************************************************)
AgentsCreate      == {"name", "domainRef", "username", "credentialsRef", "maxContacts", "enabled"}
PeersCreate       == {"name", "username", "aor", "contactAddr", "maxContacts", "accessControlListRef",
                      "credentialsRef", "withSessionAffinity", "balancingAlgorithm", "enabled"}
DomainsCreate     == {"name", "domainUri", "accessControlListRef"}
TrunksCreate      == {"name", "inboundUri", "accessControlListRef", "inboundCredentialsRef",
                      "outboundCredentialsRef", "sendRegister"}
NumbersCreate     == {"name", "telUrl", "aorLink", "trunkRef", "city", "country",
                      "sessionAffinityHeader", "extraHeaders"}
CredentialsCreate == {"name", "username", "password"}
AclCreate         == {"name", "deny", "allow"}

CreateCommand ==
    [agent |-> AgentsCreate, peer |-> PeersCreate, domain |-> DomainsCreate,
     trunk |-> TrunksCreate, number |-> NumbersCreate,
     credentials |-> CredentialsCreate, acl |-> AclCreate]

=============================================================================
