--------------------------------- MODULE Sdk ---------------------------------
(***************************************************************************)
(* The SDK (mods/sdk): a class per kind of resource, whose methods hand    *)
(* their request on to the client of the API as it is.  What a program can *)
(* ask for is therefore what the type of the request lets it say: the      *)
(* type of a creation leaves out what the server adds and what it joins,   *)
(* the type of an update leaves out besides what cannot be changed.        *)
(*                                                                         *)
(* egressPolicies and uris are the kids of a resource, and extended and    *)
(* countryIsoCode are kept by no check; they are not fields here.          *)
(***************************************************************************)
EXTENDS ResourceKinds

\* The methods of a class, and the fields that their requests carry.
Class(create, immutable) ==
    [create |-> create, update |-> create \ immutable,
     get |-> {"ref"}, delete |-> {"ref"}, list |-> {"pageSize", "pageToken"}]

Agents == Class({"name", "username", "privacy", "enabled", "maxContacts", "expires",
                 "domainRef", "credentialsRef"}, {"username"})

Peers == Class({"name", "username", "aor", "contactAddr", "enabled", "maxContacts", "expires",
                "balancingAlgorithm", "withSessionAffinity",
                "accessControlListRef", "credentialsRef"}, {"username"})

Domains == Class({"name", "domainUri", "accessControlListRef"}, {"domainUri"})

Trunks == Class({"name", "inboundUri", "sendRegister", "accessControlListRef",
                 "inboundCredentialsRef", "outboundCredentialsRef"}, {})

Numbers == Class({"name", "telUrl", "aorLink", "city", "country", "sessionAffinityHeader",
                  "extraHeaders", "trunkRef"}, {"telUrl", "city", "country"})

Credentials == Class({"name", "username", "password"}, {})

ACL == Class({"name", "allow", "deny"}, {})

APIClient == [agent |-> Agents, peer |-> Peers, domain |-> Domains, trunk |-> Trunks,
              number |-> Numbers, credentials |-> Credentials, acl |-> ACL]

\* What the types of the SDK let a program say is what the messages of the API
\* carry: neither loses a field on the way, nor offers one that is dropped.
ASSUME RequestsAreMessages ==
    \A k \in Kinds : APIClient[k].create = FieldsOf[k] /\ APIClient[k].update = Updatable[k]
=============================================================================
