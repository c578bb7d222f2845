------------------------------ MODULE Resources ------------------------------
(***************************************************************************)
(* The data API server on PostgreSQL (pgdata) and the programs that use    *)
(* it: calls of the SDK, sessions of ctl (read, prompt, submit) and a walk *)
(* of ctl's paginated list.                                                *)
(*                                                                         *)
(* Every query of a handler is one step of the database.  A creation is    *)
(* one query; an update is two when it brings URIs, the deletion of the    *)
(* old ones and the update of the row, with no transaction around them, so *)
(* the steps of two updates interleave and a failure or a restart of the   *)
(* server may fall in between.                                             *)
(***************************************************************************)
EXTENDS CtlCommands, Sdk

CONSTANTS
    Clients,         \* the programs that call the API
    Birth,           \* the resources there are at the start, in the order of their creation
    BadUris,         \* URIs that the check refuses
    WeightlessUris,  \* URIs with a good priority and a weight out of range
    PageSize,        \* the page of a walk (flags.size)
    Walked,          \* the kinds whose list is walked
    MaxOps           \* bound on the operations of all clients together

ASSUME ResourcesAssumption ==
    /\ IsFiniteSet(Refs)
    /\ Birth \in [Refs -> Nat]
    /\ \A r, s \in Refs : Birth[r] = Birth[s] /\ Birth[r] # 0 => r = s
    /\ \A r \in Refs : Birth[r] <= Cardinality({s \in Refs : Birth[s] # 0})
    /\ BadUris \cup WeightlessUris \subseteq Uris
    /\ PageSize \in Nat \ {0}
    /\ Walked \subseteq Kinds
    /\ MaxOps \in Nat

VARIABLES
    db,      \* the rows: a function from references to rows
    born,    \* when each reference was created (createdAt), 0 for not yet
    pc,      \* where the call or session of each client stands
    call,    \* its request: [ref, req, new]
    prompt,  \* what a session of ctl read and what its user chose
    walk,    \* the walk through a list
    ops,     \* operations begun
    asked,   \* the kids each resource should have, by the accepted requests
    torn     \* Trunks whose URIs an update that failed or overlapped has touched

vars == <<db, born, pc, call, prompt, walk, ops, asked, torn>>

Exists(r)  == db[r] # Absent
Existing   == {r \in Refs : Exists(r)}
NoAnswers  == [f \in {} |-> None]
NoCall     == [ref |-> None, req |-> NoAnswers, new |-> {}]
NoPrompt   == [seen |-> NoAnswers, chosen |-> NoAnswers, offered |-> {}]
Flaw(new)  == IF new \cap BadUris # {} THEN "bad"
              ELSE IF new \cap WeightlessUris # {} THEN "badWeight" ELSE "none"

\* Clients whose update of r has deleted its URIs and not yet written new ones.
Replacing(r) == {c \in Clients : pc[c] = "updating" /\ call[c].ref = r /\ call[c].new # {}}

RowsOK ==
    /\ db = [r \in Refs |-> db[r]]
    /\ \A r \in Refs : db[r] \in Rows(KindOf[r]) \cup {Absent}

\* A session that prompts has read a row of its kind; a call in progress
\* carries what an update message of its kind has.
SessionsOK ==
    /\ pc \in [Clients -> {"idle", "prompt", "updating"}]
    /\ call = [c \in Clients |-> call[c]]
    /\ prompt = [c \in Clients |-> prompt[c]]
    /\ \A c \in Clients : pc[c] = "idle" => call[c] = NoCall
    /\ \A c \in Clients : pc[c] # "idle" =>
          LET k == KindOf[call[c].ref]
          IN  /\ call[c].ref \in Refs
              /\ IsUpdate(k, call[c].req)
              /\ call[c].new \subseteq KidsOf[k]
              /\ pc[c] = "prompt" => prompt[c].seen \in [FieldsOf[k] -> Values]

AskedOK ==
    /\ asked = [r \in Refs |-> asked[r]]
    /\ \A r \in Refs : asked[r] \in [KidsOf[KindOf[r]] -> Nat]

\* TypeOK: rows hold the fields of their kind and nothing else, whatever a
\* request carried, and a request in progress carries only what its message has.
TypeOK ==
    /\ RowsOK /\ SessionsOK /\ AskedOK
    /\ born \in [Refs -> Nat]
    /\ walk \in [pc : {"none", "next", "done"}, kind : Kinds, token : Refs \cup {None},
                 shown : SUBSET Refs, twice : BOOLEAN, since : SUBSET Refs, cut : BOOLEAN]
    /\ ops \in Nat
    /\ torn \in SUBSET Refs

Seed(k) == mapToPrisma(k, NoFields(k), [f \in getManager[k].need |-> "good"])

\* The database starts with the seeded rows, which earlier calls created.
Init ==
    /\ born = Birth
    /\ db = [r \in Refs |-> IF Birth[r] = 0 THEN Absent
                     ELSE [fields |-> Seed(KindOf[r]), kids |-> NoKids(KindOf[r])]]
    /\ pc = [c \in Clients |-> "idle"]
    /\ call = [c \in Clients |-> NoCall]
    /\ prompt = [c \in Clients |-> NoPrompt]
    /\ walk = [pc |-> "none", kind |-> "acl", token |-> None, shown |-> {}, twice |-> FALSE,
               since |-> {}, cut |-> FALSE]
    /\ ops = 0
    /\ asked = [r \in Refs |-> NoKids(KindOf[r])]
    /\ torn = {}

-----------------------------------------------------------------------------
(***************************************************************************)
(* The database, as schema.prisma declares it.                             *)
(***************************************************************************)

\* As a bug could have it: the Number of a policy has no foreign key.
DanglingFieldOnly(k, fields, new) ==
    \E f \in Links[k] :
       /\ fields[f] # None
       /\ ~(fields[f] \in Existing /\ KindOf[fields[f]] = getManager[k].links[f])

\* A foreign key that leads nowhere (P2003).
DanglingLink(k, fields, new) ==
    \/ \E f \in Links[k] :
          /\ fields[f] # None
          /\ ~(fields[f] \in Existing /\ KindOf[fields[f]] = getManager[k].links[f])
    \/ k = "domain" /\ \E n \in new : n \notin Existing

\* onDelete: SetNull for the links, Cascade for the policies of a Number.
Without(kids, n) == [x \in DOMAIN kids |-> IF x = n THEN 0 ELSE kids[x]]

WithoutRow(r) ==
    [s \in Refs |->
        IF s = r \/ db[s] = Absent THEN Absent
        ELSE [fields |-> [f \in FieldsOf[KindOf[s]] |->
                             IF f \in Links[KindOf[s]] /\ db[s].fields[f] = r
                             THEN None ELSE db[s].fields[f]],
              kids   |-> Without(db[s].kids, r)]]

-----------------------------------------------------------------------------
(***************************************************************************)
(* The server.  A restart ends every call in progress with UNAVAILABLE; a  *)
(* call that had deleted URIs leaves its Trunk without them.               *)
(***************************************************************************)
Restarted ==
    /\ pc' = [c \in Clients |-> IF pc[c] = "updating" THEN "idle" ELSE pc[c]]
    /\ call' = [c \in Clients |-> IF pc[c] = "updating" THEN NoCall ELSE call[c]]
    /\ prompt' = [c \in Clients |-> IF pc[c] = "updating" THEN NoPrompt ELSE prompt[c]]
    /\ torn' = torn \cup {r \in Refs : KindOf[r] = "trunk" /\ Replacing(r) # {}}

Restart ==
    /\ \E c \in Clients : pc[c] = "updating"
    /\ Restarted
    /\ UNCHANGED <<db, born, walk, ops, asked>>

Budget == ops < MaxOps /\ ops' = ops + 1

Young == {s \in Refs : born[s] # 0}

\* create: a weight that is refused makes the check throw undefined, the
\* catch block reads a property of it and the process ends; any other error
\* is answered and changes nothing.
Create(c, r, req, new) ==
    LET k      == KindOf[r]
        valid  == validOrThrowCreate(k, req, Flaw(new))
        fields == mapToPrisma(k, NoFields(k), req)
    IN  /\ pc[c] = "idle" /\ born[r] = 0 /\ Budget
        /\ IF valid = "undefined"
           THEN Restarted /\ UNCHANGED <<db, born, asked>>
           ELSE IF valid # "OK" \/ DanglingLink(k, fields, new)
           THEN UNCHANGED <<db, born, asked, pc, call, prompt, torn>>
           ELSE /\ db' = [db EXCEPT ![r] = [fields |-> fields, kids |-> WithKids(NoKids(k), new)]]
                /\ born' = [born EXCEPT ![r] = 1 + Cardinality(Young)]
                /\ asked' = [asked EXCEPT ![r] = WithKids(NoKids(k), new)]
                /\ UNCHANGED <<pc, call, prompt, torn>>
        /\ UNCHANGED walk

\* A creation by the SDK.
SdkCreate(c, r, req, new) == DOMAIN req \subseteq APIClient[KindOf[r]].create /\ Create(c, r, req, new)

\* The prompts for a URI check its host, its port, its priority and its weight.
UrisPass(new) == new \cap (BadUris \cup WeightlessUris) = {}

\* A create command of ctl: only the fields it prompts for, all of them valid.
CtlCreate(c, r, chosen, new) ==
    /\ \A f \in DOMAIN chosen : validate(f, chosen[f])
    /\ UrisPass(new)
    /\ Create(c, r, [f \in DOMAIN chosen \cap CreateCommand[KindOf[r]] |-> chosen[f]], new)

Ended(c) ==
    /\ pc' = [pc EXCEPT ![c] = "idle"]
    /\ call' = [call EXCEPT ![c] = NoCall]
    /\ prompt' = [prompt EXCEPT ![c] = NoPrompt]

\* As a bug could have it: the old URIs are never deleted.
DeletesNothing(k, new) == FALSE

\* An empty list is not on the wire, and request.egressPolicy is in no message,
\* so the policies of a Domain stay.
DeletesFirst(k, new) == k = "trunk" /\ new # {}

\* The first half of update: the checks, and the deletion of the URIs when
\* the request brings some.
Update(c, r, req, new, answers) ==
    /\ Budget
    /\ IF validOrThrowUpdate(KindOf[r], req) # "OK"
       THEN Ended(c) /\ UNCHANGED <<db, torn>>
       ELSE /\ pc' = [pc EXCEPT ![c] = "updating"]
            /\ prompt' = [prompt EXCEPT ![c] = answers]
            /\ call' = [call EXCEPT ![c] = [ref |-> r, req |-> req, new |-> new]]
            /\ IF DeletesFirst(KindOf[r], new)
               THEN /\ db' = IF Exists(r) THEN [db EXCEPT ![r].kids = NoKids(KindOf[r])] ELSE db
                    /\ torn' = IF Replacing(r) = {} THEN torn \ {r} ELSE torn \cup {r}
               ELSE UNCHANGED <<db, torn>>
    /\ UNCHANGED <<born, walk, asked>>

\* An update by the SDK.
SdkUpdate(c, r, req, new) ==
    /\ pc[c] = "idle" /\ born[r] # 0
    /\ DOMAIN req \subseteq APIClient[KindOf[r]].update
    /\ Update(c, r, req, new, NoPrompt)

\* The second half: the row.  With no such row (P2025) or a dangling link
\* (P2003) it changes nothing, and the URIs deleted before are gone.
UpdateRow(c) ==
    LET r      == call[c].ref
        k      == KindOf[r]
        new    == call[c].new
        fields == mapToPrisma(k, db[r].fields, call[c].req)
    IN  /\ pc[c] = "updating" /\ Ended(c)
        /\ IF Exists(r) /\ ~DanglingLink(k, fields, new)
           THEN /\ db' = [db EXCEPT ![r] = [fields |-> fields, kids |-> WithKids(db[r].kids, new)]]
                /\ asked' = IF new = {} THEN asked ELSE [asked EXCEPT ![r] = WithKids(NoKids(k), new)]
                /\ UNCHANGED torn
           ELSE /\ torn' = IF k = "trunk" /\ new # {} THEN torn \cup {r} ELSE torn
                /\ UNCHANGED <<db, asked>>
        /\ UNCHANGED <<born, walk, ops>>

\* The query of the row fails: a name in use (P2002), the pool, the connection.
UpdateFails(c) ==
    /\ pc[c] = "updating" /\ Ended(c)
    /\ torn' = IF KindOf[call[c].ref] = "trunk" /\ call[c].new # {}
               THEN torn \cup {call[c].ref} ELSE torn
    /\ UNCHANGED <<db, born, walk, ops, asked>>

\* del: every error but that of an unreachable database is answered as a
\* success, so a deletion that did nothing looks like one that did.
Delete(c, r) ==
    /\ pc[c] = "idle" /\ Exists(r) /\ Budget
    /\ db' = WithoutRow(r)
    /\ asked' = [s \in Refs |-> IF s = r THEN NoKids(KindOf[r]) ELSE Without(asked[s], r)]
    /\ UNCHANGED <<born, pc, call, prompt, walk, torn>>

-----------------------------------------------------------------------------
(***************************************************************************)
(* A session of ctl: get the resource and the choices, prompt, submit.     *)
(***************************************************************************)
CtlOpen(c, r) ==
    /\ pc[c] = "idle" /\ Exists(r) /\ ops < MaxOps
    /\ pc' = [pc EXCEPT ![c] = "prompt"]
    /\ call' = [call EXCEPT ![c] = [NoCall EXCEPT !.ref = r]]
    /\ prompt' = [prompt EXCEPT ![c] = [seen |-> db[r].fields, chosen |-> NoAnswers,
                                        offered |-> Existing]]
    /\ UNCHANGED <<db, born, walk, ops, asked, torn>>

\* The user changes the answers in chosen and confirms the others.  ctl asks
\* for an egress rule only when there is an ACL.
CtlSubmit(c, chosen, new) ==
    LET r == call[c].ref
        k == KindOf[r]
    IN  /\ pc[c] = "prompt"
        /\ \A f \in DOMAIN chosen :
              IF f \in Links[k] THEN chosen[f] \in prompt[c].offered \cup {None}
              ELSE validate(f, chosen[f])
        /\ k = "domain" /\ new # {} => \E a \in prompt[c].offered : KindOf[a] = "acl"
        /\ UrisPass(new)
        /\ new \cap Refs \subseteq prompt[c].offered
        /\ Update(c, r, UpdateAnswers(k, chosen, prompt[c].seen), new,
                  [prompt[c] EXCEPT !.chosen = chosen])

CtlAbort(c) ==
    /\ pc[c] = "prompt" /\ Ended(c)
    /\ UNCHANGED <<db, born, walk, ops, asked, torn>>

-----------------------------------------------------------------------------
(***************************************************************************)
(* list and the walk of showPaginatedList: pages in the order newest       *)
(* first, each from the row after the token.  A token whose row is gone    *)
(* yields an empty page.                                                   *)
(***************************************************************************)
\* As a bug could have it: the row of the token is not skipped.
PageFromToken(k, token) ==
    LET after == {r \in Existing : /\ KindOf[r] = k
                                   /\ token # None => Exists(token) /\ born[r] <= born[token]}
    IN  {r \in after : Cardinality({s \in after : born[s] > born[r]}) < PageSize}

Page(k, token) ==
    LET after == {r \in Existing : /\ KindOf[r] = k
                                   /\ token # None => Exists(token) /\ born[r] < born[token]}
    IN  {r \in after : Cardinality({s \in after : born[s] > born[r]}) < PageSize}

WalkStart(k) ==
    /\ walk.pc = "none"
    /\ walk' = [walk EXCEPT !.pc = "next", !.kind = k,
                            !.since = {r \in Existing : KindOf[r] = k}]
    /\ UNCHANGED <<db, born, pc, call, prompt, ops, asked, torn>>

WalkPage ==
    LET items == Page(walk.kind, walk.token)
        last  == CHOOSE r \in items : \A s \in items : born[r] <= born[s]
    IN  /\ walk.pc = "next"
        /\ walk' = IF items = {}
                   THEN [walk EXCEPT !.pc = "done",
                                     !.cut = walk.token # None /\ ~Exists(walk.token)]
                   ELSE [walk EXCEPT !.token = last,
                                     !.shown = @ \cup items,
                                     !.twice = @ \/ items \cap walk.shown # {}]
        /\ UNCHANGED <<db, born, pc, call, prompt, ops, asked, torn>>

-----------------------------------------------------------------------------
(***************************************************************************)
(* Next.  Sets a request may be drawn from are given by the instance.      *)
(***************************************************************************)
CONSTANTS Creations(_), Partials(_), Answers(_), NewKids(_)

ASSUME RequestsAssumption ==
    \A k \in Kinds :
        /\ \A q \in Creations(k) : IsCreation(k, q)
        /\ \A q \in Partials(k) \cup Answers(k) : IsUpdate(k, q)
        /\ NewKids(k) \subseteq SUBSET KidsOf[k]

Next ==
    \/ \E c \in Clients, r \in Refs :
          \/ \E req \in Creations(KindOf[r]), new \in NewKids(KindOf[r]) :
                SdkCreate(c, r, req, new) \/ CtlCreate(c, r, req, new)
          \/ \E req \in Partials(KindOf[r]), new \in NewKids(KindOf[r]) : SdkUpdate(c, r, req, new)
          \/ Delete(c, r)
          \/ CtlOpen(c, r)
    \/ \E c \in {d \in Clients : pc[d] = "prompt"} :
          \E chosen \in Answers(KindOf[call[c].ref]), new \in NewKids(KindOf[call[c].ref]) :
             CtlSubmit(c, chosen, new)
    \/ \E c \in Clients :
          \/ CtlAbort(c) \/ UpdateRow(c) \/ UpdateFails(c)
    \/ Restart
    \/ \E k \in Walked : WalkStart(k)
    \/ WalkPage

Spec == Init /\ [][Next]_vars

-----------------------------------------------------------------------------
(***************************************************************************)
(* Properties.                                                             *)
(***************************************************************************)

\* Whatever deletions, updates and sessions with stale choices interleave, a
\* link leads to a resource of its kind, and a policy to a Number, that exist.
LinksLead ==
    \A r \in Existing :
        /\ \A f \in Links[KindOf[r]] :
              db[r].fields[f] # None => /\ db[r].fields[f] \in Existing
                                        /\ KindOf[db[r].fields[f]] = getManager[KindOf[r]].links[f]
        /\ KindOf[r] = "domain" => \A n \in KidsOf["domain"] : db[r].kids[n] > 0 => n \in Existing

\* A Trunk has exactly the URIs of the last accepted request that brought
\* some, each once, unless an update of it failed, or was cut off, between its
\* two queries, or ran across another one, and none has run alone since.
UrisAsAsked ==
    \A r \in Existing : KindOf[r] = "trunk" /\ r \notin torn /\ Replacing(r) = {}
                            => db[r].kids = asked[r]

\* No sequence of creations and updates stores a value that the check of its
\* field refuses, though an update checks fewer fields than a creation.
StoredIsValid ==
    \A r \in Existing : \A f \in getManager[KindOf[r]].check \ {"uris"} :
        isValid(f, db[r].fields[f])

\* A walk shows every resource that is there from its start to its end, and
\* none twice, whatever is created and deleted meanwhile, unless the very
\* resource it had shown last is deleted before the next page.
WalkShowsAll ==
    /\ ~walk.twice
    /\ walk.pc = "done" /\ ~walk.cut => walk.since \cap Existing \subseteq walk.shown

\* The fields that a ctl update may clear although its user only confirmed
\* the prompts: nothing is offered for them, or they are not prompted for.
Forgotten ==
    [agent |-> {"domainRef", "credentialsRef", "privacy", "expires"},
     peer |-> {"accessControlListRef", "credentialsRef", "balancingAlgorithm", "expires"},
     domain |-> {"accessControlListRef"},
     trunk |-> {"accessControlListRef", "inboundCredentialsRef", "outboundCredentialsRef"},
     number |-> {}, credentials |-> {"password"}, acl |-> {}]

\* A session changes a field its user left alone only in two ways: it clears
\* one of the above, or it writes back the value that was read when the
\* session began, undoing what somebody changed meanwhile.
OnlyTheseForgotten ==
    [][\A c \in Clients : \A r \in Existing \cap {call[c].ref} :
         (pc[c] = "updating" /\ prompt[c] # NoPrompt /\ UpdateRow(c)) =>
            \A f \in FieldsOf[KindOf[r]] \ DOMAIN prompt[c].chosen :
                \/ db'[r].fields[f] = db[r].fields[f]
                \/ db'[r].fields[f] = prompt[c].seen[f]
                \/ f \in Forgotten[KindOf[r]]]_vars

=============================================================================
