--------------------------- MODULE ResourcesProofs ---------------------------
(***************************************************************************)
(* Proofs about Resources, for every set of references, clients and        *)
(* requests: rows of any number, walks of any page, no bound on the        *)
(* operations.                                                             *)
(***************************************************************************)
EXTENDS Resources, FiniteSetTheorems, WellFoundedInduction, TLAPS

-----------------------------------------------------------------------------
(* The tables of the managers and of the commands, kind by kind.           *)

(* What a manager checks in a creation and an update may carry, it checks  *)
(* in the update again; links are checked by the database and not here.    *)
TableOK(k) ==
    /\ Links[k] \subseteq Updatable[k]
    /\ Updatable[k] \subseteq FieldsOf[k]
    /\ getManager[k].need \subseteq FieldsOf[k] \ Links[k]
    /\ getManager[k].check \ {"uris"} \subseteq FieldsOf[k]
    /\ (getManager[k].check \ {"uris"}) \cap Updatable[k] \subseteq getManager[k].recheck
    /\ UpdateCommand[k].asks \subseteq Updatable[k]

LEMMA FieldTables ==
  ASSUME NEW k \in Kinds
  PROVE  /\ Links[k] = DOMAIN getManager[k].links
         /\ Updatable[k] = Links[k] \cup getManager[k].plain
         /\ FieldsOf[k] = Updatable[k] \cup getManager[k].fixed
  BY DEF Links, Updatable, FieldsOf

LEMMA AgentTable == TableOK("agent")
  <1>1. "agent" \in Kinds /\ getManager["agent"] = AgentManager /\ UpdateCommand["agent"] = AgentsUpdate
    BY DEF getManager, Kinds, UpdateCommand
  <1>2. Links["agent"] = {"domainRef", "credentialsRef"}
    BY <1>1, FieldTables DEF AgentManager
  <1>3. Updatable["agent"]
          = Links["agent"] \cup {"name", "privacy", "enabled", "maxContacts", "expires"}
    BY <1>1, FieldTables DEF AgentManager
  <1>4. FieldsOf["agent"] = Updatable["agent"] \cup {"username"}
    BY <1>1, FieldTables DEF AgentManager
  <1>. QED BY <1>1, <1>2, <1>3, <1>4 DEF TableOK, AgentManager, AgentsUpdate

LEMMA PeerTable == TableOK("peer")
  <1>1. "peer" \in Kinds /\ getManager["peer"] = PeerManager /\ UpdateCommand["peer"] = PeersUpdate
    BY DEF getManager, Kinds, UpdateCommand
  <1>2. Links["peer"] = {"accessControlListRef", "credentialsRef"}
    BY <1>1, FieldTables DEF PeerManager
  <1>3. Updatable["peer"]
          = Links["peer"] \cup {"name", "aor", "contactAddr", "withSessionAffinity", "balancingAlgorithm", "enabled", "maxContacts", "expires"}
    BY <1>1, FieldTables DEF PeerManager
  <1>4. FieldsOf["peer"] = Updatable["peer"] \cup {"username"}
    BY <1>1, FieldTables DEF PeerManager
  <1>. QED BY <1>1, <1>2, <1>3, <1>4 DEF TableOK, PeerManager, PeersUpdate

LEMMA DomainTable == TableOK("domain")
  <1>1. "domain" \in Kinds /\ getManager["domain"] = DomainManager /\ UpdateCommand["domain"] = DomainsUpdate
    BY DEF getManager, Kinds, UpdateCommand
  <1>2. Links["domain"] = {"accessControlListRef"}
    BY <1>1, FieldTables DEF DomainManager
  <1>3. Updatable["domain"]
          = Links["domain"] \cup {"name"}
    BY <1>1, FieldTables DEF DomainManager
  <1>4. FieldsOf["domain"] = Updatable["domain"] \cup {"domainUri"}
    BY <1>1, FieldTables DEF DomainManager
  <1>. QED BY <1>1, <1>2, <1>3, <1>4 DEF TableOK, DomainManager, DomainsUpdate

LEMMA TrunkTable == TableOK("trunk")
  <1>1. "trunk" \in Kinds /\ getManager["trunk"] = TrunkManager /\ UpdateCommand["trunk"] = TrunksUpdate
    BY DEF getManager, Kinds, UpdateCommand
  <1>2. Links["trunk"] = {"accessControlListRef", "inboundCredentialsRef", "outboundCredentialsRef"}
    BY <1>1, FieldTables DEF TrunkManager
  <1>3. Updatable["trunk"]
          = Links["trunk"] \cup {"name", "inboundUri", "sendRegister"}
    BY <1>1, FieldTables DEF TrunkManager
  <1>4. FieldsOf["trunk"] = Updatable["trunk"]
    <2>1. getManager["trunk"].fixed = {}
      BY <1>1 DEF TrunkManager
    <2>2. FieldsOf["trunk"] = Updatable["trunk"] \cup getManager["trunk"].fixed
      BY <1>1, FieldTables
    <2>. QED BY <2>1, <2>2
  <1>. QED BY <1>1, <1>2, <1>3, <1>4 DEF TableOK, TrunkManager, TrunksUpdate

LEMMA NumberTable == TableOK("number")
  <1>1. "number" \in Kinds /\ getManager["number"] = NumberManager /\ UpdateCommand["number"] = NumbersUpdate
    BY DEF getManager, Kinds, UpdateCommand
  <1>2. Links["number"] = {"trunkRef"}
    BY <1>1, FieldTables DEF NumberManager
  <1>3. Updatable["number"]
          = Links["number"] \cup {"name", "aorLink", "sessionAffinityHeader", "extraHeaders"}
    BY <1>1, FieldTables DEF NumberManager
  <1>4. FieldsOf["number"] = Updatable["number"] \cup {"telUrl", "city", "country"}
    BY <1>1, FieldTables DEF NumberManager
  <1>. QED BY <1>1, <1>2, <1>3, <1>4 DEF TableOK, NumberManager, NumbersUpdate

LEMMA CredentialsTable == TableOK("credentials")
  <1>1. "credentials" \in Kinds /\ getManager["credentials"] = CredentialsManager /\ UpdateCommand["credentials"] = CredentialsUpdate
    BY DEF getManager, Kinds, UpdateCommand
  <1>2. Links["credentials"] = {}
    BY <1>1, FieldTables DEF CredentialsManager
  <1>3. Updatable["credentials"]
          = Links["credentials"] \cup {"name", "username", "password"}
    BY <1>1, FieldTables DEF CredentialsManager
  <1>4. FieldsOf["credentials"] = Updatable["credentials"]
    <2>1. getManager["credentials"].fixed = {}
      BY <1>1 DEF CredentialsManager
    <2>2. FieldsOf["credentials"] = Updatable["credentials"] \cup getManager["credentials"].fixed
      BY <1>1, FieldTables
    <2>. QED BY <2>1, <2>2
  <1>. QED BY <1>1, <1>2, <1>3, <1>4 DEF TableOK, CredentialsManager, CredentialsUpdate

LEMMA ACLTable == TableOK("acl")
  <1>1. "acl" \in Kinds /\ getManager["acl"] = ACLManager /\ UpdateCommand["acl"] = AclUpdate
    BY DEF getManager, Kinds, UpdateCommand
  <1>2. Links["acl"] = {}
    BY <1>1, FieldTables DEF ACLManager
  <1>3. Updatable["acl"]
          = Links["acl"] \cup {"name", "allow", "deny"}
    BY <1>1, FieldTables DEF ACLManager
  <1>4. FieldsOf["acl"] = Updatable["acl"]
    <2>1. getManager["acl"].fixed = {}
      BY <1>1 DEF ACLManager
    <2>2. FieldsOf["acl"] = Updatable["acl"] \cup getManager["acl"].fixed
      BY <1>1, FieldTables
    <2>. QED BY <2>1, <2>2
  <1>. QED BY <1>1, <1>2, <1>3, <1>4 DEF TableOK, ACLManager, AclUpdate

LEMMA Tables == \A k \in Kinds : TableOK(k)
  <1> SUFFICES ASSUME NEW k \in Kinds PROVE TableOK(k)
    OBVIOUS
  <1>1. k \in {"agent", "peer", "domain", "trunk", "number", "credentials", "acl"}
    BY DEF Kinds
  <1>. QED BY <1>1, AgentTable, PeerTable, DomainTable, TrunkTable, NumberTable,
              CredentialsTable, ACLTable

-----------------------------------------------------------------------------
(* Types of the operators.                                                 *)

(* What a request leaves in a row are values of the fields of its kind.    *)
LEMMA MapType ==
  ASSUME NEW k \in Kinds, NEW old \in [FieldsOf[k] -> Values],
         NEW req, req \in [DOMAIN req -> Values]
  PROVE  mapToPrisma(k, old, req) \in [FieldsOf[k] -> Values]
  BY DEF mapToPrisma, Values

LEMMA NoFieldsType ==
  ASSUME NEW k \in Kinds PROVE NoFields(k) \in [FieldsOf[k] -> Values]
  BY DEF NoFields, Values

LEMMA NoKidsType ==
  ASSUME NEW k \in Kinds PROVE NoKids(k) \in [KidsOf[k] -> Nat]
  BY DEF NoKids

LEMMA WithKidsType ==
  ASSUME NEW k \in Kinds, NEW kids \in [KidsOf[k] -> Nat], NEW new
  PROVE  WithKids(kids, new) \in [KidsOf[k] -> Nat]
  BY DEF WithKids

LEMMA WithoutType ==
  ASSUME NEW k \in Kinds, NEW kids \in [KidsOf[k] -> Nat], NEW n
  PROVE  Without(kids, n) \in [KidsOf[k] -> Nat]
  BY DEF Without

(* A request of an update command carries what the message of its kind     *)
(* has, whatever the user chose and whatever was read.                     *)
LEMMA AnswersType ==
  ASSUME NEW k \in Kinds, NEW chosen, IsUpdate(k, chosen),
         NEW seen \in [FieldsOf[k] -> Values]
  PROVE  IsUpdate(k, UpdateAnswers(k, chosen, seen))
  <1> DEFINE U == UpdateCommand[k]
             answer(f) == IF f \in DOMAIN chosen THEN chosen[f] ELSE Offered(k, f, seen)
             D == {g \in U.asks \ U.drops : ~Unsent(k, g, answer(g))}
  <1>1. UpdateAnswers(k, chosen, seen) = [f \in D |-> answer(f)]
    BY DEF UpdateAnswers
  <1>2. U.asks \subseteq Updatable[k] /\ Updatable[k] \subseteq FieldsOf[k]
    BY Tables DEF TableOK
  <1>3. D \subseteq Updatable[k]
    BY <1>2
  <1>4. \A f \in D : answer(f) \in Values
    <2> SUFFICES ASSUME NEW f \in D PROVE answer(f) \in Values
      OBVIOUS
    <2>1. CASE f \in DOMAIN chosen
      BY <2>1 DEF IsUpdate
    <2>2. CASE f \notin DOMAIN chosen
      <3>1. seen[f] \in Values
        BY <1>2, <1>3
      <3>2. Offered(k, f, seen) \in Values
        BY <3>1 DEF Offered, Values, Marks
      <3>. QED BY <2>2, <3>2
    <2>. QED BY <2>1, <2>2
  <1>. HIDE DEF D, answer
  <1>5. /\ DOMAIN [f \in D |-> answer(f)] = D
        /\ [f \in D |-> answer(f)] \in [D -> Values]
    BY <1>4
  <1>. QED BY <1>1, <1>3, <1>5 DEF IsUpdate


-----------------------------------------------------------------------------
(* The oldest of some resources is one of them.                            *)
LEMMA OldestExists ==
  ASSUME NEW items, items # {}, NEW age, \A r \in items : age[r] \in Nat
  PROVE  /\ \E r \in items : \A s \in items : age[r] <= age[s]
         /\ (CHOOSE r \in items : \A s \in items : age[r] <= age[s]) \in items
  <1> DEFINE T == {age[r] : r \in items}
             R == OpToRel(<, Nat)
  <1>1. T \subseteq Nat /\ T # {}
    OBVIOUS
  <1>2. IsWellFoundedOn(R, Nat)
    BY NatLessThanWellFounded
  <1>3. \A x, y \in Nat : y < x => <<y, x>> \in R
    BY DEF OpToRel
  <1>. HIDE DEF T, R
  <1>4. PICK x \in T : \A y \in T : <<y, x>> \notin R
    BY <1>1, <1>2, WFMin
  <1>5. \A y \in T : ~(y < x)
    BY <1>1, <1>3, <1>4
  <1>6. \A y \in T : x <= y
    BY <1>1, <1>5
  <1>7. PICK r \in items : age[r] = x
    BY DEF T
  <1>8. \A s \in items : age[r] <= age[s]
    BY <1>6, <1>7 DEF T
  <1>. QED BY <1>8

-----------------------------------------------------------------------------
(* Type correctness, one lemma per action.                                 *)

LEMMA KindType == \A r \in Refs : KindOf[r] \in Kinds
  BY KindOfType

LEMMA NoCallType == NoCall.ref = None /\ NoCall.req = NoAnswers /\ NoCall.new = {}
  BY DEF NoCall

(* A row whose fields and kids have their types.                           *)
LEMMA RowType ==
  ASSUME NEW k, NEW fields \in [FieldsOf[k] -> Values], NEW kids \in [KidsOf[k] -> Nat]
  PROVE  [fields |-> fields, kids |-> kids] \in Rows(k)
  BY DEF Rows

(* The table with one row replaced.                                        *)
LEMMA RowsReplaced ==
  ASSUME RowsOK, NEW r \in Refs, NEW row \in Rows(KindOf[r]), db' = [db EXCEPT ![r] = row]
  PROVE  RowsOK'
  <1>1. db' = [s \in Refs |-> IF s = r THEN row ELSE db[s]]
    BY DEF RowsOK
  <1>. QED BY <1>1 DEF RowsOK

(* A deletion clears fields and counts of other rows, and nothing else.    *)
LEMMA WithoutRowType ==
  ASSUME RowsOK, NEW r \in Refs, db' = WithoutRow(r)
  PROVE  RowsOK'
  <1> DEFINE row(s) == IF s = r \/ db[s] = Absent THEN Absent
                       ELSE [fields |-> [f \in FieldsOf[KindOf[s]] |->
                                           IF f \in Links[KindOf[s]] /\ db[s].fields[f] = r
                                           THEN None ELSE db[s].fields[f]],
                             kids |-> Without(db[s].kids, r)]
  <1>1. db' = [s \in Refs |-> row(s)]
    BY DEF WithoutRow
  <1>2. ASSUME NEW s \in Refs PROVE row(s) \in Rows(KindOf[s]) \cup {Absent}
    <2>1. CASE s = r \/ db[s] = Absent
      BY <2>1
    <2>2. CASE ~(s = r \/ db[s] = Absent)
      <3> DEFINE fields == [f \in FieldsOf[KindOf[s]] |->
                               IF f \in Links[KindOf[s]] /\ db[s].fields[f] = r
                               THEN None ELSE db[s].fields[f]]
                 kids == Without(db[s].kids, r)
      <3>1. /\ db[s].fields \in [FieldsOf[KindOf[s]] -> Values]
            /\ db[s].kids \in [KidsOf[KindOf[s]] -> Nat]
        BY <2>2 DEF RowsOK, Rows
      <3>2. fields \in [FieldsOf[KindOf[s]] -> Values]
        BY <3>1 DEF Values
      <3>3. kids \in [KidsOf[KindOf[s]] -> Nat]
        BY <3>1, KindType, WithoutType
      <3>4. row(s) = [fields |-> fields, kids |-> kids]
        BY <2>2
      <3>. HIDE DEF fields, kids, row
      <3>. QED BY <3>2, <3>3, <3>4, RowType
    <2>. QED BY <2>1, <2>2
  <1>. HIDE DEF row
  <1>. QED BY <1>1, <1>2 DEF RowsOK

(* The end of a call or of a session.                                      *)
LEMMA EndedType ==
  ASSUME SessionsOK, NEW c \in Clients, Ended(c)
  PROVE  SessionsOK'
  <1>1. /\ pc' = [d \in Clients |-> IF d = c THEN "idle" ELSE pc[d]]
        /\ call' = [d \in Clients |-> IF d = c THEN NoCall ELSE call[d]]
        /\ prompt' = [d \in Clients |-> IF d = c THEN NoPrompt ELSE prompt[d]]
    BY DEF SessionsOK, Ended
  <1>. QED BY <1>1 DEF SessionsOK

LEMMA RestartedType ==
  ASSUME TypeOK, Restarted
  PROVE  SessionsOK' /\ torn' \in SUBSET Refs
  <1>1. torn' \in SUBSET Refs
    BY DEF TypeOK, Restarted
  <1>2. /\ pc' = [d \in Clients |-> IF pc[d] = "updating" THEN "idle" ELSE pc[d]]
        /\ call' = [d \in Clients |-> IF pc[d] = "updating" THEN NoCall ELSE call[d]]
        /\ prompt' = [d \in Clients |-> IF pc[d] = "updating" THEN NoPrompt ELSE prompt[d]]
    BY DEF Restarted
  <1>3. SessionsOK
    BY DEF TypeOK
  <1>4. SessionsOK'
    BY <1>2, <1>3 DEF SessionsOK
  <1>. QED BY <1>1, <1>4

LEMMA InitType == Init => TypeOK
  <1> SUFFICES ASSUME Init PROVE TypeOK
    OBVIOUS
  <1>1. RowsOK
    <2>1. ASSUME NEW r \in Refs
          PROVE  /\ Seed(KindOf[r]) \in [FieldsOf[KindOf[r]] -> Values]
                 /\ NoKids(KindOf[r]) \in [KidsOf[KindOf[r]] -> Nat]
      <3>. DEFINE req == [f \in getManager[KindOf[r]].need |-> "good"]
      <3>1. req \in [DOMAIN req -> Values]
        BY DEF Values, Marks
      <3>. HIDE DEF req
      <3>2. mapToPrisma(KindOf[r], NoFields(KindOf[r]), req) \in [FieldsOf[KindOf[r]] -> Values]
        BY <3>1, KindType, NoFieldsType, MapType
      <3>. QED BY <3>2, KindType, NoKidsType DEF Seed, req
    <2>2. ASSUME NEW r \in Refs
          PROVE  [fields |-> Seed(KindOf[r]), kids |-> NoKids(KindOf[r])] \in Rows(KindOf[r])
      BY <2>1, RowType
    <2>. QED BY <2>2 DEF Init, RowsOK
  <1>2. SessionsOK
    BY DEF Init, SessionsOK
  <1>3. AskedOK
    BY KindType, NoKidsType DEF Init, AskedOK
  <1>4. born \in [Refs -> Nat]
    BY ResourcesAssumption DEF Init
  <1>5. walk \in [pc : {"none", "next", "done"}, kind : Kinds, token : Refs \cup {None},
                  shown : SUBSET Refs, twice : BOOLEAN, since : SUBSET Refs, cut : BOOLEAN]
    BY DEF Init, Kinds
  <1>. QED BY <1>1, <1>2, <1>3, <1>4, <1>5 DEF Init, TypeOK

LEMMA CreateType ==
  ASSUME TypeOK, NEW c \in Clients, NEW r \in Refs, NEW req, NEW new,
         req \in [DOMAIN req -> Values], Create(c, r, req, new)
  PROVE  TypeOK'
  <1> DEFINE k == KindOf[r]
             fields == mapToPrisma(k, NoFields(k), req)
  <1>1. walk' = walk /\ ops' = ops + 1 /\ ops' \in Nat
    BY DEF Create, Budget, TypeOK
  <1>2. CASE Restarted /\ UNCHANGED <<db, born, asked>>
    BY <1>1, <1>2, RestartedType DEF TypeOK, RowsOK, AskedOK
  <1>3. CASE UNCHANGED <<db, born, asked, pc, call, prompt, torn>>
    BY <1>1, <1>3 DEF TypeOK, RowsOK, AskedOK, SessionsOK
  <1>4. CASE /\ db' = [db EXCEPT ![r] = [fields |-> fields, kids |-> WithKids(NoKids(k), new)]]
             /\ born' = [born EXCEPT ![r] = 1 + Cardinality(Young)]
             /\ asked' = [asked EXCEPT ![r] = WithKids(NoKids(k), new)]
             /\ UNCHANGED <<pc, call, prompt, torn>>
    <2>1. /\ fields \in [FieldsOf[k] -> Values]
          /\ WithKids(NoKids(k), new) \in [KidsOf[k] -> Nat]
      BY KindType, NoFieldsType, MapType, NoKidsType, WithKidsType
    <2>2. RowsOK'
      BY <1>4, <2>1, RowType, RowsReplaced DEF TypeOK
    <2>3. born' \in [Refs -> Nat]
      <3>1. Cardinality(Young) \in Nat
        BY ResourcesAssumption, FS_Subset, FS_CardinalityType DEF Young
      <3>. QED BY <1>4, <3>1 DEF TypeOK
    <2>4. AskedOK'
      <3>1. asked' = [s \in Refs |-> IF s = r THEN WithKids(NoKids(k), new) ELSE asked[s]]
        BY <1>4 DEF TypeOK, AskedOK
      <3>. QED BY <2>1, <3>1 DEF TypeOK, AskedOK
    <2>. QED BY <1>1, <1>4, <2>2, <2>3, <2>4 DEF TypeOK, SessionsOK
  <1>. QED BY <1>2, <1>3, <1>4 DEF Create

LEMMA UpdateType ==
  ASSUME TypeOK, NEW c \in Clients, NEW r \in Refs, NEW req, NEW new, NEW answers,
         IsUpdate(KindOf[r], req), new \subseteq KidsOf[KindOf[r]],
         Update(c, r, req, new, answers)
  PROVE  TypeOK'
  <1>1. walk' = walk /\ born' = born /\ asked' = asked /\ ops' \in Nat
    BY DEF Update, Budget, TypeOK
  <1>2. CASE Ended(c) /\ UNCHANGED <<db, torn>>
    BY <1>1, <1>2, EndedType DEF TypeOK, RowsOK, AskedOK
  <1>3. CASE /\ pc' = [pc EXCEPT ![c] = "updating"]
             /\ prompt' = [prompt EXCEPT ![c] = answers]
             /\ call' = [call EXCEPT ![c] = [ref |-> r, req |-> req, new |-> new]]
             /\ IF DeletesFirst(KindOf[r], new)
                THEN /\ db' = IF Exists(r) THEN [db EXCEPT ![r].kids = NoKids(KindOf[r])] ELSE db
                     /\ torn' = IF Replacing(r) = {} THEN torn \ {r} ELSE torn \cup {r}
                ELSE UNCHANGED <<db, torn>>
    <2>1. SessionsOK'
      <3>1. /\ pc' = [d \in Clients |-> IF d = c THEN "updating" ELSE pc[d]]
            /\ prompt' = [d \in Clients |-> IF d = c THEN answers ELSE prompt[d]]
            /\ call' = [d \in Clients |-> IF d = c THEN [ref |-> r, req |-> req, new |-> new]
                                         ELSE call[d]]
        BY <1>3 DEF TypeOK, SessionsOK
      <3>. QED BY <3>1 DEF TypeOK, SessionsOK
    <2>2. torn' \in SUBSET Refs
      BY <1>3 DEF TypeOK
    <2>3. RowsOK'
      <3>1. CASE db' = db
        BY <3>1 DEF TypeOK, RowsOK
      <3>2. CASE Exists(r) /\ db' = [db EXCEPT ![r].kids = NoKids(KindOf[r])]
        <4>1. db[r] \in Rows(KindOf[r])
          BY <3>2 DEF TypeOK, RowsOK, Exists
        <4>2. [db[r] EXCEPT !.kids = NoKids(KindOf[r])] \in Rows(KindOf[r])
          BY <4>1, KindType, NoKidsType DEF Rows
        <4>3. db' = [db EXCEPT ![r] = [db[r] EXCEPT !.kids = NoKids(KindOf[r])]]
          BY <3>2
        <4>. QED BY <4>2, <4>3, RowsReplaced DEF TypeOK
      <3>. QED BY <1>3, <3>1, <3>2
    <2>. QED BY <1>1, <2>1, <2>2, <2>3 DEF TypeOK, AskedOK
  <1>. QED BY <1>2, <1>3 DEF Update

(* What a call in progress carries.                                        *)
LEMMA CallType ==
  ASSUME SessionsOK, NEW c \in Clients, pc[c] # "idle"
  PROVE  /\ call[c].ref \in Refs
         /\ KindOf[call[c].ref] \in Kinds
         /\ IsUpdate(KindOf[call[c].ref], call[c].req)
         /\ call[c].new \subseteq KidsOf[KindOf[call[c].ref]]
         /\ pc[c] = "prompt" => prompt[c].seen \in [FieldsOf[KindOf[call[c].ref]] -> Values]
  BY KindType DEF SessionsOK

(* The row that the second half of an update leaves.                       *)
LEMMA UpdatedRow ==
  ASSUME RowsOK, SessionsOK, NEW c \in Clients, pc[c] # "idle", Exists(call[c].ref)
  PROVE  LET r == call[c].ref  k == KindOf[r]
         IN  /\ mapToPrisma(k, db[r].fields, call[c].req) \in [FieldsOf[k] -> Values]
             /\ WithKids(db[r].kids, call[c].new) \in [KidsOf[k] -> Nat]
  <1> DEFINE r == call[c].ref
             k == KindOf[r]
  <1>1. r \in Refs /\ k \in Kinds /\ call[c].req \in [DOMAIN call[c].req -> Values]
    BY CallType DEF IsUpdate
  <1>2. db[r].fields \in [FieldsOf[k] -> Values] /\ db[r].kids \in [KidsOf[k] -> Nat]
    BY <1>1 DEF RowsOK, Rows, Exists
  <1>. QED BY <1>1, <1>2, MapType, WithKidsType

LEMMA UpdateRowType ==
  ASSUME TypeOK, NEW c \in Clients, UpdateRow(c)
  PROVE  TypeOK'
  <1> DEFINE r == call[c].ref
             k == KindOf[r]
             fields == mapToPrisma(k, db[r].fields, call[c].req)
             kids == WithKids(db[r].kids, call[c].new)
  <1>1. /\ pc[c] = "updating" /\ Ended(c)
        /\ walk' = walk /\ born' = born /\ ops' = ops
    BY DEF UpdateRow
  <1>2. SessionsOK' /\ r \in Refs /\ k \in Kinds
    BY <1>1, EndedType, CallType DEF TypeOK
  <1>3. CASE Exists(r) /\ ~DanglingLink(k, fields, call[c].new)
    <2>1. fields \in [FieldsOf[k] -> Values] /\ kids \in [KidsOf[k] -> Nat]
      BY <1>1, <1>3, UpdatedRow DEF TypeOK
    <2>2. /\ db' = [db EXCEPT ![r] = [fields |-> fields, kids |-> kids]]
          /\ asked' = IF call[c].new = {} THEN asked
                      ELSE [asked EXCEPT ![r] = WithKids(NoKids(k), call[c].new)]
          /\ torn' = torn
      BY <1>3 DEF UpdateRow
    <2>3. RowsOK'
      BY <1>2, <2>1, <2>2, RowType, RowsReplaced DEF TypeOK
    <2>4. WithKids(NoKids(k), call[c].new) \in [KidsOf[k] -> Nat]
      BY <1>2, NoKidsType, WithKidsType
    <2>5. AskedOK'
      <3>1. CASE asked' = asked
        BY <3>1 DEF TypeOK, AskedOK
      <3>2. CASE asked' = [asked EXCEPT ![r] = WithKids(NoKids(k), call[c].new)]
        <4>1. asked' = [s \in Refs |-> IF s = r THEN WithKids(NoKids(k), call[c].new) ELSE asked[s]]
          BY <3>2 DEF TypeOK, AskedOK
        <4>. QED BY <2>4, <4>1 DEF TypeOK, AskedOK
      <3>. QED BY <2>2, <3>1, <3>2
    <2>. QED BY <1>1, <1>2, <2>2, <2>3, <2>5 DEF TypeOK
  <1>4. CASE ~(Exists(r) /\ ~DanglingLink(k, fields, call[c].new))
    <2>1. /\ torn' = IF k = "trunk" /\ call[c].new # {} THEN torn \cup {r} ELSE torn
          /\ db' = db /\ asked' = asked
      BY <1>4 DEF UpdateRow
    <2>. HIDE DEF r, k
    <2>. QED BY <1>1, <1>2, <2>1 DEF TypeOK, RowsOK, AskedOK
  <1>. QED BY <1>3, <1>4

LEMMA UpdateFailsType ==
  ASSUME TypeOK, NEW c \in Clients, UpdateFails(c)
  PROVE  TypeOK'
  <1>1. SessionsOK' /\ call[c].ref \in Refs
    BY EndedType, CallType DEF UpdateFails, TypeOK
  <1>. QED BY <1>1 DEF UpdateFails, TypeOK, RowsOK, AskedOK

LEMMA DeleteType ==
  ASSUME TypeOK, NEW c \in Clients, NEW r \in Refs, Delete(c, r)
  PROVE  TypeOK'
  <1>1. RowsOK'
    BY WithoutRowType DEF Delete, TypeOK
  <1>2. AskedOK'
    <2>1. asked' = [s \in Refs |-> IF s = r THEN NoKids(KindOf[r]) ELSE Without(asked[s], r)]
      BY DEF Delete
    <2>2. \A s \in Refs : /\ NoKids(KindOf[s]) \in [KidsOf[KindOf[s]] -> Nat]
                          /\ Without(asked[s], r) \in [KidsOf[KindOf[s]] -> Nat]
      BY KindType, NoKidsType, WithoutType DEF TypeOK, AskedOK
    <2>. QED BY <2>1, <2>2 DEF AskedOK
  <1>. QED BY <1>1, <1>2 DEF Delete, Budget, TypeOK, SessionsOK

LEMMA CtlOpenType ==
  ASSUME TypeOK, NEW c \in Clients, NEW r \in Refs, CtlOpen(c, r)
  PROVE  TypeOK'
  <1> DEFINE session == [seen |-> db[r].fields, chosen |-> NoAnswers, offered |-> Existing]
             opened == [NoCall EXCEPT !.ref = r]
  <1>1. db[r].fields \in [FieldsOf[KindOf[r]] -> Values]
    BY DEF CtlOpen, Exists, TypeOK, RowsOK, Rows
  <1>2. opened.ref = r /\ opened.req = NoAnswers /\ opened.new = {} /\ session.seen = db[r].fields
    BY DEF NoCall
  <1>3. IsUpdate(KindOf[r], NoAnswers)
    BY DEF IsUpdate, NoAnswers
  <1>. HIDE DEF session, opened
  <1>4. /\ pc' = [d \in Clients |-> IF d = c THEN "prompt" ELSE pc[d]]
        /\ call' = [d \in Clients |-> IF d = c THEN opened ELSE call[d]]
        /\ prompt' = [d \in Clients |-> IF d = c THEN session ELSE prompt[d]]
    BY DEF CtlOpen, TypeOK, SessionsOK, session, opened
  <1>5. SessionsOK'
    BY <1>1, <1>2, <1>3, <1>4 DEF TypeOK, SessionsOK
  <1>. QED BY <1>5 DEF CtlOpen, TypeOK, RowsOK, AskedOK

LEMMA CtlSubmitType ==
  ASSUME TypeOK, NEW c \in Clients, pc[c] = "prompt", NEW chosen, NEW new,
         IsUpdate(KindOf[call[c].ref], chosen), new \subseteq KidsOf[KindOf[call[c].ref]],
         CtlSubmit(c, chosen, new)
  PROVE  TypeOK'
  <1> DEFINE r == call[c].ref
             req == UpdateAnswers(KindOf[r], chosen, prompt[c].seen)
  <1>1. /\ r \in Refs /\ KindOf[r] \in Kinds
        /\ prompt[c].seen \in [FieldsOf[KindOf[r]] -> Values]
    BY CallType DEF TypeOK
  <1>2. IsUpdate(KindOf[r], req)
    BY <1>1, AnswersType
  <1>3. Update(c, r, req, new, [prompt[c] EXCEPT !.chosen = chosen])
    BY DEF CtlSubmit
  <1>. HIDE DEF req, r
  <1>. QED BY <1>1, <1>2, <1>3, UpdateType DEF r

LEMMA WalkPageType ==
  ASSUME TypeOK, WalkPage
  PROVE  TypeOK'
  <1> DEFINE items == Page(walk.kind, walk.token)
             last == CHOOSE r \in items : \A s \in items : born[r] <= born[s]
  <1>1. items \subseteq Refs
    BY DEF Page, Existing
  <1>2. items # {} => last \in items
    BY <1>1, OldestExists DEF TypeOK
  <1>3. walk' = IF items = {}
                THEN [walk EXCEPT !.pc = "done",
                                  !.cut = walk.token # None /\ ~Exists(walk.token)]
                ELSE [walk EXCEPT !.token = last, !.shown = @ \cup items,
                                  !.twice = @ \/ items \cap walk.shown # {}]
    BY DEF WalkPage
  <1>. HIDE DEF items, last
  <1> DEFINE cut == walk.token # None /\ ~Exists(walk.token)
             twice == walk.twice \/ items \cap walk.shown # {}
  <1>4. cut \in BOOLEAN /\ twice \in BOOLEAN
    OBVIOUS
  <1>5. walk' = IF items = {} THEN [walk EXCEPT !.pc = "done", !.cut = cut]
                ELSE [walk EXCEPT !.token = last, !.shown = walk.shown \cup items, !.twice = twice]
    BY <1>3
  <1>. HIDE DEF cut, twice
  <1>6. walk' \in [pc : {"none", "next", "done"}, kind : Kinds, token : Refs \cup {None},
                   shown : SUBSET Refs, twice : BOOLEAN, since : SUBSET Refs, cut : BOOLEAN]
    BY <1>1, <1>2, <1>4, <1>5 DEF TypeOK
  <1>. QED BY <1>6 DEF WalkPage, TypeOK, RowsOK, SessionsOK, AskedOK

\* The request and the prompt of a session that submits.
Submitted(c, r, req, answers) ==
    \E chosen : /\ IsUpdate(KindOf[r], chosen)
                /\ req = UpdateAnswers(KindOf[r], chosen, prompt[c].seen)
                /\ answers = [prompt[c] EXCEPT !.chosen = chosen]

(* A step, by what it does to the database, with the types of its request. *)
Step ==
    \/ \E c \in Clients, r \in Refs : \E req, new :
          /\ IsCreation(KindOf[r], req) /\ new \subseteq KidsOf[KindOf[r]]
          /\ Create(c, r, req, new)
    \/ \E c \in Clients, r \in Refs : \E req, new, answers :
          /\ IsUpdate(KindOf[r], req) /\ new \subseteq KidsOf[KindOf[r]]
          /\ \/ pc[c] = "idle" /\ born[r] # 0 /\ answers = NoPrompt
             \/ pc[c] = "prompt" /\ r = call[c].ref /\ Submitted(c, r, req, answers)
          /\ Update(c, r, req, new, answers)
    \/ \E c \in Clients, r \in Refs : Delete(c, r) \/ CtlOpen(c, r)
    \/ \E c \in Clients : CtlAbort(c) \/ UpdateRow(c) \/ UpdateFails(c)
    \/ Restart
    \/ \E k \in Walked : WalkStart(k)
    \/ WalkPage

LEMMA RequestTypes ==
  ASSUME NEW k \in Kinds
  PROVE  /\ \A q \in Creations(k) : IsCreation(k, q)
         /\ \A q \in Partials(k) \cup Answers(k) : IsUpdate(k, q)
         /\ \A new \in NewKids(k) : new \subseteq KidsOf[k]
  BY RequestsAssumption

LEMMA NextIsStep ==
  ASSUME TypeOK, Next
  PROVE  Step
  <1>1. ASSUME NEW c \in Clients, NEW r \in Refs,
               NEW req \in Creations(KindOf[r]), NEW new \in NewKids(KindOf[r]),
               SdkCreate(c, r, req, new) \/ CtlCreate(c, r, req, new)
        PROVE  Step
    <2>1. IsCreation(KindOf[r], req) /\ new \subseteq KidsOf[KindOf[r]]
      BY KindType, RequestTypes
    <2>2. CASE SdkCreate(c, r, req, new)
      BY <2>1, <2>2 DEF SdkCreate, Step
    <2>3. CASE CtlCreate(c, r, req, new)
      <3> DEFINE sent == [f \in DOMAIN req \cap CreateCommand[KindOf[r]] |-> req[f]]
      <3>1. IsCreation(KindOf[r], sent)
        BY <2>1 DEF IsCreation
      <3>2. Create(c, r, sent, new)
        BY <2>3 DEF CtlCreate
      <3>. HIDE DEF sent
      <3>. QED BY <2>1, <3>1, <3>2 DEF Step
    <2>. QED BY <1>1, <2>2, <2>3
  <1>2. ASSUME NEW c \in Clients, NEW r \in Refs,
               NEW req \in Partials(KindOf[r]), NEW new \in NewKids(KindOf[r]),
               SdkUpdate(c, r, req, new)
        PROVE  Step
    <2>1. IsUpdate(KindOf[r], req) /\ new \subseteq KidsOf[KindOf[r]]
      BY KindType, RequestTypes
    <2>. QED BY <1>2, <2>1 DEF SdkUpdate, Step
  <1>3. ASSUME NEW c \in Clients, pc[c] = "prompt",
               NEW chosen \in Answers(KindOf[call[c].ref]),
               NEW new \in NewKids(KindOf[call[c].ref]),
               CtlSubmit(c, chosen, new)
        PROVE  Step
    <2> DEFINE r == call[c].ref
               req == UpdateAnswers(KindOf[r], chosen, prompt[c].seen)
               answers == [prompt[c] EXCEPT !.chosen = chosen]
    <2>1. /\ r \in Refs /\ KindOf[r] \in Kinds
          /\ prompt[c].seen \in [FieldsOf[KindOf[r]] -> Values]
      BY <1>3, CallType DEF TypeOK
    <2>2. IsUpdate(KindOf[r], chosen) /\ new \subseteq KidsOf[KindOf[r]]
      BY <2>1, RequestTypes
    <2>3. IsUpdate(KindOf[r], req)
      BY <2>1, <2>2, AnswersType
    <2>4. Update(c, r, req, new, answers)
      BY <1>3 DEF CtlSubmit
    <2>5. r = call[c].ref
      OBVIOUS
    <2>6. Submitted(c, r, req, answers)
      BY <2>2 DEF Submitted
    <2>. HIDE DEF r, req, answers
    <2>. QED BY <1>3, <2>1, <2>2, <2>3, <2>4, <2>5, <2>6 DEF Step
  <1>. QED BY <1>1, <1>2, <1>3 DEF Next, Step

LEMMA StepType ==
  ASSUME TypeOK, Step
  PROVE  TypeOK'
  <1>1. ASSUME NEW c \in Clients, NEW r \in Refs, NEW req, NEW new,
               IsCreation(KindOf[r], req), Create(c, r, req, new)
        PROVE  TypeOK'
    BY <1>1, CreateType DEF IsCreation
  <1>2. ASSUME NEW c \in Clients, NEW r \in Refs, NEW req, NEW new, NEW answers,
               IsUpdate(KindOf[r], req), new \subseteq KidsOf[KindOf[r]],
               Update(c, r, req, new, answers)
        PROVE  TypeOK'
    BY <1>2, UpdateType
  <1>3. ASSUME NEW c \in Clients, CtlAbort(c)
        PROVE  TypeOK'
    BY <1>3, EndedType DEF CtlAbort, TypeOK, RowsOK, AskedOK
  <1>4. CASE Restart
    BY <1>4, RestartedType DEF Restart, TypeOK, RowsOK, AskedOK
  <1>5. ASSUME NEW k \in Walked, WalkStart(k)
        PROVE  TypeOK'
    <2>1. k \in Kinds
      BY ResourcesAssumption
    <2>2. {r \in Existing : KindOf[r] = k} \in SUBSET Refs
      BY DEF Existing
    <2>. QED BY <1>5, <2>1, <2>2 DEF WalkStart, TypeOK, RowsOK, SessionsOK, AskedOK
  <1>. QED BY <1>1, <1>2, <1>3, <1>4, <1>5, DeleteType, CtlOpenType, UpdateRowType,
              UpdateFailsType, WalkPageType DEF Step

LEMMA StutterType ==
  ASSUME TypeOK, UNCHANGED vars
  PROVE  TypeOK'
  BY DEF vars, TypeOK, RowsOK, SessionsOK, AskedOK

(* Rows keep the fields and kids of their kind, requests in progress what  *)
(* their messages carry, and sessions a row of the kind that they edit.    *)
THEOREM TypeCorrect == Spec => []TypeOK
  <1>1. TypeOK /\ [Next]_vars => TypeOK'
    BY NextIsStep, StepType, StutterType
  <1>. QED BY <1>1, InitType, PTL DEF Spec

-----------------------------------------------------------------------------
(* How each action changes the table, for the invariants that follow.      *)

(* A row is not the mark of an absent one.                                 *)
LEMMA RowExists ==
  ASSUME NEW k \in Kinds, NEW row \in Rows(k)
  PROVE  row # Absent
  BY AbsentIsNoRow

(* A creation that changes the table adds one row and touches no session.  *)
LEMMA CreateTable ==
  ASSUME TypeOK, NEW c \in Clients, NEW r \in Refs, NEW req, NEW new,
         IsCreation(KindOf[r], req), new \subseteq KidsOf[KindOf[r]],
         Create(c, r, req, new), db' # db
  PROVE  LET k == KindOf[r]
             fields == mapToPrisma(k, NoFields(k), req)
             kids == WithKids(NoKids(k), new)
         IN  /\ pc[c] = "idle" /\ born[r] = 0
             /\ validOrThrowCreate(k, req, Flaw(new)) = "OK"
             /\ ~DanglingLink(k, fields, new)
             /\ fields \in [FieldsOf[k] -> Values] /\ kids \in [KidsOf[k] -> Nat]
             /\ db' = [db EXCEPT ![r] = [fields |-> fields, kids |-> kids]]
             /\ born' = [born EXCEPT ![r] = 1 + Cardinality(Young)]
             /\ asked' = [asked EXCEPT ![r] = kids]
             /\ UNCHANGED <<pc, call, prompt, torn>>
  <1> DEFINE k == KindOf[r]
             fields == mapToPrisma(k, NoFields(k), req)
             kids == WithKids(NoKids(k), new)
  <1>1. fields \in [FieldsOf[k] -> Values]
    BY KindType, NoFieldsType, MapType DEF IsCreation
  <1>2. kids \in [KidsOf[k] -> Nat]
    BY KindType, NoKidsType, WithKidsType
  <1>. QED BY <1>1, <1>2 DEF Create

(* An update that changes the table empties the kids of one Trunk.         *)
LEMMA UpdateTable ==
  ASSUME TypeOK, NEW c \in Clients, NEW r \in Refs, NEW req, NEW new, NEW answers,
         Update(c, r, req, new, answers), db' # db
  PROVE  /\ KindOf[r] = "trunk" /\ Exists(r)
         /\ NoKids(KindOf[r]) \in [KidsOf[KindOf[r]] -> Nat]
         /\ db' = [db EXCEPT ![r] = [fields |-> db[r].fields, kids |-> NoKids(KindOf[r])]]
  <1>1. KindOf[r] = "trunk" /\ Exists(r) /\ db' = [db EXCEPT ![r].kids = NoKids(KindOf[r])]
    BY DEF Update, DeletesFirst
  <1>2. NoKids(KindOf[r]) \in [KidsOf[KindOf[r]] -> Nat]
    BY KindType, NoKidsType
  <1>3. db[r] \in Rows(KindOf[r])
    BY <1>1 DEF TypeOK, RowsOK, Exists
  <1>4. [db[r] EXCEPT !.kids = NoKids(KindOf[r])]
          = [fields |-> db[r].fields, kids |-> NoKids(KindOf[r])]
    BY <1>3 DEF Rows
  <1>. QED BY <1>1, <1>2, <1>4

(* The second half that changes the table writes one row.                  *)
LEMMA UpdateRowTable ==
  ASSUME TypeOK, NEW c \in Clients, UpdateRow(c), db' # db
  PROVE  LET r == call[c].ref
             k == KindOf[r]
             fields == mapToPrisma(k, db[r].fields, call[c].req)
             kids == WithKids(db[r].kids, call[c].new)
         IN  /\ r \in Refs /\ Exists(r) /\ pc[c] = "updating"
             /\ ~DanglingLink(k, fields, call[c].new)
             /\ IsUpdate(k, call[c].req)
             /\ fields \in [FieldsOf[k] -> Values] /\ kids \in [KidsOf[k] -> Nat]
             /\ db' = [db EXCEPT ![r] = [fields |-> fields, kids |-> kids]]
             /\ asked' = IF call[c].new = {} THEN asked
                         ELSE [asked EXCEPT ![r] = WithKids(NoKids(k), call[c].new)]
             /\ torn' = torn
  <1> DEFINE r == call[c].ref
             k == KindOf[r]
             fields == mapToPrisma(k, db[r].fields, call[c].req)
             kids == WithKids(db[r].kids, call[c].new)
  <1>1. /\ pc[c] = "updating" /\ Exists(r) /\ ~DanglingLink(k, fields, call[c].new)
        /\ db' = [db EXCEPT ![r] = [fields |-> fields, kids |-> kids]]
        /\ asked' = IF call[c].new = {} THEN asked
                    ELSE [asked EXCEPT ![r] = WithKids(NoKids(k), call[c].new)]
        /\ torn' = torn
    BY DEF UpdateRow
  <1>2. fields \in [FieldsOf[k] -> Values] /\ kids \in [KidsOf[k] -> Nat]
    BY <1>1, UpdatedRow DEF TypeOK
  <1>3. r \in Refs /\ IsUpdate(k, call[c].req)
    BY <1>1, CallType DEF TypeOK
  <1>. QED BY <1>1, <1>2, <1>3

(* The row that a table holds after one of them was replaced.              *)
LEMMA ReplacedAt ==
  ASSUME RowsOK, NEW r \in Refs, NEW fields, NEW kids,
         db' = [db EXCEPT ![r] = [fields |-> fields, kids |-> kids]]
  PROVE  /\ db'[r] = [fields |-> fields, kids |-> kids]
         /\ db'[r].fields = fields /\ db'[r].kids = kids
         /\ \A s \in Refs \ {r} : db'[s] = db[s]
  BY DEF RowsOK

(* The row that is left of another one after a deletion.                   *)
LEMMA LeftAfterDelete ==
  ASSUME NEW r \in Refs, db' = WithoutRow(r), NEW s \in Refs, db'[s] # Absent
  PROVE  /\ s # r /\ db[s] # Absent
         /\ db'[s].fields = [f \in FieldsOf[KindOf[s]] |->
                                IF f \in Links[KindOf[s]] /\ db[s].fields[f] = r
                                THEN None ELSE db[s].fields[f]]
         /\ db'[s].kids = Without(db[s].kids, r)
  BY DEF WithoutRow

-----------------------------------------------------------------------------
(* StoredIsValid.  Inductive with what an update in progress carries.      *)

LEMMA NoneIsValid == \A f : isValid(f, None)
  BY MarksAreNotValues DEF isValid, isValidText, isValidContactAddress

LEMMA GoodIsValid == \A f : isValid(f, "good")
  BY DEF isValid, isValidText, isValidContactAddress

LEMMA CreationIsValid ==
  ASSUME NEW k \in Kinds, NEW req, NEW flaw, validOrThrowCreate(k, req, flaw) = "OK"
  PROVE  \A f \in getManager[k].check \ {"uris"} : isValid(f, Value(req, f))
  BY DEF validOrThrowCreate

LEMMA UpdateIsValid ==
  ASSUME NEW k \in Kinds, NEW req, validOrThrowUpdate(k, req) = "OK"
  PROVE  \A f \in getManager[k].recheck : isValid(f, Value(req, f))
  BY DEF validOrThrowUpdate

(* Valid fields stay valid under a request whose checked fields are valid. *)
LEMMA MapIsValid ==
  ASSUME NEW k \in Kinds, NEW old, NEW req, NEW f \in FieldsOf[k],
         isValid(f, old[f]), f \in DOMAIN req => isValid(f, Value(req, f))
  PROVE  isValid(f, mapToPrisma(k, old, req)[f])
  <1>1. mapToPrisma(k, old, req)[f] = IF f \in DOMAIN req THEN req[f]
                                      ELSE IF f \in getManager[k].resets THEN None ELSE old[f]
    BY DEF mapToPrisma
  <1>. QED BY <1>1, NoneIsValid DEF Value

StoredInv ==
    /\ StoredIsValid
    /\ \A c \in Clients : pc[c] = "updating" =>
          validOrThrowUpdate(KindOf[call[c].ref], call[c].req) = "OK"

LEMMA InitStored == Init => StoredInv
  <1> SUFFICES ASSUME Init PROVE StoredInv
    OBVIOUS
  <1>1. ASSUME NEW r \in Existing, NEW f \in getManager[KindOf[r]].check \ {"uris"}
        PROVE  isValid(f, db[r].fields[f])
    <2> DEFINE k == KindOf[r]
               req == [g \in getManager[k].need |-> "good"]
    <2>1. r \in Refs /\ k \in Kinds /\ db[r].fields = mapToPrisma(k, NoFields(k), req)
      BY KindType DEF Existing, Exists, Init, Seed
    <2>2. f \in FieldsOf[k]
      BY <2>1, Tables DEF TableOK
    <2>3. isValid(f, NoFields(k)[f])
      BY <2>2, NoneIsValid DEF NoFields
    <2>4. f \in DOMAIN req => isValid(f, Value(req, f))
      BY GoodIsValid DEF Value
    <2>. HIDE DEF k, req
    <2>. QED BY <2>1, <2>2, <2>3, <2>4, MapIsValid
  <1>. QED BY <1>1 DEF StoredInv, StoredIsValid, Init

(* A table in which one row is replaced by valid fields stays valid.       *)
LEMMA ReplacedIsValid ==
  ASSUME TypeOK, StoredIsValid, NEW r \in Refs, NEW fields, NEW kids,
         db' = [db EXCEPT ![r] = [fields |-> fields, kids |-> kids]],
         \A f \in getManager[KindOf[r]].check \ {"uris"} : isValid(f, fields[f])
  PROVE  StoredIsValid'
  <1>1. /\ db'[r].fields = fields
        /\ \A s \in Refs \ {r} : db'[s] = db[s]
    BY ReplacedAt DEF TypeOK
  <1>2. ASSUME NEW s \in Existing', NEW f \in getManager[KindOf[s]].check \ {"uris"}
        PROVE  isValid(f, db'[s].fields[f])
    <2>1. CASE s = r
      BY <1>1, <1>2, <2>1
    <2>2. CASE s # r
      <3>1. s \in Existing /\ db'[s] = db[s]
        BY <1>1, <2>2 DEF Existing, Exists
      <3>. QED BY <3>1 DEF StoredIsValid
    <2>. QED BY <2>1, <2>2
  <1>. QED BY <1>2 DEF StoredIsValid

(* The calls in progress after a session or a call has ended.              *)
LEMMA EndedCalls ==
  ASSUME SessionsOK, NEW c \in Clients, Ended(c)
  PROVE  /\ pc'[c] = "idle"
         /\ \A d \in Clients \ {c} : pc'[d] = pc[d] /\ call'[d] = call[d]
  BY DEF SessionsOK, Ended

LEMMA RestartedCalls ==
  ASSUME SessionsOK, Restarted
  PROVE  \A d \in Clients : /\ pc'[d] # "updating"
                            /\ pc'[d] # "idle" => pc'[d] = pc[d] /\ call'[d] = call[d]
  BY DEF SessionsOK, Restarted

LEMMA StoredStep ==
  ASSUME TypeOK, StoredInv, Step
  PROVE  StoredInv'
  <1> DEFINE Checked(d) == pc[d] = "updating" =>
                 validOrThrowUpdate(KindOf[call[d].ref], call[d].req) = "OK"
  <1>1. SessionsOK /\ RowsOK /\ StoredIsValid /\ \A d \in Clients : Checked(d)
    BY DEF TypeOK, StoredInv
  <1>2. db' = db => StoredIsValid'
    BY <1>1 DEF StoredIsValid, Existing, Exists
  <1>3. (pc' = pc /\ call' = call) => \A d \in Clients : Checked(d)'
    BY <1>1
  <1>4. (\A d \in Clients : pc'[d] = "updating" => pc'[d] = pc[d] /\ call'[d] = call[d])
           => \A d \in Clients : Checked(d)'
    BY <1>1
  <1>5. ASSUME NEW c \in Clients, NEW r \in Refs, NEW req, NEW new,
               IsCreation(KindOf[r], req), new \subseteq KidsOf[KindOf[r]],
               Create(c, r, req, new)
        PROVE  StoredInv'
    <2> DEFINE k == KindOf[r]
               fields == mapToPrisma(k, NoFields(k), req)
    <2>1. \A d \in Clients : Checked(d)'
      <3>1. Restarted \/ (pc' = pc /\ call' = call)
        BY <1>5 DEF Create
      <3>2. CASE Restarted
        BY <1>1, <1>4, <3>2, RestartedCalls
      <3>. QED BY <1>3, <3>1, <3>2
    <2>2. CASE db' # db
      <3>1. /\ validOrThrowCreate(k, req, Flaw(new)) = "OK"
            /\ db' = [db EXCEPT ![r] = [fields |-> fields, kids |-> WithKids(NoKids(k), new)]]
        BY <1>5, <2>2, CreateTable
      <3>2. ASSUME NEW f \in getManager[k].check \ {"uris"}
            PROVE  isValid(f, fields[f])
        <4>1. k \in Kinds /\ f \in FieldsOf[k]
          BY KindType, Tables DEF TableOK
        <4>2. isValid(f, Value(req, f))
          BY <3>1, <4>1, CreationIsValid
        <4>3. isValid(f, NoFields(k)[f])
          BY <4>1, NoneIsValid DEF NoFields
        <4>. QED BY <4>1, <4>2, <4>3, MapIsValid
      <3>. HIDE DEF fields
      <3>3. StoredIsValid'
        BY <1>1, <3>1, <3>2, ReplacedIsValid
      <3>. QED BY <2>1, <3>3 DEF StoredInv
    <2>. QED BY <1>2, <2>1, <2>2 DEF StoredInv
  <1>6. ASSUME NEW c \in Clients, NEW r \in Refs, NEW req, NEW new, NEW answers,
               Update(c, r, req, new, answers)
        PROVE  StoredInv'
    <2>1. \A d \in Clients : Checked(d)'
      <3>1. CASE Ended(c)
        BY <1>1, <1>4, <3>1, EndedCalls
      <3>2. CASE /\ validOrThrowUpdate(KindOf[r], req) = "OK"
                 /\ pc' = [pc EXCEPT ![c] = "updating"]
                 /\ call' = [call EXCEPT ![c] = [ref |-> r, req |-> req, new |-> new]]
        <4>1. /\ call'[c].ref = r /\ call'[c].req = req
              /\ \A d \in Clients \ {c} : pc'[d] = pc[d] /\ call'[d] = call[d]
          BY <1>1, <3>2 DEF SessionsOK
        <4>. QED BY <1>1, <3>2, <4>1
      <3>. QED BY <1>6, <3>1, <3>2 DEF Update
    <2>2. CASE db' # db
      <3>1. /\ Exists(r)
            /\ db' = [db EXCEPT ![r] = [fields |-> db[r].fields, kids |-> NoKids(KindOf[r])]]
        BY <1>6, <2>2, UpdateTable
      <3>2. \A f \in getManager[KindOf[r]].check \ {"uris"} : isValid(f, db[r].fields[f])
        BY <1>1, <3>1 DEF StoredIsValid, Existing
      <3>3. StoredIsValid'
        BY <1>1, <3>1, <3>2, ReplacedIsValid
      <3>. QED BY <2>1, <3>3 DEF StoredInv
    <2>. QED BY <1>2, <2>1, <2>2 DEF StoredInv
  <1>7. ASSUME NEW c \in Clients, UpdateRow(c)
        PROVE  StoredInv'
    <2> DEFINE r == call[c].ref
               k == KindOf[r]
               fields == mapToPrisma(k, db[r].fields, call[c].req)
    <2>1. \A d \in Clients : Checked(d)'
      BY <1>1, <1>4, <1>7, EndedCalls DEF UpdateRow
    <2>2. CASE db' # db
      <3>1. /\ r \in Refs /\ Exists(r) /\ pc[c] = "updating" /\ IsUpdate(k, call[c].req)
            /\ db' = [db EXCEPT ![r] = [fields |-> fields,
                                        kids |-> WithKids(db[r].kids, call[c].new)]]
        BY <1>7, <2>2, UpdateRowTable
      <3>2. validOrThrowUpdate(k, call[c].req) = "OK" /\ k \in Kinds
        BY <1>1, <3>1, KindType
      <3>3. ASSUME NEW f \in getManager[k].check \ {"uris"}
            PROVE  isValid(f, fields[f])
        <4>1. f \in FieldsOf[k]
          BY <3>2, Tables DEF TableOK
        <4>2. f \in DOMAIN call[c].req => f \in getManager[k].recheck
          BY <3>1, <3>2, Tables DEF TableOK, IsUpdate
        <4>3. f \in DOMAIN call[c].req => isValid(f, Value(call[c].req, f))
          BY <3>2, <4>2, UpdateIsValid
        <4>4. isValid(f, db[r].fields[f])
          BY <1>1, <3>1 DEF StoredIsValid, Existing
        <4>. QED BY <3>2, <4>1, <4>3, <4>4, MapIsValid
      <3>. HIDE DEF fields, r
      <3>4. StoredIsValid'
        BY <1>1, <3>1, <3>3, ReplacedIsValid
      <3>. QED BY <2>1, <3>4 DEF StoredInv
    <2>. QED BY <1>2, <2>1, <2>2 DEF StoredInv
  <1>8. ASSUME NEW c \in Clients, NEW r \in Refs, Delete(c, r)
        PROVE  StoredInv'
    <2>1. \A d \in Clients : Checked(d)'
      BY <1>3, <1>8 DEF Delete
    <2>2. ASSUME NEW s \in Existing', NEW f \in getManager[KindOf[s]].check \ {"uris"}
          PROVE  isValid(f, db'[s].fields[f])
      <3>1. s \in Refs /\ db'[s] # Absent
        BY DEF Existing, Exists
      <3>2. s \in Existing /\ db'[s].fields = [g \in FieldsOf[KindOf[s]] |->
                   IF g \in Links[KindOf[s]] /\ db[s].fields[g] = r THEN None ELSE db[s].fields[g]]
        BY <1>8, <3>1, LeftAfterDelete DEF Delete, Existing, Exists
      <3>3. f \in FieldsOf[KindOf[s]]
        BY <3>1, KindType, Tables DEF TableOK
      <3>4. isValid(f, db[s].fields[f])
        BY <1>1, <3>2 DEF StoredIsValid
      <3>. QED BY <3>2, <3>3, <3>4, NoneIsValid
    <2>. QED BY <2>1, <2>2 DEF StoredInv, StoredIsValid
  <1>9. ASSUME NEW c \in Clients, NEW r \in Refs, CtlOpen(c, r)
        PROVE  StoredInv'
    <2>1. db' = db /\ pc'[c] = "prompt" /\ \A d \in Clients \ {c} : pc'[d] = pc[d] /\ call'[d] = call[d]
      BY <1>1, <1>9 DEF CtlOpen, SessionsOK
    <2>. QED BY <1>2, <1>4, <2>1 DEF StoredInv
  <1>10. ASSUME NEW c \in Clients, CtlAbort(c) \/ UpdateFails(c)
         PROVE  StoredInv'
    BY <1>1, <1>2, <1>4, <1>10, EndedCalls DEF CtlAbort, UpdateFails, StoredInv
  <1>11. CASE Restart
    BY <1>1, <1>2, <1>4, <1>11, RestartedCalls DEF Restart, StoredInv
  <1>12. CASE WalkPage \/ \E k \in Walked : WalkStart(k)
    BY <1>2, <1>3, <1>12 DEF WalkPage, WalkStart, StoredInv
  <1>. QED BY <1>5, <1>6, <1>7, <1>8, <1>9, <1>10, <1>11, <1>12 DEF Step

(* Nothing that its check refuses is ever stored, although an update is    *)
(* checked in fewer fields than a creation, long after and by other code.  *)
THEOREM OnlyValidStored == Spec => []StoredIsValid
  <1>1. TypeOK /\ StoredInv /\ [Next]_vars => StoredInv'
    <2>1. TypeOK /\ StoredInv /\ Next => StoredInv'
      BY NextIsStep, StoredStep
    <2>2. StoredInv /\ UNCHANGED vars => StoredInv'
      BY DEF vars, StoredInv, StoredIsValid, Existing, Exists
    <2>. QED BY <2>1, <2>2
  <1>2. StoredInv => StoredIsValid
    BY DEF StoredInv
  <1>. QED BY <1>1, <1>2, InitStored, TypeCorrect, PTL DEF Spec

-----------------------------------------------------------------------------
(* LinksLead, inductive as it stands over TypeOK.                          *)

\* The links of one row, and the Numbers of its policies, among the rows there are.
FieldsLead(k, fields) ==
    \A f \in Links[k] : fields[f] # None => /\ fields[f] \in Existing
                                            /\ KindOf[fields[f]] = getManager[k].links[f]

KidsLead(k, kids) == k = "domain" => \A n \in KidsOf["domain"] : kids[n] > 0 => n \in Existing

LEMMA LinksLeadIs ==
  LinksLead <=> \A r \in Existing : /\ FieldsLead(KindOf[r], db[r].fields)
                                    /\ KidsLead(KindOf[r], db[r].kids)
  BY DEF LinksLead, FieldsLead, KidsLead

LEMMA NotDangling ==
  ASSUME NEW k, NEW fields, NEW new, ~DanglingLink(k, fields, new)
  PROVE  FieldsLead(k, fields) /\ (k = "domain" => new \subseteq Existing)
  BY DEF DanglingLink, FieldsLead

(* A table in which one row is replaced by one that leads to rows there    *)
(* are, or to itself, still leads.                                         *)
LEMMA ReplacedLeads ==
  ASSUME TypeOK, LinksLead, NEW r \in Refs,
         NEW fields \in [FieldsOf[KindOf[r]] -> Values],
         NEW kids \in [KidsOf[KindOf[r]] -> Nat],
         db' = [db EXCEPT ![r] = [fields |-> fields, kids |-> kids]],
         FieldsLead(KindOf[r], fields), KidsLead(KindOf[r], kids)
  PROVE  LinksLead'
  <1>1. /\ db'[r] = [fields |-> fields, kids |-> kids]
        /\ db'[r].fields = fields /\ db'[r].kids = kids
        /\ \A s \in Refs \ {r} : db'[s] = db[s]
    <2>1. RowsOK
      BY DEF TypeOK
    <2>. QED BY <2>1, ReplacedAt
  <1>2. [fields |-> fields, kids |-> kids] # Absent
    BY KindType, RowType, RowExists
  <1>3. Existing \subseteq Existing'
    BY <1>1, <1>2 DEF Existing, Exists
  <1>4. ASSUME NEW s \in Existing'
        PROVE  FieldsLead(KindOf[s], db[s].fields)' /\ KidsLead(KindOf[s], db[s].kids)'
    <2>1. CASE s = r
      BY <1>1, <1>3, <2>1 DEF FieldsLead, KidsLead
    <2>2. CASE s # r
      <3>1. s \in Existing /\ db'[s] = db[s]
        BY <1>1, <2>2 DEF Existing, Exists
      <3>2. FieldsLead(KindOf[s], db[s].fields) /\ KidsLead(KindOf[s], db[s].kids)
        BY <3>1, LinksLeadIs
      <3>. QED BY <1>3, <3>1, <3>2 DEF FieldsLead, KidsLead
    <2>. QED BY <2>1, <2>2
  <1>. QED BY <1>4 DEF LinksLead, FieldsLead, KidsLead

LEMMA InitLeads == Init => LinksLead
  <1> SUFFICES ASSUME Init, NEW r \in Existing
               PROVE  FieldsLead(KindOf[r], db[r].fields) /\ KidsLead(KindOf[r], db[r].kids)
    BY LinksLeadIs
  <1> DEFINE k == KindOf[r]
  <1>1. r \in Refs /\ k \in Kinds /\ db[r].fields = Seed(k) /\ db[r].kids = NoKids(k)
    BY KindType DEF Existing, Exists, Init
  <1>2. ASSUME NEW f \in Links[k]
        PROVE  db[r].fields[f] = None
    <2>1. f \in FieldsOf[k] /\ f \notin getManager[k].need
      BY <1>1, Tables DEF TableOK
    <2>. QED BY <1>1, <2>1 DEF Seed, mapToPrisma, NoFields
  <1>3. \A n \in KidsOf[k] : db[r].kids[n] = 0
    BY <1>1 DEF NoKids
  <1>. QED BY <1>2, <1>3 DEF FieldsLead, KidsLead

LEMMA LeadsStep ==
  ASSUME TypeOK, LinksLead, Step
  PROVE  LinksLead'
  <1>1. db' = db => LinksLead'
    BY DEF LinksLead, Existing, Exists
  <1>2. ASSUME NEW c \in Clients, NEW r \in Refs, NEW req, NEW new,
               IsCreation(KindOf[r], req), new \subseteq KidsOf[KindOf[r]],
               Create(c, r, req, new), db' # db
        PROVE  LinksLead'
    <2> DEFINE k == KindOf[r]
               fields == mapToPrisma(k, NoFields(k), req)
               kids == WithKids(NoKids(k), new)
    <2>1. /\ ~DanglingLink(k, fields, new)
          /\ db' = [db EXCEPT ![r] = [fields |-> fields, kids |-> kids]]
      BY <1>2, CreateTable
    <2>2. fields \in [FieldsOf[k] -> Values] /\ kids \in [KidsOf[k] -> Nat]
      BY <1>2, CreateTable
    <2>3. \A n \in KidsOf[k] : kids[n] > 0 => n \in new
      BY DEF WithKids, NoKids
    <2>. HIDE DEF fields, kids
    <2>4. FieldsLead(k, fields) /\ KidsLead(k, kids)
      BY <2>1, <2>3, NotDangling DEF KidsLead
    <2>. QED BY <2>1, <2>2, <2>4, ReplacedLeads
  <1>3. ASSUME NEW c \in Clients, NEW r \in Refs, NEW req, NEW new, NEW answers,
               Update(c, r, req, new, answers), db' # db
        PROVE  LinksLead'
    <2>1. /\ KindOf[r] = "trunk" /\ r \in Existing
          /\ NoKids(KindOf[r]) \in [KidsOf[KindOf[r]] -> Nat]
          /\ db' = [db EXCEPT ![r] = [fields |-> db[r].fields, kids |-> NoKids(KindOf[r])]]
      BY <1>3, UpdateTable DEF Existing
    <2>2. db[r].fields \in [FieldsOf[KindOf[r]] -> Values]
      BY <2>1 DEF TypeOK, RowsOK, Rows, Existing, Exists
    <2>3. FieldsLead(KindOf[r], db[r].fields) /\ KidsLead(KindOf[r], NoKids(KindOf[r]))
      BY <2>1, LinksLeadIs DEF KidsLead
    <2>. QED BY <2>1, <2>2, <2>3, ReplacedLeads
  <1>4. ASSUME NEW c \in Clients, UpdateRow(c), db' # db
        PROVE  LinksLead'
    <2> DEFINE r == call[c].ref
               k == KindOf[r]
               fields == mapToPrisma(k, db[r].fields, call[c].req)
               kids == WithKids(db[r].kids, call[c].new)
    <2>1. /\ r \in Refs /\ Exists(r) /\ ~DanglingLink(k, fields, call[c].new)
          /\ fields \in [FieldsOf[k] -> Values] /\ kids \in [KidsOf[k] -> Nat]
          /\ db' = [db EXCEPT ![r] = [fields |-> fields, kids |-> kids]]
      BY <1>4, UpdateRowTable
    <2>2. r \in Existing /\ db[r].kids \in [KidsOf[k] -> Nat]
      BY <2>1 DEF TypeOK, RowsOK, Rows, Existing, Exists
    <2>3. \A n \in KidsOf[k] : kids[n] > 0 => db[r].kids[n] > 0 \/ n \in call[c].new
      BY <2>2 DEF WithKids
    <2>. HIDE DEF fields, kids, r
    <2>4. FieldsLead(k, fields) /\ (k = "domain" => call[c].new \subseteq Existing)
      BY <2>1, NotDangling
    <2>5. KidsLead(k, kids)
      BY <2>2, <2>3, <2>4, LinksLeadIs DEF KidsLead
    <2>. QED BY <2>1, <2>4, <2>5, ReplacedLeads
  <1>5. ASSUME NEW c \in Clients, NEW r \in Refs, Delete(c, r)
        PROVE  LinksLead'
    <2>1. Existing \ {r} \subseteq Existing'
      <3>1. ASSUME NEW s \in Existing \ {r}
            PROVE  db'[s] # Absent
        <4> DEFINE fields == [f \in FieldsOf[KindOf[s]] |->
                                 IF f \in Links[KindOf[s]] /\ db[s].fields[f] = r
                                 THEN None ELSE db[s].fields[f]]
                   kids == Without(db[s].kids, r)
        <4>1. s \in Refs /\ db'[s] = [fields |-> fields, kids |-> kids]
          BY <1>5 DEF Delete, WithoutRow, Existing, Exists
        <4>2. db'[s] \in Rows(KindOf[s]) \cup {Absent}
          BY <1>5, <4>1, WithoutRowType DEF Delete, TypeOK, RowsOK
        <4>3. /\ db[s].fields \in [FieldsOf[KindOf[s]] -> Values]
              /\ db[s].kids \in [KidsOf[KindOf[s]] -> Nat]
          BY DEF TypeOK, RowsOK, Rows, Existing, Exists
        <4>4. fields \in [FieldsOf[KindOf[s]] -> Values]
          BY <4>3 DEF Values
        <4>5. kids \in [KidsOf[KindOf[s]] -> Nat]
          BY <4>1, <4>3, KindType, WithoutType
        <4>. HIDE DEF fields, kids
        <4>. QED BY <4>1, <4>4, <4>5, KindType, RowType, RowExists
      <3>. QED BY <3>1 DEF Existing, Exists
    <2>2. ASSUME NEW s \in Existing'
          PROVE  FieldsLead(KindOf[s], db[s].fields)' /\ KidsLead(KindOf[s], db[s].kids)'
      <3>1. s \in Refs /\ db'[s] # Absent
        BY DEF Existing, Exists
      <3>2. /\ s \in Existing
            /\ db'[s].fields = [f \in FieldsOf[KindOf[s]] |->
                                  IF f \in Links[KindOf[s]] /\ db[s].fields[f] = r
                                  THEN None ELSE db[s].fields[f]]
            /\ db'[s].kids = Without(db[s].kids, r)
        BY <1>5, <3>1, LeftAfterDelete DEF Delete, Existing, Exists
      <3>3. FieldsLead(KindOf[s], db[s].fields) /\ KidsLead(KindOf[s], db[s].kids)
        BY <3>2, LinksLeadIs
      <3>4. \A f \in Links[KindOf[s]] : f \in FieldsOf[KindOf[s]]
        BY <3>1, KindType, Tables DEF TableOK
      <3>5. FieldsLead(KindOf[s], db[s].fields)'
        BY <2>1, <3>2, <3>3, <3>4 DEF FieldsLead
      <3>6. KidsLead(KindOf[s], db[s].kids)'
        <4> SUFFICES ASSUME KindOf[s] = "domain", NEW n \in KidsOf["domain"], db'[s].kids[n] > 0
                     PROVE  n \in Existing'
          BY DEF KidsLead
        <4>1. db[s].kids \in [KidsOf["domain"] -> Nat]
          BY <3>2 DEF TypeOK, RowsOK, Rows, Existing, Exists
        <4>2. n # r /\ db[s].kids[n] > 0
          BY <3>2, <4>1 DEF Without
        <4>. QED BY <2>1, <3>3, <4>2 DEF KidsLead
      <3>. QED BY <3>5, <3>6
    <2>. QED BY <2>2 DEF LinksLead, FieldsLead, KidsLead
  <1>. QED BY <1>1, <1>2, <1>3, <1>4, <1>5 DEF Step, CtlOpen, CtlAbort, UpdateFails, Restart,
              WalkStart, WalkPage

(* No row leads to one that is gone or of another kind, although deletions *)
(* come between the choice of a link, the prompt and the write.            *)
THEOREM LinksAlwaysLead == Spec => []LinksLead
  <1>1. TypeOK /\ LinksLead /\ [Next]_vars => LinksLead'
    <2>1. TypeOK /\ LinksLead /\ Next => LinksLead'
      BY NextIsStep, LeadsStep
    <2>2. LinksLead /\ UNCHANGED vars => LinksLead'
      BY DEF vars, LinksLead, Existing, Exists
    <2>. QED BY <2>1, <2>2
  <1>. QED BY <1>1, InitLeads, TypeCorrect, PTL DEF Spec

-----------------------------------------------------------------------------
(* UrisAsAsked.  A Trunk that is not torn has at most one update between   *)
(* its two queries, and no URI while there is one.                         *)

IsTrunk(r) == KindOf[r] = "trunk" /\ Exists(r)

\* References in use have been born.
BornInv ==
    /\ \A r \in Refs : Exists(r) => born[r] # 0
    /\ \A c \in Clients : pc[c] # "idle" => born[call[c].ref] # 0

UriInvOf(r) ==
    IsTrunk(r) /\ r \notin torn =>
        /\ Replacing(r) = {} => db[r].kids = asked[r]
        /\ \A c \in Replacing(r) : db[r].kids = NoKids("trunk")
        /\ \A c, d \in Replacing(r) : c = d

UriInv == BornInv /\ \A r \in Refs : UriInvOf(r)

LEMMA InitUris == Init => UriInv
  BY DEF Init, UriInv, BornInv, UriInvOf, Exists, IsTrunk, Replacing

(* A Trunk that a step leaves alone: its row, what it was asked for, its   *)
(* mark and the updates of it.                                             *)
LEMMA LeftAlone ==
  ASSUME NEW r \in Refs, UriInvOf(r),
         IsTrunk(r)' => IsTrunk(r) /\ db'[r].kids = db[r].kids,
         asked'[r] = asked[r], r \in torn => r \in torn',
         Replacing(r)' = Replacing(r)
  PROVE  UriInvOf(r)'
  BY DEF UriInvOf

(* Who replaces the URIs of a resource, when only one client moves.        *)
LEMMA OthersReplace ==
  ASSUME NEW c \in Clients, NEW r,
         \A d \in Clients \ {c} : pc'[d] = pc[d] /\ call'[d] = call[d]
  PROVE  /\ Replacing(r)' \ {c} = Replacing(r) \ {c}
         /\ (c \in Replacing(r) <=> c \in Replacing(r)') => Replacing(r)' = Replacing(r)
  BY DEF Replacing

LEMMA BornStep ==
  ASSUME TypeOK, BornInv, Step
  PROVE  BornInv'
  <1>1. SessionsOK /\ RowsOK /\ born \in [Refs -> Nat]
    BY DEF TypeOK
  <1>2. ASSUME NEW c \in Clients, NEW r \in Refs, NEW req, NEW new,
               IsCreation(KindOf[r], req), new \subseteq KidsOf[KindOf[r]],
               Create(c, r, req, new)
        PROVE  BornInv'
    <2>1. CASE db' = db
      <3>1. born' = born \/ born' = [born EXCEPT ![r] = 1 + Cardinality(Young)]
        BY <1>2 DEF Create
      <3>2. Cardinality(Young) \in Nat
        BY ResourcesAssumption, FS_Subset, FS_CardinalityType DEF Young
      <3>3. \A s \in Refs : born[s] # 0 => born'[s] # 0
        BY <1>1, <3>1, <3>2
      <3>4. Restarted \/ (pc' = pc /\ call' = call)
        BY <1>2 DEF Create
      <3>5. \A d \in Clients : pc'[d] # "idle" => pc'[d] = pc[d] /\ call'[d] = call[d]
        BY <1>1, <3>4, RestartedCalls
      <3>6. \A d \in Clients : pc[d] # "idle" => call[d].ref \in Refs
        BY <1>1, CallType
      <3>. QED BY <2>1, <3>3, <3>5, <3>6 DEF BornInv, Exists
    <2>2. CASE db' # db
      <3> DEFINE fields == mapToPrisma(KindOf[r], NoFields(KindOf[r]), req)
                 kids == WithKids(NoKids(KindOf[r]), new)
      <3>1. /\ db' = [db EXCEPT ![r] = [fields |-> fields, kids |-> kids]]
            /\ born' = [born EXCEPT ![r] = 1 + Cardinality(Young)]
            /\ pc' = pc /\ call' = call
        BY <1>2, <2>2, CreateTable
      <3>2. Cardinality(Young) \in Nat
        BY ResourcesAssumption, FS_Subset, FS_CardinalityType DEF Young
      <3>3. born'[r] # 0 /\ \A s \in Refs \ {r} : born'[s] = born[s]
        BY <1>1, <3>1, <3>2
      <3>4. \A s \in Refs \ {r} : db'[s] = db[s]
        BY <1>1, <3>1, ReplacedAt
      <3>5. \A d \in Clients : pc[d] # "idle" => call[d].ref \in Refs
        BY <1>1, CallType
      <3>. QED BY <3>1, <3>3, <3>4, <3>5 DEF BornInv, Exists
    <2>. QED BY <2>1, <2>2
  <1>3. ASSUME NEW c \in Clients, NEW r \in Refs, NEW req, NEW new, NEW answers,
               \/ pc[c] = "idle" /\ born[r] # 0
               \/ pc[c] = "prompt" /\ r = call[c].ref,
               Update(c, r, req, new, answers)
        PROVE  BornInv'
    <2>1. born' = born /\ born[r] # 0
      BY <1>3 DEF Update, BornInv
    <2>2. \A s \in Refs : Exists(s)' => Exists(s)
      <3>1. CASE db' = db
        BY <3>1 DEF Exists
      <3>2. CASE db' # db
        <4>1. /\ Exists(r)
              /\ db' = [db EXCEPT ![r] = [fields |-> db[r].fields, kids |-> NoKids(KindOf[r])]]
          BY <1>3, <3>2, UpdateTable
        <4>2. \A s \in Refs \ {r} : db'[s] = db[s]
          BY <1>1, <4>1, ReplacedAt
        <4>. QED BY <4>1, <4>2 DEF Exists
      <3>. QED BY <3>1, <3>2
    <2>3. CASE Ended(c)
      BY <1>1, <2>1, <2>2, <2>3, EndedCalls DEF BornInv
    <2>4. CASE /\ pc' = [pc EXCEPT ![c] = "updating"]
               /\ call' = [call EXCEPT ![c] = [ref |-> r, req |-> req, new |-> new]]
      <3>1. call'[c].ref = r /\ \A d \in Clients \ {c} : pc'[d] = pc[d] /\ call'[d] = call[d]
        BY <1>1, <2>4 DEF SessionsOK
      <3>. QED BY <2>1, <2>2, <3>1 DEF BornInv
    <2>. QED BY <1>3, <2>3, <2>4 DEF Update
  <1>4. ASSUME NEW c \in Clients, UpdateRow(c)
        PROVE  BornInv'
    <2>1. \A s \in Refs : Exists(s)' => Exists(s)
      <3>1. CASE db' = db
        BY <3>1 DEF Exists
      <3>2. CASE db' # db
        <4> DEFINE r == call[c].ref
                   fields == mapToPrisma(KindOf[r], db[r].fields, call[c].req)
                   kids == WithKids(db[r].kids, call[c].new)
        <4>1. /\ r \in Refs /\ Exists(r)
              /\ db' = [db EXCEPT ![r] = [fields |-> fields, kids |-> kids]]
          BY <1>4, <3>2, UpdateRowTable
        <4>. HIDE DEF r, fields, kids
        <4>2. \A s \in Refs \ {r} : db'[s] = db[s]
          BY <1>1, <4>1, ReplacedAt
        <4>. QED BY <4>1, <4>2 DEF Exists
      <3>. QED BY <3>1, <3>2
    <2>. QED BY <1>1, <1>4, <2>1, EndedCalls DEF UpdateRow, BornInv
  <1>5. ASSUME NEW c \in Clients, CtlAbort(c) \/ UpdateFails(c)
        PROVE  BornInv'
    BY <1>1, <1>5, EndedCalls DEF CtlAbort, UpdateFails, BornInv, Exists
  <1>6. ASSUME NEW c \in Clients, NEW r \in Refs, Delete(c, r)
        PROVE  BornInv'
    BY <1>6, LeftAfterDelete DEF Delete, BornInv, Exists
  <1>7. ASSUME NEW c \in Clients, NEW r \in Refs, CtlOpen(c, r)
        PROVE  BornInv'
    <2>1. [NoCall EXCEPT !.ref = r].ref = r
      BY DEF NoCall
    <2>2. call'[c].ref = r /\ \A d \in Clients \ {c} : pc'[d] = pc[d] /\ call'[d] = call[d]
      BY <1>1, <1>7, <2>1 DEF CtlOpen, SessionsOK
    <2>. QED BY <1>7, <2>2 DEF CtlOpen, BornInv, Exists
  <1>8. CASE Restart
    BY <1>1, <1>8, RestartedCalls DEF Restart, BornInv, Exists
  <1>9. CASE WalkPage \/ \E k \in Walked : WalkStart(k)
    BY <1>9 DEF WalkPage, WalkStart, BornInv, Exists
  <1>. QED BY <1>2, <1>3, <1>4, <1>5, <1>6, <1>7, <1>8, <1>9 DEF Step

(* The URIs of a Trunk and those it was asked for are not Numbers, and a   *)
(* deletion leaves them.                                                   *)
LEMMA TrunkKids ==
  ASSUME NEW kids \in [KidsOf["trunk"] -> Nat], NEW r \in Refs
  PROVE  Without(kids, r) = kids
  <1>1. KidsOf["trunk"] = Uris
    BY DEF KidsOf, Kinds
  <1>. QED BY <1>1, UrisAreNotRefs DEF Without

LEMMA UriStep ==
  ASSUME TypeOK, UriInv, Step
  PROVE  \A s \in Refs : UriInvOf(s)'
  <1>1. SessionsOK /\ RowsOK /\ AskedOK
    BY DEF TypeOK
  <1>. SUFFICES ASSUME NEW s \in Refs, IsTrunk(s)', s \notin torn'
                PROVE  UriInvOf(s)'
    BY DEF UriInvOf
  <1>2. UriInvOf(s) /\ BornInv /\ KindOf[s] = "trunk"
    BY DEF UriInv, IsTrunk
  <1>3. (db' = db /\ asked' = asked /\ torn' = torn /\ Replacing(s)' = Replacing(s)) => UriInvOf(s)'
    BY <1>2, LeftAlone DEF IsTrunk, Exists
  <1>4. (pc' = pc /\ call' = call) => Replacing(s)' = Replacing(s)
    BY DEF Replacing
  <1>5. ASSUME Restarted, db' = db, asked' = asked
        PROVE  UriInvOf(s)'
    <2>1. Replacing(s)' = {}
      BY <1>1, <1>5, RestartedCalls DEF Replacing
    <2>2. Replacing(s) = {} /\ s \notin torn
      BY <1>2, <1>5 DEF Restarted
    <2>. QED BY <1>2, <1>5, <2>1, <2>2 DEF UriInvOf, IsTrunk, Exists
  <1>6. ASSUME NEW c \in Clients, NEW r \in Refs, NEW req, NEW new,
               IsCreation(KindOf[r], req), new \subseteq KidsOf[KindOf[r]],
               Create(c, r, req, new)
        PROVE  UriInvOf(s)'
    <2> DEFINE fields == mapToPrisma(KindOf[r], NoFields(KindOf[r]), req)
               kids == WithKids(NoKids(KindOf[r]), new)
    <2>1. CASE Restarted /\ UNCHANGED <<db, born, asked>>
      BY <1>5, <2>1
    <2>2. CASE UNCHANGED <<db, born, asked, pc, call, prompt, torn>>
      BY <1>3, <1>4, <2>2
    <2>3. CASE /\ db' = [db EXCEPT ![r] = [fields |-> fields, kids |-> kids]]
               /\ asked' = [asked EXCEPT ![r] = kids]
               /\ UNCHANGED <<pc, call, prompt, torn>>
      <3>. HIDE DEF fields, kids
      <3>1. db'[r].kids = kids /\ \A q \in Refs \ {r} : db'[q] = db[q]
        <4>1. RowsOK /\ db' = [db EXCEPT ![r] = [fields |-> fields, kids |-> kids]]
          BY <1>1, <2>3
        <4>. QED BY <4>1 DEF RowsOK
      <3>2. asked'[r] = kids /\ \A q \in Refs \ {r} : asked'[q] = asked[q]
        BY <1>1, <2>3 DEF AskedOK
      <3>3. CASE s = r
        <4>1. born[r] = 0
          BY <1>6 DEF Create
        <4>2. Replacing(r)' = {}
          BY <1>2, <2>3, <4>1 DEF BornInv, Replacing
        <4>. QED BY <3>1, <3>2, <3>3, <4>2 DEF UriInvOf
      <3>4. CASE s # r
        BY <1>2, <1>4, <2>3, <3>1, <3>2, <3>4, LeftAlone DEF IsTrunk, Exists
      <3>. QED BY <3>3, <3>4
    <2>. QED BY <1>6, <2>1, <2>2, <2>3 DEF Create
  <1>7. ASSUME NEW c \in Clients, NEW r \in Refs, NEW req, NEW new, NEW answers,
               pc[c] # "updating", Update(c, r, req, new, answers)
        PROVE  UriInvOf(s)'
    <2>1. asked' = asked /\ c \notin Replacing(s)
      BY <1>7 DEF Update, Replacing
    <2>2. CASE Ended(c) /\ UNCHANGED <<db, torn>>
      <3>1. Replacing(s)' = Replacing(s)
        BY <1>1, <2>1, <2>2, EndedCalls, OthersReplace DEF Replacing
      <3>. QED BY <1>3, <2>1, <2>2, <3>1
    <2>3. CASE /\ pc' = [pc EXCEPT ![c] = "updating"]
               /\ call' = [call EXCEPT ![c] = [ref |-> r, req |-> req, new |-> new]]
               /\ IF DeletesFirst(KindOf[r], new)
                  THEN /\ db' = IF Exists(r) THEN [db EXCEPT ![r].kids = NoKids(KindOf[r])] ELSE db
                       /\ torn' = IF Replacing(r) = {} THEN torn \ {r} ELSE torn \cup {r}
                  ELSE UNCHANGED <<db, torn>>
      <3>1. /\ pc'[c] = "updating" /\ call'[c].ref = r /\ call'[c].new = new
            /\ \A d \in Clients \ {c} : pc'[d] = pc[d] /\ call'[d] = call[d]
        BY <1>1, <2>3 DEF SessionsOK
      <3>2. c \in Replacing(s)' <=> s = r /\ new # {}
        BY <3>1 DEF Replacing
      <3>3. CASE s = r /\ new # {}
        <4>1. /\ DeletesFirst(KindOf[r], new) /\ Replacing(r) = {}
              /\ db' = IF Exists(r) THEN [db EXCEPT ![r].kids = NoKids(KindOf[r])] ELSE db
          BY <1>2, <2>3, <3>3 DEF DeletesFirst
        <4>2. Exists(r)
          BY <3>3, <4>1 DEF IsTrunk, Exists
        <4>3. db'[r].kids = NoKids("trunk")
          BY <1>1, <1>2, <3>3, <4>1, <4>2 DEF RowsOK, Rows, Exists
        <4>4. Replacing(r)' \subseteq {c}
          BY <3>1, <4>1, OthersReplace
        <4>5. Replacing(r)' # {}
          BY <3>2, <3>3
        <4>. QED BY <3>3, <4>3, <4>4, <4>5 DEF UriInvOf
      <3>4. CASE ~(s = r /\ new # {})
        <4>1. Replacing(s)' = Replacing(s)
          BY <2>1, <3>1, <3>2, <3>4, OthersReplace
        <4>2. CASE ~DeletesFirst(KindOf[r], new)
          BY <1>3, <2>1, <2>3, <4>1, <4>2
        <4>3. CASE DeletesFirst(KindOf[r], new)
          <5>1. s # r
            BY <3>4, <4>3 DEF DeletesFirst
          <5>2. db'[s] = db[s] /\ (s \in torn => s \in torn')
            BY <1>1, <2>3, <4>3, <5>1 DEF RowsOK
          <5>. QED BY <1>2, <2>1, <4>1, <5>2, LeftAlone DEF IsTrunk, Exists
        <4>. QED BY <4>2, <4>3
      <3>. QED BY <3>3, <3>4
    <2>. QED BY <1>7, <2>2, <2>3 DEF Update
  <1>8. ASSUME NEW c \in Clients, UpdateRow(c)
        PROVE  UriInvOf(s)'
    <2> DEFINE r == call[c].ref
               new == call[c].new
               fields == mapToPrisma(KindOf[r], db[r].fields, call[c].req)
               kids == WithKids(db[r].kids, new)
    <2>1. /\ pc[c] = "updating" /\ pc'[c] = "idle" /\ r \in Refs
          /\ \A d \in Clients \ {c} : pc'[d] = pc[d] /\ call'[d] = call[d]
      BY <1>1, <1>8, EndedCalls, CallType DEF UpdateRow
    <2>2. c \in Replacing(s) <=> s = r /\ new # {}
      BY <2>1 DEF Replacing
    <2>3. c \notin Replacing(s)'
      BY <2>1 DEF Replacing
    <2>4. CASE /\ db' = [db EXCEPT ![r] = [fields |-> fields, kids |-> kids]]
               /\ asked' = IF new = {} THEN asked ELSE [asked EXCEPT ![r] = WithKids(NoKids(KindOf[r]), new)]
               /\ Exists(r) /\ torn' = torn
      <3>1. db'[r].kids = kids /\ \A q \in Refs \ {r} : db'[q] = db[q]
        <4>1. RowsOK /\ r \in Refs /\ db' = [db EXCEPT ![r] = [fields |-> fields, kids |-> kids]]
          BY <1>1, <2>1, <2>4
        <4>. HIDE DEF fields, kids, r
        <4>. QED BY <4>1 DEF RowsOK
      <3>2. new # {} => asked'[r] = WithKids(NoKids(KindOf[r]), new)
        BY <1>1, <2>1, <2>4 DEF AskedOK
      <3>3. \A q \in Refs \ {r} : asked'[q] = asked[q]
        BY <1>1, <2>1, <2>4 DEF AskedOK
      <3>4. CASE s = r /\ new # {}
        <4>1. IsTrunk(s)
          BY <1>2, <2>4, <3>4 DEF IsTrunk
        <4>2. Replacing(s) = {c} /\ db[s].kids = NoKids("trunk")
          BY <1>2, <2>2, <2>4, <3>4, <4>1 DEF UriInvOf
        <4>3. Replacing(s)' = {}
          BY <2>1, <2>3, <4>2, OthersReplace
        <4>4. db'[s].kids = asked'[s]
          BY <1>2, <3>1, <3>2, <3>4, <4>2
        <4>. QED BY <4>3, <4>4 DEF UriInvOf
      <3>5. CASE s = r /\ new = {}
        <4>1. db[r].kids \in [KidsOf[KindOf[r]] -> Nat]
          BY <1>1, <2>1, <2>4 DEF RowsOK, Rows, Exists
        <4>2. kids = db[r].kids
          BY <3>5, <4>1 DEF WithKids
        <4>3. Replacing(s)' = Replacing(s)
          BY <2>1, <2>2, <2>3, <3>5, OthersReplace
        <4>. HIDE DEF kids
        <4>. QED BY <1>2, <2>4, <3>1, <3>5, <4>2, <4>3, LeftAlone DEF IsTrunk
      <3>6. CASE s # r
        <4>1. Replacing(s)' = Replacing(s)
          BY <2>1, <2>2, <2>3, <3>6, OthersReplace
        <4>. QED BY <1>2, <2>4, <3>1, <3>3, <3>6, <4>1, LeftAlone DEF IsTrunk, Exists
      <3>. QED BY <3>4, <3>5, <3>6
    <2>5. CASE /\ torn' = IF KindOf[r] = "trunk" /\ new # {} THEN torn \cup {r} ELSE torn
               /\ UNCHANGED <<db, asked>>
      <3>1. ~(s = r /\ new # {})
        BY <1>2, <2>5
      <3>2. Replacing(s)' = Replacing(s)
        BY <2>1, <2>2, <2>3, <3>1, OthersReplace
      <3>3. s \in torn => s \in torn'
        BY <2>5
      <3>. QED BY <1>2, <2>5, <3>2, <3>3, LeftAlone DEF IsTrunk, Exists
    <2>. QED BY <1>8, <2>4, <2>5 DEF UpdateRow
  <1>9. ASSUME NEW c \in Clients, UpdateFails(c)
        PROVE  UriInvOf(s)'
    <2> DEFINE r == call[c].ref
               new == call[c].new
    <2>1. /\ pc[c] = "updating" /\ pc'[c] = "idle"
          /\ \A d \in Clients \ {c} : pc'[d] = pc[d] /\ call'[d] = call[d]
      BY <1>1, <1>9, EndedCalls DEF UpdateFails
    <2>2. /\ torn' = IF KindOf[r] = "trunk" /\ new # {} THEN torn \cup {r} ELSE torn
          /\ db' = db /\ asked' = asked
      BY <1>9 DEF UpdateFails
    <2>3. ~(s = r /\ new # {})
      BY <1>2, <2>2
    <2>4. Replacing(s)' = Replacing(s)
      BY <2>1, <2>3, OthersReplace DEF Replacing
    <2>5. s \in torn => s \in torn'
      BY <2>2
    <2>. QED BY <1>2, <2>2, <2>4, <2>5, LeftAlone DEF IsTrunk, Exists
  <1>10. ASSUME NEW c \in Clients, NEW r \in Refs, Delete(c, r)
         PROVE  UriInvOf(s)'
    <2>1. /\ s # r /\ Exists(s) /\ db'[s].kids = Without(db[s].kids, r)
      BY <1>10, LeftAfterDelete DEF Delete, IsTrunk, Exists
    <2>2. db[s].kids \in [KidsOf["trunk"] -> Nat] /\ asked[s] \in [KidsOf["trunk"] -> Nat]
      BY <1>1, <1>2, <2>1 DEF RowsOK, Rows, AskedOK, Exists
    <2>3. asked'[s] = Without(asked[s], r)
      BY <1>10, <2>1 DEF Delete
    <2>4. db'[s].kids = db[s].kids /\ asked'[s] = asked[s]
      BY <2>1, <2>2, <2>3, TrunkKids
    <2>. QED BY <1>2, <1>4, <1>10, <2>1, <2>4, LeftAlone DEF Delete, IsTrunk
  <1>11. ASSUME NEW c \in Clients, NEW r \in Refs, CtlOpen(c, r)
         PROVE  UriInvOf(s)'
    <2>1. /\ pc[c] = "idle" /\ pc'[c] = "prompt"
          /\ \A d \in Clients \ {c} : pc'[d] = pc[d] /\ call'[d] = call[d]
      BY <1>1, <1>11 DEF CtlOpen, SessionsOK
    <2>2. Replacing(s)' = Replacing(s)
      BY <2>1, OthersReplace DEF Replacing
    <2>. QED BY <1>3, <1>11, <2>2 DEF CtlOpen
  <1>12. ASSUME NEW c \in Clients, CtlAbort(c)
         PROVE  UriInvOf(s)'
    <2>1. /\ pc[c] = "prompt" /\ pc'[c] = "idle"
          /\ \A d \in Clients \ {c} : pc'[d] = pc[d] /\ call'[d] = call[d]
      BY <1>1, <1>12, EndedCalls DEF CtlAbort
    <2>2. Replacing(s)' = Replacing(s)
      BY <2>1, OthersReplace DEF Replacing
    <2>. QED BY <1>3, <1>12, <2>2 DEF CtlAbort
  <1>13. CASE Restart
    BY <1>5, <1>13 DEF Restart
  <1>14. CASE WalkPage \/ \E k \in Walked : WalkStart(k)
    BY <1>3, <1>4, <1>14 DEF WalkPage, WalkStart
  <1>. QED BY <1>6, <1>7, <1>8, <1>9, <1>10, <1>11, <1>12, <1>13, <1>14 DEF Step

(* A Trunk that no failed, cut off or overlapping update has touched since *)
(* its URIs were last replaced alone has those that were asked for.        *)
THEOREM UrisKept == Spec => []UrisAsAsked
  <1>1. TypeOK /\ UriInv /\ [Next]_vars => UriInv'
    <2>1. TypeOK /\ UriInv /\ Next => UriInv'
      BY NextIsStep, BornStep, UriStep DEF UriInv
    <2>2. UriInv /\ UNCHANGED vars => UriInv'
      BY DEF vars, UriInv, BornInv, UriInvOf, IsTrunk, Exists, Replacing
    <2>. QED BY <2>1, <2>2
  <1>2. UriInv => UrisAsAsked
    BY DEF UriInv, UriInvOf, UrisAsAsked, IsTrunk, Existing
  <1>. QED BY <1>1, <1>2, InitUris, TypeCorrect, PTL DEF Spec

-----------------------------------------------------------------------------
(* WalkShowsAll.  Everything the walk had to show that is not older than   *)
(* the last one shown has been shown, and everything shown is not older.   *)

WalkInv ==
    /\ ~walk.twice
    /\ walk.pc = "none" => walk.token = None
    /\ walk.token = None => walk.shown = {}
    /\ \A r \in walk.since : born[r] # 0 /\ KindOf[r] = walk.kind
    /\ \A r \in walk.shown : born[r] # 0
    /\ walk.token # None =>
          /\ walk.token \in walk.shown
          /\ \A r \in walk.shown : born[walk.token] <= born[r]
          /\ \A r \in walk.since \cap Existing : born[walk.token] <= born[r] => r \in walk.shown
    /\ walk.pc = "done" /\ ~walk.cut => walk.since \cap Existing \subseteq walk.shown

\* The resources that are left to show, and those of them newer than r.
After(k, token) == {r \in Existing : /\ KindOf[r] = k
                                     /\ token # None => Exists(token) /\ born[r] < born[token]}
Newer(S, r)     == {s \in S : born[s] > born[r]}

LEMMA PageIs ==
  ASSUME NEW k, NEW token
  PROVE  Page(k, token) = {r \in After(k, token) : Cardinality(Newer(After(k, token), r)) < PageSize}
  BY DEF Page, After, Newer

LEMMA NewerFinite ==
  ASSUME NEW S \in SUBSET Refs, NEW r
  PROVE  IsFiniteSet(Newer(S, r)) /\ Cardinality(Newer(S, r)) \in Nat
  BY ResourcesAssumption, FS_Subset, FS_CardinalityType DEF Newer

(* A resource that is newer than another has fewer that are newer still.   *)
LEMMA NewerShrinks ==
  ASSUME born \in [Refs -> Nat], NEW S \in SUBSET Refs, NEW r \in S, NEW s \in S, born[r] <= born[s]
  PROVE  /\ Cardinality(Newer(S, s)) <= Cardinality(Newer(S, r))
         /\ born[r] < born[s] => Cardinality(Newer(S, s)) < Cardinality(Newer(S, r))
  <1>1. Newer(S, s) \subseteq Newer(S, r)
    BY DEF Newer
  <1>2. /\ IsFiniteSet(Newer(S, r))
        /\ Cardinality(Newer(S, s)) \in Nat /\ Cardinality(Newer(S, r)) \in Nat
    BY NewerFinite
  <1>3. /\ Cardinality(Newer(S, s)) <= Cardinality(Newer(S, r))
        /\ Cardinality(Newer(S, s)) = Cardinality(Newer(S, r)) => Newer(S, s) = Newer(S, r)
    BY <1>1, <1>2, FS_Subset
  <1>4. ASSUME born[r] < born[s]
        PROVE  Newer(S, s) # Newer(S, r)
    <2>1. s \in Newer(S, r) /\ s \notin Newer(S, s)
      BY <1>4 DEF Newer
    <2>. QED BY <2>1
  <1>. QED BY <1>2, <1>3, <1>4

(* A page is empty only when nothing is left.                              *)
LEMMA PageEmpty ==
  ASSUME born \in [Refs -> Nat], NEW k, NEW token, Page(k, token) = {}
  PROVE  After(k, token) = {}
  <1> DEFINE S == After(k, token)
  <1>1. SUFFICES ASSUME S # {} PROVE FALSE
    OBVIOUS
  <1>2. S \subseteq Refs
    BY DEF After, Existing
  <1>3. \A x \in S : ~(Cardinality(Newer(S, x)) < PageSize)
    BY PageIs
  <1>. HIDE DEF S
  <1>4. PICK x \in S : \A y \in S : Cardinality(Newer(S, x)) <= Cardinality(Newer(S, y))
    <2> DEFINE age == [y \in S |-> Cardinality(Newer(S, y))]
    <2>1. \A y \in S : age[y] \in Nat
      BY <1>2, NewerFinite
    <2>. HIDE DEF age
    <2>2. \E y \in S : \A z \in S : age[y] <= age[z]
      BY <1>1, <2>1, OldestExists
    <2>. QED BY <2>2 DEF age
  <1>5. Newer(S, x) = {}
    <2> SUFFICES ASSUME NEW y \in Newer(S, x) PROVE FALSE
      OBVIOUS
    <2>1. y \in S /\ born[x] < born[y]
      BY <1>2 DEF Newer
    <2>2. Cardinality(Newer(S, y)) < Cardinality(Newer(S, x))
      BY <1>2, <2>1, NewerShrinks
    <2>3. Cardinality(Newer(S, y)) \in Nat /\ Cardinality(Newer(S, x)) \in Nat
      BY <1>2, NewerFinite
    <2>. QED BY <1>4, <2>1, <2>2, <2>3
  <1>6. Cardinality(Newer(S, x)) = 0
    BY <1>5, FS_EmptySet
  <1>. QED BY <1>3, <1>6, ResourcesAssumption

(* What is left and no newer than the last one of a page is in the page.   *)
LEMMA PageReaches ==
  ASSUME born \in [Refs -> Nat], NEW k, NEW token,
         NEW last \in Page(k, token), NEW r \in After(k, token), born[last] <= born[r]
  PROVE  r \in Page(k, token)
  <1> DEFINE S == After(k, token)
  <1>1. S \subseteq Refs
    BY DEF After, Existing
  <1>2. last \in S /\ Cardinality(Newer(S, last)) < PageSize
    BY PageIs
  <1>. HIDE DEF S
  <1>3. Cardinality(Newer(S, r)) <= Cardinality(Newer(S, last))
    BY <1>1, <1>2, NewerShrinks DEF S
  <1>4. Cardinality(Newer(S, r)) \in Nat /\ Cardinality(Newer(S, last)) \in Nat
    BY <1>1, NewerFinite
  <1>5. Cardinality(Newer(S, r)) < PageSize
    BY <1>2, <1>3, <1>4, ResourcesAssumption
  <1>. QED BY <1>5, PageIs DEF S

(* No step gives a reference that is in use another age, or brings back a  *)
(* resource that was deleted.                                              *)
AgesKept ==
    /\ \A r \in Refs : born[r] # 0 => born'[r] = born[r]
    /\ \A r \in Refs : Exists(r)' => Exists(r) \/ born[r] = 0

LEMMA StepKeepsAges ==
  ASSUME TypeOK, BornInv, Step
  PROVE  AgesKept
  <1>1. RowsOK /\ born \in [Refs -> Nat]
    BY DEF TypeOK
  <1>2. (db' = db /\ born' = born) => AgesKept
    BY DEF AgesKept, Exists
  <1>3. ASSUME NEW c \in Clients, NEW r \in Refs, NEW req, NEW new, Create(c, r, req, new)
        PROVE  AgesKept
    <2> DEFINE row == [fields |-> mapToPrisma(KindOf[r], NoFields(KindOf[r]), req),
                       kids |-> WithKids(NoKids(KindOf[r]), new)]
    <2>1. born[r] = 0
      BY <1>3 DEF Create
    <2>2. \/ db' = db /\ born' = born
          \/ /\ db' = [db EXCEPT ![r] = row]
             /\ born' = [born EXCEPT ![r] = 1 + Cardinality(Young)]
      BY <1>3 DEF Create
    <2>. HIDE DEF row
    <2>3. \A s \in Refs \ {r} : db'[s] = db[s] /\ born'[s] = born[s]
      BY <1>1, <2>2 DEF RowsOK
    <2>. QED BY <2>1, <2>3 DEF AgesKept, Exists
  <1>4. ASSUME NEW c \in Clients, NEW r \in Refs, NEW req, NEW new, NEW answers,
               Update(c, r, req, new, answers)
        PROVE  AgesKept
    <2>1. born' = born
      BY <1>4 DEF Update
    <2>2. CASE db' # db
      <3>1. Exists(r) /\ db' = [db EXCEPT ![r] = [fields |-> db[r].fields, kids |-> NoKids(KindOf[r])]]
        BY <1>4, <2>2, UpdateTable
      <3>2. \A s \in Refs \ {r} : db'[s] = db[s]
        BY <1>1, <3>1, ReplacedAt
      <3>. QED BY <2>1, <3>1, <3>2 DEF AgesKept, Exists
    <2>. QED BY <1>2, <2>1, <2>2
  <1>5. ASSUME NEW c \in Clients, UpdateRow(c)
        PROVE  AgesKept
    <2>1. born' = born
      BY <1>5 DEF UpdateRow
    <2>2. CASE db' # db
      <3> DEFINE r == call[c].ref
                 fields == mapToPrisma(KindOf[r], db[r].fields, call[c].req)
                 kids == WithKids(db[r].kids, call[c].new)
      <3>1. /\ r \in Refs /\ Exists(r)
            /\ db' = [db EXCEPT ![r] = [fields |-> fields, kids |-> kids]]
        BY <1>5, <2>2, UpdateRowTable
      <3>. HIDE DEF r, fields, kids
      <3>2. \A s \in Refs \ {r} : db'[s] = db[s]
        BY <1>1, <3>1 DEF RowsOK
      <3>. QED BY <2>1, <3>1, <3>2 DEF AgesKept, Exists
    <2>. QED BY <1>2, <2>1, <2>2
  <1>6. ASSUME NEW c \in Clients, NEW r \in Refs, Delete(c, r)
        PROVE  AgesKept
    BY <1>6, LeftAfterDelete DEF Delete, AgesKept, Exists
  <1>. QED BY <1>2, <1>3, <1>4, <1>5, <1>6 DEF Step, CtlOpen, CtlAbort, UpdateFails, Restart,
              WalkStart, WalkPage

(* A walk that stands still keeps its invariant whatever happens around it. *)
LEMMA WalkAlone ==
  ASSUME TypeOK, WalkInv, AgesKept, walk' = walk
  PROVE  WalkInv'
  <1>1. walk.since \subseteq Refs /\ walk.shown \subseteq Refs /\ walk.token \in Refs \cup {None}
    BY DEF TypeOK
  <1>2. \A r \in walk.since \cup walk.shown : born'[r] = born[r] /\ born[r] # 0
    BY <1>1 DEF WalkInv, AgesKept
  <1>3. walk.since \cap Existing' \subseteq Existing
    BY <1>1, <1>2 DEF AgesKept, Existing
  <1>4. walk.token # None => born'[walk.token] = born[walk.token]
    BY <1>2 DEF WalkInv
  <1>. QED BY <1>2, <1>3, <1>4 DEF WalkInv

LEMMA WalkStartInv ==
  ASSUME TypeOK, BornInv, WalkInv, NEW k \in Walked, WalkStart(k)
  PROVE  WalkInv'
  <1> DEFINE since == {r \in Existing : KindOf[r] = k}
  <1>1. /\ walk' = [walk EXCEPT !.pc = "next", !.kind = k, !.since = since]
        /\ walk.pc = "none" /\ born' = born
    BY DEF WalkStart
  <1>2. /\ walk'.pc = "next" /\ walk'.kind = k /\ walk'.since = since
        /\ walk'.token = walk.token /\ walk'.shown = walk.shown /\ walk'.twice = walk.twice
    BY <1>1 DEF TypeOK
  <1>3. \A r \in since : born[r] # 0 /\ KindOf[r] = k
    BY DEF BornInv, Existing
  <1>. HIDE DEF since
  <1>. QED BY <1>1, <1>2, <1>3 DEF WalkInv

LEMMA WalkPageInv ==
  ASSUME TypeOK, BornInv, WalkInv, WalkPage
  PROVE  WalkInv'
  <1> DEFINE items == Page(walk.kind, walk.token)
             left == After(walk.kind, walk.token)
             last == CHOOSE r \in items : \A s \in items : born[r] <= born[s]
             cut == walk.token # None /\ ~Exists(walk.token)
             twice == walk.twice \/ items \cap walk.shown # {}
  <1>1. /\ walk.pc = "next" /\ born' = born /\ Existing' = Existing
        /\ walk' = IF items = {} THEN [walk EXCEPT !.pc = "done", !.cut = cut]
                   ELSE [walk EXCEPT !.token = last, !.shown = walk.shown \cup items, !.twice = twice]
    BY DEF WalkPage, Existing, Exists
  <1>2. born \in [Refs -> Nat] /\ items \subseteq left /\ left \subseteq Existing /\ Existing \subseteq Refs
    BY PageIs DEF TypeOK, After, Existing
  <1>3. \A r \in items : /\ born[r] # 0
                         /\ walk.token # None => born[r] < born[walk.token]
    BY <1>2 DEF BornInv, After, Existing
  <1>4. walk.token # None => born[walk.token] \in Nat
    BY <1>2 DEF TypeOK
  <1>5. \A r \in walk.since \cap Existing : r \in walk.shown \/ r \in left \/ cut
    <2> SUFFICES ASSUME NEW r \in walk.since \cap Existing, r \notin walk.shown, ~cut
                 PROVE  r \in left
      OBVIOUS
    <2>1. KindOf[r] = walk.kind /\ born[r] \in Nat
      BY <1>2 DEF WalkInv
    <2>2. walk.token # None => Exists(walk.token) /\ born[r] < born[walk.token]
      BY <1>4, <2>1 DEF WalkInv
    <2>. QED BY <2>1, <2>2 DEF After
  <1>6. CASE items = {}
    <2>1. left = {}
      BY <1>2, <1>6, PageEmpty
    <2>. HIDE DEF items, left, cut
    <2>2. /\ walk'.pc = "done" /\ walk'.cut = cut /\ walk'.kind = walk.kind
          /\ walk'.since = walk.since /\ walk'.token = walk.token
          /\ walk'.shown = walk.shown /\ walk'.twice = walk.twice
      BY <1>1, <1>6 DEF TypeOK
    <2>3. ~cut => walk.since \cap Existing \subseteq walk.shown
      BY <1>5, <2>1
    <2>. QED BY <1>1, <2>2, <2>3 DEF WalkInv
  <1>7. CASE items # {}
    <2>1. last \in items
      BY <1>2, <1>7, OldestExists
    <2>2. \A r \in items : born[last] <= born[r]
      <3>1. \E r \in items : \A s \in items : born[r] <= born[s]
        BY <1>2, <1>7, OldestExists
      <3>. HIDE DEF items
      <3>. QED BY <3>1
    <2>3. last \in Refs /\ last # None
      BY <1>2, <2>1, MarksAreNotValues
    <2>4. ~twice
      BY <1>2, <1>3, <1>4 DEF WalkInv, TypeOK
    <2>5. \A r \in walk.shown : walk.token # None /\ born[walk.token] <= born[r] /\ born[r] \in Nat
      BY <1>2 DEF WalkInv, TypeOK
    <2>6. \A r \in walk.shown \cup items : born[last] <= born[r] /\ born[r] # 0
      <3>. HIDE DEF items, left, last
      <3>1. born[last] \in Nat /\ (walk.token # None => born[last] < born[walk.token])
        BY <1>2, <1>3, <2>1, <2>3
      <3>2. \A r \in walk.shown : born[last] <= born[r]
        BY <1>4, <2>5, <3>1
      <3>3. \A r \in walk.shown : born[r] # 0
        BY DEF WalkInv
      <3>. QED BY <1>3, <2>2, <3>2, <3>3
    <2>7. \A r \in walk.since \cap Existing : born[last] <= born[r] => r \in walk.shown \cup items
      <3> SUFFICES ASSUME NEW r \in walk.since \cap Existing, born[last] <= born[r],
                          r \notin walk.shown
                   PROVE  r \in items
        OBVIOUS
      <3>1. ~cut
        BY <1>2, <2>1 DEF After
      <3>2. r \in left
        BY <1>5, <3>1
      <3>. QED BY <1>2, <2>1, <3>2, PageReaches
    <2>. HIDE DEF items, left, last, cut, twice
    <2>8. /\ walk'.pc = "next" /\ walk'.kind = walk.kind /\ walk'.since = walk.since
          /\ walk'.token = last /\ walk'.shown = walk.shown \cup items /\ walk'.twice = twice
      BY <1>1, <1>7 DEF TypeOK
    <2>. QED BY <1>1, <2>1, <2>3, <2>4, <2>6, <2>7, <2>8 DEF WalkInv
  <1>. QED BY <1>6, <1>7

(* A walk of a list shows all that is there from its start to its end and  *)
(* nothing twice, unless the last one it showed is deleted before it asks  *)
(* for more: for any page, any number of rows and whatever changes.        *)
THEOREM WalkComplete == Spec => []WalkShowsAll
  <1>1. Init => BornInv /\ WalkInv
    BY InitUris DEF UriInv, Init, WalkInv
  <1>2. TypeOK /\ BornInv /\ WalkInv /\ [Next]_vars => BornInv' /\ WalkInv'
    <2>1. ASSUME TypeOK, BornInv, WalkInv, Next
          PROVE  BornInv' /\ WalkInv'
      <3>1. Step /\ BornInv' /\ AgesKept
        BY <2>1, NextIsStep, BornStep, StepKeepsAges
      <3>2. CASE walk' = walk
        BY <2>1, <3>1, <3>2, WalkAlone
      <3>3. CASE \E k \in Walked : WalkStart(k)
        BY <2>1, <3>1, <3>3, WalkStartInv
      <3>4. CASE WalkPage
        BY <2>1, <3>1, <3>4, WalkPageInv
      <3>5. walk' = walk \/ (\E k \in Walked : WalkStart(k)) \/ WalkPage
        <4>1. \A c, r, req, new : Create(c, r, req, new) => walk' = walk
          BY DEF Create
        <4>2. \A c, r, req, new, answers : Update(c, r, req, new, answers) => walk' = walk
          BY DEF Update
        <4>3. \A c, r : Delete(c, r) \/ CtlOpen(c, r) => walk' = walk
          BY DEF Delete, CtlOpen
        <4>4. \A c : CtlAbort(c) \/ UpdateRow(c) \/ UpdateFails(c) => walk' = walk
          BY DEF CtlAbort, UpdateRow, UpdateFails
        <4>. QED BY <3>1, <4>1, <4>2, <4>3, <4>4 DEF Step, Restart
      <3>. QED BY <3>2, <3>3, <3>4, <3>5
    <2>2. BornInv /\ WalkInv /\ UNCHANGED vars => BornInv' /\ WalkInv'
      BY DEF vars, BornInv, WalkInv, Existing, Exists
    <2>. QED BY <2>1, <2>2
  <1>3. WalkInv => WalkShowsAll
    BY DEF WalkInv, WalkShowsAll
  <1>. QED BY <1>1, <1>2, <1>3, TypeCorrect, PTL DEF Spec

-----------------------------------------------------------------------------
(* OnlyTheseForgotten.  What a command of ctl may lose of a resource can   *)
(* be read off the tables: what the manager resets and the command may     *)
(* leave out, what is asked for without the old value, and lists that      *)
(* offer their first choice.                                               *)
LosesOnlyForgotten(k) ==
    LET U == UpdateCommand[k]
    IN  /\ getManager[k].resets \subseteq Forgotten[k]
        /\ U.first \subseteq Forgotten[k]
        /\ (U.asks \ U.drops) \ (U.keeps \cup Links[k]) \subseteq Forgotten[k]
        /\ U.keeps \cap Links[k] = {}

LEMMA ForgottenTables == \A k \in Kinds : LosesOnlyForgotten(k)
  <1>1. LosesOnlyForgotten("agent")
    <2>1. getManager["agent"] = AgentManager /\ UpdateCommand["agent"] = AgentsUpdate /\ "agent" \in Kinds
      BY DEF getManager, UpdateCommand, Kinds
    <2>2. Links["agent"] = {"domainRef", "credentialsRef"}
      BY <2>1, FieldTables DEF AgentManager
    <2>3. Forgotten["agent"] = {"domainRef", "credentialsRef", "privacy", "expires"}
      BY DEF Forgotten
    <2>. QED BY <2>1, <2>2, <2>3 DEF LosesOnlyForgotten, AgentManager, AgentsUpdate
  <1>2. LosesOnlyForgotten("peer")
    <2>1. getManager["peer"] = PeerManager /\ UpdateCommand["peer"] = PeersUpdate /\ "peer" \in Kinds
      BY DEF getManager, UpdateCommand, Kinds
    <2>2. Links["peer"] = {"accessControlListRef", "credentialsRef"}
      BY <2>1, FieldTables DEF PeerManager
    <2>3. Forgotten["peer"] = {"accessControlListRef", "credentialsRef", "balancingAlgorithm", "expires"}
      BY DEF Forgotten
    <2>. QED BY <2>1, <2>2, <2>3 DEF LosesOnlyForgotten, PeerManager, PeersUpdate
  <1>3. LosesOnlyForgotten("domain")
    <2>1. getManager["domain"] = DomainManager /\ UpdateCommand["domain"] = DomainsUpdate /\ "domain" \in Kinds
      BY DEF getManager, UpdateCommand, Kinds
    <2>2. Links["domain"] = {"accessControlListRef"}
      BY <2>1, FieldTables DEF DomainManager
    <2>3. Forgotten["domain"] = {"accessControlListRef"}
      BY DEF Forgotten
    <2>. QED BY <2>1, <2>2, <2>3 DEF LosesOnlyForgotten, DomainManager, DomainsUpdate
  <1>4. LosesOnlyForgotten("trunk")
    <2>1. getManager["trunk"] = TrunkManager /\ UpdateCommand["trunk"] = TrunksUpdate /\ "trunk" \in Kinds
      BY DEF getManager, UpdateCommand, Kinds
    <2>2. Links["trunk"] = {"accessControlListRef", "inboundCredentialsRef", "outboundCredentialsRef"}
      BY <2>1, FieldTables DEF TrunkManager
    <2>3. Forgotten["trunk"] = {"accessControlListRef", "inboundCredentialsRef", "outboundCredentialsRef"}
      BY DEF Forgotten
    <2>. QED BY <2>1, <2>2, <2>3 DEF LosesOnlyForgotten, TrunkManager, TrunksUpdate
  <1>5. LosesOnlyForgotten("number")
    <2>1. getManager["number"] = NumberManager /\ UpdateCommand["number"] = NumbersUpdate /\ "number" \in Kinds
      BY DEF getManager, UpdateCommand, Kinds
    <2>2. Links["number"] = {"trunkRef"}
      BY <2>1, FieldTables DEF NumberManager
    <2>3. Forgotten["number"] = {}
      BY DEF Forgotten
    <2>. QED BY <2>1, <2>2, <2>3 DEF LosesOnlyForgotten, NumberManager, NumbersUpdate
  <1>6. LosesOnlyForgotten("credentials")
    <2>1. getManager["credentials"] = CredentialsManager /\ UpdateCommand["credentials"] = CredentialsUpdate /\ "credentials" \in Kinds
      BY DEF getManager, UpdateCommand, Kinds
    <2>2. Links["credentials"] = {}
      BY <2>1, FieldTables DEF CredentialsManager
    <2>3. Forgotten["credentials"] = {"password"}
      BY DEF Forgotten
    <2>. QED BY <2>1, <2>2, <2>3 DEF LosesOnlyForgotten, CredentialsManager, CredentialsUpdate
  <1>7. LosesOnlyForgotten("acl")
    <2>1. getManager["acl"] = ACLManager /\ UpdateCommand["acl"] = AclUpdate /\ "acl" \in Kinds
      BY DEF getManager, UpdateCommand, Kinds
    <2>2. Links["acl"] = {}
      BY <2>1, FieldTables DEF ACLManager
    <2>3. Forgotten["acl"] = {}
      BY DEF Forgotten
    <2>. QED BY <2>1, <2>2, <2>3 DEF LosesOnlyForgotten, ACLManager, AclUpdate
  <1>8. Kinds = {"agent", "peer", "domain", "trunk", "number", "credentials", "acl"}
    BY DEF Kinds
  <1>. QED BY <1>1, <1>2, <1>3, <1>4, <1>5, <1>6, <1>7, <1>8

(* What the request of a session leaves of a field its user left alone:    *)
(* the value there was, the value that was read, or a default.             *)
LEMMA AnswersKeep ==
  ASSUME NEW k \in Kinds, NEW chosen, NEW seen \in [FieldsOf[k] -> Values],
         NEW old, NEW f \in FieldsOf[k] \ DOMAIN chosen
  PROVE  LET new == mapToPrisma(k, old, UpdateAnswers(k, chosen, seen))
         IN  new[f] = old[f] \/ new[f] = seen[f] \/ f \in Forgotten[k]
  <1> DEFINE U == UpdateCommand[k]
             answer(g) == IF g \in DOMAIN chosen THEN chosen[g] ELSE Offered(k, g, seen)
             D == {g \in U.asks \ U.drops : ~Unsent(k, g, answer(g))}
             req == UpdateAnswers(k, chosen, seen)
             new == mapToPrisma(k, old, req)
  <1>1. req = [g \in D |-> answer(g)]
    BY DEF UpdateAnswers
  <1>2. LosesOnlyForgotten(k)
    BY ForgottenTables
  <1>3. CASE f \notin D
    <2>1. new[f] = IF f \in getManager[k].resets THEN None ELSE old[f]
      BY <1>1, <1>3 DEF mapToPrisma
    <2>. QED BY <1>2, <2>1 DEF LosesOnlyForgotten
  <1>4. CASE f \in D
    <2>1. new[f] = Offered(k, f, seen)
      <3>1. req[f] = Offered(k, f, seen) /\ f \in DOMAIN req
        BY <1>1, <1>4
      <3>. HIDE DEF req
      <3>. QED BY <3>1 DEF mapToPrisma
    <2>2. f \in U.asks \ U.drops /\ ~Unsent(k, f, Offered(k, f, seen))
      BY <1>4
    <2>3. CASE f \in U.first
      BY <1>2, <2>3 DEF LosesOnlyForgotten
    <2>4. CASE f \in U.keeps /\ f \notin U.first
      BY <2>1, <2>4 DEF Offered
    <2>5. CASE f \notin U.keeps /\ f \notin U.first
      <3>1. Offered(k, f, seen) = None
        BY <2>5 DEF Offered
      <3>2. f \notin Links[k]
        BY <2>2, <3>1 DEF Unsent
      <3>. QED BY <1>2, <2>2, <2>5, <3>2 DEF LosesOnlyForgotten
    <2>. QED BY <2>3, <2>4, <2>5
  <1>. QED BY <1>3, <1>4

(* A call of a session in progress carries the answers of its user to what *)
(* the session read.                                                       *)
SessionInvOf(c) ==
    /\ pc[c] = "prompt" => prompt[c] = [seen |-> prompt[c].seen, chosen |-> prompt[c].chosen,
                                        offered |-> prompt[c].offered]
    /\ (pc[c] = "updating" /\ prompt[c] # NoPrompt) =>
          LET k == KindOf[call[c].ref]
          IN  /\ prompt[c].seen \in [FieldsOf[k] -> Values]
              /\ call[c].req = UpdateAnswers(k, prompt[c].chosen, prompt[c].seen)

SessionInv == \A c \in Clients : SessionInvOf(c)

(* A client that does not move, or that is not in a session any more.      *)
LEMMA SessionAlone ==
  ASSUME NEW d, SessionInvOf(d),
         pc'[d] # "idle" => pc'[d] = pc[d] /\ call'[d] = call[d] /\ prompt'[d] = prompt[d]
  PROVE  SessionInvOf(d)'
  BY DEF SessionInvOf

LEMMA SessionStep ==
  ASSUME TypeOK, SessionInv, Step
  PROVE  SessionInv'
  <1>1. SessionsOK
    BY DEF TypeOK
  <1>2. (pc' = pc /\ call' = call /\ prompt' = prompt) => SessionInv'
    BY SessionAlone DEF SessionInv
  <1>3. Restarted => SessionInv'
    <2> SUFFICES ASSUME Restarted, NEW d \in Clients PROVE SessionInvOf(d)'
      BY DEF SessionInv
    <2>1. pc'[d] # "idle" => pc'[d] = pc[d] /\ call'[d] = call[d] /\ prompt'[d] = prompt[d]
      BY <1>1 DEF Restarted, SessionsOK
    <2>. QED BY <2>1, SessionAlone DEF SessionInv
  <1>4. ASSUME NEW c \in Clients, Ended(c)
        PROVE  SessionInv'
    <2> SUFFICES ASSUME NEW d \in Clients PROVE SessionInvOf(d)'
      BY DEF SessionInv
    <2>1. pc'[d] # "idle" => pc'[d] = pc[d] /\ call'[d] = call[d] /\ prompt'[d] = prompt[d]
      BY <1>1, <1>4 DEF Ended, SessionsOK
    <2>. QED BY <2>1, SessionAlone DEF SessionInv
  <1>5. ASSUME NEW c \in Clients, NEW r \in Refs, NEW req, NEW new, Create(c, r, req, new)
        PROVE  SessionInv'
    BY <1>2, <1>3, <1>5 DEF Create
  <1>6. ASSUME NEW c \in Clients, NEW r \in Refs, NEW req, NEW new, NEW answers,
               \/ pc[c] = "idle" /\ answers = NoPrompt
               \/ pc[c] = "prompt" /\ r = call[c].ref /\ Submitted(c, r, req, answers),
               Update(c, r, req, new, answers)
        PROVE  SessionInv'
    <2>1. CASE Ended(c)
      BY <1>4, <2>1
    <2>2. CASE /\ pc' = [pc EXCEPT ![c] = "updating"]
               /\ prompt' = [prompt EXCEPT ![c] = answers]
               /\ call' = [call EXCEPT ![c] = [ref |-> r, req |-> req, new |-> new]]
      <3> SUFFICES ASSUME NEW d \in Clients PROVE SessionInvOf(d)'
        BY DEF SessionInv
      <3>1. CASE d # c
        <4>1. pc'[d] = pc[d] /\ call'[d] = call[d] /\ prompt'[d] = prompt[d]
          BY <1>1, <2>2, <3>1 DEF SessionsOK
        <4>. QED BY <4>1, SessionAlone DEF SessionInv
      <3>2. CASE d = c
        <4>1. /\ pc'[c] = "updating" /\ prompt'[c] = answers
              /\ call'[c].ref = r /\ call'[c].req = req
          BY <1>1, <2>2 DEF SessionsOK
        <4>2. CASE answers = NoPrompt
          BY <3>2, <4>1, <4>2 DEF SessionInvOf
        <4>3. CASE pc[c] = "prompt" /\ r = call[c].ref /\ Submitted(c, r, req, answers)
          <5>1. PICK chosen : /\ req = UpdateAnswers(KindOf[r], chosen, prompt[c].seen)
                              /\ answers = [prompt[c] EXCEPT !.chosen = chosen]
            BY <4>3 DEF Submitted
          <5>2. prompt[c] = [seen |-> prompt[c].seen, chosen |-> prompt[c].chosen,
                             offered |-> prompt[c].offered]
            BY <4>3 DEF SessionInv, SessionInvOf
          <5>3. answers.seen = prompt[c].seen /\ answers.chosen = chosen
            BY <5>1, <5>2
          <5>4. prompt[c].seen \in [FieldsOf[KindOf[r]] -> Values]
            BY <1>1, <4>3, CallType
          <5>. QED BY <3>2, <4>1, <5>1, <5>3, <5>4 DEF SessionInvOf
        <4>. QED BY <1>6, <4>2, <4>3
      <3>. QED BY <3>1, <3>2
    <2>. QED BY <1>6, <2>1, <2>2 DEF Update
  <1>7. ASSUME NEW c \in Clients, NEW r \in Refs, CtlOpen(c, r)
        PROVE  SessionInv'
    <2> DEFINE session == [seen |-> db[r].fields, chosen |-> NoAnswers, offered |-> Existing]
    <2>1. session = [seen |-> session.seen, chosen |-> session.chosen, offered |-> session.offered]
      OBVIOUS
    <2>. HIDE DEF session
    <2>2. pc'[c] = "prompt" /\ prompt'[c] = session
      BY <1>1, <1>7 DEF CtlOpen, SessionsOK, session
    <2> SUFFICES ASSUME NEW d \in Clients PROVE SessionInvOf(d)'
      BY DEF SessionInv
    <2>3. CASE d # c
      <3>1. pc'[d] = pc[d] /\ call'[d] = call[d] /\ prompt'[d] = prompt[d]
        BY <1>1, <1>7, <2>3 DEF CtlOpen, SessionsOK
      <3>. QED BY <3>1, SessionAlone DEF SessionInv
    <2>4. CASE d = c
      BY <2>1, <2>2, <2>4 DEF SessionInvOf
    <2>. QED BY <2>3, <2>4
  <1>8. ASSUME NEW c \in Clients, CtlAbort(c) \/ UpdateRow(c) \/ UpdateFails(c)
        PROVE  SessionInv'
    BY <1>4, <1>8 DEF CtlAbort, UpdateRow, UpdateFails
  <1>9. ASSUME NEW c \in Clients, NEW r \in Refs, Delete(c, r)
        PROVE  SessionInv'
    BY <1>2, <1>9 DEF Delete
  <1>10. CASE Restart \/ WalkPage \/ \E k \in Walked : WalkStart(k)
    BY <1>2, <1>3, <1>10 DEF Restart, WalkPage, WalkStart
  <1>. QED BY <1>5, <1>6, <1>7, <1>8, <1>9, <1>10 DEF Step

\* What OnlyTheseForgotten says of the end of one session.
KeepsTheRest(c, r) ==
    (pc[c] = "updating" /\ prompt[c] # NoPrompt /\ UpdateRow(c)) =>
        \A f \in FieldsOf[KindOf[r]] \ DOMAIN prompt[c].chosen :
            \/ db'[r].fields[f] = db[r].fields[f]
            \/ db'[r].fields[f] = prompt[c].seen[f]
            \/ f \in Forgotten[KindOf[r]]

LEMMA SessionKeeps ==
  ASSUME TypeOK, SessionInv, NEW c \in Clients, NEW r \in Existing, r = call[c].ref
  PROVE  KeepsTheRest(c, r)
  <1> SUFFICES ASSUME pc[c] = "updating", prompt[c] # NoPrompt, UpdateRow(c),
                      NEW f \in FieldsOf[KindOf[r]] \ DOMAIN prompt[c].chosen
               PROVE  \/ db'[r].fields[f] = db[r].fields[f]
                      \/ db'[r].fields[f] = prompt[c].seen[f]
                      \/ f \in Forgotten[KindOf[r]]
    BY DEF KeepsTheRest
  <1> DEFINE fields == mapToPrisma(KindOf[r], db[r].fields, call[c].req)
             kids == WithKids(db[r].kids, call[c].new)
  <1>1. CASE db' = db
    BY <1>1
  <1>2. CASE db' # db
    <2>1. r \in Refs /\ db' = [db EXCEPT ![r] = [fields |-> fields, kids |-> kids]]
      BY <1>2, UpdateRowTable
    <2>2. db'[r].fields = fields
      <3>. HIDE DEF fields, kids
      <3>. QED BY <2>1 DEF TypeOK, RowsOK
    <2>3. /\ prompt[c].seen \in [FieldsOf[KindOf[r]] -> Values]
          /\ call[c].req = UpdateAnswers(KindOf[r], prompt[c].chosen, prompt[c].seen)
      BY DEF SessionInv, SessionInvOf
    <2>4. fields[f] = db[r].fields[f] \/ fields[f] = prompt[c].seen[f] \/ f \in Forgotten[KindOf[r]]
      BY <2>1, <2>3, KindType, AnswersKeep
    <2>. QED BY <2>2, <2>4
  <1>. QED BY <1>1, <1>2

(* A session of ctl changes a field that its user left alone only by       *)
(* writing back what it read or by clearing one of the listed fields, for  *)
(* every resource, every answer and whatever other clients do meanwhile.   *)
THEOREM SessionsForgetOnlyThese == Spec => OnlyTheseForgotten
  <1>1. Init => SessionInv
    BY DEF Init, SessionInv, SessionInvOf
  <1>2. TypeOK /\ SessionInv /\ [Next]_vars => SessionInv'
    <2>1. TypeOK /\ SessionInv /\ Next => SessionInv'
      BY NextIsStep, SessionStep
    <2>2. SessionInv /\ UNCHANGED vars => SessionInv'
      BY SessionAlone DEF vars, SessionInv
    <2>. QED BY <2>1, <2>2
  <1>3. TypeOK /\ SessionInv => \A c \in Clients : \A r \in Existing \cap {call[c].ref} : KeepsTheRest(c, r)
    BY SessionKeeps
  <1>. QED BY <1>1, <1>2, <1>3, TypeCorrect, PTL DEF Spec, OnlyTheseForgotten, KeepsTheRest

=============================================================================
