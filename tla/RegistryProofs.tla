---------------------------- MODULE RegistryProofs ----------------------------
(***************************************************************************)
(* Theorems about Registry: its state is well typed, and no trunk is       *)
(* forgotten, for any number of trunks and rounds, any interval, and any   *)
(* answers that grant at least an interval.                                *)
(***************************************************************************)
EXTENDS Registry, TLAPS

(* Type correctness.                                                       *)

LEMMA RoundType == Round \subseteq Nat
  BY RegistryAssumption DEF Round

(* The entry made of an answer.                                            *)
LEMMA EntryType ==
  ASSUME TypeOK, NEW m \in Answers
  PROVE  /\ EntryOf(m) \in RegistrationEntry
          /\ m.granted \in Nat
  <1>1. m \in Response /\ Interval \in Int /\ DEFAULT_EXPIRES \in Int
    BY RegistryAssumption
  <1>2. RetentionTime(m) \in Int
    BY <1>1 DEF RetentionTime, Response
  <1>. QED BY <1>1, <1>2 DEF EntryOf, RegistrationEntry, TypeOK, Response

(* A call that is answered has an answer.                                  *)
RepliesOK == \A c \in Call : status[c] = "answered" => reply[c] \in Answers

(* The steps of SendMessage keep its types, and answers come from Answers. *)
LEMMA SendTypes ==
  ASSUME S!SendTypeOK, RepliesOK,
         \/ \E cs \in SUBSET Call : S!Begin(cs)
         \/ \E c \in Call, m \in Answers : S!Receive(c, m) \/ S!Answer(c, m)
         \/ \E c \in Call : S!Refuse(c)
         \/ UNCHANGED sendVars
  PROVE  S!SendTypeOK' /\ RepliesOK'
  <1>1. CASE \E cs \in SUBSET Call : S!Begin(cs)
    BY <1>1 DEF S!Begin, S!SendTypeOK, S!Status, RepliesOK
  <1>2. CASE \E c \in Call, m \in Answers : S!Receive(c, m)
    BY <1>2 DEF S!Receive, S!SendTypeOK, S!Status, RepliesOK
  <1>3. CASE \E c \in Call, m \in Answers : S!Answer(c, m)
    BY <1>3 DEF S!Answer, S!SendTypeOK, S!Status, RepliesOK
  <1>4. CASE \E c \in Call : S!Refuse(c)
    BY <1>4 DEF S!Refuse, S!SendTypeOK, S!Status, RepliesOK
  <1>5. CASE UNCHANGED sendVars
    BY <1>5 DEF sendVars, S!SendTypeOK, RepliesOK
  <1>. QED BY <1>1, <1>2, <1>3, <1>4, <1>5

TypeInv == TypeOK /\ RepliesOK

LEMMA InitTypes == Init => TypeInv
  BY DEF Init, TypeInv, TypeOK, RepliesOK, Phase, S!SendInit, S!SendTypeOK, S!Status

LEMMA StoreTypes ==
  ASSUME TypeInv, NEW r \in Round, StoreResults(r)
  PROVE  TypeInv'
  <1>1. \A t \in Trunk : status[<<r, t>>] = "answered" =>
           /\ reply[<<r, t>>] \in Answers
           /\ EntryOf(reply[<<r, t>>]) \in RegistrationEntry
           /\ reply[<<r, t>>].granted \in Nat
    BY EntryType DEF TypeInv, RepliesOK, Call
  <1>2. map' \in [Trunk -> RegistrationEntry \cup {NoEntry}] /\ lifetime' \in [Trunk -> Nat]
    BY <1>1 DEF StoreResults, TypeInv, TypeOK
  <1>3. phase' \in [Round -> Phase] /\ missed' \subseteq Trunk
    BY DEF StoreResults, TypeInv, TypeOK, Phase
  <1>4. S!SendTypeOK' /\ RepliesOK'
    BY SendTypes DEF StoreResults, TypeInv, TypeOK
  <1>. QED BY <1>2, <1>3, <1>4 DEF StoreResults, TypeInv, TypeOK

LEMMA NextTypes == TypeInv /\ [Next]_vars => TypeInv'
  <1> SUFFICES ASSUME TypeInv, [Next]_vars PROVE TypeInv'
    OBVIOUS
  <1>1. ASSUME NEW r \in Round, StartRound(r) PROVE TypeInv'
    <2>1. S!SendTypeOK' /\ RepliesOK'
      BY <1>1, SendTypes DEF StartRound, TypeInv, TypeOK
    <2>. QED BY <1>1, <2>1 DEF StartRound, historyVars, TypeInv, TypeOK, Phase
  <1>2. ASSUME NEW r \in Round, FindTrunks(r) PROVE TypeInv'
    <2>1. S!SendTypeOK' /\ RepliesOK'
      BY <1>2, SendTypes DEF FindTrunks, TypeInv, TypeOK
    <2>2. invoked' \in [Round -> SUBSET Trunk]
      BY <1>2 DEF FindTrunks, TypeInv, TypeOK, Due
    <2>. QED BY <1>2, <2>1, <2>2 DEF FindTrunks, TypeInv, TypeOK, Phase
  <1>3. ASSUME NEW r \in Round, SendRegisters(r) PROVE TypeInv'
    <2>1. {r} \X invoked[r] \in SUBSET Call
      BY DEF TypeInv, TypeOK, Call
    <2>2. S!SendTypeOK' /\ RepliesOK'
      BY <1>3, <2>1, SendTypes DEF SendRegisters, TypeInv, TypeOK
    <2>. QED BY <1>3, <2>2 DEF SendRegisters, historyVars, TypeInv, TypeOK, Phase
  <1>4. ASSUME NEW r \in Round, StoreResults(r) PROVE TypeInv'
    BY <1>4, StoreTypes
  <1>5. ASSUME NEW c \in Call, NEW m \in Answers, Respond(c, m) PROVE TypeInv'
    <2>1. S!SendTypeOK' /\ RepliesOK'
      BY <1>5, SendTypes DEF Respond, TypeInv, TypeOK
    <2>2. m.granted \in Nat /\ c[2] \in Trunk
      BY EntryType DEF TypeInv, Call
    <2>3. validUntil' \in [Trunk -> Nat]
      BY <1>5, <2>2 DEF Respond, TypeInv, TypeOK
    <2>. QED BY <1>5, <2>1, <2>3 DEF Respond, roundVars, historyVars, TypeInv, TypeOK
  <1>6. ASSUME NEW c \in Call, Answered(c) \/ Refused(c) PROVE TypeInv'
    <2>1. S!SendTypeOK' /\ RepliesOK'
      BY <1>6, SendTypes DEF Answered, Refused, TypeInv, TypeOK
    <2>. QED BY <1>6, <2>1 DEF Answered, Refused, roundVars, historyVars, TypeInv, TypeOK
  <1>7. CASE Elapse
    <2>1. S!SendTypeOK' /\ RepliesOK'
      BY <1>7, SendTypes DEF Elapse, TypeInv, TypeOK
    <2>. QED BY <1>7, <2>1 DEF Elapse, roundVars, TypeInv, TypeOK
  <1>8. CASE UNCHANGED vars
    <2>1. S!SendTypeOK' /\ RepliesOK'
      BY <1>8, SendTypes DEF vars, TypeInv, TypeOK
    <2>. QED BY <1>8, <2>1 DEF vars, roundVars, historyVars, TypeInv, TypeOK
  <1>. QED BY <1>1, <1>2, <1>3, <1>4, <1>5, <1>6, <1>7, <1>8 DEF Next

(* The store keeps numbers, the calls are typed as SendMessage promises,   *)
(* and the trunks a round invokes are trunks.                              *)
THEOREM TypeCorrect == Spec => []TypeOK
  <1>1. TypeInv => TypeOK
    BY DEF TypeInv
  <1>. QED BY <1>1, InitTypes, NextTypes, PTL DEF Spec

-----------------------------------------------------------------------------
(* NeverForgotten.  The property alone is not inductive.  A trunk that the *)
(* last round did not invoke, though it could read it, was in the store    *)
(* with an entry that outlives the interval, or has got one since; and no  *)
(* round starts before its time.                                           *)

(* r is the round whose interval this is.                                  *)
IsLast(r) == r * Interval <= now /\ now < (r + 1) * Interval

(* An entry is of an answer in the past.  If it registers the trunk, it is *)
(* kept an interval less than the lifetime, or not at all.                 *)
EntryInv ==
  \A t \in Trunk : map[t] # NoEntry =>
    /\ map[t].timeOfEntry <= now
    /\ map[t].status = "registered" =>
         /\ lifetime[t] >= Interval
         /\ \/ map[t].retentionTimeInSeconds = lifetime[t] - Interval
            \/ map[t].retentionTimeInSeconds < 0

(* What is known of a trunk that round r left alone.                       *)
LeftAlone(r, t) ==
  /\ map[t] # NoEntry
  /\ Registered(t) => r * Interval + Interval <= map[t].timeOfEntry + lifetime[t]

RoundInv ==
  \A r \in Round :
    /\ Started(r) => r * Interval <= now
    /\ IsLast(r) /\ phase[r] \notin {"none", "finding"} =>
         \A t \in (Trunk \ missed) \ invoked[r] : LeftAlone(r, t)

ForgetInv == TypeInv /\ EntryInv /\ RoundInv

LEMMA InitForgets == Init => ForgetInv
  <1> SUFFICES ASSUME Init PROVE ForgetInv
    OBVIOUS
  <1>1. TypeInv
    BY InitTypes
  <1>2. EntryInv
    BY DEF Init, EntryInv
  <1>3. RoundInv
    BY DEF Init, RoundInv, Started
  <1>. QED BY <1>1, <1>2, <1>3 DEF ForgetInv

(* A stored answer makes an entry as EntryInv wants it.                    *)
LEMMA NewEntry ==
  ASSUME TypeInv, NEW m \in Answers
  PROVE  /\ EntryOf(m).timeOfEntry = now
         /\ EntryOf(m).status = "registered" =>
              /\ m.granted >= Interval
              /\ \/ EntryOf(m).retentionTimeInSeconds = m.granted - Interval
                 \/ EntryOf(m).retentionTimeInSeconds < 0
  <1>1. m \in Response /\ Interval \in Nat \ {0} /\ m.granted \in Nat
    BY RegistryAssumption, EntryType DEF TypeInv
  <1>2. ASSUME m.responseType = "OK"
        PROVE  m.contact # Absent /\ (m.contact = m.granted \/ m.contact = -1)
    BY <1>1, <1>2, RegistryAssumption
  <1>3. m.responseType = "OK" => m.granted >= Interval
    BY RegistryAssumption
  <1>4. m.responseType = "OK" => RetentionTime(m) = m.granted - Interval \/ RetentionTime(m) < 0
    BY <1>1, <1>2 DEF RetentionTime
  <1>. QED BY <1>1, <1>3, <1>4 DEF EntryOf

(* No entry changes, and no round gets past its reading.                   *)
LEMMA QuietForgets ==
  ASSUME TypeInv, EntryInv, RoundInv, UNCHANGED <<now, invoked, map, historyVars>>,
         \A r \in Round : /\ phase'[r] \notin {"none", "finding"} => phase[r] \notin {"none", "finding"}
                          /\ phase'[r] # "none" => phase[r] # "none" \/ r * Interval <= now
  PROVE  EntryInv' /\ RoundInv'
  <1>1. EntryInv'
    BY DEF EntryInv, historyVars
  <1>2. RoundInv'
    BY DEF RoundInv, historyVars, Started, IsLast, LeftAlone, Registered
  <1>. QED BY <1>1, <1>2

(* A round reads the trunks: those it leaves alone are in the store.       *)
LEMMA FindForgets ==
  ASSUME TypeInv, EntryInv, RoundInv, NEW r \in Round, FindTrunks(r)
  PROVE  EntryInv' /\ RoundInv'
  <1>1. EntryInv'
    BY DEF EntryInv, FindTrunks
  <1>2. /\ phase' \in [Round -> Phase] /\ phase[r] = "finding" /\ r * Interval <= now
        /\ \A s \in Round \ {r} : phase'[s] = phase[s] /\ invoked'[s] = invoked[s]
        /\ missed \subseteq missed'
    BY RoundType DEF FindTrunks, TypeInv, TypeOK, Phase, RoundInv, Started
  <1>3. ASSUME NEW t \in (Trunk \ missed') \ invoked'[r] PROVE LeftAlone(r, t)'
    <2>1. PICK trunks \in SUBSET Trunk : /\ invoked' = [invoked EXCEPT ![r] = Due(trunks)]
                                         /\ missed' = missed \cup (Trunk \ trunks)
      BY <1>3 DEF FindTrunks
    <2>2. t \in list
      BY <1>3, <2>1 DEF Due, TypeInv, TypeOK
    <2>3. /\ map[t] # NoEntry /\ map[t] \in RegistrationEntry
          /\ now - map[t].timeOfEntry <= map[t].retentionTimeInSeconds
      BY <2>2 DEF list, notExpired, TypeInv, TypeOK
    <2>4. now \in Nat /\ lifetime[t] \in Nat /\ Interval \in Nat /\ r * Interval \in Nat
          /\ map[t].timeOfEntry \in Nat /\ map[t].retentionTimeInSeconds \in Int
      BY <2>3, RegistryAssumption, RoundType DEF TypeInv, TypeOK, RegistrationEntry
    <2>5. Registered(t) => r * Interval + Interval <= map[t].timeOfEntry + lifetime[t]
      <3> HIDE DEF Registered
      <3>1. Registered(t) => map[t].retentionTimeInSeconds = lifetime[t] - Interval
        BY <2>3, <2>4 DEF EntryInv, Registered
      <3>2. r * Interval <= now
        BY <1>2
      <3> DEFINE x == r * Interval
      <3>3. x \in Nat /\ x <= now
        BY <2>4, <3>2
      <3> HIDE DEF x
      <3>4. Registered(t) => x + Interval <= map[t].timeOfEntry + lifetime[t]
        BY <2>3, <2>4, <3>1, <3>3
      <3>. QED BY <3>4 DEF x
    <2>. QED BY <2>3, <2>5 DEF LeftAlone, Registered, FindTrunks
  <1>4. ASSUME NEW s \in Round
        PROVE  /\ Started(s)' => s * Interval <= now'
               /\ IsLast(s)' /\ phase'[s] \notin {"none", "finding"} =>
                    \A t \in (Trunk \ missed') \ invoked'[s] : LeftAlone(s, t)'
    <2>1. now' = now /\ map' = map /\ lifetime' = lifetime
      BY DEF FindTrunks
    <2>2. CASE s = r
      BY <1>2, <1>3, <2>1, <2>2
    <2>3. CASE s # r
      BY <1>2, <1>4, <2>1, <2>3 DEF RoundInv, Started, IsLast, LeftAlone, Registered
    <2>. QED BY <2>2, <2>3
  <1>. QED BY <1>1, <1>4 DEF RoundInv

(* Answers are stored: their entries are of now, which is not before the   *)
(* round of this interval began.                                           *)
LEMMA StoreForgets ==
  ASSUME TypeInv, EntryInv, RoundInv, NEW r \in Round, StoreResults(r)
  PROVE  EntryInv' /\ RoundInv'
  <1> DEFINE answered == {t \in invoked[r] : status[<<r, t>>] = "answered"}
             m(t) == reply[<<r, t>>]
  <1>1. \A t \in Trunk : t \in answered => m(t) \in Answers
    BY DEF TypeInv, RepliesOK, Call
  <1>2. /\ now' = now /\ invoked' = invoked /\ missed' = missed \ answered
        /\ \A t \in answered : t \in Trunk /\ map'[t] = EntryOf(m(t)) /\ lifetime'[t] = m(t).granted
        /\ \A t \in Trunk \ answered : map'[t] = map[t] /\ lifetime'[t] = lifetime[t]
        /\ \A s \in Round : /\ phase'[s] \notin {"none", "finding"} => phase[s] \notin {"none", "finding"}
                            /\ Started(s)' => Started(s)
    BY DEF StoreResults, TypeInv, TypeOK, Started
  <1>3. \A t \in answered : EntryOf(m(t)) \in RegistrationEntry
    BY <1>1, <1>2, EntryType DEF TypeInv
  <1> HIDE DEF answered, m
  <1>4. EntryInv'
    <2> SUFFICES ASSUME NEW t \in Trunk, map'[t] # NoEntry
                 PROVE  /\ map'[t].timeOfEntry <= now'
                        /\ map'[t].status = "registered" =>
                             /\ lifetime'[t] >= Interval
                             /\ \/ map'[t].retentionTimeInSeconds = lifetime'[t] - Interval
                                \/ map'[t].retentionTimeInSeconds < 0
      BY DEF EntryInv
    <2>1. CASE t \in answered
      BY <1>1, <1>2, <2>1, NewEntry DEF TypeInv, TypeOK
    <2>2. CASE t \notin answered
      BY <1>2, <2>2 DEF EntryInv
    <2>. QED BY <2>1, <2>2
  <1>5. ASSUME NEW s \in Round, IsLast(s), phase'[s] \notin {"none", "finding"},
               NEW t \in (Trunk \ missed') \ invoked'[s]
        PROVE  LeftAlone(s, t)'
    <2>1. CASE t \in answered
      <3>1. map'[t] # NoEntry /\ map'[t].timeOfEntry = now
        BY <1>1, <1>2, <1>3, <2>1, NewEntry, NoEntryAssumption
      <3>2. Registered(t)' => lifetime'[t] >= Interval
        BY <1>4, <3>1 DEF EntryInv, Registered
      <3> DEFINE x == s * Interval
      <3>3. x \in Nat /\ x <= now /\ now \in Nat /\ lifetime'[t] \in Nat /\ Interval \in Nat
        BY <1>5, RoundType, RegistryAssumption, StoreTypes DEF IsLast, TypeInv, TypeOK
      <3> HIDE DEF x
      <3>4. Registered(t)' => x + Interval <= map'[t].timeOfEntry + lifetime'[t]
        BY <3>1, <3>2, <3>3
      <3>. QED BY <3>1, <3>4 DEF LeftAlone, x
    <2>2. CASE t \notin answered
      <3>1. t \in (Trunk \ missed) \ invoked[s] /\ phase[s] \notin {"none", "finding"}
        BY <1>2, <1>5, <2>2
      <3>2. LeftAlone(s, t)
        BY <1>5, <3>1 DEF RoundInv
      <3>. QED BY <1>2, <2>2, <3>2 DEF LeftAlone, Registered
    <2>. QED BY <2>1, <2>2
  <1>6. RoundInv'
    BY <1>2, <1>5 DEF RoundInv, IsLast
  <1>. QED BY <1>4, <1>6

(* Time passes.  Into the next interval: its round has not begun.          *)
LEMMA ElapseForgets ==
  ASSUME TypeInv, EntryInv, RoundInv, Elapse
  PROVE  EntryInv' /\ RoundInv'
  <1>1. now \in Nat /\ now' = now + 1 /\ UNCHANGED <<roundVars, map, lifetime>>
    BY DEF Elapse, TypeInv, TypeOK
  <1>2. EntryInv'
    <2>1. \A t \in Trunk : map[t] # NoEntry => map[t].timeOfEntry \in Nat
      BY DEF TypeInv, TypeOK, RegistrationEntry
    <2>. QED BY <1>1, <2>1 DEF EntryInv
  <1>3. ASSUME NEW r \in Round, Started(r)' PROVE r * Interval <= now'
    <2>1. r * Interval <= now /\ r * Interval \in Nat
      BY <1>1, <1>3, RoundType, RegistryAssumption DEF RoundInv, Started, roundVars
    <2>. QED BY <1>1, <2>1
  <1>4. ASSUME NEW r \in Round, IsLast(r)', phase'[r] \notin {"none", "finding"},
               NEW t \in (Trunk \ missed') \ invoked'[r]
        PROVE  LeftAlone(r, t)'
    <2>1. r * Interval <= now
      BY <1>1, <1>4 DEF RoundInv, Started, roundVars
    <2>2. IsLast(r)
      <3>1. (r + 1) * Interval \in Nat
        BY RoundType, RegistryAssumption
      <3>. QED BY <1>1, <1>4, <2>1, <3>1 DEF IsLast
    <2>3. t \notin missed /\ invoked' = invoked /\ phase' = phase
      BY <1>1, <1>4 DEF Elapse, roundVars
    <2>. QED BY <1>1, <1>4, <2>2, <2>3 DEF RoundInv, LeftAlone, Registered
  <1>. QED BY <1>2, <1>3, <1>4 DEF RoundInv

LEMMA NextForgets == ForgetInv /\ [Next]_vars => ForgetInv'
  <1> SUFFICES ASSUME ForgetInv, [Next]_vars PROVE ForgetInv'
    OBVIOUS
  <1>0. TypeInv /\ EntryInv /\ RoundInv /\ TypeInv'
    BY NextTypes DEF ForgetInv
  <1>1. ASSUME NEW r \in Round, StartRound(r) PROVE EntryInv' /\ RoundInv'
    <2>1. now \in Nat /\ now = r * Interval /\ phase \in [Round -> Phase]
      BY <1>0, <1>1 DEF StartRound, TypeInv, TypeOK
    <2>. QED BY <1>0, <1>1, <2>1, QuietForgets DEF StartRound, historyVars
  <1>2. ASSUME NEW r \in Round, FindTrunks(r) PROVE EntryInv' /\ RoundInv'
    BY <1>0, <1>2, FindForgets
  <1>3. ASSUME NEW r \in Round, SendRegisters(r) PROVE EntryInv' /\ RoundInv'
    BY <1>0, <1>3, QuietForgets DEF SendRegisters, TypeInv, TypeOK
  <1>4. ASSUME NEW r \in Round, StoreResults(r) PROVE EntryInv' /\ RoundInv'
    BY <1>0, <1>4, StoreForgets
  <1>5. ASSUME NEW c \in Call, (\E m \in Answers : Respond(c, m)) \/ Answered(c) \/ Refused(c)
        PROVE  EntryInv' /\ RoundInv'
    BY <1>0, <1>5, QuietForgets DEF Respond, Answered, Refused, roundVars
  <1>6. ASSUME Elapse PROVE EntryInv' /\ RoundInv'
    BY <1>0, <1>6, ElapseForgets
  <1>7. ASSUME UNCHANGED vars PROVE EntryInv' /\ RoundInv'
    BY <1>0, <1>7, QuietForgets DEF vars, roundVars
  <1>8. EntryInv' /\ RoundInv'
    BY <1>1, <1>2, <1>3, <1>4, <1>5, <1>6, <1>7 DEF Next
  <1>. QED BY <1>0, <1>8 DEF ForgetInv

(* The last round is the one whose interval this is.                       *)
LEMMA LastIsLast ==
  ASSUME now \in Nat, Interval \in Nat \ {0}
  PROVE  IsLast(LastRound)
  <1>1. LastRound \in Nat
    BY DEF LastRound
  <1>. QED BY <1>1 DEF LastRound, IsLast

LEMMA ForgetsNothing == ForgetInv => NeverForgotten
  <1> SUFFICES ASSUME ForgetInv, NEW t \in Trunk \ missed,
                      LastRound \in Round, Started(LastRound), ~Reading(LastRound),
                      \/ map[t] = NoEntry
                      \/ Registered(t) /\ now > map[t].timeOfEntry + lifetime[t]
               PROVE  t \in invoked[LastRound]
    BY DEF NeverForgotten
  <1> DEFINE r == LastRound
  <1>1. IsLast(r) /\ r \in Nat /\ now \in Nat /\ Interval \in Nat
    BY LastIsLast, RegistryAssumption, RoundType DEF ForgetInv, TypeInv, TypeOK
  <1>2. phase[r] \notin {"none", "finding"}
    BY DEF Started, Reading
  <1> SUFFICES ASSUME t \notin invoked[r] PROVE FALSE
    OBVIOUS
  <1>3. LeftAlone(r, t)
    BY <1>1, <1>2 DEF ForgetInv, RoundInv
  <1> HIDE DEF r
  <1>4. now < r * Interval + Interval /\ r * Interval \in Nat
    BY <1>1 DEF IsLast
  <1>5. Registered(t) => map[t].timeOfEntry + lifetime[t] \in Nat
    BY DEF ForgetInv, TypeInv, TypeOK, RegistrationEntry, Registered
  <1>. QED BY <1>1, <1>3, <1>4, <1>5 DEF LeftAlone

(* Every round that can read a trunk whose registration is missing or has  *)
(* run out registers it, whatever became of other trunks, earlier calls    *)
(* and rounds that overlap.                                                *)
THEOREM NoTrunkForgotten == Spec => []NeverForgotten
  BY InitForgets, NextForgets, ForgetsNothing, PTL DEF Spec
=============================================================================
