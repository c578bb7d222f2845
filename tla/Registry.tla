------------------------------ MODULE Registry ------------------------------
(***************************************************************************)
(* The Registry of Routr (mods/registry) with its memory store: every      *)
(* Interval it reads the trunks that ask for registration, sends a         *)
(* REGISTER through the Requester for those that are not in the store,     *)
(* waits until all of these calls have settled, and stores the answers.    *)
(*                                                                         *)
(* A round is one run of the timer's callback, which does not wait for the *)
(* round before.  A round's call for a trunk is a call of SendMessage, of  *)
(* which only the promise is used: it may never be answered.  The SIP      *)
(* registrar is the environment.                                           *)
(***************************************************************************)
EXTENDS Integers, FiniteSets

CONSTANTS
  Trunk,           \* trunks of the API server
  Interval,        \* registerInterval
  DEFAULT_EXPIRES,
  MaxRound,        \* bound on the rounds
  Answers,         \* the responses registrars give
  Absent,          \* a header that is not in a response
  NoMessage,
  NoEntry          \* no registration entry

Round == 1 .. MaxRound

(* contact is the expires parameter of the Contact header, -1 when there   *)
(* is none; granted is the lifetime the registrar gave.                    *)
Response ==
  [responseType : {"OK", "TRYING", "FAILURE"}, contact : Int \cup {Absent},
   expires : Int \cup {Absent}, granted : Nat]

ASSUME RegistryAssumption ==
  /\ IsFiniteSet(Trunk)
  /\ Interval \in Nat \ {0} /\ MaxRound \in Nat /\ DEFAULT_EXPIRES \in Nat
  /\ Answers \subseteq Response
  /\ \A m \in Answers : m.responseType = "OK" =>
       \* the lifetime is in the Contact or, without that, in Expires
       \/ m.contact = m.granted
       \/ m.contact = -1 /\ m.expires = m.granted
  /\ \A m \in Answers : m.responseType = "OK" => m.granted >= Interval
  /\ Absent \notin Int /\ NoMessage \notin Answers

VARIABLES
  now,           \* the clock
  phase,         \* the await each round is at
  invoked,       \* the trunks it invokes registrations for
  map,           \* MemoryStore.map
  status, received, reply,   \* the calls: see SendMessage
  validUntil,    \* until when each trunk is registered at its registrar
  lifetime,      \* what the registrar granted in the last answer stored
  missed         \* trunks a round since then could not read

roundVars == <<phase, invoked>>
sendVars == <<status, received, reply>>
historyVars == <<lifetime, missed>>
vars == <<now, roundVars, map, sendVars, validUntil, historyVars>>

Call == Round \X Trunk

S == INSTANCE SendMessage WITH
  Message <- Answers,
  Provisional <- {m \in Answers : m.responseType = "TRYING"}

Phase == {"none", "finding", "failed", "listing", "barrier", "done"}
RegistrationEntry ==
  [timeOfEntry : Nat, retentionTimeInSeconds : Int,
   status : {"registered", "quarantine"}]

ASSUME NoEntryAssumption == NoEntry \notin RegistrationEntry

-----------------------------------------------------------------------------
(* The store                                                               *)

notExpired(entry) == now - entry.timeOfEntry <= entry.retentionTimeInSeconds

list_Expired == {t \in Trunk : map[t] # NoEntry}
list == {t \in Trunk : map[t] # NoEntry /\ notExpired(map[t])}

-----------------------------------------------------------------------------
(* The rounds                                                              *)

(* The timer fires; the round reads the trunks of the API server.          *)
StartRound(r) ==
  /\ phase[r] = "none" /\ now = r * Interval
  /\ phase' = [phase EXCEPT ![r] = "finding"]
  /\ UNCHANGED <<now, invoked, map, sendVars,
                 validUntil, historyVars>>

(* The trunks that are not in the store.                                   *)
Due(trunks) == trunks \ list

(* The API server answers with the trunks that have sendRegister, which    *)
(* the operator may change at any time, and the round lists the store; or  *)
(* the API server fails, and the round ends.                               *)
FindTrunks(r) ==
  /\ phase[r] = "finding"
  /\ \/ /\ phase' = [phase EXCEPT ![r] = "listing"]
        /\ \E trunks \in SUBSET Trunk :
             /\ invoked' = [invoked EXCEPT ![r] = Due(trunks)]
             /\ missed' = missed \cup (Trunk \ trunks)
     \/ /\ phase' = [phase EXCEPT ![r] = "failed"]
        /\ missed' = Trunk
        /\ UNCHANGED invoked
  /\ UNCHANGED <<now, map, sendVars, validUntil, lifetime>>

(* The round sends its requests and waits for all of them to settle.       *)
SendRegisters(r) ==
  /\ phase[r] = "listing"
  /\ phase' = [phase EXCEPT ![r] = "barrier"]
  /\ S!Begin({r} \X invoked[r])
  /\ UNCHANGED <<now, invoked, map, validUntil, historyVars>>

RetentionTime_NoDefault(m) ==
  IF m.contact # Absent THEN m.contact - Interval ELSE Absent

(* contact?.expires ?? expires?.expires ?? DEFAULT_EXPIRES, an interval    *)
(* less.                                                                   *)
RetentionTime(m) ==
  (CASE m.contact # Absent -> m.contact
     [] m.contact = Absent /\ m.expires # Absent -> m.expires
     [] OTHER -> DEFAULT_EXPIRES) - Interval

EntryOf(m) ==
  [timeOfEntry |-> now, retentionTimeInSeconds |-> RetentionTime(m),
   status |-> IF m.responseType = "OK" THEN "registered" ELSE "quarantine"]

Settled(r) ==
  \A t \in invoked[r] : status[<<r, t>>] \in {"answered", "refused"}

(* Promise.allSettled: the answers are stored; a call that was refused     *)
(* leaves no entry.                                                        *)
StoreResults(r) ==
  /\ phase[r] = "barrier" /\ Settled(r)
  /\ LET answered == {t \in invoked[r] : status[<<r, t>>] = "answered"}
     IN  /\ map' = [t \in Trunk |->
                      IF t \in answered THEN EntryOf(reply[<<r, t>>]) ELSE map[t]]
         /\ lifetime' = [t \in Trunk |->
                      IF t \in answered THEN reply[<<r, t>>].granted
                                        ELSE lifetime[t]]
         /\ missed' = missed \ answered
  /\ phase' = [phase EXCEPT ![r] = "done"]
  /\ UNCHANGED <<now, invoked, sendVars, validUntil>>

-----------------------------------------------------------------------------
(* The environment: the registrars, the Requester, the operator, the clock *)

Respond(c, m) ==
  /\ S!Receive(c, m)
  /\ validUntil' = [validUntil EXCEPT ![c[2]] =
       IF m.responseType = "OK" THEN now + m.granted ELSE @]
  /\ UNCHANGED <<now, roundVars, map, historyVars>>

Answered(c) ==
  /\ \E m \in Answers : S!Answer(c, m)
  /\ UNCHANGED <<now, roundVars, map, validUntil, historyVars>>

Refused(c) ==
  /\ S!Refuse(c)
  /\ UNCHANGED <<now, roundVars, map, validUntil, historyVars>>

Started(r) == phase[r] # "none"
Reading(r) == phase[r] \in {"finding", "listing"}

(* Time passes, until the last round starts, but not past a timer that is  *)
(* due, nor while a round waits for the memory store.  A round that still  *)
(* waits for the API server while time passes has missed its instant.      *)
Elapse ==
  /\ now < MaxRound * Interval
  /\ \A r \in Round : r * Interval <= now => Started(r)
  /\ \A r \in Round : phase[r] # "listing"
  /\ now' = now + 1
  /\ missed' = IF \E r \in Round : phase[r] = "finding" THEN Trunk ELSE missed
  /\ UNCHANGED <<roundVars, map, sendVars, validUntil, lifetime>>

Init ==
  /\ now = 0
  /\ phase = [r \in Round |-> "none"]
  /\ invoked = [r \in Round |-> {}]
  /\ map = [t \in Trunk |-> NoEntry]
  /\ S!SendInit
  /\ validUntil = [t \in Trunk |-> 0] /\ lifetime = [t \in Trunk |-> 0]
  /\ missed = {}

Next ==
  \/ \E r \in Round :
       StartRound(r) \/ FindTrunks(r) \/ SendRegisters(r) \/ StoreResults(r)
  \/ \E c \in Call :
       (\E m \in Answers : Respond(c, m)) \/ Answered(c) \/ Refused(c)
  \/ Elapse

Spec == Init /\ [][Next]_vars

-----------------------------------------------------------------------------
(* Properties                                                              *)

(* Types: what the store keeps of an answer is a number of seconds.         *)
TypeOK ==
  /\ now \in Nat
  /\ phase \in [Round -> Phase]
  /\ invoked \in [Round -> SUBSET Trunk]
  /\ map \in [Trunk -> RegistrationEntry \cup {NoEntry}]
  /\ S!SendTypeOK
  /\ validUntil \in [Trunk -> Nat] /\ lifetime \in [Trunk -> Nat]
  /\ missed \subseteq Trunk

Registered(t) == map[t] # NoEntry /\ map[t].status = "registered"
LastRound == now \div Interval

(* A trunk that is not registered, or whose registration has run out, is   *)
(* registered again by every round that can read it, whatever became of    *)
(* its earlier calls and of those of other trunks.  Its registration runs  *)
(* out for no longer than the barrier held back the answer.                *)
NeverForgotten ==
  \A t \in Trunk \ missed :
    /\ LastRound \in Round /\ Started(LastRound) /\ ~Reading(LastRound)
    /\ \/ map[t] = NoEntry
       \/ Registered(t) /\ now > map[t].timeOfEntry + lifetime[t]
    => t \in invoked[LastRound]
=============================================================================
