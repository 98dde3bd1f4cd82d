------------------------- MODULE NetatmoTokensProofs -------------------------
(***************************************************************************)
(* The stored token is the one Netatmo refreshes, but for the losses that  *)
(* lost records, for any number of authorisations, expiries and faults.    *)
(*                                                                         *)
(* Netatmo numbers the tokens as it issues them; what makes the two        *)
(* writers of oauth_token compatible is their order: the token of an       *)
(* authorisation in progress is the last one issued, and newer than what   *)
(* the loop holds and than what is stored.                                 *)
(***************************************************************************)
EXTENDS NetatmoTokens, TLAPS

\* The state, part by part: booleans and numbers are proved apart.
Numbers ==
  /\ issued \in Nat /\ stored \in Nat /\ exchange \in Nat /\ expired \subseteq Nat
  /\ station \in Nat /\ read \in Nat /\ row \in Nat /\ history \subseteq Nat
  /\ exchanges \in Nat /\ faults \in Nat
Flags == scope \in BOOLEAN /\ healthy \in BOOLEAN /\ lost \in BOOLEAN /\ overtaken \in BOOLEAN
Place == poll \in [step: Step, request: {"weather", "security"}, token: Nat]

\* The tokens, in the order they were issued; one that is used was stored first,
\* and still is unless an authorisation replaced it.
Ordered ==
  /\ stored <= issued /\ poll.token <= issued
  /\ exchange # 0 => exchange = issued /\ stored < exchange /\ poll.token < exchange
  /\ poll.step \in {"refresh", "call"} => IF overtaken THEN poll.token < stored ELSE poll.token = stored

\* Until one is lost, the last token is stored, or about to be by one of the writers.
Held == ~lost => \/ stored = issued
                 \/ exchange = issued
                 \/ poll.step = "save" /\ poll.token = issued

IInv == Numbers /\ Place /\ Flags /\ Ordered /\ Held

LEMMA InitHolds == Init => IInv
<1>1. Init => Numbers /\ Place
  BY DEF Init, Numbers, Place, Step
<1>2. Init => Flags
  BY DEF Init, Flags
<1>3. Init => Ordered
  BY DEF Init, Ordered
<1>4. Init => Held
  BY DEF Init, Held
<1> QED
  BY <1>1, <1>2, <1>3, <1>4 DEF IInv

-----------------------------------------------------------------------------
(* The steps, in four groups; under each action, the parts of IInv.        *)
Environment == Expire \/ Read \/ Tick
Requests == GetToken \/ Refresh \/ RefreshUnanswered \/ RefreshRefused \/ Save \/ SaveFails \/ Call \/ CallFails
Writes == Upsert \/ Insert \/ WriteFails
Authorisation == Exchange \/ SaveExchanged \/ SaveExchangedFails \/ Crash

LEMMA NextIsOneOf == Next <=> Environment \/ Requests \/ Writes \/ Authorisation
  BY DEF Next, Loop, Environment, Requests, Writes, Authorisation

LEMMA EnvironmentStep ==
  ASSUME IInv, Environment
  PROVE  IInv'
<1> USE DEF tokens, data, Step
<1>1. CASE Expire
  <2>1. Numbers' /\ Place'
    BY <1>1 DEF IInv, Numbers, Place, Expire
  <2>2. Flags'
    BY <1>1 DEF IInv, Flags, Expire
  <2>3. Ordered'
    BY <1>1 DEF IInv, Numbers, Place, Ordered, Expire
  <2>4. Held'
    BY <1>1 DEF IInv, Numbers, Place, Ordered, Held, Expire
  <2> QED
    BY <2>1, <2>2, <2>3, <2>4 DEF IInv
<1>2. CASE Read
  <2>1. Numbers' /\ Place'
    BY <1>2 DEF IInv, Numbers, Place, Read
  <2>2. Flags'
    BY <1>2 DEF IInv, Flags, Read
  <2>3. Ordered'
    BY <1>2 DEF IInv, Numbers, Place, Ordered, Read
  <2>4. Held'
    BY <1>2 DEF IInv, Numbers, Place, Ordered, Held, Read
  <2> QED
    BY <2>1, <2>2, <2>3, <2>4 DEF IInv
<1>3. CASE Tick
  <2>1. Numbers' /\ Place'
    BY <1>3 DEF IInv, Numbers, Place, Tick, Goto, At
  <2>2. Flags'
    BY <1>3 DEF IInv, Flags, Tick, Goto, At
  <2>3. Ordered'
    BY <1>3 DEF IInv, Numbers, Place, Ordered, Tick, Goto, At
  <2>4. Held'
    BY <1>3 DEF IInv, Numbers, Place, Ordered, Held, Tick, Goto, At
  <2> QED
    BY <2>1, <2>2, <2>3, <2>4 DEF IInv
<1> QED
  BY <1>1, <1>2, <1>3 DEF Environment

LEMMA RequestsStep ==
  ASSUME IInv, Requests
  PROVE  IInv'
<1> USE DEF tokens, data, Step
<1>1. CASE GetToken
  <2>1. Numbers' /\ Place'
    <3>1. Numbers'
      BY <1>1 DEF IInv, Numbers, GetToken, Goto, At, Rest, Fails
    <3>2. PICK step \in Step, request \in {"weather", "security"}, token \in Nat :
            poll' = [step |-> step, request |-> request, token |-> token]
      <4>1. CASE stored = 0
        BY <1>1, <4>1 DEF IInv, Place, GetToken, Goto, At, Rest, Fails
      <4>2. CASE stored # 0
        BY <1>1, <4>2 DEF IInv, Numbers, Place, GetToken, At
      <4> QED
        BY <4>1, <4>2
    <3> QED
      BY <3>1, <3>2 DEF Place
  <2>2. Flags'
    BY <1>1 DEF IInv, Flags, GetToken, Goto, At, Rest, Fails
  <2>3. Ordered'
    BY <1>1 DEF IInv, Numbers, Place, Ordered, GetToken, Goto, At, Rest, Fails
  <2>4. Held'
    BY <1>1 DEF IInv, Numbers, Place, Ordered, Held, GetToken, Goto, At, Rest, Fails
  <2> QED
    BY <2>1, <2>2, <2>3, <2>4 DEF IInv
<1>2. CASE Refresh
  <2>1. Numbers' /\ Place'
    BY <1>2 DEF IInv, Numbers, Place, Refresh, Rotate, At
  <2>2. Flags'
    BY <1>2 DEF IInv, Flags, Refresh, Rotate, At
  <2>3. Ordered'
    BY <1>2 DEF IInv, Numbers, Place, Ordered, Refresh, Rotate, At
  <2>4. Held'
    BY <1>2 DEF IInv, Numbers, Place, Ordered, Held, Refresh, Rotate, At
  <2> QED
    BY <2>1, <2>2, <2>3, <2>4 DEF IInv
<1>3. CASE RefreshUnanswered
  <2>1. Numbers' /\ Place'
    BY <1>3 DEF IInv, Numbers, Place, RefreshUnanswered, Rotate, Fault, Fails, Goto, At, Rest
  <2>2. Flags'
    BY <1>3 DEF IInv, Flags, RefreshUnanswered, Rotate, Fault, Fails, Goto, At, Rest
  <2>3. Ordered'
    BY <1>3 DEF IInv, Numbers, Place, Ordered, RefreshUnanswered, Rotate, Fault, Fails, Goto, At, Rest
  <2>4. Held'
    BY <1>3 DEF IInv, Numbers, Place, Ordered, Held, RefreshUnanswered, Rotate, Fault, Fails, Goto, At, Rest
  <2> QED
    BY <2>1, <2>2, <2>3, <2>4 DEF IInv
<1>4. CASE RefreshRefused
  <2>1. Numbers' /\ Place'
    BY <1>4 DEF IInv, Numbers, Place, RefreshRefused, Fault, Fails, Goto, At, Rest
  <2>2. Flags'
    BY <1>4 DEF IInv, Flags, RefreshRefused, Fault, Fails, Goto, At, Rest
  <2>3. Ordered'
    BY <1>4 DEF IInv, Numbers, Place, Ordered, RefreshRefused, Fault, Fails, Goto, At, Rest
  <2>4. Held'
    BY <1>4 DEF IInv, Numbers, Place, Ordered, Held, RefreshRefused, Fault, Fails, Goto, At, Rest
  <2> QED
    BY <2>1, <2>2, <2>3, <2>4 DEF IInv
<1>5. CASE Save
  <2>1. Numbers' /\ Place'
    BY <1>5 DEF IInv, Numbers, Place, Save, Store, Goto, At
  <2>2. Flags'
    BY <1>5 DEF IInv, Flags, Save, Store, Goto, At
  <2>3. Ordered'
    BY <1>5 DEF IInv, Numbers, Place, Ordered, Save, Store, Goto, At
  <2>4. Held'
    BY <1>5 DEF IInv, Numbers, Place, Ordered, Held, Save, Store, Goto, At
  <2> QED
    BY <2>1, <2>2, <2>3, <2>4 DEF IInv
<1>6. CASE SaveFails
  <2>1. Numbers' /\ Place'
    BY <1>6 DEF IInv, Numbers, Place, SaveFails, Fault, Fails, Goto, At, Rest
  <2>2. Flags'
    BY <1>6 DEF IInv, Flags, SaveFails, Fault, Fails, Goto, At, Rest
  <2>3. Ordered'
    BY <1>6 DEF IInv, Numbers, Place, Ordered, SaveFails, Fault, Fails, Goto, At, Rest
  <2>4. Held'
    BY <1>6 DEF IInv, Numbers, Place, Ordered, Held, SaveFails, Fault, Fails, Goto, At, Rest
  <2> QED
    BY <2>1, <2>2, <2>3, <2>4 DEF IInv
<1>7. CASE Call
  <2>1. Numbers' /\ Place'
    BY <1>7 DEF IInv, Numbers, Place, Call, Goto, At
  <2>2. Flags'
    BY <1>7 DEF IInv, Flags, Call, Goto, At
  <2>3. Ordered'
    BY <1>7 DEF IInv, Numbers, Place, Ordered, Call, Goto, At
  <2>4. Held'
    BY <1>7 DEF IInv, Numbers, Place, Ordered, Held, Call, Goto, At
  <2> QED
    BY <2>1, <2>2, <2>3, <2>4 DEF IInv
<1>8. CASE CallFails
  <2>1. Numbers' /\ Place'
    BY <1>8 DEF IInv, Numbers, Place, CallFails, Fault, Fails, Goto, At, Rest
  <2>2. Flags'
    BY <1>8 DEF IInv, Flags, CallFails, Fault, Fails, Goto, At, Rest
  <2>3. Ordered'
    BY <1>8 DEF IInv, Numbers, Place, Ordered, CallFails, Fault, Fails, Goto, At, Rest
  <2>4. Held'
    BY <1>8 DEF IInv, Numbers, Place, Ordered, Held, CallFails, Fault, Fails, Goto, At, Rest
  <2> QED
    BY <2>1, <2>2, <2>3, <2>4 DEF IInv
<1> QED
  BY <1>1, <1>2, <1>3, <1>4, <1>5, <1>6, <1>7, <1>8 DEF Requests

LEMMA WritesStep ==
  ASSUME IInv, Writes
  PROVE  IInv'
<1> USE DEF tokens, data, Step
<1>1. CASE Upsert
  <2>1. Numbers' /\ Place'
    BY <1>1 DEF IInv, Numbers, Place, Upsert, Goto, At
  <2>2. Flags'
    BY <1>1 DEF IInv, Flags, Upsert, Goto, At
  <2>3. Ordered'
    BY <1>1 DEF IInv, Numbers, Place, Ordered, Upsert, Goto, At
  <2>4. Held'
    BY <1>1 DEF IInv, Numbers, Place, Ordered, Held, Upsert, Goto, At
  <2> QED
    BY <2>1, <2>2, <2>3, <2>4 DEF IInv
<1>2. CASE Insert
  <2>1. Numbers' /\ Place'
    BY <1>2 DEF IInv, Numbers, Place, Insert, Rest, At
  <2>2. Flags'
    BY <1>2 DEF IInv, Flags, Insert, Rest, At
  <2>3. Ordered'
    BY <1>2 DEF IInv, Numbers, Place, Ordered, Insert, Rest, At
  <2>4. Held'
    BY <1>2 DEF IInv, Numbers, Place, Ordered, Held, Insert, Rest, At
  <2> QED
    BY <2>1, <2>2, <2>3, <2>4 DEF IInv
<1>3. CASE WriteFails
  <2>1. Numbers' /\ Place'
    BY <1>3 DEF IInv, Numbers, Place, WriteFails, Fault, Rest, At
  <2>2. Flags'
    BY <1>3 DEF IInv, Flags, WriteFails, Fault, Rest, At
  <2>3. Ordered'
    BY <1>3 DEF IInv, Numbers, Place, Ordered, WriteFails, Fault, Rest, At
  <2>4. Held'
    BY <1>3 DEF IInv, Numbers, Place, Ordered, Held, WriteFails, Fault, Rest, At
  <2> QED
    BY <2>1, <2>2, <2>3, <2>4 DEF IInv
<1> QED
  BY <1>1, <1>2, <1>3 DEF Writes

LEMMA AuthorisationStep ==
  ASSUME IInv, Authorisation
  PROVE  IInv'
<1> USE DEF tokens, data, Step
<1>1. CASE Exchange
  <2>1. Numbers' /\ Place'
    BY <1>1 DEF IInv, Numbers, Place, Exchange, Fault
  <2>2. Flags'
    BY <1>1 DEF IInv, Flags, Exchange, Fault
  <2>3. Ordered'
    BY <1>1 DEF IInv, Numbers, Place, Ordered, Exchange, Fault
  <2>4. Held'
    BY <1>1 DEF IInv, Numbers, Place, Ordered, Held, Exchange, Fault
  <2> QED
    BY <2>1, <2>2, <2>3, <2>4 DEF IInv
<1>2. CASE SaveExchanged
  <2>1. Numbers' /\ Place'
    BY <1>2 DEF IInv, Numbers, Place, SaveExchanged, Store
  <2>2. Flags'
    BY <1>2 DEF IInv, Flags, SaveExchanged, Store
  <2>3. Ordered'
    BY <1>2 DEF IInv, Numbers, Place, Ordered, SaveExchanged, Store
  <2>4. Held'
    BY <1>2 DEF IInv, Numbers, Place, Ordered, Held, SaveExchanged, Store
  <2> QED
    BY <2>1, <2>2, <2>3, <2>4 DEF IInv
<1>3. CASE Crash
  <2>1. Numbers' /\ Place'
    BY <1>3 DEF IInv, Numbers, Place, Crash, Fault, At
  <2>2. Flags'
    BY <1>3 DEF IInv, Flags, Crash, Fault, At
  <2>3. Ordered'
    BY <1>3 DEF IInv, Numbers, Place, Ordered, Crash, Fault, At
  <2>4. Held'
    BY <1>3 DEF IInv, Numbers, Place, Ordered, Held, Crash, Fault, At
  <2> QED
    BY <2>1, <2>2, <2>3, <2>4 DEF IInv
<1>4. CASE SaveExchangedFails
  <2>1. Numbers' /\ Place'
    BY <1>4 DEF IInv, Numbers, Place, SaveExchangedFails, Fault
  <2>2. Flags'
    BY <1>4 DEF IInv, Flags, SaveExchangedFails, Fault
  <2>3. Ordered'
    BY <1>4 DEF IInv, Numbers, Place, Ordered, SaveExchangedFails, Fault
  <2>4. Held'
    BY <1>4 DEF IInv, Numbers, Place, Ordered, Held, SaveExchangedFails, Fault
  <2> QED
    BY <2>1, <2>2, <2>3, <2>4 DEF IInv
<1> QED
  BY <1>1, <1>2, <1>3, <1>4 DEF Authorisation

LEMMA StepHolds == IInv /\ [Next]_vars => IInv'
<1>1. IInv /\ UNCHANGED vars => IInv'
  BY DEF IInv, Numbers, Place, Flags, Ordered, Held, vars, tokens, data
<1> QED
  BY <1>1, NextIsOneOf, EnvironmentStep, WritesStep, RequestsStep, AuthorisationStep

LEMMA Invariance == Spec => []IInv
  BY InitHolds, StepHolds, PTL DEF Spec

-----------------------------------------------------------------------------
\* The state of the loop, of the two writers and of the station stays in its types.
THEOREM TypeCorrect == Spec => []TypeOK
<1>1. IInv => TypeOK
  BY DEF IInv, Numbers, Place, Flags, TypeOK
<1> QED
  BY <1>1, Invariance, PTL

\* Access survives a restart: whenever no writer is at work, the stored token is the one
\* Netatmo refreshes, unless the answer, the write or the race that lost it is recorded
\* (tokensource.go Token, client.go Exchange).
THEOREM AccessKept == Spec => []AccessIsKept
<1>1. IInv => AccessIsKept
  BY DEF IInv, Numbers, Ordered, Held, AccessIsKept, AtRest
<1> QED
  BY <1>1, Invariance, PTL

\* A request goes out with the token in the database, a rotated one saved first; an
\* authorisation saved while it is under way leaves it with an older one (tokensource.go
\* Token, client.go httpClient and Exchange).
THEOREM StoredBeforeUse == Spec => UsedIsStored
<1>1. IInv /\ [Next]_vars => [Call => IF overtaken THEN poll.token < stored ELSE poll.token = stored]_vars
  BY DEF IInv, Ordered, Call
<1> QED
  BY <1>1, Invariance, PTL DEF Spec, UsedIsStored
=============================================================================
