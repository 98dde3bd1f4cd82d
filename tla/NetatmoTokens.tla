---------------------------- MODULE NetatmoTokens ----------------------------
(***************************************************************************)
(* The Netatmo tokens.  Each use of a refresh token gives a new one and    *)
(* revokes the one before, so what is in table oauth_token must follow     *)
(* what Netatmo issued.  Two writers save tokens: the polling loop, which  *)
(* builds a client from the stored token at each request (client.go get,   *)
(* tokensource.go Token), and the callback of an authorisation (auth.go    *)
(* callback, client.go Exchange).  What the loop does with the answers     *)
(* (poller.go refreshNetatmo) is modelled too: two requests, the second    *)
(* optional, then two writes.                                              *)
(*                                                                         *)
(* A token stands for its access and its refresh token; tokens are         *)
(* numbered as Netatmo issues them.  The station is the environment.       *)
(***************************************************************************)
EXTENDS Naturals, FiniteSets

CONSTANTS
  MaxExchanges,  \* bound: authorisations
  MaxExpiries,   \* bound: access tokens that expire
  MaxReadings,   \* bound: readings of the station
  MaxFaults      \* bound: lost answers, failed writes, refused requests, crashes

VARIABLES
  issued,     \* the last token Netatmo issued, the only one it refreshes
  expired,    \* the tokens whose access token is out of date
  scope,      \* whether the authorisation covers the cameras
  stored,     \* the token in the database, 0 when there is none
  poll,       \* refreshNetatmo: its next step, for which request, with which token
  exchange,   \* the token an authorisation has received and not saved yet, 0 if none
  healthy,    \* status["netatmo"].Healthy
  station,    \* the number of the station's last reading
  read, row, history,  \* the reading fetched, the one shown, those in table measurement
  exchanges, faults,
  lost,       \* history: the token Netatmo would refresh was lost, until one is saved
  overtaken   \* history: an authorisation was saved since the loop last read or saved a token

tokens == <<issued, expired, scope, stored, exchange, exchanges, lost, overtaken>>
data == <<station, read, row, history>>
vars == <<tokens, data, poll, healthy, faults>>

At(step, request, token) == poll' = [step |-> step, request |-> request, token |-> token]
Goto(step) == At(step, poll.request, poll.token)
Rest == At("wait", "weather", 0)
Fault == faults < MaxFaults /\ faults' = faults + 1

(***************************************************************************)
(* The environment.                                                        *)
(***************************************************************************)
Expire == \E t \in (1 .. issued) \ expired :
  /\ Cardinality(expired) < MaxExpiries
  /\ expired' = expired \cup {t}
  /\ UNCHANGED <<issued, scope, stored, exchange, exchanges, lost, overtaken, data, poll, healthy, faults>>

Read == station < MaxReadings /\ station' = station + 1
  /\ UNCHANGED <<tokens, read, row, history, poll, healthy, faults>>

(***************************************************************************)
(* The loop: tick, then refreshNetatmo.                                    *)
(***************************************************************************)
Tick == poll.step = "wait" /\ Goto("token")
  /\ UNCHANGED <<tokens, data, healthy, faults>>

\* A request fails: without the weather the turn is over, without the cameras it goes on.
FailsForAnyRequest == Rest /\ healthy' = FALSE /\ UNCHANGED data
Fails ==
  /\ IF poll.request = "weather" THEN Rest /\ healthy' = FALSE
     ELSE Goto("upsert") /\ UNCHANGED healthy
  /\ UNCHANGED data

\* httpClient: the token is read again at each request.
GetToken ==
  /\ poll.step = "token"
  /\ IF stored = 0 THEN Fails
     ELSE /\ At(IF stored \in expired THEN "refresh" ELSE "call", poll.request, stored)
          /\ UNCHANGED <<data, healthy>>
  /\ overtaken' = FALSE
  /\ UNCHANGED <<issued, expired, scope, stored, exchange, exchanges, lost, faults>>

\* Token, when the access token is out of date: Netatmo rotates the refresh token...
Rotate == issued' = issued + 1 /\ UNCHANGED <<expired, scope, stored, exchange, exchanges, overtaken>>
RefreshUnsaved ==
  /\ poll.step = "refresh" /\ poll.token = issued
  /\ Rotate /\ At("call", poll.request, issued + 1)
  /\ UNCHANGED <<data, healthy, faults, lost>>
Refresh ==
  /\ poll.step = "refresh" /\ poll.token = issued
  /\ Rotate /\ At("save", poll.request, issued + 1)
  /\ UNCHANGED <<data, healthy, faults, lost>>

\* ...and its answer may be lost.
RefreshUnanswered ==
  /\ poll.step = "refresh" /\ poll.token = issued /\ Fault
  /\ Rotate /\ lost' = TRUE /\ Fails

\* A token that is not the last one is refused, or the request does not get through.
RefreshRefused ==
  /\ poll.step = "refresh" /\ IF poll.token = issued THEN Fault ELSE UNCHANGED faults
  /\ Fails /\ UNCHANGED tokens

\* SaveToken, before the token is used.  It replaces whatever is stored.
Store(token) == stored' = token /\ lost' = (token # issued)
  /\ UNCHANGED <<issued, expired, scope, exchanges>>
SaveForgotten ==
  /\ poll.step = "save" /\ Goto("call")
  /\ UNCHANGED <<tokens, data, healthy, faults>>
Save ==
  /\ poll.step = "save" /\ Store(poll.token) /\ overtaken' = FALSE /\ Goto("call")
  /\ UNCHANGED <<exchange, data, healthy, faults>>
SaveFails ==
  /\ poll.step = "save" /\ Fault /\ Fails
  /\ lost' = (lost \/ poll.token = issued)
  /\ UNCHANGED <<issued, expired, scope, stored, exchange, exchanges, overtaken>>

\* The request itself; the cameras need their scope.
Call ==
  /\ poll.step = "call" /\ (poll.request = "security" => scope)
  /\ IF poll.request = "weather" THEN At("token", "security", 0) /\ read' = station
     ELSE Goto("upsert") /\ UNCHANGED read
  /\ UNCHANGED <<tokens, station, row, history, healthy, faults>>
CallFails ==
  /\ poll.step = "call"
  /\ IF poll.request = "security" /\ ~scope THEN UNCHANGED faults ELSE Fault
  /\ Fails /\ UNCHANGED tokens

\* UpsertDevices, then InsertMeasurements, which ignores the readings it has already.
Upsert == poll.step = "upsert" /\ row' = read /\ Goto("insert")
  /\ UNCHANGED <<tokens, station, read, history, healthy, faults>>
Insert == poll.step = "insert" /\ history' = history \cup {read} /\ Rest /\ healthy' = TRUE
  /\ UNCHANGED <<tokens, station, read, row, faults>>
WriteFails == poll.step \in {"upsert", "insert"} /\ Fault /\ Rest /\ healthy' = FALSE
  /\ UNCHANGED <<tokens, data>>

(***************************************************************************)
(* An authorisation, and the process.                                      *)
(***************************************************************************)

\* callback: the code is exchanged; the answer may be lost...
Exchange ==
  /\ exchange = 0 /\ exchanges < MaxExchanges /\ exchanges' = exchanges + 1
  /\ issued' = issued + 1
  /\ \/ exchange' = issued' /\ UNCHANGED <<lost, faults>>
     \/ Fault /\ lost' = TRUE /\ UNCHANGED exchange
  /\ UNCHANGED <<expired, scope, stored, overtaken, data, poll, healthy>>

\* ...or saved, which may fail: the user is told, and the token is gone.
SaveExchanged == exchange # 0 /\ Store(exchange) /\ exchange' = 0 /\ overtaken' = TRUE
  /\ UNCHANGED <<data, poll, healthy, faults>>
SaveExchangedFails == exchange # 0 /\ Fault /\ exchange' = 0 /\ lost' = (lost \/ exchange = issued)
  /\ UNCHANGED <<issued, expired, scope, stored, exchanges, overtaken, data, poll, healthy>>

\* The process stops without warning and starts again: what was not saved is gone.
Crash ==
  /\ Fault
  /\ At("token", "weather", 0) /\ exchange' = 0 /\ healthy' = FALSE
  /\ lost' = (lost \/ (poll.step = "save" /\ poll.token = issued) \/ (exchange = issued /\ issued # 0))
  /\ UNCHANGED <<issued, expired, scope, stored, exchanges, overtaken, data>>

Init ==
  /\ issued = 0 /\ expired = {} /\ scope \in BOOLEAN /\ stored = 0 /\ exchange = 0
  /\ poll = [step |-> "token", request |-> "weather", token |-> 0]
  /\ healthy = FALSE /\ station = 1 /\ read = 0 /\ row = 0 /\ history = {}
  /\ exchanges = 0 /\ faults = 0 /\ lost = FALSE /\ overtaken = FALSE

Loop == \/ Tick \/ GetToken \/ Refresh \/ RefreshRefused \/ Save
        \/ Call \/ CallFails \/ Upsert \/ Insert
Next == \/ Loop \/ RefreshUnanswered \/ SaveFails \/ WriteFails
        \/ Expire \/ Read \/ Exchange \/ SaveExchanged \/ SaveExchangedFails \/ Crash

\* The loop runs and an accepted authorisation is saved; nobody has to authorise.
Spec == Init /\ [][Next]_vars /\ WF_vars(Loop) /\ WF_vars(SaveExchanged)

(***************************************************************************)
(* Properties.                                                             *)
(***************************************************************************)
Step == {"wait", "token", "refresh", "save", "call", "upsert", "insert"}
TypeOK ==
  /\ issued \in Nat /\ stored \in Nat /\ exchange \in Nat /\ expired \subseteq Nat
  /\ poll \in [step: Step, request: {"weather", "security"}, token: Nat]
  /\ scope \in BOOLEAN /\ healthy \in BOOLEAN /\ lost \in BOOLEAN
  /\ overtaken \in BOOLEAN
  /\ station \in Nat /\ read \in Nat /\ row \in Nat /\ history \subseteq Nat
  /\ exchanges \in Nat /\ faults \in Nat

\* Nobody but the database holds the token Netatmo would refresh.
AtRest == exchange = 0 /\ poll.step # "save"

\* The stored token is the one Netatmo refreshes, so that access survives a restart
\* (README, tokensource.go): it is lost only with an answer, by a failed write or a
\* crash between the rotation and SaveToken, or when the loop saves an older token over
\* the one of a new authorisation.
AccessIsKept == AtRest /\ ~lost => stored = issued

\* A request goes out with the token the database holds: the one that made Netatmo rotate
\* it is never used before a restart would find it.  Only when an authorisation is saved
\* while the request is under way does it go on with the token it had, an older one.
UsedIsStored == [][Call => IF overtaken THEN poll.token < stored ELSE poll.token = stored]_vars

\* Unless access was lost or never given, the loop ends healthy, with the station's
\* last reading shown and in the history, be the cameras out of its scope.
EndsHealthy == <>[](stored = 0 \/ lost \/ (healthy /\ row = station /\ row \in history))
=============================================================================
