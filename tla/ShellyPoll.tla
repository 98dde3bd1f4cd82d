----------------------------- MODULE ShellyPoll -----------------------------
(***************************************************************************)
(* The Shelly modules and their rows in table device: shelly/client.go     *)
(* Fetch and Execute, poller.go runShelly and tick, store MarkUnreachable. *)
(* A module stays at its host and has one channel; the value of the        *)
(* channel is the number of times it was switched.  The client remembers   *)
(* in memory the modules it has met.                                       *)
(***************************************************************************)
EXTENDS Naturals, FiniteSets

CONSTANTS
  Module,
  MaxSwitches,  \* bound: times a channel is switched
  MaxFaults     \* bound: modules that fall silent, calls that fail, restarts

VARIABLES
  value, up,    \* the channel of each module, and whether the module answers
  modules,      \* Client.modules: the modules the client has met
  poll,         \* refreshShelly: what it has still to ask, has read, has still to mark
  nudge,        \* the slot of p.nudges["shelly"]
  answered,     \* a command is done and its nudge is still to come
  row,          \* value, reachable, and whether there is a row
  silent,       \* history: the modules the last poll could not read; none if it could not write
  switches, faults

vars == <<value, up, modules, poll, nudge, answered, row, silent, switches, faults>>
world == <<value, up, switches>>

Resting == [phase |-> "wait", ask |-> {}, read |-> {}, seen |-> [m \in Module |-> 0], mark |-> {}]

(***************************************************************************)
(* The modules, and the commands sent to them.                             *)
(***************************************************************************)
Switch(m) ==
  /\ switches < MaxSwitches /\ switches' = switches + 1
  /\ value' = [value EXCEPT ![m] = @ + 1]
  /\ UNCHANGED <<up, modules, poll, nudge, row, silent, faults>>

ByHand(m) == Switch(m) /\ UNCHANGED answered

\* hostOf and Switch.Toggle: a module not met yet is refused.
Execute(m) == ~answered /\ m \in modules /\ up[m] /\ Switch(m) /\ answered' = TRUE

\* Controller.Send, then Nudge: the slot holds one request.
CommandDone == answered /\ answered' = FALSE /\ nudge' = TRUE
  /\ UNCHANGED <<world, modules, poll, row, silent, faults>>

Unplugged(m) ==
  /\ up[m] /\ faults < MaxFaults /\ faults' = faults + 1
  /\ up' = [up EXCEPT ![m] = FALSE]
  /\ UNCHANGED <<value, switches, modules, poll, nudge, answered, row, silent>>
Plugged(m) ==
  /\ ~up[m] /\ up' = [up EXCEPT ![m] = TRUE]
  /\ UNCHANGED <<value, switches, faults, modules, poll, nudge, answered, row, silent>>

(***************************************************************************)
(* tick, and the poll.                                                     *)
(***************************************************************************)
Begin ==
  /\ poll.phase = "wait"
  /\ poll' = [Resting EXCEPT !.phase = "fetch", !.ask = Module]
  /\ UNCHANGED <<world, modules, answered, row, silent, faults>>
Tick == Begin /\ UNCHANGED nudge
Nudged == nudge /\ nudge' = FALSE /\ Begin

\* fetchHost: the configuration when it is not known or too old, then the status.
FetchHost(m) ==
  /\ m \in poll.ask /\ up[m]
  /\ poll' = [poll EXCEPT !.ask = @ \ {m}, !.read = @ \cup {m}, !.seen[m] = value[m]]
  /\ modules' = modules \cup {m}
  /\ UNCHANGED <<world, nudge, answered, row, silent, faults>>

\* It fails; the configuration may have been read, and then the module is known.
FetchHostFailsUnmarked(m) ==
  /\ m \in poll.ask /\ ~up[m]
  /\ poll' = [poll EXCEPT !.ask = @ \ {m}]
  /\ UNCHANGED <<world, modules, nudge, answered, row, silent, faults>>
FetchHostFails(m) ==
  /\ m \in poll.ask
  /\ \/ up[m] /\ faults < MaxFaults /\ faults' = faults + 1 /\ modules' \in {modules, modules \cup {m}}
     \/ ~up[m] /\ UNCHANGED <<modules, faults>>
  /\ poll' = [poll EXCEPT !.ask = @ \ {m}, !.mark = IF m \in modules' THEN @ \cup {m} ELSE @]
  /\ UNCHANGED <<world, nudge, answered, row, silent>>

\* refreshShelly writes the channels that were read, whatever failed...
UpsertIfAllAnswered ==
  /\ poll.phase = "fetch" /\ poll.ask = {}
  /\ row' = IF poll.read = Module
            THEN [m \in Module |-> [value |-> poll.seen[m], reachable |-> TRUE, known |-> TRUE]] ELSE row
  /\ poll' = [poll EXCEPT !.phase = "mark"]
  /\ UNCHANGED <<world, modules, nudge, answered, silent, faults>>
UpsertUnread ==
  /\ poll.phase = "fetch" /\ poll.ask = {}
  /\ row' = [m \in Module |-> [value |-> poll.seen[m], reachable |-> TRUE, known |-> TRUE]]
  /\ poll' = [poll EXCEPT !.phase = "mark"]
  /\ UNCHANGED <<world, modules, nudge, answered, silent, faults>>
Upsert ==
  /\ poll.phase = "fetch" /\ poll.ask = {}
  /\ row' = [m \in Module |->
               IF m \in poll.read THEN [value |-> poll.seen[m], reachable |-> TRUE, known |-> TRUE] ELSE row[m]]
  /\ poll' = [poll EXCEPT !.phase = "mark"]
  /\ UNCHANGED <<world, modules, nudge, answered, silent, faults>>

\* ...then marks the known modules that did not answer, one by one...
MarkUnreachable(m) ==
  /\ poll.phase = "mark" /\ m \in poll.mark
  /\ row' = [row EXCEPT ![m].reachable = FALSE]
  /\ poll' = [poll EXCEPT !.mark = @ \ {m}]
  /\ UNCHANGED <<world, modules, nudge, answered, silent, faults>>

\* ...and the poll ends.
End ==
  /\ poll.phase = "mark" /\ poll.mark = {}
  /\ poll' = Resting /\ silent' = Module \ poll.read
  /\ UNCHANGED <<world, modules, nudge, answered, row, faults>>

\* One of these writes fails: the poll ends there, the next one writes them again.
WriteFails ==
  /\ poll.ask = {} /\ poll.phase \in {"fetch", "mark"} /\ faults < MaxFaults /\ faults' = faults + 1
  /\ poll' = Resting /\ silent' = {}
  /\ UNCHANGED <<world, modules, nudge, answered, row>>

\* The process is stopped or crashes, and starts again: a new client, a first poll.
Restart ==
  /\ faults < MaxFaults /\ faults' = faults + 1
  /\ modules' = {} /\ nudge' = FALSE /\ answered' = FALSE
  /\ poll' = [Resting EXCEPT !.phase = "fetch", !.ask = Module]
  /\ UNCHANGED <<world, row, silent>>

Init ==
  /\ value = [m \in Module |-> 0] /\ up \in [Module -> BOOLEAN]
  /\ modules = {} /\ nudge = FALSE /\ answered = FALSE
  /\ poll = [Resting EXCEPT !.phase = "fetch", !.ask = Module]
  /\ row \in [Module -> {[value |-> 0, reachable |-> k, known |-> k] : k \in BOOLEAN}]
  /\ silent = {} /\ switches = 0 /\ faults = 0

Poll == \/ Tick \/ Nudged \/ Upsert \/ End
        \/ \E m \in Module : FetchHost(m) \/ FetchHostFails(m) \/ MarkUnreachable(m)
Next == \/ Poll \/ WriteFails \/ CommandDone \/ Restart
        \/ \E m \in Module : ByHand(m) \/ Execute(m) \/ Unplugged(m) \/ Plugged(m)

\* The loop runs and its ticker fires: the only source without a stream of events.
Spec == Init /\ [][Next]_vars /\ WF_vars(Poll)

(***************************************************************************)
(* Properties.                                                             *)
(***************************************************************************)
Phase == {"wait", "fetch", "mark"}
PollState == [phase: Phase, ask: SUBSET Module, read: SUBSET Module, seen: [Module -> Nat], mark: SUBSET Module]
RowState == [value: Nat, reachable: BOOLEAN, known: BOOLEAN]
TypeOK ==
  /\ value \in [Module -> Nat] /\ up \in [Module -> BOOLEAN] /\ switches \in Nat
  /\ row \in [Module -> RowState] /\ poll \in PollState
  /\ modules \subseteq Module /\ silent \subseteq Module
  /\ nudge \in BOOLEAN /\ answered \in BOOLEAN /\ faults \in Nat

\* Between two polls a channel is shown reachable only if its module answered the last
\* one, unless this one failed to write, or the module has not been met since the process
\* started: a crash between the two writes of refreshShelly, or a module silent since the
\* start (client.go known), leaves it so.
ReachableAnswered ==
  poll.phase = "wait" => \A m \in modules : row[m].reachable => m \notin silent

\* Whatever the interleaving of polls, commands and restarts, the row of a module lags
\* behind it and never goes back: runShelly is the only loop that writes it.
Rows == INSTANCE Mirror WITH Thing <- Module, thing <- value, copy <- [m \in Module |-> row[m].value]
RowsMirror == Rows!Spec

\* A module that answers is shown as it is in the end, and one that does not as
\* unreachable, even when others fail at each poll; except a module not met since the
\* process started, whose row is left as it was.
CatchesUp == <>[](\A m \in Module :
  IF up[m] THEN row[m].known /\ row[m].reachable /\ row[m].value = value[m]
  ELSE m \in modules => ~row[m].reachable)
=============================================================================
