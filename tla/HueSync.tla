------------------------------ MODULE HueSync ------------------------------
(***************************************************************************)
(* One Hue light, from the bridge to its row in table device: the event    *)
(* stream (hue/events.go), the inventory (hue/client.go FetchDevices), the *)
(* two loops that write what they read (poller.go runHueInventory,         *)
(* runHueEvents) and the commands sent to the light.  The two loops are    *)
(* goroutines that share nothing but the database and the nudge channel.   *)
(*                                                                         *)
(* The state of the light is split in parts (on, brightness...); the value *)
(* of a part is the number of times it changed, so that "older" has a      *)
(* meaning.  The bridge, its stream and its link to the light are the      *)
(* environment.                                                            *)
(***************************************************************************)
EXTENDS Integers, Sequences

CONSTANTS
  Part,         \* the parts of a light's state, "on" among them
  MaxChanges,   \* bound: changes of the light or of its link
  MaxFaults     \* bound: cuts of the stream, failures of the inventory, events lost

ASSUME PartAssumption == "on" \in Part

VARIABLES
  light,     \* the bridge's light: its parts, and its link ("absent", "up", "down")
  row,       \* its row: parts and reachable, or NoRow
  stream,    \* "closed", "open", or "dead": cut without the client being told
  sent,      \* events on their way, oldest first
  merging,   \* mergeHueState between its read and its write, or Idle
  poll,      \* runHueInventory: its phase, and what FetchDevices has read so far
  nudge,     \* the slot of p.nudges["hue"]
  answered,  \* a command is done and its nudge is still to come
  changes, faults,
  exposed    \* history: the row may stay stale until an inventory nothing has asked for

vars == <<light, row, stream, sent, merging, poll, nudge, answered, changes, faults, exposed>>

NoRow == [parts |-> [p \in Part |-> 0], reachable |-> FALSE, known |-> FALSE]
Idle == [event |-> {}, read |-> NoRow]
Start(phase) == [phase |-> phase, seen |-> NoRow]

\* The value of a part is a number of changes.  A stored state may lack parts: one that
\* cannot be decoded holds none.
Missing == -1
Unreadable == [p \in Part |-> Missing]
State == [Part -> Nat]
Row == [parts: [Part -> Nat \cup {Missing}], reachable: BOOLEAN, known: BOOLEAN]
Event == [kind: {"update"}, parts: SUBSET Part, value: State] \cup [kind: {"other"}]

(***************************************************************************)
(* The bridge.                                                             *)
(***************************************************************************)

\* An event reaches a client whose stream is open; on a dead stream it is lost.
Emit(e) == sent' = IF stream = "open" THEN Append(sent, e) ELSE sent

\* What changes while no stream is open and no inventory is still to read it is
\* not caught up: nothing nudges when the stream opens again.
Unheard(stillToRead) == stream = "closed" /\ ~nudge /\ poll.phase \notin stillToRead

\* The parts ps of the light change; the event carries these only.
Change(ps) ==
  /\ light.link = "up" /\ changes < MaxChanges
  /\ LET parts == [p \in Part |-> IF p \in ps THEN light.parts[p] + 1 ELSE light.parts[p]] IN
       /\ light' = [light EXCEPT !.parts = parts]
       /\ Emit([kind |-> "update", parts |-> ps, value |-> parts])
  /\ changes' = changes + 1
  /\ exposed' = (exposed \/ Unheard({"lights"}))
  /\ UNCHANGED <<row, stream, merging, poll, nudge, faults>>

\* Someone at the switch.
SwitchedByHand(ps) == Change(ps) /\ UNCHANGED answered

\* Execute on a command of the application: on and off touch one part, a brightness
\* above zero turns the light on as well; one of zero is sent as "off".
Execute(ps) == ~answered /\ Change(ps) /\ answered' = TRUE

\* Controller.Send, once the command has succeeded.
CommandDone == answered /\ answered' = FALSE /\ nudge' = TRUE
  /\ UNCHANGED <<light, row, stream, sent, merging, poll, changes, faults, exposed>>

\* The light is paired, lost or found again: an "add" event, or one of type
\* zigbee_connectivity.
LinkChanges(link) ==
  /\ changes < MaxChanges /\ link # light.link
  /\ light' = [light EXCEPT !.link = link]
  /\ Emit([kind |-> "other"])
  /\ changes' = changes + 1
  /\ exposed' = (exposed \/ Unheard(IF light.link = "absent" THEN {"lights"} ELSE {"lights", "links"}))
  /\ UNCHANGED <<row, stream, merging, poll, nudge, answered, faults>>

\* The connection goes without a word: a bridge that restarts, a NAT that forgets.
Sever ==
  /\ stream = "open" /\ faults < MaxFaults
  /\ stream' = "dead" /\ sent' = <<>> /\ faults' = faults + 1
  /\ UNCHANGED <<light, row, merging, poll, nudge, answered, changes, exposed>>

(***************************************************************************)
(* runHueEvents and mergeHueState.                                         *)
(***************************************************************************)

\* Stream fails, or its watchdog finds it idle: runHueEvents nudges the inventory.
StreamEndsSilently == stream' = "closed" /\ sent' = <<>>
  /\ UNCHANGED <<light, row, merging, poll, nudge, answered, changes, exposed>>
StreamEnds == stream' = "closed" /\ sent' = <<>> /\ nudge' = TRUE
  /\ UNCHANGED <<light, row, merging, poll, answered, changes, exposed>>
Cut == stream # "dead" /\ merging = Idle /\ faults < MaxFaults
  /\ faults' = faults + 1 /\ StreamEnds
NoWatchdog == FALSE
Watchdog == stream = "dead" /\ merging = Idle /\ StreamEnds /\ UNCHANGED faults

\* After a backoff the stream is opened again.
Open == stream = "closed" /\ stream' = "open"
  /\ UNCHANGED <<light, row, sent, merging, poll, nudge, answered, changes, faults, exposed>>

\* applyHueEvents, up to the GetDevice of mergeHueState: what is not the update of a
\* light, or of a light without a row, is left to the inventory.
Handle ==
  /\ sent # <<>> /\ merging = Idle
  /\ sent' = Tail(sent)
  /\ LET e == Head(sent) IN
       IF e.kind = "update" /\ row.known
       THEN merging' = [event |-> {e}, read |-> row] /\ UNCHANGED nudge
       ELSE nudge' = TRUE /\ UNCHANGED merging
  /\ UNCHANGED <<light, row, stream, poll, answered, changes, faults, exposed>>

\* A message of the stream that cannot be decoded is skipped, an event whose row cannot be
\* read is logged; both are lost, and nothing asks for an inventory (Forgotten).
Forgotten == exposed' = (exposed \/ (~nudge /\ poll.phase # "lights"))
EventLost ==
  /\ sent # <<>> /\ merging = Idle /\ faults < MaxFaults
  /\ sent' = Tail(sent) /\ faults' = faults + 1 /\ Forgotten
  /\ UNCHANGED <<light, row, stream, merging, poll, nudge, answered, changes>>

\* The state mergeHueState writes: the one it read, with what the event carries.  From one
\* that cannot be decoded it starts again with what the event carries alone.
Merged(e, read) == [p \in Part |-> IF p \in e.parts THEN e.value[p] ELSE read[p]]

\* The rest of mergeHueState: maps.Copy, then UpdateDeviceState, reachable TRUE.
MergeWrite ==
  /\ merging # Idle
  /\ \E e \in merging.event :
       /\ row' = [parts |-> Merged(e, merging.read.parts), reachable |-> TRUE, known |-> TRUE]
       /\ exposed' = (exposed \/ \E p \in Part \ e.parts : merging.read.parts[p] < row.parts[p])
  /\ merging' = Idle
  /\ UNCHANGED <<light, stream, sent, poll, nudge, answered, changes, faults>>

\* UpdateDeviceState fails: the error is logged, the event is lost.
MergeWriteFails ==
  /\ merging # Idle /\ faults < MaxFaults
  /\ merging' = Idle /\ faults' = faults + 1 /\ Forgotten
  /\ UNCHANGED <<light, row, stream, sent, poll, nudge, answered, changes>>

(***************************************************************************)
(* runHueInventory: tick, FetchDevices (lights, then rooms and links) and  *)
(* UpsertDevices.                                                          *)
(***************************************************************************)

BeginInventory == poll' = Start("lights")
  /\ UNCHANGED <<light, row, stream, sent, merging, answered, changes, faults, exposed>>
Tick == poll.phase = "wait" /\ BeginInventory /\ UNCHANGED nudge
Nudged == poll.phase = "wait" /\ nudge /\ nudge' = FALSE /\ BeginInventory

\* A read that starts now sees whatever was missed before.
ReadLights ==
  /\ poll.phase = "lights"
  /\ poll' = [phase |-> "links",
              seen |-> [parts |-> light.parts, reachable |-> FALSE, known |-> light.link # "absent"]]
  /\ exposed' = FALSE
  /\ UNCHANGED <<light, row, stream, sent, merging, nudge, answered, changes, faults>>
ReadLinks ==
  /\ poll.phase = "links"
  /\ poll' = [poll EXCEPT !.phase = "write", !.seen.reachable = (light.link = "up")]
  /\ UNCHANGED <<light, row, stream, sent, merging, nudge, answered, changes, faults, exposed>>

\* UpsertDevices writes the rows of the lights it is given, and no other.
Upsert ==
  /\ poll.phase = "write"
  /\ poll' = Start("wait")
  /\ row' = IF poll.seen.known THEN poll.seen ELSE row
  /\ exposed' = (exposed \/ (poll.seen.known /\ \E p \in Part : poll.seen.parts[p] < row.parts[p]))
  /\ UNCHANGED <<light, stream, sent, merging, nudge, answered, changes, faults>>

\* A request or the write fails: the error is recorded, and nothing tries again.
InventoryFails ==
  /\ poll.phase # "wait" /\ faults < MaxFaults
  /\ poll' = Start("wait") /\ faults' = faults + 1
  /\ exposed' = (exposed \/ ~nudge)
  /\ UNCHANGED <<light, row, stream, sent, merging, nudge, answered, changes>>

(***************************************************************************)
(* Specification.  At start the row is missing, or is the one an earlier   *)
(* process left, even one whose state is unreadable; both loops begin at   *)
(* once.                                                                   *)
(***************************************************************************)
Init ==
  /\ light \in [parts: {[p \in Part |-> 0]}, link: {"absent", "up", "down"}]
  /\ row \in {NoRow} \cup
       {[parts |-> parts, reachable |-> TRUE, known |-> TRUE] : parts \in {[p \in Part |-> 0], Unreadable}}
  /\ light.link = "absent" => row = NoRow
  /\ stream = "closed" /\ sent = <<>> /\ merging = Idle /\ poll = Start("lights")
  /\ nudge = FALSE /\ answered = FALSE /\ changes = 0 /\ faults = 0 /\ exposed = FALSE

CommandParts == {{"on"}, Part}

Next ==
  \/ \E ps \in (SUBSET Part) \ {{}} : SwitchedByHand(ps)
  \/ \E ps \in CommandParts : Execute(ps)
  \/ \E link \in {"up", "down"} : LinkChanges(link)
  \/ CommandDone \/ Sever \/ Cut \/ Watchdog \/ Open \/ Handle \/ MergeWrite
  \/ EventLost \/ MergeWriteFails
  \/ Tick \/ Nudged \/ ReadLights \/ ReadLinks \/ Upsert \/ InventoryFails

\* The loops run, the watchdog fires, the ticker of fifteen minutes is left out on
\* purpose: what it alone repairs is not promised soon.
Progress == Watchdog \/ Open \/ Handle \/ MergeWrite \/ CommandDone
Inventory == Nudged \/ ReadLights \/ ReadLinks \/ Upsert

Spec == Init /\ [][Next]_vars /\ WF_vars(Progress) /\ WF_vars(Inventory)

(***************************************************************************)
(* Properties.                                                             *)
(***************************************************************************)
TypeOK ==
  /\ light \in [parts: State, link: {"absent", "up", "down"}] /\ row \in Row
  /\ stream \in {"closed", "open", "dead"} /\ sent \in Seq(Event)
  /\ merging \in [event: SUBSET Event, read: Row]
  /\ \A e \in merging.event : e.kind = "update"
  /\ poll \in [phase: {"wait", "lights", "links", "write"}, seen: Row]
  /\ nudge \in BOOLEAN /\ answered \in BOOLEAN /\ exposed \in BOOLEAN
  /\ changes \in Nat /\ faults \in Nat

\* Nothing is under way: the stream is open, no event, merge, nudge or inventory is pending.
Quiet == stream = "open" /\ sent = <<>> /\ merging = Idle /\ poll.phase = "wait" /\ ~nudge

\* The row says what the bridge says.
Shown == light.link # "absent"
  => row.known /\ row.parts = light.parts /\ row.reachable = (light.link = "up")

\* Once nothing is under way the interface shows the light as it is, except in the four
\* cases exposed records: a change between the inventory a cut asked for and the stream's
\* return, an inventory that failed, an event that was lost (its message unreadable, its
\* row not read or not written), and an older value written over a newer one by one of
\* the two writers (poller.go mergeHueState, runHueInventory).
QuietIsAccurate == Quiet /\ ~exposed => Shown

\* Even a connection cut without a word is found and made up for, without waiting for the
\* inventory of every fifteen minutes, which is left with the four cases of exposed.
CatchesUp == <>[](Shown \/ exposed)
=============================================================================
