---------------------------- MODULE HueSyncProofs ----------------------------
(***************************************************************************)
(* The row of a Hue light keeps up with the light, for any parts and any   *)
(* number of changes and faults: when nothing is under way it says what    *)
(* the light is, but for what the periodic inventory alone will repair.    *)
(*                                                                         *)
(* The second part follows the last value of each part, and the link, from *)
(* the event to the merge and the row, or from the inventory to the row,   *)
(* as long as no inventory is asked for to make up for something missed.   *)
(***************************************************************************)
EXTENDS HueSync, TLAPS

(* The types, in four parts. *)
Stream == stream \in {"closed", "open", "dead"} /\ sent \in Seq(Event)
Lights ==
  /\ light \in [parts: State, link: {"absent", "up", "down"}] /\ row \in Row
  /\ poll \in [phase: {"wait", "lights", "links", "write"}, seen: Row]
  /\ changes \in Nat /\ faults \in Nat
Merge == merging \in [event: SUBSET Event, read: Row] /\ \A e \in merging.event : e.kind = "update"
Flags == nudge \in BOOLEAN /\ answered \in BOOLEAN /\ exposed \in BOOLEAN

Stored == [Part -> Nat \cup {Missing}]

LEMMA RowType ==
  /\ NoRow \in Row
  /\ State \subseteq Stored /\ Unreadable \in Stored
  /\ \A r \in Row : r.parts \in Stored
  /\ \A phase \in {"wait", "lights", "links", "write"} :
       Start(phase) \in [phase: {"wait", "lights", "links", "write"}, seen: Row]
<1>1. [p \in Part |-> 0] \in Stored /\ State \subseteq Stored /\ Unreadable \in Stored
  BY DEF State, Stored, Unreadable
<1>2. NoRow \in Row /\ \A r \in Row : r.parts \in Stored
  BY <1>1 DEF NoRow, Row, Stored
<1> QED
  BY <1>1, <1>2 DEF Start

LEMMA ChangeType ==
  ASSUME TypeOK, NEW ps \in SUBSET Part, Change(ps)
  PROVE  Stream' /\ Lights'
<1> DEFINE parts == [p \in Part |-> IF p \in ps THEN light.parts[p] + 1 ELSE light.parts[p]]
           e == [kind |-> "update", parts |-> ps, value |-> parts]
<1>1. light.parts \in State
  BY DEF TypeOK
<1>2. parts \in State
  BY <1>1 DEF State
<1> HIDE DEF parts
<1>3. e \in Event
  BY <1>2 DEF Event
<1> HIDE DEF e
<1>4. sent' = sent \/ sent' = Append(sent, e)
  BY DEF Change, Emit, e, parts
<1>5. Stream'
  <2>1. sent' \in Seq(Event)
    BY <1>3, <1>4 DEF TypeOK
  <2> QED
    BY <2>1 DEF Change, Stream, TypeOK
<1>6. light' = [light EXCEPT !.parts = parts]
  BY DEF Change, parts
<1>7. Lights'
  BY <1>2, <1>6 DEF TypeOK, Lights, Change
<1> QED
  BY <1>5, <1>7

LEMMA StreamStep ==
  ASSUME TypeOK, [Next]_vars
  PROVE  Stream'
<1> USE DEF TypeOK, Stream
<1>1. CASE \E ps \in (SUBSET Part) \ {{}} : SwitchedByHand(ps)
  BY <1>1, ChangeType DEF SwitchedByHand
<1>2. CASE \E ps \in CommandParts : Execute(ps)
  <2>1. PICK ps \in CommandParts : Execute(ps)
    BY <1>2
  <2>2. ps \in SUBSET Part
    BY PartAssumption DEF CommandParts
  <2> QED
    BY <2>1, <2>2, ChangeType DEF Execute
<1>3. CASE \E link \in {"up", "down"} : LinkChanges(link)
  <2>1. [kind |-> "other"] \in Event
    BY DEF Event
  <2> QED
    BY <1>3, <2>1 DEF LinkChanges, Emit
<1>4. CASE CommandDone
  BY <1>4 DEF CommandDone
<1>5. CASE Sever
  BY <1>5 DEF Sever
<1>6. CASE Cut
  BY <1>6 DEF Cut, StreamEnds
<1>7. CASE Watchdog
  BY <1>7 DEF Watchdog, StreamEnds
<1>8. CASE Open
  BY <1>8 DEF Open
<1>9. CASE Handle
  BY <1>9 DEF Handle
<1>10. CASE MergeWrite
  BY <1>10 DEF MergeWrite
<1>11. CASE Tick
  BY <1>11 DEF Tick, BeginInventory, Start
<1>12. CASE Nudged
  BY <1>12 DEF Nudged, BeginInventory, Start
<1>13. CASE ReadLights
  BY <1>13 DEF ReadLights
<1>14. CASE ReadLinks
  BY <1>14 DEF ReadLinks
<1>15. CASE Upsert
  BY <1>15 DEF Upsert, Start
<1>16. CASE InventoryFails
  BY <1>16 DEF InventoryFails, Start
<1>17. CASE EventLost
  BY <1>17 DEF EventLost
<1>18. CASE MergeWriteFails
  BY <1>18 DEF MergeWriteFails
<1>19. CASE UNCHANGED vars
  BY <1>19 DEF vars
<1> QED
  BY <1>1, <1>2, <1>3, <1>4, <1>5, <1>6, <1>7, <1>8, <1>9, <1>10, <1>11, <1>12, <1>13, <1>14, <1>15, <1>16,
     <1>17, <1>18, <1>19 DEF Next

LEMMA LightsStep ==
  ASSUME TypeOK, [Next]_vars
  PROVE  Lights'
<1> USE DEF TypeOK, Lights
<1>1. CASE \E ps \in (SUBSET Part) \ {{}} : SwitchedByHand(ps)
  BY <1>1, ChangeType DEF SwitchedByHand
<1>2. CASE \E ps \in CommandParts : Execute(ps)
  <2>1. PICK ps \in CommandParts : Execute(ps)
    BY <1>2
  <2>2. ps \in SUBSET Part
    BY PartAssumption DEF CommandParts
  <2> QED
    BY <2>1, <2>2, ChangeType DEF Execute
<1>3. CASE \E link \in {"up", "down"} : LinkChanges(link)
  BY <1>3 DEF LinkChanges, Emit
<1>4. CASE CommandDone
  BY <1>4 DEF CommandDone
<1>5. CASE Sever
  BY <1>5 DEF Sever
<1>6. CASE Cut
  BY <1>6 DEF Cut, StreamEnds
<1>7. CASE Watchdog
  BY <1>7 DEF Watchdog, StreamEnds
<1>8. CASE Open
  BY <1>8 DEF Open
<1>9. CASE Handle
  BY <1>9 DEF Handle
<1>10. CASE MergeWrite
  <2> PICK e \in merging.event :
        row' = [parts |-> Merged(e, merging.read.parts), reachable |-> TRUE, known |-> TRUE]
    BY <1>10 DEF MergeWrite
  <2>1. e \in Event /\ e.kind = "update" /\ merging.read.parts \in Stored
    BY RowType
  <2>2. e.value \in State
    BY <2>1 DEF Event
  <2>3. Merged(e, merging.read.parts) \in Stored
    BY <2>1, <2>2 DEF Merged, State, Stored
  <2>4. row' \in Row
    BY <2>3 DEF Row, Stored
  <2> QED
    BY <1>10, <2>4 DEF MergeWrite
<1>11. CASE Tick
  <2>1. poll' = Start("lights")
    BY <1>11 DEF Tick, BeginInventory
  <2> QED
    BY <1>11, <2>1, RowType DEF Tick, BeginInventory
<1>12. CASE Nudged
  <2>1. poll' = Start("lights")
    BY <1>12 DEF Nudged, BeginInventory
  <2> QED
    BY <1>12, <2>1, RowType DEF Nudged, BeginInventory
<1>13. CASE ReadLights
  <2>1. [parts |-> light.parts, reachable |-> FALSE, known |-> light.link # "absent"] \in Row
    BY RowType DEF Row, Stored
  <2> QED
    BY <1>13, <2>1 DEF ReadLights
<1>14. CASE ReadLinks
  <2>1. [poll.seen EXCEPT !.reachable = (light.link = "up")] \in Row
    BY DEF Row
  <2> QED
    BY <1>14, <2>1 DEF ReadLinks
<1>15. CASE Upsert
  <2>1. poll' = Start("wait") /\ row' \in {poll.seen, row}
    BY <1>15 DEF Upsert
  <2> QED
    BY <1>15, <2>1, RowType DEF Upsert
<1>16. CASE InventoryFails
  <2>1. poll' = Start("wait")
    BY <1>16 DEF InventoryFails
  <2> QED
    BY <1>16, <2>1, RowType DEF InventoryFails
<1>17. CASE EventLost
  BY <1>17 DEF EventLost
<1>18. CASE MergeWriteFails
  BY <1>18 DEF MergeWriteFails
<1>19. CASE UNCHANGED vars
  BY <1>19 DEF vars
<1> QED
  BY <1>1, <1>2, <1>3, <1>4, <1>5, <1>6, <1>7, <1>8, <1>9, <1>10, <1>11, <1>12, <1>13, <1>14, <1>15, <1>16,
     <1>17, <1>18, <1>19 DEF Next

LEMMA MergeStep ==
  ASSUME TypeOK, [Next]_vars
  PROVE  Merge'
<1> USE DEF TypeOK, Merge
<1>1. CASE \E ps \in (SUBSET Part) \ {{}} : SwitchedByHand(ps)
  BY <1>1 DEF SwitchedByHand, Change, Emit
<1>2. CASE \E ps \in CommandParts : Execute(ps)
  BY <1>2 DEF Execute, Change, Emit
<1>3. CASE \E link \in {"up", "down"} : LinkChanges(link)
  BY <1>3 DEF LinkChanges, Emit
<1>4. CASE CommandDone
  BY <1>4 DEF CommandDone
<1>5. CASE Sever
  BY <1>5 DEF Sever
<1>6. CASE Cut
  BY <1>6 DEF Cut, StreamEnds
<1>7. CASE Watchdog
  BY <1>7 DEF Watchdog, StreamEnds
<1>8. CASE Open
  BY <1>8 DEF Open
<1>9. CASE Handle
  BY <1>9 DEF Handle
<1>10. CASE MergeWrite
  <2>1. merging' = Idle
    BY <1>10 DEF MergeWrite
  <2> QED
    BY <2>1, RowType DEF Idle
<1>11. CASE Tick
  BY <1>11 DEF Tick, BeginInventory, Start
<1>12. CASE Nudged
  BY <1>12 DEF Nudged, BeginInventory, Start
<1>13. CASE ReadLights
  BY <1>13 DEF ReadLights
<1>14. CASE ReadLinks
  BY <1>14 DEF ReadLinks
<1>15. CASE Upsert
  BY <1>15 DEF Upsert, Start
<1>16. CASE InventoryFails
  BY <1>16 DEF InventoryFails, Start
<1>17. CASE EventLost
  BY <1>17 DEF EventLost
<1>18. CASE MergeWriteFails
  <2>1. merging' = Idle
    BY <1>18 DEF MergeWriteFails
  <2> QED
    BY <2>1, RowType DEF Idle
<1>19. CASE UNCHANGED vars
  BY <1>19 DEF vars
<1> QED
  BY <1>1, <1>2, <1>3, <1>4, <1>5, <1>6, <1>7, <1>8, <1>9, <1>10, <1>11, <1>12, <1>13, <1>14, <1>15, <1>16,
     <1>17, <1>18, <1>19 DEF Next

LEMMA FlagsStep ==
  ASSUME TypeOK, [Next]_vars
  PROVE  Flags'
<1> USE DEF TypeOK, Flags
<1>1. CASE \E ps \in (SUBSET Part) \ {{}} : SwitchedByHand(ps)
  BY <1>1 DEF SwitchedByHand, Change, Emit
<1>2. CASE \E ps \in CommandParts : Execute(ps)
  BY <1>2 DEF Execute, Change, Emit
<1>3. CASE \E link \in {"up", "down"} : LinkChanges(link)
  BY <1>3 DEF LinkChanges, Emit
<1>4. CASE CommandDone
  BY <1>4 DEF CommandDone
<1>5. CASE Sever
  BY <1>5 DEF Sever
<1>6. CASE Cut
  BY <1>6 DEF Cut, StreamEnds
<1>7. CASE Watchdog
  BY <1>7 DEF Watchdog, StreamEnds
<1>8. CASE Open
  BY <1>8 DEF Open
<1>9. CASE Handle
  BY <1>9 DEF Handle
<1>10. CASE MergeWrite
  BY <1>10 DEF MergeWrite
<1>11. CASE Tick
  BY <1>11 DEF Tick, BeginInventory, Start
<1>12. CASE Nudged
  BY <1>12 DEF Nudged, BeginInventory, Start
<1>13. CASE ReadLights
  BY <1>13 DEF ReadLights
<1>14. CASE ReadLinks
  BY <1>14 DEF ReadLinks
<1>15. CASE Upsert
  BY <1>15 DEF Upsert, Start
<1>16. CASE InventoryFails
  BY <1>16 DEF InventoryFails, Start
<1>17. CASE EventLost
  BY <1>17 DEF EventLost, Forgotten
<1>18. CASE MergeWriteFails
  BY <1>18 DEF MergeWriteFails, Forgotten
<1>19. CASE UNCHANGED vars
  BY <1>19 DEF vars
<1> QED
  BY <1>1, <1>2, <1>3, <1>4, <1>5, <1>6, <1>7, <1>8, <1>9, <1>10, <1>11, <1>12, <1>13, <1>14, <1>15, <1>16,
     <1>17, <1>18, <1>19 DEF Next

LEMMA InitHolds == Init => TypeOK
<1> SUFFICES ASSUME Init PROVE TypeOK
  OBVIOUS
<1>1. [p \in Part |-> 0] \in State
  BY DEF State
<1>2. light \in [parts: State, link: {"absent", "up", "down"}]
  BY <1>1 DEF Init
<1>3. row \in Row
  <2>1. \A parts \in Stored : [parts |-> parts, reachable |-> TRUE, known |-> TRUE] \in Row
    BY DEF Row, Stored
  <2> QED
    BY <1>1, <2>1, RowType DEF Init
<1>4. merging \in [event: SUBSET Event, read: Row] /\ \A e \in merging.event : e.kind = "update"
  BY RowType DEF Init, Idle
<1>5. poll \in [phase: {"wait", "lights", "links", "write"}, seen: Row]
  BY RowType DEF Init
<1>6. nudge \in BOOLEAN /\ answered \in BOOLEAN /\ exposed \in BOOLEAN
  BY DEF Init
<1> QED
  BY <1>2, <1>3, <1>4, <1>5, <1>6 DEF Init, TypeOK

LEMMA StepHolds == TypeOK /\ [Next]_vars => TypeOK'
<1>1. (Stream /\ Lights /\ Merge /\ Flags)' => TypeOK'
  BY DEF Stream, Lights, Merge, Flags, TypeOK
<1> QED
  BY <1>1, StreamStep, LightsStep, MergeStep, FlagsStep

-----------------------------------------------------------------------------
(* How the row keeps up with the light.  As long as nothing asks for an    *)
(* inventory, the last value of each part is carried by an event on its    *)
(* way, or is held by the row or by the inventory about to write it.       *)
Tells(e, p) == e.kind = "update" /\ p \in e.parts
Carried(p) == (\E e \in merging.event : p \in e.parts) \/ \E i \in DOMAIN sent : Tells(sent[i], p)
Held(p) ==
  \/ row.known /\ row.parts[p] = light.parts[p]
  \/ poll.phase \in {"links", "write"} /\ poll.seen.known /\ poll.seen.parts[p] = light.parts[p]

\* Something was missed, and an inventory is asked for or will be; or the row is exposed.
Behind == \E i \in DOMAIN sent : sent[i].kind = "other"
Missed == nudge \/ exposed \/ stream = "dead" \/ Behind

\* Events come from an open stream, and a cut waits for the merge in progress.
Orderly ==
  /\ sent # <<>> => stream = "open"
  /\ merging = Idle \/ \E e \in merging.event : merging.event = {e}
  /\ merging # Idle => stream # "closed"

\* Nothing is newer than the light.
Bounded == \A p \in Part :
  /\ row.parts[p] <= light.parts[p]
  /\ merging.read.parts[p] <= light.parts[p]
  /\ poll.seen.parts[p] <= light.parts[p]
  /\ \A e \in merging.event : e.value[p] <= light.parts[p]
  /\ \A i \in DOMAIN sent : sent[i].kind = "update" => sent[i].value[p] <= light.parts[p]

\* The last event that tells a part tells its last value; one behind the light's link is
\* followed by the event of the link.
NewestSent == \A i \in DOMAIN sent :
  /\ \A p \in Part : Tells(sent[i], p) =>
       sent[i].value[p] = light.parts[p] \/ \E j \in DOMAIN sent : j > i /\ Tells(sent[j], p)
  /\ sent[i].kind = "update" =>
       light.link = "up" \/ \E j \in DOMAIN sent : j > i /\ sent[j].kind = "other"
NewestMerging == stream = "open" => \A e \in merging.event :
  /\ \A p \in Part : p \in e.parts =>
       e.value[p] = light.parts[p] \/ \E j \in DOMAIN sent : Tells(sent[j], p)
  /\ light.link = "up" \/ \E j \in DOMAIN sent : sent[j].kind = "other"

PartsHeld == ~Missed /\ poll.phase # "lights" /\ light.link # "absent" =>
  \A p \in Part : Carried(p) \/ Held(p)
LightSeen == ~Missed /\ poll.phase \in {"links", "write"} /\ light.link # "absent" => poll.seen.known
LinkHeld == ~Missed /\ light.link # "absent" =>
  /\ poll.phase = "write" => poll.seen.reachable = (light.link = "up")
  /\ poll.phase = "wait" => row.reachable = (light.link = "up")

(* A sequence with an event more, and one with its first event less.       *)
LEMMA Appended ==
  ASSUME NEW s \in Seq(Event), NEW e \in Event
  PROVE  /\ DOMAIN Append(s, e) = DOMAIN s \cup {Len(s) + 1}
         /\ \A i \in DOMAIN s : Append(s, e)[i] = s[i] /\ i < Len(s) + 1 /\ i \in Nat
         /\ Append(s, e)[Len(s) + 1] = e /\ Len(s) + 1 \notin DOMAIN s
  OBVIOUS

LEMMA Popped ==
  ASSUME NEW s \in Seq(Event), s # <<>>
  PROVE  /\ 1 \in DOMAIN s /\ Head(s) = s[1] /\ Head(s) \in Event /\ Tail(s) \in Seq(Event)
         /\ \A i \in DOMAIN Tail(s) : i + 1 \in DOMAIN s /\ Tail(s)[i] = s[i + 1] /\ i \in Nat
         /\ \A i \in DOMAIN s : i \in Nat /\ (i = 1 \/ (i - 1 \in DOMAIN Tail(s) /\ Tail(s)[i - 1] = s[i]))
         /\ \A i \in DOMAIN s : i >= 1
  OBVIOUS

(* The two ways a light changes come to the same.                          *)
Changes == \E ps \in SUBSET Part : Change(ps)

LEMMA NextIs ==
  ASSUME Next
  PROVE  \/ Changes \/ \E link \in {"up", "down"} : LinkChanges(link)
         \/ CommandDone \/ Sever \/ Cut \/ Watchdog \/ Open \/ Handle \/ MergeWrite
         \/ EventLost \/ MergeWriteFails
         \/ Tick \/ Nudged \/ ReadLights \/ ReadLinks \/ Upsert \/ InventoryFails
<1>1. ASSUME NEW ps \in CommandParts, Execute(ps) PROVE Changes
  <2>1. ps \in SUBSET Part
    BY PartAssumption DEF CommandParts
  <2> QED
    BY <1>1, <2>1 DEF Execute, Changes
<1> QED
  BY <1>1 DEF Next, SwitchedByHand, Changes

\* The event of a change, which an open stream carries.
LEMMA ChangesAre ==
  ASSUME TypeOK, Changes
  PROVE  /\ light.link = "up" /\ light'.link = "up" /\ light.parts \in State /\ light'.parts \in State
         /\ UNCHANGED <<row, stream, merging, poll, nudge>>
         /\ exposed' = (exposed \/ Unheard({"lights"}))
         /\ \A p \in Part : light.parts[p] <= light'.parts[p]
         /\ \E e \in Event :
              /\ e.kind = "update" /\ e.value = light'.parts
              /\ \A p \in Part \ e.parts : light'.parts[p] = light.parts[p]
              /\ sent' = IF stream = "open" THEN Append(sent, e) ELSE sent
<1>1. PICK ps \in SUBSET Part : Change(ps)
  BY DEF Changes
<1> DEFINE parts == [p \in Part |-> IF p \in ps THEN light.parts[p] + 1 ELSE light.parts[p]]
           e == [kind |-> "update", parts |-> ps, value |-> parts]
<1>2. light.parts \in State /\ light \in [parts: State, link: {"absent", "up", "down"}]
  BY DEF TypeOK
<1>3. /\ parts \in State
      /\ \A p \in Part : light.parts[p] <= parts[p]
      /\ \A p \in Part \ ps : parts[p] = light.parts[p]
  BY <1>2 DEF State
<1>4. light.link = "up" /\ light' = [light EXCEPT !.parts = parts]
  BY <1>1 DEF Change
<1>5. sent' = IF stream = "open" THEN Append(sent, e) ELSE sent
  BY <1>1 DEF Change, Emit
<1>6. UNCHANGED <<row, stream, merging, poll, nudge>> /\ exposed' = (exposed \/ Unheard({"lights"}))
  BY <1>1 DEF Change
<1> HIDE DEF parts
<1>7. e \in Event /\ e.kind = "update" /\ e.value = parts /\ e.parts = ps
  BY <1>3 DEF Event
<1>8. light'.parts = parts /\ light'.link = "up"
  BY <1>2, <1>4
<1> HIDE DEF e
<1> QED
  BY <1>2, <1>3, <1>4, <1>5, <1>6, <1>7, <1>8

\* What the two parts of a step write.
LEMMA Kinds ==
  ASSUME TypeOK
  PROVE  /\ sent \in Seq(Event) /\ merging.event \subseteq Event
         /\ \A e \in merging.event : e.kind = "update" /\ e.value \in State
         /\ \A e \in Event : e.kind = "update" => e.value \in State
         /\ \A i \in DOMAIN sent : sent[i] \in Event
         /\ light.parts \in State /\ row.parts \in Stored /\ merging.read.parts \in Stored
         /\ poll.seen.parts \in Stored
         /\ \A p \in Part : row.parts[p] \in Int /\ merging.read.parts[p] \in Int
                            /\ poll.seen.parts[p] \in Int
<1>1. \A e \in Event : e.kind = "update" => e.value \in State
  BY DEF Event
<1>2. sent \in Seq(Event) /\ merging \in [event: SUBSET Event, read: Row]
      /\ \A e \in merging.event : e.kind = "update"
  BY DEF TypeOK
<1>3. row \in Row /\ poll.seen \in Row /\ light.parts \in State
  BY DEF TypeOK
<1>4. row.parts \in Stored /\ merging.read.parts \in Stored /\ poll.seen.parts \in Stored
  BY <1>2, <1>3, RowType
<1>5. \A stored \in Stored, p \in Part : stored[p] \in Int
  BY DEF Stored, Missing
<1> QED
  BY <1>1, <1>2, <1>3, <1>4, <1>5

LEMMA OrderlyStep ==
  ASSUME TypeOK, Orderly, [Next]_vars
  PROVE  Orderly'
<1> USE DEF Orderly
<1>1. CASE Changes
  BY <1>1, ChangesAre
<1>2. ASSUME NEW link \in {"up", "down"}, LinkChanges(link) PROVE Orderly'
  BY <1>2 DEF LinkChanges, Emit
<1>3. CASE CommandDone \/ Tick \/ Nudged \/ ReadLights \/ ReadLinks \/ Upsert \/ InventoryFails
  BY <1>3 DEF CommandDone, Tick, Nudged, BeginInventory, ReadLights, ReadLinks, Upsert, InventoryFails
<1>4. CASE Sever \/ Cut \/ Watchdog \/ Open
  BY <1>4 DEF Sever, Cut, Watchdog, Open, StreamEnds
<1>5. CASE Handle
  <2>1. sent # <<>> /\ sent' = Tail(sent) /\ stream' = stream
    BY <1>5 DEF Handle
  <2>2. merging' = Idle \/ merging' = [event |-> {Head(sent)}, read |-> row]
    BY <1>5 DEF Handle
  <2>3. stream' = "open"
    BY <2>1
  <2>4. merging' = Idle \/ \E e \in merging'.event : merging'.event = {e}
    BY <2>2
  <2> QED
    BY <2>3, <2>4
<1>6. CASE MergeWrite
  BY <1>6 DEF MergeWrite
<1>7. CASE UNCHANGED vars
  BY <1>7 DEF vars
<1>8. CASE EventLost \/ MergeWriteFails
  BY <1>8 DEF EventLost, MergeWriteFails
<1> QED
  BY <1>1, <1>2, <1>3, <1>4, <1>5, <1>6, <1>7, <1>8, NextIs

LEMMA BoundedStep ==
  ASSUME TypeOK, Bounded, [Next]_vars
  PROVE  Bounded'
<1>0. /\ \A p \in Part : /\ light.parts[p] \in Nat /\ row.parts[p] \in Int
                         /\ merging.read.parts[p] \in Int /\ poll.seen.parts[p] \in Int
      /\ \A e \in merging.event, p \in Part : e.value[p] \in Nat
      /\ \A i \in DOMAIN sent, p \in Part : sent[i].kind = "update" => sent[i].value[p] \in Nat
  BY Kinds DEF State
<1>1. CASE Changes
  <2>1. PICK e \in Event : e.kind = "update" /\ e.value = light'.parts
                           /\ sent' = IF stream = "open" THEN Append(sent, e) ELSE sent
    BY <1>1, ChangesAre
  <2>2. /\ UNCHANGED <<row, merging, poll>>
        /\ \A p \in Part : light.parts[p] <= light'.parts[p] /\ light'.parts[p] \in Nat
    BY <1>1, ChangesAre DEF State
  <2>3. \A p \in Part : /\ row'.parts[p] <= light'.parts[p]
                        /\ merging'.read.parts[p] <= light'.parts[p]
                        /\ poll'.seen.parts[p] <= light'.parts[p]
    BY <1>0, <2>2 DEF Bounded
  <2>4. \A e_1 \in merging'.event, p \in Part : e_1.value[p] <= light'.parts[p]
    BY <1>0, <2>2 DEF Bounded
  <2>5. \A i \in DOMAIN sent, p \in Part : sent[i].kind = "update" => sent[i].value[p] <= light'.parts[p]
    BY <1>0, <2>2 DEF Bounded
  <2>6. \A i \in DOMAIN sent', p \in Part : sent'[i].kind = "update" => sent'[i].value[p] <= light'.parts[p]
    <3>1. CASE stream = "open"
      <4>1. sent' = Append(sent, e) /\ sent \in Seq(Event)
        BY <2>1, <3>1, Kinds
      <4> QED
        BY <2>1, <2>2, <2>5, <4>1, Appended
    <3>2. CASE stream # "open"
      BY <2>1, <2>5, <3>2
    <3> QED
      BY <3>1, <3>2
  <2> QED
    BY <2>3, <2>4, <2>6 DEF Bounded
<1>2. ASSUME NEW link \in {"up", "down"}, LinkChanges(link) PROVE Bounded'
  <2>1. light'.parts = light.parts /\ UNCHANGED <<row, merging, poll>>
    BY <1>2 DEF LinkChanges, TypeOK
  <2>2. sent' = sent \/ sent' = Append(sent, [kind |-> "other"])
    BY <1>2 DEF LinkChanges, Emit
  <2>3. [kind |-> "other"] \in Event /\ sent \in Seq(Event)
    BY Kinds DEF Event
  <2>4. \A i \in DOMAIN sent' : sent'[i].kind = "update" => i \in DOMAIN sent /\ sent'[i] = sent[i]
    BY <2>2, <2>3, Appended
  <2> QED
    BY <2>1, <2>4 DEF Bounded
<1>3. CASE CommandDone \/ Open
  BY <1>3 DEF CommandDone, Open, Bounded
<1>4. CASE Tick \/ Nudged \/ InventoryFails
  <2>1. /\ UNCHANGED <<light, row, sent, merging>>
        /\ \A p \in Part : poll'.seen.parts[p] = 0
    BY <1>4 DEF Tick, Nudged, InventoryFails, BeginInventory, Start, NoRow
  <2> QED
    BY <1>0, <2>1 DEF Bounded
<1>5. CASE Sever \/ Cut \/ Watchdog
  BY <1>5 DEF Sever, Cut, Watchdog, StreamEnds, Bounded
<1>6. CASE Handle
  <2>1. sent # <<>> /\ sent' = Tail(sent) /\ UNCHANGED <<light, row, poll>>
    BY <1>6 DEF Handle
  <2>2. \/ merging' = merging
        \/ merging' = [event |-> {Head(sent)}, read |-> row] /\ Head(sent).kind = "update"
    BY <1>6 DEF Handle
  <2>3. /\ 1 \in DOMAIN sent /\ Head(sent) = sent[1]
        /\ \A i \in DOMAIN Tail(sent) : i + 1 \in DOMAIN sent /\ Tail(sent)[i] = sent[i + 1]
    BY <2>1, Kinds, Popped
  <2> QED
    BY <2>1, <2>2, <2>3 DEF Bounded
<1>7. CASE MergeWrite
  <2>1. PICK e \in merging.event : row'.parts = Merged(e, merging.read.parts)
    BY <1>7 DEF MergeWrite
  <2>2. merging' = Idle /\ UNCHANGED <<light, sent, poll>>
    BY <1>7 DEF MergeWrite
  <2>3. \A p \in Part : row'.parts[p] \in {e.value[p], merging.read.parts[p]}
    BY <2>1 DEF Merged
  <2>4. \A p \in Part : merging'.read.parts[p] = 0 /\ merging'.event = {}
    BY <2>2 DEF Idle, NoRow
  <2> QED
    BY <1>0, <2>2, <2>3, <2>4 DEF Bounded
<1>8. CASE ReadLights
  <2>1. poll'.seen.parts = light.parts /\ UNCHANGED <<light, row, sent, merging>>
    BY <1>8 DEF ReadLights
  <2> QED
    BY <1>0, <2>1 DEF Bounded
<1>9. CASE ReadLinks
  <2>1. poll'.seen.parts = poll.seen.parts /\ UNCHANGED <<light, row, sent, merging>>
    BY <1>9 DEF ReadLinks, TypeOK, Row
  <2> QED
    BY <2>1 DEF Bounded
<1>10. CASE Upsert
  <2>1. row' \in {poll.seen, row} /\ UNCHANGED <<light, sent, merging>>
    BY <1>10 DEF Upsert
  <2>2. \A p \in Part : poll'.seen.parts[p] = 0
    BY <1>10 DEF Upsert, Start, NoRow
  <2> QED
    BY <1>0, <2>1, <2>2 DEF Bounded
<1>11. CASE UNCHANGED vars
  BY <1>11 DEF vars, Bounded
<1>12. CASE EventLost
  <2>1. sent # <<>> /\ sent' = Tail(sent) /\ UNCHANGED <<light, row, poll, merging>>
    BY <1>12 DEF EventLost
  <2>2. \A i \in DOMAIN sent' : i + 1 \in DOMAIN sent /\ sent'[i] = sent[i + 1]
    BY <2>1, Kinds, Popped
  <2> QED
    BY <2>1, <2>2 DEF Bounded
<1>13. CASE MergeWriteFails
  <2>1. merging' = Idle /\ UNCHANGED <<light, row, sent, poll>>
    BY <1>13 DEF MergeWriteFails
  <2>2. \A p \in Part : merging'.read.parts[p] = 0 /\ merging'.event = {}
    BY <2>1 DEF Idle, NoRow
  <2> QED
    BY <1>0, <2>1, <2>2 DEF Bounded
<1> QED
  BY <1>1, <1>2, <1>3, <1>4, <1>5, <1>6, <1>7, <1>8, <1>9, <1>10, <1>11, <1>12, <1>13, NextIs

LEMMA NewestSentStep ==
  ASSUME TypeOK, Orderly, NewestSent, [Next]_vars
  PROVE  NewestSent'
<1>1. CASE Changes
  <2>1. PICK e \in Event :
          /\ e.kind = "update" /\ e.value = light'.parts
          /\ \A p \in Part \ e.parts : light'.parts[p] = light.parts[p]
          /\ sent' = IF stream = "open" THEN Append(sent, e) ELSE sent
    BY <1>1, ChangesAre
  <2>2. light'.link = "up"
    BY <1>1, ChangesAre
  <2>3. CASE stream = "open"
    <3>1. sent' = Append(sent, e) /\ sent \in Seq(Event)
      BY <2>1, <2>3, Kinds
    <3>2. /\ DOMAIN sent' = DOMAIN sent \cup {Len(sent) + 1} /\ sent'[Len(sent) + 1] = e
          /\ \A i \in DOMAIN sent : sent'[i] = sent[i] /\ i < Len(sent) + 1
      BY <3>1, Appended
    <3> SUFFICES ASSUME NEW i \in DOMAIN sent', NEW p \in Part, Tells(sent'[i], p)
                 PROVE  \/ sent'[i].value[p] = light'.parts[p]
                        \/ \E j \in DOMAIN sent' : j > i /\ Tells(sent'[j], p)
      BY <2>2 DEF NewestSent
    <3>3. CASE i = Len(sent) + 1
      BY <2>1, <3>2, <3>3
    <3>4. CASE i \in DOMAIN sent /\ p \in e.parts
      <4>1. Tells(sent'[Len(sent) + 1], p) /\ Len(sent) + 1 > i
        BY <2>1, <3>2, <3>4 DEF Tells
      <4> QED
        BY <3>2, <4>1
    <3>5. CASE i \in DOMAIN sent /\ p \notin e.parts
      <4>1. sent'[i] = sent[i] /\ light'.parts[p] = light.parts[p]
        BY <2>1, <3>2, <3>5
      <4> QED
        BY <3>2, <3>5, <4>1 DEF NewestSent
    <3> QED
      BY <3>2, <3>3, <3>4, <3>5
  <2>4. CASE stream # "open"
    <3>1. sent' = <<>>
      BY <2>1, <2>4 DEF Orderly
    <3> QED
      BY <3>1 DEF NewestSent
  <2> QED
    BY <2>3, <2>4
<1>2. ASSUME NEW link \in {"up", "down"}, LinkChanges(link) PROVE NewestSent'
  <2>1. light'.parts = light.parts
    BY <1>2 DEF LinkChanges, TypeOK
  <2> DEFINE e == [kind |-> "other"]
  <2>2. e \in Event /\ sent \in Seq(Event) /\ e.kind = "other"
    BY Kinds DEF Event
  <2>3. CASE stream = "open"
    <3>1. sent' = Append(sent, e)
      BY <1>2, <2>3 DEF LinkChanges, Emit
    <3> HIDE DEF e
    <3>2. /\ DOMAIN sent' = DOMAIN sent \cup {Len(sent) + 1} /\ sent'[Len(sent) + 1] = e
          /\ \A i \in DOMAIN sent : sent'[i] = sent[i] /\ i < Len(sent) + 1
      BY <2>2, <3>1, Appended
    <3>3. \A i \in DOMAIN sent' : sent'[i].kind = "update" => i \in DOMAIN sent
      BY <2>2, <3>2
    <3>4. \A i \in DOMAIN sent : \E j \in DOMAIN sent' : j > i /\ sent'[j].kind = "other"
      BY <2>2, <3>2
    <3>5. \A i \in DOMAIN sent, p \in Part : Tells(sent[i], p) =>
            sent[i].value[p] = light'.parts[p] \/ \E j \in DOMAIN sent' : j > i /\ Tells(sent'[j], p)
      BY <2>1, <3>2 DEF NewestSent
    <3> QED
      BY <3>2, <3>3, <3>4, <3>5 DEF NewestSent, Tells
  <2>4. CASE stream # "open"
    <3>1. sent' = <<>>
      BY <1>2, <2>4 DEF Orderly, LinkChanges, Emit
    <3> QED
      BY <3>1 DEF NewestSent
  <2> QED
    BY <2>3, <2>4
<1>3. CASE \/ CommandDone \/ Open \/ Tick \/ Nudged \/ InventoryFails \/ MergeWrite \/ ReadLights
           \/ ReadLinks \/ Upsert \/ MergeWriteFails
  <2>1. UNCHANGED <<light, sent>>
    BY <1>3 DEF CommandDone, Open, Tick, Nudged, BeginInventory, InventoryFails, MergeWrite, ReadLights,
                ReadLinks, Upsert, MergeWriteFails
  <2> QED
    BY <2>1 DEF NewestSent
<1>4. CASE Sever \/ Cut \/ Watchdog
  <2>1. sent' = <<>>
    BY <1>4 DEF Sever, Cut, Watchdog, StreamEnds
  <2> QED
    BY <2>1 DEF NewestSent
<1>5. CASE Handle \/ EventLost
  <2>1. sent # <<>> /\ sent' = Tail(sent) /\ light' = light
    BY <1>5 DEF Handle, EventLost
  <2>2. /\ \A i \in DOMAIN sent' : i + 1 \in DOMAIN sent /\ sent'[i] = sent[i + 1] /\ i \in Nat
        /\ \A i \in DOMAIN sent : i \in Nat /\ (i = 1 \/ (i - 1 \in DOMAIN sent' /\ sent'[i - 1] = sent[i]))
        /\ \A i \in DOMAIN sent : i >= 1
    BY <2>1, Kinds, Popped
  <2>3. ASSUME NEW i \in DOMAIN sent', NEW j \in DOMAIN sent, j > i + 1
        PROVE  j - 1 \in DOMAIN sent' /\ sent'[j - 1] = sent[j] /\ j - 1 > i
    BY <2>2, <2>3
  <2> SUFFICES ASSUME NEW i \in DOMAIN sent'
               PROVE  /\ \A p \in Part : Tells(sent[i + 1], p) =>
                           \/ sent[i + 1].value[p] = light.parts[p]
                           \/ \E j \in DOMAIN sent' : j > i /\ Tells(sent'[j], p)
                      /\ sent[i + 1].kind = "update" =>
                           light.link = "up" \/ \E j \in DOMAIN sent' : j > i /\ sent'[j].kind = "other"
    BY <2>1, <2>2 DEF NewestSent
  <2> QED
    BY <2>2, <2>3 DEF NewestSent
<1>6. CASE UNCHANGED vars
  BY <1>6 DEF vars, NewestSent
<1> QED
  BY <1>1, <1>2, <1>3, <1>4, <1>5, <1>6, NextIs

LEMMA NewestMergingStep ==
  ASSUME TypeOK, Orderly, NewestSent, NewestMerging, [Next]_vars
  PROVE  NewestMerging'
<1>1. CASE Changes
  <2> SUFFICES ASSUME stream = "open" PROVE NewestMerging'
    BY <1>1, ChangesAre DEF NewestMerging
  <2>1. PICK e \in Event :
          /\ e.kind = "update" /\ e.value = light'.parts
          /\ \A p \in Part \ e.parts : light'.parts[p] = light.parts[p]
          /\ sent' = Append(sent, e)
    BY <1>1, ChangesAre
  <2>2. light'.link = "up" /\ merging' = merging /\ sent \in Seq(Event)
    BY <1>1, ChangesAre, Kinds
  <2>3. /\ DOMAIN sent' = DOMAIN sent \cup {Len(sent) + 1} /\ sent'[Len(sent) + 1] = e
        /\ \A i \in DOMAIN sent : sent'[i] = sent[i]
    BY <2>1, <2>2, Appended
  <2>4. ASSUME NEW m \in merging.event, NEW p \in Part, p \in m.parts
        PROVE  m.value[p] = light'.parts[p] \/ \E j \in DOMAIN sent' : Tells(sent'[j], p)
    <3>1. CASE p \in e.parts
      <4>1. Tells(sent'[Len(sent) + 1], p)
        BY <2>1, <2>3, <3>1 DEF Tells
      <4> QED
        BY <2>3, <4>1
    <3>2. CASE p \notin e.parts
      BY <2>1, <2>3, <2>4, <3>2 DEF NewestMerging
    <3> QED
      BY <3>1, <3>2
  <2> QED
    BY <2>2, <2>4 DEF NewestMerging
<1>2. ASSUME NEW link \in {"up", "down"}, LinkChanges(link) PROVE NewestMerging'
  <2>1. light'.parts = light.parts /\ UNCHANGED <<stream, merging>>
    BY <1>2 DEF LinkChanges, TypeOK
  <2> SUFFICES ASSUME stream = "open" PROVE NewestMerging'
    BY <2>1 DEF NewestMerging
  <2> DEFINE e == [kind |-> "other"]
  <2>2. e \in Event /\ sent \in Seq(Event) /\ e.kind = "other"
    BY Kinds DEF Event
  <2>3. sent' = Append(sent, e)
    BY <1>2 DEF LinkChanges, Emit
  <2> HIDE DEF e
  <2>4. /\ DOMAIN sent' = DOMAIN sent \cup {Len(sent) + 1} /\ sent'[Len(sent) + 1] = e
        /\ \A i \in DOMAIN sent : sent'[i] = sent[i]
    BY <2>2, <2>3, Appended
  <2> QED
    BY <2>1, <2>2, <2>4 DEF NewestMerging
<1>3. CASE \/ CommandDone \/ Tick \/ Nudged \/ InventoryFails \/ ReadLights
           \/ ReadLinks \/ Upsert
  <2>1. UNCHANGED <<light, sent, stream, merging>>
    BY <1>3 DEF CommandDone, Tick, Nudged, BeginInventory, InventoryFails, ReadLights, ReadLinks, Upsert
  <2> QED
    BY <2>1 DEF NewestMerging
<1>4. CASE Sever \/ Cut \/ Watchdog
  <2>1. stream' # "open"
    BY <1>4 DEF Sever, Cut, Watchdog, StreamEnds
  <2> QED
    BY <2>1 DEF NewestMerging
<1>5. CASE Open \/ MergeWrite \/ EventLost \/ MergeWriteFails
  <2>1. merging'.event = {}
    BY <1>5 DEF Open, MergeWrite, EventLost, MergeWriteFails, Orderly, Idle
  <2> QED
    BY <2>1 DEF NewestMerging
<1>6. CASE Handle
  <2>1. sent # <<>> /\ sent' = Tail(sent) /\ light' = light /\ merging = Idle
    BY <1>6 DEF Handle
  <2>2. CASE merging' = merging
    BY <2>1, <2>2 DEF NewestMerging, Idle
  <2>3. CASE Head(sent).kind = "update" /\ merging' = [event |-> {Head(sent)}, read |-> row]
    <3>1. /\ 1 \in DOMAIN sent /\ Head(sent) = sent[1]
          /\ \A j \in DOMAIN sent : j > 1 => j - 1 \in DOMAIN sent' /\ sent'[j - 1] = sent[j]
      BY <2>1, Kinds, Popped
    <3>2. \A p \in Part : p \in sent[1].parts =>
            sent[1].value[p] = light'.parts[p] \/ \E j \in DOMAIN sent' : Tells(sent'[j], p)
      BY <2>1, <2>3, <3>1 DEF NewestSent, Tells
    <3>3. light'.link = "up" \/ \E j \in DOMAIN sent' : sent'[j].kind = "other"
      BY <2>1, <2>3, <3>1 DEF NewestSent
    <3> QED
      BY <2>3, <3>1, <3>2, <3>3 DEF NewestMerging
  <2> QED
    BY <1>6, <2>2, <2>3 DEF Handle
<1>7. CASE UNCHANGED vars
  BY <1>7 DEF vars, NewestMerging
<1> QED
  BY <1>1, <1>2, <1>3, <1>4, <1>5, <1>6, <1>7, NextIs

\* What asks for an inventory, or loses an event, leaves nothing to say of the row.
LEMMA AskedFor ==
  ASSUME \/ CommandDone \/ Sever \/ Cut \/ Watchdog \/ InventoryFails \/ Tick \/ Nudged
         \/ EventLost \/ MergeWriteFails
  PROVE  Missed' \/ poll'.phase = "lights"
<1>1. CASE CommandDone \/ Cut \/ Watchdog
  BY <1>1 DEF CommandDone, Cut, Watchdog, StreamEnds, Missed
<1>2. CASE Sever
  BY <1>2 DEF Sever, Missed
<1>3. CASE InventoryFails
  <2>1. nudge' = nudge /\ exposed' = (exposed \/ ~nudge)
    BY <1>3 DEF InventoryFails
  <2> QED
    BY <2>1, Zenon DEF Missed
<1>4. CASE Tick \/ Nudged
  BY <1>4 DEF Tick, Nudged, BeginInventory, Start
<1>5. CASE EventLost \/ MergeWriteFails
  <2>1. poll' = poll /\ nudge' = nudge /\ exposed' = (exposed \/ (~nudge /\ poll.phase # "lights"))
    BY <1>5 DEF EventLost, MergeWriteFails, Forgotten
  <2> QED
    BY <2>1, Zenon DEF Missed
<1> QED
  BY <1>1, <1>2, <1>3, <1>4, <1>5

(* What was missed stays so until an inventory begins.                     *)
LEMMA BehindGrows ==
  ASSUME NEW e \in Event, sent \in Seq(Event), sent' = Append(sent, e)
  PROVE  /\ Behind => Behind'
         /\ e.kind = "other" => Behind'
         /\ \A p \in Part : Tells(e, p) => \E i \in DOMAIN sent' : Tells(sent'[i], p)
         /\ \A p \in Part : (\E i \in DOMAIN sent : Tells(sent[i], p)) =>
                               \E i \in DOMAIN sent' : Tells(sent'[i], p)
<1>1. /\ DOMAIN sent' = DOMAIN sent \cup {Len(sent) + 1} /\ sent'[Len(sent) + 1] = e
      /\ \A i \in DOMAIN sent : sent'[i] = sent[i]
  BY Appended
<1> QED
  BY <1>1 DEF Behind

LEMMA MissedStays ==
  ASSUME TypeOK, Missed, [Next]_vars
  PROVE  Missed' \/ poll'.phase = "lights" \/ ReadLights
<1>0. Missed <=> nudge \/ exposed \/ stream = "dead" \/ Behind
  BY DEF Missed
<1>a. Missed' <=> nudge' \/ exposed' \/ stream' = "dead" \/ Behind'
  BY DEF Missed
<1>1. CASE Changes
  <2>1. nudge' = nudge /\ stream' = stream /\ exposed' = (exposed \/ Unheard({"lights"}))
    BY <1>1, ChangesAre
  <2>2. Behind => Behind'
    <3>1. PICK e \in Event : sent' = IF stream = "open" THEN Append(sent, e) ELSE sent
      BY <1>1, ChangesAre
    <3>2. CASE stream = "open"
      BY <3>1, <3>2, Kinds, BehindGrows
    <3>3. CASE stream # "open"
      BY <3>1, <3>3 DEF Behind
    <3> QED
      BY <3>2, <3>3
  <2> QED
    BY <1>0, <1>a, <2>1, <2>2, Zenon
<1>2. ASSUME NEW link \in {"up", "down"}, LinkChanges(link) PROVE Missed'
  <2>1. /\ nudge' = nudge /\ stream' = stream
        /\ exposed' = (exposed \/ Unheard(IF light.link = "absent" THEN {"lights"} ELSE {"lights", "links"}))
    BY <1>2 DEF LinkChanges
  <2>2. Behind => Behind'
    <3> DEFINE e == [kind |-> "other"]
    <3>1. e \in Event /\ sent' = IF stream = "open" THEN Append(sent, e) ELSE sent
      BY <1>2 DEF LinkChanges, Emit, Event
    <3> HIDE DEF e
    <3>2. CASE stream = "open"
      BY <3>1, <3>2, Kinds, BehindGrows
    <3>3. CASE stream # "open"
      BY <3>1, <3>3 DEF Behind
    <3> QED
      BY <3>2, <3>3
  <2> QED
    BY <1>0, <1>a, <2>1, <2>2, Zenon
<1>3. CASE CommandDone \/ Cut \/ Watchdog
  BY <1>3, <1>a DEF CommandDone, Cut, Watchdog, StreamEnds
<1>4. CASE Sever
  BY <1>4, <1>a DEF Sever
<1>5. CASE Open
  <2>1. stream = "closed" /\ UNCHANGED <<nudge, exposed>> /\ (Behind => Behind')
    BY <1>5 DEF Open, Behind
  <2> QED
    BY <1>0, <1>a, <2>1
<1>6. CASE Handle
  <2>1. stream' = stream /\ exposed' = exposed /\ sent # <<>> /\ sent' = Tail(sent)
    BY <1>6 DEF Handle
  <2>2. nudge' = nudge \/ nudge' = TRUE
    BY <1>6, Zenon DEF Handle
  <2>3. Head(sent).kind = "other" => nudge' = TRUE
    BY <1>6 DEF Handle
  <2>4. Behind => Behind' \/ Head(sent).kind = "other"
    <3>1. /\ Head(sent) = sent[1]
          /\ \A i \in DOMAIN sent : i = 1 \/ (i - 1 \in DOMAIN sent' /\ sent'[i - 1] = sent[i])
      BY <2>1, Kinds, Popped
    <3> QED
      BY <3>1 DEF Behind
  <2> QED
    BY <1>0, <1>a, <2>1, <2>2, <2>3, <2>4, Zenon
<1>7. CASE MergeWrite \/ Upsert
  <2>1. stream' = stream /\ nudge' = nudge /\ (Behind => Behind')
    BY <1>7 DEF MergeWrite, Upsert, Behind
  <2>2. exposed => exposed'
    BY <1>7, Zenon DEF MergeWrite, Upsert
  <2> QED
    BY <1>0, <1>a, <2>1, <2>2, Zenon
<1>8. CASE Tick \/ Nudged
  BY <1>8 DEF Tick, Nudged, BeginInventory, Start
<1>9. CASE ReadLinks
  BY <1>9 DEF ReadLinks, Missed, Behind
<1>10. CASE InventoryFails
  <2>1. nudge' = nudge /\ exposed' = (exposed \/ ~nudge)
    BY <1>10 DEF InventoryFails
  <2> QED
    BY <1>a, <2>1, Zenon
<1>11. CASE UNCHANGED vars
  BY <1>11 DEF vars, Missed, Behind
<1>12. CASE EventLost \/ MergeWriteFails
  BY <1>12, AskedFor
<1> QED
  BY <1>1, <1>2, <1>3, <1>4, <1>5, <1>6, <1>7, <1>8, <1>9, <1>10, <1>11, <1>12, NextIs

\* A change of the light that nothing is missed of is carried, or precedes the read of the
\* lights; one of its link precedes that of the links.
LEMMA ChangeHeard ==
  ASSUME TypeOK, Changes, ~Missed'
  PROVE  stream = "open" \/ poll.phase = "lights"
<1>1. /\ nudge' = nudge /\ stream' = stream /\ exposed' = (exposed \/ Unheard({"lights"}))
  BY ChangesAre
<1>2. ~nudge /\ ~Unheard({"lights"}) /\ stream # "dead"
  BY <1>1, Zenon DEF Missed
<1>3. stream \in {"closed", "open", "dead"}
  BY DEF TypeOK
<1> QED
  BY <1>2, <1>3 DEF Unheard

LEMMA LinkHeard ==
  ASSUME TypeOK, NEW link \in {"up", "down"}, LinkChanges(link), ~Missed'
  PROVE  poll.phase = "lights" \/ (poll.phase = "links" /\ light.link # "absent")
<1> DEFINE phases == IF light.link = "absent" THEN {"lights"} ELSE {"lights", "links"}
<1>1. nudge' = nudge /\ stream' = stream /\ exposed' = (exposed \/ Unheard(phases))
  BY DEF LinkChanges
<1>2. ~nudge /\ ~Unheard(phases) /\ stream # "dead" /\ ~Behind'
  BY <1>1, Zenon DEF Missed
<1>3. stream \in {"closed", "open", "dead"}
  BY DEF TypeOK
<1>4. stream # "open"
  <2> SUFFICES ASSUME stream = "open" PROVE FALSE
    OBVIOUS
  <2> DEFINE e == [kind |-> "other"]
  <2>1. e \in Event /\ e.kind = "other" /\ sent' = Append(sent, e)
    BY DEF LinkChanges, Emit, Event
  <2> HIDE DEF e
  <2> QED
    BY <1>2, <2>1, Kinds, BehindGrows
<1>5. poll.phase \in phases
  <2> HIDE DEF phases
  <2> QED
    BY <1>2, <1>3, <1>4 DEF Unheard
<1> QED
  BY <1>5

\* What is handled and not left to the inventory is the update of a light that has a row.
LEMMA HandledIs ==
  ASSUME Handle, ~Missed'
  PROVE  /\ merging = Idle /\ merging' = [event |-> {Head(sent)}, read |-> row]
         /\ sent # <<>> /\ sent' = Tail(sent) /\ UNCHANGED <<light, row, poll, stream>>
<1>1. nudge' # TRUE
  BY DEF Missed
<1> QED
  BY <1>1 DEF Handle

LEMMA MergedIs ==
  ASSUME TypeOK, Orderly, MergeWrite, ~Missed'
  PROVE  /\ stream = "open" /\ UNCHANGED <<light, sent, poll>> /\ ~Behind
         /\ \E e \in merging.event :
              /\ merging.event = {e} /\ row'.known /\ row'.reachable
              /\ \A p \in Part : row'.parts[p] = IF p \in e.parts THEN e.value[p] ELSE merging.read.parts[p]
              /\ \A p \in Part \ e.parts : ~(merging.read.parts[p] < row.parts[p])
<1>1. merging # Idle /\ UNCHANGED <<light, stream, sent, poll>>
  BY DEF MergeWrite
<1>2. stream = "open"
  <2>1. stream' # "dead"
    BY DEF Missed
  <2> QED
    BY <1>1, <2>1 DEF TypeOK, Orderly
<1>3. ~Behind
  BY <1>1 DEF Missed, Behind
<1>4. PICK e \in merging.event :
        /\ row' = [parts |-> Merged(e, merging.read.parts), reachable |-> TRUE, known |-> TRUE]
        /\ exposed' = (exposed \/ \E p \in Part \ e.parts : merging.read.parts[p] < row.parts[p])
  BY DEF MergeWrite
<1>5. merging.event = {e}
  BY <1>1 DEF Orderly
<1>6. \A p \in Part \ e.parts : ~(merging.read.parts[p] < row.parts[p])
  BY <1>4, Zenon DEF Missed
<1>7. \A p \in Part : row'.parts[p] = IF p \in e.parts THEN e.value[p] ELSE merging.read.parts[p]
  BY <1>4 DEF Merged
<1>8. row'.known /\ row'.reachable
  BY <1>4
<1> QED
  BY <1>1, <1>2, <1>3, <1>5, <1>6, <1>7, <1>8

LEMMA UpsertedIs ==
  ASSUME Upsert, ~Missed'
  PROVE  /\ poll.phase = "write" /\ poll'.phase = "wait" /\ UNCHANGED <<light, sent, merging>>
         /\ poll.seen.known => row' = poll.seen /\ \A p \in Part : ~(poll.seen.parts[p] < row.parts[p])
<1>1. /\ poll.phase = "write" /\ poll'.phase = "wait" /\ UNCHANGED <<light, sent, merging>>
      /\ poll.seen.known => row' = poll.seen
  BY DEF Upsert, Start
<1>2. exposed' = (exposed \/ (poll.seen.known /\ \E p \in Part : poll.seen.parts[p] < row.parts[p]))
  BY DEF Upsert
<1>3. poll.seen.known => \A p \in Part : ~(poll.seen.parts[p] < row.parts[p])
  BY <1>2, Zenon DEF Missed
<1> QED
  BY <1>1, <1>3

LEMMA PartsHeldStep ==
  ASSUME TypeOK, Orderly, Bounded, NewestMerging, PartsHeld, LightSeen, [Next]_vars
  PROVE  PartsHeld'
<1> SUFFICES ASSUME ~Missed', poll'.phase # "lights", light'.link # "absent", NEW p \in Part
             PROVE  Carried(p)' \/ Held(p)'
  BY DEF PartsHeld
<1>0. ReadLights \/ ~Missed
  BY MissedStays
<1>1. CASE Changes
  <2>1. light.link = "up" /\ UNCHANGED <<row, stream, merging, poll>> /\ ~Missed
    BY <1>0, <1>1, ChangesAre DEF ReadLights
  <2>2. stream = "open"
    BY <1>1, <2>1, ChangeHeard
  <2>3. PICK e \in Event :
          /\ e.kind = "update" /\ e.value = light'.parts
          /\ \A q \in Part \ e.parts : light'.parts[q] = light.parts[q]
          /\ sent' = Append(sent, e)
    BY <1>1, <2>2, ChangesAre
  <2>4. sent \in Seq(Event)
    BY Kinds
  <2>5. CASE p \in e.parts
    BY <2>3, <2>4, <2>5, BehindGrows DEF Carried, Tells
  <2>6. CASE p \notin e.parts
    <3>1. Carried(p) \/ Held(p)
      BY <2>1 DEF PartsHeld
    <3>2. Carried(p) => Carried(p)'
      BY <2>1, <2>3, <2>4, BehindGrows DEF Carried
    <3>3. Held(p) => Held(p)'
      BY <2>1, <2>3, <2>6 DEF Held
    <3> QED
      BY <3>1, <3>2, <3>3
  <2> QED
    BY <2>5, <2>6
<1>2. ASSUME NEW link \in {"up", "down"}, LinkChanges(link) PROVE Carried(p)' \/ Held(p)'
  <2>1. light'.parts = light.parts /\ UNCHANGED <<row, stream, merging, poll>>
    BY <1>2 DEF LinkChanges, TypeOK
  <2>2. poll.phase = "links" /\ light.link # "absent"
    BY <1>2, <2>1, LinkHeard
  <2>3. Carried(p) \/ Held(p)
    BY <1>0, <2>2 DEF PartsHeld, ReadLights
  <2> DEFINE e == [kind |-> "other"]
  <2>4. e \in Event /\ (sent' = sent \/ sent' = Append(sent, e)) /\ sent \in Seq(Event)
    BY <1>2, Kinds DEF LinkChanges, Emit, Event
  <2> HIDE DEF e
  <2>5. Carried(p) => Carried(p)'
    BY <2>1, <2>4, BehindGrows DEF Carried
  <2>6. Held(p) => Held(p)'
    BY <2>1 DEF Held
  <2> QED
    BY <2>3, <2>5, <2>6
<1>3. CASE \/ CommandDone \/ Sever \/ Cut \/ Watchdog \/ InventoryFails \/ Tick \/ Nudged
           \/ EventLost \/ MergeWriteFails
  BY <1>3, AskedFor
<1>4. CASE Open
  <2>1. UNCHANGED <<light, row, sent, merging, poll>> /\ ~Missed
    BY <1>0, <1>4 DEF Open, ReadLights
  <2> QED
    BY <2>1 DEF PartsHeld, Carried, Held
<1>5. CASE Handle
  <2>1. /\ merging = Idle /\ merging' = [event |-> {Head(sent)}, read |-> row]
        /\ sent # <<>> /\ sent' = Tail(sent) /\ UNCHANGED <<light, row, poll>>
    BY <1>5, HandledIs
  <2>2. Carried(p) \/ Held(p)
    BY <1>0, <2>1 DEF PartsHeld, ReadLights
  <2>3. /\ Head(sent) = sent[1]
        /\ \A i \in DOMAIN sent : i = 1 \/ (i - 1 \in DOMAIN sent' /\ sent'[i - 1] = sent[i])
    BY <2>1, Kinds, Popped
  <2>4. Carried(p) => Carried(p)'
    BY <2>1, <2>3 DEF Carried, Idle, Tells
  <2>5. Held(p) => Held(p)'
    BY <2>1 DEF Held
  <2> QED
    BY <2>2, <2>4, <2>5
<1>6. CASE MergeWrite
  <2>1. stream = "open" /\ UNCHANGED <<light, sent, poll>>
    BY <1>6, MergedIs
  <2>2. PICK e \in merging.event :
          /\ merging.event = {e} /\ row'.known
          /\ \A q \in Part : row'.parts[q] = IF q \in e.parts THEN e.value[q] ELSE merging.read.parts[q]
          /\ \A q \in Part \ e.parts : ~(merging.read.parts[q] < row.parts[q])
    BY <1>6, MergedIs
  <2>3. Carried(p) \/ Held(p)
    BY <1>0, <2>1 DEF PartsHeld, ReadLights, MergeWrite
  <2>4. (\E i \in DOMAIN sent : Tells(sent[i], p)) => Carried(p)'
    BY <2>1 DEF Carried
  <2>5. CASE p \in e.parts
    <3>1. e.value[p] = light.parts[p] \/ \E i \in DOMAIN sent : Tells(sent[i], p)
      BY <2>1, <2>5 DEF NewestMerging
    <3> QED
      BY <2>1, <2>2, <2>4, <2>5, <3>1 DEF Held
  <2>6. CASE p \notin e.parts
    <3>1. Carried(p) => Carried(p)'
      BY <2>2, <2>4, <2>6 DEF Carried
    <3>2. row.parts[p] = light.parts[p] => row'.parts[p] = light.parts[p]
      <4>1. row'.parts[p] = merging.read.parts[p] /\ ~(merging.read.parts[p] < row.parts[p])
        BY <2>2, <2>6
      <4>2. merging.read.parts[p] <= light.parts[p]
        BY DEF Bounded
      <4>3. merging.read.parts[p] \in Int /\ row.parts[p] \in Int /\ light.parts[p] \in Nat
        BY Kinds DEF State
      <4> QED
        BY <4>1, <4>2, <4>3
    <3>3. Held(p) => Held(p)'
      BY <2>1, <2>2, <3>2 DEF Held
    <3> QED
      BY <2>3, <3>1, <3>3
  <2> QED
    BY <2>5, <2>6
<1>7. CASE ReadLights
  <2>1. /\ poll'.phase = "links" /\ poll'.seen.parts = light.parts
        /\ poll'.seen.known = (light.link # "absent") /\ light' = light
    BY <1>7 DEF ReadLights
  <2> QED
    BY <2>1 DEF Held
<1>8. CASE ReadLinks
  <2>1. /\ poll.phase = "links" /\ poll'.phase = "write" /\ poll'.seen.parts = poll.seen.parts
        /\ poll'.seen.known = poll.seen.known /\ UNCHANGED <<light, row, sent, merging>>
    BY <1>8 DEF ReadLinks, TypeOK, Row
  <2>2. Carried(p) \/ Held(p)
    BY <1>0, <2>1 DEF PartsHeld, ReadLights
  <2> QED
    BY <2>1, <2>2 DEF Carried, Held
<1>9. CASE Upsert
  <2>1. poll.phase = "write" /\ poll'.phase = "wait" /\ UNCHANGED <<light, sent, merging>>
    BY <1>9, UpsertedIs
  <2>2. ~Missed
    BY <1>0, <2>1 DEF ReadLights
  <2>3. poll.seen.known
    BY <2>1, <2>2 DEF LightSeen
  <2>4. row' = poll.seen /\ ~(poll.seen.parts[p] < row.parts[p])
    BY <1>9, <2>3, UpsertedIs
  <2>5. Carried(p) \/ Held(p)
    BY <2>1, <2>2 DEF PartsHeld
  <2>6. row.parts[p] = light.parts[p] => poll.seen.parts[p] = light.parts[p]
    <3>1. poll.seen.parts[p] <= light.parts[p]
      BY DEF Bounded
    <3>2. poll.seen.parts[p] \in Int /\ row.parts[p] \in Int /\ light.parts[p] \in Nat
      BY Kinds DEF State
    <3> QED
      BY <2>4, <3>1, <3>2
  <2> QED
    BY <2>1, <2>3, <2>4, <2>5, <2>6 DEF Carried, Held
<1>10. CASE UNCHANGED vars
  <2>1. UNCHANGED <<light, row, sent, merging, poll>> /\ ~Missed
    BY <1>0, <1>10 DEF vars, ReadLights
  <2> QED
    BY <2>1 DEF PartsHeld, Carried, Held
<1> QED
  BY <1>1, <1>2, <1>3, <1>4, <1>5, <1>6, <1>7, <1>8, <1>9, <1>10, NextIs

LEMMA LightSeenStep ==
  ASSUME TypeOK, Orderly, LightSeen, [Next]_vars
  PROVE  LightSeen'
<1> SUFFICES ASSUME ~Missed', poll'.phase \in {"links", "write"}, light'.link # "absent"
             PROVE  poll'.seen.known
  BY DEF LightSeen
<1>0. ReadLights \/ ~Missed
  BY MissedStays
<1>1. CASE Changes
  <2>1. light.link = "up" /\ poll' = poll
    BY <1>1, ChangesAre
  <2> QED
    BY <1>0, <2>1 DEF LightSeen, ReadLights
<1>2. ASSUME NEW link \in {"up", "down"}, LinkChanges(link) PROVE poll'.seen.known
  <2>1. poll' = poll
    BY <1>2 DEF LinkChanges
  <2>2. poll.phase = "links" /\ light.link # "absent"
    BY <1>2, <2>1, LinkHeard
  <2> QED
    BY <1>0, <2>1, <2>2 DEF LightSeen, ReadLights
<1>3. CASE \/ CommandDone \/ Sever \/ Cut \/ Watchdog \/ InventoryFails \/ Tick \/ Nudged
           \/ EventLost \/ MergeWriteFails
  BY <1>3, AskedFor
<1>4. CASE Open \/ Handle \/ MergeWrite \/ UNCHANGED vars
  <2>1. UNCHANGED <<light, poll>>
    BY <1>4 DEF Open, Handle, MergeWrite, vars
  <2> QED
    BY <1>0, <2>1 DEF LightSeen, ReadLights
<1>5. CASE ReadLights
  BY <1>5 DEF ReadLights
<1>6. CASE ReadLinks
  <2>1. poll.phase = "links" /\ poll'.seen.known = poll.seen.known /\ light' = light
    BY <1>6 DEF ReadLinks, TypeOK, Row
  <2> QED
    BY <1>0, <2>1 DEF LightSeen, ReadLights
<1>7. CASE Upsert
  BY <1>7 DEF Upsert, Start
<1> QED
  BY <1>1, <1>2, <1>3, <1>4, <1>5, <1>6, <1>7, NextIs

LEMMA LinkHeldStep ==
  ASSUME TypeOK, Orderly, NewestMerging, LightSeen, LinkHeld, [Next]_vars
  PROVE  LinkHeld'
<1> DEFINE Right == /\ poll.phase = "write" => poll.seen.reachable = (light.link = "up")
                    /\ poll.phase = "wait" => row.reachable = (light.link = "up")
<1> SUFFICES ASSUME ~Missed', light'.link # "absent" PROVE Right'
  BY DEF LinkHeld
<1>0. poll'.phase \in {"lights", "links"} => Right'
  OBVIOUS
<1>a. poll'.phase = "lights" \/ ReadLights \/ ~Missed
  BY MissedStays
<1>1. CASE Changes
  <2>1. light.link = "up" /\ light'.link = "up" /\ UNCHANGED <<row, poll>>
    BY <1>1, ChangesAre
  <2> QED
    BY <1>0, <1>a, <2>1 DEF LinkHeld, ReadLights
<1>2. ASSUME NEW link \in {"up", "down"}, LinkChanges(link) PROVE Right'
  <2>1. poll' = poll
    BY <1>2 DEF LinkChanges
  <2> QED
    BY <1>0, <1>2, <2>1, LinkHeard
<1>3. CASE \/ CommandDone \/ Sever \/ Cut \/ Watchdog \/ InventoryFails \/ Tick \/ Nudged
           \/ EventLost \/ MergeWriteFails
  BY <1>0, <1>3, AskedFor
<1>4. CASE Open \/ UNCHANGED vars
  <2>1. UNCHANGED <<light, row, poll>>
    BY <1>4 DEF Open, vars
  <2> QED
    BY <1>0, <1>a, <2>1 DEF LinkHeld, ReadLights
<1>5. CASE Handle
  <2>1. UNCHANGED <<light, row, poll>>
    BY <1>5, HandledIs
  <2> QED
    BY <1>0, <1>a, <2>1 DEF LinkHeld, ReadLights
<1>6. CASE MergeWrite
  <2>1. /\ stream = "open" /\ UNCHANGED <<light, sent, poll>> /\ ~Behind
        /\ \E e \in merging.event : row'.reachable
    BY <1>6, MergedIs
  <2>2. light.link = "up"
    BY <2>1 DEF NewestMerging, Behind
  <2>3. row'.reachable = TRUE
    BY <1>6 DEF MergeWrite
  <2> QED
    BY <1>0, <1>a, <2>1, <2>2, <2>3 DEF LinkHeld, ReadLights
<1>7. CASE ReadLights
  BY <1>7 DEF ReadLights
<1>8. CASE ReadLinks
  <2>1. poll'.phase = "write" /\ poll'.seen.reachable = (light.link = "up") /\ light' = light
    BY <1>8 DEF ReadLinks, TypeOK, Row
  <2> QED
    BY <2>1
<1>9. CASE Upsert
  <2>1. poll.phase = "write" /\ poll'.phase = "wait" /\ light' = light
    BY <1>9, UpsertedIs
  <2>2. ~Missed
    BY <1>a, <2>1 DEF ReadLights
  <2>3. poll.seen.known
    BY <2>1, <2>2 DEF LightSeen
  <2>4. row' = poll.seen
    BY <1>9, <2>3, UpsertedIs
  <2> QED
    BY <2>1, <2>2, <2>4 DEF LinkHeld
<1> QED
  BY <1>1, <1>2, <1>3, <1>4, <1>5, <1>6, <1>7, <1>8, <1>9, NextIs

IInv ==
  /\ TypeOK /\ Orderly /\ Bounded /\ NewestSent /\ NewestMerging
  /\ PartsHeld /\ LightSeen /\ LinkHeld

LEMMA InitAccurate == Init => IInv
<1> SUFFICES ASSUME Init PROVE IInv
  OBVIOUS
<1>1. sent = <<>> /\ merging = Idle /\ poll.phase = "lights"
  BY DEF Init, Start
<1>2. merging.event = {}
  BY <1>1 DEF Idle
<1>3. \A p \in Part : /\ light.parts[p] = 0 /\ row.parts[p] \in {0, Missing}
                      /\ merging.read.parts[p] = 0 /\ poll.seen.parts[p] = 0
  <2>1. \A p \in Part : NoRow.parts[p] = 0
    BY DEF NoRow
  <2>2. merging.read = NoRow /\ poll.seen = NoRow
    BY DEF Init, Idle, Start
  <2>3. light.parts = [p \in Part |-> 0]
    BY DEF Init
  <2>4. row = NoRow \/ row.parts = [p \in Part |-> 0] \/ row.parts = Unreadable
    BY DEF Init
  <2> QED
    BY <2>1, <2>2, <2>3, <2>4 DEF Unreadable
<1>4. Bounded
  <2>1. DOMAIN sent = {}
    BY <1>1
  <2>2. \A p \in Part : /\ row.parts[p] <= light.parts[p] /\ merging.read.parts[p] <= light.parts[p]
                         /\ poll.seen.parts[p] <= light.parts[p]
    <3>1. 0 <= 0 /\ Missing <= 0
      BY DEF Missing
    <3> QED
      BY <1>3, <3>1
  <2> QED
    BY <1>2, <2>1, <2>2, Zenon DEF Bounded
<1>5. Orderly /\ NewestSent /\ NewestMerging
  BY <1>1, <1>2 DEF Orderly, NewestSent, NewestMerging
<1>6. PartsHeld /\ LightSeen /\ LinkHeld
  BY <1>1 DEF PartsHeld, LightSeen, LinkHeld
<1> QED
  BY <1>4, <1>5, <1>6, InitHolds DEF IInv

LEMMA Invariance == Spec => []IInv
<1>1. IInv /\ [Next]_vars => IInv'
  BY StepHolds, OrderlyStep, BoundedStep, NewestSentStep, NewestMergingStep, PartsHeldStep,
     LightSeenStep, LinkHeldStep DEF IInv
<1> QED
  BY <1>1, InitAccurate, PTL DEF Spec

-----------------------------------------------------------------------------
\* The state is well typed: what a merge or an inventory writes is a state of the light,
\* possibly without some of its parts (mergeHueState, UpsertDevices).
LEMMA TypeCorrect == Spec => []TypeOK
  BY InitHolds, StepHolds, PTL DEF Spec
\* When nothing is under way the row of a light is the light, its link included, but in the
\* four cases the model exposes: whatever the merges, the inventories, the cuts and the
\* nudges between them (runHueEvents, mergeHueState, runHueInventory).
THEOREM AccurateWhenQuiet == Spec => []QuietIsAccurate
<1>1. IInv => QuietIsAccurate
  <2> SUFFICES ASSUME IInv, Quiet, ~exposed, light.link # "absent"
               PROVE  row.known /\ row.parts = light.parts /\ row.reachable = (light.link = "up")
    BY DEF QuietIsAccurate, Shown
  <2>1. sent = <<>> /\ merging.event = {} /\ poll.phase = "wait" /\ stream = "open" /\ ~nudge
    BY DEF Quiet, Idle
  <2>2. ~Missed
    <3>1. ~Behind
      BY <2>1 DEF Behind
    <3>2. stream # "dead"
      BY <2>1
    <3> QED
      BY <2>1, <3>1, <3>2, Zenon DEF Missed
  <2>3. \A p \in Part : ~Carried(p)
    BY <2>1 DEF Carried
  <2>4. \A p \in Part : row.known /\ row.parts[p] = light.parts[p]
    BY <2>1, <2>2, <2>3 DEF IInv, PartsHeld, Held
  <2>5. row.known
    BY <2>4, PartAssumption
  <2>6. row.parts = light.parts
    <3>1. row.parts \in Stored /\ light.parts \in State
      BY Kinds DEF IInv
    <3> QED
      BY <2>4, <3>1 DEF State, Stored
  <2>7. row.reachable = (light.link = "up")
    BY <2>1, <2>2 DEF IInv, LinkHeld
  <2> QED
    BY <2>5, <2>6, <2>7
<1> QED
  BY <1>1, Invariance, PTL
=============================================================================
