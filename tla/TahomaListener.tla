--------------------------- MODULE TahomaListener ---------------------------
(***************************************************************************)
(* One TaHoma device, from the box to its row in table device.  The box    *)
(* keeps the events of a registered listener until they are fetched; it    *)
(* forgets a listener nobody polls, and tolerates a limited number of      *)
(* them.  tahoma/events.go registers one, fetches, and registers again     *)
(* when it has expired; poller.go applies the events, and reads the whole  *)
(* inventory every fifteen minutes; shutdown releases the listener.        *)
(*                                                                         *)
(* The value of a state of the device is the number of times it changed.   *)
(* A row may lack a state: the event it was last written from did not      *)
(* carry it.  Reachability is left out.                                    *)
(***************************************************************************)
EXTENDS Naturals, Sequences, FiniteSets

CONSTANTS
  Part,          \* the states of the device
  MaxListeners,  \* how many listeners the box tolerates
  MaxChanges,    \* bound: changes of the device
  MaxFaults,     \* bound: lost answers, errors, expired listeners
  MaxBoots       \* bound: starts of the process after the first

VARIABLES
  device,     \* the states of the device, at the box
  listeners,  \* the listeners the box knows
  pending,    \* the events it keeps for the one registered last
  last,       \* how many it has registered
  process,    \* "up", "stopping", "down"
  id,         \* EventListener.id, 0 when there is none
  pc, second, \* Fetch: its next request, and whether it is the second try
  batch,      \* the events applyEvents has still to apply
  setup,      \* runTahomaSetup: its phase, and the inventory it read
  known, row, \* the row of the device
  changes, faults, boots,
  orphans,    \* history: listeners no process can release any more
  exposed     \* history: the row may stay stale until the next inventory

box == <<device, listeners, pending, last>>
loop == <<id, pc, second, batch>>
stored == <<known, row>>
bounds == <<changes, faults, boots>>
history == <<orphans, exposed>>
vars == <<box, process, loop, setup, stored, bounds, history>>

Fault == faults < MaxFaults /\ faults' = faults + 1 /\ UNCHANGED <<changes, boots>>

\* What is lost now will be caught up by the inventory that is still to be read.
Lost(isLost) == exposed' = (exposed \/ (isLost /\ setup.phase # "read"))

\* These states and the inventory read last: which of them is the older one.
Behind(states) == \E p \in DOMAIN states : states[p] < setup.seen[p]
Ahead(states) == \E p \in DOMAIN states : setup.seen[p] < states[p]

(***************************************************************************)
(* The box.                                                                *)
(***************************************************************************)
Change(ps) ==
  /\ changes < MaxChanges /\ changes' = changes + 1
  /\ device' = [p \in Part |-> IF p \in ps THEN device[p] + 1 ELSE device[p]]
  /\ pending' = IF id # 0 /\ id \in listeners THEN Append(pending, [p \in ps |-> device[p] + 1]) ELSE pending
  /\ Lost(id \notin listeners)
  /\ UNCHANGED <<listeners, last, process, loop, setup, stored, faults, boots, orphans>>

Forget(l) ==
  /\ listeners' = listeners \ {l} /\ orphans' = orphans \ {l}
  /\ pending' = IF l = id THEN <<>> ELSE pending
  /\ Lost(l = id /\ pending # <<>>)
  /\ UNCHANGED <<device, last, process, loop, setup, stored>>

\* Nobody polls an orphan: the box recycles it.  The one in use goes too when the box
\* restarts, or when the loop has backed off for too long.
Recycle == \E l \in orphans : Forget(l) /\ UNCHANGED bounds
Expire == id \in listeners /\ Forget(id) /\ Fault

(***************************************************************************)
(* EventListener.Fetch, from the loop runTahomaEvents.                     *)
(***************************************************************************)
loopOnly == UNCHANGED <<device, process, setup, stored>>

BeginFetch ==
  /\ process = "up" /\ pc = "idle" /\ batch = <<>>
  /\ pc' = IF id = 0 THEN "register" ELSE "fetch"
  /\ second' = FALSE
  /\ loopOnly /\ UNCHANGED <<listeners, pending, last, id, batch, bounds, history>>

\* ensureListener: a new identifier, which the loop keeps...
Register ==
  /\ pc = "register" /\ process = "up" /\ Cardinality(listeners) < MaxListeners
  /\ last' = last + 1 /\ listeners' = listeners \cup {last + 1} /\ pending' = <<>>
  /\ id' = last + 1 /\ pc' = "fetch"
  /\ loopOnly /\ UNCHANGED <<second, batch, bounds, history>>

\* ...unless its answer is lost: the box holds a listener nobody knows.
RegisterUnanswered ==
  /\ pc = "register" /\ Cardinality(listeners) < MaxListeners
  /\ last' = last + 1 /\ listeners' = listeners \cup {last + 1} /\ orphans' = orphans \cup {last + 1}
  /\ pc' = "idle"
  /\ IF process = "up" THEN Fault ELSE UNCHANGED bounds
  /\ loopOnly /\ UNCHANGED <<pending, id, second, batch, exposed>>

\* The box refuses one listener too many.
RegisterRefused ==
  /\ pc = "register" /\ Cardinality(listeners) >= MaxListeners
  /\ pc' = "idle"
  /\ loopOnly /\ UNCHANGED <<listeners, pending, last, id, second, batch, bounds, history>>

\* fetchWith: the box hands its events over and forgets them.
FetchWith ==
  /\ pc = "fetch" /\ process = "up" /\ id \in listeners
  /\ batch' = pending /\ pending' = <<>> /\ pc' = "idle"
  /\ loopOnly /\ UNCHANGED <<listeners, last, id, second, bounds, history>>

\* Their answer is lost, and they with it.
FetchUnanswered ==
  /\ pc = "fetch" /\ id \in listeners
  /\ pending' = <<>> /\ pc' = "idle" /\ Lost(pending # <<>>)
  /\ IF process = "up" THEN Fault ELSE UNCHANGED bounds
  /\ loopOnly /\ UNCHANGED <<listeners, last, id, second, batch, orphans>>

\* A 400, 404 or 401 is taken for an expired listener, the first time: invalidate,
\* then register again.  The box may have given it for another reason.
ExpiredKept ==
  /\ pc = "fetch" /\ process = "up" /\ id \notin listeners
  /\ pc' = "idle" /\ second' = TRUE
  /\ loopOnly /\ UNCHANGED <<listeners, pending, last, id, batch, bounds, history>>
Expired ==
  /\ pc = "fetch" /\ process = "up"
  /\ IF id \in listeners THEN Fault ELSE UNCHANGED bounds
  /\ IF second THEN UNCHANGED <<id, pending, history>> /\ pc' = "idle"
     ELSE /\ id' = 0 /\ pc' = "register" /\ pending' = <<>>
          /\ orphans' = orphans \cup ({id} \cap listeners)
          /\ Lost(pending # <<>>)
  /\ second' = TRUE
  /\ loopOnly /\ UNCHANGED <<listeners, last, batch>>

\* The request does not get through, or is cancelled by the stop.
Unsent ==
  /\ pc # "idle" /\ pc' = "idle"
  /\ IF process = "up" THEN Fault ELSE UNCHANGED bounds
  /\ loopOnly /\ UNCHANGED <<listeners, pending, last, id, second, batch, history>>

\* applyEvents, one event: UpdateDeviceState replaces the whole state by what the event
\* carries, be it older than the inventory; an event of a device without a row is dropped.
ApplyBetweenSetups ==
  /\ process = "up" /\ batch # <<>>
  /\ batch' = Tail(batch)
  /\ row' = IF known /\ setup.phase = "wait" THEN Head(batch) ELSE row
  /\ UNCHANGED <<box, process, id, pc, second, setup, known, bounds, history>>
Apply ==
  /\ process = "up" /\ batch # <<>>
  /\ batch' = Tail(batch)
  /\ row' = IF known THEN Head(batch) ELSE row
  /\ Lost(~known \/ (setup.phase = "wait" /\ Behind(Head(batch))))
  /\ UNCHANGED <<box, process, id, pc, second, setup, known, bounds, orphans>>

\* UpdateDeviceState fails: the error is logged, the event is lost, the next one follows.
ApplyFails ==
  /\ process = "up" /\ batch # <<>> /\ Fault
  /\ batch' = Tail(batch) /\ Lost(TRUE)
  /\ UNCHANGED <<box, process, id, pc, second, setup, stored, orphans>>

(***************************************************************************)
(* runTahomaSetup: tick, FetchDevices, UpsertDevices.                      *)
(***************************************************************************)
setupOnly == UNCHANGED <<box, process, loop, changes, boots, orphans>>

SetupTick ==
  /\ process = "up" /\ setup.phase = "wait" /\ setup' = [setup EXCEPT !.phase = "read"]
  /\ setupOnly /\ UNCHANGED <<stored, faults, exposed>>
SetupRead ==
  /\ process = "up" /\ setup.phase = "read"
  /\ setup' = [phase |-> "write", seen |-> device] /\ exposed' = FALSE
  /\ setupOnly /\ UNCHANGED <<stored, faults>>
SetupWrite ==
  /\ process = "up" /\ setup.phase = "write"
  /\ setup' = [setup EXCEPT !.phase = "wait"]
  /\ known' = TRUE /\ row' = setup.seen
  /\ exposed' = (exposed \/ (known /\ Ahead(row)))
  /\ setupOnly /\ UNCHANGED faults
SetupFails ==
  /\ process = "up" /\ setup.phase # "wait" /\ faults < MaxFaults /\ faults' = faults + 1
  /\ setup' = [setup EXCEPT !.phase = "wait"] /\ exposed' = TRUE
  /\ setupOnly /\ UNCHANGED stored

(***************************************************************************)
(* The process.                                                            *)
(***************************************************************************)

\* The context is cancelled: what is being applied is dropped.
Stop ==
  /\ process = "up" /\ process' = "stopping" /\ batch' = <<>>
  /\ setup' = [setup EXCEPT !.phase = "wait"]
  /\ UNCHANGED <<box, id, pc, second, stored, bounds, history>>

\* Poller.shutdown, once the loops have ended: Unregister, which may fail.
ShutdownUnreleased ==
  /\ process = "stopping" /\ pc = "idle" /\ process' = "down"
  /\ id' = 0 /\ pending' = <<>>
  /\ UNCHANGED <<device, listeners, last, pc, second, batch, setup, stored, bounds, history>>
Shutdown ==
  /\ process = "stopping" /\ pc = "idle" /\ process' = "down"
  /\ id' = 0 /\ pending' = <<>>
  /\ \/ listeners' = listeners \ {id} /\ UNCHANGED <<orphans, bounds>>
     \/ id \in listeners /\ Fault /\ orphans' = orphans \cup {id} /\ UNCHANGED listeners
  /\ UNCHANGED <<device, last, pc, second, batch, setup, stored, exposed>>

Crash ==
  /\ process # "down" /\ faults < MaxFaults /\ faults' = faults + 1
  /\ process' = "down" /\ id' = 0 /\ pc' = "idle" /\ batch' = <<>> /\ pending' = <<>>
  /\ setup' = [setup EXCEPT !.phase = "wait"]
  /\ orphans' = orphans \cup ({id} \cap listeners)
  /\ UNCHANGED <<device, listeners, last, second, stored, changes, boots, exposed>>

\* Both loops begin at once, the inventory with a first reading.
Boot ==
  /\ process = "down" /\ boots < MaxBoots /\ boots' = boots + 1
  /\ process' = "up" /\ setup' = [setup EXCEPT !.phase = "read"]
  /\ UNCHANGED <<box, loop, stored, changes, faults, history>>

Zero == [p \in Part |-> 0]
Init ==
  /\ device = Zero /\ listeners = {} /\ pending = <<>> /\ last = 0
  /\ process = "up" /\ id = 0 /\ pc = "idle" /\ second = FALSE /\ batch = <<>>
  /\ setup = [phase |-> "read", seen |-> Zero] /\ known \in BOOLEAN /\ row = Zero
  /\ changes = 0 /\ faults = 0 /\ boots = 0 /\ orphans = {} /\ exposed = FALSE

Next ==
  \/ \E ps \in (SUBSET Part) \ {{}} : Change(ps)
  \/ Recycle \/ Expire
  \/ BeginFetch \/ Register \/ RegisterUnanswered \/ RegisterRefused
  \/ FetchWith \/ FetchUnanswered \/ Expired \/ Unsent \/ Apply \/ ApplyFails
  \/ SetupTick \/ SetupRead \/ SetupWrite \/ SetupFails
  \/ Stop \/ Shutdown \/ Crash \/ Boot

\* The loops run while the process is up; the box recycles the orphans, which is what
\* a process that was refused a listener counts on.
EventLoop == BeginFetch \/ Register \/ RegisterRefused \/ FetchWith \/ Expired \/ Apply
Spec == Init /\ [][Next]_vars /\ WF_vars(EventLoop) /\ WF_vars(Recycle)

(***************************************************************************)
(* Properties.                                                             *)
(***************************************************************************)
State == [Part -> Nat]
Partial == UNION {[S -> Nat] : S \in SUBSET Part}
TypeOK ==
  /\ device \in State /\ known \in BOOLEAN /\ row \in Partial
  /\ pending \in Seq(Partial) /\ batch \in Seq(Partial)
  /\ last \in Nat /\ id \in 0 .. last /\ listeners \subseteq 1 .. last /\ orphans \subseteq listeners
  /\ process \in {"up", "stopping", "down"}
  /\ pc \in {"idle", "register", "fetch"} /\ second \in BOOLEAN
  /\ setup \in [phase: {"wait", "read", "write"}, seen: State]
  /\ changes \in Nat /\ faults \in Nat /\ boots \in Nat /\ exposed \in BOOLEAN

\* Every listener the box holds is the one in use or was lost by a fault: expiry,
\* retry and stop leave none behind (events.go invalidate and Unregister,
\* poller.go shutdown), since the box tolerates few of them.
NoListenerLeaks == listeners \subseteq orphans \cup {id}

\* Nothing is under way at the box or in the loops.
Quiet == process = "up" /\ id \in listeners /\ pending = <<>> /\ batch = <<>> /\ setup.phase = "wait"

\* Then every state the row has is the box's, unless since the last inventory was read an
\* event was lost (by the box, on the way, or by a write that failed), dropped for want of
\* a row or overwritten by the inventory, or one older than it was applied after it.
QuietIsAccurate == Quiet /\ ~exposed => known /\ \A p \in DOMAIN row : row[p] = device[p]

\* A process that stays up ends with a listener the box knows, whatever expired or was
\* refused before: Fetch registers again (events.go Fetch).
ListenerIsRestored == <>[](process = "up") => <>[](id \in listeners)
=============================================================================
