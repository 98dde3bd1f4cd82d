------------------------ MODULE TahomaListenerProofs ------------------------
(***************************************************************************)
(* No listener is left at the box but by a fault, and the row follows the  *)
(* device, for any number of expiries, retries, stops and starts, and      *)
(* whatever the box tolerates.                                             *)
(*                                                                         *)
(* A new listener is registered only when the loop holds none, which is    *)
(* what Idle says; the identifiers the box gives are never given again.    *)
(* The types of the rest of the state follow, part by part.                *)
(***************************************************************************)
EXTENDS TahomaListener, TLAPS

\* The loop registers only when it holds no listener; what it holds is not an orphan.
Idle == (pc = "register" => id = 0) /\ id \notin orphans

\* The listeners: those of the box, the one in use and the lost ones.
Numbered ==
  /\ last \in Nat /\ id \in 0 .. last /\ listeners \subseteq 1 .. last /\ orphans \subseteq listeners

Released == Numbered /\ Idle /\ NoListenerLeaks

LEMMA InitReleased == Init => Released
  BY DEF Init, Released, Numbered, Idle, NoListenerLeaks

LEMMA ReleasedStep ==
  ASSUME Released, [Next]_vars
  PROVE  Released'
<1> USE DEF Released, Numbered, Idle, NoListenerLeaks, box, loop, stored, bounds, history, loopOnly, setupOnly
<1>1. CASE \E ps \in (SUBSET Part) \ {{}} : Change(ps)
  BY <1>1 DEF Change
<1>2. CASE Recycle
  BY <1>2 DEF Recycle, Forget
<1>3. CASE Expire
  BY <1>3 DEF Expire, Forget
<1>4. CASE BeginFetch
  BY <1>4 DEF BeginFetch
<1>5. CASE Register
  BY <1>5 DEF Register
<1>6. CASE RegisterUnanswered
  BY <1>6 DEF RegisterUnanswered
<1>7. CASE RegisterRefused
  BY <1>7 DEF RegisterRefused
<1>8. CASE FetchWith
  BY <1>8 DEF FetchWith
<1>9. CASE FetchUnanswered
  BY <1>9 DEF FetchUnanswered
<1>10. CASE Expired
  <2>1. CASE second
    BY <1>10, <2>1 DEF Expired
  <2>2. CASE ~second
    <3>1. id' = 0 /\ orphans' = orphans \cup ({id} \cap listeners) /\ UNCHANGED <<listeners, last>>
      BY <1>10, <2>2, Zenon DEF Expired
    <3> QED
      BY <3>1
  <2> QED
    BY <2>1, <2>2
<1>11. CASE Unsent
  BY <1>11 DEF Unsent
<1>12. CASE Apply
  BY <1>12 DEF Apply
<1>13. CASE SetupTick
  BY <1>13 DEF SetupTick
<1>14. CASE SetupRead
  BY <1>14 DEF SetupRead
<1>15. CASE SetupWrite
  BY <1>15 DEF SetupWrite
<1>16. CASE SetupFails
  BY <1>16 DEF SetupFails
<1>17. CASE Stop
  BY <1>17 DEF Stop
<1>18. CASE Shutdown
  <2>1. CASE listeners' = listeners \ {id} /\ orphans' = orphans
    BY <1>18, <2>1 DEF Shutdown
  <2>2. CASE listeners' = listeners /\ orphans' = orphans \cup {id} /\ id \in listeners
    BY <1>18, <2>2 DEF Shutdown
  <2> QED
    BY <1>18, <2>1, <2>2 DEF Shutdown
<1>19. CASE Crash
  BY <1>19 DEF Crash
<1>20. CASE Boot
  BY <1>20 DEF Boot
<1>22. CASE ApplyFails
  BY <1>22 DEF ApplyFails
<1>21. CASE UNCHANGED vars
  BY <1>21 DEF vars
<1> QED
  BY <1>1, <1>2, <1>3, <1>4, <1>5, <1>6, <1>7, <1>8, <1>9, <1>10, <1>11, <1>12, <1>13, <1>14, <1>15, <1>16, <1>17, <1>18, <1>19, <1>20, <1>21,
     <1>22 DEF Next

-----------------------------------------------------------------------------
(* The types, in three parts: what is known of the device, where the two   *)
(* loops are, and the flags.                                               *)
Data == device \in State /\ row \in Partial /\ pending \in Seq(Partial) /\ batch \in Seq(Partial)
Places ==
  /\ process \in {"up", "stopping", "down"} /\ pc \in {"idle", "register", "fetch"}
  /\ setup \in [phase: {"wait", "read", "write"}, seen: State]
  /\ changes \in Nat /\ faults \in Nat /\ boots \in Nat
Flags == known \in BOOLEAN /\ second \in BOOLEAN /\ exposed \in BOOLEAN

LEMMA PartialOf == ASSUME NEW S \in SUBSET Part, NEW f \in [S -> Nat] PROVE f \in Partial
  BY DEF Partial

LEMMA DataStep ==
  ASSUME TypeOK, [Next]_vars
  PROVE  Data'
<1> USE DEF TypeOK, Data, box, loop, stored, bounds, history, loopOnly, setupOnly
<1>1. CASE \E ps \in (SUBSET Part) \ {{}} : Change(ps)
  <2> PICK ps \in (SUBSET Part) \ {{}} : Change(ps)
    BY <1>1
  <2>1. device' \in State
    BY DEF Change, State
  <2>2. [p \in ps |-> device[p] + 1] \in [ps -> Nat]
    BY DEF State
  <2>3. pending' = pending \/ pending' = Append(pending, [p \in ps |-> device[p] + 1])
    BY DEF Change
  <2>4. pending' \in Seq(Partial)
    <3>1. [p \in ps |-> device[p] + 1] \in Partial
      BY <2>2, PartialOf
    <3> QED
      BY <3>1, <2>3
  <2> QED
    BY <2>1, <2>4 DEF Change
<1>2. CASE Recycle
  BY <1>2 DEF Recycle, Forget
<1>3. CASE Expire
  BY <1>3 DEF Expire, Forget
<1>4. CASE BeginFetch
  BY <1>4 DEF BeginFetch
<1>5. CASE Register
  BY <1>5 DEF Register
<1>6. CASE RegisterUnanswered
  BY <1>6 DEF RegisterUnanswered
<1>7. CASE RegisterRefused
  BY <1>7 DEF RegisterRefused
<1>8. CASE FetchWith
  BY <1>8 DEF FetchWith
<1>9. CASE FetchUnanswered
  BY <1>9 DEF FetchUnanswered
<1>10. CASE Expired
  <2>1. pending' = pending \/ pending' = <<>>
    BY <1>10, Zenon DEF Expired
  <2>2. device' = device /\ row' = row /\ batch' = batch
    BY <1>10, Zenon DEF Expired
  <2>3. pending' \in Seq(Partial)
    <3>1. <<>> \in Seq(Partial)
      OBVIOUS
    <3>2. CASE pending' = pending
      BY <3>2
    <3>3. CASE pending' = <<>>
      BY <3>1, <3>3
    <3> QED
      BY <2>1, <3>2, <3>3
  <2> QED
    BY <2>2, <2>3
<1>11. CASE Unsent
  BY <1>11 DEF Unsent
<1>12. CASE Apply
  BY <1>12 DEF Apply
<1>13. CASE SetupTick
  BY <1>13 DEF SetupTick
<1>14. CASE SetupRead
  BY <1>14 DEF SetupRead
<1>15. CASE SetupWrite
  <2>1. setup.seen \in Partial
    BY PartialOf DEF State
  <2> QED
    BY <1>15, <2>1 DEF SetupWrite
<1>16. CASE SetupFails
  BY <1>16 DEF SetupFails
<1>17. CASE Stop
  BY <1>17 DEF Stop
<1>18. CASE Shutdown
  BY <1>18 DEF Shutdown
<1>19. CASE Crash
  BY <1>19 DEF Crash
<1>20. CASE Boot
  BY <1>20 DEF Boot
<1>22. CASE ApplyFails
  BY <1>22 DEF ApplyFails
<1>21. CASE UNCHANGED vars
  BY <1>21 DEF vars
<1> QED
  BY <1>1, <1>2, <1>3, <1>4, <1>5, <1>6, <1>7, <1>8, <1>9, <1>10, <1>11, <1>12, <1>13, <1>14, <1>15, <1>16, <1>17, <1>18, <1>19, <1>20, <1>21,
     <1>22 DEF Next

LEMMA PlacesStep ==
  ASSUME TypeOK, [Next]_vars
  PROVE  Places'
<1> USE DEF TypeOK, Places, box, loop, stored, bounds, history, loopOnly, setupOnly
<1>1. CASE \E ps \in (SUBSET Part) \ {{}} : Change(ps)
  BY <1>1 DEF Change
<1>2. CASE Recycle
  BY <1>2 DEF Recycle, Forget
<1>3. CASE Expire
  BY <1>3 DEF Expire, Forget, Fault
<1>4. CASE BeginFetch
  BY <1>4 DEF BeginFetch
<1>5. CASE Register
  BY <1>5 DEF Register
<1>6. CASE RegisterUnanswered
  BY <1>6 DEF RegisterUnanswered, Fault
<1>7. CASE RegisterRefused
  BY <1>7 DEF RegisterRefused
<1>8. CASE FetchWith
  BY <1>8 DEF FetchWith
<1>9. CASE FetchUnanswered
  BY <1>9 DEF FetchUnanswered, Fault
<1>10. CASE Expired
  BY <1>10 DEF Expired, Fault
<1>11. CASE Unsent
  BY <1>11 DEF Unsent, Fault
<1>12. CASE Apply
  BY <1>12 DEF Apply
<1>13. CASE SetupTick
  BY <1>13 DEF SetupTick
<1>14. CASE SetupRead
  BY <1>14 DEF SetupRead
<1>15. CASE SetupWrite
  BY <1>15 DEF SetupWrite
<1>16. CASE SetupFails
  BY <1>16 DEF SetupFails
<1>17. CASE Stop
  BY <1>17 DEF Stop
<1>18. CASE Shutdown
  BY <1>18 DEF Shutdown, Fault
<1>19. CASE Crash
  BY <1>19 DEF Crash
<1>20. CASE Boot
  BY <1>20 DEF Boot
<1>22. CASE ApplyFails
  BY <1>22 DEF ApplyFails, Fault
<1>21. CASE UNCHANGED vars
  BY <1>21 DEF vars
<1> QED
  BY <1>1, <1>2, <1>3, <1>4, <1>5, <1>6, <1>7, <1>8, <1>9, <1>10, <1>11, <1>12, <1>13, <1>14, <1>15, <1>16, <1>17, <1>18, <1>19, <1>20, <1>21,
     <1>22 DEF Next

LEMMA FlagsStep ==
  ASSUME TypeOK, [Next]_vars
  PROVE  Flags'
<1> USE DEF TypeOK, Flags, box, loop, stored, bounds, history, loopOnly, setupOnly
<1>1. CASE \E ps \in (SUBSET Part) \ {{}} : Change(ps)
  BY <1>1 DEF Change, Lost
<1>2. CASE Recycle
  BY <1>2 DEF Recycle, Forget, Lost
<1>3. CASE Expire
  BY <1>3 DEF Expire, Forget, Lost
<1>4. CASE BeginFetch
  BY <1>4 DEF BeginFetch
<1>5. CASE Register
  BY <1>5 DEF Register
<1>6. CASE RegisterUnanswered
  BY <1>6 DEF RegisterUnanswered
<1>7. CASE RegisterRefused
  BY <1>7 DEF RegisterRefused
<1>8. CASE FetchWith
  BY <1>8 DEF FetchWith
<1>9. CASE FetchUnanswered
  BY <1>9 DEF FetchUnanswered, Lost
<1>10. CASE Expired
  BY <1>10 DEF Expired, Lost
<1>11. CASE Unsent
  BY <1>11 DEF Unsent
<1>12. CASE Apply
  BY <1>12 DEF Apply, Lost
<1>13. CASE SetupTick
  BY <1>13 DEF SetupTick
<1>14. CASE SetupRead
  BY <1>14 DEF SetupRead
<1>15. CASE SetupWrite
  BY <1>15 DEF SetupWrite
<1>16. CASE SetupFails
  BY <1>16 DEF SetupFails
<1>17. CASE Stop
  BY <1>17 DEF Stop
<1>18. CASE Shutdown
  BY <1>18 DEF Shutdown
<1>19. CASE Crash
  BY <1>19 DEF Crash
<1>20. CASE Boot
  BY <1>20 DEF Boot
<1>22. CASE ApplyFails
  BY <1>22 DEF ApplyFails, Lost
<1>21. CASE UNCHANGED vars
  BY <1>21 DEF vars
<1> QED
  BY <1>1, <1>2, <1>3, <1>4, <1>5, <1>6, <1>7, <1>8, <1>9, <1>10, <1>11, <1>12, <1>13, <1>14, <1>15, <1>16, <1>17, <1>18, <1>19, <1>20, <1>21,
     <1>22 DEF Next

-----------------------------------------------------------------------------
IInv == Released /\ TypeOK

LEMMA TypeIsItsParts == Released /\ Data /\ Places /\ Flags => TypeOK
  BY DEF Released, Numbered, Data, Places, Flags, TypeOK

LEMMA InitHolds == Init => IInv
<1> SUFFICES ASSUME Init PROVE IInv
  OBVIOUS
<1>1. Zero \in State /\ Zero \in Partial
  <2>1. Zero \in State
    BY DEF Zero, State
  <2> QED
    BY <2>1, PartialOf DEF State
<1>2. Data
  BY <1>1 DEF Init, Data
<1>3. Places
  BY <1>1 DEF Init, Places
<1>4. Flags
  BY DEF Init, Flags
<1> QED
  BY <1>2, <1>3, <1>4, InitReleased, TypeIsItsParts DEF IInv

LEMMA StepHolds == IInv /\ [Next]_vars => IInv'
<1>1. (Released /\ Data /\ Places /\ Flags)' => TypeOK'
  BY DEF Released, Numbered, Data, Places, Flags, TypeOK
<1> QED
  BY <1>1, ReleasedStep, DataStep, PlacesStep, FlagsStep DEF IInv

LEMMA Invariance == Spec => []IInv
  BY InitHolds, StepHolds, PTL DEF Spec

\* The state of the box, of the two loops and of the row stays in its types.
THEOREM TypeCorrect == Spec => []TypeOK
<1>1. IInv => TypeOK
  BY DEF IInv
<1> QED
  BY <1>1, Invariance, PTL

\* Expiry, retry and stop leave no listener behind: each one the box holds is in use or
\* was lost by a fault (events.go Fetch and Unregister, poller.go shutdown).
THEOREM ListenersAreReleased == Spec => []NoListenerLeaks
<1>1. IInv => NoListenerLeaks
  BY DEF IInv, Released
<1> QED
  BY <1>1, Invariance, PTL
-----------------------------------------------------------------------------
(* How the row keeps up with the device, while no state of it is exposed.  *)
(* From the first request for an inventory on, the last value of a state   *)
(* is in the inventory, or in an event not yet applied, or will show that  *)
(* an event overtook the inventory; once it is written, in the row or in   *)
(* an event.                                                               *)
Queue == batch \o pending
Current == process = "up" /\ ~exposed
Told(p) == \E i \in DOMAIN Queue : p \in DOMAIN Queue[i] /\ Queue[i][p] = device[p]

\* The box keeps events for the listener in use only; the loop applies a batch before it fetches.
Queued == (pc # "idle" => batch = <<>>) /\ (pending # <<>> => id \in listeners)

\* Nothing is newer than the device.
UpTo(states) == \A p \in DOMAIN states : states[p] <= device[p]
Bounded ==
  /\ UpTo(row) /\ UpTo(setup.seen)
  /\ \A i \in DOMAIN batch : UpTo(batch[i])
  /\ \A i \in DOMAIN pending : UpTo(pending[i])

\* An event that is not the last of a state is followed by it, or older than the inventory.
NewestQueued == Current /\ setup.phase # "read" =>
  \A i \in DOMAIN Queue : \A p \in DOMAIN Queue[i] :
    \/ Queue[i][p] = device[p] \/ Queue[i][p] < setup.seen[p]
    \/ \E j \in DOMAIN Queue : j > i /\ p \in DOMAIN Queue[j] /\ Queue[j][p] = device[p]

\* The inventory read: what it lacks is told, or the row is ahead of it and it will expose
\* it; the events ahead of it come last.
Overtaken == known /\ Ahead(row)
SeenOrTold == Current /\ setup.phase = "write" =>
  \A p \in Part : setup.seen[p] = device[p] \/ Told(p) \/ Overtaken
AheadLast == Current /\ setup.phase = "write" =>
  /\ \A i, j \in DOMAIN Queue : i < j /\ Ahead(Queue[i]) => Ahead(Queue[j])
  /\ Overtaken => \A i \in DOMAIN Queue : Ahead(Queue[i])

\* The inventory written.
RowOrTold == Current /\ setup.phase = "wait" =>
  known /\ \A p \in DOMAIN row : row[p] = device[p] \/ Told(p)

Follows == NewestQueued /\ SeenOrTold /\ AheadLast /\ RowOrTold

LEMMA PartialIs ==
  /\ \A f \in Partial : DOMAIN f \in SUBSET Part /\ \A p \in DOMAIN f : f[p] \in Nat
  /\ \A f \in State : f \in Partial /\ DOMAIN f = Part
<1>1. ASSUME NEW f \in Partial PROVE DOMAIN f \in SUBSET Part /\ \A p \in DOMAIN f : f[p] \in Nat
  <2>1. PICK S \in SUBSET Part : f \in [S -> Nat]
    BY DEF Partial
  <2> QED
    BY <2>1
<1>2. ASSUME NEW f \in State PROVE f \in Partial /\ DOMAIN f = Part
  BY PartialOf DEF State
<1> QED
  BY <1>1, <1>2

(* A sequence with an event more, one with its first event less, and two   *)
(* of them put together.                                                   *)
LEMMA Appended ==
  ASSUME NEW s \in Seq(Partial), NEW e \in Partial
  PROVE  /\ DOMAIN Append(s, e) = DOMAIN s \cup {Len(s) + 1}
         /\ \A i \in DOMAIN s : Append(s, e)[i] = s[i] /\ i < Len(s) + 1 /\ i \in Nat
         /\ Append(s, e)[Len(s) + 1] = e /\ Len(s) + 1 \notin DOMAIN s
  OBVIOUS

LEMMA Popped ==
  ASSUME NEW s \in Seq(Partial), s # <<>>
  PROVE  /\ 1 \in DOMAIN s /\ Head(s) = s[1] /\ Head(s) \in Partial /\ Tail(s) \in Seq(Partial)
         /\ \A i \in DOMAIN Tail(s) : i + 1 \in DOMAIN s /\ Tail(s)[i] = s[i + 1] /\ i \in Nat /\ i >= 1
         /\ \A i \in DOMAIN s : i \in Nat /\ (i = 1 \/ (i - 1 \in DOMAIN Tail(s) /\ Tail(s)[i - 1] = s[i]))
         /\ \A i \in DOMAIN s : i >= 1
  OBVIOUS

LEMMA Joined ==
  ASSUME NEW s \in Seq(Partial), NEW t \in Seq(Partial)
  PROVE  /\ s \o t \in Seq(Partial) /\ <<>> \o t = t /\ s \o <<>> = s
         /\ \A e \in Partial : s \o Append(t, e) = Append(s \o t, e)
         /\ s # <<>> => s \o t # <<>> /\ Head(s \o t) = Head(s) /\ Tail(s \o t) = Tail(s) \o t
<1>1. s \o t \in Seq(Partial) /\ <<>> \o t = t /\ s \o <<>> = s
  OBVIOUS
<1>2. ASSUME NEW e \in Partial PROVE s \o Append(t, e) = Append(s \o t, e)
  OBVIOUS
<1>3. ASSUME s # <<>> PROVE s \o t # <<>> /\ Head(s \o t) = Head(s) /\ Tail(s \o t) = Tail(s) \o t
  BY <1>3
<1> QED
  BY <1>1, <1>2, <1>3

LEMMA QueuedStep ==
  ASSUME Released, Queued, [Next]_vars
  PROVE  Queued'
<1> USE DEF Released, Numbered, Idle, Queued, box, loop, stored, bounds, history, loopOnly, setupOnly
<1>1. CASE \E ps \in (SUBSET Part) \ {{}} : Change(ps)
  BY <1>1 DEF Change
<1>2. CASE Recycle
  BY <1>2 DEF Recycle, Forget
<1>3. CASE Expire
  BY <1>3 DEF Expire, Forget
<1>4. CASE BeginFetch
  BY <1>4 DEF BeginFetch
<1>5. CASE Register
  BY <1>5 DEF Register
<1>6. CASE RegisterUnanswered
  BY <1>6 DEF RegisterUnanswered
<1>7. CASE RegisterRefused
  BY <1>7 DEF RegisterRefused
<1>8. CASE FetchWith
  BY <1>8 DEF FetchWith
<1>9. CASE FetchUnanswered
  BY <1>9 DEF FetchUnanswered
<1>10. CASE Expired
  <2>1. CASE second
    BY <1>10, <2>1 DEF Expired
  <2>2. CASE ~second
    <3>1. batch = <<>> /\ batch' = batch /\ pending' = <<>>
      BY <1>10, <2>2, Zenon DEF Expired
    <3> QED
      BY <3>1
  <2> QED
    BY <2>1, <2>2
<1>11. CASE Unsent
  BY <1>11 DEF Unsent
<1>12. CASE Apply
  BY <1>12 DEF Apply
<1>13. CASE SetupTick
  BY <1>13 DEF SetupTick
<1>14. CASE SetupRead
  BY <1>14 DEF SetupRead
<1>15. CASE SetupWrite
  BY <1>15 DEF SetupWrite
<1>16. CASE SetupFails
  BY <1>16 DEF SetupFails
<1>17. CASE Stop
  BY <1>17 DEF Stop
<1>18. CASE Shutdown
  BY <1>18 DEF Shutdown
<1>19. CASE Crash
  BY <1>19 DEF Crash
<1>20. CASE Boot
  BY <1>20 DEF Boot
<1>22. CASE ApplyFails
  BY <1>22 DEF ApplyFails
<1>21. CASE UNCHANGED vars
  BY <1>21 DEF vars
<1> QED
  BY <1>1, <1>2, <1>3, <1>4, <1>5, <1>6, <1>7, <1>8, <1>9, <1>10, <1>11, <1>12, <1>13, <1>14, <1>15, <1>16, <1>17, <1>18, <1>19, <1>20, <1>21,
     <1>22 DEF Next

LEMMA BoundedStep ==
  ASSUME TypeOK, Bounded, [Next]_vars
  PROVE  Bounded'
<1> USE DEF Bounded, UpTo, box, loop, stored, bounds, history, loopOnly, setupOnly
<1>1. CASE \E ps \in (SUBSET Part) \ {{}} : Change(ps)
  <2> PICK ps \in (SUBSET Part) \ {{}} : Change(ps)
    BY <1>1
  <2> DEFINE e == [p \in ps |-> device[p] + 1]
  <2>1. /\ device \in State /\ setup.seen \in State /\ row \in Partial
        /\ batch \in Seq(Partial) /\ pending \in Seq(Partial)
    BY DEF TypeOK
  <2>2. device' = [p \in Part |-> IF p \in ps THEN device[p] + 1 ELSE device[p]]
    BY DEF Change
  <2>3. \A p \in Part : device[p] \in Nat /\ device'[p] \in Nat /\ device[p] <= device'[p]
    BY <2>1, <2>2 DEF State
  <2>4. \A f \in Partial : UpTo(f) => \A p \in DOMAIN f : f[p] <= device'[p]
    BY <2>3, PartialIs
  <2>5. e \in Partial /\ \A p \in DOMAIN e : e[p] <= device'[p]
    <3>1. e \in [ps -> Nat] /\ DOMAIN e = ps
      BY <2>3
    <3>2. \A p \in ps : e[p] = device'[p]
      BY <2>2
    <3>3. e \in Partial
      BY <3>1, PartialOf
    <3> HIDE DEF e
    <3> QED
      BY <2>3, <3>1, <3>2, <3>3
  <2> HIDE DEF e
  <2>6. UNCHANGED <<row, setup, batch>> /\ (pending' = pending \/ pending' = Append(pending, e))
    BY DEF Change, e
  <2>7. UpTo(row)' /\ UpTo(setup.seen)'
    BY <2>1, <2>4, <2>6, PartialIs
  <2>8. \A i \in DOMAIN batch' : UpTo(batch[i])'
    BY <2>1, <2>4, <2>6
  <2>9. \A i \in DOMAIN pending' : UpTo(pending[i])'
    <3>1. \A i \in DOMAIN pending : pending[i] \in Partial /\ \A p \in DOMAIN pending[i] : pending[i][p] <= device'[p]
      BY <2>1, <2>4
    <3>2. CASE pending' = Append(pending, e)
      <4> SUFFICES ASSUME NEW i \in DOMAIN pending' PROVE \A p \in DOMAIN pending'[i] : pending'[i][p] <= device'[p]
        OBVIOUS
      <4>1. CASE i \in DOMAIN pending
        BY <2>1, <2>5, <3>1, <3>2, <4>1, Appended
      <4>2. CASE i = Len(pending) + 1
        BY <2>1, <2>5, <3>2, <4>2, Appended
      <4> QED
        BY <2>1, <2>5, <3>2, <4>1, <4>2, Appended
    <3> QED
      BY <2>6, <3>1, <3>2
  <2> QED
    BY <2>7, <2>8, <2>9
<1>2. CASE Recycle
  BY <1>2 DEF Recycle, Forget
<1>3. CASE Expire
  BY <1>3 DEF Expire, Forget
<1>4. CASE BeginFetch
  BY <1>4 DEF BeginFetch
<1>5. CASE Register
  BY <1>5 DEF Register
<1>6. CASE RegisterUnanswered
  BY <1>6 DEF RegisterUnanswered
<1>7. CASE RegisterRefused
  BY <1>7 DEF RegisterRefused
<1>8. CASE FetchWith
  BY <1>8 DEF FetchWith
<1>9. CASE FetchUnanswered
  BY <1>9 DEF FetchUnanswered
<1>10. CASE Expired
  <2>1. UNCHANGED <<device, row, setup, batch>> /\ (pending' = pending \/ pending' = <<>>)
    BY <1>10, Zenon DEF Expired
  <2> QED
    BY <2>1
<1>11. CASE Unsent
  BY <1>11 DEF Unsent
<1>12. CASE Apply
  <2>1. batch \in Seq(Partial) /\ batch # <<>>
    BY <1>12 DEF TypeOK, Apply
  <2>2. row' = row \/ row' = batch[1]
    BY <1>12, <2>1, Popped DEF Apply
  <2>3. UNCHANGED <<device, setup, pending>> /\ batch' = Tail(batch)
    BY <1>12 DEF Apply
  <2> QED
    BY <2>1, <2>2, <2>3, Popped
<1>13. CASE SetupTick
  BY <1>13 DEF SetupTick
<1>14. CASE SetupRead
  <2>1. \A p \in Part : device[p] \in Nat
    BY DEF TypeOK, State
  <2>2. DOMAIN device = Part
    BY DEF TypeOK, State
  <2> QED
    BY <1>14, <2>1, <2>2 DEF SetupRead
<1>15. CASE SetupWrite
  BY <1>15 DEF SetupWrite
<1>16. CASE SetupFails
  BY <1>16 DEF SetupFails
<1>17. CASE Stop
  BY <1>17 DEF Stop
<1>18. CASE Shutdown
  BY <1>18 DEF Shutdown
<1>19. CASE Crash
  BY <1>19 DEF Crash
<1>20. CASE Boot
  BY <1>20 DEF Boot
<1>22. CASE ApplyFails
  <2>1. batch \in Seq(Partial) /\ batch # <<>>
    BY <1>22 DEF TypeOK, ApplyFails
  <2>2. UNCHANGED <<device, row, setup, pending>> /\ batch' = Tail(batch)
    BY <1>22 DEF ApplyFails
  <2> QED
    BY <2>1, <2>2, Popped
<1>21. CASE UNCHANGED vars
  BY <1>21 DEF vars
<1> QED
  BY <1>1, <1>2, <1>3, <1>4, <1>5, <1>6, <1>7, <1>8, <1>9, <1>10, <1>11, <1>12, <1>13, <1>14, <1>15, <1>16, <1>17, <1>18, <1>19, <1>20, <1>21,
     <1>22 DEF Next

(* What a step does to the queue, the inventory and the row, when nothing  *)
(* is exposed after it and no inventory is still to be read.               *)
Undisturbed == Current /\ Queue' = Queue /\ UNCHANGED <<device, setup, known, row>>
Reported ==
  /\ Current /\ UNCHANGED <<setup, known, row>>
  /\ \E e \in Partial :
       /\ Queue' = Append(Queue, e) /\ DOMAIN e # {}
       /\ \A p \in DOMAIN e : e[p] = device'[p] /\ device[p] < e[p]
       /\ \A p \in Part \ DOMAIN e : device'[p] = device[p]
Applied ==
  /\ Current /\ known /\ UNCHANGED <<device, setup, known>>
  /\ Queue # <<>> /\ Queue' = Tail(Queue) /\ row' = Head(Queue)
  /\ setup.phase = "wait" => ~Behind(Head(Queue))
Read == Queue' = Queue /\ UNCHANGED <<device, known, row>> /\ setup' = [phase |-> "write", seen |-> device]
Written ==
  /\ Current /\ setup.phase = "write" /\ ~Overtaken
  /\ Queue' = Queue /\ device' = device
  /\ setup' = [setup EXCEPT !.phase = "wait"] /\ known' = TRUE /\ row' = setup.seen

LEMMA Unlost ==
  ASSUME UNCHANGED <<device, setup, known, row, batch, process>>, Lost(pending # <<>>), pending' = <<>>,
         Current', setup'.phase # "read"
  PROVE  Undisturbed
<1>1. setup' = setup /\ ~exposed' /\ process' = "up" /\ process' = process
  BY DEF Current
<1>2. ~exposed /\ ~(pending # <<>>)
  BY <1>1, Zenon DEF Lost
<1> QED
  BY <1>1, <1>2 DEF Undisturbed, Queue, Current

LEMMA Forgotten ==
  ASSUME NEW l \in listeners, Queued, Forget(l), Current', setup'.phase # "read"
  PROVE  Undisturbed
<1>1. setup' = setup /\ ~exposed' /\ process' = "up" /\ process' = process /\ UNCHANGED <<device, known, row, batch>>
  BY DEF Forget, Current, loop, stored
<1>2. Lost(l = id /\ pending # <<>>)
  BY DEF Forget
<1>3. ~exposed /\ ~(l = id /\ pending # <<>>)
  BY <1>1, <1>2, Zenon DEF Lost
<1>4. pending' = pending
  BY <1>3 DEF Forget
<1> QED
  BY <1>1, <1>3, <1>4 DEF Undisturbed, Queue, Current

LEMMA Changed ==
  ASSUME TypeOK, Released, NEW ps \in (SUBSET Part) \ {{}}, Change(ps), Current', setup'.phase # "read"
  PROVE  Reported
<1> DEFINE e == [p \in ps |-> device[p] + 1]
<1>1. setup' = setup /\ ~exposed' /\ process' = "up" /\ process' = process /\ UNCHANGED <<known, row, batch>>
  BY DEF Change, Current, loop, stored
<1>2. Lost(id \notin listeners)
  BY DEF Change
<1>3. ~exposed /\ id \in listeners
  BY <1>1, <1>2, Zenon DEF Lost
<1>4. id # 0
  BY <1>3 DEF Released, Numbered
<1>5. pending' = Append(pending, e)
  BY <1>3, <1>4 DEF Change
<1>6. device' = [p \in Part |-> IF p \in ps THEN device[p] + 1 ELSE device[p]]
  BY DEF Change
<1>7. \A p \in Part : device[p] \in Nat
  BY DEF TypeOK, State
<1>8. DOMAIN e = ps /\ e \in Partial /\ \A p \in ps : e[p] = device[p] + 1
  <2>1. e \in [ps -> Nat]
    BY <1>7
  <2> QED
    BY <2>1, PartialOf
<1> HIDE DEF e
<1>9. \A p \in DOMAIN e : e[p] = device'[p] /\ device[p] < e[p]
  BY <1>6, <1>7, <1>8
<1>10. \A p \in Part \ DOMAIN e : device'[p] = device[p]
  BY <1>6, <1>8
<1>11. Queue' = Append(Queue, e)
  BY <1>1, <1>5, <1>8, Joined DEF Queue, TypeOK
<1>12. DOMAIN e # {}
  BY <1>8
<1> QED
  BY <1>1, <1>3, <1>8, <1>9, <1>10, <1>11, <1>12 DEF Reported, Current

LEMMA StepIs ==
  ASSUME TypeOK, Released, Queued, [Next]_vars, Current', setup'.phase # "read"
  PROVE  Undisturbed \/ Reported \/ Applied \/ Read \/ Written
<1> USE DEF box, loop, stored, bounds, history, loopOnly, setupOnly
<1>1. CASE \E ps \in (SUBSET Part) \ {{}} : Change(ps)
  BY <1>1, Changed
<1>2. CASE Recycle
  <2>1. \E l \in listeners : Forget(l)
    BY <1>2 DEF Recycle, Released, Numbered
  <2> QED
    BY <2>1, Forgotten
<1>3. CASE Expire
  <2>1. \E l \in listeners : Forget(l)
    BY <1>3 DEF Expire
  <2> QED
    BY <2>1, Forgotten
<1>4. CASE BeginFetch
  <2>1. UNCHANGED <<device, setup, known, row, batch, process>> /\ exposed' = exposed /\ pending' = pending
    BY <1>4 DEF BeginFetch
  <2> QED
    BY <2>1 DEF Undisturbed, Queue, Current
<1>5. CASE Register
  <2>1. UNCHANGED <<device, setup, known, row, batch, process>> /\ exposed' = exposed /\ pending' = <<>> /\ id = 0
    BY <1>5 DEF Register, Released, Idle
  <2>2. pending = <<>>
    BY <2>1 DEF Queued, Released, Numbered
  <2> QED
    BY <2>1, <2>2 DEF Undisturbed, Queue, Current
<1>6. CASE RegisterUnanswered
  <2>1. UNCHANGED <<device, setup, known, row, batch, process>> /\ exposed' = exposed /\ pending' = pending
    BY <1>6 DEF RegisterUnanswered
  <2> QED
    BY <2>1 DEF Undisturbed, Queue, Current
<1>7. CASE RegisterRefused
  <2>1. UNCHANGED <<device, setup, known, row, batch, process>> /\ exposed' = exposed /\ pending' = pending
    BY <1>7 DEF RegisterRefused
  <2> QED
    BY <2>1 DEF Undisturbed, Queue, Current
<1>8. CASE FetchWith
  <2>1. UNCHANGED <<device, setup, known, row, process>> /\ exposed' = exposed /\ pending' = <<>> /\ batch' = pending
    BY <1>8 DEF FetchWith
  <2>2. batch = <<>>
    BY <1>8 DEF FetchWith, Queued
  <2> QED
    BY <2>1, <2>2, Joined DEF Undisturbed, Queue, Current, TypeOK
<1>9. CASE FetchUnanswered
  <2>1. UNCHANGED <<device, setup, known, row, batch, process>> /\ Lost(pending # <<>>) /\ pending' = <<>>
    BY <1>9 DEF FetchUnanswered
  <2> QED
    BY <2>1, Unlost
<1>10. CASE Expired
  <2>1. UNCHANGED <<device, setup, known, row, batch, process>>
    BY <1>10, Zenon DEF Expired
  <2>2. CASE second
    <3>1. exposed' = exposed /\ pending' = pending
      BY <1>10, <2>2, Zenon DEF Expired
    <3> QED
      BY <2>1, <3>1 DEF Undisturbed, Queue, Current
  <2>3. CASE ~second
    <3>1. Lost(pending # <<>>) /\ pending' = <<>>
      BY <1>10, <2>3, Zenon DEF Expired
    <3> QED
      BY <2>1, <3>1, Unlost
  <2> QED
    BY <2>2, <2>3
<1>11. CASE Unsent
  <2>1. UNCHANGED <<device, setup, known, row, batch, process>> /\ exposed' = exposed /\ pending' = pending
    BY <1>11 DEF Unsent
  <2> QED
    BY <2>1 DEF Undisturbed, Queue, Current
<1>12. CASE Apply
  <2>1. UNCHANGED <<device, setup, known, pending, process>> /\ batch # <<>> /\ batch' = Tail(batch)
    BY <1>12 DEF Apply
  <2>2. Queue # <<>> /\ Queue' = Tail(Queue) /\ Head(Queue) = Head(batch)
    BY <2>1, Joined DEF Queue, TypeOK
  <2>3. Lost(~known \/ (setup.phase = "wait" /\ Behind(Head(batch))))
    BY <1>12 DEF Apply
  <2>4. ~exposed /\ known /\ ~(setup.phase = "wait" /\ Behind(Head(batch)))
    BY <2>1, <2>3, Zenon DEF Lost, Current
  <2>5. row' = Head(Queue)
    BY <1>12, <2>2, <2>4 DEF Apply
  <2> QED
    BY <2>1, <2>2, <2>4, <2>5 DEF Applied, Current
<1>13. CASE SetupTick
  BY <1>13 DEF SetupTick, TypeOK
<1>14. CASE SetupRead
  <2>1. UNCHANGED <<device, known, row, batch, pending>> /\ setup' = [phase |-> "write", seen |-> device]
    BY <1>14 DEF SetupRead
  <2> QED
    BY <2>1 DEF Read, Queue
<1>15. CASE SetupWrite
  <2>1. /\ UNCHANGED <<device, batch, pending, process>> /\ setup.phase = "write"
        /\ setup' = [setup EXCEPT !.phase = "wait"] /\ known' = TRUE /\ row' = setup.seen
    BY <1>15 DEF SetupWrite
  <2>2. ~exposed /\ ~Overtaken
    BY <1>15, Zenon DEF SetupWrite, Current, Overtaken
  <2> QED
    BY <2>1, <2>2 DEF Written, Queue, Current
<1>16. CASE SetupFails
  BY <1>16, Zenon DEF SetupFails, Current
<1>17. CASE Stop
  BY <1>17 DEF Stop, Current
<1>18. CASE Shutdown
  BY <1>18 DEF Shutdown, Current
<1>19. CASE Crash
  BY <1>19 DEF Crash, Current
<1>20. CASE Boot
  BY <1>20 DEF Boot, TypeOK
<1>22. CASE ApplyFails
  BY <1>22, Zenon DEF ApplyFails, Lost, Current
<1>21. CASE UNCHANGED vars
  BY <1>21 DEF vars, Undisturbed, Queue, Current
<1> QED
  BY <1>1, <1>2, <1>3, <1>4, <1>5, <1>6, <1>7, <1>8, <1>9, <1>10, <1>11, <1>12, <1>13, <1>14, <1>15, <1>16, <1>17, <1>18, <1>19, <1>20, <1>21,
     <1>22 DEF Next

\* What the queue, the inventory and the row are.
LEMMA Kinds ==
  ASSUME TypeOK, Bounded
  PROVE  /\ Queue \in Seq(Partial) /\ device \in State /\ setup.seen \in State /\ row \in Partial
         /\ setup.phase \in {"wait", "read", "write"}
         /\ \A p \in Part : device[p] \in Nat /\ setup.seen[p] \in Nat /\ setup.seen[p] <= device[p]
         /\ \A i \in DOMAIN Queue : Queue[i] \in Partial
         /\ \A i \in DOMAIN Queue : \A p \in DOMAIN Queue[i] :
              p \in Part /\ Queue[i][p] \in Nat /\ Queue[i][p] <= device[p]
         /\ \A p \in DOMAIN row : p \in Part /\ row[p] \in Nat /\ row[p] <= device[p]
<1>1. /\ batch \in Seq(Partial) /\ pending \in Seq(Partial) /\ device \in State /\ setup.seen \in State
      /\ row \in Partial /\ setup.phase \in {"wait", "read", "write"}
  BY DEF TypeOK
<1>2. Queue \in Seq(Partial) /\ \A i \in DOMAIN Queue :
        (i \in DOMAIN batch /\ Queue[i] = batch[i]) \/ \E j \in DOMAIN pending : Queue[i] = pending[j]
  BY <1>1 DEF Queue
<1>3. \A i \in DOMAIN Queue : Queue[i] \in Partial
  BY <1>2
<1>4. \A i \in DOMAIN Queue : UpTo(Queue[i])
  BY <1>2 DEF Bounded
<1>5. \A p \in Part : device[p] \in Nat /\ setup.seen[p] \in Nat /\ setup.seen[p] <= device[p]
  BY <1>1 DEF State, Bounded, UpTo
<1>6. \A i \in DOMAIN Queue : \A p \in DOMAIN Queue[i] :
        p \in Part /\ Queue[i][p] \in Nat /\ Queue[i][p] <= device[p]
  BY <1>3, <1>4, PartialIs DEF UpTo
<1>7. \A p \in DOMAIN row : p \in Part /\ row[p] \in Nat /\ row[p] <= device[p]
  BY <1>1, PartialIs DEF Bounded, UpTo
<1> QED
  BY <1>1, <1>2, <1>3, <1>5, <1>6, <1>7

\* A change: its event comes last in the queue, and tells what changed.
LEMMA ReportedFollows ==
  ASSUME TypeOK, Bounded, Follows, Reported, Current', setup'.phase # "read"
  PROVE  Follows'
<1>1. Current /\ setup.phase # "read" /\ UNCHANGED <<setup, known, row>>
  BY DEF Reported
<1> PICK e \in Partial :
      /\ Queue' = Append(Queue, e) /\ DOMAIN e # {}
      /\ \A p \in DOMAIN e : e[p] = device'[p] /\ device[p] < e[p]
      /\ \A p \in Part \ DOMAIN e : device'[p] = device[p]
  BY DEF Reported
<1> PICK n \in Nat : n = Len(Queue) + 1
  BY Kinds
<1>2. /\ DOMAIN Queue' = DOMAIN Queue \cup {n} /\ Queue'[n] = e /\ n \notin DOMAIN Queue
      /\ \A i \in DOMAIN Queue : Queue'[i] = Queue[i] /\ i < n /\ i \in Nat
  BY Kinds, Appended
<1>3. \A p \in DOMAIN e : Told(p)'
  BY <1>2 DEF Told
<1>4. \A p \in Part : Told(p) => Told(p)'
  BY <1>2, <1>3, Kinds DEF Told
<1>5. NewestQueued'
  <2> SUFFICES ASSUME NEW i \in DOMAIN Queue', NEW p \in DOMAIN Queue'[i]
               PROVE  \/ Queue'[i][p] = device'[p] \/ Queue'[i][p] < setup'.seen[p]
                      \/ \E j \in DOMAIN Queue' : j > i /\ p \in DOMAIN Queue'[j] /\ Queue'[j][p] = device'[p]
    BY DEF NewestQueued
  <2>1. CASE i = n
    BY <1>2, <2>1
  <2>2. CASE i \in DOMAIN Queue /\ p \in DOMAIN e
    BY <1>2, <2>2
  <2>3. CASE i \in DOMAIN Queue /\ p \notin DOMAIN e
    <3>1. p \in DOMAIN Queue[i] /\ device'[p] = device[p]
      BY <1>2, <2>3, Kinds
    <3> QED
      BY <1>1, <1>2, <2>3, <3>1 DEF Follows, NewestQueued
  <2> QED
    BY <1>2, <2>1, <2>2, <2>3
<1>6. SeenOrTold'
  <2> SUFFICES ASSUME setup'.phase = "write", NEW p \in Part
               PROVE  setup'.seen[p] = device'[p] \/ Told(p)' \/ Overtaken'
    BY DEF SeenOrTold
  <2>1. setup.seen[p] = device[p] \/ Told(p) \/ Overtaken
    BY <1>1 DEF Follows, SeenOrTold
  <2>2. Overtaken => Overtaken'
    BY <1>1 DEF Overtaken, Ahead
  <2> QED
    BY <1>1, <1>3, <1>4, <2>1, <2>2
<1>7. AheadLast'
  <2> SUFFICES ASSUME setup'.phase = "write"
               PROVE  /\ \A i, j \in DOMAIN Queue' : i < j /\ Ahead(Queue[i])' => Ahead(Queue[j])'
                      /\ Overtaken' => \A i \in DOMAIN Queue' : Ahead(Queue[i])'
    BY DEF AheadLast
  <2>1. Ahead(Queue[n])'
    <3>1. PICK p \in DOMAIN e : device[p] < e[p]
      OBVIOUS
    <3>2. p \in Part /\ e[p] \in Nat
      BY PartialIs
    <3>3. setup'.seen[p] < e[p]
      BY <1>1, <3>1, <3>2, Kinds
    <3> QED
      BY <1>2, <3>3 DEF Ahead
  <2>2. \A i \in DOMAIN Queue : Ahead(Queue[i])' <=> Ahead(Queue[i])
    BY <1>1, <1>2 DEF Ahead
  <2>3. Overtaken' => Overtaken
    BY <1>1 DEF Overtaken, Ahead
  <2>4. AheadLast /\ setup.phase = "write"
    BY <1>1 DEF Follows
  <2>5. ASSUME NEW i \in DOMAIN Queue', NEW j \in DOMAIN Queue', i < j, Ahead(Queue[i])' PROVE Ahead(Queue[j])'
    <3>1. CASE j = n
      BY <2>1, <3>1 DEF Ahead
    <3>2. CASE j # n
      BY <1>1, <1>2, <2>2, <2>4, <2>5, <3>2 DEF AheadLast
    <3> QED
      BY <3>1, <3>2
  <2>6. ASSUME Overtaken', NEW i \in DOMAIN Queue' PROVE Ahead(Queue[i])'
    <3>1. CASE i = n
      BY <2>1, <3>1 DEF Ahead
    <3>2. CASE i # n
      BY <1>1, <1>2, <2>2, <2>3, <2>4, <2>6, <3>2 DEF AheadLast
    <3> QED
      BY <3>1, <3>2
  <2> QED
    BY <2>5, <2>6
<1>8. RowOrTold'
  <2> SUFFICES ASSUME setup'.phase = "wait"
               PROVE  known' /\ \A p \in DOMAIN row' : row'[p] = device'[p] \/ Told(p)'
    BY DEF RowOrTold
  <2>1. known /\ \A p \in DOMAIN row : row[p] = device[p] \/ Told(p)
    BY <1>1 DEF Follows, RowOrTold
  <2> QED
    BY <1>1, <1>3, <1>4, <2>1, Kinds
<1> QED
  BY <1>5, <1>6, <1>7, <1>8 DEF Follows

\* An event applied: what it alone told is in the row, which is then ahead of an older
\* inventory; nothing that follows it is told by it.
LEMMA AppliedFollows ==
  ASSUME TypeOK, Bounded, Follows, Applied, Current', setup'.phase # "read"
  PROVE  Follows'
<1>1. /\ Current /\ setup.phase # "read" /\ UNCHANGED <<device, setup, known>> /\ known
      /\ Queue # <<>> /\ Queue' = Tail(Queue) /\ row' = Head(Queue)
      /\ setup.phase = "wait" => ~Behind(Head(Queue))
  BY DEF Applied
<1>2. /\ 1 \in DOMAIN Queue /\ row' = Queue[1]
      /\ \A i \in DOMAIN Queue' : i + 1 \in DOMAIN Queue /\ Queue'[i] = Queue[i + 1] /\ i \in Nat /\ i >= 1
      /\ \A i \in DOMAIN Queue : i \in Nat /\ (i = 1 \/ (i - 1 \in DOMAIN Queue' /\ Queue'[i - 1] = Queue[i]))
      /\ \A i \in DOMAIN Queue : i >= 1
  BY <1>1, Kinds, Popped
<1>3. \A p \in Part : Told(p) => Told(p)' \/ (p \in DOMAIN row' /\ row'[p] = device[p])
  BY <1>1, <1>2 DEF Told
<1>4. NewestQueued'
  <2> SUFFICES ASSUME NEW i \in DOMAIN Queue', NEW p \in DOMAIN Queue'[i]
               PROVE  \/ Queue'[i][p] = device'[p] \/ Queue'[i][p] < setup'.seen[p]
                      \/ \E j \in DOMAIN Queue' : j > i /\ p \in DOMAIN Queue'[j] /\ Queue'[j][p] = device'[p]
    BY DEF NewestQueued
  <2>1. CASE \E j \in DOMAIN Queue : j > i + 1 /\ p \in DOMAIN Queue[j] /\ Queue[j][p] = device[p]
    <3> PICK j \in DOMAIN Queue : j > i + 1 /\ p \in DOMAIN Queue[j] /\ Queue[j][p] = device[p]
      BY <2>1
    <3>1. j - 1 \in DOMAIN Queue' /\ Queue'[j - 1] = Queue[j] /\ j - 1 > i
      BY <1>2
    <3> QED
      BY <1>1, <3>1
  <2>2. CASE Queue[i + 1][p] = device[p] \/ Queue[i + 1][p] < setup.seen[p]
    BY <1>1, <1>2, <2>2
  <2> QED
    BY <1>1, <1>2, <2>1, <2>2 DEF Follows, NewestQueued
<1>5. SeenOrTold' /\ AheadLast'
  <2> SUFFICES ASSUME setup'.phase = "write"
               PROVE  /\ \A p \in Part : setup'.seen[p] = device'[p] \/ Told(p)' \/ Overtaken'
                      /\ \A i, j \in DOMAIN Queue' : i < j /\ Ahead(Queue[i])' => Ahead(Queue[j])'
                      /\ Overtaken' => \A i \in DOMAIN Queue' : Ahead(Queue[i])'
    BY DEF SeenOrTold, AheadLast
  <2>1. AheadLast /\ SeenOrTold /\ setup.phase = "write"
    BY <1>1 DEF Follows
  <2>2. Overtaken' <=> Ahead(Queue[1])
    BY <1>1, <1>2 DEF Overtaken, Ahead
  <2>3. \A i \in DOMAIN Queue' : Ahead(Queue[i])' <=> Ahead(Queue[i + 1])
    BY <1>1, <1>2 DEF Ahead
  <2>4. ASSUME NEW p \in Part PROVE setup'.seen[p] = device'[p] \/ Told(p)' \/ Overtaken'
    <3>1. CASE Overtaken
      BY <1>1, <1>2, <2>1, <2>2, <3>1 DEF AheadLast
    <3>2. CASE p \in DOMAIN row' /\ row'[p] = device[p]
      <4>1. setup.seen[p] = device[p] \/ setup.seen[p] < row'[p]
        BY <3>2, Kinds
      <4> QED
        BY <1>1, <1>2, <2>2, <3>2, <4>1 DEF Ahead
    <3> QED
      BY <1>1, <1>3, <2>1, <3>1, <3>2 DEF SeenOrTold
  <2>5. ASSUME NEW i \in DOMAIN Queue', NEW j \in DOMAIN Queue', i < j, Ahead(Queue[i])' PROVE Ahead(Queue[j])'
    <3>1. i + 1 \in DOMAIN Queue /\ j + 1 \in DOMAIN Queue /\ i + 1 < j + 1
      BY <1>2, <2>5
    <3> QED
      BY <1>1, <2>1, <2>3, <2>5, <3>1 DEF AheadLast
  <2>6. ASSUME Overtaken', NEW i \in DOMAIN Queue' PROVE Ahead(Queue[i])'
    <3>1. 1 \in DOMAIN Queue /\ i + 1 \in DOMAIN Queue /\ 1 < i + 1
      BY <1>2
    <3> QED
      BY <1>1, <2>1, <2>2, <2>3, <2>6, <3>1 DEF AheadLast
  <2> QED
    BY <2>4, <2>5, <2>6
<1>6. RowOrTold'
  <2> SUFFICES ASSUME setup'.phase = "wait", NEW p \in DOMAIN row' PROVE row'[p] = device'[p] \/ Told(p)'
    BY <1>1 DEF RowOrTold
  <2>1. p \in Part /\ row'[p] \in Nat /\ ~(row'[p] < setup.seen[p])
    BY <1>1, <1>2, Kinds DEF Behind
  <2>2. CASE \E j \in DOMAIN Queue : j > 1 /\ p \in DOMAIN Queue[j] /\ Queue[j][p] = device[p]
    <3> PICK j \in DOMAIN Queue : j > 1 /\ p \in DOMAIN Queue[j] /\ Queue[j][p] = device[p]
      BY <2>2
    <3>1. j - 1 \in DOMAIN Queue' /\ Queue'[j - 1] = Queue[j]
      BY <1>2
    <3> QED
      BY <1>1, <3>1 DEF Told
  <2> QED
    BY <1>1, <1>2, <2>1, <2>2 DEF Follows, NewestQueued
<1> QED
  BY <1>4, <1>5, <1>6 DEF Follows

\* The inventory read is the device's: nothing is ahead of it.
LEMMA ReadFollows ==
  ASSUME TypeOK, Bounded, Read
  PROVE  Follows'
<1>1. /\ Queue' = Queue /\ UNCHANGED <<device, known, row>>
      /\ setup'.phase = "write" /\ setup'.seen = device
  BY DEF Read
<1>2. NewestQueued'
  BY <1>1, Kinds DEF NewestQueued
<1>3. SeenOrTold'
  BY <1>1 DEF SeenOrTold
<1>4. (\A i \in DOMAIN Queue' : ~Ahead(Queue[i])') /\ ~Overtaken'
  BY <1>1, Kinds DEF Ahead, Overtaken
<1>5. AheadLast'
  BY <1>4 DEF AheadLast
<1>6. RowOrTold'
  BY <1>1 DEF RowOrTold
<1> QED
  BY <1>2, <1>3, <1>5, <1>6 DEF Follows

\* The inventory written is the row: what it lacks is told.
LEMMA WrittenFollows ==
  ASSUME TypeOK, Bounded, Follows, Written
  PROVE  Follows'
<1>1. /\ Current /\ setup.phase = "write" /\ ~Overtaken /\ Queue' = Queue /\ device' = device
      /\ known' = TRUE /\ row' = setup.seen
  BY DEF Written
<1>2. setup'.phase = "wait" /\ setup'.seen = setup.seen
  BY DEF Written, TypeOK
<1>3. NewestQueued'
  BY <1>1, <1>2 DEF Follows, NewestQueued
<1>4. SeenOrTold' /\ AheadLast'
  BY <1>2 DEF SeenOrTold, AheadLast
<1>5. RowOrTold'
  BY <1>1, Kinds, PartialIs DEF Follows, SeenOrTold, RowOrTold, Told
<1> QED
  BY <1>3, <1>4, <1>5 DEF Follows

LEMMA FollowsStep ==
  ASSUME TypeOK, TypeOK', Released, Queued, Bounded, Follows, [Next]_vars
  PROVE  Follows'
<1>1. CASE ~(Current' /\ setup'.phase # "read")
  BY <1>1 DEF Follows, NewestQueued, SeenOrTold, AheadLast, RowOrTold
<1>2. CASE Current' /\ setup'.phase # "read"
  <2>1. CASE Undisturbed
    <3>1. Current /\ Queue' = Queue /\ UNCHANGED <<device, setup, known, row>>
      BY <2>1 DEF Undisturbed
    <3> QED
      BY <3>1 DEF Follows, NewestQueued, SeenOrTold, AheadLast, RowOrTold, Told, Overtaken, Ahead
  <2>2. CASE Reported
    BY <1>2, <2>2, ReportedFollows
  <2>3. CASE Applied
    BY <1>2, <2>3, AppliedFollows
  <2>4. CASE Read
    BY <2>4, ReadFollows
  <2>5. CASE Written
    BY <2>5, WrittenFollows
  <2> QED
    BY <1>2, <2>1, <2>2, <2>3, <2>4, <2>5, StepIs
<1> QED
  BY <1>1, <1>2

-----------------------------------------------------------------------------
AInv == IInv /\ Queued /\ Bounded /\ Follows

LEMMA InitAccurate == Init => AInv
<1> SUFFICES ASSUME Init PROVE AInv
  OBVIOUS
<1>1. IInv
  BY InitHolds
<1>2. Queued
  BY DEF Init, Queued
<1>3. Bounded
  BY DEF Init, Bounded, UpTo, Zero
<1>4. Follows
  BY DEF Init, Follows, NewestQueued, SeenOrTold, AheadLast, RowOrTold
<1> QED
  BY <1>1, <1>2, <1>3, <1>4 DEF AInv

LEMMA StepAccurate == AInv /\ [Next]_vars => AInv'
<1> SUFFICES ASSUME AInv, [Next]_vars PROVE AInv'
  OBVIOUS
<1>1. IInv'
  BY StepHolds DEF AInv
<1>2. Queued' /\ Bounded'
  BY QueuedStep, BoundedStep DEF AInv, IInv
<1>3. Follows'
  BY <1>1, FollowsStep DEF AInv, IInv
<1> QED
  BY <1>1, <1>2, <1>3 DEF AInv

\* When nothing is under way, each state the row has is the box's, unless since the last
\* inventory was read an event was lost (a write that fails loses one), dropped or overwritten
\* by it, or one older than it was applied after it (poller.go applyEvents and runTahomaSetup, store UpdateDeviceState).
THEOREM AccurateWhenQuiet == Spec => []QuietIsAccurate
<1>1. AInv => QuietIsAccurate
  <2> SUFFICES ASSUME AInv, Quiet, ~exposed PROVE known /\ \A p \in DOMAIN row : row[p] = device[p]
    BY DEF QuietIsAccurate
  <2>1. Queue = <<>> /\ Current /\ setup.phase = "wait"
    BY DEF Quiet, Queue, Current
  <2>2. \A p \in Part : ~Told(p)
    BY <2>1 DEF Told
  <2> QED
    BY <2>1, <2>2, Kinds DEF AInv, IInv, Follows, RowOrTold
<1> QED
  BY <1>1, InitAccurate, StepAccurate, PTL DEF Spec
=============================================================================
