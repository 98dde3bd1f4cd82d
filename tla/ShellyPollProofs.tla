-------------------------- MODULE ShellyPollProofs --------------------------
(***************************************************************************)
(* The rows of the Shelly modules are mirrors that never go back, and a    *)
(* module that did not answer is not shown reachable, for any modules and  *)
(* any number of switches, faults and restarts.                            *)
(*                                                                         *)
(* The first is a refinement: a poll reads a module between two writes of  *)
(* its row, and no other loop writes it.  The second follows each module   *)
(* met through the poll: to ask, read, to mark, or marked.                 *)
(***************************************************************************)
EXTENDS ShellyPoll, TLAPS

\* What was read of a module is between its row and the module.
Between == \A m \in Module :
  /\ row[m].value <= value[m]
  /\ m \in poll.read => row[m].value <= poll.seen[m] /\ poll.seen[m] <= value[m]

\* Where the poll stands with each module the client has met.
Followed ==
  /\ poll.phase # "fetch" => poll.ask = {}
  /\ poll.phase = "fetch" => modules \subseteq poll.ask \cup poll.read \cup poll.mark
  /\ poll.phase = "mark" =>
       \A m \in modules \ poll.read : m \in poll.mark \/ ~row[m].reachable

IInv == TypeOK /\ Between /\ Followed /\ ReachableAnswered

LEMMA RestingType ==
  /\ Resting \in PollState
  /\ [Resting EXCEPT !.phase = "fetch", !.ask = Module] \in PollState
<1>1. [m \in Module |-> 0] \in [Module -> Nat]
  OBVIOUS
<1> QED
  BY <1>1 DEF Resting, PollState, Phase

LEMMA InitHolds == Init => IInv
<1> SUFFICES ASSUME Init PROVE IInv
  OBVIOUS
<1>1. TypeOK
  <2>1. row \in [Module -> RowState]
    <3>1. \A k \in BOOLEAN : [value |-> 0, reachable |-> k, known |-> k] \in RowState
      BY DEF RowState
    <3> QED
      BY <3>1 DEF Init
  <2>2. poll \in PollState
    BY RestingType DEF Init
  <2>3. value \in [Module -> Nat] /\ up \in [Module -> BOOLEAN] /\ nudge \in BOOLEAN /\ answered \in BOOLEAN
    BY DEF Init
  <2> QED
    BY <2>1, <2>2, <2>3 DEF Init, TypeOK
<1>2. Between /\ Followed /\ ReachableAnswered
  BY DEF Init, Between, Followed, ReachableAnswered, Resting
<1> QED
  BY <1>1, <1>2 DEF IInv

-----------------------------------------------------------------------------
(* The types. *)
LEMMA TypeStep ==
  ASSUME TypeOK, [Next]_vars
  PROVE  TypeOK'
<1> USE DEF TypeOK, world
<1>1. ASSUME NEW m \in Module, ByHand(m) \/ Execute(m) PROVE TypeOK'
  <2>1. value' \in [Module -> Nat] /\ switches' \in Nat
    BY <1>1 DEF ByHand, Execute, Switch
  <2>2. answered' \in BOOLEAN
    BY <1>1 DEF ByHand, Execute
  <2>3. UNCHANGED <<up, modules, poll, nudge, row, silent, faults>>
    BY <1>1 DEF ByHand, Execute, Switch
  <2> QED
    BY <2>1, <2>2, <2>3
<1>2. ASSUME NEW m \in Module, Unplugged(m) \/ Plugged(m) PROVE TypeOK'
  <2>1. up' \in [Module -> BOOLEAN]
    BY <1>2 DEF Unplugged, Plugged
  <2>2. faults' \in Nat
    BY <1>2 DEF Unplugged, Plugged
  <2>3. UNCHANGED <<value, switches, modules, poll, nudge, answered, row, silent>>
    BY <1>2 DEF Unplugged, Plugged
  <2> QED
    BY <2>1, <2>2, <2>3
<1>3. CASE CommandDone
  BY <1>3 DEF CommandDone
<1>4. CASE Tick \/ Nudged
  <2>1. poll' \in PollState
    BY <1>4, RestingType DEF Tick, Nudged, Begin
  <2> QED
    BY <1>4, <2>1 DEF Tick, Nudged, Begin
<1>5. ASSUME NEW m \in Module, FetchHost(m) PROVE TypeOK'
  <2>1. poll' \in PollState
    BY <1>5 DEF FetchHost, PollState
  <2> QED
    BY <1>5, <2>1 DEF FetchHost
<1>6. ASSUME NEW m \in Module, FetchHostFails(m) PROVE TypeOK'
  <2>1. poll' \in PollState
    BY <1>6 DEF FetchHostFails, PollState
  <2> QED
    BY <1>6, <2>1 DEF FetchHostFails
<1>7. CASE Upsert
  <2>1. poll' \in PollState
    BY <1>7 DEF Upsert, PollState, Phase
  <2>2. row' \in [Module -> RowState]
    BY <1>7 DEF Upsert, PollState, RowState
  <2> QED
    BY <1>7, <2>1, <2>2 DEF Upsert
<1>8. ASSUME NEW m \in Module, MarkUnreachable(m) PROVE TypeOK'
  <2>1. poll' \in PollState
    BY <1>8 DEF MarkUnreachable, PollState
  <2>2. row' \in [Module -> RowState]
    BY <1>8 DEF MarkUnreachable, RowState
  <2> QED
    BY <1>8, <2>1, <2>2 DEF MarkUnreachable
<1>9. CASE End \/ WriteFails
  BY <1>9, RestingType DEF End, WriteFails
<1>10. CASE Restart
  <2>1. poll' \in PollState
    BY <1>10, RestingType DEF Restart
  <2>2. nudge' \in BOOLEAN /\ answered' \in BOOLEAN
    BY <1>10 DEF Restart
  <2>3. modules' \subseteq Module /\ faults' \in Nat /\ UNCHANGED <<value, up, switches, row, silent>>
    BY <1>10 DEF Restart
  <2> QED
    BY <2>1, <2>2, <2>3
<1>11. CASE UNCHANGED vars
  BY <1>11 DEF vars
<1> QED
  BY <1>1, <1>2, <1>3, <1>4, <1>5, <1>6, <1>7, <1>8, <1>9, <1>10, <1>11 DEF Next, Poll

-----------------------------------------------------------------------------
(* Every step leaves the rows between what they were and the modules.      *)
LEMMA BetweenStep ==
  ASSUME TypeOK, TypeOK', Between, [Next]_vars
  PROVE  Between'
<1> USE DEF TypeOK, Between, world, PollState, RowState
<1>1. ASSUME NEW m \in Module, ByHand(m) \/ Execute(m) PROVE Between'
  <2>1. \A n \in Module : value[n] <= value'[n]
    BY <1>1 DEF ByHand, Execute, Switch
  <2> QED
    BY <1>1, <2>1 DEF ByHand, Execute, Switch
<1>2. ASSUME NEW m \in Module, Unplugged(m) \/ Plugged(m) PROVE Between'
  BY <1>2 DEF Unplugged, Plugged
<1>3. CASE CommandDone
  BY <1>3 DEF CommandDone
<1>4. CASE Tick \/ Nudged
  BY <1>4 DEF Tick, Nudged, Begin, Resting
<1>5. ASSUME NEW m \in Module, FetchHost(m) PROVE Between'
  BY <1>5 DEF FetchHost
<1>6. ASSUME NEW m \in Module, FetchHostFails(m) PROVE Between'
  BY <1>6 DEF FetchHostFails
<1>7. CASE Upsert
  BY <1>7 DEF Upsert
<1>8. ASSUME NEW m \in Module, MarkUnreachable(m) PROVE Between'
  BY <1>8 DEF MarkUnreachable
<1>9. CASE End \/ WriteFails
  BY <1>9 DEF End, WriteFails, Resting
<1>10. CASE Restart
  BY <1>10 DEF Restart, Resting
<1>11. CASE UNCHANGED vars
  BY <1>11 DEF vars
<1> QED
  BY <1>1, <1>2, <1>3, <1>4, <1>5, <1>6, <1>7, <1>8, <1>9, <1>10, <1>11 DEF Next, Poll

-----------------------------------------------------------------------------
(* Every step keeps track of each module met.                              *)
LEMMA FollowedStep ==
  ASSUME TypeOK, Followed, ReachableAnswered, [Next]_vars
  PROVE  Followed' /\ ReachableAnswered'
<1> USE DEF TypeOK, Followed, ReachableAnswered, world, PollState, RowState, Phase
<1>1. ASSUME NEW m \in Module, ByHand(m) \/ Execute(m) PROVE Followed' /\ ReachableAnswered'
  BY <1>1 DEF ByHand, Execute, Switch
<1>2. ASSUME NEW m \in Module, Unplugged(m) \/ Plugged(m) PROVE Followed' /\ ReachableAnswered'
  BY <1>2 DEF Unplugged, Plugged
<1>3. CASE CommandDone
  BY <1>3 DEF CommandDone
<1>4. CASE Tick \/ Nudged
  <2>1. poll'.phase = "fetch" /\ poll'.ask = Module /\ UNCHANGED modules
    BY <1>4 DEF Tick, Nudged, Begin, Resting
  <2> QED
    BY <2>1
<1>5. ASSUME NEW m \in Module, FetchHost(m) PROVE Followed' /\ ReachableAnswered'
  BY <1>5 DEF FetchHost
<1>6. ASSUME NEW m \in Module, FetchHostFails(m) PROVE Followed' /\ ReachableAnswered'
  BY <1>6 DEF FetchHostFails
<1>7. CASE Upsert
  BY <1>7 DEF Upsert
<1>8. ASSUME NEW m \in Module, MarkUnreachable(m) PROVE Followed' /\ ReachableAnswered'
  BY <1>8 DEF MarkUnreachable
<1>9. CASE End
  BY <1>9 DEF End, Resting
<1>10. CASE WriteFails
  BY <1>10 DEF WriteFails, Resting
<1>11. CASE Restart
  BY <1>11 DEF Restart, Resting
<1>12. CASE UNCHANGED vars
  BY <1>12 DEF vars
<1> QED
  BY <1>1, <1>2, <1>3, <1>4, <1>5, <1>6, <1>7, <1>8, <1>9, <1>10, <1>11, <1>12 DEF Next, Poll

LEMMA Invariance == Spec => []IInv
<1>1. IInv /\ [Next]_vars => IInv'
  BY TypeStep, BetweenStep, FollowedStep DEF IInv
<1> QED
  BY InitHolds, <1>1, PTL DEF Spec

-----------------------------------------------------------------------------
\* The state of the poll, of the client and of the rows stays in its types.
THEOREM TypeCorrect == Spec => []TypeOK
<1>1. IInv => TypeOK
  BY DEF IInv
<1> QED
  BY <1>1, Invariance, PTL

\* A module that did not answer the last poll is not shown reachable (refreshShelly,
\* MarkUnreachable), whatever falls silent, comes back or fails meanwhile.
THEOREM SilentIsUnreachable == Spec => []ReachableAnswered
<1>1. IInv => ReachableAnswered
  BY DEF IInv
<1> QED
  BY <1>1, Invariance, PTL

-----------------------------------------------------------------------------
(* The refinement: a write of the rows is a Copy, a switch is a Change, and *)
(* every other step leaves the modules' channels and their rows alone.     *)
Values == [m \in Module |-> row[m].value]

LEMMA StepMirrors ==
  ASSUME IInv, IInv', [Next]_vars
  PROVE  [Rows!Next]_(Rows!vars)
<1> USE DEF IInv, TypeOK, world, RowState, PollState
<1>1. ASSUME UNCHANGED <<value, row>> PROVE [Rows!Next]_(Rows!vars)
  BY <1>1 DEF Rows!vars
<1>2. ASSUME NEW m \in Module, ByHand(m) \/ Execute(m) PROVE [Rows!Next]_(Rows!vars)
  <2>1. value' = [value EXCEPT ![m] = @ + 1] /\ row' = row
    BY <1>2 DEF ByHand, Execute, Switch
  <2> QED
    BY <2>1 DEF Rows!Next, Rows!Change
<1>3. CASE Upsert
  <2>1. value' = value /\ Values' \in [Module -> Nat]
    BY <1>3 DEF Upsert, Values
  <2>2. \A m \in Module : Values[m] <= Values'[m] /\ Values'[m] <= value[m]
    BY <1>3 DEF Upsert, Values, Between
  <2> QED
    BY <2>1, <2>2 DEF Rows!Next, Rows!Copy, Values
<1>4. ASSUME NEW m \in Module, MarkUnreachable(m) PROVE [Rows!Next]_(Rows!vars)
  <2>1. value' = value /\ \A n \in Module : row'[n].value = row[n].value
    BY <1>4 DEF MarkUnreachable
  <2> QED
    BY <2>1 DEF Rows!vars
<1>5. CASE \/ CommandDone \/ Tick \/ Nudged \/ End \/ WriteFails \/ Restart \/ UNCHANGED vars
         \/ \E m \in Module : Unplugged(m) \/ Plugged(m) \/ FetchHost(m) \/ FetchHostFails(m)
  <2>1. UNCHANGED <<value, row>>
    BY <1>5 DEF CommandDone, Tick, Nudged, Begin, End, WriteFails, Restart, vars, Unplugged, Plugged,
                FetchHost, FetchHostFails
  <2> QED
    BY <2>1, <1>1
<1> QED
  BY <1>2, <1>3, <1>4, <1>5 DEF Next, Poll

\* Whatever the interleaving of polls, switches and restarts, the rows implement Mirror:
\* each lags behind its module and never goes back (runShelly is their only writer).
THEOREM RowsAreMirrors == Spec => RowsMirror
<1>1. Init => Rows!Init
  BY DEF Init, Rows!Init
<1>2. IInv /\ IInv' /\ [Next]_vars => [Rows!Next]_(Rows!vars)
  BY StepMirrors
<1> QED
  BY <1>1, <1>2, Invariance, PTL DEF Spec, RowsMirror, Rows!Spec
=============================================================================
