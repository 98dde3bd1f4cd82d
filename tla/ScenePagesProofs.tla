--------------------------- MODULE ScenePagesProofs ---------------------------
(***************************************************************************)
(* Proofs about the two pages of the scenes: the editor and its preview    *)
(* (SceneEditor, over the resolution of SceneTargets), and the list with   *)
(* its order (SceneTabs).  The loops of resolve.go, and the filter of the  *)
(* store, are reasoned about by LoopIs and UpTo: a loop has a course, and  *)
(* what holds at first and is kept by each turn holds after all of them.   *)
(***************************************************************************)
EXTENDS SceneEditor, SceneTabs, SequenceTheorems, FiniteSetTheorems, WellFoundedInduction, TLAPS

(* The least and the greatest of a bounded set of numbers.                 *)
LessThan == {ss \in Nat \X Nat : ss[1] < ss[2]}

LEMMA LessThanIsWellFounded == IsWellFoundedOn(LessThan, Nat)
  BY NatLessThanWellFounded, Zenon DEF OpToRel, LessThan

LEMMA SmallestOf ==
  ASSUME NEW S \in SUBSET Nat, S # {}
  PROVE  \E x \in S : \A y \in S : x <= y
<1>1. PICK x \in S : \A y \in S : ~(<<y, x>> \in LessThan)
  BY WFMin, LessThanIsWellFounded
<1>2. ASSUME NEW y \in S
      PROVE  x <= y
  <2>1. x \in Nat /\ y \in Nat
    OBVIOUS
  <2>2. ~(y < x)
    <3>1. <<y, x>> \in Nat \X Nat
      BY <2>1
    <3>2. <<y, x>>[1] = y /\ <<y, x>>[2] = x
      OBVIOUS
    <3> QED
      BY <1>1, <3>1, <3>2, Zenon DEF LessThan
  <2> QED
    BY <2>1, <2>2
<1> QED
  BY <1>2


\* What holds at first and is kept by each of n steps holds after each of them.
LEMMA UpTo ==
  ASSUME NEW n \in Nat, NEW P \in SUBSET (0 .. n), 0 \in P,
         \A i \in 1 .. n : i - 1 \in P => i \in P
  PROVE  \A i \in 0 .. n : i \in P
<1> DEFINE Left == (0 .. n) \ P
<1> SUFFICES ASSUME Left # {} PROVE FALSE
  OBVIOUS
<1>1. PICK i \in Left : \A j \in Left : i <= j
  <2>1. Left \in SUBSET Nat
    OBVIOUS
  <2> HIDE DEF Left
  <2> QED
    BY <2>1, SmallestOf
<1>2. i \in 1 .. n /\ i - 1 \in 0 .. n
  BY <1>1
<1>3. i - 1 \notin Left
  BY <1>1, <1>2
<1> QED
  BY <1>1, <1>2, <1>3

\* A loop of n turns has a course: what it holds after each of them.
Loops(S, n) == [1 .. n -> [S -> S]]
IsCourse(f, S, n, first, Turn) ==
  f \in [0 .. n -> S] /\ f[0] = first /\ \A i \in 1 .. n : f[i] = Turn[i][f[i - 1]]

LEMMA LoopIs ==
  ASSUME NEW S, NEW n \in Nat, NEW first \in S, NEW Turn \in Loops(S, n)
  PROVE  \E f : IsCourse(f, S, n, first, Turn)
<1>0. Turn \in [1 .. n -> [S -> S]]
  BY DEF Loops
<1> DEFINE Course(k, f) == f[0] = first /\ \A i \in 1 .. k : f[i] = Turn[i][f[i - 1]]
           P == {k \in 0 .. n : \E f \in [0 .. k -> S] : Course(k, f)}
<1>1. 0 \in P
  <2>1. [i \in 0 .. 0 |-> first] \in [0 .. 0 -> S] /\ Course(0, [i \in 0 .. 0 |-> first])
    OBVIOUS
  <2>2. \E f \in [0 .. 0 -> S] : Course(0, f)
    BY <2>1
  <2> HIDE DEF Course
  <2> QED
    BY <2>2
<1>2. ASSUME NEW k \in 1 .. n, k - 1 \in P PROVE k \in P
  <2>1. PICK f \in [0 .. (k - 1) -> S] : Course(k - 1, f)
    BY <1>2
  <2>2. k - 1 \in 0 .. (k - 1) /\ f[k - 1] \in S /\ Turn[k][f[k - 1]] \in S
    BY <1>0
  <2> DEFINE g == [i \in 0 .. k |-> IF i = k THEN Turn[k][f[k - 1]] ELSE f[i]]
  <2>3. g \in [0 .. k -> S]
    <3>1. \A i \in 0 .. k : i # k => i \in 0 .. (k - 1)
      OBVIOUS
    <3> QED
      BY <2>2, <3>1
  <2>4. Course(k, g)
    <3>1. g[0] = first
      BY <2>1
    <3>2. ASSUME NEW i \in 1 .. k PROVE g[i] = Turn[i][g[i - 1]]
      <4>1. g[i - 1] = f[i - 1]
        OBVIOUS
      <4>2. CASE i = k
        BY <4>1, <4>2
      <4>3. CASE i # k
        <5>1. i \in 1 .. (k - 1) /\ g[i] = f[i]
          BY <4>3
        <5> QED
          BY <4>1, <5>1, <2>1
      <4> QED
        BY <4>2, <4>3
    <3> QED
      BY <3>1, <3>2
  <2>5. \E h \in [0 .. k -> S] : Course(k, h)
    BY <2>3, <2>4
  <2> HIDE DEF Course
  <2> QED
    BY <2>5
<1>3. P \in SUBSET (0 .. n)
  OBVIOUS
<1> HIDE DEF P
<1>4. \A k \in 0 .. n : k \in P
  BY <1>1, <1>2, <1>3, UpTo
<1>5. n \in 0 .. n
  OBVIOUS
<1> QED
  BY <1>4, <1>5 DEF P, IsCourse

-----------------------------------------------------------------------------
(* What the loop of Resolve has found once it has considered some ids.     *)
Reasons == {"", "read only", "kind", "setting", "unknown action", "missing"}
Found == [seen : SUBSET STRING, targets : Seq(STRING), ignored : Seq(STRING \X Reasons)]

LEMMA Appended ==
  ASSUME NEW S, NEW s \in Seq(S), NEW e \in S
  PROVE  /\ Append(s, e) \in Seq(S)
         /\ ToSet(Append(s, e)) = ToSet(s) \cup {e}
         /\ IsInjective(s) /\ e \notin ToSet(s) => IsInjective(Append(s, e))
<1> DEFINE t == Append(s, e)
<1>1. /\ t \in Seq(S) /\ Len(s) \in Nat /\ DOMAIN s = 1 .. Len(s)
      /\ DOMAIN t = 1 .. (Len(s) + 1)
      /\ \A i \in 1 .. Len(s) : t[i] = s[i]
      /\ t[Len(s) + 1] = e
  BY AppendProperties, LenProperties
<1> HIDE DEF t
<1>2. ToSet(t) = ToSet(s) \cup {e}
  <2>1. ASSUME NEW x \in ToSet(t) PROVE x \in ToSet(s) \cup {e}
    <3>1. PICK i \in DOMAIN t : x = t[i]
      BY DEF ToSet
    <3>2. CASE i = Len(s) + 1
      BY <3>1, <3>2, <1>1
    <3>3. CASE i # Len(s) + 1
      <4>1. i \in DOMAIN s
        BY <3>3, <1>1
      <4> QED
        BY <4>1, <3>1, <1>1 DEF ToSet
    <3> QED
      BY <3>2, <3>3
  <2>2. ASSUME NEW x \in ToSet(s) PROVE x \in ToSet(t)
    <3>1. PICK i \in DOMAIN s : x = s[i]
      BY DEF ToSet
    <3>2. i \in DOMAIN t /\ x = t[i]
      BY <3>1, <1>1
    <3> QED
      BY <3>2 DEF ToSet
  <2>3. e \in ToSet(t)
    <3>1. Len(s) + 1 \in DOMAIN t /\ t[Len(s) + 1] = e
      BY <1>1
    <3> QED
      BY <3>1 DEF ToSet
  <2> QED
    BY <2>1, <2>2, <2>3
<1>3. ASSUME IsInjective(s), e \notin ToSet(s) PROVE IsInjective(t)
  <2> SUFFICES ASSUME NEW i \in DOMAIN t, NEW j \in DOMAIN t, t[i] = t[j] PROVE i = j
    BY DEF IsInjective
  <2>1. \A k \in DOMAIN t : k = Len(s) + 1 \/ (k \in DOMAIN s /\ t[k] = s[k])
    BY <1>1
  <2>2. \A k \in DOMAIN s : s[k] # e
    BY <1>3 DEF ToSet
  <2>3. \A k, l \in DOMAIN s : s[k] = s[l] => k = l
    BY <1>3 DEF IsInjective
  <2> QED
    BY <2>1, <2>2, <2>3, <1>1
<1> QED
  BY <1>1, <1>2, <1>3 DEF t

LEMMA ReasonType == ASSUME NEW step, NEW id, NEW devices PROVE Reason(step, id, devices) \in Reasons
<1>1. ASSUME NEW d PROVE Incompatibility(step, d) \in Reasons
  BY Zenon DEF Incompatibility, Reasons
<1> QED
  BY <1>1, Zenon DEF Reason, Reasons

\* Once the ids of S are considered: the targets are those with no reason against them, the
\* others are told with their reason, each once.
Sorted(step, devices, found, S) ==
  /\ found \in Found /\ found.seen = S
  /\ ToSet(found.targets) = {id \in S : Reason(step, id, devices) = ""}
  /\ ToSet(found.ignored) = {<<id, Reason(step, id, devices)>> : id \in {x \in S : Reason(step, x, devices) # ""}}
  /\ IsInjective(found.targets) /\ IsInjective(found.ignored)

LEMMA ConsiderSorts ==
  ASSUME NEW step, NEW devices, NEW found, NEW S \in SUBSET STRING, Sorted(step, devices, found, S),
         NEW id \in STRING
  PROVE  Sorted(step, devices, Consider(step, devices, found, id), S \cup {id})
<1> DEFINE why(x) == Reason(step, x, devices)
           after == Consider(step, devices, found, id)
<1>1. \A x : why(x) \in Reasons
  BY ReasonType
<1>2. found \in Found /\ found.seen = S
  BY DEF Sorted
<1>3. /\ ToSet(found.targets) = {x \in S : why(x) = ""}
      /\ ToSet(found.ignored) = {<<x, why(x)>> : x \in {y \in S : why(y) # ""}}
      /\ IsInjective(found.targets) /\ IsInjective(found.ignored)
  BY DEF Sorted
<1> HIDE DEF why, after
<1>4. CASE id \in S
  <2>1. after = found /\ S \cup {id} = S
    BY <1>2, <1>4 DEF after, Consider
  <2> QED
    BY <2>1 DEF after
<1>5. CASE id \notin S /\ why(id) = ""
  <2>1. after = [found EXCEPT !.seen = @ \cup {id}, !.targets = Append(@, id)]
    BY <1>2, <1>5 DEF after, Consider, why
  <2>2. after.seen = S \cup {id} /\ after.targets = Append(found.targets, id) /\ after.ignored = found.ignored
    BY <2>1, <1>2 DEF Found
  <2>3. found.targets \in Seq(STRING) /\ id \notin ToSet(found.targets)
    BY <1>2, <1>3, <1>5 DEF Found
  <2>4. after.targets \in Seq(STRING) /\ IsInjective(after.targets)
        /\ ToSet(after.targets) = ToSet(found.targets) \cup {id}
    <3>1. /\ Append(found.targets, id) \in Seq(STRING)
          /\ ToSet(Append(found.targets, id)) = ToSet(found.targets) \cup {id}
          /\ IsInjective(found.targets) /\ id \notin ToSet(found.targets) => IsInjective(Append(found.targets, id))
      BY <2>3, Appended, Zenon
    <3> QED
      BY <3>1, <2>2, <2>3, <1>3, Zenon
  <2>5. after \in Found
    BY <2>1, <2>2, <2>4, <1>2 DEF Found
  <2>6. ToSet(after.targets) = {x \in S \cup {id} : why(x) = ""}
    BY <2>4, <1>3, <1>5
  <2>7. ToSet(after.ignored) = {<<x, why(x)>> : x \in {y \in S \cup {id} : why(y) # ""}}
    <3>1. {y \in S \cup {id} : why(y) # ""} = {y \in S : why(y) # ""}
      BY <1>5
    <3> QED
      BY <3>1, <2>2, <1>3
  <2> QED
    BY <2>2, <2>4, <2>5, <2>6, <2>7, <1>3 DEF Sorted, why, after
<1>6. CASE id \notin S /\ why(id) # ""
  <2> DEFINE told == <<id, why(id)>>
  <2>1. after = [found EXCEPT !.seen = @ \cup {id}, !.ignored = Append(@, told)]
    BY <1>2, <1>6 DEF after, Consider, why
  <2>0. told \in STRING \X Reasons
    BY <1>1
  <2>2. after.seen = S \cup {id} /\ after.ignored = Append(found.ignored, told) /\ after.targets = found.targets
    BY <2>1, <1>2 DEF Found
  <2>3. found.ignored \in Seq(STRING \X Reasons)
    BY <1>2 DEF Found
  <2>8. told \notin ToSet(found.ignored)
    BY <1>3, <1>6
  <2> HIDE DEF told
  <2>4. after.ignored \in Seq(STRING \X Reasons) /\ IsInjective(after.ignored)
        /\ ToSet(after.ignored) = ToSet(found.ignored) \cup {told}
    <3>1. /\ Append(found.ignored, told) \in Seq(STRING \X Reasons)
          /\ ToSet(Append(found.ignored, told)) = ToSet(found.ignored) \cup {told}
          /\ IsInjective(found.ignored) /\ told \notin ToSet(found.ignored) => IsInjective(Append(found.ignored, told))
      <4> DEFINE Pairs == STRING \X Reasons
      <4>1. told \in Pairs /\ found.ignored \in Seq(Pairs)
        BY <2>0, <2>3
      <4> HIDE DEF Pairs
      <4>2. /\ Append(found.ignored, told) \in Seq(Pairs)
            /\ ToSet(Append(found.ignored, told)) = ToSet(found.ignored) \cup {told}
            /\ IsInjective(found.ignored) /\ told \notin ToSet(found.ignored) => IsInjective(Append(found.ignored, told))
        BY <4>1, Appended, Zenon
      <4> QED
        BY <4>2, Zenon DEF Pairs
    <3> QED
      BY <3>1, <2>2, <2>3, <2>8, <1>3, Zenon
  <2>5. after \in Found
    BY <2>1, <2>2, <2>4, <1>2 DEF Found
  <2>6. ToSet(after.targets) = {x \in S \cup {id} : why(x) = ""}
    BY <2>2, <1>3, <1>6
  <2>7. ToSet(after.ignored) = {<<x, why(x)>> : x \in {y \in S \cup {id} : why(y) # ""}}
    <3>1. {y \in S \cup {id} : why(y) # ""} = {y \in S : why(y) # ""} \cup {id}
      BY <1>6
    <3>2. {<<x, why(x)>> : x \in {y \in S : why(y) # ""} \cup {id}} =
            {<<x, why(x)>> : x \in {y \in S : why(y) # ""}} \cup {told}
      BY DEF told
    <3> QED
      BY <3>1, <3>2, <2>4, <1>3
  <2> QED
    BY <2>2, <2>4, <2>5, <2>6, <2>7, <1>3 DEF Sorted, why, after
<1> QED
  BY <1>4, <1>5, <1>6 DEF after

LEMMA ConsiderType ==
  ASSUME NEW step, NEW devices, NEW found \in Found, NEW id \in STRING
  PROVE  Consider(step, devices, found, id) \in Found
<1> DEFINE why == Reason(step, id, devices)
<1>1. /\ Append(found.targets, id) \in Seq(STRING)
      /\ Append(found.ignored, <<id, why>>) \in Seq(STRING \X Reasons)
  <2>1. <<id, why>> \in STRING \X Reasons
    BY ReasonType
  <2> QED
    BY <2>1, AppendProperties DEF Found
<1> QED
  BY <1>1 DEF Consider, Found

LEMMA AllConsidered ==
  ASSUME NEW step, NEW devices, NEW ids \in Seq(STRING)
  PROVE  Sorted(step, devices, ConsiderAll(step, devices, ids), ToSet(ids))
<1> DEFINE n == Len(ids)
           Loop(f) == [i \in 0 .. n |->
                         IF i = 0 THEN NothingFound ELSE Consider(step, devices, f[i - 1], ids[i])]
           found == CHOOSE f : f = Loop(f)
           Turn == [i \in 1 .. n |-> [x \in Found |-> Consider(step, devices, x, ids[i])]]
<1>1. n \in Nat /\ \A i \in 1 .. n : ids[i] \in STRING
  OBVIOUS
<1>2. NothingFound \in Found
  BY DEF NothingFound, Found
<1>3. \E f : f = Loop(f)
  <2>1. Turn \in [1 .. n -> [Found -> Found]]
    BY <1>1, ConsiderType
  <2> HIDE DEF n, Turn
  <2>2. PICK f : IsCourse(f, Found, n, NothingFound, Turn)
    <3>1. n \in Nat /\ NothingFound \in Found /\ Turn \in Loops(Found, n)
      BY <1>1, <1>2, <2>1 DEF n, Loops
    <3> QED
      BY <3>1, LoopIs, Zenon
  <2>3. ASSUME NEW i \in 1 .. n PROVE f[i] = Consider(step, devices, f[i - 1], ids[i])
    <3>1. f[i - 1] \in Found
      BY <1>1, <2>2 DEF IsCourse
    <3> QED
      BY <2>2, <3>1 DEF Turn, IsCourse
  <2>4. f = Loop(f)
    BY <2>2, <2>3, <1>1 DEF IsCourse
  <2> QED
    BY <2>4
<1>4. found = Loop(found)
  BY <1>3, Zenon
<1>5. ConsiderAll(step, devices, ids) = found[n]
  BY DEF ConsiderAll
<1> HIDE DEF found
<1> DEFINE P == {i \in 0 .. n : Sorted(step, devices, found[i], {ids[j] : j \in 1 .. i})}
<1>6. 0 \in P
  <2>1. found[0] = NothingFound /\ {ids[j] : j \in 1 .. 0} = {}
    BY <1>4
  <2>2. Sorted(step, devices, NothingFound, {})
    BY <1>2 DEF Sorted, NothingFound, ToSet, IsInjective
  <2>3. Sorted(step, devices, found[0], {ids[j] : j \in 1 .. 0})
    BY <2>1, <2>2
  <2> QED
    BY <2>3, <1>1
<1>7. ASSUME NEW i \in 1 .. n, i - 1 \in P PROVE i \in P
  <2>1. found[i] = Consider(step, devices, found[i - 1], ids[i])
    BY <1>1, <1>4
  <2>2. Sorted(step, devices, found[i - 1], {ids[j] : j \in 1 .. (i - 1)})
    BY <1>7
  <2>3. {ids[j] : j \in 1 .. i} = {ids[j] : j \in 1 .. (i - 1)} \cup {ids[i]}
    <3>1. \A j \in 1 .. i : j = i \/ j \in 1 .. (i - 1)
      OBVIOUS
    <3>2. \A j \in 1 .. (i - 1) : j \in 1 .. i
      OBVIOUS
    <3> QED
      BY <3>1, <3>2
  <2>4. {ids[j] : j \in 1 .. (i - 1)} \in SUBSET STRING /\ ids[i] \in STRING
    <3>1. \A j \in 1 .. (i - 1) : ids[j] \in STRING
      BY <1>1
    <3> QED
      BY <3>1, <1>1
  <2>5. Sorted(step, devices, found[i], {ids[j] : j \in 1 .. i})
    <3>1. Sorted(step, devices, Consider(step, devices, found[i - 1], ids[i]),
                 {ids[j] : j \in 1 .. (i - 1)} \cup {ids[i]})
      BY <2>2, <2>4, ConsiderSorts, Zenon
    <3> QED
      BY <3>1, <2>1, <2>3
  <2> QED
    BY <2>5
<1>8. P \in SUBSET (0 .. n)
  OBVIOUS
<1>9. n \in 0 .. n /\ \A i \in 0 .. n : i \in P
  <2> HIDE DEF P
  <2>1. \A i \in 0 .. n : i \in P
    BY <1>1, <1>6, <1>7, <1>8, UpTo
  <2> QED
    BY <2>1, <1>1
<1>10. ToSet(ids) = {ids[j] : j \in 1 .. n}
  BY DEF ToSet
<1> QED
  BY <1>5, <1>9, <1>10

-----------------------------------------------------------------------------
(* The ids an action designates: those named and those of the rooms. *)
LEMMA OfRoomIs ==
  ASSUME NEW step, NEW room, NEW devices \in Seq(Device)
  PROVE  /\ OfRoom(step, room, devices) \in Seq(STRING)
         /\ ToSet(OfRoom(step, room, devices)) =
              {devices[j].id : j \in {i \in DOMAIN devices : InRoom(step, room, devices[i])}}
<1> DEFINE n == Len(devices)
           In(i) == InRoom(step, room, devices[i])
           Then(x, i) == IF In(i) THEN Append(x, devices[i].id) ELSE x
           Loop(f) == [i \in 0 .. n |-> IF i = 0 THEN <<>> ELSE Then(f[i - 1], i)]
           found == CHOOSE f : f = Loop(f)
           Turn == [i \in 1 .. n |-> [x \in Seq(STRING) |-> Then(x, i)]]
<1>1. n \in Nat /\ DOMAIN devices = 1 .. n
  OBVIOUS
<1>2. ASSUME NEW i \in 1 .. n PROVE devices[i].id \in STRING
  <2>1. devices[i] \in Device
    BY <1>1
  <2> QED
    BY <2>1 DEF Device
<1>5. OfRoom(step, room, devices) = found[n]
  BY DEF OfRoom
<1> HIDE DEF n, In
<1>10. <<>> \in Seq(STRING) /\ ToSet(<<>>) = {}
  BY DEF ToSet
<1>3. \E f : f = Loop(f)
  <2>1. Turn \in Loops(Seq(STRING), n)
    <3>1. ASSUME NEW i \in 1 .. n, NEW x \in Seq(STRING) PROVE Then(x, i) \in Seq(STRING)
      BY <1>2, AppendProperties
    <3> HIDE DEF Then
    <3> QED
      BY <3>1 DEF Loops
  <2> HIDE DEF Turn, Then
  <2>2. PICK f : IsCourse(f, Seq(STRING), n, <<>>, Turn)
    BY <1>10, <2>1, <1>1, LoopIs, Zenon
  <2>3. ASSUME NEW i \in 1 .. n PROVE f[i] = Then(f[i - 1], i)
    <3>1. f[i - 1] \in Seq(STRING)
      BY <1>1, <2>2 DEF IsCourse
    <3> QED
      BY <2>2, <3>1 DEF Turn, IsCourse
  <2>4. f = Loop(f)
    BY <2>2, <2>3, <1>1 DEF IsCourse
  <2> QED
    BY <2>4
<1>4. found = Loop(found)
  BY <1>3, Zenon
<1>11. found[0] = <<>> /\ \A i \in 1 .. n : found[i] = Then(found[i - 1], i)
  <2> HIDE DEF found, Then
  <2> QED
    BY <1>1, <1>4
<1> HIDE DEF found
<1> DEFINE Met(i) == {devices[j].id : j \in {k \in 1 .. i : In(k)}}
           P == {i \in 0 .. n : found[i] \in Seq(STRING) /\ ToSet(found[i]) = Met(i)}
<1>6. 0 \in P
  <2>1. found[0] = <<>> /\ Met(0) = {} /\ ToSet(<<>>) = {}
    BY <1>11, <1>10
  <2>2. found[0] \in Seq(STRING) /\ ToSet(found[0]) = Met(0)
    BY <2>1, <1>10
  <2> QED
    BY <2>2, <1>1
<1>7. ASSUME NEW i \in 1 .. n, i - 1 \in P PROVE i \in P
  <2>1. found[i] = IF In(i) THEN Append(found[i - 1], devices[i].id) ELSE found[i - 1]
    BY <1>11
  <2>2. found[i - 1] \in Seq(STRING) /\ ToSet(found[i - 1]) = Met(i - 1)
    BY <1>7
  <2>3. \A j : j \in 1 .. i <=> j = i \/ j \in 1 .. (i - 1)
    OBVIOUS
  <2>4. CASE In(i)
    <3>1. Met(i) = Met(i - 1) \cup {devices[i].id}
      BY <2>3, <2>4
    <3>2. /\ Append(found[i - 1], devices[i].id) \in Seq(STRING)
          /\ ToSet(Append(found[i - 1], devices[i].id)) = ToSet(found[i - 1]) \cup {devices[i].id}
      <4>1. found[i - 1] \in Seq(STRING) /\ devices[i].id \in STRING
        BY <2>2, <1>2
      <4> QED
        BY <4>1, Appended
    <3>3. found[i] \in Seq(STRING) /\ ToSet(found[i]) = Met(i)
      BY <3>1, <3>2, <2>1, <2>2, <2>4
    <3> QED
      BY <3>3
  <2>5. CASE ~In(i)
    <3>1. Met(i) = Met(i - 1)
      BY <2>3, <2>5
    <3>2. found[i] \in Seq(STRING) /\ ToSet(found[i]) = Met(i)
      BY <3>1, <2>1, <2>2, <2>5
    <3> QED
      BY <3>2
  <2> QED
    BY <2>4, <2>5
<1>8. P \in SUBSET (0 .. n)
  OBVIOUS
<1>9. n \in P
  <2> HIDE DEF P
  <2>1. \A i \in 0 .. n : i \in P
    BY <1>1, <1>6, <1>7, <1>8, UpTo
  <2> QED
    BY <2>1, <1>1
<1> QED
  BY <1>1, <1>5, <1>9 DEF In

LEMMA Joined ==
  ASSUME NEW S, NEW s \in Seq(S), NEW t \in Seq(S)
  PROVE  s \o t \in Seq(S) /\ ToSet(s \o t) = ToSet(s) \cup ToSet(t)
<1> DEFINE u == s \o t
<1>1. /\ u \in Seq(S) /\ Len(s) \in Nat /\ Len(t) \in Nat
      /\ DOMAIN s = 1 .. Len(s) /\ DOMAIN t = 1 .. Len(t) /\ DOMAIN u = 1 .. (Len(s) + Len(t))
      /\ \A i \in 1 .. Len(s) + Len(t) : u[i] = IF i <= Len(s) THEN s[i] ELSE t[i - Len(s)]
  BY ConcatProperties, LenProperties
<1> HIDE DEF u
<1>2. ASSUME NEW x \in ToSet(u) PROVE x \in ToSet(s) \cup ToSet(t)
  <2>1. PICK i \in DOMAIN u : x = u[i]
    BY DEF ToSet
  <2>2. CASE i <= Len(s)
    <3>1. i \in DOMAIN s /\ x = s[i]
      BY <2>1, <2>2, <1>1
    <3> QED
      BY <3>1 DEF ToSet
  <2>3. CASE i > Len(s)
    <3>1. i - Len(s) \in DOMAIN t /\ x = t[i - Len(s)]
      BY <2>1, <2>3, <1>1
    <3> QED
      BY <3>1 DEF ToSet
  <2> QED
    BY <2>2, <2>3, <1>1
<1>3. ASSUME NEW i \in DOMAIN s PROVE s[i] \in ToSet(u)
  <2>1. i \in DOMAIN u /\ u[i] = s[i]
    BY <1>1
  <2> QED
    BY <2>1 DEF ToSet
<1>4. ASSUME NEW i \in DOMAIN t PROVE t[i] \in ToSet(u)
  <2>1. i + Len(s) \in DOMAIN u /\ u[i + Len(s)] = t[i]
    BY <1>1
  <2> QED
    BY <2>1 DEF ToSet
<1>5. ToSet(s) \subseteq ToSet(u) /\ ToSet(t) \subseteq ToSet(u)
  BY <1>3, <1>4 DEF ToSet
<1> QED
  BY <1>1, <1>2, <1>5 DEF u

LEMMA DesignatedIs ==
  ASSUME NEW step, step.targets.devices \in Seq(STRING), step.targets.rooms \in Seq(STRING),
         NEW devices \in Seq(Device)
  PROVE  /\ Designated(step, devices) \in Seq(STRING)
         /\ \A id : id \in ToSet(Designated(step, devices)) <=>
              \/ id \in ToSet(step.targets.devices)
              \/ \E i \in DOMAIN devices, r \in ToSet(step.targets.rooms) :
                   id = devices[i].id /\ InRoom(step, r, devices[i])
<1> DEFINE rooms == step.targets.rooms
           named == step.targets.devices
           n == Len(rooms)
           There(i) == OfRoom(step, rooms[i], devices)
           Then(x, i) == x \o There(i)
           Loop(f) == [i \in 0 .. n |-> IF i = 0 THEN named ELSE Then(f[i - 1], i)]
           found == CHOOSE f : f = Loop(f)
           Turn == [i \in 1 .. n |-> [x \in Seq(STRING) |-> Then(x, i)]]
<1>1. n \in Nat /\ DOMAIN rooms = 1 .. n /\ named \in Seq(STRING)
  OBVIOUS
<1>2. \A i \in 1 .. n : There(i) \in Seq(STRING)
  BY OfRoomIs
<1> HIDE DEF n, There, rooms, named
<1>3. \E f : f = Loop(f)
  <2>1. Turn \in Loops(Seq(STRING), n)
    <3>1. ASSUME NEW i \in 1 .. n, NEW x \in Seq(STRING) PROVE Then(x, i) \in Seq(STRING)
      BY <1>2, Joined
    <3> HIDE DEF Then
    <3> QED
      BY <3>1 DEF Loops
  <2> HIDE DEF Turn, Then
  <2>2. PICK f : IsCourse(f, Seq(STRING), n, named, Turn)
    BY <2>1, <1>1, LoopIs, Zenon
  <2>3. ASSUME NEW i \in 1 .. n PROVE f[i] = Then(f[i - 1], i)
    <3>1. f[i - 1] \in Seq(STRING)
      BY <1>1, <2>2 DEF IsCourse
    <3> QED
      BY <2>2, <3>1 DEF Turn, IsCourse
  <2>4. f = Loop(f)
    BY <2>2, <2>3, <1>1 DEF IsCourse
  <2> QED
    BY <2>4
<1>4. found = Loop(found)
  BY <1>3, Zenon
<1>5. Designated(step, devices) = found[n]
  BY DEF Designated, There, n, rooms, named
<1>11. found[0] = named /\ \A i \in 1 .. n : found[i] = Then(found[i - 1], i)
  <2> HIDE DEF found, Then
  <2> QED
    BY <1>1, <1>4
<1> HIDE DEF found
<1> DEFINE Met(i) == ToSet(named) \cup UNION {ToSet(There(j)) : j \in 1 .. i}
           P == {i \in 0 .. n : found[i] \in Seq(STRING) /\ ToSet(found[i]) = Met(i)}
<1>6. 0 \in P
  <2>1. found[0] = named /\ Met(0) = ToSet(named)
    BY <1>11
  <2> QED
    BY <2>1, <1>1
<1>7. ASSUME NEW i \in 1 .. n, i - 1 \in P PROVE i \in P
  <2>1. found[i] = found[i - 1] \o There(i)
    BY <1>11
  <2>2. found[i - 1] \in Seq(STRING) /\ ToSet(found[i - 1]) = Met(i - 1)
    BY <1>7
  <2>3. \A j : j \in 1 .. i <=> j = i \/ j \in 1 .. (i - 1)
    OBVIOUS
  <2>4. Met(i) = Met(i - 1) \cup ToSet(There(i))
    BY <2>3
  <2>5. found[i] \in Seq(STRING) /\ ToSet(found[i]) = ToSet(found[i - 1]) \cup ToSet(There(i))
    BY <2>1, <2>2, <1>2, Joined
  <2>6. found[i] \in Seq(STRING) /\ ToSet(found[i]) = Met(i)
    BY <2>2, <2>4, <2>5
  <2> QED
    BY <2>6
<1>8. P \in SUBSET (0 .. n)
  OBVIOUS
<1>9. n \in P
  <2> HIDE DEF P
  <2>1. \A i \in 0 .. n : i \in P
    BY <1>1, <1>6, <1>7, <1>8, UpTo
  <2> QED
    BY <2>1, <1>1
<1>10. ASSUME NEW id
       PROVE  id \in UNION {ToSet(There(j)) : j \in 1 .. n} <=>
                \E i \in DOMAIN devices, r \in ToSet(rooms) :
                  id = devices[i].id /\ InRoom(step, r, devices[i])
  <2>1. ASSUME NEW j \in 1 .. n
        PROVE  id \in ToSet(There(j)) <=>
                 \E i \in DOMAIN devices : id = devices[i].id /\ InRoom(step, rooms[j], devices[i])
    BY OfRoomIs DEF There
  <2>2. \A r : r \in ToSet(rooms) <=> \E j \in 1 .. n : r = rooms[j]
    BY <1>1 DEF ToSet
  <2> QED
    BY <2>1, <2>2
<1> QED
  BY <1>1, <1>5, <1>9, <1>10 DEF rooms, named

-----------------------------------------------------------------------------
(* A device designated twice, by its name and its room or by two rooms, is *)
(* considered once; one that is meant is considered, as what it is.        *)
Distinct(devices) == \A i, j \in DOMAIN devices : devices[i].id = devices[j].id => i = j

LEMMA DeviceIs ==
  ASSUME NEW devices, Distinct(devices), NEW step, NEW i \in DOMAIN devices
  PROVE  /\ devices[i].id \in Ids(devices) /\ ById(devices[i].id, devices) = devices[i]
         /\ Reason(step, devices[i].id, devices) = Incompatibility(step, devices[i])
<1>1. devices[i].id \in Ids(devices)
  BY DEF Ids
<1>2. ById(devices[i].id, devices) = devices[i]
  <2> DEFINE k == CHOOSE j \in DOMAIN devices : devices[j].id = devices[i].id
  <2>1. k \in DOMAIN devices /\ devices[k].id = devices[i].id
    OBVIOUS
  <2>2. ById(devices[i].id, devices) = devices[k]
    BY DEF ById
  <2> HIDE DEF k
  <2> QED
    BY <2>1, <2>2 DEF Distinct
<1> QED
  BY <1>1, <1>2 DEF Reason

LEMMA DesignatedMeant ==
  ASSUME NEW step, step.targets.devices \in Seq(STRING), step.targets.rooms \in Seq(STRING),
         NEW devices \in Seq(Device), Distinct(devices), NEW i \in DOMAIN devices
  PROVE  devices[i].id \in ToSet(Designated(step, devices)) <=> Meant(step, devices[i])
<1> DEFINE d == devices[i]
<1>1. d.id \in ToSet(Designated(step, devices)) <=>
        \/ d.id \in ToSet(step.targets.devices)
        \/ \E j \in DOMAIN devices, r \in ToSet(step.targets.rooms) :
             d.id = devices[j].id /\ InRoom(step, r, devices[j])
  BY DesignatedIs
<1>2. \A j \in DOMAIN devices : d.id = devices[j].id => devices[j] = d
  BY DEF Distinct
<1>3. d.id \in ToSet(Designated(step, devices)) <=>
        \/ d.id \in ToSet(step.targets.devices)
        \/ \E r \in ToSet(step.targets.rooms) : InRoom(step, r, d)
  BY <1>1, <1>2
<1> HIDE DEF d
<1>4. (\E r \in ToSet(step.targets.rooms) : InRoom(step, r, d)) <=>
        d.room \in ToSet(step.targets.rooms) /\ (step.targets.kinds = {} \/ d.kind \in step.targets.kinds)
  BY DEF InRoom
<1> QED
  BY <1>3, <1>4 DEF Meant, d

\* The targets of an action are the devices meant that can obey, each once; those meant
\* that cannot and the names nothing bears are told, each once (resolve.go Resolve), for
\* any devices with ids of their own and any action.
THEOREM ResolveIsExact ==
  ASSUME NEW step, step.targets.devices \in Seq(STRING), step.targets.rooms \in Seq(STRING),
         NEW devices \in Seq(Device), Distinct(devices)
  PROVE  Exact(step, devices, Resolve(step, devices))
<1> DEFINE resolved == Resolve(step, devices)
           meant == {d \in ToSet(devices) : step.type = "action" /\ Meant(step, d)}
           gone == IF step.type = "action" THEN ToSet(step.targets.devices) \ Ids(devices) ELSE {}
           able == {d \in meant : Incompatibility(step, d) = ""}
           told == [i \in DOMAIN resolved.ignored |-> resolved.ignored[i][1]]
<1> SUFFICES /\ ToSet(resolved.targets) = {d.id : d \in able}
             /\ ToSet(told) = {d.id : d \in meant \ able} \cup gone
             /\ IsInjective(resolved.targets) /\ IsInjective(told)
  BY DEF Exact
<1>1. CASE step.type # "action"
  <2>1. resolved.targets = <<>> /\ resolved.ignored = <<>>
    BY <1>1 DEF Resolve
  <2>2. told = <<>>
    BY <2>1
  <2>3. meant = {} /\ able = {} /\ gone = {}
    BY <1>1
  <2>4. ToSet(<<>>) = {} /\ IsInjective(<<>>)
    BY DEF ToSet, IsInjective
  <2> HIDE DEF resolved, meant, gone, able, told
  <2> QED
    BY <2>1, <2>2, <2>3, <2>4
<1>2. CASE step.type = "action"
  <2> DEFINE ids == Designated(step, devices)
             found == ConsiderAll(step, devices, ids)
             D == ToSet(ids)
             why(id) == Reason(step, id, devices)
  <2>1. resolved.targets = found.targets /\ resolved.ignored = found.ignored
    BY <1>2 DEF Resolve
  <2>2. Sorted(step, devices, found, D)
    BY DesignatedIs, AllConsidered
  <2>3. /\ ToSet(found.targets) = {id \in D : why(id) = ""}
        /\ ToSet(found.ignored) = {<<id, why(id)>> : id \in {x \in D : why(x) # ""}}
        /\ IsInjective(found.targets) /\ IsInjective(found.ignored)
    BY <2>2 DEF Sorted
  <2>4. \A i \in DOMAIN devices : why(devices[i].id) = Incompatibility(step, devices[i])
    BY DeviceIs
  <2>5. \A i \in DOMAIN devices : devices[i].id \in D <=> Meant(step, devices[i])
    BY DesignatedMeant
  <2>6. \A id \in D : id \notin Ids(devices) => why(id) = "missing" /\ id \in ToSet(step.targets.devices)
    <3> SUFFICES ASSUME NEW id \in D, id \notin Ids(devices)
                 PROVE  why(id) = "missing" /\ id \in ToSet(step.targets.devices)
      OBVIOUS
    <3>1. \A i \in DOMAIN devices : devices[i].id \in Ids(devices)
      BY DEF Ids
    <3>2. id \in ToSet(step.targets.devices)
      BY <3>1, DesignatedIs
    <3> QED
      BY <3>2 DEF Reason
  <2>7. \A id \in gone : id \in D /\ why(id) = "missing"
    BY <1>2, DesignatedIs DEF Reason
  <2>8. \A d \in ToSet(devices) : \E i \in DOMAIN devices : d = devices[i]
    BY DEF ToSet
  <2>9. \A id \in D : id \in Ids(devices) =>
          \E d \in meant : d.id = id /\ why(id) = Incompatibility(step, d)
    <3> SUFFICES ASSUME NEW id \in D, id \in Ids(devices)
                 PROVE  \E d \in meant : d.id = id /\ why(id) = Incompatibility(step, d)
      OBVIOUS
    <3>1. PICK i \in DOMAIN devices : id = devices[i].id
      BY DEF Ids
    <3>2. devices[i] \in meant
      BY <3>1, <2>5, <1>2 DEF ToSet
    <3> QED
      BY <3>1, <3>2, <2>4
  <2>10. \A d \in meant : d.id \in D /\ d.id \in Ids(devices) /\ why(d.id) = Incompatibility(step, d)
    <3> SUFFICES ASSUME NEW d \in meant
                 PROVE  d.id \in D /\ d.id \in Ids(devices) /\ why(d.id) = Incompatibility(step, d)
      OBVIOUS
    <3>1. PICK i \in DOMAIN devices : d = devices[i]
      BY <2>8
    <3> QED
      BY <3>1, <2>4, <2>5 DEF Ids
  <2> HIDE DEF D, why, meant, gone
  <2>11. {id \in D : why(id) = ""} = {d.id : d \in able}
    BY <2>6, <2>9, <2>10
  <2>12. {x \in D : why(x) # ""} = {d.id : d \in meant \ able} \cup gone
    <3>1. ASSUME NEW x \in D, why(x) # "" PROVE x \in {d.id : d \in meant \ able} \cup gone
      <4>1. CASE x \in Ids(devices)
        BY <4>1, <3>1, <2>9
      <4>2. CASE x \notin Ids(devices)
        BY <4>2, <2>6, <1>2 DEF gone
      <4> QED
        BY <4>1, <4>2
    <3>2. ASSUME NEW d \in meant \ able PROVE d.id \in D /\ why(d.id) # ""
      BY <2>10
    <3>3. ASSUME NEW x \in gone PROVE x \in D /\ why(x) # ""
      BY <2>7
    <3>4. {d.id : d \in meant \ able} \subseteq {x \in D : why(x) # ""}
      BY <3>2
    <3> QED
      BY <3>1, <3>3, <3>4
  <2>13. \A i \in DOMAIN found.ignored : found.ignored[i] = <<told[i], why(told[i])>>
                                       /\ told[i] \in {x \in D : why(x) # ""}
    <3> SUFFICES ASSUME NEW i \in DOMAIN found.ignored
                 PROVE  found.ignored[i] = <<told[i], why(told[i])>> /\ told[i] \in {x \in D : why(x) # ""}
      OBVIOUS
    <3>1. PICK x \in {y \in D : why(y) # ""} : found.ignored[i] = <<x, why(x)>>
      BY <2>3 DEF ToSet
    <3>2. told[i] = found.ignored[i][1]
      BY <2>1
    <3>3. <<x, why(x)>>[1] = x
      OBVIOUS
    <3>4. told[i] = x
      BY <3>1, <3>2, <3>3
    <3> QED
      BY <3>1, <3>4
  <2>14. DOMAIN told = DOMAIN found.ignored
    BY <2>1
  <2> HIDE DEF told, found
  <2>15. ToSet(told) = {x \in D : why(x) # ""}
    <3>1. ASSUME NEW x \in D, why(x) # "" PROVE x \in ToSet(told)
      <4>1. <<x, why(x)>> \in ToSet(found.ignored)
        BY <3>1, <2>3
      <4>2. PICK i \in DOMAIN found.ignored : <<x, why(x)>> = found.ignored[i]
        BY <4>1 DEF ToSet
      <4>3. <<x, why(x)>> = <<told[i], why(told[i])>>
        BY <4>2, <2>13
      <4>4. x = told[i]
        BY <4>3
      <4> QED
        BY <4>2, <4>4, <2>14 DEF ToSet
    <3> QED
      BY <3>1, <2>13, <2>14 DEF ToSet
  <2>16. IsInjective(told)
    BY <2>3, <2>13, <2>14 DEF IsInjective
  <2> QED
    BY <2>1, <2>3, <2>11, <2>12, <2>15, <2>16
<1> QED
  BY <1>1, <1>2

-----------------------------------------------------------------------------
(***************************************************************************)
(* The editor.                                                             *)
(***************************************************************************)

AnySpec == [name : Names, steps : Seq(Step), schedules : Seq(Schedule)]
Answer == [steps : Seq(Step), home : Homes \cup {<<>>}]

Types ==
  /\ home \in Homes /\ scene \in AnySpec /\ created \in AnySpec /\ draft \in AnySpec
  /\ preview \in Answer /\ asked \in Nat /\ shown \in 0 .. asked /\ editedId \in {0, 1}
  /\ \A c \in calls :
       /\ c.op = "resolve" => c.n \in 0 .. asked /\ c.steps \in Seq(Step)
       /\ c.op = "resolved" => c.n \in 0 .. asked /\ c.answer \in Answer
       /\ c.op = "save" => c.spec \in AnySpec /\ c.id \in {0, 1}

\* Until the timer is armed again, the last preview asked for is of steps that are those of
\* the draft, but for their numbers.
SameTargets(steps) ==
  /\ DOMAIN steps = DOMAIN draft.steps
  /\ \A i \in DOMAIN draft.steps :
       /\ steps[i].type = draft.steps[i].type
       /\ draft.steps[i].type = "action" =>
            steps[i].command = draft.steps[i].command /\ steps[i].targets = draft.steps[i].targets
Previewed == ~timer =>
  /\ \A c \in calls : c.op = "resolve" /\ c.n = asked => SameTargets(c.steps)
  /\ \A c \in calls : c.op = "resolved" /\ c.n = asked => SameTargets(c.answer.steps) /\ c.answer.home \in Homes
  /\ shown = asked /\ asked > 0 => SameTargets(preview.steps) /\ preview.home \in Homes

\* Unless something changed since the first of them, the Saves under way are of the draft,
\* and once one is served well what toSpec makes of the draft is in the store.
SavesDraft == ~crossed => \A c \in calls :
  /\ c.op = "save" => c.id = editedId /\ c.spec = ToSpec(draft)
  /\ c.op = "saved" /\ c.ok => ToSpec(draft) = IF editedId = 1 THEN scene ELSE created

\* Validate let every step of the store in.
Valid(spec) == \A i \in DOMAIN spec.steps : ValidStep(spec.steps[i])
Recorded == Valid(scene) /\ Valid(created)

EInv == Types /\ Previewed /\ SavesDraft /\ Recorded

LEMMA StepsAre ==
  /\ NewAction \in Step /\ Wait \in Step
  /\ NoScene \in AnySpec /\ EmptyDraft \in AnySpec /\ NoPreview \in Answer
  /\ [name |-> "evening", steps |-> FirstSteps, schedules |-> <<>>] \in AnySpec
  /\ Valid(NoScene) /\ Valid([name |-> "evening", steps |-> FirstSteps, schedules |-> <<>>])
<1>1. NewAction \in Step /\ Wait \in Step
  <2>1. <<>> \in Seq(STRING) /\ <<>> \in Seq(Parameter)
    OBVIOUS
  <2>2. NoTargets \in Target
    BY <2>1 DEF NoTargets, Target
  <2> QED
    BY <2>1, <2>2 DEF NewAction, Wait, Step, Command, Empty
<1>2. <<NewAction>> \in Seq(Step) /\ FirstSteps \in Seq(Step)
  <2>1. FirstSteps \in Seq(Step)
    BY SceneEditorAssumption
  <2>2. \A S : \A x \in S : <<x>> \in Seq(S)
    OBVIOUS
  <2> QED
    BY <1>1, <2>1, <2>2, Zenon
<1>3. \A i \in DOMAIN FirstSteps : ValidStep(FirstSteps[i])
  BY SceneEditorAssumption
<1>4. {"", "evening", "renamed"} \subseteq Names
  BY SceneEditorAssumption
<1>5. <<>> \in Seq(Step) /\ <<>> \in Seq(Schedule)
  OBVIOUS
<1> QED
  <2>1. /\ NoScene \in AnySpec /\ EmptyDraft \in AnySpec
        /\ [name |-> "evening", steps |-> FirstSteps, schedules |-> <<>>] \in AnySpec
    BY <1>2, <1>4, <1>5 DEF NoScene, EmptyDraft, AnySpec
  <2>2. NoPreview \in Answer
    BY <1>5 DEF NoPreview, Answer
  <2>3. Valid(NoScene) /\ Valid([name |-> "evening", steps |-> FirstSteps, schedules |-> <<>>])
    BY <1>3 DEF NoScene, Valid
  <2> QED
    BY <1>1, <2>1, <2>2, <2>3

-----------------------------------------------------------------------------
(* toSpec keeps what the kind of a step, or of a schedule, has.            *)
LEMMA DaysInOrderIs ==
  ASSUME NEW days \in Seq(1 .. 7)
  PROVE  DaysInOrder(days) \in Seq(1 .. 7) /\ ToSet(DaysInOrder(days)) = ToSet(days)
<1> DEFINE S == Seq(1 .. 7)
           Then(x, d) == IF d \in ToSet(days) THEN Append(x, d) ELSE x
           Loop(f) == [d \in 0 .. 7 |->
                         IF d = 0 THEN <<>> ELSE Then(f[d - 1], d)]
           found == CHOOSE f : f = Loop(f)
           Turn == [d \in 1 .. 7 |-> [x \in S |-> Then(x, d)]]
<1>1. ToSet(days) \subseteq 1 .. 7
  BY DEF ToSet
<1>2. DaysInOrder(days) = found[7]
  BY DEF DaysInOrder
<1>3. <<>> \in S /\ ToSet(<<>>) = {}
  BY DEF ToSet
<1>4. \E f : f = Loop(f)
  <2>1. Turn \in Loops(S, 7)
    <3>1. ASSUME NEW d \in 1 .. 7, NEW x \in S PROVE Then(x, d) \in S
      BY AppendProperties
    <3> HIDE DEF Then, S
    <3> QED
      BY <3>1 DEF Loops
  <2> HIDE DEF Turn, Then, S
  <2>2. PICK f : IsCourse(f, S, 7, <<>>, Turn)
    <3>1. 7 \in Nat
      OBVIOUS
    <3> QED
      BY <1>3, <2>1, <3>1, LoopIs, Zenon
  <2>3. ASSUME NEW d \in 1 .. 7 PROVE f[d] = Then(f[d - 1], d)
    <3>1. f[d - 1] \in S
      BY <2>2 DEF IsCourse
    <3> QED
      BY <2>2, <3>1 DEF Turn, IsCourse
  <2>4. f = Loop(f)
    BY <2>2, <2>3 DEF IsCourse
  <2> QED
    BY <2>4
<1>5. found = Loop(found)
  BY <1>4, Zenon
<1>6. found[0] = <<>> /\ \A d \in 1 .. 7 : found[d] = Then(found[d - 1], d)
  <2> HIDE DEF found, Then
  <2> QED
    BY <1>5
<1> HIDE DEF found
<1> DEFINE P == {d \in 0 .. 7 : found[d] \in Seq(1 .. 7) /\ ToSet(found[d]) = ToSet(days) \cap (1 .. d)}
<1>7. 0 \in P
  <2>1. found[0] = <<>> /\ <<>> \in Seq(1 .. 7)
    BY <1>3, <1>6
  <2>2. ToSet(days) \cap (1 .. 0) = {}
    OBVIOUS
  <2>3. found[0] \in Seq(1 .. 7) /\ ToSet(found[0]) = ToSet(days) \cap (1 .. 0)
    BY <1>3, <2>1, <2>2, Zenon
  <2> QED
    BY <2>3
<1>8. ASSUME NEW d \in 1 .. 7, d - 1 \in P PROVE d \in P
  <2>1. found[d - 1] \in Seq(1 .. 7) /\ ToSet(found[d - 1]) = ToSet(days) \cap (1 .. (d - 1))
    BY <1>8
  <2>2. found[d] = IF d \in ToSet(days) THEN Append(found[d - 1], d) ELSE found[d - 1]
    BY <1>6
  <2>3. /\ Append(found[d - 1], d) \in Seq(1 .. 7)
        /\ ToSet(Append(found[d - 1], d)) = ToSet(found[d - 1]) \cup {d}
    BY <2>1, Appended
  <2>4. 1 .. d = (1 .. (d - 1)) \cup {d}
    OBVIOUS
  <2>5. found[d] \in Seq(1 .. 7) /\ ToSet(found[d]) = ToSet(days) \cap (1 .. d)
    BY <2>1, <2>2, <2>3, <2>4
  <2> QED
    BY <2>5
<1>9. 7 \in P
  <2> HIDE DEF P
  <2>1. P \in SUBSET (0 .. 7) /\ 7 \in Nat
    BY DEF P
  <2>2. \A d \in 0 .. 7 : d \in P
    BY <1>7, <1>8, <2>1, UpTo
  <2> QED
    BY <2>2
<1> QED
  BY <1>1, <1>2, <1>9

LEMMA StepSpecIs ==
  ASSUME NEW step \in Step
  PROVE  /\ StepSpec(step) \in Step /\ StepSpec(step).type = step.type
         /\ step.type = "wait" => StepSpec(step).minutes = OrZero(step.minutes)
         /\ step.type = "action" => /\ StepSpec(step).command = step.command
                                    /\ StepSpec(step).parameters = step.parameters
                                    /\ StepSpec(step).targets = step.targets
<1>1. OrZero(step.minutes) \in Int /\ Empty \in Int
  <2>1. step.minutes \in Int
    BY DEF Step
  <2>2. Empty \in Int
    BY DEF Empty
  <2> QED
    BY <2>1, <2>2 DEF OrZero
<1> QED
  BY <1>1, StepsAre DEF StepSpec, Step, Wait

LEMMA ScheduleSpecIs ==
  ASSUME NEW s \in Schedule
  PROVE  ScheduleSpec(s) \in Schedule /\ SaysSchedule(ScheduleSpec(s), s)
<1>1. s.days \in Seq(1 .. 7) /\ OrZero(s.offset) \in Int /\ Empty \in Int
  BY DEF Schedule, OrZero, Empty
<1>2. DaysInOrder(s.days) \in Seq(1 .. 7) /\ ToSet(DaysInOrder(s.days)) = ToSet(s.days)
  BY <1>1, DaysInOrderIs
<1>3. s.offset # Empty => OrZero(s.offset) = s.offset
  BY DEF OrZero
<1> QED
  BY <1>1, <1>2, <1>3 DEF ScheduleSpec, SaysSchedule, Schedule

LEMMA ToSpecIs ==
  ASSUME NEW typed \in AnySpec
  PROVE  /\ ToSpec(typed) \in AnySpec
         /\ Valid(ToSpec(typed)) => Says(ToSpec(typed), typed)
<1> DEFINE spec == ToSpec(typed)
<1>1. typed.name \in Names /\ typed.steps \in Seq(Step) /\ typed.schedules \in Seq(Schedule)
  BY DEF AnySpec
<1>2. /\ spec.name = Bare[typed.name]
      /\ spec.steps = [i \in DOMAIN typed.steps |-> StepSpec(typed.steps[i])]
      /\ spec.schedules = [i \in DOMAIN typed.schedules |-> ScheduleSpec(typed.schedules[i])]
      /\ spec = [name |-> spec.name, steps |-> spec.steps, schedules |-> spec.schedules]
  BY DEF ToSpec
<1> HIDE DEF spec
<1>3. spec.name \in Names /\ Bare[spec.name] = Bare[typed.name]
  BY <1>1, <1>2, SceneEditorAssumption
<1>4. \A i \in DOMAIN typed.steps : typed.steps[i] \in Step
  BY <1>1
<1>5. \A i \in DOMAIN typed.schedules : typed.schedules[i] \in Schedule
  BY <1>1
<1>6. spec.steps \in Seq(Step)
  <2>1. \A i \in DOMAIN typed.steps : StepSpec(typed.steps[i]) \in Step
    BY <1>4, StepSpecIs
  <2>2. DOMAIN typed.steps = 1 .. Len(typed.steps) /\ Len(typed.steps) \in Nat
    BY <1>1
  <2> QED
    BY <1>2, <2>1, <2>2
<1>7. spec.schedules \in Seq(Schedule)
  <2>1. \A i \in DOMAIN typed.schedules : ScheduleSpec(typed.schedules[i]) \in Schedule
    BY <1>5, ScheduleSpecIs
  <2>2. DOMAIN typed.schedules = 1 .. Len(typed.schedules) /\ Len(typed.schedules) \in Nat
    BY <1>1
  <2> QED
    BY <1>2, <2>1, <2>2
<1>8. ASSUME Valid(spec), NEW i \in DOMAIN typed.steps
      PROVE  SaysStep(spec.steps[i], typed.steps[i])
  <2>1. typed.steps[i] \in Step /\ spec.steps[i] = StepSpec(typed.steps[i])
    BY <1>2, <1>4
  <2>2. ValidStep(spec.steps[i])
    BY <1>2, <1>8 DEF Valid
  <2>3. ASSUME typed.steps[i].type = "wait" PROVE spec.steps[i].minutes = typed.steps[i].minutes
    <3>1. spec.steps[i].type = "wait" /\ spec.steps[i].minutes = OrZero(typed.steps[i].minutes)
      BY <2>1, <2>3, StepSpecIs
    <3>2. spec.steps[i].minutes \in 1 .. 720
      BY <2>2, <3>1 DEF ValidStep
    <3> QED
      BY <3>1, <3>2 DEF OrZero
  <2> QED
    BY <2>1, <2>3, StepSpecIs DEF SaysStep
<1>9. \A i \in DOMAIN typed.schedules : SaysSchedule(spec.schedules[i], typed.schedules[i])
  BY <1>2, <1>5, ScheduleSpecIs
<1>10. spec \in AnySpec
  BY <1>2, <1>3, <1>6, <1>7, Zenon DEF AnySpec
<1>11. DOMAIN spec.steps = DOMAIN typed.steps /\ DOMAIN spec.schedules = DOMAIN typed.schedules
  BY <1>2
<1> QED
  BY <1>3, <1>8, <1>9, <1>10, <1>11 DEF Says, spec

-----------------------------------------------------------------------------
(* The changes of the draft.                                               *)
LEMMA Removed ==
  ASSUME NEW S, NEW s \in Seq(S), NEW i \in DOMAIN s
  PROVE  RemoveAt(s, i) \in Seq(S) /\ Len(RemoveAt(s, i)) = Len(s) - 1
<1>1. Len(s) \in Nat /\ i \in 1 .. Len(s) /\ \A j \in 1 .. Len(s) : s[j] \in S
  BY LenProperties
<1>2. SubSeq(s, 1, i - 1) \in Seq(S) /\ Len(SubSeq(s, 1, i - 1)) = i - 1
  BY <1>1, SubSeqProperties
<1>3. SubSeq(s, i + 1, Len(s)) \in Seq(S) /\ Len(SubSeq(s, i + 1, Len(s))) = Len(s) - i
  BY <1>1, SubSeqProperties
<1> DEFINE a == SubSeq(s, 1, i - 1)
           b == SubSeq(s, i + 1, Len(s))
<1>4. RemoveAt(s, i) = a \o b
  BY DEF RemoveAt
<1>5. a \in Seq(S) /\ b \in Seq(S) /\ Len(a) = i - 1 /\ Len(b) = Len(s) - i
  BY <1>2, <1>3
<1> HIDE DEF a, b
<1>6. a \o b \in Seq(S) /\ Len(a \o b) = Len(a) + Len(b)
  BY <1>5, ConcatProperties
<1> QED
  BY <1>1, <1>4, <1>5, <1>6

LEMMA Inserted ==
  ASSUME NEW S, NEW s \in Seq(S), NEW e \in S, NEW i \in 1 .. Len(s) + 1
  PROVE  InsertAt(s, i, e) \in Seq(S)
<1>1. Len(s) \in Nat /\ \A j \in 1 .. Len(s) : s[j] \in S
  BY LenProperties
<1>2. SubSeq(s, 1, i - 1) \in Seq(S)
  BY <1>1, SubSeqProperties
<1>3. SubSeq(s, i, Len(s)) \in Seq(S)
  BY <1>1, SubSeqProperties
<1>4. <<e>> \in Seq(S)
  OBVIOUS
<1> QED
  BY <1>2, <1>3, <1>4, ConcatProperties DEF InsertAt

\* The changes of the draft keep it a draft; those of its steps arm the timer, or are of
\* numbers.
Changes == \/ AddStep \/ RemoveStep \/ MoveStep
           \/ SetCommand \/ SetColor \/ SetTargets \/ SetAmount
           \/ SetName \/ SetSchedules
Changed(new) == Edit(new) /\ (timer' = TRUE \/ (timer' = timer /\ SameTargets(new.steps)))

LEMMA ChangesAre ==
  ASSUME Types, Changes
  PROVE  \E new \in AnySpec : Changed(new)
<1> DEFINE S == Step
<1>1. /\ draft \in AnySpec /\ draft.steps \in Seq(S) /\ Len(draft.steps) \in Nat
      /\ DOMAIN draft.steps = 1 .. Len(draft.steps) /\ \A i \in DOMAIN draft.steps : draft.steps[i] \in S
  <2>1. draft \in AnySpec
    BY DEF Types
  <2>2. draft.steps \in Seq(S)
    BY <2>1 DEF AnySpec
  <2> HIDE DEF S
  <2> QED
    BY <2>1, <2>2
<1>2. ASSUME NEW steps \in Seq(S), EditSteps(steps)
      PROVE  \E new \in AnySpec : Changed(new)
  <2>1. [draft EXCEPT !.steps = steps] \in AnySpec
    BY <1>1 DEF AnySpec
  <2> QED
    BY <2>1, <1>2 DEF EditSteps, Changed
<1>3. ASSUME NEW i \in DOMAIN draft.steps, NEW step \in S, EditStep(i, step)
      PROVE  \E new \in AnySpec : Changed(new)
  <2>1. [draft.steps EXCEPT ![i] = step] \in Seq(S)
    BY <1>1
  <2> HIDE DEF S
  <2> QED
    BY <2>1, <1>2, <1>3 DEF EditStep
<1>4. CASE AddStep
  <2>1. PICK s \in {NewAction, Wait} : EditSteps(Append(draft.steps, s))
    BY <1>4 DEF AddStep
  <2>2. Append(draft.steps, s) \in Seq(S)
    <3> HIDE DEF S
    <3>1. s \in S
      BY <2>1, StepsAre DEF S
    <3> QED
      BY <1>1, <3>1
  <2> QED
    BY <2>1, <2>2, <1>2
<1>5. CASE RemoveStep
  <2>1. PICK i \in DOMAIN draft.steps : EditSteps(RemoveAt(draft.steps, i))
    BY <1>5 DEF RemoveStep
  <2>2. RemoveAt(draft.steps, i) \in Seq(S)
    BY <1>1, Removed
  <2> QED
    BY <2>1, <2>2, <1>2
<1>6. CASE MoveStep
  <2>1. PICK i \in DOMAIN draft.steps, to \in DOMAIN draft.steps :
          to = i + 1 /\ EditSteps(InsertAt(RemoveAt(draft.steps, i), to, draft.steps[i]))
    BY <1>6 DEF MoveStep
  <2>2. RemoveAt(draft.steps, i) \in Seq(S) /\ Len(RemoveAt(draft.steps, i)) = Len(draft.steps) - 1
    BY <1>1, Removed
  <2>3. draft.steps[i] \in S /\ to \in 1 .. Len(RemoveAt(draft.steps, i)) + 1
    BY <1>1, <2>1, <2>2
  <2>4. InsertAt(RemoveAt(draft.steps, i), to, draft.steps[i]) \in Seq(S)
    BY <2>2, <2>3, Inserted
  <2> QED
    BY <2>1, <2>4, <1>2
<1>7. CASE SetCommand
  <2>1. PICK i \in DOMAIN draft.steps, command \in Commands :
          EditStep(i, [draft.steps[i] EXCEPT !.command = command, !.parameters = DefaultParameters(command)])
    BY <1>7 DEF SetCommand
  <2>2. command \in Command /\ DefaultParameters(command) \in Seq(Parameter)
    <3>1. command \in Command
      BY <2>1, SceneEditorAssumption
    <3>2. [is |-> "number", value |-> 50] \in Parameter /\ [is |-> "number", value |-> 2700] \in Parameter
          /\ [is |-> "color", value |-> 0] \in Parameter
      BY DEF Parameter
    <3>3. \A S1 : <<>> \in Seq(S1) /\ \A x \in S1 : <<x>> \in Seq(S1)
      OBVIOUS
    <3>4. DefaultParameters(command) \in Seq(Parameter)
      BY <3>2, <3>3 DEF DefaultParameters
    <3> QED
      BY <3>1, <3>4
  <2>3. [draft.steps[i] EXCEPT !.command = command, !.parameters = DefaultParameters(command)] \in S
    BY <1>1, <2>2 DEF Step
  <2> QED
    BY <2>1, <2>3, <1>3
<1>8. CASE SetColor
  <2>1. PICK i \in DOMAIN draft.steps, color \in Amounts :
          EditStep(i, [draft.steps[i] EXCEPT !.parameters = <<[is |-> "color", value |-> color]>>])
    BY <1>8 DEF SetColor
  <2>2. <<[is |-> "color", value |-> color]>> \in Seq(Parameter)
    <3>1. [is |-> "color", value |-> color] \in Parameter
      BY SceneEditorAssumption DEF Parameter
    <3>2. \A S1 : \A x \in S1 : <<x>> \in Seq(S1)
      OBVIOUS
    <3> QED
      BY <3>1, <3>2, Zenon
  <2>3. [draft.steps[i] EXCEPT !.parameters = <<[is |-> "color", value |-> color]>>] \in S
    BY <1>1, <2>2 DEF Step
  <2> QED
    BY <2>1, <2>3, <1>3
<1>9. CASE SetTargets
  <2>1. PICK i \in DOMAIN draft.steps, targets \in Targets :
          EditStep(i, [draft.steps[i] EXCEPT !.targets = targets])
    BY <1>9 DEF SetTargets
  <2>2. [draft.steps[i] EXCEPT !.targets = targets] \in S
    <3>1. targets \in Target
      BY <2>1, SceneEditorAssumption
    <3> QED
      BY <1>1, <3>1 DEF Step
  <2> QED
    BY <2>1, <2>2, <1>3
<1>10. CASE SetAmount
  <2>1. PICK i \in DOMAIN draft.steps, n \in Amounts \cup {Empty} :
          /\ RangeOf(draft.steps[i]) # {} /\ timer' = timer
          /\ Edit([draft EXCEPT !.steps[i] = Typed(@, n)])
    BY <1>10 DEF SetAmount
  <2> DEFINE step == draft.steps[i]
             other == Typed(step, n)
             new == [draft EXCEPT !.steps[i] = Typed(@, n)]
  <2>2. n \in Int /\ <<[is |-> IF n = Empty THEN "null" ELSE "number", value |-> n]>> \in Seq(Parameter)
    <3>1. n \in Int
      <4>1. Empty \in Int
        BY DEF Empty
      <4> QED
        BY <2>1, <4>1, SceneEditorAssumption
    <3>2. [is |-> IF n = Empty THEN "null" ELSE "number", value |-> n] \in Parameter
      BY <3>1 DEF Parameter
    <3>3. \A S1 : \A x \in S1 : <<x>> \in Seq(S1)
      OBVIOUS
    <3> QED
      BY <3>1, <3>2, <3>3, Zenon
  <2>3. other \in S /\ other.type = step.type /\ other.command = step.command /\ other.targets = step.targets
    BY <1>1, <2>2 DEF Typed, Step
  <2> HIDE DEF other
  <2>4. new = [draft EXCEPT !.steps = [draft.steps EXCEPT ![i] = other]]
    BY <1>1 DEF AnySpec, other
  <2>5. [draft.steps EXCEPT ![i] = other] \in Seq(S)
    BY <1>1, <2>3
  <2> HIDE DEF S, new
  <2>6. new \in AnySpec /\ new.steps = [draft.steps EXCEPT ![i] = other]
    BY <1>1, <2>4, <2>5 DEF AnySpec, S
  <2>7. SameTargets(new.steps)
    BY <2>6, <2>3, <1>1 DEF SameTargets
  <2> QED
    BY <2>1, <2>6, <2>7 DEF Changed, new
<1>11. CASE SetName
  <2>1. PICK name \in Names : Edit([draft EXCEPT !.name = name]) /\ timer' = timer
    BY <1>11 DEF SetName
  <2>2. [draft EXCEPT !.name = name] \in AnySpec /\ [draft EXCEPT !.name = name].steps = draft.steps
    BY <1>1 DEF AnySpec
  <2> QED
    BY <2>1, <2>2 DEF Changed, SameTargets
<1>12. CASE SetSchedules
  <2>1. PICK s \in Schedules : Edit([draft EXCEPT !.schedules = s]) /\ timer' = timer
    BY <1>12 DEF SetSchedules
  <2>2. [draft EXCEPT !.schedules = s] \in AnySpec /\ [draft EXCEPT !.schedules = s].steps = draft.steps
    BY <1>1, SceneEditorAssumption DEF AnySpec
  <2> QED
    BY <2>1, <2>2 DEF Changed, SameTargets
<1> QED
  BY <1>4, <1>5, <1>6, <1>7, <1>8, <1>9, <1>10, <1>11, <1>12 DEF Changes

\* What is sent of the draft has its targets.
LEMMA SentSame ==
  ASSUME Types
  PROVE  ToSpec(draft) \in AnySpec /\ ToSpec(draft).steps \in Seq(Step) /\ SameTargets(ToSpec(draft).steps)
<1>1. draft \in AnySpec /\ draft.steps \in Seq(Step)
  BY DEF Types, AnySpec
<1>2. ToSpec(draft) \in AnySpec
  BY <1>1, ToSpecIs
<1>3. ToSpec(draft).steps = [i \in DOMAIN draft.steps |-> StepSpec(draft.steps[i])]
  BY DEF ToSpec
<1>4. \A i \in DOMAIN draft.steps : draft.steps[i] \in Step
  BY <1>1
<1>5. SameTargets(ToSpec(draft).steps)
  BY <1>3, <1>4, StepSpecIs DEF SameTargets
<1> QED
  BY <1>2, <1>5 DEF AnySpec

-----------------------------------------------------------------------------
(* The steps: the user at the dialog, the preview, the recording, the rest. *)
LEMMA EditorNextIs ==
  ASSUME [Next]_vars
  PROVE  \/ \E id \in {0, 1} : Open(id)
         \/ Close \/ Save \/ Changes \/ Elsewhere \/ TimerFires
         \/ \E c \in calls : ServeResolve(c) \/ ServeSave(c)
         \/ \E c \in calls : PreviewArrives(c) \/ SaveArrives(c)
         \/ \E c \in calls : PreviewFails(c) \/ SaveFails(c)
         \/ UNCHANGED vars
  BY DEF Next, User, Serve, Arrive, Changes

LEMMA EditorTypesStep ==
  ASSUME Types, [Next]_vars
  PROVE  Types'
<1> USE DEF server, dialog, shownPreview
<1>1. ASSUME NEW id \in {0, 1}, Open(id) PROVE Types'
  BY <1>1, StepsAre DEF Open, Types
<1>2. CASE Close
  BY <1>2 DEF Close, Types
<1>3. CASE Save
  <2>1. ToSpec(draft) \in AnySpec
    BY SentSame
  <2> QED
    BY <2>1, <1>3 DEF Save, Types
<1>4. CASE Changes
  <2>1. PICK new \in AnySpec : Edit(new)
    BY <1>4, ChangesAre DEF Changed
  <2> QED
    BY <2>1 DEF Edit, Types
<1>5. CASE Elsewhere
  <2>1. "renamed" \in Names
    BY SceneEditorAssumption
  <2>2. scene' \in AnySpec /\ home' \in Homes
    BY <2>1, <1>5, StepsAre DEF Elsewhere, Types, AnySpec
  <2> QED
    BY <2>2, <1>5 DEF Elsewhere, Types
<1>6. CASE TimerFires
  <2>1. ToSpec(draft).steps \in Seq(Step)
    BY SentSame
  <2> QED
    BY <2>1, <1>6 DEF TimerFires, Types
<1>7. ASSUME NEW c \in calls, ServeResolve(c) PROVE Types'
  <2>1. c.n \in 0 .. asked /\ [steps |-> c.steps, home |-> home] \in Answer
    BY <1>7 DEF ServeResolve, Types, Answer
  <2> QED
    BY <2>1, <1>7 DEF ServeResolve, Types
<1>8. ASSUME NEW c \in calls, ServeSave(c) PROVE Types'
  BY <1>8 DEF ServeSave, Types
<1>9. ASSUME NEW c \in calls, PreviewArrives(c) PROVE Types'
  BY <1>9 DEF PreviewArrives, Shows, Types
<1>10. ASSUME NEW c \in calls, PreviewFails(c) PROVE Types'
  BY <1>10, StepsAre DEF PreviewFails, Shows, Types
<1>11. ASSUME NEW c \in calls, SaveArrives(c) \/ SaveFails(c) PROVE Types'
  BY <1>11 DEF SaveArrives, SaveFails, SaveAnswered, Types
<1>12. CASE UNCHANGED vars
  BY <1>12 DEF vars, Types
<1> QED
  BY EditorNextIs, <1>1, <1>2, <1>3, <1>4, <1>5, <1>6, <1>7, <1>8, <1>9, <1>10, <1>11, <1>12

LEMMA PreviewedStep ==
  ASSUME Types, Previewed, [Next]_vars
  PROVE  Previewed'
<1> USE DEF server, dialog, shownPreview
<1>1. ASSUME timer' = TRUE PROVE Previewed'
  BY <1>1 DEF Previewed
<1>2. ASSUME draft' = draft, timer' = timer, preview' = preview, asked' = asked, shown' = shown,
             \A c \in calls' : c.op \in {"resolve", "resolved"} => c \in calls
      PROVE  Previewed'
  BY <1>2 DEF Previewed, SameTargets
<1>3. CASE Changes
  <2>1. PICK new \in AnySpec : Edit(new) /\ (timer' = TRUE \/ (timer' = timer /\ SameTargets(new.steps)))
    BY <1>3, ChangesAre DEF Changed
  <2>2. CASE timer' = timer /\ SameTargets(new.steps)
    <3>1. draft' = new /\ calls' = calls /\ preview' = preview /\ asked' = asked /\ shown' = shown
      BY <2>1 DEF Edit
    <3> QED
      BY <2>2, <3>1 DEF Previewed, SameTargets
  <2> QED
    BY <2>1, <2>2, <1>1
<1>4. CASE TimerFires
  <2>1. SameTargets(ToSpec(draft).steps)
    BY SentSame
  <2>2. draft' = draft /\ preview' = preview /\ asked' = asked + 1 /\ shown' = shown
        /\ calls' = calls \cup {[op |-> "resolve", n |-> asked + 1, steps |-> ToSpec(draft).steps]}
    BY <1>4 DEF TimerFires
  <2> HIDE DEF SameTargets
  <2>3. shown' # asked' /\ \A c \in calls : c.op \in {"resolve", "resolved"} => c.n # asked'
    BY <2>2 DEF Types
  <2>4. \A c \in calls' : c.op \in {"resolve", "resolved"} /\ c.n = asked' =>
          c.op = "resolve" /\ c.steps = ToSpec(draft).steps
    BY <2>2, <2>3
  <2>5. ASSUME NEW steps, SameTargets(steps) PROVE SameTargets(steps)'
    BY <2>2, <2>5 DEF SameTargets
  <2>6. \A c \in calls' : c.op = "resolve" /\ c.n = asked' => SameTargets(c.steps)'
    BY <2>1, <2>4, <2>5
  <2> QED
    BY <2>3, <2>4, <2>6 DEF Previewed
<1>5. ASSUME NEW c \in calls, ServeResolve(c) PROVE Previewed'
  <2>1. /\ draft' = draft /\ preview' = preview /\ asked' = asked /\ shown' = shown /\ timer' = timer
        /\ c.op = "resolve" /\ home \in Homes
        /\ calls' = (calls \ {c}) \cup
             {[op |-> "resolved", n |-> c.n, answer |-> [steps |-> c.steps, home |-> home]]}
    BY <1>5 DEF ServeResolve, Types
  <2> QED
    BY <2>1 DEF Previewed, SameTargets
<1>6. ASSUME NEW c \in calls, PreviewArrives(c) PROVE Previewed'
  <2>1. /\ draft' = draft /\ asked' = asked /\ timer' = timer /\ calls' = calls \ {c}
        /\ c.op = "resolved" /\ preview' = c.answer /\ shown' = c.n
    BY <1>6 DEF PreviewArrives, Shows
  <2> QED
    BY <2>1 DEF Previewed, SameTargets
<1>7. ASSUME NEW c \in calls, PreviewFails(c) PROVE Previewed'
  <2>1. draft' = draft /\ asked' = asked /\ timer' = timer /\ calls' = calls \ {c} /\ shown' = 0
    BY <1>7 DEF PreviewFails, Shows
  <2> QED
    BY <2>1 DEF Previewed, SameTargets, Types
<1>8. ASSUME NEW id \in {0, 1}, Open(id) PROVE Previewed'
  BY <1>1, <1>8 DEF Open
<1>9. CASE Close \/ Elsewhere \/ UNCHANGED vars
  BY <1>2, <1>9 DEF Close, Elsewhere, vars
<1>10. CASE Save
  BY <1>2, <1>10 DEF Save
<1>11. ASSUME NEW c \in calls, ServeSave(c) PROVE Previewed'
  BY <1>2, <1>11 DEF ServeSave
<1>12. ASSUME NEW c \in calls, SaveArrives(c) \/ SaveFails(c) PROVE Previewed'
  BY <1>2, <1>12 DEF SaveArrives, SaveFails, SaveAnswered
<1> QED
  BY EditorNextIs, <1>3, <1>4, <1>5, <1>6, <1>7, <1>8, <1>9, <1>10, <1>11, <1>12

\* A step during a Save that changes what it is compared with crosses it.
LEMMA SavesStep ==
  ASSUME Types, SavesDraft, [Next]_vars
  PROVE  SavesDraft'
<1> USE DEF server, dialog, shownPreview
<1>1. ASSUME Crossing, calls' = calls PROVE SavesDraft'
  BY <1>1 DEF Crossing, SavesAmong, OfSave, SavesDraft
<1>2. ASSUME draft' = draft, editedId' = editedId, scene' = scene, created' = created, crossed' = crossed,
             \A c \in calls' : OfSave(c) => c \in calls
      PROVE  SavesDraft'
  BY <1>2 DEF SavesDraft, OfSave
<1>3. ASSUME NEW c \in calls, ServeSave(c) PROVE SavesDraft'
  <2>1. /\ draft' = draft /\ editedId' = editedId /\ crossed' = crossed /\ c.op = "save"
        /\ calls' = (calls \ {c}) \cup {[op |-> "saved", n |-> c.n, ok |-> Accepted(c)]}
        /\ scene' = IF Accepted(c) /\ c.id = 1 THEN c.spec ELSE scene
        /\ created' = IF Accepted(c) /\ c.id = 0 THEN c.spec ELSE created
    BY <1>3 DEF ServeSave
  <2> SUFFICES ASSUME ~crossed,
                      NEW d \in calls'
               PROVE  /\ d.op = "save" => d.id = editedId /\ d.spec = ToSpec(draft)
                      /\ d.op = "saved" /\ d.ok => ToSpec(draft) = IF editedId = 1 THEN scene' ELSE created'
    BY <2>1 DEF SavesDraft
  <2>2. c.id = editedId /\ c.spec = ToSpec(draft) /\ editedId \in {0, 1}
    BY <2>1 DEF SavesDraft, Types
  <2>3. CASE d \in calls
    BY <2>1, <2>2, <2>3 DEF SavesDraft
  <2>4. CASE d = [op |-> "saved", n |-> c.n, ok |-> Accepted(c)]
    BY <2>1, <2>2, <2>4
  <2> QED
    BY <2>1, <2>3, <2>4
<1>4. ASSUME NEW c \in calls, SaveArrives(c) \/ SaveFails(c) PROVE SavesDraft'
  <2>1. /\ draft' = draft /\ editedId' = editedId /\ scene' = scene /\ created' = created
        /\ calls' = calls \ {c} /\ StillCrossed(c)
    BY <1>4 DEF SaveArrives, SaveFails, SaveAnswered
  <2>2. CASE SavesAmong(calls \ {c}) = {}
    BY <2>1, <2>2 DEF SavesAmong, OfSave, SavesDraft
  <2>3. CASE SavesAmong(calls \ {c}) # {}
    <3>1. crossed' \in BOOLEAN /\ (~crossed' => ~crossed)
      BY <2>1, <2>3 DEF StillCrossed
    <3> QED
      BY <2>1, <3>1 DEF SavesDraft
  <2> QED
    BY <2>2, <2>3
<1>5. CASE Save
  <2>1. PICK n \in 1 .. MaxCalls :
          calls' = calls \cup {[op |-> "save", n |-> n, id |-> editedId, spec |-> ToSpec(draft)]}
    BY <1>5 DEF Save
  <2>2. draft' = draft /\ editedId' = editedId /\ scene' = scene /\ created' = created /\ crossed' = crossed
    BY <1>5 DEF Save
  <2> HIDE DEF ToSpec
  <2> QED
    BY <2>1, <2>2 DEF SavesDraft
<1>6. ASSUME NEW id \in {0, 1}, Open(id) PROVE SavesDraft'
  BY <1>1, <1>6 DEF Open
<1>7. CASE Close
  BY <1>1, <1>7 DEF Close
<1>8. CASE Changes
  BY <1>1, <1>8, ChangesAre DEF Changed, Edit
<1>9. CASE Elsewhere
  BY <1>1, <1>2, <1>9 DEF Elsewhere
<1>10. CASE TimerFires
  BY <1>2, <1>10 DEF TimerFires, OfSave
<1>11. ASSUME NEW c \in calls, ServeResolve(c) PROVE SavesDraft'
  BY <1>2, <1>11 DEF ServeResolve, OfSave
<1>12. ASSUME NEW c \in calls, PreviewArrives(c) \/ PreviewFails(c) PROVE SavesDraft'
  BY <1>2, <1>12 DEF PreviewArrives, PreviewFails, Shows
<1>13. CASE UNCHANGED vars
  BY <1>2, <1>13 DEF vars
<1> QED
  BY EditorNextIs, <1>3, <1>4, <1>5, <1>6, <1>7, <1>8, <1>9, <1>10, <1>11, <1>12, <1>13

LEMMA RecordedStep ==
  ASSUME Types, Recorded, [Next]_vars
  PROVE  Recorded'
<1> USE DEF server, dialog, shownPreview
<1>1. ASSUME scene' = scene, created' = created PROVE Recorded'
  BY <1>1 DEF Recorded
<1>2. CASE Elsewhere
  <2>1. created' = created /\ (scene' = scene \/ scene' = NoScene \/ scene' = [scene EXCEPT !.name = "renamed"])
    BY <1>2 DEF Elsewhere
  <2>2. [scene EXCEPT !.name = "renamed"].steps = scene.steps
    BY DEF Types, AnySpec
  <2> QED
    BY <2>1, <2>2, StepsAre DEF Recorded, Valid
<1>3. ASSUME NEW c \in calls, ServeSave(c) PROVE Recorded'
  <2>1. Accepted(c) => Valid(c.spec)
    BY DEF Accepted, Validate, Valid
  <2> QED
    BY <2>1, <1>3 DEF ServeSave, Recorded
<1>4. CASE Changes
  <2>1. PICK new \in AnySpec : Edit(new)
    BY <1>4, ChangesAre DEF Changed
  <2> QED
    BY <2>1, <1>1 DEF Edit
<1>5. CASE \/ \E id \in {0, 1} : Open(id)
          \/ Close \/ Save \/ TimerFires \/ UNCHANGED vars
  BY <1>5, <1>1 DEF Open, Close, Save, TimerFires, vars
<1>6. ASSUME NEW c \in calls, \/ ServeResolve(c) \/ PreviewArrives(c) \/ PreviewFails(c)
                              \/ SaveArrives(c) \/ SaveFails(c)
      PROVE  Recorded'
  BY <1>6, <1>1 DEF ServeResolve, PreviewArrives, PreviewFails, Shows, SaveArrives, SaveFails, SaveAnswered
<1> QED
  BY EditorNextIs, <1>2, <1>3, <1>4, <1>5, <1>6

LEMMA EditorInvariance == Spec => []EInv
<1>1. Init => EInv
  BY StepsAre DEF Init, EInv, Types, Previewed, SavesDraft, Recorded
<1>2. EInv /\ [Next]_vars => EInv'
  BY EditorTypesStep, PreviewedStep, SavesStep, RecordedStep DEF EInv
<1> QED
  BY <1>1, <1>2, PTL DEF Spec

-----------------------------------------------------------------------------
(* The theorems of the editor. *)
LEMMA DataAre ==
  /\ \A step \in Step : step.targets.devices \in Seq(STRING) /\ step.targets.rooms \in Seq(STRING)
  /\ \A devices \in Homes : devices \in Seq(Device) /\ Distinct(devices)
  BY SceneEditorAssumption DEF Step, Target, Distinct

LEMMA PreviewIsOfDraft ==
  ASSUME EInv, LastAnswerShown
  PROVE  /\ SameTargets(preview.steps) /\ preview.home \in Homes
         /\ preview.steps \in Seq(Step) /\ draft.steps \in Seq(Step)
  BY DEF EInv, Previewed, LastAnswerShown, Types, Answer, AnySpec

\* The last answer asked for, whatever the order the answers came in, tells of each step of
\* the draft the devices it reaches and those it sets aside, although a number of the draft
\* may have changed since without a word (scene-editor.ts changed, refreshPreview;
\* scene-editor.html; resolve.go Resolve).
THEOREM PreviewTells == Spec => []PreviewTellsTargets
<1>1. ASSUME EInv PROVE PreviewTellsTargets
  <2> SUFFICES ASSUME LastAnswerShown
               PROVE  /\ DOMAIN preview.steps = DOMAIN draft.steps
                      /\ \A i \in DOMAIN Shown : Exact(draft.steps[i], preview.home, Shown[i])
    BY DEF PreviewTellsTargets
  <2>1. /\ SameTargets(preview.steps) /\ preview.home \in Homes
        /\ preview.steps \in Seq(Step) /\ draft.steps \in Seq(Step)
    BY <1>1, PreviewIsOfDraft
  <2>2. ASSUME NEW i \in DOMAIN Shown
        PROVE  Exact(draft.steps[i], preview.home, Shown[i])
    <3> DEFINE sent == preview.steps[i]
               step == draft.steps[i]
    <3>1. i \in DOMAIN preview.steps /\ Shown[i] = Resolve(sent, preview.home)
      BY DEF Shown, ResolveAll
    <3>2. sent \in Step
      BY <2>1, <3>1
    <3>3. Exact(sent, preview.home, Shown[i])
      BY <2>1, <3>1, <3>2, DataAre, ResolveIsExact
    <3>4. i \in DOMAIN draft.steps /\ sent.type = step.type
          /\ (step.type = "action" => sent.command = step.command /\ sent.targets = step.targets)
      BY <2>1, <3>1 DEF SameTargets
    <3> HIDE DEF sent, step
    <3> DEFINE meant(x) == {d \in ToSet(preview.home) : x.type = "action" /\ Meant(x, d)}
               able(x) == {d \in meant(x) : Incompatibility(x, d) = ""}
               gone(x) == IF x.type = "action" THEN ToSet(x.targets.devices) \ Ids(preview.home) ELSE {}
    <3>5. meant(sent) = meant(step) /\ able(sent) = able(step) /\ gone(sent) = gone(step)
      <4>1. CASE step.type = "action"
        <5>1. \A d : Meant(sent, d) <=> Meant(step, d)
          BY <3>4, <4>1 DEF Meant
        <5>2. \A d : Incompatibility(sent, d) = Incompatibility(step, d)
          BY <3>4, <4>1 DEF Incompatibility
        <5> QED
          BY <3>4, <4>1, <5>1, <5>2
      <4>2. CASE step.type # "action"
        BY <3>4, <4>2
      <4> QED
        BY <4>1, <4>2
    <3> DEFINE told == [k \in DOMAIN Shown[i].ignored |-> Shown[i].ignored[k][1]]
               IsExact(m, a, g) ==
                 /\ ToSet(Shown[i].targets) = {d.id : d \in a}
                 /\ ToSet(told) = {d.id : d \in m \ a} \cup g
                 /\ IsInjective(Shown[i].targets) /\ IsInjective(told)
    <3>6. /\ Exact(sent, preview.home, Shown[i]) <=> IsExact(meant(sent), able(sent), gone(sent))
          /\ Exact(step, preview.home, Shown[i]) <=> IsExact(meant(step), able(step), gone(step))
      BY DEF Exact
    <3> HIDE DEF IsExact, meant, able, gone
    <3> QED
      BY <3>3, <3>5, <3>6 DEF step
  <2> QED
    BY <2>1, <2>2 DEF SameTargets
<1> QED
  BY <1>1, EditorInvariance, PTL

\* A relay among the targets of some step is a relay some action is meant for, and back.
LEMMA RelayIsDriven ==
  ASSUME NEW step \in Step, NEW devices \in Homes
  PROVE  (\E id \in ToSet(Resolve(step, devices).targets) : ById(id, devices).kind = "switch")
           <=> \E d \in ToSet(devices) : /\ step.type = "action" /\ Meant(step, d)
                                         /\ Incompatibility(step, d) = "" /\ d.kind = "switch"
<1> DEFINE able == {d \in {e \in ToSet(devices) : step.type = "action" /\ Meant(step, e)} :
                      Incompatibility(step, d) = ""}
<1>1. ToSet(Resolve(step, devices).targets) = {d.id : d \in able}
  BY DataAre, ResolveIsExact DEF Exact
<1>2. ASSUME NEW d \in able PROVE ById(d.id, devices) = d
  <2>1. PICK i \in DOMAIN devices : d = devices[i]
    BY DEF ToSet
  <2> QED
    BY <2>1, DataAre, DeviceIs
<1> QED
  BY <1>1, <1>2

LEMMA RelaysAreDriven ==
  ASSUME NEW steps \in Seq(Step), NEW devices \in Homes
  PROVE  TouchesRelays(steps, devices) <=> DrivesRelay(steps, devices)
<1>1. \A i \in DOMAIN steps : steps[i] \in Step
  OBVIOUS
<1> QED
  BY <1>1, RelayIsDriven DEF TouchesRelays, DrivesRelay

LEMMA SameRelays ==
  ASSUME NEW steps, SameTargets(steps), NEW devices
  PROVE  DrivesRelay(steps, devices) <=> DrivesRelay(draft.steps, devices)
<1>1. ASSUME NEW i \in DOMAIN draft.steps, draft.steps[i].type = "action", NEW d
      PROVE  /\ Meant(steps[i], d) <=> Meant(draft.steps[i], d)
             /\ Incompatibility(steps[i], d) = Incompatibility(draft.steps[i], d)
  BY <1>1 DEF SameTargets, Meant, Incompatibility
<1> QED
  BY <1>1 DEF SameTargets, DrivesRelay

\* The dialog warns of a relay exactly when an action of the draft is meant for one and the
\* draft has a schedule; the list of scenes would ask, once the draft is recorded, exactly
\* when one is (scene-editor.ts touchesRelays, scene-editor.html, state.go touchesRelays).
THEOREM RelaysAnnounced == Spec => []RelaysAreAnnounced
<1>1. ASSUME EInv PROVE RelaysAreAnnounced
  <2> DEFINE drives == DrivesRelay(draft.steps, preview.home)
  <2> SUFFICES ASSUME LastAnswerShown
               PROVE  /\ Warned <=> drives /\ draft.schedules # <<>>
                      /\ TouchesRelays(ToSpec(draft).steps, preview.home) <=> drives
    BY DEF RelaysAreAnnounced
  <2>1. SameTargets(preview.steps) /\ preview.home \in Homes /\ preview.steps \in Seq(Step)
    BY <1>1, PreviewIsOfDraft
  <2>2. TouchesRelays(preview.steps, preview.home) <=> drives
    BY <2>1, RelaysAreDriven, SameRelays
  <2>3. DOMAIN Shown = DOMAIN preview.steps
        /\ \A i \in DOMAIN preview.steps : Shown[i] = Resolve(preview.steps[i], preview.home)
    BY DEF Shown, ResolveAll
  <2>4. Warned <=> TouchesRelays(preview.steps, preview.home) /\ draft.schedules # <<>>
    BY <2>3 DEF Warned, TouchesRelays, IsRelay
  <2>5. TouchesRelays(ToSpec(draft).steps, preview.home) <=> drives
    <3>1. SameTargets(ToSpec(draft).steps) /\ ToSpec(draft).steps \in Seq(Step)
      BY <1>1, SentSame DEF EInv
    <3> QED
      BY <2>1, <3>1, RelaysAreDriven, SameRelays
  <2> QED
    BY <2>2, <2>4, <2>5
<1> QED
  BY <1>1, EditorInvariance, PTL

LEMMA ValidIsKnown ==
  ASSUME NEW step, step.type = "action", ValidStep(step), NEW id, NEW devices
  PROVE  Reason(step, id, devices) # "unknown action"
<1>1. step.command \in {"on", "off", "open", "close", "stop", "setBrightness", "setColor", "setColorTemperature"}
  <2>1. ValidParameters(step.command, step.parameters)
    BY DEF ValidStep, ValidAction
  <2>2. ASSUME NEW command, NEW p, ValidParameters(command, p),
               command \notin {"on", "off", "open", "close", "stop"},
               command # "setBrightness", command # "setColorTemperature", command # "setColor"
        PROVE  FALSE
    <3>1. ~(command \in {"on", "off", "open", "close", "stop"} \/ command = "setBrightness"
            \/ command = "setColorTemperature" \/ command = "setColor")
      BY <2>2
    <3> QED
      BY <2>2, <3>1, SMT DEF ValidParameters
  <2> QED
    BY <2>1, <2>2
<1>2. step.command \in DOMAIN KindsFor \/ step.command \in DOMAIN StateKeyFor
  <2>1. DOMAIN KindsFor = {"on", "off", "open", "close", "stop"}
    BY DEF KindsFor
  <2>2. DOMAIN StateKeyFor = {"setBrightness", "setColor", "setColorTemperature"}
    BY DEF StateKeyFor
  <2> QED
    BY <1>1, <2>1, <2>2
<1>3. ASSUME NEW d PROVE Incompatibility(step, d) # "unknown action"
  BY <1>2 DEF Incompatibility
<1> QED
  BY <1>3 DEF Reason

\* No action the API accepts is unknown to the resolution (validate.go validateAction,
\* resolve.go incompatibility): once recorded, no device is set aside for that.
THEOREM RecordedKnown == Spec => RecordedIsKnown
<1>1. ASSUME EInv, NEW spec \in AnySpec, Valid(spec) PROVE KnownIn(spec)
  <2> SUFFICES ASSUME NEW i \in DOMAIN spec.steps,
                      NEW told \in ToSet(Resolve(spec.steps[i], home).ignored)
               PROVE  told[2] # "unknown action"
    BY DEF KnownIn
  <2> DEFINE step == spec.steps[i]
             ids == Designated(step, home)
             found == ConsiderAll(step, home, ids)
  <2>a. spec.steps \in Seq(Step)
    BY DEF AnySpec
  <2>1. step \in Step /\ home \in Homes /\ ValidStep(step)
    BY <1>1, <2>a DEF EInv, Types, Valid
  <2> HIDE DEF step
  <2>2. CASE step.type # "action"
    <3>1. Resolve(step, home).ignored = <<>> /\ ToSet(<<>>) = {}
      BY <2>2 DEF Resolve, ToSet
    <3> QED
      BY <3>1 DEF step
  <2>3. CASE step.type = "action"
    <3>1. Resolve(step, home).ignored = found.ignored
      BY <2>3 DEF Resolve
    <3>2. ids \in Seq(STRING)
      BY <2>1, DataAre, DesignatedIs
    <3>3. Sorted(step, home, found, ToSet(ids))
      BY <3>2, AllConsidered
    <3>4. PICK id \in ToSet(ids) : told = <<id, Reason(step, id, home)>>
      BY <3>1, <3>3 DEF Sorted, step
    <3>5. told[2] = Reason(step, id, home)
      BY <3>4
    <3> QED
      BY <3>5, <2>1, <2>3, ValidIsKnown
  <2> QED
    BY <2>2, <2>3
<1>2. EInv /\ EInv' =>
        [\A spec \in {created', scene'} \ {created, scene} : KnownIn(spec)]_vars
  BY <1>1 DEF EInv, Types, Recorded
<1> QED
  BY <1>2, EditorInvariance, PTL DEF Spec, RecordedIsKnown

\* A dialog that the answer of a Save closes has what it shows in the store, in what each
\* step and each schedule says, however many Saves are under way, unless something changed
\* meanwhile (scene-editor.ts save, toSpec; api/scenes.go create-scene, update-scene).
THEOREM ClosedRecorded == Spec => ClosedIsRecorded
<1>1. ASSUME EInv, NEW c \in calls, visible /\ ~visible' /\ SaveArrives(c) /\ ~crossed
      PROVE  Says(IF editedId = 1 THEN scene ELSE created, draft)
  <2>1. c.op = "saved" /\ c.ok
    BY <1>1 DEF SaveArrives, SaveAnswered
  <2>2. ToSpec(draft) = IF editedId = 1 THEN scene ELSE created
    BY <1>1, <2>1 DEF EInv, SavesDraft
  <2>3. Valid(ToSpec(draft)) /\ draft \in AnySpec
    BY <1>1, <2>2 DEF EInv, Recorded, Types
  <2> QED
    BY <2>2, <2>3, ToSpecIs
<1>2. EInv /\ [Next]_vars =>
        [\A c \in calls : visible /\ ~visible' /\ SaveArrives(c) /\ ~crossed =>
           Says(IF editedId = 1 THEN scene ELSE created, draft)]_vars
  BY <1>1
<1> QED
  BY <1>2, EditorInvariance, PTL DEF Spec, ClosedIsRecorded

-----------------------------------------------------------------------------
(***************************************************************************)
(* The list of scenes.                                                     *)
(***************************************************************************)
SceneRow == [name : Int, room : Rooms, position : Nat \cup {Unranked}]
Entry == [id : Nat, name : Int, room : Rooms, touches : BOOLEAN]
IsTable(t, last) == DOMAIN t \subseteq 1 .. last /\ t \in [DOMAIN t -> SceneRow]

AnyRequest ==
  [op : {"load", "create", "update", "delete", "run", "order"},
   stage : {"sent", "written", "read", "answered"}, id : Nat, spec : Specs, ids : Seq(Nat),
   wrote : Nat, at : Nat, views : Seq(Entry)]

TabsTypes ==
  /\ lastId \in Nat /\ IsTable(table, lastId) /\ relayRoom \in Rooms
  /\ version \in Nat /\ version >= 1 /\ seen \in 0 .. version
  /\ requests \subseteq AnyRequest

\* What is said of a scene, from a state of the table and a room of the relay.
Told(id, t, relay) == [id |-> id, name |-> t[id].name, room |-> t[id].room, touches |-> t[id].room = relay]

\* The history: tables[k] and relays[k] are what version k was, t and relay the last one.
IsHistory(tables, relays, last, t, relay, lastKey) ==
  /\ DOMAIN tables = 1 .. last /\ DOMAIN relays = 1 .. last
  /\ tables[last] = t /\ relays[last] = relay
  /\ \A k \in 1 .. last : IsTable(tables[k], lastKey)

\* A list shows version k, but for the relay, which is where it was then or since; scenes
\* that have a position are in their order.
Tells(v, k, tables, relays, last) == \E r \in k .. last : v = Told(v.id, tables[k], relays[r])
InOrder(views, t) ==
  \A i, j \in DOMAIN views :
    i < j /\ t[views[i].id].position # Unranked /\ t[views[j].id].position # Unranked
      => t[views[i].id].position < t[views[j].id].position
TrueOf(views, k, tables, relays, last) ==
  /\ \A i, j \in DOMAIN views : views[i].id = views[j].id => i = j
  /\ {views[i].id : i \in DOMAIN views} = DOMAIN tables[k]
  /\ \A i \in DOMAIN views : Tells(views[i], k, tables, relays, last)
  /\ InOrder(views, tables[k])

\* What a request did to the version before the one it wrote.
Adds(c, before, after) ==
  /\ c.id \notin DOMAIN before /\ DOMAIN after = DOMAIN before \cup {c.id}
  /\ \A id \in DOMAIN before : after[id] = before[id] /\ before[id].position < after[c.id].position
Replaces(c, before, after) ==
  /\ c.id \in DOMAIN before /\ DOMAIN after = DOMAIN before
  /\ \A id \in DOMAIN before : after[id].position = before[id].position /\ (id # c.id => after[id] = before[id])
Removes(c, before, after) ==
  /\ DOMAIN after = DOMAIN before \ {c.id} /\ \A id \in DOMAIN after : after[id] = before[id]
Did(c, before, after) ==
  /\ c.op = "create" => Adds(c, before, after)
  /\ c.op = "update" => Replaces(c, before, after)
  /\ c.op = "delete" => Removes(c, before, after)
WroteOnce(c, tables, relays, last) ==
  /\ c.wrote \in 2 .. last /\ relays[c.wrote] = relays[c.wrote - 1]
  /\ Did(c, tables[c.wrote - 1], tables[c.wrote])

\* What a request answers is what it read.
ToldOne(c, tables, relays, last) ==
  /\ c.at \in 1 .. last /\ c.id \in DOMAIN tables[c.at]
  /\ \E v \in Entry : c.views = <<v>> /\ v.id = c.id /\ Tells(v, c.at, tables, relays, last)
Traced(c, tables, relays, last) ==
  /\ c.op \in {"create", "update", "delete"} /\ c.stage # "sent" => WroteOnce(c, tables, relays, last)
  /\ c.op \in {"load", "order"} /\ c.stage \in {"read", "answered"} =>
       c.at \in 1 .. last /\ TrueOf(c.views, c.at, tables, relays, last)
  /\ c.op \in {"create", "update", "run"} /\ c.stage \in {"read", "answered"} =>
       ToldOne(c, tables, relays, last)
  /\ c.op = "delete" /\ c.stage # "sent" => c.at = c.wrote

Explained(tables, relays) ==
  /\ IsHistory(tables, relays, version, table, relayRoom, lastId)
  /\ seen # 0 => TrueOf(list, seen, tables, relays, version)
  /\ \A c \in requests : Traced(c, tables, relays, version)

TInv ==
  /\ TabsTypes /\ list \in Seq(Entry) /\ PositionsAreDistinct
  /\ \E tables, relays : Explained(tables, relays)

-----------------------------------------------------------------------------
(* The positions of the scenes, and the order they are listed in.            *)

LEMMA LargestOf ==
  ASSUME NEW S \in SUBSET Int, S # {}, NEW b \in Int, \A y \in S : y <= b
  PROVE  \E x \in S : \A y \in S : y <= x
<1> DEFINE T == {n \in Nat : b - n \in S}
<1>1. T # {}
  <2>1. PICK y \in S : TRUE
    OBVIOUS
  <2>2. y \in Int /\ y <= b
    OBVIOUS
  <2>3. b - y \in Nat /\ b - (b - y) = y
    BY <2>2
  <2> QED
    BY <2>1, <2>3
<1>2. PICK x \in T : \A y \in T : x <= y
  <2> HIDE DEF T
  <2>1. T \in SUBSET Nat
    BY DEF T
  <2> QED
    BY <1>1, <2>1, SmallestOf
<1>3. ASSUME NEW y \in S
      PROVE  y <= b - x
  <2>1. y \in Int /\ y <= b /\ x \in Nat
    OBVIOUS
  <2>2. b - y \in Nat /\ b - (b - y) = y
    BY <2>1
  <2>3. b - y \in T
    BY <2>2
  <2>4. x <= b - y
    BY <1>2, <2>3
  <2> QED
    BY <2>1, <2>4
<1> QED
  BY <1>3

LEMMA RowsAre ==
  ASSUME TabsTypes
  PROVE  /\ lastId \in Nat /\ DOMAIN table \subseteq 1 .. lastId
         /\ \A id \in DOMAIN table :
              /\ table[id] \in SceneRow /\ table[id].name \in Int /\ table[id].position \in Int
              /\ table[id].position = Unranked \/ table[id].position >= 0
<1>1. ASSUME NEW id \in DOMAIN table PROVE table[id] \in SceneRow
  BY DEF TabsTypes, IsTable
<1> QED
  BY <1>1 DEF TabsTypes, IsTable, SceneRow, Unranked

\* A new scene comes after all those that have a position.
LEMMA NewPositionIs ==
  ASSUME TabsTypes
  PROVE  NewPosition \in Nat /\ \A id \in DOMAIN table : table[id].position < NewPosition
<1> DEFINE P == {k \in 0 .. lastId : \E b \in Int : \A id \in DOMAIN table : id <= k => table[id].position <= b}
<1>1. lastId \in P
  <2>1. 0 \in P
    <3>1. \A id \in DOMAIN table : ~(id <= 0)
      BY RowsAre
    <3>2. 0 \in 0 .. lastId /\ 0 \in Int
      BY RowsAre
    <3> QED
      BY <3>1, <3>2
  <2>2. ASSUME NEW i \in 1 .. lastId, i - 1 \in P PROVE i \in P
    <3>1. PICK b \in Int : \A id \in DOMAIN table : id <= i - 1 => table[id].position <= b
      BY <2>2
    <3>2. \A id \in DOMAIN table : id <= i => id = i \/ id <= i - 1
      BY RowsAre
    <3>3. CASE i \in DOMAIN table
      <4>1. PICK d \in Int : b <= d /\ table[i].position <= d
        <5>1. b <= table[i].position \/ table[i].position <= b
          BY <3>3, RowsAre
        <5> QED
          BY <5>1, <3>3, RowsAre
      <4>2. \A id \in DOMAIN table : id <= i => table[id].position <= d
        <5> SUFFICES ASSUME NEW id \in DOMAIN table, id <= i PROVE table[id].position <= d
          OBVIOUS
        <5>1. table[id].position \in Int
          BY RowsAre
        <5>2. CASE id = i
          BY <4>1, <5>2
        <5>3. CASE id <= i - 1
          BY <3>1, <4>1, <5>1, <5>3
        <5> QED
          BY <3>2, <5>2, <5>3
      <4> QED
        BY <4>2
    <3>4. CASE i \notin DOMAIN table
      <4>1. \A id \in DOMAIN table : id <= i => table[id].position <= b
        BY <3>1, <3>2, <3>4
      <4> QED
        BY <4>1
    <3> QED
      BY <3>3, <3>4
  <2>3. P \in SUBSET (0 .. lastId) /\ lastId \in Nat
    BY RowsAre
  <2> HIDE DEF P
  <2>4. \A i \in 0 .. lastId : i \in P
    BY <2>1, <2>2, <2>3, UpTo
  <2> QED
    BY <2>3, <2>4
<1>2. PICK b \in Int : \A p \in Positions : p <= b
  <2>1. PICK b \in Int : \A id \in DOMAIN table : id <= lastId => table[id].position <= b
    BY <1>1
  <2>2. \A id \in DOMAIN table : id <= lastId
    BY RowsAre
  <2> QED
    BY <2>1, <2>2 DEF Positions
<1>3. Positions \in SUBSET Int /\ \A p \in Positions : p = Unranked \/ p >= 0
  BY RowsAre DEF Positions
<1>4. \A id \in DOMAIN table : table[id].position \in Positions
  BY DEF Positions
<1>5. CASE Positions \ {Unranked} = {}
  <2>1. NewPosition = 0
    BY <1>5 DEF NewPosition
  <2>2. \A id \in DOMAIN table : table[id].position = -1
    BY <1>4, <1>5 DEF Unranked
  <2> QED
    BY <2>1, <2>2
<1>6. CASE Positions \ {Unranked} # {}
  <2>1. \E p \in Positions : \A q \in Positions : q <= p
    BY <1>6, <1>2, <1>3, LargestOf
  <2> DEFINE top == CHOOSE p \in Positions : \A q \in Positions : q <= p
  <2>2. top \in Positions /\ \A q \in Positions : q <= top
    BY <2>1, Zenon
  <2>3. NewPosition = 1 + top
    BY <1>6, Zenon DEF NewPosition
  <2> HIDE DEF top
  <2>4. PICK p \in Positions : p # Unranked
    BY <1>6
  <2>5. top \in Int /\ p \in Int /\ p >= 0 /\ p <= top
    BY <2>2, <2>4, <1>3
  <2>6. 1 + top \in Nat
    BY <2>5
  <2>7. ASSUME NEW id \in DOMAIN table PROVE table[id].position < 1 + top
    <3>1. table[id].position \in Int /\ table[id].position <= top
      BY <1>4, <1>3, <2>2
    <3> QED
      BY <3>1, <2>5
  <2> QED
    BY <2>3, <2>6, <2>7
<1> QED
  BY <1>5, <1>6

-----------------------------------------------------------------------------
(* The order of the list.                                                  *)
LEMMA BeforeIs ==
  ASSUME TabsTypes
  PROVE  /\ \A a \in DOMAIN table : ~Before(a, a)
         /\ \A a, b \in DOMAIN table : a # b => Before(a, b) \/ Before(b, a)
         /\ \A a, b, c \in DOMAIN table : Before(a, b) /\ Before(b, c) => Before(a, c)
<1>1. \A a \in DOMAIN table : table[a].name \in Int /\ table[a].position \in Int /\ a \in Int
  BY RowsAre
<1>2. Unranked \in Int
  BY DEF Unranked
<1> HIDE DEF Unranked
<1> QED
  BY <1>1, <1>2 DEF Before

LEMMA RanksAre ==
  ASSUME TabsTypes
  PROVE  /\ IsFiniteSet(DOMAIN table) /\ Cardinality(DOMAIN table) \in Nat
         /\ \A a \in DOMAIN table : Rank(a) \in 0 .. Cardinality(DOMAIN table) - 1
         /\ \A a, b \in DOMAIN table : Before(a, b) => Rank(a) < Rank(b)
         /\ \A n \in 1 .. Cardinality(DOMAIN table) : \E a \in DOMAIN table : Rank(a) = n - 1
<1> DEFINE S == DOMAIN table
           N == Cardinality(S)
           below(a) == {b \in S : Before(b, a)}
<1>1. IsFiniteSet(S) /\ N \in Nat
  <2>1. IsFiniteSet(1 .. lastId)
    BY RowsAre, FS_Interval
  <2>2. IsFiniteSet(S)
    BY <2>1, RowsAre, FS_Subset
  <2> QED
    BY <2>2, FS_CardinalityType
<1>2. \A a \in S : Rank(a) = Cardinality(below(a))
  BY DEF Rank
<1>3. ASSUME NEW a \in S
      PROVE  /\ IsFiniteSet(below(a)) /\ Cardinality(below(a)) \in Nat
             /\ Cardinality(below(a) \cup {a}) = Cardinality(below(a)) + 1
             /\ IsFiniteSet(below(a) \cup {a})
  <2>1. below(a) \in SUBSET S /\ a \notin below(a)
    BY BeforeIs
  <2> HIDE DEF below
  <2>2. IsFiniteSet(below(a))
    BY <1>1, <2>1, FS_Subset
  <2>3. Cardinality(below(a)) \in Nat
    BY <2>2, FS_CardinalityType
  <2> QED
    BY <2>1, <2>2, <2>3, FS_AddElement
<1>4. ASSUME NEW a \in S PROVE Rank(a) \in 0 .. N - 1
  <2>1. below(a) \cup {a} \in SUBSET S
    OBVIOUS
  <2> HIDE DEF below
  <2>2. Cardinality(below(a) \cup {a}) <= N
    BY <1>1, <2>1, FS_Subset
  <2>3. Cardinality(below(a)) + 1 <= N /\ Cardinality(below(a)) \in Nat /\ N \in Nat
    BY <1>1, <1>3, <2>2
  <2> QED
    BY <1>2, <2>3
<1>5. ASSUME NEW a \in S, NEW b \in S, Before(a, b) PROVE Rank(a) < Rank(b)
  <2>1. below(a) \cup {a} \in SUBSET below(b)
    BY <1>5, BeforeIs
  <2> HIDE DEF below
  <2>2. Cardinality(below(a) \cup {a}) <= Cardinality(below(b))
    BY <1>3, <2>1, FS_Subset
  <2>3. Cardinality(below(a)) + 1 <= Cardinality(below(b))
        /\ Cardinality(below(a)) \in Nat /\ Cardinality(below(b)) \in Nat
    BY <1>3, <2>2
  <2> QED
    BY <1>2, <2>3
<1>6. ASSUME NEW n \in 1 .. N PROVE \E a \in S : Rank(a) = n - 1
  <2> DEFINE T == 0 .. N - 1
             rank == [a \in S |-> Rank(a)]
  <2>1. IsFiniteSet(T) /\ Cardinality(T) = N
    <3> HIDE DEF N
    <3> DEFINE m == N - 1
    <3>1. 0 \in Int /\ m \in Int /\ m >= -1
      BY <1>1
    <3> HIDE DEF m
    <3>2. IsFiniteSet(0 .. m) /\ Cardinality(0 .. m) = IF 0 > m THEN 0 ELSE m - 0 + 1
      BY <3>1, FS_Interval
    <3>3. Cardinality(0 .. m) = m + 1
      BY <3>1, <3>2
    <3> QED
      BY <3>2, <3>3, <1>1 DEF m
  <2>2. rank \in Injection(S, T)
    <3>1. rank \in [S -> T]
      BY <1>4
    <3>2. ASSUME NEW a \in S, NEW b \in S, rank[a] = rank[b] PROVE a = b
      <4>1. Rank(a) = Rank(b) /\ Rank(a) \in Int /\ Rank(b) \in Int
        BY <3>2, <1>4, <1>1
      <4>2. ~(Rank(a) < Rank(b)) /\ ~(Rank(b) < Rank(a))
        BY <4>1
      <4> QED
        BY <4>2, <1>5, BeforeIs
    <3> HIDE DEF rank
    <3>3. IsInjective(rank)
      BY <3>1, <3>2 DEF IsInjective
    <3> QED
      BY <3>1, <3>2, <3>3 DEF Injection
  <2> HIDE DEF T, rank
  <2>3. rank \in Surjection(S, T)
    BY <2>1, <2>2, FS_Injection
  <2>4. n - 1 \in T
    BY <1>1 DEF T
  <2>5. PICK a \in S : rank[a] = n - 1
    BY <2>3, <2>4 DEF Surjection
  <2> QED
    BY <2>5 DEF rank
<1> QED
  BY <1>1, <1>4, <1>5, <1>6

\* The list is the scenes, each once, in their order, and the only one that is.
LEMMA ListedIs ==
  ASSUME TabsTypes
  PROVE  LET N == Cardinality(DOMAIN table) IN
         /\ N \in Nat /\ DOMAIN Listed = 1 .. N /\ Listed \in Seq(DOMAIN table)
         /\ \A n \in 1 .. N : Listed[n] \in DOMAIN table /\ Rank(Listed[n]) = n - 1
         /\ \A id \in DOMAIN table : \E n \in 1 .. N : Listed[n] = id
         /\ \A m, n \in 1 .. N : m < n => Before(Listed[m], Listed[n])
<1> DEFINE N == Cardinality(DOMAIN table)
<1>1. N \in Nat
  BY RanksAre
<1>2. DOMAIN Listed = 1 .. N
  BY DEF Listed
<1>3. ASSUME NEW n \in 1 .. N PROVE Listed[n] \in DOMAIN table /\ Rank(Listed[n]) = n - 1
  <2>1. \E a \in DOMAIN table : Rank(a) = n - 1
    BY RanksAre
  <2>2. Listed[n] = CHOOSE id \in DOMAIN table : Rank(id) = n - 1
    BY DEF Listed
  <2> QED
    BY <2>1, <2>2, Zenon
<1> HIDE DEF N
<1>4. Listed \in Seq(DOMAIN table)
  <2>1. Listed \in [1 .. N -> DOMAIN table]
    BY <1>2, <1>3 DEF Listed, N
  <2> QED
    BY <2>1, <1>1
<1>5. ASSUME NEW a \in DOMAIN table, NEW b \in DOMAIN table, Rank(a) <= Rank(b), a # b PROVE Before(a, b)
  <2>1. Rank(a) \in Int /\ Rank(b) \in Int
    BY RanksAre
  <2>2. ~(Rank(b) < Rank(a))
    BY <2>1, <1>5
  <2> QED
    BY <2>2, <1>5, RanksAre, BeforeIs
<1>6. ASSUME NEW id \in DOMAIN table PROVE \E n \in 1 .. N : Listed[n] = id
  <2>1. Rank(id) \in 0 .. N - 1
    BY RanksAre DEF N
  <2> DEFINE n == Rank(id) + 1
  <2>2. n \in 1 .. N /\ n - 1 = Rank(id)
    BY <2>1, <1>1
  <2> HIDE DEF n
  <2>3. Listed[n] \in DOMAIN table /\ Rank(Listed[n]) = Rank(id)
    BY <2>2, <1>3
  <2>4. Listed[n] = id
    <3> SUFFICES ASSUME Listed[n] # id PROVE FALSE
      OBVIOUS
    <3>1. Before(Listed[n], id)
      <4>1. Rank(Listed[n]) <= Rank(id)
        BY <2>3, <2>1
      <4> QED
        BY <4>1, <2>3, <1>5
    <3>2. Rank(Listed[n]) < Rank(id)
      BY <3>1, <2>3, RanksAre
    <3> QED
      BY <3>2, <2>3, <2>1
  <2> QED
    BY <2>2, <2>4
<1>7. ASSUME NEW m \in 1 .. N, NEW n \in 1 .. N, m < n PROVE Before(Listed[m], Listed[n])
  <2>1. Rank(Listed[m]) = m - 1 /\ Rank(Listed[n]) = n - 1
        /\ Listed[m] \in DOMAIN table /\ Listed[n] \in DOMAIN table
    BY <1>3
  <2>2. Rank(Listed[m]) <= Rank(Listed[n]) /\ Rank(Listed[m]) # Rank(Listed[n])
    BY <2>1, <1>7
  <2> QED
    BY <2>1, <2>2, <1>5
<1> QED
  BY <1>1, <1>2, <1>3, <1>4, <1>6, <1>7 DEF N

-----------------------------------------------------------------------------
(* What a write does to the table.                                         *)
NewVersion ==
  /\ version' = version + 1 /\ lastId' \in Nat /\ lastId <= lastId' /\ IsTable(table', lastId')
  /\ relayRoom' \in Rooms /\ PositionsAreDistinct'

LEMMA SpecIs ==
  ASSUME NEW spec \in Specs, NEW p \in Nat \cup {Unranked}
  PROVE  Row(spec, p) \in SceneRow /\ Row(spec, p).position = p /\ Row(spec, p).name = spec.name
BY SceneTabsAssumption DEF Row, SceneRow

LEMMA CreateIs ==
  ASSUME TabsTypes, PositionsAreDistinct, NEW spec \in Specs, CreateScene(spec)
  PROVE  /\ NewVersion /\ lastId' = lastId + 1 /\ relayRoom' = relayRoom
         /\ lastId' \notin DOMAIN table /\ DOMAIN table' = DOMAIN table \cup {lastId'}
         /\ \A id \in DOMAIN table :
              table'[id] = table[id] /\ table[id].position < table'[lastId'].position
<1>1. lastId \in Nat /\ lastId' = lastId + 1 /\ version' = version + 1 /\ relayRoom' = relayRoom
  BY RowsAre DEF CreateScene, Written
<1>2. lastId' \notin DOMAIN table
  <2>1. \A id \in DOMAIN table : id <= lastId
    BY RowsAre
  <2> QED
    BY <1>1, <2>1
<1> DEFINE new == Row(spec, NewPosition)
<1>3. new \in SceneRow /\ new.position = NewPosition /\ NewPosition \in Nat
  BY NewPositionIs, SpecIs
<1>4. /\ DOMAIN table' = DOMAIN table \cup {lastId'}
      /\ \A id \in DOMAIN table : table'[id] = table[id]
      /\ table'[lastId'] = new
  BY <1>1, <1>2 DEF CreateScene
<1> HIDE DEF new
<1>5. \A id \in DOMAIN table : table[id].position < table'[lastId'].position
  BY <1>3, <1>4, NewPositionIs
<1>6. IsTable(table', lastId')
  <2>1. ASSUME NEW id \in DOMAIN table' PROVE id \in 1 .. lastId' /\ table'[id] \in SceneRow
    <3>1. CASE id = lastId'
      BY <3>1, <1>1, <1>3, <1>4
    <3>2. CASE id \in DOMAIN table
      BY <3>2, <1>1, <1>4, RowsAre
    <3> QED
      BY <3>1, <3>2, <1>4
  <2>2. table' = [id \in DOMAIN table' |-> table'[id]]
    BY DEF CreateScene
  <2> QED
    BY <2>1, <2>2, Zenon DEF IsTable
<1>7. PositionsAreDistinct'
  <2> SUFFICES ASSUME NEW a \in DOMAIN table', NEW b \in DOMAIN table', a # b,
                      table'[a].position = table'[b].position
               PROVE  table'[a].position = Unranked
    BY DEF PositionsAreDistinct, Unranked
  <2>1. CASE a \in DOMAIN table /\ b \in DOMAIN table
    BY <2>1, <1>4 DEF PositionsAreDistinct
  <2>2. \A id \in DOMAIN table : table'[id].position # table'[lastId'].position
    <3> SUFFICES ASSUME NEW id \in DOMAIN table PROVE table'[id].position # table'[lastId'].position
      OBVIOUS
    <3>1. table[id].position \in Int /\ NewPosition \in Int /\ table[id].position < NewPosition
      BY RowsAre, NewPositionIs
    <3>2. table'[id].position = table[id].position /\ table'[lastId'].position = NewPosition
      BY <1>3, <1>4
    <3> QED
      BY <3>1, <3>2
  <2> QED
    BY <2>1, <2>2, <1>4
<1>8. relayRoom' \in Rooms
  BY <1>1 DEF TabsTypes
<1> QED
  BY <1>1, <1>2, <1>4, <1>5, <1>6, <1>7, <1>8 DEF NewVersion

LEMMA UpdateIs ==
  ASSUME TabsTypes, PositionsAreDistinct, NEW spec \in Specs, NEW id, UpdateScene(id, spec)
  PROVE  /\ NewVersion /\ lastId' = lastId /\ relayRoom' = relayRoom
         /\ id \in DOMAIN table /\ DOMAIN table' = DOMAIN table
         /\ table'[id].position = table[id].position /\ table'[id].name = spec.name
         /\ \A other \in DOMAIN table : other # id => table'[other] = table[other]
<1>1. lastId' = lastId /\ version' = version + 1 /\ relayRoom' = relayRoom /\ id \in DOMAIN table
  BY DEF UpdateScene, Written
<1>2. /\ DOMAIN table' = DOMAIN table
      /\ table'[id] = Row(spec, table[id].position)
      /\ \A other \in DOMAIN table : other # id => table'[other] = table[other]
  BY <1>1 DEF UpdateScene
<1>3. table[id].position \in Nat \cup {Unranked}
  BY <1>1, RowsAre DEF SceneRow
<1>4. table'[id] \in SceneRow /\ table'[id].position = table[id].position /\ table'[id].name = spec.name
  <2> DEFINE p == table[id].position
  <2>1. p \in Nat \cup {Unranked} /\ table'[id] = Row(spec, p)
    BY <1>2, <1>3
  <2> HIDE DEF p
  <2>2. table'[id] \in SceneRow /\ table'[id].position = p /\ table'[id].name = spec.name
    BY <2>1, SpecIs
  <2> QED
    BY <2>2 DEF p
<1>5. IsTable(table', lastId')
  <2>1. \A other \in DOMAIN table' : table'[other] \in SceneRow
    BY <1>2, <1>4, RowsAre
  <2>2. table' = [other \in DOMAIN table' |-> table'[other]]
    BY DEF UpdateScene
  <2>3. DOMAIN table' \subseteq 1 .. lastId'
    BY <1>1, <1>2, RowsAre
  <2> QED
    BY <2>1, <2>2, <2>3, Zenon DEF IsTable
<1>6. PositionsAreDistinct'
  <2>1. \A other \in DOMAIN table : table'[other].position = table[other].position
    BY <1>2, <1>4
  <2> QED
    BY <1>2, <2>1 DEF PositionsAreDistinct, Unranked
<1> QED
  BY <1>1, <1>2, <1>4, <1>5, <1>6 DEF NewVersion, TabsTypes

LEMMA DeleteIs ==
  ASSUME TabsTypes, PositionsAreDistinct, NEW id, DeleteScene(id)
  PROVE  /\ NewVersion /\ lastId' = lastId /\ relayRoom' = relayRoom
         /\ DOMAIN table' = DOMAIN table \ {id}
         /\ \A other \in DOMAIN table' : table'[other] = table[other]
<1>1. lastId' = lastId /\ version' = version + 1 /\ relayRoom' = relayRoom
  BY DEF DeleteScene, Written
<1>2. /\ DOMAIN table' = DOMAIN table \ {id}
      /\ \A other \in DOMAIN table' : table'[other] = table[other]
  BY DEF DeleteScene, Restrict
<1>3. IsTable(table', lastId')
  <2>1. \A other \in DOMAIN table' : table'[other] \in SceneRow
    BY <1>2, RowsAre
  <2>2. table' = [other \in DOMAIN table' |-> table'[other]]
    BY DEF DeleteScene, Restrict
  <2>3. DOMAIN table' \subseteq 1 .. lastId'
    BY <1>1, <1>2, RowsAre
  <2> QED
    BY <2>1, <2>2, <2>3, Zenon DEF IsTable
<1>4. PositionsAreDistinct'
  BY <1>2 DEF PositionsAreDistinct, Unranked
<1> QED
  BY <1>1, <1>2, <1>3, <1>4 DEF NewVersion, TabsTypes

\* The place of an id is an index of the sequence, where it stands.
LEMMA PositionInIs ==
  ASSUME NEW ids \in Seq(Nat), NEW id
  PROVE  /\ PositionIn(ids, id) \in Nat \cup {Unranked}
         /\ PositionIn(ids, id) # Unranked =>
              PositionIn(ids, id) + 1 \in 1 .. Len(ids) /\ ids[PositionIn(ids, id) + 1] = id
<1>1. CASE ~Contains(ids, id)
  BY <1>1 DEF PositionIn
<1>2. CASE Contains(ids, id)
  <2> DEFINE I == {i \in 1 .. Len(ids) : ids[i] = id}
  <2>1. I \in SUBSET Nat /\ I # {}
    BY <1>2 DEF Contains
  <2>2. SelectInSeq(ids, LAMBDA x : x = id) = IF I # {} THEN Min(I) ELSE 0
    BY DEF SelectInSeq
  <2>3. PositionIn(ids, id) = SelectInSeq(ids, LAMBDA x : x = id) - 1
    BY <1>2 DEF PositionIn
  <2>4. Min(I) \in I
    <3> HIDE DEF I
    <3>1. \E x \in I : \A y \in I : x <= y
      BY <2>1, SmallestOf
    <3> QED
      BY <3>1, Zenon DEF Min
  <2>5. Min(I) \in 1 .. Len(ids) /\ ids[Min(I)] = id
    BY <2>4
  <2>6. PositionIn(ids, id) = Min(I) - 1
    BY <2>1, <2>2, <2>3
  <2> HIDE DEF I
  <2>7. Min(I) \in Nat /\ Min(I) >= 1 /\ Min(I) - 1 + 1 = Min(I)
    BY <2>5
  <2> QED
    BY <2>5, <2>6, <2>7
<1> QED
  BY <1>1, <1>2

LEMMA OrderIs ==
  ASSUME TabsTypes, NEW ids \in Seq(Nat), SetSceneOrder(ids)
  PROVE  NewVersion
<1>1. lastId' = lastId /\ version' = version + 1 /\ relayRoom' = relayRoom
  BY DEF SetSceneOrder, Written
<1>2. DOMAIN table' = DOMAIN table
  BY DEF SetSceneOrder
<1>3. ASSUME NEW id \in DOMAIN table
      PROVE  table'[id] \in SceneRow /\ table'[id].position = PositionIn(ids, id)
  <2>1. table'[id] = [table[id] EXCEPT !.position = PositionIn(ids, id)]
    BY DEF SetSceneOrder
  <2>2. table[id] \in SceneRow /\ PositionIn(ids, id) \in Nat \cup {Unranked}
    BY RowsAre, PositionInIs
  <2> QED
    BY <2>1, <2>2 DEF SceneRow
<1>4. IsTable(table', lastId')
  <2>1. table' = [id \in DOMAIN table' |-> table'[id]]
    BY DEF SetSceneOrder
  <2>2. DOMAIN table' \subseteq 1 .. lastId' /\ \A id \in DOMAIN table' : table'[id] \in SceneRow
    BY <1>1, <1>2, <1>3, RowsAre
  <2> QED
    BY <2>1, <2>2, Zenon DEF IsTable
<1>5. PositionsAreDistinct'
  <2> SUFFICES ASSUME NEW a \in DOMAIN table, NEW b \in DOMAIN table,
                      PositionIn(ids, a) = PositionIn(ids, b), PositionIn(ids, a) # Unranked
               PROVE  a = b
    BY <1>2, <1>3 DEF PositionsAreDistinct, Unranked
  <2> QED
    BY PositionInIs
<1> QED
  BY <1>1, <1>4, <1>5 DEF NewVersion, TabsTypes

LEMMA RelayIs ==
  ASSUME TabsTypes, PositionsAreDistinct, NEW room \in Rooms, MoveRelay(room)
  PROVE  NewVersion /\ table' = table
<1>1. version' = version + 1 /\ relayRoom' = room /\ table' = table /\ lastId' = lastId
  BY DEF MoveRelay, Written
<1> QED
  BY <1>1 DEF NewVersion, TabsTypes, PositionsAreDistinct, Unranked

-----------------------------------------------------------------------------
(* What is true of a version stays so when others follow.                  *)
LEMMA TellsLater ==
  ASSUME NEW v, NEW tables, NEW relays, NEW ts, NEW rs, NEW last \in Nat, NEW n \in Nat, last <= n,
         NEW k \in 1 .. last, \A j \in 1 .. last : ts[j] = tables[j] /\ rs[j] = relays[j],
         Tells(v, k, tables, relays, last)
  PROVE  Tells(v, k, ts, rs, n)
<1>1. PICK r \in k .. last : v = Told(v.id, tables[k], relays[r])
  BY DEF Tells
<1>2. r \in 1 .. last /\ r \in k .. n
  OBVIOUS
<1> QED
  BY <1>1, <1>2 DEF Tells

LEMMA TrueLater ==
  ASSUME NEW views, NEW tables, NEW relays, NEW ts, NEW rs, NEW last \in Nat, NEW n \in Nat, last <= n,
         NEW k \in 1 .. last, \A j \in 1 .. last : ts[j] = tables[j] /\ rs[j] = relays[j],
         TrueOf(views, k, tables, relays, last)
  PROVE  TrueOf(views, k, ts, rs, n)
<1>1. ts[k] = tables[k]
  OBVIOUS
<1>2. \A v : Tells(v, k, tables, relays, last) => Tells(v, k, ts, rs, n)
  BY TellsLater
<1> QED
  BY <1>1, <1>2 DEF TrueOf

LEMMA TracedLater ==
  ASSUME NEW c, NEW tables, NEW relays, NEW ts, NEW rs, NEW last \in Nat, NEW n \in Nat, last <= n,
         \A j \in 1 .. last : ts[j] = tables[j] /\ rs[j] = relays[j],
         Traced(c, tables, relays, last)
  PROVE  Traced(c, ts, rs, n)
<1>1. ASSUME WroteOnce(c, tables, relays, last) PROVE WroteOnce(c, ts, rs, n)
  <2>1. c.wrote \in 1 .. last /\ c.wrote - 1 \in 1 .. last /\ c.wrote \in 2 .. n
    BY <1>1 DEF WroteOnce
  <2> QED
    BY <1>1, <2>1 DEF WroteOnce
<1>2. ASSUME c.at \in 1 .. last, TrueOf(c.views, c.at, tables, relays, last)
      PROVE  c.at \in 1 .. n /\ TrueOf(c.views, c.at, ts, rs, n)
  BY <1>2, TrueLater
<1>3. ASSUME ToldOne(c, tables, relays, last) PROVE ToldOne(c, ts, rs, n)
  <2>1. c.at \in 1 .. last /\ c.at \in 1 .. n /\ c.id \in DOMAIN tables[c.at]
    BY <1>3 DEF ToldOne
  <2>2. PICK v \in Entry : c.views = <<v>> /\ v.id = c.id /\ Tells(v, c.at, tables, relays, last)
    BY <1>3 DEF ToldOne
  <2>3. Tells(v, c.at, ts, rs, n)
    BY <2>1, <2>2, TellsLater
  <2> QED
    BY <2>1, <2>2, <2>3 DEF ToldOne
<1> QED
  BY <1>1, <1>2, <1>3 DEF Traced

\* Each write adds a version to the history; what was known of the others still is.
LEMMA HistoryGrows ==
  ASSUME TabsTypes, NewVersion, NEW tables, NEW relays, Explained(tables, relays)
  PROVE  \E ts, rs :
           /\ IsHistory(ts, rs, version', table', relayRoom', lastId')
           /\ \A k \in 1 .. version : ts[k] = tables[k] /\ rs[k] = relays[k]
           /\ seen # 0 => TrueOf(list, seen, ts, rs, version')
           /\ \A c \in requests : Traced(c, ts, rs, version')
<1> DEFINE ts == [k \in 1 .. version' |-> IF k = version' THEN table' ELSE tables[k]]
           rs == [k \in 1 .. version' |-> IF k = version' THEN relayRoom' ELSE relays[k]]
<1>1. version \in Nat /\ version >= 1 /\ version' = version + 1 /\ version' \in Nat /\ seen \in 0 .. version
  BY DEF NewVersion, TabsTypes
<1>2. \A k \in 1 .. version : ts[k] = tables[k] /\ rs[k] = relays[k]
  BY <1>1
<1>3. ts[version'] = table' /\ rs[version'] = relayRoom'
      /\ DOMAIN ts = 1 .. version' /\ DOMAIN rs = 1 .. version'
  BY <1>1
<1> HIDE DEF ts, rs
<1>4. \A k \in 1 .. version' : IsTable(ts[k], lastId')
  <2> SUFFICES ASSUME NEW k \in 1 .. version' PROVE IsTable(ts[k], lastId')
    OBVIOUS
  <2>1. CASE k = version'
    BY <2>1, <1>3 DEF NewVersion
  <2>2. CASE k # version'
    <3>1. k \in 1 .. version
      BY <2>2, <1>1
    <3>2. IsTable(tables[k], lastId) /\ ts[k] = tables[k]
      BY <3>1, <1>2 DEF Explained, IsHistory
    <3>3. lastId \in Nat /\ lastId' \in Nat /\ lastId <= lastId'
      BY DEF NewVersion, TabsTypes
    <3>4. 1 .. lastId \subseteq 1 .. lastId'
      BY <3>3
    <3> QED
      BY <3>2, <3>4 DEF IsTable
  <2> QED
    BY <2>1, <2>2
<1>5. IsHistory(ts, rs, version', table', relayRoom', lastId')
  BY <1>3, <1>4 DEF IsHistory
<1>6. seen # 0 => TrueOf(list, seen, ts, rs, version')
  <2> SUFFICES ASSUME seen # 0 PROVE TrueOf(list, seen, ts, rs, version')
    OBVIOUS
  <2>1. seen \in 1 .. version /\ TrueOf(list, seen, tables, relays, version) /\ version <= version'
    BY <1>1 DEF Explained
  <2> QED
    BY <1>1, <1>2, <2>1, TrueLater
<1>7. ASSUME NEW c \in requests PROVE Traced(c, ts, rs, version')
  <2>1. Traced(c, tables, relays, version) /\ version <= version'
    BY <1>1 DEF Explained
  <2> QED
    BY <1>1, <1>2, <2>1, TracedLater
<1> QED
  BY <1>2, <1>5, <1>6, <1>7

-----------------------------------------------------------------------------
(* What is read is true of the version it is read at.                      *)
LEMMA ToldType ==
  ASSUME NEW t, NEW last \in Nat, IsTable(t, last), NEW id \in DOMAIN t, NEW relay
  PROVE  Told(id, t, relay) \in Entry /\ Told(id, t, relay).id = id
<1>1. id \in Nat /\ t[id] \in SceneRow
  BY DEF IsTable
<1> QED
  BY <1>1 DEF Told, Entry, SceneRow

LEMMA ViewIs ==
  ASSUME TabsTypes, NEW id \in DOMAIN table
  PROVE  View(id) = Told(id, table, relayRoom) /\ View(id) \in Entry /\ View(id).id = id
<1>1. View(id) = Told(id, table, relayRoom)
  BY DEF View, Told
<1>2. lastId \in Nat /\ IsTable(table, lastId)
  BY DEF TabsTypes
<1> QED
  BY <1>1, <1>2, ToldType

LEMMA ViewsAre ==
  ASSUME TabsTypes
  PROVE  /\ Views \in Seq(Entry) /\ DOMAIN Views = DOMAIN Listed
         /\ \A i \in DOMAIN Views : Views[i] = View(Listed[i]) /\ Views[i].id = Listed[i]
                                     /\ Listed[i] \in DOMAIN table
<1> DEFINE N == Cardinality(DOMAIN table)
<1>1. N \in Nat /\ DOMAIN Listed = 1 .. N /\ \A n \in 1 .. N : Listed[n] \in DOMAIN table
  BY ListedIs
<1> HIDE DEF N
<1>2. Views = [i \in 1 .. N |-> View(Listed[i])]
  BY <1>1 DEF Views
<1>3. \A i \in 1 .. N : View(Listed[i]) \in Entry /\ View(Listed[i]).id = Listed[i]
  BY <1>1, ViewIs
<1>4. Views \in Seq(Entry)
  BY <1>1, <1>2, <1>3
<1> QED
  BY <1>1, <1>2, <1>3, <1>4

LEMMA ViewsAreTrue ==
  ASSUME TabsTypes, PositionsAreDistinct, NEW tables, NEW relays, IsHistory(tables, relays, version, table, relayRoom, lastId)
  PROVE  TrueOf(Views, version, tables, relays, version)
<1> DEFINE N == Cardinality(DOMAIN table)
<1>1. /\ N \in Nat /\ DOMAIN Listed = 1 .. N
      /\ \A id \in DOMAIN table : \E n \in 1 .. N : Listed[n] = id
      /\ \A m, n \in 1 .. N : m < n => Before(Listed[m], Listed[n])
  BY ListedIs
<1> HIDE DEF N
<1>2. DOMAIN Views = 1 .. N /\ \A i \in 1 .. N : Views[i] = View(Listed[i]) /\ Views[i].id = Listed[i]
                                                 /\ Listed[i] \in DOMAIN table
  BY <1>1, ViewsAre
<1>3. tables[version] = table /\ relays[version] = relayRoom /\ version \in Nat
  BY DEF IsHistory, TabsTypes
<1>4. ASSUME NEW i \in 1 .. N, NEW j \in 1 .. N, Listed[i] = Listed[j] PROVE i = j
  <2>1. ~(i < j) /\ ~(j < i)
    BY <1>1, <1>2, <1>4, BeforeIs
  <2> QED
    BY <2>1, <1>1
<1>5. {Views[i].id : i \in DOMAIN Views} = DOMAIN table
  BY <1>1, <1>2
<1>6. ASSUME NEW i \in 1 .. N PROVE Tells(Views[i], version, tables, relays, version)
  <2>1. Views[i] = Told(Views[i].id, table, relayRoom) /\ version \in version .. version
    BY <1>2, <1>3, ViewIs
  <2> QED
    BY <1>3, <2>1 DEF Tells
<1>7. InOrder(Views, table)
  <2> SUFFICES ASSUME NEW i \in 1 .. N, NEW j \in 1 .. N, i < j,
                      table[Listed[i]].position # Unranked, table[Listed[j]].position # Unranked
               PROVE  table[Listed[i]].position < table[Listed[j]].position
    BY <1>2 DEF InOrder
  <2> DEFINE a == Listed[i]
             b == Listed[j]
  <2>1. a \in DOMAIN table /\ b \in DOMAIN table /\ Before(a, b) /\ a # b
    BY <1>1, <1>2, BeforeIs
  <2>2. table[a].position # table[b].position
    BY <2>1 DEF PositionsAreDistinct
  <2> HIDE DEF a, b
  <2>3. table[a].position < table[b].position \/ table[b].position = Unranked
    BY <2>1, <2>2 DEF Before
  <2> QED
    BY <2>3 DEF a, b
<1> QED
  BY <1>2, <1>3, <1>4, <1>5, <1>6, <1>7 DEF TrueOf

LEMMA RankIsOne ==
  ASSUME TabsTypes, NEW a \in DOMAIN table, NEW b \in DOMAIN table, Rank(a) = Rank(b)
  PROVE  a = b
<1>1. Rank(a) \in Int /\ Rank(b) \in Int
  BY RanksAre
<1>2. ~(Rank(a) < Rank(b)) /\ ~(Rank(b) < Rank(a))
  BY <1>1
<1> QED
  BY <1>2, RanksAre, BeforeIs

\* A list true of the present version is the list as it is read at present, but for the
\* places of the scenes that have no position.
LEMMA TrueIsViews ==
  ASSUME TabsTypes, list \in Seq(Entry), NEW tables, NEW relays, IsHistory(tables, relays, version, table, relayRoom, lastId),
         TrueOf(list, version, tables, relays, version)
  PROVE  /\ ToSet(list) = ToSet(Views) /\ Len(list) = Len(Views)
         /\ Unranked \notin Positions => list = Views
<1> DEFINE N == Cardinality(DOMAIN table)
           n == Len(list)
<1>1. N \in Nat /\ n \in Nat /\ DOMAIN list = 1 .. n /\ DOMAIN Listed = 1 .. N /\ DOMAIN Views = 1 .. N
      /\ list \in Seq(Entry) /\ Views \in Seq(Entry)
  BY ListedIs, ViewsAre, LenProperties DEF TabsTypes
<1>2. tables[version] = table /\ relays[version] = relayRoom /\ version \in Nat
  BY DEF IsHistory, TabsTypes
<1>3. /\ \A i, j \in 1 .. n : list[i].id = list[j].id => i = j
      /\ {list[i].id : i \in 1 .. n} = DOMAIN table
  BY <1>1, <1>2 DEF TrueOf
<1>4. ASSUME NEW i \in 1 .. n PROVE list[i].id \in DOMAIN table /\ list[i] = View(list[i].id)
  <2>1. list[i].id \in DOMAIN table
    BY <1>3
  <2>2. PICK r \in version .. version : list[i] = Told(list[i].id, table, relays[r])
    BY <1>1, <1>2 DEF TrueOf, Tells
  <2>3. r = version
    BY <1>2
  <2> QED
    BY <1>2, <2>1, <2>2, <2>3, ViewIs
<1>5. n = N
  <2> DEFINE f == [i \in 1 .. n |-> list[i].id]
  <2>1. f \in [1 .. n -> DOMAIN table]
    BY <1>4
  <2>2. (\A i, j \in 1 .. n : f[i] = f[j] => i = j) /\ \A id \in DOMAIN table : \E i \in 1 .. n : f[i] = id
    BY <1>3
  <2> HIDE DEF f
  <2>3. f \in Bijection(1 .. n, DOMAIN table)
    BY <2>1, <2>2 DEF Bijection, Injection, Surjection, IsInjective
  <2> QED
    BY <2>3, <1>1, FS_CountingElements DEF ExistsBijection
<1>6. Len(Views) = N
  BY <1>1
<1>7. ToSet(list) = ToSet(Views)
  <2>1. \A i \in 1 .. N : Views[i] = View(Listed[i]) /\ Listed[i] \in DOMAIN table
    BY <1>1, ViewsAre
  <2>2. ASSUME NEW v \in ToSet(list) PROVE v \in ToSet(Views)
    <3>1. PICK i \in 1 .. n : v = list[i]
      BY <1>1 DEF ToSet
    <3>2. PICK m \in 1 .. N : Listed[m] = list[i].id
      BY <1>4, ListedIs
    <3>3. v = Views[m]
      BY <3>1, <3>2, <1>4, <2>1
    <3> QED
      BY <3>3, <1>1 DEF ToSet
  <2>3. ASSUME NEW v \in ToSet(Views) PROVE v \in ToSet(list)
    <3>1. PICK m \in 1 .. N : v = Views[m]
      BY <1>1 DEF ToSet
    <3>2. PICK i \in 1 .. n : list[i].id = Listed[m]
      BY <2>1, <1>3
    <3>3. v = list[i]
      BY <3>1, <3>2, <1>4, <2>1
    <3> QED
      BY <3>3, <1>1 DEF ToSet
  <2> QED
    BY <2>2, <2>3
<1>8. ASSUME Unranked \notin Positions PROVE list = Views
  <2>1. \A id \in DOMAIN table : table[id].position # Unranked
    BY <1>8 DEF Positions
  <2>2. ASSUME NEW i \in 1 .. n, NEW j \in 1 .. n, i < j PROVE Before(list[i].id, list[j].id)
    <3> DEFINE a == list[i].id
               b == list[j].id
    <3>1. a \in DOMAIN table /\ b \in DOMAIN table
      BY <1>4
    <3>2. table[a].position < table[b].position
      BY <2>1, <2>2, <3>1, <1>1, <1>2 DEF TrueOf, InOrder
    <3> HIDE DEF a, b
    <3>3. Before(a, b)
      BY <2>1, <3>1, <3>2 DEF Before
    <3> QED
      BY <3>3 DEF a, b
  <2>3. ASSUME NEW i \in 1 .. n PROVE Rank(list[i].id) = i - 1
    <3> DEFINE below == {id \in DOMAIN table : Before(id, list[i].id)}
               f == [m \in 1 .. (i - 1) |-> list[m].id]
               m1 == i - 1
    <3>0. m1 \in Nat /\ 1 .. m1 \subseteq 1 .. n /\ \A m \in 1 .. m1 : m < i
      BY <1>1
    <3>1. f \in [1 .. m1 -> below]
      BY <3>0, <2>2, <1>4
    <3>2. \A x, y \in 1 .. m1 : f[x] = f[y] => x = y
      BY <3>0, <1>3
    <3>3. ASSUME NEW id \in below PROVE \E m \in 1 .. m1 : f[m] = id
      <4>1. PICK m \in 1 .. n : list[m].id = id
        BY <1>3
      <4>2. ~(i < m) /\ m # i
        <5>1. list[i].id \in DOMAIN table /\ id \in DOMAIN table /\ Before(id, list[i].id)
          BY <1>4
        <5> QED
          BY <4>1, <5>1, <2>2, BeforeIs
      <4>3. m \in 1 .. m1
        BY <4>2, <1>1
      <4> QED
        BY <4>1, <4>3
    <3>4. Rank(list[i].id) = Cardinality(below)
      BY DEF Rank
    <3> HIDE DEF f, below, m1
    <3>5. f \in Bijection(1 .. m1, below)
      BY <3>1, <3>2, <3>3 DEF Bijection, Injection, Surjection, IsInjective
    <3>6. Cardinality(below) = m1
      BY <3>0, <3>5, FS_CountingElements DEF ExistsBijection
    <3> QED
      BY <3>4, <3>6 DEF m1
  <2>4. ASSUME NEW i \in 1 .. n PROVE list[i] = Views[i]
    <3>1. Listed[i] \in DOMAIN table /\ Rank(Listed[i]) = i - 1 /\ Views[i] = View(Listed[i])
      BY <1>1, <1>5, ListedIs, ViewsAre
    <3>2. list[i].id = Listed[i]
      BY <3>1, <2>3, <1>4, RankIsOne
    <3> QED
      BY <3>1, <3>2, <1>4
  <2> QED
    BY <2>4, <1>1, <1>5, <1>6, SeqEqual
<1> QED
  BY <1>5, <1>6, <1>7, <1>8

-----------------------------------------------------------------------------
(* What the page makes of an answer.                                       *)
LEMMA TellsAgain ==
  ASSUME NEW tables, NEW relays, NEW last \in Nat, NEW k \in 1 .. last, NEW j \in 1 .. last,
         j = k \/ j = k + 1, relays[j] = relays[k], NEW v, tables[j][v.id] = tables[k][v.id],
         Tells(v, k, tables, relays, last)
  PROVE  Tells(v, j, tables, relays, last)
<1>1. PICK r \in k .. last : v = Told(v.id, tables[k], relays[r])
  BY DEF Tells
<1>2. \A relay : Told(v.id, tables[k], relay) = Told(v.id, tables[j], relay)
  BY DEF Told
<1>3. CASE r \in j .. last
  BY <1>1, <1>2, <1>3 DEF Tells
<1>4. CASE r \notin j .. last
  <2>1. r = k /\ j \in j .. last
    BY <1>4
  <2> QED
    BY <1>1, <1>2, <2>1 DEF Tells
<1> QED
  BY <1>3, <1>4

\* A new scene put last, as it is in the database.
LEMMA AppendedTrue ==
  ASSUME NEW tables, NEW relays, NEW last \in Nat, NEW k \in 1 .. last, NEW j \in 1 .. last,
         j = k + 1, relays[j] = relays[k], list \in Seq(Entry), TrueOf(list, k, tables, relays, last),
         NEW c, Adds(c, tables[k], tables[j]), NEW v \in Entry, v.id = c.id,
         Tells(v, j, tables, relays, last)
  PROVE  TrueOf(list \o <<v>>, j, tables, relays, last) /\ list \o <<v>> \in Seq(Entry)
<1> DEFINE n == Len(list)
           new == list \o <<v>>
           before == tables[k]
           after == tables[j]
<1>1. n \in Nat /\ DOMAIN list = 1 .. n /\ new \in Seq(Entry) /\ DOMAIN new = 1 .. (n + 1)
      /\ (\A i \in 1 .. n : new[i] = list[i] /\ i \in 1 .. (n + 1))
      /\ (\A i \in 1 .. (n + 1) : i \notin 1 .. n => i = n + 1 /\ new[i] = v)
      /\ n + 1 \in 1 .. (n + 1) /\ new[n + 1] = v
  <2>1. Append(list, v) = new
    BY AppendIsConcat
  <2>2. n \in Nat /\ DOMAIN list = 1 .. n /\ Append(list, v) \in Seq(Entry) /\ Len(Append(list, v)) = n + 1
        /\ (\A i \in 1 .. n : Append(list, v)[i] = list[i]) /\ Append(list, v)[n + 1] = v
    BY AppendProperties, LenProperties
  <2> HIDE DEF new, n
  <2>3. new \in Seq(Entry) /\ Len(new) = n + 1 /\ (\A i \in 1 .. n : new[i] = list[i]) /\ new[n + 1] = v
    BY <2>1, <2>2
  <2>4. DOMAIN new = 1 .. (n + 1)
    BY <2>3, LenProperties
  <2> QED
    BY <2>2, <2>3, <2>4
<1>2. /\ c.id \notin DOMAIN before /\ DOMAIN after = DOMAIN before \cup {c.id}
      /\ \A id \in DOMAIN before : after[id] = before[id] /\ before[id].position < after[c.id].position
  BY DEF Adds
<1>3. /\ \A i, m \in 1 .. n : list[i].id = list[m].id => i = m
      /\ {list[i].id : i \in 1 .. n} = DOMAIN before
      /\ \A i \in 1 .. n : Tells(list[i], k, tables, relays, last)
      /\ InOrder(list, before)
  BY <1>1 DEF TrueOf
<1> HIDE DEF new, n
<1>4. \A i \in 1 .. n : list[i].id \in DOMAIN before /\ list[i].id # c.id
  BY <1>2, <1>3
<1>5. \A i, m \in DOMAIN new : new[i].id = new[m].id => i = m
  <2> SUFFICES ASSUME NEW i \in 1 .. (n + 1), NEW m \in 1 .. (n + 1), new[i].id = new[m].id PROVE i = m
    BY <1>1
  <2>1. CASE i \in 1 .. n /\ m \in 1 .. n
    BY <2>1, <1>1, <1>3
  <2>2. CASE i \notin 1 .. n /\ m \notin 1 .. n
    BY <2>2, <1>1
  <2>3. CASE i \in 1 .. n /\ m \notin 1 .. n
    BY <2>3, <1>1, <1>4
  <2>4. CASE i \notin 1 .. n /\ m \in 1 .. n
    BY <2>4, <1>1, <1>4
  <2> QED
    BY <2>1, <2>2, <2>3, <2>4
<1>6. {new[i].id : i \in DOMAIN new} = DOMAIN after
  <2>1. ASSUME NEW i \in 1 .. (n + 1) PROVE new[i].id \in DOMAIN after
    BY <1>1, <1>2, <1>4
  <2>2. ASSUME NEW id \in DOMAIN after PROVE \E i \in 1 .. (n + 1) : new[i].id = id
    <3>1. CASE id = c.id
      BY <3>1, <1>1
    <3>2. CASE id \in DOMAIN before
      <4>1. PICK i \in 1 .. n : list[i].id = id
        BY <3>2, <1>3
      <4> QED
        BY <4>1, <1>1
    <3> QED
      BY <3>1, <3>2, <1>2
  <2>3. DOMAIN new = 1 .. (n + 1)
    BY <1>1
  <2> HIDE DEF after
  <2>4. {new[i].id : i \in 1 .. (n + 1)} = DOMAIN after
    BY <2>1, <2>2, Zenon
  <2> QED
    BY <2>3, <2>4
<1>7. ASSUME NEW i \in DOMAIN new PROVE Tells(new[i], j, tables, relays, last)
  <2>1. CASE i \in 1 .. n
    <3>1. new[i] = list[i] /\ after[list[i].id] = before[list[i].id]
          /\ Tells(list[i], k, tables, relays, last)
      BY <2>1, <1>1, <1>2, <1>3, <1>4
    <3>2. Tells(list[i], j, tables, relays, last)
      BY <3>1, TellsAgain
    <3> QED
      BY <3>1, <3>2
  <2>2. CASE i \notin 1 .. n
    BY <2>2, <1>1
  <2> QED
    BY <2>1, <2>2
<1>8. InOrder(new, after)
  <2> SUFFICES ASSUME NEW i \in 1 .. (n + 1), NEW m \in 1 .. (n + 1), i < m,
                      after[new[i].id].position # Unranked, after[new[m].id].position # Unranked
               PROVE  after[new[i].id].position < after[new[m].id].position
    BY <1>1 DEF InOrder
  <2>1. i \in 1 .. n
    BY <1>1
  <2>2. new[i] = list[i] /\ list[i].id \in DOMAIN before /\ after[list[i].id] = before[list[i].id]
    BY <2>1, <1>1, <1>2, <1>4
  <2>3. CASE m \in 1 .. n
    <3>1. new[m] = list[m] /\ after[list[m].id] = before[list[m].id]
      BY <2>3, <1>1, <1>2, <1>4
    <3>2. before[list[i].id].position # Unranked /\ before[list[m].id].position # Unranked
          /\ i \in DOMAIN list /\ m \in DOMAIN list
      BY <2>1, <2>2, <2>3, <3>1, <1>1
    <3>3. before[list[i].id].position < before[list[m].id].position
      BY <3>2, <1>3 DEF InOrder
    <3> QED
      BY <2>2, <3>1, <3>3
  <2>4. CASE m \notin 1 .. n
    <3>1. new[m].id = c.id
      BY <2>4, <1>1
    <3> QED
      BY <2>2, <3>1, <1>2
  <2> QED
    BY <2>3, <2>4
<1> QED
  BY <1>1, <1>5, <1>6, <1>7, <1>8 DEF TrueOf, new

\* A scene that takes its place again, as it is in the database.
LEMMA ReplacedTrue ==
  ASSUME NEW tables, NEW relays, NEW last \in Nat, NEW k \in 1 .. last, NEW j \in 1 .. last,
         j = k \/ j = k + 1, relays[j] = relays[k], list \in Seq(Entry), TrueOf(list, k, tables, relays, last),
         NEW c, Replaces(c, tables[k], tables[j]), NEW v \in Entry, v.id = c.id,
         Tells(v, j, tables, relays, last)
  PROVE  TrueOf(Replaced(v), j, tables, relays, last) /\ Replaced(v) \in Seq(Entry)
<1> DEFINE n == Len(list)
           new == Replaced(v)
           before == tables[k]
           after == tables[j]
<1>1. n \in Nat /\ DOMAIN list = 1 .. n /\ \A i \in 1 .. n : list[i] \in Entry
  BY LenProperties, ElementOfSeq
<1>2. DOMAIN new = 1 .. n
      /\ \A i \in 1 .. n : new[i] = (IF list[i].id = c.id THEN v ELSE list[i]) /\ new[i].id = list[i].id
  BY <1>1 DEF Replaced
<1>3. new \in Seq(Entry)
  <2>1. new \in [1 .. n -> Entry]
    BY <1>1 DEF Replaced
  <2> HIDE DEF new
  <2> QED
    BY <1>1, <2>1
<1>4. /\ c.id \in DOMAIN before /\ DOMAIN after = DOMAIN before
      /\ \A id \in DOMAIN before : after[id].position = before[id].position /\ (id # c.id => after[id] = before[id])
  BY DEF Replaces
<1>5. /\ \A i, m \in 1 .. n : list[i].id = list[m].id => i = m
      /\ {list[i].id : i \in 1 .. n} = DOMAIN before
      /\ \A i \in 1 .. n : Tells(list[i], k, tables, relays, last)
      /\ InOrder(list, before)
  BY <1>1 DEF TrueOf
<1> HIDE DEF new, n
<1>6. \A i \in 1 .. n : list[i].id \in DOMAIN before
  BY <1>5
<1>7. {new[i].id : i \in DOMAIN new} = DOMAIN after
  <2>1. {new[i].id : i \in DOMAIN new} = {list[i].id : i \in 1 .. n}
    BY <1>2
  <2> QED
    BY <2>1, <1>4, <1>5
<1>8. ASSUME NEW i \in DOMAIN new PROVE Tells(new[i], j, tables, relays, last)
  <2>1. CASE list[i].id = c.id
    <3>1. new[i] = v /\ new[i].id = c.id
      BY <2>1, <1>2
    <3> QED
      BY <3>1
  <2>2. CASE list[i].id # c.id
    <3>1. new[i] = list[i] /\ after[list[i].id] = before[list[i].id]
          /\ Tells(list[i], k, tables, relays, last)
      BY <2>2, <1>2, <1>4, <1>5, <1>6
    <3>2. Tells(list[i], j, tables, relays, last)
      BY <3>1, TellsAgain
    <3> QED
      BY <3>1, <3>2
  <2> QED
    BY <2>1, <2>2
<1>9. InOrder(new, after)
  <2>1. \A i \in 1 .. n : after[new[i].id].position = before[list[i].id].position
    BY <1>2, <1>4, <1>6
  <2> QED
    BY <2>1, <1>1, <1>2, <1>5 DEF InOrder
<1> QED
  BY <1>2, <1>3, <1>5, <1>7, <1>8, <1>9 DEF TrueOf, new

\* What is left without a scene: the others, in the same order.
IsWithout(w, id, D) ==
  /\ w \in Seq(Entry)
  /\ \A i \in DOMAIN w : \E a \in D : w[i] = list[a] /\ list[a].id # id
  /\ \A a \in D : list[a].id # id => \E i \in DOMAIN w : w[i] = list[a]
  /\ \A i, m \in DOMAIN w : i < m => \E a, b \in D : a < b /\ w[i] = list[a] /\ w[m] = list[b]

LEMMA WithoutIs ==
  ASSUME list \in Seq(Entry), NEW id
  PROVE  IsWithout(Without(id), id, DOMAIN list)
<1> DEFINE n == Len(list)
           Then(x, i) == IF list[i].id = id THEN x ELSE Append(x, list[i])
           Loop(f) == [i \in 0 .. n |-> IF i = 0 THEN <<>> ELSE Then(f[i - 1], i)]
           found == CHOOSE f : f = Loop(f)
           Turn == [i \in 1 .. n |-> [x \in Seq(Entry) |-> Then(x, i)]]
<1>1. n \in Nat /\ DOMAIN list = 1 .. n /\ \A i \in 1 .. n : list[i] \in Entry
  BY LenProperties, ElementOfSeq
<1>2. Without(id) = found[n]
  BY DEF Without
<1> HIDE DEF n
<1>10. <<>> \in Seq(Entry) /\ DOMAIN <<>> = {}
  OBVIOUS
<1>3. \E f : f = Loop(f)
  <2>1. Turn \in Loops(Seq(Entry), n)
    <3>1. ASSUME NEW i \in 1 .. n, NEW x \in Seq(Entry) PROVE Then(x, i) \in Seq(Entry)
      BY <1>1, AppendProperties
    <3> HIDE DEF Then
    <3> QED
      BY <3>1 DEF Loops
  <2> HIDE DEF Turn, Then
  <2>2. PICK f : IsCourse(f, Seq(Entry), n, <<>>, Turn)
    BY <1>10, <2>1, <1>1, LoopIs, Zenon
  <2>3. ASSUME NEW i \in 1 .. n PROVE f[i] = Then(f[i - 1], i)
    <3>1. f[i - 1] \in Seq(Entry)
      BY <1>1, <2>2 DEF IsCourse
    <3> QED
      BY <2>2, <3>1 DEF Turn, IsCourse
  <2>4. f = Loop(f)
    BY <2>2, <2>3, <1>1 DEF IsCourse
  <2> QED
    BY <2>4
<1>4. found = Loop(found)
  BY <1>3, Zenon
<1>5. found[0] = <<>> /\ \A i \in 1 .. n : found[i] = Then(found[i - 1], i)
  <2> HIDE DEF found, Then
  <2> QED
    BY <1>1, <1>4
<1> HIDE DEF found
<1> DEFINE Left(w, k) == IsWithout(w, id, 1 .. k)
           P == {k \in 0 .. n : Left(found[k], k)}
<1>6. 0 \in P
  <2>1. Left(<<>>, 0)
    BY <1>10 DEF IsWithout
  <2> HIDE DEF Left
  <2> QED
    BY <2>1, <1>1, <1>5
<1>7. ASSUME NEW k \in 1 .. n, k - 1 \in P PROVE k \in P
  <2> DEFINE w == found[k - 1]
             k1 == k - 1
  <2>1. Left(w, k1)
    BY <1>7
  <2>2. 1 .. k1 \subseteq 1 .. k /\ (\A a \in 1 .. k : a = k \/ a \in 1 .. k1) /\ k \in 1 .. k
        /\ (\A a \in 1 .. k1 : a < k) /\ list[k] \in Entry
    BY <1>1
  <2>3. found[k] = IF list[k].id = id THEN w ELSE Append(w, list[k])
    BY <1>5
  <2> HIDE DEF w, k1
  <2>4. CASE list[k].id = id
    <3>1. Left(w, k)
      <4>1. w \in Seq(Entry) /\ \A i \in DOMAIN w : \E a \in 1 .. k : w[i] = list[a] /\ list[a].id # id
        BY <2>1, <2>2 DEF IsWithout
      <4>2. \A a \in 1 .. k : list[a].id # id => \E i \in DOMAIN w : w[i] = list[a]
        BY <2>1, <2>2, <2>4 DEF IsWithout
      <4>3. \A i, m \in DOMAIN w : i < m => \E a, b \in 1 .. k : a < b /\ w[i] = list[a] /\ w[m] = list[b]
        BY <2>1, <2>2 DEF IsWithout
      <4> QED
        BY <4>1, <4>2, <4>3 DEF IsWithout
    <3> HIDE DEF Left
    <3> QED
      BY <2>3, <2>4, <3>1
  <2>5. CASE list[k].id # id
    <3> DEFINE u == Append(w, list[k])
               l == Len(w)
    <3>1. /\ l \in Nat /\ DOMAIN w = 1 .. l /\ u \in Seq(Entry) /\ DOMAIN u = 1 .. (l + 1)
          /\ \A i \in 1 .. l : u[i] = w[i]
          /\ u[l + 1] = list[k]
      <4>1. w \in Seq(Entry)
        BY <2>1 DEF IsWithout
      <4>2. l \in Nat /\ DOMAIN w = 1 .. l /\ u \in Seq(Entry) /\ Len(u) = l + 1
            /\ (\A i \in 1 .. l : u[i] = w[i]) /\ u[l + 1] = list[k]
        BY <4>1, <2>2, AppendProperties, LenProperties
      <4> QED
        BY <4>2, LenProperties
    <3> HIDE DEF u, l
    <3>2. \A i \in DOMAIN u : (i \in DOMAIN w /\ u[i] = w[i]) \/ (i = l + 1 /\ u[i] = list[k])
      BY <3>1
    <3>3. \A i \in DOMAIN w : i \in DOMAIN u /\ u[i] = w[i] /\ i < l + 1
      BY <3>1
    <3>4. ASSUME NEW i \in DOMAIN u PROVE \E a \in 1 .. k : u[i] = list[a] /\ list[a].id # id
      <4>1. CASE i \in DOMAIN w /\ u[i] = w[i]
        <5>1. PICK a \in 1 .. k1 : w[i] = list[a] /\ list[a].id # id
          BY <4>1, <2>1 DEF IsWithout
        <5> QED
          BY <4>1, <5>1, <2>2
      <4>2. CASE u[i] = list[k]
        BY <4>2, <2>2, <2>5
      <4> QED
        BY <4>1, <4>2, <3>2
    <3>5. ASSUME NEW a \in 1 .. k, list[a].id # id PROVE \E i \in DOMAIN u : u[i] = list[a]
      <4>1. CASE a = k
        BY <4>1, <3>1
      <4>2. CASE a \in 1 .. k1
        BY <4>2, <3>3, <3>5, <2>1 DEF IsWithout
      <4> QED
        BY <4>1, <4>2, <2>2
    <3>6. ASSUME NEW i \in DOMAIN u, NEW m \in DOMAIN u, i < m
          PROVE  \E a, b \in 1 .. k : a < b /\ u[i] = list[a] /\ u[m] = list[b]
      <4>1. i \in DOMAIN w /\ u[i] = w[i]
        <5>1. i # l + 1
          BY <3>1, <3>6
        <5> QED
          BY <5>1, <3>2
      <4>2. CASE m \in DOMAIN w /\ u[m] = w[m]
        BY <4>1, <4>2, <3>6, <2>1, <2>2 DEF IsWithout
      <4>3. CASE m = l + 1 /\ u[m] = list[k]
        <5>1. PICK a \in 1 .. k1 : w[i] = list[a]
          BY <4>1, <2>1 DEF IsWithout
        <5> QED
          BY <5>1, <4>1, <4>3, <2>2
      <4> QED
        BY <4>2, <4>3, <3>2
    <3>7. Left(u, k)
      BY <3>1, <3>4, <3>5, <3>6 DEF IsWithout
    <3>8. found[k] = u
      BY <2>3, <2>5 DEF u
    <3> HIDE DEF Left
    <3> QED
      BY <3>7, <3>8
  <2> QED
    BY <2>4, <2>5
<1>8. P \in SUBSET (0 .. n)
  OBVIOUS
<1>9. n \in P
  <2> HIDE DEF P
  <2>1. \A i \in 0 .. n : i \in P
    BY <1>1, <1>6, <1>7, <1>8, UpTo
  <2> QED
    BY <2>1, <1>1
<1>11. Left(found[n], n)
  BY <1>9
<1> QED
  BY <1>1, <1>2, <1>11

LEMMA WithoutTrue ==
  ASSUME NEW tables, NEW relays, NEW last \in Nat, NEW k \in 1 .. last, NEW j \in 1 .. last,
         j = k + 1, relays[j] = relays[k], list \in Seq(Entry), TrueOf(list, k, tables, relays, last),
         NEW c, Removes(c, tables[k], tables[j])
  PROVE  TrueOf(Without(c.id), j, tables, relays, last)
<1> DEFINE w == Without(c.id)
           before == tables[k]
           after == tables[j]
<1>1. /\ w \in Seq(Entry)
      /\ \A i \in DOMAIN w : \E a \in DOMAIN list : w[i] = list[a] /\ list[a].id # c.id
      /\ \A a \in DOMAIN list : list[a].id # c.id => \E i \in DOMAIN w : w[i] = list[a]
      /\ \A i, m \in DOMAIN w : i < m => \E a, b \in DOMAIN list : a < b /\ w[i] = list[a] /\ w[m] = list[b]
  <2>1. IsWithout(w, c.id, DOMAIN list)
    BY WithoutIs
  <2> HIDE DEF w
  <2> QED
    BY <2>1, Zenon DEF IsWithout
<1> HIDE DEF w
<1>2. DOMAIN w \subseteq Int /\ DOMAIN list \subseteq Int
  <2>1. DOMAIN w = 1 .. Len(w) /\ DOMAIN list = 1 .. Len(list)
    BY <1>1, LenProperties
  <2> QED
    BY <2>1
<1>3. /\ DOMAIN after = DOMAIN before \ {c.id}
      /\ \A id \in DOMAIN after : after[id] = before[id]
  BY DEF Removes
<1>4. /\ \A i, m \in DOMAIN list : list[i].id = list[m].id => i = m
      /\ {list[i].id : i \in DOMAIN list} = DOMAIN before
      /\ \A i \in DOMAIN list : Tells(list[i], k, tables, relays, last)
      /\ InOrder(list, before)
  BY DEF TrueOf
<1>5. ASSUME NEW i \in DOMAIN w
      PROVE  /\ w[i].id \in DOMAIN after
             /\ Tells(w[i], j, tables, relays, last)
  <2>1. PICK a \in DOMAIN list : w[i] = list[a] /\ list[a].id # c.id
    BY <1>1
  <2>2. list[a].id \in DOMAIN after /\ after[list[a].id] = before[list[a].id]
    BY <2>1, <1>3, <1>4
  <2>3. Tells(list[a], k, tables, relays, last)
    BY <1>4
  <2>4. Tells(list[a], j, tables, relays, last)
    BY <2>2, <2>3, TellsAgain
  <2> QED
    BY <2>1, <2>2, <2>4
<1>6. {w[i].id : i \in DOMAIN w} = DOMAIN after
  <2>1. ASSUME NEW id \in DOMAIN after PROVE \E i \in DOMAIN w : w[i].id = id
    <3>1. PICK a \in DOMAIN list : list[a].id = id
      BY <1>3, <1>4
    <3>2. id # c.id
      BY <1>3
    <3> QED
      BY <3>1, <3>2, <1>1
  <2> QED
    BY <2>1, <1>5
<1>7. ASSUME NEW i \in DOMAIN w, NEW m \in DOMAIN w, w[i].id = w[m].id PROVE i = m
  <2>1. ASSUME NEW x \in DOMAIN w, NEW y \in DOMAIN w, x < y PROVE w[x].id # w[y].id
    <3>1. PICK a \in DOMAIN list, b \in DOMAIN list : a < b /\ w[x] = list[a] /\ w[y] = list[b]
      BY <1>1, <2>1
    <3>2. a # b
      BY <3>1, <1>2
    <3> QED
      BY <3>1, <3>2, <1>4
  <2>2. i \in Int /\ m \in Int /\ ~(i < m) /\ ~(m < i)
    BY <2>1, <1>2, <1>7
  <2> QED
    BY <2>2
<1>8. InOrder(w, after)
  <2> SUFFICES ASSUME NEW i \in DOMAIN w, NEW m \in DOMAIN w, i < m,
                      after[w[i].id].position # Unranked, after[w[m].id].position # Unranked
               PROVE  after[w[i].id].position < after[w[m].id].position
    BY DEF InOrder
  <2>1. PICK a \in DOMAIN list, b \in DOMAIN list : a < b /\ w[i] = list[a] /\ w[m] = list[b]
    BY <1>1
  <2>2. after[w[i].id] = before[w[i].id] /\ after[w[m].id] = before[w[m].id]
    BY <1>3, <1>5
  <2> QED
    BY <2>1, <2>2, <1>4 DEF InOrder
<1> QED
  BY <1>5, <1>6, <1>7, <1>8 DEF TrueOf, w

-----------------------------------------------------------------------------
(* The steps.                                                              *)
LEMMA Unwritten ==
  ASSUME TabsTypes, PositionsAreDistinct, NEW tables, NEW relays, Explained(tables, relays),
         UNCHANGED database, list' \in Seq(Entry), seen' \in 0 .. version,
         seen' # 0 => TrueOf(list', seen', tables, relays, version),
         \A c \in requests' : c \in requests \/ (c \in AnyRequest /\ Traced(c, tables, relays, version))
  PROVE  TInv'
<1>1. table' = table /\ lastId' = lastId /\ relayRoom' = relayRoom /\ version' = version
  BY DEF database
<1>2. TabsTypes'
  <2>1. requests' \subseteq AnyRequest
    BY DEF TabsTypes
  <2> QED
    BY <1>1, <2>1 DEF TabsTypes, IsTable, SceneRow, Unranked, Entry, AnyRequest
<1>3. PositionsAreDistinct'
  BY <1>1 DEF PositionsAreDistinct, Unranked
<1>4. \A c \in requests' : Traced(c, tables, relays, version')
  BY <1>1 DEF Explained
<1>5. Explained(tables, relays)'
  BY <1>1, <1>4 DEF Explained
<1> QED
  BY <1>2, <1>3, <1>5 DEF TInv

LEMMA AfterWrite ==
  ASSUME TabsTypes, list \in Seq(Entry), NewVersion, UNCHANGED <<list, seen>>, NEW ts, NEW rs,
         IsHistory(ts, rs, version', table', relayRoom', lastId'),
         seen # 0 => TrueOf(list, seen, ts, rs, version'),
         \A c \in requests' : c \in AnyRequest /\ Traced(c, ts, rs, version')
  PROVE  TInv'
<1>1. version' \in Nat /\ version' >= 1 /\ seen' \in 0 .. version' /\ list' \in Seq(Entry)
      /\ requests' \subseteq AnyRequest
  BY DEF NewVersion, TabsTypes
<1>2. TabsTypes'
  BY <1>1 DEF NewVersion, TabsTypes, IsTable, SceneRow, Unranked, Entry, AnyRequest
<1>3. Explained(ts, rs)'
  BY DEF Explained
<1> QED
  BY <1>2, <1>3 DEF TInv, NewVersion

LEMMA WroteIs ==
  ASSUME TabsTypes, NewVersion, relayRoom' = relayRoom, NEW tables, NEW relays, Explained(tables, relays),
         NEW ts, NEW rs, IsHistory(ts, rs, version', table', relayRoom', lastId'),
         \A k \in 1 .. version : ts[k] = tables[k] /\ rs[k] = relays[k],
         NEW d, d.wrote = version', Did(d, table, table')
  PROVE  WroteOnce(d, ts, rs, version')
<1>1. version \in Nat /\ version >= 1 /\ version' = version + 1
  BY DEF NewVersion, TabsTypes
<1>2. d.wrote \in 2 .. version' /\ d.wrote - 1 = version /\ version \in 1 .. version
  BY <1>1
<1>3. ts[version'] = table' /\ rs[version'] = relayRoom'
  BY DEF IsHistory
<1>4. ts[version] = table /\ rs[version] = relayRoom
  BY <1>2 DEF Explained, IsHistory
<1> QED
  BY <1>2, <1>3, <1>4 DEF WroteOnce

\* A request that is about to write, written.
LEMMA OneWrites ==
  ASSUME TInv, NEW c \in requests, NewVersion, relayRoom' = relayRoom, UNCHANGED <<list, seen>>,
         NEW d \in AnyRequest, requests' = (requests \ {c}) \cup {d},
         d.wrote = version', Did(d, table, table'),
         \/ d.op \in {"create", "update"} /\ d.stage = "written"
         \/ d.op = "delete" /\ d.stage = "answered" /\ d.at = d.wrote
  PROVE  TInv'
<1>1. PICK tables, relays : Explained(tables, relays)
  BY DEF TInv
<1>2. PICK ts, rs :
           /\ IsHistory(ts, rs, version', table', relayRoom', lastId')
           /\ \A k \in 1 .. version : ts[k] = tables[k] /\ rs[k] = relays[k]
           /\ seen # 0 => TrueOf(list, seen, ts, rs, version')
           /\ \A r \in requests : Traced(r, ts, rs, version')
  BY <1>1, HistoryGrows DEF TInv
<1>3. WroteOnce(d, ts, rs, version')
  BY <1>1, <1>2, WroteIs DEF TInv
<1>4. Traced(d, ts, rs, version')
  <2>1. d.op \notin {"load", "order"}
    OBVIOUS
  <2>2. CASE d.op \in {"create", "update"} /\ d.stage = "written"
    <3>1. d.stage \notin {"read", "answered"} /\ d.op # "delete"
      BY <2>2
    <3> QED
      BY <1>3, <2>1, <3>1 DEF Traced
  <2>3. CASE d.op = "delete" /\ d.stage = "answered" /\ d.at = d.wrote
    <3>1. d.op \notin {"create", "update", "run"}
      BY <2>3
    <3> QED
      BY <1>3, <2>1, <2>3, <3>1 DEF Traced
  <2> QED
    BY <2>2, <2>3
<1>5. \A r \in requests' : r \in AnyRequest /\ Traced(r, ts, rs, version')
  BY <1>2, <1>4 DEF TInv, TabsTypes
<1> QED
  BY <1>2, <1>5, AfterWrite DEF TInv

LEMMA RequestIs ==
  ASSUME NEW c \in AnyRequest
  PROVE  /\ c.id \in Nat /\ c.spec \in Specs /\ c.ids \in Seq(Nat) /\ c.wrote \in Nat /\ c.at \in Nat
         /\ c.views \in Seq(Entry)
BY DEF AnyRequest

LEMMA CreateServed ==
  ASSUME TInv, NEW c \in requests, ServeCreate(c), UNCHANGED <<list, seen, events>>
  PROVE  TInv'
<1> DEFINE d == [c EXCEPT !.stage = "written", !.wrote = version', !.id = lastId']
<1>1. c \in AnyRequest /\ c.op = "create" /\ requests' = (requests \ {c}) \cup {d} /\ c.spec \in Specs
  BY RequestIs DEF ServeCreate, Becomes, TInv, TabsTypes
<1>2. /\ NewVersion /\ lastId' = lastId + 1 /\ relayRoom' = relayRoom
      /\ lastId' \notin DOMAIN table /\ DOMAIN table' = DOMAIN table \cup {lastId'}
      /\ \A id \in DOMAIN table :
           table'[id] = table[id] /\ table[id].position < table'[lastId'].position
  BY <1>1, CreateIs DEF ServeCreate, TInv
<1>3. version' \in Nat /\ lastId' \in Nat
  BY <1>2 DEF NewVersion, TInv, TabsTypes
<1>4. d \in AnyRequest /\ d.op = "create" /\ d.stage = "written" /\ d.wrote = version' /\ d.id = lastId'
  BY <1>1, <1>3 DEF AnyRequest
<1> HIDE DEF d
<1>5. Did(d, table, table')
  BY <1>2, <1>4 DEF Did, Adds
<1> QED
  BY <1>1, <1>2, <1>4, <1>5, OneWrites

LEMMA UpdateServed ==
  ASSUME TInv, NEW c \in requests, ServeUpdate(c), UNCHANGED <<list, seen, events>>
  PROVE  TInv'
<1> DEFINE d == [c EXCEPT !.stage = "written", !.wrote = version']
<1>1. c \in AnyRequest /\ c.op = "update" /\ requests' = (requests \ {c}) \cup {d} /\ c.spec \in Specs
  BY RequestIs DEF ServeUpdate, Becomes, TInv, TabsTypes
<1>2. /\ NewVersion /\ relayRoom' = relayRoom
      /\ c.id \in DOMAIN table /\ DOMAIN table' = DOMAIN table
      /\ table'[c.id].position = table[c.id].position
      /\ \A other \in DOMAIN table : other # c.id => table'[other] = table[other]
  BY <1>1, UpdateIs DEF ServeUpdate, TInv
<1>3. version' \in Nat
  BY <1>2 DEF NewVersion, TInv, TabsTypes
<1>4. d \in AnyRequest /\ d.op = "update" /\ d.stage = "written" /\ d.wrote = version' /\ d.id = c.id
  BY <1>1, <1>3 DEF AnyRequest
<1> HIDE DEF d
<1>5. Did(d, table, table')
  BY <1>2, <1>4 DEF Did, Replaces
<1> QED
  BY <1>1, <1>2, <1>4, <1>5, OneWrites

LEMMA DeleteServed ==
  ASSUME TInv, NEW c \in requests, ServeDelete(c), UNCHANGED <<list, seen, events>>
  PROVE  TInv'
<1> DEFINE d == [c EXCEPT !.stage = "answered", !.wrote = version', !.at = version']
<1>1. c \in AnyRequest /\ c.op = "delete" /\ requests' = (requests \ {c}) \cup {d}
  BY DEF ServeDelete, Becomes, TInv, TabsTypes
<1>2. /\ NewVersion /\ relayRoom' = relayRoom
      /\ DOMAIN table' = DOMAIN table \ {c.id}
      /\ \A other \in DOMAIN table' : table'[other] = table[other]
  BY <1>1, DeleteIs DEF ServeDelete, TInv
<1>3. version' \in Nat
  BY <1>2 DEF NewVersion, TInv, TabsTypes
<1>4. d \in AnyRequest /\ d.op = "delete" /\ d.stage = "answered" /\ d.wrote = version' /\ d.at = version'
      /\ d.id = c.id
  BY <1>1, <1>3 DEF AnyRequest
<1> HIDE DEF d
<1>5. Did(d, table, table')
  BY <1>2, <1>4 DEF Did, Removes
<1> QED
  BY <1>1, <1>2, <1>4, <1>5, OneWrites

LEMMA OrderServed ==
  ASSUME TInv, NEW c \in requests, ServeOrder(c), UNCHANGED <<list, seen, events>>
  PROVE  TInv'
<1> DEFINE d == [c EXCEPT !.stage = "written"]
<1>1. c \in AnyRequest /\ c.op = "order" /\ requests' = (requests \ {c}) \cup {d} /\ c.ids \in Seq(Nat)
  BY RequestIs DEF ServeOrder, Becomes, TInv, TabsTypes
<1>2. NewVersion
  BY <1>1, OrderIs DEF ServeOrder, TInv
<1>3. d \in AnyRequest /\ d.op = "order" /\ d.stage = "written"
  BY <1>1 DEF AnyRequest
<1> HIDE DEF d
<1>4. PICK tables, relays : Explained(tables, relays)
  BY DEF TInv
<1>5. PICK ts, rs :
           /\ IsHistory(ts, rs, version', table', relayRoom', lastId')
           /\ \A k \in 1 .. version : ts[k] = tables[k] /\ rs[k] = relays[k]
           /\ seen # 0 => TrueOf(list, seen, ts, rs, version')
           /\ \A r \in requests : Traced(r, ts, rs, version')
  BY <1>2, <1>4, HistoryGrows DEF TInv
<1>6. Traced(d, ts, rs, version')
  <2>1. d.op \notin {"create", "update", "delete"} /\ d.op \notin {"create", "update", "run"} /\ d.op # "delete"
        /\ d.stage \notin {"read", "answered"}
    BY <1>3
  <2> QED
    BY <2>1 DEF Traced
<1>7. \A r \in requests' : r \in AnyRequest /\ Traced(r, ts, rs, version')
  BY <1>1, <1>3, <1>5, <1>6 DEF TInv, TabsTypes
<1> QED
  BY <1>2, <1>5, <1>7, AfterWrite DEF TInv

\* An order is a sequence of ids.
LEMMA OrdersAre ==
  ASSUME TInv, NEW ids \in Orders
  PROVE  ids \in Seq(Nat)
<1>1. PICK S \in SUBSET DOMAIN table : ids \in SetToSeqs(S)
  BY DEF Orders, SetToAllKPermutations
<1>2. S \subseteq 1 .. lastId /\ lastId \in Nat
  BY RowsAre DEF TInv, TabsTypes
<1>3. IsFiniteSet(S) /\ Cardinality(S) \in Nat
  <2>1. IsFiniteSet(1 .. lastId)
    BY <1>2, FS_Interval
  <2>2. IsFiniteSet(S)
    BY <1>2, <2>1, FS_Subset
  <2> QED
    BY <2>2, FS_CardinalityType
<1>4. ids \in [1 .. Cardinality(S) -> S]
  BY <1>1 DEF SetToSeqs
<1>5. ids \in [1 .. Cardinality(S) -> Nat]
  BY <1>2, <1>4
<1> QED
  BY <1>3, <1>5

LEMMA ElsewhereChanged ==
  ASSUME TInv, OtherPages
  PROVE  TInv'
<1>1. UNCHANGED <<list, seen, requests>>
  BY DEF OtherPages
<1>2. NewVersion
  <2>1. ASSUME NEW spec \in Specs, CreateScene(spec) PROVE NewVersion
    BY <2>1, CreateIs DEF TInv
  <2>2. ASSUME NEW spec \in Specs, NEW id \in DOMAIN table, UpdateScene(id, spec) PROVE NewVersion
    BY <2>2, UpdateIs DEF TInv
  <2>3. ASSUME NEW id \in DOMAIN table, DeleteScene(id) PROVE NewVersion
    BY <2>3, DeleteIs DEF TInv
  <2>4. ASSUME NEW room \in Rooms, MoveRelay(room) PROVE NewVersion
    BY <2>4, RelayIs DEF TInv
  <2>5. ASSUME NEW ids \in Orders, SetSceneOrder(ids) PROVE NewVersion
    BY <2>5, OrderIs, OrdersAre DEF TInv
  <2> QED
    BY <2>1, <2>2, <2>3, <2>4, <2>5 DEF OtherPages
<1>3. PICK tables, relays : Explained(tables, relays)
  BY DEF TInv
<1>4. PICK ts, rs :
           /\ IsHistory(ts, rs, version', table', relayRoom', lastId')
           /\ \A k \in 1 .. version : ts[k] = tables[k] /\ rs[k] = relays[k]
           /\ seen # 0 => TrueOf(list, seen, ts, rs, version')
           /\ \A r \in requests : Traced(r, ts, rs, version')
  BY <1>2, <1>3, HistoryGrows DEF TInv
<1>5. \A r \in requests' : r \in AnyRequest /\ Traced(r, ts, rs, version')
  BY <1>1, <1>4 DEF TInv, TabsTypes
<1> QED
  BY <1>1, <1>2, <1>4, <1>5, AfterWrite DEF TInv

\* A request that reads, or whose answer is completed.
LEMMA OneReads ==
  ASSUME TInv, UNCHANGED <<database, list, seen>>, NEW d \in AnyRequest,
         requests' \subseteq requests \cup {d},
         NEW tables, NEW relays, Explained(tables, relays), Traced(d, tables, relays, version)
  PROVE  TInv'
<1>1. list' \in Seq(Entry) /\ seen' \in 0 .. version
  BY DEF TInv, TabsTypes
<1>2. seen' # 0 => TrueOf(list', seen', tables, relays, version)
  BY DEF Explained
<1>3. \A c \in requests' : c \in requests \/ (c \in AnyRequest /\ Traced(c, tables, relays, version))
  OBVIOUS
<1> QED
  BY <1>1, <1>2, <1>3, Unwritten DEF TInv

LEMMA Refusals ==
  ASSUME TInv, UNCHANGED <<database, list, seen>>, requests' \subseteq requests
  PROVE  TInv'
<1>1. PICK tables, relays : Explained(tables, relays)
  BY DEF TInv
<1>2. list' \in Seq(Entry) /\ seen' \in 0 .. version
  BY DEF TInv, TabsTypes
<1>3. seen' # 0 => TrueOf(list', seen', tables, relays, version)
  BY <1>1 DEF Explained
<1>4. \A c \in requests' : c \in requests \/ (c \in AnyRequest /\ Traced(c, tables, relays, version))
  OBVIOUS
<1> QED
  BY <1>1, <1>2, <1>3, <1>4, Unwritten DEF TInv

LEMMA ListRead ==
  ASSUME TInv, NEW c \in requests, ReadList(c), UNCHANGED <<list, seen, events>>
  PROVE  TInv'
<1> DEFINE d == [c EXCEPT !.stage = "read", !.at = version, !.views = Views]
<1>1. c \in AnyRequest /\ c.op \in {"load", "order"} /\ requests' = (requests \ {c}) \cup {d}
      /\ UNCHANGED database
  BY DEF ReadList, Becomes, TInv, TabsTypes
<1>2. version \in Nat /\ version \in 1 .. version /\ Views \in Seq(Entry)
  BY ViewsAre DEF TInv, TabsTypes
<1>3. d \in AnyRequest /\ d.op = c.op /\ d.stage = "read" /\ d.at = version /\ d.views = Views
  BY <1>1, <1>2 DEF AnyRequest
<1> HIDE DEF d
<1>4. PICK tables, relays : Explained(tables, relays)
  BY DEF TInv
<1>5. TrueOf(d.views, d.at, tables, relays, version)
  BY <1>3, <1>4, ViewsAreTrue DEF TInv, Explained
<1>6. Traced(d, tables, relays, version)
  <2>1. d.op \notin {"create", "update", "delete"} /\ d.op \notin {"create", "update", "run"} /\ d.op # "delete"
    BY <1>1, <1>3
  <2> QED
    BY <1>2, <1>3, <1>5, <2>1 DEF Traced
<1> QED
  BY <1>1, <1>3, <1>4, <1>6, OneReads

LEMMA SameWrite ==
  ASSUME NEW c, NEW d, d.op = c.op, d.id = c.id, d.wrote = c.wrote, NEW tables, NEW relays, NEW last,
         WroteOnce(c, tables, relays, last)
  PROVE  WroteOnce(d, tables, relays, last)
<1>1. \A before, after : Did(c, before, after) => Did(d, before, after)
  BY DEF Did, Adds, Replaces, Removes
<1> QED
  BY <1>1 DEF WroteOnce

LEMMA ViewRead ==
  ASSUME TInv, NEW c \in requests, ReadView(c), UNCHANGED <<list, seen, events>>
  PROVE  TInv'
<1>1. CASE c.id \notin DOMAIN table
  <2>1. requests' \subseteq requests /\ UNCHANGED database
    BY <1>1 DEF ReadView
  <2> QED
    BY <2>1, Refusals
<1>2. CASE c.id \in DOMAIN table
  <2> DEFINE v == View(c.id)
             d == [c EXCEPT !.stage = "read", !.at = version, !.views = <<v>>, !.spec = NoSpec]
  <2>1. c \in AnyRequest /\ requests' = (requests \ {c}) \cup {d} /\ UNCHANGED database
        /\ \/ c.op = "run"
           \/ c.op \in {"create", "update"} /\ c.stage = "written"
    BY <1>2 DEF ReadView, Becomes, TInv, TabsTypes
  <2>2. version \in Nat /\ version \in 1 .. version
    BY DEF TInv, TabsTypes
  <2>3. v \in Entry /\ v.id = c.id /\ v = Told(c.id, table, relayRoom) /\ NoSpec \in Specs
    BY <1>2, ViewIs, SceneTabsAssumption DEF TInv, NoSpec
  <2> HIDE DEF v
  <2>4. <<v>> \in Seq(Entry)
    BY <2>3
  <2>5. d \in AnyRequest /\ d.op = c.op /\ d.stage = "read" /\ d.at = version /\ d.views = <<v>>
        /\ d.id = c.id /\ d.wrote = c.wrote
    BY <2>1, <2>2, <2>3, <2>4 DEF AnyRequest
  <2> HIDE DEF d
  <2>6. PICK tables, relays : Explained(tables, relays)
    BY DEF TInv
  <2>7. Tells(v, version, tables, relays, version) /\ c.id \in DOMAIN tables[version]
    BY <1>2, <2>2, <2>3, <2>6 DEF Tells, Explained, IsHistory
  <2>8. ToldOne(d, tables, relays, version)
    BY <2>2, <2>3, <2>5, <2>7 DEF ToldOne
  <2>9. c.op \in {"create", "update"} => WroteOnce(d, tables, relays, version)
    <3> SUFFICES ASSUME c.op \in {"create", "update"} PROVE WroteOnce(d, tables, relays, version)
      OBVIOUS
    <3>1. c.op \in {"create", "update", "delete"} /\ c.stage # "sent"
      BY <2>1
    <3>2. WroteOnce(c, tables, relays, version)
      BY <2>6, <3>1 DEF Explained, Traced
    <3> QED
      BY <3>2, <2>5, SameWrite
  <2>10. Traced(d, tables, relays, version)
    <3>1. d.op \notin {"load", "order"} /\ d.op # "delete"
          /\ (d.op \in {"create", "update", "delete"} => c.op \in {"create", "update"})
      BY <2>1, <2>5
    <3> QED
      BY <2>8, <2>9, <3>1 DEF Traced
  <2> QED
    BY <2>1, <2>5, <2>6, <2>10, OneReads
<1> QED
  BY <1>1, <1>2

LEMMA DescribedIs ==
  ASSUME TabsTypes, NEW tables, NEW relays, Explained(tables, relays), NEW k \in 1 .. version,
         NEW v \in Entry, Tells(v, k, tables, relays, version)
  PROVE  /\ Described(v) \in Entry /\ Described(v).id = v.id
         /\ Tells(Described(v), k, tables, relays, version)
<1>1. PICK r \in k .. version : v = Told(v.id, tables[k], relays[r])
  BY DEF Tells
<1>2. Described(v) \in Entry /\ Described(v).id = v.id
  BY DEF Described, Entry
<1>3. Described(v) = Told(v.id, tables[k], relayRoom)
  <2>1. v.name = tables[k][v.id].name /\ v.room = tables[k][v.id].room
    BY <1>1 DEF Told
  <2>2. Described(v) = [id |-> v.id, name |-> v.name, room |-> v.room, touches |-> v.room = relayRoom]
    BY DEF Described, Entry
  <2> QED
    BY <2>1, <2>2 DEF Told
<1>4. relays[version] = relayRoom /\ version \in k .. version
  BY DEF Explained, IsHistory, TabsTypes
<1> QED
  BY <1>2, <1>3, <1>4 DEF Tells

LEMMA AllDescribed ==
  ASSUME TInv, NEW c \in requests, DescribeAll(c), UNCHANGED <<list, seen, events>>
  PROVE  TInv'
<1> DEFINE now == [i \in DOMAIN c.views |-> Described(c.views[i])]
           d == [c EXCEPT !.stage = "answered", !.views = now]
<1>1. c \in AnyRequest /\ requests' = (requests \ {c}) \cup {d} /\ UNCHANGED database /\ c.stage = "read"
  BY DEF DescribeAll, Becomes, TInv, TabsTypes, AnyRequest
<1>2. c.views \in Seq(Entry) /\ DOMAIN now = DOMAIN c.views
  BY <1>1, RequestIs
<1>3. \A i \in DOMAIN c.views : now[i] = Described(c.views[i]) /\ c.views[i] \in Entry
  BY <1>2
<1>4. now \in Seq(Entry)
  <2>1. \A i \in DOMAIN c.views : Described(c.views[i]) \in Entry
    BY <1>3 DEF Described, Entry
  <2>2. now \in [1 .. Len(c.views) -> Entry] /\ Len(c.views) \in Nat
    BY <1>2, <2>1
  <2> HIDE DEF now
  <2> QED
    BY <2>2
<1> HIDE DEF now
<1>5. d \in AnyRequest /\ d.op = c.op /\ d.stage = "answered" /\ d.at = c.at /\ d.views = now
      /\ d.id = c.id /\ d.wrote = c.wrote
  BY <1>1, <1>4 DEF AnyRequest
<1> HIDE DEF d
<1>6. PICK tables, relays : Explained(tables, relays)
  BY DEF TInv
<1>7. Traced(c, tables, relays, version)
  BY <1>6 DEF Explained
<1>8. d.op \in {"create", "update", "delete"} => WroteOnce(d, tables, relays, version)
  BY <1>1, <1>5, <1>7, SameWrite DEF Traced
<1>9. d.op \in {"load", "order"} => d.at \in 1 .. version /\ TrueOf(d.views, d.at, tables, relays, version)
  <2> SUFFICES ASSUME d.op \in {"load", "order"}
               PROVE  c.at \in 1 .. version /\ TrueOf(now, c.at, tables, relays, version)
    BY <1>5
  <2>1. c.at \in 1 .. version /\ TrueOf(c.views, c.at, tables, relays, version)
    BY <1>1, <1>5, <1>7 DEF Traced
  <2>2. ASSUME NEW i \in DOMAIN now
        PROVE  now[i].id = c.views[i].id /\ Tells(now[i], c.at, tables, relays, version)
    <3>1. c.views[i] \in Entry /\ now[i] = Described(c.views[i]) /\ i \in DOMAIN c.views
      BY <1>2, <1>3
    <3>2. Tells(c.views[i], c.at, tables, relays, version)
      BY <2>1, <3>1 DEF TrueOf
    <3> QED
      BY <2>1, <3>1, <3>2, <1>6, DescribedIs DEF TInv
  <2>3. {now[i].id : i \in DOMAIN now} = {c.views[i].id : i \in DOMAIN c.views}
    BY <2>2, <1>2
  <2>4. \A i, j \in DOMAIN now : now[i].id = now[j].id => i = j
    BY <2>1, <2>2, <1>2 DEF TrueOf
  <2>5. InOrder(now, tables[c.at])
    BY <2>1, <2>2, <1>2 DEF TrueOf, InOrder
  <2>6. {now[i].id : i \in DOMAIN now} = DOMAIN tables[c.at]
    BY <2>1, <2>3 DEF TrueOf
  <2> QED
    BY <2>1, <2>2, <2>4, <2>5, <2>6 DEF TrueOf
<1>10. d.op \in {"create", "update", "run"} => ToldOne(d, tables, relays, version)
  <2> SUFFICES ASSUME d.op \in {"create", "update", "run"} PROVE ToldOne(d, tables, relays, version)
    OBVIOUS
  <2>1. ToldOne(c, tables, relays, version)
    BY <1>1, <1>5, <1>7 DEF Traced
  <2>2. PICK v \in Entry : c.views = <<v>> /\ v.id = c.id /\ Tells(v, c.at, tables, relays, version)
    BY <2>1 DEF ToldOne
  <2>3. Described(v) \in Entry /\ Described(v).id = c.id /\ Tells(Described(v), c.at, tables, relays, version)
    <3>1. c.at \in 1 .. version
      BY <2>1 DEF ToldOne
    <3> QED
      BY <2>2, <3>1, <1>6, DescribedIs DEF TInv
  <2>4. now = <<Described(v)>>
    <3>1. DOMAIN c.views = {1} /\ c.views[1] = v
      BY <2>2
    <3>2. now[1] = Described(v) /\ DOMAIN now = {1}
      BY <1>2, <1>3, <3>1
    <3>3. Len(now) = 1
      BY <1>4, <3>2
    <3> QED
      BY <1>4, <3>2, <3>3
  <2> QED
    BY <1>5, <2>1, <2>3, <2>4 DEF ToldOne
<1>11. d.op = "delete" => d.at = d.wrote
  BY <1>1, <1>5, <1>7 DEF Traced
<1>12. Traced(d, tables, relays, version)
  BY <1>8, <1>9, <1>10, <1>11 DEF Traced
<1> QED
  BY <1>1, <1>5, <1>6, <1>12, OneReads

-----------------------------------------------------------------------------
(* The answers, and the page.                                              *)
LEMMA ReplacedType ==
  ASSUME list \in Seq(Entry), NEW v \in Entry
  PROVE  Replaced(v) \in Seq(Entry)
<1>1. Len(list) \in Nat /\ DOMAIN list = 1 .. Len(list) /\ \A i \in 1 .. Len(list) : list[i] \in Entry
  BY LenProperties, ElementOfSeq
<1>2. Replaced(v) \in [1 .. Len(list) -> Entry]
  BY <1>1 DEF Replaced
<1> QED
  BY <1>1, <1>2

\* What the copy shows is known again only once the answer to the next change arrives.
LEMMA NextSeenIs ==
  ASSUME TabsTypes, NEW c \in AnyRequest, c.at \in 0 .. version
  PROVE  /\ NextSeen(c) \in 0 .. version
         /\ NextSeen(c) # 0 => NextSeen(c) = c.at /\ seen # 0 /\ seen \in 1 .. version
                                /\ c.at = seen + 1 /\ c.wrote = c.at /\ c.at \in 1 .. version
BY DEF NextSeen, TabsTypes

LEMMA Arrived ==
  ASSUME TInv, AnswerArrives
  PROVE  TInv'
<1>1. PICK c \in requests :
        /\ c.stage = "answered"
        /\ ListArrives(c) \/ CreatedArrives(c) \/ UpdatedArrives(c) \/ LaunchedArrives(c) \/ DeletedArrives(c)
        /\ requests' = requests \ {c}
        /\ UNCHANGED <<database, events>>
  BY DEF AnswerArrives
<1>2. PICK tables, relays : Explained(tables, relays)
  BY DEF TInv
<1>3. c \in AnyRequest /\ Traced(c, tables, relays, version) /\ c.views \in Seq(Entry)
      /\ TabsTypes /\ list \in Seq(Entry) /\ version \in Nat /\ seen \in 0 .. version
  BY <1>2, RequestIs DEF TInv, TabsTypes, Explained
<1>4. seen # 0 => TrueOf(list, seen, tables, relays, version)
  BY <1>2 DEF Explained
<1> SUFFICES /\ list' \in Seq(Entry) /\ seen' \in 0 .. version
             /\ seen' # 0 => TrueOf(list', seen', tables, relays, version)
  BY <1>1, <1>2, Unwritten DEF TInv
<1>5. CASE ListArrives(c)
  <2>1. c.at \in 1 .. version /\ TrueOf(c.views, c.at, tables, relays, version)
    BY <1>1, <1>3, <1>5 DEF ListArrives, Traced
  <2> QED
    BY <2>1, <1>3, <1>5 DEF ListArrives
<1>6. CASE CreatedArrives(c)
  <2>1. WroteOnce(c, tables, relays, version) /\ ToldOne(c, tables, relays, version) /\ c.op = "create"
    BY <1>1, <1>3, <1>6 DEF CreatedArrives, Traced
  <2>2. PICK v \in Entry : c.views = <<v>> /\ v.id = c.id /\ Tells(v, c.at, tables, relays, version)
    BY <2>1 DEF ToldOne
  <2>3. list' = list \o <<v>> /\ seen' = NextSeen(c) /\ c.at \in 0 .. version
    BY <2>1, <2>2, <1>6 DEF CreatedArrives, ToldOne
  <2>4. list' \in Seq(Entry)
    BY <2>2, <2>3, <1>3, ConcatProperties
  <2>5. ASSUME seen' # 0 PROVE TrueOf(list', seen', tables, relays, version)
    <3>1. seen' = c.at /\ seen \in 1 .. version /\ c.at \in 1 .. version /\ c.at = seen + 1 /\ c.wrote = c.at
          /\ TrueOf(list, seen, tables, relays, version)
      BY <2>3, <2>5, <1>3, <1>4, NextSeenIs
    <3>2. c.wrote - 1 = seen
      BY <3>1
    <3>3. relays[c.at] = relays[seen] /\ Adds(c, tables[seen], tables[c.at])
      BY <2>1, <3>1, <3>2 DEF WroteOnce, Did
    <3>4. TrueOf(list \o <<v>>, c.at, tables, relays, version)
      BY <3>1, <3>3, <2>2, <1>3, AppendedTrue
    <3> QED
      BY <3>1, <3>4, <2>3
  <2> QED
    BY <2>3, <2>4, <2>5, <1>3, NextSeenIs
<1>7. CASE UpdatedArrives(c)
  <2>1. WroteOnce(c, tables, relays, version) /\ ToldOne(c, tables, relays, version) /\ c.op = "update"
    BY <1>1, <1>3, <1>7 DEF UpdatedArrives, Traced
  <2>2. PICK v \in Entry : c.views = <<v>> /\ v.id = c.id /\ Tells(v, c.at, tables, relays, version)
    BY <2>1 DEF ToldOne
  <2>3. list' = Replaced(v) /\ seen' = NextSeen(c) /\ c.at \in 0 .. version
    BY <2>1, <2>2, <1>7 DEF UpdatedArrives, ToldOne
  <2>4. list' \in Seq(Entry)
    BY <2>2, <2>3, <1>3, ReplacedType
  <2>5. ASSUME seen' # 0 PROVE TrueOf(list', seen', tables, relays, version)
    <3>1. seen' = c.at /\ seen \in 1 .. version /\ c.at \in 1 .. version /\ c.at = seen + 1 /\ c.wrote = c.at
          /\ TrueOf(list, seen, tables, relays, version)
      BY <2>3, <2>5, <1>3, <1>4, NextSeenIs
    <3>2. c.wrote - 1 = seen
      BY <3>1
    <3>3. relays[c.at] = relays[seen] /\ Replaces(c, tables[seen], tables[c.at])
      BY <2>1, <3>1, <3>2 DEF WroteOnce, Did
    <3>4. TrueOf(Replaced(v), c.at, tables, relays, version)
      BY <3>1, <3>3, <2>2, <1>3, ReplacedTrue
    <3> QED
      BY <3>1, <3>4, <2>3
  <2> QED
    BY <2>3, <2>4, <2>5, <1>3, NextSeenIs
<1>8. CASE LaunchedArrives(c)
  <2>1. ToldOne(c, tables, relays, version) /\ c.op = "run"
    BY <1>1, <1>3, <1>8 DEF LaunchedArrives, Traced
  <2>2. PICK v \in Entry : c.views = <<v>> /\ v.id = c.id /\ Tells(v, c.at, tables, relays, version)
    BY <2>1 DEF ToldOne
  <2>3. list' = Replaced(v) /\ seen' = (IF c.at = seen THEN seen ELSE 0)
    BY <2>2, <1>8 DEF LaunchedArrives
  <2>4. list' \in Seq(Entry)
    BY <2>2, <2>3, <1>3, ReplacedType
  <2>5. ASSUME seen' # 0 PROVE TrueOf(list', seen', tables, relays, version)
    <3>1. seen' = seen /\ c.at = seen /\ seen # 0 /\ seen \in 1 .. version
          /\ TrueOf(list, seen, tables, relays, version)
      BY <2>3, <2>5, <1>3, <1>4
    <3>2. Replaces(c, tables[seen], tables[seen])
      BY <2>1, <3>1 DEF ToldOne, Replaces
    <3>3. TrueOf(Replaced(v), seen, tables, relays, version)
      BY <3>1, <3>2, <2>2, <1>3, ReplacedTrue
    <3> QED
      BY <3>1, <3>3, <2>3
  <2> QED
    BY <2>3, <2>4, <2>5, <1>3
<1>9. CASE DeletedArrives(c)
  <2>1. WroteOnce(c, tables, relays, version) /\ c.op = "delete" /\ c.at = c.wrote
    BY <1>1, <1>3, <1>9 DEF DeletedArrives, Traced
  <2>2. list' = Without(c.id) /\ seen' = NextSeen(c) /\ c.at \in 0 .. version
    BY <2>1, <1>3, <1>9 DEF DeletedArrives, WroteOnce
  <2>3. list' \in Seq(Entry)
    BY <2>2, <1>3, WithoutIs DEF IsWithout
  <2>4. ASSUME seen' # 0 PROVE TrueOf(list', seen', tables, relays, version)
    <3>1. seen' = c.at /\ seen \in 1 .. version /\ c.at \in 1 .. version /\ c.at = seen + 1 /\ c.wrote = c.at
          /\ TrueOf(list, seen, tables, relays, version)
      BY <2>2, <2>4, <1>3, <1>4, NextSeenIs
    <3>2. c.wrote - 1 = seen
      BY <3>1
    <3>3. relays[c.at] = relays[seen] /\ Removes(c, tables[seen], tables[c.at])
      BY <2>1, <3>1, <3>2 DEF WroteOnce, Did
    <3>4. TrueOf(Without(c.id), c.at, tables, relays, version)
      BY <3>1, <3>3, <1>3, WithoutTrue
    <3> QED
      BY <3>1, <3>4, <2>2
  <2> QED
    BY <2>2, <2>3, <2>4, <1>3, NextSeenIs
<1> QED
  BY <1>1, <1>5, <1>6, <1>7, <1>8, <1>9

\* A request just sent.
LEMMA Sent ==
  ASSUME TInv, NEW op \in {"load", "create", "update", "delete", "run", "order"}, NEW id \in Nat,
         NEW spec \in Specs, NEW ids \in Seq(Nat), Send(Request(op, id, spec, ids))
  PROVE  TInv'
<1> DEFINE d == Request(op, id, spec, ids)
<1>1. d \in AnyRequest /\ d.stage = "sent"
  BY EmptySeq DEF Request, AnyRequest
<1>2. UNCHANGED <<database, list, seen>> /\ requests' \subseteq requests \cup {d}
  BY DEF Send
<1> HIDE DEF d
<1>3. PICK tables, relays : Explained(tables, relays)
  BY DEF TInv
<1>4. Traced(d, tables, relays, version)
  BY <1>1 DEF Traced
<1> QED
  BY <1>1, <1>2, <1>3, <1>4, OneReads

LEMMA ShownIds ==
  ASSUME TInv, NEW p \in Bijection(DOMAIN list, DOMAIN list)
  PROVE  [i \in DOMAIN list |-> list[p[i]].id] \in Seq(Nat)
<1>1. list \in Seq(Entry)
  BY DEF TInv, TabsTypes
<1>2. Len(list) \in Nat /\ DOMAIN list = 1 .. Len(list) /\ \A i \in DOMAIN list : list[i] \in Entry
  BY <1>1, LenProperties, ElementOfSeq
<1>3. \A i \in DOMAIN list : p[i] \in DOMAIN list
  BY DEF Bijection, Injection
<1>4. \A i \in DOMAIN list : list[p[i]].id \in Nat
  BY <1>2, <1>3 DEF Entry
<1> QED
  BY <1>2, <1>4

LEMMA PageSends ==
  ASSUME TInv, Page
  PROVE  TInv'
<1>1. NoSpec \in Specs /\ <<>> \in Seq(Nat)
  BY SceneTabsAssumption, EmptySeq DEF NoSpec
<1>2. \A i \in DOMAIN list : list[i].id \in Nat
  <2>1. \A i \in DOMAIN list : list[i] \in Entry
    BY DEF TInv, TabsTypes
  <2> QED
    BY <2>1 DEF Entry
<1>3. CASE Load
  BY <1>1, <1>3, Sent DEF Load, Reload
<1>4. CASE Create
  BY <1>1, <1>4, Sent DEF Create, Creations
<1>5. CASE Update
  BY <1>1, <1>2, <1>5, Sent DEF Update
<1>6. CASE Delete
  BY <1>1, <1>2, <1>6, Sent DEF Delete
<1>7. CASE Run
  BY <1>1, <1>2, <1>7, Sent DEF Run
<1>8. CASE SaveOrder
  <2>1. ASSUME NEW p \in Bijection(DOMAIN list, DOMAIN list),
               Send(Request("order", 0, NoSpec, [i \in DOMAIN list |-> list[p[i]].id]))
        PROVE  TInv'
    BY <2>1, <1>1, ShownIds, Sent
  <2>2. ASSUME Send(Request("order", 0, NoSpec, <<>>)) PROVE TInv'
    BY <2>2, <1>1, Sent
  <2> QED
    BY <1>8, <2>1, <2>2 DEF SaveOrder
<1> QED
  BY <1>3, <1>4, <1>5, <1>6, <1>7, <1>8 DEF Page

LEMMA TabsStart == TabsInit => TInv
<1> SUFFICES ASSUME TabsInit PROVE TInv
  OBVIOUS
<1>1. PICK ranked \in BOOLEAN : table = [id \in {1, 2} |-> Row(FirstScenes[id], IF ranked THEN id - 1 ELSE Unranked)]
  BY DEF TabsInit
<1>2. lastId = 2 /\ relayRoom \in Rooms /\ version = 1 /\ list = Views /\ seen = 1 /\ requests = {}
  BY SceneTabsAssumption DEF TabsInit
<1>3. ASSUME NEW id \in {1, 2}
      PROVE  /\ table[id] \in SceneRow
             /\ table[id].position = (IF ranked THEN id - 1 ELSE Unranked)
  <2>1. FirstScenes[id].name \in Int /\ FirstScenes[id].room \in Rooms
    <3>1. (CHOOSE r \in Rooms : TRUE) \in Rooms
      BY <1>2
    <3>2. CASE id = 1
      BY <3>1, <3>2 DEF FirstScenes
    <3>3. CASE id = 2
      BY <3>1, <3>3 DEF FirstScenes
    <3> QED
      BY <3>2, <3>3
  <2> DEFINE p == IF ranked THEN id - 1 ELSE Unranked
  <2>2. p \in Nat \cup {Unranked}
    OBVIOUS
  <2>3. table[id] = Row(FirstScenes[id], p)
    BY <1>1
  <2> HIDE DEF p
  <2>4. table[id] \in SceneRow /\ table[id].position = p
    BY <2>1, <2>2, <2>3 DEF Row, SceneRow
  <2> QED
    BY <2>4 DEF p
<1>4. DOMAIN table = {1, 2} /\ table = [id \in DOMAIN table |-> table[id]]
  BY <1>1
<1>5. IsTable(table, lastId)
  <2>1. \A id \in DOMAIN table : table[id] \in SceneRow
    BY <1>3, <1>4
  <2>2. DOMAIN table \subseteq 1 .. lastId
    BY <1>2, <1>4
  <2> QED
    BY <2>1, <2>2, <1>4, Zenon DEF IsTable
<1>6. PositionsAreDistinct
  BY <1>3, <1>4 DEF PositionsAreDistinct, Unranked
<1>7. TabsTypes /\ list \in Seq(Entry)
  <2>1. TabsTypes
    BY <1>2, <1>5 DEF TabsTypes
  <2> QED
    BY <2>1, <1>2, ViewsAre
<1> DEFINE tables == [k \in 1 .. 1 |-> table]
           relays == [k \in 1 .. 1 |-> relayRoom]
<1>8. IsHistory(tables, relays, version, table, relayRoom, lastId)
  BY <1>2, <1>5 DEF IsHistory
<1> HIDE DEF tables, relays
<1>9. TrueOf(list, seen, tables, relays, version)
  BY <1>2, <1>6, <1>7, <1>8, ViewsAreTrue
<1>10. Explained(tables, relays)
  BY <1>2, <1>8, <1>9 DEF Explained
<1> QED
  BY <1>6, <1>7, <1>10 DEF TInv

LEMMA TabsStep == TInv /\ [TabsNext]_tabs => TInv'
<1> SUFFICES ASSUME TInv, [TabsNext]_tabs PROVE TInv'
  OBVIOUS
<1>1. CASE Page
  BY <1>1, PageSends
<1>2. CASE Handle
  <2>1. PICK c \in requests :
          /\ \/ ServeCreate(c) \/ ServeUpdate(c) \/ ServeDelete(c) \/ ServeOrder(c)
             \/ Refused(c) \/ ReadList(c) \/ ReadView(c) \/ DescribeAll(c)
          /\ UNCHANGED <<list, seen, events>>
    BY <1>2 DEF Handle
  <2>2. CASE ServeCreate(c)
    BY <2>1, <2>2, CreateServed
  <2>3. CASE ServeUpdate(c)
    BY <2>1, <2>3, UpdateServed
  <2>4. CASE ServeDelete(c)
    BY <2>1, <2>4, DeleteServed
  <2>5. CASE ServeOrder(c)
    BY <2>1, <2>5, OrderServed
  <2>6. CASE Refused(c)
    BY <2>1, <2>6, Refusals DEF Refused
  <2>7. CASE ReadList(c)
    BY <2>1, <2>7, ListRead
  <2>8. CASE ReadView(c)
    BY <2>1, <2>8, ViewRead
  <2>9. CASE DescribeAll(c)
    BY <2>1, <2>9, AllDescribed
  <2> QED
    BY <2>1, <2>2, <2>3, <2>4, <2>5, <2>6, <2>7, <2>8, <2>9
<1>3. CASE AnswerArrives
  BY <1>3, Arrived
<1>4. CASE Fail
  BY <1>4, Refusals DEF Fail
<1>5. CASE OtherPages
  BY <1>5, ElsewhereChanged
<1>6. CASE UNCHANGED tabs
  BY <1>6, Refusals DEF tabs, database
<1> QED
  BY <1>1, <1>2, <1>3, <1>4, <1>5, <1>6 DEF TabsNext

LEMMA TabsInvariance == TabsSpec => []TInv
  BY TabsStart, TabsStep, PTL DEF TabsSpec

\* The scenes that have a position each have their own, whatever was created, deleted and
\* ordered, here or elsewhere (store/scenes.go CreateScene, SetSceneOrder).
THEOREM PositionsDistinct == TabsSpec => []PositionsAreDistinct
  BY TabsInvariance, PTL DEF TInv

\* A page that applied in their order the answers to its own changes since a list it read,
\* nobody having changed anything else, shows what the database has (scenes.store.ts save,
\* remove, saveOrder, run; api/scenes.go).
THEOREM KnownCopy == TabsSpec => []KnownCopyIsTrue
<1>1. TInv => KnownCopyIsTrue
  <2> SUFFICES ASSUME TInv, seen = version
               PROVE  /\ ToSet(list) = ToSet(Views) /\ Len(list) = Len(Views)
                      /\ Unranked \notin Positions => list = Views
    BY DEF KnownCopyIsTrue
  <2>1. PICK tables, relays : Explained(tables, relays)
    BY DEF TInv
  <2>2. IsHistory(tables, relays, version, table, relayRoom, lastId)
        /\ TrueOf(list, version, tables, relays, version)
    BY <2>1 DEF Explained, TInv, TabsTypes
  <2> QED
    BY <2>2, TrueIsViews DEF TInv
<1> QED
  BY <1>1, TabsInvariance, PTL

-----------------------------------------------------------------------------
(* The order from a step to the next.                                      *)
LastOfAll ==
  /\ Len(Listed) \in Nat
  /\ \A id \in DOMAIN table :
       \/ Last(Listed) = id
       \/ \E other \in DOMAIN table : other # id /\ Before(id, other)

LEMMA LastIs == TabsTypes => LastOfAll
<1> SUFFICES ASSUME TabsTypes PROVE LastOfAll
  OBVIOUS
<1> DEFINE N == Cardinality(DOMAIN table)
<1>1. /\ N \in Nat /\ DOMAIN Listed = 1 .. N /\ Listed \in Seq(DOMAIN table)
      /\ \A n \in 1 .. N : Listed[n] \in DOMAIN table
      /\ \A id \in DOMAIN table : \E n \in 1 .. N : Listed[n] = id
      /\ \A m, n \in 1 .. N : m < n => Before(Listed[m], Listed[n])
  BY ListedIs
<1> HIDE DEF N
<1>2. Len(Listed) = N
  BY <1>1, LenProperties
<1>3. ASSUME NEW id \in DOMAIN table, Listed[N] # id
      PROVE  \E other \in DOMAIN table : other # id /\ Before(id, other)
  <2>1. PICK n \in 1 .. N : Listed[n] = id
    BY <1>1
  <2>2. n < N /\ N \in 1 .. N
    BY <2>1, <1>1, <1>3
  <2> QED
    BY <2>1, <2>2, <1>1, <1>3
<1> QED
  BY <1>1, <1>2, <1>3 DEF LastOfAll, Last

LEMMA LastIsNext == TabsTypes' => LastOfAll'
  BY LastIs, PTL

\* What a step does to the table, when it does not order it.
Placed(id) == id \in DOMAIN table' => table'[id].position = table[id].position
Grows ==
  /\ lastId' \notin DOMAIN table /\ DOMAIN table' = DOMAIN table \cup {lastId'}
  /\ \A id \in DOMAIN table : table'[id] = table[id] /\ table[id].position < table'[lastId'].position

LEMMA TableSteps ==
  ASSUME TInv, [TabsNext]_tabs
  PROVE  \/ Ordered /\ DOMAIN table' = DOMAIN table
         \/ DOMAIN table' \subseteq DOMAIN table /\ \A id \in DOMAIN table : Placed(id)
         \/ Grows
<1>1. \A spec \in Specs : CreateScene(spec) => Grows
  BY CreateIs DEF TInv, Grows
<1>2. ASSUME NEW spec \in Specs, NEW id, UpdateScene(id, spec)
      PROVE  DOMAIN table' \subseteq DOMAIN table /\ \A other \in DOMAIN table : Placed(other)
  <2>1. /\ DOMAIN table' = DOMAIN table /\ table'[id].position = table[id].position
        /\ \A other \in DOMAIN table : other # id => table'[other] = table[other]
    BY <1>2, UpdateIs DEF TInv
  <2>2. ASSUME NEW other \in DOMAIN table PROVE Placed(other)
    <3>1. CASE other = id
      BY <2>1, <3>1 DEF Placed
    <3>2. CASE other # id
      BY <2>1, <3>2 DEF Placed
    <3> QED
      BY <3>1, <3>2
  <2> QED
    BY <2>1, <2>2
<1>3. ASSUME NEW id, DeleteScene(id)
      PROVE  DOMAIN table' \subseteq DOMAIN table /\ \A other \in DOMAIN table : Placed(other)
  BY <1>3, DeleteIs DEF TInv, Placed
<1>4. ASSUME NEW ids, SetSceneOrder(ids) PROVE DOMAIN table' = DOMAIN table
  BY <1>4 DEF SetSceneOrder
<1>5. ASSUME UNCHANGED table
      PROVE  DOMAIN table' \subseteq DOMAIN table /\ \A other \in DOMAIN table : Placed(other)
  BY <1>5 DEF Placed
<1>6. ASSUME Page PROVE UNCHANGED table
  BY <1>6 DEF Page, Load, Create, Update, Delete, Run, SaveOrder, Send, database
<1>7. CASE OtherPages
  <2>1. \A ids \in Orders : SetSceneOrder(ids) => Ordered
    BY <1>7 DEF Ordered, OtherPages
  <2>2. \A room \in Rooms : MoveRelay(room) => UNCHANGED table
    BY DEF MoveRelay
  <2> QED
    BY <1>1, <1>2, <1>3, <1>4, <1>5, <1>7, <2>1, <2>2 DEF OtherPages
<1>8. CASE Handle
  <2>1. PICK c \in requests :
          \/ ServeCreate(c) \/ ServeUpdate(c) \/ ServeDelete(c) \/ ServeOrder(c)
          \/ Refused(c) \/ ReadList(c) \/ ReadView(c) \/ DescribeAll(c)
    BY <1>8 DEF Handle
  <2>2. c.spec \in Specs
    BY RequestIs DEF TInv, TabsTypes
  <2>3. CASE ServeCreate(c)
    BY <2>2, <2>3, <1>1 DEF ServeCreate
  <2>4. CASE ServeUpdate(c)
    BY <2>2, <2>4, <1>2 DEF ServeUpdate
  <2>5. CASE ServeDelete(c)
    BY <2>5, <1>3 DEF ServeDelete
  <2>6. CASE ServeOrder(c)
    <3>1. /\ SetSceneOrder(c.ids) /\ c.op = "order" /\ c.stage = "sent"
          /\ requests' = (requests \ {c}) \cup {[c EXCEPT !.stage = "written"]}
      BY <2>6 DEF ServeOrder, Becomes
    <3>2. c \in AnyRequest
      BY DEF TInv, TabsTypes
    <3>3. [c EXCEPT !.stage = "written"].stage = "written"
      BY <3>2 DEF AnyRequest
    <3>4. c \in requests \ requests'
      BY <3>1, <3>3
    <3> QED
      BY <3>1, <3>4, <1>4 DEF Ordered
  <2>7. CASE Refused(c) \/ ReadList(c) \/ ReadView(c) \/ DescribeAll(c)
    BY <2>7, <1>5 DEF Refused, ReadList, ReadView, DescribeAll, database
  <2> QED
    BY <2>1, <2>3, <2>4, <2>5, <2>6, <2>7
<1>9. CASE Page \/ AnswerArrives \/ Fail \/ UNCHANGED tabs
  <2>1. UNCHANGED table
    BY <1>6, <1>9 DEF AnswerArrives, Fail, tabs, database
  <2> QED
    BY <2>1, <1>5
<1> QED
  BY <1>7, <1>8, <1>9 DEF TabsNext

\* Two scenes change places only when an order is saved, or by a new name, and a new scene
\* comes last as long as every scene has a position (store/scenes.go ListScenes,
\* CreateScene, SetSceneOrder).
THEOREM OrderKept == TabsSpec => OrderIsKept
<1>1. ASSUME TInv, TInv', [TabsNext]_tabs
      PROVE  /\ (\A a, b \in DOMAIN table : Kept(a) /\ Kept(b) => (Before(a, b) <=> Before(a, b)')) \/ Ordered
             /\ \A id \in DOMAIN table' : New(id) /\ Unranked \notin Positions => Last(Listed') = id
  <2>1. ASSUME ~Ordered, NEW a \in DOMAIN table, NEW b \in DOMAIN table, Kept(a), Kept(b)
        PROVE  Before(a, b) <=> Before(a, b)'
    <3>1. ASSUME NEW id \in DOMAIN table, Kept(id)
          PROVE  table'[id].position = table[id].position /\ table'[id].name = table[id].name
      BY <1>1, <2>1, <3>1, TableSteps DEF Placed, Kept, Grows
    <3>2. /\ table'[a].position = table[a].position /\ table'[a].name = table[a].name
          /\ table'[b].position = table[b].position /\ table'[b].name = table[b].name
      BY <2>1, <3>1
    <3> QED
      BY <3>2 DEF Before, Unranked
  <2>2. ASSUME NEW id \in DOMAIN table', New(id), Unranked \notin Positions PROVE Last(Listed') = id
    <3>1. Grows /\ id = lastId'
      BY <1>1, <2>2, TableSteps DEF New, Grows
    <3>2. LastOfAll'
      BY <1>1, LastIsNext DEF TInv
    <3> SUFFICES ASSUME NEW other \in DOMAIN table', other # id, Before(id, other)' PROVE FALSE
      BY <3>2 DEF LastOfAll, Last
    <3>3. other \in DOMAIN table /\ table'[other] = table[other] /\ table[other].position < table'[id].position
      BY <3>1 DEF Grows
    <3>4. table[other].position \in Int /\ table[other].position # Unranked /\ table'[id].position \in Int
      <4>1. table[other].position \in Int /\ table[other].position # Unranked
        BY <1>1, <2>2, <3>3, RowsAre DEF TInv, Positions
      <4>2. table'[id] \in [name : Int, room : Rooms, position : Nat \cup {-1}]
        BY <1>1 DEF TInv, TabsTypes, IsTable, SceneRow, Unranked
      <4> QED
        BY <4>1, <4>2
    <3> DEFINE p == table'[id].position
               q == table'[other].position
    <3>5. q \in Int /\ p \in Int /\ q < p /\ q # -1
      BY <3>3, <3>4 DEF Unranked
    <3>6. q = -1 \/ p < q \/ p = q
      BY DEF Before, Unranked
    <3> HIDE DEF p, q
    <3> QED
      BY <3>5, <3>6
  <2> QED
    BY <2>1, <2>2
<1>2. TInv /\ TInv' /\ [TabsNext]_tabs =>
        [/\ (\A a, b \in DOMAIN table : Kept(a) /\ Kept(b) => (Before(a, b) <=> Before(a, b)')) \/ Ordered
         /\ \A id \in DOMAIN table' : New(id) /\ Unranked \notin Positions => Last(Listed') = id]_tabs
  BY <1>1
<1> QED
  BY <1>2, TabsInvariance, PTL DEF TabsSpec, OrderIsKept
=============================================================================
