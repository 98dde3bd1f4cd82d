------------------------- MODULE SceneEngineProofs -------------------------
(***************************************************************************)
(* Theorems about SceneEngine, for any number of scenes, launches and      *)
(* process starts.                                                         *)
(***************************************************************************)
EXTENDS SceneEngine, TLAPS

(* The mutex is held exactly by the launch between its two halves of       *)
(* Trigger's critical section.                                             *)
MutexInv == \A r \in Launches : pc[r] = "checked" <=> mu = r

(* Only registered executions are cancelled, and an execution returns the  *)
(* empty issue only if its context is done.                                *)
CancelInv ==
  /\ \A r \in cancelled : pc[r] \notin {"idle", "loaded", "checked"}
  /\ \A r \in Launches : pc[r] = "executed" /\ result[r] = "" => ContextDone(r)
  /\ \A r \in Launches : pc[r] = "released" => result[r] # ""

(* For a scene whose launches crossed no window: the entry is the last     *)
(* launch, every other live execution is cancelled and bears a smaller     *)
(* token, and only the last launch has a write of last_status pending.     *)
(* The row follows unless the last issue could not be written.             *)
OrderlyScene(s) ==
  /\ runs[s] # NoLaunch => runs[s] = latest[s]
  /\ latest[s] # NoLaunch => latest[s] \in LaunchesOf(s)
  /\ \A r \in LaunchesOf(s) :
       /\ Live(r) => runs[s] # NoLaunch
       /\ Live(r) /\ r # runs[s] => r \in cancelled /\ token[r] < token[runs[s]]
       /\ pc[r] \in {"registered", "released"} => r = latest[s]
  /\ swept /\ s \in exists \ unwritten => BackedFor(s)
  /\ s \in exists \ unwritten => IssueOfLatestFor(s)

IInv ==
  /\ TypeOK
  /\ MutexInv
  /\ EntryIsLive
  /\ CancelInv
  /\ \A s \in Scenes \ raced : OrderlyScene(s)

-----------------------------------------------------------------------------
(* The initial state satisfies the inductive invariant. *)
LEMMA InitIInv == Init => IInv
<1> SUFFICES ASSUME Init PROVE IInv
  OBVIOUS
<1> USE SceneEngineAssumption DEF Init
<1>1. TypeOK
  <2>1. boots = 0 /\ token = [r \in Launches |-> 0]
    OBVIOUS
  <2>2. boots \in 0..MaxBoots /\ token \in [Launches -> Nat]
    BY ONLY <2>1, SceneEngineAssumption
  <2> QED
    BY <2>2 DEF TypeOK, Phase, Step, Issue, Status
<1>2. MutexInv /\ EntryIsLive /\ CancelInv
  BY DEF MutexInv, EntryIsLive, CancelInv
<1>3. \A s \in Scenes : OrderlyScene(s)
  BY DEF OrderlyScene, LaunchesOf, Live, BackedFor, IssueOfLatestFor, Settled
<1> QED
  BY <1>1, <1>2, <1>3 DEF IInv

-----------------------------------------------------------------------------
(* What a process's end resets keeps its types. *)
LEMMA ProcessEndsType == TypeOK /\ ProcessEnds => TypeOK'
<1> SUFFICES ASSUME TypeOK, ProcessEnds PROVE TypeOK'
  OBVIOUS
<1> USE SceneEngineAssumption DEF TypeOK, ProcessEnds
<1>1. phase' \in Phase /\ ctxDone' \in BOOLEAN /\ boots' \in 0..MaxBoots
  BY DEF Phase
<1>2. mu' \in Launches \cup {NoLaunch} /\ cancelled' \subseteq Launches
  OBVIOUS
<1>3. runs' \in [Scenes -> Launches \cup {NoLaunch}]
  OBVIOUS
<1>4. pc' \in [Launches -> Step]
  BY DEF Step
<1>5. token' \in [Launches -> Nat]
  OBVIOUS
<1>6. result' \in [Launches -> Issue]
  BY DEF Issue
<1>7. latest' \in [Scenes -> Launches \cup {NoLaunch}]
  OBVIOUS
<1>8. /\ raced' \subseteq Scenes /\ swept' \in BOOLEAN
      /\ unwritten' \subseteq Scenes /\ inside' \in Launches \cup {NoLaunch}
  OBVIOUS
<1>9. exists' \subseteq Scenes /\ lastStatus' \in [Scenes -> Status]
  OBVIOUS
<1> QED
  BY <1>1, <1>2, <1>3, <1>4, <1>5, <1>6, <1>7, <1>8, <1>9

(* Every action keeps the types: the records, the rows and the tokens.     *)
LEMMA TypeStep == TypeOK /\ [Next]_vars => TypeOK'
<1> SUFFICES ASSUME TypeOK, [Next]_vars PROVE TypeOK'
  OBVIOUS
<1> USE SceneEngineAssumption
    DEF Phase, Step, Issue, Status, memory, history, Goto
<1>0. boots \in 0..MaxBoots /\ MaxBoots \in Nat /\ token \in [Launches -> Nat]
  BY DEF TypeOK
<1> USE DEF TypeOK
<1>1. CASE Start
  <2>1. boots' = boots + 1 /\ boots < MaxBoots
    BY <1>1 DEF Start
  <2>2. boots' \in 0..MaxBoots
    BY ONLY <2>1, <1>0
  <2> QED
    BY <1>1, <2>2 DEF Start
<1>2. CASE SetRoot
  BY <1>2 DEF SetRoot
<1>3. CASE Sweep
  BY <1>3 DEF Sweep, SweptStatus
<1>4. CASE Stop
  BY <1>4 DEF Stop
<1>5. CASE Return
  BY <1>5 DEF Return
<1>6. CASE Exit \/ Crash
  BY <1>6, ProcessEndsType DEF Exit, Crash
<1>7. ASSUME NEW s \in Scenes, DeleteScene(s) PROVE TypeOK'
  BY <1>7 DEF DeleteScene
<1>8. ASSUME NEW r \in Launches, Load(r) PROVE TypeOK'
  BY <1>8 DEF Load
<1>9. ASSUME NEW r \in Launches, Lock(r) PROVE TypeOK'
  BY <1>9 DEF Lock, HolderAfterTest, Accepted
<1>10. ASSUME NEW r \in Launches, Register(r) PROVE TypeOK'
  <2>1. NextToken(Target[r]) \in Nat
    <3>1. runs[Target[r]] # NoLaunch => runs[Target[r]] \in Launches
      OBVIOUS
    <3> QED
      BY ONLY <3>1, <1>0 DEF NextToken
  <2>2. Replaced(Target[r]) \subseteq Launches
    <3>1. runs[Target[r]] \in Launches \cup {NoLaunch}
      OBVIOUS
    <3> QED
      BY ONLY <3>1 DEF Replaced
  <2> QED
    BY <1>10, <2>1, <2>2 DEF Register
<1>11. ASSUME NEW r \in Launches, StartRun(r) PROVE TypeOK'
  BY <1>11 DEF StartRun
<1>12. ASSUME NEW r \in Launches, Execute(r) PROVE TypeOK'
  <2>1. PICK issue \in Issues(r) : result' = [result EXCEPT ![r] = issue]
    BY <1>12 DEF Execute
  <2>2. issue \in Issue
    BY <2>1 DEF Issues
  <2>3. result' \in [Launches -> Issue] /\ pc' \in [Launches -> Step]
    BY <1>12, <2>1, <2>2 DEF Execute
  <2> QED
    BY <1>12, <2>3 DEF Execute
<1>13. ASSUME NEW r \in Launches, FinishSuperseded(r) PROVE TypeOK'
  BY <1>13 DEF FinishSuperseded
<1>14. ASSUME NEW r \in Launches, FinishCurrent(r) PROVE TypeOK'
  <2>1. FinalIssue(r) \in Issue
    BY DEF FinalIssue
  <2> QED
    BY <1>14, <2>1 DEF FinishCurrent
<1>15. ASSUME NEW r \in Launches, FinishRun(r) PROVE TypeOK'
  BY <1>15 DEF FinishRun
<1>16. CASE UNCHANGED vars
  BY <1>16 DEF vars
<1> QED
  BY <1>1, <1>2, <1>3, <1>4, <1>5, <1>6, <1>7, <1>8, <1>9, <1>10, <1>11, <1>12,
     <1>13, <1>14, <1>15, <1>16 DEF Next, Service, Goroutine

(* The values of the variables stay in their types: the entries of e.runs  *)
(* are executions, tokens are counters, last_status is one of its issues.  *)
THEOREM TypeCorrect == Spec => []TypeOK
<1>1. Init => TypeOK
  BY InitIInv DEF IInv
<1> QED
  BY <1>1, TypeStep, PTL DEF Spec

-----------------------------------------------------------------------------
(* Only the launch that passed the test on root holds the mutex. *)
LEMMA MutexStep == TypeOK /\ MutexInv /\ [Next]_vars => MutexInv'
<1> SUFFICES ASSUME TypeOK, MutexInv, [Next]_vars PROVE MutexInv'
  OBVIOUS
<1> USE SceneEngineAssumption DEF MutexInv, memory, Goto
<1>0. pc \in [Launches -> Step]
  BY DEF TypeOK
<1>1. CASE Service
  BY <1>0, <1>1 DEF Service, Start, SetRoot, Sweep, Stop, Return, Exit, Crash, ProcessEnds
<1>2. ASSUME NEW s \in Scenes, DeleteScene(s) PROVE MutexInv'
  BY <1>2 DEF DeleteScene
<1>3. ASSUME NEW r \in Launches, Load(r) PROVE MutexInv'
  BY <1>0, <1>3 DEF Load
<1>4. ASSUME NEW r \in Launches, Lock(r) PROVE MutexInv'
  BY <1>0, <1>4 DEF Lock, HolderAfterTest, Accepted
<1>5. ASSUME NEW r \in Launches, Register(r) PROVE MutexInv'
  BY <1>0, <1>5 DEF Register
<1>6. ASSUME NEW r \in Launches, StartRun(r) PROVE MutexInv'
  BY <1>0, <1>6 DEF StartRun
<1>7. ASSUME NEW r \in Launches, Execute(r) PROVE MutexInv'
  BY <1>0, <1>7 DEF Execute
<1>8. ASSUME NEW r \in Launches, FinishSuperseded(r) PROVE MutexInv'
  BY <1>0, <1>8 DEF FinishSuperseded
<1>9. ASSUME NEW r \in Launches, FinishCurrent(r) PROVE MutexInv'
  BY <1>0, <1>9 DEF FinishCurrent
<1>10. ASSUME NEW r \in Launches, FinishRun(r) PROVE MutexInv'
  BY <1>0, <1>10 DEF FinishRun
<1>11. CASE UNCHANGED vars
  BY <1>11 DEF vars
<1> QED
  BY <1>1, <1>2, <1>3, <1>4, <1>5, <1>6, <1>7, <1>8, <1>9, <1>10, <1>11
     DEF Next, Goroutine

(* The entries of e.runs stay live executions, whichever of Trigger and    *)
(* finish gets the mutex first.                                            *)
LEMMA EntryStep == TypeOK /\ EntryIsLive /\ CancelInv /\ [Next]_vars => EntryIsLive'
<1> SUFFICES ASSUME TypeOK, EntryIsLive, CancelInv, [Next]_vars PROVE EntryIsLive'
  OBVIOUS
<1> USE SceneEngineAssumption DEF EntryIsLive, Live, memory, Goto
<1>0. /\ pc \in [Launches -> Step]
      /\ runs \in [Scenes -> Launches \cup {NoLaunch}]
  BY DEF TypeOK
<1>1. CASE Start \/ SetRoot \/ Sweep \/ Stop \/ Return
  BY <1>0, <1>1 DEF Start, SetRoot, Sweep, Stop, Return
<1>2. CASE Exit \/ Crash
  <2>1. runs' = [s \in Scenes |-> NoLaunch]
    BY <1>2 DEF Exit, Crash, ProcessEnds
  <2> QED
    BY ONLY <2>1 DEF EntryIsLive
<1>3. ASSUME NEW s \in Scenes, DeleteScene(s) PROVE EntryIsLive'
  BY <1>3 DEF DeleteScene
<1>4. ASSUME NEW r \in Launches, Load(r) PROVE EntryIsLive'
  BY <1>0, <1>4 DEF Load
<1>5. ASSUME NEW r \in Launches, Lock(r) PROVE EntryIsLive'
  BY <1>0, <1>5 DEF Lock, HolderAfterTest
<1>6. ASSUME NEW r \in Launches, Register(r) PROVE EntryIsLive'
  <2>0. pc[r] = "checked"
    BY <1>6 DEF Register
  <2>a. r \notin cancelled
    BY <2>0 DEF CancelInv
  <2>b. Target[r] \in Scenes /\ r # NoLaunch
    OBVIOUS
  <2>1. r \notin cancelled /\ r # runs[Target[r]]
    BY <2>0, <2>a, <2>b
  <2>2. /\ pc' = [pc EXCEPT ![r] = "registered"]
        /\ runs' = [runs EXCEPT ![Target[r]] = r]
        /\ cancelled' = cancelled \cup ({runs[Target[r]]} \ {NoLaunch})
    BY <1>6 DEF Register, Replaced
  <2> QED
    BY <1>0, <2>1, <2>2
<1>7. ASSUME NEW r \in Launches, StartRun(r) PROVE EntryIsLive'
  BY <1>0, <1>7 DEF StartRun
<1>8. ASSUME NEW r \in Launches, Execute(r) PROVE EntryIsLive'
  BY <1>0, <1>8 DEF Execute
<1>9. ASSUME NEW r \in Launches, FinishSuperseded(r) PROVE EntryIsLive'
  <2>1. runs[Target[r]] # r
    BY <1>9 DEF FinishSuperseded, Current
  <2>2. /\ pc' = [pc EXCEPT ![r] = "done"]
        /\ runs' = runs /\ cancelled' = cancelled
    BY <1>9 DEF FinishSuperseded
  <2>3. \A q \in Launches : Live(q) /\ q # r => Live(q)'
    BY <1>0, <2>2
  <2>4. \A s \in Scenes : runs[s] # NoLaunch => runs[s] # r
    BY <2>1 DEF EntryIsLive
  <2> QED
    BY <1>0, <2>2, <2>3, <2>4
<1>10. ASSUME NEW r \in Launches, FinishCurrent(r) PROVE EntryIsLive'
  <2>1. /\ pc' = [pc EXCEPT ![r] = IF FinalIssue(r) = "" THEN "done" ELSE "released"]
        /\ runs' = [runs EXCEPT ![Target[r]] = NoLaunch]
        /\ cancelled' = cancelled
    BY <1>10 DEF FinishCurrent
  <2> QED
    BY <1>0, <2>1
<1>11. ASSUME NEW r \in Launches, FinishRun(r) PROVE EntryIsLive'
  BY <1>0, <1>11 DEF FinishRun
<1>12. CASE UNCHANGED vars
  BY <1>12 DEF vars
<1> QED
  BY <1>1, <1>2, <1>3, <1>4, <1>5, <1>6, <1>7, <1>8, <1>9, <1>10, <1>11, <1>12
     DEF Next, Service, Goroutine

(* Cancellation reaches registered executions only, and explains every     *)
(* empty issue.                                                            *)
LEMMA CancelStep == TypeOK /\ EntryIsLive /\ CancelInv /\ [Next]_vars => CancelInv'
<1> SUFFICES ASSUME TypeOK, EntryIsLive, CancelInv, [Next]_vars PROVE CancelInv'
  OBVIOUS
<1> USE SceneEngineAssumption DEF CancelInv, memory, Goto
<1>0. /\ pc \in [Launches -> Step]
      /\ runs \in [Scenes -> Launches \cup {NoLaunch}]
      /\ result \in [Launches -> Issue]
      /\ cancelled \subseteq Launches
  BY DEF TypeOK
<1>1. CASE Start \/ SetRoot \/ Sweep \/ Stop \/ Return
  <2>1. UNCHANGED <<pc, cancelled, result>>
    BY <1>1 DEF Start, SetRoot, Sweep, Stop, Return
  <2>2. ctxDone' = ctxDone \/ ctxDone'
    BY <1>1 DEF Start, SetRoot, Sweep, Stop, Return
  <2>3. \A r \in Launches : ContextDone(r) => ContextDone(r)'
    BY <2>1, <2>2, Zenon DEF ContextDone
  <2> QED
    BY ONLY <2>1, <2>3, CancelInv DEF CancelInv
<1>2. CASE Exit \/ Crash
  BY <1>0, <1>2 DEF Exit, Crash, ProcessEnds
<1>3. ASSUME NEW s \in Scenes, DeleteScene(s) PROVE CancelInv'
  BY <1>3 DEF DeleteScene, ContextDone
<1>4. ASSUME NEW r \in Launches, Load(r) PROVE CancelInv'
  BY <1>0, <1>4 DEF Load, ContextDone
<1>5. ASSUME NEW r \in Launches, Lock(r) PROVE CancelInv'
  BY <1>0, <1>5 DEF Lock, HolderAfterTest, ContextDone
<1>6. ASSUME NEW r \in Launches, Register(r) PROVE CancelInv'
  <2>1. r \notin cancelled
    BY <1>0, <1>6 DEF Register
  <2>2. runs[Target[r]] # NoLaunch =>
          pc[runs[Target[r]]] \notin {"idle", "loaded", "checked"}
    BY <1>0 DEF EntryIsLive, Live
  <2>3. /\ pc' = [pc EXCEPT ![r] = "registered"]
        /\ cancelled' = cancelled \cup ({runs[Target[r]]} \ {NoLaunch})
        /\ result' = result /\ ctxDone' = ctxDone
    BY <1>6 DEF Register, Replaced
  <2> QED
    BY <1>0, <2>1, <2>2, <2>3 DEF ContextDone
<1>7. ASSUME NEW r \in Launches, StartRun(r) PROVE CancelInv'
  BY <1>0, <1>7 DEF StartRun, ContextDone
<1>8. ASSUME NEW r \in Launches, Execute(r) PROVE CancelInv'
  <2>1. PICK issue \in Issues(r) : result' = [result EXCEPT ![r] = issue]
    BY <1>8 DEF Execute
  <2>2. issue = "" => ContextDone(r)
    BY <2>1, OutcomeAssumption DEF Issues
  <2> QED
    BY <1>0, <1>8, <2>1, <2>2 DEF Execute, ContextDone
<1>9. ASSUME NEW r \in Launches, FinishSuperseded(r) PROVE CancelInv'
  BY <1>0, <1>9 DEF FinishSuperseded, ContextDone
<1>10. ASSUME NEW r \in Launches, FinishCurrent(r) PROVE CancelInv'
  <2>1. /\ pc[r] = "executed"
        /\ pc' = [pc EXCEPT ![r] = IF FinalIssue(r) = "" THEN "done" ELSE "released"]
        /\ result' = [result EXCEPT ![r] = FinalIssue(r)]
        /\ cancelled' = cancelled /\ ctxDone' = ctxDone
    BY <1>10 DEF FinishCurrent
  <2> QED
    BY <1>0, <2>1 DEF ContextDone
<1>11. ASSUME NEW r \in Launches, FinishRun(r) PROVE CancelInv'
  BY <1>0, <1>11 DEF FinishRun, ContextDone
<1>12. CASE UNCHANGED vars
  BY <1>12 DEF vars, ContextDone
<1> QED
  BY <1>1, <1>2, <1>3, <1>4, <1>5, <1>6, <1>7, <1>8, <1>9, <1>10, <1>11, <1>12
     DEF Next, Service, Goroutine

(* An entry of e.runs, which is what the API shows as running, always      *)
(* designates an execution of the scene that is neither finished nor       *)
(* cancelled by a relaunch.                                                *)
THEOREM EntriesAreLive == Spec => []EntryIsLive
<1> DEFINE I == TypeOK /\ EntryIsLive /\ CancelInv
<1>1. Init => I
  BY InitIInv DEF IInv
<1>2. I /\ [Next]_vars => I'
  BY TypeStep, EntryStep, CancelStep
<1>3. I => EntryIsLive
  OBVIOUS
<1> QED
  BY <1>1, <1>2, <1>3, PTL DEF Spec

-----------------------------------------------------------------------------
(* A step that changes nothing a scene depends on keeps the scene orderly. *)
LEMMA OrderlyFrame ==
  ASSUME NEW s \in Scenes, OrderlyScene(s),
         runs'[s] = runs[s], latest'[s] = latest[s],
         s \in exists' => lastStatus'[s] = lastStatus[s],
         s \in unwritten /\ s \in exists' => s \in unwritten',
         swept' => swept, exists' \subseteq exists, cancelled \subseteq cancelled',
         \A q \in LaunchesOf(s) :
           /\ token'[q] = token[q]
           /\ Live(q)' <=> Live(q)
           /\ Counted(q)' <=> Counted(q)
           /\ pc'[q] \in {"registered", "released"} <=> pc[q] \in {"registered", "released"},
         Settled(s) => result'[latest[s]] = result[latest[s]]
  PROVE  OrderlyScene(s)'
<1>1. LaunchesOf(s)' = LaunchesOf(s)
  BY DEF LaunchesOf
<1>2. Settled(s)' <=> Settled(s)
  BY <1>1 DEF Settled
<1>3. s \in exists' /\ BackedFor(s) => BackedFor(s)'
  BY <1>1 DEF BackedFor
<1>4. s \in exists' /\ IssueOfLatestFor(s) => IssueOfLatestFor(s)'
  BY <1>2 DEF IssueOfLatestFor
<1>5. /\ swept' /\ s \in exists' \ unwritten' => BackedFor(s)'
      /\ s \in exists' \ unwritten' => IssueOfLatestFor(s)'
  BY <1>3, <1>4 DEF OrderlyScene
<1>6. \A r \in LaunchesOf(s) :
        /\ Live(r)' => runs'[s] # NoLaunch
        /\ Live(r)' /\ r # runs'[s] => r \in cancelled' /\ token'[r] < token'[runs'[s]]
        /\ pc'[r] \in {"registered", "released"} => r = latest'[s]
  BY DEF OrderlyScene
<1> QED
  BY <1>1, <1>5, <1>6 DEF OrderlyScene

(* Trigger's registration: the new execution takes the entry with a larger *)
(* token, and the one it replaces is cancelled.                            *)
LEMMA OrderlyRegister ==
  ASSUME TypeOK, EntryIsLive, CancelInv,
         NEW r \in Launches, Register(r), Target[r] \notin raced',
         OrderlyScene(Target[r])
  PROVE  OrderlyScene(Target[r])'
<1> DEFINE s == Target[r]
<1>0. /\ pc \in [Launches -> Step] /\ token \in [Launches -> Nat]
      /\ runs \in [Scenes -> Launches \cup {NoLaunch}] /\ cancelled \subseteq Launches
      /\ latest \in [Scenes -> Launches \cup {NoLaunch}]
      /\ s \in Scenes /\ NoLaunch \notin Launches
  BY SceneEngineAssumption DEF TypeOK
<1>1. /\ pc[r] = "checked"
      /\ pc' = [pc EXCEPT ![r] = "registered"]
      /\ token' = [token EXCEPT ![r] = NextToken(s)]
      /\ cancelled' = cancelled \cup ({runs[s]} \ {NoLaunch})
      /\ runs' = [runs EXCEPT ![s] = r]
      /\ latest' = [latest EXCEPT ![s] = r]
      /\ ~WritePending(s)
  BY DEF Register, Replaced, Goto
<1>2. /\ LaunchesOf(s)' = LaunchesOf(s) /\ r \in LaunchesOf(s)
      /\ runs'[s] = r /\ latest'[s] = r
  BY <1>0, <1>1 DEF LaunchesOf
<1>3. \A q \in LaunchesOf(s) \ {r} : pc'[q] = pc[q] /\ token'[q] = token[q]
  BY <1>0, <1>1 DEF LaunchesOf
<1>4. pc'[r] = "registered" /\ token'[r] = NextToken(s)
  <2>1. NextToken(s) \in Nat
    <3>1. runs[s] # NoLaunch => runs[s] \in Launches
      BY <1>0
    <3> QED
      BY <1>0, <3>1 DEF NextToken
  <2> QED
    BY <1>0, <1>1
<1>5. ASSUME NEW q \in LaunchesOf(s), Live(q), q # r
      PROVE  q \in cancelled' /\ token[q] < NextToken(s)
  <2>1. runs[s] # NoLaunch /\ runs[s] \in Launches
    BY <1>0, <1>5 DEF OrderlyScene
  <2>2. NextToken(s) = token[runs[s]] + 1
    BY <2>1 DEF NextToken
  <2>3. token[q] \in Nat /\ token[runs[s]] \in Nat
    BY <1>0, <2>1 DEF LaunchesOf
  <2>4. CASE q = runs[s]
    BY <1>1, <2>1, <2>2, <2>3, <2>4
  <2>5. CASE q # runs[s]
    <3>1. q \in cancelled /\ token[q] < token[runs[s]]
      BY <1>5, <2>5 DEF OrderlyScene
    <3> QED
      BY <1>1, <2>2, <2>3, <3>1
  <2> QED
    BY <2>4, <2>5
<1>6. \A q \in LaunchesOf(s) :
        /\ Live(q)' => runs'[s] # NoLaunch
        /\ Live(q)' /\ q # runs'[s] => q \in cancelled' /\ token'[q] < token'[runs'[s]]
        /\ pc'[q] \in {"registered", "released"} => q = latest'[s]
  BY <1>0, <1>1, <1>2, <1>3, <1>4, <1>5 DEF WritePending, Live
<1>7. Counted(r)'
  BY <1>4 DEF Counted, Live
<1>8. BackedFor(s)' /\ IssueOfLatestFor(s)'
  BY <1>2, <1>7 DEF BackedFor, IssueOfLatestFor, Settled
<1> QED
  BY <1>0, <1>2, <1>6, <1>8 DEF OrderlyScene

(* StartSceneRun, on time or failing: the execution it announces is there. *)
LEMMA OrderlyStartRun ==
  ASSUME TypeOK, NEW r \in Launches, StartRun(r), OrderlyScene(Target[r])
  PROVE  OrderlyScene(Target[r])'
<1> DEFINE s == Target[r]
<1>0. /\ pc \in [Launches -> Step] /\ s \in Scenes /\ r \in LaunchesOf(s)
      /\ LaunchesOf(s)' = LaunchesOf(s)
  BY SceneEngineAssumption DEF TypeOK, LaunchesOf
<1>1. /\ pc[r] = "registered" /\ pc' = [pc EXCEPT ![r] = "executing"]
      /\ UNCHANGED <<runs, token, cancelled, latest>>
  BY DEF StartRun, Goto, memory, history
<1>2. pc'[r] = "executing" /\ \A q \in LaunchesOf(s) \ {r} : pc'[q] = pc[q]
  BY <1>0, <1>1 DEF LaunchesOf
<1>3. Counted(r)'
  BY <1>2 DEF Counted, Live
<1>4. BackedFor(s)' /\ IssueOfLatestFor(s)'
  BY <1>0, <1>3 DEF BackedFor, IssueOfLatestFor, Settled
<1>5. \A q \in LaunchesOf(s) :
        /\ Live(q)' => runs'[s] # NoLaunch
        /\ Live(q)' /\ q # runs'[s] => q \in cancelled' /\ token'[q] < token'[runs'[s]]
        /\ pc'[q] \in {"registered", "released"} => q = latest'[s]
  BY <1>0, <1>1, <1>2 DEF OrderlyScene, Live
<1> QED
  BY <1>0, <1>1, <1>4, <1>5 DEF OrderlyScene

(* A superseded execution leaves without writing: the entry is another,    *)
(* live, execution, which will.                                            *)
LEMMA OrderlyFinishSuperseded ==
  ASSUME TypeOK, EntryIsLive, NEW r \in Launches, FinishSuperseded(r),
         OrderlyScene(Target[r])
  PROVE  OrderlyScene(Target[r])'
<1> DEFINE s == Target[r]
<1>0. /\ pc \in [Launches -> Step] /\ s \in Scenes /\ r \in LaunchesOf(s)
      /\ LaunchesOf(s)' = LaunchesOf(s)
  BY SceneEngineAssumption DEF TypeOK, LaunchesOf
<1>1. /\ pc[r] = "executed" /\ pc' = [pc EXCEPT ![r] = "done"] /\ ~Current(r)
      /\ UNCHANGED <<runs, token, cancelled, latest, lastStatus>>
  BY DEF FinishSuperseded, Goto, memory, history
<1>2. pc'[r] = "done" /\ \A q \in LaunchesOf(s) \ {r} : pc'[q] = pc[q]
  BY <1>0, <1>1 DEF LaunchesOf
<1>3. runs[s] # NoLaunch /\ runs[s] # r
  BY <1>0, <1>1 DEF OrderlyScene, Live, Current
<1>4. PICK entry \in LaunchesOf(s) : Live(entry) /\ entry # r
  BY <1>0, <1>3 DEF OrderlyScene, EntryIsLive
<1>5. Counted(entry)'
  BY <1>2, <1>4 DEF Counted, Live
<1>6. \E q \in LaunchesOf(s) : Counted(q)'
  BY <1>5
<1>7. BackedFor(s)' /\ IssueOfLatestFor(s)'
  BY <1>0, <1>6 DEF BackedFor, IssueOfLatestFor, Settled
<1>8. \A q \in LaunchesOf(s) :
        /\ Live(q)' => runs'[s] # NoLaunch
        /\ Live(q)' /\ q # runs'[s] => q \in cancelled' /\ token'[q] < token'[runs'[s]]
        /\ pc'[q] \in {"registered", "released"} => q = latest'[s]
  BY <1>0, <1>1, <1>2 DEF OrderlyScene, Live
<1> QED
  BY <1>0, <1>1, <1>7, <1>8 DEF OrderlyScene

(* The execution its token designates is the entry itself, the last        *)
(* launch; nothing lives on beside it, and it has an issue to write.       *)
LEMMA OrderlyFinishCurrent ==
  ASSUME TypeOK, EntryIsLive, CancelInv,
         NEW r \in Launches, FinishCurrent(r), Target[r] \notin raced',
         OrderlyScene(Target[r])
  PROVE  OrderlyScene(Target[r])'
<1> DEFINE s == Target[r]
<1>0. /\ pc \in [Launches -> Step] /\ runs \in [Scenes -> Launches \cup {NoLaunch}]
      /\ result \in [Launches -> Issue]
      /\ s \in Scenes /\ r \in LaunchesOf(s) /\ LaunchesOf(s)' = LaunchesOf(s)
  BY SceneEngineAssumption DEF TypeOK, LaunchesOf
<1>1. /\ pc[r] = "executed" /\ Current(r) /\ ~Lingering(r)
      /\ pc' = [pc EXCEPT ![r] = IF FinalIssue(r) = "" THEN "done" ELSE "released"]
      /\ runs' = [runs EXCEPT ![s] = NoLaunch]
      /\ UNCHANGED <<token, cancelled, latest>>
  BY DEF FinishCurrent, Goto
<1>2. runs[s] = r
  <2>1. runs[s] # NoLaunch /\ Live(runs[s]) /\ runs[s] \in LaunchesOf(s)
    BY <1>0, <1>1 DEF Current, EntryIsLive, OrderlyScene
  <2> QED
    BY <1>1, <2>1 DEF Lingering
<1>3. FinalIssue(r) # ""
  <2>1. r \notin cancelled
    BY <1>0, <1>2, SceneEngineAssumption DEF EntryIsLive, LaunchesOf
  <2>2. result[r] = "" => ctxDone
    BY <1>1, <2>1 DEF CancelInv, ContextDone
  <2> QED
    BY <2>2 DEF FinalIssue
<1>4. /\ pc'[r] = "released" /\ runs'[s] = NoLaunch
      /\ \A q \in LaunchesOf(s) \ {r} : pc'[q] = pc[q]
  BY <1>0, <1>1, <1>3 DEF LaunchesOf
<1>5. \A q \in LaunchesOf(s) : ~Live(q)'
  BY <1>0, <1>1, <1>4 DEF Lingering, Live
<1>6. \A q \in LaunchesOf(s) :
        pc'[q] \in {"registered", "released"} => q = latest'[s]
  BY <1>0, <1>1, <1>2, <1>4, SceneEngineAssumption DEF OrderlyScene, LaunchesOf
<1>7. Counted(r)'
  BY <1>4 DEF Counted
<1>8. BackedFor(s)' /\ IssueOfLatestFor(s)'
  BY <1>0, <1>7 DEF BackedFor, IssueOfLatestFor, Settled
<1> QED
  BY <1>0, <1>1, <1>4, <1>5, <1>6, <1>8 DEF OrderlyScene

(* FinishSceneRun: the row now bears the issue of the last launch, or the  *)
(* scene is one whose issue could not be written.                          *)
LEMMA OrderlyFinishRun ==
  ASSUME TypeOK, CancelInv, NEW r \in Launches, FinishRun(r),
         OrderlyScene(Target[r])
  PROVE  OrderlyScene(Target[r])'
<1> DEFINE s == Target[r]
<1>0. /\ pc \in [Launches -> Step] /\ lastStatus \in [Scenes -> Status]
      /\ result \in [Launches -> Issue]
      /\ s \in Scenes /\ r \in LaunchesOf(s) /\ LaunchesOf(s)' = LaunchesOf(s)
  BY SceneEngineAssumption DEF TypeOK, LaunchesOf
<1>1. /\ pc[r] = "released" /\ pc' = [pc EXCEPT ![r] = "done"]
      /\ s \in exists \ unwritten' => lastStatus' = [lastStatus EXCEPT ![s] = result[r]]
      /\ UNCHANGED <<runs, token, cancelled, latest, result, exists, swept>>
  BY DEF FinishRun, Goto, memory
<1>2. pc'[r] = "done" /\ \A q \in LaunchesOf(s) \ {r} : pc'[q] = pc[q]
  BY <1>0, <1>1 DEF LaunchesOf
<1>3. r = latest[s] /\ result[r] # "" /\ result[r] # "running"
  <2>1. r = latest[s]
    BY <1>0, <1>1 DEF OrderlyScene
  <2>2. result[r] # "" /\ result[r] \in Issue
    BY <1>0, <1>1 DEF CancelInv
  <2> QED
    BY <2>1, <2>2, OutcomeAssumption DEF Issue
<1>4. s \in exists' \ unwritten' => lastStatus'[s] = result[r]
  BY <1>0, <1>1
<1>5. s \in exists' \ unwritten' => BackedFor(s)' /\ IssueOfLatestFor(s)'
  BY <1>0, <1>1, <1>3, <1>4 DEF BackedFor, IssueOfLatestFor, Settled
<1>6. \A q \in LaunchesOf(s) :
        /\ Live(q)' => runs'[s] # NoLaunch
        /\ Live(q)' /\ q # runs'[s] => q \in cancelled' /\ token'[q] < token'[runs'[s]]
        /\ pc'[q] \in {"registered", "released"} => q = latest'[s]
  BY <1>0, <1>1, <1>2 DEF OrderlyScene, Live
<1> QED
  BY <1>0, <1>1, <1>5, <1>6 DEF OrderlyScene

(* The sweep of the table changes no row of a scene at rest, and leaves    *)
(* none "running".                                                         *)
LEMMA OrderlySweep ==
  ASSUME TypeOK, Sweep, NEW s \in Scenes, OrderlyScene(s)
  PROVE  OrderlyScene(s)'
<1>0. /\ lastStatus \in [Scenes -> Status] /\ result \in [Launches -> Issue]
      /\ LaunchesOf(s)' = LaunchesOf(s) /\ LaunchesOf(s) \subseteq Launches
  BY DEF TypeOK, LaunchesOf
<1>1. UNCHANGED <<runs, token, cancelled, pc, latest, result, exists, unwritten>>
  BY DEF Sweep, memory
<1>2. (swept' => ~ctxDone) /\ (~ctxDone => lastStatus' = SweptStatus(lastStatus))
  BY DEF Sweep
<1>3. ctxDone => lastStatus' = lastStatus
  BY DEF Sweep
<1>4. swept' /\ s \in exists' => BackedFor(s)'
  BY <1>1, <1>2 DEF SweptStatus, BackedFor
<1>5. s \in exists' \ unwritten' => IssueOfLatestFor(s)'
  <2> SUFFICES ASSUME s \in exists \ unwritten, Settled(s)
               PROVE  lastStatus'[s] = result[latest[s]] /\ result[latest[s]] # ""
    BY <1>0, <1>1 DEF IssueOfLatestFor, Settled, Counted, Live
  <2>1. lastStatus[s] = result[latest[s]] /\ result[latest[s]] # ""
    BY DEF OrderlyScene, IssueOfLatestFor
  <2>2. latest[s] \in Launches
    BY <1>0 DEF OrderlyScene, Settled
  <2>3. lastStatus[s] # "running"
    BY <1>0, <2>1, <2>2, OutcomeAssumption DEF Issue
  <2>4. CASE ctxDone
    BY <1>3, <2>1, <2>4
  <2>5. CASE ~ctxDone
    BY <1>2, <2>1, <2>3, <2>5 DEF SweptStatus
  <2> QED
    BY <2>4, <2>5
<1>6. \A q \in LaunchesOf(s) :
        /\ Live(q)' => runs'[s] # NoLaunch
        /\ Live(q)' /\ q # runs'[s] => q \in cancelled' /\ token'[q] < token'[runs'[s]]
        /\ pc'[q] \in {"registered", "released"} => q = latest'[s]
  BY <1>1 DEF OrderlyScene, Live
<1> QED
  BY <1>0, <1>1, <1>4, <1>5, <1>6 DEF OrderlyScene

(* A new process starts with no entry and no launch of its own. *)
LEMMA OrderlyProcessEnds ==
  ASSUME TypeOK, ProcessEnds, NEW s \in Scenes PROVE OrderlyScene(s)'
<1>1. /\ runs'[s] = NoLaunch /\ latest'[s] = NoLaunch /\ ~swept'
      /\ \A r \in Launches : pc'[r] \in {"idle", "done"}
  BY DEF ProcessEnds
<1> QED
  BY <1>1 DEF OrderlyScene, LaunchesOf, Live, IssueOfLatestFor, Settled

-----------------------------------------------------------------------------
(* Every action keeps every scene orderly as long as no window of it is    *)
(* crossed.                                                                *)
LEMMA OrderlyStep ==
  IInv /\ [Next]_vars => \A s \in Scenes \ raced' : OrderlyScene(s)'
<1> SUFFICES ASSUME IInv, [Next]_vars, NEW s \in Scenes, s \notin raced'
             PROVE  OrderlyScene(s)'
  BY DEF IInv
<1>0. TypeOK /\ MutexInv /\ EntryIsLive /\ CancelInv
  BY DEF IInv
<1>1. CASE Exit \/ Crash
  BY <1>0, <1>1, OrderlyProcessEnds DEF Exit, Crash
<1>2. s \notin raced => OrderlyScene(s)
  BY DEF IInv
<1>3. pc \in [Launches -> Step] /\ Target \in [Launches -> Scenes]
  BY <1>0, SceneEngineAssumption DEF TypeOK
<1>4. CASE Start \/ SetRoot \/ Stop \/ Return
  <2>1. UNCHANGED <<runs, latest, lastStatus, exists, cancelled, token, pc, result, raced,
                    unwritten>>
    BY <1>4 DEF Start, SetRoot, Stop, Return, memory, history
  <2>2. swept' = swept
    BY <1>4 DEF Start, SetRoot, Stop, Return, memory, history
  <2> QED
    BY <1>2, <2>1, <2>2, OrderlyFrame DEF Live, Counted
<1>5. CASE Sweep
  <2>1. raced' = raced
    BY <1>5 DEF Sweep
  <2> QED
    BY <1>0, <1>2, <1>5, <2>1, OrderlySweep
<1>6. ASSUME NEW t \in Scenes, DeleteScene(t) PROVE OrderlyScene(s)'
  <2>1. UNCHANGED <<runs, latest, cancelled, token, pc, result, raced>>
    BY <1>6 DEF DeleteScene, memory
  <2>2. swept' = swept /\ exists' \subseteq exists
    BY <1>6 DEF DeleteScene
  <2>3. s \in exists' => lastStatus'[s] = lastStatus[s]
    BY <1>0, <1>6 DEF DeleteScene, TypeOK
  <2>4. s \in unwritten /\ s \in exists' => s \in unwritten'
    BY <1>6 DEF DeleteScene
  <2> QED
    BY <1>2, <2>1, <2>2, <2>3, <2>4, OrderlyFrame DEF Live, Counted
<1>7. ASSUME NEW r \in Launches, Load(r) \/ Lock(r) PROVE OrderlyScene(s)'
  <2>1. UNCHANGED <<runs, latest, lastStatus, exists, cancelled, token, result, raced,
                    unwritten>>
    BY <1>7 DEF Load, Lock, HolderAfterTest, memory, history
  <2>2. swept' = swept
    BY <1>7 DEF Load, Lock, HolderAfterTest, memory, history
  <2>3. /\ pc[r] \in {"idle", "loaded"}
        /\ \E step \in {"loaded", "checked", "done"} : pc' = [pc EXCEPT ![r] = step]
    BY <1>7 DEF Load, Lock, Goto
  <2>4. \A q \in Launches :
          /\ Live(q)' <=> Live(q)
          /\ Counted(q)' <=> Counted(q)
          /\ pc'[q] \in {"registered", "released"} <=> pc[q] \in {"registered", "released"}
    BY <1>3, <2>3 DEF Live, Counted
  <2> QED
    BY <1>2, <2>1, <2>2, <2>4, OrderlyFrame DEF LaunchesOf
<1>8. ASSUME NEW r \in Launches, Execute(r) PROVE OrderlyScene(s)'
  <2>1. UNCHANGED <<runs, latest, lastStatus, exists, cancelled, token, raced, unwritten>>
    BY <1>8 DEF Execute, memory, history
  <2>2. swept' = swept
    BY <1>8 DEF Execute, memory, history
  <2>3. /\ pc[r] = "executing" /\ pc' = [pc EXCEPT ![r] = "executed"]
        /\ \E issue : result' = [result EXCEPT ![r] = issue]
    BY <1>8 DEF Execute, Goto
  <2>4. \A q \in Launches :
          /\ Live(q)' <=> Live(q)
          /\ Counted(q)' <=> Counted(q)
          /\ pc'[q] \in {"registered", "released"} <=> pc[q] \in {"registered", "released"}
    BY <1>3, <2>3 DEF Live, Counted
  <2>5. s \notin raced => (Settled(s) => result'[latest[s]] = result[latest[s]])
    <3> SUFFICES ASSUME s \notin raced, Settled(s)
                 PROVE  result'[latest[s]] = result[latest[s]]
      OBVIOUS
    <3>1. latest[s] \in LaunchesOf(s) /\ ~Counted(latest[s])
      BY <1>2 DEF OrderlyScene, Settled
    <3>2. latest[s] \in Launches /\ latest[s] # r
      BY <2>3, <3>1 DEF LaunchesOf, Counted, Live
    <3>3. result \in [Launches -> Issue]
      BY <1>0 DEF TypeOK
    <3> QED
      BY <2>3, <3>2, <3>3
  <2> QED
    BY <1>2, <2>1, <2>2, <2>4, <2>5, OrderlyFrame DEF LaunchesOf
<1>9. ASSUME NEW r \in Launches, Target[r] # s,
             \/ Register(r) \/ StartRun(r) \/ FinishSuperseded(r)
             \/ FinishCurrent(r) \/ FinishRun(r)
      PROVE  OrderlyScene(s)'
  <2>1. s \notin raced /\ exists' = exists /\ cancelled \subseteq cancelled'
    BY <1>9 DEF Register, StartRun, FinishSuperseded, FinishCurrent, FinishRun, memory, history
  <2>2. swept' = swept
    BY <1>9 DEF Register, StartRun, FinishSuperseded, FinishCurrent, FinishRun, memory, history
  <2>3. r \notin LaunchesOf(s) /\ LaunchesOf(s) \subseteq Launches
    BY <1>9 DEF LaunchesOf
  <2>4. runs'[s] = runs[s] /\ latest'[s] = latest[s]
    BY <1>0, <1>9 DEF Register, StartRun, FinishSuperseded, FinishCurrent, FinishRun,
                      memory, history, TypeOK
  <2>5. lastStatus'[s] = lastStatus[s]
    BY <1>0, <1>9 DEF Register, StartRun, FinishSuperseded, FinishCurrent, FinishRun, TypeOK
  <2>6. \A q \in LaunchesOf(s) : pc'[q] = pc[q]
    BY <1>3, <1>9, <2>3 DEF Register, StartRun, FinishSuperseded, FinishCurrent, FinishRun, Goto
  <2>7. \A q \in LaunchesOf(s) : token'[q] = token[q]
    BY <1>0, <1>9, <2>3 DEF Register, StartRun, FinishSuperseded, FinishCurrent, FinishRun,
                            memory, TypeOK
  <2>8. \A q \in LaunchesOf(s) : result'[q] = result[q]
    BY <1>0, <1>9, <2>3 DEF Register, StartRun, FinishSuperseded, FinishCurrent, FinishRun, TypeOK
  <2>9. Settled(s) => latest[s] \in LaunchesOf(s)
    BY <1>2, <2>1 DEF OrderlyScene, Settled
  <2>10. s \in unwritten => s \in unwritten'
    BY <1>9 DEF Register, StartRun, FinishSuperseded, FinishCurrent, FinishRun, history
  <2> QED
    BY <1>2, <2>1, <2>2, <2>4, <2>5, <2>6, <2>7, <2>8, <2>9, <2>10, OrderlyFrame
       DEF Live, Counted
<1>10. ASSUME NEW r \in Launches, Target[r] = s,
              \/ Register(r) \/ StartRun(r) \/ FinishSuperseded(r)
              \/ FinishCurrent(r) \/ FinishRun(r)
       PROVE  OrderlyScene(s)'
  <2>1. OrderlyScene(s)
    BY <1>2, <1>10 DEF Register, StartRun, FinishSuperseded, FinishCurrent, FinishRun, history
  <2> QED
    BY <1>0, <1>10, <2>1, OrderlyRegister, OrderlyStartRun, OrderlyFinishSuperseded,
       OrderlyFinishCurrent, OrderlyFinishRun
<1>11. CASE UNCHANGED vars
  <2>1. UNCHANGED <<runs, latest, lastStatus, exists, cancelled, token, pc, result, raced,
                    unwritten>>
    BY <1>11 DEF vars
  <2>2. swept' = swept
    BY <1>11 DEF vars
  <2> QED
    BY <1>2, <2>1, <2>2, OrderlyFrame DEF Live, Counted
<1> QED
  BY <1>1, <1>4, <1>5, <1>6, <1>7, <1>8, <1>9, <1>10, <1>11 DEF Next, Service, Goroutine

(* The strengthened invariant is inductive. *)
LEMMA Inductive == Spec => []IInv
<1>1. IInv /\ [Next]_vars => IInv'
  BY TypeStep, MutexStep, EntryStep, CancelStep, OrderlyStep DEF IInv
<1> QED
  BY InitIInv, <1>1, PTL DEF Spec

(* Outside the windows the mutex leaves open, the last order given wins:   *)
(* the only execution of a scene that goes on is the one launched last.    *)
THEOREM LastOrderWinsOutsideWindows == Spec => []LastOrderWinsUnlessRaced
<1>1. IInv => LastOrderWinsUnlessRaced
  BY DEF IInv, OrderlyScene, LastOrderWinsUnlessRaced, LastOrderWinsFor
<1> QED
  BY <1>1, Inductive, PTL

(* Outside those windows and unless its issue could not be written, once   *)
(* the table is swept no scene stays "running" without an execution that   *)
(* will write its issue, crashes included.                                 *)
THEOREM RunningIsBackedOutsideWindows == Spec => []RunningIsBackedUnlessRaced
<1>1. IInv => RunningIsBackedUnlessRaced
  <2> SUFFICES ASSUME IInv, swept, NEW s \in exists \ (raced \cup unwritten)
               PROVE  BackedFor(s)
    BY DEF RunningIsBackedUnlessRaced
  <2> QED
    BY DEF IInv, OrderlyScene, TypeOK
<1> QED
  BY <1>1, Inductive, PTL

(* Outside those windows and unless it could not be written, the issue the *)
(* table shows once every execution of a scene has ended is that of its    *)
(* last launch.                                                            *)
THEOREM IssueOfLatestOutsideWindows == Spec => []IssueOfLatestUnlessRaced
<1>1. IInv => IssueOfLatestUnlessRaced
  BY DEF IInv, OrderlyScene, IssueOfLatestUnlessRaced, TypeOK
<1> QED
  BY <1>1, Inductive, PTL
-----------------------------------------------------------------------------
(* The stop.  Once the context is done the only launch that may still be   *)
(* registered is the one inside the critical section at that moment; the   *)
(* scheduler's are over once Run returns, since it is Run that makes them. *)
Drained ==
  /\ ctxDone => \A r \in Launches : pc[r] = "checked" => r = inside
  /\ phase = "returned" =>
       /\ ctxDone
       /\ \A r \in Scheduled : ~InTrigger(r)
       /\ \A r \in Launches : Counted(r) => r = inside /\ r \notin Scheduled

LEMMA DrainedStep ==
  ASSUME TypeOK, MutexInv, Drained, [Next]_vars
  PROVE  Drained'
<1> USE SceneEngineAssumption DEF Drained, InTrigger, Counted, Live, memory, history
<1>0. pc \in [Launches -> Step]
  BY DEF TypeOK
<1>1. CASE Start \/ SetRoot \/ Sweep
  BY <1>1 DEF Start, SetRoot, Sweep
<1>2. CASE Stop
  <2>1. inside' = mu /\ pc' = pc /\ ~ctxDone /\ phase' = phase
    BY <1>2 DEF Stop
  <2>2. \A r \in Launches : pc'[r] = "checked" => r = inside'
    BY <2>1 DEF MutexInv
  <2> QED
    BY <2>1, <2>2
<1>3. CASE Return
  <2>1. \A r \in Launches : ~Counted(r)
    BY <1>3 DEF Return, Waited
  <2>2. \A r \in Scheduled : ~InTrigger(r)
    BY <1>3 DEF Return
  <2> QED
    BY <1>3, <2>1, <2>2 DEF Return
<1>4. CASE Exit \/ Crash
  BY <1>4 DEF Exit, Crash, ProcessEnds
<1>5. ASSUME NEW s \in Scenes, DeleteScene(s) PROVE Drained'
  BY <1>5 DEF DeleteScene
<1>6. ASSUME NEW r \in Launches, Load(r) PROVE Drained'
  BY <1>0, <1>6 DEF Load, Goto
<1>7. ASSUME NEW r \in Launches, Lock(r) \/ Register(r) \/ StartRun(r) PROVE Drained'
  <2>1. phase' = phase /\ ctxDone' = ctxDone /\ inside' = inside
    BY <1>7 DEF Lock, Register, StartRun
  <2>2. \A q \in Launches \ {r} : pc'[q] = pc[q]
    BY <1>0, <1>7 DEF Lock, Register, StartRun, Goto
  <2>3. ctxDone => pc'[r] # "checked"
    BY <1>0, <1>7 DEF Lock, Register, StartRun, Goto, Accepted
  <2>4. InTrigger(r)
    BY <1>7 DEF Lock, Register, StartRun
  <2>5. ctxDone /\ Counted(r)' => Counted(r) \/ r = inside
    BY <1>0, <1>7, <2>3 DEF Lock, Register, StartRun, Goto, Accepted
  <2> QED
    BY <2>1, <2>2, <2>3, <2>4, <2>5
<1>8. ASSUME NEW r \in Launches,
             Execute(r) \/ FinishSuperseded(r) \/ FinishCurrent(r) \/ FinishRun(r)
      PROVE  Drained'
  <2>1. Counted(r) /\ phase' = phase /\ ctxDone' = ctxDone /\ inside' = inside
    BY <1>8 DEF Execute, FinishSuperseded, FinishCurrent, FinishRun
  <2>2. \A q \in Launches \ {r} : pc'[q] = pc[q]
    BY <1>0, <1>8 DEF Execute, FinishSuperseded, FinishCurrent, FinishRun, Goto
  <2>3. pc'[r] \in {"executed", "released", "done"}
    BY <1>0, <1>8 DEF Execute, FinishSuperseded, FinishCurrent, FinishRun, Goto
  <2> QED
    BY <2>1, <2>2, <2>3
<1>9. CASE UNCHANGED vars
  BY <1>9 DEF vars
<1> QED
  BY <1>1, <1>2, <1>3, <1>4, <1>5, <1>6, <1>7, <1>8, <1>9 DEF Next, Service, Goroutine

(* When Run returns, and the database closes, every execution has ended,   *)
(* save one at most: that of a handler srv.Shutdown no longer waited for,  *)
(* which was inside the critical section when the context was cancelled.   *)
THEOREM StopWaitsForExecutions == Spec => []StopWaits
<1>1. Init => TypeOK /\ MutexInv /\ Drained
  BY InitIInv DEF IInv, Init, Drained
<1>2. TypeOK /\ MutexInv /\ Drained /\ [Next]_vars => TypeOK' /\ MutexInv' /\ Drained'
  BY TypeStep, MutexStep, DrainedStep
<1>3. Drained => StopWaits
  BY DEF Drained, StopWaits
<1> QED
  BY <1>1, <1>2, <1>3, PTL DEF Spec
============================================================================
