------------------------ MODULE SchedulerControlProofs ------------------------
(***************************************************************************)
(* What SchedulerControl promises for any agents and applications. First   *)
(* it implements TaskManager, so that the theorems about TaskManager hold  *)
(* of it; then an inductive invariant, relative to that of TaskManager,    *)
(* for the race on the RIB and for the change of scheduler.                *)
(***************************************************************************)
EXTENDS SchedulerControl, TLAPS

TMP == INSTANCE TaskManagerProofs

\* A sequence of two map operations of the RIB updater lies within its thread.
Quiet == inserting # NoAgent => thread[0] = "running"

\* Under central scheduling nothing is stale; a run_central_scheduler in progress
\* has sent nothing stale yet to the agents it has still to visit.
Fresh ==
  /\ \A a \in Agent : stale[a] <= 1
  /\ central => \A a \in Agent : stale[a] = 0
  /\ flexPc = "schedule" => \A a \in flexTodo : stale[a] = 0

\* What is left of a change of scheduler, at each place of the REST thread.
Following ==
  /\ restPc = "change" => owed \subseteq available
  /\ restPc = "tell" => \A a \in owed : a \in restTodo \/ told[a] = Mode(central)
  /\ restPc \in {"idle", "policy", "apply"} => \A a \in owed : told[a] = Mode(central)

Inv == TypeOK /\ Quiet /\ Fresh /\ PolicyOnlyWhenLocal /\ Following

-------------------------------------------------------------------------------
(* The refinement.                                                         *)

LEMMA TaskInit == Init => TM!Init
  BY DEF Init

LEMMA TaskStep == [Next]_vars => [TM!Next]_taskVars
<1> SUFFICES ASSUME [Next]_vars PROVE TM!Next \/ UNCHANGED taskVars
  BY DEF taskVars
<1> USE ControlAssumption DEF ControlAssumption
<1>1. ASSUME NEW x \in 0 .. NumApps, TM!Finish(x) PROVE TM!Next
  BY <1>1 DEF TM!Next, TM!Task, TM!Slot
<1>2. CASE Manager
  BY <1>2 DEF Manager, TM!Next
<1>3. CASE RibUpdater
  BY <1>3, <1>1 DEF RibUpdater, InsertBegins, InsertEnds, RibUpdaterEnds
<1>4. ASSUME NEW x \in 1 .. NumApps, OtherAppEnds(x) PROVE TM!Next
  BY <1>4, <1>1 DEF OtherAppEnds
<1>5. CASE FlexRuns
  BY <1>5, <1>1 DEF FlexRuns, FlexBegins, PushCode, LoadFlag, FlexReturns, ScheduleAgent,
                    CentralEnds
<1>6. CASE \E isCentral \in BOOLEAN : ChangeScheduler(isCentral)
  BY <1>6 DEF ChangeScheduler
<1>7. CASE ApplyPolicy
  BY <1>7 DEF ApplyPolicy
<1>8. CASE RestReturns
  BY <1>8 DEF RestReturns, ChangeSnapshot, Tell, ApplySnapshot, Apply, Respond
<1>9. CASE UNCHANGED vars
  BY <1>9 DEF vars, taskVars
<1>10. QED
  BY <1>2, <1>3, <1>4, <1>5, <1>6, <1>7, <1>8, <1>9 DEF Next

\* Whatever the applications and the REST thread do, the threads of a cycle are
\* started and joined as TaskManager says.
THEOREM Implements == Spec => ImplementsTaskManager
  BY TaskInit, TaskStep, PTL DEF Spec, ImplementsTaskManager, TM!Spec, TM!vars, taskVars
\* The invariant of TaskManager, for the composed system.
LEMMA TaskInvariance == Spec => []TMP!Inv
<1>1. TMP!Spec => []TMP!Inv
  BY ControlAssumption, TMP!Invariance DEF ControlAssumption
<1>2. TM!Init => TMP!Init
  BY DEF TM!Init, TMP!Init, TM!Task, TMP!Task, TM!Slot, TMP!Slot
<1>3. [TM!Next]_TM!vars => [TMP!Next]_TMP!vars
  BY DEF TM!Next, TM!Manage, TM!SpawnRib, TM!JoinRib, TM!SpawnApp, TM!AllSpawned, TM!JoinApp,
         TM!AllJoined, TM!WaitForCycle, TM!Finish, TM!Expire, TM!Task, TM!Slot, TM!vars,
         TMP!Next, TMP!Manage, TMP!SpawnRib, TMP!JoinRib, TMP!SpawnApp, TMP!AllSpawned,
         TMP!JoinApp, TMP!AllJoined, TMP!WaitForCycle, TMP!Finish, TMP!Expire, TMP!Task,
         TMP!Slot, TMP!vars
<1>4. TM!Spec => TMP!Spec
  BY <1>2, <1>3, PTL DEF TM!Spec, TMP!Spec
<1>5. QED
  BY <1>1, <1>4, Implements, PTL DEF ImplementsTaskManager

-------------------------------------------------------------------------------
(* The invariant.                                                          *)

LEMMA InitInv == Init => Inv
<1> SUFFICES ASSUME Init PROVE Inv
  OBVIOUS
<1>1. TypeOK
  BY DEF Init, TypeOK
<1>2. Quiet /\ PolicyOnlyWhenLocal /\ Following
  BY DEF Init, Quiet, PolicyOnlyWhenLocal, Following
<1>3. Fresh
  BY DEF Init, Fresh
<1>4. QED
  BY <1>1, <1>2, <1>3 DEF Inv

LEMMA CopiesOfAgents == TypeOK => Copies \subseteq SUBSET Agent
  BY DEF TypeOK, Copies

LEMMA TypeStep == TypeOK /\ [Next]_vars => TypeOK'
<1> SUFFICES ASSUME TypeOK, [Next]_vars PROVE TypeOK'
  OBVIOUS
<1> USE DEF TypeOK, flexVars, restVars, ribVars, history
<1>1. CASE Manager
  BY <1>1 DEF Manager
<1>2. CASE RibUpdater
  BY <1>2 DEF RibUpdater, InsertBegins, InsertEnds, RibUpdaterEnds
<1>3. ASSUME NEW x \in 1 .. NumApps, OtherAppEnds(x) PROVE TypeOK'
  BY <1>3 DEF OtherAppEnds
<1>4. CASE FlexBegins
  BY <1>4, CopiesOfAgents DEF FlexBegins
<1>5. CASE PushCode
  BY <1>5 DEF PushCode
<1>6. CASE LoadFlag
  BY <1>6, CopiesOfAgents DEF LoadFlag, FlexReturns
<1>7. ASSUME NEW a \in Agent, NEW sends \in BOOLEAN, ScheduleAgent(a, sends) PROVE TypeOK'
  BY <1>7 DEF ScheduleAgent
<1>8. CASE CentralEnds
  BY <1>8 DEF CentralEnds, FlexReturns
<1>9. ASSUME NEW isCentral \in BOOLEAN, ChangeScheduler(isCentral) PROVE TypeOK'
  BY <1>9 DEF ChangeScheduler
<1>10. CASE ApplyPolicy
  BY <1>10 DEF ApplyPolicy
<1>11. CASE ChangeSnapshot
  BY <1>11, CopiesOfAgents DEF ChangeSnapshot
<1>12. ASSUME NEW a \in Agent, NEW readable \in BOOLEAN, Tell(a, readable) PROVE TypeOK'
  BY <1>12 DEF Tell, Mode
<1>13. CASE ApplySnapshot
  BY <1>13, CopiesOfAgents DEF ApplySnapshot
<1>14. ASSUME NEW a \in Agent, Apply(a) PROVE TypeOK'
  BY <1>14 DEF Apply
<1>15. CASE Respond
  BY <1>15 DEF Respond
<1>16. CASE UNCHANGED vars
  BY <1>16 DEF vars
<1>17. QED
  BY <1>1, <1>2, <1>3, <1>4, <1>5, <1>6, <1>7, <1>8, <1>9, <1>10, <1>11, <1>12, <1>13, <1>14,
     <1>15, <1>16 DEF Next, FlexRuns, RestReturns

\* An insertion ends before its thread does, and only a thread that is done is joined.
LEMMA QuietStep == TypeOK /\ Quiet /\ TMP!Inv /\ [Next]_vars => Quiet'
<1> SUFFICES ASSUME TypeOK, Quiet, TMP!Inv, [Next]_vars, inserting' # NoAgent
             PROVE  thread'[0] = "running"
  BY DEF Quiet
<1> USE ControlAssumption DEF ControlAssumption, Quiet, ribVars
<1>1. thread \in [0 .. NumApps -> {"none", "running", "done"}]
  BY DEF TMP!Inv, TMP!TypeOK, TMP!Task, TMP!Slot
<1>2. CASE Manager
  <2>1. inserting' = inserting
    BY <1>2 DEF Manager
  <2>2. QED
    BY <1>1, <1>2, <2>1
       DEF Manager, TM!Manage, TM!SpawnRib, TM!JoinRib, TM!SpawnApp, TM!AllSpawned,
           TM!JoinApp, TM!AllJoined, TM!WaitForCycle, TM!Expire
<1>3. CASE RibUpdater
  BY <1>3 DEF RibUpdater, InsertBegins, InsertEnds, RibUpdaterEnds, taskVars
<1>4. ASSUME NEW x \in 1 .. NumApps, TM!Finish(x), UNCHANGED inserting
      PROVE  thread'[0] = "running"
  BY <1>4, <1>1 DEF TM!Finish
<1>5. ASSUME NEW x \in 1 .. NumApps, OtherAppEnds(x) PROVE thread'[0] = "running"
  BY <1>5, <1>4 DEF OtherAppEnds
<1>6. CASE FlexRuns
  BY <1>6, <1>4 DEF FlexRuns, FlexBegins, PushCode, LoadFlag, FlexReturns, ScheduleAgent,
                    CentralEnds, taskVars
<1>7. CASE \E isCentral \in BOOLEAN : ChangeScheduler(isCentral)
  BY <1>7 DEF ChangeScheduler, taskVars
<1>8. CASE ApplyPolicy
  BY <1>8 DEF ApplyPolicy, taskVars
<1>9. CASE RestReturns
  BY <1>9 DEF RestReturns, ChangeSnapshot, Tell, ApplySnapshot, Apply, Respond, taskVars
<1>10. CASE UNCHANGED vars
  BY <1>10 DEF vars, taskVars
<1>11. QED
  BY <1>2, <1>3, <1>5, <1>6, <1>7, <1>8, <1>9, <1>10 DEF Next

\* A run_central_scheduler begins only under central scheduling, when nothing is
\* stale, and visits each agent once.
LEMMA FreshStep == TypeOK /\ Fresh /\ [Next]_vars => Fresh'
<1> SUFFICES ASSUME TypeOK, Fresh, [Next]_vars PROVE Fresh'
  OBVIOUS
<1> USE DEF TypeOK, Fresh
<1>1. ASSUME UNCHANGED <<central, flexPc, flexTodo, stale>> PROVE Fresh'
  BY <1>1
<1>2. ASSUME flexPc' # "schedule", UNCHANGED <<central, stale>> PROVE Fresh'
  BY <1>2
<1>3. CASE Manager
  BY <1>3, <1>1 DEF Manager, flexVars, restVars, history
<1>4. CASE RibUpdater
  BY <1>4, <1>1 DEF RibUpdater, InsertBegins, InsertEnds, RibUpdaterEnds, flexVars, restVars,
                    history
<1>5. ASSUME NEW x \in 1 .. NumApps, OtherAppEnds(x) PROVE Fresh'
  BY <1>5, <1>1 DEF OtherAppEnds, flexVars, restVars, history
<1>6. CASE FlexBegins
  BY <1>6, <1>2 DEF FlexBegins, restVars, history
<1>7. CASE PushCode
  BY <1>7, <1>2 DEF PushCode, restVars, history
<1>8. CASE LoadFlag
  <2>1. UNCHANGED <<central, stale>>
    BY <1>8 DEF LoadFlag, restVars, history
  <2>2. CASE ~central
    BY <1>8, <2>1, <2>2, <1>2 DEF LoadFlag, FlexReturns
  <2>3. CASE central
    <3>1. flexTodo' \subseteq Agent
      BY <1>8, <2>3, CopiesOfAgents DEF LoadFlag
    <3>2. QED
      BY <2>1, <2>3, <3>1
  <2>4. QED
    BY <2>2, <2>3
<1>9. ASSUME NEW a \in Agent, NEW sends \in BOOLEAN, ScheduleAgent(a, sends) PROVE Fresh'
  <2>1. flexPc = "schedule" /\ a \in flexTodo /\ stale[a] = 0
    BY <1>9 DEF ScheduleAgent, IsFirst
  <2>2. /\ stale' = [stale EXCEPT ![a] = IF sends /\ ~central THEN @ + 1 ELSE @]
        /\ flexTodo' = flexTodo \ {a} /\ UNCHANGED <<central, flexPc>>
    BY <1>9 DEF ScheduleAgent, restVars
  <2>3. \A b \in Agent : b # a => stale'[b] = stale[b]
    BY <2>2
  <2>4. stale'[a] <= 1 /\ (central => stale'[a] = 0)
    BY <2>1, <2>2
  <2>5. QED
    BY <2>2, <2>3, <2>4
<1>10. CASE CentralEnds
  BY <1>10, <1>2 DEF CentralEnds, FlexReturns, restVars, history
<1>11. ASSUME NEW isCentral \in BOOLEAN, ChangeScheduler(isCentral) PROVE Fresh'
  <2>1. CASE isCentral
    BY <1>11, <2>1 DEF ChangeScheduler, flexVars
  <2>2. CASE ~isCentral
    BY <1>11, <2>2 DEF ChangeScheduler, flexVars
  <2>3. QED
    BY <2>1, <2>2
<1>12. CASE ApplyPolicy
  BY <1>12, <1>1 DEF ApplyPolicy, flexVars, history
<1>13. CASE RestReturns
  BY <1>13, <1>1 DEF RestReturns, ChangeSnapshot, Tell, ApplySnapshot, Apply, Respond,
                     flexVars, history
<1>14. CASE UNCHANGED vars
  BY <1>14, <1>1 DEF vars, flexVars, restVars, history
<1>15. QED
  BY <1>3, <1>4, <1>5, <1>6, <1>7, <1>8, <1>9, <1>10, <1>11, <1>12, <1>13, <1>14
     DEF Next, FlexRuns

\* The flag and the policies change by the steps of the one REST thread alone.
LEMMA FollowingStep ==
  TypeOK /\ PolicyOnlyWhenLocal /\ Following /\ [Next]_vars =>
    PolicyOnlyWhenLocal' /\ Following'
<1> DEFINE Goal == PolicyOnlyWhenLocal' /\ Following'
<1> SUFFICES ASSUME TypeOK, PolicyOnlyWhenLocal, Following, [Next]_vars PROVE Goal
  OBVIOUS
<1> USE DEF PolicyOnlyWhenLocal, Following
<1>1. ASSUME UNCHANGED <<central, restPc, restTodo, told, owed>>, available \subseteq available'
      PROVE  Goal
  BY <1>1 DEF Mode
<1>2. CASE Manager
  BY <1>2, <1>1 DEF Manager, ribVars, restVars, history
<1>3. CASE RibUpdater
  BY <1>3, <1>1 DEF RibUpdater, InsertBegins, InsertEnds, RibUpdaterEnds, ribVars, restVars,
                    history
<1>4. ASSUME NEW x \in 1 .. NumApps, OtherAppEnds(x) PROVE Goal
  BY <1>4, <1>1 DEF OtherAppEnds, ribVars, restVars, history
<1>5. CASE FlexRuns
  BY <1>5, <1>1 DEF FlexRuns, FlexBegins, PushCode, LoadFlag, ScheduleAgent, CentralEnds,
                    ribVars, restVars, history
<1>6. ASSUME NEW isCentral \in BOOLEAN, ChangeScheduler(isCentral) PROVE Goal
  BY <1>6 DEF ChangeScheduler, ribVars
<1>7. CASE ApplyPolicy
  BY <1>7 DEF ApplyPolicy, history
<1>8. CASE ChangeSnapshot
  <2>1. owed' \subseteq restTodo'
    BY <1>8 DEF ChangeSnapshot, Copies
  <2>2. QED
    BY <1>8, <2>1 DEF ChangeSnapshot
<1>9. ASSUME NEW a \in Agent, NEW readable \in BOOLEAN, Tell(a, readable) PROVE Goal
  <2>1. restPc = "tell" /\ UNCHANGED <<restPc, central>> /\ restTodo' = restTodo \ {a}
    BY <1>9 DEF Tell
  <2>2. CASE readable
    BY <1>9, <2>1, <2>2 DEF Tell, TypeOK, Mode
  <2>3. CASE ~readable
    BY <1>9, <2>1, <2>3 DEF Tell, Mode
  <2>4. QED
    BY <2>2, <2>3
<1>10. CASE ApplySnapshot
  BY <1>10 DEF ApplySnapshot, history
<1>11. ASSUME NEW a \in Agent, Apply(a) PROVE Goal
  BY <1>11 DEF Apply, history
<1>12. CASE Respond
  BY <1>12 DEF Respond, history
<1>13. CASE UNCHANGED vars
  BY <1>13, <1>1 DEF vars, ribVars, restVars, history
<1>14. QED
  BY <1>2, <1>3, <1>4, <1>5, <1>6, <1>7, <1>8, <1>9, <1>10, <1>11, <1>12, <1>13
     DEF Next, RestReturns

\* The inductive invariant, relative to that of TaskManager.
THEOREM Invariance == Spec => []Inv
<1>1. TMP!Inv /\ Inv /\ [Next]_vars => Inv'
  BY TypeStep, QuietStep, FreshStep, FollowingStep DEF Inv
<1>2. QED
  BY InitInv, <1>1, TaskInvariance, PTL DEF Spec

-------------------------------------------------------------------------------
\* Type correctness.
THEOREM TypeCorrect == Spec => []TypeOK
  BY Invariance, PTL DEF Inv

\* No application runs while the map of the RIB is being changed: the join of the
\* RIB updater is all the locking the RIB needs from its applications.
THEOREM AppsNeverRaceUpdater == Spec => []AppsReadQuietRib
<1>1. TMP!Inv /\ Inv => AppsReadQuietRib
  BY DEF TMP!Inv, TMP!Joinable, TMP!Slot, Inv, Quiet, AppsReadQuietRib
<1>2. QED
  BY Invariance, TaskInvariance, <1>1, PTL

\* However the calls of the northbound API fall, an agent gets at most one
\* dl_mac_config after its scheduling became local.
THEOREM StaleConfigsBounded == Spec => []AtMostOneStaleConfig
<1>1. Inv => AtMostOneStaleConfig
  BY DEF Inv, Fresh, AtMostOneStaleConfig
<1>2. QED
  BY Invariance, <1>1, PTL

\* When a change of scheduler has returned, every agent it had to reach was last
\* told what the flag says.
THEOREM AgentsFollow == Spec => []AgentsFollowFlag
<1>1. Inv => AgentsFollowFlag
  BY DEF Inv, Following, AgentsFollowFlag
<1>2. QED
  BY Invariance, <1>1, PTL

\* No agent-side policy is pushed while the flag says central.
THEOREM PoliciesWhenLocal == Spec => []PolicyOnlyWhenLocal
  BY Invariance, PTL DEF Inv
===============================================================================
