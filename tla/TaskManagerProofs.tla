-------------------------- MODULE TaskManagerProofs --------------------------
(***************************************************************************)
(* What TaskManager promises for any number of applications. The invariant *)
(* says, for each place manage_rt_tasks can be at, which threads may be    *)
(* joinable; and that an expiration that is not read yet came after the    *)
(* last wait that returned.                                                *)
(***************************************************************************)
EXTENDS TaskManager, TLAPS

\* Which threads are joinable where.
Joinable ==
  /\ pc = "joinRib" => thread[0] # "none"
  /\ pc # "joinRib" => thread[0] = "none"
  /\ pc = "spawnApps" => \A x \in Slot : index < x => thread[x] = "none"
  /\ pc = "joinApps" => \A x \in Slot : x <= index => thread[x] = "none"
  /\ pc \notin {"spawnApps", "joinApps"} => \A x \in Slot : thread[x] = "none"

\* A pending expiration is younger than the last wait that returned.
Pending ==
  /\ returned <= 1
  /\ expirations > 0 => returned = 0

Inv == TypeOK /\ Joinable /\ Pending

-------------------------------------------------------------------------------
LEMMA InitInv == Init => Inv
  BY TaskAssumption, SMT DEF TaskAssumption, Init, Inv, TypeOK, Joinable, Pending, Task, Slot

LEMMA TypeStep == TypeOK /\ [Next]_vars => TypeOK'
<1> SUFFICES ASSUME TypeOK, [Next]_vars PROVE TypeOK'
  OBVIOUS
<1> USE TaskAssumption DEF TaskAssumption, TypeOK, Task, Slot
<1>1. CASE SpawnRib
  BY <1>1 DEF SpawnRib
<1>2. CASE JoinRib
  BY <1>2 DEF JoinRib
<1>3. CASE SpawnApp
  BY <1>3 DEF SpawnApp
<1>4. CASE AllSpawned
  BY <1>4 DEF AllSpawned
<1>5. CASE JoinApp
  BY <1>5 DEF JoinApp
<1>6. CASE AllJoined
  BY <1>6 DEF AllJoined
<1>7. CASE WaitForCycle
  BY <1>7 DEF WaitForCycle
<1>8. ASSUME NEW x \in Task, Finish(x) PROVE TypeOK'
  BY <1>8 DEF Finish
<1>9. CASE Expire
  BY <1>9 DEF Expire
<1>10. CASE UNCHANGED vars
  BY <1>10 DEF vars
<1>11. QED
  BY <1>1, <1>2, <1>3, <1>4, <1>5, <1>6, <1>7, <1>8, <1>9, <1>10 DEF Next, Manage

LEMMA JoinableStep == TypeOK /\ Joinable /\ [Next]_vars => Joinable'
<1> SUFFICES ASSUME TypeOK, Joinable, [Next]_vars PROVE Joinable'
  OBVIOUS
<1> USE TaskAssumption DEF TaskAssumption, TypeOK, Joinable, Task, Slot
<1>1. CASE SpawnRib
  BY <1>1 DEF SpawnRib
<1>2. CASE JoinRib
  BY <1>2 DEF JoinRib
<1>3. CASE SpawnApp
  BY <1>3 DEF SpawnApp
<1>4. CASE AllSpawned
  BY <1>4 DEF AllSpawned
<1>5. CASE JoinApp
  BY <1>5 DEF JoinApp
<1>6. CASE AllJoined
  BY <1>6 DEF AllJoined
<1>7. CASE WaitForCycle
  BY <1>7 DEF WaitForCycle
<1>8. ASSUME NEW x \in Task, Finish(x) PROVE Joinable'
  BY <1>8 DEF Finish
<1>9. CASE Expire
  BY <1>9 DEF Expire
<1>10. CASE UNCHANGED vars
  BY <1>10 DEF vars
<1>11. QED
  BY <1>1, <1>2, <1>3, <1>4, <1>5, <1>6, <1>7, <1>8, <1>9, <1>10 DEF Next, Manage

LEMMA PendingStep == TypeOK /\ Pending /\ [Next]_vars => Pending'
<1> SUFFICES ASSUME TypeOK, Pending, [Next]_vars PROVE Pending'
  OBVIOUS
<1> USE TaskAssumption DEF TaskAssumption, TypeOK, Pending
<1>1. CASE WaitForCycle
  BY <1>1 DEF WaitForCycle
<1>2. CASE Expire
  BY <1>2 DEF Expire
<1>3. CASE UNCHANGED <<expirations, returned>>
  BY <1>3
<1>4. QED
  BY <1>1, <1>2, <1>3
     DEF Next, Manage, SpawnRib, JoinRib, SpawnApp, AllSpawned, JoinApp, AllJoined,
         Finish, vars

\* The inductive invariant.
THEOREM Invariance == Spec => []Inv
<1>1. Inv /\ [Next]_vars => Inv'
  BY TypeStep, JoinableStep, PendingStep DEF Inv
<1>2. QED
  BY InitInv, <1>1, PTL DEF Spec

-------------------------------------------------------------------------------
\* The loops of manage_rt_tasks never index past the registered applications.
THEOREM TypeCorrect == Spec => []TypeOK
  BY Invariance, PTL DEF Inv

\* No application ever runs while the RIB updater does, whatever the number of
\* applications and however long the tasks take.
THEOREM UpdaterRunsAlone == Spec => []RibUpdaterRunsAlone
<1>1. Inv => RibUpdaterRunsAlone
  BY DEF Inv, Joinable, RibUpdaterRunsAlone
<1>2. QED
  BY Invariance, <1>1, PTL

\* manage_rt_tasks never overwrites a joinable std::thread.
THEOREM NeverTerminates == Spec => []NoJoinableOverwritten
<1>1. Inv => NoJoinableOverwritten
  BY TaskAssumption
     DEF TaskAssumption, Inv, TypeOK, Joinable, NoJoinableOverwritten, Slot
<1>2. QED
  BY Invariance, <1>1, PTL

\* Cycles that were missed are not made up for.
THEOREM MissedCyclesAreSkipped == Spec => []NoCatchUp
<1>1. Inv => NoCatchUp
  BY DEF Inv, Pending, NoCatchUp
<1>2. QED
  BY Invariance, <1>1, PTL
===============================================================================
