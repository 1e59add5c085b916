----------------------------- MODULE TaskManager -----------------------------
(***************************************************************************)
(* task_manager: one thread that, in every cycle, runs the RIB updater in  *)
(* a thread of its own and waits for it, then runs every application in a  *)
(* thread of its own and waits for all, then waits for the cycle timer.    *)
(*                                                                         *)
(* Thread 0 is rib_updater_thread; thread k is running_apps[k-1]. What a   *)
(* task does is not of interest here: it may end at any time.              *)
(***************************************************************************)
EXTENDS Naturals

CONSTANTS NumApps,       \* registered applications
          MaxExpirations \* bound: timer expirations that are not read yet

ASSUME TaskAssumption ==
  /\ NumApps \in 0 .. 100      \* std::thread running_apps[100]
  /\ MaxExpirations \in Nat \ {0}

Slot == 1 .. NumApps
Task == {0} \cup Slot

VARIABLES
  pc,          \* where manage_rt_tasks is
  index,       \* its loop variables i and j: slots spawned, slots joined
  thread,      \* thread[x]: "none" (not joinable), "running", or "done" (not joined)
  timer,       \* the timer file descriptor is valid: sfd > 0
  expirations, \* expirations of the timer since the last read of sfd
  returned     \* history: waits that returned since the last expiration

vars == <<pc, index, thread, timer, expirations, returned>>

\* The timer is armed with an absolute time of 1 ms after the start of the clock,
\* which has passed: it expires at once. timerfd_create may have failed.
Init ==
  /\ pc = "spawnRib" /\ index = 0
  /\ thread = [x \in Task |-> "none"]
  /\ timer \in BOOLEAN
  /\ expirations = IF timer THEN 1 ELSE 0
  /\ returned = 0

\* std::thread(&execute_task, ...)
SpawnRib ==
  /\ pc = "spawnRib"
  /\ thread' = [thread EXCEPT ![0] = "running"]
  /\ pc' = "joinRib"
  /\ UNCHANGED <<index, timer, expirations, returned>>

\* Mutant of JoinRib: the RIB updater is detached, not joined.
JoinRibMutDetaches ==
  /\ pc = "joinRib"
  /\ pc' = "spawnApps" /\ index' = 0
  /\ UNCHANGED <<thread, timer, expirations, returned>>

JoinRib ==
  /\ pc = "joinRib" /\ thread[0] = "done"
  /\ thread' = [thread EXCEPT ![0] = "none"]
  /\ pc' = "spawnApps" /\ index' = 0
  /\ UNCHANGED <<timer, expirations, returned>>

SpawnApp ==
  /\ pc = "spawnApps" /\ index < NumApps
  /\ thread' = [thread EXCEPT ![index + 1] = "running"]
  /\ index' = index + 1
  /\ UNCHANGED <<pc, timer, expirations, returned>>

AllSpawned ==
  /\ pc = "spawnApps" /\ index = NumApps
  /\ pc' = "joinApps" /\ index' = 0
  /\ UNCHANGED <<thread, timer, expirations, returned>>

JoinApp ==
  /\ pc = "joinApps" /\ index < NumApps
  /\ thread[index + 1] = "done"
  /\ thread' = [thread EXCEPT ![index + 1] = "none"]
  /\ index' = index + 1
  /\ UNCHANGED <<pc, timer, expirations, returned>>

\* Mutant of AllJoined: the loop leaves the last application running.
AllJoinedMutOneShort ==
  /\ pc = "joinApps" /\ index + 1 >= NumApps
  /\ pc' = "wait"
  /\ UNCHANGED <<index, thread, timer, expirations, returned>>

AllJoined ==
  /\ pc = "joinApps" /\ index = NumApps
  /\ pc' = "wait"
  /\ UNCHANGED <<index, thread, timer, expirations, returned>>

\* Mutant of WaitForCycle: a read takes one expiration, so a late cycle is
\* followed by a burst.
WaitForCycleMutOneByOne ==
  /\ pc = "wait"
  /\ IF timer
     THEN /\ expirations > 0 /\ expirations' = expirations - 1
          /\ returned' = returned + 1
     ELSE UNCHANGED <<expirations, returned>>
  /\ pc' = "spawnRib"
  /\ UNCHANGED <<index, thread, timer>>

\* Mutant of WaitForCycle: the RIB updater is started once, before the loop.
WaitForCycleMutNoUpdater ==
  /\ pc = "wait"
  /\ IF timer
     THEN /\ expirations > 0 /\ expirations' = 0
          /\ returned' = returned + 1
     ELSE UNCHANGED <<expirations, returned>>
  /\ pc' = "spawnApps" /\ index' = 0
  /\ UNCHANGED <<thread, timer>>

\* wait_for_cycle: the read blocks until the timer has expired and takes all its
\* expirations at once; without a timer there is no wait.
WaitForCycle ==
  /\ pc = "wait"
  /\ IF timer
     THEN /\ expirations > 0 /\ expirations' = 0
          /\ returned' = returned + 1
     ELSE UNCHANGED <<expirations, returned>>
  /\ pc' = "spawnRib"
  /\ UNCHANGED <<index, thread, timer>>

\* The task of thread x returns from execute_task.
Finish(x) ==
  /\ thread[x] = "running"
  /\ thread' = [thread EXCEPT ![x] = "done"]
  /\ UNCHANGED <<pc, index, timer, expirations, returned>>

\* A millisecond is over.
Expire ==
  /\ timer
  /\ expirations' = IF expirations < MaxExpirations THEN expirations + 1 ELSE expirations
  /\ returned' = 0
  /\ UNCHANGED <<pc, index, thread, timer>>

Manage ==
  \/ SpawnRib
  \/ JoinRib
  \/ SpawnApp
  \/ AllSpawned
  \/ JoinApp
  \/ AllJoined
  \/ WaitForCycle

Next ==
  \/ Manage
  \/ \E x \in Task : Finish(x)
  \/ Expire

\* The manager thread is never starved, its tasks end, time passes.
Fairness ==
  /\ WF_vars(Manage)
  /\ \A x \in Task : WF_vars(Finish(x))
  /\ WF_vars(Expire)

Spec == Init /\ [][Next]_vars
FairSpec == Spec /\ Fairness

-------------------------------------------------------------------------------
TypeOK ==
  /\ pc \in {"spawnRib", "joinRib", "spawnApps", "joinApps", "wait"}
  /\ index \in 0 .. NumApps
  /\ thread \in [Task -> {"none", "running", "done"}]
  /\ timer \in BOOLEAN
  /\ expirations \in 0 .. MaxExpirations /\ returned \in Nat

\* The RIB has no lock: the applications read it, and the RIB updater writes it,
\* only because manage_rt_tasks never lets an application run beside the updater.
RibUpdaterRunsAlone ==
  thread[0] = "running" => \A x \in Slot : thread[x] # "running"

\* manage_rt_tasks assigns to a std::thread (or lets one go out of scope) only
\* when it is not joinable; otherwise the program ends in std::terminate.
NoJoinableOverwritten ==
  /\ pc = "spawnRib" => thread[0] = "none"
  /\ pc = "spawnApps" => thread[0] = "none" /\ \A x \in index + 1 .. NumApps : thread[x] = "none"

\* A cycle that overruns is not made up for: however many expirations it missed,
\* wait_for_cycle lets at most one cycle begin until the next.
NoCatchUp == returned <= 1

\* Every task runs again and again.
EveryTaskRecurs == \A x \in Task : []<>(thread[x] = "running")
===============================================================================
