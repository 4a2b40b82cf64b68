------------------------------- MODULE IoProofs -------------------------------
(***************************************************************************)
(* Proofs about the two modules of io, which share no state.               *)
(*                                                                         *)
(* OutputQueue, for any number of tasks, of notifiers, and any capacities: *)
(* the counter is read by the client between steps of the workers, so      *)
(* every result about the capacity and the destructor rests on Accounting, *)
(* which the phase of the client's call makes inductive.                   *)
(*                                                                         *)
(* Archive, for any lists of grids and any number of File objects: the     *)
(* invariant says that the file has what was written for its list          *)
(* (DiskInv), and that an open File shows it (FileInv).  Everything about  *)
(* reading then follows from what the descriptors of one file are (FileOf):*)
(* the parent of an instance is where its tree was last written, and two   *)
(* grids have the same parent exactly if they had one tree (RootFacts).    *)
(***************************************************************************)
EXTENDS OutputQueue, Archive, FiniteSetTheorems, FunctionTheorems, SequenceTheorems,
        WellFoundedInduction, TLAPS

USE QueueAssumption

(* The set of live tasks is finite, whatever the phases are.                *)
LEMMA LiveFinite == IsFiniteSet(LiveTasks) /\ Cardinality(LiveTasks) \in Nat
<1>1. IsFiniteSet(Tasks) BY FS_Interval DEF Tasks
<1>2. LiveTasks \subseteq Tasks BY DEF LiveTasks
<1>. QED BY <1>1, <1>2, FS_Subset, FS_CardinalityType

(* The variables keep their types.                                          *)
THEOREM TypeCorrect == Spec => []TypeOK
<1>. USE DEF TypeOK, Tasks, NotifierIds, Phases, Live, Status, Completed, Free
<1>1. Init => TypeOK BY DEF Init
<1>2. TypeOK /\ [Next]_vars => TypeOK'
  <2>. SUFFICES ASSUME TypeOK, [Next]_vars PROVE TypeOK' OBVIOUS
  <2>. USE DEF clientVars, notifierVars
  <2>1. CASE WriteGrid BY <2>1 DEF WriteGrid
  <2>2. CASE Sleep BY <2>2 DEF Sleep
  <2>3. CASE Wake BY <2>3 DEF Wake
  <2>4. CASE TimeOut BY <2>4 DEF TimeOut, current
  <2>5. CASE SetPending
    <3>1. mStatus' \in [Tasks -> Status] BY <2>5 DEF SetPending
    <3>. QED BY <2>5, <3>1 DEF SetPending
  <2>6. CASE ArenaEnqueue BY <2>6 DEF ArenaEnqueue, current
  <2>7. CASE CountTask BY <2>7 DEF CountTask
  <2>8. ASSUME NEW n \in Capacities, SetCapacity(n) PROVE TypeOK' BY <2>8 DEF SetCapacity
  <2>9. CASE BeginDestroy BY <2>9 DEF BeginDestroy
  <2>10. CASE Destroy BY <2>10 DEF Destroy
  <2>11. ASSUME NEW t \in Tasks, NEW s \in Completed, RecordStatus(t, s) PROVE TypeOK'
    BY <2>11 DEF RecordStatus
  <2>12. ASSUME NEW t \in Tasks, LockNotifiers(t) PROVE TypeOK' BY <2>12 DEF LockNotifiers
  <2>13. ASSUME NEW t \in Tasks, CallNotifier(t) PROVE TypeOK' BY <2>13 DEF CallNotifier
  <2>14. ASSUME NEW t \in Tasks, UnlockNotifiers(t) PROVE TypeOK' BY <2>14 DEF UnlockNotifiers
  <2>15. ASSUME NEW t \in Tasks, EraseStatus(t) PROVE TypeOK' BY <2>15 DEF EraseStatus
  <2>16. ASSUME NEW t \in Tasks, Finish(t) PROVE TypeOK' BY <2>16 DEF Finish
  <2>17. ASSUME NEW t \in Tasks, QueryStatus(t) PROVE TypeOK' BY <2>17 DEF QueryStatus
  <2>18. CASE AddNotifier BY <2>18 DEF AddNotifier
  <2>19. ASSUME NEW n \in mNotifiers, RemoveNotifier(n) PROVE TypeOK' BY <2>19 DEF RemoveNotifier
  <2>20. CASE ClearNotifiers BY <2>20 DEF ClearNotifiers
  <2>21. CASE UNCHANGED vars BY <2>21 DEF vars
  <2>. QED
    BY <2>1, <2>2, <2>3, <2>4, <2>5, <2>6, <2>7, <2>8, <2>9, <2>10, <2>11, <2>12, <2>13,
       <2>14, <2>15, <2>16, <2>17, <2>18, <2>19, <2>20, <2>21
    DEF Next, Client, Enqueue, Monitor, Worker, Gone
<1>. QED BY <1>1, <1>2, PTL DEF Spec

-----------------------------------------------------------------------------
(* The counter, the capacity and the destructor.                            *)

CountInv == TypeOK /\ Accounting /\ CallInProgress /\ QueueOutlivesWorkers

(* A step that moves no task into or out of the live phases, and does not   *)
(* touch the counter or the client, leaves Accounting as it is.             *)
LEMMA SameLive ==
    ASSUME TypeOK, Accounting, mNumTasks' = mNumTasks,
           (client = "enqueued") <=> (client' = "enqueued"),
           LiveTasks' = LiveTasks
    PROVE  Accounting'
BY DEF Accounting

(* A task that changes phase within the live ones, or outside them.         *)
LEMMA SamePhase ==
    ASSUME NEW t \in Tasks, NEW p, task \in [Tasks -> Phases],
           task' = [task EXCEPT ![t] = p], (task[t] \in Live) <=> (p \in Live)
    PROVE  LiveTasks' = LiveTasks
<1>1. \A u \in Tasks : (task'[u] \in Live) <=> (task[u] \in Live) OBVIOUS
<1>. QED BY <1>1 DEF LiveTasks

LEMMA CountStep == CountInv /\ TypeOK' /\ [Next]_vars => CountInv'
<1>. SUFFICES ASSUME CountInv, TypeOK', [Next]_vars
              PROVE  Accounting' /\ CallInProgress' /\ QueueOutlivesWorkers'
  BY DEF CountInv
<1>. USE DEF CountInv, CallInProgress, QueueOutlivesWorkers, current, clientVars
<1>1. CASE WriteGrid
  <2>0. mNextId \in Tasks /\ task[mNextId] = "new" /\ task \in [Tasks -> Phases]
    BY <1>1 DEF WriteGrid, TypeOK, Tasks
  <2>1. LiveTasks' = LiveTasks BY <1>1, <2>0, SamePhase DEF WriteGrid, Live
  <2>2. Accounting' BY <1>1, <2>1, SameLive DEF WriteGrid
  <2>3. \A t \in Tasks : t >= mNextId' => task'[t] = "new"
    BY <1>1 DEF WriteGrid, TypeOK, Tasks
  <2>4. mNextId' > 1 /\ mNextId' - 1 = mNextId /\ task'[mNextId] = "waiting"
    BY <1>1 DEF WriteGrid, TypeOK, Tasks
  <2>. QED BY <1>1, <2>2, <2>3, <2>4 DEF WriteGrid
<1>2. CASE Sleep
  <2>1. LiveTasks' = LiveTasks BY <1>2 DEF Sleep, LiveTasks
  <2>. QED BY <1>2, <2>1, SameLive DEF Sleep
<1>3. CASE Wake
  <2>1. LiveTasks' = LiveTasks BY <1>3 DEF Wake, LiveTasks
  <2>. QED BY <1>3, <2>1, SameLive DEF Wake
<1>4. CASE TimeOut
  <2>0. current \in Tasks /\ task[current] = "waiting" /\ task \in [Tasks -> Phases]
    BY <1>4 DEF TimeOut, TypeOK, Tasks
  <2>1. LiveTasks' = LiveTasks BY <1>4, <2>0, SamePhase DEF TimeOut, Live
  <2>. QED BY <1>4, <2>1, SameLive DEF TimeOut, TypeOK, Tasks
<1>5. CASE SetPending
  <2>1. LiveTasks' = LiveTasks BY <1>5 DEF SetPending, LiveTasks
  <2>. QED BY <1>5, <2>1, SameLive DEF SetPending
<1>6. CASE ArenaEnqueue
  <2>1. current \in Tasks /\ task[current] \notin Live
    BY <1>6 DEF ArenaEnqueue, TypeOK, Tasks, Live
  <2>2. LiveTasks' = LiveTasks \cup {current} /\ current \notin LiveTasks
    BY <1>6, <2>1 DEF ArenaEnqueue, LiveTasks, TypeOK, Live
  <2>3. Cardinality(LiveTasks') = Cardinality(LiveTasks) + 1
    BY <2>2, LiveFinite, FS_AddElement
  <2>4. Accounting'
    BY <1>6, <2>3, LiveFinite DEF ArenaEnqueue, Accounting
  <2>5. CallInProgress' /\ QueueOutlivesWorkers'
    BY <1>6, <2>1 DEF ArenaEnqueue, TypeOK, Tasks
  <2>. QED BY <2>4, <2>5
<1>7. CASE CountTask
  <2>1. LiveTasks' = LiveTasks BY <1>7 DEF CountTask, LiveTasks
  <2>. QED BY <1>7, <2>1, LiveFinite DEF CountTask, Accounting
<1>8. ASSUME NEW n \in Capacities, SetCapacity(n)
      PROVE  Accounting' /\ CallInProgress' /\ QueueOutlivesWorkers'
  <2>1. LiveTasks' = LiveTasks BY <1>8 DEF SetCapacity, LiveTasks
  <2>. QED BY <1>8, <2>1, SameLive DEF SetCapacity
<1>9. CASE BeginDestroy
  <2>1. LiveTasks' = LiveTasks BY <1>9 DEF BeginDestroy, LiveTasks
  <2>. QED BY <1>9, <2>1, SameLive DEF BeginDestroy
<1>10. CASE Destroy
  <2>1. LiveTasks' = LiveTasks BY <1>10 DEF Destroy, LiveTasks
  <2>2. Cardinality(LiveTasks) = 0 BY <1>10, LiveFinite DEF Destroy, Accounting
  <2>3. LiveTasks = {} BY <2>2, LiveFinite, FS_EmptySet
  <2>. QED BY <1>10, <2>1, <2>3, SameLive DEF Destroy
<1>11. ASSUME NEW t \in Tasks, Finish(t)
       PROVE  Accounting' /\ CallInProgress' /\ QueueOutlivesWorkers'
  <2>1. t \in LiveTasks /\ LiveTasks' = LiveTasks \ {t}
    BY <1>11 DEF Finish, LiveTasks, TypeOK, Live
  <2>2. Cardinality(LiveTasks') = Cardinality(LiveTasks) - 1
    BY <2>1, LiveFinite, FS_RemoveElement
  <2>3. Accounting' BY <1>11, <2>2, LiveFinite DEF Finish, Accounting
  <2>. QED BY <1>11, <2>1, <2>3 DEF Finish, TypeOK, Tasks
<1>12. ASSUME NEW t \in Tasks, Worker(t), ~Finish(t)
       PROVE  Accounting' /\ CallInProgress' /\ QueueOutlivesWorkers'
  <2>1. /\ UNCHANGED <<mNumTasks, client, mNextId>>
        /\ \E p \in Live : task' = [task EXCEPT ![t] = p]
        /\ task[t] \in Live
    BY <1>12 DEF Worker, RecordStatus, LockNotifiers, CallNotifier, UnlockNotifiers,
                 EraseStatus, Live, TypeOK
  <2>2. LiveTasks' = LiveTasks BY <2>1, SamePhase DEF TypeOK
  <2>3. Accounting' BY <2>1, <2>2, SameLive
  <2>4. \A u \in Tasks : task'[u] = task[u] \/ (task[u] \in Live /\ u = t)
    BY <2>1 DEF TypeOK
  <2>5. CallInProgress'
    <3>1. \A u \in Tasks : u >= mNextId' => task'[u] = "new" BY <2>1, <2>4 DEF Live
    <3>2. client' \in {"polling", "asleep", "registered"} => task'[current'] = "waiting"
      <4>. SUFFICES ASSUME client \in {"polling", "asleep", "registered"}
                    PROVE  task'[current] = "waiting"
        BY <2>1
      <4>1. current \in Tasks /\ task[current] = "waiting" BY DEF TypeOK, Tasks
      <4>. QED BY <2>4, <4>1 DEF Live
    <3>. QED BY <2>1, <3>1, <3>2
  <2>. QED BY <2>1, <2>2, <2>3, <2>5
<1>13. CASE Monitor
  <2>1. UNCHANGED <<mNumTasks, client, mNextId, task>>
    BY <1>13 DEF Monitor, QueryStatus, AddNotifier, RemoveNotifier, ClearNotifiers
  <2>2. LiveTasks' = LiveTasks BY <2>1 DEF LiveTasks
  <2>. QED BY <2>1, <2>2, SameLive
<1>14. CASE UNCHANGED vars
  <2>1. LiveTasks' = LiveTasks BY <1>14 DEF vars, LiveTasks
  <2>. QED BY <1>14, <2>1, SameLive DEF vars
<1>. QED
  BY <1>1, <1>2, <1>3, <1>4, <1>5, <1>6, <1>7, <1>8, <1>9, <1>10, <1>11, <1>12, <1>13, <1>14
  DEF Next, Client, Enqueue, Gone

LEMMA CountInvariant == Spec => []CountInv
<1>1. Init => Accounting /\ CallInProgress /\ QueueOutlivesWorkers
  <2>. SUFFICES ASSUME Init PROVE Accounting /\ CallInProgress /\ QueueOutlivesWorkers
    OBVIOUS
  <2>1. LiveTasks = {} BY DEF Init, LiveTasks, Live
  <2>2. Cardinality(LiveTasks) = 0 BY <2>1, FS_EmptySet
  <2>. QED BY <2>1, <2>2 DEF Init, Accounting, CallInProgress, QueueOutlivesWorkers
<1>2. TypeOK /\ Init => CountInv BY <1>1 DEF CountInv
<1>. QED BY <1>2, CountStep, TypeCorrect, PTL DEF Spec

(* The counter is right up to the task being handed over, for any capacity. *)
THEOREM CounterCorrect == Spec => []Accounting
<1>1. CountInv => Accounting BY DEF CountInv
<1>. QED BY <1>1, CountInvariant, PTL

(* When the destructor has returned no worker will touch the queue.         *)
THEOREM DestructorSafe == Spec => []QueueOutlivesWorkers
<1>1. CountInv => QueueOutlivesWorkers BY DEF CountInv
<1>. QED BY <1>1, CountInvariant, PTL

(* Between the test of canEnqueue() and the hand-over to the arena only      *)
(* workers move the counter, and they only lower it.                         *)
RoomInv == client = "registered" => mNumTasks < mCapacity

LEMMA RoomInvariant == Spec => []RoomInv
<1>1. Init => RoomInv BY DEF Init, RoomInv
<1>2. CountInv /\ RoomInv /\ [Next]_vars => RoomInv'
  <2>. SUFFICES ASSUME CountInv, RoomInv, [Next]_vars PROVE RoomInv' OBVIOUS
  <2>. USE DEF RoomInv, clientVars, CountInv, TypeOK
  <2>1. CASE Client
    BY <2>1 DEF Client, Enqueue, WriteGrid, Sleep, Wake, TimeOut, SetPending, canEnqueue,
                ArenaEnqueue, CountTask, SetCapacity, BeginDestroy, Destroy
  <2>2. ASSUME NEW t \in Tasks, Worker(t) PROVE RoomInv'
    BY <2>2 DEF Worker, RecordStatus, LockNotifiers, CallNotifier, UnlockNotifiers,
                EraseStatus, Finish
  <2>3. CASE Monitor
    BY <2>3 DEF Monitor, QueryStatus, AddNotifier, RemoveNotifier, ClearNotifiers
  <2>4. CASE UNCHANGED vars BY <2>4 DEF vars
  <2>. QED BY <2>1, <2>2, <2>3, <2>4 DEF Next, Gone
<1>. QED BY <1>1, <1>2, CountInvariant, PTL DEF Spec

(* Handing a task to the arena never exceeds the capacity of that moment.    *)
THEOREM CapacityKept == Spec => CapacityRespected
<1>1. CountInv /\ RoomInv /\ [Next]_vars
        => LiveTasks' \subseteq LiveTasks \/ Cardinality(LiveTasks') <= mCapacity
  <2>. SUFFICES ASSUME CountInv, RoomInv, [Next]_vars, ~(LiveTasks' \subseteq LiveTasks)
                PROVE  Cardinality(LiveTasks') <= mCapacity
    OBVIOUS
  <2>. USE DEF CountInv
  <2>1. PICK t \in Tasks : task[t] \notin Live /\ task'[t] \in Live
    BY DEF LiveTasks
  <2>2. CASE ArenaEnqueue
    <3>1. current \in Tasks /\ current \notin LiveTasks /\ LiveTasks' = LiveTasks \cup {current}
      BY <2>2 DEF ArenaEnqueue, CallInProgress, LiveTasks, TypeOK, Live, Tasks, current
    <3>2. Cardinality(LiveTasks') = Cardinality(LiveTasks) + 1
      BY <3>1, LiveFinite, FS_AddElement
    <3>3. mNumTasks = Cardinality(LiveTasks) /\ mNumTasks < mCapacity
      BY <2>2, LiveFinite DEF ArenaEnqueue, Accounting, RoomInv
    <3>. QED BY <3>2, <3>3, LiveFinite DEF TypeOK
  <2>3. ASSUME NEW u \in Tasks, Worker(u) PROVE FALSE
    <3>1. task[u] \in Live /\ \E p \in Phases : task' = [task EXCEPT ![u] = p]
               \/ task' = task
      BY <2>3 DEF Worker, RecordStatus, LockNotifiers, CallNotifier, UnlockNotifiers,
                  EraseStatus, Finish, Live, Phases
    <3>. QED BY <2>1, <3>1 DEF TypeOK
  <2>4. CASE Monitor
    BY <2>1, <2>4 DEF Monitor, QueryStatus, AddNotifier, RemoveNotifier, ClearNotifiers
  <2>5. CASE WriteGrid BY <2>1, <2>5 DEF WriteGrid, TypeOK, Live
  <2>6. CASE TimeOut BY <2>1, <2>6 DEF TimeOut, TypeOK, Live
  <2>7. CASE Client /\ ~ArenaEnqueue /\ ~WriteGrid /\ ~TimeOut
    BY <2>1, <2>7 DEF Client, Enqueue, Sleep, Wake, SetPending, CountTask, SetCapacity,
                      BeginDestroy, Destroy
  <2>8. CASE UNCHANGED vars BY <2>1, <2>8 DEF vars
  <2>. QED BY <2>2, <2>3, <2>4, <2>5, <2>6, <2>7, <2>8 DEF Next, Gone
<1>. QED BY <1>1, CountInvariant, RoomInvariant, PTL DEF Spec, CapacityRespected

-----------------------------------------------------------------------------
(* The notifiers and the outcomes.                                          *)

NotifyInv == MutexHeld /\ NoCallAfterRemoval /\ CalledInOrder

LEMMA NotifyStep == CountInv /\ NotifyInv /\ [Next]_vars => NotifyInv'
<1>. SUFFICES ASSUME CountInv, NotifyInv, [Next]_vars PROVE NotifyInv' OBVIOUS
<1>. USE DEF NotifyInv, NoCallAfterRemoval, CalledInOrder, MutexHeld, notifierVars, TypeOK, CountInv
<1>1. CASE Client
  <2>1. UNCHANGED <<mNotifierMutex, toCall, called, mNotifiers>>
    BY <1>1 DEF Client, Enqueue, WriteGrid, Sleep, Wake, TimeOut, SetPending, ArenaEnqueue,
                CountTask, SetCapacity, BeginDestroy, Destroy
  <2>2. \A t \in Tasks : task'[t] # task[t] =>
            /\ task'[t] \in Phases \ {"notifying", "notified", "erased", "finished"}
            /\ task[t] \in Phases \ {"notifying", "notified", "erased", "finished"}
    <3>1. CASE WriteGrid
      BY <3>1 DEF WriteGrid, Phases, Live, CallInProgress, Tasks
    <3>2. CASE TimeOut
      BY <3>2 DEF TimeOut, Phases, Live, CallInProgress, current, Tasks
    <3>3. CASE ArenaEnqueue
      BY <3>3 DEF ArenaEnqueue, Phases, Live, CallInProgress, current, Tasks
    <3>4. CASE task' = task BY <3>4
    <3>. QED
      BY <1>1, <3>1, <3>2, <3>3, <3>4
      DEF Client, Enqueue, Sleep, Wake, SetPending, CountTask, SetCapacity, BeginDestroy, Destroy
  <2>. QED BY <2>1, <2>2
<1>2. ASSUME NEW t \in Tasks, NEW s \in Completed, RecordStatus(t, s) PROVE NotifyInv'
  BY <1>2 DEF RecordStatus, Phases, Live
<1>3. ASSUME NEW t \in Tasks, LockNotifiers(t) PROVE NotifyInv'
  <2>1. called[t] = <<>> /\ mNotifierMutex = Free /\ mNotifierMutex' = t /\ t # Free
    BY <1>3 DEF LockNotifiers, Phases, Live, Free, Tasks
  <2>2. \A u \in Tasks : task'[u] = "notifying" <=> u = t
    BY <1>3, <2>1 DEF LockNotifiers, Free, Tasks
  <2>3. \A u \in Tasks : u # t => task'[u] = task[u] BY <1>3 DEF LockNotifiers
  <2>4. MutexHeld' BY <1>3, <2>1, <2>2, <2>3 DEF LockNotifiers
  <2>. QED BY <1>3, <2>4 DEF LockNotifiers
<1>4. ASSUME NEW t \in Tasks, CallNotifier(t) PROVE NotifyInv'
  <2>1. PICK n \in toCall :
          /\ \A m \in toCall : n <= m
          /\ called' = [called EXCEPT ![t] = Append(@, n)]
          /\ toCall' = toCall \ {n}
    BY <1>4 DEF CallNotifier
  <2>2. mNotifierMutex = t /\ UNCHANGED <<task, mNotifierMutex, mNotifiers>>
    BY <1>4 DEF CallNotifier
  <2>3. /\ called'[t] = Append(called[t], n)
        /\ DOMAIN called'[t] = 1 .. Len(called[t]) + 1
        /\ \A i \in 1 .. Len(called[t]) : called'[t][i] = called[t][i]
        /\ called'[t][Len(called[t]) + 1] = n
        /\ DOMAIN called[t] = 1 .. Len(called[t]) /\ Len(called[t]) \in Nat
    BY <2>1
  <2>4. \A u \in Tasks \ {t} : called'[u] = called[u] BY <2>1
  <2>5. \A i \in DOMAIN called[t] : called[t][i] < n /\ called[t][i] \in Int
    <3>1. called[t] \in Seq(NotifierIds) OBVIOUS
    <3>2. \A i \in DOMAIN called[t] : called[t][i] \in NotifierIds BY <3>1
    <3>. QED BY <2>1, <2>2, <3>2 DEF NotifierIds
  <2>6. CalledInOrder'
    <3>1. \A i, j \in DOMAIN called'[t] : i < j => called'[t][i] < called'[t][j]
      <4>. SUFFICES ASSUME NEW i \in DOMAIN called'[t], NEW j \in DOMAIN called'[t], i < j
                    PROVE  called'[t][i] < called'[t][j]
        OBVIOUS
      <4>1. i \in DOMAIN called[t] /\ called'[t][i] = called[t][i] BY <2>3
      <4>2. CASE j = Len(called[t]) + 1 BY <2>3, <2>5, <4>1, <4>2
      <4>3. CASE j # Len(called[t]) + 1
        <5>1. j \in DOMAIN called[t] /\ called'[t][j] = called[t][j] BY <2>3, <4>3
        <5>. QED BY <4>1, <5>1
      <4>. QED BY <4>2, <4>3
    <3>. QED BY <3>1, <2>4
  <2>7. \A i \in DOMAIN called'[t], m \in toCall' : called'[t][i] < m
    <3>1. \A m \in toCall' : n < m BY <2>1 DEF NotifierIds
    <3>. QED BY <3>1, <2>1, <2>2, <2>3, <2>5 DEF NotifierIds
  <2>8. MutexHeld'
    <3>1. task[t] = "notifying" BY <1>4 DEF CallNotifier
    <3>. QED BY <2>1, <2>2, <2>4, <2>7, <3>1 DEF Free, Tasks
  <2>. QED BY <2>1, <2>2, <2>6, <2>8
<1>5. ASSUME NEW t \in Tasks, UnlockNotifiers(t) PROVE NotifyInv'
  BY <1>5 DEF UnlockNotifiers, Phases, Live, Free, Tasks
<1>6. ASSUME NEW t \in Tasks, EraseStatus(t) PROVE NotifyInv'
  BY <1>6 DEF EraseStatus, Phases, Live
<1>7. ASSUME NEW t \in Tasks, Finish(t) PROVE NotifyInv'
  BY <1>7 DEF Finish, Phases, Live
<1>8. CASE Monitor
  BY <1>8 DEF Monitor, QueryStatus, AddNotifier, RemoveNotifier, ClearNotifiers
<1>9. CASE UNCHANGED vars BY <1>9 DEF vars
<1>. QED BY <1>1, <1>2, <1>3, <1>4, <1>5, <1>6, <1>7, <1>8, <1>9 DEF Next, Worker, Gone

LEMMA NotifyInvariant == Spec => []NotifyInv
<1>1. Init => NotifyInv
  BY DEF Init, NotifyInv, MutexHeld, NoCallAfterRemoval, CalledInOrder, Free, Tasks
<1>. QED BY <1>1, NotifyStep, CountInvariant, PTL DEF Spec

(* No callback is called once its removal has returned.                     *)
THEOREM RemovalSafe == Spec => []NoCallAfterRemoval
<1>1. NotifyInv => NoCallAfterRemoval BY DEF NotifyInv
<1>. QED BY <1>1, NotifyInvariant, PTL

(* A task's callbacks are called in the order of registration, each once.    *)
THEOREM OrderKept == Spec => []CalledInOrder
<1>1. NotifyInv => CalledInOrder BY DEF NotifyInv
<1>. QED BY <1>1, NotifyInvariant, PTL

(* Whatever workers and client do, a callback is called while registered, in *)
(* the order of registration, once for a task.                               *)
THEOREM CallbacksCorrect == Spec => []CallbacksMeetContract
<1>1. NotifyInv => CallbacksMeetContract BY DEF NotifyInv, CallbacksMeetContract
<1>. QED BY <1>1, NotifyInvariant, PTL

OutcomeInv == NotificationDue /\ OutcomeNotLost

LEMMA OutcomeStep == CountInv /\ NotifyInv /\ OutcomeInv /\ [Next]_vars => OutcomeInv'
<1>. SUFFICES ASSUME CountInv, NotifyInv, OutcomeInv, [Next]_vars PROVE OutcomeInv' OBVIOUS
<1>. USE DEF OutcomeInv, NotificationDue, OutcomeNotLost, CountInv, NotifyInv, MutexHeld,
             TypeOK, notifierVars, clientVars
<1>1. CASE SetPending
  <2>1. current \in Tasks /\ task[current] = "waiting" /\ outcome[current] \notin Completed
    BY <1>1 DEF SetPending, CallInProgress, current, Tasks
  <2>2. \A t \in Tasks \ {current} : mStatus'[t] = mStatus[t] BY <1>1 DEF SetPending
  <2>. QED BY <1>1, <2>1, <2>2 DEF SetPending
<1>2. CASE WriteGrid
  <2>1. \A t \in Tasks : outcome[t] \in Completed => t # mNextId
    BY <1>2 DEF WriteGrid, CallInProgress, Tasks
  <2>. QED BY <1>2, <2>1 DEF WriteGrid
<1>3. CASE TimeOut \/ ArenaEnqueue
  <2>1. task[current] = "waiting" /\ current \in Tasks
    BY <1>3 DEF TimeOut, ArenaEnqueue, CallInProgress, current, Tasks
  <2>. QED BY <1>3, <2>1 DEF TimeOut, ArenaEnqueue
<1>4. CASE Client /\ ~SetPending /\ ~WriteGrid /\ ~TimeOut /\ ~ArenaEnqueue
  BY <1>4 DEF Client, Enqueue, Sleep, Wake, CountTask, SetCapacity, BeginDestroy, Destroy
<1>5. ASSUME NEW t \in Tasks, NEW s \in Completed, RecordStatus(t, s) PROVE OutcomeInv'
  BY <1>5 DEF RecordStatus, Completed
<1>6. ASSUME NEW t \in Tasks, LockNotifiers(t) PROVE OutcomeInv'
  BY <1>6 DEF LockNotifiers, Free, Tasks
<1>7. ASSUME NEW t \in Tasks, CallNotifier(t) PROVE OutcomeInv'
  <2>1. mNotifierMutex = t /\ called'[t] # <<>>
    BY <1>7 DEF CallNotifier
  <2>2. \A u \in Tasks \ {t} : called'[u] = called[u] BY <1>7 DEF CallNotifier
  <2>. QED BY <1>7, <2>1, <2>2 DEF CallNotifier
<1>8. ASSUME NEW t \in Tasks, UnlockNotifiers(t) PROVE OutcomeInv'
  BY <1>8 DEF UnlockNotifiers
<1>9. ASSUME NEW t \in Tasks, EraseStatus(t) PROVE OutcomeInv'
  <2>1. t \in didNotify => called[t] # <<>> BY <1>9 DEF EraseStatus
  <2>2. \A u \in Tasks \ {t} : mStatus'[u] = mStatus[u] BY <1>9 DEF EraseStatus
  <2>. QED BY <1>9, <2>1, <2>2 DEF EraseStatus
<1>10. ASSUME NEW t \in Tasks, Finish(t) PROVE OutcomeInv'
  BY <1>10 DEF Finish
<1>11. CASE Monitor
  BY <1>11 DEF Monitor, QueryStatus, AddNotifier, RemoveNotifier, ClearNotifiers
<1>12. CASE UNCHANGED vars BY <1>12 DEF vars
<1>. QED
  BY <1>1, <1>2, <1>3, <1>4, <1>5, <1>6, <1>7, <1>8, <1>9, <1>10, <1>11, <1>12
  DEF Next, Worker, Client, Enqueue, Gone

LEMMA OutcomeInvariant == Spec => []OutcomeInv
<1>1. Init => OutcomeInv
  BY DEF Init, OutcomeInv, NotificationDue, OutcomeNotLost, Completed
<1>. QED BY <1>1, OutcomeStep, CountInvariant, NotifyInvariant, PTL DEF Spec

(* No outcome is ever lost to the client.                                   *)
THEOREM OutcomesKept == Spec => []OutcomeNotLost
<1>1. OutcomeInv => OutcomeNotLost BY DEF OutcomeInv
<1>. QED BY <1>1, OutcomeInvariant, PTL

-----------------------------------------------------------------------------
(* The contract.                                                            *)

HonestInv == OutcomesHonest /\ OneRequest

LEMMA HonestStep == CountInv /\ OutcomeInv /\ HonestInv /\ [Next]_vars => HonestInv'
<1>. SUFFICES ASSUME CountInv, OutcomeInv, HonestInv, [Next]_vars PROVE HonestInv' OBVIOUS
<1>. USE DEF HonestInv, OutcomesHonest, OneRequest, CountInv, TypeOK, notifierVars, clientVars,
             current, Completed
<1>1. CASE WriteGrid
  <2>1. /\ client = "idle" /\ client' = "polling"
        /\ mNextId \in Tasks /\ mNextId' = mNextId + 1
        /\ task' = [task EXCEPT ![mNextId] = "waiting"]
        /\ UNCHANGED <<outcome, mStatus, reported>>
    BY <1>1 DEF WriteGrid, Tasks
  <2>2. OneRequest' BY <2>1 DEF Tasks
  <2>3. OutcomesHonest' BY <2>1 DEF OutcomeInv, NotificationDue, CallInProgress, Tasks
  <2>. QED BY <2>2, <2>3
<1>2. CASE SetPending
  <2>1. current \in Tasks /\ task[current] = "waiting"
    BY <1>2 DEF SetPending, CallInProgress, Tasks
  <2>. QED BY <1>2, <2>1 DEF SetPending
<1>3. CASE TimeOut \/ ArenaEnqueue
  <2>1. current \in Tasks /\ task[current] = "waiting"
    BY <1>3 DEF TimeOut, ArenaEnqueue, CallInProgress, Tasks
  <2>. QED BY <1>3, <2>1 DEF TimeOut, ArenaEnqueue
<1>4. CASE Client /\ ~SetPending /\ ~WriteGrid /\ ~TimeOut /\ ~ArenaEnqueue
  BY <1>4 DEF Client, Enqueue, Sleep, Wake, CountTask, SetCapacity, BeginDestroy, Destroy
<1>5. ASSUME NEW t \in Tasks, NEW s \in Completed, RecordStatus(t, s) PROVE HonestInv'
  BY <1>5 DEF RecordStatus
<1>6. ASSUME NEW t \in Tasks,
             LockNotifiers(t) \/ CallNotifier(t) \/ UnlockNotifiers(t) \/ EraseStatus(t) \/ Finish(t)
      PROVE  HonestInv'
  <2>1. /\ task[t] \notin {"new", "waiting", "rejected", "queued"}
        /\ \E p \in Live \cup {"finished"} : task' = [task EXCEPT ![t] = p]
        /\ UNCHANGED <<client, mNextId, outcome, reported>>
    BY <1>6 DEF LockNotifiers, CallNotifier, UnlockNotifiers, EraseStatus, Finish, Live
  <2>2. \A u \in Tasks : mStatus'[u] = mStatus[u] \/ mStatus'[u] = "UNKNOWN"
    BY <1>6 DEF LockNotifiers, CallNotifier, UnlockNotifiers, EraseStatus, Finish
  <2>3. outcome[t] \in Completed BY <2>1
  <2>. QED BY <2>1, <2>2, <2>3 DEF Live
<1>7. CASE Monitor
  BY <1>7 DEF Monitor, QueryStatus, AddNotifier, RemoveNotifier, ClearNotifiers
<1>8. CASE UNCHANGED vars BY <1>8 DEF vars
<1>. QED
  BY <1>1, <1>2, <1>3, <1>4, <1>5, <1>6, <1>7, <1>8 DEF Next, Worker, Client, Enqueue, Gone

LEMMA HonestInvariant == Spec => []HonestInv
<1>1. Init => HonestInv
  BY DEF Init, HonestInv, OutcomesHonest, OneRequest, Completed
<1>. QED BY <1>1, HonestStep, CountInvariant, OutcomeInvariant, PTL DEF Spec

(* The ticket of each phase.                                                *)
LEMMA TicketOfPhase ==
    ASSUME TypeOK, NEW t \in Tasks
    PROVE  /\ task[t] = "new" => Ticket[t] = "new"
           /\ task[t] = "waiting" => Ticket[t] = "asked"
           /\ task[t] = "rejected" => Ticket[t] = "refused"
           /\ task[t] = "queued" => Ticket[t] = "accepted"
           /\ task[t] \notin {"new", "waiting", "rejected", "queued"} =>
                  Ticket[t] = IF called[t] # <<>> \/ t \in reported THEN "told" ELSE mStatus[t]
BY DEF Ticket

(* A ticket depends on nothing but its task's phase, callbacks, report and   *)
(* status.                                                                  *)
LEMMA SameTicket ==
    ASSUME TypeOK, TypeOK', NEW t \in Tasks,
           task'[t] = task[t], called'[t] = called[t],
           t \in reported' <=> t \in reported,
           \/ task[t] \in {"new", "waiting", "rejected", "queued"}
           \/ called[t] # <<>> \/ t \in reported \/ mStatus'[t] = mStatus[t]
    PROVE  Ticket'[t] = Ticket[t]
BY DEF Ticket

(* When one ticket changes at most, the step is the contract's for it.      *)
LEMMA OneTicket ==
    ASSUME NEW t \in Tasks, NEW to,
           \A u \in Tasks \ {t} : Ticket'[u] = Ticket[u], Ticket'[t] = to
    PROVE  Ticket' = [Ticket EXCEPT ![t] = to]
<1>. DEFINE T == Ticket  P == Ticket'
<1>1. T = [u \in Tasks |-> T[u]] /\ P = [u \in Tasks |-> P[u]] BY DEF Ticket
<1>2. \A u \in Tasks : P[u] = IF u = t THEN to ELSE T[u] OBVIOUS
<1>. HIDE DEF T, P
<1>3. P = [T EXCEPT ![t] = to] BY <1>1, <1>2
<1>. QED BY <1>3 DEF T, P

LEMMA NoTicket ==
    ASSUME \A u \in Tasks : Ticket'[u] = Ticket[u]
    PROVE  Ticket' = Ticket
<1>. DEFINE T == Ticket  P == Ticket'
<1>1. T = [u \in Tasks |-> T[u]] /\ P = [u \in Tasks |-> P[u]] BY DEF Ticket
<1>. HIDE DEF T, P
<1>2. P = T BY <1>1 DEF T, P
<1>. QED BY <1>2 DEF T, P

(* A step of the contract, while the queue is open.                         *)
LEMMA ContractStep ==
    ASSUME NEW t \in Tasks, NEW from, NEW to, client # "destroyed", client' # "destroyed",
           Ticket[t] \in from, \A u \in Tasks \ {t} : Ticket'[u] = Ticket[u], Ticket'[t] = to
    PROVE  Contract!Step(t, from, to)
<1>1. Ticket' = [Ticket EXCEPT ![t] = to] BY OneTicket
<1>2. Open = TRUE /\ Open' = Open BY Zenon DEF Open
<1>. QED BY <1>1, <1>2 DEF Contract!Step

(* A live task keeps the queue open.                                        *)
LEMMA LiveOpen ==
    ASSUME CountInv, NEW t \in Tasks, task[t] \in Live
    PROVE  client # "destroyed"
BY DEF CountInv, QueueOutlivesWorkers, LiveTasks

QueueInv == CountInv /\ NotifyInv /\ OutcomeInv /\ HonestInv

(* Every step of the queue is one of the contract, or leaves every ticket.  *)
LEMMA QueueStep ==
    ASSUME QueueInv, QueueInv', [Next]_vars
    PROVE  [Contract!Next]_<<Ticket, Open>>
<1>. USE DEF Completed, clientVars, notifierVars
<1>0. TypeOK /\ TypeOK' /\ CountInv BY DEF QueueInv, CountInv
<1>1. ASSUME WriteGrid PROVE Contract!Next
  <2>1. /\ mNextId \in Tasks /\ task[mNextId] = "new" /\ task'[mNextId] = "waiting"
        /\ \A u \in Tasks \ {mNextId} : task'[u] = task[u]
        /\ client # "destroyed" /\ client' # "destroyed"
        /\ UNCHANGED <<called, reported, mStatus>>
    BY <1>0, <1>1 DEF WriteGrid, TypeOK, CountInv, CallInProgress, Tasks
  <2>2. Ticket[mNextId] \in {"new"} /\ Ticket'[mNextId] = "asked"
    BY <1>0, <2>1 DEF Ticket
  <2>3. \A u \in Tasks \ {mNextId} : Ticket'[u] = Ticket[u] BY <1>0, <2>1, SameTicket
  <2>4. Contract!Ask(mNextId) BY <2>1, <2>2, <2>3, ContractStep DEF Contract!Ask
  <2>. QED BY <2>1, <2>4 DEF Contract!Next
<1>2. ASSUME TimeOut PROVE Contract!Next
  <2>1. /\ current \in Tasks /\ task[current] = "waiting" /\ task'[current] = "rejected"
        /\ \A u \in Tasks \ {current} : task'[u] = task[u]
        /\ client # "destroyed" /\ client' # "destroyed"
        /\ UNCHANGED <<called, reported, mStatus>>
    BY <1>0, <1>2 DEF TimeOut, TypeOK, CountInv, CallInProgress, Tasks, current
  <2>2. Ticket[current] \in {"asked"} /\ Ticket'[current] = "refused"
    BY <1>0, <2>1 DEF Ticket
  <2>3. \A u \in Tasks \ {current} : Ticket'[u] = Ticket[u] BY <1>0, <2>1, SameTicket
  <2>4. Contract!Refuse(current) BY <2>1, <2>2, <2>3, ContractStep DEF Contract!Refuse
  <2>. QED BY <2>1, <2>4 DEF Contract!Next
<1>3. ASSUME ArenaEnqueue PROVE Contract!Next
  <2>1. /\ current \in Tasks /\ task[current] = "waiting" /\ task'[current] = "queued"
        /\ \A u \in Tasks \ {current} : task'[u] = task[u]
        /\ client # "destroyed" /\ client' # "destroyed"
        /\ UNCHANGED <<called, reported, mStatus>>
    BY <1>0, <1>3 DEF ArenaEnqueue, TypeOK, CountInv, CallInProgress, Tasks, current
  <2>2. Ticket[current] \in {"asked"} /\ Ticket'[current] = "accepted"
    BY <1>0, <2>1 DEF Ticket
  <2>3. \A u \in Tasks \ {current} : Ticket'[u] = Ticket[u] BY <1>0, <2>1, SameTicket
  <2>4. Contract!Accept(current) BY <2>1, <2>2, <2>3, ContractStep DEF Contract!Accept
  <2>. QED BY <2>1, <2>4 DEF Contract!Next
<1>4. ASSUME NEW t \in Tasks, NEW s \in Completed, RecordStatus(t, s) PROVE Contract!Next
  <2>1. /\ task[t] = "queued" /\ task'[t] = "recorded" /\ mStatus'[t] = s
        /\ \A u \in Tasks \ {t} : task'[u] = task[u] /\ mStatus'[u] = mStatus[u]
        /\ client' = client /\ UNCHANGED <<called, reported>>
    BY <1>0, <1>4 DEF RecordStatus, TypeOK
  <2>2. client # "destroyed" BY <1>0, <2>1, LiveOpen DEF Live
  <2>3. called[t] = <<>> /\ t \notin reported
    BY <2>1 DEF QueueInv, NotifyInv, MutexHeld, HonestInv, OutcomesHonest, OutcomeInv,
                NotificationDue, Phases, Live
  <2>4. Ticket[t] \in {"accepted"} /\ Ticket'[t] = s BY <1>0, <2>1, <2>3 DEF Ticket
  <2>5. \A u \in Tasks \ {t} : Ticket'[u] = Ticket[u] BY <1>0, <2>1, SameTicket
  <2>6. Contract!Step(t, {"accepted"}, s) BY <2>1, <2>2, <2>4, <2>5, ContractStep
  <2>7. Contract!Complete(t) BY <2>6 DEF Contract!Complete, Contract!Outcomes
  <2>. QED BY <2>7 DEF Contract!Next
<1>5. ASSUME NEW t \in Tasks, CallNotifier(t) \/ QueryStatus(t)
      PROVE  Contract!Next \/ (Ticket' = Ticket /\ Open' = Open)
  <2>1. /\ task' = task /\ client' = client
        /\ \A u \in Tasks \ {t} : called'[u] = called[u] /\ mStatus'[u] = mStatus[u]
        /\ \A u \in Tasks \ {t} : u \in reported' <=> u \in reported
        /\ called'[t] # <<>> \/ t \in reported'
        /\ called[t] # <<>> => called'[t] # <<>>
    BY <1>0, <1>5 DEF CallNotifier, QueryStatus, TypeOK
  <2>2. client # "destroyed"
    BY <1>0, <1>5, LiveOpen DEF CallNotifier, QueryStatus, InUse, Live
  <2>3. task[t] \notin {"new", "waiting", "rejected", "queued"} /\ outcome[t] \in Completed
    BY <1>5 DEF CallNotifier, QueryStatus, QueueInv, HonestInv, OutcomesHonest, OutcomeInv,
                NotificationDue
  <2>4. Ticket'[t] = "told" BY <1>0, <2>1, <2>3, TicketOfPhase DEF Ticket
  <2>5. \A u \in Tasks \ {t} : Ticket'[u] = Ticket[u] BY <1>0, <2>1, SameTicket
  <2>6. Ticket[t] = "told" \/ Ticket[t] \in Completed
    BY <1>0, <2>3, TicketOfPhase DEF QueueInv, OutcomeInv, OutcomeNotLost
  <2>7. CASE Ticket[t] = "told"
    <3>1. Ticket' = Ticket BY <2>4, <2>5, <2>7, NoTicket
    <3>. QED BY <2>1, <3>1 DEF Open
  <2>8. CASE Ticket[t] \in Completed
    <3>1. Contract!Step(t, {"SUCCEEDED", "FAILED"}, "told")
      BY <2>1, <2>2, <2>4, <2>5, <2>8, ContractStep
    <3>2. Contract!Tell(t) BY <3>1 DEF Contract!Tell, Contract!Outcomes
    <3>. QED BY <3>2 DEF Contract!Next
  <2>. QED BY <2>6, <2>7, <2>8
<1>6. ASSUME Destroy PROVE Contract!Next
  <2>1. /\ client = "destroying" /\ client' = "destroyed" /\ mNumTasks <= 0
        /\ UNCHANGED <<task, called, reported, mStatus>>
    BY <1>0, <1>6 DEF Destroy, TypeOK
  <2>2. LiveTasks' = {} BY <2>1 DEF QueueInv, CountInv, QueueOutlivesWorkers
  <2>3. \A t \in Tasks : task[t] # "queued" /\ task[t] # "waiting"
    BY <2>1, <2>2 DEF LiveTasks, Live, QueueInv, HonestInv, OneRequest
  <2>4. \A t \in Tasks : Ticket[t] \notin {"asked", "accepted"}
    BY <1>0, <2>3, TicketOfPhase DEF QueueInv, OutcomeInv, OutcomeNotLost, HonestInv,
       OutcomesHonest
  <2>5. Ticket' = Ticket BY <2>1 DEF Ticket
  <2>6. Open = TRUE /\ Open' = FALSE BY <2>1, Zenon DEF Open
  <2>. QED BY <2>4, <2>5, <2>6 DEF Contract!Next, Contract!Close
<1>7. ASSUME NEW t \in Tasks, LockNotifiers(t) \/ UnlockNotifiers(t) \/ EraseStatus(t) \/ Finish(t)
      PROVE  Ticket' = Ticket /\ Open' = Open
  <2>1. /\ task[t] \notin {"new", "waiting", "rejected", "queued"}
        /\ task'[t] \notin {"new", "waiting", "rejected", "queued"}
        /\ \A u \in Tasks \ {t} : task'[u] = task[u] /\ mStatus'[u] = mStatus[u]
        /\ client' = client /\ UNCHANGED <<called, reported>>
    BY <1>0, <1>7 DEF LockNotifiers, UnlockNotifiers, EraseStatus, Finish, TypeOK
  <2>2. mStatus'[t] = mStatus[t] \/ called[t] # <<>>
    BY <1>7 DEF LockNotifiers, UnlockNotifiers, EraseStatus, Finish, QueueInv, OutcomeInv,
                NotificationDue, NotifyInv, MutexHeld
  <2>3. Ticket'[t] = Ticket[t] BY <1>0, <2>1, <2>2 DEF Ticket
  <2>4. \A u \in Tasks \ {t} : Ticket'[u] = Ticket[u] BY <1>0, <2>1, SameTicket
  <2>5. Ticket' = Ticket BY <2>3, <2>4, NoTicket
  <2>. QED BY <2>1, <2>5 DEF Open
<1>8. ASSUME SetPending PROVE Ticket' = Ticket /\ Open' = Open
  <2>1. /\ current \in Tasks /\ task[current] = "waiting"
        /\ client # "destroyed" /\ client' # "destroyed"
        /\ \A u \in Tasks \ {current} : mStatus'[u] = mStatus[u]
        /\ UNCHANGED <<task, called, reported>>
    BY <1>0, <1>8 DEF SetPending, TypeOK, CountInv, CallInProgress, Tasks, current
  <2>2. \A u \in Tasks : Ticket'[u] = Ticket[u] BY <1>0, <2>1, SameTicket
  <2>3. Ticket' = Ticket BY <2>2, NoTicket
  <2>. QED BY <2>1, <2>3 DEF Open
<1>9. ASSUME \/ Client /\ ~Destroy /\ ~SetPending /\ ~WriteGrid /\ ~TimeOut /\ ~ArenaEnqueue
             \/ AddNotifier \/ ClearNotifiers \/ (\E n \in mNotifiers : RemoveNotifier(n))
             \/ UNCHANGED vars
      PROVE  Ticket' = Ticket /\ Open' = Open
  <2>1. UNCHANGED <<task, called, reported, mStatus>>
    BY <1>9 DEF Client, Enqueue, Sleep, Wake, CountTask, SetCapacity, BeginDestroy, AddNotifier,
                ClearNotifiers, RemoveNotifier, vars
  <2>2. (client' = "destroyed") <=> (client = "destroyed")
    BY <1>9 DEF Client, Enqueue, Sleep, Wake, CountTask, SetCapacity, BeginDestroy, AddNotifier,
                ClearNotifiers, RemoveNotifier, vars
  <2>. QED BY <2>1, <2>2 DEF Ticket, Open
<1>. QED
  BY <1>1, <1>2, <1>3, <1>4, <1>5, <1>6, <1>7, <1>8, <1>9
  DEF Next, Client, Enqueue, Monitor, Worker, Gone

(* The queue keeps its contract: it never completes a grid it has refused,  *)
(* completes one twice, tells an outcome it has not recorded, forgets one,  *)
(* or closes while a grid is asked for or accepted.                         *)
THEOREM QueueImplementsContract == Spec => Contract!Safety
<1>1. Init => Contract!Init
  <2>. SUFFICES ASSUME Init PROVE Contract!Init OBVIOUS
  <2>1. Ticket = [t \in Tasks |-> "new"] BY DEF Init, Ticket
  <2>2. Open = TRUE BY Zenon DEF Init, Open
  <2>. QED BY <2>1, <2>2 DEF Contract!Init
<1>2. QueueInv /\ QueueInv' /\ [Next]_vars => [Contract!Next]_<<Ticket, Open>> BY QueueStep
<1>3. CountInv /\ NotifyInv /\ OutcomeInv /\ HonestInv => QueueInv BY DEF QueueInv
<1>4. Spec => []QueueInv
  BY <1>3, CountInvariant, NotifyInvariant, OutcomeInvariant, HonestInvariant, PTL
<1>. QED BY <1>1, <1>2, <1>4, PTL DEF Spec, Contract!Safety

HIDE QueueAssumption

-----------------------------------------------------------------------------
(* Positions.                                                               *)

\* A set of natural numbers that is not empty has a least element.
LEMMA Least ==
    ASSUME NEW S \in SUBSET Nat, S # {}
    PROVE  \E m \in S : \A k \in S : m <= k
<1>1. IsWellFoundedOn(OpToRel(<, Nat), Nat)
  BY NatLessThanWellFounded
<1>2. PICK m \in S : \A k \in S : ~ (<<k, m>> \in OpToRel(<, Nat))
  BY <1>1, WFMin
<1>3. \A k \in S : ~ (k < m)
  BY <1>2 DEF OpToRel
<1> QED
  BY <1>3

\* Induction from one position to the next.
LEMMA Climb ==
    ASSUME NEW n \in Nat, NEW S, 0 \in S, \A k \in 1 .. n : k - 1 \in S => k \in S
    PROVE  \A k \in 0 .. n : k \in S
<1> DEFINE bad == {k \in 0 .. n : k \notin S}
<1>1. ASSUME bad # {} PROVE FALSE
  <2>0. bad \in SUBSET Nat
    OBVIOUS
  <2>1. PICK m \in bad : \A k \in bad : m <= k
    BY <1>1, <2>0, Least
  <2>2. m \in 1 .. n /\ m - 1 \in 0 .. n /\ ~ (m <= m - 1)
    BY <2>1
  <2> QED
    BY <2>1, <2>2
<1> QED
  BY <1>1

\* The first and the last of some positions, 0 if there is none.
LEMMA MinFact ==
    ASSUME NEW I \in SUBSET Nat, I # {}
    PROVE  Min(I) \in I /\ \A i \in I : Min(I) <= i
<1>1. \E m \in I : \A k \in I : m <= k
  BY Least
<1> QED
  BY <1>1 DEF Min

LEMMA MaxFact ==
    ASSUME NEW n \in Nat, NEW I \in SUBSET (0 .. n), I # {}
    PROVE  Max(I) \in I /\ \A i \in I : i <= Max(I)
<1> DEFINE R == {n - i : i \in I}
<1>0. R \in SUBSET Nat /\ R # {} /\ \A i \in I : i \in 0 .. n /\ n - i \in R
  <2>1. \A i \in I : i \in 0 .. n /\ n - i \in Nat
    OBVIOUS
  <2>2. \A r \in R : \E i \in I : r = n - i
    OBVIOUS
  <2>3. \A i \in I : n - i \in R
    OBVIOUS
  <2> HIDE DEF R
  <2> QED
    BY <2>1, <2>2, <2>3
<1>1. PICK m \in R : \A k \in R : m <= k
  BY <1>0, Least
<1>2. PICK j \in I : m = n - j
  BY <1>1
<1> HIDE DEF R
<1>3. ASSUME NEW i \in I PROVE j >= i
  <2>1. i \in 0 .. n /\ j \in 0 .. n /\ m <= n - i
    BY <1>0, <1>1
  <2> QED
    BY <1>2, <2>1
<1>4. \A i, k \in I : i \in Nat /\ (i >= k <=> k <= i)
  BY <1>0
<1> QED
  BY <1>3, <1>4 DEF Max

\* Elements that lie in a row, each behind those of a set of its own, are counted.
LEMMA Counted ==
    ASSUME NEW I, IsFiniteSet(I), NEW up,
           \A i \in I : up[i] \subseteq I /\ i \in up[i],
           \A i, j \in I : \/ i = j
                           \/ up[i] \subseteq up[j] /\ j \notin up[i]
                           \/ up[j] \subseteq up[i] /\ i \notin up[j]
    PROVE  /\ \A i \in I : Cardinality(up[i]) \in 1 .. Cardinality(I)
           /\ \A i, j \in I : Cardinality(up[i]) = Cardinality(up[j]) => i = j
           /\ \A n \in 1 .. Cardinality(I) : \E i \in I : Cardinality(up[i]) = n
<1> DEFINE count == [i \in I |-> Cardinality(up[i])]
           N == Cardinality(I)
<1>1. N \in Nat
  BY FS_CardinalityType
<1>2. ASSUME NEW i \in I PROVE IsFiniteSet(up[i]) /\ Cardinality(up[i]) \in 1 .. N
  <2>1. IsFiniteSet(up[i]) /\ Cardinality(up[i]) <= N
    BY FS_Subset
  <2>2. Cardinality(up[i]) \in Nat /\ Cardinality(up[i]) # 0
    BY <2>1, FS_CardinalityType, FS_EmptySet
  <2> QED
    BY <1>1, <2>1, <2>2
<1>3. ASSUME NEW i \in I, NEW j \in I, i # j PROVE Cardinality(up[i]) # Cardinality(up[j])
  <2>1. ASSUME NEW k \in I, NEW l \in I, up[k] \subseteq up[l], l \notin up[k]
        PROVE  Cardinality(up[k]) # Cardinality(up[l])
    BY <1>2, <2>1, FS_Subset
  <2> QED
    BY <1>3, <2>1
<1>4. count \in Injection(I, 1 .. N)
  BY <1>2, <1>3 DEF Injection, IsInjective
<1>5. IsFiniteSet(1 .. N) /\ Cardinality(1 .. N) = N
  BY <1>1, FS_Interval
<1>6. count \in Surjection(I, 1 .. N)
  BY <1>4, <1>5, FS_Injection
<1> QED
  BY <1>2, <1>3, <1>6 DEF Surjection

\* The positions of a set are gone through from the first to the last.
LEMMA NthFacts ==
    ASSUME NEW I \in SUBSET Nat, IsFiniteSet(I)
    PROVE  /\ Cardinality(I) \in Nat
           /\ \A n \in 1 .. Cardinality(I) : Nth(I, n) \in I
           /\ \A i \in I : \E n \in 1 .. Cardinality(I) : Nth(I, n) = i
           /\ \A m, n \in 1 .. Cardinality(I) : m < n => Nth(I, m) < Nth(I, n)
<1> DEFINE up == [i \in I |-> {j \in I : j <= i}]
           N == Cardinality(I)
<1>0. \A k \in I : k \in Nat
  OBVIOUS
<1>1. /\ \A i \in I : Cardinality(up[i]) \in 1 .. N
      /\ \A i, j \in I : Cardinality(up[i]) = Cardinality(up[j]) => i = j
      /\ \A n \in 1 .. N : \E i \in I : Cardinality(up[i]) = n
  <2>1. \A i \in I : up[i] \subseteq I /\ i \in up[i]
    OBVIOUS
  <2>2. ASSUME NEW i \in I, NEW j \in I
        PROVE  \/ i = j
               \/ up[i] \subseteq up[j] /\ j \notin up[i]
               \/ up[j] \subseteq up[i] /\ i \notin up[j]
    <3>0. i \in Nat /\ j \in Nat
      BY <1>0
    <3>1. up[i] = {k \in I : k <= i} /\ up[j] = {k \in I : k <= j}
      OBVIOUS
    <3> HIDE DEF up
    <3>2. CASE i < j
      <4>1. up[i] \subseteq up[j] /\ j \notin up[i]
        <5>1. /\ \A k \in I : k <= i => k <= j
              /\ ~ (j <= i)
          BY <1>0, <3>0, <3>2
        <5> QED
          BY <3>1, <5>1
      <4> QED
        BY <4>1
    <3>3. CASE j < i
      <4>1. up[j] \subseteq up[i] /\ i \notin up[j]
        <5>1. /\ \A k \in I : k <= j => k <= i
              /\ ~ (i <= j)
          BY <1>0, <3>0, <3>3
        <5> QED
          BY <3>1, <5>1
      <4> QED
        BY <4>1
    <3> QED
      BY <3>0, <3>2, <3>3
  <2> HIDE DEF up
  <2> QED
    BY <2>1, <2>2, Counted
<1>2. \A i \in I : up[i] = {j \in I : j <= i}
  OBVIOUS
<1>3. ASSUME NEW n \in 1 .. N PROVE Nth(I, n) \in I /\ Cardinality(up[Nth(I, n)]) = n
  <2> HIDE DEF up
  <2>1. \E i \in I : Cardinality({j \in I : j <= i}) = n
    BY <1>1, <1>2
  <2>2. Nth(I, n) \in I /\ Cardinality({j \in I : j <= Nth(I, n)}) = n
    BY <2>1 DEF Nth
  <2> QED
    BY <1>2, <2>2
<1>4. N \in Nat
  BY FS_CardinalityType
<1>5. ASSUME NEW i \in I PROVE \E n \in 1 .. N : Nth(I, n) = i
  BY <1>1, <1>3
<1>6. ASSUME NEW m \in 1 .. N, NEW n \in 1 .. N, m < n PROVE Nth(I, m) < Nth(I, n)
  <2>1. Nth(I, m) \in I /\ Nth(I, n) \in I /\ Nth(I, m) \in Nat /\ Nth(I, n) \in Nat
    BY <1>0, <1>3
  <2>2. ASSUME Nth(I, n) <= Nth(I, m) PROVE FALSE
    <3>0. up[Nth(I, n)] = {j \in I : j <= Nth(I, n)} /\ up[Nth(I, m)] = {j \in I : j <= Nth(I, m)}
      BY <2>1
    <3>1. up[Nth(I, n)] \subseteq up[Nth(I, m)] /\ up[Nth(I, m)] \in SUBSET I
      <4> HIDE DEF up
      <4> QED
        <5>1. \A j \in I : j <= Nth(I, n) => j <= Nth(I, m)
          BY <1>0, <2>1, <2>2
        <5> QED
          BY <3>0, <5>1
    <3>2. IsFiniteSet(up[Nth(I, m)])
      BY <3>1, FS_Subset
    <3>3. Cardinality(up[Nth(I, n)]) <= Cardinality(up[Nth(I, m)])
      BY <3>1, <3>2, FS_Subset
    <3> HIDE DEF up
    <3> QED
      BY <1>3, <1>4, <1>6, <3>3
  <2> QED
    BY <2>1, <2>2
<1> QED
  BY <1>3, <1>4, <1>5, <1>6

\* A part of a sequence has the elements at its positions.
LEMMA PartFacts ==
    ASSUME NEW D, NEW seq \in Seq(D), NEW I \in SUBSET DOMAIN seq
    PROVE  /\ Part(seq, I) \in Seq(D)
           /\ DOMAIN Part(seq, I) = 1 .. Len(Part(seq, I))
           /\ Len(Part(seq, I)) = Cardinality(I) /\ Cardinality(I) \in Nat
           /\ \A n \in DOMAIN Part(seq, I) : Nth(I, n) \in I /\ Part(seq, I)[n] = seq[Nth(I, n)]
           /\ \A i \in I : \E n \in DOMAIN Part(seq, I) : Nth(I, n) = i
           /\ \A m, n \in DOMAIN Part(seq, I) : m < n => Nth(I, m) < Nth(I, n)
           /\ Part(seq, I) = <<>> <=> I = {}
<1>1. I \in SUBSET Nat /\ DOMAIN seq = 1 .. Len(seq) /\ Len(seq) \in Nat
  BY LenProperties
<1>2. IsFiniteSet(I)
  <2>1. IsFiniteSet(1 .. Len(seq))
    BY <1>1, FS_Interval
  <2> QED
    BY <1>1, <2>1, FS_Subset
<1>3. /\ Cardinality(I) \in Nat
      /\ \A n \in 1 .. Cardinality(I) : Nth(I, n) \in I
      /\ \A i \in I : \E n \in 1 .. Cardinality(I) : Nth(I, n) = i
      /\ \A m, n \in 1 .. Cardinality(I) : m < n => Nth(I, m) < Nth(I, n)
  BY <1>1, <1>2, NthFacts
<1>4. \A n \in 1 .. Cardinality(I) : seq[Nth(I, n)] \in D
  BY <1>1, <1>3, ElementOfSeq
<1>5. Part(seq, I) \in [1 .. Cardinality(I) -> D]
  BY <1>4 DEF Part
<1>6. Part(seq, I) \in Seq(D) /\ Len(Part(seq, I)) = Cardinality(I)
      /\ DOMAIN Part(seq, I) = 1 .. Cardinality(I)
  BY <1>3, <1>5
<1>7. Cardinality(I) = 0 <=> I = {}
  BY <1>2, FS_EmptySet
<1>8. \A n \in 1 .. Cardinality(I) : Part(seq, I)[n] = seq[Nth(I, n)]
  BY DEF Part
<1>9. Part(seq, I) = <<>> <=> Cardinality(I) = 0
  BY <1>3, <1>6
<1> QED
  BY <1>3, <1>6, <1>7, <1>8, <1>9

-----------------------------------------------------------------------------
(* Writing.                                                                 *)

Uniques == [name : Range(Alphabet), suffix : Seq(Nat)]

DescriptorsOf(list) ==
    [unique : Uniques, half : BOOLEAN, parent : Uniques, id : Nat,
     transform : {list[i].transform : i \in DOMAIN list},
     stored : {list[i].tree : i \in DOMAIN list} \union {Nothing}]

\* A list of grids that may be written, or none.
IsSource(list) ==
    /\ list \in Seq(Range(list))
    /\ \A i \in DOMAIN list : /\ list[i].name \in Range(Alphabet)
                              /\ list[i].half \in BOOLEAN
                              /\ list[i].tree # Nothing

LEMMA SourceFact == \A list \in Lists \union {<<>>} : IsSource(list)
<1>1. IsSource(<<>>)
  BY DEF IsSource
<1> QED
  BY <1>1, ArchiveAssumption DEF IsSource

LEMMA NameFacts ==
    ASSUME NEW name \in Range(Alphabet) \union Queries
    PROVE  /\ name = [stem |-> name.stem, brackets |-> name.brackets]
           /\ name.brackets \in Seq(Nat)
BY ArchiveAssumption

LEMMA SuffixFacts ==
    ASSUME NEW name, NEW n \in Nat
    PROVE  /\ AddSuffix(name, n).name = name /\ AddSuffix(name, n).suffix = <<n>>
           /\ AddSuffix(name, n).suffix[1] = n /\ <<n>> \in Seq(Nat) /\ <<n>> # <<>>
           /\ Plain(name).name = name /\ Plain(name).suffix = <<>>
           /\ \A m \in Nat : AddSuffix(name, n) = AddSuffix(name, m) => m = n
BY DEF AddSuffix, Plain

Used(out, unique) == \E i \in DOMAIN out : out[i].unique = unique

\* There is always a number left that makes a name unique.
LEMMA NumberLeft ==
    ASSUME NEW L \in Nat, NEW out, NEW m \in Nat, DOMAIN out = 1 .. m, m < L, NEW name
    PROVE  \E n \in 1 .. L : ~ Used(out, AddSuffix(name, n))
<1> SUFFICES ASSUME \A n \in 1 .. L : \E i \in 1 .. m : out[i].unique = AddSuffix(name, n)
             PROVE  FALSE
  BY DEF Used
<1> DEFINE g == [n \in 1 .. L |-> CHOOSE i \in 1 .. m : out[i].unique = AddSuffix(name, n)]
<1>1. \A n \in 1 .. L : g[n] \in 1 .. m /\ out[g[n]].unique = AddSuffix(name, n)
  OBVIOUS
<1>2. g \in [1 .. L -> 1 .. m]
  BY <1>1
<1>3. /\ IsFiniteSet(1 .. L) /\ Cardinality(1 .. L) = L
      /\ IsFiniteSet(1 .. m) /\ Cardinality(1 .. m) = m
  BY FS_Interval
<1> HIDE DEF g
<1>4. PICK x, y \in 1 .. L : x # y /\ g[x] = g[y]
  BY <1>2, <1>3, FS_PigeonHole
<1>5. AddSuffix(name, x) = AddSuffix(name, y)
  BY <1>1, <1>4
<1> QED
  BY <1>4, <1>5, SuffixFacts

Repeated(list, name) ==
    \E i, j \in DOMAIN list : i # j /\ list[i].name = name /\ list[j].name = name

LEMMA UniqueNameFacts ==
    ASSUME NEW list, Len(list) \in Nat, NEW out, NEW m \in Nat, DOMAIN out = 1 .. m,
           m < Len(list), NEW name \in Range(Alphabet)
    PROVE  LET u == UniqueName(list, out, name)
           IN  /\ u \in Uniques /\ u.name = name
               /\ \A i \in DOMAIN out : out[i].unique # u
               /\ u # NoParent
               /\ \/ u = Plain(name) /\ name # Anonymous /\ ~ Repeated(list, name)
                  \/ \E n \in Nat : u = AddSuffix(name, n)
<1> DEFINE used == {out[i].unique : i \in DOMAIN out}
           first == IF name = Anonymous \/ Repeated(list, name) THEN AddSuffix(name, 0) ELSE Plain(name)
           Free1(u) == /\ u \notin used
                       /\ \A n \in 1 .. u.suffix[1] - 1 : AddSuffix(name, n) \in used
           u == UniqueName(list, out, name)
<1>1. u = IF first \notin used THEN first
          ELSE CHOOSE v \in {AddSuffix(name, n) : n \in 1 .. Len(list)} : Free1(v)
  BY DEF UniqueName, Repeated
<1>2. Plain(name) \in Uniques /\ \A n \in Nat : AddSuffix(name, n) \in Uniques
  BY DEF Uniques, Plain, AddSuffix
<1>5. /\ name # Anonymous => Plain(name) # NoParent
      /\ \A n \in Nat : AddSuffix(name, n) # NoParent
  <2>1. \A n \in Nat : <<n>> # <<>>
    OBVIOUS
  <2> QED
    BY <2>1 DEF Plain, AddSuffix, NoParent
<1>3. CASE first \notin used
  <2>1. u = first
    BY <1>1, <1>3
  <2>2. \/ first = Plain(name) /\ name # Anonymous /\ ~ Repeated(list, name)
        \/ first = AddSuffix(name, 0)
    OBVIOUS
  <2> HIDE DEF u, first
  <2>3. \A i \in DOMAIN out : out[i].unique # first
    BY <1>3
  <2> QED
    BY <1>2, <1>5, <2>1, <2>2, <2>3, SuffixFacts DEF u
<1>4. CASE first \in used
  <2> DEFINE left == {n \in 1 .. Len(list) : AddSuffix(name, n) \notin used}
  <2>0. PICK l \in 1 .. Len(list) : ~ Used(out, AddSuffix(name, l))
    BY NumberLeft
  <2>1. left # {} /\ left \in SUBSET Nat
    <3>1. AddSuffix(name, l) \notin used
      BY <2>0 DEF Used
    <3> QED
      BY <3>1
  <2>2. PICK n \in left : \A k \in left : n <= k
    BY <2>1, Least
  <2>3. n \in 1 .. Len(list) /\ AddSuffix(name, n) \notin used /\ AddSuffix(name, n).suffix[1] = n
    BY <2>2, SuffixFacts
  <2>4. \A k \in 1 .. n - 1 : k \notin left /\ k \in 1 .. Len(list)
    BY <2>2, <2>3
  <2>5. Free1(AddSuffix(name, n))
    BY <2>3, <2>4
  <2>6. u = CHOOSE v \in {AddSuffix(name, k) : k \in 1 .. Len(list)} : Free1(v)
    BY <1>1, <1>4
  <2> HIDE DEF u, left, Free1
  <2>7. u \in {AddSuffix(name, k) : k \in 1 .. Len(list)} /\ Free1(u)
    BY <2>3, <2>5, <2>6
  <2>8. u \notin used
    BY <2>7 DEF Free1
  <2>9. PICK k \in 1 .. Len(list) : u = AddSuffix(name, k)
    BY <2>7
  <2> HIDE DEF first
  <2> QED
    BY <1>2, <1>5, <2>8, <2>9, SuffixFacts DEF u
<1> QED
  BY <1>3, <1>4

\* The file after n grids.
Unfolds(list, instancing, n, f) ==
    /\ DOMAIN f = 0 .. n
    /\ \A k \in 0 .. n :
          f[k] = IF k = 0 THEN <<>>
                 ELSE Append(f[k - 1], Described(list, instancing, f[k - 1], k))

LEMMA UnfoldsExists ==
    ASSUME NEW list, NEW instancing, NEW n \in Nat
    PROVE  \E f : Unfolds(list, instancing, n, f)
<1> DEFINE S == {k \in 0 .. n : \E f : Unfolds(list, instancing, k, f)}
<1>1. 0 \in S
  <2>1. Unfolds(list, instancing, 0, [k \in {0} |-> <<>>])
    BY DEF Unfolds
  <2> QED
    BY <2>1
<1>2. ASSUME NEW k \in 1 .. n, k - 1 \in S PROVE k \in S
  <2>1. PICK f : Unfolds(list, instancing, k - 1, f)
    BY <1>2
  <2> DEFINE g == [j \in 0 .. k |-> IF j = k THEN Append(f[k - 1], Described(list, instancing, f[k - 1], k))
                                    ELSE f[j]]
  <2>2. k \in Nat /\ k # 0 /\ k - 1 \in 0 .. k /\ DOMAIN g = 0 .. k
    OBVIOUS
  <2>3. g[k] = Append(f[k - 1], Described(list, instancing, f[k - 1], k))
        /\ \A j \in 0 .. k - 1 : g[j] = f[j]
    OBVIOUS
  <2> HIDE DEF g
  <2>4. ASSUME NEW j \in 0 .. k
        PROVE  g[j] = IF j = 0 THEN <<>>
                      ELSE Append(g[j - 1], Described(list, instancing, g[j - 1], j))
    <3>1. CASE j = k
      <4>1. g[k - 1] = f[k - 1]
        BY <2>2, <2>3
      <4> QED
        BY <2>2, <2>3, <3>1, <4>1
    <3>2. CASE j # k
      <4>1. j \in 0 .. k - 1 /\ (j # 0 => j - 1 \in 0 .. k - 1)
        BY <2>2, <3>2
      <4> QED
        BY <2>1, <2>3, <4>1 DEF Unfolds
    <3> QED
      BY <3>1, <3>2
  <2>5. Unfolds(list, instancing, k, g)
    BY <2>2, <2>4 DEF Unfolds
  <2> QED
    BY <2>5
<1> HIDE DEF S
<1>3. \A k \in 0 .. n : k \in S
  BY <1>1, <1>2, Climb
<1> QED
  BY <1>3 DEF S

LEMMA WrittenUnfolds ==
    ASSUME NEW list, Len(list) \in Nat, NEW instancing
    PROVE  \E f : Unfolds(list, instancing, Len(list), f) /\ Written(list, instancing) = f[Len(list)]
<1> DEFINE Is(f) == f = [n \in 0 .. Len(list) |->
                            IF n = 0 THEN <<>>
                            ELSE Append(f[n - 1], Described(list, instancing, f[n - 1], n))]
           out == CHOOSE f : Is(f)
<1>1. PICK f : Unfolds(list, instancing, Len(list), f)
  BY UnfoldsExists
<1>2. Is([k \in 0 .. Len(list) |-> f[k]])
  BY <1>1 DEF Unfolds
<1>3. Is(out)
  BY <1>2
<1>4. Written(list, instancing) = out[Len(list)]
  BY DEF Written
<1>5. Unfolds(list, instancing, Len(list), out)
  BY <1>3 DEF Unfolds
<1> QED
  BY <1>4, <1>5

\* Where a tree was last written in full.
LEMMA LastWrittenFacts ==
    ASSUME NEW D, NEW out \in Seq(D), NEW tree
    PROVE  /\ LastWritten(out, tree) \in 0 .. Len(out) /\ Len(out) \in Nat
           /\ LastWritten(out, tree) # 0 => out[LastWritten(out, tree)].stored = tree
           /\ \A j \in DOMAIN out : out[j].stored = tree => j <= LastWritten(out, tree)
<1> DEFINE I == {i \in 1 .. Len(out) : out[i].stored = tree}
<1>1. LastWritten(out, tree) = IF I # {} THEN Max(I) ELSE 0
  BY DEF LastWritten, SelectLastInSeq
<1>2. Len(out) \in Nat /\ DOMAIN out = 1 .. Len(out)
  BY LenProperties
<1>3. I \in SUBSET (0 .. Len(out)) /\ \A i \in I : i \in 1 .. Len(out) /\ out[i].stored = tree
  BY <1>2
<1>4. \A j \in DOMAIN out : out[j].stored = tree => j \in I
  BY <1>2
<1> HIDE DEF I
<1>5. CASE I = {}
  BY <1>1, <1>2, <1>4, <1>5
<1>6. CASE I # {}
  <2>1. Max(I) \in I /\ \A i \in I : i <= Max(I)
    BY <1>2, <1>3, <1>6, MaxFact
  <2> QED
    BY <1>1, <1>2, <1>3, <1>4, <1>6, <2>1
<1> QED
  BY <1>5, <1>6

\* The fields of one more descriptor.
LEMMA DescribedFacts ==
    ASSUME NEW list, IsSource(list), NEW instancing \in BOOLEAN, NEW k \in DOMAIN list,
           NEW out \in Seq(DescriptorsOf(list)), Len(out) = k - 1
    PROVE  LET d == Described(list, instancing, out, k)
               at == LastWritten(out, list[k].tree)
               instance == instancing /\ at # 0 /\ out[at].half = list[k].half
           IN  /\ d \in DescriptorsOf(list)
               /\ d.unique = UniqueName(list, out, list[k].name)
               /\ d.half = list[k].half /\ d.id = k /\ d.transform = list[k].transform
               /\ d.parent = IF instance THEN out[at].unique ELSE NoParent
               /\ d.stored = IF instance THEN Nothing ELSE list[k].tree
<1> DEFINE d == Described(list, instancing, out, k)
           at == LastWritten(out, list[k].tree)
           instance == instancing /\ at # 0 /\ out[at].half = list[k].half
           D == DescriptorsOf(list)
<1>1. Len(list) \in Nat /\ DOMAIN list = 1 .. Len(list) /\ k \in 1 .. Len(list)
  BY LenProperties DEF IsSource
<1>2. Len(out) \in Nat /\ DOMAIN out = 1 .. Len(out) /\ Len(out) < Len(list)
  BY <1>1, LenProperties
<1>3. UniqueName(list, out, list[k].name) \in Uniques
  <2>1. list[k].name \in Range(Alphabet)
    BY DEF IsSource
  <2> QED
    BY <1>1, <1>2, <2>1, UniqueNameFacts
<1>4. at \in 0 .. Len(out) /\ (at # 0 => out[at] \in D)
  <2>1. at \in 0 .. Len(out)
    BY LastWrittenFacts
  <2> QED
    BY <1>2, <2>1, ElementOfSeq
<1>5. d = [unique    |-> UniqueName(list, out, list[k].name),
           half      |-> list[k].half,
           parent    |-> IF instance THEN out[at].unique ELSE NoParent,
           id        |-> k,
           transform |-> list[k].transform,
           stored    |-> IF instance THEN Nothing ELSE list[k].tree]
  BY DEF Described, Shareable
<1>6. NoParent \in Uniques
  BY ArchiveAssumption, EmptySeq DEF NoParent, Plain, Uniques
<1>7. instance => out[at].unique \in Uniques
  BY <1>4 DEF DescriptorsOf
<1>8. list[k].half \in BOOLEAN /\ k \in Nat
  BY <1>1 DEF IsSource
<1> HIDE DEF d, at, instance, D
<1>9. d \in D
  BY <1>3, <1>5, <1>6, <1>7, <1>8 DEF D, DescriptorsOf
<1> QED
  BY <1>5, <1>9 DEF d, at, instance, D

\* What is written for a list: a descriptor for each grid, after those before it.
LEMMA WrittenSteps ==
    ASSUME NEW list, IsSource(list), NEW instancing \in BOOLEAN
    PROVE  LET ds == Written(list, instancing)
           IN  /\ ds \in Seq(DescriptorsOf(list))
               /\ DOMAIN ds = DOMAIN list /\ DOMAIN ds = 1 .. Len(ds) /\ Len(ds) = Len(list)
               /\ Len(ds) \in Nat
               /\ \A k \in DOMAIN ds : \E out \in Seq(DescriptorsOf(list)) :
                     /\ Len(out) = k - 1
                     /\ \A j \in 1 .. k - 1 : out[j] = ds[j]
                     /\ ds[k] = Described(list, instancing, out, k)
<1> DEFINE D == DescriptorsOf(list)
<1>1. Len(list) \in Nat /\ DOMAIN list = 1 .. Len(list)
  BY LenProperties DEF IsSource
<1>2. PICK f : Unfolds(list, instancing, Len(list), f) /\ Written(list, instancing) = f[Len(list)]
  BY <1>1, WrittenUnfolds
<1> DEFINE S == {k \in 0 .. Len(list) :
                    /\ f[k] \in Seq(D) /\ Len(f[k]) = k
                    /\ \A j \in 1 .. k : /\ Len(f[j - 1]) = j - 1 /\ f[j - 1] \in Seq(D)
                                         /\ f[k][j] = Described(list, instancing, f[j - 1], j)
                                         /\ \A i \in 1 .. j - 1 : f[j - 1][i] = f[k][i]}
<1>3. 0 \in S
  <2>1. f[0] = <<>>
    BY <1>1, <1>2 DEF Unfolds
  <2> HIDE DEF D
  <2>2. f[0] \in Seq(D) /\ Len(f[0]) = 0 /\ 0 \in 0 .. Len(list)
    BY <1>1, <2>1, EmptySeq
  <2>3. \A j \in 1 .. 0 : FALSE
    OBVIOUS
  <2> QED
    BY <2>2, <2>3
<1>4. ASSUME NEW k \in 1 .. Len(list), k - 1 \in S PROVE k \in S
  <2>1. f[k] = Append(f[k - 1], Described(list, instancing, f[k - 1], k))
    BY <1>1, <1>2 DEF Unfolds
  <2>2. f[k - 1] \in Seq(D) /\ Len(f[k - 1]) = k - 1
    BY <1>4
  <2>3. Described(list, instancing, f[k - 1], k) \in D
    BY <1>1, <2>2, DescribedFacts
  <2> HIDE DEF D
  <2>4. /\ f[k] \in Seq(D) /\ Len(f[k]) = k
        /\ \A i \in 1 .. k - 1 : f[k][i] = f[k - 1][i]
        /\ f[k][k] = Described(list, instancing, f[k - 1], k)
    <3>1. k - 1 + 1 = k
      BY <1>1
    <3> QED
      BY <2>1, <2>2, <2>3, <3>1, AppendProperties
  <2>5. ASSUME NEW j \in 1 .. k
        PROVE  /\ Len(f[j - 1]) = j - 1 /\ f[j - 1] \in Seq(D)
               /\ f[k][j] = Described(list, instancing, f[j - 1], j)
               /\ \A i \in 1 .. j - 1 : f[j - 1][i] = f[k][i]
    <3>1. CASE j = k
      BY <2>2, <2>4, <3>1
    <3>2. CASE j # k
      <4>1. j \in 1 .. k - 1 /\ \A i \in 1 .. j - 1 : i \in 1 .. k - 1
        BY <1>1, <3>2
      <4> QED
        BY <1>4, <2>4, <4>1
    <3> QED
      BY <3>1, <3>2
  <2> QED
    BY <2>4, <2>5
<1>5. Len(list) \in S
  <2> HIDE DEF S
  <2>1. \A k \in 0 .. Len(list) : k \in S
    BY <1>1, <1>3, <1>4, Climb
  <2> QED
    BY <1>1, <2>1
<1> DEFINE ds == Written(list, instancing)
<1>6. /\ ds \in Seq(D) /\ Len(ds) = Len(list)
      /\ \A j \in 1 .. Len(list) : /\ Len(f[j - 1]) = j - 1 /\ f[j - 1] \in Seq(D)
                                   /\ ds[j] = Described(list, instancing, f[j - 1], j)
                                   /\ \A i \in 1 .. j - 1 : f[j - 1][i] = ds[i]
  BY <1>2, <1>5
<1> HIDE DEF ds, D, S
<1>7. DOMAIN ds = 1 .. Len(list)
  BY <1>6, LenProperties
<1> QED
  BY <1>1, <1>6, <1>7 DEF ds, D

\* The last of the earlier positions where this tree is stored.
IsLast(ds, tree, k, p) ==
    p \in 1 .. k - 1 /\ ds[p].stored = tree /\ \A j \in p + 1 .. k - 1 : ds[j].stored # tree

\* What holds of the descriptors of a file.
Describes(d, g, k) ==
    d.id = k /\ d.half = g.half /\ d.transform = g.transform /\ d.unique.name = g.name

NameGiven(list, d, g) ==
    \/ d.unique = Plain(g.name) /\ g.name # Anonymous /\ ~ Repeated(list, g.name)
    \/ \E n \in Nat : d.unique = AddSuffix(g.name, n)

StoredOnce(ds, g, instancing, k) ==
    IF IsInstance(ds[k])
    THEN /\ instancing /\ ds[k].stored = Nothing
         /\ \E p \in 1 .. k - 1 : /\ IsLast(ds, g.tree, k, p)
                                  /\ ds[p].unique = ds[k].parent /\ ds[p].half = g.half
    ELSE /\ ds[k].stored = g.tree
         /\ instancing => \A p \in 1 .. k - 1 : IsLast(ds, g.tree, k, p) => ds[p].half # g.half

FileOf(ds, list, instancing) ==
    /\ ds \in Seq(DescriptorsOf(list))
    /\ DOMAIN ds = DOMAIN list /\ DOMAIN ds = 1 .. Len(ds) /\ Len(ds) = Len(list) /\ Len(ds) \in Nat
    /\ \A k \in DOMAIN ds : /\ Describes(ds[k], list[k], k)
                            /\ NameGiven(list, ds[k], list[k])
                            /\ ds[k].unique # NoParent
                            /\ StoredOnce(ds, list[k], instancing, k)
    /\ \A j, k \in DOMAIN ds : ds[j].unique = ds[k].unique => j = k

LEMMA WrittenFile ==
    ASSUME NEW list, IsSource(list), NEW instancing \in BOOLEAN
    PROVE  FileOf(Written(list, instancing), list, instancing)
<1> DEFINE ds == Written(list, instancing)
           D == DescriptorsOf(list)
<1>1. /\ ds \in Seq(D)
      /\ DOMAIN ds = DOMAIN list /\ DOMAIN ds = 1 .. Len(ds) /\ Len(ds) = Len(list)
      /\ Len(ds) \in Nat
      /\ \A k \in DOMAIN ds : \E out \in Seq(D) :
            /\ Len(out) = k - 1
            /\ \A j \in 1 .. k - 1 : out[j] = ds[j]
            /\ ds[k] = Described(list, instancing, out, k)
  BY WrittenSteps
<1> HIDE DEF ds, D
<1>2. ASSUME NEW k \in DOMAIN ds
      PROVE  /\ Describes(ds[k], list[k], k) /\ NameGiven(list, ds[k], list[k])
             /\ ds[k].unique # NoParent /\ StoredOnce(ds, list[k], instancing, k)
             /\ \A j \in 1 .. k - 1 : ds[j].unique # ds[k].unique
  <2> DEFINE g == list[k]
  <2>0. k \in DOMAIN list /\ k \in Nat /\ k >= 1 /\ k <= Len(list)
    BY <1>1
  <2>1. PICK out \in Seq(D) : /\ Len(out) = k - 1
                              /\ \A j \in 1 .. k - 1 : out[j] = ds[j]
                              /\ ds[k] = Described(list, instancing, out, k)
    BY <1>1
  <2> DEFINE at == LastWritten(out, g.tree)
             instance == instancing /\ at # 0 /\ out[at].half = g.half
  <2>2. /\ ds[k].unique = UniqueName(list, out, g.name)
        /\ ds[k].half = g.half /\ ds[k].id = k /\ ds[k].transform = g.transform
        /\ ds[k].parent = IF instance THEN out[at].unique ELSE NoParent
        /\ ds[k].stored = IF instance THEN Nothing ELSE g.tree
    BY <2>0, <2>1, DescribedFacts DEF D
  <2>3. g.name \in Range(Alphabet) /\ g.tree # Nothing
    BY <2>0 DEF IsSource
  <2>4. DOMAIN out = 1 .. k - 1 /\ k - 1 \in Nat /\ k - 1 < Len(list)
    BY <1>1, <2>0, <2>1, LenProperties
  <2> DEFINE u == UniqueName(list, out, g.name)
  <2>5. /\ u.name = g.name
        /\ \A i \in DOMAIN out : out[i].unique # u
        /\ u # NoParent
        /\ \/ u = Plain(g.name) /\ g.name # Anonymous /\ ~ Repeated(list, g.name)
           \/ \E n \in Nat : u = AddSuffix(g.name, n)
    <3> HIDE DEF g, at, instance
    <3> QED
      BY <1>1, <2>3, <2>4, UniqueNameFacts
  <2>6. /\ at \in 0 .. k - 1
        /\ at # 0 => out[at].stored = g.tree
        /\ \A j \in DOMAIN out : out[j].stored = g.tree => j <= at
    <3> HIDE DEF g, instance
    <3> QED
      BY <2>1, LastWrittenFacts
  <2> HIDE DEF g, at, instance, u
  <2>7. ds[k].unique = u
    BY <2>2 DEF u
  <2>8. Describes(ds[k], list[k], k)
    BY <2>2, <2>5, <2>7 DEF Describes, g
  <2>9. NameGiven(list, ds[k], list[k])
    BY <2>5, <2>7 DEF NameGiven, g
  <2>10. ds[k].unique # NoParent
    BY <2>5, <2>7
  <2>11. \A j \in 1 .. k - 1 : ds[j].unique # ds[k].unique
    BY <2>1, <2>4, <2>5, <2>7
  <2>12. at # 0 => IsLast(ds, g.tree, k, at)
    <3> SUFFICES ASSUME at # 0 PROVE IsLast(ds, g.tree, k, at)
      OBVIOUS
    <3>1. at \in 1 .. k - 1 /\ ds[at] = out[at]
      BY <2>0, <2>1, <2>6
    <3>2. ASSUME NEW j \in at + 1 .. k - 1 PROVE ds[j].stored # g.tree
      <4>1. j \in 1 .. k - 1 /\ ~ (j <= at)
        BY <2>0, <3>1
      <4> QED
        BY <2>1, <2>4, <2>6, <4>1
    <3> QED
      BY <2>6, <3>1, <3>2 DEF IsLast
  <2>13. \A p \in 1 .. k - 1 : IsLast(ds, g.tree, k, p) => p = at
    <3> SUFFICES ASSUME NEW p \in 1 .. k - 1, IsLast(ds, g.tree, k, p) PROVE p = at
      OBVIOUS
    <3>1. out[p].stored = g.tree /\ p \in DOMAIN out
      BY <2>1, <2>4 DEF IsLast
    <3>2. p <= at /\ at \in 1 .. k - 1 /\ p \in Nat
      BY <2>0, <2>6, <3>1
    <3>3. CASE p < at
      <4>1. at \in p + 1 .. k - 1
        BY <2>0, <3>2, <3>3
      <4> QED
        BY <2>1, <2>6, <3>2, <4>1 DEF IsLast
    <3> QED
      BY <2>0, <3>2, <3>3
  <2>14. StoredOnce(ds, list[k], instancing, k)
    <3>1. CASE instance
      <4>1. at \in 1 .. k - 1 /\ at # 0 /\ ds[at] = out[at] /\ at \in DOMAIN ds
        BY <1>1, <2>0, <2>1, <2>6, <3>1 DEF instance
      <4>2. ds[k].parent = ds[at].unique /\ ds[k].stored = Nothing /\ instancing /\ ds[at].half = g.half
        BY <2>2, <3>1, <4>1 DEF instance
      <4>3. ds[at].unique # NoParent
        <5>1. PICK o \in Seq(D) : Len(o) = at - 1 /\ ds[at] = Described(list, instancing, o, at)
          BY <1>1, <4>1
        <5>2. at \in DOMAIN list /\ list[at].name \in Range(Alphabet)
          BY <1>1, <4>1 DEF IsSource
        <5>3. DOMAIN o = 1 .. at - 1 /\ at - 1 \in Nat /\ at - 1 < Len(list)
          BY <2>0, <4>1, <5>1, LenProperties
        <5>4. ds[at].unique = UniqueName(list, o, list[at].name)
          BY <5>1, <5>2, DescribedFacts DEF D
        <5>5. Len(list) \in Nat
          BY <1>1
        <5> QED
          BY <5>2, <5>3, <5>4, <5>5, UniqueNameFacts
      <4>4. IsInstance(ds[k])
        BY <4>2, <4>3 DEF IsInstance
      <4> QED
        BY <2>12, <4>1, <4>2, <4>4 DEF StoredOnce, g
    <3>2. CASE ~ instance
      <4>1. ds[k].parent = NoParent /\ ds[k].stored = g.tree
        BY <2>2, <3>2
      <4>2. ASSUME instancing, NEW p \in 1 .. k - 1, IsLast(ds, g.tree, k, p)
            PROVE  ds[p].half # g.half
        <5>1. p = at /\ at # 0 /\ ds[p] = out[at]
          BY <2>1, <2>13, <4>2
        <5> QED
          BY <3>2, <4>2, <5>1 DEF instance
      <4> QED
        BY <4>1, <4>2 DEF StoredOnce, IsInstance, g
    <3> QED
      BY <3>1, <3>2
  <2> QED
    BY <2>8, <2>9, <2>10, <2>11, <2>14
<1>3. ASSUME NEW j \in DOMAIN ds, NEW k \in DOMAIN ds, ds[j].unique = ds[k].unique PROVE j = k
  <2>1. j < k => FALSE
    BY <1>1, <1>2, <1>3
  <2>2. k < j => FALSE
    BY <1>1, <1>2, <1>3
  <2> QED
    BY <1>1, <2>1, <2>2
<1>4. FileOf(ds, list, instancing)
  BY <1>1, <1>2, <1>3 DEF FileOf, D
<1> QED
  BY <1>4 DEF ds

-----------------------------------------------------------------------------
(* What holds of the file and of the File objects in every state.           *)

\* The file has what was written for its list.
DiskInv ==
    /\ writes \in 0 .. MaxWrites
    /\ disk.list \in Lists \union {<<>>}
    /\ disk.instancing \in BOOLEAN /\ disk.offsets \in BOOLEAN
    /\ disk.descriptors = Written(disk.list, disk.instancing)

\* A File has its fields, and a table of descriptors.
FileFields == {"isOpen", "offsets", "instancing", "descriptors", "grids"}

FileType(f) ==
    /\ FileFields \subseteq DOMAIN file[f]
    /\ file[f].isOpen \in BOOLEAN /\ file[f].instancing \in BOOLEAN
    /\ file[f].descriptors \in Seq(Descriptors)

\* A File that is open shows the file, and what its table had before if there are no
\* offsets.
Shows(f) ==
    file[f].isOpen =>
        /\ writes > 0 /\ file[f].offsets = disk.offsets
        /\ Range(disk.descriptors) \subseteq Range(file[f].descriptors)
        /\ file[f].offsets => file[f].descriptors = disk.descriptors
        /\ ~ file[f].offsets =>
              file[f].grids = Connected(ReadAll(disk.descriptors), ByName(file[f].descriptors),
                                        file[f].instancing)

FileInv ==
    /\ file = [f \in Files |-> file[f]]
    /\ \A f \in Files : FileType(f) /\ Shows(f)

LEMMA DescriptorsOfLists ==
    ASSUME NEW list \in Lists, NEW d \in DescriptorsOf(list)
    PROVE  d \in Descriptors
<1>1. {list[i].transform : i \in DOMAIN list} \subseteq {g.transform : g \in UNION {Range(l) : l \in Lists}}
  BY DEF Range
<1>2. {list[i].tree : i \in DOMAIN list} \subseteq {g.tree : g \in UNION {Range(l) : l \in Lists}}
  BY DEF Range
<1> QED
  BY <1>1, <1>2 DEF Descriptors, DescriptorsOf, Uniques

LEMMA WrittenType ==
    ASSUME NEW list \in Lists \union {<<>>}, NEW instancing \in BOOLEAN
    PROVE  Written(list, instancing) \in Seq(Descriptors)
<1> DEFINE ds == Written(list, instancing)
<1>1. /\ ds \in Seq(DescriptorsOf(list)) /\ DOMAIN ds = DOMAIN list
      /\ DOMAIN ds = 1 .. Len(ds) /\ Len(ds) \in Nat /\ Len(ds) = Len(list)
  BY SourceFact, WrittenSteps
<1> HIDE DEF ds
<1>2. \A i \in 1 .. Len(ds) : ds[i] \in Descriptors
  <2>1. CASE list \in Lists
    <3>1. \A i \in 1 .. Len(ds) : ds[i] \in DescriptorsOf(list)
      BY <1>1, ElementOfSeq
    <3> QED
      BY <2>1, <3>1, DescriptorsOfLists
  <2>2. CASE list = <<>>
    BY <1>1, <2>2
  <2> QED
    BY <2>1, <2>2
<1>3. ds = [i \in 1 .. Len(ds) |-> ds[i]]
  BY <1>1, LenProperties
<1>4. ds \in [1 .. Len(ds) -> Descriptors]
  BY <1>2, <1>3
<1>5. ds \in Seq(Descriptors)
  BY <1>1, <1>4, IsASeq
<1> QED
  BY <1>5 DEF ds

LEMMA DiskFile ==
    ASSUME DiskInv
    PROVE  FileOf(disk.descriptors, disk.list, disk.instancing) /\ IsSource(disk.list)
BY SourceFact, WrittenFile DEF DiskInv

LEMMA ConcatRange ==
    ASSUME NEW D, NEW s \in Seq(D), NEW t \in Seq(D)
    PROVE  s \o t \in Seq(D) /\ Range(t) \subseteq Range(s \o t)
<1>1. s \o t \in Seq(D) /\ Len(s \o t) = Len(s) + Len(t)
      /\ \A i \in 1 .. Len(s) + Len(t) : (s \o t)[i] = IF i <= Len(s) THEN s[i] ELSE t[i - Len(s)]
  BY ConcatProperties
<1>2. Len(s) \in Nat /\ Len(t) \in Nat /\ DOMAIN t = 1 .. Len(t) /\ DOMAIN (s \o t) = 1 .. Len(s) + Len(t)
  BY <1>1, LenProperties
<1>3. ASSUME NEW i \in 1 .. Len(t) PROVE \E j \in DOMAIN (s \o t) : (s \o t)[j] = t[i]
  <2>1. Len(s) + i \in 1 .. Len(s) + Len(t) /\ ~ (Len(s) + i <= Len(s)) /\ Len(s) + i - Len(s) = i
    BY <1>2
  <2>2. (s \o t)[Len(s) + i] = t[i]
    BY <1>1, <2>1
  <2> QED
    BY <1>2, <2>1, <2>2
<1> QED
  BY <1>1, <1>2, <1>3 DEF Range

LEMMA Prefix ==
    ASSUME NEW D, NEW s \in Seq(D), NEW n \in 0 .. Len(s)
    PROVE  SubSeq(s, 1, n) \in Seq(D) /\ (n = Len(s) => SubSeq(s, 1, n) = s)
<1>1. Len(s) \in Nat /\ n \in Nat /\ \A i \in 1 .. n : i \in 1 .. Len(s)
  BY LenProperties
<1>2. SubSeq(s, 1, n) \in Seq(D) /\ Len(SubSeq(s, 1, n)) = n
      /\ \A i \in 1 .. n : SubSeq(s, 1, n)[i] = s[i]
  BY <1>1
<1> QED
  BY <1>1, <1>2, SeqEqual

LEMMA ArchiveStart == ArchiveInit => DiskInv /\ FileInv
<1> SUFFICES ASSUME ArchiveInit PROVE DiskInv /\ FileInv
  OBVIOUS
<1>1. Written(<<>>, FALSE) = <<>>
  <2>1. IsSource(<<>>)
    BY SourceFact
  <2>2. DOMAIN Written(<<>>, FALSE) = DOMAIN <<>> /\ Written(<<>>, FALSE) \in Seq(DescriptorsOf(<<>>))
        /\ Len(Written(<<>>, FALSE)) = Len(<<>>)
    BY <2>1, WrittenSteps
  <2> QED
    BY <2>2, EmptySeq
<1>2. DiskInv
  <2>1. MaxWrites \in Nat
    BY ArchiveAssumption
  <2>2. writes \in 0 .. MaxWrites
    BY <2>1 DEF ArchiveInit
  <2>3. /\ disk.list = <<>> /\ disk.instancing = FALSE /\ disk.offsets = TRUE
        /\ disk.descriptors = <<>>
    BY DEF ArchiveInit
  <2> QED
    BY <1>1, <2>2, <2>3 DEF DiskInv
<1>3. ASSUME NEW f \in Files PROVE FileType(f) /\ Shows(f)
  <2>1. PICK instancing \in BOOLEAN : file[f] = NewFile(instancing)
    BY DEF ArchiveInit
  <2> QED
    BY <2>1, EmptySeq DEF NewFile, FileType, FileFields, Shows
<1>4. file = [f \in Files |-> file[f]]
  BY DEF ArchiveInit
<1> QED
  BY <1>2, <1>3, <1>4 DEF FileInv

\* What open() of a file without offsets has read.
LEMMA LoadingType ==
    ASSUME NEW f \in Files, DiskInv, FileType(f), NEW n \in 0 .. Len(disk.descriptors)
    PROVE  LET new == Loading(f, n)
           IN  /\ FileFields \subseteq DOMAIN new
               /\ new.isOpen = file[f].isOpen /\ new.offsets = FALSE
               /\ new.instancing = file[f].instancing
               /\ new.descriptors = file[f].descriptors \o SubSeq(disk.descriptors, 1, n)
               /\ new.grids = ReadAll(SubSeq(disk.descriptors, 1, n))
               /\ new.descriptors \in Seq(Descriptors)
<1>1. disk.descriptors \in Seq(Descriptors)
  BY WrittenType DEF DiskInv
<1>2. SubSeq(disk.descriptors, 1, n) \in Seq(Descriptors)
  BY <1>1, Prefix
<1>3. file[f].descriptors \o SubSeq(disk.descriptors, 1, n) \in Seq(Descriptors)
  BY <1>2, ConcatRange DEF FileType
<1>4. FileFields \subseteq DOMAIN file[f]
  BY DEF FileType
<1>5. LET new == Loading(f, n)
      IN  /\ FileFields \subseteq DOMAIN new
          /\ new.isOpen = file[f].isOpen /\ new.offsets = FALSE
          /\ new.instancing = file[f].instancing
          /\ new.descriptors = file[f].descriptors \o SubSeq(disk.descriptors, 1, n)
          /\ new.grids = ReadAll(SubSeq(disk.descriptors, 1, n))
  BY <1>4 DEF Loading, FileFields
<1> QED
  BY <1>3, <1>5

LEMMA LoadedFacts ==
    ASSUME NEW f \in Files, DiskInv, FileType(f)
    PROVE  LET new == Loaded(f)
           IN  /\ FileFields \subseteq DOMAIN new
               /\ new.isOpen = file[f].isOpen /\ new.offsets = FALSE
               /\ new.instancing = file[f].instancing
               /\ new.grids = ReadAll(disk.descriptors)
               /\ new.descriptors \in Seq(Descriptors)
               /\ Range(disk.descriptors) \subseteq Range(new.descriptors)
<1>1. disk.descriptors \in Seq(Descriptors) /\ Len(disk.descriptors) \in Nat
  BY WrittenType, LenProperties DEF DiskInv
<1>2. SubSeq(disk.descriptors, 1, Len(disk.descriptors)) = disk.descriptors
  BY <1>1, Prefix
<1>3. Len(disk.descriptors) \in 0 .. Len(disk.descriptors)
  BY <1>1
<1>4. Loaded(f) = Loading(f, Len(disk.descriptors))
  BY DEF Loaded
<1>5. file[f].descriptors \in Seq(Descriptors)
  BY DEF FileType
<1>6. Range(disk.descriptors) \subseteq Range(file[f].descriptors \o disk.descriptors)
  BY <1>1, <1>5, ConcatRange
<1> DEFINE new == Loading(f, Len(disk.descriptors))
<1>7. /\ FileFields \subseteq DOMAIN new
      /\ new.isOpen = file[f].isOpen /\ new.offsets = FALSE
      /\ new.instancing = file[f].instancing
      /\ new.descriptors = file[f].descriptors \o disk.descriptors
      /\ new.grids = ReadAll(disk.descriptors)
      /\ new.descriptors \in Seq(Descriptors)
  BY <1>2, <1>3, LoadingType
<1> HIDE DEF new
<1> QED
  BY <1>4, <1>6, <1>7 DEF new

LEMMA StoreStep ==
    ASSUME DiskInv, FileInv, NEW list \in Lists, NEW instancing \in BOOLEAN, NEW offsets \in BOOLEAN,
           Store(list, instancing, offsets)
    PROVE  DiskInv' /\ FileInv'
<1>1. DiskInv'
  <2>1. MaxWrites \in Nat /\ writes \in 0 .. MaxWrites /\ writes < MaxWrites /\ writes' = writes + 1
    BY ArchiveAssumption DEF DiskInv, Store
  <2>2. /\ disk'.list = list /\ disk'.instancing = instancing /\ disk'.offsets = offsets
        /\ disk'.descriptors = Written(list, instancing)
    BY DEF Store
  <2>3. writes' \in 0 .. MaxWrites
    BY <2>1
  <2> QED
    BY <2>2, <2>3 DEF DiskInv
<1>2. ASSUME NEW f \in Files PROVE FileType(f)' /\ Shows(f)'
  BY DEF Store, FileInv, FileType, Shows
<1>3. file' = [f \in Files |-> file'[f]]
  BY DEF Store, FileInv
<1> QED
  BY <1>1, <1>2, <1>3 DEF FileInv

\* One File has changed.
LEMMA OneFile ==
    ASSUME DiskInv, FileInv, NEW f \in Files, NEW new,
           file' = [file EXCEPT ![f] = new], UNCHANGED <<disk, writes>>,
           FileFields \subseteq DOMAIN new,
           new.isOpen \in BOOLEAN, new.instancing \in BOOLEAN,
           new.descriptors \in Seq(Descriptors),
           new.isOpen => /\ writes > 0 /\ new.offsets = disk.offsets
                         /\ Range(disk.descriptors) \subseteq Range(new.descriptors)
                         /\ new.offsets => new.descriptors = disk.descriptors
                         /\ ~ new.offsets =>
                               new.grids = Connected(ReadAll(disk.descriptors),
                                                     ByName(new.descriptors), new.instancing)
    PROVE  DiskInv' /\ FileInv'
<1>1. DiskInv'
  BY DEF DiskInv
<1>2. file' = [g \in Files |-> file'[g]] /\ file'[f] = new /\ \A g \in Files : g # f => file'[g] = file[g]
  BY DEF FileInv
<1>3. FileType(f)'
  BY <1>2 DEF FileType
<1>4. Shows(f)'
  BY <1>2 DEF Shows
<1>5. ASSUME NEW g \in Files, g # f PROVE FileType(g)' /\ Shows(g)'
  BY <1>2, <1>5 DEF FileInv, FileType, Shows
<1> QED
  BY <1>1, <1>2, <1>3, <1>4, <1>5 DEF FileInv

LEMMA ArchiveStep == DiskInv /\ FileInv /\ [ArchiveNext]_archiveVars => DiskInv' /\ FileInv'
<1> SUFFICES ASSUME DiskInv, FileInv, [ArchiveNext]_archiveVars PROVE DiskInv' /\ FileInv'
  OBVIOUS
<1>0. \A f \in Files : /\ FileType(f) /\ Shows(f)
                       /\ disk.descriptors \in Seq(Descriptors) /\ Len(disk.descriptors) \in Nat
  <2>1. disk.descriptors \in Seq(Descriptors)
    BY WrittenType DEF DiskInv
  <2> QED
    BY <2>1, LenProperties DEF FileInv
<1>1. ASSUME NEW f \in Files, NEW list \in Lists, Write(f, list) PROVE DiskInv' /\ FileInv'
  BY <1>0, <1>1, StoreStep DEF Write, FileType
<1>2. ASSUME NEW list \in Lists, NEW instancing \in BOOLEAN, WriteStream(list, instancing)
      PROVE  DiskInv' /\ FileInv'
  BY <1>2, StoreStep DEF WriteStream
<1>3. ASSUME NEW f \in Files, OpenWithOffsets(f) PROVE DiskInv' /\ FileInv'
  <2> DEFINE new == [file[f] EXCEPT !.isOpen = TRUE, !.offsets = TRUE,
                                    !.descriptors = disk.descriptors]
  <2>0. FileFields \subseteq DOMAIN file[f]
    BY <1>0 DEF FileType
  <2>1. file' = [file EXCEPT ![f] = new] /\ UNCHANGED <<disk, writes>>
    BY <1>3 DEF OpenWithOffsets
  <2>2. writes > 0 /\ disk.offsets = TRUE
    BY <1>3 DEF OpenWithOffsets, DiskInv
  <2>3. disk.descriptors \in Seq(Descriptors) /\ file[f].instancing \in BOOLEAN
    BY <1>0 DEF FileType
  <2>4. /\ FileFields \subseteq DOMAIN new
        /\ new.isOpen = TRUE /\ new.offsets = TRUE
        /\ new.instancing = file[f].instancing /\ new.descriptors = disk.descriptors
    BY <2>0 DEF FileFields
  <2> HIDE DEF new
  <2> QED
    BY <2>1, <2>2, <2>3, <2>4, OneFile
<1>4. ASSUME NEW f \in Files, OpenWithoutOffsets(f) PROVE DiskInv' /\ FileInv'
  <2> DEFINE L == Loaded(f)
             new == [L EXCEPT !.isOpen = TRUE,
                              !.grids = Connected(@, ByName(Loaded(f).descriptors), file[f].instancing)]
  <2>1. /\ FileFields \subseteq DOMAIN L
        /\ L.offsets = FALSE /\ L.instancing = file[f].instancing
        /\ L.grids = ReadAll(disk.descriptors)
        /\ L.descriptors \in Seq(Descriptors) /\ Range(disk.descriptors) \subseteq Range(L.descriptors)
    BY <1>0, LoadedFacts
  <2>2. file' = [file EXCEPT ![f] = new] /\ UNCHANGED <<disk, writes>>
    BY <1>4 DEF OpenWithoutOffsets
  <2>3. writes > 0 /\ disk.offsets = FALSE
    BY <1>4 DEF OpenWithoutOffsets, DiskInv
  <2>4. file[f].instancing \in BOOLEAN
    BY <1>0 DEF FileType
  <2> HIDE DEF L
  <2>5. /\ FileFields \subseteq DOMAIN new
        /\ new.isOpen = TRUE /\ new.offsets = FALSE /\ new.instancing = file[f].instancing
        /\ new.descriptors = L.descriptors
        /\ new.grids = Connected(ReadAll(disk.descriptors), ByName(L.descriptors), file[f].instancing)
    BY <2>1 DEF FileFields, L
  <2> HIDE DEF new
  <2> QED
    BY <2>1, <2>2, <2>3, <2>4, <2>5, OneFile
<1>5. ASSUME NEW f \in Files, NEW n \in 0 .. Len(disk.descriptors), OpenThrows(f, n)
      PROVE  DiskInv' /\ FileInv'
  <2> DEFINE new == Loading(f, n)
  <2>1. file' = [file EXCEPT ![f] = new] /\ UNCHANGED <<disk, writes>> /\ ~ file[f].isOpen
    BY <1>5 DEF OpenThrows
  <2>2. /\ FileFields \subseteq DOMAIN new
        /\ new.isOpen = file[f].isOpen /\ new.instancing = file[f].instancing
        /\ new.descriptors \in Seq(Descriptors)
    BY <1>0, LoadingType
  <2>3. file[f].isOpen \in BOOLEAN /\ file[f].instancing \in BOOLEAN
    BY <1>0 DEF FileType
  <2> HIDE DEF new
  <2>4. ~ new.isOpen /\ new.isOpen \in BOOLEAN /\ new.instancing \in BOOLEAN
    BY <2>1, <2>2, <2>3
  <2> QED
    BY <2>1, <2>2, <2>4, OneFile
<1>6. ASSUME NEW f \in Files, Close(f) PROVE DiskInv' /\ FileInv'
  <2> DEFINE new == NewFile(file[f].instancing)
  <2>1. file' = [file EXCEPT ![f] = new] /\ UNCHANGED <<disk, writes>>
    BY <1>6 DEF Close
  <2>2. /\ ~ new.isOpen /\ new.isOpen \in BOOLEAN /\ new.instancing \in BOOLEAN
        /\ new.descriptors \in Seq(Descriptors)
        /\ FileFields \subseteq DOMAIN new
    BY <1>0, EmptySeq DEF FileType, NewFile, FileFields
  <2> HIDE DEF new
  <2> QED
    BY <2>1, <2>2, OneFile
<1>7. ASSUME NEW f \in Files, NEW other \in Files, Assign(f, other) PROVE DiskInv' /\ FileInv'
  <2> DEFINE new == [file[other] EXCEPT !.isOpen = FALSE]
  <2>1. file' = [file EXCEPT ![f] = new] /\ UNCHANGED <<disk, writes>>
    BY <1>7 DEF Assign
  <2>2. /\ ~ new.isOpen /\ new.isOpen \in BOOLEAN /\ new.instancing \in BOOLEAN
        /\ new.descriptors \in Seq(Descriptors)
        /\ FileFields \subseteq DOMAIN new
    BY <1>0 DEF FileType, FileFields
  <2> HIDE DEF new
  <2> QED
    BY <2>1, <2>2, OneFile
<1>8. CASE UNCHANGED archiveVars
  BY <1>8 DEF archiveVars, DiskInv, FileInv, FileType, Shows
<1> QED
  BY <1>1, <1>2, <1>3, <1>4, <1>5, <1>6, <1>7, <1>8 DEF ArchiveNext

LEMMA ArchiveInv == ArchiveSpec => [](DiskInv /\ FileInv)
<1>1. ArchiveInit => DiskInv /\ FileInv
  BY ArchiveStart
<1>2. DiskInv /\ FileInv /\ [ArchiveNext]_archiveVars => (DiskInv /\ FileInv)'
  BY ArchiveStep
<1> QED
  BY <1>1, <1>2, PTL DEF ArchiveSpec

\* The type of the state is invariant: what has no tree in the file is an instance of an
\* earlier grid that has one, and the table of a File that is open has every descriptor
\* of the file (Archive::write, File::open).
THEOREM ArchiveTypeCorrect == ArchiveSpec => []ArchiveTypeOK
<1>1. DiskInv /\ FileInv => ArchiveTypeOK
  <2> SUFFICES ASSUME DiskInv, FileInv PROVE ArchiveTypeOK
    OBVIOUS
  <2> DEFINE ds == disk.descriptors
  <2>1. FileOf(ds, disk.list, disk.instancing) /\ IsSource(disk.list)
    BY DiskFile
  <2>2. ds \in Seq(Descriptors) /\ DOMAIN ds = 1 .. Len(ds) /\ Len(ds) \in Nat
    <3>1. ds \in Seq(Descriptors)
      BY WrittenType DEF DiskInv
    <3> QED
      BY <3>1, LenProperties
  <2>3. \A D : \A s \in Seq(D) : Range(s) \subseteq D
    BY LenProperties, ElementOfSeq DEF Range
  <2>4. ASSUME NEW i \in DOMAIN ds
        PROVE  IF ds[i].stored = Nothing
               THEN \E k \in 1 .. i - 1 : ds[k].unique = ds[i].parent /\ ds[k].stored # Nothing
               ELSE ~ IsInstance(ds[i])
    <3> DEFINE g == disk.list[i]
    <3>1. g.tree # Nothing /\ StoredOnce(ds, g, disk.instancing, i)
      BY <2>1 DEF FileOf, IsSource
    <3> HIDE DEF g, ds
    <3> QED
      BY <3>1 DEF StoredOnce, IsLast
  <2>5. ASSUME NEW f \in Files
        PROVE  /\ Range(file[f].descriptors) \subseteq Descriptors
               /\ file[f].isOpen => /\ writes > 0
                                    /\ file[f].offsets = disk.offsets
                                    /\ Range(ds) \subseteq Range(file[f].descriptors)
    <3>1. FileType(f) /\ Shows(f)
      BY DEF FileInv
    <3> QED
      BY <2>3, <3>1 DEF FileType, Shows
  <2>6. Range(ds) \subseteq Descriptors /\ writes \in 0 .. MaxWrites
    BY <2>2, <2>3 DEF DiskInv
  <2> QED
    BY <2>4, <2>5, <2>6 DEF ArchiveTypeOK
<1> QED
  BY <1>1, ArchiveInv, PTL

-----------------------------------------------------------------------------
(* Reading.                                                                 *)

\* The position of the parent of an instance, in a sequence of descriptors.
ParentAt(D, i) == CHOOSE p \in DOMAIN D : D[p].unique = D[i].parent

\* What a grid is once the instances are connected, also if only some are.
Linked(D, i, instancing) ==
    IF IsInstance(D[i])
    THEN WithTreeOf(ReadFrom(D[i], Whole), ReadFrom(D[ParentAt(D, i)], Whole), instancing)
    ELSE ReadFrom(D[i], Whole)

LinkedUpTo(D, T, n, instancing) ==
    [i \in DOMAIN D |-> IF \E k \in 1 .. n : T[k] = D[i] THEN Linked(D, i, instancing)
                        ELSE ReadFrom(D[i], Whole)]

\* Descriptors that tell each other's unique names, with the parents of the instances.
Closed(D) ==
    /\ Len(D) \in Nat /\ DOMAIN D = 1 .. Len(D)
    /\ \A i, j \in DOMAIN D : D[i].unique = D[j].unique => i = j
    /\ \A i \in DOMAIN D : IsInstance(D[i]) =>
          \E p \in DOMAIN D : D[p].unique = D[i].parent /\ ~ IsInstance(D[p])

\* Some of these descriptors, some perhaps several times, with all that are instances.
Links(T, D) ==
    /\ Len(T) \in Nat /\ DOMAIN T = 1 .. Len(T)
    /\ \A k \in DOMAIN T : \E i \in DOMAIN D : T[k] = D[i]
    /\ \A i \in DOMAIN D : IsInstance(D[i]) => \E k \in DOMAIN T : T[k] = D[i]

LEMMA NamedFacts ==
    ASSUME NEW G, Len(G) \in Nat, NEW u, NEW p \in 1 .. Len(G), G[p].unique = u,
           \A i \in 1 .. Len(G) : G[i].unique = u => i = p
    PROVE  Named(G, u) = p
<1> DEFINE I == {i \in 1 .. Len(G) : G[i].unique = u}
<1>1. Named(G, u) = IF I # {} THEN Max(I) ELSE 0
  BY DEF Named, SelectLastInSeq
<1>2. I = {p}
  OBVIOUS
<1> HIDE DEF I
<1>3. Max(I) = p
  <2>1. \A x \in {p} : x >= p
    OBVIOUS
  <2>2. Max({p}) = CHOOSE x \in {p} : \A y \in {p} : x >= y
    BY DEF Max
  <2> QED
    BY <1>2, <2>1, <2>2
<1> QED
  BY <1>1, <1>2, <1>3

LEMMA ParentAtFacts ==
    ASSUME NEW D, Closed(D), NEW i \in DOMAIN D, IsInstance(D[i])
    PROVE  /\ ParentAt(D, i) \in DOMAIN D /\ D[ParentAt(D, i)].unique = D[i].parent
           /\ ~ IsInstance(D[ParentAt(D, i)])
           /\ \A p \in DOMAIN D : D[p].unique = D[i].parent => p = ParentAt(D, i)
BY DEF ParentAt, Closed

\* Length of a function on 1 .. n.
LEMMA LenOf ==
    ASSUME NEW n \in Nat, NEW s, s = [i \in 1 .. n |-> s[i]]
    PROVE  Len(s) = n /\ s \in Seq(Range(s))
<1>1. \A i \in 1 .. n : s[i] \in Range(s)
  BY DEF Range
<1>2. s \in [1 .. n -> Range(s)]
  BY <1>1
<1>3. s \in Seq(Range(s))
  BY <1>2
<1> QED
  BY <1>2, <1>3

\* The fields of a grid that was read.
GridFields == {"id", "unique", "transform", "owner", "content"}

LEMMA ReadFields ==
    ASSUME NEW d, NEW region
    PROVE  LET g == ReadFrom(d, region)
           IN  /\ g.id = d.id /\ g.unique = d.unique /\ g.transform = d.transform /\ g.owner = d.unique
               /\ g.content = [tree |-> d.stored, half |-> d.half, region |-> region]
               /\ GridFields \subseteq DOMAIN g
BY DEF ReadFrom, GridFields

\* The fields that connecting leaves, and those that it changes.
LEMMA TreeFields ==
    ASSUME NEW grid, NEW parent, NEW instancing,
           GridFields \subseteq DOMAIN grid
    PROVE  LET g == WithTreeOf(grid, parent, instancing)
           IN  /\ g.id = grid.id /\ g.unique = grid.unique /\ g.transform = grid.transform
               /\ g.owner = IF instancing THEN parent.owner ELSE grid.owner
               /\ g.content = parent.content
               /\ GridFields \subseteq DOMAIN g
BY DEF WithTreeOf, GridFields

\* Connecting twice is connecting once.
LEMMA TreeTwice ==
    ASSUME NEW grid, NEW parent, NEW instancing,
           GridFields \subseteq DOMAIN grid
    PROVE  WithTreeOf(WithTreeOf(grid, parent, instancing), parent, instancing)
              = WithTreeOf(grid, parent, instancing)
<1> DEFINE once == WithTreeOf(grid, parent, instancing)
           twice == WithTreeOf(once, parent, instancing)
<1>1. /\ once = [k \in DOMAIN grid |-> once[k]] /\ twice = [k \in DOMAIN grid |-> twice[k]]
      /\ "content" \in DOMAIN grid /\ "owner" \in DOMAIN grid
  BY DEF WithTreeOf, GridFields
<1>2. /\ once.content = parent.content /\ twice.content = parent.content
      /\ once.owner = IF instancing THEN parent.owner ELSE grid.owner
      /\ twice.owner = IF instancing THEN parent.owner ELSE once.owner
      /\ \A k \in DOMAIN grid : k \notin {"content", "owner"} => twice[k] = once[k]
  BY <1>1 DEF WithTreeOf
<1> HIDE DEF once, twice
<1>3. \A k \in DOMAIN grid : twice[k] = once[k]
  BY <1>2
<1>4. twice = once
  BY <1>1, <1>3
<1> QED
  BY <1>4 DEF once, twice

LEMMA ConnectOne ==
    ASSUME NEW D, Closed(D), NEW T, Links(T, D), NEW instancing \in BOOLEAN, NEW n \in 1 .. Len(T)
    PROVE  ConnectInstance(LinkedUpTo(D, T, n - 1, instancing), T[n], instancing)
              = LinkedUpTo(D, T, n, instancing)
<1> DEFINE G == LinkedUpTo(D, T, n - 1, instancing)
           H == LinkedUpTo(D, T, n, instancing)
<1>1. /\ G = [i \in DOMAIN D |-> G[i]] /\ H = [i \in DOMAIN D |-> H[i]]
      /\ \A i \in DOMAIN D : /\ G[i] = IF \E k \in 1 .. n - 1 : T[k] = D[i] THEN Linked(D, i, instancing)
                                       ELSE ReadFrom(D[i], Whole)
                             /\ H[i] = IF \E k \in 1 .. n : T[k] = D[i] THEN Linked(D, i, instancing)
                                       ELSE ReadFrom(D[i], Whole)
  BY DEF LinkedUpTo
<1>2. /\ Len(D) \in Nat /\ DOMAIN D = 1 .. Len(D)
      /\ \A i, j \in DOMAIN D : D[i].unique = D[j].unique => i = j
      /\ Len(T) \in Nat /\ DOMAIN T = 1 .. Len(T)
  BY DEF Closed, Links
<1>3. PICK g \in DOMAIN D : T[n] = D[g]
  BY <1>2 DEF Links
<1>4. ASSUME NEW i \in DOMAIN D
      PROVE  Linked(D, i, instancing).unique = D[i].unique /\ ReadFrom(D[i], Whole).unique = D[i].unique
  <2>1. ReadFrom(D[i], Whole).unique = D[i].unique
    BY ReadFields
  <2>2. WithTreeOf(ReadFrom(D[i], Whole), ReadFrom(D[ParentAt(D, i)], Whole), instancing).unique = D[i].unique
    <3> DEFINE grid == ReadFrom(D[i], Whole)
               parent == ReadFrom(D[ParentAt(D, i)], Whole)
    <3>1. GridFields \subseteq DOMAIN grid
          /\ grid.unique = D[i].unique
      BY ReadFields
    <3> HIDE DEF grid, parent
    <3>2. WithTreeOf(grid, parent, instancing).unique = grid.unique
      BY <3>1, TreeFields
    <3> QED
      BY <3>1, <3>2 DEF grid, parent
  <2>3. \/ Linked(D, i, instancing) = ReadFrom(D[i], Whole)
        \/ Linked(D, i, instancing) =
              WithTreeOf(ReadFrom(D[i], Whole), ReadFrom(D[ParentAt(D, i)], Whole), instancing)
    BY DEF Linked
  <2> QED
    BY <2>1, <2>2, <2>3
<1>5. Len(G) = Len(D)
  BY <1>1, <1>2, LenOf
<1>6. \A i \in DOMAIN D : G[i].unique = D[i].unique
  BY <1>1, <1>4
<1>7. Named(G, T[n].unique) = g
  <2> DEFINE u == T[n].unique
  <2> HIDE DEF G
  <2>1. \A i \in 1 .. Len(G) : G[i].unique = u => i = g
    BY <1>2, <1>3, <1>5, <1>6
  <2>2. g \in 1 .. Len(G) /\ G[g].unique = u
    BY <1>2, <1>3, <1>5, <1>6
  <2> HIDE DEF u
  <2>3. Named(G, u) = g
    BY <1>2, <1>5, <2>1, <2>2, NamedFacts
  <2> QED
    BY <2>3 DEF u
<1>8. n \in DOMAIN T /\ \A k \in 1 .. n - 1 : k \in DOMAIN T /\ k # n /\ k \in 1 .. n
  BY <1>2
<1>9. \A k \in 1 .. n : k = n \/ k \in 1 .. n - 1
  BY <1>2
<1>10. ASSUME NEW i \in DOMAIN D, i # g PROVE H[i] = G[i]
  <2>1. D[i] # D[g]
    BY <1>2, <1>10
  <2>2. (\E k \in 1 .. n : T[k] = D[i]) <=> (\E k \in 1 .. n - 1 : T[k] = D[i])
    BY <1>3, <1>8, <1>9, <2>1
  <2> HIDE DEF G, H
  <2> QED
    BY <1>1, <2>2
<1>11. /\ H[g] = Linked(D, g, instancing)
       /\ G[g] = ReadFrom(D[g], Whole) \/ G[g] = Linked(D, g, instancing)
  <2>1. \E k \in 1 .. n : T[k] = D[g]
    BY <1>2, <1>3
  <2> HIDE DEF G, H
  <2> QED
    BY <1>1, <2>1
<1>12. g # 0
  BY <1>2
<1> DEFINE C == ConnectInstance(G, T[n], instancing)
<1>13. CASE IsInstance(T[n])
  <2> DEFINE p == ParentAt(D, g)
  <2>1. p \in DOMAIN D /\ D[p].unique = T[n].parent /\ ~ IsInstance(D[p])
    BY <1>3, <1>13, ParentAtFacts
  <2> HIDE DEF p, G, H
  <2>2. Named(G, T[n].parent) = p
    <3>1. \A i \in 1 .. Len(G) : G[i].unique = T[n].parent => i = p
      BY <1>2, <1>5, <1>6, <2>1
    <3>2. p \in 1 .. Len(G) /\ G[p].unique = T[n].parent
      BY <1>2, <1>5, <1>6, <2>1
    <3> QED
      BY <1>2, <1>5, <3>1, <3>2, NamedFacts
  <2>3. G[p] = ReadFrom(D[p], Whole)
    BY <1>1, <2>1 DEF Linked
  <2>4. C = [G EXCEPT ![g] = WithTreeOf(G[g], G[p], instancing)]
    BY <1>7, <1>12, <1>13, <2>2 DEF ConnectInstance
  <2>5. WithTreeOf(G[g], G[p], instancing) = H[g]
    <3> DEFINE own == ReadFrom(D[g], Whole)
               tree == ReadFrom(D[p], Whole)
    <3>1. Linked(D, g, instancing) = WithTreeOf(own, tree, instancing)
      BY <1>3, <1>13 DEF Linked, p
    <3>2. GridFields \subseteq DOMAIN own
      BY ReadFields
    <3> HIDE DEF own, tree
    <3>3. WithTreeOf(WithTreeOf(own, tree, instancing), tree, instancing) = WithTreeOf(own, tree, instancing)
      BY <3>2, TreeTwice
    <3>4. G[p] = tree /\ (G[g] = own \/ G[g] = Linked(D, g, instancing)) /\ H[g] = Linked(D, g, instancing)
      BY <1>11, <2>3 DEF own, tree
    <3> QED
      BY <3>1, <3>3, <3>4
  <2>6. C = [G EXCEPT ![g] = H[g]]
    BY <2>4, <2>5
  <2> HIDE DEF C
  <2>7. \A i \in DOMAIN D : C[i] = H[i]
    BY <1>1, <1>10, <2>6
  <2>8. C = [i \in DOMAIN D |-> C[i]]
    BY <1>1, <2>6
  <2>9. C = [i \in DOMAIN D |-> H[i]]
    BY <2>7, <2>8
  <2> QED
    BY <1>1, <2>9 DEF C, G, H
<1>14. CASE ~ IsInstance(T[n])
  <2>1. C = G
    BY <1>14 DEF ConnectInstance
  <2>2. H[g] = G[g]
    BY <1>3, <1>11, <1>14 DEF Linked
  <2> HIDE DEF G, H, C
  <2>3. \A i \in DOMAIN D : H[i] = G[i]
    BY <1>10, <2>2
  <2>4. [i \in DOMAIN D |-> H[i]] = [i \in DOMAIN D |-> G[i]]
    BY <2>3
  <2> QED
    BY <1>1, <2>1, <2>4 DEF C, G, H
<1> QED
  BY <1>13, <1>14

LEMMA ConnectedFacts ==
    ASSUME NEW D, Closed(D), NEW T, Links(T, D), NEW instancing \in BOOLEAN
    PROVE  Connected(ReadAll(D), T, instancing) = [i \in DOMAIN D |-> Linked(D, i, instancing)]
<1> DEFINE Up(n) == LinkedUpTo(D, T, n, instancing)
           Is(a) == a = [n \in 0 .. Len(T) |->
                            IF n = 0 THEN ReadAll(D) ELSE ConnectInstance(a[n - 1], T[n], instancing)]
           after == CHOOSE a : Is(a)
<1>1. Len(T) \in Nat /\ \A n \in 1 .. Len(T) : n - 1 \in 0 .. Len(T)
  BY DEF Links
<1>2. Up(0) = ReadAll(D)
  <2>1. \A i \in DOMAIN D : ~ \E k \in 1 .. 0 : T[k] = D[i]
    OBVIOUS
  <2> QED
    BY <2>1 DEF LinkedUpTo, ReadAll
<1>3. \A n \in 1 .. Len(T) : ConnectInstance(Up(n - 1), T[n], instancing) = Up(n)
  BY ConnectOne
<1>4. Is([n \in 0 .. Len(T) |-> Up(n)])
  <2> DEFINE a == [n \in 0 .. Len(T) |-> Up(n)]
             b == [n \in 0 .. Len(T) |-> IF n = 0 THEN ReadAll(D) ELSE ConnectInstance(a[n - 1], T[n], instancing)]
  <2>1. \A n \in 0 .. Len(T) : a[n] = Up(n)
    OBVIOUS
  <2> HIDE DEF Up, a
  <2>2. ASSUME NEW n \in 0 .. Len(T) PROVE b[n] = Up(n)
    <3>1. CASE n = 0
      BY <1>2, <3>1
    <3>2. CASE n # 0
      <4>1. n \in 1 .. Len(T) /\ a[n - 1] = Up(n - 1)
        BY <1>1, <2>1, <3>2
      <4> QED
        BY <1>3, <3>2, <4>1
    <3> QED
      BY <3>1, <3>2
  <2> HIDE DEF b
  <2>3. b = [n \in 0 .. Len(T) |-> b[n]] /\ a = [n \in 0 .. Len(T) |-> a[n]]
    BY DEF a, b
  <2>4. a = b
    BY <2>1, <2>2, <2>3
  <2> QED
    BY <2>4 DEF a, b
<1>5. Is(after)
  BY <1>4
<1>6. Connected(ReadAll(D), T, instancing) = after[Len(T)]
  BY DEF Connected
<1> DEFINE S == {n \in 0 .. Len(T) : after[n] = Up(n)}
<1>7. /\ after[0] = ReadAll(D)
      /\ \A n \in 1 .. Len(T) : after[n] = ConnectInstance(after[n - 1], T[n], instancing)
  <2> HIDE DEF after
  <2>1. \A n \in 0 .. Len(T) :
           after[n] = IF n = 0 THEN ReadAll(D) ELSE ConnectInstance(after[n - 1], T[n], instancing)
    BY <1>5
  <2> QED
    BY <1>1, <2>1
<1> HIDE DEF after, Up
<1>8. 0 \in S /\ \A n \in 1 .. Len(T) : n - 1 \in S => n \in S
  BY <1>1, <1>2, <1>3, <1>7
<1>9. Len(T) \in S
  <2> HIDE DEF S
  <2>1. \A n \in 0 .. Len(T) : n \in S
    BY <1>1, <1>8, Climb
  <2> QED
    BY <1>1, <2>1
<1>10. Up(Len(T)) = [i \in DOMAIN D |-> Linked(D, i, instancing)]
  <2>1. ASSUME NEW i \in DOMAIN D
        PROVE  (IF \E k \in 1 .. Len(T) : T[k] = D[i] THEN Linked(D, i, instancing)
                ELSE ReadFrom(D[i], Whole)) = Linked(D, i, instancing)
    BY DEF Links, Linked
  <2> QED
    BY <2>1 DEF Up, LinkedUpTo
<1> QED
  BY <1>6, <1>9, <1>10

\* A table by name has the descriptors of the file in another order.
LEMMA ByNameFacts ==
    ASSUME NEW ds, Len(ds) \in Nat, DOMAIN ds = 1 .. Len(ds)
    PROVE  /\ Len(ByName(ds)) = Len(ds) /\ DOMAIN ByName(ds) = DOMAIN ds
           /\ \A n \in DOMAIN ds : \E i \in DOMAIN ds : ByName(ds)[n] = ds[i]
           /\ \A i \in DOMAIN ds : \E n \in DOMAIN ds : ByName(ds)[n] = ds[i]
           /\ (\A i, j \in DOMAIN ds : ds[i] = ds[j] => i = j) =>
                 \A m, n \in DOMAIN ds : ByName(ds)[m] = ByName(ds)[n] => m = n
<1> DEFINE I == DOMAIN ds
           Rank(i) == SelectInSeq(Alphabet, LAMBDA name : name = StripSuffix(ds[i].unique))
           UpTo(i) == {j \in I : Rank(j) < Rank(i) \/ (Rank(j) = Rank(i) /\ j <= i)}
           At(n) == CHOOSE i \in I : Cardinality(UpTo(i)) = n
           t == ByName(ds)
<1>1. t = [n \in I |-> ds[At(n)]]
  BY DEF ByName
<1>2. \A i \in I : Rank(i) \in Nat
  <2> SUFFICES ASSUME NEW i \in I PROVE Rank(i) \in Nat
    OBVIOUS
  <2> DEFINE J == {j \in 1 .. Len(Alphabet) : Alphabet[j] = StripSuffix(ds[i].unique)}
  <2>1. Rank(i) = IF J # {} THEN Min(J) ELSE 0
    BY DEF SelectInSeq
  <2>2. J \in SUBSET Nat
    OBVIOUS
  <2> HIDE DEF J
  <2>3. J # {} => Min(J) \in Nat
    BY <2>2, MinFact
  <2> QED
    BY <2>1, <2>3
<1>3. IsFiniteSet(I) /\ Cardinality(I) = Len(ds) /\ I = 1 .. Len(ds)
  <2> DEFINE N == Len(ds)
  <2>1. N \in Nat /\ I = 1 .. N
    OBVIOUS
  <2> HIDE DEF N
  <2>2. IsFiniteSet(1 .. N) /\ Cardinality(1 .. N) = N
    BY <2>1, FS_Interval
  <2> QED
    BY <2>1, <2>2 DEF N
<1> HIDE DEF Rank
<1> DEFINE up == [i \in I |-> UpTo(i)]
<1>4. \A i \in I : up[i] = UpTo(i)
  OBVIOUS
<1>6. \A i, j \in I : j \in up[i] <=> Rank(j) < Rank(i) \/ (Rank(j) = Rank(i) /\ j <= i)
  OBVIOUS
<1>5. \A i \in I : up[i] \subseteq I /\ i \in up[i]
  <2>1. \A i \in I : up[i] \subseteq I
    OBVIOUS
  <2> HIDE DEF up, UpTo
  <2>2. \A i \in I : i \in up[i]
    BY <1>3, <1>6
  <2> QED
    BY <2>1, <2>2
<1> HIDE DEF up, UpTo
<1>7. ASSUME NEW i \in I, NEW j \in I
      PROVE  \/ i = j
             \/ up[i] \subseteq up[j] /\ j \notin up[i]
             \/ up[j] \subseteq up[i] /\ i \notin up[j]
  <2>1. ASSUME NEW a \in I, NEW b \in I, Rank(a) < Rank(b) \/ (Rank(a) = Rank(b) /\ a < b)
        PROVE  up[a] \subseteq up[b] /\ b \notin up[a]
    <3>0. Rank(a) \in Nat /\ Rank(b) \in Nat /\ a \in Nat /\ b \in Nat
      BY <1>2, <1>3
    <3>1. b \notin up[a]
      BY <1>6, <2>1, <3>0
    <3>2. ASSUME NEW c \in up[a] PROVE c \in up[b]
      <4>1. c \in I /\ c \in Nat /\ Rank(c) \in Nat
        BY <1>2, <1>3, <1>5
      <4>2. Rank(c) < Rank(a) \/ (Rank(c) = Rank(a) /\ c <= a)
        BY <1>6, <4>1
      <4>3. Rank(c) < Rank(b) \/ (Rank(c) = Rank(b) /\ c <= b)
        BY <2>1, <3>0, <4>1, <4>2
      <4> QED
        BY <1>6, <4>1, <4>3
    <3> QED
      BY <3>1, <3>2
  <2>2. Rank(i) \in Nat /\ Rank(j) \in Nat /\ i \in Nat /\ j \in Nat
    BY <1>2, <1>3
  <2>3. \/ i = j
        \/ Rank(i) < Rank(j) \/ (Rank(i) = Rank(j) /\ i < j)
        \/ Rank(j) < Rank(i) \/ (Rank(j) = Rank(i) /\ j < i)
    BY <2>2
  <2> QED
    BY <2>1, <2>3
<1>8. /\ \A i \in I : Cardinality(up[i]) \in 1 .. Len(ds)
      /\ \A i, j \in I : Cardinality(up[i]) = Cardinality(up[j]) => i = j
      /\ \A n \in 1 .. Len(ds) : \E i \in I : Cardinality(up[i]) = n
  <2>0. \A i, j \in I : \/ i = j
                        \/ up[i] \subseteq up[j] /\ j \notin up[i]
                        \/ up[j] \subseteq up[i] /\ i \notin up[j]
    BY <1>7
  <2>2. IsFiniteSet(I)
    BY <1>3
  <2> HIDE DEF I
  <2>1. /\ \A i \in I : Cardinality(up[i]) \in 1 .. Cardinality(I)
        /\ \A i, j \in I : Cardinality(up[i]) = Cardinality(up[j]) => i = j
        /\ \A n \in 1 .. Cardinality(I) : \E i \in I : Cardinality(up[i]) = n
    BY <1>5, <2>0, <2>2, Counted
  <2> QED
    BY <1>3, <2>1
<1>9. \A n \in I : At(n) \in I /\ Cardinality(up[At(n)]) = n
  <2> SUFFICES ASSUME NEW n \in I PROVE At(n) \in I /\ Cardinality(up[At(n)]) = n
    OBVIOUS
  <2>1. \E i \in I : Cardinality(UpTo(i)) = n
    <3>1. PICK i \in I : Cardinality(up[i]) = n
      BY <1>3, <1>8
    <3>2. Cardinality(UpTo(i)) = n
      BY <1>4, <3>1
    <3> WITNESS i \in I
    <3> QED
      BY <3>2
  <2>2. At(n) \in I /\ Cardinality(UpTo(At(n))) = n
    BY <2>1
  <2> HIDE DEF At
  <2> QED
    BY <1>4, <2>2
<1> HIDE DEF At, t
<1>10. \A i \in I : \E n \in I : At(n) = i
  BY <1>3, <1>8, <1>9
<1>11. \A m, n \in I : At(m) = At(n) => m = n
  BY <1>9
<1>12. DOMAIN t = I /\ \A n \in I : t[n] = ds[At(n)]
  BY <1>1
<1>13. Len(t) = Len(ds)
  <2>1. t = [n \in 1 .. Len(ds) |-> t[n]]
    BY <1>1, <1>3
  <2> QED
    BY <2>1, LenOf
<1>14. /\ Len(t) = Len(ds) /\ DOMAIN t = I
       /\ \A n \in I : \E i \in I : t[n] = ds[i]
       /\ \A i \in I : \E n \in I : t[n] = ds[i]
       /\ (\A i, j \in I : ds[i] = ds[j] => i = j) => \A m, n \in I : t[m] = t[n] => m = n
  BY <1>9, <1>10, <1>11, <1>12, <1>13
<1> QED
  BY <1>14 DEF t

\* The parent of an instance is where its tree was last written.
LEMMA FileParents ==
    ASSUME NEW list, IsSource(list), NEW instancing, NEW ds, FileOf(ds, list, instancing)
    PROVE  /\ Closed(ds)
           /\ \A k \in DOMAIN ds : IsInstance(ds[k]) =>
                 LET p == ParentAt(ds, k)
                 IN  /\ p \in DOMAIN ds /\ IsLast(ds, list[k].tree, k, p)
                     /\ ds[p].unique = ds[k].parent /\ ds[p].half = list[k].half
                     /\ ds[p].stored = list[k].tree /\ ~ IsInstance(ds[p])
           /\ \A k \in DOMAIN ds : ~ IsInstance(ds[k]) <=> ds[k].stored # Nothing
<1>1. /\ Len(ds) \in Nat /\ DOMAIN ds = 1 .. Len(ds) /\ DOMAIN ds = DOMAIN list
      /\ \A i, j \in DOMAIN ds : ds[i].unique = ds[j].unique => i = j
      /\ \A k \in DOMAIN ds : StoredOnce(ds, list[k], instancing, k) /\ list[k].tree # Nothing
  BY DEF FileOf, IsSource
<1>2. \A k \in DOMAIN ds : ~ IsInstance(ds[k]) <=> ds[k].stored # Nothing
  BY <1>1 DEF StoredOnce
<1>3. ASSUME NEW k \in DOMAIN ds, IsInstance(ds[k])
      PROVE  \E p \in DOMAIN ds : /\ IsLast(ds, list[k].tree, k, p)
                                  /\ ds[p].unique = ds[k].parent /\ ds[p].half = list[k].half
                                  /\ ds[p].stored = list[k].tree /\ ~ IsInstance(ds[p])
  <2>1. PICK p \in 1 .. k - 1 : /\ IsLast(ds, list[k].tree, k, p)
                                /\ ds[p].unique = ds[k].parent /\ ds[p].half = list[k].half
    BY <1>1, <1>3 DEF StoredOnce
  <2>2. p \in DOMAIN ds
    BY <1>1
  <2>3. ds[p].stored = list[k].tree
    BY <2>1 DEF IsLast
  <2> QED
    BY <1>1, <1>2, <2>1, <2>2, <2>3
<1>4. Closed(ds)
  BY <1>1, <1>3 DEF Closed
<1>5. ASSUME NEW k \in DOMAIN ds, IsInstance(ds[k])
      PROVE  LET p == ParentAt(ds, k)
             IN  /\ p \in DOMAIN ds /\ IsLast(ds, list[k].tree, k, p)
                 /\ ds[p].unique = ds[k].parent /\ ds[p].half = list[k].half
                 /\ ds[p].stored = list[k].tree /\ ~ IsInstance(ds[p])
  <2>1. PICK p \in DOMAIN ds : /\ IsLast(ds, list[k].tree, k, p)
                               /\ ds[p].unique = ds[k].parent /\ ds[p].half = list[k].half
                               /\ ds[p].stored = list[k].tree /\ ~ IsInstance(ds[p])
    BY <1>3, <1>5
  <2>2. p = ParentAt(ds, k)
    BY <1>4, <1>5, <2>1, ParentAtFacts
  <2> QED
    BY <2>1, <2>2
<1> QED
  BY <1>2, <1>4, <1>5

\* A sequence of descriptors of the file.
FromFile(D, ds) ==
    Closed(D) /\ \A i \in DOMAIN D : D[i].id \in DOMAIN ds /\ D[i] = ds[D[i].id]

Root(ds, k) == IF IsInstance(ds[k]) THEN ParentAt(ds, k) ELSE k

\* A grid is the same, whichever grids it is read with.
LEMMA LinkedSame ==
    ASSUME NEW ds, Closed(ds), NEW D, FromFile(D, ds), NEW i \in DOMAIN D, NEW instancing
    PROVE  Linked(D, i, instancing) = Linked(ds, D[i].id, instancing)
<1> DEFINE k == D[i].id
<1>1. k \in DOMAIN ds /\ D[i] = ds[k] /\ Closed(D)
  BY DEF FromFile
<1>2. CASE IsInstance(D[i])
  <2> DEFINE p == ParentAt(D, i)
             q == ParentAt(ds, k)
  <2> HIDE DEF k
  <2>1. p \in DOMAIN D /\ D[p].unique = D[i].parent
    BY <1>1, <1>2, ParentAtFacts
  <2>2. D[p].id \in DOMAIN ds /\ D[p] = ds[D[p].id]
    BY <2>1 DEF FromFile
  <2> HIDE DEF p
  <2>3. D[p].id = q
    BY <1>1, <1>2, <2>1, <2>2, ParentAtFacts
  <2>4. D[p] = ds[q]
    BY <2>2, <2>3
  <2> QED
    BY <1>1, <1>2, <2>4 DEF Linked, p, k
<1>3. CASE ~ IsInstance(D[i])
  BY <1>1, <1>3 DEF Linked
<1> QED
  BY <1>2, <1>3

\* A grid that was read: its fields come from what was written.
LEMMA GridFacts ==
    ASSUME NEW list, IsSource(list), NEW writer, NEW ds, FileOf(ds, list, writer),
           NEW k \in DOMAIN ds, NEW reader \in BOOLEAN
    PROVE  LET L == Linked(ds, k, reader)
           IN  /\ GridFields \subseteq DOMAIN L
               /\ L.id = k /\ L.unique = ds[k].unique /\ L.transform = list[k].transform
               /\ L.content = [tree |-> list[k].tree, half |-> list[k].half, region |-> Whole]
               /\ L.owner = IF reader THEN ds[Root(ds, k)].unique ELSE ds[k].unique
<1> DEFINE g == list[k]
           p == ParentAt(ds, k)
           A == ReadFrom(ds[k], Whole)
           B == ReadFrom(ds[p], Whole)
           L == Linked(ds, k, reader)
<1>1. /\ ds[k].id = k /\ ds[k].half = g.half /\ ds[k].transform = g.transform
      /\ StoredOnce(ds, g, writer, k)
  BY DEF FileOf, Describes
<1>2. /\ A.id = ds[k].id /\ A.unique = ds[k].unique /\ A.transform = ds[k].transform
      /\ A.owner = ds[k].unique
      /\ A.content = [tree |-> ds[k].stored, half |-> ds[k].half, region |-> Whole]
      /\ GridFields \subseteq DOMAIN A
  BY ReadFields
<1>3. /\ B.owner = ds[p].unique
      /\ B.content = [tree |-> ds[p].stored, half |-> ds[p].half, region |-> Whole]
  BY ReadFields
<1>4. CASE IsInstance(ds[k])
  <2>1. ds[p].stored = g.tree /\ ds[p].half = g.half
    BY <1>4, FileParents
  <2>2. L = WithTreeOf(A, B, reader)
    BY <1>4 DEF Linked
  <2>3. Root(ds, k) = p
    BY <1>4 DEF Root
  <2> HIDE DEF A, B, L, p, g
  <2>4. /\ L.id = A.id /\ L.unique = A.unique /\ L.transform = A.transform
        /\ L.owner = IF reader THEN B.owner ELSE A.owner
        /\ L.content = B.content
        /\ GridFields \subseteq DOMAIN L
    BY <1>2, <2>2, TreeFields
  <2>5. /\ L.id = k /\ L.unique = ds[k].unique /\ L.transform = g.transform
        /\ L.content = [tree |-> g.tree, half |-> g.half, region |-> Whole]
        /\ L.owner = IF reader THEN ds[Root(ds, k)].unique ELSE ds[k].unique
    BY <1>1, <1>2, <1>3, <2>1, <2>3, <2>4
  <2> QED
    BY <2>4, <2>5 DEF L, g
<1>5. CASE ~ IsInstance(ds[k])
  <2>1. L = A /\ Root(ds, k) = k /\ ds[k].stored = g.tree
    BY <1>1, <1>5 DEF Linked, Root, StoredOnce
  <2> HIDE DEF A, B, L, p, g
  <2>2. /\ L.id = k /\ L.unique = ds[k].unique /\ L.transform = g.transform
        /\ L.content = [tree |-> g.tree, half |-> g.half, region |-> Whole]
        /\ L.owner = ds[k].unique /\ ds[Root(ds, k)].unique = ds[k].unique
        /\ GridFields \subseteq DOMAIN L
    BY <1>1, <1>2, <2>1
  <2> QED
    BY <2>2 DEF L, g
<1> QED
  BY <1>4, <1>5

\* Grids have one root exactly if they are the same or had one tree and one precision.
LEMMA RootBefore ==
    ASSUME NEW list, IsSource(list), NEW writer, NEW ds, FileOf(ds, list, writer),
           NEW j \in DOMAIN ds, NEW k \in DOMAIN ds, j < k
    PROVE  Root(ds, j) = Root(ds, k) <=>
              /\ writer
              /\ list[j].tree = list[k].tree
              /\ \A m \in j .. k : list[m].tree = list[j].tree => list[m].half = list[j].half
<1> DEFINE tree == list[k].tree
           r == Root(ds, j)
           Same == /\ writer
                   /\ list[j].tree = list[k].tree
                   /\ \A m \in j .. k : list[m].tree = list[j].tree => list[m].half = list[j].half
<1>1. /\ Len(ds) \in Nat /\ DOMAIN ds = 1 .. Len(ds)
      /\ \A m \in DOMAIN ds : StoredOnce(ds, list[m], writer, m)
  BY DEF FileOf
<1>2. \A m \in DOMAIN ds : list[m].tree # Nothing
  BY DEF FileOf, IsSource
<1>3. \A m \in DOMAIN ds : IsInstance(ds[m]) =>
         /\ Root(ds, m) \in 1 .. m - 1 /\ IsLast(ds, list[m].tree, m, Root(ds, m))
         /\ ds[Root(ds, m)].half = list[m].half /\ ds[Root(ds, m)].stored = list[m].tree
         /\ writer
  <2> SUFFICES ASSUME NEW m \in DOMAIN ds, IsInstance(ds[m])
               PROVE  /\ Root(ds, m) \in 1 .. m - 1 /\ IsLast(ds, list[m].tree, m, Root(ds, m))
                      /\ ds[Root(ds, m)].half = list[m].half /\ ds[Root(ds, m)].stored = list[m].tree
                      /\ writer
    OBVIOUS
  <2>1. Root(ds, m) = ParentAt(ds, m)
    BY DEF Root
  <2>2. LET p == ParentAt(ds, m)
        IN  IsLast(ds, list[m].tree, m, p) /\ ds[p].half = list[m].half /\ ds[p].stored = list[m].tree
    BY FileParents
  <2>3. writer
    BY <1>1 DEF StoredOnce
  <2> QED
    BY <2>1, <2>2, <2>3 DEF IsLast
<1>4. \A m \in DOMAIN ds : ~ IsInstance(ds[m]) =>
         /\ Root(ds, m) = m /\ ds[m].stored = list[m].tree
         /\ writer => \A p \in 1 .. m - 1 : IsLast(ds, list[m].tree, m, p) => ds[p].half # list[m].half
  BY <1>1 DEF Root, StoredOnce
<1>5. \A m \in DOMAIN ds : ds[m].stored # Nothing => ~ IsInstance(ds[m])
  BY FileParents
<1>6. \A m \in DOMAIN ds : ds[m].half = list[m].half
  BY DEF FileOf, Describes
<1>7. /\ j \in Nat /\ k \in Nat /\ r \in 1 .. j /\ r \in DOMAIN ds
      /\ ds[r].half = list[j].half /\ ds[r].stored = list[j].tree
      /\ \A m \in DOMAIN ds : r < m /\ m < j => ds[m].stored # list[j].tree
      /\ r # j => writer
  <2>0. j \in Nat /\ k \in Nat /\ j >= 1
    BY <1>1
  <2>1. CASE IsInstance(ds[j])
    <3>1. r \in 1 .. j - 1 /\ IsLast(ds, list[j].tree, j, r) /\ ds[r].half = list[j].half
          /\ ds[r].stored = list[j].tree /\ writer
      BY <1>3, <2>1
    <3> HIDE DEF r
    <3>2. ASSUME NEW m \in DOMAIN ds, r < m, m < j PROVE ds[m].stored # list[j].tree
      <4>1. m \in r + 1 .. j - 1
        BY <1>1, <2>0, <3>1, <3>2
      <4> QED
        BY <3>1, <4>1 DEF IsLast
    <3> QED
      BY <1>1, <2>0, <3>1, <3>2
  <2>2. CASE ~ IsInstance(ds[j])
    <3>1. r = j /\ ds[j].stored = list[j].tree
      BY <1>4, <2>2
    <3> HIDE DEF r
    <3> QED
      BY <1>1, <1>6, <2>0, <3>1
  <2> QED
    BY <2>1, <2>2
<1> HIDE DEF r
<1>8. ASSUME r = Root(ds, k) PROVE Same
  <2>1. IsInstance(ds[k])
    BY <1>4, <1>7, <1>8
  <2>2. /\ r \in 1 .. k - 1 /\ IsLast(ds, tree, k, r)
        /\ ds[r].half = list[k].half /\ ds[r].stored = tree /\ writer
    BY <1>3, <1>8, <2>1
  <2>3. list[j].tree = tree /\ list[j].half = list[k].half
    BY <1>7, <2>2
  <2>4. ASSUME NEW m \in j .. k, list[m].tree = tree PROVE list[m].half = list[j].half
    <3>1. m \in DOMAIN ds /\ m \in Nat
      BY <1>1
    <3>2. CASE m = r
      BY <1>6, <1>7, <3>1, <3>2
    <3>3. CASE m = k
      BY <2>3, <3>3
    <3>4. CASE m # r /\ m # k
      <4>1. r < m /\ m < k /\ m \in r + 1 .. k - 1
        BY <1>7, <3>1, <3>4
      <4>2. ds[m].stored # tree
        BY <2>2, <4>1 DEF IsLast
      <4>3. IsInstance(ds[m])
        BY <1>4, <2>4, <3>1, <4>2
      <4> DEFINE q == Root(ds, m)
      <4>4. q \in 1 .. m - 1 /\ IsLast(ds, tree, m, q) /\ ds[q].half = list[m].half /\ ds[q].stored = tree
        BY <1>3, <2>4, <3>1, <4>3
      <4> HIDE DEF q
      <4>5. q = r
        <5>1. CASE q < r
          <6>1. r \in q + 1 .. m - 1
            BY <1>7, <3>1, <4>1, <4>4, <5>1
          <6> QED
            BY <2>2, <4>4, <6>1 DEF IsLast
        <5>2. CASE r < q
          <6>1. q \in r + 1 .. k - 1
            BY <1>7, <3>1, <4>1, <4>4, <5>2
          <6> QED
            BY <2>2, <4>4, <6>1 DEF IsLast
        <5> QED
          BY <1>7, <4>4, <5>1, <5>2
      <4> QED
        BY <1>7, <4>4, <4>5
    <3> QED
      BY <3>2, <3>3, <3>4
  <2> QED
    BY <2>2, <2>3, <2>4
<1>9. ASSUME Same PROVE r = Root(ds, k)
  <2>1. \A m \in j .. k : list[m].tree = tree => list[m].half = list[j].half
    BY <1>9
  <2>2. ds[r].stored = tree /\ list[j].tree = tree /\ writer
    BY <1>7, <1>9
  <2> DEFINE late == {m \in r + 1 .. k : ds[m].stored = tree}
  <2>3. ASSUME late # {} PROVE FALSE
    <3>0. late \in SUBSET Nat /\ \A m \in late : m \in r + 1 .. k /\ ds[m].stored = tree
      BY <1>7
    <3> HIDE DEF late
    <3>1. PICK m \in late : \A n \in late : m <= n
      BY <2>3, <3>0, Least
    <3>2. m \in r + 1 .. k /\ m \in DOMAIN ds /\ m \in Nat /\ ds[m].stored = tree /\ r \in 1 .. m - 1
      BY <1>1, <1>7, <3>0
    <3>3. ~ IsInstance(ds[m])
      BY <1>2, <1>5, <3>2
    <3>4. list[m].tree = tree
      BY <1>4, <3>2, <3>3
    <3>5. IsLast(ds, tree, m, r)
      <4>1. ASSUME NEW n \in r + 1 .. m - 1 PROVE ds[n].stored # tree
        <5>1. n \in r + 1 .. k /\ ~ (m <= n)
          BY <1>7, <3>2
        <5>2. n \notin late
          BY <3>1, <5>1
        <5> QED
          BY <5>1, <5>2 DEF late
      <4> QED
        BY <2>2, <3>2, <4>1 DEF IsLast
    <3>6. ds[r].half # list[m].half
      BY <1>4, <2>2, <3>2, <3>3, <3>4, <3>5
    <3>7. m \in j .. k
      <4>1. CASE m < j
        BY <1>7, <2>2, <3>2, <4>1
      <4> QED
        BY <1>7, <3>2, <4>1
    <3>8. list[m].half = list[j].half
      BY <2>1, <3>4, <3>7
    <3> QED
      BY <1>7, <3>6, <3>8
  <2>4. \A m \in r + 1 .. k : ds[m].stored # tree
    BY <2>3
  <2>5. k \in r + 1 .. k
    BY <1>7
  <2>6. IsInstance(ds[k])
    BY <1>4, <2>4, <2>5
  <2> DEFINE q == Root(ds, k)
  <2>7. q \in 1 .. k - 1 /\ IsLast(ds, tree, k, q) /\ ds[q].stored = tree
    BY <1>3, <2>6
  <2> HIDE DEF q
  <2>8. q = r
    <3>1. CASE q < r
      <4>1. r \in q + 1 .. k - 1
        BY <1>7, <2>7, <3>1
      <4> QED
        BY <2>2, <2>7, <4>1 DEF IsLast
    <3>2. CASE r < q
      <4>1. q \in r + 1 .. k
        BY <1>7, <2>7, <3>2
      <4> QED
        BY <2>4, <2>7, <4>1
    <3> QED
      BY <1>7, <2>7, <3>1, <3>2
  <2> QED
    BY <2>8 DEF q
<1> QED
  BY <1>8, <1>9 DEF r

\* The same, in the terms of the contract.
LEMMA RootFacts ==
    ASSUME DiskInv, NEW j \in DOMAIN disk.descriptors, NEW k \in DOMAIN disk.descriptors
    PROVE  Root(disk.descriptors, j) = Root(disk.descriptors, k) <=>
              j = k \/ (disk.instancing /\ OneTree(j, k))
<1> DEFINE ds == disk.descriptors
           list == disk.list
<1>1. FileOf(ds, list, disk.instancing) /\ IsSource(list) /\ disk.instancing \in BOOLEAN
  BY DiskFile DEF DiskInv
<1>2. j \in Nat /\ k \in Nat
  BY <1>1 DEF FileOf
<1>3. ASSUME NEW a \in DOMAIN ds, NEW b \in DOMAIN ds, a \in Nat, b \in Nat, a < b
      PROVE  /\ Root(ds, a) = Root(ds, b) <=> disk.instancing /\ OneTree(a, b)
             /\ OneTree(a, b) <=> OneTree(b, a)
  <2>1. Root(ds, a) = Root(ds, b) <=>
              /\ disk.instancing
              /\ list[a].tree = list[b].tree
              /\ \A m \in a .. b : list[m].tree = list[a].tree => list[m].half = list[a].half
    BY <1>1, <1>3, RootBefore
  <2>2. /\ OneTree(a, b) <=> \A m \in a .. b : /\ list[a].tree = list[b].tree
                                               /\ list[m].tree = list[a].tree => list[m].half = list[a].half
        /\ OneTree(b, a) <=> \A m \in a .. b : /\ list[b].tree = list[a].tree
                                               /\ list[m].tree = list[b].tree => list[m].half = list[b].half
    BY <1>3 DEF OneTree, Source
  <2>3. a \in a .. b /\ b \in a .. b
    BY <1>3
  <2> HIDE DEF ds, list
  <2> QED
    BY <2>1, <2>2, <2>3
<1>4. CASE j < k
  BY <1>2, <1>3, <1>4
<1>5. CASE k < j
  BY <1>2, <1>3, <1>5
<1> QED
  BY <1>2, <1>4, <1>5

\* These are the grids of these ids, as they are once connected; some perhaps several times.
Reads(grids, ids, instancing) ==
    /\ Len(ids) \in Nat /\ DOMAIN ids = 1 .. Len(ids)
    /\ \A i \in DOMAIN ids : ids[i] \in DOMAIN disk.descriptors
    /\ grids = [i \in DOMAIN ids |-> Linked(disk.descriptors, ids[i], instancing)]

IdsIn(D) == [i \in DOMAIN D |-> D[i].id]

LEMMA ConnectedReads ==
    ASSUME DiskInv, NEW D, FromFile(D, disk.descriptors), NEW T, Links(T, D), NEW instancing \in BOOLEAN
    PROVE  Reads(Connected(ReadAll(D), T, instancing), IdsIn(D), instancing)
<1> DEFINE ds == disk.descriptors
           ids == IdsIn(D)
<1>1. /\ Closed(D) /\ Len(D) \in Nat /\ DOMAIN D = 1 .. Len(D)
      /\ \A i \in DOMAIN D : D[i].id \in DOMAIN ds /\ D[i] = ds[D[i].id]
      /\ \A i, j \in DOMAIN D : D[i].unique = D[j].unique => i = j
  BY DEF FromFile, Closed
<1>2. Closed(ds)
  BY DiskFile, FileParents
<1>3. /\ ids = [i \in 1 .. Len(D) |-> ids[i]] /\ DOMAIN ids = DOMAIN D
      /\ \A i \in DOMAIN D : ids[i] = D[i].id
  BY <1>1 DEF IdsIn
<1>4. Len(ids) = Len(D)
  BY <1>1, <1>3, LenOf
<1>5. Connected(ReadAll(D), T, instancing) = [i \in DOMAIN D |-> Linked(D, i, instancing)]
  BY <1>1, ConnectedFacts
<1>6. \A i \in DOMAIN D : Linked(D, i, instancing) = Linked(ds, ids[i], instancing)
  BY <1>2, <1>3, LinkedSame
<1>7. [i \in DOMAIN D |-> Linked(D, i, instancing)] = [i \in DOMAIN ids |-> Linked(ds, ids[i], instancing)]
  <2> HIDE DEF ids, ds
  <2> QED
    BY <1>3, <1>6
<1> HIDE DEF ids
<1> QED
  BY <1>1, <1>3, <1>4, <1>5, <1>7 DEF Reads, ids

\* Each has its content, not clipped.
Delivered(grids, ids) ==
    /\ Len(grids) = Len(ids) /\ DOMAIN grids = DOMAIN ids /\ grids \in Seq(Range(grids))
    /\ \A i \in DOMAIN ids : /\ grids[i].id = ids[i] /\ HasItsContent(grids[i], FALSE)
                             /\ GridFields \subseteq DOMAIN grids[i]
                             /\ grids[i].unique = disk.descriptors[ids[i]].unique
                             /\ grids[i].transform = Source[ids[i]].transform

LEMMA ReadsContract ==
    ASSUME DiskInv, NEW grids, NEW ids, NEW instancing \in BOOLEAN, Reads(grids, ids, instancing)
    PROVE  Shared(grids, instancing) /\ Delivered(grids, ids)
<1> DEFINE ds == disk.descriptors
           list == disk.list
           L(k) == Linked(ds, k, instancing)
<1>1. FileOf(ds, list, disk.instancing) /\ IsSource(list)
  BY DiskFile
<1>2. ASSUME NEW k \in DOMAIN ds
      PROVE  /\ L(k).id = k /\ L(k).unique = ds[k].unique /\ GridFields \subseteq DOMAIN L(k)
             /\ L(k).transform = list[k].transform
             /\ L(k).content = [tree |-> list[k].tree, half |-> list[k].half, region |-> Whole]
             /\ L(k).owner = IF instancing THEN ds[Root(ds, k)].unique ELSE ds[k].unique
             /\ Root(ds, k) \in DOMAIN ds
  <2>1. LET l == Linked(ds, k, instancing)
        IN  /\ GridFields \subseteq DOMAIN l
            /\ l.id = k /\ l.unique = ds[k].unique /\ l.transform = list[k].transform
            /\ l.content = [tree |-> list[k].tree, half |-> list[k].half, region |-> Whole]
            /\ l.owner = IF instancing THEN ds[Root(ds, k)].unique ELSE ds[k].unique
    BY <1>1, GridFacts
  <2>2. Root(ds, k) \in DOMAIN ds
    BY <1>1, FileParents DEF Root
  <2> QED
    BY <2>1, <2>2
<1>3. \A j, k \in DOMAIN ds : ds[j].unique = ds[k].unique => j = k
  BY <1>1 DEF FileOf
<1>4. /\ Len(ids) \in Nat /\ DOMAIN ids = 1 .. Len(ids)
      /\ \A i \in DOMAIN ids : ids[i] \in DOMAIN ds
      /\ grids = [i \in DOMAIN ids |-> L(ids[i])]
  BY DEF Reads
<1>5. DOMAIN grids = DOMAIN ids /\ \A i \in DOMAIN ids : grids[i] = L(ids[i])
  BY <1>4
<1>6. grids = [i \in 1 .. Len(ids) |-> grids[i]]
  BY <1>4, <1>5
<1>7. Len(grids) = Len(ids) /\ grids \in Seq(Range(grids))
  BY <1>4, <1>6, LenOf
<1>8. ASSUME NEW i \in DOMAIN ids, NEW j \in DOMAIN ids
      PROVE  (grids[i].owner = grids[j].owner)
                <=> (grids[i].id = grids[j].id
                     \/ (instancing /\ disk.instancing /\ OneTree(grids[i].id, grids[j].id)))
  <2> DEFINE a == ids[i]
             b == ids[j]
  <2>1. a \in DOMAIN ds /\ b \in DOMAIN ds
    BY <1>4
  <2> HIDE DEF a, b
  <2>2. /\ grids[i].id = a /\ grids[j].id = b
        /\ grids[i].owner = IF instancing THEN ds[Root(ds, a)].unique ELSE ds[a].unique
        /\ grids[j].owner = IF instancing THEN ds[Root(ds, b)].unique ELSE ds[b].unique
    BY <1>2, <1>5, <2>1 DEF a, b
  <2>3. Root(ds, a) = Root(ds, b) <=> a = b \/ (disk.instancing /\ OneTree(a, b))
    BY <2>1, RootFacts
  <2>4. Root(ds, a) \in DOMAIN ds /\ Root(ds, b) \in DOMAIN ds
    BY <1>2, <2>1
  <2> QED
    BY <1>3, <2>1, <2>2, <2>3, <2>4
<1>9. Shared(grids, instancing)
  BY <1>5, <1>8 DEF Shared
<1>10. ASSUME NEW i \in DOMAIN ids
       PROVE  /\ grids[i].id = ids[i] /\ HasItsContent(grids[i], FALSE)
              /\ GridFields \subseteq DOMAIN grids[i] /\ grids[i].unique = ds[ids[i]].unique
              /\ grids[i].transform = Source[ids[i]].transform
  <2>1. ids[i] \in DOMAIN ds /\ grids[i] = L(ids[i])
    BY <1>4, <1>5
  <2> DEFINE k == ids[i]
  <2> HIDE DEF k, L
  <2>2. /\ grids[i].id = k /\ GridFields \subseteq DOMAIN grids[i] /\ grids[i].unique = ds[k].unique
        /\ grids[i].transform = list[k].transform
        /\ grids[i].content = [tree |-> list[k].tree, half |-> list[k].half, region |-> Whole]
    BY <1>2, <2>1 DEF k
  <2> QED
    BY <2>2 DEF k, HasItsContent, Source
<1> QED
  BY <1>5, <1>7, <1>9, <1>10 DEF Delivered

LEMMA ReadsComplete ==
    ASSUME DiskInv, NEW grids, NEW ids, NEW instancing \in BOOLEAN, Reads(grids, ids, instancing),
           Len(ids) = Len(disk.descriptors),
           \A k \in DOMAIN disk.descriptors : \E i \in DOMAIN ids : ids[i] = k
    PROVE  Complete(grids, FALSE)
<1>1. /\ Len(grids) = Len(ids) /\ DOMAIN grids = DOMAIN ids
      /\ \A i \in DOMAIN ids : grids[i].id = ids[i] /\ HasItsContent(grids[i], FALSE)
  <2>1. Delivered(grids, ids)
    BY ReadsContract
  <2> QED
    BY <2>1 DEF Delivered
<1>6. \A i \in DOMAIN ids : ids[i] \in DOMAIN disk.descriptors
  BY DEF Reads
<1>2. DOMAIN disk.descriptors = DOMAIN Source /\ Len(disk.descriptors) = Len(Source)
  BY DiskFile DEF FileOf, Source
<1>3. \A grid \in Range(grids) : \E i \in DOMAIN ids : grid = grids[i]
  BY <1>1 DEF Range
<1>4. \A i \in DOMAIN ids : grids[i] \in Range(grids)
  BY <1>1 DEF Range
<1>5. {grid.id : grid \in Range(grids)} = DOMAIN Source
  <2>1. ASSUME NEW grid \in Range(grids) PROVE grid.id \in DOMAIN Source
    <3>1. PICK i \in DOMAIN ids : grid = grids[i]
      BY <1>3
    <3>2. grid.id = ids[i] /\ ids[i] \in DOMAIN disk.descriptors
      BY <1>1, <1>6, <3>1
    <3> QED
      BY <1>2, <3>2
  <2>2. \A k \in DOMAIN Source : \E grid \in Range(grids) : grid.id = k
    BY <1>1, <1>2, <1>4
  <2> QED
    BY <2>1, <2>2
<1> QED
  BY <1>1, <1>2, <1>3, <1>5 DEF Complete

\* The tables that are gone through: in the file's order and by name.
LEMMA Tables ==
    ASSUME DiskInv
    PROVE  LET ds == disk.descriptors
               table == ByName(ds)
           IN  /\ FromFile(ds, ds) /\ FromFile(table, ds)
               /\ Links(ds, ds) /\ Links(table, ds) /\ Links(table, table)
               /\ Len(IdsIn(ds)) = Len(ds) /\ Len(IdsIn(table)) = Len(ds)
               /\ DOMAIN IdsIn(ds) = DOMAIN ds /\ DOMAIN IdsIn(table) = DOMAIN ds
               /\ DOMAIN table = DOMAIN ds
               /\ \A k \in DOMAIN ds : /\ \E i \in DOMAIN ds : IdsIn(ds)[i] = k
                                       /\ \E i \in DOMAIN ds : IdsIn(table)[i] = k
<1> DEFINE ds == disk.descriptors
           table == ByName(ds)
<1>1. FileOf(ds, disk.list, disk.instancing) /\ IsSource(disk.list)
  BY DiskFile
<1>2. /\ Len(ds) \in Nat /\ DOMAIN ds = 1 .. Len(ds)
      /\ \A i, j \in DOMAIN ds : ds[i].unique = ds[j].unique => i = j
      /\ \A i \in DOMAIN ds : ds[i].id = i
  BY <1>1 DEF FileOf, Describes
<1>3. Closed(ds)
  BY <1>1, FileParents
<1>4. FromFile(ds, ds) /\ Links(ds, ds)
  BY <1>2, <1>3 DEF FromFile, Links
<1>5. /\ Len(table) = Len(ds) /\ DOMAIN table = DOMAIN ds
      /\ \A n \in DOMAIN ds : \E i \in DOMAIN ds : table[n] = ds[i]
      /\ \A i \in DOMAIN ds : \E n \in DOMAIN ds : table[n] = ds[i]
      /\ \A m, n \in DOMAIN ds : table[m] = table[n] => m = n
  BY <1>2, ByNameFacts
<1> HIDE DEF table
<1>6. \A i, j \in DOMAIN ds : table[i].unique = table[j].unique => i = j
  <2> SUFFICES ASSUME NEW i \in DOMAIN ds, NEW j \in DOMAIN ds, table[i].unique = table[j].unique
               PROVE  i = j
    OBVIOUS
  <2>1. PICK a \in DOMAIN ds : table[i] = ds[a]
    BY <1>5
  <2>2. PICK b \in DOMAIN ds : table[j] = ds[b]
    BY <1>5
  <2>3. ds[a].unique = ds[b].unique
    BY <2>1, <2>2
  <2>4. a = b
    BY <1>2, <2>3
  <2>5. table[i] = table[j]
    BY <2>1, <2>2, <2>4
  <2> QED
    BY <1>5, <2>5
<1>7. Closed(table)
  <2>1. ASSUME NEW i \in DOMAIN table, IsInstance(table[i])
        PROVE  \E p \in DOMAIN table : table[p].unique = table[i].parent /\ ~ IsInstance(table[p])
    <3>1. PICK a \in DOMAIN ds : table[i] = ds[a]
      BY <1>5
    <3>2. PICK b \in DOMAIN ds : ds[b].unique = ds[a].parent /\ ~ IsInstance(ds[b])
      BY <1>3, <2>1, <3>1 DEF Closed
    <3>3. PICK p \in DOMAIN ds : table[p] = ds[b]
      BY <1>5
    <3> QED
      BY <1>5, <3>1, <3>2, <3>3
  <2> QED
    BY <1>2, <1>5, <1>6, <2>1 DEF Closed
<1>8. FromFile(table, ds)
  <2>1. ASSUME NEW i \in DOMAIN table PROVE table[i].id \in DOMAIN ds /\ table[i] = ds[table[i].id]
    <3>1. PICK a \in DOMAIN ds : table[i] = ds[a]
      BY <1>5
    <3> QED
      BY <1>2, <3>1
  <2> QED
    BY <1>7, <2>1 DEF FromFile
<1>9. Links(table, ds) /\ Links(table, table)
  BY <1>2, <1>5 DEF Links
<1>10. ASSUME NEW D, DOMAIN D = DOMAIN ds, Len(D) = Len(ds)
       PROVE  Len(IdsIn(D)) = Len(ds) /\ DOMAIN IdsIn(D) = DOMAIN ds
              /\ \A i \in DOMAIN ds : IdsIn(D)[i] = D[i].id
  <2>1. IdsIn(D) = [i \in 1 .. Len(ds) |-> IdsIn(D)[i]]
    BY <1>2, <1>10 DEF IdsIn
  <2> QED
    BY <1>2, <1>10, <2>1, LenOf DEF IdsIn
<1>11. ASSUME NEW k \in DOMAIN ds
       PROVE  /\ \E i \in DOMAIN ds : IdsIn(ds)[i] = k
              /\ \E i \in DOMAIN ds : IdsIn(table)[i] = k
  <2>1. PICK n \in DOMAIN ds : table[n] = ds[k]
    BY <1>5
  <2>2. \A i \in DOMAIN ds : IdsIn(ds)[i] = ds[i].id
    BY <1>10
  <2>3. \A i \in DOMAIN ds : IdsIn(table)[i] = table[i].id
    BY <1>5, <1>10
  <2>4. ds[k].id = k
    BY <1>2
  <2>5. IdsIn(ds)[k] = k
    BY <2>2, <2>4
  <2>6. IdsIn(table)[n] = k
    BY <2>1, <2>3, <2>4
  <2> QED
    BY <2>5, <2>6
<1>12. /\ Len(IdsIn(ds)) = Len(ds) /\ Len(IdsIn(table)) = Len(ds)
       /\ DOMAIN IdsIn(ds) = DOMAIN ds /\ DOMAIN IdsIn(table) = DOMAIN ds
  BY <1>5, <1>10
<1> QED
  BY <1>4, <1>5, <1>8, <1>9, <1>11, <1>12 DEF table

\* These grids have these ids, and their content.
Delivers(grids, ids, clip) ==
    /\ Len(grids) = Len(ids) /\ DOMAIN grids = DOMAIN ids
    /\ \A i \in DOMAIN ids : grids[i].id = ids[i] /\ HasItsContent(grids[i], clip)

\* These are all.
Covers(ids) ==
    /\ Len(ids) = Len(disk.descriptors) /\ DOMAIN ids = DOMAIN disk.descriptors
    /\ \A i \in DOMAIN ids : ids[i] \in DOMAIN disk.descriptors
    /\ \A k \in DOMAIN disk.descriptors : \E i \in DOMAIN ids : ids[i] = k

LEMMA CompleteFacts ==
    ASSUME DiskInv, NEW grids, NEW ids, NEW clip \in BOOLEAN, Delivers(grids, ids, clip), Covers(ids)
    PROVE  Complete(grids, clip)
<1>1. /\ Len(grids) = Len(ids) /\ DOMAIN grids = DOMAIN ids
      /\ \A i \in DOMAIN ids : grids[i].id = ids[i] /\ HasItsContent(grids[i], clip)
  BY DEF Delivers
<1>2. DOMAIN disk.descriptors = DOMAIN Source /\ Len(disk.descriptors) = Len(Source)
  BY DiskFile DEF FileOf, Source
<1>3. /\ Len(ids) = Len(Source) /\ \A i \in DOMAIN ids : ids[i] \in DOMAIN Source
      /\ \A k \in DOMAIN Source : \E i \in DOMAIN ids : ids[i] = k
  BY <1>2 DEF Covers
<1>4. \A grid \in Range(grids) : \E i \in DOMAIN ids : grid = grids[i]
  BY <1>1 DEF Range
<1>5. \A i \in DOMAIN ids : grids[i] \in Range(grids)
  BY <1>1 DEF Range
<1>6. {grid.id : grid \in Range(grids)} = DOMAIN Source
  <2>1. ASSUME NEW grid \in Range(grids) PROVE grid.id \in DOMAIN Source
    <3>1. PICK i \in DOMAIN ids : grid = grids[i]
      BY <1>4
    <3>2. grid.id = ids[i] /\ ids[i] \in DOMAIN Source
      BY <1>1, <1>3, <3>1
    <3> QED
      BY <3>2
  <2>2. \A k \in DOMAIN Source : \E grid \in Range(grids) : grid.id = k
    BY <1>1, <1>3, <1>5
  <2> QED
    BY <2>1, <2>2
<1> QED
  BY <1>1, <1>3, <1>4, <1>6 DEF Complete

\* The fields of a grid that is clipped, or that gets a tree of its own.
LEMMA ClippedFields ==
    ASSUME NEW grid, GridFields \subseteq DOMAIN grid, NEW tree, NEW half, NEW region,
           grid.content = [tree |-> tree, half |-> half, region |-> region]
    PROVE  LET g == Clipped(grid)
           IN  /\ g.id = grid.id /\ g.unique = grid.unique /\ g.transform = grid.transform
               /\ g.owner = grid.owner
               /\ g.content = [tree |-> tree, half |-> half, region |-> grid.transform]
               /\ GridFields \subseteq DOMAIN g
<1>1. "content" \in DOMAIN grid
  BY DEF GridFields
<1>2. Clipped(grid).content = [grid.content EXCEPT !.region = grid.transform]
  BY <1>1 DEF Clipped
<1>3. [[tree |-> tree, half |-> half, region |-> region] EXCEPT !.region = grid.transform] =
         [tree |-> tree, half |-> half, region |-> grid.transform]
  OBVIOUS
<1>4. Clipped(grid).content = [tree |-> tree, half |-> half, region |-> grid.transform]
  BY <1>2, <1>3
<1>5. LET g == Clipped(grid)
      IN  /\ g.id = grid.id /\ g.unique = grid.unique /\ g.transform = grid.transform
          /\ g.owner = grid.owner /\ GridFields \subseteq DOMAIN g
  BY DEF Clipped, GridFields
<1> QED
  BY <1>4, <1>5

LEMMA OwnedFields ==
    ASSUME NEW grid, GridFields \subseteq DOMAIN grid, NEW owner
    PROVE  LET g == [grid EXCEPT !.owner = owner]
           IN  /\ g.id = grid.id /\ g.unique = grid.unique /\ g.transform = grid.transform
               /\ g.owner = owner /\ g.content = grid.content
BY DEF GridFields

\* Sharing is only taken away.
SharesLess(grids, instancing) ==
    \A i, j \in DOMAIN grids :
        grids[i].id # grids[j].id /\ grids[i].owner = grids[j].owner =>
            OneTree(grids[i].id, grids[j].id) /\ instancing /\ disk.instancing

\* Grids that were read by open(), clipped.
LEMMA ClippedCachedFacts ==
    ASSUME DiskInv, NEW grids, NEW ids, NEW instancing \in BOOLEAN, Reads(grids, ids, instancing),
           NEW clip \in BOOLEAN, clip = TRUE
    PROVE  /\ Delivers(ClippedCached(grids, instancing), ids, clip)
           /\ SharesLess(ClippedCached(grids, instancing), instancing)
<1> DEFINE First(i) == SelectInSeq(grids, LAMBDA g : g.owner = grids[i].owner)
           Model(i) == IF instancing /\ grids[First(i)].transform = grids[i].transform
                       THEN First(i) ELSE i
           clipped == ClippedCached(grids, instancing)
<1>1. clipped = [i \in DOMAIN grids |-> [Clipped(grids[i]) EXCEPT !.owner = grids[Model(i)].unique]]
  BY DEF ClippedCached
<1>2. Delivered(grids, ids) /\ Shared(grids, instancing)
  BY ReadsContract
<1>3. /\ Len(grids) = Len(ids) /\ DOMAIN grids = DOMAIN ids /\ DOMAIN ids = 1 .. Len(ids)
      /\ Len(ids) \in Nat
      /\ \A i \in DOMAIN ids : /\ grids[i].id = ids[i] /\ HasItsContent(grids[i], FALSE)
                               /\ GridFields \subseteq DOMAIN grids[i]
                               /\ grids[i].unique = disk.descriptors[ids[i]].unique
                               /\ grids[i].transform = Source[ids[i]].transform
                               /\ ids[i] \in DOMAIN disk.descriptors
                               /\ grids[i] = Linked(disk.descriptors, ids[i], instancing)
  BY <1>2 DEF Delivered, Reads
<1>4. \A i \in DOMAIN ids : Model(i) \in DOMAIN ids /\ grids[Model(i)].owner = grids[i].owner
                            /\ (Model(i) # i => instancing)
  <2> SUFFICES ASSUME NEW i \in DOMAIN ids
               PROVE  Model(i) \in DOMAIN ids /\ grids[Model(i)].owner = grids[i].owner
                      /\ (Model(i) # i => instancing)
    OBVIOUS
  <2> DEFINE I == {j \in 1 .. Len(grids) : grids[j].owner = grids[i].owner}
  <2>1. First(i) = IF I # {} THEN Min(I) ELSE 0
    BY DEF SelectInSeq
  <2>2. I \in SUBSET Nat /\ i \in I /\ \A j \in I : j \in DOMAIN ids /\ grids[j].owner = grids[i].owner
    BY <1>3
  <2>3. (Model(i) = First(i) /\ instancing) \/ Model(i) = i
    OBVIOUS
  <2> HIDE DEF I, First, Model
  <2>4. Min(I) \in I
    BY <2>2, MinFact
  <2> QED
    BY <2>1, <2>2, <2>3, <2>4
<1> HIDE DEF Model, clipped
<1>5. ASSUME NEW i \in DOMAIN ids
      PROVE  /\ clipped[i].id = ids[i] /\ HasItsContent(clipped[i], clip)
             /\ clipped[i].owner = grids[Model(i)].unique
  <2> DEFINE g == Source[ids[i]]
             c == Clipped(grids[i])
  <2>1. clipped[i] = [c EXCEPT !.owner = grids[Model(i)].unique]
    BY <1>1, <1>3
  <2>2. grids[i].content = [tree |-> g.tree, half |-> g.half, region |-> Whole]
    <3>1. grids[i].id = ids[i] /\ HasItsContent(grids[i], FALSE)
      BY <1>3
    <3> QED
      BY <3>1 DEF HasItsContent
  <2>3. /\ c.id = ids[i] /\ c.content = [tree |-> g.tree, half |-> g.half, region |-> g.transform]
        /\ GridFields \subseteq DOMAIN c
    <3> HIDE DEF g
    <3>1. /\ c.id = grids[i].id
          /\ c.content = [tree |-> g.tree, half |-> g.half, region |-> grids[i].transform]
          /\ GridFields \subseteq DOMAIN c
      <4> DEFINE G == grids[i]
                 tree == g.tree
                 half == g.half
      <4>1. GridFields \subseteq DOMAIN G /\ G.content = [tree |-> tree, half |-> half, region |-> Whole]
        BY <1>3, <2>2
      <4> HIDE DEF G, tree, half
      <4>2. /\ Clipped(G).id = G.id
            /\ Clipped(G).content = [tree |-> tree, half |-> half, region |-> G.transform]
            /\ GridFields \subseteq DOMAIN Clipped(G)
        BY <4>1, ClippedFields
      <4> QED
        BY <4>2 DEF G, tree, half
    <3> QED
      BY <1>3, <3>1 DEF g
  <2> HIDE DEF c
  <2>4. clipped[i].id = c.id /\ clipped[i].content = c.content
        /\ clipped[i].owner = grids[Model(i)].unique
    BY <2>1, <2>3, OwnedFields
  <2> QED
    BY <2>3, <2>4 DEF HasItsContent
<1>6. Len(clipped) = Len(ids) /\ DOMAIN clipped = DOMAIN ids
  <2>1. DOMAIN clipped = 1 .. Len(ids) /\ clipped = [i \in 1 .. Len(ids) |-> clipped[i]]
    BY <1>1, <1>3
  <2> QED
    BY <1>3, <2>1, LenOf
<1>7. Delivers(clipped, ids, clip)
  BY <1>5, <1>6 DEF Delivers
<1>8. ASSUME NEW i \in DOMAIN ids, NEW j \in DOMAIN ids,
             clipped[i].id # clipped[j].id, clipped[i].owner = clipped[j].owner
      PROVE  OneTree(clipped[i].id, clipped[j].id) /\ instancing /\ disk.instancing
  <2>1. grids[Model(i)].unique = grids[Model(j)].unique
    BY <1>5, <1>8
  <2>2. disk.descriptors[ids[Model(i)]].unique = disk.descriptors[ids[Model(j)]].unique
        /\ ids[Model(i)] \in DOMAIN disk.descriptors /\ ids[Model(j)] \in DOMAIN disk.descriptors
    BY <1>3, <1>4, <2>1
  <2>3. ids[Model(i)] = ids[Model(j)]
    BY <2>2, DiskFile DEF FileOf
  <2>4. grids[Model(i)].owner = grids[Model(j)].owner
    <3>1. Model(i) \in DOMAIN ids /\ Model(j) \in DOMAIN ids
      BY <1>4
    <3>2. \A m, n \in DOMAIN ids : ids[m] = ids[n] => grids[m] = grids[n]
      BY <1>3
    <3> QED
      BY <2>3, <3>1, <3>2
  <2>5. grids[i].owner = grids[j].owner
    BY <1>4, <2>4
  <2>7. grids[i].id = clipped[i].id /\ grids[j].id = clipped[j].id
    BY <1>3, <1>5
  <2>6. instancing /\ disk.instancing /\ OneTree(grids[i].id, grids[j].id)
    BY <1>2, <1>3, <1>8, <2>5, <2>7 DEF Shared
  <2> QED
    BY <2>6, <2>7
<1>9. SharesLess(clipped, instancing)
  BY <1>6, <1>8 DEF SharesLess
<1> QED
  BY <1>7, <1>9 DEF clipped

LEMMA CopiedFields ==
    ASSUME NEW grid, NEW parent, GridFields \subseteq DOMAIN grid
    PROVE  LET g == WithTreeOf(grid, parent, FALSE)
           IN  /\ g.id = grid.id /\ g.unique = grid.unique /\ g.transform = grid.transform
               /\ g.owner = grid.owner /\ g.content = parent.content
               /\ GridFields \subseteq DOMAIN g
BY DEF WithTreeOf, GridFields

\* The position of a unique name in a table.
LEMMA ByUnique ==
    ASSUME NEW ds, Len(ds) \in Nat, DOMAIN ds = 1 .. Len(ds), NEW u, NEW p \in DOMAIN ds,
           ds[p].unique = u, \A i \in DOMAIN ds : ds[i].unique = u => i = p
    PROVE  FindDescriptorByUniqueName(ds, u) = p
<1> DEFINE I == {i \in 1 .. Len(ds) : ds[i].unique = u}
<1>1. FindDescriptorByUniqueName(ds, u) = IF I # {} THEN Min(I) ELSE 0
  BY DEF FindDescriptorByUniqueName, SelectInSeq
<1>2. I = {p} /\ p \in Nat
  OBVIOUS
<1> HIDE DEF I
<1>3. Min({p}) \in {p}
  BY <1>2, MinFact
<1> QED
  BY <1>1, <1>2, <1>3

\* A grid that is read by its descriptor, an instance with its parent.
LEMMA DescriptorGrid ==
    ASSUME DiskInv, NEW f, file[f].descriptors = disk.descriptors,
           NEW k \in DOMAIN disk.descriptors, NEW clip \in BOOLEAN
    PROVE  LET g == ReadGridFromDescriptor(f, disk.descriptors[k], clip)
           IN  /\ g.id = k /\ g.unique = disk.descriptors[k].unique
               /\ g.owner = disk.descriptors[k].unique /\ HasItsContent(g, clip)
<1> DEFINE ds == disk.descriptors
           d == ds[k]
           l == disk.list[k]
           g == ReadGridFromDescriptor(f, d, clip)
<1>1. FileOf(ds, disk.list, disk.instancing) /\ IsSource(disk.list)
  BY DiskFile
<1>2. /\ d.id = k /\ d.half = l.half /\ d.transform = l.transform
      /\ StoredOnce(ds, l, disk.instancing, k)
      /\ Len(ds) \in Nat /\ DOMAIN ds = 1 .. Len(ds)
      /\ \A i, j \in DOMAIN ds : ds[i].unique = ds[j].unique => i = j
  BY <1>1 DEF FileOf, Describes
<1>3. HasItsContent(g, clip) <=>
         g.content = [tree |-> disk.list[g.id].tree, half |-> disk.list[g.id].half,
                      region |-> IF clip THEN disk.list[g.id].transform ELSE Whole]
  BY DEF HasItsContent, Source
<1>4. CASE IsInstance(d)
  <2> DEFINE p == ParentAt(ds, k)
             A == ReadFrom(d, Whole)
             B == ReadFrom(ds[p], Whole)
             whole == WithTreeOf(A, B, FALSE)
  <2>1. /\ p \in DOMAIN ds /\ ds[p].unique = d.parent /\ ds[p].stored = l.tree /\ ds[p].half = l.half
    BY <1>1, <1>4, FileParents
  <2>2. FindDescriptorByUniqueName(ds, d.parent) = p
    <3> DEFINE u == d.parent
    <3>1. /\ Len(ds) \in Nat /\ DOMAIN ds = 1 .. Len(ds) /\ p \in DOMAIN ds /\ ds[p].unique = u
          /\ \A i \in DOMAIN ds : ds[i].unique = u => i = p
      BY <1>2, <2>1
    <3> HIDE DEF p, u, ds
    <3>2. FindDescriptorByUniqueName(ds, u) = p
      BY <3>1, ByUnique
    <3> QED
      BY <3>2 DEF u
  <2>3. g = IF clip THEN Clipped(whole) ELSE whole
    BY <1>4, <2>2 DEF ReadGridFromDescriptor
  <2>4. /\ A.id = k /\ A.unique = d.unique /\ A.transform = l.transform /\ A.owner = d.unique
        /\ GridFields \subseteq DOMAIN A
    <3>1. /\ A.id = d.id /\ A.unique = d.unique /\ A.transform = d.transform /\ A.owner = d.unique
          /\ GridFields \subseteq DOMAIN A
      BY ReadFields
    <3> HIDE DEF A
    <3> QED
      BY <1>2, <3>1
  <2>5. B.content = [tree |-> l.tree, half |-> l.half, region |-> Whole]
    <3>1. B.content = [tree |-> ds[p].stored, half |-> ds[p].half, region |-> Whole]
      BY ReadFields
    <3> QED
      BY <2>1, <3>1
  <2> HIDE DEF A, B
  <2>6. /\ whole.id = k /\ whole.unique = d.unique /\ whole.transform = l.transform
        /\ whole.owner = d.unique /\ GridFields \subseteq DOMAIN whole
        /\ whole.content = [tree |-> l.tree, half |-> l.half, region |-> Whole]
    <3>1. /\ whole.id = A.id /\ whole.unique = A.unique /\ whole.transform = A.transform
          /\ whole.owner = A.owner /\ whole.content = B.content
          /\ GridFields \subseteq DOMAIN whole
      BY <2>4, CopiedFields
    <3> HIDE DEF whole
    <3> QED
      BY <2>4, <2>5, <3>1
  <2> DEFINE tree == l.tree
             half == l.half
  <2> HIDE DEF whole, tree, half
  <2>7. LET c == Clipped(whole)
        IN  /\ c.id = whole.id /\ c.unique = whole.unique /\ c.transform = whole.transform
            /\ c.owner = whole.owner
            /\ c.content = [tree |-> tree, half |-> half, region |-> whole.transform]
            /\ GridFields \subseteq DOMAIN c
    BY <2>6, ClippedFields DEF tree, half
  <2>8. /\ g.id = k /\ g.unique = d.unique /\ g.owner = d.unique
        /\ g.content = [tree |-> l.tree, half |-> l.half, region |-> IF clip THEN l.transform ELSE Whole]
    <3> HIDE DEF g, l, d
    <3>1. CASE clip
      BY <2>3, <2>6, <2>7, <3>1 DEF tree, half
    <3>2. CASE ~ clip
      BY <2>3, <2>6, <3>2
    <3> QED
      BY <3>1, <3>2
  <2> HIDE DEF g
  <2> QED
    BY <1>3, <2>8 DEF g
<1>5. CASE ~ IsInstance(d)
  <2> DEFINE region == Region(d, clip)
  <2>1. g = ReadFrom(d, region)
    BY <1>5 DEF ReadGridFromDescriptor
  <2>2. region = IF clip THEN l.transform ELSE Whole
    BY <1>2 DEF Region
  <2> HIDE DEF region
  <2>3. /\ g.id = d.id /\ g.unique = d.unique /\ g.owner = d.unique
        /\ g.content = [tree |-> d.stored, half |-> d.half, region |-> region]
    BY <2>1, ReadFields
  <2>4. d.stored = l.tree
    BY <1>2, <1>5 DEF StoredOnce
  <2>5. /\ g.id = k /\ g.unique = d.unique /\ g.owner = d.unique
        /\ g.content = [tree |-> l.tree, half |-> l.half, region |-> IF clip THEN l.transform ELSE Whole]
    BY <1>2, <2>2, <2>3, <2>4
  <2> HIDE DEF g
  <2> QED
    BY <1>3, <2>5 DEF g
<1> QED
  BY <1>4, <1>5

\* What a File that shows the file, and nothing else, has.
LEMMA ReaderFacts ==
    ASSUME DiskInv, FileInv, NEW f \in Readers
    PROVE  /\ f \in Files /\ file[f].instancing \in BOOLEAN
           /\ file[f].descriptors \in Seq(Descriptors)
           /\ Range(file[f].descriptors) = Range(disk.descriptors)
           /\ file[f].offsets => file[f].descriptors = disk.descriptors
           /\ ~ file[f].offsets =>
                 Reads(file[f].grids, IdsIn(disk.descriptors), file[f].instancing)
<1> DEFINE ds == disk.descriptors
           table == file[f].descriptors
           instancing == file[f].instancing
           T == ByName(table)
<1>1. f \in Files /\ file[f].isOpen /\ Range(table) \subseteq Range(ds)
  BY DEF Readers
<1>2. FileType(f) /\ Shows(f)
  BY <1>1 DEF FileInv
<1>3. instancing \in BOOLEAN /\ table \in Seq(Descriptors) /\ Range(table) = Range(ds)
  BY <1>1, <1>2 DEF FileType, Shows
<1>4. ASSUME ~ file[f].offsets PROVE Reads(file[f].grids, IdsIn(ds), instancing)
  <2>1. file[f].grids = Connected(ReadAll(ds), T, instancing)
    BY <1>1, <1>2, <1>4 DEF Shows
  <2>2. Len(table) \in Nat /\ DOMAIN table = 1 .. Len(table)
    BY <1>3, LenProperties
  <2>3. FromFile(ds, ds)
    BY Tables
  <2> HIDE DEF table, ds, instancing
  <2>4. /\ Len(T) = Len(table) /\ DOMAIN T = DOMAIN table
        /\ \A n \in DOMAIN table : \E i \in DOMAIN table : T[n] = table[i]
        /\ \A i \in DOMAIN table : \E n \in DOMAIN table : T[n] = table[i]
    BY <2>2, ByNameFacts
  <2> HIDE DEF T
  <2>5. /\ \A i \in DOMAIN table : \E j \in DOMAIN ds : table[i] = ds[j]
        /\ \A j \in DOMAIN ds : \E i \in DOMAIN table : table[i] = ds[j]
    BY <1>3 DEF Range
  <2>6. Len(T) \in Nat /\ DOMAIN T = 1 .. Len(T)
    BY <2>2, <2>4
  <2>7. ASSUME NEW n \in DOMAIN T PROVE \E i \in DOMAIN ds : T[n] = ds[i]
    <3>1. PICK i \in DOMAIN table : T[n] = table[i]
      BY <2>4
    <3> QED
      BY <2>5, <3>1
  <2>8. ASSUME NEW j \in DOMAIN ds PROVE \E n \in DOMAIN T : T[n] = ds[j]
    <3>1. PICK i \in DOMAIN table : table[i] = ds[j]
      BY <2>5
    <3> QED
      BY <2>4, <3>1
  <2>9. Links(T, ds)
    BY <2>6, <2>7, <2>8 DEF Links
  <2>10. Reads(Connected(ReadAll(ds), T, instancing), IdsIn(ds), instancing)
    BY <1>3, <2>3, <2>9, ConnectedReads DEF ds
  <2> QED
    BY <2>1, <2>10
<1> QED
  BY <1>1, <1>2, <1>3, <1>4 DEF Shows

LEMMA StreamFacts ==
    ASSUME DiskInv, NEW instancing \in BOOLEAN
    PROVE  /\ Reads(Streamed(disk.descriptors, instancing), IdsIn(disk.descriptors), instancing)
           /\ Reads(Streamed(ByName(disk.descriptors), instancing), IdsIn(ByName(disk.descriptors)), instancing)
           /\ Covers(IdsIn(disk.descriptors)) /\ Covers(IdsIn(ByName(disk.descriptors)))
<1> DEFINE ds == disk.descriptors
           table == ByName(ds)
<1>1. /\ FromFile(ds, ds) /\ FromFile(table, ds)
      /\ Links(ds, ds) /\ Links(table, ds) /\ Links(table, table)
      /\ Len(IdsIn(ds)) = Len(ds) /\ Len(IdsIn(table)) = Len(ds)
      /\ DOMAIN IdsIn(ds) = DOMAIN ds /\ DOMAIN IdsIn(table) = DOMAIN ds
      /\ \A k \in DOMAIN ds : /\ \E i \in DOMAIN ds : IdsIn(ds)[i] = k
                              /\ \E i \in DOMAIN ds : IdsIn(table)[i] = k
  BY Tables
<1> HIDE DEF table
<1>2. /\ Reads(Connected(ReadAll(ds), ds, instancing), IdsIn(ds), instancing)
      /\ Reads(Connected(ReadAll(table), table, instancing), IdsIn(table), instancing)
  BY <1>1, ConnectedReads
<1>3. \A i \in DOMAIN ds : IdsIn(ds)[i] \in DOMAIN ds /\ IdsIn(table)[i] \in DOMAIN ds
  BY <1>1, <1>2 DEF Reads
<1>4. Covers(IdsIn(ds)) /\ Covers(IdsIn(table))
  BY <1>1, <1>3 DEF Covers
<1> QED
  BY <1>2, <1>4 DEF Streamed, table

\* File::getGrids without a clip.
LEMMA GetGridsWhole ==
    ASSUME DiskInv, FileInv, NEW f \in Readers
    PROVE  Complete(GetGrids(f, FALSE), FALSE) /\ Shared(GetGrids(f, FALSE), file[f].instancing)
<1> DEFINE instancing == file[f].instancing
           ds == disk.descriptors
           grids == GetGrids(f, FALSE)
<1>1. /\ f \in Files /\ instancing \in BOOLEAN
      /\ file[f].offsets => file[f].descriptors = ds
      /\ ~ file[f].offsets => Reads(file[f].grids, IdsIn(ds), instancing)
  BY ReaderFacts
<1>2. CASE ~ file[f].offsets
  <2>1. grids = file[f].grids
    BY <1>2 DEF GetGrids, ResolveCachedGrids
  <2>2. Covers(IdsIn(ds))
    BY <1>1, StreamFacts
  <2> HIDE DEF grids, instancing
  <2>3. Reads(grids, IdsIn(ds), instancing)
    BY <1>1, <1>2, <2>1
  <2>4. Complete(grids, FALSE)
    BY <1>1, <2>2, <2>3, ReadsComplete DEF Covers
  <2>5. Shared(grids, instancing)
    BY <1>1, <2>3, ReadsContract
  <2> QED
    BY <2>4, <2>5 DEF grids, instancing
<1>3. CASE file[f].offsets
  <2>1. grids = Streamed(ByName(ds), instancing)
    BY <1>1, <1>3 DEF GetGrids
  <2> DEFINE ids == IdsIn(ByName(ds))
  <2> HIDE DEF grids, instancing
  <2>2. Reads(grids, ids, instancing) /\ Covers(ids)
    BY <1>1, <2>1, StreamFacts
  <2> HIDE DEF ids
  <2>4. Complete(grids, FALSE)
    BY <1>1, <2>2, ReadsComplete DEF Covers
  <2>5. Shared(grids, instancing)
    BY <1>1, <2>2, ReadsContract
  <2> QED
    BY <2>4, <2>5 DEF grids, instancing
<1> QED
  BY <1>2, <1>3

\* Descriptors of the file, each once.
Picked(D) ==
    /\ Len(D) \in Nat /\ DOMAIN D = 1 .. Len(D)
    /\ \A i \in DOMAIN D : D[i].id \in DOMAIN disk.descriptors /\ D[i] = disk.descriptors[D[i].id]
    /\ \A i, j \in DOMAIN D : D[i].id = D[j].id => i = j

Singly(f, D, clip) == [i \in DOMAIN D |-> ReadGridFromDescriptor(f, D[i], clip)]

\* Grids that are read one by one, by descriptors of the file, share nothing.
LEMMA OneByOne ==
    ASSUME DiskInv, NEW f, file[f].descriptors = disk.descriptors, NEW D, Picked(D),
           NEW clip \in BOOLEAN, NEW instancing
    PROVE  Delivers(Singly(f, D, clip), IdsIn(D), clip) /\ SharesLess(Singly(f, D, clip), instancing)
<1> DEFINE ds == disk.descriptors
           ids == IdsIn(D)
           grids == Singly(f, D, clip)
<1> USE DEF Picked
<1>1. DOMAIN grids = DOMAIN D /\ DOMAIN ids = DOMAIN D
      /\ \A i \in DOMAIN D : ids[i] = D[i].id /\ grids[i] = ReadGridFromDescriptor(f, D[i], clip)
  BY DEF IdsIn, Singly
<1> HIDE DEF grids
<1>2. Len(grids) = Len(D) /\ Len(ids) = Len(D)
  <2>1. grids = [i \in 1 .. Len(D) |-> grids[i]] /\ ids = [i \in 1 .. Len(D) |-> ids[i]]
    BY DEF IdsIn, Singly, grids
  <2> HIDE DEF ids
  <2> QED
    BY <2>1, LenOf
<1>3. ASSUME NEW i \in DOMAIN D
      PROVE  grids[i].id = ids[i] /\ grids[i].owner = ds[ids[i]].unique /\ HasItsContent(grids[i], clip)
  <2> DEFINE k == ids[i]
             g == ReadGridFromDescriptor(f, ds[k], clip)
  <2>1. k \in DOMAIN ds /\ D[i] = ds[k] /\ grids[i] = g
    BY <1>1
  <2> HIDE DEF k, ds
  <2>2. g.id = k /\ g.owner = ds[k].unique /\ HasItsContent(g, clip)
    BY <2>1, DescriptorGrid DEF ds
  <2> HIDE DEF g
  <2> QED
    BY <2>1, <2>2 DEF k
<1>4. \A j, k \in DOMAIN ds : ds[j].unique = ds[k].unique => j = k
  BY DiskFile DEF FileOf
<1>5. \A i \in DOMAIN D : ids[i] \in DOMAIN ds
  BY <1>1
<1>6. \A i, j \in DOMAIN D : ids[i] = ids[j] => i = j
  BY <1>1
<1> HIDE DEF ids, ds
<1>7. Delivers(grids, ids, clip)
  BY <1>1, <1>2, <1>3 DEF Delivers
<1>8. \A i, j \in DOMAIN D : i # j => grids[i].owner # grids[j].owner
  BY <1>3, <1>4, <1>5, <1>6
<1>9. SharesLess(grids, instancing)
  BY <1>1, <1>8 DEF SharesLess
<1> QED
  BY <1>7, <1>9 DEF ids, grids

\* File::getGrids with a clip.
LEMMA GetGridsClipped ==
    ASSUME DiskInv, FileInv, NEW f \in Readers
    PROVE  Complete(GetGrids(f, TRUE), TRUE) /\ SharesLess(GetGrids(f, TRUE), file[f].instancing)
<1> DEFINE instancing == file[f].instancing
           ds == disk.descriptors
           grids == GetGrids(f, TRUE)
           clip == TRUE
<1>1. /\ f \in Files /\ instancing \in BOOLEAN
      /\ file[f].offsets => file[f].descriptors = ds
      /\ ~ file[f].offsets => Reads(file[f].grids, IdsIn(ds), instancing)
  BY ReaderFacts
<1>2. Covers(IdsIn(ds)) /\ Covers(IdsIn(ByName(ds)))
  BY <1>1, StreamFacts
<1>3. CASE ~ file[f].offsets
  <2>1. grids = ClippedCached(file[f].grids, instancing)
    BY <1>3 DEF GetGrids, ResolveCachedGrids
  <2> DEFINE cached == file[f].grids
             ids == IdsIn(ds)
  <2>2. clip = TRUE /\ clip \in BOOLEAN /\ Reads(cached, ids, instancing) /\ Covers(ids)
    BY <1>1, <1>2, <1>3
  <2> HIDE DEF instancing, clip, cached, ids
  <2>3. /\ Delivers(ClippedCached(cached, instancing), ids, clip)
        /\ SharesLess(ClippedCached(cached, instancing), instancing)
    BY <1>1, <2>2, ClippedCachedFacts
  <2> HIDE DEF grids
  <2>5. Delivers(grids, ids, clip) /\ SharesLess(grids, instancing)
    BY <2>1, <2>3 DEF cached
  <2>4. Complete(grids, clip)
    BY <2>2, <2>5, CompleteFacts
  <2> QED
    BY <2>4, <2>5 DEF grids, instancing, clip
<1>4. CASE file[f].offsets
  <2> DEFINE table == ByName(ds)
  <2>1. grids = Singly(f, table, clip)
    BY <1>1, <1>4 DEF GetGrids, Singly
  <2>2. FromFile(table, ds)
    BY Tables
  <2> HIDE DEF table
  <2>3. /\ Len(table) \in Nat /\ DOMAIN table = 1 .. Len(table)
        /\ \A i \in DOMAIN table : table[i].id \in DOMAIN ds /\ table[i] = ds[table[i].id]
        /\ \A i, j \in DOMAIN table : table[i].unique = table[j].unique => i = j
    BY <2>2 DEF FromFile, Closed
  <2>4. \A i, j \in DOMAIN table : table[i].id = table[j].id => i = j
    BY <2>3
  <2>5. clip \in BOOLEAN
    OBVIOUS
  <2> DEFINE ids == IdsIn(table)
  <2> HIDE DEF grids, instancing, clip
  <2>6. Delivers(grids, IdsIn(table), clip) /\ SharesLess(grids, instancing)
    <3>1. \A i \in DOMAIN table : table[i].id \in DOMAIN disk.descriptors
                                  /\ table[i] = disk.descriptors[table[i].id]
      BY <2>3
    <3> HIDE DEF ds
    <3>2. file[f].descriptors = disk.descriptors
      BY <1>1, <1>4 DEF ds
    <3>3. Picked(table)
      BY <2>3, <2>4, <3>1 DEF Picked
    <3> QED
      BY <2>1, <2>5, <3>2, <3>3, OneByOne
  <2>8. Covers(ids)
    BY <1>2 DEF table
  <2>9. Delivers(grids, ids, clip)
    BY <2>6
  <2> HIDE DEF ids
  <2>7. Complete(grids, clip)
    BY <2>5, <2>8, <2>9, CompleteFacts
  <2> QED
    BY <2>6, <2>7 DEF grids, instancing, clip
<1> QED
  BY <1>3, <1>4

\* The grids of a name, in the file's order.
LEMMA RangeFacts ==
    ASSUME DiskInv, NEW name
    PROVE  LET ds == disk.descriptors
               range == OfName(ds, name)
           IN  /\ Picked(range) /\ IdsIn(range) = IdsOf(name)
               /\ range \in Seq(DescriptorsOf(disk.list))
               /\ DOMAIN IdsOf(name) = DOMAIN range
               /\ \A i \in DOMAIN range : IdsOf(name)[i] = range[i].id
<1> DEFINE ds == disk.descriptors
           range == OfName(ds, name)
           I == {i \in DOMAIN ds : StripSuffix(ds[i].unique) = name}
<1>1. FileOf(ds, disk.list, disk.instancing)
  BY DiskFile
<1>2. /\ ds \in Seq(DescriptorsOf(disk.list)) /\ DOMAIN ds = DOMAIN Source
      /\ DOMAIN ds = 1 .. Len(ds) /\ Len(ds) \in Nat
      /\ \A i \in DOMAIN ds : ds[i].id = i /\ ds[i].unique.name = Source[i].name
  BY <1>1 DEF FileOf, Describes, Source
<1>3. I = {i \in DOMAIN Source : Source[i].name = name}
  BY <1>2 DEF StripSuffix
<1>4. range = Part(ds, I) /\ IdsOf(name) = Part([i \in DOMAIN Source |-> i], I)
  BY <1>3 DEF OfName, IdsOf
<1>5. I \in SUBSET DOMAIN ds
  OBVIOUS
<1> HIDE DEF I, ds, range
<1>6. /\ Part(ds, I) \in Seq(DescriptorsOf(disk.list))
      /\ DOMAIN Part(ds, I) = 1 .. Len(Part(ds, I))
      /\ Len(Part(ds, I)) = Cardinality(I) /\ Cardinality(I) \in Nat
      /\ \A n \in DOMAIN Part(ds, I) : Nth(I, n) \in I /\ Part(ds, I)[n] = ds[Nth(I, n)]
      /\ \A m, n \in DOMAIN Part(ds, I) : m < n => Nth(I, m) < Nth(I, n)
  BY <1>2, <1>5, PartFacts
<1>7. /\ range \in Seq(DescriptorsOf(disk.list))
      /\ DOMAIN range = 1 .. Len(range) /\ Len(range) = Cardinality(I) /\ Len(range) \in Nat
      /\ \A n \in DOMAIN range : Nth(I, n) \in DOMAIN ds /\ range[n] = ds[Nth(I, n)]
                                 /\ range[n].id = Nth(I, n)
      /\ \A m, n \in DOMAIN range : m < n => Nth(I, m) < Nth(I, n)
  BY <1>2, <1>4, <1>5, <1>6
<1>8. ASSUME NEW i \in DOMAIN range, NEW j \in DOMAIN range, range[i].id = range[j].id PROVE i = j
  <2>1. i \in Nat /\ j \in Nat /\ Nth(I, i) = Nth(I, j) /\ Nth(I, i) \in Nat
    BY <1>2, <1>7, <1>8
  <2>2. ~ (i < j) /\ ~ (j < i)
    BY <1>7, <2>1
  <2> QED
    BY <2>1, <2>2
<1>9. Picked(range)
  <2>1. \A i \in DOMAIN range : range[i].id \in DOMAIN ds /\ range[i] = ds[range[i].id]
    BY <1>7
  <2> QED
    BY <1>7, <1>8, <2>1 DEF Picked, ds
<1>10. IdsOf(name) = [n \in 1 .. Cardinality(I) |-> Nth(I, n)]
  <2>1. \A n \in 1 .. Cardinality(I) : Nth(I, n) \in DOMAIN Source
    BY <1>2, <1>7
  <2>2. \A n \in 1 .. Cardinality(I) : [i \in DOMAIN Source |-> i][Nth(I, n)] = Nth(I, n)
    BY <2>1
  <2> QED
    BY <1>4, <2>2 DEF Part
<1>11. IdsIn(range) = [n \in 1 .. Cardinality(I) |-> Nth(I, n)]
  <2>1. IdsIn(range) = [n \in 1 .. Cardinality(I) |-> range[n].id]
    BY <1>7 DEF IdsIn
  <2>2. \A n \in 1 .. Cardinality(I) : range[n].id = Nth(I, n)
    BY <1>7
  <2> QED
    BY <2>1, <2>2
<1>12. DOMAIN IdsOf(name) = DOMAIN range /\ \A i \in DOMAIN range : IdsOf(name)[i] = range[i].id
  BY <1>7, <1>10
<1> QED
  BY <1>7, <1>9, <1>10, <1>11, <1>12 DEF range, ds

\* All positions are each its own.
LEMMA PartOfAll ==
    ASSUME NEW D, NEW seq \in Seq(D)
    PROVE  Part(seq, DOMAIN seq) = seq
<1> DEFINE n == Len(seq)
           I == 1 .. n
<1>1. n \in Nat /\ DOMAIN seq = I /\ seq = [i \in I |-> seq[i]]
  BY LenProperties
<1>2. \A m \in I : {j \in I : j <= m} = 1 .. m
  BY <1>1
<1>3. \A m \in I : Cardinality(1 .. m) = m
  <2> SUFFICES ASSUME NEW m \in I PROVE Cardinality(1 .. m) = m
    OBVIOUS
  <2>1. m \in Nat /\ 1 \in Int /\ m \in Int
    BY <1>1
  <2> QED
    BY <2>1, FS_Interval
<1>4. Cardinality(I) = n
  BY <1>1, FS_Interval
<1> HIDE DEF I, n
<1>5. \A m \in I : Cardinality({j \in I : j <= m}) = m
  BY <1>2, <1>3
<1>6. \A m \in I : Nth(I, m) = m
  <2> SUFFICES ASSUME NEW m \in I PROVE Nth(I, m) = m
    OBVIOUS
  <2>1. \A i \in I : Cardinality({j \in I : j <= i}) = m <=> i = m
    BY <1>5
  <2> QED
    BY <2>1 DEF Nth
<1>7. Part(seq, I) = [m \in I |-> seq[Nth(I, m)]]
  BY <1>4 DEF Part, I
<1>8. \A m \in I : seq[Nth(I, m)] = seq[m]
  BY <1>6
<1> QED
  BY <1>1, <1>7, <1>8

\* Descriptors of the file, each once, are told by their unique names.
LEMMA PickedFacts ==
    ASSUME DiskInv, NEW D, Picked(D)
    PROVE  /\ \A i, j \in DOMAIN D : D[i].unique = D[j].unique => i = j
           /\ \A i \in DOMAIN D : D[i].unique = disk.descriptors[D[i].id].unique
           /\ \A i, j \in DOMAIN D : D[i] = D[j] => i = j
<1>1. \A j, k \in DOMAIN disk.descriptors :
          disk.descriptors[j].unique = disk.descriptors[k].unique => j = k
  BY DiskFile DEF FileOf
<1> QED
  BY <1>1 DEF Picked

\* A grid that open() has read is found by its unique name.
LEMMA CachedAt ==
    ASSUME DiskInv, NEW grids, NEW instancing \in BOOLEAN,
           Reads(grids, IdsIn(disk.descriptors), instancing),
           NEW k \in DOMAIN disk.descriptors
    PROVE  Named(grids, disk.descriptors[k].unique) = k /\ k # 0
           /\ grids[k] = Linked(disk.descriptors, k, instancing)
           /\ k \in DOMAIN grids /\ Len(grids) = Len(disk.descriptors)
<1> DEFINE ds == disk.descriptors
           ids == IdsIn(ds)
<1>1. /\ Len(ds) \in Nat /\ DOMAIN ds = 1 .. Len(ds) /\ \A i \in DOMAIN ds : ds[i].id = i
      /\ \A i, j \in DOMAIN ds : ds[i].unique = ds[j].unique => i = j
  BY DiskFile DEF FileOf, Describes
<1>2. DOMAIN ids = DOMAIN ds /\ \A i \in DOMAIN ds : ids[i] = i
  BY <1>1 DEF IdsIn
<1>3. Reads(grids, ids, instancing)
  OBVIOUS
<1> HIDE DEF ids
<1>4. Delivered(grids, ids)
  BY <1>3, ReadsContract
<1>5. /\ Len(ids) \in Nat /\ DOMAIN ids = 1 .. Len(ids)
      /\ Len(grids) = Len(ids) /\ DOMAIN grids = DOMAIN ids
      /\ \A i \in DOMAIN ids : grids[i].unique = ds[ids[i]].unique
      /\ grids = [i \in DOMAIN ids |-> Linked(ds, ids[i], instancing)]
  BY <1>3, <1>4 DEF Delivered, Reads
<1> DEFINE u == ds[k].unique
<1>6. /\ Len(grids) \in Nat /\ k \in 1 .. Len(grids) /\ grids[k].unique = u
      /\ \A i \in 1 .. Len(grids) : grids[i].unique = u => i = k
  <2>1. DOMAIN ids = DOMAIN ds /\ 1 .. Len(grids) = DOMAIN ids
    BY <1>2, <1>5
  <2>2. \A i \in DOMAIN ds : grids[i].unique = ds[i].unique
    BY <1>2, <1>5
  <2> QED
    BY <1>1, <1>5, <2>1, <2>2
<1>7. grids[k] = Linked(ds, k, instancing)
  BY <1>2, <1>5
<1>10. Len(grids) = Len(ds) /\ k # 0 /\ k \in DOMAIN grids
  BY <1>1, <1>2, <1>5
<1> HIDE DEF u, ds
<1>8. Named(grids, u) = k
  BY <1>6, NamedFacts
<1> QED
  BY <1>7, <1>8, <1>10 DEF u, ds

\* The descriptors of a name in a table.
LEMMA OfNameFacts ==
    ASSUME NEW D, NEW table \in Seq(D), NEW name
    PROVE  LET range == OfName(table, name)
           IN  /\ range \in Seq(D) /\ Len(range) \in Nat /\ DOMAIN range = 1 .. Len(range)
               /\ \A n \in DOMAIN range :
                     range[n] \in Range(table) /\ StripSuffix(range[n].unique) = name
               /\ \A d \in Range(table) :
                     StripSuffix(d.unique) = name => \E n \in DOMAIN range : range[n] = d
<1> DEFINE range == OfName(table, name)
           I == {i \in DOMAIN table : StripSuffix(table[i].unique) = name}
<1>1. range = Part(table, I) /\ I \in SUBSET DOMAIN table
  BY DEF OfName
<1>2. \A i \in I : table[i] \in Range(table) /\ StripSuffix(table[i].unique) = name
  BY DEF Range
<1>3. \A d \in Range(table) : StripSuffix(d.unique) = name => \E i \in I : table[i] = d
  BY DEF Range
<1> HIDE DEF I, range
<1>4. /\ Part(table, I) \in Seq(D)
      /\ DOMAIN Part(table, I) = 1 .. Len(Part(table, I))
      /\ Len(Part(table, I)) = Cardinality(I) /\ Cardinality(I) \in Nat
      /\ \A n \in DOMAIN Part(table, I) : Nth(I, n) \in I /\ Part(table, I)[n] = table[Nth(I, n)]
      /\ \A i \in I : \E n \in DOMAIN Part(table, I) : Nth(I, n) = i
  BY <1>1, PartFacts
<1>5. /\ range \in Seq(D) /\ Len(range) \in Nat /\ DOMAIN range = 1 .. Len(range)
      /\ \A n \in DOMAIN range : Nth(I, n) \in I /\ range[n] = table[Nth(I, n)]
      /\ \A i \in I : \E n \in DOMAIN range : Nth(I, n) = i
  BY <1>1, <1>4
<1>6. ASSUME NEW d \in Range(table), StripSuffix(d.unique) = name
      PROVE  \E n \in DOMAIN range : range[n] = d
  <2>1. PICK i \in I : table[i] = d
    BY <1>3, <1>6
  <2>2. PICK n \in DOMAIN range : Nth(I, n) = i
    BY <1>5
  <2> QED
    BY <1>5, <2>1, <2>2
<1> QED
  BY <1>2, <1>5, <1>6 DEF range

\* Those in the table of a File, perhaps several times, and the grids that they mean.
IdsRead(f, name) == IdsIn(OfName(file[f].descriptors, name))

LEMMA TableRange ==
    ASSUME DiskInv, FileInv, NEW f \in Readers, NEW name
    PROVE  LET ds == disk.descriptors
               range == OfName(file[f].descriptors, name)
               ids == IdsRead(f, name)
           IN  /\ range \in Seq(Descriptors) /\ Len(range) \in Nat /\ DOMAIN range = 1 .. Len(range)
               /\ DOMAIN ids = DOMAIN range /\ Len(ids) = Len(range)
               /\ \A i \in DOMAIN range : ids[i] \in DOMAIN ds /\ range[i] = ds[ids[i]]
               /\ Range(ids) = Range(IdsOf(name))
               /\ Fresh(f) => ids = IdsOf(name)
<1> DEFINE ds == disk.descriptors
           table == file[f].descriptors
           range == OfName(table, name)
           of == OfName(ds, name)
           ids == IdsRead(f, name)
<1>1. table \in Seq(Descriptors) /\ Range(table) = Range(ds)
  BY ReaderFacts
<1>2. \A k \in DOMAIN ds : ds[k].id = k
  BY DiskFile DEF FileOf, Describes
<1>3. ds \in Seq(Descriptors)
  BY WrittenType DEF DiskInv
<1>4. IdsIn(of) = IdsOf(name) /\ DOMAIN IdsOf(name) = DOMAIN of
      /\ \A i \in DOMAIN of : IdsOf(name)[i] = of[i].id
  BY RangeFacts
<1>5. Fresh(f) => ids = IdsOf(name)
  BY <1>4 DEF Fresh, IdsRead
<1>6. ids = [i \in DOMAIN range |-> range[i].id]
  BY DEF IdsRead, IdsIn
<1> HIDE DEF ds, table, ids
<1>7. /\ range \in Seq(Descriptors) /\ Len(range) \in Nat /\ DOMAIN range = 1 .. Len(range)
      /\ \A n \in DOMAIN range : range[n] \in Range(table) /\ StripSuffix(range[n].unique) = name
      /\ \A d \in Range(table) :
            StripSuffix(d.unique) = name => \E n \in DOMAIN range : range[n] = d
  BY <1>1, OfNameFacts
<1>8. /\ of \in Seq(Descriptors) /\ Len(of) \in Nat /\ DOMAIN of = 1 .. Len(of)
      /\ \A n \in DOMAIN of : of[n] \in Range(ds) /\ StripSuffix(of[n].unique) = name
      /\ \A d \in Range(ds) : StripSuffix(d.unique) = name => \E n \in DOMAIN of : of[n] = d
  BY <1>3, OfNameFacts
<1> HIDE DEF range, of
<1>9. DOMAIN ids = DOMAIN range /\ Len(ids) = Len(range) /\ \A i \in DOMAIN range : ids[i] = range[i].id
  <2>1. ids = [i \in 1 .. Len(range) |-> ids[i]]
    BY <1>6, <1>7
  <2> QED
    BY <1>6, <1>7, <2>1, LenOf
<1>10. ASSUME NEW i \in DOMAIN range PROVE ids[i] \in DOMAIN ds /\ range[i] = ds[ids[i]]
  <2>1. PICK k \in DOMAIN ds : range[i] = ds[k]
    BY <1>1, <1>7 DEF Range
  <2> QED
    BY <1>2, <1>9, <2>1
<1>11. Range(ids) = Range(IdsOf(name))
  <2>1. ASSUME NEW i \in DOMAIN ids PROVE \E n \in DOMAIN IdsOf(name) : IdsOf(name)[n] = ids[i]
    <3>1. range[i] \in Range(ds) /\ StripSuffix(range[i].unique) = name
      BY <1>1, <1>7, <1>9
    <3>2. PICK n \in DOMAIN of : of[n] = range[i]
      BY <1>8, <3>1
    <3> QED
      BY <1>4, <1>9, <3>2
  <2>2. ASSUME NEW n \in DOMAIN IdsOf(name) PROVE \E i \in DOMAIN ids : ids[i] = IdsOf(name)[n]
    <3>1. of[n] \in Range(table) /\ StripSuffix(of[n].unique) = name
      BY <1>1, <1>4, <1>8
    <3>2. PICK i \in DOMAIN range : range[i] = of[n]
      BY <1>7, <3>1
    <3> QED
      BY <1>4, <1>9, <3>2
  <2> QED
    BY <2>1, <2>2 DEF Range
<1> QED
  BY <1>5, <1>7, <1>9, <1>10, <1>11 DEF ds, range, table, ids

\* The grids of a name that open() has read.
CachedOf(f, range) ==
    LET cached == Part(range, {i \in DOMAIN range : Named(file[f].grids, range[i].unique) # 0})
    IN  [i \in DOMAIN cached |-> file[f].grids[Named(file[f].grids, cached[i].unique)]]

LEMMA CachedReads ==
    ASSUME DiskInv, FileInv, NEW f \in Readers, ~ file[f].offsets, NEW name
    PROVE  Reads(CachedOf(f, OfName(file[f].descriptors, name)), IdsRead(f, name), file[f].instancing)
<1> DEFINE ds == disk.descriptors
           range == OfName(file[f].descriptors, name)
           grids == file[f].grids
           instancing == file[f].instancing
           ids == IdsRead(f, name)
           cached == Part(range, {i \in DOMAIN range : Named(grids, range[i].unique) # 0})
<1>1. /\ range \in Seq(Descriptors) /\ Len(range) \in Nat /\ DOMAIN range = 1 .. Len(range)
      /\ DOMAIN ids = DOMAIN range /\ Len(ids) = Len(range)
      /\ \A i \in DOMAIN range : ids[i] \in DOMAIN ds /\ range[i] = ds[ids[i]]
  BY TableRange
<1>2. instancing \in BOOLEAN /\ Reads(grids, IdsIn(ds), instancing)
  BY ReaderFacts
<1> HIDE DEF range, grids, instancing, ids
<1>3. ASSUME NEW i \in DOMAIN range
      PROVE  /\ Named(grids, range[i].unique) # 0
             /\ grids[Named(grids, range[i].unique)] = Linked(ds, ids[i], instancing)
             /\ ids[i] \in DOMAIN ds
  <2> DEFINE k == ids[i]
  <2>1. k \in DOMAIN ds /\ range[i].unique = ds[k].unique
    BY <1>1
  <2> HIDE DEF k
  <2>2. Named(grids, ds[k].unique) = k /\ k # 0 /\ grids[k] = Linked(ds, k, instancing)
    BY <1>2, <2>1, CachedAt
  <2> QED
    BY <2>1, <2>2 DEF k
<1>4. cached = range
  <2>1. {i \in DOMAIN range : Named(grids, range[i].unique) # 0} = DOMAIN range
    BY <1>3
  <2>2. Part(range, DOMAIN range) = range
    BY <1>1, PartOfAll
  <2> QED
    BY <2>1, <2>2
<1>5. CachedOf(f, range) = [i \in DOMAIN cached |-> grids[Named(grids, cached[i].unique)]]
  BY DEF CachedOf, grids
<1>6. CachedOf(f, range) = [i \in DOMAIN ids |-> Linked(ds, ids[i], instancing)]
  <2> HIDE DEF cached, ds
  <2>1. CachedOf(f, range) = [i \in DOMAIN range |-> grids[Named(grids, range[i].unique)]]
    BY <1>4, <1>5
  <2> QED
    BY <1>1, <1>3, <2>1
<1> QED
  BY <1>1, <1>3, <1>6 DEF Reads, range, ids, instancing

\* What is read with the grids of a name: the parents that are not among them.
LEMMA ParentsFacts ==
    ASSUME DiskInv, NEW range, Picked(range)
    PROVE  LET P == ParentsOf(disk.descriptors, range)
           IN  /\ Picked(P) /\ P \in Seq(DescriptorsOf(disk.list))
               /\ \A i \in DOMAIN P : ~ IsInstance(P[i])
               /\ \A i \in DOMAIN P, j \in DOMAIN range : P[i].unique # range[j].unique
               /\ \A j \in DOMAIN range : IsInstance(range[j]) =>
                     \/ \E i \in DOMAIN range : range[i].unique = range[j].parent
                     \/ \E i \in DOMAIN P : P[i].unique = range[j].parent
<1> DEFINE ds == disk.descriptors
           C == {c \in Range(range) : IsInstance(c) /\ \A e \in Range(range) : e.unique # c.parent}
           J == {FindDescriptorByUniqueName(ds, d.parent) : d \in C}
           P == ParentsOf(ds, range)
<1>1. FileOf(ds, disk.list, disk.instancing) /\ IsSource(disk.list)
  BY DiskFile
<1>2. /\ ds \in Seq(DescriptorsOf(disk.list))
      /\ DOMAIN ds = 1 .. Len(ds) /\ Len(ds) \in Nat
      /\ \A i \in DOMAIN ds : ds[i].id = i
      /\ \A i, j \in DOMAIN ds : ds[i].unique = ds[j].unique => i = j
  BY <1>1 DEF FileOf, Describes
<1>3. Closed(ds)
  BY <1>1, FileParents
<1>4. /\ Len(range) \in Nat /\ DOMAIN range = 1 .. Len(range)
      /\ \A i \in DOMAIN range : range[i].id \in DOMAIN ds /\ range[i] = ds[range[i].id]
  BY DEF Picked
<1>5. P = Part(ds, J)
  BY DEF ParentsOf
<1> HIDE DEF ds, P
<1>6. ASSUME NEW c \in C
      PROVE  LET p == FindDescriptorByUniqueName(ds, c.parent)
             IN  /\ p \in DOMAIN ds /\ ~ IsInstance(ds[p]) /\ ds[p].unique = c.parent
                 /\ \A j \in DOMAIN range : ds[p].unique # range[j].unique
  <2>1. PICK j \in DOMAIN range : c = range[j]
    BY DEF Range
  <2> DEFINE k == range[j].id
  <2>2. k \in DOMAIN ds /\ c = ds[k] /\ IsInstance(ds[k])
    BY <1>4, <2>1
  <2> DEFINE p == ParentAt(ds, k)
             u == c.parent
  <2> HIDE DEF k
  <2>3. /\ p \in DOMAIN ds /\ ds[p].unique = u /\ ~ IsInstance(ds[p])
        /\ \A q \in DOMAIN ds : ds[q].unique = u => q = p
    BY <1>3, <2>2, ParentAtFacts
  <2>5. \A e \in Range(range) : e.unique # u
    OBVIOUS
  <2> HIDE DEF p, u
  <2>4. FindDescriptorByUniqueName(ds, u) = p
    <3>1. Len(ds) \in Nat /\ DOMAIN ds = 1 .. Len(ds)
      BY <1>2
    <3>2. p \in DOMAIN ds /\ ds[p].unique = u /\ \A i \in DOMAIN ds : ds[i].unique = u => i = p
      BY <2>3
    <3> QED
      BY <3>1, <3>2, ByUnique
  <2>6. \A l \in DOMAIN range : range[l] \in Range(range)
    BY DEF Range
  <2>7. \A l \in DOMAIN range : ds[p].unique # range[l].unique
    BY <2>3, <2>5, <2>6
  <2>8. FindDescriptorByUniqueName(ds, c.parent) = p /\ u = c.parent
    BY <2>4 DEF u
  <2> QED
    BY <2>3, <2>7, <2>8
<1>7. J \in SUBSET DOMAIN ds
  BY <1>6
<1>8. \A p \in J : /\ ~ IsInstance(ds[p])
                   /\ \A j \in DOMAIN range : ds[p].unique # range[j].unique
  BY <1>6
<1>9. ASSUME NEW j \in DOMAIN range, IsInstance(range[j]),
             \A i \in DOMAIN range : range[i].unique # range[j].parent
      PROVE  \E p \in J : ds[p].unique = range[j].parent
  <2>1. range[j] \in C
    <3>1. range[j] \in Range(range) /\ \A e \in Range(range) : \E i \in DOMAIN range : e = range[i]
      BY DEF Range
    <3> QED
      BY <1>9, <3>1
  <2>2. FindDescriptorByUniqueName(ds, range[j].parent) \in J
    BY <2>1
  <2> QED
    BY <1>6, <2>1, <2>2
<1> HIDE DEF J
<1>10. /\ Part(ds, J) \in Seq(DescriptorsOf(disk.list))
       /\ DOMAIN Part(ds, J) = 1 .. Len(Part(ds, J))
       /\ Len(Part(ds, J)) = Cardinality(J) /\ Cardinality(J) \in Nat
       /\ \A n \in DOMAIN Part(ds, J) : Nth(J, n) \in J /\ Part(ds, J)[n] = ds[Nth(J, n)]
       /\ \A i \in J : \E n \in DOMAIN Part(ds, J) : Nth(J, n) = i
       /\ \A m, n \in DOMAIN Part(ds, J) : m < n => Nth(J, m) < Nth(J, n)
  BY <1>2, <1>7, PartFacts
<1>11. /\ P \in Seq(DescriptorsOf(disk.list))
       /\ DOMAIN P = 1 .. Len(P) /\ Len(P) \in Nat
       /\ \A n \in DOMAIN P : /\ Nth(J, n) \in J /\ Nth(J, n) \in DOMAIN ds
                              /\ P[n] = ds[Nth(J, n)] /\ P[n].id = Nth(J, n)
       /\ \A i \in J : \E n \in DOMAIN P : Nth(J, n) = i
       /\ \A m, n \in DOMAIN P : m < n => Nth(J, m) < Nth(J, n)
  BY <1>2, <1>5, <1>7, <1>10
<1>12. ASSUME NEW i \in DOMAIN P, NEW j \in DOMAIN P, P[i].id = P[j].id PROVE i = j
  <2>1. i \in Nat /\ j \in Nat /\ Nth(J, i) = Nth(J, j) /\ Nth(J, i) \in Nat
    BY <1>2, <1>11, <1>12
  <2>2. ~ (i < j) /\ ~ (j < i)
    BY <1>11, <2>1
  <2> QED
    BY <2>1, <2>2
<1>13. Picked(P)
  <2>1. \A i \in DOMAIN P : P[i].id \in DOMAIN ds /\ P[i] = ds[P[i].id]
    BY <1>11
  <2> QED
    BY <1>11, <1>12, <2>1 DEF Picked, ds
<1>14. \A i \in DOMAIN P : /\ ~ IsInstance(P[i])
                           /\ \A j \in DOMAIN range : P[i].unique # range[j].unique
  BY <1>8, <1>11
<1>15. \A j \in DOMAIN range : IsInstance(range[j]) =>
                     \/ \E i \in DOMAIN range : range[i].unique = range[j].parent
                     \/ \E i \in DOMAIN P : P[i].unique = range[j].parent
  BY <1>9, <1>11
<1> QED
  BY <1>11, <1>13, <1>14, <1>15 DEF P, ds

\* Grids of a name with the parents that are missing, in a row.
LEMMA WithParents ==
    ASSUME DiskInv, NEW range, Picked(range), range \in Seq(DescriptorsOf(disk.list))
    PROVE  LET P == ParentsOf(disk.descriptors, range)
               D == range \o P
           IN  /\ FromFile(D, disk.descriptors) /\ Links(range, D)
               /\ ReadAll(range) \o ReadAll(P) = ReadAll(D)
               /\ Len(range) \in 0 .. Len(D) /\ \A i \in DOMAIN range : i \in DOMAIN D /\ D[i] = range[i]
<1> DEFINE ds == disk.descriptors
           P == ParentsOf(ds, range)
           D == range \o P
           r == Len(range)
           p == Len(P)
           X == DescriptorsOf(disk.list)
<1>1. /\ Picked(P) /\ P \in Seq(X)
      /\ \A i \in DOMAIN P : ~ IsInstance(P[i])
      /\ \A i \in DOMAIN P, j \in DOMAIN range : P[i].unique # range[j].unique
      /\ \A j \in DOMAIN range : IsInstance(range[j]) =>
               \/ \E i \in DOMAIN range : range[i].unique = range[j].parent
               \/ \E i \in DOMAIN P : P[i].unique = range[j].parent
  BY ParentsFacts
<1>2. FileOf(ds, disk.list, disk.instancing) /\ IsSource(disk.list)
  BY DiskFile
<1>3. Closed(ds)
  BY <1>2, FileParents
<1>4. /\ r \in Nat /\ DOMAIN range = 1 .. r /\ p \in Nat /\ DOMAIN P = 1 .. p
      /\ \A i \in DOMAIN range : range[i].id \in DOMAIN ds /\ range[i] = ds[range[i].id]
      /\ \A i \in DOMAIN P : P[i].id \in DOMAIN ds /\ P[i] = ds[P[i].id]
  BY <1>1 DEF Picked
<1>5. /\ \A i, j \in DOMAIN range : range[i].unique = range[j].unique => i = j
      /\ \A i, j \in DOMAIN range : range[i] = range[j] => i = j
      /\ \A i, j \in DOMAIN P : P[i].unique = P[j].unique => i = j
  BY <1>1, PickedFacts
<1> HIDE DEF P, X
<1>6. /\ D \in Seq(X) /\ Len(D) = r + p
      /\ \A i \in 1 .. r + p : D[i] = IF i <= r THEN range[i] ELSE P[i - r]
  BY <1>1, ConcatProperties DEF X
<1>7. DOMAIN D = 1 .. r + p
  BY <1>6, LenProperties
<1> HIDE DEF D, r, p, ds
<1>8. \A i \in 1 .. r : i \in DOMAIN D /\ D[i] = range[i]
  BY <1>4, <1>6, <1>7
<1>9. \A i \in 1 .. p : r + i \in DOMAIN D /\ D[r + i] = P[i]
  <2> SUFFICES ASSUME NEW i \in 1 .. p PROVE r + i \in DOMAIN D /\ D[r + i] = P[i]
    OBVIOUS
  <2>1. r + i \in 1 .. r + p /\ ~ (r + i <= r) /\ (r + i) - r = i
    BY <1>4
  <2>2. D[r + i] = P[(r + i) - r]
    <3> DEFINE j == r + i
    <3>1. j \in 1 .. r + p /\ ~ (j <= r)
      BY <2>1
    <3> HIDE DEF j
    <3>2. D[j] = P[j - r]
      BY <1>6, <3>1
    <3> QED
      BY <3>2 DEF j
  <2> QED
    BY <1>7, <2>1, <2>2
<1>10. \A i \in DOMAIN D : \/ i \in 1 .. r /\ D[i] = range[i]
                           \/ ~ (i \in 1 .. r) /\ i - r \in 1 .. p /\ D[i] = P[i - r] /\ i = r + (i - r)
  BY <1>4, <1>6, <1>7
<1>11. ASSUME NEW i \in DOMAIN D, NEW j \in DOMAIN D, D[i].unique = D[j].unique PROVE i = j
  <2>1. CASE i \in 1 .. r /\ j \in 1 .. r
    BY <1>4, <1>5, <1>8, <1>11, <2>1
  <2>2. CASE i \in 1 .. r /\ ~ (j \in 1 .. r)
    BY <1>1, <1>4, <1>10, <1>11, <2>2
  <2>3. CASE ~ (i \in 1 .. r) /\ j \in 1 .. r
    BY <1>1, <1>4, <1>10, <1>11, <2>3
  <2>4. CASE ~ (i \in 1 .. r) /\ ~ (j \in 1 .. r)
    <3>1. i - r \in DOMAIN P /\ j - r \in DOMAIN P /\ P[i - r].unique = P[j - r].unique
      BY <1>4, <1>10, <1>11, <2>4
    <3>2. i - r = j - r
      BY <1>5, <3>1
    <3> QED
      BY <1>10, <2>4, <3>2
  <2> QED
    BY <2>1, <2>2, <2>3, <2>4
<1>12. \A i \in DOMAIN D : D[i].id \in DOMAIN ds /\ D[i] = ds[D[i].id]
  BY <1>4, <1>10
<1>13. \A i \in DOMAIN D : IsInstance(D[i]) => i \in 1 .. r
  BY <1>1, <1>4, <1>10
<1>14. ASSUME NEW i \in DOMAIN D, IsInstance(D[i])
       PROVE  \E q \in DOMAIN D : D[q].unique = D[i].parent /\ ~ IsInstance(D[q])
  <2>1. i \in 1 .. r /\ D[i] = range[i]
    BY <1>8, <1>13, <1>14
  <2>2. PICK q \in DOMAIN D : D[q].unique = D[i].parent
    <3>1. CASE \E k \in DOMAIN range : range[k].unique = range[i].parent
      BY <1>4, <1>8, <2>1, <3>1
    <3>2. CASE \E k \in DOMAIN P : P[k].unique = range[i].parent
      <4>1. PICK k \in 1 .. p : P[k].unique = range[i].parent
        BY <1>4, <3>2
      <4> QED
        BY <1>9, <2>1, <4>1
    <3> QED
      BY <1>1, <1>4, <1>14, <2>1, <3>1, <3>2
  <2> DEFINE k == D[i].id
             l == D[q].id
  <2>3. /\ k \in DOMAIN ds /\ D[i] = ds[k] /\ l \in DOMAIN ds /\ D[q] = ds[l]
    BY <1>12
  <2> HIDE DEF k, l
  <2>4. IsInstance(ds[k]) /\ ds[l].unique = ds[k].parent
    BY <1>14, <2>2, <2>3
  <2>5. ~ IsInstance(ds[l])
    BY <1>3, <2>3, <2>4, ParentAtFacts
  <2> QED
    BY <2>2, <2>3, <2>5
<1>15. Closed(D)
  BY <1>4, <1>6, <1>7, <1>11, <1>14 DEF Closed
<1>16. FromFile(D, ds)
  BY <1>12, <1>15 DEF FromFile
<1>17. Links(range, D)
  <2>1. \A k \in DOMAIN range : \E i \in DOMAIN D : range[k] = D[i]
    BY <1>4, <1>8
  <2>2. \A i \in DOMAIN D : IsInstance(D[i]) => \E k \in DOMAIN range : range[k] = D[i]
    BY <1>4, <1>8, <1>13
  <2> QED
    BY <1>4, <1>5, <2>1, <2>2 DEF Links, r
<1>18. ReadAll(range) \o ReadAll(P) = ReadAll(D)
  <2> DEFINE R(d) == ReadFrom(d, Whole)
             Y == {R(d) : d \in X}
             A == ReadAll(range)
             B == ReadAll(P)
  <2>1. /\ \A i \in 1 .. r : range[i] \in X
        /\ \A i \in 1 .. p : P[i] \in X
    BY <1>1, <1>4, ElementOfSeq DEF X, r, p
  <2>2. A = [i \in 1 .. r |-> R(range[i])] /\ B = [i \in 1 .. p |-> R(P[i])]
    BY <1>4 DEF ReadAll
  <2>3. ReadAll(D) = [i \in 1 .. r + p |-> R(D[i])]
    BY <1>7 DEF ReadAll
  <2> HIDE DEF R, A, B
  <2>4. A \in [1 .. r -> Y] /\ B \in [1 .. p -> Y]
    BY <2>1, <2>2
  <2> HIDE DEF Y
  <2>5. A \in Seq(Y) /\ B \in Seq(Y) /\ Len(A) = r /\ Len(B) = p
    BY <1>4, <2>4
  <2>6. /\ A \o B \in Seq(Y) /\ Len(A \o B) = r + p
        /\ \A i \in 1 .. r + p : (A \o B)[i] = IF i <= r THEN A[i] ELSE B[i - r]
    BY <2>5, ConcatProperties
  <2>7. A \o B = [i \in 1 .. r + p |-> (A \o B)[i]]
    BY <2>6, LenProperties
  <2>8. ASSUME NEW i \in 1 .. r + p PROVE (A \o B)[i] = R(D[i])
    <3>1. CASE i <= r
      <4>1. i \in 1 .. r
        BY <1>4, <3>1
      <4> QED
        BY <1>8, <2>2, <2>6, <3>1, <4>1
    <3>2. CASE ~ (i <= r)
      <4>1. i - r \in 1 .. p
        BY <1>4, <3>2
      <4>2. (A \o B)[i] = B[i - r] /\ D[i] = P[i - r]
        BY <1>6, <2>6, <3>2
      <4> QED
        BY <2>2, <4>1, <4>2
    <3> QED
      BY <3>1, <3>2
  <2>9. A \o B = ReadAll(D)
    BY <2>3, <2>7, <2>8
  <2> QED
    BY <2>9 DEF A, B
<1>19. Len(range) \in 0 .. Len(D) /\ \A i \in DOMAIN range : i \in DOMAIN D /\ D[i] = range[i]
  BY <1>4, <1>6, <1>8 DEF r
<1> QED
  BY <1>16, <1>17, <1>18, <1>19 DEF P, D, ds

\* The grids of a name, connected to each other and to the parents that are missing.
ConnectedOf(name, instancing) ==
    LET range == OfName(disk.descriptors, name)
        read == ReadAll(range) \o ReadAll(ParentsOf(disk.descriptors, range))
    IN  SubSeq(Connected(read, range, instancing), 1, Len(range))

LEMMA RangeReads ==
    ASSUME DiskInv, NEW name, NEW instancing \in BOOLEAN
    PROVE  Reads(ConnectedOf(name, instancing), IdsOf(name), instancing)
<1> DEFINE ds == disk.descriptors
           range == OfName(ds, name)
           P == ParentsOf(ds, range)
           D == range \o P
           G == Connected(ReadAll(D), range, instancing)
           ids == IdsOf(name)
           r == Len(range)
           all == IdsIn(D)
           S == SubSeq(G, 1, r)
<1>1. /\ Picked(range) /\ range \in Seq(DescriptorsOf(disk.list))
      /\ DOMAIN ids = DOMAIN range
      /\ \A i \in DOMAIN range : ids[i] = range[i].id
      /\ IdsIn(range) = ids
  BY RangeFacts
<1> HIDE DEF range, ids
<1>2. /\ FromFile(D, ds) /\ Links(range, D)
      /\ ReadAll(range) \o ReadAll(P) = ReadAll(D)
      /\ r \in 0 .. Len(D) /\ \A i \in DOMAIN range : i \in DOMAIN D /\ D[i] = range[i]
  BY <1>1, WithParents
<1>3. ConnectedOf(name, instancing) = S
  BY <1>2 DEF ConnectedOf, range
<1>4. r \in Nat /\ DOMAIN range = 1 .. r
  BY <1>1 DEF Picked
<1> HIDE DEF D, P
<1>5. Reads(G, all, instancing)
  BY <1>2, ConnectedReads
<1>6. DOMAIN all = DOMAIN D /\ \A i \in DOMAIN D : all[i] = D[i].id
  BY DEF IdsIn
<1> HIDE DEF G, all, ds, r
<1>7. Delivered(G, all)
  BY <1>5, ReadsContract
<1>8. /\ Len(all) \in Nat /\ DOMAIN all = 1 .. Len(all)
      /\ \A i \in DOMAIN all : G[i] = Linked(ds, all[i], instancing) /\ all[i] \in DOMAIN ds
  BY <1>5 DEF Reads, ds
<1>9. G \in Seq(Range(G)) /\ DOMAIN G = DOMAIN all /\ Len(G) = Len(all)
  BY <1>7 DEF Delivered
<1>10. ASSUME NEW i \in 1 .. r
       PROVE  i \in DOMAIN all /\ all[i] = ids[i] /\ G[i] = Linked(ds, ids[i], instancing)
              /\ ids[i] \in DOMAIN ds
  <2>1. i \in DOMAIN D /\ D[i] = range[i] /\ ids[i] = range[i].id
    BY <1>1, <1>2, <1>4
  <2>2. i \in DOMAIN all /\ all[i] = ids[i]
    BY <1>6, <2>1
  <2> QED
    BY <1>8, <2>2
<1>11. S \in Seq(Range(G)) /\ Len(S) = r /\ \A i \in 1 .. r : S[i] = G[i]
  <2>1. \A i \in 1 .. r : G[i] \in Range(G)
    BY <1>9, <1>10 DEF Range
  <2>2. r \in Int /\ 1 \in Int /\ (IF 1 <= r THEN (r - 1) + 1 ELSE 0) = r
        /\ 1 .. (r - 1) + 1 = 1 .. r /\ \A i \in 1 .. r : (1 + i) - 1 = i
    BY <1>4
  <2>3. /\ SubSeq(G, 1, r) \in Seq(Range(G))
        /\ Len(SubSeq(G, 1, r)) = IF 1 <= r THEN r - 1 + 1 ELSE 0
        /\ \A i \in 1 .. r - 1 + 1 : SubSeq(G, 1, r)[i] = G[1 + i - 1]
    BY <2>1, <2>2, SubSeqProperties
  <2> QED
    BY <2>2, <2>3
<1> HIDE DEF S
<1>12. S = [i \in 1 .. r |-> S[i]]
  BY <1>11, LenProperties
<1>13. S = [i \in DOMAIN ids |-> Linked(ds, ids[i], instancing)]
  BY <1>1, <1>4, <1>10, <1>11, <1>12
<1>14. Len(ids) = r /\ DOMAIN ids = 1 .. r
  <2>1. ids = [i \in 1 .. r |-> ids[i]]
    <3>1. ids = [i \in DOMAIN range |-> range[i].id]
      BY <1>1 DEF IdsIn
    <3> QED
      BY <1>4, <3>1
  <2> QED
    BY <1>4, <2>1, LenOf
<1>15. \A i \in DOMAIN ids : ids[i] \in DOMAIN ds
  BY <1>10, <1>14
<1> QED
  BY <1>3, <1>4, <1>13, <1>14, <1>15 DEF Reads, ids, ds

\* File::readGrids without a clip.
LEMMA ReadGridsWhole ==
    ASSUME DiskInv, FileInv, NEW f \in Readers, NEW name
    PROVE  Reads(ReadGrids(f, name, FALSE), IdsRead(f, name), file[f].instancing)
<1>1. /\ file[f].instancing \in BOOLEAN
      /\ file[f].offsets => file[f].descriptors = disk.descriptors
  BY ReaderFacts
<1>2. CASE ~ file[f].offsets
  <2>1. ReadGrids(f, name, FALSE) = CachedOf(f, OfName(file[f].descriptors, name))
    BY <1>2 DEF ReadGrids, CachedOf, ResolveCachedGrids
  <2> QED
    BY <1>2, <2>1, CachedReads
<1>3. CASE file[f].offsets
  <2>1. ReadGrids(f, name, FALSE) = ConnectedOf(name, file[f].instancing)
    BY <1>1, <1>3 DEF ReadGrids, ConnectedOf
  <2> DEFINE instancing == file[f].instancing
  <2> HIDE DEF instancing
  <2>2. instancing \in BOOLEAN
    BY <1>1 DEF instancing
  <2>3. Reads(ConnectedOf(name, instancing), IdsOf(name), instancing)
    BY <2>2, RangeReads
  <2>4. IdsRead(f, name) = IdsOf(name)
    BY <1>1, <1>3, TableRange DEF Fresh
  <2> QED
    BY <2>1, <2>3, <2>4 DEF instancing
<1> QED
  BY <1>2, <1>3

\* With a clip.
LEMMA ReadGridsClipped ==
    ASSUME DiskInv, FileInv, NEW f \in Readers, NEW name, NEW clip \in BOOLEAN, clip = TRUE
    PROVE  Delivers(ReadGrids(f, name, clip), IdsRead(f, name), clip)
<1> DEFINE ids == IdsRead(f, name)
           grids == ReadGrids(f, name, clip)
           instancing == file[f].instancing
           range == OfName(file[f].descriptors, name)
<1>1. instancing \in BOOLEAN /\ (file[f].offsets => file[f].descriptors = disk.descriptors)
  BY ReaderFacts
<1>2. CASE ~ file[f].offsets
  <2> DEFINE cached == CachedOf(f, range)
  <2>1. grids = ClippedCached(cached, instancing)
    BY <1>2 DEF ReadGrids, CachedOf, ResolveCachedGrids
  <2>2. Reads(cached, ids, instancing)
    BY <1>2, CachedReads
  <2> HIDE DEF cached, ids, instancing, grids
  <2>3. Delivers(ClippedCached(cached, instancing), ids, clip)
    BY <1>1, <2>2, ClippedCachedFacts
  <2> QED
    BY <2>1, <2>3 DEF ids, grids
<1>3. CASE file[f].offsets
  <2>1. grids = Singly(f, range, clip)
    BY <1>3 DEF ReadGrids, Singly
  <2>2. Picked(range)
    BY <1>1, <1>3, RangeFacts
  <2>3. ids = IdsIn(range)
    BY DEF IdsRead
  <2> HIDE DEF range, ids, grids, instancing
  <2>4. Delivers(Singly(f, range, clip), IdsIn(range), clip)
    BY <1>1, <1>3, <2>2, OneByOne
  <2> QED
    BY <2>1, <2>3, <2>4 DEF ids, grids
<1> QED
  BY <1>2, <1>3

\* All grids of a name are read.
LEMMA NamedComplete ==
    ASSUME DiskInv, FileInv, NEW f \in Readers, NEW name, NEW clip \in BOOLEAN
    PROVE  AllOfName(f, name, clip)
<1> DEFINE grids == ReadGrids(f, name, clip)
           ids == IdsRead(f, name)
<1>1. Delivers(grids, ids, clip)
  <2>1. CASE clip = TRUE
    BY <2>1, ReadGridsClipped
  <2>2. CASE clip = FALSE
    <3> DEFINE whole == ReadGrids(f, name, FALSE)
               instancing == file[f].instancing
    <3>1. Reads(whole, ids, instancing) /\ instancing \in BOOLEAN
      BY ReadGridsWhole, ReaderFacts
    <3>2. grids = whole
      BY <2>2
    <3> HIDE DEF whole, ids, instancing, grids
    <3>3. Delivered(whole, ids)
      BY <3>1, ReadsContract
    <3>4. \A i \in DOMAIN ids : whole[i].id = ids[i] /\ HasItsContent(whole[i], clip)
      <4>1. \A i \in DOMAIN ids : whole[i].id = ids[i] /\ HasItsContent(whole[i], FALSE)
        BY <3>3 DEF Delivered
      <4> QED
        BY <2>2, <4>1 DEF HasItsContent
    <3> QED
      BY <3>2, <3>3, <3>4 DEF Delivered, Delivers
  <2> QED
    BY <2>1, <2>2
<1>2. ids = [i \in DOMAIN ids |-> ids[i]]
  BY DEF IdsRead, IdsIn
<1>3. [i \in DOMAIN grids |-> grids[i].id] = ids
  <2> HIDE DEF grids, ids
  <2>1. DOMAIN grids = DOMAIN ids /\ \A i \in DOMAIN ids : grids[i].id = ids[i]
    BY <1>1 DEF Delivers
  <2> QED
    BY <1>2, <2>1
<1>5. IF Fresh(f) THEN ids = IdsOf(name) ELSE Range(ids) = Range(IdsOf(name))
  BY TableRange
<1>4. \A grid \in Range(grids) : HasItsContent(grid, clip)
  <2> HIDE DEF grids, ids
  <2> SUFFICES ASSUME NEW grid \in Range(grids) PROVE HasItsContent(grid, clip)
    OBVIOUS
  <2>1. PICK i \in DOMAIN grids : grid = grids[i]
    BY DEF Range
  <2> QED
    BY <1>1, <2>1 DEF Delivers
<1> QED
  BY <1>3, <1>4, <1>5 DEF AllOfName

\* File::getGrids, with and without a clip.
LEMMA AllComplete ==
    ASSUME DiskInv, FileInv, NEW f \in Readers, NEW clip \in BOOLEAN
    PROVE  Complete(GetGrids(f, clip), clip)
<1>1. CASE clip = TRUE
  <2>1. Complete(GetGrids(f, TRUE), TRUE)
    BY GetGridsClipped
  <2> QED
    BY <1>1, <2>1
<1>2. CASE clip = FALSE
  <2>1. Complete(GetGrids(f, FALSE), FALSE)
    BY GetGridsWhole
  <2> QED
    BY <1>2, <2>1
<1> QED
  BY <1>1, <1>2

LEMMA SharingInv == DiskInv /\ FileInv => SharingMeetsContract
<1> SUFFICES ASSUME DiskInv, FileInv PROVE SharingMeetsContract
  OBVIOUS
<1>1. ASSUME NEW f \in Readers
      PROVE  /\ Shared(GetGrids(f, FALSE), file[f].instancing)
             /\ \A name \in Range(Alphabet) : Shared(ReadGrids(f, name, FALSE), file[f].instancing)
             /\ SharesLess(GetGrids(f, TRUE), file[f].instancing)
  <2> DEFINE instancing == file[f].instancing
  <2>1. Shared(GetGrids(f, FALSE), instancing) /\ SharesLess(GetGrids(f, TRUE), instancing)
    BY GetGridsWhole, GetGridsClipped
  <2>2. ASSUME NEW name \in Range(Alphabet)
        PROVE  Shared(ReadGrids(f, name, FALSE), instancing)
    <3> DEFINE grids == ReadGrids(f, name, FALSE)
               ids == IdsRead(f, name)
    <3>1. Reads(grids, ids, instancing) /\ instancing \in BOOLEAN
      BY ReadGridsWhole, ReaderFacts
    <3> HIDE DEF grids, instancing, ids
    <3>2. Shared(grids, instancing)
      BY <3>1, ReadsContract
    <3> QED
      BY <3>2 DEF grids
  <2> QED
    BY <2>1, <2>2
<1>2. ASSUME NEW instancing \in BOOLEAN
      PROVE  Shared(Streamed(disk.descriptors, instancing), instancing)
  <2> DEFINE grids == Streamed(disk.descriptors, instancing)
             ids == IdsIn(disk.descriptors)
  <2>1. Reads(grids, ids, instancing)
    BY StreamFacts
  <2> HIDE DEF grids, ids
  <2>2. Shared(grids, instancing)
    BY <2>1, ReadsContract
  <2> QED
    BY <2>2 DEF grids
<1> QED
  BY <1>1, <1>2 DEF SharingMeetsContract, SharesLess

\* Grids share a tree after reading exactly if they did when they were written and both
\* sides have enabled it, whether all grids are read, those of one name, or a Stream is:
\* the parent of an instance (Archive::connectInstance) is the one grid that its tree was
\* stored with.  A clip only takes sharing away (File::resolveCachedGrids).
THEOREM SharingCorrect == ArchiveSpec => []SharingMeetsContract
BY ArchiveInv, SharingInv, PTL

LEMMA StreamComplete ==
    ASSUME DiskInv, NEW instancing \in BOOLEAN
    PROVE  Complete(Streamed(disk.descriptors, instancing), FALSE)
<1> DEFINE grids == Streamed(disk.descriptors, instancing)
           ids == IdsIn(disk.descriptors)
<1>1. Reads(grids, ids, instancing) /\ Covers(ids)
  BY StreamFacts
<1> HIDE DEF grids, ids
<1>2. Complete(grids, FALSE)
  BY <1>1, ReadsComplete DEF Covers
<1> QED
  BY <1>2 DEF grids

-----------------------------------------------------------------------------
(* Looking up by name.                                                      *)

IsName(name) ==
    /\ name = [stem |-> name.stem, brackets |-> name.brackets]
    /\ name.brackets \in Seq(Nat)

\* Reading the string of a name without a suffix, and of a unique name.
LEMMA NameOfPlain ==
    ASSUME NEW name, IsName(name)
    PROVE  NameAsString(Plain(name)) = name /\ NameAsString(StringAsUniqueName(name)) = name
<1>1. name = [stem |-> name.stem, brackets |-> name.brackets] /\ name.brackets \in Seq(Nat)
  BY DEF IsName
<1>2. name.brackets \o <<>> = name.brackets /\ <<>> \o name.brackets = name.brackets
  BY <1>1, ConcatEmptySeq
<1>3. NameAsString(Plain(name)) = [name EXCEPT !.brackets = name.brackets \o <<>>]
  BY DEF NameAsString, Plain
<1>4. [name EXCEPT !.brackets = name.brackets] = name
  BY <1>1
<1>5. StringAsUniqueName(name) = [name |-> [name EXCEPT !.brackets = <<>>], suffix |-> name.brackets]
  BY DEF StringAsUniqueName
<1>6. NameAsString(StringAsUniqueName(name))
        = [[name EXCEPT !.brackets = <<>>] EXCEPT !.brackets = [name EXCEPT !.brackets = <<>>].brackets \o name.brackets]
  <2> DEFINE s == StringAsUniqueName(name)
             bare == [name EXCEPT !.brackets = <<>>]
  <2>1. s.name = bare /\ s.suffix = name.brackets
    BY <1>5
  <2> HIDE DEF s, bare
  <2>2. NameAsString(s) = [bare EXCEPT !.brackets = bare.brackets \o name.brackets]
    BY <2>1 DEF NameAsString
  <2> QED
    BY <2>2 DEF s, bare
<1>7. [name EXCEPT !.brackets = <<>>].brackets = <<>>
  BY <1>1
<1>8. [[name EXCEPT !.brackets = <<>>] EXCEPT !.brackets = name.brackets] = name
  BY <1>1
<1> QED
  BY <1>2, <1>3, <1>4, <1>6, <1>7, <1>8

LEMMA UniqueOfBare ==
    ASSUME NEW name, IsName(name), name.brackets = <<>>
    PROVE  StringAsUniqueName(name) = Plain(name)
<1>1. name = [stem |-> name.stem, brackets |-> name.brackets]
  BY DEF IsName
<1>2. [name EXCEPT !.brackets = <<>>] = name
  BY <1>1
<1> QED
  BY <1>2 DEF StringAsUniqueName, Plain

LEMMA UniqueOfSuffix ==
    ASSUME NEW name, IsName(name), name.brackets = <<>>, NEW k \in Nat
    PROVE  LET n == NameAsString(AddSuffix(name, k))
           IN  /\ IsName(n) /\ StringAsUniqueName(n) = AddSuffix(name, k)
               /\ StringAsUniqueName(n) # Plain(n)
<1> DEFINE n == NameAsString(AddSuffix(name, k))
<1>1. name = [stem |-> name.stem, brackets |-> name.brackets]
  BY DEF IsName
<1>2. n = [name EXCEPT !.brackets = name.brackets \o <<k>>]
  BY DEF NameAsString, AddSuffix
<1>3. <<>> \o <<k>> = <<k>> /\ <<k>> \in Seq(Nat) /\ <<k>> # <<>>
  <2>1. <<k>> \in Seq(Nat)
    OBVIOUS
  <2>2. <<>> \o <<k>> = <<k>>
    BY <2>1, ConcatEmptySeq
  <2>3. Len(<<k>>) = 1 /\ Len(<<>>) = 0
    OBVIOUS
  <2> QED
    BY <2>1, <2>2, <2>3
<1>4. n = [stem |-> name.stem, brackets |-> <<k>>]
  BY <1>1, <1>2, <1>3
<1>5. n.brackets = <<k>> /\ n.stem = name.stem
  BY <1>4
<1> HIDE DEF n
<1>6. IsName(n)
  BY <1>3, <1>4, <1>5 DEF IsName
<1>7. [n EXCEPT !.brackets = <<>>] = name
  BY <1>1, <1>4
<1>8. StringAsUniqueName(n) = AddSuffix(name, k)
  BY <1>5, <1>7 DEF StringAsUniqueName, AddSuffix
<1>9. AddSuffix(name, k).suffix = <<k>> /\ Plain(n).suffix = <<>>
  BY DEF AddSuffix, Plain
<1>10. StringAsUniqueName(n) # Plain(n)
  BY <1>3, <1>8, <1>9
<1> QED
  BY <1>6, <1>8, <1>10 DEF n

\* The name that the file lists a grid by, and the unique names that it leads to.
LEMMA Listed ==
    ASSUME DiskInv, NEW i \in DOMAIN disk.descriptors, Unambiguous(disk.descriptors[i].unique)
    PROVE  LET d == disk.descriptors[i].unique
               n == NameAsString(d)
           IN  /\ IsName(n)
               /\ \/ d = Plain(n)
                  \/ d = StringAsUniqueName(n) /\ StringAsUniqueName(n) # Plain(n)
               /\ \A j \in DOMAIN disk.descriptors :
                     disk.descriptors[j].unique \in {Plain(n), StringAsUniqueName(n)} => j = i
<1> DEFINE ds == disk.descriptors
           d == ds[i].unique
           n == NameAsString(d)
           name == disk.list[i].name
<1>1. FileOf(ds, disk.list, disk.instancing) /\ IsSource(disk.list)
  BY DiskFile
<1>2. /\ NameGiven(disk.list, ds[i], disk.list[i]) /\ d.name = name /\ i \in DOMAIN disk.list
      /\ \A j, k \in DOMAIN ds : ds[j].unique = ds[k].unique => j = k
  BY <1>1 DEF FileOf, Describes
<1>3. name \in Range(Alphabet)
  BY <1>1, <1>2 DEF IsSource
<1>4. IsName(name)
  BY <1>3, NameFacts DEF IsName
<1>5. /\ d.suffix = <<>> \/ d.name.brackets = <<>>
      /\ \A e \in Range(ds) : e.unique # d => NameAsString(e.unique) # n
  BY DEF Unambiguous
<1> DEFINE Told(m) == /\ IsName(m)
                      /\ \/ d = Plain(m)
                         \/ d = StringAsUniqueName(m) /\ StringAsUniqueName(m) # Plain(m)
<1>6. ASSUME d = Plain(name) PROVE Told(n)
  <2>1. n = name
    <3> HIDE DEF name, d
    <3>1. NameAsString(Plain(name)) = name
      BY <1>4, NameOfPlain
    <3> QED
      BY <1>6, <3>1
  <2> QED
    BY <1>4, <1>6, <2>1
<1>7. ASSUME \E k \in Nat : d = AddSuffix(name, k) PROVE Told(n)
  <2>1. PICK k \in Nat : d = AddSuffix(name, k)
    BY <1>7
  <2>2. d.suffix # <<>>
    BY <2>1, SuffixFacts
  <2>3. name.brackets = <<>>
    BY <1>2, <1>5, <2>2
  <2> HIDE DEF name, d
  <2>4. LET m == NameAsString(AddSuffix(name, k))
        IN  /\ IsName(m) /\ StringAsUniqueName(m) = AddSuffix(name, k)
            /\ StringAsUniqueName(m) # Plain(m)
    BY <1>4, <2>3, UniqueOfSuffix
  <2>5. n = NameAsString(AddSuffix(name, k))
    BY <2>1
  <2> HIDE DEF n
  <2> QED
    BY <2>1, <2>4, <2>5
<1>8. Told(n)
  BY <1>2, <1>6, <1>7 DEF NameGiven
<1>9. ASSUME NEW j \in DOMAIN ds, ds[j].unique \in {Plain(n), StringAsUniqueName(n)}
      PROVE  j = i
  <2>1. ds[j] \in Range(ds)
    BY DEF Range
  <2> HIDE DEF n
  <2>2. NameAsString(ds[j].unique) = n
    BY <1>8, <1>9, NameOfPlain
  <2>3. ds[j].unique = d
    BY <1>5, <2>1, <2>2
  <2> QED
    BY <1>2, <2>3
<1> QED
  BY <1>8, <1>9

\* A grid that open() has read and that is found by a unique name is the one that has it.
LEMMA CachedIs ==
    ASSUME DiskInv, NEW grids, NEW instancing \in BOOLEAN,
           Reads(grids, IdsIn(disk.descriptors), instancing), NEW u, Named(grids, u) # 0
    PROVE  Named(grids, u) \in DOMAIN disk.descriptors
           /\ disk.descriptors[Named(grids, u)].unique = u
<1> DEFINE ds == disk.descriptors
           ids == IdsIn(ds)
           I == {j \in 1 .. Len(grids) : grids[j].unique = u}
<1>1. Named(grids, u) = IF I # {} THEN Max(I) ELSE 0
  BY DEF Named, SelectLastInSeq
<1>2. PICK j \in 1 .. Len(grids) : grids[j].unique = u
  BY <1>1
<1>3. \A k \in DOMAIN ds : ds[k].id = k
  BY DiskFile DEF FileOf, Describes
<1>4. DOMAIN ids = DOMAIN ds /\ \A k \in DOMAIN ds : ids[k] = k
  BY <1>3 DEF IdsIn
<1>5. Reads(grids, ids, instancing)
  OBVIOUS
<1> HIDE DEF ids
<1>6. Delivered(grids, ids) /\ DOMAIN ids = 1 .. Len(ids)
  BY <1>5, ReadsContract DEF Reads
<1>7. j \in DOMAIN ids /\ grids[j].unique = ds[ids[j]].unique
  BY <1>2, <1>6 DEF Delivered
<1>8. j \in DOMAIN ds /\ ds[j].unique = u
  BY <1>2, <1>4, <1>7
<1>9. Named(grids, ds[j].unique) = j
  BY <1>8, CachedAt
<1> QED
  BY <1>8, <1>9

\* The descriptors that findDescriptor() may mean.
Meant(table, name) ==
    LET unique == StringAsUniqueName(name)
        group == IF \E d \in Range(table) : StripSuffix(d.unique) = name
                 THEN name ELSE StripSuffix(unique)
    IN  {i \in 1 .. Len(table) :
            /\ StripSuffix(table[i].unique) = group
            /\ unique = Plain(name) \/ table[i].unique \in {unique, Plain(name)}}

LEMMA FoundIn ==
    ASSUME NEW table, NEW name
    PROVE  /\ FindDescriptor(table, name)
                 = IF Meant(table, name) # {} THEN Min(Meant(table, name)) ELSE 0
           /\ Meant(table, name) # {} =>
                 /\ FindDescriptor(table, name) \in Meant(table, name)
                 /\ \A i \in Meant(table, name) : FindDescriptor(table, name) <= i
<1>1. FindDescriptor(table, name) = IF Meant(table, name) # {} THEN Min(Meant(table, name)) ELSE 0
  BY DEF FindDescriptor, Meant, SelectInSeq
<1>2. Meant(table, name) \in SUBSET Nat
  BY DEF Meant
<1> QED
  BY <1>1, <1>2, MinFact

\* A File with offsets finds a grid by the name that it is listed by.
LEMMA FoundAsListed ==
    ASSUME DiskInv, NEW i \in DOMAIN disk.descriptors, Unambiguous(disk.descriptors[i].unique),
           ~ InTheWay(NameAsString(disk.descriptors[i].unique))
    PROVE  FindDescriptor(disk.descriptors, NameAsString(disk.descriptors[i].unique)) = i
<1> DEFINE ds == disk.descriptors
           d == ds[i].unique
           n == NameAsString(d)
           s == StringAsUniqueName(n)
<1>1. /\ IsName(n)
      /\ d = Plain(n) \/ (d = s /\ s # Plain(n))
      /\ \A j \in DOMAIN ds : ds[j].unique \in {Plain(n), s} => j = i
  BY Listed
<1>2. DOMAIN ds = 1 .. Len(ds)
  BY DiskFile DEF FileOf
<1>3. \A j \in DOMAIN ds : StripSuffix(ds[j].unique) = n => ds[j].unique = Plain(n)
  BY DEF InTheWay, Range
<1>4. StripSuffix(Plain(n)) = n
  BY DEF StripSuffix, Plain
<1> DEFINE some == \E e \in Range(ds) : StripSuffix(e.unique) = n
<1>5. Meant(ds, n) = {i}
  <2>1. some <=> d = Plain(n)
    <3>1. some => \E j \in DOMAIN ds : ds[j].unique = Plain(n)
      BY <1>3 DEF Range
    <3>2. some => ds[i].unique = Plain(n)
      BY <1>1, <3>1
    <3>3. ds[i] \in Range(ds)
      BY DEF Range
    <3>4. d = Plain(n) => some
      BY <1>4, <3>3
    <3> QED
      BY <3>2, <3>4
  <2> DEFINE group == IF some THEN n ELSE StripSuffix(s)
  <2>2. Meant(ds, n) = {j \in 1 .. Len(ds) :
                           /\ StripSuffix(ds[j].unique) = group
                           /\ s = Plain(n) \/ ds[j].unique \in {s, Plain(n)}}
    BY DEF Meant
  <2> HIDE DEF some, d, n, s, ds
  <2>3. CASE some
    <3>1. d = Plain(n) /\ group = n /\ i \in 1 .. Len(ds)
      BY <1>2, <2>1, <2>3 DEF ds
    <3>2. StripSuffix(ds[i].unique) = n /\ ds[i].unique \in {s, Plain(n)}
      BY <1>4, <3>1 DEF d
    <3>3. \A j \in 1 .. Len(ds) : StripSuffix(ds[j].unique) = n => j = i
      BY <1>1, <1>2, <1>3
    <3> QED
      BY <2>2, <3>1, <3>2, <3>3
  <2>4. CASE ~ some
    <3>1. d = s /\ s # Plain(n) /\ group = StripSuffix(s) /\ i \in 1 .. Len(ds)
      BY <1>1, <1>2, <2>1, <2>4 DEF ds
    <3>2. StripSuffix(ds[i].unique) = group /\ ds[i].unique \in {s, Plain(n)}
      BY <3>1 DEF d
    <3>3. \A j \in 1 .. Len(ds) : ds[j].unique \in {s, Plain(n)} => j = i
      BY <1>1, <1>2
    <3> QED
      BY <2>2, <3>1, <3>2, <3>3
  <2> QED
    BY <2>3, <2>4
<1> HIDE DEF n, ds
<1>6. FindDescriptor(ds, n) \in {i}
  BY <1>5, FoundIn
<1> QED
  BY <1>6 DEF n, ds

\* So does a File without offsets.
LEMMA CachedAsListed ==
    ASSUME DiskInv, FileInv, NEW f \in Readers, ~ file[f].offsets,
           NEW i \in DOMAIN disk.descriptors, Unambiguous(disk.descriptors[i].unique)
    PROVE  RetrieveCachedGrid(f, NameAsString(disk.descriptors[i].unique)) = i
<1> DEFINE ds == disk.descriptors
           d == ds[i].unique
           n == NameAsString(d)
           s == StringAsUniqueName(n)
           grids == file[f].grids
           instancing == file[f].instancing
<1>1. /\ d = Plain(n) \/ d = s
      /\ \A j \in DOMAIN ds : ds[j].unique \in {Plain(n), s} => j = i
  BY Listed
<1>2. instancing \in BOOLEAN /\ Reads(grids, IdsIn(ds), instancing)
  BY ReaderFacts
<1>3. RetrieveCachedGrid(f, n) = IF Named(grids, s) # 0 THEN Named(grids, s) ELSE Named(grids, Plain(n))
  BY DEF RetrieveCachedGrid
<1> HIDE DEF grids, instancing, s, n
<1>4. Named(grids, d) = i /\ i # 0
  BY <1>2, CachedAt
<1>5. ASSUME Named(grids, s) # 0 PROVE Named(grids, s) = i
  <2>1. Named(grids, s) \in DOMAIN ds /\ ds[Named(grids, s)].unique = s
    BY <1>2, <1>5, CachedIs
  <2> QED
    BY <1>1, <2>1
<1> QED
  BY <1>1, <1>3, <1>4, <1>5 DEF n

\* One grid that open() has read, clipped or not.
LEMMA CachedGrid ==
    ASSUME DiskInv, FileInv, NEW f \in Readers, ~ file[f].offsets,
           NEW i \in DOMAIN disk.descriptors, NEW clip \in BOOLEAN
    PROVE  LET grids == ResolveCachedGrids(<<file[f].grids[i]>>, FALSE, clip)
           IN  /\ grids # <<>> /\ grids[1].id = i /\ HasItsContent(grids[1], clip)
               /\ grids[1].unique = disk.descriptors[i].unique
<1> DEFINE ds == disk.descriptors
           G == file[f].grids
           ids == IdsIn(ds)
           instancing == file[f].instancing
           one == <<G[i]>>
           grids == ResolveCachedGrids(one, FALSE, clip)
<1>1. instancing \in BOOLEAN /\ Reads(G, ids, instancing)
  BY ReaderFacts
<1>2. \A k \in DOMAIN ds : ds[k].id = k
  BY DiskFile DEF FileOf, Describes
<1>3. DOMAIN ids = DOMAIN ds /\ ids[i] = i
  BY <1>2 DEF IdsIn
<1> HIDE DEF instancing, ids
<1>4. Delivered(G, ids)
  BY <1>1, ReadsContract
<1>5. /\ G[i].id = i /\ HasItsContent(G[i], FALSE) /\ GridFields \subseteq DOMAIN G[i]
      /\ G[i].transform = Source[i].transform /\ G[i].unique = ds[i].unique
  BY <1>3, <1>4 DEF Delivered
<1> HIDE DEF G
<1>6. one[1] = G[i] /\ DOMAIN one = {1} /\ one # <<>>
  OBVIOUS
<1>7. CASE clip = FALSE
  <2>1. grids = one
    BY <1>7 DEF ResolveCachedGrids
  <2> QED
    BY <1>5, <1>6, <1>7, <2>1 DEF G, HasItsContent
<1>8. CASE clip = TRUE
  <2> DEFINE c == Clipped(G[i])
             g == Source[i]
             tree == g.tree
             half == g.half
             H == G[i]
  <2>1. \E owner : grids = [j \in {1} |-> [Clipped(one[j]) EXCEPT !.owner = owner]]
    <3> HIDE DEF one
    <3>1. grids = ClippedCached(one, FALSE)
      BY <1>8 DEF ResolveCachedGrids
    <3>2. ClippedCached(one, FALSE) = [j \in {1} |-> [Clipped(one[j]) EXCEPT !.owner = one[j].unique]]
      BY <1>6 DEF ClippedCached
    <3>3. [j \in {1} |-> [Clipped(one[j]) EXCEPT !.owner = one[j].unique]]
            = [j \in {1} |-> [Clipped(one[j]) EXCEPT !.owner = one[1].unique]]
      OBVIOUS
    <3> QED
      BY <3>1, <3>2, <3>3
  <2>2. PICK owner : grids[1] = [c EXCEPT !.owner = owner] /\ DOMAIN grids = {1}
    <3> HIDE DEF grids
    <3>1. PICK owner : grids = [j \in {1} |-> [Clipped(one[j]) EXCEPT !.owner = owner]]
      BY <2>1
    <3>2. grids[1] = [Clipped(one[1]) EXCEPT !.owner = owner] /\ DOMAIN grids = {1}
      BY <3>1
    <3> QED
      BY <1>6, <3>2
  <2>3. H.id = i /\ GridFields \subseteq DOMAIN H /\ H.transform = g.transform
        /\ H.unique = ds[i].unique
        /\ H.content = [tree |-> tree, half |-> half, region |-> Whole]
    BY <1>5 DEF HasItsContent
  <2> HIDE DEF H, tree, half, g
  <2>4. /\ Clipped(H).id = H.id /\ Clipped(H).unique = H.unique
        /\ Clipped(H).content = [tree |-> tree, half |-> half, region |-> H.transform]
        /\ GridFields \subseteq DOMAIN Clipped(H)
    BY <2>3, ClippedFields
  <2>5. c.id = i /\ c.content = [tree |-> tree, half |-> half, region |-> g.transform]
        /\ GridFields \subseteq DOMAIN c /\ c.unique = ds[i].unique
    BY <2>3, <2>4 DEF H
  <2> HIDE DEF c, grids
  <2>6. grids[1].id = i /\ grids[1].unique = ds[i].unique /\ grids[1].content = [tree |-> tree, half |-> half, region |-> g.transform]
    BY <2>2, <2>5, OwnedFields
  <2>7. grids # <<>>
    BY <2>2
  <2>8. HasItsContent(grids[1], clip)
    BY <1>8, <2>6 DEF HasItsContent, tree, half, g
  <2> QED
    BY <2>6, <2>7, <2>8 DEF grids, G
<1> QED
  BY <1>7, <1>8

\* The name of what readGrid() finds, in both kinds of Files.
LEMMA CachedFound ==
    ASSUME DiskInv, FileInv, NEW f \in Readers, ~ file[f].offsets, NEW name,
           RetrieveCachedGrid(f, name) # 0
    PROVE  LET k == RetrieveCachedGrid(f, name)
           IN  /\ k \in DOMAIN disk.descriptors
               /\ disk.descriptors[k].unique \in {StringAsUniqueName(name), Plain(name)}
<1> DEFINE s == StringAsUniqueName(name)
           grids == file[f].grids
           instancing == file[f].instancing
<1>1. instancing \in BOOLEAN /\ Reads(grids, IdsIn(disk.descriptors), instancing)
  BY ReaderFacts
<1>2. RetrieveCachedGrid(f, name) = IF Named(grids, s) # 0 THEN Named(grids, s) ELSE Named(grids, Plain(name))
  BY DEF RetrieveCachedGrid
<1> HIDE DEF grids, instancing, s
<1>3. CASE Named(grids, s) # 0
  <2>1. Named(grids, s) \in DOMAIN disk.descriptors /\ disk.descriptors[Named(grids, s)].unique = s
    BY <1>1, <1>3, CachedIs
  <2> QED
    BY <1>2, <1>3, <2>1 DEF s
<1>4. CASE Named(grids, s) = 0
  <2>1. Named(grids, Plain(name)) # 0
    BY <1>2, <1>4
  <2>2. /\ Named(grids, Plain(name)) \in DOMAIN disk.descriptors
        /\ disk.descriptors[Named(grids, Plain(name))].unique = Plain(name)
    BY <1>1, <2>1, CachedIs
  <2> QED
    BY <1>2, <1>4, <2>2
<1> QED
  BY <1>3, <1>4

LEMMA CalledSo ==
    ASSUME NEW name, IsName(name), NEW u,
           \/ u \in {StringAsUniqueName(name), Plain(name)}
           \/ StripSuffix(u) = name
    PROVE  name \in {StripSuffix(u), NameAsString(u)}
<1>1. NameAsString(StringAsUniqueName(name)) = name /\ NameAsString(Plain(name)) = name
  BY NameOfPlain
<1> QED
  BY <1>1

\* readGrid() finds no grid that is not called, or listed, as was asked.
LEMMA FoundFacts ==
    ASSUME DiskInv, FileInv, NEW f \in Readers, NEW name, IsName(name), NEW clip \in BOOLEAN,
           ReadGrid(f, name, clip) # <<>>
    PROVE  LET grids == ReadGrid(f, name, clip)
           IN  /\ name \in {StripSuffix(grids[1].unique), NameAsString(grids[1].unique)}
               /\ HasItsContent(grids[1], clip)
<1> DEFINE ds == disk.descriptors
           s == StringAsUniqueName(name)
           grids == ReadGrid(f, name, clip)
<1>1. file[f].offsets => file[f].descriptors = ds
  BY ReaderFacts
<1>2. CASE file[f].offsets
  <2> DEFINE k == FindDescriptor(ds, name)
             g == ReadGridFromDescriptor(f, ds[k], clip)
  <2>1. k # 0 /\ grids = <<g>>
    BY <1>1, <1>2 DEF ReadGrid
  <2>2. k \in Meant(ds, name)
    BY <2>1, FoundIn
  <2>3. /\ k \in 1 .. Len(ds)
        /\ \/ ds[k].unique \in {s, Plain(name)}
           \/ StripSuffix(ds[k].unique) = name
    <3>1. StripSuffix(Plain(name)) = name
      BY DEF StripSuffix, Plain
    <3> HIDE DEF k
    <3> QED
      BY <2>2, <3>1 DEF Meant
  <2>4. k \in DOMAIN ds
    BY <2>3, DiskFile DEF FileOf
  <2>5. g.unique = ds[k].unique /\ HasItsContent(g, clip)
    BY <1>1, <1>2, <2>4, DescriptorGrid
  <2>6. name \in {StripSuffix(ds[k].unique), NameAsString(ds[k].unique)}
    <3> DEFINE u == ds[k].unique
    <3>1. u \in {s, Plain(name)} \/ StripSuffix(u) = name
      BY <2>3
    <3> HIDE DEF u, k, ds
    <3>2. name \in {StripSuffix(u), NameAsString(u)}
      BY <3>1, CalledSo
    <3> QED
      BY <3>2 DEF u
  <2> HIDE DEF g, k, grids
  <2>7. grids[1] = g
    BY <2>1
  <2> QED
    BY <2>5, <2>6, <2>7 DEF grids
<1>3. CASE ~ file[f].offsets
  <2> DEFINE k == RetrieveCachedGrid(f, name)
             found == ResolveCachedGrids(<<file[f].grids[k]>>, FALSE, clip)
  <2>1. k # 0 /\ grids = found
    BY <1>3 DEF ReadGrid
  <2>2. k \in DOMAIN ds /\ ds[k].unique \in {s, Plain(name)}
    BY <1>3, <2>1, CachedFound
  <2>3. found[1].unique = ds[k].unique /\ HasItsContent(found[1], clip)
    BY <1>3, <2>2, CachedGrid
  <2>4. name \in {StripSuffix(ds[k].unique), NameAsString(ds[k].unique)}
    <3> DEFINE u == ds[k].unique
    <3>1. u \in {s, Plain(name)}
      BY <2>2
    <3> HIDE DEF u, k, ds
    <3>2. name \in {StripSuffix(u), NameAsString(u)}
      BY <3>1, CalledSo
    <3> QED
      BY <3>2 DEF u
  <2> HIDE DEF found, k, grids
  <2> QED
    BY <2>1, <2>3, <2>4 DEF grids
<1> QED
  BY <1>2, <1>3

\* What readGrid() finds, hasGrid() does not deny.
LEMMA NotDenied ==
    ASSUME DiskInv, FileInv, NEW f \in Readers, NEW name, NEW clip \in BOOLEAN,
           ReadGrid(f, name, clip) # <<>>, ~ InTheWay(name)
    PROVE  HasGrid(f, name)
<1> DEFINE table == file[f].descriptors
           s == StringAsUniqueName(name)
<1>1. /\ table \in Seq(Descriptors) /\ Range(table) = Range(disk.descriptors)
      /\ file[f].offsets => table = disk.descriptors
  BY ReaderFacts
<1>2. HasGrid(f, name) <=> FindDescriptor(table, name) # 0
  BY DEF HasGrid
<1>3. CASE file[f].offsets
  BY <1>2, <1>3 DEF ReadGrid
<1>4. CASE ~ file[f].offsets
  <2>1. RetrieveCachedGrid(f, name) # 0
    BY <1>4 DEF ReadGrid
  <2>2. PICK d \in Range(disk.descriptors) : d.unique \in {s, Plain(name)}
    <3> DEFINE k == RetrieveCachedGrid(f, name)
    <3>1. k \in DOMAIN disk.descriptors /\ disk.descriptors[k].unique \in {s, Plain(name)}
      BY <1>4, <2>1, CachedFound
    <3>2. disk.descriptors[k] \in Range(disk.descriptors)
      BY <3>1 DEF Range
    <3> QED
      BY <3>1, <3>2
  <2>3. DOMAIN table = 1 .. Len(table) /\ Len(table) \in Nat /\ \A k \in DOMAIN table : k # 0
    <3>1. DOMAIN table = 1 .. Len(table) /\ Len(table) \in Nat
      BY <1>1, LenProperties
    <3> HIDE DEF table
    <3> QED
      BY <3>1
  <2>4. \A k \in DOMAIN table : table[k] \in Range(table)
    BY DEF Range
  <2>5. \A k \in DOMAIN table : StripSuffix(table[k].unique) = name => table[k].unique = Plain(name)
    BY <1>1, <2>4 DEF InTheWay
  <2>6. PICK j \in DOMAIN table : table[j].unique \in {s, Plain(name)}
    <3>1. d \in Range(table)
      BY <1>1
    <3>2. PICK j \in DOMAIN table : table[j] = d
      BY <3>1 DEF Range
    <3> QED
      BY <2>2, <3>2
  <2> DEFINE some == \E e \in Range(table) : StripSuffix(e.unique) = name
             group == IF some THEN name ELSE StripSuffix(s)
  <2>7. Meant(table, name) = {k \in 1 .. Len(table) :
                                 /\ StripSuffix(table[k].unique) = group
                                 /\ s = Plain(name) \/ table[k].unique \in {s, Plain(name)}}
    BY DEF Meant
  <2>8. StripSuffix(Plain(name)) = name /\ table[j] \in Range(table)
    BY <2>4 DEF StripSuffix, Plain
  <2>9. some => \E k \in DOMAIN table : StripSuffix(table[k].unique) = name
    BY DEF Range
  <2>10. table[j].unique = Plain(name) => some
    BY <2>8
  <2> HIDE DEF some, table, s
  <2>11. Meant(table, name) # {}
    <3>1. CASE some
      BY <2>3, <2>5, <2>7, <2>9, <3>1
    <3>2. CASE ~ some
      <4>1. table[j].unique = s /\ group = StripSuffix(s)
        BY <2>6, <2>10, <3>2
      <4> QED
        BY <2>3, <2>6, <2>7, <4>1
    <3> QED
      BY <3>1, <3>2
  <2>12. FindDescriptor(table, name) \in Meant(table, name)
    BY <2>11, FoundIn
  <2>13. \A k \in Meant(table, name) : k # 0
    BY <2>3, <2>7
  <2> QED
    BY <1>2, <2>12, <2>13
<1> QED
  BY <1>3, <1>4

\* A name that has no index leads to the first grid of that name.
LEMMA FirstOfName ==
    ASSUME DiskInv, FileInv, NEW f \in Readers, NEW name \in Queries, NEW clip \in BOOLEAN,
           file[f].offsets, name.brackets = <<>>
    PROVE  LET grids == ReadGrid(f, name, clip)
           IN  IF IdsOf(name) = <<>> THEN grids = <<>>
               ELSE grids # <<>> /\ grids[1].id = IdsOf(name)[1]
<1> DEFINE ds == disk.descriptors
           I == {i \in DOMAIN ds : StripSuffix(ds[i].unique) = name}
           k == FindDescriptor(ds, name)
<1>1. file[f].descriptors = ds
  BY ReaderFacts
<1>2. IsName(name)
  BY NameFacts DEF IsName
<1>3. StringAsUniqueName(name) = Plain(name) /\ StripSuffix(Plain(name)) = name
  BY <1>2, UniqueOfBare DEF StripSuffix, Plain
<1>4. /\ ds \in Seq(DescriptorsOf(disk.list)) /\ DOMAIN ds = DOMAIN Source
      /\ DOMAIN ds = 1 .. Len(ds) /\ Len(ds) \in Nat
      /\ \A i \in DOMAIN ds : ds[i].id = i /\ ds[i].unique.name = Source[i].name
  BY DiskFile DEF FileOf, Describes, Source
<1>5. Meant(ds, name) = I
  BY <1>3, <1>4 DEF Meant
<1>6. IdsOf(name) = Part([i \in DOMAIN Source |-> i], I)
  <2>1. I = {i \in DOMAIN Source : Source[i].name = name}
    BY <1>4 DEF StripSuffix
  <2> QED
    BY <2>1 DEF IdsOf
<1>7. I \in SUBSET DOMAIN ds
  OBVIOUS
<1>8. k = IF I # {} THEN Min(I) ELSE 0
  BY <1>5, FoundIn
<1>9. I # {} => k \in I /\ \A i \in I : k <= i
  BY <1>5, FoundIn
<1> HIDE DEF I, k
<1>10. /\ Cardinality(I) \in Nat
       /\ \A n \in 1 .. Cardinality(I) : Nth(I, n) \in I
       /\ \A i \in I : \E n \in 1 .. Cardinality(I) : Nth(I, n) = i
       /\ \A m, n \in 1 .. Cardinality(I) : m < n => Nth(I, m) < Nth(I, n)
       /\ Part(ds, I) = <<>> <=> I = {}
  <2> HIDE DEF ds
  <2>1. /\ DOMAIN Part(ds, I) = 1 .. Len(Part(ds, I))
        /\ Len(Part(ds, I)) = Cardinality(I) /\ Cardinality(I) \in Nat
        /\ \A n \in DOMAIN Part(ds, I) : Nth(I, n) \in I /\ Part(ds, I)[n] = ds[Nth(I, n)]
        /\ \A i \in I : \E n \in DOMAIN Part(ds, I) : Nth(I, n) = i
        /\ \A m, n \in DOMAIN Part(ds, I) : m < n => Nth(I, m) < Nth(I, n)
        /\ Part(ds, I) = <<>> <=> I = {}
    BY <1>4, <1>7, PartFacts
  <2> QED
    BY <2>1
<1>11. CASE I = {}
  <2>1. IdsOf(name) = <<>>
    <3>1. DOMAIN IdsOf(name) = 1 .. Cardinality(I)
      BY <1>6 DEF Part
    <3>2. Cardinality(I) = 0
      BY <1>11, FS_EmptySet
    <3>3. IdsOf(name) = [n \in 1 .. 0 |-> IdsOf(name)[n]]
      BY <1>6, <3>2 DEF Part
    <3> QED
      BY <3>3
  <2>2. ReadGrid(f, name, clip) = <<>>
    BY <1>1, <1>8, <1>11 DEF ReadGrid, k
  <2> QED
    BY <2>1, <2>2
<1>12. CASE I # {}
  <2>1. k \in I /\ k \in DOMAIN ds /\ k # 0 /\ k \in Nat
    BY <1>4, <1>7, <1>9, <1>12
  <2>2. 1 \in 1 .. Cardinality(I)
    BY <1>10, <2>1
  <2>3. IdsOf(name)[1] = Nth(I, 1) /\ IdsOf(name) # <<>>
    <3>1. IdsOf(name) = [n \in 1 .. Cardinality(I) |-> [i \in DOMAIN Source |-> i][Nth(I, n)]]
      BY <1>6 DEF Part
    <3>2. Nth(I, 1) \in DOMAIN Source
      BY <1>4, <1>7, <1>10, <2>2
    <3>3. IdsOf(name)[1] = Nth(I, 1)
      BY <2>2, <3>1, <3>2
    <3>4. DOMAIN IdsOf(name) = 1 .. Cardinality(I)
      BY <3>1
    <3>5. DOMAIN <<>> = {} /\ 1 \in DOMAIN IdsOf(name)
      BY <2>2, <3>4
    <3>6. IdsOf(name) # <<>>
      BY <3>5
    <3> QED
      BY <3>3, <3>6
  <2>4. Nth(I, 1) = k
    <3>1. PICK n \in 1 .. Cardinality(I) : Nth(I, n) = k
      BY <1>10, <2>1
    <3>2. Nth(I, 1) \in I /\ Nth(I, 1) \in Nat /\ k <= Nth(I, 1)
      BY <1>4, <1>7, <1>9, <1>10, <1>12, <2>2
    <3>3. 1 < n => Nth(I, 1) < Nth(I, n)
      BY <1>10, <2>2
    <3>4. n = 1 \/ 1 < n
      BY <1>10
    <3> QED
      BY <2>1, <3>1, <3>2, <3>3, <3>4
  <2> DEFINE g == ReadGridFromDescriptor(f, ds[k], clip)
  <2>5. ReadGrid(f, name, clip) = <<g>>
    BY <1>1, <2>1 DEF ReadGrid, k
  <2>6. g.id = k
    <3>1. file[f].descriptors = disk.descriptors /\ k \in DOMAIN disk.descriptors
      BY <1>1, <2>1
    <3> QED
      BY <3>1, DescriptorGrid
  <2> HIDE DEF g
  <2>7. <<g>> # <<>> /\ <<g>>[1] = g
    OBVIOUS
  <2> QED
    BY <2>3, <2>4, <2>5, <2>6, <2>7
<1> QED
  BY <1>11, <1>12

\* Every grid is found by the name that the file lists it by.
LEMMA ReadAsListed ==
    ASSUME DiskInv, FileInv, NEW f \in Readers, NEW clip \in BOOLEAN,
           NEW i \in DOMAIN disk.descriptors, Unambiguous(disk.descriptors[i].unique),
           ~ (file[f].offsets /\ InTheWay(NameAsString(disk.descriptors[i].unique)))
    PROVE  LET grids == ReadGrid(f, NameAsString(disk.descriptors[i].unique), clip)
           IN  grids # <<>> /\ grids[1].id = i /\ HasItsContent(grids[1], clip)
<1> DEFINE ds == disk.descriptors
           n == NameAsString(ds[i].unique)
           grids == ReadGrid(f, n, clip)
<1>1. file[f].offsets => file[f].descriptors = ds
  BY ReaderFacts
<1>2. i # 0
  BY DiskFile DEF FileOf
<1>3. CASE file[f].offsets
  <2> DEFINE g == ReadGridFromDescriptor(f, ds[i], clip)
  <2>1. FindDescriptor(ds, n) = i
    BY <1>3, FoundAsListed
  <2>2. g.id = i /\ HasItsContent(g, clip)
    BY <1>1, <1>3, DescriptorGrid
  <2> HIDE DEF g, n, grids
  <2>3. grids = <<g>>
    BY <1>1, <1>2, <1>3, <2>1 DEF ReadGrid, g, grids
  <2>4. <<g>> # <<>> /\ <<g>>[1] = g
    OBVIOUS
  <2>5. grids # <<>> /\ grids[1] = g
    BY <2>3, <2>4
  <2>6. grids # <<>> /\ grids[1].id = i /\ HasItsContent(grids[1], clip)
    BY <2>2, <2>5
  <2> QED
    BY <2>6 DEF n, grids
<1>4. CASE ~ file[f].offsets
  <2> DEFINE found == ResolveCachedGrids(<<file[f].grids[i]>>, FALSE, clip)
  <2>1. RetrieveCachedGrid(f, n) = i
    BY <1>4, CachedAsListed
  <2>2. found # <<>> /\ found[1].id = i /\ HasItsContent(found[1], clip)
    BY <1>4, CachedGrid
  <2> HIDE DEF n, grids
  <2>3. grids = found
    BY <1>2, <1>4, <2>1 DEF ReadGrid, grids
  <2> HIDE DEF found
  <2>4. grids # <<>> /\ grids[1].id = i /\ HasItsContent(grids[1], clip)
    BY <2>2, <2>3
  <2> QED
    BY <2>4 DEF n, grids
<1> QED
  BY <1>3, <1>4

LEMMA NamesInv == DiskInv /\ FileInv => NamesFound
<1> SUFFICES ASSUME DiskInv, FileInv, NEW f \in Readers, NEW clip \in BOOLEAN
             PROVE  /\ \A i \in DOMAIN disk.descriptors :
                          LET unique == disk.descriptors[i].unique
                              grids == ReadGrid(f, NameAsString(unique), clip)
                          IN  Unambiguous(unique) /\ ~ (file[f].offsets /\ InTheWay(NameAsString(unique))) =>
                                grids # <<>> /\ grids[1].id = i /\ HasItsContent(grids[1], clip)
                    /\ \A name \in Queries :
                          LET grids == ReadGrid(f, name, clip)
                          IN  /\ grids # <<>> =>
                                    /\ name \in {StripSuffix(grids[1].unique), NameAsString(grids[1].unique)}
                                    /\ HasItsContent(grids[1], clip)
                                    /\ InTheWay(name) \/ HasGrid(f, name)
                              /\ file[f].offsets /\ name.brackets = <<>> =>
                                    IF IdsOf(name) = <<>> THEN grids = <<>>
                                    ELSE grids # <<>> /\ grids[1].id = IdsOf(name)[1]
  BY DEF NamesFound
<1>1. \A name \in Queries : IsName(name)
  BY NameFacts DEF IsName
<1> QED
  BY <1>1, ReadAsListed, FoundFacts, NotDenied, FirstOfName

LEMMA GridsInv == DiskInv /\ FileInv => GridsMeetContract
BY NamesInv, AllComplete, NamedComplete, StreamComplete DEF GridsMeetContract

\* Reading gives what was written, for every File that is open and has no descriptor that is
\* not in the file: File::getGrids and Stream give every grid once, with its tree and its
\* precision and clipped by its own transform; File::readGrids all grids of a name, in the
\* order of the file if the table is the file's; File::readGrid finds no grid but one that
\* is called or listed as was asked, and a grid by its listed name if that is unambiguous
\* and, for a File with offsets, no numbered grids are called so.
THEOREM GridsCorrect == ArchiveSpec => []GridsMeetContract
BY ArchiveInv, GridsInv, PTL
===============================================================================
