---------------------------- MODULE OutputQueue ----------------------------
(***************************************************************************)
(* io::Queue, the queue for asynchronous output of grids to files or       *)
(* streams (openvdb/openvdb/io/Queue.cc).                                  *)
(*                                                                         *)
(* Three kinds of actors interleave:                                       *)
(*  - the client that owns the queue: it calls writeGrid, setCapacity and  *)
(*    the destructor, one call at a time (mNextId, mCapacity and mTimeout  *)
(*    are plain members, so the code supports one such thread);            *)
(*  - one TBB worker per task: it executes an OutputTask;                  *)
(*  - monitors: threads that poll status() and register or deregister      *)
(*    notifiers, which the hash map accessors and mNotifierMutex allow at  *)
(*    any time while the queue exists.                                     *)
(*                                                                         *)
(* Everything a worker does between two accesses to state of the queue is  *)
(* one step, and so is everything done under one hash map accessor.        *)
(***************************************************************************)
EXTENDS Integers, FiniteSets, Sequences

CONSTANTS
    MaxTasks,       \* bound on the calls of writeGrid
    MaxNotifiers,   \* bound on the calls of addNotifier
    MaxSleeps,      \* half-second sleeps of enqueue() within mTimeout
    Capacities      \* capacities given to the constructor and setCapacity

ASSUME QueueAssumption ==
    /\ MaxTasks \in Nat
    /\ MaxNotifiers \in Nat
    /\ MaxSleeps \in Nat \ {0}
    /\ Capacities \subseteq Nat

Tasks == 1 .. MaxTasks
NotifierIds == 1 .. MaxNotifiers

VARIABLES
    client,          \* what the owning thread is doing
    sleeps,          \* sleeps of the current call of enqueue()
    task,            \* [Tasks -> Phases]: how far each OutputTask has come
    outcome,         \* [Tasks -> Status]: what execute() passes to notify()
    mStatus,         \* the status map; UNKNOWN stands for "no entry"
    mNumTasks, mCapacity, mNextId,
    mNotifiers,      \* ids of the registered callbacks
    mNextNotifierId,
    mNotifierMutex,  \* the task whose worker holds the mutex, or Free
    toCall,          \* callbacks the holder of the mutex has yet to call
    didNotify,       \* tasks whose worker found callbacks to call
    called,          \* history: [Tasks -> Seq(NotifierIds)] callbacks made
    reported         \* history: tasks whose outcome status() has returned

clientVars == <<client, sleeps, mNextId, mCapacity>>
notifierVars == <<mNotifiers, mNextNotifierId>>
vars == <<clientVars, task, outcome, mStatus, mNumTasks, notifierVars,
          mNotifierMutex, toCall, didNotify, called, reported>>

Free == 0
Completed == {"SUCCEEDED", "FAILED"}
Status == {"UNKNOWN", "PENDING"} \cup Completed

(***************************************************************************)
(* A task is new, waits in enqueue() for room, is rejected by the timeout, *)
(* or sits in the task arena; its worker then runs setStatusWithNotification*)
(* (recorded, notifying, notified, erased) and is finished.                *)
(***************************************************************************)
Live == {"queued", "recorded", "notifying", "notified", "erased"}
Phases == {"new", "waiting", "rejected", "finished"} \cup Live

(* The tasks the arena has accepted and whose worker may yet use the queue. *)
LiveTasks == {t \in Tasks : task[t] \in Live}

(* The task of the current call of writeGrid: mNextId is already past it.   *)
current == mNextId - 1

(* Mutant of canEnqueue: one task too many.                                 *)
canEnqueueOneMore == mNumTasks <= mCapacity

canEnqueue == mNumTasks < mCapacity

Init ==
    /\ client = "idle" /\ sleeps = 0
    /\ task = [t \in Tasks |-> "new"]
    /\ outcome = [t \in Tasks |-> "UNKNOWN"]
    /\ mStatus = [t \in Tasks |-> "UNKNOWN"]
    /\ mNumTasks = 0 /\ mCapacity \in Capacities /\ mNextId = 1
    /\ mNotifiers = {} /\ mNextNotifierId = 1
    /\ mNotifierMutex = Free /\ toCall = {} /\ didNotify = {}
    /\ called = [t \in Tasks |-> <<>>]
    /\ reported = {}

-----------------------------------------------------------------------------
(* The owning thread.                                                       *)

(* writeGrid and writeGridVec: take the next id and enter enqueue().        *)
WriteGrid ==
    /\ client = "idle" /\ mNextId <= MaxTasks
    /\ mNextId' = mNextId + 1
    /\ task' = [task EXCEPT ![mNextId] = "waiting"]
    /\ client' = "polling" /\ sleeps' = 0
    /\ UNCHANGED <<outcome, mStatus, mNumTasks, mCapacity, notifierVars,
                   mNotifierMutex, toCall, didNotify, called, reported>>

(* The loop of enqueue(): asleep for half a second while there is no room.  *)
Sleep ==
    /\ client = "polling" /\ ~canEnqueue
    /\ client' = "asleep" /\ sleeps' = sleeps + 1
    /\ UNCHANGED <<task, outcome, mStatus, mNumTasks, mCapacity, mNextId,
                   notifierVars, mNotifierMutex, toCall, didNotify, called, reported>>

(* Mutant of Wake: the time limit is never looked at.                       *)
WakeAgain ==
    /\ client = "asleep"
    /\ client' = "polling"
    /\ UNCHANGED <<sleeps, task, outcome, mStatus, mNumTasks, mCapacity, mNextId,
                   notifierVars, mNotifierMutex, toCall, didNotify, called, reported>>

(* Awake within the time limit: test canEnqueue() again.                    *)
Wake ==
    /\ client = "asleep" /\ sleeps < MaxSleeps
    /\ client' = "polling"
    /\ UNCHANGED <<sleeps, task, outcome, mStatus, mNumTasks, mCapacity, mNextId,
                   notifierVars, mNotifierMutex, toCall, didNotify, called, reported>>

(* Awake after the time limit: throw without another look at the queue.  A  *)
(* late wake-up may pass the limit before MaxSleeps sleeps.                 *)
TimeOut ==
    /\ client = "asleep"
    /\ client' = "idle"
    /\ task' = [task EXCEPT ![current] = "rejected"]
    /\ UNCHANGED <<sleeps, outcome, mStatus, mNumTasks, mCapacity, mNextId,
                   notifierVars, mNotifierMutex, toCall, didNotify, called, reported>>

(* There is room: install the notifier and enter PENDING in the status map. *)
SetPending ==
    /\ client = "polling" /\ canEnqueue
    /\ mStatus' = [mStatus EXCEPT ![current] = "PENDING"]
    /\ client' = "registered" /\ sleeps' = 0
    /\ UNCHANGED <<task, outcome, mNumTasks, mCapacity, mNextId,
                   notifierVars, mNotifierMutex, toCall, didNotify, called, reported>>

(* arena.enqueue: from here on a worker may run the task.                   *)
ArenaEnqueue ==
    /\ client = "registered"
    /\ task' = [task EXCEPT ![current] = "queued"]
    /\ client' = "enqueued"
    /\ UNCHANGED <<sleeps, outcome, mStatus, mNumTasks, mCapacity, mNextId,
                   notifierVars, mNotifierMutex, toCall, didNotify, called, reported>>

(* Mutant of CountTask: PENDING is stored after the hand-over to the arena.  *)
CountTaskThenPend ==
    /\ client = "enqueued"
    /\ mNumTasks' = mNumTasks + 1
    /\ mStatus' = [mStatus EXCEPT ![current] = "PENDING"]
    /\ client' = "idle"
    /\ UNCHANGED <<sleeps, task, outcome, mCapacity, mNextId,
                   notifierVars, mNotifierMutex, toCall, didNotify, called, reported>>

(* ++mNumTasks, after the task has gone to the arena; writeGrid returns.    *)
CountTask ==
    /\ client = "enqueued"
    /\ mNumTasks' = mNumTasks + 1
    /\ client' = "idle"
    /\ UNCHANGED <<sleeps, task, outcome, mStatus, mCapacity, mNextId,
                   notifierVars, mNotifierMutex, toCall, didNotify, called, reported>>

SetCapacity(n) ==
    /\ client = "idle"
    /\ mCapacity' = IF n > 1 THEN n ELSE 1
    /\ UNCHANGED <<client, sleeps, task, outcome, mStatus, mNumTasks, mNextId,
                   notifierVars, mNotifierMutex, toCall, didNotify, called, reported>>

(* ~Queue: poll until mNumTasks is no longer positive.                      *)
BeginDestroy ==
    /\ client = "idle"
    /\ client' = "destroying"
    /\ UNCHANGED <<sleeps, task, outcome, mStatus, mNumTasks, mCapacity, mNextId,
                   notifierVars, mNotifierMutex, toCall, didNotify, called, reported>>

(* Mutant of Destroy: it waits for all tasks but one.                       *)
DestroyEarly ==
    /\ client = "destroying" /\ ~(mNumTasks > 1)
    /\ client' = "destroyed"
    /\ UNCHANGED <<sleeps, task, outcome, mStatus, mNumTasks, mCapacity, mNextId,
                   notifierVars, mNotifierMutex, toCall, didNotify, called, reported>>

Destroy ==
    /\ client = "destroying" /\ ~(mNumTasks > 0)
    /\ client' = "destroyed"
    /\ UNCHANGED <<sleeps, task, outcome, mStatus, mNumTasks, mCapacity, mNextId,
                   notifierVars, mNotifierMutex, toCall, didNotify, called, reported>>

-----------------------------------------------------------------------------
(* The worker of task t: OutputTask::execute, setStatusWithNotification.    *)

(* Write the archive, whatever it throws, and set the status to the outcome. *)
RecordStatus(t, s) ==
    /\ task[t] = "queued" /\ s \in Completed
    /\ outcome' = [outcome EXCEPT ![t] = s]
    /\ mStatus' = [mStatus EXCEPT ![t] = s]
    /\ task' = [task EXCEPT ![t] = "recorded"]
    /\ UNCHANGED <<clientVars, mNumTasks, notifierVars, mNotifierMutex, toCall,
                   didNotify, called, reported>>

LockNotifiers(t) ==
    /\ task[t] = "recorded" /\ mNotifierMutex = Free
    /\ mNotifierMutex' = t
    /\ toCall' = mNotifiers
    /\ didNotify' = IF mNotifiers # {} THEN didNotify \cup {t} ELSE didNotify
    /\ task' = [task EXCEPT ![t] = "notifying"]
    /\ UNCHANGED <<clientVars, outcome, mStatus, mNumTasks, notifierVars,
                   called, reported>>

(* The iterator of the std::map visits the callbacks by increasing id.      *)
CallNotifier(t) ==
    /\ task[t] = "notifying"
    /\ \E n \in toCall :
        /\ \A m \in toCall : n <= m
        /\ called' = [called EXCEPT ![t] = Append(@, n)]
        /\ toCall' = toCall \ {n}
    /\ UNCHANGED <<clientVars, task, outcome, mStatus, mNumTasks, notifierVars,
                   mNotifierMutex, didNotify, reported>>

(* Mutant of UnlockNotifiers: the mutex is kept when nothing was called.    *)
UnlockIfCalled(t) ==
    /\ task[t] = "notifying" /\ toCall = {}
    /\ mNotifierMutex' = IF t \in didNotify THEN Free ELSE t
    /\ task' = [task EXCEPT ![t] = "notified"]
    /\ UNCHANGED <<clientVars, outcome, mStatus, mNumTasks, notifierVars, toCall,
                   didNotify, called, reported>>

UnlockNotifiers(t) ==
    /\ task[t] = "notifying" /\ toCall = {}
    /\ mNotifierMutex' = Free
    /\ task' = [task EXCEPT ![t] = "notified"]
    /\ UNCHANGED <<clientVars, outcome, mStatus, mNumTasks, notifierVars, toCall,
                   didNotify, called, reported>>

(* Mutant of EraseStatus: the entry goes whether or not a callback was made. *)
EraseStatusAlways(t) ==
    /\ task[t] = "notified"
    /\ mStatus' = [mStatus EXCEPT ![t] = "UNKNOWN"]
    /\ task' = [task EXCEPT ![t] = "erased"]
    /\ UNCHANGED <<clientVars, outcome, mNumTasks, notifierVars, mNotifierMutex,
                   toCall, didNotify, called, reported>>

EraseStatus(t) ==
    /\ task[t] = "notified"
    /\ mStatus' = IF t \in didNotify THEN [mStatus EXCEPT ![t] = "UNKNOWN"]
                                       ELSE mStatus
    /\ task' = [task EXCEPT ![t] = "erased"]
    /\ UNCHANGED <<clientVars, outcome, mNumTasks, notifierVars, mNotifierMutex,
                   toCall, didNotify, called, reported>>

(* Mutant of Finish: the decrement has slipped into "if (didNotify)".       *)
FinishIfNotified(t) ==
    /\ task[t] = "erased"
    /\ mNumTasks' = IF t \in didNotify THEN mNumTasks - 1 ELSE mNumTasks
    /\ task' = [task EXCEPT ![t] = "finished"]
    /\ UNCHANGED <<clientVars, outcome, mStatus, notifierVars, mNotifierMutex,
                   toCall, didNotify, called, reported>>

(* --mNumTasks, the worker's last use of the queue.                         *)
Finish(t) ==
    /\ task[t] = "erased"
    /\ mNumTasks' = mNumTasks - 1
    /\ task' = [task EXCEPT ![t] = "finished"]
    /\ UNCHANGED <<clientVars, outcome, mStatus, notifierVars, mNotifierMutex,
                   toCall, didNotify, called, reported>>

-----------------------------------------------------------------------------
(* Monitors.  Using a queue whose destructor has begun is the caller's      *)
(* error, so they stop then.                                                *)

InUse == client \notin {"destroying", "destroyed"}

(* status(id), for the ids that writeGrid has handed out: a completed       *)
(* task's entry goes with the answer.                                       *)
QueryStatus(t) ==
    /\ InUse /\ mStatus[t] \in Completed
    /\ mStatus' = [mStatus EXCEPT ![t] = "UNKNOWN"]
    /\ reported' = reported \cup {t}
    /\ UNCHANGED <<clientVars, task, outcome, mNumTasks, notifierVars,
                   mNotifierMutex, toCall, didNotify, called>>

AddNotifier ==
    /\ InUse /\ mNotifierMutex = Free /\ mNextNotifierId <= MaxNotifiers
    /\ mNextNotifierId' = mNextNotifierId + 1
    /\ mNotifiers' = mNotifiers \cup {mNextNotifierId}
    /\ UNCHANGED <<clientVars, task, outcome, mStatus, mNumTasks,
                   mNotifierMutex, toCall, didNotify, called, reported>>

(* Mutant of RemoveNotifier: it does not take the mutex.                    *)
RemoveUnlocked(n) ==
    /\ InUse
    /\ mNotifiers' = mNotifiers \ {n}
    /\ UNCHANGED <<clientVars, task, outcome, mStatus, mNumTasks, mNextNotifierId,
                   mNotifierMutex, toCall, didNotify, called, reported>>

RemoveNotifier(n) ==
    /\ InUse /\ mNotifierMutex = Free
    /\ mNotifiers' = mNotifiers \ {n}
    /\ UNCHANGED <<clientVars, task, outcome, mStatus, mNumTasks, mNextNotifierId,
                   mNotifierMutex, toCall, didNotify, called, reported>>

ClearNotifiers ==
    /\ InUse /\ mNotifierMutex = Free
    /\ mNotifiers' = {}
    /\ UNCHANGED <<clientVars, task, outcome, mStatus, mNumTasks, mNextNotifierId,
                   mNotifierMutex, toCall, didNotify, called, reported>>

-----------------------------------------------------------------------------
Enqueue == WriteGrid \/ Sleep \/ Wake \/ TimeOut \/ SetPending \/ ArenaEnqueue \/ CountTask

Client == Enqueue \/ (\E n \in Capacities : SetCapacity(n)) \/ BeginDestroy \/ Destroy

Worker(t) ==
    \/ \E s \in Completed : RecordStatus(t, s)
    \/ LockNotifiers(t) \/ CallNotifier(t) \/ UnlockNotifiers(t)
    \/ EraseStatus(t) \/ Finish(t)

Monitor ==
    \/ \E t \in Tasks : QueryStatus(t)
    \/ AddNotifier \/ ClearNotifiers
    \/ \E n \in mNotifiers : RemoveNotifier(n)

(* The end of the program's use of the queue, which is no deadlock.         *)
Gone == client = "destroyed" /\ UNCHANGED vars

Next == Client \/ Monitor \/ Gone \/ \E t \in Tasks : Worker(t)

Spec == Init /\ [][Next]_vars

(***************************************************************************)
(* TBB runs every enqueued task on some worker, and the operating system   *)
(* runs every thread that is ready: a call of the client that has begun    *)
(* goes on (WriteGrid and BeginDestroy, which begin one, are its choice).  *)
(* MaxSleeps stands for the clock: enqueue() cannot sleep longer.          *)
(***************************************************************************)
ClientContinues ==
    Sleep \/ Wake \/ TimeOut \/ SetPending \/ ArenaEnqueue \/ CountTask \/ Destroy

Fairness == WF_vars(ClientContinues) /\ \A t \in Tasks : WF_vars(Worker(t))

FairSpec == Spec /\ Fairness

-----------------------------------------------------------------------------
(* Every variable has the type its declaration gives it.                    *)
TypeOK ==
    /\ client \in {"idle", "polling", "asleep", "registered", "enqueued",
                   "destroying", "destroyed"}
    /\ sleeps \in 0 .. MaxSleeps /\ (client = "polling" => sleeps < MaxSleeps)
    /\ task \in [Tasks -> Phases]
    /\ outcome \in [Tasks -> Status]
    /\ mStatus \in [Tasks -> Status]
    /\ mNumTasks \in Int /\ mCapacity \in Nat
    /\ mNextId \in 1 .. MaxTasks + 1
    /\ mNotifiers \subseteq NotifierIds
    /\ mNextNotifierId \in 1 .. MaxNotifiers + 1
    /\ mNotifierMutex \in Tasks \cup {Free}
    /\ toCall \subseteq NotifierIds
    /\ didNotify \subseteq Tasks
    /\ called \in [Tasks -> Seq(NotifierIds)]
    /\ reported \subseteq Tasks

(* mNumTasks counts the tasks in the arena except the one writeGrid has     *)
(* handed over and not yet counted, although workers may finish that task   *)
(* first, whereupon the counter is one too low and may be -1.               *)
Accounting ==
    mNumTasks = Cardinality(LiveTasks) - (IF client = "enqueued" THEN 1 ELSE 0)

(* "The maximum number of tasks allowed in the queue" (Queue.h:126): handing *)
(* a task to the arena never exceeds the capacity, whatever the workers do   *)
(* between the test of canEnqueue() and arena.enqueue().                     *)
CapacityRespected ==
    [][LiveTasks' \subseteq LiveTasks \/ Cardinality(LiveTasks') <= mCapacity]_vars

(* No outcome is lost: once a worker has recorded it, a callback has been    *)
(* called with it, or status() has returned it, or the status map still      *)
(* holds it, unspoilt by the PENDING that enqueue() stores.                  *)
OutcomeNotLost ==
    \A t \in Tasks : outcome[t] \in Completed =>
        called[t] # <<>> \/ t \in reported \/ mStatus[t] = outcome[t]

(* Once removeNotifier() has returned, no worker calls that callback, whose  *)
(* object may be gone: what is yet to be called is still registered.         *)
NoCallAfterRemoval == toCall \subseteq mNotifiers

(* "They are called in the order in which they were registered" (Queue.h:148)*)
(* and none is called twice for a task.                                      *)
CalledInOrder ==
    \A t \in Tasks : \A i, j \in DOMAIN called[t] :
        i < j => called[t][i] < called[t][j]

(* Callbacks are called only while they are registered, in order and once.   *)
CallbacksMeetContract == NoCallAfterRemoval /\ CalledInOrder

(* The destructor returns only when no worker will use the Impl any more,    *)
(* the status map and the counter included.                                  *)
QueueOutlivesWorkers == client = "destroyed" => LiveTasks = {}

(* What makes the invariants above inductive.  Ids from mNextId on are new,  *)
(* and the task of a call of enqueue() is still outside the arena.           *)
CallInProgress ==
    /\ \A t \in Tasks : t >= mNextId => task[t] = "new"
    /\ client \in {"polling", "asleep", "registered"} =>
           mNextId > 1 /\ task[current] = "waiting"
    /\ client = "enqueued" => mNextId > 1

(* The mutex is held by the one task that is notifying, and the callbacks it *)
(* has yet to call are registered and follow those it has called.            *)
MutexHeld ==
    /\ \A t \in Tasks : task[t] = "notifying" <=> mNotifierMutex = t
    /\ mNotifierMutex = Free => toCall = {}
    /\ \A t \in Tasks :
        /\ task[t] \in Phases \ {"notifying", "notified", "erased", "finished"} => called[t] = <<>>
        /\ mNotifierMutex = t => \A i \in DOMAIN called[t], n \in toCall : called[t][i] < n

(* An outcome belongs to a task whose worker has recorded it, and a worker   *)
(* that is to erase the status has callbacks to call or has called one.      *)
NotificationDue ==
    \A t \in Tasks :
        /\ outcome[t] \in Completed => task[t] \notin {"new", "waiting", "rejected", "queued"}
        /\ t \in didNotify =>
               called[t] # <<>> \/ (mNotifierMutex = t /\ toCall # {})

(* Every task the arena has taken completes.                                 *)
TasksComplete ==
    \A t \in Tasks : task[t] = "queued" ~> task[t] = "finished"

(* No call blocks for ever: writeGrid finds room or times out, and the       *)
(* destructor sees the counter reach zero.                                   *)
CallsReturn == client \notin {"idle", "destroyed"} ~> client \in {"idle", "destroyed"}

(* Workers and client make progress: accepted tasks complete and calls of    *)
(* the client, the destructor included, return.                              *)
Progress == TasksComplete /\ CallsReturn

(* What the client may know of each task, in the terms of QueueContract.     *)
Ticket ==
    [t \in Tasks |->
        CASE task[t] = "new" -> "new"
          [] task[t] = "waiting" -> "asked"
          [] task[t] = "rejected" -> "refused"
          [] task[t] = "queued" -> "accepted"
          [] OTHER -> IF called[t] # <<>> \/ t \in reported THEN "told" ELSE mStatus[t]]

Open == client # "destroyed"

Contract == INSTANCE QueueContract WITH Tickets <- Tasks, ticket <- Ticket, open <- Open

(* The queue does what QueueContract promises: it never completes a grid it  *)
(* has refused, forgets an outcome, completes a task twice or goes away with *)
(* a grid pending, and every request gets its answer and its outcome.        *)
KeepsContract == Contract!Spec

(* What makes the queue's steps those of the contract.  Whatever status()    *)
(* can return as completed is the outcome its worker recorded, a worker that *)
(* has done so has one, and nothing is reported before.                      *)
OutcomesHonest ==
    \A t \in Tasks :
        /\ mStatus[t] \in Completed => mStatus[t] = outcome[t]
        /\ outcome[t] \in Completed \/ task[t] \in {"new", "waiting", "rejected", "queued"}
        /\ t \in reported => outcome[t] \in Completed

(* Only the task of the client's own call can be waiting for an answer.      *)
OneRequest ==
    \A t \in Tasks : task[t] = "waiting" =>
        t = current /\ client \in {"polling", "asleep", "registered"}

=============================================================================
