----------------------------- MODULE MergePool -----------------------------
(***************************************************************************)
(* class SegmentMerger (include/columnar/merger.h): worker threads that    *)
(* take merge tasks from task_queue_, guarded by queue_mutex_, and sleep   *)
(* on queue_cv_ when it is empty.  SubmitMerge pushes under the lock and   *)
(* notifies after it; the destructor sets stop_ without the lock, notifies *)
(* everyone and joins.  The wait with a predicate is the loop the library  *)
(* runs: test the predicate holding the lock, then release it and block,   *)
(* so that a notification between the two finds nobody waiting.            *)
(*                                                                         *)
(* A task is a model value.  Its promise and future are future[k].  What   *)
(* ExecuteMerge computes is left out; that it may throw, when the output   *)
(* file cannot be created, is not: nothing in WorkerLoop catches, and an   *)
(* exception that leaves a thread calls std::terminate.                    *)
(***************************************************************************)
EXTENDS Integers, Sequences

CONSTANTS Workers,      \* the num_threads_ worker threads
          Tasks,        \* the tasks clients submit, each once
          Failing,      \* the tasks whose output file cannot be created
          CanShutdown,  \* whether the merger may be destroyed
          None          \* no worker, no task

ASSUME PoolAssumption ==
    /\ Failing \subseteq Tasks
    /\ CanShutdown \in BOOLEAN
    /\ None \notin Workers /\ None \notin Tasks

VARIABLES queue,     \* task_queue_
          mutex,     \* the worker that holds queue_mutex_, or None
          pc,        \* where each worker is in WorkerLoop
          hand,      \* the task each worker has popped, or None
          future,    \* the shared state of each task's promise and future
          notify,    \* the tasks whose SubmitMerge has yet to call notify_one
          dtor,      \* how far ~SegmentMerger has come
          aborted    \* std::terminate has been called

vars == <<queue, mutex, pc, hand, future, notify, dtor, aborted>>

TypeOK ==
    /\ queue \in Seq(Tasks)
    /\ mutex \in Workers \cup {None}
    /\ pc \in [Workers -> {"loop", "lock", "predicate", "block", "waiting", "woken",
                           "check", "pop", "merge", "fulfil", "exited"}]
    /\ hand \in [Workers -> Tasks \cup {None}]
    /\ future \in [Tasks -> {"none", "pending", "value", "broken"}]
    /\ notify \in SUBSET Tasks
    /\ dtor \in {"alive", "stopped", "joining", "destroyed"}
    /\ aborted \in BOOLEAN

Init ==
    /\ queue = <<>>
    /\ mutex = None
    /\ pc = [w \in Workers |-> "loop"]
    /\ hand = [w \in Workers |-> None]
    /\ future = [k \in Tasks |-> "none"]
    /\ notify = {}
    /\ dtor = "alive"
    /\ aborted = FALSE

stop == dtor # "alive"       \* stop_.load()
-----------------------------------------------------------------------------
(* SubmitMerge, and ScheduleMerge of BackgroundMerger, which forwards to it. *)

\* get_future, then push inside the lock_guard's block.
SubmitMerge(k) ==
    /\ ~aborted
    /\ dtor = "alive"
    /\ future[k] = "none"
    /\ mutex = None
    /\ future' = [future EXCEPT ![k] = "pending"]
    /\ queue' = Append(queue, k)
    /\ notify' = notify \cup {k}
    /\ UNCHANGED <<mutex, pc, hand, dtor, aborted>>

\* A faulty NotifyOne that never reaches the condition variable.
NotifyNobody(k) ==
    /\ ~aborted
    /\ k \in notify
    /\ notify' = notify \ {k}
    /\ UNCHANGED <<queue, mutex, pc, hand, future, dtor, aborted>>

\* queue_cv_.notify_one(), after the lock is released: wakes one waiter, if any.
NotifyOne(k) ==
    /\ ~aborted
    /\ k \in notify
    /\ notify' = notify \ {k}
    /\ \/ \E w \in Workers : pc[w] = "waiting" /\ pc' = [pc EXCEPT ![w] = "woken"]
       \/ (\A w \in Workers : pc[w] # "waiting") /\ pc' = pc
    /\ UNCHANGED <<queue, mutex, hand, future, dtor, aborted>>
-----------------------------------------------------------------------------
(* WorkerLoop.                                                             *)

\* while (!stop_.load())
LoopTest(w) ==
    /\ ~aborted
    /\ pc[w] = "loop"
    /\ pc' = [pc EXCEPT ![w] = IF stop THEN "exited" ELSE "lock"]
    /\ UNCHANGED <<queue, mutex, hand, future, notify, dtor, aborted>>

\* unique_lock's constructor, or the wait taking the lock back.
Lock(w) ==
    /\ ~aborted
    /\ pc[w] \in {"lock", "woken"}
    /\ mutex = None
    /\ mutex' = w
    /\ pc' = [pc EXCEPT ![w] = "predicate"]
    /\ UNCHANGED <<queue, hand, future, notify, dtor, aborted>>

\* The wait's predicate: stop_.load() || !task_queue_.empty()
Predicate(w) ==
    /\ ~aborted
    /\ pc[w] = "predicate"
    /\ pc' = [pc EXCEPT ![w] = IF stop \/ queue # <<>> THEN "check" ELSE "block"]
    /\ UNCHANGED <<queue, mutex, hand, future, notify, dtor, aborted>>

Block(w) ==
    /\ ~aborted
    /\ pc[w] = "block"
    /\ mutex' = None
    /\ pc' = [pc EXCEPT ![w] = "waiting"]
    /\ UNCHANGED <<queue, hand, future, notify, dtor, aborted>>

\* A wait may return without a notification.
SpuriousWakeup(w) ==
    /\ ~aborted
    /\ pc[w] = "waiting"
    /\ pc' = [pc EXCEPT ![w] = "woken"]
    /\ UNCHANGED <<queue, mutex, hand, future, notify, dtor, aborted>>

\* A faulty Check that takes any wakeup without stop_ for work and leaves the
\* lock before it pops.
CheckUnlocks(w) ==
    /\ ~aborted
    /\ pc[w] = "check"
    /\ pc' = [pc EXCEPT ![w] = IF stop /\ queue = <<>> THEN "exited" ELSE "pop"]
    /\ mutex' = None
    /\ UNCHANGED <<queue, hand, future, notify, dtor, aborted>>

\* if (stop_.load() && task_queue_.empty()) return;
Check(w) ==
    /\ ~aborted
    /\ pc[w] = "check"
    /\ \/ /\ stop /\ queue = <<>>
          /\ pc' = [pc EXCEPT ![w] = "exited"]
          /\ mutex' = None
       \/ /\ ~(stop /\ queue = <<>>)
          /\ pc' = [pc EXCEPT ![w] = "pop"]
          /\ UNCHANGED mutex
    /\ UNCHANGED <<queue, hand, future, notify, dtor, aborted>>

\* A faulty Pop that reads the front and leaves it in the queue.
PopKeepsFront(w) ==
    /\ ~aborted
    /\ pc[w] = "pop" /\ queue # <<>>
    /\ hand' = [hand EXCEPT ![w] = Head(queue)]
    /\ queue' = queue
    /\ mutex' = None
    /\ pc' = [pc EXCEPT ![w] = "merge"]
    /\ UNCHANGED <<future, notify, dtor, aborted>>

\* front(), pop() and the end of the lock's block.
Pop(w) ==
    /\ ~aborted
    /\ pc[w] = "pop" /\ queue # <<>>
    /\ hand' = [hand EXCEPT ![w] = Head(queue)]
    /\ queue' = Tail(queue)
    /\ mutex' = None
    /\ pc' = [pc EXCEPT ![w] = "merge"]
    /\ UNCHANGED <<future, notify, dtor, aborted>>

\* ExecuteMerge, without the lock.
ExecuteMerge(w) ==
    /\ ~aborted
    /\ pc[w] = "merge"
    /\ IF hand[w] \in Failing
       THEN aborted' = TRUE /\ pc' = pc
       ELSE aborted' = aborted /\ pc' = [pc EXCEPT ![w] = "fulfil"]
    /\ UNCHANGED <<queue, mutex, hand, future, notify, dtor>>

\* task.promise.set_value(result); the task dies at the end of the iteration.
SetValue(w) ==
    /\ ~aborted
    /\ pc[w] = "fulfil"
    /\ future' = [future EXCEPT ![hand[w]] = "value"]
    /\ hand' = [hand EXCEPT ![w] = None]
    /\ pc' = [pc EXCEPT ![w] = "loop"]
    /\ UNCHANGED <<queue, mutex, notify, dtor, aborted>>
-----------------------------------------------------------------------------
(* ~SegmentMerger.  The owner destroys the merger only when no call of     *)
(* SubmitMerge is in progress, and submits nothing afterwards.             *)

\* stop_.store(true), without queue_mutex_
StopStore ==
    /\ ~aborted
    /\ CanShutdown
    /\ dtor = "alive" /\ notify = {}
    /\ dtor' = "stopped"
    /\ UNCHANGED <<queue, mutex, pc, hand, future, notify, aborted>>

\* queue_cv_.notify_all()
NotifyAll ==
    /\ ~aborted
    /\ dtor = "stopped"
    /\ dtor' = "joining"
    /\ pc' = [w \in Workers |-> IF pc[w] = "waiting" THEN "woken" ELSE pc[w]]
    /\ UNCHANGED <<queue, mutex, hand, future, notify, aborted>>

\* A faulty JoinAll that does not wait for the workers.
JoinNobody ==
    /\ ~aborted
    /\ dtor = "joining"
    /\ dtor' = "destroyed"
    /\ queue' = <<>>
    /\ future' = [k \in Tasks |-> IF future[k] = "pending" THEN "broken" ELSE future[k]]
    /\ UNCHANGED <<mutex, pc, hand, notify, aborted>>

\* Every join() has returned; the members go, and the promises of the tasks
\* still in the queue with them.
JoinAll ==
    /\ ~aborted
    /\ dtor = "joining"
    /\ \A w \in Workers : pc[w] = "exited"
    /\ dtor' = "destroyed"
    /\ queue' = <<>>
    /\ future' = [k \in Tasks |-> IF \E i \in 1 .. Len(queue) : queue[i] = k
                                  THEN "broken" ELSE future[k]]
    /\ UNCHANGED <<mutex, pc, hand, notify, aborted>>

WorkerStep(w) ==
    \/ LoopTest(w) \/ Lock(w) \/ Predicate(w) \/ Block(w)
    \/ Check(w) \/ Pop(w) \/ ExecuteMerge(w) \/ SetValue(w)

DestructorStep == StopStore \/ NotifyAll \/ JoinAll

Next ==
    \/ \E k \in Tasks : SubmitMerge(k) \/ NotifyOne(k)
    \/ \E w \in Workers : WorkerStep(w) \/ SpuriousWakeup(w)
    \/ DestructorStep

Spec == Init /\ [][Next]_vars

\* A runnable thread eventually runs: workers, a submitter between its push
\* and its notify_one, and the destructor once it has begun.  Nothing forces
\* a client to submit, an owner to destroy, or a wait to wake spuriously.
Fairness ==
    /\ \A w \in Workers : WF_vars(WorkerStep(w))
    /\ \A k \in Tasks : WF_vars(NotifyOne(k))
    /\ WF_vars(NotifyAll \/ JoinAll)

FairSpec == Spec /\ Fairness
-----------------------------------------------------------------------------
InQueue(k) == \E i \in 1 .. Len(queue) : queue[i] = k

Accounted == \A k \in Tasks :
    future[k] = "pending" <=> (InQueue(k) \/ \E w \in Workers : hand[w] = k)
OneHolder == \A w1, w2 \in Workers : hand[w1] = hand[w2] /\ hand[w1] # None => w1 = w2
HeldNotQueued == \A w \in Workers : hand[w] # None => ~InQueue(hand[w])
QueuedOnce == \A i, j \in 1 .. Len(queue) : queue[i] = queue[j] => i = j

(***************************************************************************)
(* OnePlace: a task whose future is pending is in the queue once or with   *)
(* one worker, never both, and a task whose future is not pending is       *)
(* nowhere.  Hence no merge runs twice, set_value is never called on a     *)
(* promise that already has a value (it would throw), and no future waits  *)
(* for a task that has been dropped.                                       *)
(***************************************************************************)
OnePlace == Accounted /\ OneHolder /\ HeldNotQueued /\ QueuedOnce

(***************************************************************************)
(* NoPopFromEmpty: a worker that goes on to task_queue_.front() finds a    *)
(* task there.  stop_ is read twice without a lock, in the predicate and   *)
(* after it, so this needs that it never falls back.                       *)
(***************************************************************************)
NoPopFromEmpty == \A w \in Workers : pc[w] = "pop" => queue # <<>>

\* The futures show the caller no more than this.
Service == INSTANCE MergeService WITH open <- dtor # "destroyed"

(***************************************************************************)
(* ImplementsService: every behaviour of the pool, seen through the        *)
(* futures and the merger's lifetime, is one of MergeService: a value is   *)
(* set once and only while the merger lives, and only the destructor's     *)
(* last step breaks promises.                                              *)
(***************************************************************************)
ImplementsService == Service!Spec

(***************************************************************************)
(* EverySubmitFulfilled: every submitted task's future gets its value,     *)
(* unless the merger is destroyed or a worker's exception ends the process *)
(* first: notify_one is never lost, although it is called after the lock   *)
(* is released and may find every worker busy.                             *)
(***************************************************************************)
EverySubmitFulfilled ==
    \A k \in Tasks :
        (future[k] = "pending") ~> (future[k] = "value" \/ stop \/ aborted)

(***************************************************************************)
(* DestructorReturns: ~SegmentMerger joins all workers and returns, as the *)
(* tests of test/test_merger.cpp need it to at the end of their scope.     *)
(***************************************************************************)
DestructorReturns == (dtor = "stopped") ~> (dtor = "destroyed")
=============================================================================
