-------------------------- MODULE MergePoolProofs --------------------------
(***************************************************************************)
(* Proofs about MergePool for any number of workers and tasks: the type    *)
(* invariant, OnePlace, NoPopFromEmpty and the refinement of MergeService. *)
(***************************************************************************)
EXTENDS MergePool, TLAPS

\* A worker is between taking and releasing the lock exactly when it holds it.
LockInv == \A w \in Workers :
    (mutex = w) <=> (pc[w] \in {"predicate", "block", "check", "pop"})

\* A worker has a task in hand exactly between Pop and SetValue.
HandInv == \A w \in Workers :
    (hand[w] # None) <=> (pc[w] \in {"merge", "fulfil"})

\* What the predicate has established is still true when it is used.
ReadyInv == \A w \in Workers :
    /\ pc[w] = "check" => (stop \/ queue # <<>>)
    /\ pc[w] = "pop" => queue # <<>>

\* Nothing runs once the destructor has returned.
GoneInv == dtor = "destroyed" => queue = <<>> /\ \A w \in Workers : pc[w] = "exited"

IInv == TypeOK /\ LockInv /\ HandInv /\ ReadyInv /\ GoneInv /\ OnePlace

\* Appending a task: where the elements of the new queue come from.
LEMMA AppendFacts ==
    ASSUME NEW q \in Seq(Tasks), NEW k \in Tasks
    PROVE  /\ Append(q, k) \in Seq(Tasks)
           /\ Len(Append(q, k)) = Len(q) + 1
           /\ \A i \in 1 .. Len(q) : Append(q, k)[i] = q[i]
           /\ Append(q, k)[Len(q) + 1] = k
           /\ Append(q, k) # <<>>
  OBVIOUS

\* Removing the front: the rest of the queue moves up by one.
LEMMA TailFacts ==
    ASSUME NEW q \in Seq(Tasks), q # <<>>
    PROVE  /\ Len(q) \in Nat \ {0}
           /\ Head(q) = q[1] /\ Head(q) \in Tasks
           /\ Tail(q) \in Seq(Tasks)
           /\ Len(Tail(q)) = Len(q) - 1
           /\ \A i \in 1 .. Len(q) - 1 : Tail(q)[i] = q[i + 1]
  OBVIOUS

\* Init establishes the inductive invariant.
LEMMA InitIInv == Init => IInv
<1> SUFFICES ASSUME Init PROVE IInv
  OBVIOUS
<1> USE PoolAssumption DEF Init
<1>1. TypeOK
  <2>1. queue \in Seq(Tasks) /\ notify \in SUBSET Tasks
    OBVIOUS
  <2>2. /\ mutex \in Workers \cup {None}
        /\ hand \in [Workers -> Tasks \cup {None}]
        /\ pc \in [Workers -> {"loop", "lock", "predicate", "block", "waiting", "woken",
                              "check", "pop", "merge", "fulfil", "exited"}]
        /\ future \in [Tasks -> {"none", "pending", "value", "broken"}]
    OBVIOUS
  <2>3. dtor \in {"alive", "stopped", "joining", "destroyed"} /\ aborted \in BOOLEAN
    OBVIOUS
  <2> QED
    BY <2>1, <2>2, <2>3 DEF TypeOK
<1>2. LockInv /\ HandInv /\ ReadyInv /\ GoneInv
  BY DEF LockInv, HandInv, ReadyInv, GoneInv
<1>3. Accounted
  BY DEF Accounted, InQueue
<1>4. OneHolder /\ HeldNotQueued /\ QueuedOnce
  BY DEF OneHolder, HeldNotQueued, QueuedOnce, InQueue
<1> QED
  BY <1>1, <1>2, <1>3, <1>4 DEF IInv, OnePlace

\* Submitting puts a task that was nowhere into the queue.
LEMMA SubmitStep ==
    ASSUME IInv, NEW k \in Tasks, SubmitMerge(k) PROVE IInv'
<1> USE PoolAssumption DEF IInv
<1>0. queue' = Append(queue, k) /\ queue \in Seq(Tasks) /\ Len(queue) \in Nat
  BY DEF SubmitMerge, TypeOK
<1>1. TypeOK'
  BY <1>0, AppendFacts DEF SubmitMerge, TypeOK
<1>2. LockInv' /\ HandInv' /\ GoneInv'
  BY DEF SubmitMerge, LockInv, HandInv, GoneInv
<1>3. ReadyInv'
  BY <1>0, AppendFacts DEF SubmitMerge, ReadyInv, stop
<1>4. ~InQueue(k) /\ \A w \in Workers : hand[w] # k
  BY DEF SubmitMerge, OnePlace, Accounted
<1>5. \A x \in Tasks : InQueue(x)' <=> (InQueue(x) \/ x = k)
  <2> SUFFICES ASSUME NEW x \in Tasks PROVE InQueue(x)' <=> (InQueue(x) \/ x = k)
    OBVIOUS
  <2> DEFINE q == Append(queue, k)
  <2>1. /\ Len(q) = Len(queue) + 1 /\ q[Len(queue) + 1] = k
        /\ \A i \in 1 .. Len(queue) : q[i] = queue[i]
    BY <1>0, AppendFacts
  <2> HIDE DEF q
  <2>2. (\E i \in 1 .. Len(q) : q[i] = x) <=>
        ((\E i \in 1 .. Len(queue) : queue[i] = x) \/ x = k)
    BY <1>0, <2>1
  <2> QED
    BY <1>0, <2>2 DEF InQueue, q
<1>6. Accounted'
  BY <1>4, <1>5 DEF SubmitMerge, OnePlace, Accounted, TypeOK
<1>7. OneHolder'
  BY DEF SubmitMerge, OnePlace, OneHolder
<1>8. HeldNotQueued'
  BY <1>4, <1>5 DEF SubmitMerge, OnePlace, HeldNotQueued, TypeOK
<1>9. QueuedOnce'
  <2> DEFINE q == Append(queue, k)
  <2>1. /\ Len(q) = Len(queue) + 1 /\ q[Len(queue) + 1] = k
        /\ \A i \in 1 .. Len(queue) : q[i] = queue[i]
    BY <1>0, AppendFacts
  <2>2. \A i \in 1 .. Len(queue) : queue[i] # k
    BY <1>4 DEF InQueue
  <2> HIDE DEF q
  <2>3. \A i, j \in 1 .. Len(q) : q[i] = q[j] => i = j
    BY <1>0, <2>1, <2>2 DEF OnePlace, QueuedOnce
  <2> QED
    BY <1>0, <2>3 DEF QueuedOnce, q
<1> QED
  BY <1>1, <1>2, <1>3, <1>6, <1>7, <1>8, <1>9 DEF OnePlace

\* Popping moves the front task from the queue into one worker's hand.
LEMMA PopStep ==
    ASSUME IInv, NEW w \in Workers, Pop(w) PROVE IInv'
<1> USE PoolAssumption DEF IInv
<1> DEFINE h == Head(queue)
<1>0. queue \in Seq(Tasks) /\ queue # <<>> /\ queue' = Tail(queue) /\ pc[w] = "pop"
  BY DEF Pop, TypeOK
<1>1. /\ Len(queue) \in Nat \ {0} /\ h = queue[1] /\ h \in Tasks
      /\ queue' \in Seq(Tasks) /\ Len(queue') = Len(queue) - 1
      /\ \A i \in 1 .. Len(queue) - 1 : queue'[i] = queue[i + 1]
  BY <1>0, TailFacts
<1> HIDE DEF h
<1>h. hand' = [hand EXCEPT ![w] = h] /\ hand \in [Workers -> Tasks \cup {None}]
  BY DEF Pop, TypeOK, h
<1>2. TypeOK'
  BY <1>1, <1>h DEF Pop, TypeOK
<1>3. mutex = w /\ mutex' = None /\ pc' = [pc EXCEPT ![w] = "merge"]
  BY <1>0 DEF Pop, LockInv
<1>4. LockInv'
  BY <1>3 DEF LockInv, TypeOK
<1>5. HandInv'
  BY <1>1, <1>3, <1>h DEF HandInv, TypeOK
<1>6. ReadyInv'
  BY <1>3 DEF LockInv, ReadyInv, TypeOK
<1>7. GoneInv'
  BY <1>0 DEF Pop, GoneInv
<1>8. InQueue(h) /\ hand[w] = None
  BY <1>0, <1>1 DEF InQueue, HandInv
<1>9. \A x \in Tasks : InQueue(x)' <=> (InQueue(x) /\ x # h)
  <2>1. \A i \in 1 .. Len(queue) : queue[i] = h => i = 1
    BY <1>1 DEF OnePlace, QueuedOnce
  <2> SUFFICES ASSUME NEW x \in Tasks PROVE InQueue(x)' <=> (InQueue(x) /\ x # h)
    OBVIOUS
  <2>2. ASSUME InQueue(x)' PROVE InQueue(x) /\ x # h
    <3>1. PICK i \in 1 .. Len(queue') : queue'[i] = x
      BY <2>2 DEF InQueue
    <3>2. i + 1 \in 1 .. Len(queue) /\ queue[i + 1] = x /\ i + 1 # 1
      BY <1>1, <3>1
    <3> QED
      BY <2>1, <3>2 DEF InQueue
  <2>3. ASSUME InQueue(x), x # h PROVE InQueue(x)'
    <3>1. PICK i \in 1 .. Len(queue) : queue[i] = x
      BY <2>3 DEF InQueue
    <3>2. i # 1
      BY <1>1, <2>3, <3>1
    <3>3. i - 1 \in 1 .. Len(queue') /\ queue'[i - 1] = x
      BY <1>1, <3>1, <3>2
    <3> QED
      BY <3>3 DEF InQueue
  <2> QED
    BY <2>2, <2>3
<1>10. \A v \in Workers : hand[v] # h
  BY <1>8, <1>1 DEF OnePlace, HeldNotQueued
<1>11. Accounted'
  <2> SUFFICES ASSUME NEW x \in Tasks
               PROVE  future'[x] = "pending" <=>
                        (InQueue(x)' \/ \E v \in Workers : hand'[v] = x)
    BY DEF Accounted
  <2>1. future' = future /\ x # None
    BY DEF Pop
  <2>2. (\E v \in Workers : hand'[v] = x) <=> (x = h \/ \E v \in Workers : hand[v] = x)
    BY <1>h, <1>8, <2>1
  <2> QED
    BY <1>8, <1>9, <2>1, <2>2, <1>1 DEF OnePlace, Accounted
<1>12. OneHolder'
  BY <1>h, <1>10 DEF OnePlace, OneHolder
<1>13. HeldNotQueued'
  <2> SUFFICES ASSUME NEW v \in Workers, hand'[v] # None PROVE ~InQueue(hand[v])'
    BY DEF HeldNotQueued
  <2>1. hand'[v] \in Tasks /\ (hand'[v] = h \/ (hand'[v] = hand[v] /\ hand[v] # None))
    BY <1>1, <1>h
  <2> QED
    BY <1>9, <2>1 DEF OnePlace, HeldNotQueued
<1>14. QueuedOnce'
  <2> SUFFICES ASSUME NEW i \in 1 .. Len(queue'), NEW j \in 1 .. Len(queue'),
                      queue'[i] = queue'[j]
               PROVE  i = j
    BY DEF QueuedOnce
  <2>1. /\ i + 1 \in 1 .. Len(queue) /\ j + 1 \in 1 .. Len(queue)
        /\ queue[i + 1] = queue[j + 1]
    BY <1>1
  <2>2. i + 1 = j + 1
    BY <2>1 DEF OnePlace, QueuedOnce
  <2> QED
    BY <2>2, <1>1
<1> QED
  BY <1>2, <1>4, <1>5, <1>6, <1>7, <1>11, <1>12, <1>13, <1>14 DEF OnePlace

\* Setting the value takes a task out of the hand of the one worker that has it.
LEMMA SetValueStep ==
    ASSUME IInv, NEW w \in Workers, SetValue(w) PROVE IInv'
<1> USE PoolAssumption DEF IInv
<1> DEFINE k == hand[w]
<1>0. /\ pc[w] = "fulfil" /\ k \in Tasks /\ k # None
      /\ future' = [future EXCEPT ![k] = "value"]
      /\ hand' = [hand EXCEPT ![w] = None]
      /\ pc' = [pc EXCEPT ![w] = "loop"]
      /\ UNCHANGED <<queue, mutex, notify, dtor, aborted>>
  BY DEF SetValue, HandInv, TypeOK
<1>1. TypeOK'
  BY <1>0 DEF TypeOK
<1>2. LockInv' /\ HandInv' /\ ReadyInv'
  BY <1>0 DEF LockInv, HandInv, ReadyInv, TypeOK, stop
<1>3. GoneInv'
  BY <1>0 DEF GoneInv, TypeOK
<1>4. \A x : InQueue(x)' <=> InQueue(x)
  BY <1>0 DEF InQueue
<1>5. ~InQueue(k) /\ \A v \in Workers : v # w => hand[v] # k
  BY <1>0 DEF OnePlace, OneHolder, HeldNotQueued
<1>6. Accounted'
  <2> SUFFICES ASSUME NEW x \in Tasks
               PROVE  future'[x] = "pending" <=>
                        (InQueue(x)' \/ \E v \in Workers : hand'[v] = x)
    BY DEF Accounted
  <2>1. x # None
    OBVIOUS
  <2>2. CASE x = k
    BY <1>0, <1>4, <1>5, <2>1, <2>2 DEF TypeOK
  <2>3. CASE x # k
    <3>1. (\E v \in Workers : hand'[v] = x) <=> (\E v \in Workers : hand[v] = x)
      BY <1>0, <2>1, <2>3 DEF TypeOK
    <3> QED
      BY <1>0, <1>4, <2>3, <3>1 DEF OnePlace, Accounted, TypeOK
  <2> QED
    BY <2>2, <2>3
<1>7. OneHolder'
  BY <1>0 DEF OnePlace, OneHolder, TypeOK
<1>8. HeldNotQueued'
  BY <1>0, <1>4 DEF OnePlace, HeldNotQueued, TypeOK
<1>9. QueuedOnce'
  BY <1>0 DEF OnePlace, QueuedOnce
<1> QED
  BY <1>1, <1>2, <1>3, <1>6, <1>7, <1>8, <1>9 DEF OnePlace

\* When every worker has been joined, what is pending is in the queue, and
\* destroying the queue breaks exactly those promises.
LEMMA JoinAllStep ==
    ASSUME IInv, JoinAll PROVE IInv'
<1> USE PoolAssumption DEF IInv
<1>0. /\ queue' = <<>> /\ dtor' = "destroyed"
      /\ UNCHANGED <<mutex, pc, hand, notify, aborted>>
      /\ \A w \in Workers : pc[w] = "exited"
      /\ future' = [k \in Tasks |-> IF InQueue(k) THEN "broken" ELSE future[k]]
  BY DEF JoinAll, InQueue
<1>1. \A w \in Workers : hand[w] = None
  BY <1>0 DEF HandInv
<1>2. TypeOK'
  <2>1. queue' \in Seq(Tasks)
    BY <1>0
  <2>2. future' \in [Tasks -> {"none", "pending", "value", "broken"}]
    BY <1>0 DEF TypeOK
  <2> QED
    BY <1>0, <2>1, <2>2 DEF TypeOK
<1>3. LockInv' /\ HandInv' /\ ReadyInv' /\ GoneInv'
  BY <1>0 DEF LockInv, HandInv, ReadyInv, GoneInv
<1>4. \A x : ~InQueue(x)'
  BY <1>0 DEF InQueue
<1>5. Accounted'
  <2> SUFFICES ASSUME NEW x \in Tasks PROVE future'[x] # "pending"
    BY <1>0, <1>1, <1>4 DEF Accounted
  <2>1. future[x] = "pending" => InQueue(x)
    BY <1>1 DEF OnePlace, Accounted
  <2> QED
    BY <1>0, <2>1
<1>6. OneHolder' /\ HeldNotQueued' /\ QueuedOnce'
  BY <1>0, <1>1, <1>4 DEF OneHolder, HeldNotQueued, QueuedOnce
<1> QED
  BY <1>2, <1>3, <1>5, <1>6 DEF OnePlace

\* The steps that only move a worker between places of its loop, and the
\* destructor's first two, leave every task where it is.
LEMMA ControlStep ==
    ASSUME IInv,
           \/ \E k \in Tasks : NotifyOne(k)
           \/ \E w \in Workers : \/ LoopTest(w) \/ Lock(w) \/ Predicate(w) \/ Block(w)
                                 \/ Check(w) \/ ExecuteMerge(w) \/ SpuriousWakeup(w)
           \/ StopStore \/ NotifyAll
    PROVE  IInv'
<1> USE PoolAssumption DEF IInv
<1>0. UNCHANGED <<queue, hand, future>>
  BY DEF NotifyOne, LoopTest, Lock, Predicate, Block, Check, ExecuteMerge,
         SpuriousWakeup, StopStore, NotifyAll
<1>1. OnePlace'
  BY <1>0 DEF OnePlace, Accounted, OneHolder, HeldNotQueued, QueuedOnce, InQueue
<1>2. ASSUME NEW k \in Tasks, NotifyOne(k)
      PROVE  TypeOK' /\ LockInv' /\ HandInv' /\ ReadyInv' /\ GoneInv'
  <2>1. CASE \E w \in Workers : pc[w] = "waiting" /\ pc' = [pc EXCEPT ![w] = "woken"]
    BY <1>2, <2>1 DEF NotifyOne, TypeOK, LockInv, HandInv, ReadyInv, GoneInv, stop
  <2>2. CASE pc' = pc
    BY <1>2, <2>2 DEF NotifyOne, TypeOK, LockInv, HandInv, ReadyInv, GoneInv, stop
  <2> QED
    BY <1>2, <2>1, <2>2 DEF NotifyOne
<1>3. ASSUME NEW w \in Workers, LoopTest(w)
      PROVE  TypeOK' /\ LockInv' /\ HandInv' /\ ReadyInv' /\ GoneInv'
  BY <1>3 DEF LoopTest, TypeOK, LockInv, HandInv, ReadyInv, GoneInv, stop
<1>4. ASSUME NEW w \in Workers, Lock(w)
      PROVE  TypeOK' /\ LockInv' /\ HandInv' /\ ReadyInv' /\ GoneInv'
  BY <1>4 DEF Lock, TypeOK, LockInv, HandInv, ReadyInv, GoneInv, stop
<1>5. ASSUME NEW w \in Workers, Predicate(w)
      PROVE  TypeOK' /\ LockInv' /\ HandInv' /\ ReadyInv' /\ GoneInv'
  BY <1>5 DEF Predicate, TypeOK, LockInv, HandInv, ReadyInv, GoneInv, stop
<1>6. ASSUME NEW w \in Workers, Block(w)
      PROVE  TypeOK' /\ LockInv' /\ HandInv' /\ ReadyInv' /\ GoneInv'
  BY <1>6 DEF Block, TypeOK, LockInv, HandInv, ReadyInv, GoneInv, stop
<1>7. ASSUME NEW w \in Workers, Check(w)
      PROVE  TypeOK' /\ LockInv' /\ HandInv' /\ ReadyInv' /\ GoneInv'
  <2>1. CASE stop /\ queue = <<>>
    BY <1>7, <2>1 DEF Check, TypeOK, LockInv, HandInv, ReadyInv, GoneInv, stop
  <2>2. CASE ~(stop /\ queue = <<>>)
    BY <1>7, <2>2 DEF Check, TypeOK, LockInv, HandInv, ReadyInv, GoneInv, stop
  <2> QED
    BY <2>1, <2>2
<1>8. ASSUME NEW w \in Workers, ExecuteMerge(w)
      PROVE  TypeOK' /\ LockInv' /\ HandInv' /\ ReadyInv' /\ GoneInv'
  <2>1. CASE hand[w] \in Failing
    BY <1>8, <2>1 DEF ExecuteMerge, TypeOK, LockInv, HandInv, ReadyInv, GoneInv, stop
  <2>2. CASE hand[w] \notin Failing
    BY <1>8, <2>2 DEF ExecuteMerge, TypeOK, LockInv, HandInv, ReadyInv, GoneInv, stop
  <2> QED
    BY <2>1, <2>2
<1>9. ASSUME NEW w \in Workers, SpuriousWakeup(w)
      PROVE  TypeOK' /\ LockInv' /\ HandInv' /\ ReadyInv' /\ GoneInv'
  BY <1>9 DEF SpuriousWakeup, TypeOK, LockInv, HandInv, ReadyInv, GoneInv, stop
<1>10. CASE StopStore
  BY <1>10, <1>1 DEF StopStore, TypeOK, LockInv, HandInv, ReadyInv, GoneInv, stop
<1>11. CASE NotifyAll
  BY <1>11, <1>1 DEF NotifyAll, TypeOK, LockInv, HandInv, ReadyInv, GoneInv, stop
<1> QED
  BY <1>1, <1>2, <1>3, <1>4, <1>5, <1>6, <1>7, <1>8, <1>9, <1>10, <1>11

\* Every step keeps the inductive invariant.
LEMMA NextIInv == IInv /\ [Next]_vars => IInv'
<1> SUFFICES ASSUME IInv, [Next]_vars PROVE IInv'
  OBVIOUS
<1>1. CASE UNCHANGED vars
  BY <1>1 DEF vars, IInv, TypeOK, LockInv, HandInv, ReadyInv, GoneInv, OnePlace,
     Accounted, OneHolder, HeldNotQueued, QueuedOnce, InQueue, stop
<1>2. CASE \E k \in Tasks : SubmitMerge(k)
  BY <1>2, SubmitStep
<1>3. CASE \E w \in Workers : Pop(w)
  BY <1>3, PopStep
<1>4. CASE \E w \in Workers : SetValue(w)
  BY <1>4, SetValueStep
<1>5. CASE JoinAll
  BY <1>5, JoinAllStep
<1>6. CASE \/ \E k \in Tasks : NotifyOne(k)
           \/ \E w \in Workers : \/ LoopTest(w) \/ Lock(w) \/ Predicate(w) \/ Block(w)
                                 \/ Check(w) \/ ExecuteMerge(w) \/ SpuriousWakeup(w)
           \/ StopStore \/ NotifyAll
  BY <1>6, ControlStep
<1> QED
  BY <1>1, <1>2, <1>3, <1>4, <1>5, <1>6 DEF Next, WorkerStep, DestructorStep

\* The inductive invariant holds in every behaviour of WorkerLoop, SubmitMerge
\* and ~SegmentMerger.
THEOREM PoolInvariant == Spec => []IInv
  BY InitIInv, NextIInv, PTL DEF Spec

\* The variables of the merger keep their types.
THEOREM PoolTypeOK == Spec => []TypeOK
<1>1. IInv => TypeOK
  BY DEF IInv
<1> QED
  BY <1>1, PoolInvariant, PTL

\* A pending task is in exactly one place, the queue or one worker's hand, so
\* WorkerLoop merges it once and sets its promise once.
THEOREM PoolOnePlace == Spec => []OnePlace
<1>1. IInv => OnePlace
  BY DEF IInv
<1> QED
  BY <1>1, PoolInvariant, PTL

\* WorkerLoop never calls front() on an empty task_queue_.
THEOREM PoolNoPopFromEmpty == Spec => []NoPopFromEmpty
<1>1. IInv => NoPopFromEmpty
  BY DEF IInv, ReadyInv, NoPopFromEmpty
<1> QED
  BY <1>1, PoolInvariant, PTL

\* A step of the pool is a step of MergeService or leaves the futures alone.
LEMMA StepImplements ==
    ASSUME IInv, [Next]_vars PROVE [Service!Next]_(Service!vars)
<1> USE PoolAssumption DEF Service!vars
<1>1. CASE UNCHANGED <<future, dtor>>
  BY <1>1
<1>2. ASSUME NEW k \in Tasks, SubmitMerge(k) PROVE Service!Submit(k)
  BY <1>2 DEF SubmitMerge, Service!Submit
<1>3. ASSUME NEW w \in Workers, SetValue(w) PROVE Service!Fulfil(hand[w])
  <2>1. hand[w] \in Tasks /\ future[hand[w]] = "pending"
    BY <1>3 DEF SetValue, IInv, TypeOK, HandInv, OnePlace, Accounted
  <2>2. dtor # "destroyed"
    BY <1>3 DEF SetValue, IInv, GoneInv
  <2> QED
    BY <1>3, <2>1, <2>2 DEF SetValue, Service!Fulfil
<1>4. CASE JoinAll
  <2>1. \A k \in Tasks : future[k] = "pending" <=> InQueue(k)
    BY <1>4 DEF JoinAll, IInv, HandInv, OnePlace, Accounted
  <2>2. Service!Destroy
    BY <1>4, <2>1 DEF JoinAll, InQueue, Service!Destroy
  <2> QED
    BY <2>2 DEF Service!Next
<1>5. CASE StopStore \/ NotifyAll
  BY <1>5 DEF StopStore, NotifyAll
<1>6. CASE \/ \E k \in Tasks : NotifyOne(k)
           \/ \E w \in Workers : \/ LoopTest(w) \/ Lock(w) \/ Predicate(w) \/ Block(w)
                                 \/ Check(w) \/ ExecuteMerge(w) \/ SpuriousWakeup(w)
                                 \/ Pop(w)
  BY <1>6, <1>1 DEF NotifyOne, LoopTest, Lock, Predicate, Block, Check, ExecuteMerge,
                    SpuriousWakeup, Pop
<1>7. CASE \E k \in Tasks : SubmitMerge(k)
  BY <1>2, <1>7 DEF Service!Next
<1>8. CASE \E w \in Workers : SetValue(w)
  <2>1. PICK w \in Workers : SetValue(w)
    BY <1>8
  <2>2. hand[w] \in Tasks
    BY <2>1 DEF SetValue, IInv, TypeOK, HandInv
  <2> QED
    BY <1>3, <2>1, <2>2 DEF Service!Next
<1> QED
  BY <1>1, <1>4, <1>5, <1>6, <1>7, <1>8 DEF Next, WorkerStep, DestructorStep, vars

\* Seen through the futures, the merger behaves as MergeService: one value per
\* future, set while the merger lives, and promises broken only at its end.
THEOREM PoolImplementsService == Spec => ImplementsService
<1>1. Init => Service!Init
  BY DEF Init, Service!Init
<1> QED
  BY <1>1, PoolInvariant, StepImplements, PTL DEF Spec, ImplementsService, Service!Spec
=============================================================================
