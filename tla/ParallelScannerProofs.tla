----------------------- MODULE ParallelScannerProofs -----------------------
(***************************************************************************)
(* Proofs about ParallelScanner for any number of threads and any list of  *)
(* segments: the strided loops share the segments out without overlap or   *)
(* gap, Cancel is prompt, and the statistics Scan returns count the rows   *)
(* that were delivered.                                                    *)
(***************************************************************************)
EXTENDS ParallelScanner, WellFoundedInduction, NaturalsInduction, SequenceTheorems, TLAPS

\* The strided loop of thread t comes past segment s.
Visits(t, s) == \E k \in Nat : s = t + 1 + k * NumThreads

\* Thread t has run r of its segment s still before it.
Ahead(t, s, r) ==
    \/ s > seg[t]
    \/ s = seg[t] /\ (pc[t] \in {"scan", "call"} => r >= run[t])

\* Where the threads are.
PlaceInv ==
    /\ pc \in [Threads -> {"none", "next", "scan", "call", "ended"}]
    /\ seg \in [Threads -> Nat] /\ run \in [Threads -> Nat]
    /\ \A t \in Threads :
          /\ Visits(t, seg[t])
          /\ pc[t] \in {"scan", "call"} => seg[t] \in Segments
          /\ pc[t] = "call" => run[t] \in 1 .. Len(Runs[seg[t]])
          /\ pc[t] = "scan" => run[t] \in 1 .. Len(Runs[seg[t]]) + 1
          /\ pc[t] = "ended" /\ ~cancelled => seg[t] > Len(Runs)
    /\ ~scanning /\ scans > 0 => \A t \in Threads : pc[t] = "ended"

\* What lies ahead of its thread has not been delivered; what lies behind has been,
\* once, unless Cancel came between.
DeliveryInv ==
    /\ deliveries \in [AllRuns -> Nat]
    /\ \A t \in Threads, x \in AllRuns : Visits(t, x[1]) =>
          /\ Ahead(t, x[1], x[2]) => deliveries[x] = 0
          /\ ~Ahead(t, x[1], x[2]) => /\ deliveries[x] <= 1
                                      /\ ~cancelled => deliveries[x] = 1

\* A thread that has decided to call back has not been late, and nobody is late
\* before Cancel.
LateInv ==
    /\ late \in [Threads -> Nat]
    /\ \A t \in Threads : /\ late[t] <= 1
                          /\ ~cancelled \/ pc[t] = "call" => late[t] = 0
-----------------------------------------------------------------------------
(* The stride.                                                             *)

LEMMA RunsType ==
    /\ Len(Runs) \in Nat
    /\ \A s \in Segments : Runs[s] \in Seq(Nat \ {0}) /\ Len(Runs[s]) \in Nat
  BY ParallelAssumption DEF Segments

LEMMA AllRunsPairs ==
    /\ \A s \in Segments : \A r \in 1 .. Len(Runs[s]) : <<s, r>> \in AllRuns
    /\ \A x \in AllRuns : x = <<x[1], x[2]>> /\ x[1] \in Segments /\ x[2] \in 1 .. Len(Runs[x[1]])
<1>1. ASSUME NEW s \in Segments, NEW r \in 1 .. Len(Runs[s]) PROVE <<s, r>> \in AllRuns
  BY DEF AllRuns
<1>2. ASSUME NEW x \in AllRuns
      PROVE  x = <<x[1], x[2]>> /\ x[1] \in Segments /\ x[2] \in 1 .. Len(Runs[x[1]])
  <2>1. PICK s \in Segments : x \in {<<s, r>> : r \in 1 .. Len(Runs[s])}
    BY DEF AllRuns
  <2>2. PICK r \in 1 .. Len(Runs[s]) : x = <<s, r>>
    BY <2>1
  <2> QED
    BY <2>2
<1> QED
  BY <1>1, <1>2

\* Two passes of strided loops are a full stride apart.
LEMMA Strides ==
    ASSUME NEW j \in Nat, NEW k \in Nat, j < k
    PROVE  j * NumThreads + NumThreads <= k * NumThreads
<1>1. PICK d \in Nat : k = j + 1 + d
  <2>1. k - j - 1 \in Nat /\ k = j + 1 + (k - j - 1)
    OBVIOUS
  <2> QED
    BY <2>1
<1>2. k * NumThreads = j * NumThreads + NumThreads + d * NumThreads
  BY <1>1, ParallelAssumption
<1>3. d * NumThreads \in Nat /\ j * NumThreads \in Nat
  BY ParallelAssumption
<1> QED
  BY <1>2, <1>3, ParallelAssumption

\* No segment is scanned by two threads.
LEMMA OneVisitor ==
    ASSUME NEW t \in Threads, NEW u \in Threads, NEW s, Visits(t, s), Visits(u, s)
    PROVE  t = u
<1>1. PICK j \in Nat : s = t + 1 + j * NumThreads
  BY DEF Visits
<1>2. PICK k \in Nat : s = u + 1 + k * NumThreads
  BY DEF Visits
<1>3. /\ t \in Int /\ u \in Int /\ 0 <= t /\ t < NumThreads /\ 0 <= u /\ u < NumThreads
      /\ j * NumThreads \in Int /\ k * NumThreads \in Int /\ NumThreads \in Int
  BY ParallelAssumption DEF Threads
<1>4. CASE j < k
  BY <1>1, <1>2, <1>3, <1>4, Strides
<1>5. CASE k < j
  BY <1>1, <1>2, <1>3, <1>5, Strides
<1>6. CASE j = k
  BY <1>1, <1>2, <1>3, <1>6
<1> QED
  BY <1>4, <1>5, <1>6

\* No segment is skipped.
LEMMA SomeVisitor ==
    ASSUME NEW s \in Nat \ {0}
    PROVE  \E t \in Threads : Visits(t, s)
<1> DEFINE t == (s - 1) % NumThreads  k == (s - 1) \div NumThreads
<1>1. t \in Threads /\ k \in Int
  BY ParallelAssumption DEF Threads
<1>2. s = t + 1 + k * NumThreads
  BY ParallelAssumption
<1> HIDE DEF t, k
<1>3. k \in Nat
  <2> SUFFICES ASSUME k < 0 PROVE FALSE
    BY <1>1
  <2>1. PICK d \in Nat : k = 0 - 1 - d
    <3>1. 0 - 1 - k \in Nat /\ k = 0 - 1 - (0 - 1 - k)
      BY <1>1
    <3> QED
      BY <3>1
  <2>2. k * NumThreads = 0 - NumThreads - d * NumThreads /\ d * NumThreads \in Nat
    BY <2>1, ParallelAssumption
  <2> QED
    BY <1>1, <1>2, <2>2, ParallelAssumption DEF Threads
<1> QED
  BY <1>1, <1>2, <1>3 DEF Visits

\* The next segment of a thread is the one it steps to.
LEMMA NextVisit ==
    ASSUME NEW t \in Threads, NEW a, NEW b, Visits(t, a), Visits(t, b)
    PROVE  /\ a \in Nat /\ b \in Nat
           /\ Visits(t, a + NumThreads)
           /\ b > a => b >= a + NumThreads
<1>1. PICK j \in Nat : a = t + 1 + j * NumThreads
  BY DEF Visits
<1>2. PICK k \in Nat : b = t + 1 + k * NumThreads
  BY DEF Visits
<1>3. /\ t \in Nat /\ j * NumThreads \in Nat /\ k * NumThreads \in Nat /\ NumThreads \in Nat
      /\ (j + 1) * NumThreads = j * NumThreads + NumThreads
  BY ParallelAssumption DEF Threads
<1>4. Visits(t, a + NumThreads)
  <2>1. a + NumThreads = t + 1 + (j + 1) * NumThreads
    BY <1>1, <1>3
  <2> QED
    BY <2>1 DEF Visits
<1>5. ASSUME b > a PROVE b >= a + NumThreads
  <2>1. CASE j < k
    BY <1>1, <1>2, <1>3, <2>1, Strides
  <2>2. CASE k < j
    BY <1>1, <1>2, <1>3, <1>5, <2>2, Strides
  <2>3. CASE k = j
    BY <1>1, <1>2, <1>5, <1>3, <2>3
  <2> QED
    BY <2>1, <2>2, <2>3
<1> QED
  BY <1>1, <1>2, <1>3, <1>4, <1>5
-----------------------------------------------------------------------------
(* Where the threads are.                                                  *)

LEMMA PlaceInit == ASSUME Init PROVE PlaceInv
<1>1. \A t \in Threads : t + 1 \in Nat /\ Visits(t, t + 1)
  <2> SUFFICES ASSUME NEW t \in Threads PROVE t + 1 \in Nat /\ t + 1 = t + 1 + 0 * NumThreads
    BY DEF Visits
  <2> QED
    BY ParallelAssumption DEF Threads
<1> QED
  BY <1>1 DEF Init, PlaceInv

LEMMA PlaceStep == ASSUME PlaceInv, [Next]_vars PROVE PlaceInv'
<1>1. CASE Scan
  <2>1. \A t \in Threads : t + 1 \in Nat /\ Visits(t, t + 1)
    <3> SUFFICES ASSUME NEW t \in Threads
                 PROVE  t + 1 \in Nat /\ t + 1 = t + 1 + 0 * NumThreads
      BY DEF Visits
    <3> QED
      BY ParallelAssumption DEF Threads
  <2> QED
    BY <1>1, <2>1 DEF Scan, PlaceInv, Visits
<1>2. ASSUME NEW t \in Threads, NextSegment(t) PROVE PlaceInv'
  <2>1. /\ pc[t] = "next"
        /\ UNCHANGED <<seg, cancelled, scanning, scans>>
    BY <1>2 DEF NextSegment
  <2>2. seg[t] \in Nat \ {0}
    <3>1. PICK k \in Nat : seg[t] = t + 1 + k * NumThreads
      BY DEF PlaceInv, Visits
    <3>2. t \in Nat /\ k * NumThreads \in Nat
      BY ParallelAssumption DEF Threads
    <3> QED
      BY <3>1, <3>2
  <2>3. CASE seg[t] > Len(Runs) \/ cancelled
    <3>1. pc' = [pc EXCEPT ![t] = "ended"] /\ run' = run
      BY <1>2, <2>3 DEF NextSegment
    <3> QED
      BY <2>1, <2>3, <3>1 DEF PlaceInv, Visits
  <2>4. CASE ~(seg[t] > Len(Runs) \/ cancelled)
    <3>1. pc' = [pc EXCEPT ![t] = "scan"] /\ run' = [run EXCEPT ![t] = 1]
      BY <1>2, <2>4 DEF NextSegment
    <3>2. seg[t] \in Segments /\ 1 \in 1 .. Len(Runs[seg[t]]) + 1
      BY <2>2, <2>4, RunsType DEF Segments
    <3> QED
      BY <2>1, <3>1, <3>2 DEF PlaceInv, Visits
  <2> QED
    BY <2>3, <2>4
<1>3. ASSUME NEW t \in Threads, TestCancelled(t) PROVE PlaceInv'
  <2>1. /\ pc[t] = "scan" /\ run[t] <= Len(Runs[seg[t]])
        /\ UNCHANGED <<seg, cancelled, scanning, scans>>
    BY <1>3 DEF TestCancelled
  <2>2. /\ seg[t] \in Segments /\ run[t] \in 1 .. Len(Runs[seg[t]])
        /\ run[t] + 1 \in 1 .. Len(Runs[seg[t]]) + 1 /\ run[t] + 1 \in Nat
    BY <2>1, RunsType DEF PlaceInv
  <2>3. CASE cancelled
    <3>1. run' = [run EXCEPT ![t] = run[t] + 1] /\ pc' = pc
      BY <1>3, <2>3 DEF TestCancelled
    <3> QED
      BY <2>1, <2>2, <3>1 DEF PlaceInv, Visits
  <2>4. CASE ~cancelled
    <3>1. pc' = [pc EXCEPT ![t] = "call"] /\ run' = run
      BY <1>3, <2>4 DEF TestCancelled
    <3> QED
      BY <2>1, <2>2, <3>1 DEF PlaceInv, Visits
  <2> QED
    BY <2>3, <2>4
<1>4. ASSUME NEW t \in Threads, Output(t) PROVE PlaceInv'
  <2>1. /\ pc[t] = "call" /\ pc' = [pc EXCEPT ![t] = "scan"]
        /\ run' = [run EXCEPT ![t] = run[t] + 1]
        /\ UNCHANGED <<seg, cancelled, scanning, scans>>
    BY <1>4 DEF Output
  <2>2. seg[t] \in Segments /\ run[t] + 1 \in 1 .. Len(Runs[seg[t]]) + 1 /\ run[t] + 1 \in Nat
    BY <2>1, RunsType DEF PlaceInv
  <2> QED
    BY <2>1, <2>2 DEF PlaceInv, Visits
<1>5. ASSUME NEW t \in Threads, EndSegment(t) PROVE PlaceInv'
  <2>1. /\ pc[t] = "scan" /\ pc' = [pc EXCEPT ![t] = "next"]
        /\ seg' = [seg EXCEPT ![t] = seg[t] + NumThreads]
        /\ UNCHANGED <<run, cancelled, scanning, scans>>
    BY <1>5 DEF EndSegment
  <2>2. Visits(t, seg[t] + NumThreads) /\ seg[t] + NumThreads \in Nat
    BY NextVisit, ParallelAssumption DEF PlaceInv
  <2> QED
    BY <2>1, <2>2 DEF PlaceInv, Visits
<1>6. CASE Join
  BY <1>6 DEF Join, PlaceInv, Visits
<1>7. CASE Cancel
  BY <1>7 DEF Cancel, PlaceInv, Visits
<1>8. CASE UNCHANGED vars
  BY <1>8 DEF vars, PlaceInv, Visits
<1> QED
  BY <1>1, <1>2, <1>3, <1>4, <1>5, <1>6, <1>7, <1>8 DEF Next, ThreadStep
-----------------------------------------------------------------------------
(* What has been delivered.                                                *)

LEMMA FirstVisit ==
    ASSUME NEW t \in Threads, NEW x \in AllRuns, Visits(t, x[1])
    PROVE  x[1] \in Nat /\ t + 1 \in Nat /\ x[1] >= t + 1
<1>1. PICK k \in Nat : x[1] = t + 1 + k * NumThreads
  BY DEF Visits
<1>2. k * NumThreads \in Nat /\ t \in Nat
  BY ParallelAssumption DEF Threads
<1> QED
  BY <1>1, <1>2

LEMMA DeliveryInit == ASSUME Init PROVE DeliveryInv
<1> SUFFICES ASSUME NEW t \in Threads, NEW x \in AllRuns, Visits(t, x[1])
             PROVE  Ahead(t, x[1], x[2])
  BY DEF Init, DeliveryInv
<1> QED
  BY FirstVisit DEF Init, Ahead

\* A step that moves no thread past a run.
LEMMA SameAhead ==
    ASSUME DeliveryInv, deliveries' = deliveries, cancelled => cancelled',
           \A t \in Threads, x \in AllRuns : Visits(t, x[1]) =>
               (Ahead(t, x[1], x[2])' <=> Ahead(t, x[1], x[2]))
    PROVE  DeliveryInv'
  BY DEF DeliveryInv, Visits

LEMMA DeliveryStep == ASSUME PlaceInv, DeliveryInv, [Next]_vars PROVE DeliveryInv'
<1>1. CASE Scan
  <2>1. \A t \in Threads, x \in AllRuns : Visits(t, x[1]) => Ahead(t, x[1], x[2])'
    BY <1>1, FirstVisit DEF Scan, Ahead
  <2>2. deliveries' = [x \in AllRuns |-> 0]
    BY <1>1 DEF Scan
  <2> QED
    BY <2>1, <2>2 DEF DeliveryInv, Visits
<1>2. ASSUME NEW t \in Threads, NextSegment(t) PROVE DeliveryInv'
  <2>1. /\ pc[t] = "next" /\ UNCHANGED <<seg, cancelled, deliveries>>
    BY <1>2 DEF NextSegment
  <2>2. \A u \in Threads : u # t => pc'[u] = pc[u] /\ run'[u] = run[u]
    BY <1>2 DEF NextSegment, PlaceInv
  <2>3. pc'[t] = "ended" \/ (pc'[t] = "scan" /\ run'[t] = 1)
    BY <1>2 DEF NextSegment, PlaceInv
  <2>4. ASSUME NEW u \in Threads, NEW x \in AllRuns
        PROVE  Ahead(u, x[1], x[2])' <=> Ahead(u, x[1], x[2])
    <3>1. x[2] >= 1
      BY AllRunsPairs
    <3>2. CASE u = t
      BY <2>1, <2>3, <3>1, <3>2 DEF Ahead
    <3>3. CASE u # t
      BY <2>1, <2>2, <3>3 DEF Ahead
    <3> QED
      BY <3>2, <3>3
  <2> QED
    BY <2>1, <2>4, SameAhead
<1>3. ASSUME NEW t \in Threads, TestCancelled(t) PROVE DeliveryInv'
  <2>1. /\ pc[t] = "scan" /\ UNCHANGED <<seg, cancelled, deliveries>>
    BY <1>3 DEF TestCancelled
  <2>2. CASE cancelled
    <3>1. run' = [run EXCEPT ![t] = run[t] + 1] /\ pc' = pc
      BY <1>3, <2>2 DEF TestCancelled
    <3>2. ASSUME NEW u \in Threads, NEW x \in AllRuns, Ahead(u, x[1], x[2])'
          PROVE  Ahead(u, x[1], x[2])
      <4>1. x[2] \in Int /\ run[u] \in Nat
        BY AllRunsPairs DEF PlaceInv
      <4> QED
        BY <2>1, <3>1, <3>2, <4>1 DEF Ahead, PlaceInv
    <3> QED
      BY <2>1, <2>2, <3>2 DEF DeliveryInv, Visits
  <2>3. CASE ~cancelled
    <3>1. pc' = [pc EXCEPT ![t] = "call"] /\ run' = run
      BY <1>3, <2>3 DEF TestCancelled
    <3>2. ASSUME NEW u \in Threads, NEW x \in AllRuns
          PROVE  Ahead(u, x[1], x[2])' <=> Ahead(u, x[1], x[2])
      BY <2>1, <3>1 DEF Ahead, PlaceInv
    <3> QED
      BY <2>1, <3>2, SameAhead
  <2> QED
    BY <2>2, <2>3
<1>4. ASSUME NEW t \in Threads, Output(t) PROVE DeliveryInv'
  <2> DEFINE z == <<seg[t], run[t]>>
  <2>1. /\ pc[t] = "call" /\ pc' = [pc EXCEPT ![t] = "scan"]
        /\ run' = [run EXCEPT ![t] = run[t] + 1]
        /\ deliveries' = [deliveries EXCEPT ![z] = deliveries[z] + 1]
        /\ UNCHANGED <<seg, cancelled>>
    BY <1>4 DEF Output
  <2>2. z \in AllRuns /\ seg[t] \in Segments /\ run[t] \in 1 .. Len(Runs[seg[t]])
    BY <2>1, AllRunsPairs DEF PlaceInv
  <2>3. z[1] = seg[t] /\ z[2] = run[t]
    OBVIOUS
  <2>4. deliveries[z] = 0
    <3>1. Ahead(t, z[1], z[2]) /\ Visits(t, z[1])
      BY <2>2, <2>3 DEF Ahead, PlaceInv
    <3> QED
      BY <2>2, <3>1 DEF DeliveryInv
  <2>5. /\ deliveries' \in [AllRuns -> Nat] /\ deliveries'[z] = 1
        /\ \A x \in AllRuns : x # z => deliveries'[x] = deliveries[x]
    BY <2>1, <2>2, <2>4 DEF DeliveryInv
  <2>6. ASSUME NEW u \in Threads, NEW x \in AllRuns, Visits(u, x[1])
        PROVE  /\ Ahead(u, x[1], x[2])' => deliveries'[x] = 0
               /\ ~Ahead(u, x[1], x[2])' => /\ deliveries'[x] <= 1
                                            /\ ~cancelled' => deliveries'[x] = 1
    <3>1. /\ Ahead(u, x[1], x[2]) => deliveries[x] = 0
          /\ ~Ahead(u, x[1], x[2]) => /\ deliveries[x] <= 1
                                      /\ ~cancelled => deliveries[x] = 1
      BY <2>6 DEF DeliveryInv
    <3>2. CASE x = z
      <4>1. u = t
        BY <2>3, <2>6, <3>2, OneVisitor DEF PlaceInv
      <4>2. ~Ahead(u, x[1], x[2])'
        BY <2>1, <2>2, <2>3, <3>2, <4>1 DEF Ahead, PlaceInv
      <4> QED
        BY <2>5, <3>2, <4>2
    <3>3. CASE x # z
      <4>1. x[1] # seg[t] \/ x[2] # run[t]
        BY <3>3, AllRunsPairs
      <4>2. x[1] \in Int /\ x[2] \in Int /\ seg[t] \in Int /\ run[t] \in Int
        BY AllRunsPairs DEF PlaceInv, Segments
      <4>3. Ahead(u, x[1], x[2])' <=> Ahead(u, x[1], x[2])
        <5>1. CASE u = t
          BY <2>1, <4>1, <4>2, <5>1 DEF Ahead, PlaceInv
        <5>2. CASE u # t
          BY <2>1, <5>2 DEF Ahead, PlaceInv
        <5> QED
          BY <5>1, <5>2
      <4> QED
        BY <2>1, <2>5, <3>1, <3>3, <4>3
    <3> QED
      BY <3>2, <3>3
  <2> QED
    BY <2>5, <2>6 DEF DeliveryInv, Visits
<1>5. ASSUME NEW t \in Threads, EndSegment(t) PROVE DeliveryInv'
  <2>1. /\ pc[t] = "scan" /\ run[t] > Len(Runs[seg[t]])
        /\ pc' = [pc EXCEPT ![t] = "next"]
        /\ seg' = [seg EXCEPT ![t] = seg[t] + NumThreads]
        /\ UNCHANGED <<run, cancelled, deliveries>>
    BY <1>5 DEF EndSegment
  <2>2. ASSUME NEW u \in Threads, NEW x \in AllRuns, Visits(u, x[1])
        PROVE  Ahead(u, x[1], x[2])' <=> Ahead(u, x[1], x[2])
    <3>1. CASE u = t
      <4>1. /\ x[1] \in Nat /\ seg[t] \in Nat /\ seg[t] + NumThreads > seg[t]
            /\ NumThreads \in Nat
            /\ x[1] > seg[t] => x[1] >= seg[t] + NumThreads
        BY <2>2, <3>1, NextVisit, ParallelAssumption DEF PlaceInv
      <4>2. x[1] = seg[t] => ~(x[2] >= run[t])
        <5>1. /\ x[2] \in 1 .. Len(Runs[x[1]]) /\ x[1] \in Segments
              /\ Len(Runs[x[1]]) \in Nat /\ run[t] \in Nat
          BY AllRunsPairs, RunsType DEF PlaceInv
        <5> QED
          BY <2>1, <5>1
      <4>3. seg'[u] = seg[t] + NumThreads /\ pc'[u] = "next"
        BY <2>1, <3>1 DEF PlaceInv
      <4>4. Ahead(u, x[1], x[2])' <=> x[1] > seg'[u] \/ x[1] = seg'[u]
        BY <4>3 DEF Ahead
      <4>5. Ahead(u, x[1], x[2]) <=> x[1] > seg[t]
        BY <2>1, <3>1, <4>2 DEF Ahead
      <4>6. x[1] > seg'[u] \/ x[1] = seg'[u] <=> x[1] > seg[t]
        <5> DEFINE a == x[1]  b == seg[t]
        <5> HIDE DEF a, b
        <5>1. /\ a \in Nat /\ b \in Nat /\ NumThreads \in Nat /\ b + NumThreads > b
              /\ a > b => a >= b + NumThreads
          BY <4>1 DEF a, b
        <5>2. a > b + NumThreads \/ a = b + NumThreads <=> a > b
          BY <5>1
        <5> QED
          BY <4>3, <5>2 DEF a, b
      <4> QED
        BY <4>4, <4>5, <4>6
    <3>2. CASE u # t
      BY <2>1, <3>2 DEF Ahead, PlaceInv
    <3> QED
      BY <3>1, <3>2
  <2> QED
    BY <2>1, <2>2, SameAhead
<1>6. CASE Join
  BY <1>6, SameAhead DEF Join, Ahead
<1>7. CASE Cancel
  BY <1>7, SameAhead DEF Cancel, Ahead
<1>8. CASE UNCHANGED vars
  BY <1>8, SameAhead DEF vars, Ahead
<1> QED
  BY <1>1, <1>2, <1>3, <1>4, <1>5, <1>6, <1>7, <1>8 DEF Next, ThreadStep

(***************************************************************************)
(* ParallelEveryRunOnce: for any number of threads and any segments, a     *)
(* Scan that returns uncancelled has delivered every run exactly once, and *)
(* no Scan delivers one twice.  The stride gives each segment exactly one  *)
(* thread, which has delivered what lies behind it and nothing ahead.      *)
(***************************************************************************)
THEOREM ParallelEveryRunOnce == Spec => []EveryRunOnce
<1>1. PlaceInv /\ DeliveryInv => EveryRunOnce
  <2> SUFFICES ASSUME PlaceInv, DeliveryInv, NEW x \in AllRuns
               PROVE  /\ deliveries[x] <= 1
                      /\ ~scanning /\ scans > 0 /\ ~cancelled => deliveries[x] = 1
    BY DEF EveryRunOnce
  <2>1. x[1] \in Segments
    BY AllRunsPairs
  <2>2. PICK t \in Threads : Visits(t, x[1])
    BY <2>1, SomeVisitor DEF Segments
  <2>3. deliveries[x] <= 1
    BY <2>2 DEF DeliveryInv
  <2>4. ASSUME ~scanning, scans > 0, ~cancelled PROVE deliveries[x] = 1
    <3>1. seg[t] > Len(Runs) /\ seg[t] \in Nat
      BY <2>4 DEF PlaceInv
    <3>2. ~Ahead(t, x[1], x[2])
      BY <2>1, <3>1, RunsType DEF Ahead, Segments
    <3> QED
      BY <2>2, <2>4, <3>2 DEF DeliveryInv
  <2> QED
    BY <2>3, <2>4
<1>2. Init => PlaceInv /\ DeliveryInv
  BY PlaceInit, DeliveryInit
<1>3. PlaceInv /\ DeliveryInv /\ [Next]_vars => (PlaceInv /\ DeliveryInv)'
  BY PlaceStep, DeliveryStep
<1> QED
  BY <1>1, <1>2, <1>3, PTL DEF Spec
-----------------------------------------------------------------------------
LEMMA LateStep == ASSUME PlaceInv, LateInv, [Next]_vars PROVE LateInv'
<1>1. CASE Scan
  BY <1>1 DEF Scan, LateInv
<1>2. ASSUME NEW t \in Threads, NextSegment(t) PROVE LateInv'
  BY <1>2 DEF NextSegment, LateInv, PlaceInv
<1>3. ASSUME NEW t \in Threads, TestCancelled(t) PROVE LateInv'
  BY <1>3 DEF TestCancelled, LateInv, PlaceInv
<1>4. ASSUME NEW t \in Threads, Output(t) PROVE LateInv'
  <2>1. /\ pc[t] = "call" /\ pc' = [pc EXCEPT ![t] = "scan"]
        /\ cancelled => late' = [late EXCEPT ![t] = late[t] + 1]
        /\ ~cancelled => late' = late
        /\ cancelled' = cancelled
    BY <1>4 DEF Output
  <2>2. late[t] = 0
    BY <2>1 DEF LateInv
  <2>3. CASE cancelled
    <3>1. /\ late' \in [Threads -> Nat] /\ late'[t] = 1
          /\ \A u \in Threads : u # t => late'[u] = late[u] /\ pc'[u] = pc[u]
          /\ pc'[t] = "scan" /\ cancelled'
      BY <2>1, <2>2, <2>3 DEF LateInv, PlaceInv
    <3> QED
      BY <2>3, <3>1 DEF LateInv
  <2>4. CASE ~cancelled
    BY <2>1, <2>4 DEF LateInv, PlaceInv
  <2> QED
    BY <2>3, <2>4
<1>5. ASSUME NEW t \in Threads, EndSegment(t) PROVE LateInv'
  BY <1>5 DEF EndSegment, LateInv, PlaceInv
<1>6. CASE Join
  BY <1>6 DEF Join, LateInv
<1>7. CASE Cancel
  BY <1>7 DEF Cancel, LateInv
<1>8. CASE UNCHANGED vars
  BY <1>8 DEF vars, LateInv
<1> QED
  BY <1>1, <1>2, <1>3, <1>4, <1>5, <1>6, <1>7, <1>8 DEF Next, ThreadStep

(***************************************************************************)
(* ParallelCancelIsPrompt: whatever the segments and the schedule, no      *)
(* thread calls back more than once after Cancel in one Scan: a thread     *)
(* between its test of cancelled_ and its callback has not been late yet.  *)
(***************************************************************************)
THEOREM ParallelCancelIsPrompt == Spec => []CancelIsPrompt
<1>1. LateInv => CancelIsPrompt
  BY DEF LateInv, CancelIsPrompt
<1>2. Init => PlaceInv /\ LateInv
  <2>1. Init => LateInv
    BY DEF Init, LateInv
  <2> QED
    BY <2>1, PlaceInit
<1>3. PlaceInv /\ LateInv /\ [Next]_vars => (PlaceInv /\ LateInv)'
  BY PlaceStep, LateStep
<1> QED
  BY <1>1, <1>2, <1>3, PTL DEF Spec
-----------------------------------------------------------------------------
(* Sums.                                                                   *)

\* A set of natural numbers that is not empty has a least element.
LEMMA LeastNat ==
    ASSUME NEW S, S \subseteq Nat, S # {}
    PROVE  \E m \in S : \A n \in S : m <= n
<1>1. IsWellFoundedOn(OpToRel(<, Nat), Nat)
  BY NatLessThanWellFounded
<1>2. PICK m \in S : \A n \in S : ~ (<<n, m>> \in OpToRel(<, Nat))
  BY <1>1, WFMin
<1>3. \A n \in S : n < m => <<n, m>> \in OpToRel(<, Nat)
  BY DEF OpToRel
<1>4. \A n \in S : ~ (n < m)
  BY <1>2, <1>3, Zenon
<1> QED
  BY <1>4

\* S[k] is the sum of the first k of n numbers.
Sums(q, S, n) ==
    /\ S \in [0 .. n -> Nat] /\ S[0] = 0
    /\ \A k \in 1 .. n : S[k] = S[k - 1] + q[k]

\* Every sequence of numbers has its sums: the shortest that had none would have
\* those of a shorter one.
LEMMA SumsExist ==
    ASSUME NEW n \in Nat, NEW q, \A k \in 1 .. n : q[k] \in Nat
    PROVE  \E S : Sums(q, S, n)
<1> DEFINE Bad == {k \in Nat : k <= n /\ ~ \E S : Sums(q, S, k)}
<1> SUFFICES ASSUME Bad # {} PROVE FALSE
  <2>1. n \notin Bad
    OBVIOUS
  <2> QED
    BY <2>1
<1>1. PICK k \in Bad : \A j \in Bad : k <= j
  <2>1. Bad \subseteq Nat
    OBVIOUS
  <2> HIDE DEF Bad
  <2> QED
    BY <2>1, LeastNat
<1>2. CASE k = 0
  <2> DEFINE S == [j \in 0 .. 0 |-> 0]
  <2>1. Sums(q, S, 0)
    BY DEF Sums
  <2> QED
    BY <1>2, <2>1
<1>3. CASE k # 0
  <2>1. k \in Nat \ {0} /\ k - 1 \in Nat /\ k - 1 <= n /\ ~(k <= k - 1)
    BY <1>3
  <2>2. k - 1 \notin Bad
    <3> HIDE DEF Bad
    <3> QED
      BY <1>1, <2>1
  <2>3. PICK S : Sums(q, S, k - 1)
    BY <2>1, <2>2
  <2> DEFINE T == [j \in 0 .. k |-> IF j = k THEN S[k - 1] + q[k] ELSE S[j]]
  <2>4. \A j \in 0 .. k - 1 : S[j] \in Nat
    BY <2>3 DEF Sums
  <2>5. Sums(q, T, k)
    <3>1. T \in [0 .. k -> Nat]
      BY <2>1, <2>4
    <3>2. T[0] = 0
      BY <2>1, <2>3 DEF Sums
    <3>3. ASSUME NEW j \in 1 .. k PROVE T[j] = T[j - 1] + q[j]
      BY <2>1, <2>3 DEF Sums
    <3> QED
      BY <3>1, <3>2, <3>3 DEF Sums
  <2> QED
    BY <2>5
<1> QED
  BY <1>2, <1>3

\* What sum[k] is, is settled by sum[k - 1].
LEMMA TotalIs ==
    ASSUME NEW q, NEW n \in Nat, Len(q) = n, NEW S, Sums(q, S, n)
    PROVE  Total(q) = S[n]
<1> DEFINE R(f) == [k \in 0 .. n |-> IF k = 0 THEN 0 ELSE f[k - 1] + q[k]]
           sum == CHOOSE f : f = R(f)
<1>1. Total(q) = sum[n]
  BY DEF Total
<1>2. S = R(S)
  BY DEF Sums
<1>3. sum = R(sum)
  BY <1>2
<1> HIDE DEF sum
<1> DEFINE Bad == {k \in Nat : k <= n /\ sum[k] # S[k]}
<1>4. Bad = {}
  <2> SUFFICES ASSUME Bad # {} PROVE FALSE
    OBVIOUS
  <2>1. PICK k \in Bad : \A j \in Bad : k <= j
    <3>1. Bad \subseteq Nat
      OBVIOUS
    <3> HIDE DEF Bad
    <3> QED
      BY <3>1, LeastNat
  <2>2. k # 0
    BY <1>3, <2>1 DEF Sums
  <2>3. k \in 1 .. n /\ k - 1 \in Nat /\ k - 1 \in 0 .. n /\ ~(k <= k - 1)
    BY <2>2
  <2>4. sum[k - 1] = S[k - 1]
    <3>1. k - 1 \notin Bad
      <4> HIDE DEF Bad
      <4> QED
        BY <2>1, <2>3
    <3> QED
      BY <2>3, <3>1
  <2>5. sum[k] = sum[k - 1] + q[k]
    BY <1>3, <2>3
  <2> QED
    BY <2>3, <2>4, <2>5 DEF Sums
<1> QED
  BY <1>1, <1>4

\* Of n numbers the one at place i has grown by d.
Grown(q, r, n, i, d) ==
    /\ n \in Nat /\ i \in 1 .. n /\ d \in Nat /\ Len(q) = n /\ Len(r) = n
    /\ \A k \in 1 .. n : q[k] \in Nat
    /\ r[i] = q[i] + d
    /\ \A k \in 1 .. n : k # i => r[k] = q[k]

LEMMA TotalGrows ==
    ASSUME NEW q, NEW r, NEW n, NEW i, NEW d, Grown(q, r, n, i, d)
    PROVE  Total(r) = Total(q) + d
<1> USE DEF Grown
<1>1. PICK S : Sums(q, S, n)
  BY SumsExist
<1> DEFINE T == [k \in 0 .. n |-> IF k < i THEN S[k] ELSE S[k] + d]
<1>2. \A k \in 0 .. n : S[k] \in Nat
  BY <1>1 DEF Sums
<1>3. T \in [0 .. n -> Nat] /\ T[0] = 0
  <2>1. T \in [0 .. n -> Nat]
    BY <1>2
  <2>2. S[0] = 0 /\ 0 \in 0 .. n /\ 0 < i
    BY <1>1 DEF Sums
  <2>3. T[0] = 0
    BY <2>2
  <2> QED
    BY <2>1, <2>3
<1>4. ASSUME NEW k \in 1 .. n PROVE T[k] = T[k - 1] + r[k]
  <2>1. S[k] = S[k - 1] + q[k] /\ S[k - 1] \in Nat /\ q[k] \in Nat /\ k - 1 \in 0 .. n /\ k \in 0 .. n
    BY <1>1, <1>2 DEF Sums
  <2>2. CASE k < i
    BY <2>1, <2>2
  <2>3. CASE k = i
    BY <2>1, <2>3
  <2>4. CASE k > i
    BY <2>1, <2>4
  <2> QED
    BY <2>2, <2>3, <2>4
<1>5. Sums(r, T, n)
  BY <1>3, <1>4 DEF Sums
<1>6. Total(q) = S[n] /\ Total(r) = T[n]
  <2> HIDE DEF T
  <2> QED
    BY <1>1, <1>5, TotalIs
<1> QED
  BY <1>6

\* A sequence of zeros.
LEMMA TotalOfZeros ==
    ASSUME NEW n \in Nat, NEW q, Len(q) = n, \A k \in 1 .. n : q[k] = 0
    PROVE  Total(q) = 0
<1> DEFINE S == [k \in 0 .. n |-> 0]
<1>1. Sums(q, S, n)
  BY DEF Sums
<1>2. S[n] = 0
  OBVIOUS
<1> HIDE DEF S
<1> QED
  BY <1>1, <1>2, TotalIs

\* The rows of the first k runs of a segment.
RowsUpTo(s, k) == (CHOOSE S : Sums(Runs[s], S, Len(Runs[s])))[k]

LEMMA RowsUpToProperties ==
    ASSUME NEW s \in Segments
    PROVE  /\ RowsUpTo(s, 0) = 0 /\ RowsUpTo(s, Len(Runs[s])) = RowsOf(s)
           /\ \A k \in 0 .. Len(Runs[s]) : RowsUpTo(s, k) \in Nat
           /\ \A k \in 1 .. Len(Runs[s]) : /\ Runs[s][k] \in Nat
                                           /\ RowsUpTo(s, k) = RowsUpTo(s, k - 1) + Runs[s][k]
<1> DEFINE q == Runs[s]
           n == Len(q)
           S == CHOOSE f : Sums(q, f, n)
<1>1. n \in Nat /\ \A k \in 1 .. n : q[k] \in Nat
  <2>1. q \in Seq(Nat \ {0}) /\ n \in Nat
    BY RunsType
  <2> QED
    BY <2>1, ElementOfSeq
<1> HIDE DEF q, n
<1>2. Sums(q, S, n)
  BY <1>1, SumsExist
<1> HIDE DEF S
<1>3. Total(q) = S[n]
  BY <1>1, <1>2, TotalIs DEF n
<1>4. /\ S[0] = 0 /\ \A k \in 0 .. n : S[k] \in Nat
      /\ \A k \in 1 .. n : S[k] = S[k - 1] + q[k]
  BY <1>2 DEF Sums
<1>5. \A k : RowsUpTo(s, k) = S[k]
  BY Zenon DEF RowsUpTo, S, q, n
<1>6. RowsOf(s) = S[n]
  BY <1>3, Zenon DEF RowsOf, q
<1> QED
  BY <1>1, <1>4, <1>5, <1>6, Zenon DEF q, n
-----------------------------------------------------------------------------
(* Statistics.                                                             *)

\* The rows of its current segment that thread t has come past, and with those
\* of its earlier segments.
Before(t) == IF pc[t] \in {"scan", "call"} THEN RowsUpTo(seg[t], run[t] - 1) ELSE 0
Passed(t) == returned[t] + Before(t)
Credits   == [k \in 1 .. NumThreads |-> Passed(k - 1)]

\* What the callbacks received is what the threads have come past, or less once
\* Cancel has spared them some.
Covers(sum) == received <= sum /\ (~cancelled => received = sum)

StatsInv ==
    /\ returned \in [Threads -> Nat] /\ total \in Nat /\ received \in Nat
    /\ cancelled \in BOOLEAN
    /\ \A t \in Threads : pc[t] \in {"next", "scan", "call"} => scanning
    /\ IF scanning THEN Covers(total + Total(Credits)) ELSE Covers(total)

LEMMA ThreadNumbers ==
    /\ \A k \in 1 .. NumThreads : k - 1 \in Threads
    /\ \A t \in Threads : t + 1 \in 1 .. NumThreads
    /\ NumThreads \in Nat
  BY ParallelAssumption DEF Threads

\* The place of a thread in its segment.
LEMMA BeforeType ==
    ASSUME PlaceInv, NEW t \in Threads
    PROVE  /\ Before(t) \in Nat
           /\ pc[t] \in {"scan", "call"} =>
                  /\ seg[t] \in Segments /\ run[t] - 1 \in 0 .. Len(Runs[seg[t]])
                  /\ Before(t) = RowsUpTo(seg[t], run[t] - 1)
           /\ ~(pc[t] \in {"scan", "call"}) => Before(t) = 0
<1>1. CASE pc[t] \in {"scan", "call"}
  <2>1. seg[t] \in Segments /\ Len(Runs[seg[t]]) \in Nat
    BY <1>1, RunsType DEF PlaceInv
  <2>2. run[t] - 1 \in 0 .. Len(Runs[seg[t]])
    BY <1>1, <2>1 DEF PlaceInv
  <2> QED
    BY <1>1, <2>1, <2>2, RowsUpToProperties DEF Before
<1>2. CASE ~(pc[t] \in {"scan", "call"})
  BY <1>2 DEF Before
<1> QED
  BY <1>1, <1>2

LEMMA CreditsType ==
    ASSUME PlaceInv, StatsInv
    PROVE  /\ Len(Credits) = NumThreads
           /\ \A k \in 1 .. NumThreads : Credits[k] = Passed(k - 1) /\ Credits[k] \in Nat
<1>1. \A k \in 1 .. NumThreads : Passed(k - 1) \in Nat
  <2> SUFFICES ASSUME NEW k \in 1 .. NumThreads PROVE Passed(k - 1) \in Nat
    OBVIOUS
  <2>1. k - 1 \in Threads
    BY ThreadNumbers
  <2> QED
    BY <2>1, BeforeType DEF Passed, StatsInv
<1> QED
  BY <1>1, ThreadNumbers DEF Credits

\* Nobody has come further.
LEMMA SameCredits ==
    ASSUME \A t \in Threads : Passed(t)' = Passed(t)
    PROVE  Credits' = Credits
<1>1. \A k \in 1 .. NumThreads : Passed(k - 1)' = Passed(k - 1)
  BY ThreadNumbers
<1> QED
  BY <1>1 DEF Credits

\* One thread has come past d more rows.
LEMMA MoreCredits ==
    ASSUME PlaceInv, StatsInv, NEW t \in Threads, NEW d \in Nat, Passed(t)' = Passed(t) + d,
           \A u \in Threads : u # t => Passed(u)' = Passed(u)
    PROVE  Total(Credits)' = Total(Credits) + d
<1> DEFINE q == Credits
           r == Credits'
           n == NumThreads
           i == t + 1
<1>1. n \in Nat /\ i \in 1 .. n /\ Len(r) = n /\ i - 1 = t
  <2>1. Len(r) = n
    BY ThreadNumbers DEF Credits
  <2> QED
    BY <2>1, ThreadNumbers DEF Threads
<1>2. Len(q) = n /\ \A k \in 1 .. n : q[k] = Passed(k - 1) /\ q[k] \in Nat
  BY CreditsType
<1>3. \A k \in 1 .. n : r[k] = Passed(k - 1)'
  BY DEF Credits
<1>4. r[i] = q[i] + d
  BY <1>1, <1>2, <1>3
<1>5. \A k \in 1 .. n : k # i => r[k] = q[k]
  <2> SUFFICES ASSUME NEW k \in 1 .. n, k # i PROVE r[k] = q[k]
    OBVIOUS
  <2>1. k - 1 \in Threads /\ k - 1 # t
    BY ThreadNumbers DEF Threads
  <2> QED
    BY <1>2, <1>3, <2>1
<1> HIDE DEF q, r, i, n
<1>6. Len(q) = n /\ \A k \in 1 .. n : q[k] \in Nat
  BY <1>2
<1>7. Total(r) = Total(q) + d
  <2>1. Grown(q, r, n, i, d)
    BY <1>1, <1>4, <1>5, <1>6 DEF Grown
  <2> QED
    BY <2>1, TotalGrows, Zenon
<1> QED
  BY <1>7 DEF q, r

LEMMA StatsStep == ASSUME PlaceInv, StatsInv, [Next]_vars PROVE StatsInv'
<1> USE ThreadNumbers
<1>1. CASE Scan
  <2>1. /\ ~scanning /\ scanning' /\ returned' = [t \in Threads |-> 0]
        /\ pc' = [t \in Threads |-> "next"] /\ UNCHANGED <<total, cancelled, received>>
    BY <1>1 DEF Scan
  <2>2. \A t \in Threads : Passed(t)' = 0
    BY <2>1 DEF Passed, Before
  <2>3. Len(Credits') = NumThreads /\ \A k \in 1 .. NumThreads : Credits'[k] = 0
    BY <2>2 DEF Credits
  <2>4. Total(Credits)' = 0
    BY <2>3, TotalOfZeros
  <2>5. total + 0 = total
    BY DEF StatsInv
  <2> QED
    BY <2>1, <2>4, <2>5 DEF StatsInv, Covers
<1>2. ASSUME NEW t \in Threads, NextSegment(t) PROVE StatsInv'
  <2>1. /\ pc[t] = "next" /\ UNCHANGED <<seg, returned, total, cancelled, scanning, received>>
        /\ \A u \in Threads : u # t => pc'[u] = pc[u] /\ run'[u] = run[u]
    BY <1>2 DEF NextSegment, PlaceInv
  <2>2. Before(t) = 0
    BY <2>1 DEF Before
  <2>3. Before(t)' = 0
    <3>1. CASE seg[t] > Len(Runs) \/ cancelled
      <4>1. pc'[t] = "ended"
        BY <1>2, <3>1 DEF NextSegment, PlaceInv
      <4> QED
        BY <4>1 DEF Before
    <3>2. CASE ~(seg[t] > Len(Runs) \/ cancelled)
      <4>1. pc'[t] = "scan" /\ run'[t] = 1
        BY <1>2, <3>2 DEF NextSegment, PlaceInv
      <4>2. seg[t] \in Segments
        <5>1. PlaceInv'
          BY <1>2, PlaceStep DEF Next, ThreadStep
        <5> QED
          BY <2>1, <4>1, <5>1 DEF PlaceInv
      <4>3. RowsUpTo(seg[t], 0) = 0 /\ 1 - 1 = 0
        BY <4>2, RowsUpToProperties
      <4> QED
        BY <2>1, <4>1, <4>3 DEF Before
    <3> QED
      BY <3>1, <3>2
  <2>4. \A u \in Threads : Passed(u)' = Passed(u)
    <3> SUFFICES ASSUME NEW u \in Threads PROVE Passed(u)' = Passed(u)
      OBVIOUS
    <3>1. CASE u = t
      BY <2>1, <2>2, <2>3, <3>1 DEF Passed
    <3>2. CASE u # t
      BY <2>1, <3>2 DEF Passed, Before
    <3> QED
      BY <3>1, <3>2
  <2>5. Credits' = Credits
    BY <2>4, SameCredits
  <2> QED
    BY <2>1, <2>5 DEF StatsInv, Covers
<1>3. ASSUME NEW t \in Threads, pc[t] \in {"scan", "call"}, pc'[t] \in {"scan", "call"},
             run[t] <= Len(Runs[seg[t]]),
             run'[t] = run[t] + 1, UNCHANGED <<seg, returned>>,
             \A u \in Threads : u # t => pc'[u] = pc[u] /\ run'[u] = run[u]
      PROVE  /\ Runs[seg[t]][run[t]] \in Nat
             /\ Total(Credits)' = Total(Credits) + Runs[seg[t]][run[t]]
  <2> DEFINE s == seg[t]
             k == run[t]
             d == Runs[s][k]
  <2>1. /\ s \in Segments /\ k \in 1 .. Len(Runs[s]) /\ k + 1 - 1 = k
        /\ Before(t) = RowsUpTo(s, k - 1) /\ Before(t) \in Nat
    <3>1. s \in Segments /\ k - 1 \in 0 .. Len(Runs[s]) /\ Before(t) = RowsUpTo(s, k - 1)
      BY <1>3, BeforeType
    <3>2. Len(Runs[s]) \in Nat /\ k \in Nat
      BY <3>1, RunsType DEF PlaceInv
    <3> QED
      BY <1>3, <3>1, <3>2, BeforeType
  <2>2. Before(t)' = RowsUpTo(s, k)
    BY <1>3, <2>1 DEF Before
  <2>3. d \in Nat /\ RowsUpTo(s, k) = RowsUpTo(s, k - 1) + d
    BY <2>1, RowsUpToProperties
  <2>4. Passed(t)' = Passed(t) + d
    <3>1. returned[t] \in Nat
      BY DEF StatsInv
    <3> HIDE DEF d
    <3> QED
      BY <1>3, <2>1, <2>2, <2>3, <3>1 DEF Passed
  <2>5. \A u \in Threads : u # t => Passed(u)' = Passed(u)
    BY <1>3 DEF Passed, Before
  <2> HIDE DEF d
  <2>6. Total(Credits)' = Total(Credits) + d
    BY <2>3, <2>4, <2>5, MoreCredits
  <2> QED
    BY <2>3, <2>6 DEF d
<1>4. Total(Credits) \in Nat
  <2>1. PICK S : Sums(Credits, S, NumThreads)
    BY CreditsType, SumsExist
  <2>2. Total(Credits) = S[NumThreads]
    BY <2>1, CreditsType, TotalIs
  <2> QED
    BY <2>1, <2>2 DEF Sums
<1>5. ASSUME NEW t \in Threads, TestCancelled(t) PROVE StatsInv'
  <2>1. /\ pc[t] = "scan" /\ run[t] <= Len(Runs[seg[t]])
        /\ UNCHANGED <<seg, returned, total, cancelled, scanning, received>>
    BY <1>5 DEF TestCancelled
  <2>2. CASE cancelled
    <3>1. run' = [run EXCEPT ![t] = run[t] + 1] /\ pc' = pc
      BY <1>5, <2>2 DEF TestCancelled
    <3>2. run'[t] = run[t] + 1 /\ \A u \in Threads : u # t => run'[u] = run[u]
      BY <3>1 DEF PlaceInv
    <3>3. PICK d \in Nat : Total(Credits)' = Total(Credits) + d
      BY <1>3, <2>1, <3>1, <3>2
    <3>4. scanning => received <= total + Total(Credits) + d
      BY <1>4 DEF StatsInv, Covers
    <3> QED
      BY <1>4, <2>1, <2>2, <3>3, <3>4 DEF StatsInv, Covers
  <2>3. CASE ~cancelled
    <3>1. pc' = [pc EXCEPT ![t] = "call"] /\ run' = run
      BY <1>5, <2>3 DEF TestCancelled
    <3>2. \A u \in Threads : Passed(u)' = Passed(u)
      BY <2>1, <3>1 DEF Passed, Before, PlaceInv
    <3> QED
      BY <2>1, <3>2, SameCredits DEF StatsInv, Covers
  <2> QED
    BY <2>2, <2>3
<1>6. ASSUME NEW t \in Threads, Output(t) PROVE StatsInv'
  <2> DEFINE d == Runs[seg[t]][run[t]]
  <2>1. /\ pc[t] = "call" /\ pc' = [pc EXCEPT ![t] = "scan"]
        /\ run' = [run EXCEPT ![t] = run[t] + 1]
        /\ received' = received + d
        /\ UNCHANGED <<seg, returned, total, cancelled, scanning>>
    BY <1>6 DEF Output
  <2>2. run[t] <= Len(Runs[seg[t]])
    BY <2>1 DEF PlaceInv
  <2>3. /\ run'[t] = run[t] + 1 /\ pc'[t] = "scan"
        /\ \A u \in Threads : u # t => pc'[u] = pc[u] /\ run'[u] = run[u]
    BY <2>1 DEF PlaceInv
  <2>4. d \in Nat /\ Total(Credits)' = Total(Credits) + d
    BY <1>3, <2>1, <2>2, <2>3
  <2>5. scanning
    BY <2>1 DEF StatsInv
  <2> HIDE DEF d
  <2>6. /\ received \in Nat /\ total \in Nat /\ received <= total + Total(Credits)
        /\ ~cancelled => received = total + Total(Credits)
    BY <2>5 DEF StatsInv, Covers
  <2>7. /\ received' \in Nat /\ received' <= total' + Total(Credits)'
        /\ ~cancelled => received' = total' + Total(Credits)'
    BY <1>4, <2>1, <2>4, <2>6
  <2> QED
    BY <2>1, <2>5, <2>7 DEF StatsInv, Covers
<1>7. ASSUME NEW t \in Threads, EndSegment(t) PROVE StatsInv'
  <2>1. /\ pc[t] = "scan" /\ run[t] > Len(Runs[seg[t]]) /\ pc' = [pc EXCEPT ![t] = "next"]
        /\ seg' = [seg EXCEPT ![t] = seg[t] + NumThreads]
        /\ returned' = [returned EXCEPT ![t] = returned[t] + RowsOf(seg[t])]
        /\ UNCHANGED <<run, total, cancelled, scanning, received>>
    BY <1>7 DEF EndSegment
  <2>2. seg[t] \in Segments /\ Before(t) = RowsOf(seg[t]) /\ RowsOf(seg[t]) \in Nat
    <3>1. /\ seg[t] \in Segments /\ run[t] - 1 \in 0 .. Len(Runs[seg[t]])
          /\ Before(t) = RowsUpTo(seg[t], run[t] - 1) /\ Before(t) \in Nat
      BY <2>1, BeforeType
    <3>2. Len(Runs[seg[t]]) \in Nat /\ run[t] \in Nat
      BY <3>1, RunsType DEF PlaceInv
    <3>3. run[t] - 1 = Len(Runs[seg[t]])
      BY <2>1, <3>1, <3>2
    <3> QED
      BY <3>1, <3>3, RowsUpToProperties
  <2>3. returned' \in [Threads -> Nat]
    BY <2>1, <2>2 DEF StatsInv
  <2>4. ASSUME NEW u \in Threads PROVE Passed(u)' = Passed(u)
    <3>1. CASE u = t
      <4>1. Before(t)' = 0 /\ returned'[t] = returned[t] + RowsOf(seg[t]) /\ returned[t] \in Nat
        BY <2>1 DEF Before, StatsInv, PlaceInv
      <4>2. returned'[t] + 0 = returned[t] + Before(t)
        BY <2>2, <4>1
      <4> QED
        BY <3>1, <4>1, <4>2 DEF Passed
    <3>2. CASE u # t
      BY <2>1, <3>2 DEF Passed, Before, StatsInv, PlaceInv
    <3> QED
      BY <3>1, <3>2
  <2>5. Credits' = Credits
    BY <2>4, SameCredits
  <2> QED
    BY <2>1, <2>3, <2>5 DEF StatsInv, Covers
<1>8. CASE Join
  <2>1. /\ scanning /\ ~scanning' /\ \A t \in Threads : pc[t] = "ended"
        /\ total' = total + RowsReturned
        /\ UNCHANGED <<pc, returned, cancelled, received>>
    BY <1>8 DEF Join
  <2>2. \A t \in Threads : Passed(t) = returned[t]
    BY <2>1 DEF Passed, Before, StatsInv
  <2>3. Credits = [k \in 1 .. NumThreads |-> returned[k - 1]]
    BY <2>2 DEF Credits
  <2>4. RowsReturned = Total(Credits)
    BY <2>3 DEF RowsReturned
  <2> QED
    BY <1>4, <2>1, <2>4 DEF StatsInv, Covers
<1>9. CASE Cancel
  <2>1. /\ cancelled' /\ cancelled' = TRUE
        /\ UNCHANGED <<pc, seg, run, returned, total, scanning, received>>
    BY <1>9 DEF Cancel
  <2>2. Credits' = Credits
    BY <2>1, SameCredits DEF Passed, Before
  <2> QED
    BY <2>1, <2>2 DEF StatsInv, Covers
<1>10. CASE UNCHANGED vars
  <2>1. Credits' = Credits
    BY <1>10, SameCredits DEF vars, Passed, Before
  <2> QED
    BY <1>10, <2>1 DEF vars, StatsInv, Covers
<1> QED
  BY <1>1, <1>2, <1>5, <1>6, <1>7, <1>8, <1>9, <1>10 DEF Next, ThreadStep

(***************************************************************************)
(* ParallelStatsCoverOutput: for any number of threads, segments and       *)
(* Scans, the total of rows_returned between Scans is what the callbacks   *)
(* received, or more once Cancel has spared them runs.  While a Scan runs  *)
(* a thread's own counter lags behind by the rows of the segment it is in. *)
(***************************************************************************)
THEOREM ParallelStatsCoverOutput == Spec => []StatsCoverOutput
<1>1. StatsInv => StatsCoverOutput
  BY DEF StatsInv, StatsCoverOutput, Covers
<1>2. Init => PlaceInv /\ StatsInv
  <2>1. ASSUME Init PROVE StatsInv
    <3>1. /\ returned \in [Threads -> Nat] /\ total = 0 /\ received = 0 /\ cancelled \in BOOLEAN
          /\ ~scanning /\ \A t \in Threads : pc[t] = "none"
      BY <2>1 DEF Init
    <3>2. Covers(total)
      BY <3>1 DEF Covers
    <3> QED
      BY <3>1, <3>2 DEF StatsInv
  <2> QED
    BY <2>1, PlaceInit
<1>3. PlaceInv /\ StatsInv /\ [Next]_vars => (PlaceInv /\ StatsInv)'
  BY PlaceStep, StatsStep
<1> QED
  BY <1>1, <1>2, <1>3, PTL DEF Spec
=============================================================================
