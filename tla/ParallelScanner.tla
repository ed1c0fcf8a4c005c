--------------------------- MODULE ParallelScanner ---------------------------
(***************************************************************************)
(* class ParallelScanner (include/columnar/scanner.h): Scan starts         *)
(* num_threads threads; thread t scans segments t, t + num_threads, ...    *)
(* with a SegmentScanner of its own and hands every run of rows to the     *)
(* caller's callback unless cancelled_ is set.  Scan joins the threads and *)
(* adds up their statistics.  Cancel may be called from anywhere at any    *)
(* time.                                                                   *)
(*                                                                         *)
(* What SegmentScanner::Scan finds in a segment is given: the sizes of the *)
(* runs it delivers.  SegmentScanner models how it finds them.             *)
(***************************************************************************)
EXTENDS Integers, Sequences, FiniteSets

CONSTANTS NumThreads,  \* context_.num_threads
          Runs,        \* Runs[s]: the sizes of the runs of segment s, from 1
          MaxScans     \* bound: calls of Scan on one ParallelScanner

Threads  == 0 .. NumThreads - 1
Segments == 1 .. Len(Runs)
AllRuns  == UNION {{<<s, r>> : r \in 1 .. Len(Runs[s])} : s \in Segments}

ASSUME ParallelAssumption ==
    /\ NumThreads \in Nat \ {0}
    /\ MaxScans \in Nat
    /\ Runs \in Seq(Seq(Nat \ {0}))

VARIABLES pc,          \* where each thread is
          seg,         \* the loop variable i of ScanThread
          run,         \* the run its SegmentScanner is about to deliver
          returned,    \* thread_stats[t].rows_returned
          total,       \* total_stats_.rows_returned
          cancelled,   \* cancelled_
          scanning,    \* whether a call of Scan is in progress
          scans,       \* calls of Scan begun
          deliveries,  \* history: how often this Scan delivered each run
          late,        \* history: callbacks each thread made after Cancel in this Scan
          received     \* history: rows the callbacks were given, over all Scans

vars == <<pc, seg, run, returned, total, cancelled, scanning, scans,
          deliveries, late, received>>

\* The sum of a sequence of numbers.
Total(q) ==
    LET sum[k \in 0 .. Len(q)] == IF k = 0 THEN 0 ELSE sum[k - 1] + q[k]
    IN  sum[Len(q)]

RowsOf(s) == Total(Runs[s])
RowsInAll == Total([s \in Segments |-> RowsOf(s)])

TypeOK ==
    /\ pc \in [Threads -> {"none", "next", "scan", "call", "ended"}]
    /\ seg \in [Threads -> 1 .. Len(Runs) + NumThreads]
    /\ \A t \in Threads : pc[t] \in {"scan", "call"} =>
          seg[t] \in Segments /\ run[t] \in 1 .. Len(Runs[seg[t]]) + 1
    /\ returned \in [Threads -> 0 .. RowsInAll]
    /\ total \in 0 .. MaxScans * RowsInAll
    /\ cancelled \in BOOLEAN /\ scanning \in BOOLEAN
    /\ scans \in 0 .. MaxScans
    /\ received \in 0 .. MaxScans * RowsInAll

Init ==
    /\ pc = [t \in Threads |-> "none"]
    /\ seg = [t \in Threads |-> t + 1]
    /\ run = [t \in Threads |-> 1]
    /\ returned = [t \in Threads |-> 0]
    /\ total = 0
    /\ cancelled = FALSE
    /\ scanning = FALSE
    /\ scans = 0
    /\ deliveries = [x \in AllRuns |-> 0]
    /\ late = [t \in Threads |-> 0]
    /\ received = 0
-----------------------------------------------------------------------------
\* Scan starts its threads.  Nothing clears cancelled_ or total_stats_.
Scan ==
    /\ ~scanning /\ scans < MaxScans
    /\ scanning' = TRUE
    /\ scans' = scans + 1
    /\ pc' = [t \in Threads |-> "next"]
    /\ seg' = [t \in Threads |-> t + 1]
    /\ returned' = [t \in Threads |-> 0]
    /\ deliveries' = [x \in AllRuns |-> 0]
    /\ late' = [t \in Threads |-> 0]
    /\ UNCHANGED <<run, total, cancelled, received>>

\* A faulty loop that spins while cancelled_ is set.
NextSegmentSpins(t) ==
    /\ pc[t] = "next" /\ ~cancelled
    /\ IF seg[t] > Len(Runs)
       THEN pc' = [pc EXCEPT ![t] = "ended"] /\ UNCHANGED run
       ELSE pc' = [pc EXCEPT ![t] = "scan"] /\ run' = [run EXCEPT ![t] = 1]
    /\ UNCHANGED <<seg, returned, total, cancelled, scanning, scans, deliveries, late, received>>

\* The loop test of ScanThread and its early break.
NextSegment(t) ==
    /\ pc[t] = "next"
    /\ IF seg[t] > Len(Runs) \/ cancelled
       THEN pc' = [pc EXCEPT ![t] = "ended"] /\ UNCHANGED run
       ELSE pc' = [pc EXCEPT ![t] = "scan"] /\ run' = [run EXCEPT ![t] = 1]
    /\ UNCHANGED <<seg, returned, total, cancelled, scanning, scans, deliveries, late, received>>

\* A faulty wrapper that does not look at cancelled_.
TestCancelledNever(t) ==
    /\ pc[t] = "scan" /\ run[t] <= Len(Runs[seg[t]])
    /\ pc' = [pc EXCEPT ![t] = "call"]
    /\ UNCHANGED run
    /\ UNCHANGED <<seg, returned, total, cancelled, scanning, scans, deliveries, late, received>>

\* if (!cancelled_.load()): the scan itself goes on either way.
TestCancelled(t) ==
    /\ pc[t] = "scan" /\ run[t] <= Len(Runs[seg[t]])
    /\ IF cancelled
       THEN run' = [run EXCEPT ![t] = @ + 1] /\ UNCHANGED pc
       ELSE pc' = [pc EXCEPT ![t] = "call"] /\ UNCHANGED run
    /\ UNCHANGED <<seg, returned, total, cancelled, scanning, scans, deliveries, late, received>>

\* output(cols, count)
Output(t) ==
    /\ pc[t] = "call"
    /\ pc' = [pc EXCEPT ![t] = "scan"]
    /\ run' = [run EXCEPT ![t] = @ + 1]
    /\ deliveries' = [deliveries EXCEPT ![<<seg[t], run[t]>>] = @ + 1]
    /\ late' = IF cancelled THEN [late EXCEPT ![t] = @ + 1] ELSE late
    /\ received' = received + Runs[seg[t]][run[t]]
    /\ UNCHANGED <<seg, returned, total, cancelled, scanning, scans>>

\* A faulty end of the segment that steps to the neighbour.
EndSegmentByOne(t) ==
    /\ pc[t] = "scan" /\ run[t] > Len(Runs[seg[t]])
    /\ pc' = [pc EXCEPT ![t] = "next"]
    /\ seg' = [seg EXCEPT ![t] = @ + 1]
    /\ returned' = [returned EXCEPT ![t] = @ + RowsOf(seg[t])]
    /\ UNCHANGED <<run, total, cancelled, scanning, scans, deliveries, late, received>>

\* A faulty end of the segment that overwrites the thread's statistics.
EndSegmentOverwrite(t) ==
    /\ pc[t] = "scan" /\ run[t] > Len(Runs[seg[t]])
    /\ pc' = [pc EXCEPT ![t] = "next"]
    /\ seg' = [seg EXCEPT ![t] = @ + NumThreads]
    /\ returned' = [returned EXCEPT ![t] = RowsOf(seg[t])]
    /\ UNCHANGED <<run, total, cancelled, scanning, scans, deliveries, late, received>>

\* Scan of the segment has returned: its statistics count every row found.
EndSegment(t) ==
    /\ pc[t] = "scan" /\ run[t] > Len(Runs[seg[t]])
    /\ pc' = [pc EXCEPT ![t] = "next"]
    /\ seg' = [seg EXCEPT ![t] = @ + NumThreads]
    /\ returned' = [returned EXCEPT ![t] = @ + RowsOf(seg[t])]
    /\ UNCHANGED <<run, total, cancelled, scanning, scans, deliveries, late, received>>

\* The sum of the threads' statistics.
RowsReturned == Total([k \in 1 .. NumThreads |-> returned[k - 1]])

\* All threads joined, their statistics added, Scan returns.
Join ==
    /\ scanning
    /\ \A t \in Threads : pc[t] = "ended"
    /\ scanning' = FALSE
    /\ total' = total + RowsReturned
    /\ UNCHANGED <<pc, seg, run, returned, cancelled, scans, deliveries, late, received>>

Cancel ==
    /\ ~cancelled
    /\ cancelled' = TRUE
    /\ UNCHANGED <<pc, seg, run, returned, total, scanning, scans, deliveries, late, received>>

ThreadStep(t) == NextSegment(t) \/ TestCancelled(t) \/ Output(t) \/ EndSegment(t)

Next == Scan \/ (\E t \in Threads : ThreadStep(t)) \/ Join \/ Cancel

Spec == Init /\ [][Next]_vars

\* Every thread that can run does, and Scan's caller waits in join.  Nobody
\* has to call Scan or Cancel.
FairSpec == Spec /\ (\A t \in Threads : WF_vars(ThreadStep(t))) /\ WF_vars(Join)
-----------------------------------------------------------------------------
(***************************************************************************)
(* EveryRunOnce: a Scan that returns without having been cancelled has     *)
(* delivered every run of every segment exactly once, however the threads  *)
(* shared the segments out; a cancelled one delivers none twice.           *)
(***************************************************************************)
EveryRunOnce ==
    /\ \A x \in AllRuns : deliveries[x] <= 1
    /\ ~scanning /\ scans > 0 /\ ~cancelled => \A x \in AllRuns : deliveries[x] = 1

(***************************************************************************)
(* CancelIsPrompt: after Cancel a thread makes at most the one callback it *)
(* had already decided on when it read cancelled_.                         *)
(***************************************************************************)
CancelIsPrompt == \A t \in Threads : late[t] <= 1

(***************************************************************************)
(* StatsCoverOutput: between Scans the total of rows_returned, over all    *)
(* Scans of this object, is what the callbacks received; after a Cancel it *)
(* may be more, because runs the callback was spared are counted.          *)
(***************************************************************************)
StatsCoverOutput ==
    ~scanning => /\ received <= total
                 /\ ~cancelled => received = total

(***************************************************************************)
(* ScanReturns: every Scan returns, cancelled or not: no thread waits for  *)
(* another and the stride leaves every thread's loop.                      *)
(***************************************************************************)
ScanReturns == scanning ~> ~scanning
=============================================================================
