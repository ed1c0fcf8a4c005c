---------------------------- MODULE MergeService ----------------------------
(***************************************************************************)
(* What SegmentMerger (include/columnar/merger.h) promises a caller of     *)
(* SubmitMerge, in terms of the future it hands back: a future is pending  *)
(* once, then gets its value once and keeps it; a future still pending     *)
(* when the merger is destroyed becomes a broken promise, and no other     *)
(* one does.  Workers, queue, lock and condition variable do not appear.   *)
(***************************************************************************)
CONSTANT Tasks

VARIABLES future,   \* what each task's future shows its caller
          open      \* the merger has not been destroyed

vars == <<future, open>>

Init ==
    /\ future = [k \in Tasks |-> "none"]
    /\ open = TRUE

Submit(k) ==
    /\ open
    /\ future[k] = "none"
    /\ future' = [future EXCEPT ![k] = "pending"]
    /\ UNCHANGED open

Fulfil(k) ==
    /\ open
    /\ future[k] = "pending"
    /\ future' = [future EXCEPT ![k] = "value"]
    /\ UNCHANGED open

Destroy ==
    /\ open
    /\ open' = FALSE
    /\ future' = [k \in Tasks |-> IF future[k] = "pending" THEN "broken" ELSE future[k]]

Next == (\E k \in Tasks : Submit(k) \/ Fulfil(k)) \/ Destroy

Spec == Init /\ [][Next]_vars
=============================================================================
