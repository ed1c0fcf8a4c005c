--------------------------- MODULE SegmentReader ---------------------------
(***************************************************************************)
(* class Segment over class SegmentReader (include/columnar/segment.h):    *)
(* threads that share one segment and its one ifstream.                    *)
(*                                                                         *)
(* GetColumn runs under two nested mutexes and fills a cache; GetZoneMap   *)
(* and GetBloomFilter take no lock, yet seek and read the same stream.     *)
(* PrefetchColumns detaches threads that hold a bare `this'.  seekg and    *)
(* read are one step each: a data race on the stream has worse outcomes    *)
(* than the interleavings shown here, and these are bad enough.            *)
(***************************************************************************)
EXTENDS Integers, FiniteSetsExt

CONSTANTS Callers,         \* threads holding a shared_ptr to the segment
          Prefetchers,     \* bound: threads PrefetchColumns may start
          NumColumns,
          ZoneMapped,      \* columns whose zone_map_size is not 0
          Filtered,        \* columns whose bloom_size is not 0
          MaxCalls,        \* bound: calls of one caller
          MetadataAlone,   \* do callers keep metadata reads to themselves?
          PrefetchAwaited, \* do callers outstay the detached threads?
          None

VARIABLES cursor,     \* the part of the file file_ stands at
          cache,      \* cached_columns_: the part decoded, and which decoding it was
          decodings,  \* columns decoded so far
          segLock,    \* Segment::cache_mutex_
          readLock,   \* SegmentReader::cache_mutex_
          pc, call,   \* of each thread: where it is, and the call it is in
          bytes,      \* of each thread: the part its buffer holds
          result,     \* of each thread: what its last call returned
          calls,      \* calls made by each caller
          holders,    \* callers that hold the shared_ptr
          alive       \* the segment exists

vars == <<cursor, cache, decodings, segLock, readLock, pc, call, bytes, result,
          calls, holders, alive>>

Threads == Callers \cup Prefetchers
Columns == 0 .. NumColumns - 1
Kinds   == {"column", "zone", "bloom"}
Calls   == [kind : Kinds, col : Columns]

\* Where SegmentWriter puts a part: a column, then its zone map, then its filter.
Part(c) == 3 * c.col + (CASE c.kind = "column" -> 0 [] c.kind = "zone" -> 1 [] c.kind = "bloom" -> 2)

EndOfFile == 3 * NumColumns

Present(c) == \/ c.kind = "column"
              \/ c.kind = "zone" /\ c.col \in ZoneMapped
              \/ c.kind = "bloom" /\ c.col \in Filtered

\* The part a read that began at part p leaves the stream at.
After(p) == Min({Part(c) : c \in {d \in Calls : Present(d) /\ Part(d) > p}} \cup {EndOfFile})

\* An object made from a part: a decoded column, numbered in the order of decoding,
\* or a zone map or a filter; a default object comes from no part.
Objects == [part : 0 .. EndOfFile, id : Nat]

Default == [part |-> EndOfFile, id |-> 0]

ASSUME ReaderAssumption ==
    /\ NumColumns \in Nat /\ MaxCalls \in Nat
    /\ ZoneMapped \subseteq Columns /\ Filtered \subseteq Columns
    /\ MetadataAlone \in BOOLEAN /\ PrefetchAwaited \in BOOLEAN
    /\ Callers \cap Prefetchers = {}
    /\ None \notin Threads \cup Calls \cup Objects \cup 0 .. EndOfFile

TypeOK ==
    /\ cursor \in 0 .. EndOfFile
    /\ cache \in [Columns -> Objects \cup {None}]
    /\ decodings \in Nat
    /\ segLock \in Threads \cup {None} /\ readLock \in Threads \cup {None}
    /\ pc \in [Threads -> {"idle", "lock", "check", "seek", "read", "store", "gone"}]
    /\ call \in [Threads -> Calls \cup {None}]
    /\ bytes \in [Threads -> (0 .. EndOfFile) \cup {None}]
    /\ result \in [Threads -> Objects \cup {None}]
    /\ calls \in [Callers -> 0 .. MaxCalls]
    /\ holders \subseteq Callers
    /\ alive \in BOOLEAN

Init ==
    /\ cursor = 0      \* anywhere: every call seeks first
    /\ cache = [c \in Columns |-> None] /\ decodings = 0
    /\ segLock = None /\ readLock = None
    /\ pc = [t \in Threads |-> "idle"]
    /\ call = [t \in Threads |-> None]
    /\ bytes = [t \in Threads |-> None]
    /\ result = [t \in Threads |-> None]
    /\ calls = [t \in Callers |-> 0]
    /\ holders = Callers
    /\ alive = TRUE
-----------------------------------------------------------------------------
Running == {t \in Threads : pc[t] \notin {"idle", "gone"}}

\* When callers keep metadata reads to themselves, one runs only alone.
MayCall(kind) ==
    MetadataAlone => IF kind = "column"
                     THEN \A t \in Running : call[t].kind = "column"
                     ELSE Running = {}

\* The caller t enters GetColumn, GetZoneMap or GetBloomFilter; the last two
\* return a default object at once when the part was not written.
Enter(t, c) ==
    /\ t \in holders /\ pc[t] = "idle" /\ calls[t] < MaxCalls /\ MayCall(c.kind)
    /\ calls' = [calls EXCEPT ![t] = @ + 1]
    /\ call' = [call EXCEPT ![t] = c]
    /\ bytes' = [bytes EXCEPT ![t] = None]
    /\ IF Present(c)
       THEN /\ pc' = [pc EXCEPT ![t] = IF c.kind = "column" THEN "lock" ELSE "seek"]
            /\ result' = [result EXCEPT ![t] = None]
       ELSE /\ result' = [result EXCEPT ![t] = Default]
            /\ UNCHANGED pc
    /\ UNCHANGED <<cursor, cache, decodings, segLock, readLock, holders, alive>>

\* PrefetchColumns starts the detached thread p for column c.
PrefetchColumn(p, c) ==
    /\ p \in Prefetchers /\ pc[p] = "idle" /\ call[p] = None
    /\ \E t \in holders : pc[t] = "idle"
    /\ MayCall("column")
    /\ pc' = [pc EXCEPT ![p] = "lock"]
    /\ call' = [call EXCEPT ![p] = [kind |-> "column", col |-> c]]
    /\ UNCHANGED <<cursor, cache, decodings, segLock, readLock, bytes, result, calls,
                   holders, alive>>

\* Segment::GetColumn locks; column_cache_ is never filled, so it goes on to the reader.
LockSegment(t) ==
    /\ pc[t] = "lock" /\ segLock = None
    /\ segLock' = t
    /\ pc' = [pc EXCEPT ![t] = "check"]
    /\ UNCHANGED <<cursor, cache, decodings, readLock, call, bytes, result, calls, holders, alive>>

\* A faulty check that gives both mutexes up before the file is read.
CheckCacheUnlocks(t) ==
    LET hit == cache[call[t].col] IN
    /\ pc[t] = "check" /\ readLock = None
    /\ pc' = [pc EXCEPT ![t] = IF hit # None THEN "idle" ELSE "seek"]
    /\ result' = [result EXCEPT ![t] = hit]
    /\ segLock' = None
    /\ UNCHANGED <<cursor, cache, decodings, readLock, call, bytes, calls, holders, alive>>

\* SegmentReader::GetColumn locks and looks in the cache; a hit returns.
CheckCache(t) ==
    LET hit == cache[call[t].col] IN
    /\ pc[t] = "check" /\ readLock = None
    /\ IF hit # None
       THEN /\ pc' = [pc EXCEPT ![t] = "idle"]
            /\ result' = [result EXCEPT ![t] = hit]
            /\ segLock' = None
            /\ UNCHANGED readLock
       ELSE /\ pc' = [pc EXCEPT ![t] = "seek"]
            /\ readLock' = t
            /\ UNCHANGED <<result, segLock>>
    /\ UNCHANGED <<cursor, cache, decodings, call, bytes, calls, holders, alive>>

Seek(t) ==
    /\ pc[t] = "seek"
    /\ cursor' = Part(call[t])
    /\ pc' = [pc EXCEPT ![t] = "read"]
    /\ UNCHANGED <<cache, decodings, segLock, readLock, call, bytes, result, calls, holders, alive>>

\* The read; a zone map or a filter is then parsed from the buffer and returned.
Read(t) ==
    /\ pc[t] = "read"
    /\ bytes' = [bytes EXCEPT ![t] = cursor]
    /\ cursor' = After(cursor)
    /\ IF call[t].kind = "column"
       THEN pc' = [pc EXCEPT ![t] = "store"] /\ UNCHANGED result
       ELSE pc' = [pc EXCEPT ![t] = "idle"] /\ result' = [result EXCEPT ![t] = [part |-> cursor, id |-> 0]]
    /\ UNCHANGED <<cache, decodings, segLock, readLock, call, calls, holders, alive>>

\* A faulty GetColumn that returns the column without caching it.
StoreForgets(t) ==
    /\ pc[t] = "store"
    /\ decodings' = decodings + 1
    /\ result' = [result EXCEPT ![t] = [part |-> bytes[t], id |-> decodings + 1]]
    /\ segLock' = None /\ readLock' = None
    /\ pc' = [pc EXCEPT ![t] = "idle"]
    /\ UNCHANGED <<cursor, cache, call, bytes, calls, holders, alive>>

\* A faulty GetColumn that returns without unlocking the reader.
StoreKeepsLock(t) ==
    LET column == [part |-> bytes[t], id |-> decodings + 1] IN
    /\ pc[t] = "store"
    /\ decodings' = decodings + 1
    /\ cache' = [cache EXCEPT ![call[t].col] = column]
    /\ result' = [result EXCEPT ![t] = column]
    /\ segLock' = None
    /\ pc' = [pc EXCEPT ![t] = "idle"]
    /\ UNCHANGED <<cursor, readLock, call, bytes, calls, holders, alive>>

\* Decode, cache, return: both mutexes are released.
Store(t) ==
    LET column == [part |-> bytes[t], id |-> decodings + 1] IN
    /\ pc[t] = "store"
    /\ decodings' = decodings + 1
    /\ cache' = [cache EXCEPT ![call[t].col] = column]
    /\ result' = [result EXCEPT ![t] = column]
    /\ segLock' = None /\ readLock' = None
    /\ pc' = [pc EXCEPT ![t] = "idle"]
    /\ UNCHANGED <<cursor, call, bytes, calls, holders, alive>>

\* A caller lets go of its shared_ptr; the last one destroys the segment, which
\* closes the file.
Drop(t) ==
    /\ t \in holders /\ pc[t] = "idle"
    /\ PrefetchAwaited => Running \cap Prefetchers = {}
    /\ holders' = holders \ {t}
    /\ alive' = (holders' # {})
    /\ pc' = [pc EXCEPT ![t] = "gone"]
    /\ UNCHANGED <<cursor, cache, decodings, segLock, readLock, call, bytes, result, calls>>

Step(t) == LockSegment(t) \/ CheckCache(t) \/ Seek(t) \/ Read(t) \/ Store(t)

Next ==
    \/ \E t \in Callers, c \in Calls : Enter(t, c)
    \/ \E p \in Prefetchers, c \in Columns : PrefetchColumn(p, c)
    \/ \E t \in Threads : Step(t)
    \/ \E t \in Callers : Drop(t)

Spec == Init /\ [][Next]_vars

\* The scheduler runs every thread that is inside a call.
FairSpec == Spec /\ \A t \in Threads : WF_vars(Step(t))
-----------------------------------------------------------------------------
(***************************************************************************)
(* OwnBytes: a call returns what was read from its own part of the file,   *)
(* and a cached column was decoded from the column's own bytes, whatever   *)
(* other GetColumn calls and prefetches did with the stream between the    *)
(* seek and the read.  With MetadataAlone nobody else is inside a call     *)
(* while GetZoneMap or GetBloomFilter reads; without it this fails.        *)
(***************************************************************************)
OwnBytes ==
    /\ \A i \in Columns : cache[i] # None => cache[i].part = Part([kind |-> "column", col |-> i])
    /\ \A t \in Threads :
           pc[t] = "idle" /\ result[t] # None =>
               result[t].part = IF Present(call[t]) THEN Part(call[t]) ELSE EndOfFile

(***************************************************************************)
(* OneObject: whoever asks for a column, a caller or a prefetch, and       *)
(* however the calls interleave, is given the one cached object.           *)
(***************************************************************************)
OneObject ==
    \A t \in Threads :
        pc[t] = "idle" /\ call[t] # None /\ call[t].kind = "column"
            => result[t] = cache[call[t].col]

(***************************************************************************)
(* AliveWhileUsed: no thread is inside a call of a destroyed segment.  It  *)
(* fails without PrefetchAwaited, because a detached thread owns nothing;  *)
(* with it, it is only shared_ptr counting and no run checks it.           *)
(***************************************************************************)
AliveWhileUsed == Running # {} => alive

(***************************************************************************)
(* EveryCallReturns: a thread inside a call leaves it; the two mutexes of  *)
(* GetColumn never hold each other up.                                     *)
(***************************************************************************)
EveryCallReturns ==
    \A t \in Threads : pc[t] \notin {"idle", "gone"} ~> pc[t] \in {"idle", "gone"}
=============================================================================
