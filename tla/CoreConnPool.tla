------------------------------ MODULE CoreConnPool ------------------------------
(***************************************************************************)
(* ShardedConnPool of core/pool.go. Put and Delete hold the lock of their  *)
(* shard throughout and touch totalCount once, so each is one step; Clear  *)
(* and Range hold one lock after the other, and Clear stores the total     *)
(* without any. One goroutine clears and one ranges; the identifier of a   *)
(* connection does not change while it is put.                             *)
(***************************************************************************)
EXTENDS Naturals, FiniteSets

CONSTANTS
    Devices, Conns, NoConn,
    ShardCount,
    Hash        \* the shard of a device, from FNV-1a

VARIABLES
    entries,    \* the maps of all shards
    count,      \* count of each shard
    total,      \* totalCount
    clearing,   \* the shard Clear is at, 0 when there is none
    mixed,      \* a Put or Delete counted during the last Clear
    ranging,    \* the shard Range is at, 0 when there is none
    seen,       \* devices given to fn
    steady      \* devices in the pool since Range began

rangeVars == <<ranging, seen, steady>>

Shards == 1..ShardCount
Present == {d \in Devices : entries[d] # NoConn}
InShard(s) == {d \in Devices : Hash[d] = s}

Init ==
    /\ entries = [d \in Devices |-> NoConn]
    /\ count = [s \in Shards |-> 0] /\ total = 0
    /\ clearing = 0 /\ mixed = FALSE
    /\ ranging = 0 /\ seen = {} /\ steady = {}

(* Fault: an entry that is replaced is counted again.                       *)
FaultAlwaysCount(c, d) ==
    /\ entries' = [entries EXCEPT ![d] = c]
    /\ count' = [count EXCEPT ![Hash[d]] = @ + 1] /\ total' = total + 1
    /\ mixed' = (mixed \/ clearing # 0)
    /\ UNCHANGED <<clearing, rangeVars>>

Put(c, d) ==
    /\ entries' = [entries EXCEPT ![d] = c]
    /\ IF entries[d] = NoConn
       THEN /\ count' = [count EXCEPT ![Hash[d]] = @ + 1] /\ total' = total + 1
            /\ mixed' = (mixed \/ clearing # 0)
       ELSE UNCHANGED <<count, total, mixed>>
    /\ UNCHANGED <<clearing, rangeVars>>

Get(d) == entries[d]
Size == total

Delete(d) ==
    /\ Get(d) # NoConn
    /\ entries' = [entries EXCEPT ![d] = NoConn]
    /\ count' = [count EXCEPT ![Hash[d]] = @ - 1] /\ total' = total - 1
    /\ mixed' = (mixed \/ clearing # 0)
    /\ steady' = steady \ {d}
    /\ UNCHANGED <<clearing, ranging, seen>>

-----------------------------------------------------------------------------
ClearBegin ==
    /\ clearing = 0 /\ clearing' = 1 /\ mixed' = FALSE
    /\ UNCHANGED <<entries, count, total, rangeVars>>

ClearShard ==
    /\ clearing \in Shards /\ clearing' = clearing + 1
    /\ entries' = [d \in Devices |-> IF Hash[d] = clearing THEN NoConn ELSE entries[d]]
    /\ count' = [count EXCEPT ![clearing] = 0]
    /\ steady' = steady \ InShard(clearing)
    /\ UNCHANGED <<total, mixed, ranging, seen>>

ClearTotal ==
    /\ clearing = ShardCount + 1 /\ clearing' = 0 /\ total' = 0
    /\ UNCHANGED <<entries, count, mixed, rangeVars>>

-----------------------------------------------------------------------------
RangeBegin ==
    /\ ranging = 0 /\ ranging' = 1 /\ seen' = {} /\ steady' = Present
    /\ UNCHANGED <<entries, count, total, clearing, mixed>>

(* Fault: an empty shard ends the loop.                                     *)
FaultStopAtEmpty ==
    /\ ranging \in Shards
    /\ ranging' = IF InShard(ranging) \cap Present = {} THEN ShardCount + 1 ELSE ranging + 1
    /\ seen' = seen \cup (InShard(ranging) \cap Present)
    /\ UNCHANGED <<entries, count, total, clearing, mixed, steady>>

RangeShard ==
    /\ ranging \in Shards /\ ranging' = ranging + 1
    /\ seen' = seen \cup (InShard(ranging) \cap Present)
    /\ UNCHANGED <<entries, count, total, clearing, mixed, steady>>

(* The end, or fn returned false.                                           *)
RangeEnd ==
    /\ ranging # 0 /\ ranging' = 0
    /\ UNCHANGED <<entries, count, total, clearing, mixed, seen, steady>>

Next ==
    \/ \E d \in Devices : Delete(d) \/ \E c \in Conns : Put(c, d)
    \/ ClearBegin \/ ClearShard \/ ClearTotal
    \/ RangeBegin \/ RangeShard \/ RangeEnd

-----------------------------------------------------------------------------
(* Size is the number of entries again as soon as a Clear that no Put and   *)
(* no Delete came between has ended, and the counts of the shards are exact *)
(* all the time.                                                            *)
TotalExact ==
    /\ \A s \in Shards : count[s] = Cardinality(InShard(s) \cap Present)
    /\ clearing = 0 /\ ~mixed => Size = Cardinality(Present)

(* A Range whose fn does not end it is given every device that was in the   *)
(* pool all the time, whatever is put, deleted or cleared meanwhile.        *)
RangeSees == ranging = ShardCount + 1 => steady \subseteq seen
================================================================================
