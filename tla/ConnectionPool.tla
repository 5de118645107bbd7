---------------------------- MODULE ConnectionPool ----------------------------
(***************************************************************************)
(* ShardedConnectionPool of transport/tcp_highperf.go and the callers that *)
(* change it: SetDeviceID, run by the worker-pool tasks of a connection,   *)
(* the teardown of handleConn, and the exported Delete.                    *)
(*                                                                         *)
(* handleConn hands every message to the worker pool and reads on, so a    *)
(* task of a connection runs beside its other tasks and beside or after    *)
(* its teardown. Put asks conn.DeviceID() three times, once to choose the  *)
(* shard, once to look for the entry and once to store it: each is a step  *)
(* of its own, and another task of the connection may change the           *)
(* identifier in between. What that leads to is recorded in moved.         *)
(***************************************************************************)
EXTENDS Integers, FiniteSets

CONSTANTS
    Conns, Devices,
    NoDevice,     \* the empty identifier ""
    NoConn,       \* absence of a connection
    Tasks,        \* the messages that arrive
    Conn,         \* the connection of each
    Shards,
    Hash          \* fnvHash(key) % shardCount

Keys == Devices \cup {NoDevice}

ASSUME ConnsAssumption == IsFiniteSet(Conns) /\ NoConn \notin Conns
ASSUME KeysAssumption == IsFiniteSet(Devices) /\ NoDevice \notin Devices
ASSUME TasksAssumption == Conn \in [Tasks -> Conns]
ASSUME ShardsAssumption == IsFiniteSet(Shards) /\ Hash \in [Keys -> Shards]

VARIABLES
    deviceID,  \* conn.deviceID
    phase,     \* handleConn: "open", "teardown" (identifier read) or "gone"
    tdev,      \* the identifier the teardown read
    tpc,       \* where each task is
    told,      \* oldDeviceID of its SetDeviceID
    tnew,      \* deviceID, the argument of its SetDeviceID
    tshard,    \* the shard its Put has chosen
    counted,   \* its Put found no entry and counted a new one
    pool,      \* shard.conns, for each shard
    count,     \* shard.count, for each shard
    totalCount,
    locked,    \* shards whose mu a Put holds between two DeviceID() calls
    moved      \* history: <<c, h, at>>: c took another identifier while a Put of
               \* it waited for shard h ("put") or was in it ("store")

taskVars == <<tpc, told, tnew, tshard, counted>>
poolVars == <<pool, count, totalCount, locked>>
handleVars == <<phase, tdev>>
idVars == <<deviceID, moved>>
vars == <<idVars, handleVars, taskVars, poolVars>>

Init ==
    /\ deviceID = [c \in Conns |-> NoDevice]
    /\ phase = [c \in Conns |-> "open"]
    /\ tdev = [c \in Conns |-> NoDevice]
    /\ tpc = [x \in Tasks |-> "idle"]
    /\ told = [x \in Tasks |-> NoDevice]
    /\ tnew = [x \in Tasks |-> NoDevice]
    /\ tshard = [x \in Tasks |-> Hash[NoDevice]]
    /\ counted = [x \in Tasks |-> FALSE]
    /\ pool = [h \in Shards |-> [k \in Keys |-> NoConn]]
    /\ count = [h \in Shards |-> 0]
    /\ totalCount = 0
    /\ locked = {} /\ moved = {}

-----------------------------------------------------------------------------
(* Under the lock of its shard, key k is removed if its connection is one   *)
(* of M: the entry and both counts.                                         *)
Remove(k, M) ==
    LET h == Hash[k] IN
    /\ h \notin locked
    /\ IF pool[h][k] \in M
         THEN /\ pool' = [pool EXCEPT ![h][k] = NoConn]
              /\ count' = [count EXCEPT ![h] = @ - 1]
              /\ totalCount' = totalCount - 1
         ELSE UNCHANGED <<pool, count, totalCount>>
    /\ UNCHANGED locked

(* Fault: the check that the entry is this connection's is missing.         *)
FaultDeleteAny(k, c) == Remove(k, Conns)

(* Fault: DeleteConn forgets the count when it removes an entry.            *)
FaultForgetCount(k, c) ==
    /\ Hash[k] \notin locked
    /\ pool' = [pool EXCEPT ![Hash[k]][k] = IF @ = c THEN NoConn ELSE @]
    /\ UNCHANGED <<count, totalCount, locked>>

DeleteConn(k, c) == Remove(k, {c})

(* The exported Delete: whoever is registered under the key.                *)
Delete(k) ==
    /\ Remove(k, Conns)
    /\ UNCHANGED <<idVars, handleVars, taskVars>>

-----------------------------------------------------------------------------
(* A task that calls SetDeviceID(d) on its connection                       *)

(* handleConn has read a message and submitted its task.                    *)
Submit(x, d) ==
    /\ phase[Conn[x]] = "open" /\ tpc[x] = "idle"
    /\ tnew' = [tnew EXCEPT ![x] = d]
    /\ tpc' = [tpc EXCEPT ![x] = "swap"]
    /\ UNCHANGED <<idVars, handleVars, told, tshard, counted, poolVars>>

(* The tasks of c that have chosen a shard and not yet stored the entry.    *)
Putting(c) == {y \in Tasks : Conn[y] = c /\ tpc[y] \in {"put", "store"}}

(* Under c.mu: read the old identifier, assign the new one.                 *)
Swap(x) ==
    /\ tpc[x] = "swap"
    /\ told' = [told EXCEPT ![x] = deviceID[Conn[x]]]
    /\ deviceID' = [deviceID EXCEPT ![Conn[x]] = tnew[x]]
    /\ moved' = IF tnew[x] = deviceID[Conn[x]] THEN moved
                ELSE moved \cup {<<Conn[y], tshard[y], tpc[y]>> : y \in Putting(Conn[x])}
    /\ tpc' = [tpc EXCEPT ![x] = "drop"]
    /\ UNCHANGED <<handleVars, tnew, tshard, counted, poolVars>>

(* Fault: the entry under the old identifier is left behind.                *)
FaultKeepOld(x) ==
    /\ tpc[x] = "drop"
    /\ told' = [told EXCEPT ![x] = NoDevice] /\ tnew' = [tnew EXCEPT ![x] = NoDevice]
    /\ tpc' = [tpc EXCEPT ![x] = IF tnew[x] = NoDevice THEN "done" ELSE "shard"]
    /\ UNCHANGED <<idVars, handleVars, tshard, counted, poolVars>>

DropOld(x) ==
    /\ tpc[x] = "drop"
    /\ IF told[x] # NoDevice /\ told[x] # tnew[x]
         THEN DeleteConn(told[x], Conn[x])
         ELSE UNCHANGED poolVars
    /\ told' = [told EXCEPT ![x] = NoDevice] /\ tnew' = [tnew EXCEPT ![x] = NoDevice]
    /\ tpc' = [tpc EXCEPT ![x] = IF tnew[x] = NoDevice THEN "done" ELSE "shard"]
    /\ UNCHANGED <<idVars, handleVars, tshard, counted>>

(* Fault: the shard is chosen by the old argument of the last call.         *)
FaultFixedShard(x) ==
    /\ tpc[x] = "shard"
    /\ tpc' = [tpc EXCEPT ![x] = "put"]
    /\ UNCHANGED <<idVars, handleVars, told, tnew, tshard, counted, poolVars>>

(* Put: shard := getShard(conn.DeviceID()).                                 *)
PutShard(x) ==
    /\ tpc[x] = "shard"
    /\ tshard' = [tshard EXCEPT ![x] = Hash[deviceID[Conn[x]]]]
    /\ tpc' = [tpc EXCEPT ![x] = "put"]
    /\ UNCHANGED <<idVars, handleVars, told, tnew, counted, poolVars>>

(* Put: shard.mu.Lock, and the test whether the entry exists.               *)
PutTest(x) ==
    LET h == tshard[x]
        new == pool[h][deviceID[Conn[x]]] = NoConn
    IN
    /\ tpc[x] = "put" /\ h \notin locked
    /\ locked' = locked \cup {h}
    /\ counted' = [counted EXCEPT ![x] = new]
    /\ count' = [count EXCEPT ![h] = IF new THEN @ + 1 ELSE @]
    /\ totalCount' = IF new THEN totalCount + 1 ELSE totalCount
    /\ tpc' = [tpc EXCEPT ![x] = "store"]
    /\ UNCHANGED <<idVars, handleVars, told, tnew, tshard, pool>>

(* Put: the entry is stored and shard.mu released.                          *)
PutStore(x) ==
    /\ tpc[x] = "store"
    /\ pool' = [pool EXCEPT ![tshard[x]][deviceID[Conn[x]]] = Conn[x]]
    /\ locked' = locked \ {tshard[x]}
    /\ counted' = [counted EXCEPT ![x] = FALSE]
    /\ tshard' = [tshard EXCEPT ![x] = Hash[NoDevice]]
    /\ tpc' = [tpc EXCEPT ![x] = "done"]
    /\ UNCHANGED <<idVars, handleVars, told, tnew, count, totalCount>>

-----------------------------------------------------------------------------
(* The deferred teardown of handleConn.                                     *)
TeardownRead(c) ==
    /\ phase[c] = "open"
    /\ phase' = [phase EXCEPT ![c] = "teardown"]
    /\ tdev' = [tdev EXCEPT ![c] = deviceID[c]]
    /\ UNCHANGED <<idVars, taskVars, poolVars>>

TeardownDelete(c) ==
    /\ phase[c] = "teardown"
    /\ IF tdev[c] # NoDevice THEN DeleteConn(tdev[c], c) ELSE UNCHANGED poolVars
    /\ phase' = [phase EXCEPT ![c] = "gone"]
    /\ UNCHANGED <<idVars, tdev, taskVars>>

(* All connections are gone and their tasks have run.                       *)
Quiet ==
    /\ \A c \in Conns : phase[c] = "gone"
    /\ \A x \in Tasks : tpc[x] \in {"idle", "done"}
    /\ UNCHANGED vars

TaskNext(x) ==
    \/ \E d \in Keys : Submit(x, d)
    \/ Swap(x) \/ DropOld(x) \/ PutShard(x) \/ PutTest(x) \/ PutStore(x)

Next ==
    \/ \E x \in Tasks : TaskNext(x)
    \/ \E c \in Conns : TeardownRead(c) \/ TeardownDelete(c)
    \/ \E d \in Devices : Delete(d)
    \/ Quiet

Spec == Init /\ [][Next]_vars

-----------------------------------------------------------------------------
(* Properties                                                               *)

(* The variables have the types of the code.                                *)
TypeOK ==
    /\ deviceID \in [Conns -> Keys]
    /\ phase \in [Conns -> {"open", "teardown", "gone"}]
    /\ tdev \in [Conns -> Keys]
    /\ tpc \in [Tasks -> {"idle", "swap", "drop", "shard", "put", "store", "done"}]
    /\ told \in [Tasks -> Keys]
    /\ tnew \in [Tasks -> Keys]
    /\ tshard \in [Tasks -> Shards]
    /\ counted \in [Tasks -> BOOLEAN]
    /\ pool \in [Shards -> [Keys -> Conns \cup {NoConn}]]
    /\ count \in [Shards -> Int]
    /\ totalCount \in Int
    /\ locked \in SUBSET Shards
    /\ moved \in SUBSET (Conns \X Shards \X {"put", "store"})

Entries == {e \in Shards \X Keys : pool[e[1]][e[2]] # NoConn}
ShardEntries(h) == {k \in Keys : pool[h][k] # NoConn}

(* A Put found its connection renamed while it had the lock of shard h.     *)
Disturbed(h) == \E c \in Conns : <<c, h, "store">> \in moved

(* Size() is the number of registered connections whenever no Put is        *)
(* between its count and its store, and so is the count of each shard       *)
(* whose lock is free, however the tasks of the connections overlap, until  *)
(* a connection takes another identifier in the middle of its own Put: then *)
(* one identifier was counted and another stored, and the count of that     *)
(* shard and the total may be wrong for good.                               *)
SizeExact ==
    /\ locked = {} /\ (\A h \in Shards : ~Disturbed(h))
          => totalCount = Cardinality(Entries)
    /\ \A h \in Shards \ locked :
          ~Disturbed(h) => count[h] = Cardinality(ShardEntries(h))

(* Every entry is in the shard Get and DeleteConn will look in, unless its  *)
(* connection took another identifier while a Put of it had that shard      *)
(* chosen. No other connection, and no other overlapping, misplaces one.    *)
RightShard ==
    \A h \in Shards : \A k \in Keys :
        LET c == pool[h][k]
        IN  c # NoConn => \/ h = Hash[k]
                          \/ \E at \in {"put", "store"} : <<c, h, at>> \in moved

(* What Get finds under a device's identifier is a connection that has this *)
(* identifier now, or whose SetDeviceID has yet to remove the entry it gave *)
(* up, however the tasks of that connection overlap.                        *)
RegisteredUnderOwnId ==
    \A k \in Devices :
        LET c == pool[Hash[k]][k]
        IN  c # NoConn => \/ deviceID[c] = k
                          \/ \E x \in Tasks : /\ Conn[x] = c
                                              /\ tpc[x] = "drop" /\ told[x] = k

(* An entry disappears only through Delete, the teardown of its own         *)
(* connection or a SetDeviceID of that connection that gave the identifier  *)
(* up: an old connection going away never removes the device's new          *)
(* connection. A SetDeviceID that is late may remove what a later one of    *)
(* its own connection has put there again.                                  *)
EntryKept ==
    [][\A h \in Shards : \A k \in Keys :
          LET c == pool[h][k]
          IN  c # NoConn /\ pool'[h][k] = NoConn =>
                \/ phase[c] = "teardown" /\ phase'[c] = "gone" /\ tdev[c] = k
                \/ \E x \in Tasks : /\ Conn[x] = c /\ told[x] = k
                                    /\ tpc[x] = "drop" /\ tpc'[x] # "drop"
                \/ Delete(k)]_vars

(* After the teardown of a connection, and of all its tasks, no identifier  *)
(* leads to it.                                                             *)
NoStaleEntry ==
    \A h \in Shards : \A k \in Keys :
        LET c == pool[h][k]
        IN  c # NoConn => \/ phase[c] # "gone"
                          \/ \E x \in Tasks : Conn[x] = c /\ tpc[x] \notin {"idle", "done"}
==============================================================================
