------------------------ MODULE ConnectionPoolProofs ------------------------
(***************************************************************************)
(* Proofs about ConnectionPool, for any number of connections, devices,    *)
(* shards and messages, any hash function and however the tasks of one     *)
(* connection overlap.                                                     *)
(***************************************************************************)
EXTENDS ConnectionPool, FiniteSetTheorems, TLAPS

LEMMA InitTypes == Init => TypeOK
<1> SUFFICES ASSUME Init
             PROVE  TypeOK
  OBVIOUS
<1>1. Hash[NoDevice] \in Shards
  BY ShardsAssumption DEF Keys
<1>2. tshard \in [Tasks -> Shards]
  BY <1>1 DEF Init
<1>3. pool \in [Shards -> [Keys -> Conns \cup {NoConn}]] /\ count \in [Shards -> Int]
  BY DEF Init
<1>4. /\ deviceID \in [Conns -> Keys] /\ tdev \in [Conns -> Keys]
      /\ told \in [Tasks -> Keys] /\ tnew \in [Tasks -> Keys]
  BY DEF Init, Keys
<1>5. /\ phase \in [Conns -> {"open", "teardown", "gone"}]
      /\ tpc \in [Tasks -> {"idle", "swap", "drop", "shard", "put", "store", "done"}]
      /\ counted \in [Tasks -> BOOLEAN]
  BY DEF Init
<1> QED
  BY <1>2, <1>3, <1>4, <1>5 DEF Init, TypeOK

(* Removing an entry keeps the types of the pool.                           *)
LEMMA RemoveTypes ==
    ASSUME TypeOK, NEW k \in Keys, NEW M, Remove(k, M)
    PROVE  /\ pool' \in [Shards -> [Keys -> Conns \cup {NoConn}]]
           /\ count' \in [Shards -> Int]
           /\ totalCount' \in Int
           /\ locked' \in SUBSET Shards
<1> DEFINE h == Hash[k]
<1>1. h \in Shards
  BY ShardsAssumption
<1>2. CASE pool[h][k] \in M
  <2>1. /\ pool' = [pool EXCEPT ![h][k] = NoConn]
        /\ count' = [count EXCEPT ![h] = @ - 1]
        /\ totalCount' = totalCount - 1
        /\ locked' = locked
    BY <1>2 DEF Remove
  <2> HIDE DEF h
  <2> QED
    BY <1>1, <2>1 DEF TypeOK
<1>3. CASE pool[h][k] \notin M
  BY <1>3 DEF Remove, TypeOK
<1> QED
  BY <1>2, <1>3

LEMMA StepTypes == TypeOK /\ [Next]_vars => TypeOK'
<1> SUFFICES ASSUME TypeOK, [Next]_vars
             PROVE  TypeOK'
  OBVIOUS
<1> USE ShardsAssumption, TasksAssumption DEF TypeOK, idVars, taskVars, poolVars, handleVars
<1>0. NoDevice \in Keys /\ Hash[NoDevice] \in Shards
  BY DEF Keys
<1>1. ASSUME NEW x \in Tasks, NEW d \in Keys, Submit(x, d)
      PROVE  TypeOK'
  BY <1>1 DEF Submit
<1>2. ASSUME NEW x \in Tasks, Swap(x)
      PROVE  TypeOK'
  <2>1. {<<Conn[y], tshard[y], tpc[y]>> : y \in Putting(Conn[x])}
           \in SUBSET (Conns \X Shards \X {"put", "store"})
    BY DEF Putting
  <2>2. moved' \in SUBSET (Conns \X Shards \X {"put", "store"})
    BY <1>2, <2>1 DEF Swap
  <2>3. Conn[x] \in Conns /\ deviceID[Conn[x]] \in Keys /\ tnew[x] \in Keys
    OBVIOUS
  <2> QED
    BY <1>2, <2>2, <2>3 DEF Swap
<1>3. ASSUME NEW x \in Tasks, DropOld(x)
      PROVE  TypeOK'
  <2>2. /\ told' \in [Tasks -> Keys] /\ tnew' \in [Tasks -> Keys]
        /\ tpc' \in [Tasks -> {"idle", "swap", "drop", "shard", "put", "store", "done"}]
    BY <1>0, <1>3 DEF DropOld
  <2>3. /\ pool' \in [Shards -> [Keys -> Conns \cup {NoConn}]]
        /\ count' \in [Shards -> Int]
        /\ totalCount' \in Int
        /\ locked' \in SUBSET Shards
    BY <1>3, RemoveTypes DEF DropOld, DeleteConn
  <2> QED
    BY <1>3, <2>2, <2>3 DEF DropOld
<1>4. ASSUME NEW x \in Tasks, PutShard(x)
      PROVE  TypeOK'
  <2>1. Hash[deviceID[Conn[x]]] \in Shards
    OBVIOUS
  <2> QED
    BY <1>4, <2>1 DEF PutShard
<1>5. ASSUME NEW x \in Tasks, PutTest(x)
      PROVE  TypeOK'
  BY <1>5 DEF PutTest
<1>6. ASSUME NEW x \in Tasks, PutStore(x)
      PROVE  TypeOK'
  <2>1. Conn[x] \in Conns
    OBVIOUS
  <2> QED
    BY <1>0, <1>6, <2>1 DEF PutStore
<1>7. ASSUME NEW c \in Conns, TeardownRead(c)
      PROVE  TypeOK'
  BY <1>7 DEF TeardownRead
<1>8. ASSUME NEW c \in Conns, TeardownDelete(c)
      PROVE  TypeOK'
  <2>1. /\ pool' \in [Shards -> [Keys -> Conns \cup {NoConn}]]
        /\ count' \in [Shards -> Int]
        /\ totalCount' \in Int
        /\ locked' \in SUBSET Shards
    BY <1>8, RemoveTypes DEF TeardownDelete, DeleteConn
  <2> QED
    BY <1>8, <2>1 DEF TeardownDelete
<1>9. ASSUME NEW d \in Devices, Delete(d)
      PROVE  TypeOK'
  <2>1. d \in Keys
    BY DEF Keys
  <2> QED
    BY <1>9, <2>1, RemoveTypes DEF Delete
<1>10. CASE UNCHANGED vars
  BY <1>10 DEF vars
<1> QED
  BY <1>1, <1>2, <1>3, <1>4, <1>5, <1>6, <1>7, <1>8, <1>9, <1>10
     DEF Next, TaskNext, Quiet

(* Every variable keeps its type.                                           *)
THEOREM TypeCorrectness == Spec => []TypeOK
  BY InitTypes, StepTypes, PTL DEF Spec

-----------------------------------------------------------------------------
(* Why the counts are right. A Put in a shard has its lock, alone, and      *)
(* only it has counted ahead of its store.                                  *)
LockProtocol ==
    /\ \A x \in Tasks : tpc[x] = "store" => tshard[x] \in locked
    /\ \A x, y \in Tasks :
          tpc[x] = "store" /\ tpc[y] = "store" /\ tshard[x] = tshard[y] => x = y
    /\ \A h \in locked : \E x \in Tasks : tpc[x] = "store" /\ tshard[x] = h
    /\ \A x \in Tasks : counted[x] => tpc[x] = "store"

(* It has counted just if there is no entry, unless its connection has been *)
(* renamed since.                                                           *)
CountedRight ==
    \A x \in Tasks :
        tpc[x] = "store" /\ <<Conn[x], tshard[x], "store">> \notin moved =>
            (counted[x] <=> pool[tshard[x]][deviceID[Conn[x]]] = NoConn)

(* What is counted: the entries, and the one each Put between its count and *)
(* its store is about to add.                                               *)
Pending(h, k) == \E x \in Tasks : counted[x] /\ tshard[x] = h /\ deviceID[Conn[x]] = k
IsClaimed(h, k) == pool[h][k] # NoConn \/ Pending(h, k)
Claimed == {e \in Shards \X Keys : IsClaimed(e[1], e[2])}
ShardClaimed(h) == {k \in Keys : IsClaimed(h, k)}

CountsAgree ==
    /\ (\A h \in Shards : ~Disturbed(h)) => totalCount = Cardinality(Claimed)
    /\ \A h \in Shards : ~Disturbed(h) => count[h] = Cardinality(ShardClaimed(h))

(* A Put waits for, or is in, the shard of its connection's identifier,     *)
(* unless that has changed since it chose.                                  *)
ChosenRight ==
    \A x \in Tasks :
        tpc[x] \in {"put", "store"} =>
            \/ tshard[x] = Hash[deviceID[Conn[x]]]
            \/ \E at \in {"put", "store"} : <<Conn[x], tshard[x], at>> \in moved

(* What moved can have become after a step: it only grows.                  *)
LEMMA MovedGrows ==
    ASSUME [Next]_vars
    PROVE  moved \subseteq moved'
  BY DEF Next, TaskNext, Quiet, vars, idVars, Submit, Swap, DropOld, PutShard, PutTest,
         PutStore, TeardownRead, TeardownDelete, Delete

(* A Put in a shard has its lock, alone.                                    *)
LEMMA InitLocks == Init => LockProtocol
  BY DEF Init, LockProtocol

LEMMA StepLocks ==
    ASSUME TypeOK, LockProtocol, [Next]_vars
    PROVE  LockProtocol'
<1> USE DEF TypeOK, LockProtocol, idVars, taskVars, poolVars, handleVars
<1>1. ASSUME NEW x \in Tasks, PutTest(x)
      PROVE  LockProtocol'
  <2>1. tshard[x] \notin locked /\ locked' = locked \cup {tshard[x]}
    BY <1>1 DEF PutTest
  <2>2. /\ tpc' = [tpc EXCEPT ![x] = "store"] /\ tpc[x] = "put" /\ tshard' = tshard
        /\ \A y \in Tasks : y # x => counted'[y] = counted[y]
    BY <1>1 DEF PutTest
  <2>3. \A y \in Tasks : y # x /\ tpc[y] = "store" => tshard[y] # tshard[x]
    BY <2>1
  <2> QED
    BY <2>1, <2>2, <2>3
<1>2. ASSUME NEW x \in Tasks, PutStore(x)
      PROVE  LockProtocol'
  <2>1. /\ locked' = locked \ {tshard[x]}
        /\ tpc' = [tpc EXCEPT ![x] = "done"] /\ tpc[x] = "store"
        /\ counted' = [counted EXCEPT ![x] = FALSE]
        /\ \A y \in Tasks : y # x => tshard'[y] = tshard[y]
    BY <1>2 DEF PutStore
  <2>2. \A y \in Tasks : y # x /\ tpc[y] = "store" => tshard[y] # tshard[x]
    BY <2>1
  <2> QED
    BY <2>1, <2>2
<1>3. ASSUME UNCHANGED <<locked, counted>>,
             \A y \in Tasks : /\ tpc'[y] = "store" <=> tpc[y] = "store"
                              /\ tpc[y] = "store" => tshard'[y] = tshard[y]
      PROVE  LockProtocol'
  BY <1>3
<1>4. ASSUME NEW x \in Tasks,
             (\E d \in Keys : Submit(x, d)) \/ Swap(x) \/ DropOld(x) \/ PutShard(x)
      PROVE  LockProtocol'
  <2>1. UNCHANGED <<locked, counted>>
    BY <1>4 DEF Submit, Swap, DropOld, DeleteConn, Remove, PutShard
  <2>2. \A y \in Tasks : /\ tpc'[y] = "store" <=> tpc[y] = "store"
                         /\ tpc[y] = "store" => tshard'[y] = tshard[y]
    BY <1>4 DEF Submit, Swap, DropOld, PutShard
  <2> QED
    BY <1>3, <2>1, <2>2
<1>5. CASE \/ \E c \in Conns : TeardownRead(c) \/ TeardownDelete(c)
           \/ \E d \in Devices : Delete(d)
           \/ UNCHANGED vars
  <2>1. UNCHANGED <<locked, counted, tpc, tshard>>
    BY <1>5 DEF TeardownRead, TeardownDelete, Delete, DeleteConn, Remove, vars
  <2> QED
    BY <1>3, <2>1
<1> QED
  BY <1>1, <1>2, <1>4, <1>5 DEF Next, TaskNext, Quiet

-----------------------------------------------------------------------------
(* A Put in the shard was right about the entry when it counted, unless the *)
(* connection has been renamed since.                                       *)
LEMMA InitRight == Init => CountedRight
  BY DEF Init, CountedRight

(* A removal touches only unlocked shards, which no Put is in.              *)
LEMMA RemoveRight ==
    ASSUME TypeOK, LockProtocol, CountedRight, NEW k \in Keys, NEW M, Remove(k, M),
           UNCHANGED <<deviceID, moved, tshard, counted>>,
           \A x \in Tasks : tpc'[x] = "store" => tpc[x] = "store"
    PROVE  CountedRight'
<1>1. Hash[k] \notin locked
  BY DEF Remove
<1>2. \A h \in Shards : h # Hash[k] => pool'[h] = pool[h]
  BY ShardsAssumption DEF Remove, TypeOK
<1>3. ASSUME NEW x \in Tasks, tpc[x] = "store"
      PROVE  pool'[tshard[x]] = pool[tshard[x]]
  BY <1>1, <1>2, <1>3 DEF LockProtocol, TypeOK
<1> QED
  BY <1>3 DEF CountedRight

LEMMA StepRight ==
    ASSUME TypeOK, LockProtocol, CountedRight, [Next]_vars
    PROVE  CountedRight'
<1> USE TasksAssumption DEF idVars, taskVars, poolVars, handleVars
<1>1. ASSUME NEW x \in Tasks, PutTest(x)
      PROVE  CountedRight'
  <2>1. /\ tpc' = [tpc EXCEPT ![x] = "store"]
        /\ UNCHANGED <<deviceID, moved, tshard, pool>>
        /\ counted' = [counted EXCEPT ![x] = (pool[tshard[x]][deviceID[Conn[x]]] = NoConn)]
    BY <1>1 DEF PutTest
  <2>2. counted'[x] <=> pool[tshard[x]][deviceID[Conn[x]]] = NoConn
    BY <2>1, Zenon DEF TypeOK
  <2>3. \A y \in Tasks : y # x => tpc'[y] = tpc[y] /\ counted'[y] = counted[y]
    BY <2>1 DEF TypeOK
  <2> QED
    BY <2>1, <2>2, <2>3 DEF CountedRight
<1>2. ASSUME NEW x \in Tasks, PutStore(x)
      PROVE  CountedRight'
  <2>1. /\ pool' = [pool EXCEPT ![tshard[x]][deviceID[Conn[x]]] = Conn[x]]
        /\ tpc' = [tpc EXCEPT ![x] = "done"] /\ tpc[x] = "store"
        /\ counted' = [counted EXCEPT ![x] = FALSE]
        /\ tshard' = [tshard EXCEPT ![x] = Hash[NoDevice]]
        /\ UNCHANGED <<deviceID, moved>>
    BY <1>2 DEF PutStore
  <2>2. ASSUME NEW y \in Tasks, tpc'[y] = "store"
        PROVE  /\ y # x /\ tpc[y] = "store" /\ counted'[y] = counted[y]
               /\ tshard'[y] = tshard[y]
    BY <2>1, <2>2 DEF TypeOK
  <2>3. ASSUME NEW y \in Tasks, tpc'[y] = "store"
        PROVE  pool'[tshard[y]] = pool[tshard[y]]
    <3> DEFINE g == tshard[x]
               j == deviceID[Conn[x]]
               h == tshard[y]
    <3>1. h # g /\ h \in Shards
      BY <2>1, <2>2, <2>3 DEF LockProtocol, TypeOK
    <3>2. pool' = [pool EXCEPT ![g][j] = Conn[x]]
      BY <2>1
    <3> HIDE DEF g, j, h
    <3>3. pool'[h] = pool[h]
      BY <3>1, <3>2 DEF TypeOK
    <3> USE DEF h
    <3> QED
      BY <3>3, Zenon
  <2>4. ASSUME NEW y \in Tasks, tpc'[y] = "store",
               <<Conn[y], tshard'[y], "store">> \notin moved'
        PROVE  counted'[y] <=> pool'[tshard'[y]][deviceID'[Conn[y]]] = NoConn
    <3>1. counted[y] <=> pool[tshard[y]][deviceID[Conn[y]]] = NoConn
      <4>1. tpc[y] = "store" /\ tshard'[y] = tshard[y] /\ moved' = moved
        BY <2>1, <2>2, <2>4
      <4>2. <<Conn[y], tshard[y], "store">> \notin moved
        BY <2>4, <4>1, Zenon
      <4> QED
        BY <4>1, <4>2, Zenon DEF CountedRight
    <3>2. tshard'[y] = tshard[y] /\ counted'[y] = counted[y] /\ deviceID' = deviceID
      <4>1. tshard'[y] = tshard[y] /\ counted'[y] = counted[y]
        BY <2>2, <2>4, Zenon
      <4>2. deviceID' = deviceID
        BY <2>1
      <4> QED
        BY <4>1, <4>2
    <3>3. pool'[tshard[y]] = pool[tshard[y]]
      BY <2>3, <2>4
    <3>4. pool'[tshard'[y]][deviceID'[Conn[y]]] = pool[tshard[y]][deviceID[Conn[y]]]
      BY <3>2, <3>3, Zenon
    <3>5. counted'[y] <=> counted[y]
      BY <3>2, Zenon
    <3> QED
      BY <3>1, <3>4, <3>5, Zenon
  <2> QED
    BY <2>4 DEF CountedRight
<1>3. ASSUME NEW x \in Tasks, Swap(x)
      PROVE  CountedRight'
  <2>1. UNCHANGED <<tshard, counted, pool>> /\ moved \subseteq moved'
    BY <1>3 DEF Swap
  <2>2. ASSUME NEW y \in Tasks, tpc'[y] = "store",
               <<Conn[y], tshard'[y], "store">> \notin moved'
        PROVE  tpc[y] = "store" /\ deviceID'[Conn[y]] = deviceID[Conn[y]]
    <3>1. tpc[y] = "store"
      BY <1>3, <2>2 DEF Swap, TypeOK
    <3>2. CASE Conn[y] # Conn[x]
      BY <1>3, <3>1, <3>2 DEF Swap, TypeOK
    <3>3. CASE Conn[y] = Conn[x]
      <4>1. y \in Putting(Conn[x])
        BY <3>1, <3>3 DEF Putting
      <4>2. CASE tnew[x] # deviceID[Conn[x]]
        <5>1. <<Conn[y], tshard[y], tpc[y]>> \in moved'
          BY <1>3, <4>1, <4>2 DEF Swap
        <5> QED
          BY <2>1, <2>2, <3>1, <5>1
      <4>3. CASE tnew[x] = deviceID[Conn[x]]
        BY <1>3, <3>1, <3>3, <4>3 DEF Swap, TypeOK
      <4> QED
        BY <4>2, <4>3
    <3> QED
      BY <3>2, <3>3
  <2> QED
    BY <2>1, <2>2 DEF CountedRight
<1>4. ASSUME UNCHANGED <<deviceID, moved, counted, pool>>,
             \A y \in Tasks : tpc'[y] = "store" => tpc[y] = "store" /\ tshard'[y] = tshard[y]
      PROVE  CountedRight'
  BY <1>4 DEF CountedRight
<1>5. ASSUME NEW x \in Tasks, DropOld(x)
      PROVE  CountedRight'
  <2>1. /\ UNCHANGED <<deviceID, moved, tshard, counted>>
        /\ \A y \in Tasks : tpc'[y] = "store" => tpc[y] = "store"
    BY <1>5 DEF DropOld, TypeOK
  <2>2. told[x] \in Keys /\ (Remove(told[x], {Conn[x]}) \/ UNCHANGED pool)
    BY <1>5 DEF DropOld, DeleteConn, TypeOK
  <2> QED
    BY <1>4, <2>1, <2>2, RemoveRight
<1>6. ASSUME NEW x \in Tasks, (\E d \in Keys : Submit(x, d)) \/ PutShard(x)
      PROVE  CountedRight'
  <2>1. UNCHANGED <<deviceID, moved, counted, pool>>
    BY <1>6 DEF Submit, PutShard
  <2>2. \A y \in Tasks : tpc'[y] = "store" => tpc[y] = "store" /\ tshard'[y] = tshard[y]
    BY <1>6 DEF Submit, PutShard, TypeOK
  <2> QED
    BY <1>4, <2>1, <2>2
<1>7. ASSUME NEW c \in Conns, TeardownDelete(c)
      PROVE  CountedRight'
  <2>1. UNCHANGED <<deviceID, moved, taskVars>>
    BY <1>7 DEF TeardownDelete
  <2>2. tdev[c] \in Keys /\ (Remove(tdev[c], {c}) \/ UNCHANGED pool)
    BY <1>7 DEF TeardownDelete, DeleteConn, TypeOK
  <2> QED
    BY <1>4, <2>1, <2>2, RemoveRight
<1>8. ASSUME NEW d \in Devices, Delete(d)
      PROVE  CountedRight'
  <2>1. Remove(d, Conns) /\ d \in Keys /\ UNCHANGED <<deviceID, moved, taskVars>>
    BY <1>8 DEF Delete, Keys
  <2> QED
    BY <2>1, RemoveRight
<1>9. CASE (\E c \in Conns : TeardownRead(c)) \/ UNCHANGED vars
  <2>1. UNCHANGED <<deviceID, moved, taskVars, pool>>
    BY <1>9 DEF TeardownRead, vars
  <2> QED
    BY <1>4, <2>1
<1> QED
  BY <1>1, <1>2, <1>3, <1>5, <1>6, <1>7, <1>8, <1>9 DEF Next, TaskNext, Quiet

-----------------------------------------------------------------------------
(* The counted sets are finite.                                             *)
LEMMA ClaimedFinite ==
    /\ IsFiniteSet(Claimed)
    /\ \A h \in Shards : IsFiniteSet(ShardClaimed(h))
<1>1. IsFiniteSet(Keys)
  BY KeysAssumption, FS_AddElement DEF Keys
<1>2. IsFiniteSet(Shards \X Keys)
  BY <1>1, ShardsAssumption, FS_Product
<1>3. Claimed \subseteq Shards \X Keys /\ \A h \in Shards : ShardClaimed(h) \subseteq Keys
  BY DEF Claimed, ShardClaimed
<1> QED
  BY <1>1, <1>2, <1>3, FS_Subset

LEMMA InitCounts == Init => CountsAgree
<1> SUFFICES ASSUME Init
             PROVE  CountsAgree
  OBVIOUS
<1>1. Claimed = {}
  BY DEF Init, Claimed, IsClaimed, Pending
<1>2. \A h \in Shards : ShardClaimed(h) = {}
  BY DEF Init, ShardClaimed, IsClaimed, Pending
<1> QED
  BY <1>1, <1>2, FS_EmptySet DEF Init, CountsAgree

(* Three ways a step can act on what is counted. It leaves it alone where   *)
(* no Put has been disturbed ...                                            *)
LEMMA CountsSame ==
    ASSUME CountsAgree, UNCHANGED <<count, totalCount>>, moved \subseteq moved',
           \A h \in Shards : ~Disturbed(h)' =>
              \A k \in Keys : IsClaimed(h, k)' <=> IsClaimed(h, k)
    PROVE  CountsAgree'
<1>1. \A h \in Shards : ~Disturbed(h)' => ~Disturbed(h)
  BY DEF Disturbed
<1>2. (\A h \in Shards : ~Disturbed(h)') => Claimed' = Claimed
  BY DEF Claimed
<1>3. \A h \in Shards : ~Disturbed(h)' => ShardClaimed(h)' = ShardClaimed(h)
  BY DEF ShardClaimed
<1> QED
  BY <1>1, <1>2, <1>3 DEF CountsAgree

(* ... or adds one key of one shard ...                                     *)
LEMMA CountsAdd ==
    ASSUME TypeOK, CountsAgree, NEW g \in Shards, NEW j \in Keys, moved' = moved,
           ~IsClaimed(g, j),
           count' = [count EXCEPT ![g] = @ + 1], totalCount' = totalCount + 1,
           \A h \in Shards : \A k \in Keys :
              IsClaimed(h, k)' <=> (IsClaimed(h, k) \/ (h = g /\ k = j))
    PROVE  CountsAgree'
<1>0. \A h \in Shards : Disturbed(h)' <=> Disturbed(h)
  BY DEF Disturbed
<1>1. Claimed' = Claimed \cup {<<g, j>>} /\ <<g, j>> \notin Claimed
  BY DEF Claimed
<1>2. Cardinality(Claimed') = Cardinality(Claimed) + 1
  BY <1>1, ClaimedFinite, FS_AddElement
<1>3. ShardClaimed(g)' = ShardClaimed(g) \cup {j} /\ j \notin ShardClaimed(g)
  BY DEF ShardClaimed
<1>4. Cardinality(ShardClaimed(g)') = Cardinality(ShardClaimed(g)) + 1
  BY <1>3, ClaimedFinite, FS_AddElement
<1>5. \A h \in Shards : h # g => ShardClaimed(h)' = ShardClaimed(h)
  BY DEF ShardClaimed
<1>6. ASSUME NEW h \in Shards, ~Disturbed(h)
      PROVE  count'[h] = Cardinality(ShardClaimed(h)')
  <2>1. CASE h = g
    BY <1>4, <1>6, <2>1 DEF CountsAgree, TypeOK
  <2>2. CASE h # g
    BY <1>5, <1>6, <2>2 DEF CountsAgree, TypeOK
  <2> QED
    BY <2>1, <2>2
<1> QED
  BY <1>0, <1>2, <1>6 DEF CountsAgree

(* ... or takes one away.                                                   *)
LEMMA CountsRemove ==
    ASSUME TypeOK, CountsAgree, NEW g \in Shards, NEW j \in Keys, moved' = moved,
           IsClaimed(g, j),
           count' = [count EXCEPT ![g] = @ - 1], totalCount' = totalCount - 1,
           \A h \in Shards : \A k \in Keys :
              IsClaimed(h, k)' <=> (IsClaimed(h, k) /\ ~(h = g /\ k = j))
    PROVE  CountsAgree'
<1>0. \A h \in Shards : Disturbed(h)' <=> Disturbed(h)
  BY DEF Disturbed
<1>1. Claimed' = Claimed \ {<<g, j>>} /\ <<g, j>> \in Claimed
  BY DEF Claimed
<1>2. Cardinality(Claimed') = Cardinality(Claimed) - 1
  BY <1>1, ClaimedFinite, FS_RemoveElement
<1>3. ShardClaimed(g)' = ShardClaimed(g) \ {j} /\ j \in ShardClaimed(g)
  BY DEF ShardClaimed
<1>4. Cardinality(ShardClaimed(g)') = Cardinality(ShardClaimed(g)) - 1
  BY <1>3, ClaimedFinite, FS_RemoveElement
<1>5. \A h \in Shards : h # g => ShardClaimed(h)' = ShardClaimed(h)
  BY DEF ShardClaimed
<1>6. ASSUME NEW h \in Shards, ~Disturbed(h)
      PROVE  count'[h] = Cardinality(ShardClaimed(h)')
  <2>1. CASE h = g
    BY <1>4, <1>6, <2>1 DEF CountsAgree, TypeOK
  <2>2. CASE h # g
    BY <1>5, <1>6, <2>2 DEF CountsAgree, TypeOK
  <2> QED
    BY <2>1, <2>2
<1> QED
  BY <1>0, <1>2, <1>6 DEF CountsAgree

(* A removal takes away exactly the entry it removes.                       *)
LEMMA RemoveCounts ==
    ASSUME TypeOK, LockProtocol, CountsAgree,
           NEW j \in Keys, NEW M \in SUBSET Conns, Remove(j, M),
           UNCHANGED <<deviceID, moved, tshard, counted>>
    PROVE  CountsAgree'
<1> DEFINE g == Hash[j]
<1>1. g \in Shards
  BY ShardsAssumption
<1>2. \A h \in Shards : \A k \in Keys : Pending(h, k)' <=> Pending(h, k)
  BY DEF Pending
<1>3. CASE pool[g][j] \in M
  <2>1. /\ pool' = [pool EXCEPT ![g][j] = NoConn]
        /\ count' = [count EXCEPT ![g] = @ - 1]
        /\ totalCount' = totalCount - 1
        /\ g \notin locked
    BY <1>3 DEF Remove
  <2>2. ~Pending(g, j)
    BY <2>1 DEF Pending, LockProtocol
  <2>3. IsClaimed(g, j)
    BY <1>3, ConnsAssumption DEF IsClaimed
  <2> HIDE DEF g
  <2>4. \A h \in Shards : \A k \in Keys :
          IsClaimed(h, k)' <=> (IsClaimed(h, k) /\ ~(h = g /\ k = j))
    BY <1>1, <1>2, <2>1, <2>2 DEF TypeOK, IsClaimed
  <2> QED
    BY <1>1, <2>1, <2>3, <2>4, CountsRemove
<1>4. CASE pool[g][j] \notin M
  <2>1. UNCHANGED <<pool, count, totalCount>>
    BY <1>4 DEF Remove
  <2> QED
    BY <1>2, <2>1, CountsSame DEF IsClaimed
<1> QED
  BY <1>3, <1>4

LEMMA StepCounts ==
    ASSUME TypeOK, LockProtocol, CountedRight, CountsAgree, [Next]_vars
    PROVE  CountsAgree'
<1> USE TasksAssumption DEF idVars, taskVars, poolVars, handleVars
<1>0. moved \subseteq moved'
  BY MovedGrows
<1>1. ASSUME NEW x \in Tasks, Swap(x)
      PROVE  CountsAgree'
  <2>1. UNCHANGED <<tshard, counted, pool, count, totalCount>>
    BY <1>1 DEF Swap
  <2>2. ASSUME NEW y \in Tasks, counted[y], ~Disturbed(tshard[y])'
        PROVE  deviceID'[Conn[y]] = deviceID[Conn[y]]
    <3>1. tpc[y] = "store"
      BY <2>2 DEF LockProtocol
    <3>2. CASE Conn[y] # Conn[x]
      BY <1>1, <3>2 DEF Swap, TypeOK
    <3>3. CASE Conn[y] = Conn[x]
      <4>1. y \in Putting(Conn[x])
        BY <3>1, <3>3 DEF Putting
      <4>2. CASE tnew[x] # deviceID[Conn[x]]
        <5>1. <<Conn[y], tshard[y], tpc[y]>> \in moved'
          BY <1>1, <4>1, <4>2 DEF Swap
        <5> QED
          BY <2>1, <2>2, <3>1, <5>1 DEF Disturbed
      <4>3. CASE tnew[x] = deviceID[Conn[x]]
        BY <1>1, <3>3, <4>3 DEF Swap, TypeOK
      <4> QED
        BY <4>2, <4>3
    <3> QED
      BY <3>2, <3>3
  <2>3. ASSUME NEW h \in Shards, ~Disturbed(h)', NEW k \in Keys
        PROVE  IsClaimed(h, k)' <=> IsClaimed(h, k)
    <3>1. \A y \in Tasks : counted[y] /\ tshard[y] = h =>
             deviceID'[Conn[y]] = deviceID[Conn[y]]
      BY <2>1, <2>2, <2>3 DEF Disturbed
    <3> QED
      BY <2>1, <3>1 DEF IsClaimed, Pending
  <2> QED
    BY <1>0, <2>1, <2>3, CountsSame
<1>2. ASSUME UNCHANGED <<deviceID, counted, pool, count, totalCount>>,
             \A y \in Tasks : counted[y] => tshard'[y] = tshard[y]
      PROVE  CountsAgree'
  <2>1. \A h \in Shards, k \in Keys : IsClaimed(h, k)' <=> IsClaimed(h, k)
    BY <1>2 DEF IsClaimed, Pending
  <2> QED
    BY <1>0, <1>2, <2>1, CountsSame
<1>3. ASSUME NEW x \in Tasks, DropOld(x)
      PROVE  CountsAgree'
  <2>1. UNCHANGED <<deviceID, moved, tshard, counted>>
    BY <1>3 DEF DropOld
  <2>2. CASE told[x] # NoDevice /\ told[x] # tnew[x]
    <3>1. Remove(told[x], {Conn[x]}) /\ told[x] \in Keys /\ {Conn[x]} \in SUBSET Conns
      BY <1>3, <2>2 DEF DropOld, DeleteConn, TypeOK
    <3> QED
      BY <2>1, <3>1, RemoveCounts
  <2>3. CASE ~(told[x] # NoDevice /\ told[x] # tnew[x])
    <3>1. UNCHANGED <<pool, count, totalCount>>
      BY <1>3, <2>3 DEF DropOld
    <3> QED
      BY <1>2, <2>1, <3>1
  <2> QED
    BY <2>2, <2>3
<1>4. ASSUME NEW x \in Tasks, (\E d \in Keys : Submit(x, d)) \/ PutShard(x)
      PROVE  CountsAgree'
  <2>1. UNCHANGED <<deviceID, counted, pool, count, totalCount>>
    BY <1>4 DEF Submit, PutShard
  <2>2. \A y \in Tasks : counted[y] => tshard'[y] = tshard[y]
    BY <1>4 DEF Submit, PutShard, LockProtocol, TypeOK
  <2> QED
    BY <1>2, <2>1, <2>2
<1>5. ASSUME NEW x \in Tasks, PutTest(x)
      PROVE  CountsAgree'
  <2> DEFINE g == tshard[x]
             j == deviceID[Conn[x]]
  <2>1. g \in Shards /\ j \in Keys
    BY DEF TypeOK
  <2>2. g \notin locked /\ UNCHANGED <<deviceID, moved, tshard, pool>>
    BY <1>5 DEF PutTest
  <2>3. ~counted[x] /\ \A y \in Tasks : counted[y] => tshard[y] # g
    BY <1>5, <2>2 DEF PutTest, LockProtocol
  <2>4. ~Pending(g, j)
    BY <2>3 DEF Pending
  <2>5. CASE pool[g][j] = NoConn
    <3>1. /\ counted' = [counted EXCEPT ![x] = TRUE]
          /\ count' = [count EXCEPT ![g] = @ + 1]
          /\ totalCount' = totalCount + 1
      BY <1>5, <2>5 DEF PutTest
    <3>2. counted'[x] /\ \A y \in Tasks : y # x => counted'[y] = counted[y]
      BY <3>1 DEF TypeOK
    <3>3. ASSUME NEW h \in Shards, NEW k \in Keys
          PROVE  Pending(h, k)' <=> (Pending(h, k) \/ (h = g /\ k = j))
      BY <2>2, <2>3, <3>2 DEF Pending
    <3> HIDE DEF g, j
    <3>4. \A h \in Shards : \A k \in Keys :
            IsClaimed(h, k)' <=> (IsClaimed(h, k) \/ (h = g /\ k = j))
      BY <2>2, <3>3 DEF IsClaimed
    <3>5. ~IsClaimed(g, j)
      BY <2>4, <2>5 DEF IsClaimed
    <3> QED
      BY <2>1, <2>2, <3>1, <3>4, <3>5, CountsAdd
  <2>6. CASE pool[g][j] # NoConn
    <3>1. /\ counted' = [counted EXCEPT ![x] = FALSE]
          /\ count' = [count EXCEPT ![g] = @]
          /\ totalCount' = totalCount
      BY <1>5, <2>6 DEF PutTest
    <3>2. counted' = counted /\ count' = count
      BY <2>1, <2>3, <3>1 DEF TypeOK
    <3> QED
      BY <1>2, <2>2, <3>1, <3>2
  <2> QED
    BY <2>5, <2>6
<1>6. ASSUME NEW x \in Tasks, PutStore(x)
      PROVE  CountsAgree'
  <2> DEFINE g == tshard[x]
             j == deviceID[Conn[x]]
  <2>1. g \in Shards /\ j \in Keys /\ Conn[x] \in Conns
    BY DEF TypeOK
  <2>2. /\ pool' = [pool EXCEPT ![g][j] = Conn[x]]
        /\ counted' = [counted EXCEPT ![x] = FALSE]
        /\ tshard' = [tshard EXCEPT ![x] = Hash[NoDevice]]
        /\ tpc[x] = "store"
        /\ UNCHANGED <<deviceID, moved, count, totalCount>>
    BY <1>6 DEF PutStore
  <2>3. ~Disturbed(g) => (pool[g][j] = NoConn => counted[x])
    BY <2>1, <2>2 DEF CountedRight, Disturbed
  <2>4. /\ ~counted'[x]
        /\ \A y \in Tasks : y # x => counted'[y] = counted[y] /\ tshard'[y] = tshard[y]
    BY <2>2 DEF TypeOK
  <2>5. ASSUME NEW h \in Shards, ~Disturbed(h)', NEW k \in Keys
        PROVE  IsClaimed(h, k)' <=> IsClaimed(h, k)
    <3>0. ~Disturbed(h)
      BY <2>2, <2>5 DEF Disturbed
    <3>1. CASE h = g /\ k = j
      <4>1. pool'[h][k] = Conn[x]
        BY <2>1, <2>2, <3>1 DEF TypeOK
      <4>2. IsClaimed(h, k)
        BY <2>3, <3>0, <3>1 DEF IsClaimed, Pending
      <4> QED
        BY <2>1, <4>1, <4>2, ConnsAssumption DEF IsClaimed
    <3>2. CASE ~(h = g /\ k = j)
      <4>1. pool'[h][k] = pool[h][k]
        BY <2>1, <2>2, <3>2 DEF TypeOK
      <4>2. Pending(h, k)' <=> Pending(h, k)
        BY <2>2, <2>4, <3>2 DEF Pending
      <4> QED
        BY <4>1, <4>2 DEF IsClaimed
    <3> QED
      BY <3>1, <3>2
  <2> QED
    BY <1>0, <2>2, <2>5, CountsSame
<1>7. ASSUME NEW c \in Conns, TeardownDelete(c)
      PROVE  CountsAgree'
  <2>1. UNCHANGED <<deviceID, moved, tshard, counted>>
    BY <1>7 DEF TeardownDelete
  <2>2. CASE tdev[c] # NoDevice
    <3>1. Remove(tdev[c], {c}) /\ tdev[c] \in Keys /\ {c} \in SUBSET Conns
      BY <1>7, <2>2 DEF TeardownDelete, DeleteConn, TypeOK
    <3> QED
      BY <2>1, <3>1, RemoveCounts
  <2>3. CASE tdev[c] = NoDevice
    <3>1. UNCHANGED <<pool, count, totalCount>>
      BY <1>7, <2>3 DEF TeardownDelete
    <3> QED
      BY <1>2, <2>1, <3>1
  <2> QED
    BY <2>2, <2>3
<1>8. ASSUME NEW d \in Devices, Delete(d)
      PROVE  CountsAgree'
  <2>1. /\ Remove(d, Conns) /\ d \in Keys /\ Conns \in SUBSET Conns
        /\ UNCHANGED <<deviceID, moved, tshard, counted>>
    BY <1>8 DEF Delete, Keys
  <2> QED
    BY <2>1, RemoveCounts
<1>9. CASE (\E c \in Conns : TeardownRead(c)) \/ UNCHANGED vars
  <2>1. UNCHANGED <<deviceID, tshard, counted, pool, count, totalCount>>
    BY <1>9 DEF TeardownRead, vars
  <2> QED
    BY <1>2, <2>1
<1> QED
  BY <1>1, <1>3, <1>4, <1>5, <1>6, <1>7, <1>8, <1>9 DEF Next, TaskNext, Quiet

(* A shard that is not locked has nothing counted ahead of its store.       *)
LEMMA NothingPending ==
    ASSUME LockProtocol, NEW h \in Shards \ locked
    PROVE  \A k \in Keys : ~Pending(h, k)
  BY DEF LockProtocol, Pending

LEMMA CountsExact == TypeOK /\ LockProtocol /\ CountsAgree => SizeExact
<1> SUFFICES ASSUME TypeOK, LockProtocol, CountsAgree
             PROVE  SizeExact
  OBVIOUS
<1>1. ASSUME NEW h \in Shards \ locked, ~Disturbed(h)
      PROVE  count[h] = Cardinality(ShardEntries(h))
  <2>1. ShardClaimed(h) = ShardEntries(h)
    BY NothingPending DEF ShardClaimed, ShardEntries, IsClaimed
  <2> QED
    BY <1>1, <2>1 DEF CountsAgree
<1>2. ASSUME locked = {}, \A h \in Shards : ~Disturbed(h)
      PROVE  totalCount = Cardinality(Entries)
  <2>1. Claimed = Entries
    BY <1>2, NothingPending DEF Claimed, Entries, IsClaimed
  <2> QED
    BY <1>2, <2>1 DEF CountsAgree
<1> QED
  BY <1>1, <1>2 DEF SizeExact

(* The inductive invariant behind SizeExact.                                *)
Counting == TypeOK /\ LockProtocol /\ CountedRight /\ CountsAgree

LEMMA CountingInvariance == Spec => []Counting
<1>1. Init => Counting
  BY InitTypes, InitLocks, InitRight, InitCounts DEF Counting
<1>2. Counting /\ [Next]_vars => Counting'
  BY StepTypes, StepLocks, StepRight, StepCounts DEF Counting
<1> QED
  BY <1>1, <1>2, PTL DEF Spec

(* However the tasks of the connections overlap, Size and the counts of the *)
(* shards are exact until a connection is renamed in the middle of its own  *)
(* Put; the counts of the other shards stay exact even then.                *)
THEOREM SizeExactHolds == Spec => []SizeExact
<1>1. Counting => SizeExact
  BY CountsExact DEF Counting
<1> QED
  BY <1>1, CountingInvariance, PTL

-----------------------------------------------------------------------------
(* What a removal can do to an entry.                                       *)
LEMMA RemoveEntry ==
    ASSUME TypeOK, NEW k \in Keys, NEW M, Remove(k, M), NEW h \in Shards, NEW l \in Keys
    PROVE  /\ \/ pool'[h][l] = pool[h][l]
              \/ pool'[h][l] = NoConn /\ h = Hash[k] /\ l = k /\ pool[h][l] \in M
           /\ h = Hash[k] /\ l = k /\ pool[h][l] \in M => pool'[h][l] = NoConn
<1> DEFINE g == Hash[k]
<1>1. g \in Shards
  BY ShardsAssumption
<1>2. \/ pool[g][k] \in M /\ pool' = [pool EXCEPT ![g][k] = NoConn]
      \/ pool[g][k] \notin M /\ pool' = pool
  BY DEF Remove
<1> HIDE DEF g
<1>3. CASE pool[g][k] \in M /\ pool' = [pool EXCEPT ![g][k] = NoConn]
  <2>1. pool'[h][l] = IF h = g /\ l = k THEN NoConn ELSE pool[h][l]
    BY <1>1, <1>3 DEF TypeOK
  <2> QED
    BY <1>3, <2>1 DEF g
<1>4. CASE pool[g][k] \notin M /\ pool' = pool
  BY <1>4 DEF g
<1> QED
  BY <1>2, <1>3, <1>4

(* An entry appears only as the store of a Put.                             *)
LEMMA EntryStored ==
    ASSUME TypeOK, [Next]_vars, NEW h \in Shards, NEW k \in Keys,
           pool'[h][k] # NoConn, pool'[h][k] # pool[h][k]
    PROVE  \E x \in Tasks : /\ PutStore(x)
                            /\ h = tshard[x] /\ k = deviceID[Conn[x]]
                            /\ pool'[h][k] = Conn[x]
<1> USE DEF idVars, taskVars, poolVars, handleVars
<1>1. ASSUME NEW j \in Keys, NEW M, Remove(j, M)
      PROVE  FALSE
  BY <1>1, RemoveEntry
<1>2. ASSUME NEW x \in Tasks, PutStore(x)
      PROVE  h = tshard[x] /\ k = deviceID[Conn[x]] /\ pool'[h][k] = Conn[x]
  BY <1>2 DEF PutStore, TypeOK
<1>3. ASSUME NEW x \in Tasks, DropOld(x)
      PROVE  FALSE
  <2>1. told[x] \in Keys /\ (Remove(told[x], {Conn[x]}) \/ UNCHANGED pool)
    BY <1>3 DEF DropOld, DeleteConn, TypeOK
  <2> QED
    BY <1>1, <2>1
<1>4. ASSUME NEW c \in Conns, TeardownDelete(c)
      PROVE  FALSE
  <2>1. tdev[c] \in Keys /\ (Remove(tdev[c], {c}) \/ UNCHANGED pool)
    BY <1>4 DEF TeardownDelete, DeleteConn, TypeOK
  <2> QED
    BY <1>1, <2>1
<1>5. ASSUME NEW d \in Devices, Delete(d)
      PROVE  FALSE
  BY <1>1, <1>5 DEF Delete, Keys
<1>6. \/ UNCHANGED pool
      \/ \E x \in Tasks : DropOld(x) \/ PutStore(x)
      \/ \E c \in Conns : TeardownDelete(c)
      \/ \E d \in Devices : Delete(d)
  BY DEF Next, TaskNext, Quiet, vars, Submit, Swap, PutShard, PutTest, TeardownRead
<1> QED
  BY <1>2, <1>3, <1>4, <1>5, <1>6

LEMMA InitChosen == Init => ChosenRight
  BY DEF Init, ChosenRight

LEMMA StepChosen ==
    ASSUME TypeOK, ChosenRight, [Next]_vars
    PROVE  ChosenRight'
<1> USE TasksAssumption DEF idVars, taskVars, poolVars, handleVars
<1>0. moved \subseteq moved'
  BY MovedGrows
<1>1. ASSUME NEW x \in Tasks, Swap(x)
      PROVE  ChosenRight'
  <2>1. ASSUME NEW y \in Tasks, tpc'[y] \in {"put", "store"}
        PROVE  tpc[y] = tpc'[y] /\ tshard'[y] = tshard[y]
    BY <1>1, <2>1 DEF Swap, TypeOK
  <2>2. ASSUME NEW y \in Tasks, tpc'[y] \in {"put", "store"}
        PROVE  \/ deviceID'[Conn[y]] = deviceID[Conn[y]]
               \/ <<Conn[y], tshard[y], tpc[y]>> \in moved'
    <3>1. CASE Conn[y] # Conn[x]
      BY <1>1, <3>1 DEF Swap, TypeOK
    <3>2. CASE Conn[y] = Conn[x] /\ tnew[x] # deviceID[Conn[x]]
      <4>1. y \in Putting(Conn[x])
        BY <2>1, <2>2, <3>2 DEF Putting
      <4> QED
        BY <1>1, <3>2, <4>1 DEF Swap
    <3>3. CASE Conn[y] = Conn[x] /\ tnew[x] = deviceID[Conn[x]]
      BY <1>1, <3>3 DEF Swap, TypeOK
    <3> QED
      BY <3>1, <3>2, <3>3
  <2> QED
    BY <1>0, <2>1, <2>2 DEF ChosenRight
<1>2. ASSUME NEW x \in Tasks, PutShard(x)
      PROVE  ChosenRight'
  <2>1. /\ deviceID' = deviceID /\ tshard'[x] = Hash[deviceID[Conn[x]]]
        /\ \A y \in Tasks : y # x => tshard'[y] = tshard[y] /\ tpc'[y] = tpc[y]
    BY <1>2 DEF PutShard, TypeOK
  <2> QED
    BY <1>0, <2>1 DEF ChosenRight
<1>3. ASSUME UNCHANGED deviceID,
             \A y \in Tasks : tpc'[y] \in {"put", "store"} =>
                tpc[y] \in {"put", "store"} /\ tshard'[y] = tshard[y]
      PROVE  ChosenRight'
  BY <1>0, <1>3 DEF ChosenRight
<1>4. ASSUME NEW x \in Tasks,
             (\E d \in Keys : Submit(x, d)) \/ DropOld(x) \/ PutTest(x) \/ PutStore(x)
      PROVE  ChosenRight'
  <2>1. UNCHANGED deviceID
    BY <1>4 DEF Submit, DropOld, PutTest, PutStore
  <2>2. \A y \in Tasks : tpc'[y] \in {"put", "store"} =>
           tpc[y] \in {"put", "store"} /\ tshard'[y] = tshard[y]
    BY <1>4 DEF Submit, DropOld, PutTest, PutStore, TypeOK
  <2> QED
    BY <1>3, <2>1, <2>2
<1>5. CASE \/ \E c \in Conns : TeardownRead(c) \/ TeardownDelete(c)
           \/ \E d \in Devices : Delete(d)
           \/ UNCHANGED vars
  <2>1. UNCHANGED <<deviceID, tpc, tshard>>
    BY <1>5 DEF TeardownRead, TeardownDelete, Delete, vars
  <2> QED
    BY <1>3, <2>1
<1> QED
  BY <1>1, <1>2, <1>4, <1>5 DEF Next, TaskNext, Quiet

LEMMA StepShard ==
    ASSUME TypeOK, ChosenRight, RightShard, [Next]_vars
    PROVE  RightShard'
<1>1. ASSUME NEW h \in Shards, NEW k \in Keys, NEW c, c = pool'[h][k], c # NoConn
      PROVE  h = Hash[k] \/ \E at \in {"put", "store"} : <<c, h, at>> \in moved'
  <2>1. CASE pool'[h][k] = pool[h][k]
    BY <1>1, <2>1, MovedGrows DEF RightShard
  <2>2. CASE pool'[h][k] # pool[h][k]
    <3>1. PICK x \in Tasks : PutStore(x) /\ h = tshard[x] /\ k = deviceID[Conn[x]] /\ c = Conn[x]
      BY <1>1, <2>2, EntryStored
    <3>2. h = Hash[k] \/ \E at \in {"put", "store"} : <<c, h, at>> \in moved
      BY <3>1 DEF PutStore, ChosenRight
    <3> QED
      BY <3>2, MovedGrows
  <2> QED
    BY <2>1, <2>2
<1> QED
  BY <1>1 DEF RightShard

(* However the tasks of the connections overlap, an entry is in the shard   *)
(* Get and DeleteConn look in, but for a connection that was renamed in the *)
(* middle of its own Put, in the shard that Put had chosen.                 *)
THEOREM RightShardHolds == Spec => []RightShard
<1> DEFINE Placed == TypeOK /\ ChosenRight /\ RightShard
<1>1. Init => Placed
  <2>1. Init => RightShard
    BY DEF Init, RightShard
  <2> QED
    BY <2>1, InitTypes, InitChosen
<1>2. Placed /\ [Next]_vars => Placed'
  BY StepTypes, StepChosen, StepShard
<1> QED
  BY <1>1, <1>2, PTL DEF Spec

-----------------------------------------------------------------------------
(* A task of c has yet to remove the entry under k, which c gave up for     *)
(* another identifier.                                                      *)
GivingUp(c, k) ==
    \E x \in Tasks : Conn[x] = c /\ tpc[x] = "drop" /\ told[x] = k /\ tnew[x] # k

OwnOrGivingUp ==
    \A k \in Devices : LET c == pool[Hash[k]][k]
                       IN  c # NoConn => deviceID[c] = k \/ GivingUp(c, k)

LEMMA StepOwnId ==
    ASSUME TypeOK, OwnOrGivingUp, [Next]_vars
    PROVE  OwnOrGivingUp'
<1> USE TasksAssumption DEF idVars, taskVars, poolVars, handleVars
<1> SUFFICES ASSUME NEW k \in Devices, NEW c, c = pool'[Hash[k]][k], c # NoConn
             PROVE  deviceID'[c] = k \/ GivingUp(c, k)'
  BY DEF OwnOrGivingUp
<1> DEFINE h == Hash[k]
<1>0. k \in Keys /\ k # NoDevice /\ h \in Shards
  BY KeysAssumption, ShardsAssumption DEF Keys
<1>1. c \in Conns
  BY <1>0, StepTypes DEF TypeOK
<1> HIDE DEF h
<1>2. pool'[h][k] = c
  BY DEF h
<1>3. CASE pool[h][k] # c
  <2>1. PICK x \in Tasks : PutStore(x) /\ k = deviceID[Conn[x]] /\ c = Conn[x]
    BY <1>0, <1>2, <1>3, EntryStored
  <2> QED
    BY <2>1 DEF PutStore
<1>4. CASE pool[h][k] = c
  <2>1. deviceID[c] = k \/ GivingUp(c, k)
    BY <1>4 DEF OwnOrGivingUp, h
  <2>2. ASSUME deviceID'[c] = deviceID[c],
               \A y \in Tasks : tpc[y] = "drop" =>
                  tpc'[y] = "drop" /\ told'[y] = told[y] /\ tnew'[y] = tnew[y]
        PROVE  deviceID'[c] = k \/ GivingUp(c, k)'
    BY <2>1, <2>2 DEF GivingUp
  <2>3. ASSUME NEW x \in Tasks, Swap(x)
        PROVE  deviceID'[c] = k \/ GivingUp(c, k)'
    <3>1. /\ tpc[x] = "swap" /\ tpc'[x] = "drop" /\ told'[x] = deviceID[Conn[x]]
          /\ tnew' = tnew /\ deviceID' = [deviceID EXCEPT ![Conn[x]] = tnew[x]]
          /\ \A y \in Tasks : y # x => tpc'[y] = tpc[y] /\ told'[y] = told[y]
      BY <2>3 DEF Swap, TypeOK
    <3>2. CASE GivingUp(c, k)
      <4>1. PICK y \in Tasks : Conn[y] = c /\ tpc[y] = "drop" /\ told[y] = k /\ tnew[y] # k
        BY <3>2 DEF GivingUp
      <4>2. y # x
        BY <3>1, <4>1
      <4> QED
        BY <3>1, <4>1, <4>2 DEF GivingUp
    <3>3. CASE deviceID[c] = k /\ Conn[x] = c
      <4>1. deviceID'[c] = tnew[x]
        BY <1>1, <3>1, <3>3 DEF TypeOK
      <4> QED
        BY <3>1, <3>3, <4>1 DEF GivingUp
    <3>4. CASE deviceID[c] = k /\ Conn[x] # c
      BY <1>1, <3>1, <3>4 DEF TypeOK
    <3> QED
      BY <2>1, <3>2, <3>3, <3>4
  <2>4. ASSUME NEW x \in Tasks, DropOld(x)
        PROVE  deviceID'[c] = k \/ GivingUp(c, k)'
    <3>1. /\ deviceID' = deviceID
          /\ \A y \in Tasks : y # x =>
                tpc'[y] = tpc[y] /\ told'[y] = told[y] /\ tnew'[y] = tnew[y]
      BY <2>4 DEF DropOld, TypeOK
    <3>2. CASE Conn[x] = c /\ told[x] = k /\ tnew[x] # k
      <4>1. Remove(k, {c})
        BY <1>0, <2>4, <3>2 DEF DropOld, DeleteConn
      <4>2. pool'[h][k] = NoConn
        BY <1>0, <1>4, <4>1, RemoveEntry DEF h
      <4> QED
        BY <1>2, <4>2
    <3>3. CASE ~(Conn[x] = c /\ told[x] = k /\ tnew[x] # k)
      <4>1. CASE deviceID[c] = k
        BY <3>1, <4>1
      <4>2. CASE GivingUp(c, k)
        <5>1. PICK y \in Tasks : Conn[y] = c /\ tpc[y] = "drop" /\ told[y] = k /\ tnew[y] # k
          BY <4>2 DEF GivingUp
        <5>2. y # x
          BY <3>3, <5>1
        <5> QED
          BY <3>1, <5>1, <5>2 DEF GivingUp
      <4> QED
        BY <2>1, <4>1, <4>2
    <3> QED
      BY <3>2, <3>3
  <2>5. ASSUME NEW x \in Tasks, \/ \E d \in Keys : Submit(x, d)
                                \/ PutShard(x) \/ PutTest(x) \/ PutStore(x)
        PROVE  deviceID'[c] = k \/ GivingUp(c, k)'
    <3>1. deviceID' = deviceID
      BY <2>5 DEF Submit, PutShard, PutTest, PutStore
    <3>2. \A y \in Tasks : tpc[y] = "drop" =>
             tpc'[y] = "drop" /\ told'[y] = told[y] /\ tnew'[y] = tnew[y]
      BY <2>5 DEF Submit, PutShard, PutTest, PutStore, TypeOK
    <3> QED
      BY <2>2, <3>1, <3>2
  <2>6. CASE \/ \E e \in Conns : TeardownRead(e) \/ TeardownDelete(e)
             \/ \E d \in Devices : Delete(d)
             \/ UNCHANGED vars
    <3>1. UNCHANGED <<deviceID, tpc, told, tnew>>
      BY <2>6 DEF TeardownRead, TeardownDelete, Delete, vars
    <3> QED
      BY <2>2, <3>1
  <2> QED
    BY <2>3, <2>4, <2>5, <2>6 DEF Next, TaskNext, Quiet
<1> QED
  BY <1>3, <1>4

(* What Get finds under a device's identifier is a connection that has this *)
(* identifier or is giving it up, however its tasks overlap.                *)
THEOREM RegisteredUnderOwnIdHolds == Spec => []RegisteredUnderOwnId
<1> DEFINE Registry == TypeOK /\ OwnOrGivingUp
<1>1. Init => Registry
  <2>1. Init => OwnOrGivingUp
    BY ShardsAssumption DEF Init, OwnOrGivingUp, Keys
  <2> QED
    BY <2>1, InitTypes
<1>2. Registry /\ [Next]_vars => Registry'
  BY StepTypes, StepOwnId
<1>3. Registry => RegisteredUnderOwnId
  BY DEF OwnOrGivingUp, GivingUp, RegisteredUnderOwnId
<1> QED
  BY <1>1, <1>2, <1>3, PTL DEF Spec

-----------------------------------------------------------------------------
(* What EntryKept says of one step.                                         *)
KeptBy(c, k) ==
    \/ phase[c] = "teardown" /\ phase'[c] = "gone" /\ tdev[c] = k
    \/ \E x \in Tasks : /\ Conn[x] = c /\ told[x] = k
                        /\ tpc[x] = "drop" /\ tpc'[x] # "drop"
    \/ Delete(k)

KeepStep ==
    \A h \in Shards : \A k \in Keys :
        LET c == pool[h][k] IN c # NoConn /\ pool'[h][k] = NoConn => KeptBy(c, k)

LEMMA StepKeeps == TypeOK /\ [Next]_vars => KeepStep
<1> SUFFICES ASSUME TypeOK, [Next]_vars
             PROVE  KeepStep
  OBVIOUS
<1> SUFFICES ASSUME NEW h \in Shards, NEW k \in Keys, NEW c \in Conns,
                    pool[h][k] = c, pool'[h][k] = NoConn
             PROVE  KeptBy(c, k)
  <2>1. \A h \in Shards : \A k \in Keys : pool[h][k] \in Conns \cup {NoConn}
    BY DEF TypeOK
  <2> QED
    BY <2>1 DEF KeepStep
<1> USE TasksAssumption DEF idVars, taskVars, poolVars, handleVars
<1>0. c # NoConn
  BY ConnsAssumption
<1>1. ASSUME NEW x \in Tasks, DropOld(x)
      PROVE  Conn[x] = c /\ told[x] = k /\ tpc[x] = "drop" /\ tpc'[x] # "drop"
  <2>1. told[x] \in Keys /\ tpc[x] = "drop" /\ tpc'[x] # "drop"
    BY <1>1 DEF DropOld, TypeOK
  <2>2. Remove(told[x], {Conn[x]})
    BY <1>0, <1>1 DEF DropOld, DeleteConn
  <2>3. k = told[x] /\ c = Conn[x]
    BY <1>0, <2>1, <2>2, RemoveEntry
  <2> QED
    BY <2>1, <2>3
<1>2. ASSUME NEW e \in Conns, TeardownDelete(e)
      PROVE  phase[c] = "teardown" /\ phase'[c] = "gone" /\ tdev[c] = k
  <2>1. tdev[e] \in Keys /\ Remove(tdev[e], {e})
    BY <1>0, <1>2 DEF TeardownDelete, DeleteConn, TypeOK
  <2>2. c = e /\ k = tdev[e]
    BY <1>0, <2>1, RemoveEntry
  <2> QED
    BY <1>2, <2>2 DEF TeardownDelete, TypeOK
<1>3. ASSUME NEW d \in Devices, Delete(d)
      PROVE  Delete(k)
  <2>1. d \in Keys /\ Remove(d, Conns)
    BY <1>3 DEF Delete, Keys
  <2>2. k = d
    BY <1>0, <2>1, RemoveEntry
  <2> QED
    BY <1>3, <2>2
<1>4. ASSUME NEW x \in Tasks, PutStore(x)
      PROVE  FALSE
  <2>1. Conn[x] \in Conns /\ pool' = [pool EXCEPT ![tshard[x]][deviceID[Conn[x]]] = Conn[x]]
    BY <1>4 DEF PutStore
  <2>2. pool'[h][k] = Conn[x] \/ pool'[h][k] = pool[h][k]
    BY <2>1 DEF TypeOK
  <2> QED
    BY <1>0, <2>1, <2>2, ConnsAssumption
<1>5. \/ UNCHANGED pool
      \/ \E x \in Tasks : DropOld(x) \/ PutStore(x)
      \/ \E e \in Conns : TeardownDelete(e)
      \/ \E d \in Devices : Delete(d)
  BY DEF Next, TaskNext, Quiet, vars, Submit, Swap, PutShard, PutTest, TeardownRead
<1> QED
  BY <1>0, <1>1, <1>2, <1>3, <1>4, <1>5 DEF KeptBy

(* However the tasks of the connections overlap, an entry disappears only   *)
(* through Delete, the teardown of its own connection or a SetDeviceID of   *)
(* that connection that gave the identifier up.                             *)
THEOREM EntryKeptHolds == Spec => EntryKept
<1>1. TypeOK /\ [Next]_vars => [KeepStep]_vars
  BY StepKeeps
<1> QED
  BY <1>1, InitTypes, StepTypes, PTL DEF Spec, EntryKept, KeepStep, KeptBy
=============================================================================
