---------------------------- MODULE ComponentsProofs ----------------------------
(***************************************************************************)
(* Proofs about the components that do not interact: TotalExact and        *)
(* RangeSees of CoreConnPool, WorkersAccounted of CoreWorkerPool,          *)
(* WatchersCurrent of Config, AckedKept, PipelineSettles, QueryExact and   *)
(* DevicesKept of Storage, NothingDropped, DuplicatesExplained and         *)
(* OrderKept of PubSub, OnlyWhatWasSent and OnlyOversizeRefused of Framing *)
(* (from the lemmas of FramingProofs), for any number of devices, shards,  *)
(* tasks, keys, watchers, reports, writers, messages and lost connections. *)
(*                                                                         *)
(* Each invariant is about the variables of one component and is preserved *)
(* by the steps of that one.                                               *)
(***************************************************************************)
EXTENDS Components, FiniteSetTheorems, FunctionTheorems, SequenceTheorems, WellFoundedInduction,
    TLAPS

(* A step of Components is a step of a component or leaves it alone.        *)
LEMMA StepOf ==
    ASSUME [Next]_vars
    PROVE  /\ UNCHANGED focus
           /\ S!Next \/ UNCHANGED storage
           /\ P!Next \/ UNCHANGED pubsub
           /\ C!Next \/ UNCHANGED conns
           /\ W!Next \/ UNCHANGED workers
           /\ F!Next \/ UNCHANGED config
           /\ Link!Next \/ UNCHANGED framing
<1>1. CASE Next
    <2>1. UNCHANGED focus
        BY <1>1 DEF Next
    <2>2. S!Next \/ UNCHANGED storage
        BY <1>1 DEF Next, S!Next
    <2>3. /\ P!Next \/ UNCHANGED pubsub
          /\ C!Next \/ UNCHANGED conns
          /\ W!Next \/ UNCHANGED workers
          /\ F!Next \/ UNCHANGED config
          /\ Link!Next \/ UNCHANGED framing
        BY <1>1 DEF Next
    <2> QED
        BY <2>1, <2>2, <2>3
<1>2. CASE UNCHANGED vars
    BY <1>2 DEF vars, storage, pubsub, conns, workers, config, framing
<1> QED
    BY <1>1, <1>2

-----------------------------------------------------------------------------
(* The connection pool of core                                              *)

ConnTypes ==
    /\ entries \in [Devices -> Conns \cup {NoConn}]
    /\ count \in [C!Shards -> Int] /\ total \in Int
    /\ clearing \in 0..ShardCount + 1 /\ mixed \in BOOLEAN
    /\ ranging \in 0..ShardCount + 1
    /\ seen \subseteq Devices /\ steady \subseteq Devices

(* The shards Clear has been at are empty as long as nobody puts, and the   *)
(* total is right until then and after.                                     *)
Cleaned ==
    /\ \A s \in C!Shards : count[s] = Cardinality(C!InShard(s) \cap C!Present)
    /\ clearing = 0 /\ ~mixed => total = Cardinality(C!Present)
    /\ clearing # 0 /\ ~mixed => \A d \in Devices : Hash[d] < clearing => entries[d] = NoConn

(* What has been in the pool since Range began is there, and Range has      *)
(* given it to fn in the shards it has been at.                             *)
Visited ==
    /\ steady \subseteq C!Present
    /\ ranging # 0 => \A d \in steady : Hash[d] < ranging => d \in seen

ConnInv == ConnTypes /\ Cleaned /\ Visited

(* Sets of devices are finite, and their sizes follow a put or a delete.    *)
LEMMA DeviceSets ==
    ASSUME NEW X \in SUBSET Devices
    PROVE  /\ IsFiniteSet(X) /\ Cardinality(X) \in Nat
           /\ \A d \in Devices \ X : Cardinality(X \cup {d}) = Cardinality(X) + 1
           /\ \A d \in X : Cardinality(X \ {d}) = Cardinality(X) - 1
<1>1. IsFiniteSet(X)
    BY ConnsAssumption, FS_Subset
<1> QED
    BY <1>1, FS_CardinalityType, FS_AddElement, FS_RemoveElement

LEMMA InitConns == Init => ConnInv
<1> SUFFICES ASSUME C!Init PROVE ConnInv
    BY DEF Init
<1>1. C!Present = {}
    BY DEF C!Init, C!Present
<1>2. Cardinality({}) = 0
    BY FS_EmptySet
<1>3. ConnTypes
    <2>1. 0 \in 0..ShardCount + 1 /\ 0 \in Int
        BY ConnsAssumption
    <2>2. /\ entries \in [Devices -> Conns \cup {NoConn}] /\ count \in [C!Shards -> Int]
          /\ seen \subseteq Devices /\ steady \subseteq Devices
        BY <2>1 DEF C!Init
    <2> QED
        BY <2>1, <2>2 DEF C!Init, ConnTypes
<1>4. Cleaned
    <2>1. \A s \in C!Shards : C!InShard(s) \cap C!Present = {}
        BY <1>1
    <2> QED
        BY <1>1, <1>2, <2>1 DEF C!Init, Cleaned
<1>5. Visited
    BY DEF C!Init, Visited
<1> QED
    BY <1>3, <1>4, <1>5 DEF ConnInv

(* One more or one less device in the pool, with the counters that follow.  *)
LEMMA CountsFollow ==
    ASSUME ConnInv, NEW d \in Devices, NEW n \in {1, -1},
           C!Present' = IF n = 1 THEN C!Present \cup {d} ELSE C!Present \ {d},
           d \in C!Present <=> n = -1,
           count' = [count EXCEPT ![Hash[d]] = @ + n], total' = total + n
    PROVE  /\ \A s \in C!Shards : count'[s] = Cardinality(C!InShard(s) \cap C!Present')
           /\ total = Cardinality(C!Present) => total' = Cardinality(C!Present')
           /\ count' \in [C!Shards -> Int] /\ total' \in Int
<1> DEFINE P0 == C!Present
           P1 == C!Present'
<1>1. P0 \subseteq Devices /\ Hash[d] \in C!Shards /\ d \in C!InShard(Hash[d])
    BY ConnsAssumption DEF C!Present, C!Shards, C!InShard
<1>2. Cardinality(P1) = Cardinality(P0) + n
    <2>1. CASE n = 1
        BY <1>1, <2>1, DeviceSets
    <2>2. CASE n = -1
        BY <1>1, <2>2, DeviceSets
    <2> QED
        BY <2>1, <2>2
<1>3. ASSUME NEW s \in C!Shards PROVE count'[s] = Cardinality(C!InShard(s) \cap P1)
    <2> DEFINE X == C!InShard(s) \cap P0
               Y == C!InShard(s) \cap P1
    <2>1. X \subseteq Devices /\ count[s] = Cardinality(X) /\ count \in [C!Shards -> Int]
        BY <1>1, <1>3 DEF ConnInv, Cleaned, ConnTypes
    <2>2. CASE s # Hash[d]
        <3>1. d \notin C!InShard(s)
            BY <2>2 DEF C!InShard
        <3>2. Y = X
            BY <3>1
        <3> QED
            BY <2>1, <2>2, <3>2
    <2>3. CASE s = Hash[d] /\ n = 1
        <3>1. Y = X \cup {d} /\ d \notin X
            BY <1>1, <2>3
        <3> HIDE DEF X, Y
        <3>2. Cardinality(Y) = Cardinality(X) + 1
            BY <2>1, <3>1, DeviceSets
        <3> QED
            BY <2>1, <2>3, <3>2 DEF Y
    <2>4. CASE s = Hash[d] /\ n = -1
        <3>1. Y = X \ {d} /\ d \in X
            BY <1>1, <2>4
        <3> HIDE DEF X, Y
        <3>2. Cardinality(Y) = Cardinality(X) - 1
            BY <2>1, <3>1, DeviceSets
        <3> QED
            BY <2>1, <2>4, <3>2 DEF Y
    <2> QED
        BY <2>2, <2>3, <2>4
<1>4. count' \in [C!Shards -> Int] /\ total' \in Int
    BY <1>1 DEF ConnInv, ConnTypes
<1> QED
    BY <1>2, <1>3, <1>4

LEMMA StepConns == ConnInv /\ (C!Next \/ UNCHANGED conns) => ConnInv'
<1> SUFFICES ASSUME ConnInv, C!Next \/ UNCHANGED conns PROVE ConnInv'
    OBVIOUS
<1> USE DEF ConnInv
<1>1. /\ C!Shards = 1..ShardCount /\ ShardCount \in Nat /\ NoConn \notin Conns
      /\ \A d \in Devices : Hash[d] \in 1..ShardCount
    BY ConnsAssumption DEF C!Shards
<1>2. ASSUME NEW c \in Conns, NEW d \in Devices, C!Put(c, d) PROVE ConnInv'
    <2>1. /\ entries' = [entries EXCEPT ![d] = c]
          /\ UNCHANGED <<clearing, ranging, seen, steady>>
        BY <1>2 DEF C!Put, C!rangeVars
    <2>2. C!Present' = C!Present \cup {d}
        BY <1>1, <2>1 DEF C!Present, ConnTypes
    <2>3. entries' \in [Devices -> Conns \cup {NoConn}]
        BY <2>1 DEF ConnTypes
    <2>4. Visited'
        BY <2>1, <2>2 DEF Visited
    <2>5. CASE entries[d] = NoConn
        <3>1. /\ count' = [count EXCEPT ![Hash[d]] = @ + 1] /\ total' = total + 1
              /\ mixed' = (mixed \/ clearing # 0)
            BY <1>2, <2>5 DEF C!Put
        <3>2. d \notin C!Present
            BY <2>5 DEF C!Present
        <3>3. /\ \A s \in C!Shards : count'[s] = Cardinality(C!InShard(s) \cap C!Present')
              /\ total = Cardinality(C!Present) => total' = Cardinality(C!Present')
              /\ count' \in [C!Shards -> Int] /\ total' \in Int
            <4>1. PICK n \in {1, -1} : n = 1
                OBVIOUS
            <4>2. /\ C!Present' = IF n = 1 THEN C!Present \cup {d} ELSE C!Present \ {d}
                  /\ d \in C!Present <=> n = -1
                BY <2>2, <3>2, <4>1
            <4>3. count' = [count EXCEPT ![Hash[d]] = @ + n] /\ total' = total + n
                BY <3>1, <4>1
            <4> HIDE DEF ConnInv
            <4> QED
                BY <4>2, <4>3, CountsFollow
        <3>4. ConnTypes'
            <4>1. mixed' \in BOOLEAN
                BY <3>1
            <4> QED
                BY <2>1, <2>3, <3>3, <4>1 DEF ConnTypes
        <3>5. ~mixed' => ~mixed /\ clearing = 0
            BY <3>1
        <3>6. Cleaned'
            BY <2>1, <3>3, <3>5 DEF Cleaned
        <3> QED
            BY <2>4, <3>4, <3>6
    <2>6. CASE entries[d] # NoConn
        <3>1. UNCHANGED <<count, total, mixed>>
            BY <1>2, <2>6 DEF C!Put
        <3>2. C!Present' = C!Present
            BY <2>2, <2>6 DEF C!Present
        <3>3. \A e \in Devices : entries[e] = NoConn => entries'[e] = NoConn
            BY <2>1, <2>6 DEF ConnTypes
        <3>4. ConnTypes'
            BY <2>1, <2>3, <3>1 DEF ConnTypes
        <3>5. Cleaned'
            BY <2>1, <3>1, <3>2, <3>3 DEF Cleaned
        <3> QED
            BY <2>4, <3>4, <3>5
    <2> QED
        BY <2>5, <2>6
<1>3. ASSUME NEW d \in Devices, C!Delete(d) PROVE ConnInv'
    <2>1. /\ entries[d] # NoConn /\ entries' = [entries EXCEPT ![d] = NoConn]
          /\ count' = [count EXCEPT ![Hash[d]] = @ - 1] /\ total' = total - 1
          /\ mixed' = (mixed \/ clearing # 0)
          /\ steady' = steady \ {d}
          /\ UNCHANGED <<clearing, ranging, seen>>
        BY <1>3 DEF C!Delete, C!Get
    <2>2. C!Present' = C!Present \ {d} /\ d \in C!Present
        BY <2>1 DEF C!Present, ConnTypes
    <2>4. /\ \A s \in C!Shards : count'[s] = Cardinality(C!InShard(s) \cap C!Present')
          /\ total = Cardinality(C!Present) => total' = Cardinality(C!Present')
          /\ count' \in [C!Shards -> Int] /\ total' \in Int
        <3>1. PICK n \in {1, -1} : n = -1
            OBVIOUS
        <3>2. /\ C!Present' = IF n = 1 THEN C!Present \cup {d} ELSE C!Present \ {d}
              /\ d \in C!Present <=> n = -1
            BY <2>2, <3>1
        <3>3. count[Hash[d]] + n = count[Hash[d]] - 1 /\ total + n = total - 1
            BY <1>1, <3>1 DEF ConnTypes
        <3>4. count' = [count EXCEPT ![Hash[d]] = @ + n] /\ total' = total + n
            BY <2>1, <3>3
        <3> HIDE DEF ConnInv
        <3> QED
            BY <3>2, <3>4, CountsFollow
    <2>5. ConnTypes'
        <3>1. mixed' \in BOOLEAN
            BY <2>1
        <3>2. entries' \in [Devices -> Conns \cup {NoConn}]
            BY <2>1 DEF ConnTypes
        <3> QED
            BY <2>1, <2>4, <3>1, <3>2 DEF ConnTypes
    <2>6. ~mixed' => ~mixed /\ clearing = 0
        BY <2>1
    <2>7. Cleaned'
        BY <2>1, <2>4, <2>6 DEF Cleaned
    <2>8. Visited'
        BY <2>1, <2>2 DEF Visited
    <2> QED
        BY <2>5, <2>7, <2>8
<1>4. CASE C!ClearBegin
    <2>1. /\ clearing' = 1 /\ mixed' = FALSE
          /\ UNCHANGED <<entries, count, total, ranging, seen, steady>>
        BY <1>4 DEF C!ClearBegin, C!rangeVars
    <2>2. C!Present' = C!Present
        BY <2>1 DEF C!Present
    <2>3. 1 \in 0..ShardCount + 1 /\ \A d \in Devices : ~(Hash[d] < 1)
        BY <1>1
    <2>4. Cleaned'
        BY <2>1, <2>2, <2>3 DEF Cleaned
    <2> QED
        BY <2>1, <2>2, <2>3, <2>4 DEF ConnTypes, Visited
<1>5. CASE C!ClearShard
    <2>1. /\ clearing \in 1..ShardCount /\ clearing' = clearing + 1
          /\ entries' = [d \in Devices |-> IF Hash[d] = clearing THEN NoConn ELSE entries[d]]
          /\ count' = [count EXCEPT ![clearing] = 0]
          /\ steady' = steady \ C!InShard(clearing)
          /\ UNCHANGED <<total, mixed, ranging, seen>>
        BY <1>1, <1>5 DEF C!ClearShard
    <2>2. C!Present' = C!Present \ C!InShard(clearing)
        BY <2>1 DEF C!Present, C!InShard
    <2>3. ConnTypes'
        <3>1. clearing + 1 \in 0..ShardCount + 1
            BY <1>1, <2>1
        <3>2. entries' \in [Devices -> Conns \cup {NoConn}] /\ count' \in [C!Shards -> Int]
            BY <1>1, <2>1 DEF ConnTypes
        <3> QED
            BY <2>1, <3>1, <3>2 DEF ConnTypes
    <2>4. ASSUME NEW s \in C!Shards
          PROVE  count'[s] = Cardinality(C!InShard(s) \cap C!Present')
        <3>1. CASE s = clearing
            <4>1. C!InShard(s) \cap C!Present' = {}
                BY <2>2, <3>1
            <4> QED
                BY <2>1, <3>1, <4>1, FS_EmptySet DEF ConnTypes
        <3>2. CASE s # clearing
            <4>1. C!InShard(s) \cap C!Present' = C!InShard(s) \cap C!Present
                BY <2>2, <3>2 DEF C!InShard
            <4> QED
                BY <2>1, <3>2, <4>1 DEF ConnTypes, Cleaned
        <3> QED
            BY <3>1, <3>2
    <2>5. \A d \in Devices : ~mixed /\ Hash[d] < clearing' => entries'[d] = NoConn
        <3> SUFFICES ASSUME NEW d \in Devices, ~mixed, Hash[d] < clearing'
                     PROVE  entries'[d] = NoConn
            OBVIOUS
        <3>1. Hash[d] = clearing \/ Hash[d] < clearing
            BY <1>1, <2>1
        <3> QED
            BY <2>1, <3>1 DEF Cleaned
    <2>6. Cleaned'
        BY <1>1, <2>1, <2>4, <2>5 DEF Cleaned
    <2>7. Visited'
        BY <2>1, <2>2 DEF Visited
    <2> QED
        BY <2>3, <2>6, <2>7
<1>6. CASE C!ClearTotal
    <2>1. /\ clearing = ShardCount + 1 /\ clearing' = 0 /\ total' = 0
          /\ UNCHANGED <<entries, count, mixed, ranging, seen, steady>>
        BY <1>6 DEF C!ClearTotal, C!rangeVars
    <2>2. C!Present' = C!Present
        BY <2>1 DEF C!Present
    <2>3. ~mixed => C!Present = {}
        BY <1>1, <2>1 DEF Cleaned, C!Present
    <2>4. Cleaned'
        BY <2>1, <2>2, <2>3, FS_EmptySet DEF Cleaned
    <2> QED
        BY <1>1, <2>1, <2>2, <2>4 DEF ConnTypes, Visited
<1>7. CASE C!RangeBegin
    <2>1. /\ ranging' = 1 /\ seen' = {} /\ steady' = C!Present
          /\ UNCHANGED <<entries, count, total, clearing, mixed>>
        BY <1>7 DEF C!RangeBegin
    <2>2. C!Present' = C!Present /\ C!Present \subseteq Devices
        BY <2>1 DEF C!Present
    <2>3. Visited'
        BY <1>1, <2>1, <2>2 DEF Visited
    <2> QED
        BY <1>1, <2>1, <2>2, <2>3 DEF ConnTypes, Cleaned
<1>8. CASE C!RangeShard
    <2>1. /\ ranging \in 1..ShardCount /\ ranging' = ranging + 1
          /\ seen' = seen \cup (C!InShard(ranging) \cap C!Present)
          /\ UNCHANGED <<entries, count, total, clearing, mixed, steady>>
        BY <1>1, <1>8 DEF C!RangeShard
    <2>2. C!Present' = C!Present /\ C!Present \subseteq Devices
        BY <2>1 DEF C!Present
    <2>3. Visited'
        <3> SUFFICES ASSUME NEW d \in steady, Hash[d] < ranging + 1 PROVE d \in seen'
            BY <2>1, <2>2 DEF Visited
        <3>1. d \in Devices /\ d \in C!Present
            BY DEF Visited, ConnTypes
        <3>2. Hash[d] = ranging \/ Hash[d] < ranging
            BY <1>1, <2>1, <3>1
        <3> QED
            BY <2>1, <3>1, <3>2 DEF Visited, C!InShard
    <2>4. ranging + 1 \in 0..ShardCount + 1
        BY <1>1, <2>1
    <2>5. seen' \subseteq Devices
        BY <2>1, <2>2 DEF ConnTypes
    <2> QED
        BY <2>1, <2>2, <2>3, <2>4, <2>5 DEF ConnTypes, Cleaned
<1>9. CASE C!RangeEnd
    <2>1. 0 \in 0..ShardCount + 1
        BY <1>1
    <2> QED
        BY <1>9, <2>1 DEF C!RangeEnd, ConnTypes, Cleaned, Visited, C!Present
<1>10. CASE UNCHANGED conns
    <2>1. UNCHANGED <<entries, count, total, clearing, mixed, ranging, seen, steady>>
        BY <1>10 DEF conns
    <2>2. C!Present' = C!Present
        BY <2>1 DEF C!Present
    <2> QED
        BY <2>1, <2>2 DEF ConnTypes, Cleaned, Visited
<1> QED
    BY <1>2, <1>3, <1>4, <1>5, <1>6, <1>7, <1>8, <1>9, <1>10 DEF C!Next

LEMMA ConnInvariance == Spec => []ConnInv
<1>1. Init => ConnInv
    BY InitConns
<1>2. ConnInv /\ [Next]_vars => ConnInv'
    BY StepConns, StepOf
<1> QED
    BY <1>1, <1>2, PTL DEF Spec

(* The counts of the shards are the numbers of their entries, and after a   *)
(* Clear nobody came between so is the total.                               *)
THEOREM TotalExactHolds == Spec => []TotalExact
<1>1. \A X : C!Cardinality(X) = Cardinality(X)
    BY DEF C!Cardinality, Cardinality
<1>2. ConnInv => TotalExact
    BY <1>1 DEF ConnInv, ConnTypes, Cleaned, TotalExact, C!TotalExact, C!Size
<1> QED
    BY <1>2, ConnInvariance, PTL

(* Range gives fn every device that is in the pool all the time.            *)
THEOREM RangeSeesHolds == Spec => []RangeSees
<1>1. ConnInv => RangeSees
    <2> SUFFICES ASSUME ConnInv, ranging = ShardCount + 1 PROVE steady \subseteq seen
        BY DEF RangeSees, C!RangeSees
    <2>1. \A d \in steady : Hash[d] < ranging /\ ranging # 0
        BY ConnsAssumption DEF ConnInv, ConnTypes
    <2> QED
        BY <2>1 DEF ConnInv, Visited
<1> QED
    BY <1>1, ConnInvariance, PTL

-----------------------------------------------------------------------------
(* The worker pool of core                                                  *)

WorkerTypes ==
    /\ spc \in [Tasks -> {"idle", "adjust", "add", "append", "ok", "refused", "panic"}]
    /\ grow \in [Tasks -> [left : Nat, len : Nat]]
    /\ listed \in Nat /\ idle \in Nat /\ cancelled \in BOOLEAN /\ crowded \in BOOLEAN
    /\ grown \subseteq Tasks
    /\ IsFiniteSet(grown) /\ IsFiniteSet(made) /\ IsFiniteSet(busy)

Half == MaxWorkers \div 2
Begun == MinWorkers + Cardinality(made)

(* A Submit that grows the pool adds half of maxWorkers at most, and has    *)
(* not yet added the workers it has left to add.                            *)
Shares ==
    /\ made \subseteq grown \X (1..Half)
    /\ \A t \in Tasks :
        /\ spc[t] \in {"idle", "adjust"} => t \notin grown
        /\ W!Growing(t) => /\ t \in grown /\ grow[t].left <= Half
                           /\ \A j \in 1..grow[t].left : <<t, j>> \notin made
        /\ spc[t] = "append" => grow[t].left > 0

(* An append may lose workers, never invent one.                            *)
Lossy == listed <= Begun /\ \A t \in Tasks : spc[t] = "append" => grow[t].len <= Begun

(* Once Stop has cancelled, who adds workers is late; once Stop has         *)
(* returned, those are the only ones.                                       *)
LateMade == {m \in made : m[1] \in late}
LeftOver ==
    /\ stop # "none" => cancelled
    /\ cancelled => \A t \in Tasks : W!Growing(t) => t \in late
    /\ stop = "returned" => idle + Cardinality(busy) <= Cardinality(LateMade)

(* Until two Submits that grow the pool overlap, the slice lists the        *)
(* workers, and the only loop ends where the maximum is.                    *)
Alone ==
    /\ listed = Begun /\ (Begun <= MaxWorkers \/ Begun = MinWorkers)
    /\ \A t \in Tasks : W!Growing(t) =>
        /\ \A u \in Tasks : W!Growing(u) => u = t
        /\ grow[t].left + listed <= MaxWorkers
        /\ spc[t] = "append" => grow[t].len = listed

WorkersInv == WorkerTypes /\ Shares /\ Lossy /\ LeftOver /\ (~crowded => Alone)

LEMMA WorkerSizes == (\A X : W!Cardinality(X) = Cardinality(X)) /\ W!Started = Begun
<1>1. \A X : W!Cardinality(X) = Cardinality(X)
    BY DEF W!Cardinality, Cardinality
<1> QED
    BY <1>1 DEF W!Started, Begun

LEMMA HalfNat == Half \in Nat
    BY WorkersAssumption DEF Half

LEMMA BegunNat == ASSUME WorkerTypes PROVE Begun \in Nat /\ Cardinality(made) \in Nat
    BY FS_CardinalityType, WorkersAssumption DEF WorkerTypes, Begun

LEMMA InitWorkers == Init => WorkersInv
<1> SUFFICES ASSUME W!Init PROVE WorkersInv
    BY DEF Init
<1> USE WorkersAssumption
<1>1. made = {} /\ grown = {} /\ busy = {} /\ IsFiniteSet({}) /\ Cardinality({}) = 0
    BY FS_EmptySet DEF W!Init
<1>2. WorkerTypes
    BY <1>1 DEF W!Init, WorkerTypes
<1>3. \A t \in Tasks : spc[t] = "idle" /\ ~W!Growing(t)
    BY DEF W!Init, W!Growing
<1>4. Begun = MinWorkers
    BY <1>1 DEF Begun
<1>5. Shares /\ Lossy /\ LeftOver /\ Alone
    BY <1>1, <1>3, <1>4 DEF W!Init, Shares, Lossy, LeftOver, Alone
<1> QED
    BY <1>2, <1>5 DEF WorkersInv

(* A step that starts no worker and leaves the loops of adjustWorkers as    *)
(* they are, or ends some.                                                  *)
LEMMA LoopsAlone ==
    ASSUME WorkersInv, WorkerTypes', LeftOver',
           UNCHANGED <<grow, listed, made, grown, crowded>>,
           \A t \in Tasks : W!Growing(t)' => W!Growing(t),
           \A t \in Tasks : spc'[t] = spc[t] \/ spc'[t] \in {"ok", "refused", "panic"}
                                \/ (spc[t] = "idle" /\ spc'[t] = "adjust")
    PROVE  WorkersInv'
<1>0. Shares /\ Lossy /\ (~crowded => Alone) /\ Begun' = Begun
    BY DEF WorkersInv, Begun
<1>1. \A t \in Tasks : /\ spc'[t] = "append" => spc[t] = "append"
                       /\ spc'[t] \in {"idle", "adjust"} => spc[t] \in {"idle", "adjust"}
    OBVIOUS
<1>2. Shares'
    BY <1>0, <1>1 DEF Shares
<1>3. Lossy'
    BY <1>0, <1>1 DEF Lossy
<1>4. ~crowded => Alone'
    BY <1>0, <1>1 DEF Alone
<1> QED
    BY <1>2, <1>3, <1>4 DEF WorkersInv

LEMMA SubmitWorkers ==
    ASSUME WorkersInv, NEW t \in Tasks, W!Submit(t) PROVE WorkersInv'
<1>0. WorkerTypes /\ LeftOver
    BY DEF WorkersInv
<1>1. /\ UNCHANGED <<cancelled, grow, listed, made, idle, busy, stop, grown, crowded, late>>
      /\ spc[t] = "idle"
      /\ \E to \in {"adjust", "refused", "panic"} : spc' = [spc EXCEPT ![t] = to]
    BY DEF W!Submit, W!Sent, W!Refused, W!SendPanics, W!Go, W!workerVars, W!poolVars, W!growthVars
<1>2. WorkerTypes'
    BY <1>0, <1>1 DEF WorkerTypes
<1>3. \A u \in Tasks : W!Growing(u)' => W!Growing(u)
    BY <1>0, <1>1 DEF WorkerTypes, W!Growing
<1>4. \A u \in Tasks : spc'[u] = spc[u] \/ spc'[u] \in {"ok", "refused", "panic"}
                          \/ (spc[u] = "idle" /\ spc'[u] = "adjust")
    BY <1>0, <1>1 DEF WorkerTypes
<1>5. LateMade' = LateMade
    BY <1>1 DEF LateMade
<1>6. LeftOver'
    BY <1>0, <1>1, <1>3, <1>5 DEF LeftOver
<1> QED
    BY <1>1, <1>2, <1>3, <1>4, <1>6, LoopsAlone

LEMMA NewWorkersHalf ==
    ASSUME listed \in Nat, listed < MaxWorkers
    PROVE  /\ W!NewWorkers(listed) - listed \in Nat
           /\ W!NewWorkers(listed) - listed <= Half
           /\ (W!NewWorkers(listed) - listed) + listed <= MaxWorkers
<1> USE WorkersAssumption DEF W!NewWorkers, Half
<1>1. CASE 2 * listed < MaxWorkers
    BY <1>1
<1>2. CASE ~(2 * listed < MaxWorkers)
    BY <1>2
<1> QED
    BY <1>1, <1>2

LEMMA AdjustWorkersKeeps ==
    ASSUME WorkersInv, NEW t \in Tasks, W!AdjustWorkers(t) PROVE WorkersInv'
<1> USE WorkersAssumption
<1>0. WorkerTypes /\ Shares /\ Lossy /\ LeftOver /\ (~crowded => Alone)
    BY DEF WorkersInv
<1>1. spc[t] = "adjust" /\ UNCHANGED <<cancelled, listed, made, idle, busy, stop>>
    BY DEF W!AdjustWorkers, W!poolVars, W!workerVars
<1>2. \/ /\ spc' = [spc EXCEPT ![t] = "ok"]
         /\ UNCHANGED <<grow, grown, crowded, late>>
      \/ /\ spc' = [spc EXCEPT ![t] = "add"] /\ listed < MaxWorkers
         /\ grow' = [grow EXCEPT ![t].left = W!NewWorkers(listed) - listed]
         /\ grown' = grown \cup {t}
         /\ crowded' = (crowded \/ \E u \in Tasks : W!Growing(u))
         /\ late' = late \cup (IF cancelled THEN {t} ELSE {})
    BY DEF W!AdjustWorkers, W!Go, W!growthVars
<1>3. CASE spc' = [spc EXCEPT ![t] = "ok"] /\ UNCHANGED <<grow, grown, crowded, late>>
    <2>1. WorkerTypes'
        BY <1>0, <1>1, <1>3 DEF WorkerTypes
    <2>2. \A u \in Tasks : /\ W!Growing(u)' => W!Growing(u)
                           /\ spc'[u] = spc[u] \/ spc'[u] \in {"ok", "refused", "panic"}
        BY <1>0, <1>3 DEF WorkerTypes, W!Growing
    <2>3. LateMade' = LateMade
        BY <1>1, <1>3 DEF LateMade
    <2>4. LeftOver'
        BY <1>0, <1>1, <1>3, <2>2, <2>3 DEF LeftOver
    <2> QED
        BY <1>1, <1>3, <2>1, <2>2, <2>4, LoopsAlone
<1>4. CASE /\ spc' = [spc EXCEPT ![t] = "add"] /\ listed < MaxWorkers
           /\ grow' = [grow EXCEPT ![t].left = W!NewWorkers(listed) - listed]
           /\ grown' = grown \cup {t}
           /\ crowded' = (crowded \/ \E u \in Tasks : W!Growing(u))
           /\ late' = late \cup (IF cancelled THEN {t} ELSE {})
    <2> DEFINE n == W!NewWorkers(listed) - listed
    <2>1. n \in Nat /\ n <= Half /\ n + listed <= MaxWorkers
        BY <1>0, <1>4, NewWorkersHalf DEF WorkerTypes
    <2>2. /\ spc'[t] = "add" /\ W!Growing(t)' /\ grow'[t].left = n
          /\ \A u \in Tasks : u # t => /\ spc'[u] = spc[u] /\ grow'[u] = grow[u]
                                       /\ W!Growing(u)' <=> W!Growing(u)
        BY <1>0, <1>4 DEF WorkerTypes, W!Growing
    <2>3. Begun' = Begun
        BY <1>1 DEF Begun
    <2>4. WorkerTypes'
        <3>1. spc' \in [Tasks -> {"idle", "adjust", "add", "append", "ok", "refused", "panic"}]
            BY <1>0, <1>4 DEF WorkerTypes
        <3>2. grow' \in [Tasks -> [left : Nat, len : Nat]]
            BY <1>0, <1>4, <2>1 DEF WorkerTypes
        <3>3. IsFiniteSet(grown') /\ grown' \subseteq Tasks
            BY <1>0, <1>4, FS_AddElement DEF WorkerTypes
        <3>4. crowded' \in BOOLEAN
            BY <1>0, <1>4 DEF WorkerTypes
        <3> QED
            BY <1>0, <1>1, <3>1, <3>2, <3>3, <3>4 DEF WorkerTypes
    <2> HIDE DEF n
    <2>5. t \notin grown
        BY <1>0, <1>1 DEF Shares
    <2>6. \A j : <<t, j>> \notin made
        <3> SUFFICES ASSUME NEW j, <<t, j>> \in made PROVE FALSE
            OBVIOUS
        <3>1. <<t, j>> \in grown \X (1..Half)
            BY <1>0 DEF Shares
        <3> QED
            BY <3>1, <2>5
    <2>7. Shares'
        <3>1. made' \subseteq grown' \X (1..Half)
            BY <1>0, <1>1, <1>4 DEF Shares
        <3>2. ASSUME NEW u \in Tasks, u # t
              PROVE  /\ spc'[u] \in {"idle", "adjust"} => u \notin grown'
                     /\ W!Growing(u)' =>
                          /\ u \in grown' /\ grow'[u].left <= Half
                          /\ \A j \in 1..grow'[u].left : <<u, j>> \notin made'
                     /\ spc'[u] = "append" => grow'[u].left > 0
            BY <1>0, <1>1, <1>4, <2>2, <3>2 DEF Shares
        <3>3. /\ spc'[t] \notin {"idle", "adjust"} /\ spc'[t] # "append"
              /\ t \in grown' /\ grow'[t].left <= Half
              /\ \A j \in 1..grow'[t].left : <<t, j>> \notin made'
            BY <1>1, <1>4, <2>1, <2>2, <2>6
        <3>4. \A u \in Tasks :
                /\ spc'[u] \in {"idle", "adjust"} => u \notin grown'
                /\ W!Growing(u)' =>
                     /\ u \in grown' /\ grow'[u].left <= Half
                     /\ \A j \in 1..grow'[u].left : <<u, j>> \notin made'
                /\ spc'[u] = "append" => grow'[u].left > 0
            BY <3>2, <3>3
        <3> QED
            BY <3>1, <3>4 DEF Shares
    <2>8. Lossy'
        BY <1>0, <1>1, <2>2, <2>3 DEF Lossy
    <2>9. LeftOver'
        <3>1. LateMade' = LateMade
            <4>1. \A m \in made : m[1] # t
                <5> SUFFICES ASSUME NEW m \in made PROVE m[1] # t
                    OBVIOUS
                <5>1. m \in grown \X (1..Half)
                    BY <1>0 DEF Shares
                <5> QED
                    BY <5>1, <2>5
            <4> QED
                BY <4>1, <1>1, <1>4 DEF LateMade
        <3>2. cancelled' => \A u \in Tasks : W!Growing(u)' => u \in late'
            BY <1>0, <1>1, <1>4, <2>2 DEF LeftOver
        <3> QED
            BY <1>0, <1>1, <3>1, <3>2 DEF LeftOver
    <2>10. ASSUME ~crowded' PROVE Alone'
        <3>1. ~crowded /\ \A u \in Tasks : ~W!Growing(u)
            BY <1>0, <1>4, <2>10 DEF WorkerTypes
        <3>2. listed' = Begun' /\ (Begun' <= MaxWorkers \/ Begun' = MinWorkers)
            BY <1>0, <1>1, <2>3, <3>1 DEF Alone
        <3>3. \A u \in Tasks : W!Growing(u)' => u = t
            BY <2>2, <3>1
        <3>4. grow'[t].left + listed' <= MaxWorkers /\ spc'[t] # "append"
            BY <1>1, <2>1, <2>2
        <3> QED
            BY <3>2, <3>3, <3>4 DEF Alone
    <2> QED
        BY <2>4, <2>7, <2>8, <2>9, <2>10 DEF WorkersInv
<1> QED
    BY <1>2, <1>3, <1>4

LEMMA AddReadKeeps ==
    ASSUME WorkersInv, NEW t \in Tasks, W!AddRead(t) PROVE WorkersInv'
<1>0. WorkerTypes /\ Shares /\ Lossy /\ LeftOver /\ (~crowded => Alone)
    BY DEF WorkersInv
<1>1. /\ spc[t] = "add"
      /\ UNCHANGED <<cancelled, listed, made, idle, busy, stop, grown, crowded, late>>
    BY DEF W!AddRead, W!poolVars, W!workerVars, W!growthVars
<1>2. LateMade' = LateMade /\ Begun' = Begun
    BY <1>1 DEF LateMade, Begun
<1>3. CASE grow[t].left > 0
    <2>1. spc' = [spc EXCEPT ![t] = "append"] /\ grow' = [grow EXCEPT ![t].len = listed]
        BY <1>3 DEF W!AddRead, W!Go
    <2>2. WorkerTypes'
        BY <1>0, <1>1, <2>1 DEF WorkerTypes
    <2>3. /\ spc'[t] = "append" /\ grow'[t].len = listed
          /\ \A u \in Tasks : /\ W!Growing(u)' <=> W!Growing(u)
                              /\ grow'[u].left = grow[u].left
                              /\ u # t => spc'[u] = spc[u] /\ grow'[u] = grow[u]
        BY <1>0, <1>1, <2>1 DEF WorkerTypes, W!Growing
    <2>4. Shares'
        <3>1. \A u \in Tasks :
                /\ spc'[u] \in {"idle", "adjust"} => spc[u] \in {"idle", "adjust"}
                /\ spc'[u] = "append" => u = t \/ spc[u] = "append"
            BY <2>3
        <3> QED
            BY <1>0, <1>1, <1>3, <2>3, <3>1 DEF Shares
    <2>5. Lossy'
        BY <1>0, <1>1, <1>2, <2>3 DEF Lossy
    <2>6. LeftOver'
        BY <1>0, <1>1, <1>2, <2>3 DEF LeftOver
    <2>7. ASSUME ~crowded PROVE Alone'
        BY <1>0, <1>1, <1>2, <2>3, <2>7 DEF Alone
    <2> QED
        BY <1>1, <2>2, <2>4, <2>5, <2>6, <2>7 DEF WorkersInv
<1>4. CASE ~(grow[t].left > 0)
    <2>1. spc' = [spc EXCEPT ![t] = "ok"] /\ grow' = grow
        BY <1>4 DEF W!AddRead, W!Go
    <2>2. WorkerTypes'
        BY <1>0, <1>1, <2>1 DEF WorkerTypes
    <2>3. \A u \in Tasks : /\ W!Growing(u)' => W!Growing(u)
                           /\ spc'[u] = spc[u] \/ spc'[u] \in {"ok", "refused", "panic"}
        BY <1>0, <2>1 DEF WorkerTypes, W!Growing
    <2>4. LeftOver'
        BY <1>0, <1>1, <1>2, <2>3 DEF LeftOver
    <2> QED
        BY <1>1, <2>1, <2>2, <2>3, <2>4, LoopsAlone
<1> QED
    BY <1>3, <1>4

LEMMA AddWriteKeeps ==
    ASSUME WorkersInv, NEW t \in Tasks, W!AddWrite(t) PROVE WorkersInv'
<1> USE WorkersAssumption, HalfNat
<1>0. WorkerTypes /\ Shares /\ Lossy /\ LeftOver /\ (~crowded => Alone)
    BY DEF WorkersInv
<1> DEFINE x == <<t, grow[t].left>>
<1>1. /\ spc[t] = "append" /\ spc' = [spc EXCEPT ![t] = "add"]
      /\ listed' = grow[t].len + 1 /\ idle' = idle + 1
      /\ grow' = [grow EXCEPT ![t].left = @ - 1]
      /\ UNCHANGED <<cancelled, busy, stop, grown, crowded, late>>
    BY DEF W!AddWrite, W!Go, W!poolVars, W!growthVars
<1>2. made' = made \cup {x}
    BY DEF W!AddWrite
<1>3. grow[t] \in [left : Nat, len : Nat] /\ grow[t].left \in Nat /\ grow[t].len \in Nat
    BY <1>0 DEF WorkerTypes
<1>4. /\ W!Growing(t) /\ t \in grown /\ grow[t].left \in 1..Half
      /\ grow[t].left \in 1..grow[t].left
    BY <1>0, <1>1, <1>3 DEF Shares, W!Growing
<1>5. x \notin made /\ x \in grown \X (1..Half)
    BY <1>0, <1>4 DEF Shares
<1>6. IsFiniteSet(made') /\ Cardinality(made') = Cardinality(made) + 1
    <2>1. IsFiniteSet(made)
        BY <1>0 DEF WorkerTypes
    <2> HIDE DEF x
    <2> QED
        BY <1>2, <1>5, <2>1, FS_AddElement
<1>7. Begun \in Nat /\ Begun' = Begun + 1
    BY <1>0, <1>6, BegunNat DEF Begun
<1>8. /\ spc'[t] = "add" /\ grow'[t].left = grow[t].left - 1 /\ grow'[t].len = grow[t].len
      /\ \A u \in Tasks : /\ W!Growing(u)' <=> W!Growing(u)
                          /\ u # t => spc'[u] = spc[u] /\ grow'[u] = grow[u]
    BY <1>0, <1>1 DEF WorkerTypes, W!Growing
<1>9. WorkerTypes'
    <2>1. grow' \in [Tasks -> [left : Nat, len : Nat]]
        BY <1>0, <1>1, <1>3, <1>4 DEF WorkerTypes
    <2>2. spc' \in [Tasks -> {"idle", "adjust", "add", "append", "ok", "refused", "panic"}]
        BY <1>0, <1>1 DEF WorkerTypes
    <2> QED
        BY <1>0, <1>1, <1>3, <1>6, <2>1, <2>2 DEF WorkerTypes
<1>10. Shares'
    <2>1. made' \subseteq grown' \X (1..Half)
        BY <1>0, <1>1, <1>2, <1>5 DEF Shares
    <2>2. ASSUME NEW u \in Tasks, u # t
          PROVE  /\ spc'[u] \in {"idle", "adjust"} => u \notin grown'
                 /\ W!Growing(u)' =>
                      /\ u \in grown' /\ grow'[u].left <= Half
                      /\ \A j \in 1..grow'[u].left : <<u, j>> \notin made'
                 /\ spc'[u] = "append" => grow'[u].left > 0
        <3>1. \A j : <<u, j>> # x
            BY <2>2
        <3> QED
            BY <1>0, <1>1, <1>2, <1>8, <2>2, <3>1 DEF Shares
    <2>3. /\ spc'[t] \notin {"idle", "adjust"} /\ spc'[t] # "append"
          /\ t \in grown' /\ grow'[t].left <= Half
          /\ \A j \in 1..grow'[t].left : <<t, j>> \notin made'
        <3>1. grow[t].left - 1 <= Half
            BY <1>3, <1>4
        <3>2. ASSUME NEW j \in 1..(grow[t].left - 1) PROVE <<t, j>> \notin made'
            <4>1. j \in 1..grow[t].left /\ j # grow[t].left
                BY <1>3, <1>4
            <4>2. <<t, j>> \notin made
                BY <1>0, <1>4, <4>1 DEF Shares
            <4> QED
                BY <1>2, <4>1, <4>2
        <3> QED
            BY <1>1, <1>4, <1>8, <3>1, <3>2
    <2>4. \A u \in Tasks :
            /\ spc'[u] \in {"idle", "adjust"} => u \notin grown'
            /\ W!Growing(u)' =>
                 /\ u \in grown' /\ grow'[u].left <= Half
                 /\ \A j \in 1..grow'[u].left : <<u, j>> \notin made'
            /\ spc'[u] = "append" => grow'[u].left > 0
        BY <2>2, <2>3
    <2> QED
        BY <2>1, <2>4 DEF Shares
<1>11. Lossy'
    <2>1. grow[t].len <= Begun
        BY <1>0, <1>1 DEF Lossy
    <2>2. listed' <= Begun'
        BY <1>1, <1>3, <1>7, <2>1
    <2>3. ASSUME NEW u \in Tasks, spc'[u] = "append" PROVE grow'[u].len <= Begun'
        <3>1. u # t /\ spc[u] = "append" /\ grow'[u] = grow[u]
            BY <1>8, <2>3
        <3>2. grow[u].len <= Begun /\ grow[u].len \in Nat
            BY <1>0, <3>1 DEF Lossy, WorkerTypes
        <3> QED
            BY <1>7, <3>1, <3>2
    <2> QED
        BY <2>2, <2>3 DEF Lossy
<1>12. LeftOver'
    <2>1. ASSUME stop = "returned" PROVE idle' + Cardinality(busy') <= Cardinality(LateMade')
        <3>1. t \in late
            BY <1>0, <1>4, <2>1 DEF LeftOver
        <3>2. LateMade' = LateMade \cup {x} /\ x \notin LateMade
            BY <1>1, <1>2, <1>5, <3>1 DEF LateMade
        <3>3. IsFiniteSet(LateMade)
            BY <1>0, FS_Subset DEF LateMade, WorkerTypes
        <3>4. Cardinality(LateMade') = Cardinality(LateMade) + 1
            <4> HIDE DEF x
            <4> QED
                BY <3>2, <3>3, FS_AddElement
        <3>5. Cardinality(LateMade) \in Nat /\ Cardinality(busy) \in Nat /\ idle \in Nat
            BY <1>0, <3>3, FS_CardinalityType DEF WorkerTypes
        <3>6. idle + Cardinality(busy) <= Cardinality(LateMade)
            BY <1>0, <2>1 DEF LeftOver
        <3> QED
            BY <1>1, <3>4, <3>5, <3>6
    <2> QED
        BY <1>0, <1>1, <1>8, <2>1 DEF LeftOver
<1>13. ASSUME ~crowded PROVE Alone'
    <2>1. /\ listed = Begun /\ grow[t].len = listed
          /\ \A u \in Tasks : W!Growing(u) => u = t
          /\ grow[t].left + listed <= MaxWorkers
        BY <1>0, <1>1, <1>4, <1>13 DEF Alone
    <2>2. listed' = Begun' /\ Begun' <= MaxWorkers
        BY <1>1, <1>3, <1>4, <1>7, <2>1
    <2>3. grow'[t].left + listed' <= MaxWorkers
        BY <1>1, <1>3, <1>7, <1>8, <2>1
    <2> QED
        BY <1>8, <2>1, <2>2, <2>3 DEF Alone
<1> QED
    BY <1>1, <1>9, <1>10, <1>11, <1>12, <1>13 DEF WorkersInv

(* No step of a worker makes the pool larger.                               *)
LEMMA WorkerKeeps ==
    ASSUME WorkersInv, W!WorkerTake \/ W!WorkerReturn \/ \E t \in Tasks : W!WorkerDone(t)
    PROVE  WorkersInv'
<1>0. WorkerTypes /\ LeftOver
    BY DEF WorkersInv
<1>1. UNCHANGED <<spc, grow, listed, made, cancelled, stop, grown, crowded, late>>
    BY DEF W!WorkerTake, W!WorkerReturn, W!WorkerDone, W!submitVars, W!poolVars, W!growthVars
<1>2. Cardinality(busy) \in Nat /\ idle \in Nat /\ IsFiniteSet(busy)
    BY <1>0, FS_CardinalityType DEF WorkerTypes
<1>3. /\ idle' \in Nat /\ IsFiniteSet(busy') /\ Cardinality(busy') \in Nat
      /\ idle' + Cardinality(busy') <= idle + Cardinality(busy)
    <2>1. CASE W!WorkerTake
        <3>1. PICK x : idle > 0 /\ idle' = idle - 1 /\ busy' = busy \cup {x}
            BY <2>1 DEF W!WorkerTake
        <3>2. IsFiniteSet(busy') /\ Cardinality(busy') <= Cardinality(busy) + 1
            BY <1>2, <3>1, FS_AddElement
        <3> QED
            BY <1>2, <3>1, <3>2, FS_CardinalityType
    <2>2. CASE W!WorkerReturn
        BY <1>2, <2>2 DEF W!WorkerReturn
    <2>3. CASE \E t \in Tasks : W!WorkerDone(t)
        <3>1. PICK t : t \in busy /\ idle' = idle + 1 /\ busy' = busy \ {t}
            BY <2>3 DEF W!WorkerDone
        <3>2. IsFiniteSet(busy') /\ Cardinality(busy') = Cardinality(busy) - 1
            BY <1>2, <3>1, FS_RemoveElement
        <3> QED
            BY <1>2, <3>1, <3>2, FS_CardinalityType
    <2> QED
        BY <2>1, <2>2, <2>3
<1>4. WorkerTypes'
    BY <1>0, <1>1, <1>3 DEF WorkerTypes
<1>5. LeftOver'
    <2>1. IsFiniteSet(LateMade) /\ LateMade' = LateMade
        BY <1>0, <1>1, FS_Subset DEF LateMade, WorkerTypes
    <2>2. Cardinality(LateMade) \in Nat
        BY <2>1, FS_CardinalityType
    <2>3. \A u \in Tasks : W!Growing(u)' = W!Growing(u)
        BY <1>1 DEF W!Growing
    <2> QED
        BY <1>0, <1>1, <1>2, <1>3, <2>1, <2>2, <2>3 DEF LeftOver
<1>6. \A u \in Tasks : (W!Growing(u)' => W!Growing(u)) /\ spc'[u] = spc[u]
    BY <1>1 DEF W!Growing
<1> QED
    BY <1>1, <1>4, <1>5, <1>6, LoopsAlone

LEMMA StopKeeps ==
    ASSUME WorkersInv, W!StopCancel \/ W!StopClose \/ W!StopWait \/ UNCHANGED workers
    PROVE  WorkersInv'
<1>0. WorkerTypes /\ LeftOver
    BY DEF WorkersInv
<1>1. /\ UNCHANGED <<spc, grow, listed, made, idle, busy, grown, crowded>>
      /\ \/ stop' = "close" /\ cancelled' = TRUE /\ late' = {t \in Tasks : W!Growing(t)}
         \/ stop' = "wait" /\ stop # "none" /\ cancelled' = cancelled /\ late' = late
         \/ /\ stop' = "returned" /\ stop # "none" /\ idle = 0 /\ busy = {}
            /\ cancelled' = cancelled /\ late' = late
         \/ UNCHANGED <<stop, cancelled, late>>
    BY DEF W!StopCancel, W!StopClose, W!StopWait, workers, W!submitVars, W!workerVars,
           W!poolVars, W!growthVars
<1>2. WorkerTypes'
    <2>1. cancelled' \in BOOLEAN
        BY <1>0, <1>1 DEF WorkerTypes
    <2> QED
        BY <1>0, <1>1, <2>1 DEF WorkerTypes
<1>3. \A u \in Tasks : (W!Growing(u)' <=> W!Growing(u)) /\ spc'[u] = spc[u]
    BY <1>1 DEF W!Growing
<1>4. LeftOver'
    <2>1. CASE stop' = "close" /\ cancelled' = TRUE /\ late' = {t \in Tasks : W!Growing(t)}
        BY <1>3, <2>1 DEF LeftOver
    <2>2. CASE UNCHANGED <<cancelled, late>> /\ stop' = "wait" /\ stop # "none"
        BY <1>0, <1>3, <2>2 DEF LeftOver
    <2>3. CASE /\ UNCHANGED <<cancelled, late>>
               /\ stop' = "returned" /\ stop # "none" /\ idle = 0 /\ busy = {}
        <3>1. IsFiniteSet(LateMade')
            BY <1>2, FS_Subset DEF LateMade, WorkerTypes
        <3>2. Cardinality(LateMade') \in Nat /\ idle' + Cardinality(busy') = 0
            BY <1>1, <2>3, <3>1, FS_CardinalityType, FS_EmptySet
        <3> QED
            BY <1>0, <1>3, <2>3, <3>2 DEF LeftOver
    <2>4. CASE UNCHANGED <<stop, cancelled, late>>
        <3>1. LateMade' = LateMade
            BY <1>1, <2>4 DEF LateMade
        <3> QED
            BY <1>0, <1>1, <1>3, <2>4, <3>1 DEF LeftOver
    <2> QED
        BY <1>1, <2>1, <2>2, <2>3, <2>4
<1> QED
    BY <1>1, <1>2, <1>3, <1>4, LoopsAlone

LEMMA StepWorkers == WorkersInv /\ (W!Next \/ UNCHANGED workers) => WorkersInv'
    BY SubmitWorkers, AdjustWorkersKeeps, AddReadKeeps, AddWriteKeeps, WorkerKeeps, StopKeeps
    DEF W!Next, W!SubmitAsync

(* However many Submits grow the pool at once, each adds half of maxWorkers *)
(* at most; as long as no two overlap, the maximum is kept and the slice    *)
(* lists the workers; those left after Stop were started by Submits that    *)
(* overlapped it.                                                           *)
THEOREM WorkersAccountedHolds == Spec => []WorkersAccounted
<1>1. Init => WorkersInv
    BY InitWorkers
<1>2. WorkersInv /\ [Next]_vars => WorkersInv'
    BY StepWorkers, StepOf
<1>3. WorkersInv => WorkersAccounted
    <2> SUFFICES ASSUME WorkersInv PROVE WorkersAccounted
        OBVIOUS
    <2>1. Begun <= MinWorkers + Cardinality(grown) * Half
        <3>1. IsFiniteSet(1..Half) /\ Cardinality(1..Half) = Half
            BY HalfNat, FS_Interval
        <3>2. /\ IsFiniteSet(grown \X (1..Half))
              /\ Cardinality(grown \X (1..Half)) = Cardinality(grown) * Half
            BY <3>1, FS_Product DEF WorkersInv, WorkerTypes
        <3>3. Cardinality(made) <= Cardinality(grown) * Half
            BY <3>2, FS_Subset DEF WorkersInv, Shares
        <3>4. Cardinality(grown) * Half \in Nat
            BY <3>2, FS_CardinalityType
        <3> HIDE DEF Half
        <3> QED
            BY <3>3, <3>4, BegunNat, WorkersAssumption DEF WorkersInv, Begun
    <2>2. ~crowded => listed = Begun /\ (Begun <= MaxWorkers \/ Begun = MinWorkers)
        BY DEF WorkersInv, Alone
    <2>3. listed <= Begun
        BY DEF WorkersInv, Lossy
    <2>4. stop = "returned" => idle + Cardinality(busy) <= Cardinality(LateMade)
        BY DEF WorkersInv, LeftOver
    <2> QED
        BY <2>1, <2>2, <2>3, <2>4, WorkerSizes
        DEF WorkersAccounted, W!WorkersAccounted, LateMade, Half
<1> QED
    BY <1>1, <1>2, <1>3, PTL DEF Spec

-----------------------------------------------------------------------------
(* The configuration                                                        *)

ConfigTypes ==
    /\ values = [k \in Keys |-> values[k]] /\ latest = [k \in Keys |-> latest[k]]
    /\ watchers \in [Keys -> Seq(Watchers)]
    /\ told = [w \in Watchers |-> told[w]]
    /\ got = [w \in Watchers |-> got[w]] /\ reread = [w \in Watchers |-> reread[w]]

(* A watcher has one key; only it is called for that key.                   *)
Owned ==
    /\ \A k, l \in Keys : \A w \in F!Watching(k) : w \in F!Watching(l) => k = l
    /\ \A n \in notes \cup running : n.k \in Keys /\ n.w \in F!Watching(n.k)
    /\ \A w \in due : \E k \in Keys : w \in F!Watching(k)

(* A watcher that has not raced has one goroutine at most, which has the    *)
(* value that is current, and has read it.                                  *)
OneNote ==
    \A n \in notes : n.w \notin raced =>
        n.v = values[n.k] /\ n.w \notin F!Running /\ \A m \in notes : m.w = n.w => m = n
OneRun ==
    \A n \in running : n.w \notin raced =>
        /\ n.v = values[n.k] /\ n.read = F!Getters(n.k)
        /\ n.w \notin F!Waiting /\ \A m \in running : m.w = n.w => m = n

(* The goroutine of the last Set has ended or is there.                     *)
Told ==
    \A k \in Keys : \A w \in F!Watching(k) \cap due :
        latest[k] \in told[w] \/ \E n \in notes \cup running : n.w = w /\ n.n = latest[k]

(* Of a guarded watcher one goroutine runs at a time, and one that runs     *)
(* when none waits has read what is current.                                *)
Serial ==
    /\ \A m, n \in running : m.w = n.w /\ n.w \in Guarded => m = n
    /\ \A n \in running : n.w \in Guarded \ F!Waiting => n.read = F!Getters(n.k)
    /\ \A k \in Keys : \A w \in F!Watching(k) \cap due :
        w \in Guarded /\ w \notin F!Pending => reread[w] = F!Getters(k)

Current ==
    \A k \in Keys : \A w \in F!Watching(k) \cap due : w \notin F!Pending /\ w \notin raced =>
        got[w] = values[k] /\ reread[w] = F!Getters(k)

ConfigInv == ConfigTypes /\ Owned /\ OneNote /\ OneRun /\ Told /\ Serial /\ Current

LEMMA InitConfig == Init => ConfigInv
<1> SUFFICES ASSUME F!Init PROVE ConfigInv
    BY DEF Init
<1>1. \A k \in Keys : watchers[k] = <<>>
    BY DEF F!Init
<1>2. \A k \in Keys : F!Watching(k) = {}
    BY <1>1 DEF F!Watching
<1>3. ConfigTypes
    BY DEF F!Init, ConfigTypes
<1>4. notes = {} /\ running = {} /\ due = {}
    BY DEF F!Init
<1> QED
    BY <1>2, <1>3, <1>4 DEF ConfigInv, Owned, OneNote, OneRun, Told, Serial, Current

(* What Watch appends is watching, besides those that were.                 *)
LEMMA WatchingAppended ==
    ASSUME NEW s \in Seq(Watchers), NEW w \in Watchers
    PROVE  {Append(s, w)[i] : i \in DOMAIN Append(s, w)} = {s[i] : i \in DOMAIN s} \cup {w}
<1>1. /\ Len(s) \in Nat /\ DOMAIN s = 1..Len(s)
      /\ DOMAIN Append(s, w) = 1..Len(s) + 1
      /\ Append(s, w)[Len(s) + 1] = w /\ \A i \in 1..Len(s) : Append(s, w)[i] = s[i]
    BY LenProperties, AppendProperties
<1>2. \A i \in 1..Len(s) + 1 : i \in 1..Len(s) \/ i = Len(s) + 1
    BY <1>1
<1>3. \A i \in 1..Len(s) : i \in 1..Len(s) + 1
    BY <1>1
<1>4. Len(s) + 1 \in 1..Len(s) + 1
    BY <1>1
<1> DEFINE a == Append(s, w)
           e == Len(s) + 1
<1> HIDE DEF a, e
<1>5. /\ \A i \in DOMAIN a : i \in DOMAIN s \/ i = e
      /\ \A i \in DOMAIN s : i \in DOMAIN a /\ a[i] = s[i]
      /\ e \in DOMAIN a /\ a[e] = w
    BY <1>1, <1>2, <1>3, <1>4 DEF a, e
<1>6. {a[i] : i \in DOMAIN a} = {s[i] : i \in DOMAIN s} \cup {w}
    BY <1>5
<1> QED
    BY <1>6 DEF a

LEMMA WatchersKnown ==
    ASSUME ConfigTypes, NEW k \in Keys, NEW w \in F!Watching(k)
    PROVE  w \in Watchers
<1>1. watchers[k] \in Seq(Watchers)
    BY DEF ConfigTypes
<1> QED
    BY <1>1, ElementOfSeq, LenProperties DEF F!Watching

(* What the getters return depends on the value of the key only.            *)
LEMMA GettersOf ==
    ASSUME NEW k, values'[k] = values[k]
    PROVE  F!Getters(k)' = F!Getters(k)
BY DEF F!Getters, F!GetString, F!GetInt, F!GetBool, F!GetDuration, F!Typed, F!Zero

LEMMA WatchConfig ==
    ASSUME ConfigInv, NEW k \in Keys, NEW w \in Watchers, F!Watch(k, w)
    PROVE  ConfigInv'
<1>0. ConfigTypes /\ Owned /\ OneNote /\ OneRun /\ Told /\ Serial /\ Current
    BY DEF ConfigInv
<1>1. /\ \A l \in Keys : w \notin F!Watching(l)
      /\ watchers' = [watchers EXCEPT ![k] = Append(@, w)]
      /\ UNCHANGED <<values, notes, running, latest, told, got, reread, due, raced>>
    BY DEF F!Watch
<1>2. /\ \A l \in Keys \ {k} : F!Watching(l)' = F!Watching(l)
      /\ F!Watching(k)' = F!Watching(k) \cup {w}
    <2>1. \A l \in Keys : watchers'[l] = IF l = k THEN Append(watchers[k], w) ELSE watchers[l]
        BY <1>0, <1>1 DEF ConfigTypes
    <2>2. watchers[k] \in Seq(Watchers)
        BY <1>0 DEF ConfigTypes
    <2>3. {Append(watchers[k], w)[i] : i \in DOMAIN Append(watchers[k], w)}
              = {watchers[k][i] : i \in DOMAIN watchers[k]} \cup {w}
        BY <2>2, WatchingAppended
    <2> QED
        BY <2>1, <2>3 DEF F!Watching
<1>3. ConfigTypes'
    BY <1>0, <1>1 DEF ConfigTypes
<1>4. w \notin due
    BY <1>0, <1>1 DEF Owned
<1>5. Owned'
    BY <1>0, <1>1, <1>2 DEF Owned
<1>6. /\ F!Waiting' = F!Waiting /\ F!Running' = F!Running /\ F!Pending' = F!Pending
      /\ \A l : F!Getters(l)' = F!Getters(l)
    BY <1>1, GettersOf DEF F!Waiting, F!Running, F!Pending
<1>7. \A l \in Keys : F!Watching(l)' \cap due' = F!Watching(l) \cap due
    BY <1>1, <1>2, <1>4
<1>8. OneNote' /\ OneRun'
    BY <1>0, <1>1, <1>6 DEF OneNote, OneRun
<1>9. Told' /\ Current'
    BY <1>0, <1>1, <1>6, <1>7 DEF Told, Current
<1>10. Serial'
    BY <1>0, <1>1, <1>6, <1>7 DEF Serial
<1> QED
    BY <1>3, <1>5, <1>8, <1>9, <1>10 DEF ConfigInv

LEMMA SetConfig ==
    ASSUME ConfigInv, NEW k \in Keys, NEW v \in Values, F!Set(k, v)
    PROVE  ConfigInv'
<1>0. ConfigTypes /\ Owned /\ OneNote /\ OneRun /\ Told /\ Serial /\ Current
    BY DEF ConfigInv
<1> DEFINE New == {[w |-> w, k |-> k, v |-> v, n |-> sets'] : w \in F!Watching(k)}
<1>1. /\ values' = [values EXCEPT ![k] = v] /\ latest' = [latest EXCEPT ![k] = sets']
      /\ notes' = notes \cup New /\ due' = due \cup F!Watching(k)
      /\ raced' = (raced \ F!Watching(k)) \cup (F!Watching(k) \cap F!Pending)
      /\ UNCHANGED <<watchers, running, told, got, reread>>
    BY DEF F!Set
<1>2. /\ \A l \in Keys : F!Watching(l)' = F!Watching(l)
      /\ F!Running' = F!Running
    BY <1>1 DEF F!Watching, F!Running
<1>3. /\ \A n \in New : n.w \in F!Watching(k) /\ n.k = k /\ n.v = v /\ n.n = sets'
      /\ \A n, m \in New : n.w = m.w => n = m
      /\ \A w \in F!Watching(k) : \E n \in New : n.w = w
    <2>1. \A n \in New : \E w \in F!Watching(k) : n = [w |-> w, k |-> k, v |-> v, n |-> sets']
        OBVIOUS
    <2>2. \A n \in New : n.w \in F!Watching(k) /\ n = [w |-> n.w, k |-> k, v |-> v, n |-> sets']
        BY <2>1
    <2>3. ASSUME NEW w \in F!Watching(k) PROVE \E n \in New : n.w = w
        <3>1. [w |-> w, k |-> k, v |-> v, n |-> sets'] \in New
            OBVIOUS
        <3> QED
            BY <3>1
    <2> HIDE DEF New
    <2>4. \A n \in New : n.k = k /\ n.v = v /\ n.n = sets'
        BY <2>2
    <2>5. \A n, m \in New : n.w = m.w => n = m
        BY <2>2
    <2> QED
        BY <2>2, <2>3, <2>4, <2>5
<1> HIDE DEF New
<1>4. /\ values'[k] = v /\ \A l \in Keys \ {k} : values'[l] = values[l]
      /\ latest'[k] = sets' /\ \A l \in Keys \ {k} : latest'[l] = latest[l]
    BY <1>0, <1>1 DEF ConfigTypes
<1>5. \A l \in Keys \ {k} : F!Getters(l)' = F!Getters(l)
    BY <1>4, GettersOf
<1>6. ConfigTypes'
    BY <1>0, <1>1 DEF ConfigTypes
<1>7. Owned'
    BY <1>0, <1>1, <1>2, <1>3 DEF Owned
<1>8. /\ F!Waiting' = F!Waiting \cup F!Watching(k)
      /\ F!Pending' = F!Pending \cup F!Watching(k)
    <2>1. {n.w : n \in New} = F!Watching(k)
        BY <1>3
    <2> QED
        BY <1>1, <1>2, <2>1 DEF F!Waiting, F!Pending
<1>9. OneNote'
    <2> SUFFICES ASSUME NEW n \in notes', n.w \notin raced'
                 PROVE  /\ n.v = values'[n.k] /\ n.w \notin F!Running
                        /\ \A m \in notes' : m.w = n.w => m = n
        BY <1>2 DEF OneNote
    <2>1. CASE n \in New
        <3>1. n.w \in F!Watching(k) /\ n.w \notin F!Pending
            BY <1>1, <1>3, <2>1
        <3>2. n.w \notin F!Running /\ \A m \in notes : m.w # n.w
            BY <3>1 DEF F!Pending, F!Waiting
        <3> QED
            BY <1>1, <1>3, <1>4, <2>1, <3>2
    <2>2. CASE n \in notes \ New
        <3>1. n.w \in F!Pending
            BY <2>2 DEF F!Pending, F!Waiting
        <3>2. n.w \notin F!Watching(k) /\ n.w \notin raced
            BY <1>1, <3>1
        <3>3. n.k \in Keys \ {k}
            BY <1>0, <2>2, <3>2 DEF Owned
        <3>4. \A m \in New : m.w # n.w
            BY <1>3, <3>2
        <3> QED
            BY <1>0, <1>1, <1>4, <2>2, <3>2, <3>3, <3>4 DEF OneNote
    <2> QED
        BY <1>1, <2>1, <2>2
<1>10. ASSUME NEW n \in running, n.w \notin raced' \/ n.w \notin F!Waiting'
       PROVE  n.k \in Keys \ {k} /\ n.w \notin F!Watching(k) /\ (n.w \notin raced' => n.w \notin raced)
    <2>1. n.w \in F!Pending
        BY DEF F!Pending, F!Running
    <2>2. n.w \notin F!Watching(k)
        BY <1>1, <1>8, <1>10, <2>1
    <2> QED
        BY <1>0, <1>1, <2>2 DEF Owned
<1>11. OneRun'
    <2> SUFFICES ASSUME NEW n \in running, n.w \notin raced'
                 PROVE  /\ n.v = values'[n.k] /\ n.read = F!Getters(n.k)'
                        /\ n.w \notin F!Waiting' /\ \A m \in running : m.w = n.w => m = n
        BY <1>1 DEF OneRun
    <2>1. n.k \in Keys \ {k} /\ n.w \notin F!Watching(k) /\ n.w \notin raced
        BY <1>10
    <2> QED
        BY <1>0, <1>4, <1>5, <1>8, <2>1 DEF OneRun
<1>12. Told'
    <2> SUFFICES ASSUME NEW l \in Keys, NEW w \in F!Watching(l)' \cap due'
                 PROVE  latest'[l] \in told'[w] \/ \E n \in notes' \cup running' : n.w = w /\ n.n = latest'[l]
        BY DEF Told
    <2>1. CASE l = k
        BY <1>1, <1>2, <1>3, <1>4, <2>1
    <2>2. CASE l # k
        <3>1. w \notin F!Watching(k)
            BY <1>0, <1>2, <2>2 DEF Owned
        <3>2. w \in F!Watching(l) \cap due
            BY <1>1, <1>2, <3>1
        <3>3. latest[l] \in told[w] \/ \E n \in notes \cup running : n.w = w /\ n.n = latest[l]
            BY <1>0, <3>2 DEF Told
        <3> QED
            BY <1>1, <1>4, <2>2, <3>3
    <2> QED
        BY <2>1, <2>2
<1>13. ASSUME NEW l \in Keys, NEW w \in F!Watching(l)' \cap due', w \notin F!Pending'
       PROVE  /\ w \notin F!Pending /\ w \in F!Watching(l) \cap due /\ l # k
              /\ w \notin raced' => w \notin raced
              /\ values'[l] = values[l] /\ F!Getters(l)' = F!Getters(l)
    BY <1>1, <1>2, <1>4, <1>5, <1>8, <1>13
<1>14. Current'
    BY <1>0, <1>1, <1>13 DEF Current
<1>15. Serial'
    <2>1. \A m, n \in running' : m.w = n.w /\ n.w \in Guarded => m = n
        BY <1>0, <1>1 DEF Serial
    <2>2. ASSUME NEW n \in running', n.w \in Guarded, n.w \notin F!Waiting'
          PROVE  n.read = F!Getters(n.k)'
        BY <1>0, <1>1, <1>5, <1>8, <1>10, <2>2 DEF Serial
    <2>3. ASSUME NEW l \in Keys, NEW w \in F!Watching(l)' \cap due', w \in Guarded, w \notin F!Pending'
          PROVE  reread'[w] = F!Getters(l)'
        BY <1>0, <1>1, <1>13, <2>3 DEF Serial
    <2> QED
        BY <2>1, <2>2, <2>3 DEF Serial
<1> QED
    BY <1>6, <1>7, <1>9, <1>11, <1>12, <1>14, <1>15 DEF ConfigInv

LEMMA CallConfig ==
    ASSUME ConfigInv, NEW n \in notes, F!Call(n)
    PROVE  ConfigInv'
<1>0. ConfigTypes /\ Owned /\ OneNote /\ OneRun /\ Told /\ Serial /\ Current
    BY DEF ConfigInv
<1> DEFINE r == [w |-> n.w, k |-> n.k, v |-> n.v, n |-> n.n, read |-> F!Getters(n.k)]
<1>1. /\ n.w \in Guarded => n.w \notin F!Running
      /\ notes' = notes \ {n} /\ running' = running \cup {r}
      /\ UNCHANGED <<values, watchers, latest, told, got, reread, due, raced>>
    BY DEF F!Call
<1>2. r.w = n.w /\ r.k = n.k /\ r.v = n.v /\ r.n = n.n /\ r.read = F!Getters(n.k)
    OBVIOUS
<1> HIDE DEF r
<1>3. /\ \A l : F!Getters(l)' = F!Getters(l)
      /\ \A l \in Keys : F!Watching(l)' = F!Watching(l)
    BY <1>1, GettersOf DEF F!Watching
<1>4. /\ F!Running' = F!Running \cup {n.w} /\ F!Waiting' \subseteq F!Waiting
      /\ F!Waiting \subseteq F!Waiting' \cup {n.w} /\ n.w \in F!Waiting
      /\ F!Pending' = F!Pending
    BY <1>1, <1>2 DEF F!Running, F!Waiting, F!Pending
<1>5. ConfigTypes'
    BY <1>0, <1>1 DEF ConfigTypes
<1>6. Owned'
    BY <1>0, <1>1, <1>2, <1>3 DEF Owned
<1>7. OneNote'
    <2> SUFFICES ASSUME NEW m \in notes', m.w \notin raced'
                 PROVE  /\ m.v = values'[m.k] /\ m.w \notin F!Running'
                        /\ \A q \in notes' : q.w = m.w => q = m
        BY DEF OneNote
    <2>1. m \in notes /\ m # n /\ m.w \notin raced
        BY <1>1
    <2>2. m.w # n.w
        BY <1>0, <2>1 DEF OneNote
    <2> QED
        BY <1>0, <1>1, <1>4, <2>1, <2>2 DEF OneNote
<1>8. OneRun'
    <2> SUFFICES ASSUME NEW m \in running', m.w \notin raced
                 PROVE  /\ m.v = values[m.k] /\ m.read = F!Getters(m.k)
                        /\ m.w \notin F!Waiting' /\ \A q \in running' : q.w = m.w => q = m
        BY <1>1, <1>3 DEF OneRun
    <2>1. CASE m = r
        <3>1. /\ n.v = values[n.k] /\ n.w \notin F!Running
              /\ \A q \in notes : q.w = n.w => q = n
            BY <1>0, <1>2, <2>1 DEF OneNote
        <3>2. n.w \notin F!Waiting'
            BY <1>1, <3>1 DEF F!Waiting
        <3>3. \A q \in running : q.w # n.w
            BY <3>1 DEF F!Running
        <3> QED
            BY <1>1, <1>2, <2>1, <3>1, <3>2, <3>3
    <2>2. CASE m \in running
        <3>1. m.w # n.w
            BY <1>0, <1>4, <2>2 DEF OneRun
        <3> QED
            BY <1>0, <1>1, <1>2, <1>4, <2>2, <3>1 DEF OneRun
    <2> QED
        BY <1>1, <2>1, <2>2
<1>9. Told'
    <2>1. \A m \in notes \cup running : \E q \in notes' \cup running' : q.w = m.w /\ q.n = m.n
        BY <1>1, <1>2
    <2> QED
        BY <1>0, <1>1, <1>3, <2>1 DEF Told
<1>10. Current'
    BY <1>0, <1>1, <1>3, <1>4 DEF Current
<1>11. Serial'
    <2>1. ASSUME NEW m \in running', NEW q \in running', m.w = q.w, q.w \in Guarded PROVE m = q
        <3>1. n.w \in Guarded => \A o \in running : o.w # n.w
            BY <1>1 DEF F!Running
        <3>2. m \in running /\ q \in running => m = q
            BY <1>0, <2>1 DEF Serial
        <3> QED
            BY <1>1, <1>2, <2>1, <3>1, <3>2
    <2>2. ASSUME NEW m \in running', m.w \in Guarded, m.w \notin F!Waiting'
          PROVE  m.read = F!Getters(m.k)'
        <3>1. CASE m = r
            BY <1>2, <1>3, <3>1
        <3>2. CASE m \in running
            <4>1. m.w # n.w
                BY <1>1, <2>2, <3>2 DEF F!Running
            <4>2. m.w \notin F!Waiting
                BY <1>4, <2>2, <4>1
            <4> QED
                BY <1>0, <1>3, <2>2, <3>2, <4>2 DEF Serial
        <3> QED
            BY <1>1, <3>1, <3>2
    <2>3. \A l \in Keys : \A w \in F!Watching(l)' \cap due' :
            w \in Guarded /\ w \notin F!Pending' => reread'[w] = F!Getters(l)'
        BY <1>0, <1>1, <1>3, <1>4 DEF Serial
    <2> QED
        BY <2>1, <2>2, <2>3 DEF Serial
<1> QED
    BY <1>5, <1>6, <1>7, <1>8, <1>9, <1>10, <1>11 DEF ConfigInv

LEMMA KeepConfig ==
    ASSUME ConfigInv, NEW n \in running, F!Keep(n)
    PROVE  ConfigInv'
<1>0. ConfigTypes /\ Owned /\ OneNote /\ OneRun /\ Told /\ Serial /\ Current
    BY DEF ConfigInv
<1>1. /\ running' = running \ {n} /\ told' = [told EXCEPT ![n.w] = @ \cup {n.n}]
      /\ got' = [got EXCEPT ![n.w] = n.v] /\ reread' = [reread EXCEPT ![n.w] = n.read]
      /\ UNCHANGED <<values, watchers, notes, latest, due, raced>>
    BY DEF F!Keep
<1>2. /\ \A l : F!Getters(l)' = F!Getters(l)
      /\ \A l \in Keys : F!Watching(l)' = F!Watching(l)
    BY <1>1, GettersOf DEF F!Watching
<1>3. /\ F!Waiting' = F!Waiting /\ F!Running' \subseteq F!Running
      /\ F!Running \subseteq F!Running' \cup {n.w}
      /\ F!Pending \subseteq F!Pending' \cup {n.w}
    BY <1>1 DEF F!Running, F!Waiting, F!Pending
<1>4. n.k \in Keys /\ n.w \in F!Watching(n.k) /\ n.w \in Watchers
    BY <1>0, WatchersKnown DEF Owned
<1>5. /\ told'[n.w] = told[n.w] \cup {n.n} /\ got'[n.w] = n.v /\ reread'[n.w] = n.read
      /\ \A w \in Watchers \ {n.w} : told'[w] = told[w] /\ got'[w] = got[w] /\ reread'[w] = reread[w]
    BY <1>0, <1>1, <1>4 DEF ConfigTypes
<1>6. ConfigTypes'
    BY <1>0, <1>1 DEF ConfigTypes
<1>7. Owned'
    BY <1>0, <1>1, <1>2 DEF Owned
<1>8. OneNote' /\ OneRun'
    BY <1>0, <1>1, <1>2, <1>3 DEF OneNote, OneRun
<1>9. Told'
    <2> SUFFICES ASSUME NEW l \in Keys, NEW w \in F!Watching(l)' \cap due'
                 PROVE  latest'[l] \in told'[w] \/ \E m \in notes' \cup running' : m.w = w /\ m.n = latest'[l]
        BY DEF Told
    <2>1. w \in F!Watching(l) \cap due /\ w \in Watchers
        BY <1>0, <1>1, <1>2, WatchersKnown
    <2>2. CASE latest[l] \in told[w]
        BY <1>1, <1>5, <2>1, <2>2
    <2>3. ASSUME NEW m \in notes \cup running, m.w = w, m.n = latest[l]
          PROVE  latest'[l] \in told'[w] \/ \E q \in notes' \cup running' : q.w = w /\ q.n = latest'[l]
        <3>1. CASE m = n
            BY <1>1, <1>5, <2>3, <3>1
        <3>2. CASE m # n
            BY <1>1, <2>3, <3>2
        <3> QED
            BY <3>1, <3>2
    <2> QED
        BY <1>0, <2>1, <2>2, <2>3 DEF Told
<1>10. ASSUME NEW l \in Keys, NEW w \in F!Watching(l)' \cap due', w \notin F!Pending'
       PROVE  /\ w \in F!Watching(l) \cap due /\ w \in Watchers
              /\ w = n.w => n.k = l /\ w \notin F!Waiting
              /\ w # n.w => w \notin F!Pending
    <2>1. w \in F!Watching(l) \cap due /\ w \in Watchers
        BY <1>0, <1>1, <1>2, WatchersKnown
    <2>2. w = n.w => n.k = l
        BY <1>0, <1>4, <2>1 DEF Owned
    <2> QED
        BY <1>3, <1>10, <2>1, <2>2 DEF F!Pending
<1>11. Current'
    <2> SUFFICES ASSUME NEW l \in Keys, NEW w \in F!Watching(l)' \cap due',
                        w \notin F!Pending', w \notin raced'
                 PROVE  got'[w] = values'[l] /\ reread'[w] = F!Getters(l)'
        BY DEF Current
    <2>1. CASE w = n.w
        <3>1. n.k = l /\ n.v = values[l] /\ n.read = F!Getters(l)
            BY <1>0, <1>1, <1>10, <2>1 DEF OneRun
        <3> QED
            BY <1>1, <1>2, <1>5, <2>1, <3>1
    <2>2. CASE w # n.w
        <3>1. got[w] = values[l] /\ reread[w] = F!Getters(l)
            BY <1>0, <1>1, <1>10, <2>2 DEF Current
        <3> QED
            BY <1>1, <1>2, <1>5, <1>10, <2>2, <3>1
    <2> QED
        BY <2>1, <2>2
<1>12. Serial'
    <2>1. \A m, q \in running' : m.w = q.w /\ q.w \in Guarded => m = q
        BY <1>0, <1>1 DEF Serial
    <2>2. ASSUME NEW m \in running', m.w \in Guarded, m.w \notin F!Waiting'
          PROVE  m.read = F!Getters(m.k)'
        BY <1>0, <1>1, <1>2, <1>3, <2>2 DEF Serial
    <2>3. ASSUME NEW l \in Keys, NEW w \in F!Watching(l)' \cap due', w \in Guarded, w \notin F!Pending'
          PROVE  reread'[w] = F!Getters(l)'
        <3>1. CASE w = n.w
            <4>1. n.k = l /\ n.read = F!Getters(l)
                BY <1>0, <1>10, <2>3, <3>1 DEF Serial
            <4> QED
                BY <1>2, <1>5, <3>1, <4>1
        <3>2. CASE w # n.w
            <4>1. reread[w] = F!Getters(l)
                BY <1>0, <1>10, <2>3, <3>2 DEF Serial
            <4> QED
                BY <1>2, <1>5, <1>10, <2>3, <3>2, <4>1
        <3> QED
            BY <3>1, <3>2
    <2> QED
        BY <2>1, <2>2, <2>3 DEF Serial
<1> QED
    BY <1>6, <1>7, <1>8, <1>9, <1>11, <1>12 DEF ConfigInv

LEMMA StepConfig == ConfigInv /\ (F!Next \/ UNCHANGED config) => ConfigInv'
<1> SUFFICES ASSUME ConfigInv, F!Next \/ UNCHANGED config PROVE ConfigInv'
    OBVIOUS
<1>1. CASE F!Next
    BY <1>1, WatchConfig, SetConfig, CallConfig, KeepConfig DEF F!Next
<1>2. CASE UNCHANGED config
    <2>1. UNCHANGED <<values, watchers, notes, running, latest, told, got, reread, due, raced>>
        BY <1>2 DEF config
    <2>2. /\ \A l \in Keys : F!Watching(l)' = F!Watching(l)
          /\ \A l : F!Getters(l)' = F!Getters(l)
          /\ F!Pending' = F!Pending /\ F!Waiting' = F!Waiting /\ F!Running' = F!Running
        BY <2>1, GettersOf DEF F!Watching, F!Pending, F!Waiting, F!Running
    <2>3. ConfigTypes' /\ Owned'
        BY <2>1, <2>2 DEF ConfigInv, ConfigTypes, Owned
    <2>4. OneNote' /\ OneRun'
        BY <2>1, <2>2 DEF ConfigInv, OneNote, OneRun
    <2>5. Told' /\ Current'
        BY <2>1, <2>2 DEF ConfigInv, Told, Current
    <2>6. Serial'
        BY <2>1, <2>2 DEF ConfigInv, Serial
    <2> QED
        BY <2>3, <2>4, <2>5, <2>6 DEF ConfigInv
<1> QED
    BY <1>1, <1>2

(* A watcher whose goroutines have ended was told of the last change; what  *)
(* it read again is current if they never overlapped or waited for each     *)
(* other, its argument if they never overlapped.                            *)
THEOREM WatchersCurrentHolds == Spec => []WatchersCurrent
<1>1. Init => ConfigInv
    BY InitConfig
<1>2. ConfigInv /\ [Next]_vars => ConfigInv'
    BY StepConfig, StepOf
<1>3. ConfigInv => WatchersCurrent
    <2> SUFFICES ASSUME ConfigInv, NEW k \in Keys, NEW w \in F!Watching(k), w \in due, w \notin F!Pending
                 PROVE  /\ latest[k] \in told[w]
                        /\ w \notin raced \/ w \in Guarded => reread[w] = F!Getters(k)
                        /\ w \notin raced => got[w] = values[k]
        BY DEF WatchersCurrent, F!WatchersCurrent
    <2>1. latest[k] \in told[w]
        BY DEF ConfigInv, Told, F!Pending, F!Waiting, F!Running
    <2> QED
        BY <2>1 DEF ConfigInv, Serial, Current
<1> QED
    BY <1>1, <1>2, <1>3, PTL DEF Spec

-----------------------------------------------------------------------------
(* Devices                                                                  *)

Backends == {"memory", "redis", "mysql", "postgres"}

(* DevicesKept, with the devices whose status is known to be that of their  *)
(* last registration among the acknowledged ones.                           *)
DevicesInv ==
    /\ backend \in Backends
    /\ ackedDevs \subseteq devs /\ fresh \subseteq ackedDevs
    /\ backend # "redis" => fresh \subseteq online
    /\ backend \in {"mysql", "postgres"} => online \subseteq devs

LEMMA InitDevices == Init => DevicesInv
    BY DEF Init, S!Init, DevicesInv, Backends

LEMMA StepDevices == DevicesInv /\ (S!Next \/ UNCHANGED storage) => DevicesInv'
<1> SUFFICES ASSUME DevicesInv, S!Next \/ UNCHANGED storage PROVE DevicesInv'
    OBVIOUS
<1> USE DEF DevicesInv, Backends
<1>1. ASSUME UNCHANGED <<backend, devs, online, ackedDevs, fresh>> PROVE DevicesInv'
    BY <1>1
<1>2. ASSUME NEW w \in Writers, NEW r \in Reports, S!Save(w, r) PROVE DevicesInv'
    BY <1>1, <1>2 DEF S!Save, S!MemorySaveLocation, S!MemorySaveAlarm, S!MemorySave,
        S!RedisSaveLocation, S!RedisSaveAlarm, S!RedisSave, S!MySQLSaveLocation,
        S!MySQLSaveAlarm, S!PostgresSaveLocation, S!PostgresSaveAlarm, S!SQLSave, S!deviceVars
<1>3. ASSUME NEW w \in Writers, S!Pipeline(w) PROVE DevicesInv'
    BY <1>1, <1>3 DEF S!Pipeline, S!RedisZAdd, S!RedisTrim, S!RedisExpire, S!RedisRetry, S!RedisCut, S!deviceVars
<1>4. ASSUME NEW k \in S!Kinds, S!RedisKeyExpires(k) PROVE DevicesInv'
    BY <1>1, <1>4 DEF S!RedisKeyExpires, S!deviceVars
<1>5. ASSUME NEW d \in Terminals, S!Device(d) PROVE DevicesInv'
    <2>1. CASE S!MemorySaveDevice(d)
        BY <2>1 DEF S!MemorySaveDevice, S!Registered
    <2>2. CASE S!RedisSaveDevice(d)
        BY <2>2 DEF S!RedisSaveDevice, S!Registered, S!Failed
    <2>3. CASE S!MySQLSaveDevice(d) \/ S!PostgresSaveDevice(d)
        BY <2>3 DEF S!MySQLSaveDevice, S!PostgresSaveDevice, S!SQLSaveDevice, S!Registered, S!Failed
    <2>4. ASSUME NEW b \in BOOLEAN, S!MemoryUpdateStatus(d, b) \/ S!RedisUpdateStatus(d, b)
          PROVE  DevicesInv'
        BY <2>4 DEF S!MemoryUpdateStatus, S!RedisUpdateStatus, S!SetOnline
    <2>5. ASSUME NEW b \in BOOLEAN, S!MySQLUpdateStatus(d, b) \/ S!PostgresUpdateStatus(d, b)
          PROVE  DevicesInv'
        BY <2>5 DEF S!MySQLUpdateStatus, S!PostgresUpdateStatus, S!SQLUpdateStatus, S!SetOnline
    <2> QED
        BY <1>5, <2>1, <2>2, <2>3, <2>4, <2>5 DEF S!Device
<1>6. CASE UNCHANGED storage
    BY <1>1, <1>6 DEF storage
<1> QED
    BY <1>2, <1>3, <1>4, <1>5, <1>6 DEF S!Next, S!ReportNext, S!DeviceNext

(* A device whose registration was acknowledged is found, Online until its  *)
(* status is updated, and no database knows the status of another.          *)
THEOREM DevicesKeptHolds == Spec => []DevicesKept
<1>1. DevicesInv /\ [Next]_vars => DevicesInv'
    BY StepDevices, StepOf
<1>2. DevicesInv => DevicesKept
    BY DEF DevicesInv, Backends, DevicesKept, S!DevicesKept, S!GotDevice, S!MemoryGetDevice,
        S!RedisGetDevice, S!MySQLGetDevice, S!PostgresGetDevice
<1> QED
    BY <1>1, <1>2, InitDevices, PTL DEF Spec

-----------------------------------------------------------------------------
(* Reports                                                                  *)

Steps == {"none", "zadd", "trim", "expire"}

ReportTypes ==
    /\ backend \in Backends
    /\ recs \in [S!Kinds -> Seq(Reports)]
    /\ pipe \in [Writers -> [step : Steps, rep : Reports \cup {S!Idle.rep}]]
    /\ \A w \in Writers :
        pipe[w].step # "none" => backend = "redis" /\ pipe[w].rep \in Reports
    /\ acked \subseteq Reports

(* The reports are of kinds, and times are cut to whole seconds.            *)
LEMMA ReportFacts ==
    /\ \A r \in Reports :
        r.kind \in S!Kinds /\ r.time \in Nat /\ r.zone \in Nat /\ r.id \in Nat
    /\ \A t \in Nat : S!Unix(t) \in Nat /\ 4 * S!Unix(t) <= t /\ t < 4 * S!Unix(t) + 4
<1>1. \A t \in Nat : S!Unix(t) \in Nat /\ 4 * S!Unix(t) <= t /\ t < 4 * S!Unix(t) + 4
    BY DEF S!Unix, S!Second
<1> QED
    BY <1>1, ReportsAssumption DEF S!Kinds

(* The order of a sorted set is strict and total.                           *)
LEMMA BeforeOrder ==
    /\ \A r \in Reports : ~S!Before(r, r)
    /\ \A p, q, r \in Reports : S!Before(p, q) /\ S!Before(q, r) => S!Before(p, r)
    /\ \A q, r \in Reports : q = r \/ S!Before(q, r) \/ S!Before(r, q)
<1>1. \A r \in Reports : S!Unix(r.time) \in Nat /\ r.id \in Nat
    BY ReportFacts
<1> QED
    BY <1>1, ReportsAssumption DEF S!Before

LEMMA SameSize == \A X : S!Cardinality(X) = Cardinality(X)
    BY DEF S!Cardinality, Cardinality

(* What Trimmed leaves: the last Limit elements.                            *)
LEMMA TrimmedFacts ==
    ASSUME NEW s \in Seq(Reports)
    PROVE  LET t == S!Trimmed(s) IN
           /\ t \in Seq(Reports)
           /\ Len(t) = IF Len(s) > Limit THEN Limit ELSE Len(s)
           /\ \A i \in 1..Len(t) : t[i] = s[i + (Len(s) - Len(t))]
<1>1. Len(s) \in Nat /\ Limit \in Nat
    BY ReportsAssumption
<1>2. CASE Len(s) > Limit
    <2> DEFINE m == Len(s) - Limit + 1
               t == SubSeq(s, m, Len(s))
    <2>1. m \in 1..Len(s) + 1 /\ Len(s) - m + 1 = Limit
        BY <1>1, <1>2
    <2>2. \A i \in m..Len(s) : s[i] \in Reports
        BY <1>1, <2>1
    <2>3. t \in Seq(Reports) /\ Len(t) = Limit
        BY <1>1, <1>2, <2>1
    <2>4. \A i \in 1..Len(t) : t[i] = s[i + (Len(s) - Len(t))]
        <3> SUFFICES ASSUME NEW i \in 1..Limit PROVE t[i] = s[i + (Len(s) - Limit)]
            BY <2>3
        <3>1. t[i] = s[m + i - 1]
            BY <1>1, <1>2, <2>1, <2>3
        <3>2. m + i - 1 = i + (Len(s) - Limit)
            BY <1>1
        <3> QED
            BY <3>1, <3>2
    <2> HIDE DEF m
    <2>5. S!Trimmed(s) = t
        BY <1>2 DEF S!Trimmed, m
    <2> QED
        BY <1>2, <2>3, <2>4, <2>5
<1>3. CASE ~(Len(s) > Limit)
    <2>1. S!Trimmed(s) = s
        BY <1>3 DEF S!Trimmed
    <2>2. \A i \in 1..Len(s) : i + (Len(s) - Len(s)) = i
        BY <1>1
    <2> QED
        BY <1>3, <2>1, <2>2
<1> QED
    BY <1>2, <1>3

LEMMA Parts ==
    ASSUME NEW X, NEW s \in Seq(X), NEW n \in 0..Len(s)
    PROVE  LET a == SubSeq(s, 1, n)
               b == SubSeq(s, n + 1, Len(s))
           IN  /\ a \in Seq(X) /\ Len(a) = n /\ \A i \in 1..n : a[i] = s[i]
               /\ b \in Seq(X) /\ Len(b) = Len(s) - n
               /\ \A i \in 1..Len(s) - n : b[i] = s[n + i]
<1>1. Len(s) \in Nat /\ \A i \in 1..Len(s) : s[i] \in X
    OBVIOUS
<1>2. PICK m \in Int : m = n + 1
    BY <1>1
<1>3. PICK l \in Int : l = Len(s)
    BY <1>1
<1>4. \A i \in m..l : s[i] \in X
    BY <1>1, <1>2, <1>3
<1>5. /\ SubSeq(s, m, l) \in Seq(X)
      /\ Len(SubSeq(s, m, l)) = IF m <= l THEN l - m + 1 ELSE 0
      /\ \A i \in 1..l - m + 1 : SubSeq(s, m, l)[i] = s[m + i - 1]
    BY <1>4
<1>6. \A i \in 1..n : s[i] \in X
    BY <1>1
<1>7. 1 \in Int /\ n \in Int
    OBVIOUS
<1>8. /\ SubSeq(s, 1, n) \in Seq(X)
      /\ Len(SubSeq(s, 1, n)) = IF 1 <= n THEN n - 1 + 1 ELSE 0
      /\ \A i \in 1..n - 1 + 1 : SubSeq(s, 1, n)[i] = s[1 + i - 1]
    BY <1>6, <1>7
<1> DEFINE a == SubSeq(s, 1, n)
           b == SubSeq(s, m, l)
<1> HIDE DEF a, b
<1>9. a \in Seq(X) /\ Len(a) = n /\ \A i \in 1..n : a[i] = s[i]
    BY <1>8 DEF a
<1>10. Len(b) = l - m + 1
    BY <1>1, <1>2, <1>3, <1>5 DEF b
<1>11. ASSUME NEW i \in 1..Len(s) - n PROVE b[i] = s[n + i]
    <2>1. i \in 1..l - m + 1 /\ m + i - 1 = n + i
        BY <1>1, <1>2, <1>3
    <2> QED
        BY <1>5, <2>1 DEF b
<1>12. b \in Seq(X) /\ Len(b) = Len(s) - n
    BY <1>1, <1>2, <1>3, <1>5, <1>10 DEF b
<1> QED
    BY <1>2, <1>3, <1>9, <1>11, <1>12 DEF a, b

(* Where ZAdd puts a new member: after the place-th.                        *)
Place(s, r) == Cardinality({i \in DOMAIN s : S!Before(s[i], r)})

LEMMA ZAddFacts ==
    ASSUME NEW s \in Seq(Reports), NEW r \in Reports
    PROVE  LET t == S!ZAdd(s, r) IN
           /\ t \in Seq(Reports) /\ t # <<>>
           /\ Range(t) = Range(s) \cup {r}
           /\ \/ t = s
              \/ /\ Place(s, r) \in 0..Len(s) /\ Len(t) = Len(s) + 1
                 /\ r \notin Range(s) /\ t[Place(s, r) + 1] = r
                 /\ \A i \in 1..Place(s, r) : t[i] = s[i]
                 /\ \A i \in Place(s, r)+1..Len(s) : t[i + 1] = s[i]
<1>1. Len(s) \in Nat /\ DOMAIN s = 1..Len(s)
    OBVIOUS
<1>2. CASE r \in Range(s)
    <2>1. S!ZAdd(s, r) = s
        BY <1>2 DEF S!ZAdd, Range
    <2>2. s # <<>>
        BY <1>2 DEF Range
    <2> QED
        BY <1>2, <2>1, <2>2
<1>3. CASE r \notin Range(s)
    <2> DEFINE D == {i \in DOMAIN s : S!Before(s[i], r)}
               n == Cardinality(D)
               a == SubSeq(s, 1, n)
               b == SubSeq(s, n + 1, Len(s))
               t == a \o <<r>> \o b
    <2>1. n \in 0..Len(s)
        <3>1. D \subseteq 1..Len(s)
            BY <1>1
        <3> HIDE DEF D
        <3>2. IsFiniteSet(1..Len(s)) /\ Cardinality(1..Len(s)) = Len(s)
            BY <1>1, FS_Interval
        <3>3. IsFiniteSet(D) /\ Cardinality(D) <= Cardinality(1..Len(s))
            BY <3>1, <3>2, FS_Subset
        <3> QED
            BY <1>1, <3>2, <3>3, FS_CardinalityType
    <2>2. S!ZAdd(s, r) = t /\ Place(s, r) = n
        BY <1>3, SameSize DEF S!ZAdd, Range, Place
    <2> HIDE DEF n
    <2>3. /\ a \in Seq(Reports) /\ Len(a) = n /\ \A i \in 1..n : a[i] = s[i]
          /\ b \in Seq(Reports) /\ Len(b) = Len(s) - n
          /\ \A i \in 1..Len(s) - n : b[i] = s[n + i]
        BY <1>1, <2>1, Parts
    <2> HIDE DEF a, b
    <2>4. /\ t \in Seq(Reports) /\ Len(t) = Len(s) + 1
          /\ \A i \in 1..n : t[i] = s[i]
          /\ t[n + 1] = r
          /\ \A i \in n+1..Len(s) : t[i + 1] = s[i]
        <3>1. a \o <<r>> \in Seq(Reports) /\ Len(a \o <<r>>) = n + 1
            BY <2>1, <2>3
        <3>2. \A i \in 1..n : (a \o <<r>>)[i] = s[i]
            BY <2>1, <2>3
        <3>3. (a \o <<r>>)[n + 1] = r
            BY <2>1, <2>3
        <3> DEFINE c == a \o <<r>>
        <3> HIDE DEF c
        <3>4. c \in Seq(Reports) /\ Len(c) = n + 1 /\ c[n + 1] = r /\ \A i \in 1..n : c[i] = s[i]
            BY <3>1, <3>2, <3>3 DEF c
        <3>5. t = c \o b
            BY DEF c
        <3>6. /\ c \o b \in Seq(Reports) /\ Len(c \o b) = Len(s) + 1
              /\ \A i \in 1..n + 1 : (c \o b)[i] = c[i]
              /\ \A i \in n+2..Len(s) + 1 : (c \o b)[i] = b[i - (n + 1)]
            BY <1>1, <2>1, <2>3, <3>4
        <3>7. ASSUME NEW i \in n+1..Len(s) PROVE (c \o b)[i + 1] = s[i]
            <4>1. i + 1 \in n+2..Len(s) + 1 /\ (i + 1) - (n + 1) = i - n
                BY <1>1, <2>1
            <4>2. i - n \in 1..Len(s) - n /\ n + (i - n) = i
                BY <1>1, <2>1
            <4>3. (c \o b)[i + 1] = b[i - n]
                BY <3>6, <4>1
            <4>4. b[i - n] = s[n + (i - n)]
                BY <2>3, <4>2
            <4> QED
                BY <4>2, <4>3, <4>4
        <3> HIDE DEF t
        <3>8. \A i \in 1..n : i \in 1..n + 1
            BY <2>1
        <3>9. n + 1 \in 1..n + 1
            BY <2>1
        <3> QED
            BY <3>4, <3>5, <3>6, <3>7, <3>8, <3>9
    <2> HIDE DEF t
    <2>5. Range(t) = Range(s) \cup {r}
        <3>1. DOMAIN t = 1..Len(s) + 1
            BY <2>4
        <3>2. ASSUME NEW i \in 1..Len(s) + 1 PROVE t[i] \in Range(s) \cup {r}
            <4>1. CASE i \in 1..n
                BY <1>1, <2>1, <2>4, <4>1 DEF Range
            <4>2. CASE i = n + 1
                BY <2>4, <4>2
            <4>3. CASE i \in n+2..Len(s) + 1
                <5>1. i - 1 \in n+1..Len(s) /\ (i - 1) + 1 = i /\ i - 1 \in 1..Len(s)
                    BY <1>1, <2>1, <4>3
                <5>2. t[i] = s[i - 1]
                    BY <2>4, <5>1
                <5> QED
                    BY <1>1, <5>1, <5>2 DEF Range
            <4> QED
                BY <2>1, <4>1, <4>2, <4>3
        <3>3. ASSUME NEW i \in 1..Len(s) PROVE s[i] \in Range(t)
            <4>1. CASE i \in 1..n
                <5>1. i \in 1..Len(s) + 1
                    BY <1>1
                <5> QED
                    BY <2>4, <3>1, <4>1, <5>1 DEF Range
            <4>2. CASE i \in n+1..Len(s)
                <5>1. i + 1 \in 1..Len(s) + 1
                    BY <1>1
                <5> QED
                    BY <2>4, <3>1, <4>2, <5>1 DEF Range
            <4> QED
                BY <1>1, <2>1, <4>1, <4>2
        <3>4. r \in Range(t)
            <4>1. n + 1 \in 1..Len(s) + 1
                BY <1>1, <2>1
            <4> QED
                BY <2>4, <3>1, <4>1 DEF Range
        <3> QED
            BY <1>1, <3>1, <3>2, <3>3, <3>4 DEF Range
    <2> QED
        BY <1>1, <1>3, <2>1, <2>2, <2>4, <2>5
<1> QED
    BY <1>2, <1>3

LEMMA FirstNumbers ==
    ASSUME NEW n \in Nat
    PROVE  IsFiniteSet(1..n) /\ Cardinality(1..n) = n
<1>1. 1 \in Int /\ n \in Int
    OBVIOUS
<1>2. IsFiniteSet(1..n) /\ Cardinality(1..n) = IF 1 > n THEN 0 ELSE n - 1 + 1
    BY <1>1, FS_Interval
<1> QED
    BY <1>2

(* A sorted set is in order, and stays so.                                  *)
Sorted(s) == \A i, j \in DOMAIN s : i < j => S!Before(s[i], s[j])

LEMMA ZAddSorted ==
    ASSUME NEW s \in Seq(Reports), Sorted(s), NEW r \in Reports
    PROVE  Sorted(S!ZAdd(s, r))
<1> DEFINE t == S!ZAdd(s, r)
           n == Place(s, r)
           D == {i \in DOMAIN s : S!Before(s[i], r)}
<1>1. Len(s) \in Nat /\ DOMAIN s = 1..Len(s) /\ \A i \in 1..Len(s) : s[i] \in Reports
    OBVIOUS
<1>2. CASE t = s
    BY <1>2
<1>3. CASE /\ n \in 0..Len(s) /\ Len(t) = Len(s) + 1
           /\ r \notin Range(s) /\ t[n + 1] = r
           /\ \A i \in 1..n : t[i] = s[i]
           /\ \A i \in n+1..Len(s) : t[i + 1] = s[i]
    <2>1. n = Cardinality(D) /\ D \subseteq 1..Len(s)
        BY <1>1 DEF Place
    <2> HIDE DEF n
    <2>2. IsFiniteSet(D)
        <3> HIDE DEF D
        <3> QED
            BY <1>1, <2>1, FirstNumbers, FS_Subset
    <2>3. ASSUME NEW i \in D PROVE i \in 1..n
        <3>1. 1..i \subseteq D
            <4> SUFFICES ASSUME NEW j \in 1..i PROVE S!Before(s[j], r) /\ j \in 1..Len(s)
                BY <1>1
            <4>1. j \in 1..Len(s) /\ i \in 1..Len(s) /\ (j = i \/ j < i)
                BY <1>1, <2>1
            <4> QED
                BY <1>1, <4>1, BeforeOrder DEF Sorted
        <3> HIDE DEF D
        <3>2. i \in Nat /\ 1 <= i
            BY <2>1
        <3>3. IsFiniteSet(1..i) /\ Cardinality(1..i) = i
            BY <3>2, FirstNumbers
        <3>4. i <= Cardinality(D)
            BY <2>2, <3>1, <3>3, FS_Subset
        <3> QED
            BY <1>3, <2>1, <3>2, <3>4
    <2>4. D = 1..n
        <3> HIDE DEF D
        <3>1. D \subseteq 1..n
            BY <2>3
        <3>2. n \in Nat
            BY <1>3
        <3>3. IsFiniteSet(1..n) /\ Cardinality(1..n) = n
            BY <3>2, FirstNumbers
        <3> QED
            BY <2>1, <3>1, <3>3, FS_Subset
    <2>5. /\ \A i \in 1..n : S!Before(s[i], r)
          /\ \A i \in n+1..Len(s) : S!Before(r, s[i])
        <3>1. \A i \in 1..n : S!Before(s[i], r)
            BY <2>4
        <3>2. ASSUME NEW i \in n+1..Len(s) PROVE S!Before(r, s[i])
            <4>1. i \in 1..Len(s) /\ i \notin D
                BY <1>1, <1>3, <2>4
            <4>2. s[i] # r
                BY <1>1, <1>3, <4>1 DEF Range
            <4> QED
                BY <1>1, <4>1, <4>2, BeforeOrder
        <3> QED
            BY <3>1, <3>2
    <2> HIDE DEF D, t
    <2>6. DOMAIN t = 1..Len(s) + 1
        <3>1. t \in Seq(Reports)
            BY ZAddFacts DEF t
        <3> QED
            BY <1>3, <3>1
    <2>7. ASSUME NEW i \in 1..Len(s) + 1, NEW j \in 1..Len(s) + 1, i < j
          PROVE  S!Before(t[i], t[j])
        <3>1. CASE i \in 1..n /\ j \in 1..n
            <4>1. i \in 1..Len(s) /\ j \in 1..Len(s)
                BY <1>1, <1>3, <3>1
            <4> QED
                BY <1>1, <1>3, <2>7, <3>1, <4>1 DEF Sorted
        <3>2. CASE i \in 1..n /\ j = n + 1
            BY <1>3, <2>5, <3>2
        <3>3. CASE i = n + 1 /\ j \in n+2..Len(s) + 1
            <4>1. j - 1 \in n+1..Len(s) /\ (j - 1) + 1 = j
                BY <1>1, <1>3, <3>3
            <4> QED
                BY <1>3, <2>5, <3>3, <4>1
        <3>4. CASE i \in 1..n /\ j \in n+2..Len(s) + 1
            <4>1. /\ j - 1 \in n+1..Len(s) /\ (j - 1) + 1 = j
                  /\ i \in 1..Len(s) /\ j - 1 \in 1..Len(s) /\ i < j - 1
                BY <1>1, <1>3, <3>4
            <4> QED
                BY <1>1, <1>3, <3>4, <4>1 DEF Sorted
        <3>5. CASE i \in n+2..Len(s) + 1 /\ j \in n+2..Len(s) + 1
            <4>1. /\ j - 1 \in n+1..Len(s) /\ (j - 1) + 1 = j /\ j - 1 \in 1..Len(s)
                  /\ i - 1 \in n+1..Len(s) /\ (i - 1) + 1 = i /\ i - 1 \in 1..Len(s)
                  /\ i - 1 < j - 1
                BY <1>1, <1>3, <2>7, <3>5
            <4>2. t[i] = s[i - 1]
                BY <1>3, <3>5, <4>1
            <4>3. t[j] = s[j - 1]
                BY <1>3, <3>5, <4>1
            <4>4. i - 1 \in DOMAIN s /\ j - 1 \in DOMAIN s
                BY <1>1, <4>1
            <4> QED
                BY <4>1, <4>2, <4>3, <4>4 DEF Sorted
        <3> QED
            BY <1>1, <1>3, <2>7, <3>1, <3>2, <3>3, <3>4, <3>5
    <2>8. Sorted(t)
        BY <2>6, <2>7 DEF Sorted
    <2> QED
        BY <2>8 DEF t
<1> QED
    BY <1>2, <1>3, ZAddFacts

LEMMA TrimmedSorted ==
    ASSUME NEW s \in Seq(Reports), Sorted(s)
    PROVE  Sorted(S!Trimmed(s)) /\ Range(S!Trimmed(s)) \subseteq Range(s)
<1> DEFINE t == S!Trimmed(s)
<1>1. /\ t \in Seq(Reports) /\ \A i \in 1..Len(t) : t[i] = s[i + (Len(s) - Len(t))]
      /\ Len(s) \in Nat /\ Len(t) \in 0..Len(s)
    BY TrimmedFacts, ReportsAssumption
<1> HIDE DEF t
<1>2. \A i \in 1..Len(t) : i + (Len(s) - Len(t)) \in 1..Len(s)
    BY <1>1
<1>3. \A i, j \in 1..Len(t) : i < j => i + (Len(s) - Len(t)) < j + (Len(s) - Len(t))
    BY <1>1
<1>4. DOMAIN t = 1..Len(t) /\ DOMAIN s = 1..Len(s)
    BY <1>1
<1>5. Sorted(t)
    BY <1>1, <1>2, <1>3, <1>4 DEF Sorted
<1>6. Range(t) \subseteq Range(s)
    BY <1>1, <1>2, <1>4 DEF Range
<1> QED
    BY <1>5, <1>6 DEF t

(* Stored reports that come after r.                                        *)
Later(s, r) == {q \in Range(s) : S!Before(r, q)}

LEMMA LaterFinite ==
    ASSUME NEW s \in Seq(Reports), NEW r
    PROVE  IsFiniteSet(Range(s)) /\ IsFiniteSet(Later(s, r)) /\ Cardinality(Later(s, r)) \in Nat
<1>1. s \in Surjection(1..Len(s), Range(s)) /\ Len(s) \in Nat
    BY DEF Surjection, Range
<1>2. IsFiniteSet(1..Len(s))
    BY <1>1, FirstNumbers
<1>3. IsFiniteSet(Range(s))
    BY <1>1, <1>2, FS_Surjection
<1> QED
    BY <1>3, FS_Subset, FS_CardinalityType DEF Later

(* A report that the trim drops has Limit others after it that stay.        *)
LEMMA TrimmedKeeps ==
    ASSUME NEW s \in Seq(Reports), Sorted(s), NEW r \in Reports,
           r \in Range(s) \/ Cardinality(Later(s, r)) >= Limit
    PROVE  LET t == S!Trimmed(s) IN r \in Range(t) \/ Cardinality(Later(t, r)) >= Limit
<1> DEFINE t == S!Trimmed(s)
           d == Len(s) - Len(t)
           G == r \in Range(t) \/ Cardinality(Later(t, r)) >= Limit
<1>1. /\ t \in Seq(Reports) /\ Sorted(t)
      /\ \A i \in 1..Len(t) : t[i] = s[i + d]
      /\ Len(t) = IF Len(s) > Limit THEN Limit ELSE Len(s)
      /\ Len(s) \in Nat /\ Limit \in Nat /\ Len(t) \in Nat
    BY TrimmedFacts, TrimmedSorted, ReportsAssumption
<1>2. ASSUME Len(s) <= Limit PROVE G
    <2>1. t = s
        BY <1>1, <1>2 DEF S!Trimmed
    <2> QED
        BY <2>1
<1> HIDE DEF t
<1>3. ASSUME Len(s) > Limit PROVE G
    <2>1. Len(t) = Limit /\ d = Len(s) - Limit /\ d \in Nat
        BY <1>1, <1>3
    <2> HIDE DEF d
    <2>2. CASE \A i \in 1..Limit : S!Before(r, t[i])
        <3>1. \A i \in 1..Limit : t[i] \in Reports
            BY <1>1, <2>1
        <3>2. t \in Bijection(1..Limit, Range(t))
            <4>1. t \in [1..Limit -> Range(t)] /\ \A q \in Range(t) : \E i \in 1..Limit : t[i] = q
                BY <1>1, <2>1 DEF Range
            <4>2. ASSUME NEW i \in 1..Limit, NEW j \in 1..Limit, t[i] = t[j] PROVE i = j
                <5>1. DOMAIN t = 1..Limit
                    BY <1>1, <2>1
                <5>2. \A k, l \in 1..Limit : k < l => S!Before(t[k], t[l])
                    BY <1>1, <5>1 DEF Sorted
                <5>3. ~S!Before(t[i], t[i]) /\ ~S!Before(t[j], t[j])
                    BY <3>1, BeforeOrder
                <5>4. ~(i < j) /\ ~(j < i)
                    BY <4>2, <5>2, <5>3
                <5> QED
                    BY <1>1, <5>4
            <4> QED
                BY <4>1, <4>2 DEF Bijection, Injection, Surjection, IsInjective
        <3>3. IsFiniteSet(1..Limit) /\ Cardinality(1..Limit) = Limit
            BY <1>1, FirstNumbers
        <3>4. Cardinality(Range(t)) = Limit
            BY <3>2, <3>3, FS_Bijection DEF ExistsBijection
        <3>5. Later(t, r) = Range(t)
            BY <1>1, <2>1, <2>2 DEF Later, Range
        <3> QED
            BY <1>1, <3>4, <3>5
    <2>3. CASE \E i \in 1..Limit : ~S!Before(r, t[i])
        <3>1. PICK i \in 1..Limit : ~S!Before(r, t[i])
            BY <2>3
        <3>2. PICK j \in 1..Len(s) : j = i + d /\ t[i] = s[j]
            <4>1. i + d \in 1..Len(s) /\ i \in 1..Len(t)
                BY <1>1, <1>3, <2>1
            <4>2. t[i] = s[i + d]
                BY <1>1, <4>1 DEF d
            <4> QED
                BY <4>1, <4>2
        <3>3. \A m \in 1..Len(s) : m <= j => ~S!Before(r, s[m])
            <4> SUFFICES ASSUME NEW m \in 1..Len(s), m <= j, S!Before(r, s[m]) PROVE FALSE
                OBVIOUS
            <4>1. s[m] \in Reports /\ s[j] \in Reports
                OBVIOUS
            <4>2. m = j \/ S!Before(s[m], s[j])
                BY DEF Sorted
            <4> QED
                BY <3>1, <3>2, <4>1, <4>2, BeforeOrder
        <3>4. CASE r \in Range(s)
            <4>1. PICK m \in 1..Len(s) : s[m] = r
                BY <3>4 DEF Range
            <4>2. m >= j
                <5>1. m < j => S!Before(s[m], s[j])
                    BY DEF Sorted
                <5> QED
                    BY <3>1, <3>2, <4>1, <5>1
            <4>3. m - d \in 1..Len(t) /\ (m - d) + d = m
                BY <1>1, <2>1, <3>2, <4>2
            <4>4. t[m - d] = r
                BY <1>1, <4>1, <4>3 DEF d
            <4> QED
                BY <1>1, <4>3, <4>4 DEF Range
        <3>5. CASE Cardinality(Later(s, r)) >= Limit
            <4> DEFINE A == j+1..Len(s)
                       f == [m \in A |-> s[m]]
                       B == {s[m] : m \in A}
            <4>1. j \in Nat /\ A \subseteq 1..Len(s)
                BY <1>1
            <4>2. IsFiniteSet(A) /\ Cardinality(A) <= Len(s) - j
                <5>1. j + 1 \in Int /\ Len(s) \in Int /\ j <= Len(s)
                    BY <1>1
                <5>2. IsFiniteSet(A) /\ Cardinality(A) = IF j + 1 > Len(s) THEN 0 ELSE Len(s) - (j + 1) + 1
                    BY <5>1, FS_Interval
                <5> HIDE DEF A
                <5> QED
                    BY <5>1, <5>2
            <4>3. f \in Surjection(A, B)
                BY DEF Surjection
            <4>4. Later(s, r) \subseteq B
                <5> SUFFICES ASSUME NEW m \in 1..Len(s), S!Before(r, s[m]) PROVE m \in A
                    BY DEF Later, Range
                <5> QED
                    BY <3>3, <4>1
            <4> HIDE DEF A, B, f
            <4>5. IsFiniteSet(B) /\ Cardinality(B) <= Cardinality(A)
                BY <4>2, <4>3, FS_Surjection
            <4>6. Cardinality(Later(s, r)) <= Cardinality(B)
                BY <4>4, <4>5, FS_Subset
            <4>7. Cardinality(A) \in Nat /\ Cardinality(B) \in Nat /\ Cardinality(Later(s, r)) \in Nat
                BY <4>2, <4>5, FS_CardinalityType, LaterFinite
            <4>8. Len(s) - j < Limit
                BY <1>1, <2>1, <3>2
            <4> QED
                BY <1>1, <3>5, <4>2, <4>5, <4>6, <4>7, <4>8
        <3> QED
            BY <3>4, <3>5
    <2> QED
        BY <2>2, <2>3
<1> QED
    BY <1>1, <1>2, <1>3 DEF t

-----------------------------------------------------------------------------
(* The steps of the storages                                                *)

(* A step saves in memory, is a step of a pipeline, lets a key expire,      *)
(* inserts a row, or leaves the reports alone.                              *)
LEMMA StorageSteps ==
    ASSUME S!Next \/ UNCHANGED storage
    PROVE  /\ backend' = backend
           /\ \/ \E r \in Reports : S!MemorySave(r)
              \/ \E r \in Reports, b \in {"mysql", "postgres"} : S!SQLSave(b, r)
              \/ \E w \in Writers, r \in Reports : S!RedisSave(w, r)
              \/ \E w \in Writers : S!RedisZAdd(w) \/ S!RedisTrim(w) \/ S!RedisExpire(w)
                \/ S!RedisRetry(w) \/ S!RedisCut(w)
              \/ \E k \in S!Kinds : S!RedisKeyExpires(k)
              \/ UNCHANGED <<recs, pipe, ttl, cut, bare, expired, acked, arrived>>
<1>1. ASSUME NEW w \in Writers, NEW r \in Reports, S!Save(w, r)
      PROVE  /\ backend' = backend
             /\ S!MemorySave(r) \/ S!RedisSave(w, r) \/ \E b \in {"mysql", "postgres"} : S!SQLSave(b, r)
    <2>1. S!MemorySave(r) \/ S!RedisSave(w, r) \/ \E b \in {"mysql", "postgres"} : S!SQLSave(b, r)
        BY <1>1 DEF S!Save, S!MemorySaveLocation, S!MemorySaveAlarm, S!RedisSaveLocation,
            S!RedisSaveAlarm, S!MySQLSaveLocation, S!MySQLSaveAlarm, S!PostgresSaveLocation,
            S!PostgresSaveAlarm
    <2>2. backend' = backend
        BY <2>1 DEF S!MemorySave, S!RedisSave, S!SQLSave
    <2> QED
        BY <2>1, <2>2
<1>2. ASSUME NEW w \in Writers, S!Pipeline(w)
      PROVE  /\ backend' = backend
             /\ S!RedisZAdd(w) \/ S!RedisTrim(w) \/ S!RedisExpire(w)
                \/ S!RedisRetry(w) \/ S!RedisCut(w)
    BY <1>2 DEF S!Pipeline, S!RedisZAdd, S!RedisTrim, S!RedisExpire, S!RedisRetry, S!RedisCut
<1>3. ASSUME NEW k \in S!Kinds, S!RedisKeyExpires(k) PROVE backend' = backend
    BY <1>3 DEF S!RedisKeyExpires
<1>4. ASSUME NEW d \in Terminals, S!Device(d)
      PROVE  UNCHANGED <<backend, recs, pipe, ttl, cut, bare, expired, acked, arrived>>
    BY <1>4 DEF S!Device, S!MemorySaveDevice, S!RedisSaveDevice, S!MySQLSaveDevice,
        S!PostgresSaveDevice, S!SQLSaveDevice, S!MemoryUpdateStatus, S!RedisUpdateStatus,
        S!MySQLUpdateStatus, S!PostgresUpdateStatus, S!SQLUpdateStatus, S!reportVars
<1>5. CASE UNCHANGED storage
    BY <1>5 DEF storage
<1> QED
    BY <1>1, <1>2, <1>3, <1>4, <1>5 DEF S!Next, S!ReportNext, S!DeviceNext

LEMMA AppendFacts ==
    ASSUME NEW s \in Seq(Reports), NEW r \in Reports
    PROVE  LET t == Append(s, r) IN
           /\ t \in Seq(Reports) /\ Len(t) = Len(s) + 1 /\ Len(s) \in Nat
           /\ Range(t) = Range(s) \cup {r}
<1>1. /\ Len(s) \in Nat /\ DOMAIN s = 1..Len(s) /\ DOMAIN Append(s, r) = 1..Len(s) + 1
      /\ Append(s, r)[Len(s) + 1] = r /\ \A i \in 1..Len(s) : Append(s, r)[i] = s[i]
    BY LenProperties, AppendProperties
<1>2. /\ Append(s, r) \in Seq(Reports) /\ Len(Append(s, r)) = Len(s) + 1
    OBVIOUS
<1>3. /\ \A i \in 1..Len(s) + 1 : i \in 1..Len(s) \/ i = Len(s) + 1
      /\ \A i \in 1..Len(s) : i \in 1..Len(s) + 1
      /\ Len(s) + 1 \in 1..Len(s) + 1
    BY <1>1
<1> DEFINE t == Append(s, r)
           e == Len(s) + 1
<1> HIDE DEF t, e
<1>4. /\ \A i \in DOMAIN t : i \in DOMAIN s \/ i = e
      /\ \A i \in DOMAIN s : i \in DOMAIN t /\ t[i] = s[i]
      /\ e \in DOMAIN t /\ t[e] = r
    BY <1>1, <1>3 DEF t, e
<1>5. Range(t) = Range(s) \cup {r}
    BY <1>4 DEF Range
<1> QED
    BY <1>1, <1>2, <1>5 DEF t

LEMMA InitReports == Init => ReportTypes
<1> SUFFICES ASSUME S!Init PROVE ReportTypes
    BY DEF Init
<1>1. <<>> \in Seq(Reports)
    OBVIOUS
<1>2. S!Idle \in [step : Steps, rep : Reports \cup {S!Idle.rep}] /\ S!Idle.step = "none"
    BY DEF S!Idle, Steps
<1>3. \A w \in Writers : pipe[w] = S!Idle
    BY DEF S!Init
<1>4. recs \in [S!Kinds -> Seq(Reports)]
    BY <1>1 DEF S!Init
<1>5. pipe \in [Writers -> [step : Steps, rep : Reports \cup {S!Idle.rep}]]
    BY <1>2 DEF S!Init
<1> QED
    BY <1>2, <1>3, <1>4, <1>5 DEF S!Init, ReportTypes, Backends

(* What the steps of a pipeline do to it.                                   *)
LEMMA PipeMoves ==
    ASSUME ReportTypes, NEW w \in Writers, NEW to \in Steps,
           pipe[w].step # "none", pipe' = [pipe EXCEPT ![w].step = to]
    PROVE  /\ pipe' \in [Writers -> [step : Steps, rep : Reports \cup {S!Idle.rep}]]
           /\ pipe'[w].step = to /\ pipe'[w].rep = pipe[w].rep
           /\ pipe[w].rep \in Reports /\ pipe[w].rep.kind \in S!Kinds /\ backend = "redis"
           /\ \A v \in Writers \ {w} : pipe'[v] = pipe[v]
    BY ReportFacts DEF ReportTypes

LEMMA StepReports == ReportTypes /\ (S!Next \/ UNCHANGED storage) => ReportTypes'
<1> SUFFICES ASSUME ReportTypes, S!Next \/ UNCHANGED storage PROVE ReportTypes'
    OBVIOUS
<1>0. backend' = backend /\ backend \in Backends
    BY StorageSteps DEF ReportTypes
<1> DEFINE Pipes == [Writers -> [step : Steps, rep : Reports \cup {S!Idle.rep}]]
<1>1. ASSUME NEW r \in Reports, S!MemorySave(r) PROVE ReportTypes'
    <2>1. /\ recs' = [recs EXCEPT ![r.kind] = S!Trimmed(Append(@, r))]
          /\ acked' = acked \cup {r} /\ pipe' = pipe
        BY <1>1 DEF S!MemorySave
    <2>2. r.kind \in S!Kinds /\ recs[r.kind] \in Seq(Reports)
        BY ReportFacts DEF ReportTypes
    <2>3. S!Trimmed(Append(recs[r.kind], r)) \in Seq(Reports)
        BY <2>2, AppendFacts, TrimmedFacts
    <2> QED
        BY <1>0, <2>1, <2>3 DEF ReportTypes
<1>2. ASSUME NEW r \in Reports, NEW b \in {"mysql", "postgres"}, S!SQLSave(b, r) PROVE ReportTypes'
    <2>1. /\ recs' = recs \/ recs' = [recs EXCEPT ![r.kind] = Append(@, r)]
          /\ acked' \subseteq acked \cup {r} /\ pipe' = pipe
        BY <1>2 DEF S!SQLSave
    <2>2. r.kind \in S!Kinds /\ recs[r.kind] \in Seq(Reports)
        BY ReportFacts DEF ReportTypes
    <2>3. Append(recs[r.kind], r) \in Seq(Reports)
        BY <2>2, AppendFacts
    <2> QED
        BY <1>0, <2>1, <2>3 DEF ReportTypes
<1>3. ASSUME NEW w \in Writers, NEW r \in Reports, S!RedisSave(w, r) PROVE ReportTypes'
    <2>1. /\ backend = "redis" /\ pipe' = [pipe EXCEPT ![w] = [step |-> "zadd", rep |-> r]]
          /\ UNCHANGED <<recs, acked>>
        BY <1>3 DEF S!RedisSave
    <2>2. /\ pipe' \in Pipes /\ pipe'[w] = [step |-> "zadd", rep |-> r]
          /\ \A v \in Writers \ {w} : pipe'[v] = pipe[v]
        BY <2>1 DEF ReportTypes, Steps
    <2> QED
        BY <1>0, <2>1, <2>2 DEF ReportTypes
<1>4. ASSUME NEW w \in Writers,
             S!RedisZAdd(w) \/ S!RedisTrim(w) \/ S!RedisExpire(w)
                \/ S!RedisRetry(w) \/ S!RedisCut(w)
      PROVE  ReportTypes'
    <2> DEFINE r == pipe[w].rep
    <2>1. /\ pipe[w].step # "none"
          /\ \E to \in Steps : pipe' = [pipe EXCEPT ![w].step = to]
          /\ \/ recs' = recs
             \/ recs' = [recs EXCEPT ![r.kind] = S!ZAdd(@, r)]
             \/ recs' = [recs EXCEPT ![r.kind] = S!Trimmed(@)]
          /\ acked' \subseteq acked \cup {r}
        BY <1>4 DEF S!RedisZAdd, S!RedisTrim, S!RedisExpire, S!RedisRetry, S!RedisCut, Steps
    <2>2. /\ pipe' \in Pipes /\ pipe'[w].rep = r /\ r \in Reports /\ r.kind \in S!Kinds
          /\ backend = "redis" /\ \A v \in Writers \ {w} : pipe'[v] = pipe[v]
        BY <2>1, PipeMoves
    <2> HIDE DEF r
    <2>3. S!ZAdd(recs[r.kind], r) \in Seq(Reports) /\ S!Trimmed(recs[r.kind]) \in Seq(Reports)
        <3>1. recs[r.kind] \in Seq(Reports)
            BY <2>2 DEF ReportTypes
        <3> QED
            BY <2>2, <3>1, ZAddFacts, TrimmedFacts
    <2>4. recs' \in [S!Kinds -> Seq(Reports)]
        BY <2>1, <2>3 DEF ReportTypes
    <2>5. acked' \subseteq Reports
        BY <2>1, <2>2 DEF ReportTypes
    <2>6. \A v \in Writers : pipe'[v].step # "none" => pipe'[v].rep \in Reports
        BY <2>2 DEF ReportTypes
    <2> QED
        BY <1>0, <2>2, <2>4, <2>5, <2>6 DEF ReportTypes
<1>5. ASSUME NEW k \in S!Kinds, S!RedisKeyExpires(k) PROVE ReportTypes'
    <2>1. recs' = [recs EXCEPT ![k] = <<>>] /\ UNCHANGED <<pipe, acked>>
        BY <1>5 DEF S!RedisKeyExpires
    <2>2. <<>> \in Seq(Reports)
        OBVIOUS
    <2> QED
        BY <1>0, <2>1, <2>2 DEF ReportTypes
<1>6. ASSUME UNCHANGED <<recs, pipe, ttl, cut, bare, expired, acked, arrived>> PROVE ReportTypes'
    BY <1>0, <1>6 DEF ReportTypes
<1> QED
    BY <1>1, <1>2, <1>3, <1>4, <1>5, <1>6, StorageSteps

-----------------------------------------------------------------------------
(* Pipelines                                                                *)

(* A writer's pipeline is at one of these commands for kind k.              *)
At(k, commands) == \E w \in Writers : pipe[w].step \in commands /\ pipe[w].rep.kind = k

(* A key that is too long will be trimmed, and one without expiry gets one, *)
(* unless that pipeline was cut short.                                      *)
Settling ==
    backend = "redis" => \A k \in S!Kinds : recs[k] # <<>> =>
        /\ Len(recs[k]) <= Limit \/ k \in cut \/ At(k, {"zadd", "trim"})
        /\ k \in ttl \/ k \in bare \/ At(k, {"zadd", "trim", "expire"})

LEMMA StepSettling ==
    ReportTypes /\ Settling /\ (S!Next \/ UNCHANGED storage) => Settling'
<1> SUFFICES ASSUME ReportTypes, Settling, S!Next \/ UNCHANGED storage, backend = "redis",
                    NEW k \in S!Kinds, recs'[k] # <<>>
             PROVE  /\ Len(recs'[k]) <= Limit \/ k \in cut' \/ At(k, {"zadd", "trim"})'
                    /\ k \in ttl' \/ k \in bare' \/ At(k, {"zadd", "trim", "expire"})'
    BY StorageSteps DEF Settling
<1>0. recs \in [S!Kinds -> Seq(Reports)]
    BY DEF ReportTypes
<1>1. ASSUME NEW w \in Writers, NEW r \in Reports, S!RedisSave(w, r)
      PROVE  /\ Len(recs'[k]) <= Limit \/ k \in cut' \/ At(k, {"zadd", "trim"})'
             /\ k \in ttl' \/ k \in bare' \/ At(k, {"zadd", "trim", "expire"})'
    <2>1. /\ pipe[w].step = "none" /\ pipe' = [pipe EXCEPT ![w] = [step |-> "zadd", rep |-> r]]
          /\ UNCHANGED <<recs, ttl, cut, bare>>
        BY <1>1 DEF S!RedisSave
    <2>2. \A v \in Writers : pipe[v].step # "none" => pipe'[v] = pipe[v]
        BY <2>1 DEF ReportTypes
    <2> QED
        BY <2>1, <2>2 DEF Settling, At
<1>2. ASSUME NEW w \in Writers, pipe[w].step # "none",
             S!RedisZAdd(w) \/ S!RedisTrim(w) \/ S!RedisExpire(w)
                \/ S!RedisRetry(w) \/ S!RedisCut(w)
      PROVE  /\ Len(recs'[k]) <= Limit \/ k \in cut' \/ At(k, {"zadd", "trim"})'
             /\ k \in ttl' \/ k \in bare' \/ At(k, {"zadd", "trim", "expire"})'
    <2> DEFINE c == pipe[w].rep.kind
    <2>1. /\ pipe'[w].rep = pipe[w].rep /\ c \in S!Kinds
          /\ \A v \in Writers \ {w} : pipe'[v] = pipe[v]
        BY <1>2, PipeMoves DEF S!RedisZAdd, S!RedisTrim, S!RedisExpire, S!RedisRetry, S!RedisCut, Steps
    <2>2. CASE k # c
        <3>1. recs'[k] = recs[k] /\ (k \in cut => k \in cut') /\ (k \in bare => k \in bare')
              /\ (k \in ttl => k \in ttl')
            BY <1>0, <1>2, <2>2 DEF S!RedisZAdd, S!RedisTrim, S!RedisExpire, S!RedisRetry, S!RedisCut
        <3>2. \A commands : At(k, commands) => At(k, commands)'
            BY <2>1, <2>2 DEF At
        <3> QED
            BY <3>1, <3>2 DEF Settling
    <2>3. CASE k = c /\ S!RedisZAdd(w)
        <3>1. pipe'[w].step = "trim"
            BY <1>2, <2>3, PipeMoves DEF S!RedisZAdd, Steps
        <3> QED
            BY <2>1, <2>3, <3>1 DEF At
    <2>4. CASE k = c /\ S!RedisTrim(w)
        <3>1. pipe'[w].step = "expire" /\ recs'[k] = S!Trimmed(recs[k])
            BY <1>0, <1>2, <2>1, <2>4, PipeMoves DEF S!RedisTrim, Steps
        <3>2. recs[k] \in Seq(Reports)
            BY <1>0
        <3>3. Len(S!Trimmed(recs[k])) <= Limit
            BY <3>2, TrimmedFacts, ReportsAssumption
        <3> QED
            BY <2>1, <2>4, <3>1, <3>3 DEF At
    <2>5. CASE k = c /\ S!RedisExpire(w)
        <3>1. /\ pipe[w].step = "expire" /\ recs' = recs /\ cut' = cut
              /\ ttl' = IF recs[k] = <<>> THEN ttl ELSE ttl \cup {k}
            BY <2>5 DEF S!RedisExpire
        <3>2. At(k, {"zadd", "trim"}) => At(k, {"zadd", "trim"})'
            BY <2>1, <3>1 DEF At
        <3> QED
            BY <3>1, <3>2 DEF Settling
    <2>6. CASE k = c /\ S!RedisCut(w)
        BY <2>6 DEF S!RedisCut
    <2>7. CASE k = c /\ S!RedisRetry(w)
        <3>1. pipe'[w].step = "zadd"
            BY <1>2, <2>7, PipeMoves DEF S!RedisRetry, Steps
        <3> QED
            BY <2>1, <2>7, <3>1 DEF At
    <2> QED
        BY <1>2, <2>2, <2>3, <2>4, <2>5, <2>6, <2>7
<1>3. ASSUME NEW l \in S!Kinds, S!RedisKeyExpires(l)
      PROVE  /\ Len(recs'[k]) <= Limit \/ k \in cut' \/ At(k, {"zadd", "trim"})'
             /\ k \in ttl' \/ k \in bare' \/ At(k, {"zadd", "trim", "expire"})'
    <2>1. k # l
        BY <1>0, <1>3 DEF S!RedisKeyExpires
    <2>2. recs'[k] = recs[k] /\ ttl' = ttl \ {l} /\ UNCHANGED <<pipe, cut, bare>>
        BY <1>0, <1>3, <2>1 DEF S!RedisKeyExpires
    <2> QED
        BY <2>1, <2>2 DEF Settling, At
<1>4. ASSUME UNCHANGED <<recs, pipe, ttl, cut, bare, expired, acked, arrived>>
      PROVE  /\ Len(recs'[k]) <= Limit \/ k \in cut' \/ At(k, {"zadd", "trim"})'
             /\ k \in ttl' \/ k \in bare' \/ At(k, {"zadd", "trim", "expire"})'
    BY <1>4 DEF Settling, At
<1>5. \A r \in Reports : ~S!MemorySave(r) /\ \A b \in {"mysql", "postgres"} : ~S!SQLSave(b, r)
    BY DEF S!MemorySave, S!SQLSave
<1>6. \A w \in Writers :
        S!RedisZAdd(w) \/ S!RedisTrim(w) \/ S!RedisExpire(w)
                \/ S!RedisRetry(w) \/ S!RedisCut(w)
            => pipe[w].step # "none"
    BY DEF S!RedisZAdd, S!RedisTrim, S!RedisExpire, S!RedisRetry, S!RedisCut
<1> QED
    BY <1>1, <1>2, <1>3, <1>4, <1>5, <1>6, StorageSteps

(* Once no pipeline is under way a Redis key is within the limit and will   *)
(* expire, unless one was cut short.                                        *)
THEOREM PipelineSettlesHolds == Spec => []PipelineSettles
<1>1. Init => ReportTypes /\ Settling
    BY InitReports DEF Init, S!Init, Settling
<1>2. ReportTypes /\ Settling /\ [Next]_vars => (ReportTypes /\ Settling)'
    BY StepReports, StepSettling, StepOf
<1>3. ReportTypes /\ Settling => PipelineSettles
    BY DEF Settling, At, PipelineSettles, S!PipelineSettles
<1> QED
    BY <1>1, <1>2, <1>3, PTL DEF Spec

(* How far two times are apart.                                             *)
LEMMA ApartFacts ==
    \A m, n \in Nat :
        /\ S!Apart(m, n) \in Nat
        /\ \A c \in Nat : m <= n + c /\ n <= m + c => S!Apart(m, n) <= c
        /\ m <= n + S!Apart(m, n) /\ n <= m + S!Apart(m, n)
    BY DEF S!Apart

(* A backend puts a report on the same side of a bound as the times do,     *)
(* unless it may misjudge it there.                                         *)
LEMMA SidesAgree ==
    ASSUME NEW r \in Reports, NEW b \in Bounds
    PROVE  /\ backend = "redis" =>
                /\ b.time <= r.time => S!Unix(b.time) <= S!Unix(r.time)
                /\ r.time <= b.time => S!Unix(r.time) <= S!Unix(b.time)
                /\ S!Blurred(r, b)
                    \/ /\ b.time <= r.time <=> S!Unix(b.time) <= S!Unix(r.time)
                       /\ r.time <= b.time <=> S!Unix(r.time) <= S!Unix(b.time)
           /\ backend = "mysql" =>
                \/ S!Blurred(r, b)
                \/ /\ b.time <= r.time <=> b.time <= S!Rounded(r.time)
                   /\ r.time <= b.time <=> S!Rounded(r.time) <= b.time
           /\ backend = "postgres" =>
                \/ S!Blurred(r, b)
                \/ /\ b.time <= r.time <=> S!Wall(b) <= S!Wall(r)
                   /\ r.time <= b.time <=> S!Wall(r) <= S!Wall(b)
<1> DEFINE t == r.time
           u == b.time
           y == r.zone
           z == b.zone
<1>1. t \in Nat /\ u \in Nat /\ y \in Nat /\ z \in Nat
    BY ReportFacts, ReportsAssumption
<1>2. CASE backend = "redis"
    <2> DEFINE m == S!Unix(t)
               n == S!Unix(u)
    <2>1. m \in Nat /\ 4 * m <= t /\ t < 4 * m + 4 /\ n \in Nat /\ 4 * n <= u /\ u < 4 * n + 4
        BY <1>1, ReportFacts
    <2> HIDE DEF m, n
    <2>2. (u <= t => n <= m) /\ (t <= u => m <= n)
        BY <1>1, <2>1
    <2>3. ~(u <= t <=> n <= m) \/ ~(t <= u <=> m <= n) => S!Apart(t, u) < 4
        <3>1. ~(u <= t <=> n <= m) \/ ~(t <= u <=> m <= n) => m = n
            BY <1>1, <2>1
        <3>2. m = n => t <= u + 3 /\ u <= t + 3
            BY <1>1, <2>1
        <3>3. t <= u + 3 /\ u <= t + 3 => S!Apart(t, u) <= 3
            BY <1>1, ApartFacts
        <3>4. S!Apart(t, u) \in Nat
            BY <1>1, ApartFacts
        <3> QED
            BY <3>1, <3>2, <3>3, <3>4
    <2> QED
        BY <1>2, <2>2, <2>3 DEF S!Blurred, S!Second, m, n
<1>3. CASE backend = "mysql"
    <2> DEFINE e == t + 2
               m == S!Unix(e)
    <2>0. S!Rounded(t) = m * 4
        <3>1. S!Second \div 2 = 2
            BY DEF S!Second
        <3> QED
            BY <3>1 DEF S!Rounded, S!Second
    <2>1. e \in Nat /\ e = t + 2
        BY <1>1
    <2> HIDE DEF e
    <2>2. m \in Nat /\ 4 * m <= t + 2 /\ t + 2 < 4 * m + 4
        BY <2>1, ReportFacts
    <2> HIDE DEF m
    <2>3. ~(u <= t <=> u <= m * 4) \/ ~(t <= u <=> m * 4 <= u) => t <= u + 2 /\ u <= t + 2
        BY <1>1, <2>2
    <2>4. t <= u + 2 /\ u <= t + 2 => S!Apart(t, u) <= 2
        BY <1>1, ApartFacts
    <2>5. S!Apart(t, u) \in Nat
        BY <1>1, ApartFacts
    <2>6. S!Apart(t, u) <= 2 => 2 * S!Apart(t, u) <= 4
        BY <2>5
    <2> QED
        BY <1>3, <2>0, <2>3, <2>4, <2>6 DEF S!Blurred, S!Second
<1>4. CASE backend = "postgres"
    <2>1. S!Wall(r) = t + y /\ S!Wall(b) = u + z
        BY DEF S!Wall
    <2> DEFINE c == S!Apart(y, z)
    <2>2. c \in Nat /\ y <= z + c /\ z <= y + c
        BY <1>1, ApartFacts
    <2> HIDE DEF c
    <2>3. ~(u <= t <=> u + z <= t + y) \/ ~(t <= u <=> t + y <= u + z)
            => y # z /\ t <= u + c /\ u <= t + c
        BY <1>1, <2>2
    <2>4. t <= u + c /\ u <= t + c => S!Apart(t, u) <= c
        BY <1>1, <2>2, ApartFacts
    <2> QED
        BY <1>4, <2>1, <2>3, <2>4 DEF S!Blurred, c
<1> QED
    BY <1>2, <1>3, <1>4

(* A query returns what is stored from start to end, those reports apart    *)
(* that the backend may misjudge at a bound.                                *)
THEOREM QueryExactHolds == Spec => []QueryExact
<1>1. ReportTypes /\ [Next]_vars => ReportTypes'
    BY StepReports, StepOf
<1>2. ReportTypes => QueryExact
    <2> SUFFICES ASSUME ReportTypes, NEW k \in S!Kinds, NEW start \in Bounds, NEW end \in Bounds
                 PROVE  LET result == S!Got(k, start, end)
                            exact == {r \in S!Stored(k) : start.time <= r.time /\ r.time <= end.time}
                        IN  /\ result \subseteq S!Stored(k)
                            /\ backend = "redis" => exact \subseteq result
                            /\ \A r \in S!Stored(k) :
                                \/ r \in result <=> r \in exact
                                \/ S!Blurred(r, start) \/ S!Blurred(r, end)
        BY DEF QueryExact, S!QueryExact
    <2>1. S!Stored(k) \subseteq Reports /\ backend \in Backends /\ k \in {"location", "alarm"}
        BY DEF ReportTypes, S!Stored, S!Kinds
    <2>2. CASE backend = "redis"
        <3>1. S!Got(k, start, end) =
                {r \in S!Stored(k) : S!Unix(start.time) <= S!Unix(r.time)
                                        /\ S!Unix(r.time) <= S!Unix(end.time)}
            BY <2>1, <2>2 DEF S!Got, S!RedisGetLocations, S!RedisGetAlarms, S!RedisGet
        <3> QED
            BY <2>1, <2>2, <3>1, SidesAgree
    <2>3. CASE backend = "mysql"
        <3>1. S!Got(k, start, end) =
                {r \in S!Stored(k) : start.time <= S!Rounded(r.time) /\ S!Rounded(r.time) <= end.time}
            BY <2>1, <2>3 DEF S!Got, S!MySQLGetLocations, S!MySQLGetAlarms, S!MySQLGet
        <3> QED
            BY <2>1, <2>3, <3>1, SidesAgree
    <2>4. CASE backend = "postgres"
        <3>1. S!Got(k, start, end) =
                {r \in S!Stored(k) : S!Wall(start) <= S!Wall(r) /\ S!Wall(r) <= S!Wall(end)}
            BY <2>1, <2>4 DEF S!Got, S!PostgresGetLocations, S!PostgresGetAlarms, S!PostgresGet
        <3> QED
            BY <2>1, <2>4, <3>1, SidesAgree
    <2>5. CASE backend = "memory"
        <3>1. S!Got(k, start, end) =
                {r \in S!Stored(k) : ~(r.time < start.time) /\ ~(r.time > end.time)}
            BY <2>1, <2>5 DEF S!Got, S!MemoryGetLocations, S!MemoryGetAlarms, S!MemoryGet
        <3>2. \A r \in S!Stored(k) : r.time \in Nat
            BY <2>1, ReportFacts
        <3>3. start.time \in Nat /\ end.time \in Nat
            BY ReportsAssumption
        <3>4. \A r \in S!Stored(k) :
                ~(r.time < start.time) /\ ~(r.time > end.time)
                    <=> start.time <= r.time /\ r.time <= end.time
            BY <3>2, <3>3
        <3> QED
            BY <2>5, <3>1, <3>4
    <2> QED
        BY <2>1, <2>2, <2>3, <2>4, <2>5 DEF Backends
<1> QED
    BY <1>1, <1>2, InitReports, PTL DEF Spec

-----------------------------------------------------------------------------
(* Acknowledged reports                                                     *)

(* What AckedKept says of an acknowledged report.                           *)
Kept(r) ==
    \/ r \in Range(recs[r.kind])
    \/ backend = "redis" /\ r \in expired
    \/ backend = "memory" /\ Len(arrived[r.kind]) > Limit
    \/ backend = "redis" /\ Cardinality(Later(recs[r.kind], r)) >= Limit

(* Memory holds the last arrivals.                                          *)
Arrivals ==
    /\ arrived \in [S!Kinds -> Seq(Reports)]
    /\ backend = "memory" => \A k \in S!Kinds : recs[k] = S!Trimmed(arrived[k])

(* Trimming before the next arrival makes no difference.                    *)
LEMMA TrimmedAppend ==
    ASSUME NEW s \in Seq(Reports), NEW r \in Reports
    PROVE  S!Trimmed(Append(S!Trimmed(s), r)) = S!Trimmed(Append(s, r))
<1>1. CASE ~(Len(s) > Limit)
    BY <1>1 DEF S!Trimmed
<1>2. CASE Len(s) > Limit
    <2> DEFINE t == S!Trimmed(s)
               a == Append(t, r)
               b == Append(s, r)
               u == S!Trimmed(a)
               v == S!Trimmed(b)
    <2>1. /\ t \in Seq(Reports) /\ Len(t) = Limit /\ Limit \in Nat /\ Len(s) \in Nat
          /\ \A i \in 1..Limit : t[i] = s[i + (Len(s) - Limit)]
        <3>1. /\ t \in Seq(Reports) /\ Len(t) = IF Len(s) > Limit THEN Limit ELSE Len(s)
              /\ \A i \in 1..Len(t) : t[i] = s[i + (Len(s) - Len(t))]
            BY TrimmedFacts
        <3>2. Len(t) = Limit /\ Limit \in Nat /\ Len(s) \in Nat
            BY <1>2, <3>1, LenProperties, ReportsAssumption
        <3> HIDE DEF t
        <3>3. \A i \in 1..Limit : t[i] = s[i + (Len(s) - Limit)]
            BY <3>1, <3>2
        <3> QED
            BY <3>1, <3>2, <3>3
    <2> HIDE DEF t
    <2>2. /\ a \in Seq(Reports) /\ Len(a) = Limit + 1 /\ a[Limit + 1] = r
          /\ \A i \in 1..Limit : a[i] = t[i]
        BY <2>1, AppendProperties
    <2>3. /\ b \in Seq(Reports) /\ Len(b) = Len(s) + 1 /\ b[Len(s) + 1] = r
          /\ \A i \in 1..Len(s) : b[i] = s[i]
        BY <2>1, AppendProperties
    <2> HIDE DEF a, b
    <2>4. /\ u \in Seq(Reports) /\ Len(u) = Limit
          /\ \A i \in 1..Limit : u[i] = a[i + 1]
        <3>1. Len(a) > Limit /\ Len(a) - Limit = 1
            BY <2>1, <2>2
        <3> QED
            BY <2>2, <3>1, TrimmedFacts
    <2>5. /\ v \in Seq(Reports) /\ Len(v) = Limit
          /\ \A i \in 1..Limit : v[i] = b[i + (Len(s) + 1 - Limit)]
        <3>1. Len(b) > Limit
            BY <1>2, <2>1, <2>3
        <3>2. /\ v \in Seq(Reports) /\ Len(v) = IF Len(b) > Limit THEN Limit ELSE Len(b)
              /\ \A i \in 1..Len(v) : v[i] = b[i + (Len(b) - Len(v))]
            BY <2>3, TrimmedFacts
        <3> HIDE DEF v
        <3> QED
            BY <2>3, <3>1, <3>2
    <2> HIDE DEF u, v
    <2>6. ASSUME NEW i \in 1..Limit PROVE u[i] = v[i]
        <3>1. u[i] = a[i + 1] /\ v[i] = b[i + (Len(s) + 1 - Limit)]
            BY <2>4, <2>5
        <3>2. CASE i = Limit
            BY <2>1, <2>2, <2>3, <3>1, <3>2
        <3>3. CASE i # Limit
            <4> DEFINE j == i + 1
                       d == Len(s) - Limit
            <4>1. j \in 1..Limit /\ j + d \in 1..Len(s) /\ i + (Len(s) + 1 - Limit) = j + d
                BY <1>2, <2>1, <3>3
            <4>2. a[j] = t[j] /\ t[j] = s[j + d]
                BY <2>1, <2>2, <4>1
            <4>3. b[j + d] = s[j + d]
                BY <2>3, <4>1
            <4> QED
                BY <3>1, <4>1, <4>2, <4>3
        <3> QED
            BY <3>2, <3>3
    <2>7. u = v
        BY <2>1, <2>4, <2>5, <2>6, SeqEqual
    <2> QED
        BY <2>7 DEF u, v, a, b, t
<1> QED
    BY <1>1, <1>2

LEMMA StepArrivals ==
    ASSUME ReportTypes, ttl # {} => backend = "redis", Arrivals, S!Next \/ UNCHANGED storage
    PROVE  Arrivals'
<1>0. backend' = backend
    BY StorageSteps
<1>1. ASSUME NEW r \in Reports, S!MemorySave(r) PROVE Arrivals'
    <2>1. /\ backend = "memory" /\ recs' = [recs EXCEPT ![r.kind] = S!Trimmed(Append(@, r))]
          /\ arrived' = [arrived EXCEPT ![r.kind] = Append(@, r)]
        BY <1>1 DEF S!MemorySave
    <2>2. /\ r.kind \in S!Kinds /\ arrived[r.kind] \in Seq(Reports)
          /\ \A k \in S!Kinds : recs[k] = S!Trimmed(arrived[k])
        BY <2>1, ReportFacts DEF Arrivals
    <2>3. Append(arrived[r.kind], r) \in Seq(Reports)
        BY <2>2, AppendFacts
    <2>4. S!Trimmed(Append(recs[r.kind], r)) = S!Trimmed(Append(arrived[r.kind], r))
        BY <2>2, TrimmedAppend
    <2>5. /\ arrived' \in [S!Kinds -> Seq(Reports)]
          /\ arrived'[r.kind] = Append(arrived[r.kind], r)
          /\ \A k \in S!Kinds \ {r.kind} : arrived'[k] = arrived[k]
        BY <2>1, <2>2, <2>3 DEF Arrivals
    <2>6. /\ recs'[r.kind] = S!Trimmed(Append(recs[r.kind], r))
          /\ \A k \in S!Kinds \ {r.kind} : recs'[k] = recs[k]
        BY <2>1, <2>2 DEF ReportTypes
    <2>7. \A k \in S!Kinds : recs'[k] = S!Trimmed(arrived'[k])
        BY <2>2, <2>4, <2>5, <2>6
    <2> QED
        BY <2>5, <2>7 DEF Arrivals
<1>2. ASSUME backend # "memory", UNCHANGED arrived PROVE Arrivals'
    BY <1>0, <1>2 DEF Arrivals
<1>3. ASSUME UNCHANGED <<recs, arrived>> PROVE Arrivals'
    BY <1>0, <1>3 DEF Arrivals
<1>4. ASSUME NEW w \in Writers, S!RedisZAdd(w) \/ S!RedisTrim(w) \/ S!RedisExpire(w)
                                    \/ S!RedisRetry(w) \/ S!RedisCut(w)
      PROVE  UNCHANGED arrived /\ backend # "memory"
    <2>1. pipe[w].step # "none" /\ UNCHANGED arrived
        BY <1>4 DEF S!RedisZAdd, S!RedisTrim, S!RedisExpire, S!RedisRetry, S!RedisCut
    <2> QED
        BY <2>1 DEF ReportTypes
<1> QED
    BY <1>1, <1>2, <1>3, <1>4, StorageSteps DEF S!SQLSave, S!RedisSave, S!RedisKeyExpires

(* It is true from ZADD on, before the pipeline is acknowledged, and the    *)
(* keys of Redis are in order.                                              *)
Keeping ==
    /\ \A r \in acked : Kept(r)
    /\ \A w \in Writers, r \in Reports :
        pipe[w].step \in {"trim", "expire"} /\ pipe[w].rep = r => Kept(r)
    /\ backend = "redis" => \A k \in S!Kinds : Sorted(recs[k])
    /\ ttl # {} => backend = "redis"
    /\ Arrivals

(* Adding reports takes none from those that come later.                    *)
LEMMA LaterGrows ==
    ASSUME NEW s \in Seq(Reports), NEW t \in Seq(Reports), Range(s) \subseteq Range(t), NEW r
    PROVE  Cardinality(Later(s, r)) >= Limit => Cardinality(Later(t, r)) >= Limit
<1>1. Later(s, r) \subseteq Later(t, r)
    BY DEF Later
<1>2. IsFiniteSet(Later(t, r)) /\ Cardinality(Later(t, r)) \in Nat /\ Cardinality(Later(s, r)) \in Nat
    BY LaterFinite
<1>3. Cardinality(Later(s, r)) <= Cardinality(Later(t, r))
    BY <1>1, <1>2, FS_Subset
<1> QED
    BY <1>2, <1>3, ReportsAssumption

(* No step of a storage loses a report that is kept.                        *)
LEMMA StepKept ==
    ASSUME ReportTypes, backend = "redis" => \A k \in S!Kinds : Sorted(recs[k]),
           ttl # {} => backend = "redis", Arrivals, S!Next \/ UNCHANGED storage
    PROVE  /\ \A q \in Reports : Kept(q) => Kept(q)'
           /\ backend = "redis" => \A k \in S!Kinds : Sorted(recs'[k])
<1> DEFINE Fine == /\ \A q \in Reports : Kept(q) => Kept(q)'
                   /\ backend = "redis" => \A k \in S!Kinds : Sorted(recs'[k])
<1>0. /\ backend' = backend /\ \A q \in Reports : q.kind \in S!Kinds /\ recs[q.kind] \in Seq(Reports)
      /\ \A k \in S!Kinds : recs[k] \in Seq(Reports)
    BY StorageSteps, ReportFacts DEF ReportTypes
<1>1. ASSUME NEW r \in Reports, S!MemorySave(r) PROVE Fine
    <2> DEFINE s == recs[r.kind]
               a == Append(s, r)
    <2>1. /\ backend = "memory" /\ recs' = [recs EXCEPT ![r.kind] = S!Trimmed(a)]
          /\ arrived' = [arrived EXCEPT ![r.kind] = Append(@, r)]
        BY <1>1 DEF S!MemorySave
    <2>2. /\ a \in Seq(Reports) /\ Len(a) = Len(s) + 1 /\ Len(s) \in Nat
          /\ Range(a) = Range(s) \cup {r}
        BY <1>0, AppendFacts
    <2>3. S!Trimmed(a) = a \/ Len(a) > Limit
        BY DEF S!Trimmed
    <2>4. /\ recs'[r.kind] = S!Trimmed(a) /\ \A k \in S!Kinds \ {r.kind} : recs'[k] = recs[k]
          /\ arrived'[r.kind] = Append(arrived[r.kind], r)
          /\ \A k \in S!Kinds \ {r.kind} : arrived'[k] = arrived[k]
        BY <1>0, <2>1 DEF ReportTypes, Arrivals
    <2>6. /\ Len(arrived'[r.kind]) = Len(arrived[r.kind]) + 1 /\ Len(arrived[r.kind]) \in Nat
          /\ Len(s) <= Len(arrived[r.kind])
        <3>1. arrived[r.kind] \in Seq(Reports) /\ s = S!Trimmed(arrived[r.kind])
            BY <1>0, <2>1 DEF Arrivals
        <3> HIDE DEF s
        <3>2. Len(Append(arrived[r.kind], r)) = Len(arrived[r.kind]) + 1
            BY <3>1, AppendFacts
        <3>3. Len(arrived[r.kind]) \in Nat /\ Len(s) <= Len(arrived[r.kind])
            BY <3>1, TrimmedFacts, ReportsAssumption
        <3> QED
            BY <2>4, <3>2, <3>3
    <2>5. ASSUME NEW q \in Reports, Kept(q) PROVE Kept(q)'
        <3>1. CASE q.kind = r.kind
            <4> HIDE DEF a
            <4>1. CASE Len(a) > Limit
                <5>1. Len(arrived'[r.kind]) > Limit
                    BY <2>2, <2>6, <4>1, ReportsAssumption
                <5> QED
                    BY <1>0, <2>1, <3>1, <5>1 DEF Kept
            <4>2. CASE S!Trimmed(a) = a
                <5>1. Len(arrived[r.kind]) > Limit => Len(arrived'[r.kind]) > Limit
                    BY <2>6, ReportsAssumption
                <5>2. q \in Range(s) \/ Len(arrived[r.kind]) > Limit
                    BY <2>1, <2>5, <3>1 DEF Kept
                <5> QED
                    BY <1>0, <2>1, <2>2, <2>4, <3>1, <4>2, <5>1, <5>2 DEF Kept
            <4> QED
                BY <2>3, <4>1, <4>2
        <3>2. CASE q.kind # r.kind
            BY <1>0, <2>1, <2>4, <2>5, <3>2 DEF Kept
        <3> QED
            BY <3>1, <3>2
    <2> QED
        BY <2>1, <2>5
<1>2. ASSUME NEW r \in Reports, NEW b \in {"mysql", "postgres"}, S!SQLSave(b, r) PROVE Fine
    <2>1. /\ backend \in {"mysql", "postgres"}
          /\ recs' = recs \/ recs' = [recs EXCEPT ![r.kind] = Append(@, r)]
        BY <1>2 DEF S!SQLSave
    <2>2. Range(Append(recs[r.kind], r)) = Range(recs[r.kind]) \cup {r}
        BY <1>0, AppendFacts
    <2>3. ASSUME NEW q \in Reports, q \in Range(recs[q.kind]) PROVE q \in Range(recs'[q.kind])
        BY <1>0, <2>1, <2>2, <2>3 DEF ReportTypes
    <2> QED
        BY <1>0, <2>1, <2>3 DEF Kept
<1>3. ASSUME NEW w \in Writers, S!RedisZAdd(w) PROVE Fine
    <2> DEFINE r == pipe[w].rep
    <2>1. /\ pipe[w].step = "zadd" /\ recs' = [recs EXCEPT ![r.kind] = S!ZAdd(@, r)]
          /\ expired' = expired \ {r}
        BY <1>3 DEF S!RedisZAdd
    <2>2. r \in Reports /\ backend = "redis"
        BY <2>1 DEF ReportTypes
    <2> HIDE DEF r
    <2> DEFINE s == recs[r.kind]
               t == S!ZAdd(s, r)
    <2>3. recs'[r.kind] = t /\ \A k \in S!Kinds \ {r.kind} : recs'[k] = recs[k]
        BY <1>0, <2>1, <2>2 DEF ReportTypes
    <2>4. t \in Seq(Reports) /\ Range(t) = Range(s) \cup {r} /\ Sorted(t)
        BY <1>0, <2>2, ZAddFacts, ZAddSorted
    <2>5. s \in Seq(Reports)
        BY <1>0, <2>2
    <2> HIDE DEF t
    <2>6. ASSUME NEW q \in Reports, Kept(q) PROVE Kept(q)'
        <3>1. CASE q = r
            BY <2>3, <2>4, <3>1 DEF Kept
        <3>2. CASE q # r /\ q.kind = r.kind
            <4>1. Cardinality(Later(s, q)) >= Limit => Cardinality(Later(t, q)) >= Limit
                BY <2>4, <2>5, LaterGrows
            <4> QED
                BY <1>0, <2>1, <2>2, <2>3, <2>4, <2>6, <3>2, <4>1 DEF Kept
        <3>3. CASE q.kind # r.kind
            BY <1>0, <2>1, <2>2, <2>3, <2>6, <3>3 DEF Kept
        <3> QED
            BY <3>1, <3>2, <3>3
    <2> QED
        BY <2>2, <2>3, <2>4, <2>6
<1>4. ASSUME NEW w \in Writers, S!RedisTrim(w) PROVE Fine
    <2> DEFINE c == pipe[w].rep.kind
               s == recs[c]
               t == S!Trimmed(s)
    <2>1. /\ pipe[w].step = "trim" /\ recs' = [recs EXCEPT ![c] = S!Trimmed(@)]
          /\ expired' = expired
        BY <1>4 DEF S!RedisTrim
    <2>2. c \in S!Kinds /\ backend = "redis"
        BY <1>0, <2>1 DEF ReportTypes
    <2> HIDE DEF c
    <2>3. recs'[c] = t /\ \A k \in S!Kinds \ {c} : recs'[k] = recs[k]
        BY <2>1, <2>2 DEF ReportTypes
    <2>4. s \in Seq(Reports) /\ Sorted(s)
        BY <1>0, <2>2
    <2>5. Sorted(t)
        BY <2>4, TrimmedSorted
    <2>6. ASSUME NEW q \in Reports, Kept(q) PROVE Kept(q)'
        <3>1. CASE q.kind = c
            <4>1. \/ q \in expired \/ q \in Range(s) \/ Cardinality(Later(s, q)) >= Limit
                BY <2>2, <2>6, <3>1 DEF Kept
            <4>2. \/ q \in expired \/ q \in Range(t) \/ Cardinality(Later(t, q)) >= Limit
                BY <2>4, <4>1, TrimmedKeeps
            <4> QED
                BY <1>0, <2>1, <2>2, <2>3, <3>1, <4>2 DEF Kept
        <3>2. CASE q.kind # c
            BY <1>0, <2>1, <2>2, <2>3, <2>6, <3>2 DEF Kept
        <3> QED
            BY <3>1, <3>2
    <2> QED
        BY <2>2, <2>3, <2>5, <2>6
<1>5. ASSUME NEW k \in S!Kinds, S!RedisKeyExpires(k) PROVE Fine
    <2>1. /\ recs' = [recs EXCEPT ![k] = <<>>]
          /\ expired' = expired \cup {r \in Reports : r.kind = k} /\ backend = "redis"
        BY <1>5 DEF S!RedisKeyExpires
    <2>2. recs'[k] = <<>> /\ \A l \in S!Kinds \ {k} : recs'[l] = recs[l]
        BY <2>1 DEF ReportTypes
    <2>3. Sorted(<<>>)
        BY DEF Sorted
    <2> QED
        BY <1>0, <2>1, <2>2, <2>3 DEF Kept
<1>6. ASSUME UNCHANGED <<recs, expired, arrived>> PROVE Fine
    BY <1>0, <1>6 DEF Kept
<1> QED
    BY <1>1, <1>2, <1>3, <1>4, <1>5, <1>6, StorageSteps
       DEF S!RedisSave, S!RedisExpire, S!RedisRetry, S!RedisCut

LEMMA StepKeeping ==
    ReportTypes /\ Keeping /\ (S!Next \/ UNCHANGED storage) => Keeping'
<1> SUFFICES ASSUME ReportTypes, Keeping, S!Next \/ UNCHANGED storage PROVE Keeping'
    OBVIOUS
<1>0. /\ backend' = backend /\ \A q \in Reports : Kept(q) => Kept(q)'
      /\ backend = "redis" => \A k \in S!Kinds : Sorted(recs'[k])
      /\ Arrivals'
    BY StorageSteps, StepKept, StepArrivals DEF Keeping
<1> DEFINE PipesSame == \A w \in Writers : pipe'[w].step \in {"trim", "expire"}
                => pipe[w].step \in {"trim", "expire"} /\ pipe'[w].rep = pipe[w].rep
<1>1. /\ \A q \in acked : q \in Reports /\ Kept(q)'
      /\ PipesSame => \A w \in Writers, q \in Reports :
            pipe'[w].step \in {"trim", "expire"} /\ pipe'[w].rep = q => Kept(q)'
      /\ ttl' \subseteq ttl => (ttl' # {} => backend' = "redis")
    BY <1>0 DEF Keeping, ReportTypes
<1>2. ASSUME NEW r \in Reports, S!MemorySave(r) PROVE Keeping'
    <2>1. /\ backend = "memory" /\ recs' = [recs EXCEPT ![r.kind] = S!Trimmed(Append(@, r))]
          /\ acked' = acked \cup {r} /\ UNCHANGED <<pipe, ttl>>
        BY <1>2 DEF S!MemorySave
    <2>2. r.kind \in S!Kinds /\ recs[r.kind] \in Seq(Reports)
        BY ReportFacts DEF ReportTypes
    <2> DEFINE a == Append(recs[r.kind], r)
    <2>3. a \in Seq(Reports) /\ r \in Range(a)
        BY <2>2, AppendFacts
    <2>4. recs'[r.kind] = S!Trimmed(a)
        BY <2>1, <2>2 DEF ReportTypes
    <2> HIDE DEF a
    <2>5. ASSUME S!Trimmed(a) = a PROVE Kept(r)'
        BY <2>3, <2>4, <2>5 DEF Kept
    <2>8. ASSUME Len(a) > Limit PROVE Kept(r)'
        <3>1. /\ arrived' = [arrived EXCEPT ![r.kind] = Append(@, r)]
              /\ arrived[r.kind] \in Seq(Reports) /\ recs[r.kind] = S!Trimmed(arrived[r.kind])
            BY <1>2, <2>1, <2>2 DEF S!MemorySave, Keeping, Arrivals
        <3>2. Len(Append(arrived[r.kind], r)) = Len(arrived[r.kind]) + 1
            BY <3>1, AppendFacts
        <3>3. Len(a) = Len(recs[r.kind]) + 1
            BY <2>2, AppendFacts DEF a
        <3>4. Len(recs[r.kind]) <= Len(arrived[r.kind]) /\ Len(arrived[r.kind]) \in Nat
            BY <3>1, TrimmedFacts, ReportsAssumption
        <3>5. arrived'[r.kind] = Append(arrived[r.kind], r)
            BY <2>2, <3>1 DEF Keeping, Arrivals
        <3>6. Len(recs[r.kind]) \in Nat
            BY <2>2
        <3>7. Len(arrived'[r.kind]) > Limit
            BY <2>8, <3>2, <3>3, <3>4, <3>5, <3>6, ReportsAssumption
        <3> QED
            BY <1>0, <2>1, <3>7 DEF Kept
    <2>6. Kept(r)'
        BY <2>5, <2>8 DEF S!Trimmed
    <2>7. \A q \in acked' : Kept(q)'
        BY <1>1, <2>1, <2>6
    <2> QED
        BY <1>0, <1>1, <2>1, <2>7 DEF Keeping
<1>3. ASSUME NEW r \in Reports, NEW b \in {"mysql", "postgres"}, S!SQLSave(b, r) PROVE Keeping'
    <2>1. /\ UNCHANGED <<pipe, ttl>>
          /\ \/ acked' = acked
             \/ /\ acked' = acked \cup {r}
                /\ recs' = [recs EXCEPT ![r.kind] = Append(@, r)]
        BY <1>3 DEF S!SQLSave
    <2>2. r.kind \in S!Kinds /\ recs[r.kind] \in Seq(Reports)
        BY ReportFacts DEF ReportTypes
    <2>3. r \in Range(Append(recs[r.kind], r))
        BY <2>2, AppendFacts
    <2>4. acked' = acked \/ (acked' = acked \cup {r} /\ Kept(r)')
        BY <2>1, <2>2, <2>3 DEF Kept, ReportTypes
    <2>5. \A q \in acked' : Kept(q)'
        BY <1>1, <2>4
    <2> QED
        BY <1>0, <1>1, <2>1, <2>5 DEF Keeping
<1>4. ASSUME NEW w \in Writers, NEW r \in Reports, S!RedisSave(w, r) PROVE Keeping'
    <2>1. /\ pipe' = [pipe EXCEPT ![w] = [step |-> "zadd", rep |-> r]]
          /\ UNCHANGED <<ttl, acked>>
        BY <1>4 DEF S!RedisSave
    <2>2. /\ pipe'[w].step = "zadd" /\ \A v \in Writers \ {w} : pipe'[v] = pipe[v]
        BY <2>1 DEF ReportTypes
    <2> QED
        BY <1>0, <1>1, <2>1, <2>2 DEF Keeping
<1>5. ASSUME NEW w \in Writers, S!RedisZAdd(w) PROVE Keeping'
    <2>1. /\ pipe[w].step = "zadd" /\ UNCHANGED <<ttl, acked>>
          /\ pipe' = [pipe EXCEPT ![w].step = "trim"]
          /\ recs' = [recs EXCEPT ![pipe[w].rep.kind] = S!ZAdd(@, pipe[w].rep)]
        BY <1>5 DEF S!RedisZAdd
    <2>2. PICK r \in Reports : r = pipe[w].rep
        BY <2>1 DEF ReportTypes
    <2>3. /\ pipe'[w].rep = r /\ r.kind \in S!Kinds /\ backend = "redis"
          /\ \A v \in Writers \ {w} : pipe'[v] = pipe[v]
        BY <2>1, <2>2, PipeMoves DEF Steps
    <2>4. recs[r.kind] \in Seq(Reports) /\ recs'[r.kind] = S!ZAdd(recs[r.kind], r)
        BY <2>1, <2>2, <2>3 DEF ReportTypes
    <2>5. Kept(r)'
        BY <2>4, ZAddFacts DEF Kept
    <2>6. ASSUME NEW v \in Writers, NEW q \in Reports,
                 pipe'[v].step \in {"trim", "expire"}, pipe'[v].rep = q
          PROVE  Kept(q)'
        <3>1. CASE v = w
            BY <2>3, <2>5, <2>6, <3>1
        <3>2. CASE v # w
            BY <1>0, <2>3, <2>6, <3>2 DEF Keeping
        <3> QED
            BY <3>1, <3>2
    <2> QED
        BY <1>0, <2>1, <2>6 DEF Keeping, ReportTypes
<1>6. ASSUME NEW w \in Writers, S!RedisTrim(w) \/ S!RedisExpire(w)
                \/ S!RedisRetry(w) \/ S!RedisCut(w) PROVE Keeping'
    <2> DEFINE r == pipe[w].rep
    <2>1. /\ pipe[w].step # "none"
          /\ \E to \in Steps : pipe' = [pipe EXCEPT ![w].step = to]
          /\ acked' = acked \/ (pipe[w].step = "expire" /\ acked' = acked \cup {r})
        BY <1>6 DEF S!RedisTrim, S!RedisExpire, S!RedisRetry, S!RedisCut, Steps
    <2>2. /\ pipe'[w].rep = r /\ r \in Reports /\ backend = "redis"
          /\ \A v \in Writers \ {w} : pipe'[v] = pipe[v]
        BY <2>1, PipeMoves
    <2>3. pipe'[w].step \in {"trim", "expire"} => pipe[w].step \in {"trim", "expire"}
        BY <1>6, PipeMoves DEF S!RedisTrim, S!RedisExpire, S!RedisRetry, S!RedisCut, Steps
    <2>4. ASSUME NEW q \in Reports, pipe[w].step = "expire", q = r PROVE Kept(q)'
        BY <1>0, <2>2, <2>4 DEF Keeping
    <2>5. ASSUME NEW v \in Writers, NEW q \in Reports,
                 pipe'[v].step \in {"trim", "expire"}, pipe'[v].rep = q
          PROVE  Kept(q)'
        BY <1>0, <2>2, <2>3, <2>5 DEF Keeping
    <2>6. \A q \in acked' : Kept(q)'
        BY <1>1, <2>1, <2>2, <2>4
    <2> QED
        BY <1>0, <2>2, <2>5, <2>6 DEF Keeping
<1>7. ASSUME NEW k \in S!Kinds, S!RedisKeyExpires(k) PROVE Keeping'
    BY <1>0, <1>1, <1>7 DEF S!RedisKeyExpires, Keeping
<1>8. ASSUME UNCHANGED <<recs, pipe, ttl, cut, bare, expired, acked, arrived>> PROVE Keeping'
    BY <1>0, <1>1, <1>8 DEF Keeping
<1> QED
    BY <1>2, <1>3, <1>4, <1>5, <1>6, <1>7, <1>8, StorageSteps

(* An acknowledged report is found until Limit later ones are stored (in    *)
(* memory, the last Limit arrivals) or its key expires, whatever other      *)
(* writers do and wherever pipelines are cut and sent again.                *)
THEOREM AckedKeptHolds == Spec => []AckedKept
<1>1. Init => Keeping
    <2>1. <<>> \in Seq(Reports) /\ Limit \in Nat /\ Len(<<>>) = 0
        BY ReportsAssumption
    <2>2. S!Trimmed(<<>>) = <<>>
        BY <2>1 DEF S!Trimmed
    <2>3. Init => Arrivals
        BY <2>1, <2>2 DEF Init, S!Init, Arrivals
    <2> QED
        BY <2>3 DEF Init, S!Init, S!Idle, Keeping, Sorted
<1>2. ReportTypes /\ Keeping /\ [Next]_vars => (ReportTypes /\ Keeping)'
    BY StepReports, StepKeeping, StepOf
<1>3. ReportTypes /\ Keeping => AckedKept
    <2> SUFFICES ASSUME ReportTypes, Keeping, NEW r \in acked
                 PROVE  \/ r \in S!Stored(r.kind)
                        \/ backend = "redis" /\ r \in expired
                        \/ /\ backend = "memory"
                           /\ Len(arrived[r.kind]) > Limit /\ recs[r.kind] = S!LastArrivals(r.kind)
                        \/ /\ backend = "redis"
                           /\ S!Cardinality({q \in S!Stored(r.kind) : S!Before(r, q)}) >= Limit
        BY DEF AckedKept, S!AckedKept
    <2>1. S!Stored(r.kind) = Range(recs[r.kind])
        BY DEF S!Stored, Range
    <2>2. {q \in S!Stored(r.kind) : S!Before(r, q)} = Later(recs[r.kind], r)
        BY <2>1 DEF Later
    <2>3. S!Cardinality({q \in S!Stored(r.kind) : S!Before(r, q)})
            = Cardinality(Later(recs[r.kind], r))
        BY <2>2, SameSize
    <2>4. backend = "memory" /\ Len(arrived[r.kind]) > Limit => recs[r.kind] = S!LastArrivals(r.kind)
        BY ReportFacts DEF ReportTypes, Keeping, Arrivals, S!Trimmed, S!LastArrivals
    <2> QED
        BY <2>1, <2>3, <2>4 DEF Keeping, Kept
<1> QED
    BY <1>1, <1>2, <1>3, InitReports, PTL DEF Spec

-----------------------------------------------------------------------------
(* Sequences of messages                                                    *)

LEMMA ElemsConcat ==
    ASSUME NEW a \in Seq(Msgs), NEW b \in Seq(Msgs)
    PROVE  a \o b \in Seq(Msgs) /\ P!Elems(a \o b) = P!Elems(a) \cup P!Elems(b)
<1>1. /\ a \o b \in Seq(Msgs) /\ Len(a) \in Nat /\ Len(b) \in Nat
      /\ Len(a \o b) = Len(a) + Len(b) /\ DOMAIN a = 1..Len(a) /\ DOMAIN b = 1..Len(b)
      /\ DOMAIN (a \o b) = 1..Len(a) + Len(b)
    OBVIOUS
<1>2. \A i \in 1..Len(a) : i \in 1..Len(a) + Len(b) /\ (a \o b)[i] = a[i]
    BY <1>1
<1>3. ASSUME NEW i \in 1..Len(b) PROVE Len(a) + i \in 1..Len(a) + Len(b) /\ (a \o b)[Len(a) + i] = b[i]
    <2>1. Len(a) + i \in 1..Len(a) + Len(b) /\ (Len(a) + i) - Len(a) = i /\ ~(Len(a) + i <= Len(a))
        BY <1>1
    <2> QED
        BY <1>1, <2>1
<1>4. ASSUME NEW i \in 1..Len(a) + Len(b) PROVE (a \o b)[i] \in P!Elems(a) \cup P!Elems(b)
    <2>1. CASE i \in 1..Len(a)
        BY <1>1, <1>2, <2>1 DEF P!Elems
    <2>2. CASE i \notin 1..Len(a)
        <3>1. i - Len(a) \in 1..Len(b) /\ Len(a) + (i - Len(a)) = i
            BY <1>1, <2>2
        <3>2. (a \o b)[i] = b[i - Len(a)]
            BY <1>3, <3>1
        <3> QED
            BY <1>1, <3>1, <3>2 DEF P!Elems
    <2> QED
        BY <2>1, <2>2
<1> DEFINE c == a \o b
<1>5. DOMAIN c = 1..Len(a) + Len(b) /\ c \in Seq(Msgs)
    BY <1>1
<1>6. /\ \A i \in 1..Len(a) + Len(b) : c[i] \in P!Elems(a) \cup P!Elems(b)
      /\ \A i \in 1..Len(a) : i \in 1..Len(a) + Len(b) /\ c[i] = a[i]
      /\ \A i \in 1..Len(b) : Len(a) + i \in 1..Len(a) + Len(b) /\ c[Len(a) + i] = b[i]
    BY <1>2, <1>3, <1>4
<1> HIDE DEF c
<1>7. P!Elems(c) \subseteq P!Elems(a) \cup P!Elems(b)
    BY <1>5, <1>6 DEF P!Elems
<1>8. P!Elems(a) \subseteq P!Elems(c) /\ P!Elems(b) \subseteq P!Elems(c)
    BY <1>1, <1>5, <1>6 DEF P!Elems
<1> QED
    BY <1>5, <1>7, <1>8 DEF c

LEMMA ElemsOne ==
    ASSUME NEW m \in Msgs
    PROVE  <<m>> \in Seq(Msgs) /\ P!Elems(<<m>>) = {m} /\ P!Elems(<<>>) = {} /\ <<>> \in Seq(Msgs)
    BY DEF P!Elems

LEMMA ElemsAppend ==
    ASSUME NEW s \in Seq(Msgs), NEW m \in Msgs
    PROVE  /\ Append(s, m) \in Seq(Msgs) /\ Append(s, m) # <<>>
           /\ P!Elems(Append(s, m)) = P!Elems(s) \cup {m}
           /\ s # <<>> => Head(Append(s, m)) = Head(s)
<1>1. Append(s, m) = s \o <<m>>
    OBVIOUS
<1>2. Append(s, m) \in Seq(Msgs) /\ Len(Append(s, m)) = Len(s) + 1 /\ Len(s) \in Nat
    OBVIOUS
<1>3. s # <<>> => Head(Append(s, m)) = Head(s)
    OBVIOUS
<1>4. Append(s, m) # <<>>
    BY <1>2
<1>5. P!Elems(s \o <<m>>) = P!Elems(s) \cup {m}
    BY ElemsConcat, ElemsOne
<1> QED
    BY <1>1, <1>2, <1>3, <1>4, <1>5

LEMMA ElemsHead ==
    ASSUME NEW s \in Seq(Msgs), s # <<>>
    PROVE  /\ Head(s) \in Msgs /\ Tail(s) \in Seq(Msgs)
           /\ P!Elems(s) = {Head(s)} \cup P!Elems(Tail(s))
<1>1. /\ Head(s) \in Msgs /\ Tail(s) \in Seq(Msgs) /\ Head(s) = s[1] /\ Len(s) \in Nat \ {0}
      /\ Len(Tail(s)) = Len(s) - 1 /\ \A i \in 1..Len(s) - 1 : Tail(s)[i] = s[i + 1]
    OBVIOUS
<1> DEFINE t == Tail(s)
<1>2. DOMAIN s = 1..Len(s) /\ DOMAIN t = 1..Len(s) - 1
    BY <1>1
<1>3. ASSUME NEW i \in 1..Len(s) PROVE s[i] \in {Head(s)} \cup P!Elems(t)
    <2>1. CASE i = 1
        BY <1>1, <2>1
    <2>2. CASE i # 1
        <3>1. i - 1 \in 1..Len(s) - 1 /\ (i - 1) + 1 = i
            BY <1>1, <2>2
        <3>2. t[i - 1] = s[i]
            BY <1>1, <3>1
        <3> QED
            BY <1>2, <3>1, <3>2 DEF P!Elems
    <2> QED
        BY <2>1, <2>2
<1>4. ASSUME NEW i \in 1..Len(s) - 1 PROVE t[i] \in P!Elems(s)
    <2>1. i + 1 \in 1..Len(s) /\ t[i] = s[i + 1]
        BY <1>1
    <2> QED
        BY <1>2, <2>1 DEF P!Elems
<1>5. Head(s) \in P!Elems(s)
    <2>1. 1 \in 1..Len(s)
        BY <1>1
    <2> QED
        BY <1>1, <1>2, <2>1 DEF P!Elems
<1> HIDE DEF t
<1>6. P!Elems(s) \subseteq {Head(s)} \cup P!Elems(t)
    BY <1>2, <1>3 DEF P!Elems
<1>7. P!Elems(t) \subseteq P!Elems(s)
    BY <1>2, <1>4 DEF P!Elems
<1> QED
    BY <1>1, <1>5, <1>6, <1>7 DEF t

(* A log grows at its end.                                                  *)
LEMMA LogGrows ==
    ASSUME NEW s \in Seq(Msgs), NEW m \in Msgs, NEW t \in {s, Append(s, m)}
    PROVE  /\ t \in Seq(Msgs) /\ Len(s) \in Nat /\ Len(t) \in Nat /\ Len(s) <= Len(t)
           /\ \A i \in 1..Len(s) : t[i] = s[i]
<1>1. Len(s) \in Nat
    OBVIOUS
<1>2. CASE t = s
    BY <1>1, <1>2
<1>3. CASE t = Append(s, m)
    BY <1>1, <1>3
<1> QED
    BY <1>2, <1>3

-----------------------------------------------------------------------------
(* Messages                                                                 *)

MessageTypes ==
    /\ broker \in {"rabbitmq", "kafka", "redis"}
    /\ sub \in {"off", "wait", "fetched", "ack", "left"}
    /\ line \in Seq(Msgs) /\ out \in Seq(Msgs) /\ held \in Seq(Msgs) /\ handled \in Seq(Msgs)
    /\ sends \in Seq(Msgs)
    /\ pos \in Nat /\ pending \in Nat /\ committed \in Nat

(* A message that is to be acknowledged has been handled. What reached      *)
(* RabbitMQ's queue is in it, in the client or handled; what lies before    *)
(* the offset read was handled, is in the reader, was there at a loss of    *)
(* the connection, was skipped or passed over.                              *)
Settled ==
    /\ sub = "fetched" => broker = "kafka"
    /\ sub = "ack" =>
        broker = "rabbitmq" /\ out # <<>> /\ Head(out) \in P!Elems(handled)
    /\ reached # {} => broker = "rabbitmq"
    /\ reached \subseteq P!Elems(line) \cup P!Elems(held) \cup P!Elems(out) \cup P!Elems(handled)
    /\ broker = "kafka" =>
        /\ committed <= pending /\ pending <= pos /\ pos <= Len(line)
        /\ \A i \in 1..pos :
            line[i] \in P!Elems(handled) \cup P!Elems(out) \cup interrupted \cup skipped
                            \cup passedOver

LEMMA InitMessages == Init => MessageTypes /\ Settled
<1>1. <<>> \in Seq(Msgs) /\ Len(<<>>) = 0
    OBVIOUS
<1> QED
    BY <1>1 DEF Init, P!Init, MessageTypes, Settled

(* Publishing adds to the queue, the log or the messages received.          *)
LEMMA SendSettled ==
    ASSUME MessageTypes, Settled, NEW m \in Msgs, P!Send(m),
           UNCHANGED <<broker, held, pos, pending, committed, passedOver, skipped, sub,
                       handled, interrupted>>
    PROVE  MessageTypes' /\ Settled'
<1>0. sends' \in Seq(Msgs)
    BY ElemsAppend DEF MessageTypes, P!Send
<1>1. CASE P!RabbitPublish(m)
    <2>1. broker = "rabbitmq" /\ out' = out
        BY <1>1 DEF P!RabbitPublish
    <2>2. \/ line' = Append(line, m) /\ reached' = reached \cup {m}
          \/ UNCHANGED <<line, reached>>
        BY <1>1 DEF P!RabbitPublish
    <2>3. Append(line, m) \in Seq(Msgs) /\ P!Elems(Append(line, m)) = P!Elems(line) \cup {m}
        BY ElemsAppend DEF MessageTypes
    <2>4. line' \in Seq(Msgs)
        BY <2>2, <2>3 DEF MessageTypes
    <2>5. reached' \subseteq P!Elems(line') \cup P!Elems(held) \cup P!Elems(out) \cup P!Elems(handled)
        BY <2>2, <2>3 DEF Settled
    <2> QED
        BY <1>0, <2>1, <2>4, <2>5 DEF MessageTypes, Settled
<1>2. CASE P!KafkaPublish(m)
    <2>1. broker = "kafka" /\ out' = out /\ reached' = reached /\ reached = {}
        BY <1>2 DEF P!KafkaPublish, Settled
    <2>2. /\ line' \in Seq(Msgs) /\ Len(line) \in Nat /\ Len(line') \in Nat /\ Len(line) <= Len(line')
          /\ \A i \in 1..Len(line) : line'[i] = line[i]
        BY <1>2, LogGrows DEF P!KafkaPublish, MessageTypes
    <2>3. pos <= Len(line) /\ pos <= Len(line')
        BY <2>1, <2>2 DEF Settled, MessageTypes
    <2>4. \A i \in 1..pos : line'[i] = line[i]
        BY <2>2, <2>3 DEF MessageTypes
    <2> QED
        BY <1>0, <2>1, <2>2, <2>3, <2>4 DEF MessageTypes, Settled
<1>3. CASE P!RedisPublish(m)
    <2>1. broker = "redis" /\ line' = line /\ reached' = reached /\ reached = {}
          /\ out' \in {out, Append(out, m)}
        BY <1>3 DEF P!RedisPublish, Settled
    <2>2. out' \in Seq(Msgs)
        BY <2>1, ElemsAppend DEF MessageTypes
    <2> QED
        BY <1>0, <2>1, <2>2 DEF MessageTypes, Settled
<1> QED
    BY <1>1, <1>2, <1>3 DEF P!Send

LEMMA StepSettled ==
    MessageTypes /\ Settled /\ (P!Next \/ UNCHANGED pubsub) => MessageTypes' /\ Settled'
<1> SUFFICES ASSUME MessageTypes, Settled, P!Next \/ UNCHANGED pubsub PROVE MessageTypes' /\ Settled'
    OBVIOUS
<1>0. <<>> \in Seq(Msgs) /\ Len(<<>>) = 0 /\ P!Elems(<<>>) = {}
    BY DEF P!Elems
<1> USE DEF P!publishVars, P!holdVars, P!offsetVars, P!subVars
<1>1. ASSUME UNCHANGED <<broker, sends, reached, line, out, held, pos, pending, committed, passedOver,
                         skipped, sub, handled, interrupted>>
      PROVE  MessageTypes' /\ Settled'
    BY <1>1 DEF MessageTypes, Settled
<1>2. ASSUME NEW m \in Msgs, P!Publish(m) \/ P!Resend(m) \/ P!PublishAsync(m) \/ P!AsyncPublish(m)
      PROVE  MessageTypes' /\ Settled'
    <2>1. CASE P!Publish(m) \/ P!Resend(m)
        BY <2>1, SendSettled DEF P!Publish, P!Resend
    <2>2. CASE P!AsyncPublish(m)
        <3>1. /\ P!Send(m) \/ UNCHANGED <<sends, reached, line, out>>
              /\ UNCHANGED <<broker, held, pos, pending, committed, passedOver, skipped, sub,
                             handled, interrupted>>
            BY <2>2 DEF P!AsyncPublish
        <3> QED
            BY <1>1, <3>1, SendSettled
    <2>3. CASE P!PublishAsync(m)
        BY <1>1, <2>3 DEF P!PublishAsync, P!RabbitPublishAsync, P!KafkaPublishAsync, P!RedisPublishAsync
    <2> QED
        BY <1>2, <2>1, <2>2, <2>3
<1>14. CASE P!GiveUp
    BY <1>1, <1>14 DEF P!GiveUp
<1>3. CASE P!RabbitSubscribe \/ P!RedisSubscribe \/ P!KafkaResume \/ P!Unsubscribe
    BY <1>3 DEF P!RabbitSubscribe, P!RedisSubscribe, P!KafkaResume, P!Unsubscribe, P!On,
        MessageTypes, Settled
<1>4. CASE P!RabbitResubscribe
    <2>1. /\ broker = "rabbitmq" /\ sub' = "wait" /\ held' = held \o out /\ out' = <<>>
          /\ UNCHANGED <<broker, sends, reached, line, pos, pending, committed, passedOver, skipped, handled, interrupted>>
        BY <1>4 DEF P!RabbitResubscribe, P!On
    <2>2. held' \in Seq(Msgs) /\ P!Elems(held') = P!Elems(held) \cup P!Elems(out)
        BY <2>1, ElemsConcat DEF MessageTypes
    <2>3. out' \in Seq(Msgs)
        BY <1>0, <2>1
    <2>4. reached' \subseteq P!Elems(line) \cup P!Elems(held') \cup P!Elems(handled)
        BY <2>1, <2>2 DEF Settled
    <2> QED
        BY <2>1, <2>2, <2>3, <2>4 DEF MessageTypes, Settled
<1>5. CASE P!KafkaSubscribe
    <2>1. /\ broker = "kafka" /\ sub' = "wait" /\ pending' = committed
          /\ pos' = IF committed > 0 THEN committed ELSE Len(line)
          /\ passedOver' = IF committed > 0 THEN passedOver ELSE P!Elems(line)
          /\ UNCHANGED <<broker, sends, reached, line, out, held, committed, skipped, handled, interrupted>>
        BY <1>5 DEF P!KafkaSubscribe, P!On
    <2>2. Len(line) \in Nat /\ committed <= pos /\ pos <= Len(line) /\ DOMAIN line = 1..Len(line)
        BY <2>1 DEF Settled, MessageTypes
    <2>3. committed <= pos' /\ pos' <= Len(line) /\ pos' \in Nat
        BY <2>1, <2>2 DEF MessageTypes
    <2>4. ASSUME NEW i \in 1..pos'
          PROVE  line[i] \in P!Elems(handled) \cup P!Elems(out) \cup interrupted \cup skipped
                                 \cup passedOver'
        <3>1. CASE committed > 0
            <4>1. i \in 1..pos
                BY <2>1, <2>2, <3>1 DEF MessageTypes
            <4> QED
                BY <2>1, <3>1, <4>1 DEF Settled
        <3>2. CASE ~(committed > 0)
            BY <2>1, <2>2, <3>2 DEF P!Elems
        <3> QED
            BY <3>1, <3>2
    <2> QED
        BY <2>1, <2>3, <2>4 DEF MessageTypes, Settled
<1>6. CASE P!RabbitDeliver
    <2>1. /\ broker = "rabbitmq" /\ line # <<>> /\ out' = Append(out, Head(line)) /\ line' = Tail(line)
          /\ UNCHANGED <<broker, sends, reached, held, pos, pending, committed, passedOver, skipped, sub, handled,
                         interrupted>>
        BY <1>6 DEF P!RabbitDeliver
    <2>2. /\ Head(line) \in Msgs /\ line' \in Seq(Msgs)
          /\ P!Elems(line) = {Head(line)} \cup P!Elems(line')
        BY <2>1, ElemsHead DEF MessageTypes
    <2>3. /\ out' \in Seq(Msgs) /\ out' # <<>> /\ P!Elems(out') = P!Elems(out) \cup {Head(line)}
          /\ out # <<>> => Head(out') = Head(out)
        BY <2>1, <2>2, ElemsAppend DEF MessageTypes
    <2> QED
        BY <2>1, <2>2, <2>3 DEF MessageTypes, Settled
<1>7. CASE P!KafkaFetch
    <2>1. /\ broker = "kafka" /\ sub' = "fetched" /\ out = <<>> /\ pos < Len(line)
          /\ out' = <<line[pos + 1]>> /\ pos' = pos + 1 /\ skipped' = skipped \ {line[pos + 1]}
          /\ UNCHANGED <<broker, sends, reached, line, held, pending, committed, passedOver, handled, interrupted>>
        BY <1>7 DEF P!KafkaFetch
    <2>2. line[pos + 1] \in Msgs /\ Len(line) \in Nat
        BY <2>1 DEF MessageTypes
    <2>3. out' \in Seq(Msgs) /\ P!Elems(out') = {line[pos + 1]}
        BY <2>1, <2>2, ElemsOne
    <2>4. /\ pos' \in Nat /\ committed <= pending /\ pending <= pos' /\ pos' <= Len(line)
        BY <2>1, <2>2 DEF MessageTypes, Settled
    <2>5. \A i \in 1..pos' : i \in 1..pos \/ i = pos + 1
        BY <2>1 DEF MessageTypes
    <2>6. reached = {} /\ P!Elems(out) = {}
        BY <1>0, <2>1 DEF Settled
    <2>7. \A i \in 1..pos' :
            line[i] \in P!Elems(handled) \cup P!Elems(out') \cup interrupted \cup skipped' \cup passedOver
        BY <2>1, <2>3, <2>5, <2>6 DEF Settled
    <2> QED
        BY <2>1, <2>3, <2>4, <2>6, <2>7 DEF MessageTypes, Settled
<1>15. CASE P!KafkaNote
    <2>1. /\ sub' = "wait" /\ pending' = pos
          /\ UNCHANGED <<broker, sends, reached, line, out, held, pos, committed, passedOver, skipped,
                         handled, interrupted>>
        BY <1>15 DEF P!KafkaNote
    <2>2. broker = "kafka" => committed <= pos
        BY DEF MessageTypes, Settled
    <2> QED
        BY <2>1, <2>2 DEF MessageTypes, Settled
<1>16. CASE P!KafkaSkip
    <2>1. /\ sub = "fetched" /\ sub' = "left" /\ out' = <<>> /\ skipped' = skipped \cup P!Elems(out)
          /\ UNCHANGED <<broker, sends, reached, line, held, pos, pending, committed, passedOver,
                         handled, interrupted>>
        BY <1>16 DEF P!KafkaSkip
    <2>2. broker = "kafka" /\ reached = {}
        BY <2>1 DEF Settled
    <2> QED
        BY <1>0, <2>1, <2>2 DEF MessageTypes, Settled
<1>8. CASE P!KafkaCommit
    <2>1. /\ broker = "kafka" /\ committed' = pending
          /\ UNCHANGED <<broker, sends, reached, line, out, held, pos, pending, passedOver, skipped, sub, handled,
                         interrupted>>
        BY <1>8 DEF P!KafkaCommit
    <2> QED
        BY <2>1 DEF MessageTypes, Settled
<1>9. CASE P!Handle
    <2>1. /\ sub = "wait" /\ out # <<>> /\ handled' = Append(handled, Head(out))
          /\ \/ broker = "rabbitmq" /\ sub' = "ack" /\ out' = out
             \/ broker # "rabbitmq" /\ out' = Tail(out) /\ sub' = sub
          /\ UNCHANGED <<broker, sends, reached, line, held, pos, pending, committed, passedOver, skipped, interrupted>>
        BY <1>9 DEF P!Handle
    <2>2. /\ Head(out) \in Msgs /\ Tail(out) \in Seq(Msgs)
          /\ P!Elems(out) = {Head(out)} \cup P!Elems(Tail(out))
        BY <2>1, ElemsHead DEF MessageTypes
    <2>3. handled' \in Seq(Msgs) /\ P!Elems(handled') = P!Elems(handled) \cup {Head(out)}
        BY <2>1, <2>2, ElemsAppend DEF MessageTypes
    <2>4. P!Elems(handled) \cup P!Elems(out) = P!Elems(handled') \cup P!Elems(out')
        BY <2>1, <2>2, <2>3
    <2>5. out' \in Seq(Msgs)
        BY <2>1, <2>2 DEF MessageTypes
    <2>6. Settled'
        BY <2>1, <2>3, <2>4 DEF Settled
    <2> QED
        BY <2>1, <2>3, <2>5, <2>6 DEF MessageTypes
<1>10. CASE P!RabbitAck
    <2>1. /\ sub = "ack" /\ sub' = "wait" /\ out' = Tail(out)
          /\ UNCHANGED <<broker, sends, reached, line, held, pos, pending, committed, passedOver, skipped, handled,
                         interrupted>>
        BY <1>10 DEF P!RabbitAck
    <2>2. broker = "rabbitmq" /\ out # <<>> /\ Head(out) \in P!Elems(handled)
        BY <2>1 DEF Settled
    <2>3. out' \in Seq(Msgs) /\ P!Elems(out) = {Head(out)} \cup P!Elems(out')
        BY <2>1, <2>2, ElemsHead DEF MessageTypes
    <2> QED
        BY <2>1, <2>2, <2>3 DEF MessageTypes, Settled
<1>11. CASE P!Leave
    <2>1. /\ sub = "wait" /\ UNCHANGED <<broker, sends, reached, line, held, pos, pending, committed,
                                         passedOver, skipped, handled, interrupted>>
          /\ \/ broker = "redis" /\ sub' = "off" /\ out' = <<>>
             \/ broker # "redis" /\ sub' = "left" /\ out' = out
        BY <1>11 DEF P!Leave
    <2> QED
        BY <1>0, <2>1 DEF MessageTypes, Settled
<1>12. CASE P!Drop
    <2>1. /\ sub' = "off" /\ out' = <<>> /\ held' = <<>> /\ interrupted' = interrupted \cup P!Unsettled
          /\ line' = IF broker = "rabbitmq" THEN held \o out \o line ELSE line
          /\ UNCHANGED <<broker, sends, reached, pos, pending, committed, passedOver, skipped, handled>>
        BY <1>12 DEF P!Drop
    <2>2. /\ held \o out \in Seq(Msgs)
          /\ P!Elems(held \o out) = P!Elems(held) \cup P!Elems(out)
        BY ElemsConcat DEF MessageTypes
    <2>3. /\ (held \o out) \o line \in Seq(Msgs)
          /\ P!Elems((held \o out) \o line) = P!Elems(held) \cup P!Elems(out) \cup P!Elems(line)
        BY <2>2, ElemsConcat DEF MessageTypes
    <2>4. line' \in Seq(Msgs)
        BY <2>1, <2>3 DEF MessageTypes
    <2>5. P!Elems(out) \subseteq interrupted' /\ interrupted \subseteq interrupted'
        BY <2>1, <2>2 DEF P!Unsettled
    <2>6. MessageTypes'
        BY <1>0, <2>1, <2>4 DEF MessageTypes
    <2>7. CASE broker = "rabbitmq"
        <3>1. P!Elems(line') = P!Elems(held) \cup P!Elems(out) \cup P!Elems(line)
            BY <2>1, <2>3, <2>7
        <3>2. reached' \subseteq P!Elems(line') \cup P!Elems(handled)
            BY <2>1, <3>1 DEF Settled
        <3>3. /\ sub' # "ack" /\ sub' # "fetched" /\ broker' # "kafka" /\ broker' = "rabbitmq"
              /\ handled' = handled
            BY <2>1, <2>7
        <3> QED
            BY <2>6, <3>2, <3>3 DEF Settled
    <2>8. CASE broker # "rabbitmq"
        <3>1. reached = {} /\ line' = line
            BY <2>1, <2>8 DEF Settled
        <3>2. ASSUME broker = "kafka", NEW i \in 1..pos
              PROVE  line[i] \in P!Elems(handled) \cup interrupted' \cup skipped \cup passedOver
            BY <2>5, <3>2 DEF Settled
        <3>3. sub' # "ack" /\ sub' # "fetched" /\ reached' = {}
            BY <2>1, <3>1
        <3>4. UNCHANGED <<broker, pos, pending, committed, passedOver, skipped, handled, line>>
            BY <2>1, <3>1
        <3> QED
            BY <2>6, <3>2, <3>3, <3>4 DEF Settled
    <2> QED
        BY <2>7, <2>8
<1>13. CASE UNCHANGED pubsub
    BY <1>1, <1>13 DEF pubsub
<1> QED
    BY <1>2, <1>3, <1>4, <1>5, <1>6, <1>7, <1>8, <1>9, <1>10, <1>11, <1>12, <1>13, <1>14, <1>15, <1>16
       DEF P!Next, P!SubscriberNext

(* RabbitMQ's messages are in the queue, in a client or handled. Kafka's    *)
(* committed ones are handled or with the reader, unless the connection was *)
(* lost at that point, the context was cancelled as the reader fetched them *)
(* or the first reader started after them.                                  *)
THEOREM NothingDroppedHolds == Spec => []NothingDropped
<1>1. MessageTypes /\ Settled /\ [Next]_vars => (MessageTypes /\ Settled)'
    BY StepSettled, StepOf
<1>2. MessageTypes /\ Settled => NothingDropped
    <2> SUFFICES ASSUME MessageTypes, Settled PROVE P!NothingDropped
        BY DEF NothingDropped
    <2>1. /\ held \o out \in Seq(Msgs) /\ line \o held \in Seq(Msgs)
          /\ P!Elems(line \o held) = P!Elems(line) \cup P!Elems(held)
        BY ElemsConcat DEF MessageTypes
    <2>2. /\ (line \o held) \o out \in Seq(Msgs)
          /\ P!Elems((line \o held) \o out) = P!Elems(line) \cup P!Elems(held) \cup P!Elems(out)
        BY <2>1, ElemsConcat DEF MessageTypes
    <2>3. P!Elems(((line \o held) \o out) \o handled)
            = P!Elems(line) \cup P!Elems(held) \cup P!Elems(out) \cup P!Elems(handled)
        BY <2>2, ElemsConcat DEF MessageTypes
    <2>4. P!Elems(handled \o out) = P!Elems(handled) \cup P!Elems(out)
        BY ElemsConcat DEF MessageTypes
    <2>5. broker = "kafka" => \A i \in 1..committed : i \in 1..pos
        BY DEF MessageTypes, Settled
    <2> QED
        BY <2>3, <2>4, <2>5 DEF Settled, P!NothingDropped
<1> QED
    BY <1>1, <1>2, InitMessages, PTL DEF Spec

-----------------------------------------------------------------------------
(* Counting                                                                 *)

(* How often m is among the first n elements, and among all of them.        *)
Count(s, n, m) == Cardinality({i \in 1..n : s[i] = m})
Occurs(s, m) == Count(s, Len(s), m)

LEMMA CountFinite ==
    ASSUME NEW s, NEW n \in Nat, NEW m
    PROVE  IsFiniteSet({i \in 1..n : s[i] = m}) /\ Count(s, n, m) \in Nat
<1>1. IsFiniteSet(1..n)
    BY FirstNumbers
<1> DEFINE D == {i \in 1..n : s[i] = m}
<1>2. D \subseteq 1..n
    OBVIOUS
<1> HIDE DEF D
<1>3. IsFiniteSet(D) /\ Cardinality(D) \in Nat
    BY <1>1, <1>2, FS_Subset, FS_CardinalityType
<1> QED
    BY <1>3 DEF D, Count

LEMMA CountNext ==
    ASSUME NEW s, NEW n \in Nat, NEW m
    PROVE  /\ Count(s, n + 1, m) = Count(s, n, m) + (IF s[n + 1] = m THEN 1 ELSE 0)
           /\ Count(s, 0, m) = 0
<1> DEFINE D == {i \in 1..n : s[i] = m}
           E == {i \in 1..n + 1 : s[i] = m}
<1>1. IsFiniteSet(D) /\ Cardinality(D) \in Nat
    BY CountFinite DEF Count
<1>2. /\ n + 1 \notin D
      /\ E = IF s[n + 1] = m THEN D \cup {n + 1} ELSE D
    <2>1. \A i : i \in 1..n + 1 <=> i \in 1..n \/ i = n + 1
        OBVIOUS
    <2>2. n + 1 \notin 1..n
        OBVIOUS
    <2> QED
        BY <2>1, <2>2
<1>3. {i \in 1..0 : s[i] = m} = {}
    OBVIOUS
<1> HIDE DEF D, E
<1>4. Cardinality(D \cup {n + 1}) = Cardinality(D) + 1
    BY <1>1, <1>2, FS_AddElement
<1>5. Cardinality(E) = Cardinality(D) + (IF s[n + 1] = m THEN 1 ELSE 0)
    BY <1>1, <1>2, <1>4
<1>6. Count(s, 0, m) = 0
    BY <1>3, FS_EmptySet DEF Count
<1> QED
    BY <1>5, <1>6 DEF D, E, Count

(* The same elements occur as often; what does not occur counts nothing;    *)
(* more places count more.                                                  *)
LEMMA CountFacts ==
    ASSUME NEW s, NEW n \in Nat, NEW m
    PROVE  /\ \A t : (\A i \in 1..n : t[i] = s[i]) => Count(t, n, m) = Count(s, n, m)
           /\ (\A i \in 1..n : s[i] # m) => Count(s, n, m) = 0
           /\ (\E i \in 1..n : s[i] = m) => Count(s, n, m) >= 1
           /\ \A k \in 0..n : Count(s, k, m) <= Count(s, n, m)
<1> DEFINE D == {i \in 1..n : s[i] = m}
<1>1. IsFiniteSet(D) /\ Cardinality(D) \in Nat
    BY CountFinite DEF Count
<1>2. ASSUME NEW t, \A i \in 1..n : t[i] = s[i] PROVE Count(t, n, m) = Count(s, n, m)
    <2>1. {i \in 1..n : t[i] = m} = D
        BY <1>2
    <2> QED
        BY <2>1 DEF Count
<1>3. ASSUME \A i \in 1..n : s[i] # m PROVE Count(s, n, m) = 0
    <2>1. D = {}
        BY <1>3
    <2> QED
        BY <2>1, FS_EmptySet DEF Count
<1>4. ASSUME \E i \in 1..n : s[i] = m PROVE Count(s, n, m) >= 1
    <2>1. D # {}
        BY <1>4
    <2> HIDE DEF D
    <2>2. Cardinality(D) # 0
        BY <1>1, <2>1, FS_EmptySet
    <2>3. Cardinality(D) >= 1
        BY <1>1, <2>2
    <2> QED
        BY <2>3 DEF Count, D
<1>5. ASSUME NEW k \in 0..n PROVE Count(s, k, m) <= Count(s, n, m)
    <2> DEFINE E == {i \in 1..k : s[i] = m}
    <2>1. E \subseteq D
        OBVIOUS
    <2> HIDE DEF E, D
    <2>2. Cardinality(E) <= Cardinality(D)
        BY <1>1, <2>1, FS_Subset
    <2> QED
        BY <2>2 DEF E, D, Count
<1> QED
    BY <1>2, <1>3, <1>4, <1>5

(* Places shifted by d hold what they held.                                 *)
LEMMA CountJoined ==
    ASSUME NEW t, NEW d \in Nat, NEW b, NEW n \in Nat, NEW m,
           \A i \in 1..n : t[d + i] = b[i]
    PROVE  Count(t, d + n, m) = Count(t, d, m) + Count(b, n, m)
<1> DEFINE A == {i \in 1..d : t[i] = m}
           B == {i \in 1..n : b[i] = m}
           E == {i \in d+1..d+n : t[i] = m}
           T == {i \in 1..d + n : t[i] = m}
           f == [i \in B |-> d + i]
<1>1. IsFiniteSet(A) /\ IsFiniteSet(B) /\ Cardinality(A) \in Nat /\ Cardinality(B) \in Nat
    <2>1. IsFiniteSet(A) /\ Count(t, d, m) \in Nat
        BY CountFinite
    <2>2. IsFiniteSet(B) /\ Count(b, n, m) \in Nat
        BY CountFinite
    <2> QED
        BY <2>1, <2>2 DEF Count
<1>2. f \in Bijection(B, E)
    <2>1. ASSUME NEW i \in B PROVE d + i \in E
        OBVIOUS
    <2>2. ASSUME NEW j \in E PROVE j - d \in B /\ f[j - d] = j
        <3>1. j - d \in 1..n /\ d + (j - d) = j
            OBVIOUS
        <3> QED
            BY <3>1
    <2>3. f \in [B -> E]
        BY <2>1
    <2>4. \A j \in E : \E i \in B : f[i] = j
        BY <2>2
    <2>5. \A i, j \in B : f[i] = f[j] => i = j
        OBVIOUS
    <2> HIDE DEF f, B, E
    <2> QED
        BY <2>3, <2>4, <2>5 DEF Bijection, Injection, Surjection, IsInjective
<1>3. A \cap E = {} /\ T = A \cup E
    <2>1. \A i : i \in 1..d + n <=> i \in 1..d \/ i \in d+1..d+n
        OBVIOUS
    <2>2. \A i \in 1..d : i \notin d+1..d+n
        OBVIOUS
    <2> QED
        BY <2>1, <2>2
<1> HIDE DEF A, B, E, T, f
<1>4. IsFiniteSet(E) /\ Cardinality(E) = Cardinality(B)
    BY <1>1, <1>2, FS_Bijection DEF ExistsBijection
<1>5. Cardinality(T) = Cardinality(A) + Cardinality(B)
    <2>1. Cardinality(A \cup E) = Cardinality(A) + Cardinality(E) - Cardinality(A \cap E)
        BY <1>1, <1>4, FS_Union
    <2>2. Cardinality(A \cap E) = 0
        BY <1>3, FS_EmptySet
    <2> QED
        BY <1>1, <1>3, <1>4, <2>1, <2>2
<1> QED
    BY <1>5 DEF A, B, T, Count

LEMMA OccursFacts ==
    ASSUME NEW s \in Seq(Msgs), NEW m
    PROVE  /\ Occurs(s, m) \in Nat
           /\ m \in P!Elems(s) <=> Occurs(s, m) >= 1
           /\ m \notin P!Elems(s) <=> Occurs(s, m) = 0
<1>1. Len(s) \in Nat /\ DOMAIN s = 1..Len(s)
    OBVIOUS
<1>2. Occurs(s, m) \in Nat
    BY <1>1, CountFinite DEF Occurs
<1>3. CASE m \in P!Elems(s)
    <2>1. \E i \in 1..Len(s) : s[i] = m
        BY <1>1, <1>3 DEF P!Elems
    <2> QED
        BY <1>1, <1>2, <1>3, <2>1, CountFacts DEF Occurs
<1>4. CASE m \notin P!Elems(s)
    <2>1. \A i \in 1..Len(s) : s[i] # m
        BY <1>1, <1>4 DEF P!Elems
    <2> QED
        BY <1>1, <1>2, <1>4, <2>1, CountFacts DEF Occurs
<1> QED
    BY <1>3, <1>4, <1>2

LEMMA OccursConcat ==
    ASSUME NEW a \in Seq(Msgs), NEW b \in Seq(Msgs), NEW m
    PROVE  Occurs(a \o b, m) = Occurs(a, m) + Occurs(b, m)
<1>1. /\ Len(a) \in Nat /\ Len(b) \in Nat /\ Len(a \o b) = Len(a) + Len(b)
      /\ \A i \in 1..Len(a) : (a \o b)[i] = a[i]
    OBVIOUS
<1>2. ASSUME NEW i \in 1..Len(b) PROVE (a \o b)[Len(a) + i] = b[i]
    <2>1. Len(a) + i \in 1..Len(a) + Len(b) /\ (Len(a) + i) - Len(a) = i /\ ~(Len(a) + i <= Len(a))
        BY <1>1
    <2> QED
        BY <1>1, <2>1
<1> DEFINE c == a \o b
           l == Len(a)
           k == Len(b)
<1> HIDE DEF c, l, k
<1>3. l \in Nat /\ k \in Nat /\ \A i \in 1..k : c[l + i] = b[i]
    BY <1>1, <1>2 DEF c, l, k
<1>4. Count(c, l + k, m) = Count(c, l, m) + Count(b, k, m)
    BY <1>3, CountJoined
<1>5. Count(c, l, m) = Count(a, l, m)
    BY <1>1, <1>3, CountFacts DEF c, l
<1> QED
    BY <1>1, <1>4, <1>5 DEF Occurs, c, l, k

LEMMA OccursOne ==
    ASSUME NEW x \in Msgs, NEW m
    PROVE  /\ Occurs(<<x>>, m) = IF x = m THEN 1 ELSE 0
           /\ Occurs(<<>>, m) = 0
<1>1. Len(<<x>>) = 0 + 1 /\ <<x>>[0 + 1] = x /\ 0 \in Nat /\ Len(<<>>) = 0
    OBVIOUS
<1>2. /\ Count(<<x>>, 0 + 1, m) = Count(<<x>>, 0, m) + (IF <<x>>[0 + 1] = m THEN 1 ELSE 0)
      /\ Count(<<x>>, 0, m) = 0 /\ Count(<<>>, 0, m) = 0
    BY <1>1, CountNext
<1> QED
    BY <1>1, <1>2 DEF Occurs

LEMMA OccursAppend ==
    ASSUME NEW s \in Seq(Msgs), NEW x \in Msgs, NEW m
    PROVE  Occurs(Append(s, x), m) = Occurs(s, m) + (IF x = m THEN 1 ELSE 0)
<1>1. Append(s, x) = s \o <<x>> /\ <<x>> \in Seq(Msgs)
    OBVIOUS
<1>2. Occurs(s \o <<x>>, m) = Occurs(s, m) + Occurs(<<x>>, m)
    BY <1>1, OccursConcat
<1> QED
    BY <1>1, <1>2, OccursOne

LEMMA OccursHead ==
    ASSUME NEW s \in Seq(Msgs), s # <<>>, NEW m
    PROVE  Occurs(s, m) = (IF Head(s) = m THEN 1 ELSE 0) + Occurs(Tail(s), m)
<1>1. /\ Head(s) = s[1] /\ Len(s) \in Nat \ {0} /\ Len(Tail(s)) = Len(s) - 1
      /\ \A i \in 1..Len(s) - 1 : Tail(s)[i] = s[i + 1]
    OBVIOUS
<1> DEFINE t == Tail(s)
           n == Len(s) - 1
<1>2. n \in Nat /\ 1 \in Nat /\ 1 + n = Len(s)
    BY <1>1
<1>5. \A i \in 1..n : s[1 + i] = t[i]
    BY <1>1
<1> HIDE DEF t, n
<1>3. Count(s, 1 + n, m) = Count(s, 1, m) + Count(t, n, m)
    <2>1. PICK d \in Nat : d = 1
        OBVIOUS
    <2>2. \A i \in 1..n : s[d + i] = t[i]
        BY <1>5, <2>1
    <2>3. Count(s, d + n, m) = Count(s, d, m) + Count(t, n, m)
        BY <1>2, <2>2, CountJoined
    <2> QED
        BY <2>1, <2>3
<1>4. Count(s, 1, m) = IF s[1] = m THEN 1 ELSE 0
    <2>1. 0 \in Nat /\ 0 + 1 = 1
        OBVIOUS
    <2>2. Count(s, 0 + 1, m) = Count(s, 0, m) + (IF s[0 + 1] = m THEN 1 ELSE 0) /\ Count(s, 0, m) = 0
        BY <2>1, CountNext
    <2> QED
        BY <2>1, <2>2
<1> QED
    BY <1>1, <1>2, <1>3, <1>4 DEF Occurs, t, n

LEMMA CountOrder ==
    /\ \A s, m : \A n \in Nat : Count(s, n, m) \in Nat
    /\ \A s, m : \A k, n \in Nat : k <= n => Count(s, k, m) <= Count(s, n, m)
<1>1. ASSUME NEW s, NEW m, NEW n \in Nat PROVE Count(s, n, m) \in Nat
    BY CountFinite
<1>2. ASSUME NEW s, NEW m, NEW k \in Nat, NEW n \in Nat, k <= n
      PROVE  Count(s, k, m) <= Count(s, n, m)
    <2>1. k \in 0..n
        BY <1>2
    <2> QED
        BY <2>1, CountFacts
<1> QED
    BY <1>1, <1>2

-----------------------------------------------------------------------------
(* Repeated messages                                                        *)

(* The message being acknowledged was handled and is still there.           *)
Again(m) == IF sub = "ack" /\ Head(out) = m THEN 1 ELSE 0
Total(m) == Occurs(line, m) + Occurs(held, m) + Occurs(out, m) + Occurs(handled, m)

(* How far Kafka's subscriber has read, or will start again.                *)
Offset == IF sub = "off" THEN committed ELSE pos

(* RabbitMQ and Redis have a message at most once for each request, as long *)
(* as it is not redelivered; what Kafka's subscriber has, or has handled,   *)
(* is in the log before the offset.                                         *)
Counted ==
    /\ broker # "kafka" => \A m \in Msgs :
        m \notin interrupted \/ broker = "redis" => Total(m) <= Occurs(sends, m) + Again(m)
    /\ broker = "kafka" => \A m \in Msgs \ interrupted :
        Occurs(out, m) + Occurs(handled, m) <= Count(line, Offset, m)

LEMMA InitCounted == Init => Counted
<1> SUFFICES ASSUME P!Init PROVE Counted
    BY DEF Init
<1>1. /\ sends = <<>> /\ line = <<>> /\ out = <<>> /\ held = <<>> /\ handled = <<>>
      /\ sub = "off" /\ committed = 0
    BY DEF P!Init
<1>2. <<>> \in Seq(Msgs) /\ Len(<<>>) = 0 /\ 0 \in Nat
    OBVIOUS
<1>3. \A m : Occurs(<<>>, m) = 0 /\ Count(<<>>, 0, m) = 0
    BY <1>2, CountNext DEF Occurs
<1> QED
    BY <1>1, <1>2, <1>3 DEF Counted, Total, Again, Offset

LEMMA OccursTypes ==
    ASSUME MessageTypes, NEW m
    PROVE  /\ Occurs(line, m) \in Nat /\ Occurs(held, m) \in Nat /\ Occurs(out, m) \in Nat
           /\ Occurs(handled, m) \in Nat /\ Total(m) \in Nat /\ Again(m) \in {0, 1}
           /\ Occurs(sends, m) \in Nat
<1>1. /\ Occurs(line, m) \in Nat /\ Occurs(held, m) \in Nat /\ Occurs(out, m) \in Nat
      /\ Occurs(handled, m) \in Nat /\ Occurs(sends, m) \in Nat
    BY OccursFacts DEF MessageTypes
<1> QED
    BY <1>1 DEF Total, Again

(* What a request to publish m does to the counts.                          *)
LEMMA SendCounts ==
    ASSUME MessageTypes, MessageTypes', Settled, NEW m \in Msgs, P!Send(m),
           broker # "kafka", UNCHANGED <<held, sub, handled>>, NEW q \in Msgs
    PROVE  /\ Occurs(sends', q) = Occurs(sends, q) + (IF q = m THEN 1 ELSE 0)
           /\ Total(q)' <= Total(q) + (IF q = m THEN 1 ELSE 0)
           /\ Again(q)' = Again(q)
<1>0. Occurs(sends', q) = Occurs(sends, q) + (IF q = m THEN 1 ELSE 0)
    BY OccursAppend DEF P!Send, MessageTypes
<1>1. \/ /\ broker = "rabbitmq" /\ line' \in {line, Append(line, m)} /\ out' = out
      \/ /\ broker = "redis" /\ out' \in {out, Append(out, m)} /\ line' = line
    BY DEF P!Send, P!RabbitPublish, P!KafkaPublish, P!RedisPublish
<1>2. /\ \A x \in Msgs : Occurs(Append(line, m), x) = Occurs(line, x) + (IF x = m THEN 1 ELSE 0)
      /\ \A x \in Msgs : Occurs(Append(out, m), x) = Occurs(out, x) + (IF x = m THEN 1 ELSE 0)
    BY OccursAppend DEF MessageTypes
<1>3. \A x \in Msgs : /\ Occurs(line, x) \in Nat /\ Occurs(held, x) \in Nat
                      /\ Occurs(out, x) \in Nat /\ Occurs(handled, x) \in Nat
    BY OccursTypes
<1>4. ASSUME NEW x \in Msgs
      PROVE  /\ Occurs(line', x) + Occurs(out', x) <= Occurs(line, x) + Occurs(out, x) + 1
             /\ x # m => Occurs(line', x) = Occurs(line, x) /\ Occurs(out', x) = Occurs(out, x)
             /\ Occurs(line', x) \in Nat /\ Occurs(out', x) \in Nat
    <2>1. Occurs(line, x) \in Nat /\ Occurs(out, x) \in Nat
        BY <1>3
    <2>2. CASE line' = line /\ out' = out
        BY <2>1, <2>2
    <2>3. CASE line' = Append(line, m) /\ out' = out
        <3>1. Occurs(line', x) = Occurs(line, x) + (IF x = m THEN 1 ELSE 0) /\ Occurs(out', x) = Occurs(out, x)
            BY <1>2, <2>3
        <3> QED
            BY <2>1, <3>1
    <2>4. CASE line' = line /\ out' = Append(out, m)
        <3>1. Occurs(out', x) = Occurs(out, x) + (IF x = m THEN 1 ELSE 0) /\ Occurs(line', x) = Occurs(line, x)
            BY <1>2, <2>4
        <3> QED
            BY <2>1, <3>1
    <2> QED
        BY <1>1, <2>2, <2>3, <2>4
<1>5. Again(q)' = Again(q)
    <2>1. sub' = sub
        OBVIOUS
    <2>2. sub = "ack" => out' = out
        BY <1>1 DEF Settled
    <2> QED
        BY <2>1, <2>2 DEF Again
<1>6. CASE q = m
    <2>1. Occurs(line', m) + Occurs(held, m) + Occurs(out', m) + Occurs(handled, m)
            <= Occurs(line, m) + Occurs(held, m) + Occurs(out, m) + Occurs(handled, m) + 1
        BY <1>3, <1>4
    <2>2. Total(m)' <= Total(m) + 1
        BY <2>1 DEF Total
    <2> QED
        BY <1>0, <1>5, <1>6, <2>2
<1>7. CASE q # m
    <2>1. Total(q)' = Total(q) /\ Total(q) \in Nat
        BY <1>4, <1>7, OccursTypes DEF Total
    <2> QED
        BY <1>0, <1>5, <1>7, <2>1
<1> QED
    BY <1>6, <1>7

LEMMA SendCounted ==
    ASSUME MessageTypes, MessageTypes', Settled, Counted, NEW m \in Msgs, P!Send(m),
           UNCHANGED <<broker, held, sub, handled, pos, committed, interrupted>>
    PROVE  Counted'
<1>1. CASE broker = "kafka"
    <2>1. out' = out /\ line' \in {line, Append(line, m)}
        BY <1>1 DEF P!Send, P!RabbitPublish, P!KafkaPublish, P!RedisPublish
    <2>2. \A i \in 1..Len(line) : line'[i] = line[i]
        BY <2>1, LogGrows DEF MessageTypes
    <2>3. Offset \in Nat /\ Offset <= Len(line) /\ Len(line) \in Nat /\ Offset' = Offset
        BY <1>1 DEF MessageTypes, Settled, Offset
    <2>4. \A i \in 1..Offset : line'[i] = line[i]
        BY <2>2, <2>3
    <2> DEFINE o == Offset
               l == line'
    <2>5. o \in Nat /\ \A i \in 1..o : l[i] = line[i]
        BY <2>3, <2>4
    <2> HIDE DEF o, l
    <2>6. \A q : Count(l, o, q) = Count(line, o, q)
        BY <2>5, CountFacts
    <2>7. \A q \in Msgs \ interrupted' :
            Occurs(out', q) + Occurs(handled', q) <= Count(line', Offset', q)
        BY <1>1, <2>1, <2>3, <2>6 DEF Counted, o, l
    <2> QED
        BY <1>1, <2>7 DEF Counted
<1>2. CASE broker # "kafka"
    <2>1. ASSUME NEW q \in Msgs, q \notin interrupted' \/ broker' = "redis"
          PROVE  Total(q)' <= Occurs(sends', q) + Again(q)'
        <3>1. Total(q) <= Occurs(sends, q) + Again(q)
            BY <1>2, <2>1 DEF Counted
        <3>2. /\ Occurs(sends', q) = Occurs(sends, q) + (IF q = m THEN 1 ELSE 0)
              /\ Total(q)' <= Total(q) + (IF q = m THEN 1 ELSE 0)
              /\ Again(q)' = Again(q)
            BY <1>2, SendCounts
        <3>3. Total(q) \in Nat /\ Occurs(sends, q) \in Nat /\ Again(q) \in {0, 1}
            BY OccursTypes
        <3>4. Total(q)' \in Nat
            <4>1. /\ Occurs(line', q) \in Nat /\ Occurs(held', q) \in Nat
                  /\ Occurs(out', q) \in Nat /\ Occurs(handled', q) \in Nat
                BY OccursFacts DEF MessageTypes
            <4> QED
                BY <4>1 DEF Total
        <3> QED
            BY <3>1, <3>2, <3>3, <3>4
    <2> QED
        BY <1>2, <2>1 DEF Counted
<1> QED
    BY <1>1, <1>2

LEMMA StepCounted ==
    MessageTypes /\ Settled /\ Counted /\ (P!Next \/ UNCHANGED pubsub) => Counted'
<1> SUFFICES ASSUME MessageTypes, Settled, Counted, P!Next \/ UNCHANGED pubsub PROVE Counted'
    OBVIOUS
<1>0. MessageTypes' /\ <<>> \in Seq(Msgs) /\ \A m : Occurs(<<>>, m) = 0
    <2>1. Len(<<>>) = 0 /\ <<>> \in Seq(Msgs) /\ 0 \in Nat
        OBVIOUS
    <2> QED
        BY <2>1, StepSettled, CountNext DEF Occurs
<1> DEFINE TotalNext(m) ==
               Occurs(line', m) + Occurs(held', m) + Occurs(out', m) + Occurs(handled', m)
           AgainNext(m) == IF sub' = "ack" /\ Head(out') = m THEN 1 ELSE 0
           OffsetNext == IF sub' = "off" THEN committed' ELSE pos'
           Quiet == UNCHANGED <<broker, sends>>
<1>1. \A m : /\ Occurs(line, m) \in Nat /\ Occurs(held, m) \in Nat /\ Occurs(out, m) \in Nat
             /\ Occurs(handled, m) \in Nat
    BY OccursTypes
<1>2. \A m : /\ Occurs(line', m) \in Nat /\ Occurs(held', m) \in Nat /\ Occurs(out', m) \in Nat
             /\ Occurs(handled', m) \in Nat
    BY <1>0, OccursFacts DEF MessageTypes
<1> USE DEF P!publishVars, P!holdVars, P!offsetVars, P!subVars
<1>3. ASSUME Quiet, broker # "kafka", interrupted' = interrupted,
             \A m \in Msgs : TotalNext(m) + Again(m) <= Total(m) + AgainNext(m)
      PROVE  Counted'
    <2>1. \A m \in Msgs : Total(m)' = TotalNext(m) /\ Again(m)' = AgainNext(m)
        BY DEF Total, Again
    <2>2. \A m \in Msgs : Total(m) \in Nat /\ TotalNext(m) \in Nat /\ Again(m) \in {0, 1} /\ AgainNext(m) \in {0, 1}
        BY <1>2, OccursTypes
    <2> HIDE DEF TotalNext, AgainNext
    <2>3. ASSUME NEW m \in Msgs, m \notin interrupted' \/ broker' = "redis"
          PROVE  TotalNext(m) <= Occurs(sends, m) + AgainNext(m)
        <3>1. Total(m) <= Occurs(sends, m) + Again(m) /\ Occurs(sends, m) \in Nat
            BY <1>3, <2>3, OccursTypes DEF Counted
        <3> QED
            BY <1>3, <2>2, <3>1
    <2> QED
        BY <1>3, <2>1, <2>3 DEF Counted
<1>4. ASSUME Quiet, broker = "kafka",
             \A m \in Msgs \ interrupted' :
                Occurs(out', m) + Occurs(handled', m) <= Count(line', OffsetNext, m)
      PROVE  Counted'
    <2>1. OffsetNext = Offset'
        BY DEF Offset
    <2> HIDE DEF OffsetNext
    <2> QED
        BY <1>4, <2>1 DEF Counted
<1>5. ASSUME UNCHANGED <<broker, sends, line, held, out, handled, sub, committed, pos, interrupted>>
      PROVE  Counted'
    BY <1>5 DEF Counted, Total, Again, Offset
<1>6. ASSUME NEW m \in Msgs, P!Publish(m) \/ P!Resend(m) \/ P!PublishAsync(m) \/ P!AsyncPublish(m)
      PROVE  Counted'
    <2>1. /\ P!Send(m) \/ UNCHANGED <<sends, line, out>>
          /\ UNCHANGED <<broker, held, sub, handled, pos, committed, interrupted>>
        <3>1. CASE P!Publish(m) \/ P!Resend(m)
            BY <3>1 DEF P!Publish, P!Resend
        <3>2. CASE P!AsyncPublish(m)
            BY <3>2 DEF P!AsyncPublish
        <3>3. CASE P!PublishAsync(m)
            BY <3>3 DEF P!PublishAsync, P!RabbitPublishAsync, P!KafkaPublishAsync, P!RedisPublishAsync
        <3> QED
            BY <1>6, <3>1, <3>2, <3>3
    <2> QED
        BY <1>0, <1>5, <2>1, SendCounted
<1>20. CASE P!GiveUp
    BY <1>5, <1>20 DEF P!GiveUp
<1>7. CASE P!RabbitSubscribe \/ P!RedisSubscribe
    <2>1. /\ Quiet /\ broker # "kafka" /\ sub = "off" /\ sub' = "wait"
          /\ UNCHANGED <<line, held, out, handled, interrupted>>
        BY <1>7 DEF P!RabbitSubscribe, P!RedisSubscribe, P!On
    <2>2. \A m \in Msgs : TotalNext(m) + Again(m) <= Total(m) + AgainNext(m)
        BY <1>1, <2>1 DEF Total, Again
    <2> QED
        BY <1>3, <2>1, <2>2
<1>8. CASE P!RabbitResubscribe
    <2>1. /\ Quiet /\ broker # "kafka" /\ sub = "left" /\ sub' = "wait"
          /\ held' = held \o out /\ out' = <<>> /\ UNCHANGED <<line, handled, interrupted>>
        BY <1>8 DEF P!RabbitResubscribe, P!On
    <2>2. \A m \in Msgs : Occurs(held', m) = Occurs(held, m) + Occurs(out, m) /\ Occurs(out', m) = 0
        BY <1>0, <2>1, OccursConcat DEF MessageTypes
    <2>3. \A m \in Msgs : TotalNext(m) + Again(m) <= Total(m) + AgainNext(m)
        BY <1>1, <2>1, <2>2 DEF Total, Again
    <2> QED
        BY <1>3, <2>1, <2>3
<1>9. CASE P!RabbitDeliver
    <2>1. /\ Quiet /\ broker # "kafka" /\ sub' = sub /\ line # <<>>
          /\ out' = Append(out, Head(line)) /\ line' = Tail(line)
          /\ UNCHANGED <<held, handled, interrupted>>
        BY <1>9 DEF P!RabbitDeliver
    <2>2. Head(line) \in Msgs
        BY <2>1, ElemsHead DEF MessageTypes
    <2>3. \A m \in Msgs :
            /\ Occurs(out', m) = Occurs(out, m) + (IF Head(line) = m THEN 1 ELSE 0)
            /\ Occurs(line, m) = (IF Head(line) = m THEN 1 ELSE 0) + Occurs(line', m)
        BY <2>1, <2>2, OccursAppend, OccursHead DEF MessageTypes
    <2>4. sub = "ack" => Head(out') = Head(out)
        BY <2>1, <2>2, ElemsAppend DEF MessageTypes, Settled
    <2>5. \A m \in Msgs : Again(m) = AgainNext(m)
        BY <2>1, <2>4 DEF Again
    <2>6. ASSUME NEW m \in Msgs PROVE TotalNext(m) = Total(m)
        <3>1. held' = held /\ handled' = handled
            BY <2>1
        <3>2. Occurs(line, m) + Occurs(out, m) = Occurs(line', m) + Occurs(out', m)
            BY <1>1, <1>2, <2>3
        <3> QED
            BY <1>1, <1>2, <3>1, <3>2 DEF Total
    <2>7. \A m \in Msgs : Total(m) \in Nat /\ Again(m) \in {0, 1}
        BY OccursTypes
    <2> HIDE DEF TotalNext, AgainNext
    <2>8. \A m \in Msgs : TotalNext(m) + Again(m) <= Total(m) + AgainNext(m)
        BY <2>5, <2>6, <2>7
    <2> QED
        BY <1>3, <2>1, <2>8
<1>10. CASE P!KafkaSubscribe
    <2>1. /\ Quiet /\ broker = "kafka" /\ sub = "off" /\ sub' = "wait"
          /\ pos' = IF committed > 0 THEN committed ELSE Len(line)
          /\ UNCHANGED <<line, out, handled, interrupted>>
        BY <1>10 DEF P!KafkaSubscribe, P!On
    <2>2. committed \in Nat /\ pos' \in Nat /\ committed <= pos'
        BY <2>1 DEF MessageTypes, Settled
    <2>3. \A m : /\ Count(line, committed, m) <= Count(line, pos', m)
                 /\ Count(line, committed, m) \in Nat /\ Count(line, pos', m) \in Nat
        BY <2>2, CountOrder
    <2>4. \A m \in Msgs \ interrupted : Occurs(out, m) + Occurs(handled, m) <= Count(line, committed, m)
        BY <2>1 DEF Counted, Offset
    <2>5. OffsetNext = pos'
        BY <2>1
    <2> HIDE DEF OffsetNext
    <2>6. \A m \in Msgs \ interrupted' :
            Occurs(out', m) + Occurs(handled', m) <= Count(line', OffsetNext, m)
        BY <1>1, <2>1, <2>3, <2>4, <2>5
    <2> QED
        BY <1>4, <2>1, <2>6
<1>11. CASE P!KafkaResume
    <2>1. /\ Quiet /\ broker = "kafka" /\ sub = "left" /\ sub' = "wait"
          /\ UNCHANGED <<line, out, handled, interrupted, pos>>
        BY <1>11 DEF P!KafkaResume, P!On
    <2> QED
        BY <1>4, <2>1 DEF Counted, Offset
<1>21. CASE P!KafkaNote
    <2>1. sub = "fetched" /\ sub' = "wait" /\ UNCHANGED <<line, out, handled, interrupted, pos>> /\ Quiet
        BY <1>21 DEF P!KafkaNote
    <2>2. broker = "kafka"
        BY <2>1 DEF Settled
    <2> QED
        BY <1>4, <2>1, <2>2 DEF Counted, Offset
<1>22. CASE P!KafkaSkip
    <2>1. /\ Quiet /\ sub = "fetched" /\ sub' = "left" /\ out' = <<>>
          /\ UNCHANGED <<line, handled, interrupted, pos>>
        BY <1>22 DEF P!KafkaSkip
    <2>2. broker = "kafka" /\ Offset = pos /\ OffsetNext = pos /\ pos \in Nat
        BY <2>1 DEF Settled, Offset, MessageTypes
    <2> HIDE DEF OffsetNext
    <2>3. \A m : Count(line, pos, m) \in Nat
        BY <2>2, CountFinite
    <2>4. \A m \in Msgs \ interrupted : Occurs(out, m) + Occurs(handled, m) <= Count(line, pos, m)
        BY <2>2 DEF Counted
    <2>5. \A m \in Msgs \ interrupted' :
            Occurs(out', m) + Occurs(handled', m) <= Count(line', OffsetNext, m)
        BY <1>0, <1>1, <2>1, <2>2, <2>3, <2>4
    <2> QED
        BY <1>4, <2>1, <2>2, <2>5
<1>12. CASE P!KafkaFetch
    <2>1. /\ Quiet /\ broker = "kafka" /\ sub = "wait" /\ sub' = "fetched" /\ out = <<>>
          /\ pos < Len(line) /\ out' = <<line[pos + 1]>> /\ pos' = pos + 1
          /\ UNCHANGED <<line, handled, interrupted>>
        BY <1>12 DEF P!KafkaFetch
    <2>2. line[pos + 1] \in Msgs /\ pos \in Nat
        BY <2>1 DEF MessageTypes
    <2>3. \A m : /\ Occurs(out', m) = IF line[pos + 1] = m THEN 1 ELSE 0
                 /\ Occurs(out, m) = 0
                 /\ Count(line, pos', m) = Count(line, pos, m) + (IF line[pos + 1] = m THEN 1 ELSE 0)
                 /\ Count(line, pos, m) \in Nat
        BY <1>0, <2>1, <2>2, OccursOne, CountNext, CountFinite
    <2>4. \A m \in Msgs \ interrupted : Occurs(out, m) + Occurs(handled, m) <= Count(line, pos, m)
        BY <2>1 DEF Counted, Offset
    <2>5. OffsetNext = pos'
        BY <2>1
    <2> HIDE DEF OffsetNext
    <2>6. \A m \in Msgs \ interrupted' :
            Occurs(out', m) + Occurs(handled', m) <= Count(line', OffsetNext, m)
        BY <1>1, <2>1, <2>3, <2>4, <2>5
    <2> QED
        BY <1>4, <2>1, <2>6
<1>13. CASE P!KafkaCommit
    <2>1. /\ Quiet /\ broker = "kafka" /\ sub # "off" /\ sub' = sub /\ pos' = pos
          /\ UNCHANGED <<line, out, handled, interrupted>>
        BY <1>13 DEF P!KafkaCommit
    <2> QED
        BY <1>4, <2>1 DEF Counted, Offset
<1>14. CASE P!Handle
    <2>1. /\ Quiet /\ sub = "wait" /\ out # <<>> /\ handled' = Append(handled, Head(out))
          /\ \/ broker = "rabbitmq" /\ sub' = "ack" /\ out' = out
             \/ broker # "rabbitmq" /\ out' = Tail(out) /\ sub' = sub
          /\ UNCHANGED <<line, held, interrupted, pos, committed>>
        BY <1>14 DEF P!Handle
    <2>2. Head(out) \in Msgs
        BY <2>1, ElemsHead DEF MessageTypes
    <2> DEFINE one(m) == IF Head(out) = m THEN 1 ELSE 0
    <2>3. \A m \in Msgs : /\ Occurs(handled', m) = Occurs(handled, m) + one(m)
                          /\ Occurs(out, m) = one(m) + Occurs(Tail(out), m)
                          /\ Occurs(Tail(out), m) \in Nat /\ one(m) \in {0, 1}
        <3>1. Tail(out) \in Seq(Msgs)
            BY <2>1, ElemsHead DEF MessageTypes
        <3>2. \A m : Occurs(handled', m) = Occurs(handled, m) + one(m)
            BY <2>1, <2>2, OccursAppend DEF MessageTypes
        <3>3. \A m : Occurs(out, m) = one(m) + Occurs(Tail(out), m)
            BY <2>1, OccursHead DEF MessageTypes
        <3>4. \A m : Occurs(Tail(out), m) \in Nat
            BY <3>1, OccursFacts
        <3> QED
            BY <3>2, <3>3, <3>4
    <2>4. CASE broker = "kafka"
        <3>1. Quiet /\ OffsetNext = Offset /\ out' = Tail(out)
            BY <2>1, <2>4 DEF Offset
        <3> HIDE DEF OffsetNext, one
        <3>2. \A m \in Msgs : Occurs(out', m) + Occurs(handled', m) = Occurs(out, m) + Occurs(handled, m)
            BY <1>1, <2>3, <3>1
        <3>3. \A m \in Msgs \ interrupted' :
                Occurs(out', m) + Occurs(handled', m) <= Count(line', OffsetNext, m)
            BY <2>1, <2>4, <3>1, <3>2 DEF Counted
        <3> QED
            BY <1>4, <2>4, <3>1, <3>3
    <2>5. CASE broker # "kafka" /\ broker # "rabbitmq"
        <3>1. out' = Tail(out) /\ sub' = sub
            BY <2>1, <2>5
        <3>2. \A m \in Msgs : Again(m) = 0 /\ AgainNext(m) = 0
            BY <2>1, <3>1 DEF Again
        <3> HIDE DEF one, AgainNext
        <3>3. ASSUME NEW m \in Msgs PROVE TotalNext(m) = Total(m)
            <4>1. line' = line /\ held' = held
                BY <2>1
            <4>2. Occurs(out, m) + Occurs(handled, m) = Occurs(out', m) + Occurs(handled', m)
                BY <1>1, <2>3, <3>1
            <4> QED
                BY <1>1, <1>2, <4>1, <4>2 DEF Total
        <3>4. \A m \in Msgs : Total(m) \in Nat
            BY OccursTypes
        <3> HIDE DEF TotalNext
        <3>5. \A m \in Msgs : TotalNext(m) + Again(m) <= Total(m) + AgainNext(m)
            BY <3>2, <3>3, <3>4
        <3> QED
            BY <1>3, <2>1, <2>5, <3>5
    <2>6. CASE broker = "rabbitmq"
        <3>1. sub' = "ack" /\ out' = out
            BY <2>1, <2>6
        <3>2. \A m \in Msgs : Total(m)' = Total(m) + one(m) /\ Total(m) \in Nat
            BY <1>1, <2>1, <2>3, <3>1, OccursTypes DEF Total
        <3>3. \A m \in Msgs : Again(m) = 0 /\ Again(m)' = one(m)
            BY <2>1, <3>1 DEF Again
        <3> HIDE DEF one
        <3>4. ASSUME NEW m \in Msgs, m \notin interrupted
              PROVE  Total(m)' <= Occurs(sends, m) + Again(m)'
            <4>1. Total(m) <= Occurs(sends, m) + Again(m) /\ Occurs(sends, m) \in Nat
                BY <2>6, <3>4, OccursTypes DEF Counted
            <4> QED
                BY <2>3, <3>2, <3>3, <4>1
        <3> QED
            BY <2>1, <2>6, <3>4 DEF Counted
    <2> QED
        BY <2>4, <2>5, <2>6
<1>15. CASE P!RabbitAck
    <2>1. /\ Quiet /\ sub = "ack" /\ sub' = "wait" /\ out' = Tail(out)
          /\ UNCHANGED <<line, held, handled, interrupted>>
        BY <1>15 DEF P!RabbitAck
    <2>2. broker = "rabbitmq" /\ out # <<>>
        BY <2>1 DEF Settled
    <2>3. \A m \in Msgs : Occurs(out, m) = (IF Head(out) = m THEN 1 ELSE 0) + Occurs(out', m)
        BY <2>1, <2>2, OccursHead DEF MessageTypes
    <2>4. \A m \in Msgs : Again(m) = (IF Head(out) = m THEN 1 ELSE 0) /\ AgainNext(m) = 0
        BY <2>1 DEF Again
    <2>5. ASSUME NEW m \in Msgs PROVE TotalNext(m) + Again(m) = Total(m)
        <3>1. line' = line /\ held' = held /\ handled' = handled
            BY <2>1
        <3>2. Occurs(out, m) = Again(m) + Occurs(out', m) /\ Again(m) \in {0, 1}
            BY <2>3, <2>4
        <3> QED
            BY <1>1, <1>2, <3>1, <3>2 DEF Total
    <2>6. \A m \in Msgs : Total(m) \in Nat /\ TotalNext(m) \in Nat /\ Again(m) \in {0, 1}
        BY <1>2, OccursTypes
    <2> HIDE DEF TotalNext, AgainNext
    <2>7. \A m \in Msgs : TotalNext(m) + Again(m) <= Total(m) + AgainNext(m)
        BY <2>4, <2>5, <2>6
    <2> QED
        BY <1>3, <2>1, <2>2, <2>7
<1>16. CASE P!Unsubscribe
    BY <1>5, <1>16 DEF P!Unsubscribe
<1>17. CASE P!Leave
    <2>1. /\ Quiet /\ sub = "wait" /\ UNCHANGED <<line, held, handled, interrupted, pos, committed>>
          /\ \/ broker = "redis" /\ sub' = "off" /\ out' = <<>>
             \/ broker # "redis" /\ sub' = "left" /\ out' = out
        BY <1>17 DEF P!Leave
    <2>2. CASE broker = "kafka"
        BY <1>4, <2>1, <2>2 DEF Counted, Offset
    <2>3. CASE broker # "kafka"
        <3>1. \A m \in Msgs : Occurs(out', m) <= Occurs(out, m)
            BY <1>0, <1>1, <2>1
        <3>2. \A m \in Msgs : Again(m) = 0 /\ AgainNext(m) = 0
            BY <2>1 DEF Again
        <3>3. \A m \in Msgs : TotalNext(m) <= Total(m)
            BY <1>1, <1>2, <2>1, <3>1 DEF Total
        <3>4. \A m \in Msgs : Total(m) \in Nat /\ TotalNext(m) \in Nat
            BY <1>2, OccursTypes
        <3> HIDE DEF TotalNext, AgainNext
        <3>5. \A m \in Msgs : TotalNext(m) + Again(m) <= Total(m) + AgainNext(m)
            BY <3>2, <3>3, <3>4
        <3> QED
            BY <1>3, <2>1, <2>3, <3>5
    <2> QED
        BY <2>2, <2>3
<1>18. CASE P!Drop
    <2>1. /\ Quiet /\ sub # "off" /\ sub' = "off" /\ out' = <<>> /\ held' = <<>>
          /\ interrupted' = interrupted \cup P!Unsettled
          /\ line' = IF broker = "rabbitmq" THEN held \o out \o line ELSE line
          /\ UNCHANGED <<handled, pos, committed>>
        BY <1>18 DEF P!Drop
    <2>2. held \o out \in Seq(Msgs) /\ P!Elems(held \o out) = P!Elems(held) \cup P!Elems(out)
        BY ElemsConcat DEF MessageTypes
    <2>3. P!Elems(held) \subseteq interrupted' /\ P!Elems(out) \subseteq interrupted'
        BY <2>1, <2>2 DEF P!Unsettled
    <2>4. \A m \in Msgs \ interrupted' : Occurs(held, m) = 0 /\ Occurs(out, m) = 0
        BY <2>3, OccursFacts DEF MessageTypes
    <2>5. CASE broker = "kafka"
        <3>1. /\ committed \in Nat /\ pos \in Nat /\ committed <= pos /\ pos <= Len(line)
              /\ OffsetNext = committed /\ Offset = pos /\ line' = line
            BY <2>1, <2>5 DEF MessageTypes, Settled, Offset
        <3>2. ASSUME NEW m \in Msgs \ interrupted' PROVE Occurs(handled, m) <= Count(line, committed, m)
            <4>1. Occurs(handled, m) <= Count(line, pos, m)
                BY <1>1, <2>1, <2>4, <2>5, <3>1 DEF Counted
            <4>2. CASE m \notin P!Elems(handled)
                <5>1. Occurs(handled, m) = 0
                    BY <4>2, OccursFacts DEF MessageTypes
                <5> QED
                    BY <3>1, <5>1, CountOrder
            <4>3. CASE m \in P!Elems(handled)
                <5>1. \A i \in committed+1..pos : line[i] # m
                    BY <2>1, <4>3 DEF P!Unsettled
                <5>2. {i \in 1..pos : line[i] = m} = {i \in 1..committed : line[i] = m}
                    <6>1. \A i \in 1..pos : i \in 1..committed \/ i \in committed+1..pos
                        BY <3>1
                    <6>2. \A i \in 1..committed : i \in 1..pos
                        BY <3>1
                    <6> QED
                        BY <5>1, <6>1, <6>2
                <5> QED
                    BY <4>1, <5>2 DEF Count
            <4> QED
                BY <4>2, <4>3
        <3> HIDE DEF OffsetNext
        <3>3. ASSUME NEW m \in Msgs \ interrupted'
              PROVE  Occurs(out', m) + Occurs(handled', m) <= Count(line', OffsetNext, m)
            <4>1. Occurs(out', m) = 0 /\ handled' = handled /\ Occurs(handled, m) \in Nat
                BY <1>0, <1>1, <2>1
            <4>2. Count(line', OffsetNext, m) = Count(line, committed, m)
                BY <3>1
            <4>3. Occurs(handled, m) <= Count(line, committed, m)
                BY <3>2
            <4> QED
                BY <4>1, <4>2, <4>3
        <3> QED
            BY <1>4, <2>1, <2>5, <3>3
    <2>6. CASE broker # "kafka"
        <3>1. \A m : Occurs((held \o out) \o line, m) = Occurs(held, m) + Occurs(out, m) + Occurs(line, m)
            <4>1. \A m : Occurs((held \o out) \o line, m) = Occurs(held \o out, m) + Occurs(line, m)
                BY <2>2, OccursConcat DEF MessageTypes
            <4>2. \A m : Occurs(held \o out, m) = Occurs(held, m) + Occurs(out, m)
                BY OccursConcat DEF MessageTypes
            <4> QED
                BY <4>1, <4>2
        <3>2. \A m \in Msgs : Total(m)' <= Total(m) /\ Total(m)' \in Nat /\ Total(m) \in Nat
            <4>1. \A m \in Msgs : Occurs(line', m) <= Occurs(held, m) + Occurs(out, m) + Occurs(line, m)
                BY <1>1, <2>1, <3>1
            <4> QED
                BY <1>0, <1>1, <1>2, <2>1, <4>1 DEF Total
        <3>3. \A m \in Msgs : Again(m)' = 0
            BY <2>1 DEF Again
        <3>4. \A m \in Msgs : m \notin interrupted' \/ broker = "redis" => Again(m) = 0
            <4> SUFFICES ASSUME NEW m \in Msgs, sub = "ack", Head(out) = m
                         PROVE  m \in interrupted' /\ broker # "redis"
                BY DEF Again
            <4>1. broker = "rabbitmq" /\ out # <<>>
                BY DEF Settled
            <4>2. m \in P!Elems(out)
                BY <4>1, ElemsHead DEF MessageTypes
            <4> QED
                BY <2>3, <4>1, <4>2
        <3>5. ASSUME NEW m \in Msgs, m \notin interrupted' \/ broker' = "redis"
              PROVE  Total(m)' <= Occurs(sends', m) + Again(m)'
            <4>1. Total(m) <= Occurs(sends, m) + Again(m) /\ Again(m) = 0
                BY <2>1, <2>6, <3>4, <3>5 DEF Counted
            <4>2. Occurs(sends, m) \in Nat /\ sends' = sends
                BY <2>1, OccursTypes
            <4> QED
                BY <3>2, <3>3, <4>1, <4>2
        <3> QED
            BY <2>1, <2>6, <3>5 DEF Counted
    <2> QED
        BY <2>5, <2>6
<1>19. CASE UNCHANGED pubsub
    BY <1>5, <1>19 DEF pubsub
<1> QED
    BY <1>6, <1>7, <1>8, <1>9, <1>10, <1>11, <1>12, <1>13, <1>14, <1>15, <1>16, <1>17, <1>18, <1>19,
       <1>20, <1>21, <1>22
       DEF P!Next, P!SubscriberNext

(* A message is handled more often than the broker has it only after a loss *)
(* of the connection before it was settled, and never with Redis.           *)
THEOREM DuplicatesExplainedHolds == Spec => []DuplicatesExplained
<1>1. MessageTypes /\ Settled /\ Counted /\ [Next]_vars => (MessageTypes /\ Settled /\ Counted)'
    BY StepSettled, StepCounted, StepOf
<1>2. MessageTypes /\ Settled /\ Counted => DuplicatesExplained
    <2> SUFFICES ASSUME MessageTypes, Settled, Counted, NEW m \in Msgs,
                        ~(broker # "redis" /\ m \in interrupted)
                 PROVE  ~(P!Times(m) > P!Copies(m))
        BY DEF DuplicatesExplained, P!DuplicatesExplained
    <2>1. \A X : P!Cardinality(X) = Cardinality(X)
        BY DEF P!Cardinality, Cardinality
    <2>2. /\ DOMAIN handled = 1..Len(handled) /\ DOMAIN line = 1..Len(line) /\ Len(line) \in Nat
        BY DEF MessageTypes
    <2>3. P!Times(m) = Occurs(handled, m)
        BY <2>1, <2>2 DEF P!Times, Occurs, Count
    <2>4. broker = "kafka" => P!Copies(m) = Count(line, Len(line), m)
        BY <2>1, <2>2 DEF P!Copies, Count
    <2>5. /\ Occurs(line, m) \in Nat /\ Occurs(held, m) \in Nat /\ Occurs(out, m) \in Nat
          /\ Occurs(handled, m) \in Nat /\ Again(m) \in {0, 1} /\ Occurs(sends, m) \in Nat
        BY OccursTypes
    <2>6. CASE broker = "kafka"
        <3>1. Offset \in Nat /\ Offset <= Len(line)
            BY <2>6 DEF Offset, MessageTypes, Settled
        <3> DEFINE o == Offset
                   l == Len(line)
        <3>2. l \in Nat /\ o \in 0..l
            BY <2>2, <3>1
        <3> HIDE DEF o, l
        <3>3. Count(line, o, m) <= Count(line, l, m) /\ Count(line, o, m) \in Nat /\ Count(line, l, m) \in Nat
            BY <3>2, CountOrder
        <3>4. Occurs(out, m) + Occurs(handled, m) <= Count(line, o, m)
            BY <2>6 DEF Counted, o
        <3> QED
            BY <2>3, <2>4, <2>5, <2>6, <3>3, <3>4 DEF l
    <2>7. CASE broker # "kafka"
        <3>1. Total(m) <= Occurs(sends, m) + Again(m)
            BY <2>7 DEF Counted
        <3>2. Again(m) = 1 => Occurs(out, m) >= 1
            <4> SUFFICES ASSUME sub = "ack", Head(out) = m PROVE Occurs(out, m) >= 1
                BY DEF Again
            <4>1. out # <<>>
                BY DEF Settled
            <4>2. m \in P!Elems(out)
                BY <4>1, ElemsHead DEF MessageTypes
            <4> QED
                BY <4>2, OccursFacts DEF MessageTypes
        <3>3. Occurs(handled, m) <= Occurs(sends, m)
            BY <2>5, <3>1, <3>2 DEF Total
        <3>4. P!Copies(m) = Occurs(sends, m)
            <4>1. DOMAIN sends = 1..Len(sends)
                BY DEF MessageTypes
            <4> QED
                BY <2>1, <2>7, <4>1 DEF P!Copies, Occurs, Count
        <3> QED
            BY <2>3, <2>5, <3>3, <3>4
    <2> QED
        BY <2>6, <2>7
<1> QED
    BY <1>1, <1>2, InitMessages, InitCounted, PTL DEF Spec

-----------------------------------------------------------------------------
(* Order                                                                    *)

(* Every y in s has an x before it.                                         *)
Led(s, x, y) == \A p \in DOMAIN s : s[p] = y => \E q \in DOMAIN s : q < p /\ s[q] = x

LEMMA LedFacts ==
    ASSUME NEW s \in Seq(Msgs), NEW x, NEW y
    PROVE  /\ y \notin P!Elems(s) => Led(s, x, y)
           /\ Led(s, x, y) /\ x \notin P!Elems(s) => y \notin P!Elems(s)
    BY DEF Led, P!Elems

LEMMA LedConcat ==
    ASSUME NEW a \in Seq(Msgs), NEW b \in Seq(Msgs), NEW x, NEW y,
           Led(a, x, y), x \in P!Elems(a) \/ Led(b, x, y)
    PROVE  Led(a \o b, x, y)
<1> DEFINE s == a \o b
           l == Len(a)
           k == Len(b)
<1>1. /\ l \in Nat /\ k \in Nat /\ DOMAIN a = 1..l /\ DOMAIN b = 1..k /\ DOMAIN s = 1..l + k
      /\ \A i \in 1..l : s[i] = a[i]
    OBVIOUS
<1>2. ASSUME NEW i \in 1..k PROVE s[l + i] = b[i]
    <2>1. l + i \in 1..l + k /\ (l + i) - l = i /\ ~(l + i <= l)
        BY <1>1
    <2> QED
        BY <1>1, <2>1
<1> HIDE DEF s, l, k
<1>3. ASSUME NEW p \in 1..l + k, s[p] = y PROVE \E q \in 1..l + k : q < p /\ s[q] = x
    <2>1. CASE p \in 1..l
        <3>1. PICK q \in 1..l : q < p /\ a[q] = x
            BY <1>1, <1>3, <2>1 DEF Led
        <3> QED
            BY <1>1, <3>1
    <2>2. CASE p \notin 1..l
        <3>1. p - l \in 1..k /\ l + (p - l) = p
            BY <1>1, <2>2
        <3>2. b[p - l] = y
            BY <1>2, <1>3, <3>1
        <3>3. CASE x \in P!Elems(a)
            <4>1. PICK q \in 1..l : a[q] = x
                BY <1>1, <3>3 DEF P!Elems
            <4>2. q < p /\ q \in 1..l + k
                BY <1>1, <2>2
            <4> QED
                BY <1>1, <4>1, <4>2
        <3>4. CASE Led(b, x, y)
            <4>1. PICK q \in 1..k : q < p - l /\ b[q] = x
                BY <1>1, <3>1, <3>2, <3>4 DEF Led
            <4>2. l + q \in 1..l + k /\ l + q < p
                BY <1>1, <4>1
            <4> QED
                BY <1>2, <4>1, <4>2
        <3> QED
            BY <3>3, <3>4
    <2> QED
        BY <2>1, <2>2
<1>4. Led(s, x, y)
    BY <1>1, <1>3 DEF Led
<1> QED
    BY <1>4 DEF s

(* Adding m at the end keeps the order if m is not y, or comes after x.     *)
LEMMA LedAppend ==
    ASSUME NEW s \in Seq(Msgs), NEW m \in Msgs, NEW x, NEW y, Led(s, x, y), m = y => x \in P!Elems(s)
    PROVE  Led(Append(s, m), x, y)
<1>1. <<m>> \in Seq(Msgs) /\ P!Elems(<<m>>) = {m} /\ Append(s, m) = s \o <<m>>
    BY ElemsOne
<1>2. x \in P!Elems(s) \/ Led(<<m>>, x, y)
    BY <1>1, LedFacts
<1>3. Led(s \o <<m>>, x, y)
    BY <1>1, <1>2, LedConcat
<1> QED
    BY <1>1, <1>3

(* A y is not first, and what is behind the first is in order unless x was  *)
(* the first.                                                               *)
LEMMA LedHead ==
    ASSUME NEW s \in Seq(Msgs), s # <<>>, NEW x, NEW y, Led(s, x, y)
    PROVE  Head(s) # y /\ (Head(s) # x => Led(Tail(s), x, y))
<1>1. /\ Head(s) = s[1] /\ Len(s) \in Nat \ {0} /\ Len(Tail(s)) = Len(s) - 1
      /\ \A i \in 1..Len(s) - 1 : Tail(s)[i] = s[i + 1]
    OBVIOUS
<1>2. DOMAIN s = 1..Len(s) /\ DOMAIN Tail(s) = 1..Len(s) - 1
    BY <1>1
<1>3. Head(s) # y
    <2>1. 1 \in 1..Len(s) /\ ~\E q \in 1..Len(s) : q < 1
        BY <1>1
    <2> QED
        BY <1>1, <1>2, <2>1 DEF Led
<1> DEFINE t == Tail(s)
           l == Len(s) - 1
<1>4. l \in Nat /\ Len(s) = l + 1 /\ \A i \in 1..l : t[i] = s[i + 1]
    BY <1>1
<1>5. DOMAIN t = 1..l
    BY <1>2
<1> HIDE DEF t, l
<1>6. ASSUME Head(s) # x, NEW p \in 1..l, t[p] = y PROVE \E q \in 1..l : q < p /\ t[q] = x
    <2>1. p + 1 \in 1..Len(s) /\ s[p + 1] = y
        BY <1>4, <1>6
    <2>2. PICK q \in 1..Len(s) : q < p + 1 /\ s[q] = x
        BY <1>2, <2>1 DEF Led
    <2>3. q # 1
        BY <1>1, <1>6, <2>2
    <2>4. q - 1 \in 1..l /\ (q - 1) + 1 = q /\ q - 1 < p
        BY <1>4, <2>2, <2>3
    <2> QED
        BY <1>4, <2>2, <2>4
<1>7. Head(s) # x => Led(t, x, y)
    BY <1>5, <1>6 DEF Led
<1> QED
    BY <1>3, <1>7 DEF t

(* A sequence has a first place for each of its elements.                   *)
LEMMA FirstPlace ==
    ASSUME NEW s \in Seq(Msgs), NEW m \in P!Elems(s)
    PROVE  \E i \in DOMAIN s : s[i] = m /\ \A k \in DOMAIN s : k < i => s[k] # m
<1> DEFINE D == {i \in DOMAIN s : s[i] = m}
<1>1. D \subseteq Nat /\ D # {}
    BY DEF P!Elems
<1> HIDE DEF D
<1>2. PICK i \in D : \A k \in D : <<k, i>> \notin OpToRel(<, Nat)
    BY <1>1, WFMin, NatLessThanWellFounded
<1>3. \A k \in D : ~(k < i)
    BY <1>1, <1>2, Zenon DEF OpToRel
<1> QED
    BY <1>3 DEF D

(* First is that place.                                                     *)
LEMMA FirstFacts ==
    ASSUME MessageTypes, NEW m \in P!Elems(handled)
    PROVE  /\ P!First(m) \in DOMAIN handled /\ handled[P!First(m)] = m
           /\ \A k \in DOMAIN handled : k < P!First(m) => handled[k] # m
<1>1. handled \in Seq(Msgs) /\ DOMAIN handled = 1..Len(handled) /\ Len(handled) \in Nat
    BY DEF MessageTypes
<1> DEFINE s == handled
<1>2. ASSUME NEW i \in DOMAIN s
      PROVE  m \notin P!Elems(SubSeq(s, 1, i - 1)) <=> \A k \in DOMAIN s : k < i => s[k] # m
    <2> DEFINE t == SubSeq(s, 1, i - 1)
    <2>1. i - 1 \in 0..Len(s)
        BY <1>1
    <2>2. t \in Seq(Msgs) /\ Len(t) = i - 1 /\ \A k \in 1..i - 1 : t[k] = s[k]
        BY <1>1, <2>1, Parts
    <2>3. DOMAIN t = 1..i - 1
        BY <2>2
    <2> HIDE DEF t
    <2>4. \A k \in DOMAIN s : k < i <=> k \in 1..i - 1
        BY <1>1
    <2>5. \A k \in 1..i - 1 : k \in DOMAIN s
        BY <1>1
    <2>6. m \notin P!Elems(t) <=> \A k \in 1..i - 1 : s[k] # m
        BY <2>2, <2>3 DEF P!Elems
    <2> QED
        BY <2>4, <2>5, <2>6 DEF t
<1>3. \E i \in DOMAIN s : s[i] = m /\ \A k \in DOMAIN s : k < i => s[k] # m
    BY <1>1, FirstPlace
<1>4. \E i \in DOMAIN s : s[i] = m /\ m \notin P!Elems(SubSeq(s, 1, i - 1))
    BY <1>2, <1>3
<1>5. P!First(m) \in DOMAIN s /\ s[P!First(m)] = m /\ m \notin P!Elems(SubSeq(s, 1, P!First(m) - 1))
    BY <1>4 DEF P!First
<1> QED
    BY <1>2, <1>5


(* x was published before y.                                                *)
Earlier(s, x, y) == \E i, j \in DOMAIN s : i < j /\ s[i] = x /\ s[j] = y
Distinct(s) == \A i, j \in DOMAIN s : s[i] = s[j] => i = j

(* Kafka: no reader that starts now reads again what lies before Low.       *)
Low == IF committed > 0 THEN committed ELSE pos

(* Kafka: a reader that is not closed has gone past place i since the last  *)
(* commit, or since the last offset that it noted.                          *)
Since(i) == Low < i \/ (0 < pending /\ pending < i)

(* Every message was published, each with one call, and the one that is     *)
(* sent again belongs to the last call; what an earlier Subscribe still     *)
(* holds is stranded; what Kafka's reader has gone past lately it has       *)
(* handled or has, or it was skipped.                                       *)
Placed ==
    /\ calls \in Seq(Msgs) /\ Distinct(calls)
    /\ inFlight \subseteq async /\ async \subseteq P!Elems(calls)
    /\ retrying \subseteq P!Elems(calls) /\ \A x \in retrying : \A y : ~Earlier(calls, x, y)
    /\ P!Elems(line) \subseteq P!Elems(calls) /\ P!Elems(out) \subseteq P!Elems(calls)
    /\ P!Elems(held) \subseteq P!Elems(calls) /\ P!Elems(handled) \subseteq P!Elems(calls)
    /\ P!Elems(held) \subseteq stranded
    /\ broker = "redis" => line = <<>>
    /\ broker = "kafka" /\ sub # "off" => \A i \in 1..pos :
        Since(i) => line[i] \in P!Elems(handled) \cup P!Elems(out) \cup stranded

(* RabbitMQ and Redis: as long as x can be handled, y is behind it.         *)
InQueue(x, y) ==
    x \in P!Elems(handled) \cup P!Elems(out) \cup P!Elems(line) =>
        /\ Led(handled, x, y)
        /\ \/ x \in P!Elems(handled)
           \/ /\ y \notin P!Elems(held) /\ Led(out, x, y)
              /\ x \in P!Elems(out) \/ Led(line, x, y)

(* Kafka: every x is before every y in the log, and y is read after x was   *)
(* handled, or x will not be handled.                                       *)
Passed(x) ==
    /\ x \notin P!Elems(handled) /\ x \notin P!Elems(out)
    /\ \A q \in DOMAIN line : line[q] = x => q <= Low
InLog(x, y) ==
    /\ \A p, q \in DOMAIN line : line[p] = x /\ line[q] = y => p < q
    /\ \/ Passed(x)
       \/ Led(handled, x, y) /\ (y \in P!Elems(out) => x \in P!Elems(handled))

PairOrder(x, y) == (broker = "kafka" => InLog(x, y)) /\ (broker # "kafka" => InQueue(x, y))

Order ==
    \A x, y \in Msgs :
        Earlier(calls, x, y) /\ x \notin async /\ y \notin async /\ x \notin stranded => PairOrder(x, y)

LEMMA InitOrder == Init => Placed /\ Order
<1> SUFFICES ASSUME P!Init PROVE Placed /\ Order
    BY DEF Init
<1>1. /\ calls = <<>> /\ line = <<>> /\ out = <<>> /\ held = <<>> /\ handled = <<>>
      /\ inFlight = {} /\ async = {} /\ retrying = {} /\ sub = "off" /\ stranded = {}
    BY DEF P!Init
<1>2. <<>> \in Seq(Msgs) /\ DOMAIN <<>> = {} /\ P!Elems(<<>>) = {}
    <2>1. <<>> \in Seq(Msgs) /\ DOMAIN <<>> = {}
        OBVIOUS
    <2> QED
        BY <2>1 DEF P!Elems
<1>3. \A x, y \in Msgs : ~Earlier(calls, x, y)
    BY <1>1, <1>2 DEF Earlier
<1>4. Distinct(calls)
    BY <1>1, <1>2 DEF Distinct
<1> QED
    BY <1>1, <1>2, <1>3, <1>4 DEF Placed, Order

LEMMA EarlierFacts ==
    ASSUME NEW s \in Seq(Msgs), Distinct(s), NEW x, NEW y, Earlier(s, x, y)
    PROVE  x # y /\ x \in P!Elems(s) /\ y \in P!Elems(s)
<1>1. PICK i, j \in DOMAIN s : i < j /\ s[i] = x /\ s[j] = y
    BY DEF Earlier
<1>2. i \in Int /\ j \in Int
    OBVIOUS
<1>3. i # j
    BY <1>1, <1>2
<1> QED
    BY <1>1, <1>3 DEF Distinct, P!Elems

(* Calls come one after the other.                                          *)
LEMMA EarlierAppend ==
    ASSUME NEW s \in Seq(Msgs), Distinct(s), NEW m \in Msgs, m \notin P!Elems(s)
    PROVE  /\ Distinct(Append(s, m))
           /\ \A x, y : Earlier(Append(s, m), x, y) => Earlier(s, x, y) \/ (y = m /\ x \in P!Elems(s))
<1> DEFINE t == Append(s, m)
           l == Len(s)
<1>1. /\ l \in Nat /\ DOMAIN s = 1..l /\ DOMAIN t = 1..l + 1 /\ t[l + 1] = m
      /\ \A i \in 1..l : t[i] = s[i]
    OBVIOUS
<1> HIDE DEF t, l
<1>2. \A i \in 1..l + 1 : i \in 1..l \/ i = l + 1
    BY <1>1
<1>3. \A i \in 1..l : s[i] # m
    BY <1>1 DEF P!Elems
<1>4. Distinct(t)
    BY <1>1, <1>2, <1>3 DEF Distinct
<1>5. ASSUME NEW x, NEW y, Earlier(t, x, y) PROVE Earlier(s, x, y) \/ (y = m /\ x \in P!Elems(s))
    <2>1. PICK i, j \in 1..l + 1 : i < j /\ t[i] = x /\ t[j] = y
        BY <1>1, <1>5 DEF Earlier
    <2>2. i \in 1..l /\ s[i] = x
        BY <1>1, <2>1
    <2>3. CASE j = l + 1
        BY <1>1, <2>1, <2>2, <2>3 DEF P!Elems
    <2>4. CASE j \in 1..l
        BY <1>1, <2>1, <2>2, <2>4 DEF Earlier
    <2> QED
        BY <1>2, <2>3, <2>4
<1> QED
    BY <1>4, <1>5 DEF t

(* The limits of the log.                                                   *)
LEMMA LogFacts ==
    ASSUME MessageTypes, Settled, broker = "kafka"
    PROVE  /\ Len(line) \in Nat /\ DOMAIN line = 1..Len(line) /\ pos \in 0..Len(line)
           /\ Low \in 0..pos /\ committed \in 0..pos /\ pending \in committed..pos
    BY DEF MessageTypes, Settled, Low

(* Publishing adds m to the queue, the log or the messages received.        *)
LEMMA SendElems ==
    ASSUME MessageTypes, NEW m \in Msgs, P!Send(m)
    PROVE  /\ P!Elems(line') \subseteq P!Elems(line) \cup {m}
           /\ P!Elems(out') \subseteq P!Elems(out) \cup {m}
           /\ P!Elems(line) \subseteq P!Elems(line') /\ P!Elems(out) \subseteq P!Elems(out')
           /\ broker = "redis" => line' = line
           /\ broker # "redis" => out' = out
<1>1. /\ P!Elems(Append(line, m)) = P!Elems(line) \cup {m}
      /\ P!Elems(Append(out, m)) = P!Elems(out) \cup {m}
    BY ElemsAppend DEF MessageTypes
<1> QED
    BY <1>1 DEF P!Send, P!RabbitPublish, P!KafkaPublish, P!RedisPublish

LEMMA StepPlaced ==
    MessageTypes /\ Settled /\ Placed /\ (P!Next \/ UNCHANGED pubsub) => Placed'
<1> SUFFICES ASSUME MessageTypes, Settled, Placed, P!Next \/ UNCHANGED pubsub PROVE Placed'
    OBVIOUS
<1>0. P!Elems(<<>>) = {}
    BY DEF P!Elems
<1> USE DEF P!publishVars, P!holdVars, P!offsetVars, P!subVars
<1> DEFINE Calling == UNCHANGED <<broker, calls, inFlight, async>> /\ retrying' \subseteq retrying
           Offsets == UNCHANGED <<broker, pos, pending, committed>>
           LowNext == IF committed' > 0 THEN committed' ELSE pos'
           SinceNext(i) == LowNext < i \/ (0 < pending' /\ pending' < i)
(* What a step that is no publication has to show.                          *)
<1>1. ASSUME Calling,
             P!Elems(line') \cup P!Elems(out') \cup P!Elems(held') \cup P!Elems(handled')
                \subseteq P!Elems(line) \cup P!Elems(out) \cup P!Elems(held) \cup P!Elems(handled),
             P!Elems(held') \subseteq stranded',
             broker = "redis" => line' = line,
             broker = "kafka" /\ sub' # "off" => \A i \in 1..pos' :
                SinceNext(i) => line'[i] \in P!Elems(handled') \cup P!Elems(out') \cup stranded'
      PROVE  Placed'
    <2>1. /\ P!Elems(line') \subseteq P!Elems(calls') /\ P!Elems(out') \subseteq P!Elems(calls')
          /\ P!Elems(held') \subseteq P!Elems(calls') /\ P!Elems(handled') \subseteq P!Elems(calls')
        BY <1>1 DEF Placed
    <2>2. \A i : SinceNext(i) <=> Since(i)'
        BY DEF Low, Since
    <2>3. inFlight' \subseteq async' /\ async' \subseteq P!Elems(calls') /\ calls' \in Seq(Msgs) /\ Distinct(calls')
        BY <1>1 DEF Placed
    <2>4. retrying' \subseteq P!Elems(calls') /\ \A x \in retrying' : \A y : ~Earlier(calls', x, y)
        BY <1>1 DEF Placed
    <2> HIDE DEF SinceNext
    <2>5. broker' = "kafka" /\ sub' # "off" => \A i \in 1..pos' :
            Since(i)' => line'[i] \in P!Elems(handled') \cup P!Elems(out') \cup stranded'
        BY <1>1, <2>2
    <2>6. broker' = "redis" => line' = <<>>
        BY <1>1 DEF Placed
    <2> QED
        BY <1>1, <2>1, <2>3, <2>4, <2>5, <2>6 DEF Placed
<1>2. ASSUME Calling, Offsets, UNCHANGED <<line, held, stranded>>,
             P!Elems(handled) \cup P!Elems(out) = P!Elems(handled') \cup P!Elems(out'),
             sub' # "off" => sub # "off"
      PROVE  Placed'
    BY <1>2 DEF Placed, Since, Low
<1>3. ASSUME NEW m \in Msgs, P!Publish(m) \/ P!Resend(m) \/ P!PublishAsync(m) \/ P!AsyncPublish(m)
      PROVE  Placed'
    <2>1. /\ UNCHANGED <<held, stranded, sub, handled>> /\ Offsets
          /\ P!Send(m) \/ UNCHANGED <<line, out>>
          /\ \/ /\ calls' = Append(calls, m) /\ m \notin P!Elems(calls)
                /\ retrying = {} /\ retrying' \subseteq {m}
             \/ calls' = calls /\ m \in inFlight \cup retrying /\ retrying' \subseteq retrying
          /\ inFlight' \subseteq inFlight \cup {m} /\ inFlight' \subseteq async'
          /\ async' \subseteq async \cup {m}
        <3>1. CASE P!Publish(m) \/ P!Resend(m)
            BY <3>1 DEF P!Publish, P!Resend, Placed
        <3>2. CASE P!AsyncPublish(m)
            BY <3>2 DEF P!AsyncPublish, Placed
        <3>3. CASE P!PublishAsync(m)
            BY <3>3 DEF P!PublishAsync, P!RabbitPublishAsync, P!KafkaPublishAsync, P!RedisPublishAsync, Placed
        <3> QED
            BY <1>3, <3>1, <3>2, <3>3
    <2>2. ASSUME m \notin P!Elems(calls)
          PROVE  /\ Append(calls, m) \in Seq(Msgs) /\ Distinct(Append(calls, m))
                 /\ \A y : ~Earlier(Append(calls, m), m, y)
        <3>1. \A x, y : Earlier(Append(calls, m), x, y) => Earlier(calls, x, y) \/ (y = m /\ x \in P!Elems(calls))
            BY <2>2, EarlierAppend DEF Placed
        <3>2. \A y : ~Earlier(calls, m, y)
            BY <2>2, EarlierFacts DEF Placed
        <3> QED
            BY <2>2, <3>1, <3>2, EarlierAppend, ElemsAppend DEF Placed
    <2>3. P!Elems(Append(calls, m)) = P!Elems(calls) \cup {m}
        BY ElemsAppend DEF Placed
    <2>4. calls' \in Seq(Msgs) /\ Distinct(calls') /\ P!Elems(calls') = P!Elems(calls) \cup {m}
        BY <2>1, <2>2, <2>3 DEF Placed
    <2>5. inFlight' \subseteq async' /\ async' \subseteq P!Elems(calls')
        BY <2>1, <2>4 DEF Placed
    <2>6. /\ P!Elems(line') \subseteq P!Elems(calls') /\ P!Elems(out') \subseteq P!Elems(calls')
          /\ broker = "redis" => line' = <<>>
        BY <2>1, <2>4, SendElems DEF Placed
    <2>7. ASSUME broker = "kafka", sub # "off", NEW i \in 1..pos, Since(i)
          PROVE  line'[i] \in P!Elems(handled) \cup P!Elems(out') \cup stranded
        <3>1. line' \in {line, Append(line, m)} /\ out' = out
            BY <2>1, <2>7 DEF P!Send, P!RabbitPublish, P!KafkaPublish, P!RedisPublish
        <3>2. \A k \in 1..Len(line) : line'[k] = line[k]
            BY <3>1, LogGrows DEF MessageTypes
        <3>3. i \in 1..Len(line)
            BY <2>7, LogFacts
        <3> QED
            BY <2>7, <3>1, <3>2, <3>3 DEF Placed
    <2>8. retrying' \subseteq P!Elems(calls') /\ \A x \in retrying' : \A y : ~Earlier(calls', x, y)
        <3>1. CASE calls' = Append(calls, m) /\ m \notin P!Elems(calls) /\ retrying' \subseteq {m}
            BY <2>2, <2>4, <3>1
        <3>2. CASE calls' = calls /\ retrying' \subseteq retrying
            BY <3>2 DEF Placed
        <3> QED
            BY <2>1, <3>1, <3>2
    <2>9. \A i : Since(i)' <=> Since(i)
        BY <2>1 DEF Since, Low
    <2>10. /\ P!Elems(held') \subseteq P!Elems(calls') /\ P!Elems(handled') \subseteq P!Elems(calls')
           /\ P!Elems(held') \subseteq stranded'
        BY <2>1, <2>4 DEF Placed
    <2>11. broker' = "kafka" /\ sub' # "off" => \A i \in 1..pos' :
            Since(i)' => line'[i] \in P!Elems(handled') \cup P!Elems(out') \cup stranded'
        BY <2>1, <2>7, <2>9
    <2> QED
        BY <2>1, <2>4, <2>5, <2>6, <2>8, <2>10, <2>11 DEF Placed
<1>16. CASE P!GiveUp
    BY <1>2, <1>16 DEF P!GiveUp
<1>4. CASE P!RabbitSubscribe \/ P!RedisSubscribe
    BY <1>1, <1>4 DEF P!RabbitSubscribe, P!RedisSubscribe, P!On, Placed
<1>5. CASE P!KafkaResume \/ P!Unsubscribe
    BY <1>2, <1>5 DEF P!KafkaResume, P!Unsubscribe, P!On
<1>6. CASE P!RabbitResubscribe
    <2>1. /\ broker = "rabbitmq" /\ held' = held \o out /\ out' = <<>> /\ Calling
          /\ stranded' = stranded \cup P!Elems(out) /\ UNCHANGED <<line, handled>>
        BY <1>6 DEF P!RabbitResubscribe, P!On
    <2>2. P!Elems(held') = P!Elems(held) \cup P!Elems(out)
        BY <2>1, ElemsConcat DEF MessageTypes
    <2>3. P!Elems(held') \subseteq stranded'
        BY <2>1, <2>2 DEF Placed
    <2> QED
        BY <1>0, <1>1, <2>1, <2>2, <2>3
<1>7. CASE P!KafkaSubscribe
    <2>1. /\ broker = "kafka" /\ Calling /\ pending' = committed /\ committed' = committed
          /\ pos' = IF committed > 0 THEN committed ELSE Len(line)
          /\ UNCHANGED <<line, out, held, stranded, handled>>
        BY <1>7 DEF P!KafkaSubscribe, P!On
    <2>2. LowNext = pos' /\ (0 < pending' => pending' = pos')
        BY <2>1, LogFacts
    <2>3. pos' \in Nat
        BY <2>1, LogFacts
    <2>4. ~\E i \in 1..pos' : SinceNext(i)
        BY <2>2, <2>3
    <2> HIDE DEF SinceNext
    <2>5. P!Elems(held') \subseteq stranded'
        BY <2>1 DEF Placed
    <2> QED
        BY <1>1, <2>1, <2>4, <2>5
<1>8. CASE P!RabbitDeliver
    <2>1. /\ broker = "rabbitmq" /\ line # <<>> /\ Calling
          /\ out' = Append(out, Head(line)) /\ line' = Tail(line)
          /\ UNCHANGED <<held, stranded, handled>>
        BY <1>8 DEF P!RabbitDeliver
    <2>2. Head(line) \in Msgs /\ P!Elems(line) = {Head(line)} \cup P!Elems(line')
        BY <2>1, ElemsHead DEF MessageTypes
    <2>3. P!Elems(out') = P!Elems(out) \cup {Head(line)}
        BY <2>1, <2>2, ElemsAppend DEF MessageTypes
    <2>4. P!Elems(held') \subseteq stranded'
        BY <2>1 DEF Placed
    <2> QED
        BY <1>1, <2>1, <2>2, <2>3, <2>4
<1>9. CASE P!KafkaFetch
    <2>1. /\ broker = "kafka" /\ sub = "wait" /\ out = <<>> /\ pos < Len(line) /\ Calling
          /\ out' = <<line[pos + 1]>> /\ pos' = pos + 1
          /\ UNCHANGED <<line, held, stranded, committed, pending, handled>>
        BY <1>9 DEF P!KafkaFetch
    <2>2. pos + 1 \in DOMAIN line /\ line[pos + 1] \in Msgs /\ pos \in Nat
        BY <2>1, LogFacts DEF MessageTypes
    <2>3. P!Elems(out') = {line[pos + 1]} /\ {line[pos + 1]} \subseteq P!Elems(line)
        BY <2>1, <2>2, ElemsOne DEF P!Elems
    <2>4. ASSUME NEW i \in 1..pos', SinceNext(i)
          PROVE  line[i] \in P!Elems(handled) \cup P!Elems(out') \cup stranded
        <3>1. i = pos + 1 \/ i \in 1..pos
            BY <2>1, <2>2
        <3>2. i \in 1..pos => Since(i)
            BY <2>1, <2>2, <2>4 DEF Since, Low
        <3>3. \A k \in 1..pos : Since(k) => line[k] \in P!Elems(handled) \cup stranded
            BY <1>0, <2>1 DEF Placed
        <3> QED
            BY <2>3, <3>1, <3>2, <3>3
    <2>5. P!Elems(held') \subseteq stranded'
        BY <2>1 DEF Placed
    <2> HIDE DEF SinceNext
    <2> QED
        BY <1>1, <2>1, <2>3, <2>4, <2>5
<1>17. CASE P!KafkaNote
    <2>1. /\ Calling /\ sub = "fetched" /\ pending' = pos
          /\ UNCHANGED <<line, out, held, stranded, pos, committed, handled>>
        BY <1>17 DEF P!KafkaNote
    <2>2. broker = "kafka" /\ pos \in Nat
        BY <2>1 DEF Settled, MessageTypes
    <2>3. \A i \in 1..pos : SinceNext(i) => Since(i)
        BY <2>1, <2>2 DEF Since, Low
    <2>4. \A i \in 1..pos : Since(i) => line[i] \in P!Elems(handled) \cup P!Elems(out) \cup stranded
        BY <2>1, <2>2 DEF Placed
    <2>5. P!Elems(held') \subseteq stranded'
        BY <2>1 DEF Placed
    <2> HIDE DEF SinceNext
    <2> QED
        BY <1>1, <2>1, <2>2, <2>3, <2>4, <2>5
<1>18. CASE P!KafkaSkip
    <2>1. /\ Calling /\ sub = "fetched" /\ out' = <<>> /\ stranded' = stranded \cup P!Elems(out)
          /\ UNCHANGED <<line, held, pos, pending, committed, handled>>
        BY <1>18 DEF P!KafkaSkip
    <2>2. broker = "kafka"
        BY <2>1 DEF Settled
    <2>3. \A i : SinceNext(i) <=> Since(i)
        BY <2>1 DEF Since, Low
    <2>4. \A i \in 1..pos : Since(i) => line[i] \in P!Elems(handled) \cup P!Elems(out) \cup stranded
        BY <2>1, <2>2 DEF Placed
    <2>5. P!Elems(held') \subseteq stranded'
        BY <2>1 DEF Placed
    <2> HIDE DEF SinceNext
    <2> QED
        BY <1>0, <1>1, <2>1, <2>2, <2>3, <2>4, <2>5
<1>10. CASE P!KafkaCommit
    <2>1. /\ broker = "kafka" /\ sub # "off" /\ committed < pending /\ committed' = pending /\ Calling
          /\ UNCHANGED <<line, out, held, stranded, pos, pending, handled>>
        BY <1>10 DEF P!KafkaCommit
    <2>2. pending > 0 /\ pending \in Nat
        BY <2>1, LogFacts
    <2>3. \A i \in 1..pos : SinceNext(i) => Since(i)
        BY <2>1, <2>2 DEF Since
    <2>4. \A i \in 1..pos : Since(i) => line[i] \in P!Elems(handled) \cup P!Elems(out) \cup stranded
        BY <2>1 DEF Placed
    <2>5. P!Elems(held') \subseteq stranded'
        BY <2>1 DEF Placed
    <2> HIDE DEF SinceNext
    <2> QED
        BY <1>1, <2>1, <2>3, <2>4, <2>5
<1>11. CASE P!Handle
    <2>1. /\ sub = "wait" /\ out # <<>> /\ handled' = Append(handled, Head(out)) /\ Calling /\ Offsets
          /\ out' \in {out, Tail(out)} /\ UNCHANGED <<line, held, stranded>>
        BY <1>11 DEF P!Handle
    <2>2. Head(out) \in Msgs /\ P!Elems(out) = {Head(out)} \cup P!Elems(Tail(out))
        BY <2>1, ElemsHead DEF MessageTypes
    <2>3. P!Elems(handled') = P!Elems(handled) \cup {Head(out)}
        BY <2>1, <2>2, ElemsAppend DEF MessageTypes
    <2>4. P!Elems(handled) \cup P!Elems(out) = P!Elems(handled') \cup P!Elems(out')
        BY <2>1, <2>2, <2>3
    <2> QED
        BY <1>2, <2>1, <2>4
<1>12. CASE P!RabbitAck
    <2>1. /\ sub = "ack" /\ out' = Tail(out) /\ Calling /\ UNCHANGED <<line, held, stranded, handled>>
        BY <1>12 DEF P!RabbitAck
    <2>2. broker = "rabbitmq" /\ out # <<>>
        BY <2>1 DEF Settled
    <2>3. P!Elems(out') \subseteq P!Elems(out)
        BY <2>1, <2>2, ElemsHead DEF MessageTypes
    <2>4. P!Elems(held') \subseteq stranded'
        BY <2>1 DEF Placed
    <2> QED
        BY <1>1, <2>1, <2>2, <2>3, <2>4
<1>13. CASE P!Leave
    <2>1. /\ sub = "wait" /\ Calling /\ Offsets /\ UNCHANGED <<line, held, stranded, handled>>
          /\ \/ broker = "redis" /\ sub' = "off" /\ out' = <<>>
             \/ broker # "redis" /\ out' = out
        BY <1>13 DEF P!Leave
    <2>2. P!Elems(out') \subseteq P!Elems(out)
        BY <1>0, <2>1
    <2>3. P!Elems(held') \subseteq stranded'
        BY <2>1 DEF Placed
    <2>4. CASE broker = "redis"
        BY <1>1, <2>1, <2>2, <2>3, <2>4
    <2>5. CASE broker # "redis"
        BY <1>2, <2>1, <2>5
    <2> QED
        BY <2>4, <2>5
<1>14. CASE P!Drop
    <2>1. /\ sub' = "off" /\ out' = <<>> /\ held' = <<>> /\ Calling
          /\ line' = IF broker = "rabbitmq" THEN held \o out \o line ELSE line
          /\ UNCHANGED <<stranded, handled>>
        BY <1>14 DEF P!Drop
    <2>2. /\ held \o out \in Seq(Msgs)
          /\ P!Elems(held \o out) = P!Elems(held) \cup P!Elems(out)
        BY ElemsConcat DEF MessageTypes
    <2>3. P!Elems((held \o out) \o line) = P!Elems(held) \cup P!Elems(out) \cup P!Elems(line)
        BY <2>2, ElemsConcat DEF MessageTypes
    <2>4. P!Elems(line') \subseteq P!Elems(held) \cup P!Elems(out) \cup P!Elems(line)
        BY <2>1, <2>3
    <2>5. broker = "redis" => line' = line
        BY <2>1
    <2> QED
        BY <1>0, <1>1, <2>1, <2>4, <2>5
<1>15. CASE UNCHANGED pubsub
    BY <1>2, <1>15 DEF pubsub
<1> QED
    BY <1>3, <1>4, <1>5, <1>6, <1>7, <1>8, <1>9, <1>10, <1>11, <1>12, <1>13, <1>14, <1>15,
       <1>16, <1>17, <1>18
       DEF P!Next, P!SubscriberNext

(* Publishing m keeps the order of x and y, when m is not x.                *)
LEMMA SendOrder ==
    ASSUME MessageTypes, Settled, Placed, NEW m \in Msgs, P!Send(m),
           UNCHANGED <<broker, held, handled, pos, committed>>,
           NEW x, NEW y, x # m, PairOrder(x, y)
    PROVE  PairOrder(x, y)'
<1>1. CASE P!KafkaPublish(m)
    <2>1. broker = "kafka" /\ out' = out /\ line' \in {line, Append(line, m)}
        BY <1>1 DEF P!KafkaPublish
    <2>2. InLog(x, y)
        BY <2>1 DEF PairOrder
    <2> DEFINE l == Len(line)
               k == Len(line')
    <2>3. /\ l \in Nat /\ k \in Nat /\ l <= k /\ DOMAIN line = 1..l
          /\ DOMAIN line' = 1..k /\ \A i \in 1..l : line'[i] = line[i]
        <3>1. line \in Seq(Msgs) /\ line' \in Seq(Msgs)
            BY <2>1, LogGrows DEF MessageTypes
        <3>2. \A i \in 1..Len(line) : line'[i] = line[i]
            BY <2>1, LogGrows DEF MessageTypes
        <3>3. Len(line) <= Len(line')
            BY <2>1, LogGrows DEF MessageTypes
        <3> QED
            BY <3>1, <3>2, <3>3
    <2>4. P!Elems(line') \subseteq P!Elems(line) \cup {m}
        BY SendElems
    <2>5. ASSUME NEW i \in 1..k, i \notin 1..l PROVE line'[i] = m
        <3>1. CASE line' = Append(line, m)
            <4>1. k = l + 1 /\ line'[l + 1] = m
                BY <2>3, <3>1 DEF MessageTypes
            <4>2. i = l + 1
                BY <2>3, <2>5, <4>1
            <4> QED
                BY <4>1, <4>2
        <3>2. CASE line' = line
            BY <2>3, <2>5, <3>2
        <3> QED
            BY <2>1, <3>1, <3>2
    <2> HIDE DEF l, k
    <2>6. ASSUME NEW i \in 1..k, line'[i] = x PROVE i \in 1..l /\ line[i] = x
        BY <2>3, <2>5, <2>6
    <2>7. ASSUME NEW p \in 1..k, NEW q \in 1..k, line'[p] = x, line'[q] = y PROVE p < q
        <3>1. p \in 1..l /\ line[p] = x
            BY <2>6, <2>7
        <3>2. CASE q \in 1..l
            BY <2>2, <2>3, <2>7, <3>1, <3>2 DEF InLog
        <3>3. CASE q \notin 1..l
            BY <2>3, <2>7, <3>1, <3>3
        <3> QED
            BY <3>2, <3>3
    <2>8. Passed(x) => \A q \in 1..k : line'[q] = x => q <= Low
        BY <2>3, <2>6 DEF Passed
    <2>9. \A p, q \in DOMAIN line' : line'[p] = x /\ line'[q] = y => p < q
        BY <2>3, <2>7
    <2>10. Passed(x) => Passed(x)'
        BY <2>1, <2>3, <2>8 DEF Passed, Low
    <2>11. (Led(handled, x, y) /\ (y \in P!Elems(out) => x \in P!Elems(handled)))
            => (Led(handled', x, y) /\ (y \in P!Elems(out') => x \in P!Elems(handled')))
        BY <2>1
    <2>12. InLog(x, y)'
        BY <2>2, <2>9, <2>10, <2>11 DEF InLog
    <2> QED
        BY <2>1, <2>12 DEF PairOrder
<1>2. CASE P!RabbitPublish(m) \/ P!RedisPublish(m)
    <2>1. /\ broker # "kafka" /\ broker' = broker /\ handled' = handled /\ held' = held
          /\ \/ line' \in {line, Append(line, m)} /\ out' = out
             \/ line' = line /\ out' \in {out, Append(out, m)} /\ line = <<>>
        BY <1>2 DEF P!RabbitPublish, P!RedisPublish, Placed
    <2>2. InQueue(x, y)
        BY <2>1 DEF PairOrder
    <2>3. /\ P!Elems(line') \subseteq P!Elems(line) \cup {m}
          /\ P!Elems(out') \subseteq P!Elems(out) \cup {m}
          /\ P!Elems(line) \subseteq P!Elems(line') /\ P!Elems(out) \subseteq P!Elems(out')
        BY SendElems
    <2>4. P!Elems(<<>>) = {}
        BY DEF P!Elems
    <2>5. ASSUME x \in P!Elems(handled) \cup P!Elems(out') \cup P!Elems(line'), x \notin P!Elems(handled)
          PROVE  /\ Led(handled, x, y) /\ y \notin P!Elems(held) /\ Led(out', x, y)
                 /\ x \in P!Elems(out') \/ Led(line', x, y)
        <3>1. /\ Led(handled, x, y) /\ y \notin P!Elems(held) /\ Led(out, x, y)
              /\ x \in P!Elems(out) \/ Led(line, x, y)
              /\ x \in P!Elems(out) \cup P!Elems(line)
            BY <2>2, <2>3, <2>5 DEF InQueue
        <3>2. CASE line' = line /\ out' = out
            BY <3>1, <3>2
        <3>3. CASE line' = Append(line, m) /\ out' = out
            <4>1. x \in P!Elems(out) \/ Led(line', x, y)
                BY <3>1, <3>3, LedAppend DEF MessageTypes
            <4> QED
                BY <3>1, <3>3, <4>1
        <3>4. CASE line' = line /\ out' = Append(out, m) /\ line = <<>>
            <4>1. x \in P!Elems(out)
                BY <2>4, <3>1, <3>4
            <4>2. Led(out', x, y)
                BY <3>1, <3>4, <4>1, LedAppend DEF MessageTypes
            <4> QED
                BY <2>3, <3>1, <4>1, <4>2
        <3> QED
            BY <2>1, <3>2, <3>3, <3>4
    <2>6. x \in P!Elems(handled) => Led(handled, x, y)
        BY <2>2 DEF InQueue
    <2>7. InQueue(x, y)'
        BY <2>1, <2>5, <2>6 DEF InQueue
    <2> QED
        BY <2>1, <2>7 DEF PairOrder
<1> QED
    BY <1>1, <1>2 DEF P!Send

(* The handler gets the messages of the client in the order in which they   *)
(* are there.                                                               *)
LEMMA HandleOrder ==
    ASSUME MessageTypes, P!Handle, NEW x, NEW y, PairOrder(x, y)
    PROVE  PairOrder(x, y)'
<1> DEFINE h == Head(out)
<1>1. /\ out # <<>> /\ handled' = Append(handled, h)
      /\ \/ broker = "rabbitmq" /\ out' = out
         \/ broker # "rabbitmq" /\ out' = Tail(out)
      /\ UNCHANGED <<broker, line, held, pos, committed>>
    BY DEF P!Handle, P!holdVars, P!offsetVars
<1>2. h \in Msgs /\ P!Elems(out) = {h} \cup P!Elems(Tail(out)) /\ P!Elems(out') \subseteq P!Elems(out)
    BY <1>1, ElemsHead DEF MessageTypes
<1>3. P!Elems(handled') = P!Elems(handled) \cup {h}
    BY <1>1, <1>2, ElemsAppend DEF MessageTypes
<1>4. Led(handled, x, y) /\ (h = y => x \in P!Elems(handled)) => Led(handled', x, y)
    BY <1>1, <1>2, LedAppend DEF MessageTypes
<1>5. Led(out, x, y) => h # y /\ (h # x => Led(Tail(out), x, y))
    BY <1>1, LedHead DEF MessageTypes
<1> HIDE DEF h
<1>6. CASE broker = "kafka"
    <2>1. InLog(x, y)
        BY <1>6 DEF PairOrder
    <2>2. Passed(x) => Passed(x)'
        BY <1>1, <1>2, <1>3 DEF Passed, Low
    <2>3. Led(handled, x, y) /\ (y \in P!Elems(out) => x \in P!Elems(handled))
            => Led(handled', x, y) /\ (y \in P!Elems(out') => x \in P!Elems(handled'))
        BY <1>2, <1>3, <1>4
    <2>4. InLog(x, y)'
        BY <1>1, <2>1, <2>2, <2>3 DEF InLog
    <2> QED
        BY <1>1, <1>6, <2>4 DEF PairOrder
<1>7. CASE broker # "kafka"
    <2>1. InQueue(x, y)
        BY <1>7 DEF PairOrder
    <2>2. x \in P!Elems(handled') \cup P!Elems(out') \cup P!Elems(line)
            => x \in P!Elems(handled) \cup P!Elems(out) \cup P!Elems(line)
        BY <1>2, <1>3
    <2>3. ASSUME x \in P!Elems(handled') \cup P!Elems(out') \cup P!Elems(line)
          PROVE  /\ Led(handled', x, y)
                 /\ \/ x \in P!Elems(handled')
                    \/ /\ y \notin P!Elems(held) /\ Led(out', x, y)
                       /\ x \in P!Elems(out') \/ Led(line, x, y)
        <3>1. /\ Led(handled, x, y)
              /\ \/ x \in P!Elems(handled)
                 \/ /\ y \notin P!Elems(held) /\ Led(out, x, y)
                    /\ x \in P!Elems(out) \/ Led(line, x, y)
            BY <2>1, <2>2, <2>3 DEF InQueue
        <3>2. Led(handled', x, y)
            BY <1>4, <1>5, <3>1
        <3>3. x \notin P!Elems(handled') => h # x /\ x \notin P!Elems(handled)
            BY <1>3
        <3>4. ASSUME x \notin P!Elems(handled')
              PROVE  Led(out', x, y) /\ (x \in P!Elems(out) => x \in P!Elems(out'))
            BY <1>1, <1>2, <1>5, <3>1, <3>3, <3>4
        <3> QED
            BY <3>1, <3>2, <3>3, <3>4
    <2>4. InQueue(x, y)'
        BY <1>1, <2>3 DEF InQueue
    <2> QED
        BY <1>1, <1>7, <2>4 DEF PairOrder
<1> QED
    BY <1>6, <1>7

LEMMA SubscriberOrder ==
    ASSUME MessageTypes, Settled, Placed, P!SubscriberNext,
           NEW x, NEW y, x # y, x \notin stranded', PairOrder(x, y)
    PROVE  PairOrder(x, y)'
<1>0. P!Elems(<<>>) = {} /\ Led(<<>>, x, y)
    BY DEF P!Elems, Led
<1> USE DEF P!publishVars, P!holdVars, P!offsetVars, P!subVars
<1> DEFINE LowNext == IF committed' > 0 THEN committed' ELSE pos'
(* Kafka's reader only goes on.                                             *)
<1>1. ASSUME broker' = broker, broker = "kafka", UNCHANGED <<line, handled>>,
             LowNext >= Low, P!Elems(out') \subseteq P!Elems(out)
      PROVE  PairOrder(x, y)'
    <2>1. InLog(x, y)
        BY <1>1 DEF PairOrder
    <2>2. LowNext = Low'
        BY DEF Low
    <2>3. Low \in Nat /\ LowNext \in Nat /\ \A q \in DOMAIN line : q \in Nat
        <3>1. MessageTypes'
            BY StepSettled DEF P!Next
        <3> QED
            BY <3>1 DEF MessageTypes, Low
    <2> HIDE DEF LowNext
    <2>4. Passed(x) => Passed(x)'
        BY <1>1, <2>2, <2>3 DEF Passed
    <2>5. InLog(x, y)'
        BY <1>1, <2>1, <2>4 DEF InLog
    <2> QED
        BY <1>1, <2>5 DEF PairOrder
(* The queue stays as it is.                                                *)
<1>2. ASSUME UNCHANGED <<broker, line, out, held, handled, pos, committed>>
      PROVE  PairOrder(x, y)'
    BY <1>2 DEF PairOrder, InQueue, InLog, Passed, Low
<1>3. ASSUME broker' = broker, broker # "kafka", handled' = handled,
             x \in P!Elems(out') \cup P!Elems(line') => x \in P!Elems(out) \cup P!Elems(line),
             y \notin P!Elems(held) /\ Led(out, x, y) /\ (x \in P!Elems(out) \/ Led(line, x, y))
                /\ x \in P!Elems(out') \cup P!Elems(line') /\ x \notin P!Elems(handled)
              => y \notin P!Elems(held') /\ Led(out', x, y) /\ (x \in P!Elems(out') \/ Led(line', x, y))
      PROVE  PairOrder(x, y)'
    <2>1. InQueue(x, y)
        BY <1>3 DEF PairOrder
    <2>2. InQueue(x, y)'
        BY <1>3, <2>1 DEF InQueue
    <2> QED
        BY <1>3, <2>2 DEF PairOrder
<1>4. CASE P!RabbitSubscribe \/ P!RedisSubscribe \/ P!KafkaResume \/ P!Unsubscribe
    BY <1>2, <1>4 DEF P!RabbitSubscribe, P!RedisSubscribe, P!KafkaResume, P!Unsubscribe, P!On
<1>5. CASE P!RabbitResubscribe
    <2>1. /\ broker = "rabbitmq" /\ broker' = broker /\ held' = held \o out /\ out' = <<>>
          /\ stranded' = stranded \cup P!Elems(out) /\ UNCHANGED <<line, handled>>
        BY <1>5 DEF P!RabbitResubscribe, P!On
    <2>2. P!Elems(held') = P!Elems(held) \cup P!Elems(out) /\ x \notin P!Elems(out)
        BY <2>1, ElemsConcat DEF MessageTypes
    <2>3. Led(out, x, y) => y \notin P!Elems(out)
        BY <2>2, LedFacts DEF MessageTypes
    <2> QED
        BY <1>0, <1>3, <2>1, <2>2, <2>3
<1>6. CASE P!KafkaSubscribe
    <2>1. /\ broker = "kafka" /\ broker' = broker /\ committed' = committed
          /\ pos' = IF committed > 0 THEN committed ELSE Len(line)
          /\ UNCHANGED <<line, out, handled>>
        BY <1>6 DEF P!KafkaSubscribe, P!On
    <2>2. LowNext >= Low
        BY <2>1, LogFacts DEF Low
    <2> HIDE DEF LowNext
    <2> QED
        BY <1>1, <2>1, <2>2
<1>7. CASE P!RabbitDeliver
    <2> DEFINE h == Head(line)
    <2>1. /\ broker = "rabbitmq" /\ broker' = broker /\ line # <<>>
          /\ out' = Append(out, h) /\ line' = Tail(line) /\ UNCHANGED <<held, handled>>
        BY <1>7 DEF P!RabbitDeliver
    <2>2. h \in Msgs /\ P!Elems(line) = {h} \cup P!Elems(line')
        BY <2>1, ElemsHead DEF MessageTypes
    <2>3. P!Elems(out') = P!Elems(out) \cup {h}
        BY <2>1, <2>2, ElemsAppend DEF MessageTypes
    <2>4. Led(line, x, y) => h # y /\ (h # x => Led(line', x, y))
        BY <2>1, LedHead DEF MessageTypes
    <2>5. Led(out, x, y) /\ (h = y => x \in P!Elems(out)) => Led(out', x, y)
        BY <2>1, <2>2, LedAppend DEF MessageTypes
    <2> HIDE DEF h
    <2> QED
        BY <1>3, <2>1, <2>2, <2>3, <2>4, <2>5
<1>8. CASE P!KafkaFetch
    <2>1. /\ broker = "kafka" /\ sub = "wait" /\ out = <<>> /\ pos < Len(line) /\ broker' = broker
          /\ out' = <<line[pos + 1]>> /\ pos' = pos + 1 /\ UNCHANGED <<line, committed, handled>>
        BY <1>8 DEF P!KafkaFetch
    <2>2. pos + 1 \in DOMAIN line /\ line[pos + 1] \in Msgs
        BY <2>1, LogFacts DEF MessageTypes
    <2>3. P!Elems(out') = {line[pos + 1]}
        BY <2>1, <2>2, ElemsOne
    <2>4. Low \in 0..pos /\ Low <= LowNext /\ LowNext \in Nat /\ LowNext = Low'
        BY <2>1, LogFacts DEF Low
    <2>5. InLog(x, y) /\ \A q \in DOMAIN line : q \in Nat
        BY <2>1 DEF PairOrder
    <2> HIDE DEF LowNext
    <2>11. x \notin stranded
        BY <1>8 DEF P!KafkaFetch
    <2>6. ASSUME Passed(x) PROVE Passed(x)'
        <3>1. line[pos + 1] # x
            <4>1. \A q \in DOMAIN line : line[q] = x => q <= Low
                BY <2>6 DEF Passed
            <4>2. ~(pos + 1 <= Low) /\ pos \in Nat
                BY <2>4, <2>1, LogFacts
            <4> QED
                BY <2>2, <4>1, <4>2
        <3>2. \A q \in DOMAIN line : line[q] = x => q <= LowNext
            BY <2>4, <2>5, <2>6 DEF Passed
        <3>3. x \notin P!Elems(handled) /\ x \notin P!Elems(out')
            BY <2>3, <2>6, <3>1 DEF Passed
        <3> QED
            BY <2>1, <2>4, <3>2, <3>3 DEF Passed
    <2>7. ASSUME x \notin P!Elems(handled), line[pos + 1] = y PROVE Passed(x)'
        <3>1. ASSUME NEW q \in DOMAIN line, line[q] = x PROVE q <= LowNext
            <4>1. q < pos + 1
                BY <2>2, <2>5, <2>7, <3>1 DEF InLog
            <4>2. \A i \in 1..pos : Low < i => line[i] \in P!Elems(handled) \cup stranded
                BY <1>0, <2>1 DEF Placed, Since
            <4>3. q \in 1..pos
                BY <2>1, <3>1, <4>1, LogFacts
            <4>4. q <= Low
                BY <2>4, <2>5, <2>7, <2>11, <3>1, <4>2, <4>3
            <4> QED
                BY <2>4, <2>5, <4>4
        <3>2. x \notin P!Elems(out')
            BY <2>3, <2>7
        <3> QED
            BY <2>1, <2>4, <2>7, <3>1, <3>2 DEF Passed
    <2>8. ASSUME ~Passed(x), line[pos + 1] = y => x \in P!Elems(handled)
          PROVE  Led(handled', x, y) /\ (y \in P!Elems(out') => x \in P!Elems(handled'))
        BY <2>1, <2>3, <2>5, <2>8 DEF InLog
    <2>9. \/ Passed(x)'
          \/ Led(handled', x, y) /\ (y \in P!Elems(out') => x \in P!Elems(handled'))
        <3>1. CASE Passed(x)
            BY <2>6, <3>1
        <3>2. CASE ~Passed(x) /\ x \notin P!Elems(handled) /\ line[pos + 1] = y
            BY <2>7, <3>2
        <3>3. CASE ~Passed(x) /\ (line[pos + 1] = y => x \in P!Elems(handled))
            BY <2>8, <3>3
        <3> QED
            BY <3>1, <3>2, <3>3
    <2>10. InLog(x, y)'
        BY <2>1, <2>5, <2>9 DEF InLog
    <2> QED
        BY <2>1, <2>10 DEF PairOrder
<1>9. CASE P!KafkaCommit
    <2>1. /\ broker = "kafka" /\ sub # "off" /\ committed < pending /\ committed' = pending
          /\ UNCHANGED <<broker, line, out, pos, handled, stranded>>
        BY <1>9 DEF P!KafkaCommit
    <2>2. /\ InLog(x, y) /\ Low' = pending /\ pending \in 1..pos /\ x \notin stranded
          /\ \A q \in DOMAIN line : q \in Nat /\ 0 < q
        BY <2>1, LogFacts DEF PairOrder, Low
    <2>3. ASSUME Passed(x) PROVE Passed(x)'
        <3>1. ASSUME NEW q \in DOMAIN line, line[q] = x PROVE q <= pending
            <4>1. q <= Low /\ q \in 1..pos
                BY <2>1, <2>2, <2>3, <3>1, LogFacts DEF Passed
            <4>2. ~Since(q)
                BY <2>1, <2>2, <2>3, <3>1, <4>1 DEF Passed, Placed
            <4> QED
                BY <2>2, <4>1, <4>2 DEF Since
        <3> QED
            BY <2>1, <2>2, <2>3, <3>1 DEF Passed
    <2>4. InLog(x, y)'
        BY <2>1, <2>2, <2>3 DEF InLog
    <2> QED
        BY <2>1, <2>4 DEF PairOrder
<1>14. CASE P!KafkaNote
    BY <1>2, <1>14 DEF P!KafkaNote
<1>15. CASE P!KafkaSkip
    <2>1. /\ sub = "fetched" /\ out' = <<>> /\ UNCHANGED <<broker, line, handled, pos, committed>>
        BY <1>15 DEF P!KafkaSkip
    <2>2. broker = "kafka" /\ LowNext = Low /\ Low \in Nat
        BY <2>1, LogFacts DEF Settled, Low
    <2> HIDE DEF LowNext
    <2>3. P!Elems(out') \subseteq P!Elems(out) /\ LowNext >= Low
        BY <1>0, <2>1, <2>2
    <2> QED
        BY <1>1, <2>1, <2>2, <2>3
<1>10. CASE P!Handle
    BY <1>10, HandleOrder
<1>11. CASE P!RabbitAck
    <2> DEFINE h == Head(out)
    <2>1. /\ sub = "ack" /\ broker' = broker /\ out' = Tail(out) /\ UNCHANGED <<line, held, handled>>
        BY <1>11 DEF P!RabbitAck
    <2>2. broker = "rabbitmq" /\ out # <<>> /\ h \in P!Elems(handled)
        BY <2>1 DEF Settled
    <2>3. P!Elems(out) = {h} \cup P!Elems(out')
        BY <2>1, <2>2, ElemsHead DEF MessageTypes
    <2>4. Led(out, x, y) => (h # x => Led(out', x, y))
        BY <2>1, <2>2, LedHead DEF MessageTypes
    <2> HIDE DEF h
    <2> QED
        BY <1>3, <2>1, <2>2, <2>3, <2>4
<1>12. CASE P!Leave
    <2>1. /\ sub = "wait" /\ UNCHANGED <<broker, line, held, handled, pos, committed>>
          /\ \/ broker = "redis" /\ out' = <<>>
             \/ broker # "redis" /\ out' = out
        BY <1>12 DEF P!Leave
    <2>2. CASE broker = "redis"
        <3>1. P!Elems(out') = {} /\ P!Elems(line') = {}
            BY <1>0, <2>1, <2>2 DEF Placed
        <3> QED
            BY <1>3, <2>1, <2>2, <3>1
    <2>3. CASE broker # "redis"
        BY <1>2, <2>1, <2>3
    <2> QED
        BY <2>2, <2>3
<1>13. CASE P!Drop
    <2>1. /\ sub' = "off" /\ out' = <<>> /\ held' = <<>> /\ stranded' = stranded
          /\ line' = IF broker = "rabbitmq" THEN held \o out \o line ELSE line
          /\ UNCHANGED <<broker, handled, pos, committed>>
        BY <1>13 DEF P!Drop
    <2>2. CASE broker = "kafka"
        <3>1. LowNext = Low /\ Low \in Nat
            BY <2>1, <2>2, LogFacts DEF Low
        <3> HIDE DEF LowNext
        <3>2. LowNext >= Low
            BY <3>1
        <3> QED
            BY <1>0, <1>1, <2>1, <2>2, <3>2
    <2>3. CASE broker = "redis"
        <3>1. P!Elems(out') = {} /\ P!Elems(line') = {}
            BY <1>0, <2>1, <2>3 DEF Placed
        <3> QED
            BY <1>3, <2>1, <2>3, <3>1
    <2>4. CASE broker = "rabbitmq"
        <3>1. /\ held \o out \in Seq(Msgs) /\ P!Elems(held \o out) = P!Elems(held) \cup P!Elems(out)
              /\ line' = (held \o out) \o line
            BY <2>1, <2>4, ElemsConcat DEF MessageTypes
        <3>2. P!Elems(line') = P!Elems(held) \cup P!Elems(out) \cup P!Elems(line)
            BY <3>1, ElemsConcat DEF MessageTypes
        <3>3. x \notin P!Elems(held)
            BY <2>1 DEF Placed
        <3>4. ASSUME y \notin P!Elems(held), Led(out, x, y), x \in P!Elems(out) \/ Led(line, x, y)
              PROVE  Led(line', x, y)
            <4>1. Led(held, x, y)
                BY <3>4, LedFacts DEF MessageTypes
            <4>2. Led(held \o out, x, y)
                BY <3>4, <4>1, LedConcat DEF MessageTypes
            <4>3. x \in P!Elems(held \o out) \/ Led(line, x, y)
                BY <3>1, <3>4
            <4> QED
                BY <3>1, <4>2, <4>3, LedConcat DEF MessageTypes
        <3>5. P!Elems(out') = {} /\ P!Elems(held') = {} /\ Led(out', x, y)
            BY <1>0, <2>1
        <3> QED
            BY <1>3, <2>1, <2>4, <3>2, <3>3, <3>4, <3>5
    <2> QED
        BY <2>2, <2>3, <2>4 DEF MessageTypes
<1> QED
    BY <1>4, <1>5, <1>6, <1>7, <1>8, <1>9, <1>10, <1>11, <1>12, <1>13, <1>14, <1>15
       DEF P!SubscriberNext

LEMMA StepOrder ==
    MessageTypes /\ Settled /\ Placed /\ Order /\ (P!Next \/ UNCHANGED pubsub) => Order'
<1> SUFFICES ASSUME MessageTypes, Settled, Placed, Order, P!Next \/ UNCHANGED pubsub,
                    NEW x \in Msgs, NEW y \in Msgs, Earlier(calls', x, y),
                    x \notin async', y \notin async', x \notin stranded'
             PROVE  PairOrder(x, y)'
    BY DEF Order
<1> USE DEF P!publishVars, P!holdVars, P!offsetVars, P!subVars
<1>1. Earlier(calls, x, y) /\ x \notin async /\ y \notin async /\ x \notin stranded => PairOrder(x, y)
    BY DEF Order
<1>2. ASSUME UNCHANGED <<broker, line, out, held, handled, pos, committed>>, PairOrder(x, y)
      PROVE  PairOrder(x, y)'
    BY <1>2 DEF PairOrder, InQueue, InLog, Passed, Low
(* A call of Publish.                                                       *)
<1>3. ASSUME NEW m \in Msgs, P!Publish(m) PROVE PairOrder(x, y)'
    <2>1. /\ m \notin P!Elems(calls) /\ calls' = Append(calls, m) /\ P!Send(m)
          /\ UNCHANGED <<broker, async, held, handled, stranded, pos, committed>>
        BY <1>3 DEF P!Publish
    <2>2. Earlier(calls, x, y) \/ (y = m /\ x \in P!Elems(calls))
        BY <2>1, EarlierAppend DEF Placed
    <2>3. /\ m \notin P!Elems(line) /\ m \notin P!Elems(out)
          /\ m \notin P!Elems(held) /\ m \notin P!Elems(handled)
        BY <2>1 DEF Placed
    <2>4. x # m
        BY <2>1, <2>2, EarlierFacts DEF Placed
    <2>5. CASE Earlier(calls, x, y)
        <3>1. PairOrder(x, y)
            BY <1>1, <2>1, <2>5
        <3> QED
            BY <2>1, <2>4, <3>1, SendOrder
    <2>6. CASE y = m
        <3>1. Led(line, x, y) /\ Led(out, x, y) /\ Led(handled, x, y)
            BY <2>3, <2>6, LedFacts DEF MessageTypes
        <3>2. \A q \in DOMAIN line : line[q] # y
            BY <2>3, <2>6 DEF P!Elems
        <3>3. PairOrder(x, y)
            BY <2>3, <2>6, <3>1, <3>2 DEF PairOrder, InLog, InQueue
        <3> QED
            BY <2>1, <2>4, <3>3, SendOrder
    <2> QED
        BY <2>2, <2>5, <2>6
(* A call of PublishAsync, whose order is left open.                        *)
<1>4. ASSUME NEW m \in Msgs, P!PublishAsync(m) PROVE PairOrder(x, y)'
    <2>1. /\ m \notin P!Elems(calls) /\ calls' = Append(calls, m) /\ async' = async \cup {m}
          /\ UNCHANGED <<broker, line, out, held, handled, stranded, pos, committed>>
        BY <1>4 DEF P!PublishAsync, P!RabbitPublishAsync, P!KafkaPublishAsync, P!RedisPublishAsync
    <2>2. Earlier(calls, x, y)
        BY <2>1, EarlierAppend DEF Placed
    <2>3. PairOrder(x, y)
        BY <1>1, <2>1, <2>2
    <2> QED
        BY <1>2, <2>1, <2>3
(* Its goroutine.                                                           *)
<1>5. ASSUME NEW m \in Msgs, P!AsyncPublish(m) PROVE PairOrder(x, y)'
    <2>1. /\ m \in inFlight /\ (P!Send(m) \/ UNCHANGED <<line, out>>)
          /\ UNCHANGED <<broker, calls, async, held, handled, stranded, pos, committed>>
        BY <1>5 DEF P!AsyncPublish
    <2>2. m # x
        BY <2>1 DEF Placed
    <2>3. PairOrder(x, y)
        BY <1>1, <2>1
    <2> QED
        BY <1>2, <2>1, <2>2, <2>3, SendOrder
(* A repeated request belongs to the last call.                             *)
<1>8. ASSUME NEW m \in Msgs, P!Resend(m) PROVE PairOrder(x, y)'
    <2>1. /\ m \in retrying /\ P!Send(m)
          /\ UNCHANGED <<broker, calls, async, held, handled, stranded, pos, committed>>
        BY <1>8 DEF P!Resend
    <2>2. m # x
        BY <2>1 DEF Placed
    <2>3. PairOrder(x, y)
        BY <1>1, <2>1
    <2> QED
        BY <2>1, <2>2, <2>3, SendOrder
<1>9. CASE P!GiveUp
    BY <1>1, <1>2, <1>9 DEF P!GiveUp
<1>6. CASE P!SubscriberNext
    <2>1. UNCHANGED <<calls, async>> /\ stranded \subseteq stranded'
        BY <1>6 DEF P!SubscriberNext, P!RabbitSubscribe, P!RabbitResubscribe, P!RedisSubscribe,
            P!KafkaSubscribe, P!KafkaResume, P!RabbitDeliver, P!KafkaFetch, P!KafkaNote, P!KafkaSkip,
            P!KafkaCommit, P!Handle,
            P!RabbitAck, P!Unsubscribe, P!Leave, P!Drop, P!On
    <2>2. PairOrder(x, y)
        BY <1>1, <2>1
    <2>3. x # y
        BY <2>1, EarlierFacts DEF Placed
    <2> QED
        BY <1>6, <2>2, <2>3, SubscriberOrder
<1>7. CASE UNCHANGED pubsub
    BY <1>1, <1>2, <1>7 DEF pubsub
<1> QED
    BY <1>3, <1>4, <1>5, <1>6, <1>7, <1>8, <1>9 DEF P!Next

(* Messages published one after the other are first handled in that order,  *)
(* across redeliveries, repeated requests and restarts, unless an earlier   *)
(* Subscribe of RabbitMQ's holds the first or Kafka's reader skipped it.    *)
THEOREM OrderKeptHolds == Spec => []OrderKept
<1> DEFINE Inv == MessageTypes /\ Settled /\ Placed /\ Order
<1>1. Init => Inv
    BY InitMessages, InitOrder
<1>2. Inv /\ [Next]_vars => Inv'
    BY StepOf, StepSettled, StepPlaced, StepOrder
<1>3. Inv => OrderKept
    <2> SUFFICES ASSUME Inv, NEW i \in DOMAIN calls, NEW j \in DOMAIN calls, i < j,
                        {calls[i], calls[j]} \subseteq P!Elems(handled) \ async,
                        calls[i] \notin stranded
                 PROVE  P!First(calls[i]) < P!First(calls[j])
        BY DEF OrderKept, P!OrderKept
    <2> DEFINE x == calls[i]
               y == calls[j]
    <2>1. /\ x \in Msgs /\ y \in Msgs /\ x \in P!Elems(handled) /\ y \in P!Elems(handled)
          /\ x \notin async /\ y \notin async /\ x \notin stranded /\ Earlier(calls, x, y)
        BY DEF Earlier, Placed
    <2> HIDE DEF x, y
    <2>2. Led(handled, x, y)
        BY <2>1 DEF Order, PairOrder, InLog, InQueue, Passed
    <2>3. /\ P!First(x) \in DOMAIN handled /\ P!First(y) \in DOMAIN handled
          /\ handled[P!First(y)] = y /\ \A k \in DOMAIN handled : k < P!First(x) => handled[k] # x
        BY <2>1, FirstFacts
    <2>4. PICK q \in DOMAIN handled : q < P!First(y) /\ handled[q] = x
        BY <2>2, <2>3 DEF Led
    <2>5. ~(q < P!First(x))
        BY <2>3, <2>4
    <2>6. /\ q \in Nat /\ P!First(x) \in Nat /\ P!First(y) \in Nat
        BY <2>3, <2>4 DEF MessageTypes
    <2>7. P!First(x) < P!First(y)
        BY <2>4, <2>5, <2>6
    <2> QED
        BY <2>7 DEF x, y
<1> QED
    BY <1>1, <1>2, <1>3, PTL DEF Spec

-----------------------------------------------------------------------------
(* The connection between a terminal and readMessage                        *)

LP == INSTANCE FramingProofs WITH got <- read

LEMMA LinkMessages ==
    /\ Messages \subseteq LP!Message
    /\ \A m \in Messages : LP!Plain(m.msgID \div 256) /\ LP!Plain(m.msgID % 256)
<1>1. LP!Message = Message
    BY DEF LP!Message, Message, LP!Word, Word, LP!Byte, Byte
<1>2. \A b : LP!Plain(b) <=> Plain(b)
    BY DEF LP!Plain, Plain
<1> QED
    BY <1>1, <1>2, MessagesAssumption, Zenon

(* Link and LP are two instances of the same definitions: here, those of    *)
(* Codec and of Expected.                                                   *)
LEMMA CodecSame ==
    /\ Link!ProtocolFlag = LP!ProtocolFlag /\ Link!Byte = LP!Byte
    /\ \A m : Link!Inner(m) = LP!Inner(m)
    /\ \A m : Link!Encodable(m) = LP!Encodable(m)
    /\ \A m : Link!Encode(m) = LP!Encode(m)
    /\ \A m : Link!Expected(m) = LP!Expected(m)
    /\ \A s : Link!Decodable(s) = LP!Decodable(s)
    /\ \A s : Link!Decode(s) = LP!Decode(s)
    /\ \A s, t : Link!IsPrefix(s, t) = LP!IsPrefix(s, t)
<1>1. Link!ProtocolFlag = LP!ProtocolFlag
    BY DEF Link!ProtocolFlag, LP!ProtocolFlag
<1>2. \A f, data : Link!Mapped(f, data) = LP!Mapped(f, data)
    BY DEF Link!Mapped, LP!Mapped
<1>3. Link!EscapeByte = LP!EscapeByte
    BY DEF Link!EscapeByte, LP!EscapeByte, Link!Byte, LP!Byte, Link!EscapeMap, LP!EscapeMap, Link!ProtocolFlag, LP!ProtocolFlag, Link!ProtocolEscape, LP!ProtocolEscape
<1>4. \A data : Link!Escape(data) = LP!Escape(data)
    BY <1>2, <1>3 DEF Link!Escape, LP!Escape
<1>5. \A data : Link!Unescape(data) = LP!Unescape(data)
    BY DEF Link!Unescape, LP!Unescape, Link!UnescapeByte, LP!UnescapeByte, Link!UnescapeMap, LP!UnescapeMap, Link!ProtocolFlag, LP!ProtocolFlag, Link!ProtocolEscape, LP!ProtocolEscape
<1>6. \A x, place : Link!Bit(x, place) = LP!Bit(x, place)
    BY DEF Link!Bit, LP!Bit
<1>7. \A data : Link!CalculateChecksum(data) = LP!CalculateChecksum(data)
    BY DEF Link!CalculateChecksum, LP!CalculateChecksum, Link!Xor, LP!Xor, Link!Bit, LP!Bit
<1>8. \A s, length : Link!EncodeBCD(s, length) = LP!EncodeBCD(s, length)
    BY DEF Link!EncodeBCD, LP!EncodeBCD
<1>9. Link!Digits = LP!Digits
    BY DEF Link!Digits, LP!Digits, Link!Byte, LP!Byte
<1>10. \A data : Link!DecodeBCD(data) = LP!DecodeBCD(data)
    BY <1>2, <1>9 DEF Link!DecodeBCD, LP!DecodeBCD
<1>11. \A version : Link!PhoneLength(version) = LP!PhoneLength(version)
    BY DEF Link!PhoneLength, LP!PhoneLength
<1>12. \A m : Link!MsgBodyProperty(m) = LP!MsgBodyProperty(m)
    BY DEF Link!MsgBodyProperty, LP!MsgBodyProperty
<1>13. \A n : Link!Uint16(n) = LP!Uint16(n)
    BY DEF Link!Uint16, LP!Uint16
<1>14. \A m : Link!EncodeHeader(m) = LP!EncodeHeader(m)
    BY <1>8, <1>11, <1>12, <1>13 DEF Link!EncodeHeader, LP!EncodeHeader
<1>15. \A m : Link!Inner(m) = LP!Inner(m)
    BY <1>4, <1>7, <1>14 DEF Link!Inner, LP!Inner
<1>16. \A m : Link!Encodable(m) = LP!Encodable(m)
    BY DEF Link!Encodable, LP!Encodable
<1>17. \A m : Link!Encode(m) = LP!Encode(m)
    BY <1>1, <1>15 DEF Link!Encode, LP!Encode
<1>18. \A data : Link!Property(data) = LP!Property(data)
    BY DEF Link!Property, LP!Property
<1>19. \A data, place : Link!PropertyBit(data, place) = LP!PropertyBit(data, place)
    BY <1>6, <1>18 DEF Link!PropertyBit, LP!PropertyBit
<1>20. \A data : Link!Version(data) = LP!Version(data)
    BY <1>19 DEF Link!Version, LP!Version
<1>21. \A data : Link!PhoneAt(data) = LP!PhoneAt(data)
    BY <1>19 DEF Link!PhoneAt, LP!PhoneAt
<1>22. \A data : Link!FlowAt(data) = LP!FlowAt(data)
    BY <1>11, <1>20, <1>21 DEF Link!FlowAt, LP!FlowAt
<1>23. \A data : Link!HeaderLength(data) = LP!HeaderLength(data)
    BY <1>19, <1>22 DEF Link!HeaderLength, LP!HeaderLength
<1>24. \A s : Link!Front(s) = LP!Front(s)
    BY DEF Link!Front, LP!Front
<1>25. \A s : Link!Last(s) = LP!Last(s)
    BY DEF Link!Last, LP!Last
<1>26. \A s : Link!Decodable(s) = LP!Decodable(s)
    BY <1>5, <1>7, <1>18, <1>23, <1>24, <1>25 DEF Link!Decodable, LP!Decodable
<1>27. \A s : Link!Decode(s) = LP!Decode(s)
    <2> TAKE s
    <2>1. Link!Front(Link!Unescape(s).out) = LP!Front(LP!Unescape(s).out)
        BY <1>5, <1>24
    <2> DEFINE a == Link!Front(Link!Unescape(s).out)
               b == LP!Front(LP!Unescape(s).out)
    <2>2. /\ Link!Version(a) = LP!Version(b) /\ Link!Property(a) = LP!Property(b)
          /\ Link!PhoneAt(a) = LP!PhoneAt(b) /\ Link!FlowAt(a) = LP!FlowAt(b)
          /\ Link!HeaderLength(a) = LP!HeaderLength(b)
        BY <2>1, <1>20, <1>18, <1>21, <1>22, <1>23
    <2>3. Link!PropertyBit(a, 8192) = LP!PropertyBit(b, 8192)
        BY <2>1, <1>19
    <2>4. Link!DecodeBCD(SubSeq(a, Link!PhoneAt(a) + 1, Link!FlowAt(a)))
          = LP!DecodeBCD(SubSeq(b, LP!PhoneAt(b) + 1, LP!FlowAt(b)))
        BY <2>1, <2>2, <1>10
    <2>5. a = b
        BY <2>1
    <2> DEFINE id1 == 256 * a[1] + a[2]
               version1 == Link!Version(a)
               encryption1 == (Link!Property(a) \div 1024) % 8
               package1 == Link!PropertyBit(a, 8192)
               phone1 == Link!DecodeBCD(SubSeq(a, Link!PhoneAt(a) + 1, Link!FlowAt(a)))
               flow1 == 256 * a[Link!FlowAt(a) + 1] + a[Link!FlowAt(a) + 2]
               body1 == SubSeq(a, Link!HeaderLength(a) + 1, Len(a))
               id2 == 256 * b[1] + b[2]
               version2 == LP!Version(b)
               encryption2 == (LP!Property(b) \div 1024) % 8
               package2 == LP!PropertyBit(b, 8192)
               phone2 == LP!DecodeBCD(SubSeq(b, LP!PhoneAt(b) + 1, LP!FlowAt(b)))
               flow2 == 256 * b[LP!FlowAt(b) + 1] + b[LP!FlowAt(b) + 2]
               body2 == SubSeq(b, LP!HeaderLength(b) + 1, Len(b))
    <2>6. Link!Decode(s) =
            [msgID |-> id1, version |-> version1, encryption |-> encryption1, subPackage |-> package1,
             phoneNo |-> phone1, msgFlowNo |-> flow1, body |-> body1]
        BY Zenon DEF Link!Decode
    <2>7. LP!Decode(s) =
            [msgID |-> id2, version |-> version2, encryption |-> encryption2, subPackage |-> package2,
             phoneNo |-> phone2, msgFlowNo |-> flow2, body |-> body2]
        BY Zenon DEF LP!Decode
    <2> HIDE DEF a, b
    <2>8. id1 = id2 /\ version1 = version2 /\ encryption1 = encryption2 /\ package1 = package2
        BY <2>2, <2>3, <2>5
    <2>9. phone1 = phone2 /\ flow1 = flow2 /\ body1 = body2
        BY <2>2, <2>4, <2>5
    <2> HIDE DEF id1, version1, encryption1, package1, phone1, flow1, body1,
                 id2, version2, encryption2, package2, phone2, flow2, body2
    <2> QED
        BY <2>6, <2>7, <2>8, <2>9
<1>28. \A m : Link!Expected(m) = LP!Expected(m)
    BY <1>11 DEF Link!Expected, LP!Expected, Link!Padded, LP!Padded
<1>29. \A s, t : Link!IsPrefix(s, t) = LP!IsPrefix(s, t)
    BY DEF Link!IsPrefix, LP!IsPrefix
<1>30. Link!Byte = LP!Byte
    BY DEF Link!Byte, LP!Byte
<1> QED
    BY <1>1, <1>30, <1>15, <1>16, <1>17, <1>28, <1>26, <1>27, <1>29

(* The steps and the properties of Framing.                                 *)
LEMMA LinkSame ==
    /\ Link!Next => LP!Next
    /\ LP!OnlyWhatWasSent => Link!OnlyWhatWasSent
    /\ LP!OnlyOversizeRefused => Link!OnlyOversizeRefused
<1>1. \A m : Link!Write(m) => LP!Write(m)
    BY CodecSame DEF Link!Write, LP!Write
<1>2. \A i, b : Link!Damage(i, b) => LP!Damage(i, b)
    BY CodecSame DEF Link!Damage, LP!Damage
<1>3. Link!TerminalClose => LP!TerminalClose
    BY DEF Link!TerminalClose, LP!TerminalClose
<1>4. Link!Started = LP!Started /\ \A n : Link!TooLong(n) = LP!TooLong(n)
    BY CodecSame DEF Link!Started, LP!Started, Link!TooLong, LP!TooLong
<1>5. Link!EndFlag = LP!EndFlag
    BY DEF Link!EndFlag, LP!EndFlag, Link!ProtocolFlag, LP!ProtocolFlag
<1>6. Link!FrameSize = LP!FrameSize
    BY <1>5 DEF Link!FrameSize, LP!FrameSize
<1>7. Link!open = LP!open /\ \A why : Link!ReadFails(why) = LP!ReadFails(why)
    BY DEF Link!ReadFails, LP!ReadFails, Link!open, LP!open
<1>8. Link!InvalidFlag => LP!InvalidFlag
    BY <1>7, CodecSame DEF Link!InvalidFlag, LP!InvalidFlag
<1>9. Link!ExceedsMaxSize => LP!ExceedsMaxSize
    BY <1>4, <1>6, <1>7 DEF Link!ExceedsMaxSize, LP!ExceedsMaxSize
<1>10. Link!ReadEOF => LP!ReadEOF
    BY <1>4, <1>5, <1>6, <1>7 DEF Link!ReadEOF, LP!ReadEOF
<1>11. Link!ReadFrame => LP!ReadFrame
    BY <1>4, <1>5, <1>6, <1>7, CodecSame DEF Link!ReadFrame, LP!ReadFrame
<1>12. Link!Closed => LP!Closed
    BY <1>7 DEF Link!Closed, LP!Closed, Link!vars, LP!vars
<1>13. Link!ReadError => LP!ReadError
    BY <1>7 DEF Link!ReadError, LP!ReadError
<1>14. Link!Next => LP!Next
    BY <1>1, <1>2, <1>3, <1>8, <1>9, <1>10, <1>11, <1>12, <1>13 DEF Link!Next, LP!Next
<1>15. LP!OnlyWhatWasSent => Link!OnlyWhatWasSent
    <2>1. [i \in DOMAIN sent |-> Link!Expected(sent[i])] = [i \in DOMAIN sent |-> LP!Expected(sent[i])]
        BY CodecSame
    <2> QED
        BY <2>1, CodecSame DEF Link!OnlyWhatWasSent, LP!OnlyWhatWasSent
<1>16. LP!OnlyOversizeRefused => Link!OnlyOversizeRefused
    BY <1>7, CodecSame DEF Link!OnlyOversizeRefused, LP!OnlyOversizeRefused
<1> QED
    BY <1>14, <1>15, <1>16

(* The invariant of FramingProofs, for the messages read here.              *)
LEMMA LinkInvariance == Spec => [](focus = "framing" => LP!LinkInv)
<1> DEFINE Inv == focus = "framing" => LP!LinkInv
<1>1. Init => Inv
    <2>1. Init => Link!Init
        BY DEF Init
    <2>2. Link!Init => LP!Init
        BY DEF Link!Init, LP!Init
    <2> QED
        BY <2>1, <2>2, LinkMessages, LP!LinkStart
<1>2. ASSUME Inv, [Next]_vars PROVE Inv'
    <2>1. focus' = focus /\ (Link!Next \/ UNCHANGED framing)
        BY <1>2, StepOf
    <2>2. CASE focus # "framing"
        BY <2>1, <2>2
    <2>3. CASE focus = "framing"
        <3>1. LP!LinkInv
            BY <1>2, <2>3
        <3>2. [LP!Next]_(LP!vars)
            BY <2>1, LinkSame DEF framing, LP!vars
        <3>3. LP!LinkInv'
            BY <3>1, <3>2, LinkMessages, LP!LinkStep
        <3> QED
            BY <3>3
    <2> QED
        BY <2>2, <2>3
<1> QED
    BY <1>1, <1>2, PTL DEF Spec

(* handleConn passes on only what the terminal sent, in its order.          *)
THEOREM OnlyWhatWasSentHolds == Spec => []OnlyWhatWasSent
<1>1. (focus = "framing" => LP!LinkInv) => OnlyWhatWasSent
    BY LinkMessages, LP!PrefixFromInv, LinkSame DEF OnlyWhatWasSent
<1> QED
    BY <1>1, LinkInvariance, PTL

(* While no byte is changed readMessage objects only to a message whose     *)
(* frame is over MaxPacketSize, and passes none.                            *)
THEOREM OnlyOversizeRefusedHolds == Spec => []OnlyOversizeRefused
<1>1. (focus = "framing" => LP!LinkInv) => OnlyOversizeRefused
    BY LinkMessages, LP!RefusalFromInv, LinkSame DEF OnlyOversizeRefused
<1> QED
    BY <1>1, LinkInvariance, PTL
=================================================================================
