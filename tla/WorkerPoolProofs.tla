--------------------------- MODULE WorkerPoolProofs ---------------------------
(***************************************************************************)
(* Proofs about WorkerPool, for any number of tasks and goroutines and any *)
(* sizes of the pool and its queue.                                        *)
(***************************************************************************)
EXTENDS WorkerPool, FiniteSetTheorems, SequenceTheorems, TLAPS

LEMMA InitTypes == Init => TypeOK
<1> SUFFICES ASSUME Init
             PROVE  TypeOK
  OBVIOUS
<1>1. queue \in Seq(Tasks \cup {Nil}) /\ Len(queue) <= QueueSize
  <2>1. queue = <<>>
    BY DEF Init
  <2>2. <<>> \in Seq(Tasks \cup {Nil}) /\ Len(<<>>) = 0
    OBVIOUS
  <2> QED
    BY <2>1, <2>2, SizesAssumption
<1>2. adj \in [pc : Pcs, queueLen : Nat, current : Int, i : Int, to : Int]
  BY DEF Init, Waiting, Pcs
<1>3. /\ wstate \in [Goroutines -> {"none", "idle", "taken", "busy", "exit"}]
      /\ \A w \in Goroutines : wstate[w] \notin {"taken", "busy"}
  BY DEF Init
<1>4. workers \in Int
  BY SizesAssumption DEF Init
<1>5. /\ spc \in [Tasks -> {"idle", "try", "spawn", "block", "accepted", "refused"}]
      /\ wtask \in [Goroutines -> Tasks \cup {Nil}]
  BY DEF Init
<1> QED
  BY <1>1, <1>2, <1>3, <1>4, <1>5 DEF Init, TypeOK

LEMMA StepTypes == TypeOK /\ [Next]_vars => TypeOK'
<1> SUFFICES ASSUME TypeOK, [Next]_vars
             PROVE  TypeOK'
  OBVIOUS
<1> USE SizesAssumption DEF TypeOK, poolVars, workerVars
<1>1. ASSUME NEW t \in Tasks, SubmitNext(t)
      PROVE  TypeOK'
  <2>1. CASE Submit(t)
    BY <2>1 DEF Submit
  <2>2. CASE Enqueue(t)
    <3>1. queue' \in Seq(Tasks \cup {Nil}) /\ Len(queue') <= QueueSize
      BY <2>2 DEF Enqueue
    <3> QED
      BY <2>2, <3>1 DEF Enqueue
  <2>3. CASE Refuse(t)
    BY <2>3 DEF Refuse
  <2>4. CASE QueueFull(t)
    BY <2>4 DEF QueueFull
  <2>5. CASE SubmitSpawn(t)
    BY <2>5 DEF SubmitSpawn, SpawnWorker, Free
  <2>6. CASE NewTask(t)
    BY <2>6 DEF NewTask
  <2> QED
    BY <1>1, <2>1, <2>2, <2>3, <2>4, <2>5, <2>6 DEF SubmitNext
<1>2. ASSUME NEW w \in Goroutines, WorkerNext(w)
      PROVE  TypeOK'
  <2>1. CASE WorkerTake(w)
    <3>1. /\ Head(queue) \in Tasks \cup {Nil} /\ Tail(queue) \in Seq(Tasks \cup {Nil})
          /\ Len(Tail(queue)) <= QueueSize
      BY <2>1 DEF WorkerTake
    <3> QED
      BY <2>1, <3>1 DEF WorkerTake
  <2>2. CASE WorkerStart(w)
    BY <2>2 DEF WorkerStart
  <2>3. CASE WorkerFinish(w)
    BY <2>3 DEF WorkerFinish
  <2>4. CASE WorkerCancelled(w)
    BY <2>4 DEF WorkerCancelled
  <2>5. CASE WorkerExit(w)
    BY <2>5 DEF WorkerExit
  <2> QED
    BY <1>2, <2>1, <2>2, <2>3, <2>4, <2>5 DEF WorkerNext
<1>3. ASSUME AdjustNext
      PROVE  TypeOK'
  <2> DEFINE T == [pc : Pcs, queueLen : Nat, current : Int, i : Int, to : Int]
  <2>1. Waiting \in T /\ [Waiting EXCEPT !.pc = "ended"] \in T
    BY DEF Waiting, Pcs
  <2>2. CASE AdjustTick
    <3>1. Len(queue) \in Nat
      OBVIOUS
    <3>2. adj' \in T
      BY <2>2, <3>1 DEF AdjustTick, Pcs
    <3> QED
      BY <2>2, <3>2 DEF AdjustTick
  <2>3. CASE AdjustWorkers
    <3>1. adj' \in T
      BY <2>3 DEF AdjustWorkers, Pcs
    <3> QED
      BY <2>3, <3>1 DEF AdjustWorkers
  <2>4. CASE AdjustDecide
    <3>1. NewWorkers(adj.current) \in Int
      BY DEF NewWorkers
    <3>2. \/ adj' = [adj EXCEPT !.pc = "grow", !.i = adj.current, !.to = NewWorkers(adj.current)]
          \/ adj' = [adj EXCEPT !.pc = "shrink", !.i = adj.current, !.to = MinWorkers]
          \/ adj' = Waiting
      BY <2>4 DEF AdjustDecide
    <3>3. adj' \in T
      <4>1. /\ adj \in T /\ adj.current \in Int /\ MinWorkers \in Int
            /\ "grow" \in Pcs /\ "shrink" \in Pcs
        BY DEF Pcs
      <4> HIDE DEF MinWorkers, TypeOK
      <4>2. [adj EXCEPT !.pc = "grow", !.i = adj.current, !.to = NewWorkers(adj.current)] \in T
        BY <3>1, <4>1
      <4>3. [adj EXCEPT !.pc = "shrink", !.i = adj.current, !.to = MinWorkers] \in T
        BY <4>1
      <4> QED
        BY <2>1, <3>2, <4>2, <4>3
    <3> QED
      BY <2>4, <3>3 DEF AdjustDecide
  <2>5. CASE AdjustGrow
    <3>1. adj' \in T
      BY <2>5 DEF AdjustGrow
    <3> QED
      BY <2>5, <3>1 DEF AdjustGrow, SpawnWorker, Free
  <2>6. CASE AdjustShrink
    <3>1. CASE Len(queue) < QueueSize
      <4>1. queue' = Append(queue, Nil) /\ adj' = [adj EXCEPT !.i = @ - 1]
        BY <2>6, <3>1 DEF AdjustShrink
      <4>2. queue' \in Seq(Tasks \cup {Nil}) /\ Len(queue') = Len(queue) + 1
        BY <4>1
      <4>3. adj' \in T
        <5>1. adj \in T /\ adj.i - 1 \in Int
          OBVIOUS
        <5> HIDE DEF TypeOK
        <5> QED
          BY <4>1, <5>1
      <4> QED
        BY <2>6, <3>1, <4>2, <4>3 DEF AdjustShrink
    <3>2. CASE ~(Len(queue) < QueueSize)
      BY <2>1, <2>6, <3>2 DEF AdjustShrink
    <3> QED
      BY <3>1, <3>2
  <2>7. CASE AdjustReturn
    BY <2>1, <2>7 DEF AdjustReturn
  <2>8. CASE AdjustCancelled
    BY <2>1, <2>8 DEF AdjustCancelled
  <2> QED
    BY <1>3, <2>2, <2>3, <2>4, <2>5, <2>6, <2>7, <2>8 DEF AdjustNext
<1>4. ASSUME StopCancel \/ StopReturn
      PROVE  TypeOK'
  BY <1>4 DEF StopCancel, StopReturn
<1>5. CASE UNCHANGED vars
  BY <1>5 DEF vars
<1> QED
  BY <1>1, <1>2, <1>3, <1>4, <1>5 DEF Next, Quiet

(* Every variable keeps its type, and no worker calls a nil task.           *)
THEOREM TypeCorrectness == Spec => []TypeOK
  BY InitTypes, StepTypes, PTL DEF Spec

-----------------------------------------------------------------------------
(* Starting or ending a goroutine moves the counter with the goroutines.    *)
LEMMA SpawnCounted ==
    ASSUME TypeOK, workers = Cardinality(Goroutines \ Free), SpawnWorker
    PROVE  workers' = Cardinality(Goroutines \ Free')
<1>0. (CHOOSE w \in Free : TRUE) \in Free
  BY Zenon DEF SpawnWorker
<1>1. PICK w \in Free : wstate' = [wstate EXCEPT ![w] = "idle"]
  BY <1>0, Zenon DEF SpawnWorker
<1>2. Goroutines \ Free' = (Goroutines \ Free) \cup {w} /\ w \notin Goroutines \ Free
  BY <1>1 DEF Free, TypeOK
<1>3. IsFiniteSet(Goroutines \ Free)
  BY GoroutinesAssumption, FS_Subset
<1>4. Cardinality(Goroutines \ Free') = Cardinality(Goroutines \ Free) + 1
  BY <1>2, <1>3, FS_AddElement
<1> QED
  BY <1>4 DEF SpawnWorker

LEMMA ExitCounted ==
    ASSUME TypeOK, workers = Cardinality(Goroutines \ Free),
           NEW w \in Goroutines, WorkerExit(w)
    PROVE  workers' = Cardinality(Goroutines \ Free')
<1>1. Goroutines \ Free' = (Goroutines \ Free) \ {w} /\ w \in Goroutines \ Free
  BY DEF WorkerExit, Free, TypeOK
<1>2. IsFiniteSet(Goroutines \ Free)
  BY GoroutinesAssumption, FS_Subset
<1>3. Cardinality(Goroutines \ Free') = Cardinality(Goroutines \ Free) - 1
  BY <1>1, <1>2, FS_RemoveElement
<1> QED
  BY <1>3 DEF WorkerExit

LEMMA LiveNat == Cardinality(Goroutines \ Free) \in Nat
  BY GoroutinesAssumption, FS_Subset, FS_CardinalityType

(* A growth adds at most half of MaxWorkers.                                *)
LEMMA GrowthHalf ==
    ASSUME NEW n \in Nat, n < MaxWorkers
    PROVE  NewWorkers(n) \in Int /\ n <= NewWorkers(n)
           /\ NewWorkers(n) - n <= MaxWorkers \div 2
  BY SizesAssumption DEF NewWorkers

(* The steps of adjust that neither read workers nor spawn.                 *)
LEMMA QuietAdjust ==
    ASSUME TypeOK, AdjustTick \/ AdjustShrink \/ AdjustReturn \/ AdjustCancelled
    PROVE  adj'.pc \notin {"active", "grow"}
<1>1. CASE AdjustTick
  BY <1>1 DEF AdjustTick, TypeOK
<1>2. CASE AdjustShrink
  <2>1. adj' = [adj EXCEPT !.i = @ - 1] \/ adj' = Waiting
    BY <1>2 DEF AdjustShrink
  <2>2. adj.pc = "shrink"
    BY <1>2 DEF AdjustShrink
  <2> QED
    BY <2>1, <2>2 DEF TypeOK, Waiting
<1>3. CASE AdjustReturn
  BY <1>3 DEF AdjustReturn, Waiting
<1>4. CASE AdjustCancelled
  BY <1>4 DEF AdjustCancelled, Waiting
<1> QED
  BY <1>1, <1>2, <1>3, <1>4

LEMMA InitCounted == Init => Counted
<1> SUFFICES ASSUME Init
             PROVE  Counted
  OBVIOUS
<1>1. Goroutines \ Free = InitialWorkers
  BY GoroutinesAssumption DEF Init, Free
<1> QED
  BY <1>1 DEF Init, Counted, Waiting, MinWorkers

LEMMA StepCounted == TypeOK /\ Counted /\ [Next]_vars => Counted'
<1> SUFFICES ASSUME TypeOK, Counted, [Next]_vars
             PROVE  Counted'
  OBVIOUS
<1> USE SizesAssumption DEF poolVars, workerVars
<1>1. ASSUME NEW t \in Tasks, SubmitNext(t)
      PROVE  Counted'
  <2>1. adj' = adj
    BY <1>1 DEF SubmitNext, Submit, Enqueue, Refuse, QueueFull, SubmitSpawn, NewTask
  <2>2. workers' = Cardinality(Goroutines \ Free')
    <3>1. CASE SubmitSpawn(t)
      BY <3>1, SpawnCounted DEF SubmitSpawn, Counted
    <3>2. CASE ~SubmitSpawn(t)
      <4>1. UNCHANGED <<workers, wstate>>
        BY <1>1, <3>2 DEF SubmitNext, Submit, Enqueue, Refuse, QueueFull, NewTask
      <4> QED
        BY <4>1 DEF Counted, Free
    <3> QED
      BY <3>1, <3>2
  <2> QED
    BY <2>1, <2>2 DEF Counted
<1>2. ASSUME NEW w \in Goroutines, WorkerNext(w)
      PROVE  Counted'
  <2>1. adj' = adj
    BY <1>2 DEF WorkerNext, WorkerTake, WorkerStart, WorkerFinish, WorkerCancelled, WorkerExit
  <2>2. workers' = Cardinality(Goroutines \ Free')
    <3>1. CASE WorkerExit(w)
      BY <3>1, ExitCounted DEF Counted
    <3>2. CASE ~WorkerExit(w)
      <4>1. workers' = workers
        BY <1>2, <3>2 DEF WorkerNext, WorkerTake, WorkerStart, WorkerFinish, WorkerCancelled
      <4>2. Free' = Free
        BY <1>2, <3>2 DEF WorkerNext, WorkerTake, WorkerStart, WorkerFinish,
                          WorkerCancelled, Free, TypeOK
      <4> QED
        BY <4>1, <4>2 DEF Counted
    <3> QED
      BY <3>1, <3>2
  <2> QED
    BY <2>1, <2>2 DEF Counted
<1>3. CASE AdjustGrow
  <2>1. workers' = Cardinality(Goroutines \ Free')
    BY <1>3, SpawnCounted DEF AdjustGrow, Counted
  <2>2. adj'.pc = "grow" /\ adj'.i = adj.i + 1 /\ adj'.to = adj.to /\ adj.i < adj.to
    BY <1>3 DEF AdjustGrow, TypeOK
  <2> QED
    BY <1>3, <2>1, <2>2 DEF Counted, TypeOK, AdjustGrow
<1>4. ASSUME AdjustNext, ~AdjustGrow
      PROVE  Counted'
  <2>1. UNCHANGED <<workers, wstate>>
    BY <1>4 DEF AdjustNext, AdjustTick, AdjustWorkers, AdjustDecide, AdjustShrink,
                AdjustReturn, AdjustCancelled
  <2>2. workers' = Cardinality(Goroutines \ Free') /\ workers \in Nat
    BY <2>1, LiveNat DEF Counted, Free
  <2>3. /\ adj'.pc = "active" => adj'.current >= 0
        /\ adj'.pc = "grow" => adj'.i <= adj'.to /\ adj'.to - adj'.i <= MaxWorkers \div 2
    <3>1. CASE AdjustWorkers
      BY <2>2, <3>1 DEF AdjustWorkers, TypeOK
    <3>2. CASE AdjustDecide
      <4>1. adj.current \in Nat
        BY <3>2 DEF AdjustDecide, Counted, TypeOK
      <4>2. \/ adj'.pc \in {"shrink", "wait"}
            \/ /\ adj.current < MaxWorkers
               /\ adj'.i = adj.current /\ adj'.to = NewWorkers(adj.current)
               /\ adj'.pc = "grow"
        BY <3>2 DEF AdjustDecide, TypeOK, Waiting
      <4> QED
        BY <4>1, <4>2, GrowthHalf
    <3>3. CASE AdjustTick \/ AdjustShrink \/ AdjustReturn \/ AdjustCancelled
      BY <3>3, QuietAdjust
    <3> QED
      BY <1>4, <3>1, <3>2, <3>3 DEF AdjustNext
  <2> QED
    BY <2>2, <2>3 DEF Counted
<1>5. ASSUME StopCancel \/ StopReturn \/ UNCHANGED vars
      PROVE  Counted'
  BY <1>5 DEF StopCancel, StopReturn, vars, Counted, Free
<1> QED
  BY <1>1, <1>2, <1>3, <1>4, <1>5 DEF Next, Quiet

-----------------------------------------------------------------------------
(* The Submits that are about to spawn.                                     *)
LEMMA SpawningSize ==
    /\ IsFiniteSet(Spawning)
    /\ Cardinality(Spawning) \in Nat
    /\ Cardinality(Tasks) \in Nat \ {0}
    /\ Cardinality(Spawning) <= Cardinality(Tasks)
<1>1. Spawning \subseteq Tasks
  BY DEF Spawning
<1>2. Cardinality(Tasks) # 0
  BY TasksAssumption, FS_EmptySet
<1> QED
  BY <1>1, <1>2, TasksAssumption, FS_Subset, FS_CardinalityType

(* The inductive invariant of the bound.                                    *)
Bounded == TypeOK /\ Counted /\ BeforeGrowth /\ OvershootBounded

LEMMA InitBounded == Init => Bounded
<1> SUFFICES ASSUME Init
             PROVE  Bounded
  OBVIOUS
<1>1. Spawning = {}
  BY DEF Init, Spawning
<1>2. Cardinality(Spawning) = 0
  BY <1>1, FS_EmptySet
<1>3. BeforeGrowth
  BY DEF Init, BeforeGrowth, Waiting
<1>4. ToGrow = 0 /\ workers = MinWorkers
  BY DEF Init, ToGrow, Waiting
<1>5. OvershootBounded
  BY <1>2, <1>4, SpawningSize, SizesAssumption DEF OvershootBounded
<1> QED
  BY <1>3, <1>5, InitTypes, InitCounted DEF Bounded

(* Steps that neither spawn nor decide to keep the bound.                   *)
LEMMA BoundKept ==
    ASSUME Bounded, workers' \in Int, workers' <= workers,
           Cardinality(Spawning') = Cardinality(Spawning), adj' = adj
    PROVE  BeforeGrowth' /\ OvershootBounded'
<1>1. ToGrow' = ToGrow /\ ToGrow \in Int
  BY DEF ToGrow, Bounded, TypeOK
<1>2. workers \in Int
  BY DEF Bounded, TypeOK
<1> QED
  BY <1>1, <1>2, SpawningSize, SizesAssumption
     DEF BeforeGrowth, OvershootBounded, Bounded

LEMMA StepBounded == Bounded /\ [Next]_vars => Bounded'
<1> SUFFICES ASSUME Bounded, [Next]_vars
             PROVE  BeforeGrowth' /\ OvershootBounded'
  BY StepTypes, StepCounted DEF Bounded
<1> USE SizesAssumption, SpawningSize DEF poolVars, workerVars
<1>0. /\ workers \in Nat /\ workers' \in Int /\ ToGrow \in Int
      /\ adj.pc = "grow" => ToGrow >= 0 /\ ToGrow <= MaxWorkers \div 2
      /\ adj.pc # "grow" => ToGrow = 0
      /\ TypeOK
  <2>1. TypeOK /\ TypeOK' /\ Counted
    BY StepTypes DEF Bounded
  <2>2. workers \in Nat
    BY <2>1, LiveNat DEF Counted
  <2>3. workers' \in Int
    BY <2>1 DEF TypeOK
  <2>4. adj.i \in Int /\ adj.to \in Int
    BY <2>1 DEF TypeOK
  <2> QED
    BY <2>1, <2>2, <2>3, <2>4 DEF ToGrow, Counted
<1>1. ASSUME NEW t \in Tasks, QueueFull(t)
      PROVE  BeforeGrowth' /\ OvershootBounded'
  <2>1. workers' = workers /\ adj' = adj /\ ToGrow' = ToGrow
    BY <1>1 DEF QueueFull, ToGrow
  <2>2. Cardinality(Spawning') \in Nat /\ Cardinality(Spawning') <= Cardinality(Tasks)
    BY <1>1, TasksAssumption, FS_Subset, FS_CardinalityType DEF Spawning
  <2>3. CASE workers < MaxWorkers
    <3>1. workers + Cardinality(Spawning') <= MaxWorkers - 1 + Cardinality(Tasks)
      BY <1>0, <2>2, <2>3
    <3>2. ToGrow <= MaxWorkers \div 2
      BY <1>0
    <3> QED
      BY <1>0, <2>1, <2>2, <3>1, <3>2 DEF BeforeGrowth, OvershootBounded
  <2>4. CASE workers >= MaxWorkers
    <3>1. Spawning' = Spawning
      BY <1>0, <1>1, <2>4 DEF QueueFull, Spawning, TypeOK
    <3> QED
      BY <1>0, <2>1, <3>1, BoundKept
  <2> QED
    BY <1>0, <2>3, <2>4
<1>2. ASSUME NEW t \in Tasks, SubmitSpawn(t)
      PROVE  BeforeGrowth' /\ OvershootBounded'
  <2>1. Spawning' = Spawning \ {t} /\ t \in Spawning
    BY <1>0, <1>2 DEF SubmitSpawn, Spawning, TypeOK
  <2>2. Cardinality(Spawning') = Cardinality(Spawning) - 1
    BY <2>1, FS_RemoveElement
  <2>3. workers' = workers + 1 /\ adj' = adj /\ ToGrow' = ToGrow
    BY <1>2 DEF SubmitSpawn, SpawnWorker, ToGrow
  <2> QED
    BY <1>0, <2>2, <2>3 DEF BeforeGrowth, OvershootBounded, Bounded
<1>3. ASSUME NEW t \in Tasks, SubmitNext(t), ~QueueFull(t), ~SubmitSpawn(t)
      PROVE  BeforeGrowth' /\ OvershootBounded'
  <2>1. Spawning' = Spawning /\ workers' = workers /\ adj' = adj
    BY <1>0, <1>3 DEF SubmitNext, Submit, Enqueue, Refuse, NewTask, Spawning, TypeOK
  <2> QED
    BY <1>0, <2>1, BoundKept
<1>4. ASSUME NEW w \in Goroutines, WorkerNext(w)
      PROVE  BeforeGrowth' /\ OvershootBounded'
  <2>1. Spawning' = Spawning /\ workers' <= workers /\ adj' = adj
    BY <1>0, <1>4 DEF WorkerNext, WorkerTake, WorkerStart, WorkerFinish,
                      WorkerCancelled, WorkerExit, Spawning
  <2> QED
    BY <1>0, <2>1, BoundKept
<1>5. CASE AdjustGrow
  <2>1. Spawning' = Spawning /\ workers' = workers + 1
    BY <1>5 DEF AdjustGrow, SpawnWorker, Spawning
  <2>2. adj'.pc = "grow" /\ adj'.i = adj.i + 1 /\ adj'.to = adj.to
    BY <1>0, <1>5 DEF AdjustGrow, TypeOK
  <2>3. ToGrow' = ToGrow - 1
    BY <1>0, <1>5, <2>2 DEF ToGrow, AdjustGrow, TypeOK
  <2> QED
    BY <1>0, <2>1, <2>2, <2>3 DEF BeforeGrowth, OvershootBounded, Bounded
<1>6. CASE AdjustDecide
  <2>1. Spawning' = Spawning /\ workers' = workers
    BY <1>6 DEF AdjustDecide, Spawning
  <2>2. adj'.pc # "active"
    BY <1>0, <1>6 DEF AdjustDecide, TypeOK, Waiting
  <2>3. CASE adj'.pc = "grow"
    <3>1. /\ adj.pc = "active" /\ adj.current < MaxWorkers
          /\ adj'.i = adj.current /\ adj'.to = NewWorkers(adj.current)
      BY <1>0, <1>6, <2>3 DEF AdjustDecide, TypeOK, Waiting
    <3>2. adj.current \in Nat
      BY <1>0, <3>1 DEF Bounded, Counted, TypeOK
    <3>3. ToGrow' \in Int /\ ToGrow' <= MaxWorkers \div 2
      BY <2>3, <3>1, <3>2, GrowthHalf DEF ToGrow
    <3>4. workers + Cardinality(Spawning) <= MaxWorkers - 1 + Cardinality(Tasks)
      BY <3>1 DEF Bounded, BeforeGrowth
    <3> QED
      BY <1>0, <2>1, <2>2, <3>3, <3>4 DEF BeforeGrowth, OvershootBounded
  <2>4. CASE adj'.pc # "grow"
    <3>1. ToGrow' = 0 /\ ToGrow = 0
      BY <1>0, <1>6, <2>4 DEF ToGrow, AdjustDecide
    <3> QED
      BY <1>0, <2>1, <2>2, <3>1 DEF BeforeGrowth, OvershootBounded, Bounded
  <2> QED
    BY <2>3, <2>4
<1>7. CASE AdjustWorkers
  <2>1. Spawning' = Spawning /\ workers' = workers
    BY <1>7 DEF AdjustWorkers, Spawning
  <2>2. adj'.pc = "active" /\ adj'.current = workers /\ adj.pc # "grow"
    BY <1>0, <1>7 DEF AdjustWorkers, TypeOK
  <2>3. ToGrow' = 0 /\ ToGrow = 0
    BY <2>2 DEF ToGrow
  <2> QED
    BY <1>0, <2>1, <2>2, <2>3 DEF BeforeGrowth, OvershootBounded, Bounded
<1>8. CASE AdjustTick \/ AdjustShrink \/ AdjustReturn \/ AdjustCancelled
  <2>1. Spawning' = Spawning /\ workers' = workers
    BY <1>8 DEF AdjustTick, AdjustShrink, AdjustReturn, AdjustCancelled, Spawning
  <2>2. adj'.pc \notin {"active", "grow"}
    BY <1>0, <1>8, QuietAdjust
  <2>3. ToGrow' = 0 /\ ToGrow >= 0
    BY <1>0, <2>2 DEF ToGrow
  <2> QED
    BY <1>0, <2>1, <2>2, <2>3 DEF BeforeGrowth, OvershootBounded, Bounded
<1>9. ASSUME StopCancel \/ StopReturn \/ UNCHANGED vars
      PROVE  BeforeGrowth' /\ OvershootBounded'
  <2>1. Spawning' = Spawning /\ workers' = workers /\ adj' = adj
    BY <1>9 DEF StopCancel, StopReturn, vars, Spawning
  <2> QED
    BY <1>0, <2>1, BoundKept
<1> QED
  BY <1>1, <1>2, <1>3, <1>4, <1>5, <1>6, <1>7, <1>8, <1>9 DEF Next, AdjustNext, Quiet

(* The number of workers stays within MaxWorkers plus the Submits that run  *)
(* at the same time, less one, plus half of MaxWorkers.                     *)
THEOREM OvershootBoundedHolds == Spec => []OvershootBounded
<1>1. Bounded => OvershootBounded
  BY DEF Bounded
<1> QED
  BY <1>1, InitBounded, StepBounded, PTL DEF Spec

-----------------------------------------------------------------------------
(* The tasks of a channel: ranks number the tasks from 1 without gaps.      *)
Channel == Seq(Tasks \cup {Nil})

LEMMA RankRange ==
    ASSUME NEW q \in Channel
    PROVE  /\ IsFiniteSet(Positions(q)) /\ Cardinality(Positions(q)) \in Nat
           /\ Positions(q) \subseteq 1 .. Len(q)
           /\ \A i \in Positions(q) :
                 /\ q[i] \in Tasks
                 /\ Rank(q, i) \in 1 .. Cardinality(Positions(q))
<1>1. Positions(q) \subseteq 1 .. Len(q) /\ Len(q) \in Nat
  BY DEF Positions, Channel
<1>2. IsFiniteSet(Positions(q)) /\ Cardinality(Positions(q)) \in Nat
  <2>1. IsFiniteSet(1 .. Len(q))
    BY <1>1, FS_Interval
  <2> QED
    BY <1>1, <2>1, FS_Subset, FS_CardinalityType
<1>3. ASSUME NEW i \in Positions(q)
      PROVE  Rank(q, i) \in 1 .. Cardinality(Positions(q))
  <2> DEFINE Before == {k \in Positions(q) : k <= i}
  <2>1. /\ IsFiniteSet(Before) /\ Cardinality(Before) \in Nat
        /\ Cardinality(Before) <= Cardinality(Positions(q))
    BY <1>2, FS_Subset, FS_CardinalityType
  <2>2. i \in Before
    BY <1>1, <1>3
  <2>3. Cardinality(Before) # 0
    BY <2>1, <2>2, FS_EmptySet
  <2> QED
    BY <1>2, <2>1, <2>3 DEF Rank
<1> QED
  BY <1>1, <1>2, <1>3 DEF Positions, Channel

LEMMA RankGrows ==
    ASSUME NEW q \in Channel, NEW i \in Positions(q), NEW k \in Positions(q), i < k
    PROVE  Rank(q, i) < Rank(q, k)
<1> DEFINE BeforeI == {j \in Positions(q) : j <= i}
           BeforeK == {j \in Positions(q) : j <= k}
<1>1. /\ IsFiniteSet(BeforeI) /\ IsFiniteSet(BeforeK)
      /\ Cardinality(BeforeI) \in Nat /\ Cardinality(BeforeK) \in Nat
  BY RankRange, FS_Subset, FS_CardinalityType
<1>2. BeforeI \subseteq BeforeK /\ k \in BeforeK /\ k \notin BeforeI
  BY RankRange
<1>3. Cardinality(BeforeI) <= Cardinality(BeforeK)
      /\ (Cardinality(BeforeK) = Cardinality(BeforeI) => BeforeK = BeforeI)
  BY <1>1, <1>2, FS_Subset
<1> QED
  BY <1>1, <1>2, <1>3 DEF Rank

(* Every task has one rank and every rank one task.                         *)
LEMMA RankOnto ==
    ASSUME NEW q \in Channel
    PROVE  /\ \A i, k \in Positions(q) : Rank(q, i) = Rank(q, k) => i = k
           /\ \A j \in 1 .. Cardinality(Positions(q)) :
                 \E i \in Positions(q) : Rank(q, i) = j
<1> DEFINE P == Positions(q)
           R == 1 .. Cardinality(Positions(q))
           f == [i \in P |-> Rank(q, i)]
<1>1. ASSUME NEW i \in P, NEW k \in P, Rank(q, i) = Rank(q, k)
      PROVE  i = k
  BY <1>1, RankRange, RankGrows
<1>2. f \in [P -> R]
  BY RankRange
<1>3. f \in Injection(P, R)
  BY <1>1, <1>2 DEF Injection, IsInjective
<1>4. IsFiniteSet(R) /\ Cardinality(R) = Cardinality(P)
  BY RankRange, FS_Interval
<1>5. f \in Surjection(P, R)
  BY <1>3, <1>4, FS_Injection
<1> QED
  BY <1>1, <1>5 DEF Surjection

(* What makes a sequence the line of a channel.                             *)
LEMMA LineAt ==
    ASSUME NEW q \in Channel
    PROVE  /\ Line(q) \in Seq(Tasks) /\ Len(Line(q)) = Cardinality(Positions(q))
           /\ \A i \in Positions(q) : Line(q)[Rank(q, i)] = q[i]
<1> DEFINE n == Cardinality(Positions(q))
           at(j) == CHOOSE i \in Positions(q) : Rank(q, i) = j
<1>1. n \in Nat
  BY RankRange
<1>2. ASSUME NEW j \in 1 .. n
      PROVE  at(j) \in Positions(q) /\ Rank(q, at(j)) = j
  BY RankOnto
<1>3. Line(q) = [j \in 1 .. n |-> q[at(j)]]
  BY DEF Line
<1>4. \A j \in 1 .. n : q[at(j)] \in Tasks
  BY <1>2, RankRange
<1>5. ASSUME NEW i \in Positions(q)
      PROVE  Line(q)[Rank(q, i)] = q[i]
  <2>1. Rank(q, i) \in 1 .. n
    BY RankRange
  <2>2. at(Rank(q, i)) = i
    BY <1>2, <2>1, RankOnto
  <2> HIDE DEF n, at
  <2> QED
    BY <1>3, <2>1, <2>2
<1> HIDE DEF n, at
<1>6. Line(q) \in Seq(Tasks) /\ Len(Line(q)) = n
  BY <1>1, <1>3, <1>4
<1> QED
  BY <1>5, <1>6 DEF n

LEMMA LineShort ==
    ASSUME NEW q \in Channel
    PROVE  Len(Line(q)) <= Len(q)
<1> DEFINE I == 1 .. Len(q)
<1>1. Len(q) \in Nat
  BY DEF Channel
<1>2. IsFiniteSet(I) /\ Cardinality(I) = Len(q)
  <2>1. \A n \in Nat : IsFiniteSet(1 .. n) /\ Cardinality(1 .. n) = n
    BY FS_Interval
  <2> QED
    BY <1>1, <2>1
<1>3. Positions(q) \in SUBSET I
  BY RankRange
<1> HIDE DEF I
<1>4. Cardinality(Positions(q)) <= Cardinality(I)
  BY <1>2, <1>3, FS_Subset
<1> QED
  BY <1>2, <1>4, LineAt

LEMMA LineIs ==
    ASSUME NEW q \in Channel, NEW s \in Seq(Tasks), Len(s) = Cardinality(Positions(q)),
           \A i \in Positions(q) : s[Rank(q, i)] = q[i]
    PROVE  Line(q) = s
<1>1. \A j \in 1 .. Len(s) : Line(q)[j] = s[j]
  BY RankOnto, LineAt
<1> QED
  BY <1>1, LineAt, SeqEqual

(* Sending a task puts it at the end of the line, sending nil does not.     *)
LEMMA LineAppend ==
    ASSUME NEW q \in Channel, NEW x \in Tasks \cup {Nil}
    PROVE  /\ Append(q, x) \in Channel
           /\ x = Nil => /\ Line(Append(q, x)) = Line(q)
                         /\ Positions(Append(q, x)) = Positions(q)
           /\ x # Nil => /\ Line(Append(q, x)) = Append(Line(q), x)
                         /\ Positions(Append(q, x)) = Positions(q) \cup {Len(q) + 1}
<1> DEFINE n == Len(q) + 1
           r == Append(q, x)
<1>1. /\ r \in Channel /\ n \in Nat /\ DOMAIN r = 1 .. n /\ DOMAIN q = 1 .. Len(q)
      /\ \A i \in 1 .. Len(q) : r[i] = q[i]
      /\ r[n] = x
  BY DEF Channel
<1> HIDE DEF r
<1>2. Positions(r) = Positions(q) \cup (IF x = Nil THEN {} ELSE {n})
  BY <1>1 DEF Positions
<1>3. n \notin Positions(q) /\ \A i \in Positions(q) : i \in Nat /\ i < n
  BY <1>1, RankRange
<1>4. ASSUME NEW i \in Positions(q)
      PROVE  Rank(r, i) = Rank(q, i)
  <2>1. {k \in Positions(r) : k <= i} = {k \in Positions(q) : k <= i}
    BY <1>2, <1>3
  <2> QED
    BY <2>1 DEF Rank
<1>5. CASE x = Nil
  <2>1. Positions(r) = Positions(q)
    BY <1>2, <1>5
  <2>2. \A i \in Positions(r) : Line(q)[Rank(r, i)] = r[i]
    BY <1>1, <1>4, <2>1, LineAt, RankRange
  <2>3. Line(r) = Line(q)
    BY <1>1, <2>1, <2>2, LineAt, LineIs
  <2> QED
    BY <1>1, <1>5, <2>1, <2>3 DEF r
<1>6. CASE x # Nil
  <2>1. Positions(r) = Positions(q) \cup {n}
    BY <1>2, <1>6
  <2>2. Cardinality(Positions(r)) = Cardinality(Positions(q)) + 1
    BY <1>3, <2>1, RankRange, FS_AddElement
  <2>3. Rank(r, n) = Cardinality(Positions(r))
    <3>1. {k \in Positions(r) : k <= n} = Positions(r)
      BY <1>3, <2>1
    <3> QED
      BY <3>1 DEF Rank
  <2> DEFINE s == Append(Line(q), x)
             c == Cardinality(Positions(q))
  <2>4. /\ s \in Seq(Tasks) /\ Len(s) = c + 1 /\ s[c + 1] = x /\ c \in Nat
        /\ \A j \in 1 .. c : s[j] = Line(q)[j]
    BY <1>6, LineAt, RankRange
  <2> HIDE DEF s
  <2>5. ASSUME NEW i \in Positions(r)
        PROVE  s[Rank(r, i)] = r[i]
    <3>1. CASE i = n
      BY <1>1, <2>2, <2>3, <2>4, <3>1
    <3>2. CASE i \in Positions(q)
      BY <1>1, <1>4, <2>4, <3>2, LineAt, RankRange
    <3> QED
      BY <2>1, <3>1, <3>2
  <2>6. Line(r) = s
    BY <1>1, <2>2, <2>4, <2>5, LineIs
  <2> QED
    BY <1>1, <1>6, <2>1, <2>6 DEF r, s
<1> QED
  BY <1>5, <1>6

(* Receiving a task takes it from the head of the line; nil is not in it.   *)
LEMMA LineTail ==
    ASSUME NEW q \in Channel, q # <<>>
    PROVE  /\ Head(q) \in Tasks \cup {Nil} /\ Tail(q) \in Channel
           /\ Positions(Tail(q)) = {i - 1 : i \in Positions(q) \ {1}}
           /\ \A i \in Positions(Tail(q)) : Tail(q)[i] = q[i + 1]
           /\ Head(q) = Nil => Line(Tail(q)) = Line(q)
           /\ Head(q) # Nil => /\ Line(q) # <<>> /\ Head(Line(q)) = Head(q)
                               /\ Line(Tail(q)) = Tail(Line(q))
<1> DEFINE r == Tail(q)
           P == Positions(q) \ {1}
<1>1. /\ Head(q) = q[1] /\ Head(q) \in Tasks \cup {Nil}
      /\ r \in Channel /\ Len(q) \in Nat \ {0}
      /\ DOMAIN q = 1 .. Len(q) /\ DOMAIN r = 1 .. Len(q) - 1
      /\ \A i \in 1 .. Len(q) - 1 : r[i] = q[i + 1]
  BY DEF Channel
<1> HIDE DEF r
<1>2. Positions(q) \subseteq 1 .. Len(q) /\ (1 \in Positions(q) <=> Head(q) # Nil)
  BY <1>1 DEF Positions
<1>3. \A i \in Nat : i \in Positions(r) <=> i + 1 \in P
  BY <1>1, <1>2 DEF Positions
<1>4. Positions(r) = {i - 1 : i \in P}
  <2>1. \A i \in P : i - 1 \in Nat /\ (i - 1) + 1 = i
    BY <1>2
  <2>2. Positions(r) \subseteq Nat
    BY <1>1, RankRange
  <2> QED
    BY <1>3, <2>1, <2>2
<1>5. ASSUME NEW T \in SUBSET P
      PROVE  Cardinality({i - 1 : i \in T}) = Cardinality(T)
  <2> DEFINE f == [i \in T |-> i - 1]
             U == {i - 1 : i \in T}
  <2>1. T \subseteq Int /\ IsFiniteSet(T)
    BY <1>2, RankRange, FS_Subset
  <2>2. f \in [T -> U] /\ \A a, b \in T : f[a] = f[b] => a = b
    <3>1. f \in [T -> U] /\ \A a \in T : f[a] = a - 1 /\ a \in Int
      BY <2>1
    <3> HIDE DEF f
    <3>2. \A a, b \in Int : a - 1 = b - 1 => a = b
      OBVIOUS
    <3> QED
      BY <3>1, <3>2
  <2>3. \A u \in U : \E t \in T : f[t] = u
    OBVIOUS
  <2> HIDE DEF f, U
  <2>4. f \in Bijection(T, U)
    BY <2>2, <2>3 DEF Bijection, Injection, Surjection, IsInjective
  <2>5. Cardinality(U) = Cardinality(T)
    BY <2>1, <2>4, FS_Bijection DEF ExistsBijection
  <2> QED
    BY <2>5 DEF U
<1>6. ASSUME NEW i \in Positions(r)
      PROVE  Rank(r, i) = Cardinality({k \in P : k <= i + 1})
  <2>1. {k \in Positions(r) : k <= i} = {k - 1 : k \in {l \in P : l <= i + 1}}
    BY <1>1, <1>2, <1>4, RankRange
  <2> QED
    BY <1>5, <2>1 DEF Rank
<1>7. \A i \in Positions(r) : i + 1 \in P /\ r[i] = q[i + 1]
  BY <1>1, <1>3, RankRange DEF Positions
<1>8. CASE Head(q) = Nil
  <2>1. P = Positions(q)
    BY <1>2, <1>8
  <2>2. Cardinality(Positions(r)) = Cardinality(Positions(q))
    BY <1>4, <1>5, <2>1
  <2>3. ASSUME NEW i \in Positions(r)
        PROVE  Line(q)[Rank(r, i)] = r[i]
    <3>1. Rank(r, i) = Rank(q, i + 1)
      BY <1>6, <2>1 DEF Rank
    <3>2. i + 1 \in Positions(q) /\ r[i] = q[i + 1]
      BY <1>7
    <3> QED
      BY <3>1, <3>2, LineAt
  <2>4. Line(r) = Line(q)
    BY <1>1, <2>2, <2>3, LineAt, LineIs
  <2> QED
    BY <1>1, <1>4, <1>7, <1>8, <2>4 DEF r
<1>9. CASE Head(q) # Nil
  <2> DEFINE c == Cardinality(Positions(q))
  <2>1. Positions(q) = P \cup {1} /\ 1 \notin P
    BY <1>2, <1>9
  <2>2. Cardinality(Positions(r)) = c - 1 /\ c \in Nat /\ c # 0
    <3>1. IsFiniteSet(P) /\ Cardinality(P) = c - 1
      BY <2>1, RankRange, FS_RemoveElement
    <3>2. c # 0
      BY <2>1, RankRange, FS_EmptySet
    <3> QED
      BY <1>4, <1>5, <3>1, <3>2, RankRange
  <2>3. Rank(q, 1) = 1
    <3>1. {k \in Positions(q) : k <= 1} = {1}
      BY <1>2, <2>1
    <3> QED
      BY <3>1, FS_Singleton DEF Rank
  <2>4. ASSUME NEW i \in Positions(r)
        PROVE  Rank(q, i + 1) = Rank(r, i) + 1
    <3> DEFINE T == {k \in P : k <= i + 1}
    <3>1. {k \in Positions(q) : k <= i + 1} = T \cup {1} /\ 1 \notin T
      BY <1>1, <2>1, RankRange
    <3>2. IsFiniteSet(T) /\ Cardinality(T) \in Nat
      BY RankRange, FS_Subset, FS_CardinalityType
    <3>3. Cardinality(T \cup {1}) = Cardinality(T) + 1
      BY <3>1, <3>2, FS_AddElement
    <3>4. Rank(r, i) = Cardinality(T)
      BY <1>6
    <3> QED
      BY <3>1, <3>3, <3>4 DEF Rank
  <2> DEFINE s == Tail(Line(q))
  <2>5. /\ Line(q) # <<>> /\ Head(Line(q)) = Line(q)[1]
        /\ s \in Seq(Tasks) /\ Len(s) = c - 1
        /\ \A j \in 1 .. c - 1 : s[j] = Line(q)[j + 1]
    BY <2>2, LineAt
  <2> HIDE DEF s
  <2>6. Line(q)[1] = Head(q)
    BY <1>1, <2>1, <2>3, LineAt
  <2>7. ASSUME NEW i \in Positions(r)
        PROVE  s[Rank(r, i)] = r[i]
    <3>1. Rank(r, i) \in 1 .. c - 1
      BY <1>1, <2>2, RankRange
    <3>2. i + 1 \in Positions(q) /\ r[i] = q[i + 1]
      BY <1>7
    <3>3. Line(q)[Rank(q, i + 1)] = q[i + 1]
      BY <3>2, LineAt
    <3> QED
      BY <2>4, <2>5, <3>1, <3>2, <3>3
  <2>8. Line(r) = s
    BY <1>1, <2>2, <2>5, <2>7, LineIs
  <2> QED
    BY <1>1, <1>4, <1>7, <1>9, <2>5, <2>6, <2>8 DEF r, s
<1> QED
  BY <1>8, <1>9

-----------------------------------------------------------------------------
(* An accepted task that has not run is in the queue once or held by one    *)
(* worker, never both; and only Stop cancels.                               *)
TasksOnce ==
    /\ done <=> stop # "no"
    /\ \A t \in finished : spc[t] = "accepted"
    /\ \A i \in Positions(queue) :
          /\ spc[queue[i]] = "accepted" /\ queue[i] \notin finished
          /\ \A w \in Goroutines : wtask[w] # queue[i]
          /\ \A k \in Positions(queue) : queue[k] = queue[i] => k = i
    /\ \A w \in Goroutines : wtask[w] # Nil =>
          /\ wstate[w] \in {"taken", "busy"}
          /\ spc[wtask[w]] = "accepted" /\ wtask[w] \notin finished
          /\ \A v \in Goroutines : wtask[v] = wtask[w] => v = w

LEMMA InitOnce == Init => TasksOnce
  BY DEF Init, TasksOnce, Positions

LEMMA StepOnce == TypeOK /\ TasksOnce /\ [Next]_vars => TasksOnce'
<1> SUFFICES ASSUME TypeOK, TasksOnce, [Next]_vars
             PROVE  TasksOnce'
  OBVIOUS
<1> USE DEF poolVars, workerVars
<1>0. /\ queue \in Channel
      /\ \A i \in Positions(queue) : i \in DOMAIN queue /\ queue[i] \in Tasks
  BY RankRange DEF TypeOK, Channel, Positions
<1>1. ASSUME NEW t \in Tasks,
             Submit(t) \/ Refuse(t) \/ QueueFull(t) \/ SubmitSpawn(t) \/ NewTask(t)
      PROVE  TasksOnce'
  <2>1. UNCHANGED <<queue, wtask, done, stop>> /\ Positions(queue)' = Positions(queue)
    BY <1>1 DEF Submit, Refuse, QueueFull, SubmitSpawn, SpawnWorker, NewTask
  <2>2. /\ \A u \in Tasks : spc[u] = "accepted" /\ u \notin finished =>
                            spc'[u] = "accepted" /\ u \notin finished'
        /\ \A u \in finished' : spc'[u] = "accepted"
    BY <1>1 DEF Submit, Refuse, QueueFull, SubmitSpawn, NewTask, TasksOnce, TypeOK
  <2>3. \A w \in Goroutines : wstate[w] \in {"taken", "busy"} => wstate'[w] = wstate[w]
    <3>1. CASE SubmitSpawn(t)
      <4>1. (CHOOSE w \in Free : TRUE) \in Free
        BY <3>1, Zenon DEF SubmitSpawn, SpawnWorker
      <4>2. PICK v \in Free : wstate' = [wstate EXCEPT ![v] = "idle"]
        BY <3>1, <4>1, Zenon DEF SubmitSpawn, SpawnWorker
      <4> QED
        BY <4>2 DEF Free, TypeOK
    <3> QED
      BY <1>1, <3>1 DEF Submit, Refuse, QueueFull, NewTask
  <2> QED
    BY <1>0, <2>1, <2>2, <2>3 DEF TasksOnce, TypeOK
<1>2. ASSUME NEW t \in Tasks, Enqueue(t)
      PROVE  TasksOnce'
  <2>1. /\ spc[t] # "accepted" /\ t # Nil /\ t \notin finished
        /\ UNCHANGED <<finished, wtask, wstate, done, stop>>
        /\ queue' = Append(queue, t) /\ spc' = [spc EXCEPT ![t] = "accepted"]
    BY <1>2, TasksAssumption DEF Enqueue, TasksOnce
  <2>2. Positions(queue)' = Positions(queue) \cup {Len(queue) + 1}
    BY <1>0, <2>1, LineAppend
  <2>3. /\ Len(queue) \in Nat /\ queue'[Len(queue) + 1] = t
        /\ \A i \in Positions(queue) : i # Len(queue) + 1 /\ queue'[i] = queue[i]
    BY <1>0, <2>1, RankRange DEF Channel
  <2>4. /\ \A i \in Positions(queue) : queue[i] # t
        /\ \A w \in Goroutines : wtask[w] # t
    BY <2>1 DEF TasksOnce
  <2>5. \A u \in Tasks : spc[u] = "accepted" => spc'[u] = "accepted"
    BY <2>1 DEF TypeOK
  <2>6. spc'[t] = "accepted"
    BY <2>1 DEF TypeOK
  <2> QED
    BY <1>0, <2>1, <2>2, <2>3, <2>4, <2>5, <2>6 DEF TasksOnce, TypeOK
<1>3. ASSUME NEW w \in Goroutines, WorkerTake(w)
      PROVE  TasksOnce'
  <2>1. /\ UNCHANGED <<spc, finished, done, stop>>
        /\ queue # <<>> /\ queue' = Tail(queue) /\ wtask[w] = Nil
        /\ wtask' = [wtask EXCEPT ![w] = Head(queue)]
        /\ wstate' = [wstate EXCEPT ![w] = IF Head(queue) = Nil THEN "exit" ELSE "taken"]
    BY <1>3 DEF WorkerTake, TasksOnce
  <2>2. /\ \A i \in Positions(queue)' : i + 1 \in Positions(queue) /\ i + 1 # 1
                                        /\ queue'[i] = queue[i + 1]
        /\ \A i, k \in Positions(queue)' : i + 1 = k + 1 => i = k
    <3>1. /\ Tail(queue) \in Channel
          /\ Positions(Tail(queue)) = {i - 1 : i \in Positions(queue) \ {1}}
          /\ \A i \in Positions(Tail(queue)) : Tail(queue)[i] = queue[i + 1]
      BY <1>0, <2>1, LineTail
    <3>2. /\ Positions(queue) \subseteq Nat
          /\ Positions(Tail(queue)) \subseteq Nat \ {0}
      BY <1>0, <3>1, RankRange
    <3>3. Positions(queue)' = Positions(Tail(queue))
      BY <2>1
    <3>4. ASSUME NEW i \in Positions(Tail(queue))
          PROVE  i \in Nat \ {0} /\ i + 1 \in Positions(queue)
      BY <3>1, <3>2
    <3>5. \A i \in Positions(queue)' : i \in Nat \ {0} /\ i + 1 \in Positions(queue)
      BY <3>3, <3>4
    <3>6. \A i \in Positions(queue)' : queue'[i] = queue[i + 1]
      BY <2>1, <3>1, <3>3
    <3> QED
      BY <3>5, <3>6
  <2>3. Head(queue) # Nil => 1 \in Positions(queue) /\ queue[1] = Head(queue)
    BY <1>0, <2>1 DEF Positions, Channel
  <2>4. \A i \in Positions(queue)' : queue'[i] # Head(queue)
    BY <1>0, <2>2, <2>3 DEF TasksOnce, Positions
  <2>5. \A v \in Goroutines : wtask'[v] = IF v = w THEN Head(queue) ELSE wtask[v]
    BY <2>1 DEF TypeOK
  <2>6. \A v \in Goroutines : v # w => wstate'[v] = wstate[v]
    BY <2>1 DEF TypeOK
  <2>7. Head(queue) # Nil => wstate'[w] = "taken"
    BY <2>1 DEF TypeOK
  <2>8. Head(queue) # Nil => \A v \in Goroutines : wtask[v] # Head(queue)
    BY <2>3 DEF TasksOnce
  <2>9. ASSUME NEW i \in Positions(queue)'
        PROVE  /\ spc'[queue'[i]] = "accepted" /\ queue'[i] \notin finished'
               /\ \A v \in Goroutines : wtask'[v] # queue'[i]
               /\ \A k \in Positions(queue)' : queue'[k] = queue'[i] => k = i
    <3>1. i + 1 \in Positions(queue) /\ queue'[i] = queue[i + 1]
      BY <2>2
    <3>2. \A v \in Goroutines : wtask'[v] # queue'[i]
      BY <2>4, <2>5, <3>1 DEF TasksOnce
    <3>3. \A k \in Positions(queue)' : queue'[k] = queue'[i] => k + 1 = i + 1
      BY <2>2, <3>1 DEF TasksOnce
    <3> QED
      BY <2>1, <2>2, <3>1, <3>2, <3>3 DEF TasksOnce
  <2>10. ASSUME NEW v \in Goroutines, wtask'[v] # Nil
         PROVE  /\ wstate'[v] \in {"taken", "busy"}
                /\ spc'[wtask'[v]] = "accepted" /\ wtask'[v] \notin finished'
                /\ \A u \in Goroutines : wtask'[u] = wtask'[v] => u = v
    BY <2>1, <2>3, <2>5, <2>6, <2>7, <2>8, <2>10 DEF TasksOnce
  <2> QED
    BY <2>1, <2>9, <2>10 DEF TasksOnce
<1>4. ASSUME NEW w \in Goroutines, WorkerFinish(w)
      PROVE  TasksOnce'
  <2>1. /\ UNCHANGED <<spc, queue, done, stop>> /\ Positions(queue)' = Positions(queue)
        /\ wtask[w] # Nil /\ finished' = finished \cup {wtask[w]}
        /\ wtask' = [wtask EXCEPT ![w] = Nil]
        /\ wstate' = [wstate EXCEPT ![w] = "idle"]
    BY <1>4, TasksAssumption DEF WorkerFinish, TypeOK
  <2>2. \A v \in Goroutines : /\ wtask'[v] = IF v = w THEN Nil ELSE wtask[v]
                              /\ v # w => wstate'[v] = wstate[v]
    BY <2>1 DEF TypeOK
  <2>3. ASSUME NEW i \in Positions(queue)'
        PROVE  /\ spc'[queue'[i]] = "accepted" /\ queue'[i] \notin finished'
               /\ \A v \in Goroutines : wtask'[v] # queue'[i]
               /\ \A k \in Positions(queue)' : queue'[k] = queue'[i] => k = i
    BY <1>0, <2>1, <2>2, TasksAssumption DEF TasksOnce
  <2>4. ASSUME NEW v \in Goroutines, wtask'[v] # Nil
        PROVE  /\ wstate'[v] \in {"taken", "busy"}
               /\ spc'[wtask'[v]] = "accepted" /\ wtask'[v] \notin finished'
               /\ \A u \in Goroutines : wtask'[u] = wtask'[v] => u = v
    BY <2>1, <2>2, <2>4 DEF TasksOnce
  <2>5. (done' <=> stop' # "no") /\ \A t \in finished' : spc'[t] = "accepted"
    BY <2>1 DEF TasksOnce
  <2> QED
    BY <2>3, <2>4, <2>5 DEF TasksOnce
<1>5. ASSUME NEW w \in Goroutines, WorkerStart(w) \/ WorkerCancelled(w) \/ WorkerExit(w)
      PROVE  TasksOnce'
  <2>1. UNCHANGED <<spc, queue, finished, wtask, done, stop>>
        /\ Positions(queue)' = Positions(queue)
    BY <1>5 DEF WorkerStart, WorkerCancelled, WorkerExit
  <2>2. \A v \in Goroutines : wtask[v] # Nil => wstate'[v] \in {"taken", "busy"}
    BY <1>5 DEF WorkerStart, WorkerCancelled, WorkerExit, TasksOnce, TypeOK
  <2> QED
    BY <2>1, <2>2 DEF TasksOnce
<1>6. CASE AdjustShrink /\ Len(queue) < QueueSize
  <2>1. UNCHANGED <<spc, finished, wtask, wstate, done, stop>> /\ queue' = Append(queue, Nil)
    BY <1>6 DEF AdjustShrink
  <2>2. Positions(queue)' = Positions(queue)
        /\ \A i \in Positions(queue) : queue'[i] = queue[i]
    <3>1. Positions(Append(queue, Nil)) = Positions(queue)
      BY <1>0, LineAppend
    <3>2. \A i \in 1 .. Len(queue) : Append(queue, Nil)[i] = queue[i]
      BY <1>0 DEF Channel
    <3>3. Positions(queue) \subseteq 1 .. Len(queue)
      BY <1>0, RankRange
    <3> QED
      BY <2>1, <3>1, <3>2, <3>3
  <2>3. \A i \in Positions(queue)' : i \in Positions(queue) /\ queue'[i] = queue[i]
    BY <2>2
  <2>4. UNCHANGED <<spc, finished, wtask, wstate, done, stop>>
    BY <2>1
  <2> QED
    BY <2>3, <2>4 DEF TasksOnce
<1>7. CASE AdjustGrow
  <2>1. UNCHANGED <<spc, queue, finished, wtask, done, stop>>
        /\ Positions(queue)' = Positions(queue)
    BY <1>7 DEF AdjustGrow, SpawnWorker
  <2>2. \A v \in Goroutines : wstate[v] \in {"taken", "busy"} => wstate'[v] = wstate[v]
    <3>1. (CHOOSE w \in Free : TRUE) \in Free
      BY <1>7, Zenon DEF AdjustGrow, SpawnWorker
    <3>2. PICK v \in Free : wstate' = [wstate EXCEPT ![v] = "idle"]
      BY <1>7, <3>1, Zenon DEF AdjustGrow, SpawnWorker
    <3> QED
      BY <3>2 DEF Free, TypeOK
  <2> QED
    BY <2>1, <2>2 DEF TasksOnce
<1>8. CASE AdjustTick \/ AdjustWorkers \/ AdjustDecide \/ AdjustReturn \/ AdjustCancelled
           \/ (AdjustShrink /\ UNCHANGED queue)
  <2>1. UNCHANGED <<spc, queue, finished, wtask, wstate, done, stop>>
    BY <1>8 DEF AdjustTick, AdjustWorkers, AdjustDecide, AdjustReturn, AdjustCancelled,
                AdjustShrink
  <2> QED
    BY <2>1 DEF TasksOnce, Positions
<1>9. CASE StopCancel \/ StopReturn \/ UNCHANGED vars
  <2>1. UNCHANGED <<spc, queue, finished, wtask, wstate>> /\ (done' <=> stop' # "no")
    BY <1>9 DEF StopCancel, StopReturn, vars, TasksOnce
  <2> QED
    BY <2>1 DEF TasksOnce, Positions
<1> QED
  BY <1>1, <1>2, <1>3, <1>4, <1>5, <1>6, <1>7, <1>8, <1>9
     DEF Next, SubmitNext, WorkerNext, AdjustNext, AdjustShrink, Quiet

(* Steps that leave these alone leave the task queue alone.                 *)
Shown == <<done, spc, finished, wtask, Line(queue)>>

LEMMA Hidden == UNCHANGED Shown => UNCHANGED Promise!taskVars
  BY DEF Shown, Promise!taskVars

(* Every step of the pool is a step of the task queue, or leaves it alone.  *)
LEMMA StepPromise ==
    TypeOK /\ TypeOK' /\ TasksOnce /\ [Next]_vars => [Promise!Next]_(Promise!taskVars)
<1> SUFFICES ASSUME TypeOK, TypeOK', TasksOnce, [Next]_vars
             PROVE  Promise!Next \/ UNCHANGED Promise!taskVars
  OBVIOUS
<1> USE DEF poolVars, workerVars
<1>0. /\ queue \in Channel /\ Line(queue) \in Seq(Tasks)
      /\ Len(Line(queue)) <= Len(queue) /\ Len(queue) <= QueueSize
  <2>1. queue \in Channel /\ Len(queue) <= QueueSize
    BY DEF TypeOK, Channel
  <2> QED
    BY <2>1, LineAt, LineShort
<1>1. ASSUME NEW t \in Tasks, Submit(t) \/ Refuse(t)
      PROVE  Promise!Next \/ UNCHANGED Promise!taskVars
  <2>1. /\ UNCHANGED <<done, queue, finished, wtask>> /\ spc[t] \in {"idle", "try", "block"}
        /\ t \notin finished
    BY <1>1 DEF Submit, Refuse, TasksOnce
  <2>2. CASE done /\ spc' = [spc EXCEPT ![t] = "refused"]
    <3>1. Promise!Refuse(t)
      BY <2>1, <2>2 DEF Promise!Refuse, TypeOK
    <3> QED
      BY <3>1 DEF Promise!Next
  <2>3. CASE spc' = [spc EXCEPT ![t] = "try"]
    BY <2>1, <2>3 DEF Promise!taskVars, TypeOK
  <2> QED
    BY <1>1, <2>2, <2>3 DEF Submit, Refuse
<1>2. ASSUME NEW t \in Tasks, Enqueue(t)
      PROVE  Promise!Next
  <2>1. /\ UNCHANGED <<done, finished, wtask>> /\ spc[t] \in {"try", "block"}
        /\ t \notin finished /\ t # Nil /\ Len(queue) < QueueSize
        /\ queue' = Append(queue, t) /\ spc' = [spc EXCEPT ![t] = "accepted"]
    BY <1>2, TasksAssumption DEF Enqueue, TasksOnce
  <2>2. Line(queue)' = Append(Line(queue), t)
    BY <1>0, <2>1, LineAppend
  <2>3. Promise!Accept(t)
    BY <1>0, <2>1, <2>2, SizesAssumption DEF Promise!Accept, TypeOK
  <2> QED
    BY <2>3 DEF Promise!Next
<1>3. ASSUME NEW t \in Tasks, QueueFull(t) \/ SubmitSpawn(t) \/ NewTask(t)
      PROVE  UNCHANGED Promise!taskVars
  <2>1. UNCHANGED <<done, queue, wtask>>
    BY <1>3 DEF QueueFull, SubmitSpawn, SpawnWorker, NewTask
  <2>2. CASE NewTask(t)
    BY <2>1, <2>2 DEF NewTask, Promise!taskVars, TypeOK
  <2>3. CASE QueueFull(t) \/ SubmitSpawn(t)
    BY <2>1, <2>3 DEF QueueFull, SubmitSpawn, Promise!taskVars, TypeOK
  <2> QED
    BY <1>3, <2>2, <2>3
<1>4. ASSUME NEW w \in Goroutines, WorkerTake(w)
      PROVE  Promise!Next \/ UNCHANGED Promise!taskVars
  <2>1. /\ UNCHANGED <<done, spc, finished>> /\ queue # <<>> /\ queue' = Tail(queue)
        /\ wtask[w] = Nil /\ wtask' = [wtask EXCEPT ![w] = Head(queue)]
    BY <1>4 DEF WorkerTake, TasksOnce
  <2>2. CASE Head(queue) = Nil
    <3>1. wtask' = wtask
      BY <2>1, <2>2 DEF TypeOK
    <3>2. Line(queue)' = Line(queue)
      BY <1>0, <2>1, <2>2, LineTail
    <3> QED
      BY <2>1, <3>1, <3>2, Hidden DEF Shown
  <2>3. CASE Head(queue) # Nil
    <3>1. Line(queue) # <<>> /\ Head(Line(queue)) = Head(queue)
          /\ Line(queue)' = Tail(Line(queue))
      BY <1>0, <2>1, <2>3, LineTail
    <3>2. {wtask'[v] : v \in Goroutines} \ {Nil}
            = ({wtask[v] : v \in Goroutines} \ {Nil}) \cup {Head(queue)}
      BY <2>1, <2>3 DEF TypeOK
    <3> QED
      BY <2>1, <3>1, <3>2 DEF Promise!Begin, Promise!Next
  <2> QED
    BY <2>2, <2>3
<1>5. ASSUME NEW w \in Goroutines, WorkerFinish(w)
      PROVE  Promise!Next
  <2>1. /\ UNCHANGED <<done, spc, queue>> /\ wtask[w] \in Tasks /\ wtask[w] # Nil
        /\ finished' = finished \cup {wtask[w]} /\ wtask' = [wtask EXCEPT ![w] = Nil]
    BY <1>5, TasksAssumption DEF WorkerFinish, TypeOK
  <2>2. PICK t \in Tasks : t = wtask[w]
    BY <2>1
  <2>3. \A v \in Goroutines : wtask[v] = t => v = w
    BY <2>1, <2>2 DEF TasksOnce
  <2>4. {wtask'[v] : v \in Goroutines} \ {Nil}
          = ({wtask[v] : v \in Goroutines} \ {Nil}) \ {t}
    BY <2>1, <2>2, <2>3 DEF TypeOK
  <2>5. Promise!End(t)
    BY <2>1, <2>2, <2>4 DEF Promise!End
  <2> QED
    BY <2>5 DEF Promise!Next
<1>6. ASSUME NEW w \in Goroutines, WorkerStart(w) \/ WorkerCancelled(w) \/ WorkerExit(w)
      PROVE  UNCHANGED Promise!taskVars
  BY <1>6, Hidden DEF WorkerStart, WorkerCancelled, WorkerExit, Shown
<1>7. CASE AdjustNext
  <2>1. CASE AdjustShrink /\ Len(queue) < QueueSize
    <3>1. UNCHANGED <<done, spc, finished, wtask>> /\ queue' = Append(queue, Nil)
      BY <2>1 DEF AdjustShrink
    <3>2. Line(queue)' = Line(queue)
      BY <1>0, <3>1, LineAppend
    <3> QED
      BY <3>1, <3>2, Hidden DEF Shown
  <2>2. CASE UNCHANGED <<done, spc, poolVars, wtask>>
    BY <2>2, Hidden DEF Shown
  <2> QED
    BY <1>7, <2>1, <2>2 DEF AdjustNext, AdjustTick, AdjustWorkers, AdjustDecide,
         AdjustGrow, SpawnWorker, AdjustReturn, AdjustCancelled, AdjustShrink
<1>8. CASE StopCancel
  BY <1>8 DEF StopCancel, Promise!Next, Promise!Cancel, TasksOnce
<1>9. CASE StopReturn \/ UNCHANGED vars
  BY <1>9, Hidden DEF StopReturn, vars, Shown
<1> QED
  BY <1>1, <1>2, <1>3, <1>4, <1>5, <1>6, <1>7, <1>8, <1>9
     DEF Next, SubmitNext, WorkerNext, Quiet

(* The pool implements TaskQueue for any number of tasks and workers and    *)
(* any sizes: each accepted task is begun once, in the order of the queue,  *)
(* none is dropped, and only a stopped pool refuses.                        *)
THEOREM ImplementsTaskQueueHolds == Spec => ImplementsTaskQueue
<1>1. Init => Promise!Init
  <2> SUFFICES ASSUME Init
               PROVE  Promise!Init
    OBVIOUS
  <2>1. Line(queue) = <<>>
    <3>1. queue \in Channel /\ Positions(queue) = {} /\ Cardinality({}) = 0
      BY FS_EmptySet DEF Init, Channel, Positions
    <3>2. Line(queue) \in Seq(Tasks) /\ Len(Line(queue)) = 0
      BY <3>1, LineAt
    <3> QED
      BY <3>2
  <2> QED
    BY <2>1 DEF Init, Promise!Init
<1> QED
  BY <1>1, TypeCorrectness, InitOnce, StepOnce, StepPromise, PTL
     DEF Spec, ImplementsTaskQueue, Promise!Spec
=============================================================================
