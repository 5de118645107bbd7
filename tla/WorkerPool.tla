------------------------------ MODULE WorkerPool ------------------------------
(***************************************************************************)
(* WorkerPool of transport/tcp_highperf.go: the goroutines that process    *)
(* the messages handleConn reads. Submit, spawnWorker, the worker loop,    *)
(* adjust and Stop run concurrently; they share the task channel and the   *)
(* atomic counter workers, which each of them reads before it acts.        *)
(*                                                                         *)
(* A task names its call of Submit; once it has run, its name stands for a *)
(* new task. A member of Goroutines stands for a worker goroutine and is   *)
(* used again after the goroutine has ended.                               *)
(***************************************************************************)
EXTENDS Integers, Sequences, FiniteSets

CONSTANTS
    Tasks,         \* tasks being submitted, waiting or running
    Nil,           \* the nil task, the signal to shrink
    Goroutines,
    InitialWorkers, \* the goroutines NewWorkerPool starts
    MaxWorkers,
    QueueSize

MinWorkers == Cardinality(InitialWorkers)

ASSUME TasksAssumption == IsFiniteSet(Tasks) /\ Tasks # {} /\ Nil \notin Tasks
ASSUME GoroutinesAssumption ==
    IsFiniteSet(Goroutines) /\ InitialWorkers \subseteq Goroutines
ASSUME SizesAssumption ==
    /\ MaxWorkers \in Nat /\ QueueSize \in Nat
    /\ MinWorkers \in Nat /\ MinWorkers <= MaxWorkers

VARIABLES
    done,      \* ctx is cancelled
    queue,     \* taskQueue
    spc,       \* where the Submit of each task is
    wstate,    \* where each worker goroutine is
    wtask,     \* the task it holds
    workers,   \* the atomic counter
    finished,  \* tasks that have run
    adj,       \* adjustLoop
    stop       \* the caller of Stop

poolVars == <<queue, finished>>
workerVars == <<wstate, wtask, workers>>
vars == <<done, spc, adj, stop, poolVars, workerVars>>

Free == {w \in Goroutines : wstate[w] = "none"}

(* The atomic counter active.                                               *)
Active == Cardinality({w \in Goroutines : wstate[w] = "busy"})

Waiting == [pc |-> "wait", queueLen |-> 0, current |-> 0, i |-> 0, to |-> 0]

(* NewWorkerPool.                                                           *)
Init ==
    /\ done = FALSE
    /\ queue = <<>>
    /\ spc = [t \in Tasks |-> "idle"]
    /\ wstate = [w \in Goroutines |-> IF w \in InitialWorkers THEN "idle" ELSE "none"]
    /\ wtask = [w \in Goroutines |-> Nil]
    /\ workers = MinWorkers
    /\ finished = {}
    /\ adj = Waiting
    /\ stop = "no"

-----------------------------------------------------------------------------
(* spawnWorker: the counters are raised and the goroutine started. Which of *)
(* the free names it gets makes no difference.                              *)
SpawnWorker ==
    /\ Free # {}
    /\ workers' = workers + 1
    /\ wstate' = [wstate EXCEPT ![CHOOSE w \in Free : TRUE] = "idle"]
    /\ UNCHANGED wtask

-----------------------------------------------------------------------------
(* Submit                                                                   *)

(* The first select: a cancelled pool refuses.                              *)
Submit(t) ==
    /\ spc[t] = "idle"
    /\ spc' = [spc EXCEPT ![t] = IF done THEN "refused" ELSE "try"]
    /\ UNCHANGED <<done, adj, stop, poolVars, workerVars>>

(* Either blocking select: the queue has room.                              *)
Enqueue(t) ==
    /\ spc[t] \in {"try", "block"}
    /\ Len(queue) < QueueSize
    /\ queue' = Append(queue, t)
    /\ spc' = [spc EXCEPT ![t] = "accepted"]
    /\ UNCHANGED <<done, adj, stop, finished, workerVars>>

(* Either blocking select: the pool is cancelled.                           *)
Refuse(t) ==
    /\ spc[t] \in {"try", "block"}
    /\ done
    /\ spc' = [spc EXCEPT ![t] = "refused"]
    /\ UNCHANGED <<done, adj, stop, poolVars, workerVars>>

(* Fault: a full queue is reported as success.                              *)
FaultFullIsTrue(t) ==
    /\ spc[t] = "try"
    /\ Len(queue) = QueueSize /\ ~done
    /\ spc' = [spc EXCEPT ![t] = "accepted"]
    /\ UNCHANGED <<done, adj, stop, poolVars, workerVars>>

(* Fault: a full queue always gets another worker.                          *)
FaultAlwaysSpawn(t) ==
    /\ spc[t] = "try"
    /\ Len(queue) = QueueSize /\ ~done
    /\ spc' = [spc EXCEPT ![t] = "spawn"]
    /\ UNCHANGED <<done, adj, stop, poolVars, workerVars>>

(* Default case: the queue is full, and workers is read.                    *)
QueueFull(t) ==
    /\ spc[t] = "try"
    /\ Len(queue) = QueueSize /\ ~done
    /\ spc' = [spc EXCEPT ![t] = IF workers < MaxWorkers THEN "spawn" ELSE "block"]
    /\ UNCHANGED <<done, adj, stop, poolVars, workerVars>>

SubmitSpawn(t) ==
    /\ spc[t] = "spawn"
    /\ SpawnWorker
    /\ spc' = [spc EXCEPT ![t] = "block"]
    /\ UNCHANGED <<done, adj, stop, poolVars>>

(* The next message of a connection makes a new task.                       *)
NewTask(t) ==
    /\ spc[t] = "accepted" /\ t \in finished
    /\ spc' = [spc EXCEPT ![t] = "idle"]
    /\ finished' = finished \ {t}
    /\ UNCHANGED <<done, queue, adj, stop, workerVars>>

-----------------------------------------------------------------------------
(* A worker goroutine                                                       *)

WorkerTake(w) ==
    /\ wstate[w] = "idle" /\ queue # <<>>
    /\ queue' = Tail(queue)
    /\ wtask' = [wtask EXCEPT ![w] = Head(queue)]
    /\ wstate' = [wstate EXCEPT ![w] = IF Head(queue) = Nil THEN "exit" ELSE "taken"]
    /\ UNCHANGED <<done, spc, adj, stop, finished, workers>>

WorkerStart(w) ==
    /\ wstate[w] = "taken"
    /\ wstate' = [wstate EXCEPT ![w] = "busy"]
    /\ UNCHANGED <<done, spc, adj, stop, poolVars, wtask, workers>>

WorkerFinish(w) ==
    /\ wstate[w] = "busy"
    /\ finished' = finished \cup {wtask[w]}
    /\ wtask' = [wtask EXCEPT ![w] = Nil]
    /\ wstate' = [wstate EXCEPT ![w] = "idle"]
    /\ UNCHANGED <<done, spc, adj, stop, queue, workers>>

(* Fault: the worker loop has no case for ctx.Done().                       *)
FaultNoDoneCase(w) ==
    /\ done /\ wstate[w] = "idle"
    /\ UNCHANGED vars

WorkerCancelled(w) ==
    /\ done /\ wstate[w] = "idle"
    /\ wstate' = [wstate EXCEPT ![w] = "exit"]
    /\ UNCHANGED <<done, spc, adj, stop, poolVars, wtask, workers>>

(* The deferred calls: workers goes down, wg.Done.                          *)
WorkerExit(w) ==
    /\ wstate[w] = "exit"
    /\ workers' = workers - 1
    /\ wstate' = [wstate EXCEPT ![w] = "none"]
    /\ UNCHANGED <<done, spc, adj, stop, poolVars, wtask>>

-----------------------------------------------------------------------------
(* adjustLoop, adjust                                                       *)

AdjustTick ==
    /\ adj.pc = "wait"
    /\ adj' = [adj EXCEPT !.pc = "workers", !.queueLen = Len(queue)]
    /\ UNCHANGED <<done, spc, stop, poolVars, workerVars>>

AdjustWorkers ==
    /\ adj.pc = "workers"
    /\ adj' = [adj EXCEPT !.pc = "active", !.current = workers]
    /\ UNCHANGED <<done, spc, stop, poolVars, workerVars>>

(* min(currentWorkers*2, p.maxWorkers).                                     *)
NewWorkers(n) == IF 2 * n < MaxWorkers THEN 2 * n ELSE MaxWorkers

(* active is read and the two conditions, usage > 0.8 and usage < 0.2, are  *)
(* evaluated on what was read.                                              *)
AdjustDecide ==
    LET n == adj.current
        grow == 5 * adj.queueLen > 4 * QueueSize /\ n < MaxWorkers
        shrink == /\ 5 * adj.queueLen < QueueSize
                  /\ n > MinWorkers /\ Active < n \div 2
    IN
    /\ adj.pc = "active"
    /\ adj' = IF grow THEN [adj EXCEPT !.pc = "grow", !.i = n, !.to = NewWorkers(n)]
              ELSE IF shrink THEN [adj EXCEPT !.pc = "shrink", !.i = n, !.to = MinWorkers]
              ELSE Waiting
    /\ UNCHANGED <<done, spc, stop, poolVars, workerVars>>

AdjustGrow ==
    /\ adj.pc = "grow" /\ adj.i < adj.to
    /\ SpawnWorker
    /\ adj' = [adj EXCEPT !.i = @ + 1]
    /\ UNCHANGED <<done, spc, stop, poolVars>>

(* A nil task is sent if the queue has room, or else adjust returns.        *)
AdjustShrink ==
    /\ adj.pc = "shrink" /\ adj.i > adj.to
    /\ IF Len(queue) < QueueSize
         THEN /\ queue' = Append(queue, Nil)
              /\ adj' = [adj EXCEPT !.i = @ - 1]
         ELSE UNCHANGED queue /\ adj' = Waiting
    /\ UNCHANGED <<done, spc, stop, finished, workerVars>>

AdjustReturn ==
    /\ \/ adj.pc = "grow" /\ adj.i >= adj.to
       \/ adj.pc = "shrink" /\ adj.i <= adj.to
    /\ adj' = Waiting
    /\ UNCHANGED <<done, spc, stop, poolVars, workerVars>>

AdjustCancelled ==
    /\ adj.pc = "wait" /\ done
    /\ adj' = [Waiting EXCEPT !.pc = "ended"]
    /\ UNCHANGED <<done, spc, stop, poolVars, workerVars>>

-----------------------------------------------------------------------------
(* Stop: cancel, then wait for the workers.                                 *)
StopCancel ==
    /\ stop = "no"
    /\ done' = TRUE
    /\ stop' = "wait"
    /\ UNCHANGED <<spc, adj, poolVars, workerVars>>

StopReturn ==
    /\ stop = "wait" /\ Free = Goroutines
    /\ stop' = "returned"
    /\ UNCHANGED <<done, spc, adj, poolVars, workerVars>>

(* Everything has ended.                                                    *)
Quiet ==
    /\ stop = "returned" /\ adj.pc = "ended" /\ Free = Goroutines
    /\ \A t \in Tasks : spc[t] \in {"accepted", "refused"}
    /\ UNCHANGED vars

-----------------------------------------------------------------------------
SubmitNext(t) ==
    \/ Submit(t) \/ Enqueue(t) \/ Refuse(t) \/ QueueFull(t) \/ SubmitSpawn(t)
    \/ NewTask(t)

WorkerNext(w) ==
    \/ WorkerTake(w) \/ WorkerStart(w) \/ WorkerFinish(w)
    \/ WorkerCancelled(w) \/ WorkerExit(w)

AdjustNext ==
    \/ AdjustTick \/ AdjustWorkers \/ AdjustDecide
    \/ AdjustGrow \/ AdjustShrink \/ AdjustReturn \/ AdjustCancelled

Next ==
    \/ \E t \in Tasks : SubmitNext(t)
    \/ \E w \in Goroutines : WorkerNext(w)
    \/ AdjustNext
    \/ StopCancel \/ StopReturn \/ Quiet

Spec == Init /\ [][Next]_vars

(* Every goroutine that can run does, since Go's scheduler is preemptive,   *)
(* and tasks return. The ticker fires once a second: between two ticks only *)
(* ctx.Done() is ready in adjustLoop, so that case is not passed over for   *)
(* ever.                                                                    *)
Fairness ==
    /\ \A t \in Tasks : WF_vars(Enqueue(t) \/ Refuse(t) \/ QueueFull(t) \/ SubmitSpawn(t))
    /\ \A w \in Goroutines : WF_vars(WorkerNext(w))
    /\ WF_vars(AdjustNext) /\ SF_vars(AdjustCancelled)
    /\ WF_vars(StopReturn)

FairSpec == Spec /\ Fairness

-----------------------------------------------------------------------------
(* Properties                                                               *)

Pcs == {"wait", "workers", "active", "grow", "shrink", "ended"}

(* The variables have the types of the code, the channel never holds more   *)
(* than its capacity, and what a worker calls is a task, never nil.         *)
TypeOK ==
    /\ done \in BOOLEAN
    /\ queue \in Seq(Tasks \cup {Nil}) /\ Len(queue) <= QueueSize
    /\ spc \in [Tasks -> {"idle", "try", "spawn", "block", "accepted", "refused"}]
    /\ wstate \in [Goroutines -> {"none", "idle", "taken", "busy", "exit"}]
    /\ wtask \in [Goroutines -> Tasks \cup {Nil}]
    /\ \A w \in Goroutines : wstate[w] \in {"taken", "busy"} => wtask[w] \in Tasks
    /\ workers \in Int
    /\ finished \in SUBSET Tasks
    /\ adj \in [pc : Pcs, queueLen : Nat, current : Int, i : Int, to : Int]
    /\ stop \in {"no", "wait", "returned"}

(* The tasks of a channel in order, without the nil tasks: the task with    *)
(* rank j is the j-th.                                                      *)
Positions(q) == {i \in DOMAIN q : q[i] # Nil}
Rank(q, i) == Cardinality({k \in Positions(q) : k <= i})
Line(q) ==
    [j \in 1 .. Cardinality(Positions(q)) |->
        q[CHOOSE i \in Positions(q) : Rank(q, i) = j]]

(* The refinement: nil tasks are invisible, a task runs from the moment a   *)
(* worker takes it.                                                         *)
Promise == INSTANCE TaskQueue WITH
    Capacity <- QueueSize,
    line <- Line(queue),
    running <- {wtask[w] : w \in Goroutines} \ {Nil},
    accepted <- {t \in Tasks : spc[t] = "accepted"} \ finished,
    refused <- {t \in Tasks : spc[t] = "refused"},
    stopped <- done

(* The pool is a task queue: whatever growing, shrinking and stopping do at *)
(* the same time, every accepted task is begun once, in the order of the    *)
(* queue, none is dropped, and Submit refuses only after Stop.              *)
ImplementsTaskQueue == Promise!Spec

(* The counter is the number of worker goroutines, and a growth that has    *)
(* been decided on takes at most half of MaxWorkers.                        *)
Counted ==
    /\ workers = Cardinality(Goroutines \ Free)
    /\ adj.pc = "active" => adj.current >= 0
    /\ adj.pc = "grow" => adj.i <= adj.to /\ adj.to - adj.i <= MaxWorkers \div 2

Spawning == {t \in Tasks : spc[t] = "spawn"}
ToGrow == IF adj.pc = "grow" THEN adj.to - adj.i ELSE 0

(* Submit and adjust each compare workers with MaxWorkers before they       *)
(* spawn, so the limit can be exceeded, but not by more than the Submits    *)
(* that run at the same time and the growth one adjust has decided on.      *)
OvershootBounded ==
    workers + Cardinality(Spawning) + ToGrow
        <= MaxWorkers - 1 + Cardinality(Tasks) + MaxWorkers \div 2

(* Between the read of workers and the decision only Submit adds workers.   *)
BeforeGrowth ==
    adj.pc = "active" /\ adj.current < MaxWorkers =>
        workers + Cardinality(Spawning) <= MaxWorkers - 1 + Cardinality(Tasks)

(* The pool keeps MinWorkers workers until it is stopped.                   *)
MinRespected == ~done => workers >= MinWorkers

(* Stop returns.                                                            *)
StopReturns == stop = "wait" ~> stop = "returned"
==============================================================================
