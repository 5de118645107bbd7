----------------------------- MODULE CoreWorkerPool -----------------------------
(***************************************************************************)
(* The worker pool of core/worker.go. Unlike the pool of the               *)
(* high-performance server it closes its queue when it stops and grows     *)
(* from within Submit: p.workers is read and appended to without a lock by *)
(* every goroutine that submits. A goroutine submits one task; handlers do *)
(* not panic.                                                              *)
(***************************************************************************)
EXTENDS Naturals, Sequences, FiniteSets

CONSTANTS
    Tasks,
    MinWorkers, MaxWorkers, QueueSize,
    MaxStarted   \* bound: worker goroutines in a behaviour

VARIABLES
    queue, cancelled, closed,   \* taskQueue and ctx
    spc,         \* where the Submit of a task is
    grow,        \* its loop in adjustWorkers: workers left to add, length read by append
    listed,      \* len(p.workers)
    made,        \* workers started by Submits: by which, and how many it had left to add
    idle, busy,  \* workers in their select, tasks whose handler runs
    stop,        \* where Stop is
    grown,       \* Submits that grew the pool
    crowded,     \* two of them overlapped
    late         \* those that overlapped Stop

poolVars == <<queue, cancelled, closed>>
submitVars == <<spc, grow>>
workerVars == <<listed, made, idle, busy>>
growthVars == <<grown, crowded, late>>

Growing(t) == spc[t] \in {"add", "append"}
Started == MinWorkers + Cardinality(made)
Go(t, to) == spc' = [spc EXCEPT ![t] = to]

Init ==
    /\ queue = <<>> /\ cancelled = FALSE /\ closed = FALSE
    /\ spc = [t \in Tasks |-> "idle"]
    /\ grow = [t \in Tasks |-> [left |-> 0, len |-> 0]]
    /\ listed = MinWorkers /\ made = {} /\ idle = MinWorkers /\ busy = {}
    /\ stop = "none" /\ grown = {} /\ crowded = FALSE /\ late = {}

-----------------------------------------------------------------------------
(* Submit and SubmitAsync: a select between a context that is done and the  *)
(* send, which panics once the queue is closed.                             *)
Sent(t) ==
    /\ spc[t] = "idle" /\ ~closed /\ Len(queue) < QueueSize
    /\ queue' = Append(queue, t) /\ Go(t, "adjust")
    /\ UNCHANGED <<cancelled, closed, grow, workerVars, stop, growthVars>>

Refused(t) ==
    /\ spc[t] = "idle" /\ cancelled /\ Go(t, "refused")
    /\ UNCHANGED <<poolVars, grow, workerVars, stop, growthVars>>

SendPanics(t) ==
    /\ spc[t] = "idle" /\ closed /\ Go(t, "panic")
    /\ UNCHANGED <<poolVars, grow, workerVars, stop, growthVars>>

Submit(t) == Sent(t) \/ Refused(t) \/ SendPanics(t)
SubmitAsync(t) == Submit(t)

(* Fault: twice the workers, whatever the maximum.                          *)
FaultNoMaximum(n) == 2 * n

NewWorkers(n) == IF 2 * n < MaxWorkers THEN 2 * n ELSE MaxWorkers

(* adjustWorkers: more than 80% of the queue are in use.                    *)
AdjustWorkers(t) ==
    LET more == 10 * Len(queue) > 8 * QueueSize /\ listed < MaxWorkers IN
    /\ spc[t] = "adjust"
    /\ IF more
       THEN /\ Go(t, "add")
            /\ grow' = [grow EXCEPT ![t].left = NewWorkers(listed) - listed]
            /\ grown' = grown \cup {t}
            /\ crowded' = (crowded \/ \E u \in Tasks : Growing(u))
            /\ late' = late \cup (IF cancelled THEN {t} ELSE {})
       ELSE Go(t, "ok") /\ UNCHANGED <<grow, growthVars>>
    /\ UNCHANGED <<poolVars, workerVars, stop>>

(* The append of addWorker reads the slice ...                              *)
AddRead(t) ==
    /\ spc[t] = "add"
    /\ IF grow[t].left > 0
       THEN Go(t, "append") /\ grow' = [grow EXCEPT ![t].len = listed]
       ELSE Go(t, "ok") /\ UNCHANGED grow
    /\ UNCHANGED <<poolVars, workerVars, stop, growthVars>>

(* ... and writes it; wg.Add and the goroutine follow.                      *)
AddWrite(t) ==
    /\ spc[t] = "append" /\ Started < MaxStarted
    /\ listed' = grow[t].len + 1
    /\ made' = made \cup {<<t, grow[t].left>>} /\ idle' = idle + 1
    /\ grow' = [grow EXCEPT ![t].left = @ - 1] /\ Go(t, "add")
    /\ UNCHANGED <<poolVars, busy, stop, growthVars>>

-----------------------------------------------------------------------------
(* Worker.start                                                             *)
WorkerTake ==
    /\ idle > 0 /\ queue # <<>>
    /\ idle' = idle - 1 /\ busy' = busy \cup {Head(queue)} /\ queue' = Tail(queue)
    /\ UNCHANGED <<cancelled, closed, submitVars, listed, made, stop, growthVars>>

WorkerDone(t) ==
    /\ t \in busy /\ busy' = busy \ {t} /\ idle' = idle + 1
    /\ UNCHANGED <<poolVars, submitVars, listed, made, stop, growthVars>>

WorkerReturn ==
    /\ idle > 0 /\ (cancelled \/ (closed /\ queue = <<>>))
    /\ idle' = idle - 1
    /\ UNCHANGED <<poolVars, submitVars, listed, made, busy, stop, growthVars>>

-----------------------------------------------------------------------------
StopCancel ==
    /\ stop = "none" /\ stop' = "close" /\ cancelled' = TRUE
    /\ late' = {t \in Tasks : Growing(t)}
    /\ UNCHANGED <<queue, closed, submitVars, workerVars, grown, crowded>>

StopClose ==
    /\ stop = "close" /\ stop' = "wait" /\ closed' = TRUE
    /\ UNCHANGED <<queue, cancelled, submitVars, workerVars, growthVars>>

(* wg counts the workers that have not returned.                            *)
StopWait ==
    /\ stop = "wait" /\ stop' = "returned" /\ idle = 0 /\ busy = {}
    /\ UNCHANGED <<poolVars, submitVars, workerVars, growthVars>>

Next ==
    \/ \E t \in Tasks :
        \/ Submit(t) \/ SubmitAsync(t)
        \/ AdjustWorkers(t) \/ AddRead(t) \/ AddWrite(t)
        \/ WorkerDone(t)
    \/ WorkerTake \/ WorkerReturn
    \/ StopCancel \/ StopClose \/ StopWait

-----------------------------------------------------------------------------
(* Every Submit that grows the pool adds half of maxWorkers at most, however *)
(* many overlap; as long as no two do, the pool never grows past maxWorkers *)
(* and the slice lists every worker that was started (otherwise appends may *)
(* be lost). The workers left when Stop has returned were started by        *)
(* Submits that overlapped it.                                              *)
WorkersAccounted ==
    /\ listed <= Started
    /\ Started <= MinWorkers + Cardinality(grown) * (MaxWorkers \div 2)
    /\ ~crowded =>
        /\ Started <= MaxWorkers \/ Started = MinWorkers
        /\ (\A t \in Tasks : ~Growing(t)) => listed = Started
    /\ stop = "returned" =>
        idle + Cardinality(busy) <= Cardinality({m \in made : m[1] \in late})
================================================================================
