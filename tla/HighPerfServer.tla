---------------------------- MODULE HighPerfServer ----------------------------
(***************************************************************************)
(* HighPerfTCPServer of transport/tcp_highperf.go as a whole: several      *)
(* accept goroutines, a handleConn per connection, the worker pool that    *)
(* processes the messages and Stop. The worker pool appears as the task    *)
(* queue it implements (WorkerPool!ImplementsTaskQueue), the connection    *)
(* pool as one entry per device: its shards and counts are the subject of  *)
(* ConnectionPool, the write side of a connection that of                  *)
(* HighPerfConnection; here it is the Write that holds c.mu while the peer *)
(* does not read, and those who wait for c.mu.                             *)
(***************************************************************************)
EXTENDS Naturals, Sequences, FiniteSets

CONSTANTS
    Conns, Devices, None,
    Acceptors,       \* AcceptParallel goroutines
    MaxConnections,
    MaxWorkers,      \* of the worker pool
    QueueSize,       \* WorkerQueueSize
    ReadTimeout,     \* whether reads have a deadline
    WriteTimeout,    \* whether writes have one
    MaxOutstanding   \* bound: messages of a connection not yet processed

ASSUME ServerAssumption == None \notin Conns \cup Devices /\ MaxConnections \in Nat

Tasks == Conns \X (1..MaxOutstanding)

VARIABLES
    stop,         \* where Stop is
    acc,          \* where each accept goroutine is
    got,          \* the connection it holds
    pc,           \* where the handleConn of each connection is
    connected,    \* the flag that Close swaps
    netOpen,      \* the socket
    active,       \* stats.ActiveConnections
    mu,           \* connections whose c.mu is held by a Write that is stuck
    id,           \* deviceID of each connection
    pool,         \* connPool
    visited,      \* devices Stop's Range has passed
    late,         \* connections registered for a device it had passed
    naming,       \* tasks whose handler is in SetDeviceID, before its Put
    puts,         \* <<t, d>>: the Put of t holds the lock of d's shard
    accepted, line, running, stopped   \* the worker pool

acceptVars == <<acc, got>>
connVars == <<connected, netOpen>>
deviceVars == <<id, pool, late>>
stopVars == <<stop, visited>>
taskVars == <<accepted, line, running, stopped>>
nameVars == <<naming, puts>>
muVars == <<mu, nameVars>>
(* The server does not look back at what Submit refused.                    *)
WP == INSTANCE TaskQueue WITH Capacity <- QueueSize, refused <- {}
vars == <<acceptVars, pc, connVars, active, muVars, deviceVars, stopVars, taskVars>>

(* NewHighPerfTCPServer and Start.                                          *)
Init ==
    /\ stop = "no" /\ visited = {}
    /\ acc = [a \in Acceptors |-> "accept"] /\ got = [a \in Acceptors |-> None]
    /\ pc = [c \in Conns |-> "none"]
    /\ connected = [c \in Conns |-> FALSE] /\ netOpen = [c \in Conns |-> FALSE]
    /\ active = 0
    /\ mu = {} /\ naming = {} /\ puts = {}
    /\ id = [c \in Conns |-> None] /\ pool = [d \in Devices |-> None] /\ late = {}
    /\ WP!Init

(* The server's context is the parent of the worker pool's.                 *)
Done == stopped
Listening == stop \in {"no", "listener"}

(* The lock of the shard that device d is in; None is in no shard.          *)
Free(d) == \A h \in puts : h[2] # d

-----------------------------------------------------------------------------
(* accept                                                                   *)

Dial(c) ==
    /\ pc[c] = "none" /\ Listening
    /\ pc' = [pc EXCEPT ![c] = "backlog"]
    /\ netOpen' = [netOpen EXCEPT ![c] = TRUE]
    /\ UNCHANGED <<acceptVars, connected, active, muVars, deviceVars, stopVars, taskVars>>

(* The select at the top of both loops.                                     *)
AcceptTop == IF Done THEN "ended" ELSE "accept"
ReadTop == IF Done THEN "teardown" ELSE "read"

AcceptConn(a, c) ==
    /\ acc[a] = "accept" /\ Listening
    /\ pc[c] = "backlog"
    /\ acc' = [acc EXCEPT ![a] = "check"] /\ got' = [got EXCEPT ![a] = c]
    /\ pc' = [pc EXCEPT ![c] = "accepted"]
    /\ UNCHANGED <<connVars, active, muVars, deviceVars, stopVars, taskVars>>

(* Accept fails on the closed listener: the context is already cancelled.   *)
AcceptError(a) ==
    /\ acc[a] = "accept" /\ ~Listening
    /\ acc' = [acc EXCEPT ![a] = "ended"]
    /\ UNCHANGED <<got, pc, connVars, active, muVars, deviceVars, stopVars, taskVars>>

(* Fault: the connection over the limit is dropped without being closed.    *)
FaultRefuseOpen(a) ==
    LET c == got[a]  full == MaxConnections > 0 /\ active >= MaxConnections IN
    /\ acc[a] = "check"
    /\ pc' = [pc EXCEPT ![c] = IF full THEN "refused" ELSE "new"]
    /\ acc' = [acc EXCEPT ![a] = AcceptTop] /\ got' = [got EXCEPT ![a] = None]
    /\ UNCHANGED <<connVars, active, muVars, deviceVars, stopVars, taskVars>>

(* A connection over the limit is closed, any other gets a handleConn.      *)
AcceptCheck(a) ==
    LET c == got[a]  full == MaxConnections > 0 /\ active >= MaxConnections IN
    /\ acc[a] = "check"
    /\ pc' = [pc EXCEPT ![c] = IF full THEN "refused" ELSE "new"]
    /\ netOpen' = [netOpen EXCEPT ![c] = ~full]
    /\ acc' = [acc EXCEPT ![a] = AcceptTop] /\ got' = [got EXCEPT ![a] = None]
    /\ UNCHANGED <<connected, active, muVars, deviceVars, stopVars, taskVars>>

-----------------------------------------------------------------------------
(* handleConn                                                               *)

(* Close by handleConn or Stop, which both wait for it to end. A stuck      *)
(* Write returns.                                                           *)
Close(S) ==
    /\ connected' = [c \in Conns |-> connected[c] /\ c \notin S]
    /\ netOpen' = [c \in Conns |-> netOpen[c] /\ ~(c \in S /\ connected[c])]
    /\ mu' = mu \ {c \in S : connected[c]}

Count(c) ==
    /\ pc[c] = "new"
    /\ connected' = [connected EXCEPT ![c] = TRUE]
    /\ active' = active + 1
    /\ pc' = [pc EXCEPT ![c] = "hook"]
    /\ UNCHANGED <<acceptVars, netOpen, muVars, deviceVars, stopVars, taskVars>>

OnConnectOk(c) ==
    /\ pc[c] = "hook"
    /\ pc' = [pc EXCEPT ![c] = ReadTop]
    /\ UNCHANGED <<acceptVars, connVars, active, muVars, deviceVars, stopVars, taskVars>>

(* A hook refuses the connection, before the teardown is deferred.          *)
OnConnectErr(c) ==
    /\ pc[c] = "hook"
    /\ Close({c})
    /\ active' = active - 1
    /\ pc' = [pc EXCEPT ![c] = "gone"]
    /\ UNCHANGED <<acceptVars, nameVars, deviceVars, stopVars, taskVars>>

(* A message is read, perhaps from the buffer of a socket already closed.   *)
ReadMessage(c) ==
    /\ pc[c] = "read"
    /\ \E i \in 1..MaxOutstanding : <<c, i>> \notin accepted
    /\ pc' = [pc EXCEPT ![c] = "submit"]
    /\ UNCHANGED <<acceptVars, connVars, active, muVars, deviceVars, stopVars, taskVars>>

(* The socket is closed here or by the peer, the deadline expires or the    *)
(* message cannot be decoded. OnError hooks run.                            *)
ReadError(c) ==
    /\ pc[c] = "read"
    /\ pc' = [pc EXCEPT ![c] = "teardown"]
    /\ UNCHANGED <<acceptVars, connVars, active, muVars, deviceVars, stopVars, taskVars>>

NewTask(c) == <<c, CHOOSE i \in 1..MaxOutstanding : <<c, i>> \notin accepted>>

SubmitTrue(c) ==
    /\ pc[c] = "submit"
    /\ WP!Accept(NewTask(c))
    /\ pc' = [pc EXCEPT ![c] = ReadTop]
    /\ UNCHANGED <<acceptVars, connVars, active, muVars, deviceVars, stopVars>>

SubmitFalse(c) ==
    /\ pc[c] = "submit"
    /\ stopped
    /\ pc' = [pc EXCEPT ![c] = "teardown"]
    /\ UNCHANGED <<acceptVars, connVars, active, muVars, deviceVars, stopVars, taskVars>>

(* The deferred function: OnDisconnect hooks, DeviceID, which waits for     *)
(* c.mu, DeleteConn, which waits for the shard, Close, counter.             *)
Teardown(c) ==
    /\ pc[c] = "teardown" /\ c \notin mu /\ Free(id[c])
    /\ pool' = [d \in Devices |-> IF d = id[c] /\ pool[d] = c THEN None ELSE pool[d]]
    /\ Close({c})
    /\ active' = active - 1
    /\ pc' = [pc EXCEPT ![c] = "gone"]
    /\ UNCHANGED <<acceptVars, nameVars, id, late, stopVars, taskVars>>

-----------------------------------------------------------------------------
(* A worker takes a task, also one Submit has spawned after the cancel.     *)
Begin ==
    /\ WP!Begin /\ Cardinality(running) < MaxWorkers
    /\ UNCHANGED <<acceptVars, pc, connVars, active, muVars, deviceVars, stopVars>>

(* processMessage: no handler is registered for the message, or the handler *)
(* leaves the identifier alone. It may call Send and wait for c.mu: only    *)
(* while no stuck Write holds one is it certain to return.                  *)
ProcessMessage(t) ==
    /\ WP!End(t) /\ t \notin naming /\ \A h \in puts : h[1] # t
    /\ UNCHANGED <<acceptVars, pc, connVars, active, muVars, deviceVars, stopVars>>

(* The handler calls SetDeviceID, here up to Put: it waits for c.mu, sets   *)
(* the new identifier and deletes the entry of the old one.                 *)
SetDeviceID(t, d) ==
    LET c == t[1] IN
    /\ t \in running \ naming /\ \A h \in puts : h[1] # t
    /\ c \notin mu /\ (id[c] # d => Free(id[c]))
    /\ id' = [id EXCEPT ![c] = d]
    /\ pool' = [e \in Devices |-> IF pool[e] = c /\ e = id[c] /\ e # d THEN None
                                  ELSE pool[e]]
    /\ naming' = naming \cup {t}
    /\ UNCHANGED <<acceptVars, pc, connVars, active, mu, puts, late, stopVars, taskVars>>

(* Put takes the lock of the shard its DeviceID names.                      *)
PutLock(t) ==
    LET c == t[1] IN
    /\ t \in naming /\ c \notin mu /\ Free(id[c])
    /\ naming' = naming \ {t}
    /\ puts' = puts \cup {<<t, id[c]>>}
    /\ UNCHANGED <<acceptVars, pc, connVars, active, mu, deviceVars, stopVars, taskVars>>

(* It reads DeviceID again under that lock, which waits for c.mu, and       *)
(* stores. The handler returns.                                             *)
PutStore(t) ==
    LET c == t[1] IN
    /\ \E h \in puts : h[1] = t /\ puts' = puts \ {h}
    /\ c \notin mu
    /\ pool' = [pool EXCEPT ![id[c]] = c]
    /\ late' = IF id[c] \in visited THEN late \cup {c} ELSE late
    /\ WP!End(t)
    /\ UNCHANGED <<acceptVars, pc, connVars, active, mu, naming, id, stopVars>>

(* A Write of writeLoop, or of a Send whose channel is full, whose client   *)
(* does not read: it holds c.mu until the socket is closed. With a deadline *)
(* or a Close under way it returns, a delay like any other.                 *)
WriteJams(c) ==
    /\ ~WriteTimeout /\ connected[c]
    /\ c \notin mu /\ mu' = mu \cup {c}
    /\ UNCHANGED <<acceptVars, pc, connVars, active, nameVars, deviceVars, stopVars, taskVars>>

(* Somebody nobody waits for, writeLoop after a failed write or the         *)
(* application, wins the swap in Close. The socket is closed later, and     *)
(* with it a stuck Write returns, a delay like any other.                   *)
CloseElsewhere(c) ==
    /\ connected[c]
    /\ connected' = [connected EXCEPT ![c] = FALSE] /\ mu' = mu \ {c}
    /\ UNCHANGED <<acceptVars, pc, netOpen, active, nameVars, deviceVars, stopVars, taskVars>>

Closing(c) ==
    netOpen[c] /\ ~connected[c] /\ pc[c] \in {"hook", "read", "submit", "teardown", "gone"}

NetClose(c) ==
    /\ Closing(c)
    /\ netOpen' = [netOpen EXCEPT ![c] = FALSE]
    /\ UNCHANGED <<acceptVars, pc, connected, active, muVars, deviceVars, stopVars, taskVars>>

-----------------------------------------------------------------------------
(* Stop                                                                     *)

StopCancel ==
    /\ stop = "no" /\ stop' = "listener"
    /\ WP!Cancel
    /\ UNCHANGED <<acceptVars, pc, connVars, active, muVars, deviceVars, visited>>

(* listener.Close: the kernel resets what nobody has accepted.              *)
StopListener ==
    LET waiting == {c \in Conns : pc[c] = "backlog"} IN
    /\ stop = "listener" /\ stop' = "range"
    /\ pc' = [c \in Conns |-> IF c \in waiting THEN "refused" ELSE pc[c]]
    /\ netOpen' = [c \in Conns |-> netOpen[c] /\ c \notin waiting]
    /\ UNCHANGED <<acceptVars, connected, active, muVars, deviceVars, visited, taskVars>>

(* Fault: Stop forgets to close the connections.                            *)
FaultNoRange(d) ==
    /\ stop = "range" /\ d \notin visited
    /\ visited' = visited \cup {d}
    /\ UNCHANGED <<acceptVars, pc, connVars, active, muVars, deviceVars, stop, taskVars>>

(* Range waits for the shard's lock and closes what is registered.          *)
StopRange(d) ==
    /\ stop = "range" /\ d \notin visited /\ Free(d)
    /\ visited' = visited \cup {d}
    /\ Close({pool[d]} \ {None})
    /\ UNCHANGED <<acceptVars, pc, active, nameVars, deviceVars, stop, taskVars>>

StopRangeEnd ==
    /\ stop = "range" /\ visited = Devices
    /\ stop' = "pool"
    /\ UNCHANGED <<acceptVars, pc, connVars, active, muVars, deviceVars, visited, taskVars>>

(* workerPool.Stop waits for the workers.                                   *)
StopPool ==
    /\ stop = "pool" /\ running = {}
    /\ stop' = "wait"
    /\ UNCHANGED <<acceptVars, pc, connVars, active, muVars, deviceVars, visited, taskVars>>

(* s.wg.Wait: accept goroutines and handleConns.                            *)
StopReturn ==
    /\ stop = "wait"
    /\ \A a \in Acceptors : acc[a] = "ended"
    /\ \A c \in Conns : pc[c] \in {"none", "backlog", "refused", "gone"}
    /\ stop' = "returned"
    /\ UNCHANGED <<acceptVars, pc, connVars, active, muVars, deviceVars, visited, taskVars>>

Quiet == stop = "returned" /\ UNCHANGED vars

-----------------------------------------------------------------------------
AcceptNext(a) ==
    (\E c \in Conns : AcceptConn(a, c)) \/ AcceptError(a) \/ AcceptCheck(a)

HandleStep(c) ==
    \/ Count(c) \/ OnConnectOk(c) \/ OnConnectErr(c)
    \/ SubmitTrue(c) \/ SubmitFalse(c) \/ Teardown(c)

Handle(t) == ProcessMessage(t) \/ \E d \in Devices : SetDeviceID(t, d)
Put(t) == PutLock(t) \/ PutStore(t)

StopNext ==
    \/ StopListener \/ (\E d \in Devices : StopRange(d)) \/ StopRangeEnd
    \/ StopPool \/ StopReturn

Next ==
    \/ \E a \in Acceptors : AcceptNext(a)
    \/ \E c \in Conns : \/ Dial(c) \/ HandleStep(c) \/ ReadMessage(c) \/ ReadError(c)
                        \/ CloseElsewhere(c) \/ NetClose(c) \/ WriteJams(c)
    \/ \E t \in Tasks : Handle(t) \/ Put(t)
    \/ Begin \/ StopCancel \/ StopNext \/ Quiet

(* The goroutines run; handlers return unless a stuck Write holds a c.mu    *)
(* they may wait for; who waits for room in the task queue is not passed    *)
(* over for ever (Go serves them in order). A read fails at its deadline,   *)
(* and on a closed socket once the buffer is used up. Clients owe nothing,  *)
(* and no worker is certain to be there: WorkerPool can be left without any. *)
Fairness ==
    /\ \A a \in Acceptors : WF_vars(AcceptNext(a))
    /\ \A c \in Conns :
        /\ WF_vars(HandleStep(c)) /\ SF_vars(SubmitTrue(c)) /\ WF_vars(NetClose(c))
        /\ WF_vars(ReadTimeout /\ ReadError(c)) /\ SF_vars(~netOpen[c] /\ ReadError(c))
    /\ \A t \in Tasks :
        WF_vars(mu = {} /\ Handle(t)) /\ WF_vars(t[1] \notin mu /\ Put(t))
    /\ WF_vars(StopNext)

Spec == Init /\ [][Next]_vars /\ Fairness

-----------------------------------------------------------------------------
(* Properties                                                               *)

(* When Stop has returned no accept goroutine and no handleConn is left,    *)
(* the connection counter is zero, and every socket is closed or is being   *)
(* closed by the writeLoop or application that won the swap in Close.       *)
StopComplete ==
    stop = "returned" =>
        /\ active = 0
        /\ \A a \in Acceptors : acc[a] = "ended"
        /\ \A c \in Conns : pc[c] \in {"none", "refused", "gone"} /\ ~connected[c]
        /\ \A c \in Conns : netOpen[c] => Closing(c)

(* A connection that Stop's Range could not reach: it has no identifier, or *)
(* another connection of the device took the entry, or it took the entry    *)
(* after the Range had passed, and so is still connected.                   *)
Unreached(c) ==
    /\ connected[c]
    /\ \/ id[c] = None
       \/ pool[id[c]] # c
       \/ c \in late

(* Its client is silent; its client does not read what is written to it,    *)
(* and DeviceID, SetDeviceID and Send wait behind that Write, in a Put with *)
(* the lock of a shard that the Range waits for.                            *)
Silent(c) == Unreached(c) /\ pc[c] = "read"
Jammed(c) == c \in mu /\ (Unreached(c) \/ \E h \in puts : h[1][1] = c)

(* Stop returns, unless a connection out of reach of the Range has a silent *)
(* client and reads have no deadline, or a client that does not read and    *)
(* writes have none. Stop's comment promises that all connections are       *)
(* closed; only the registered ones are.                                    *)
StopReturns ==
    [](stop # "no" =>
        <>(\/ stop = "returned"
           \/ ~ReadTimeout /\ [](\E c \in Conns : Silent(c))
           \/ ~WriteTimeout /\ [](\E c \in Conns : Jammed(c))))
=============================================================================
