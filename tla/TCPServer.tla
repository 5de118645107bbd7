------------------------------ MODULE TCPServer ------------------------------
(***************************************************************************)
(* The lifecycle of transport/tcp.go: the goroutine of TCPServer.accept,   *)
(* one goroutine of TCPServer.handleConn per accepted socket, the caller   *)
(* of Stop, message handlers (run inside handleConn, or left running       *)
(* behind its back when the Timeout middleware gives up on them) and       *)
(* application goroutines that use a core.Connection from outside.         *)
(*                                                                         *)
(* A step is the code between two points where another goroutine can       *)
(* observe or change the shared state: the atomics of stats, the two       *)
(* sync.Maps (rawConns, connections), c.mu, the context and the WaitGroup. *)
(* Bytes, message contents, hooks' effects and the message counters are    *)
(* left out; what a read, a hook or a handler may do is nondeterministic.  *)
(***************************************************************************)
EXTENDS Naturals, FiniteSets

CONSTANTS
    Conns,          \* sockets that may be dialled, each one once
    Devices,        \* device identifiers
    NoDevice,       \* the empty device identifier ""
    NoConn,         \* absence of a connection
    Slots,          \* handler invocations alive at once on a connection
    MaxConnections, \* Config.MaxConnections, 0 for no limit
    ReadTimeout,    \* TRUE iff Config.ReadTimeout > 0
    WriteTimeout,   \* TRUE iff Config.WriteTimeout > 0
    Detach          \* TRUE iff the Timeout middleware is in use

ASSUME ConnsAssumption == IsFiniteSet(Conns) /\ NoConn \notin Conns
ASSUME DevicesAssumption == NoDevice \notin Devices
ASSUME SlotsAssumption ==
    Slots # {} /\ Slots \cap {"app", "conn", "stop", "free", "none"} = {}
ASSUME LimitAssumption == MaxConnections \in Nat
ASSUME FlagsAssumption == /\ ReadTimeout \in BOOLEAN
                          /\ WriteTimeout \in BOOLEAN
                          /\ Detach \in BOOLEAN

VARIABLES
    ctxDone,     \* s.ctx is cancelled
    listener,    \* s.listener: "nil", "open" or "closed"
    accPc,       \* where accept() is
    accConn,     \* the socket accept() holds between Accept and go handleConn
    stopPc,      \* where Stop() is
    rawTodo,     \* keys rawConns.Range has yet to visit
    regTodo,     \* keys connections.Range has yet to visit
    wg,          \* counter of s.wg
    net,         \* the socket: "absent", "backlog", "open" or "closed"
    pc,          \* where handleConn is, for each socket
    tdev,        \* the device identifier the teardown of handleConn read
    rawConns,    \* keys of s.rawConns
    connected,   \* TCPConnection.connected
    closer,      \* who has won the CAS of Close and not yet closed netConn
    deviceID,    \* TCPConnection.deviceID
    connections, \* s.connections: device identifier -> connection
    active,      \* stats.ActiveConnections
    total,       \* stats.TotalConnections
    cur,         \* the handler invocation handleConn waits for
    hpc,         \* where each handler invocation is
    hold,        \* oldDeviceID of the SetDeviceID in progress
    hnew,        \* deviceID, the argument of the SetDeviceID in progress
    writer,      \* who is inside netConn.Write holding c.mu
    app          \* where the Send of an application goroutine is

acceptVars == <<listener, accPc, accConn>>
stopVars == <<ctxDone, stopPc, rawTodo, regTodo>>
handleVars == <<pc, tdev, cur>>
socketVars == <<net, connected, closer>>
mapVars == <<rawConns, connections>>
statVars == <<active, total>>
handlerVars == <<hpc, hold, hnew>>
sendVars == <<writer, app>>
serverVars == <<acceptVars, stopVars, wg>>
dataVars == <<socketVars, deviceID, mapVars, statVars>>
callVars == <<handlerVars, sendVars>>
vars == <<serverVars, handleVars, dataVars, callVars>>

Ids == Devices \cup {NoDevice}

-----------------------------------------------------------------------------
(* NewTCPServer, and sockets nobody has dialled yet.                        *)
Init ==
    /\ ctxDone = FALSE
    /\ listener = "nil"
    /\ accPc = "off"
    /\ accConn = NoConn
    /\ stopPc = "none"
    /\ rawTodo = {}
    /\ regTodo = {}
    /\ wg = 0
    /\ net = [c \in Conns |-> "absent"]
    /\ pc = [c \in Conns |-> "none"]
    /\ tdev = [c \in Conns |-> NoDevice]
    /\ rawConns = {}
    /\ connected = [c \in Conns |-> FALSE]
    /\ closer = [c \in Conns |-> "none"]
    /\ deviceID = [c \in Conns |-> NoDevice]
    /\ connections = [d \in Devices |-> NoConn]
    /\ active = 0
    /\ total = 0
    /\ cur = [c \in Conns |-> CHOOSE k \in Slots : TRUE]
    /\ hpc = [c \in Conns |-> [k \in Slots |-> "idle"]]
    /\ hold = [c \in Conns |-> [k \in Slots |-> NoDevice]]
    /\ hnew = [c \in Conns |-> [k \in Slots |-> NoDevice]]
    /\ writer = [c \in Conns |-> "free"]
    /\ app = [c \in Conns |-> "idle"]

(* Start: net.Listen, wg.Add(1), go accept(). A failed Listen changes       *)
(* nothing.                                                                 *)
Start ==
    /\ accPc = "off" /\ stopPc = "none"
    /\ listener' = "open"
    /\ wg' = wg + 1
    /\ accPc' = "select"
    /\ UNCHANGED <<stopVars, handleVars, dataVars, callVars, accConn>>

(* External: a client opens a connection; the kernel queues it.             *)
Dial(c) ==
    /\ net[c] = "absent" /\ listener = "open"
    /\ net' = [net EXCEPT ![c] = "backlog"]
    /\ UNCHANGED <<serverVars, handleVars, mapVars, statVars, callVars,
                   connected, closer, deviceID>>

-----------------------------------------------------------------------------
(* accept()                                                                 *)

(* The deferred wg.Done of accept().                                        *)
AcceptReturns ==
    /\ accPc' = "done"
    /\ wg' = wg - 1

AcceptSelect ==
    /\ accPc = "select"
    /\ \/ ctxDone /\ AcceptReturns
       \/ ~ctxDone /\ accPc' = "accept" /\ UNCHANGED wg
    /\ UNCHANGED <<stopVars, handleVars, dataVars, callVars, listener,
                   accConn>>

AcceptConn(c) ==
    /\ accPc = "accept" /\ net[c] = "backlog"
    /\ net' = [net EXCEPT ![c] = "open"]
    /\ accConn' = c
    /\ accPc' = "check"
    /\ UNCHANGED <<stopVars, handleVars, mapVars, statVars, callVars,
                   listener, wg, connected, closer, deviceID>>

(* Accept fails: always once the listener is closed, otherwise for reasons  *)
(* of the operating system.                                                 *)
AcceptError ==
    /\ accPc = "accept"
    /\ \/ ctxDone /\ AcceptReturns
       \/ ~ctxDone /\ accPc' = "select" /\ UNCHANGED wg
    /\ UNCHANGED <<stopVars, handleVars, dataVars, callVars, listener,
                   accConn>>

LimitReached == MaxConnections > 0 /\ active >= MaxConnections

(* The limit is read here; ActiveConnections is incremented later, by the   *)
(* goroutine this step starts.                                              *)
AcceptCheck ==
    /\ accPc = "check"
    /\ accPc' = "select"
    /\ accConn' = NoConn
    /\ \/ /\ LimitReached
          /\ net' = [net EXCEPT ![accConn] = "closed"]
          /\ UNCHANGED <<wg, pc>>
       \/ /\ ~LimitReached
          /\ wg' = wg + 1
          /\ pc' = [pc EXCEPT ![accConn] = "track"]
          /\ UNCHANGED net
    /\ UNCHANGED <<stopVars, mapVars, statVars, callVars, listener, tdev,
                   connected, closer, deviceID, cur>>

-----------------------------------------------------------------------------
(* handleConn                                                               *)

(* TCPConnection.Close, called by p: the CAS on connected. The winner goes  *)
(* on to NetClose and the loser returns.                                    *)
Close(c, p) ==
    /\ connected' = [connected EXCEPT ![c] = FALSE]
    /\ closer' = [closer EXCEPT ![c] = IF connected[c] THEN p ELSE @]
    /\ UNCHANGED net

(* Fault: Close forgets netConn.Close.                                      *)
FaultCloseFlagOnly(c) ==
    /\ closer[c] # "none"
    /\ closer' = [closer EXCEPT ![c] = "none"]
    /\ UNCHANGED <<serverVars, handleVars, mapVars, statVars, callVars,
                   net, connected, deviceID>>

(* TCPConnection.Close, after the CAS: netConn.Close, and Close returns.    *)
NetClose(c) ==
    /\ closer[c] # "none"
    /\ net' = [net EXCEPT ![c] = "closed"]
    /\ closer' = [closer EXCEPT ![c] = "none"]
    /\ UNCHANGED <<serverVars, handleVars, mapVars, statVars, callVars,
                   connected, deviceID>>

Track(c) ==
    /\ pc[c] = "track"
    /\ rawConns' = rawConns \cup {c}
    /\ pc' = [pc EXCEPT ![c] = "count"]
    /\ UNCHANGED <<serverVars, socketVars, statVars, callVars, tdev,
                   deviceID, connections, cur>>

(* NewTCPConnection, then the two increments.                               *)
Count(c) ==
    /\ pc[c] = "count"
    /\ connected' = [connected EXCEPT ![c] = TRUE]
    /\ active' = active + 1
    /\ total' = total + 1
    /\ pc' = [pc EXCEPT ![c] = "onConnect"]
    /\ UNCHANGED <<serverVars, mapVars, callVars, net, closer, tdev, deviceID,
                   cur>>

OnConnectOk(c) ==
    /\ pc[c] = "onConnect"
    /\ pc' = [pc EXCEPT ![c] = "loop"]
    /\ UNCHANGED <<serverVars, dataVars, callVars, tdev, cur>>

(* Fault: the refused connection is never uncounted.                        *)
FaultRefuseKeepsCount(c) ==
    /\ pc[c] = "onConnect"
    /\ Close(c, "conn")
    /\ pc' = [pc EXCEPT ![c] = "exit"]
    /\ UNCHANGED <<serverVars, mapVars, statVars, callVars, tdev, deviceID,
                   cur>>

(* A hook refuses the connection: Close, and on to the decrement; the       *)
(* teardown is not yet deferred and does not run.                           *)
OnConnectErr(c) ==
    /\ pc[c] = "onConnect"
    /\ Close(c, "conn")
    /\ pc' = [pc EXCEPT ![c] = "uncount"]
    /\ UNCHANGED <<serverVars, mapVars, statVars, callVars, tdev, deviceID,
                   cur>>

(* The select at the head of the read loop.                                 *)
Loop(c) ==
    /\ pc[c] = "loop"
    /\ pc' = [pc EXCEPT ![c] = IF ctxDone THEN "onDisconnect" ELSE "read"]
    /\ UNCHANGED <<serverVars, dataVars, callVars, tdev, cur>>

(* readMessage returns a message, from the socket or from what bufio had    *)
(* buffered before the socket was closed; the handler is called.            *)
ReadMessage(c) ==
    /\ pc[c] = "read"
    /\ \E k \in Slots :
          /\ hpc[c][k] = "idle"
          /\ hpc' = [hpc EXCEPT ![c][k] = "run"]
          /\ cur' = [cur EXCEPT ![c] = k]
    /\ pc' = [pc EXCEPT ![c] = "handle"]
    /\ UNCHANGED <<serverVars, sendVars, dataVars, tdev, hold, hnew>>

(* readMessage fails: EOF, a malformed frame, the read deadline or a closed *)
(* socket.                                                                  *)
ReadError(c) ==
    /\ pc[c] = "read"
    /\ pc' = [pc EXCEPT ![c] = "onDisconnect"]
    /\ UNCHANGED <<serverVars, dataVars, callVars, tdev, cur>>

(* The call of the handler returns, or the Timeout middleware returns in    *)
(* its place and the handler's goroutine goes on.                           *)
HandlerDone(c) ==
    /\ pc[c] = "handle"
    /\ hpc[c][cur[c]] = "idle" \/ Detach
    /\ pc' = [pc EXCEPT ![c] = "loop"]
    /\ UNCHANGED <<serverVars, dataVars, callVars, tdev, cur>>

(* The deferred teardown: the OnDisconnect hooks, then conn.DeviceID(),     *)
(* which waits for c.mu.                                                    *)
OnDisconnect(c) ==
    /\ pc[c] = "onDisconnect"
    /\ writer[c] = "free"
    /\ tdev' = [tdev EXCEPT ![c] = deviceID[c]]
    /\ pc' = [pc EXCEPT ![c] = "unregister"]
    /\ UNCHANGED <<serverVars, dataVars, callVars, cur>>

(* Fault: the device is deleted, whoever is registered under it.            *)
FaultDeleteAny(d, c) ==
    connections' = [e \in Devices |-> IF e = d THEN NoConn ELSE connections[e]]

(* sync.Map.CompareAndDelete(d, c) on s.connections; d = "" never matches.  *)
CompareAndDelete(d, c) ==
    connections' = [e \in Devices |->
        IF e = d /\ connections[e] = c THEN NoConn ELSE connections[e]]

(* Fault: a connection already closed elsewhere is not unregistered.        *)
FaultUnregisterOpenOnly(c) ==
    /\ pc[c] = "unregister"
    /\ IF connected[c] THEN CompareAndDelete(tdev[c], c)
                       ELSE UNCHANGED connections
    /\ tdev' = [tdev EXCEPT ![c] = NoDevice]
    /\ pc' = [pc EXCEPT ![c] = "close"]
    /\ UNCHANGED <<serverVars, socketVars, statVars, callVars, rawConns,
                   deviceID, cur>>

Unregister(c) ==
    /\ pc[c] = "unregister"
    /\ CompareAndDelete(tdev[c], c)
    /\ tdev' = [tdev EXCEPT ![c] = NoDevice]
    /\ pc' = [pc EXCEPT ![c] = "close"]
    /\ UNCHANGED <<serverVars, socketVars, statVars, callVars, rawConns,
                   deviceID, cur>>

CloseConn(c) ==
    /\ pc[c] = "close"
    /\ Close(c, "conn")
    /\ pc' = [pc EXCEPT ![c] = "uncount"]
    /\ UNCHANGED <<serverVars, mapVars, statVars, callVars, tdev, deviceID,
                   cur>>

Uncount(c) ==
    /\ pc[c] = "uncount" /\ closer[c] # "conn"
    /\ active' = active - 1
    /\ pc' = [pc EXCEPT ![c] = "exit"]
    /\ UNCHANGED <<serverVars, socketVars, mapVars, callVars, tdev, deviceID,
                   total, cur>>

(* The outer defers: rawConns.Delete, then wg.Done.                         *)
Exit(c) ==
    /\ pc[c] = "exit"
    /\ rawConns' = rawConns \ {c}
    /\ wg' = wg - 1
    /\ pc' = [pc EXCEPT ![c] = "gone"]
    /\ UNCHANGED <<acceptVars, stopVars, socketVars, statVars, callVars,
                   tdev, deviceID, connections, cur>>

-----------------------------------------------------------------------------
(* A message handler. It may rename the connection and then reply, as the   *)
(* register handler of cmd/server does, only reply, close it, or do nothing *)

(* SetDeviceID, under c.mu: read the old identifier, assign the new one.    *)
SetDeviceID(c, k, d) ==
    /\ hpc[c][k] = "run" /\ writer[c] = "free"
    /\ hold' = [hold EXCEPT ![c][k] = deviceID[c]]
    /\ hnew' = [hnew EXCEPT ![c][k] = d]
    /\ deviceID' = [deviceID EXCEPT ![c] = d]
    /\ hpc' = [hpc EXCEPT ![c][k] = "drop"]
    /\ UNCHANGED <<serverVars, handleVars, socketVars, mapVars, statVars,
                   sendVars>>

(* Fault: SetDeviceID leaves the entry of the old identifier.               *)
FaultKeepOld(c, k) ==
    /\ hpc[c][k] = "drop"
    /\ hold' = [hold EXCEPT ![c][k] = NoDevice]
    /\ hpc' = [hpc EXCEPT ![c][k] = "store"]
    /\ UNCHANGED <<serverVars, handleVars, sendVars, dataVars, hnew>>

(* SetDeviceID, after c.mu: remove the connection under its old identifier. *)
DropOld(c, k) ==
    /\ hpc[c][k] = "drop"
    /\ IF hold[c][k] # hnew[c][k]
         THEN CompareAndDelete(hold[c][k], c)
         ELSE UNCHANGED connections
    /\ hold' = [hold EXCEPT ![c][k] = NoDevice]
    /\ hpc' = [hpc EXCEPT ![c][k] = "store"]
    /\ UNCHANGED <<serverVars, handleVars, socketVars, statVars, sendVars,
                   rawConns, deviceID, hnew>>

(* SetDeviceID: store the connection under its new identifier.              *)
StoreNew(c, k) ==
    /\ hpc[c][k] = "store"
    /\ connections' = [e \in Devices |->
                         IF e = hnew[c][k] THEN c ELSE connections[e]]
    /\ hnew' = [hnew EXCEPT ![c][k] = NoDevice]
    /\ hpc' = [hpc EXCEPT ![c][k] = "reply"]
    /\ UNCHANGED <<serverVars, handleVars, socketVars, statVars, sendVars,
                   rawConns, deviceID, hold>>

(* Send: the connected check; a failed check is a Send without effect.      *)
HandlerSend(c, k) ==
    /\ hpc[c][k] \in {"run", "reply"}
    /\ connected[c]
    /\ hpc' = [hpc EXCEPT ![c][k] = "lock"]
    /\ UNCHANGED <<serverVars, handleVars, sendVars, dataVars, hold, hnew>>

(* Send: c.mu is taken and Write is in progress.                            *)
HandlerWrite(c, k) ==
    /\ hpc[c][k] = "lock" /\ writer[c] = "free"
    /\ writer' = [writer EXCEPT ![c] = k]
    /\ hpc' = [hpc EXCEPT ![c][k] = "write"]
    /\ UNCHANGED <<serverVars, handleVars, dataVars, hold, hnew, app>>

HandlerClose(c, k) ==
    /\ hpc[c][k] = "run"
    /\ Close(c, k)
    /\ hpc' = [hpc EXCEPT ![c][k] = "reply"]
    /\ UNCHANGED <<serverVars, handleVars, mapVars, statVars, sendVars,
                   deviceID, hold, hnew>>

(* The handler returns, not before a Close it has called does.              *)
HandlerReturn(c, k) ==
    /\ hpc[c][k] \in {"run", "reply", "end"} /\ closer[c] # k
    /\ hpc' = [hpc EXCEPT ![c][k] = "idle"]
    /\ UNCHANGED <<serverVars, handleVars, sendVars, dataVars, hold, hnew>>

(* Fault: an application's Send returns a write error without unlocking.    *)
FaultNoUnlock(c) ==
    /\ writer[c] # "free"
    /\ writer' = [writer EXCEPT ![c] = IF @ = "app" /\ net[c] = "closed"
                                         THEN @ ELSE "free"]
    /\ hpc' = [hpc EXCEPT ![c] = [k \in Slots |->
                  IF k = writer[c] THEN "end" ELSE hpc[c][k]]]
    /\ app' = [app EXCEPT ![c] = IF writer[c] = "app" THEN "idle" ELSE @]
    /\ UNCHANGED <<serverVars, handleVars, dataVars, hold, hnew>>

(* Write returns, with or without an error, and c.mu is released.           *)
WriteReturns(c) ==
    /\ writer[c] # "free"
    /\ writer' = [writer EXCEPT ![c] = "free"]
    /\ hpc' = [hpc EXCEPT ![c] = [k \in Slots |->
                  IF k = writer[c] THEN "end" ELSE hpc[c][k]]]
    /\ app' = [app EXCEPT ![c] = IF writer[c] = "app" THEN "idle" ELSE @]
    /\ UNCHANGED <<serverVars, handleVars, dataVars, hold, hnew>>

-----------------------------------------------------------------------------
(* An application goroutine that holds the connection, from GetConnection   *)
(* or from a hook.                                                          *)
AppSend(c) ==
    /\ app[c] = "idle" /\ connected[c]
    /\ app' = [app EXCEPT ![c] = "lock"]
    /\ UNCHANGED <<serverVars, handleVars, handlerVars, dataVars, writer>>

AppWrite(c) ==
    /\ app[c] = "lock" /\ writer[c] = "free"
    /\ writer' = [writer EXCEPT ![c] = "app"]
    /\ app' = [app EXCEPT ![c] = "write"]
    /\ UNCHANGED <<serverVars, handleVars, handlerVars, dataVars>>

AppClose(c) ==
    /\ connected[c]
    /\ Close(c, "app")
    /\ UNCHANGED <<serverVars, handleVars, mapVars, statVars, callVars,
                   deviceID>>

-----------------------------------------------------------------------------
(* Stop                                                                     *)

StopCancel ==
    /\ stopPc = "none"
    /\ ctxDone' = TRUE
    /\ stopPc' = "listener"
    /\ UNCHANGED <<acceptVars, handleVars, dataVars, callVars, rawTodo,
                   regTodo, wg>>

(* listener.Close, if Start has run; the kernel resets what it had queued.  *)
(* rawConns.Range starts.                                                   *)
StopListener ==
    /\ stopPc = "listener"
    /\ IF listener = "open"
         THEN /\ listener' = "closed"
              /\ net' = [c \in Conns |->
                           IF net[c] = "backlog" THEN "closed" ELSE net[c]]
         ELSE UNCHANGED <<listener, net>>
    /\ rawTodo' = rawConns
    /\ stopPc' = "raw"
    /\ UNCHANGED <<handleVars, mapVars, statVars, callVars, accPc, accConn,
                   ctxDone, regTodo, wg, connected, closer, deviceID>>

(* Fault: Stop closes registered connections only.                          *)
FaultSkipRaw(c) ==
    /\ stopPc = "raw" /\ c \in rawConns
    /\ rawTodo' = rawTodo \ {c}
    /\ UNCHANGED <<acceptVars, handleVars, dataVars, callVars, ctxDone,
                   stopPc, regTodo, wg>>

(* rawConns.Range visits a key: one present when the Range started, or one  *)
(* stored since then.                                                       *)
StopRaw(c) ==
    /\ stopPc = "raw" /\ c \in rawConns
    /\ net' = [net EXCEPT ![c] = "closed"]
    /\ rawTodo' = rawTodo \ {c}
    /\ UNCHANGED <<acceptVars, handleVars, mapVars, statVars, callVars,
                   ctxDone, stopPc, regTodo, wg, connected, closer, deviceID>>

(* rawConns.Range has visited every key that was there all along;           *)
(* connections.Range starts.                                                *)
StopRawEnd ==
    /\ stopPc = "raw" /\ rawTodo \cap rawConns = {}
    /\ stopPc' = "registered"
    /\ rawTodo' = {}
    /\ regTodo' = {d \in Devices : connections[d] # NoConn}
    /\ UNCHANGED <<acceptVars, handleVars, dataVars, callVars, ctxDone, wg>>

(* Stop is inside the Close of one of the connections.                      *)
StopClosing == \E c \in Conns : closer[c] = "stop"

StopRegistered(d) ==
    /\ stopPc = "registered" /\ ~StopClosing /\ connections[d] # NoConn
    /\ Close(connections[d], "stop")
    /\ regTodo' = regTodo \ {d}
    /\ UNCHANGED <<acceptVars, handleVars, mapVars, statVars, callVars,
                   ctxDone, stopPc, rawTodo, wg, deviceID>>

StopRegisteredEnd ==
    /\ stopPc = "registered" /\ ~StopClosing
    /\ \A d \in regTodo : connections[d] = NoConn
    /\ stopPc' = "wait"
    /\ regTodo' = {}
    /\ UNCHANGED <<acceptVars, handleVars, dataVars, callVars, ctxDone,
                   rawTodo, wg>>

(* Fault: Stop does not wait for the goroutines.                            *)
FaultNoWait ==
    /\ stopPc = "wait"
    /\ stopPc' = "returned"
    /\ UNCHANGED <<acceptVars, handleVars, dataVars, callVars, ctxDone,
                   rawTodo, regTodo, wg>>

(* wg.Wait                                                                  *)
StopReturn ==
    /\ stopPc = "wait" /\ wg = 0
    /\ stopPc' = "returned"
    /\ UNCHANGED <<acceptVars, handleVars, dataVars, callVars, ctxDone,
                   rawTodo, regTodo, wg>>

(* Nothing is left to do: the only state in which the server may rest.      *)
Stopped == stopPc = "returned" /\ UNCHANGED vars

-----------------------------------------------------------------------------
AcceptNext == AcceptSelect \/ AcceptError \/ AcceptCheck
                 \/ \E c \in Conns : AcceptConn(c)

HandleNext(c) ==
    \/ Track(c) \/ Count(c) \/ OnConnectOk(c) \/ OnConnectErr(c)
    \/ Loop(c) \/ ReadMessage(c) \/ ReadError(c) \/ HandlerDone(c)
    \/ OnDisconnect(c) \/ Unregister(c) \/ CloseConn(c) \/ Uncount(c)
    \/ Exit(c)

HandlerNext(c, k) ==
    \/ \E d \in Ids : SetDeviceID(c, k, d)
    \/ DropOld(c, k) \/ StoreNew(c, k)
    \/ HandlerSend(c, k) \/ HandlerWrite(c, k)
    \/ HandlerClose(c, k) \/ HandlerReturn(c, k)

StopNext ==
    \/ StopCancel \/ StopListener \/ StopRawEnd \/ StopRegisteredEnd
    \/ StopReturn
    \/ \E c \in Conns : StopRaw(c)
    \/ \E d \in Devices : StopRegistered(d)

Next ==
    \/ Start \/ AcceptNext \/ StopNext \/ Stopped
    \/ \E c \in Conns :
          \/ Dial(c) \/ HandleNext(c) \/ WriteReturns(c) \/ NetClose(c)
          \/ AppSend(c) \/ AppWrite(c) \/ AppClose(c)
          \/ \E k \in Slots : HandlerNext(c, k)

Spec == Init /\ [][Next]_vars

(***************************************************************************)
(* Fairness. A runnable goroutine keeps running. What never has to happen: *)
(* a client dialling, sending, or reading what Write sends; the operating  *)
(* system failing Accept; Start, Stop or the application being called. A   *)
(* blocked read or write ends for certain only when the socket is closed   *)
(* or its deadline is set. Waiters for c.mu are served in turn by          *)
(* sync.RWMutex, hence strong fairness for the steps that take it.         *)
(***************************************************************************)
Fairness ==
    /\ WF_vars(AcceptSelect) /\ WF_vars(AcceptCheck)
    /\ WF_vars(listener = "closed" /\ AcceptError)
    /\ \A c \in Conns :
          /\ WF_vars(\/ Track(c) \/ Count(c) \/ OnConnectOk(c)
                     \/ OnConnectErr(c) \/ Loop(c) \/ HandlerDone(c)
                     \/ Unregister(c) \/ CloseConn(c) \/ Uncount(c)
                     \/ Exit(c))
          /\ WF_vars(NetClose(c))
          /\ WF_vars((ReadTimeout \/ net[c] = "closed") /\ ReadError(c))
          /\ WF_vars((WriteTimeout \/ net[c] = "closed") /\ WriteReturns(c))
          /\ SF_vars(OnDisconnect(c))
          /\ SF_vars(AppWrite(c))
          /\ \A k \in Slots :
                /\ WF_vars(DropOld(c, k) \/ StoreNew(c, k) \/ HandlerReturn(c, k))
                /\ SF_vars(HandlerWrite(c, k))
    /\ WF_vars(StopListener) /\ WF_vars(StopRawEnd)
    /\ WF_vars(StopRegisteredEnd) /\ WF_vars(StopReturn)
    /\ \A c \in Conns : WF_vars(c \in rawTodo /\ StopRaw(c))
    /\ \A d \in Devices : WF_vars(d \in regTodo /\ StopRegistered(d))

FairSpec == Spec /\ Fairness

-----------------------------------------------------------------------------
(* Properties                                                               *)

HandlePcs == {"none", "track", "count", "onConnect", "loop", "read", "handle",
              "onDisconnect", "unregister", "close", "uncount", "exit", "gone"}
HandlerPcs == {"idle", "run", "drop", "store", "reply", "lock", "write", "end"}

(* The types of everything but the two counters that are decremented.      *)
StateTypes ==
    /\ ctxDone \in BOOLEAN
    /\ listener \in {"nil", "open", "closed"}
    /\ accPc \in {"off", "select", "accept", "check", "done"}
    /\ accConn \in Conns \cup {NoConn}
    /\ stopPc \in {"none", "listener", "raw", "registered", "wait", "returned"}
    /\ rawTodo \in SUBSET Conns
    /\ regTodo \in SUBSET Devices
    /\ net \in [Conns -> {"absent", "backlog", "open", "closed"}]
    /\ pc \in [Conns -> HandlePcs]
    /\ tdev \in [Conns -> Ids]
    /\ rawConns \in SUBSET Conns
    /\ connected \in [Conns -> BOOLEAN]
    /\ closer \in [Conns -> Slots \cup {"app", "conn", "stop", "none"}]
    /\ deviceID \in [Conns -> Ids]
    /\ connections \in [Devices -> Conns \cup {NoConn}]
    /\ total \in Nat
    /\ cur \in [Conns -> Slots]
    /\ hpc \in [Conns -> [Slots -> HandlerPcs]]
    /\ hold \in [Conns -> [Slots -> Ids]]
    /\ hnew \in [Conns -> [Slots -> Ids]]
    /\ writer \in [Conns -> Slots \cup {"app", "free"}]
    /\ app \in [Conns -> {"idle", "lock", "write"}]

(* Every variable has the type its Go declaration gives it; in particular   *)
(* ActiveConnections and the WaitGroup never go negative, which would be a  *)
(* panic in wg.Done.                                                        *)
TypeOK == StateTypes /\ active \in Nat /\ wg \in Nat

(* handleConn is between its increment and its decrement.                   *)
Counted == {c \in Conns : pc[c] \in {"onConnect", "loop", "read", "handle",
                            "onDisconnect", "unregister", "close", "uncount"}}
(* handleConn holds a count of the WaitGroup.                               *)
Running == {c \in Conns : pc[c] \notin {"none", "gone"}}

(* ActiveConnections is the number of connections between the two ends of   *)
(* handleConn, on every path through OnConnect and the teardown, and the    *)
(* WaitGroup counts exactly the goroutines Stop has to wait for.            *)
Accounting ==
    /\ active = Cardinality(Counted)
    /\ wg = Cardinality(Running)
               + IF accPc \in {"off", "done"} THEN 0 ELSE 1

(* How the socket, the position of handleConn, connected, rawConns, the     *)
(* listener, Stop and the callers of Close constrain each other: an         *)
(* accepted socket always has somebody who will close it, and handleConn    *)
(* ends only after its socket is closed, by itself or by the caller of      *)
(* Close it lost the CAS to.                                                *)
Sockets ==
    /\ accConn # NoConn <=> accPc = "check"
    /\ accConn # NoConn => pc[accConn] = "none" /\ net[accConn] = "open"
    /\ listener = "nil" <=> accPc = "off"
    /\ stopPc \notin {"none", "listener"} => listener # "open"
    /\ stopPc = "returned" => wg = 0
    /\ \A c \in Conns :
          /\ net[c] = "backlog" => listener = "open"
          /\ net[c] \in {"absent", "backlog"} => pc[c] = "none"
          /\ net[c] = "open" /\ pc[c] = "none" => accConn = c
          /\ connected[c] => c \in Counted /\ closer[c] = "none"
          /\ pc[c] = "uncount" => ~connected[c]
          /\ closer[c] # "none" => pc[c] \notin {"none", "track", "count"}
          /\ closer[c] = "conn" => pc[c] = "uncount"
          /\ closer[c] = "stop" => stopPc = "registered"
          /\ c \in Counted \/ pc[c] \in {"exit", "gone"} =>
                connected[c] \/ net[c] = "closed" \/ closer[c] # "none"
          /\ c \in rawConns <=> pc[c] \notin {"none", "track", "gone"}

(* When Stop returns, no goroutine of the server runs, every socket that    *)
(* was ever accepted is closed, none is tracked and none is counted, no     *)
(* matter where accept and handleConn were when Stop was called. A socket   *)
(* that the application or a handler left behind is just closing itself is  *)
(* excepted: there handleConn lost the CAS and does not wait.               *)
StopComplete ==
    stopPc = "returned" =>
        /\ accPc \in {"off", "done"}
        /\ active = 0 /\ rawConns = {}
        /\ \A c \in Conns : /\ pc[c] \in {"none", "gone"}
                             /\ \/ net[c] \in {"absent", "closed"}
                                \/ closer[c] \in Slots \cup {"app"}

(* A connection whose handleConn has unregistered it is not found under any *)
(* device identifier any more: GetConnection never returns a dead           *)
(* connection, however often the device was renamed.                        *)
NoStaleEntry ==
    \A d \in Devices : connections[d] # NoConn =>
        pc[connections[d]] \in {"handle", "loop", "read", "onDisconnect",
                                "unregister"}

(* A connection is registered under at most one identifier, and under none  *)
(* but its current one while no SetDeviceID is in progress.                 *)
RegisteredUnderOwnId ==
    \A d \in Devices : connections[d] # NoConn =>
        LET c == connections[d]
        IN  \/ deviceID[c] = d
            \/ \E k \in Slots : hpc[c][k] = "drop" /\ hold[c][k] = d

(* What makes the two inductive when no handler is ever left behind: a      *)
(* handler runs only while handleConn waits for it, so the identifier a     *)
(* SetDeviceID or a teardown works with is still the connection's.          *)
HandlersInline ==
    /\ \A c \in Conns : \A k \in Slots :
          /\ hpc[c][k] # "idle" => pc[c] = "handle" /\ cur[c] = k
          /\ hpc[c][k] \in {"drop", "store"} => hnew[c][k] = deviceID[c]
          /\ writer[c] = k => hpc[c][k] = "write"
    /\ \A c \in Conns : pc[c] = "unregister" => tdev[c] = deviceID[c]

(* A device's entry changes hands only when another connection registers    *)
(* the device, and disappears only when the connection in it goes away or   *)
(* takes another identifier: the teardown of an old connection never        *)
(* removes the new connection of the same device.                           *)
EntryKept ==
    [][\A d \in Devices :
          LET c == connections[d]
          IN  c # NoConn /\ connections'[d] # c =>
                IF connections'[d] = NoConn
                  THEN \/ pc[c] = "unregister" /\ pc'[c] = "close"
                       \/ deviceID[c] # d
                  ELSE deviceID[connections'[d]] = d]_vars

(* ActiveConnections stays within the configured maximum.                   *)
LimitRespected == MaxConnections > 0 => active <= MaxConnections

(* Stop returns if writes have a deadline, even if clients are silent or do *)
(* not read, reads have no deadline, handlers were left behind, and new     *)
(* connections are arriving when it is called.                              *)
StopTerminates == (stopPc # "none") ~> (stopPc = "returned")

(* A connection whose read failed is torn down completely.                  *)
TeardownCompletes ==
    \A c \in Conns : (pc[c] = "onDisconnect") ~> (pc[c] = "gone")
==============================================================================
