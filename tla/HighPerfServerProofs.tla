------------------------- MODULE HighPerfServerProofs -------------------------
(***************************************************************************)
(* Proofs about HighPerfServer, for any number of connections, devices and *)
(* accept goroutines, any limit, any queue of the worker pool, and whether *)
(* reads have a deadline or not.                                           *)
(***************************************************************************)
EXTENDS HighPerfServer, FiniteSetTheorems, TLAPS

(* Connections whose handleConn has counted itself and not yet left.        *)
Live == {c \in Conns : pc[c] \in {"hook", "read", "submit", "teardown"}}

TaskQueueTypes ==
    /\ accepted \in SUBSET Tasks /\ running \in SUBSET Tasks
    /\ line \in Seq(Tasks) /\ stopped \in BOOLEAN

TypeOK ==
    /\ stop \in {"no", "listener", "range", "pool", "wait", "returned"}
    /\ visited \in SUBSET Devices
    /\ acc \in [Acceptors -> {"accept", "check", "ended"}]
    /\ got \in [Acceptors -> Conns \cup {None}]
    /\ pc \in [Conns -> {"none", "backlog", "accepted", "new", "hook", "read",
                         "submit", "teardown", "refused", "gone"}]
    /\ connected \in [Conns -> BOOLEAN] /\ netOpen \in [Conns -> BOOLEAN]
    /\ active \in Nat
    /\ id \in [Conns -> Devices \cup {None}]
    /\ pool \in [Devices -> Conns \cup {None}]
    /\ mu \in SUBSET Conns /\ naming \in SUBSET Tasks /\ late \in SUBSET Conns
    /\ puts \subseteq Tasks \X (Devices \cup {None})
    /\ TaskQueueTypes

(* A connection that submits has a message to submit.                       *)
Outstanding ==
    \A c \in Conns :
        pc[c] = "submit" => \E i \in 1 .. MaxOutstanding : <<c, i>> \notin accepted

(* ActiveConnections counts the handleConns that have counted themselves    *)
(* and not yet undone it.                                                   *)
Counted == IsFiniteSet(Live) /\ active = Cardinality(Live)

(* An accepted socket is in the hands of one accept goroutine.              *)
Held ==
    /\ \A a \in Acceptors :
          acc[a] = "check" => got[a] \in Conns /\ pc[got[a]] = "accepted"
    /\ \A a, b \in Acceptors :
          acc[a] = "check" /\ acc[b] = "check" /\ got[a] = got[b] => a = b
    /\ \A c \in Conns :
          pc[c] = "accepted" => \E a \in Acceptors : acc[a] = "check" /\ got[a] = c

(* A connection is open only while its handleConn runs; a socket without    *)
(* handleConn waits for one or is closed, but for the socket of a Close     *)
(* that handleConn lost to somebody else.                                   *)
Owned ==
    /\ \A c \in Conns : connected[c] => c \in Live
    /\ \A c \in Conns : pc[c] \in {"none", "refused"} => ~netOpen[c]

(* After the listener is closed nobody waits for accept, and once Stop has  *)
(* returned nobody is left.                                                 *)
Stopped ==
    /\ stop \notin {"no", "listener"} => \A c \in Conns : pc[c] # "backlog"
    /\ stop = "returned" =>
          /\ \A a \in Acceptors : acc[a] = "ended"
          /\ \A c \in Conns : pc[c] \in {"none", "refused", "gone"}

Inv == TypeOK /\ Outstanding /\ Counted /\ Held /\ Owned /\ Stopped

-----------------------------------------------------------------------------
LEMMA InitInv == Init => Inv
<1> SUFFICES ASSUME Init
             PROVE  Inv
  OBVIOUS
<1> USE DEF Init, WP!Init
<1>1. TypeOK
  <2>1. line \in Seq(Tasks)
    <3>1. line = <<>> /\ <<>> \in Seq(Tasks)
      OBVIOUS
    <3> QED
      BY <3>1
  <2> QED
    BY <2>1 DEF TypeOK, TaskQueueTypes
<1>2. Live = {}
  BY DEF Live
<1>3. Counted
  BY <1>2, FS_EmptySet DEF Counted
<1> QED
  BY <1>1, <1>3 DEF Inv, Outstanding, Held, Owned, Stopped

(* A step of the task queue keeps its types.                                *)
LEMMA TaskTypes ==
    ASSUME TypeOK, WP!Begin \/ WP!Cancel \/ \E t \in Tasks : WP!Accept(t) \/ WP!End(t)
    PROVE  TaskQueueTypes'
<1> USE DEF TypeOK, TaskQueueTypes
<1>1. ASSUME NEW t \in Tasks, WP!Accept(t)
      PROVE  TaskQueueTypes'
  BY <1>1 DEF WP!Accept
<1>2. CASE WP!Begin
  <2>1. line # <<>> /\ line \in Seq(Tasks)
    BY <1>2 DEF WP!Begin
  <2>2. Head(line) \in Tasks /\ Tail(line) \in Seq(Tasks)
    BY <2>1
  <2> QED
    BY <1>2, <2>2 DEF WP!Begin
<1>3. ASSUME NEW t \in Tasks, WP!End(t)
      PROVE  TaskQueueTypes'
  BY <1>3 DEF WP!End
<1>4. CASE WP!Cancel
  BY <1>4 DEF WP!Cancel
<1> QED
  BY <1>1, <1>2, <1>3, <1>4

LEMMA NewTaskTypes ==
    ASSUME Outstanding, NEW c \in Conns, pc[c] = "submit"
    PROVE  NewTask(c) \in Tasks /\ NewTask(c)[1] = c
<1>1. PICK i \in 1 .. MaxOutstanding :
         i = CHOOSE j \in 1 .. MaxOutstanding : <<c, j>> \notin accepted
  BY DEF Outstanding
<1>2. NewTask(c) = <<c, i>>
  BY <1>1 DEF NewTask
<1> QED
  BY <1>2 DEF Tasks

LEMMA StepTypes == Inv /\ [Next]_vars => TypeOK' /\ Outstanding'
<1> SUFFICES ASSUME Inv, [Next]_vars
             PROVE  TypeOK' /\ Outstanding'
  OBVIOUS
<1>0. TypeOK /\ Outstanding /\ Counted /\ Held
  BY DEF Inv
<1> USE DEF acceptVars, connVars, muVars, nameVars, deviceVars, stopVars, taskVars, TaskQueueTypes
<1>1. ASSUME NEW a \in Acceptors, AcceptNext(a)
      PROVE  TypeOK' /\ Outstanding'
  <2>1. CASE \E c \in Conns : AcceptConn(a, c)
    BY <1>0, <2>1 DEF AcceptConn, TypeOK, Outstanding
  <2>2. CASE AcceptError(a)
    BY <1>0, <2>2 DEF AcceptError, TypeOK, Outstanding
  <2>3. CASE AcceptCheck(a)
    BY <1>0, <2>3 DEF AcceptCheck, AcceptTop, TypeOK, Outstanding
  <2> QED
    BY <1>1, <2>1, <2>2, <2>3 DEF AcceptNext
<1>2. ASSUME NEW c \in Conns, Dial(c) \/ ReadMessage(c) \/ ReadError(c)
                              \/ CloseElsewhere(c) \/ NetClose(c) \/ WriteJams(c)
      PROVE  TypeOK' /\ Outstanding'
  BY <1>0, <1>2 DEF Dial, ReadMessage, ReadError, CloseElsewhere, NetClose, WriteJams,
                    TypeOK, Outstanding
<1>3. ASSUME NEW c \in Conns, HandleStep(c)
      PROVE  TypeOK' /\ Outstanding'
  <2>0. CASE Count(c)
    <3>1. active' \in Nat
      BY <1>0, <2>0 DEF Count, TypeOK
    <3>2. /\ pc' \in [Conns -> {"none", "backlog", "accepted", "new", "hook", "read",
                              "submit", "teardown", "refused", "gone"}]
          /\ connected' \in [Conns -> BOOLEAN]
      BY <1>0, <2>0 DEF Count, TypeOK
    <3>3. UNCHANGED <<acceptVars, netOpen, muVars, deviceVars, stopVars, taskVars>>
      BY <2>0 DEF Count
    <3>4. \A b \in Conns : pc'[b] = "submit" => pc[b] = "submit"
      BY <1>0, <2>0 DEF Count, TypeOK
    <3> QED
      BY <1>0, <3>1, <3>2, <3>3, <3>4 DEF TypeOK, Outstanding
  <2>1. CASE OnConnectOk(c)
    BY <1>0, <2>1 DEF OnConnectOk, ReadTop, TypeOK, Outstanding
  <2>2. CASE OnConnectErr(c) \/ Teardown(c)
    <3>1. c \in Live
      BY <1>0, <2>2 DEF OnConnectErr, Teardown, Live
    <3>2. active \in Nat /\ active # 0
      BY <1>0, <3>1, FS_EmptySet DEF Counted, TypeOK
    <3>3. active' \in Nat
      BY <2>2, <3>2 DEF OnConnectErr, Teardown
    <3>4. Close({c})
      BY <2>2 DEF OnConnectErr, Teardown
    <3>5. /\ connected' \in [Conns -> BOOLEAN] /\ netOpen' \in [Conns -> BOOLEAN]
          /\ mu' \in SUBSET Conns
      BY <1>0, <3>4 DEF Close, TypeOK
    <3>6. pool' \in [Devices -> Conns \cup {None}]
      BY <1>0, <2>2 DEF OnConnectErr, Teardown, TypeOK
    <3>7. /\ pc' = [pc EXCEPT ![c] = "gone"]
          /\ UNCHANGED <<acceptVars, nameVars, id, late, stopVars, taskVars>>
      BY <2>2 DEF OnConnectErr, Teardown, deviceVars
    <3>8. /\ pc' \in [Conns -> {"none", "backlog", "accepted", "new", "hook", "read",
                                "submit", "teardown", "refused", "gone"}]
          /\ \A b \in Conns : pc'[b] = "submit" => pc[b] = "submit"
      BY <1>0, <3>7 DEF TypeOK
    <3>9. TypeOK'
      BY <1>0, <3>3, <3>5, <3>6, <3>7, <3>8 DEF TypeOK
    <3> QED
      BY <1>0, <3>7, <3>8, <3>9 DEF Outstanding
  <2>3. CASE SubmitTrue(c) \/ SubmitFalse(c)
    <3>1. NewTask(c) \in Tasks /\ NewTask(c)[1] = c
      BY <1>0, <2>3, NewTaskTypes DEF SubmitTrue, SubmitFalse
    <3>2. PICK t \in Tasks : t = NewTask(c)
      BY <3>1
    <3>3. WP!Accept(t) \/ UNCHANGED taskVars
      BY <2>3, <3>2 DEF SubmitTrue, SubmitFalse, WP!Accept
    <3>4. TaskQueueTypes'
      BY <1>0, <3>3, TaskTypes DEF TypeOK
    <3>5. TypeOK'
      BY <1>0, <2>3, <3>4 DEF SubmitTrue, SubmitFalse, ReadTop, TypeOK
    <3>6. \A b \in Conns, i \in 1 .. MaxOutstanding :
             b # c /\ <<b, i>> \notin accepted => <<b, i>> \notin accepted'
      BY <3>1, <3>2, <3>3 DEF WP!Accept
    <3>7. \A b \in Conns : pc'[b] = "submit" => b # c /\ pc[b] = "submit"
      BY <1>0, <2>3 DEF SubmitTrue, SubmitFalse, ReadTop, TypeOK
    <3> QED
      BY <1>0, <3>5, <3>6, <3>7 DEF Outstanding
  <2> QED
    BY <1>3, <2>0, <2>1, <2>2, <2>3 DEF HandleStep
<1>4. ASSUME NEW t \in Tasks, Handle(t) \/ Put(t)
      PROVE  TypeOK' /\ Outstanding'
  <2>1. /\ UNCHANGED <<acceptVars, pc, connVars, active, mu, stopVars>>
        /\ WP!End(t) \/ UNCHANGED taskVars
    BY <1>4 DEF Handle, Put, ProcessMessage, SetDeviceID, PutLock, PutStore
  <2>2. /\ id' \in [Conns -> Devices \cup {None}] /\ naming' \in SUBSET Tasks
        /\ late' \in SUBSET Conns /\ pool' \in [Devices -> Conns \cup {None}]
        /\ puts' \subseteq Tasks \X (Devices \cup {None})
    <3>0. t[1] \in Conns
      BY DEF Tasks
    <3>1. CASE ProcessMessage(t)
      BY <1>0, <3>1 DEF ProcessMessage, TypeOK
    <3>2. ASSUME NEW d \in Devices, SetDeviceID(t, d)
          PROVE  <2>2!1 /\ <2>2!2 /\ <2>2!3
      <4>1. /\ id' = [id EXCEPT ![t[1]] = d]
            /\ naming' = naming \cup {t}
            /\ UNCHANGED <<puts, late>>
        BY <3>2 DEF SetDeviceID
      <4>2. pool' \in [Devices -> Conns \cup {None}]
        BY <1>0, <3>2 DEF SetDeviceID, TypeOK
      <4> QED
        BY <1>0, <3>0, <4>1, <4>2 DEF TypeOK
    <3>3. CASE PutLock(t)
      <4>1. id[t[1]] \in Devices \cup {None}
        BY <1>0, <3>0 DEF TypeOK
      <4> QED
        BY <1>0, <3>3, <4>1 DEF PutLock, TypeOK
    <3>4. CASE PutStore(t)
      BY <1>0, <3>0, <3>4 DEF PutStore, TypeOK
    <3> QED
      BY <1>4, <3>1, <3>2, <3>3, <3>4 DEF Handle, Put
  <2>3. TaskQueueTypes'
    BY <1>0, <2>1, TaskTypes DEF TypeOK
  <2>4. accepted' \in SUBSET accepted
    BY <2>1 DEF WP!End
  <2> QED
    BY <1>0, <2>1, <2>2, <2>3, <2>4 DEF TypeOK, Outstanding
<1>5. CASE Begin \/ StopCancel
  <2>1. accepted' = accepted
    BY <1>5 DEF Begin, StopCancel, WP!Begin, WP!Cancel
  <2>2. TaskQueueTypes'
    BY <1>0, <1>5, TaskTypes DEF Begin, StopCancel
  <2> QED
    BY <1>0, <1>5, <2>1, <2>2 DEF Begin, StopCancel, TypeOK, Outstanding
<1>6. CASE StopNext
  <2>1. CASE StopListener
    BY <1>0, <2>1 DEF StopListener, TypeOK, Outstanding
  <2>2. ASSUME NEW d \in Devices, StopRange(d)
        PROVE  TypeOK' /\ Outstanding'
    BY <1>0, <2>2 DEF StopRange, Close, TypeOK, Outstanding
  <2>3. CASE StopRangeEnd \/ StopPool \/ StopReturn
    BY <1>0, <2>3 DEF StopRangeEnd, StopPool, StopReturn, TypeOK, Outstanding
  <2> QED
    BY <1>6, <2>1, <2>2, <2>3 DEF StopNext
<1>7. CASE UNCHANGED vars
  BY <1>0, <1>7 DEF vars, TypeOK, Outstanding
<1> QED
  BY <1>1, <1>2, <1>3, <1>4, <1>5, <1>6, <1>7 DEF Next, Quiet

-----------------------------------------------------------------------------
(* A handleConn counts itself once and undoes it once.                      *)
LEMMA StepCounted == Inv /\ [Next]_vars => Counted'
<1> SUFFICES ASSUME Inv, [Next]_vars
             PROVE  Counted'
  OBVIOUS
<1>0. TypeOK /\ IsFiniteSet(Live) /\ active = Cardinality(Live)
  BY DEF Inv, Counted
<1> USE DEF acceptVars, connVars, muVars, nameVars, deviceVars, stopVars, taskVars
<1>1. ASSUME NEW c \in Conns, Count(c)
      PROVE  Counted'
  <2>1. Live' = Live \cup {c} /\ c \notin Live /\ active' = active + 1
    BY <1>0, <1>1 DEF Count, Live, TypeOK
  <2> QED
    BY <1>0, <2>1, FS_AddElement DEF Counted
<1>2. ASSUME NEW c \in Conns, OnConnectErr(c) \/ Teardown(c)
      PROVE  Counted'
  <2>1. Live' = Live \ {c} /\ c \in Live /\ active' = active - 1
    BY <1>0, <1>2 DEF OnConnectErr, Teardown, Live, TypeOK
  <2> QED
    BY <1>0, <2>1, FS_RemoveElement DEF Counted
<1>3. CASE UNCHANGED active /\ Live' = Live
  BY <1>0, <1>3 DEF Counted
<1>4. ASSUME NEW c \in Conns,
             OnConnectOk(c) \/ SubmitTrue(c) \/ SubmitFalse(c) \/ Dial(c)
               \/ ReadMessage(c) \/ ReadError(c) \/ CloseElsewhere(c) \/ NetClose(c) \/ WriteJams(c)
      PROVE  UNCHANGED active /\ Live' = Live
  BY <1>0, <1>4 DEF OnConnectOk, SubmitTrue, SubmitFalse, Dial, ReadMessage, ReadError,
                    CloseElsewhere, NetClose, WriteJams, ReadTop, Live, TypeOK
<1>5. ASSUME NEW a \in Acceptors, AcceptNext(a)
      PROVE  UNCHANGED active /\ Live' = Live
  <2>1. CASE AcceptError(a) \/ (\E c \in Conns : AcceptConn(a, c))
    BY <1>0, <2>1 DEF AcceptError, AcceptConn, Live, TypeOK
  <2>2. CASE AcceptCheck(a)
    <3>1. got[a] \in Conns /\ pc[got[a]] = "accepted"
      BY <2>2 DEF AcceptCheck, Inv, Held
    <3> QED
      BY <1>0, <2>2, <3>1 DEF AcceptCheck, Live, TypeOK
  <2> QED
    BY <1>5, <2>1, <2>2 DEF AcceptNext
<1>6. CASE (\E t \in Tasks : Handle(t) \/ Put(t)) \/ Begin \/ StopCancel \/ UNCHANGED vars
  <2>1. UNCHANGED <<active, pc>>
    BY <1>6 DEF Handle, Put, ProcessMessage, SetDeviceID, PutLock, PutStore, Begin, StopCancel, vars
  <2> QED
    BY <1>0, <2>1 DEF Counted, Live
<1>7. CASE StopNext
  <2>1. CASE StopListener
    <3>1. UNCHANGED active /\ Live' = Live
      BY <1>0, <2>1 DEF StopListener, Live, TypeOK
    <3> QED
      BY <1>3, <3>1
  <2>2. CASE UNCHANGED <<active, pc>>
    BY <1>0, <2>2 DEF Counted, Live
  <2> QED
    BY <1>7, <2>1, <2>2 DEF StopNext, StopRange, StopRangeEnd, StopPool, StopReturn
<1> QED
  BY <1>1, <1>2, <1>3, <1>4, <1>5, <1>6, <1>7 DEF Next, HandleStep, Quiet

(* Every socket keeps somebody who will close it, and nobody comes back     *)
(* once Stop has returned.                                                  *)
LEMMA StepOwned == Inv /\ [Next]_vars => Held' /\ Owned' /\ Stopped'
<1> SUFFICES ASSUME Inv, [Next]_vars
             PROVE  Held' /\ Owned' /\ Stopped'
  OBVIOUS
<1>0. TypeOK /\ Held /\ Owned /\ Stopped
  BY DEF Inv
<1> USE DEF acceptVars, connVars, muVars, nameVars, deviceVars, stopVars, taskVars
<1>1. ASSUME NEW c \in Conns, Dial(c)
      PROVE  Held' /\ Owned' /\ Stopped'
  BY <1>0, <1>1 DEF Dial, Listening, TypeOK, Held, Owned, Stopped, Live
<1>2. ASSUME NEW a \in Acceptors, NEW c \in Conns, AcceptConn(a, c)
      PROVE  Held' /\ Owned' /\ Stopped'
  <2>1. Held'
    BY <1>0, <1>2, ServerAssumption DEF AcceptConn, TypeOK, Held
  <2>2. Owned' /\ Stopped'
    BY <1>0, <1>2 DEF AcceptConn, Listening, TypeOK, Owned, Stopped, Live
  <2> QED
    BY <2>1, <2>2
<1>3. ASSUME NEW a \in Acceptors, AcceptError(a)
      PROVE  Held' /\ Owned' /\ Stopped'
  BY <1>0, <1>3 DEF AcceptError, TypeOK, Held, Owned, Stopped, Live
<1>4. ASSUME NEW a \in Acceptors, AcceptCheck(a)
      PROVE  Held' /\ Owned' /\ Stopped'
  <2>1. PICK c \in Conns : c = got[a] /\ pc[c] = "accepted"
    BY <1>0, <1>4 DEF AcceptCheck, Held
  <2>2. /\ pc' = [pc EXCEPT ![c] = IF MaxConnections > 0 /\ active >= MaxConnections
                                   THEN "refused" ELSE "new"]
        /\ netOpen' = [netOpen EXCEPT ![c] = ~(MaxConnections > 0
                                               /\ active >= MaxConnections)]
        /\ got' = [got EXCEPT ![a] = None]
        /\ acc[a] = "check" /\ UNCHANGED <<connected, stop>>
        /\ (acc' = [acc EXCEPT ![a] = "ended"] \/ acc' = [acc EXCEPT ![a] = "accept"])
    BY <1>4, <2>1 DEF AcceptCheck, AcceptTop
  <2>3. Held'
    <3>1. ASSUME NEW b \in Acceptors, acc'[b] = "check"
          PROVE  b # a /\ acc[b] = "check" /\ got'[b] = got[b] /\ got[b] # c
      BY <1>0, <2>1, <2>2, <3>1 DEF TypeOK, Held
    <3>2. ASSUME NEW e \in Conns, pc'[e] = "accepted"
          PROVE  e # c /\ pc[e] = "accepted"
      BY <1>0, <2>2, <3>2 DEF TypeOK
    <3>3. ASSUME NEW b \in Acceptors, acc[b] = "check", b # a
          PROVE  acc'[b] = "check" /\ got'[b] = got[b]
      BY <1>0, <2>2, <3>3 DEF TypeOK
    <3>4. ASSUME NEW e \in Conns, e # c
          PROVE  pc'[e] = pc[e]
      BY <1>0, <2>2, <3>4 DEF TypeOK
    <3> QED
      BY <1>0, <2>1, <3>1, <3>2, <3>3, <3>4 DEF Held
  <2>4. Owned' /\ Stopped'
    BY <1>0, <2>1, <2>2 DEF TypeOK, Owned, Stopped, Live
  <2> QED
    BY <2>3, <2>4
<1>5. ASSUME NEW c \in Conns, Count(c) \/ OnConnectOk(c) \/ ReadMessage(c)
               \/ ReadError(c) \/ SubmitTrue(c) \/ SubmitFalse(c)
      PROVE  Held' /\ Owned' /\ Stopped'
  <2>1. /\ UNCHANGED <<acc, got, netOpen, stop>>
        /\ \A b \in Conns \ {c} : pc'[b] = pc[b] /\ connected'[b] = connected[b]
        /\ c \in Live' /\ pc[c] \in {"new", "hook", "read", "submit"}
    BY <1>0, <1>5 DEF Count, OnConnectOk, ReadMessage, ReadError, SubmitTrue,
                      SubmitFalse, ReadTop, TypeOK, Live
  <2>2. pc'[c] \in {"hook", "read", "submit", "teardown"}
    BY <2>1 DEF Live
  <2> QED
    BY <1>0, <2>1, <2>2 DEF Held, Owned, Stopped, Live
<1>6. ASSUME NEW c \in Conns, OnConnectErr(c) \/ Teardown(c)
      PROVE  Held' /\ Owned' /\ Stopped'
  <2>1. /\ UNCHANGED <<acc, got, stop>> /\ pc' = [pc EXCEPT ![c] = "gone"]
        /\ pc[c] \in {"hook", "teardown"} /\ Close({c})
    BY <1>6 DEF OnConnectErr, Teardown
  <2>2. ~connected'[c] /\ \A b \in Conns \ {c} : connected'[b] = connected[b]
    BY <1>0, <2>1 DEF Close, TypeOK
  <2>3. \A b \in Conns : netOpen'[b] => netOpen[b]
    BY <2>1 DEF Close
  <2>4. pc'[c] = "gone" /\ \A b \in Conns \ {c} : pc'[b] = pc[b]
    BY <1>0, <2>1 DEF TypeOK
  <2> QED
    BY <1>0, <2>1, <2>2, <2>3, <2>4 DEF Held, Owned, Stopped, Live
<1>7. ASSUME NEW c \in Conns, CloseElsewhere(c) \/ NetClose(c) \/ WriteJams(c)
      PROVE  Held' /\ Owned' /\ Stopped'
  BY <1>0, <1>7 DEF CloseElsewhere, NetClose, WriteJams, TypeOK, Held, Owned, Stopped, Live
<1>8. CASE (\E t \in Tasks : Handle(t) \/ Put(t)) \/ Begin \/ UNCHANGED vars
  <2>1. UNCHANGED <<acc, got, pc, connected, netOpen, stop>>
    BY <1>8 DEF Handle, Put, ProcessMessage, SetDeviceID, PutLock, PutStore, Begin, vars
  <2> QED
    BY <1>0, <2>1 DEF Held, Owned, Stopped, Live
<1>9. CASE StopCancel \/ StopRangeEnd \/ StopPool
  <2>1. /\ UNCHANGED <<acc, got, pc, connected, netOpen>>
        /\ stop' # "returned" /\ (stop' \notin {"no", "listener"} =>
                                      stop \notin {"no", "listener"})
    BY <1>9 DEF StopCancel, StopRangeEnd, StopPool
  <2> QED
    BY <1>0, <2>1 DEF Held, Owned, Stopped, Live
<1>10. CASE StopListener
  <2>1. /\ UNCHANGED <<acc, got, connected>> /\ stop' = "range"
        /\ \A c \in Conns : pc'[c] = IF pc[c] = "backlog" THEN "refused" ELSE pc[c]
        /\ \A c \in Conns : netOpen'[c] => netOpen[c] /\ pc[c] # "backlog"
    BY <1>10 DEF StopListener
  <2> QED
    BY <1>0, <2>1 DEF Held, Owned, Stopped, Live
<1>11. ASSUME NEW d \in Devices, StopRange(d)
       PROVE  Held' /\ Owned' /\ Stopped'
  <2>1. /\ UNCHANGED <<acc, got, pc, stop>>
        /\ \A c \in Conns : connected'[c] => connected[c]
        /\ \A c \in Conns : netOpen'[c] => netOpen[c]
    BY <1>11 DEF StopRange, Close
  <2> QED
    BY <1>0, <2>1 DEF Held, Owned, Stopped, Live
<1>12. CASE StopReturn
  BY <1>0, <1>12 DEF StopReturn, Held, Owned, Stopped, Live
<1> QED
  BY <1>1, <1>2, <1>3, <1>4, <1>5, <1>6, <1>7, <1>8, <1>9, <1>10, <1>11, <1>12
     DEF Next, AcceptNext, HandleStep, StopNext, Quiet

LEMMA Invariance == Spec => []Inv
<1>1. Inv /\ [Next]_vars => Inv'
  BY StepTypes, StepCounted, StepOwned DEF Inv
<1> QED
  BY <1>1, InitInv, PTL DEF Spec

(* Every variable keeps its type; ActiveConnections is never negative.      *)
THEOREM TypeCorrectness == Spec => []TypeOK
<1>1. Inv => TypeOK
  BY DEF Inv
<1> QED
  BY <1>1, Invariance, PTL

(* When Stop has returned no accept goroutine, no handleConn and no counted *)
(* connection is left, and every socket is closed or being closed, however  *)
(* many connections, accept goroutines and messages there were.             *)
THEOREM StopCompleteHolds == Spec => []StopComplete
<1>1. Inv => StopComplete
  <2> SUFFICES ASSUME Inv, stop = "returned"
               PROVE  StopComplete
    BY DEF StopComplete
  <2>1. Live = {} /\ \A c \in Conns : pc[c] \in {"none", "refused", "gone"}
    BY DEF Inv, Stopped, Live
  <2>2. active = 0
    BY <2>1, FS_EmptySet DEF Inv, Counted
  <2> QED
    BY <2>1, <2>2 DEF Inv, Owned, Stopped, StopComplete, Closing
<1> QED
  BY <1>1, Invariance, PTL
=============================================================================
