--------------------------- MODULE TCPServerProofs ---------------------------
(***************************************************************************)
(* Proofs about TCPServer, for every set of sockets, devices and handler   *)
(* slots, every limit and with or without deadlines.                       *)
(***************************************************************************)
EXTENDS TCPServer, FiniteSetTheorems, TLAPS

(* NewTCPServer and fresh sockets have the right types.                     *)
LEMMA InitTypes == Init => StateTypes
<1> SUFFICES ASSUME Init
             PROVE  StateTypes
  OBVIOUS
<1>1. cur \in [Conns -> Slots]
  <2>1. (CHOOSE k \in Slots : TRUE) \in Slots
    BY SlotsAssumption
  <2> QED
    BY <2>1 DEF Init
<1>2. connections \in [Devices -> Conns \cup {NoConn}]
  BY DEF Init
<1>3. /\ hpc \in [Conns -> [Slots -> HandlerPcs]]
      /\ hold \in [Conns -> [Slots -> Ids]]
      /\ hnew \in [Conns -> [Slots -> Ids]]
  BY DEF Init, HandlerPcs, Ids
<1>4. /\ net \in [Conns -> {"absent", "backlog", "open", "closed"}]
      /\ pc \in [Conns -> HandlePcs]
      /\ tdev \in [Conns -> Ids]
      /\ connected \in [Conns -> BOOLEAN]
      /\ closer \in [Conns -> Slots \cup {"app", "conn", "stop", "none"}]
      /\ deviceID \in [Conns -> Ids]
      /\ writer \in [Conns -> Slots \cup {"app", "free"}]
      /\ app \in [Conns -> {"idle", "lock", "write"}]
  BY DEF Init, HandlePcs, Ids
<1> QED
  BY <1>1, <1>2, <1>3, <1>4 DEF Init, StateTypes

(* Every step keeps them.                                                   *)
LEMMA StepTypes == StateTypes /\ [Next]_vars => StateTypes'
<1> SUFFICES ASSUME StateTypes, [Next]_vars
             PROVE  StateTypes'
  OBVIOUS
<1> USE DEF StateTypes, HandlePcs, HandlerPcs, Ids,
            acceptVars, stopVars, handleVars, socketVars, mapVars,
            statVars, handlerVars, sendVars, serverVars, dataVars, callVars
<1>1. CASE Start
  BY <1>1 DEF Start
<1>2. CASE AcceptSelect
  BY <1>2 DEF AcceptSelect, AcceptReturns
<1>3. CASE AcceptError
  BY <1>3 DEF AcceptError, AcceptReturns
<1>4. CASE AcceptCheck
  BY <1>4 DEF AcceptCheck
<1>5. CASE StopCancel
  BY <1>5 DEF StopCancel
<1>6. CASE StopListener
  BY <1>6 DEF StopListener
<1>7. CASE StopRawEnd
  BY <1>7 DEF StopRawEnd
<1>8. CASE StopRegisteredEnd
  BY <1>8 DEF StopRegisteredEnd
<1>9. CASE StopReturn
  BY <1>9 DEF StopReturn
<1>10. ASSUME NEW d \in Devices, StopRegistered(d)
       PROVE  StateTypes'
  BY <1>10 DEF StopRegistered, Close
<1>11. ASSUME NEW c \in Conns, AcceptConn(c)
       PROVE  StateTypes'
  BY <1>11 DEF AcceptConn
<1>12. ASSUME NEW c \in Conns, StopRaw(c)
       PROVE  StateTypes'
  BY <1>12 DEF StopRaw
<1>13. ASSUME NEW c \in Conns, Dial(c)
       PROVE  StateTypes'
  BY <1>13 DEF Dial
<1>14. ASSUME NEW c \in Conns, Track(c)
       PROVE  StateTypes'
  BY <1>14 DEF Track
<1>15. ASSUME NEW c \in Conns, Count(c)
       PROVE  StateTypes'
  BY <1>15 DEF Count
<1>16. ASSUME NEW c \in Conns, OnConnectOk(c)
       PROVE  StateTypes'
  BY <1>16 DEF OnConnectOk
<1>17. ASSUME NEW c \in Conns, OnConnectErr(c)
       PROVE  StateTypes'
  BY <1>17 DEF OnConnectErr, Close
<1>18. ASSUME NEW c \in Conns, Loop(c)
       PROVE  StateTypes'
  BY <1>18 DEF Loop
<1>19. ASSUME NEW c \in Conns, ReadMessage(c)
       PROVE  StateTypes'
  BY <1>19 DEF ReadMessage
<1>20. ASSUME NEW c \in Conns, ReadError(c)
       PROVE  StateTypes'
  BY <1>20 DEF ReadError
<1>21. ASSUME NEW c \in Conns, HandlerDone(c)
       PROVE  StateTypes'
  BY <1>21 DEF HandlerDone
<1>22. ASSUME NEW c \in Conns, OnDisconnect(c)
       PROVE  StateTypes'
  BY <1>22 DEF OnDisconnect
<1>23. ASSUME NEW c \in Conns, Unregister(c)
       PROVE  StateTypes'
  BY <1>23 DEF Unregister, CompareAndDelete
<1>24. ASSUME NEW c \in Conns, CloseConn(c)
       PROVE  StateTypes'
  BY <1>24 DEF CloseConn, Close
<1>25. ASSUME NEW c \in Conns, Uncount(c)
       PROVE  StateTypes'
  BY <1>25 DEF Uncount
<1>26. ASSUME NEW c \in Conns, Exit(c)
       PROVE  StateTypes'
  BY <1>26 DEF Exit
<1>27. ASSUME NEW c \in Conns, WriteReturns(c)
       PROVE  StateTypes'
  BY <1>27 DEF WriteReturns
<1>28. ASSUME NEW c \in Conns, AppSend(c)
       PROVE  StateTypes'
  BY <1>28 DEF AppSend
<1>29. ASSUME NEW c \in Conns, AppWrite(c)
       PROVE  StateTypes'
  BY <1>29 DEF AppWrite
<1>30. ASSUME NEW c \in Conns, AppClose(c)
       PROVE  StateTypes'
  BY <1>30 DEF AppClose, Close
<1>31. ASSUME NEW c \in Conns, NEW k \in Slots, DropOld(c, k)
       PROVE  StateTypes'
  BY <1>31 DEF DropOld, CompareAndDelete
<1>32. ASSUME NEW c \in Conns, NEW k \in Slots, StoreNew(c, k)
       PROVE  StateTypes'
  BY <1>32 DEF StoreNew
<1>33. ASSUME NEW c \in Conns, NEW k \in Slots, HandlerSend(c, k)
       PROVE  StateTypes'
  BY <1>33 DEF HandlerSend
<1>34. ASSUME NEW c \in Conns, NEW k \in Slots, HandlerWrite(c, k)
       PROVE  StateTypes'
  BY <1>34 DEF HandlerWrite
<1>35. ASSUME NEW c \in Conns, NEW k \in Slots, HandlerClose(c, k)
       PROVE  StateTypes'
  BY <1>35 DEF HandlerClose, Close
<1>36. ASSUME NEW c \in Conns, NEW k \in Slots, HandlerReturn(c, k)
       PROVE  StateTypes'
  BY <1>36 DEF HandlerReturn
<1>37. ASSUME NEW c \in Conns, NEW k \in Slots, NEW d \in Ids, SetDeviceID(c, k, d)
       PROVE  StateTypes'
  BY <1>37 DEF SetDeviceID
<1>38. CASE UNCHANGED vars
  BY <1>38 DEF vars
<1>39. ASSUME NEW c \in Conns, NetClose(c)
       PROVE  StateTypes'
  BY <1>39 DEF NetClose
<1> QED
  BY <1>1, <1>2, <1>3, <1>4, <1>5, <1>6, <1>7, <1>8, <1>9, <1>10, <1>11, 
     <1>12, <1>13, <1>14, <1>15, <1>16, <1>17, <1>18, <1>19, <1>20, 
     <1>21, <1>22, <1>23, <1>24, <1>25, <1>26, <1>27, <1>28, <1>29, 
     <1>30, <1>31, <1>32, <1>33, <1>34, <1>35, <1>36, <1>37, <1>38, <1>39
     DEF Next, AcceptNext, StopNext, HandleNext, HandlerNext, Stopped

-----------------------------------------------------------------------------
(* The counters count finite sets; a zero WaitGroup means nobody runs.      *)
LEMMA CountedSets ==
    /\ IsFiniteSet(Counted) /\ Cardinality(Counted) \in Nat
    /\ IsFiniteSet(Running) /\ Cardinality(Running) \in Nat
    /\ Accounting /\ wg = 0 => Running = {} /\ accPc \in {"off", "done"}
<1>1. IsFiniteSet(Counted) /\ IsFiniteSet(Running)
  BY ConnsAssumption, FS_Subset DEF Counted, Running
<1>2. Cardinality(Counted) \in Nat /\ Cardinality(Running) \in Nat
  BY <1>1, FS_CardinalityType
<1>3. Cardinality(Running) = 0 => Running = {}
  BY <1>1, FS_EmptySet
<1> QED
  BY <1>1, <1>2, <1>3 DEF Accounting

LEMMA InitSockets == Init => Sockets
  BY DEF Init, Sockets, Counted

(* Every step keeps the relation between sockets, goroutines and Stop.      *)
LEMMA StepSockets ==
    StateTypes /\ Accounting /\ Sockets /\ [Next]_vars => Sockets'
<1> SUFFICES ASSUME StateTypes, Accounting, Sockets, [Next]_vars
             PROVE  Sockets'
  OBVIOUS
<1> USE ConnsAssumption DEF StateTypes, HandlePcs, Sockets, Counted,
            acceptVars, stopVars, handleVars, socketVars, mapVars,
            statVars, handlerVars, sendVars, serverVars, dataVars, callVars
<1>1. CASE Start
  BY <1>1 DEF Start
<1>2. CASE AcceptSelect
  <2>1. stopPc # "returned"
    BY <1>2, CountedSets DEF AcceptSelect
  <2> QED
    BY <1>2, <2>1 DEF AcceptSelect, AcceptReturns
<1>3. CASE AcceptError
  <2>1. stopPc # "returned"
    BY <1>3, CountedSets DEF AcceptError
  <2> QED
    BY <1>3, <2>1 DEF AcceptError, AcceptReturns
<1>4. CASE AcceptCheck
  <2>1. stopPc # "returned"
    BY <1>4, CountedSets DEF AcceptCheck
  <2> QED
    BY <1>4, <2>1 DEF AcceptCheck
<1>5. CASE StopCancel
  BY <1>5 DEF StopCancel
<1>6. CASE StopListener
  BY <1>6 DEF StopListener
<1>7. CASE StopRawEnd
  BY <1>7 DEF StopRawEnd
<1>8. CASE StopRegisteredEnd
  BY <1>8 DEF StopRegisteredEnd, StopClosing
<1>9. CASE StopReturn
  BY <1>9 DEF StopReturn
<1>10. ASSUME NEW d \in Devices, StopRegistered(d)
       PROVE  Sockets'
  <2> DEFINE c == connections[d]
  <2>0. c \in Conns
    BY <1>10 DEF StopRegistered
  <2>1. CASE connected[c]
    <3>1. /\ connected' = [connected EXCEPT ![c] = FALSE]
          /\ closer' = [closer EXCEPT ![c] = "stop"]
          /\ stopPc = "registered"
          /\ UNCHANGED <<net, accPc, accConn, listener, stopPc, wg, pc, rawConns>>
      BY <1>10, <2>1 DEF StopRegistered, Close
    <3>2. c \in Counted /\ accConn # c
      BY <2>0, <2>1
    <3> HIDE DEF c
    <3> QED
      BY <2>0, <3>1, <3>2
  <2>2. CASE ~connected[c]
    <3>1. net' = net /\ connected' = connected /\ closer' = closer
      BY <1>10, <2>0, <2>2 DEF StopRegistered, Close
    <3> QED
      BY <1>10, <3>1 DEF StopRegistered
  <2> QED
    BY <2>1, <2>2
<1>11. ASSUME NEW c \in Conns, AcceptConn(c)
       PROVE  Sockets'
  BY <1>11 DEF AcceptConn
<1>12. ASSUME NEW c \in Conns, StopRaw(c)
       PROVE  Sockets'
  BY <1>12 DEF StopRaw
<1>13. ASSUME NEW c \in Conns, Dial(c)
       PROVE  Sockets'
  BY <1>13 DEF Dial
<1>14. ASSUME NEW c \in Conns, Track(c)
       PROVE  Sockets'
  BY <1>14 DEF Track
<1>15. ASSUME NEW c \in Conns, Count(c)
       PROVE  Sockets'
  BY <1>15 DEF Count
<1>16. ASSUME NEW c \in Conns, OnConnectOk(c)
       PROVE  Sockets'
  BY <1>16 DEF OnConnectOk
<1>17. ASSUME NEW c \in Conns, OnConnectErr(c)
       PROVE  Sockets'
  BY <1>17 DEF OnConnectErr, Close
<1>18. ASSUME NEW c \in Conns, Loop(c)
       PROVE  Sockets'
  BY <1>18 DEF Loop
<1>19. ASSUME NEW c \in Conns, ReadMessage(c)
       PROVE  Sockets'
  BY <1>19 DEF ReadMessage
<1>20. ASSUME NEW c \in Conns, ReadError(c)
       PROVE  Sockets'
  BY <1>20 DEF ReadError
<1>21. ASSUME NEW c \in Conns, HandlerDone(c)
       PROVE  Sockets'
  BY <1>21 DEF HandlerDone
<1>22. ASSUME NEW c \in Conns, OnDisconnect(c)
       PROVE  Sockets'
  BY <1>22 DEF OnDisconnect
<1>23. ASSUME NEW c \in Conns, Unregister(c)
       PROVE  Sockets'
  BY <1>23 DEF Unregister, CompareAndDelete
<1>24. ASSUME NEW c \in Conns, CloseConn(c)
       PROVE  Sockets'
  BY <1>24 DEF CloseConn, Close
<1>25. ASSUME NEW c \in Conns, Uncount(c)
       PROVE  Sockets'
  BY <1>25 DEF Uncount
<1>26. ASSUME NEW c \in Conns, Exit(c)
       PROVE  Sockets'
  <2>1. stopPc # "returned"
    BY <1>26, CountedSets DEF Exit, Running
  <2> QED
    BY <1>26, <2>1 DEF Exit
<1>27. ASSUME NEW c \in Conns, WriteReturns(c)
       PROVE  Sockets'
  BY <1>27 DEF WriteReturns
<1>28. ASSUME NEW c \in Conns, AppSend(c)
       PROVE  Sockets'
  BY <1>28 DEF AppSend
<1>29. ASSUME NEW c \in Conns, AppWrite(c)
       PROVE  Sockets'
  BY <1>29 DEF AppWrite
<1>30. ASSUME NEW c \in Conns, AppClose(c)
       PROVE  Sockets'
  BY <1>30 DEF AppClose, Close
<1>31. ASSUME NEW c \in Conns, NEW k \in Slots, DropOld(c, k)
       PROVE  Sockets'
  BY <1>31 DEF DropOld, CompareAndDelete
<1>32. ASSUME NEW c \in Conns, NEW k \in Slots, StoreNew(c, k)
       PROVE  Sockets'
  BY <1>32 DEF StoreNew
<1>33. ASSUME NEW c \in Conns, NEW k \in Slots, HandlerSend(c, k)
       PROVE  Sockets'
  BY <1>33 DEF HandlerSend
<1>34. ASSUME NEW c \in Conns, NEW k \in Slots, HandlerWrite(c, k)
       PROVE  Sockets'
  BY <1>34 DEF HandlerWrite
<1>35. ASSUME NEW c \in Conns, NEW k \in Slots, HandlerClose(c, k)
       PROVE  Sockets'
  <2>1. CASE connected[c]
    <3>1. k \notin {"none", "conn", "stop"}
      BY SlotsAssumption
    <3>2. /\ connected' = [connected EXCEPT ![c] = FALSE]
          /\ closer' = [closer EXCEPT ![c] = k]
          /\ UNCHANGED <<net, accPc, accConn, listener, stopPc, wg, pc, rawConns>>
      BY <1>35, <2>1 DEF HandlerClose, Close
    <3> QED
      BY <2>1, <3>1, <3>2
  <2>2. CASE ~connected[c]
    <3>1. net' = net /\ connected' = connected /\ closer' = closer
      BY <1>35, <2>2 DEF HandlerClose, Close
    <3> QED
      BY <1>35, <3>1 DEF HandlerClose
  <2> QED
    BY <2>1, <2>2
<1>36. ASSUME NEW c \in Conns, NEW k \in Slots, HandlerReturn(c, k)
       PROVE  Sockets'
  BY <1>36 DEF HandlerReturn
<1>37. ASSUME NEW c \in Conns, NEW k \in Slots, NEW d \in Ids, SetDeviceID(c, k, d)
       PROVE  Sockets'
  BY <1>37 DEF SetDeviceID
<1>38. CASE UNCHANGED vars
  BY <1>38 DEF vars
<1>39. ASSUME NEW c \in Conns, NetClose(c)
       PROVE  Sockets'
  BY <1>39 DEF NetClose
<1> QED
  BY <1>1, <1>2, <1>3, <1>4, <1>5, <1>6, <1>7, <1>8, <1>9, <1>10, <1>11, 
     <1>12, <1>13, <1>14, <1>15, <1>16, <1>17, <1>18, <1>19, <1>20, 
     <1>21, <1>22, <1>23, <1>24, <1>25, <1>26, <1>27, <1>28, <1>29, 
     <1>30, <1>31, <1>32, <1>33, <1>34, <1>35, <1>36, <1>37, <1>38, <1>39
     DEF Next, AcceptNext, StopNext, HandleNext, HandlerNext, Stopped

-----------------------------------------------------------------------------
LEMMA InitAccounting == Init => Accounting
<1> SUFFICES ASSUME Init
             PROVE  Accounting
  OBVIOUS
<1>1. Counted = {} /\ Running = {}
  BY DEF Init, Counted, Running
<1> QED
  BY <1>1, FS_EmptySet DEF Init, Accounting

(* Every step that changes who is counted or who runs changes the counter   *)
(* by as much.                                                              *)
LEMMA StepAccounting ==
    StateTypes /\ Accounting /\ Sockets /\ [Next]_vars => Accounting'
<1> SUFFICES ASSUME StateTypes, Accounting, Sockets, [Next]_vars
             PROVE  Accounting'
  OBVIOUS
<1> USE DEF Accounting, StateTypes, HandlePcs,
            acceptVars, stopVars, handleVars, socketVars, mapVars,
            statVars, handlerVars, sendVars, serverVars, dataVars, callVars
<1>1. CASE Start
  <2>1. Counted' = Counted /\ Running' = Running
    BY <1>1 DEF Start, Counted, Running
  <2>2. Cardinality(Running) \in Nat
    BY CountedSets
  <2> QED
    BY <1>1, <2>1, <2>2 DEF Start
<1>2. CASE AcceptSelect
  <2>1. Counted' = Counted /\ Running' = Running
    BY <1>2 DEF AcceptSelect, AcceptReturns, Counted, Running
  <2>2. Cardinality(Running) \in Nat
    BY CountedSets
  <2>3. wg = Cardinality(Running) + 1 /\ active' = active
    BY <1>2 DEF AcceptSelect
  <2>4. CASE ctxDone
    <3>1. wg' = wg - 1 /\ accPc' = "done"
      BY <1>2, <2>4 DEF AcceptSelect, AcceptReturns
    <3> QED
      BY <2>1, <2>2, <2>3, <3>1
  <2>5. CASE ~ctxDone
    <3>1. wg' = wg /\ accPc' \in {"accept", "select"}
      BY <1>2, <2>5 DEF AcceptSelect
    <3> QED
      BY <2>1, <2>2, <2>3, <3>1
  <2> QED
    BY <2>4, <2>5
<1>3. CASE AcceptError
  <2>1. Counted' = Counted /\ Running' = Running
    BY <1>3 DEF AcceptError, AcceptReturns, Counted, Running
  <2>2. Cardinality(Running) \in Nat
    BY CountedSets
  <2>3. wg = Cardinality(Running) + 1 /\ active' = active
    BY <1>3 DEF AcceptError
  <2>4. CASE ctxDone
    <3>1. wg' = wg - 1 /\ accPc' = "done"
      BY <1>3, <2>4 DEF AcceptError, AcceptReturns
    <3> QED
      BY <2>1, <2>2, <2>3, <3>1
  <2>5. CASE ~ctxDone
    <3>1. wg' = wg /\ accPc' \in {"accept", "select"}
      BY <1>3, <2>5 DEF AcceptError
    <3> QED
      BY <2>1, <2>2, <2>3, <3>1
  <2> QED
    BY <2>4, <2>5
<1>4. CASE AcceptCheck
  <2>1. CASE LimitReached
    <3>1. Counted' = Counted /\ Running' = Running
      BY <1>4, <2>1 DEF AcceptCheck, Counted, Running
    <3> QED
      BY <1>4, <2>1, <3>1 DEF AcceptCheck
  <2>2. CASE ~LimitReached
    <3>1. accConn \in Conns /\ accConn \notin Running
      BY <1>4 DEF AcceptCheck, Sockets, Running
    <3>2. Counted' = Counted /\ Running' = Running \cup {accConn}
      BY <1>4, <2>2, <3>1 DEF AcceptCheck, Counted, Running
    <3>3. Cardinality(Running') = Cardinality(Running) + 1
      BY <3>1, <3>2, CountedSets, FS_AddElement
    <3> QED
      BY <1>4, <2>2, <3>2, <3>3, CountedSets DEF AcceptCheck
  <2> QED
    BY <2>1, <2>2
<1>5. CASE StopCancel
  <2>1. Counted' = Counted /\ Running' = Running
    BY <1>5 DEF StopCancel, Counted, Running
  <2> QED
    BY <1>5, <2>1 DEF StopCancel
<1>6. CASE StopListener
  <2>1. Counted' = Counted /\ Running' = Running
    BY <1>6 DEF StopListener, Counted, Running
  <2> QED
    BY <1>6, <2>1 DEF StopListener
<1>7. CASE StopRawEnd
  <2>1. Counted' = Counted /\ Running' = Running
    BY <1>7 DEF StopRawEnd, Counted, Running
  <2> QED
    BY <1>7, <2>1 DEF StopRawEnd
<1>8. CASE StopRegisteredEnd
  <2>1. Counted' = Counted /\ Running' = Running
    BY <1>8 DEF StopRegisteredEnd, Counted, Running
  <2> QED
    BY <1>8, <2>1 DEF StopRegisteredEnd
<1>9. CASE StopReturn
  <2>1. Counted' = Counted /\ Running' = Running
    BY <1>9 DEF StopReturn, Counted, Running
  <2> QED
    BY <1>9, <2>1 DEF StopReturn
<1>10. ASSUME NEW d \in Devices, StopRegistered(d)
       PROVE  Accounting'
  <2>1. Counted' = Counted /\ Running' = Running
    BY <1>10 DEF StopRegistered, Close, Counted, Running
  <2> QED
    BY <1>10, <2>1 DEF StopRegistered, Close
<1>11. ASSUME NEW c \in Conns, AcceptConn(c)
       PROVE  Accounting'
  <2>1. Counted' = Counted /\ Running' = Running
    BY <1>11 DEF AcceptConn, Counted, Running
  <2> QED
    BY <1>11, <2>1 DEF AcceptConn
<1>12. ASSUME NEW c \in Conns, StopRaw(c)
       PROVE  Accounting'
  <2>1. Counted' = Counted /\ Running' = Running
    BY <1>12 DEF StopRaw, Counted, Running
  <2> QED
    BY <1>12, <2>1 DEF StopRaw
<1>13. ASSUME NEW c \in Conns, Dial(c)
       PROVE  Accounting'
  <2>1. Counted' = Counted /\ Running' = Running
    BY <1>13 DEF Dial, Counted, Running
  <2> QED
    BY <1>13, <2>1 DEF Dial
<1>14. ASSUME NEW c \in Conns, Track(c)
       PROVE  Accounting'
  <2>1. Counted' = Counted /\ Running' = Running
    BY <1>14 DEF Track, Counted, Running
  <2> QED
    BY <1>14, <2>1 DEF Track
<1>15. ASSUME NEW c \in Conns, Count(c)
       PROVE  Accounting'
  <2>1. c \notin Counted /\ Counted' = Counted \cup {c} /\ Running' = Running
    BY <1>15 DEF Count, Counted, Running
  <2>2. Cardinality(Counted') = Cardinality(Counted) + 1
    BY <2>1, CountedSets, FS_AddElement
  <2> QED
    BY <1>15, <2>1, <2>2 DEF Count
<1>16. ASSUME NEW c \in Conns, OnConnectOk(c)
       PROVE  Accounting'
  <2>1. Counted' = Counted /\ Running' = Running
    BY <1>16 DEF OnConnectOk, Counted, Running
  <2> QED
    BY <1>16, <2>1 DEF OnConnectOk
<1>17. ASSUME NEW c \in Conns, OnConnectErr(c)
       PROVE  Accounting'
  <2>1. Counted' = Counted /\ Running' = Running
    BY <1>17 DEF OnConnectErr, Close, Counted, Running
  <2> QED
    BY <1>17, <2>1 DEF OnConnectErr, Close
<1>18. ASSUME NEW c \in Conns, Loop(c)
       PROVE  Accounting'
  <2>1. Counted' = Counted /\ Running' = Running
    BY <1>18 DEF Loop, Counted, Running
  <2> QED
    BY <1>18, <2>1 DEF Loop
<1>19. ASSUME NEW c \in Conns, ReadMessage(c)
       PROVE  Accounting'
  <2>1. Counted' = Counted /\ Running' = Running
    BY <1>19 DEF ReadMessage, Counted, Running
  <2> QED
    BY <1>19, <2>1 DEF ReadMessage
<1>20. ASSUME NEW c \in Conns, ReadError(c)
       PROVE  Accounting'
  <2>1. Counted' = Counted /\ Running' = Running
    BY <1>20 DEF ReadError, Counted, Running
  <2> QED
    BY <1>20, <2>1 DEF ReadError
<1>21. ASSUME NEW c \in Conns, HandlerDone(c)
       PROVE  Accounting'
  <2>1. Counted' = Counted /\ Running' = Running
    BY <1>21 DEF HandlerDone, Counted, Running
  <2> QED
    BY <1>21, <2>1 DEF HandlerDone
<1>22. ASSUME NEW c \in Conns, OnDisconnect(c)
       PROVE  Accounting'
  <2>1. Counted' = Counted /\ Running' = Running
    BY <1>22 DEF OnDisconnect, Counted, Running
  <2> QED
    BY <1>22, <2>1 DEF OnDisconnect
<1>23. ASSUME NEW c \in Conns, Unregister(c)
       PROVE  Accounting'
  <2>1. Counted' = Counted /\ Running' = Running
    BY <1>23 DEF Unregister, CompareAndDelete, Counted, Running
  <2> QED
    BY <1>23, <2>1 DEF Unregister, CompareAndDelete
<1>24. ASSUME NEW c \in Conns, CloseConn(c)
       PROVE  Accounting'
  <2>1. Counted' = Counted /\ Running' = Running
    BY <1>24 DEF CloseConn, Close, Counted, Running
  <2> QED
    BY <1>24, <2>1 DEF CloseConn, Close
<1>25. ASSUME NEW c \in Conns, Uncount(c)
       PROVE  Accounting'
  <2>1. c \in Counted /\ Counted' = Counted \ {c} /\ Running' = Running
    BY <1>25 DEF Uncount, Counted, Running
  <2>2. Cardinality(Counted') = Cardinality(Counted) - 1
    BY <2>1, CountedSets, FS_RemoveElement
  <2> QED
    BY <1>25, <2>1, <2>2 DEF Uncount
<1>26. ASSUME NEW c \in Conns, Exit(c)
       PROVE  Accounting'
  <2>1. c \in Running /\ Counted' = Counted /\ Running' = Running \ {c}
    BY <1>26 DEF Exit, Counted, Running
  <2>2. Cardinality(Running') = Cardinality(Running) - 1
    BY <2>1, CountedSets, FS_RemoveElement
  <2> QED
    BY <1>26, <2>1, <2>2, CountedSets DEF Exit
<1>27. ASSUME NEW c \in Conns, WriteReturns(c)
       PROVE  Accounting'
  <2>1. Counted' = Counted /\ Running' = Running
    BY <1>27 DEF WriteReturns, Counted, Running
  <2> QED
    BY <1>27, <2>1 DEF WriteReturns
<1>28. ASSUME NEW c \in Conns, AppSend(c)
       PROVE  Accounting'
  <2>1. Counted' = Counted /\ Running' = Running
    BY <1>28 DEF AppSend, Counted, Running
  <2> QED
    BY <1>28, <2>1 DEF AppSend
<1>29. ASSUME NEW c \in Conns, AppWrite(c)
       PROVE  Accounting'
  <2>1. Counted' = Counted /\ Running' = Running
    BY <1>29 DEF AppWrite, Counted, Running
  <2> QED
    BY <1>29, <2>1 DEF AppWrite
<1>30. ASSUME NEW c \in Conns, AppClose(c)
       PROVE  Accounting'
  <2>1. Counted' = Counted /\ Running' = Running
    BY <1>30 DEF AppClose, Close, Counted, Running
  <2> QED
    BY <1>30, <2>1 DEF AppClose, Close
<1>31. ASSUME NEW c \in Conns, NEW k \in Slots, DropOld(c, k)
       PROVE  Accounting'
  <2>1. Counted' = Counted /\ Running' = Running
    BY <1>31 DEF DropOld, CompareAndDelete, Counted, Running
  <2> QED
    BY <1>31, <2>1 DEF DropOld, CompareAndDelete
<1>32. ASSUME NEW c \in Conns, NEW k \in Slots, StoreNew(c, k)
       PROVE  Accounting'
  <2>1. Counted' = Counted /\ Running' = Running
    BY <1>32 DEF StoreNew, Counted, Running
  <2> QED
    BY <1>32, <2>1 DEF StoreNew
<1>33. ASSUME NEW c \in Conns, NEW k \in Slots, HandlerSend(c, k)
       PROVE  Accounting'
  <2>1. Counted' = Counted /\ Running' = Running
    BY <1>33 DEF HandlerSend, Counted, Running
  <2> QED
    BY <1>33, <2>1 DEF HandlerSend
<1>34. ASSUME NEW c \in Conns, NEW k \in Slots, HandlerWrite(c, k)
       PROVE  Accounting'
  <2>1. Counted' = Counted /\ Running' = Running
    BY <1>34 DEF HandlerWrite, Counted, Running
  <2> QED
    BY <1>34, <2>1 DEF HandlerWrite
<1>35. ASSUME NEW c \in Conns, NEW k \in Slots, HandlerClose(c, k)
       PROVE  Accounting'
  <2>1. Counted' = Counted /\ Running' = Running
    BY <1>35 DEF HandlerClose, Close, Counted, Running
  <2> QED
    BY <1>35, <2>1 DEF HandlerClose, Close
<1>36. ASSUME NEW c \in Conns, NEW k \in Slots, HandlerReturn(c, k)
       PROVE  Accounting'
  <2>1. Counted' = Counted /\ Running' = Running
    BY <1>36 DEF HandlerReturn, Counted, Running
  <2> QED
    BY <1>36, <2>1 DEF HandlerReturn
<1>37. ASSUME NEW c \in Conns, NEW k \in Slots, NEW d \in Ids, SetDeviceID(c, k, d)
       PROVE  Accounting'
  <2>1. Counted' = Counted /\ Running' = Running
    BY <1>37 DEF SetDeviceID, Counted, Running
  <2> QED
    BY <1>37, <2>1 DEF SetDeviceID
<1>38. CASE UNCHANGED vars
  <2>1. Counted' = Counted /\ Running' = Running
    BY <1>38 DEF vars, Counted, Running
  <2> QED
    BY <1>38, <2>1 DEF vars
<1>39. ASSUME NEW c \in Conns, NetClose(c)
       PROVE  Accounting'
  <2>1. Counted' = Counted /\ Running' = Running
    BY <1>39 DEF NetClose, Counted, Running
  <2> QED
    BY <1>39, <2>1 DEF NetClose
<1> QED
  BY <1>1, <1>2, <1>3, <1>4, <1>5, <1>6, <1>7, <1>8, <1>9, <1>10, <1>11, 
     <1>12, <1>13, <1>14, <1>15, <1>16, <1>17, <1>18, <1>19, <1>20, 
     <1>21, <1>22, <1>23, <1>24, <1>25, <1>26, <1>27, <1>28, <1>29, 
     <1>30, <1>31, <1>32, <1>33, <1>34, <1>35, <1>36, <1>37, <1>38, <1>39
     DEF Next, AcceptNext, StopNext, HandleNext, HandlerNext, Stopped

-----------------------------------------------------------------------------
(* The inductive invariant: neither part is inductive alone. Accounting     *)
(* needs that the socket accept holds has no goroutine yet; Sockets needs   *)
(* that a zero WaitGroup leaves nobody who could still act.                 *)
Inv == StateTypes /\ Accounting /\ Sockets

LEMMA Invariance == Spec => []Inv
<1>1. Init => Inv
  BY InitTypes, InitAccounting, InitSockets DEF Inv
<1>2. Inv /\ [Next]_vars => Inv'
  BY StepTypes, StepAccounting, StepSockets DEF Inv
<1> QED
  BY <1>1, <1>2, PTL DEF Spec

(* Type correctness: in particular no path through accept, handleConn and   *)
(* Stop decrements ActiveConnections or the WaitGroup below zero.           *)
THEOREM TypeCorrectness == Spec => []TypeOK
<1>1. Inv => TypeOK
  BY CountedSets DEF Inv, TypeOK, Accounting
<1> QED
  BY <1>1, Invariance, PTL

(* ActiveConnections and the WaitGroup agree with the goroutines.           *)
THEOREM AccountingHolds == Spec => []Accounting
<1>1. Inv => Accounting
  BY DEF Inv
<1> QED
  BY <1>1, Invariance, PTL

(* Every accepted socket has somebody who will close it, and handleConn     *)
(* ends only after its socket is closed or in the hands of another Close.   *)
THEOREM SocketsHold == Spec => []Sockets
<1>1. Inv => Sockets
  BY DEF Inv
<1> QED
  BY <1>1, Invariance, PTL

(* Stop returns only when every goroutine it waits for is gone and every    *)
(* accepted socket is closed, or in the hands of a Close of somebody else.  *)
THEOREM StopCompleteHolds == Spec => []StopComplete
<1>1. Inv => StopComplete
  <2> SUFFICES ASSUME Inv, stopPc = "returned"
               PROVE  StopComplete
    BY DEF StopComplete
  <2>1. Running = {} /\ accPc \in {"off", "done"}
    BY CountedSets DEF Inv, Sockets
  <2>2. \A c \in Conns : pc[c] \in {"none", "gone"}
    BY <2>1 DEF Running
  <2>3. Counted = {} /\ active = 0
    BY <2>2, FS_EmptySet DEF Inv, Accounting, Counted
  <2>4. rawConns = {}
    BY <2>2 DEF Inv, Sockets, StateTypes
  <2>5. accConn = NoConn
    BY <2>1 DEF Inv, Sockets
  <2>6. ASSUME NEW c \in Conns
        PROVE  \/ net[c] \in {"absent", "closed"}
               \/ closer[c] \in Slots \cup {"app"}
    <3>1. CASE pc[c] = "none"
      BY <2>5, <3>1, ConnsAssumption DEF Inv, Sockets, StateTypes
    <3>2. CASE pc[c] = "gone"
      <4>1. ~connected[c]
        BY <2>3, <3>2 DEF Inv, Sockets
      <4>2. closer[c] \notin {"conn", "stop"}
        BY <3>2 DEF Inv, Sockets
      <4>3. net[c] = "closed" \/ closer[c] # "none"
        BY <3>2, <4>1 DEF Inv, Sockets
      <4>4. closer[c] \in Slots \cup {"app", "conn", "stop", "none"}
        BY DEF Inv, StateTypes
      <4> QED
        BY <4>2, <4>3, <4>4
    <3> QED
      BY <2>2, <3>1, <3>2
  <2> QED
    BY <2>1, <2>2, <2>3, <2>4, <2>6 DEF StopComplete
<1> QED
  BY <1>1, Invariance, PTL

-----------------------------------------------------------------------------
(* Without the Timeout middleware a handler never outlives its call.        *)
LEMMA InitInline == Init => HandlersInline
  BY SlotsAssumption DEF Init, HandlersInline

LEMMA StepInline ==
    ASSUME ~Detach, StateTypes, Sockets, HandlersInline, [Next]_vars
    PROVE  HandlersInline'
<1> USE SlotsAssumption DEF StateTypes, HandlePcs, HandlerPcs, HandlersInline,
            acceptVars, stopVars, handleVars, socketVars, mapVars,
            statVars, handlerVars, sendVars, serverVars, dataVars, callVars
<1>1. CASE Start
  BY <1>1 DEF Start
<1>2. CASE AcceptSelect
  BY <1>2 DEF AcceptSelect, AcceptReturns
<1>3. CASE AcceptError
  BY <1>3 DEF AcceptError, AcceptReturns
<1>4. CASE AcceptCheck
  <2>1. CASE LimitReached
    BY <1>4, <2>1 DEF AcceptCheck
  <2>2. CASE ~LimitReached
    <3>1. accConn \in Conns /\ pc[accConn] = "none"
      BY <1>4 DEF AcceptCheck, Sockets
    <3> QED
      BY <1>4, <2>2, <3>1 DEF AcceptCheck
  <2> QED
    BY <2>1, <2>2
<1>5. CASE StopCancel
  BY <1>5 DEF StopCancel
<1>6. CASE StopListener
  BY <1>6 DEF StopListener
<1>7. CASE StopRawEnd
  BY <1>7 DEF StopRawEnd
<1>8. CASE StopRegisteredEnd
  BY <1>8 DEF StopRegisteredEnd
<1>9. CASE StopReturn
  BY <1>9 DEF StopReturn
<1>10. ASSUME NEW d \in Devices, StopRegistered(d)
       PROVE  HandlersInline'
  BY <1>10 DEF StopRegistered, Close
<1>11. ASSUME NEW c \in Conns, AcceptConn(c)
       PROVE  HandlersInline'
  BY <1>11 DEF AcceptConn
<1>12. ASSUME NEW c \in Conns, StopRaw(c)
       PROVE  HandlersInline'
  BY <1>12 DEF StopRaw
<1>13. ASSUME NEW c \in Conns, Dial(c)
       PROVE  HandlersInline'
  BY <1>13 DEF Dial
<1>14. ASSUME NEW c \in Conns, Track(c)
       PROVE  HandlersInline'
  BY <1>14 DEF Track
<1>15. ASSUME NEW c \in Conns, Count(c)
       PROVE  HandlersInline'
  BY <1>15 DEF Count
<1>16. ASSUME NEW c \in Conns, OnConnectOk(c)
       PROVE  HandlersInline'
  BY <1>16 DEF OnConnectOk
<1>17. ASSUME NEW c \in Conns, OnConnectErr(c)
       PROVE  HandlersInline'
  BY <1>17 DEF OnConnectErr, Close
<1>18. ASSUME NEW c \in Conns, Loop(c)
       PROVE  HandlersInline'
  BY <1>18 DEF Loop
<1>19. ASSUME NEW c \in Conns, ReadMessage(c)
       PROVE  HandlersInline'
  BY <1>19 DEF ReadMessage
<1>20. ASSUME NEW c \in Conns, ReadError(c)
       PROVE  HandlersInline'
  BY <1>20 DEF ReadError
<1>21. ASSUME NEW c \in Conns, HandlerDone(c)
       PROVE  HandlersInline'
  BY <1>21 DEF HandlerDone
<1>22. ASSUME NEW c \in Conns, OnDisconnect(c)
       PROVE  HandlersInline'
  BY <1>22 DEF OnDisconnect
<1>23. ASSUME NEW c \in Conns, Unregister(c)
       PROVE  HandlersInline'
  BY <1>23 DEF Unregister, CompareAndDelete
<1>24. ASSUME NEW c \in Conns, CloseConn(c)
       PROVE  HandlersInline'
  BY <1>24 DEF CloseConn, Close
<1>25. ASSUME NEW c \in Conns, Uncount(c)
       PROVE  HandlersInline'
  BY <1>25 DEF Uncount
<1>26. ASSUME NEW c \in Conns, Exit(c)
       PROVE  HandlersInline'
  BY <1>26 DEF Exit
<1>27. ASSUME NEW c \in Conns, WriteReturns(c)
       PROVE  HandlersInline'
  BY <1>27 DEF WriteReturns
<1>28. ASSUME NEW c \in Conns, AppSend(c)
       PROVE  HandlersInline'
  BY <1>28 DEF AppSend
<1>29. ASSUME NEW c \in Conns, AppWrite(c)
       PROVE  HandlersInline'
  BY <1>29 DEF AppWrite
<1>30. ASSUME NEW c \in Conns, AppClose(c)
       PROVE  HandlersInline'
  BY <1>30 DEF AppClose, Close
<1>31. ASSUME NEW c \in Conns, NEW k \in Slots, DropOld(c, k)
       PROVE  HandlersInline'
  BY <1>31 DEF DropOld, CompareAndDelete
<1>32. ASSUME NEW c \in Conns, NEW k \in Slots, StoreNew(c, k)
       PROVE  HandlersInline'
  BY <1>32 DEF StoreNew
<1>33. ASSUME NEW c \in Conns, NEW k \in Slots, HandlerSend(c, k)
       PROVE  HandlersInline'
  BY <1>33 DEF HandlerSend
<1>34. ASSUME NEW c \in Conns, NEW k \in Slots, HandlerWrite(c, k)
       PROVE  HandlersInline'
  BY <1>34 DEF HandlerWrite
<1>35. ASSUME NEW c \in Conns, NEW k \in Slots, HandlerClose(c, k)
       PROVE  HandlersInline'
  BY <1>35 DEF HandlerClose, Close
<1>36. ASSUME NEW c \in Conns, NEW k \in Slots, HandlerReturn(c, k)
       PROVE  HandlersInline'
  BY <1>36 DEF HandlerReturn
<1>37. ASSUME NEW c \in Conns, NEW k \in Slots, NEW d \in Ids, SetDeviceID(c, k, d)
       PROVE  HandlersInline'
  BY <1>37 DEF SetDeviceID
<1>38. CASE UNCHANGED vars
  BY <1>38 DEF vars
<1>39. ASSUME NEW c \in Conns, NetClose(c)
       PROVE  HandlersInline'
  BY <1>39 DEF NetClose
<1> QED
  BY <1>1, <1>2, <1>3, <1>4, <1>5, <1>6, <1>7, <1>8, <1>9, <1>10, <1>11, 
     <1>12, <1>13, <1>14, <1>15, <1>16, <1>17, <1>18, <1>19, <1>20, 
     <1>21, <1>22, <1>23, <1>24, <1>25, <1>26, <1>27, <1>28, <1>29, 
     <1>30, <1>31, <1>32, <1>33, <1>34, <1>35, <1>36, <1>37, <1>38, <1>39
     DEF Next, AcceptNext, StopNext, HandleNext, HandlerNext, Stopped

Registry == NoStaleEntry /\ RegisteredUnderOwnId

LEMMA InitRegistry == Init => Registry
  BY DEF Init, Registry, NoStaleEntry, RegisteredUnderOwnId

LEMMA StepRegistry ==
    ASSUME ~Detach, StateTypes, Sockets, HandlersInline, Registry,
           [Next]_vars
    PROVE  Registry'
<1> USE SlotsAssumption, ConnsAssumption DEF StateTypes, HandlePcs, HandlersInline, Registry,
            NoStaleEntry, RegisteredUnderOwnId, acceptVars, stopVars, handleVars, socketVars, mapVars,
            statVars, handlerVars, sendVars, serverVars, dataVars, callVars
<1>1. CASE Start
  BY <1>1 DEF Start
<1>2. CASE AcceptSelect
  BY <1>2 DEF AcceptSelect, AcceptReturns
<1>3. CASE AcceptError
  BY <1>3 DEF AcceptError, AcceptReturns
<1>4. CASE AcceptCheck
  <2>1. CASE LimitReached
    BY <1>4, <2>1 DEF AcceptCheck
  <2>2. CASE ~LimitReached
    <3>1. accConn \in Conns /\ pc[accConn] = "none"
      BY <1>4 DEF AcceptCheck, Sockets
    <3>2. ASSUME NEW d \in Devices, connections[d] = accConn
          PROVE  FALSE
      <4>1. connections[d] # NoConn
        BY <3>1, <3>2, ConnsAssumption
      <4>2. pc[connections[d]] # "none"
        BY <4>1 DEF NoStaleEntry
      <4> QED
        BY <3>1, <3>2, <4>2
    <3>3. /\ pc' = [pc EXCEPT ![accConn] = "track"]
          /\ UNCHANGED <<connections, deviceID, hpc, hold>>
      BY <1>4, <2>2 DEF AcceptCheck
    <3>4. \A d \in Devices : connections[d] # NoConn =>
            pc'[connections[d]] = pc[connections[d]]
      BY <3>2, <3>3
    <3>5. NoStaleEntry'
      BY <3>3, <3>4
    <3>6. RegisteredUnderOwnId'
      BY <3>3
    <3> QED
      BY <3>5, <3>6
  <2> QED
    BY <2>1, <2>2
<1>5. CASE StopCancel
  BY <1>5 DEF StopCancel
<1>6. CASE StopListener
  BY <1>6 DEF StopListener
<1>7. CASE StopRawEnd
  BY <1>7 DEF StopRawEnd
<1>8. CASE StopRegisteredEnd
  BY <1>8 DEF StopRegisteredEnd
<1>9. CASE StopReturn
  BY <1>9 DEF StopReturn
<1>10. ASSUME NEW d \in Devices, StopRegistered(d)
       PROVE  Registry'
  BY <1>10 DEF StopRegistered, Close
<1>11. ASSUME NEW c \in Conns, AcceptConn(c)
       PROVE  Registry'
  BY <1>11 DEF AcceptConn
<1>12. ASSUME NEW c \in Conns, StopRaw(c)
       PROVE  Registry'
  BY <1>12 DEF StopRaw
<1>13. ASSUME NEW c \in Conns, Dial(c)
       PROVE  Registry'
  BY <1>13 DEF Dial
<1>14. ASSUME NEW c \in Conns, Track(c)
       PROVE  Registry'
  BY <1>14 DEF Track
<1>15. ASSUME NEW c \in Conns, Count(c)
       PROVE  Registry'
  BY <1>15 DEF Count
<1>16. ASSUME NEW c \in Conns, OnConnectOk(c)
       PROVE  Registry'
  BY <1>16 DEF OnConnectOk
<1>17. ASSUME NEW c \in Conns, OnConnectErr(c)
       PROVE  Registry'
  BY <1>17 DEF OnConnectErr, Close
<1>18. ASSUME NEW c \in Conns, Loop(c)
       PROVE  Registry'
  BY <1>18 DEF Loop
<1>19. ASSUME NEW c \in Conns, ReadMessage(c)
       PROVE  Registry'
  BY <1>19 DEF ReadMessage
<1>20. ASSUME NEW c \in Conns, ReadError(c)
       PROVE  Registry'
  BY <1>20 DEF ReadError
<1>21. ASSUME NEW c \in Conns, HandlerDone(c)
       PROVE  Registry'
  BY <1>21 DEF HandlerDone
<1>22. ASSUME NEW c \in Conns, OnDisconnect(c)
       PROVE  Registry'
  BY <1>22 DEF OnDisconnect
<1>23. ASSUME NEW c \in Conns, Unregister(c)
       PROVE  Registry'
  BY <1>23 DEF Unregister, CompareAndDelete
<1>24. ASSUME NEW c \in Conns, CloseConn(c)
       PROVE  Registry'
  BY <1>24 DEF CloseConn, Close
<1>25. ASSUME NEW c \in Conns, Uncount(c)
       PROVE  Registry'
  BY <1>25 DEF Uncount
<1>26. ASSUME NEW c \in Conns, Exit(c)
       PROVE  Registry'
  BY <1>26 DEF Exit
<1>27. ASSUME NEW c \in Conns, WriteReturns(c)
       PROVE  Registry'
  BY <1>27 DEF WriteReturns
<1>28. ASSUME NEW c \in Conns, AppSend(c)
       PROVE  Registry'
  BY <1>28 DEF AppSend
<1>29. ASSUME NEW c \in Conns, AppWrite(c)
       PROVE  Registry'
  BY <1>29 DEF AppWrite
<1>30. ASSUME NEW c \in Conns, AppClose(c)
       PROVE  Registry'
  BY <1>30 DEF AppClose, Close
<1>31. ASSUME NEW c \in Conns, NEW k \in Slots, DropOld(c, k)
       PROVE  Registry'
  <2> DEFINE old == hold[c][k]
  <2>1. hnew[c][k] = deviceID[c] /\ pc[c] = "handle" /\ cur[c] = k
    BY <1>31 DEF DropOld
  <2>2. \A d \in Devices : connections'[d] # NoConn => connections'[d] = connections[d]
    BY <1>31 DEF DropOld, CompareAndDelete
  <2>3. pc' = pc /\ deviceID' = deviceID
    BY <1>31 DEF DropOld
  <2>4. NoStaleEntry'
    BY <2>2, <2>3
  <2>5. ASSUME NEW d \in Devices, connections'[d] # NoConn
        PROVE  \/ deviceID'[connections'[d]] = d
               \/ \E m \in Slots : /\ hpc'[connections'[d]][m] = "drop"
                                  /\ hold'[connections'[d]][m] = d
    <3>1. CASE connections[d] = c
      <4>1. deviceID[c] = d \/ old = d
        <5>1. c # NoConn
          BY ConnsAssumption
        <5>2. \/ deviceID[c] = d
              \/ \E m \in Slots : hpc[c][m] = "drop" /\ hold[c][m] = d
          BY <3>1, <5>1 DEF RegisteredUnderOwnId
        <5>3. ASSUME NEW m \in Slots, hpc[c][m] = "drop"
              PROVE  m = k
          BY <2>1, <5>3 DEF HandlersInline
        <5> QED
          BY <5>2, <5>3
      <4>2. old = d /\ old # hnew[c][k] => connections'[d] = NoConn
        BY <1>31, <3>1 DEF DropOld, CompareAndDelete
      <4> QED
        BY <2>1, <2>2, <2>3, <2>5, <3>1, <4>1, <4>2
    <3>2. CASE connections[d] # c
      <4>1. /\ hpc'[connections[d]] = hpc[connections[d]]
            /\ hold'[connections[d]] = hold[connections[d]]
        BY <1>31, <3>2 DEF DropOld
      <4>2. \/ deviceID[connections[d]] = d
            \/ \E m \in Slots : /\ hpc[connections[d]][m] = "drop"
                               /\ hold[connections[d]][m] = d
        BY <2>2, <2>5 DEF RegisteredUnderOwnId
      <4>3. connections'[d] = connections[d]
        BY <2>2, <2>5
      <4> HIDE DEF StateTypes, HandlersInline, Registry
      <4> QED
        BY <2>3, <4>1, <4>2, <4>3
    <3> QED
      BY <3>1, <3>2
  <2> QED
    BY <2>4, <2>5
<1>32. ASSUME NEW c \in Conns, NEW k \in Slots, StoreNew(c, k)
       PROVE  Registry'
  BY <1>32 DEF StoreNew
<1>33. ASSUME NEW c \in Conns, NEW k \in Slots, HandlerSend(c, k)
       PROVE  Registry'
  BY <1>33 DEF HandlerSend
<1>34. ASSUME NEW c \in Conns, NEW k \in Slots, HandlerWrite(c, k)
       PROVE  Registry'
  BY <1>34 DEF HandlerWrite
<1>35. ASSUME NEW c \in Conns, NEW k \in Slots, HandlerClose(c, k)
       PROVE  Registry'
  BY <1>35 DEF HandlerClose, Close
<1>36. ASSUME NEW c \in Conns, NEW k \in Slots, HandlerReturn(c, k)
       PROVE  Registry'
  BY <1>36 DEF HandlerReturn
<1>37. ASSUME NEW c \in Conns, NEW k \in Slots, NEW d \in Ids, SetDeviceID(c, k, d)
       PROVE  Registry'
  BY <1>37 DEF SetDeviceID
<1>38. CASE UNCHANGED vars
  BY <1>38 DEF vars
<1>39. ASSUME NEW c \in Conns, NetClose(c)
       PROVE  Registry'
  BY <1>39 DEF NetClose
<1> QED
  BY <1>1, <1>2, <1>3, <1>4, <1>5, <1>6, <1>7, <1>8, <1>9, <1>10, <1>11, 
     <1>12, <1>13, <1>14, <1>15, <1>16, <1>17, <1>18, <1>19, <1>20, 
     <1>21, <1>22, <1>23, <1>24, <1>25, <1>26, <1>27, <1>28, <1>29, 
     <1>30, <1>31, <1>32, <1>33, <1>34, <1>35, <1>36, <1>37, <1>38, <1>39
     DEF Next, AcceptNext, StopNext, HandleNext, HandlerNext, Stopped

-----------------------------------------------------------------------------
LEMMA RegistryInvariance ==
    ASSUME ~Detach
    PROVE  Spec => [](Inv /\ HandlersInline /\ Registry)
<1>1. Init => HandlersInline /\ Registry
  BY InitInline, InitRegistry
<1>2. Inv /\ HandlersInline /\ Registry /\ [Next]_vars
        => HandlersInline' /\ Registry'
  BY StepInline, StepRegistry DEF Inv
<1> QED
  BY <1>1, <1>2, Invariance, PTL DEF Spec

(* Without the Timeout middleware the device map never leads to a           *)
(* connection whose teardown has removed it.                                *)
THEOREM NoStaleEntryHolds == ASSUME ~Detach PROVE Spec => []NoStaleEntry
<1>1. Registry => NoStaleEntry
  BY DEF Registry
<1> QED
  BY <1>1, RegistryInvariance, PTL

(* Without the Timeout middleware a connection is found only under its own  *)
(* identifier.                                                              *)
THEOREM RegisteredUnderOwnIdHolds ==
    ASSUME ~Detach PROVE Spec => []RegisteredUnderOwnId
<1>1. Registry => RegisteredUnderOwnId
  BY DEF Registry
<1> QED
  BY <1>1, RegistryInvariance, PTL

(* Without the Timeout middleware the teardown of an old connection never   *)
(* takes the entry of the connection that replaced it.                      *)
THEOREM EntryKeptHolds == ASSUME ~Detach PROVE Spec => EntryKept
<1> DEFINE Kept == \A d \in Devices :
          LET c == connections[d]
          IN  c # NoConn /\ connections'[d] # c =>
                IF connections'[d] = NoConn
                  THEN \/ pc[c] = "unregister" /\ pc'[c] = "close"
                       \/ deviceID[c] # d
                  ELSE deviceID[connections'[d]] = d
<1>1. ASSUME StateTypes, HandlersInline, [Next]_vars
      PROVE  Kept
  <2> USE <1>1 DEF acceptVars, stopVars, handleVars, socketVars, mapVars,
            statVars, handlerVars, sendVars, serverVars, dataVars, callVars, StateTypes, HandlersInline
  <2>1. ASSUME NEW c \in Conns, Unregister(c)
        PROVE  Kept
    BY <2>1 DEF Unregister, CompareAndDelete
  <2>2. ASSUME NEW c \in Conns, NEW k \in Slots, DropOld(c, k)
        PROVE  Kept
    BY <2>2 DEF DropOld, CompareAndDelete
  <2>3. ASSUME NEW c \in Conns, NEW k \in Slots, StoreNew(c, k)
        PROVE  Kept
    <3>1. hnew[c][k] = deviceID[c]
      BY <2>3 DEF StoreNew
    <3>2. ASSUME NEW d \in Devices, connections'[d] # connections[d]
          PROVE  connections'[d] = c /\ deviceID[c] = d
      BY <2>3, <3>1, <3>2 DEF StoreNew
    <3>3. c # NoConn
      BY ConnsAssumption
    <3> QED
      BY <3>2, <3>3
  <2>4. CASE UNCHANGED connections
    BY <2>4
  <2>5. \/ UNCHANGED connections
        \/ \E c \in Conns : \/ Unregister(c)
                            \/ \E k \in Slots : DropOld(c, k) \/ StoreNew(c, k)
    BY DEF Next, AcceptNext, StopNext, HandleNext, HandlerNext, vars,
       Stopped, Start, AcceptSelect, AcceptError, AcceptCheck, AcceptConn,
       Dial, Track, Count, OnConnectOk, OnConnectErr, Loop, ReadMessage,
       ReadError, HandlerDone, OnDisconnect, CloseConn, Uncount, Exit,
       SetDeviceID, HandlerSend, HandlerWrite, HandlerClose, HandlerReturn,
       WriteReturns, AppSend, AppWrite, AppClose, NetClose, StopCancel, StopListener,
       StopRaw, StopRawEnd, StopRegistered, StopRegisteredEnd, StopReturn
  <2> QED
    BY <2>1, <2>2, <2>3, <2>4, <2>5
<1>2. (Inv /\ HandlersInline /\ Registry) /\ [Next]_vars => [Kept]_vars
  BY <1>1 DEF Inv
<1> QED
  BY <1>2, RegistryInvariance, PTL DEF Spec, EntryKept
==============================================================================
