----------------------- MODULE HighPerfConnectionProofs -----------------------
(***************************************************************************)
(* Proofs about HighPerfConnection, for any number of senders and closers  *)
(* and any capacity of writeChan.                                          *)
(***************************************************************************)
EXTENDS HighPerfConnection, SequenceTheorems, TLAPS

LEMMA InitTypes == Init => TypeOK
<1> SUFFICES ASSUME Init
             PROVE  TypeOK
  OBVIOUS
<1>1. /\ spc \in [Senders -> {"idle", "rlock", "select", "lock", "write", "part"}]
      /\ num \in [Senders -> Nat]
      /\ kpc \in [AllClosers -> {"idle", "lock", "cancel", "net"}]
  BY DEF Init
<1>2. queue \in Seq(Msgs) /\ wire \in Seq({"sync", "queue"} \X Msgs \X BOOLEAN)
  BY DEF Init
<1> QED
  BY <1>1, <1>2 DEF Init, TypeOK

LEMMA StepTypes == TypeOK /\ [Next]_vars => TypeOK'
<1> SUFFICES ASSUME TypeOK, [Next]_vars
             PROVE  TypeOK'
  OBVIOUS
<1> USE DEF TypeOK, Msgs, Msg, Writing, lockVars, closeVars, sendVars, loopVars
<1>1. ASSUME NEW s \in Senders, SendCheck(s)
      PROVE  TypeOK'
  BY <1>1 DEF SendCheck
<1>2. ASSUME NEW s \in Senders, SendRLock(s)
      PROVE  TypeOK'
  BY <1>2 DEF SendRLock
<1>3. ASSUME NEW s \in Senders, SendSelect(s)
      PROVE  TypeOK'
  <2>1. Msg(s) \in Msgs
    OBVIOUS
  <2>2. queue' \in Seq(Msgs) /\ accepted' \in SUBSET Msgs
    <3>1. \/ queue' = Append(queue, Msg(s)) /\ accepted' = accepted \cup {Msg(s)}
          \/ queue' = queue /\ accepted' = accepted
      BY <1>3 DEF SendSelect
    <3>2. queue \in Seq(Msgs) /\ accepted \in SUBSET Msgs
      OBVIOUS
    <3> HIDE DEF Msg, Msgs, TypeOK
    <3>3. Append(queue, Msg(s)) \in Seq(Msgs)
      BY <2>1, <3>2
    <3> QED
      BY <2>1, <3>1, <3>2, <3>3
  <2>3. panicked' \in BOOLEAN
    BY <1>3 DEF SendSelect
  <2>4. spc' \in [Senders -> {"idle", "rlock", "select", "lock", "write", "part"}]
    BY <1>3 DEF SendSelect
  <2>5. readers' \in SUBSET Senders
    BY <1>3 DEF SendSelect
  <2> QED
    BY <1>3, <2>2, <2>3, <2>4, <2>5 DEF SendSelect
<1>4. ASSUME NEW s \in Senders, SendLock(s)
      PROVE  TypeOK'
  BY <1>4 DEF SendLock
<1>5. ASSUME NEW s \in Senders, SendWritePart(s) \/ SendWriteOk(s)
      PROVE  TypeOK'
  <2>1. CASE SendWritePart(s)
    BY <2>1 DEF SendWritePart
  <2>2. CASE SendWriteOk(s)
    <3>1. <<"sync", Msg(s), TRUE>> \in {"sync", "queue"} \X Msgs \X BOOLEAN
      OBVIOUS
    <3>2. wire' \in Seq({"sync", "queue"} \X Msgs \X BOOLEAN)
      BY <2>2, <3>1 DEF SendWriteOk
    <3> QED
      BY <2>2, <3>2 DEF SendWriteOk
  <2> QED
    BY <1>5, <2>1, <2>2
<1>6. ASSUME NEW s \in Senders, SendWriteErr(s)
      PROVE  TypeOK'
  <2>1. <<"sync", Msg(s), FALSE>> \in {"sync", "queue"} \X Msgs \X BOOLEAN
    OBVIOUS
  <2>2. wire' \in Seq({"sync", "queue"} \X Msgs \X BOOLEAN)
    BY <1>6, <2>1 DEF SendWriteErr
  <2> QED
    BY <1>6, <2>2 DEF SendWriteErr
<1>7. ASSUME NEW k \in Closers, Close(k)
      PROVE  TypeOK'
  BY <1>7 DEF Close, CloseCAS
<1>8. ASSUME NEW k \in AllClosers, CloseChan(k)
      PROVE  TypeOK'
  BY <1>8 DEF CloseChan
<1>9. ASSUME NEW k \in AllClosers, CloseCancel(k)
      PROVE  TypeOK'
  BY <1>9 DEF CloseCancel
<1>10. ASSUME NEW k \in AllClosers, CloseNet(k)
       PROVE  TypeOK'
  BY <1>10 DEF CloseNet
<1>11. CASE LoopReceive
  BY <1>11 DEF LoopReceive
<1>12. CASE LoopReturn
  BY <1>12 DEF LoopReturn
<1>13. CASE LoopLock
  BY <1>13 DEF LoopLock
<1>14. CASE LoopWriteOk
  <2>1. <<"queue", wmsg, TRUE>> \in {"sync", "queue"} \X Msgs \X BOOLEAN
    BY <1>14 DEF LoopWriteOk
  <2>2. wire' \in Seq({"sync", "queue"} \X Msgs \X BOOLEAN)
    BY <1>14, <2>1 DEF LoopWriteOk
  <2> QED
    BY <1>14, <2>2 DEF LoopWriteOk
<1>15. CASE LoopWriteErr
  <2>1. <<"queue", wmsg, FALSE>> \in {"sync", "queue"} \X Msgs \X BOOLEAN
    BY <1>15 DEF LoopWriteErr
  <2>2. wire' \in Seq({"sync", "queue"} \X Msgs \X BOOLEAN)
    BY <1>15, <2>1 DEF LoopWriteErr
  <2> QED
    BY <1>15, <2>2 DEF LoopWriteErr
<1>16. CASE LoopFail
  BY <1>16 DEF LoopFail, CloseCAS
<1>17. CASE LoopClosed
  BY <1>17 DEF LoopClosed
<1>18. CASE LoopWritePart
  BY <1>18 DEF LoopWritePart
<1>19. CASE UNCHANGED vars
  BY <1>19 DEF vars
<1> QED
  BY <1>1, <1>2, <1>3, <1>4, <1>5, <1>6, <1>7, <1>8, <1>9, <1>10, <1>11,
     <1>12, <1>13, <1>14, <1>15, <1>16, <1>17, <1>18, <1>19
     DEF Next, SendNext, CloseNext, LoopNext, Quiet

-----------------------------------------------------------------------------
(* The invariant behind NoPanic.                                            *)
Protected == NoPanic /\ CloseProtocol

LEMMA InitProtected == Init => Protected
  BY DEF Init, Protected, NoPanic, CloseProtocol

LEMMA StepProtected == TypeOK /\ Protected /\ [Next]_vars => Protected'
<1> SUFFICES ASSUME TypeOK, Protected, [Next]_vars
             PROVE  Protected'
  OBVIOUS
<1> USE DEF TypeOK, Protected, NoPanic, CloseProtocol,
            lockVars, closeVars, sendVars, loopVars
<1>1. ASSUME NEW s \in Senders, SendCheck(s)
      PROVE  Protected'
  BY <1>1 DEF SendCheck
<1>2. ASSUME NEW s \in Senders, SendRLock(s)
      PROVE  Protected'
  BY <1>2 DEF SendRLock
<1>3. ASSUME NEW s \in Senders, SendSelect(s)
      PROVE  Protected'
  BY <1>3 DEF SendSelect
<1>4. ASSUME NEW s \in Senders,
             SendLock(s) \/ SendWritePart(s) \/ SendWriteOk(s) \/ SendWriteErr(s)
      PROVE  Protected'
  <2>1. /\ UNCHANGED <<connected, chanClosed, kpc, readers, panicked>>
        /\ spc[s] # "select"
        /\ \E x \in {"idle", "write", "part"} : spc' = [spc EXCEPT ![s] = x]
    BY <1>4 DEF SendLock, SendWritePart, SendWriteOk, SendWriteErr, Writing
  <2> QED
    BY <2>1
<1>5. ASSUME NEW k \in Closers, Close(k)
      PROVE  Protected'
  BY <1>5 DEF Close, CloseCAS, AllClosers
<1>6. ASSUME NEW k \in AllClosers, CloseChan(k)
      PROVE  Protected'
  BY <1>6 DEF CloseChan
<1>7. ASSUME NEW k \in AllClosers, CloseCancel(k)
      PROVE  Protected'
  BY <1>7 DEF CloseCancel
<1>8. ASSUME NEW k \in AllClosers, CloseNet(k)
      PROVE  Protected'
  BY <1>8 DEF CloseNet
<1>9. CASE LoopReceive \/ LoopReturn \/ LoopLock \/ LoopWritePart \/ LoopWriteOk
           \/ LoopWriteErr \/ LoopClosed
  <2>1. UNCHANGED <<connected, chanClosed, kpc, readers, panicked, spc>>
    BY <1>9 DEF LoopReceive, LoopReturn, LoopLock, LoopWritePart, LoopWriteOk,
                LoopWriteErr, LoopClosed
  <2> QED
    BY <2>1
<1>10. CASE LoopFail
  BY <1>10 DEF LoopFail, CloseCAS, AllClosers
<1>11. CASE UNCHANGED vars
  BY <1>11 DEF vars
<1> QED
  BY <1>1, <1>2, <1>3, <1>4, <1>5, <1>6, <1>7, <1>8, <1>9, <1>10, <1>11
     DEF Next, SendNext, CloseNext, LoopNext, Quiet

(* Every variable keeps its type.                                           *)
THEOREM TypeCorrectness == Spec => []TypeOK
  BY InitTypes, StepTypes, PTL DEF Spec

(* Send, Close and writeLoop never panic on writeChan, with any number of   *)
(* goroutines.                                                              *)
THEOREM NoPanicHolds == Spec => []NoPanic
<1>1. Protected => NoPanic
  BY DEF Protected
<1> QED
  BY <1>1, TypeCorrectness, InitProtected, StepProtected, PTL DEF Spec

(* At most one goroutine is inside Write, and it holds c.mu.                *)
THEOREM OneWriterHolds == Spec => []OneWriter
<1>1. Init => OneWriter
  BY ProcAssumption DEF Init, OneWriter, Writing
<1>2. TypeOK /\ OneWriter /\ [Next]_vars => OneWriter'
  <2> SUFFICES ASSUME TypeOK, OneWriter, [Next]_vars
               PROVE  OneWriter'
    OBVIOUS
  <2> USE ProcAssumption DEF TypeOK, OneWriter, Writing,
              lockVars, closeVars, sendVars, loopVars
  <2>1. ASSUME NEW s \in Senders, SendCheck(s) \/ SendRLock(s) \/ SendSelect(s)
        PROVE  OneWriter'
    BY <2>1 DEF SendCheck, SendRLock, SendSelect
  <2>2. ASSUME NEW s \in Senders, SendLock(s)
        PROVE  OneWriter'
    BY <2>2 DEF SendLock
  <2>3. ASSUME NEW s \in Senders,
               SendWritePart(s) \/ SendWriteOk(s) \/ SendWriteErr(s)
        PROVE  OneWriter'
    BY <2>3 DEF SendWritePart, SendWriteOk, SendWriteErr
  <2>4. ASSUME NEW k \in AllClosers,
               CloseChan(k) \/ CloseCancel(k) \/ CloseNet(k) \/ Close(k)
        PROVE  OneWriter'
    BY <2>4 DEF CloseChan, CloseCancel, CloseNet, Close
  <2>5. CASE LoopReceive \/ LoopReturn \/ LoopFail \/ LoopClosed
    BY <2>5 DEF LoopReceive, LoopReturn, LoopFail, LoopClosed
  <2>6. CASE LoopLock \/ LoopWritePart \/ LoopWriteOk \/ LoopWriteErr
    BY <2>6 DEF LoopLock, LoopWritePart, LoopWriteOk, LoopWriteErr
  <2>7. CASE UNCHANGED vars
    BY <2>7 DEF vars
  <2> QED
    BY <2>1, <2>2, <2>3, <2>4, <2>5, <2>6, <2>7
       DEF Next, SendNext, CloseNext, LoopNext, Quiet, AllClosers
<1> QED
  BY <1>1, <1>2, TypeCorrectness, PTL DEF Spec

-----------------------------------------------------------------------------
(* The refinement of Outbox.                                                *)

Written == [i \in DOMAIN wire |-> <<wire[i][2], wire[i][3]>>]
Wired == {wire[i][2] : i \in DOMAIN wire}
Sending(s) == spc[s] \in {"rlock", "select", "lock"} \cup Writing

(* A message that is queued or in the hands of writeLoop has been accepted  *)
(* and nothing of it is on the wire; numbers of messages that are accepted  *)
(* or on the wire lie below that of a Send under way.                       *)
Fresh ==
    /\ \A s \in Senders : num[s] <= MaxSends /\ (Sending(s) => 1 <= num[s])
    /\ \A s \in Senders, n \in Nat :
          <<s, n>> \in accepted \cup Wired => n <= num[s] /\ (Sending(s) => n # num[s])
    /\ \A i \in DOMAIN queue : queue[i] \in accepted /\ queue[i] \notin Wired
    /\ \A i, j \in DOMAIN queue : queue[i] = queue[j] => i = j
    /\ InHand \subseteq accepted
    /\ wpc \in {"lock"} \cup Writing =>
          wmsg \notin Wired /\ \A i \in DOMAIN queue : queue[i] # wmsg

LEMMA InitFresh == Init => Fresh
  BY BoundAssumption DEF Init, Fresh, Sending, InHand, Wired, Writing

(* What is appended to the wire is appended to what is written.             *)
LEMMA WrittenAppend ==
    ASSUME TypeOK, NEW p \in {"sync", "queue"}, NEW m \in Msgs, NEW b \in BOOLEAN,
           wire' = Append(wire, <<p, m, b>>)
    PROVE  /\ Written' = Append(Written, <<m, b>>)
           /\ Wired' = Wired \cup {m}
<1>1. wire \in Seq({"sync", "queue"} \X Msgs \X BOOLEAN)
  BY DEF TypeOK
<1> DEFINE x == <<p, m, b>>
           y == <<m, b>>
           Entry == Msgs \X BOOLEAN
<1>2. /\ x \in {"sync", "queue"} \X Msgs \X BOOLEAN /\ x[2] = m
      /\ y \in Entry /\ <<x[2], x[3]>> = y
  OBVIOUS
<1>a. \A i \in DOMAIN wire : <<wire[i][2], wire[i][3]>> \in Entry
  BY <1>1
<1> HIDE DEF x, y, Entry
<1>3. /\ DOMAIN wire' = 1 .. Len(wire) + 1
      /\ \A i \in 1 .. Len(wire) : wire'[i] = wire[i]
      /\ wire'[Len(wire) + 1] = x
  BY <1>1, <1>2 DEF x
<1>4. Written \in Seq(Entry) /\ Len(Written) = Len(wire)
  BY <1>1, <1>a DEF Written
<1>5. /\ Append(Written, y) \in Seq(Entry)
      /\ Len(Append(Written, y)) = Len(wire) + 1
      /\ \A i \in 1 .. Len(wire) : Append(Written, y)[i] = <<wire[i][2], wire[i][3]>>
      /\ Append(Written, y)[Len(wire) + 1] = y
  BY <1>1, <1>2, <1>4 DEF Written
<1>6. Written' \in Seq(Entry) /\ Len(Written') = Len(wire) + 1
  <2>1. \A i \in 1 .. Len(wire) + 1 : <<wire'[i][2], wire'[i][3]>> \in Entry
    <3>1. TAKE i \in 1 .. Len(wire) + 1
    <3>2. CASE i \in 1 .. Len(wire)
      BY <1>1, <1>3, <1>a, <3>2
    <3>3. CASE i = Len(wire) + 1
      BY <1>2, <1>3, <3>3
    <3> QED
      BY <1>1, <3>2, <3>3
  <2>2. Written' \in [1 .. Len(wire) + 1 -> Entry]
    BY <1>3, <2>1 DEF Written
  <2> QED
    BY <1>1, <2>2
<1>7. \A i \in 1 .. Len(wire) + 1 : Written'[i] = Append(Written, y)[i]
  BY <1>1, <1>2, <1>3, <1>5 DEF Written
<1>8. Written' = Append(Written, y)
  BY <1>1, <1>5, <1>6, <1>7, SeqEqual
<1>9. Wired' = Wired \cup {m}
  <2>1. DOMAIN wire = 1 .. Len(wire) /\ Len(wire) \in Nat
    BY <1>1
  <2>2. DOMAIN wire' = DOMAIN wire \cup {Len(wire) + 1}
    BY <1>3, <2>1
  <2>3. \A i \in DOMAIN wire : wire'[i][2] = wire[i][2]
    BY <1>3, <2>1
  <2>4. wire'[Len(wire) + 1][2] = m
    BY <1>2, <1>3
  <2> QED
    BY <2>2, <2>3, <2>4 DEF Wired
<1> QED
  BY <1>8, <1>9 DEF y

(* A wire that is left alone.                                               *)
LEMMA WiredSame == ASSUME wire' = wire PROVE Wired' = Wired
  BY DEF Wired

LEMMA StepFresh == TypeOK /\ Fresh /\ [Next]_vars => Fresh'
<1> SUFFICES ASSUME TypeOK, Fresh, [Next]_vars
             PROVE  Fresh'
  OBVIOUS
<1> USE BoundAssumption DEF lockVars, closeVars, sendVars, loopVars, Writing
<1>0. \A s \in Senders : Msg(s) \in Msgs /\ num[s] \in Nat
  BY DEF TypeOK, Msg, Msgs
<1>1. ASSUME NEW s \in Senders, SendCheck(s)
      PROVE  Fresh'
  BY <1>1, WiredSame DEF SendCheck, Fresh, Sending, InHand, TypeOK
<1>2. ASSUME NEW s \in Senders, SendRLock(s) \/ SendLock(s) \/ SendWritePart(s)
      PROVE  Fresh'
  BY <1>2, WiredSame DEF SendRLock, SendLock, SendWritePart, Fresh, Sending, InHand, TypeOK
<1>3. ASSUME NEW s \in Senders, SendSelect(s)
      PROVE  Fresh'
  <2>1. UNCHANGED <<num, wire, wpc, wmsg, Wired>>
    BY <1>3, WiredSame DEF SendSelect
  <2>2. CASE accepted' = accepted \cup {Msg(s)} /\ queue' = Append(queue, Msg(s))
               /\ spc' = [spc EXCEPT ![s] = "idle"]
    <3> DEFINE m == Msg(s)
    <3>0. m \notin accepted /\ m \notin Wired /\ m \in Msgs
      BY <1>0, <1>3 DEF SendSelect, Fresh, Sending, Msg
    <3> HIDE DEF m
    <3>1. /\ \A i \in DOMAIN queue : queue'[i] = queue[i]
          /\ DOMAIN queue' = DOMAIN queue \cup {Len(queue) + 1}
          /\ queue'[Len(queue) + 1] = m
      <4>1. queue \in Seq(Msgs)
        BY DEF TypeOK
      <4> QED
        BY <2>2, <3>0, <4>1 DEF m
    <3>2. \A i \in DOMAIN queue' : queue'[i] \in accepted' /\ queue'[i] \notin Wired'
      BY <2>1, <2>2, <3>0, <3>1 DEF Fresh, m
    <3>3. \A i, j \in DOMAIN queue' : queue'[i] = queue'[j] => i = j
      BY <3>0, <3>1 DEF Fresh
    <3>4. \A r \in Senders, n \in Nat :
             <<r, n>> \in accepted' \cup Wired' => n <= num[r] /\ (Sending(r)' => n # num[r])
      BY <1>0, <1>3, <2>1, <2>2 DEF Fresh, Sending, TypeOK, Msg, SendSelect
    <3>5. \A r \in Senders : Sending(r)' => Sending(r)
      BY <1>3, <2>2 DEF Sending, TypeOK, SendSelect
    <3>6. wpc' \in {"lock"} \cup Writing =>
            wmsg' \notin Wired' /\ \A i \in DOMAIN queue' : queue'[i] # wmsg'
      BY <2>1, <3>0, <3>1 DEF Fresh, InHand
    <3>7. InHand' \subseteq accepted'
      BY <2>1, <2>2 DEF Fresh, InHand
    <3> QED
      BY <2>1, <3>2, <3>3, <3>4, <3>5, <3>6, <3>7 DEF Fresh
  <2>3. CASE UNCHANGED <<queue, accepted>> /\ spc' = [spc EXCEPT ![s] = "lock"]
    BY <1>3, <2>1, <2>3 DEF Fresh, Sending, InHand, TypeOK, SendSelect
  <2> QED
    BY <1>3, <2>2, <2>3 DEF SendSelect
<1>4. ASSUME NEW s \in Senders, SendWriteOk(s) \/ SendWriteErr(s)
      PROVE  Fresh'
  <2>1. /\ UNCHANGED <<num, queue, wpc, wmsg>>
        /\ accepted' = accepted \cup {Msg(s)} \/ accepted' = accepted
        /\ spc[s] \in Writing /\ spc' = [spc EXCEPT ![s] = "idle"]
    BY <1>4 DEF SendWriteOk, SendWriteErr
  <2>2. Wired' = Wired \cup {Msg(s)} \/ Wired' = Wired
    BY <1>0, <1>4, WrittenAppend, WiredSame DEF SendWriteOk, SendWriteErr
  <2>3. Msg(s) \notin accepted
    BY <1>0, <2>1 DEF Fresh, Sending, Msg
  <2>4. \A r \in Senders, n \in Nat :
           <<r, n>> \in accepted' \cup Wired' => n <= num[r] /\ (Sending(r)' => n # num[r])
    BY <1>0, <2>1, <2>2 DEF Fresh, Sending, TypeOK, Msg
  <2>5. \A r \in Senders : Sending(r)' => Sending(r)
    BY <2>1 DEF Sending, TypeOK
  <2>6. InHand' = InHand
    BY <2>1 DEF InHand
  <2>7. \A i \in DOMAIN queue' : queue'[i] \in accepted' /\ queue'[i] \notin Wired'
    BY <2>1, <2>2, <2>3 DEF Fresh
  <2>8. wpc' \in {"lock"} \cup Writing =>
          wmsg' \notin Wired' /\ \A i \in DOMAIN queue' : queue'[i] # wmsg'
    BY <2>1, <2>2, <2>3 DEF Fresh, InHand
  <2> QED
    BY <2>1, <2>4, <2>5, <2>6, <2>7, <2>8 DEF Fresh
<1>5. ASSUME NEW k \in AllClosers,
             Close(k) \/ CloseChan(k) \/ CloseCancel(k) \/ CloseNet(k)
      PROVE  Fresh'
  BY <1>5, WiredSame
     DEF Close, CloseChan, CloseCancel, CloseNet, Fresh, Sending, InHand
<1>6. CASE LoopReceive
  <2>1. queue \in Seq(Msgs) /\ queue # <<>>
    BY <1>6 DEF LoopReceive, TypeOK
  <2>2. /\ wmsg' = queue[1]
        /\ \A i \in DOMAIN queue' : i + 1 \in DOMAIN queue /\ queue'[i] = queue[i + 1]
        /\ 1 \in DOMAIN queue /\ \A i \in DOMAIN queue' : i \in Nat \ {0}
    BY <1>6, <2>1 DEF LoopReceive
  <2>3. UNCHANGED <<num, accepted, spc, Wired>> /\ InHand' = {wmsg'} /\ wpc' = "lock"
    BY <1>6, WiredSame DEF LoopReceive, InHand
  <2>4. wmsg' \in accepted /\ wmsg' \notin Wired
        /\ \A i \in DOMAIN queue' : queue'[i] \in accepted /\ queue'[i] \notin Wired
    BY <2>2 DEF Fresh
  <2>5. \A i, j \in DOMAIN queue' : queue'[i] = queue'[j] => i = j
    BY <2>2 DEF Fresh
  <2>6. \A i \in DOMAIN queue' : queue'[i] # wmsg'
    BY <2>2 DEF Fresh
  <2> QED
    BY <2>3, <2>4, <2>5, <2>6 DEF Fresh, Sending
<1>7. CASE LoopWriteOk \/ LoopWriteErr
  <2>1. wmsg \in Msgs /\ wmsg \in accepted /\ wpc \in Writing
    BY <1>7 DEF LoopWriteOk, LoopWriteErr, TypeOK, Fresh, InHand
  <2>2. Wired' = Wired \cup {wmsg} \/ Wired' = Wired
    BY <1>7, <2>1, WrittenAppend, WiredSame DEF LoopWriteOk, LoopWriteErr
  <2>3. /\ UNCHANGED <<num, accepted, spc, wmsg, queue>>
        /\ InHand' \subseteq accepted /\ wpc' \in {"select", "failed"}
    BY <1>7, <2>1 DEF LoopWriteOk, LoopWriteErr, InHand
  <2>4. \A i \in DOMAIN queue : queue[i] # wmsg
    BY <2>1 DEF Fresh
  <2>5. \A r \in Senders, n \in Nat :
           <<r, n>> \in accepted' \cup Wired' => <<r, n>> \in accepted \cup Wired
    BY <2>1, <2>2, <2>3
  <2> QED
    BY <2>2, <2>3, <2>4, <2>5 DEF Fresh, Sending
<1>8. CASE LoopReturn \/ LoopLock \/ LoopWritePart \/ LoopFail \/ LoopClosed
  BY <1>8, WiredSame DEF LoopReturn, LoopLock, LoopWritePart, LoopFail, LoopClosed,
              Fresh, Sending, InHand
<1>9. CASE UNCHANGED vars
  BY <1>9, WiredSame DEF vars, Fresh, Sending, InHand
<1> QED
  BY <1>1, <1>2, <1>3, <1>4, <1>5, <1>6, <1>7, <1>8, <1>9
     DEF Next, SendNext, CloseNext, LoopNext, Quiet, AllClosers

(* A sequence and the sequence with one element before it.                  *)
LEMMA Fronted ==
    ASSUME NEW S, NEW q \in Seq(S), NEW x \in S, NEW y \in S
    PROVE  /\ <<x>> \o q # <<>>
           /\ Head(<<x>> \o q) = x
           /\ Tail(<<x>> \o q) = q
           /\ <<x>> \o Append(q, y) = Append(<<x>> \o q, y)
<1>1. <<x>> \o q \in Seq(S) /\ Len(<<x>> \o q) = 1 + Len(q)
  OBVIOUS
<1>2. /\ (<<x>> \o q)[1] = x
      /\ \A i \in 1 .. Len(q) : (<<x>> \o q)[i + 1] = q[i]
  OBVIOUS
<1>3. <<x>> \o q # <<>>
  BY <1>1
<1>4. Tail(<<x>> \o q) = q
  <2>1. Tail(<<x>> \o q) \in Seq(S) /\ Len(Tail(<<x>> \o q)) = Len(q)
    BY <1>1, <1>3
  <2>2. \A i \in 1 .. Len(q) : Tail(<<x>> \o q)[i] = q[i]
    BY <1>1, <1>2, <1>3
  <2> QED
    BY <2>1, <2>2, SeqEqual
<1>5. <<x>> \o Append(q, y) = Append(<<x>> \o q, y)
  <2>1. Append(q, y) = q \o <<y>> /\ Append(<<x>> \o q, y) = (<<x>> \o q) \o <<y>>
    BY <1>1, AppendIsConcat
  <2>2. <<x>> \in Seq(S) /\ <<y>> \in Seq(S)
    OBVIOUS
  <2> QED
    BY <2>1, <2>2, ConcatAssociative
<1> QED
  BY <1>1, <1>2, <1>3, <1>4, <1>5

(* Taking the first element and putting it back changes nothing.            *)
LEMMA Refronted ==
    ASSUME NEW S, NEW q \in Seq(S), q # <<>>
    PROVE  <<Head(q)>> \o Tail(q) = q
<1>1. /\ Head(q) \in S /\ Tail(q) \in Seq(S) /\ Len(Tail(q)) = Len(q) - 1
      /\ \A i \in 1 .. Len(Tail(q)) : Tail(q)[i] = q[i + 1]
  BY HeadTailProperties
<1>2. /\ <<Head(q)>> \o Tail(q) \in Seq(S)
      /\ Len(<<Head(q)>> \o Tail(q)) = Len(q)
  BY <1>1
<1>3. \A i \in 1 .. Len(q) : (<<Head(q)>> \o Tail(q))[i] = q[i]
  BY <1>1
<1> QED
  BY <1>2, <1>3, SeqEqual

(* Steps that leave these variables alone leave the outbox alone.          *)
LEMMA Untouched ==
    ASSUME UNCHANGED <<connected, queue, wpc, wmsg, accepted, wire>>
    PROVE  UNCHANGED Promise!vars
  BY DEF Promise!vars, InLine, InHand

(* Every step of the connection is a step of the outbox, or leaves it alone. *)
LEMMA StepOutbox ==
    TypeOK /\ Fresh /\ [Next]_vars => [Promise!Next]_(Promise!vars)
<1> SUFFICES ASSUME TypeOK, Fresh, [Next]_vars
             PROVE  Promise!Next \/ UNCHANGED Promise!vars
  OBVIOUS
<1> USE DEF lockVars, closeVars, sendVars, loopVars, Writing
<1>1. ASSUME NEW s \in Senders, spc[s] \in {"select", "lock"} \cup Writing
      PROVE  Msg(s) \in Senders \X (1 .. MaxSends) /\ Promise!Fresh(Msg(s))
  <2>1. num[s] \in 1 .. MaxSends
    BY <1>1, BoundAssumption DEF Fresh, Sending, TypeOK
  <2>2. Msg(s) \notin accepted /\ Msg(s) \notin Wired
    BY <1>1, <2>1 DEF Fresh, Sending, Msg
  <2>3. \A i \in DOMAIN Written : Written[i][1] # Msg(s)
    BY <2>2 DEF Wired, Written
  <2> QED
    BY <2>1, <2>2, <2>3 DEF Promise!Fresh, Promise!Unwritten, Msg, Written
<1>2. ASSUME NEW s \in Senders, SendSelect(s)
      PROVE  Promise!Next \/ UNCHANGED Promise!vars
  <2>1. CASE accepted' = accepted \cup {Msg(s)} /\ queue' = Append(queue, Msg(s))
    <3>1. InLine' = Append(InLine, Msg(s))
      <4>1. UNCHANGED <<wpc, wmsg>>
        BY <1>2 DEF SendSelect
      <4>2. queue \in Seq(Msgs) /\ Msg(s) \in Msgs
        BY DEF TypeOK, Msg, Msgs
      <4>3. CASE InHand = {}
        BY <2>1, <4>1, <4>2, <4>3 DEF InLine, InHand
      <4>4. CASE InHand # {}
        <5>1. wmsg \in Msgs
          BY <4>4 DEF InHand, TypeOK, Fresh
        <5>2. <<wmsg>> \o Append(queue, Msg(s)) = Append(<<wmsg>> \o queue, Msg(s))
          BY <4>2, <5>1, Fronted
        <5> QED
          BY <2>1, <4>1, <4>4, <5>2 DEF InLine, InHand
      <4> QED
        BY <4>3, <4>4
    <3>2. PICK m \in Senders \X (1 .. MaxSends) : m = Msg(s)
      BY <1>1, <1>2 DEF SendSelect
    <3>3. Promise!Accept(m)
      BY <1>1, <1>2, <2>1, <3>1, <3>2 DEF Promise!Accept, SendSelect
    <3> QED
      BY <3>3 DEF Promise!Next
  <2>2. CASE UNCHANGED <<queue, accepted>>
    BY <1>2, <2>2, Untouched DEF SendSelect
  <2> QED
    BY <1>2, <2>1, <2>2 DEF SendSelect
<1>3. ASSUME NEW s \in Senders, SendWriteOk(s)
      PROVE  Promise!Next
  <2>1. Written' = Append(Written, <<Msg(s), TRUE>>)
    BY <1>3, WrittenAppend DEF SendWriteOk, TypeOK, Msg, Msgs
  <2>2. PICK m \in Senders \X (1 .. MaxSends) : m = Msg(s)
    BY <1>1, <1>3 DEF SendWriteOk
  <2>3. Promise!Accept(m)
    BY <1>1, <1>3, <2>1, <2>2
       DEF SendWriteOk, Promise!Accept, InLine, InHand, Written
  <2> QED
    BY <2>3 DEF Promise!Next
<1>4. ASSUME NEW s \in Senders,
             SendCheck(s) \/ SendRLock(s) \/ SendLock(s) \/ SendWritePart(s)
      PROVE  UNCHANGED Promise!vars
  BY <1>4, Untouched DEF SendCheck, SendRLock, SendLock, SendWritePart
<1>a. ASSUME NEW s \in Senders, SendWriteErr(s)
      PROVE  Promise!Next \/ UNCHANGED Promise!vars
  <2>1. CASE wire' = wire
    BY <1>a, <2>1, Untouched DEF SendWriteErr
  <2>2. CASE wire' = Append(wire, <<"sync", Msg(s), FALSE>>)
    <3>1. Written' = Append(Written, <<Msg(s), FALSE>>)
      BY <2>2, WrittenAppend DEF TypeOK, Msg, Msgs
    <3>2. PICK m \in Senders \X (1 .. MaxSends) : m = Msg(s)
      BY <1>1, <1>a DEF SendWriteErr
    <3>3. Promise!Tear(m)
      BY <1>1, <1>a, <3>1, <3>2
         DEF SendWriteErr, Promise!Tear, InLine, InHand, Written
    <3> QED
      BY <3>3 DEF Promise!Next
  <2> QED
    BY <1>a, <2>1, <2>2 DEF SendWriteErr
<1>5. ASSUME NEW k \in Closers, Close(k)
      PROVE  Promise!Next
  BY <1>5 DEF Close, CloseCAS, Promise!Next, Promise!Close, InLine, InHand
<1>6. ASSUME NEW k \in AllClosers, CloseNext(k)
      PROVE  UNCHANGED Promise!vars
  BY <1>6, Untouched DEF CloseNext, CloseChan, CloseCancel, CloseNet
<1>7. CASE LoopReceive
  <2>1. queue \in Seq(Msgs) /\ <<Head(queue)>> \o Tail(queue) = queue
    BY <1>7, Refronted DEF LoopReceive, TypeOK
  <2>2. <<>> \o queue = queue
    BY <2>1, ConcatEmptySeq
  <2>3. InLine' = InLine
    BY <1>7, <2>1, <2>2 DEF LoopReceive, InLine, InHand
  <2> QED
    BY <1>7, <2>3 DEF LoopReceive, Promise!vars
<1>8. CASE LoopWriteOk
  <2>1. Written' = Append(Written, <<wmsg, TRUE>>)
    BY <1>8, WrittenAppend DEF LoopWriteOk, TypeOK
  <2>2. InLine # <<>> /\ Head(InLine) = wmsg /\ InLine' = Tail(InLine)
    <3>1. wmsg \in Msgs /\ queue \in Seq(Msgs)
      BY <1>8 DEF LoopWriteOk, TypeOK
    <3>2. InLine = <<wmsg>> \o queue /\ InLine' = <<>> \o queue
      BY <1>8 DEF LoopWriteOk, InLine, InHand
    <3>3. <<>> \o queue = queue
      BY <3>1, ConcatEmptySeq
    <3> QED
      BY <3>1, <3>2, <3>3, Fronted
  <2>3. Promise!Unwritten(wmsg)
    BY <1>8 DEF LoopWriteOk, Fresh, Wired, Written, Promise!Unwritten
  <2> QED
    BY <1>8, <2>1, <2>2, <2>3
       DEF LoopWriteOk, Promise!Next, Promise!WriteHead, Written
<1>b. CASE LoopWriteErr
  <2>1. wmsg \in Msgs /\ queue \in Seq(Msgs)
    BY <1>b DEF LoopWriteErr, TypeOK
  <2>2. InLine = <<wmsg>> \o queue /\ InLine' = InLine
    BY <1>b DEF LoopWriteErr, InLine, InHand
  <2>3. CASE wire' = wire
    BY <1>b, <2>2, <2>3 DEF LoopWriteErr, Promise!vars
  <2>4. CASE wire' = Append(wire, <<"queue", wmsg, FALSE>>)
    <3>1. Written' = Append(Written, <<wmsg, FALSE>>)
      BY <2>1, <2>4, WrittenAppend
    <3>2. InLine # <<>> /\ Head(InLine) = wmsg
      BY <2>1, <2>2, Fronted
    <3>3. Promise!Unwritten(wmsg)
      BY <1>b DEF LoopWriteErr, Fresh, Wired, Written, Promise!Unwritten
    <3> QED
      BY <1>b, <2>2, <3>1, <3>2, <3>3
         DEF LoopWriteErr, Promise!Next, Promise!TearHead, Written
  <2> QED
    BY <1>b, <2>3, <2>4 DEF LoopWriteErr
<1>9. CASE LoopFail
  <2>1. InLine # <<>> /\ InLine' = Tail(InLine)
    <3>1. wmsg \in Msgs /\ queue \in Seq(Msgs)
      BY <1>9 DEF LoopFail, TypeOK
    <3>2. InLine = <<wmsg>> \o queue /\ InLine' = <<>> \o queue
      BY <1>9 DEF LoopFail, InLine, InHand
    <3>3. <<>> \o queue = queue
      BY <3>1, ConcatEmptySeq
    <3> QED
      BY <3>1, <3>2, <3>3, Fronted
  <2> QED
    BY <1>9, <2>1 DEF LoopFail, CloseCAS, Promise!Next, Promise!Close, Promise!Drop
<1>10. CASE LoopReturn \/ LoopLock \/ LoopWritePart \/ LoopClosed
  BY <1>10 DEF LoopReturn, LoopLock, LoopWritePart, LoopClosed, Promise!vars, InLine, InHand
<1>11. CASE UNCHANGED vars
  BY <1>11, Untouched DEF vars
<1> QED
  BY <1>2, <1>3, <1>4, <1>a, <1>5, <1>6, <1>7, <1>8, <1>b, <1>9, <1>10, <1>11
     DEF Next, SendNext, LoopNext, Quiet

(* Send, Close and writeLoop implement Outbox: with any number of senders   *)
(* and closers and any capacity of writeChan a message goes out at most     *)
(* once, queued ones in order, torn only if its Send failed or if the       *)
(* connection closes over it, and none is lost before Close.                *)
THEOREM ImplementsOutboxHolds == Spec => ImplementsOutbox
<1>1. Init => Promise!Init
  <2> SUFFICES ASSUME Init
               PROVE  Promise!Init
    OBVIOUS
  <2>1. Written = <<>>
    BY DEF Init, Written
  <2>2. InLine = <<>>
    BY DEF Init, InLine, InHand, Writing
  <2> QED
    BY <2>1, <2>2 DEF Init, Promise!Init, Written
<1> QED
  BY <1>1, InitFresh, StepFresh, StepOutbox, TypeCorrectness, PTL
     DEF Spec, ImplementsOutbox, Promise!Spec

==============================================================================
