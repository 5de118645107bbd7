------------------------- MODULE HighPerfConnection -------------------------
(***************************************************************************)
(* One HighPerfTCPConnection of transport/tcp_highperf.go: the goroutine   *)
(* of writeLoop, goroutines calling Send and goroutines calling Close (the *)
(* teardown of handleConn, Stop, handlers, the application).               *)
(*                                                                         *)
(* A Send is non-blocking while writeChan has room and writes to the       *)
(* socket itself when it has none. closeMu is held for reading around the  *)
(* channel send and for writing around close(writeChan); c.mu is held      *)
(* around netConn.Write. A message is <<sender, number>>.                  *)
(***************************************************************************)
EXTENDS Naturals, Sequences

CONSTANTS
    Senders,      \* goroutines calling Send
    Closers,      \* goroutines calling Close
    Cap,          \* capacity of writeChan (100 in the code)
    MaxSends,     \* bound: calls of Send per sender
    WriteTimeout  \* TRUE iff WriteTimeout > 0

ASSUME CapAssumption == Cap \in Nat
ASSUME BoundAssumption == MaxSends \in Nat
ASSUME TimeoutAssumption == WriteTimeout \in BOOLEAN
ASSUME ProcAssumption == /\ Senders \cap Closers = {}
                         /\ {"writeLoop", "free"} \cap (Senders \cup Closers) = {}

VARIABLES
    connected,  \* c.connected
    queue,      \* contents of writeChan
    chanClosed, \* close(writeChan) has happened
    cancelled,  \* c.ctx is cancelled
    netOpen,    \* netConn is open
    readers,    \* senders holding closeMu for reading
    mu,         \* holder of c.mu, "free" if none
    spc,        \* where each Send is
    num,        \* number of the last Send of each sender
    kpc,        \* where each Close is; writeLoop closes too
    wpc,        \* where writeLoop is
    wmsg,       \* what writeLoop received last
    accepted,   \* messages whose Send returned nil
    wire,       \* what the Writes left, in order: <<path, message, whole>>
    panicked    \* a send on, or a close of, a closed channel

lockVars == <<readers, mu>>
closeVars == <<connected, chanClosed, cancelled, netOpen, kpc>>
sendVars == <<spc, num, accepted>>
loopVars == <<wpc, wmsg>>
vars == <<lockVars, closeVars, sendVars, loopVars, queue, wire, panicked>>

(* Whoever may run the body of Close.                                       *)
AllClosers == Closers \cup {"writeLoop"}

(* NewHighPerfTCPConnection: connected, with a writeLoop running.           *)
Init ==
    /\ connected = TRUE
    /\ queue = <<>>
    /\ chanClosed = FALSE
    /\ cancelled = FALSE
    /\ netOpen = TRUE
    /\ readers = {}
    /\ mu = "free"
    /\ spc = [s \in Senders |-> "idle"]
    /\ num = [s \in Senders |-> 0]
    /\ kpc = [k \in AllClosers |-> "idle"]
    /\ wpc = "select"
    /\ wmsg = <<>>
    /\ accepted = {}
    /\ wire = <<>>
    /\ panicked = FALSE

Msg(s) == <<s, num[s]>>

(* Inside netConn.Write, with none or with part of the frame sent.          *)
Writing == {"write", "part"}

-----------------------------------------------------------------------------
(* Send                                                                     *)

(* The first connected check; a Send that fails it has no effect.           *)
SendCheck(s) ==
    /\ spc[s] = "idle" /\ num[s] < MaxSends
    /\ connected
    /\ num' = [num EXCEPT ![s] = @ + 1]
    /\ spc' = [spc EXCEPT ![s] = "rlock"]
    /\ UNCHANGED <<lockVars, closeVars, loopVars, accepted, queue, wire, panicked>>

(* Fault: closeMu.RLock without the second check.                           *)
FaultNoRecheck(s) ==
    /\ spc[s] = "rlock"
    /\ readers' = readers \cup {s}
    /\ spc' = [spc EXCEPT ![s] = "select"]
    /\ UNCHANGED <<closeVars, loopVars, mu, num, accepted, queue, wire, panicked>>

(* closeMu.RLock and the second check: give up, or go on to the select.     *)
SendRLock(s) ==
    /\ spc[s] = "rlock"
    /\ \/ /\ connected
          /\ readers' = readers \cup {s}
          /\ spc' = [spc EXCEPT ![s] = "select"]
       \/ /\ ~connected
          /\ spc' = [spc EXCEPT ![s] = "idle"]
          /\ UNCHANGED readers
    /\ UNCHANGED <<closeVars, loopVars, mu, num, accepted, queue, wire, panicked>>

(* Fault: a full channel drops the message and reports success.             *)
FaultDropWhenFull(s) ==
    /\ spc[s] = "select"
    /\ readers' = readers \ {s}
    /\ queue' = IF Len(queue) < Cap THEN Append(queue, Msg(s)) ELSE queue
    /\ accepted' = accepted \cup {Msg(s)}
    /\ spc' = [spc EXCEPT ![s] = "idle"]
    /\ UNCHANGED <<closeVars, loopVars, mu, num, wire, panicked>>

(* The select: a channel with room takes the message, a full one leads to   *)
(* the default case, a closed one panics. All release closeMu.              *)
SendSelect(s) ==
    /\ spc[s] = "select"
    /\ readers' = readers \ {s}
    /\ panicked' = (panicked \/ chanClosed)
    /\ \/ /\ Len(queue) < Cap
          /\ queue' = Append(queue, Msg(s))
          /\ accepted' = accepted \cup {Msg(s)}
          /\ spc' = [spc EXCEPT ![s] = "idle"]
       \/ /\ Len(queue) >= Cap
          /\ spc' = [spc EXCEPT ![s] = "lock"]
          /\ UNCHANGED <<queue, accepted>>
    /\ UNCHANGED <<closeVars, loopVars, mu, num, wire>>

(* Fault: the synchronous path does not take c.mu.                          *)
FaultNoMu(s) ==
    /\ spc[s] = "lock"
    /\ mu' = s
    /\ spc' = [spc EXCEPT ![s] = "write"]
    /\ UNCHANGED <<closeVars, loopVars, readers, num, accepted, queue, wire, panicked>>

(* The synchronous path: c.mu, then Write.                                  *)
SendLock(s) ==
    /\ spc[s] = "lock" /\ mu = "free"
    /\ mu' = s
    /\ spc' = [spc EXCEPT ![s] = "write"]
    /\ UNCHANGED <<closeVars, loopVars, readers, num, accepted, queue, wire, panicked>>

(* Part of the frame is out; the peer takes no more for now.                *)
SendWritePart(s) ==
    /\ spc[s] = "write" /\ netOpen
    /\ spc' = [spc EXCEPT ![s] = "part"]
    /\ UNCHANGED <<lockVars, closeVars, loopVars, num, accepted, queue, wire, panicked>>

SendWriteOk(s) ==
    /\ spc[s] \in Writing /\ netOpen
    /\ wire' = Append(wire, <<"sync", Msg(s), TRUE>>)
    /\ accepted' = accepted \cup {Msg(s)}
    /\ mu' = "free"
    /\ spc' = [spc EXCEPT ![s] = "idle"]
    /\ UNCHANGED <<closeVars, loopVars, readers, num, queue, panicked>>

(* The deadline, a reset or a closed socket: Send returns the error, the    *)
(* connection stays as it is, also behind a torn frame.                     *)
SendWriteErr(s) ==
    /\ spc[s] \in Writing
    /\ wire' = IF spc[s] = "part" THEN Append(wire, <<"sync", Msg(s), FALSE>>) ELSE wire
    /\ mu' = "free"
    /\ spc' = [spc EXCEPT ![s] = "idle"]
    /\ UNCHANGED <<closeVars, loopVars, readers, num, accepted, queue, panicked>>

-----------------------------------------------------------------------------
(* Close, also in the error path of writeLoop                               *)

(* The CAS on connected is won; losing it is a Close without effect.        *)
CloseCAS(k) ==
    /\ kpc[k] = "idle" /\ connected
    /\ connected' = FALSE
    /\ kpc' = [kpc EXCEPT ![k] = "lock"]

(* closeMu.Lock, close(writeChan), closeMu.Unlock.                          *)
CloseChan(k) ==
    /\ kpc[k] = "lock" /\ readers = {}
    /\ panicked' = (panicked \/ chanClosed)
    /\ chanClosed' = TRUE
    /\ kpc' = [kpc EXCEPT ![k] = "cancel"]
    /\ UNCHANGED <<lockVars, sendVars, loopVars, connected, cancelled, netOpen,
                   queue, wire>>

(* Fault: the channel is closed and the context cancelled, the socket not.  *)
FaultKeepSocket(k) ==
    /\ kpc[k] = "cancel"
    /\ cancelled' = TRUE
    /\ kpc' = [kpc EXCEPT ![k] = "idle"]
    /\ UNCHANGED <<lockVars, sendVars, loopVars, connected, chanClosed, netOpen,
                   queue, wire, panicked>>

CloseCancel(k) ==
    /\ kpc[k] = "cancel"
    /\ cancelled' = TRUE
    /\ kpc' = [kpc EXCEPT ![k] = "net"]
    /\ UNCHANGED <<lockVars, sendVars, loopVars, connected, chanClosed, netOpen,
                   queue, wire, panicked>>

CloseNet(k) ==
    /\ kpc[k] = "net"
    /\ netOpen' = FALSE
    /\ kpc' = [kpc EXCEPT ![k] = "idle"]
    /\ UNCHANGED <<lockVars, sendVars, loopVars, connected, chanClosed, cancelled,
                   queue, wire, panicked>>

Close(k) ==
    /\ CloseCAS(k)
    /\ UNCHANGED <<lockVars, sendVars, loopVars, chanClosed, cancelled, netOpen,
                   queue, wire, panicked>>

-----------------------------------------------------------------------------
(* writeLoop                                                                *)

(* The select: with the context cancelled and a message queued either case  *)
(* may be taken.                                                            *)
LoopReceive ==
    /\ wpc = "select" /\ queue # <<>>
    /\ wmsg' = Head(queue)
    /\ queue' = Tail(queue)
    /\ wpc' = "lock"
    /\ UNCHANGED <<lockVars, closeVars, sendVars, wire, panicked>>

LoopReturn ==
    /\ wpc = "select"
    /\ cancelled \/ (chanClosed /\ queue = <<>>)
    /\ wpc' = "done"
    /\ UNCHANGED <<lockVars, closeVars, sendVars, wmsg, queue, wire, panicked>>

LoopLock ==
    /\ wpc = "lock" /\ mu = "free"
    /\ mu' = "writeLoop"
    /\ wpc' = "write"
    /\ UNCHANGED <<closeVars, sendVars, readers, wmsg, queue, wire, panicked>>

LoopWritePart ==
    /\ wpc = "write" /\ netOpen
    /\ wpc' = "part"
    /\ UNCHANGED <<lockVars, closeVars, sendVars, wmsg, queue, wire, panicked>>

LoopWriteOk ==
    /\ wpc \in Writing /\ netOpen
    /\ wire' = Append(wire, <<"queue", wmsg, TRUE>>)
    /\ mu' = "free"
    /\ wpc' = "select"
    /\ UNCHANGED <<closeVars, sendVars, readers, wmsg, queue, panicked>>

(* Fault: writeLoop goes on after a failed write.                           *)
FaultIgnoreErr ==
    /\ wpc \in Writing
    /\ mu' = "free"
    /\ wpc' = "select"
    /\ UNCHANGED <<closeVars, sendVars, readers, wmsg, queue, wire, panicked>>

(* c.mu is free before connected is cleared: a Send that waits for it still *)
(* writes, behind what may be a torn frame.                                 *)
LoopWriteErr ==
    /\ wpc \in Writing
    /\ wire' = IF wpc = "part" THEN Append(wire, <<"queue", wmsg, FALSE>>) ELSE wire
    /\ mu' = "free"
    /\ wpc' = "failed"
    /\ UNCHANGED <<closeVars, sendVars, readers, wmsg, queue, panicked>>

(* After a failed write: the CAS, won or lost.                              *)
LoopFail ==
    /\ wpc = "failed"
    /\ \/ CloseCAS("writeLoop") /\ wpc' = "closing"
       \/ ~connected /\ wpc' = "done" /\ UNCHANGED <<connected, kpc>>
    /\ UNCHANGED <<lockVars, sendVars, wmsg, chanClosed, cancelled, netOpen,
                   queue, wire, panicked>>

LoopClosed ==
    /\ wpc = "closing" /\ kpc["writeLoop"] = "idle"
    /\ wpc' = "done"
    /\ UNCHANGED <<lockVars, closeVars, sendVars, wmsg, queue, wire, panicked>>

(* Everything has returned and nothing more may be sent.                    *)
Quiet ==
    /\ wpc = "done" /\ ~connected
    /\ \A k \in AllClosers : kpc[k] = "idle"
    /\ \A s \in Senders : spc[s] = "idle"
    /\ UNCHANGED vars

-----------------------------------------------------------------------------
SendNext(s) ==
    \/ SendCheck(s) \/ SendRLock(s) \/ SendSelect(s) \/ SendLock(s)
    \/ SendWritePart(s) \/ SendWriteOk(s) \/ SendWriteErr(s)

CloseNext(k) == CloseChan(k) \/ CloseCancel(k) \/ CloseNet(k)

LoopNext ==
    \/ LoopReceive \/ LoopReturn \/ LoopLock \/ LoopWritePart \/ LoopWriteOk
    \/ LoopWriteErr \/ LoopFail \/ LoopClosed

Next ==
    \/ \E s \in Senders : SendNext(s)
    \/ \E k \in Closers : Close(k)
    \/ \E k \in AllClosers : CloseNext(k)
    \/ LoopNext
    \/ Quiet

Spec == Init /\ [][Next]_vars

(***************************************************************************)
(* Fairness. Goroutines that can run do; nobody has to call Send or Close, *)
(* the peer does not have to read. A Write returns for certain once the    *)
(* socket is closed or a deadline is set. c.mu goes round its waiters.     *)
(***************************************************************************)
WriteEnds == WriteTimeout \/ ~netOpen
Fairness ==
    /\ \A s \in Senders :
          /\ WF_vars(SendRLock(s) \/ SendSelect(s))
          /\ SF_vars(SendLock(s))
          /\ WF_vars(WriteEnds /\ (SendWriteOk(s) \/ SendWriteErr(s)))
    /\ \A k \in AllClosers :
          /\ SF_vars(CloseChan(k))
          /\ WF_vars(CloseCancel(k) \/ CloseNet(k))
    /\ WF_vars(LoopReceive \/ LoopReturn \/ LoopFail \/ LoopClosed)
    /\ SF_vars(LoopLock)
    /\ WF_vars(WriteEnds /\ (LoopWriteOk \/ LoopWriteErr))

FairSpec == Spec /\ Fairness

-----------------------------------------------------------------------------
(* Properties                                                               *)

Msgs == Senders \X Nat

(* The variables have the types of the code.                                *)
TypeOK ==
    /\ connected \in BOOLEAN /\ chanClosed \in BOOLEAN
    /\ cancelled \in BOOLEAN /\ netOpen \in BOOLEAN /\ panicked \in BOOLEAN
    /\ queue \in Seq(Msgs)
    /\ readers \in SUBSET Senders
    /\ mu \in Senders \cup {"writeLoop", "free"}
    /\ spc \in [Senders -> {"idle", "rlock", "select", "lock", "write", "part"}]
    /\ num \in [Senders -> Nat]
    /\ kpc \in [AllClosers -> {"idle", "lock", "cancel", "net"}]
    /\ wpc \in {"select", "lock", "write", "part", "failed", "closing", "done"}
    /\ wmsg \in Msgs \cup {<<>>}
    /\ wpc \in {"lock", "write", "part", "failed"} => wmsg \in Msgs
    /\ accepted \in SUBSET Msgs
    /\ wire \in Seq({"sync", "queue"} \X Msgs \X BOOLEAN)

(* No interleaving of Send, Close and a failing writeLoop sends on the      *)
(* closed writeChan or closes it twice; either would panic the process.     *)
NoPanic == ~panicked

(* Why there is no panic: a channel send is only attempted by a holder of   *)
(* closeMu that saw connected, and only the one winner of the CAS closes    *)
(* the channel, after the last such holder has gone.                        *)
CloseProtocol ==
    /\ \A s \in Senders : s \in readers <=> spc[s] = "select"
    /\ chanClosed => ~connected /\ readers = {}
    /\ \A k \in AllClosers :
          /\ kpc[k] # "idle" => ~connected
          /\ kpc[k] = "lock" => ~chanClosed
          /\ \A j \in AllClosers : kpc[k] # "idle" /\ kpc[j] # "idle" => k = j

(* c.mu is held by the goroutine inside Write and nobody else: a frame that *)
(* is part out is finished or given up before the next one begins.          *)
OneWriter ==
    /\ \A s \in Senders : spc[s] \in Writing <=> mu = s
    /\ wpc \in Writing <=> mu = "writeLoop"

(* What the peer got in one piece.                                          *)
OnWire == {wire[i][2] : i \in {j \in DOMAIN wire : wire[j][3]}}
InHand == IF wpc \in Writing \cup {"lock", "failed"} THEN {wmsg} ELSE {}

(* The refinement: what has been accepted and not written is the message in *)
(* the hands of writeLoop followed by the channel.                          *)
InLine == (IF InHand = {} THEN <<>> ELSE <<wmsg>>) \o queue
Promise == INSTANCE Outbox WITH
    Messages <- Senders \X (1 .. MaxSends),
    open <- connected,
    line <- InLine,
    written <- [i \in DOMAIN wire |-> <<wire[i][2], wire[i][3]>>]

(* Send, Close and writeLoop implement an outbox: a message goes out at     *)
(* most once, by whichever of the two paths, in one piece or torn; what     *)
(* went through writeChan keeps its order; a torn frame belongs to a Send   *)
(* that returned an error or to the head of the channel whose loss closes   *)
(* the connection; and while it is open nothing accepted is lost.           *)
ImplementsOutbox == Promise!Spec

(* Once anybody has closed the connection, or a write has failed, the       *)
(* socket is closed and writeLoop returns, even if the peer does not read.  *)
CloseCompletes == ~connected ~> (~netOpen /\ wpc = "done")

(* A write is in progress that nothing ends.                                *)
WriteBlocked == netOpen /\ (wpc \in Writing \/ \E s \in Senders : spc[s] \in Writing)

(* A message whose Send returned nil is written in one piece, unless the    *)
(* connection closes first or, without a write timeout, a peer that does    *)
(* not read blocks a write for ever.                                        *)
AcceptedIsWritten ==
    \A s \in Senders : \A n \in 1 .. MaxSends :
        [](<<s, n>> \in accepted =>
             <>(<<s, n>> \in OnWire \/ ~connected \/ []WriteBlocked))
==============================================================================
