-------------------------------- MODULE Outbox --------------------------------
(***************************************************************************)
(* What Send of a connection promises, without channel, locks or loop.     *)
(* A message is accepted once; it is written at once or waits in a line    *)
(* that is written from its head. While the connection is open nothing     *)
(* leaves the line in any other way; afterwards it may be dropped. A Send  *)
(* that overlaps Close may still be accepted. A write that fails may leave *)
(* a torn frame: of a message that was not accepted, or of the head of the *)
(* line, which then can only leave it with the connection closed. What is  *)
(* torn is never sent again, but other frames may follow it.               *)
(***************************************************************************)
EXTENDS Sequences

CONSTANT Messages

VARIABLES
    open,      \* nobody has closed the connection
    line,      \* accepted, not yet written
    accepted,  \* messages whose Send returned nil
    written    \* what is on the wire, in order: <<message, in one piece>>

vars == <<open, line, accepted, written>>

Init ==
    /\ open = TRUE
    /\ line = <<>> /\ written = <<>>
    /\ accepted = {}

Unwritten(m) == \A i \in DOMAIN written : written[i][1] # m
Fresh(m) == m \notin accepted /\ Unwritten(m)

Accept(m) ==
    /\ Fresh(m)
    /\ accepted' = accepted \cup {m}
    /\ \/ line' = Append(line, m) /\ UNCHANGED written
       \/ written' = Append(written, <<m, TRUE>>) /\ UNCHANGED line
    /\ UNCHANGED open

(* The Send of m fails with part of its frame sent.                         *)
Tear(m) ==
    /\ Fresh(m)
    /\ written' = Append(written, <<m, FALSE>>)
    /\ UNCHANGED <<open, line, accepted>>

WriteHead ==
    /\ line # <<>> /\ Unwritten(Head(line))
    /\ written' = Append(written, <<Head(line), TRUE>>)
    /\ line' = Tail(line)
    /\ UNCHANGED <<open, accepted>>

(* The head fails with part of its frame sent; it stays the head.           *)
TearHead ==
    /\ line # <<>> /\ Unwritten(Head(line))
    /\ written' = Append(written, <<Head(line), FALSE>>)
    /\ UNCHANGED <<open, line, accepted>>

(* The connection closes, because of a failed write of the head or not.     *)
Close ==
    /\ open
    /\ open' = FALSE
    /\ line' = line \/ (line # <<>> /\ line' = Tail(line))
    /\ UNCHANGED <<accepted, written>>

Drop ==
    /\ ~open /\ line # <<>>
    /\ line' = Tail(line)
    /\ UNCHANGED <<open, accepted, written>>

Next ==
    \/ \E m \in Messages : Accept(m) \/ Tear(m)
    \/ WriteHead \/ TearHead \/ Close \/ Drop

Spec == Init /\ [][Next]_vars
===============================================================================
