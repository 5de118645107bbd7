------------------------------- MODULE Framing -------------------------------
(***************************************************************************)
(* The byte stream between a terminal and readMessage (transport/tcp.go,   *)
(* the same code in tcp_highperf.go): frames written by Encode, at most    *)
(* one byte of the stream changed on its way, and the loop of handleConn   *)
(* that reads frames until the first error, which ends the connection; a   *)
(* task pool that has stopped ends it too (tcp_highperf.go).               *)
(***************************************************************************)
EXTENDS Codec

CONSTANTS
    MaxMsgs,        \* bound: messages per connection
    MaxPacketSize,
    Noise           \* values a byte may be changed to

VARIABLES
    sent,     \* messages the terminal has written
    stream,   \* bytes not yet read
    got,      \* messages handleConn has passed on
    ended,    \* what ended handleConn, "no" while it reads
    eof,      \* the terminal has closed its side
    damaged   \* a byte has been changed

vars == <<sent, stream, got, ended, eof, damaged>>

open == ended = "no"

Init ==
    /\ sent = <<>> /\ stream = <<>> /\ got = <<>>
    /\ ended = "no" /\ eof = FALSE /\ damaged = FALSE

Write(m) ==
    /\ ~eof /\ Len(sent) < MaxMsgs
    /\ Encodable(m)
    /\ sent' = Append(sent, m)
    /\ stream' = stream \o Encode(m)
    /\ UNCHANGED <<got, ended, eof, damaged>>

Damage(i, b) ==
    /\ ~damaged /\ b \in Byte /\ stream[i] # b
    /\ stream' = [stream EXCEPT ![i] = b]
    /\ damaged' = TRUE
    /\ UNCHANGED <<sent, got, ended, eof>>

TerminalClose ==
    /\ ~eof
    /\ eof' = TRUE
    /\ UNCHANGED <<sent, stream, got, ended, damaged>>

-----------------------------------------------------------------------------
(* The next byte is the flag that starts a frame.                           *)
Started == stream # <<>> /\ Head(stream) = ProtocolFlag

(* The end of the frame at the head of the stream, 0 if it has not come.    *)
EndFlag ==
    LET rest == {i \in 2 .. Len(stream) : stream[i] = ProtocolFlag}
    IN  IF rest = {} THEN 0 ELSE CHOOSE i \in rest : \A j \in rest : i <= j

(* The bytes of the frame that have come, without its flags.                *)
FrameSize == IF EndFlag = 0 THEN Len(stream) - 1 ELSE EndFlag - 2

(* Fault: the limit is reached one byte early.                              *)
FaultTightLimit(n) == n >= MaxPacketSize

(* More than MaxPacketSize bytes, escapes counted, come before the flag.    *)
TooLong(n) == n > MaxPacketSize

ReadFails(why) ==
    /\ open /\ ended' = why
    /\ UNCHANGED <<sent, stream, got, eof, damaged>>

(* readMessage finds that the next byte is not a flag.                      *)
InvalidFlag ==
    /\ stream # <<>> /\ Head(stream) # ProtocolFlag
    /\ ReadFails("flag")

(* readMessage gives up on a frame that is too long, ended or not.          *)
ExceedsMaxSize ==
    /\ Started /\ TooLong(FrameSize)
    /\ ReadFails("size")

(* The terminal has closed and no whole frame is left.                      *)
ReadEOF ==
    /\ eof
    /\ stream = <<>> \/ (Started /\ EndFlag = 0 /\ ~TooLong(FrameSize))
    /\ ReadFails("eof")

(* Read returns another error before the bytes it waits for have come: the  *)
(* read deadline has passed, the connection was reset, or the server has    *)
(* closed it. A server that stops ends handleConn between two frames too.   *)
ReadError == ReadFails("read")

(* A whole frame has come and is decoded. The message is passed on, unless  *)
(* Submit finds the task pool stopped, which ends the connection.           *)
ReadFrame ==
    /\ open /\ Started /\ EndFlag # 0 /\ ~TooLong(FrameSize)
    /\ LET inner == SubSeq(stream, 2, EndFlag - 1) IN
       \/ Decodable(inner) /\ got' = Append(got, Decode(inner)) /\ UNCHANGED ended
       \/ Decodable(inner) /\ ended' = "refused" /\ UNCHANGED got
       \/ ~Decodable(inner) /\ ended' = "decode" /\ UNCHANGED got
    /\ stream' = SubSeq(stream, EndFlag + 1, Len(stream))
    /\ UNCHANGED <<sent, eof, damaged>>

(* The connection has ended.                                                *)
Closed ==
    /\ ~open /\ eof
    /\ UNCHANGED vars

Next ==
    \/ \E m \in Messages : Write(m)
    \/ \E i \in DOMAIN stream : \E b \in Noise : Damage(i, b)
    \/ TerminalClose
    \/ InvalidFlag \/ ExceedsMaxSize \/ ReadEOF \/ ReadError \/ ReadFrame
    \/ Closed

Spec == Init /\ [][Next]_vars

-----------------------------------------------------------------------------
(* Properties                                                               *)

(* A phone number filled up with zeros, or cut, to n digits.                *)
Padded(phoneNo, n) == [i \in 1 .. n |-> IF i <= Len(phoneNo) THEN phoneNo[i] ELSE 0]

(* What the server is to get for a message: the message, with the phone     *)
(* number in the width of its protocol version.                             *)
Expected(m) == [m EXCEPT !.phoneNo = Padded(@, 2 * PhoneLength(m.version))]

(* handleConn passes on the messages the terminal sent, in their order,     *)
(* whatever the bodies and however the frames lie in the stream, and even   *)
(* if a byte is changed on the way: a flag, an escape, a length or a        *)
(* checksum that was hit never makes a message of something else. It takes  *)
(* message IDs like those of protocol/types (MessagesAssumption): in one    *)
(* with the byte 0x7C before 0x01 the change of 0x7C to 0x7D makes an       *)
(* escape of the two that the checksum does not notice.                     *)
OnlyWhatWasSent ==
    IsPrefix(got, [i \in DOMAIN sent |-> Expected(sent[i])])

(* While nothing is damaged readMessage objects to no frame but one over    *)
(* the limit, and never passes one of those; an idle connection, and one    *)
(* the terminal has ended, owes no message. (What ends a connection besides *)
(* is not in the stream: a deadline, a reset, a stopped server or pool.)    *)
OnlyOversizeRefused ==
    ~damaged =>
        /\ ended \notin {"flag", "decode"}
        /\ ended = "size" => Len(Inner(sent[Len(got) + 1])) > MaxPacketSize
        /\ \A i \in DOMAIN got : ~(Len(Inner(sent[i])) > MaxPacketSize)
        /\ (open /\ stream = <<>>) \/ ended = "eof" => Len(got) = Len(sent)
==============================================================================
