-------------------------------- MODULE Codec --------------------------------
(***************************************************************************)
(* Encode and Decode of protocol/codec.go, as operators on sequences of    *)
(* bytes. A message is its header fields and its body: MsgID, the protocol *)
(* version (0 before 2019), the encryption bits, the sub-package flag, the *)
(* terminal phone number as a sequence of digits, MsgFlowNo and the body.  *)
(* Where the code returns an error, a predicate says when it does not:     *)
(* Encodable for Encode, Decodable for Decode. What the code does byte by  *)
(* byte in a loop is a recursive function of the number of bytes done.     *)
(***************************************************************************)
EXTENDS Integers, Sequences, SequencesExt

CONSTANT Messages   \* the messages that may be encoded

Byte == 0 .. 255
Word == {n \in Nat : n < 65536}

(* Header fields have the width the protocol gives them, which for the      *)
(* encryption are the bits Encode keeps; phone numbers are digits.          *)
Message ==
    [msgID : Word, version : Byte, encryption : 0 .. 7, subPackage : BOOLEAN,
     phoneNo : Seq(0 .. 9), msgFlowNo : Word, body : Seq(Byte)]

(* No message ID of protocol/types has a byte near those that are escaped.  *)
Plain(b) == b \notin {124, 125, 126}

ASSUME MessagesAssumption ==
    /\ Messages \subseteq Message
    /\ \A m \in Messages : Plain(m.msgID \div 256) /\ Plain(m.msgID % 256)

ProtocolFlag == 126     \* 0x7E
ProtocolEscape == 125   \* 0x7D

(* EscapeMap and UnescapeMap.                                               *)
EscapeMap(b) == IF b = ProtocolFlag THEN 2 ELSE 1
UnescapeMap(b) == IF b = 2 THEN ProtocolFlag ELSE ProtocolEscape

(* A 16-bit field, big endian.                                              *)
Uint16(n) == <<n \div 256, n % 256>>

-----------------------------------------------------------------------------
(* What f makes of each byte, one after the other.                          *)
Mapped(f, data) ==
    LET r[i \in 0 .. Len(data)] == IF i = 0 THEN <<>> ELSE r[i - 1] \o f[data[i]]
    IN  r[Len(data)]

EscapeByte ==
    [b \in Byte |->
        IF b \in {ProtocolFlag, ProtocolEscape} THEN <<ProtocolEscape, EscapeMap(b)>> ELSE <<b>>]

Escape(data) == Mapped(EscapeByte, data)

(* One byte of unescape: after an escape byte only 0x01 and 0x02 may come.  *)
UnescapeByte(acc, b) ==
    IF acc.err THEN acc
    ELSE IF acc.escaped
      THEN IF b \in {1, 2}
             THEN [acc EXCEPT !.out = Append(@, UnescapeMap(b)), !.escaped = FALSE]
             ELSE [acc EXCEPT !.err = TRUE]
    ELSE IF b = ProtocolEscape THEN [acc EXCEPT !.escaped = TRUE]
    ELSE [acc EXCEPT !.out = Append(@, b)]

Unescape(data) ==
    LET u[i \in 0 .. Len(data)] ==
            IF i = 0 THEN [out |-> <<>>, escaped |-> FALSE, err |-> FALSE]
            ELSE UnescapeByte(u[i - 1], data[i])
    IN  u[Len(data)]

(* The bits of a byte by their place value, and the exclusive or.           *)
Bit(x, place) == (x \div place) % 2
Xor(x, y) ==
    LET sum(place) == place * ((Bit(x, place) + Bit(y, place)) % 2)
    IN  sum(1) + sum(2) + sum(4) + sum(8) + sum(16) + sum(32) + sum(64) + sum(128)

CalculateChecksum(data) ==
    LET c[i \in 0 .. Len(data)] == IF i = 0 THEN 0 ELSE Xor(c[i - 1], data[i])
    IN  c[Len(data)]

-----------------------------------------------------------------------------
(* Two digits to a byte; what is missing is 0, what is too much is cut off. *)
EncodeBCD(s, length) ==
    LET digit(i) == IF i <= Len(s) THEN s[i] ELSE 0
    IN  [i \in 1 .. length |-> 16 * digit(2 * i - 1) + digit(2 * i)]

(* Nibbles above 9 are left out.                                            *)
Digits ==
    [b \in Byte |-> (IF b \div 16 <= 9 THEN <<b \div 16>> ELSE <<>>)
                     \o (IF b % 16 <= 9 THEN <<b % 16>> ELSE <<>>)]

DecodeBCD(data) == Mapped(Digits, data)

PhoneLength(version) == IF version > 0 THEN 10 ELSE 6

(* MsgBodyProperty: the length in bits 0-9, the encryption in bits 10-12,   *)
(* the sub-package flag in bit 13 and the version flag in bit 14.           *)
MsgBodyProperty(m) ==
    (Len(m.body) % 1024) + 1024 * (m.encryption % 8)
      + (IF m.subPackage THEN 8192 ELSE 0)
      + (IF m.version > 0 THEN 16384 ELSE 0)

(* A sub-packaged message is always sent as package 1 of 1.                 *)
EncodeHeader(m) ==
    Uint16(m.msgID) \o Uint16(MsgBodyProperty(m))
      \o (IF m.version > 0 THEN <<m.version>> ELSE <<>>)
      \o EncodeBCD(m.phoneNo, PhoneLength(m.version))
      \o Uint16(m.msgFlowNo)
      \o (IF m.subPackage THEN Uint16(1) \o Uint16(1) ELSE <<>>)

(* What stands between the two flags of a frame.                            *)
Inner(m) ==
    LET header == EncodeHeader(m)
    IN  Escape(header) \o Escape(m.body)
          \o Escape(<<CalculateChecksum(header \o m.body)>>)

Encodable(m) == Len(m.body) <= 1023

Encode(m) == <<ProtocolFlag>> \o Inner(m) \o <<ProtocolFlag>>

-----------------------------------------------------------------------------
(* decodeHeader, from the unescaped bytes of a frame                        *)

Property(data) == 256 * data[3] + data[4]
PropertyBit(data, place) == Bit(Property(data), place) = 1

(* The version byte is there if the version flag is set; it may be 0.       *)
Version(data) == IF PropertyBit(data, 16384) THEN data[5] ELSE 0

PhoneAt(data) == IF PropertyBit(data, 16384) THEN 5 ELSE 4
FlowAt(data) == PhoneAt(data) + PhoneLength(Version(data))
HeaderLength(data) == FlowAt(data) + 2 + (IF PropertyBit(data, 8192) THEN 4 ELSE 0)

(* Fault: the checksum is not compared.                                     *)
FaultNoChecksum(inner) ==
    LET u == Unescape(inner)
        data == Front(u.out)
    IN  /\ ~u.err /\ ~u.escaped
        /\ Len(u.out) >= 13
        /\ Len(data) >= HeaderLength(data)
        /\ Len(data) - HeaderLength(data) = Property(data) % 1024

(* The checks of Decode on a frame whose flags have been taken off: the     *)
(* escapes, 12 bytes of header and a checksum at least, the checksum, a     *)
(* complete header and a body as long as the header says.                   *)
Decodable(inner) ==
    LET u == Unescape(inner)
        data == Front(u.out)
    IN  /\ ~u.err /\ ~u.escaped
        /\ Len(u.out) >= 13
        /\ Last(u.out) = CalculateChecksum(data)
        /\ Len(data) >= HeaderLength(data)
        /\ Len(data) - HeaderLength(data) = Property(data) % 1024

Decode(inner) ==
    LET data == Front(Unescape(inner).out)
        flow == FlowAt(data)
    IN  [msgID |-> 256 * data[1] + data[2],
         version |-> Version(data),
         encryption |-> (Property(data) \div 1024) % 8,
         subPackage |-> PropertyBit(data, 8192),
         phoneNo |-> DecodeBCD(SubSeq(data, PhoneAt(data) + 1, flow)),
         msgFlowNo |-> 256 * data[flow + 1] + data[flow + 2],
         body |-> SubSeq(data, HeaderLength(data) + 1, Len(data))]
==============================================================================
