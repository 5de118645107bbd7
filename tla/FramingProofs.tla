----------------------------- MODULE FramingProofs -----------------------------
(***************************************************************************)
(* Proofs about Codec and Framing: RoundTrip, that Decode gives back what  *)
(* Encode was given; DamageRefused, that Decode refuses a frame with one   *)
(* byte changed; OnlyWhatWasSent and OnlyOversizeRefused of Framing, for   *)
(* any messages of MessagesAssumption, any noise and any limits.           *)
(*                                                                         *)
(* A changed byte leaves a code that does not unescape, or contents with   *)
(* one code swapped for another of the same length, which the checksum     *)
(* tells apart, or an escape made or undone, which also moves the rest by  *)
(* a byte: that passes the checksum only at a byte 0x7C before 0x01 or     *)
(* 0x02 (XorEscapes), and then the length is wrong, unless it happens in   *)
(* the message ID, where MessagesAssumption excludes it.                   *)
(*                                                                         *)
(* LinkInv says what the stream holds: the frames of the messages sent and *)
(* not yet got, but for one byte once one was changed.                     *)
(***************************************************************************)
EXTENDS Framing, SequenceTheorems, WellFoundedInduction, TLAPS

-----------------------------------------------------------------------------
(* Induction, and functions defined by recursion                            *)

(* Induction over the naturals, for a set T of them.                        *)
LEMMA Induction ==
    ASSUME NEW T, 0 \in T, \A n \in Nat : n \in T => n + 1 \in T
    PROVE  Nat \subseteq T
<1> SUFFICES ASSUME ~(Nat \subseteq T) PROVE FALSE
    OBVIOUS
<1> DEFINE D == Nat \ T
<1>1. D \subseteq Nat /\ D # {}
    OBVIOUS
<1> HIDE DEF D
<1>2. PICK i \in D : \A k \in D : <<k, i>> \notin OpToRel(<, Nat)
    BY <1>1, Zenon, WFMin, NatLessThanWellFounded
<1>3. \A k \in D : ~(k < i)
    BY <1>1, <1>2, Zenon DEF OpToRel
<1>4. i \in Nat /\ i # 0 /\ i \notin T
    BY <1>1 DEF D
<1>5. i - 1 \in Nat /\ i - 1 \notin D
    BY <1>3, <1>4
<1>6. i - 1 \in T /\ (i - 1) + 1 = i
    BY <1>4, <1>5 DEF D
<1> QED
    BY <1>4, <1>5, <1>6

(* Two functions that start alike and go on alike are the same.             *)
Alike(u, v, n) == u[0] = v[0] /\ \A i \in 1..n : u[i - 1] = v[i - 1] => u[i] = v[i]

LEMMA Agree ==
    ASSUME NEW n \in Nat, NEW u, NEW v, Alike(u, v, n)
    PROVE  u[n] = v[n]
<1> DEFINE T == {i \in Nat : i <= n => u[i] = v[i]}
<1>1. 0 \in T
    BY DEF Alike
<1>2. ASSUME NEW i \in Nat, i \in T PROVE i + 1 \in T
    <2>1. CASE i + 1 <= n
        <3>1. i + 1 \in 1..n /\ (i + 1) - 1 = i /\ u[i] = v[i]
            BY <1>2, <2>1
        <3> QED
            BY <3>1 DEF Alike
    <2> QED
        BY <2>1
<1> HIDE DEF T
<1>3. Nat \subseteq T
    BY <1>1, <1>2, Induction
<1> QED
    BY <1>3 DEF T

(* F is the loop of n steps over states S, and r a run of it from x.        *)
Loop(F, S, n) == F \in [1..n -> [S -> S]]
Run(r, F, x, S, n) ==
    r \in [0..n -> S] /\ r[0] = x /\ \A i \in 1..n : r[i] = F[i][r[i - 1]]

(* A loop has a run.                                                        *)
LEMMA Recursion ==
    ASSUME NEW S, NEW x \in S, NEW n \in Nat, NEW F, Loop(F, S, n)
    PROVE  \E r : Run(r, F, x, S, n)
<1> DEFINE Good(r, k) == r[0] = x /\ \A i \in 1..k : r[i] = F[i][r[i - 1]]
           T == {k \in Nat : k <= n => \E r \in [0..k -> S] : Good(r, k)}
<1>1. 0 \in T
    <2>1. [i \in 0..0 |-> x] \in [0..0 -> S] /\ Good([i \in 0..0 |-> x], 0)
        OBVIOUS
    <2> QED
        BY <2>1
<1>2. ASSUME NEW k \in Nat, k \in T PROVE k + 1 \in T
    <2> SUFFICES ASSUME k + 1 <= n PROVE \E r \in [0..k + 1 -> S] : Good(r, k + 1)
        OBVIOUS
    <2>1. PICK r \in [0..k -> S] : Good(r, k)
        BY <1>2
    <2> DEFINE q == [i \in 0..k + 1 |-> IF i = k + 1 THEN F[k + 1][r[k]] ELSE r[i]]
    <2>2. k + 1 \in 1..n /\ r[k] \in S
        OBVIOUS
    <2>3. F[k + 1] \in [S -> S]
        BY <2>2 DEF Loop
    <2>4. F[k + 1][r[k]] \in S
        BY <2>2, <2>3
    <2>5. q \in [0..k + 1 -> S]
        BY <2>4
    <2>6. \A i \in 0..k : q[i] = r[i]
        OBVIOUS
    <2>7. q[k + 1] = F[k + 1][r[k]]
        OBVIOUS
    <2> HIDE DEF q
    <2>8. q[0] = x
        BY <2>1, <2>6
    <2>9. ASSUME NEW i \in 1..k + 1 PROVE q[i] = F[i][q[i - 1]]
        <3>1. CASE i = k + 1
            <4>1. i - 1 = k /\ q[i - 1] = r[k]
                BY <3>1, <2>6
            <4> QED
                BY <3>1, <4>1, <2>7
        <3>2. CASE i # k + 1
            <4>1. i \in 1..k /\ i \in 0..k /\ i - 1 \in 0..k
                BY <3>2
            <4> QED
                BY <4>1, <2>1, <2>6
        <3> QED
            BY <3>1, <3>2
    <2> QED
        BY <2>5, <2>8, <2>9
<1> HIDE DEF T
<1>3. Nat \subseteq T
    BY <1>1, <1>2, Induction
<1>4. n \in T
    BY <1>3
<1>5. PICK r \in [0..n -> S] : Good(r, n)
    BY <1>4 DEF T
<1> QED
    BY <1>5 DEF Run

(* Induction over sequences, element by element.                            *)
LEMMA SeqInduction ==
    ASSUME NEW A, NEW T, <<>> \in T,
           \A s \in Seq(A) : s \in T => \A a \in A : Append(s, a) \in T
    PROVE  Seq(A) \subseteq T
<1> DEFINE N == {n \in Nat : \A s \in Seq(A) : Len(s) = n => s \in T}
<1>1. 0 \in N
    OBVIOUS
<1>2. ASSUME NEW n \in Nat, n \in N PROVE n + 1 \in N
    <2> SUFFICES ASSUME NEW s \in Seq(A), Len(s) = n + 1 PROVE s \in T
        OBVIOUS
    <2> DEFINE f == SubSeq(s, 1, n)
    <2>1. f \in Seq(A) /\ Len(f) = n /\ (\A i \in 1..n : f[i] = s[i]) /\ s[n + 1] \in A
        OBVIOUS
    <2>2. s = Append(f, s[n + 1])
        OBVIOUS
    <2> HIDE DEF f
    <2> QED
        BY <1>2, <2>1, <2>2
<1> HIDE DEF N
<1>3. Nat \subseteq N
    BY <1>1, <1>2, Induction
<1> QED
    BY <1>3, LenProperties DEF N

-----------------------------------------------------------------------------
(* The recursions of Codec, one byte at a time                              *)

LEMMA AppendFacts ==
    ASSUME NEW A, NEW s \in Seq(A), NEW a \in A
    PROVE  /\ Append(s, a) \in Seq(A) /\ Len(Append(s, a)) = Len(s) + 1 /\ Len(s) \in Nat
           /\ \A i \in 1..Len(s) : Append(s, a)[i] = s[i]
           /\ Append(s, a)[Len(s) + 1] = a
           /\ Append(s, a) = s \o <<a>>
    OBVIOUS

LEMMA ByteAssoc == \A x, y, z \in Seq(Byte) : (x \o y) \o z = x \o (y \o z)
<1> TAKE x \in Seq(Byte), y \in Seq(Byte), z \in Seq(Byte)
<1> QED
    BY ConcatAssociative

LEMMA PairFacts ==
    ASSUME NEW x \in Seq(Byte), NEW a \in Byte, NEW b \in Byte
    PROVE  /\ <<a>> \in Seq(Byte) /\ <<a, b>> \in Seq(Byte)
           /\ x \o <<a>> \in Seq(Byte) /\ x \o <<a, b>> \in Seq(Byte)
           /\ x \o <<a>> = Append(x, a)
           /\ x \o <<a, b>> = (x \o <<a>>) \o <<b>>
           /\ x \o <<a, b>> = Append(Append(x, a), b)
<1>1. <<a>> \in Seq(Byte) /\ <<b>> \in Seq(Byte) /\ <<a, b>> \in Seq(Byte)
    OBVIOUS
<1>2. <<a, b>> = <<a>> \o <<b>>
    <2>1. Append(<<a>>, b) = <<a>> \o <<b>>
        BY <1>1, AppendFacts
    <2>2. Append(<<a>>, b) = <<a, b>>
        <3> DEFINE s == Append(<<a>>, b)
                   t == <<a, b>>
        <3>1. s \in Seq(Byte) /\ Len(s) = 2 /\ s[1] = a /\ s[2] = b
            OBVIOUS
        <3>2. t \in Seq(Byte) /\ Len(t) = 2 /\ t[1] = a /\ t[2] = b
            OBVIOUS
        <3> HIDE DEF s, t
        <3>3. \A i \in 1..Len(s) : s[i] = t[i]
            BY <3>1, <3>2
        <3>4. s = t
            BY <3>1, <3>2, <3>3, SeqEqual
        <3> QED
            BY <3>4 DEF s, t
    <2> QED
        BY <2>1, <2>2
<1>3. (x \o <<a>>) \o <<b>> = x \o (<<a>> \o <<b>>)
    BY <1>1, ByteAssoc, Zenon
<1>4. x \o <<a>> = Append(x, a) /\ Append(x, a) \in Seq(Byte)
    BY AppendFacts
<1>5. Append(x, a) \o <<b>> = Append(Append(x, a), b) /\ Append(Append(x, a), b) \in Seq(Byte)
    <2> DEFINE y == Append(x, a)
    <2>1. y \in Seq(Byte)
        BY <1>4
    <2> HIDE DEF y
    <2>2. Append(y, b) \in Seq(Byte) /\ Append(y, b) = y \o <<b>>
        BY <2>1, AppendFacts
    <2> QED
        BY <2>2 DEF y
<1> QED
    BY <1>1, <1>2, <1>3, <1>4, <1>5, Zenon

LEMMA TwoMore ==
    ASSUME NEW x \in Seq(Byte), NEW a \in Byte, NEW b \in Byte
    PROVE  (x \o <<a>>) \o <<b>> = x \o <<a, b>>
    BY PairFacts

LEMMA ConcatAppend ==
    ASSUME NEW A, NEW s \in Seq(A), NEW v \in Seq(A), NEW a \in A
    PROVE  s \o v \in Seq(A) /\ s \o Append(v, a) = Append(s \o v, a)
<1>1. s \o v \in Seq(A) /\ <<a>> \in Seq(A)
    OBVIOUS
<1>2. Append(v, a) = v \o <<a>> /\ Append(s \o v, a) = (s \o v) \o <<a>>
    BY <1>1, AppendIsConcat
<1> QED
    BY <1>1, <1>2, ConcatAssociative

(* r holds what the loop of Mapped has made of each part of s.              *)
MapSteps(r, f, s) == r[0] = <<>> /\ \A i \in 1..Len(s) : r[i] = r[i - 1] \o f[s[i]]

(* f makes sequences over C of elements of A.                               *)
Coding(f, A, C) == f \in [A -> Seq(C)]

(* What a prefix is made into does not depend on what follows it.           *)
LEMMA MapStepsAgree ==
    ASSUME NEW f, NEW s, NEW n \in Nat, NEW r, NEW q, NEW t,
           MapSteps(r, f, s), MapSteps(q, f, t), n = Len(s), n <= Len(t), Len(t) \in Nat,
           \A i \in 1..n : s[i] = t[i]
    PROVE  r[n] = q[n]
<1>1. r[0] = q[0]
    BY DEF MapSteps
<1>2. ASSUME NEW i \in 1..n, r[i - 1] = q[i - 1] PROVE r[i] = q[i]
    <2>1. i \in 1..Len(s) /\ i \in 1..Len(t) /\ s[i] = t[i]
        OBVIOUS
    <2>2. r[i] = r[i - 1] \o f[s[i]] /\ q[i] = q[i - 1] \o f[t[i]]
        BY <2>1 DEF MapSteps
    <2> QED
        BY <1>2, <2>1, <2>2
<1>3. Alike(r, q, n)
    BY <1>1, <1>2 DEF Alike
<1> QED
    BY <1>3, Agree

(* Mapped is the end of a run of its loop, whatever the length.             *)
LEMMA MappedRun ==
    ASSUME NEW A, NEW C, NEW f, Coding(f, A, C), NEW s \in Seq(A)
    PROVE  Mapped(f, s) \in Seq(C) /\ \E r : MapSteps(r, f, s) /\ Mapped(f, s) = r[Len(s)]
<1> DEFINE n == Len(s)
           F == [i \in 1..n |-> [x \in Seq(C) |-> x \o f[s[i]]]]
           eq(r) == r = [i \in 0..n |-> IF i = 0 THEN <<>> ELSE r[i - 1] \o f[s[i]]]
<1>1. n \in Nat /\ <<>> \in Seq(C) /\ Loop(F, Seq(C), n)
    <2>1. \A i \in 1..n : f[s[i]] \in Seq(C)
        BY DEF Coding
    <2> QED
        BY <2>1 DEF Loop
<1>2. \A i \in 1..n : \A x \in Seq(C) : F[i][x] = x \o f[s[i]]
    OBVIOUS
<1>3. ASSUME NEW r, eq(r) PROVE MapSteps(r, f, s)
    <2>1. \A i \in 0..n : r[i] = IF i = 0 THEN <<>> ELSE r[i - 1] \o f[s[i]]
        BY <1>3
    <2>2. 0 \in 0..n /\ \A i \in 1..n : i \in 0..n /\ i # 0
        BY <1>1
    <2> HIDE DEF n
    <2>3. \A i \in 1..n : r[i] = r[i - 1] \o f[s[i]]
        BY <2>1, <2>2
    <2> QED
        BY <2>1, <2>2, <2>3 DEF MapSteps, n
<1>4. (\E r : eq(r)) => \E q : eq(q) /\ Mapped(f, s) = q[n]
    BY DEF Mapped
<1> HIDE DEF F
<1>5. PICK r : Run(r, F, <<>>, Seq(C), n)
    <2> HIDE DEF n
    <2> QED
        BY <1>1, Recursion
<1>6. ASSUME NEW i \in 1..n PROVE r[i] = r[i - 1] \o f[s[i]]
    <2>1. i - 1 \in 0..n
        OBVIOUS
    <2>2. r[i - 1] \in Seq(C)
        BY <2>1, <1>5 DEF Run
    <2> QED
        BY <2>2, <1>2, <1>5 DEF Run
<1>7. eq(r)
    <2>1. \A i \in 0..n : i = 0 \/ i \in 1..n
        OBVIOUS
    <2>2. \A i \in 0..n : r[i] = IF i = 0 THEN <<>> ELSE r[i - 1] \o f[s[i]]
        BY <1>5, <1>6, <2>1 DEF Run
    <2> HIDE DEF n
    <2> QED
        BY <1>5, <2>2 DEF Run
<1>8. PICK q : eq(q) /\ Mapped(f, s) = q[n]
    BY <1>4, <1>7
<1>9. MapSteps(q, f, s) /\ MapSteps(r, f, s)
    BY <1>3, <1>7, <1>8
<1>10. r[n] = q[n]
    <2> HIDE DEF eq
    <2> QED
        BY <1>1, <1>9, MapStepsAgree
<1>11. r[n] \in Seq(C)
    BY <1>1, <1>5 DEF Run
<1> QED
    BY <1>8, <1>9, <1>10, <1>11

LEMMA MappedEmpty ==
    ASSUME NEW A, NEW C, NEW f, Coding(f, A, C)
    PROVE  Mapped(f, <<>>) = <<>>
<1>1. <<>> \in Seq(A) /\ Len(<<>>) = 0
    OBVIOUS
<1>2. ASSUME NEW s \in Seq(A), Len(s) = 0 PROVE Mapped(f, s) = <<>>
    <2>1. PICK r : MapSteps(r, f, s) /\ Mapped(f, s) = r[Len(s)]
        BY MappedRun
    <2> QED
        BY <1>2, <2>1 DEF MapSteps
<1> QED
    BY <1>1, <1>2

(* One byte more.                                                           *)
LEMMA MappedAppend ==
    ASSUME NEW A, NEW C, NEW f, Coding(f, A, C), NEW s \in Seq(A), NEW a \in A
    PROVE  Mapped(f, Append(s, a)) = Mapped(f, s) \o f[a]
<1> DEFINE t == Append(s, a)
           n == Len(s)
<1>1. /\ t \in Seq(A) /\ Len(t) = n + 1 /\ n \in Nat
      /\ (\A i \in 1..n : t[i] = s[i]) /\ t[n + 1] = a
    OBVIOUS
<1> HIDE DEF t
<1>2. PICK r : MapSteps(r, f, s) /\ Mapped(f, s) = r[n]
    BY MappedRun
<1>3. PICK q : MapSteps(q, f, t) /\ Mapped(f, t) = q[Len(t)]
    BY <1>1, MappedRun
<1>4. r[n] = q[n]
    <2>1. n <= Len(t) /\ Len(t) \in Nat /\ \A i \in 1..n : s[i] = t[i]
        BY <1>1
    <2> QED
        BY <2>1, <1>1, <1>2, <1>3, MapStepsAgree
<1> HIDE DEF n
<1>5. n + 1 \in 1..Len(t) /\ (n + 1) - 1 = n
    BY <1>1
<1>6. q[n + 1] = q[n] \o f[a]
    BY <1>1, <1>3, <1>5 DEF MapSteps
<1> QED
    BY <1>1, <1>2, <1>3, <1>4, <1>6 DEF t

(* Mapped works on each part of a sequence for itself.                      *)
LEMMA MappedConcat ==
    ASSUME NEW A, NEW C, NEW f, Coding(f, A, C), NEW s \in Seq(A), NEW t \in Seq(A)
    PROVE  Mapped(f, s \o t) = Mapped(f, s) \o Mapped(f, t)
<1> DEFINE T == {v \in Seq(A) : Mapped(f, s \o v) = Mapped(f, s) \o Mapped(f, v)}
<1>1. Mapped(f, s) \in Seq(C)
    BY MappedRun
<1>2. <<>> \in T
    <2>1. s \o <<>> = s /\ <<>> \in Seq(A) /\ Mapped(f, s) \o <<>> = Mapped(f, s)
        BY <1>1
    <2> QED
        BY <2>1, MappedEmpty
<1>3. ASSUME NEW v \in Seq(A), v \in T, NEW a \in A PROVE Append(v, a) \in T
    <2>1. s \o Append(v, a) = Append(s \o v, a) /\ s \o v \in Seq(A) /\ Append(v, a) \in Seq(A)
        BY ConcatAppend
    <2>2. Mapped(f, s \o Append(v, a)) = Mapped(f, s \o v) \o f[a]
        <3> DEFINE w == s \o v
        <3>1. w \in Seq(A) /\ s \o Append(v, a) = Append(w, a)
            BY <2>1
        <3> HIDE DEF w
        <3>2. Mapped(f, Append(w, a)) = Mapped(f, w) \o f[a]
            BY <3>1, MappedAppend
        <3> QED
            BY <3>1, <3>2 DEF w
    <2>3. Mapped(f, Append(v, a)) = Mapped(f, v) \o f[a]
        BY MappedAppend
    <2>4. Mapped(f, v) \in Seq(C) /\ f[a] \in Seq(C)
        BY MappedRun DEF Coding
    <2>5. Mapped(f, s \o v) = Mapped(f, s) \o Mapped(f, v)
        BY <1>3
    <2>6. (Mapped(f, s) \o Mapped(f, v)) \o f[a] = Mapped(f, s) \o (Mapped(f, v) \o f[a])
        <3> DEFINE x == Mapped(f, s)
                   y == Mapped(f, v)
                   z == f[a]
        <3>1. x \in Seq(C) /\ y \in Seq(C) /\ z \in Seq(C)
            BY <1>1, <2>4
        <3> HIDE DEF x, y, z
        <3>2. (x \o y) \o z = x \o (y \o z)
            BY <3>1, ConcatAssociative
        <3> QED
            BY <3>2 DEF x, y, z
    <2> QED
        BY <2>1, <2>2, <2>3, <2>5, <2>6
<1> HIDE DEF T
<1>4. Seq(A) \subseteq T
    BY <1>2, <1>3, SeqInduction
<1> QED
    BY <1>4 DEF T

-----------------------------------------------------------------------------
(* Unescape                                                                 *)

Accs == [out : Seq(Byte), escaped : BOOLEAN, err : BOOLEAN]
Acc(out, escaped, err) == [out |-> out, escaped |-> escaped, err |-> err]
Started0 == Acc(<<>>, FALSE, FALSE)

LEMMA UnescapeByteType ==
    ASSUME NEW x \in Accs, NEW b \in Byte
    PROVE  UnescapeByte(x, b) \in Accs
<1>1. UnescapeMap(b) \in Byte
    BY DEF UnescapeMap, ProtocolFlag, ProtocolEscape, Byte
<1>2. Append(x.out, UnescapeMap(b)) \in Seq(Byte) /\ Append(x.out, b) \in Seq(Byte)
    BY <1>1 DEF Accs
<1> QED
    BY <1>2 DEF UnescapeByte, Accs

UnSteps(u, s) ==
    u[0] = Started0 /\ \A i \in 1..Len(s) : u[i] = UnescapeByte(u[i - 1], s[i])

(* The same for the loop of Unescape.                                       *)
LEMMA UnStepsAgree ==
    ASSUME NEW s, NEW n \in Nat, NEW r, NEW q, NEW t,
           UnSteps(r, s), UnSteps(q, t), n = Len(s), n <= Len(t), Len(t) \in Nat,
           \A i \in 1..n : s[i] = t[i]
    PROVE  r[n] = q[n]
<1>1. r[0] = q[0]
    BY DEF UnSteps
<1>2. ASSUME NEW i \in 1..n, r[i - 1] = q[i - 1] PROVE r[i] = q[i]
    <2>1. i \in 1..Len(s) /\ i \in 1..Len(t) /\ s[i] = t[i]
        OBVIOUS
    <2>2. r[i] = UnescapeByte(r[i - 1], s[i]) /\ q[i] = UnescapeByte(q[i - 1], t[i])
        BY <2>1 DEF UnSteps
    <2> QED
        BY <1>2, <2>1, <2>2
<1>3. Alike(r, q, n)
    BY <1>1, <1>2 DEF Alike
<1> QED
    BY <1>3, Agree

(* Unescape is the end of a run of its loop.                                *)
LEMMA UnescapeRun ==
    ASSUME NEW s \in Seq(Byte)
    PROVE  Unescape(s) \in Accs /\ \E r : UnSteps(r, s) /\ Unescape(s) = r[Len(s)]
<1> DEFINE n == Len(s)
           F == [i \in 1..n |-> [x \in Accs |-> UnescapeByte(x, s[i])]]
           eq(r) == r = [i \in 0..n |-> IF i = 0 THEN Started0 ELSE UnescapeByte(r[i - 1], s[i])]
<1>1. n \in Nat /\ Started0 \in Accs /\ Loop(F, Accs, n)
    <2>1. \A i \in 1..n : \A x \in Accs : UnescapeByte(x, s[i]) \in Accs
        BY UnescapeByteType
    <2>2. Started0 \in Accs
        BY DEF Started0, Acc, Accs
    <2> QED
        BY <2>1, <2>2 DEF Loop
<1>2. \A i \in 1..n : \A x \in Accs : F[i][x] = UnescapeByte(x, s[i])
    OBVIOUS
<1>3. ASSUME NEW r, eq(r) PROVE UnSteps(r, s)
    <2>1. \A i \in 0..n : r[i] = IF i = 0 THEN Started0 ELSE UnescapeByte(r[i - 1], s[i])
        BY <1>3
    <2>2. 0 \in 0..n /\ \A i \in 1..n : i \in 0..n /\ i # 0
        BY <1>1
    <2> HIDE DEF n
    <2>3. \A i \in 1..n : r[i] = UnescapeByte(r[i - 1], s[i])
        BY <2>1, <2>2
    <2> QED
        BY <2>1, <2>2, <2>3 DEF UnSteps, n
<1>4. (\E r : eq(r)) => \E q : eq(q) /\ Unescape(s) = q[n]
    BY DEF Unescape, Started0, Acc
<1> HIDE DEF F
<1>5. PICK r : Run(r, F, Started0, Accs, n)
    <2> HIDE DEF n
    <2> QED
        BY <1>1, Recursion
<1>6. ASSUME NEW i \in 1..n PROVE r[i] = UnescapeByte(r[i - 1], s[i])
    <2>1. i - 1 \in 0..n
        OBVIOUS
    <2>2. r[i - 1] \in Accs
        BY <2>1, <1>5 DEF Run
    <2> QED
        BY <2>2, <1>2, <1>5 DEF Run
<1>7. eq(r)
    <2>1. \A i \in 0..n : i = 0 \/ i \in 1..n
        OBVIOUS
    <2>2. \A i \in 0..n : r[i] = IF i = 0 THEN Started0 ELSE UnescapeByte(r[i - 1], s[i])
        BY <1>5, <1>6, <2>1 DEF Run
    <2> HIDE DEF n
    <2> QED
        BY <1>5, <2>2 DEF Run
<1>8. PICK q : eq(q) /\ Unescape(s) = q[n]
    BY <1>4, <1>7
<1>9. UnSteps(q, s) /\ UnSteps(r, s)
    BY <1>3, <1>7, <1>8
<1>10. r[n] = q[n]
    <2> HIDE DEF eq
    <2> QED
        BY <1>1, <1>9, UnStepsAgree
<1>11. r[n] \in Accs
    BY <1>1, <1>5 DEF Run
<1> QED
    BY <1>8, <1>9, <1>10, <1>11

LEMMA UnescapeEmpty == Unescape(<<>>) = Started0
<1>1. <<>> \in Seq(Byte) /\ Len(<<>>) = 0
    OBVIOUS
<1>2. ASSUME NEW s \in Seq(Byte), Len(s) = 0 PROVE Unescape(s) = Started0
    <2>1. PICK r : UnSteps(r, s) /\ Unescape(s) = r[Len(s)]
        BY UnescapeRun
    <2> QED
        BY <1>2, <2>1 DEF UnSteps
<1> QED
    BY <1>1, <1>2

(* Unescape goes on byte by byte from what it has.                          *)
LEMMA UnescapeAppend ==
    ASSUME NEW s \in Seq(Byte), NEW b \in Byte
    PROVE  Unescape(Append(s, b)) = UnescapeByte(Unescape(s), b)
<1> DEFINE t == Append(s, b)
           n == Len(s)
<1>1. /\ t \in Seq(Byte) /\ Len(t) = n + 1 /\ n \in Nat
      /\ (\A i \in 1..n : t[i] = s[i]) /\ t[n + 1] = b
    BY AppendFacts
<1> HIDE DEF t
<1>2. PICK r : UnSteps(r, s) /\ Unescape(s) = r[n]
    BY UnescapeRun
<1>3. PICK q : UnSteps(q, t) /\ Unescape(t) = q[Len(t)]
    BY <1>1, UnescapeRun
<1>4. r[n] = q[n]
    <2>1. n <= Len(t) /\ Len(t) \in Nat /\ \A i \in 1..n : s[i] = t[i]
        BY <1>1
    <2> QED
        BY <2>1, <1>1, <1>2, <1>3, UnStepsAgree
<1> HIDE DEF n
<1>5. n + 1 \in 1..Len(t) /\ (n + 1) - 1 = n
    BY <1>1
<1>6. q[n + 1] = UnescapeByte(q[n], b)
    BY <1>1, <1>3, <1>5 DEF UnSteps
<1> QED
    BY <1>1, <1>2, <1>3, <1>4, <1>6 DEF t

-----------------------------------------------------------------------------
(* The exclusive or                                                         *)

Places == {1, 2, 4, 8, 16, 32, 64, 128}
Sum(f) == f[1] + 2 * f[2] + 4 * f[4] + 8 * f[8] + 16 * f[16] + 32 * f[32] + 64 * f[64] + 128 * f[128]

LEMMA BitType == \A x \in Nat : \A p \in Places : Bit(x, p) \in {0, 1}
    BY DEF Bit, Places

LEMMA SumType == ASSUME NEW f \in [Places -> {0, 1}] PROVE Sum(f) \in Byte
    BY DEF Sum, Byte, Places

(* The bits of a sum of bits.                                               *)
LEMMA BitsOfSum ==
    ASSUME NEW f \in [Places -> {0, 1}], NEW p \in Places
    PROVE  Bit(Sum(f), p) = f[p]
<1>1. \A k \in Places : f[k] \in {0, 1}
    OBVIOUS
<1>2. ASSUME NEW a \in {0, 1}, NEW b \in {0, 1}, NEW c \in {0, 1}, NEW d \in {0, 1},
             NEW e \in {0, 1}, NEW g \in {0, 1}, NEW h \in {0, 1}, NEW i \in {0, 1}, NEW s,
             s = a + 2 * b + 4 * c + 8 * d + 16 * e + 32 * g + 64 * h + 128 * i
      PROVE  /\ Bit(s, 1) = a /\ Bit(s, 2) = b /\ Bit(s, 4) = c /\ Bit(s, 8) = d
             /\ Bit(s, 16) = e /\ Bit(s, 32) = g /\ Bit(s, 64) = h /\ Bit(s, 128) = i
    BY <1>2, SMTT(60) DEF Bit
<1>3. f[1] \in {0, 1} /\ f[2] \in {0, 1} /\ f[4] \in {0, 1} /\ f[8] \in {0, 1}
      /\ f[16] \in {0, 1} /\ f[32] \in {0, 1} /\ f[64] \in {0, 1} /\ f[128] \in {0, 1}
    BY <1>1 DEF Places
<1>4. /\ Bit(Sum(f), 1) = f[1] /\ Bit(Sum(f), 2) = f[2] /\ Bit(Sum(f), 4) = f[4]
      /\ Bit(Sum(f), 8) = f[8] /\ Bit(Sum(f), 16) = f[16] /\ Bit(Sum(f), 32) = f[32]
      /\ Bit(Sum(f), 64) = f[64] /\ Bit(Sum(f), 128) = f[128]
    <2>1. Sum(f) = f[1] + 2 * f[2] + 4 * f[4] + 8 * f[8] + 16 * f[16] + 32 * f[32] + 64 * f[64]
                   + 128 * f[128]
        BY DEF Sum
    <2> QED
        BY <2>1, <1>2, <1>3, SMT
<1> QED
    BY <1>4 DEF Places

(* A byte is the sum of its bits.                                           *)
LEMMA SumOfBits ==
    ASSUME NEW x \in Byte
    PROVE  x = Sum([p \in Places |-> Bit(x, p)])
<1>1. x = Bit(x, 1) + 2 * Bit(x, 2) + 4 * Bit(x, 4) + 8 * Bit(x, 8) + 16 * Bit(x, 16)
            + 32 * Bit(x, 32) + 64 * Bit(x, 64) + 128 * Bit(x, 128)
    BY SMTT(60) DEF Bit, Byte
<1> QED
    BY <1>1 DEF Sum, Places

(* Xor gives the byte whose bits are the sums, modulo 2, of the bits.       *)
LEMMA XorIsSum ==
    ASSUME NEW x \in Byte, NEW y \in Byte
    PROVE  Xor(x, y) = Sum([p \in Places |-> (Bit(x, p) + Bit(y, p)) % 2])
<1> DEFINE f == [p \in Places |-> (Bit(x, p) + Bit(y, p)) % 2]
<1>1. \A p \in Places : f[p] = (Bit(x, p) + Bit(y, p)) % 2
    OBVIOUS
<1> HIDE DEF f
<1>2. Xor(x, y) = 1 * f[1] + 2 * f[2] + 4 * f[4] + 8 * f[8] + 16 * f[16] + 32 * f[32]
                  + 64 * f[64] + 128 * f[128]
    BY <1>1 DEF Xor, Places
<1>3. f[1] \in {0, 1}
    <2>1. Bit(x, 1) \in {0, 1} /\ Bit(y, 1) \in {0, 1}
        BY BitType DEF Places, Byte
    <2> QED
        BY <1>1, <2>1 DEF Places
<1>4. 1 * f[1] = f[1]
    BY <1>3
<1>5. Xor(x, y) = Sum(f)
    BY <1>2, <1>4 DEF Sum
<1> QED
    BY <1>5 DEF f

(* Each bit of an exclusive or.                                             *)
LEMMA XorFacts ==
    ASSUME NEW x \in Byte, NEW y \in Byte
    PROVE  Xor(x, y) \in Byte /\ \A p \in Places : Bit(Xor(x, y), p) = (Bit(x, p) + Bit(y, p)) % 2
<1> DEFINE f == [p \in Places |-> (Bit(x, p) + Bit(y, p)) % 2]
<1>1. \A p \in Places : Bit(x, p) \in {0, 1} /\ Bit(y, p) \in {0, 1}
    BY BitType DEF Byte
<1>2. \A p \in Places : (Bit(x, p) + Bit(y, p)) % 2 \in {0, 1}
    BY <1>1
<1>3. f \in [Places -> {0, 1}]
    BY <1>2
<1>4. Xor(x, y) = Sum(f)
    BY XorIsSum
<1>5. \A p \in Places : f[p] = (Bit(x, p) + Bit(y, p)) % 2
    OBVIOUS
<1> HIDE DEF f
<1> QED
    BY <1>3, <1>4, <1>5, SumType, BitsOfSum

(* Bytes with the same bits are the same.                                   *)
LEMMA SameBits ==
    ASSUME NEW x \in Byte, NEW y \in Byte, \A p \in Places : Bit(x, p) = Bit(y, p)
    PROVE  x = y
<1>1. [p \in Places |-> Bit(x, p)] = [p \in Places |-> Bit(y, p)]
    OBVIOUS
<1> QED
    BY <1>1, SumOfBits

LEMMA XorAssociative ==
    ASSUME NEW x \in Byte, NEW y \in Byte, NEW z \in Byte
    PROVE  Xor(Xor(x, y), z) = Xor(x, Xor(y, z))
<1>1. Xor(x, y) \in Byte /\ Xor(y, z) \in Byte
    BY XorFacts
<1>2. Xor(Xor(x, y), z) \in Byte /\ Xor(x, Xor(y, z)) \in Byte
    BY <1>1, XorFacts
<1>3. ASSUME NEW p \in Places PROVE Bit(Xor(Xor(x, y), z), p) = Bit(Xor(x, Xor(y, z)), p)
    <2>1. Bit(x, p) \in {0, 1} /\ Bit(y, p) \in {0, 1} /\ Bit(z, p) \in {0, 1}
        BY BitType DEF Byte
    <2>2. Bit(Xor(Xor(x, y), z), p) = (((Bit(x, p) + Bit(y, p)) % 2) + Bit(z, p)) % 2
        BY <1>1, XorFacts
    <2>3. Bit(Xor(x, Xor(y, z)), p) = (Bit(x, p) + ((Bit(y, p) + Bit(z, p)) % 2)) % 2
        <3>1. Bit(Xor(x, Xor(y, z)), p) = (Bit(x, p) + Bit(Xor(y, z), p)) % 2
            BY <1>1, XorFacts
        <3>2. Bit(Xor(y, z), p) = (Bit(y, p) + Bit(z, p)) % 2
            BY XorFacts
        <3> QED
            BY <2>1, <3>1, <3>2
    <2>4. \A a, b, c \in {0, 1} : (((a + b) % 2) + c) % 2 = (a + ((b + c) % 2)) % 2
        OBVIOUS
    <2> QED
        BY <2>1, <2>2, <2>3, <2>4
<1> QED
    BY <1>2, <1>3, SameBits

LEMMA XorLaws ==
    ASSUME NEW x \in Byte, NEW y \in Byte
    PROVE  /\ Xor(x, y) = Xor(y, x)
           /\ Xor(x, 0) = x /\ Xor(0, x) = x /\ Xor(x, x) = 0
<1>1. 0 \in Byte /\ \A p \in Places : Bit(0, p) = 0
    BY DEF Bit, Byte, Places
<1>2. Xor(x, y) \in Byte /\ Xor(y, x) \in Byte /\ Xor(x, 0) \in Byte /\ Xor(0, x) \in Byte
      /\ Xor(x, x) \in Byte
    BY <1>1, XorFacts
<1>3. \A p \in Places : Bit(x, p) \in {0, 1} /\ Bit(y, p) \in {0, 1}
    BY BitType DEF Byte
<1>4. \A a, b \in {0, 1} : (a + b) % 2 = (b + a) % 2 /\ (a + 0) % 2 = a /\ (0 + a) % 2 = a
                           /\ (a + a) % 2 = 0
    OBVIOUS
<1>5. \A p \in Places : Bit(Xor(x, y), p) = Bit(Xor(y, x), p)
    BY <1>3, <1>4, XorFacts
<1>6. \A p \in Places : Bit(Xor(x, 0), p) = Bit(x, p) /\ Bit(Xor(0, x), p) = Bit(x, p)
    BY <1>1, <1>3, <1>4, XorFacts
<1>7. \A p \in Places : Bit(Xor(x, x), p) = Bit(0, p)
    BY <1>1, <1>3, <1>4, XorFacts
<1> QED
    BY <1>1, <1>2, <1>5, <1>6, <1>7, SameBits

(* A byte that differs makes the result differ.                             *)
LEMMA XorCancels ==
    ASSUME NEW x \in Byte, NEW y \in Byte, NEW z \in Byte, Xor(x, z) = Xor(y, z)
    PROVE  x = y
<1>1. Xor(Xor(x, z), z) = Xor(Xor(y, z), z)
    OBVIOUS
<1>2. Xor(Xor(x, z), z) = Xor(x, Xor(z, z)) /\ Xor(Xor(y, z), z) = Xor(y, Xor(z, z))
    BY XorAssociative
<1>3. Xor(z, z) = 0 /\ Xor(x, 0) = x /\ Xor(y, 0) = y
    BY XorLaws
<1> QED
    BY <1>1, <1>2, <1>3

(* 124 before 1 or 2 has the checksum of the byte that the escape stands    *)
(* for.                                                                     *)
LEMMA XorEscapes == Xor(124, 1) = 125 /\ Xor(124, 2) = 126
    BY DEF Xor, Bit

-----------------------------------------------------------------------------
(* The checksum                                                             *)

CkSteps(u, s) ==
    u[0] = 0 /\ \A i \in 1..Len(s) : u[i] = Xor(u[i - 1], s[i])

LEMMA CkStepsAgree ==
    ASSUME NEW s, NEW n \in Nat, NEW r, NEW q, NEW t,
           CkSteps(r, s), CkSteps(q, t), n = Len(s), n <= Len(t), Len(t) \in Nat,
           \A i \in 1..n : s[i] = t[i]
    PROVE  r[n] = q[n]
<1>1. r[0] = q[0]
    BY DEF CkSteps
<1>2. ASSUME NEW i \in 1..n, r[i - 1] = q[i - 1] PROVE r[i] = q[i]
    <2>1. i \in 1..Len(s) /\ i \in 1..Len(t) /\ s[i] = t[i]
        OBVIOUS
    <2>2. r[i] = Xor(r[i - 1], s[i]) /\ q[i] = Xor(q[i - 1], t[i])
        BY <2>1 DEF CkSteps
    <2> QED
        BY <1>2, <2>1, <2>2
<1>3. Alike(r, q, n)
    BY <1>1, <1>2 DEF Alike
<1> QED
    BY <1>3, Agree

(* CalculateChecksum is the end of a run of its loop.                       *)
LEMMA ChecksumRun ==
    ASSUME NEW s \in Seq(Byte)
    PROVE  CalculateChecksum(s) \in Byte /\ \E r : CkSteps(r, s) /\ CalculateChecksum(s) = r[Len(s)]
<1> DEFINE n == Len(s)
           F == [i \in 1..n |-> [x \in Byte |-> Xor(x, s[i])]]
           eq(r) == r = [i \in 0..n |-> IF i = 0 THEN 0 ELSE Xor(r[i - 1], s[i])]
<1>1. n \in Nat /\ 0 \in Byte /\ Loop(F, Byte, n)
    <2>1. \A i \in 1..n : \A x \in Byte : Xor(x, s[i]) \in Byte
        BY XorFacts
    <2>2. 0 \in Byte
        BY DEF Byte
    <2> QED
        BY <2>1, <2>2 DEF Loop
<1>2. \A i \in 1..n : \A x \in Byte : F[i][x] = Xor(x, s[i])
    OBVIOUS
<1>3. ASSUME NEW r, eq(r) PROVE CkSteps(r, s)
    <2>1. \A i \in 0..n : r[i] = IF i = 0 THEN 0 ELSE Xor(r[i - 1], s[i])
        BY <1>3
    <2>2. 0 \in 0..n /\ \A i \in 1..n : i \in 0..n /\ i # 0
        BY <1>1
    <2> HIDE DEF n
    <2>3. \A i \in 1..n : r[i] = Xor(r[i - 1], s[i])
        BY <2>1, <2>2
    <2> QED
        BY <2>1, <2>2, <2>3 DEF CkSteps, n
<1>4. (\E r : eq(r)) => \E q : eq(q) /\ CalculateChecksum(s) = q[n]
    BY DEF CalculateChecksum
<1> HIDE DEF F
<1>5. PICK r : Run(r, F, 0, Byte, n)
    <2> HIDE DEF n
    <2> QED
        BY <1>1, Recursion
<1>6. ASSUME NEW i \in 1..n PROVE r[i] = Xor(r[i - 1], s[i])
    <2>1. i - 1 \in 0..n
        OBVIOUS
    <2>2. r[i - 1] \in Byte
        BY <2>1, <1>5 DEF Run
    <2> QED
        BY <2>2, <1>2, <1>5 DEF Run
<1>7. eq(r)
    <2>1. \A i \in 0..n : i = 0 \/ i \in 1..n
        OBVIOUS
    <2>2. \A i \in 0..n : r[i] = IF i = 0 THEN 0 ELSE Xor(r[i - 1], s[i])
        BY <1>5, <1>6, <2>1 DEF Run
    <2> HIDE DEF n
    <2> QED
        BY <1>5, <2>2 DEF Run
<1>8. PICK q : eq(q) /\ CalculateChecksum(s) = q[n]
    BY <1>4, <1>7
<1>9. CkSteps(q, s) /\ CkSteps(r, s)
    BY <1>3, <1>7, <1>8
<1>10. r[n] = q[n]
    <2> HIDE DEF eq
    <2> QED
        BY <1>1, <1>9, CkStepsAgree
<1>11. r[n] \in Byte
    BY <1>1, <1>5 DEF Run
<1> QED
    BY <1>8, <1>9, <1>10, <1>11

LEMMA ChecksumEmpty == CalculateChecksum(<<>>) = 0
<1>1. <<>> \in Seq(Byte) /\ Len(<<>>) = 0
    OBVIOUS
<1>2. ASSUME NEW s \in Seq(Byte), Len(s) = 0 PROVE CalculateChecksum(s) = 0
    <2>1. PICK r : CkSteps(r, s) /\ CalculateChecksum(s) = r[Len(s)]
        BY ChecksumRun
    <2> QED
        BY <1>2, <2>1 DEF CkSteps
<1> QED
    BY <1>1, <1>2

LEMMA ChecksumAppend ==
    ASSUME NEW s \in Seq(Byte), NEW b \in Byte
    PROVE  CalculateChecksum(Append(s, b)) = Xor(CalculateChecksum(s), b)
<1> DEFINE t == Append(s, b)
           n == Len(s)
<1>1. /\ t \in Seq(Byte) /\ Len(t) = n + 1 /\ n \in Nat
      /\ (\A i \in 1..n : t[i] = s[i]) /\ t[n + 1] = b
    BY AppendFacts
<1> HIDE DEF t
<1>2. PICK r : CkSteps(r, s) /\ CalculateChecksum(s) = r[n]
    BY ChecksumRun
<1>3. PICK q : CkSteps(q, t) /\ CalculateChecksum(t) = q[Len(t)]
    BY <1>1, ChecksumRun
<1>4. r[n] = q[n]
    <2>1. n <= Len(t) /\ Len(t) \in Nat /\ \A i \in 1..n : s[i] = t[i]
        BY <1>1
    <2> QED
        BY <2>1, <1>1, <1>2, <1>3, CkStepsAgree
<1> HIDE DEF n
<1>5. n + 1 \in 1..Len(t) /\ (n + 1) - 1 = n
    BY <1>1
<1>6. q[n + 1] = Xor(q[n], b)
    BY <1>1, <1>3, <1>5 DEF CkSteps
<1> QED
    BY <1>1, <1>2, <1>3, <1>4, <1>6 DEF t

(* The checksum of two parts is the exclusive or of theirs.                 *)
LEMMA ChecksumConcat ==
    ASSUME NEW s \in Seq(Byte), NEW t \in Seq(Byte)
    PROVE  CalculateChecksum(s \o t) = Xor(CalculateChecksum(s), CalculateChecksum(t))
<1> DEFINE T == {v \in Seq(Byte) :
                     CalculateChecksum(s \o v) = Xor(CalculateChecksum(s), CalculateChecksum(v))}
<1>1. CalculateChecksum(s) \in Byte
    BY ChecksumRun
<1>2. <<>> \in T
    <2>1. s \o <<>> = s /\ <<>> \in Seq(Byte)
        OBVIOUS
    <2>2. Xor(CalculateChecksum(s), 0) = CalculateChecksum(s)
        BY <1>1, XorLaws
    <2> QED
        BY <2>1, <2>2, ChecksumEmpty
<1>3. ASSUME NEW v \in Seq(Byte), v \in T, NEW b \in Byte PROVE Append(v, b) \in T
    <2>1. s \o Append(v, b) = Append(s \o v, b) /\ s \o v \in Seq(Byte)
        BY ConcatAppend
    <2>2. CalculateChecksum(s \o Append(v, b)) = Xor(CalculateChecksum(s \o v), b)
        BY <2>1, ChecksumAppend
    <2>3. CalculateChecksum(Append(v, b)) = Xor(CalculateChecksum(v), b)
        BY ChecksumAppend
    <2>4. CalculateChecksum(v) \in Byte
        BY ChecksumRun
    <2>5. CalculateChecksum(s \o v) = Xor(CalculateChecksum(s), CalculateChecksum(v))
        BY <1>3
    <2>6. Xor(Xor(CalculateChecksum(s), CalculateChecksum(v)), b)
              = Xor(CalculateChecksum(s), Xor(CalculateChecksum(v), b))
        BY <1>1, <2>4, XorAssociative
    <2>7. Append(v, b) \in Seq(Byte)
        OBVIOUS
    <2> QED
        BY <2>2, <2>3, <2>5, <2>6, <2>7
<1> HIDE DEF T
<1>4. Seq(Byte) \subseteq T
    BY <1>2, <1>3, SeqInduction
<1> QED
    BY <1>4 DEF T

LEMMA ChecksumOne == ASSUME NEW b \in Byte PROVE CalculateChecksum(<<b>>) = b
<1>1. <<>> \in Seq(Byte) /\ Append(<<>>, b) = <<b>>
    OBVIOUS
<1>2. CalculateChecksum(Append(<<>>, b)) = Xor(CalculateChecksum(<<>>), b)
    BY <1>1, ChecksumAppend
<1> QED
    BY <1>1, <1>2, ChecksumEmpty, XorLaws

-----------------------------------------------------------------------------
(* Escape, and Unescape after it                                            *)

Special == {ProtocolFlag, ProtocolEscape}

LEMMA EscapeCoding == Coding(EscapeByte, Byte, Byte)
<1>1. ASSUME NEW b \in Byte PROVE EscapeByte[b] \in Seq(Byte)
    <2>1. EscapeMap(b) \in Byte /\ ProtocolEscape \in Byte
        BY DEF EscapeMap, ProtocolEscape, Byte
    <2>2. <<ProtocolEscape, EscapeMap(b)>> \in Seq(Byte) /\ <<b>> \in Seq(Byte)
        BY <2>1
    <2> QED
        BY <2>2 DEF EscapeByte
<1> QED
    BY <1>1 DEF Coding, EscapeByte

(* Escape works on each part for itself.                                    *)
LEMMA EscapeOf ==
    ASSUME NEW b \in Byte
    PROVE  /\ b \in Special => EscapeByte[b] = <<ProtocolEscape, EscapeMap(b)>>
           /\ b \notin Special => EscapeByte[b] = <<b>>
    BY DEF EscapeByte, Special

LEMMA EscapeFacts ==
    /\ Escape(<<>>) = <<>>
    /\ \A s \in Seq(Byte) : Escape(s) \in Seq(Byte)
    /\ \A s \in Seq(Byte) : \A b \in Byte : Escape(Append(s, b)) = Escape(s) \o EscapeByte[b]
    /\ \A s, t \in Seq(Byte) : Escape(s \o t) = Escape(s) \o Escape(t)
<1>1. Escape(<<>>) = <<>>
    BY EscapeCoding, MappedEmpty DEF Escape
<1>2. \A s \in Seq(Byte) : Escape(s) \in Seq(Byte)
    BY EscapeCoding, MappedRun DEF Escape
<1>3. \A s \in Seq(Byte) : \A b \in Byte : Escape(Append(s, b)) = Escape(s) \o EscapeByte[b]
    BY EscapeCoding, MappedAppend DEF Escape
<1>4. \A s, t \in Seq(Byte) : Escape(s \o t) = Escape(s) \o Escape(t)
    BY EscapeCoding, MappedConcat DEF Escape
<1> QED
    BY <1>1, <1>2, <1>3, <1>4

LEMMA EscapeOne == ASSUME NEW b \in Byte PROVE Escape(<<b>>) = EscapeByte[b]
<1>1. <<>> \in Seq(Byte) /\ Append(<<>>, b) = <<b>>
    OBVIOUS
<1>2. Escape(Append(<<>>, b)) = Escape(<<>>) \o EscapeByte[b]
    BY <1>1, EscapeFacts
<1>3. EscapeByte[b] \in Seq(Byte)
    BY EscapeCoding DEF Coding
<1>4. <<>> \o EscapeByte[b] = EscapeByte[b]
    BY <1>3
<1> QED
    BY <1>1, <1>2, <1>4, EscapeFacts

(* No flag is left in what has been escaped.                                *)
FlagFree(s) == \A i \in 1..Len(s) : s[i] # ProtocolFlag

(* Escape leaves no flag, so the first flag after a frame's is its end.     *)
LEMMA EscapeFlagFree == ASSUME NEW s \in Seq(Byte) PROVE FlagFree(Escape(s))
<1> DEFINE T == {v \in Seq(Byte) : FlagFree(Escape(v))}
<1>1. <<>> \in T
    <2>1. Len(<<>>) = 0 /\ <<>> \in Seq(Byte)
        OBVIOUS
    <2> QED
        BY <2>1, EscapeFacts DEF FlagFree
<1>2. ASSUME NEW v \in Seq(Byte), v \in T, NEW b \in Byte PROVE Append(v, b) \in T
    <2> DEFINE e == Escape(v)
               c == EscapeByte[b]
    <2>1. Escape(Append(v, b)) = e \o c /\ Append(v, b) \in Seq(Byte) /\ e \in Seq(Byte)
        BY EscapeFacts, AppendFacts
    <2>2. c \in Seq(Byte)
        BY EscapeCoding DEF Coding
    <2>3. FlagFree(c)
        <3>1. CASE b \in Special
            <4>1. c = <<ProtocolEscape, EscapeMap(b)>>
                BY <3>1, EscapeOf
            <4>2. ProtocolEscape # ProtocolFlag /\ EscapeMap(b) # ProtocolFlag
                BY DEF EscapeMap, ProtocolFlag, ProtocolEscape
            <4> QED
                BY <4>1, <4>2 DEF FlagFree
        <3>2. CASE b \notin Special
            <4>1. c = <<b>> /\ b # ProtocolFlag
                BY <3>2, EscapeOf DEF Special
            <4> QED
                BY <4>1 DEF FlagFree
        <3> QED
            BY <3>1, <3>2
    <2>4. FlagFree(e)
        BY <1>2
    <2> HIDE DEF e, c
    <2>5. ASSUME NEW i \in 1..Len(e \o c) PROVE (e \o c)[i] # ProtocolFlag
        <3>1. CASE i <= Len(e)
            BY <2>1, <2>2, <2>4, <3>1 DEF FlagFree
        <3>2. CASE ~(i <= Len(e))
            <4>1. i - Len(e) \in 1..Len(c) /\ (e \o c)[i] = c[i - Len(e)]
                BY <2>1, <2>2, <3>2
            <4> QED
                BY <2>3, <4>1 DEF FlagFree
        <3> QED
            BY <3>1, <3>2
    <2> QED
        BY <2>1, <2>5 DEF FlagFree
<1> HIDE DEF T
<1>3. Seq(Byte) \subseteq T
    BY <1>1, <1>2, SeqInduction
<1> QED
    BY <1>3 DEF T

-----------------------------------------------------------------------------
(* Unescape, from a known result on                                         *)

LEMMA AccFields ==
    ASSUME NEW o \in Seq(Byte), NEW e \in BOOLEAN, NEW r \in BOOLEAN
    PROVE  /\ Acc(o, e, r) \in Accs
           /\ Acc(o, e, r).out = o /\ Acc(o, e, r).escaped = e /\ Acc(o, e, r).err = r
    BY DEF Acc, Accs

LEMMA UnescapeByteIs ==
    ASSUME NEW o \in Seq(Byte), NEW b \in Byte
    PROVE  /\ b # ProtocolEscape =>
                UnescapeByte(Acc(o, FALSE, FALSE), b) = Acc(Append(o, b), FALSE, FALSE)
           /\ UnescapeByte(Acc(o, FALSE, FALSE), ProtocolEscape) = Acc(o, TRUE, FALSE)
           /\ b \in {1, 2} =>
                UnescapeByte(Acc(o, TRUE, FALSE), b) = Acc(Append(o, UnescapeMap(b)), FALSE, FALSE)
           /\ b \notin {1, 2} => UnescapeByte(Acc(o, TRUE, FALSE), b).err
    BY DEF UnescapeByte, Acc

LEMMA EscapeMaps ==
    /\ ProtocolEscape \in Byte /\ ProtocolFlag \in Byte
    /\ \A b \in Special : EscapeMap(b) \in {1, 2} /\ UnescapeMap(EscapeMap(b)) = b
    /\ \A e \in {1, 2} : e \in Byte /\ UnescapeMap(e) \in Special /\ EscapeMap(UnescapeMap(e)) = e
    /\ Special \subseteq Byte
    BY DEF EscapeMap, UnescapeMap, Special, ProtocolFlag, ProtocolEscape, Byte

(* An escaped byte after a whole one.                                       *)
LEMMA UnescapeOneMore ==
    ASSUME NEW x \in Seq(Byte), NEW o \in Seq(Byte), Unescape(x) = Acc(o, FALSE, FALSE),
           NEW b \in Byte
    PROVE  Unescape(x \o EscapeByte[b]) = Acc(Append(o, b), FALSE, FALSE)
<1>1. CASE b \notin Special
    <2>1. EscapeByte[b] = <<b>> /\ b # ProtocolEscape
        BY <1>1, EscapeOf DEF Special
    <2>2. x \o <<b>> = Append(x, b)
        BY AppendFacts
    <2> QED
        BY <2>1, <2>2, UnescapeAppend, UnescapeByteIs
<1>2. CASE b \in Special
    <2> DEFINE e == EscapeMap(b)
    <2>1. EscapeByte[b] = <<ProtocolEscape, e>> /\ e \in {1, 2} /\ e \in Byte /\ UnescapeMap(e) = b
        BY <1>2, EscapeOf, EscapeMaps
    <2>2. ProtocolEscape \in Byte
        BY EscapeMaps
    <2> HIDE DEF e
    <2> DEFINE y == Append(x, ProtocolEscape)
    <2>3. y \in Seq(Byte) /\ x \o <<ProtocolEscape, e>> = Append(y, e)
        BY <2>1, <2>2
    <2>4. Unescape(y) = Acc(o, TRUE, FALSE)
        BY <2>2, UnescapeAppend, UnescapeByteIs
    <2> HIDE DEF y
    <2>5. Unescape(Append(y, e)) = UnescapeByte(Unescape(y), e)
        BY <2>1, <2>3, UnescapeAppend
    <2>6. UnescapeByte(Acc(o, TRUE, FALSE), e) = Acc(Append(o, b), FALSE, FALSE)
        BY <2>1, UnescapeByteIs
    <2> QED
        BY <2>1, <2>3, <2>4, <2>5, <2>6
<1> QED
    BY <1>1, <1>2

(* What is escaped comes back, after whatever came back before.             *)
LEMMA UnescapeMore ==
    ASSUME NEW x \in Seq(Byte), NEW o \in Seq(Byte), Unescape(x) = Acc(o, FALSE, FALSE),
           NEW q \in Seq(Byte)
    PROVE  Unescape(x \o Escape(q)) = Acc(o \o q, FALSE, FALSE)
<1> DEFINE T == {v \in Seq(Byte) : Unescape(x \o Escape(v)) = Acc(o \o v, FALSE, FALSE)}
<1>1. <<>> \in T
    <2>1. x \o <<>> = x /\ o \o <<>> = o /\ <<>> \in Seq(Byte)
        OBVIOUS
    <2> QED
        BY <2>1, EscapeFacts
<1>2. ASSUME NEW v \in Seq(Byte), v \in T, NEW b \in Byte PROVE Append(v, b) \in T
    <2> DEFINE ev == Escape(v)
               c == EscapeByte[b]
               y == x \o ev
               ov == o \o v
    <2>1. Unescape(y) = Acc(ov, FALSE, FALSE)
        BY <1>2
    <2>2. Escape(Append(v, b)) = ev \o c /\ ev \in Seq(Byte) /\ c \in Seq(Byte)
        BY EscapeFacts, EscapeCoding DEF Coding
    <2>3. o \o Append(v, b) = Append(ov, b) /\ ov \in Seq(Byte) /\ Append(v, b) \in Seq(Byte)
        BY ConcatAppend
    <2> HIDE DEF c, ev, ov
    <2>4. y \in Seq(Byte)
        BY <2>2
    <2>5. x \o (ev \o c) = y \o c
        BY <2>2, ByteAssoc, Zenon
    <2> HIDE DEF y
    <2>6. Unescape(y \o c) = Acc(Append(ov, b), FALSE, FALSE)
        BY <2>1, <2>3, <2>4, UnescapeOneMore DEF c
    <2> QED
        BY <2>2, <2>3, <2>5, <2>6
<1> HIDE DEF T
<1>3. Seq(Byte) \subseteq T
    BY <1>1, <1>2, SeqInduction
<1> QED
    BY <1>3 DEF T

(* Unescape undoes Escape.                                                  *)
LEMMA UnescapeEscape ==
    ASSUME NEW q \in Seq(Byte)
    PROVE  Unescape(Escape(q)) = Acc(q, FALSE, FALSE)
<1>1. <<>> \in Seq(Byte) /\ <<>> \o q = q
    OBVIOUS
<1>2. Escape(q) \in Seq(Byte)
    BY EscapeFacts
<1>3. <<>> \o Escape(q) = Escape(q)
    BY <1>2
<1>4. Unescape(<<>>) = Acc(<<>>, FALSE, FALSE)
    BY UnescapeEmpty DEF Started0
<1>5. Unescape(<<>> \o Escape(q)) = Acc(<<>> \o q, FALSE, FALSE)
    BY <1>1, <1>4, UnescapeMore
<1> QED
    BY <1>1, <1>3, <1>5

(* After an error there is no going on.                                     *)
LEMMA ErrStays ==
    ASSUME NEW x \in Seq(Byte), Unescape(x).err, NEW y \in Seq(Byte)
    PROVE  Unescape(x \o y).err
<1> DEFINE T == {v \in Seq(Byte) : Unescape(x \o v).err}
<1>1. <<>> \in T
    <2>1. x \o <<>> = x /\ <<>> \in Seq(Byte)
        OBVIOUS
    <2> QED
        BY <2>1
<1>2. ASSUME NEW v \in Seq(Byte), v \in T, NEW b \in Byte PROVE Append(v, b) \in T
    <2> DEFINE w == x \o v
    <2>1. x \o Append(v, b) = Append(w, b) /\ w \in Seq(Byte) /\ Append(v, b) \in Seq(Byte)
        BY ConcatAppend
    <2>2. Unescape(w).err
        BY <1>2
    <2> HIDE DEF w
    <2>3. Unescape(Append(w, b)) = UnescapeByte(Unescape(w), b)
        BY <2>1, UnescapeAppend
    <2>4. UnescapeByte(Unescape(w), b) = Unescape(w)
        BY <2>2 DEF UnescapeByte
    <2> QED
        BY <2>1, <2>2, <2>3, <2>4
<1> HIDE DEF T
<1>3. Seq(Byte) \subseteq T
    BY <1>1, <1>2, SeqInduction
<1> QED
    BY <1>3 DEF T

-----------------------------------------------------------------------------
(* One byte of an escaped sequence changed                                  *)

(* Each byte of Escape(s) is in the code of a byte of s.                    *)
Locates(p, a, q, s, j) ==
    /\ s = (p \o <<a>>) \o q
    /\ j - Len(Escape(p)) \in 1..Len(EscapeByte[a])

(* Each byte of a frame is in the code of a byte of its contents.           *)
LEMMA Located ==
    ASSUME NEW s \in Seq(Byte), NEW j \in 1..Len(Escape(s))
    PROVE  \E p \in Seq(Byte), a \in Byte, q \in Seq(Byte) : Locates(p, a, q, s, j)
<1> DEFINE Found(v, k) == \E p \in Seq(Byte), a \in Byte, q \in Seq(Byte) : Locates(p, a, q, v, k)
           T == {v \in Seq(Byte) : \A k \in 1..Len(Escape(v)) : Found(v, k)}
<1>1. <<>> \in T
    <2>1. <<>> \in Seq(Byte) /\ Len(<<>>) = 0
        OBVIOUS
    <2> QED
        BY <2>1, EscapeFacts
<1>2. ASSUME NEW v \in Seq(Byte), v \in T, NEW b \in Byte PROVE Append(v, b) \in T
    <2> DEFINE e == Escape(v)
               c == EscapeByte[b]
    <2>1. Escape(Append(v, b)) = e \o c /\ e \in Seq(Byte) /\ c \in Seq(Byte)
        BY EscapeFacts, EscapeCoding DEF Coding
    <2>2. Append(v, b) \in Seq(Byte) /\ Append(v, b) = v \o <<b>>
        BY AppendFacts
    <2>3. ASSUME NEW k \in 1..Len(Escape(Append(v, b))) PROVE Found(Append(v, b), k)
        <3>1. Len(e \o c) = Len(e) + Len(c) /\ Len(e) \in Nat /\ Len(c) \in Nat
            BY <2>1
        <3>2. k \in 1..Len(e) + Len(c)
            BY <2>1, <3>1
        <3>3. CASE k \in 1..Len(e)
            <4>1. PICK p \in Seq(Byte), a \in Byte, q \in Seq(Byte) : Locates(p, a, q, v, k)
                BY <1>2, <3>3
            <4> DEFINE x == p \o <<a>>
                       r == Append(q, b)
            <4>2. x \in Seq(Byte) /\ r \in Seq(Byte) /\ v = x \o q
                BY <4>1 DEF Locates
            <4>3. x \o r = Append(x \o q, b)
                <5> HIDE DEF x
                <5> QED
                    BY <4>2, ConcatAppend
            <4>4. Locates(p, a, r, Append(v, b), k)
                BY <4>1, <4>2, <4>3 DEF Locates
            <4> QED
                BY <4>2, <4>4
        <3>4. CASE ~(k \in 1..Len(e))
            <4>1. k - Len(e) \in 1..Len(c)
                <5> HIDE DEF e, c
                <5> QED
                    BY <3>1, <3>2, <3>4
            <4>2. <<>> \in Seq(Byte) /\ Append(v, b) = (v \o <<b>>) \o <<>>
                BY <2>2
            <4>3. Locates(v, b, <<>>, Append(v, b), k)
                BY <4>1, <4>2 DEF Locates
            <4> QED
                BY <4>2, <4>3
        <3> QED
            BY <3>3, <3>4
    <2> QED
        BY <2>2, <2>3
<1> HIDE DEF T
<1>3. Seq(Byte) \subseteq T
    BY <1>1, <1>2, SeqInduction
<1> QED
    BY <1>3 DEF T

(* What a change makes of a sequence s: w in it becomes v.                  *)
Swap(w, v) ==
    \/ \E a, b \in Byte : a # b /\ w = <<a>> /\ v = <<b>>
    \/ \E a \in Byte, c \in {1, 2} : w = <<a, c>> /\ v = <<UnescapeMap(c)>>
    \/ \E b \in Byte, c \in {1, 2} : w = <<UnescapeMap(c)>> /\ v = <<b, c>>

Swapped(s, t) ==
    \E p, w, v, q \in Seq(Byte) : Swap(w, v) /\ s = (p \o w) \o q /\ t = (p \o v) \o q

(* y is no code of anything, or the code of s with a part swapped.          *)
Spoilt(s, y) ==
    \/ Unescape(y).err \/ Unescape(y).escaped
    \/ \E t \in Seq(Byte) : Unescape(y) = Acc(t, FALSE, FALSE) /\ Swapped(s, t)

(* How a change of the code of a part spoils that of the whole.             *)
LEMMA SpoiltBy ==
    ASSUME NEW p \in Seq(Byte), NEW w \in Seq(Byte), NEW v \in Seq(Byte), NEW q \in Seq(Byte),
           Swap(w, v), NEW y, Unescape(y) = Acc((p \o v) \o q, FALSE, FALSE)
    PROVE  Spoilt((p \o w) \o q, y)
<1>1. (p \o v) \o q \in Seq(Byte)
    OBVIOUS
<1>2. Swapped((p \o w) \o q, (p \o v) \o q)
    BY DEF Swapped
<1> QED
    BY <1>1, <1>2 DEF Spoilt

(* A plain byte becomes another, or the two of a code do.                   *)
LEMMA CodeHit ==
    ASSUME NEW p \in Seq(Byte), NEW a \in Byte, NEW q \in Seq(Byte), NEW b \in Byte, a # b
    PROVE  Spoilt((p \o <<a>>) \o q, (Escape(p) \o EscapeByte[b]) \o Escape(q))
<1> DEFINE x == Escape(p) \o EscapeByte[b]
           o == p \o <<b>>
           y == x \o Escape(q)
<1>1. x \in Seq(Byte) /\ o \in Seq(Byte) /\ Append(p, b) = o
    <2>1. Escape(p) \in Seq(Byte) /\ EscapeByte[b] \in Seq(Byte)
        BY EscapeFacts, EscapeCoding DEF Coding
    <2> QED
        BY <2>1
<1>2. Unescape(x) = Acc(o, FALSE, FALSE)
    BY <1>1, EscapeFacts, UnescapeEscape, UnescapeOneMore
<1>3. Unescape(y) = Acc(o \o q, FALSE, FALSE)
    <2> HIDE DEF x, o
    <2> QED
        BY <1>1, <1>2, UnescapeMore
<1>4. Swap(<<a>>, <<b>>) /\ <<a>> \in Seq(Byte) /\ <<b>> \in Seq(Byte)
    BY DEF Swap
<1> HIDE DEF y
<1>5. Spoilt((p \o <<a>>) \o q, y)
    BY <1>3, <1>4, SpoiltBy
<1> QED
    BY <1>5 DEF y

(* The escape byte of a code becomes a plain one.                           *)
LEMMA FirstHit ==
    ASSUME NEW p \in Seq(Byte), NEW c \in {1, 2}, NEW q \in Seq(Byte),
           NEW b \in Byte, b \notin Special
    PROVE  Spoilt((p \o <<UnescapeMap(c)>>) \o q, (Escape(p) \o <<b, c>>) \o Escape(q))
<1> DEFINE e == Escape(p)
           x == e \o <<b>>
           z == e \o <<b, c>>
           o == p \o <<b, c>>
           y == z \o Escape(q)
<1>1. e \in Seq(Byte) /\ c \in Byte
    BY EscapeFacts, EscapeMaps
<1>2. EscapeByte[b] = <<b>> /\ EscapeByte[c] = <<c>>
    <2>1. c \notin Special
        BY DEF Special, ProtocolFlag, ProtocolEscape
    <2> QED
        BY <1>1, <2>1, EscapeOf
<1>3. Unescape(e \o EscapeByte[b]) = Acc(Append(p, b), FALSE, FALSE)
    BY <1>1, UnescapeEscape, UnescapeOneMore
<1> DEFINE pb == Append(p, b)
<1>4. x \in Seq(Byte) /\ z = x \o <<c>> /\ z \in Seq(Byte)
    <2> HIDE DEF e
    <2> QED
        BY <1>1, PairFacts, Zenon
<1>5. pb \in Seq(Byte) /\ o = Append(pb, c)
    BY <1>1, PairFacts, Zenon
<1>6. o \in Seq(Byte)
    BY <1>1, PairFacts, Zenon
<1>7. Unescape(x) = Acc(pb, FALSE, FALSE)
    BY <1>2, <1>3
<1> HIDE DEF e, x, z, o, pb
<1>8. Unescape(z) = Acc(o, FALSE, FALSE)
    <2>1. pb \in Seq(Byte)
        BY <1>5
    <2>2. Unescape(x \o EscapeByte[c]) = Acc(Append(pb, c), FALSE, FALSE)
        BY <1>1, <1>4, <1>7, <2>1, UnescapeOneMore, Zenon
    <2> QED
        BY <1>2, <1>4, <1>5, <2>2, Zenon
<1>9. Unescape(y) = Acc(o \o q, FALSE, FALSE)
    BY <1>4, <1>6, <1>8, UnescapeMore, Zenon
<1>10. UnescapeMap(c) \in Byte
    BY EscapeMaps
<1>11. <<UnescapeMap(c)>> \in Seq(Byte) /\ <<b, c>> \in Seq(Byte)
    BY <1>1, <1>10
<1>12. Swap(<<UnescapeMap(c)>>, <<b, c>>)
    BY DEF Swap
<1> HIDE DEF y
<1>13. Spoilt((p \o <<UnescapeMap(c)>>) \o q, y)
    BY <1>9, <1>11, <1>12, SpoiltBy DEF o
<1> QED
    BY <1>13 DEF y, z, e

(* An escape byte with nothing to follow, and with something wrong.         *)
LEMMA EscapeByteLast ==
    ASSUME NEW p \in Seq(Byte)
    PROVE  /\ Escape(p) \o <<ProtocolEscape>> \in Seq(Byte)
           /\ Unescape(Escape(p) \o <<ProtocolEscape>>) = Acc(p, TRUE, FALSE)
<1>1. Escape(p) \in Seq(Byte) /\ ProtocolEscape \in Byte
    BY EscapeFacts, EscapeMaps
<1>2. Escape(p) \o <<ProtocolEscape>> = Append(Escape(p), ProtocolEscape)
    BY <1>1, AppendFacts
<1>3. UnescapeByte(Acc(p, FALSE, FALSE), ProtocolEscape) = Acc(p, TRUE, FALSE)
    BY <1>1, UnescapeByteIs
<1>4. Unescape(Append(Escape(p), ProtocolEscape)) = UnescapeByte(Unescape(Escape(p)), ProtocolEscape)
    BY <1>1, UnescapeAppend
<1>5. Escape(p) \o <<ProtocolEscape>> \in Seq(Byte)
    BY <1>1
<1> QED
    BY <1>2, <1>3, <1>4, <1>5, UnescapeEscape

(* After an escape byte only 0x01 and 0x02 go on.                           *)
LEMMA EscapeThenWrong ==
    ASSUME NEW p \in Seq(Byte), NEW b \in Byte, b \notin {1, 2}, NEW z \in Seq(Byte)
    PROVE  Unescape((Escape(p) \o <<ProtocolEscape, b>>) \o z).err
<1> DEFINE x == Escape(p) \o <<ProtocolEscape>>
           t == Escape(p) \o <<ProtocolEscape, b>>
<1>1. x \in Seq(Byte) /\ Unescape(x) = Acc(p, TRUE, FALSE)
    BY EscapeByteLast
<1>2. t = Append(x, b) /\ t \in Seq(Byte)
    <2>1. Escape(p) \in Seq(Byte) /\ ProtocolEscape \in Byte
        BY EscapeFacts, EscapeMaps
    <2> QED
        BY <2>1
<1> HIDE DEF x, t
<1>3. Unescape(t).err
    <2>1. Unescape(t) = UnescapeByte(Unescape(x), b)
        BY <1>1, <1>2, UnescapeAppend
    <2>2. UnescapeByte(Acc(p, TRUE, FALSE), b).err
        BY UnescapeByteIs
    <2> QED
        BY <1>1, <2>1, <2>2
<1>4. Unescape(t \o z).err
    BY <1>2, <1>3, ErrStays
<1> QED
    BY <1>4 DEF t

LEMMA HeadSplit ==
    ASSUME NEW q \in Seq(Byte), q # <<>>
    PROVE  \E c \in Byte, r \in Seq(Byte) : q = <<c>> \o r
<1> DEFINE c == q[1]
           r == Tail(q)
<1>1. c \in Byte /\ r \in Seq(Byte)
    BY HeadTailProperties
<1>2. q = <<c>> \o r
    <2> DEFINE t == <<c>> \o r
    <2>1. Len(t) = Len(q) /\ t \in Seq(Byte) /\ \A i \in 1..Len(q) : t[i] = q[i]
        OBVIOUS
    <2> HIDE DEF t
    <2>2. t = q
        BY <2>1, SeqEqual
    <2> QED
        BY <2>2 DEF t
<1> HIDE DEF c, r
<1> QED
    BY <1>1, <1>2

(* A plain byte becomes an escape byte.                                     *)
LEMMA EscapeHit ==
    ASSUME NEW p \in Seq(Byte), NEW a \in Byte, NEW q \in Seq(Byte)
    PROVE  Spoilt((p \o <<a>>) \o q, (Escape(p) \o <<ProtocolEscape>>) \o Escape(q))
<1> DEFINE e == Escape(p)
           x == e \o <<ProtocolEscape>>
           y == x \o Escape(q)
<1>1. e \in Seq(Byte) /\ ProtocolEscape \in Byte
    BY EscapeFacts, EscapeMaps
<1>2. x \in Seq(Byte) /\ Unescape(x) = Acc(p, TRUE, FALSE)
    BY EscapeByteLast
<1>3. CASE q = <<>>
    <2>1. y = x
        <3>1. Escape(q) = <<>>
            BY <1>3, EscapeFacts
        <3> HIDE DEF x
        <3>2. x \o <<>> = x
            BY <1>2
        <3> QED
            BY <3>1, <3>2
    <2>2. Acc(p, TRUE, FALSE).escaped
        BY DEF Acc
    <2> QED
        BY <1>2, <2>1, <2>2 DEF Spoilt
<1>4. CASE q # <<>>
    <2>1. PICK c \in Byte, r \in Seq(Byte) : q = <<c>> \o r
        BY <1>4, HeadSplit
    <2> DEFINE g == EscapeByte[c]
               er == Escape(r)
    <2>2. <<c>> \in Seq(Byte) /\ er \in Seq(Byte) /\ g \in Seq(Byte)
        BY EscapeFacts, EscapeCoding DEF Coding
    <2>3. Escape(q) = g \o er
        <3>1. Escape(<<c>> \o r) = Escape(<<c>>) \o Escape(r)
            BY <2>2, EscapeFacts
        <3> QED
            BY <2>1, <3>1, EscapeOne, Zenon
    <2>4. y = (x \o g) \o er
        <3> HIDE DEF x, g, er
        <3>1. (x \o g) \o er = x \o (g \o er)
            BY <1>2, <2>2, ByteAssoc, Zenon
        <3> QED
            BY <2>3, <3>1, Zenon
    <2>5. CASE c \in {1, 2}
        <3> DEFINE v == UnescapeMap(c)
        <3>1. v \in Special /\ v \in Byte /\ EscapeMap(v) = c
            BY <2>5, EscapeMaps
        <3>2. g = <<c>>
            BY <2>5, EscapeOf DEF Special, ProtocolFlag, ProtocolEscape
        <3> HIDE DEF v
        <3>3. EscapeByte[v] = <<ProtocolEscape, c>>
            BY <3>1, EscapeOf
        <3>4. x \o g = e \o EscapeByte[v]
            <4>1. (e \o <<ProtocolEscape>>) \o <<c>> = e \o <<ProtocolEscape, c>>
                BY <1>1, TwoMore, Zenon
            <4> QED
                BY <3>2, <3>3, <4>1, Zenon
        <3>5. Unescape(e \o EscapeByte[v]) = Acc(Append(p, v), FALSE, FALSE)
            BY <1>1, <3>1, UnescapeEscape, UnescapeOneMore, Zenon
        <3> DEFINE o == p \o <<v>>
                   z == x \o g
        <3>6. o \in Seq(Byte) /\ Append(p, v) = o
            BY <3>1, PairFacts
        <3>7. z \in Seq(Byte) /\ Unescape(z) = Acc(o, FALSE, FALSE)
            <4>1. z \in Seq(Byte)
                <5> HIDE DEF x, g
                <5> QED
                    BY <1>2, <2>2
            <4> QED
                BY <3>4, <3>5, <3>6, <4>1
        <3> HIDE DEF z, o
        <3>8. Unescape(z \o er) = Acc(o \o r, FALSE, FALSE)
            BY <3>6, <3>7, UnescapeMore, Zenon
        <3> DEFINE yy == z \o er
        <3>9. yy = y
            BY <2>4 DEF z
        <3> HIDE DEF yy
        <3>10. Unescape(yy) = Acc((p \o <<v>>) \o r, FALSE, FALSE)
            BY <3>8 DEF yy, o
        <3>11. Swap(<<a, c>>, <<v>>)
            BY <2>5 DEF Swap, v
        <3>12. <<a, c>> \in Seq(Byte) /\ <<v>> \in Seq(Byte)
            BY <3>1
        <3>13. Spoilt((p \o <<a, c>>) \o r, yy)
            BY <3>10, <3>11, <3>12, SpoiltBy, Zenon
        <3>14. (p \o <<a, c>>) \o r = (p \o <<a>>) \o q
            <4>1. p \o <<a, c>> = (p \o <<a>>) \o <<c>> /\ p \o <<a>> \in Seq(Byte)
                BY PairFacts, Zenon
            <4> DEFINE pa == p \o <<a>>
            <4>2. pa \in Seq(Byte)
                BY <4>1
            <4> HIDE DEF pa
            <4>3. (pa \o <<c>>) \o r = pa \o (<<c>> \o r)
                BY <2>2, <4>2, ByteAssoc, Zenon
            <4> QED
                BY <2>1, <4>1, <4>3, Zenon DEF pa
        <3> QED
            BY <3>9, <3>13, <3>14
    <2>6. CASE c \notin {1, 2} /\ c \notin Special
        <3>1. g = <<c>>
            BY <2>6, EscapeOf
        <3>2. x \o g = e \o <<ProtocolEscape, c>>
            <4>1. (e \o <<ProtocolEscape>>) \o <<c>> = e \o <<ProtocolEscape, c>>
                BY <1>1, TwoMore, Zenon
            <4> QED
                BY <3>1, <4>1, Zenon
        <3>3. Unescape((e \o <<ProtocolEscape, c>>) \o er).err
            BY <2>2, <2>6, EscapeThenWrong
        <3> QED
            BY <2>4, <3>2, <3>3 DEF Spoilt
    <2>7. CASE c \in Special
        <3> DEFINE k == EscapeMap(c)
                   z == <<k>> \o er
        <3>1. g = <<ProtocolEscape, k>> /\ k \in Byte
            BY <2>7, EscapeOf, EscapeMaps
        <3> HIDE DEF k
        <3>2. z \in Seq(Byte) /\ <<k>> \in Seq(Byte)
            BY <2>2, <3>1
        <3>3. x \o g = (x \o <<ProtocolEscape>>) \o <<k>>
            <4>1. (x \o <<ProtocolEscape>>) \o <<k>> = x \o <<ProtocolEscape, k>>
                BY <1>1, <1>2, <3>1, TwoMore, Zenon
            <4> QED
                BY <3>1, <4>1, Zenon
        <3>4. x \o <<ProtocolEscape>> = e \o <<ProtocolEscape, ProtocolEscape>>
            BY <1>1, PairFacts, Zenon
        <3> DEFINE w == e \o <<ProtocolEscape, ProtocolEscape>>
        <3>5. w \in Seq(Byte)
            BY <1>1, PairFacts, Zenon
        <3>6. y = (w \o <<k>>) \o er
            BY <2>4, <3>3, <3>4
        <3>7. (w \o <<k>>) \o er = w \o z
            <4> HIDE DEF w, er
            <4>1. er \in Seq(Byte)
                BY <2>2
            <4> QED
                BY <4>1, <3>2, <3>5, ByteAssoc, Zenon
        <3>8. ProtocolEscape \notin {1, 2}
            BY DEF ProtocolEscape
        <3>9. Unescape(w \o z).err
            <4> HIDE DEF z
            <4> QED
                BY <1>1, <3>2, <3>8, EscapeThenWrong
        <3> QED
            BY <3>6, <3>7, <3>9 DEF Spoilt
    <2> QED
        BY <2>5, <2>6, <2>7
<1> QED
    BY <1>3, <1>4

(* A sequence in three parts, a byte of the middle one changed, and cut     *)
(* short there.                                                             *)
LEMMA TwoParts ==
    ASSUME NEW x \in Seq(Byte), NEW c \in Seq(Byte)
    PROVE  /\ x \o c \in Seq(Byte) /\ Len(x \o c) = Len(x) + Len(c)
           /\ Len(x) \in Nat /\ Len(c) \in Nat
           /\ \A i \in 1..Len(x) + Len(c) : (x \o c)[i] = IF i <= Len(x) THEN x[i] ELSE c[i - Len(x)]
    OBVIOUS

LEMMA ThreeParts ==
    ASSUME NEW x \in Seq(Byte), NEW c \in Seq(Byte), NEW z \in Seq(Byte)
    PROVE  /\ (x \o c) \o z \in Seq(Byte) /\ Len((x \o c) \o z) = Len(x) + Len(c) + Len(z)
           /\ Len(x) \in Nat /\ Len(c) \in Nat /\ Len(z) \in Nat
           /\ \A i \in 1..Len(x) + Len(c) + Len(z) :
                  ((x \o c) \o z)[i] = IF i <= Len(x) THEN x[i]
                                       ELSE IF i <= Len(x) + Len(c) THEN c[i - Len(x)]
                                       ELSE z[i - Len(x) - Len(c)]
    OBVIOUS

LEMMA PartFacts ==
    ASSUME NEW s \in Seq(Byte), NEW k \in 1..Len(s)
    PROVE  /\ SubSeq(s, 1, k - 1) \in Seq(Byte) /\ Len(SubSeq(s, 1, k - 1)) = k - 1
           /\ \A i \in 1..k - 1 : SubSeq(s, 1, k - 1)[i] = s[i]
           /\ k \in Nat
    OBVIOUS

LEMMA ExceptFacts ==
    ASSUME NEW s \in Seq(Byte), NEW k \in 1..Len(s), NEW b \in Byte
    PROVE  /\ [s EXCEPT ![k] = b] \in Seq(Byte) /\ Len([s EXCEPT ![k] = b]) = Len(s)
           /\ \A i \in 1..Len(s) : [s EXCEPT ![k] = b][i] = IF i = k THEN b ELSE s[i]
    OBVIOUS

LEMMA SameBytes ==
    ASSUME NEW s \in Seq(Byte), NEW t \in Seq(Byte), Len(s) = Len(t),
           \A i \in 1..Len(s) : s[i] = t[i]
    PROVE  s = t
    BY SeqEqual

Middle(x, c, z, k, b) ==
    LET s == (x \o c) \o z
        j == Len(x) + k
    IN  /\ s[j] = c[k]
        /\ [s EXCEPT ![j] = b] = (x \o [c EXCEPT ![k] = b]) \o z
        /\ SubSeq(s, 1, j - 1) = x \o SubSeq(c, 1, k - 1)

(* Those changes, made to the part in the middle.                           *)
LEMMA MiddleFacts ==
    ASSUME NEW x \in Seq(Byte), NEW c \in Seq(Byte), NEW z \in Seq(Byte),
           NEW k \in 1..Len(c), NEW b \in Byte
    PROVE  Middle(x, c, z, k, b)
<1> DEFINE s == (x \o c) \o z
           d == [c EXCEPT ![k] = b]
           j == Len(x) + k
           t == (x \o d) \o z
           h == SubSeq(c, 1, k - 1)
<1>1. d \in Seq(Byte) /\ Len(d) = Len(c) /\ \A i \in 1..Len(c) : d[i] = IF i = k THEN b ELSE c[i]
    BY ExceptFacts
<1>2. h \in Seq(Byte) /\ Len(h) = k - 1 /\ (\A i \in 1..k - 1 : h[i] = c[i]) /\ k \in Nat
    BY PartFacts
<1> HIDE DEF d, h
<1> DEFINE u == x \o h
<1>3. /\ s \in Seq(Byte) /\ Len(s) = Len(x) + Len(c) + Len(z)
      /\ Len(x) \in Nat /\ Len(c) \in Nat /\ Len(z) \in Nat
      /\ \A i \in 1..Len(x) + Len(c) + Len(z) :
             s[i] = IF i <= Len(x) THEN x[i]
                    ELSE IF i <= Len(x) + Len(c) THEN c[i - Len(x)]
                    ELSE z[i - Len(x) - Len(c)]
    BY ThreeParts
<1>4. d \in Seq(Byte)
    BY <1>1
<1>5. /\ t \in Seq(Byte) /\ Len(t) = Len(x) + Len(d) + Len(z)
      /\ \A i \in 1..Len(x) + Len(d) + Len(z) :
             t[i] = IF i <= Len(x) THEN x[i]
                    ELSE IF i <= Len(x) + Len(d) THEN d[i - Len(x)]
                    ELSE z[i - Len(x) - Len(d)]
    BY <1>4, ThreeParts
<1>6. h \in Seq(Byte)
    BY <1>2
<1>7. /\ u \in Seq(Byte) /\ Len(u) = Len(x) + Len(h)
      /\ \A i \in 1..Len(x) + Len(h) : u[i] = IF i <= Len(x) THEN x[i] ELSE h[i - Len(x)]
    BY <1>6, TwoParts
<1> HIDE DEF s, t, u
<1>8. j \in 1..Len(s) /\ s[j] = c[k]
    BY <1>2, <1>3
<1> HIDE DEF j
<1> DEFINE r == [s EXCEPT ![j] = b]
           w == SubSeq(s, 1, j - 1)
<1>9. r \in Seq(Byte) /\ Len(r) = Len(s) /\ \A i \in 1..Len(s) : r[i] = IF i = j THEN b ELSE s[i]
    BY <1>3, <1>8, ExceptFacts
<1>10. w \in Seq(Byte) /\ Len(w) = j - 1 /\ \A i \in 1..j - 1 : w[i] = s[i]
    BY <1>3, <1>8, PartFacts
<1> HIDE DEF r, w
<1>20. /\ Len(x) \in Nat /\ Len(c) \in Nat /\ Len(z) \in Nat /\ k \in Nat /\ j = Len(x) + k
       /\ 1 <= k /\ k <= Len(c)
    BY <1>2, <1>3 DEF j
<1>11. r = t
    <2>1. ASSUME NEW i \in 1..Len(r) PROVE r[i] = t[i]
        <3>1. Len(d) = Len(c) /\ i \in 1..Len(x) + Len(c) + Len(z) /\ i \in 1..Len(s)
            BY <1>1, <1>3, <1>9
        <3>2. r[i] = IF i = j THEN b ELSE s[i]
            BY <1>9, <3>1
        <3>3. t[i] = IF i <= Len(x) THEN x[i]
                     ELSE IF i <= Len(x) + Len(c) THEN d[i - Len(x)]
                     ELSE z[i - Len(x) - Len(c)]
            BY <1>5, <3>1
        <3>4. s[i] = IF i <= Len(x) THEN x[i]
                     ELSE IF i <= Len(x) + Len(c) THEN c[i - Len(x)]
                     ELSE z[i - Len(x) - Len(c)]
            BY <1>3, <3>1
        <3>5. CASE i > Len(x) /\ i <= Len(x) + Len(c)
            <4>1. i - Len(x) \in 1..Len(c) /\ (i - Len(x) = k <=> i = j)
                BY <1>2, <1>3, <3>1, <3>5 DEF j
            <4>2. d[i - Len(x)] = IF i = j THEN b ELSE c[i - Len(x)]
                BY <1>1, <4>1
            <4>3. t[i] = d[i - Len(x)] /\ s[i] = c[i - Len(x)]
                BY <1>3, <3>1, <3>3, <3>4, <3>5
            <4> QED
                BY <3>2, <4>2, <4>3
        <3>6. CASE ~(i > Len(x) /\ i <= Len(x) + Len(c))
            <4>1. i # j
                <5> SUFFICES ASSUME i = j PROVE FALSE
                    OBVIOUS
                <5>1. i = Len(x) + k
                    BY <1>20
                <5>2. i > Len(x) /\ i <= Len(x) + Len(c)
                    BY <1>20, <5>1
                <5> QED
                    BY <3>6, <5>2
            <4>2. i <= Len(x) \/ (~(i <= Len(x)) /\ ~(i <= Len(x) + Len(c)))
                BY <1>20, <3>1, <3>6
            <4> QED
                BY <3>2, <3>3, <3>4, <4>1, <4>2
        <3> QED
            BY <3>5, <3>6
    <2> QED
        BY <2>1, <1>1, <1>3, <1>5, <1>9, SameBytes
<1>12. w = u
    <2>1. Len(w) = Len(u)
        BY <1>2, <1>3, <1>7, <1>10 DEF j
    <2>2. ASSUME NEW i \in 1..Len(w) PROVE w[i] = u[i]
        <3>0. i \in 1..j - 1 /\ Len(h) = k - 1
            BY <1>2, <1>10
        <3>1. /\ i \in 1..Len(x) + Len(h) /\ i \in 1..j - 1
              /\ i \in 1..Len(x) + Len(c) + Len(z)
              /\ i > Len(x) => i - Len(x) \in 1..k - 1 /\ i <= Len(x) + Len(c)
            BY <1>20, <3>0
        <3>2. w[i] = s[i] /\ u[i] = IF i <= Len(x) THEN x[i] ELSE h[i - Len(x)]
            BY <1>7, <1>10, <3>1
        <3>3. s[i] = IF i <= Len(x) THEN x[i]
                     ELSE IF i <= Len(x) + Len(c) THEN c[i - Len(x)]
                     ELSE z[i - Len(x) - Len(c)]
            BY <1>3, <3>1
        <3>4. CASE i <= Len(x)
            BY <3>2, <3>3, <3>4
        <3>5. CASE ~(i <= Len(x))
            <4>1. i - Len(x) \in 1..k - 1 /\ i <= Len(x) + Len(c)
                BY <1>3, <3>1, <3>5
            <4>2. h[i - Len(x)] = c[i - Len(x)]
                BY <1>2, <4>1
            <4> QED
                BY <3>2, <3>3, <3>5, <4>1, <4>2
        <3> QED
            BY <3>4, <3>5
    <2> QED
        BY <2>1, <2>2, <1>7, <1>10, SameBytes
<1>13. [s EXCEPT ![j] = b] = t /\ SubSeq(s, 1, j - 1) = u /\ s \in Seq(Byte)
    BY <1>3, <1>11, <1>12 DEF r, w
<1> QED
    BY <1>8, <1>13 DEF Middle, s, t, u, d, h, j

LEMMA OneByte ==
    ASSUME NEW a \in Byte, NEW b \in Byte
    PROVE  /\ \A k \in 1..Len(<<a>>) : k = 1
           /\ <<a>>[1] = a /\ [<<a>> EXCEPT ![1] = b] = <<b>>
    OBVIOUS

LEMMA TwoBytes ==
    ASSUME NEW a \in Byte, NEW e \in Byte, NEW b \in Byte
    PROVE  /\ \A k \in 1..Len(<<a, e>>) : k = 1 \/ k = 2
           /\ <<a, e>>[1] = a /\ <<a, e>>[2] = e
           /\ [<<a, e>> EXCEPT ![1] = b] = <<b, e>>
           /\ [<<a, e>> EXCEPT ![2] = b] = <<a, b>>
           /\ SubSeq(<<a, e>>, 1, 1) = <<a>>
<1>1. SubSeq(<<a, e>>, 1, 1) = <<a>>
    <2> DEFINE s == SubSeq(<<a, e>>, 1, 1)
               t == <<a>>
    <2>1. s \in Seq(Byte) /\ Len(s) = 1 /\ s[1] = a
        OBVIOUS
    <2>2. t \in Seq(Byte) /\ Len(t) = 1 /\ t[1] = a
        OBVIOUS
    <2> HIDE DEF s, t
    <2>3. s = t
        BY <2>1, <2>2, SameBytes
    <2> QED
        BY <2>3 DEF s, t
<1> QED
    BY <1>1

LEMMA NoBytes == ASSUME NEW s \in Seq(Byte) PROVE SubSeq(s, 1, 0) = <<>> /\ s \o <<>> = s
    OBVIOUS

(* Where a byte of Escape(s) stands: the codes before it, its own, the      *)
(* codes after it.                                                          *)
LEMMA EscapeAt ==
    ASSUME NEW s \in Seq(Byte), NEW j \in 1..Len(Escape(s))
    PROVE  \E p \in Seq(Byte), a \in Byte, q \in Seq(Byte), k \in Nat :
               /\ k \in 1..Len(EscapeByte[a])
               /\ s = (p \o <<a>>) \o q
               /\ Escape(s) = (Escape(p) \o EscapeByte[a]) \o Escape(q)
               /\ j = Len(Escape(p)) + k
<1>1. PICK p \in Seq(Byte), a \in Byte, q \in Seq(Byte) : Locates(p, a, q, s, j)
    BY Located
<1> DEFINE k == j - Len(Escape(p))
<1>2. k \in 1..Len(EscapeByte[a]) /\ s = (p \o <<a>>) \o q
    BY <1>1 DEF Locates
<1>3. Escape(s) = (Escape(p) \o EscapeByte[a]) \o Escape(q)
    <2>1. <<a>> \in Seq(Byte) /\ p \o <<a>> \in Seq(Byte)
        BY PairFacts
    <2>2. Escape(p \o <<a>>) = Escape(p) \o Escape(<<a>>)
        BY <2>1, EscapeFacts
    <2> DEFINE x == p \o <<a>>
    <2>3. x \in Seq(Byte)
        BY <2>1
    <2> HIDE DEF x
    <2>4. Escape(x \o q) = Escape(x) \o Escape(q)
        BY <2>3, EscapeFacts
    <2> QED
        BY <1>2, <2>2, <2>4, EscapeOne, Zenon DEF x
<1>4. j = Len(Escape(p)) + k
    <2>1. Len(Escape(p)) \in Nat
        BY EscapeFacts
    <2>2. Escape(s) \in Seq(Byte)
        BY EscapeFacts
    <2>3. j \in Int
        BY <2>2
    <2> QED
        BY <2>1, <2>3
<1>5. k \in Nat
    <2>1. EscapeByte[a] \in Seq(Byte)
        BY EscapeCoding DEF Coding
    <2> HIDE DEF k
    <2> QED
        BY <1>2, <2>1
<1> HIDE DEF k
<1> QED
    BY <1>2, <1>3, <1>4, <1>5

(* One byte of the code of s changed, but not to a flag.                    *)
LEMMA ByteHit ==
    ASSUME NEW s \in Seq(Byte), NEW j \in 1..Len(Escape(s)), NEW b \in Byte,
           b # ProtocolFlag, b # Escape(s)[j]
    PROVE  Spoilt(s, [Escape(s) EXCEPT ![j] = b])
<1>1. PICK p \in Seq(Byte), a \in Byte, q \in Seq(Byte), k \in Nat :
               /\ k \in 1..Len(EscapeByte[a])
               /\ s = (p \o <<a>>) \o q
               /\ Escape(s) = (Escape(p) \o EscapeByte[a]) \o Escape(q)
               /\ j = Len(Escape(p)) + k
    BY EscapeAt
<1> DEFINE x == Escape(p)
           c == EscapeByte[a]
           z == Escape(q)
           d == [c EXCEPT ![k] = b]
<1>2. x \in Seq(Byte) /\ c \in Seq(Byte) /\ z \in Seq(Byte)
    BY EscapeFacts, EscapeCoding DEF Coding
<1>3. Escape(s)[j] = c[k] /\ [Escape(s) EXCEPT ![j] = b] = (x \o d) \o z
    <2>1. Escape(s) = (x \o c) \o z /\ j = Len(x) + k /\ k \in 1..Len(c)
        BY <1>1
    <2> HIDE DEF x, c, z, d
    <2>2. Middle(x, c, z, k, b)
        BY <1>2, <2>1, MiddleFacts, Zenon
    <2> QED
        BY <2>1, <2>2, Zenon DEF d, Middle
<1>4. SUFFICES Spoilt((p \o <<a>>) \o q, (x \o d) \o z)
    BY <1>1, <1>3
<1>5. CASE a \notin Special
    <2>1. c = <<a>>
        BY <1>5, EscapeOf
    <2>2. k = 1
        BY <1>1, <2>1, OneByte
    <2>3. d = <<b>> /\ c[k] = a
        BY <2>1, <2>2, OneByte
    <2>4. a # b
        BY <1>3, <2>3
    <2>5. CASE b = ProtocolEscape
        BY <2>3, <2>5, EscapeHit
    <2>6. CASE b # ProtocolEscape
        <3>1. EscapeByte[b] = <<b>>
            BY <2>6, EscapeOf DEF Special
        <3> QED
            BY <2>3, <2>4, <3>1, CodeHit
    <2> QED
        BY <2>5, <2>6
<1>6. CASE a \in Special
    <2> DEFINE e == EscapeMap(a)
    <2>1. c = <<ProtocolEscape, e>> /\ e \in {1, 2} /\ e \in Byte /\ UnescapeMap(e) = a
        BY <1>6, EscapeOf, EscapeMaps
    <2> HIDE DEF e
    <2>2. CASE k = 1
        <3>1. d = <<b, e>> /\ b # ProtocolEscape
            BY <1>3, <2>1, <2>2, TwoBytes, EscapeMaps
        <3>2. b \notin Special
            BY <3>1 DEF Special
        <3> QED
            BY <2>1, <3>1, <3>2, FirstHit
    <2>3. CASE k = 2
        <3>1. d = <<ProtocolEscape, b>> /\ b # e
            BY <1>3, <2>1, <2>3, TwoBytes, EscapeMaps
        <3>2. CASE b \in {1, 2}
            <4> DEFINE v == UnescapeMap(b)
            <4>1. v \in Special /\ v \in Byte /\ EscapeMap(v) = b
                BY <3>2, EscapeMaps
            <4> HIDE DEF v
            <4>2. v # a
                BY <3>1, <4>1 DEF e
            <4>3. EscapeByte[v] = <<ProtocolEscape, b>>
                BY <4>1, EscapeOf
            <4> QED
                BY <3>1, <4>1, <4>2, <4>3, CodeHit
        <3>3. CASE b \notin {1, 2}
            BY <1>2, <3>1, <3>3, EscapeThenWrong DEF Spoilt
        <3> QED
            BY <3>2, <3>3
    <2>4. k = 1 \/ k = 2
        BY <1>1, <2>1, TwoBytes, EscapeMaps
    <2> QED
        BY <2>2, <2>3, <2>4
<1> QED
    BY <1>5, <1>6

(* The code of s cut short.                                                 *)
LEMMA CutCode ==
    ASSUME NEW s \in Seq(Byte), NEW j \in 1..Len(Escape(s))
    PROVE  \/ Unescape(SubSeq(Escape(s), 1, j - 1)).escaped
           \/ \E p \in Seq(Byte), a \in Byte, q \in Seq(Byte) :
                  /\ s = (p \o <<a>>) \o q
                  /\ Unescape(SubSeq(Escape(s), 1, j - 1)) = Acc(p, FALSE, FALSE)
<1>1. PICK p \in Seq(Byte), a \in Byte, q \in Seq(Byte), k \in Nat :
               /\ k \in 1..Len(EscapeByte[a])
               /\ s = (p \o <<a>>) \o q
               /\ Escape(s) = (Escape(p) \o EscapeByte[a]) \o Escape(q)
               /\ j = Len(Escape(p)) + k
    BY EscapeAt
<1> DEFINE x == Escape(p)
           c == EscapeByte[a]
           z == Escape(q)
<1>2. x \in Seq(Byte) /\ c \in Seq(Byte) /\ z \in Seq(Byte)
    BY EscapeFacts, EscapeCoding DEF Coding
<1>3. SubSeq(Escape(s), 1, j - 1) = x \o SubSeq(c, 1, k - 1)
    <2>1. Escape(s) = (x \o c) \o z /\ j = Len(x) + k /\ k \in 1..Len(c)
        BY <1>1
    <2> HIDE DEF x, c, z
    <2>2. 0 \in Byte
        BY DEF Byte
    <2>3. Middle(x, c, z, k, 0)
        BY <1>2, <2>1, <2>2, MiddleFacts, Zenon
    <2> QED
        BY <2>1, <2>3, Zenon DEF Middle
<1>4. CASE k = 1
    <2>1. x \o SubSeq(c, 1, k - 1) = x
        <3> HIDE DEF x, c
        <3>1. k - 1 = 0
            BY <1>4
        <3> QED
            BY <1>2, <3>1, NoBytes
    <2>2. Unescape(x) = Acc(p, FALSE, FALSE)
        BY UnescapeEscape
    <2> QED
        BY <1>1, <1>3, <2>1, <2>2
<1>5. CASE k # 1
    <2> DEFINE e == EscapeMap(a)
    <2>1. a \in Special
        BY <1>1, <1>5, EscapeOf, OneByte
    <2>2. c = <<ProtocolEscape, e>> /\ e \in Byte /\ ProtocolEscape \in Byte
        BY <2>1, EscapeOf, EscapeMaps
    <2> HIDE DEF e
    <2>3. SubSeq(c, 1, k - 1) = <<ProtocolEscape>>
        <3>1. k = 2
            BY <1>1, <1>5, <2>2, TwoBytes
        <3>2. k - 1 = 1
            BY <3>1
        <3>3. SubSeq(<<ProtocolEscape, e>>, 1, 1) = <<ProtocolEscape>>
            <4> HIDE DEF c
            <4> QED
                BY <2>2, TwoBytes, Zenon
        <3> QED
            BY <2>2, <3>2, <3>3
    <2>4. Unescape(x \o <<ProtocolEscape>>) = Acc(p, TRUE, FALSE)
        BY EscapeByteLast
    <2>5. Acc(p, TRUE, FALSE).escaped
        BY DEF Acc
    <2> QED
        BY <1>3, <2>3, <2>4, <2>5
<1> QED
    BY <1>4, <1>5

(* The code of s with another byte at its end.                              *)
LEMMA CodeAndMore ==
    ASSUME NEW s \in Seq(Byte), NEW b \in Byte, b # ProtocolFlag
    PROVE  \/ Unescape(Escape(s) \o <<b>>).escaped
           \/ Unescape(Escape(s) \o <<b>>) = Acc(Append(s, b), FALSE, FALSE)
<1>1. Escape(s) \in Seq(Byte) /\ Unescape(Escape(s)) = Acc(s, FALSE, FALSE)
    BY EscapeFacts, UnescapeEscape
<1>2. CASE b = ProtocolEscape
    <2>1. Unescape(Escape(s) \o <<ProtocolEscape>>) = Acc(s, TRUE, FALSE)
        BY EscapeByteLast
    <2>2. Acc(s, TRUE, FALSE).escaped
        BY DEF Acc
    <2> QED
        BY <1>2, <2>1, <2>2
<1>3. CASE b # ProtocolEscape
    <2>1. EscapeByte[b] = <<b>>
        BY <1>3, EscapeOf DEF Special
    <2>2. Unescape(Escape(s) \o EscapeByte[b]) = Acc(Append(s, b), FALSE, FALSE)
        BY <1>1, UnescapeOneMore
    <2> QED
        BY <2>1, <2>2
<1> QED
    BY <1>2, <1>3

-----------------------------------------------------------------------------
(* The lengths and the checksum that Decode asks for                        *)

(* The length a frame is to have, from bytes 3 to 5 of its header.          *)
LengthFrom(x, y, z) ==
    (IF (x \div 64) % 2 = 1 THEN (IF z > 0 THEN 15 ELSE 11) ELSE 10) + 2
      + (IF (x \div 32) % 2 = 1 THEN 4 ELSE 0) + (256 * (x % 4) + y) + 1

LengthSaid(o) == LengthFrom(o[3], o[4], o[5])

Whole(o) == Len(o) >= 13 /\ CalculateChecksum(o) = 0 /\ Len(o) = LengthSaid(o)

LEMMA PropertyBytes ==
    ASSUME NEW x \in Byte, NEW y \in Byte
    PROVE  /\ Bit(256 * x + y, 16384) = (x \div 64) % 2
           /\ Bit(256 * x + y, 8192) = (x \div 32) % 2
           /\ (256 * x + y) % 1024 = 256 * (x % 4) + y
<1>1. (256 * x + y) \div 16384 = x \div 64
    BY SMTT(60) DEF Byte
<1>2. (256 * x + y) \div 8192 = x \div 32
    BY SMTT(60) DEF Byte
<1>3. (256 * x + y) % 1024 = 256 * (x % 4) + y
    BY SMTT(60) DEF Byte
<1> QED
    BY <1>1, <1>2, <1>3 DEF Bit

LEMMA HeaderTypes ==
    ASSUME NEW d \in Seq(Byte), Len(d) >= 5
    PROVE  Property(d) \in Nat /\ Property(d) % 1024 \in Nat /\ HeaderLength(d) \in Nat
<1>1. d[3] \in Byte /\ d[4] \in Byte
    OBVIOUS
<1>2. Property(d) \in Nat
    <2> DEFINE x == d[3]
               y == d[4]
    <2> HIDE DEF x, y
    <2>1. x \in Byte /\ y \in Byte
        BY <1>1 DEF x, y
    <2>2. 256 * x + y \in Nat
        BY <2>1 DEF Byte
    <2> QED
        BY <2>2, Zenon DEF Property, x, y
<1>3. FlowAt(d) \in Nat
    BY DEF FlowAt, PhoneAt, PhoneLength
<1> QED
    BY <1>2, <1>3 DEF HeaderLength

(* HeaderLength and the body length, as Decode adds them up.                *)
LEMMA HeaderLengthSaid ==
    ASSUME NEW d \in Seq(Byte), Len(d) >= 5
    PROVE  HeaderLength(d) + (Property(d) % 1024) + 1 = LengthSaid(d)
<1> DEFINE x == d[3]
           y == d[4]
<1>1. x \in Byte /\ y \in Byte /\ d[5] \in Byte
    OBVIOUS
<1>2. /\ Bit(Property(d), 16384) = (x \div 64) % 2
      /\ Bit(Property(d), 8192) = (x \div 32) % 2
      /\ Property(d) % 1024 = 256 * (x % 4) + y
    BY <1>1, PropertyBytes DEF Property
<1>3. /\ PropertyBit(d, 16384) <=> (x \div 64) % 2 = 1
      /\ PropertyBit(d, 8192) <=> (x \div 32) % 2 = 1
    BY <1>2 DEF PropertyBit
<1>4. FlowAt(d) = IF (x \div 64) % 2 = 1 THEN (IF d[5] > 0 THEN 15 ELSE 11) ELSE 10
    <2>1. CASE (x \div 64) % 2 = 1
        <3>1. PhoneAt(d) = 5 /\ Version(d) = d[5]
            BY <1>3, <2>1 DEF PhoneAt, Version
        <3>2. PhoneLength(d[5]) = IF d[5] > 0 THEN 10 ELSE 6
            BY DEF PhoneLength
        <3> QED
            BY <1>1, <2>1, <3>1, <3>2 DEF FlowAt, Byte
    <2>2. CASE (x \div 64) % 2 # 1
        <3>1. PhoneAt(d) = 4 /\ Version(d) = 0 /\ PhoneLength(0) = 6
            BY <1>3, <2>2 DEF PhoneAt, Version, PhoneLength
        <3> QED
            BY <2>2, <3>1 DEF FlowAt
    <2> QED
        BY <2>1, <2>2
<1>5. HeaderLength(d) = FlowAt(d) + 2 + (IF (x \div 32) % 2 = 1 THEN 4 ELSE 0)
    BY <1>3 DEF HeaderLength
<1>6. HeaderLength(d) + (Property(d) % 1024) + 1
        = FlowAt(d) + 2 + (IF (x \div 32) % 2 = 1 THEN 4 ELSE 0) + (256 * (x % 4) + y) + 1
    <2> DEFINE h == HeaderLength(d)
               p == Property(d) % 1024
               g == FlowAt(d) + 2 + (IF (x \div 32) % 2 = 1 THEN 4 ELSE 0)
               n == 256 * (x % 4) + y
    <2>1. h = g /\ p = n
        BY <1>2, <1>5
    <2> HIDE DEF h, p, g, n
    <2>2. h + p + 1 = g + n + 1
        BY <2>1
    <2> QED
        BY <2>2, Zenon DEF h, p, g, n
<1> QED
    BY <1>4, <1>6 DEF LengthSaid, LengthFrom

LEMMA FrontFacts ==
    ASSUME NEW o \in Seq(Byte), Len(o) >= 13
    PROVE  /\ Front(o) \in Seq(Byte) /\ Len(Front(o)) = Len(o) - 1 /\ Len(o) \in Nat
           /\ \A i \in 1..Len(o) - 1 : Front(o)[i] = o[i]
           /\ Last(o) = o[Len(o)] /\ Last(o) \in Byte
           /\ o = Append(Front(o), Last(o))
<1>1. Front(o) = SubSeq(o, 1, Len(o) - 1)
    BY DEF Front
<1>2. /\ Front(o) \in Seq(Byte) /\ Len(Front(o)) = Len(o) - 1 /\ Len(o) \in Nat
      /\ \A i \in 1..Len(o) - 1 : Front(o)[i] = o[i]
    BY <1>1
<1>3. Last(o) = o[Len(o)] /\ Last(o) \in Byte
    BY DEF Last
<1> DEFINE f == Front(o)
           b == Last(o)
           t == Append(f, b)
<1>4. f \in Seq(Byte) /\ b \in Byte
    BY <1>2, <1>3
<1> HIDE DEF f, b
<1>5. /\ t \in Seq(Byte) /\ Len(t) = Len(f) + 1 /\ t[Len(f) + 1] = b
      /\ \A i \in 1..Len(f) : t[i] = f[i]
    BY <1>4, AppendFacts
<1> HIDE DEF t
<1>6. o = t
    <2>1. \A i \in 1..Len(o) : o[i] = t[i]
        BY <1>2, <1>3, <1>5 DEF f, b
    <2>2. Len(t) = Len(o)
        BY <1>2, <1>5 DEF f
    <2> QED
        BY <1>5, <2>1, <2>2, SameBytes
<1> QED
    BY <1>2, <1>3, <1>6 DEF t, f, b

(* They depend on bytes 3 to 5 only.                                        *)
LEMMA SameLengthSaid ==
    ASSUME NEW o, NEW t, o[3] = t[3], o[4] = t[4], o[5] = t[5]
    PROVE  LengthSaid(o) = LengthSaid(t)
    BY DEF LengthSaid

(* Decode checks all of that.                                               *)
LEMMA DecodableWhole ==
    ASSUME NEW y, NEW o \in Seq(Byte), Unescape(y) = Acc(o, FALSE, FALSE), Decodable(y)
    PROVE  Whole(o)
<1> DEFINE d == Front(o)
           b == Last(o)
<1>1. Unescape(y).out = o
    BY AccFields
<1>2. Len(o) >= 13 /\ b = CalculateChecksum(d) /\ Len(d) - HeaderLength(d) = Property(d) % 1024
    BY <1>1, Zenon DEF Decodable
<1>3. /\ d \in Seq(Byte) /\ Len(d) = Len(o) - 1 /\ Len(o) \in Nat
      /\ (\A i \in 1..Len(o) - 1 : d[i] = o[i])
      /\ b \in Byte /\ o = Append(d, b)
    BY <1>2, FrontFacts
<1> HIDE DEF d, b
<1>4. CalculateChecksum(o) = 0
    <2>1. CalculateChecksum(Append(d, b)) = Xor(CalculateChecksum(d), b)
        BY <1>3, ChecksumAppend
    <2>2. Xor(b, b) = 0
        BY <1>3, XorLaws
    <2> QED
        BY <1>2, <1>3, <2>1, <2>2
<1>5. HeaderLength(d) + (Property(d) % 1024) + 1 = LengthSaid(d)
    BY <1>2, <1>3, HeaderLengthSaid
<1>6. LengthSaid(d) = LengthSaid(o)
    <2>1. d[3] = o[3] /\ d[4] = o[4] /\ d[5] = o[5]
        BY <1>2, <1>3
    <2> QED
        BY <2>1, SameLengthSaid
<1>7. Len(o) = LengthSaid(o)
    <2> DEFINE h == HeaderLength(d)
               p == Property(d) % 1024
    <2>1. h \in Nat /\ p \in Nat
        BY <1>2, <1>3, HeaderTypes
    <2>2. Len(d) - h = p /\ h + p + 1 = LengthSaid(o)
        BY <1>2, <1>5, <1>6, Zenon
    <2> HIDE DEF h, p
    <2>3. Len(o) = h + p + 1
        BY <1>3, <2>1, <2>2
    <2> QED
        BY <2>2, <2>3
<1> QED
    BY <1>2, <1>4, <1>7 DEF Whole

(* No two whole frames differ by an escape made or undone: that needs a     *)
(* byte 124, by the checksum, and moves the lengths apart, by where it is.  *)
Shifted(s, t, k, c) ==
    /\ c \in {1, 2} /\ k \in 1..Len(t)
    /\ Len(s) = Len(t) + 1
    /\ s[k] = 124 /\ s[k + 1] = c /\ t[k] = 124 + c
    /\ \A i \in 1..k - 1 : s[i] = t[i]
    /\ \A i \in k + 1..Len(t) : t[i] = s[i + 1]

(* Wherever past the ID an escape is made or undone, the length the header  *)
(* asks for does not change by the byte that it adds.                       *)
LEMMA LengthShift ==
    ASSUME NEW x \in Byte, NEW y \in Byte, NEW z \in Byte, NEW c \in {1, 2}
    PROVE  /\ LengthFrom(x, y, 124) = LengthFrom(x, y, 124 + c)
           /\ LengthFrom(x, 124, c) # LengthFrom(x, 124 + c, z) + 1
           /\ LengthFrom(124, c, y) # LengthFrom(124 + c, y, z) + 1
<1>1. LengthFrom(x, y, 124) = LengthFrom(x, y, 124 + c)
    BY DEF LengthFrom
<1>2. LengthFrom(x, 124, c) # LengthFrom(x, 124 + c, z) + 1
    <2>1. 256 * (x % 4) \in Nat
        BY DEF Byte
    <2> DEFINE n == 256 * (x % 4)
               v == (x \div 64) % 2 = 1
               p == IF (x \div 32) % 2 = 1 THEN 4 ELSE 0
    <2>2. p \in Nat /\ n \in Nat
        BY <2>1
    <2>3. /\ LengthFrom(x, 124, c) = (IF v THEN (IF c > 0 THEN 15 ELSE 11) ELSE 10) + 2 + p + (n + 124) + 1
          /\ LengthFrom(x, 124 + c, z)
                = (IF v THEN (IF z > 0 THEN 15 ELSE 11) ELSE 10) + 2 + p + (n + (124 + c)) + 1
        BY DEF LengthFrom
    <2> HIDE DEF n, v, p
    <2> DEFINE e == IF v THEN (IF c > 0 THEN 15 ELSE 11) ELSE 10
               g == IF v THEN (IF z > 0 THEN 15 ELSE 11) ELSE 10
    <2>4. e \in Nat /\ g \in Nat /\ (e = g \/ e = g + 4)
        BY DEF Byte
    <2> HIDE DEF e, g
    <2>5. e + 2 + p + (n + 124) + 1 # (g + 2 + p + (n + (124 + c)) + 1) + 1
        BY <2>2, <2>4
    <2> QED
        BY <2>3, <2>5 DEF e, g
<1>3. LengthFrom(124, c, y) # LengthFrom(124 + c, y, z) + 1
    <2>1. /\ 124 \div 64 = 1 /\ 124 \div 32 = 3 /\ 124 % 4 = 0 /\ 1 % 2 = 1 /\ 3 % 2 = 1
          /\ (124 + c) \div 64 = 1 /\ (124 + c) \div 32 = 3 /\ (124 + c) % 4 = c
        OBVIOUS
    <2>2. LengthFrom(124, c, y) = (IF y > 0 THEN 15 ELSE 11) + 2 + 4 + (256 * 0 + c) + 1
        BY <2>1 DEF LengthFrom
    <2>3. LengthFrom(124 + c, y, z) = (IF z > 0 THEN 15 ELSE 11) + 2 + 4 + (256 * c + y) + 1
        BY <2>1 DEF LengthFrom
    <2> QED
        BY <2>2, <2>3 DEF Byte
<1> QED
    BY <1>1, <1>2, <1>3

(* So no two whole frames differ by an escape made or undone past the ID.   *)
LEMMA NotShifted ==
    ASSUME NEW s \in Seq(Byte), NEW t \in Seq(Byte), Whole(s), Whole(t),
           NEW k, NEW c, Shifted(s, t, k, c), k > 2
    PROVE  FALSE
<1>1. /\ Len(s) = Len(t) + 1 /\ Len(t) >= 13 /\ Len(s) \in Nat /\ Len(t) \in Nat
      /\ Len(s) = LengthSaid(s) /\ Len(t) = LengthSaid(t)
      /\ k \in Nat /\ c \in {1, 2} /\ k <= Len(t)
    BY DEF Shifted, Whole
<1>2. LengthSaid(s) = LengthSaid(t) + 1
    BY <1>1
<1>3. s[3] \in Byte /\ s[4] \in Byte /\ s[5] \in Byte /\ s[6] \in Byte
    BY <1>1
<1>4. s[k] = 124 /\ s[k + 1] = c /\ t[k] = 124 + c
    BY DEF Shifted
<1>5. ASSUME NEW i \in 1..Len(t)
      PROVE  (i < k => t[i] = s[i]) /\ (i > k => t[i] = s[i + 1])
    BY <1>1 DEF Shifted
<1>6. 3 \in 1..Len(t) /\ 4 \in 1..Len(t) /\ 5 \in 1..Len(t)
    BY <1>1
<1>7. CASE k > 5
    <2>1. s[3] = t[3] /\ s[4] = t[4] /\ s[5] = t[5]
        BY <1>1, <1>5, <1>6, <1>7
    <2>2. LengthSaid(s) = LengthSaid(t)
        BY <2>1, SameLengthSaid
    <2> QED
        BY <1>1, <2>2
<1>8. CASE k = 5
    <2>1. s[3] = t[3] /\ s[4] = t[4] /\ s[5] = 124 /\ t[5] = 124 + c
        BY <1>4, <1>5, <1>6, <1>8
    <2>2. LengthSaid(s) = LengthSaid(t)
        BY <1>1, <1>3, <2>1, LengthShift DEF LengthSaid
    <2> QED
        BY <1>1, <2>2
<1>9. CASE k = 4
    <2>1. s[4] = 124 /\ s[5] = c /\ t[4] = 124 + c
        BY <1>4, <1>9
    <2>2. s[3] = t[3] /\ t[5] = s[6]
        BY <1>5, <1>6, <1>9
    <2>3. LengthSaid(s) = LengthFrom(s[3], 124, c) /\ LengthSaid(t) = LengthFrom(s[3], 124 + c, s[6])
        BY <2>1, <2>2 DEF LengthSaid
    <2> QED
        BY <1>1, <1>2, <1>3, <2>3, LengthShift
<1>10. CASE k = 3
    <2>1. s[3] = 124 /\ s[4] = c /\ t[3] = 124 + c
        BY <1>4, <1>10
    <2>2. t[4] = s[5] /\ t[5] = s[6]
        BY <1>5, <1>6, <1>10
    <2>3. LengthSaid(s) = LengthFrom(124, c, s[5]) /\ LengthSaid(t) = LengthFrom(124 + c, s[5], s[6])
        BY <2>1, <2>2 DEF LengthSaid
    <2> QED
        BY <1>1, <1>2, <1>3, <2>3, LengthShift
<1> QED
    BY <1>1, <1>7, <1>8, <1>9, <1>10

(* Whole frames that differ in the middle have the same checksum there.     *)
LEMMA ChecksumMiddle ==
    ASSUME NEW p \in Seq(Byte), NEW w \in Seq(Byte), NEW v \in Seq(Byte), NEW q \in Seq(Byte),
           CalculateChecksum((p \o w) \o q) = CalculateChecksum((p \o v) \o q)
    PROVE  CalculateChecksum(w) = CalculateChecksum(v)
<1> DEFINE a == CalculateChecksum(p)
           b == CalculateChecksum(w)
           c == CalculateChecksum(v)
           d == CalculateChecksum(q)
<1>1. a \in Byte /\ b \in Byte /\ c \in Byte /\ d \in Byte
    BY ChecksumRun
<1>2. ASSUME NEW u \in Seq(Byte)
      PROVE  CalculateChecksum((p \o u) \o q)
                = Xor(Xor(CalculateChecksum(p), CalculateChecksum(u)), CalculateChecksum(q))
    <2> DEFINE x == p \o u
    <2>1. x \in Seq(Byte) /\ CalculateChecksum(x) = Xor(CalculateChecksum(p), CalculateChecksum(u))
        BY TwoParts, ChecksumConcat
    <2> HIDE DEF x
    <2>2. CalculateChecksum(x \o q) = Xor(CalculateChecksum(x), CalculateChecksum(q))
        BY <2>1, ChecksumConcat
    <2> QED
        BY <2>1, <2>2 DEF x
<1>3. Xor(Xor(a, b), d) = Xor(Xor(a, c), d)
    BY <1>2
<1> HIDE DEF a, b, c, d
<1>4. Xor(a, b) \in Byte /\ Xor(a, c) \in Byte
    BY <1>1, XorFacts
<1>5. Xor(a, b) = Xor(a, c)
    BY <1>1, <1>3, <1>4, XorCancels
<1>6. Xor(b, a) = Xor(c, a)
    BY <1>1, <1>5, XorLaws
<1>7. b = c
    BY <1>1, <1>6, XorCancels
<1> QED
    BY <1>7 DEF b, c

(* The checksum of two bytes.                                               *)
LEMMA ChecksumTwo ==
    ASSUME NEW a \in Byte, NEW c \in Byte
    PROVE  CalculateChecksum(<<a, c>>) = Xor(a, c)
<1> DEFINE s == <<a>> \o <<c>>
           t == <<a, c>>
<1>1. s \in Seq(Byte) /\ Len(s) = 2 /\ s[1] = a /\ s[2] = c
    OBVIOUS
<1>2. t \in Seq(Byte) /\ Len(t) = 2 /\ t[1] = a /\ t[2] = c
    OBVIOUS
<1>3. CalculateChecksum(s) = Xor(a, c)
    <2>1. <<a>> \in Seq(Byte) /\ <<c>> \in Seq(Byte)
        OBVIOUS
    <2> QED
        BY <2>1, ChecksumConcat, ChecksumOne
<1> HIDE DEF s, t
<1>4. s = t
    BY <1>1, <1>2, SameBytes
<1> QED
    BY <1>3, <1>4 DEF t

(* The code undone is that of a byte 124.                                   *)
LEMMA CodeUndone ==
    ASSUME NEW a \in Byte, NEW c \in {1, 2},
           CalculateChecksum(<<a, c>>) = CalculateChecksum(<<UnescapeMap(c)>>)
    PROVE  a = 124 /\ UnescapeMap(c) = 124 + c
<1>1. c \in Byte /\ UnescapeMap(c) \in Byte /\ 124 \in Byte
    <2>1. 124 \in Byte
        BY DEF Byte
    <2> QED
        BY <2>1, EscapeMaps
<1>2. UnescapeMap(c) = 124 + c
    BY DEF UnescapeMap, ProtocolFlag, ProtocolEscape
<1>3. Xor(124, c) = 124 + c
    BY XorEscapes
<1>4. Xor(a, c) = Xor(124, c)
    BY <1>1, <1>2, <1>3, ChecksumOne, ChecksumTwo
<1> QED
    BY <1>1, <1>2, <1>4, XorCancels

Undone(p, c, q) == (p \o <<124, c>>) \o q
Coded(p, c, q) == (p \o <<124 + c>>) \o q

(* An escape undone, as a shift of the bytes after it.                      *)
LEMMA ShiftedBy ==
    ASSUME NEW p \in Seq(Byte), NEW q \in Seq(Byte), NEW c \in {1, 2}
    PROVE  Shifted(Undone(p, c, q), Coded(p, c, q), Len(p) + 1, c)
<1> DEFINE w == <<124, c>>
           v == <<124 + c>>
           s == (p \o w) \o q
           t == (p \o v) \o q
           k == Len(p) + 1
<1>1. /\ w \in Seq(Byte) /\ Len(w) = 2 /\ w[1] = 124 /\ w[2] = c
      /\ v \in Seq(Byte) /\ Len(v) = 1 /\ v[1] = 124 + c
    BY DEF Byte
<1> HIDE DEF w, v
<1>2. w \in Seq(Byte) /\ v \in Seq(Byte)
    BY <1>1
<1>3. /\ s \in Seq(Byte) /\ Len(s) = Len(p) + Len(w) + Len(q)
      /\ Len(p) \in Nat /\ Len(q) \in Nat
      /\ \A i \in 1..Len(p) + Len(w) + Len(q) :
             s[i] = IF i <= Len(p) THEN p[i]
                    ELSE IF i <= Len(p) + Len(w) THEN w[i - Len(p)]
                    ELSE q[i - Len(p) - Len(w)]
    BY <1>2, ThreeParts
<1>4. /\ t \in Seq(Byte) /\ Len(t) = Len(p) + Len(v) + Len(q)
      /\ \A i \in 1..Len(p) + Len(v) + Len(q) :
             t[i] = IF i <= Len(p) THEN p[i]
                    ELSE IF i <= Len(p) + Len(v) THEN v[i - Len(p)]
                    ELSE q[i - Len(p) - Len(v)]
    BY <1>2, ThreeParts
<1> HIDE DEF s, t
<1> DEFINE n == Len(p)
           l == Len(q)
<1>5. n \in Nat /\ l \in Nat /\ Len(s) = n + 2 + l /\ Len(t) = n + 1 + l
    BY <1>1, <1>3, <1>4
<1>6. \A i \in 1..n + 2 + l :
          s[i] = IF i <= n THEN p[i] ELSE IF i <= n + 2 THEN w[i - n] ELSE q[i - n - 2]
    BY <1>1, <1>3
<1>7. \A i \in 1..n + 1 + l :
          t[i] = IF i <= n THEN p[i] ELSE IF i <= n + 1 THEN v[i - n] ELSE q[i - n - 1]
    BY <1>1, <1>4
<1> HIDE DEF n, l
<1>8. s[n + 1] = 124 /\ s[n + 2] = c /\ t[n + 1] = 124 + c
    BY <1>1, <1>5, <1>6, <1>7
<1>9. ASSUME NEW i \in 1..n PROVE s[i] = t[i]
    <2>1. i \in 1..n + 2 + l /\ i \in 1..n + 1 + l /\ i <= n
        BY <1>5
    <2>2. s[i] = p[i] /\ t[i] = p[i]
        BY <1>6, <1>7, <2>1
    <2> QED
        BY <2>2
<1>10. ASSUME NEW i \in n + 2..n + 1 + l PROVE t[i] = s[i + 1]
    <2>1. i \in 1..n + 1 + l /\ i + 1 \in 1..n + 2 + l /\ ~(i <= n + 1) /\ ~(i + 1 <= n + 2) /\ i > n
        BY <1>5
    <2>2. t[i] = q[i - n - 1]
        BY <1>5, <1>7, <2>1
    <2>3. s[i + 1] = q[(i + 1) - n - 2]
        BY <1>5, <1>6, <2>1
    <2>4. (i + 1) - n - 2 = i - n - 1
        BY <1>5
    <2> QED
        BY <2>2, <2>3, <2>4
<1>11. k = n + 1 /\ k - 1 = n /\ k + 1 = n + 2
    BY <1>5 DEF n
<1> HIDE DEF k
<1>12. Shifted(s, t, k, c)
    BY <1>5, <1>8, <1>9, <1>10, <1>11 DEF Shifted
<1> QED
    BY <1>12 DEF Undone, Coded, s, t, w, v, k

(* A message ID that the protocol assigns has none of these bytes.          *)
Named(s) == {s[1], s[2]} \cap {124, 125, 126} = {}

(* No two whole frames differ by one code swapped.                          *)
LEMMA NotSwapped ==
    ASSUME NEW s \in Seq(Byte), NEW t \in Seq(Byte), Whole(s), Whole(t), Named(s), Swapped(s, t)
    PROVE  FALSE
<1>1. PICK p \in Seq(Byte), w \in Seq(Byte), v \in Seq(Byte), q \in Seq(Byte) :
          Swap(w, v) /\ s = (p \o w) \o q /\ t = (p \o v) \o q
    BY DEF Swapped
<1>2. CalculateChecksum(w) = CalculateChecksum(v)
    BY <1>1, ChecksumMiddle DEF Whole
<1>3. ASSUME NEW a \in Byte, NEW b \in Byte, a # b, w = <<a>>, v = <<b>> PROVE FALSE
    BY <1>2, <1>3, ChecksumOne
<1> DEFINE k == Len(p) + 1
<1>4. ASSUME NEW c \in {1, 2}, Shifted(s, t, k, c) \/ Shifted(t, s, k, c)
      PROVE  k > 2
    <2>1. k \in Nat /\ k >= 1
        BY TwoParts
    <2> HIDE DEF k
    <2>2. s[k] \in {124, 125, 126}
        BY <1>4 DEF Shifted
    <2>3. s[1] \notin {124, 125, 126} /\ s[2] \notin {124, 125, 126}
        BY DEF Named
    <2>4. k # 1 /\ k # 2
        BY <2>2, <2>3
    <2> QED
        BY <2>1, <2>4
<1>5. ASSUME NEW a \in Byte, NEW c \in {1, 2}, w = <<a, c>>, v = <<UnescapeMap(c)>> PROVE FALSE
    <2>1. a = 124 /\ UnescapeMap(c) = 124 + c
        BY <1>2, <1>5, CodeUndone
    <2>2. Shifted(s, t, k, c)
        <3>1. s = (p \o <<124, c>>) \o q /\ t = (p \o <<124 + c>>) \o q
            BY <1>1, <1>5, <2>1
        <3>2. Shifted(Undone(p, c, q), Coded(p, c, q), Len(p) + 1, c)
            BY ShiftedBy
        <3> QED
            BY <3>1, <3>2, Zenon DEF Undone, Coded
    <2> HIDE DEF k
    <2> QED
        BY <1>4, <2>2, NotShifted
<1>6. ASSUME NEW b \in Byte, NEW c \in {1, 2}, w = <<UnescapeMap(c)>>, v = <<b, c>> PROVE FALSE
    <2>1. b = 124 /\ UnescapeMap(c) = 124 + c
        BY <1>2, <1>6, CodeUndone
    <2>2. Shifted(t, s, k, c)
        <3>1. t = (p \o <<124, c>>) \o q /\ s = (p \o <<124 + c>>) \o q
            BY <1>1, <1>6, <2>1
        <3>2. Shifted(Undone(p, c, q), Coded(p, c, q), Len(p) + 1, c)
            BY ShiftedBy
        <3> QED
            BY <3>1, <3>2, Zenon DEF Undone, Coded
    <2> HIDE DEF k
    <2> QED
        BY <1>4, <2>2, NotShifted
<1> QED
    BY <1>1, <1>3, <1>5, <1>6 DEF Swap

(* Nor does one end where the other goes on.                                *)
LEMMA NotLonger ==
    ASSUME NEW s \in Seq(Byte), NEW q \in Seq(Byte), Whole(s), Whole(s \o q)
    PROVE  q = <<>>
<1>1. /\ Len(s \o q) = Len(s) + Len(q) /\ Len(s) \in Nat /\ Len(q) \in Nat
      /\ \A i \in 1..Len(s) + Len(q) : (s \o q)[i] = IF i <= Len(s) THEN s[i] ELSE q[i - Len(s)]
    BY TwoParts
<1> DEFINE t == s \o q
<1>2. t[3] = s[3] /\ t[4] = s[4] /\ t[5] = s[5]
    BY <1>1 DEF Whole
<1>3. Len(t) = Len(s)
    <2>1. Len(t) = LengthSaid(t) /\ Len(s) = LengthSaid(s)
        BY DEF Whole
    <2> HIDE DEF t
    <2>2. LengthSaid(t) = LengthSaid(s)
        BY <1>2, SameLengthSaid
    <2> QED
        BY <2>1, <2>2
<1> QED
    BY <1>1, <1>3

-----------------------------------------------------------------------------
(* What Encode makes of a message                                           *)

Legal == {m \in Messages : Encodable(m)}

LEMMA MessageFields ==
    ASSUME NEW m \in Message
    PROVE  /\ m.msgID \in Word /\ m.version \in Byte /\ m.encryption \in 0..7
           /\ m.subPackage \in BOOLEAN /\ m.phoneNo \in Seq(0..9) /\ m.msgFlowNo \in Word
           /\ m.body \in Seq(Byte)
    BY DEF Message

(* The fields of a message that Encode accepts.                             *)
LEMMA LegalFacts ==
    ASSUME NEW m \in Legal
    PROVE  /\ m.msgID \in Word /\ m.version \in Byte /\ m.encryption \in 0..7
           /\ m.subPackage \in BOOLEAN /\ m.phoneNo \in Seq(0..9) /\ m.msgFlowNo \in Word
           /\ m.body \in Seq(Byte) /\ Len(m.body) \in Nat /\ Len(m.body) < 1024
           /\ Plain(m.msgID \div 256) /\ Plain(m.msgID % 256)
           /\ m \in Message
<1>0. m \in Messages /\ Encodable(m)
    BY DEF Legal
<1>1. m \in Message
    BY <1>0, MessagesAssumption
<1>2. Plain(m.msgID \div 256) /\ Plain(m.msgID % 256)
    BY <1>0, MessagesAssumption
<1>3. /\ m.msgID \in Word /\ m.version \in Byte /\ m.encryption \in 0..7
      /\ m.subPackage \in BOOLEAN /\ m.phoneNo \in Seq(0..9) /\ m.msgFlowNo \in Word
      /\ m.body \in Seq(Byte)
    BY <1>1, MessageFields
<1>4. Len(m.body) <= 1023
    BY <1>0 DEF Encodable
<1>5. Len(m.body) \in Nat /\ Len(m.body) < 1024
    <2> DEFINE b == m.body
    <2>1. b \in Seq(Byte)
        BY <1>3
    <2> HIDE DEF b
    <2>2. Len(b) \in Nat
        BY <2>1
    <2> QED
        BY <1>4, <2>2 DEF b
<1> QED
    BY <1>1, <1>2, <1>3, <1>5

LEMMA WordIs == ASSUME NEW n PROVE n \in Word <=> n \in Nat /\ n < 65536
    BY DEF Word

(* A 16-bit field and its two bytes.                                        *)
LEMMA Uint16Facts ==
    ASSUME NEW n \in Word
    PROVE  /\ Uint16(n) \in Seq(Byte) /\ Len(Uint16(n)) = 2
           /\ Uint16(n)[1] = n \div 256 /\ Uint16(n)[2] = n % 256
           /\ 256 * (n \div 256) + (n % 256) = n
<1> DEFINE x == n \div 256
           y == n % 256
<1>1. x \in Byte /\ y \in Byte /\ 256 * x + y = n
    <2>1. n \in Nat /\ n < 65536
        BY WordIs
    <2>2. x \in Nat /\ x <= 255 /\ y \in Nat /\ y <= 255 /\ 256 * x + y = n
        BY <2>1
    <2> HIDE DEF x, y
    <2> QED
        BY <2>2 DEF Byte
<1>2. Uint16(n) = <<x, y>>
    BY DEF Uint16
<1>3. 256 * (n \div 256) + (n % 256) = n
    BY <1>1
<1> HIDE DEF x, y
<1>4. <<x, y>> \in Seq(Byte) /\ Len(<<x, y>>) = 2 /\ <<x, y>>[1] = x /\ <<x, y>>[2] = y
    BY <1>1
<1> QED
    BY <1>2, <1>3, <1>4, Zenon DEF x, y

(* The fields that MsgBodyProperty packs can be told apart again.           *)
LEMMA PropertyFacts ==
    ASSUME NEW m \in Legal
    PROVE  /\ MsgBodyProperty(m) \in Word
           /\ MsgBodyProperty(m) % 1024 = Len(m.body)
           /\ (MsgBodyProperty(m) \div 1024) % 8 = m.encryption
           /\ Bit(MsgBodyProperty(m), 8192) = 1 <=> m.subPackage
           /\ Bit(MsgBodyProperty(m), 16384) = 1 <=> m.version > 0
<1> DEFINE n == Len(m.body)
           e == m.encryption
           s == IF m.subPackage THEN 1 ELSE 0
           v == IF m.version > 0 THEN 1 ELSE 0
           p == n + 1024 * e + 8192 * s + 16384 * v
<1>1. n \in Nat /\ n < 1024 /\ e \in 0..7 /\ s \in {0, 1} /\ v \in {0, 1}
    BY LegalFacts
<1>2. MsgBodyProperty(m) = p
    <2>1. n % 1024 = n /\ e % 8 = e
        <3> HIDE DEF n, e, s, v
        <3> QED
            BY <1>1
    <2>2. 8192 * s = (IF m.subPackage THEN 8192 ELSE 0)
          /\ 16384 * v = (IF m.version > 0 THEN 16384 ELSE 0)
        OBVIOUS
    <2>3. MsgBodyProperty(m) = (n % 1024) + 1024 * (e % 8) + 8192 * s + 16384 * v
        BY <2>2 DEF MsgBodyProperty
    <2> HIDE DEF n, e, s, v
    <2> QED
        BY <2>1, <2>3
<1>3. /\ s = 1 <=> m.subPackage
      /\ v = 1 <=> m.version > 0
    OBVIOUS
<1> HIDE DEF n, e, s, v
<1>4. p \in Nat /\ p < 65536 /\ p % 1024 = n
    BY <1>1
<1>5. (p \div 1024) % 8 = e
    <2>1. p \div 1024 = e + 8 * s + 16 * v
        BY <1>1
    <2> QED
        BY <1>1, <2>1
<1>6. (p \div 8192) % 2 = s
    <2>1. p \div 8192 = s + 2 * v
        BY <1>1
    <2> QED
        BY <1>1, <2>1
<1>7. (p \div 16384) % 2 = v
    <2>1. p \div 16384 = v
        BY <1>1
    <2> QED
        BY <1>1, <2>1
<1> HIDE DEF p
<1>8. /\ Bit(p, 8192) = 1 <=> m.subPackage
      /\ Bit(p, 16384) = 1 <=> m.version > 0
    BY <1>3, <1>6, <1>7 DEF Bit
<1> QED
    BY <1>2, <1>4, <1>5, <1>8, WordIs DEF n, e

(* Two digits of a phone number in a byte.                                  *)
Digit(s, i) == IF i <= Len(s) THEN s[i] ELSE 0
Packed(s, i) == 16 * Digit(s, 2 * i - 1) + Digit(s, 2 * i)

LEMMA PackedFacts ==
    ASSUME NEW s \in Seq(0..9), NEW i \in Nat, i > 0
    PROVE  /\ Digit(s, 2 * i - 1) \in 0..9 /\ Digit(s, 2 * i) \in 0..9
           /\ Packed(s, i) \in Byte
           /\ Packed(s, i) \div 16 = Digit(s, 2 * i - 1) /\ Packed(s, i) % 16 = Digit(s, 2 * i)
<1>1. \A j \in Nat : j > 0 => Digit(s, j) \in 0..9
    BY DEF Digit
<1> DEFINE d == Digit(s, 2 * i - 1)
           e == Digit(s, 2 * i)
<1>2. d \in 0..9 /\ e \in 0..9
    <2>1. 2 * i - 1 \in Nat /\ 2 * i \in Nat /\ 2 * i - 1 > 0 /\ 2 * i > 0
        OBVIOUS
    <2> QED
        BY <1>1, <2>1
<1> HIDE DEF d, e
<1>3. 16 * d + e \in Byte /\ (16 * d + e) \div 16 = d /\ (16 * d + e) % 16 = e
    BY <1>2 DEF Byte
<1>4. Packed(s, i) = 16 * d + e
    BY DEF Packed, d, e
<1> QED
    BY <1>2, <1>3, <1>4 DEF d, e

(* EncodeBCD makes the bytes of pairs of digits.                            *)
LEMMA BCDFacts ==
    ASSUME NEW s \in Seq(0..9), NEW n \in Nat
    PROVE  /\ EncodeBCD(s, n) \in Seq(Byte) /\ Len(EncodeBCD(s, n)) = n
           /\ \A i \in 1..n : EncodeBCD(s, n)[i] = Packed(s, i)
<1>1. EncodeBCD(s, n) = [i \in 1..n |-> Packed(s, i)]
    BY DEF EncodeBCD, Packed, Digit
<1>2. \A i \in 1..n : Packed(s, i) \in Byte
    BY PackedFacts
<1>3. [i \in 1..n |-> Packed(s, i)] \in [1..n -> Byte]
    BY <1>2
<1>4. [i \in 1..n |-> Packed(s, i)] \in Seq(Byte)
    BY <1>3
<1> QED
    BY <1>1, <1>4

PhoneOf(m) == EncodeBCD(m.phoneNo, PhoneLength(m.version))
VersionOf(m) == IF m.version > 0 THEN <<m.version>> ELSE <<>>
PackagesOf(m) == IF m.subPackage THEN Uint16(1) \o Uint16(1) ELSE <<>>
FieldsOf(m) == Uint16(m.msgID) \o Uint16(MsgBodyProperty(m))
BeforePhone(m) == FieldsOf(m) \o VersionOf(m)

(* The header as its fields, one after the other.                           *)
LEMMA HeaderParts ==
    ASSUME NEW m
    PROVE
           EncodeHeader(m) = ((BeforePhone(m) \o PhoneOf(m)) \o Uint16(m.msgFlowNo)) \o PackagesOf(m)
    BY DEF EncodeHeader, BeforePhone, FieldsOf, PhoneOf, VersionOf, PackagesOf

LEMMA PartOf ==
    ASSUME NEW x \in Seq(Byte), NEW c \in Seq(Byte), NEW z \in Seq(Byte)
    PROVE  SubSeq((x \o c) \o z, Len(x) + 1, Len(x) + Len(c)) = c
<1> DEFINE s == (x \o c) \o z
           t == SubSeq(s, Len(x) + 1, Len(x) + Len(c))
<1>1. /\ s \in Seq(Byte) /\ Len(s) = Len(x) + Len(c) + Len(z)
      /\ Len(x) \in Nat /\ Len(c) \in Nat /\ Len(z) \in Nat
      /\ \A i \in 1..Len(x) + Len(c) + Len(z) :
             s[i] = IF i <= Len(x) THEN x[i]
                    ELSE IF i <= Len(x) + Len(c) THEN c[i - Len(x)]
                    ELSE z[i - Len(x) - Len(c)]
    BY ThreeParts
<1> HIDE DEF s
<1>2. t \in Seq(Byte) /\ Len(t) = Len(c) /\ \A i \in 1..Len(c) : t[i] = s[Len(x) + i]
    <2> DEFINE n == Len(x)
               l == Len(c)
    <2>1. n \in Nat /\ l \in Nat /\ n + l <= Len(s) /\ Len(s) \in Nat
        BY <1>1
    <2> HIDE DEF n, l
    <2> DEFINE u == SubSeq(s, n + 1, n + l)
    <2>2. u \in Seq(Byte) /\ Len(u) = l /\ \A i \in 1..l : u[i] = s[n + i]
        BY <1>1, <2>1
    <2> QED
        BY <2>2 DEF n, l
<1> HIDE DEF t
<1>3. ASSUME NEW i \in 1..Len(c) PROVE t[i] = c[i]
    <2> DEFINE n == Len(x)
               j == n + i
    <2>1. n \in Nat /\ i \in Nat /\ 1 <= i /\ i <= Len(c)
        BY <1>1
    <2>2. j \in 1..Len(x) + Len(c) + Len(z) /\ ~(j <= Len(x)) /\ j <= Len(x) + Len(c) /\ j - Len(x) = i
        BY <1>1, <2>1
    <2>3. s[j] = c[j - Len(x)]
        <3> HIDE DEF j
        <3> QED
            BY <1>1, <2>2
    <2> QED
        BY <1>2, <2>2, <2>3
<1>4. t = c
    BY <1>2, <1>3, SameBytes
<1> QED
    BY <1>4 DEF t, s

(* n bytes.                                                                 *)
Sized(s, n) == s \in Seq(Byte) /\ n \in Nat /\ Len(s) = n

LEMMA SizedConcat ==
    ASSUME NEW x, NEW y, NEW a, NEW b, Sized(x, a), Sized(y, b)
    PROVE  Sized(x \o y, a + b)
    BY TwoParts DEF Sized

LEMMA SizedUint16 == ASSUME NEW n \in Word PROVE Sized(Uint16(n), 2)
    BY Uint16Facts DEF Sized

LEMMA SizedEmpty == Sized(<<>>, 0)
    BY DEF Sized

(* Encode makes bytes, and escapes them all together.                       *)
LEMMA HeaderTypesOf ==
    ASSUME NEW m \in Legal
    PROVE  /\ Uint16(m.msgID) \in Seq(Byte) /\ Uint16(MsgBodyProperty(m)) \in Seq(Byte)
           /\ FieldsOf(m) \in Seq(Byte) /\ Len(FieldsOf(m)) = 4
           /\ VersionOf(m) \in Seq(Byte) /\ Len(VersionOf(m)) = IF m.version > 0 THEN 1 ELSE 0
           /\ BeforePhone(m) \in Seq(Byte)
           /\ Len(BeforePhone(m)) = IF m.version > 0 THEN 5 ELSE 4
           /\ PhoneOf(m) \in Seq(Byte) /\ Len(PhoneOf(m)) = PhoneLength(m.version)
           /\ Uint16(m.msgFlowNo) \in Seq(Byte) /\ Len(Uint16(m.msgFlowNo)) = 2
           /\ PackagesOf(m) \in Seq(Byte) /\ Len(PackagesOf(m)) = IF m.subPackage THEN 4 ELSE 0
<1>1. /\ Sized(Uint16(m.msgID), 2) /\ Sized(Uint16(MsgBodyProperty(m)), 2)
      /\ Sized(Uint16(m.msgFlowNo), 2) /\ Sized(Uint16(1), 2)
    <2>1. m.msgID \in Word /\ MsgBodyProperty(m) \in Word /\ m.msgFlowNo \in Word /\ 1 \in Word
        BY LegalFacts, PropertyFacts, WordIs
    <2> QED
        BY <2>1, SizedUint16, Zenon
<1>2. Sized(FieldsOf(m), 4)
    <2>1. Sized(FieldsOf(m), 2 + 2)
        BY <1>1, SizedConcat, Zenon DEF FieldsOf
    <2>2. 2 + 2 = 4
        OBVIOUS
    <2> QED
        BY <2>1, <2>2, Zenon
<1>3. VersionOf(m) \in Seq(Byte) /\ Len(VersionOf(m)) = IF m.version > 0 THEN 1 ELSE 0
    <2>1. m.version \in Byte
        BY LegalFacts
    <2> QED
        BY <2>1 DEF VersionOf
<1>4. /\ BeforePhone(m) \in Seq(Byte)
      /\ Len(BeforePhone(m)) = IF m.version > 0 THEN 5 ELSE 4
    <2> DEFINE n == IF m.version > 0 THEN 1 ELSE 0
    <2>1. n \in Nat /\ 4 + n = IF m.version > 0 THEN 5 ELSE 4
        OBVIOUS
    <2>2. Sized(VersionOf(m), n)
        BY <1>3, <2>1 DEF Sized
    <2> HIDE DEF n
    <2>3. Sized(BeforePhone(m), 4 + n)
        BY <1>2, <2>2, SizedConcat, Zenon DEF BeforePhone
    <2> QED
        BY <2>1, <2>3 DEF Sized
<1>5. PhoneOf(m) \in Seq(Byte) /\ Len(PhoneOf(m)) = PhoneLength(m.version)
    <2>1. m.phoneNo \in Seq(0..9) /\ PhoneLength(m.version) \in Nat
        BY LegalFacts DEF PhoneLength
    <2> QED
        BY <2>1, BCDFacts DEF PhoneOf
<1>6. PackagesOf(m) \in Seq(Byte) /\ Len(PackagesOf(m)) = IF m.subPackage THEN 4 ELSE 0
    <2>1. CASE m.subPackage
        <3>1. Sized(PackagesOf(m), 2 + 2)
            BY <1>1, <2>1, SizedConcat, Zenon DEF PackagesOf
        <3> QED
            BY <2>1, <3>1 DEF Sized
    <2>2. CASE ~m.subPackage
        <3>1. Sized(PackagesOf(m), 0)
            BY <2>2, SizedEmpty DEF PackagesOf
        <3> QED
            BY <2>2, <3>1 DEF Sized
    <2> QED
        BY <2>1, <2>2
<1> QED
    BY <1>1, <1>2, <1>3, <1>4, <1>5, <1>6 DEF Sized

ChecksumOf(m) == CalculateChecksum(EncodeHeader(m) \o m.body)
Contents(m) == EncodeHeader(m) \o m.body
Bytes(m) == Append(Contents(m), ChecksumOf(m))

(* The header and the body, split at each field.                            *)
LEMMA ContentsSplit ==
    ASSUME NEW m \in Legal
    PROVE  /\ EncodeHeader(m) \in Seq(Byte) /\ Contents(m) \in Seq(Byte)
           /\ Len(EncodeHeader(m)) = Len(BeforePhone(m)) + PhoneLength(m.version) + 2
                                       + (IF m.subPackage THEN 4 ELSE 0)
           /\ Contents(m) = (BeforePhone(m) \o PhoneOf(m))
                              \o (Uint16(m.msgFlowNo) \o (PackagesOf(m) \o m.body))
           /\ Contents(m) = ((BeforePhone(m) \o PhoneOf(m)) \o Uint16(m.msgFlowNo))
                              \o (PackagesOf(m) \o m.body)
           /\ PackagesOf(m) \o m.body \in Seq(Byte)
           /\ Uint16(m.msgFlowNo) \o (PackagesOf(m) \o m.body) \in Seq(Byte)
           /\ BeforePhone(m) \o PhoneOf(m) \in Seq(Byte)
           /\ Len(BeforePhone(m) \o PhoneOf(m)) = Len(BeforePhone(m)) + PhoneLength(m.version)
<1> DEFINE a == BeforePhone(m)
           b == PhoneOf(m)
           c == Uint16(m.msgFlowNo)
           e == PackagesOf(m)
           f == m.body
           l == PhoneLength(m.version)
           g == IF m.subPackage THEN 4 ELSE 0
           h == EncodeHeader(m)
           s == Contents(m)
<1>1. /\ a \in Seq(Byte) /\ b \in Seq(Byte) /\ c \in Seq(Byte) /\ e \in Seq(Byte) /\ f \in Seq(Byte)
      /\ Len(b) = l /\ Len(c) = 2 /\ Len(e) = g
    BY HeaderTypesOf, LegalFacts
<1>2. h = ((a \o b) \o c) \o e /\ s = h \o f
    BY HeaderParts DEF Contents
<1> HIDE DEF a, b, c, e, f, l, g, h, s
<1> DEFINE x == a \o b
           y == x \o c
           z == e \o f
           w == c \o z
<1>3. x \in Seq(Byte) /\ Len(x) = Len(a) + l /\ Len(a) \in Nat /\ l \in Nat
    BY <1>1, TwoParts
<1>4. z \in Seq(Byte)
    BY <1>1, TwoParts
<1> HIDE DEF x, z
<1>5. y \in Seq(Byte) /\ Len(y) = Len(a) + l + 2
    <2>1. Sized(x, Len(a) + l) /\ Sized(c, 2)
        BY <1>1, <1>3 DEF Sized
    <2>2. Sized(y, Len(a) + l + 2)
        BY <2>1, SizedConcat
    <2> QED
        BY <2>2 DEF Sized
<1>6. w \in Seq(Byte)
    BY <1>1, <1>4, TwoParts
<1> HIDE DEF y, w
<1>7. h = y \o e
    BY <1>2 DEF x, y
<1>8. h \in Seq(Byte) /\ Len(h) = Len(y) + g
    BY <1>1, <1>5, <1>7, TwoParts
<1>9. s \in Seq(Byte)
    BY <1>1, <1>2, <1>8, TwoParts
<1>10. s = y \o z
    <2>1. (y \o e) \o f = y \o (e \o f)
        BY <1>1, <1>5, ByteAssoc, Zenon
    <2> QED
        BY <1>2, <1>7, <2>1 DEF z
<1>11. s = x \o w
    <2>1. x \in Seq(Byte) /\ c \in Seq(Byte) /\ z \in Seq(Byte)
        BY <1>1, <1>3, <1>4
    <2>2. (x \o c) \o z = x \o (c \o z)
        BY <2>1, ByteAssoc, Zenon
    <2> QED
        BY <1>10, <2>2 DEF y, w
<1>12. Len(h) = Len(a) + l + 2 + g
    BY <1>5, <1>8
<1> QED
    BY <1>3, <1>4, <1>6, <1>8, <1>9, <1>10, <1>11, <1>12, Zenon DEF x, y, z, w, a, b, c, e, f, l, g, h, s

(* The fields of the header where decodeHeader looks for them.              *)
LEMMA FieldsAt ==
    ASSUME NEW m \in Legal
    PROVE  /\ Contents(m)[1] = m.msgID \div 256 /\ Contents(m)[2] = m.msgID % 256
           /\ Property(Contents(m)) = MsgBodyProperty(m)
           /\ m.version > 0 => Contents(m)[5] = m.version
<1> DEFINE s == Contents(m)
           a == BeforePhone(m)
           f == FieldsOf(m)
           v == VersionOf(m)
           i == Uint16(m.msgID)
           p == Uint16(MsgBodyProperty(m))
           z == PhoneOf(m) \o (Uint16(m.msgFlowNo) \o (PackagesOf(m) \o m.body))
<1>1. /\ i \in Seq(Byte) /\ Len(i) = 2 /\ i[1] = m.msgID \div 256 /\ i[2] = m.msgID % 256
      /\ p \in Seq(Byte) /\ Len(p) = 2
      /\ 256 * p[1] + p[2] = MsgBodyProperty(m)
    <2>1. m.msgID \in Word /\ MsgBodyProperty(m) \in Word
        BY LegalFacts, PropertyFacts
    <2> DEFINE n == m.msgID
               q == MsgBodyProperty(m)
    <2> HIDE DEF n, q
    <2>2. n \in Word /\ q \in Word
        BY <2>1 DEF n, q
    <2>3. /\ Uint16(n) \in Seq(Byte) /\ Len(Uint16(n)) = 2
          /\ Uint16(n)[1] = n \div 256 /\ Uint16(n)[2] = n % 256
        BY <2>2, Uint16Facts
    <2>4. /\ Uint16(q) \in Seq(Byte) /\ Len(Uint16(q)) = 2
          /\ Uint16(q)[1] = q \div 256 /\ Uint16(q)[2] = q % 256
          /\ 256 * (q \div 256) + (q % 256) = q
        BY <2>2, Uint16Facts
    <2>5. 256 * Uint16(q)[1] + Uint16(q)[2] = q
        BY <2>4, Zenon
    <2> QED
        BY <2>3, <2>4, <2>5, Zenon DEF n, q
<1>2. /\ f \in Seq(Byte) /\ Len(f) = 4 /\ v \in Seq(Byte) /\ a \in Seq(Byte)
      /\ a = f \o v /\ f = i \o p /\ Len(v) \in Nat
      /\ m.version > 0 => v = <<m.version>>
    BY HeaderTypesOf DEF BeforePhone, FieldsOf, VersionOf
<1>3. s = a \o z /\ z \in Seq(Byte)
    <2> DEFINE b == PhoneOf(m)
               w == Uint16(m.msgFlowNo) \o (PackagesOf(m) \o m.body)
    <2>1. a \in Seq(Byte) /\ b \in Seq(Byte) /\ w \in Seq(Byte) /\ s = (a \o b) \o w
        BY HeaderTypesOf, ContentsSplit
    <2> HIDE DEF a, b, w, s
    <2>2. (a \o b) \o w = a \o (b \o w)
        BY <2>1, ByteAssoc, Zenon
    <2>3. b \o w \in Seq(Byte)
        BY <2>1, TwoParts
    <2> QED
        BY <2>1, <2>2, <2>3 DEF b, w
<1>4. m.version > 0 => Len(v) = 1 /\ v[1] = m.version
    BY <1>2
<1> HIDE DEF s, a, f, v, i, p, z
<1>5. f[1] = i[1] /\ f[2] = i[2] /\ f[3] = p[1] /\ f[4] = p[2]
    <2>1. \A j \in 1..Len(i) + Len(p) :
              (i \o p)[j] = IF j <= Len(i) THEN i[j] ELSE p[j - Len(i)]
        BY <1>1, TwoParts
    <2>2. \A j \in 1..4 : f[j] = IF j <= 2 THEN i[j] ELSE p[j - 2]
        <3>1. 2 + 2 = 4
            OBVIOUS
        <3> QED
            BY <1>1, <1>2, <2>1, <3>1, Zenon
    <2>3. f[1] = i[1] /\ f[2] = i[2]
        BY <2>2
    <2>4. f[3] = p[3 - 2] /\ f[4] = p[4 - 2]
        BY <2>2
    <2> QED
        BY <2>3, <2>4
<1>6. /\ \A j \in 1..4 : a[j] = f[j]
      /\ Len(a) \in Nat /\ Len(a) >= 4
      /\ m.version > 0 => Len(a) = 5 /\ a[5] = v[1]
    <2>1. /\ Len(a) = 4 + Len(v)
          /\ \A j \in 1..4 + Len(v) : a[j] = IF j <= 4 THEN f[j] ELSE v[j - 4]
        BY <1>2, TwoParts
    <2>2. \A j \in 1..4 : a[j] = f[j]
        <3> TAKE j \in 1..4
        <3>1. j \in 1..4 + Len(v) /\ j <= 4
            BY <1>2
        <3> QED
            BY <2>1, <3>1
    <2>3. Len(a) \in Nat /\ Len(a) >= 4
        BY <1>2, <2>1
    <2>4. ASSUME m.version > 0 PROVE Len(a) = 5 /\ a[5] = v[1]
        <3>1. Len(v) = 1
            BY <1>4, <2>4
        <3>2. 5 \in 1..4 + Len(v) /\ Len(a) = 5
            BY <2>1, <3>1
        <3>3. a[5] = v[5 - 4]
            BY <2>1, <3>2
        <3> QED
            BY <3>2, <3>3
    <2> QED
        BY <2>2, <2>3, <2>4
<1>7. \A j \in 1..Len(a) : s[j] = a[j]
    <2>1. \A j \in 1..Len(a) + Len(z) : s[j] = IF j <= Len(a) THEN a[j] ELSE z[j - Len(a)]
        BY <1>2, <1>3, TwoParts
    <2>2. Len(z) \in Nat
        BY <1>3
    <2> QED
        BY <1>6, <2>1, <2>2
<1>8. s[1] = i[1] /\ s[2] = i[2] /\ s[3] = p[1] /\ s[4] = p[2]
    BY <1>5, <1>6, <1>7
<1>9. m.version > 0 => s[5] = m.version
    BY <1>4, <1>6, <1>7
<1>10. Property(s) = MsgBodyProperty(m)
    BY <1>1, <1>8, Zenon DEF Property
<1> QED
    BY <1>1, <1>8, <1>9, <1>10, Zenon DEF s

(* The version, the flags and the length that decodeHeader finds.           *)
LEMMA PlacesAt ==
    ASSUME NEW m \in Legal
    PROVE  /\ Version(Contents(m)) = m.version
           /\ PropertyBit(Contents(m), 8192) = m.subPackage
           /\ PhoneAt(Contents(m)) = Len(BeforePhone(m))
           /\ FlowAt(Contents(m)) = Len(BeforePhone(m)) + PhoneLength(m.version)
           /\ HeaderLength(Contents(m)) = Len(EncodeHeader(m))
           /\ Property(Contents(m)) % 1024 = Len(m.body)
<1> DEFINE s == Contents(m)
<1>1. Property(s) = MsgBodyProperty(m) /\ (m.version > 0 => s[5] = m.version)
    BY FieldsAt
<1>2. /\ MsgBodyProperty(m) % 1024 = Len(m.body)
      /\ Bit(MsgBodyProperty(m), 8192) = 1 <=> m.subPackage
      /\ Bit(MsgBodyProperty(m), 16384) = 1 <=> m.version > 0
    BY PropertyFacts
<1>3. m.version \in Nat /\ m.subPackage \in BOOLEAN /\ m.body \in Seq(Byte)
    <2>1. m.version \in Byte /\ m.subPackage \in BOOLEAN /\ m.body \in Seq(Byte)
        BY LegalFacts
    <2> DEFINE v == m.version
    <2> HIDE DEF v
    <2>2. v \in Byte
        BY <2>1 DEF v
    <2>3. v \in Nat
        BY <2>2 DEF Byte
    <2> QED
        BY <2>1, <2>3 DEF v
<1> HIDE DEF s
<1>4. /\ PropertyBit(s, 8192) = m.subPackage
      /\ PropertyBit(s, 16384) <=> m.version > 0
    <2>1. /\ PropertyBit(s, 8192) <=> m.subPackage
          /\ PropertyBit(s, 16384) <=> m.version > 0
        BY <1>1, <1>2 DEF PropertyBit
    <2>2. PropertyBit(s, 8192) \in BOOLEAN
        BY DEF PropertyBit
    <2> QED
        BY <1>3, <2>1, <2>2
<1>5. Version(s) = m.version
    BY <1>1, <1>3, <1>4 DEF Version
<1>6. PhoneAt(s) = Len(BeforePhone(m))
    BY <1>4, HeaderTypesOf DEF PhoneAt
<1>7. FlowAt(s) = Len(BeforePhone(m)) + PhoneLength(m.version)
    BY <1>5, <1>6 DEF FlowAt
<1>8. HeaderLength(s) = Len(EncodeHeader(m))
    <2>1. Len(EncodeHeader(m)) = Len(BeforePhone(m)) + PhoneLength(m.version) + 2
                                   + (IF m.subPackage THEN 4 ELSE 0)
        BY ContentsSplit
    <2>2. HeaderLength(s) = FlowAt(s) + 2 + (IF m.subPackage THEN 4 ELSE 0)
        BY <1>4 DEF HeaderLength
    <2> QED
        BY <1>7, <2>1, <2>2
<1>11. Property(s) % 1024 = Len(m.body)
    BY <1>1, <1>2
<1> QED
    BY <1>4, <1>5, <1>6, <1>7, <1>8, <1>11 DEF s

(* The length of a header is the one decodeHeader computes.                 *)
LEMMA SizesAt ==
    ASSUME NEW m \in Legal
    PROVE  /\ Len(EncodeHeader(m)) \in Nat /\ Len(EncodeHeader(m)) >= 12
           /\ Len(Contents(m)) = Len(EncodeHeader(m)) + Len(m.body)
           /\ Len(m.body) \in Nat
<1>1. Len(EncodeHeader(m)) \in Nat /\ Len(EncodeHeader(m)) >= 12
    <2>1. Len(BeforePhone(m)) \in {4, 5} /\ PhoneLength(m.version) \in {6, 10}
        BY HeaderTypesOf DEF PhoneLength
    <2>2. Len(EncodeHeader(m)) = Len(BeforePhone(m)) + PhoneLength(m.version) + 2
                                   + (IF m.subPackage THEN 4 ELSE 0)
        BY ContentsSplit
    <2> DEFINE a == Len(BeforePhone(m))
               l == PhoneLength(m.version)
               n == Len(EncodeHeader(m))
               g == IF m.subPackage THEN 4 ELSE 0
    <2>3. a \in {4, 5} /\ l \in {6, 10} /\ g \in Nat /\ n = a + l + 2 + g
        BY <2>1, <2>2
    <2> HIDE DEF a, l, n, g
    <2>4. n \in Nat /\ n >= 12
        BY <2>3
    <2> QED
        BY <2>4 DEF n
<1>2. EncodeHeader(m) \in Seq(Byte) /\ m.body \in Seq(Byte)
    <2>1. EncodeHeader(m) \in Seq(Byte)
        BY ContentsSplit
    <2>2. m.body \in Seq(Byte)
        BY LegalFacts
    <2> QED
        BY <2>1, <2>2
<1>3. Len(Contents(m)) = Len(EncodeHeader(m)) + Len(m.body) /\ Len(m.body) \in Nat
    BY <1>2, TwoParts DEF Contents
<1> QED
    BY <1>1, <1>3

(* The contents of a frame: a header, a body and their checksum.            *)
LEMMA BytesFacts ==
    ASSUME NEW m \in Legal
    PROVE  /\ Bytes(m) \in Seq(Byte) /\ Len(Bytes(m)) = Len(Contents(m)) + 1
           /\ Len(Contents(m)) \in Nat /\ Len(Contents(m)) >= 12
           /\ Contents(m) \in Seq(Byte) /\ ChecksumOf(m) \in Byte
           /\ Front(Bytes(m)) = Contents(m) /\ Last(Bytes(m)) = ChecksumOf(m)
           /\ ChecksumOf(m) = CalculateChecksum(Contents(m))
           /\ \A i \in 1..Len(Contents(m)) : Bytes(m)[i] = Contents(m)[i]
<1> DEFINE s == Contents(m)
           c == ChecksumOf(m)
           t == Bytes(m)
<1>1. s \in Seq(Byte) /\ Len(s) \in Nat /\ Len(s) >= 12
    <2>1. s \in Seq(Byte)
        BY ContentsSplit, Zenon
    <2> DEFINE n == Len(EncodeHeader(m))
               l == Len(m.body)
    <2>2. n \in Nat /\ n >= 12 /\ l \in Nat /\ Len(s) = n + l
        BY SizesAt
    <2> HIDE DEF n, l, s
    <2> QED
        BY <2>1, <2>2
<1>2. c = CalculateChecksum(s) /\ t = Append(s, c)
    BY DEF ChecksumOf, Contents, Bytes
<1>3. c \in Byte
    BY <1>1, <1>2, ChecksumRun
<1> HIDE DEF s, c, t
<1>4. /\ t \in Seq(Byte) /\ Len(t) = Len(s) + 1 /\ t[Len(s) + 1] = c
      /\ \A i \in 1..Len(s) : t[i] = s[i]
    BY <1>1, <1>2, <1>3, AppendFacts
<1> DEFINE f == Front(t)
           l == Last(t)
<1>5. f \in Seq(Byte) /\ Len(f) = Len(t) - 1 /\ (\A i \in 1..Len(t) - 1 : f[i] = t[i]) /\ l = t[Len(t)]
    <2>1. Len(t) >= 13
        BY <1>1, <1>4
    <2> QED
        BY <1>4, <2>1, FrontFacts
<1> HIDE DEF f, l
<1>6. f = s
    <2>1. Len(f) = Len(s) /\ \A i \in 1..Len(f) : f[i] = s[i]
        BY <1>1, <1>4, <1>5
    <2> QED
        BY <1>1, <1>5, <2>1, SameBytes
<1>7. l = c
    BY <1>1, <1>4, <1>5
<1> QED
    BY <1>1, <1>2, <1>3, <1>4, <1>6, <1>7, Zenon DEF s, c, t, f, l

(* Encode escapes header, body and checksum as if they were one.            *)
LEMMA InnerIs == ASSUME NEW m \in Legal PROVE Inner(m) = Escape(Bytes(m))
<1> DEFINE h == EncodeHeader(m)
           b == m.body
           c == ChecksumOf(m)
           s == Contents(m)
<1>1. h \in Seq(Byte) /\ b \in Seq(Byte) /\ c \in Byte /\ s \in Seq(Byte) /\ s = h \o b
    BY ContentsSplit, LegalFacts, BytesFacts DEF Contents
<1>2. Inner(m) = (Escape(h) \o Escape(b)) \o Escape(<<c>>)
    BY DEF Inner, ChecksumOf
<1>3. Bytes(m) = s \o <<c>>
    BY <1>1, AppendFacts DEF Bytes
<1> HIDE DEF h, b, c, s
<1>4. <<c>> \in Seq(Byte)
    BY <1>1
<1>5. Escape(s) = Escape(h) \o Escape(b)
    BY <1>1, EscapeFacts
<1>6. Escape(s \o <<c>>) = Escape(s) \o Escape(<<c>>)
    BY <1>1, <1>4, EscapeFacts
<1> QED
    BY <1>2, <1>3, <1>5, <1>6

(* The contents of a frame pass the checks of Decode.                       *)
LEMMA BytesWhole == ASSUME NEW m \in Legal PROVE Whole(Bytes(m)) /\ Named(Bytes(m))
<1> DEFINE t == Bytes(m)
           s == Contents(m)
           c == ChecksumOf(m)
<1>1. /\ t \in Seq(Byte) /\ Len(t) = Len(s) + 1 /\ Len(s) \in Nat /\ Len(s) >= 12
      /\ s \in Seq(Byte) /\ c \in Byte /\ c = CalculateChecksum(s)
      /\ \A i \in 1..Len(s) : t[i] = s[i]
    BY BytesFacts
<1>2. t = Append(s, c)
    BY DEF Bytes
<1>3. CalculateChecksum(t) = 0
    <2> HIDE DEF s, c, t
    <2>1. CalculateChecksum(Append(s, c)) = Xor(CalculateChecksum(s), c)
        BY <1>1, ChecksumAppend
    <2>2. Xor(c, c) = 0
        BY <1>1, XorLaws
    <2> QED
        BY <1>1, <1>2, <2>1, <2>2
<1>4. HeaderLength(s) = Len(EncodeHeader(m)) /\ Property(s) % 1024 = Len(m.body)
    BY PlacesAt
<1>5. Len(EncodeHeader(m)) \in Nat /\ Len(s) = Len(EncodeHeader(m)) + Len(m.body) /\ Len(m.body) \in Nat
    BY SizesAt
<1>6. HeaderLength(s) + (Property(s) % 1024) + 1 = LengthSaid(s)
    <2> HIDE DEF s
    <2> QED
        BY <1>1, HeaderLengthSaid
<1> HIDE DEF s, c, t
<1>7. LengthSaid(t) = LengthSaid(s)
    <2>1. t[3] = s[3] /\ t[4] = s[4] /\ t[5] = s[5]
        BY <1>1
    <2> QED
        BY <2>1, SameLengthSaid
<1>8. Len(t) = LengthSaid(t)
    BY <1>1, <1>4, <1>5, <1>6, <1>7
<1>9. Whole(t)
    BY <1>1, <1>3, <1>8 DEF Whole
<1>10. Named(t)
    <2>1. t[1] = m.msgID \div 256 /\ t[2] = m.msgID % 256
        <3>1. t[1] = s[1] /\ t[2] = s[2]
            BY <1>1
        <3>2. s[1] = m.msgID \div 256 /\ s[2] = m.msgID % 256
            BY FieldsAt DEF s
        <3> QED
            BY <3>1, <3>2
    <2>2. Plain(m.msgID \div 256) /\ Plain(m.msgID % 256)
        BY LegalFacts
    <2>3. t[1] \notin {124, 125, 126} /\ t[2] \notin {124, 125, 126}
        BY <2>1, <2>2, Zenon DEF Plain
    <2> QED
        BY <2>3 DEF Named
<1> QED
    BY <1>9, <1>10 DEF t

(* A damaged frame is never decoded, whatever the damage makes of it.       *)
LEMMA SpoiltRefused ==
    ASSUME NEW m \in Legal, NEW y, Spoilt(Bytes(m), y)
    PROVE  ~Decodable(y)
<1> SUFFICES ASSUME Decodable(y) PROVE FALSE
    OBVIOUS
<1>1. ~Unescape(y).err /\ ~Unescape(y).escaped
    BY Zenon DEF Decodable
<1>2. PICK t \in Seq(Byte) : Unescape(y) = Acc(t, FALSE, FALSE) /\ Swapped(Bytes(m), t)
    BY <1>1 DEF Spoilt
<1>3. Whole(t)
    BY <1>2, DecodableWhole
<1> QED
    BY <1>2, <1>3, BytesWhole, BytesFacts, NotSwapped

(* A frame with one byte changed to anything but a flag is not decoded:     *)
(* codec.go notices every such damage of a frame Encode made.               *)
THEOREM DamageRefused ==
    ASSUME NEW m \in Legal, NEW j \in 1..Len(Inner(m)), NEW b \in Byte,
           b # ProtocolFlag, b # Inner(m)[j]
    PROVE  ~Decodable([Inner(m) EXCEPT ![j] = b])
<1>1. Inner(m) = Escape(Bytes(m)) /\ Bytes(m) \in Seq(Byte)
    BY InnerIs, BytesFacts
<1>2. Spoilt(Bytes(m), [Escape(Bytes(m)) EXCEPT ![j] = b])
    BY <1>1, ByteHit
<1> QED
    BY <1>1, <1>2, SpoiltRefused

(* A frame cut short by a byte that became a flag is not decoded.           *)
LEMMA CutRefused ==
    ASSUME NEW m \in Legal, NEW j \in 1..Len(Inner(m))
    PROVE  ~Decodable(SubSeq(Inner(m), 1, j - 1))
<1> DEFINE s == Bytes(m)
           y == SubSeq(Inner(m), 1, j - 1)
<1> SUFFICES ASSUME Decodable(y) PROVE FALSE
    OBVIOUS
<1>1. Inner(m) = Escape(s) /\ s \in Seq(Byte) /\ Whole(s)
    BY InnerIs, BytesFacts, BytesWhole
<1> HIDE DEF s
<1>2. ~Unescape(y).escaped
    <2> HIDE DEF y
    <2> QED
        BY Zenon DEF Decodable
<1>3. PICK p \in Seq(Byte), a \in Byte, q \in Seq(Byte) :
          s = (p \o <<a>>) \o q /\ Unescape(y) = Acc(p, FALSE, FALSE)
    BY <1>1, <1>2, CutCode
<1> HIDE DEF y
<1>4. Whole(p)
    BY <1>3, DecodableWhole
<1> DEFINE r == <<a>> \o q
<1>5. s = p \o r /\ r \in Seq(Byte) /\ Len(r) = 1 + Len(q) /\ Len(q) \in Nat
    <2>1. <<a>> \in Seq(Byte) /\ Len(<<a>>) = 1
        OBVIOUS
    <2>2. (p \o <<a>>) \o q = p \o (<<a>> \o q)
        BY <2>1, ByteAssoc, Zenon
    <2>3. r \in Seq(Byte) /\ Len(r) = 1 + Len(q) /\ Len(q) \in Nat
        BY <2>1, TwoParts
    <2> QED
        BY <1>3, <2>2, <2>3
<1> HIDE DEF r
<1>6. r = <<>>
    BY <1>1, <1>4, <1>5, NotLonger
<1> QED
    BY <1>5, <1>6

(* A frame whose end flag became another byte, so that it goes on to the    *)
(* next flag, is not decoded.                                               *)
LEMMA MoreRefused ==
    ASSUME NEW m \in Legal, NEW b \in Byte, b # ProtocolFlag
    PROVE  ~Decodable(Inner(m) \o <<b>>)
<1> DEFINE s == Bytes(m)
           y == Inner(m) \o <<b>>
<1> SUFFICES ASSUME Decodable(y) PROVE FALSE
    OBVIOUS
<1>1. Inner(m) = Escape(s) /\ s \in Seq(Byte) /\ Whole(s)
    BY InnerIs, BytesFacts, BytesWhole
<1> HIDE DEF s
<1>2. ~Unescape(y).escaped
    <2> HIDE DEF y
    <2> QED
        BY Zenon DEF Decodable
<1>3. Unescape(y) = Acc(Append(s, b), FALSE, FALSE)
    BY <1>1, <1>2, CodeAndMore
<1> HIDE DEF y
<1> DEFINE t == Append(s, b)
<1>4. t \in Seq(Byte) /\ t = s \o <<b>> /\ <<b>> \in Seq(Byte) /\ Len(<<b>>) = 1
    BY <1>1, AppendFacts
<1> HIDE DEF t
<1>5. Whole(t)
    <2>1. Unescape(y) = Acc(t, FALSE, FALSE)
        BY <1>3 DEF t
    <2> QED
        BY <1>4, <2>1, DecodableWhole
<1> DEFINE r == <<b>>
<1>6. t = s \o r /\ r \in Seq(Byte) /\ Len(r) = 1
    BY <1>4
<1> HIDE DEF r
<1>7. r = <<>>
    BY <1>1, <1>5, <1>6, NotLonger
<1> QED
    BY <1>6, <1>7

-----------------------------------------------------------------------------
(* What Decode makes of it                                                  *)

LEMMA DigitsCoding == Coding(Digits, Byte, 0..9)
<1>1. ASSUME NEW b \in Byte PROVE Digits[b] \in Seq(0..9)
    <2> DEFINE x == b \div 16
               y == b % 16
               f == IF x <= 9 THEN <<x>> ELSE <<>>
               g == IF y <= 9 THEN <<y>> ELSE <<>>
    <2>1. x \in Nat /\ y \in Nat
        BY DEF Byte
    <2>2. Digits[b] = f \o g
        BY DEF Digits
    <2> HIDE DEF x, y
    <2>3. <<>> \in Seq(0..9) /\ (x <= 9 => <<x>> \in Seq(0..9)) /\ (y <= 9 => <<y>> \in Seq(0..9))
        BY <2>1
    <2>4. f \in Seq(0..9)
        BY <2>3, Zenon
    <2>5. g \in Seq(0..9)
        BY <2>3, Zenon
    <2> HIDE DEF f, g
    <2> QED
        BY <2>2, <2>4, <2>5
<1>2. Digits = [b \in Byte |-> Digits[b]]
    BY DEF Digits
<1> QED
    BY <1>1, <1>2 DEF Coding

(* Two digits come back from the byte they were packed in.                  *)
LEMMA DigitsOfPacked ==
    ASSUME NEW s \in Seq(0..9), NEW i \in Nat, i > 0
    PROVE  Digits[Packed(s, i)] = <<Digit(s, 2 * i - 1), Digit(s, 2 * i)>>
<1> DEFINE b == Packed(s, i)
           x == Digit(s, 2 * i - 1)
           y == Digit(s, 2 * i)
<1>1. x \in 0..9 /\ y \in 0..9 /\ b \in Byte /\ b \div 16 = x /\ b % 16 = y
    BY PackedFacts
<1> HIDE DEF b, x, y
<1>2. Digits[b] = (IF b \div 16 <= 9 THEN <<b \div 16>> ELSE <<>>)
                    \o (IF b % 16 <= 9 THEN <<b % 16>> ELSE <<>>)
    BY <1>1 DEF Digits
<1>3. x <= 9 /\ y <= 9
    BY <1>1
<1>4. Digits[b] = <<x>> \o <<y>>
    BY <1>1, <1>2, <1>3, Zenon
<1>5. <<x>> \o <<y>> = <<x, y>>
    <2> DEFINE u == <<x>> \o <<y>>
               v == <<x, y>>
    <2>1. u \in Seq(0..9) /\ Len(u) = 2 /\ u[1] = x /\ u[2] = y
        BY <1>1
    <2>2. v \in Seq(0..9) /\ Len(v) = 2 /\ v[1] = x /\ v[2] = y
        BY <1>1
    <2> HIDE DEF u, v
    <2>3. \A k \in 1..Len(u) : u[k] = v[k]
        BY <2>1, <2>2
    <2>4. u = v
        BY <2>1, <2>2, <2>3, SeqEqual
    <2> QED
        BY <2>4 DEF u, v
<1> QED
    BY <1>4, <1>5 DEF b, x, y

(* The first n digits, filled up with zeros.                                *)
LEMMA PaddedFacts ==
    ASSUME NEW s \in Seq(0..9), NEW n \in Nat
    PROVE  /\ Padded(s, n) \in Seq(0..9) /\ Len(Padded(s, n)) = n
           /\ \A i \in 1..n : Padded(s, n)[i] = Digit(s, i)
<1>1. Padded(s, n) = [i \in 1..n |-> Digit(s, i)]
    BY DEF Padded, Digit
<1>2. \A i \in 1..n : Digit(s, i) \in 0..9
    BY DEF Digit
<1> QED
    BY <1>1, <1>2

LEMMA TwoPartsOf ==
    ASSUME NEW A, NEW x \in Seq(A), NEW c \in Seq(A)
    PROVE  /\ x \o c \in Seq(A) /\ Len(x \o c) = Len(x) + Len(c)
           /\ \A i \in 1..Len(x) + Len(c) : (x \o c)[i] = IF i <= Len(x) THEN x[i] ELSE c[i - Len(x)]
    OBVIOUS

(* Two digits more.                                                         *)
LEMMA PaddedMore ==
    ASSUME NEW s \in Seq(0..9), NEW n \in Nat
    PROVE  Padded(s, n) \o <<Digit(s, n + 1), Digit(s, n + 2)>> = Padded(s, n + 2)
<1> DEFINE x == Digit(s, n + 1)
           y == Digit(s, n + 2)
           p == Padded(s, n)
           v == <<x, y>>
           t == p \o v
           q == Padded(s, n + 2)
<1>1. /\ q \in Seq(0..9) /\ Len(q) = n + 2 /\ \A i \in 1..n + 2 : q[i] = Digit(s, i)
    <2>1. n + 2 \in Nat
        OBVIOUS
    <2> QED
        BY <2>1, PaddedFacts
<1>2. p \in Seq(0..9) /\ Len(p) = n /\ \A i \in 1..n : p[i] = Digit(s, i)
    BY PaddedFacts
<1>3. x \in 0..9 /\ y \in 0..9
    BY DEF Digit
<1> HIDE DEF x, y, p, q
<1>4. v \in Seq(0..9) /\ Len(v) = 2 /\ v[1] = x /\ v[2] = y
    BY <1>3
<1> HIDE DEF v
<1>5. /\ t \in Seq(0..9) /\ Len(t) = n + 2
      /\ \A i \in 1..n + 2 : t[i] = IF i <= n THEN p[i] ELSE v[i - n]
    <2>1. /\ t \in Seq(0..9) /\ Len(t) = Len(p) + Len(v)
          /\ \A i \in 1..Len(p) + Len(v) : t[i] = IF i <= Len(p) THEN p[i] ELSE v[i - Len(p)]
        BY <1>2, <1>4, TwoPartsOf
    <2> HIDE DEF t
    <2> QED
        BY <1>2, <1>4, <2>1
<1> HIDE DEF t
<1>6. ASSUME NEW i \in 1..n + 2 PROVE t[i] = q[i]
    <2>1. q[i] = Digit(s, i)
        BY <1>1
    <2>2. CASE i <= n
        BY <1>2, <1>5, <2>1, <2>2
    <2>3. CASE i = n + 1
        <3>1. t[i] = v[i - n] /\ i - n = 1
            BY <1>5, <2>3
        <3> QED
            BY <1>4, <2>1, <2>3, <3>1 DEF x
    <2>4. CASE i = n + 2
        <3>1. t[i] = v[i - n] /\ i - n = 2
            BY <1>5, <2>4
        <3> QED
            BY <1>4, <2>1, <2>4, <3>1 DEF y
    <2> QED
        BY <2>2, <2>3, <2>4
<1>7. t = q
    BY <1>1, <1>5, <1>6, SeqEqual
<1> QED
    BY <1>7 DEF t, q, p, v, x, y

LEMMA BCDMore ==
    ASSUME NEW s \in Seq(0..9), NEW n \in Nat
    PROVE  EncodeBCD(s, n + 1) = Append(EncodeBCD(s, n), Packed(s, n + 1))
<1> DEFINE p == EncodeBCD(s, n)
           q == EncodeBCD(s, n + 1)
           b == Packed(s, n + 1)
           t == Append(p, b)
<1>1. q \in Seq(Byte) /\ Len(q) = n + 1 /\ \A i \in 1..n + 1 : q[i] = Packed(s, i)
    <2>1. n + 1 \in Nat
        OBVIOUS
    <2> QED
        BY <2>1, BCDFacts
<1>2. p \in Seq(Byte) /\ Len(p) = n /\ \A i \in 1..n : p[i] = Packed(s, i)
    BY BCDFacts
<1>3. b \in Byte
    BY PackedFacts
<1> HIDE DEF p, q, b
<1>4. t \in Seq(Byte) /\ Len(t) = n + 1 /\ (\A i \in 1..n : t[i] = p[i]) /\ t[n + 1] = b
    BY <1>2, <1>3, AppendFacts
<1> HIDE DEF t
<1>5. \A i \in 1..n + 1 : i \in 1..n \/ i = n + 1
    OBVIOUS
<1>6. \A i \in 1..n + 1 : t[i] = q[i]
    BY <1>1, <1>2, <1>4, <1>5 DEF b
<1>7. t = q
    BY <1>1, <1>4, <1>6, SameBytes
<1> QED
    BY <1>7 DEF t, q, p, b

(* decodeBCD undoes encodeBCD, with the number in its full width.           *)
LEMMA DecodeEncodeBCD ==
    ASSUME NEW s \in Seq(0..9), NEW l \in Nat
    PROVE  DecodeBCD(EncodeBCD(s, l)) = Padded(s, 2 * l)
<1> DEFINE T == {n \in Nat : DecodeBCD(EncodeBCD(s, n)) = Padded(s, 2 * n)}
<1>1. 0 \in T
    <2> DEFINE p == EncodeBCD(s, 0)
               q == Padded(s, 0)
    <2>1. p \in Seq(Byte) /\ Len(p) = 0 /\ q \in Seq(0..9) /\ Len(q) = 0 /\ 2 * 0 = 0
        BY BCDFacts, PaddedFacts
    <2> HIDE DEF p, q
    <2>2. p = <<>> /\ q = <<>>
        BY <2>1
    <2>3. DecodeBCD(<<>>) = <<>>
        BY DigitsCoding, MappedEmpty DEF DecodeBCD
    <2> QED
        BY <2>1, <2>2, <2>3 DEF p, q
<1>2. ASSUME NEW n \in Nat, n \in T PROVE n + 1 \in T
    <2> DEFINE p == EncodeBCD(s, n)
               b == Packed(s, n + 1)
               i == n + 1
    <2>1. EncodeBCD(s, n + 1) = Append(p, b)
        BY BCDMore
    <2>2. i \in Nat /\ i > 0 /\ 2 * i - 1 = 2 * n + 1 /\ 2 * i = 2 * n + 2 /\ 2 * n \in Nat
        OBVIOUS
    <2>3. p \in Seq(Byte) /\ b \in Byte
        <3>1. Packed(s, i) \in Byte
            <4> HIDE DEF i
            <4> QED
                BY <2>2, PackedFacts
        <3> QED
            BY <3>1, BCDFacts
    <2>4. Digits[b] = <<Digit(s, 2 * n + 1), Digit(s, 2 * n + 2)>>
        <3> HIDE DEF i
        <3>1. Digits[Packed(s, i)] = <<Digit(s, 2 * i - 1), Digit(s, 2 * i)>>
            BY <2>2, DigitsOfPacked
        <3> QED
            BY <2>2, <3>1 DEF i
    <2>5. DecodeBCD(p) = Padded(s, 2 * n)
        BY <1>2
    <2>6. Padded(s, 2 * n) \o <<Digit(s, 2 * n + 1), Digit(s, 2 * n + 2)>> = Padded(s, 2 * n + 2)
        BY <2>2, PaddedMore
    <2> HIDE DEF p, b
    <2>7. DecodeBCD(Append(p, b)) = DecodeBCD(p) \o Digits[b]
        BY <2>3, DigitsCoding, MappedAppend DEF DecodeBCD
    <2> QED
        BY <2>1, <2>2, <2>4, <2>5, <2>6, <2>7 DEF p
<1> HIDE DEF T
<1>3. Nat \subseteq T
    BY <1>1, <1>2, Induction
<1> QED
    BY <1>3 DEF T

(* The fields of Expected.                                                  *)
LEMMA MessageWithPhone ==
    ASSUME NEW m \in Message, NEW p
    PROVE  [m EXCEPT !.phoneNo = p]
             = [msgID |-> m.msgID, version |-> m.version, encryption |-> m.encryption,
                subPackage |-> m.subPackage, phoneNo |-> p, msgFlowNo |-> m.msgFlowNo,
                body |-> m.body]
    BY DEF Message

(* The flow number, the phone number and the body that Decode reads.        *)
LEMMA FlowNoAt ==
    ASSUME NEW m \in Legal
    PROVE  256 * Contents(m)[FlowAt(Contents(m)) + 1] + Contents(m)[FlowAt(Contents(m)) + 2]
             = m.msgFlowNo
<1> DEFINE s == Contents(m)
           x == BeforePhone(m) \o PhoneOf(m)
           c == Uint16(m.msgFlowNo)
           z == PackagesOf(m) \o m.body
           k == FlowAt(s)
<1>1. x \in Seq(Byte) /\ z \in Seq(Byte) /\ s = (x \o c) \o z
    BY ContentsSplit
<1>2. Len(x) = k
    <2>1. Len(x) = Len(BeforePhone(m)) + PhoneLength(m.version)
        BY ContentsSplit
    <2> QED
        BY <2>1, PlacesAt
<1>3. c \in Seq(Byte) /\ Len(c) = 2 /\ 256 * c[1] + c[2] = m.msgFlowNo
    <2> DEFINE n == m.msgFlowNo
    <2>1. n \in Word
        BY LegalFacts
    <2> HIDE DEF n
    <2>2. /\ Uint16(n) \in Seq(Byte) /\ Len(Uint16(n)) = 2
          /\ Uint16(n)[1] = n \div 256 /\ Uint16(n)[2] = n % 256
          /\ 256 * (n \div 256) + (n % 256) = n
        BY <2>1, Uint16Facts
    <2> QED
        BY <2>2, Zenon DEF n
<1> HIDE DEF s, x, c, z, k
<1>4. /\ Len(x) \in Nat /\ Len(z) \in Nat
      /\ \A i \in 1..Len(x) + Len(c) + Len(z) :
             s[i] = IF i <= Len(x) THEN x[i]
                    ELSE IF i <= Len(x) + Len(c) THEN c[i - Len(x)]
                    ELSE z[i - Len(x) - Len(c)]
    <2>1. x \in Seq(Byte) /\ c \in Seq(Byte) /\ z \in Seq(Byte)
        BY <1>1, <1>3
    <2>2. /\ Len(x) \in Nat /\ Len(z) \in Nat
          /\ \A i \in 1..Len(x) + Len(c) + Len(z) :
                 ((x \o c) \o z)[i] = IF i <= Len(x) THEN x[i]
                                      ELSE IF i <= Len(x) + Len(c) THEN c[i - Len(x)]
                                      ELSE z[i - Len(x) - Len(c)]
        BY <2>1, ThreeParts
    <2> QED
        BY <1>1, <2>2, Zenon
<1> DEFINE l == Len(z)
<1>5. /\ k \in Nat /\ l \in Nat
      /\ \A i \in 1..k + 2 + l :
             s[i] = IF i <= k THEN x[i] ELSE IF i <= k + 2 THEN c[i - k] ELSE z[i - k - 2]
    BY <1>2, <1>3, <1>4
<1> HIDE DEF l
<1>6. s[k + 1] = c[(k + 1) - k] /\ s[k + 2] = c[(k + 2) - k]
    BY <1>5
<1>7. (k + 1) - k = 1 /\ (k + 2) - k = 2
    BY <1>5
<1>8. s[k + 1] = c[1] /\ s[k + 2] = c[2]
    BY <1>6, <1>7
<1> QED
    BY <1>3, <1>8, Zenon DEF s, k

LEMMA PhoneNoAt ==
    ASSUME NEW m \in Legal
    PROVE  DecodeBCD(SubSeq(Contents(m), PhoneAt(Contents(m)) + 1, FlowAt(Contents(m))))
             = Padded(m.phoneNo, 2 * PhoneLength(m.version))
<1> DEFINE s == Contents(m)
           x == BeforePhone(m)
           c == PhoneOf(m)
           z == Uint16(m.msgFlowNo) \o (PackagesOf(m) \o m.body)
           l == PhoneLength(m.version)
<1>1. x \in Seq(Byte) /\ c \in Seq(Byte) /\ Len(c) = l
    BY HeaderTypesOf
<1>2. z \in Seq(Byte) /\ s = (x \o c) \o z
    BY ContentsSplit
<1>3. PhoneAt(s) = Len(x) /\ FlowAt(s) = Len(x) + l
    BY PlacesAt
<1>4. DecodeBCD(c) = Padded(m.phoneNo, 2 * l)
    <2>1. m.phoneNo \in Seq(0..9) /\ l \in Nat
        BY LegalFacts DEF PhoneLength
    <2> QED
        BY <2>1, DecodeEncodeBCD DEF PhoneOf
<1> HIDE DEF s, x, c, z, l
<1>5. SubSeq(s, Len(x) + 1, Len(x) + l) = c
    BY <1>1, <1>2, PartOf
<1> QED
    BY <1>3, <1>4, <1>5 DEF s, l

LEMMA BodyAt ==
    ASSUME NEW m \in Legal
    PROVE  SubSeq(Contents(m), HeaderLength(Contents(m)) + 1, Len(Contents(m))) = m.body
<1> DEFINE s == Contents(m)
           h == EncodeHeader(m)
           b == m.body
<1>1. h \in Seq(Byte) /\ s \in Seq(Byte)
    BY ContentsSplit
<1>2. b \in Seq(Byte)
    BY LegalFacts
<1>3. s = h \o b
    BY DEF Contents
<1>4. HeaderLength(s) = Len(h)
    BY PlacesAt
<1>5. Len(s) = Len(h) + Len(b)
    BY SizesAt
<1> HIDE DEF s, h, b
<1>6. <<>> \in Seq(Byte) /\ s \o <<>> = s
    BY <1>1
<1>7. SubSeq((h \o b) \o <<>>, Len(h) + 1, Len(h) + Len(b)) = b
    BY <1>1, <1>2, <1>6, PartOf, Zenon
<1>8. (h \o b) \o <<>> = s
    BY <1>3, <1>6
<1> QED
    BY <1>4, <1>5, <1>7, <1>8, Zenon DEF s, b

(* Decode accepts what Encode made of a message and gives the message back, *)
(* with the phone number in the width of its protocol version.              *)
THEOREM RoundTrip ==
    ASSUME NEW m \in Legal
    PROVE  Decodable(Inner(m)) /\ Decode(Inner(m)) = Expected(m)
<1> DEFINE s == Contents(m)
           t == Bytes(m)
           y == Inner(m)
<1>1. Unescape(y) = Acc(t, FALSE, FALSE)
    BY InnerIs, BytesFacts, UnescapeEscape
<1>2. Unescape(y).out = t /\ ~Unescape(y).err /\ ~Unescape(y).escaped
    <2>1. t \in Seq(Byte)
        BY BytesFacts
    <2> HIDE DEF t, y
    <2> QED
        BY <1>1, <2>1, AccFields
<1>3. /\ Len(t) = Len(s) + 1 /\ Len(s) \in Nat /\ Len(s) >= 12
      /\ Front(t) = s /\ Last(t) = CalculateChecksum(s)
    BY BytesFacts
<1>4. HeaderLength(s) = Len(EncodeHeader(m)) /\ Property(s) % 1024 = Len(m.body)
    BY PlacesAt
<1>5. Len(EncodeHeader(m)) \in Nat /\ Len(s) = Len(EncodeHeader(m)) + Len(m.body) /\ Len(m.body) \in Nat
    BY SizesAt
<1>6. Decodable(y)
    <2> DEFINE n == Len(EncodeHeader(m))
               l == Len(m.body)
    <2>1. HeaderLength(s) = n /\ Property(s) % 1024 = l /\ n \in Nat /\ l \in Nat /\ Len(s) = n + l
        BY <1>4, <1>5
    <2> HIDE DEF s, t, y, n, l
    <2>2. Len(t) >= 13 /\ Len(s) >= HeaderLength(s) /\ Len(s) - HeaderLength(s) = Property(s) % 1024
        BY <1>3, <2>1
    <2> QED
        BY <1>2, <1>3, <2>2, Zenon DEF Decodable
<1>7. /\ 256 * s[1] + s[2] = m.msgID
      /\ (Property(s) \div 1024) % 8 = m.encryption
      /\ Version(s) = m.version /\ PropertyBit(s, 8192) = m.subPackage
    <2>1. s[1] = m.msgID \div 256 /\ s[2] = m.msgID % 256 /\ Property(s) = MsgBodyProperty(m)
        BY FieldsAt
    <2>2. m.msgID \in Word
        BY LegalFacts
    <2>3. 256 * (m.msgID \div 256) + (m.msgID % 256) = m.msgID
        <3> DEFINE n == m.msgID
        <3>1. n \in Word
            BY <2>2
        <3> HIDE DEF n
        <3>2. 256 * (n \div 256) + (n % 256) = n
            BY <3>1, Uint16Facts
        <3> QED
            BY <3>2 DEF n
    <2>4. (MsgBodyProperty(m) \div 1024) % 8 = m.encryption
        BY PropertyFacts
    <2>5. Version(s) = m.version /\ PropertyBit(s, 8192) = m.subPackage
        BY PlacesAt
    <2>6. 256 * s[1] + s[2] = m.msgID
        BY <2>1, <2>3
    <2>7. (Property(s) \div 1024) % 8 = m.encryption
        BY <2>1, <2>4
    <2> QED
        BY <2>5, <2>6, <2>7
<1>8. /\ DecodeBCD(SubSeq(s, PhoneAt(s) + 1, FlowAt(s))) = Padded(m.phoneNo, 2 * PhoneLength(m.version))
      /\ 256 * s[FlowAt(s) + 1] + s[FlowAt(s) + 2] = m.msgFlowNo
      /\ SubSeq(s, HeaderLength(s) + 1, Len(s)) = m.body
    BY PhoneNoAt, FlowNoAt, BodyAt
<1>9. Decode(y) = [msgID |-> m.msgID, version |-> m.version, encryption |-> m.encryption,
                   subPackage |-> m.subPackage,
                   phoneNo |-> Padded(m.phoneNo, 2 * PhoneLength(m.version)),
                   msgFlowNo |-> m.msgFlowNo, body |-> m.body]
    <2> HIDE DEF s, t, y
    <2> DEFINE b == PropertyBit(s, 8192)
               i == 256 * s[1] + s[2]
               e == (Property(s) \div 1024) % 8
               p == DecodeBCD(SubSeq(s, PhoneAt(s) + 1, FlowAt(s)))
               n == 256 * s[FlowAt(s) + 1] + s[FlowAt(s) + 2]
               d == SubSeq(s, HeaderLength(s) + 1, Len(s))
    <2>1. Front(Unescape(y).out) = s
        BY <1>2, <1>3
    <2>2. Decode(y) = [msgID |-> i, version |-> Version(s), encryption |-> e, subPackage |-> b,
                       phoneNo |-> p, msgFlowNo |-> n, body |-> d]
        BY <2>1 DEF Decode
    <2>3. /\ i = m.msgID /\ e = m.encryption /\ Version(s) = m.version /\ b = m.subPackage
          /\ p = Padded(m.phoneNo, 2 * PhoneLength(m.version)) /\ n = m.msgFlowNo /\ d = m.body
        BY <1>7, <1>8
    <2> HIDE DEF b, i, e, p, n, d
    <2> QED
        BY <2>2, <2>3
<1>10. Expected(m) = [msgID |-> m.msgID, version |-> m.version, encryption |-> m.encryption,
                      subPackage |-> m.subPackage,
                      phoneNo |-> Padded(m.phoneNo, 2 * PhoneLength(m.version)),
                      msgFlowNo |-> m.msgFlowNo, body |-> m.body]
    BY LegalFacts, MessageWithPhone DEF Expected
<1> QED
    BY <1>6, <1>9, <1>10

-----------------------------------------------------------------------------
(* A frame in the stream                                                    *)

(* x is a flag, the bytes of w, a flag, and z.                              *)
Shaped(x, w, z) ==
    /\ x \in Seq(Byte) /\ w \in Seq(Byte) /\ z \in Seq(Byte)
    /\ Len(x) = Len(w) + Len(z) + 2
    /\ x[1] = ProtocolFlag
    /\ \A i \in 1..Len(w) : x[i + 1] = w[i]
    /\ x[Len(w) + 2] = ProtocolFlag
    /\ \A i \in 1..Len(z) : x[Len(w) + 2 + i] = z[i]

LEMMA FlagsAround ==
    ASSUME NEW w \in Seq(Byte), NEW z \in Seq(Byte)
    PROVE  Shaped(((<<ProtocolFlag>> \o w) \o <<ProtocolFlag>>) \o z, w, z)
<1> DEFINE f == <<ProtocolFlag>>
           y == f \o w
           v == y \o f
           x == v \o z
           n == Len(w)
           l == Len(z)
<1>1. f \in Seq(Byte) /\ Len(f) = 1 /\ f[1] = ProtocolFlag
    BY EscapeMaps
<1>2. n \in Nat /\ l \in Nat
    OBVIOUS
<1> HIDE DEF f
<1>3. /\ y \in Seq(Byte) /\ Len(y) = Len(f) + n
      /\ \A i \in 1..Len(f) + n : y[i] = IF i <= Len(f) THEN f[i] ELSE w[i - Len(f)]
    BY <1>1, TwoParts
<1> HIDE DEF y
<1>4. /\ v \in Seq(Byte) /\ Len(v) = Len(y) + Len(f)
      /\ \A i \in 1..Len(y) + Len(f) : v[i] = IF i <= Len(y) THEN y[i] ELSE f[i - Len(y)]
    BY <1>1, <1>3, TwoParts
<1> HIDE DEF v
<1>5. /\ x \in Seq(Byte) /\ Len(x) = Len(v) + l
      /\ \A i \in 1..Len(v) + l : x[i] = IF i <= Len(v) THEN v[i] ELSE z[i - Len(v)]
    BY <1>4, TwoParts
<1> HIDE DEF x, n, l
<1>6. Len(y) = n + 1 /\ Len(v) = n + 2 /\ Len(x) = n + l + 2
    BY <1>1, <1>2, <1>3, <1>4, <1>5
<1>7. \A i \in 1..n + 1 : y[i] = IF i <= 1 THEN f[i] ELSE w[i - 1]
    BY <1>1, <1>2, <1>3
<1>8. \A i \in 1..n + 2 : v[i] = IF i <= n + 1 THEN y[i] ELSE f[i - (n + 1)]
    BY <1>1, <1>2, <1>4, <1>6
<1>9. \A i \in 1..n + l + 2 : x[i] = IF i <= n + 2 THEN v[i] ELSE z[i - (n + 2)]
    BY <1>2, <1>5, <1>6
<1>10. x[1] = ProtocolFlag
    BY <1>1, <1>2, <1>7, <1>8, <1>9
<1>11. ASSUME NEW i \in 1..n PROVE x[i + 1] = w[i]
    <2>1. /\ i + 1 \in 1..n + 1 /\ i + 1 \in 1..n + 2 /\ i + 1 \in 1..n + l + 2
          /\ ~(i + 1 <= 1) /\ i + 1 <= n + 1 /\ i + 1 <= n + 2 /\ (i + 1) - 1 = i
        BY <1>2
    <2>2. x[i + 1] = v[i + 1] /\ v[i + 1] = y[i + 1] /\ y[i + 1] = w[(i + 1) - 1]
        BY <1>7, <1>8, <1>9, <2>1
    <2> QED
        BY <2>1, <2>2
<1>12. x[n + 2] = ProtocolFlag
    <2>1. n + 2 \in 1..n + 2 /\ n + 2 \in 1..n + l + 2 /\ ~(n + 2 <= n + 1) /\ (n + 2) - (n + 1) = 1
        BY <1>2
    <2>2. x[n + 2] = v[n + 2] /\ v[n + 2] = f[(n + 2) - (n + 1)]
        BY <1>8, <1>9, <2>1
    <2> QED
        BY <1>1, <2>1, <2>2
<1>13. ASSUME NEW i \in 1..l PROVE x[n + 2 + i] = z[i]
    <2> DEFINE j == n + 2 + i
    <2>1. j \in 1..n + l + 2 /\ ~(j <= n + 2) /\ j - (n + 2) = i
        BY <1>2
    <2> HIDE DEF j
    <2>2. x[j] = z[j - (n + 2)]
        BY <1>9, <2>1
    <2> QED
        BY <2>1, <2>2 DEF j
<1>14. Shaped(x, w, z)
    BY <1>5, <1>6, <1>10, <1>11, <1>12, <1>13 DEF Shaped, n, l
<1> QED
    BY <1>14 DEF x, v, y, f

(* A frame without its flags has no flag in it.                             *)
LEMMA InnerType ==
    ASSUME NEW m \in Legal
    PROVE  Inner(m) \in Seq(Byte) /\ FlagFree(Inner(m)) /\ Encode(m) \in Seq(Byte)
<1>1. Inner(m) \in Seq(Byte) /\ FlagFree(Inner(m))
    BY InnerIs, BytesFacts, EscapeFacts, EscapeFlagFree
<1>2. <<ProtocolFlag>> \in Seq(Byte)
    BY EscapeMaps
<1>3. Encode(m) = (<<ProtocolFlag>> \o Inner(m)) \o <<ProtocolFlag>>
    BY DEF Encode
<1> DEFINE f == <<ProtocolFlag>>
           y == f \o Inner(m)
<1> HIDE DEF f
<1>4. y \in Seq(Byte)
    BY <1>1, <1>2, TwoParts DEF f
<1> HIDE DEF y
<1>5. y \o f \in Seq(Byte)
    BY <1>2, <1>4, TwoParts DEF f
<1> QED
    BY <1>1, <1>3, <1>5 DEF y, f

(* A stream that starts with a frame, and what readMessage will find there. *)
LEMMA FrameFirst ==
    ASSUME NEW m \in Legal, NEW z \in Seq(Byte)
    PROVE  Shaped(Encode(m) \o z, Inner(m), z)
    BY InnerType, FlagsAround DEF Encode

(* What readMessage finds in a stream that starts with a frame.             *)
LEMMA ReadShaped ==
    ASSUME NEW w, NEW z, FlagFree(w), Shaped(stream, w, z)
    PROVE  /\ Started /\ EndFlag = Len(w) + 2 /\ EndFlag # 0 /\ FrameSize = Len(w)
           /\ SubSeq(stream, 2, EndFlag - 1) = w
           /\ SubSeq(stream, EndFlag + 1, Len(stream)) = z
<1> DEFINE x == stream
           n == Len(w)
           l == Len(z)
<1>1. /\ x \in Seq(Byte) /\ w \in Seq(Byte) /\ z \in Seq(Byte) /\ Len(x) = n + l + 2
      /\ x[1] = ProtocolFlag /\ x[n + 2] = ProtocolFlag
      /\ \A i \in 1..n : x[i + 1] = w[i]
      /\ \A i \in 1..l : x[n + 2 + i] = z[i]
    BY DEF Shaped
<1>2. n \in Nat /\ l \in Nat
    BY <1>1
<1>3. x # <<>> /\ Head(x) = ProtocolFlag
    <2>1. Len(x) # 0
        BY <1>1, <1>2
    <2>2. x # <<>>
        BY <2>1
    <2> QED
        BY <1>1, <2>2
<1> DEFINE R == {i \in 2 .. Len(stream) : stream[i] = ProtocolFlag}
<1>4. n + 2 \in R
    BY <1>1, <1>2
<1>5. \A j \in R : n + 2 <= j
    <2> SUFFICES ASSUME NEW j \in R PROVE n + 2 <= j
        OBVIOUS
    <2>1. j \in Nat /\ j >= 2 /\ x[j] = ProtocolFlag
        BY <1>1
    <2> HIDE DEF R
    <2> SUFFICES ASSUME j < n + 2 PROVE FALSE
        BY <1>2, <2>1
    <2>2. j - 1 \in 1..n /\ (j - 1) + 1 = j
        BY <1>2, <2>1
    <2>3. w[j - 1] = ProtocolFlag
        <3> HIDE DEF x
        <3>1. x[(j - 1) + 1] = w[j - 1]
            BY <1>1, <2>2
        <3> QED
            BY <2>1, <2>2, <3>1
    <2> QED
        BY <2>2, <2>3 DEF FlagFree
<1>6. EndFlag = n + 2
    <2>1. R # {}
        BY <1>4
    <2>2. EndFlag = CHOOSE i \in R : \A j \in R : i <= j
        BY <2>1 DEF EndFlag
    <2>3. \A i \in R : i \in Nat
        BY <1>1
    <2> HIDE DEF R
    <2>4. \A i \in R : (\A j \in R : i <= j) => i = n + 2
        BY <1>2, <1>4, <1>5, <2>3
    <2> DEFINE e == CHOOSE i \in R : \A j \in R : i <= j
    <2>5. e \in R /\ \A j \in R : e <= j
        BY <1>4, <1>5
    <2> HIDE DEF e
    <2>6. e = n + 2
        BY <2>4, <2>5
    <2> QED
        BY <2>2, <2>6 DEF e
<1>7. n + 2 # 0 /\ (n + 2) - 2 = n /\ (n + 2) - 1 = n + 1 /\ (n + 2) + 1 = n + 3
    BY <1>2
<1>8. FrameSize = n
    BY <1>6, <1>7 DEF FrameSize
<1> HIDE DEF x, n, l, R
<1>9. SubSeq(x, 2, n + 1) = w
    <2> DEFINE y == SubSeq(x, 2, n + 1)
    <2>1. y \in Seq(Byte) /\ Len(y) = n /\ \A i \in 1..n : y[i] = x[i + 1]
        BY <1>1, <1>2
    <2> HIDE DEF y
    <2>2. Len(w) = n
        BY DEF n
    <2>3. \A i \in 1..Len(y) : y[i] = w[i]
        BY <1>1, <2>1
    <2>4. y = w
        BY <1>1, <2>1, <2>2, <2>3, SameBytes
    <2> QED
        BY <2>4 DEF y
<1>10. SubSeq(x, n + 3, Len(x)) = z
    <2> DEFINE y == SubSeq(x, n + 3, Len(x))
    <2>1. y \in Seq(Byte) /\ Len(y) = l /\ \A i \in 1..l : y[i] = x[n + 2 + i]
        BY <1>1, <1>2
    <2> HIDE DEF y
    <2>2. Len(z) = l
        BY DEF l
    <2>3. \A i \in 1..Len(y) : y[i] = z[i]
        BY <1>1, <2>1
    <2>4. y = z
        BY <1>1, <2>1, <2>2, <2>3, SameBytes
    <2> QED
        BY <2>4 DEF y
<1>11. Started
    BY <1>3 DEF Started, x
<1>12. SubSeq(stream, 2, EndFlag - 1) = w /\ SubSeq(stream, EndFlag + 1, Len(stream)) = z
    BY <1>6, <1>7, <1>9, <1>10 DEF x
<1> QED
    BY <1>6, <1>7, <1>8, <1>11, <1>12 DEF n

(* One byte of y is another in x.                                           *)
Hit(x, y) == \E d \in 1..Len(y), b \in Byte : b # y[d] /\ x = [y EXCEPT ![d] = b]

(* What is left of a frame of m with a byte hit, if it starts with a flag   *)
(* and has another flag after it, is its frame, or is not decoded.          *)
Readable(x) == x[1] = ProtocolFlag /\ \E i \in 2..Len(x) : x[i] = ProtocolFlag

Remains(m, y, w, z) ==
    \/ w = Inner(m) /\ Hit(z, y)
    \/ ~Decodable(w)

(* The first frame of a stream with one byte hit, in or after that frame.   *)
LEMMA FrameHit ==
    ASSUME NEW m \in Legal, NEW y \in Seq(Byte), y = <<>> \/ y[1] = ProtocolFlag,
           NEW x, Hit(x, Encode(m) \o y), Readable(x)
    PROVE  \E w, z : Shaped(x, w, z) /\ FlagFree(w) /\ Remains(m, y, w, z)
<1> DEFINE s == Encode(m) \o y
           n == Len(Inner(m))
           l == Len(y)
           v == Inner(m)
<1>1. /\ s \in Seq(Byte) /\ v \in Seq(Byte) /\ Len(s) = n + l + 2
      /\ s[1] = ProtocolFlag /\ s[n + 2] = ProtocolFlag
      /\ \A i \in 1..n : s[i + 1] = v[i]
      /\ \A i \in 1..l : s[n + 2 + i] = y[i]
    BY FrameFirst DEF Shaped
<1>2. n \in Nat /\ l \in Nat /\ FlagFree(v)
    BY <1>1, InnerType
<1>3. PICK d \in 1..Len(s), b \in Byte : b # s[d] /\ x = [s EXCEPT ![d] = b]
    BY DEF Hit
<1> HIDE DEF s
<1>4. /\ x \in Seq(Byte) /\ Len(x) = n + l + 2
      /\ \A i \in 1..n + l + 2 : x[i] = IF i = d THEN b ELSE s[i]
    BY <1>1, <1>3, ExceptFacts
<1>5. d \in 1..n + l + 2 /\ d \in Nat
    BY <1>1, <1>2, <1>3
<1> HIDE DEF n, l, v
<1>6. d # 1
    <2>1. d = 1 => x[1] = b
        BY <1>4, <1>5
    <2> QED
        BY <1>1, <1>3, <2>1 DEF Readable
<1>7. x[1] = ProtocolFlag
    BY DEF Readable
<1>8. Len(v) = n /\ Len(y) = l
    BY DEF n, l, v
<1>9. CASE d > n + 2
    <2> DEFINE k == d - (n + 2)
               z == [y EXCEPT ![k] = b]
    <2>1. k \in 1..l
        BY <1>2, <1>5, <1>9
    <2>2. z \in Seq(Byte) /\ Len(z) = l /\ \A i \in 1..l : z[i] = IF i = k THEN b ELSE y[i]
        BY <1>8, <2>1, ExceptFacts
    <2>3. b # y[k]
        <3>1. n + 2 + k = d
            BY <1>2, <1>5
        <3>2. s[n + 2 + k] = y[k]
            BY <1>1, <2>1
        <3> QED
            BY <1>3, <3>1, <3>2
    <2>4. Hit(z, y)
        BY <1>8, <2>1, <2>3 DEF Hit
    <2>5. k = d - (n + 2)
        OBVIOUS
    <2> HIDE DEF z, k
    <2>6. \A i \in 1..n : x[i + 1] = v[i]
        <3> TAKE i \in 1..n
        <3>1. i + 1 \in 1..n + l + 2 /\ i + 1 # d
            BY <1>2, <1>5, <1>9
        <3>2. x[i + 1] = s[i + 1]
            BY <1>4, <3>1
        <3> QED
            BY <1>1, <3>2
    <2>7. x[n + 2] = ProtocolFlag
        <3>1. n + 2 \in 1..n + l + 2 /\ n + 2 # d
            BY <1>2, <1>5, <1>9
        <3> QED
            BY <1>1, <1>4, <3>1
    <2>8. \A i \in 1..l : x[n + 2 + i] = z[i]
        <3> TAKE i \in 1..l
        <3>1. n + 2 + i \in 1..n + l + 2 /\ (n + 2 + i = d <=> i = k)
            BY <1>2, <1>5, <2>1, <2>5
        <3>2. x[n + 2 + i] = IF i = k THEN b ELSE s[n + 2 + i]
            BY <1>4, <3>1
        <3>3. s[n + 2 + i] = y[i]
            BY <1>1
        <3> QED
            BY <2>2, <3>2, <3>3
    <2>9. Shaped(x, v, z)
        BY <1>1, <1>4, <1>7, <1>8, <2>2, <2>6, <2>7, <2>8 DEF Shaped
    <2> QED
        BY <1>2, <2>4, <2>9 DEF Remains, v
<1>10. CASE d = n + 2
    <2>1. b # ProtocolFlag
        BY <1>1, <1>3, <1>10
    <2>2. y # <<>>
        <3> SUFFICES ASSUME y = <<>> PROVE FALSE
            OBVIOUS
        <3>1. l = 0
            BY <1>8
        <3>2. PICK i \in 2..Len(x) : x[i] = ProtocolFlag
            BY DEF Readable
        <3>3. i \in 2..n + 2
            BY <1>2, <1>4, <3>1
        <3>4. i # n + 2
            <4>1. x[n + 2] = b
                BY <1>4, <1>5, <1>10
            <4> QED
                BY <2>1, <3>2, <4>1
        <3>5. i - 1 \in 1..n /\ (i - 1) + 1 = i /\ i \in 1..n + l + 2 /\ i # d
            BY <1>2, <1>10, <3>1, <3>3, <3>4
        <3>6. v[i - 1] = ProtocolFlag
            <4>1. s[(i - 1) + 1] = v[i - 1]
                BY <1>1, <3>5
            <4>2. x[i] = s[i]
                BY <1>4, <3>5
            <4> QED
                BY <3>2, <3>5, <4>1, <4>2
        <3> QED
            BY <1>2, <1>8, <3>5, <3>6 DEF FlagFree
    <2>3. PICK c \in Byte, r \in Seq(Byte) : y = <<c>> \o r
        BY <2>2, HeadSplit
    <2> DEFINE w == Append(v, b)
               q == Len(r)
    <2>4. /\ Len(<<c>>) = 1 /\ <<c>> \in Seq(Byte) /\ <<c>>[1] = c
          /\ q \in Nat
        OBVIOUS
    <2>5. /\ l = 1 + q /\ y[1] = ProtocolFlag
          /\ \A i \in 1..1 + q : y[i] = IF i <= 1 THEN c ELSE r[i - 1]
        <3>1. /\ Len(<<c>> \o r) = Len(<<c>>) + q
              /\ \A i \in 1..Len(<<c>>) + q :
                     (<<c>> \o r)[i] = IF i <= Len(<<c>>) THEN <<c>>[i] ELSE r[i - Len(<<c>>)]
            BY <2>4, TwoParts
        <3>2. y[1] = ProtocolFlag
            BY <2>2
        <3> QED
            BY <1>8, <2>3, <2>4, <3>1, <3>2
    <2>6. /\ w \in Seq(Byte) /\ Len(w) = n + 1 /\ w[n + 1] = b /\ w = v \o <<b>>
          /\ \A i \in 1..n : w[i] = v[i]
        BY <1>1, <1>8, AppendFacts
    <2> HIDE DEF w, q
    <2>7. ASSUME NEW i \in 1..n + 1 PROVE x[i + 1] = w[i]
        <3>1. i + 1 \in 1..n + l + 2
            BY <1>2
        <3>2. CASE i = n + 1
            <4>1. i + 1 = d
                BY <1>2, <1>10, <3>2
            <4>2. x[i + 1] = b
                BY <1>4, <3>1, <4>1
            <4> QED
                BY <2>6, <3>2, <4>2
        <3>3. CASE i # n + 1
            <4>1. i + 1 # d /\ i \in 1..n
                BY <1>2, <1>10, <3>3
            <4>2. x[i + 1] = s[i + 1]
                BY <1>4, <3>1, <4>1
            <4>3. s[i + 1] = v[i]
                BY <1>1, <4>1
            <4> QED
                BY <2>6, <4>1, <4>2, <4>3
        <3> QED
            BY <3>2, <3>3
    <2>8. ASSUME NEW i \in 1..l PROVE x[n + 2 + i] = y[i]
        <3>1. n + 2 + i \in 1..n + l + 2 /\ n + 2 + i # d
            BY <1>2, <1>10
        <3>2. x[n + 2 + i] = s[n + 2 + i]
            BY <1>4, <3>1
        <3> QED
            BY <1>1, <3>2
    <2>9. x[(n + 1) + 2] = ProtocolFlag
        <3>1. 1 \in 1..l /\ n + 2 + 1 = (n + 1) + 2
            BY <1>2, <2>4, <2>5 DEF q
        <3>2. x[n + 2 + 1] = y[1]
            BY <2>8, <3>1
        <3> QED
            BY <2>5, <3>1, <3>2
    <2>10. ASSUME NEW i \in 1..q PROVE x[(n + 1) + 2 + i] = r[i]
        <3> DEFINE j == 1 + i
        <3>1. q \in Nat
            BY <2>4 DEF q
        <3>2. j \in 1..l /\ j \in 1..1 + q /\ ~(j <= 1) /\ j - 1 = i /\ n + 2 + j = (n + 1) + 2 + i
            BY <1>2, <2>5, <3>1
        <3> HIDE DEF j
        <3>3. x[n + 2 + j] = y[j]
            BY <2>8, <3>2
        <3>4. y[j] = r[j - 1]
            BY <2>5, <3>2
        <3> QED
            BY <3>2, <3>3, <3>4
    <2>11. Len(x) = (n + 1) + q + 2
        <3>1. q \in Nat
            BY <2>4 DEF q
        <3> QED
            BY <1>2, <1>4, <2>5, <3>1
    <2>12. Shaped(x, w, r)
        BY <1>4, <1>7, <2>6, <2>7, <2>9, <2>10, <2>11 DEF Shaped, q
    <2>13. FlagFree(w)
        <3> SUFFICES ASSUME NEW i \in 1..n + 1 PROVE w[i] # ProtocolFlag
            BY <2>6 DEF FlagFree
        <3>1. i = n + 1 \/ i \in 1..n
            BY <1>2
        <3>2. \A k \in 1..n : v[k] # ProtocolFlag
            BY <1>2, <1>8 DEF FlagFree
        <3> QED
            BY <2>1, <2>6, <3>1, <3>2
    <2>14. ~Decodable(w)
        BY <2>1, <2>6, MoreRefused DEF v
    <2> QED
        BY <2>12, <2>13, <2>14 DEF Remains
<1>11. CASE d < n + 2 /\ b # ProtocolFlag
    <2> DEFINE k == d - 1
               w == [v EXCEPT ![k] = b]
    <2>1. k \in 1..n /\ k + 1 = d
        BY <1>2, <1>5, <1>6, <1>11
    <2>2. w \in Seq(Byte) /\ Len(w) = n /\ \A i \in 1..n : w[i] = IF i = k THEN b ELSE v[i]
        BY <1>1, <1>8, <2>1, ExceptFacts
    <2>3. ~Decodable(w)
        <3>1. b # v[k]
            <4>1. s[k + 1] = v[k]
                BY <1>1, <2>1
            <4> QED
                BY <1>3, <2>1, <4>1
        <3>2. k \in 1..Len(v)
            BY <1>8, <2>1
        <3> HIDE DEF k
        <3> QED
            BY <1>11, <3>1, <3>2, DamageRefused DEF v
    <2> HIDE DEF k, w
    <2>4. ASSUME NEW i \in 1..n PROVE x[i + 1] = w[i]
        <3>1. i + 1 \in 1..n + l + 2 /\ (i + 1 = d <=> i = k)
            BY <1>2, <2>1
        <3>2. x[i + 1] = IF i = k THEN b ELSE s[i + 1]
            BY <1>4, <3>1
        <3>3. s[i + 1] = v[i]
            BY <1>1
        <3> QED
            BY <2>2, <3>2, <3>3
    <2>5. x[n + 2] = ProtocolFlag
        <3>1. n + 2 \in 1..n + l + 2 /\ n + 2 # d
            BY <1>2, <1>11
        <3> QED
            BY <1>1, <1>4, <3>1
    <2>6. ASSUME NEW i \in 1..l PROVE x[n + 2 + i] = y[i]
        <3>1. n + 2 + i \in 1..n + l + 2 /\ n + 2 + i # d
            BY <1>2, <1>5, <1>11
        <3>2. x[n + 2 + i] = s[n + 2 + i]
            BY <1>4, <3>1
        <3> QED
            BY <1>1, <3>2
    <2>7. Shaped(x, w, y)
        BY <1>4, <1>7, <1>8, <2>2, <2>4, <2>5, <2>6 DEF Shaped
    <2>8. FlagFree(w)
        <3> SUFFICES ASSUME NEW i \in 1..n PROVE w[i] # ProtocolFlag
            BY <2>2 DEF FlagFree
        <3>1. v[i] # ProtocolFlag
            BY <1>2, <1>8 DEF FlagFree
        <3> QED
            BY <1>11, <2>2, <3>1
    <2> QED
        BY <2>3, <2>7, <2>8 DEF Remains
<1>12. CASE d < n + 2 /\ b = ProtocolFlag
    <2> DEFINE k == d - 1
               w == SubSeq(v, 1, k - 1)
               z == SubSeq(x, d + 1, Len(x))
    <2>1. k \in 1..n /\ k + 1 = d
        BY <1>2, <1>5, <1>6, <1>12
    <2>2. k \in 1..Len(v)
        BY <1>8, <2>1
    <2>3. w \in Seq(Byte) /\ Len(w) = k - 1 /\ \A i \in 1..k - 1 : w[i] = v[i]
        <3> HIDE DEF k
        <3> QED
            BY <1>1, <2>2, PartFacts
    <2>4. ~Decodable(w)
        <3> HIDE DEF k
        <3> QED
            BY <2>2, CutRefused DEF v
    <2>5. z \in Seq(Byte) /\ Len(z) = n + l + 2 - d /\ \A i \in 1..n + l + 2 - d : z[i] = x[d + i]
        BY <1>2, <1>4, <1>5, <1>12
    <2> HIDE DEF k, w, z
    <2>6. ASSUME NEW i \in 1..k - 1 PROVE x[i + 1] = w[i]
        <3>1. i + 1 \in 1..n + l + 2 /\ i + 1 # d /\ i \in 1..n
            BY <1>2, <2>1
        <3>2. x[i + 1] = s[i + 1]
            BY <1>4, <3>1
        <3>3. s[i + 1] = v[i]
            BY <1>1, <3>1
        <3> QED
            BY <2>3, <3>2, <3>3
    <2>7. (k - 1) + 2 = d /\ x[d] = ProtocolFlag
        BY <1>4, <1>5, <1>12, <2>1
    <2>8. Len(x) = (k - 1) + (n + l + 2 - d) + 2
        BY <1>2, <1>4, <1>5, <2>1
    <2>9. Shaped(x, w, z)
        BY <1>4, <1>7, <2>3, <2>5, <2>6, <2>7, <2>8 DEF Shaped
    <2>10. FlagFree(w)
        <3> SUFFICES ASSUME NEW i \in 1..k - 1 PROVE w[i] # ProtocolFlag
            BY <2>3 DEF FlagFree
        <3>1. i \in 1..n
            BY <1>2, <2>1
        <3>2. v[i] # ProtocolFlag
            BY <1>2, <1>8, <3>1 DEF FlagFree
        <3> QED
            BY <2>3, <3>2
    <2> QED
        BY <2>4, <2>9, <2>10 DEF Remains
<1> QED
    BY <1>2, <1>5, <1>9, <1>10, <1>11, <1>12

-----------------------------------------------------------------------------
(* The stream as the frames of the messages not yet read                    *)

Frames == [m \in Legal |-> Encode(m)]
Wire(rest) == Mapped(Frames, rest)

LEMMA FramesCoding == Coding(Frames, Legal, Byte)
<1>1. \A m \in Legal : Encode(m) \in Seq(Byte)
    BY InnerType
<1> QED
    BY <1>1 DEF Coding, Frames

(* The stream of one message more, at the end or at the front.              *)
LEMMA WireFacts ==
    /\ Wire(<<>>) = <<>>
    /\ \A rest \in Seq(Legal) : Wire(rest) \in Seq(Byte)
    /\ \A rest \in Seq(Legal), m \in Legal : Wire(Append(rest, m)) = Wire(rest) \o Encode(m)
    /\ \A rest \in Seq(Legal), m \in Legal : Wire(<<m>> \o rest) = Encode(m) \o Wire(rest)
<1>1. Wire(<<>>) = <<>>
    BY FramesCoding, MappedEmpty DEF Wire
<1>2. \A rest \in Seq(Legal) : Wire(rest) \in Seq(Byte)
    BY FramesCoding, MappedRun DEF Wire
<1>3. ASSUME NEW rest \in Seq(Legal), NEW m \in Legal
      PROVE  Wire(Append(rest, m)) = Wire(rest) \o Encode(m)
    <2>1. Mapped(Frames, Append(rest, m)) = Mapped(Frames, rest) \o Frames[m]
        BY FramesCoding, MappedAppend
    <2>2. Frames[m] = Encode(m)
        BY DEF Frames
    <2> QED
        BY <2>1, <2>2 DEF Wire
<1>4. ASSUME NEW rest \in Seq(Legal), NEW m \in Legal
      PROVE  Wire(<<m>> \o rest) = Encode(m) \o Wire(rest)
    <2>1. <<>> \in Seq(Legal) /\ <<m>> \in Seq(Legal) /\ Append(<<>>, m) = <<m>>
        OBVIOUS
    <2>2. Wire(<<m>>) = <<>> \o Encode(m)
        BY <1>1, <1>3, <2>1
    <2>3. Encode(m) \in Seq(Byte)
        BY InnerType
    <2>4. <<>> \o Encode(m) = Encode(m)
        <3> DEFINE e == Encode(m)
        <3>1. e \in Seq(Byte)
            BY <2>3
        <3> HIDE DEF e
        <3>2. <<>> \o e = e
            BY <3>1
        <3> QED
            BY <3>2 DEF e
    <2>5. Mapped(Frames, <<m>> \o rest) = Mapped(Frames, <<m>>) \o Mapped(Frames, rest)
        <3> DEFINE e == <<m>>
        <3>1. e \in Seq(Legal)
            BY <2>1
        <3> HIDE DEF e
        <3>2. Mapped(Frames, e \o rest) = Mapped(Frames, e) \o Mapped(Frames, rest)
            BY <3>1, FramesCoding, MappedConcat
        <3> QED
            BY <3>2 DEF e
    <2> QED
        BY <2>2, <2>4, <2>5 DEF Wire
<1> QED
    BY <1>1, <1>2, <1>3, <1>4

LEMMA FirstOf ==
    ASSUME NEW A, NEW s \in Seq(A), s # <<>>
    PROVE  \E m \in A, r \in Seq(A) : s = <<m>> \o r
<1> DEFINE m == s[1]
           r == Tail(s)
           t == <<m>> \o r
<1>1. m \in A /\ r \in Seq(A)
    BY HeadTailProperties
<1>2. Len(t) = Len(s) /\ t \in Seq(A) /\ \A i \in 1..Len(s) : t[i] = s[i]
    OBVIOUS
<1>3. t = s
    <2> HIDE DEF t
    <2> QED
        BY <1>2, SeqEqual
<1> HIDE DEF m, r
<1> QED
    BY <1>1, <1>3

(* A stream of frames is empty or starts with a flag.                       *)
LEMMA WireStart ==
    ASSUME NEW rest \in Seq(Legal)
    PROVE  IF rest = <<>> THEN Wire(rest) = <<>>
           ELSE Wire(rest) # <<>> /\ Wire(rest)[1] = ProtocolFlag
<1>1. CASE rest = <<>>
    BY <1>1, WireFacts
<1>2. CASE rest # <<>>
    <2>1. PICK m \in Legal, r \in Seq(Legal) : rest = <<m>> \o r
        BY <1>2, FirstOf
    <2> DEFINE x == Encode(m) \o Wire(r)
    <2>2. Wire(rest) = x
        BY <2>1, WireFacts
    <2>3. Shaped(x, Inner(m), Wire(r))
        BY FrameFirst, WireFacts
    <2> HIDE DEF x
    <2>4. /\ x \in Seq(Byte) /\ x[1] = ProtocolFlag /\ Len(x) = Len(Inner(m)) + Len(Wire(r)) + 2
          /\ Inner(m) \in Seq(Byte) /\ Wire(r) \in Seq(Byte)
        BY <2>3 DEF Shaped
    <2>5. x # <<>>
        <3>1. Len(Inner(m)) \in Nat /\ Len(Wire(r)) \in Nat
            BY <2>4, LenProperties
        <3>2. Len(x) # 0
            BY <2>4, <3>1
        <3> QED
            BY <3>2
    <2> QED
        BY <1>2, <2>2, <2>4, <2>5
<1> QED
    BY <1>1, <1>2

(* rest is what of s comes after its first k elements.                      *)
Waiting(k, s, rest) ==
    /\ s \in Seq(Legal) /\ rest \in Seq(Legal) /\ k \in Nat
    /\ Len(s) = k + Len(rest)
    /\ \A i \in 1..Len(rest) : rest[i] = s[k + i]

(* The terminal writes a message.                                           *)
LEMMA WaitingMore ==
    ASSUME NEW k, NEW s, NEW rest, Waiting(k, s, rest), NEW m \in Legal
    PROVE  Waiting(k, Append(s, m), Append(rest, m))
<1> DEFINE t == Append(s, m)
           q == Append(rest, m)
<1>1. /\ s \in Seq(Legal) /\ rest \in Seq(Legal) /\ k \in Nat /\ Len(s) = k + Len(rest)
      /\ \A i \in 1..Len(rest) : rest[i] = s[k + i]
    BY DEF Waiting
<1>2. /\ t \in Seq(Legal) /\ Len(t) = Len(s) + 1 /\ t[Len(s) + 1] = m
      /\ \A i \in 1..Len(s) : t[i] = s[i]
    BY <1>1, AppendFacts
<1>3. /\ q \in Seq(Legal) /\ Len(q) = Len(rest) + 1 /\ q[Len(rest) + 1] = m /\ Len(rest) \in Nat
      /\ \A i \in 1..Len(rest) : q[i] = rest[i]
    BY <1>1, AppendFacts
<1> HIDE DEF t, q
<1>4. ASSUME NEW i \in 1..Len(q) PROVE q[i] = t[k + i]
    <2>1. CASE i = Len(rest) + 1
        <3>1. k + i = Len(s) + 1
            BY <1>1, <1>3, <2>1
        <3> QED
            BY <1>2, <1>3, <2>1, <3>1
    <2>2. CASE i # Len(rest) + 1
        <3>1. i \in 1..Len(rest) /\ k + i \in 1..Len(s)
            BY <1>1, <1>3, <2>2
        <3> QED
            BY <1>1, <1>2, <1>3, <3>1
    <2> QED
        BY <2>1, <2>2
<1>5. Len(t) = k + Len(q)
    BY <1>1, <1>2, <1>3
<1>6. Waiting(k, t, q)
    BY <1>1, <1>2, <1>3, <1>4, <1>5 DEF Waiting
<1> QED
    BY <1>6 DEF t, q

(* The server has got the next one.                                         *)
LEMMA WaitingNext ==
    ASSUME NEW k, NEW s, NEW m \in Legal, NEW r \in Seq(Legal), Waiting(k, s, <<m>> \o r)
    PROVE  k \in Nat /\ Len(s) \in Nat /\ k + 1 <= Len(s) /\ s[k + 1] = m /\ Waiting(k + 1, s, r)
<1> DEFINE f == <<m>>
           q == f \o r
<1>1. f \in Seq(Legal) /\ Len(f) = 1 /\ f[1] = m /\ Len(r) \in Nat
    OBVIOUS
<1>2. /\ s \in Seq(Legal) /\ k \in Nat /\ Len(s) = k + Len(q)
      /\ \A i \in 1..Len(q) : q[i] = s[k + i]
    BY DEF Waiting
<1> HIDE DEF f
<1>3. Len(q) = Len(f) + Len(r) /\ \A i \in 1..Len(f) + Len(r) : q[i] = IF i <= Len(f) THEN f[i] ELSE r[i - Len(f)]
    BY <1>1, TwoPartsOf
<1> HIDE DEF q
<1>4. Len(s) = (k + 1) + Len(r) /\ k + 1 \in Nat /\ k + 1 <= Len(s) /\ Len(s) \in Nat
    BY <1>1, <1>2, <1>3
<1>5. s[k + 1] = m
    <2>1. 1 \in 1..Len(q) /\ 1 \in 1..Len(f) + Len(r)
        BY <1>1, <1>3
    <2>2. q[1] = s[k + 1] /\ q[1] = f[1]
        BY <1>1, <1>2, <1>3, <2>1
    <2> QED
        BY <1>1, <2>2
<1>6. ASSUME NEW i \in 1..Len(r) PROVE r[i] = s[(k + 1) + i]
    <2> DEFINE j == 1 + i
    <2>1. /\ j \in 1..Len(q) /\ j \in 1..Len(f) + Len(r) /\ ~(j <= Len(f)) /\ j - Len(f) = i
          /\ k + j = (k + 1) + i
        BY <1>1, <1>2, <1>3
    <2> HIDE DEF j
    <2>2. q[j] = s[k + j] /\ q[j] = r[j - Len(f)]
        BY <1>2, <1>3, <2>1
    <2> QED
        BY <2>1, <2>2
<1>7. Waiting(k + 1, s, r)
    BY <1>2, <1>4, <1>6 DEF Waiting
<1> QED
    BY <1>2, <1>4, <1>5, <1>7

-----------------------------------------------------------------------------
(* The invariant of the connection                                          *)

(* What the server has got is what the terminal sent first.                 *)
Delivered(g, s) ==
    /\ g \in Seq(Message) /\ Len(g) <= Len(s)
    /\ \A i \in 1..Len(g) : g[i] = Expected(s[i])

(* The stream holds the frames of rest, but for a byte if one was changed.  *)
Comes(x, rest, changed) == x = Wire(rest) \/ (changed /\ Hit(x, Wire(rest)))

Underway(g, s, x, changed) == \E rest : Waiting(Len(g), s, rest) /\ Comes(x, rest, changed)

Oversize(m) == Len(Inner(m)) > MaxPacketSize

(* readMessage has objected to a message over the limit.                    *)
OversizeNext(g, s) == Len(g) < Len(s) /\ Oversize(s[Len(g) + 1])
NoneOversize(g, s) == \A i \in 1..Len(g) : ~Oversize(s[i])

(* What the way the connection ended says of an undamaged stream.           *)
Explained(why, g, s, closed) ==
    /\ why \notin {"flag", "decode"}
    /\ why = "size" => OversizeNext(g, s)
    /\ why = "eof" => closed /\ Len(g) = Len(s)

LinkInv ==
    /\ sent \in Seq(Legal) /\ eof \in BOOLEAN /\ damaged \in BOOLEAN
    /\ Delivered(got, sent)
    /\ open => Underway(got, sent, stream, damaged)
    /\ ~damaged => Explained(ended, got, sent, eof)
    /\ ~damaged => NoneOversize(got, sent)

(* A byte hit stays hit as more is written.                                 *)
LEMMA HitMore ==
    ASSUME NEW x, NEW y \in Seq(Byte), NEW z \in Seq(Byte), Hit(x, y)
    PROVE  Hit(x \o z, y \o z)
<1>1. PICK d \in 1..Len(y), b \in Byte : b # y[d] /\ x = [y EXCEPT ![d] = b]
    BY DEF Hit
<1>2. x \in Seq(Byte) /\ Len(x) = Len(y) /\ \A i \in 1..Len(y) : x[i] = IF i = d THEN b ELSE y[i]
    BY <1>1, ExceptFacts
<1> DEFINE v == x \o z
           w == y \o z
           n == Len(y)
           l == Len(z)
<1>3. /\ v \in Seq(Byte) /\ Len(v) = n + l /\ n \in Nat /\ l \in Nat
      /\ \A i \in 1..n + l : v[i] = IF i <= n THEN x[i] ELSE z[i - n]
    <2>1. x \in Seq(Byte) /\ Len(x) = n
        BY <1>2
    <2>2. /\ v \in Seq(Byte) /\ Len(v) = Len(x) + l /\ Len(x) \in Nat /\ l \in Nat
          /\ \A i \in 1..Len(x) + l : v[i] = IF i <= Len(x) THEN x[i] ELSE z[i - Len(x)]
        BY <2>1, TwoParts
    <2> HIDE DEF v, n, l
    <2> QED
        BY <2>1, <2>2
<1>4. /\ w \in Seq(Byte) /\ Len(w) = n + l
      /\ \A i \in 1..n + l : w[i] = IF i <= n THEN y[i] ELSE z[i - n]
    BY TwoParts
<1> HIDE DEF v, w, n, l
<1>5. d \in 1..n /\ d \in 1..n + l
    BY <1>1, <1>3 DEF n
<1>6. b # w[d]
    BY <1>1, <1>4, <1>5
<1> DEFINE u == [w EXCEPT ![d] = b]
<1>7. u \in Seq(Byte) /\ Len(u) = n + l /\ \A i \in 1..n + l : u[i] = IF i = d THEN b ELSE w[i]
    <2>1. d \in 1..Len(w)
        BY <1>4, <1>5
    <2> QED
        BY <1>4, <2>1, ExceptFacts
<1> HIDE DEF u
<1>8. ASSUME NEW i \in 1..n + l PROVE v[i] = u[i]
    <2>1. CASE i = d
        <3>1. i <= n /\ i \in 1..n /\ v[i] = x[i] /\ u[i] = b
            BY <1>3, <1>5, <1>7, <2>1
        <3> QED
            BY <1>2, <2>1, <3>1 DEF n
    <2>2. CASE i # d
        <3>1. u[i] = w[i]
            BY <1>7, <2>2
        <3>2. CASE i <= n
            <4>1. i \in 1..Len(y)
                BY <3>2 DEF n
            <4>2. x[i] = y[i]
                BY <1>2, <2>2, <4>1
            <4> QED
                BY <1>3, <1>4, <3>1, <3>2, <4>2
        <3>3. CASE ~(i <= n)
            BY <1>3, <1>4, <3>1, <3>3
        <3> QED
            BY <3>2, <3>3
    <2> QED
        BY <2>1, <2>2
<1>9. v = u
    BY <1>3, <1>7, <1>8, SameBytes
<1>10. Hit(v, w)
    <2>1. d \in 1..Len(w)
        BY <1>4, <1>5
    <2>2. v = [w EXCEPT ![d] = b]
        BY <1>9 DEF u
    <2> QED
        BY <1>1, <1>6, <2>1, <2>2 DEF Hit
<1> QED
    BY <1>10 DEF v, w

(* The stream after Write, damaged or not.                                  *)
LEMMA UnderwayMore ==
    ASSUME NEW g, NEW s, NEW x, NEW changed, Underway(g, s, x, changed), NEW m \in Legal
    PROVE  Underway(g, Append(s, m), x \o Encode(m), changed)
<1>1. PICK rest : Waiting(Len(g), s, rest) /\ Comes(x, rest, changed)
    BY DEF Underway
<1> DEFINE q == Append(rest, m)
           e == Encode(m)
           y == Wire(rest)
<1>2. Waiting(Len(g), Append(s, m), q)
    BY <1>1, WaitingMore
<1>3. rest \in Seq(Legal)
    BY <1>1 DEF Waiting
<1>4. e \in Seq(Byte) /\ y \in Seq(Byte) /\ Wire(q) = y \o e
    BY <1>3, InnerType, WireFacts
<1>5. x = y \/ (changed /\ Hit(x, y))
    BY <1>1 DEF Comes
<1> HIDE DEF q, e, y
<1>6. x \o e = y \o e \/ (changed /\ Hit(x \o e, y \o e))
    BY <1>4, <1>5, HitMore
<1>7. Comes(x \o e, q, changed)
    BY <1>4, <1>6 DEF Comes
<1>8. Underway(g, Append(s, m), x \o e, changed)
    BY <1>2, <1>7 DEF Underway
<1> QED
    BY <1>8 DEF e

(* What was said of the messages got stays true of more sent.               *)
LEMMA DeliveredMore ==
    ASSUME NEW g, NEW s \in Seq(Legal), NEW m \in Legal, Delivered(g, s)
    PROVE  /\ Delivered(g, Append(s, m))
           /\ OversizeNext(g, s) => OversizeNext(g, Append(s, m))
           /\ NoneOversize(g, s) => NoneOversize(g, Append(s, m))
<1> DEFINE t == Append(s, m)
<1>1. Len(s) \in Nat /\ Len(t) = Len(s) + 1 /\ \A i \in 1..Len(s) : t[i] = s[i]
    BY AppendFacts
<1>2. /\ g \in Seq(Message) /\ Len(g) <= Len(s) /\ Len(g) \in Nat
      /\ \A i \in 1..Len(g) : g[i] = Expected(s[i])
    BY DEF Delivered
<1> HIDE DEF t
<1>3. \A i \in 1..Len(g) : t[i] = s[i]
    BY <1>1, <1>2
<1>4. Delivered(g, t)
    BY <1>1, <1>2, <1>3 DEF Delivered
<1>5. OversizeNext(g, s) => OversizeNext(g, t)
    <2> SUFFICES ASSUME OversizeNext(g, s) PROVE OversizeNext(g, t)
        OBVIOUS
    <2>1. Len(g) < Len(s) /\ Oversize(s[Len(g) + 1])
        BY DEF OversizeNext
    <2>2. Len(g) + 1 \in 1..Len(s) /\ Len(g) < Len(t)
        BY <1>1, <1>2, <2>1
    <2>3. t[Len(g) + 1] = s[Len(g) + 1]
        BY <1>1, <2>2
    <2> QED
        BY <2>1, <2>2, <2>3 DEF OversizeNext
<1>6. NoneOversize(g, s) => NoneOversize(g, t)
    BY <1>3 DEF NoneOversize
<1> QED
    BY <1>4, <1>5, <1>6 DEF t

-----------------------------------------------------------------------------
(* The frame at the head of the stream                                      *)

(* What is read of m: its frame, or what is not decoded.                    *)
Reads(x, m, r, w, z, changed) ==
    /\ Shaped(x, w, z) /\ FlagFree(w)
    /\ \/ w = Inner(m) /\ Comes(z, r, changed)
       \/ changed /\ ~Decodable(w)

(* readMessage reads the frame of the next message or something that it     *)
(* does not decode.                                                         *)
LEMMA NextFrame ==
    ASSUME NEW rest \in Seq(Legal), NEW x, NEW changed, Comes(x, rest, changed),
           x # <<>>, changed => Readable(x)
    PROVE  \E m \in Legal, r \in Seq(Legal) :
               rest = <<m>> \o r /\ \E w, z : Reads(x, m, r, w, z, changed)
<1>1. rest # <<>>
    <2> SUFFICES ASSUME rest = <<>> PROVE FALSE
        OBVIOUS
    <2>1. Wire(rest) = <<>>
        BY WireFacts
    <2>2. ~Hit(x, <<>>)
        BY DEF Hit
    <2> QED
        BY <2>1, <2>2 DEF Comes
<1>2. PICK m \in Legal, r \in Seq(Legal) : rest = <<m>> \o r
    BY <1>1, FirstOf
<1> DEFINE y == Wire(r)
<1>3. Wire(rest) = Encode(m) \o y
    BY <1>2, WireFacts
<1>4. y \in Seq(Byte) /\ (y = <<>> \/ y[1] = ProtocolFlag)
    BY WireFacts, WireStart
<1> HIDE DEF y
<1>5. CASE x = Wire(rest)
    <2>1. Shaped(x, Inner(m), y)
        BY <1>3, <1>4, <1>5, FrameFirst
    <2>2. FlagFree(Inner(m))
        BY InnerType
    <2>3. Comes(y, r, changed)
        BY DEF Comes, y
    <2>4. Reads(x, m, r, Inner(m), y, changed)
        BY <2>1, <2>2, <2>3 DEF Reads
    <2> QED
        BY <1>2, <2>4
<1>6. CASE changed /\ Hit(x, Wire(rest))
    <2>1. Readable(x) /\ Hit(x, Encode(m) \o y)
        BY <1>3, <1>6
    <2>2. PICK w, z : Shaped(x, w, z) /\ FlagFree(w) /\ Remains(m, y, w, z)
        BY <1>4, <2>1, FrameHit
    <2>3. (w = Inner(m) /\ Comes(z, r, changed)) \/ ~Decodable(w)
        BY <1>6, <2>2 DEF Remains, Comes, y
    <2>4. Reads(x, m, r, w, z, changed)
        BY <1>6, <2>2, <2>3 DEF Reads
    <2> QED
        BY <1>2, <2>4
<1> QED
    BY <1>5, <1>6 DEF Comes

(* A frame that has come to its end.                                        *)
LEMMA EndedReadable ==
    ASSUME Started, EndFlag # 0
    PROVE  stream # <<>> /\ (stream \in Seq(Byte) => Readable(stream))
<1>1. stream # <<>> /\ Head(stream) = ProtocolFlag
    BY DEF Started
<1>2. {i \in 2 .. Len(stream) : stream[i] = ProtocolFlag} # {}
    BY DEF EndFlag
<1>3. \E i \in 2..Len(stream) : stream[i] = ProtocolFlag
    BY <1>2
<1>4. ASSUME stream \in Seq(Byte) PROVE stream[1] = ProtocolFlag
    BY <1>1, <1>4
<1> QED
    BY <1>1, <1>3, <1>4 DEF Readable

LEMMA ComesType ==
    ASSUME NEW rest \in Seq(Legal), NEW x, NEW changed, Comes(x, rest, changed)
    PROVE  x \in Seq(Byte)
<1> DEFINE y == Wire(rest)
<1>1. y \in Seq(Byte)
    BY WireFacts
<1>2. x = y \/ Hit(x, y)
    BY DEF Comes
<1> HIDE DEF y
<1>3. ASSUME Hit(x, y) PROVE x \in Seq(Byte)
    BY <1>1, <1>3, ExceptFacts DEF Hit
<1> QED
    BY <1>1, <1>2, <1>3

LEMMA ExpectedType ==
    ASSUME NEW m \in Legal
    PROVE  Expected(m) \in Message
<1> DEFINE n == 2 * PhoneLength(m.version)
<1>1. n \in Nat
    BY DEF PhoneLength
<1> HIDE DEF n
<1>2. Padded(m.phoneNo, n) \in Seq(0..9)
    BY <1>1, LegalFacts, PaddedFacts
<1>3. Padded(m.phoneNo, 2 * PhoneLength(m.version)) \in Seq(0..9)
    BY <1>2 DEF n
<1>4. Expected(m) = [msgID |-> m.msgID, version |-> m.version, encryption |-> m.encryption,
                     subPackage |-> m.subPackage,
                     phoneNo |-> Padded(m.phoneNo, 2 * PhoneLength(m.version)),
                     msgFlowNo |-> m.msgFlowNo, body |-> m.body]
    BY LegalFacts, MessageWithPhone DEF Expected
<1> DEFINE p == Padded(m.phoneNo, 2 * PhoneLength(m.version))
<1>5. /\ p \in Seq(0..9) /\ m.msgID \in Word /\ m.version \in Byte /\ m.encryption \in 0..7
      /\ m.subPackage \in BOOLEAN /\ m.msgFlowNo \in Word /\ m.body \in Seq(Byte)
    BY <1>3, LegalFacts
<1> HIDE DEF p
<1>6. [msgID |-> m.msgID, version |-> m.version, encryption |-> m.encryption,
       subPackage |-> m.subPackage, phoneNo |-> p, msgFlowNo |-> m.msgFlowNo,
       body |-> m.body] \in Message
    BY <1>5 DEF Message
<1> QED
    BY <1>4, <1>6 DEF p

(* One message more is got.                                                 *)
LEMMA DeliveredNext ==
    ASSUME NEW g, NEW s, NEW m \in Legal, Delivered(g, s), Len(s) \in Nat,
           Len(g) + 1 <= Len(s), s[Len(g) + 1] = m
    PROVE  /\ Delivered(Append(g, Expected(m)), s)
           /\ Len(Append(g, Expected(m))) = Len(g) + 1
           /\ NoneOversize(g, s) /\ ~Oversize(m) => NoneOversize(Append(g, Expected(m)), s)
<1> DEFINE e == Expected(m)
           h == Append(g, e)
<1>1. /\ g \in Seq(Message) /\ Len(g) <= Len(s)
      /\ \A i \in 1..Len(g) : g[i] = Expected(s[i])
    BY DEF Delivered
<1>2. e \in Message
    BY ExpectedType
<1> HIDE DEF e
<1>3. /\ h \in Seq(Message) /\ Len(h) = Len(g) + 1 /\ Len(g) \in Nat /\ h[Len(g) + 1] = e
      /\ \A i \in 1..Len(g) : h[i] = g[i]
    BY <1>1, <1>2, AppendFacts
<1> HIDE DEF h
<1>4. \A i \in 1..Len(h) : i = Len(g) + 1 \/ i \in 1..Len(g)
    BY <1>3
<1>5. ASSUME NEW i \in 1..Len(h) PROVE h[i] = Expected(s[i])
    BY <1>1, <1>3, <1>4 DEF e
<1>6. Delivered(h, s)
    BY <1>3, <1>5 DEF Delivered
<1>7. NoneOversize(g, s) /\ ~Oversize(m) => NoneOversize(h, s)
    BY <1>4 DEF NoneOversize
<1> QED
    BY <1>3, <1>6, <1>7 DEF h, e

-----------------------------------------------------------------------------
(* Every step of the connection preserves LinkInv                           *)

LEMMA WriteStep ==
    ASSUME LinkInv, NEW m \in Messages, Write(m)
    PROVE  LinkInv'
<1>1. m \in Legal
    BY DEF Write, Legal
<1>2. /\ sent' = Append(sent, m) /\ stream' = stream \o Encode(m)
      /\ got' = got /\ ended' = ended /\ open' = open /\ eof' = eof /\ damaged' = damaged /\ ~eof
    BY DEF Write, open
<1>3. /\ sent \in Seq(Legal) /\ eof \in BOOLEAN /\ damaged \in BOOLEAN
      /\ Delivered(got, sent)
    BY DEF LinkInv
<1>4. Append(sent, m) \in Seq(Legal)
    BY <1>1, <1>3, AppendFacts
<1>5. /\ Delivered(got, Append(sent, m))
      /\ OversizeNext(got, sent) => OversizeNext(got, Append(sent, m))
      /\ NoneOversize(got, sent) => NoneOversize(got, Append(sent, m))
    BY <1>1, <1>3, DeliveredMore
<1>6. open => Underway(got, Append(sent, m), stream \o Encode(m), damaged)
    BY <1>1, UnderwayMore DEF LinkInv
<1>7. /\ ~damaged => Explained(ended, got, sent, eof)
      /\ ~damaged => NoneOversize(got, sent)
    BY DEF LinkInv
<1>8. Delivered(got', sent')
    BY <1>2, <1>5
<1>9. open' => Underway(got', sent', stream', damaged')
    BY <1>2, <1>6
<1>10. ~damaged' => Explained(ended', got', sent', eof')
    BY <1>2, <1>5, <1>7 DEF Explained
<1>11. ~damaged' => NoneOversize(got', sent')
    BY <1>2, <1>5, <1>7
<1> QED
    BY <1>2, <1>3, <1>4, <1>8, <1>9, <1>10, <1>11 DEF LinkInv

LEMMA DamageStep ==
    ASSUME LinkInv, NEW i \in DOMAIN stream, NEW b, Damage(i, b)
    PROVE  LinkInv'
<1>1. /\ b \in Byte /\ stream[i] # b /\ stream' = [stream EXCEPT ![i] = b]
      /\ ~damaged /\ damaged' = TRUE
      /\ sent' = sent /\ got' = got /\ open' = open /\ eof' = eof
    BY DEF Damage, open
<1>2. ASSUME open PROVE Underway(got, sent, stream', TRUE)
    <2>1. PICK rest : Waiting(Len(got), sent, rest) /\ Comes(stream, rest, damaged)
        BY <1>2 DEF LinkInv, Underway
    <2>2. rest \in Seq(Legal)
        BY <2>1 DEF Waiting
    <2>3. stream = Wire(rest) /\ stream \in Seq(Byte)
        BY <1>1, <2>1, <2>2, WireFacts DEF Comes
    <2>4. i \in 1..Len(stream)
        BY <2>3
    <2>5. Hit(stream', stream)
        BY <1>1, <2>4 DEF Hit
    <2>6. Comes(stream', rest, TRUE)
        BY <2>3, <2>5 DEF Comes
    <2> QED
        BY <2>1, <2>6 DEF Underway
<1>3. open' => Underway(got', sent', stream', damaged')
    BY <1>1, <1>2
<1>4. /\ sent' \in Seq(Legal) /\ eof' \in BOOLEAN /\ damaged' \in BOOLEAN
      /\ Delivered(got', sent')
    BY <1>1 DEF LinkInv
<1> QED
    BY <1>1, <1>3, <1>4 DEF LinkInv

LEMMA CloseStep ==
    ASSUME LinkInv, TerminalClose
    PROVE  LinkInv'
<1>1. /\ sent' = sent /\ stream' = stream /\ got' = got /\ ended' = ended /\ open' = open
      /\ eof' = TRUE /\ damaged' = damaged /\ ~eof
    BY DEF TerminalClose, open
<1>2. /\ sent \in Seq(Legal) /\ damaged \in BOOLEAN
      /\ Delivered(got, sent) /\ (open => Underway(got, sent, stream, damaged))
      /\ (~damaged => NoneOversize(got, sent))
      /\ (~damaged => Explained(ended, got, sent, eof))
    BY DEF LinkInv
<1>3. /\ Delivered(got', sent') /\ (open' => Underway(got', sent', stream', damaged'))
      /\ (~damaged' => NoneOversize(got', sent'))
    BY <1>1, <1>2
<1>4. ~damaged' => Explained(ended', got', sent', eof')
    BY <1>1, <1>2 DEF Explained
<1> QED
    BY <1>1, <1>2, <1>3, <1>4 DEF LinkInv

(* A connection that ends loses nothing of the invariant but what its end   *)
(* has to explain.                                                          *)
LEMMA EndStep ==
    ASSUME LinkInv, NEW why, ReadFails(why), why # "no", ~damaged => Explained(why, got, sent, eof)
    PROVE  LinkInv'
<1>1. /\ sent' = sent /\ stream' = stream /\ got' = got /\ ended' = why /\ ~open' /\ eof' = eof
      /\ damaged' = damaged
    BY DEF ReadFails, open
<1>2. /\ sent \in Seq(Legal) /\ eof \in BOOLEAN /\ damaged \in BOOLEAN
      /\ Delivered(got, sent) /\ (~damaged => NoneOversize(got, sent))
    BY DEF LinkInv
<1>3. /\ Delivered(got', sent') /\ (~damaged' => NoneOversize(got', sent'))
      /\ (~damaged' => Explained(ended', got', sent', eof'))
    BY <1>1, <1>2
<1> QED
    BY <1>1, <1>2, <1>3 DEF LinkInv

(* Undamaged, the stream that is being read starts with a whole frame.      *)
LEMMA WholeFrameNext ==
    ASSUME LinkInv, open, ~damaged, stream # <<>>
    PROVE  \E m \in Legal :
               /\ Started /\ FrameSize = Len(Inner(m)) /\ EndFlag # 0
               /\ Len(got) < Len(sent) /\ sent[Len(got) + 1] = m
<1>1. PICK rest : Waiting(Len(got), sent, rest) /\ Comes(stream, rest, damaged)
    BY DEF LinkInv, Underway
<1>2. rest \in Seq(Legal)
    BY <1>1 DEF Waiting
<1>3. PICK m \in Legal, r \in Seq(Legal) :
          rest = <<m>> \o r /\ \E w, z : Reads(stream, m, r, w, z, damaged)
    BY <1>1, <1>2, NextFrame
<1>4. PICK w, z : Shaped(stream, w, z) /\ FlagFree(w) /\ w = Inner(m)
    BY <1>3 DEF Reads
<1>5. Started /\ FrameSize = Len(w) /\ EndFlag # 0
    BY <1>4, ReadShaped
<1>6. Waiting(Len(got), sent, <<m>> \o r)
    BY <1>1, <1>3
<1>7. Len(got) \in Nat /\ Len(sent) \in Nat /\ Len(got) + 1 <= Len(sent) /\ sent[Len(got) + 1] = m
    BY <1>6, WaitingNext
<1>8. Len(got) < Len(sent)
    BY <1>7
<1> QED
    BY <1>4, <1>5, <1>7, <1>8

(* Once the stream is empty everything has been got.                        *)
LEMMA AllRead ==
    ASSUME LinkInv, open, stream = <<>>
    PROVE  Len(got) = Len(sent)
<1>1. PICK rest : Waiting(Len(got), sent, rest) /\ Comes(stream, rest, damaged)
    BY DEF LinkInv, Underway
<1>2. rest \in Seq(Legal) /\ Len(sent) = Len(got) + Len(rest) /\ Len(got) \in Nat
    BY <1>1 DEF Waiting
<1>3. Wire(rest) = <<>>
    <2>1. ~Hit(<<>>, Wire(rest)) \/ Wire(rest) = <<>>
        <3>1. Wire(rest) \in Seq(Byte)
            BY <1>2, WireFacts
        <3> DEFINE y == Wire(rest)
        <3> HIDE DEF y
        <3>2. ASSUME Hit(<<>>, y), y \in Seq(Byte) PROVE y = <<>>
            <4>1. PICK d \in 1..Len(y), b \in Byte : <<>> = [y EXCEPT ![d] = b]
                BY <3>2 DEF Hit
            <4>2. Len(<<>>) = Len(y)
                BY <3>2, <4>1, ExceptFacts
            <4> QED
                BY <3>2, <4>2
        <3> QED
            BY <3>1, <3>2 DEF y
    <2> QED
        BY <1>1, <2>1 DEF Comes
<1>4. rest = <<>>
    BY <1>2, <1>3, WireStart
<1> QED
    BY <1>2, <1>4

LEMMA FlagStep ==
    ASSUME LinkInv, InvalidFlag
    PROVE  LinkInv'
<1>1. open /\ stream # <<>> /\ Head(stream) # ProtocolFlag /\ ReadFails("flag")
    BY DEF InvalidFlag, ReadFails
<1>2. damaged
    BY <1>1, WholeFrameNext DEF Started
<1> QED
    BY <1>1, <1>2, EndStep

LEMMA SizeStep ==
    ASSUME LinkInv, ExceedsMaxSize
    PROVE  LinkInv'
<1>1. open /\ stream # <<>> /\ FrameSize > MaxPacketSize /\ ReadFails("size")
    BY DEF ExceedsMaxSize, Started, TooLong, ReadFails
<1>2. ASSUME ~damaged PROVE Explained("size", got, sent, eof)
    <2>1. PICK m \in Legal : /\ Started /\ FrameSize = Len(Inner(m)) /\ EndFlag # 0
                             /\ Len(got) < Len(sent) /\ sent[Len(got) + 1] = m
        BY <1>1, <1>2, WholeFrameNext
    <2>2. Oversize(m)
        BY <1>1, <2>1 DEF Oversize
    <2> QED
        BY <2>1, <2>2 DEF OversizeNext, Explained
<1> QED
    BY <1>1, <1>2, EndStep

LEMMA EOFStep ==
    ASSUME LinkInv, ReadEOF
    PROVE  LinkInv'
<1>1. open /\ eof /\ ReadFails("eof") /\ (stream = <<>> \/ EndFlag = 0)
    BY DEF ReadEOF, ReadFails
<1>2. ASSUME ~damaged PROVE Explained("eof", got, sent, eof)
    <2>1. stream = <<>>
        BY <1>1, <1>2, WholeFrameNext
    <2> QED
        BY <1>1, <2>1, AllRead DEF Explained
<1> QED
    BY <1>1, <1>2, EndStep

LEMMA ErrorStep ==
    ASSUME LinkInv, ReadError
    PROVE  LinkInv'
    BY EndStep DEF ReadError, Explained

LEMMA FrameStep ==
    ASSUME LinkInv, ReadFrame
    PROVE  LinkInv'
<1>1. open /\ Started /\ EndFlag # 0 /\ ~(FrameSize > MaxPacketSize)
    BY DEF ReadFrame, TooLong
<1> DEFINE inner == SubSeq(stream, 2, EndFlag - 1)
<1>2. /\ \/ Decodable(inner) /\ got' = Append(got, Decode(inner)) /\ ended' = ended
         \/ Decodable(inner) /\ ended' = "refused" /\ got' = got
         \/ ~Decodable(inner) /\ ended' = "decode" /\ got' = got
      /\ stream' = SubSeq(stream, EndFlag + 1, Len(stream))
      /\ sent' = sent /\ eof' = eof /\ damaged' = damaged
    BY Zenon DEF ReadFrame
<1>3. /\ sent \in Seq(Legal) /\ eof \in BOOLEAN /\ damaged \in BOOLEAN
      /\ Delivered(got, sent) /\ (~damaged => NoneOversize(got, sent))
    BY DEF LinkInv
<1>4. PICK rest : Waiting(Len(got), sent, rest) /\ Comes(stream, rest, damaged)
    BY <1>1 DEF LinkInv, Underway
<1>5. rest \in Seq(Legal)
    BY <1>4 DEF Waiting
<1>6. stream # <<>> /\ Readable(stream)
    BY <1>1, <1>4, <1>5, ComesType, EndedReadable
<1>7. PICK m \in Legal, r \in Seq(Legal) :
          rest = <<m>> \o r /\ \E w, z : Reads(stream, m, r, w, z, damaged)
    BY <1>4, <1>5, <1>6, NextFrame
<1> PICK w, z : Reads(stream, m, r, w, z, damaged)
    BY <1>7
<1>8. inner = w /\ stream' = z /\ FrameSize = Len(w)
    <2>1. Shaped(stream, w, z) /\ FlagFree(w)
        BY <1>7 DEF Reads
    <2> QED
        BY <1>2, <2>1, ReadShaped
<1> HIDE DEF inner
<1>9. CASE w = Inner(m) /\ Comes(z, r, damaged)
    <2>1. Decodable(inner) /\ Decode(inner) = Expected(m)
        BY <1>8, <1>9, RoundTrip
    <2>2. \/ ended' = ended /\ got' = Append(got, Expected(m))
          \/ ended' = "refused" /\ got' = got
        BY <1>2, <2>1, Zenon
    <2>3. CASE ended' = ended /\ got' = Append(got, Expected(m))
        <3>1. Waiting(Len(got), sent, <<m>> \o r)
            BY <1>4, <1>7
        <3>2. /\ Len(got) \in Nat /\ Len(sent) \in Nat /\ Len(got) + 1 <= Len(sent)
              /\ sent[Len(got) + 1] = m /\ Waiting(Len(got) + 1, sent, r)
            BY <3>1, WaitingNext
        <3>3. /\ Delivered(got', sent) /\ Len(got') = Len(got) + 1
              /\ (NoneOversize(got, sent) /\ ~Oversize(m) => NoneOversize(got', sent))
            BY <1>3, <2>3, <3>2, DeliveredNext
        <3>4. Underway(got', sent, stream', damaged)
            BY <1>8, <1>9, <3>2, <3>3 DEF Underway
        <3>5. ~Oversize(m)
            BY <1>1, <1>8, <1>9 DEF Oversize
        <3>6. /\ Delivered(got', sent') /\ Underway(got', sent', stream', damaged')
              /\ (~damaged' => NoneOversize(got', sent'))
            BY <1>2, <1>3, <3>3, <3>4, <3>5
        <3>7. Explained(ended', got', sent', eof')
            BY <1>1, <2>3 DEF Explained, open
        <3> QED
            BY <1>2, <1>3, <3>6, <3>7 DEF LinkInv
    <2>4. CASE ended' = "refused" /\ got' = got
        <3>1. ~open' /\ Explained(ended', got', sent', eof')
            BY <2>4 DEF Explained, open
        <3>2. Delivered(got', sent') /\ (~damaged' => NoneOversize(got', sent'))
            BY <1>2, <1>3, <2>4
        <3> QED
            BY <1>2, <1>3, <3>1, <3>2 DEF LinkInv
    <2> QED
        BY <2>2, <2>3, <2>4
<1>10. CASE damaged /\ ~Decodable(w)
    <2>1. ended' = "decode" /\ got' = got
        BY <1>2, <1>8, <1>10, Zenon
    <2>2. ~open'
        BY <2>1 DEF open
    <2>3. Delivered(got', sent')
        BY <1>2, <1>3, <2>1
    <2> QED
        BY <1>2, <1>3, <1>10, <2>2, <2>3 DEF LinkInv
<1> QED
    BY <1>7, <1>9, <1>10 DEF Reads

(* The invariant is inductive.                                              *)
LEMMA LinkStep ==
    ASSUME LinkInv, [Next]_vars
    PROVE  LinkInv'
<1>1. CASE UNCHANGED vars
    BY <1>1 DEF LinkInv, vars, open
<1>2. ASSUME NEW m \in Messages, Write(m) PROVE LinkInv'
    BY <1>2, WriteStep
<1>3. ASSUME NEW i \in DOMAIN stream, NEW b \in Noise, Damage(i, b) PROVE LinkInv'
    BY <1>3, DamageStep
<1>4. CASE TerminalClose
    BY <1>4, CloseStep
<1>5. CASE InvalidFlag
    BY <1>5, FlagStep
<1>6. CASE ExceedsMaxSize
    BY <1>6, SizeStep
<1>7. CASE ReadEOF
    BY <1>7, EOFStep
<1>8. CASE ReadFrame
    BY <1>8, FrameStep
<1>9. CASE ReadError
    BY <1>9, ErrorStep
<1>10. CASE Closed
    BY <1>1, <1>10 DEF Closed
<1> QED
    BY <1>1, <1>2, <1>3, <1>4, <1>5, <1>6, <1>7, <1>8, <1>9, <1>10 DEF Next

LEMMA LinkStart == Init => LinkInv
<1> SUFFICES ASSUME Init PROVE LinkInv
    OBVIOUS
<1>1. /\ sent = <<>> /\ stream = <<>> /\ got = <<>> /\ ended = "no" /\ eof = FALSE
      /\ damaged = FALSE
    BY DEF Init
<1>2. <<>> \in Seq(Legal) /\ <<>> \in Seq(Message) /\ Len(<<>>) = 0
    OBVIOUS
<1>3. Delivered(<<>>, <<>>) /\ NoneOversize(<<>>, <<>>)
    BY <1>2 DEF Delivered, NoneOversize
<1>4. Waiting(Len(<<>>), <<>>, <<>>)
    BY <1>2 DEF Waiting
<1>5. Comes(<<>>, <<>>, FALSE)
    BY WireFacts DEF Comes
<1>6. Underway(<<>>, <<>>, <<>>, FALSE)
    BY <1>4, <1>5 DEF Underway
<1> QED
    BY <1>1, <1>2, <1>3, <1>6 DEF LinkInv, Explained

(* What the server has got, as the prefix the property speaks of.           *)
LEMMA PrefixFromInv == LinkInv => OnlyWhatWasSent
<1> SUFFICES ASSUME LinkInv PROVE OnlyWhatWasSent
    OBVIOUS
<1> DEFINE e == [i \in DOMAIN sent |-> Expected(sent[i])]
           n == Len(got)
<1>1. /\ got \in Seq(Message) /\ sent \in Seq(Legal) /\ n <= Len(sent)
      /\ \A i \in 1..n : got[i] = Expected(sent[i])
    BY DEF LinkInv, Delivered
<1>2. \A i \in 1..Len(sent) : Expected(sent[i]) \in Message
    BY <1>1, ExpectedType
<1>3. /\ DOMAIN sent = 1..Len(sent) /\ Len(sent) \in Nat /\ n \in Nat
    BY <1>1
<1>4. e = [i \in 1..Len(sent) |-> Expected(sent[i])]
    BY <1>3
<1>5. /\ e \in Seq(Message) /\ Len(e) = Len(sent)
      /\ \A i \in 1..Len(sent) : e[i] = Expected(sent[i])
    BY <1>2, <1>3, <1>4
<1> HIDE DEF e, n
<1>6. /\ SubSeq(got, 1, n) \in Seq(Message) /\ Len(SubSeq(got, 1, n)) = n
      /\ \A i \in 1..n : SubSeq(got, 1, n)[i] = got[i]
    BY <1>1, <1>3 DEF n
<1>7. /\ SubSeq(e, 1, n) \in Seq(Message) /\ Len(SubSeq(e, 1, n)) = n
      /\ \A i \in 1..n : SubSeq(e, 1, n)[i] = e[i]
    BY <1>1, <1>3, <1>5
<1>8. SubSeq(got, 1, n) = SubSeq(e, 1, n)
    <2> DEFINE x == SubSeq(got, 1, n)
               y == SubSeq(e, 1, n)
    <2>1. \A i \in 1..n : x[i] = y[i]
        BY <1>1, <1>3, <1>5, <1>6, <1>7
    <2>2. x \in Seq(Message) /\ y \in Seq(Message) /\ Len(x) = n /\ Len(y) = n
        BY <1>6, <1>7
    <2> HIDE DEF x, y
    <2>3. x = y
        BY <2>1, <2>2, SeqEqual
    <2> QED
        BY <2>3 DEF x, y
<1>9. Len(got) <= Len(e) /\ SubSeq(got, 1, Len(got)) = SubSeq(e, 1, Len(got))
    BY <1>1, <1>5, <1>8 DEF n
<1> QED
    BY <1>9 DEF OnlyWhatWasSent, IsPrefix, e

(* The invariant says which message ended the connection.                   *)
LEMMA RefusalFromInv == LinkInv => OnlyOversizeRefused
<1> SUFFICES ASSUME LinkInv, ~damaged PROVE
        /\ ended \notin {"flag", "decode"}
        /\ ended = "size" => Len(Inner(sent[Len(got) + 1])) > MaxPacketSize
        /\ \A i \in DOMAIN got : ~(Len(Inner(sent[i])) > MaxPacketSize)
        /\ (open /\ stream = <<>>) \/ ended = "eof" => Len(got) = Len(sent)
    BY DEF OnlyOversizeRefused
<1>1. /\ ended \notin {"flag", "decode"}
      /\ ended = "size" => Len(Inner(sent[Len(got) + 1])) > MaxPacketSize
      /\ ended = "eof" => Len(got) = Len(sent)
    BY DEF LinkInv, Explained, OversizeNext, Oversize
<1>2. \A i \in DOMAIN got : ~(Len(Inner(sent[i])) > MaxPacketSize)
    <2>1. got \in Seq(Message) /\ DOMAIN got = 1..Len(got)
        BY DEF LinkInv, Delivered
    <2> QED
        BY <2>1 DEF LinkInv, NoneOversize, Oversize
<1> QED
    BY <1>1, <1>2, AllRead

LEMMA LinkAlways == Spec => []LinkInv
    BY LinkStart, LinkStep, PTL DEF Spec

(* handleConn passes on only what the terminal sent, in its order, whatever *)
(* the bodies, the noise and the number of messages.                        *)
THEOREM OnlyWhatWasSentHolds == Spec => []OnlyWhatWasSent
    BY LinkAlways, PrefixFromInv, PTL

(* While no byte is changed readMessage objects only to a message whose     *)
(* frame is over MaxPacketSize, passes none, and no other is owed at the    *)
(* end of the stream.                                                       *)
THEOREM OnlyOversizeRefusedHolds == Spec => []OnlyOversizeRefused
    BY LinkAlways, RefusalFromInv, PTL
================================================================================
