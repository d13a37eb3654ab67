---------------------------- MODULE BridgeProofs ----------------------------
(***************************************************************************)
(* Proofs about Bridge and Splitter for every set of streams, every size   *)
(* of the read buffer and every sequence of messages: whatever the reads   *)
(* cut and wherever a task ends, the remote gets a prefix of the stream,   *)
(* packet by packet, and the totals logged are true.                       *)
(*                                                                         *)
(* What split does with a buffer of any length is proved by the least      *)
(* number for which it would go wrong.                                     *)
(***************************************************************************)
EXTENDS Bridge, SequenceTheorems, WellFoundedInduction, TLAPS

-----------------------------------------------------------------------------
(* Numbers and sequences. *)

(* A set of natural numbers that is not empty has a least one.             *)
LEMMA LeastNumber ==
  ASSUME NEW T, T \subseteq Nat, T # {}
  PROVE  \E x \in T : \A y \in T : x <= y
<1>1. PICK x \in T : \A y \in T : ~(<<y, x>> \in OpToRel(<, Nat))
  BY WFMin, NatLessThanWellFounded
<1>2. \A y \in T : ~(y < x)
  BY <1>1 DEF OpToRel
<1>3. QED
  BY <1>2

(* The piece of a sequence from behind a to b.                             *)
Seg(q, a, b) == SubSeq(q, a + 1, b)

LEMMA SegFacts ==
  ASSUME NEW S, NEW q \in Seq(S), NEW a \in Nat, NEW b \in Nat, a <= b, b <= Len(q)
  PROVE  /\ Seg(q, a, b) \in Seq(S) /\ Len(Seg(q, a, b)) = b - a
         /\ \A i \in 1..(b - a) : Seg(q, a, b)[i] = q[a + i]
<1>1. \A i \in (a + 1)..b : q[i] \in S
  OBVIOUS
<1>2. /\ SubSeq(q, a + 1, b) \in Seq(S)
      /\ Len(SubSeq(q, a + 1, b)) = IF a + 1 <= b THEN b - (a + 1) + 1 ELSE 0
      /\ \A i \in 1..(b - (a + 1) + 1) : SubSeq(q, a + 1, b)[i] = q[(a + 1) + i - 1]
  BY <1>1, SubSeqProperties
<1>3. b - (a + 1) + 1 = b - a /\ \A i \in 1..(b - a) : (a + 1) + i - 1 = a + i
  OBVIOUS
<1>4. QED
  BY <1>2, <1>3 DEF Seg

(* Adjacent pieces make one piece.                                         *)
LEMMA SegConcat ==
  ASSUME NEW S, NEW q \in Seq(S), NEW a \in Nat, NEW b \in Nat, NEW c \in Nat,
         a <= b, b <= c, c <= Len(q)
  PROVE  Seg(q, a, b) \o Seg(q, b, c) = Seg(q, a, c)
<1>1. a + 1 \in 1..(Len(q) + 1) /\ b \in ((a + 1) - 1)..Len(q) /\ c \in b..Len(q)
  OBVIOUS
<1>2. SubSeq(q, a + 1, b) \o SubSeq(q, b + 1, c) = SubSeq(q, a + 1, c)
  BY <1>1, ConcatAdjacentSubSeq
<1>3. QED
  BY <1>2 DEF Seg

(* A piece of a piece is a piece.                                          *)
LEMMA SegOfSeg ==
  ASSUME NEW S, NEW q \in Seq(S), NEW a \in Nat, NEW b \in Nat, a <= b, b <= Len(q),
         NEW x \in Nat, NEW y \in Nat, x <= y, y <= b - a
  PROVE  Seg(Seg(q, a, b), x, y) = Seg(q, a + x, a + y)
<1> DEFINE p == Seg(q, a, b)
           u == Seg(p, x, y)
           v == Seg(q, a + x, a + y)
<1>1. p \in Seq(S) /\ Len(p) = b - a /\ \A i \in 1..(b - a) : p[i] = q[a + i]
  BY SegFacts
<1> HIDE DEF p
<1>2. u \in Seq(S) /\ Len(u) = y - x /\ \A i \in 1..(y - x) : u[i] = p[x + i]
  <2>1. p \in Seq(S) /\ y <= Len(p)
    BY <1>1
  <2>2. QED
    BY ONLY <2>1, SegFacts, x \in Nat, y \in Nat, x <= y
<1>3. /\ v \in Seq(S) /\ Len(v) = y - x
      /\ \A i \in 1..(y - x) : v[i] = q[a + (x + i)]
  <2>1. a + x \in Nat /\ a + y \in Nat /\ a + x <= a + y /\ a + y <= Len(q)
    OBVIOUS
  <2>2. /\ v \in Seq(S) /\ Len(v) = (a + y) - (a + x)
        /\ \A i \in 1..((a + y) - (a + x)) : v[i] = q[(a + x) + i]
    BY <2>1, SegFacts
  <2>3. (a + y) - (a + x) = y - x /\ \A i \in 1..(y - x) : (a + x) + i = a + (x + i)
    OBVIOUS
  <2>4. QED
    BY <2>2, <2>3
<1> HIDE DEF u, v
<1>4. ASSUME NEW i \in 1..(y - x) PROVE u[i] = v[i]
  <2>1. x + i \in 1..(b - a)
    OBVIOUS
  <2>2. QED
    BY <1>1, <1>2, <1>3, <2>1
<1>5. u = v
  BY <1>2, <1>3, <1>4, SeqEqual
<1>6. QED
  BY <1>5 DEF u, v, p

-----------------------------------------------------------------------------
(* The keystream. *)

Cipher(s) == Encrypted(s.bytes, 0)

LEMMA ByteFacts == \A b \in Byte : b \in Nat /\ b < 256
  BY DEF Byte

LEMMA StreamFacts ==
  ASSUME NEW s \in Streams
  PROVE  /\ s.bytes \in Seq(Byte) /\ Len(s.bytes) \in Nat
         /\ s.ends \in Seq(1..Len(s.bytes)) /\ Len(s.ends) \in Nat
         /\ Cipher(s) \in Seq(Byte) /\ Len(Cipher(s)) = Len(s.bytes)
         /\ \A i \in 1..Len(s.bytes) : Cipher(s)[i] = (s.bytes[i] + i) % 256
<1>1. s.bytes \in Seq(Byte) /\ s.ends \in Seq(1..Len(s.bytes))
  BY BridgeAssumption DEF Framed
<1> DEFINE n == Len(s.bytes)
           e(i) == (s.bytes[i] + 0 + i) % 256
<1>2. n \in Nat /\ \A i \in 1..n : s.bytes[i] \in Nat
  BY <1>1, ByteFacts
<1>3. ASSUME NEW i \in 1..n PROVE e(i) \in Byte /\ e(i) = (s.bytes[i] + i) % 256
  <2>1. s.bytes[i] \in Nat /\ s.bytes[i] + 0 = s.bytes[i]
    BY <1>2
  <2>2. ASSUME NEW k \in Nat PROVE k % 256 \in Byte
    BY DEF Byte
  <2>3. s.bytes[i] + i \in Nat
    BY <2>1
  <2>4. QED
    BY <2>1, <2>2, <2>3
<1>4. Cipher(s) = [i \in 1..n |-> e(i)]
  BY DEF Cipher, Encrypted
<1> HIDE DEF e
<1>5. Cipher(s) \in Seq(Byte) /\ Len(Cipher(s)) = n
  BY <1>2, <1>3, <1>4
<1>6. QED
  BY <1>1, <1>2, <1>3, <1>4, <1>5

(* Shifting a byte up and down again gives the byte.                       *)
LEMMA ShiftBack ==
  ASSUME NEW b \in Byte, NEW k \in Nat
  PROVE  (((b + k) % 256) - k) % 256 = b
<1>1. PICK q \in Int : b + k = 256 * q + ((b + k) % 256)
  <2>1. b + k \in Int /\ b + k = 256 * ((b + k) \div 256) + ((b + k) % 256)
    BY DEF Byte
  <2>2. (b + k) \div 256 \in Int
    BY DEF Byte
  <2>3. QED
    BY <2>1, <2>2
<1>2. ((b + k) % 256) - k = b - 256 * q
  BY <1>1 DEF Byte
<1>3. (b - 256 * q) % 256 = b
  BY DEF Byte
<1>4. QED
  BY <1>2, <1>3

(* A chunk read at r is encrypted in step with the stream.                 *)
LEMMA ChunkEncrypted ==
  ASSUME NEW s \in Streams, NEW r \in Nat, NEW t \in Nat, r <= t, t <= Len(s.bytes)
  PROVE  Encrypted(Seg(s.bytes, r, t), r) = Seg(Cipher(s), r, t)
<1> DEFINE c == Seg(s.bytes, r, t)
           u == Encrypted(c, r)
           v == Seg(Cipher(s), r, t)
<1>1. c \in Seq(Byte) /\ Len(c) = t - r /\ \A i \in 1..(t - r) : c[i] = s.bytes[r + i]
  <2>1. s.bytes \in Seq(Byte) /\ t <= Len(s.bytes)
    BY StreamFacts
  <2>2. QED
    BY <2>1, SegFacts
<1>2. v \in Seq(Byte) /\ Len(v) = t - r /\ \A i \in 1..(t - r) : v[i] = Cipher(s)[r + i]
  <2>1. Cipher(s) \in Seq(Byte) /\ t <= Len(Cipher(s))
    BY StreamFacts
  <2>2. QED
    BY <2>1, SegFacts
<1> HIDE DEF c, v
<1>3. ASSUME NEW i \in 1..(t - r) PROVE (c[i] + r + i) % 256 = v[i]
  <2>1. r + i \in 1..Len(s.bytes) /\ s.bytes[r + i] \in Nat
    <3>1. r + i \in 1..Len(s.bytes)
      BY StreamFacts
    <3>2. s.bytes[r + i] \in Byte
      BY <3>1, StreamFacts
    <3>3. QED
      BY <3>1, <3>2, ByteFacts
  <2>2. v[i] = (s.bytes[r + i] + (r + i)) % 256
    BY <1>2, <2>1, StreamFacts
  <2>3. s.bytes[r + i] + r + i = s.bytes[r + i] + (r + i)
    BY <2>1
  <2>4. QED
    BY <1>1, <2>2, <2>3
<1>4. u = [i \in 1..(t - r) |-> v[i]]
  BY <1>1, <1>3 DEF Encrypted
<1>5. v = [i \in 1..(t - r) |-> v[i]]
  BY <1>2
<1>6. QED
  BY <1>4, <1>5 DEF c, v

(* Decrypting a piece of the cipher text at its place gives the stream.    *)
LEMMA ChunkDecrypted ==
  ASSUME NEW s \in Streams, NEW r \in Nat, NEW t \in Nat, r <= t, t <= Len(s.bytes)
  PROVE  Decrypted(Seg(Cipher(s), r, t), r) = Seg(s.bytes, r, t)
<1> DEFINE c == Seg(s.bytes, r, t)
           v == Seg(Cipher(s), r, t)
           u == Decrypted(v, r)
<1>1. c \in Seq(Byte) /\ Len(c) = t - r /\ \A i \in 1..(t - r) : c[i] = s.bytes[r + i]
  <2>1. s.bytes \in Seq(Byte) /\ t <= Len(s.bytes)
    BY StreamFacts
  <2>2. QED
    BY <2>1, SegFacts
<1>2. v \in Seq(Byte) /\ Len(v) = t - r /\ \A i \in 1..(t - r) : v[i] = Cipher(s)[r + i]
  <2>1. Cipher(s) \in Seq(Byte) /\ t <= Len(Cipher(s))
    BY StreamFacts
  <2>2. QED
    BY <2>1, SegFacts
<1> HIDE DEF c, v
<1>3. ASSUME NEW i \in 1..(t - r) PROVE (v[i] - r - i) % 256 = c[i]
  <2>1. r + i \in 1..Len(s.bytes) /\ s.bytes[r + i] \in Byte /\ r + i \in Nat
    BY StreamFacts
  <2>2. v[i] = (s.bytes[r + i] + (r + i)) % 256
    BY <1>2, <2>1, StreamFacts
  <2>3. v[i] \in Nat
    <3>1. v[i] \in Byte
      BY <1>2
    <3>2. QED
      BY <3>1, ByteFacts
  <2>4. v[i] - r - i = v[i] - (r + i)
    BY <2>3
  <2>5. (((s.bytes[r + i] + (r + i)) % 256) - (r + i)) % 256 = s.bytes[r + i]
    BY <2>1, ShiftBack
  <2>6. QED
    BY <1>1, <2>2, <2>4, <2>5
<1>4. u = [i \in 1..(t - r) |-> c[i]]
  BY <1>2, <1>3 DEF Decrypted
<1>5. c = [i \in 1..(t - r) |-> c[i]]
  BY <1>1
<1>6. QED
  BY <1>4, <1>5 DEF c, v

-----------------------------------------------------------------------------
(* The parsers of splitter.rs. *)

(* The packet at the front of a buffer.                                    *)
FirstLen(proto, plain) == next_packet_len(proto, plain, 0)

LEMMA WholeFacts ==
  ASSUME NEW plain \in Seq(Byte), NEW h \in Nat \ {0}, NEW n \in Nat
  PROVE  /\ Whole(plain, h, n) \in {NeedMore, Unknown} \union 1..Len(plain)
         /\ n > 0 => Whole(plain, h, n) = IF Len(plain) < h + n THEN NeedMore ELSE h + n
<1>1. Len(plain) \in Nat
  OBVIOUS
<1>2. CASE n = 0
  BY <1>2 DEF Whole
<1>3. CASE n > 0 /\ Len(plain) < h + n
  BY <1>3 DEF Whole
<1>4. CASE n > 0 /\ ~(Len(plain) < h + n)
  <2>1. h + n \in 1..Len(plain)
    BY <1>1, <1>4
  <2>2. Whole(plain, h, n) = h + n
    BY <1>4 DEF Whole
  <2>3. QED
    BY <1>4, <2>1, <2>2
<1>5. QED
  BY <1>2, <1>3, <1>4

(* The bytes that make up a header.                                        *)
LEMMA LowBits ==
  ASSUME NEW b \in Byte
  PROVE  /\ b \in Nat /\ b % 128 \in Nat
         /\ b \in {127, 255} <=> b % 128 = 127
<1>1. b \in 0..255
  BY DEF Byte
<1>2. QED
  BY ONLY <1>1

Words(q) == q[2] + 256 * q[3] + 65536 * q[4]
Bytes(q) == q[1] + 256 * q[2] + 65536 * q[3] + 16777216 * (q[4] % 128)

LEMMA HeaderFacts ==
  ASSUME NEW plain \in Seq(Byte), plain # <<>>
  PROVE  /\ Len(plain) \in Nat \ {0}
         /\ plain[1] % 128 \in Nat
         /\ plain[1] \in {127, 255} <=> plain[1] % 128 = 127
         /\ Len(plain) >= 4 => Words(plain) \in Nat /\ Bytes(plain) \in Nat
<1>1. Len(plain) \in Nat \ {0}
  OBVIOUS
<1>2. plain[1] \in Byte
  BY <1>1
<1>3. ASSUME Len(plain) >= 4 PROVE Words(plain) \in Nat /\ Bytes(plain) \in Nat
  <2>1. plain[2] \in Byte /\ plain[3] \in Byte /\ plain[4] \in Byte
    BY <1>1, <1>3
  <2>2. /\ plain[1] \in Nat /\ plain[2] \in Nat /\ plain[3] \in Nat
        /\ plain[4] \in Nat /\ plain[4] % 128 \in Nat
    <3>1. \A b \in Byte : b \in Nat /\ b % 128 \in Nat
      BY LowBits
    <3>2. QED
      BY ONLY <1>2, <2>1, <3>1
  <2>3. PICK a, b, c, d, e : /\ a = plain[1] /\ b = plain[2] /\ c = plain[3]
                             /\ d = plain[4] /\ e = plain[4] % 128
    OBVIOUS
  <2>4. /\ b + 256 * c + 65536 * d \in Nat
        /\ a + 256 * b + 65536 * c + 16777216 * e \in Nat
    <3>1. a \in Nat /\ b \in Nat /\ c \in Nat /\ d \in Nat /\ e \in Nat
      BY <2>2, <2>3
    <3>2. QED
      BY ONLY <3>1
  <2>5. QED
    BY <2>3, <2>4 DEF Words, Bytes
<1>4. QED
  BY <1>1, <1>2, <1>3, LowBits

(* A parser asks for more, gives up, or finds a packet in the buffer.      *)
LEMMA FirstLenFacts ==
  ASSUME NEW proto, NEW plain \in Seq(Byte)
  PROVE  /\ FirstLen(proto, plain) \in {NeedMore, Unknown} \union 1..Len(plain)
         /\ plain = <<>> => FirstLen(proto, plain) = NeedMore
         /\ plain # <<>> => FirstLen(proto, plain) =
              IF proto = "abridged" THEN abridged_len(plain) ELSE intermediate_len(plain)
<1>1. SubSeq(plain, 0 + 1, Len(plain)) = plain
  <2>1. 0 + 1 = 1
    OBVIOUS
  <2>2. QED
    BY <2>1, SubSeqFull
<1>2. CASE plain = <<>>
  BY <1>1, <1>2 DEF FirstLen, next_packet_len
<1>3. CASE plain # <<>>
  <2>1. FirstLen(proto, plain) =
          IF proto = "abridged" THEN abridged_len(plain) ELSE intermediate_len(plain)
    BY <1>1, <1>3 DEF FirstLen, next_packet_len
  <2>2. Len(plain) \in Nat /\ 4 \in Nat \ {0} /\ 1 \in Nat \ {0}
    OBVIOUS
  <2>3. abridged_len(plain) \in {NeedMore, Unknown} \union 1..Len(plain)
    <3>1. Len(plain) >= 4 => Words(plain) * 4 \in Nat
      BY <1>3, HeaderFacts
    <3>2. (plain[1] % 128) * 4 \in Nat
      BY <1>3, HeaderFacts
    <3>3. abridged_len(plain) =
            IF plain[1] \in {127, 255}
            THEN IF Len(plain) < 4 THEN NeedMore ELSE Whole(plain, 4, Words(plain) * 4)
            ELSE Whole(plain, 1, (plain[1] % 128) * 4)
      BY DEF abridged_len, Words
    <3>4. ~(Len(plain) < 4) => Len(plain) >= 4
      BY <2>2
    <3>5. ~(Len(plain) < 4) =>
            Whole(plain, 4, Words(plain) * 4) \in {NeedMore, Unknown} \union 1..Len(plain)
      BY <2>2, <3>1, <3>4, WholeFacts
    <3>6. Whole(plain, 1, (plain[1] % 128) * 4) \in {NeedMore, Unknown} \union 1..Len(plain)
      BY <2>2, <3>2, WholeFacts
    <3>7. QED
      BY <3>3, <3>5, <3>6
  <2>4. intermediate_len(plain) \in {NeedMore, Unknown} \union 1..Len(plain)
    <3>1. intermediate_len(plain) =
            IF Len(plain) < 4 THEN NeedMore ELSE Whole(plain, 4, Bytes(plain))
      BY DEF intermediate_len, Bytes
    <3>2. ~(Len(plain) < 4) => Bytes(plain) \in Nat
      BY <1>3, <2>2, HeaderFacts
    <3>3. ~(Len(plain) < 4) =>
            Whole(plain, 4, Bytes(plain)) \in {NeedMore, Unknown} \union 1..Len(plain)
      BY <2>2, <3>2, WholeFacts
    <3>4. QED
      BY <3>1, <3>3
  <2>5. QED
    BY <1>3, <2>1, <2>3, <2>4
<1>4. QED
  BY <1>2, <1>3

(* The parsers against the format: a buffer that begins with a packet, or  *)
(* with a part of one, is understood.                                      *)
LEMMA ParsersAgree ==
  ASSUME NEW proto, NEW p \in Seq(Byte), p # <<>>, Packet(proto, p),
         NEW plain \in Seq(Byte),
         \A i \in 1..Len(p) : i <= Len(plain) => plain[i] = p[i]
  PROVE  FirstLen(proto, plain) = IF Len(p) <= Len(plain) THEN Len(p) ELSE NeedMore
<1>0. 1 \in Nat \ {0} /\ 4 \in Nat \ {0}
  OBVIOUS
<1>1. Len(p) \in Nat \ {0} /\ Len(plain) \in Nat
  BY HeaderFacts
<1>2. CASE plain = <<>>
  <2>1. Len(plain) = 0 /\ ~(Len(p) <= 0)
    BY <1>1, <1>2
  <2>2. QED
    BY <1>2, <2>1, FirstLenFacts
<1>3. ASSUME plain # <<>> PROVE Len(plain) \in Nat \ {0} /\ plain[1] = p[1]
  <2>1. Len(plain) \in Nat \ {0} /\ 1 \in 1..Len(p) /\ 1 <= Len(plain)
    BY <1>1, <1>3, HeaderFacts
  <2>2. QED
    BY <2>1
<1>4. ASSUME Len(p) > 4, ~(Len(plain) < 4)
      PROVE  /\ Words(plain) = Words(p) /\ Bytes(plain) = Bytes(p)
             /\ Words(p) \in Nat /\ Bytes(p) \in Nat
  <2>1. \A i \in {1, 2, 3, 4} : i \in 1..Len(p) /\ i <= Len(plain)
    BY <1>1, <1>4
  <2>2. /\ plain[1] = p[1] /\ plain[2] = p[2] /\ plain[3] = p[3] /\ plain[4] = p[4]
    BY <2>1
  <2>3. Len(p) >= 4
    BY <1>1, <1>4
  <2>4. Words(plain) = Words(p) /\ Bytes(plain) = Bytes(p)
    BY <2>2 DEF Words, Bytes
  <2>5. QED
    BY <2>3, <2>4, HeaderFacts
<1>5. CASE plain # <<>> /\ proto # "abridged"
  <2>1. Len(p) > 4 /\ Len(p) = 4 + Bytes(p)
    BY <1>5 DEF Packet, Bytes
  <2>2. FirstLen(proto, plain) =
          IF Len(plain) < 4 THEN NeedMore ELSE Whole(plain, 4, Bytes(plain))
    BY <1>5, FirstLenFacts DEF intermediate_len, Bytes
  <2>3. CASE Len(plain) < 4
    <3>1. ~(Len(p) <= Len(plain))
      BY <1>1, <2>1, <2>3
    <3>2. QED
      BY <2>2, <2>3, <3>1
  <2>4. CASE ~(Len(plain) < 4)
    <3>1. Bytes(plain) = Bytes(p) /\ Bytes(p) \in Nat
      BY <1>4, <2>1, <2>4
    <3>2. Bytes(p) > 0 /\ (Len(plain) < 4 + Bytes(p) <=> ~(Len(p) <= Len(plain)))
      BY <1>1, <2>1, <3>1
    <3>3. Whole(plain, 4, Bytes(p)) =
            IF Len(plain) < 4 + Bytes(p) THEN NeedMore ELSE 4 + Bytes(p)
      BY <1>0, <3>1, <3>2, WholeFacts
    <3>4. QED
      BY <2>1, <2>2, <2>4, <3>1, <3>2, <3>3
  <2>5. QED
    BY <2>3, <2>4
<1>6. CASE plain # <<>> /\ proto = "abridged" /\ p[1] % 128 = 127
  <2>1. Len(p) > 4 /\ Len(p) = 4 + 4 * Words(p)
    BY <1>6 DEF Packet, Words
  <2>2. FirstLen(proto, plain) =
          IF Len(plain) < 4 THEN NeedMore ELSE Whole(plain, 4, Words(plain) * 4)
    <3>1. plain[1] \in {127, 255}
      BY <1>3, <1>6, HeaderFacts
    <3>2. QED
      BY <1>6, <3>1, FirstLenFacts DEF abridged_len, Words
  <2>3. CASE Len(plain) < 4
    <3>1. ~(Len(p) <= Len(plain))
      BY <1>1, <2>1, <2>3
    <3>2. QED
      BY <2>2, <2>3, <3>1
  <2>4. CASE ~(Len(plain) < 4)
    <3>1. Words(plain) = Words(p) /\ Words(p) \in Nat
      BY <1>4, <2>1, <2>4
    <3>2. /\ Words(p) * 4 \in Nat /\ Words(p) * 4 > 0 /\ 4 + Words(p) * 4 = Len(p)
          /\ (Len(plain) < 4 + Words(p) * 4 <=> ~(Len(p) <= Len(plain)))
      BY <1>1, <2>1, <3>1
    <3>3. Whole(plain, 4, Words(p) * 4) =
            IF Len(plain) < 4 + Words(p) * 4 THEN NeedMore ELSE 4 + Words(p) * 4
      BY <1>0, <3>1, <3>2, WholeFacts
    <3>4. QED
      BY <2>2, <2>4, <3>1, <3>2, <3>3
  <2>5. QED
    BY <2>3, <2>4
<1>7. CASE plain # <<>> /\ proto = "abridged" /\ p[1] % 128 # 127
  <2>1. PICK b : b = p[1] % 128
    OBVIOUS
  <2>2. b \in Nat /\ Len(p) > 1 /\ Len(p) = 1 + 4 * b
    BY <1>7, <2>1, HeaderFacts DEF Packet
  <2>3. FirstLen(proto, plain) = Whole(plain, 1, b * 4)
    <3>1. plain[1] \notin {127, 255} /\ plain[1] = p[1]
      BY <1>3, <1>7, HeaderFacts
    <3>2. QED
      BY <1>7, <2>1, <3>1, FirstLenFacts DEF abridged_len
  <2>4. /\ b * 4 \in Nat /\ b * 4 > 0 /\ 1 + b * 4 = Len(p)
        /\ (Len(plain) < 1 + b * 4 <=> ~(Len(p) <= Len(plain)))
    BY <1>1, <2>2
  <2>5. Whole(plain, 1, b * 4) = IF Len(plain) < 1 + b * 4 THEN NeedMore ELSE 1 + b * 4
    BY <1>0, <2>4, WholeFacts
  <2>6. QED
    BY <2>3, <2>4, <2>5
<1>8. QED
  BY <1>2, <1>5, <1>6, <1>7

-----------------------------------------------------------------------------
(* The loop of split. *)

(* The packet at o is the first one of what is left from o.                *)
LEMMA LenShift ==
  ASSUME NEW proto, NEW buf \in Seq(Byte), NEW o \in 0..Len(buf)
  PROVE  /\ next_packet_len(proto, buf, o) = FirstLen(proto, Seg(buf, o, Len(buf)))
         /\ next_packet_len(proto, buf, o)
              \in {NeedMore, Unknown} \union 1..(Len(buf) - o)
         /\ o = Len(buf) => next_packet_len(proto, buf, o) = NeedMore
<1> DEFINE p == Seg(buf, o, Len(buf))
<1>1. Len(buf) \in Nat /\ o \in Nat /\ o <= Len(buf) /\ Len(buf) <= Len(buf)
  OBVIOUS
<1>2. p \in Seq(Byte) /\ Len(p) = Len(buf) - o
  BY <1>1, SegFacts
<1>3. SubSeq(p, 0 + 1, Len(p)) = p
  <2>1. 0 + 1 = 1
    OBVIOUS
  <2> HIDE DEF p
  <2>2. QED
    BY <1>2, <2>1, SubSeqFull
<1>4. next_packet_len(proto, buf, o) = FirstLen(proto, p)
  BY <1>3 DEF FirstLen, next_packet_len, Seg
<1> HIDE DEF p
<1>5. FirstLen(proto, p) \in {NeedMore, Unknown} \union 1..(Len(buf) - o)
  BY <1>2, FirstLenFacts
<1>6. o = Len(buf) => p = <<>>
  BY <1>1, <1>2
<1>7. QED
  BY <1>2, <1>4, <1>5, <1>6, FirstLenFacts DEF p

(* One round of the loop, with f for the rounds after it.                  *)
Round(proto, buf, f, o) ==
  LET len == next_packet_len(proto, buf, o)
  IN IF len \in {NeedMore, Unknown} THEN <<>> ELSE <<o + len>> \o f[o + len]

(* A round looks ahead only.                                               *)
LEMMA RoundAhead ==
  ASSUME NEW proto, NEW buf \in Seq(Byte), NEW o \in 0..Len(buf), NEW f, NEW g,
         \A k \in (o + 1)..Len(buf) : f[k] = g[k]
  PROVE  Round(proto, buf, f, o) = Round(proto, buf, g, o)
<1> DEFINE len == next_packet_len(proto, buf, o)
<1>1. len \in {NeedMore, Unknown} \union 1..(Len(buf) - o)
  BY LenShift
<1> HIDE DEF len
<1>2. CASE len \in {NeedMore, Unknown}
  BY <1>2 DEF Round, len
<1>3. CASE len \notin {NeedMore, Unknown}
  <2>1. o + len \in (o + 1)..Len(buf)
    BY <1>1, <1>3
  <2>2. f[o + len] = g[o + len]
    BY <2>1
  <2>3. QED
    BY <2>2 DEF Round, len
<1>4. QED
  BY <1>2, <1>3

(* The rounds from o on, as a function.                                    *)
Rounds(proto, buf, o, f) == f = [k \in o..Len(buf) |-> Round(proto, buf, f, k)]

LEMMA RoundsExist ==
  ASSUME NEW proto, NEW buf \in Seq(Byte)
  PROVE  \E f : Rounds(proto, buf, 0, f)
<1> DEFINE L == Len(buf)
           T == {k \in 0..L : ~\E f : Rounds(proto, buf, L - k, f)}
<1>1. L \in Nat
  OBVIOUS
<1>2. SUFFICES ASSUME T # {} PROVE FALSE
  <2>1. L \notin T /\ L \in 0..L /\ L - L = 0
    BY <1>1, <1>2
  <2>2. QED
    BY <2>1
<1>3. PICK k \in T : \A l \in T : k <= l
  <2>1. T \subseteq Nat
    OBVIOUS
  <2> HIDE DEF T
  <2>2. QED
    BY <1>2, <2>1, LeastNumber
<1>4. k \in 0..L /\ k \in Nat /\ L - k \in 0..L
  BY <1>1
<1>5. CASE k = 0
  <2> DEFINE f == [i \in L..L |-> <<>>]
  <2>1. \A i \in L..L : Round(proto, buf, f, i) = <<>>
    <3>1. \A i \in L..L : i = L /\ i \in 0..Len(buf)
      BY <1>1
    <3>2. next_packet_len(proto, buf, L) = NeedMore
      BY <1>1, <3>1, LenShift
    <3>3. QED
      BY <3>1, <3>2 DEF Round
  <2>2. Rounds(proto, buf, L, f)
    BY <2>1 DEF Rounds
  <2>3. L - k = L
    BY <1>1, <1>5
  <2>4. QED
    BY <2>2, <2>3
<1>6. CASE k > 0
  <2> DEFINE m == L - k
  <2>1. /\ k - 1 \in 0..L /\ ~(k <= k - 1) /\ L - (k - 1) = m + 1
        /\ m \in 0..L /\ m \in Nat
    BY <1>1, <1>4, <1>6
  <2>2. k - 1 \notin T
    BY <1>3, <2>1
  <2>3. PICK g : Rounds(proto, buf, m + 1, g)
    BY <2>1, <2>2
  <2> HIDE DEF m, T
  <2> DEFINE f == [i \in m..L |-> IF i = m THEN Round(proto, buf, g, m) ELSE g[i]]
  <2>4. \A i \in (m + 1)..L : g[i] = Round(proto, buf, g, i)
    BY <2>3 DEF Rounds
  <2>5. \A i \in (m + 1)..L : f[i] = g[i]
    BY <1>1, <2>1
  <2>6. ASSUME NEW i \in m..L PROVE f[i] = Round(proto, buf, f, i)
    <3>1. i \in 0..Len(buf) /\ \A l \in (i + 1)..Len(buf) : l \in (m + 1)..L
      BY <1>1, <2>1
    <3>2. Round(proto, buf, f, i) = Round(proto, buf, g, i)
      <4> HIDE DEF f
      <4>1. \A l \in (i + 1)..Len(buf) : f[l] = g[l]
        BY <2>5, <3>1
      <4>2. QED
        BY <3>1, <4>1, RoundAhead
    <3>3. CASE i = m
      BY <3>2, <3>3
    <3>4. CASE i # m
      <4>1. i \in (m + 1)..L
        BY <1>1, <2>1, <3>4
      <4>2. QED
        BY <2>4, <2>5, <3>2, <4>1
    <3>5. QED
      BY <3>3, <3>4
  <2>7. Rounds(proto, buf, m, f)
    <3>1. f = [i \in m..L |-> f[i]]
      OBVIOUS
    <3> HIDE DEF f
    <3>2. QED
      BY <2>6, <3>1 DEF Rounds
  <2>8. \E h : Rounds(proto, buf, L - k, h)
    BY <2>7 DEF m
  <2>9. QED
    BY <2>8 DEF T
<1>7. QED
  BY <1>4, <1>5, <1>6

(* Where the i-th packet of a chain from o begins.                         *)
Start(o, e, i) == IF i = 1 THEN o ELSE e[i - 1]

(* e are the ends of the packets from o on, all that are there.            *)
Chain(proto, buf, o, e) ==
  /\ e \in Seq(1..Len(buf))
  /\ \A i \in 1..Len(e) :
       /\ Start(o, e, i) \in 0..Len(buf) /\ Start(o, e, i) < e[i]
       /\ next_packet_len(proto, buf, Start(o, e, i)) = e[i] - Start(o, e, i)
  /\ Start(o, e, Len(e) + 1) \in 0..Len(buf)
  /\ next_packet_len(proto, buf, Start(o, e, Len(e) + 1)) \in {NeedMore, Unknown}

(* A round puts a packet in front of a chain.                              *)
LEMMA ChainGrows ==
  ASSUME NEW proto, NEW buf \in Seq(Byte), NEW o \in 0..Len(buf), NEW f,
         f[o] = Round(proto, buf, f, o),
         \A k \in (o + 1)..Len(buf) : Chain(proto, buf, k, f[k])
  PROVE  Chain(proto, buf, o, f[o])
<1> DEFINE L == Len(buf)
           nx(k) == next_packet_len(proto, buf, k)
           len == nx(o)
<1>1. L \in Nat /\ len \in {NeedMore, Unknown} \union 1..(L - o)
  BY LenShift
<1>2. f[o] = IF len \in {NeedMore, Unknown} THEN <<>> ELSE <<o + len>> \o f[o + len]
  BY DEF Round
<1> HIDE DEF len, nx
<1>3. CASE len \in {NeedMore, Unknown}
  <2>1. f[o] = <<>> /\ Len(f[o]) = 0
    BY <1>2, <1>3
  <2>2. Start(o, f[o], Len(f[o]) + 1) = o
    BY <2>1 DEF Start
  <2>3. f[o] \in Seq(1..L)
    BY <2>1
  <2>4. QED
    BY <1>3, <2>1, <2>2, <2>3 DEF Chain, len, nx
<1>4. CASE len \notin {NeedMore, Unknown}
  <2> DEFINE a == o + len
             t == f[a]
             e == f[o]
  <2>1. a \in (o + 1)..L /\ a \in 1..L /\ a \in 0..L /\ len = a - o /\ o < a
    BY <1>1, <1>4
  <2>2. e = <<a>> \o t /\ Chain(proto, buf, a, t)
    BY <1>2, <1>4, <2>1
  <2> HIDE DEF a, t, e
  <2>3. t \in Seq(1..L) /\ Len(t) \in Nat
    BY <2>2 DEF Chain
  <2>4. /\ e \in Seq(1..L) /\ Len(e) = Len(t) + 1 /\ e[1] = a
        /\ \A i \in 1..Len(t) : e[i + 1] = t[i]
    <3>1. <<a>> \in Seq(1..L) /\ Len(<<a>>) = 1 /\ <<a>>[1] = a
      BY <2>1
    <3>2. QED
      BY <2>2, <2>3, <3>1
  <2>5. ASSUME NEW i \in 1..(Len(t) + 1) PROVE Start(o, e, i + 1) = Start(a, t, i)
    <3>1. i + 1 # 1 /\ (i + 1) - 1 = i
      BY <2>3
    <3>2. Start(o, e, i + 1) = e[i]
      BY <3>1 DEF Start
    <3>3. CASE i = 1
      BY <2>4, <3>2, <3>3 DEF Start
    <3>4. CASE i # 1
      <4>1. i - 1 \in 1..Len(t) /\ (i - 1) + 1 = i
        BY <2>3, <3>4
      <4>2. e[i] = t[i - 1]
        BY <2>4, <4>1
      <4>3. QED
        BY <3>2, <3>4, <4>2 DEF Start
    <3>5. QED
      BY <3>3, <3>4
  <2>6. ASSUME NEW i \in 1..Len(e)
        PROVE  /\ Start(o, e, i) \in 0..L /\ Start(o, e, i) < e[i]
               /\ nx(Start(o, e, i)) = e[i] - Start(o, e, i)
    <3>1. CASE i = 1
      <4>1. Start(o, e, i) = o /\ e[i] = a
        BY <2>4, <3>1 DEF Start
      <4>2. QED
        BY <2>1, <4>1 DEF len
    <3>2. CASE i # 1
      <4>1. PICK j : j = i - 1
        OBVIOUS
      <4>2. j \in 1..Len(t) /\ j \in 1..(Len(t) + 1) /\ i = j + 1
        BY <2>3, <2>4, <3>2, <4>1
      <4>3. Start(o, e, i) = Start(a, t, j) /\ e[i] = t[j]
        BY <2>4, <2>5, <4>2
      <4>4. /\ Start(a, t, j) \in 0..L /\ Start(a, t, j) < t[j]
            /\ nx(Start(a, t, j)) = t[j] - Start(a, t, j)
        BY <2>2, <4>2 DEF Chain, nx
      <4>5. QED
        BY <4>3, <4>4
    <3>3. QED
      BY <3>1, <3>2
  <2>7. /\ Start(o, e, Len(e) + 1) \in 0..L
        /\ nx(Start(o, e, Len(e) + 1)) \in {NeedMore, Unknown}
    <3>1. Len(t) + 1 \in 1..(Len(t) + 1)
      BY <2>3
    <3>2. Start(o, e, Len(e) + 1) = Start(a, t, Len(t) + 1)
      BY <2>4, <2>5, <3>1
    <3>3. QED
      BY <2>2, <3>2 DEF Chain, nx
  <2>8. QED
    BY <2>4, <2>6, <2>7 DEF Chain, nx, e
<1>5. QED
  BY <1>3, <1>4

(* split finds the ends of all whole packets in its buffer.                *)
LEMMA EndsFacts ==
  ASSUME NEW proto, NEW buf \in Seq(Byte)
  PROVE  Chain(proto, buf, 0, PacketEnds(proto, buf))
<1> DEFINE L == Len(buf)
           f == CHOOSE g : Rounds(proto, buf, 0, g)
           T == {k \in 0..L : ~Chain(proto, buf, L - k, f[L - k])}
<1>1. L \in Nat
  OBVIOUS
<1>2. Rounds(proto, buf, 0, f)
  BY RoundsExist
<1>3. PacketEnds(proto, buf) = f[0]
  BY DEF PacketEnds, Rounds, Round
<1> HIDE DEF f
<1>4. \A k \in 0..L : f[k] = Round(proto, buf, f, k)
  BY <1>2 DEF Rounds
<1>5. SUFFICES ASSUME T # {} PROVE FALSE
  <2>1. L \notin T /\ L \in 0..L /\ L - L = 0
    BY <1>1, <1>5
  <2>2. QED
    BY <1>3, <2>1
<1>6. PICK k \in T : \A l \in T : k <= l
  <2>1. T \subseteq Nat
    OBVIOUS
  <2> HIDE DEF T
  <2>2. QED
    BY <1>5, <2>1, LeastNumber
<1>7. k \in 0..L /\ L - k \in 0..L
  BY <1>1
<1>8. ASSUME NEW i \in ((L - k) + 1)..L PROVE Chain(proto, buf, i, f[i])
  <2>1. L - i \in 0..L /\ ~(k <= L - i) /\ L - (L - i) = i
    BY <1>1, <1>7
  <2>2. L - i \notin T
    BY <1>6, <2>1
  <2>3. QED
    BY <2>1, <2>2
<1>9. Chain(proto, buf, L - k, f[L - k])
  BY <1>4, <1>7, <1>8, ChainGrows
<1>10. QED
  BY <1>6, <1>9

-----------------------------------------------------------------------------
(* Packets of the stream. *)

(* There is a packet that ends behind x.                                   *)
More(s, x) == \E k \in 1..Len(s.ends) : s.ends[k] > x

(* If so, one begins at x.                                                 *)
Aligned(s, x) ==
  More(s, x) => x = 0 \/ \E k \in 1..Len(s.ends) : s.ends[k] = x

(* If so, the first of them ends at y.                                     *)
Piece(s, x, y) ==
  More(s, x) =>
    /\ x < y /\ \E k \in 1..Len(s.ends) : s.ends[k] = y
    /\ \A k \in 1..Len(s.ends) : s.ends[k] > x => y <= s.ends[k]

(* At the beginning of a packet the parsers find its end, or wait for it.  *)
LEMMA NextPacket ==
  ASSUME NEW s \in Streams, NEW x \in Nat, NEW r \in Nat, x <= r, r <= Len(s.bytes),
         Aligned(s, x), More(s, x)
  PROVE  \E y \in 1..Len(s.bytes) :
           /\ Piece(s, x, y) /\ x < y
           /\ FirstLen(s.proto, Seg(s.bytes, x, r)) = IF y <= r THEN y - x ELSE NeedMore
<1> DEFINE ends == s.ends
           n == Len(ends)
           L == Len(s.bytes)
<1>1. /\ s.bytes \in Seq(Byte) /\ L \in Nat /\ n \in Nat
      /\ \A i \in 1..n : ends[i] \in 1..L
  BY StreamFacts
<1>2. /\ \A i, j \in 1..n : i < j => ends[i] < ends[j]
      /\ \A i \in 1..n :
           Packet(s.proto, SubSeq(s.bytes, (IF i = 1 THEN 0 ELSE ends[i - 1]) + 1, ends[i]))
  BY BridgeAssumption DEF Framed
<1>3. PICK j \in 1..n : x = (IF j = 1 THEN 0 ELSE ends[j - 1])
  <2>1. PICK k \in 1..n : ends[k] > x
    BY DEF More
  <2>2. CASE x = 0
    <3>1. 1 \in 1..n
      BY <1>1
    <3>2. QED
      BY <2>2, <3>1
  <2>3. ASSUME NEW l \in 1..n, ends[l] = x
        PROVE  \E j \in 1..n : x = (IF j = 1 THEN 0 ELSE ends[j - 1])
    <3>1. l < k
      <4>1. ~(k < l) /\ k # l
        BY <1>1, <1>2, <2>1, <2>3
      <4>2. QED
        BY <1>1, <4>1
    <3>2. l + 1 \in 1..n /\ l + 1 # 1 /\ (l + 1) - 1 = l
      BY <1>1, <3>1
    <3>3. QED
      BY <2>3, <3>2
  <2>4. QED
    BY <2>2, <2>3 DEF Aligned
<1> DEFINE y == ends[j]
<1>4. y \in 1..L /\ y \in Nat
  BY <1>1
<1>5. x < y /\ \A k \in 1..n : ends[k] > x => y <= ends[k]
  <2>1. CASE j = 1
    <3>1. \A k \in 1..n : k = 1 \/ 1 < k
      BY <1>1
    <3>2. QED
      BY <1>1, <1>2, <1>3, <2>1, <3>1
  <2>2. CASE j # 1
    <3>1. j - 1 \in 1..n /\ j - 1 < j /\ x = ends[j - 1]
      BY <1>1, <1>3, <2>2
    <3>2. x < y
      BY <1>2, <3>1
    <3>3. ASSUME NEW k \in 1..n, ends[k] > x PROVE y <= ends[k]
      <4>0. ends[k] \in Nat /\ ends[j - 1] \in Nat /\ ends[k] > ends[j - 1]
        BY <1>1, <3>1, <3>3
      <4>1. ~(k < j - 1) /\ k # j - 1
        <5>1. k < j - 1 => ends[k] < ends[j - 1]
          BY <1>2, <3>1
        <5>2. k = j - 1 => ends[k] = ends[j - 1]
          OBVIOUS
        <5> HIDE DEF ends
        <5>3. QED
          BY <4>0, <5>1, <5>2
      <4>2. k = j \/ j < k
        BY <1>1, <4>1
      <4>3. QED
        BY <1>1, <1>2, <4>2
    <3>4. QED
      BY <3>2, <3>3
  <2>3. QED
    BY <2>1, <2>2
<1>6. Piece(s, x, y)
  BY <1>5 DEF Piece
<1> DEFINE p == Seg(s.bytes, x, y)
           plain == Seg(s.bytes, x, r)
<1>7. Packet(s.proto, p)
  BY <1>2, <1>3 DEF Seg
<1>8. p \in Seq(Byte) /\ Len(p) = y - x /\ \A i \in 1..(y - x) : p[i] = s.bytes[x + i]
  <2>1. x <= y /\ y <= Len(s.bytes)
    BY <1>1, <1>4, <1>5
  <2> HIDE DEF y
  <2>2. QED
    BY <1>1, <1>4, <2>1, SegFacts
<1>9. /\ plain \in Seq(Byte) /\ Len(plain) = r - x
      /\ \A i \in 1..(r - x) : plain[i] = s.bytes[x + i]
  BY <1>1, SegFacts
<1> HIDE DEF p, plain, y
<1>10. p # <<>>
  <2>1. Len(p) > 0
    BY <1>4, <1>5, <1>8
  <2>2. QED
    BY <2>1
<1>11. \A i \in 1..Len(p) : i <= Len(plain) => plain[i] = p[i]
  <2>1. ASSUME NEW i \in 1..Len(p), i <= Len(plain) PROVE plain[i] = p[i]
    <3>1. i \in 1..(y - x) /\ i \in 1..(r - x)
      BY <1>4, <1>8, <1>9, <2>1
    <3>2. QED
      BY <1>8, <1>9, <3>1
  <2>2. QED
    BY <2>1
<1>12. FirstLen(s.proto, plain) = IF Len(p) <= Len(plain) THEN Len(p) ELSE NeedMore
  BY <1>7, <1>8, <1>9, <1>10, <1>11, ParsersAgree
<1>13. Len(p) <= Len(plain) <=> y <= r
  BY <1>4, <1>8, <1>9
<1>14. FirstLen(s.proto, plain) = IF y <= r THEN y - x ELSE NeedMore
  BY <1>8, <1>12, <1>13
<1>15. QED
  BY <1>4, <1>5, <1>6, <1>14 DEF plain

(* The packet behind a packet begins where it ends.                        *)
LEMMA PieceAligned ==
  ASSUME NEW s \in Streams, NEW x \in Nat, NEW y \in Nat, x <= y, Piece(s, x, y)
  PROVE  Aligned(s, y) /\ (~More(s, x) => ~More(s, y))
<1>1. \A k \in 1..Len(s.ends) : s.ends[k] \in Nat
  BY StreamFacts
<1>2. More(s, y) => More(s, x)
  BY <1>1 DEF More
<1>3. QED
  BY <1>2 DEF Aligned, Piece

(* What the parsers see at o in a piece of the stream.                     *)
LEMMA LenInStream ==
  ASSUME NEW s \in Streams, NEW c \in Nat, NEW t \in Nat, c <= t, t <= Len(s.bytes),
         NEW o \in 0..(t - c)
  PROVE  next_packet_len(s.proto, Seg(s.bytes, c, t), o)
           = FirstLen(s.proto, Seg(s.bytes, c + o, t))
<1> DEFINE buf == Seg(s.bytes, c, t)
<1>1. s.bytes \in Seq(Byte)
  BY StreamFacts
<1>2. buf \in Seq(Byte) /\ Len(buf) = t - c
  BY <1>1, SegFacts
<1>3. /\ o \in Nat /\ t - c \in Nat /\ o <= t - c /\ t - c <= t - c
      /\ c + (t - c) = t
  OBVIOUS
<1>4. Seg(buf, o, t - c) = Seg(s.bytes, c + o, t)
  <2>1. Seg(Seg(s.bytes, c, t), o, t - c) = Seg(s.bytes, c + o, c + (t - c))
    BY <1>1, <1>3, SegOfSeg
  <2>2. QED
    BY <1>3, <2>1
<1> HIDE DEF buf
<1>5. next_packet_len(s.proto, buf, o) = FirstLen(s.proto, Seg(buf, o, Len(buf)))
  BY <1>2, LenShift
<1>6. QED
  BY <1>2, <1>4, <1>5 DEF buf

(* A chain that begins at a packet goes from packet to packet.             *)
LEMMA ChainAligned ==
  ASSUME NEW s \in Streams, NEW c \in Nat, NEW t \in Nat, c <= t, t <= Len(s.bytes),
         Aligned(s, c), NEW e, Chain(s.proto, Seg(s.bytes, c, t), 0, e)
  PROVE  /\ \A i \in 1..(Len(e) + 1) : Aligned(s, c + Start(0, e, i))
         /\ \A i \in 1..Len(e) : Piece(s, c + Start(0, e, i), c + e[i])
<1> DEFINE buf == Seg(s.bytes, c, t)
           st(i) == Start(0, e, i)
           n == Len(e)
<1>1. Len(buf) = t - c /\ t - c \in Nat
  <2>1. s.bytes \in Seq(Byte)
    BY StreamFacts
  <2>2. Len(buf) = t - c
    BY <2>1, SegFacts
  <2>3. QED
    BY <2>2
<1>2. /\ e \in Seq(1..(t - c)) /\ n \in Nat
      /\ \A i \in 1..n : /\ st(i) \in 0..(t - c) /\ st(i) < e[i] /\ e[i] \in 1..(t - c)
                         /\ next_packet_len(s.proto, buf, st(i)) = e[i] - st(i)
  <2>1. e \in Seq(1..Len(buf))
    BY DEF Chain
  <2>2. n \in Nat /\ \A i \in 1..n : e[i] \in 1..(t - c)
    BY <1>1, <2>1
  <2>3. QED
    BY <1>1, <2>1, <2>2 DEF Chain
<1>3. ASSUME NEW i \in 1..n, Aligned(s, c + st(i))
      PROVE  Piece(s, c + st(i), c + e[i])
  <2> DEFINE x == c + st(i)
  <2>1. /\ x \in Nat /\ x <= t /\ st(i) \in 0..(t - c) /\ e[i] \in Nat /\ st(i) < e[i]
        /\ c + e[i] <= t
    BY <1>2
  <2>2. FirstLen(s.proto, Seg(s.bytes, x, t)) = e[i] - st(i)
    BY <1>2, <2>1, LenInStream
  <2>3. CASE More(s, x)
    <3> HIDE DEF x, st
    <3>1. PICK y \in 1..Len(s.bytes) :
            /\ Piece(s, x, y) /\ x < y
            /\ FirstLen(s.proto, Seg(s.bytes, x, t)) = IF y <= t THEN y - x ELSE NeedMore
      BY <1>3, <2>1, <2>3, NextPacket DEF x
    <3>2. y - x = e[i] - st(i)
      BY <2>1, <2>2, <3>1 DEF NeedMore
    <3>3. y = c + e[i]
      <4>1. Len(s.bytes) \in Nat
        BY StreamFacts
      <4>2. y \in Nat /\ st(i) \in Nat /\ e[i] \in Nat /\ x = c + st(i)
        BY <2>1, <3>1, <4>1 DEF x
      <4>3. \A a, b \in Nat : y - x = a - b /\ x = c + b => y = c + a
        BY <4>2
      <4>4. QED
        BY <3>2, <4>2, <4>3
    <3>4. QED
      BY <3>1, <3>3 DEF x
  <2>4. CASE ~More(s, x)
    BY <2>4 DEF Piece
  <2>5. QED
    BY <2>3, <2>4
<1> DEFINE T == {i \in 1..(n + 1) : ~Aligned(s, c + st(i))}
<1>4. ASSUME T # {} PROVE FALSE
  <2>1. PICK i \in T : \A j \in T : i <= j
    <3>1. T \subseteq Nat
      BY <1>2
    <3> HIDE DEF T
    <3>2. QED
      BY <1>4, <3>1, LeastNumber
  <2>2. i \in 1..(n + 1) /\ ~Aligned(s, c + st(i))
    BY <2>1
  <2>3. CASE i = 1
    <3>1. st(1) = 0 /\ c + 0 = c
      BY DEF Start
    <3>2. QED
      BY <2>2, <2>3, <3>1
  <2>4. CASE i # 1
    <3>1. PICK j : j = i - 1
      OBVIOUS
    <3>2. j \in 1..n /\ j \in 1..(n + 1) /\ ~(i <= j)
      BY <1>2, <2>2, <2>4, <3>1
    <3>3. Aligned(s, c + st(j))
      BY <2>1, <3>2
    <3>4. Piece(s, c + st(j), c + e[j]) /\ st(i) = e[j]
      BY <1>3, <2>4, <3>1, <3>2, <3>3 DEF Start
    <3>5. c + st(j) \in Nat /\ c + e[j] \in Nat /\ c + st(j) <= c + e[j]
      <4>1. c \in Nat /\ st(j) \in Nat /\ e[j] \in Nat /\ st(j) < e[j]
        <5> HIDE DEF st
        <5>1. QED
          BY ONLY <1>2, <3>2, c \in Nat, t \in Nat
      <4>2. \A a, b \in Nat : a < b => c + a \in Nat /\ c + b \in Nat /\ c + a <= c + b
        BY ONLY <4>1
      <4> HIDE DEF st
      <4>3. QED
        BY ONLY <4>1, <4>2
    <3> HIDE DEF st
    <3>6. Aligned(s, c + e[j])
      BY <3>4, <3>5, PieceAligned
    <3>7. QED
      BY <2>2, <3>4, <3>6
  <2>5. QED
    BY <2>3, <2>4
<1>5. \A i \in 1..(n + 1) : Aligned(s, c + st(i))
  BY <1>4
<1>6. \A i \in 1..n : i \in 1..(n + 1)
  BY <1>2
<1>7. QED
  BY <1>3, <1>5, <1>6

-----------------------------------------------------------------------------
(* What is cut and not yet sent. *)

LEMMA Rising ==
  ASSUME NEW n \in Nat, NEW f \in [0..n -> Nat], \A i \in 1..n : f[i - 1] <= f[i]
  PROVE  \A i \in 0..n : f[i] <= f[n]
<1> DEFINE T == {k \in 0..n : ~(f[n - k] <= f[n])}
<1>1. ASSUME T # {} PROVE FALSE
  <2>1. PICK k \in T : \A l \in T : k <= l
    <3>1. T \subseteq Nat
      OBVIOUS
    <3> HIDE DEF T
    <3>2. QED
      BY <1>1, <3>1, LeastNumber
  <2>2. k \in 0..n /\ ~(f[n - k] <= f[n])
    BY <2>1
  <2>3. k # 0
    <3>1. n - 0 = n /\ n \in 0..n /\ f[n] \in Nat
      OBVIOUS
    <3>2. QED
      BY <2>2, <3>1
  <2>4. PICK a, b : a = n - k /\ b = a + 1
    OBVIOUS
  <2>5. /\ k - 1 \in 0..n /\ ~(k <= k - 1) /\ n - (k - 1) = b
        /\ a \in 0..n /\ b \in 1..n /\ b - 1 = a
    BY <2>2, <2>3, <2>4
  <2>6. f[b] <= f[n] /\ f[a] <= f[b]
    BY <2>1, <2>5
  <2>7. f[a] \in Nat /\ f[b] \in Nat /\ f[n] \in Nat
    <3>1. b \in 0..n /\ n \in 0..n
      BY <2>5
    <3>2. QED
      BY <2>5, <3>1
  <2>8. f[a] <= f[n]
    BY <2>6, <2>7
  <2>9. QED
    BY <2>2, <2>4, <2>8
<1>2. ASSUME NEW i \in 0..n PROVE f[i] <= f[n]
  <2>1. n - i \in 0..n /\ n - (n - i) = i
    OBVIOUS
  <2>2. n - i \notin T
    BY <1>1
  <2>3. QED
    BY <2>1, <2>2
<1>3. QED
  BY <1>2

(* The parts q are the pieces of the encrypted stream from a to b, of a    *)
(* packet each where the bridge sends packets.                             *)
Cuts(s, k, q, f) ==
  \A i \in 1..Len(q) :
    /\ f[i - 1] <= f[i] /\ q[i] = Seg(Cipher(s), f[i - 1], f[i])
    /\ k = "packets" => Piece(s, f[i - 1], f[i])

Pieces(s, k, q, a, b) ==
  \E f \in [0..Len(q) -> Nat] : f[0] = a /\ f[Len(q)] = b /\ Cuts(s, k, q, f)

LEMMA PiecesNone ==
  ASSUME NEW s, NEW k, NEW a \in Nat, NEW b \in Nat
  PROVE  Pieces(s, k, <<>>, a, b) <=> a = b
<1>1. Len(<<>>) = 0 /\ 0 \in 0..0 /\ 1..0 = {}
  OBVIOUS
<1>2. ASSUME a = b PROVE Pieces(s, k, <<>>, a, b)
  <2> DEFINE f == [i \in 0..0 |-> a]
  <2>1. f \in [0..Len(<<>>) -> Nat] /\ f[0] = a
    BY <1>1
  <2>2. Cuts(s, k, <<>>, f)
    BY <1>1 DEF Cuts
  <2> HIDE DEF f
  <2>3. QED
    BY <1>1, <1>2, <2>1, <2>2 DEF Pieces
<1>3. QED
  BY <1>1, <1>2 DEF Pieces

LEMMA PiecesFirst ==
  ASSUME NEW s, NEW k, NEW q \in Seq(Seq(Byte)), q # <<>>, NEW a \in Nat, NEW b \in Nat,
         Pieces(s, k, q, a, b)
  PROVE  \E m \in a..b : /\ Head(q) = Seg(Cipher(s), a, m)
                         /\ k = "packets" => Piece(s, a, m)
                         /\ Pieces(s, k, Tail(q), m, b)
<1>1. PICK n \in Nat : Len(q) = n + 1
  <2>1. Len(q) \in Nat /\ Len(q) # 0
    OBVIOUS
  <2>2. Len(q) - 1 \in Nat /\ Len(q) = (Len(q) - 1) + 1
    BY <2>1
  <2>3. QED
    BY <2>2
<1>2. PICK f \in [0..(n + 1) -> Nat] : f[0] = a /\ f[n + 1] = b /\ Cuts(s, k, q, f)
  BY <1>1 DEF Pieces
<1>3. \A i \in 1..(n + 1) : /\ f[i - 1] <= f[i] /\ q[i] = Seg(Cipher(s), f[i - 1], f[i])
                            /\ k = "packets" => Piece(s, f[i - 1], f[i])
  BY <1>1, <1>2 DEF Cuts
<1> DEFINE m == f[1]
           g == [i \in 0..n |-> f[i + 1]]
<1>4. 1 \in 1..(n + 1) /\ 1 - 1 = 0 /\ 1 \in 0..(n + 1) /\ n + 1 \in Nat
  OBVIOUS
<1>5. m \in a..b
  <2>1. f[1] <= f[n + 1]
    BY <1>2, <1>3, <1>4, Rising
  <2>2. f[1] \in Nat /\ a <= f[1]
    BY <1>2, <1>3, <1>4
  <2>3. QED
    BY <1>2, <2>1, <2>2
<1>6. Head(q) = Seg(Cipher(s), a, m) /\ (k = "packets" => Piece(s, a, m))
  <2>1. Head(q) = q[1]
    OBVIOUS
  <2>2. QED
    BY <1>2, <1>3, <1>4, <2>1
<1>7. Tail(q) \in Seq(Seq(Byte)) /\ Len(Tail(q)) = n /\ \A i \in 1..n : Tail(q)[i] = q[i + 1]
  <2>1. Tail(q) \in Seq(Seq(Byte)) /\ Len(Tail(q)) = Len(q) - 1
    OBVIOUS
  <2>2. \A i \in 1..Len(Tail(q)) : Tail(q)[i] = q[i + 1]
    OBVIOUS
  <2>3. Len(Tail(q)) = n
    BY <1>1, <2>1
  <2>4. QED
    BY <2>1, <2>2, <2>3
<1>8. g \in [0..n -> Nat] /\ g[0] = m /\ g[n] = b
  <2>1. \A i \in 0..n : i + 1 \in 0..(n + 1)
    OBVIOUS
  <2>2. 0 \in 0..n /\ n \in 0..n /\ 0 + 1 = 1
    OBVIOUS
  <2>3. \A i \in 0..n : f[i + 1] \in Nat
    BY <2>1
  <2>4. QED
    BY <1>2, <2>2, <2>3
<1>9. Cuts(s, k, Tail(q), g)
  <2>1. ASSUME NEW i \in 1..n
        PROVE  /\ g[i - 1] <= g[i] /\ Tail(q)[i] = Seg(Cipher(s), g[i - 1], g[i])
               /\ k = "packets" => Piece(s, g[i - 1], g[i])
    <3>1. i - 1 \in 0..n /\ i \in 0..n /\ (i - 1) + 1 = i /\ i + 1 \in 1..(n + 1) /\ (i + 1) - 1 = i
      OBVIOUS
    <3>2. g[i - 1] = f[i] /\ g[i] = f[i + 1]
      BY <3>1
    <3>3. /\ f[i] <= f[i + 1] /\ q[i + 1] = Seg(Cipher(s), f[i], f[i + 1])
          /\ k = "packets" => Piece(s, f[i], f[i + 1])
      BY <1>3, <3>1
    <3> HIDE DEF g
    <3>4. QED
      BY <1>7, <3>2, <3>3
  <2> HIDE DEF g
  <2>2. QED
    BY <1>7, <2>1 DEF Cuts
<1> HIDE DEF m, g
<1>10. Pieces(s, k, Tail(q), m, b)
  BY <1>7, <1>8, <1>9 DEF Pieces
<1>11. QED
  BY <1>5, <1>6, <1>10

LEMMA PiecesAppend ==
  ASSUME NEW s, NEW k, NEW q \in Seq(Seq(Byte)), NEW a \in Nat, NEW b \in Nat, NEW d \in Nat,
         Pieces(s, k, q, a, b), b <= d, k = "packets" => Piece(s, b, d)
  PROVE  Pieces(s, k, Append(q, Seg(Cipher(s), b, d)), a, d)
<1> DEFINE n == Len(q)
           p == Seg(Cipher(s), b, d)
           r == Append(q, p)
<1>1. PICK f \in [0..n -> Nat] : f[0] = a /\ f[n] = b /\ Cuts(s, k, q, f)
  BY DEF Pieces
<1> DEFINE g == [i \in 0..(n + 1) |-> IF i = n + 1 THEN d ELSE f[i]]
<1>2. n \in Nat /\ Len(r) = n + 1 /\ r[n + 1] = p /\ \A i \in 1..n : r[i] = q[i]
  <2> HIDE DEF p
  <2>1. QED
    OBVIOUS
<1>3. /\ g \in [0..(n + 1) -> Nat] /\ g[n + 1] = d
      /\ \A i \in 0..n : g[i] = f[i]
  <2>1. ASSUME NEW i \in 0..(n + 1), i # n + 1 PROVE f[i] \in Nat
    <3>1. i \in 0..n
      BY <1>2, <2>1
    <3>2. QED
      BY <3>1
  <2>2. \A i \in 0..n : i \in 0..(n + 1) /\ i # n + 1
    BY <1>2
  <2>3. n + 1 \in 0..(n + 1)
    BY <1>2
  <2> HIDE DEF n
  <2>4. QED
    BY <2>1, <2>2, <2>3
<1> HIDE DEF g
<1>4. Cuts(s, k, r, g)
  <2>1. ASSUME NEW i \in 1..(n + 1)
        PROVE  /\ g[i - 1] <= g[i] /\ r[i] = Seg(Cipher(s), g[i - 1], g[i])
               /\ k = "packets" => Piece(s, g[i - 1], g[i])
    <3>1. CASE i = n + 1
      <4>1. (n + 1) - 1 = n /\ n \in 0..n
        BY <1>2
      <4>2. g[i - 1] = b /\ g[i] = d
        BY <1>1, <1>3, <3>1, <4>1
      <4>3. QED
        BY <1>2, <3>1, <4>2
    <3>2. CASE i # n + 1
      <4>1. i \in 1..n /\ i - 1 \in 0..n /\ i \in 0..n
        BY <1>2, <3>2
      <4>2. /\ f[i - 1] <= f[i] /\ q[i] = Seg(Cipher(s), f[i - 1], f[i])
            /\ k = "packets" => Piece(s, f[i - 1], f[i])
        BY <1>1, <4>1 DEF Cuts
      <4>3. g[i - 1] = f[i - 1] /\ g[i] = f[i] /\ r[i] = q[i]
        BY <1>2, <1>3, <4>1
      <4> HIDE DEF r
      <4>4. QED
        BY <4>2, <4>3
    <3>3. QED
      BY <3>1, <3>2
  <2> HIDE DEF r
  <2>2. QED
    BY <1>2, <2>1 DEF Cuts
<1>5. g[0] = a
  <2>1. 0 \in 0..n
    BY <1>2
  <2>2. QED
    BY <1>1, <1>3, <2>1
<1>6. g \in [0..Len(r) -> Nat] /\ g[Len(r)] = d
  BY <1>2, <1>3
<1> HIDE DEF r
<1>7. Pieces(s, k, r, a, d)
  BY <1>4, <1>5, <1>6 DEF Pieces
<1>8. QED
  BY <1>7 DEF r

-----------------------------------------------------------------------------
(* One call of split. *)

Splitters(s) ==
  [proto : {s.proto}, dec : Nat, cipher_buf : Seq(Byte), plain_buf : Seq(Byte),
   disabled : BOOLEAN]

(* What waits in the splitter, at the end of a read at r, begins at c: a   *)
(* packet that is not there in full, or, once the splitter is disabled and *)
(* there are no packets left, nothing.                                     *)
Waits(s, sp, c, r) ==
  \/ /\ sp.disabled /\ c = r /\ ~More(s, r) /\ sp.cipher_buf = <<>>
  \/ /\ ~sp.disabled /\ sp.dec = r /\ Aligned(s, c)
     /\ sp.cipher_buf = Seg(Cipher(s), c, r) /\ sp.plain_buf = Seg(s.bytes, c, r)
     /\ FirstLen(s.proto, Seg(s.bytes, c, r)) = NeedMore

(* Every packet read in full has been cut off.                             *)
LEMMA NoneWaiting ==
  ASSUME NEW s \in Streams, NEW sp, NEW c \in Nat, NEW r \in Nat, c <= r,
         r <= Len(s.bytes), Waits(s, sp, c, r)
  PROVE  \A k \in 1..Len(s.ends) : s.ends[k] <= r => s.ends[k] <= c
<1>1. \A k \in 1..Len(s.ends) : s.ends[k] \in Nat
  BY StreamFacts
<1>2. ASSUME NEW k \in 1..Len(s.ends), s.ends[k] <= r, s.ends[k] > c PROVE FALSE
  <2>1. CASE c = r
    BY <1>1, <1>2, <2>1
  <2>2. CASE c # r
    <3>1. Aligned(s, c) /\ FirstLen(s.proto, Seg(s.bytes, c, r)) = NeedMore
      BY <2>2 DEF Waits
    <3>2. More(s, c)
      BY <1>2 DEF More
    <3>3. PICK y \in 1..Len(s.bytes) :
            /\ Piece(s, c, y) /\ c < y
            /\ FirstLen(s.proto, Seg(s.bytes, c, r)) = IF y <= r THEN y - c ELSE NeedMore
      BY <3>1, <3>2, NextPacket
    <3>4. y <= s.ends[k] /\ y \in Nat
      BY <1>2, <3>2, <3>3, StreamFacts DEF Piece
    <3>5. y <= r
      BY <1>1, <1>2, <3>4
    <3>6. y - c > 0
      BY <3>3, <3>4
    <3>7. QED
      BY <3>1, <3>3, <3>5, <3>6 DEF NeedMore
  <2>3. QED
    BY <2>1, <2>2
<1>3. QED
  BY <1>1, <1>2

(* split, on a splitter that is in step, cuts off the packets that are     *)
(* there in full and keeps the rest; when it gives up, no packet is left.  *)
LEMMA SplitStep ==
  ASSUME NEW s \in Streams, NEW sp \in Splitters(s),
         NEW c \in Nat, NEW r \in Nat, NEW t \in Nat, c <= r, r < t, t <= Len(s.bytes),
         Waits(s, sp, c, r), NEW res, res = Split(sp, Seg(Cipher(s), r, t))
  PROVE  /\ res.s \in Splitters(s) /\ res.parts \in Seq(Seq(Byte))
         /\ \E d \in c..t : Pieces(s, "packets", res.parts, c, d) /\ Waits(s, res.s, d, t)
<1> DEFINE L == Len(s.bytes)
           C == Cipher(s)
           chunk == Seg(C, r, t)
<1>1. /\ s.bytes \in Seq(Byte) /\ L \in Nat /\ C \in Seq(Byte) /\ Len(C) = L
  BY StreamFacts
<1>2. chunk \in Seq(Byte) /\ Len(chunk) = t - r
  <2> HIDE DEF C
  <2>1. r <= t /\ t <= Len(C)
    BY <1>1
  <2>2. QED
    BY <1>1, <2>1, SegFacts
<1>3. chunk # <<>>
  <2> HIDE DEF chunk
  <2>1. Len(chunk) > 0
    BY <1>2
  <2>2. QED
    BY <2>1
<1>4. CASE sp.disabled
  <2>1. c = r /\ ~More(s, r) /\ sp.cipher_buf = <<>>
    BY <1>4 DEF Waits
  <2>2. res = [s |-> sp, parts |-> <<chunk>>]
    BY <1>3, <1>4 DEF Split
  <2>3. res.s = sp /\ res.parts = <<chunk>>
    BY <2>2
  <2>4. res.parts \in Seq(Seq(Byte))
    <3> HIDE DEF chunk
    <3>1. QED
      BY <1>2, <2>3
  <2>5. Pieces(s, "packets", <<>>, c, c)
    BY PiecesNone
  <2>6. Piece(s, c, t)
    BY <2>1 DEF Piece
  <2>7. Pieces(s, "packets", Append(<<>>, chunk), c, t)
    <3>1. <<>> \in Seq(Seq(Byte)) /\ c <= t
      OBVIOUS
    <3>2. QED
      BY <2>1, <2>5, <2>6, <3>1, PiecesAppend
  <2>8. Append(<<>>, chunk) = <<chunk>>
    OBVIOUS
  <2>9. ~More(s, t)
    <3>1. r \in Nat /\ t \in Nat /\ r <= t
      OBVIOUS
    <3>2. QED
      BY <2>1, <2>6, <3>1, PieceAligned
  <2>10. Waits(s, res.s, t, t)
    BY <1>4, <2>1, <2>3, <2>9 DEF Waits
  <2>11. t \in c..t
    OBVIOUS
  <2>12. QED
    BY <2>3, <2>4, <2>7, <2>8, <2>10, <2>11
<1>5. CASE ~sp.disabled
  <2>1. /\ sp.dec = r /\ Aligned(s, c) /\ sp.cipher_buf = Seg(C, c, r)
        /\ sp.plain_buf = Seg(s.bytes, c, r)
    BY <1>5 DEF Waits
  <2> DEFINE plain == Seg(s.bytes, c, t)
             cipher == Seg(C, c, t)
             e == PacketEnds(s.proto, plain)
             n == Len(e)
             starts == <<0>> \o e
             w == starts[Len(starts)]
             parts == [i \in 1..n |-> SubSeq(cipher, starts[i] + 1, e[i])]
             next == [sp EXCEPT !.dec = @ + Len(chunk)]
  <2>2. Decrypted(chunk, sp.dec) = Seg(s.bytes, r, t)
    <3>1. r <= t
      OBVIOUS
    <3>2. QED
      BY <2>1, <3>1, ChunkDecrypted
  <2>3. sp.plain_buf \o Decrypted(chunk, sp.dec) = plain
    <3>1. r <= t
      OBVIOUS
    <3>2. Seg(s.bytes, c, r) \o Seg(s.bytes, r, t) = Seg(s.bytes, c, t)
      BY <1>1, <3>1, SegConcat
    <3>3. QED
      BY <2>1, <2>2, <3>2
  <2>4. sp.cipher_buf \o chunk = cipher
    <3> HIDE DEF C
    <3>1. r <= t /\ t <= Len(C)
      BY <1>1
    <3>2. Seg(C, c, r) \o Seg(C, r, t) = Seg(C, c, t)
      BY <1>1, <3>1, SegConcat
    <3>3. QED
      BY <2>1, <3>2
  <2>5. sp.proto = s.proto
    BY DEF Splitters
  <2>6. /\ plain \in Seq(Byte) /\ Len(plain) = t - c /\ cipher \in Seq(Byte)
        /\ Len(cipher) = t - c /\ t - c \in Nat
    <3> HIDE DEF C
    <3>1. c <= t /\ t <= Len(C) /\ t - c \in Nat
      BY <1>1
    <3>2. plain \in Seq(Byte) /\ Len(plain) = t - c
      BY <1>1, <3>1, SegFacts
    <3>3. cipher \in Seq(Byte) /\ Len(cipher) = t - c
      BY <1>1, <3>1, SegFacts
    <3>4. QED
      BY <3>1, <3>2, <3>3
  <2>7. res = IF next_packet_len(s.proto, plain, w) = Unknown
              THEN [s |-> [next EXCEPT !.cipher_buf = <<>>, !.plain_buf = <<>>,
                                       !.disabled = TRUE],
                    parts |-> Append(parts, SubSeq(cipher, w + 1, Len(cipher)))]
              ELSE [s |-> [next EXCEPT !.cipher_buf = SubSeq(cipher, w + 1, Len(cipher)),
                                       !.plain_buf = SubSeq(plain, w + 1, Len(plain))],
                    parts |-> parts]
    <3> HIDE DEF chunk, plain, cipher
    <3>1. res = Split(sp, chunk)
      BY DEF chunk
    <3>2. QED
      BY <1>3, <1>5, <2>3, <2>4, <2>5, <3>1 DEF Split
  <2>8. Chain(s.proto, plain, 0, e)
    BY <2>6, EndsFacts
  <2> HIDE DEF plain, cipher, e, chunk, C
  <2>9. e \in Seq(1..(t - c)) /\ n \in Nat
    BY <2>6, <2>8 DEF Chain
  <2>10. \A i \in 1..(n + 1) : starts[i] = Start(0, e, i)
    BY <2>9 DEF Start
  <2>11. w = Start(0, e, n + 1)
    <3>1. Len(starts) = n + 1 /\ n + 1 \in 1..(n + 1)
      BY <2>9
    <3>2. QED
      BY <2>10, <3>1
  <2>12. /\ w \in 0..(t - c)
         /\ next_packet_len(s.proto, plain, w) \in {NeedMore, Unknown}
    BY <2>6, <2>8, <2>11 DEF Chain
  <2>13. /\ \A i \in 1..(n + 1) : Aligned(s, c + Start(0, e, i))
         /\ \A i \in 1..n : Piece(s, c + Start(0, e, i), c + e[i])
    <3>1. c <= t
      OBVIOUS
    <3>2. QED
      BY <2>1, <2>8, <3>1, ChainAligned DEF plain
  <2>14. ASSUME NEW i \in 1..n
         PROVE  /\ Start(0, e, i) \in 0..(t - c) /\ e[i] \in 0..(t - c) /\ Start(0, e, i) < e[i]
                /\ parts[i] = Seg(C, c + Start(0, e, i), c + e[i])
                /\ parts[i] \in Seq(Byte)
    <3>1. i \in 1..(n + 1) /\ e[i] \in 1..(t - c)
      BY <2>9
    <3>2. starts[i] = Start(0, e, i)
      BY <2>10, <3>1
    <3>3. Start(0, e, i) \in 0..(t - c) /\ Start(0, e, i) < e[i]
      BY <2>6, <2>8 DEF Chain
    <3>4. PICK x, y : x = Start(0, e, i) /\ y = e[i]
      OBVIOUS
    <3>5. /\ x \in Nat /\ y \in Nat /\ x <= y /\ y <= t - c /\ y <= Len(cipher) /\ y \in 0..(t - c)
          /\ x \in 0..(t - c) /\ x < y
      BY <2>6, <3>1, <3>3, <3>4
    <3>6. parts[i] = Seg(cipher, x, y)
      BY <3>2, <3>4 DEF Seg
    <3>7. Seg(cipher, x, y) = Seg(C, c + x, c + y)
      <4>1. c <= t /\ t <= Len(C)
        BY <1>1
      <4>2. QED
        BY <1>1, <3>5, <4>1, SegOfSeg DEF cipher
    <3>8. Seg(cipher, x, y) \in Seq(Byte)
      BY <2>6, <3>5, SegFacts
    <3> HIDE DEF parts
    <3>9. QED
      BY <3>4, <3>5, <3>6, <3>7, <3>8
  <2>15. parts \in Seq(Seq(Byte)) /\ Len(parts) = n
    <3>1. \A i \in 1..n : SubSeq(cipher, starts[i] + 1, e[i]) \in Seq(Byte)
      BY <2>14
    <3> HIDE DEF starts
    <3>2. QED
      BY <2>9, <3>1
  <2>16. PICK d : d = c + w
    OBVIOUS
  <2>17. d \in c..t /\ d \in Nat /\ w \in Nat
    BY <2>12, <2>16
  <2>18. Pieces(s, "packets", parts, c, d)
    <3> DEFINE f == [i \in 0..n |-> c + Start(0, e, i + 1)]
    <3>1. \A i \in 0..n : Start(0, e, i + 1) \in Nat
      <4>1. ASSUME NEW i \in 0..n PROVE Start(0, e, i + 1) \in Nat
        <5>1. CASE i = 0
          BY <5>1 DEF Start
        <5>2. CASE i # 0
          <6>1. i \in 1..n /\ (i + 1) - 1 = i /\ i + 1 # 1
            BY <2>9, <5>2
          <6>2. e[i] \in Nat
            BY <2>14, <6>1
          <6>3. QED
            BY <6>1, <6>2 DEF Start
        <5>3. QED
          BY <5>1, <5>2
      <4>2. QED
        BY <4>1
    <3>2. f \in [0..n -> Nat] /\ \A i \in 0..n : f[i] = c + Start(0, e, i + 1)
      BY <3>1
    <3> HIDE DEF f
    <3>3. f[0] = c /\ f[n] = d
      <4>1. 0 \in 0..n /\ n \in 0..n /\ 0 + 1 = 1 /\ Start(0, e, 1) = 0 /\ c + 0 = c
        BY <2>9 DEF Start
      <4>2. QED
        BY <2>11, <2>16, <3>2, <4>1
    <3>4. ASSUME NEW i \in 1..n
          PROVE  /\ f[i - 1] <= f[i] /\ parts[i] = Seg(C, f[i - 1], f[i])
                 /\ Piece(s, f[i - 1], f[i])
      <4>1. /\ i - 1 \in 0..n /\ i \in 0..n /\ (i - 1) + 1 = i /\ (i + 1) - 1 = i /\ i + 1 # 1
        BY <2>9
      <4>2. f[i - 1] = c + Start(0, e, i) /\ f[i] = c + e[i]
        BY <3>2, <4>1 DEF Start
      <4>3. c + Start(0, e, i) <= c + e[i]
        BY <2>14
      <4> HIDE DEF parts
      <4>4. QED
        BY <2>13, <2>14, <4>2, <4>3
    <3> HIDE DEF parts
    <3>5. Cuts(s, "packets", parts, f)
      BY <2>15, <3>4 DEF Cuts, C
    <3>6. QED
      BY <2>15, <3>2, <3>3, <3>5 DEF Pieces
  <2>19. Aligned(s, d)
    <3>1. n + 1 \in 1..(n + 1)
      BY <2>9
    <3>2. QED
      BY <2>11, <2>13, <2>16, <3>1
  <2>20. /\ SubSeq(cipher, w + 1, Len(cipher)) = Seg(C, d, t)
         /\ SubSeq(plain, w + 1, Len(plain)) = Seg(s.bytes, d, t)
    <3>1. PICK z : z = w
      OBVIOUS
    <3>2. /\ z \in Nat /\ z <= t - c /\ t - c \in Nat /\ c + z = d /\ c + (t - c) = t
          /\ c <= t /\ t <= Len(C) /\ t - c <= t - c
      BY <1>1, <2>6, <2>12, <2>16, <2>17, <3>1
    <3>3. Seg(cipher, z, t - c) = Seg(C, c + z, c + (t - c))
      BY <1>1, <3>2, SegOfSeg DEF cipher
    <3>4. Seg(plain, z, t - c) = Seg(s.bytes, c + z, c + (t - c))
      BY <1>1, <3>2, SegOfSeg DEF plain
    <3> HIDE DEF starts, w
    <3>5. QED
      BY <2>6, <3>1, <3>2, <3>3, <3>4 DEF Seg
  <2>21. /\ Seg(C, d, t) \in Seq(Byte) /\ Seg(s.bytes, d, t) \in Seq(Byte)
         /\ Len(Seg(s.bytes, d, t)) = t - d
    <3>1. d <= t /\ t <= Len(C)
      BY <1>1, <2>17
    <3>2. QED
      BY <1>1, <2>17, <3>1, SegFacts
  <2>22. next_packet_len(s.proto, plain, w) = FirstLen(s.proto, Seg(s.bytes, d, t))
    <3>1. PICK z : z = w
      OBVIOUS
    <3> HIDE DEF starts, w
    <3>2. z \in 0..(t - c) /\ c <= t
      BY <2>12, <3>1
    <3>3. next_packet_len(s.proto, plain, z) = FirstLen(s.proto, Seg(s.bytes, c + z, t))
      BY <3>2, LenInStream DEF plain
    <3>4. QED
      BY <2>16, <3>1, <3>3
  <2>23. sp.dec + Len(chunk) = t
    BY <1>2, <2>1
  <2>24. CASE next_packet_len(s.proto, plain, w) = Unknown
    <3> HIDE DEF starts, w, parts
    <3>1. /\ res.s = [next EXCEPT !.cipher_buf = <<>>, !.plain_buf = <<>>, !.disabled = TRUE]
          /\ res.parts = Append(parts, Seg(C, d, t))
      BY <2>7, <2>20, <2>24
    <3>2. /\ res.s \in Splitters(s) /\ res.s.disabled /\ res.s.cipher_buf = <<>>
      <4>1. <<>> \in Seq(Byte) /\ sp.dec + Len(chunk) \in Nat
        BY <2>23
      <4>2. QED
        BY <3>1, <4>1 DEF Splitters
    <3>3. res.parts \in Seq(Seq(Byte))
      BY <2>15, <2>21, <3>1
    <3>4. ~More(s, d)
      <4>1. ASSUME More(s, d) PROVE FALSE
        <5>1. d <= t
          BY <2>17
        <5>2. PICK y \in 1..Len(s.bytes) :
                /\ Piece(s, d, y) /\ d < y
                /\ FirstLen(s.proto, Seg(s.bytes, d, t)) = IF y <= t THEN y - d ELSE NeedMore
          BY <2>17, <2>19, <4>1, <5>1, NextPacket
        <5>3. y \in Nat /\ y - d # 0
          BY <1>1, <2>17, <5>2
        <5>4. FirstLen(s.proto, Seg(s.bytes, d, t)) = 0
          BY <2>22, <2>24 DEF Unknown
        <5>5. QED
          BY <5>2, <5>3, <5>4 DEF NeedMore
      <4>2. QED
        BY <4>1
    <3>5. Piece(s, d, t)
      BY <3>4 DEF Piece
    <3>6. d <= t
      BY <2>17
    <3>7. ~More(s, t)
      BY <2>17, <3>4, <3>5, <3>6, PieceAligned
    <3>8. Pieces(s, "packets", res.parts, c, t)
      BY <2>15, <2>17, <2>18, <3>1, <3>5, <3>6, PiecesAppend DEF C
    <3>9. Waits(s, res.s, t, t)
      BY <3>2, <3>7 DEF Waits
    <3>10. t \in c..t
      OBVIOUS
    <3>11. QED
      BY <3>2, <3>3, <3>8, <3>9, <3>10
  <2>25. CASE next_packet_len(s.proto, plain, w) # Unknown
    <3> HIDE DEF starts, w, parts
    <3>1. /\ res.s = [next EXCEPT !.cipher_buf = Seg(C, d, t), !.plain_buf = Seg(s.bytes, d, t)]
          /\ res.parts = parts
      <4> HIDE DEF next
      <4>1. PICK u, v : /\ u = SubSeq(cipher, w + 1, Len(cipher))
                        /\ v = SubSeq(plain, w + 1, Len(plain))
        OBVIOUS
      <4>2. res = [s |-> [next EXCEPT !.cipher_buf = u, !.plain_buf = v], parts |-> parts]
        BY <2>7, <2>25, <4>1
      <4>3. res.s = [next EXCEPT !.cipher_buf = u, !.plain_buf = v] /\ res.parts = parts
        BY <4>2
      <4>4. QED
        BY <2>20, <4>1, <4>3
    <3>2. /\ res.s \in Splitters(s) /\ ~res.s.disabled /\ res.s.dec = t
          /\ res.s.cipher_buf = Seg(C, d, t) /\ res.s.plain_buf = Seg(s.bytes, d, t)
      <4>1. PICK u, v : u = Seg(C, d, t) /\ v = Seg(s.bytes, d, t)
        OBVIOUS
      <4>2. u \in Seq(Byte) /\ v \in Seq(Byte)
        BY <2>21, <4>1
      <4>3. res.s = [next EXCEPT !.cipher_buf = u, !.plain_buf = v]
        BY <3>1, <4>1
      <4>4. /\ res.s \in Splitters(s) /\ ~res.s.disabled /\ res.s.dec = t
            /\ res.s.cipher_buf = u /\ res.s.plain_buf = v
        BY <1>5, <2>23, <4>2, <4>3 DEF Splitters
      <4>5. QED
        BY <4>1, <4>4
    <3>3. FirstLen(s.proto, Seg(s.bytes, d, t)) = NeedMore
      BY <2>12, <2>22, <2>25
    <3>4. Waits(s, res.s, d, t)
      BY <2>19, <3>2, <3>3 DEF Waits, C
    <3>5. QED
      BY <2>15, <2>17, <2>18, <3>1, <3>2, <3>4
  <2>26. QED
    BY <2>24, <2>25
<1>6. QED
  BY <1>4, <1>5

-----------------------------------------------------------------------------
(* One read, whatever the bridge. *)

LEMMA SegOne ==
  ASSUME NEW S, NEW q \in Seq(S), NEW a \in Nat, NEW b \in Nat, b = a + 1, b <= Len(q)
  PROVE  Seg(q, a, b) = <<q[b]>>
<1> DEFINE p == Seg(q, a, b)
           u == <<q[b]>>
<1>1. a <= b /\ b - a = 1 /\ 1 \in 1..1 /\ a + 1 = b /\ b \in 1..Len(q)
  OBVIOUS
<1>2. p \in Seq(S) /\ Len(p) = 1 /\ p[1] = q[b]
  <2>1. /\ p \in Seq(S) /\ Len(p) = b - a
        /\ \A i \in 1..(b - a) : p[i] = q[a + i]
    BY <1>1, SegFacts
  <2> HIDE DEF p
  <2>2. QED
    BY <1>1, <2>1
<1>3. u \in Seq(S) /\ Len(u) = 1 /\ u[1] = q[b]
  <2>1. q[b] \in S
    BY <1>1
  <2>2. QED
    BY <2>1
<1> HIDE DEF p, u
<1>4. \A i \in 1..Len(p) : p[i] = u[i]
  <2>1. \A i \in 1..1 : i = 1
    OBVIOUS
  <2>2. QED
    BY <1>2, <1>3, <2>1
<1>5. p = u
  BY <1>2, <1>3, <1>4, SeqEqual
<1>6. QED
  BY <1>5 DEF p, u

Left(s, k, sp, c, r) == IF k = "packets" THEN Waits(s, sp, c, r) ELSE c = r

(* Whichever way a bridge cuts what it has read, the parts continue the    *)
(* encrypted stream where the last ones ended.                             *)
LEMMA CutStep ==
  ASSUME TypeOK, NEW c \in Nat, NEW t \in Nat, c <= rpos, rpos < t,
         t <= Len(stream.bytes), Left(stream, kind, splitter, c, rpos),
         NEW res, res = Cut(Seg(Cipher(stream), rpos, t))
  PROVE  /\ res.s \in Splitters(stream) /\ res.parts \in Seq(Seq(Byte))
         /\ \E d \in c..t : /\ Pieces(stream, kind, res.parts, c, d)
                            /\ Left(stream, kind, res.s, d, t)
<1> DEFINE C == Cipher(stream)
           chunk == Seg(C, rpos, t)
<1>1. stream \in Streams /\ splitter \in Splitters(stream) /\ rpos \in 0..Len(stream.bytes)
  BY DEF TypeOK, Splitters
<1>2. /\ stream.bytes \in Seq(Byte) /\ Len(stream.bytes) \in Nat /\ C \in Seq(Byte)
      /\ Len(C) = Len(stream.bytes)
  BY <1>1, StreamFacts
<1>3. rpos \in Nat /\ rpos <= t /\ t \in c..t /\ c <= t
  BY <1>1, <1>2
<1> HIDE DEF C
<1>4. /\ chunk \in Seq(Byte) /\ Len(chunk) = t - rpos
      /\ \A i \in 1..(t - rpos) : chunk[i] = C[rpos + i]
  BY <1>2, <1>3, SegFacts
<1> HIDE DEF chunk
<1>5. res = Cut(chunk)
  BY DEF chunk, C
<1>6. CASE kind = "packets"
  <2>1. res = Split(splitter, chunk) /\ Waits(stream, splitter, c, rpos)
    BY <1>5, <1>6 DEF Cut, Left
  <2>2. /\ res.s \in Splitters(stream) /\ res.parts \in Seq(Seq(Byte))
        /\ \E d \in c..t : /\ Pieces(stream, "packets", res.parts, c, d)
                           /\ Waits(stream, res.s, d, t)
    BY <1>1, <1>3, <2>1, SplitStep DEF chunk, C
  <2>3. QED
    BY <1>6, <2>2 DEF Left
<1>7. CASE kind = "tunnel"
  <2>1. res = [s |-> splitter, parts |-> <<chunk>>] /\ c = rpos
    BY <1>5, <1>7 DEF Cut, Left
  <2>2. res.s = splitter /\ res.parts = <<chunk>> /\ <<chunk>> = Append(<<>>, chunk)
    BY <2>1
  <2>3. Pieces(stream, kind, <<>>, c, c)
    BY PiecesNone
  <2>4. <<>> \in Seq(Seq(Byte)) /\ (kind = "packets" => Piece(stream, c, t))
    BY <1>7
  <2>5. Pieces(stream, kind, Append(<<>>, Seg(Cipher(stream), c, t)), c, t)
    BY <1>3, <2>3, <2>4, PiecesAppend
  <2>6. Pieces(stream, kind, res.parts, c, t)
    BY <2>1, <2>2, <2>5 DEF chunk, C
  <2>7. res.parts \in Seq(Seq(Byte))
    BY <1>4, <2>2
  <2>8. QED
    BY <1>1, <1>3, <1>7, <2>2, <2>6, <2>7 DEF Left
<1>8. CASE kind # "packets" /\ kind # "tunnel"
  <2> DEFINE q == [i \in 1..Len(chunk) |-> <<chunk[i]>>]
             n == t - rpos
             f == [i \in 0..n |-> rpos + i]
  <2>1. res = [s |-> splitter, parts |-> q] /\ c = rpos
    BY <1>5, <1>8 DEF Cut, Left
  <2>2. res.s = splitter /\ res.parts = q
    BY <2>1
  <2>3. n \in Nat /\ Len(chunk) = n
    BY <1>3, <1>4
  <2>4. ASSUME NEW i \in 1..n
        PROVE  <<chunk[i]>> \in Seq(Byte) /\ <<chunk[i]>> = Seg(C, rpos + (i - 1), rpos + i)
    <3>1. PICK a, b : a = rpos + (i - 1) /\ b = rpos + i
      OBVIOUS
    <3>2. a \in Nat /\ b \in Nat /\ b = a + 1 /\ b <= Len(C)
      BY <1>2, <1>3, <3>1
    <3>3. Seg(C, a, b) = <<C[b]>>
      BY <1>2, <3>2, SegOne
    <3>4. chunk[i] = C[b] /\ chunk[i] \in Byte
      BY <1>4, <2>3, <3>1
    <3>5. QED
      BY <3>1, <3>3, <3>4
  <2>5. q \in Seq(Seq(Byte)) /\ Len(q) = n /\ \A i \in 1..n : q[i] = <<chunk[i]>>
    <3> DEFINE one(i) == <<chunk[i]>>
    <3>1. q = [i \in 1..n |-> one(i)] /\ \A i \in 1..n : one(i) \in Seq(Byte)
      BY <2>3, <2>4
    <3> HIDE DEF one, q, n
    <3>2. q \in Seq(Seq(Byte)) /\ Len(q) = n /\ \A i \in 1..n : q[i] = one(i)
      BY <2>3, <3>1
    <3>3. QED
      BY <3>2 DEF one
  <2>6. /\ f \in [0..n -> Nat] /\ f[0] = c /\ f[n] = t
        /\ \A i \in 0..n : f[i] = rpos + i
    <3>1. \A i \in 0..n : rpos + i \in Nat
      BY <1>3, <2>3
    <3>2. 0 \in 0..n /\ n \in 0..n /\ rpos + 0 = c /\ rpos + n = t
      BY <1>3, <2>1, <2>3
    <3> HIDE DEF n
    <3>3. QED
      BY <3>1, <3>2
  <2> HIDE DEF q, f
  <2>7. ASSUME NEW i \in 1..n
        PROVE  f[i - 1] <= f[i] /\ q[i] = Seg(C, f[i - 1], f[i])
    <3>1. i - 1 \in 0..n /\ i \in 0..n
      BY <2>3
    <3>2. f[i - 1] = rpos + (i - 1) /\ f[i] = rpos + i
      BY <2>6, <3>1
    <3>3. rpos + (i - 1) <= rpos + i
      BY <1>3
    <3>4. QED
      BY <2>4, <2>5, <3>2, <3>3
  <2> HIDE DEF n
  <2>8. Cuts(stream, kind, q, f)
    BY <1>8, <2>5, <2>7 DEF Cuts, C
  <2>9. Pieces(stream, kind, q, c, t)
    BY <2>5, <2>6, <2>8 DEF Pieces
  <2>10. QED
    BY <1>1, <1>3, <1>8, <2>2, <2>5, <2>9 DEF Left
<1>9. QED
  BY <1>6, <1>7, <1>8

-----------------------------------------------------------------------------
(* The invariant. *)

(* What is on the wire, what is cut and what is left over are adjacent     *)
(* pieces of the encrypted stream.                                         *)
Adjacent ==
  /\ Len(wire) <= rpos /\ wire = Seg(Cipher(stream), 0, Len(wire))
  /\ up.pc \in {"read", "send"} =>
       \E c \in 0..rpos : /\ Pieces(stream, kind, up.parts, Len(wire), c)
                          /\ Left(stream, kind, splitter, c, rpos)
  /\ up.pc = "read" => up.parts = <<>>
  /\ up.pc = "flush" =>
       up.parts = <<>> \/ up.parts = <<Seg(Cipher(stream), Len(wire), rpos)>>

(* What is counted has been sent, but for the beginning of a packet.       *)
UpCounted ==
  /\ rpos = counters.up + up.n
  /\ up.pc \in {"read", "flush"} => up.n = 0
  /\ kind # "packets" => counters.up <= Len(wire)
  /\ \A k \in 1..Len(stream.ends) :
       stream.ends[k] <= counters.up => stream.ends[k] <= Len(wire)

DownCounted ==
  /\ down.i = 1 => down.written = 0
  /\ down.pc = "read" => down.written = counters.down
  /\ down.pc = "write" =>
       /\ down.i > 1 /\ down.todo <= Messages[down.i - 1]
       /\ down.written = counters.down + Messages[down.i - 1] - down.todo
  /\ counters.down <= down.written
  /\ down.i > 1 => down.written <= counters.down + Messages[down.i - 1]

(* Totals are logged when neither task will count any more.                *)
Joined ==
  /\ session.pc = "abort_down" => up.pc = "done"
  /\ session.pc = "abort_up" => down.pc = "done"
  /\ session.pc = "over" =>
       Finished(up.pc) /\ Finished(down.pc) /\ session.logged = counters

Inv == TypeOK /\ Adjacent /\ UpCounted /\ DownCounted /\ Joined

LEMMA StateFacts ==
  ASSUME TypeOK
  PROVE  /\ stream \in Streams /\ rpos \in Nat /\ rpos <= Len(stream.bytes)
         /\ Len(stream.bytes) \in Nat /\ stream.bytes \in Seq(Byte)
         /\ Cipher(stream) \in Seq(Byte) /\ Len(Cipher(stream)) = Len(stream.bytes)
         /\ wire \in Seq(Byte) /\ Len(wire) \in Nat
         /\ up.parts \in Seq(Seq(Byte)) /\ up.n \in Nat
         /\ counters.up \in Nat /\ counters.down \in Nat
         /\ \A k \in 1..Len(stream.ends) : stream.ends[k] \in Nat
<1>1. stream \in Streams /\ rpos \in 0..Len(stream.bytes)
  BY DEF TypeOK
<1>2. /\ Len(stream.bytes) \in Nat /\ stream.bytes \in Seq(Byte)
      /\ Cipher(stream) \in Seq(Byte) /\ Len(Cipher(stream)) = Len(stream.bytes)
      /\ \A k \in 1..Len(stream.ends) : stream.ends[k] \in Nat
  BY <1>1, StreamFacts
<1>3. up.parts \in Seq(Seq(Byte)) /\ up.n \in Nat
  BY BridgeAssumption DEF TypeOK
<1>4. wire \in Seq(Byte) /\ counters.up \in Nat /\ counters.down \in Nat
  BY DEF TypeOK
<1>5. QED
  BY <1>1, <1>2, <1>3, <1>4

(* The wire grows by the piece that is next.                               *)
LEMMA WireGrows ==
  ASSUME TypeOK, Adjacent, NEW m \in Nat, Len(wire) <= m, m <= rpos
  PROVE  /\ wire \o Seg(Cipher(stream), Len(wire), m) = Seg(Cipher(stream), 0, m)
         /\ Len(Seg(Cipher(stream), 0, m)) = m /\ Seg(Cipher(stream), 0, m) \in Seq(Byte)
<1> DEFINE C == Cipher(stream)
           w == Len(wire)
<1>1. /\ C \in Seq(Byte) /\ w \in Nat /\ m <= Len(C) /\ wire = Seg(C, 0, w)
      /\ 0 \in Nat /\ 0 <= w /\ 0 <= m /\ m - 0 = m
  BY StateFacts DEF Adjacent
<1> HIDE DEF C, w
<1>2. Seg(C, 0, w) \o Seg(C, w, m) = Seg(C, 0, m)
  <2>1. w <= m
    BY DEF w
  <2>2. QED
    BY <1>1, <2>1, SegConcat
<1>3. Seg(C, 0, m) \in Seq(Byte) /\ Len(Seg(C, 0, m)) = m
  BY <1>1, SegFacts
<1>4. QED
  BY <1>1, <1>2, <1>3 DEF C, w

(* What a read makes of the rest of the last one.                          *)
LEMMA ReadCuts ==
  ASSUME TypeOK, Adjacent, NEW n \in 1..ReadBuf, UpRead(n)
  PROVE  /\ rpos' = rpos + n /\ rpos' \in 0..Len(stream.bytes)
         /\ up' = [pc |-> "send", parts |-> up'.parts, n |-> n]
         /\ splitter' \in Splitters(stream) /\ up'.parts \in Seq(Seq(Byte))
         /\ \E c \in 0..rpos' : /\ Pieces(stream, kind, up'.parts, Len(wire), c)
                                /\ Left(stream, kind, splitter', c, rpos')
<1>1. n \in Nat /\ n > 0 /\ ReadBuf \in Nat
  BY BridgeAssumption
<1>2. PICK t : t = rpos + n
  OBVIOUS
<1>3. /\ t \in Nat /\ rpos \in Nat /\ rpos < t /\ rpos <= t /\ t <= Len(stream.bytes)
      /\ t \in 0..Len(stream.bytes)
  BY <1>1, <1>2, StateFacts DEF UpRead
<1>4. PICK c \in 0..rpos : /\ Pieces(stream, kind, up.parts, Len(wire), c)
                           /\ Left(stream, kind, splitter, c, rpos)
  BY DEF UpRead, Adjacent
<1>5. up.parts = <<>>
  BY DEF UpRead, Adjacent
<1>6. c = Len(wire) /\ c \in Nat /\ c <= rpos
  <2>1. c \in Nat /\ Len(wire) \in Nat /\ c <= rpos
    BY <1>3, StateFacts
  <2>2. QED
    BY <1>4, <1>5, <2>1, PiecesNone
<1>7. PICK res : res = Cut(Encrypted(SubSeq(stream.bytes, rpos + 1, rpos + n), rpos))
  OBVIOUS
<1>8. /\ splitter' = res.s /\ up' = [pc |-> "send", parts |-> res.parts, n |-> n]
      /\ rpos' = t
  BY <1>2, <1>7 DEF UpRead
<1>9. res = Cut(Seg(Cipher(stream), rpos, t))
  <2>1. Encrypted(Seg(stream.bytes, rpos, t), rpos) = Seg(Cipher(stream), rpos, t)
    BY <1>3, StateFacts, ChunkEncrypted
  <2>2. QED
    BY <1>2, <1>7, <2>1 DEF Seg
<1>10. /\ res.s \in Splitters(stream) /\ res.parts \in Seq(Seq(Byte))
       /\ \E d \in c..t : /\ Pieces(stream, kind, res.parts, c, d)
                          /\ Left(stream, kind, res.s, d, t)
  BY <1>3, <1>4, <1>6, <1>9, CutStep
<1>11. PICK d \in c..t : /\ Pieces(stream, kind, res.parts, c, d)
                         /\ Left(stream, kind, res.s, d, t)
  BY <1>10
<1>12. d \in 0..t /\ up'.parts = res.parts
  BY <1>3, <1>6, <1>8
<1>13. QED
  BY <1>2, <1>3, <1>6, <1>8, <1>10, <1>11, <1>12

LEMMA TypeInit == Init => TypeOK
<1> SUFFICES ASSUME Init PROVE TypeOK
  OBVIOUS
<1>1. stream \in Streams /\ Len(stream.bytes) \in Nat /\ 0 \in 0..Len(stream.bytes)
  BY StreamFacts DEF Init
<1>2. splitter \in [proto : {stream.proto}, dec : Nat, cipher_buf : Seq(Byte),
                    plain_buf : Seq(Byte), disabled : BOOLEAN]
  BY DEF Init, NewSplitter
<1>3. up \in [pc : {"read", "send", "flush", "done", "aborted"},
              parts : Seq(Seq(Byte)), n : 0..ReadBuf]
  BY BridgeAssumption DEF Init
<1>4. down \in [pc : {"read", "write", "done", "aborted"},
                i : 1..(Len(Messages) + 1), todo : Nat, written : Nat]
  BY BridgeAssumption DEF Init
<1>5. wire \in Seq(Byte) /\ rpos \in 0..Len(stream.bytes)
  BY <1>1 DEF Init
<1>6. counters \in [up : Nat, down : Nat] /\ session \in
        [pc : {"init", "failed", "run", "abort_up", "abort_down", "over"},
         closed_by : {"none", "client", "upstream"}, logged : [up : Nat, down : Nat]]
  BY DEF Init
<1>7. kind \in Kinds /\ {client, remote} \subseteq {"reads", "stalled", "gone"}
  BY DEF Init
<1>8. QED
  BY <1>1, <1>2, <1>3, <1>4, <1>5, <1>6, <1>7 DEF TypeOK

UpTasks ==
  [pc : {"read", "send", "flush", "done", "aborted"}, parts : Seq(Seq(Byte)),
   n : 0..ReadBuf]
DownTasks ==
  [pc : {"read", "write", "done", "aborted"}, i : 1..(Len(Messages) + 1),
   todo : Nat, written : Nat]
Sessions ==
  [pc : {"init", "failed", "run", "abort_up", "abort_down", "over"},
   closed_by : {"none", "client", "upstream"}, logged : [up : Nat, down : Nat]]

LEMMA UpTaskStep ==
  ASSUME NEW u \in UpTasks
  PROVE  /\ u.parts \in Seq(Seq(Byte)) /\ u.n \in 0..ReadBuf
         /\ \A p \in {"read", "send", "flush", "done", "aborted"} :
              /\ [u EXCEPT !.pc = p] \in UpTasks
              /\ \A q \in Seq(Seq(Byte)) : [u EXCEPT !.pc = p, !.parts = q] \in UpTasks
         /\ \A q \in Seq(Seq(Byte)) : [u EXCEPT !.parts = q] \in UpTasks
         /\ [u EXCEPT !.pc = "read", !.n = 0] \in UpTasks
<1>1. 0 \in 0..ReadBuf
  BY BridgeAssumption
<1>2. QED
  BY <1>1 DEF UpTasks

LEMMA DownFacts ==
  ASSUME NEW d \in DownTasks
  PROVE  /\ d.i \in 1..(Len(Messages) + 1) /\ d.i \in Nat /\ d.todo \in Nat
         /\ d.written \in Nat
         /\ Messages \in Seq(Nat \ {0}) /\ Len(Messages) \in Nat
         /\ \A k \in 1..Len(Messages) : Messages[k] \in Nat
         /\ d.i > 1 => d.i - 1 \in 1..Len(Messages)
<1>1. /\ Messages \in Seq(Nat \ {0}) /\ Len(Messages) \in Nat
      /\ \A k \in 1..Len(Messages) : Messages[k] \in Nat
  BY BridgeAssumption
<1>2. d.i \in 1..(Len(Messages) + 1) /\ d.todo \in Nat /\ d.written \in Nat
  BY DEF DownTasks
<1>3. \A x \in 1..(Len(Messages) + 1) : x \in Nat /\ (x > 1 => x - 1 \in 1..Len(Messages))
  BY <1>1
<1>4. QED
  BY <1>1, <1>2, <1>3

LEMMA TypeStep ==
  ASSUME TypeOK, Adjacent, DownCounted, [Next]_vars
  PROVE  TypeOK'
<1> USE DEF upload, peers
<1>1. /\ kind \in Kinds /\ stream \in Streams /\ rpos \in 0..Len(stream.bytes)
      /\ splitter \in Splitters(stream) /\ up \in UpTasks /\ wire \in Seq(Byte)
      /\ down \in DownTasks /\ counters \in [up : Nat, down : Nat]
      /\ session \in Sessions /\ client \in {"reads", "stalled", "gone"}
      /\ remote \in {"reads", "stalled", "gone"}
  BY DEF TypeOK, Splitters, UpTasks, DownTasks, Sessions
<1>2. SUFFICES
        /\ kind' \in Kinds /\ stream' \in Streams /\ rpos' \in 0..Len(stream'.bytes)
        /\ splitter' \in Splitters(stream') /\ up' \in UpTasks /\ wire' \in Seq(Byte)
        /\ down' \in DownTasks /\ counters' \in [up : Nat, down : Nat]
        /\ session' \in Sessions /\ client' \in {"reads", "stalled", "gone"}
        /\ remote' \in {"reads", "stalled", "gone"}
  BY DEF TypeOK, Splitters, UpTasks, DownTasks, Sessions
<1>3. ASSUME NEW n \in 1..ReadBuf, UpRead(n) PROVE <1>2!1
  <2>1. /\ rpos' \in 0..Len(stream.bytes) /\ splitter' \in Splitters(stream)
        /\ up' = [pc |-> "send", parts |-> up'.parts, n |-> n]
        /\ up'.parts \in Seq(Seq(Byte))
    BY <1>3, ReadCuts
  <2>2. UNCHANGED <<kind, stream, wire, down, counters, session, peers>>
    BY <1>3 DEF UpRead
  <2>3. n \in 0..ReadBuf
    BY <1>3, BridgeAssumption
  <2>4. up' \in UpTasks
    <3>1. PICK q : q = up'.parts
      OBVIOUS
    <3>2. QED
      BY <2>1, <2>3, <3>1 DEF UpTasks
  <2>5. QED
    BY <1>1, <2>1, <2>2, <2>4
<1>4. ASSUME up.parts # <<>> PROVE /\ Tail(up.parts) \in Seq(Seq(Byte))
                                   /\ wire \o Head(up.parts) \in Seq(Byte)
  <2>1. up.parts \in Seq(Seq(Byte))
    BY <1>1, UpTaskStep
  <2>2. Head(up.parts) \in Seq(Byte) /\ Tail(up.parts) \in Seq(Seq(Byte))
    BY <1>4, <2>1
  <2>3. QED
    BY <1>1, <2>2
<1>5. CASE UpSend
  <2>1. up' \in UpTasks /\ wire' \in Seq(Byte)
    BY <1>1, <1>4, <1>5, UpTaskStep DEF UpSend
  <2>2. QED
    BY <1>1, <1>5, <2>1 DEF UpSend
<1>6. CASE UpSendFail
  <2>1. <<>> \in Seq(Seq(Byte))
    OBVIOUS
  <2>2. up' \in UpTasks
    BY <1>1, <1>6, <2>1, UpTaskStep DEF UpSendFail
  <2>3. QED
    BY <1>1, <1>6, <2>2 DEF UpSendFail
<1>7. CASE UpCount
  <2>1. up' \in UpTasks
    BY <1>1, <1>7, UpTaskStep DEF UpCount
  <2>2. counters' \in [up : Nat, down : Nat]
    BY <1>1, <1>7, StateFacts DEF UpCount
  <2>3. QED
    BY <1>1, <1>7, <2>1, <2>2 DEF UpCount
<1>8. CASE UpEof
  <2>1. CASE kind = "packets"
    <3>1. splitter.cipher_buf \in Seq(Byte)
      BY <1>1 DEF Splitters
    <3>2. PICK q : q = Flush(splitter).parts
      OBVIOUS
    <3>3. q \in Seq(Seq(Byte))
      BY <3>1, <3>2 DEF Flush
    <3>4. up' = [up EXCEPT !.pc = "flush", !.parts = q]
      BY <1>8, <2>1, <3>2 DEF UpEof
    <3>5. up' \in UpTasks
      BY <1>1, <3>3, <3>4, UpTaskStep
    <3>6. splitter' = [splitter EXCEPT !.cipher_buf = <<>>, !.plain_buf = <<>>]
      BY <1>8, <2>1 DEF UpEof, Flush
    <3>7. splitter' \in Splitters(stream)
      <4>1. PICK e : e = <<>> /\ e \in Seq(Byte)
        <5>1. <<>> \in Seq(Byte)
          OBVIOUS
        <5>2. QED
          BY <5>1
      <4>2. splitter' = [splitter EXCEPT !.cipher_buf = e, !.plain_buf = e]
        BY <3>6, <4>1
      <4>3. QED
        BY ONLY <1>1, <4>1, <4>2 DEF Splitters
    <3>8. QED
      BY <1>1, <1>8, <3>5, <3>7 DEF UpEof
  <2>2. CASE kind # "packets"
    <3>1. up' \in UpTasks
      BY <1>1, <1>8, <2>2, UpTaskStep DEF UpEof
    <3>2. QED
      BY <1>1, <1>8, <2>2, <3>1 DEF UpEof
  <2>3. QED
    BY <2>1, <2>2
<1>9. CASE UpFlush
  <2>1. up' \in UpTasks
    BY <1>1, <1>4, <1>9, UpTaskStep DEF UpFlush
  <2>2. wire' \in Seq(Byte)
    BY <1>1, <1>4, <1>9 DEF UpFlush
  <2>3. QED
    BY <1>1, <1>9, <2>1, <2>2 DEF UpFlush
<1>10. CASE UpClose
  <2>1. up' \in UpTasks
    BY <1>1, <1>10, UpTaskStep DEF UpClose
  <2>2. QED
    BY <1>1, <1>10, <2>1 DEF UpClose
<1>11. CASE DownRead
  <2>1. PICK j : j = down.i
    OBVIOUS
  <2>2. j \in 1..Len(Messages) /\ j + 1 \in 1..(Len(Messages) + 1)
    <3>1. j \in 1..(Len(Messages) + 1) /\ Len(Messages) \in Nat /\ j <= Len(Messages)
      BY <1>1, <1>11, <2>1, DownFacts DEF DownRead
    <3>2. QED
      BY <3>1
  <2>3. Messages[j] \in Nat
    BY <1>1, <2>2, DownFacts
  <2>4. down' = [down EXCEPT !.pc = "write", !.todo = Messages[j], !.i = j + 1]
    BY <1>11, <2>1 DEF DownRead
  <2>5. down' \in DownTasks
    BY <1>1, <2>2, <2>3, <2>4 DEF DownTasks
  <2>6. QED
    BY <1>1, <1>11, <2>5 DEF DownRead
<1>12. CASE DownEof \/ DownWriteFail
  <2>1. down' \in DownTasks
    BY <1>1, <1>12 DEF DownEof, DownWriteFail, DownTasks
  <2>2. QED
    BY <1>1, <1>12, <2>1 DEF DownEof, DownWriteFail
<1>13. CASE DownWrite
  <2>1. PICK x, y : x = down.todo - 1 /\ y = down.written + 1
    OBVIOUS
  <2>2. x \in Nat /\ y \in Nat
    <3>1. down.todo \in Nat /\ down.written \in Nat /\ down.todo > 0
      BY <1>1, <1>13, DownFacts DEF DownWrite
    <3>2. QED
      BY <2>1, <3>1
  <2>3. down' = [down EXCEPT !.todo = x, !.written = y]
    BY <1>13, <2>1 DEF DownWrite
  <2>4. down' \in DownTasks
    BY <1>1, <2>2, <2>3 DEF DownTasks
  <2>5. QED
    BY <1>1, <1>13, <2>4 DEF DownWrite
<1>14. CASE DownCount
  <2>1. down.i > 1
    BY <1>14 DEF DownCount, DownCounted
  <2>2. Messages[down.i - 1] \in Nat
    BY <1>1, <2>1, DownFacts
  <2>3. counters' \in [up : Nat, down : Nat]
    BY <1>1, <1>14, <2>2 DEF DownCount
  <2>4. down' \in DownTasks
    BY <1>1, <1>14 DEF DownCount, DownTasks
  <2>5. QED
    BY <1>1, <1>14, <2>3, <2>4 DEF DownCount
<1>15. CASE Begin \/ BeginFails \/ JoinUpload \/ JoinDownload \/ Log
  <2>1. session' \in Sessions
    BY <1>1, <1>15 DEF Begin, BeginFails, JoinUpload, JoinDownload, Log, Sessions
  <2>2. QED
    BY <1>1, <1>15, <2>1 DEF Begin, BeginFails, JoinUpload, JoinDownload, Log
<1>16. CASE CancelUp
  <2>1. up' \in UpTasks
    BY <1>1, <1>16, UpTaskStep DEF CancelUp
  <2>2. QED
    BY <1>1, <1>16, <2>1 DEF CancelUp
<1>17. CASE CancelDown
  <2>1. down' \in DownTasks
    BY <1>1, <1>17 DEF CancelDown, DownTasks
  <2>2. QED
    BY <1>1, <1>17, <2>1 DEF CancelDown
<1>18. CASE ClientStep \/ RemoteStep
  BY <1>1, <1>18 DEF ClientStep, RemoteStep
<1>19. CASE UNCHANGED vars
  BY <1>1, <1>19 DEF vars
<1>20. QED
  BY <1>3, <1>5, <1>6, <1>7, <1>8, <1>9, <1>10, <1>11, <1>12, <1>13, <1>14, <1>15, <1>16,
     <1>17, <1>18, <1>19 DEF Next, UploadRuns, DownloadRuns, Session

-----------------------------------------------------------------------------
(* The steps of the upload. *)

(* A part goes out: it is the next piece of the stream, and a packet where *)
(* the bridge sends packets.                                               *)
LEMMA SendStep ==
  ASSUME TypeOK, Adjacent, UpSend
  PROVE  \E m \in Len(wire)..rpos :
           /\ wire' = Seg(Cipher(stream), 0, m) /\ Len(wire') = m
           /\ kind = "packets" => Piece(stream, Len(wire), m)
           /\ \E c \in 0..rpos : /\ Pieces(stream, kind, Tail(up.parts), m, c)
                                 /\ Left(stream, kind, splitter, c, rpos)
<1>1. PICK c \in 0..rpos : /\ Pieces(stream, kind, up.parts, Len(wire), c)
                           /\ Left(stream, kind, splitter, c, rpos)
  BY DEF UpSend, Adjacent
<1>2. c \in Nat /\ c <= rpos /\ rpos \in Nat /\ Len(wire) \in Nat
  BY StateFacts
<1>3. up.parts \in Seq(Seq(Byte)) /\ up.parts # <<>>
  BY StateFacts DEF UpSend
<1>4. PICK m \in Len(wire)..c :
        /\ Head(up.parts) = Seg(Cipher(stream), Len(wire), m)
        /\ kind = "packets" => Piece(stream, Len(wire), m)
        /\ Pieces(stream, kind, Tail(up.parts), m, c)
  BY <1>1, <1>2, <1>3, PiecesFirst
<1>5. m \in Nat /\ Len(wire) <= m /\ m <= rpos /\ m \in Len(wire)..rpos
  BY <1>2, <1>4
<1>6. wire' = wire \o Seg(Cipher(stream), Len(wire), m)
  BY <1>4 DEF UpSend
<1>7. wire' = Seg(Cipher(stream), 0, m) /\ Len(wire') = m
  BY <1>5, <1>6, WireGrows
<1>8. QED
  BY <1>1, <1>4, <1>5, <1>7

(* The beginning of a packet goes out when the client has closed.          *)
LEMMA FlushStep ==
  ASSUME TypeOK, Adjacent, UpFlush
  PROVE  /\ Len(wire') >= Len(wire) /\ Len(wire') <= rpos /\ Len(wire') \in Nat
         /\ wire' = Seg(Cipher(stream), 0, Len(wire')) /\ Tail(up.parts) = <<>>
<1>1. /\ rpos \in Nat /\ Len(wire) \in Nat /\ Len(wire) <= rpos
      /\ wire = Seg(Cipher(stream), 0, Len(wire))
  BY StateFacts DEF Adjacent
<1>2. up.parts = <<Seg(Cipher(stream), Len(wire), rpos)>>
  BY DEF UpFlush, Adjacent
<1>3. PICK p : p = Seg(Cipher(stream), Len(wire), rpos)
  OBVIOUS
<1>4. Head(up.parts) = p /\ Tail(up.parts) = <<>>
  BY <1>2, <1>3
<1>5. wire' = wire \o p \/ wire' = wire
  BY <1>4 DEF UpFlush
<1>6. CASE wire' = wire \o p
  <2>1. wire' = Seg(Cipher(stream), 0, rpos) /\ Len(wire') = rpos
    <3>1. rpos <= rpos
      BY <1>1
    <3>2. QED
      BY <1>1, <1>3, <1>6, <3>1, WireGrows
  <2>2. QED
    BY <1>1, <1>4, <2>1
<1>7. CASE wire' = wire
  BY <1>1, <1>4, <1>7
<1>8. QED
  BY <1>5, <1>6, <1>7

LEMMA AdjacentStep ==
  ASSUME TypeOK, Adjacent, [Next]_vars
  PROVE  Adjacent'
<1> USE DEF upload, peers
<1>1. up \in UpTasks
  BY DEF TypeOK, UpTasks
<1>2. /\ rpos \in Nat /\ Len(wire) \in Nat /\ Len(wire) <= rpos
      /\ wire = Seg(Cipher(stream), 0, Len(wire))
  BY StateFacts DEF Adjacent
<1>3. ASSUME NEW n \in 1..ReadBuf, UpRead(n) PROVE Adjacent'
  <2>1. /\ rpos' = rpos + n /\ rpos' \in 0..Len(stream.bytes)
        /\ up' = [pc |-> "send", parts |-> up'.parts, n |-> n]
        /\ \E c \in 0..rpos' : /\ Pieces(stream, kind, up'.parts, Len(wire), c)
                               /\ Left(stream, kind, splitter', c, rpos')
    BY <1>3, ReadCuts
  <2>2. wire' = wire /\ stream' = stream /\ kind' = kind
    BY <1>3 DEF UpRead
  <2>3. n \in Nat
    BY BridgeAssumption
  <2>4. Len(wire') <= rpos' /\ up'.pc = "send"
    BY <1>2, <2>1, <2>2, <2>3
  <2>5. QED
    BY <1>2, <2>1, <2>2, <2>4 DEF Adjacent
<1>4. CASE UpSend
  <2>1. PICK m \in Len(wire)..rpos :
          /\ wire' = Seg(Cipher(stream), 0, m) /\ Len(wire') = m
          /\ \E c \in 0..rpos : /\ Pieces(stream, kind, Tail(up.parts), m, c)
                                /\ Left(stream, kind, splitter, c, rpos)
    BY <1>4, SendStep
  <2>2. /\ up'.pc = "send" /\ up'.parts = Tail(up.parts)
        /\ UNCHANGED <<kind, stream, rpos, splitter>>
    BY <1>1, <1>4 DEF UpSend, UpTasks
  <2>3. Len(wire') <= rpos
    BY <1>2, <2>1
  <2>4. QED
    BY <2>1, <2>2, <2>3 DEF Adjacent
<1>5. CASE UpSendFail
  <2>1. up'.pc = "done" /\ UNCHANGED <<kind, stream, rpos, wire>>
    BY <1>1, <1>5 DEF UpSendFail, UpTasks
  <2>2. QED
    BY <1>2, <2>1 DEF Adjacent
<1>6. CASE UpCount
  <2>1. /\ up.pc = "send" /\ up'.pc = "read" /\ up'.parts = up.parts /\ up.parts = <<>>
        /\ UNCHANGED <<kind, stream, rpos, splitter, wire>>
    BY <1>1, <1>6 DEF UpCount, UpTasks
  <2>2. QED
    BY <2>1 DEF Adjacent
<1>7. CASE UpEof
  <2>1. UNCHANGED <<kind, stream, rpos, wire>> /\ up.pc = "read" /\ up.parts = <<>>
    BY <1>7 DEF UpEof, Adjacent
  <2>2. CASE kind = "packets"
    <3>1. PICK q : q = Flush(splitter).parts
      OBVIOUS
    <3>2. up' = [up EXCEPT !.pc = "flush", !.parts = q]
      BY <1>7, <2>2, <3>1 DEF UpEof
    <3>3. up'.pc = "flush" /\ up'.parts = q
      BY <1>1, <3>2 DEF UpTasks
    <3>4. q = <<>> \/ q = <<Seg(Cipher(stream), Len(wire), rpos)>>
      <4>1. PICK c \in 0..rpos : /\ Pieces(stream, kind, <<>>, Len(wire), c)
                                 /\ Left(stream, kind, splitter, c, rpos)
        BY <2>1 DEF Adjacent
      <4>2. c \in Nat
        BY <1>2
      <4>3. c = Len(wire)
        BY <1>2, <4>1, <4>2, PiecesNone
      <4>4. Waits(stream, splitter, c, rpos)
        BY <2>2, <4>1 DEF Left
      <4>5. splitter.cipher_buf = <<>> \/ splitter.cipher_buf = Seg(Cipher(stream), c, rpos)
        BY <4>4 DEF Waits
      <4>6. q = <<>> \/ (q = <<splitter.cipher_buf>> /\ splitter.cipher_buf # <<>>)
        BY <3>1 DEF Flush
      <4>7. QED
        BY <4>3, <4>5, <4>6
    <3>5. QED
      BY <1>2, <2>1, <3>3, <3>4 DEF Adjacent
  <2>3. CASE kind # "packets"
    <3>1. up'.parts = <<>> /\ up'.pc \in {"flush", "done"}
      BY <1>1, <1>7, <2>1, <2>3 DEF UpEof, UpTasks
    <3>2. QED
      BY <1>2, <2>1, <3>1 DEF Adjacent
  <2>4. QED
    BY <2>2, <2>3
<1>8. CASE UpFlush
  <2>1. /\ Len(wire') <= rpos /\ wire' = Seg(Cipher(stream), 0, Len(wire'))
        /\ Tail(up.parts) = <<>>
    BY <1>8, FlushStep
  <2>2. up'.parts = <<>> /\ up'.pc = "flush" /\ UNCHANGED <<kind, stream, rpos>>
    BY <1>1, <1>8, <2>1 DEF UpFlush, UpTasks
  <2>3. QED
    BY <2>1, <2>2 DEF Adjacent
<1>9. CASE UpClose \/ CancelUp
  <2>1. up'.pc \in {"done", "aborted"} /\ UNCHANGED <<kind, stream, rpos, wire>>
    BY <1>1, <1>9 DEF UpClose, CancelUp, UpTasks
  <2>2. QED
    BY <1>2, <2>1 DEF Adjacent
<1>10. ASSUME UNCHANGED <<kind, stream, upload>> PROVE Adjacent'
  BY <1>10 DEF Adjacent
<1>11. CASE DownRead \/ DownloadRuns
  BY <1>10, <1>11 DEF DownRead, DownloadRuns, DownEof, DownWrite, DownWriteFail, DownCount
<1>12. CASE Begin \/ BeginFails \/ JoinUpload \/ JoinDownload \/ CancelDown \/ Log
  BY <1>10, <1>12 DEF Begin, BeginFails, JoinUpload, JoinDownload, CancelDown, Log
<1>13. CASE ClientStep \/ RemoteStep
  BY <1>10, <1>13 DEF ClientStep, RemoteStep
<1>14. CASE UNCHANGED vars
  BY <1>10, <1>14 DEF vars
<1>15. QED
  BY <1>3, <1>4, <1>5, <1>6, <1>7, <1>8, <1>9, <1>11, <1>12, <1>13, <1>14
  DEF Next, UploadRuns, Session

LEMMA UpCountedStep ==
  ASSUME TypeOK, Adjacent, UpCounted, [Next]_vars
  PROVE  UpCounted'
<1> USE DEF upload, peers
<1>1. up \in UpTasks /\ counters \in [up : Nat, down : Nat]
  BY DEF TypeOK, UpTasks
<1>2. /\ rpos \in Nat /\ Len(wire) \in Nat /\ counters.up \in Nat /\ up.n \in Nat
      /\ \A k \in 1..Len(stream.ends) : stream.ends[k] \in Nat
      /\ rpos = counters.up + up.n
  BY StateFacts DEF UpCounted
<1>3. ASSUME NEW n \in 1..ReadBuf, UpRead(n) PROVE UpCounted'
  <2>1. /\ rpos' = rpos + n
        /\ up' = [pc |-> "send", parts |-> up'.parts, n |-> n]
    BY <1>3, ReadCuts
  <2>2. wire' = wire /\ stream' = stream /\ kind' = kind /\ counters' = counters
    BY <1>3 DEF UpRead
  <2>3. up.n = 0 /\ n \in Nat
    BY <1>3, BridgeAssumption DEF UpRead, UpCounted
  <2>4. up'.pc = "send" /\ up'.n = n
    BY <2>1
  <2>5. rpos' = counters'.up + up'.n
    BY <1>2, <2>1, <2>2, <2>3, <2>4
  <2>6. QED
    BY <2>2, <2>4, <2>5 DEF UpCounted
<1>4. ASSUME Len(wire') \in Nat, Len(wire') >= Len(wire), up'.n = up.n,
             up'.pc \in {"read", "flush"} => up.pc \in {"read", "flush"},
             UNCHANGED <<kind, stream, rpos>>, counters'.up = counters.up
      PROVE  UpCounted'
  <2>1. kind' # "packets" => counters'.up <= Len(wire')
    BY <1>2, <1>4 DEF UpCounted
  <2>2. \A k \in 1..Len(stream'.ends) :
          stream'.ends[k] <= counters'.up => stream'.ends[k] <= Len(wire')
    BY <1>2, <1>4 DEF UpCounted
  <2>3. rpos' = counters'.up + up'.n /\ (up'.pc \in {"read", "flush"} => up'.n = 0)
    BY <1>2, <1>4 DEF UpCounted
  <2>4. QED
    BY <2>1, <2>2, <2>3 DEF UpCounted
<1>5. CASE UpSend
  <2>1. PICK m \in Len(wire)..rpos : Len(wire') = m
    BY <1>5, SendStep
  <2>2. Len(wire') \in Nat /\ Len(wire') >= Len(wire)
    BY <1>2, <2>1
  <2>3. up'.n = up.n /\ up'.pc = "send"
    BY <1>1, <1>5 DEF UpSend, UpTasks
  <2>4. QED
    BY <1>4, <1>5, <2>2, <2>3 DEF UpSend
<1>6. CASE UpFlush
  <2>1. Len(wire') \in Nat /\ Len(wire') >= Len(wire)
    BY <1>6, FlushStep
  <2>2. up'.n = up.n /\ up.pc = "flush"
    BY <1>1, <1>6 DEF UpFlush, UpTasks
  <2>3. QED
    BY <1>4, <1>6, <2>1, <2>2 DEF UpFlush
<1>7. CASE UpCount
  <2>1. PICK c \in 0..rpos : /\ Pieces(stream, kind, <<>>, Len(wire), c)
                             /\ Left(stream, kind, splitter, c, rpos)
    BY <1>7 DEF UpCount, Adjacent
  <2>2. c \in Nat /\ c <= rpos /\ rpos <= Len(stream.bytes) /\ stream \in Streams
    BY <1>2, StateFacts
  <2>3. c = Len(wire)
    BY <1>2, <2>1, <2>2, PiecesNone
  <2>4. /\ UNCHANGED <<kind, stream, rpos, wire>> /\ counters'.up = counters.up + up.n
        /\ up'.n = 0 /\ up'.pc = "read"
    BY <1>1, <1>7 DEF UpCount, UpTasks
  <2>5. counters'.up = rpos /\ rpos' = counters'.up + up'.n
    BY <1>2, <2>4
  <2>6. CASE kind = "packets"
    <3>1. \A k \in 1..Len(stream.ends) : stream.ends[k] <= rpos => stream.ends[k] <= c
      <4>1. Waits(stream, splitter, c, rpos)
        BY <2>1, <2>6 DEF Left
      <4>2. QED
        BY <1>2, <2>2, <4>1, NoneWaiting
    <3>2. QED
      BY <2>3, <2>4, <2>5, <2>6, <3>1 DEF UpCounted
  <2>7. CASE kind # "packets"
    <3>1. Len(wire) = rpos
      BY <2>1, <2>3, <2>7 DEF Left
    <3>2. kind' # "packets" => counters'.up <= Len(wire')
      BY <1>2, <2>4, <2>5, <3>1
    <3>3. QED
      BY <2>4, <2>5, <3>1, <3>2 DEF UpCounted
  <2>8. QED
    BY <2>6, <2>7
<1>8. CASE UpEof
  <2>1. up'.n = up.n /\ up.pc = "read"
    BY <1>1, <1>8 DEF UpEof, UpTasks
  <2>2. UNCHANGED <<kind, stream, rpos, wire, counters>>
    BY <1>8 DEF UpEof
  <2>3. QED
    BY <1>2, <1>4, <2>1, <2>2
<1>9. CASE UpSendFail \/ UpClose \/ CancelUp
  <2>1. up'.n = up.n /\ up'.pc \in {"done", "aborted"}
    BY <1>1, <1>9 DEF UpSendFail, UpClose, CancelUp, UpTasks
  <2>2. UNCHANGED <<kind, stream, rpos, wire, counters>>
    BY <1>9 DEF UpSendFail, UpClose, CancelUp
  <2>3. QED
    BY <1>2, <1>4, <2>1, <2>2
<1>10. ASSUME UNCHANGED <<kind, stream, upload>>, counters'.up = counters.up
       PROVE  UpCounted'
  BY <1>2, <1>4, <1>10
<1>11. CASE DownRead \/ DownEof \/ DownWrite \/ DownWriteFail \/ DownCount
  <2>1. UNCHANGED <<kind, stream, upload>>
    BY <1>11 DEF DownRead, DownEof, DownWrite, DownWriteFail, DownCount
  <2>2. counters'.up = counters.up
    BY <1>1, <1>11 DEF DownRead, DownEof, DownWrite, DownWriteFail, DownCount
  <2>3. QED
    BY <1>10, <2>1, <2>2
<1>12. CASE Begin \/ BeginFails \/ JoinUpload \/ JoinDownload \/ CancelDown \/ Log
  BY <1>10, <1>12 DEF Begin, BeginFails, JoinUpload, JoinDownload, CancelDown, Log
<1>13. CASE ClientStep \/ RemoteStep
  BY <1>10, <1>13 DEF ClientStep, RemoteStep
<1>14. CASE UNCHANGED vars
  BY <1>10, <1>14 DEF vars
<1>15. QED
  BY <1>3, <1>5, <1>6, <1>7, <1>8, <1>9, <1>11, <1>12, <1>13, <1>14
  DEF Next, UploadRuns, DownloadRuns, Session

-----------------------------------------------------------------------------
(* The steps of the download and of the session. *)

LEMMA DownCountedStep ==
  ASSUME TypeOK, DownCounted, [Next]_vars
  PROVE  DownCounted'
<1> USE DEF upload, peers
<1>1. down \in DownTasks /\ counters \in [up : Nat, down : Nat] /\ counters.down \in Nat
  BY StateFacts DEF TypeOK, DownTasks
<1>2. /\ down.i \in Nat /\ down.i >= 1 /\ down.todo \in Nat /\ down.written \in Nat
      /\ \A k \in 1..Len(Messages) : Messages[k] \in Nat
      /\ Len(Messages) \in Nat /\ (down.i > 1 => down.i - 1 \in 1..Len(Messages))
  BY <1>1, DownFacts
<1>3. CASE DownRead
  <2>1. PICK j, w, m : j = down.i /\ w = down.written /\ m = Messages[j]
    OBVIOUS
  <2>2. j \in Nat /\ j >= 1 /\ w \in Nat /\ m \in Nat /\ j + 1 > 1 /\ (j + 1) - 1 = j /\ j + 1 # 1
    <3>1. j \in Nat /\ j >= 1 /\ w \in Nat /\ j <= Len(Messages)
      BY <1>2, <1>3, <2>1 DEF DownRead
    <3>2. j \in 1..Len(Messages)
      BY <1>2, <3>1
    <3>3. QED
      BY <1>2, <2>1, <3>1, <3>2
  <2>3. down' = [down EXCEPT !.pc = "write", !.todo = m, !.i = j + 1]
    BY <1>3, <2>1 DEF DownRead
  <2>4. down'.pc = "write" /\ down'.todo = m /\ down'.i = j + 1 /\ down'.written = w
    BY <1>1, <2>1, <2>3 DEF DownTasks
  <2>5. w = counters.down /\ counters' = counters
    BY <1>3, <2>1 DEF DownRead, DownCounted
  <2>6. Messages[down'.i - 1] = m
    BY <2>1, <2>2, <2>4
  <2>7. /\ m <= m /\ w = counters.down + m - m /\ counters.down <= w
        /\ w <= counters.down + m
    BY <1>1, <2>2, <2>5
  <2>8. QED
    BY <2>2, <2>4, <2>5, <2>6, <2>7 DEF DownCounted
<1>4. CASE DownEof \/ DownWriteFail
  <2>1. /\ down'.pc = "done" /\ down'.i = down.i /\ down'.written = down.written
        /\ counters' = counters
    BY <1>1, <1>4 DEF DownEof, DownWriteFail, DownTasks
  <2>2. QED
    BY <2>1 DEF DownCounted
<1>5. CASE DownWrite
  <2>1. PICK w, d, o, m : /\ w = down.written /\ d = down.todo /\ o = counters.down
                          /\ m = Messages[down.i - 1]
    OBVIOUS
  <2>2. /\ down.pc = "write" /\ d > 0 /\ down.i > 1 /\ d <= m /\ w = o + m - d
    BY <1>5, <2>1 DEF DownWrite, DownCounted
  <2>3. d \in Nat /\ w \in Nat /\ o \in Nat /\ m \in Nat
    BY <1>1, <1>2, <2>1, <2>2
  <2>4. d - 1 <= m /\ w + 1 = o + m - (d - 1) /\ o <= w + 1 /\ w + 1 <= o + m
    BY <2>2, <2>3
  <2>5. down' = [down EXCEPT !.todo = d - 1, !.written = w + 1]
    BY <1>5, <2>1 DEF DownWrite
  <2>6. /\ down'.pc = "write" /\ down'.todo = d - 1 /\ down'.i = down.i
        /\ down'.written = w + 1 /\ counters' = counters
    BY <1>1, <1>5, <2>2, <2>5 DEF DownWrite, DownTasks
  <2>7. down.i # 1
    BY <1>2, <2>2
  <2>8. QED
    BY <2>1, <2>2, <2>4, <2>6, <2>7 DEF DownCounted
<1>6. CASE DownCount
  <2>1. PICK w, o, m : w = down.written /\ o = counters.down /\ m = Messages[down.i - 1]
    OBVIOUS
  <2>2. /\ down.i > 1 /\ w = o + m - down.todo /\ down.todo = 0
    BY <1>6, <2>1 DEF DownCount, DownCounted
  <2>3. w \in Nat /\ o \in Nat /\ m \in Nat
    BY <1>1, <1>2, <2>1, <2>2
  <2>4. w = o + m /\ o + m <= w /\ w <= o + m + m
    BY <2>2, <2>3
  <2>5. /\ down'.pc = "read" /\ down'.i = down.i /\ down'.written = w
        /\ counters'.down = o + m
    BY <1>1, <1>6, <2>1 DEF DownCount, DownTasks
  <2>6. down.i # 1
    BY <1>2, <2>2
  <2>7. QED
    BY <2>1, <2>4, <2>5, <2>6 DEF DownCounted
<1>7. CASE CancelDown
  <2>1. /\ down'.pc = "aborted" /\ down'.i = down.i /\ down'.written = down.written
        /\ counters' = counters
    BY <1>1, <1>7 DEF CancelDown, DownTasks
  <2>2. QED
    BY <2>1 DEF DownCounted
<1>8. ASSUME down' = down, counters'.down = counters.down PROVE DownCounted'
  BY <1>8 DEF DownCounted
<1>9. CASE UpCount
  <2>1. counters'.down = counters.down
    BY <1>1, <1>9 DEF UpCount
  <2>2. QED
    BY <1>8, <1>9, <2>1 DEF UpCount
<1>10. CASE UpSend \/ UpSendFail \/ UpEof \/ UpFlush \/ UpClose \/ CancelUp
  BY <1>8, <1>10 DEF UpSend, UpSendFail, UpEof, UpFlush, UpClose, CancelUp
<1>11. ASSUME NEW n \in 1..ReadBuf, UpRead(n) PROVE DownCounted'
  BY <1>8, <1>11 DEF UpRead
<1>12. CASE Begin \/ BeginFails \/ JoinUpload \/ JoinDownload \/ Log
  BY <1>8, <1>12 DEF Begin, BeginFails, JoinUpload, JoinDownload, Log
<1>13. CASE ClientStep \/ RemoteStep
  BY <1>8, <1>13 DEF ClientStep, RemoteStep
<1>14. CASE UNCHANGED vars
  BY <1>8, <1>14 DEF vars
<1>15. QED
  BY <1>3, <1>4, <1>5, <1>6, <1>7, <1>9, <1>10, <1>11, <1>12, <1>13, <1>14
  DEF Next, UploadRuns, DownloadRuns, Session

LEMMA JoinedStep ==
  ASSUME TypeOK, Joined, [Next]_vars
  PROVE  Joined'
<1> USE DEF upload, peers, Finished
<1>1. up \in UpTasks /\ down \in DownTasks /\ session \in Sessions
  BY DEF TypeOK, UpTasks, DownTasks, Sessions
<1>2. ASSUME session' = session, Finished(up.pc) => up' = up, Finished(down.pc) => down' = down,
             Finished(up.pc) /\ Finished(down.pc) => counters' = counters
      PROVE  Joined'
  BY <1>2 DEF Joined
<1>3. ASSUME NEW n \in 1..ReadBuf, UpRead(n) PROVE Joined'
  BY <1>2, <1>3 DEF UpRead
<1>4. CASE UpSend \/ UpSendFail \/ UpCount \/ UpEof \/ UpFlush \/ UpClose
  <2>1. up.pc \in {"read", "send", "flush"} /\ session' = session /\ down' = down
    BY <1>4 DEF UpSend, UpSendFail, UpCount, UpEof, UpFlush, UpClose
  <2>2. QED
    BY <1>2, <2>1
<1>5. CASE DownRead \/ DownEof \/ DownWrite \/ DownWriteFail \/ DownCount
  <2>1. down.pc \in {"read", "write"} /\ session' = session /\ up' = up
    BY <1>5 DEF DownRead, DownEof, DownWrite, DownWriteFail, DownCount
  <2>2. QED
    BY <1>2, <2>1
<1>6. CASE CancelUp
  BY <1>2, <1>6 DEF CancelUp
<1>7. CASE CancelDown
  BY <1>2, <1>7 DEF CancelDown
<1>8. CASE Begin \/ BeginFails
  <2>1. session'.pc \in {"run", "failed"}
    BY <1>1, <1>8 DEF Begin, BeginFails, Sessions
  <2>2. QED
    BY <2>1 DEF Joined
<1>9. CASE JoinUpload
  <2>1. session'.pc = "abort_down" /\ up.pc = "done" /\ up' = up
    BY <1>1, <1>9 DEF JoinUpload, Sessions
  <2>2. QED
    BY <2>1 DEF Joined
<1>10. CASE JoinDownload
  <2>1. session'.pc = "abort_up" /\ down.pc = "done" /\ down' = down
    BY <1>1, <1>10 DEF JoinDownload, Sessions
  <2>2. QED
    BY <2>1 DEF Joined
<1>11. CASE Log
  <2>1. /\ session'.pc = "over" /\ session'.logged = counters
        /\ up' = up /\ down' = down /\ counters' = counters
    BY <1>1, <1>11 DEF Log, Sessions
  <2>2. Finished(up.pc) /\ Finished(down.pc)
    BY <1>11 DEF Log, Joined
  <2>3. QED
    BY <2>1, <2>2 DEF Joined
<1>12. CASE ClientStep \/ RemoteStep
  BY <1>2, <1>12 DEF ClientStep, RemoteStep
<1>13. CASE UNCHANGED vars
  BY <1>2, <1>13 DEF vars
<1>14. QED
  BY <1>3, <1>4, <1>5, <1>6, <1>7, <1>8, <1>9, <1>10, <1>11, <1>12, <1>13
  DEF Next, UploadRuns, DownloadRuns, Session

-----------------------------------------------------------------------------
(* Theorems. *)

LEMMA InvInit == Init => Inv
<1> SUFFICES ASSUME Init PROVE Inv
  OBVIOUS
<1>1. TypeOK
  BY TypeInit
<1>2. /\ stream \in Streams /\ rpos = 0 /\ wire = <<>> /\ up.pc = "read" /\ up.parts = <<>>
      /\ up.n = 0 /\ counters.up = 0 /\ counters.down = 0
      /\ splitter = NewSplitter(stream.proto) /\ Len(wire) = 0 /\ 0 \in 0..0
  BY DEF Init
<1>3. Adjacent
  <2>1. \A q : Seg(q, 0, 0) = <<>>
    BY DEF Seg
  <2>2. Aligned(stream, 0)
    BY DEF Aligned
  <2>3. FirstLen(stream.proto, <<>>) = NeedMore
    <3>1. <<>> \in Seq(Byte)
      OBVIOUS
    <3>2. QED
      BY <3>1, FirstLenFacts
  <2>4. Left(stream, kind, splitter, 0, 0)
    BY <1>2, <2>1, <2>2, <2>3 DEF Left, Waits, NewSplitter
  <2>5. Pieces(stream, kind, <<>>, 0, 0)
    BY PiecesNone
  <2>6. QED
    BY <1>2, <2>1, <2>4, <2>5 DEF Adjacent
<1>4. UpCounted
  <2>1. \A k \in 1..Len(stream.ends) : stream.ends[k] > 0
    BY <1>2, StreamFacts
  <2>2. QED
    BY <1>2, <2>1, StateFacts, <1>1 DEF UpCounted
<1>5. DownCounted
  BY DEF Init, DownCounted
<1>6. Joined
  BY DEF Init, Joined
<1>7. QED
  BY <1>1, <1>3, <1>4, <1>5, <1>6 DEF Inv

(* The invariant holds throughout.                                         *)
THEOREM BridgeInvariance == Spec => []Inv
<1>1. Init => Inv
  BY InvInit
<1>2. Inv /\ [Next]_vars => Inv'
  BY TypeStep, AdjacentStep, UpCountedStep, DownCountedStep, JoinedStep DEF Inv
<1>3. QED
  BY <1>1, <1>2, PTL DEF Spec

(* Every variable keeps its type, for every stream and every read size: the *)
(* upload never reads beyond the stream and the download never writes more *)
(* than a message holds.                                                   *)
THEOREM BridgeTypeCorrect == Spec => []TypeOK
<1>1. Inv => TypeOK
  BY DEF Inv
<1>2. QED
  BY <1>1, BridgeInvariance, PTL

(* What the remote connection accepted decrypts to a prefix of what the    *)
(* client sent, whichever the bridge, whatever the reads cut and wherever  *)
(* a send fails or the task is aborted.                                    *)
THEOREM StreamReachesRemote == Spec => []RemoteSeesStream
<1>1. Inv => RemoteSeesStream
  <2> SUFFICES ASSUME Inv PROVE RemoteSeesStream
    OBVIOUS
  <2>1. TypeOK /\ Adjacent
    BY DEF Inv
  <2>2. PICK w : w = Len(wire)
    OBVIOUS
  <2>3. /\ wire = Seg(Cipher(stream), 0, w) /\ w \in Nat /\ 0 \in Nat /\ 0 <= w
        /\ w <= Len(stream.bytes) /\ stream \in Streams
    BY <2>1, <2>2, StateFacts DEF Adjacent
  <2>4. Decrypted(Seg(Cipher(stream), 0, w), 0) = Seg(stream.bytes, 0, w)
    BY <2>3, ChunkDecrypted
  <2>5. Seg(stream.bytes, 0, w) = SubSeq(stream.bytes, 1, w)
    BY DEF Seg
  <2>6. QED
    BY <2>2, <2>3, <2>4, <2>5 DEF RemoteSeesStream
<1>2. QED
  BY <1>1, BridgeInvariance, PTL

(* The totals a session logs are final, miss at most the read or message   *)
(* in progress, and count no whole packet the remote did not get.          *)
THEOREM TotalsAreHonest == Spec => []TotalsHonest
<1>1. Inv => TotalsHonest
  <2> SUFFICES ASSUME Inv, session.pc = "over" PROVE TotalsHonest
    BY DEF TotalsHonest
  <2>1. TypeOK /\ Adjacent /\ UpCounted /\ DownCounted /\ session.logged = counters
    BY DEF Inv, Joined
  <2>2. Len(wire) <= counters.up + up.n
    BY <2>1 DEF Adjacent, UpCounted
  <2>3. \A i \in 1..Len(stream.ends) :
          ~(Len(wire) < stream.ends[i] /\ stream.ends[i] <= counters.up)
    <3>1. Len(wire) \in Nat /\ \A i \in 1..Len(stream.ends) : stream.ends[i] \in Nat
      BY <2>1, StateFacts
    <3>2. QED
      BY <2>1, <3>1 DEF UpCounted
  <2>4. QED
    BY <2>1, <2>2, <2>3 DEF TotalsHonest, UpCounted, DownCounted
<1>2. QED
  BY <1>1, BridgeInvariance, PTL

(* Every message sent while the stream is understood is one packet of it.  *)
THEOREM PacketPerMessage == Spec => OnePacketPerMessage
<1> DEFINE A == kind = "packets" /\ up.pc = "send" /\ wire' # wire
                  /\ (\E i \in 1..Len(stream.ends) : stream.ends[i] > Len(wire))
                => Len(wire') = PacketFrom(Len(wire))
<1>1. Inv /\ [Next]_vars => [A]_vars
  <2> SUFFICES ASSUME Inv, Next, kind = "packets", up.pc = "send", wire' # wire,
                      More(stream, Len(wire))
               PROVE  Len(wire') = PacketFrom(Len(wire))
    BY DEF More
  <2>1. UpSend
    BY DEF Next, UploadRuns, DownloadRuns, Session, UpRead, UpSend, UpSendFail, UpCount, UpEof,
           UpFlush, UpClose, DownRead, DownEof, DownWrite, DownWriteFail, DownCount, Begin,
           BeginFails, JoinUpload, JoinDownload, CancelUp, CancelDown, Log, ClientStep,
           RemoteStep, upload
  <2>2. PICK m \in Len(wire)..rpos : Len(wire') = m /\ Piece(stream, Len(wire), m)
    BY <2>1, SendStep DEF Inv
  <2>3. PICK w : w = Len(wire)
    OBVIOUS
  <2>4. /\ w < m /\ \E k \in 1..Len(stream.ends) : stream.ends[k] = m
        /\ \A k \in 1..Len(stream.ends) : stream.ends[k] > w => m <= stream.ends[k]
    BY <2>2, <2>3 DEF Piece
  <2>5. /\ w \in Nat /\ rpos \in Nat
        /\ \A k \in 1..Len(stream.ends) : stream.ends[k] \in Nat
    BY <2>3, StateFacts DEF Inv
  <2> DEFINE E == {stream.ends[i] : i \in 1..Len(stream.ends)}
             first(e) == e > w /\ \A i \in 1..Len(stream.ends) :
                                    stream.ends[i] > w => e <= stream.ends[i]
  <2>6. m \in E /\ first(m)
    BY <2>4, <2>5
  <2>7. \A e \in E : first(e) => e = m
    BY <2>4, <2>5
  <2> HIDE DEF E, first
  <2>8. (CHOOSE e \in E : first(e)) = m
    BY <2>6, <2>7
  <2>9. PacketFrom(w) = m
    BY <2>8 DEF PacketFrom, E, first
  <2>10. QED
    BY <2>2, <2>3, <2>9
<1>2. QED
  BY <1>1, BridgeInvariance, PTL DEF Spec, OnePacketPerMessage

=============================================================================
