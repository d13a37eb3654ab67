----------------------------- MODULE HopProofs -----------------------------
(***************************************************************************)
(* Proofs about Hop for every layout of the init, every record size, every *)
(* set of secrets and every link.                                          *)
(***************************************************************************)
EXTENDS Hop, SequenceTheorems, FiniteSetTheorems, TLAPS

-----------------------------------------------------------------------------
(* Bytes and ciphers. *)

IsByte(b) == b = [v |-> b.v, ks |-> b.ks]

LEMMA ByteIsByte == \A k, n : IsByte(Byte(k, n)) /\ Byte(k, n).ks = {} /\ Byte(k, n).v = <<k, n>>
  BY DEF Byte, IsByte

LEMMA XorFacts ==
  ASSUME NEW b, IsByte(b), NEW u
  PROVE  /\ IsByte(Xor(b, u)) /\ Xor(b, u).v = b.v
         /\ Xor(Xor(b, u), u) = b
         /\ \A w : b.ks = {u} /\ Xor(b, w).ks = {} => w = u
         /\ b.ks = {} => Xor(b, u).ks = {u}
<1>1. \A w : Xor(b, w) = [v |-> b.v, ks |-> SymDiff(b.ks, {w})]
  BY DEF Xor, IsByte
<1>2. PICK c : c = Xor(b, u)
  OBVIOUS
<1>3. c = [v |-> b.v, ks |-> SymDiff(b.ks, {u})] /\ IsByte(c)
  BY <1>1, <1>2 DEF IsByte
<1>4. Xor(c, u) = [v |-> c.v, ks |-> SymDiff(c.ks, {u})]
  BY <1>3 DEF Xor, IsByte
<1>5. SymDiff(SymDiff(b.ks, {u}), {u}) = b.ks
  BY DEF SymDiff
<1>6. Xor(c, u) = b
  BY <1>3, <1>4, <1>5 DEF IsByte
<1>7. \A w : b.ks = {u} /\ Xor(b, w).ks = {} => w = u
  <2>1. ASSUME NEW w, b.ks = {u}, Xor(b, w).ks = {} PROVE w = u
    <3>1. SymDiff({u}, {w}) = {}
      BY <1>1, <2>1
    <3>2. QED
      BY <3>1 DEF SymDiff
  <2>2. QED
    BY <2>1
<1>8. b.ks = {} => Xor(b, u).ks = {u}
  <2>1. SymDiff({}, {u}) = {u}
    BY DEF SymDiff
  <2>2. QED
    BY <1>1, <2>1
<1>9. QED
  BY <1>2, <1>3, <1>6, <1>7, <1>8

(* The k-th byte of a cipher's keystream, and the cipher about to use it.  *)
UnitAt(c, k) == <<c.key, c.iv, k>>
At(c, k) == [key |-> c.key, iv |-> c.iv, at |-> k]

LEMMA AtFacts ==
  ASSUME NEW c, NEW k \in Nat
  PROVE  /\ \A n \in Nat : Advance(At(c, k), n) = At(c, k + n)
         /\ \A i \in Nat : Unit(At(c, k), i) = UnitAt(c, k + i - 1)
         /\ At(c, k).key = c.key /\ At(c, k).iv = c.iv
  BY DEF At, Advance, Unit, UnitAt

LEMMA UnitAtFacts ==
  \A c, d, j, k : UnitAt(c, j) = UnitAt(d, k) => c.key = d.key /\ c.iv = d.iv /\ j = k
  BY DEF UnitAt

LEMMA UnitsFacts ==
  ASSUME NEW c, NEW k \in Nat, NEW n \in Nat
  PROVE  /\ IsFiniteSet(Units(At(c, k), n))
         /\ \A u \in Units(At(c, k), n) : \E j \in k..(k + n - 1) : u = UnitAt(c, j)
<1>1. IsFiniteSet(1..n)
  BY FS_Interval
<1> DEFINE a == At(c, k)
<1> HIDE DEF a
<1>2. IsFiniteSet(Units(a, n))
  <2> DEFINE f == [i \in 1..n |-> Unit(a, i)]
  <2>1. f \in Surjection(1..n, Units(a, n))
    BY DEF Units, Surjection
  <2> HIDE DEF f
  <2>2. QED
    BY <1>1, <2>1, FS_Surjection
<1>3. ASSUME NEW i \in 1..n PROVE \E j \in k..(k + n - 1) : Unit(a, i) = UnitAt(c, j)
  <2>1. Unit(a, i) = UnitAt(c, k + i - 1)
    BY AtFacts DEF a
  <2>2. k + i - 1 \in k..(k + n - 1)
    OBVIOUS
  <2>3. QED
    BY <2>1, <2>2
<1>4. \A u \in Units(a, n) : \E j \in k..(k + n - 1) : u = UnitAt(c, j)
  BY <1>3 DEF Units
<1>5. QED
  BY <1>2, <1>4 DEF a

LEMMA Layout ==
  /\ SkipLen \in Nat /\ PrekeyLen \in Nat \ {0} /\ IvLen \in Nat \ {0}
  /\ TagPos \in Nat /\ TagPos = SkipLen + PrekeyLen + IvLen + 1
  /\ DcPos = TagPos + 1 /\ PadPos = TagPos + 2 /\ HandshakeLen = TagPos + 2
  /\ HandshakeLen \in Nat /\ TagPos - 1 \in Nat
  BY LayoutAssumption DEF TagPos, DcPos, PadPos, HandshakeLen

(* The prekey and IV of an init drawn by who.                              *)
Seed(who) == [j \in 1..(PrekeyLen + IvLen) |-> Byte(who, SkipLen + j)]

LEMMA PrekeyIvFacts ==
  ASSUME NEW S, NEW h \in Seq(S), Len(h) = HandshakeLen
  PROVE  PrekeyIv(h) = [j \in 1..(PrekeyLen + IvLen) |-> h[SkipLen + j]]
<1> DEFINE p == PrekeyIv(h)
           n == PrekeyLen + IvLen
           q == [j \in 1..n |-> h[SkipLen + j]]
<1>1. n \in Nat /\ SkipLen \in Nat /\ SkipLen + n <= Len(h)
  BY Layout
<1>2. \A i \in (SkipLen + 1)..(SkipLen + n) : h[i] \in S
  BY <1>1
<1>3. p = SubSeq(h, SkipLen + 1, SkipLen + n)
  <2>1. SkipLen + PrekeyLen + IvLen = SkipLen + n
    BY Layout
  <2>2. QED
    BY <2>1 DEF PrekeyIv
<1>4. /\ p \in Seq(S) /\ Len(p) = n
      /\ \A i \in 1..n : p[i] = h[SkipLen + i]
  <2>1. SkipLen + 1 \in Nat /\ SkipLen + n \in Nat
    BY <1>1
  <2>2. /\ p \in Seq(S)
        /\ Len(p) = IF SkipLen + 1 <= SkipLen + n THEN (SkipLen + n) - (SkipLen + 1) + 1 ELSE 0
        /\ \A i \in 1..((SkipLen + n) - (SkipLen + 1) + 1) : p[i] = h[(SkipLen + 1) + i - 1]
    <3> HIDE DEF p, n
    <3>1. QED
      BY <1>2, <1>3, <2>1, SubSeqProperties
  <2>3. (SkipLen + n) - (SkipLen + 1) + 1 = n /\ \A i \in 1..n : (SkipLen + 1) + i - 1 = SkipLen + i
    BY <1>1
  <2> HIDE DEF p, n
  <2>4. QED
    BY <1>1, <2>2, <2>3
<1> HIDE DEF p, n
<1>5. p = [j \in 1..n |-> p[j]]
  BY <1>4
<1>6. p = q
  BY <1>4, <1>5
<1>7. QED
  BY <1>6 DEF p, n

(* The cipher a client of the link uses towards the server, the one the    *)
(* other way, and the one towards Telegram.                                *)
Up(l) == Keyed(Seed("client"), l.secret)
Down(l) == Keyed(Reverse(Seed("client")), l.secret)
Relay == Raw(Seed("relay"))

LEMMA CipherFacts ==
  \A pi, secret :
    /\ Keyed(pi, secret) = At(Keyed(pi, secret), 1)
    /\ Keyed(pi, secret).key = [raw |-> Prekey(pi), secret |-> secret]
    /\ Keyed(pi, secret).iv = Iv(pi)
    /\ Raw(pi) = At(Raw(pi), 1)
    /\ Raw(pi).key = [raw |-> Prekey(pi), secret |-> "none"] /\ Raw(pi).iv = Iv(pi)
  BY DEF Keyed, Raw, make_cipher, Sha256, RawKey, At

LEMMA SeedFacts ==
  ASSUME NEW who
  PROVE  /\ Len(Seed(who)) = PrekeyLen + IvLen
         /\ Seed(who) \in Seq({Byte(who, SkipLen + j) : j \in 1..(PrekeyLen + IvLen)})
         /\ \A j \in 1..(PrekeyLen + IvLen) : Seed(who)[j] = Byte(who, SkipLen + j)
<1>1. PrekeyLen + IvLen \in Nat
  BY Layout
<1>2. PICK n : n = PrekeyLen + IvLen
  OBVIOUS
<1>3. QED
  BY <1>1, <1>2 DEF Seed

(* The first byte of a prekey.                                             *)
LEMMA PrekeyHead ==
  ASSUME NEW S, NEW q \in Seq(S), Len(q) = PrekeyLen + IvLen
  PROVE  Prekey(q)[1] = q[1] /\ Prekey(Reverse(q))[1] = q[PrekeyLen + IvLen]
<1>1. PICK n : n = PrekeyLen + IvLen
  OBVIOUS
<1>2. n \in Nat /\ 1 \in 1..n /\ PrekeyLen \in Nat /\ 1 <= PrekeyLen /\ PrekeyLen <= n /\ (n - 1) + 1 = n
  BY <1>1, Layout
<1>3. \A r \in Seq(S) : Len(r) = n => SubSeq(r, 1, PrekeyLen)[1] = r[1]
  BY <1>2
<1>4. Reverse(q) \in Seq(S) /\ Len(Reverse(q)) = n /\ Reverse(q)[1] = q[n]
  <2> DEFINE r == [i \in 1..n |-> q[(n - i) + 1]]
  <2>1. \A i \in 1..n : (n - i) + 1 \in 1..n
    BY <1>2
  <2>2. \A i \in 1..n : q[(n - i) + 1] \in S
    BY <1>1, <2>1
  <2>3. r \in Seq(S) /\ Len(r) = n /\ r[1] = q[n]
    BY <1>2, <2>2
  <2>4. Reverse(q) = r
    BY <1>1 DEF Reverse
  <2> HIDE DEF r
  <2>5. QED
    BY <2>3, <2>4
<1>5. QED
  BY <1>1, <1>3, <1>4 DEF Prekey

(* Three keys: none is another.                                            *)
LEMMA KeysDiffer ==
  ASSUME NEW l
  PROVE  Up(l).key # Down(l).key /\ Up(l).key # Relay.key /\ Down(l).key # Relay.key
<1>1. PICK n : n = PrekeyLen + IvLen
  OBVIOUS
<1>2. n \in Nat /\ 1 \in 1..n /\ n \in 1..n /\ SkipLen + 1 # SkipLen + n
  BY <1>1, Layout
<1>3. /\ Seed("client")[1] = Byte("client", SkipLen + 1)
      /\ Seed("client")[n] = Byte("client", SkipLen + n)
      /\ Seed("relay")[1] = Byte("relay", SkipLen + 1)
  BY <1>1, <1>2, SeedFacts
<1>4. /\ Prekey(Seed("client"))[1] = Byte("client", SkipLen + 1)
      /\ Prekey(Reverse(Seed("client")))[1] = Byte("client", SkipLen + n)
      /\ Prekey(Seed("relay"))[1] = Byte("relay", SkipLen + 1)
  BY <1>1, <1>3, SeedFacts, PrekeyHead
<1>5. /\ Byte("client", SkipLen + 1) # Byte("client", SkipLen + n)
      /\ Byte("client", SkipLen + 1) # Byte("relay", SkipLen + 1)
      /\ Byte("client", SkipLen + n) # Byte("relay", SkipLen + 1)
  <2>1. \A k, j, m, o : Byte(k, m) = Byte(j, o) => k = j /\ m = o
    BY DEF Byte
  <2>2. QED
    BY <1>2, <2>1
<1>6. /\ Up(l).key.raw = Prekey(Seed("client"))
      /\ Down(l).key.raw = Prekey(Reverse(Seed("client")))
      /\ Relay.key.raw = Prekey(Seed("relay"))
  <2>1. \A pi, s : Keyed(pi, s).key.raw = Prekey(pi) /\ Raw(pi).key.raw = Prekey(pi)
    BY DEF Keyed, Raw, make_cipher, Sha256, RawKey
  <2>2. QED
    BY <2>1 DEF Up, Down, Relay
<1>7. QED
  BY <1>4, <1>5, <1>6


-----------------------------------------------------------------------------
(* What is sent and what is made of it. *)
LEMMA RandomFacts ==
  ASSUME NEW who
  PROVE  /\ Random(who) \in Seq({Byte(who, i) : i \in 1..HandshakeLen})
         /\ Len(Random(who)) = HandshakeLen
         /\ \A i \in 1..HandshakeLen : Random(who)[i] = Byte(who, i)
<1>1. HandshakeLen \in Nat
  BY Layout
<1>2. PICK n : n = HandshakeLen
  OBVIOUS
<1>3. QED
  BY <1>1, <1>2 DEF Random

LEMMA FunctionIsSeq ==
  ASSUME NEW S, NEW n \in Nat, NEW h \in [1..n -> S]
  PROVE  h \in Seq(S) /\ Len(h) = n
<1>1. h \in Seq(S)
  BY SeqDef
<1>2. Len(h) \in Nat /\ 1..n = 1..Len(h)
  BY <1>1, LenProperties
<1>3. QED
  BY <1>1, <1>2

(* The tag, the DC and the padding are behind the prekey and the IV.       *)
SealedInit(who, x, y, z) ==
  [Random(who) EXCEPT ![TagPos] = x, ![DcPos] = y, ![PadPos] = z]

LEMMA SealedFacts ==
  ASSUME NEW who, NEW x, NEW y, NEW z, NEW h, h = SealedInit(who, x, y, z)
  PROVE  /\ h \in Seq({Byte(who, i) : i \in 1..HandshakeLen} \union {x, y, z})
         /\ Len(h) = HandshakeLen /\ PrekeyIv(h) = Seed(who)
         /\ h[TagPos] = x /\ h[DcPos] = y
<1> DEFINE S == {Byte(who, i) : i \in 1..HandshakeLen} \union {x, y, z}
<1>1. /\ HandshakeLen \in Nat /\ TagPos \in 1..HandshakeLen /\ DcPos \in 1..HandshakeLen
      /\ PadPos \in 1..HandshakeLen
  BY Layout
<1>2. PICK n : n = HandshakeLen
  OBVIOUS
<1>3. /\ Random(who) \in [1..n -> S]
      /\ \A i \in 1..n : Random(who)[i] = Byte(who, i)
  BY <1>2 DEF Random
<1>4. PICK r : r = Random(who)
  OBVIOUS
<1>5. x \in S /\ y \in S /\ z \in S
  OBVIOUS
<1> HIDE DEF S
<1>6. h \in [1..n -> S]
  BY <1>1, <1>2, <1>3, <1>4, <1>5 DEF SealedInit
<1>7. h \in Seq(S) /\ Len(h) = n
  BY <1>1, <1>2, <1>6, FunctionIsSeq
<1>8. PrekeyIv(h) = [j \in 1..(PrekeyLen + IvLen) |-> h[SkipLen + j]]
  BY <1>2, <1>7, PrekeyIvFacts
<1>9. ASSUME NEW j \in 1..(PrekeyLen + IvLen) PROVE h[SkipLen + j] = Byte(who, SkipLen + j)
  <2>1. /\ SkipLen + j \in 1..n /\ SkipLen + j # TagPos /\ SkipLen + j # DcPos
        /\ SkipLen + j # PadPos
    BY <1>2, Layout
  <2>2. h[SkipLen + j] = Random(who)[SkipLen + j]
    BY <1>3, <2>1 DEF SealedInit
  <2>3. QED
    BY <1>3, <2>1, <2>2 DEF SealedInit
<1>10. PrekeyIv(h) = Seed(who)
  BY <1>8, <1>9 DEF Seed
<1>11. h[TagPos] = x /\ h[DcPos] = y
  <2>1. TagPos # DcPos /\ TagPos # PadPos /\ DcPos # PadPos
    BY Layout
  <2>2. TagPos \in 1..n /\ DcPos \in 1..n
    BY <1>1, <1>2
  <2>3. QED
    BY <1>3, <2>1, <2>2 DEF SealedInit
<1>12. QED
  BY <1>2, <1>7, <1>10, <1>11 DEF S

(* The same of a client's init, which keeps its padding.                   *)
ClientInit(who, x, y) == [Random(who) EXCEPT ![TagPos] = x, ![DcPos] = y]

LEMMA ClientInitFacts ==
  ASSUME NEW who, NEW x, NEW y, NEW h, h = ClientInit(who, x, y)
  PROVE  /\ h \in Seq({Byte(who, i) : i \in 1..HandshakeLen} \union {x, y})
         /\ Len(h) = HandshakeLen /\ PrekeyIv(h) = Seed(who)
         /\ h[TagPos] = x /\ h[DcPos] = y
<1> DEFINE S == {Byte(who, i) : i \in 1..HandshakeLen} \union {x, y}
<1>1. HandshakeLen \in Nat /\ TagPos \in 1..HandshakeLen /\ DcPos \in 1..HandshakeLen
  BY Layout
<1>2. PICK n : n = HandshakeLen
  OBVIOUS
<1>3. /\ Random(who) \in [1..n -> S]
      /\ \A i \in 1..n : Random(who)[i] = Byte(who, i)
  BY <1>2 DEF Random
<1>4. x \in S /\ y \in S
  OBVIOUS
<1> HIDE DEF S
<1>5. h \in [1..n -> S]
  BY <1>1, <1>2, <1>3, <1>4 DEF ClientInit
<1>6. h \in Seq(S) /\ Len(h) = n
  BY <1>1, <1>2, <1>5, FunctionIsSeq
<1>7. PrekeyIv(h) = [j \in 1..(PrekeyLen + IvLen) |-> h[SkipLen + j]]
  BY <1>2, <1>6, PrekeyIvFacts
<1>8. ASSUME NEW j \in 1..(PrekeyLen + IvLen) PROVE h[SkipLen + j] = Byte(who, SkipLen + j)
  <2>1. SkipLen + j \in 1..n /\ SkipLen + j # TagPos /\ SkipLen + j # DcPos
    BY <1>2, Layout
  <2>2. h[SkipLen + j] = Random(who)[SkipLen + j]
    BY <1>3, <2>1 DEF ClientInit
  <2>3. QED
    BY <1>3, <2>1, <2>2 DEF ClientInit
<1>9. PrekeyIv(h) = Seed(who)
  BY <1>7, <1>8 DEF Seed
<1>10. h[TagPos] = x /\ h[DcPos] = y
  <2>1. TagPos # DcPos
    BY Layout
  <2>2. TagPos \in 1..n /\ DcPos \in 1..n
    BY <1>1, <1>2
  <2>3. QED
    BY <1>3, <2>1, <2>2 DEF ClientInit
<1>11. QED
  BY <1>2, <1>6, <1>9, <1>10 DEF S

LEMMA SeedOfRandom == \A who : PrekeyIv(Random(who)) = Seed(who)
<1> SUFFICES ASSUME NEW who PROVE PrekeyIv(Random(who)) = Seed(who)
  OBVIOUS
<1>1. PrekeyIv(Random(who)) = [j \in 1..(PrekeyLen + IvLen) |-> Random(who)[SkipLen + j]]
  BY RandomFacts, PrekeyIvFacts
<1>2. ASSUME NEW j \in 1..(PrekeyLen + IvLen)
      PROVE  Random(who)[SkipLen + j] = Byte(who, SkipLen + j)
  <2>1. SkipLen + j \in 1..HandshakeLen
    BY Layout
  <2>2. QED
    BY <2>1, RandomFacts
<1>3. QED
  BY <1>1, <1>2 DEF Seed

(* The init of a client of the link, and the one its session sends on.     *)
InitOf(l) == Sealed(Random("client"), Up(l), l.proto, l.dc)
RelayOf(l) == generate_relay_init(l.proto, l.dc, Random("relay"))

LEMMA InitFacts ==
  ASSUME NEW l
  PROVE  /\ (\E S : InitOf(l) \in Seq(S)) /\ Len(InitOf(l)) = HandshakeLen
         /\ PrekeyIv(InitOf(l)) = Seed("client")
         /\ InitOf(l)[TagPos] = Xor(Byte("tag", l.proto), UnitAt(Up(l), TagPos))
         /\ InitOf(l)[DcPos] = Xor(Byte("dc", l.dc), UnitAt(Up(l), DcPos))
<1>1. PICK h : h = InitOf(l)
  OBVIOUS
<1>2. PICK x, y : /\ x = Xor(Byte("tag", l.proto), Unit(Up(l), TagPos))
                  /\ y = Xor(Byte("dc", l.dc), Unit(Up(l), DcPos))
  OBVIOUS
<1>3. h = ClientInit("client", x, y)
  BY <1>1, <1>2 DEF Sealed, InitOf, ClientInit
<1>4. /\ h \in Seq({Byte("client", i) : i \in 1..HandshakeLen} \union {x, y})
      /\ Len(h) = HandshakeLen /\ PrekeyIv(h) = Seed("client")
      /\ h[TagPos] = x /\ h[DcPos] = y
  BY ONLY <1>3, ClientInitFacts
<1>5. Up(l) = At(Up(l), 1)
  BY CipherFacts DEF Up
<1>6. TagPos \in Nat /\ DcPos \in Nat /\ 1 + TagPos - 1 = TagPos /\ 1 + DcPos - 1 = DcPos
  BY Layout
<1>7. PICK c : c = Up(l)
  OBVIOUS
<1>8. Unit(At(c, 1), TagPos) = UnitAt(c, TagPos) /\ Unit(At(c, 1), DcPos) = UnitAt(c, DcPos)
  BY <1>6, AtFacts
<1>9. Unit(Up(l), TagPos) = UnitAt(Up(l), TagPos) /\ Unit(Up(l), DcPos) = UnitAt(Up(l), DcPos)
  BY <1>5, <1>7, <1>8
<1>10. \E S : h \in Seq(S)
  BY <1>4
<1>11. QED
  BY <1>1, <1>2, <1>4, <1>9, <1>10

(* generate_client_handshake gives that init and ciphers that go on with   *)
(* the keystream behind it.                                                *)
LEMMA HandshakeFacts ==
  ASSUME NEW l, NEW hs,
         hs = generate_client_handshake(l.secret, l.dc, l.proto, Random("client"))
  PROVE  /\ hs.handshake = InitOf(l)
         /\ hs.enc = At(Up(l), HandshakeLen + 1) /\ hs.dec = At(Down(l), 1)
<1>1. Keyed(PrekeyIv(Random("client")), l.secret) = Up(l)
  BY SeedOfRandom DEF Up
<1>2. /\ hs.handshake = Sealed(Random("client"), Keyed(PrekeyIv(Random("client")), l.secret), l.proto, l.dc)
      /\ hs.enc = FastForward(Keyed(PrekeyIv(hs.handshake), l.secret))
      /\ hs.dec = Keyed(Reverse(PrekeyIv(hs.handshake)), l.secret)
  BY DEF generate_client_handshake
<1>3. hs.handshake = InitOf(l)
  BY <1>1, <1>2 DEF InitOf
<1>4. hs.enc = FastForward(Up(l)) /\ hs.dec = Down(l)
  BY <1>2, <1>3, InitFacts DEF Up, Down
<1>5. PICK c, d : c = Up(l) /\ d = Down(l)
  OBVIOUS
<1>6. c = At(c, 1) /\ d = At(d, 1)
  BY <1>5, CipherFacts DEF Up, Down
<1>7. HandshakeLen \in Nat /\ 1 + HandshakeLen = HandshakeLen + 1
  BY Layout
<1>8. Advance(At(c, 1), HandshakeLen) = At(c, HandshakeLen + 1)
  BY <1>7, AtFacts
<1>9. QED
  BY <1>3, <1>4, <1>5, <1>6, <1>8 DEF FastForward

(* What a tag and a DC under the keystream of d say under that of c.       *)
LEMMA OpenedFacts ==
  ASSUME NEW h, NEW c, NEW d, NEW proto, NEW dc, NEW S, h \in Seq(S),
         Len(h) = HandshakeLen, c = At(c, 1),
         h[TagPos] = Xor(Byte("tag", proto), UnitAt(d, TagPos)),
         h[DcPos] = Xor(Byte("dc", dc), UnitAt(d, DcPos))
  PROVE  /\ Opened(h, c) # Rejected => c.key = d.key /\ c.iv = d.iv /\ proto \in Tags
         /\ c.key = d.key /\ c.iv = d.iv /\ proto \in Tags
              => Opened(h, c) = [ok |-> TRUE, proto |-> proto, dc |-> dc]
<1> DEFINE plain == apply_keystream(c, h)
<1>1. /\ TagPos \in 1..HandshakeLen /\ DcPos \in 1..HandshakeLen /\ TagPos \in Nat
      /\ DcPos \in Nat /\ 1 + TagPos - 1 = TagPos /\ 1 + DcPos - 1 = DcPos
  BY Layout
<1>2. Unit(c, TagPos) = UnitAt(c, TagPos) /\ Unit(c, DcPos) = UnitAt(c, DcPos)
  <2>1. c.at = 1
    BY DEF At
  <2>2. QED
    BY <1>1, <2>1 DEF Unit, UnitAt
<1>3. PICK t, u, w, x : /\ t = Byte("tag", proto) /\ u = UnitAt(d, TagPos)
                        /\ w = UnitAt(c, TagPos) /\ x = Xor(t, u)
  OBVIOUS
<1>4. IsByte(t) /\ t.ks = {} /\ t.v = <<"tag", proto>>
  BY <1>3, ByteIsByte
<1>5. /\ IsByte(x) /\ x.v = t.v /\ x.ks = {u} /\ Xor(x, u) = t
  BY <1>3, <1>4, XorFacts
<1>6. Xor(x, w).v = t.v /\ (Xor(x, w).ks = {} => w = u)
  BY <1>5, XorFacts
<1>7. plain[TagPos] = Xor(x, w)
  BY <1>1, <1>2, <1>3 DEF apply_keystream
<1>8. PICK e, p, q, y : /\ e = Byte("dc", dc) /\ p = UnitAt(d, DcPos)
                        /\ q = UnitAt(c, DcPos) /\ y = Xor(e, p)
  OBVIOUS
<1>9. IsByte(e) /\ e.v = <<"dc", dc>>
  BY <1>8, ByteIsByte
<1>10. IsByte(y) /\ y.v = e.v
  BY <1>8, <1>9, XorFacts
<1>11. Xor(y, q).v = e.v
  BY <1>10, XorFacts
<1>12. plain[DcPos] = Xor(y, q)
  BY <1>1, <1>2, <1>8 DEF apply_keystream
<1>13. /\ plain[TagPos].v[1] = "tag" /\ plain[TagPos].v[2] = proto
       /\ plain[DcPos].v[2] = dc
  BY <1>4, <1>6, <1>7, <1>9, <1>11, <1>12
<1>14. Opened(h, c) = IF plain[TagPos].ks = {} /\ proto \in Tags
                      THEN [ok |-> TRUE, proto |-> proto, dc |-> dc] ELSE Rejected
  BY <1>13 DEF Opened
<1>15. plain[TagPos].ks = {} => c.key = d.key /\ c.iv = d.iv
  BY <1>3, <1>6, <1>7, UnitAtFacts
<1>16. c.key = d.key /\ c.iv = d.iv => plain[TagPos].ks = {}
  <2>1. c.key = d.key /\ c.iv = d.iv => w = u
    BY <1>3 DEF UnitAt
  <2>2. QED
    BY <1>4, <1>5, <1>7, <2>1
<1> HIDE DEF plain
<1>17. QED
  BY <1>14, <1>15, <1>16

(* The init towards Telegram has a key of its own, and says what it is     *)
(* made to say.                                                            *)
LEMMA RelayFacts ==
  ASSUME NEW proto, NEW dc, NEW h, h = generate_relay_init(proto, dc, Random("relay"))
  PROVE  /\ PrekeyIv(h) = Seed("relay")
         /\ proto \in Tags =>
              Opened(h, Raw(PrekeyIv(h))) = [ok |-> TRUE, proto |-> proto, dc |-> dc]
<1> DEFINE c == Raw(PrekeyIv(Random("relay")))
<1>1. c = Relay /\ Relay = At(Relay, 1)
  BY SeedOfRandom, CipherFacts DEF Relay
<1>2. PICK x, y, z : /\ x = Xor(Byte("tag", proto), Unit(c, TagPos))
                     /\ y = Xor(Byte("dc", dc), Unit(c, DcPos))
                     /\ z = Xor(Byte("pad", 0), Unit(c, PadPos))
  OBVIOUS
<1>3. h = [[Random("relay") EXCEPT ![TagPos] = x, ![DcPos] = y] EXCEPT ![PadPos] = z]
  BY <1>2 DEF generate_relay_init, Sealed
<1>4. h = SealedInit("relay", x, y, z)
  BY <1>3 DEF SealedInit
<1>5. /\ h \in Seq({Byte("relay", i) : i \in 1..HandshakeLen} \union {x, y, z})
      /\ Len(h) = HandshakeLen /\ PrekeyIv(h) = Seed("relay")
      /\ h[TagPos] = x /\ h[DcPos] = y
  BY ONLY <1>4, SealedFacts
<1>6. Relay.at = 1
  BY <1>1 DEF At
<1>7. TagPos \in Nat /\ DcPos \in Nat /\ 1 + TagPos - 1 = TagPos /\ 1 + DcPos - 1 = DcPos
  BY Layout
<1>8. Unit(Relay, TagPos) = UnitAt(Relay, TagPos) /\ Unit(Relay, DcPos) = UnitAt(Relay, DcPos)
  BY <1>6, <1>7 DEF Unit, UnitAt
<1>9. /\ h[TagPos] = Xor(Byte("tag", proto), UnitAt(Relay, TagPos))
      /\ h[DcPos] = Xor(Byte("dc", dc), UnitAt(Relay, DcPos))
  BY <1>1, <1>2, <1>5, <1>8
<1>10. proto \in Tags => Opened(h, Relay) = [ok |-> TRUE, proto |-> proto, dc |-> dc]
  BY ONLY <1>1, <1>5, <1>9, OpenedFacts
<1>11. QED
  BY <1>5, <1>10 DEF Relay

LEMMA AsI16Facts ==
  /\ \A n : IsI16(n) => AsI16(n) = n
  /\ AsI16(32768) = 0 - 32768
<1>1. ASSUME NEW n, IsI16(n) PROVE AsI16(n) = n
  BY <1>1 DEF IsI16, AsI16
<1>2. AsI16(32768) = 0 - 32768
  BY DEF AsI16
<1>3. QED
  BY <1>1, <1>2

(* The DC index survives its way through an absolute value, an i16 and a   *)
(* negation.                                                               *)
LEMMA DcIdxFacts ==
  ASSUME NEW dc, IsI16(dc), NEW info, info.dc_id = unsigned_abs(dc),
         info.is_media = (dc < 0)
  PROVE  DcIdx(info) = dc
<1>1. CASE dc < 0
  <2>1. PICK n : n = 0 - dc
    OBVIOUS
  <2>2. info.dc_id = n /\ info.is_media
    BY <1>1, <2>1 DEF unsigned_abs
  <2>3. n \in 1..32768 /\ 0 - n = dc
    BY <1>1, <2>1 DEF IsI16
  <2>4. CASE n = 32768
    <3>1. AsI16(n) = 0 - 32768 /\ 0 - (0 - 32768) = 32768
      BY <2>4, AsI16Facts
    <3>2. AsI16(0 - AsI16(n)) = 0 - 32768
      BY <3>1, AsI16Facts
    <3>3. QED
      BY <2>2, <2>3, <2>4, <3>2 DEF DcIdx
  <2>5. CASE n # 32768
    <3>1. IsI16(n) /\ IsI16(0 - n)
      BY <2>3, <2>5 DEF IsI16
    <3>2. AsI16(n) = n /\ AsI16(0 - n) = 0 - n
      BY <3>1, AsI16Facts
    <3>3. AsI16(0 - AsI16(n)) = 0 - n
      BY <3>2
    <3>4. QED
      BY <2>2, <2>3, <3>3 DEF DcIdx
  <2>6. QED
    BY <2>4, <2>5
<1>2. CASE ~(dc < 0)
  <2>1. info.dc_id = dc /\ ~info.is_media
    BY <1>2 DEF unsigned_abs
  <2>2. AsI16(dc) = dc
    BY AsI16Facts
  <2>3. QED
    BY <2>1, <2>2 DEF DcIdx
<1>3. QED
  BY <1>1, <1>2

(* The init of a client opens under its own secret and no other, and gives *)
(* what the client put there.                                              *)
LEMMA ParseFacts ==
  ASSUME NEW l, IsI16(l.dc), NEW s, NEW info,
         info = parse_handshake(InitOf(l), s), info # Rejected
  PROVE  /\ s = l.secret /\ info.secret = s /\ info.prekey_and_iv = Seed("client")
         /\ info.proto = l.proto /\ DcIdx(info) = l.dc /\ l.proto \in Tags
<1> DEFINE c == Keyed(Seed("client"), s)
           o == Opened(InitOf(l), c)
<1>1. /\ (\E S : InitOf(l) \in Seq(S)) /\ Len(InitOf(l)) = HandshakeLen
      /\ PrekeyIv(InitOf(l)) = Seed("client")
      /\ InitOf(l)[TagPos] = Xor(Byte("tag", l.proto), UnitAt(Up(l), TagPos))
      /\ InitOf(l)[DcPos] = Xor(Byte("dc", l.dc), UnitAt(Up(l), DcPos))
  BY InitFacts
<1>2. /\ c = At(c, 1) /\ c.key = [raw |-> Prekey(Seed("client")), secret |-> s]
      /\ Up(l).key = [raw |-> Prekey(Seed("client")), secret |-> l.secret]
  BY CipherFacts DEF Up
<1>3. info = IF ~o.ok THEN Rejected
             ELSE [ok |-> TRUE, proto |-> o.proto, secret |-> s,
                   dc_id |-> unsigned_abs(o.dc), is_media |-> o.dc < 0,
                   prekey_and_iv |-> Seed("client")]
  BY <1>1 DEF parse_handshake
<1>4. o.ok /\ o # Rejected
  BY <1>3 DEF Rejected
<1> HIDE DEF c
<1>5. /\ o # Rejected => c.key = Up(l).key /\ c.iv = Up(l).iv /\ l.proto \in Tags
      /\ c.key = Up(l).key /\ c.iv = Up(l).iv /\ l.proto \in Tags
           => o = [ok |-> TRUE, proto |-> l.proto, dc |-> l.dc]
  BY <1>1, <1>2, OpenedFacts
<1>6. /\ c.key = Up(l).key /\ l.proto \in Tags
      /\ o = [ok |-> TRUE, proto |-> l.proto, dc |-> l.dc]
  BY <1>4, <1>5
<1>7. s = l.secret
  <2>1. \A a, b, e, f : [raw |-> a, secret |-> b] = [raw |-> e, secret |-> f] => a = e /\ b = f
    OBVIOUS
  <2>2. QED
    BY <1>2, <1>6, <2>1
<1> HIDE DEF o
<1>8. info = [ok |-> TRUE, proto |-> l.proto, secret |-> s,
              dc_id |-> unsigned_abs(l.dc), is_media |-> l.dc < 0,
              prekey_and_iv |-> Seed("client")]
  BY <1>3, <1>6
<1>9. info.dc_id = unsigned_abs(l.dc) /\ info.is_media = (l.dc < 0)
  BY <1>8
<1>10. DcIdx(info) = l.dc
  BY <1>9, DcIdxFacts
<1>11. QED
  BY <1>6, <1>7, <1>8, <1>10

-----------------------------------------------------------------------------
(* Pieces of a stream. *)

(* A stream has a byte for every number; a piece of it holds the bytes     *)
(* behind a up to b.                                                       *)
IsStream(f) == \E T : f \in [Nat -> T]
IsSeq(q) == \E T : q \in Seq(T)
Slice(q, m, n) == SubSeq(q, m, n)
Piece(f, a, b) == [i \in 1..(b - a) |-> f[a + i]]

LEMMA PieceFacts ==
  ASSUME NEW f, NEW T, f \in [Nat -> T], NEW a \in Nat, NEW b \in Nat, a <= b
  PROVE  /\ Piece(f, a, b) \in Seq(T) /\ Len(Piece(f, a, b)) = b - a
         /\ \A i \in 1..(b - a) : Piece(f, a, b)[i] = f[a + i] /\ f[a + i] \in T
<1>1. PICK n : n = b - a
  OBVIOUS
<1>2. n \in Nat
  BY <1>1
<1>3. \A i \in 1..n : f[a + i] \in T
  OBVIOUS
<1>4. PICK p : p = [i \in 1..n |-> f[a + i]]
  OBVIOUS
<1>5. p \in [1..n -> T]
  BY <1>3, <1>4
<1>6. p \in Seq(T) /\ Len(p) = n
  BY <1>2, <1>5, FunctionIsSeq
<1>7. QED
  BY <1>1, <1>3, <1>4, <1>6 DEF Piece

LEMMA PieceSeq ==
  ASSUME NEW f, IsStream(f), NEW a \in Nat, NEW b \in Nat, a <= b
  PROVE  IsSeq(Piece(f, a, b)) /\ Len(Piece(f, a, b)) = b - a
<1>1. PICK T : f \in [Nat -> T]
  BY DEF IsStream
<1>2. QED
  BY <1>1, PieceFacts DEF IsSeq

(* A sequence with the bytes of a piece is the piece.                      *)
LEMMA PieceIs ==
  ASSUME NEW f, IsStream(f), NEW a \in Nat, NEW b \in Nat, a <= b,
         NEW q, IsSeq(q), Len(q) = b - a, \A i \in 1..(b - a) : q[i] = f[a + i]
  PROVE  q = Piece(f, a, b)
<1>1. PICK S : q \in Seq(S)
  BY DEF IsSeq
<1>2. q = [i \in 1..Len(q) |-> q[i]]
  BY <1>1
<1>3. QED
  BY <1>2 DEF Piece

LEMMA PieceEmpty ==
  ASSUME NEW f, IsStream(f), NEW a \in Nat, NEW b \in Nat, a <= b
  PROVE  Piece(f, a, b) = <<>> <=> a = b
<1>1. IsSeq(Piece(f, a, b)) /\ Len(Piece(f, a, b)) = b - a
  BY PieceSeq
<1>2. PICK p : p = Piece(f, a, b)
  OBVIOUS
<1>3. PICK S : p \in Seq(S)
  BY <1>1, <1>2 DEF IsSeq
<1>4. p = <<>> <=> Len(p) = 0
  BY <1>3
<1>5. b - a = 0 <=> a = b
  OBVIOUS
<1>6. QED
  BY <1>1, <1>2, <1>4, <1>5

LEMMA PieceJoin ==
  ASSUME NEW f, IsStream(f), NEW a \in Nat, NEW b \in Nat, NEW c \in Nat, a <= b, b <= c
  PROVE  Piece(f, a, b) \o Piece(f, b, c) = Piece(f, a, c)
<1>1. PICK T : f \in [Nat -> T]
  BY DEF IsStream
<1>2. PICK p, q : p = Piece(f, a, b) /\ q = Piece(f, b, c)
  OBVIOUS
<1>3. /\ p \in Seq(T) /\ Len(p) = b - a /\ \A i \in 1..(b - a) : p[i] = f[a + i]
      /\ q \in Seq(T) /\ Len(q) = c - b /\ \A i \in 1..(c - b) : q[i] = f[b + i]
  <2>1. a \in Nat /\ b \in Nat /\ c \in Nat /\ a <= b /\ b <= c
    OBVIOUS
  <2>2. /\ Piece(f, a, b) \in Seq(T) /\ Len(Piece(f, a, b)) = b - a
        /\ \A i \in 1..(b - a) : Piece(f, a, b)[i] = f[a + i] /\ f[a + i] \in T
    BY ONLY <1>1, <2>1, PieceFacts
  <2>3. /\ Piece(f, b, c) \in Seq(T) /\ Len(Piece(f, b, c)) = c - b
        /\ \A i \in 1..(c - b) : Piece(f, b, c)[i] = f[b + i] /\ f[b + i] \in T
    BY ONLY <1>1, <2>1, PieceFacts
  <2>4. QED
    BY ONLY <1>2, <2>2, <2>3
<1>4. /\ p \o q \in Seq(T) /\ Len(p \o q) = c - a
      /\ \A i \in 1..(c - a) : (p \o q)[i] = IF i <= b - a THEN p[i] ELSE q[i - (b - a)]
  <2>1. p \o q \in Seq(T) /\ Len(p \o q) = Len(p) + Len(q)
    <3>1. p \in Seq(T) /\ q \in Seq(T)
      BY <1>3
    <3>2. QED
      BY ONLY <3>1
  <2>2. Len(p) + Len(q) = c - a
    BY <1>3
  <2>3. QED
    BY <1>3, <2>1, <2>2
<1>5. ASSUME NEW i \in 1..(c - a) PROVE (p \o q)[i] = f[a + i]
  <2>1. CASE i <= b - a
    <3>1. i \in 1..(b - a)
      BY <2>1
    <3>2. QED
      BY <1>3, <1>4, <2>1, <3>1
  <2>2. CASE ~(i <= b - a)
    <3>1. PICK k : k = i - (b - a)
      OBVIOUS
    <3>2. k \in 1..(c - b) /\ b + k = a + i
      BY <2>2, <3>1
    <3>3. q[k] = f[b + k]
      BY <1>3, <3>2
    <3>4. QED
      BY <1>4, <2>2, <3>1, <3>2, <3>3
  <2>3. QED
    BY <2>1, <2>2
<1>6. IsSeq(p \o q) /\ Len(p \o q) = c - a /\ a <= c
  BY <1>4 DEF IsSeq
<1>7. QED
  BY <1>2, <1>5, <1>6, PieceIs

LEMMA PieceSub ==
  ASSUME NEW f, IsStream(f), NEW a \in Nat, NEW b \in Nat, NEW c \in Nat, NEW d \in Nat,
         a <= c, c <= d, d <= b, NEW m, NEW n, m = c - a + 1, n = d - a
  PROVE  Slice(Piece(f, a, b), m, n) = Piece(f, c, d)
<1>0. m \in Int /\ n \in Int /\ m \in Nat /\ n \in Nat /\ m <= n + 1 /\ 1 <= m /\ n <= b - a
  OBVIOUS
<1>1. PICK T : f \in [Nat -> T]
  BY DEF IsStream
<1>2. PICK p : p = Piece(f, a, b)
  OBVIOUS
<1>3. /\ p \in Seq(T) /\ Len(p) = b - a
      /\ \A i \in 1..(b - a) : p[i] = f[a + i] /\ f[a + i] \in T
  <2>1. a \in Nat /\ b \in Nat /\ a <= b
    OBVIOUS
  <2>2. /\ Piece(f, a, b) \in Seq(T) /\ Len(Piece(f, a, b)) = b - a
        /\ \A i \in 1..(b - a) : Piece(f, a, b)[i] = f[a + i] /\ f[a + i] \in T
    BY ONLY <1>1, <2>1, PieceFacts
  <2>3. QED
    BY ONLY <1>2, <2>2
<1>4. \A i \in m..n : p[i] \in T
  BY <1>0, <1>3
<1>5. PICK q : q = SubSeq(p, m, n)
  OBVIOUS
<1>6. /\ q \in Seq(T)
      /\ Len(q) = IF m <= n THEN n - m + 1 ELSE 0
      /\ \A i \in 1..(n - m + 1) : q[i] = p[m + i - 1]
  BY ONLY <1>0, <1>4, <1>5, SubSeqProperties
<1>7. n - m + 1 = d - c /\ (IF m <= n THEN n - m + 1 ELSE 0) = d - c
  OBVIOUS
<1>8. ASSUME NEW i \in 1..(d - c) PROVE q[i] = f[c + i]
  <2>1. PICK k : k = m + i - 1
    OBVIOUS
  <2>2. k \in 1..(b - a) /\ a + k = c + i
    BY <2>1
  <2>3. q[i] = p[k]
    BY <1>6, <1>7, <2>1
  <2>4. p[k] = f[a + k]
    BY <1>3, <2>2
  <2>5. QED
    BY <2>2, <2>3, <2>4
<1>9. IsSeq(q) /\ Len(q) = d - c
  BY <1>6, <1>7 DEF IsSeq
<1>10. q = Piece(f, c, d)
  BY <1>8, <1>9, PieceIs
<1>11. QED
  BY <1>2, <1>5, <1>10 DEF Slice

(* The head and the rest of a piece.                                       *)
LEMMA PieceSplit ==
  ASSUME NEW f, IsStream(f), NEW a \in Nat, NEW b \in Nat, NEW c \in Nat,
         a <= c, c <= b
  PROVE  /\ \A n : n = c - a => Slice(Piece(f, a, b), 1, n) = Piece(f, a, c)
         /\ \A n : n = c - a =>
              Slice(Piece(f, a, b), n + 1, Len(Piece(f, a, b))) = Piece(f, c, b)
<1> SUFFICES ASSUME NEW n, n = c - a
             PROVE  /\ Slice(Piece(f, a, b), 1, n) = Piece(f, a, c)
                    /\ Slice(Piece(f, a, b), n + 1, Len(Piece(f, a, b))) = Piece(f, c, b)
  OBVIOUS
<1>1. PICK d, m, x : d = b - a /\ m = n + 1 /\ x = 1
  OBVIOUS
<1>2. x = a - a + 1 /\ m = c - a + 1 /\ a <= a /\ b <= b /\ a <= b
  BY <1>1
<1>3. Slice(Piece(f, a, b), x, n) = Piece(f, a, c)
  BY <1>2, PieceSub
<1>4. Slice(Piece(f, a, b), m, d) = Piece(f, c, b)
  BY <1>1, <1>2, PieceSub
<1>5. Len(Piece(f, a, b)) = d
  BY <1>1, <1>2, PieceSeq
<1>6. QED
  BY ONLY <1>1, <1>3, <1>4, <1>5

-----------------------------------------------------------------------------
(* Records that hold a stream. *)

(* A record holds the bytes behind a up to b, which are none unless it is  *)
(* application data.                                                       *)
Holds(f, r, a, b) ==
  a <= b /\ IF r.type = "appdata" THEN r.payload = Piece(f, a, b) ELSE a = b

(* The places between the records of q.                                    *)
Places(f, q, a, b, st) ==
  /\ st \in [1..(Len(q) + 1) -> Nat]
  /\ st[1] = a /\ st[Len(q) + 1] = b
  /\ \A i \in 1..Len(q) : Holds(f, q[i], st[i], st[i + 1]) /\ st[i + 1] <= b

LaidOut(f, q, a, b) == IsSeq(q) /\ \E st : Places(f, q, a, b, st)

LEMMA LaidNone ==
  ASSUME NEW f, NEW a \in Nat, NEW b \in Nat
  PROVE  LaidOut(f, <<>>, a, b) <=> a = b
<1>1. PICK e : e = <<>> /\ Len(e) = 0 /\ IsSeq(e)
  <2>1. <<>> \in Seq({}) /\ Len(<<>>) = 0
    OBVIOUS
  <2>2. QED
    BY <2>1 DEF IsSeq
<1>2. ASSUME a = b PROVE LaidOut(f, e, a, b)
  <2> DEFINE st == [i \in 1..(Len(e) + 1) |-> a]
  <2>1. Places(f, e, a, b, st)
    BY <1>1, <1>2 DEF Places
  <2> HIDE DEF st
  <2>2. QED
    BY <1>1, <2>1 DEF LaidOut
<1>3. ASSUME LaidOut(f, e, a, b) PROVE a = b
  BY <1>1, <1>3 DEF LaidOut, Places
<1>4. QED
  BY <1>1, <1>2, <1>3

LEMMA LaidOne ==
  ASSUME NEW f, NEW a \in Nat, NEW b \in Nat, NEW r, Holds(f, r, a, b)
  PROVE  LaidOut(f, <<r>>, a, b)
<1>1. PICK q : q = <<r>> /\ Len(q) = 1 /\ q[1] = r /\ IsSeq(q)
  <2>1. <<r>> \in Seq({r}) /\ Len(<<r>>) = 1 /\ <<r>>[1] = r
    OBVIOUS
  <2>2. QED
    BY <2>1 DEF IsSeq
<1> DEFINE st == [i \in 1..(Len(q) + 1) |-> IF i = 1 THEN a ELSE b]
<1>2. st \in [1..(Len(q) + 1) -> Nat] /\ st[1] = a /\ st[2] = b
  BY <1>1
<1>3. \A i \in 1..Len(q) : i = 1
  BY <1>1
<1> HIDE DEF st
<1>4. Places(f, q, a, b, st)
  BY <1>1, <1>2, <1>3 DEF Places
<1>5. QED
  BY <1>1, <1>4 DEF LaidOut

LEMMA LaidTail ==
  ASSUME NEW f, NEW q, NEW a \in Nat, NEW b \in Nat, LaidOut(f, q, a, b), q # <<>>
  PROVE  /\ IsSeq(Tail(q))
         /\ \E c \in Nat : a <= c /\ c <= b /\ Holds(f, Head(q), a, c)
                                /\ LaidOut(f, Tail(q), c, b)
<1>1. PICK st : Places(f, q, a, b, st)
  BY DEF LaidOut
<1>2. PICK T : q \in Seq(T)
  BY DEF LaidOut, IsSeq
<1>3. PICK n : n = Len(q)
  OBVIOUS
<1>4. n \in Nat /\ n >= 1
  BY <1>2, <1>3
<1>5. /\ st \in [1..(n + 1) -> Nat] /\ st[1] = a /\ st[n + 1] = b
      /\ \A i \in 1..n : Holds(f, q[i], st[i], st[i + 1]) /\ st[i + 1] <= b
  BY <1>1, <1>3 DEF Places
<1>6. PICK t : t = Tail(q)
  OBVIOUS
<1>7. t \in Seq(T) /\ Len(t) = n - 1 /\ \A i \in 1..(n - 1) : t[i] = q[i + 1]
  BY <1>2, <1>3, <1>4, <1>6
<1>8. PICK c : c = st[2]
  OBVIOUS
<1>9. c \in Nat /\ Holds(f, q[1], a, c) /\ c <= b /\ a <= c
  <2>1. 1 \in 1..n /\ 2 \in 1..(n + 1) /\ 1 + 1 = 2
    BY <1>4
  <2>2. Holds(f, q[1], st[1], st[2]) /\ st[2] <= b /\ st[2] \in Nat
    BY <1>5, <2>1
  <2>3. QED
    BY <1>5, <1>8, <2>2 DEF Holds
<1> DEFINE sh == [i \in 1..n |-> st[i + 1]]
<1>10. sh \in [1..n -> Nat] /\ sh[1] = c /\ sh[n] = b
  <2>1. \A i \in 1..n : i + 1 \in 1..(n + 1) /\ st[i + 1] \in Nat
    BY <1>4, <1>5
  <2>2. 1 \in 1..n /\ n \in 1..n /\ 1 + 1 = 2
    BY <1>4
  <2>3. QED
    BY <1>5, <1>8, <2>1, <2>2
<1>11. ASSUME NEW i \in 1..(n - 1) PROVE Holds(f, t[i], sh[i], sh[i + 1]) /\ sh[i + 1] <= b
  <2>1. PICK k : k = i + 1
    OBVIOUS
  <2>2. k \in 1..n /\ i \in 1..n
    BY <1>4, <2>1
  <2>3. Holds(f, q[k], st[k], st[k + 1]) /\ st[k + 1] <= b
    BY <1>5, <2>2
  <2>4. sh[i] = st[k] /\ sh[k] = st[k + 1] /\ t[i] = q[k]
    BY <1>7, <2>1, <2>2
  <2> HIDE DEF sh
  <2>5. QED
    BY <2>1, <2>3, <2>4
<1> HIDE DEF sh
<1>12. Len(t) + 1 = n /\ Len(t) = n - 1
  BY <1>4, <1>7
<1>13. Places(f, t, c, b, sh)
  BY <1>10, <1>11, <1>12 DEF Places
<1>14. IsSeq(t) /\ LaidOut(f, t, c, b)
  BY <1>7, <1>13 DEF LaidOut, IsSeq
<1>15. Head(q) = q[1]
  BY <1>2
<1>16. QED
  BY <1>6, <1>9, <1>14, <1>15

LEMMA LaidJoin ==
  ASSUME NEW f, NEW p, NEW q, NEW a \in Nat, NEW b \in Nat, NEW c \in Nat, b <= c,
         LaidOut(f, p, a, b), LaidOut(f, q, b, c)
  PROVE  LaidOut(f, p \o q, a, c)
<1>1. PICK s : Places(f, p, a, b, s)
  BY DEF LaidOut
<1>2. PICK t : Places(f, q, b, c, t)
  BY DEF LaidOut
<1>3. PICK S : p \in Seq(S)
  BY DEF LaidOut, IsSeq
<1>4. PICK T : q \in Seq(T)
  BY DEF LaidOut, IsSeq
<1>5. PICK m, n, r : m = Len(p) /\ n = Len(q) /\ r = p \o q
  OBVIOUS
<1>6. m \in Nat /\ n \in Nat
  BY <1>3, <1>4, <1>5
<1>7. /\ s \in [1..(m + 1) -> Nat] /\ s[1] = a /\ s[m + 1] = b
      /\ \A i \in 1..m : Holds(f, p[i], s[i], s[i + 1]) /\ s[i + 1] <= b
  BY <1>1, <1>5 DEF Places
<1>8. /\ t \in [1..(n + 1) -> Nat] /\ t[1] = b /\ t[n + 1] = c
      /\ \A i \in 1..n : Holds(f, q[i], t[i], t[i + 1]) /\ t[i + 1] <= c
  BY <1>2, <1>5 DEF Places
<1>9. p \in Seq(S \union T) /\ q \in Seq(S \union T)
  BY <1>3, <1>4
<1>10. /\ r \in Seq(S \union T) /\ Len(r) = m + n
       /\ \A i \in 1..(m + n) : r[i] = IF i <= m THEN p[i] ELSE q[i - m]
  BY <1>5, <1>6, <1>9, ConcatProperties
<1> DEFINE u == [i \in 1..(m + n + 1) |-> IF i <= m THEN s[i] ELSE t[i - m]]
<1>11. /\ \A i \in 1..(m + 1) : u[i] = s[i]
       /\ \A i \in 1..(n + 1) : u[m + i] = t[i]
  <2>1. ASSUME NEW i \in 1..(m + 1) PROVE u[i] = s[i]
    <3>1. i \in 1..(m + n + 1)
      BY <1>6
    <3>2. CASE i <= m
      BY <3>1, <3>2
    <3>3. CASE i = m + 1
      <4>1. (m + 1) - m = 1 /\ ~(m + 1 <= m)
        BY <1>6
      <4>2. QED
        BY <1>7, <1>8, <3>1, <3>3, <4>1
    <3>4. QED
      BY <1>6, <3>2, <3>3
  <2>2. ASSUME NEW i \in 1..(n + 1) PROVE u[m + i] = t[i]
    <3>1. m + i \in 1..(m + n + 1) /\ ~(m + i <= m) /\ (m + i) - m = i
      BY <1>6
    <3>2. QED
      BY <3>1
  <2>3. QED
    BY <2>1, <2>2
<1>12. u \in [1..(m + n + 1) -> Nat]
  <2>1. ASSUME NEW i \in 1..(m + n + 1) PROVE (IF i <= m THEN s[i] ELSE t[i - m]) \in Nat
    <3>1. CASE i <= m
      <4>1. i \in 1..(m + 1)
        BY <1>6, <3>1
      <4>2. QED
        BY <1>7, <3>1, <4>1
    <3>2. CASE ~(i <= m)
      <4>1. i - m \in 1..(n + 1)
        BY <1>6, <3>2
      <4>2. QED
        BY <1>8, <3>2, <4>1
    <3>3. QED
      BY <3>1, <3>2
  <2>2. QED
    BY <2>1
<1> HIDE DEF u
<1>13. ASSUME NEW i \in 1..(m + n) PROVE Holds(f, r[i], u[i], u[i + 1]) /\ u[i + 1] <= c
  <2>1. CASE i <= m
    <3>1. i \in 1..m /\ i \in 1..(m + 1) /\ i + 1 \in 1..(m + 1)
      BY <1>6, <2>1
    <3>2. Holds(f, p[i], s[i], s[i + 1]) /\ s[i + 1] <= b /\ s[i + 1] \in Nat
      BY <1>7, <3>1
    <3>3. s[i + 1] <= c
      BY <3>2
    <3>4. u[i] = s[i] /\ u[i + 1] = s[i + 1] /\ r[i] = p[i]
      BY <1>10, <1>11, <2>1, <3>1
    <3>5. QED
      BY <3>2, <3>3, <3>4
  <2>2. CASE ~(i <= m)
    <3>1. PICK k : k = i - m
      OBVIOUS
    <3>2. k \in 1..n /\ k \in 1..(n + 1) /\ k + 1 \in 1..(n + 1) /\ m + k = i
          /\ m + (k + 1) = i + 1
      BY <1>6, <2>2, <3>1
    <3>3. Holds(f, q[k], t[k], t[k + 1]) /\ t[k + 1] <= c
      BY <1>8, <3>2
    <3>4. u[m + k] = t[k] /\ u[m + (k + 1)] = t[k + 1] /\ r[i] = q[k]
      BY <1>10, <1>11, <2>2, <3>1, <3>2
    <3>5. QED
      BY <3>2, <3>3, <3>4
  <2>3. QED
    BY <2>1, <2>2
<1>14. u[1] = a /\ u[m + n + 1] = c
  <2>1. 1 \in 1..(m + 1) /\ n + 1 \in 1..(n + 1) /\ m + (n + 1) = m + n + 1
    BY <1>6
  <2>2. QED
    BY <1>7, <1>8, <1>11, <2>1
<1>15. Places(f, r, a, c, u)
  BY <1>10, <1>12, <1>13, <1>14 DEF Places
<1>16. QED
  BY <1>5, <1>10, <1>15 DEF LaidOut, IsSeq

(* What the reader does not take for the end of the stream.                *)
Readable(q) == \A i \in 1..Len(q) : read_tls_appdata(q[i]) \in {"data", "skip"}

LEMMA ReadableTail ==
  ASSUME NEW q, IsSeq(q), q # <<>>, Readable(q)
  PROVE  Readable(Tail(q)) /\ read_tls_appdata(Head(q)) \in {"data", "skip"}
<1>1. PICK T : q \in Seq(T)
  BY DEF IsSeq
<1>2. PICK t, n : t = Tail(q) /\ n = Len(q)
  OBVIOUS
<1>3. /\ n \in Nat /\ n >= 1 /\ Len(t) = n - 1 /\ Head(q) = q[1]
      /\ \A i \in 1..(n - 1) : t[i] = q[i + 1]
  BY <1>1, <1>2
<1>4. \A i \in 1..(n - 1) : i + 1 \in 1..n
  BY <1>3
<1>5. 1 \in 1..n
  BY <1>3
<1>6. QED
  BY <1>2, <1>3, <1>4, <1>5 DEF Readable

LEMMA ReadableJoin ==
  ASSUME NEW p, NEW q, IsSeq(p), IsSeq(q), Readable(p), Readable(q)
  PROVE  Readable(p \o q)
<1>1. PICK S : p \in Seq(S)
  BY DEF IsSeq
<1>2. PICK T : q \in Seq(T)
  BY DEF IsSeq
<1>3. PICK m, n, r : m = Len(p) /\ n = Len(q) /\ r = p \o q
  OBVIOUS
<1>4. m \in Nat /\ n \in Nat /\ p \in Seq(S \union T) /\ q \in Seq(S \union T)
  BY <1>1, <1>2, <1>3
<1>5. /\ Len(r) = m + n
      /\ \A i \in 1..(m + n) : r[i] = IF i <= m THEN p[i] ELSE q[i - m]
  BY <1>3, <1>4, ConcatProperties
<1>6. ASSUME NEW i \in 1..(m + n) PROVE read_tls_appdata(r[i]) \in {"data", "skip"}
  <2>1. CASE i <= m
    <3>1. i \in 1..m
      BY <1>4, <2>1
    <3>2. QED
      BY <1>3, <1>5, <2>1, <3>1 DEF Readable
  <2>2. CASE ~(i <= m)
    <3>1. i - m \in 1..n
      BY <1>4, <2>2
    <3>2. QED
      BY <1>3, <1>5, <2>2, <3>1 DEF Readable
  <2>3. QED
    BY <2>1, <2>2
<1>7. QED
  BY <1>3, <1>5, <1>6 DEF Readable

LEMMA ReadableOne ==
  ASSUME NEW r, read_tls_appdata(r) \in {"data", "skip"}
  PROVE  Readable(<<r>>) /\ IsSeq(<<r>>)
<1>1. PICK q : q = <<r>>
  OBVIOUS
<1>2. q \in Seq({r}) /\ Len(q) = 1 /\ q[1] = r
  BY <1>1
<1>3. \A i \in 1..Len(q) : q[i] = r
  BY <1>2
<1>4. QED
  BY <1>1, <1>2, <1>3 DEF Readable, IsSeq

LEMMA Sizes ==
  MaxPayload \in Nat /\ MaxPayload > 0 /\ BufSize \in Nat /\ MaxPayload <= BufSize
  BY RecordAssumption DEF BufSize

(* Application data that a reader has room for.                            *)
LEMMA DataIsRead ==
  ASSUME NEW f, IsStream(f), NEW a \in Nat, NEW b \in Nat, a < b, b - a <= BufSize
  PROVE  read_tls_appdata(AppData(Piece(f, a, b))) = "data"
<1>1. PICK p : p = Piece(f, a, b)
  OBVIOUS
<1>2. Len(p) = b - a /\ p # <<>>
  <2>1. a <= b /\ a # b
    OBVIOUS
  <2>2. Len(Piece(f, a, b)) = b - a
    BY <2>1, PieceSeq
  <2>3. Piece(f, a, b) = <<>> <=> a = b
    BY <2>1, PieceEmpty
  <2>4. QED
    BY <1>1, <2>1, <2>2, <2>3
<1>3. PICK r : r = AppData(p)
  OBVIOUS
<1>4. r.payload = p /\ r.type = "appdata"
  BY <1>3 DEF AppData, Record
<1>5. ~(Len(r.payload) > BufSize)
  BY <1>2, <1>4, Sizes
<1>6. read_tls_appdata(r) = "data"
  BY <1>2, <1>4, <1>5 DEF read_tls_appdata
<1>7. QED
  BY <1>1, <1>3, <1>6

LEMMA AppDataHolds ==
  ASSUME NEW f, NEW a \in Nat, NEW b \in Nat, a <= b
  PROVE  Holds(f, AppData(Piece(f, a, b)), a, b)
<1>1. PICK p : p = Piece(f, a, b)
  OBVIOUS
<1>2. AppData(p).payload = p /\ AppData(p).type = "appdata"
  BY DEF AppData, Record
<1>3. QED
  BY <1>1, <1>2 DEF Holds

LEMMA DivFacts ==
  ASSUME NEW n \in Nat, NEW m \in Nat, m > 0
  PROVE  n \div m \in Nat /\ (n \div m) * m <= n /\ n < (n \div m) * m + m
  OBVIOUS

LEMMA TimesFacts ==
  ASSUME NEW m \in Nat, NEW i \in Nat, NEW k \in Nat, i <= k
  PROVE  i * m \in Nat /\ i * m <= k * m /\ (i + 1) * m = i * m + m
  OBVIOUS

LEMMA MinFacts ==
  ASSUME NEW x \in Int, NEW y \in Int
  PROVE  Min({x, y}) = IF x <= y THEN x ELSE y
<1>1. PICK z : z = IF x <= y THEN x ELSE y
  OBVIOUS
<1>2. z \in {x, y} /\ (\A w \in {x, y} : z =< w) /\ z \in Int
  BY <1>1
<1>3. \A v \in {x, y} : (\A w \in {x, y} : v =< w) => v = z
  BY <1>2
<1>4. QED
  BY <1>1, <1>2, <1>3 DEF Min

(* write_tls_appdata cuts a piece into records that lay it out, each of    *)
(* them fit to be read.                                                    *)
LEMMA WriteFacts ==
  ASSUME NEW f, IsStream(f), NEW a \in Nat, NEW b \in Nat, a <= b
  PROVE  /\ LaidOut(f, write_tls_appdata(Piece(f, a, b)), a, b)
         /\ Readable(write_tls_appdata(Piece(f, a, b)))
<1>1. PICK p, n, m, count : /\ p = Piece(f, a, b) /\ n = b - a /\ m = MaxPayload
                            /\ count = (Len(p) + MaxPayload - 1) \div MaxPayload
  OBVIOUS
<1>2. Len(p) = n /\ n \in Nat /\ m \in Nat /\ m > 0 /\ m <= BufSize /\ BufSize \in Nat
  BY <1>1, PieceSeq, Sizes
<1>3. PICK x : x = n + m - 1
  OBVIOUS
<1>4. x \in Nat /\ count = x \div m
  BY <1>1, <1>2, <1>3
<1>5. count \in Nat /\ count * m <= x /\ x < count * m + m
  BY ONLY <1>2, <1>4, DivFacts
<1>6. count * m \in Nat /\ n <= count * m
  <2>1. count * m \in Nat
    BY <1>2, <1>5, TimesFacts
  <2>2. PICK y : y = count * m
    OBVIOUS
  <2>3. QED
    BY <1>2, <1>3, <1>5, <2>1, <2>2
<1> DEFINE lo(i) == (i - 1) * m
           hi(i) == IF i * m <= n THEN i * m ELSE n
<1>7. ASSUME NEW i \in 1..count
      PROVE  /\ lo(i) \in Nat /\ lo(i) < n /\ i * m = lo(i) + m /\ i * m \in Nat
             /\ hi(i) \in Nat /\ lo(i) < hi(i) /\ hi(i) <= n /\ hi(i) - lo(i) <= m
  <2>1. PICK j : j = i - 1
    OBVIOUS
  <2>2. j \in Nat /\ j + 1 = i /\ j <= count /\ i \in Nat /\ i <= count
    BY <1>5, <2>1
  <2>3. j * m \in Nat /\ i * m = j * m + m
    BY <1>2, <1>5, <2>2, TimesFacts
  <2>4. i * m <= count * m
    BY <1>2, <1>5, <2>2, TimesFacts
  <2>5. PICK y, z : y = j * m /\ z = count * m
    OBVIOUS
  <2>6. y + m <= z /\ y \in Nat /\ z \in Nat /\ z <= n + m - 1
    BY <1>3, <1>5, <1>6, <2>3, <2>4, <2>5
  <2>7. y < n
    BY <1>2, <2>6
  <2>8. lo(i) = y /\ i * m = y + m
    BY <2>1, <2>3, <2>5
  <2>9. QED
    BY <1>2, <2>6, <2>7, <2>8
<1> DEFINE w == write_tls_appdata(p)
<1>8. w = [i \in 1..count |-> AppData(SubSeq(p, (i - 1) * m + 1, Min({i * m, n})))]
  BY <1>1, <1>2 DEF write_tls_appdata
<1>9. ASSUME NEW i \in 1..count
      PROVE  w[i] = AppData(Piece(f, a + lo(i), a + hi(i)))
  <2>1. PICK l, h : l = lo(i) /\ h = hi(i)
    OBVIOUS
  <2>2. l \in Nat /\ h \in Nat /\ l < h /\ h <= n
    BY <1>7, <2>1
  <2>3. Min({i * m, n}) = h
    <3>1. i * m \in Int /\ n \in Int
      BY <1>2, <1>7
    <3>2. QED
      BY <2>1, <3>1, MinFacts
  <2>4. PICK c, d, k : c = a + l /\ d = a + h /\ k = l + 1
    OBVIOUS
  <2>5. /\ c \in Nat /\ d \in Nat /\ a <= c /\ c <= d /\ d <= b /\ k = c - a + 1 /\ h = d - a
    BY <1>1, <2>2, <2>4
  <2>6. Slice(Piece(f, a, b), k, h) = Piece(f, c, d)
    BY <2>5, PieceSub
  <2>7. (i - 1) * m + 1 = k
    BY <2>1, <2>4
  <2>8. w[i] = AppData(SubSeq(p, k, h))
    BY <1>8, <2>3, <2>7
  <2>9. QED
    BY <1>1, <2>1, <2>4, <2>6, <2>8 DEF Slice
<1> HIDE DEF w
<1>10. IsSeq(w) /\ Len(w) = count
  <2>1. w \in [1..count -> {w[i] : i \in 1..count}]
    BY <1>8
  <2>2. QED
    BY <1>5, <2>1, FunctionIsSeq DEF IsSeq
<1> DEFINE st == [i \in 1..(count + 1) |-> IF i <= count THEN a + lo(i) ELSE b]
<1>11. ASSUME NEW i \in 1..count PROVE st[i] = a + lo(i) /\ st[i + 1] = a + hi(i)
  <2>1. i \in 1..(count + 1) /\ i + 1 \in 1..(count + 1) /\ i <= count
    BY <1>5
  <2>2. st[i] = a + lo(i)
    BY <2>1
  <2>3. CASE i + 1 <= count
    <3>1. PICK j : j = i + 1
      OBVIOUS
    <3>2. j \in 1..count /\ j - 1 = i
      BY <1>5, <2>1, <2>3, <3>1
    <3>3. lo(j) = i * m /\ lo(j) < n /\ lo(j) \in Nat
      BY <1>7, <3>2
    <3>4. hi(i) = i * m
      BY <1>2, <3>3
    <3>5. st[j] = a + lo(j)
      BY <2>1, <2>3, <3>1
    <3>6. QED
      BY <2>2, <3>1, <3>3, <3>4, <3>5
  <2>4. CASE ~(i + 1 <= count)
    <3>1. i = count
      BY <1>5, <2>4
    <3>2. hi(i) = n
      BY <1>2, <1>6, <3>1
    <3>3. st[i + 1] = b
      BY <2>1, <2>4
    <3>4. a + n = b
      BY <1>1
    <3>5. QED
      BY <2>2, <3>2, <3>3, <3>4
  <2>5. QED
    BY <2>3, <2>4
<1>12. st \in [1..(count + 1) -> Nat] /\ st[1] = a /\ st[count + 1] = b
  <2>1. ASSUME NEW i \in 1..(count + 1) PROVE (IF i <= count THEN a + lo(i) ELSE b) \in Nat
    <3>1. CASE i <= count
      <4>1. i \in 1..count
        BY <1>5, <3>1
      <4>2. PICK y : y = lo(i)
        OBVIOUS
      <4>3. y \in Nat
        BY <1>7, <4>1, <4>2
      <4>4. QED
        BY <3>1, <4>2, <4>3
    <3>2. QED
      BY <3>1
  <2>2. st[count + 1] = b
    BY <1>5
  <2>3. st[1] = a
    <3>1. CASE count = 0
      <4>1. n = 0
        BY <1>2, <1>6, <3>1
      <4>2. QED
        BY <1>1, <2>2, <3>1, <4>1
    <3>2. CASE count # 0
      <4>1. 1 \in 1..count /\ 1 - 1 = 0
        BY <1>5, <3>2
      <4>2. lo(1) = 0
        BY <1>2, <4>1
      <4>3. st[1] = a + lo(1)
        BY <1>11, <4>1
      <4>4. QED
        BY <4>2, <4>3
    <3>3. QED
      BY <3>1, <3>2
  <2>4. QED
    BY <2>1, <2>2, <2>3
<1>13. ASSUME NEW i \in 1..count
       PROVE  /\ Holds(f, w[i], st[i], st[i + 1]) /\ st[i + 1] <= b
              /\ read_tls_appdata(w[i]) = "data"
  <2>1. PICK c, d : c = a + lo(i) /\ d = a + hi(i)
    OBVIOUS
  <2>2. PICK l, h : l = lo(i) /\ h = hi(i)
    OBVIOUS
  <2>3. l \in Nat /\ h \in Nat /\ l < h /\ h <= n /\ h - l <= m
    BY <1>7, <2>2
  <2>4. c \in Nat /\ d \in Nat /\ c < d /\ c <= d /\ d <= b /\ d - c <= BufSize
    BY <1>1, <1>2, <2>1, <2>2, <2>3
  <2>5. st[i] = c /\ st[i + 1] = d /\ w[i] = AppData(Piece(f, c, d))
    BY <1>9, <1>11, <2>1
  <2> HIDE DEF st
  <2>6. Holds(f, AppData(Piece(f, c, d)), c, d)
    BY <2>4, AppDataHolds
  <2>7. read_tls_appdata(AppData(Piece(f, c, d))) = "data"
    BY <2>4, DataIsRead
  <2>8. QED
    BY <2>4, <2>5, <2>6, <2>7
<1> HIDE DEF st
<1>14. Places(f, w, a, b, st)
  BY <1>10, <1>12, <1>13 DEF Places
<1>15. LaidOut(f, w, a, b) /\ Readable(w)
  BY <1>10, <1>13, <1>14 DEF LaidOut, Readable
<1>16. QED
  BY <1>1, <1>15 DEF w

-----------------------------------------------------------------------------
(* The two streams of a link. *)

(* What a client of the link sends, init and data, and what it is sent.    *)
UpStream(l) ==
  [k \in Nat |-> IF k <= HandshakeLen THEN InitOf(l)[k]
                 ELSE Xor(Byte("up", k - HandshakeLen), UnitAt(Up(l), k))]
DownStream(l) == [k \in Nat |-> Xor(Byte("down", k), UnitAt(Down(l), k))]
PlainStream(dir) == [k \in Nat |-> Byte(dir, k)]

LEMMA StreamsAre ==
  ASSUME NEW l, NEW dir
  PROVE  IsStream(UpStream(l)) /\ IsStream(DownStream(l)) /\ IsStream(PlainStream(dir))
<1>1. ASSUME NEW f, f = [k \in Nat |-> f[k]] PROVE IsStream(f)
  <2>1. f \in [Nat -> {f[k] : k \in Nat}]
    BY <1>1
  <2>2. QED
    BY <2>1 DEF IsStream
<1>2. /\ UpStream(l) = [k \in Nat |-> UpStream(l)[k]]
      /\ DownStream(l) = [k \in Nat |-> DownStream(l)[k]]
      /\ PlainStream(dir) = [k \in Nat |-> PlainStream(dir)[k]]
  BY DEF UpStream, DownStream, PlainStream
<1>3. QED
  BY <1>1, <1>2

LEMMA InitPiece ==
  ASSUME NEW l
  PROVE  Piece(UpStream(l), 0, HandshakeLen) = InitOf(l)
<1>1. PICK f, h, z : f = UpStream(l) /\ h = InitOf(l) /\ z = 0
  OBVIOUS
<1>2. IsStream(f) /\ IsSeq(h) /\ Len(h) = HandshakeLen
  BY <1>1, StreamsAre, InitFacts DEF IsSeq
<1>3. HandshakeLen \in Nat /\ HandshakeLen - z = HandshakeLen /\ z \in Nat /\ z <= HandshakeLen
  BY <1>1, Layout
<1>4. ASSUME NEW i \in 1..(HandshakeLen - z) PROVE h[i] = f[z + i]
  <2>1. z + i = i /\ i \in Nat /\ i <= HandshakeLen
    BY <1>1, <1>3
  <2>2. f[i] = h[i]
    BY <1>1, <2>1 DEF UpStream
  <2>3. QED
    BY <2>1, <2>2
<1>5. h = Piece(f, z, HandshakeLen)
  BY <1>2, <1>3, <1>4, PieceIs
<1>6. QED
  BY <1>1, <1>5

LEMMA ApplyFacts ==
  ASSUME NEW c, NEW q, IsSeq(q)
  PROVE  /\ IsSeq(apply_keystream(c, q)) /\ Len(apply_keystream(c, q)) = Len(q)
         /\ \A i \in 1..Len(q) : apply_keystream(c, q)[i] = Xor(q[i], Unit(c, i))
<1>1. PICK S : q \in Seq(S)
  BY DEF IsSeq
<1>2. PICK n, r : n = Len(q) /\ r = apply_keystream(c, q)
  OBVIOUS
<1>3. n \in Nat
  BY <1>1, <1>2
<1>4. r = [i \in 1..n |-> Xor(q[i], Unit(c, i))]
  BY <1>2 DEF apply_keystream
<1>5. r \in [1..n -> {r[i] : i \in 1..n}]
  BY <1>4
<1>6. IsSeq(r) /\ Len(r) = n
  BY <1>3, <1>5, FunctionIsSeq DEF IsSeq
<1>7. QED
  BY <1>2, <1>4, <1>6

LEMMA FreshFacts ==
  ASSUME NEW dir, NEW k \in Nat, NEW n \in Nat
  PROVE  /\ Fresh(dir, k, n) = Piece(PlainStream(dir), k, k + n)
         /\ IsSeq(Fresh(dir, k, n)) /\ Len(Fresh(dir, k, n)) = n
         /\ \A i \in 1..n : Fresh(dir, k, n)[i] = Byte(dir, k + i)
<1>1. PICK r : r = Fresh(dir, k, n)
  OBVIOUS
<1>2. r = [i \in 1..n |-> Byte(dir, k + i)]
  BY <1>1 DEF Fresh
<1>3. IsSeq(r) /\ Len(r) = n
  <2>1. r \in [1..n -> {r[i] : i \in 1..n}]
    BY <1>2
  <2>2. QED
    BY <2>1, FunctionIsSeq DEF IsSeq
<1>4. PICK f, m : f = PlainStream(dir) /\ m = k + n
  OBVIOUS
<1>5. IsStream(f) /\ m \in Nat /\ k <= m /\ m - k = n
  BY <1>4, StreamsAre
<1>6. ASSUME NEW i \in 1..(m - k) PROVE r[i] = f[k + i]
  BY <1>2, <1>4, <1>5 DEF PlainStream
<1>7. r = Piece(f, k, m)
  BY <1>3, <1>5, <1>6, PieceIs
<1>8. QED
  BY <1>1, <1>2, <1>3, <1>4, <1>7

(* Two ends in step: the second application takes off what the first put   *)
(* on.                                                                     *)
LEMMA ApplyTwice ==
  ASSUME NEW dir, NEW k \in Nat, NEW n \in Nat, NEW c
  PROVE  apply_keystream(c, apply_keystream(c, Fresh(dir, k, n))) = Fresh(dir, k, n)
<1>1. PICK q, r, s : /\ q = Fresh(dir, k, n) /\ r = apply_keystream(c, q)
                     /\ s = apply_keystream(c, r)
  OBVIOUS
<1>2. IsSeq(q) /\ Len(q) = n /\ \A i \in 1..n : q[i] = Byte(dir, k + i)
  BY <1>1, FreshFacts
<1>3. IsSeq(r) /\ Len(r) = n /\ \A i \in 1..n : r[i] = Xor(q[i], Unit(c, i))
  BY <1>1, <1>2, ApplyFacts
<1>4. IsSeq(s) /\ Len(s) = n /\ \A i \in 1..n : s[i] = Xor(r[i], Unit(c, i))
  BY <1>1, <1>3, ApplyFacts
<1>5. ASSUME NEW i \in 1..n PROVE s[i] = q[i]
  <2>1. PICK b, u : b = q[i] /\ u = Unit(c, i)
    OBVIOUS
  <2>2. IsByte(b)
    BY <1>2, <2>1, ByteIsByte
  <2>3. Xor(Xor(b, u), u) = b
    BY <2>2, XorFacts
  <2>4. QED
    BY <1>3, <1>4, <2>1, <2>3
<1>6. PICK S : q \in Seq(S)
  BY <1>2 DEF IsSeq
<1>7. PICK T : s \in Seq(T)
  BY <1>4 DEF IsSeq
<1>8. s = q
  <2>1. s = [i \in 1..n |-> s[i]] /\ q = [i \in 1..n |-> q[i]]
    BY <1>2, <1>4, <1>6, <1>7
  <2>2. QED
    BY <1>5, <2>1
<1>9. QED
  BY <1>1, <1>8

(* A piece of a stream is the data under the keystream at its place.       *)
LEMMA UpBytes ==
  ASSUME NEW l, NEW s \in Nat, NEW n \in Nat
  PROVE  apply_keystream(At(Up(l), HandshakeLen + s + 1), Fresh("up", s, n))
           = Piece(UpStream(l), HandshakeLen + s, HandshakeLen + s + n)
<1>1. PICK c, d, f, q, r, a, b :
        /\ c = Up(l) /\ d = At(c, HandshakeLen + s + 1) /\ f = UpStream(l)
        /\ q = Fresh("up", s, n) /\ r = apply_keystream(d, q)
        /\ a = HandshakeLen + s /\ b = HandshakeLen + s + n
  OBVIOUS
<1>2. HandshakeLen \in Nat
  BY Layout
<1>3. a \in Nat /\ b \in Nat /\ a <= b /\ b - a = n /\ IsStream(f)
  BY <1>1, <1>2, StreamsAre
<1>4. IsSeq(q) /\ Len(q) = n /\ \A i \in 1..n : q[i] = Byte("up", s + i)
  BY <1>1, FreshFacts
<1>5. IsSeq(r) /\ Len(r) = n /\ \A i \in 1..n : r[i] = Xor(q[i], Unit(d, i))
  BY <1>1, <1>4, ApplyFacts
<1>6. ASSUME NEW i \in 1..(b - a) PROVE r[i] = f[a + i]
  <2>1. PICK k, e : k = a + i /\ e = HandshakeLen + s + 1
    OBVIOUS
  <2>2. /\ k \in Nat /\ ~(k <= HandshakeLen) /\ k - HandshakeLen = s + i /\ i \in 1..n
        /\ i \in Nat /\ e \in Nat /\ e + i - 1 = k
    BY <1>1, <1>2, <1>3, <2>1
  <2>3. Unit(At(c, e), i) = UnitAt(c, e + i - 1)
    BY <2>2, AtFacts
  <2>4. Unit(d, i) = UnitAt(c, k)
    BY <1>1, <2>1, <2>2, <2>3
  <2>5. r[i] = Xor(Byte("up", s + i), UnitAt(c, k))
    BY <1>4, <1>5, <2>2, <2>4
  <2>6. f[k] = Xor(Byte("up", k - HandshakeLen), UnitAt(Up(l), k))
    BY <1>1, <2>2 DEF UpStream
  <2>7. QED
    BY <1>1, <2>1, <2>2, <2>5, <2>6
<1>7. r = Piece(f, a, b)
  BY <1>3, <1>5, <1>6, PieceIs
<1>8. QED
  BY <1>1, <1>7

LEMMA DownBytes ==
  ASSUME NEW l, NEW s \in Nat, NEW n \in Nat
  PROVE  apply_keystream(At(Down(l), s + 1), Fresh("down", s, n))
           = Piece(DownStream(l), s, s + n)
<1>1. PICK c, d, f, q, r, b :
        /\ c = Down(l) /\ d = At(c, s + 1) /\ f = DownStream(l)
        /\ q = Fresh("down", s, n) /\ r = apply_keystream(d, q) /\ b = s + n
  OBVIOUS
<1>2. b \in Nat /\ s <= b /\ b - s = n /\ IsStream(f)
  BY <1>1, StreamsAre
<1>3. IsSeq(q) /\ Len(q) = n /\ \A i \in 1..n : q[i] = Byte("down", s + i)
  BY <1>1, FreshFacts
<1>4. IsSeq(r) /\ Len(r) = n /\ \A i \in 1..n : r[i] = Xor(q[i], Unit(d, i))
  BY <1>1, <1>3, ApplyFacts
<1>5. ASSUME NEW i \in 1..(b - s) PROVE r[i] = f[s + i]
  <2>1. PICK k, e : k = s + i /\ e = s + 1
    OBVIOUS
  <2>2. k \in Nat /\ i \in 1..n /\ i \in Nat /\ e \in Nat /\ e + i - 1 = k
    BY <1>2, <2>1
  <2>3. Unit(At(c, e), i) = UnitAt(c, e + i - 1)
    BY <2>2, AtFacts
  <2>4. Unit(d, i) = UnitAt(c, k)
    BY <1>1, <2>1, <2>2, <2>3
  <2>5. r[i] = Xor(Byte("down", k), UnitAt(c, k))
    BY <1>3, <1>4, <2>1, <2>2, <2>4
  <2>6. f[k] = Xor(Byte("down", k), UnitAt(Down(l), k))
    BY <1>1, <2>2 DEF DownStream
  <2>7. QED
    BY <1>1, <2>1, <2>5, <2>6
<1>6. r = Piece(f, s, b)
  BY <1>2, <1>4, <1>5, PieceIs
<1>7. QED
  BY <1>1, <1>6

(* The plain data so far: fresh bytes join on, earlier data is a prefix.   *)
LEMMA DataFacts ==
  ASSUME NEW dir, NEW k \in Nat, NEW n \in Nat
  PROVE  /\ IsSeq(Data(dir, k)) /\ Len(Data(dir, k)) = k
         /\ Data(dir, k) \o Fresh(dir, k, n) = Data(dir, k + n)
         /\ IsPrefix(Data(dir, k), Data(dir, k + n))
<1>1. PICK f, z, m : f = PlainStream(dir) /\ z = 0 /\ m = k + n
  OBVIOUS
<1>2. IsStream(f) /\ z \in Nat /\ z <= k /\ m \in Nat /\ k <= m /\ z <= m
      /\ k - z = k /\ m - z = m /\ k <= k
  BY <1>1, StreamsAre
<1>3. ASSUME NEW j \in Nat PROVE Data(dir, j) = Piece(f, z, j)
  BY <1>1 DEF Data, Piece, PlainStream
<1>4. Fresh(dir, k, n) = Piece(f, k, m)
  BY <1>1, FreshFacts
<1>5. Piece(f, z, k) \o Piece(f, k, m) = Piece(f, z, m)
  BY <1>2, PieceJoin
<1>6. IsSeq(Piece(f, z, k)) /\ Len(Piece(f, z, k)) = k - z /\ Len(Piece(f, z, m)) = m - z
  BY <1>2, PieceSeq
<1>7. PICK o : o = 1
  OBVIOUS
<1>8. o = z - z + 1 /\ z <= z
  BY <1>1, <1>7
<1>9. Slice(Piece(f, z, k), o, k) = Piece(f, z, k)
  BY <1>2, <1>8, PieceSub
<1>10. Slice(Piece(f, z, m), o, k) = Piece(f, z, k)
  BY <1>2, <1>8, PieceSub
<1>11. PICK p, q : p = Piece(f, z, k) /\ q = Piece(f, z, m)
  OBVIOUS
<1>12. Len(p) = k /\ Len(q) = m /\ SubSeq(p, 1, k) = SubSeq(q, 1, k)
  BY <1>2, <1>6, <1>7, <1>9, <1>10, <1>11 DEF Slice
<1>13. IsPrefix(p, q)
  BY <1>2, <1>12 DEF IsPrefix
<1>14. Data(dir, k) = p /\ Data(dir, k + n) = q
  BY <1>1, <1>2, <1>3, <1>11
<1>15. QED
  BY <1>2, <1>4, <1>5, <1>6, <1>11, <1>13, <1>14

-----------------------------------------------------------------------------
(* The inductive invariant. *)

RelayDown == Raw(Reverse(Seed("relay")))

(* The ciphers of a session that has forwarded g bytes and sent s.         *)
Ciphers(l, g, s) ==
  [clt_dec |-> At(Up(l), HandshakeLen + g + 1), clt_enc |-> At(Down(l), s + 1),
   tg_enc |-> At(Relay, HandshakeLen + g + 1), tg_dec |-> At(RelayDown, s + 1)]

(* Either side as a record: both ends of every stream are at the same      *)
(* place of its keystream.                                                 *)
CliIs(c) ==
  c = [pc |-> c.pc, records |-> c.records, out |-> c.out, ended |-> c.ended,
       handshake |-> c.handshake, enc |-> c.enc, dec |-> c.dec]
CliOK ==
  /\ CliIs(cli)
  /\ cli.handshake = InitOf(link)
  /\ cli.enc = At(Up(link), HandshakeLen + sentUp + 1)
  /\ cli.dec = At(Down(link), Len(gotDown) + 1)
  /\ Own => cli.out = <<>>

SrvIs(s) ==
  \/ s = [pc |-> s.pc, filled |-> s.filled, pending |-> s.pending, ended |-> s.ended,
          late |-> s.late]
  \/ s = [pc |-> s.pc, filled |-> s.filled, pending |-> s.pending, ended |-> s.ended,
          late |-> s.late, relayInit |-> s.relayInit, ciphers |-> s.ciphers,
          tgDec |-> s.tgDec, tgEnc |-> s.tgEnc]
SessionIs(s, l, g, d) ==
  /\ s = [pc |-> s.pc, filled |-> s.filled, pending |-> s.pending, ended |-> s.ended,
          late |-> s.late, relayInit |-> s.relayInit, ciphers |-> s.ciphers,
          tgDec |-> s.tgDec, tgEnc |-> s.tgEnc]
  /\ s.relayInit = RelayOf(l) /\ l.proto \in Tags
  /\ s.ciphers = Ciphers(l, g, d)
  /\ s.tgDec = At(Relay, HandshakeLen + g + 1)
  /\ s.tgEnc = At(RelayDown, d + 1)
SrvOK ==
  /\ SrvIs(srv) /\ (srv.pc = "session" => SessionIs(srv, link, Len(gotUp), sentDown))
  /\ ~FakeTLS => srv.filled = <<>>

(* What arrived is what was sent.                                          *)
DataOK ==
  /\ Len(gotUp) \in Nat /\ gotUp = Data("up", Len(gotUp))
  /\ Len(gotDown) \in Nat /\ gotDown = Data("down", Len(gotDown))
  /\ odd = [count |-> odd.count, broken |-> odd.broken]

(* What a client has yet to read of the server's hello.                    *)
HelloRest(q) ==
  \/ q = build_faketls_server_hello
  \/ q = Tail(build_faketls_server_hello)
  \/ q = Tail(Tail(build_faketls_server_hello))

(* Who has got how far in the handshake.                                   *)
PhaseOK ==
  /\ srv.pc = "hello" =>
       /\ FakeTLS /\ down = <<>> /\ cli.pc # "open"
       /\ up = <<>> \/ up = <<client_hello(link.secret, link.host)>>
  /\ cli.pc = "start" =>
       /\ up = <<>> /\ down = <<>> /\ ~cut
       /\ srv.pc = "gone" \/ srv.pc = IF FakeTLS THEN "hello" ELSE "init"
  /\ cli.pc = "drain" =>
       /\ FakeTLS /\ srv.pc \in {"hello", "init", "gone"}
       /\ down = <<>> \/ HelloRest(down)
  /\ cli.pc \in {"start", "drain"} =>
       cli.out = <<>> /\ sentUp = 0 /\ sentDown = 0 /\ gotDown = <<>>
  /\ srv.pc \in {"hello", "init", "draining"} => gotUp = <<>> /\ sentDown = 0

EofOK ==
  /\ cut => up = <<>> /\ down = <<>> /\ upEof /\ downEof /\ cli.pc # "start"
  /\ upEof /\ ~cut => cli.pc = "gone"
  /\ downEof /\ ~cut => srv.pc = "gone"
  /\ cli.ended \in BOOLEAN /\ (cli.ended => cli.pc = "gone")
  /\ srv.ended \in BOOLEAN /\ (srv.ended => srv.pc = "gone")

OnWire(f, q, a, b) ==
  IF FakeTLS THEN LaidOut(f, q, a, b) ELSE q = Piece(f, a, b)

(* The client's stream is cut into what the server has taken, what is on   *)
(* the wire behind a and up to b, and what the client has yet to frame.    *)
UpSent(b) ==
  /\ b <= HandshakeLen + sentUp
  /\ cli.pc \in {"start", "drain"} => b = 0
  /\ cli.pc = "open" => cli.out = Piece(UpStream(link), b, HandshakeLen + sentUp)
  /\ cli.pc = "gone" /\ ~cut /\ srv.pc \in {"hello", "init", "session"} =>
       b = 0 \/ b = HandshakeLen + sentUp
UpTaken(a) ==
  /\ srv.pc = "hello" => a = 0 /\ srv.filled = <<>>
  /\ srv.pc = "init" => a < HandshakeLen /\ srv.filled = Piece(UpStream(link), 0, a)
  /\ srv.pc = "session" =>
       /\ HandshakeLen + Len(gotUp) <= a
       /\ srv.pending = Piece(UpStream(link), HandshakeLen + Len(gotUp), a)
UpOK ==
  \E a, b \in Nat :
    /\ a <= b /\ UpSent(b) /\ UpTaken(a)
    /\ cut \/ OnWire(UpStream(link), up, a, b)
    
(* Nothing on the wire ends the stream unless the client broke the framing. *)
ReadOK ==
  FakeTLS /\ srv.pc \in {"init", "session"} /\ ~odd.broken => IsSeq(up) /\ Readable(up)

(* The other direction, for a client that still reads.                     *)
DownOK ==
  /\ Len(gotDown) <= sentDown /\ Len(gotUp) <= sentUp
  /\ cli.pc = "open" /\ ~cut =>
       /\ OnWire(DownStream(link), down, Len(gotDown), sentDown)
       /\ FakeTLS => Readable(down)

(* Whose keystream a used byte is of, and how far that keystream is used.  *)
Known(u) ==
  \/ cli.pc \in {"open", "gone"} /\ \E k \in 1..(HandshakeLen + sentUp) : u = UnitAt(Up(link), k)
  \/ /\ srv.pc \notin {"hello", "init"}
     /\ \E k \in 1..(HandshakeLen + Len(gotUp)) : u = UnitAt(Relay, k)
  \/ \E k \in 1..sentDown : u = UnitAt(Down(link), k)
PadsOK ==
  /\ IsFiniteSet(pads) /\ padded = Cardinality(pads)
  /\ \A u \in pads : Known(u)

StrangerOK ==
  Stranger => /\ down = <<>> /\ sentDown = 0 /\ gotUp = <<>> /\ srv.pc # "session"
              /\ FakeTLS => srv.pc \in {"hello", "gone"}

(* The types, without the phase of a scanner.                              *)
Typed == TypeOK /\ cli.pc # "probing"

(* The invariant of a link whose client is no scanner.                     *)
Inv ==
  /\ Typed /\ CliOK /\ SrvOK /\ DataOK /\ PhaseOK /\ EofOK /\ UpOK /\ ReadOK
  /\ DownOK /\ PadsOK /\ StrangerOK

(* Updates of the two records, field by field.                             *)
CliPc(c, x) == [c EXCEPT !.pc = x]
CliPcOut(c, x, y) == [c EXCEPT !.pc = x, !.out = y]
CliLeft(c, x, y) == [c EXCEPT !.pc = x, !.ended = y]
CliRecords(c, x) == [c EXCEPT !.records = x]
CliEnc(c, x) == [c EXCEPT !.enc = x]
CliEncOut(c, x, y) == [c EXCEPT !.enc = x, !.out = y]
CliOut(c, x) == [c EXCEPT !.out = x]
CliDec(c, x) == [c EXCEPT !.dec = x]
SrvPc(s, x) == [s EXCEPT !.pc = x]
SrvLeft(s, x, y) == [s EXCEPT !.pc = x, !.ended = y]
SrvLate(s, x, y) == [s EXCEPT !.pc = x, !.late = y]
SrvPcFilled(s, x, y) == [s EXCEPT !.pc = x, !.filled = y]
SrvFilled(s, y) == [s EXCEPT !.filled = y]
SessionUp(s, n, x) ==
  [s EXCEPT !.ciphers.clt_dec = Advance(@, n), !.ciphers.tg_enc = Advance(@, n),
            !.tgDec = Advance(@, n), !.pending = x]
SessionDown(s, n) ==
  [s EXCEPT !.ciphers.tg_dec = Advance(@, n), !.ciphers.clt_enc = Advance(@, n),
            !.tgEnc = Advance(@, n)]

LEMMA CliSets ==
  ASSUME NEW c, CliIs(c), NEW x, NEW y, NEW d
  PROVE  /\ d = CliPc(c, x) =>
              /\ CliIs(d) /\ d.pc = x /\ d.out = c.out /\ d.ended = c.ended
              /\ d.handshake = c.handshake /\ d.enc = c.enc /\ d.dec = c.dec
         /\ d = CliPcOut(c, x, y) =>
              /\ CliIs(d) /\ d.pc = x /\ d.out = y /\ d.ended = c.ended
              /\ d.handshake = c.handshake /\ d.enc = c.enc /\ d.dec = c.dec
         /\ d = CliLeft(c, x, y) =>
              /\ CliIs(d) /\ d.pc = x /\ d.out = c.out /\ d.ended = y
              /\ d.handshake = c.handshake /\ d.enc = c.enc /\ d.dec = c.dec
         /\ d = CliRecords(c, x) =>
              /\ CliIs(d) /\ d.pc = c.pc /\ d.out = c.out /\ d.ended = c.ended
              /\ d.handshake = c.handshake /\ d.enc = c.enc /\ d.dec = c.dec
<1>1. c = [pc |-> c.pc, records |-> c.records, out |-> c.out, ended |-> c.ended,
           handshake |-> c.handshake, enc |-> c.enc, dec |-> c.dec]
  BY DEF CliIs
<1>2. ASSUME d = CliPc(c, x)
      PROVE  /\ CliIs(d) /\ d.pc = x /\ d.out = c.out /\ d.ended = c.ended
             /\ d.handshake = c.handshake /\ d.enc = c.enc /\ d.dec = c.dec
  BY <1>1, <1>2 DEF CliIs, CliPc
<1>3. ASSUME d = CliPcOut(c, x, y)
      PROVE  /\ CliIs(d) /\ d.pc = x /\ d.out = y /\ d.ended = c.ended
             /\ d.handshake = c.handshake /\ d.enc = c.enc /\ d.dec = c.dec
  BY <1>1, <1>3 DEF CliIs, CliPcOut
<1>4. ASSUME d = CliLeft(c, x, y)
      PROVE  /\ CliIs(d) /\ d.pc = x /\ d.out = c.out /\ d.ended = y
             /\ d.handshake = c.handshake /\ d.enc = c.enc /\ d.dec = c.dec
  BY <1>1, <1>4 DEF CliIs, CliLeft
<1>5. ASSUME d = CliRecords(c, x)
      PROVE  /\ CliIs(d) /\ d.pc = c.pc /\ d.out = c.out /\ d.ended = c.ended
             /\ d.handshake = c.handshake /\ d.enc = c.enc /\ d.dec = c.dec
  BY <1>1, <1>5 DEF CliIs, CliRecords
<1>6. QED
  BY <1>2, <1>3, <1>4, <1>5

LEMMA CliMoves ==
  ASSUME NEW c, CliIs(c), NEW x, NEW y, NEW d
  PROVE  /\ d = CliEnc(c, x) =>
              /\ CliIs(d) /\ d.pc = c.pc /\ d.out = c.out /\ d.ended = c.ended
              /\ d.handshake = c.handshake /\ d.enc = x /\ d.dec = c.dec
         /\ d = CliEncOut(c, x, y) =>
              /\ CliIs(d) /\ d.pc = c.pc /\ d.out = y /\ d.ended = c.ended
              /\ d.handshake = c.handshake /\ d.enc = x /\ d.dec = c.dec
         /\ d = CliOut(c, x) =>
              /\ CliIs(d) /\ d.pc = c.pc /\ d.out = x /\ d.ended = c.ended
              /\ d.handshake = c.handshake /\ d.enc = c.enc /\ d.dec = c.dec
         /\ d = CliDec(c, x) =>
              /\ CliIs(d) /\ d.pc = c.pc /\ d.out = c.out /\ d.ended = c.ended
              /\ d.handshake = c.handshake /\ d.enc = c.enc /\ d.dec = x
<1>1. c = [pc |-> c.pc, records |-> c.records, out |-> c.out, ended |-> c.ended,
           handshake |-> c.handshake, enc |-> c.enc, dec |-> c.dec]
  BY DEF CliIs
<1>2. ASSUME d = CliEnc(c, x)
      PROVE  /\ CliIs(d) /\ d.pc = c.pc /\ d.out = c.out /\ d.ended = c.ended
             /\ d.handshake = c.handshake /\ d.enc = x /\ d.dec = c.dec
  BY <1>1, <1>2 DEF CliIs, CliEnc
<1>3. ASSUME d = CliEncOut(c, x, y)
      PROVE  /\ CliIs(d) /\ d.pc = c.pc /\ d.out = y /\ d.ended = c.ended
             /\ d.handshake = c.handshake /\ d.enc = x /\ d.dec = c.dec
  BY <1>1, <1>3 DEF CliIs, CliEncOut
<1>4. ASSUME d = CliOut(c, x)
      PROVE  /\ CliIs(d) /\ d.pc = c.pc /\ d.out = x /\ d.ended = c.ended
             /\ d.handshake = c.handshake /\ d.enc = c.enc /\ d.dec = c.dec
  BY <1>1, <1>4 DEF CliIs, CliOut
<1>5. ASSUME d = CliDec(c, x)
      PROVE  /\ CliIs(d) /\ d.pc = c.pc /\ d.out = c.out /\ d.ended = c.ended
             /\ d.handshake = c.handshake /\ d.enc = c.enc /\ d.dec = x
  BY <1>1, <1>5 DEF CliIs, CliDec
<1>6. QED
  BY <1>2, <1>3, <1>4, <1>5

LEMMA SrvSets ==
  ASSUME NEW s, SrvIs(s), NEW x, NEW y, NEW t
  PROVE  /\ t = SrvPc(s, x) =>
              /\ SrvIs(t) /\ t.pc = x /\ t.filled = s.filled /\ t.pending = s.pending
              /\ t.ended = s.ended
         /\ t = SrvLeft(s, x, y) =>
              /\ SrvIs(t) /\ t.pc = x /\ t.filled = s.filled /\ t.pending = s.pending
              /\ t.ended = y
         /\ t = SrvLate(s, x, y) =>
              /\ SrvIs(t) /\ t.pc = x /\ t.filled = s.filled /\ t.pending = s.pending
              /\ t.ended = s.ended
         /\ t = SrvPcFilled(s, x, y) =>
              /\ SrvIs(t) /\ t.pc = x /\ t.filled = y /\ t.pending = s.pending
              /\ t.ended = s.ended
         /\ t = SrvFilled(s, y) =>
              /\ SrvIs(t) /\ t.pc = s.pc /\ t.filled = y /\ t.pending = s.pending
              /\ t.ended = s.ended
<1>1. CASE s = [pc |-> s.pc, filled |-> s.filled, pending |-> s.pending,
                ended |-> s.ended, late |-> s.late]
  <2>1. ASSUME t = SrvPc(s, x)
        PROVE  /\ SrvIs(t) /\ t.pc = x /\ t.filled = s.filled /\ t.pending = s.pending
               /\ t.ended = s.ended
    BY <1>1, <2>1 DEF SrvIs, SrvPc
  <2>2. ASSUME t = SrvLeft(s, x, y)
        PROVE  /\ SrvIs(t) /\ t.pc = x /\ t.filled = s.filled /\ t.pending = s.pending
               /\ t.ended = y
    BY <1>1, <2>2 DEF SrvIs, SrvLeft
  <2>3. ASSUME t = SrvLate(s, x, y)
        PROVE  /\ SrvIs(t) /\ t.pc = x /\ t.filled = s.filled /\ t.pending = s.pending
               /\ t.ended = s.ended
    BY <1>1, <2>3 DEF SrvIs, SrvLate
  <2>4. ASSUME t = SrvPcFilled(s, x, y)
        PROVE  /\ SrvIs(t) /\ t.pc = x /\ t.filled = y /\ t.pending = s.pending
               /\ t.ended = s.ended
    BY <1>1, <2>4 DEF SrvIs, SrvPcFilled
  <2>5. ASSUME t = SrvFilled(s, y)
        PROVE  /\ SrvIs(t) /\ t.pc = s.pc /\ t.filled = y /\ t.pending = s.pending
               /\ t.ended = s.ended
    BY <1>1, <2>5 DEF SrvIs, SrvFilled
  <2>6. QED
    BY <2>1, <2>2, <2>3, <2>4, <2>5
<1>2. CASE s = [pc |-> s.pc, filled |-> s.filled, pending |-> s.pending,
                ended |-> s.ended, late |-> s.late, relayInit |-> s.relayInit,
                ciphers |-> s.ciphers, tgDec |-> s.tgDec, tgEnc |-> s.tgEnc]
  <2>1. ASSUME t = SrvPc(s, x)
        PROVE  /\ SrvIs(t) /\ t.pc = x /\ t.filled = s.filled /\ t.pending = s.pending
               /\ t.ended = s.ended
    BY <1>2, <2>1 DEF SrvIs, SrvPc
  <2>2. ASSUME t = SrvLeft(s, x, y)
        PROVE  /\ SrvIs(t) /\ t.pc = x /\ t.filled = s.filled /\ t.pending = s.pending
               /\ t.ended = y
    BY <1>2, <2>2 DEF SrvIs, SrvLeft
  <2>3. ASSUME t = SrvLate(s, x, y)
        PROVE  /\ SrvIs(t) /\ t.pc = x /\ t.filled = s.filled /\ t.pending = s.pending
               /\ t.ended = s.ended
    BY <1>2, <2>3 DEF SrvIs, SrvLate
  <2>4. ASSUME t = SrvPcFilled(s, x, y)
        PROVE  /\ SrvIs(t) /\ t.pc = x /\ t.filled = y /\ t.pending = s.pending
               /\ t.ended = s.ended
    BY <1>2, <2>4 DEF SrvIs, SrvPcFilled
  <2>5. ASSUME t = SrvFilled(s, y)
        PROVE  /\ SrvIs(t) /\ t.pc = s.pc /\ t.filled = y /\ t.pending = s.pending
               /\ t.ended = s.ended
    BY <1>2, <2>5 DEF SrvIs, SrvFilled
  <2>6. QED
    BY <2>1, <2>2, <2>3, <2>4, <2>5
<1>3. QED
  BY <1>1, <1>2 DEF SrvIs

(* The ciphers of a session after n more bytes.                            *)
LEMMA CiphersMove ==
  ASSUME NEW l, NEW g \in Nat, NEW d \in Nat, NEW n \in Nat
  PROVE  /\ Advance(At(Up(l), HandshakeLen + g + 1), n) = At(Up(l), HandshakeLen + (g + n) + 1)
         /\ Advance(At(Relay, HandshakeLen + g + 1), n) = At(Relay, HandshakeLen + (g + n) + 1)
         /\ Advance(At(Down(l), d + 1), n) = At(Down(l), (d + n) + 1)
         /\ Advance(At(RelayDown, d + 1), n) = At(RelayDown, (d + n) + 1)
<1>1. PICK j, k : j = HandshakeLen + g + 1 /\ k = d + 1
  OBVIOUS
<1>2. /\ j \in Nat /\ k \in Nat /\ j + n = HandshakeLen + (g + n) + 1
      /\ k + n = (d + n) + 1
  BY <1>1, Layout
<1>3. \A c : Advance(At(c, j), n) = At(c, j + n) /\ Advance(At(c, k), n) = At(c, k + n)
  BY <1>2, AtFacts
<1>4. QED
  BY <1>1, <1>2, <1>3

(* A session moves on by n bytes up.                                       *)
LEMMA SessionGoesUp ==
  ASSUME NEW s, NEW l, NEW g \in Nat, NEW d \in Nat, NEW n \in Nat,
         SessionIs(s, l, g, d), NEW x
  PROVE  /\ SrvIs(SessionUp(s, n, x)) /\ SessionIs(SessionUp(s, n, x), l, g + n, d)
         /\ SessionUp(s, n, x).pc = s.pc /\ SessionUp(s, n, x).filled = s.filled
         /\ SessionUp(s, n, x).pending = x /\ SessionUp(s, n, x).ended = s.ended
<1>1. s = [pc |-> s.pc, filled |-> s.filled, pending |-> s.pending, ended |-> s.ended,
           late |-> s.late, relayInit |-> s.relayInit, ciphers |-> s.ciphers,
           tgDec |-> s.tgDec, tgEnc |-> s.tgEnc]
  BY DEF SessionIs
<1>2. PICK cd, ce, te, td : /\ cd = At(Up(l), HandshakeLen + g + 1)
                            /\ ce = At(Down(l), d + 1)
                            /\ te = At(Relay, HandshakeLen + g + 1)
                            /\ td = At(RelayDown, d + 1)
  OBVIOUS
<1>3. PICK cd1, ce1, te1, td1 : /\ cd1 = Advance(cd, n) /\ ce1 = Advance(ce, n)
                                /\ te1 = Advance(te, n) /\ td1 = Advance(td, n)
  OBVIOUS
<1>4. /\ cd1 = At(Up(l), HandshakeLen + (g + n) + 1) /\ ce1 = At(Down(l), (d + n) + 1)
      /\ te1 = At(Relay, HandshakeLen + (g + n) + 1) /\ td1 = At(RelayDown, (d + n) + 1)
  BY <1>2, <1>3, CiphersMove
<1>5. /\ s.ciphers = [clt_dec |-> cd, clt_enc |-> ce, tg_enc |-> te, tg_dec |-> td]
      /\ s.tgDec = te /\ s.tgEnc = td
  BY <1>2 DEF SessionIs, Ciphers
<1>6. PICK t : t = SessionUp(s, n, x)
  OBVIOUS
<1>7. /\ SrvIs(t) /\ SessionIs(t, l, g + n, d) /\ t.pc = s.pc
      /\ t.filled = s.filled /\ t.pending = x /\ t.ended = s.ended
  <2>1. PICK c : c = [clt_dec |-> cd1, clt_enc |-> ce, tg_enc |-> te1, tg_dec |-> td]
    OBVIOUS
  <2>2. t = [pc |-> s.pc, filled |-> s.filled, pending |-> x, ended |-> s.ended,
             late |-> s.late, relayInit |-> s.relayInit, ciphers |-> c,
             tgDec |-> te1, tgEnc |-> s.tgEnc]
    <3>1. s.ciphers.clt_dec = cd /\ s.ciphers.tg_enc = te /\ s.tgDec = te
      BY <1>5
    <3>2. PICK r1 : r1 = [s EXCEPT !.ciphers.clt_dec = cd1]
      OBVIOUS
    <3>3. PICK c1 : c1 = [clt_dec |-> cd1, clt_enc |-> ce, tg_enc |-> te, tg_dec |-> td]
      OBVIOUS
    <3>4. r1 = [pc |-> s.pc, filled |-> s.filled, pending |-> s.pending, ended |-> s.ended,
                late |-> s.late, relayInit |-> s.relayInit, ciphers |-> c1,
                tgDec |-> s.tgDec, tgEnc |-> s.tgEnc]
      <4>1. c1 = [s.ciphers EXCEPT !.clt_dec = cd1]
        BY <1>5, <3>3
      <4>2. r1 = [s EXCEPT !.ciphers = c1]
        BY <3>2, <4>1
      <4>3. QED
        BY <1>1, <4>2
    <3>5. PICK r2 : r2 = [r1 EXCEPT !.ciphers.tg_enc = te1]
      OBVIOUS
    <3>6. r2 = [pc |-> s.pc, filled |-> s.filled, pending |-> s.pending, ended |-> s.ended,
                late |-> s.late, relayInit |-> s.relayInit, ciphers |-> c,
                tgDec |-> s.tgDec, tgEnc |-> s.tgEnc]
      <4>1. r1.ciphers = c1
        BY <3>4
      <4>2. c = [r1.ciphers EXCEPT !.tg_enc = te1]
        BY <2>1, <3>3, <4>1
      <4>3. r2 = [r1 EXCEPT !.ciphers = c]
        BY <3>5, <4>2
      <4>4. QED
        BY <3>4, <4>3
    <3>7. t = [r2 EXCEPT !.tgDec = te1, !.pending = x]
      <4>1. r1.ciphers.tg_enc = te
        BY <3>3, <3>4
      <4>2. r2.tgDec = te
        BY <3>1, <3>6
      <4>3. QED
        BY <1>3, <1>6, <3>1, <3>2, <3>5, <4>1, <4>2 DEF SessionUp
    <3>8. QED
      BY <3>6, <3>7
  <2>3. /\ t.pc = s.pc /\ t.filled = s.filled /\ t.pending = x /\ t.ended = s.ended
        /\ t.relayInit = s.relayInit /\ t.ciphers = c /\ t.tgDec = te1 /\ t.tgEnc = td
    BY <1>5, <2>2
  <2>4. t = [pc |-> t.pc, filled |-> t.filled, pending |-> t.pending, ended |-> t.ended,
             late |-> t.late, relayInit |-> t.relayInit, ciphers |-> t.ciphers,
             tgDec |-> t.tgDec, tgEnc |-> t.tgEnc]
    BY <2>2
  <2>5. c = Ciphers(l, g + n, d)
    BY <1>2, <1>4, <2>1 DEF Ciphers
  <2>6. SessionIs(t, l, g + n, d)
    BY <1>2, <1>4, <2>3, <2>4, <2>5 DEF SessionIs
  <2>7. QED
    BY <2>3, <2>4, <2>6 DEF SrvIs
<1>8. QED
  BY <1>6, <1>7

(* And by n bytes down.                                                    *)
LEMMA SessionGoesDown ==
  ASSUME NEW s, NEW l, NEW g \in Nat, NEW d \in Nat, NEW n \in Nat,
         SessionIs(s, l, g, d)
  PROVE  /\ SrvIs(SessionDown(s, n)) /\ SessionIs(SessionDown(s, n), l, g, d + n)
         /\ SessionDown(s, n).pc = s.pc /\ SessionDown(s, n).filled = s.filled
         /\ SessionDown(s, n).pending = s.pending /\ SessionDown(s, n).ended = s.ended
<1>1. s = [pc |-> s.pc, filled |-> s.filled, pending |-> s.pending, ended |-> s.ended,
           late |-> s.late, relayInit |-> s.relayInit, ciphers |-> s.ciphers,
           tgDec |-> s.tgDec, tgEnc |-> s.tgEnc]
  BY DEF SessionIs
<1>2. PICK cd, ce, te, td : /\ cd = At(Up(l), HandshakeLen + g + 1)
                            /\ ce = At(Down(l), d + 1)
                            /\ te = At(Relay, HandshakeLen + g + 1)
                            /\ td = At(RelayDown, d + 1)
  OBVIOUS
<1>3. PICK cd1, ce1, te1, td1 : /\ cd1 = Advance(cd, n) /\ ce1 = Advance(ce, n)
                                /\ te1 = Advance(te, n) /\ td1 = Advance(td, n)
  OBVIOUS
<1>4. /\ cd1 = At(Up(l), HandshakeLen + (g + n) + 1) /\ ce1 = At(Down(l), (d + n) + 1)
      /\ te1 = At(Relay, HandshakeLen + (g + n) + 1) /\ td1 = At(RelayDown, (d + n) + 1)
  BY <1>2, <1>3, CiphersMove
<1>5. /\ s.ciphers = [clt_dec |-> cd, clt_enc |-> ce, tg_enc |-> te, tg_dec |-> td]
      /\ s.tgDec = te /\ s.tgEnc = td
  BY <1>2 DEF SessionIs, Ciphers
<1>6. PICK t : t = SessionDown(s, n)
  OBVIOUS
<1>7. /\ SrvIs(t) /\ SessionIs(t, l, g, d + n) /\ t.pc = s.pc
      /\ t.filled = s.filled /\ t.pending = s.pending /\ t.ended = s.ended
  <2>1. PICK c : c = [clt_dec |-> cd, clt_enc |-> ce1, tg_enc |-> te, tg_dec |-> td1]
    OBVIOUS
  <2>2. t = [pc |-> s.pc, filled |-> s.filled, pending |-> s.pending, ended |-> s.ended,
             late |-> s.late, relayInit |-> s.relayInit, ciphers |-> c,
             tgDec |-> s.tgDec, tgEnc |-> td1]
    <3>1. s.ciphers.tg_dec = td /\ s.ciphers.clt_enc = ce /\ s.tgEnc = td
      BY <1>5
    <3>2. PICK r1 : r1 = [s EXCEPT !.ciphers.tg_dec = td1]
      OBVIOUS
    <3>3. PICK c1 : c1 = [clt_dec |-> cd, clt_enc |-> ce, tg_enc |-> te, tg_dec |-> td1]
      OBVIOUS
    <3>4. r1 = [pc |-> s.pc, filled |-> s.filled, pending |-> s.pending, ended |-> s.ended,
                late |-> s.late, relayInit |-> s.relayInit, ciphers |-> c1,
                tgDec |-> s.tgDec, tgEnc |-> s.tgEnc]
      <4>1. c1 = [s.ciphers EXCEPT !.tg_dec = td1]
        BY <1>5, <3>3
      <4>2. r1 = [s EXCEPT !.ciphers = c1]
        BY <3>2, <4>1
      <4>3. QED
        BY <1>1, <4>2
    <3>5. PICK r2 : r2 = [r1 EXCEPT !.ciphers.clt_enc = ce1]
      OBVIOUS
    <3>6. r2 = [pc |-> s.pc, filled |-> s.filled, pending |-> s.pending, ended |-> s.ended,
                late |-> s.late, relayInit |-> s.relayInit, ciphers |-> c,
                tgDec |-> s.tgDec, tgEnc |-> s.tgEnc]
      <4>1. r1.ciphers = c1
        BY <3>4
      <4>2. c = [r1.ciphers EXCEPT !.clt_enc = ce1]
        BY <2>1, <3>3, <4>1
      <4>3. r2 = [r1 EXCEPT !.ciphers = c]
        BY <3>5, <4>2
      <4>4. QED
        BY <3>4, <4>3
    <3>7. t = [r2 EXCEPT !.tgEnc = td1]
      <4>1. r1.ciphers.clt_enc = ce
        BY <3>3, <3>4
      <4>2. r2.tgEnc = td
        BY <3>1, <3>6
      <4>3. QED
        BY <1>3, <1>6, <3>1, <3>2, <3>5, <4>1, <4>2 DEF SessionDown
    <3>8. QED
      BY <3>6, <3>7
  <2>3. /\ t.pc = s.pc /\ t.filled = s.filled /\ t.pending = s.pending /\ t.ended = s.ended
        /\ t.relayInit = s.relayInit /\ t.ciphers = c /\ t.tgDec = te /\ t.tgEnc = td1
    BY <1>5, <2>2
  <2>4. t = [pc |-> t.pc, filled |-> t.filled, pending |-> t.pending, ended |-> t.ended,
             late |-> t.late, relayInit |-> t.relayInit, ciphers |-> t.ciphers,
             tgDec |-> t.tgDec, tgEnc |-> t.tgEnc]
    BY <2>2
  <2>5. c = Ciphers(l, g, d + n)
    BY <1>2, <1>4, <2>1 DEF Ciphers
  <2>6. SessionIs(t, l, g, d + n)
    BY <1>2, <1>4, <2>3, <2>4, <2>5 DEF SessionIs
  <2>7. QED
    BY <2>3, <2>4, <2>6 DEF SrvIs
<1>8. QED
  BY <1>6, <1>7

LEMMA Numbers ==
  ASSUME Typed
  PROVE  /\ sentUp \in Nat /\ sentDown \in Nat /\ link.up \in Nat /\ link.down \in Nat
         /\ link \in Links /\ IsI16(link.dc) /\ sentUp <= link.up /\ sentDown <= link.down
         /\ HandshakeLen \in Nat /\ HandshakeLen > 0 /\ HandshakeLen + sentUp \in Nat
<1>1. link \in Links /\ sentUp \in 0..link.up /\ sentDown \in 0..link.down
  BY DEF Typed, TypeOK
<1>2. link.up \in Nat /\ link.down \in Nat /\ IsI16(link.dc)
  BY <1>1, HopAssumption
<1>3. HandshakeLen \in Nat /\ HandshakeLen > 0
  BY Layout
<1>4. QED
  BY <1>1, <1>2, <1>3

LEMMA EmptyFacts ==
  /\ IsSeq(<<>>) /\ Len(<<>>) = 0 /\ Readable(<<>>)
  /\ \A dir : Data(dir, 0) = <<>>
<1>1. PICK e : e = <<>>
  OBVIOUS
<1>2. e \in Seq({}) /\ Len(e) = 0
  BY <1>1
<1>3. \A i \in 1..Len(e) : FALSE
  BY <1>2
<1>4. \A dir : Data(dir, 0) = <<>>
  BY DEF Data
<1>5. QED
  BY <1>1, <1>2, <1>3, <1>4 DEF IsSeq, Readable

LEMMA InitInv == Init => Inv
<1> SUFFICES ASSUME Init PROVE Inv
  OBVIOUS
<1>1. PICK hs : hs = generate_client_handshake(link.secret, link.dc, link.proto, Random("client"))
  OBVIOUS
<1>2. /\ hs.handshake = InitOf(link)
      /\ hs.enc = At(Up(link), HandshakeLen + 1) /\ hs.dec = At(Down(link), 1)
  BY <1>1, HandshakeFacts
<1>3. cli = [pc |-> "start", records |-> 0, out |-> <<>>, ended |-> FALSE,
             handshake |-> hs.handshake, enc |-> hs.enc, dec |-> hs.dec]
  BY <1>1 DEF Init
<1>4. /\ CliIs(cli) /\ cli.pc = "start" /\ cli.out = <<>> /\ cli.ended = FALSE
      /\ cli.handshake = hs.handshake /\ cli.enc = hs.enc /\ cli.dec = hs.dec
  BY <1>3 DEF CliIs
<1>5. srv = [pc |-> IF FakeTLS THEN "hello" ELSE "init", filled |-> <<>>, pending |-> <<>>,
             ended |-> FALSE, late |-> FALSE]
  BY DEF Init, FakeTLS
<1>6. /\ SrvIs(srv) /\ srv.pc = (IF FakeTLS THEN "hello" ELSE "init") /\ srv.filled = <<>>
      /\ srv.ended = FALSE
  BY <1>5 DEF SrvIs
<1>7. /\ link \in Links /\ up = <<>> /\ down = <<>> /\ ~upEof /\ ~downEof /\ ~cut
      /\ sentUp = 0 /\ sentDown = 0 /\ gotUp = <<>> /\ gotDown = <<>>
      /\ odd = [count |-> 0, broken |-> FALSE] /\ pads = {} /\ padded = 0
  BY DEF Init
<1>8. Len(gotUp) = 0 /\ Len(gotDown) = 0 /\ Len(cli.out) = 0 /\ Len(srv.filled) = 0
  BY <1>4, <1>6, <1>7, EmptyFacts
<1>9. Typed
  <2>1. link.up \in Nat /\ link.down \in Nat /\ HandshakeLen \in Nat /\ HandshakeLen > 0
    BY <1>7, HopAssumption, Layout
  <2>2. QED
    BY <1>4, <1>6, <1>7, <1>8, <2>1 DEF Typed, TypeOK
<1>10. HandshakeLen \in Nat /\ HandshakeLen > 0
  BY Layout
<1>11. CliOK
  <2>1. HandshakeLen + 0 + 1 = HandshakeLen + 1 /\ 0 + 1 = 1
    BY <1>10
  <2>2. QED
    BY <1>2, <1>4, <1>7, <1>8, <2>1 DEF CliOK
<1>12. SrvOK
  BY <1>6 DEF SrvOK, FakeTLS
<1>13. DataOK
  BY <1>7, <1>8, EmptyFacts DEF DataOK
<1>14. PhaseOK
  BY <1>4, <1>6, <1>7 DEF PhaseOK
<1>15. EofOK
  BY <1>4, <1>6, <1>7 DEF EofOK
<1>16. UpOK
  <2>1. PICK z, f : z = 0 /\ f = UpStream(link)
    OBVIOUS
  <2>2. z \in Nat /\ z <= z /\ IsStream(f)
    BY <2>1, StreamsAre
  <2>3. Piece(f, z, z) = <<>> /\ LaidOut(f, <<>>, z, z)
    BY <2>2, PieceEmpty, LaidNone
  <2>4. OnWire(f, up, z, z)
    BY <1>7, <2>3 DEF OnWire
  <2>5. UpSent(z)
    BY <1>4, <1>7, <1>10, <2>1 DEF UpSent
  <2>6. UpTaken(z)
    BY <1>6, <1>10, <2>1, <2>3 DEF UpTaken
  <2>7. QED
    BY <2>1, <2>2, <2>4, <2>5, <2>6 DEF UpOK
<1>17. ReadOK
  BY <1>7, EmptyFacts DEF ReadOK
<1>18. DownOK
  BY <1>4, <1>7, <1>8 DEF DownOK
<1>19. PadsOK
  BY <1>7, FS_EmptySet DEF PadsOK
<1>20. StrangerOK
  BY <1>6, <1>7 DEF StrangerOK
<1>21. QED
  BY <1>9, <1>11, <1>12, <1>13, <1>14, <1>15, <1>16, <1>17, <1>18, <1>19, <1>20 DEF Inv

(* Fresh keystream is added to the history.                                *)
LEMMA UsesFacts ==
  ASSUME PadsOK, NEW units, Uses(units), IsFiniteSet(units), \A u \in units : u \notin pads
  PROVE  /\ IsFiniteSet(pads') /\ padded' = Cardinality(pads')
         /\ pads' = pads \union units
<1>1. pads' = pads \union units /\ padded' = padded + Cardinality(units)
  BY DEF Uses
<1>2. IsFiniteSet(pads) /\ padded = Cardinality(pads)
  BY DEF PadsOK
<1>3. pads \intersect units = {}
  OBVIOUS
<1>4. /\ IsFiniteSet(pads \union units)
      /\ Cardinality(pads \union units)
           = Cardinality(pads) + Cardinality(units) - Cardinality(pads \intersect units)
  BY <1>2, FS_Union
<1>5. /\ Cardinality(pads \intersect units) = 0
      /\ Cardinality(pads) \in Nat /\ Cardinality(units) \in Nat
  BY <1>2, <1>3, FS_EmptySet, FS_CardinalityType
<1>6. QED
  BY <1>1, <1>2, <1>4, <1>5

-----------------------------------------------------------------------------
(* Steps of the client. *)

LEMMA KnownGrows ==
  ASSUME link' = link,
         sentUp \in Nat, sentUp' \in Nat, sentUp <= sentUp',
         sentDown \in Nat, sentDown' \in Nat, sentDown <= sentDown',
         Len(gotUp) \in Nat, Len(gotUp') \in Nat, Len(gotUp) <= Len(gotUp'),
         cli.pc \in {"open", "gone"} => cli'.pc \in {"open", "gone"},
         srv.pc \notin {"hello", "init"} => srv'.pc \notin {"hello", "init"}
  PROVE  \A u : Known(u) => Known(u)'
<1> SUFFICES ASSUME NEW u, Known(u) PROVE Known(u)'
  OBVIOUS
<1>1. HandshakeLen \in Nat
  BY Layout
<1>2. CASE /\ cli.pc \in {"open", "gone"}
           /\ \E k \in 1..(HandshakeLen + sentUp) : u = UnitAt(Up(link), k)
  <2>1. PICK k \in 1..(HandshakeLen + sentUp) : u = UnitAt(Up(link), k)
    BY <1>2
  <2>2. k \in 1..(HandshakeLen + sentUp')
    <3>1. PICK h, m, n : h = HandshakeLen /\ m = sentUp /\ n = sentUp'
      OBVIOUS
    <3>2. h \in Nat /\ m \in Nat /\ n \in Nat /\ m <= n /\ k \in 1..(h + m)
      BY <1>1, <3>1
    <3>3. k \in 1..(h + n)
      BY ONLY <3>2
    <3>4. QED
      BY <3>1, <3>3
  <2>3. QED
    BY <1>2, <2>1, <2>2 DEF Known
<1>3. CASE /\ srv.pc \notin {"hello", "init"}
           /\ \E k \in 1..(HandshakeLen + Len(gotUp)) : u = UnitAt(Relay, k)
  <2>1. PICK k \in 1..(HandshakeLen + Len(gotUp)) : u = UnitAt(Relay, k)
    BY <1>3
  <2>2. k \in 1..(HandshakeLen + Len(gotUp'))
    BY <1>1
  <2>3. QED
    BY <1>3, <2>1, <2>2 DEF Known
<1>4. CASE \E k \in 1..sentDown : u = UnitAt(Down(link), k)
  <2>1. PICK k \in 1..sentDown : u = UnitAt(Down(link), k)
    BY <1>4
  <2>2. k \in 1..sentDown'
    OBVIOUS
  <2>3. QED
    BY <2>1, <2>2 DEF Known
<1>5. QED
  BY <1>2, <1>3, <1>4 DEF Known

LEMMA ClientHelloInv == Inv /\ ClientHello => Inv'
<1> SUFFICES ASSUME Inv, ClientHello PROVE Inv'
  OBVIOUS
<1> USE DEF Inv
<1>1. /\ FakeTLS /\ cli.pc = "start" /\ cli' = [cli EXCEPT !.pc = "drain"]
      /\ up' = <<client_hello(link.secret, link.host)>>
      /\ UNCHANGED <<link, srv, down, upEof, downEof, cut, sentUp, gotUp, sentDown,
                     gotDown, odd, pads, padded>>
  BY DEF ClientHello
<1>2. /\ CliIs(cli') /\ cli'.pc = "drain" /\ cli'.out = cli.out /\ cli'.ended = cli.ended
      /\ cli'.handshake = cli.handshake /\ cli'.enc = cli.enc /\ cli'.dec = cli.dec
  <2>1. PICK c, d, x : c = cli /\ d = cli' /\ x = "drain"
    OBVIOUS
  <2>2. CliIs(c) /\ d = CliPc(c, x)
    BY <1>1, <2>1 DEF CliOK, CliPc
  <2>3. QED
    BY <2>1, <2>2, CliSets
<1>3. /\ up = <<>> /\ down = <<>> /\ ~cut /\ cli.out = <<>> /\ sentUp = 0 /\ sentDown = 0
      /\ gotDown = <<>> /\ srv.pc \in {"hello", "gone"}
  BY <1>1 DEF PhaseOK
<1>4. Typed'
  BY <1>1, <1>2 DEF Typed, TypeOK
<1>5. CliOK'
  BY <1>1, <1>2 DEF CliOK, Own
<1>6. SrvOK' /\ DataOK'
  BY <1>1 DEF SrvOK, DataOK, FakeTLS
<1>7. PhaseOK'
  BY <1>1, <1>2, <1>3 DEF PhaseOK, FakeTLS
<1>8. EofOK'
  BY <1>1, <1>2, <1>3 DEF EofOK
<1>9. UpOK'
  <2>1. PICK a, b \in Nat : a <= b /\ UpSent(b) /\ UpTaken(a)
    BY DEF UpOK
  <2>2. b = 0 /\ a = 0
    BY <1>1, <2>1 DEF UpSent
  <2>3. UpSent(b)'
    BY <1>1, <1>2, <2>1, <2>2 DEF UpSent
  <2>4. UpTaken(a)'
    BY <1>1, <2>1 DEF UpTaken
  <2>5. PICK r : r = client_hello(link.secret, link.host)
    OBVIOUS
  <2>6. Holds(UpStream(link), r, a, b)
    <3>1. r.type = "handshake"
      BY <2>5 DEF client_hello, Record
    <3>2. QED
      BY <2>2, <3>1 DEF Holds
  <2>7. LaidOut(UpStream(link), <<r>>, a, b)
    BY <2>6, LaidOne
  <2>8. OnWire(UpStream(link), up, a, b)'
    BY <1>1, <2>5, <2>7 DEF OnWire, FakeTLS
  <2>9. QED
    BY <2>1, <2>3, <2>4, <2>8 DEF UpOK
<1>10. ReadOK'
  BY <1>1, <1>3 DEF ReadOK
<1>11. DownOK'
  BY <1>1, <1>2 DEF DownOK
<1>12. PadsOK'
  <2>1. Len(gotUp) \in Nat /\ Len(gotUp') = Len(gotUp)
    BY <1>1 DEF DataOK
  <2>2. \A u : Known(u) => Known(u)'
    BY <1>1, <1>2, <2>1, Numbers, KnownGrows
  <2>3. QED
    BY <1>1, <2>2 DEF PadsOK
<1>13. StrangerOK'
  BY <1>1 DEF StrangerOK, Stranger, FakeTLS
<1>14. QED
  BY <1>4, <1>5, <1>6, <1>7, <1>8, <1>9, <1>10, <1>11, <1>12, <1>13

(* The client is gone: nothing of its stream stays with it, unless nobody  *)
(* reads any more.                                                         *)
LEMMA ClientGoneInv ==
  ASSUME Inv, NEW told \in BOOLEAN, ClientGone(told), cli.pc \in {"drain", "open"},
         UNCHANGED <<link, srv, up, downEof, cut, sentUp, gotUp, sentDown, gotDown, odd,
                     pads, padded>>,
         down' = down \/ down # <<>>,
         cli.pc = "drain" \/ cut \/ srv.pc = "gone" \/ cli.out = <<>>
  PROVE  Inv'
<1> USE DEF Inv
<1>1. cli' = [cli EXCEPT !.pc = "gone", !.ended = told] /\ upEof' = TRUE
  BY DEF ClientGone
<1>2. /\ CliIs(cli') /\ cli'.pc = "gone" /\ cli'.out = cli.out /\ cli'.ended = told
      /\ cli'.handshake = cli.handshake /\ cli'.enc = cli.enc /\ cli'.dec = cli.dec
  <2>1. PICK c, d, x, y : c = cli /\ d = cli' /\ x = "gone" /\ y = told
    OBVIOUS
  <2>2. CliIs(c) /\ d = CliLeft(c, x, y)
    BY <1>1, <2>1 DEF CliOK, CliLeft
  <2>3. QED
    BY <2>1, <2>2, CliSets
<1>3. /\ cut => down' = <<>> /\ down = <<>>
      /\ srv.pc = "hello" => down' = <<>> /\ down = <<>>
      /\ Stranger => down' = <<>> /\ down = <<>>
  BY DEF EofOK, PhaseOK, StrangerOK
<1>4. Typed'
  BY <1>2 DEF Typed, TypeOK
<1>5. CliOK'
  BY <1>2 DEF CliOK, Own
<1>6. SrvOK' /\ DataOK'
  BY DEF SrvOK, DataOK, FakeTLS
<1>7. PhaseOK'
  BY <1>2, <1>3 DEF PhaseOK, FakeTLS
<1>8. EofOK'
  BY <1>1, <1>2, <1>3 DEF EofOK
<1>9. UpOK'
  <2>1. PICK a, b \in Nat : /\ a <= b /\ UpSent(b) /\ UpTaken(a)
                            /\ cut \/ OnWire(UpStream(link), up, a, b)
    BY DEF UpOK
  <2>2. cli.pc = "open" /\ cli.out = <<>> => b = HandshakeLen + sentUp
    <3>1. PICK e, f : e = HandshakeLen + sentUp /\ f = UpStream(link)
      OBVIOUS
    <3>2. e \in Nat /\ IsStream(f) /\ b <= e
      BY <2>1, <3>1, Numbers, StreamsAre DEF UpSent
    <3>3. Piece(f, b, e) = <<>> <=> b = e
      BY <3>2, PieceEmpty
    <3>4. QED
      BY <2>1, <3>1, <3>3 DEF UpSent
  <2>3. UpSent(b)'
    BY <1>2, <2>1, <2>2 DEF UpSent
  <2>4. UpTaken(a)'
    BY <2>1 DEF UpTaken
  <2>5. (cut \/ OnWire(UpStream(link), up, a, b))'
    BY <2>1 DEF OnWire, FakeTLS
  <2>6. QED
    BY <2>1, <2>3, <2>4, <2>5 DEF UpOK
<1>10. ReadOK'
  BY DEF ReadOK, FakeTLS
<1>11. DownOK'
  BY <1>2 DEF DownOK
<1>12. PadsOK'
  <2>1. Len(gotUp) \in Nat /\ Len(gotUp') = Len(gotUp)
    BY DEF DataOK
  <2>2. \A u : Known(u) => Known(u)'
    BY <1>2, <2>1, Numbers, KnownGrows
  <2>3. QED
    BY <2>2 DEF PadsOK
<1>13. StrangerOK'
  BY <1>3 DEF StrangerOK, Stranger, FakeTLS
<1>14. QED
  BY <1>4, <1>5, <1>6, <1>7, <1>8, <1>9, <1>10, <1>11, <1>12, <1>13

(* The init goes out, or into the hands of a client that frames it itself. *)
LEMMA SendInitInv ==
  ASSUME Inv, SendInit, ~cut,
         \/ ~FakeTLS /\ cli.pc = "start" /\ down' = down
         \/ FakeTLS /\ cli.pc = "drain" /\ srv.pc # "hello" /\ down' = <<>>
  PROVE  Inv'
<1> USE DEF Inv
<1>1. /\ UNCHANGED <<link, srv, upEof, downEof, cut, sentUp, gotUp, sentDown, gotDown, odd>>
      /\ Uses(InitUnits)
      /\ Own => /\ up' = up \o (IF FakeTLS THEN write_tls_appdata(cli.handshake)
                                           ELSE cli.handshake)
                /\ cli' = CliPc(cli, "open")
      /\ ~Own => up' = up /\ cli' = CliPcOut(cli, "open", cli.handshake)
  BY DEF SendInit, CliPc, CliPcOut
<1>2. PICK f, h : f = UpStream(link) /\ h = HandshakeLen
  OBVIOUS
<1>3. /\ IsStream(f) /\ h \in Nat /\ h > 0 /\ Piece(f, 0, h) = cli.handshake
      /\ sentUp = 0 /\ sentDown = 0 /\ gotDown = <<>> /\ cli.out = <<>> /\ down' = <<>>
      /\ cli.pc \in {"start", "drain"} /\ srv.pc # "hello" /\ ~upEof
      /\ Len(gotDown) = 0
  <2>1. IsStream(f) /\ h \in Nat /\ h > 0
    BY <1>2, StreamsAre, Layout
  <2>2. Piece(f, 0, h) = cli.handshake
    BY <1>2, InitPiece DEF CliOK
  <2>3. /\ sentUp = 0 /\ sentDown = 0 /\ gotDown = <<>> /\ cli.out = <<>> /\ down' = <<>>
        /\ srv.pc # "hello"
    BY DEF PhaseOK
  <2>4. ~upEof
    BY DEF EofOK
  <2>5. QED
    BY <2>1, <2>2, <2>3, <2>4, EmptyFacts
<1>4. /\ CliIs(cli') /\ cli'.pc = "open" /\ cli'.ended = cli.ended
      /\ cli'.handshake = cli.handshake /\ cli'.enc = cli.enc /\ cli'.dec = cli.dec
      /\ cli'.out = IF Own THEN <<>> ELSE Piece(f, 0, h)
  <2>1. PICK c, d, x : c = cli /\ d = cli' /\ x = "open"
    OBVIOUS
  <2>2. CliIs(c)
    BY <2>1 DEF CliOK
  <2>3. CASE Own
    <3>1. d = CliPc(c, x)
      BY <1>1, <2>1, <2>3
    <3>2. /\ CliIs(d) /\ d.pc = x /\ d.out = c.out /\ d.ended = c.ended
          /\ d.handshake = c.handshake /\ d.enc = c.enc /\ d.dec = c.dec
      BY <2>2, <3>1, CliSets
    <3>3. QED
      BY <1>3, <2>1, <2>3, <3>2
  <2>4. CASE ~Own
    <3>1. PICK y : y = cli.handshake
      OBVIOUS
    <3>2. d = CliPcOut(c, x, y)
      BY <1>1, <2>1, <2>4, <3>1
    <3>3. /\ CliIs(d) /\ d.pc = x /\ d.out = y /\ d.ended = c.ended
          /\ d.handshake = c.handshake /\ d.enc = c.enc /\ d.dec = c.dec
      BY <2>2, <3>2, CliSets
    <3>4. QED
      BY <1>3, <2>1, <2>4, <3>1, <3>3
  <2>5. QED
    BY <2>3, <2>4
<1>5. Typed'
  <2>1. Len(cli'.out) <= HandshakeLen + link.up
    <3>1. Len(Piece(f, 0, h)) = h /\ Len(<<>>) = 0
      BY <1>2, <1>3, InitFacts, EmptyFacts DEF CliOK
    <3>2. link.up \in Nat
      BY Numbers
    <3>3. QED
      BY <1>2, <1>3, <1>4, <3>1, <3>2
  <2>2. QED
    BY <1>1, <1>4, <2>1 DEF Typed, TypeOK
<1>6. CliOK'
  BY <1>1, <1>4 DEF CliOK, Own
<1>7. SrvOK' /\ DataOK'
  BY <1>1 DEF SrvOK, DataOK, FakeTLS
<1>8. PhaseOK'
  BY <1>1, <1>3, <1>4 DEF PhaseOK
<1>9. EofOK'
  BY <1>1, <1>3, <1>4 DEF EofOK
<1>10. PICK a \in Nat, b \in Nat : /\ a <= b /\ UpSent(b) /\ UpTaken(a)
                                   /\ cut \/ OnWire(UpStream(link), up, a, b)
  BY DEF UpOK
<1>11. a = 0 /\ b = 0
  BY <1>3, <1>10 DEF UpSent
<1>12. OnWire(f, up, 0, 0)
  BY <1>2, <1>10, <1>11
<1>13. UpTaken(0)'
  BY <1>1, <1>10, <1>11 DEF UpTaken
<1>14. Piece(f, 0, 0) = <<>> /\ Piece(f, h, h) = <<>>
  BY <1>3, PieceEmpty
<1>15. h + 0 = h
  BY <1>3
<1>16. UpOK'
  <2>1. CASE Own
    <3>1. OnWire(f, up', 0, h)
      <4>1. CASE FakeTLS
        <5>1. up' = up \o write_tls_appdata(Piece(f, 0, h))
          BY <1>1, <1>3, <2>1, <4>1
        <5>2. LaidOut(f, up, 0, 0) /\ LaidOut(f, write_tls_appdata(Piece(f, 0, h)), 0, h)
          BY <1>3, <1>12, <4>1, WriteFacts DEF OnWire
        <5>3. LaidOut(f, up \o write_tls_appdata(Piece(f, 0, h)), 0, h)
          BY <1>3, <5>2, LaidJoin
        <5>4. QED
          BY <4>1, <5>1, <5>3 DEF OnWire
      <4>2. CASE ~FakeTLS
        <5>1. up = Piece(f, 0, 0) /\ up' = up \o Piece(f, 0, h)
          BY <1>1, <1>3, <1>12, <2>1, <4>2 DEF OnWire
        <5>2. Piece(f, 0, 0) \o Piece(f, 0, h) = Piece(f, 0, h)
          BY <1>3, PieceJoin
        <5>3. QED
          BY <4>2, <5>1, <5>2 DEF OnWire
      <4>3. QED
        BY <4>1, <4>2
    <3>2. OnWire(UpStream(link), up, 0, h)'
      BY <1>1, <1>2, <3>1 DEF OnWire, FakeTLS
    <3>3. UpSent(h)'
      BY <1>1, <1>2, <1>3, <1>4, <1>14, <1>15, <2>1 DEF UpSent
    <3>4. QED
      BY <1>3, <1>13, <3>2, <3>3 DEF UpOK
  <2>2. CASE ~Own
    <3>1. OnWire(UpStream(link), up, 0, 0)'
      BY <1>1, <1>2, <1>12, <2>2 DEF OnWire, FakeTLS
    <3>2. UpSent(0)'
      BY <1>1, <1>2, <1>3, <1>4, <1>15, <2>2 DEF UpSent
    <3>3. QED
      BY <1>13, <3>1, <3>2 DEF UpOK
  <2>3. QED
    BY <2>1, <2>2
<1>17. ReadOK'
  <2>1. SUFFICES ASSUME FakeTLS, srv.pc \in {"init", "session"}, ~odd.broken
                 PROVE  IsSeq(up') /\ Readable(up')
    BY <1>1 DEF ReadOK, FakeTLS
  <2>2. IsSeq(up) /\ Readable(up)
    BY <2>1 DEF ReadOK
  <2>3. CASE Own
    <3>1. PICK w : w = write_tls_appdata(Piece(f, 0, h))
      OBVIOUS
    <3>2. up' = up \o w
      BY <1>1, <1>3, <2>1, <2>3, <3>1
    <3>3. Readable(w) /\ LaidOut(f, w, 0, h)
      BY <1>3, <3>1, WriteFacts
    <3>4. IsSeq(w)
      BY <3>3 DEF LaidOut
    <3>5. Readable(up \o w)
      BY <2>2, <3>3, <3>4, ReadableJoin
    <3>6. LaidOut(f, up, 0, 0)
      BY <1>12, <2>1 DEF OnWire
    <3>7. LaidOut(f, up \o w, 0, h)
      BY <1>3, <3>3, <3>6, LaidJoin
    <3>8. QED
      BY <3>2, <3>5, <3>7 DEF LaidOut
  <2>4. CASE ~Own
    BY <1>1, <2>2, <2>4
  <2>5. QED
    BY <2>3, <2>4
<1>18. DownOK'
  <2>1. PICK g : g = DownStream(link)
    OBVIOUS
  <2>2. IsStream(g)
    BY <2>1, StreamsAre
  <2>3. Piece(g, 0, 0) = <<>> /\ LaidOut(g, <<>>, 0, 0)
    BY <2>2, PieceEmpty, LaidNone
  <2>4. OnWire(DownStream(link), down, Len(gotDown), sentDown)'
    BY <1>1, <1>3, <2>1, <2>3 DEF OnWire
  <2>5. QED
    BY <1>1, <1>3, <2>4, EmptyFacts DEF DownOK
<1>19. PadsOK'
  <2>1. Len(gotUp) \in Nat /\ Len(gotUp') = Len(gotUp)
    BY <1>1 DEF DataOK
  <2>2. \A u : Known(u) => Known(u)'
    BY <1>1, <1>3, <1>4, <2>1, Numbers, KnownGrows
  <2>3. /\ IsFiniteSet(InitUnits)
        /\ \A u \in InitUnits : \E k \in 1..HandshakeLen : u = UnitAt(Up(link), k)
    <3>1. PICK c, n : c = Up(link) /\ n = DcPos
      OBVIOUS
    <3>2. PICK o : o = 1
      OBVIOUS
    <3>3. c = At(c, o) /\ o \in Nat /\ n \in Nat /\ n <= HandshakeLen
      BY <3>1, <3>2, CipherFacts, Layout DEF Up
    <3>4. /\ IsFiniteSet(Units(At(c, o), n))
          /\ \A u \in Units(At(c, o), n) : \E j \in o..(o + n - 1) : u = UnitAt(c, j)
      BY <3>3, UnitsFacts
    <3>5. Keyed(PrekeyIv(cli.handshake), link.secret) = c
      BY <3>1, InitFacts DEF CliOK, Up
    <3>6. InitUnits \subseteq Units(c, n)
      BY <3>1, <3>5 DEF InitUnits
    <3>7. IsFiniteSet(InitUnits)
      BY <3>3, <3>4, <3>6, FS_Subset
    <3>8. o + n - 1 = n /\ HandshakeLen \in Nat
      BY <3>2, <3>3, Layout
    <3>9. \A j \in o..(o + n - 1) : j \in 1..HandshakeLen
      BY <3>2, <3>3, <3>8
    <3>10. QED
      BY <3>1, <3>3, <3>4, <3>6, <3>7, <3>9
  <2>4. \A u \in InitUnits : u \notin pads
    <3>1. SUFFICES ASSUME NEW u \in InitUnits, u \in pads PROVE FALSE
      OBVIOUS
    <3>2. PICK k : u = UnitAt(Up(link), k)
      BY <2>3, <3>1
    <3>3. PICK j : u = UnitAt(Relay, j)
      <4>1. Known(u)
        BY <3>1 DEF PadsOK
      <4>2. ~ \E i \in 1..0 : TRUE
        OBVIOUS
      <4>3. QED
        BY <1>3, <4>1, <4>2 DEF Known
    <3>4. UnitAt(Up(link), k) = UnitAt(Relay, j)
      BY <3>2, <3>3
    <3>5. Up(link).key = Relay.key
      BY <3>4, UnitAtFacts
    <3>6. QED
      BY <3>5, KeysDiffer
  <2>5. IsFiniteSet(pads') /\ padded' = Cardinality(pads') /\ pads' = pads \union InitUnits
    BY <1>1, <2>3, <2>4, UsesFacts
  <2>6. \A u \in InitUnits : Known(u)'
    <3>1. SUFFICES ASSUME NEW u \in InitUnits PROVE Known(u)'
      OBVIOUS
    <3>2. PICK k \in 1..HandshakeLen : u = UnitAt(Up(link), k)
      BY <2>3, <3>1
    <3>3. HandshakeLen + sentUp' = HandshakeLen
      BY <1>1, <1>2, <1>3, <1>15
    <3>4. QED
      BY <1>1, <1>4, <3>2, <3>3 DEF Known
  <2>7. \A u \in pads' : Known(u)'
    BY <2>2, <2>5, <2>6 DEF PadsOK
  <2>8. QED
    BY <2>5, <2>7 DEF PadsOK
<1>20. StrangerOK'
  BY <1>1, <1>3 DEF StrangerOK, Stranger, FakeTLS
<1>21. QED
  BY <1>5, <1>6, <1>7, <1>8, <1>9, <1>16, <1>17, <1>18, <1>19, <1>20

(* The three records of the ServerHello: only the last is application data. *)
LEMMA HelloParts ==
  ASSUME NEW q, HelloRest(q)
  PROVE  /\ Head(q).type = "appdata" => Tail(q) = <<>>
         /\ Head(q).type # "appdata" => HelloRest(Tail(q))
<1>1. PICK x, y, z : /\ x = Record("handshake", "1.2", <<Byte("shello", 0)>>)
                     /\ y = Record("ccs", "1.2", <<Byte("ccs", 1)>>)
                     /\ z = AppData(<<Byte("cert", 0)>>)
  OBVIOUS
<1>2. x.type = "handshake" /\ y.type = "ccs" /\ z.type = "appdata"
  BY <1>1 DEF Record, AppData
<1>3. build_faketls_server_hello = <<x, y, z>>
  BY <1>1 DEF build_faketls_server_hello
<1>4. Tail(<<x, y, z>>) = <<y, z>> /\ Tail(<<y, z>>) = <<z>> /\ Tail(<<z>>) = <<>>
  OBVIOUS
<1>5. CASE q = <<x, y, z>>
  BY <1>2, <1>3, <1>4, <1>5 DEF HelloRest
<1>6. CASE q = <<y, z>>
  BY <1>2, <1>3, <1>4, <1>6 DEF HelloRest
<1>7. CASE q = <<z>>
  BY <1>2, <1>3, <1>4, <1>7 DEF HelloRest
<1>8. QED
  BY <1>3, <1>4, <1>5, <1>6, <1>7 DEF HelloRest

LEMMA DrainInv == Inv /\ Drain => Inv'
<1> SUFFICES ASSUME Inv, Drain PROVE Inv'
  OBVIOUS
<1> USE DEF Inv
<1>1. PICK verdict : verdict = drain_faketls_server_hello(Head(down), cli.records)
  OBVIOUS
<1>2. cli.pc = "drain" /\ down # <<>> /\ down' = Tail(down)
  BY DEF Drain
<1>3. FakeTLS /\ srv.pc # "hello" /\ ~cut
  BY <1>2 DEF PhaseOK, EofOK
<1>4. HelloRest(down)
  BY <1>2 DEF PhaseOK
<1>5. /\ Head(down).type = "appdata" => Tail(down) = <<>>
      /\ Head(down).type # "appdata" => HelloRest(Tail(down))
  BY <1>4, HelloParts
<1>6. /\ verdict = "more" => Head(down).type # "appdata"
      /\ verdict = "done" => Head(down).type = "appdata"
  BY <1>1 DEF drain_faketls_server_hello
<1>7. CASE /\ verdict = "more"
           /\ cli' = [cli EXCEPT !.records = @ + 1]
           /\ UNCHANGED <<link, srv, up, upEof, downEof, cut, sentUp, gotUp,
                          sentDown, gotDown, odd, pads, padded>>
  <2>1. /\ CliIs(cli') /\ cli'.pc = cli.pc /\ cli'.out = cli.out /\ cli'.ended = cli.ended
        /\ cli'.handshake = cli.handshake /\ cli'.enc = cli.enc /\ cli'.dec = cli.dec
    <3>1. PICK c, d, x : c = cli /\ d = cli' /\ x = cli.records + 1
      OBVIOUS
    <3>2. CliIs(c) /\ d = CliRecords(c, x)
      BY <1>7, <3>1 DEF CliOK, CliRecords
    <3>3. /\ CliIs(d) /\ d.pc = c.pc /\ d.out = c.out /\ d.ended = c.ended
          /\ d.handshake = c.handshake /\ d.enc = c.enc /\ d.dec = c.dec
      BY <3>2, CliSets
    <3>4. QED
      BY <3>1, <3>3
  <2>2. HelloRest(down')
    BY <1>2, <1>5, <1>6, <1>7
  <2>4. Typed' /\ CliOK'
    BY <1>7, <2>1 DEF Typed, TypeOK, CliOK, Own
  <2>5. SrvOK' /\ DataOK'
    BY <1>7 DEF SrvOK, DataOK, FakeTLS
  <2>6. PhaseOK'
    BY <1>2, <1>3, <1>7, <2>1, <2>2 DEF PhaseOK, FakeTLS
  <2>7. EofOK'
    BY <1>3, <1>7, <2>1 DEF EofOK
  <2>8. UpOK'
    <3>1. PICK a \in Nat, b \in Nat : /\ a <= b /\ UpSent(b) /\ UpTaken(a)
                                      /\ cut \/ OnWire(UpStream(link), up, a, b)
      BY DEF UpOK
    <3>2. UpSent(b)' /\ UpTaken(a)' /\ (cut \/ OnWire(UpStream(link), up, a, b))'
      BY <1>7, <2>1, <3>1 DEF UpSent, UpTaken, OnWire, FakeTLS
    <3>3. QED
      BY <3>1, <3>2 DEF UpOK
  <2>9. ReadOK'
    BY <1>7 DEF ReadOK, FakeTLS
  <2>10. DownOK'
    BY <1>2, <1>7, <2>1 DEF DownOK
  <2>11. PadsOK'
    BY <1>7, <2>1 DEF PadsOK, Known
  <2>12. StrangerOK'
    BY <1>2, <1>7 DEF StrangerOK, Stranger, FakeTLS
  <2>13. QED
    BY <2>4, <2>5, <2>6, <2>7, <2>8, <2>9, <2>10, <2>11, <2>12
<1>8. CASE verdict = "done" /\ SendInit
  <2>1. down' = <<>>
    BY <1>2, <1>5, <1>6, <1>8
  <2>2. QED
    BY <1>2, <1>3, <1>8, <2>1, SendInitInv
<1>9. CASE /\ verdict = "fail" /\ ClientGone(FALSE)
           /\ UNCHANGED <<link, srv, up, downEof, cut, sentUp, gotUp,
                          sentDown, gotDown, odd, pads, padded>>
  BY <1>2, <1>9, ClientGoneInv
<1>10. QED
  BY <1>1, <1>7, <1>8, <1>9 DEF Drain

LEMMA PlainInitInv == Inv /\ PlainInit => Inv'
<1> SUFFICES ASSUME Inv, PlainInit PROVE Inv'
  OBVIOUS
<1>1. ~FakeTLS /\ cli.pc = "start" /\ SendInit /\ down' = down /\ ~cut
  BY DEF PlainInit, Inv, PhaseOK
<1>2. QED
  BY <1>1, SendInitInv

LEMMA DrainEofInv == Inv /\ DrainEof => Inv'
  BY ClientGoneInv DEF DrainEof

LEMMA ClientCloseInv == Inv /\ ClientClose => Inv'
  BY ClientGoneInv DEF ClientClose

LEMMA ClientEofInv == Inv /\ ClientEof => Inv'
<1> SUFFICES ASSUME Inv, ClientEof PROVE Inv'
  OBVIOUS
<1>1. /\ cli.pc = "open" /\ downEof /\ ClientGone(TRUE) /\ down' = down
      /\ UNCHANGED <<link, srv, up, downEof, cut, sentUp, gotUp, sentDown, gotDown, odd,
                     pads, padded>>
  BY DEF ClientEof
<1>2. cut \/ srv.pc = "gone"
  BY <1>1 DEF Inv, EofOK
<1>3. QED
  BY <1>1, <1>2, ClientGoneInv

(* How far each keystream has been used.                                   *)
LEMMA PadsBelow ==
  ASSUME PadsOK, NEW u \in pads
  PROVE  /\ \A k : u = UnitAt(Up(link), k) => k \in 1..(HandshakeLen + sentUp)
         /\ \A k : u = UnitAt(Down(link), k) => k \in 1..sentDown
         /\ \A k : u = UnitAt(Relay, k) =>
              k \in 1..(HandshakeLen + Len(gotUp)) /\ srv.pc \notin {"hello", "init"}
<1>1. Known(u)
  BY DEF PadsOK
<1>2. CASE \E k \in 1..(HandshakeLen + sentUp) : u = UnitAt(Up(link), k)
  BY <1>2, UnitAtFacts, KeysDiffer
<1>3. CASE /\ srv.pc \notin {"hello", "init"}
           /\ \E k \in 1..(HandshakeLen + Len(gotUp)) : u = UnitAt(Relay, k)
  BY <1>3, UnitAtFacts, KeysDiffer
<1>4. CASE \E k \in 1..sentDown : u = UnitAt(Down(link), k)
  BY <1>4, UnitAtFacts, KeysDiffer
<1>5. QED
  BY <1>1, <1>2, <1>3, <1>4 DEF Known

(* The next n bytes of a keystream that has been used up to k.             *)
LEMMA UsesFresh ==
  ASSUME PadsOK, NEW c, NEW k \in Nat, NEW m, NEW n \in Nat, m = k + 1,
         NEW units, Uses(units), units \subseteq Units(At(c, m), n),
         \A u \in pads : \A j : u = UnitAt(c, j) => j \in 1..k
  PROVE  /\ IsFiniteSet(pads') /\ padded' = Cardinality(pads')
         /\ \A u \in pads' : u \in pads \/ \E j \in 1..(k + n) : u = UnitAt(c, j)
<1>1. m \in Nat
  OBVIOUS
<1>2. /\ IsFiniteSet(Units(At(c, m), n))
      /\ \A u \in Units(At(c, m), n) : \E j \in m..(m + n - 1) : u = UnitAt(c, j)
  BY <1>1, UnitsFacts
<1>3. /\ IsFiniteSet(units)
      /\ \A u \in units : \E j \in m..(m + n - 1) : u = UnitAt(c, j)
  BY <1>2, FS_Subset
<1>4. \A j \in m..(m + n - 1) : j \in 1..(k + n) /\ j \notin 1..k
  OBVIOUS
<1>5. \A u \in units : u \notin pads
  BY <1>3, <1>4
<1>6. IsFiniteSet(pads') /\ padded' = Cardinality(pads') /\ pads' = pads \union units
  BY <1>3, <1>5, UsesFacts
<1>7. QED
  BY <1>3, <1>4, <1>6

(* The client's stream grows by n bytes.                                   *)
LEMMA ClientWriteInv == \A n \in UpWrites : Inv /\ ClientWrite(n) => Inv'
<1> SUFFICES ASSUME NEW n \in UpWrites, Inv, ClientWrite(n) PROVE Inv'
  OBVIOUS
<1> USE DEF Inv
<1>1. PICK f, h, s, e, g, bytes :
        /\ f = UpStream(link) /\ h = HandshakeLen /\ s = sentUp /\ e = h + s /\ g = e + n
        /\ bytes = apply_keystream(cli.enc, Fresh("up", sentUp, n))
  OBVIOUS
<1>2. /\ cli.pc = "open" /\ ~cut /\ sentUp + n <= link.up /\ sentUp' = sentUp + n
      /\ UNCHANGED <<link, srv, down, upEof, downEof, cut, gotUp, sentDown, gotDown, odd>>
      /\ Uses(Units(cli.enc, n))
      /\ Own => /\ up' = up \o (IF FakeTLS THEN write_tls_appdata(bytes) ELSE bytes)
                /\ cli' = CliEnc(cli, Advance(cli.enc, n))
      /\ ~Own => /\ up' = up
                 /\ cli' = CliEncOut(cli, Advance(cli.enc, n), cli.out \o bytes)
  BY <1>1 DEF ClientWrite, CliEnc, CliEncOut
<1>3. /\ n \in Nat /\ h \in Nat /\ s \in Nat /\ e \in Nat /\ g \in Nat /\ e <= g
      /\ IsStream(f) /\ link.up \in Nat /\ g = h + sentUp' /\ sentUp' \in Nat
      /\ g <= h + link.up /\ g <= g /\ g = HandshakeLen + sentUp'
  <2>1. n \in Nat /\ h \in Nat /\ s \in Nat /\ link.up \in Nat
    BY <1>1, HopAssumption, Numbers
  <2>2. IsStream(f)
    BY <1>1, StreamsAre
  <2>3. QED
    BY <1>1, <1>2, <2>1, <2>2
<1>4. bytes = Piece(f, e, g)
  <2>1. cli.enc = At(Up(link), HandshakeLen + s + 1)
    BY <1>1 DEF CliOK
  <2>2. apply_keystream(At(Up(link), HandshakeLen + s + 1), Fresh("up", s, n))
           = Piece(UpStream(link), HandshakeLen + s, HandshakeLen + s + n)
    BY <1>3, UpBytes
  <2>3. QED
    BY <1>1, <2>1, <2>2
<1>5. PICK m : m = e + 1
  OBVIOUS
<1>6. cli.enc = At(Up(link), m) /\ m \in Nat
  BY <1>1, <1>3, <1>5 DEF CliOK
<1>7. Advance(cli.enc, n) = At(Up(link), HandshakeLen + sentUp' + 1)
  <2>1. Advance(At(Up(link), m), n) = At(Up(link), m + n)
    BY <1>3, <1>6, AtFacts
  <2>2. m + n = HandshakeLen + sentUp' + 1
    BY <1>1, <1>2, <1>3, <1>5
  <2>3. QED
    BY <1>6, <2>1, <2>2
<1>8. /\ CliIs(cli') /\ cli'.pc = cli.pc /\ cli'.ended = cli.ended
      /\ cli'.handshake = cli.handshake /\ cli'.enc = Advance(cli.enc, n)
      /\ cli'.dec = cli.dec /\ cli'.out = IF Own THEN <<>> ELSE cli.out \o bytes
  <2>1. PICK c, d, x, y : /\ c = cli /\ d = cli' /\ x = Advance(cli.enc, n)
                          /\ y = cli.out \o bytes
    OBVIOUS
  <2>2. CliIs(c) /\ (Own => c.out = <<>>)
    BY <2>1 DEF CliOK
  <2>3. CASE Own
    <3>1. d = CliEnc(c, x)
      BY <1>2, <2>1, <2>3
    <3>2. /\ CliIs(d) /\ d.pc = c.pc /\ d.out = c.out /\ d.ended = c.ended
          /\ d.handshake = c.handshake /\ d.enc = x /\ d.dec = c.dec
      BY <2>2, <3>1, CliMoves
    <3>3. QED
      BY <2>1, <2>2, <2>3, <3>2
  <2>4. CASE ~Own
    <3>1. d = CliEncOut(c, x, y)
      BY <1>2, <2>1, <2>4
    <3>2. /\ CliIs(d) /\ d.pc = c.pc /\ d.out = y /\ d.ended = c.ended
          /\ d.handshake = c.handshake /\ d.enc = x /\ d.dec = c.dec
      BY <2>2, <3>1, CliMoves
    <3>3. QED
      BY <2>1, <2>4, <3>2
  <2>5. QED
    BY <2>3, <2>4
<1>9. PICK a \in Nat, b \in Nat : /\ a <= b /\ UpSent(b) /\ UpTaken(a)
                                  /\ cut \/ OnWire(UpStream(link), up, a, b)
  BY DEF UpOK
<1>10. b <= e /\ cli.out = Piece(f, b, e) /\ OnWire(f, up, a, b) /\ b <= g
  BY <1>1, <1>2, <1>3, <1>9 DEF UpSent
<1>11. ~Own => cli'.out = Piece(f, b, g)
  <2>0. IsStream(f) /\ b \in Nat /\ e \in Nat /\ g \in Nat /\ b <= e /\ e <= g
    BY <1>3, <1>9, <1>10
  <2>1. Piece(f, b, e) \o Piece(f, e, g) = Piece(f, b, g)
    BY ONLY <2>0, PieceJoin
  <2>2. QED
    BY <1>4, <1>8, <1>10, <2>1
<1>12. Own => b = e
  BY <1>3, <1>9, <1>10, PieceEmpty DEF CliOK
<1>13. UpTaken(a)'
  BY <1>2, <1>9 DEF UpTaken
<1>14. Typed'
  <2>1. Len(cli'.out) <= HandshakeLen + link.up
    <3>1. CASE Own
      BY <1>1, <1>3, <1>8, <3>1, EmptyFacts
    <3>2. CASE ~Own
      <4>1. Len(Piece(f, b, g)) = g - b
        BY <1>3, <1>9, <1>10, PieceSeq
      <4>2. g - b <= h + link.up
        BY <1>3, <1>9
      <4>3. QED
        BY <1>1, <1>11, <3>2, <4>1, <4>2
    <3>3. QED
      BY <3>1, <3>2
  <2>2. sentUp' \in 0..link.up
    BY <1>2, <1>3
  <2>3. QED
    BY <1>2, <1>8, <2>1, <2>2 DEF Typed, TypeOK
<1>15. CliOK'
  BY <1>2, <1>7, <1>8 DEF CliOK, Own
<1>16. SrvOK' /\ DataOK'
  BY <1>2 DEF SrvOK, DataOK, FakeTLS
<1>17. PhaseOK'
  BY <1>2, <1>8 DEF PhaseOK, FakeTLS
<1>18. EofOK'
  BY <1>2, <1>8 DEF EofOK
<1>19. FakeTLS /\ Own =>
         /\ LaidOut(f, up', a, g)
         /\ IsSeq(up) /\ Readable(up) => IsSeq(up') /\ Readable(up')
  <2>1. SUFFICES ASSUME FakeTLS, Own
                 PROVE  /\ LaidOut(f, up', a, g)
                        /\ IsSeq(up) /\ Readable(up) => IsSeq(up') /\ Readable(up')
    OBVIOUS
  <2>2. PICK w : w = write_tls_appdata(Piece(f, e, g))
    OBVIOUS
  <2>3. up' = up \o w
    BY <1>2, <1>4, <2>1, <2>2
  <2>4. LaidOut(f, w, e, g) /\ Readable(w)
    BY <1>3, <2>2, WriteFacts
  <2>5. LaidOut(f, up, a, e)
    BY <1>10, <1>12, <2>1 DEF OnWire
  <2>6. LaidOut(f, up \o w, a, g)
    BY <1>3, <1>9, <2>4, <2>5, LaidJoin
  <2>7. IsSeq(w) /\ IsSeq(up \o w)
    BY <2>4, <2>6 DEF LaidOut
  <2>8. IsSeq(up) /\ Readable(up) => Readable(up \o w)
    BY <2>4, <2>7, ReadableJoin
  <2>9. QED
    BY <2>3, <2>6, <2>7, <2>8
<1>20. UpOK'
  <2>1. CASE Own
    <3>1. OnWire(f, up', a, g)
      <4>1. CASE FakeTLS
        BY <1>19, <2>1, <4>1 DEF OnWire
      <4>2. CASE ~FakeTLS
        <5>1. up = Piece(f, a, e) /\ up' = up \o Piece(f, e, g)
          BY <1>2, <1>4, <1>10, <1>12, <2>1, <4>2 DEF OnWire
        <5>0. IsStream(f) /\ a \in Nat /\ e \in Nat /\ g \in Nat /\ a <= e /\ e <= g
          BY <1>3, <1>9, <1>12, <2>1
        <5>2. Piece(f, a, e) \o Piece(f, e, g) = Piece(f, a, g)
          BY ONLY <5>0, PieceJoin
        <5>3. QED
          BY <4>2, <5>1, <5>2 DEF OnWire
      <4>3. QED
        BY <4>1, <4>2
    <3>2. OnWire(UpStream(link), up, a, g)'
      BY <1>1, <1>2, <3>1 DEF OnWire, FakeTLS
    <3>3. Piece(f, g, g) = <<>>
      BY <1>3, PieceEmpty
    <3>4. UpSent(g)'
      <4>1. cli'.pc = "open" /\ cli'.out = Piece(UpStream(link'), g, g)
        BY <1>1, <1>2, <1>8, <2>1, <3>3
      <4>2. QED
        BY <1>3, <4>1 DEF UpSent
    <3>5. a <= g
      <4>1. a \in Nat /\ b \in Nat /\ g \in Nat /\ a <= b /\ b <= g
        BY <1>3, <1>9, <1>10
      <4>2. QED
        BY ONLY <4>1
    <3>6. QED
      BY <1>3, <1>9, <1>13, <3>2, <3>4, <3>5 DEF UpOK
  <2>2. CASE ~Own
    <3>1. OnWire(UpStream(link), up, a, b)'
      BY <1>1, <1>2, <1>10, <2>2 DEF OnWire, FakeTLS
    <3>2. UpSent(b)'
      BY <1>1, <1>2, <1>3, <1>8, <1>10, <1>11, <2>2 DEF UpSent
    <3>3. QED
      BY <1>9, <1>13, <3>1, <3>2 DEF UpOK
  <2>3. QED
    BY <2>1, <2>2
<1>21. ReadOK'
  <2>1. SUFFICES ASSUME FakeTLS, srv.pc \in {"init", "session"}, ~odd.broken
                 PROVE  IsSeq(up') /\ Readable(up')
    BY <1>2 DEF ReadOK, FakeTLS
  <2>2. IsSeq(up) /\ Readable(up)
    BY <2>1 DEF ReadOK
  <2>3. QED
    BY <1>2, <1>19, <2>1, <2>2
<1>22. DownOK'
  <2>1. Len(gotUp) \in Nat /\ Len(gotUp) <= sentUp
    BY DEF DownOK, DataOK
  <2>2. Len(gotUp') <= sentUp'
    BY <1>1, <1>2, <1>3, <2>1
  <2>3. QED
    BY <1>2, <1>8, <2>2 DEF DownOK, OnWire, FakeTLS
<1>23. PadsOK'
  <2>1. Len(gotUp) \in Nat /\ Len(gotUp') = Len(gotUp) /\ sentUp <= sentUp'
    BY <1>1, <1>2, <1>3 DEF DataOK
  <2>2. \A u : Known(u) => Known(u)'
    BY <1>2, <1>3, <1>8, <2>1, Numbers, KnownGrows
  <2>3. \A u \in pads : \A j : u = UnitAt(Up(link), j) => j \in 1..e
    BY <1>1, PadsBelow
  <2>4. PICK units : units = Units(At(Up(link), m), n) /\ Uses(units)
    BY <1>2, <1>6
  <2>5. /\ IsFiniteSet(pads') /\ padded' = Cardinality(pads')
        /\ \A u \in pads' : u \in pads \/ \E j \in 1..(e + n) : u = UnitAt(Up(link), j)
    BY <1>3, <1>5, <2>3, <2>4, UsesFresh
  <2>6. \A u : (\E j \in 1..(e + n) : u = UnitAt(Up(link), j)) => Known(u)'
    <3>1. e + n = HandshakeLen + sentUp'
      BY <1>1, <1>3
    <3>2. QED
      BY <1>2, <1>8, <3>1 DEF Known
  <2>7. \A u \in pads' : Known(u)'
    BY <2>2, <2>5, <2>6 DEF PadsOK
  <2>8. QED
    BY <2>5, <2>7 DEF PadsOK
<1>24. StrangerOK'
  BY <1>2 DEF StrangerOK, Stranger, FakeTLS
<1>25. QED
  BY <1>14, <1>15, <1>16, <1>17, <1>18, <1>20, <1>21, <1>22, <1>23, <1>24

(* Any client: the next n bytes of its stream.                             *)
LEMMA FrameInv == \A n \in Frames : Inv /\ Frame(n) => Inv'
<1> SUFFICES ASSUME NEW n \in Frames, Inv, Frame(n) PROVE Inv'
  OBVIOUS
<1> USE DEF Inv
<1>1. PICK f, e : f = UpStream(link) /\ e = HandshakeLen + sentUp
  OBVIOUS
<1>2. /\ cli.pc = "open" /\ ~Own /\ ~cut /\ n <= Len(cli.out)
      /\ up' = up \o (IF FakeTLS THEN <<AppData(Slice(cli.out, 1, n))>>
                                 ELSE Slice(cli.out, 1, n))
      /\ cli' = CliOut(cli, Slice(cli.out, n + 1, Len(cli.out)))
      /\ UNCHANGED <<link, srv, down, upEof, downEof, cut, sentUp, gotUp, sentDown,
                     gotDown, pads, padded>>
  BY DEF Frame, Slice, CliOut
<1>3. /\ odd' = [count |-> odd'.count, broken |-> odd'.broken]
      /\ ~odd'.broken => ~odd.broken
      /\ ~odd'.broken /\ FakeTLS => n # 0 /\ ~(n > BufSize)
  <2>1. PICK o, x, y : /\ o = odd
                       /\ x = (odd.broken \/ (FakeTLS /\ (n = 0 \/ n > MaxPayload + Headroom)))
                       /\ y = IF n = 0 THEN odd.count + 1 ELSE odd.count
    OBVIOUS
  <2>2. o = [count |-> o.count, broken |-> o.broken]
    BY <2>1 DEF DataOK
  <2>3. odd' = [o EXCEPT !.broken = x, !.count = y]
    BY <2>1 DEF Frame
  <2>4. odd' = [count |-> y, broken |-> x]
    BY <2>2, <2>3
  <2>5. odd'.broken = x /\ odd' = [count |-> odd'.count, broken |-> odd'.broken]
    BY <2>4
  <2>6. QED
    BY <2>1, <2>5 DEF BufSize
<1>4. n \in Nat /\ e \in Nat /\ IsStream(f) /\ link.up \in Nat /\ e <= HandshakeLen + link.up
  <2>1. n \in Nat /\ IsStream(f)
    BY <1>1, HopAssumption, StreamsAre
  <2>2. sentUp \in Nat /\ link.up \in Nat /\ sentUp <= link.up /\ HandshakeLen \in Nat
    BY Numbers
  <2>3. QED
    BY <1>1, <2>1, <2>2
<1>5. PICK a \in Nat, b \in Nat : /\ a <= b /\ UpSent(b) /\ UpTaken(a)
                                  /\ cut \/ OnWire(UpStream(link), up, a, b)
  BY DEF UpOK
<1>6. b <= e /\ cli.out = Piece(f, b, e) /\ OnWire(f, up, a, b)
  BY <1>1, <1>2, <1>5 DEF UpSent
<1>7. Len(cli.out) = e - b
  BY <1>4, <1>5, <1>6, PieceSeq
<1>8. PICK c : c = b + n
  OBVIOUS
<1>9. c \in Nat /\ b <= c /\ c <= e /\ a <= c /\ n = c - b
  BY <1>2, <1>4, <1>5, <1>6, <1>7, <1>8
<1>10. /\ Slice(cli.out, 1, n) = Piece(f, b, c)
       /\ Slice(cli.out, n + 1, Len(cli.out)) = Piece(f, c, e)
  <2>1. IsStream(f) /\ b \in Nat /\ e \in Nat /\ c \in Nat /\ b <= c /\ c <= e /\ n = c - b
    BY <1>4, <1>5, <1>9
  <2>2. /\ Slice(Piece(f, b, e), 1, n) = Piece(f, b, c)
        /\ Slice(Piece(f, b, e), n + 1, Len(Piece(f, b, e))) = Piece(f, c, e)
    BY ONLY <2>1, PieceSplit
  <2>3. QED
    BY <1>6, <2>2
<1>11. /\ CliIs(cli') /\ cli'.pc = cli.pc /\ cli'.ended = cli.ended
       /\ cli'.handshake = cli.handshake /\ cli'.enc = cli.enc /\ cli'.dec = cli.dec
       /\ cli'.out = Piece(f, c, e)
  <2>1. PICK k, d, x : k = cli /\ d = cli' /\ x = Piece(f, c, e)
    OBVIOUS
  <2>2. CliIs(k) /\ d = CliOut(k, x)
    BY <1>2, <1>10, <2>1 DEF CliOK
  <2>3. /\ CliIs(d) /\ d.pc = k.pc /\ d.out = x /\ d.ended = k.ended
        /\ d.handshake = k.handshake /\ d.enc = k.enc /\ d.dec = k.dec
    BY <2>2, CliMoves
  <2>4. QED
    BY <2>1, <2>3
<1>12. Typed'
  <2>1. Len(Piece(f, c, e)) = e - c
    BY <1>4, <1>9, PieceSeq
  <2>2. Len(cli'.out) <= HandshakeLen + link.up
    BY <1>4, <1>9, <1>11, <2>1, Layout
  <2>3. QED
    BY <1>2, <1>11, <2>2 DEF Typed, TypeOK
<1>13. CliOK'
  BY <1>2, <1>11 DEF CliOK, Own
<1>14. SrvOK' /\ DataOK'
  BY <1>2, <1>3 DEF SrvOK, DataOK, FakeTLS
<1>15. PhaseOK'
  BY <1>2, <1>11 DEF PhaseOK, FakeTLS
<1>16. EofOK'
  BY <1>2, <1>11 DEF EofOK
<1>17. ASSUME FakeTLS
       PROVE  /\ LaidOut(f, up', a, c)
              /\ IsSeq(up) /\ Readable(up) /\ ~odd'.broken => IsSeq(up') /\ Readable(up')
  <2>1. PICK r : r = AppData(Piece(f, b, c))
    OBVIOUS
  <2>2. up' = up \o <<r>>
    BY <1>2, <1>10, <1>17, <2>1
  <2>3. Holds(f, r, b, c)
    BY <1>5, <1>9, <2>1, AppDataHolds
  <2>4. LaidOut(f, <<r>>, b, c)
    BY <1>5, <1>9, <2>3, LaidOne
  <2>5. LaidOut(f, up, a, b)
    BY <1>6, <1>17 DEF OnWire
  <2>6. LaidOut(f, up \o <<r>>, a, c)
    BY <1>5, <1>9, <2>4, <2>5, LaidJoin
  <2>7. ~odd'.broken => read_tls_appdata(r) = "data"
    <3>1. SUFFICES ASSUME ~odd'.broken PROVE read_tls_appdata(r) = "data"
      OBVIOUS
    <3>2. BufSize \in Nat
      BY Sizes
    <3>3. b < c /\ c - b <= BufSize
      BY <1>3, <1>4, <1>5, <1>9, <1>17, <3>1, <3>2
    <3>4. QED
      BY <1>4, <1>5, <1>9, <2>1, <3>3, DataIsRead
  <2>8. ~odd'.broken => Readable(<<r>>) /\ IsSeq(<<r>>)
    BY <2>7, ReadableOne
  <2>9. IsSeq(up) /\ Readable(up) /\ ~odd'.broken => Readable(up \o <<r>>)
    BY <2>8, ReadableJoin
  <2>10. QED
    BY <2>2, <2>6, <2>9 DEF LaidOut
<1>18. OnWire(f, up', a, c)
  <2>1. CASE FakeTLS
    BY <1>17, <2>1 DEF OnWire
  <2>2. CASE ~FakeTLS
    <3>1. up = Piece(f, a, b) /\ up' = up \o Piece(f, b, c)
      BY <1>2, <1>6, <1>10, <2>2 DEF OnWire
    <3>2. IsStream(f) /\ a \in Nat /\ b \in Nat /\ c \in Nat /\ a <= b /\ b <= c
      BY <1>4, <1>5, <1>9
    <3>3. Piece(f, a, b) \o Piece(f, b, c) = Piece(f, a, c)
      BY ONLY <3>2, PieceJoin
    <3>4. QED
      BY <2>2, <3>1, <3>3 DEF OnWire
  <2>3. QED
    BY <2>1, <2>2
<1>19. UpOK'
  <2>1. OnWire(UpStream(link), up, a, c)'
    BY <1>1, <1>2, <1>18 DEF OnWire, FakeTLS
  <2>2. UpSent(c)'
    BY <1>1, <1>2, <1>9, <1>11 DEF UpSent
  <2>3. UpTaken(a)'
    BY <1>2, <1>5 DEF UpTaken
  <2>4. QED
    BY <1>5, <1>9, <2>1, <2>2, <2>3 DEF UpOK
<1>20. ReadOK'
  <2>1. SUFFICES ASSUME FakeTLS, srv.pc \in {"init", "session"}, ~odd'.broken
                 PROVE  IsSeq(up') /\ Readable(up')
    BY <1>2 DEF ReadOK, FakeTLS
  <2>2. IsSeq(up) /\ Readable(up)
    BY <1>3, <2>1 DEF ReadOK
  <2>3. QED
    BY <1>17, <2>1, <2>2
<1>21. DownOK'
  BY <1>2, <1>11 DEF DownOK, OnWire, FakeTLS
<1>22. PadsOK'
  BY <1>2, <1>11 DEF PadsOK, Known
<1>23. StrangerOK'
  BY <1>2 DEF StrangerOK, Stranger, FakeTLS
<1>24. QED
  BY <1>12, <1>13, <1>14, <1>15, <1>16, <1>19, <1>20, <1>21, <1>22, <1>23

(* Any client: a record that carries nothing of its stream.                *)
LEMMA OddRecordInv == \A type \in {"ccs", "alert"} : Inv /\ OddRecord(type) => Inv'
<1> SUFFICES ASSUME NEW type \in {"ccs", "alert"}, Inv, OddRecord(type) PROVE Inv'
  OBVIOUS
<1> USE DEF Inv
<1>1. PICK r : r = Record(type, "1.2", <<Byte(type, 1)>>)
  OBVIOUS
<1>2. /\ FakeTLS /\ cli.pc = "open" /\ ~cut /\ up' = Append(up, r)
      /\ odd' = [count |-> odd.count + 1, broken |-> odd.broken \/ type = "alert"]
      /\ UNCHANGED <<link, cli, srv, down, upEof, downEof, cut, sentUp, gotUp,
                     sentDown, gotDown, pads, padded>>
  BY <1>1 DEF OddRecord
<1>3. r.type = type /\ r.payload = <<Byte(type, 1)>> /\ Len(r.payload) = 1
  BY <1>1 DEF Record
<1>4. /\ odd' = [count |-> odd'.count, broken |-> odd'.broken]
      /\ ~odd'.broken => ~odd.broken /\ type = "ccs"
  BY <1>2
<1>5. PICK a \in Nat, b \in Nat : /\ a <= b /\ UpSent(b) /\ UpTaken(a)
                                  /\ cut \/ OnWire(UpStream(link), up, a, b)
  BY DEF UpOK
<1>6. PICK f : f = UpStream(link)
  OBVIOUS
<1>7. LaidOut(f, up, a, b)
  BY <1>2, <1>5, <1>6 DEF OnWire
<1>8. up' = up \o <<r>>
  <2>1. PICK q, T : q = up /\ q \in Seq(T)
    BY <1>7 DEF LaidOut, IsSeq
  <2>2. q \in Seq(T \union {r})
    BY <2>1
  <2>3. Append(q, r) = q \o <<r>>
    BY <2>2
  <2>4. QED
    BY <1>2, <2>1, <2>3
<1>9. Holds(f, r, b, b)
  BY <1>3, <1>5 DEF Holds
<1>10. LaidOut(f, <<r>>, b, b)
  BY <1>5, <1>9, LaidOne
<1>11. LaidOut(f, up \o <<r>>, a, b)
  BY <1>5, <1>7, <1>10, LaidJoin
<1>12. UpOK'
  <2>1. OnWire(UpStream(link), up, a, b)'
    BY <1>2, <1>6, <1>8, <1>11 DEF OnWire, FakeTLS
  <2>2. UpSent(b)' /\ UpTaken(a)'
    BY <1>2, <1>5 DEF UpSent, UpTaken
  <2>3. QED
    BY <1>5, <2>1, <2>2 DEF UpOK
<1>13. ReadOK'
  <2>1. SUFFICES ASSUME FakeTLS, srv.pc \in {"init", "session"}, ~odd'.broken
                 PROVE  IsSeq(up') /\ Readable(up')
    BY <1>2 DEF ReadOK, FakeTLS
  <2>2. IsSeq(up) /\ Readable(up) /\ type = "ccs"
    BY <1>4, <2>1 DEF ReadOK
  <2>3. BufSize \in Nat /\ 1 <= BufSize
    BY Sizes
  <2>4. read_tls_appdata(r) = "skip"
    BY <1>3, <2>2, <2>3 DEF read_tls_appdata
  <2>5. Readable(<<r>>) /\ IsSeq(<<r>>)
    BY <2>4, ReadableOne
  <2>6. Readable(up \o <<r>>)
    BY <2>2, <2>5, ReadableJoin
  <2>7. QED
    BY <1>8, <1>11, <2>6 DEF LaidOut
<1>14. Typed' /\ CliOK'
  BY <1>2 DEF Typed, TypeOK, CliOK, Own
<1>15. SrvOK' /\ DataOK'
  BY <1>2, <1>4 DEF SrvOK, DataOK, FakeTLS
<1>16. PhaseOK'
  BY <1>2 DEF PhaseOK, FakeTLS
<1>17. EofOK'
  BY <1>2 DEF EofOK
<1>18. DownOK'
  BY <1>2 DEF DownOK, OnWire, FakeTLS
<1>19. PadsOK'
  BY <1>2 DEF PadsOK, Known
<1>20. StrangerOK'
  BY <1>2 DEF StrangerOK, Stranger, FakeTLS
<1>21. QED
  BY <1>12, <1>13, <1>14, <1>15, <1>16, <1>17, <1>18, <1>19, <1>20

(* A read of the client's, and a read of the server's, as the pipe of      *)
(* their direction sees it.                                                *)
ClientReads ==
  /\ Len(gotDown) <= Len(gotDown') /\ cli'.pc = "open"
  /\ UNCHANGED <<srv, upEof, downEof, cut, sentUp, gotUp, sentDown, odd>>
ServerReads ==
  \/ Len(gotUp) <= Len(gotUp') /\ srv'.pc = "session"
  \/ UNCHANGED <<srv, gotUp>>
  \/ EndSession /\ odd.broken

(* The client decrypts the next n bytes of what it is sent.                *)
LEMMA ClientTakesInv ==
  ASSUME Inv, cli.pc = "open", down # <<>>, NEW n \in Nat, NEW c, c = Len(gotDown) + n,
         c <= sentDown, NEW bytes, bytes = Piece(DownStream(link), Len(gotDown), c),
         ClientTakes(bytes), OnWire(DownStream(link), down', c, sentDown),
         FakeTLS => Readable(down')
  PROVE  Inv' /\ ClientReads
<1> USE DEF Inv
<1>1. PICK g, f : g = Len(gotDown) /\ f = DownStream(link)
  OBVIOUS
<1>2. /\ gotDown' = gotDown \o apply_keystream(cli.dec, bytes)
      /\ cli' = CliDec(cli, Advance(cli.dec, Len(bytes)))
      /\ UNCHANGED <<link, srv, up, upEof, downEof, cut, sentUp, gotUp, sentDown,
                     odd, pads, padded>>
  BY DEF ClientTakes, CliDec
<1>3. g \in Nat /\ c \in Nat /\ c = g + n /\ IsStream(f) /\ ~cut /\ srv.pc # "hello" /\ ~Stranger
  BY <1>1, StreamsAre DEF DataOK, EofOK, PhaseOK, StrangerOK
<1>4. Len(bytes) = n
  <2>1. g <= c /\ c - g = n
    BY <1>3
  <2>2. Len(Piece(f, g, c)) = c - g
    BY <1>3, <2>1, PieceSeq
  <2>3. QED
    BY <1>1, <2>1, <2>2
<1>5. gotDown' = Data("down", c) /\ Len(gotDown') = c
  <2>1. PICK k : k = At(Down(link), g + 1)
    OBVIOUS
  <2>2. cli.dec = k
    BY <1>1, <2>1 DEF CliOK
  <2>3. apply_keystream(At(Down(link), g + 1), Fresh("down", g, n))
           = Piece(DownStream(link), g, g + n)
    BY <1>3, DownBytes
  <2>4. bytes = apply_keystream(k, Fresh("down", g, n))
    BY <1>1, <1>3, <2>1, <2>3
  <2>5. apply_keystream(k, apply_keystream(k, Fresh("down", g, n))) = Fresh("down", g, n)
    BY <1>3, ApplyTwice
  <2>6. gotDown' = Data("down", g) \o Fresh("down", g, n)
    BY <1>1, <1>2, <2>2, <2>4, <2>5 DEF DataOK
  <2>7. Data("down", g) \o Fresh("down", g, n) = Data("down", g + n)
    BY <1>3, DataFacts
  <2>8. Len(Data("down", c)) = c
    BY <1>3, DataFacts
  <2>9. QED
    BY <1>3, <2>6, <2>7, <2>8
<1>6. Advance(cli.dec, n) = At(Down(link), Len(gotDown') + 1)
  <2>1. PICK k : k = g + 1
    OBVIOUS
  <2>2. k \in Nat /\ k + n = c + 1
    BY <1>3, <2>1
  <2>3. Advance(At(Down(link), k), n) = At(Down(link), k + n)
    BY <2>2, AtFacts
  <2>4. cli.dec = At(Down(link), k)
    BY <1>1, <2>1 DEF CliOK
  <2>5. QED
    BY <1>5, <2>2, <2>3, <2>4
<1>7. /\ CliIs(cli') /\ cli'.pc = cli.pc /\ cli'.out = cli.out /\ cli'.ended = cli.ended
      /\ cli'.handshake = cli.handshake /\ cli'.enc = cli.enc
      /\ cli'.dec = Advance(cli.dec, n)
  <2>1. PICK k, d, x : k = cli /\ d = cli' /\ x = Advance(cli.dec, n)
    OBVIOUS
  <2>2. CliIs(k) /\ d = CliDec(k, x)
    BY <1>2, <1>4, <2>1 DEF CliOK
  <2>3. /\ CliIs(d) /\ d.pc = k.pc /\ d.out = k.out /\ d.ended = k.ended
        /\ d.handshake = k.handshake /\ d.enc = k.enc /\ d.dec = x
    BY <2>2, CliMoves
  <2>4. QED
    BY <2>1, <2>3
<1>8. Typed'
  BY <1>2, <1>7 DEF Typed, TypeOK
<1>9. CliOK'
  BY <1>2, <1>6, <1>7 DEF CliOK, Own
<1>10. SrvOK'
  BY <1>2 DEF SrvOK, FakeTLS
<1>11. DataOK'
  BY <1>2, <1>3, <1>5 DEF DataOK
<1>12. PhaseOK'
  BY <1>2, <1>3, <1>7 DEF PhaseOK, FakeTLS
<1>13. EofOK'
  BY <1>2, <1>3, <1>7 DEF EofOK
<1>14. UpOK'
  <2>1. PICK a \in Nat, b \in Nat : /\ a <= b /\ UpSent(b) /\ UpTaken(a)
                                    /\ cut \/ OnWire(UpStream(link), up, a, b)
    BY DEF UpOK
  <2>2. UpSent(b)' /\ UpTaken(a)' /\ (cut \/ OnWire(UpStream(link), up, a, b))'
    BY <1>2, <1>7, <2>1 DEF UpSent, UpTaken, OnWire, FakeTLS
  <2>3. QED
    BY <2>1, <2>2 DEF UpOK
<1>15. ReadOK'
  BY <1>2 DEF ReadOK, FakeTLS
<1>16. DownOK'
  BY <1>2, <1>5, <1>7 DEF DownOK, OnWire, FakeTLS
<1>17. PadsOK'
  BY <1>2, <1>7 DEF PadsOK, Known
<1>18. StrangerOK'
  BY <1>2, <1>3 DEF StrangerOK, Stranger, FakeTLS
<1>19. ClientReads
  BY <1>1, <1>2, <1>3, <1>5, <1>7 DEF ClientReads
<1>20. QED
  BY <1>8, <1>9, <1>10, <1>11, <1>12, <1>13, <1>14, <1>15, <1>16, <1>17, <1>18, <1>19

LEMMA ClientReadInv == Inv /\ ClientRead => Inv' /\ ClientReads
<1> SUFFICES ASSUME Inv, ClientRead PROVE Inv' /\ ClientReads
  OBVIOUS
<1>1. cli.pc = "open" /\ down # <<>> /\ ~cut
  BY DEF ClientRead, Inv, EofOK
<1>2. PICK f, g, s : f = DownStream(link) /\ g = Len(gotDown) /\ s = sentDown
  OBVIOUS
<1>3. g \in Nat /\ s \in Nat /\ g <= s /\ IsStream(f) /\ OnWire(f, down, g, s)
  BY <1>1, <1>2, Numbers, StreamsAre DEF Inv, DataOK, DownOK
<1>4. CASE FakeTLS
  <2>1. LaidOut(f, down, g, s) /\ Readable(down)
    BY <1>1, <1>3, <1>4 DEF OnWire, Inv, DownOK
  <2>2. PICK c \in Nat : /\ g <= c /\ c <= s /\ Holds(f, Head(down), g, c)
                         /\ LaidOut(f, Tail(down), c, s)
    BY <1>1, <1>3, <2>1, LaidTail
  <2>3. IsSeq(down)
    BY <2>1 DEF LaidOut
  <2>4. Readable(Tail(down)) /\ read_tls_appdata(Head(down)) \in {"data", "skip"}
    BY <1>1, <2>1, <2>3, ReadableTail
  <2>5. /\ down' = Tail(down) /\ read_tls_appdata(Head(down)) = "data"
        /\ ClientTakes(Head(down).payload)
    BY <1>4, <2>4 DEF ClientRead
  <2>6. Head(down).type = "appdata"
    BY <2>5 DEF read_tls_appdata
  <2>7. PICK bytes, n : bytes = Head(down).payload /\ n = c - g
    OBVIOUS
  <2>8. bytes = Piece(DownStream(link), Len(gotDown), c) /\ ClientTakes(bytes)
    BY <1>2, <2>2, <2>5, <2>6, <2>7 DEF Holds
  <2>9. n \in Nat /\ c = Len(gotDown) + n /\ c <= sentDown
    BY <1>2, <1>3, <2>2, <2>7
  <2>10. OnWire(DownStream(link), down', c, sentDown) /\ Readable(down')
    BY <1>2, <1>4, <2>2, <2>4, <2>5 DEF OnWire
  <2>11. QED
    BY <1>1, <2>8, <2>9, <2>10, ClientTakesInv
<1>5. CASE ~FakeTLS
  <2>1. down = Piece(f, g, s)
    BY <1>3, <1>5 DEF OnWire
  <2>2. PICK n \in {1, Len(down)} : /\ down' = Slice(down, n + 1, Len(down))
                                    /\ ClientTakes(Slice(down, 1, n))
    BY <1>5 DEF ClientRead, Slice
  <2>3. Len(down) = s - g
    BY <1>3, <2>1, PieceSeq
  <2>4. g # s
    BY <1>1, <1>3, <2>1, PieceEmpty
  <2>5. PICK c : c = g + n
    OBVIOUS
  <2>6. n \in Nat /\ c \in Nat /\ g <= c /\ c <= s /\ n = c - g
    BY <1>3, <2>2, <2>3, <2>4, <2>5
  <2>7. /\ Slice(Piece(f, g, s), 1, n) = Piece(f, g, c)
        /\ Slice(Piece(f, g, s), n + 1, Len(Piece(f, g, s))) = Piece(f, c, s)
    <3>1. PICK k : k = n
      OBVIOUS
    <3>2. IsStream(f) /\ g \in Nat /\ s \in Nat /\ c \in Nat /\ g <= c /\ c <= s /\ k = c - g
      BY <1>3, <2>6, <3>1
    <3>3. Slice(Piece(f, g, s), 1, k) = Piece(f, g, c)
      BY ONLY <3>2, PieceSplit
    <3>4. Slice(Piece(f, g, s), k + 1, Len(Piece(f, g, s))) = Piece(f, c, s)
      BY ONLY <3>2, PieceSplit
    <3>5. QED
      BY <3>1, <3>3, <3>4
  <2>8. PICK bytes : bytes = Slice(down, 1, n)
    OBVIOUS
  <2>9. bytes = Piece(DownStream(link), Len(gotDown), c) /\ ClientTakes(bytes)
    BY <1>2, <2>1, <2>2, <2>7, <2>8
  <2>10. OnWire(DownStream(link), down', c, sentDown)
    BY <1>2, <1>5, <2>1, <2>2, <2>7 DEF OnWire
  <2>11. c = Len(gotDown) + n /\ c <= sentDown
    BY <1>2, <2>5, <2>6
  <2>12. QED
    BY <1>1, <1>5, <2>6, <2>9, <2>10, <2>11, ClientTakesInv
<1>6. QED
  BY <1>4, <1>5

LEMMA CutInv == Inv /\ Cut => Inv'
<1> SUFFICES ASSUME Inv, Cut PROVE Inv'
  OBVIOUS
<1> USE DEF Inv
<1>1. /\ cut' = TRUE /\ upEof' = TRUE /\ downEof' = TRUE /\ up' = <<>> /\ down' = <<>>
      /\ cli.pc # "start"
      /\ UNCHANGED <<link, cli, srv, sentUp, gotUp, sentDown, gotDown, odd, pads, padded>>
  BY DEF Cut
<1>2. Typed' /\ CliOK'
  BY <1>1 DEF Typed, TypeOK, CliOK, Own
<1>3. SrvOK' /\ DataOK'
  BY <1>1 DEF SrvOK, DataOK, FakeTLS
<1>4. PhaseOK'
  BY <1>1 DEF PhaseOK, FakeTLS
<1>5. EofOK'
  BY <1>1 DEF EofOK
<1>6. UpOK'
  <2>1. PICK a \in Nat, b \in Nat : a <= b /\ UpSent(b) /\ UpTaken(a)
    BY DEF UpOK
  <2>2. UpSent(b)' /\ UpTaken(a)'
    BY <1>1, <2>1 DEF UpSent, UpTaken
  <2>3. QED
    BY <1>1, <2>1, <2>2 DEF UpOK
<1>7. ReadOK'
  BY <1>1, EmptyFacts DEF ReadOK
<1>8. DownOK'
  BY <1>1 DEF DownOK
<1>9. PadsOK'
  BY <1>1 DEF PadsOK, Known
<1>10. StrangerOK'
  BY <1>1 DEF StrangerOK, Stranger, FakeTLS
<1>11. QED
  BY <1>2, <1>3, <1>4, <1>5, <1>6, <1>7, <1>8, <1>9, <1>10

-----------------------------------------------------------------------------
(* Steps of the server. *)

(* The server is gone, whatever the reason.                                *)
LEMMA ServerLeavesInv ==
  ASSUME Inv, SrvIs(srv'), srv'.pc = "gone", srv'.filled = srv.filled,
         srv'.ended \in BOOLEAN, downEof' = TRUE,
         UNCHANGED <<link, cli, down, upEof, cut, sentUp, gotUp, sentDown, gotDown, odd,
                     pads, padded>>,
         up' = up \/ up # <<>>,
         NEW a \in Nat, NEW b \in Nat, a <= b, UpSent(b),
         cut \/ OnWire(UpStream(link), up', a, b)
  PROVE  Inv'
<1> USE DEF Inv
<1>1. Typed' /\ CliOK'
  BY DEF Typed, TypeOK, CliOK, Own
<1>2. SrvOK' /\ DataOK'
  BY DEF SrvOK, DataOK, FakeTLS
<1>3. PhaseOK'
  BY DEF PhaseOK, FakeTLS
<1>4. EofOK'
  BY DEF EofOK
<1>5. UpOK'
  <2>1. UpSent(b)'
    BY DEF UpSent
  <2>2. UpTaken(a)'
    BY DEF UpTaken
  <2>3. (cut \/ OnWire(UpStream(link), up, a, b))'
    BY DEF OnWire, FakeTLS
  <2>4. QED
    BY <2>1, <2>2, <2>3 DEF UpOK
<1>6. ReadOK'
  BY DEF ReadOK
<1>7. DownOK'
  BY DEF DownOK, OnWire, FakeTLS
<1>8. PadsOK'
  BY DEF PadsOK, Known
<1>9. StrangerOK'
  BY DEF StrangerOK, Stranger, FakeTLS
<1>10. QED
  BY <1>1, <1>2, <1>3, <1>4, <1>5, <1>6, <1>7, <1>8, <1>9

LEMMA ServerGoneInv ==
  ASSUME Inv, ServerGone,
         UNCHANGED <<link, cli, upEof, cut, sentUp, gotUp, sentDown, gotDown, odd>>,
         up' = up \/ (FakeTLS /\ up # <<>> /\ up' = Tail(up))
  PROVE  Inv'
<1>1. /\ srv' = SrvLeft(srv, "gone", srv.pc = "session") /\ downEof' = TRUE
      /\ UNCHANGED <<down, pads, padded>>
  BY DEF ServerGone, SrvLeft
<1>2. /\ SrvIs(srv') /\ srv'.pc = "gone" /\ srv'.filled = srv.filled
      /\ srv'.ended \in BOOLEAN
  <2>1. PICK s, t, x, y : s = srv /\ t = srv' /\ x = "gone" /\ y = (srv.pc = "session")
    OBVIOUS
  <2>0. y \in BOOLEAN
    BY <2>1
  <2>2. SrvIs(s) /\ t = SrvLeft(s, x, y)
    BY <1>1, <2>1 DEF Inv, SrvOK
  <2>3. SrvIs(t) /\ t.pc = x /\ t.filled = s.filled /\ t.ended = y
    BY <2>2, SrvSets
  <2>4. QED
    BY <2>0, <2>1, <2>3
<1>3. PICK a \in Nat, b \in Nat : /\ a <= b /\ UpSent(b) /\ UpTaken(a)
                                  /\ cut \/ OnWire(UpStream(link), up, a, b)
  BY DEF Inv, UpOK
<1>4. CASE up' = up
  BY <1>1, <1>2, <1>3, <1>4, ServerLeavesInv
<1>5. CASE FakeTLS /\ up # <<>> /\ up' = Tail(up)
  <2>1. ~cut
    BY <1>5 DEF Inv, EofOK
  <2>2. PICK f : f = UpStream(link)
    OBVIOUS
  <2>3. LaidOut(f, up, a, b)
    BY <1>3, <1>5, <2>1, <2>2 DEF OnWire
  <2>4. PICK c \in Nat : c <= b /\ LaidOut(f, Tail(up), c, b)
    BY <1>3, <1>5, <2>3, LaidTail
  <2>5. OnWire(UpStream(link), up', c, b)
    BY <1>5, <2>2, <2>4 DEF OnWire
  <2>6. QED
    BY <1>1, <1>2, <1>3, <1>5, <2>4, <2>5, ServerLeavesInv
<1>6. QED
  BY <1>4, <1>5

LEMMA NoHandshakeInv == Inv /\ NoHandshake => Inv'
  BY ServerGoneInv DEF NoHandshake

LEMMA ServerEofInv == Inv /\ ServerEof => Inv'
  BY ServerGoneInv DEF ServerEof, EndSession

(* It leaves of its own accord, before the session or out of it.           *)
LEMMA LateInv == Inv /\ (HandshakeTimeout \/ TelegramEnds) => Inv'
<1> SUFFICES ASSUME Inv, HandshakeTimeout \/ TelegramEnds PROVE Inv'
  OBVIOUS
<1>1. /\ srv' = SrvLate(srv, "gone", TRUE) /\ downEof' = TRUE /\ up' = up
      /\ UNCHANGED <<link, cli, down, upEof, cut, sentUp, gotUp, sentDown, gotDown, odd,
                     pads, padded>>
  BY DEF HandshakeTimeout, TelegramEnds, SrvLate
<1>2. /\ SrvIs(srv') /\ srv'.pc = "gone" /\ srv'.filled = srv.filled
      /\ srv'.ended \in BOOLEAN
  <2>1. PICK s, t, x, y : s = srv /\ t = srv' /\ x = "gone" /\ y = TRUE
    OBVIOUS
  <2>2. SrvIs(s) /\ t = SrvLate(s, x, y)
    BY <1>1, <2>1 DEF Inv, SrvOK
  <2>3. SrvIs(t) /\ t.pc = x /\ t.filled = s.filled /\ t.ended = s.ended
    BY <2>2, SrvSets
  <2>4. QED
    BY <2>1, <2>3 DEF Inv, EofOK
<1>3. PICK a \in Nat, b \in Nat : /\ a <= b /\ UpSent(b) /\ UpTaken(a)
                                  /\ cut \/ OnWire(UpStream(link), up, a, b)
  BY DEF Inv, UpOK
<1>4. QED
  BY <1>1, <1>2, <1>3, ServerLeavesInv

LEMMA SwallowInv == Inv /\ Swallow => Inv'
<1> SUFFICES ASSUME Inv, Swallow PROVE Inv'
  OBVIOUS
<1>1. CASE ServerGone /\ up' = up
  BY <1>1, ServerGoneInv DEF Swallow
<1>2. CASE up' = <<>> /\ UNCHANGED <<srv, down, downEof, pads, padded>>
  <2> USE DEF Inv
  <2>1. /\ srv.pc = "draining"
        /\ UNCHANGED <<link, cli, srv, down, downEof, pads, padded, upEof, cut, sentUp, gotUp,
                       sentDown, gotDown, odd>>
    BY <1>2 DEF Swallow
  <2>2. Typed' /\ CliOK'
    BY <2>1 DEF Typed, TypeOK, CliOK, Own
  <2>3. SrvOK' /\ DataOK'
    BY <2>1 DEF SrvOK, DataOK, FakeTLS
  <2>4. PhaseOK'
    BY <1>2, <2>1 DEF PhaseOK, FakeTLS
  <2>5. EofOK'
    BY <1>2, <2>1 DEF EofOK
  <2>6. UpOK'
    <3>1. PICK b \in Nat : UpSent(b)
      BY DEF UpOK
    <3>2. PICK f : f = UpStream(link)
      OBVIOUS
    <3>3. IsStream(f) /\ b <= b
      BY <3>2, StreamsAre
    <3>4. Piece(f, b, b) = <<>> /\ LaidOut(f, <<>>, b, b)
      BY <3>3, PieceEmpty, LaidNone
    <3>5. OnWire(UpStream(link), up, b, b)'
      BY <1>2, <2>1, <3>2, <3>4 DEF OnWire
    <3>6. UpSent(b)' /\ UpTaken(b)'
      BY <2>1, <3>1 DEF UpSent, UpTaken
    <3>7. QED
      BY <3>3, <3>5, <3>6 DEF UpOK
  <2>7. ReadOK'
    BY <1>2, EmptyFacts DEF ReadOK
  <2>8. DownOK'
    BY <2>1 DEF DownOK, OnWire, FakeTLS
  <2>9. PadsOK'
    BY <2>1 DEF PadsOK, Known
  <2>10. StrangerOK'
    BY <2>1 DEF StrangerOK, Stranger, FakeTLS
  <2>11. QED
    BY <2>2, <2>3, <2>4, <2>5, <2>6, <2>7, <2>8, <2>9, <2>10
<1>3. QED
  BY <1>1, <1>2 DEF Swallow

(* The signature on a client's hello is its own.                           *)
LEMMA HelloFacts ==
  ASSUME NEW k, NEW host, NEW r, r = client_hello(k, host)
  PROVE  /\ r.type = "handshake"
         /\ HelloAccepted(r, Secrets, Host) => k \in Secrets /\ host = Host
<1>1. r.payload = <<Byte("hello", <<k, host>>)>> /\ r.type = "handshake"
  BY DEF client_hello, Record
<1>2. r.payload[1] = Byte("hello", <<k, host>>)
  BY <1>1
<1>3. PICK v : v = <<k, host>>
  OBVIOUS
<1>4. r.payload[1].v[2] = v
  BY <1>2, <1>3 DEF Byte
<1>5. v[1] = k /\ v[2] = host
  BY <1>3
<1>6. ASSUME HelloAccepted(r, Secrets, Host) PROVE k \in Secrets /\ host = Host
  <2>1. PICK s \in Secrets : v = <<s, Host>>
    BY <1>4, <1>6 DEF HelloAccepted, Byte
  <2>2. v[1] = s /\ v[2] = Host
    BY <2>1
  <2>3. QED
    BY <1>5, <2>2
<1>7. QED
  BY <1>1, <1>6

LEMMA ServerHelloInv == Inv /\ ServerHello => Inv'
<1> SUFFICES ASSUME Inv, ServerHello PROVE Inv'
  OBVIOUS
<1>1. /\ srv.pc = "hello" /\ up # <<>> /\ up' = Tail(up)
      /\ UNCHANGED <<link, cli, upEof, cut, sentUp, gotUp, sentDown, gotDown, odd>>
  BY DEF ServerHello
<1>2. PICK r : r = client_hello(link.secret, link.host)
  OBVIOUS
<1>3. /\ FakeTLS /\ down = <<>> /\ up = <<r>> /\ cli.pc \notin {"start", "open"} /\ ~cut
      /\ up' = <<>> /\ Head(up) = r
  <2>1. FakeTLS /\ down = <<>> /\ up = <<r>> /\ cli.pc \notin {"start", "open"}
    BY <1>1, <1>2 DEF Inv, PhaseOK
  <2>2. ~cut
    BY <1>1 DEF Inv, EofOK
  <2>3. Tail(<<r>>) = <<>> /\ Head(<<r>>) = r
    OBVIOUS
  <2>4. QED
    BY <1>1, <2>1, <2>2, <2>3
<1>4. CASE ServerGone
  BY <1>1, <1>3, <1>4, ServerGoneInv
<1>5. CASE /\ HelloAccepted(Head(up), Secrets, Host)
           /\ down' = down \o build_faketls_server_hello
           /\ srv' = [srv EXCEPT !.pc = "init"]
           /\ UNCHANGED <<downEof, pads, padded>>
  <2> USE DEF Inv
  <2>1. r.type = "handshake" /\ ~Stranger
    BY <1>2, <1>3, <1>5, HelloFacts DEF Stranger
  <2>2. /\ SrvIs(srv') /\ srv'.pc = "init" /\ srv'.filled = srv.filled
        /\ srv'.ended = srv.ended
    <3>1. PICK s, t, x : s = srv /\ t = srv' /\ x = "init"
      OBVIOUS
    <3>2. SrvIs(s) /\ t = SrvPc(s, x)
      BY <1>5, <3>1 DEF SrvOK, SrvPc
    <3>3. SrvIs(t) /\ t.pc = x /\ t.filled = s.filled /\ t.ended = s.ended
      BY <3>2, SrvSets
    <3>4. QED
      BY <3>1, <3>3
  <2>3. down' = build_faketls_server_hello
    <3>1. PICK q : q = build_faketls_server_hello
      OBVIOUS
    <3>2. \E T : q \in Seq(T)
      <4>1. PICK x, y, z : q = <<x, y, z>>
        BY <3>1 DEF build_faketls_server_hello
      <4>2. q \in Seq({x, y, z})
        BY <4>1
      <4>3. QED
        BY <4>2
    <3>3. <<>> \o q = q
      BY <3>2
    <3>4. QED
      BY <1>3, <1>5, <3>1, <3>3
  <2>4. Typed' /\ CliOK'
    BY <1>1, <2>2 DEF Typed, TypeOK, CliOK, Own
  <2>5. SrvOK' /\ DataOK'
    BY <1>1, <1>3, <2>2 DEF SrvOK, DataOK, FakeTLS
  <2>6. PhaseOK'
    BY <1>1, <1>3, <2>2, <2>3 DEF PhaseOK, FakeTLS, HelloRest
  <2>7. EofOK'
    BY <1>1, <1>3, <1>5, <2>2 DEF EofOK
  <2>8. UpOK'
    <3>1. PICK a \in Nat, b \in Nat : /\ a <= b /\ UpSent(b) /\ UpTaken(a)
                                      /\ cut \/ OnWire(UpStream(link), up, a, b)
      BY DEF UpOK
    <3>2. PICK f : f = UpStream(link)
      OBVIOUS
    <3>3. a = 0 /\ srv.filled = <<>> /\ LaidOut(f, up, a, b) /\ IsStream(f)
      BY <1>1, <1>3, <3>1, <3>2, StreamsAre DEF UpTaken, OnWire
    <3>4. PICK c \in Nat : /\ a <= c /\ c <= b /\ Holds(f, Head(up), a, c)
                           /\ LaidOut(f, Tail(up), c, b)
      BY <1>1, <3>1, <3>3, LaidTail
    <3>5. c = 0
      BY <1>3, <2>1, <3>3, <3>4 DEF Holds
    <3>6. OnWire(UpStream(link), up, a, b)'
      BY <1>1, <1>3, <3>2, <3>3, <3>4, <3>5 DEF OnWire, FakeTLS
    <3>7. UpSent(b)'
      BY <1>1, <2>2, <3>1 DEF UpSent
    <3>8. Piece(f, a, a) = <<>> /\ HandshakeLen \in Nat /\ HandshakeLen > 0
      <4>1. IsStream(f) /\ a \in Nat /\ a <= a
        BY <3>1, <3>3
      <4>2. Piece(f, a, a) = <<>>
        BY ONLY <4>1, PieceEmpty
      <4>3. HandshakeLen \in Nat /\ HandshakeLen > 0
        BY Layout
      <4>4. QED
        BY <4>2, <4>3
    <3>9. UpTaken(a)'
      BY <1>1, <2>2, <3>2, <3>3, <3>8 DEF UpTaken
    <3>10. QED
      BY <3>1, <3>6, <3>7, <3>9 DEF UpOK
  <2>9. ReadOK'
    BY <1>3, EmptyFacts DEF ReadOK
  <2>10. DownOK'
    BY <1>1, <1>3 DEF DownOK
  <2>11. PadsOK'
    BY <1>1, <1>5, <2>2 DEF PadsOK, Known
  <2>12. StrangerOK'
    BY <1>1, <2>1 DEF StrangerOK, Stranger, FakeTLS
  <2>13. QED
    BY <2>4, <2>5, <2>6, <2>7, <2>8, <2>9, <2>10, <2>11, <2>12
<1>6. QED
  BY <1>4, <1>5 DEF ServerHello

(* A session's ciphers as build_connection_ciphers makes them.             *)
LEMMA SessionBegins ==
  ASSUME NEW l, IsI16(l.dc), NEW s, NEW info, info = parse_handshake(InitOf(l), s),
         info # Rejected, NEW init,
         init = generate_relay_init(info.proto, DcIdx(info), Random("relay"))
  PROVE  /\ s = l.secret /\ l.proto \in Tags /\ init = RelayOf(l)
         /\ Raw(PrekeyIv(init)) = Relay /\ Raw(Reverse(PrekeyIv(init))) = RelayDown
         /\ build_connection_ciphers(info.prekey_and_iv, info.secret, init) = Ciphers(l, 0, 0)
         /\ FastForward(Relay) = At(Relay, HandshakeLen + 0 + 1)
         /\ RelayDown = At(RelayDown, 0 + 1)
<1>1. /\ s = l.secret /\ info.secret = s /\ info.prekey_and_iv = Seed("client")
      /\ info.proto = l.proto /\ DcIdx(info) = l.dc /\ l.proto \in Tags
  BY ParseFacts
<1>2. init = RelayOf(l)
  BY <1>1 DEF RelayOf
<1>3. PrekeyIv(init) = Seed("relay")
  BY RelayFacts
<1>4. Raw(PrekeyIv(init)) = Relay /\ Raw(Reverse(PrekeyIv(init))) = RelayDown
  BY <1>3 DEF Relay, RelayDown
<1>5. PICK o, h, e : o = 1 /\ h = HandshakeLen /\ e = o + h
  OBVIOUS
<1>6. /\ o \in Nat /\ h \in Nat /\ HandshakeLen + 0 + 1 = e /\ 0 + 1 = o
  BY <1>5, Layout
<1>7. /\ Up(l) = At(Up(l), o) /\ Down(l) = At(Down(l), o)
      /\ Relay = At(Relay, o) /\ RelayDown = At(RelayDown, o)
  BY <1>5, CipherFacts DEF Up, Down, Relay, RelayDown
<1>8. Advance(At(Up(l), o), h) = At(Up(l), e) /\ Advance(At(Relay, o), h) = At(Relay, e)
  BY <1>5, <1>6, AtFacts
<1>9. FastForward(Up(l)) = At(Up(l), e) /\ FastForward(Relay) = At(Relay, e)
  BY <1>5, <1>7, <1>8 DEF FastForward
<1>10. build_connection_ciphers(info.prekey_and_iv, info.secret, init)
         = [clt_dec |-> FastForward(Up(l)), clt_enc |-> Down(l),
            tg_enc |-> FastForward(Relay), tg_dec |-> RelayDown]
  BY <1>1, <1>3 DEF build_connection_ciphers, Up, Down, Relay, RelayDown
<1>11. Ciphers(l, 0, 0) = [clt_dec |-> At(Up(l), e), clt_enc |-> At(Down(l), o),
                           tg_enc |-> At(Relay, e), tg_dec |-> At(RelayDown, o)]
  BY <1>6 DEF Ciphers
<1>12. build_connection_ciphers(info.prekey_and_iv, info.secret, init) = Ciphers(l, 0, 0)
  BY <1>7, <1>9, <1>10, <1>11
<1>13. QED
  BY <1>1, <1>2, <1>4, <1>6, <1>7, <1>9, <1>12

(* The init is complete: the server has taken the stream up to c, of which *)
(* what is behind the init is pending.                                     *)
LEMMA ParsedInv ==
  ASSUME Inv, srv.pc = "init", ~cut,
         NEW h, h = InitOf(link), NEW c \in Nat, HandshakeLen <= c,
         NEW pending, pending = Piece(UpStream(link), HandshakeLen, c),
         Parsed(h, pending),
         UNCHANGED <<link, cli, upEof, cut, sentUp, gotUp, sentDown, gotDown, odd>>,
         NEW b \in Nat, c <= b, UpSent(b), OnWire(UpStream(link), up', c, b),
         FakeTLS /\ ~odd.broken => IsSeq(up') /\ Readable(up')
  PROVE  Inv'
<1> USE DEF Inv
<1>1. HandshakeLen \in Nat /\ HandshakeLen > 0 /\ b # 0
  BY Layout
<1>2. cli.pc \in {"open", "gone"} /\ gotUp = <<>> /\ sentDown = 0 /\ Len(gotUp) = 0
  BY <1>1, EmptyFacts DEF Typed, TypeOK, UpSent, PhaseOK
<1>3. PICK infos : infos = {parse_handshake(h, s) : s \in Secrets} \ {Rejected}
  OBVIOUS
<1>4. down' = down /\ downEof' = downEof
  BY DEF Parsed
<1>5. ASSUME srv'.filled = <<>>, srv'.pc \in {"draining", "session"}, srv'.ended = FALSE
      PROVE  Typed' /\ CliOK' /\ DataOK' /\ PhaseOK' /\ EofOK' /\ ReadOK' /\ DownOK'
  <2>1. Typed' /\ CliOK'
    BY <1>1, <1>5, EmptyFacts DEF Typed, TypeOK, CliOK, Own
  <2>2. DataOK'
    BY DEF DataOK
  <2>3. PhaseOK'
    BY <1>2, <1>4, <1>5 DEF PhaseOK, FakeTLS
  <2>4. EofOK'
    BY <1>4, <1>5 DEF EofOK
  <2>5. ReadOK'
    BY <1>5 DEF ReadOK, FakeTLS
  <2>6. DownOK'
    BY <1>4 DEF DownOK, OnWire, FakeTLS
  <2>7. QED
    BY <2>1, <2>2, <2>3, <2>4, <2>5, <2>6
<1>6. OnWire(UpStream(link), up, c, b)'
  BY DEF OnWire, FakeTLS
<1>7. CASE /\ srv' = [srv EXCEPT !.pc = "draining", !.filled = <<>>]
           /\ UNCHANGED <<down, downEof, pads, padded>>
  <2>1. /\ SrvIs(srv') /\ srv'.pc = "draining" /\ srv'.filled = <<>>
        /\ srv'.ended = srv.ended
    <3>1. PICK s, t, x, y : s = srv /\ t = srv' /\ x = "draining" /\ y = <<>>
      OBVIOUS
    <3>2. SrvIs(s) /\ t = SrvPcFilled(s, x, y)
      BY <1>7, <3>1 DEF SrvOK, SrvPcFilled
    <3>3. SrvIs(t) /\ t.pc = x /\ t.filled = y /\ t.ended = s.ended
      BY <3>2, SrvSets
    <3>4. QED
      BY <3>1, <3>3
  <2>2. srv'.ended = FALSE
    BY <2>1 DEF EofOK
  <2>3. SrvOK'
    BY <2>1 DEF SrvOK
  <2>4. UpSent(b)' /\ UpTaken(c)'
    BY <2>1 DEF UpSent, UpTaken
  <2>5. UpOK'
    BY <1>6, <2>4 DEF UpOK
  <2>6. PadsOK'
    BY <1>7, <2>1 DEF PadsOK, Known
  <2>7. StrangerOK'
    BY <1>4, <2>1 DEF StrangerOK, Stranger, FakeTLS
  <2>8. QED
    BY <1>5, <2>1, <2>2, <2>3, <2>5, <2>6, <2>7
<1>8. ASSUME NEW info \in infos, NEW init, NEW relay, NEW ciphers,
             init = generate_relay_init(info.proto, DcIdx(info), Random("relay")),
             relay = Raw(PrekeyIv(init)),
             ciphers = build_connection_ciphers(info.prekey_and_iv, info.secret, init),
             srv' = [pc |-> "session", filled |-> <<>>, pending |-> pending,
                     ended |-> FALSE, late |-> FALSE,
                     relayInit |-> init, ciphers |-> ciphers,
                     tgDec |-> FastForward(relay),
                     tgEnc |-> Raw(Reverse(PrekeyIv(init)))],
             Uses(Units(relay, PadPos) \ Units(relay, TagPos - 1))
      PROVE  Inv'
  <2>1. PICK s \in Secrets : info = parse_handshake(h, s) /\ info # Rejected
    BY <1>3, <1>8
  <2>2. IsI16(link.dc)
    BY Numbers
  <2>3. /\ s = link.secret /\ link.proto \in Tags /\ init = RelayOf(link)
        /\ relay = Relay /\ Raw(Reverse(PrekeyIv(init))) = RelayDown
        /\ ciphers = Ciphers(link, 0, 0)
        /\ FastForward(Relay) = At(Relay, HandshakeLen + 0 + 1)
        /\ RelayDown = At(RelayDown, 0 + 1)
    <3>1. PICK l : l = link
      OBVIOUS
    <3>2. IsI16(l.dc) /\ info = parse_handshake(InitOf(l), s) /\ info # Rejected
      BY <2>1, <2>2, <3>1
    <3>3. init = generate_relay_init(info.proto, DcIdx(info), Random("relay"))
      BY <1>8
    <3>4. /\ s = l.secret /\ l.proto \in Tags /\ init = RelayOf(l)
          /\ Raw(PrekeyIv(init)) = Relay /\ Raw(Reverse(PrekeyIv(init))) = RelayDown
          /\ build_connection_ciphers(info.prekey_and_iv, info.secret, init)
               = Ciphers(l, 0, 0)
          /\ FastForward(Relay) = At(Relay, HandshakeLen + 0 + 1)
          /\ RelayDown = At(RelayDown, 0 + 1)
      BY ONLY <3>2, <3>3, SessionBegins
    <3>5. QED
      BY <1>8, <3>1, <3>4
  <2>4. PICK x, y, z : x = FastForward(relay) /\ y = Raw(Reverse(PrekeyIv(init))) /\ z = <<>>
    OBVIOUS
  <2>5. srv' = [pc |-> "session", filled |-> z, pending |-> pending,
                ended |-> FALSE, late |-> FALSE, relayInit |-> init, ciphers |-> ciphers,
                tgDec |-> x, tgEnc |-> y]
    BY <1>8, <2>4
  <2>6. /\ srv'.pc = "session" /\ srv'.filled = <<>> /\ srv'.pending = pending
        /\ srv'.ended = FALSE /\ srv'.relayInit = init /\ srv'.ciphers = ciphers
        /\ srv'.tgDec = x /\ srv'.tgEnc = y
    BY <2>4, <2>5
  <2>7. srv' = [pc |-> srv'.pc, filled |-> srv'.filled, pending |-> srv'.pending,
                ended |-> srv'.ended, late |-> srv'.late, relayInit |-> srv'.relayInit,
                ciphers |-> srv'.ciphers, tgDec |-> srv'.tgDec, tgEnc |-> srv'.tgEnc]
    BY <2>5
  <2>8. SrvOK'
    <3>1. x = At(Relay, HandshakeLen + 0 + 1) /\ y = At(RelayDown, 0 + 1)
      BY <2>3, <2>4
    <3>2. SessionIs(srv', link, 0, 0)
      BY <2>3, <2>6, <2>7, <3>1 DEF SessionIs
    <3>3. SrvIs(srv')
      BY <2>7 DEF SrvIs
    <3>4. QED
      BY <1>2, <2>6, <3>2, <3>3 DEF SrvOK
  <2>9. UpSent(b)'
    BY <2>6 DEF UpSent
  <2>10. UpTaken(c)'
    <3>1. HandshakeLen + 0 = HandshakeLen
      BY <1>1
    <3>2. QED
      BY <1>2, <2>6, <3>1 DEF UpTaken
  <2>11. UpOK'
    BY <1>6, <2>9, <2>10 DEF UpOK
  <2>12. PadsOK'
    <3>1. PICK units, z0, o, n : /\ units = Units(relay, PadPos) \ Units(relay, TagPos - 1)
                                 /\ z0 = 0 /\ o = 1 /\ n = HandshakeLen
      OBVIOUS
    <3>2. Relay = At(Relay, o) /\ z0 \in Nat /\ o = z0 + 1 /\ n \in Nat /\ PadPos = n
      BY <3>1, CipherFacts, Layout DEF Relay
    <3>3. units \subseteq Units(At(Relay, o), n) /\ Uses(units)
      BY <1>8, <2>3, <3>1, <3>2
    <3>4. \A u \in pads : \A j : u = UnitAt(Relay, j) => j \in 1..z0
      BY PadsBelow
    <3>5. /\ IsFiniteSet(pads') /\ padded' = Cardinality(pads')
          /\ \A u \in pads' : u \in pads \/ \E j \in 1..(z0 + n) : u = UnitAt(Relay, j)
      BY <3>2, <3>3, <3>4, UsesFresh
    <3>6. \A u : (\E j \in 1..(z0 + n) : u = UnitAt(Relay, j)) => Known(u)'
      <4>1. z0 + n = HandshakeLen + Len(gotUp')
        BY <1>1, <1>2, <3>1
      <4>2. QED
        BY <2>6, <4>1 DEF Known
    <3>7. \A u : Known(u) => Known(u)'
      BY <2>6 DEF Known
    <3>8. \A u \in pads' : Known(u)'
      BY <3>5, <3>6, <3>7 DEF PadsOK
    <3>9. QED
      BY <3>5, <3>8 DEF PadsOK
  <2>13. StrangerOK'
    <3>1. ~Stranger
      BY <2>1, <2>3 DEF StrangerOK, Stranger
    <3>2. QED
      BY <3>1 DEF StrangerOK, Stranger, FakeTLS
  <2>14. QED
    BY <1>5, <2>6, <2>8, <2>11, <2>12, <2>13
<1>9. QED
  BY <1>3, <1>7, <1>8 DEF Parsed

(* The server has taken the stream up to c and waits for the rest of the   *)
(* init.                                                                   *)
LEMMA FilledInv ==
  ASSUME Inv, srv.pc = "init", FakeTLS, up # <<>>, SrvIs(srv'), srv'.pc = "init",
         srv'.ended = srv.ended, NEW c \in Nat, c < HandshakeLen,
         srv'.filled = Piece(UpStream(link), 0, c),
         UNCHANGED <<link, cli, upEof, cut, sentUp, gotUp, sentDown, gotDown, odd>>,
         UNCHANGED <<down, downEof, pads, padded>>,
         NEW b \in Nat, c <= b, UpSent(b), OnWire(UpStream(link), up', c, b),
         ~odd.broken => IsSeq(up') /\ Readable(up')
  PROVE  Inv'
<1> USE DEF Inv
<1>1. ~cut /\ cli.pc # "start"
  BY DEF EofOK, PhaseOK
<1>2. Typed'
  <2>1. PICK z, f : z = 0 /\ f = UpStream(link)
    OBVIOUS
  <2>2. z \in Nat /\ z <= c /\ IsStream(f)
    BY <2>1, StreamsAre
  <2>3. Len(Piece(f, z, c)) = c - z
    BY <2>2, PieceSeq
  <2>4. Len(srv'.filled) < HandshakeLen
    BY <2>1, <2>3, Layout
  <2>5. QED
    BY <2>4 DEF Typed, TypeOK
<1>3. CliOK' /\ DataOK'
  BY DEF CliOK, Own, DataOK
<1>4. SrvOK'
  BY DEF SrvOK, FakeTLS
<1>5. PhaseOK'
  BY <1>1 DEF PhaseOK, FakeTLS
<1>6. EofOK'
  BY <1>1 DEF EofOK
<1>7. UpOK'
  <2>1. OnWire(UpStream(link), up, c, b)'
    BY DEF OnWire, FakeTLS
  <2>2. UpSent(b)'
    BY DEF UpSent
  <2>3. UpTaken(c)'
    BY DEF UpTaken
  <2>4. QED
    BY <2>1, <2>2, <2>3 DEF UpOK
<1>8. ReadOK'
  BY DEF ReadOK
<1>9. DownOK'
  BY DEF DownOK, OnWire, FakeTLS
<1>10. PadsOK'
  BY DEF PadsOK, Known
<1>11. StrangerOK'
  BY DEF StrangerOK, Stranger, FakeTLS
<1>12. QED
  BY <1>2, <1>3, <1>4, <1>5, <1>6, <1>7, <1>8, <1>9, <1>10, <1>11

LEMMA ServerInitInv == Inv /\ ServerInit => Inv'
<1> SUFFICES ASSUME Inv, ServerInit PROVE Inv'
  OBVIOUS
<1>1. /\ srv.pc = "init"
      /\ UNCHANGED <<link, cli, upEof, cut, sentUp, gotUp, sentDown, gotDown, odd>>
  BY DEF ServerInit
<1>2. PICK a \in Nat, b \in Nat : /\ a <= b /\ UpSent(b) /\ UpTaken(a)
                                  /\ cut \/ OnWire(UpStream(link), up, a, b)
  BY DEF Inv, UpOK
<1>3. PICK f, h, z : f = UpStream(link) /\ h = HandshakeLen /\ z = 0
  OBVIOUS
<1>4. /\ IsStream(f) /\ h \in Nat /\ h > 0 /\ z \in Nat /\ z <= a
      /\ a < h /\ srv.filled = Piece(f, z, a)
  BY <1>1, <1>2, <1>3, StreamsAre, Layout DEF UpTaken
<1>5. Piece(f, z, h) = InitOf(link)
  BY <1>3, InitPiece
<1>6. CASE FakeTLS
  <2>1. PICK r, verdict : r = Head(up) /\ verdict = read_tls_appdata(r)
    OBVIOUS
  <2>2. up # <<>> /\ up' = Tail(up) /\ ~cut
    BY <1>6 DEF ServerInit, Inv, EofOK
  <2>3. LaidOut(f, up, a, b)
    BY <1>2, <1>3, <1>6, <2>2 DEF OnWire
  <2>4. PICK c \in Nat : a <= c /\ c <= b /\ Holds(f, r, a, c) /\ LaidOut(f, Tail(up), c, b)
    BY <1>2, <2>1, <2>2, <2>3, LaidTail
  <2>5. OnWire(UpStream(link), up', c, b)
    BY <1>3, <1>6, <2>2, <2>4 DEF OnWire
  <2>6. ~odd.broken => IsSeq(up') /\ Readable(up')
    <3>1. ~odd.broken => IsSeq(up) /\ Readable(up)
      BY <1>1, <1>6 DEF Inv, ReadOK
    <3>2. IsSeq(Tail(up))
      BY <2>4 DEF LaidOut
    <3>3. QED
      BY <2>2, <3>1, <3>2, ReadableTail
  <2>7. CASE verdict = "end" /\ ServerGone
    BY <1>1, <1>6, <2>2, <2>7, ServerGoneInv
  <2>8. CASE verdict = "skip" /\ UNCHANGED <<srv, down, downEof, pads, padded>>
    <3>1. c = a
      BY <2>1, <2>4, <2>8 DEF Holds, read_tls_appdata
    <3>2. SrvIs(srv') /\ srv'.pc = "init" /\ srv'.ended = srv.ended
      BY <1>1, <2>8 DEF Inv, SrvOK
    <3>3. srv'.filled = Piece(UpStream(link), 0, c) /\ c < HandshakeLen
      BY <1>3, <1>4, <2>8, <3>1
    <3>4. QED
      BY <1>1, <1>2, <1>6, <2>2, <2>4, <2>5, <2>6, <2>8, <3>2, <3>3, FilledInv
  <2>9. CASE verdict = "data" /\ Fill(r.payload)
    <3>1. r.payload = Piece(f, a, c)
      BY <2>1, <2>4, <2>9 DEF Holds, read_tls_appdata
    <3>2. PICK all : all = srv.filled \o r.payload
      OBVIOUS
    <3>3. z \in Nat /\ a \in Nat /\ c \in Nat /\ z <= a /\ a <= c /\ IsStream(f) /\ z <= c
      BY <1>2, <1>3, <1>4, <2>4
    <3>4. Piece(f, z, a) \o Piece(f, a, c) = Piece(f, z, c)
      BY ONLY <3>3, PieceJoin
    <3>5. all = Piece(f, z, c)
      BY <1>4, <3>1, <3>2, <3>4
    <3>6. Len(Piece(f, z, c)) = c - z
      BY <3>3, PieceSeq
    <3>7. Len(all) = c
      BY <1>3, <3>5, <3>6
    <3>8. CASE /\ Len(all) < HandshakeLen
               /\ srv' = [srv EXCEPT !.filled = all]
               /\ UNCHANGED <<down, downEof, pads, padded>>
      <4>1. /\ SrvIs(srv') /\ srv'.pc = "init" /\ srv'.ended = srv.ended
            /\ srv'.filled = Piece(UpStream(link), 0, c)
        <5>1. PICK s, t, y : s = srv /\ t = srv' /\ y = all
          OBVIOUS
        <5>2. SrvIs(s) /\ t = SrvFilled(s, y)
          BY <3>8, <5>1 DEF Inv, SrvOK, SrvFilled
        <5>3. SrvIs(t) /\ t.pc = s.pc /\ t.filled = y /\ t.ended = s.ended
          BY <5>2, SrvSets
        <5>4. QED
          BY <1>1, <1>3, <3>5, <5>1, <5>3
      <4>2. c < HandshakeLen
        BY <3>7, <3>8
      <4>3. QED
        BY <1>1, <1>2, <1>6, <2>2, <2>4, <2>5, <2>6, <3>8, <4>1, <4>2, FilledInv
    <3>9. CASE /\ Len(all) >= HandshakeLen
               /\ Parsed(Slice(all, 1, HandshakeLen),
                         Slice(all, HandshakeLen + 1, Len(all)))
      <4>1. h <= c
        BY <1>3, <1>4, <3>3, <3>7, <3>9
      <4>2. z \in Nat /\ c \in Nat /\ h \in Nat /\ z <= h /\ h <= c /\ IsStream(f) /\ h = h - z
        BY <1>3, <1>4, <3>3, <4>1
      <4>3. Slice(Piece(f, z, c), 1, h) = Piece(f, z, h)
        BY ONLY <4>2, PieceSplit
      <4>4. Slice(Piece(f, z, c), h + 1, Len(Piece(f, z, c))) = Piece(f, h, c)
        BY ONLY <4>2, PieceSplit
      <4>5. PICK x, y : x = InitOf(link) /\ y = Piece(UpStream(link), HandshakeLen, c)
        OBVIOUS
      <4>6. Parsed(x, y)
        BY <1>3, <1>5, <3>5, <3>9, <4>3, <4>4, <4>5
      <4>7. HandshakeLen <= c
        BY <1>3, <4>1
      <4>8. QED
        BY <1>1, <1>2, <2>2, <2>4, <2>5, <2>6, <4>5, <4>6, <4>7, ParsedInv
    <3>10. QED
      BY <2>9, <3>2, <3>8, <3>9 DEF Fill, Slice
  <2>10. QED
    BY <1>6, <2>1, <2>7, <2>8, <2>9 DEF ServerInit
<1>7. CASE ~FakeTLS
  <2>1. /\ Len(up) >= HandshakeLen /\ up' = Slice(up, HandshakeLen + 1, Len(up))
        /\ Parsed(Slice(up, 1, HandshakeLen), <<>>)
    BY <1>7 DEF ServerInit, Slice
  <2>2. a = z
    BY <1>2, <1>4, <1>7, PieceEmpty DEF Inv, SrvOK
  <2>3. ~cut
    BY <1>3, <1>4, <2>1, EmptyFacts DEF Inv, EofOK
  <2>4. up = Piece(f, z, b)
    BY <1>2, <1>3, <1>7, <2>2, <2>3 DEF OnWire
  <2>5. Len(Piece(f, z, b)) = b - z
    BY <1>2, <1>4, <2>2, PieceSeq
  <2>6. h <= b /\ h <= h
    BY <1>2, <1>3, <1>4, <2>1, <2>4, <2>5
  <2>7. z \in Nat /\ b \in Nat /\ h \in Nat /\ z <= h /\ h <= b /\ IsStream(f) /\ h = h - z
    BY <1>2, <1>3, <1>4, <2>6
  <2>8. Slice(Piece(f, z, b), 1, h) = Piece(f, z, h)
    BY ONLY <2>7, PieceSplit
  <2>9. Slice(Piece(f, z, b), h + 1, Len(Piece(f, z, b))) = Piece(f, h, b)
    BY ONLY <2>7, PieceSplit
  <2>10. Piece(f, h, h) = <<>>
    BY <2>6, <2>7, PieceEmpty
  <2>11. PICK x, y, c : /\ x = InitOf(link) /\ c = HandshakeLen
                        /\ y = Piece(UpStream(link), HandshakeLen, c)
    OBVIOUS
  <2>12. Parsed(x, y)
    BY <1>3, <1>5, <2>1, <2>4, <2>8, <2>10, <2>11
  <2>13. OnWire(UpStream(link), up', c, b)
    BY <1>3, <1>7, <2>1, <2>4, <2>9, <2>11 DEF OnWire
  <2>14. c \in Nat /\ HandshakeLen <= c /\ c <= b
    BY <1>3, <2>6, <2>7, <2>11
  <2>15. QED
    BY <1>1, <1>2, <1>7, <2>3, <2>11, <2>12, <2>13, <2>14, ParsedInv
<1>8. QED
  BY <1>6, <1>7

(* The session forwards the next n bytes: it has taken the stream up to a, *)
(* of which Telegram has what is before e.                                 *)
LEMMA ForwardInv ==
  ASSUME Inv, srv.pc = "session", NEW n \in Nat, NEW e, e = HandshakeLen + Len(gotUp) + n,
         NEW bytes, bytes = Piece(UpStream(link), HandshakeLen + Len(gotUp), e),
         NEW a \in Nat, NEW b \in Nat, e <= a, a <= b, UpSent(b),
         cut \/ OnWire(UpStream(link), up', a, b),
         NEW rest, rest = Piece(UpStream(link), e, a),
         Forward(bytes),
         (IF srv.pending = <<>> THEN srv.pending
          ELSE SubSeq(srv.pending, n + 1, Len(srv.pending))) = rest,
         up' = up \/ up # <<>>,
         FakeTLS /\ ~odd.broken => IsSeq(up') /\ Readable(up'),
         UNCHANGED <<link, cli, upEof, cut, sentUp, sentDown, gotDown, odd>>
  PROVE  Inv' /\ ServerReads
<1> USE DEF Inv
<1>1. PICK g, h, f, k : /\ g = Len(gotUp) /\ h = HandshakeLen /\ f = UpStream(link)
                        /\ k = HandshakeLen + Len(gotUp)
  OBVIOUS
<1>2. /\ g \in Nat /\ h \in Nat /\ k \in Nat /\ e \in Nat /\ e = k + n /\ k = h + g
      /\ k <= e /\ IsStream(f) /\ sentDown \in Nat
  <2>1. g \in Nat /\ h \in Nat /\ k = h + g /\ sentDown \in Nat
    BY <1>1, Numbers DEF DataOK
  <2>2. IsStream(f)
    BY <1>1, StreamsAre
  <2>3. e = k + n
    BY <1>1
  <2>4. k \in Nat /\ e \in Nat /\ k <= e
    BY <2>1, <2>3
  <2>5. QED
    BY <2>1, <2>2, <2>3, <2>4
<1>3. Len(bytes) = n
  <2>1. Len(Piece(f, k, e)) = e - k
    BY <1>2, PieceSeq
  <2>2. QED
    BY <1>1, <1>2, <2>1
<1>4. SessionIs(srv, link, g, sentDown)
  BY <1>1 DEF SrvOK
<1>5. PICK cd, te : cd = At(Up(link), h + g + 1) /\ te = At(Relay, h + g + 1)
  OBVIOUS
<1>6. srv.ciphers.clt_dec = cd /\ srv.ciphers.tg_enc = te /\ srv.tgDec = te
  BY <1>1, <1>4, <1>5 DEF SessionIs, Ciphers
<1>7. /\ gotUp' = gotUp \o apply_keystream(te, apply_keystream(te, apply_keystream(cd, bytes)))
      /\ srv' = SessionUp(srv, n, rest)
      /\ Uses(Units(te, n)) /\ down' = down /\ downEof' = downEof
  BY <1>3, <1>6 DEF Forward, SessionUp
<1>8. gotUp' = Data("up", g + n) /\ Len(gotUp') = g + n
  <2>1. apply_keystream(At(Up(link), HandshakeLen + g + 1), Fresh("up", g, n))
           = Piece(UpStream(link), HandshakeLen + g, HandshakeLen + g + n)
    BY <1>2, UpBytes
  <2>2. bytes = apply_keystream(cd, Fresh("up", g, n))
    BY <1>1, <1>5, <2>1
  <2>3. apply_keystream(cd, apply_keystream(cd, Fresh("up", g, n))) = Fresh("up", g, n)
    BY <1>2, ApplyTwice
  <2>4. apply_keystream(te, apply_keystream(te, Fresh("up", g, n))) = Fresh("up", g, n)
    BY <1>2, ApplyTwice
  <2>5. gotUp' = Data("up", g) \o Fresh("up", g, n)
    BY <1>1, <1>7, <2>2, <2>3, <2>4 DEF DataOK
  <2>6. Data("up", g) \o Fresh("up", g, n) = Data("up", g + n)
    BY <1>2, DataFacts
  <2>7. PICK m : m = g + n
    OBVIOUS
  <2>8. m \in Nat
    BY <1>2, <2>7
  <2>9. Len(Data("up", m)) = m
    BY <2>8, DataFacts
  <2>10. QED
    BY <2>5, <2>6, <2>7, <2>9
<1>9. /\ SrvIs(srv') /\ SessionIs(srv', link, g + n, sentDown) /\ srv'.pc = "session"
      /\ srv'.filled = srv.filled /\ srv'.pending = rest /\ srv'.ended = srv.ended
  <2>1. PICK s, t, l, d : s = srv /\ t = srv' /\ l = link /\ d = sentDown
    OBVIOUS
  <2>2. g \in Nat /\ d \in Nat /\ n \in Nat /\ SessionIs(s, l, g, d) /\ t = SessionUp(s, n, rest)
    BY <1>2, <1>4, <1>7, <2>1
  <2>3. /\ SrvIs(t) /\ SessionIs(t, l, g + n, d) /\ t.pc = s.pc
        /\ t.filled = s.filled /\ t.pending = rest /\ t.ended = s.ended
    BY ONLY <2>2, SessionGoesUp
  <2>4. QED
    BY <2>1, <2>3
<1>10. cli.pc \notin {"start", "drain"} /\ (cut => up' = up)
  BY DEF PhaseOK, EofOK
<1>11. Typed' /\ CliOK'
  BY <1>9 DEF Typed, TypeOK, CliOK, Own
<1>12. SrvOK'
  BY <1>8, <1>9 DEF SrvOK, FakeTLS
<1>13. DataOK'
  BY <1>2, <1>8 DEF DataOK
<1>14. PhaseOK'
  BY <1>9, <1>10 DEF PhaseOK, FakeTLS
<1>15. EofOK'
  BY <1>7, <1>9, <1>10 DEF EofOK
<1>16. HandshakeLen + Len(gotUp') = e
  BY <1>1, <1>2, <1>8
<1>17. UpOK'
  <2>1. (cut \/ OnWire(UpStream(link), up, a, b))'
    BY DEF OnWire, FakeTLS
  <2>2. UpSent(b)'
    BY <1>9 DEF UpSent
  <2>3. UpTaken(a)'
    BY <1>9, <1>16 DEF UpTaken
  <2>4. QED
    BY <2>1, <2>2, <2>3 DEF UpOK
<1>18. ReadOK'
  BY DEF ReadOK, FakeTLS
<1>19. DownOK'
  <2>1. PICK s : s = sentUp
    OBVIOUS
  <2>2. s \in Nat /\ b <= h + s
    BY <1>1, <2>1, Numbers DEF UpSent
  <2>3. g + n <= s
    BY <1>2, <2>2
  <2>4. Len(gotUp') <= sentUp'
    BY <1>8, <2>1, <2>3
  <2>5. QED
    BY <1>7, <2>4 DEF DownOK, OnWire, FakeTLS
<1>20. PadsOK'
  <2>1. PICK m, units : m = k + 1 /\ units = Units(At(Relay, m), n)
    OBVIOUS
  <2>2. Uses(units) /\ units \subseteq Units(At(Relay, m), n)
    BY <1>2, <1>5, <1>7, <2>1
  <2>3. \A u \in pads : \A j : u = UnitAt(Relay, j) => j \in 1..k
    BY <1>1, PadsBelow
  <2>4. /\ IsFiniteSet(pads') /\ padded' = Cardinality(pads')
        /\ \A u \in pads' : u \in pads \/ \E j \in 1..(k + n) : u = UnitAt(Relay, j)
    <3>1. PadsOK /\ k \in Nat /\ n \in Nat /\ m = k + 1
      BY <1>2, <2>1
    <3>2. QED
      BY ONLY <2>2, <2>3, <3>1, UsesFresh
  <2>5. \A u : (\E j \in 1..(k + n) : u = UnitAt(Relay, j)) => Known(u)'
    <3>1. k + n = HandshakeLen + Len(gotUp')
      BY <1>2, <1>16
    <3>2. QED
      BY <1>9, <3>1 DEF Known
  <2>6. Len(gotUp) \in Nat /\ Len(gotUp') \in Nat /\ Len(gotUp) <= Len(gotUp')
    BY <1>1, <1>2, <1>8
  <2>7. \A u : Known(u) => Known(u)'
    BY <1>9, <2>6, Numbers, KnownGrows
  <2>8. \A u \in pads' : Known(u)'
    BY <2>4, <2>5, <2>7 DEF PadsOK
  <2>9. QED
    BY <2>4, <2>8 DEF PadsOK
<1>21. StrangerOK'
  BY DEF StrangerOK, Stranger, FakeTLS
<1>22. ServerReads
  <2>1. g <= g + n
    BY <1>2
  <2>2. QED
    BY <1>1, <1>8, <1>9, <2>1 DEF ServerReads
<1>23. QED
  BY <1>11, <1>12, <1>13, <1>14, <1>15, <1>17, <1>18, <1>19, <1>20, <1>21,
     <1>22

LEMMA ServerReadInv == Inv /\ ServerRead => Inv' /\ ServerReads
<1> SUFFICES ASSUME Inv, ServerRead PROVE Inv' /\ ServerReads
  OBVIOUS
<1>1. /\ srv.pc = "session"
      /\ UNCHANGED <<link, cli, upEof, cut, sentUp, sentDown, gotDown, odd>>
  BY DEF ServerRead
<1>2. PICK a \in Nat, b \in Nat : /\ a <= b /\ UpSent(b) /\ UpTaken(a)
                                  /\ cut \/ OnWire(UpStream(link), up, a, b)
  BY DEF Inv, UpOK
<1>3. PICK f, k : f = UpStream(link) /\ k = HandshakeLen + Len(gotUp)
  OBVIOUS
<1>4. IsStream(f) /\ k \in Nat /\ k <= a /\ srv.pending = Piece(f, k, a)
  <2>1. Len(gotUp) \in Nat /\ HandshakeLen \in Nat /\ IsStream(f)
    BY <1>3, StreamsAre, Layout DEF Inv, DataOK
  <2>2. k \in Nat
    BY <1>3, <2>1
  <2>3. k <= a /\ srv.pending = Piece(f, k, a)
    BY <1>1, <1>2, <1>3 DEF UpTaken
  <2>4. QED
    BY <2>1, <2>2, <2>3
<1>5. BufSize \in Nat /\ BufSize > 0
  BY Sizes
<1>6. FakeTLS /\ ~odd.broken => IsSeq(up) /\ Readable(up)
  BY <1>1 DEF Inv, ReadOK
<1>7. CASE srv.pending # <<>>
  <2>1. PICK m, n : m = Len(srv.pending) /\ n = Min({BufSize, Len(srv.pending)})
    OBVIOUS
  <2>2. Forward(Slice(srv.pending, 1, n)) /\ up' = up
    BY <1>7, <2>1 DEF ServerRead, Slice
  <2>3. m = a - k /\ k # a
    BY <1>2, <1>4, <1>7, <2>1, PieceSeq, PieceEmpty
  <2>4. m \in Int /\ BufSize \in Int
    BY <1>2, <1>4, <1>5, <2>3
  <2>5. n = IF BufSize <= m THEN BufSize ELSE m
    BY <2>1, <2>4, MinFacts
  <2>6. PICK e : e = k + n
    OBVIOUS
  <2>7. n \in Nat /\ e \in Nat /\ k <= e /\ e <= a /\ n = e - k
    BY <1>2, <1>4, <1>5, <2>3, <2>5, <2>6
  <2>8. IsStream(f) /\ k \in Nat /\ a \in Nat /\ e \in Nat /\ k <= e /\ e <= a /\ n = e - k
    BY <1>2, <1>4, <2>7
  <2>9. Slice(Piece(f, k, a), 1, n) = Piece(f, k, e)
    BY ONLY <2>8, PieceSplit
  <2>10. Slice(Piece(f, k, a), n + 1, Len(Piece(f, k, a))) = Piece(f, e, a)
    BY ONLY <2>8, PieceSplit
  <2>11. PICK bytes, rest : /\ bytes = Piece(UpStream(link), HandshakeLen + Len(gotUp), e)
                            /\ rest = Piece(UpStream(link), e, a)
    OBVIOUS
  <2>12. Forward(bytes)
    BY <1>3, <1>4, <2>2, <2>9, <2>11
  <2>13. (IF srv.pending = <<>> THEN srv.pending
          ELSE SubSeq(srv.pending, n + 1, Len(srv.pending))) = rest
    BY <1>3, <1>4, <1>7, <2>10, <2>11 DEF Slice
  <2>14. e = HandshakeLen + Len(gotUp) + n
    BY <1>3, <2>6
  <2>15. (cut \/ OnWire(UpStream(link), up', a, b))
         /\ (FakeTLS /\ ~odd.broken => IsSeq(up') /\ Readable(up'))
    BY <1>2, <1>6, <2>2
  <2>16. QED
    BY <1>1, <1>2, <2>2, <2>7, <2>11, <2>12, <2>13, <2>14, <2>15, ForwardInv
<1>8. ASSUME srv.pending = <<>>, up # <<>>, NEW c \in Nat, a <= c, c <= b,
             NEW q, q = Piece(f, a, c), Forward(q), OnWire(UpStream(link), up', c, b),
             FakeTLS /\ ~odd.broken => IsSeq(up') /\ Readable(up')
      PROVE  Inv' /\ ServerReads
  <2>1. k = a
    <3>1. IsStream(f) /\ k \in Nat /\ a \in Nat /\ k <= a /\ Piece(f, k, a) = <<>>
      BY <1>2, <1>4, <1>8
    <3>2. QED
      BY ONLY <3>1, PieceEmpty
  <2>2. PICK n, bytes, rest : /\ n = c - a /\ rest = Piece(UpStream(link), c, c)
                              /\ bytes = Piece(UpStream(link), HandshakeLen + Len(gotUp), c)
    OBVIOUS
  <2>3. n \in Nat /\ c = HandshakeLen + Len(gotUp) + n /\ c <= c
    BY <1>2, <1>3, <1>8, <2>1, <2>2
  <2>4. Forward(bytes)
    BY <1>3, <1>8, <2>1, <2>2
  <2>5. Piece(f, c, c) = <<>>
    BY <1>4, <1>8, <2>3, PieceEmpty
  <2>6. (IF srv.pending = <<>> THEN srv.pending
         ELSE SubSeq(srv.pending, n + 1, Len(srv.pending))) = rest
    BY <1>3, <1>8, <2>2, <2>5
  <2>7. QED
    BY <1>1, <1>2, <1>8, <2>2, <2>3, <2>4, <2>6, ForwardInv
<1>9. CASE srv.pending = <<>> /\ FakeTLS
  <2>1. PICK r, verdict : r = Head(up) /\ verdict = read_tls_appdata(r)
    OBVIOUS
  <2>2. up # <<>> /\ up' = Tail(up) /\ ~cut
    BY <1>9 DEF ServerRead, Inv, EofOK
  <2>3. LaidOut(f, up, a, b)
    BY <1>2, <1>3, <1>9, <2>2 DEF OnWire
  <2>4. PICK c \in Nat : a <= c /\ c <= b /\ Holds(f, r, a, c) /\ LaidOut(f, Tail(up), c, b)
    BY <1>2, <2>1, <2>2, <2>3, LaidTail
  <2>5. OnWire(UpStream(link), up', c, b)
    BY <1>3, <1>9, <2>2, <2>4 DEF OnWire
  <2>6. ~odd.broken => IsSeq(up') /\ Readable(up')
    <3>1. IsSeq(Tail(up))
      BY <2>4 DEF LaidOut
    <3>2. QED
      BY <1>6, <1>9, <2>2, <3>1, ReadableTail
  <2>7. CASE verdict = "end" /\ EndSession
    <3>1. odd.broken
      BY <1>6, <1>9, <2>1, <2>2, <2>7, ReadableTail
    <3>2. Inv'
      BY <1>1, <1>9, <2>2, <2>7, ServerGoneInv DEF EndSession
    <3>3. QED
      BY <2>7, <3>1, <3>2 DEF ServerReads
  <2>8. CASE verdict = "data" /\ Forward(r.payload)
    <3>1. r.payload = Piece(f, a, c)
      BY <2>1, <2>4, <2>8 DEF Holds, read_tls_appdata
    <3>2. QED
      BY <1>8, <1>9, <2>2, <2>4, <2>5, <2>6, <2>8, <3>1
  <2>9. CASE verdict = "skip" /\ UNCHANGED <<srv, down, downEof, gotUp, pads, padded>>
    <3> USE DEF Inv
    <3>1. c = a
      BY <2>1, <2>4, <2>9 DEF Holds, read_tls_appdata
    <3>2. cli.pc # "start"
      BY <2>2 DEF PhaseOK
    <3>3. Typed' /\ CliOK'
      BY <1>1, <2>9 DEF Typed, TypeOK, CliOK, Own
    <3>4. SrvOK' /\ DataOK'
      BY <1>1, <2>9 DEF SrvOK, DataOK, FakeTLS
    <3>5. PhaseOK'
      BY <1>1, <2>9, <3>2 DEF PhaseOK, FakeTLS
    <3>6. EofOK'
      BY <1>1, <2>2, <2>9 DEF EofOK
    <3>7. UpOK'
      <4>1. OnWire(UpStream(link), up, a, b)'
        BY <1>1, <2>5, <3>1 DEF OnWire, FakeTLS
      <4>2. UpSent(b)' /\ UpTaken(a)'
        BY <1>1, <1>2, <2>9 DEF UpSent, UpTaken
      <4>3. QED
        BY <1>2, <4>1, <4>2 DEF UpOK
    <3>8. ReadOK'
      BY <1>1, <2>6 DEF ReadOK
    <3>9. DownOK'
      BY <1>1, <2>9 DEF DownOK, OnWire, FakeTLS
    <3>10. PadsOK'
      BY <1>1, <2>9 DEF PadsOK, Known
    <3>11. StrangerOK'
      BY <1>1, <2>9 DEF StrangerOK, Stranger, FakeTLS
    <3>12. ServerReads
      BY <2>9 DEF ServerReads
    <3>13. QED
      BY <3>12, <3>3, <3>4, <3>5, <3>6, <3>7, <3>8, <3>9, <3>10, <3>11
  <2>10. QED
    BY <1>9, <2>1, <2>7, <2>8, <2>9 DEF ServerRead
<1>10. CASE srv.pending = <<>> /\ ~FakeTLS
  <2>1. PICK n \in {1, Min({BufSize, Len(up)})} :
          /\ n <= Len(up) /\ n > 0 /\ up' = Slice(up, n + 1, Len(up))
          /\ Forward(Slice(up, 1, n))
    BY <1>10 DEF ServerRead, Slice
  <2>2. up # <<>> /\ ~cut
    <3>1. CASE up = <<>>
      <4>1. Len(up) = 0
        BY <3>1, EmptyFacts
      <4>2. BufSize \in Int /\ 0 \in Int
        BY <1>5
      <4>3. Min({BufSize, 0}) = IF BufSize <= 0 THEN BufSize ELSE 0
        BY <4>2, MinFacts
      <4>4. QED
        BY <1>5, <2>1, <4>1, <4>3
    <3>2. CASE up # <<>>
      BY <3>2 DEF Inv, EofOK
    <3>3. QED
      BY <3>1, <3>2
  <2>3. up = Piece(f, a, b)
    BY <1>2, <1>3, <1>10, <2>2 DEF OnWire
  <2>4. Len(up) = b - a
    BY <1>2, <1>4, <2>3, PieceSeq
  <2>5. n \in Int
    <3>1. Len(up) \in Int /\ BufSize \in Int
      BY <1>2, <1>5, <2>4
    <3>2. Min({BufSize, Len(up)}) = IF BufSize <= Len(up) THEN BufSize ELSE Len(up)
      BY <3>1, MinFacts
    <3>3. QED
      BY <2>1, <3>1, <3>2
  <2>6. PICK c : c = a + n
    OBVIOUS
  <2>7. c \in Nat /\ a <= c /\ c <= b /\ n = c - a
    BY <1>2, <2>1, <2>4, <2>5, <2>6
  <2>8. PICK m : m = n
    OBVIOUS
  <2>9. IsStream(f) /\ a \in Nat /\ b \in Nat /\ c \in Nat /\ a <= c /\ c <= b /\ m = c - a
    BY <1>2, <1>4, <2>7, <2>8
  <2>10. Slice(Piece(f, a, b), 1, m) = Piece(f, a, c)
    BY ONLY <2>9, PieceSplit
  <2>11. Slice(Piece(f, a, b), m + 1, Len(Piece(f, a, b))) = Piece(f, c, b)
    BY ONLY <2>9, PieceSplit
  <2>12. PICK q : q = Piece(f, a, c)
    OBVIOUS
  <2>13. Forward(q) /\ up' = Piece(f, c, b)
    BY <2>1, <2>3, <2>8, <2>10, <2>11, <2>12
  <2>14. OnWire(UpStream(link), up', c, b)
    BY <1>3, <1>10, <2>13 DEF OnWire
  <2>15. QED
    BY <1>8, <1>10, <2>2, <2>7, <2>12, <2>13, <2>14
<1>11. QED
  BY <1>7, <1>9, <1>10

(* A message from Telegram.                                                *)
LEMMA ServerWriteInv == \A n \in DownWrites : Inv /\ ServerWrite(n) => Inv'
<1> SUFFICES ASSUME NEW n \in DownWrites, Inv, ServerWrite(n) PROVE Inv'
  OBVIOUS
<1> USE DEF Inv
<1>1. PICK d, e, g, f, ce, td : /\ d = sentDown /\ e = d + n /\ g = Len(gotUp)
                                /\ f = DownStream(link)
                                /\ ce = At(Down(link), d + 1) /\ td = At(RelayDown, d + 1)
  OBVIOUS
<1>2. PICK bytes : bytes = apply_keystream(ce, apply_keystream(td, apply_keystream(td,
                             Fresh("down", d, n))))
  OBVIOUS
<1>3. srv.pc = "session" /\ ~cut /\ ~Stranger /\ SessionIs(srv, link, g, d) /\ ~downEof
  BY <1>1 DEF ServerWrite, StrangerOK, SrvOK, EofOK
<1>4. srv.ciphers.tg_dec = td /\ srv.ciphers.clt_enc = ce /\ srv.tgEnc = td
  BY <1>1, <1>3 DEF SessionIs, Ciphers
<1>5. /\ sentDown + n <= link.down /\ sentDown' = sentDown + n
      /\ down' = down \o (IF FakeTLS THEN write_tls_appdata(bytes) ELSE bytes)
      /\ srv' = SessionDown(srv, n)
      /\ Uses(Units(ce, n))
      /\ UNCHANGED <<link, cli, up, upEof, downEof, cut, sentUp, gotUp, gotDown, odd>>
  BY <1>1, <1>2, <1>4 DEF ServerWrite, SessionDown
<1>6. /\ n \in Nat /\ d \in Nat /\ g \in Nat /\ link.down \in Nat /\ IsStream(f)
      /\ e \in Nat /\ d <= e /\ sentDown' = e
  <2>1. n \in Nat /\ d \in Nat /\ link.down \in Nat
    BY <1>1, HopAssumption, Numbers
  <2>2. g \in Nat /\ IsStream(f)
    BY <1>1, StreamsAre DEF DataOK
  <2>3. QED
    BY <1>1, <1>5, <2>1, <2>2
<1>7. bytes = Piece(f, d, e)
  <2>1. apply_keystream(td, apply_keystream(td, Fresh("down", d, n))) = Fresh("down", d, n)
    BY <1>6, ApplyTwice
  <2>2. apply_keystream(At(Down(link), d + 1), Fresh("down", d, n))
           = Piece(DownStream(link), d, d + n)
    BY <1>6, DownBytes
  <2>3. QED
    BY <1>1, <1>2, <2>1, <2>2
<1>8. /\ SrvIs(srv') /\ SessionIs(srv', link, g, e) /\ srv'.pc = "session"
      /\ srv'.filled = srv.filled /\ srv'.pending = srv.pending /\ srv'.ended = srv.ended
  <2>1. PICK s, t, l : s = srv /\ t = srv' /\ l = link
    OBVIOUS
  <2>2. g \in Nat /\ d \in Nat /\ n \in Nat /\ SessionIs(s, l, g, d) /\ t = SessionDown(s, n)
    BY <1>3, <1>5, <1>6, <2>1
  <2>3. /\ SrvIs(t) /\ SessionIs(t, l, g, d + n) /\ t.pc = s.pc
        /\ t.filled = s.filled /\ t.pending = s.pending /\ t.ended = s.ended
    <3>1. PICK m : m = n
      OBVIOUS
    <3>2. g \in Nat /\ d \in Nat /\ m \in Nat /\ SessionIs(s, l, g, d) /\ t = SessionDown(s, m)
      BY <2>2, <3>1
    <3>3. /\ SrvIs(t) /\ SessionIs(t, l, g, d + m) /\ t.pc = s.pc
          /\ t.filled = s.filled /\ t.pending = s.pending /\ t.ended = s.ended
      BY ONLY <3>2, SessionGoesDown
    <3>4. QED
      BY <3>1, <3>3
  <2>4. QED
    BY <1>1, <1>3, <2>1, <2>3
<1>9. cli.pc \notin {"start", "drain"}
  BY <1>3 DEF PhaseOK
<1>10. Typed'
  <2>1. sentDown' \in 0..link.down
    BY <1>1, <1>5, <1>6
  <2>2. QED
    BY <1>5, <1>8, <2>1 DEF Typed, TypeOK
<1>11. CliOK' /\ DataOK'
  BY <1>5 DEF CliOK, Own, DataOK
<1>12. SrvOK'
  BY <1>1, <1>5, <1>6, <1>8 DEF SrvOK, FakeTLS
<1>13. PhaseOK'
  BY <1>5, <1>8, <1>9 DEF PhaseOK, FakeTLS
<1>14. EofOK'
  BY <1>3, <1>5, <1>8 DEF EofOK
<1>15. UpOK'
  <2>1. PICK a \in Nat, b \in Nat : /\ a <= b /\ UpSent(b) /\ UpTaken(a)
                                    /\ cut \/ OnWire(UpStream(link), up, a, b)
    BY DEF UpOK
  <2>2. (cut \/ OnWire(UpStream(link), up, a, b))'
    BY <1>5, <2>1 DEF OnWire, FakeTLS
  <2>3. UpSent(b)'
    BY <1>3, <1>5, <1>8, <2>1 DEF UpSent
  <2>4. UpTaken(a)'
    BY <1>3, <1>5, <1>8, <2>1 DEF UpTaken
  <2>5. QED
    BY <2>1, <2>2, <2>3, <2>4 DEF UpOK
<1>16. ReadOK'
  BY <1>3, <1>5 DEF ReadOK, FakeTLS
<1>17. DownOK'
  <2>1. PICK k : k = Len(gotDown)
    OBVIOUS
  <2>2. k \in Nat /\ k <= d /\ k <= e
    <3>1. k \in Nat /\ k <= d
      BY <1>1, <2>1 DEF DataOK, DownOK
    <3>2. QED
      BY <1>6, <3>1
  <2>3. ASSUME cli.pc = "open" PROVE OnWire(f, down', k, e) /\ (FakeTLS => Readable(down'))
    <3>1. OnWire(f, down, k, d) /\ (FakeTLS => Readable(down))
      BY <1>1, <1>3, <2>1, <2>3 DEF DownOK
    <3>2. CASE FakeTLS
      <4>1. PICK w : w = write_tls_appdata(Piece(f, d, e))
        OBVIOUS
      <4>2. down' = down \o w
        BY <1>5, <1>7, <3>2, <4>1
      <4>3. LaidOut(f, w, d, e) /\ Readable(w)
        BY <1>6, <4>1, WriteFacts
      <4>4. LaidOut(f, down, k, d) /\ Readable(down)
        BY <3>1, <3>2 DEF OnWire
      <4>5. LaidOut(f, down \o w, k, e)
        BY <1>6, <2>2, <4>3, <4>4, LaidJoin
      <4>6. IsSeq(w) /\ IsSeq(down)
        BY <4>3, <4>4 DEF LaidOut
      <4>7. Readable(down \o w)
        BY <4>3, <4>4, <4>6, ReadableJoin
      <4>8. QED
        BY <3>2, <4>2, <4>5, <4>7 DEF OnWire
    <3>3. CASE ~FakeTLS
      <4>1. down = Piece(f, k, d) /\ down' = down \o Piece(f, d, e)
        BY <1>5, <1>7, <3>1, <3>3 DEF OnWire
      <4>2. IsStream(f) /\ k \in Nat /\ d \in Nat /\ e \in Nat /\ k <= d /\ d <= e
        BY <1>6, <2>2
      <4>3. Piece(f, k, d) \o Piece(f, d, e) = Piece(f, k, e)
        BY ONLY <4>2, PieceJoin
      <4>4. QED
        BY <3>3, <4>1, <4>3 DEF OnWire
    <3>4. QED
      BY <3>2, <3>3
  <2>4. Len(gotDown') <= sentDown' /\ Len(gotUp') <= sentUp'
    BY <1>5, <1>6, <2>1, <2>2 DEF DownOK
  <2>5. cli'.pc = "open" => /\ OnWire(DownStream(link), down, Len(gotDown), sentDown)'
                            /\ FakeTLS' => Readable(down')
    BY <1>1, <1>5, <1>6, <2>1, <2>3 DEF OnWire, FakeTLS
  <2>6. QED
    BY <2>4, <2>5 DEF DownOK
<1>18. PadsOK'
  <2>1. PICK m, units : m = d + 1 /\ units = Units(At(Down(link), m), n)
    OBVIOUS
  <2>2. Uses(units) /\ units \subseteq Units(At(Down(link), m), n)
    BY <1>1, <1>5, <2>1
  <2>3. \A u \in pads : \A j : u = UnitAt(Down(link), j) => j \in 1..d
    BY <1>1, PadsBelow
  <2>4. /\ IsFiniteSet(pads') /\ padded' = Cardinality(pads')
        /\ \A u \in pads' : u \in pads \/ \E j \in 1..(d + n) : u = UnitAt(Down(link), j)
    <3>1. PadsOK /\ d \in Nat /\ n \in Nat /\ m = d + 1
      BY <1>6, <2>1
    <3>2. QED
      BY ONLY <2>2, <2>3, <3>1, UsesFresh
  <2>5. \A u : (\E j \in 1..(d + n) : u = UnitAt(Down(link), j)) => Known(u)'
    <3>1. d + n = sentDown'
      BY <1>1, <1>6
    <3>2. QED
      BY <1>5, <3>1 DEF Known
  <2>6. /\ Len(gotUp) \in Nat /\ Len(gotUp') = Len(gotUp)
        /\ sentDown \in Nat /\ sentDown' \in Nat /\ sentDown <= sentDown'
    BY <1>1, <1>5, <1>6 DEF DataOK
  <2>7. \A u : Known(u) => Known(u)'
    BY <1>5, <1>8, <2>6, Numbers, KnownGrows
  <2>8. \A u \in pads' : Known(u)'
    BY <2>4, <2>5, <2>7 DEF PadsOK
  <2>9. QED
    BY <2>4, <2>8 DEF PadsOK
<1>19. StrangerOK'
  BY <1>3, <1>5 DEF StrangerOK, Stranger, FakeTLS
<1>20. QED
  BY <1>10, <1>11, <1>12, <1>13, <1>14, <1>15, <1>16, <1>17, <1>18, <1>19

LEMMA UnchangedInv == Inv /\ UNCHANGED vars => Inv'
<1> SUFFICES ASSUME Inv, UNCHANGED vars PROVE Inv'
  OBVIOUS
<1> USE DEF Inv, vars
<1>1. Typed' /\ CliOK' /\ DataOK'
  BY DEF Typed, TypeOK, CliOK, Own, DataOK
<1>2. SrvOK' /\ PhaseOK'
  BY DEF SrvOK, PhaseOK, FakeTLS
<1>3. EofOK' /\ ReadOK'
  BY DEF EofOK, ReadOK, FakeTLS
<1>4. UpOK'
  <2>1. PICK a \in Nat, b \in Nat : /\ a <= b /\ UpSent(b) /\ UpTaken(a)
                                    /\ cut \/ OnWire(UpStream(link), up, a, b)
    BY DEF UpOK
  <2>2. UpSent(b)' /\ UpTaken(a)' /\ (cut \/ OnWire(UpStream(link), up, a, b))'
    BY <2>1 DEF UpSent, UpTaken, OnWire, FakeTLS
  <2>3. QED
    BY <2>1, <2>2 DEF UpOK
<1>5. DownOK'
  BY DEF DownOK, OnWire, FakeTLS
<1>6. PadsOK' /\ StrangerOK'
  BY DEF PadsOK, Known, StrangerOK, Stranger, FakeTLS
<1>7. QED
  BY <1>1, <1>2, <1>3, <1>4, <1>5, <1>6

(* Who is no scanner does not scan.                                        *)
LEMMA NoScan ==
  ASSUME ~Scanner, Inv
  PROVE  ~Scan /\ ~ScannerLeaves /\ \A r \in Probes : ~Probe(r)
  BY DEF Inv, Typed, Scan, ScannerLeaves, Probe

LEMMA NextInv == ~Scanner /\ Inv /\ [Next]_vars => Inv'
<1> SUFFICES ASSUME ~Scanner, Inv, [Next]_vars PROVE Inv'
  OBVIOUS
<1>0. ~Scan /\ ~ScannerLeaves /\ \A r \in Probes : ~Probe(r)
  BY NoScan
<1>1. CASE Client
  BY <1>0, <1>1, ClientHelloInv, PlainInitInv, DrainInv, DrainEofInv, ClientReadInv,
     ClientCloseInv, ClientEofInv, ClientWriteInv, FrameInv, OddRecordInv DEF Client
<1>2. CASE Receive
  BY <1>2, ServerHelloInv, ServerInitInv, NoHandshakeInv, SwallowInv, ServerReadInv,
     ServerEofInv DEF Receive
<1>3. CASE HandshakeTimeout \/ TelegramEnds \/ Cut
  BY <1>3, LateInv, CutInv
<1>4. CASE UNCHANGED vars \/ Over
  BY <1>4, UnchangedInv DEF Over
<1>5. CASE \E n \in DownWrites : ServerWrite(n)
  BY <1>5, ServerWriteInv
<1>6. QED
  BY <1>1, <1>2, <1>3, <1>4, <1>5 DEF Next

-----------------------------------------------------------------------------
(* A scanner. *)

(* Bytes without a keystream of a known secret: parse_handshake finds no   *)
(* tag in them, whatever they are.                                         *)
LEMMA ProbesRejected ==
  ASSUME NEW h, h \in Seq(ProbeBytes), Len(h) = HandshakeLen, NEW s, s \in Secrets
  PROVE  parse_handshake(h, s) = Rejected
<1> DEFINE c == Keyed(PrekeyIv(h), s)
           plain == apply_keystream(c, h)
<1>1. TagPos \in 1..Len(h)
  BY Layout
<1>2. PICK b, u : b = h[TagPos] /\ u = Unit(c, TagPos)
  OBVIOUS
<1>3. b \in ProbeBytes
  BY <1>1, <1>2
<1>4. u[1].secret = s
  <2>1. PICK k, i, n : k = c.key /\ i = c.iv /\ n = c.at + TagPos - 1
    OBVIOUS
  <2>2. u = <<k, i, n>>
    BY <1>2, <2>1 DEF Unit
  <2>3. k.secret = s
    BY <2>1 DEF Keyed, make_cipher, Sha256
  <2>4. QED
    BY <2>2, <2>3
<1>5. b = [v |-> b.v, ks |-> b.ks] /\ u \notin b.ks
  BY <1>3, <1>4, ProbeAssumption
<1>6. plain[TagPos] = Xor(b, u)
  BY <1>1, <1>2 DEF apply_keystream
<1>7. u \in Xor(b, u).ks
  <2>1. Xor(b, u) = [v |-> b.v, ks |-> SymDiff(b.ks, {u})]
    BY <1>5 DEF Xor
  <2>2. u \in SymDiff(b.ks, {u})
    BY <1>5 DEF SymDiff
  <2>3. QED
    BY <2>1, <2>2
<1>8. plain[TagPos].ks # {}
  BY <1>6, <1>7
<1>9. Opened(h, c) = Rejected
  BY <1>8 DEF Opened
<1>10. QED
  BY <1>9 DEF parse_handshake, Rejected

ScanCli ==
  /\ CliIs(cli) /\ cli.out = <<>> /\ cli.ended = FALSE
  /\ cli.pc \in {"start", "probing", "gone"}

ScanSrv ==
  /\ SrvIs(srv) /\ srv.ended = FALSE
  /\ srv.pc \in {"hello", "init", "draining", "gone"}
  /\ srv.filled \in Seq(ProbeBytes) /\ Len(srv.filled) < HandshakeLen

(* What is on the wire is the scanner's, in front its first record while   *)
(* the server waits for a hello, and the answer is to a recorded hello.    *)
ScanWire ==
  /\ up \in Seq(IF FakeTLS THEN Probes ELSE ProbeBytes)
  /\ cli.pc = "start" => up = <<>>
  /\ srv.pc = "hello" =>
       /\ FakeTLS /\ down = <<>> /\ (up # <<>> => Head(up) = link.opening)
       /\ cli.pc = "probing" /\ ~cut => up # <<>>
  /\ \/ down = <<>>
     \/ FakeTLS /\ Replayed /\ down = build_faketls_server_hello

ScanData ==
  /\ sentUp = 0 /\ gotUp = <<>> /\ sentDown = 0 /\ gotDown = <<>>
  /\ pads = {} /\ padded = 0
  /\ odd = [count |-> odd.count, broken |-> odd.broken]

(* The invariant of a link whose client is a scanner.                      *)
ScanInv == link \in Links /\ ScanCli /\ ScanSrv /\ ScanWire /\ ScanData

(* Nothing that has ended begins again.                                    *)
Ends ==
  /\ upEof => upEof'
  /\ downEof => downEof'
  /\ cut => cut'
  /\ odd.broken => odd'.broken

(* What a scanner has, as the server meets it.                             *)
LEMMA ProbeFacts ==
  \A r \in Probes : /\ r = Record(r.type, r.version, r.payload)
                    /\ r.payload \in Seq(ProbeBytes)
  BY ProbeAssumption

LEMMA ScanInit == Init /\ Scanner => ScanInv
<1> SUFFICES ASSUME Init, Scanner PROVE ScanInv
  OBVIOUS
<1>1. PICK hs : hs = generate_client_handshake(link.secret, link.dc, link.proto, Random("client"))
  OBVIOUS
<1>2. cli = [pc |-> "start", records |-> 0, out |-> <<>>, ended |-> FALSE,
             handshake |-> hs.handshake, enc |-> hs.enc, dec |-> hs.dec]
  BY <1>1 DEF Init
<1>3. ScanCli
  BY <1>2 DEF ScanCli, CliIs
<1>4. srv = [pc |-> IF FakeTLS THEN "hello" ELSE "init", filled |-> <<>>, pending |-> <<>>,
             ended |-> FALSE, late |-> FALSE]
  BY DEF Init, FakeTLS
<1>5. SrvIs(srv) /\ srv.pc = (IF FakeTLS THEN "hello" ELSE "init") /\ srv.filled = <<>>
      /\ srv.ended = FALSE
  BY <1>4 DEF SrvIs
<1>6. Len(srv.filled) < HandshakeLen
  BY <1>5, EmptyFacts, Layout
<1>7. ScanSrv
  BY <1>5, <1>6 DEF ScanSrv
<1>8. ScanWire
  BY <1>5 DEF Init, ScanWire
<1>9. ScanData
  BY DEF Init, ScanData
<1>10. QED
  BY <1>3, <1>7, <1>8, <1>9 DEF Init, ScanInv

(* The scanner sends what it has.                                          *)
LEMMA ScansInv ==
  ASSUME Scanner, ScanInv, NEW r \in Probes, Scans(r, "probing"),
         cli.pc \in {"start", "probing"}, cli.pc = "start" => r = link.opening,
         odd' = odd \/ odd' = [odd EXCEPT !.count = @ + 1],
         cli.pc = "probing" => ~cut
  PROVE  ScanInv' /\ Ends /\ link' = link
<1> USE DEF ScanInv
<1>1. /\ up' = up \o (IF FakeTLS THEN <<r>> ELSE r.payload)
      /\ cli' = CliPc(cli, "probing")
      /\ UNCHANGED <<link, srv, down, upEof, downEof, cut, sentUp, gotUp, sentDown,
                     gotDown, pads, padded>>
  BY DEF Scans, CliPc
<1>2. CliIs(cli') /\ cli'.pc = "probing" /\ cli'.out = cli.out /\ cli'.ended = cli.ended
  <2>1. PICK c, d, x : c = cli /\ d = cli' /\ x = "probing"
    OBVIOUS
  <2>2. CliIs(c) /\ d = CliPc(c, x)
    BY <1>1, <2>1 DEF ScanCli
  <2>3. QED
    BY <2>1, <2>2, CliSets
<1>3. ScanCli' /\ ScanSrv'
  BY <1>1, <1>2 DEF ScanCli, ScanSrv
<1>4. ScanWire'
  <2>1. CASE FakeTLS
    <3>1. up \in Seq(Probes) /\ up' = up \o <<r>>
      BY <1>1, <2>1 DEF ScanWire
    <3>2. /\ up' \in Seq(Probes) /\ up' # <<>>
          /\ up # <<>> => Head(up') = Head(up)
          /\ up = <<>> => Head(up') = r
      BY <3>1
    <3>3. QED
      BY <1>1, <1>2, <2>1, <3>2 DEF ScanWire, FakeTLS, Replayed, Scanner
  <2>2. CASE ~FakeTLS
    <3>1. up \in Seq(ProbeBytes) /\ up' = up \o r.payload /\ r.payload \in Seq(ProbeBytes)
      BY <1>1, <2>2, ProbeFacts DEF ScanWire
    <3>2. up' \in Seq(ProbeBytes)
      BY <3>1
    <3>3. QED
      BY <1>1, <1>2, <2>2, <3>2 DEF ScanWire, FakeTLS, Replayed, Scanner
  <2>3. QED
    BY <2>1, <2>2
<1>5. /\ odd' = [count |-> odd'.count, broken |-> odd'.broken]
      /\ odd'.broken = odd.broken
  <2>1. PICK o, p, x : o = odd /\ p = odd' /\ x = odd.count + 1
    OBVIOUS
  <2>2. o = [count |-> o.count, broken |-> o.broken] /\ (p = o \/ p = [o EXCEPT !.count = x])
    BY <2>1 DEF ScanData
  <2>3. p = [count |-> p.count, broken |-> p.broken] /\ p.broken = o.broken
    BY <2>2
  <2>4. QED
    BY <2>1, <2>3
<1>6. ScanData'
  BY <1>1, <1>5 DEF ScanData
<1>7. QED
  BY <1>1, <1>3, <1>4, <1>5, <1>6 DEF Ends

(* A step of the server's that leaves the scanner alone.                   *)
LEMMA ServerMovesInv ==
  ASSUME Scanner, ScanInv, SrvIs(srv'), srv'.ended = FALSE,
         srv'.pc \in {"init", "draining", "gone"},
         srv'.filled \in Seq(ProbeBytes), Len(srv'.filled) < HandshakeLen,
         up' \in Seq(IF FakeTLS THEN Probes ELSE ProbeBytes),
         cli.pc = "start" => up' = <<>>,
         down' = down \/ (FakeTLS /\ Replayed /\ down' = build_faketls_server_hello),
         downEof => downEof',
         UNCHANGED <<link, cli, upEof, cut, sentUp, gotUp, sentDown, gotDown, odd,
                     pads, padded>>
  PROVE  ScanInv' /\ Ends /\ link' = link
<1> USE DEF ScanInv
<1>1. ScanCli' /\ ScanSrv' /\ ScanData'
  BY DEF ScanCli, ScanSrv, ScanData
<1>2. FakeTLS' = FakeTLS /\ Replayed' = Replayed
  BY DEF FakeTLS, Replayed, Scanner
<1>3. ScanWire'
  BY <1>2 DEF ScanWire
<1>4. QED
  BY <1>1, <1>3 DEF Ends

(* The server goes, on the scanner's fault or after its timeout.           *)
LEMMA ServerLeavesScanner ==
  ASSUME Scanner, ScanInv,
         ServerGone \/ (srv' = SrvLate(srv, "gone", TRUE) /\ downEof' = TRUE
                        /\ UNCHANGED <<down, pads, padded>>),
         up' \in Seq(IF FakeTLS THEN Probes ELSE ProbeBytes),
         cli.pc = "start" => up' = <<>>,
         UNCHANGED <<link, cli, upEof, cut, sentUp, gotUp, sentDown, gotDown, odd>>
  PROVE  ScanInv' /\ Ends /\ link' = link
<1>1. /\ SrvIs(srv') /\ srv'.pc = "gone" /\ srv'.ended = FALSE
      /\ srv'.filled = srv.filled
  <2>1. PICK s, t, x, y, z : /\ s = srv /\ t = srv' /\ x = "gone" /\ z = TRUE
                             /\ y = (srv.pc = "session")
    OBVIOUS
  <2>2. SrvIs(s) /\ s.ended = FALSE /\ y = FALSE /\ (t = SrvLeft(s, x, y) \/ t = SrvLate(s, x, z))
    BY <2>1 DEF ScanInv, ScanSrv, ServerGone, SrvLeft
  <2>3. SrvIs(t) /\ t.pc = x /\ t.ended = FALSE /\ t.filled = s.filled
    <3>1. CASE t = SrvLeft(s, x, y)
      BY <2>2, <3>1, SrvSets
    <3>2. CASE t = SrvLate(s, x, z)
      BY <2>2, <3>2, SrvSets
    <3>3. QED
      BY <2>2, <3>1, <3>2
  <2>4. QED
    BY <2>1, <2>3
<1>2. downEof' = TRUE /\ UNCHANGED <<down, pads, padded>>
  BY DEF ServerGone
<1>3. srv.filled \in Seq(ProbeBytes) /\ Len(srv.filled) < HandshakeLen
  BY DEF ScanInv, ScanSrv
<1>4. QED
  BY <1>1, <1>2, <1>3, ServerMovesInv

(* What follows of what is on the wire.                                    *)
LEMMA ScanRest ==
  ASSUME Scanner, ScanInv, up # <<>>
  PROVE  /\ cli.pc # "start"
         /\ FakeTLS => Head(up) \in Probes /\ Tail(up) \in Seq(Probes)
  BY DEF ScanInv, ScanWire

(* Only a recorded hello is accepted.                                      *)
LEMMA OnlyReplayed ==
  ASSUME Scanner, link \in Links, HelloAccepted(link.opening, Secrets, Host)
  PROVE  Replayed
<1>1. PICK r : r = link.opening
  OBVIOUS
<1>2. r \in Probes
  BY <1>1, ProbeAssumption DEF Scanner
<1>3. r = Record(r.type, r.version, r.payload) /\ r.payload \in Seq(ProbeBytes)
  BY <1>2, ProbeFacts
<1>4. /\ Len(r.payload) = 1 /\ r.type = "handshake" /\ r.version = "1.0"
      /\ \E s \in Secrets : r.payload[1] = Byte("hello", <<s, Host>>)
  BY <1>1 DEF HelloAccepted
<1>5. PICK s \in Secrets : r.payload[1] = Byte("hello", <<s, Host>>)
  BY <1>4
<1>6. r.payload = <<r.payload[1]>>
  BY <1>3, <1>4
<1>7. r = Record("handshake", "1.0", <<Byte("hello", <<s, Host>>)>>)
  BY <1>3, <1>4, <1>5, <1>6
<1>8. QED
  BY <1>1, <1>7 DEF Replayed, client_hello

LEMMA ServerHelloScan ==
  ASSUME Scanner, ScanInv, ServerHello
  PROVE  ScanInv' /\ Ends /\ link' = link
<1>1. /\ srv.pc = "hello" /\ up # <<>> /\ up' = Tail(up)
      /\ UNCHANGED <<link, cli, upEof, cut, sentUp, gotUp, sentDown, gotDown, odd>>
  BY DEF ServerHello
<1>2. FakeTLS /\ down = <<>> /\ Head(up) = link.opening /\ link \in Links
  BY <1>1 DEF ScanInv, ScanWire
<1>3. cli.pc # "start" /\ up' \in Seq(Probes)
  BY <1>1, <1>2, ScanRest
<1>4. CASE HelloAccepted(Head(up), Secrets, Host)
  <2>1. Replayed
    BY <1>2, <1>4, OnlyReplayed
  <2>2. /\ down' = down \o build_faketls_server_hello /\ srv' = SrvPc(srv, "init")
        /\ UNCHANGED <<downEof, pads, padded>>
    BY <1>4 DEF ServerHello, SrvPc
  <2>3. down' = build_faketls_server_hello
    <3>1. PICK S, b : b \in Seq(S) /\ b = build_faketls_server_hello
      <4>1. ASSUME NEW x, NEW y, NEW z PROVE <<x, y, z>> \in Seq({x, y, z})
        OBVIOUS
      <4>2. QED
        BY <4>1 DEF build_faketls_server_hello
    <3>2. <<>> \o b = b
      BY <3>1
    <3>3. QED
      BY <1>2, <2>2, <3>1, <3>2
  <2>4. /\ SrvIs(srv') /\ srv'.pc = "init" /\ srv'.ended = FALSE
        /\ srv'.filled = srv.filled
    <3>1. PICK s, t, x : s = srv /\ t = srv' /\ x = "init"
      OBVIOUS
    <3>2. SrvIs(s) /\ s.ended = FALSE /\ t = SrvPc(s, x)
      BY <2>2, <3>1 DEF ScanInv, ScanSrv
    <3>3. SrvIs(t) /\ t.pc = x /\ t.ended = FALSE /\ t.filled = s.filled
      BY <3>2, SrvSets
    <3>4. QED
      BY <3>1, <3>3
  <2>5. srv.filled \in Seq(ProbeBytes) /\ Len(srv.filled) < HandshakeLen
    BY DEF ScanInv, ScanSrv
  <2>6. QED
    BY <1>1, <1>2, <1>3, <2>1, <2>2, <2>3, <2>4, <2>5, ServerMovesInv
<1>5. CASE ~HelloAccepted(Head(up), Secrets, Host)
  <2>1. ServerGone
    BY <1>5 DEF ServerHello
  <2>2. QED
    BY <1>1, <1>2, <1>3, <2>1, ServerLeavesScanner
<1>6. QED
  BY <1>4, <1>5

(* A complete init of the scanner's: no secret opens it.                   *)
LEMMA ParsedScan ==
  ASSUME Scanner, ScanInv, NEW h, h \in Seq(ProbeBytes), Len(h) = HandshakeLen, NEW p,
         Parsed(h, p),
         up' \in Seq(IF FakeTLS THEN Probes ELSE ProbeBytes), cli.pc # "start",
         UNCHANGED <<link, cli, upEof, cut, sentUp, gotUp, sentDown, gotDown, odd>>
  PROVE  ScanInv' /\ Ends /\ link' = link
<1>1. \A s \in Secrets : parse_handshake(h, s) = Rejected
  BY ProbesRejected
<1>2. {parse_handshake(h, s) : s \in Secrets} \ {Rejected} = {}
  BY <1>1
<1>3. /\ srv' = SrvPcFilled(srv, "draining", <<>>)
      /\ UNCHANGED <<down, downEof, pads, padded>>
  BY <1>2 DEF Parsed, SrvPcFilled
<1>4. /\ SrvIs(srv') /\ srv'.pc = "draining" /\ srv'.ended = FALSE
      /\ srv'.filled = <<>>
  <2>1. PICK s, t, x, y : s = srv /\ t = srv' /\ x = "draining" /\ y = <<>>
    OBVIOUS
  <2>2. SrvIs(s) /\ s.ended = FALSE /\ t = SrvPcFilled(s, x, y)
    BY <1>3, <2>1 DEF ScanInv, ScanSrv
  <2>3. SrvIs(t) /\ t.pc = x /\ t.ended = FALSE /\ t.filled = y
    BY <2>2, SrvSets
  <2>4. QED
    BY <2>1, <2>3
<1>5. srv'.filled \in Seq(ProbeBytes) /\ Len(srv'.filled) < HandshakeLen
  BY <1>4, EmptyFacts, Layout
<1>6. QED
  BY <1>3, <1>4, <1>5, ServerMovesInv

LEMMA ServerInitScan ==
  ASSUME Scanner, ScanInv, ServerInit
  PROVE  ScanInv' /\ Ends /\ link' = link
<1>1. /\ srv.pc = "init"
      /\ UNCHANGED <<link, cli, upEof, cut, sentUp, gotUp, sentDown, gotDown, odd>>
  BY DEF ServerInit
<1>2. /\ srv.filled \in Seq(ProbeBytes) /\ Len(srv.filled) < HandshakeLen
      /\ SrvIs(srv) /\ srv.ended = FALSE
  BY DEF ScanInv, ScanSrv
<1>3. CASE FakeTLS
  <2>1. up # <<>> /\ up' = Tail(up)
    BY <1>3 DEF ServerInit
  <2>2. cli.pc # "start" /\ Head(up) \in Probes /\ up' \in Seq(Probes)
    BY <1>3, <2>1, ScanRest
  <2>3. CASE Fill(Head(up).payload)
    <3>1. PICK all : all = srv.filled \o Head(up).payload
      OBVIOUS
    <3>2. all \in Seq(ProbeBytes) /\ Len(all) \in Nat
      <4>1. PICK q, f : q = Head(up).payload /\ f = srv.filled
        OBVIOUS
      <4>2. q \in Seq(ProbeBytes) /\ f \in Seq(ProbeBytes)
        BY <1>2, <2>2, <4>1, ProbeFacts
      <4>3. all = f \o q
        BY <3>1, <4>1
      <4>4. QED
        BY ONLY <4>2, <4>3, ConcatProperties
    <3>3. CASE Len(all) < HandshakeLen /\ srv' = SrvFilled(srv, all)
               /\ UNCHANGED <<down, downEof, pads, padded>>
      <4>1. SrvIs(srv') /\ srv'.pc = "init" /\ srv'.filled = all /\ srv'.ended = FALSE
        <5>1. PICK s, t : s = srv /\ t = srv'
          OBVIOUS
        <5>2. SrvIs(s) /\ t = SrvFilled(s, all)
          BY <1>2, <3>3, <5>1
        <5>3. SrvIs(t) /\ t.pc = s.pc /\ t.filled = all /\ t.ended = s.ended
          BY <5>2, SrvSets
        <5>4. QED
          BY <1>1, <1>2, <5>1, <5>3
      <4>2. QED
        BY <1>1, <1>3, <2>2, <3>2, <3>3, <4>1, ServerMovesInv
    <3>4. CASE /\ Len(all) >= HandshakeLen
               /\ Parsed(SubSeq(all, 1, HandshakeLen), SubSeq(all, HandshakeLen + 1, Len(all)))
      <4>1. PICK h, p : h = SubSeq(all, 1, HandshakeLen) /\ p = SubSeq(all, HandshakeLen + 1, Len(all))
        OBVIOUS
      <4>2. h \in Seq(ProbeBytes) /\ Len(h) = HandshakeLen
        BY <3>2, <3>4, <4>1, Layout
      <4>3. Parsed(h, p)
        BY <3>4, <4>1
      <4>4. QED
        BY <1>1, <1>3, <2>2, <4>2, <4>3, ParsedScan
    <3>5. QED
      BY <2>3, <3>1, <3>3, <3>4 DEF Fill, SrvFilled
  <2>4. CASE UNCHANGED <<srv, down, downEof, pads, padded>>
    BY <1>1, <1>2, <1>3, <2>2, <2>4, ServerMovesInv
  <2>5. CASE ServerGone
    BY <1>1, <1>3, <2>2, <2>5, ServerLeavesScanner
  <2>6. QED
    BY <1>3, <2>3, <2>4, <2>5 DEF ServerInit
<1>4. CASE ~FakeTLS
  <2>1. /\ Len(up) >= HandshakeLen /\ up' = SubSeq(up, HandshakeLen + 1, Len(up))
        /\ Parsed(SubSeq(up, 1, HandshakeLen), <<>>)
    BY <1>4 DEF ServerInit
  <2>2. up \in Seq(ProbeBytes) /\ (cli.pc = "start" => up = <<>>)
    BY <1>4 DEF ScanInv, ScanWire
  <2>3. cli.pc # "start"
    BY <2>1, <2>2, EmptyFacts, Layout
  <2>4. PICK h, p : h = SubSeq(up, 1, HandshakeLen) /\ p = <<>>
    OBVIOUS
  <2>5. /\ h \in Seq(ProbeBytes) /\ Len(h) = HandshakeLen
        /\ up' \in Seq(ProbeBytes)
    BY <2>1, <2>2, <2>4, Layout
  <2>6. Parsed(h, p)
    BY <2>1, <2>4
  <2>7. QED
    BY <1>1, <1>4, <2>3, <2>5, <2>6, ParsedScan
<1>5. QED
  BY <1>3, <1>4

LEMMA SwallowScan ==
  ASSUME Scanner, ScanInv, Swallow
  PROVE  ScanInv' /\ Ends /\ link' = link
<1>1. /\ srv.pc = "draining"
      /\ UNCHANGED <<link, cli, upEof, cut, sentUp, gotUp, sentDown, gotDown, odd>>
  BY DEF Swallow
<1>2. CASE up' = <<>> /\ UNCHANGED <<srv, down, downEof, pads, padded>>
  <2>1. up' \in Seq(IF FakeTLS THEN Probes ELSE ProbeBytes)
    BY <1>2
  <2>2. /\ SrvIs(srv) /\ srv.ended = FALSE /\ srv.filled \in Seq(ProbeBytes)
        /\ Len(srv.filled) < HandshakeLen
    BY DEF ScanInv, ScanSrv
  <2>3. QED
    BY <1>1, <1>2, <2>1, <2>2, ServerMovesInv
<1>3. CASE ServerGone /\ UNCHANGED up
  BY <1>1, <1>3, ServerLeavesScanner DEF ScanInv, ScanWire
<1>4. QED
  BY <1>2, <1>3 DEF Swallow

LEMMA NoHandshakeScan ==
  ASSUME Scanner, ScanInv, NoHandshake \/ HandshakeTimeout
  PROVE  ScanInv' /\ Ends /\ link' = link
<1>1. /\ ServerGone \/ (srv' = SrvLate(srv, "gone", TRUE) /\ downEof' = TRUE
                        /\ UNCHANGED <<down, pads, padded>>)
      /\ UNCHANGED <<link, cli, up, upEof, cut, sentUp, gotUp, sentDown, gotDown, odd>>
  BY DEF NoHandshake, HandshakeTimeout, SrvLate
<1>2. QED
  BY <1>1, ServerLeavesScanner DEF ScanInv, ScanWire

LEMMA ScannerLeavesScan ==
  ASSUME Scanner, ScanInv, ScannerLeaves
  PROVE  ScanInv' /\ Ends /\ link' = link
<1> USE DEF ScanInv
<1>1. /\ cli' = CliLeft(cli, "gone", FALSE) /\ upEof' = TRUE
      /\ UNCHANGED <<link, srv, up, down, downEof, cut, sentUp, gotUp, sentDown,
                     gotDown, odd, pads, padded>>
  BY DEF ScannerLeaves, ClientGone, CliLeft
<1>2. CliIs(cli') /\ cli'.pc = "gone" /\ cli'.out = cli.out /\ cli'.ended = FALSE
  <2>1. PICK c, d, x, y : c = cli /\ d = cli' /\ x = "gone" /\ y = FALSE
    OBVIOUS
  <2>2. CliIs(c) /\ d = CliLeft(c, x, y)
    BY <1>1, <2>1 DEF ScanCli
  <2>3. CliIs(d) /\ d.pc = x /\ d.out = c.out /\ d.ended = y
    BY <2>2, CliSets
  <2>4. QED
    BY <2>1, <2>3
<1>3. ScanCli' /\ ScanSrv' /\ ScanData'
  BY <1>1, <1>2 DEF ScanCli, ScanSrv, ScanData
<1>4. ScanWire'
  BY <1>1, <1>2 DEF ScanWire, FakeTLS, Replayed, Scanner
<1>5. QED
  BY <1>1, <1>3, <1>4 DEF Ends

LEMMA CutScan ==
  ASSUME Scanner, ScanInv, Cut
  PROVE  ScanInv' /\ Ends /\ link' = link
<1> USE DEF ScanInv
<1>1. /\ cut' = TRUE /\ upEof' = TRUE /\ downEof' = TRUE /\ up' = <<>> /\ down' = <<>>
      /\ UNCHANGED <<link, cli, srv, sentUp, gotUp, sentDown, gotDown, odd, pads, padded>>
  BY DEF Cut
<1>2. ScanCli' /\ ScanSrv' /\ ScanData'
  BY <1>1 DEF ScanCli, ScanSrv, ScanData
<1>3. ScanWire'
  BY <1>1 DEF ScanWire, FakeTLS, Replayed, Scanner
<1>4. QED
  BY <1>1, <1>2, <1>3 DEF Ends

LEMMA UnchangedScan ==
  ASSUME Scanner, ScanInv, UNCHANGED vars
  PROVE  ScanInv' /\ Ends /\ link' = link
  BY DEF vars, ScanInv, ScanCli, ScanSrv, ScanData, ScanWire, FakeTLS, Replayed, Scanner, Ends

(* What a scanner does not do, and what the server does not do for one.    *)
LEMMA ScannerNever ==
  ASSUME Scanner, ScanInv
  PROVE  /\ ~ClientHello /\ ~PlainInit /\ ~Drain /\ ~DrainEof /\ ~ClientRead
         /\ ~ClientClose /\ ~ClientEof /\ ~ServerRead /\ ~ServerEof /\ ~TelegramEnds
         /\ \A n \in UpWrites : ~ClientWrite(n)
         /\ \A n \in Frames : ~Frame(n)
         /\ \A type \in {"ccs", "alert"} : ~OddRecord(type)
         /\ \A n \in DownWrites : ~ServerWrite(n)
<1>1. cli.pc # "drain" /\ cli.pc # "open" /\ srv.pc # "session"
  BY DEF ScanInv, ScanCli, ScanSrv
<1>2. ~ClientHello /\ ~PlainInit /\ ~Drain /\ ~DrainEof
  BY <1>1 DEF ClientHello, PlainInit, Drain, DrainEof
<1>3. ~ClientRead /\ ~ClientClose /\ ~ClientEof
  BY <1>1 DEF ClientRead, ClientClose, ClientEof
<1>4. /\ \A n \in UpWrites : ~ClientWrite(n)
      /\ \A n \in Frames : ~Frame(n)
      /\ \A type \in {"ccs", "alert"} : ~OddRecord(type)
  BY <1>1 DEF ClientWrite, Frame, OddRecord
<1>5. ~ServerRead /\ ~ServerEof /\ ~TelegramEnds /\ \A n \in DownWrites : ~ServerWrite(n)
  BY <1>1 DEF ServerRead, ServerEof, TelegramEnds, ServerWrite
<1>6. QED
  BY <1>2, <1>3, <1>4, <1>5

LEMMA ScanNext ==
  ASSUME Scanner, ScanInv, [Next]_vars
  PROVE  ScanInv' /\ Ends /\ link' = link
<1>1. CASE Scan
  <2>1. link.opening \in Probes
    BY ProbeAssumption DEF Scanner, ScanInv
  <2>2. cli.pc = "start" /\ Scans(link.opening, "probing") /\ odd' = odd
    BY <1>1 DEF Scan
  <2>3. QED
    BY <2>1, <2>2, ScansInv
<1>2. ASSUME NEW r \in Probes, Probe(r) PROVE ScanInv' /\ Ends /\ link' = link
  <2>1. /\ cli.pc = "probing" /\ ~cut /\ Scans(r, "probing")
        /\ odd' = [odd EXCEPT !.count = @ + 1]
    BY <1>2 DEF Probe
  <2>2. QED
    BY <2>1, ScansInv
<1>3. CASE Client
  BY <1>1, <1>2, <1>3, ScannerNever, ScannerLeavesScan DEF Client
<1>4. CASE Receive
  BY <1>4, ScannerNever, ServerHelloScan, ServerInitScan, NoHandshakeScan, SwallowScan
  DEF Receive
<1>5. CASE HandshakeTimeout \/ Cut
  BY <1>5, NoHandshakeScan, CutScan
<1>6. CASE UNCHANGED vars \/ Over
  BY <1>6, UnchangedScan DEF Over
<1>7. QED
  BY <1>3, <1>4, <1>5, <1>6, ScannerNever DEF Next

(* Every link: a client's, or a scanner's.                                 *)
Holding == IF Scanner THEN ScanInv ELSE Inv

LEMMA LinkStays == [Next]_vars => link' = link
<1> SUFFICES ASSUME [Next]_vars PROVE link' = link
  OBVIOUS
<1>1. SendInit \/ (\E q : ClientTakes(q)) => link' = link
  BY DEF SendInit, ClientTakes
<1>2. CASE Drain \/ ClientRead \/ PlainInit
  BY <1>1, <1>2 DEF Drain, ClientRead, PlainInit
<1>3. CASE ClientHello \/ DrainEof \/ ClientClose \/ ClientEof \/ Scan \/ ScannerLeaves
  BY <1>3 DEF ClientHello, DrainEof, ClientClose, ClientEof, Scan, Scans, ScannerLeaves
<1>4. CASE \/ \E n \in UpWrites : ClientWrite(n)
           \/ \E n \in Frames : Frame(n)
           \/ \E type \in {"ccs", "alert"} : OddRecord(type)
           \/ \E r \in Probes : Probe(r)
  BY <1>4 DEF ClientWrite, Frame, OddRecord, Probe, Scans
<1>5. CASE Receive
  BY <1>5 DEF Receive, ServerHello, ServerInit, NoHandshake, Swallow, ServerRead, ServerEof
<1>6. CASE \/ HandshakeTimeout \/ TelegramEnds \/ Cut \/ Over \/ UNCHANGED vars
           \/ \E n \in DownWrites : ServerWrite(n)
  BY <1>6 DEF HandshakeTimeout, TelegramEnds, Cut, Over, ServerWrite, vars
<1>7. QED
  BY <1>2, <1>3, <1>4, <1>5, <1>6 DEF Next, Client

(***************************************************************************)
(* The invariant holds.  Of a client's link: both streams are sequences of *)
(* bytes given by the two inits and the data, the wire carries the piece   *)
(* of its stream that lies between what the reader has taken and what the  *)
(* writer has sent, and the ciphers of both ends stand at the same place   *)
(* of one keystream.  Of a scanner's: the wire carries what it sent, and   *)
(* the server never opens a session.                                       *)
(***************************************************************************)
THEOREM HopInvariance == Spec => []Holding
<1>1. Init => Holding
  BY InitInv, ScanInit DEF Holding
<1>2. Holding /\ [Next]_vars => Holding'
  <2>1. ASSUME Holding, [Next]_vars PROVE Holding'
    <3>1. link' = link
      BY <2>1, LinkStays
    <3>2. Scanner' <=> Scanner
      BY <3>1 DEF Scanner
    <3>3. CASE Scanner
      BY <2>1, <3>2, <3>3, ScanNext DEF Holding
    <3>4. CASE ~Scanner
      BY <2>1, <3>2, <3>4, NextInv DEF Holding
    <3>5. QED
      BY <3>3, <3>4
  <2>2. QED
    BY <2>1
<1>3. QED
  BY <1>1, <1>2, PTL DEF Spec

(***************************************************************************)
(* Both sides stay in their phases, an init that is being filled never     *)
(* holds the 64 bytes that end the loop of accept_inbound_faketls, and     *)
(* nothing is sent beyond what the link allows.                            *)
(***************************************************************************)
THEOREM HopTypeCorrect == Spec => []TypeOK
<1>1. Inv => TypeOK
  BY DEF Inv, Typed
<1>2. ScanInv => TypeOK
  <2> SUFFICES ASSUME ScanInv PROVE TypeOK
    OBVIOUS
  <2>1. link \in Links /\ link.up \in Nat /\ link.down \in Nat
    BY HopAssumption DEF ScanInv
  <2>2. Len(cli.out) <= HandshakeLen + link.up
    BY <2>1, EmptyFacts, Layout DEF ScanInv, ScanCli
  <2>3. /\ cli.pc \in {"start", "drain", "open", "probing", "gone"}
        /\ srv.pc \in {"hello", "init", "draining", "session", "gone"}
        /\ Len(srv.filled) < HandshakeLen
    BY DEF ScanInv, ScanCli, ScanSrv
  <2>4. sentUp \in 0..link.up /\ sentDown \in 0..link.down
    BY <2>1 DEF ScanInv, ScanData
  <2>5. QED
    BY <2>1, <2>2, <2>3, <2>4 DEF TypeOK
<1>3. Holding => TypeOK
  BY <1>1, <1>2 DEF Holding
<1>4. QED
  BY <1>3, HopInvariance, PTL

(***************************************************************************)
(* Who does not know a secret of the server reaches nothing behind it and  *)
(* learns nothing from handle_client_with_runtime: a ClientHello that      *)
(* parse_faketls_client_hello refuses has no answer, and an init that      *)
(* parse_handshake refuses is drained in silence.  A scanner may send any  *)
(* number of records of any kind, size and order, or any bytes, so long as *)
(* it has none under a keystream of the server's secrets; opening with a   *)
(* hello that it has recorded is answered with the one ServerHello.        *)
(***************************************************************************)
THEOREM StrangersAreSilenced == Spec => []StrangersGetNothing
<1>1. Holding => StrangersGetNothing
  BY DEF Holding, Inv, StrangerOK, ScanInv, ScanWire, ScanData, StrangersGetNothing
<1>2. QED
  BY <1>1, HopInvariance, PTL

(***************************************************************************)
(* No byte of any keystream covers two bytes: the fast-forward of          *)
(* generate_client_handshake and of build_connection_ciphers skips exactly *)
(* what the inits used, the reversed seeds give other keystreams, and      *)
(* every write goes on where the one before it ended.                      *)
(***************************************************************************)
THEOREM KeystreamIsUsedOnce == Spec => []KeystreamOnce
<1>1. Holding => KeystreamOnce
  BY FS_EmptySet DEF Holding, Inv, PadsOK, ScanInv, ScanData, KeystreamOnce
<1>2. QED
  BY <1>1, HopInvariance, PTL

(***************************************************************************)
(* For every DC index an i16 can hold and every protocol tag, the relay    *)
(* init of a session asks Telegram for what the client's init asked for.   *)
(***************************************************************************)
THEOREM DcIsKept == Spec => []DcKept
<1>1. Holding => DcKept
  <2> SUFFICES ASSUME Inv, srv.pc = "session"
               PROVE  Opened(srv.relayInit, Raw(PrekeyIv(srv.relayInit)))
                        = [ok |-> TRUE, proto |-> link.proto, dc |-> link.dc]
    BY DEF DcKept, Holding, ScanInv, ScanSrv
  <2>1. srv.relayInit = RelayOf(link) /\ link.proto \in Tags
    BY DEF Inv, SrvOK, SessionIs
  <2>2. PICK h, proto, dc : h = srv.relayInit /\ proto = link.proto /\ dc = link.dc
    OBVIOUS
  <2>3. h = generate_relay_init(proto, dc, Random("relay")) /\ proto \in Tags
    BY <2>1, <2>2 DEF RelayOf
  <2>4. Opened(h, Raw(PrekeyIv(h))) = [ok |-> TRUE, proto |-> proto, dc |-> dc]
    BY <2>3, RelayFacts
  <2>5. QED
    BY <2>2, <2>4
<1>2. QED
  BY <1>1, HopInvariance, PTL

-----------------------------------------------------------------------------
(* Either direction is a pipe. *)

LEMMA PrefixOfData ==
  ASSUME NEW dir, NEW k \in Nat, NEW m \in Nat, k <= m
  PROVE  /\ UpPipe!IsPrefix(Data(dir, k), Data(dir, m))
         /\ DownPipe!IsPrefix(Data(dir, k), Data(dir, m))
<1>1. PICK n : n = m - k
  OBVIOUS
<1>2. n \in Nat /\ k + n = m
  BY <1>1
<1>3. IsPrefix(Data(dir, k), Data(dir, k + n))
  BY <1>2, DataFacts
<1>4. PICK p, q : p = Data(dir, k) /\ q = Data(dir, m)
  OBVIOUS
<1>5. IsPrefix(p, q)
  BY <1>2, <1>3, <1>4
<1>6. UpPipe!IsPrefix(p, q) /\ DownPipe!IsPrefix(p, q)
  BY <1>5 DEF IsPrefix, UpPipe!IsPrefix, DownPipe!IsPrefix
<1>7. QED
  BY <1>4, <1>6

(* A side that goes on is told nothing.                                    *)
LEMMA StillOpen ==
  ASSUME Inv, Inv'
  PROVE  /\ srv.pc # "gone" => srv.ended = FALSE
         /\ srv'.pc # "gone" => srv'.ended = FALSE
         /\ cli.pc # "gone" => cli.ended = FALSE
         /\ cli'.pc # "gone" => cli'.ended = FALSE
  BY DEF Inv, EofOK

LEMMA UpSends ==
  ASSUME Inv, Inv', sentUp <= sentUp', upEof => upEof' /\ sentUp' = sentUp,
         cut \/ odd.broken => cut' \/ odd'.broken,
         gotUp' = gotUp, srv'.ended = srv.ended
  PROVE  UpPipe!Sender
<1>1. sentUp \in Nat /\ sentUp' \in Nat
  BY Numbers DEF Inv, Typed, TypeOK
<1>2. UpPipe!IsPrefix(Data("up", sentUp), Data("up", sentUp'))
  BY <1>1, PrefixOfData
<1>3. QED
  BY <1>2 DEF UpPipe!Sender

LEMMA DownSends ==
  ASSUME Inv, Inv', sentDown <= sentDown', downEof => downEof' /\ sentDown' = sentDown,
         cut => cut', gotDown' = gotDown, cli'.ended = cli.ended
  PROVE  DownPipe!Sender
<1>1. sentDown \in Nat /\ sentDown' \in Nat
  BY Numbers DEF Inv, Typed, TypeOK
<1>2. DownPipe!IsPrefix(Data("down", sentDown), Data("down", sentDown'))
  BY <1>1, PrefixOfData
<1>3. QED
  BY <1>2 DEF DownPipe!Sender

LEMMA UpReceives ==
  ASSUME Inv, Inv', Len(gotUp) <= Len(gotUp'), srv.pc # "gone", srv'.pc # "gone",
         UNCHANGED <<upEof, cut, sentUp, odd>>
  PROVE  [UpPipe!Receive]_(UpPipe!pipeVars)
<1>1. srv.ended = FALSE /\ srv'.ended = FALSE
  BY StillOpen
<1>2. PICK g, h, s : g = Len(gotUp) /\ h = Len(gotUp') /\ s = sentUp
  OBVIOUS
<1>3. g \in Nat /\ h \in Nat /\ s \in Nat /\ g <= h
  BY <1>2, Numbers DEF Inv, DataOK
<1>4. gotUp = Data("up", g) /\ gotUp' = Data("up", h) /\ h <= s
  BY <1>2 DEF Inv, DataOK, DownOK
<1>5. UpPipe!IsPrefix(gotUp, gotUp') /\ UpPipe!IsPrefix(gotUp', Data("up", sentUp))
  BY <1>2, <1>3, <1>4, PrefixOfData
<1>6. CASE gotUp' = gotUp
  BY <1>1, <1>6 DEF UpPipe!pipeVars
<1>7. CASE gotUp' # gotUp
  BY <1>1, <1>5, <1>7 DEF UpPipe!Receive
<1>8. QED
  BY <1>6, <1>7

LEMMA DownReceives ==
  ASSUME Inv, Inv', cli.pc # "gone", ClientReads
  PROVE  [DownPipe!Receive]_(DownPipe!pipeVars)
<1>1. cli.ended = FALSE /\ cli'.ended = FALSE
  BY StillOpen DEF ClientReads
<1>2. PICK g, h, s : g = Len(gotDown) /\ h = Len(gotDown') /\ s = sentDown
  OBVIOUS
<1>3. g \in Nat /\ h \in Nat /\ s \in Nat /\ g <= h
  BY <1>2, Numbers DEF Inv, DataOK, ClientReads
<1>4. gotDown = Data("down", g) /\ gotDown' = Data("down", h) /\ h <= s
  BY <1>2 DEF Inv, DataOK, DownOK, ClientReads
<1>5. DownPipe!IsPrefix(gotDown, gotDown') /\ DownPipe!IsPrefix(gotDown', Data("down", sentDown))
  BY <1>2, <1>3, <1>4, PrefixOfData
<1>6. UNCHANGED <<downEof, cut, sentDown>>
  BY DEF ClientReads
<1>7. CASE gotDown' = gotDown
  BY <1>1, <1>6, <1>7 DEF DownPipe!pipeVars
<1>8. CASE gotDown' # gotDown
  BY <1>1, <1>5, <1>6, <1>8 DEF DownPipe!Receive
<1>9. QED
  BY <1>7, <1>8

(* The session is over: the wire was cut, the framing broken, or every     *)
(* byte has been forwarded.                                                *)
LEMMA ServerIsGone ==
  ASSUME Inv, ServerGone
  PROVE  srv'.pc = "gone" /\ srv'.ended = (srv.pc = "session") /\ downEof' = TRUE
<1>1. PICK s, t, x, y : s = srv /\ t = srv' /\ x = "gone" /\ y = (srv.pc = "session")
  OBVIOUS
<1>2. SrvIs(s) /\ t = SrvLeft(s, x, y)
  BY <1>1 DEF Inv, SrvOK, ServerGone, SrvLeft
<1>3. t.pc = x /\ t.ended = y
  BY <1>2, SrvSets
<1>4. QED
  BY <1>1, <1>3 DEF ServerGone

LEMMA UpEnds ==
  ASSUME Inv, srv.pc = "session", EndSession, UNCHANGED <<upEof, cut, sentUp, odd>>,
         cut \/ odd.broken \/ (upEof /\ gotUp = Data("up", sentUp))
  PROVE  UpPipe!End
<1>1. srv'.ended /\ ~srv.ended /\ gotUp' = gotUp
  BY ServerIsGone DEF EndSession, Inv, EofOK
<1>2. QED
  BY <1>1 DEF UpPipe!End

LEMMA AllForwarded ==
  ASSUME Inv, srv.pc = "session", srv.pending = <<>>, up = <<>>, upEof, ~cut
  PROVE  gotUp = Data("up", sentUp)
<1>1. PICK a \in Nat, b \in Nat : /\ a <= b /\ UpSent(b) /\ UpTaken(a)
                                  /\ OnWire(UpStream(link), up, a, b)
  BY DEF Inv, UpOK
<1>2. PICK f, k, g, s, h : /\ f = UpStream(link) /\ k = HandshakeLen + Len(gotUp)
                           /\ g = Len(gotUp) /\ s = sentUp /\ h = HandshakeLen
  OBVIOUS
<1>3. /\ g \in Nat /\ s \in Nat /\ h \in Nat /\ h > 0 /\ k = h + g /\ IsStream(f)
      /\ gotUp = Data("up", g)
  BY <1>2, Numbers, StreamsAre DEF Inv, DataOK
<1>4. k \in Nat /\ k <= a /\ Piece(f, k, a) = <<>>
  BY <1>1, <1>2, <1>3 DEF UpTaken
<1>5. k = a
  BY <1>1, <1>3, <1>4, PieceEmpty
<1>6. a = b
  <2>1. CASE FakeTLS
    BY <1>1, <2>1, LaidNone DEF OnWire
  <2>2. CASE ~FakeTLS
    <3>1. Piece(f, a, b) = <<>>
      BY <1>1, <1>2, <2>2 DEF OnWire
    <3>2. QED
      BY <1>1, <1>3, <3>1, PieceEmpty
  <2>3. QED
    BY <2>1, <2>2
<1>7. cli.pc = "gone"
  BY DEF Inv, EofOK
<1>8. b = 0 \/ b = h + s
  BY <1>1, <1>2, <1>7 DEF UpSent
<1>9. g = s
  BY <1>3, <1>5, <1>6, <1>8
<1>10. QED
  BY <1>2, <1>3, <1>9

(* Every step of the hop is a step of the upward pipe, or leaves it alone. *)
LEMMA UpStep == ~Scanner /\ Inv /\ [Next]_vars => [UpPipe!Next]_(UpPipe!pipeVars)
<1> SUFFICES ASSUME ~Scanner, Inv, [Next]_vars PROVE [UpPipe!Next]_(UpPipe!pipeVars)
  OBVIOUS
<1>1. Inv'
  BY NextInv
<1>2. sentUp \in Nat
  BY Numbers DEF Inv
<1>3. ASSUME UpPipe!Sender \/ UpPipe!End \/ [UpPipe!Receive]_(UpPipe!pipeVars)
      PROVE  [UpPipe!Next]_(UpPipe!pipeVars)
  BY <1>3 DEF UpPipe!Next
<1>4. ASSUME /\ UNCHANGED <<srv, gotUp, sentUp>> /\ (upEof => upEof')
             /\ (cut \/ odd.broken => cut' \/ odd'.broken)
      PROVE  UpPipe!Sender
  BY <1>1, <1>2, <1>4, UpSends
<1>5. ASSUME srv'.ended = srv.ended, UNCHANGED <<upEof, cut, sentUp, gotUp, odd>>
      PROVE  UpPipe!Sender
  BY <1>1, <1>2, <1>5, UpSends
<1>6. CASE Client
  <2>1. CASE ClientHello \/ PlainInit \/ DrainEof \/ ClientClose \/ ClientEof
    BY <1>3, <1>4, <2>1 DEF ClientHello, PlainInit, SendInit, DrainEof, ClientClose,
       ClientEof, ClientGone
  <2>2. CASE Drain
    BY <1>3, <1>4, <2>2 DEF Drain, SendInit, ClientGone
  <2>3. CASE ClientRead
    BY <1>3, <1>4, <2>3, ClientReadInv DEF ClientReads
  <2>4. ASSUME NEW n \in UpWrites, ClientWrite(n) PROVE UpPipe!Sender
    <3>1. cli.pc = "open" /\ ~cut /\ sentUp' = sentUp + n
          /\ UNCHANGED <<srv, upEof, cut, gotUp, odd>>
      BY <2>4 DEF ClientWrite
    <3>2. ~upEof
      BY <3>1 DEF Inv, EofOK
    <3>3. sentUp <= sentUp'
      BY <1>2, <3>1, HopAssumption
    <3>4. QED
      BY <1>1, <3>1, <3>2, <3>3, UpSends
  <2>5. ASSUME NEW n \in Frames, Frame(n) PROVE UpPipe!Sender
    <3>1. /\ odd' = [odd EXCEPT !.broken = odd.broken \/ (FakeTLS /\ (n = 0 \/ n > MaxPayload + Headroom)),
                                !.count = IF n = 0 THEN odd.count + 1 ELSE odd.count]
          /\ UNCHANGED <<srv, upEof, cut, sentUp, gotUp>>
      BY <2>5 DEF Frame
    <3>2. odd = [count |-> odd.count, broken |-> odd.broken]
      BY DEF Inv, DataOK
    <3>3. odd'.broken = (odd.broken \/ (FakeTLS /\ (n = 0 \/ n > MaxPayload + Headroom)))
      BY <3>1, <3>2
    <3>4. QED
      BY <1>4, <3>1, <3>3
  <2>6. ASSUME NEW type \in {"ccs", "alert"}, OddRecord(type) PROVE UpPipe!Sender
    BY <1>4, <2>6 DEF OddRecord
  <2>7. QED
    BY <1>3, <1>6, <2>1, <2>2, <2>3, <2>4, <2>5, <2>6, NoScan DEF Client
<1>7. ASSUME srv.pc # "session", srv.pc # "gone", UNCHANGED <<upEof, cut, sentUp, gotUp, odd>>,
             srv' = srv \/ ServerGone \/ srv'.pc # "gone"
      PROVE  UpPipe!Sender
  BY <1>1, <1>5, <1>7, StillOpen, ServerIsGone
<1>8. CASE ServerHello \/ NoHandshake \/ Swallow
  <2>1. ServerHello => srv'.pc = "init" \/ ServerGone
    <3> SUFFICES ASSUME srv' = [srv EXCEPT !.pc = "init"] PROVE srv'.pc = "init"
      BY DEF ServerHello
    <3>1. PICK s, t, x : s = srv /\ t = srv' /\ x = "init"
      OBVIOUS
    <3>2. SrvIs(s) /\ t = SrvPc(s, x)
      BY <3>1 DEF Inv, SrvOK, SrvPc
    <3>3. t.pc = x
      BY <3>2, SrvSets
    <3>4. QED
      BY <3>1, <3>3
  <2>2. QED
    BY <1>3, <1>7, <1>8, <2>1 DEF ServerHello, NoHandshake, Swallow
<1>9. CASE ServerInit
  <2>1. ASSUME NEW h, NEW p, Parsed(h, p) PROVE srv'.pc # "gone"
    <3>1. CASE srv' = [srv EXCEPT !.pc = "draining", !.filled = <<>>]
      <4>1. PICK s, t, x, y : s = srv /\ t = srv' /\ x = "draining" /\ y = <<>>
        OBVIOUS
      <4>2. SrvIs(s) /\ t = SrvPcFilled(s, x, y)
        BY <3>1, <4>1 DEF Inv, SrvOK, SrvPcFilled
      <4>3. t.pc = x
        BY <4>2, SrvSets
      <4>4. QED
        BY <4>1, <4>3
    <3>2. ASSUME NEW info,
                 LET init == generate_relay_init(info.proto, DcIdx(info), Random("relay"))
                     c == build_connection_ciphers(info.prekey_and_iv, info.secret, init)
                 IN srv' = [pc |-> "session", filled |-> <<>>, pending |-> p,
                            ended |-> FALSE, late |-> FALSE, relayInit |-> init,
                            ciphers |-> c, tgDec |-> FastForward(Raw(PrekeyIv(init))),
                            tgEnc |-> Raw(Reverse(PrekeyIv(init)))]
          PROVE  srv'.pc # "gone"
      BY <3>2
    <3>3. QED
      BY <2>1, <3>1, <3>2 DEF Parsed
  <2>2. ASSUME NEW q, Fill(q) PROVE srv'.pc # "gone"
    <3>1. CASE srv' = [srv EXCEPT !.filled = srv.filled \o q]
      <4>1. PICK s, t, y : s = srv /\ t = srv' /\ y = srv.filled \o q
        OBVIOUS
      <4>2. SrvIs(s) /\ t = SrvFilled(s, y)
        BY <3>1, <4>1 DEF Inv, SrvOK, SrvFilled
      <4>3. t.pc = s.pc
        BY <4>2, SrvSets
      <4>4. QED
        BY <1>9, <4>1, <4>3 DEF ServerInit
    <3>2. QED
      BY <2>1, <2>2, <3>1 DEF Fill
  <2>3. srv' = srv \/ ServerGone \/ srv'.pc # "gone"
    BY <1>9, <2>1, <2>2 DEF ServerInit
  <2>4. QED
    BY <1>3, <1>7, <1>9, <2>3 DEF ServerInit
<1>10. CASE ServerRead
  <2>1. srv.pc = "session" /\ UNCHANGED <<upEof, cut, sentUp, odd>>
    BY <1>10 DEF ServerRead
  <2>2. ServerReads
    BY <1>10, ServerReadInv
  <2>3. CASE Len(gotUp) <= Len(gotUp') /\ srv'.pc = "session"
    BY <1>1, <1>3, <2>1, <2>3, UpReceives
  <2>4. CASE UNCHANGED <<srv, gotUp>>
    BY <1>3, <1>4, <2>1, <2>4
  <2>5. CASE EndSession /\ odd.broken
    BY <1>3, <2>1, <2>5, UpEnds
  <2>6. QED
    BY <2>2, <2>3, <2>4, <2>5 DEF ServerReads
<1>11. CASE ServerEof
  <2>1. /\ srv.pc = "session" /\ srv.pending = <<>> /\ up = <<>> /\ upEof /\ EndSession
        /\ UNCHANGED <<upEof, cut, sentUp, odd>>
    BY <1>11 DEF ServerEof
  <2>2. cut \/ gotUp = Data("up", sentUp)
    BY <2>1, AllForwarded
  <2>3. QED
    BY <1>3, <2>1, <2>2, UpEnds
<1>12. CASE HandshakeTimeout \/ TelegramEnds
  <2>1. PICK s, t, x, y : s = srv /\ t = srv' /\ x = "gone" /\ y = TRUE
    OBVIOUS
  <2>2. SrvIs(s) /\ t = SrvLate(s, x, y)
    BY <1>12, <2>1 DEF Inv, SrvOK, HandshakeTimeout, TelegramEnds, SrvLate
  <2>3. t.ended = s.ended
    BY <2>2, SrvSets
  <2>4. QED
    BY <1>3, <1>5, <1>12, <2>1, <2>3 DEF HandshakeTimeout, TelegramEnds
<1>13. CASE Cut
  BY <1>3, <1>4, <1>13 DEF Cut
<1>14. ASSUME NEW n \in DownWrites, ServerWrite(n) PROVE UpPipe!Sender
  <2>1. srv.pc = "session" /\ UNCHANGED <<upEof, cut, sentUp, gotUp, odd>>
    BY <1>14 DEF ServerWrite
  <2>2. srv'.pc = "session"
    <3>1. PICK s, t, l, g, d, m : /\ s = srv /\ t = srv' /\ l = link /\ d = sentDown /\ m = n
                                  /\ g = Len(gotUp)
      OBVIOUS
    <3>2. g \in Nat /\ d \in Nat /\ m \in Nat /\ SessionIs(s, l, g, d) /\ t = SessionDown(s, m)
      BY <1>14, <2>1, <3>1, Numbers, HopAssumption
      DEF ServerWrite, SessionDown, Inv, DataOK, SrvOK
    <3>3. SessionIs(t, l, g, d + m) /\ t.pc = s.pc
      BY ONLY <3>2, SessionGoesDown
    <3>4. QED
      BY <2>1, <3>1, <3>3
  <2>3. QED
    BY <1>1, <1>5, <2>1, <2>2, StillOpen
<1>15. CASE Over \/ UNCHANGED vars
  BY <1>15 DEF Over, vars, UpPipe!pipeVars
<1>16. QED
  BY <1>3, <1>6, <1>8, <1>9, <1>10, <1>11, <1>12, <1>13, <1>14, <1>15 DEF Next, Receive

(* The same for the downward pipe.                                         *)
LEMMA DownStep == ~Scanner /\ Inv /\ [Next]_vars => [DownPipe!Next]_(DownPipe!pipeVars)
<1> SUFFICES ASSUME ~Scanner, Inv, [Next]_vars PROVE [DownPipe!Next]_(DownPipe!pipeVars)
  OBVIOUS
<1>1. Inv'
  BY NextInv
<1>2. sentDown \in Nat
  BY Numbers DEF Inv
<1>3. ASSUME DownPipe!Sender \/ DownPipe!End \/ [DownPipe!Receive]_(DownPipe!pipeVars)
      PROVE  [DownPipe!Next]_(DownPipe!pipeVars)
  BY <1>3 DEF DownPipe!Next
<1>4. ASSUME cli'.ended = cli.ended, UNCHANGED <<gotDown, sentDown>>,
             downEof => downEof', cut => cut'
      PROVE  DownPipe!Sender
  BY <1>1, <1>2, <1>4, DownSends
<1>5. ASSUME NEW told, ClientGone(told), told \in BOOLEAN PROVE cli'.ended = told
  <2>1. PICK c, d, x, y : c = cli /\ d = cli' /\ x = "gone" /\ y = told
    OBVIOUS
  <2>2. CliIs(c) /\ d = CliLeft(c, x, y)
    BY <1>5, <2>1 DEF Inv, CliOK, ClientGone, CliLeft
  <2>3. d.ended = y
    BY <2>2, CliSets
  <2>4. QED
    BY <2>1, <2>3
<1>6. CASE DrainEof \/ ClientClose
  <2>1. ClientGone(FALSE) /\ cli.pc # "gone" /\ UNCHANGED <<gotDown, sentDown, downEof, cut>>
    BY <1>6 DEF DrainEof, ClientClose
  <2>2. cli'.ended = cli.ended
    BY <1>1, <1>5, <2>1, StillOpen
  <2>3. QED
    BY <1>3, <1>4, <2>1, <2>2
<1>7. CASE ClientHello
  <2>1. PICK c, d, x : c = cli /\ d = cli' /\ x = "drain"
    OBVIOUS
  <2>2. CliIs(c) /\ d = CliPc(c, x)
    BY <1>7, <2>1 DEF Inv, CliOK, ClientHello, CliPc
  <2>3. d.ended = c.ended
    BY <2>2, CliSets
  <2>4. QED
    BY <1>3, <1>4, <1>7, <2>1, <2>3 DEF ClientHello
<1>8. ASSUME SendInit PROVE DownPipe!Sender
  <2>1. PICK c, d, x, y : c = cli /\ d = cli' /\ x = "open" /\ y = cli.handshake
    OBVIOUS
  <2>2. CliIs(c) /\ (d = CliPc(c, x) \/ d = CliPcOut(c, x, y))
    BY <1>8, <2>1 DEF Inv, CliOK, SendInit, CliPc, CliPcOut
  <2>3. d.ended = c.ended
    BY <2>2, CliSets
  <2>4. QED
    BY <1>4, <1>8, <2>1, <2>3 DEF SendInit
<1>9. CASE Drain
  <2>1. CASE SendInit
    BY <1>3, <1>8, <2>1
  <2>2. CASE /\ ClientGone(FALSE)
             /\ UNCHANGED <<link, srv, up, downEof, cut, sentUp, gotUp, sentDown, gotDown,
                            odd, pads, padded>>
    <3>1. cli'.ended = cli.ended
      BY <1>1, <1>5, <1>9, <2>2, StillOpen DEF Drain
    <3>2. QED
      BY <1>3, <1>4, <2>2, <3>1
  <2>3. CASE /\ cli' = [cli EXCEPT !.records = @ + 1]
             /\ UNCHANGED <<link, srv, up, upEof, downEof, cut, sentUp, gotUp, sentDown,
                            gotDown, odd, pads, padded>>
    <3>1. PICK c, d, x : c = cli /\ d = cli' /\ x = cli.records + 1
      OBVIOUS
    <3>2. CliIs(c) /\ d = CliRecords(c, x)
      BY <2>3, <3>1 DEF Inv, CliOK, CliRecords
    <3>3. d.ended = c.ended
      BY <3>2, CliSets
    <3>4. QED
      BY <1>3, <1>4, <2>3, <3>1, <3>3
  <2>4. QED
    BY <1>9, <2>1, <2>2, <2>3 DEF Drain
<1>10. CASE ClientRead
  <2>1. ClientReads /\ cli.pc = "open"
    BY <1>10, ClientReadInv DEF ClientRead
  <2>2. QED
    BY <1>1, <1>3, <2>1, DownReceives
<1>11. CASE ClientEof
  <2>1. /\ cli.pc = "open" /\ down = <<>> /\ downEof /\ ClientGone(TRUE)
        /\ UNCHANGED <<downEof, cut, sentDown, gotDown>>
    BY <1>11 DEF ClientEof
  <2>2. cli'.ended /\ ~cli.ended
    BY <1>1, <1>5, <2>1, StillOpen
  <2>3. cut \/ gotDown = Data("down", sentDown)
    <3> SUFFICES ASSUME ~cut PROVE gotDown = Data("down", sentDown)
      OBVIOUS
    <3>1. PICK f, g, s : f = DownStream(link) /\ g = Len(gotDown) /\ s = sentDown
      OBVIOUS
    <3>2. g \in Nat /\ s \in Nat /\ g <= s /\ IsStream(f) /\ OnWire(f, down, g, s)
          /\ gotDown = Data("down", g)
      BY <1>2, <2>1, <3>1, StreamsAre DEF Inv, DataOK, DownOK
    <3>3. CASE FakeTLS
      <4>1. g = s
        BY <2>1, <3>2, <3>3, LaidNone DEF OnWire
      <4>2. QED
        BY <3>1, <3>2, <4>1
    <3>4. CASE ~FakeTLS
      <4>1. Piece(f, g, s) = <<>>
        BY <2>1, <3>2, <3>4 DEF OnWire
      <4>2. g = s
        BY <3>2, <4>1, PieceEmpty
      <4>3. QED
        BY <3>1, <3>2, <4>2
    <3>5. QED
      BY <3>3, <3>4
  <2>4. DownPipe!End
    BY <2>1, <2>2, <2>3 DEF DownPipe!End
  <2>5. QED
    BY <1>3, <2>4
<1>12. ASSUME NEW n \in UpWrites, ClientWrite(n) PROVE DownPipe!Sender
  <2>1. PICK c, d, x, y : /\ c = cli /\ d = cli' /\ x = Advance(cli.enc, n)
                          /\ y = cli.out \o apply_keystream(cli.enc, Fresh("up", sentUp, n))
    OBVIOUS
  <2>2. CliIs(c) /\ (d = CliEnc(c, x) \/ d = CliEncOut(c, x, y))
    BY <1>12, <2>1 DEF Inv, CliOK, ClientWrite, CliEnc, CliEncOut
  <2>3. d.ended = c.ended
    BY <2>2, CliMoves
  <2>4. QED
    BY <1>4, <1>12, <2>1, <2>3 DEF ClientWrite
<1>13. ASSUME NEW n \in Frames, Frame(n) PROVE DownPipe!Sender
  <2>1. PICK c, d, x : /\ c = cli /\ d = cli' /\ x = SubSeq(cli.out, n + 1, Len(cli.out))
    OBVIOUS
  <2>2. CliIs(c) /\ d = CliOut(c, x)
    BY <1>13, <2>1 DEF Inv, CliOK, Frame, CliOut
  <2>3. d.ended = c.ended
    BY <2>2, CliMoves
  <2>4. QED
    BY <1>4, <1>13, <2>1, <2>3 DEF Frame
<1>14. ASSUME NEW type \in {"ccs", "alert"}, OddRecord(type) PROVE DownPipe!Sender
  BY <1>4, <1>14 DEF OddRecord
<1>15. CASE Client
  BY <1>3, <1>6, <1>7, <1>8, <1>9, <1>10, <1>11, <1>12, <1>13, <1>14, <1>15, NoScan
  DEF Client, PlainInit
<1>16. ASSUME UNCHANGED <<cli, cut, sentDown, gotDown>>, downEof => downEof'
       PROVE  DownPipe!Sender
  BY <1>4, <1>16
<1>17. CASE ServerHello \/ NoHandshake \/ Swallow
  BY <1>3, <1>16, <1>17 DEF ServerHello, NoHandshake, Swallow, ServerGone
<1>18. CASE ServerInit
  <2>1. ASSUME NEW h, NEW p, Parsed(h, p) PROVE downEof' = downEof
    BY <2>1 DEF Parsed
  <2>2. ASSUME NEW q, Fill(q) PROVE downEof' = downEof
    BY <2>1, <2>2 DEF Fill
  <2>3. downEof => downEof'
    BY <1>18, <2>1, <2>2 DEF ServerInit, ServerGone
  <2>4. QED
    BY <1>3, <1>16, <1>18, <2>3 DEF ServerInit
<1>19. CASE ServerRead
  <2>1. ASSUME NEW q, Forward(q) PROVE downEof' = downEof
    BY <2>1 DEF Forward
  <2>2. downEof => downEof'
    BY <1>19, <2>1 DEF ServerRead, EndSession, ServerGone
  <2>3. QED
    BY <1>3, <1>16, <1>19, <2>2 DEF ServerRead
<1>20. CASE ServerEof \/ HandshakeTimeout \/ TelegramEnds
  BY <1>3, <1>16, <1>20
  DEF ServerEof, EndSession, ServerGone, HandshakeTimeout, TelegramEnds
<1>21. CASE Cut
  BY <1>3, <1>4, <1>21 DEF Cut
<1>22. ASSUME NEW n \in DownWrites, ServerWrite(n) PROVE DownPipe!Sender
  <2>1. /\ srv.pc = "session" /\ ~cut /\ sentDown' = sentDown + n
        /\ UNCHANGED <<cli, downEof, cut, gotDown>>
    BY <1>22 DEF ServerWrite
  <2>2. ~downEof
    BY <2>1 DEF Inv, EofOK
  <2>3. sentDown <= sentDown'
    BY <1>2, <2>1, HopAssumption
  <2>4. QED
    BY <1>1, <2>1, <2>2, <2>3, DownSends
<1>23. CASE Over \/ UNCHANGED vars
  BY <1>23 DEF Over, vars, DownPipe!pipeVars
<1>24. QED
  BY <1>3, <1>15, <1>17, <1>18, <1>19, <1>20, <1>21, <1>22, <1>23 DEF Next, Receive

(* Through a scanner's link nothing passes.                                *)
LEMMA ScanPipes ==
  ASSUME Scanner, ScanInv, [Next]_vars
  PROVE  UpPipe!Sender /\ DownPipe!Sender
<1>1. ScanInv' /\ Ends
  BY ScanNext
<1>2. /\ sentUp = 0 /\ sentUp' = 0 /\ sentDown = 0 /\ sentDown' = 0
      /\ gotUp' = gotUp /\ gotDown' = gotDown
  BY <1>1 DEF ScanInv, ScanData
<1>3. srv'.ended = srv.ended /\ cli'.ended = cli.ended
  BY <1>1 DEF ScanInv, ScanCli, ScanSrv
<1>4. \A dir : /\ UpPipe!IsPrefix(Data(dir, 0), Data(dir, 0))
              /\ DownPipe!IsPrefix(Data(dir, 0), Data(dir, 0))
  BY PrefixOfData
<1>5. UpPipe!Sender
  BY <1>1, <1>2, <1>3, <1>4 DEF Ends, UpPipe!Sender
<1>6. DownPipe!Sender
  BY <1>1, <1>2, <1>3, <1>4 DEF Ends, DownPipe!Sender
<1>7. QED
  BY <1>5, <1>6

(***************************************************************************)
(* The upward direction of a link is a pipe: for any client, framing and   *)
(* schedule, what Telegram decrypts is always a beginning of what the      *)
(* client sent, through both layers of encryption and the records, and     *)
(* bridge_relay is told of the end only when all of it has been forwarded, *)
(* the connection was cut or the client broke the framing.                 *)
(***************************************************************************)
THEOREM UpIsAPipe == Spec => ImplementsUpPipe
<1>1. Init => UpPipe!Init
  BY EmptyFacts DEF Init, UpPipe!Init
<1>2. Holding /\ [Next]_vars => [UpPipe!Next]_(UpPipe!pipeVars)
  BY UpStep, ScanPipes DEF Holding, UpPipe!Next
<1>3. QED
  BY <1>1, <1>2, HopInvariance, PTL DEF Spec, ImplementsUpPipe, UpPipe!Spec

(***************************************************************************)
(* So is the downward direction: what the client decrypts is a beginning   *)
(* of what Telegram sent, and it is told of the end only after the last    *)
(* byte or a cut, because write_tls_appdata never makes a record that      *)
(* read_tls_appdata takes for the end.                                     *)
(***************************************************************************)
THEOREM DownIsAPipe == Spec => ImplementsDownPipe
<1>1. Init => DownPipe!Init
  BY EmptyFacts DEF Init, DownPipe!Init
<1>2. Holding /\ [Next]_vars => [DownPipe!Next]_(DownPipe!pipeVars)
  BY DownStep, ScanPipes DEF Holding, DownPipe!Next
<1>3. QED
  BY <1>1, <1>2, HopInvariance, PTL DEF Spec, ImplementsDownPipe, DownPipe!Spec

=============================================================================
