---------------------------- MODULE Obfuscation ----------------------------
(***************************************************************************)
(* The obfuscation layer, crypto.rs, symbolically.  A byte is a value and  *)
(* the set of keystream bytes it has been XORed with; XORing one in twice  *)
(* takes it out again.  SHA-256 is a free constructor and AES-CTR gives a  *)
(* keystream byte of its own for every key, IV and offset.                 *)
(***************************************************************************)
EXTENDS Integers, Sequences, SequencesExt, FiniteSetsExt

CONSTANTS
  SkipLen,     \* SKIP_LEN: 8
  PrekeyLen,   \* PREKEY_LEN: 32
  IvLen        \* IV_LEN: 16

ASSUME LayoutAssumption ==
  SkipLen \in Nat /\ PrekeyLen \in Nat \ {0} /\ IvLen \in Nat \ {0}

(* The tag, the DC index and the padding are one byte each here.           *)
TagPos == SkipLen + PrekeyLen + IvLen + 1
DcPos == TagPos + 1
PadPos == TagPos + 2
HandshakeLen == PadPos

Tags == {"abridged", "intermediate", "padded"}

Byte(kind, n) == [v |-> <<kind, n>>, ks |-> {}]

(* fill_bytes: fresh bytes, named after whoever drew them.                 *)
Random(who) == [i \in 1..HandshakeLen |-> Byte(who, i)]

-----------------------------------------------------------------------------
make_cipher(key, iv) == [key |-> key, iv |-> iv, at |-> 1]

Unit(c, i) == <<c.key, c.iv, c.at + i - 1>>

Xor(byte, unit) == [byte EXCEPT !.ks = SymDiff(@, {unit})]

(* The result of apply_keystream, the cipher after it, and what it used.   *)
apply_keystream(c, data) == [i \in 1..Len(data) |-> Xor(data[i], Unit(c, i))]
Advance(c, n) == [c EXCEPT !.at = @ + n]
Units(c, n) == {Unit(c, i) : i \in 1..n}

Sha256(prekey, secret) == [raw |-> prekey, secret |-> secret]
RawKey(prekey) == [raw |-> prekey, secret |-> "none"]

PrekeyIv(h) == SubSeq(h, SkipLen + 1, SkipLen + PrekeyLen + IvLen)
Prekey(pi) == SubSeq(pi, 1, PrekeyLen)
Iv(pi) == SubSeq(pi, PrekeyLen + 1, PrekeyLen + IvLen)

Keyed(pi, secret) == make_cipher(Sha256(Prekey(pi), secret), Iv(pi))
Raw(pi) == make_cipher(RawKey(Prekey(pi)), Iv(pi))

(* Fault: the keystream of the handshake is used again.                    *)
NoFastForward(c) == c

FastForward(c) == Advance(c, HandshakeLen)

-----------------------------------------------------------------------------
(* i16, two's complement.  The prover knows subtraction but no unary       *)
(* minus.                                                                  *)
IsI16(n) == n \in Int /\ 0 <= n + 32768 /\ n + 32768 < 65536
AsI16(n) == ((n + 32768) % 65536) - 32768
unsigned_abs(n) == IF n < 0 THEN 0 - n ELSE n

(* The 64 bytes with tag, DC index and padding under the keystream.        *)
Sealed(rnd, c, proto, dc) ==
  [rnd EXCEPT ![TagPos] = Xor(Byte("tag", proto), Unit(c, TagPos)),
              ![DcPos] = Xor(Byte("dc", dc), Unit(c, DcPos))]

generate_relay_init(proto, dc, rnd) ==
  LET c == Raw(PrekeyIv(rnd))
  IN [Sealed(rnd, c, proto, dc)
        EXCEPT ![PadPos] = Xor(Byte("pad", 0), Unit(c, PadPos))]

(* The two padding bytes of a client handshake stay as drawn.              *)
generate_client_handshake(secret, dc, proto, rnd) ==
  LET c == Keyed(PrekeyIv(rnd), secret)
      handshake == Sealed(rnd, c, proto, dc)
      pi == PrekeyIv(handshake)
  IN [handshake |-> handshake,
      enc |-> FastForward(Keyed(pi, secret)),
      dec |-> Keyed(Reverse(pi), secret)]

-----------------------------------------------------------------------------
Rejected == [ok |-> FALSE]

(* What a handshake says under a cipher made from it.                      *)
Opened(h, c) ==
  LET plain == apply_keystream(c, h)
      tag == plain[TagPos]
      dc == plain[DcPos]
  IN IF tag.ks = {} /\ tag.v[1] = "tag" /\ tag.v[2] \in Tags
     THEN [ok |-> TRUE, proto |-> tag.v[2], dc |-> dc.v[2]]
     ELSE Rejected

parse_handshake(h, secret) ==
  LET o == Opened(h, Keyed(PrekeyIv(h), secret))
  IN IF ~o.ok THEN Rejected
     ELSE [ok |-> TRUE, proto |-> o.proto, secret |-> secret,
           dc_id |-> unsigned_abs(o.dc), is_media |-> o.dc < 0,
           prekey_and_iv |-> PrekeyIv(h)]

(* Fault: the sign of a media DC is lost.                                  *)
DcIdxUnsigned(info) == AsI16(info.dc_id)

(* dc_idx of handle_client_with_runtime; the negation wraps in a release   *)
(* build.                                                                  *)
DcIdx(info) ==
  IF info.is_media THEN AsI16(0 - AsI16(info.dc_id)) ELSE AsI16(info.dc_id)

build_connection_ciphers(pi, secret, relayInit) ==
  LET relay == PrekeyIv(relayInit)
  IN [clt_dec |-> FastForward(Keyed(pi, secret)),
      clt_enc |-> Keyed(Reverse(pi), secret),
      tg_enc |-> FastForward(Raw(relay)),
      tg_dec |-> Raw(Reverse(relay))]

=============================================================================
