------------------------------ MODULE Splitter ------------------------------
(***************************************************************************)
(* MsgSplitter of splitter.rs: cuts the re-encrypted client stream into    *)
(* MTProto packets, one per WebSocket message.  The splitter's state is a  *)
(* record; split and flush are functions from a state to the next one and  *)
(* the parts they return.                                                  *)
(*                                                                         *)
(* AES-CTR is replaced by a keystream that shifts every byte by an amount  *)
(* depending on its position, so that a cipher out of step reads garbage,  *)
(* as the real one would.  The buffers' spare capacity (trim_idle_buffers) *)
(* is left out: it never changes their content.                            *)
(***************************************************************************)
EXTENDS Integers, Sequences

Byte == 0..255

Encrypted(bytes, at) == [i \in 1..Len(bytes) |-> (bytes[i] + at + i) % 256]
Decrypted(bytes, at) == [i \in 1..Len(bytes) |-> (bytes[i] - at - i) % 256]

NeedMore == -1
Unknown == 0

(* What both parsers do with the length they read: none is Some(0), and a  *)
(* packet that has not arrived in full is None.                            *)
Whole(plain, header_len, payload_len) ==
  CASE payload_len = 0                            -> Unknown
    [] Len(plain) < header_len + payload_len      -> NeedMore
    [] OTHER                                      -> header_len + payload_len

(* Fault: a packet with the long header is taken to have the short one.    *)
AbridgedLenOneByteHeader(plain) ==
  IF plain[1] \in {127, 255}
  THEN IF Len(plain) < 4 THEN NeedMore
       ELSE Whole(plain, 1, (plain[2] + 256 * plain[3] + 65536 * plain[4]) * 4)
  ELSE Whole(plain, 1, (plain[1] % 128) * 4)

abridged_len(plain) ==
  IF plain[1] \in {127, 255}
  THEN IF Len(plain) < 4 THEN NeedMore
       ELSE Whole(plain, 4, (plain[2] + 256 * plain[3] + 65536 * plain[4]) * 4)
  ELSE Whole(plain, 1, (plain[1] % 128) * 4)

intermediate_len(plain) ==
  IF Len(plain) < 4 THEN NeedMore
  ELSE Whole(plain, 4, plain[1] + 256 * plain[2] + 65536 * plain[3]
                         + 16777216 * (plain[4] % 128))

next_packet_len(proto, plain_buf, offset) ==
  LET plain == SubSeq(plain_buf, offset + 1, Len(plain_buf))
  IN CASE plain = <<>>          -> NeedMore
       [] plain # <<>> /\ proto = "abridged" -> abridged_len(plain)
       [] OTHER                 -> intermediate_len(plain)

(* The loop of split: where the whole packets in the buffer end.           *)
PacketEnds(proto, plain_buf) ==
  LET from[o \in 0..Len(plain_buf)] ==
        LET len == next_packet_len(proto, plain_buf, o)
        IN IF len \in {NeedMore, Unknown} THEN <<>>
           ELSE <<o + len>> \o from[o + len]
  IN from[0]

-----------------------------------------------------------------------------
NewSplitter(proto) ==
  [proto |-> proto, dec |-> 0, cipher_buf |-> <<>>, plain_buf |-> <<>>,
   disabled |-> FALSE]

Split(s, encrypted) ==
  LET plain == s.plain_buf \o Decrypted(encrypted, s.dec)
      cipher == s.cipher_buf \o encrypted
      ends == PacketEnds(s.proto, plain)
      starts == <<0>> \o ends
      consumed == starts[Len(starts)]
      parts == [i \in 1..Len(ends) |-> SubSeq(cipher, starts[i] + 1, ends[i])]
      rest(buf) == SubSeq(buf, consumed + 1, Len(buf))
      next == [s EXCEPT !.dec = @ + Len(encrypted)]
  IN CASE encrypted = <<>> -> [s |-> s, parts |-> <<>>]
       [] encrypted # <<>> /\ s.disabled -> [s |-> s, parts |-> <<encrypted>>]
       [] encrypted # <<>> /\ ~s.disabled
            /\ next_packet_len(s.proto, plain, consumed) = Unknown ->
            [s |-> [next EXCEPT !.cipher_buf = <<>>, !.plain_buf = <<>>,
                                !.disabled = TRUE],
             parts |-> Append(parts, rest(cipher))]
       [] OTHER ->
            [s |-> [next EXCEPT !.cipher_buf = rest(cipher),
                                !.plain_buf = rest(plain)],
             parts |-> parts]

Flush(s) ==
  [s |-> [s EXCEPT !.cipher_buf = <<>>, !.plain_buf = <<>>],
   parts |-> IF s.cipher_buf = <<>> THEN <<>> ELSE <<s.cipher_buf>>]

=============================================================================
