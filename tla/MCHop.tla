------------------------------- MODULE MCHop -------------------------------
(* An instance of Hop for TLC: an init of seven bytes, records of up to    *)
(* seven, one byte of headroom.  One direction carries most of a link's    *)
(* data; the DC indices are at the limits of i16.                          *)
EXTENDS Hop

Way(kind, peer, secret, host, proto, dc, u, d) ==
  [kind |-> kind, peer |-> peer, secret |-> secret, host |-> host,
   proto |-> proto, dc |-> dc, up |-> u, down |-> d]

(* What a scanner has: a recorded hello, hellos of its own and for another *)
(* host, its own init, whole and in part, and records of every other kind. *)
OwnInit == generate_client_handshake("s3", 2, "padded", Random("scan")).handshake

MCProbes ==
  { client_hello("s1", "host"), client_hello("s3", "host"),
    client_hello("s2", "other"),
    AppData(OwnInit), AppData(SubSeq(OwnInit, 1, 3)), AppData(<<>>),
    AppData(OwnInit \o OwnInit),
    Record("ccs", "1.2", <<Byte("ccs", 1)>>),
    Record("other", "other", <<Byte("other", 1)>>) }

Scanning(kind, record) ==
  [kind |-> kind, peer |-> "scanner", secret |-> "s3", host |-> "host",
   proto |-> "padded", dc |-> 2, up |-> 0, down |-> 1, opening |-> record]

MCLinks ==
  { Way(kind, peer, "s1", "host", "padded", -32768, 8, 1) :
      kind \in {"plain", "faketls"}, peer \in {"own", "any"} }
  \union
  { Way(kind, "own", "s2", "host", "abridged", -2, 1, 10) :
      kind \in {"plain", "faketls"} }
  \union
  { Way(kind, "any", "s2", "host", "abridged", 32767, 1, 10) :
      kind \in {"plain", "faketls"} }
  \union
  { Way(kind, peer, "s3", "host", "padded", -2, 1, 1) :
      kind \in {"plain", "faketls"}, peer \in {"own", "any"} }
  \union
  { Way("faketls", peer, "s1", "other", "intermediate", 0, 1, 1) :
      peer \in {"own", "any"} }
  \union
  { Scanning(kind, record) : kind \in {"plain", "faketls"}, record \in MCProbes }

=============================================================================
