------------------------------ MODULE MCBridge ------------------------------
(* Instances of Bridge for TLC: what clients send.  Payload bytes look like *)
(* headers, so that a parser out of step would be noticed.                  *)
EXTENDS Bridge

(* A word with a short header and one with the long header, both asking    *)
(* for a quick acknowledgement.                                            *)
Abridged == [proto |-> "abridged", ends |-> <<5, 13>>,
             bytes |-> <<129, 2, 1, 1, 1, 255, 1, 0, 0, 1, 2, 1, 1>>]

(* Two packets, the first with the quick-acknowledgement bit.              *)
Intermediate == [proto |-> "intermediate", ends |-> <<7, 13>>,
                 bytes |-> <<3, 0, 0, 128, 1, 2, 0, 2, 0, 0, 0, 1, 1>>]

(* A packet, then a length of zero, which disables the splitter.           *)
Zero == [proto |-> "abridged", ends |-> <<5>>,
         bytes |-> <<1, 1, 1, 1, 1, 0, 1, 2>>]

AllStreams == {Abridged, Intermediate, Zero}
ShortStreams == {Zero}
TwoMessages == <<2, 1>>
OneMessage == <<1>>

=============================================================================
