----------------------------- MODULE MCWsConnect -----------------------------
(* An instance of WsConnect for TLC: the configured zones.                  *)
EXTENDS WsConnect

TwoZones == <<"a.example", "b-1.example">>

=============================================================================
