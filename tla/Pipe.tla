-------------------------------- MODULE Pipe --------------------------------
(***************************************************************************)
(* What one direction of a link between two proxies promises: bytes come   *)
(* out in the order they went in, none lost, changed, doubled or made up,  *)
(* and the end of the stream is reported only after the last byte of a     *)
(* closed stream, unless the pipe was broken.                              *)
(***************************************************************************)
EXTENDS SequencesExt

VARIABLES
  sent,    \* bytes that went in
  got,     \* bytes that came out
  closed,  \* the sender is done
  broken,  \* the connection was cut, or the sender broke the framing
  ended    \* the receiver was told that the stream is over

pipeVars == <<sent, got, closed, broken, ended>>

Init ==
  /\ sent = <<>> /\ got = <<>>
  /\ ~closed /\ ~broken /\ ~ended

(* The sender adds bytes, may be done, may break the pipe: in any order,   *)
(* as the receiver sees it, but nothing is taken back.                     *)
Sender ==
  /\ IsPrefix(sent, sent')
  /\ closed => closed' /\ sent' = sent
  /\ broken => broken'
  /\ UNCHANGED <<got, ended>>

Receive ==
  /\ ~ended
  /\ IsPrefix(got, got') /\ got' # got
  /\ IsPrefix(got', sent)
  /\ UNCHANGED <<sent, closed, broken, ended>>

End ==
  /\ ~ended /\ ended'
  /\ broken \/ (closed /\ got = sent)
  /\ UNCHANGED <<sent, got, closed, broken>>

Next == Sender \/ Receive \/ End

Spec == Init /\ [][Next]_pipeVars

=============================================================================
