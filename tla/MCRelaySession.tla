-------------------------- MODULE MCRelaySession --------------------------
(* Two calls of one session; a channel of one is full after one message.   *)
EXTENDS RelaySession

CONSTANTS c1, c2
OneCall == {c1}
TwoCalls == {c1, c2}
=============================================================================
