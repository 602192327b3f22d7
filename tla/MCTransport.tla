---------------------------- MODULE MCTransport ----------------------------
(* One message with two retries, so that a copy can wait while the node      *)
(* handles another; copies of one message and copies of two are alike to the *)
(* service.  One place for requests, so that the channel is full soon.       *)
EXTENDS Transport

CONSTANT m1
One == {m1}
MCMessages == One
=============================================================================
