------------------------------ MODULE MCEchoServer ------------------------------
(* One client that sends two words or a long one, one that sends a short   *)
(* one, and one that only comes and goes.                                  *)
EXTENDS EchoServer, TLC

CONSTANTS c1, c2, c3

Sends == (c1 :> 3) @@ (c2 :> 1) @@ (c3 :> 0)
==============================================================================
