------------------------- MODULE MCServerLifecycle -------------------------
(* Two calls; grace by default, given, and none; a lame duck shorter and     *)
(* longer than a probe's period; calls that may take longer than the grace;  *)
(* and setups that are killed as they flush, or as Run still waits.          *)
EXTENDS ServerLifecycle

Setup(grace, lameDuck, callTimeout, flush, killAfter) ==
    [grace |-> grace, lameDuck |-> lameDuck, callTimeout |-> callTimeout, flush |-> flush, killAfter |-> killAfter]

MCSetups ==
    {Setup(0, 3, 4, 1, 8), Setup(3, 0, 2, 1, 6), Setup(2, 3, 1, 0, 6), Setup(-1, 1, 2, 1, 3), Setup(3, 1, 2, 2, 5), Setup(3, 2, 4, 1, 4)}
=============================================================================
