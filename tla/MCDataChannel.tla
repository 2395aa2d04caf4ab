---------------------------- MODULE MCDataChannel ----------------------------
(* DataChannel for TLC: three connections at a time. *)
EXTENDS DataChannel

CONSTANTS l1, l2, l3

MCLinks == {l1, l2, l3}
=============================================================================
