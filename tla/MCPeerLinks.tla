---------------------------- MODULE MCPeerLinks ----------------------------
(***************************************************************************)
(* A small instance of PeerLinks for TLC.  The first step of a behaviour   *)
(* can only be a join, and the peers are alike: the one that joins first   *)
(* may be called 1, and what is checked holds of the mirror images, too.   *)
(***************************************************************************)
EXTENDS PeerLinks

OneIsFirst == starts = 0 => \A p \in Peers \ {1} : client'[p] = client[p]
=============================================================================
