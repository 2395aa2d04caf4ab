---------------------------- MODULE MCRoomServer ----------------------------
(* Small instances of RoomServer for TLC. *)
EXTENDS RoomServer, TLC

ConnSymmetry == Permutations(Conns)
=============================================================================
