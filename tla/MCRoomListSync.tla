--------------------------- MODULE MCRoomListSync ---------------------------
(* RoomListSync for TLC: two of three rooms at a time, each on a page of   *)
(* its own, so that a snapshot takes two pages and a delta up to four      *)
(* changes.                                                                *)
EXTENDS RoomListSync

CONSTANT few
=============================================================================
