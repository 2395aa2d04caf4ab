---------------------------- MODULE RoomListView ----------------------------
(***************************************************************************)
(* What the room list shown by a client promises: it is always one whole   *)
(* version of the server's list, and a later look never shows an earlier   *)
(* version, until the connection ends and the client forgets the list.     *)
(***************************************************************************)
EXTENDS Naturals, Sequences

CONSTANTS Listings,   \* the room lists that the server can have
          NoRooms     \* the list without rooms

VARIABLES versions,   \* the lists the server has had, by revision
          shownRev,   \* the revision the client shows, 0: none
          shown       \* the list it shows

vars == <<versions, shownRev, shown>>

Init ==
  /\ versions = <<NoRooms>>
  /\ shownRev = 0
  /\ shown = NoRooms

Change ==
  /\ \E l \in Listings : versions' = Append(versions, l)
  /\ UNCHANGED <<shownRev, shown>>

Show ==
  /\ shownRev' \in 1 .. Len(versions)
  /\ shownRev' >= shownRev
  /\ shown' = versions[shownRev']
  /\ UNCHANGED versions

Forget ==
  /\ shownRev' = 0
  /\ shown' = NoRooms
  /\ UNCHANGED versions

Next == Change \/ Show \/ Forget

Spec == Init /\ [][Next]_vars
=============================================================================
