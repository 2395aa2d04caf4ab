---------------------------- MODULE RoomListSync ----------------------------
(***************************************************************************)
(* How a client keeps the room list: snapshots in pages, answering         *)
(* MSG_LIST_ROOMS, and deltas pushed after every change, both numbered by  *)
(* the server's revision.  GUI and CLI handle them alike.                  *)
(*                                                                         *)
(* One client is enough: the server sends to each session on its own.      *)
(* What a record says of a room is a member of Infos.  Records have one    *)
(* size, so a page is full after PageCap of them and a delta after         *)
(* DeltaBudget.  A list message that the send budget refuses is lost while *)
(* the session goes on (only required control responses end it); it leaves *)
(* the wire unseen.  versions only records what the list was at each       *)
(* revision.                                                               *)
(***************************************************************************)
EXTENDS Integers, Sequences, FiniteSets

CONSTANTS RoomIds, Infos, NoRoom,
          MaxRooms,       \* m_limits.maxRooms
          PageCap,        \* records that fit in ROOM_LIST_PAGE_PAYLOAD
          DeltaBudget,    \* changes that fit in ROOM_LIST_PAGE_PAYLOAD
          MaxRevision,    \* bound on the changes of the list
          MaxUnderWay,    \* bound on the messages under way when a refresh is made
          MaxRefused      \* bound on the refused messages

\* --max-rooms is at most 128 and a delta names each room of the old and of
\* the new list at most once, in at most 79 bytes: 256 of them need 20242 of
\* 60000 bytes.
ASSUME ListAssumption ==
  /\ RoomIds \subseteq Nat /\ IsFiniteSet(RoomIds)
  /\ NoRoom \notin Infos
  /\ PageCap \in Nat \ {0}
  /\ {MaxRooms, DeltaBudget, MaxRevision, MaxUnderWay, MaxRefused} \subseteq Nat
  /\ 2 * MaxRooms <= DeltaBudget

VARIABLES server,     \* its rooms, m_publishedRooms and m_roomListRevision
          versions,   \* the list at each revision
          up,         \* whether the client is logged in
          requests,   \* MSG_LIST_ROOMS on their way
          wire,       \* list messages on their way, in order
          client,     \* its cache and the snapshot it is receiving
          refused     \* messages refused so far

vars == <<server, versions, up, requests, wire, client, refused>>

\* The rooms that a list shows.
Rooms(l) == {r \in RoomIds : l[r] # NoRoom}

Listings ==
  {l \in [RoomIds -> Infos \cup {NoRoom}] : Cardinality(Rooms(l)) <= MaxRooms}

NoRooms == [r \in RoomIds |-> NoRoom]

\* Some rooms of a list, as records of a message.
Partial(S) == UNION {[T -> S] : T \in SUBSET RoomIds}

Messages ==
  [type : {"push"}, base : Nat, rev : Nat, ops : Partial(Infos \cup {NoRoom})]
  \cup [type : {"page"}, rev : Nat, index : Nat, count : Nat, recs : Partial(Infos)]

ClientStates ==
  [cache : [RoomIds -> Infos \cup {NoRoom}], revision : Nat,
   snap  : [RoomIds -> Infos \cup {NoRoom}],
   snapRev : Nat, snapCount : Nat, snapNext : Nat]

Fresh ==
  [cache |-> NoRooms, revision |-> 0,
   snap |-> NoRooms, snapRev |-> 0, snapCount |-> 0, snapNext |-> 0]

Init ==
  /\ server = [rooms |-> NoRooms, published |-> NoRooms, revision |-> 1]
  /\ versions = <<NoRooms>>
  /\ up = FALSE
  /\ requests = 0
  /\ wire = <<>>
  /\ client = Fresh
  /\ refused = 0

-----------------------------------------------------------------------------
(* The server *)

\* ROOM_LIST_UPSERT for a new or changed room, ROOM_LIST_REMOVE for one gone.
Delta(old, new) == [r \in {q \in RoomIds : old[q] # new[q]} |-> new[r]]

Fits(d) == Cardinality(DOMAIN d) <= DeltaBudget

\* broadcastRoomListPush when the rooms are l: the revision counts the delta
\* even when it is too large and dropped.
Published(s, l) ==
  IF l = s.published THEN [s EXCEPT !.rooms = l]
  ELSE [rooms     |-> l,
        published |-> IF Fits(Delta(s.published, l)) THEN l ELSE s.published,
        revision  |-> s.revision + 1]

Push(s, l) ==
  IF l = s.published \/ ~Fits(Delta(s.published, l)) THEN <<>>
  ELSE <<[type |-> "push", base |-> s.revision, rev |-> s.revision + 1,
          ops |-> Delta(s.published, l)]>>

Recorded(s, l) ==
  IF l = s.published THEN versions ELSE Append(versions, l)

\* A page is filled in the order of the room ids before the next is begun.
PageOf(l, r) == Cardinality({q \in Rooms(l) : q < r}) \div PageCap

PageCount(l) ==
  IF Rooms(l) = {} THEN 1 ELSE (Cardinality(Rooms(l)) - 1) \div PageCap + 1

PageRecords(l, k) == [r \in {q \in Rooms(l) : PageOf(l, q) = k} |-> l[r]]

\* buildRoomListPages
Pages(s) ==
  [k \in 1 .. PageCount(s.rooms) |->
     [type |-> "page", rev |-> s.revision, index |-> k - 1,
      count |-> PageCount(s.rooms), recs |-> PageRecords(s.rooms, k - 1)]]

\* What the handler of some other session, or the timer's cleanup, can make
\* of the list: at most one room is new.
Successors(l) ==
  {n \in Listings : Cardinality(Rooms(n) \ Rooms(l)) <= 1}

\* What cleanupExpiredLeases can make of the list.
Expired(l) == {n \in Listings : Rooms(n) \subseteq Rooms(l)}

RoomsChange ==
  /\ \E l \in Successors(server.rooms) :
       /\ l # server.published => server.revision < MaxRevision
       /\ server' = Published(server, l)
       /\ versions' = Recorded(server, l)
       /\ wire' = IF up THEN wire \o Push(server, l) ELSE wire
  /\ UNCHANGED <<up, requests, client, refused>>

\* onListRooms
ListRooms ==
  /\ requests > 0
  /\ requests' = requests - 1
  /\ \E l \in Expired(server.rooms) :
       /\ l # server.published => server.revision < MaxRevision
       /\ server' = Published(server, l)
       /\ versions' = Recorded(server, l)
       /\ wire' = wire \o Push(server, l) \o Pages(Published(server, l))
  /\ UNCHANGED <<up, client, refused>>

\* appendSendBuffer finds no room for a message.
Refuse ==
  /\ wire # <<>>
  /\ refused < MaxRefused
  /\ refused' = refused + 1
  /\ wire' = Tail(wire)
  /\ UNCHANGED <<server, versions, up, requests, client>>

-----------------------------------------------------------------------------
(* The client *)

Overlay(l, recs) == [r \in RoomIds |-> IF r \in DOMAIN recs THEN recs[r] ELSE l[r]]

Cleared(c) ==
  [c EXCEPT !.snap = NoRooms, !.snapRev = 0, !.snapCount = 0, !.snapNext = 0]

\* BUG: the rooms of the snapshot before are kept.
BegunOver(c, m) ==
  IF m.index = 0
  THEN [c EXCEPT !.snapRev = m.rev, !.snapCount = m.count, !.snapNext = 0]
  ELSE c

\* Page 0 begins a new snapshot.
Begun(c, m) ==
  IF m.index = 0
  THEN [c EXCEPT !.snap = NoRooms, !.snapRev = m.rev,
                 !.snapCount = m.count, !.snapNext = 0]
  ELSE c

\* BUG: pages of different snapshots are put together.
PageContinuesAnyRevision(c, m) ==
  /\ m.count = c.snapCount
  /\ m.index = c.snapNext
  /\ \A r \in DOMAIN m.recs : c.snap[r] = NoRoom

PageContinues(c, m) ==
  /\ m.rev = c.snapRev
  /\ m.count = c.snapCount
  /\ m.index = c.snapNext
  /\ \A r \in DOMAIN m.recs : c.snap[r] = NoRoom

\* BUG: the last page is awaited after the last page.
AddedLate(c, m) ==
  [c EXCEPT !.snap = Overlay(@, m.recs), !.snapNext = @ + 1]

\* The last page replaces the cache.
Added(c, m) ==
  LET s == [c EXCEPT !.snap = Overlay(@, m.recs), !.snapNext = @ + 1]
  IN IF s.snapNext = s.snapCount
     THEN [Cleared(s) EXCEPT !.cache = s.snap, !.revision = s.snapRev]
     ELSE s

OnPage(m) ==
  LET c == Begun(client, m)
      ok == PageContinues(c, m)
  IN /\ client' = IF ok THEN Added(c, m) ELSE Cleared(c)
     /\ requests' = IF ok THEN requests ELSE requests + 1

OnPush(m) ==
  IF m.base = client.revision
  THEN /\ client' = [client EXCEPT !.cache = Overlay(@, m.ops), !.revision = m.rev]
       /\ UNCHANGED requests
  ELSE /\ client' = Cleared(client)
       /\ requests' = requests + 1

Deliver ==
  /\ wire # <<>>
  /\ wire' = Tail(wire)
  /\ \/ Head(wire).type = "page" /\ OnPage(Head(wire))
     \/ Head(wire).type = "push" /\ OnPush(Head(wire))
  /\ UNCHANGED <<server, versions, up, refused>>

\* The GUI's timer every 15 s, and the user of either client.
Refresh ==
  /\ up
  /\ requests + Len(wire) <= MaxUnderWay
  /\ requests' = requests + 1
  /\ UNCHANGED <<server, versions, up, wire, client, refused>>

Login ==
  /\ ~up
  /\ up' = TRUE
  /\ UNCHANGED <<server, versions, requests, wire, client, refused>>

\* The connection ends: resetRoomListState.
Disconnect ==
  /\ up
  /\ up' = FALSE
  /\ requests' = 0
  /\ wire' = <<>>
  /\ client' = Fresh
  /\ UNCHANGED <<server, versions, refused>>

Next ==
  \/ RoomsChange \/ ListRooms \/ Refuse
  \/ Deliver \/ Refresh \/ Login \/ Disconnect

Spec == Init /\ [][Next]_vars

\* The server answers what it reads, TCP delivers, and the GUI's timer fires.
FairSpec ==
  Spec /\ WF_vars(ListRooms) /\ WF_vars(Deliver) /\ WF_vars(Refresh)

-----------------------------------------------------------------------------
(* Properties *)

\* Every variable has its type.
TypeOK ==
  /\ server \in [rooms : Listings, published : Listings, revision : Nat \ {0}]
  /\ versions \in Seq(Listings)
  /\ up \in BOOLEAN
  /\ requests \in Nat
  /\ wire \in Seq(Messages)
  /\ client \in ClientStates
  /\ refused \in Nat

\* No delta is too large: the published list is the list of the rooms after
\* every handler, although broadcastRoomListPush returns early, with the
\* revision already counted, for a delta beyond ROOM_LIST_PAGE_PAYLOAD.
NoDeltaDropped == server.published = server.rooms

\* What the messages on their way and the client's copies say is what the
\* list was at the revision they name, and revisions arrive in order.
MessageOK(vs, m) ==
  \/ /\ m.type = "push"
     /\ m.base \in 1 .. Len(vs) /\ m.rev \in 1 .. Len(vs)
     /\ m.rev = m.base + 1
     /\ m.ops = Delta(vs[m.base], vs[m.rev])
  \/ /\ m.type = "page"
     /\ m.rev \in 1 .. Len(vs)
     /\ m.index \in Nat
     /\ m.count = PageCount(vs[m.rev])
     /\ m.recs = PageRecords(vs[m.rev], m.index)

WireOK ==
  /\ \A i \in DOMAIN wire : MessageOK(versions, wire[i])
  /\ \A i, j \in DOMAIN wire : i <= j => wire[i].rev <= wire[j].rev
  /\ \A i \in DOMAIN wire : client.revision <= wire[i].rev

CacheOK ==
  \/ client.revision = 0 /\ client.cache = NoRooms
  \/ /\ client.revision \in 1 .. Len(versions)
     /\ client.cache = versions[client.revision]

\* A snapshot under way has the pages before snapNext of its revision.
SnapOK ==
  \/ client.snapRev = 0
  \/ /\ client.snapRev \in 1 .. Len(versions)
     /\ client.snapCount = PageCount(versions[client.snapRev])
     /\ client.snap = [r \in RoomIds |->
          IF PageOf(versions[client.snapRev], r) < client.snapNext
          THEN versions[client.snapRev][r] ELSE NoRoom]

\* The cache is the list of its revision, and a snapshot under way the part
\* of the list of its revision that has arrived, with types: the inductive
\* invariant behind ViewSpec.
ListInv ==
  /\ TypeOK
  /\ NoDeltaDropped
  /\ Len(versions) = server.revision
  /\ versions[server.revision] = server.rooms
  /\ WireOK
  /\ CacheOK
  /\ SnapOK

View == INSTANCE RoomListView
          WITH shownRev <- client.revision, shown <- client.cache

\* The client implements RoomListView: whatever pages and deltas are refused,
\* mixed with those of other answers or overtaken by changes, the cache is
\* replaced only by a whole later version of the server's list.
ViewSpec == View!Spec

\* A client that stays connected shows the server's list in the end: gaps
\* in the revisions and lost pages lead to a new snapshot.
ListCatchesUp == <>[]up => <>[](client.cache = server.rooms)
=============================================================================
