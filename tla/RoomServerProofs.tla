-------------------------- MODULE RoomServerProofs --------------------------
(***************************************************************************)
(* RoomServer for every number of connections, peers, rooms and tokens.    *)
(* First its identities: MembershipInv is inductive; each method of the    *)
(* server has a lemma that it preserves MembershipIn, and the handlers     *)
(* follow by composing them.  Then its rooms, leases and announcements, by *)
(* the same plan with SoundInv, and what no step of it does.               *)
(***************************************************************************)
EXTENDS RoomServer, WellFoundedInduction, FiniteSetTheorems, TLAPS

-----------------------------------------------------------------------------
(* Least elements and cardinalities *)

\* No identifier and no token is 0, which stands for none.
LEMMA PositiveIds ==
  /\ 0 \notin PeerIds /\ PeerIds \subseteq 0 .. MaxPeerId
  /\ 0 \notin RoomIds /\ RoomIds \subseteq 0 .. MaxRoomId
  /\ 0 \notin Tokens /\ Tokens \subseteq 0 .. MaxToken
  BY BoundsAssumption DEF PeerIds, RoomIds, Tokens

\* The least element that allocatePeerId, allocateRoomId and allocateVirtualIP
\* look for exists in every non-empty set of numbers.
LEMMA LowestIn ==
  ASSUME NEW S \in SUBSET Nat, S # {}
  PROVE  Lowest(S) \in S /\ \A y \in S : Lowest(S) <= y
  <1> DEFINE R == {ss \in Nat \X Nat : ss[1] < ss[2]}
  <1>0. R = OpToRel(<, Nat)
    BY DEF OpToRel
  <1>1. IsWellFoundedOn(R, Nat)
    BY NatLessThanWellFounded, <1>0
  <1> HIDE DEF R
  <1>2. PICK x \in S : \A y \in S : ~(<<y, x>> \in R)
    BY <1>1, WFMin
  <1>3. ASSUME NEW y \in S PROVE x <= y
    <2>1. x \in Nat /\ y \in Nat
      OBVIOUS
    <2>2. y < x => <<y, x>> \in R
      BY <2>1 DEF R
    <2> QED BY <1>2, <2>1, <2>2
  <1> QED BY <1>3 DEF Lowest

\* The number of members of a room is a number.
LEMMA HoldersCount ==
  ASSUME NEW room
  PROVE  Cardinality(Holders(room)) \in Nat
  <1>1. IsFiniteSet(PeerIds)
    BY FS_Interval, BoundsAssumption DEF PeerIds
  <1>2. Holders(room) \subseteq PeerIds
    BY DEF Holders
  <1> QED BY <1>1, <1>2, FS_Subset, FS_CardinalityType

-----------------------------------------------------------------------------
(* Rooms *)

\* ensureHost changes the host alone, and picks a peer identifier: that of a
\* member, if there is one.
LEMMA EnsureHostType ==
  ASSUME NEW room \in Rooms
  PROVE  /\ EnsureHost(room) \in Rooms
         /\ EnsureHost(room).host \in Holders(room) \cup {0}
         /\ Holders(room) # {} => EnsureHost(room).host \in Holders(room)
         /\ EnsureHost(room).leases = room.leases
         /\ EnsureHost(room).max = room.max
         /\ EnsureHost(room).key = room.key
  <1> DEFINE First(S) == CHOOSE p \in S :
                 \A q \in S : room.leases[p].token <= room.leases[q].token
  <1>1. ASSUME NEW S \in SUBSET PeerIds, S # {}
        PROVE  First(S) \in S
    <2> DEFINE T == {room.leases[p].token : p \in S}
    <2>1. T \in SUBSET Nat /\ T # {}
      BY <1>1, BoundsAssumption DEF Rooms, Leases
    <2>2. Lowest(T) \in T /\ \A y \in T : Lowest(T) <= y
      BY <2>1, LowestIn
    <2>3. PICK p \in S : room.leases[p].token = Lowest(T)
      BY <2>2
    <2>4. \A q \in S : room.leases[p].token <= room.leases[q].token
      BY <2>2, <2>3
    <2> QED BY <2>4
  <1> DEFINE held == Holders(room)
             online == {p \in held : room.leases[p].online}
             host == CASE held = {} -> 0
                       [] room.host \in held -> room.host
                       [] OTHER -> IF online # {} THEN First(online)
                                                  ELSE First(held)
  <1>2. held \subseteq PeerIds /\ online \subseteq held
    BY DEF Holders
  <1>3. EnsureHost(room) = [room EXCEPT !.host = host]
    BY DEF EnsureHost
  <1>4. host \in held \cup {0} /\ (held # {} => host \in held)
    <2>1. CASE held = {}
      BY <2>1
    <2>2. CASE held # {} /\ room.host \in held
      BY <2>2
    <2>3. CASE held # {} /\ room.host \notin held
      <3>1. host = IF online # {} THEN First(online) ELSE First(held)
        BY <2>3
      <3> HIDE DEF First, online, held
      <3> QED BY <3>1, <2>3, <1>1, <1>2
    <2> QED BY <2>1, <2>2, <2>3
  <1>5. host \in 0 .. MaxPeerId
    <2> HIDE DEF host, held
    <2> QED BY <1>2, <1>4, BoundsAssumption DEF PeerIds
  <1> HIDE DEF host
  <1> QED BY <1>3, <1>4, <1>5 DEF Rooms

\* An offline lease stays a lease with the same address and token.
LEMMA OfflineLeaseType ==
  ASSUME NEW l \in Leases
  PROVE  /\ OfflineLease(l) \in Leases
         /\ OfflineLease(l).token = l.token
         /\ OnlineLease(l) \in Leases
         /\ OnlineLease(l).token = l.token
  BY LeaseAssumption DEF Leases, OfflineLease, OnlineLease

\* The records that stand for nothing have the types of what they replace.
LEMMA Nothing ==
  /\ NoSession \in Sessions
  /\ NoLease \in Leases
  /\ NoRoom \in Rooms
  /\ \A p \in PeerIds : NoRoom.leases[p].token = 0
  BY BoundsAssumption, VipAssumption, LeaseAssumption
     DEF NoSession, Sessions, SessionStates, IdentityStates, NoCredential,
         Credentials, NoLease, Leases, NoRoom, Rooms, PeerIds

-----------------------------------------------------------------------------
(* destroyClient *)

\* Marking leases offline keeps every lease and its token.
LEMMA DetachedRoomType ==
  ASSUME NEW s \in Servers, NEW D, NEW r \in RoomIds
  PROVE  /\ DetachedRoom(s, D, r) \in Rooms
         /\ \A p \in PeerIds : DetachedRoom(s, D, r).leases[p].token
                                = s.rooms[r].leases[p].token
  <1> DEFINE Gone(p) == /\ s.rooms[r].leases[p].token # 0
                        /\ \E c \in D : /\ DetachRoom(s, c) = r
                                        /\ s.clients[c].peerId = p
             leases == [p \in PeerIds |->
                          IF Gone(p) THEN OfflineLease(s.rooms[r].leases[p])
                                     ELSE s.rooms[r].leases[p]]
  <1>1. s.rooms[r] \in Rooms
    BY DEF Servers
  <1>2. DetachedRoom(s, D, r) = [s.rooms[r] EXCEPT !.leases = leases]
    BY DEF DetachedRoom
  <1> HIDE DEF Gone
  <1>3. leases \in [PeerIds -> Leases]
    BY <1>1, OfflineLeaseType DEF Rooms
  <1>4. \A p \in PeerIds : leases[p].token = s.rooms[r].leases[p].token
    BY <1>1, OfflineLeaseType DEF Rooms
  <1> HIDE DEF leases
  <1> QED BY <1>1, <1>2, <1>3, <1>4 DEF Rooms

\* What destroyClient leaves of the server.
LEMMA DestroyFields ==
  ASSUME NEW s \in Servers, NEW D \in SUBSET Conns, NEW takeover \in BOOLEAN,
         NEW t, t = Destroy(s, D, takeover)
  PROVE  /\ t \in Servers
         /\ t.nextPeerId = s.nextPeerId
         /\ \A c \in Conns : t.clients[c] =
              IF c \in D THEN NoSession ELSE s.clients[c]
         /\ t.peerMap = Unbound(s, D)
         /\ takeover => t.freePeerIds = s.freePeerIds
         /\ ~takeover => t.freePeerIds = s.freePeerIds \cup Released(s, D)
         /\ \A r \in RoomIds, p \in PeerIds :
              t.rooms[r].leases[p].token = s.rooms[r].leases[p].token
  <1> DEFINE clients == [c \in Conns |-> IF c \in D THEN NoSession
                                                   ELSE s.clients[c]]
             freed == s.freePeerIds
                        \cup (IF takeover THEN {} ELSE Released(s, D))
             rooms == [r \in RoomIds |-> DetachedRoom(s, D, r)]
  <1>1. t = [s EXCEPT !.clients = clients, !.peerMap = Unbound(s, D),
                      !.freePeerIds = freed, !.rooms = rooms]
    BY DEF Destroy
  <1>2. clients \in [Conns -> Sessions]
    BY Nothing DEF Servers
  <1>3. Unbound(s, D) \in [PeerIds -> Conns \cup {NoConn}]
    BY DEF Unbound, Servers
  <1>4. freed \in SUBSET PeerIds
    BY DEF Servers, Released
  <1>5. rooms \in [RoomIds -> Rooms]
    BY DetachedRoomType
  <1>6. \A r \in RoomIds, p \in PeerIds :
           rooms[r].leases[p].token = s.rooms[r].leases[p].token
    BY DetachedRoomType
  <1>7. \A c \in Conns : clients[c] = IF c \in D THEN NoSession ELSE s.clients[c]
    OBVIOUS
  <1> HIDE DEF rooms, clients, freed
  <1>8. t \in Servers /\ t.clients = clients /\ t.peerMap = Unbound(s, D)
        /\ t.freePeerIds = freed /\ t.rooms = rooms
        /\ t.nextPeerId = s.nextPeerId
    BY <1>1, <1>2, <1>3, <1>4, <1>5 DEF Servers
  <1> QED BY <1>6, <1>7, <1>8 DEF freed

\* An identifier that destroyClient releases is in no lease: the lease of a
\* session in a room, or about to resume, makes destroyClient keep it.
LEMMA ReleasedWithoutLease ==
  ASSUME NEW s, MembershipIn(s), NEW D \in SUBSET Conns,
         NEW p \in Released(s, D)
  PROVE  /\ s.peerMap[p] \in D
         /\ \A r \in RoomIds : s.rooms[r].leases[p].token = 0
  <1>1. PICK c \in D : s.clients[c].peerId = p /\ ~PreservesPeerId(s, c)
    BY DEF Released
  <1>2. p \in PeerIds /\ p # 0 /\ c \in Conns /\ c # NoConn
    BY NoConnAssumption, BoundsAssumption DEF Released, PeerIds
  <1>3. s.peerMap[p] = c
    BY <1>1, <1>2 DEF MembershipIn, IndexExactIn
  <1>4. ~OwnedByOther(s, c)
    BY <1>1, <1>2, <1>3 DEF OwnedByOther, Owner
  <1>5. ASSUME NEW r \in RoomIds, s.rooms[r].leases[p].token # 0
        PROVE  FALSE
    <2>0. r # 0 /\ s.rooms[r] # NoRoom
      BY <1>2, <1>5, Nothing, BoundsAssumption DEF RoomIds
    <2>1. CASE s.clients[c].state = "InRoom" /\ s.clients[c].roomId = r
      BY <2>0, <2>1, <1>1, <1>4 DEF PreservesPeerId, DetachRoom
    <2>2. CASE s.clients[c].state = "ResumePending" /\ s.clients[c].resume.room = r
      <3>1. s.clients[c].roomId = 0
        BY <2>2, <1>2 DEF MembershipIn, SessionShapeIn, Shaped
      <3> QED BY <3>1, <2>0, <2>2, <1>1, <1>4 DEF PreservesPeerId, DetachRoom
    <2> QED BY <2>1, <2>2, <1>1, <1>2, <1>5 DEF MembershipIn, SessionLeaseIn, Fits
  <1> QED BY <1>3, <1>5

\* destroyClient preserves the invariant, for any connections and reason.
LEMMA DestroyInv ==
  ASSUME NEW s, MembershipIn(s), NEW D \in SUBSET Conns, NEW takeover \in BOOLEAN
  PROVE  MembershipIn(Destroy(s, D, takeover))
  <1> SUFFICES ASSUME NEW t, t = Destroy(s, D, takeover)
               PROVE  MembershipIn(t)
    OBVIOUS
  <1>0. s \in Servers
    BY DEF MembershipIn
  <1>1. /\ t \in Servers
        /\ t.nextPeerId = s.nextPeerId
        /\ \A c \in Conns : t.clients[c] =
              IF c \in D THEN NoSession ELSE s.clients[c]
        /\ t.peerMap = Unbound(s, D)
        /\ takeover => t.freePeerIds = s.freePeerIds
        /\ ~takeover => t.freePeerIds = s.freePeerIds \cup Released(s, D)
        /\ \A r \in RoomIds, p \in PeerIds :
              t.rooms[r].leases[p].token = s.rooms[r].leases[p].token
    BY <1>0, DestroyFields
  <1>2. /\ NoSession.peerId = 0 /\ NoSession.roomId = 0
        /\ NoSession.state = "Absent"
    BY DEF NoSession
  <1>3. \A c \in Conns : s.clients[c].peerId \in PeerIds \cup {0}
    BY <1>0, BoundsAssumption DEF Servers, Sessions, PeerIds
  <1>4. SessionShapeIn(t)
    BY <1>1, <1>2 DEF MembershipIn, SessionShapeIn, Shaped, IdentityStates
  <1>5. IndexExactIn(t)
    <2>1. ASSUME NEW c \in Conns, t.clients[c].peerId # 0
          PROVE  t.peerMap[t.clients[c].peerId] = c
      <3>1. c \notin D /\ t.clients[c] = s.clients[c]
        BY <2>1, <1>1, <1>2
      <3>2. s.peerMap[s.clients[c].peerId] = c
        BY <2>1, <3>1 DEF MembershipIn, IndexExactIn
      <3> QED BY <2>1, <3>1, <3>2, <1>1, <1>3 DEF Unbound
    <2>2. ASSUME NEW p \in PeerIds, t.peerMap[p] # NoConn
          PROVE  t.clients[t.peerMap[p]].peerId = p
      <3>1. t.peerMap[p] = s.peerMap[p] /\ s.clients[s.peerMap[p]].peerId = p
        BY <2>2, <1>1 DEF MembershipIn, IndexExactIn, Unbound
      <3>2. s.peerMap[p] \in Conns \ D
        BY <2>2, <3>1, <1>0, <1>1 DEF Unbound, Servers
      <3> QED BY <3>1, <3>2, <1>1
    <2> QED BY <2>1, <2>2 DEF IndexExactIn
  <1>6. FreshPeerIdsIn(t)
    <2>1. ASSUME NEW p \in PeerIds, s.peerMap[p] = NoConn
          PROVE  t.peerMap[p] = NoConn
      BY <1>1, <2>1 DEF Unbound
    <2>2. ASSUME NEW p \in PeerIds, p \in Released(s, D)
          PROVE  /\ t.peerMap[p] = NoConn
                 /\ \A r \in RoomIds : t.rooms[r].leases[p].token = 0
      <3>1. /\ s.peerMap[p] \in D
            /\ \A r \in RoomIds : s.rooms[r].leases[p].token = 0
        BY <2>2, ReleasedWithoutLease
      <3>2. s.clients[s.peerMap[p]].peerId = p
        BY <3>1, NoConnAssumption DEF MembershipIn, IndexExactIn
      <3> QED BY <1>1, <3>1, <3>2 DEF Unbound
    <2>3. ASSUME NEW p \in t.freePeerIds
          PROVE  p < t.nextPeerId
      <3>1. CASE p \in s.freePeerIds
        BY <3>1, <1>1 DEF MembershipIn, FreshPeerIdsIn
      <3>2. CASE p \in Released(s, D)
        <4>1. s.peerMap[p] # NoConn
          BY <3>2, ReleasedWithoutLease, NoConnAssumption
        <4>2. p \in PeerIds
          BY <3>2 DEF Released
        <4>3. ~(p >= s.nextPeerId)
          BY <4>1, <4>2 DEF MembershipIn, FreshPeerIdsIn
        <4> QED BY <4>2, <4>3, <1>0, <1>1, BoundsAssumption DEF PeerIds, Servers
      <3> QED BY <3>1, <3>2, <1>1
    <2> QED BY <1>1, <2>1, <2>2, <2>3 DEF MembershipIn, FreshPeerIdsIn
  <1>7. OneLeasePerPeerIn(t)
    BY <1>1 DEF MembershipIn, OneLeasePerPeerIn
  <1>8. SessionLeaseIn(t)
    <2> SUFFICES ASSUME NEW c \in Conns, NEW p \in PeerIds, NEW r \in RoomIds,
                        t.clients[c].peerId = p, t.rooms[r].leases[p].token # 0
                 PROVE  Fits(t.clients[c], r, t.rooms[r].leases[p].token)
      BY DEF SessionLeaseIn
    <2>1. p # 0
      BY BoundsAssumption DEF PeerIds
    <2>2. t.clients[c] = s.clients[c]
      BY <1>1, <1>2, <2>1
    <2> QED BY <1>1, <2>2 DEF MembershipIn, SessionLeaseIn
  <1> QED BY <1>1, <1>4, <1>5, <1>6, <1>7, <1>8 DEF MembershipIn

-----------------------------------------------------------------------------
(* Steps that take leases away, or touch none *)

\* What a session says of its identity and its room.
SameIdentity(x, y) ==
  /\ x.state = y.state
  /\ x.peerId = y.peerId
  /\ x.roomId = y.roomId
  /\ x.resume = y.resume
  /\ x.pending = y.pending

\* t differs from s at most in leases removed, and in identifiers freed that
\* no session and no lease of t has.
Shrinks(s, t) ==
  /\ t \in Servers
  /\ t.peerMap = s.peerMap
  /\ t.nextPeerId = s.nextPeerId
  /\ \A c \in Conns : SameIdentity(s.clients[c], t.clients[c])
  /\ \A r \in RoomIds, p \in PeerIds :
       t.rooms[r].leases[p].token \in {0, s.rooms[r].leases[p].token}
  /\ \A p \in t.freePeerIds \ s.freePeerIds :
       /\ s.peerMap[p] = NoConn
       /\ p < s.nextPeerId
       /\ \A r \in RoomIds : t.rooms[r].leases[p].token = 0

\* The types of the index and of a session's identity.
LEMMA IdentityTypes ==
  ASSUME NEW s \in Servers
  PROVE  /\ s.peerMap \in [PeerIds -> Conns \cup {NoConn}]
         /\ \A d \in Conns : s.clients[d].peerId \in PeerIds \cup {0}
         /\ s.nextPeerId \in Nat /\ s.freePeerIds \subseteq PeerIds
  BY BoundsAssumption DEF Servers, Sessions, PeerIds

\* Such a step preserves the invariant: announcements, the room list, the
\* clock, the expiry of leases and their removal are all of this kind.
LEMMA ShrinkInv ==
  ASSUME NEW s, MembershipIn(s), NEW t, Shrinks(s, t)
  PROVE  MembershipIn(t)
  <1>0. s \in Servers /\ t \in Servers
    BY DEF MembershipIn, Shrinks
  <1>1. \A c \in Conns : SameIdentity(s.clients[c], t.clients[c])
    BY DEF Shrinks
  <1>2. \A r \in RoomIds, p \in PeerIds :
          t.rooms[r].leases[p].token \in {0, s.rooms[r].leases[p].token}
    BY DEF Shrinks
  <1>3. \A c \in Conns : s.clients[c].peerId \in PeerIds \cup {0}
    BY <1>0, IdentityTypes
  <1>4. t.peerMap = s.peerMap /\ t.nextPeerId = s.nextPeerId
    BY DEF Shrinks
  <1>5. SessionShapeIn(t)
    BY <1>1 DEF SameIdentity, MembershipIn, SessionShapeIn, Shaped
  <1>6. IndexExactIn(t)
    BY <1>0, <1>1, <1>4 DEF SameIdentity, MembershipIn, IndexExactIn, Servers
  <1>7. FreshPeerIdsIn(t)
    <2>1. ASSUME NEW p \in PeerIds, p \in s.freePeerIds \/ p >= s.nextPeerId
          PROVE  /\ t.peerMap[p] = NoConn
                 /\ \A r \in RoomIds : t.rooms[r].leases[p].token = 0
      BY <2>1, <1>2, <1>4 DEF MembershipIn, FreshPeerIdsIn
    <2>2. ASSUME NEW p \in PeerIds, p \in t.freePeerIds \ s.freePeerIds
          PROVE  /\ t.peerMap[p] = NoConn
                 /\ \A r \in RoomIds : t.rooms[r].leases[p].token = 0
      BY <2>2, <1>4 DEF Shrinks
    <2>3. \A p \in t.freePeerIds : p < t.nextPeerId
      BY <1>4 DEF Shrinks, MembershipIn, FreshPeerIdsIn
    <2> QED BY <2>1, <2>2, <2>3, <1>4 DEF FreshPeerIdsIn
  <1>8. OneLeasePerPeerIn(t)
    <2> SUFFICES ASSUME NEW p \in PeerIds, NEW q \in RoomIds, NEW r \in RoomIds,
                        t.rooms[q].leases[p].token # 0, t.rooms[r].leases[p].token # 0
                 PROVE  q = r
      BY DEF OneLeasePerPeerIn
    <2>1. s.rooms[q].leases[p].token # 0 /\ s.rooms[r].leases[p].token # 0
      BY <1>2
    <2>2. OneLeasePerPeerIn(s)
      BY DEF MembershipIn
    <2> QED BY <2>1, <2>2 DEF OneLeasePerPeerIn
  <1>9. SessionLeaseIn(t)
    <2> SUFFICES ASSUME NEW c \in Conns, NEW p \in PeerIds, NEW r \in RoomIds,
                        t.clients[c].peerId = p, t.rooms[r].leases[p].token # 0
                 PROVE  Fits(t.clients[c], r, t.rooms[r].leases[p].token)
      BY DEF SessionLeaseIn
    <2>1. SameIdentity(s.clients[c], t.clients[c])
      BY <1>1
    <2>2. t.rooms[r].leases[p].token = s.rooms[r].leases[p].token
      BY <1>2
    <2>3. Fits(s.clients[c], r, s.rooms[r].leases[p].token)
      BY <2>1, <2>2 DEF SameIdentity, MembershipIn, SessionLeaseIn
    <2> QED BY <2>1, <2>2, <2>3 DEF SameIdentity, Fits
  <1> QED BY <1>0, <1>5, <1>6, <1>7, <1>8, <1>9 DEF MembershipIn

\* Publishing the room list changes nothing else.
LEMMA PushFields ==
  ASSUME NEW s \in Servers, NEW t, t = PushRoomList(s)
  PROVE  /\ t \in Servers
         /\ t.clients = s.clients /\ t.peerMap = s.peerMap
         /\ t.freePeerIds = s.freePeerIds /\ t.nextPeerId = s.nextPeerId
         /\ t.rooms = s.rooms
  <1>1. Listing(s) \in [RoomIds -> ListEntries]
    BY HoldersCount DEF Listing, ListEntries, Servers, Rooms
  <1> QED BY <1>1 DEF PushRoomList, Servers

\* Publishing the room list (broadcastRoomListPush) disturbs no membership state.
LEMMA PushInv ==
  ASSUME NEW s, MembershipIn(s)
  PROVE  MembershipIn(PushRoomList(s))
  <1> SUFFICES ASSUME NEW t, t = PushRoomList(s)
               PROVE  MembershipIn(t)
    OBVIOUS
  <1>1. s \in Servers
    BY DEF MembershipIn
  <1>2. /\ t \in Servers
        /\ t.clients = s.clients /\ t.peerMap = s.peerMap
        /\ t.freePeerIds = s.freePeerIds /\ t.nextPeerId = s.nextPeerId
        /\ t.rooms = s.rooms
    BY <1>1, PushFields
  <1>3. Shrinks(s, t)
    BY <1>1, <1>2 DEF Shrinks, SameIdentity
  <1> QED BY <1>3, ShrinkInv

\* Announcements change only what the members have been told.
LEMMA TellFields ==
  ASSUME NEW s \in Servers, NEW r, NEW p \in PeerIds, NEW t,
         t = TellJoined(s, r, p) \/ t = TellLeft(s, r, p)
  PROVE  /\ t \in Servers
         /\ t.peerMap = s.peerMap
         /\ t.freePeerIds = s.freePeerIds /\ t.nextPeerId = s.nextPeerId
         /\ t.rooms = s.rooms
         /\ \A c \in Conns : SameIdentity(s.clients[c], t.clients[c])
  <1> DEFINE joined == [c \in Conns |->
               IF c \in Receivers(s, r, p) /\ ~s.clients[c].gap
               THEN [s.clients[c] EXCEPT !.told = @ \cup {p}]
               ELSE s.clients[c]]
             gone == [c \in Conns |->
               IF c \in Receivers(s, r, p)
               THEN [s.clients[c] EXCEPT !.told = @ \ {p}]
               ELSE s.clients[c]]
  <1>1. \A c \in Conns : s.clients[c] \in Sessions
    BY DEF Servers
  <1>2. ASSUME NEW x \in Sessions, NEW T \in SUBSET PeerIds
        PROVE  /\ [x EXCEPT !.told = T] \in Sessions
               /\ SameIdentity(x, [x EXCEPT !.told = T])
    BY DEF Sessions, SameIdentity
  <1>3. \A c \in Conns : /\ s.clients[c].told \cup {p} \in SUBSET PeerIds
                         /\ s.clients[c].told \ {p} \in SUBSET PeerIds
    BY <1>1 DEF Sessions
  <1>4. \A c \in Conns : joined[c] \in Sessions /\ SameIdentity(s.clients[c], joined[c])
    BY <1>1, <1>2, <1>3 DEF SameIdentity
  <1>5. \A c \in Conns : gone[c] \in Sessions /\ SameIdentity(s.clients[c], gone[c])
    BY <1>1, <1>2, <1>3 DEF SameIdentity
  <1>6. \/ t = [s EXCEPT !.clients = joined]
        \/ t = [s EXCEPT !.clients = gone]
    BY DEF TellJoined, TellLeft
  <1>7. joined \in [Conns -> Sessions] /\ gone \in [Conns -> Sessions]
    BY <1>4, <1>5
  <1> HIDE DEF joined, gone
  <1> QED BY <1>4, <1>5, <1>6, <1>7 DEF Servers

\* t is s without the lease of peer p in room r.
Departed(s, t, r, p) ==
  /\ t \in Servers
  /\ t.peerMap = s.peerMap
  /\ t.freePeerIds = s.freePeerIds /\ t.nextPeerId = s.nextPeerId
  /\ \A d \in Conns : SameIdentity(s.clients[d], t.clients[d])
  /\ t.rooms[r].leases[p].token = 0
  /\ \A q \in RoomIds, o \in PeerIds : q # r \/ o # p
       => t.rooms[q].leases[o].token = s.rooms[q].leases[o].token

\* Removing one lease frees at most the room.
LEMMA DropFields ==
  ASSUME NEW s \in Servers, NEW r \in RoomIds, NEW p \in PeerIds, NEW t,
         t = DropLease(s, r, p)
  PROVE  Departed(s, t, r, p)
  <1> USE DEF Departed, SameIdentity
  <1> DEFINE room == RemoveLease(s.rooms[r], p)
             cut == [s.rooms[r] EXCEPT !.leases[p] = NoLease]
  <1>1. s.rooms[r] \in Rooms
    BY DEF Servers
  <1>2. cut \in Rooms /\ \A o \in PeerIds : cut.leases[o].token =
                            IF o = p THEN 0 ELSE s.rooms[r].leases[o].token
    <2>1. NoLease \in Leases /\ NoLease.token = 0
      BY Nothing DEF NoLease
    <2> QED BY <1>1, <2>1 DEF Rooms
  <1>3. room \in Rooms /\ \A o \in PeerIds : room.leases[o].token =
                            IF o = p THEN 0 ELSE s.rooms[r].leases[o].token
    <2> HIDE DEF cut
    <2>1. room = EnsureHost(cut)
      BY DEF RemoveLease, cut
    <2> QED BY <2>1, <1>2, EnsureHostType
  <1>4. \A o \in PeerIds : NoRoom.leases[o].token = 0
    BY Nothing
  <1>5. CASE s.rooms[r] = NoRoom
    BY <1>4, <1>5 DEF DropLease
  <1>6. CASE s.rooms[r] # NoRoom /\ Holders(room) = {}
    <2>1. t = [s EXCEPT !.rooms[r] = NoRoom, !.freeRoomIds = @ \cup {r}]
      BY <1>6 DEF DropLease
    <2>2. \A o \in PeerIds : room.leases[o].token = 0
      BY <1>6 DEF Holders
    <2> HIDE DEF room
    <2>3. t \in Servers
      <3>1. [s.rooms EXCEPT ![r] = NoRoom] \in [RoomIds -> Rooms]
        BY Nothing DEF Servers
      <3>2. s.freeRoomIds \cup {r} \in SUBSET RoomIds
        BY DEF Servers
      <3> QED BY <2>1, <3>1, <3>2 DEF Servers
    <2>4. /\ t.clients = s.clients /\ t.peerMap = s.peerMap
          /\ t.freePeerIds = s.freePeerIds /\ t.nextPeerId = s.nextPeerId
          /\ t.rooms = [s.rooms EXCEPT ![r] = NoRoom]
      BY <2>1 DEF Servers
    <2>5. \A q \in RoomIds, o \in PeerIds :
              t.rooms[q].leases[o].token =
                IF q = r /\ o = p THEN 0 ELSE s.rooms[q].leases[o].token
      BY <2>2, <2>4, <1>3, <1>4 DEF Servers
    <2> QED BY <2>3, <2>4, <2>5
  <1>7. CASE s.rooms[r] # NoRoom /\ Holders(room) # {}
    <2>1. t = [s EXCEPT !.rooms[r] = room]
      BY <1>7 DEF DropLease
    <2> HIDE DEF room
    <2> QED BY <2>1, <1>3 DEF Servers
  <1> QED BY <1>5, <1>6, <1>7

-----------------------------------------------------------------------------
(* cleanupExpiredLeases *)

\* A cleaned room keeps or removes each lease, and never changes its token.
LEMMA CleanedRoomType ==
  ASSUME NEW s \in Servers, NEW r \in RoomIds
  PROVE  /\ CleanedRoom(s, r) \in Rooms
         /\ \A p \in PeerIds : CleanedRoom(s, r).leases[p].token
                                 \in {0, s.rooms[r].leases[p].token}
  <1> DEFINE leases == [p \in PeerIds |-> IF Expired(Refreshed(s, r, p))
                                          THEN NoLease ELSE Refreshed(s, r, p)]
             cut == [s.rooms[r] EXCEPT !.leases = leases]
  <1>1. s.rooms[r] \in Rooms /\ \A p \in PeerIds : s.rooms[r].leases[p] \in Leases
    BY DEF Servers, Rooms
  <1>2. ASSUME NEW p \in PeerIds
        PROVE  /\ Refreshed(s, r, p) \in Leases
               /\ Refreshed(s, r, p).token = s.rooms[r].leases[p].token
    <2>1. Refreshed(s, r, p) \in {s.rooms[r].leases[p],
              OnlineLease(s.rooms[r].leases[p]), OfflineLease(s.rooms[r].leases[p])}
      BY DEF Refreshed
    <2> QED BY <2>1, <1>1, OfflineLeaseType
  <1>3. NoLease \in Leases /\ NoLease.token = 0
    BY Nothing DEF NoLease
  <1>4. leases \in [PeerIds -> Leases] /\ \A p \in PeerIds :
           leases[p].token \in {0, s.rooms[r].leases[p].token}
    BY <1>2, <1>3
  <1>5. cut \in Rooms /\ cut.leases = leases
    <2> HIDE DEF leases
    <2> QED BY <1>1, <1>4 DEF Rooms
  <1>6. CleanedRoom(s, r) \in {NoRoom, EnsureHost(cut)}
    BY DEF CleanedRoom
  <1> HIDE DEF cut, leases
  <1>7. EnsureHost(cut) \in Rooms /\ EnsureHost(cut).leases = leases
    BY <1>5, EnsureHostType
  <1> QED BY <1>4, <1>6, <1>7, Nothing

\* Expiry removes leases and frees only identifiers that nothing holds.
LEMMA CleanupShrinks ==
  ASSUME NEW s, MembershipIn(s), NEW t, t = CleanupExpiredLeases(s)
  PROVE  Shrinks(s, t)
  <1> DEFINE cleaned == [r \in RoomIds |-> CleanedRoom(s, r)]
             Gone(r) == Holders(s.rooms[r]) \ Holders(cleaned[r])
             roomIds == s.freeRoomIds \cup {r \in RoomIds :
                           s.rooms[r] # NoRoom /\ cleaned[r] = NoRoom}
             peerIds == s.freePeerIds \cup {p \in PeerIds :
                           /\ \E r \in RoomIds : p \in Gone(r)
                           /\ Owner(s, p) = NoConn}
             Untold(c) == {p \in PeerIds : \E r \in RoomIds :
                             p \in Gone(r) /\ c \in Receivers(s, r, p)}
             clients == [c \in Conns |->
                           [s.clients[c] EXCEPT !.told = @ \ Untold(c)]]
             u == [s EXCEPT !.rooms = cleaned, !.freeRoomIds = roomIds,
                            !.freePeerIds = peerIds, !.clients = clients]
  <1>0. s \in Servers
    BY DEF MembershipIn
  <1>1. cleaned \in [RoomIds -> Rooms] /\ \A r \in RoomIds, p \in PeerIds :
          cleaned[r].leases[p].token \in {0, s.rooms[r].leases[p].token}
    BY <1>0, CleanedRoomType
  <1>2. ASSUME NEW p \in PeerIds, p \in peerIds \ s.freePeerIds
        PROVE  /\ s.peerMap[p] = NoConn
               /\ p < s.nextPeerId
               /\ \A r \in RoomIds : cleaned[r].leases[p].token = 0
    <2>1. PICK r \in RoomIds : p \in Gone(r)
      BY <1>2
    <2>2. s.rooms[r].leases[p].token # 0 /\ cleaned[r].leases[p].token = 0
      BY <2>1 DEF Holders
    <2>3. \A q \in RoomIds : q # r => s.rooms[q].leases[p].token = 0
      BY <2>2 DEF MembershipIn, OneLeasePerPeerIn
    <2>4. s.peerMap[p] = NoConn
      BY <1>2 DEF Owner, MembershipIn, IndexExactIn
    <2>5. ~(p >= s.nextPeerId)
      BY <2>2 DEF MembershipIn, FreshPeerIdsIn
    <2>6. p < s.nextPeerId
      BY <2>5, <1>0, BoundsAssumption DEF PeerIds, Servers
    <2> HIDE DEF cleaned
    <2> QED BY <1>1, <2>2, <2>3, <2>4, <2>6
  <1>3. clients \in [Conns -> Sessions]
        /\ \A c \in Conns : SameIdentity(s.clients[c], clients[c])
    <2> HIDE DEF Untold
    <2>1. \A c \in Conns : s.clients[c] \in Sessions
      BY <1>0 DEF Servers
    <2>2. ASSUME NEW x \in Sessions, NEW U
          PROVE  /\ [x EXCEPT !.told = @ \ U] \in Sessions
                 /\ SameIdentity(x, [x EXCEPT !.told = @ \ U])
      BY DEF Sessions, SameIdentity
    <2> QED BY <2>1, <2>2
  <1>4. roomIds \in SUBSET RoomIds /\ peerIds \in SUBSET PeerIds
    BY <1>0 DEF Servers
  <1>5. t = IF cleaned = s.rooms THEN s ELSE PushRoomList(u)
    BY Zenon DEF CleanupExpiredLeases
  <1> HIDE DEF cleaned, roomIds, peerIds, clients
  <1>6. /\ u \in Servers
        /\ u.clients = clients /\ u.peerMap = s.peerMap
        /\ u.freePeerIds = peerIds /\ u.nextPeerId = s.nextPeerId
        /\ u.rooms = cleaned
    BY <1>0, <1>1, <1>3, <1>4 DEF Servers
  <1>7. Shrinks(s, s)
    BY <1>0 DEF Shrinks, SameIdentity
  <1>8. ASSUME NEW w, w = PushRoomList(u)
        PROVE  Shrinks(s, w)
    <2> HIDE DEF u
    <2>1. /\ w \in Servers
          /\ w.clients = u.clients /\ w.peerMap = u.peerMap
          /\ w.freePeerIds = u.freePeerIds /\ w.nextPeerId = u.nextPeerId
          /\ w.rooms = u.rooms
      BY <1>6, <1>8, PushFields
    <2> QED BY <2>1, <1>1, <1>2, <1>3, <1>4, <1>6 DEF Shrinks
  <1> QED BY <1>5, <1>7, <1>8

-----------------------------------------------------------------------------
(* Steps that change one session *)

\* Session c moves to another state and keeps its identity; a lease of its
\* peer may appear, if it fits the session.
LEMMA SessionInv ==
  ASSUME NEW s, MembershipIn(s), NEW t \in Servers, NEW c \in Conns,
         t.peerMap = s.peerMap, t.nextPeerId = s.nextPeerId,
         t.freePeerIds = s.freePeerIds,
         \A d \in Conns \ {c} : SameIdentity(s.clients[d], t.clients[d]),
         t.clients[c].peerId = s.clients[c].peerId,
         Shaped(t.clients[c]),
         \A r \in RoomIds, p \in PeerIds : p # t.clients[c].peerId
           => t.rooms[r].leases[p].token \in {0, s.rooms[r].leases[p].token},
         \A r \in RoomIds, p \in PeerIds :
           p = t.clients[c].peerId /\ t.rooms[r].leases[p].token # 0
             => Fits(t.clients[c], r, t.rooms[r].leases[p].token)
  PROVE  MembershipIn(t)
  <1>0. s \in Servers
    BY DEF MembershipIn
  <1>1. \A d \in Conns : t.clients[d].peerId = s.clients[d].peerId
    BY DEF SameIdentity
  <1>2. SessionShapeIn(t)
    <2> SUFFICES ASSUME NEW d \in Conns, d # c PROVE Shaped(t.clients[d])
      BY DEF SessionShapeIn
    <2>1. SameIdentity(s.clients[d], t.clients[d]) /\ Shaped(s.clients[d])
      BY DEF MembershipIn, SessionShapeIn
    <2> QED BY <2>1 DEF SameIdentity, Shaped
  <1>i. /\ IndexExactIn(s)
        /\ s.peerMap \in [PeerIds -> Conns \cup {NoConn}]
    BY <1>0, IdentityTypes DEF MembershipIn
  <1>3. IndexExactIn(t)
    <2>1. ASSUME NEW d \in Conns, t.clients[d].peerId # 0
          PROVE  t.peerMap[t.clients[d].peerId] = d
      BY <1>1, <1>i, <2>1 DEF IndexExactIn
    <2>2. ASSUME NEW p \in PeerIds, t.peerMap[p] # NoConn
          PROVE  t.clients[t.peerMap[p]].peerId = p
      <3>1. s.peerMap[p] \in Conns /\ s.clients[s.peerMap[p]].peerId = p
        BY <1>i, <2>2 DEF IndexExactIn
      <3> QED BY <1>1, <3>1
    <2> QED BY <2>1, <2>2 DEF IndexExactIn
  <1>4. FreshPeerIdsIn(t)
    <2> SUFFICES ASSUME NEW p \in PeerIds, p \in t.freePeerIds \/ p >= t.nextPeerId
                 PROVE  /\ t.peerMap[p] = NoConn
                        /\ \A r \in RoomIds : t.rooms[r].leases[p].token = 0
      BY DEF MembershipIn, FreshPeerIdsIn
    <2>1. /\ s.peerMap[p] = NoConn
          /\ \A r \in RoomIds : s.rooms[r].leases[p].token = 0
      BY DEF MembershipIn, FreshPeerIdsIn
    <2>2. p # 0
      BY PositiveIds, Zenon
    <2>3. p # t.clients[c].peerId
      <3>1. s.clients[c].peerId = p => s.peerMap[p] = c
        BY <1>i, <2>2 DEF IndexExactIn
      <3> QED BY <1>1, <2>1, <3>1, NoConnAssumption
    <2> QED BY <2>1, <2>3
  <1>5. OneLeasePerPeerIn(t)
    <2> SUFFICES ASSUME NEW p \in PeerIds, NEW q \in RoomIds, NEW r \in RoomIds,
                        t.rooms[q].leases[p].token # 0, t.rooms[r].leases[p].token # 0
                 PROVE  q = r
      BY DEF OneLeasePerPeerIn
    <2>1. CASE p # t.clients[c].peerId
      BY <2>1 DEF MembershipIn, OneLeasePerPeerIn
    <2>2. CASE p = t.clients[c].peerId
      BY <2>2 DEF Fits
    <2> QED BY <2>1, <2>2
  <1>6. SessionLeaseIn(t)
    <2> SUFFICES ASSUME NEW d \in Conns, NEW p \in PeerIds, NEW r \in RoomIds, d # c,
                        t.clients[d].peerId = p, t.rooms[r].leases[p].token # 0
                 PROVE  Fits(t.clients[d], r, t.rooms[r].leases[p].token)
      BY DEF SessionLeaseIn
    <2>1. SameIdentity(s.clients[d], t.clients[d])
      OBVIOUS
    <2>2. p # 0
      BY PositiveIds, Zenon
    <2>3. p # t.clients[c].peerId
      <3>1. s.peerMap[p] = d
        BY <1>1, <1>i, <2>2 DEF IndexExactIn
      <3>2. s.clients[c].peerId = p => s.peerMap[p] = c
        BY <1>i, <2>2 DEF IndexExactIn
      <3> QED BY <1>1, <3>1, <3>2
    <2>4. t.rooms[r].leases[p].token = s.rooms[r].leases[p].token
      BY <2>3
    <2>5. Fits(s.clients[d], r, s.rooms[r].leases[p].token)
      BY <2>1, <2>4 DEF SameIdentity, MembershipIn, SessionLeaseIn
    <2> QED BY <2>1, <2>4, <2>5 DEF SameIdentity, Fits
  <1> QED BY <1>2, <1>3, <1>4, <1>5, <1>6 DEF MembershipIn

\* Session c, which has no identity, gets one that no session has and that
\* can no longer be handed out; the leases of that peer fit the session.
LEMMA BindInv ==
  ASSUME NEW s, MembershipIn(s), NEW t \in Servers, NEW c \in Conns,
         NEW p \in PeerIds,
         s.clients[c].peerId = 0, s.peerMap[p] = NoConn,
         t.peerMap = [s.peerMap EXCEPT ![p] = c],
         t.freePeerIds = s.freePeerIds \ {p},
         t.nextPeerId >= s.nextPeerId, t.nextPeerId > p,
         \A d \in Conns \ {c} : t.clients[d] = s.clients[d],
         t.clients[c].peerId = p,
         Shaped(t.clients[c]),
         \A r \in RoomIds, q \in PeerIds :
           t.rooms[r].leases[q].token = s.rooms[r].leases[q].token,
         \A r \in RoomIds : s.rooms[r].leases[p].token # 0
           => Fits(t.clients[c], r, s.rooms[r].leases[p].token)
  PROVE  MembershipIn(t)
  <1>0. s \in Servers
    BY DEF MembershipIn
  <1>1. p # 0 /\ p \in Nat /\ PeerIds \subseteq Nat
    BY BoundsAssumption DEF PeerIds
  <1>2. SessionShapeIn(t)
    BY DEF MembershipIn, SessionShapeIn
  <1>3. s.peerMap \in [PeerIds -> Conns \cup {NoConn}]
        /\ \A d \in Conns : s.clients[d].peerId \in PeerIds \cup {0}
    BY <1>0, IdentityTypes
  <1>4. \A d \in Conns : s.clients[d].peerId # p
    BY <1>1, NoConnAssumption DEF MembershipIn, IndexExactIn
  <1>7. /\ s.nextPeerId \in Nat /\ t.nextPeerId \in Nat
        /\ s.freePeerIds \subseteq Nat
    BY <1>0, <1>1, IdentityTypes
  <1>5. IndexExactIn(t)
    <2>1. ASSUME NEW d \in Conns, t.clients[d].peerId # 0
          PROVE  t.peerMap[t.clients[d].peerId] = d
      <3>1. CASE d = c
        BY <3>1, <1>3
      <3>2. CASE d # c
        BY <3>2, <2>1, <1>3, <1>4 DEF MembershipIn, IndexExactIn
      <3> QED BY <3>1, <3>2
    <2>2. ASSUME NEW q \in PeerIds, t.peerMap[q] # NoConn
          PROVE  t.clients[t.peerMap[q]].peerId = q
      <3>1. CASE q = p
        BY <3>1, <1>3
      <3>2. CASE q # p
        <4>1. t.peerMap[q] = s.peerMap[q] /\ s.clients[s.peerMap[q]].peerId = q
          BY <3>2, <2>2, <1>3 DEF MembershipIn, IndexExactIn
        <4>2. s.peerMap[q] \in Conns \ {c}
          BY <4>1, <2>2, <1>3, BoundsAssumption DEF PeerIds
        <4> QED BY <4>1, <4>2
      <3> QED BY <3>1, <3>2
    <2> QED BY <2>1, <2>2 DEF IndexExactIn
  <1>6. FreshPeerIdsIn(t)
    <2> SUFFICES ASSUME NEW q \in PeerIds, q \in t.freePeerIds \/ q >= t.nextPeerId
                 PROVE  /\ t.peerMap[q] = NoConn
                        /\ \A r \in RoomIds : t.rooms[r].leases[q].token = 0
      <3>1. \A q \in t.freePeerIds : q < t.nextPeerId
        BY <1>7 DEF MembershipIn, FreshPeerIdsIn
      <3> QED BY <3>1 DEF FreshPeerIdsIn
    <2>1. s.nextPeerId \in Nat /\ t.nextPeerId \in Nat
      BY <1>7
    <2>2. q # p /\ (q \in s.freePeerIds \/ q >= s.nextPeerId)
      BY <1>1, <2>1
    <2> QED BY <2>2, <1>3 DEF MembershipIn, FreshPeerIdsIn
  <1>9. OneLeasePerPeerIn(t)
    BY DEF MembershipIn, OneLeasePerPeerIn
  <1>8. SessionLeaseIn(t)
    <2> SUFFICES ASSUME NEW d \in Conns, NEW q \in PeerIds, NEW r \in RoomIds,
                        t.clients[d].peerId = q, t.rooms[r].leases[q].token # 0
                 PROVE  Fits(t.clients[d], r, t.rooms[r].leases[q].token)
      BY DEF SessionLeaseIn
    <2>1. CASE d = c
      BY <2>1
    <2>2. CASE d # c
      BY <2>2 DEF MembershipIn, SessionLeaseIn
    <2> QED BY <2>1, <2>2
  <1> QED BY <1>2, <1>5, <1>6, <1>8, <1>9 DEF MembershipIn

\* Session c gives its identity up; no lease of that peer is left.
LEMMA UnbindInv ==
  ASSUME NEW s, MembershipIn(s), NEW t \in Servers, NEW c \in Conns,
         NEW p \in PeerIds,
         s.clients[c].peerId = p,
         t.peerMap = [s.peerMap EXCEPT ![p] = NoConn],
         t.freePeerIds = s.freePeerIds \cup {p},
         t.nextPeerId = s.nextPeerId,
         \A d \in Conns \ {c} : SameIdentity(s.clients[d], t.clients[d]),
         t.clients[c].peerId = 0,
         Shaped(t.clients[c]),
         \A r \in RoomIds, q \in PeerIds : q # p =>
           t.rooms[r].leases[q].token = s.rooms[r].leases[q].token,
         \A r \in RoomIds : t.rooms[r].leases[p].token = 0
  PROVE  MembershipIn(t)
  <1>0. s \in Servers
    BY DEF MembershipIn
  <1>1. p # 0
    BY BoundsAssumption DEF PeerIds
  <1>2. SessionShapeIn(t)
    <2> SUFFICES ASSUME NEW d \in Conns, d # c PROVE Shaped(t.clients[d])
      BY DEF SessionShapeIn
    <2>1. SameIdentity(s.clients[d], t.clients[d]) /\ Shaped(s.clients[d])
      BY DEF MembershipIn, SessionShapeIn
    <2> QED BY <2>1 DEF SameIdentity, Shaped
  <1>3. s.peerMap \in [PeerIds -> Conns \cup {NoConn}]
        /\ \A d \in Conns : s.clients[d].peerId \in PeerIds \cup {0}
    BY <1>0, IdentityTypes
  <1>4. s.peerMap[p] = c /\ \A d \in Conns \ {c} : s.clients[d].peerId # p
    BY <1>1 DEF MembershipIn, IndexExactIn
  <1>5. IndexExactIn(t)
    <2>1. ASSUME NEW d \in Conns, t.clients[d].peerId # 0
          PROVE  t.peerMap[t.clients[d].peerId] = d
      <3>1. d # c /\ t.clients[d].peerId = s.clients[d].peerId
        BY <2>1 DEF SameIdentity
      <3> QED BY <3>1, <2>1, <1>3, <1>4 DEF MembershipIn, IndexExactIn
    <2>2. ASSUME NEW q \in PeerIds, t.peerMap[q] # NoConn
          PROVE  t.clients[t.peerMap[q]].peerId = q
      <3>1. q # p /\ t.peerMap[q] = s.peerMap[q]
        BY <2>2, <1>3
      <3>2. s.clients[s.peerMap[q]].peerId = q /\ s.peerMap[q] \in Conns \ {c}
        BY <3>1, <2>2, <1>3 DEF MembershipIn, IndexExactIn
      <3> QED BY <3>1, <3>2 DEF SameIdentity
    <2> QED BY <2>1, <2>2 DEF IndexExactIn
  <1>6. FreshPeerIdsIn(t)
    <2>1. ~(p >= s.nextPeerId)
      BY <1>4, NoConnAssumption DEF MembershipIn, FreshPeerIdsIn
    <2>2. p < s.nextPeerId
      BY <2>1, <1>0, BoundsAssumption DEF PeerIds, Servers
    <2> QED BY <2>2, <1>3 DEF MembershipIn, FreshPeerIdsIn
  <1>7. OneLeasePerPeerIn(t)
    BY DEF MembershipIn, OneLeasePerPeerIn
  <1>8. SessionLeaseIn(t)
    <2> SUFFICES ASSUME NEW d \in Conns, NEW q \in PeerIds, NEW r \in RoomIds,
                        t.clients[d].peerId = q, t.rooms[r].leases[q].token # 0
                 PROVE  Fits(t.clients[d], r, t.rooms[r].leases[q].token)
      BY DEF SessionLeaseIn
    <2>1. q # 0 /\ q # p
      BY BoundsAssumption DEF PeerIds
    <2>2. d # c /\ SameIdentity(s.clients[d], t.clients[d])
      BY <2>1
    <2>3. Fits(s.clients[d], r, s.rooms[r].leases[q].token)
      BY <2>1, <2>2 DEF SameIdentity, MembershipIn, SessionLeaseIn
    <2> QED BY <2>1, <2>2, <2>3 DEF SameIdentity, Fits
  <1> QED BY <1>2, <1>5, <1>6, <1>7, <1>8 DEF MembershipIn

-----------------------------------------------------------------------------
(* Login *)

\* allocatePeerId yields an identifier that nothing holds.
LEMMA FreshLoginInv ==
  ASSUME NEW s, MembershipIn(s), NEW c \in Conns,
         s.clients[c].state = "AwaitLogin", CanAllocatePeerId(s)
  PROVE  MembershipIn(FreshLogin(s, c))
  <1> DEFINE p == NextPeerId(s)
             next == IF s.freePeerIds # {} THEN s.nextPeerId ELSE s.nextPeerId + 1
             y == [s.clients[c] EXCEPT !.state = "LoggedIn", !.peerId = p]
  <1> SUFFICES ASSUME NEW t, t = FreshLogin(s, c)
               PROVE  MembershipIn(t)
    OBVIOUS
  <1>0. s \in Servers /\ s.clients[c] \in Sessions
    BY DEF MembershipIn, Servers
  <1>1. /\ p \in PeerIds
        /\ p \in s.freePeerIds \/ p >= s.nextPeerId
        /\ next \in 1 .. (MaxPeerId + 1) /\ next >= s.nextPeerId
        /\ s.freePeerIds = {} => next > p
    <2>1. s.nextPeerId \in 1 .. (MaxPeerId + 1) /\ s.freePeerIds \subseteq PeerIds
      BY <1>0 DEF Servers
    <2>2. CASE s.freePeerIds # {}
      <3>1. p \in s.freePeerIds
        BY <2>1, <2>2, LowestIn, BoundsAssumption DEF NextPeerId, PeerIds
      <3> QED BY <3>1, <2>1, <2>2, BoundsAssumption DEF PeerIds
    <2>3. CASE s.freePeerIds = {}
      BY <2>1, <2>3, BoundsAssumption DEF NextPeerId, PeerIds, CanAllocatePeerId
    <2> QED BY <2>2, <2>3
  <1>2. /\ s.peerMap[p] = NoConn
        /\ \A r \in RoomIds : s.rooms[r].leases[p].token = 0
    BY <1>1 DEF MembershipIn, FreshPeerIdsIn
  <1> HIDE DEF p, next
  <1>3. y \in Sessions /\ y.state = "LoggedIn" /\ y.peerId = p /\ y.roomId = s.clients[c].roomId
    <2>1. "LoggedIn" \in SessionStates /\ p \in 0 .. MaxPeerId
      BY <1>1, BoundsAssumption DEF SessionStates, IdentityStates, PeerIds
    <2> QED BY <1>0, <2>1 DEF Sessions
  <1>4. s.clients[c].peerId = 0 /\ s.clients[c].roomId = 0
    BY DEF MembershipIn, SessionShapeIn, Shaped, IdentityStates
  <1>5. Shaped(y)
    BY <1>1, <1>3, <1>4, BoundsAssumption DEF Shaped, IdentityStates, PeerIds
  <1>6. t = [s EXCEPT !.clients = [s.clients EXCEPT ![c] = y],
                      !.peerMap = [s.peerMap EXCEPT ![p] = c],
                      !.freePeerIds = s.freePeerIds \ {p},
                      !.nextPeerId = next]
    BY <1>0, <1>1 DEF FreshLogin, p, next, Servers
  <1> HIDE DEF y
  <1>7. /\ t \in Servers
        /\ t.clients = [s.clients EXCEPT ![c] = y]
        /\ t.peerMap = [s.peerMap EXCEPT ![p] = c]
        /\ t.freePeerIds = s.freePeerIds \ {p}
        /\ t.nextPeerId = next /\ t.rooms = s.rooms
    <2>1. [s.clients EXCEPT ![c] = y] \in [Conns -> Sessions]
      BY <1>0, <1>3 DEF Servers
    <2>2. [s.peerMap EXCEPT ![p] = c] \in [PeerIds -> Conns \cup {NoConn}]
      BY <1>0, <1>1 DEF Servers
    <2>3. s.freePeerIds \ {p} \in SUBSET PeerIds
      BY <1>0 DEF Servers
    <2> QED BY <1>0, <1>1, <1>6, <2>1, <2>2, <2>3 DEF Servers
  <1>8. s.clients \in [Conns -> Sessions]
    BY <1>0 DEF Servers
  <1>9. t.nextPeerId > p
    <2>1. CASE s.freePeerIds = {}
      BY <2>1, <1>1, <1>7
    <2>2. CASE s.freePeerIds # {}
      <3>1. p \in s.freePeerIds
        BY <1>0, <2>2, LowestIn, BoundsAssumption DEF NextPeerId, PeerIds, p, Servers
      <3> QED BY <3>1, <2>2, <1>7 DEF MembershipIn, FreshPeerIdsIn, next
    <2> QED BY <2>1, <2>2
  <1> QED BY <1>1, <1>2, <1>3, <1>4, <1>5, <1>7, <1>8, <1>9, BindInv

\* Leases are marked, added and aged without changing another's token.
LEMMA LeaseOpsType ==
  ASSUME NEW room \in Rooms, NEW p \in PeerIds
  PROVE  /\ MarkLeaseOffline(room, p) \in Rooms
         /\ MarkLeaseOnline(room, p) \in Rooms
         /\ AgedRoom(room) \in Rooms
         /\ \A q \in PeerIds :
              /\ MarkLeaseOffline(room, p).leases[q].token = room.leases[q].token
              /\ MarkLeaseOnline(room, p).leases[q].token = room.leases[q].token
              /\ AgedRoom(room).leases[q].token = room.leases[q].token
  <1>0. \A q \in PeerIds : room.leases[q] \in Leases
    BY DEF Rooms
  <1>1. ASSUME NEW l \in Leases, l.token = room.leases[p].token,
               NEW x, x = [room EXCEPT !.leases[p] = l]
        PROVE  /\ x \in Rooms
               /\ \A q \in PeerIds : x.leases[q].token = room.leases[q].token
    BY <1>0, <1>1 DEF Rooms
  <1>2. /\ OfflineLease(room.leases[p]) \in Leases
        /\ OfflineLease(room.leases[p]).token = room.leases[p].token
        /\ OnlineLease(room.leases[p]) \in Leases
        /\ OnlineLease(room.leases[p]).token = room.leases[p].token
    BY <1>0, OfflineLeaseType
  <1>3. /\ MarkLeaseOffline(room, p) \in Rooms
        /\ \A q \in PeerIds :
             MarkLeaseOffline(room, p).leases[q].token = room.leases[q].token
    BY <1>1, <1>2 DEF MarkLeaseOffline
  <1>4. /\ MarkLeaseOnline(room, p) \in Rooms
        /\ \A q \in PeerIds :
             MarkLeaseOnline(room, p).leases[q].token = room.leases[q].token
    <2>1. PICK x : x = [room EXCEPT !.leases[p] = OnlineLease(room.leases[p])]
      OBVIOUS
    <2>2. x \in Rooms /\ \A q \in PeerIds : x.leases[q].token = room.leases[q].token
      BY <1>1, <1>2, <2>1
    <2>3. MarkLeaseOnline(room, p) = EnsureHost(x)
      BY <2>1 DEF MarkLeaseOnline
    <2> QED BY <2>2, <2>3, EnsureHostType
  <1>5. /\ AgedRoom(room) \in Rooms
        /\ \A q \in PeerIds : AgedRoom(room).leases[q].token = room.leases[q].token
    <2> DEFINE Aged(l) == IF ~l.online /\ l.left > 0 THEN [l EXCEPT !.left = @ - 1]
                                                     ELSE l
               leases == [q \in PeerIds |-> Aged(room.leases[q])]
    <2>1. ASSUME NEW l \in Leases
          PROVE  Aged(l) \in Leases /\ Aged(l).token = l.token
      BY LeaseAssumption DEF Leases
    <2>2. AgedRoom(room) = [room EXCEPT !.leases = leases]
      BY DEF AgedRoom
    <2> HIDE DEF Aged
    <2>3. leases \in [PeerIds -> Leases]
          /\ \A q \in PeerIds : leases[q].token = room.leases[q].token
      BY <1>0, <2>1
    <2> HIDE DEF leases
    <2> QED BY <2>2, <2>3 DEF Rooms
  <1> QED BY <1>3, <1>4, <1>5

\* addLease gives peer p the token, an address of the subnet, and changes no
\* other lease.
LEMMA AddLeaseType ==
  ASSUME NEW room \in Rooms, NEW p \in PeerIds, NEW token \in Tokens
  PROVE  /\ AddLease(room, p, token) \in Rooms
         /\ \A q \in PeerIds : AddLease(room, p, token).leases[q].token =
              IF q = p THEN token ELSE room.leases[q].token
  <1> DEFINE free == Vips \ {room.leases[q].vip : q \in PeerIds}
  <1>1. AllocateVirtualIP(room) \in 0 .. VipCount
    <2>1. free \in SUBSET Nat
      BY VipAssumption DEF Vips
    <2>2. free # {} => Lowest(free) \in free
      BY <2>1, LowestIn
    <2>3. AllocateVirtualIP(room) = IF free = {} THEN 0 ELSE Lowest(free)
      BY DEF AllocateVirtualIP
    <2> QED BY <2>2, <2>3, VipAssumption DEF Vips
  <1>2. PICK l : l = [vip |-> AllocateVirtualIP(room), token |-> token,
                      online |-> TRUE, left |-> LeaseTicks]
    OBVIOUS
  <1>3. l \in Leases /\ l.token = token
    BY <1>1, <1>2, BoundsAssumption, LeaseAssumption DEF Leases, Tokens
  <1>4. PICK x : x = [room EXCEPT !.leases[p] = l]
    OBVIOUS
  <1>5. x \in Rooms /\ \A q \in PeerIds : x.leases[q].token =
                          IF q = p THEN token ELSE room.leases[q].token
    BY <1>3, <1>4 DEF Rooms
  <1>6. AddLease(room, p, token) = EnsureHost(x)
    BY <1>2, <1>4 DEF AddLease
  <1> QED BY <1>5, <1>6, EnsureHostType

\* A login with a valid credential takes the identity of the lease over,
\* from a session that may still have it.
LEMMA ResumeLoginInv ==
  ASSUME NEW s, MembershipIn(s), NEW c \in Conns,
         s.clients[c].state = "AwaitLogin",
         NEW cred \in Credentials, cred.room # 0, cred.peer # 0, cred.token # 0,
         ValidateResumeLease(s, cred)
  PROVE  MembershipIn(ResumeLogin(s, c, cred))
  <1> DEFINE p == cred.peer
             r == cred.room
             old == Owner(s, p)
  <1>0. s \in Servers /\ s.clients[c].peerId = 0
    BY DEF MembershipIn, SessionShapeIn, Shaped, IdentityStates
  <1>1. p \in PeerIds /\ r \in RoomIds /\ p # 0 /\ cred.token \in Nat
    BY BoundsAssumption DEF Credentials, PeerIds, RoomIds
  <1>2. s.rooms[r].leases[p].token = cred.token
    BY DEF ValidateResumeLease
  <1>3. p \notin s.freePeerIds /\ s.nextPeerId > p
    <2>1. p \notin s.freePeerIds /\ ~(p >= s.nextPeerId)
      BY <1>1, <1>2 DEF MembershipIn, FreshPeerIdsIn
    <2> QED BY <2>1, <1>0, <1>1, BoundsAssumption DEF Servers, PeerIds
  <1> DEFINE u == IF old \in {NoConn, c} THEN s ELSE Destroy(s, {old}, TRUE)
  <1>4. PICK w : w = u
    OBVIOUS
  <1>5. /\ MembershipIn(w) /\ w \in Servers
        /\ w.peerMap[p] = NoConn
        /\ w.clients[c] = s.clients[c]
        /\ w.freePeerIds = s.freePeerIds /\ w.nextPeerId = s.nextPeerId
        /\ \A q \in RoomIds, o \in PeerIds :
             w.rooms[q].leases[o].token = s.rooms[q].leases[o].token
    <2>1. CASE s.peerMap[p] = NoConn
      BY <2>1, <1>0, <1>4 DEF Owner
    <2>2. CASE s.peerMap[p] # NoConn
      <3>1. old = s.peerMap[p] /\ old # NoConn /\ s.clients[old].peerId = p
        BY <2>2, <1>1 DEF Owner, MembershipIn, IndexExactIn
      <3>2. old \in Conns /\ old # c
        BY <3>1, <1>0, <1>1, IdentityTypes
      <3>3. w = Destroy(s, {old}, TRUE)
        BY <1>4, <3>1, <3>2
      <3> HIDE DEF old
      <3>4. MembershipIn(w)
        BY <3>2, <3>3, DestroyInv
      <3>5. /\ w \in Servers
            /\ w.nextPeerId = s.nextPeerId
            /\ \A d \in Conns : w.clients[d] =
                 IF d \in {old} THEN NoSession ELSE s.clients[d]
            /\ w.peerMap = Unbound(s, {old})
            /\ \A q \in RoomIds, o \in PeerIds :
                 w.rooms[q].leases[o].token = s.rooms[q].leases[o].token
        <4>1. PICK D \in SUBSET Conns : D = {old}
          BY <3>2
        <4>2. PICK b \in BOOLEAN : b = TRUE
          OBVIOUS
        <4>3. w = Destroy(s, D, b)
          BY <3>3, <4>1, <4>2, Zenon
        <4> HIDE <4>2
        <4>4. /\ w \in Servers
              /\ w.nextPeerId = s.nextPeerId
              /\ \A d \in Conns : w.clients[d] =
                   IF d \in D THEN NoSession ELSE s.clients[d]
              /\ w.peerMap = Unbound(s, D)
              /\ \A q \in RoomIds, o \in PeerIds :
                   w.rooms[q].leases[o].token = s.rooms[q].leases[o].token
          BY <1>0, <4>3, DestroyFields
        <4> QED BY <4>1, <4>4
      <3>7. w.freePeerIds = s.freePeerIds
        BY <1>0, <3>3 DEF Destroy, Servers
      <3>6. w.peerMap[p] = NoConn
        BY <3>1, <3>5, <1>1 DEF Unbound
      <3> QED BY <3>2, <3>4, <3>5, <3>6, <3>7
    <2> QED BY <2>1, <2>2
  <1> DEFINE y == [w.clients[c] EXCEPT !.state = "ResumePending", !.peerId = p,
                                       !.resume = cred]
             room == MarkLeaseOffline(w.rooms[r], p)
  <1>6. ResumeLogin(s, c, cred) = [w EXCEPT !.clients[c] = y,
               !.rooms[r] = room, !.peerMap[p] = c]
    BY <1>4 DEF ResumeLogin
  <1> HIDE DEF u, old
  <1>7. w.clients \in [Conns -> Sessions] /\ w.rooms \in [RoomIds -> Rooms]
    BY <1>5 DEF Servers
  <1>8. ResumeLogin(s, c, cred) = [w EXCEPT
               !.clients = [w.clients EXCEPT ![c] = y],
               !.rooms = [w.rooms EXCEPT ![r] = room],
               !.peerMap = [w.peerMap EXCEPT ![p] = c]]
    BY <1>6
  <1>9. y \in Sessions /\ y.state = "ResumePending" /\ y.peerId = p
        /\ y.resume = cred /\ y.roomId = w.clients[c].roomId
    <2>1. "ResumePending" \in SessionStates /\ p \in 0 .. MaxPeerId
      BY <1>1, BoundsAssumption DEF SessionStates, IdentityStates, PeerIds
    <2> QED BY <2>1, <1>7 DEF Sessions
  <1>10. Shaped(y)
    <2>1. w.clients[c].roomId = 0
      BY <1>5 DEF MembershipIn, SessionShapeIn, Shaped
    <2> QED BY <2>1, <1>1, <1>9 DEF Shaped, IdentityStates
  <1>11. room \in Rooms /\ \A o \in PeerIds :
           room.leases[o].token = w.rooms[r].leases[o].token
    BY <1>1, <1>7, LeaseOpsType
  <1> HIDE DEF y, room
  <1>12. PICK t : t = ResumeLogin(s, c, cred)
    OBVIOUS
  <1>13. /\ t \in Servers
         /\ t.clients = [w.clients EXCEPT ![c] = y]
         /\ t.rooms = [w.rooms EXCEPT ![r] = room]
         /\ t.peerMap = [w.peerMap EXCEPT ![p] = c]
         /\ t.freePeerIds = w.freePeerIds /\ t.nextPeerId = w.nextPeerId
    <2>1. [w.clients EXCEPT ![c] = y] \in [Conns -> Sessions]
      BY <1>7, <1>9
    <2>2. [w.rooms EXCEPT ![r] = room] \in [RoomIds -> Rooms]
      BY <1>7, <1>11
    <2>3. [w.peerMap EXCEPT ![p] = c] \in [PeerIds -> Conns \cup {NoConn}]
      BY <1>1, <1>5 DEF Servers
    <2> QED BY <1>5, <1>8, <1>12, <2>1, <2>2, <2>3 DEF Servers
  <1>14. ASSUME NEW q \in RoomIds, w.rooms[q].leases[p].token # 0
         PROVE  Fits(y, q, w.rooms[q].leases[p].token)
    <2>1. q = r
      BY <1>14, <1>1, <1>2, <1>5 DEF MembershipIn, OneLeasePerPeerIn
    <2> QED BY <2>1, <1>1, <1>2, <1>5, <1>9 DEF Fits
  <1>15. \A q \in RoomIds, o \in PeerIds :
           t.rooms[q].leases[o].token = w.rooms[q].leases[o].token
    BY <1>7, <1>11, <1>13
  <1>16. t.freePeerIds = w.freePeerIds \ {p} /\ t.nextPeerId >= w.nextPeerId
         /\ t.nextPeerId > p /\ t.clients[c] = y
         /\ \A d \in Conns \ {c} : t.clients[d] = w.clients[d]
    BY <1>0, <1>3, <1>5, <1>7, <1>13, IdentityTypes
  <1>17. w.clients[c].peerId = 0 /\ w.peerMap[p] = NoConn
    BY <1>0, <1>5
  <1> HIDE DEF p
  <1>18. MembershipIn(t)
    BY <1>1, <1>5, <1>9, <1>10, <1>13, <1>14, <1>15, <1>16, <1>17, BindInv
  <1> QED BY <1>12, <1>18

-----------------------------------------------------------------------------
(* Rooms: create, join, roll back, leave *)

\* The server s with session y for connection c.
WithSession(s, c, y) == [s EXCEPT !.clients[c] = y]

\* Replacing one session keeps the rest of the server.
LEMMA SetSession ==
  ASSUME NEW s \in Servers, NEW c \in Conns, NEW y \in Sessions,
         NEW t, t = WithSession(s, c, y)
  PROVE  /\ t \in Servers
         /\ t.peerMap = s.peerMap
         /\ t.freePeerIds = s.freePeerIds /\ t.nextPeerId = s.nextPeerId
         /\ t.rooms = s.rooms
         /\ t.clients[c] = y
         /\ \A d \in Conns \ {c} : t.clients[d] = s.clients[d]
  <1>1. s.clients \in [Conns -> Sessions]
    BY DEF Servers
  <1>2. [s.clients EXCEPT ![c] = y] \in [Conns -> Sessions]
    BY <1>1
  <1>3. t = [s EXCEPT !.clients = [s.clients EXCEPT ![c] = y]]
    BY DEF WithSession
  <1>4. /\ t \in Servers /\ t.peerMap = s.peerMap
        /\ t.freePeerIds = s.freePeerIds /\ t.nextPeerId = s.nextPeerId
        /\ t.rooms = s.rooms
        /\ t.clients = [s.clients EXCEPT ![c] = y]
    BY <1>2, <1>3 DEF Servers
  <1> QED BY <1>1, <1>4

\* createRoom takes an identifier and starts with no lease.
LEMMA NewRoomInv ==
  ASSUME NEW s, MembershipIn(s), NEW r, r = NextRoomId(s), r <= MaxRoomId,
         NEW host \in PeerIds, NEW max \in Capacities, NEW key \in 0 .. MaxToken,
         NEW t, t = NewRoom(s, r, host, max, key)
  PROVE  r \in RoomIds /\ t.clients = s.clients /\ MembershipIn(t)
  <1> DEFINE room == [NoRoom EXCEPT !.max = max, !.key = key, !.host = host]
             next == IF s.freeRoomIds # {} THEN s.nextRoomId ELSE s.nextRoomId + 1
  <1>0. s \in Servers
    BY DEF MembershipIn
  <1>1. r \in RoomIds /\ next \in 1 .. (MaxRoomId + 1)
    <2>1. s.nextRoomId \in 1 .. (MaxRoomId + 1) /\ s.freeRoomIds \in SUBSET RoomIds
      BY <1>0 DEF Servers
    <2>2. CASE s.freeRoomIds # {}
      <3>1. RoomIds \subseteq Nat
        BY BoundsAssumption DEF RoomIds
      <3>2. r \in s.freeRoomIds
        BY <2>1, <2>2, <3>1, LowestIn DEF NextRoomId
      <3> QED BY <2>1, <2>2, <3>2
    <2>3. CASE s.freeRoomIds = {}
      BY <2>1, <2>3, BoundsAssumption DEF NextRoomId, RoomIds
    <2> QED BY <2>2, <2>3
  <1>2. room \in Rooms /\ \A p \in PeerIds : room.leases[p].token = 0
    <2>1. max \in Nat /\ host \in 0 .. MaxPeerId
      BY CapacityAssumption, VipAssumption, BoundsAssumption DEF PeerIds
    <2> QED BY <2>1, Nothing DEF Rooms
  <1> HIDE DEF room
  <1>3. t = [s EXCEPT !.rooms = [s.rooms EXCEPT ![r] = room],
                      !.freeRoomIds = s.freeRoomIds \ {r}, !.nextRoomId = next]
    BY DEF NewRoom, room
  <1> HIDE DEF next
  <1>4. [s.rooms EXCEPT ![r] = room] \in [RoomIds -> Rooms]
    BY <1>0, <1>1, <1>2 DEF Servers
  <1>5. s.freeRoomIds \ {r} \in SUBSET RoomIds
    BY <1>0 DEF Servers
  <1>6. /\ t \in Servers
        /\ t.clients = s.clients /\ t.peerMap = s.peerMap
        /\ t.freePeerIds = s.freePeerIds /\ t.nextPeerId = s.nextPeerId
        /\ t.rooms = [s.rooms EXCEPT ![r] = room]
    BY <1>0, <1>1, <1>3, <1>4, <1>5 DEF Servers
  <1>7. \A q \in RoomIds, p \in PeerIds :
          t.rooms[q].leases[p].token \in {0, s.rooms[q].leases[p].token}
    BY <1>0, <1>2, <1>6 DEF Servers
  <1>8. Shrinks(s, t)
    BY <1>6, <1>7 DEF Shrinks, SameIdentity
  <1> QED BY <1>1, <1>6, <1>8, ShrinkInv

\* A session in the lobby gets a lease and enters the room with it.
LEMMA JoinInv ==
  ASSUME NEW s, MembershipIn(s), NEW c \in Conns, NEW r \in RoomIds,
         NEW token \in Tokens, s.clients[c].state = "LoggedIn",
         NEW t, t = EnterRoom(WithLease(s, r, s.clients[c].peerId, token), c, r)
  PROVE  /\ MembershipIn(t)
         /\ t.clients[c].state = "InRoom"
         /\ t.clients[c].resume \in Credentials
         /\ t.clients[c].resume.room # 0
         /\ t.clients[c].resume.peer # 0
         /\ t.clients[c].resume.token # 0
  <1> DEFINE p == s.clients[c].peerId
  <1>0. s \in Servers /\ s.clients[c] \in Sessions
    BY DEF MembershipIn, Servers
  <1>1. p \in PeerIds /\ p # 0
    BY <1>0, IdentityTypes DEF MembershipIn, SessionShapeIn, Shaped, IdentityStates
  <1>2. PICK room : room = AddLease(s.rooms[r], p, token)
    OBVIOUS
  <1>3. room \in Rooms /\ \A q \in PeerIds : room.leases[q].token =
                            IF q = p THEN token ELSE s.rooms[r].leases[q].token
    <2>1. s.rooms[r] \in Rooms
      BY <1>0 DEF Servers
    <2> QED BY <1>1, <1>2, <2>1, AddLeaseType
  <1>4. PICK w : w = [s EXCEPT !.rooms[r] = room]
    OBVIOUS
  <1>5. /\ w \in Servers
        /\ w.clients = s.clients /\ w.peerMap = s.peerMap
        /\ w.freePeerIds = s.freePeerIds /\ w.nextPeerId = s.nextPeerId
        /\ w.rooms = [s.rooms EXCEPT ![r] = room]
    BY <1>0, <1>3, <1>4 DEF Servers
  <1>6. \A q \in RoomIds, o \in PeerIds : w.rooms[q].leases[o].token =
          IF q = r /\ o = p THEN token ELSE s.rooms[q].leases[o].token
    BY <1>0, <1>3, <1>5 DEF Servers
  <1>7. w = WithLease(s, r, p, token)
    BY <1>2, <1>4 DEF WithLease
  <1> DEFINE cred == [room |-> r, peer |-> p, token |-> w.rooms[r].leases[p].token]
             y == [w.clients[c] EXCEPT !.state = "InRoom", !.roomId = r,
                     !.vip = w.rooms[r].leases[p].vip,
                     !.pending = [room |-> 0, key |-> 0],
                     !.resume = cred,
                     !.told = Holders(w.rooms[r]), !.gap = FALSE]
  <1>8. t = WithSession(w, c, y)
    BY <1>5, <1>7 DEF EnterRoom, WithSession
  <1>9. cred \in Credentials /\ cred.room # 0 /\ cred.peer # 0 /\ cred.token # 0
    <2>1. w.rooms[r].leases[p].token = token
      BY <1>1, <1>6
    <2>2. /\ r \in 0 .. MaxRoomId /\ r # 0
          /\ p \in 0 .. MaxPeerId /\ p # 0
          /\ token \in 0 .. MaxToken /\ token # 0
      BY <1>1, PositiveIds
    <2> QED BY <2>1, <2>2 DEF Credentials
  <1>10. /\ y \in Sessions /\ y.state = "InRoom" /\ y.peerId = p
         /\ y.roomId = r /\ y.resume = cred
    <2>1. "InRoom" \in SessionStates
      BY DEF SessionStates, IdentityStates
    <2>2. w.rooms[r].leases[p].vip \in 0 .. VipCount
      BY <1>1, <1>5 DEF Servers, Rooms, Leases
    <2>3. [room |-> 0, key |-> 0] \in [room : 0 .. MaxRoomId, key : 0 .. MaxToken]
      BY BoundsAssumption
    <2>4. Holders(w.rooms[r]) \in SUBSET PeerIds
      BY DEF Holders
    <2>5. r \in 0 .. MaxRoomId
      BY BoundsAssumption DEF RoomIds
    <2> HIDE DEF cred
    <2> QED BY <1>0, <1>5, <1>9, <2>1, <2>2, <2>3, <2>4, <2>5 DEF Sessions
  <1>11. Shaped(y)
    BY <1>1, <1>10, BoundsAssumption DEF Shaped, IdentityStates, RoomIds
  <1> HIDE DEF y, cred
  <1>12. /\ t \in Servers
         /\ t.peerMap = w.peerMap
         /\ t.freePeerIds = w.freePeerIds /\ t.nextPeerId = w.nextPeerId
         /\ t.rooms = w.rooms
         /\ t.clients[c] = y
         /\ \A d \in Conns \ {c} : t.clients[d] = w.clients[d]
    BY <1>5, <1>8, <1>10, SetSession
  <1>13. t.clients[c].peerId = p /\ Shaped(t.clients[c])
    BY <1>10, <1>11, <1>12
  <1>14. ASSUME NEW q \in RoomIds, NEW o \in PeerIds,
                o = t.clients[c].peerId, t.rooms[q].leases[o].token # 0
         PROVE  Fits(t.clients[c], q, t.rooms[q].leases[o].token)
    <2>1. ~Fits(s.clients[c], q, s.rooms[q].leases[o].token)
      BY DEF Fits
    <2>2. s.rooms[q].leases[o].token = 0
      BY <2>1, <1>13, <1>14 DEF MembershipIn, SessionLeaseIn
    <2>3. q = r
      BY <2>2, <1>6, <1>12, <1>14
    <2> QED BY <2>3, <1>10, <1>12 DEF Fits
  <1>15. \A d \in Conns \ {c} : SameIdentity(s.clients[d], t.clients[d])
    BY <1>5, <1>12 DEF SameIdentity
  <1>16. \A q \in RoomIds, o \in PeerIds : o # t.clients[c].peerId
           => t.rooms[q].leases[o].token \in {0, s.rooms[q].leases[o].token}
    BY <1>6, <1>12, <1>13, SMTT(20)
  <1>17. t.peerMap = s.peerMap /\ t.freePeerIds = s.freePeerIds
         /\ t.nextPeerId = s.nextPeerId
         /\ t.clients[c].peerId = s.clients[c].peerId
    BY <1>5, <1>12, <1>13
  <1>18. MembershipIn(t)
    BY <1>12, <1>13, <1>14, <1>15, <1>16, <1>17, SessionInv
  <1> QED BY <1>9, <1>10, <1>12, <1>18

\* t is s with session c back in the lobby, and no lease of its peer left.
InLobby(s, t, c) ==
  /\ t \in Servers
  /\ t.peerMap = s.peerMap
  /\ t.freePeerIds = s.freePeerIds /\ t.nextPeerId = s.nextPeerId
  /\ \A d \in Conns \ {c} : SameIdentity(s.clients[d], t.clients[d])
  /\ s.clients[c].peerId # 0 /\ t.clients[c].peerId = s.clients[c].peerId
  /\ t.clients[c].state \in {"LoggedIn"} /\ t.clients[c].roomId = 0
  /\ \A r \in RoomIds, p \in PeerIds :
       IF p = t.clients[c].peerId
       THEN t.rooms[r].leases[p].token = 0
       ELSE t.rooms[r].leases[p].token = s.rooms[r].leases[p].token

\* A session put back into the lobby, which held no lease, keeps the invariant.
LEMMA LobbyInv ==
  ASSUME NEW s, MembershipIn(s), NEW c \in Conns, NEW t, InLobby(s, t, c)
  PROVE  MembershipIn(t)
  <1>1. Shaped(t.clients[c])
    BY DEF InLobby, Shaped, IdentityStates
  <1>2. \A r \in RoomIds, p \in PeerIds : p # t.clients[c].peerId
          => t.rooms[r].leases[p].token \in {0, s.rooms[r].leases[p].token}
    BY DEF InLobby
  <1>3. \A r \in RoomIds, p \in PeerIds :
          p = t.clients[c].peerId /\ t.rooms[r].leases[p].token # 0
            => Fits(t.clients[c], r, t.rooms[r].leases[p].token)
    BY DEF InLobby
  <1>4. /\ t \in Servers /\ t.peerMap = s.peerMap
        /\ t.freePeerIds = s.freePeerIds /\ t.nextPeerId = s.nextPeerId
        /\ \A d \in Conns \ {c} : SameIdentity(s.clients[d], t.clients[d])
        /\ t.clients[c].peerId = s.clients[c].peerId
    BY DEF InLobby
  <1> QED BY <1>1, <1>2, <1>3, <1>4, SessionInv

\* Room r is the only one in which peer p may have a lease.
OnlyIn(s, p, r) ==
  /\ p \in PeerIds /\ p # 0
  /\ r \in RoomIds /\ r # 0
  /\ \A q \in RoomIds : s.rooms[q].leases[p].token # 0 => q = r

\* The peer of a session in a room has no other lease.
LEMMA InRoomLease ==
  ASSUME NEW s, MembershipIn(s), NEW c \in Conns, s.clients[c].state = "InRoom"
  PROVE  OnlyIn(s, s.clients[c].peerId, s.clients[c].roomId)
  <1>1. PICK p, r : p = s.clients[c].peerId /\ r = s.clients[c].roomId
    OBVIOUS
  <1>2. s \in Servers /\ Shaped(s.clients[c])
    BY DEF MembershipIn, SessionShapeIn
  <1>3. p # 0 /\ r # 0
    BY <1>1, <1>2 DEF Shaped, IdentityStates
  <1>4. p \in PeerIds
    BY <1>1, <1>2, <1>3, IdentityTypes
  <1>5. r \in RoomIds
    BY <1>1, <1>2, <1>3, BoundsAssumption DEF Servers, Sessions, RoomIds
  <1>6. \A q \in RoomIds : s.rooms[q].leases[p].token # 0 => q = r
    BY <1>1, <1>4 DEF MembershipIn, SessionLeaseIn, Fits
  <1> QED BY <1>1, <1>3, <1>4, <1>5, <1>6 DEF OnlyIn

\* The identity and the lease of a session x that is about to resume.
ResumeFits(s, x) ==
  /\ OnlyIn(s, x.peerId, x.resume.room)
  /\ x.resume.peer = x.peerId
  /\ x.resume.token # 0
  /\ x.roomId = 0
  /\ s.rooms[x.resume.room].leases[x.peerId].token \in {0, x.resume.token}

\* The peer of a session about to resume has at most the lease it resumes.
LEMMA ResumeLease ==
  ASSUME NEW s, MembershipIn(s), NEW c \in Conns,
         s.clients[c].state = "ResumePending",
         NEW x, x = s.clients[c]
  PROVE  ResumeFits(s, x)
  <1>1. PICK p, r : p = x.peerId /\ r = x.resume.room
    OBVIOUS
  <1>2. s \in Servers /\ Shaped(x)
    BY DEF MembershipIn, SessionShapeIn
  <1>3. /\ p # 0 /\ r # 0
        /\ x.resume.peer = p /\ x.resume.token # 0 /\ x.roomId = 0
    BY <1>1, <1>2 DEF Shaped, IdentityStates
  <1>4. p \in PeerIds
    BY <1>1, <1>2, <1>3, IdentityTypes
  <1>5. r \in RoomIds
    BY <1>1, <1>2, <1>3, BoundsAssumption, SMTT(20) DEF Servers, Sessions, Credentials, RoomIds
  <1>6. \A q \in RoomIds : s.rooms[q].leases[p].token # 0
          => q = r /\ s.rooms[q].leases[p].token = x.resume.token
    BY <1>1, <1>4 DEF MembershipIn, SessionLeaseIn, Fits
  <1> QED BY <1>1, <1>3, <1>4, <1>5, <1>6 DEF OnlyIn, ResumeFits

\* A session whose lease has gone is back in the lobby.
LEMMA DepartedInv ==
  ASSUME NEW s, MembershipIn(s), NEW c \in Conns, s.clients[c].state = "InRoom",
         NEW u, Departed(s, u, s.clients[c].roomId, s.clients[c].peerId),
         NEW y \in Sessions, y.state = "LoggedIn", y.roomId = 0,
         y.peerId = s.clients[c].peerId,
         NEW t, t = WithSession(u, c, y)
  PROVE  MembershipIn(t)
  <1>1. PICK p, r : p = s.clients[c].peerId /\ r = s.clients[c].roomId
    OBVIOUS
  <1>2. /\ p \in PeerIds /\ p # 0 /\ r \in RoomIds
        /\ \A q \in RoomIds : s.rooms[q].leases[p].token # 0 => q = r
    BY <1>1, InRoomLease DEF OnlyIn
  <1>3. Departed(s, u, r, p)
    BY <1>1
  <1>4. u \in Servers
    BY <1>3 DEF Departed
  <1>5. /\ t \in Servers
        /\ t.peerMap = u.peerMap
        /\ t.freePeerIds = u.freePeerIds /\ t.nextPeerId = u.nextPeerId
        /\ t.rooms = u.rooms
        /\ t.clients[c] = y
        /\ \A d \in Conns \ {c} : t.clients[d] = u.clients[d]
    BY <1>4, SetSession
  <1>6. \A q \in RoomIds, o \in PeerIds :
          IF o = t.clients[c].peerId
          THEN t.rooms[q].leases[o].token = 0
          ELSE t.rooms[q].leases[o].token = s.rooms[q].leases[o].token
    <2> SUFFICES ASSUME NEW q \in RoomIds, NEW o \in PeerIds
                 PROVE  IF o = p THEN t.rooms[q].leases[o].token = 0
                        ELSE t.rooms[q].leases[o].token = s.rooms[q].leases[o].token
      BY <1>1, <1>5
    <2>1. /\ t.rooms[r].leases[p].token = 0
          /\ q # r \/ o # p
               => t.rooms[q].leases[o].token = s.rooms[q].leases[o].token
      BY <1>3, <1>5 DEF Departed
    <2>2. o = p /\ q # r => s.rooms[q].leases[o].token = 0
      BY <1>2
    <2> QED BY <2>1, <2>2
  <1>7. \A d \in Conns \ {c} : SameIdentity(s.clients[d], t.clients[d])
    BY <1>3, <1>5 DEF Departed
  <1>8. /\ s.clients[c].peerId # 0 /\ t.clients[c].peerId = s.clients[c].peerId
        /\ t.clients[c].state \in {"LoggedIn"} /\ t.clients[c].roomId = 0
        /\ t.peerMap = s.peerMap /\ t.nextPeerId = s.nextPeerId
        /\ t.freePeerIds = s.freePeerIds
    BY <1>1, <1>2, <1>3, <1>5 DEF Departed
  <1>9. InLobby(s, t, c)
    BY <1>5, <1>6, <1>7, <1>8 DEF InLobby
  <1> QED BY <1>9, LobbyInv

\* The states and values a session is reset to have their types.
LEMMA LobbyTypes ==
  /\ "LoggedIn" \in SessionStates /\ "AwaitRoomPassword" \in SessionStates
  /\ "InRoom" \in SessionStates
  /\ NoCredential \in Credentials
  /\ 0 \in 0 .. MaxRoomId /\ 0 \in 0 .. VipCount /\ 0 \in 0 .. MaxToken
  BY BoundsAssumption, VipAssumption
     DEF SessionStates, IdentityStates, NoCredential, Credentials

\* rollbackNewMembership undoes the membership.
LEMMA RollbackInv ==
  ASSUME NEW s, MembershipIn(s), NEW c \in Conns, s.clients[c].state = "InRoom",
         NEW t, t = RollbackNewMembership(s, c)
  PROVE  MembershipIn(t)
  <1>1. PICK p, r : p = s.clients[c].peerId /\ r = s.clients[c].roomId
    OBVIOUS
  <1>2. s \in Servers /\ p \in PeerIds /\ r \in RoomIds
    BY <1>1, InRoomLease DEF OnlyIn, MembershipIn
  <1>3. PICK u : u = DropLease(s, r, p)
    OBVIOUS
  <1>4. Departed(s, u, r, p)
    BY <1>2, <1>3, DropFields
  <1> DEFINE y == [u.clients[c] EXCEPT !.state = "LoggedIn", !.roomId = 0, !.vip = 0,
                                       !.resume = NoCredential, !.told = {}]
  <1>5. t = WithSession(u, c, y)
    BY <1>1, <1>3 DEF RollbackNewMembership, WithSession
  <1>6. y \in Sessions /\ y.state = "LoggedIn" /\ y.peerId = p /\ y.roomId = 0
    <2>1. u.clients[c] \in Sessions /\ u.clients[c].peerId = p
      BY <1>1, <1>4 DEF Departed, Servers, SameIdentity
    <2> QED BY <2>1, LobbyTypes DEF Sessions
  <1> HIDE DEF y
  <1> QED BY <1>1, <1>4, <1>5, <1>6, DepartedInv

\* A member's departure changes its lease alone.
LEMMA DepartFields ==
  ASSUME NEW s \in Servers, NEW r \in RoomIds, NEW p \in PeerIds, NEW u,
         u = Depart(s, r, p)
  PROVE  Departed(s, u, r, p)
  <1>1. PICK v : v = TellLeft(s, r, p)
    OBVIOUS
  <1>2. /\ v \in Servers
        /\ v.peerMap = s.peerMap
        /\ v.freePeerIds = s.freePeerIds /\ v.nextPeerId = s.nextPeerId
        /\ v.rooms = s.rooms
        /\ \A d \in Conns : SameIdentity(s.clients[d], v.clients[d])
    BY <1>1, TellFields
  <1>3. u = DropLease(v, r, p)
    BY <1>1 DEF Depart
  <1>4. v \in Servers
    BY <1>2
  <1>5. Departed(v, u, r, p)
    BY <1>3, <1>4, DropFields
  <1> QED BY <1>2, <1>5 DEF Departed, SameIdentity

\* LEAVE_ROOM: the lease goes, the session is in the lobby.
LEMMA LeaveInv ==
  ASSUME NEW s, MembershipIn(s), NEW c \in Conns, s.clients[c].state = "InRoom",
         NEW t, t = LeaveRoom(s, c)
  PROVE  MembershipIn(t)
  <1>1. PICK p, r : p = s.clients[c].peerId /\ r = s.clients[c].roomId
    OBVIOUS
  <1>2. s \in Servers /\ p \in PeerIds /\ r \in RoomIds
    BY <1>1, InRoomLease DEF OnlyIn, MembershipIn
  <1>3. PICK u : u = Depart(s, r, p)
    OBVIOUS
  <1>4. Departed(s, u, r, p)
    BY <1>2, <1>3, DepartFields
  <1> DEFINE y == [u.clients[c] EXCEPT !.state = "LoggedIn", !.roomId = 0, !.vip = 0,
                     !.resume = NoCredential, !.told = {}, !.gap = FALSE]
  <1>5. t = WithSession(u, c, y)
    BY <1>1, <1>3 DEF LeaveRoom, WithSession
  <1>6. y \in Sessions /\ y.state = "LoggedIn" /\ y.peerId = p /\ y.roomId = 0
    <2>1. u.clients[c] \in Sessions /\ u.clients[c].peerId = p
      BY <1>1, <1>4 DEF Departed, Servers, SameIdentity
    <2> QED BY <2>1, LobbyTypes DEF Sessions
  <1> HIDE DEF y
  <1> QED BY <1>1, <1>4, <1>5, <1>6, DepartedInv

\* LOGOUT: the lease goes, and the identity with it.
LEMMA LogoutInv ==
  ASSUME NEW s, MembershipIn(s), NEW c \in Conns,
         s.clients[c].state \in IdentityStates
  PROVE  MembershipIn(Logout(s, c))
  <1>p. PICK p, r : p = s.clients[c].peerId /\ r = LogoutRoom(s, c)
    OBVIOUS
  <1>0. s \in Servers /\ Shaped(s.clients[c])
    BY DEF MembershipIn, SessionShapeIn
  <1>1. p \in PeerIds /\ p # 0 /\ s.peerMap[p] = c
    BY <1>p, <1>0, IdentityTypes DEF Shaped, MembershipIn, IndexExactIn
  <1>2. ~OwnedByOther(s, c)
    BY <1>p, <1>1, NoConnAssumption DEF OwnedByOther, Owner
  <1>3. /\ r # 0 => r \in RoomIds
        /\ \A q \in RoomIds : s.rooms[q].leases[p].token # 0 => q = r
    <2>1. CASE s.clients[c].state = "InRoom"
      <3>1. r = s.clients[c].roomId
        BY <1>p, <1>0, <2>1 DEF LogoutRoom, Shaped
      <3> QED BY <1>p, <2>1, <3>1, InRoomLease DEF OnlyIn
    <2>2. CASE s.clients[c].state = "ResumePending"
      <3>0. PICK x : x = s.clients[c]
        OBVIOUS
      <3>1. PICK v : v = x.resume.room
        OBVIOUS
      <3>a. ResumeFits(s, x)
        BY <2>2, <3>0, ResumeLease
      <3>2. /\ v \in RoomIds /\ v # 0
            /\ \A q \in RoomIds : s.rooms[q].leases[p].token # 0 => q = v
            /\ s.clients[c].roomId = 0
            /\ s.clients[c].resume.token # 0
            /\ s.rooms[v].leases[p].token \in {0, s.clients[c].resume.token}
        BY <1>p, <3>a, <3>0, <3>1 DEF OnlyIn, ResumeFits
      <3>3. r = IF s.rooms[v].leases[p].token = s.clients[c].resume.token
                THEN v ELSE 0
        BY <1>p, <2>2, <3>0, <3>1, <3>2 DEF LogoutRoom
      <3> QED BY <3>2, <3>3
    <2>3. CASE s.clients[c].state \notin {"InRoom", "ResumePending"}
      <3>1. r = 0
        BY <1>p, <1>0, <2>3 DEF LogoutRoom, Shaped
      <3>2. \A q \in RoomIds : s.rooms[q].leases[p].token = 0
        BY <1>p, <1>1, <2>3 DEF MembershipIn, SessionLeaseIn, Fits
      <3> QED BY <3>1, <3>2
    <2> QED BY <2>1, <2>2, <2>3
  <1>4. PICK u : u = IF r = 0 THEN s ELSE Depart(s, r, p)
    OBVIOUS
  <1>5. /\ u \in Servers
        /\ u.peerMap = s.peerMap
        /\ u.freePeerIds = s.freePeerIds /\ u.nextPeerId = s.nextPeerId
        /\ \A d \in Conns : SameIdentity(s.clients[d], u.clients[d])
        /\ \A q \in RoomIds : u.rooms[q].leases[p].token = 0
        /\ \A q \in RoomIds, o \in PeerIds : o # p
             => u.rooms[q].leases[o].token = s.rooms[q].leases[o].token
    <2>1. CASE r = 0
      <3>1. 0 \notin RoomIds
        BY BoundsAssumption DEF RoomIds
      <3> QED BY <2>1, <3>1, <1>0, <1>3, <1>4 DEF SameIdentity
    <2>2. CASE r # 0
      <3>1. r \in RoomIds /\ u = Depart(s, r, p)
        BY <2>2, <1>3, <1>4
      <3>2. Departed(s, u, r, p)
        BY <1>0, <1>1, <3>1, DepartFields
      <3> QED BY <3>1, <3>2, <1>1, <1>3 DEF Departed
    <2> QED BY <2>1, <2>2
  <1> DEFINE y == [NoSession EXCEPT !.state = "Closing", !.alive = TRUE]
             w == [u EXCEPT !.clients = [u.clients EXCEPT ![c] = y],
                            !.peerMap = [u.peerMap EXCEPT ![p] = NoConn],
                            !.freePeerIds = u.freePeerIds \cup {p}]
  <1>6. y \in Sessions /\ y.peerId = 0 /\ y.state = "Closing" /\ y.roomId = 0
    <2>1. "Closing" \in SessionStates /\ NoSession \in Sessions
          /\ NoSession.peerId = 0 /\ NoSession.roomId = 0
      BY Nothing DEF SessionStates, NoSession
    <2> QED BY <2>1 DEF Sessions
  <1>7. Shaped(y)
    BY <1>6 DEF Shaped, IdentityStates
  <1>8. Logout(s, c) = IF r = 0 THEN w ELSE PushRoomList(w)
    <2>1. u.peerMap[p] = c
      BY <1>1, <1>5
    <2>a. (IF u.peerMap[p] = c THEN NoConn ELSE u.peerMap[p]) = NoConn
      BY <2>1
    <2>b. (IF ~OwnedByOther(s, c) THEN u.freePeerIds \cup {p} ELSE u.freePeerIds)
            = u.freePeerIds \cup {p}
      BY <1>2
    <2>2. w = Retire(u, c, p, ~OwnedByOther(s, c))
      BY <2>a, <2>b, Zenon DEF Retire
    <2>3. Logout(s, c) =
            IF r = 0 THEN Retire(u, c, p, ~OwnedByOther(s, c))
                     ELSE PushRoomList(Retire(u, c, p, ~OwnedByOther(s, c)))
      BY <1>p, <1>4 DEF Logout
    <2> QED BY <2>2, <2>3, Zenon
  <1> HIDE DEF y
  <1>9. /\ w \in Servers
        /\ w.clients = [u.clients EXCEPT ![c] = y]
        /\ w.peerMap = [u.peerMap EXCEPT ![p] = NoConn]
        /\ w.freePeerIds = u.freePeerIds \cup {p}
        /\ w.nextPeerId = u.nextPeerId /\ w.rooms = u.rooms
    <2>1. [u.clients EXCEPT ![c] = y] \in [Conns -> Sessions]
      BY <1>5, <1>6 DEF Servers
    <2>2. [u.peerMap EXCEPT ![p] = NoConn] \in [PeerIds -> Conns \cup {NoConn}]
      BY <1>1, <1>5 DEF Servers
    <2>3. u.freePeerIds \cup {p} \in SUBSET PeerIds
      BY <1>1, <1>5 DEF Servers
    <2>4. u \in Servers
      BY <1>5
    <2> QED BY <2>1, <2>2, <2>3, <2>4 DEF Servers
  <1>10. u.clients \in [Conns -> Sessions]
    BY <1>5 DEF Servers
  <1>11. PICK t : t = w
    OBVIOUS
  <1> HIDE DEF w
  <1>12. \A d \in Conns \ {c} : SameIdentity(s.clients[d], t.clients[d])
    BY <1>5, <1>9, <1>10, <1>11
  <1>13. t.clients[c] = y /\ t.clients[c].peerId = 0 /\ Shaped(t.clients[c])
    BY <1>6, <1>7, <1>9, <1>10, <1>11
  <1>14. /\ t \in Servers
         /\ t.peerMap = [s.peerMap EXCEPT ![p] = NoConn]
         /\ t.freePeerIds = s.freePeerIds \cup {p}
         /\ t.nextPeerId = s.nextPeerId
    BY <1>5, <1>9, <1>11
  <1>15. /\ \A q \in RoomIds, o \in PeerIds : o # p
             => t.rooms[q].leases[o].token = s.rooms[q].leases[o].token
         /\ \A q \in RoomIds : t.rooms[q].leases[p].token = 0
    BY <1>5, <1>9, <1>11
  <1>16. s.clients[c].peerId = p /\ p \in PeerIds
    BY <1>p, <1>1
  <1>17. MembershipIn(t)
    BY <1>12, <1>13, <1>14, <1>15, <1>16, UnbindInv
  <1> QED BY <1>8, <1>11, <1>17, PushInv

-----------------------------------------------------------------------------
(* RESUME_ROOM *)

\* The session enters the room of the lease it presented.
LEMMA ResumedInv ==
  ASSUME NEW s, MembershipIn(s), NEW c \in Conns,
         s.clients[c].state = "ResumePending",
         NEW t, t = Resumed(s, c)
  PROVE  MembershipIn(t)
  <1>0. s \in Servers
    BY DEF MembershipIn
  <1>1. PICK x, p, r : x = s.clients[c] /\ p = x.peerId /\ r = x.resume.room
    OBVIOUS
  <1>f. ResumeFits(s, x)
    BY <1>1, ResumeLease
  <1>2. OnlyIn(s, x.peerId, x.resume.room) /\ x.resume.peer = x.peerId
    BY <1>f DEF ResumeFits
  <1>3. /\ p \in PeerIds /\ p # 0 /\ r \in RoomIds /\ r # 0
        /\ \A q \in RoomIds : s.rooms[q].leases[p].token # 0 => q = r
        /\ x.resume.peer = p
    BY <1>1, <1>2 DEF OnlyIn
  <1>4. PICK room : room = MarkLeaseOnline(s.rooms[r], p)
    OBVIOUS
  <1>5. s.rooms[r] \in Rooms /\ x \in Sessions
    BY <1>0, <1>1, <1>3 DEF Servers
  <1>6. room \in Rooms /\ \A o \in PeerIds :
          room.leases[o].token = s.rooms[r].leases[o].token
    BY <1>3, <1>4, <1>5, LeaseOpsType
  <1>7. PICK w : w = [s EXCEPT !.rooms[r] = room]
    OBVIOUS
  <1>8. /\ w \in Servers
        /\ w.clients = s.clients /\ w.peerMap = s.peerMap
        /\ w.freePeerIds = s.freePeerIds /\ w.nextPeerId = s.nextPeerId
        /\ w.rooms = [s.rooms EXCEPT ![r] = room]
    BY <1>0, <1>6, <1>7 DEF Servers
  <1>9. \A q \in RoomIds, o \in PeerIds :
          w.rooms[q].leases[o].token = s.rooms[q].leases[o].token
    BY <1>0, <1>6, <1>8 DEF Servers
  <1> DEFINE y == [w.clients[c] EXCEPT !.state = "InRoom", !.roomId = r,
                     !.vip = s.rooms[r].leases[p].vip, !.gap = FALSE,
                     !.told = Holders(s.rooms[r])]
  <1>10. t = WithSession(w, c, y)
    BY <1>0, <1>1, <1>3, <1>4, <1>7, <1>8 DEF Resumed, WithSession, Servers
  <1>11. y \in Sessions /\ y.state = "InRoom" /\ y.peerId = p /\ y.roomId = r
    <2>1. w.clients[c] \in Sessions /\ w.clients[c].peerId = p
      BY <1>1, <1>5, <1>8
    <2>2. s.rooms[r].leases[p].vip \in 0 .. VipCount
      BY <1>3, <1>5 DEF Rooms, Leases
    <2>3. r \in 0 .. MaxRoomId
      BY <1>3, BoundsAssumption DEF RoomIds
    <2>4. Holders(s.rooms[r]) \in SUBSET PeerIds
      BY DEF Holders
    <2> QED BY <2>1, <2>2, <2>3, <2>4, LobbyTypes DEF Sessions
  <1>12. Shaped(y)
    BY <1>3, <1>11 DEF Shaped, IdentityStates
  <1> HIDE DEF y
  <1>13. w \in Servers
    BY <1>8
  <1>14. /\ t \in Servers
         /\ t.peerMap = w.peerMap
         /\ t.freePeerIds = w.freePeerIds /\ t.nextPeerId = w.nextPeerId
         /\ t.rooms = w.rooms
         /\ t.clients[c] = y
         /\ \A d \in Conns \ {c} : t.clients[d] = w.clients[d]
    BY <1>10, <1>11, <1>13, SetSession
  <1>15. \A d \in Conns \ {c} : SameIdentity(s.clients[d], t.clients[d])
    BY <1>8, <1>14 DEF SameIdentity
  <1>16. /\ t.peerMap = s.peerMap /\ t.nextPeerId = s.nextPeerId
         /\ t.freePeerIds = s.freePeerIds
         /\ t.clients[c].peerId = s.clients[c].peerId
         /\ Shaped(t.clients[c])
    BY <1>1, <1>8, <1>11, <1>12, <1>14
  <1>17. \A q \in RoomIds, o \in PeerIds : o # t.clients[c].peerId
           => t.rooms[q].leases[o].token \in {0, s.rooms[q].leases[o].token}
    BY <1>9, <1>14
  <1>18. \A q \in RoomIds, o \in PeerIds :
           o = t.clients[c].peerId /\ t.rooms[q].leases[o].token # 0
             => Fits(t.clients[c], q, t.rooms[q].leases[o].token)
    BY <1>3, <1>9, <1>11, <1>14 DEF Fits
  <1> QED BY <1>14, <1>15, <1>16, <1>17, <1>18, SessionInv

\* The session gives the resumption up.
LobbySession(x) == [x EXCEPT !.state = "LoggedIn", !.resume = NoCredential]

ToLobby(s, c) == WithSession(s, c, LobbySession(s.clients[c]))

\* The server u is s with session y for connection c.
OnlySession(s, u, c, y) ==
  /\ u \in Servers
  /\ u.peerMap = s.peerMap
  /\ u.freePeerIds = s.freePeerIds /\ u.nextPeerId = s.nextPeerId
  /\ u.rooms = s.rooms
  /\ u.clients[c] = y
  /\ \A d \in Conns \ {c} : u.clients[d] = s.clients[d]

\* A refused resumption changes only the session.
LEMMA ToLobbyFields ==
  ASSUME NEW s \in Servers, NEW c \in Conns, NEW y \in Sessions,
         NEW x, x = s.clients[c],
         y = LobbySession(x),
         NEW u, u = ToLobby(s, c)
  PROVE  OnlySession(s, u, c, y)
  <1>1. u = WithSession(s, c, y)
    BY DEF ToLobby
  <1> QED BY <1>1, SetSession DEF OnlySession

\* The lease had expired, or is no longer the one presented.
LEMMA ResumeRefusedInv ==
  ASSUME NEW s, MembershipIn(s), NEW c \in Conns,
         s.clients[c].state = "ResumePending",
         NEW x, x = s.clients[c],
         NEW t,
         \/ t = Depart(ToLobby(s, c), x.resume.room, x.resume.peer)
         \/ /\ t = ToLobby(s, c)
            /\ s.rooms[x.resume.room].leases[x.resume.peer].token # x.resume.token
  PROVE  MembershipIn(t)
  <1>0. s \in Servers
    BY DEF MembershipIn
  <1>1. PICK p, r : p = x.peerId /\ r = x.resume.room
    OBVIOUS
  <1>2. /\ OnlyIn(s, x.peerId, x.resume.room)
        /\ x.resume.peer = x.peerId
        /\ x.roomId = 0
        /\ s.rooms[x.resume.room].leases[x.peerId].token \in {0, x.resume.token}
    <2>1. ResumeFits(s, x)
      BY ResumeLease
    <2> QED BY <2>1 DEF ResumeFits
  <1>3. /\ p \in PeerIds /\ p # 0 /\ r \in RoomIds /\ r # 0
        /\ \A q \in RoomIds : s.rooms[q].leases[p].token # 0 => q = r
        /\ x.resume.peer = p
        /\ s.rooms[r].leases[p].token \in {0, x.resume.token}
    BY <1>1, <1>2 DEF OnlyIn
  <1>4. PICK y : y = LobbySession(x)
    OBVIOUS
  <1>5. y \in Sessions /\ y.state = "LoggedIn" /\ y.peerId = p /\ y.roomId = 0
    <2>1. x \in Sessions
      BY <1>0 DEF Servers
    <2> QED BY <1>1, <1>2, <1>4, <2>1, LobbyTypes DEF Sessions, LobbySession
  <1>6. PICK u : u = ToLobby(s, c)
    OBVIOUS
  <1>8. /\ u \in Servers
        /\ u.peerMap = s.peerMap
        /\ u.freePeerIds = s.freePeerIds /\ u.nextPeerId = s.nextPeerId
        /\ u.rooms = s.rooms
        /\ u.clients[c] = y
        /\ \A d \in Conns \ {c} : u.clients[d] = s.clients[d]
    <2>1. y \in Sessions
      BY <1>5
    <2>2. OnlySession(s, u, c, y)
      BY <1>0, <1>4, <1>6, <2>1, ToLobbyFields
    <2> QED BY <2>2 DEF OnlySession
  <1>9. u \in Servers
    BY <1>8
  <1>10. \/ Departed(u, t, r, p)
         \/ t = u /\ s.rooms[r].leases[p].token = 0
    BY <1>1, <1>3, <1>6, <1>9, DepartFields
  <1>11. /\ t \in Servers
         /\ t.peerMap = s.peerMap
         /\ t.freePeerIds = s.freePeerIds /\ t.nextPeerId = s.nextPeerId
         /\ \A d \in Conns : SameIdentity(u.clients[d], t.clients[d])
    <2>1. CASE Departed(u, t, r, p)
      BY <2>1, <1>8 DEF Departed
    <2>2. CASE t = u
      BY <2>2, <1>8 DEF SameIdentity
    <2> QED BY <2>1, <2>2, <1>10
  <1>12. ASSUME NEW q \in RoomIds, NEW o \in PeerIds
         PROVE  IF o = p THEN t.rooms[q].leases[o].token = 0
                ELSE t.rooms[q].leases[o].token = s.rooms[q].leases[o].token
    <2>1. CASE Departed(u, t, r, p)
      <3>1. /\ t.rooms[r].leases[p].token = 0
            /\ q # r \/ o # p
                 => t.rooms[q].leases[o].token = s.rooms[q].leases[o].token
        BY <2>1, <1>8 DEF Departed
      <3>2. o = p /\ q # r => s.rooms[q].leases[o].token = 0
        BY <1>3
      <3> QED BY <3>1, <3>2
    <2>2. CASE t = u /\ s.rooms[r].leases[p].token = 0
      BY <2>2, <1>3, <1>8
    <2> QED BY <2>1, <2>2, <1>10
  <1>13. /\ t.clients[c].peerId = p /\ t.clients[c].state \in {"LoggedIn"}
         /\ t.clients[c].roomId = 0
    BY <1>5, <1>8, <1>11 DEF SameIdentity
  <1>14. \A d \in Conns \ {c} : SameIdentity(s.clients[d], t.clients[d])
    BY <1>8, <1>11
  <1>15. s.clients[c].peerId # 0 /\ t.clients[c].peerId = s.clients[c].peerId
    BY <1>1, <1>3, <1>13
  <1>16. \A q \in RoomIds, o \in PeerIds :
           IF o = t.clients[c].peerId
           THEN t.rooms[q].leases[o].token = 0
           ELSE t.rooms[q].leases[o].token = s.rooms[q].leases[o].token
    BY <1>12, <1>13
  <1>17. InLobby(s, t, c)
    BY <1>11, <1>13, <1>14, <1>15, <1>16 DEF InLobby
  <1> QED BY <1>17, LobbyInv

-----------------------------------------------------------------------------
(* Steps of one session that touch no lease *)

\* A session that is neither in a room nor about to resume changes its state.
LEMMA StateInv ==
  ASSUME NEW s, MembershipIn(s), NEW c \in Conns,
         s.clients[c].state \notin {"InRoom", "ResumePending"},
         NEW y \in Sessions, Shaped(y), y.peerId = s.clients[c].peerId,
         NEW t, t = WithSession(s, c, y)
  PROVE  MembershipIn(t)
  <1>0. s \in Servers
    BY DEF MembershipIn
  <1>1. /\ t \in Servers
        /\ t.peerMap = s.peerMap
        /\ t.freePeerIds = s.freePeerIds /\ t.nextPeerId = s.nextPeerId
        /\ t.rooms = s.rooms
        /\ t.clients[c] = y
        /\ \A d \in Conns \ {c} : t.clients[d] = s.clients[d]
    BY <1>0, SetSession
  <1>2. \A r \in RoomIds, p \in PeerIds :
          p = s.clients[c].peerId => s.rooms[r].leases[p].token = 0
    BY DEF MembershipIn, SessionLeaseIn, Fits
  <1>3. \A d \in Conns \ {c} : SameIdentity(s.clients[d], t.clients[d])
    BY <1>1 DEF SameIdentity
  <1>4. /\ t.clients[c].peerId = s.clients[c].peerId /\ Shaped(t.clients[c])
        /\ \A r \in RoomIds, p \in PeerIds : p # t.clients[c].peerId
             => t.rooms[r].leases[p].token \in {0, s.rooms[r].leases[p].token}
        /\ \A r \in RoomIds, p \in PeerIds :
             p = t.clients[c].peerId /\ t.rooms[r].leases[p].token # 0
               => Fits(t.clients[c], r, t.rooms[r].leases[p].token)
    BY <1>1, <1>2
  <1> QED BY <1>1, <1>3, <1>4, SessionInv

\* A session changes nothing of its identity.
LEMMA SameSessionInv ==
  ASSUME NEW s, MembershipIn(s), NEW c \in Conns,
         NEW y \in Sessions, SameIdentity(s.clients[c], y),
         NEW t, t = WithSession(s, c, y)
  PROVE  MembershipIn(t)
  <1>0. s \in Servers
    BY DEF MembershipIn
  <1>1. /\ t \in Servers
        /\ t.peerMap = s.peerMap
        /\ t.freePeerIds = s.freePeerIds /\ t.nextPeerId = s.nextPeerId
        /\ t.rooms = s.rooms
        /\ t.clients[c] = y
        /\ \A d \in Conns \ {c} : t.clients[d] = s.clients[d]
    BY <1>0, SetSession
  <1>2. \A d \in Conns : SameIdentity(s.clients[d], t.clients[d])
    BY <1>1 DEF SameIdentity
  <1>3. Shrinks(s, t)
    BY <1>1, <1>2 DEF Shrinks
  <1> QED BY <1>3, ShrinkInv

\* Announcing a new member touches no lease.
LEMMA TellJoinedInv ==
  ASSUME NEW s, MembershipIn(s), NEW r, NEW p \in PeerIds
  PROVE  MembershipIn(TellJoined(s, r, p))
  <1>0. s \in Servers
    BY DEF MembershipIn
  <1>1. PICK t : t = TellJoined(s, r, p)
    OBVIOUS
  <1>2. /\ t \in Servers
        /\ t.peerMap = s.peerMap
        /\ t.freePeerIds = s.freePeerIds /\ t.nextPeerId = s.nextPeerId
        /\ t.rooms = s.rooms
        /\ \A c \in Conns : SameIdentity(s.clients[c], t.clients[c])
    BY <1>0, <1>1, TellFields
  <1>3. Shrinks(s, t)
    BY <1>2 DEF Shrinks
  <1> QED BY <1>1, <1>3, ShrinkInv

\* The clock ages offline leases and removes none.
LEMMA TickInv ==
  ASSUME NEW s, MembershipIn(s), NEW t,
         t = [s EXCEPT !.rooms = [r \in RoomIds |-> AgedRoom(s.rooms[r])]]
  PROVE  MembershipIn(t)
  <1> DEFINE rooms == [r \in RoomIds |-> AgedRoom(s.rooms[r])]
  <1>0. s \in Servers /\ \A r \in RoomIds : s.rooms[r] \in Rooms
    BY DEF MembershipIn, Servers
  <1>1. 1 \in PeerIds
    BY BoundsAssumption DEF PeerIds
  <1>2. rooms \in [RoomIds -> Rooms] /\ \A r \in RoomIds, p \in PeerIds :
          rooms[r].leases[p].token = s.rooms[r].leases[p].token
    BY <1>0, <1>1, LeaseOpsType
  <1>3. t = [s EXCEPT !.rooms = rooms]
    OBVIOUS
  <1> HIDE DEF rooms
  <1>4. /\ t \in Servers
        /\ t.clients = s.clients /\ t.peerMap = s.peerMap
        /\ t.freePeerIds = s.freePeerIds /\ t.nextPeerId = s.nextPeerId
        /\ t.rooms = rooms
    BY <1>0, <1>2, <1>3 DEF Servers
  <1>5. Shrinks(s, t)
    BY <1>2, <1>4 DEF Shrinks, SameIdentity
  <1> QED BY <1>5, ShrinkInv

\* Expiring leases keeps the invariant, and every session.
LEMMA CleanupInv ==
  ASSUME NEW s, MembershipIn(s), NEW t, t = CleanupExpiredLeases(s)
  PROVE  /\ MembershipIn(t)
         /\ \A c \in Conns : SameIdentity(s.clients[c], t.clients[c])
  <1>1. Shrinks(s, t)
    BY CleanupShrinks
  <1>2. MembershipIn(t)
    BY <1>1, ShrinkInv
  <1> QED BY <1>1, <1>2 DEF Shrinks

-----------------------------------------------------------------------------
(* The handlers *)

\* Answering, or destroying the session that cannot be answered.
LEMMA RespondInv ==
  ASSUME NEW s, MembershipIn(s), NEW c \in Conns, NEW sent \in BOOLEAN,
         NEW t, t = IF sent THEN s ELSE Destroy(s, {c}, FALSE)
  PROVE  MembershipIn(t)
  <1>1. {c} \in SUBSET Conns
    OBVIOUS
  <1>2. MembershipIn(Destroy(s, {c}, FALSE))
    BY <1>1, DestroyInv
  <1> QED BY <1>2

\* A socket authenticates: it has a session, and no identity yet.
LEMMA AuthenticateStep ==
  ASSUME MembershipInv, NEW c \in Conns, Authenticate(c)
  PROVE  MembershipIn(srv')
  <1> DEFINE y == [NoSession EXCEPT !.state = "AwaitLogin", !.alive = TRUE]
  <1>1. y \in Sessions /\ y.peerId = 0 /\ y.roomId = 0 /\ y.state = "AwaitLogin"
    <2>1. "AwaitLogin" \in SessionStates /\ NoSession \in Sessions
          /\ NoSession.peerId = 0 /\ NoSession.roomId = 0
      BY Nothing DEF SessionStates, NoSession
    <2> QED BY <2>1 DEF Sessions
  <1>2. Shaped(y)
    BY <1>1 DEF Shaped, IdentityStates
  <1>3. srv' = WithSession(srv, c, y)
    BY DEF Authenticate, WithSession
  <1>4. MembershipIn(srv) /\ Shaped(srv.clients[c])
    BY DEF MembershipInv, MembershipIn, SessionShapeIn
  <1>5. srv.clients[c].peerId = 0
        /\ srv.clients[c].state \notin {"InRoom", "ResumePending"}
    BY <1>4 DEF Authenticate, Shaped, IdentityStates
  <1> HIDE DEF y
  <1> QED BY <1>1, <1>2, <1>3, <1>4, <1>5, StateInv

\* LOGIN without a usable credential (onLogin) keeps the invariant, also when
\* its answer cannot be sent.
LEMMA LoginFreshStep ==
  ASSUME MembershipInv, NEW c \in Conns, NEW cred, OnLoginFresh(c, cred)
  PROVE  MembershipIn(srv')
  <1>1. MembershipIn(FreshLogin(srv, c))
    BY FreshLoginInv DEF MembershipInv, OnLoginFresh, Dispatch
  <1>2. PICK sent \in BOOLEAN : Respond(c, sent, FreshLogin(srv, c))
    BY DEF OnLoginFresh
  <1> QED BY <1>1, <1>2, RespondInv DEF Respond

\* LOGIN with a valid credential (onLogin, closeClientForTakeover) keeps the
\* invariant, whoever held the identity before.
LEMMA LoginResumeStep ==
  ASSUME MembershipInv, NEW c \in Conns, NEW cred \in issued, OnLoginResume(c, cred)
  PROVE  MembershipIn(srv')
  <1>1. cred \in Credentials /\ cred.room # 0 /\ cred.peer # 0 /\ cred.token # 0
    BY DEF MembershipInv, TypeOK, CredentialsOK
  <1>2. MembershipIn(ResumeLogin(srv, c, cred))
    BY <1>1, ResumeLoginInv DEF MembershipInv, OnLoginResume, Dispatch
  <1>3. PICK sent \in BOOLEAN : Respond(c, sent, ResumeLogin(srv, c, cred))
    BY DEF OnLoginResume
  <1> QED BY <1>2, <1>3, RespondInv DEF Respond

\* The new membership, committed or rolled back.
LEMMA CompleteJoinStep ==
  ASSUME NEW s, MembershipIn(s), NEW c \in Conns, NEW r \in RoomIds,
         s.clients[c].state = "LoggedIn", nextToken \in 1 .. (MaxToken + 1),
         issued \subseteq Credentials, CredentialsOK, CompleteJoin(s, c, r)
  PROVE  /\ MembershipIn(srv')
         /\ nextToken' \in 1 .. (MaxToken + 1)
         /\ issued' \subseteq Credentials
         /\ CredentialsOK'
  <1>1. PICK p : p = s.clients[c].peerId
    OBVIOUS
  <1>2. s \in Servers /\ Shaped(s.clients[c])
    BY DEF MembershipIn, SessionShapeIn
  <1>3. p \in PeerIds
    BY <1>1, <1>2, IdentityTypes DEF Shaped, IdentityStates
  <1>4. nextToken \in Tokens
    BY BoundsAssumption DEF CompleteJoin, Tokens
  <1>5. PICK t : t = EnterRoom(WithLease(s, r, s.clients[c].peerId, nextToken), c, r)
    OBVIOUS
  <1>6. /\ MembershipIn(t)
        /\ t.clients[c].state = "InRoom"
        /\ t.clients[c].resume \in Credentials
        /\ t.clients[c].resume.room # 0
        /\ t.clients[c].resume.peer # 0
        /\ t.clients[c].resume.token # 0
    BY <1>4, <1>5, JoinInv
  <1>7. \/ /\ srv' = PushRoomList(TellJoined(t, r, p))
           /\ nextToken' = nextToken + 1
           /\ issued' = issued \cup {t.clients[c].resume}
        \/ /\ srv' = Destroy(RollbackNewMembership(t, c), {c}, FALSE)
           /\ UNCHANGED <<nextToken, issued>>
    BY <1>1, <1>5 DEF CompleteJoin
  <1>8. MembershipIn(PushRoomList(TellJoined(t, r, p)))
    BY <1>3, <1>6, TellJoinedInv, PushInv
  <1>9. MembershipIn(Destroy(RollbackNewMembership(t, c), {c}, FALSE))
    <2>1. MembershipIn(RollbackNewMembership(t, c))
      BY <1>6, RollbackInv
    <2>2. {c} \in SUBSET Conns
      OBVIOUS
    <2> QED BY <2>1, <2>2, DestroyInv
  <1>10. /\ nextToken' \in 1 .. (MaxToken + 1)
         /\ issued' \subseteq Credentials
    <2>1. nextToken' \in {nextToken, nextToken + 1}
      BY <1>7
    <2>2. issued' \in {issued, issued \cup {t.clients[c].resume}}
      BY <1>7
    <2>3. nextToken' \in 1 .. (MaxToken + 1)
      BY <2>1, <1>4, BoundsAssumption DEF Tokens
    <2> QED BY <2>2, <2>3, <1>6
  <1>11. CredentialsOK'
    BY <1>6, <1>7 DEF CredentialsOK
  <1> QED BY <1>7, <1>8, <1>9, <1>10, <1>11

\* CREATE_ROOM (onCreateRoom) keeps the invariant, rolled back or not.
LEMMA CreateRoomStep ==
  ASSUME MembershipInv, NEW c \in Conns, NEW max \in Capacities,
         NEW protected \in BOOLEAN, OnCreateRoom(c, max, protected)
  PROVE  MembershipInv'
  <1>1. PICK p, r, key : /\ p = srv.clients[c].peerId /\ r = NextRoomId(srv)
                         /\ key = IF protected THEN nextToken ELSE 0
    OBVIOUS
  <1>2. /\ MembershipIn(srv) /\ srv \in Servers /\ Shaped(srv.clients[c])
        /\ nextToken \in 1 .. (MaxToken + 1) /\ issued \subseteq Credentials
        /\ CredentialsOK
    BY DEF MembershipInv, MembershipIn, SessionShapeIn, TypeOK
  <1>3. srv.clients[c].state = "LoggedIn" /\ r <= MaxRoomId /\ nextToken \in Tokens
    BY <1>1, <1>2, BoundsAssumption DEF OnCreateRoom, Dispatch, Tokens
  <1>4. p \in PeerIds
    BY <1>1, <1>2, <1>3, IdentityTypes DEF Shaped, IdentityStates
  <1>5. key \in 0 .. MaxToken
    BY <1>1, <1>3, BoundsAssumption DEF Tokens
  <1>6. PICK w : w = NewRoom(srv, r, p, max, key)
    OBVIOUS
  <1>7. r \in RoomIds /\ w.clients = srv.clients /\ MembershipIn(w)
    BY <1>1, <1>2, <1>3, <1>4, <1>5, <1>6, NewRoomInv
  <1>8. PICK t : t = EnterRoom(WithLease(w, r, w.clients[c].peerId, nextToken), c, r)
    OBVIOUS
  <1>9. /\ MembershipIn(t)
        /\ t.clients[c].state = "InRoom"
        /\ t.clients[c].resume \in Credentials
        /\ t.clients[c].resume.room # 0
        /\ t.clients[c].resume.peer # 0
        /\ t.clients[c].resume.token # 0
    BY <1>3, <1>7, <1>8, JoinInv
  <1>10. \/ /\ srv' = PushRoomList(t)
            /\ nextToken' = nextToken + 1
            /\ issued' = issued \cup {t.clients[c].resume}
         \/ /\ srv' = Destroy(RollbackNewMembership(t, c), {c}, FALSE)
            /\ UNCHANGED <<nextToken, issued>>
    BY <1>1, <1>6, <1>7, <1>8 DEF OnCreateRoom
  <1>11. MembershipIn(PushRoomList(t))
    BY <1>9, PushInv
  <1>12. MembershipIn(Destroy(RollbackNewMembership(t, c), {c}, FALSE))
    <2>1. MembershipIn(RollbackNewMembership(t, c))
      BY <1>9, RollbackInv
    <2>2. {c} \in SUBSET Conns
      OBVIOUS
    <2> QED BY <2>1, <2>2, DestroyInv
  <1>13. MembershipIn(srv')
    BY <1>10, <1>11, <1>12
  <1>14. nextToken' \in 1 .. (MaxToken + 1) /\ issued' \subseteq Credentials
    <2>1. nextToken' \in {nextToken, nextToken + 1}
      BY <1>10
    <2>2. issued' \in {issued, issued \cup {t.clients[c].resume}}
      BY <1>10
    <2>3. nextToken' \in 1 .. (MaxToken + 1)
      BY <2>1, <1>3, BoundsAssumption DEF Tokens
    <2> QED BY <2>2, <2>3, <1>2, <1>9
  <1>15. CredentialsOK'
    BY <1>2, <1>9, <1>10 DEF CredentialsOK
  <1> QED BY <1>13, <1>14, <1>15 DEF MembershipInv, MembershipIn, TypeOK

\* JOIN_ROOM (onJoinRoom, completeJoin) keeps the invariant: refused, asked
\* for a password, entered or rolled back.
LEMMA JoinRoomStep ==
  ASSUME MembershipInv, NEW c \in Conns, NEW r \in RoomIds, OnJoinRoom(c, r)
  PROVE  MembershipInv'
  <1>1. PICK s : s = CleanupExpiredLeases(srv)
    OBVIOUS
  <1>2. /\ MembershipIn(srv)
        /\ nextToken \in 1 .. (MaxToken + 1) /\ issued \subseteq Credentials
        /\ CredentialsOK
    BY DEF MembershipInv, TypeOK
  <1>3. MembershipIn(s) /\ SameIdentity(srv.clients[c], s.clients[c])
    BY <1>1, <1>2, CleanupInv
  <1>4. s.clients[c].state = "LoggedIn" /\ s \in Servers
    BY <1>3 DEF OnJoinRoom, Dispatch, SameIdentity, MembershipIn
  <1> DEFINE y == [s.clients[c] EXCEPT !.state = "AwaitRoomPassword",
                     !.pending = [room |-> r, key |-> s.rooms[r].key]]
  <1>5. y \in Sessions /\ y.state = "AwaitRoomPassword" /\ y.pending.room = r
        /\ y.peerId = s.clients[c].peerId /\ y.roomId = s.clients[c].roomId
    <2>1. s.rooms[r].key \in 0 .. MaxToken /\ r \in 0 .. MaxRoomId
      <3>1. s.rooms[r] \in Rooms
        BY <1>4 DEF Servers
      <3>2. s.rooms[r].key \in 0 .. MaxToken
        BY <3>1 DEF Rooms
      <3> QED BY <3>2, BoundsAssumption DEF RoomIds
    <2>2. s.clients[c] \in Sessions
      BY <1>4 DEF Servers
    <2>3. [room |-> r, key |-> s.rooms[r].key]
            \in [room : 0 .. MaxRoomId, key : 0 .. MaxToken]
      BY <2>1
    <2>4. [room |-> r, key |-> s.rooms[r].key].room = r
      OBVIOUS
    <2>5. PICK a : a = [room |-> r, key |-> s.rooms[r].key]
      OBVIOUS
    <2>6. y = [s.clients[c] EXCEPT !.state = "AwaitRoomPassword", !.pending = a]
      BY <2>5
    <2> HIDE DEF y
    <2> QED BY <2>2, <2>3, <2>4, <2>5, <2>6, LobbyTypes DEF Sessions
  <1>6. Shaped(y)
    <2>1. Shaped(s.clients[c]) /\ r # 0
      BY <1>3, BoundsAssumption DEF MembershipIn, SessionShapeIn, RoomIds
    <2>2. s.clients[c].peerId # 0 /\ s.clients[c].roomId = 0
      BY <2>1, <1>4 DEF Shaped, IdentityStates
    <2> HIDE DEF y
    <2> QED BY <1>5, <2>1, <2>2 DEF Shaped, IdentityStates
  <1>7. \/ srv' = s /\ UNCHANGED <<nextToken, issued>>
        \/ /\ \E sent \in BOOLEAN : Respond(c, sent, WithSession(s, c, y))
           /\ UNCHANGED <<nextToken, issued>>
        \/ CompleteJoin(s, c, r)
    BY <1>1 DEF OnJoinRoom, WithSession
  <1> HIDE DEF y
  <1>8. CASE srv' = s /\ UNCHANGED <<nextToken, issued>>
    BY <1>2, <1>3, <1>8 DEF MembershipInv, MembershipIn, TypeOK, CredentialsOK
  <1>9. CASE /\ \E sent \in BOOLEAN : Respond(c, sent, WithSession(s, c, y))
             /\ UNCHANGED <<nextToken, issued>>
    <2>1. MembershipIn(WithSession(s, c, y))
      BY <1>3, <1>4, <1>5, <1>6, StateInv
    <2>2. MembershipIn(srv')
      BY <1>9, <2>1, RespondInv DEF Respond
    <2> QED BY <1>2, <1>9, <2>2 DEF MembershipInv, MembershipIn, TypeOK, CredentialsOK
  <1>10. CASE CompleteJoin(s, c, r)
    <2>1. /\ MembershipIn(srv')
          /\ nextToken' \in 1 .. (MaxToken + 1)
          /\ issued' \subseteq Credentials
          /\ CredentialsOK'
      BY <1>2, <1>3, <1>4, <1>10, CompleteJoinStep
    <2> QED BY <2>1 DEF MembershipInv, MembershipIn, TypeOK
  <1> QED BY <1>7, <1>8, <1>9, <1>10

\* The answer to a password challenge (onAuthResponse) keeps the invariant.
LEMMA AuthResponseStep ==
  ASSUME MembershipInv, NEW c \in Conns, NEW knows \in BOOLEAN,
         OnAuthResponse(c, knows)
  PROVE  MembershipInv'
  <1>1. PICK s : s = CleanupExpiredLeases(srv)
    OBVIOUS
  <1>2. /\ MembershipIn(srv) /\ srv \in Servers /\ Shaped(srv.clients[c])
        /\ nextToken \in 1 .. (MaxToken + 1) /\ issued \subseteq Credentials
        /\ CredentialsOK
    BY DEF MembershipInv, TypeOK, MembershipIn, SessionShapeIn
  <1>3. MembershipIn(s) /\ SameIdentity(srv.clients[c], s.clients[c])
    BY <1>1, <1>2, CleanupInv
  <1>4. s.clients[c].state = "AwaitRoomPassword" /\ s \in Servers
        /\ srv.clients[c].state = "AwaitRoomPassword"
    BY <1>3 DEF OnAuthResponse, Dispatch, SameIdentity, MembershipIn
  <1>5. PICK r : r = srv.clients[c].pending.room
    OBVIOUS
  <1>6. r \in RoomIds
    <2>1. r # 0
      BY <1>2, <1>4, <1>5 DEF Shaped
    <2>2. srv.clients[c] \in Sessions
      BY <1>2 DEF Servers
    <2> QED BY <2>1, <2>2, <1>5, BoundsAssumption DEF Sessions, RoomIds
  <1> DEFINE y == [s.clients[c] EXCEPT !.state = "LoggedIn",
                     !.pending = [room |-> 0, key |-> 0]]
  <1>7. y \in Sessions /\ y.state = "LoggedIn"
        /\ y.peerId = s.clients[c].peerId /\ y.roomId = s.clients[c].roomId
    <2>1. s.clients[c] \in Sessions
      BY <1>4 DEF Servers
    <2> QED BY <2>1, LobbyTypes DEF Sessions
  <1>8. Shaped(y)
    <2>1. Shaped(s.clients[c])
      BY <1>3 DEF MembershipIn, SessionShapeIn
    <2>2. s.clients[c].peerId # 0 /\ s.clients[c].roomId = 0
      BY <2>1, <1>4 DEF Shaped, IdentityStates
    <2> HIDE DEF y
    <2> QED BY <1>7, <2>1, <2>2 DEF Shaped, IdentityStates
  <1>9. \/ srv' = WithSession(s, c, y) /\ UNCHANGED <<nextToken, issued>>
        \/ CompleteJoin(WithSession(s, c, y), c, r)
    BY <1>1, <1>5 DEF OnAuthResponse, WithSession
  <1> HIDE DEF y
  <1>10. PICK t : t = WithSession(s, c, y)
    OBVIOUS
  <1>11. MembershipIn(t)
    BY <1>3, <1>4, <1>7, <1>8, <1>10, StateInv
  <1>12. t.clients[c] = y
    BY <1>4, <1>7, <1>10, SetSession
  <1>13. CASE srv' = t /\ UNCHANGED <<nextToken, issued>>
    BY <1>2, <1>11, <1>13 DEF MembershipInv, MembershipIn, TypeOK, CredentialsOK
  <1>14. CASE CompleteJoin(t, c, r)
    <2>1. /\ MembershipIn(srv')
          /\ nextToken' \in 1 .. (MaxToken + 1)
          /\ issued' \subseteq Credentials
          /\ CredentialsOK'
      BY <1>2, <1>6, <1>7, <1>11, <1>12, <1>14, CompleteJoinStep
    <2> QED BY <2>1 DEF MembershipInv, MembershipIn, TypeOK
  <1> QED BY <1>9, <1>10, <1>13, <1>14

\* RESUME_ROOM (onResumeRoom, completeResume) keeps the invariant, accepted
\* or refused.
LEMMA ResumeRoomStep ==
  ASSUME MembershipInv, NEW c \in Conns, OnResumeRoom(c)
  PROVE  MembershipIn(srv')
  <1>1. PICK x : x = srv.clients[c]
    OBVIOUS
  <1>2. MembershipIn(srv) /\ srv.clients[c].state = "ResumePending"
    BY DEF MembershipInv, OnResumeRoom, Dispatch
  <1>3. \/ \E sent \in BOOLEAN : Respond(c, sent, Resumed(srv, c))
        \/ srv' = PushRoomList(Depart(ToLobby(srv, c), x.resume.room, x.resume.peer))
        \/ /\ srv' = ToLobby(srv, c)
           /\ srv.rooms[x.resume.room].leases[x.resume.peer].token # x.resume.token
    BY <1>1 DEF OnResumeRoom, ToLobby, LobbySession, WithSession
  <1>4. CASE \E sent \in BOOLEAN : Respond(c, sent, Resumed(srv, c))
    <2>1. MembershipIn(Resumed(srv, c))
      BY <1>2, ResumedInv
    <2> QED BY <1>4, <2>1, RespondInv DEF Respond
  <1>5. CASE srv' = PushRoomList(Depart(ToLobby(srv, c), x.resume.room, x.resume.peer))
    <2>1. MembershipIn(Depart(ToLobby(srv, c), x.resume.room, x.resume.peer))
      BY <1>1, <1>2, ResumeRefusedInv
    <2> QED BY <1>5, <2>1, PushInv
  <1>6. CASE /\ srv' = ToLobby(srv, c)
             /\ srv.rooms[x.resume.room].leases[x.resume.peer].token # x.resume.token
    BY <1>1, <1>2, <1>6, ResumeRefusedInv
  <1> QED BY <1>3, <1>4, <1>5, <1>6

\* LEAVE_ROOM (onLeaveRoom) keeps the invariant.
LEMMA LeaveRoomStep ==
  ASSUME MembershipInv, NEW c \in Conns, OnLeaveRoom(c)
  PROVE  MembershipIn(srv')
  <1>1. MembershipIn(LeaveRoom(srv, c))
    BY LeaveInv DEF MembershipInv, OnLeaveRoom, Dispatch
  <1> QED BY <1>1, PushInv DEF OnLeaveRoom

\* LOGOUT (onLogout) keeps the invariant, drained at once or not.
LEMMA LogoutStep ==
  ASSUME MembershipInv, NEW c \in Conns, OnLogout(c)
  PROVE  MembershipIn(srv')
  <1>1. MembershipIn(Logout(srv, c))
    BY LogoutInv DEF MembershipInv, OnLogout
  <1>2. PICK drained \in BOOLEAN : Respond(c, ~drained, Logout(srv, c))
    BY DEF OnLogout
  <1>3. PICK sent \in BOOLEAN : sent = ~drained
    OBVIOUS
  <1> QED BY <1>1, <1>2, <1>3, RespondInv DEF Respond

\* The periodic scan: sessions destroyed, then leases expired.
LEMMA CheckTimeoutsStep ==
  ASSUME MembershipInv, CheckTimeouts
  PROVE  MembershipIn(srv')
  <1>1. PICK dead \in SUBSET Conns :
          srv' = CleanupExpiredLeases(Destroy(srv, dead, FALSE))
    <2>1. {d \in Conns : srv.clients[d].state # "Absent" /\ ~srv.clients[d].alive}
            \in SUBSET Conns
      OBVIOUS
    <2> QED BY <2>1 DEF CheckTimeouts
  <1>2. MembershipIn(Destroy(srv, dead, FALSE))
    BY DestroyInv DEF MembershipInv
  <1> QED BY <1>1, <1>2, CleanupInv

\* The handlers that end a session or mark it.
LEMMA OtherSteps ==
  ASSUME MembershipInv, NEW c \in Conns,
         \/ OnListRooms(c) \/ HandleClientDisconnect(c) \/ SessionDies(c)
         \/ SendDropped(c)
  PROVE  MembershipIn(srv')
  <1>0. MembershipIn(srv) /\ srv.clients[c] \in Sessions
    BY DEF MembershipInv, MembershipIn, Servers
  <1>1. CASE OnListRooms(c)
    BY <1>0, <1>1, CleanupInv DEF OnListRooms
  <1>2. CASE HandleClientDisconnect(c)
    <2>1. {c} \in SUBSET Conns
      OBVIOUS
    <2> QED BY <1>0, <1>2, <2>1, DestroyInv DEF HandleClientDisconnect
  <1>3. CASE SessionDies(c)
    <2>1. PICK y : y = [srv.clients[c] EXCEPT !.alive = FALSE]
      OBVIOUS
    <2>2. y \in Sessions /\ SameIdentity(srv.clients[c], y)
      BY <1>0, <2>1 DEF Sessions, SameIdentity
    <2>3. srv' = WithSession(srv, c, y)
      BY <1>3, <2>1 DEF SessionDies, WithSession
    <2> QED BY <1>0, <2>2, <2>3, SameSessionInv
  <1>4. CASE SendDropped(c)
    <2>1. PICK y : y = [srv.clients[c] EXCEPT !.gap = TRUE, !.told = {}]
      OBVIOUS
    <2>2. y \in Sessions /\ SameIdentity(srv.clients[c], y)
      BY <1>0, <2>1 DEF Sessions, SameIdentity
    <2>3. srv' = WithSession(srv, c, y)
      BY <1>4, <2>1 DEF SendDropped, WithSession
    <2> QED BY <1>0, <2>2, <2>3, SameSessionInv
  <1> QED BY <1>1, <1>2, <1>3, <1>4

-----------------------------------------------------------------------------
(* The theorems *)

\* The server starts with no session, no room and no identifier handed out.
LEMMA InitInv == Init => MembershipInv
  <1> SUFFICES ASSUME Init PROVE MembershipInv
    OBVIOUS
  <1>1. srv \in Servers
    BY Nothing, BoundsAssumption, NoConnAssumption DEF Init, Servers, ListEntries
  <1>2. /\ \A c \in Conns : srv.clients[c] = NoSession
        /\ \A p \in PeerIds : srv.peerMap[p] = NoConn
        /\ \A r \in RoomIds, p \in PeerIds : srv.rooms[r].leases[p].token = 0
        /\ srv.freePeerIds = {}
    BY Nothing DEF Init
  <1>3. NoSession.peerId = 0 /\ NoSession.roomId = 0 /\ NoSession.state = "Absent"
    BY DEF NoSession
  <1>4. SessionShapeIn(srv)
    BY <1>2, <1>3 DEF SessionShapeIn, Shaped, IdentityStates
  <1>5. IndexExactIn(srv) /\ FreshPeerIdsIn(srv) /\ OneLeasePerPeerIn(srv)
    BY <1>2, <1>3 DEF IndexExactIn, FreshPeerIdsIn, OneLeasePerPeerIn
  <1>6. SessionLeaseIn(srv)
    BY <1>2 DEF SessionLeaseIn
  <1>7. nextToken \in 1 .. (MaxToken + 1) /\ issued = {}
    BY BoundsAssumption DEF Init
  <1> QED BY <1>1, <1>4, <1>5, <1>6, <1>7
          DEF MembershipInv, MembershipIn, TypeOK, CredentialsOK

\* Every handler preserves the invariant.
LEMMA NextInv == MembershipInv /\ [Next]_vars => MembershipInv'
  <1> SUFFICES ASSUME MembershipInv, [Next]_vars PROVE MembershipInv'
    OBVIOUS
  <1>1. ASSUME MembershipIn(srv'), UNCHANGED <<nextToken, issued>>
        PROVE  MembershipInv'
    BY <1>1 DEF MembershipInv, MembershipIn, TypeOK, CredentialsOK
  <1>2. ASSUME NEW c \in Conns, Authenticate(c) PROVE MembershipInv'
    BY <1>1, <1>2, AuthenticateStep DEF Authenticate
  <1>3. ASSUME NEW c \in Conns, NEW cred, OnLoginFresh(c, cred) PROVE MembershipInv'
    BY <1>1, <1>3, LoginFreshStep DEF OnLoginFresh
  <1>4. ASSUME NEW c \in Conns, NEW cred \in issued, OnLoginResume(c, cred)
        PROVE  MembershipInv'
    BY <1>1, <1>4, LoginResumeStep DEF OnLoginResume
  <1>5. ASSUME NEW c \in Conns, NEW max \in Capacities, NEW protected \in BOOLEAN,
               OnCreateRoom(c, max, protected)
        PROVE  MembershipInv'
    BY <1>5, CreateRoomStep
  <1>6. ASSUME NEW c \in Conns, NEW r \in RoomIds, OnJoinRoom(c, r)
        PROVE  MembershipInv'
    BY <1>6, JoinRoomStep
  <1>7. ASSUME NEW c \in Conns, NEW knows \in BOOLEAN, OnAuthResponse(c, knows)
        PROVE  MembershipInv'
    BY <1>7, AuthResponseStep
  <1>8. ASSUME NEW c \in Conns, OnResumeRoom(c) PROVE MembershipInv'
    BY <1>1, <1>8, ResumeRoomStep DEF OnResumeRoom
  <1>9. ASSUME NEW c \in Conns, OnLeaveRoom(c) PROVE MembershipInv'
    BY <1>1, <1>9, LeaveRoomStep DEF OnLeaveRoom
  <1>10. ASSUME NEW c \in Conns, OnLogout(c) PROVE MembershipInv'
    BY <1>1, <1>10, LogoutStep DEF OnLogout
  <1>11. ASSUME NEW c \in Conns,
                \/ OnListRooms(c) \/ HandleClientDisconnect(c) \/ SessionDies(c)
                \/ SendDropped(c)
         PROVE  MembershipInv'
    BY <1>1, <1>11, OtherSteps
       DEF OnListRooms, HandleClientDisconnect, SessionDies, SendDropped
  <1>12. CASE CheckTimeouts
    BY <1>1, <1>12, CheckTimeoutsStep DEF CheckTimeouts
  <1>13. CASE Tick
    BY <1>1, <1>13, TickInv DEF Tick, MembershipInv
  <1>14. CASE UNCHANGED vars
    BY <1>14 DEF vars, MembershipInv, MembershipIn, TypeOK, CredentialsOK,
       SessionShapeIn, IndexExactIn, FreshPeerIdsIn, OneLeasePerPeerIn, SessionLeaseIn
  <1> QED
    BY <1>2, <1>3, <1>4, <1>5, <1>6, <1>7, <1>8, <1>9, <1>10, <1>11, <1>12,
       <1>13, <1>14 DEF Next

\* Identities, index and leases fit together in every reachable state: a lease
\* and the peer id in it are never given to anyone else.
THEOREM MembershipSafe == Spec => []MembershipInv
  BY InitInv, NextInv, PTL DEF Spec

\* Every member of the server keeps its type.
THEOREM TypeSafe == Spec => []TypeOK
  <1>1. MembershipInv => TypeOK
    BY DEF MembershipInv
  <1> QED BY MembershipSafe, <1>1, PTL

\* The session index is exact.
THEOREM IndexSafe == Spec => []IndexExact
  <1>1. MembershipInv => IndexExact
    BY DEF MembershipInv, MembershipIn, IndexExact
  <1> QED BY MembershipSafe, <1>1, PTL

\* allocatePeerId never hands out an identifier that is in use.
THEOREM FreshIdsSafe == Spec => []FreshPeerIds
  <1>1. MembershipInv => FreshPeerIds
    BY DEF MembershipInv, MembershipIn, FreshPeerIds
  <1> QED BY MembershipSafe, <1>1, PTL

-----------------------------------------------------------------------------
(* The invariant, for one state of the server *)

\* What holds in a room that has members, and in one that has none yet.
RoomFits(room) ==
  /\ Holders(room) # {} => room.host \in Holders(room)
  /\ Cardinality(Holders(room)) <= room.max
  /\ \A p, q \in Holders(room) : room.leases[p].vip = room.leases[q].vip => p = q
  /\ \A p \in PeerIds : room.leases[p].online => room.leases[p].token # 0

\* A room exists as long as it has members.
RoomOK(room) ==
  /\ RoomFits(room)
  /\ room # NoRoom => Holders(room) # {}

\* The identifiers that createRoom may take name no room.
RoomIdsOK(s) ==
  /\ \A r \in RoomIds : r \in s.freeRoomIds \/ r >= s.nextRoomId
       => s.rooms[r] = NoRoom
  /\ \A r \in s.freeRoomIds : r < s.nextRoomId

RoomsIn(s) ==
  /\ \A r \in RoomIds : RoomOK(s.rooms[r])
  /\ RoomIdsOK(s)

\* A session that is alive and in a room.
Seated(x) == x.alive /\ x.state = "InRoom"

\* Its lease is online and the one it was given.
SeatOK(x, room) ==
  LET l == room.leases[x.peerId]
  IN /\ l.token # 0 /\ l.online
     /\ l.vip = x.vip
     /\ x.resume = [room |-> x.roomId, peer |-> x.peerId, token |-> l.token]

SeatsIn(s) ==
  \A c \in Conns : Seated(s.clients[c]) =>
    SeatOK(s.clients[c], s.rooms[s.clients[c].roomId])

\* An online lease of peer p in room r has its session connected.
OnlineOK(s, r, p) ==
  s.rooms[r].leases[p].online =>
    /\ s.peerMap[p] # NoConn
    /\ s.clients[s.peerMap[p]].state = "InRoom"
    /\ s.clients[s.peerMap[p]].roomId = r

OnlineIn(s) == \A r \in RoomIds, p \in PeerIds : OnlineOK(s, r, p)

\* A session to which nothing was lost knows the members of its room.
KnownIn(s) ==
  \A c \in Conns : Seated(s.clients[c]) /\ ~s.clients[c].gap
    => s.clients[c].told = Holders(s.rooms[s.clients[c].roomId])

ListedIn(s) == s.published = Listing(s)

\* All of it: the inductive invariant.
SoundIn(s) ==
  /\ MembershipIn(s)
  /\ RoomsIn(s)
  /\ SeatsIn(s)
  /\ OnlineIn(s)
  /\ KnownIn(s)
  /\ ListedIn(s)

SoundInv == MembershipInv /\ SoundIn(srv)

-----------------------------------------------------------------------------
(* Rooms *)

\* The members of a room are finitely many.
LEMMA HoldersFinite ==
  ASSUME NEW room
  PROVE  IsFiniteSet(Holders(room)) /\ Holders(room) \subseteq PeerIds
  <1>1. IsFiniteSet(PeerIds)
    BY FS_Interval, BoundsAssumption DEF PeerIds
  <1>2. Holders(room) \subseteq PeerIds
    BY DEF Holders
  <1> QED BY <1>1, <1>2, FS_Subset

\* The empty room is well formed.
LEMMA NoRoomOK == RoomOK(NoRoom) /\ Holders(NoRoom) = {}
  <1>1. Holders(NoRoom) = {}
    BY Nothing DEF Holders
  <1>2. Cardinality(Holders(NoRoom)) = 0
    BY <1>1, FS_EmptySet
  <1>3. NoRoom.max = 0 /\ \A p \in PeerIds : NoRoom.leases[p].online = FALSE
    BY DEF NoRoom, NoLease
  <1> QED BY <1>1, <1>2, <1>3 DEF RoomOK, RoomFits

\* The room new has the members of room with their addresses, and its limits.
SameMembers(room, new) ==
  /\ new.max = room.max
  /\ new.key = room.key
  /\ \A p \in PeerIds : /\ new.leases[p].token = room.leases[p].token
                        /\ new.leases[p].vip = room.leases[p].vip

\* Marking leases online or offline, or letting their time pass, keeps a room
\* well formed.
LEMMA SameMembersOK ==
  ASSUME NEW room, RoomFits(room), NEW new, SameMembers(room, new),
         Holders(new) # {} => new.host \in Holders(new),
         \A p \in PeerIds : new.leases[p].online => new.leases[p].token # 0
  PROVE  RoomFits(new) /\ Holders(new) = Holders(room)
  <1>1. Holders(new) = Holders(room)
    BY DEF SameMembers, Holders
  <1>2. \A p \in Holders(room) : new.leases[p].vip = room.leases[p].vip
    BY HoldersFinite DEF SameMembers
  <1> QED BY <1>1, <1>2 DEF RoomFits, SameMembers

\* The room new has some of the members of room.
FewerMembers(room, new) ==
  /\ new.max = room.max
  /\ new.key = room.key
  /\ \A p \in PeerIds : new.leases[p].token # 0 =>
       /\ new.leases[p].token = room.leases[p].token
       /\ new.leases[p].vip = room.leases[p].vip

\* Removing leases keeps a room well formed once ensureHost has run.
LEMMA FewerMembersOK ==
  ASSUME NEW room \in Rooms, RoomFits(room), NEW new, FewerMembers(room, new),
         Holders(new) # {} => new.host \in Holders(new),
         \A p \in PeerIds : new.leases[p].online => new.leases[p].token # 0
  PROVE  RoomFits(new) /\ Holders(new) \subseteq Holders(room)
  <1>1. Holders(new) \subseteq Holders(room)
    BY DEF FewerMembers, Holders
  <1>2. \A p \in Holders(new) : new.leases[p].vip = room.leases[p].vip
    BY DEF FewerMembers, Holders
  <1>3. Cardinality(Holders(new)) <= Cardinality(Holders(room))
    BY <1>1, HoldersFinite, FS_Subset
  <1>4. Cardinality(Holders(new)) \in Nat /\ Cardinality(Holders(room)) \in Nat
        /\ room.max \in Nat
    BY HoldersCount DEF Rooms
  <1>5. Cardinality(Holders(new)) <= new.max
    BY <1>3, <1>4 DEF RoomFits, FewerMembers
  <1> QED BY <1>1, <1>2, <1>5 DEF RoomFits

\* A lease that is marked keeps its address and token.
LEMMA MarkedLease ==
  ASSUME NEW l \in Leases
  PROVE  /\ OfflineLease(l).vip = l.vip /\ OfflineLease(l).token = l.token
         /\ ~OfflineLease(l).online
         /\ OnlineLease(l).vip = l.vip /\ OnlineLease(l).token = l.token
         /\ OnlineLease(l).online
  BY DEF Leases, OfflineLease, OnlineLease

\* Session c of D makes destroyClient mark the lease of peer p in room r.
Detaches(s, D, r, p) ==
  \E c \in D : DetachRoom(s, c) = r /\ s.clients[c].peerId = p

\* destroyClient marks exactly the leases of the sessions it destroys.
LEMMA DetachedExact ==
  ASSUME NEW s \in Servers, NEW D, NEW r \in RoomIds, RoomOK(s.rooms[r])
  PROVE  LET new == DetachedRoom(s, D, r)
         IN /\ SameMembers(s.rooms[r], new)
            /\ \A p \in PeerIds :
                 new.leases[p].online <=>
                   s.rooms[r].leases[p].online /\ ~Detaches(s, D, r, p)
            /\ RoomOK(new)
            /\ s.rooms[r] = NoRoom => new = NoRoom
  <1> DEFINE Gone(p) == s.rooms[r].leases[p].token # 0 /\ Detaches(s, D, r, p)
             leases == [p \in PeerIds |->
                          IF Gone(p) THEN OfflineLease(s.rooms[r].leases[p])
                                     ELSE s.rooms[r].leases[p]]
  <1>1. PICK new : new = DetachedRoom(s, D, r)
    OBVIOUS
  <1>2. s.rooms[r] \in Rooms /\ \A p \in PeerIds : s.rooms[r].leases[p] \in Leases
    BY DEF Servers, Rooms
  <1>3. new = [s.rooms[r] EXCEPT !.leases = leases]
    BY <1>1 DEF DetachedRoom, Detaches
  <1>4. /\ new.max = s.rooms[r].max /\ new.key = s.rooms[r].key
        /\ new.host = s.rooms[r].host /\ new.leases = leases
    <2> HIDE DEF leases
    <2> QED BY <1>2, <1>3 DEF Rooms
  <1>5. ASSUME NEW p \in PeerIds
        PROVE  /\ new.leases[p].token = s.rooms[r].leases[p].token
               /\ new.leases[p].vip = s.rooms[r].leases[p].vip
               /\ new.leases[p].online <=>
                    s.rooms[r].leases[p].online /\ ~Detaches(s, D, r, p)
    <2>1. s.rooms[r].leases[p].online => s.rooms[r].leases[p].token # 0
      BY DEF RoomOK, RoomFits
    <2>2. new.leases[p] = IF Gone(p) THEN OfflineLease(s.rooms[r].leases[p])
                                     ELSE s.rooms[r].leases[p]
      BY <1>4
    <2>3. CASE Gone(p)
      BY <2>2, <2>3, <1>2, MarkedLease
    <2>4. CASE ~Gone(p)
      BY <2>1, <2>2, <2>4
    <2> QED BY <2>3, <2>4
  <1>6. SameMembers(s.rooms[r], new)
    BY <1>4, <1>5 DEF SameMembers
  <1>7. Holders(new) = Holders(s.rooms[r])
    BY <1>6 DEF SameMembers, Holders
  <1>8. RoomFits(new)
    <2>1. Holders(new) # {} => new.host \in Holders(new)
      BY <1>4, <1>7 DEF RoomOK, RoomFits
    <2>2. \A p \in PeerIds : new.leases[p].online => new.leases[p].token # 0
      BY <1>5 DEF RoomOK, RoomFits
    <2> QED BY <1>6, <2>1, <2>2, SameMembersOK DEF RoomOK
  <1>9. s.rooms[r] = NoRoom => new = NoRoom
    <2> SUFFICES ASSUME s.rooms[r] = NoRoom PROVE new = NoRoom
      OBVIOUS
    <2>1. \A p \in PeerIds : leases[p] = s.rooms[r].leases[p]
      BY Nothing
    <2>2. leases = s.rooms[r].leases
      BY <1>2, <2>1 DEF Rooms
    <2> HIDE DEF leases
    <2> QED BY <1>2, <1>3, <2>2 DEF Rooms
  <1>10. RoomOK(new)
    BY <1>7, <1>8, <1>9 DEF RoomOK
  <1> QED BY <1>1, <1>5, <1>6, <1>9, <1>10

\* The effect of marking or ageing the leases of a room.
LEMMA LeaseOpsExact ==
  ASSUME NEW room \in Rooms, RoomOK(room), NEW p \in PeerIds
  PROVE  /\ LET new == MarkLeaseOffline(room, p)
            IN /\ SameMembers(room, new) /\ RoomOK(new)
               /\ \A q \in PeerIds :
                    new.leases[q].online <=> room.leases[q].online /\ q # p
         /\ LET new == AgedRoom(room)
            IN /\ SameMembers(room, new) /\ RoomOK(new)
               /\ \A q \in PeerIds :
                    new.leases[q].online <=> room.leases[q].online
               /\ room = NoRoom => new = NoRoom
         /\ p \in Holders(room) =>
              LET new == MarkLeaseOnline(room, p)
              IN /\ SameMembers(room, new) /\ RoomOK(new)
                 /\ \A q \in PeerIds :
                      new.leases[q].online <=> room.leases[q].online \/ q = p
  <1>1. /\ room.leases \in [PeerIds -> Leases]
        /\ \A q \in PeerIds : room.leases[q] \in Leases
    BY DEF Rooms
  <1>2. \A q \in PeerIds : room.leases[q].online => room.leases[q].token # 0
    BY DEF RoomOK, RoomFits
  <1>3. LET new == MarkLeaseOffline(room, p)
        IN /\ SameMembers(room, new) /\ RoomOK(new)
           /\ \A q \in PeerIds :
                new.leases[q].online <=> room.leases[q].online /\ q # p
    <2>1. PICK new : new = MarkLeaseOffline(room, p)
      OBVIOUS
    <2>2. CASE p \notin Holders(room)
      <3>1. new = room /\ room.leases[p].token = 0
        BY <2>1, <2>2 DEF MarkLeaseOffline, Holders
      <3> QED BY <2>1, <3>1, <1>2 DEF SameMembers
    <2>3. CASE p \in Holders(room)
      <3>1. PICK l : l = OfflineLease(room.leases[p])
        OBVIOUS
      <3>2. l.vip = room.leases[p].vip /\ l.token = room.leases[p].token /\ ~l.online
        BY <1>1, <3>1, MarkedLease
      <3>3. new = [room EXCEPT !.leases[p] = l]
        BY <2>1, <2>3, <3>1 DEF MarkLeaseOffline
      <3>4. /\ new.max = room.max /\ new.key = room.key /\ new.host = room.host
            /\ new.leases = [room.leases EXCEPT ![p] = l]
        BY <3>3 DEF Rooms
      <3>5. \A q \in PeerIds : new.leases[q] = IF q = p THEN l ELSE room.leases[q]
        BY <3>4, <1>1
      <3>6. SameMembers(room, new)
        BY <3>2, <3>4, <3>5 DEF SameMembers
      <3>7. \A q \in PeerIds :
              new.leases[q].online <=> room.leases[q].online /\ q # p
        BY <3>2, <3>5
      <3>8. Holders(new) = Holders(room)
        BY <3>6 DEF SameMembers, Holders
      <3>9. RoomFits(new)
        <4>1. Holders(new) # {} => new.host \in Holders(new)
          BY <3>4, <3>8 DEF RoomOK, RoomFits
        <4>2. \A q \in PeerIds : new.leases[q].online => new.leases[q].token # 0
          BY <1>2, <3>6, <3>7 DEF SameMembers
        <4> QED BY <3>6, <4>1, <4>2, SameMembersOK DEF RoomOK
      <3> QED BY <2>1, <2>3, <3>6, <3>7, <3>8, <3>9 DEF RoomOK
    <2> QED BY <2>2, <2>3
  <1>4. LET new == AgedRoom(room)
        IN /\ SameMembers(room, new) /\ RoomOK(new)
           /\ \A q \in PeerIds :
                new.leases[q].online <=> room.leases[q].online
           /\ room = NoRoom => new = NoRoom
    <2> DEFINE Aged(l) == IF ~l.online /\ l.left > 0 THEN [l EXCEPT !.left = @ - 1]
                                                     ELSE l
               leases == [q \in PeerIds |-> Aged(room.leases[q])]
    <2>1. ASSUME NEW l \in Leases
          PROVE  /\ Aged(l).token = l.token /\ Aged(l).vip = l.vip
                 /\ Aged(l).online = l.online
      BY DEF Leases
    <2>2. PICK new : new = AgedRoom(room)
      OBVIOUS
    <2>3. new = [room EXCEPT !.leases = leases]
      BY <2>2 DEF AgedRoom
    <2>4. room = NoRoom => \A q \in PeerIds : Aged(room.leases[q]) = room.leases[q]
      BY DEF NoRoom, NoLease
    <2> HIDE DEF Aged
    <2>5. \A q \in PeerIds : leases[q].token = room.leases[q].token
            /\ leases[q].vip = room.leases[q].vip
            /\ leases[q].online = room.leases[q].online
      BY <1>1, <2>1
    <2>6. room = NoRoom => leases = room.leases
      BY <1>1, <2>4
    <2> HIDE DEF leases
    <2>7. /\ new.max = room.max /\ new.key = room.key /\ new.host = room.host
          /\ new.leases = leases
      BY <2>3 DEF Rooms
    <2>8. room = NoRoom => new = NoRoom
      BY <2>3, <2>6 DEF Rooms
    <2>9. SameMembers(room, new)
      BY <2>5, <2>7 DEF SameMembers
    <2>10. Holders(new) = Holders(room)
      BY <2>9 DEF SameMembers, Holders
    <2>11. \A q \in PeerIds : new.leases[q].online <=> room.leases[q].online
      BY <2>5, <2>7
    <2>12. RoomFits(new)
      <3>1. Holders(new) # {} => new.host \in Holders(new)
        BY <2>7, <2>10 DEF RoomOK, RoomFits
      <3>2. \A q \in PeerIds : new.leases[q].online => new.leases[q].token # 0
        BY <1>2, <2>9, <2>11 DEF SameMembers
      <3> QED BY <2>9, <3>1, <3>2, SameMembersOK DEF RoomOK
    <2> QED BY <2>2, <2>8, <2>9, <2>10, <2>11, <2>12 DEF RoomOK
  <1>5. p \in Holders(room) =>
          LET new == MarkLeaseOnline(room, p)
          IN /\ SameMembers(room, new) /\ RoomOK(new)
             /\ \A q \in PeerIds :
                  new.leases[q].online <=> room.leases[q].online \/ q = p
    <2> SUFFICES ASSUME p \in Holders(room)
                 PROVE  LET new == MarkLeaseOnline(room, p)
                        IN /\ SameMembers(room, new) /\ RoomOK(new)
                           /\ \A q \in PeerIds : new.leases[q].online
                                <=> room.leases[q].online \/ q = p
      OBVIOUS
    <2>1. PICK new : new = MarkLeaseOnline(room, p)
      OBVIOUS
    <2>2. PICK l : l = OnlineLease(room.leases[p])
      OBVIOUS
    <2>3. /\ l.vip = room.leases[p].vip /\ l.token = room.leases[p].token /\ l.online
          /\ l \in Leases
      BY <1>1, <2>2, MarkedLease, OfflineLeaseType
    <2>4. PICK x : x = [room EXCEPT !.leases[p] = l]
      OBVIOUS
    <2>5. /\ x \in Rooms /\ x.max = room.max /\ x.key = room.key
          /\ x.leases = [room.leases EXCEPT ![p] = l]
      BY <2>3, <2>4 DEF Rooms
    <2>6. new = EnsureHost(x)
      BY <2>1, <2>2, <2>4 DEF MarkLeaseOnline
    <2>7. /\ new.max = room.max /\ new.key = room.key /\ new.leases = x.leases
          /\ Holders(x) # {} => new.host \in Holders(x)
      BY <2>5, <2>6, EnsureHostType
    <2>8. \A q \in PeerIds : new.leases[q] = IF q = p THEN l ELSE room.leases[q]
      BY <2>5, <2>7, <1>1
    <2>9. SameMembers(room, new)
      BY <2>3, <2>7, <2>8 DEF SameMembers
    <2>10. Holders(new) = Holders(room) /\ Holders(new) = Holders(x)
      BY <2>7, <2>9 DEF SameMembers, Holders
    <2>11. \A q \in PeerIds : new.leases[q].online <=> room.leases[q].online \/ q = p
      BY <2>3, <2>8
    <2>12. RoomFits(new)
      <3>1. Holders(new) # {} => new.host \in Holders(new)
        BY <2>7, <2>10
      <3>2. \A q \in PeerIds : new.leases[q].online => new.leases[q].token # 0
        BY <1>2, <2>9, <2>11 DEF SameMembers, Holders
      <3> QED BY <2>9, <3>1, <3>2, SameMembersOK DEF RoomOK
    <2> QED BY <2>1, <2>9, <2>10, <2>11, <2>12 DEF RoomOK
  <1> QED BY <1>3, <1>4, <1>5

\* cleanupExpiredLeases, one room: leases of live members are kept and online,
\* every lease that goes had expired, and no lease without a live member is
\* online.
Cleaned(s, r, new) ==
  /\ RoomOK(new)
  /\ FewerMembers(s.rooms[r], new) \/ new = NoRoom
  /\ \A p \in PeerIds : new.leases[p].token # 0 =>
       /\ new.leases[p].token = s.rooms[r].leases[p].token
       /\ new.leases[p].vip = s.rooms[r].leases[p].vip
  /\ \A p \in PeerIds : new.leases[p].online => HasLiveMember(s, r, p)
  /\ \A p \in PeerIds : s.rooms[r].leases[p].token # 0 /\ HasLiveMember(s, r, p)
       => new.leases[p].token # 0 /\ new.leases[p].online
  /\ \A p \in PeerIds : s.rooms[r].leases[p].token # 0 /\ new.leases[p].token = 0
       => Expired(s.rooms[r].leases[p])
  /\ s.rooms[r] = NoRoom => new = NoRoom

\* That is what cleanupExpiredLeases does in a room.
LEMMA CleanedExact ==
  ASSUME NEW s \in Servers, NEW r \in RoomIds, RoomOK(s.rooms[r])
  PROVE  Cleaned(s, r, CleanedRoom(s, r))
  <1> DEFINE Kept(p) == IF Expired(Refreshed(s, r, p)) THEN NoLease
                                                       ELSE Refreshed(s, r, p)
             leases == [p \in PeerIds |-> Kept(p)]
             cut == [s.rooms[r] EXCEPT !.leases = leases]
             old == s.rooms[r]
  <1>1. PICK new : new = CleanedRoom(s, r)
    OBVIOUS
  <1>2. old \in Rooms /\ \A p \in PeerIds : old.leases[p] \in Leases
    BY DEF Servers, Rooms
  <1>3. NoLease \in Leases /\ NoLease.token = 0 /\ NoLease.online = FALSE
    BY Nothing DEF NoLease
  <1>4. ASSUME NEW p \in PeerIds
        PROVE  /\ Kept(p) \in Leases
               /\ Kept(p).token # 0 => /\ Kept(p).token = old.leases[p].token
                                       /\ Kept(p).vip = old.leases[p].vip
               /\ Kept(p).online => Kept(p).token # 0 /\ HasLiveMember(s, r, p)
               /\ old.leases[p].token # 0 /\ HasLiveMember(s, r, p)
                    => Kept(p).token # 0 /\ Kept(p).online
               /\ old.leases[p].token # 0 /\ Kept(p).token = 0
                    => Expired(old.leases[p])
    <2>1. PICK l : l = old.leases[p]
      OBVIOUS
    <2>2. l \in Leases /\ (l.online => l.token # 0)
      BY <2>1, <1>2 DEF RoomOK, RoomFits
    <2>3. /\ OfflineLease(l).vip = l.vip /\ OfflineLease(l).token = l.token
          /\ ~OfflineLease(l).online
          /\ OnlineLease(l).vip = l.vip /\ OnlineLease(l).token = l.token
          /\ OnlineLease(l).online
          /\ OnlineLease(l) \in Leases /\ OfflineLease(l) \in Leases
      BY <2>2, MarkedLease, OfflineLeaseType
    <2>4. OfflineLease(l).left = LeaseTicks /\ LeaseTicks # 0
      BY LeaseAssumption DEF OfflineLease
    <2>5. CASE l.token # 0 /\ ~l.online /\ HasLiveMember(s, r, p)
      <3>1. Refreshed(s, r, p) = OnlineLease(l)
        BY <2>1, <2>5 DEF Refreshed
      <3>2. Kept(p) = OnlineLease(l)
        BY <3>1, <2>3 DEF Expired
      <3> HIDE DEF Kept
      <3> QED BY <3>2, <2>1, <2>3, <2>5
    <2>6. CASE l.token # 0 /\ l.online /\ ~HasLiveMember(s, r, p)
      <3>1. Refreshed(s, r, p) = OfflineLease(l)
        BY <2>1, <2>6 DEF Refreshed
      <3>2. Kept(p) = OfflineLease(l)
        BY <3>1, <2>4 DEF Expired
      <3> HIDE DEF Kept
      <3> QED BY <3>2, <2>1, <2>3, <2>6
    <2>7. CASE ~(l.token # 0 /\ ~l.online /\ HasLiveMember(s, r, p))
               /\ ~(l.token # 0 /\ l.online /\ ~HasLiveMember(s, r, p))
      <3>1. Refreshed(s, r, p) = l
        BY <2>1, <2>7 DEF Refreshed
      <3>2. Kept(p) = IF Expired(l) THEN NoLease ELSE l
        BY <3>1
      <3> HIDE DEF Kept
      <3>3. CASE Expired(l)
        BY <3>2, <3>3, <2>1, <2>7, <1>3 DEF Expired
      <3>4. CASE ~Expired(l)
        BY <3>2, <3>4, <2>1, <2>2, <2>7
      <3> QED BY <3>3, <3>4
    <2> QED BY <2>5, <2>6, <2>7
  <1> HIDE DEF Kept
  <1>5. leases \in [PeerIds -> Leases] /\ \A p \in PeerIds : leases[p] = Kept(p)
    BY <1>4
  <1> HIDE DEF leases
  <1>6. cut \in Rooms /\ cut.leases = leases
        /\ cut.max = old.max /\ cut.key = old.key
    BY <1>2, <1>5 DEF Rooms
  <1>7. PICK x : x = EnsureHost(cut)
    OBVIOUS
  <1>8. new = IF Holders(x) = {} THEN NoRoom ELSE x
    BY <1>1, <1>7, <1>5 DEF CleanedRoom, leases, Kept
  <1> HIDE DEF cut
  <1>9. /\ x \in Rooms /\ x.leases = leases /\ x.max = old.max /\ x.key = old.key
        /\ Holders(cut) # {} => x.host \in Holders(cut)
    BY <1>6, <1>7, EnsureHostType
  <1>10. Holders(x) = Holders(cut)
    BY <1>6, <1>9 DEF Holders
  <1>11. FewerMembers(old, x)
    BY <1>4, <1>5, <1>9 DEF FewerMembers
  <1>12. RoomFits(x)
    <2>1. \A p \in PeerIds : x.leases[p].online => x.leases[p].token # 0
      BY <1>4, <1>5, <1>9
    <2> QED BY <1>2, <1>9, <1>10, <1>11, <2>1, FewerMembersOK DEF RoomOK
  <1>13. \A p \in PeerIds : NoRoom.leases[p].token = 0 /\ ~NoRoom.leases[p].online
    BY DEF NoRoom, NoLease
  <1>14. CASE Holders(x) # {}
    <2>1. new = x /\ old # NoRoom
      <3>1. Holders(old) # {}
        BY <1>2, <1>11, <1>14 DEF FewerMembers, Holders
      <3> QED BY <1>8, <1>14, <3>1, NoRoomOK
    <2>2. RoomOK(new)
      BY <2>1, <1>12, <1>14 DEF RoomOK
    <2> QED BY <2>1, <2>2, <1>1, <1>4, <1>5, <1>9, <1>11 DEF Cleaned
  <1>15. CASE Holders(x) = {}
    <2>1. new = NoRoom
      BY <1>8, <1>15
    <2>2. \A p \in PeerIds : Kept(p).token = 0
      BY <1>5, <1>9, <1>15 DEF Holders
    <2> QED BY <2>1, <2>2, <1>1, <1>4, <1>13, NoRoomOK DEF Cleaned
  <1> QED BY <1>14, <1>15

\* What removing the lease of peer p leaves of a room.
Removed(room, new, p) ==
  /\ RoomOK(new)
  /\ Holders(new) = Holders(room) \ {p}
  /\ Holders(new) # {} => new.max = room.max /\ new.key = room.key
  /\ \A q \in PeerIds \ {p} :
       /\ new.leases[q].token = room.leases[q].token
       /\ new.leases[q].token # 0 => new.leases[q].vip = room.leases[q].vip
       /\ new.leases[q].online <=> room.leases[q].online
  /\ new.leases[p].token = 0 /\ ~new.leases[p].online

\* removeLease, with the room erased after its last member.
LEMMA DropExact ==
  ASSUME NEW s \in Servers, NEW r \in RoomIds, NEW p \in PeerIds,
         RoomOK(s.rooms[r])
  PROVE  LET t == DropLease(s, r, p)
         IN /\ t \in Servers
            /\ t.clients = s.clients /\ t.peerMap = s.peerMap
            /\ t.published = s.published /\ t.nextRoomId = s.nextRoomId
            /\ t.freePeerIds = s.freePeerIds /\ t.nextPeerId = s.nextPeerId
            /\ \A q \in RoomIds \ {r} : t.rooms[q] = s.rooms[q]
            /\ Removed(s.rooms[r], t.rooms[r], p)
            /\ t.freeRoomIds = s.freeRoomIds \cup
                 (IF s.rooms[r] # NoRoom /\ t.rooms[r] = NoRoom THEN {r} ELSE {})
  <1> DEFINE old == s.rooms[r]
             cut == [s.rooms[r] EXCEPT !.leases[p] = NoLease]
  <1>1. PICK room, t : room = RemoveLease(s.rooms[r], p) /\ t = DropLease(s, r, p)
    OBVIOUS
  <1>2. old \in Rooms /\ old.leases \in [PeerIds -> Leases]
    BY DEF Servers, Rooms
  <1>3. NoLease \in Leases /\ NoLease.token = 0 /\ NoLease.online = FALSE
    BY Nothing DEF NoLease
  <1>4. /\ cut \in Rooms /\ cut.max = old.max /\ cut.key = old.key
        /\ cut.leases = [old.leases EXCEPT ![p] = NoLease]
    BY <1>2, <1>3 DEF Rooms
  <1>5. room = EnsureHost(cut)
    BY <1>1 DEF RemoveLease
  <1> HIDE DEF cut
  <1>6. /\ room \in Rooms /\ room.leases = cut.leases
        /\ room.max = old.max /\ room.key = old.key
        /\ Holders(cut) # {} => room.host \in Holders(cut)
    BY <1>4, <1>5, EnsureHostType
  <1>7. \A q \in PeerIds :
          room.leases[q] = IF q = p THEN NoLease ELSE old.leases[q]
    BY <1>2, <1>4, <1>6
  <1>8. Holders(room) = Holders(cut) /\ Holders(room) = Holders(old) \ {p}
    BY <1>3, <1>6, <1>7 DEF Holders
  <1>9. RoomFits(room)
    <2>1. FewerMembers(old, room)
      BY <1>3, <1>6, <1>7 DEF FewerMembers
    <2>2. \A q \in PeerIds : room.leases[q].online => room.leases[q].token # 0
      BY <1>3, <1>7 DEF RoomOK, RoomFits
    <2> QED BY <1>2, <1>6, <1>8, <2>1, <2>2, FewerMembersOK DEF RoomOK
  <1>10. CASE old = NoRoom
    <2>1. t = s
      BY <1>1, <1>10 DEF DropLease
    <2>2. Holders(NoRoom) = {} /\ RoomOK(NoRoom)
      BY NoRoomOK
    <2>3. \A q \in PeerIds : NoRoom.leases[q].token = 0 /\ ~NoRoom.leases[q].online
      BY DEF NoRoom, NoLease
    <2> QED BY <1>1, <1>10, <2>1, <2>2, <2>3 DEF Removed
  <1>11. CASE old # NoRoom /\ Holders(room) = {}
    <2>1. t = [s EXCEPT !.rooms = [s.rooms EXCEPT ![r] = NoRoom],
                        !.freeRoomIds = s.freeRoomIds \cup {r}]
      BY <1>1, <1>11 DEF DropLease
    <2>2. [s.rooms EXCEPT ![r] = NoRoom] \in [RoomIds -> Rooms]
          /\ s.freeRoomIds \cup {r} \in SUBSET RoomIds
      BY Nothing DEF Servers
    <2>3. /\ t \in Servers
          /\ t.clients = s.clients /\ t.peerMap = s.peerMap
          /\ t.published = s.published /\ t.nextRoomId = s.nextRoomId
          /\ t.freePeerIds = s.freePeerIds /\ t.nextPeerId = s.nextPeerId
          /\ t.rooms = [s.rooms EXCEPT ![r] = NoRoom]
          /\ t.freeRoomIds = s.freeRoomIds \cup {r}
      BY <2>1, <2>2 DEF Servers
    <2>4. t.rooms[r] = NoRoom /\ \A q \in RoomIds \ {r} : t.rooms[q] = s.rooms[q]
      BY <2>3 DEF Servers
    <2>5. \A q \in PeerIds : NoRoom.leases[q].token = 0 /\ ~NoRoom.leases[q].online
      BY DEF NoRoom, NoLease
    <2>6. \A q \in PeerIds \ {p} : old.leases[q].token = 0 /\ ~old.leases[q].online
      BY <1>7, <1>11 DEF Holders, RoomOK, RoomFits
    <2>7. Removed(old, NoRoom, p)
      BY <1>8, <1>11, <2>5, <2>6, NoRoomOK DEF Removed
    <2> QED BY <1>1, <1>11, <2>3, <2>4, <2>7
  <1>12. CASE old # NoRoom /\ Holders(room) # {}
    <2>1. t = [s EXCEPT !.rooms = [s.rooms EXCEPT ![r] = room]]
      BY <1>1, <1>12 DEF DropLease
    <2>2. [s.rooms EXCEPT ![r] = room] \in [RoomIds -> Rooms]
      BY <1>6 DEF Servers
    <2>3. /\ t \in Servers
          /\ t.clients = s.clients /\ t.peerMap = s.peerMap
          /\ t.published = s.published /\ t.nextRoomId = s.nextRoomId
          /\ t.freePeerIds = s.freePeerIds /\ t.nextPeerId = s.nextPeerId
          /\ t.rooms = [s.rooms EXCEPT ![r] = room]
          /\ t.freeRoomIds = s.freeRoomIds
      BY <2>1, <2>2 DEF Servers
    <2>4. t.rooms[r] = room /\ \A q \in RoomIds \ {r} : t.rooms[q] = s.rooms[q]
      BY <2>3 DEF Servers
    <2>5. room # NoRoom
      BY <1>12, NoRoomOK
    <2>6. Removed(old, room, p)
      BY <1>3, <1>6, <1>7, <1>8, <1>9, <1>12 DEF Removed, RoomOK
    <2> QED BY <1>1, <1>12, <2>3, <2>4, <2>5, <2>6
  <1> QED BY <1>10, <1>11, <1>12

\* What addLease makes of a room.
Added(room, new, p, token) ==
  /\ new \in Rooms
  /\ RoomOK(new)
  /\ new.max = room.max /\ new.key = room.key
  /\ Holders(new) = Holders(room) \cup {p}
  /\ \A q \in PeerIds \ {p} : new.leases[q] = room.leases[q]
  /\ new.leases[p].token = token /\ new.leases[p].online

\* addLease, when it does not refuse: the new member fits in and has an address
\* that no member, online or offline, has.
LEMMA AddExact ==
  ASSUME NEW room \in Rooms, RoomFits(room), NEW p \in PeerIds,
         NEW token \in Tokens, CanAddLease(room, p)
  PROVE  Added(room, AddLease(room, p, token), p, token)
  <1> DEFINE free == Vips \ {room.leases[q].vip : q \in PeerIds}
  <1>1. PICK vip : vip = AllocateVirtualIP(room)
    OBVIOUS
  <1>2. vip \in 0 .. VipCount /\ \A q \in PeerIds : vip # room.leases[q].vip
    <2>1. free \in SUBSET Nat
      BY VipAssumption DEF Vips
    <2>2. free # {} => Lowest(free) \in free
      BY <2>1, LowestIn
    <2>3. vip = IF free = {} THEN 0 ELSE Lowest(free)
      BY <1>1 DEF AllocateVirtualIP
    <2>4. vip # 0
      BY <1>1 DEF CanAddLease
    <2>5. vip \in free
      BY <2>2, <2>3, <2>4
    <2>6. vip \in Vips /\ \A q \in PeerIds : vip # room.leases[q].vip
      BY <2>5
    <2> QED BY <2>6, VipAssumption DEF Vips
  <1>3. PICK l : l = [vip |-> vip, token |-> token, online |-> TRUE, left |-> LeaseTicks]
    OBVIOUS
  <1>4. l \in Leases /\ l.token = token /\ l.online = TRUE /\ l.vip = vip /\ token # 0
    BY <1>2, <1>3, BoundsAssumption, LeaseAssumption DEF Leases, Tokens
  <1>5. PICK x : x = [room EXCEPT !.leases[p] = l]
    OBVIOUS
  <1>6. /\ x \in Rooms /\ x.max = room.max /\ x.key = room.key
        /\ x.leases = [room.leases EXCEPT ![p] = l]
    BY <1>4, <1>5 DEF Rooms
  <1>7. PICK new : new = AddLease(room, p, token)
    OBVIOUS
  <1>8. new = EnsureHost(x)
    BY <1>1, <1>3, <1>5, <1>7 DEF AddLease
  <1>9. /\ new \in Rooms /\ new.leases = x.leases
        /\ new.max = room.max /\ new.key = room.key
        /\ Holders(x) # {} => new.host \in Holders(x)
    BY <1>6, <1>8, EnsureHostType
  <1>10. \A q \in PeerIds : new.leases[q] = IF q = p THEN l ELSE room.leases[q]
    BY <1>6, <1>9 DEF Rooms
  <1>11. Holders(new) = Holders(x) /\ Holders(new) = Holders(room) \cup {p}
    BY <1>4, <1>9, <1>10 DEF Holders
  <1>12. Cardinality(Holders(new)) <= new.max
    <2>1. p \notin Holders(room) /\ ~(Cardinality(Holders(room)) >= room.max)
      BY DEF CanAddLease, IsFull
    <2>2. Cardinality(Holders(new)) = Cardinality(Holders(room)) + 1
      BY <1>11, <2>1, HoldersFinite, FS_AddElement
    <2> QED BY <1>9, <2>1, <2>2, HoldersCount DEF Rooms
  <1>13. ASSUME NEW a \in Holders(new), NEW b \in Holders(new),
                new.leases[a].vip = new.leases[b].vip
         PROVE  a = b
    <2>1. a \in PeerIds /\ b \in PeerIds
      BY HoldersFinite
    <2>2. CASE a # p /\ b # p
      BY <1>10, <1>11, <1>13, <2>1, <2>2 DEF RoomFits
    <2>3. CASE a = p \/ b = p
      BY <1>2, <1>4, <1>10, <1>13, <2>1, <2>3
    <2> QED BY <2>2, <2>3
  <1>14. RoomOK(new)
    <2>1. \A q \in PeerIds : new.leases[q].online => new.leases[q].token # 0
      BY <1>4, <1>10 DEF RoomFits
    <2> QED BY <1>9, <1>11, <1>12, <1>13, <2>1 DEF RoomOK, RoomFits
  <1> QED BY <1>4, <1>7, <1>9, <1>10, <1>11, <1>14 DEF Added

-----------------------------------------------------------------------------
(* Sessions in their rooms *)

\* Where a session in a room is found.
LEMMA SeatPlace ==
  ASSUME NEW s, MembershipIn(s), NEW c \in Conns, s.clients[c].state = "InRoom"
  PROVE  /\ s.clients[c].peerId \in PeerIds /\ s.clients[c].peerId # 0
         /\ s.clients[c].roomId \in RoomIds /\ s.clients[c].roomId # 0
         /\ s.peerMap[s.clients[c].peerId] = c
         /\ Owner(s, s.clients[c].peerId) = c
         /\ s.clients[c].alive => Live(s, s.clients[c].peerId) = c
  <1>1. OnlyIn(s, s.clients[c].peerId, s.clients[c].roomId)
    BY InRoomLease
  <1>2. s.peerMap[s.clients[c].peerId] = c
    BY <1>1 DEF OnlyIn, MembershipIn, IndexExactIn
  <1>3. Owner(s, s.clients[c].peerId) = c
    BY <1>2, NoConnAssumption DEF Owner
  <1>4. s.clients[c].alive => Live(s, s.clients[c].peerId) = c
    BY <1>3, NoConnAssumption DEF Live, IdentityStates
  <1> QED BY <1>1, <1>2, <1>3, <1>4 DEF OnlyIn

\* The index says whose an identity is.
LEMMA OwnerIs ==
  ASSUME NEW s, MembershipIn(s), NEW p \in PeerIds
  PROVE  /\ Owner(s, p) = s.peerMap[p]
         /\ s.peerMap[p] \in Conns \cup {NoConn}
         /\ Live(s, p) # NoConn =>
              /\ Live(s, p) = s.peerMap[p] /\ Live(s, p) \in Conns
              /\ s.clients[Live(s, p)].peerId = p
              /\ s.clients[Live(s, p)].alive
  <1>1. s.peerMap[p] \in Conns \cup {NoConn}
    BY IdentityTypes DEF MembershipIn
  <1>2. s.peerMap[p] # NoConn => s.clients[s.peerMap[p]].peerId = p
    BY DEF MembershipIn, IndexExactIn
  <1>3. Owner(s, p) = s.peerMap[p]
    BY <1>2 DEF Owner
  <1>4. Live(s, p) # NoConn =>
          /\ Live(s, p) = s.peerMap[p]
          /\ s.clients[Live(s, p)].alive
    BY <1>3 DEF Live
  <1> QED BY <1>1, <1>2, <1>3, <1>4

\* No two sessions have one identity.
LEMMA OnePeerOneSession ==
  ASSUME NEW s, MembershipIn(s), NEW c \in Conns, NEW d \in Conns,
         s.clients[c].peerId = s.clients[d].peerId, s.clients[c].peerId # 0
  PROVE  c = d
  BY DEF MembershipIn, IndexExactIn

\* What is announced of peer p in room r reaches exactly the other members of
\* that room that are connected.
LEMMA ReceiversAre ==
  ASSUME NEW s, MembershipIn(s), SeatsIn(s), NEW c \in Conns, Seated(s.clients[c]),
         NEW r \in RoomIds, NEW p \in PeerIds
  PROVE  c \in Receivers(s, r, p) <=>
           s.clients[c].roomId = r /\ s.clients[c].peerId # p
  <1>1. PICK o, q : o = s.clients[c].peerId /\ q = s.clients[c].roomId
    OBVIOUS
  <1>2. /\ o \in PeerIds /\ o # 0 /\ q \in RoomIds
        /\ Live(s, o) = c
    BY <1>1, SeatPlace DEF Seated
  <1>3. s.rooms[q].leases[o].token # 0
    BY <1>1 DEF SeatsIn, SeatOK
  <1>4. ASSUME c \in Receivers(s, r, p)
        PROVE  q = r /\ o # p
    <2>1. PICK a \in Holders(s.rooms[r]) \ {p} : Live(s, a) = c
      BY <1>4 DEF Receivers
    <2>2. a \in PeerIds /\ s.rooms[r].leases[a].token # 0
      BY <2>1 DEF Holders
    <2>3. a = o
      BY <1>1, <2>1, <2>2, NoConnAssumption, OwnerIs
    <2>4. q = r
      BY <1>2, <1>3, <2>2, <2>3 DEF MembershipIn, OneLeasePerPeerIn
    <2> QED BY <2>1, <2>3, <2>4
  <1>5. ASSUME q = r, o # p
        PROVE  c \in Receivers(s, r, p)
    <2>1. o \in Holders(s.rooms[r]) \ {p}
      BY <1>2, <1>3, <1>5 DEF Holders
    <2> QED BY <1>2, <2>1, NoConnAssumption DEF Receivers
  <1> QED BY <1>1, <1>4, <1>5

\* The list depends on the limits, the passwords and the members of the rooms.
SameList(s, t) ==
  \A r \in RoomIds : /\ t.rooms[r].max = s.rooms[r].max
                     /\ t.rooms[r].key = s.rooms[r].key
                     /\ Holders(t.rooms[r]) = Holders(s.rooms[r])

\* Servers that agree on these publish the same list.
LEMMA ListingSame ==
  ASSUME NEW s, NEW t, SameList(s, t)
  PROVE  Listing(t) = Listing(s)
  BY DEF SameList, Listing

\* Publishing changes the published list alone, and makes it current.
LEMMA PushExact ==
  ASSUME NEW s \in Servers
  PROVE  LET t == PushRoomList(s)
         IN /\ t \in Servers
            /\ t.clients = s.clients /\ t.peerMap = s.peerMap
            /\ t.freePeerIds = s.freePeerIds /\ t.nextPeerId = s.nextPeerId
            /\ t.rooms = s.rooms /\ t.freeRoomIds = s.freeRoomIds
            /\ t.nextRoomId = s.nextRoomId
            /\ t.published = Listing(s)
            /\ ListedIn(t)
  <1>1. PICK t : t = PushRoomList(s)
    OBVIOUS
  <1>2. /\ t \in Servers
        /\ t.clients = s.clients /\ t.peerMap = s.peerMap
        /\ t.freePeerIds = s.freePeerIds /\ t.nextPeerId = s.nextPeerId
        /\ t.rooms = s.rooms
    BY <1>1, PushFields
  <1>3. PICK list : list = Listing(s)
    OBVIOUS
  <1>4. t = [s EXCEPT !.published = list]
    BY <1>1, <1>3 DEF PushRoomList
  <1>5. t.published = list /\ t.freeRoomIds = s.freeRoomIds /\ t.nextRoomId = s.nextRoomId
    BY <1>4 DEF Servers
  <1>6. Listing(t) = Listing(s)
    BY <1>2, ListingSame DEF SameList
  <1> QED BY <1>1, <1>2, <1>3, <1>5, <1>6 DEF ListedIn

\* Everything but the published list.
AlmostIn(s) ==
  /\ MembershipIn(s)
  /\ RoomsIn(s)
  /\ SeatsIn(s)
  /\ OnlineIn(s)
  /\ KnownIn(s)

\* A handler that ends with broadcastRoomListPush leaves a current list.
LEMMA PushSound ==
  ASSUME NEW s, AlmostIn(s)
  PROVE  SoundIn(PushRoomList(s))
  <1>1. PICK t : t = PushRoomList(s)
    OBVIOUS
  <1>2. s \in Servers
    BY DEF AlmostIn, MembershipIn
  <1>3. /\ t.clients = s.clients /\ t.peerMap = s.peerMap
        /\ t.rooms = s.rooms /\ t.freeRoomIds = s.freeRoomIds
        /\ t.nextRoomId = s.nextRoomId
        /\ ListedIn(t)
    BY <1>1, <1>2, PushExact
  <1>4. MembershipIn(t)
    BY <1>1, PushInv DEF AlmostIn
  <1>5. RoomsIn(t)
    BY <1>3 DEF AlmostIn, RoomsIn, RoomIdsOK
  <1>6. SeatsIn(t) /\ OnlineIn(t) /\ KnownIn(t)
    BY <1>3 DEF AlmostIn, SeatsIn, OnlineIn, OnlineOK, KnownIn
  <1> QED BY <1>1, <1>3, <1>4, <1>5, <1>6 DEF SoundIn

\* A step that keeps every room's members, limits and existence.
SameRooms(s, t) ==
  /\ t.freeRoomIds = s.freeRoomIds /\ t.nextRoomId = s.nextRoomId
  /\ t.published = s.published
  /\ \A r \in RoomIds : /\ SameMembers(s.rooms[r], t.rooms[r])
                        /\ RoomOK(t.rooms[r])
                        /\ s.rooms[r] = NoRoom => t.rooms[r] = NoRoom

\* Such a step keeps the rooms sound and a current list current.
LEMMA SameRoomsSound ==
  ASSUME NEW s, NEW t, RoomsIn(s), SameRooms(s, t)
  PROVE  /\ RoomsIn(t)
         /\ SameList(s, t)
         /\ ListedIn(s) => ListedIn(t)
  <1>1. \A r \in RoomIds : Holders(t.rooms[r]) = Holders(s.rooms[r])
    BY DEF SameRooms, SameMembers, Holders
  <1>2. SameList(s, t)
    BY <1>1 DEF SameRooms, SameMembers, SameList
  <1>3. Listing(t) = Listing(s)
    BY <1>2, ListingSame
  <1>4. RoomsIn(t)
    BY DEF RoomsIn, RoomIdsOK, SameRooms
  <1> QED BY <1>2, <1>3, <1>4 DEF ListedIn, SameRooms

-----------------------------------------------------------------------------
(* destroyClient *)

\* What destroyClient leaves of the rooms.
LEMMA DestroyExact ==
  ASSUME NEW s, MembershipIn(s), RoomsIn(s), NEW D \in SUBSET Conns,
         NEW takeover \in BOOLEAN
  PROVE  LET t == Destroy(s, D, takeover)
         IN /\ t \in Servers
            /\ SameRooms(s, t)
            /\ t.peerMap = Unbound(s, D)
            /\ \A c \in Conns : t.clients[c] =
                 IF c \in D THEN NoSession ELSE s.clients[c]
            /\ \A r \in RoomIds, p \in PeerIds :
                 t.rooms[r].leases[p].online <=>
                   s.rooms[r].leases[p].online /\ ~Detaches(s, D, r, p)
  <1>0. s \in Servers
    BY DEF MembershipIn
  <1>1. PICK t : t = Destroy(s, D, takeover)
    OBVIOUS
  <1>2. /\ t \in Servers
        /\ \A c \in Conns : t.clients[c] =
              IF c \in D THEN NoSession ELSE s.clients[c]
        /\ t.peerMap = Unbound(s, D)
    BY <1>0, <1>1, DestroyFields
  <1>3. PICK clients, rooms, freed :
          /\ t = [s EXCEPT !.clients = clients, !.peerMap = Unbound(s, D),
                           !.freePeerIds = freed, !.rooms = rooms]
          /\ rooms = [r \in RoomIds |-> DetachedRoom(s, D, r)]
    BY <1>1 DEF Destroy
  <1>4. /\ t.rooms = rooms /\ t.freeRoomIds = s.freeRoomIds
        /\ t.nextRoomId = s.nextRoomId /\ t.published = s.published
    BY <1>0, <1>3 DEF Servers
  <1>5. \A r \in RoomIds : t.rooms[r] = DetachedRoom(s, D, r)
    BY <1>3, <1>4
  <1>6. ASSUME NEW r \in RoomIds
        PROVE  /\ SameMembers(s.rooms[r], t.rooms[r])
               /\ RoomOK(t.rooms[r])
               /\ s.rooms[r] = NoRoom => t.rooms[r] = NoRoom
               /\ \A p \in PeerIds : t.rooms[r].leases[p].online <=>
                    s.rooms[r].leases[p].online /\ ~Detaches(s, D, r, p)
    <2>1. RoomOK(s.rooms[r])
      BY DEF RoomsIn
    <2> QED BY <2>1, <1>0, <1>5, DetachedExact
  <1>7. SameRooms(s, t)
    BY <1>4, <1>6 DEF SameRooms
  <1> QED BY <1>1, <1>2, <1>6, <1>7

\* destroyClient never touches another session's lease, and marks offline the
\* lease of the session it destroys.
LEMMA DestroySound ==
  ASSUME NEW s, SoundIn(s), NEW D \in SUBSET Conns, NEW takeover \in BOOLEAN
  PROVE  SoundIn(Destroy(s, D, takeover))
  <1>1. PICK t : t = Destroy(s, D, takeover)
    OBVIOUS
  <1>2. MembershipIn(s) /\ RoomsIn(s) /\ SeatsIn(s) /\ OnlineIn(s) /\ KnownIn(s)
        /\ ListedIn(s)
    BY DEF SoundIn
  <1>3. /\ SameRooms(s, t)
        /\ t.peerMap = Unbound(s, D)
        /\ \A c \in Conns : t.clients[c] =
             IF c \in D THEN NoSession ELSE s.clients[c]
        /\ \A r \in RoomIds, p \in PeerIds :
             t.rooms[r].leases[p].online <=>
               s.rooms[r].leases[p].online /\ ~Detaches(s, D, r, p)
    BY <1>1, <1>2, DestroyExact
  <1>4. MembershipIn(t)
    BY <1>1, <1>2, DestroyInv
  <1>5. RoomsIn(t) /\ SameList(s, t) /\ ListedIn(t)
    BY <1>2, <1>3, SameRoomsSound
  <1>6. \A c \in Conns : Seated(t.clients[c]) =>
          c \notin D /\ t.clients[c] = s.clients[c] /\ Seated(s.clients[c])
    BY <1>3 DEF Seated, NoSession
  <1>7. SeatsIn(t)
    <2> SUFFICES ASSUME NEW c \in Conns, Seated(t.clients[c])
                 PROVE  SeatOK(t.clients[c], t.rooms[t.clients[c].roomId])
      BY DEF SeatsIn
    <2>1. PICK x, p, r : /\ x = s.clients[c] /\ p = x.peerId /\ r = x.roomId
      OBVIOUS
    <2>2. c \notin D /\ t.clients[c] = x /\ Seated(x)
      BY <1>6, <2>1
    <2>3. p \in PeerIds /\ p # 0 /\ r \in RoomIds
      BY <1>2, <2>1, <2>2, SeatPlace DEF Seated
    <2>4. ~Detaches(s, D, r, p)
      BY <1>2, <2>1, <2>2, <2>3, OnePeerOneSession DEF Detaches
    <2>5. SeatOK(x, s.rooms[r])
      BY <1>2, <2>1, <2>2 DEF SeatsIn
    <2>6. /\ t.rooms[r].leases[p].token = s.rooms[r].leases[p].token
          /\ t.rooms[r].leases[p].vip = s.rooms[r].leases[p].vip
          /\ t.rooms[r].leases[p].online <=> s.rooms[r].leases[p].online
      BY <1>3, <2>3, <2>4 DEF SameRooms, SameMembers
    <2> QED BY <2>1, <2>2, <2>5, <2>6 DEF SeatOK
  <1>8. OnlineIn(t)
    <2> SUFFICES ASSUME NEW r \in RoomIds, NEW p \in PeerIds,
                        t.rooms[r].leases[p].online
                 PROVE  /\ t.peerMap[p] # NoConn
                        /\ t.clients[t.peerMap[p]].state = "InRoom"
                        /\ t.clients[t.peerMap[p]].roomId = r
      BY DEF OnlineIn, OnlineOK
    <2>1. s.rooms[r].leases[p].online /\ ~Detaches(s, D, r, p)
      BY <1>3
    <2>2. PICK d : d = s.peerMap[p]
      OBVIOUS
    <2>3. d \in Conns /\ s.clients[d].state = "InRoom" /\ s.clients[d].roomId = r
          /\ s.clients[d].peerId = p /\ d # NoConn
      <3>1. d # NoConn /\ s.clients[d].state = "InRoom" /\ s.clients[d].roomId = r
        BY <1>2, <2>1, <2>2 DEF OnlineIn, OnlineOK
      <3>2. d \in Conns \cup {NoConn}
        BY <1>2, <2>2, OwnerIs
      <3> QED BY <1>2, <2>2, <3>1, <3>2 DEF MembershipIn, IndexExactIn
    <2>4. d \notin D
      <3>1. Owner(s, p) = d
        BY <1>2, <2>2, OwnerIs
      <3>2. ~OwnedByOther(s, d)
        BY <2>3, <3>1 DEF OwnedByOther
      <3>3. r # 0
        BY PositiveIds
      <3>4. DetachRoom(s, d) = r
        BY <2>3, <3>2, <3>3 DEF DetachRoom
      <3> QED BY <2>1, <2>3, <3>4 DEF Detaches
    <2>5. t.peerMap[p] = d /\ t.clients[d] = s.clients[d]
      BY <1>3, <2>2, <2>3, <2>4 DEF Unbound
    <2> QED BY <2>3, <2>5
  <1>9. KnownIn(t)
    <2> SUFFICES ASSUME NEW c \in Conns, Seated(t.clients[c]), ~t.clients[c].gap
                 PROVE  t.clients[c].told = Holders(t.rooms[t.clients[c].roomId])
      BY DEF KnownIn
    <2>1. t.clients[c] = s.clients[c] /\ Seated(s.clients[c])
      BY <1>6
    <2>2. s.clients[c].roomId \in RoomIds
      BY <1>2, <2>1, SeatPlace DEF Seated
    <2>3. s.clients[c].told = Holders(s.rooms[s.clients[c].roomId])
      BY <1>2, <2>1 DEF KnownIn
    <2> QED BY <1>5, <2>1, <2>2, <2>3 DEF SameList
  <1> QED BY <1>1, <1>4, <1>5, <1>7, <1>8, <1>9 DEF SoundIn

-----------------------------------------------------------------------------
(* cleanupExpiredLeases *)

\* The sessions x and y differ at most in what has been told to them.
SameSeat(x, y) ==
  /\ SameIdentity(x, y)
  /\ x.vip = y.vip
  /\ x.alive <=> y.alive
  /\ x.gap <=> y.gap

\* The members that cleanupExpiredLeases tells session c are gone.
Untold(s, c) ==
  {p \in PeerIds : \E r \in RoomIds :
     /\ p \in Holders(s.rooms[r]) \ Holders(CleanedRoom(s, r))
     /\ c \in Receivers(s, r, p)}

\* What cleanupExpiredLeases leaves of the server.
LEMMA CleanupExact ==
  ASSUME NEW s \in Servers
  PROVE  LET t == CleanupExpiredLeases(s)
         IN /\ t \in Servers
            /\ t.peerMap = s.peerMap /\ t.nextRoomId = s.nextRoomId
            /\ \A r \in RoomIds : t.rooms[r] = CleanedRoom(s, r)
            /\ t.freeRoomIds = s.freeRoomIds \cup
                 {r \in RoomIds : s.rooms[r] # NoRoom /\ CleanedRoom(s, r) = NoRoom}
            /\ \A c \in Conns : /\ SameSeat(s.clients[c], t.clients[c])
                                /\ t.clients[c].told = s.clients[c].told \ Untold(s, c)
            /\ ListedIn(s) => ListedIn(t)
  <1> DEFINE cleaned == [r \in RoomIds |-> CleanedRoom(s, r)]
             Gone(r) == Holders(s.rooms[r]) \ Holders(cleaned[r])
             roomIds == s.freeRoomIds \cup {r \in RoomIds :
                           s.rooms[r] # NoRoom /\ cleaned[r] = NoRoom}
             peerIds == s.freePeerIds \cup {p \in PeerIds :
                           /\ \E r \in RoomIds : p \in Gone(r)
                           /\ Owner(s, p) = NoConn}
             clients == [c \in Conns |->
                           [s.clients[c] EXCEPT !.told = @ \
                              {p \in PeerIds : \E r \in RoomIds :
                                 p \in Gone(r) /\ c \in Receivers(s, r, p)}]]
             u == [s EXCEPT !.rooms = cleaned, !.freeRoomIds = roomIds,
                            !.freePeerIds = peerIds, !.clients = clients]
  <1>1. PICK t : t = CleanupExpiredLeases(s)
    OBVIOUS
  <1>2. t = IF cleaned = s.rooms THEN s ELSE PushRoomList(u)
    BY <1>1, Zenon DEF CleanupExpiredLeases
  <1>3. cleaned \in [RoomIds -> Rooms] /\ \A r \in RoomIds : cleaned[r] = CleanedRoom(s, r)
    BY CleanedRoomType
  <1>4. roomIds = s.freeRoomIds \cup
          {r \in RoomIds : s.rooms[r] # NoRoom /\ CleanedRoom(s, r) = NoRoom}
    BY <1>3
  <1>5. roomIds \in SUBSET RoomIds /\ peerIds \in SUBSET PeerIds
    BY DEF Servers
  <1>6. \A c \in Conns : clients[c] = [s.clients[c] EXCEPT !.told = @ \ Untold(s, c)]
    BY DEF Untold
  <1>7. ASSUME NEW c \in Conns, NEW U, NEW y,
               y = [s.clients[c] EXCEPT !.told = @ \ U]
        PROVE  /\ y \in Sessions /\ SameSeat(s.clients[c], y)
               /\ y.told = s.clients[c].told \ U
    <2>1. s.clients[c] \in Sessions
      BY DEF Servers
    <2> QED BY <1>7, <2>1 DEF Sessions, SameSeat, SameIdentity
  <1>8. \A c \in Conns : /\ clients[c] \in Sessions
                         /\ SameSeat(s.clients[c], clients[c])
                         /\ clients[c].told = s.clients[c].told \ Untold(s, c)
    BY <1>6, <1>7
  <1>9. clients \in [Conns -> Sessions]
    BY <1>8
  <1>10. CASE cleaned = s.rooms
    <2>1. t = s
      BY <1>2, <1>10
    <2>2. \A r \in RoomIds : CleanedRoom(s, r) = s.rooms[r]
      BY <1>3, <1>10
    <2>3. \A c \in Conns : Untold(s, c) = {}
      BY <2>2 DEF Untold
    <2>4. {r \in RoomIds : s.rooms[r] # NoRoom /\ CleanedRoom(s, r) = NoRoom} = {}
      BY <2>2
    <2>5. \A c \in Conns : SameSeat(s.clients[c], s.clients[c])
      BY DEF SameSeat, SameIdentity
    <2> HIDE DEF cleaned, roomIds, peerIds, clients
    <2> QED BY <1>1, <2>1, <2>2, <2>3, <2>4, <2>5
  <1>11. CASE cleaned # s.rooms
    <2> HIDE DEF cleaned, roomIds, peerIds, clients
    <2>1. t = PushRoomList(u)
      BY <1>2, <1>11
    <2>2. /\ u \in Servers
          /\ u.clients = clients /\ u.peerMap = s.peerMap
          /\ u.rooms = cleaned /\ u.freeRoomIds = roomIds
          /\ u.nextRoomId = s.nextRoomId
      BY <1>3, <1>5, <1>9 DEF Servers
    <2> HIDE DEF u
    <2>3. /\ t \in Servers
          /\ t.clients = u.clients /\ t.peerMap = u.peerMap
          /\ t.rooms = u.rooms /\ t.freeRoomIds = u.freeRoomIds
          /\ t.nextRoomId = u.nextRoomId
          /\ ListedIn(t)
      BY <2>1, <2>2, PushExact
    <2> QED BY <1>1, <1>3, <1>4, <1>8, <2>2, <2>3
  <1> QED BY <1>10, <1>11

\* The lease of a member that is connected is online and stays.
LEMMA MemberIsLive ==
  ASSUME NEW s, MembershipIn(s), NEW c \in Conns, Seated(s.clients[c])
  PROVE  HasLiveMember(s, s.clients[c].roomId, s.clients[c].peerId)
  BY SeatPlace, NoConnAssumption DEF Seated, HasLiveMember

\* Expiry removes no connected member, tells the others who is gone, and
\* publishes the list when it has changed.
LEMMA CleanupSound ==
  ASSUME NEW s, SoundIn(s)
  PROVE  SoundIn(CleanupExpiredLeases(s))
  <1>1. PICK t : t = CleanupExpiredLeases(s)
    OBVIOUS
  <1>2. MembershipIn(s) /\ RoomsIn(s) /\ SeatsIn(s) /\ OnlineIn(s) /\ KnownIn(s)
        /\ ListedIn(s) /\ s \in Servers
    BY DEF SoundIn, MembershipIn
  <1>3. /\ t.peerMap = s.peerMap /\ t.nextRoomId = s.nextRoomId
        /\ \A r \in RoomIds : t.rooms[r] = CleanedRoom(s, r)
        /\ t.freeRoomIds = s.freeRoomIds \cup
             {r \in RoomIds : s.rooms[r] # NoRoom /\ CleanedRoom(s, r) = NoRoom}
        /\ \A c \in Conns : /\ SameSeat(s.clients[c], t.clients[c])
                            /\ t.clients[c].told = s.clients[c].told \ Untold(s, c)
        /\ ListedIn(t)
    BY <1>1, <1>2, CleanupExact
  <1>4. MembershipIn(t)
    BY <1>1, <1>2, CleanupInv
  <1>5. \A r \in RoomIds : Cleaned(s, r, t.rooms[r])
    BY <1>2, <1>3, CleanedExact DEF RoomsIn
  <1>6. RoomsIn(t)
    <2>1. ASSUME NEW r \in RoomIds, r \in t.freeRoomIds \/ r >= t.nextRoomId
          PROVE  t.rooms[r] = NoRoom
      <3>1. s.rooms[r] = NoRoom => t.rooms[r] = NoRoom
        BY <1>5 DEF Cleaned
      <3> QED BY <1>2, <1>3, <2>1, <3>1 DEF RoomsIn, RoomIdsOK
    <2>2. ASSUME NEW r \in t.freeRoomIds
          PROVE  r < t.nextRoomId
      <3>1. CASE r \in s.freeRoomIds
        BY <1>2, <1>3, <3>1 DEF RoomsIn, RoomIdsOK
      <3>2. CASE r \in RoomIds /\ s.rooms[r] # NoRoom
        <4>1. ~(r >= s.nextRoomId)
          BY <1>2, <3>2 DEF RoomsIn, RoomIdsOK
        <4> QED BY <1>2, <1>3, <3>2, <4>1, BoundsAssumption DEF RoomIds, Servers
      <3> QED BY <1>3, <3>1, <3>2
    <2> QED BY <1>5, <2>1, <2>2 DEF RoomsIn, RoomIdsOK, Cleaned
  <1>7. \A c \in Conns : Seated(t.clients[c]) => Seated(s.clients[c])
    BY <1>3 DEF Seated, SameSeat, SameIdentity
  <1>8. SeatsIn(t)
    <2> SUFFICES ASSUME NEW c \in Conns, Seated(t.clients[c])
                 PROVE  SeatOK(t.clients[c], t.rooms[t.clients[c].roomId])
      BY DEF SeatsIn
    <2>1. PICK x, p, r : /\ x = s.clients[c] /\ p = x.peerId /\ r = x.roomId
      OBVIOUS
    <2>2. Seated(x) /\ p \in PeerIds /\ r \in RoomIds /\ HasLiveMember(s, r, p)
      BY <1>2, <1>7, <2>1, SeatPlace, MemberIsLive DEF Seated
    <2>3. SeatOK(x, s.rooms[r])
      BY <1>2, <2>1, <2>2 DEF SeatsIn
    <2>4. /\ t.clients[c].peerId = p /\ t.clients[c].roomId = r
          /\ t.clients[c].vip = x.vip /\ t.clients[c].resume = x.resume
      BY <1>3, <2>1 DEF SameSeat, SameIdentity
    <2>5. t.rooms[r].leases[p].token # 0 /\ t.rooms[r].leases[p].online
      BY <1>5, <2>1, <2>2, <2>3 DEF Cleaned, SeatOK
    <2>6. /\ t.rooms[r].leases[p].token = s.rooms[r].leases[p].token
          /\ t.rooms[r].leases[p].vip = s.rooms[r].leases[p].vip
      BY <1>5, <2>2, <2>5 DEF Cleaned
    <2> QED BY <2>1, <2>3, <2>4, <2>5, <2>6 DEF SeatOK
  <1>9. OnlineIn(t)
    <2> SUFFICES ASSUME NEW r \in RoomIds, NEW p \in PeerIds,
                        t.rooms[r].leases[p].online
                 PROVE  /\ t.peerMap[p] # NoConn
                        /\ t.clients[t.peerMap[p]].state = "InRoom"
                        /\ t.clients[t.peerMap[p]].roomId = r
      BY DEF OnlineIn, OnlineOK
    <2>1. HasLiveMember(s, r, p)
      BY <1>5 DEF Cleaned
    <2>2. /\ s.peerMap[p] # NoConn /\ s.peerMap[p] \in Conns
          /\ s.clients[s.peerMap[p]].state = "InRoom"
          /\ s.clients[s.peerMap[p]].roomId = r
      BY <1>2, <2>1, OwnerIs DEF HasLiveMember
    <2> QED BY <1>3, <2>2 DEF SameSeat, SameIdentity
  <1>10. KnownIn(t)
    <2> SUFFICES ASSUME NEW c \in Conns, Seated(t.clients[c]), ~t.clients[c].gap
                 PROVE  t.clients[c].told = Holders(t.rooms[t.clients[c].roomId])
      BY DEF KnownIn
    <2>1. PICK x, p, r : /\ x = s.clients[c] /\ p = x.peerId /\ r = x.roomId
      OBVIOUS
    <2>2. Seated(x) /\ p \in PeerIds /\ r \in RoomIds /\ HasLiveMember(s, r, p)
      BY <1>2, <1>7, <2>1, SeatPlace, MemberIsLive DEF Seated
    <2>3. t.clients[c].roomId = r /\ ~x.gap
      BY <1>3, <2>1 DEF SameSeat, SameIdentity
    <2>4. x.told = Holders(s.rooms[r])
      BY <1>2, <2>1, <2>2, <2>3 DEF KnownIn
    <2>5. p \in Holders(s.rooms[r]) /\ p \in Holders(t.rooms[r])
      <3>1. s.rooms[r].leases[p].token # 0
        BY <1>2, <2>1, <2>2 DEF SeatsIn, SeatOK
      <3>2. t.rooms[r].leases[p].token # 0
        BY <1>5, <2>2, <3>1 DEF Cleaned
      <3> QED BY <2>2, <3>1, <3>2 DEF Holders
    <2>6. Untold(s, c) = Holders(s.rooms[r]) \ Holders(t.rooms[r])
      <3>1. \A q \in RoomIds, o \in PeerIds : c \in Receivers(s, q, o) <=> q = r /\ o # p
        BY <1>2, <2>1, <2>2, ReceiversAre
      <3>2. Holders(s.rooms[r]) \subseteq PeerIds
        BY HoldersFinite
      <3>3. t.rooms[r] = CleanedRoom(s, r)
        BY <1>3, <2>2
      <3> QED BY <2>2, <2>5, <3>1, <3>2, <3>3 DEF Untold
    <2>7. Holders(t.rooms[r]) \subseteq Holders(s.rooms[r])
      BY <1>5, <2>2 DEF Cleaned, Holders
    <2>8. t.clients[c].told = x.told \ Untold(s, c)
      BY <1>3, <2>1
    <2> QED BY <2>3, <2>4, <2>6, <2>7, <2>8
  <1> QED BY <1>1, <1>3, <1>4, <1>6, <1>8, <1>9, <1>10 DEF SoundIn

-----------------------------------------------------------------------------
(* Steps of one session that touch no lease, the clock, and logins *)

\* Replacing one session keeps the rooms and the list.
LEMMA SetSessionExact ==
  ASSUME NEW s \in Servers, NEW c \in Conns, NEW y \in Sessions
  PROVE  LET t == WithSession(s, c, y)
         IN /\ t \in Servers
            /\ t.peerMap = s.peerMap /\ t.rooms = s.rooms
            /\ t.freeRoomIds = s.freeRoomIds /\ t.nextRoomId = s.nextRoomId
            /\ t.published = s.published
            /\ t.clients[c] = y
            /\ \A d \in Conns \ {c} : t.clients[d] = s.clients[d]
  <1>1. PICK t : t = WithSession(s, c, y)
    OBVIOUS
  <1>2. /\ t \in Servers
        /\ t.peerMap = s.peerMap /\ t.rooms = s.rooms
        /\ t.clients[c] = y
        /\ \A d \in Conns \ {c} : t.clients[d] = s.clients[d]
    BY <1>1, SetSession
  <1>3. PICK f : t = [s EXCEPT !.clients = f]
    BY <1>1 DEF WithSession
  <1>4. /\ t.freeRoomIds = s.freeRoomIds /\ t.nextRoomId = s.nextRoomId
        /\ t.published = s.published
    BY <1>3 DEF Servers
  <1> QED BY <1>1, <1>2, <1>4

\* Equal rooms are the same rooms.
LEMMA EqualRooms ==
  ASSUME NEW s, NEW t, RoomsIn(s), t.rooms = s.rooms,
         t.freeRoomIds = s.freeRoomIds, t.nextRoomId = s.nextRoomId,
         t.published = s.published
  PROVE  SameRooms(s, t)
  BY DEF SameRooms, SameMembers, RoomsIn

\* Session c changes without entering or leaving a room, except that it may die
\* or miss an announcement.
LEMMA SessionSound ==
  ASSUME NEW s, SoundIn(s), NEW c \in Conns, NEW y \in Sessions,
         MembershipIn(WithSession(s, c, y)),
         Seated(y) => /\ Seated(s.clients[c]) /\ y.gap
                      /\ y.roomId = s.clients[c].roomId
                      /\ y.peerId = s.clients[c].peerId
                      /\ y.vip = s.clients[c].vip
                      /\ y.resume = s.clients[c].resume,
         s.clients[c].state = "InRoom" =>
           y.state = "InRoom" /\ y.roomId = s.clients[c].roomId
  PROVE  SoundIn(WithSession(s, c, y))
  <1>1. PICK t : t = WithSession(s, c, y)
    OBVIOUS
  <1>2. MembershipIn(s) /\ RoomsIn(s) /\ SeatsIn(s) /\ OnlineIn(s) /\ KnownIn(s)
        /\ ListedIn(s) /\ s \in Servers
    BY DEF SoundIn, MembershipIn
  <1>3. /\ t \in Servers
        /\ t.peerMap = s.peerMap /\ t.rooms = s.rooms
        /\ t.freeRoomIds = s.freeRoomIds /\ t.nextRoomId = s.nextRoomId
        /\ t.published = s.published
        /\ t.clients[c] = y
        /\ \A d \in Conns \ {c} : t.clients[d] = s.clients[d]
    BY <1>1, <1>2, SetSessionExact
  <1>4. RoomsIn(t) /\ ListedIn(t)
    BY <1>2, <1>3, EqualRooms, SameRoomsSound
  <1>5. SeatsIn(t)
    <2> SUFFICES ASSUME NEW d \in Conns, Seated(t.clients[d])
                 PROVE  SeatOK(t.clients[d], t.rooms[t.clients[d].roomId])
      BY DEF SeatsIn
    <2>1. CASE d # c
      BY <1>2, <1>3, <2>1 DEF SeatsIn
    <2>2. CASE d = c
      <3>1. SeatOK(s.clients[c], s.rooms[s.clients[c].roomId])
        BY <1>2, <1>3, <2>2 DEF SeatsIn
      <3> QED BY <1>3, <2>2, <3>1 DEF SeatOK
    <2> QED BY <2>1, <2>2
  <1>6. OnlineIn(t)
    <2> SUFFICES ASSUME NEW r \in RoomIds, NEW p \in PeerIds,
                        t.rooms[r].leases[p].online
                 PROVE  /\ t.peerMap[p] # NoConn
                        /\ t.clients[t.peerMap[p]].state = "InRoom"
                        /\ t.clients[t.peerMap[p]].roomId = r
      BY DEF OnlineIn, OnlineOK
    <2>1. /\ s.peerMap[p] # NoConn
          /\ s.clients[s.peerMap[p]].state = "InRoom"
          /\ s.clients[s.peerMap[p]].roomId = r
      BY <1>2, <1>3 DEF OnlineIn, OnlineOK
    <2>2. s.peerMap[p] \in Conns
      BY <1>2, <2>1, OwnerIs
    <2> QED BY <1>3, <2>1, <2>2
  <1>7. KnownIn(t)
    BY <1>2, <1>3 DEF KnownIn
  <1> QED BY <1>1, <1>4, <1>5, <1>6, <1>7 DEF SoundIn

\* The clock changes no member.
LEMMA TickSound ==
  ASSUME NEW s, SoundIn(s),
         NEW t, t = [s EXCEPT !.rooms = [r \in RoomIds |-> AgedRoom(s.rooms[r])]]
  PROVE  SoundIn(t)
  <1>2. MembershipIn(s) /\ RoomsIn(s) /\ SeatsIn(s) /\ OnlineIn(s) /\ KnownIn(s)
        /\ ListedIn(s) /\ s \in Servers
    BY DEF SoundIn, MembershipIn
  <1>3. PICK rooms : rooms = [r \in RoomIds |-> AgedRoom(s.rooms[r])]
    OBVIOUS
  <1>4. /\ t.rooms = rooms /\ t.clients = s.clients /\ t.peerMap = s.peerMap
        /\ t.freeRoomIds = s.freeRoomIds /\ t.nextRoomId = s.nextRoomId
        /\ t.published = s.published
    BY <1>2, <1>3 DEF Servers
  <1>5. ASSUME NEW r \in RoomIds
        PROVE  /\ SameMembers(s.rooms[r], t.rooms[r]) /\ RoomOK(t.rooms[r])
               /\ s.rooms[r] = NoRoom => t.rooms[r] = NoRoom
               /\ \A q \in PeerIds : t.rooms[r].leases[q].online
                    <=> s.rooms[r].leases[q].online
    <2>1. t.rooms[r] = AgedRoom(s.rooms[r])
      BY <1>3, <1>4
    <2>2. s.rooms[r] \in Rooms /\ RoomOK(s.rooms[r])
      BY <1>2 DEF RoomsIn, Servers
    <2>3. 1 \in PeerIds
      BY BoundsAssumption DEF PeerIds
    <2> QED BY <2>1, <2>2, <2>3, LeaseOpsExact
  <1>6. SameRooms(s, t)
    BY <1>4, <1>5 DEF SameRooms
  <1>7. RoomsIn(t) /\ ListedIn(t) /\ SameList(s, t)
    BY <1>2, <1>6, SameRoomsSound
  <1>8. MembershipIn(t)
    BY <1>2, TickInv
  <1>9. SeatsIn(t)
    <2> SUFFICES ASSUME NEW c \in Conns, Seated(s.clients[c])
                 PROVE  SeatOK(s.clients[c], t.rooms[s.clients[c].roomId])
      BY <1>4 DEF SeatsIn
    <2>1. s.clients[c].roomId \in RoomIds /\ s.clients[c].peerId \in PeerIds
      BY <1>2, SeatPlace DEF Seated
    <2>2. SeatOK(s.clients[c], s.rooms[s.clients[c].roomId])
      BY <1>2 DEF SeatsIn
    <2> QED BY <1>5, <2>1, <2>2 DEF SeatOK, SameMembers
  <1>10. OnlineIn(t)
    BY <1>2, <1>4, <1>5 DEF OnlineIn, OnlineOK
  <1>11. KnownIn(t)
    <2> SUFFICES ASSUME NEW c \in Conns, Seated(s.clients[c]), ~s.clients[c].gap
                 PROVE  s.clients[c].told = Holders(t.rooms[s.clients[c].roomId])
      BY <1>4 DEF KnownIn
    <2>1. s.clients[c].roomId \in RoomIds
      BY <1>2, SeatPlace DEF Seated
    <2> QED BY <1>2, <1>7, <2>1 DEF KnownIn, SameList
  <1> QED BY <1>7, <1>8, <1>9, <1>10, <1>11 DEF SoundIn

\* The leases online are the same, except that p may go offline.
SameOnline(s, t, p) ==
  \A r \in RoomIds, q \in PeerIds :
    /\ t.rooms[r].leases[q].online => s.rooms[r].leases[q].online
    /\ s.rooms[r].leases[q].online /\ q # p => t.rooms[r].leases[q].online

\* Session c, which is in no room, gets the identity p, which no session has.
LEMMA BindSound ==
  ASSUME NEW s, SoundIn(s), NEW t, MembershipIn(t), NEW c \in Conns,
         NEW p \in PeerIds, s.peerMap[p] = NoConn,
         t.peerMap = [s.peerMap EXCEPT ![p] = c],
         s.clients[c].state # "InRoom", t.clients[c].state # "InRoom",
         \A d \in Conns \ {c} : t.clients[d] = s.clients[d],
         SameRooms(s, t), SameOnline(s, t, p)
  PROVE  SoundIn(t)
  <1>2. MembershipIn(s) /\ RoomsIn(s) /\ SeatsIn(s) /\ OnlineIn(s) /\ KnownIn(s)
        /\ ListedIn(s)
    BY DEF SoundIn
  <1>3. RoomsIn(t) /\ ListedIn(t) /\ SameList(s, t)
    BY <1>2, SameRoomsSound
  <1>4. ASSUME NEW d \in Conns, Seated(t.clients[d])
        PROVE  /\ d # c /\ t.clients[d] = s.clients[d]
               /\ s.clients[d].roomId \in RoomIds
               /\ s.clients[d].peerId \in PeerIds /\ s.clients[d].peerId # p
    <2>1. d # c /\ t.clients[d] = s.clients[d]
      BY <1>4 DEF Seated
    <2> QED BY <1>2, <1>4, <2>1, SeatPlace, NoConnAssumption DEF Seated
  <1>5. SeatsIn(t)
    <2> SUFFICES ASSUME NEW d \in Conns, Seated(t.clients[d])
                 PROVE  SeatOK(t.clients[d], t.rooms[t.clients[d].roomId])
      BY DEF SeatsIn
    <2>1. PICK x, o, r : x = s.clients[d] /\ o = x.peerId /\ r = x.roomId
      OBVIOUS
    <2>2. t.clients[d] = x /\ r \in RoomIds /\ o \in PeerIds /\ o # p
      BY <1>4, <2>1
    <2>3. SeatOK(x, s.rooms[r])
      BY <1>2, <2>1, <2>2 DEF SeatsIn
    <2>4. /\ t.rooms[r].leases[o].token = s.rooms[r].leases[o].token
          /\ t.rooms[r].leases[o].vip = s.rooms[r].leases[o].vip
          /\ s.rooms[r].leases[o].online => t.rooms[r].leases[o].online
      BY <2>2 DEF SameRooms, SameMembers, SameOnline
    <2>5. /\ t.rooms[r].leases[o].token # 0 /\ t.rooms[r].leases[o].online
          /\ t.rooms[r].leases[o].vip = x.vip
          /\ x.resume = [room |-> r, peer |-> o, token |-> t.rooms[r].leases[o].token]
      BY <2>1, <2>3, <2>4 DEF SeatOK
    <2> QED BY <2>1, <2>2, <2>5 DEF SeatOK
  <1>6. OnlineIn(t)
    <2> SUFFICES ASSUME NEW r \in RoomIds, NEW o \in PeerIds,
                        t.rooms[r].leases[o].online
                 PROVE  /\ t.peerMap[o] # NoConn
                        /\ t.clients[t.peerMap[o]].state = "InRoom"
                        /\ t.clients[t.peerMap[o]].roomId = r
      BY DEF OnlineIn, OnlineOK
    <2>1. s.rooms[r].leases[o].online
      BY DEF SameOnline
    <2>2. /\ s.peerMap[o] # NoConn
          /\ s.clients[s.peerMap[o]].state = "InRoom"
          /\ s.clients[s.peerMap[o]].roomId = r
      BY <1>2, <2>1 DEF OnlineIn, OnlineOK
    <2>3. s.peerMap[o] \in Conns \ {c} /\ o # p
      BY <1>2, <2>2, OwnerIs
    <2>4. t.peerMap[o] = s.peerMap[o]
      BY <1>2, <2>3, IdentityTypes DEF MembershipIn
    <2> QED BY <2>2, <2>3, <2>4
  <1>7. KnownIn(t)
    <2> SUFFICES ASSUME NEW d \in Conns, Seated(t.clients[d]), ~t.clients[d].gap
                 PROVE  t.clients[d].told = Holders(t.rooms[t.clients[d].roomId])
      BY DEF KnownIn
    <2>1. t.clients[d] = s.clients[d] /\ s.clients[d].roomId \in RoomIds
      BY <1>4
    <2> QED BY <1>2, <1>3, <2>1 DEF KnownIn, SameList
  <1> QED BY <1>3, <1>5, <1>6, <1>7 DEF SoundIn

\* No lease comes or goes, and those there are keep their addresses.
SameTokens(s, t) ==
  \A r \in RoomIds, p \in PeerIds :
    /\ t.rooms[r].leases[p].token = s.rooms[r].leases[p].token
    /\ s.rooms[r].leases[p].token # 0
         => t.rooms[r].leases[p].vip = s.rooms[r].leases[p].vip

\* A login without a credential: a new identity, no lease.
LEMMA FreshLoginSound ==
  ASSUME NEW s, SoundIn(s), NEW c \in Conns,
         s.clients[c].state = "AwaitLogin", CanAllocatePeerId(s)
  PROVE  LET t == FreshLogin(s, c)
         IN /\ SoundIn(t)
            /\ t.rooms = s.rooms
            /\ t.clients[c].state = "LoggedIn"
            /\ t.clients[c].told = s.clients[c].told
            /\ \A d \in Conns \ {c} : t.clients[d] = s.clients[d]
  <1>1. PICK t, p : t = FreshLogin(s, c) /\ p = NextPeerId(s)
    OBVIOUS
  <1>2. MembershipIn(s) /\ RoomsIn(s) /\ s \in Servers /\ s.clients[c] \in Sessions
    BY DEF SoundIn, MembershipIn, Servers
  <1>3. MembershipIn(t)
    BY <1>1, <1>2, FreshLoginInv
  <1>4. p \in PeerIds /\ (p \in s.freePeerIds \/ p >= s.nextPeerId)
    <2>1. s.nextPeerId \in 1 .. (MaxPeerId + 1) /\ s.freePeerIds \subseteq PeerIds
      BY <1>2 DEF Servers
    <2>2. CASE s.freePeerIds # {}
      BY <1>1, <2>1, <2>2, LowestIn, BoundsAssumption DEF NextPeerId, PeerIds
    <2>3. CASE s.freePeerIds = {}
      BY <1>1, <2>1, <2>3, BoundsAssumption DEF NextPeerId, PeerIds, CanAllocatePeerId
    <2> QED BY <2>2, <2>3
  <1>5. s.peerMap[p] = NoConn
    BY <1>2, <1>4 DEF MembershipIn, FreshPeerIdsIn
  <1> DEFINE y == [s.clients[c] EXCEPT !.state = "LoggedIn", !.peerId = p]
  <1>6. y.state = "LoggedIn" /\ y.told = s.clients[c].told
    BY <1>2 DEF Sessions
  <1>7. PICK freed, next :
          t = [s EXCEPT !.clients = [s.clients EXCEPT ![c] = y],
                        !.peerMap = [s.peerMap EXCEPT ![p] = c],
                        !.freePeerIds = freed, !.nextPeerId = next]
    BY <1>1, <1>2 DEF FreshLogin, Servers
  <1> HIDE DEF y
  <1>8. /\ t.clients = [s.clients EXCEPT ![c] = y]
        /\ t.peerMap = [s.peerMap EXCEPT ![p] = c]
        /\ t.rooms = s.rooms /\ t.freeRoomIds = s.freeRoomIds
        /\ t.nextRoomId = s.nextRoomId /\ t.published = s.published
    BY <1>2, <1>7 DEF Servers
  <1>9. t.clients[c] = y /\ \A d \in Conns \ {c} : t.clients[d] = s.clients[d]
    BY <1>2, <1>8 DEF Servers
  <1>10. SameRooms(s, t)
    BY <1>2, <1>8, EqualRooms
  <1>11. SoundIn(t)
    <2>1. s.clients[c].state # "InRoom" /\ t.clients[c].state # "InRoom"
      BY <1>6, <1>9
    <2>2. SameOnline(s, t, p)
      BY <1>8 DEF SameOnline
    <2> QED BY <1>3, <1>4, <1>5, <1>8, <1>9, <1>10, <2>1, <2>2, BindSound
  <1> QED BY <1>1, <1>6, <1>8, <1>9, <1>11

\* A login with a credential: the lease is offline until it is resumed, and the
\* session that had the identity is gone.
LEMMA ResumeLoginSound ==
  ASSUME NEW s, SoundIn(s), NEW c \in Conns,
         s.clients[c].state = "AwaitLogin",
         NEW cred \in Credentials, cred.room # 0, cred.peer # 0, cred.token # 0,
         ValidateResumeLease(s, cred)
  PROVE  LET t == ResumeLogin(s, c, cred)
         IN /\ SoundIn(t)
            /\ SameTokens(s, t)
            /\ t.clients[c].state = "ResumePending"
            /\ t.clients[c].resume = cred
            /\ t.clients[c].told = s.clients[c].told
            /\ \A d \in Conns \ {c} : t.clients[d] \in {s.clients[d], NoSession}
  <1>1. PICK t, p, r, old : /\ t = ResumeLogin(s, c, cred)
                            /\ p = cred.peer /\ r = cred.room
                            /\ old = Owner(s, p)
    OBVIOUS
  <1>2. MembershipIn(s) /\ RoomsIn(s) /\ s \in Servers
    BY DEF SoundIn, MembershipIn
  <1>3. p \in PeerIds /\ r \in RoomIds /\ p # 0
    BY <1>1, BoundsAssumption DEF Credentials, PeerIds, RoomIds
  <1>4. MembershipIn(t)
    BY <1>1, <1>2, ResumeLoginInv
  <1>5. s.clients[c].peerId = 0
    BY <1>2 DEF MembershipIn, SessionShapeIn, Shaped, IdentityStates
  <1>6. PICK w : w = IF old \in {NoConn, c} THEN s ELSE Destroy(s, {old}, TRUE)
    OBVIOUS
  <1>7. /\ SoundIn(w)
        /\ w.peerMap[p] = NoConn
        /\ \A d \in Conns : w.clients[d] \in {s.clients[d], NoSession}
        /\ w.clients[c] = s.clients[c]
        /\ SameTokens(s, w)
    <2>0. old = s.peerMap[p] /\ old \in Conns \cup {NoConn}
      BY <1>1, <1>2, <1>3, OwnerIs
    <2>1. CASE old = NoConn
      BY <2>0, <2>1, <1>6 DEF SameTokens
    <2>2. CASE old # NoConn
      <3>1. old \in Conns /\ s.clients[old].peerId = p
        BY <1>2, <1>3, <2>0, <2>2 DEF MembershipIn, IndexExactIn
      <3>2. old # c
        BY <1>3, <1>5, <3>1
      <3>3. PICK D \in SUBSET Conns : D = {old}
        BY <3>1
      <3>4. PICK b \in BOOLEAN : b = TRUE
        OBVIOUS
      <3>5. w = Destroy(s, D, b)
        BY <1>6, <2>2, <3>2, <3>3, <3>4, Zenon
      <3> HIDE <3>4
      <3>6. SoundIn(w)
        BY <3>5, DestroySound
      <3>7. /\ SameRooms(s, w)
            /\ w.peerMap = Unbound(s, D)
            /\ \A d \in Conns : w.clients[d] =
                 IF d \in D THEN NoSession ELSE s.clients[d]
        BY <1>2, <3>5, DestroyExact
      <3>8. w.peerMap[p] = NoConn
        BY <1>3, <2>0, <3>1, <3>3, <3>7 DEF Unbound
      <3> QED BY <3>2, <3>3, <3>6, <3>7, <3>8 DEF SameTokens, SameRooms, SameMembers
    <2> QED BY <2>1, <2>2
  <1>8. MembershipIn(w) /\ RoomsIn(w) /\ w \in Servers
        /\ w.clients \in [Conns -> Sessions] /\ w.rooms \in [RoomIds -> Rooms]
    BY <1>7 DEF SoundIn, MembershipIn, Servers
  <1> DEFINE y == [w.clients[c] EXCEPT !.state = "ResumePending", !.peerId = p,
                                       !.resume = cred]
  <1>9. y.state = "ResumePending" /\ y.resume = cred /\ y.told = s.clients[c].told
    BY <1>7, <1>8 DEF Sessions
  <1>10. PICK room : room = MarkLeaseOffline(w.rooms[r], p)
    OBVIOUS
  <1>11. /\ SameMembers(w.rooms[r], room) /\ RoomOK(room)
         /\ \A q \in PeerIds :
              room.leases[q].online <=> w.rooms[r].leases[q].online /\ q # p
    BY <1>3, <1>8, <1>10, LeaseOpsExact DEF RoomsIn
  <1>12. t = [w EXCEPT !.clients = [w.clients EXCEPT ![c] = y],
                       !.rooms = [w.rooms EXCEPT ![r] = room],
                       !.peerMap = [w.peerMap EXCEPT ![p] = c]]
    BY <1>1, <1>6, <1>10 DEF ResumeLogin
  <1> HIDE DEF y
  <1>13. /\ t.clients = [w.clients EXCEPT ![c] = y]
         /\ t.rooms = [w.rooms EXCEPT ![r] = room]
         /\ t.peerMap = [w.peerMap EXCEPT ![p] = c]
         /\ t.freeRoomIds = w.freeRoomIds
         /\ t.nextRoomId = w.nextRoomId /\ t.published = w.published
    BY <1>8, <1>12 DEF Servers
  <1>14. t.clients[c] = y /\ \A d \in Conns \ {c} : t.clients[d] = w.clients[d]
    BY <1>8, <1>13
  <1>15. t.rooms[r] = room /\ \A q \in RoomIds \ {r} : t.rooms[q] = w.rooms[q]
    BY <1>3, <1>8, <1>13
  <1>16. SameRooms(w, t)
    <2>1. w.rooms[r] # NoRoom
      <3>1. w.rooms[r].leases[p].token # 0
        BY <1>1, <1>3, <1>7 DEF ValidateResumeLease, SameTokens
      <3> QED BY <1>3, <3>1, Nothing
    <2>2. \A q \in RoomIds : SameMembers(w.rooms[q], w.rooms[q]) /\ RoomOK(w.rooms[q])
      BY <1>8 DEF RoomsIn, SameMembers
    <2> QED BY <1>11, <1>13, <1>15, <2>1, <2>2 DEF SameRooms
  <1>17. SoundIn(t)
    <2>1. w.clients[c].state # "InRoom" /\ t.clients[c].state # "InRoom"
      BY <1>7, <1>9, <1>14
    <2>2. SameOnline(w, t, p)
      BY <1>11, <1>15 DEF SameOnline
    <2> QED BY <1>3, <1>4, <1>7, <1>13, <1>14, <1>16, <2>1, <2>2, BindSound
  <1>18. SameTokens(s, t)
    BY <1>7, <1>16 DEF SameTokens, SameRooms, SameMembers
  <1>19. \A d \in Conns \ {c} : t.clients[d] \in {s.clients[d], NoSession}
    BY <1>7, <1>14
  <1> QED BY <1>1, <1>9, <1>14, <1>17, <1>18, <1>19

-----------------------------------------------------------------------------
(* Entering a room *)

\* A server in which session c of the lobby can be given a lease in room r,
\* which exists and may be without members for the moment.
ReadyFor(s, c, r) ==
  /\ MembershipIn(s) /\ SeatsIn(s) /\ OnlineIn(s) /\ KnownIn(s)
  /\ RoomIdsOK(s)
  /\ \A q \in RoomIds \ {r} : RoomOK(s.rooms[q])
  /\ RoomFits(s.rooms[r]) /\ s.rooms[r] # NoRoom
  /\ s.clients[c].state = "LoggedIn"
  /\ CanAddLease(s.rooms[r], s.clients[c].peerId)

\* The server t is s after session c, with peer p, has entered room r.
Entered(s, t, c, r, p, token) ==
  /\ MembershipIn(t)
  /\ Added(s.rooms[r], t.rooms[r], p, token)
  /\ \A q \in RoomIds \ {r} : t.rooms[q] = s.rooms[q]
  /\ t.peerMap = s.peerMap /\ t.published = s.published
  /\ t.freeRoomIds = s.freeRoomIds /\ t.nextRoomId = s.nextRoomId
  /\ \A d \in Conns \ {c} : t.clients[d] = s.clients[d]
  /\ t.clients[c].state = "InRoom" /\ t.clients[c].roomId = r
  /\ t.clients[c].peerId = p
  /\ t.clients[c].vip = t.rooms[r].leases[p].vip
  /\ t.clients[c].resume = [room |-> r, peer |-> p, token |-> token]
  /\ t.clients[c].told = Holders(t.rooms[r])

\* The identity of a session in the lobby.
LEMMA LobbyPeer ==
  ASSUME NEW s, MembershipIn(s), NEW c \in Conns, s.clients[c].state = "LoggedIn"
  PROVE  /\ s.clients[c].peerId \in PeerIds /\ s.clients[c].peerId # 0
         /\ s.peerMap[s.clients[c].peerId] = c
  <1>1. s \in Servers /\ Shaped(s.clients[c])
    BY DEF MembershipIn, SessionShapeIn
  <1>2. s.clients[c].peerId # 0
    BY <1>1 DEF Shaped, IdentityStates
  <1> QED BY <1>1, <1>2, IdentityTypes DEF MembershipIn, IndexExactIn

\* addLease and the session's part of CREATE_ROOM and completeJoin.
LEMMA EnterExact ==
  ASSUME NEW s, NEW c \in Conns, NEW r \in RoomIds, ReadyFor(s, c, r),
         NEW token \in Tokens, NEW p, p = s.clients[c].peerId
  PROVE  Entered(s, EnterRoom(WithLease(s, r, p, token), c, r), c, r, p, token)
  <1>0. MembershipIn(s) /\ s.clients[c].state = "LoggedIn" /\ s \in Servers
        /\ s.clients[c] \in Sessions /\ s.rooms[r] \in Rooms
    BY DEF ReadyFor, MembershipIn, Servers
  <1>1. PICK t : t = EnterRoom(WithLease(s, r, p, token), c, r)
    OBVIOUS
  <1>2. MembershipIn(t)
    BY <1>0, <1>1, JoinInv
  <1>3. p \in PeerIds /\ p # 0
    BY <1>0, LobbyPeer
  <1>4. PICK room : room = AddLease(s.rooms[r], p, token)
    OBVIOUS
  <1>5. Added(s.rooms[r], room, p, token)
    BY <1>0, <1>3, <1>4, AddExact DEF ReadyFor
  <1>6. PICK w : w = [s EXCEPT !.rooms = [s.rooms EXCEPT ![r] = room]]
    OBVIOUS
  <1>7. w = WithLease(s, r, p, token)
    BY <1>4, <1>6 DEF WithLease
  <1>8. /\ w.clients = s.clients /\ w.peerMap = s.peerMap
        /\ w.published = s.published /\ w.freeRoomIds = s.freeRoomIds
        /\ w.nextRoomId = s.nextRoomId
        /\ w.rooms = [s.rooms EXCEPT ![r] = room]
        /\ w \in Servers
    <2>1. [s.rooms EXCEPT ![r] = room] \in [RoomIds -> Rooms]
      BY <1>0, <1>5 DEF Servers, Added
    <2> QED BY <1>0, <1>6, <2>1 DEF Servers
  <1>9. w.rooms[r] = room /\ \A q \in RoomIds \ {r} : w.rooms[q] = s.rooms[q]
    BY <1>0, <1>8 DEF Servers
  <1> DEFINE y == [s.clients[c] EXCEPT !.state = "InRoom", !.roomId = r,
                     !.vip = room.leases[p].vip,
                     !.pending = [room |-> 0, key |-> 0],
                     !.resume = [room |-> r, peer |-> p, token |-> token],
                     !.told = Holders(room), !.gap = FALSE]
  <1>10. room.leases[p].token = token
    BY <1>5 DEF Added
  <1>11. t = [w EXCEPT !.clients = [w.clients EXCEPT ![c] = y]]
    BY <1>1, <1>7, <1>8, <1>9, <1>10 DEF EnterRoom
  <1>12. /\ y.state = "InRoom" /\ y.roomId = r /\ y.peerId = p
         /\ y.vip = room.leases[p].vip
         /\ y.resume = [room |-> r, peer |-> p, token |-> token]
         /\ y.told = Holders(room)
    BY <1>0 DEF Sessions
  <1> HIDE DEF y
  <1>13. /\ t.clients = [w.clients EXCEPT ![c] = y] /\ t.peerMap = w.peerMap
         /\ t.rooms = w.rooms
         /\ t.published = w.published /\ t.freeRoomIds = w.freeRoomIds
         /\ t.nextRoomId = w.nextRoomId
    BY <1>8, <1>11 DEF Servers
  <1>14. t.clients[c] = y /\ \A d \in Conns \ {c} : t.clients[d] = s.clients[d]
    BY <1>0, <1>8, <1>13 DEF Servers
  <1> QED BY <1>1, <1>2, <1>5, <1>8, <1>9, <1>12, <1>13, <1>14 DEF Entered

\* The newcomer has its seat, and the others keep theirs.
LEMMA EnterSeats ==
  ASSUME NEW s, NEW c \in Conns, NEW r \in RoomIds, ReadyFor(s, c, r),
         NEW token \in Tokens, NEW p, p = s.clients[c].peerId,
         NEW t, Entered(s, t, c, r, p, token)
  PROVE  RoomsIn(t) /\ SeatsIn(t) /\ OnlineIn(t)
  <1>0. MembershipIn(s) /\ SeatsIn(s) /\ OnlineIn(s) /\ s \in Servers
    BY DEF ReadyFor, MembershipIn
  <1>1. p \in PeerIds /\ p # 0 /\ s.peerMap[p] = c
    BY <1>0, LobbyPeer DEF ReadyFor
  <1>2. RoomsIn(t)
    <2>1. \A q \in RoomIds : RoomOK(t.rooms[q])
      BY DEF ReadyFor, Entered, Added
    <2>2. r \notin s.freeRoomIds /\ ~(r >= s.nextRoomId)
      BY DEF ReadyFor, RoomIdsOK
    <2>3. RoomIdsOK(t)
      BY <2>2 DEF ReadyFor, RoomIdsOK, Entered
    <2> QED BY <2>1, <2>3 DEF RoomsIn
  <1>3. ASSUME NEW q \in RoomIds, NEW o \in PeerIds, o # p
        PROVE  t.rooms[q].leases[o] = s.rooms[q].leases[o]
    BY <1>3, SMTT(30) DEF Entered, Added
  <1>4. SeatsIn(t)
    <2> SUFFICES ASSUME NEW d \in Conns, Seated(t.clients[d])
                 PROVE  SeatOK(t.clients[d], t.rooms[t.clients[d].roomId])
      BY DEF SeatsIn
    <2>1. CASE d = c
      <3>1. t.rooms[r].leases[p].token = token /\ t.rooms[r].leases[p].online
        BY DEF Entered, Added
      <3>2. token # 0
        BY PositiveIds
      <3>3. /\ t.clients[c].roomId = r /\ t.clients[c].peerId = p
            /\ t.clients[c].vip = t.rooms[r].leases[p].vip
            /\ t.clients[c].resume = [room |-> r, peer |-> p, token |-> token]
        BY DEF Entered
      <3> QED BY <2>1, <3>1, <3>2, <3>3 DEF SeatOK
    <2>2. CASE d # c
      <3>1. t.clients[d] = s.clients[d] /\ Seated(s.clients[d])
        BY <2>2 DEF Entered
      <3>2. s.clients[d].peerId \in PeerIds /\ s.clients[d].roomId \in RoomIds
            /\ s.peerMap[s.clients[d].peerId] = d
        BY <1>0, <3>1, SeatPlace DEF Seated
      <3>3. s.clients[d].peerId # p
        BY <1>1, <2>2, <3>2
      <3>4. SeatOK(s.clients[d], s.rooms[s.clients[d].roomId])
        BY <1>0, <3>1 DEF SeatsIn
      <3>5. PICK x, o, q : x = s.clients[d] /\ o = x.peerId /\ q = x.roomId
        OBVIOUS
      <3>6. t.rooms[q].leases[o] = s.rooms[q].leases[o]
        BY <1>3, <3>2, <3>3, <3>5
      <3>7. SeatOK(x, s.rooms[q])
        BY <3>4, <3>5
      <3>8. SeatOK(x, t.rooms[q])
        BY <3>5, <3>6, <3>7 DEF SeatOK
      <3> QED BY <3>1, <3>5, <3>8
    <2> QED BY <2>1, <2>2
  <1>5. OnlineIn(t)
    <2> SUFFICES ASSUME NEW q \in RoomIds, NEW o \in PeerIds,
                        t.rooms[q].leases[o].online
                 PROVE  /\ t.peerMap[o] # NoConn
                        /\ t.clients[t.peerMap[o]].state = "InRoom"
                        /\ t.clients[t.peerMap[o]].roomId = q
      BY DEF OnlineIn, OnlineOK
    <2>0. t.peerMap = s.peerMap
      BY DEF Entered
    <2>1. CASE o = p /\ q = r
      BY <1>1, <2>0, <2>1, NoConnAssumption DEF Entered
    <2>2. CASE o # p \/ q # r
      <3>1. s.rooms[q].leases[o].online
        BY <2>2, SMTT(30) DEF Entered, Added
      <3>2. /\ s.peerMap[o] # NoConn
            /\ s.clients[s.peerMap[o]].state = "InRoom"
            /\ s.clients[s.peerMap[o]].roomId = q
        BY <1>0, <3>1 DEF OnlineIn, OnlineOK
      <3>3. s.peerMap[o] \in Conns \ {c}
        BY <1>0, <3>2, OwnerIs DEF ReadyFor
      <3> QED BY <2>0, <3>2, <3>3 DEF Entered
    <2> QED BY <2>1, <2>2
  <1> QED BY <1>2, <1>4, <1>5

\* Announcing a newcomer changes only what the members have been told.
LEMMA TellJoinedExact ==
  ASSUME NEW s \in Servers, NEW r, NEW p \in PeerIds
  PROVE  LET t == TellJoined(s, r, p)
         IN /\ t \in Servers
            /\ t.peerMap = s.peerMap /\ t.rooms = s.rooms
            /\ t.freeRoomIds = s.freeRoomIds /\ t.nextRoomId = s.nextRoomId
            /\ t.published = s.published
            /\ \A c \in Conns :
                 /\ SameSeat(s.clients[c], t.clients[c])
                 /\ t.clients[c].told =
                      IF c \in Receivers(s, r, p) /\ ~s.clients[c].gap
                      THEN s.clients[c].told \cup {p} ELSE s.clients[c].told
  <1>1. PICK t : t = TellJoined(s, r, p)
    OBVIOUS
  <1>2. t \in Servers /\ t.peerMap = s.peerMap /\ t.rooms = s.rooms
    BY <1>1, TellFields
  <1>3. PICK f : /\ f = [c \in Conns |->
                           IF c \in Receivers(s, r, p) /\ ~s.clients[c].gap
                           THEN [s.clients[c] EXCEPT !.told = @ \cup {p}]
                           ELSE s.clients[c]]
                 /\ t = [s EXCEPT !.clients = f]
    BY <1>1 DEF TellJoined
  <1>4. /\ t.clients = f /\ t.freeRoomIds = s.freeRoomIds
        /\ t.nextRoomId = s.nextRoomId /\ t.published = s.published
    BY <1>3 DEF Servers
  <1>5. ASSUME NEW c \in Conns
        PROVE  /\ SameSeat(s.clients[c], t.clients[c])
               /\ t.clients[c].told =
                    IF c \in Receivers(s, r, p) /\ ~s.clients[c].gap
                    THEN s.clients[c].told \cup {p} ELSE s.clients[c].told
    <2>1. s.clients[c] \in Sessions
      BY DEF Servers
    <2>2. CASE c \in Receivers(s, r, p) /\ ~s.clients[c].gap
      <3>1. t.clients[c] = [s.clients[c] EXCEPT !.told = @ \cup {p}]
        BY <1>3, <1>4, <2>2
      <3> QED BY <2>1, <2>2, <3>1 DEF Sessions, SameSeat, SameIdentity
    <2>3. CASE ~(c \in Receivers(s, r, p) /\ ~s.clients[c].gap)
      <3>1. t.clients[c] = s.clients[c]
        BY <1>3, <1>4, <2>3
      <3> QED BY <2>3, <3>1 DEF SameSeat, SameIdentity
    <2> QED BY <2>2, <2>3
  <1> QED BY <1>1, <1>2, <1>4, <1>5

\* Announcements move no session and no lease.
LEMMA SeatsStay ==
  ASSUME NEW s, MembershipIn(s), RoomsIn(s), SeatsIn(s), OnlineIn(s),
         NEW t, t.peerMap = s.peerMap, t.rooms = s.rooms,
         t.freeRoomIds = s.freeRoomIds, t.nextRoomId = s.nextRoomId,
         \A c \in Conns : SameSeat(s.clients[c], t.clients[c])
  PROVE  RoomsIn(t) /\ SeatsIn(t) /\ OnlineIn(t)
  <1>1. RoomsIn(t)
    BY DEF RoomsIn, RoomIdsOK
  <1>2. SeatsIn(t)
    <2> SUFFICES ASSUME NEW c \in Conns, Seated(t.clients[c])
                 PROVE  SeatOK(t.clients[c], s.rooms[t.clients[c].roomId])
      BY DEF SeatsIn
    <2>1. SameSeat(s.clients[c], t.clients[c])
      OBVIOUS
    <2>2. Seated(s.clients[c])
      BY <2>1 DEF Seated, SameSeat, SameIdentity
    <2>3. SeatOK(s.clients[c], s.rooms[s.clients[c].roomId])
      BY <2>2 DEF SeatsIn
    <2> QED BY <2>1, <2>3 DEF SeatOK, SameSeat, SameIdentity
  <1>3. OnlineIn(t)
    <2> SUFFICES ASSUME NEW r \in RoomIds, NEW p \in PeerIds,
                        s.rooms[r].leases[p].online
                 PROVE  /\ s.peerMap[p] # NoConn
                        /\ t.clients[s.peerMap[p]].state = "InRoom"
                        /\ t.clients[s.peerMap[p]].roomId = r
      BY DEF OnlineIn, OnlineOK
    <2>1. /\ s.peerMap[p] # NoConn
          /\ s.clients[s.peerMap[p]].state = "InRoom"
          /\ s.clients[s.peerMap[p]].roomId = r
      BY DEF OnlineIn, OnlineOK
    <2>2. s.peerMap[p] \in Conns
      BY <2>1, OwnerIs
    <2>3. SameSeat(s.clients[s.peerMap[p]], t.clients[s.peerMap[p]])
      BY <2>2
    <2> QED BY <2>1, <2>3 DEF SameSeat, SameIdentity
  <1> QED BY <1>1, <1>2, <1>3

\* completeJoin: the newcomer and the members know each other, and the list
\* counts it.
LEMMA JoinSound ==
  ASSUME NEW s, NEW c \in Conns, NEW r \in RoomIds, ReadyFor(s, c, r),
         NEW token \in Tokens, NEW p, p = s.clients[c].peerId,
         NEW t, t = EnterRoom(WithLease(s, r, p, token), c, r)
  PROVE  SoundIn(PushRoomList(TellJoined(t, r, p)))
  <1>0. MembershipIn(s) /\ KnownIn(s)
    BY DEF ReadyFor
  <1>1. p \in PeerIds /\ p # 0 /\ s.peerMap[p] = c
    BY <1>0, LobbyPeer DEF ReadyFor
  <1>2. Entered(s, t, c, r, p, token)
    BY EnterExact
  <1>3. RoomsIn(t) /\ SeatsIn(t) /\ OnlineIn(t)
    BY <1>2, EnterSeats
  <1>4. MembershipIn(t) /\ t \in Servers
    BY <1>2 DEF Entered, MembershipIn
  <1>5. PICK v : v = TellJoined(t, r, p)
    OBVIOUS
  <1>6. MembershipIn(v)
    BY <1>1, <1>4, <1>5, TellJoinedInv
  <1>7. /\ v.peerMap = t.peerMap /\ v.rooms = t.rooms
        /\ v.freeRoomIds = t.freeRoomIds /\ v.nextRoomId = t.nextRoomId
        /\ \A d \in Conns :
             /\ SameSeat(t.clients[d], v.clients[d])
             /\ v.clients[d].told =
                  IF d \in Receivers(t, r, p) /\ ~t.clients[d].gap
                  THEN t.clients[d].told \cup {p} ELSE t.clients[d].told
    BY <1>1, <1>4, <1>5, TellJoinedExact
  <1>8. RoomsIn(v) /\ SeatsIn(v) /\ OnlineIn(v)
    BY <1>3, <1>4, <1>7, SeatsStay
  <1>9. KnownIn(v)
    <2> SUFFICES ASSUME NEW d \in Conns, Seated(v.clients[d]), ~v.clients[d].gap
                 PROVE  v.clients[d].told = Holders(v.rooms[v.clients[d].roomId])
      BY DEF KnownIn
    <2>1. SameSeat(t.clients[d], v.clients[d])
      BY <1>7
    <2>2. /\ Seated(t.clients[d]) /\ ~t.clients[d].gap
          /\ v.clients[d].roomId = t.clients[d].roomId
      BY <2>1 DEF Seated, SameSeat, SameIdentity
    <2>3. d \in Receivers(t, r, p) <=>
            t.clients[d].roomId = r /\ t.clients[d].peerId # p
      BY <1>1, <1>3, <1>4, <2>2, ReceiversAre
    <2>4. CASE d = c
      <3>1. t.clients[c].peerId = p /\ t.clients[c].roomId = r
            /\ t.clients[c].told = Holders(t.rooms[r])
        BY <1>2 DEF Entered
      <3> QED BY <1>7, <2>2, <2>3, <2>4, <3>1
    <2>5. CASE d # c
      <3>1. t.clients[d] = s.clients[d]
        BY <1>2, <2>5 DEF Entered
      <3>2. PICK q : q = s.clients[d].roomId
        OBVIOUS
      <3>3. q \in RoomIds /\ s.clients[d].peerId # p
        BY <1>0, <1>1, <2>2, <2>5, <3>1, <3>2, SeatPlace DEF Seated
      <3>4. s.clients[d].told = Holders(s.rooms[q])
        BY <1>0, <2>2, <3>1, <3>2 DEF KnownIn
      <3>5. CASE q = r
        <4>1. v.clients[d].told = s.clients[d].told \cup {p}
          BY <1>7, <2>2, <2>3, <3>1, <3>2, <3>3, <3>5
        <4>2. Holders(t.rooms[r]) = Holders(s.rooms[r]) \cup {p}
          BY <1>2 DEF Entered, Added
        <4>3. v.rooms[v.clients[d].roomId] = t.rooms[r]
          BY <1>7, <2>2, <3>1, <3>2, <3>5
        <4>4. PICK H : H = Holders(s.rooms[r])
          OBVIOUS
        <4>5. v.clients[d].told = H \cup {p}
          BY <3>4, <3>5, <4>1, <4>4
        <4>6. Holders(v.rooms[v.clients[d].roomId]) = H \cup {p}
          BY <4>2, <4>3, <4>4
        <4> QED BY <4>5, <4>6
      <3>6. CASE q # r
        <4>1. v.clients[d].told = s.clients[d].told
          BY <1>7, <2>3, <3>1, <3>2, <3>6
        <4>2. t.rooms[q] = s.rooms[q]
          BY <1>2, <3>3, <3>6 DEF Entered
        <4> QED BY <1>7, <2>2, <3>1, <3>2, <3>4, <4>1, <4>2, SMTT(30)
      <3> QED BY <3>5, <3>6
    <2> QED BY <2>4, <2>5
  <1>10. AlmostIn(v)
    BY <1>6, <1>8, <1>9 DEF AlmostIn
  <1> QED BY <1>5, <1>10, PushSound

\* CREATE_ROOM: the room has its first member.
LEMMA FirstSound ==
  ASSUME NEW s, NEW c \in Conns, NEW r \in RoomIds, ReadyFor(s, c, r),
         Holders(s.rooms[r]) = {},
         NEW token \in Tokens, NEW p, p = s.clients[c].peerId,
         NEW t, t = EnterRoom(WithLease(s, r, p, token), c, r)
  PROVE  SoundIn(PushRoomList(t))
  <1>0. MembershipIn(s) /\ KnownIn(s) /\ SeatsIn(s)
    BY DEF ReadyFor
  <1>2. Entered(s, t, c, r, p, token)
    BY EnterExact
  <1>3. RoomsIn(t) /\ SeatsIn(t) /\ OnlineIn(t) /\ MembershipIn(t)
    <2>1. RoomsIn(t) /\ SeatsIn(t) /\ OnlineIn(t)
      BY <1>2, EnterSeats
    <2>2. MembershipIn(t)
      BY <1>2 DEF Entered
    <2> QED BY <2>1, <2>2
  <1>4. KnownIn(t)
    <2> SUFFICES ASSUME NEW d \in Conns, Seated(t.clients[d]), ~t.clients[d].gap
                 PROVE  t.clients[d].told = Holders(t.rooms[t.clients[d].roomId])
      BY DEF KnownIn
    <2>1. CASE d = c
      BY <1>2, <2>1 DEF Entered
    <2>2. CASE d # c
      <3>1. t.clients[d] = s.clients[d]
        BY <1>2, <2>2 DEF Entered
      <3>2. s.clients[d].roomId \in RoomIds /\ s.clients[d].peerId \in PeerIds
        BY <1>0, <3>1, SeatPlace DEF Seated
      <3>3. s.clients[d].peerId \in Holders(s.rooms[s.clients[d].roomId])
        BY <1>0, <3>1, <3>2 DEF SeatsIn, SeatOK, Holders
      <3>4. t.rooms[s.clients[d].roomId] = s.rooms[s.clients[d].roomId]
        BY <1>2, <3>2, <3>3 DEF Entered
      <3> QED BY <1>0, <3>1, <3>4 DEF KnownIn
    <2> QED BY <2>1, <2>2
  <1>5. AlmostIn(t)
    BY <1>3, <1>4 DEF AlmostIn
  <1> QED BY <1>5, PushSound

\* The server u is s as it was before session c entered room r: the same
\* members everywhere, and room r only if it has any.
Undone(s, u, r) ==
  /\ u.published = s.published
  /\ \A q \in RoomIds \ {r} : u.rooms[q] = s.rooms[q]
  /\ Holders(u.rooms[r]) = Holders(s.rooms[r])
  /\ Holders(s.rooms[r]) = {} => u.rooms[r] = NoRoom
  /\ Holders(s.rooms[r]) # {} =>
       /\ u.rooms[r].max = s.rooms[r].max
       /\ u.rooms[r].key = s.rooms[r].key

\* No lease of u is new, and none has another token or address.
NoneNew(s, u) ==
  \A q \in RoomIds, o \in PeerIds :
    /\ u.rooms[q].leases[o].token \in {0, s.rooms[q].leases[o].token}
    /\ u.rooms[q].leases[o].token # 0
         => u.rooms[q].leases[o].vip = s.rooms[q].leases[o].vip

\* rollbackNewMembership undoes what completeJoin or CREATE_ROOM did.
LEMMA RollbackSound ==
  ASSUME NEW s, NEW c \in Conns, NEW r \in RoomIds, ReadyFor(s, c, r),
         NEW token \in Tokens, NEW p, p = s.clients[c].peerId,
         NEW t, t = EnterRoom(WithLease(s, r, p, token), c, r)
  PROVE  LET u == RollbackNewMembership(t, c)
         IN /\ AlmostIn(u)
            /\ Undone(s, u, r)
            /\ NoneNew(s, u)
            /\ \A d \in Conns \ {c} : u.clients[d] = s.clients[d]
            /\ u.clients[c].told = {}
  <1>0. MembershipIn(s) /\ KnownIn(s) /\ SeatsIn(s) /\ OnlineIn(s)
    BY DEF ReadyFor
  <1>1. p \in PeerIds /\ p # 0 /\ s.peerMap[p] = c
    BY <1>0, LobbyPeer DEF ReadyFor
  <1>2. Entered(s, t, c, r, p, token)
    BY EnterExact
  <1>3. RoomsIn(t) /\ MembershipIn(t) /\ t \in Servers
    <2>1. RoomsIn(t)
      BY <1>2, EnterSeats
    <2>2. MembershipIn(t)
      BY <1>2 DEF Entered
    <2> QED BY <2>1, <2>2 DEF MembershipIn
  <1>4. PICK u : u = RollbackNewMembership(t, c)
    OBVIOUS
  <1>5. t.clients[c].state = "InRoom" /\ t.clients[c].roomId = r
        /\ t.clients[c].peerId = p
    BY <1>2 DEF Entered
  <1>6. MembershipIn(u)
    BY <1>3, <1>4, <1>5, RollbackInv
  <1>7. PICK w : w = DropLease(t, r, p)
    OBVIOUS
  <1>8. /\ w \in Servers
        /\ w.clients = t.clients /\ w.peerMap = t.peerMap
        /\ w.published = t.published /\ w.nextRoomId = t.nextRoomId
        /\ \A q \in RoomIds \ {r} : w.rooms[q] = t.rooms[q]
        /\ Removed(t.rooms[r], w.rooms[r], p)
        /\ w.freeRoomIds = t.freeRoomIds \cup
             (IF t.rooms[r] # NoRoom /\ w.rooms[r] = NoRoom THEN {r} ELSE {})
    BY <1>1, <1>3, <1>7, DropExact DEF RoomsIn
  <1> DEFINE y == [w.clients[c] EXCEPT !.state = "LoggedIn", !.roomId = 0, !.vip = 0,
                                       !.resume = NoCredential, !.told = {}]
  <1>9. u = WithSession(w, c, y)
    BY <1>4, <1>5, <1>7 DEF RollbackNewMembership, WithSession
  <1>10. y \in Sessions /\ y.state = "LoggedIn" /\ y.told = {}
    <2>1. w.clients[c] \in Sessions
      BY <1>8 DEF Servers
    <2> QED BY <2>1, LobbyTypes DEF Sessions
  <1> HIDE DEF y
  <1>11. /\ u.peerMap = w.peerMap /\ u.rooms = w.rooms
         /\ u.freeRoomIds = w.freeRoomIds /\ u.nextRoomId = w.nextRoomId
         /\ u.published = w.published
         /\ u.clients[c] = y
         /\ \A d \in Conns \ {c} : u.clients[d] = w.clients[d]
    BY <1>8, <1>9, <1>10, SetSessionExact
  <1>12. /\ \A d \in Conns \ {c} : u.clients[d] = s.clients[d]
         /\ u.peerMap = s.peerMap
         /\ \A q \in RoomIds \ {r} : u.rooms[q] = s.rooms[q]
    <2>1. /\ t.peerMap = s.peerMap
          /\ \A d \in Conns \ {c} : t.clients[d] = s.clients[d]
          /\ \A q \in RoomIds \ {r} : t.rooms[q] = s.rooms[q]
      BY <1>2 DEF Entered
    <2>2. \A d \in Conns \ {c} : u.clients[d] = s.clients[d]
      BY <1>8, <1>11, <2>1, SMTT(30)
    <2>3. u.peerMap = s.peerMap
      BY <1>8, <1>11, <2>1
    <2>4. \A q \in RoomIds \ {r} : u.rooms[q] = s.rooms[q]
      BY <1>8, <1>11, <2>1
    <2> QED BY <2>2, <2>3, <2>4
  <1>13. ASSUME NEW q \in RoomIds, NEW o \in PeerIds, o # p
         PROVE  /\ u.rooms[q].leases[o].token = s.rooms[q].leases[o].token
                /\ u.rooms[q].leases[o].token # 0 =>
                     u.rooms[q].leases[o].vip = s.rooms[q].leases[o].vip
                /\ u.rooms[q].leases[o].online <=> s.rooms[q].leases[o].online
    <2>1. CASE q # r
      BY <1>12, <2>1
    <2>2. CASE q = r
      <3>1. t.rooms[r].leases[o] = s.rooms[r].leases[o]
        BY <1>2, <1>13 DEF Entered, Added
      <3>2. Removed(t.rooms[r], u.rooms[r], p)
        BY <1>8, <1>11
      <3>3. /\ u.rooms[r].leases[o].token = t.rooms[r].leases[o].token
            /\ u.rooms[r].leases[o].token # 0 =>
                 u.rooms[r].leases[o].vip = t.rooms[r].leases[o].vip
            /\ u.rooms[r].leases[o].online <=> t.rooms[r].leases[o].online
        BY <1>13, <3>2 DEF Removed
      <3> QED BY <2>2, <3>1, <3>3
    <2> QED BY <2>1, <2>2
  <1>14. \A q \in RoomIds : /\ ~u.rooms[q].leases[p].online
                            /\ u.rooms[q].leases[p].token
                                 \in {0, s.rooms[q].leases[p].token}
                            /\ u.rooms[q].leases[p].token # 0 =>
                                 u.rooms[q].leases[p].vip = s.rooms[q].leases[p].vip
    <2>1. ~u.rooms[r].leases[p].online /\ u.rooms[r].leases[p].token = 0
      BY <1>8, <1>11 DEF Removed
    <2>2. \A q \in RoomIds : ~s.rooms[q].leases[p].online
      BY <1>0, <1>1 DEF OnlineIn, OnlineOK, ReadyFor
    <2> QED BY <1>12, <2>1, <2>2
  <1>15. Undone(s, u, r) /\ \A q \in RoomIds : RoomOK(u.rooms[q])
    <2>1. p \notin Holders(s.rooms[r])
      BY DEF ReadyFor, CanAddLease
    <2>2. /\ Holders(t.rooms[r]) = Holders(s.rooms[r]) \cup {p}
          /\ t.rooms[r].max = s.rooms[r].max /\ t.rooms[r].key = s.rooms[r].key
      BY <1>2 DEF Entered, Added
    <2>3. Removed(t.rooms[r], u.rooms[r], p)
      BY <1>8, <1>11
    <2>4. Holders(u.rooms[r]) = Holders(s.rooms[r])
      <3>1. Holders(u.rooms[r]) = Holders(t.rooms[r]) \ {p}
        BY <2>3 DEF Removed
      <3>2. PICK H : H = Holders(s.rooms[r])
        OBVIOUS
      <3>3. Holders(u.rooms[r]) = (H \cup {p}) \ {p} /\ p \notin H
        BY <2>1, <2>2, <3>1, <3>2
      <3>4. (H \cup {p}) \ {p} = H
        BY <3>3
      <3> QED BY <3>2, <3>3, <3>4
    <2>5. RoomOK(u.rooms[r])
      BY <2>3 DEF Removed
    <2>6. Holders(s.rooms[r]) = {} => u.rooms[r] = NoRoom
      BY <2>4, <2>5 DEF RoomOK
    <2>7. Holders(s.rooms[r]) # {} =>
            u.rooms[r].max = s.rooms[r].max /\ u.rooms[r].key = s.rooms[r].key
      BY <2>2, <2>3, <2>4 DEF Removed
    <2>8. \A q \in RoomIds : RoomOK(u.rooms[q])
      BY <1>12, <2>5 DEF ReadyFor
    <2>9. u.published = s.published
      BY <1>2, <1>8, <1>11 DEF Entered
    <2> QED BY <1>12, <2>4, <2>6, <2>7, <2>8, <2>9 DEF Undone
  <1>16. RoomsIn(u)
    <2>1. RoomIdsOK(t)
      BY <1>3 DEF RoomsIn
    <2>2. t.rooms[r] # NoRoom
      <3>1. t.rooms[r].leases[p].token # 0
        <4>1. t.rooms[r].leases[p].token = token
          BY <1>2 DEF Entered, Added
        <4>2. token # 0
          BY PositiveIds
        <4> QED BY <4>1, <4>2
      <3> QED BY <1>1, <3>1, Nothing
    <2>3. r < t.nextRoomId /\ r \notin t.freeRoomIds
      <3>1. ~(r >= t.nextRoomId) /\ r \notin t.freeRoomIds
        BY <2>1, <2>2 DEF RoomIdsOK
      <3> QED BY <1>3, <3>1, BoundsAssumption DEF Servers, RoomIds
    <2>4. RoomIdsOK(u)
      <3>1. u.freeRoomIds = t.freeRoomIds \cup
              (IF u.rooms[r] = NoRoom THEN {r} ELSE {})
        BY <1>8, <1>11, <2>2
      <3>2. u.nextRoomId = t.nextRoomId /\ \A q \in RoomIds \ {r} : u.rooms[q] = t.rooms[q]
        BY <1>8, <1>11
      <3>3. ~(r >= t.nextRoomId)
        BY <2>1, <2>2 DEF RoomIdsOK
      <3>4. \A q \in u.freeRoomIds : q < u.nextRoomId
        BY <2>1, <2>3, <3>1, <3>2 DEF RoomIdsOK
      <3>5. ASSUME NEW q \in RoomIds, q \in u.freeRoomIds \/ q >= u.nextRoomId
            PROVE  u.rooms[q] = NoRoom
        <4>1. CASE q = r
          BY <2>3, <3>1, <3>2, <3>3, <3>5, <4>1
        <4>2. CASE q # r
          BY <2>1, <3>1, <3>2, <3>5, <4>2 DEF RoomIdsOK
        <4> QED BY <4>1, <4>2
      <3> QED BY <3>4, <3>5 DEF RoomIdsOK
    <2> QED BY <1>15, <2>4 DEF RoomsIn
  <1>17. ASSUME NEW d \in Conns, Seated(u.clients[d])
         PROVE  /\ d # c /\ u.clients[d] = s.clients[d] /\ Seated(s.clients[d])
                /\ s.clients[d].roomId \in RoomIds
                /\ s.clients[d].peerId \in PeerIds /\ s.clients[d].peerId # p
    <2>1. d # c /\ u.clients[d] = s.clients[d] /\ Seated(s.clients[d])
      BY <1>10, <1>11, <1>12, <1>17 DEF Seated
    <2> QED BY <1>0, <1>1, <2>1, SeatPlace DEF Seated
  <1>18. SeatsIn(u)
    <2> SUFFICES ASSUME NEW d \in Conns, Seated(u.clients[d])
                 PROVE  SeatOK(u.clients[d], u.rooms[u.clients[d].roomId])
      BY DEF SeatsIn
    <2>1. PICK x, o, q : x = s.clients[d] /\ o = x.peerId /\ q = x.roomId
      OBVIOUS
    <2>2. u.clients[d] = x /\ Seated(x) /\ q \in RoomIds /\ o \in PeerIds /\ o # p
      BY <1>17, <2>1
    <2>3. SeatOK(x, s.rooms[q])
      BY <1>0, <2>1, <2>2 DEF SeatsIn
    <2>4. /\ u.rooms[q].leases[o].token # 0 /\ u.rooms[q].leases[o].online
          /\ u.rooms[q].leases[o].vip = x.vip
          /\ x.resume = [room |-> q, peer |-> o, token |-> u.rooms[q].leases[o].token]
      BY <1>13, <2>1, <2>2, <2>3 DEF SeatOK
    <2> QED BY <2>1, <2>2, <2>4 DEF SeatOK
  <1>19. OnlineIn(u)
    <2> SUFFICES ASSUME NEW q \in RoomIds, NEW o \in PeerIds,
                        u.rooms[q].leases[o].online
                 PROVE  /\ u.peerMap[o] # NoConn
                        /\ u.clients[u.peerMap[o]].state = "InRoom"
                        /\ u.clients[u.peerMap[o]].roomId = q
      BY DEF OnlineIn, OnlineOK
    <2>1. o # p
      BY <1>14
    <2>2. s.rooms[q].leases[o].online
      BY <1>13, <2>1
    <2>3. /\ s.peerMap[o] # NoConn
          /\ s.clients[s.peerMap[o]].state = "InRoom"
          /\ s.clients[s.peerMap[o]].roomId = q
      BY <1>0, <2>2 DEF OnlineIn, OnlineOK
    <2>4. s.peerMap[o] \in Conns \ {c}
      BY <1>0, <2>3, OwnerIs DEF ReadyFor
    <2> QED BY <1>12, <2>3, <2>4
  <1>20. KnownIn(u)
    <2> SUFFICES ASSUME NEW d \in Conns, Seated(u.clients[d]), ~u.clients[d].gap
                 PROVE  u.clients[d].told = Holders(u.rooms[u.clients[d].roomId])
      BY DEF KnownIn
    <2>1. u.clients[d] = s.clients[d] /\ s.clients[d].roomId \in RoomIds
      BY <1>17
    <2>2. s.clients[d].told = Holders(s.rooms[s.clients[d].roomId])
      BY <1>0, <2>1 DEF KnownIn
    <2>3. \A q \in RoomIds : Holders(u.rooms[q]) = Holders(s.rooms[q])
      BY <1>15 DEF Undone
    <2> QED BY <2>1, <2>2, <2>3
  <1>21. NoneNew(s, u)
    <2> SUFFICES ASSUME NEW q \in RoomIds, NEW o \in PeerIds
                 PROVE  /\ u.rooms[q].leases[o].token \in {0, s.rooms[q].leases[o].token}
                        /\ u.rooms[q].leases[o].token # 0
                             => u.rooms[q].leases[o].vip = s.rooms[q].leases[o].vip
      BY DEF NoneNew
    <2>1. CASE o = p
      BY <1>14, <2>1, Zenon
    <2>2. CASE o # p
      BY <1>13, <2>2
    <2> QED BY <2>1, <2>2
  <1> QED BY <1>4, <1>6, <1>10, <1>11, <1>12, <1>15, <1>16, <1>18, <1>19, <1>20, <1>21
          DEF AlmostIn

-----------------------------------------------------------------------------
(* Giving a lease up *)

\* Announcing a departure changes only what the members have been told.
LEMMA TellLeftExact ==
  ASSUME NEW s \in Servers, NEW r, NEW p \in PeerIds
  PROVE  LET t == TellLeft(s, r, p)
         IN /\ t \in Servers
            /\ t.peerMap = s.peerMap /\ t.rooms = s.rooms
            /\ t.freeRoomIds = s.freeRoomIds /\ t.nextRoomId = s.nextRoomId
            /\ t.published = s.published
            /\ \A c \in Conns :
                 /\ SameSeat(s.clients[c], t.clients[c])
                 /\ t.clients[c].told = s.clients[c].told \
                      (IF c \in Receivers(s, r, p) THEN {p} ELSE {})
  <1>1. PICK t : t = TellLeft(s, r, p)
    OBVIOUS
  <1>2. t \in Servers /\ t.peerMap = s.peerMap /\ t.rooms = s.rooms
    BY <1>1, TellFields
  <1>3. PICK f : /\ f = [c \in Conns |->
                           IF c \in Receivers(s, r, p)
                           THEN [s.clients[c] EXCEPT !.told = @ \ {p}]
                           ELSE s.clients[c]]
                 /\ t = [s EXCEPT !.clients = f]
    BY <1>1 DEF TellLeft
  <1>4. /\ t.clients = f /\ t.freeRoomIds = s.freeRoomIds
        /\ t.nextRoomId = s.nextRoomId /\ t.published = s.published
    BY <1>3 DEF Servers
  <1>5. ASSUME NEW c \in Conns
        PROVE  /\ SameSeat(s.clients[c], t.clients[c])
               /\ t.clients[c].told = s.clients[c].told \
                    (IF c \in Receivers(s, r, p) THEN {p} ELSE {})
    <2>1. s.clients[c] \in Sessions
      BY DEF Servers
    <2>2. CASE c \in Receivers(s, r, p)
      <3>1. t.clients[c] = [s.clients[c] EXCEPT !.told = @ \ {p}]
        BY <1>3, <1>4, <2>2
      <3> QED BY <2>1, <2>2, <3>1 DEF Sessions, SameSeat, SameIdentity
    <2>3. CASE c \notin Receivers(s, r, p)
      <3>1. t.clients[c] = s.clients[c]
        BY <1>3, <1>4, <2>3
      <3> QED BY <2>3, <3>1 DEF SameSeat, SameIdentity
    <2> QED BY <2>2, <2>3
  <1> QED BY <1>1, <1>2, <1>4, <1>5

\* Room r of u is room r of s without peer p, and gone if that was the last.
Vacated(s, u, r, p) ==
  /\ \A q \in RoomIds \ {r} : u.rooms[q] = s.rooms[q]
  /\ Removed(s.rooms[r], u.rooms[r], p)
  /\ u.nextRoomId = s.nextRoomId
  /\ u.freeRoomIds = s.freeRoomIds \cup
       (IF s.rooms[r] # NoRoom /\ u.rooms[r] = NoRoom THEN {r} ELSE {})

\* In u session d has been told that peer p has left room r of s.
Heard(s, u, d, r, p) ==
  /\ SameSeat(s.clients[d], u.clients[d])
  /\ u.clients[d].told = s.clients[d].told \
       (IF d \in Receivers(s, r, p) THEN {p} ELSE {})

\* The departure of a member: the others hear of it, then its lease goes.
LEMMA DepartExact ==
  ASSUME NEW s \in Servers, NEW r \in RoomIds, NEW p \in PeerIds,
         RoomOK(s.rooms[r])
  PROVE  LET u == Depart(s, r, p)
         IN /\ u \in Servers
            /\ u.peerMap = s.peerMap /\ u.published = s.published
            /\ Vacated(s, u, r, p)
            /\ \A d \in Conns : Heard(s, u, d, r, p)
  <1>1. PICK t : t = TellLeft(s, r, p)
    OBVIOUS
  <1>2. /\ t \in Servers
        /\ t.peerMap = s.peerMap /\ t.rooms = s.rooms
        /\ t.freeRoomIds = s.freeRoomIds /\ t.nextRoomId = s.nextRoomId
        /\ t.published = s.published
        /\ \A d \in Conns : Heard(s, t, d, r, p)
    BY <1>1, TellLeftExact DEF Heard
  <1>3. PICK u : u = DropLease(t, r, p)
    OBVIOUS
  <1>4. /\ u \in Servers
        /\ u.clients = t.clients /\ u.peerMap = t.peerMap
        /\ u.published = t.published /\ u.nextRoomId = t.nextRoomId
        /\ \A q \in RoomIds \ {r} : u.rooms[q] = t.rooms[q]
        /\ Removed(t.rooms[r], u.rooms[r], p)
        /\ u.freeRoomIds = t.freeRoomIds \cup
             (IF t.rooms[r] # NoRoom /\ u.rooms[r] = NoRoom THEN {r} ELSE {})
    BY <1>2, <1>3, DropExact
  <1>5. u = Depart(s, r, p)
    BY <1>1, <1>3 DEF Depart
  <1>6. \A d \in Conns : Heard(s, u, d, r, p)
    BY <1>2, <1>4 DEF Heard
  <1>7. Vacated(s, u, r, p)
    BY <1>2, <1>4 DEF Vacated
  <1> QED BY <1>2, <1>4, <1>5, <1>6, <1>7

\* A room that is erased gives its identifier back, and only then.
LEMMA VacatedIds ==
  ASSUME NEW s \in Servers, RoomsIn(s), NEW r \in RoomIds, NEW p \in PeerIds,
         NEW u, Vacated(s, u, r, p)
  PROVE  RoomsIn(u)
  <1>1. \A q \in RoomIds : RoomOK(u.rooms[q])
    BY DEF RoomsIn, Vacated, Removed
  <1>2. RoomIdsOK(s)
    BY DEF RoomsIn
  <1>3. s.rooms[r] = NoRoom => u.rooms[r] = NoRoom
    <2>1. s.rooms[r] = NoRoom => Holders(u.rooms[r]) = {}
      BY NoRoomOK DEF Vacated, Removed
    <2> QED BY <1>1, <2>1 DEF RoomOK
  <1>4. /\ u.nextRoomId = s.nextRoomId
        /\ \A q \in RoomIds \ {r} : u.rooms[q] = s.rooms[q]
        /\ u.freeRoomIds \subseteq s.freeRoomIds \cup {r}
    BY DEF Vacated
  <1>5. r \in u.freeRoomIds => u.rooms[r] = NoRoom
    BY <1>2, <1>3 DEF Vacated, RoomIdsOK
  <1>6. r >= s.nextRoomId => u.rooms[r] = NoRoom
    BY <1>2, <1>3 DEF RoomIdsOK
  <1>7. ASSUME NEW q \in u.freeRoomIds
        PROVE  q < u.nextRoomId
    <2>1. CASE q \in s.freeRoomIds
      BY <1>2, <1>4, <2>1 DEF RoomIdsOK
    <2>2. CASE q \notin s.freeRoomIds
      <3>1. q = r /\ s.rooms[r] # NoRoom
        BY <1>7, <2>2 DEF Vacated
      <3>2. ~(r >= s.nextRoomId)
        BY <1>2, <3>1 DEF RoomIdsOK
      <3>3. r \in Int /\ s.nextRoomId \in Int
        BY BoundsAssumption DEF Servers, RoomIds
      <3> QED BY <1>4, <3>1, <3>2, <3>3
    <2> QED BY <2>1, <2>2
  <1>8. ASSUME NEW q \in RoomIds, q \in u.freeRoomIds \/ q >= u.nextRoomId
        PROVE  u.rooms[q] = NoRoom
    <2>1. CASE q = r
      BY <1>4, <1>5, <1>6, <1>8, <2>1
    <2>2. CASE q # r
      BY <1>2, <1>4, <1>8, <2>2 DEF RoomIdsOK
    <2> QED BY <2>1, <2>2
  <1> QED BY <1>1, <1>7, <1>8 DEF RoomsIn, RoomIdsOK

\* Session c, which is in room r or in none, has given up the lease of its peer
\* p in that room, and is in no room now.
GaveUp(s, u, c, r, p) ==
  /\ s.clients[c].peerId = p
  /\ s.clients[c].state = "InRoom" => s.clients[c].roomId = r
  /\ u.clients[c].state # "InRoom"
  /\ Vacated(s, u, r, p)
  /\ \A o \in PeerIds \ {p} : u.peerMap[o] = s.peerMap[o]
  /\ \A d \in Conns \ {c} : Heard(s, u, d, r, p)

\* The seats, leases and announcements are right after a member has gone.
LEMMA GaveUpSound ==
  ASSUME NEW s, AlmostIn(s), NEW c \in Conns, NEW r \in RoomIds, NEW p \in PeerIds,
         NEW u, MembershipIn(u), GaveUp(s, u, c, r, p)
  PROVE  AlmostIn(u)
  <1>0. MembershipIn(s) /\ RoomsIn(s) /\ SeatsIn(s) /\ OnlineIn(s) /\ KnownIn(s)
        /\ s \in Servers
    BY DEF AlmostIn, MembershipIn
  <1>1. RoomsIn(u)
    BY <1>0, VacatedIds DEF GaveUp
  <1>2. p # 0 /\ s.peerMap[p] = c
    BY <1>0, PositiveIds DEF GaveUp, MembershipIn, IndexExactIn
  <1>3. ASSUME NEW q \in RoomIds, NEW o \in PeerIds, o # p
        PROVE  /\ u.rooms[q].leases[o].token = s.rooms[q].leases[o].token
               /\ u.rooms[q].leases[o].token # 0 =>
                    u.rooms[q].leases[o].vip = s.rooms[q].leases[o].vip
               /\ u.rooms[q].leases[o].online <=> s.rooms[q].leases[o].online
    <2>1. CASE q # r
      <3>1. u.rooms[q] = s.rooms[q]
        BY <2>1 DEF GaveUp, Vacated
      <3> QED BY <3>1
    <2>2. CASE q = r
      <3>1. Removed(s.rooms[r], u.rooms[r], p)
        BY DEF GaveUp, Vacated
      <3>2. /\ u.rooms[r].leases[o].token = s.rooms[r].leases[o].token
            /\ u.rooms[r].leases[o].token # 0 =>
                 u.rooms[r].leases[o].vip = s.rooms[r].leases[o].vip
            /\ u.rooms[r].leases[o].online <=> s.rooms[r].leases[o].online
        BY <1>3, <3>1 DEF Removed
      <3> QED BY <2>2, <3>2
    <2> QED BY <2>1, <2>2
  <1>4. \A q \in RoomIds : ~u.rooms[q].leases[p].online
    <2>1. ~u.rooms[r].leases[p].online
      BY DEF GaveUp, Vacated, Removed
    <2>2. \A q \in RoomIds \ {r} : ~s.rooms[q].leases[p].online
      BY <1>0, <1>2 DEF OnlineIn, OnlineOK, GaveUp
    <2>3. \A q \in RoomIds \ {r} : u.rooms[q] = s.rooms[q]
      BY DEF GaveUp, Vacated
    <2> QED BY <2>1, <2>2, <2>3
  <1>5. ASSUME NEW d \in Conns, Seated(u.clients[d])
        PROVE  /\ d # c /\ Heard(s, u, d, r, p) /\ Seated(s.clients[d])
               /\ SameSeat(s.clients[d], u.clients[d])
               /\ s.clients[d].roomId \in RoomIds
               /\ s.clients[d].peerId \in PeerIds /\ s.clients[d].peerId # p
    <2>1. d # c
      BY <1>5 DEF Seated, GaveUp
    <2>2. Heard(s, u, d, r, p)
      BY <2>1 DEF GaveUp
    <2>3. SameSeat(s.clients[d], u.clients[d])
      BY <2>2 DEF Heard
    <2>4. Seated(s.clients[d])
      BY <1>5, <2>3 DEF Seated, SameSeat, SameIdentity
    <2>5. s.clients[d].roomId \in RoomIds /\ s.clients[d].peerId \in PeerIds
          /\ s.peerMap[s.clients[d].peerId] = d
      BY <1>0, <2>4, SeatPlace DEF Seated
    <2> QED BY <1>2, <2>1, <2>2, <2>3, <2>4, <2>5
  <1>6. SeatsIn(u)
    <2> SUFFICES ASSUME NEW d \in Conns, Seated(u.clients[d])
                 PROVE  SeatOK(u.clients[d], u.rooms[u.clients[d].roomId])
      BY DEF SeatsIn
    <2>1. PICK x, o, q : x = s.clients[d] /\ o = x.peerId /\ q = x.roomId
      OBVIOUS
    <2>2. /\ SameSeat(x, u.clients[d]) /\ Seated(x)
          /\ q \in RoomIds /\ o \in PeerIds /\ o # p
      BY <1>5, <2>1
    <2>3. SeatOK(x, s.rooms[q])
      BY <1>0, <2>1, <2>2 DEF SeatsIn
    <2>4. /\ u.rooms[q].leases[o].token # 0 /\ u.rooms[q].leases[o].online
          /\ u.rooms[q].leases[o].vip = x.vip
          /\ x.resume = [room |-> q, peer |-> o, token |-> u.rooms[q].leases[o].token]
      BY <1>3, <2>1, <2>2, <2>3 DEF SeatOK
    <2>5. PICK y : y = u.clients[d]
      OBVIOUS
    <2>6. y.peerId = o /\ y.roomId = q /\ y.vip = x.vip /\ y.resume = x.resume
      BY <2>1, <2>2, <2>5 DEF SameSeat, SameIdentity
    <2>7. SeatOK(y, u.rooms[q])
      BY <2>4, <2>6 DEF SeatOK
    <2> QED BY <2>5, <2>6, <2>7
  <1>7. OnlineIn(u)
    <2> SUFFICES ASSUME NEW q \in RoomIds, NEW o \in PeerIds,
                        u.rooms[q].leases[o].online
                 PROVE  /\ u.peerMap[o] # NoConn
                        /\ u.clients[u.peerMap[o]].state = "InRoom"
                        /\ u.clients[u.peerMap[o]].roomId = q
      BY DEF OnlineIn, OnlineOK
    <2>1. o # p
      BY <1>4
    <2>2. s.rooms[q].leases[o].online
      BY <1>3, <2>1
    <2>3. PICK d : d = s.peerMap[o]
      OBVIOUS
    <2>4. /\ d # NoConn
          /\ s.clients[d].state = "InRoom"
          /\ s.clients[d].roomId = q
      BY <1>0, <2>2, <2>3 DEF OnlineIn, OnlineOK
    <2>5. d \in Conns \ {c} /\ u.peerMap[o] = d
      <3>1. d \in Conns /\ s.clients[d].peerId = o
        BY <1>0, <2>3, <2>4, OwnerIs DEF MembershipIn, IndexExactIn
      <3>2. u.peerMap[o] = s.peerMap[o]
        BY <2>1 DEF GaveUp
      <3> QED BY <2>1, <2>3, <3>1, <3>2 DEF GaveUp
    <2>6. SameSeat(s.clients[d], u.clients[d])
      BY <2>5 DEF GaveUp, Heard
    <2> QED BY <2>4, <2>5, <2>6 DEF SameSeat, SameIdentity
  <1>8. KnownIn(u)
    <2> SUFFICES ASSUME NEW d \in Conns, Seated(u.clients[d]), ~u.clients[d].gap
                 PROVE  u.clients[d].told = Holders(u.rooms[u.clients[d].roomId])
      BY DEF KnownIn
    <2>1. PICK o, q : o = s.clients[d].peerId /\ q = s.clients[d].roomId
      OBVIOUS
    <2>2. /\ Heard(s, u, d, r, p) /\ Seated(s.clients[d])
          /\ SameSeat(s.clients[d], u.clients[d])
          /\ q \in RoomIds /\ o \in PeerIds /\ o # p
      BY <1>5, <2>1
    <2>3. ~s.clients[d].gap /\ u.clients[d].roomId = q
      BY <2>1, <2>2 DEF SameSeat, SameIdentity
    <2>4. s.clients[d].told = Holders(s.rooms[q])
      BY <1>0, <2>1, <2>2, <2>3 DEF KnownIn
    <2>5. d \in Receivers(s, r, p) <=> q = r
      BY <1>0, <2>1, <2>2, ReceiversAre
    <2>6. u.clients[d].told = s.clients[d].told \
            (IF d \in Receivers(s, r, p) THEN {p} ELSE {})
      BY <2>2 DEF Heard
    <2>7. PICK H : H = Holders(s.rooms[q])
      OBVIOUS
    <2>8. CASE q = r
      <3>1. Holders(u.rooms[r]) = Holders(s.rooms[r]) \ {p}
        BY DEF GaveUp, Vacated, Removed
      <3>2. Holders(u.rooms[q]) = H \ {p}
        BY <2>7, <2>8, <3>1
      <3>3. u.clients[d].told = H \ {p}
        BY <2>4, <2>5, <2>6, <2>7, <2>8
      <3> QED BY <2>3, <3>2, <3>3
    <2>9. CASE q # r
      <3>1. u.rooms[q] = s.rooms[q]
        BY <2>2, <2>9 DEF GaveUp, Vacated
      <3>2. u.clients[d].told = H \ {}
        BY <2>4, <2>5, <2>6, <2>7, <2>9
      <3>3. H \ {} = H
        OBVIOUS
      <3>4. Holders(u.rooms[q]) = H
        BY <2>7, <3>1
      <3> QED BY <2>3, <3>2, <3>3, <3>4
    <2> QED BY <2>8, <2>9
  <1> QED BY <1>1, <1>6, <1>7, <1>8 DEF AlmostIn

\* Session c has parted with the lease of its peer p: no other lease has gone,
\* none has come, and nobody has been told of a newcomer.
Parted(s, t, c, p) ==
  /\ \A r \in RoomIds, o \in PeerIds :
       /\ t.rooms[r].leases[o].token \in {0, s.rooms[r].leases[o].token}
       /\ o # p => /\ t.rooms[r].leases[o].token = s.rooms[r].leases[o].token
                   /\ s.rooms[r].leases[o].token # 0
                        => t.rooms[r].leases[o].vip = s.rooms[r].leases[o].vip
  /\ \A d \in Conns : t.clients[d].told \subseteq s.clients[d].told
  /\ \A d \in Conns \ {c} : SameIdentity(s.clients[d], t.clients[d])
  /\ t.clients[c].state \in {"LoggedIn", "Closing"}

\* Giving a lease up and publishing it is parting with it.
LEMMA GaveUpParted ==
  ASSUME NEW s, NEW c \in Conns, NEW r \in RoomIds, NEW p \in PeerIds,
         NEW u, u \in Servers, GaveUp(s, u, c, r, p),
         u.clients[c].told \subseteq s.clients[c].told,
         u.clients[c].state \in {"LoggedIn", "Closing"}
  PROVE  Parted(s, PushRoomList(u), c, p)
  <1>1. PICK t : t = PushRoomList(u)
    OBVIOUS
  <1>2. t.clients = u.clients /\ t.rooms = u.rooms
    BY <1>1, PushExact
  <1>3. ASSUME NEW q \in RoomIds, NEW o \in PeerIds
        PROVE  /\ u.rooms[q].leases[o].token \in {0, s.rooms[q].leases[o].token}
               /\ o # p => /\ u.rooms[q].leases[o].token = s.rooms[q].leases[o].token
                           /\ s.rooms[q].leases[o].token # 0
                                => u.rooms[q].leases[o].vip = s.rooms[q].leases[o].vip
    <2>1. CASE q # r
      <3>1. u.rooms[q] = s.rooms[q]
        BY <2>1 DEF GaveUp, Vacated
      <3> QED BY <3>1
    <2>2. CASE q = r
      <3>1. Removed(s.rooms[r], u.rooms[r], p)
        BY DEF GaveUp, Vacated
      <3>2. /\ u.rooms[r].leases[p].token = 0
            /\ o # p => /\ u.rooms[r].leases[o].token = s.rooms[r].leases[o].token
                        /\ s.rooms[r].leases[o].token # 0
                             => u.rooms[r].leases[o].vip = s.rooms[r].leases[o].vip
        BY <3>1 DEF Removed
      <3> QED BY <2>2, <3>2
    <2> QED BY <2>1, <2>2
  <1>4. \A d \in Conns \ {c} : /\ SameIdentity(s.clients[d], u.clients[d])
                              /\ u.clients[d].told \subseteq s.clients[d].told
    BY DEF GaveUp, Heard, SameSeat
  <1>5. \A d \in Conns : u.clients[d].told \subseteq s.clients[d].told
    BY <1>4
  <1> QED BY <1>1, <1>2, <1>3, <1>4, <1>5 DEF Parted

\* LEAVE_ROOM.
LEMMA LeaveSound ==
  ASSUME NEW s, SoundIn(s), NEW c \in Conns, s.clients[c].state = "InRoom"
  PROVE  /\ SoundIn(PushRoomList(LeaveRoom(s, c)))
         /\ Parted(s, PushRoomList(LeaveRoom(s, c)), c, s.clients[c].peerId)
  <1>0. MembershipIn(s) /\ AlmostIn(s) /\ s \in Servers /\ RoomsIn(s)
    BY DEF SoundIn, AlmostIn, MembershipIn
  <1>1. PICK p, r : p = s.clients[c].peerId /\ r = s.clients[c].roomId
    OBVIOUS
  <1>2. p \in PeerIds /\ r \in RoomIds
    BY <1>0, <1>1, SeatPlace
  <1>3. RoomOK(s.rooms[r])
    BY <1>0, <1>2 DEF RoomsIn
  <1>4. PICK w : w = Depart(s, r, p)
    OBVIOUS
  <1>5. /\ w \in Servers
        /\ w.peerMap = s.peerMap
        /\ Vacated(s, w, r, p)
        /\ \A d \in Conns : Heard(s, w, d, r, p)
    BY <1>0, <1>2, <1>3, <1>4, DepartExact
  <1> DEFINE y == [w.clients[c] EXCEPT !.state = "LoggedIn", !.roomId = 0, !.vip = 0,
                                       !.resume = NoCredential, !.told = {},
                                       !.gap = FALSE]
  <1>6. PICK u : u = LeaveRoom(s, c)
    OBVIOUS
  <1>7. u = WithSession(w, c, y)
    BY <1>1, <1>4, <1>6 DEF LeaveRoom, WithSession
  <1>8. y \in Sessions /\ y.state = "LoggedIn" /\ y.told = {}
    <2>1. w.clients[c] \in Sessions
      BY <1>5 DEF Servers
    <2> QED BY <2>1, LobbyTypes DEF Sessions
  <1> HIDE DEF y
  <1>9. /\ u.peerMap = w.peerMap /\ u.rooms = w.rooms
        /\ u.freeRoomIds = w.freeRoomIds /\ u.nextRoomId = w.nextRoomId
        /\ u.clients[c] = y
        /\ \A d \in Conns \ {c} : u.clients[d] = w.clients[d]
    BY <1>5, <1>7, <1>8, SetSessionExact
  <1>10. MembershipIn(u)
    BY <1>0, <1>6, LeaveInv
  <1>11. Vacated(s, u, r, p)
    BY <1>5, <1>9 DEF Vacated
  <1>12. \A d \in Conns \ {c} : Heard(s, u, d, r, p)
    BY <1>5, <1>9 DEF Heard
  <1>13. GaveUp(s, u, c, r, p)
    BY <1>1, <1>5, <1>8, <1>9, <1>11, <1>12 DEF GaveUp
  <1>14. AlmostIn(u)
    BY <1>0, <1>2, <1>10, <1>13, GaveUpSound
  <1>15. u \in Servers /\ u.clients[c].told \subseteq s.clients[c].told
         /\ u.clients[c].state \in {"LoggedIn", "Closing"}
    BY <1>8, <1>9, <1>10 DEF MembershipIn
  <1>16. Parted(s, PushRoomList(u), c, p)
    BY <1>2, <1>13, <1>15, GaveUpParted
  <1> QED BY <1>1, <1>6, <1>14, <1>16, PushSound

\* The end of LOGOUT: the session is Closing and its identity is unbound.
LEMMA RetireExact ==
  ASSUME NEW u \in Servers, NEW c \in Conns, NEW p \in PeerIds, NEW b \in BOOLEAN
  PROVE  LET w == Retire(u, c, p, b)
         IN /\ w \in Servers
            /\ w.rooms = u.rooms
            /\ w.freeRoomIds = u.freeRoomIds /\ w.nextRoomId = u.nextRoomId
            /\ w.published = u.published
            /\ w.clients[c].state = "Closing" /\ w.clients[c].told = {}
            /\ \A d \in Conns \ {c} : w.clients[d] = u.clients[d]
            /\ \A o \in PeerIds \ {p} : w.peerMap[o] = u.peerMap[o]
  <1>1. PICK w : w = Retire(u, c, p, b)
    OBVIOUS
  <1>2. PICK y : y = [NoSession EXCEPT !.state = "Closing", !.alive = TRUE]
    OBVIOUS
  <1>3. y.state = "Closing" /\ y.told = {}
    BY <1>2 DEF NoSession
  <1>a. PICK m : m = IF u.peerMap[p] = c THEN NoConn ELSE u.peerMap[p]
    OBVIOUS
  <1>b. PICK f : f = IF b THEN u.freePeerIds \cup {p} ELSE u.freePeerIds
    OBVIOUS
  <1>4. w = [u EXCEPT !.clients = [u.clients EXCEPT ![c] = y],
                      !.peerMap = [u.peerMap EXCEPT ![p] = m],
                      !.freePeerIds = f]
    BY <1>1, <1>2, <1>a, <1>b, Zenon DEF Retire
  <1>5. /\ w.clients = [u.clients EXCEPT ![c] = y]
        /\ w.peerMap = [u.peerMap EXCEPT ![p] = m]
        /\ w.rooms = u.rooms
        /\ w.freeRoomIds = u.freeRoomIds /\ w.nextRoomId = u.nextRoomId
        /\ w.published = u.published
    BY <1>4 DEF Servers
  <1>6. u.clients \in [Conns -> Sessions]
        /\ u.peerMap \in [PeerIds -> Conns \cup {NoConn}]
    BY DEF Servers
  <1>c. w \in Servers
    <2>1. m \in Conns \cup {NoConn} /\ f \in SUBSET PeerIds
      BY <1>a, <1>b DEF Servers
    <2>2. y \in Sessions
      BY <1>2, Nothing DEF Sessions, SessionStates
    <2>3. [u.clients EXCEPT ![c] = y] \in [Conns -> Sessions]
      BY <1>6, <2>2
    <2>4. [u.peerMap EXCEPT ![p] = m] \in [PeerIds -> Conns \cup {NoConn}]
      BY <1>6, <2>1
    <2> QED BY <1>4, <2>1, <2>3, <2>4 DEF Servers
  <1>7. w.clients[c] = y /\ \A d \in Conns \ {c} : w.clients[d] = u.clients[d]
    BY <1>5, <1>6
  <1>8. \A o \in PeerIds \ {p} : w.peerMap[o] = u.peerMap[o]
    BY <1>5, <1>6
  <1> QED BY <1>1, <1>3, <1>5, <1>c, <1>7, <1>8

\* Identities and leases do not depend on the published list.
LEMMA UnpushedInv ==
  ASSUME NEW s \in Servers, MembershipIn(PushRoomList(s))
  PROVE  MembershipIn(s)
  <1>1. PICK t : t = PushRoomList(s)
    OBVIOUS
  <1>2. /\ t.clients = s.clients /\ t.peerMap = s.peerMap
        /\ t.freePeerIds = s.freePeerIds /\ t.nextPeerId = s.nextPeerId
        /\ t.rooms = s.rooms
    BY <1>1, PushFields
  <1>3. MembershipIn(t)
    BY <1>1
  <1>4. SessionShapeIn(s) /\ IndexExactIn(s)
    BY <1>2, <1>3 DEF MembershipIn, SessionShapeIn, IndexExactIn
  <1>5. FreshPeerIdsIn(s) /\ OneLeasePerPeerIn(s)
    BY <1>2, <1>3 DEF MembershipIn, FreshPeerIdsIn, OneLeasePerPeerIn
  <1>6. SessionLeaseIn(s)
    BY <1>2, <1>3 DEF MembershipIn, SessionLeaseIn
  <1> QED BY <1>4, <1>5, <1>6 DEF MembershipIn

\* Without a lease to give up, only the session and its identity go.
LEMMA RetireSound ==
  ASSUME NEW s, SoundIn(s), NEW c \in Conns, NEW p \in PeerIds,
         s.clients[c].peerId = p, s.clients[c].state # "InRoom",
         NEW w, MembershipIn(w), w.rooms = s.rooms,
         w.freeRoomIds = s.freeRoomIds, w.nextRoomId = s.nextRoomId,
         w.published = s.published, w.clients[c].state # "InRoom",
         \A d \in Conns \ {c} : w.clients[d] = s.clients[d],
         \A o \in PeerIds \ {p} : w.peerMap[o] = s.peerMap[o]
  PROVE  SoundIn(w)
  <1>0. MembershipIn(s) /\ RoomsIn(s) /\ SeatsIn(s) /\ OnlineIn(s) /\ KnownIn(s)
        /\ ListedIn(s)
    BY DEF SoundIn
  <1>1. RoomsIn(w) /\ ListedIn(w)
    BY <1>0, EqualRooms, SameRoomsSound
  <1>2. p # 0 /\ s.peerMap[p] = c
    BY <1>0, PositiveIds DEF MembershipIn, IndexExactIn
  <1>3. SeatsIn(w) /\ KnownIn(w)
    BY <1>0 DEF SeatsIn, KnownIn, Seated
  <1>4. OnlineIn(w)
    <2> SUFFICES ASSUME NEW q \in RoomIds, NEW o \in PeerIds,
                        s.rooms[q].leases[o].online
                 PROVE  /\ w.peerMap[o] # NoConn
                        /\ w.clients[w.peerMap[o]].state = "InRoom"
                        /\ w.clients[w.peerMap[o]].roomId = q
      BY DEF OnlineIn, OnlineOK
    <2>1. /\ s.peerMap[o] # NoConn
          /\ s.clients[s.peerMap[o]].state = "InRoom"
          /\ s.clients[s.peerMap[o]].roomId = q
      BY <1>0 DEF OnlineIn, OnlineOK
    <2>2. s.peerMap[o] \in Conns \ {c} /\ o # p
      BY <1>0, <1>2, <2>1, OwnerIs
    <2> QED BY <2>1, <2>2
  <1> QED BY <1>1, <1>3, <1>4 DEF SoundIn

\* LOGOUT gives up the lease of a room, also one only pending resume.
LEMMA LogoutSound ==
  ASSUME NEW s, SoundIn(s), NEW c \in Conns, s.clients[c].state \in IdentityStates
  PROVE  /\ SoundIn(Logout(s, c))
         /\ Parted(s, Logout(s, c), c, s.clients[c].peerId)
  <1>0. MembershipIn(s) /\ AlmostIn(s) /\ s \in Servers /\ RoomsIn(s)
        /\ Shaped(s.clients[c])
    BY DEF SoundIn, AlmostIn, MembershipIn, SessionShapeIn
  <1>1. PICK p, r, b : /\ p = s.clients[c].peerId /\ r = LogoutRoom(s, c)
                       /\ b = ~OwnedByOther(s, c)
    OBVIOUS
  <1>2. p \in PeerIds /\ b \in BOOLEAN
    <2>1. p # 0
      BY <1>0, <1>1 DEF Shaped
    <2>2. p \in PeerIds
      BY <1>0, <1>1, <2>1, IdentityTypes
    <2>3. b \in BOOLEAN
      BY <1>1
    <2> QED BY <2>2, <2>3
  <1>3. MembershipIn(Logout(s, c))
    BY <1>0, LogoutInv
  <1>4. s.clients[c].state = "InRoom" => r = s.clients[c].roomId /\ r # 0
    BY <1>0, <1>1 DEF LogoutRoom, Shaped
  <1>5. CASE r = 0
    <2>1. Logout(s, c) = Retire(s, c, p, b)
      BY <1>1, <1>5, Zenon DEF Logout
    <2>2. PICK w : w = Retire(s, c, p, b)
      OBVIOUS
    <2>3. /\ w.rooms = s.rooms
          /\ w.freeRoomIds = s.freeRoomIds /\ w.nextRoomId = s.nextRoomId
          /\ w.published = s.published
          /\ w.clients[c].state = "Closing" /\ w.clients[c].told = {}
          /\ \A d \in Conns \ {c} : w.clients[d] = s.clients[d]
          /\ \A o \in PeerIds \ {p} : w.peerMap[o] = s.peerMap[o]
      BY <1>0, <1>2, <2>2, RetireExact
    <2>4. MembershipIn(w)
      BY <1>3, <2>1, <2>2
    <2>5. s.clients[c].state # "InRoom" /\ w.clients[c].state # "InRoom"
      BY <1>4, <1>5, <2>3
    <2>6. SoundIn(w)
      BY <1>1, <1>2, <2>3, <2>4, <2>5, RetireSound
    <2>7. Parted(s, w, c, p)
      <3>1. \A d \in Conns \ {c} : SameIdentity(s.clients[d], w.clients[d])
        BY <2>3 DEF SameIdentity
      <3>2. \A d \in Conns : w.clients[d].told \subseteq s.clients[d].told
        BY <2>3
      <3> QED BY <2>3, <3>1, <3>2 DEF Parted
    <2> QED BY <1>1, <2>1, <2>2, <2>6, <2>7
  <1>6. CASE r # 0
    <2>1. PICK u : u = Depart(s, r, p)
      OBVIOUS
    <2>2. Logout(s, c) = PushRoomList(Retire(u, c, p, b))
      BY <1>1, <1>6, <2>1, Zenon DEF Logout
    <2>3. r \in RoomIds
      <3>1. CASE s.clients[c].state = "InRoom"
        BY <1>0, <1>4, <3>1, SeatPlace
      <3>2. CASE s.clients[c].state = "ResumePending"
        <4>1. PICK x : x = s.clients[c]
          OBVIOUS
        <4>2. ResumeFits(s, x)
          BY <1>0, <3>2, <4>1, ResumeLease
        <4>3. r = x.resume.room
          BY <1>1, <1>6, <4>1, <4>2 DEF LogoutRoom, ResumeFits
        <4> QED BY <4>2, <4>3 DEF ResumeFits, OnlyIn
      <3>3. CASE s.clients[c].state \notin {"InRoom", "ResumePending"}
        BY <1>0, <1>1, <1>6, <3>3 DEF LogoutRoom, Shaped
      <3> QED BY <3>1, <3>2, <3>3
    <2>4. RoomOK(s.rooms[r])
      BY <1>0, <2>3 DEF RoomsIn
    <2>5. /\ u \in Servers
          /\ u.peerMap = s.peerMap
          /\ Vacated(s, u, r, p)
          /\ \A d \in Conns : Heard(s, u, d, r, p)
      BY <1>0, <1>2, <2>1, <2>3, <2>4, DepartExact
    <2>6. PICK w : w = Retire(u, c, p, b)
      OBVIOUS
    <2>7. /\ w \in Servers
          /\ w.rooms = u.rooms
          /\ w.freeRoomIds = u.freeRoomIds /\ w.nextRoomId = u.nextRoomId
          /\ w.clients[c].state = "Closing" /\ w.clients[c].told = {}
          /\ \A d \in Conns \ {c} : w.clients[d] = u.clients[d]
          /\ \A o \in PeerIds \ {p} : w.peerMap[o] = u.peerMap[o]
      BY <1>2, <2>5, <2>6, RetireExact
    <2>8. MembershipIn(w)
      BY <1>3, <2>2, <2>6, <2>7, UnpushedInv
    <2>9. Vacated(s, w, r, p)
      BY <2>5, <2>7 DEF Vacated
    <2>10. \A d \in Conns \ {c} : Heard(s, w, d, r, p)
      BY <2>5, <2>7 DEF Heard
    <2>11. w.clients[c].state # "InRoom"
           /\ \A o \in PeerIds \ {p} : w.peerMap[o] = s.peerMap[o]
      BY <2>5, <2>7
    <2>12. GaveUp(s, w, c, r, p)
      BY <1>1, <1>4, <2>9, <2>10, <2>11 DEF GaveUp
    <2>13. AlmostIn(w)
      BY <1>0, <1>2, <2>3, <2>8, <2>12, GaveUpSound
    <2>14. w.clients[c].told \subseteq s.clients[c].told
           /\ w.clients[c].state \in {"LoggedIn", "Closing"}
      BY <2>7
    <2>15. Parted(s, PushRoomList(w), c, p)
      BY <1>2, <2>3, <2>7, <2>12, <2>14, GaveUpParted
    <2> QED BY <1>1, <2>2, <2>6, <2>13, <2>15, PushSound
  <1> QED BY <1>5, <1>6

-----------------------------------------------------------------------------
(* RESUME_ROOM *)

\* Giving a resumption up keeps the session reachable as before.
LEMMA LobbyLive ==
  ASSUME NEW s \in Servers, NEW c \in Conns, s.clients[c].state = "ResumePending",
         NEW t, t.peerMap = s.peerMap, t.rooms = s.rooms,
         t.clients[c].state = "LoggedIn",
         t.clients[c].peerId = s.clients[c].peerId,
         t.clients[c].alive = s.clients[c].alive,
         \A d \in Conns \ {c} : t.clients[d] = s.clients[d],
         NEW r, NEW p
  PROVE  Receivers(t, r, p) = Receivers(s, r, p)
  <1>1. ASSUME NEW q \in PeerIds
        PROVE  Live(t, q) = Live(s, q)
    <2>1. PICK d : d = s.peerMap[q]
      OBVIOUS
    <2>2. d \in Conns \cup {NoConn}
      BY <2>1, IdentityTypes
    <2>3. CASE d = NoConn
      <3>1. Owner(t, q) = NoConn /\ Owner(s, q) = NoConn
        BY <2>1, <2>3 DEF Owner
      <3> QED BY <3>1 DEF Live
    <2>4. CASE d \in Conns \ {c}
      <3>1. Owner(t, q) = Owner(s, q) /\ Owner(s, q) \in {NoConn, d}
        BY <2>1, <2>4 DEF Owner
      <3> QED BY <2>4, <3>1 DEF Live
    <2>5. CASE d = c
      <3>1. Owner(t, q) = Owner(s, q) /\ Owner(s, q) \in {NoConn, c}
        BY <2>1, <2>5 DEF Owner
      <3>2. t.clients[c].state \in IdentityStates /\ s.clients[c].state \in IdentityStates
        BY DEF IdentityStates
      <3> QED BY <3>1, <3>2, Zenon DEF Live
    <2> QED BY <2>2, <2>3, <2>4, <2>5
  <1>2. Holders(s.rooms[r]) \subseteq PeerIds
    BY DEF Holders
  <1> QED BY <1>1, <1>2 DEF Receivers

\* A resumption is refused: the lease had expired, or is not the one presented.
LEMMA RefusedSound ==
  ASSUME NEW s, SoundIn(s), NEW c \in Conns, s.clients[c].state = "ResumePending",
         NEW x, x = s.clients[c]
  PROVE  /\ SoundIn(PushRoomList(Depart(ToLobby(s, c), x.resume.room, x.resume.peer)))
         /\ s.rooms[x.resume.room].leases[x.resume.peer].token # x.resume.token
              => SoundIn(ToLobby(s, c))
         /\ Parted(s, PushRoomList(Depart(ToLobby(s, c), x.resume.room, x.resume.peer)),
                   c, x.peerId)
         /\ Parted(s, ToLobby(s, c), c, x.peerId)
  <1>0. MembershipIn(s) /\ AlmostIn(s) /\ s \in Servers /\ RoomsIn(s) /\ x \in Sessions
    BY DEF SoundIn, AlmostIn, MembershipIn, Servers
  <1>1. PICK p, r : p = x.peerId /\ r = x.resume.room
    OBVIOUS
  <1>2. ResumeFits(s, x)
    BY <1>0, ResumeLease
  <1>3. p \in PeerIds /\ r \in RoomIds /\ x.resume.peer = p
    BY <1>1, <1>2 DEF ResumeFits, OnlyIn
  <1>4. RoomOK(s.rooms[r])
    BY <1>0, <1>3 DEF RoomsIn
  <1>5. PICK y : y = LobbySession(x)
    OBVIOUS
  <1>6. y \in Sessions /\ y.state = "LoggedIn" /\ y.peerId = p /\ y.alive = x.alive
        /\ y.told = x.told
    BY <1>0, <1>1, <1>5, LobbyTypes DEF Sessions, LobbySession
  <1>7. PICK t : t = ToLobby(s, c)
    OBVIOUS
  <1>8. t = WithSession(s, c, y)
    BY <1>5, <1>7 DEF ToLobby
  <1>9. /\ t \in Servers
        /\ t.peerMap = s.peerMap /\ t.rooms = s.rooms
        /\ t.freeRoomIds = s.freeRoomIds /\ t.nextRoomId = s.nextRoomId
        /\ t.clients[c] = y
        /\ \A d \in Conns \ {c} : t.clients[d] = s.clients[d]
    BY <1>0, <1>6, <1>8, SetSessionExact
  <1>10. /\ SoundIn(PushRoomList(Depart(t, r, p)))
         /\ Parted(s, PushRoomList(Depart(t, r, p)), c, p)
    <2>1. PICK u : u = Depart(t, r, p)
      OBVIOUS
    <2>2. RoomOK(t.rooms[r])
      BY <1>4, <1>9
    <2>3. /\ u \in Servers
          /\ u.peerMap = t.peerMap
          /\ Vacated(t, u, r, p)
          /\ \A d \in Conns : Heard(t, u, d, r, p)
      BY <1>3, <1>9, <2>1, <2>2, DepartExact
    <2>4. MembershipIn(u)
      BY <1>0, <1>1, <1>3, <1>7, <2>1, ResumeRefusedInv
    <2>5. Vacated(s, u, r, p)
      BY <1>9, <2>3 DEF Vacated
    <2>6. Receivers(t, r, p) = Receivers(s, r, p)
      <3>1. /\ t.clients[c].state = "LoggedIn"
            /\ t.clients[c].peerId = s.clients[c].peerId
            /\ t.clients[c].alive = s.clients[c].alive
        BY <1>1, <1>6, <1>9
      <3> QED BY <1>0, <1>9, <3>1, LobbyLive
    <2>7. \A d \in Conns \ {c} : Heard(s, u, d, r, p)
      BY <1>9, <2>3, <2>6 DEF Heard
    <2>8. u.clients[c].state # "InRoom"
      BY <1>6, <1>9, <2>3 DEF Heard, SameSeat, SameIdentity
    <2>9. GaveUp(s, u, c, r, p)
      BY <1>1, <1>9, <2>3, <2>5, <2>7, <2>8 DEF GaveUp
    <2>10. AlmostIn(u)
      BY <1>0, <1>3, <2>4, <2>9, GaveUpSound
    <2>11. /\ u.clients[c].told \subseteq s.clients[c].told
           /\ u.clients[c].state \in {"LoggedIn", "Closing"}
      <3>1. Heard(t, u, c, r, p)
        BY <2>3
      <3>2. u.clients[c].told \subseteq t.clients[c].told
            /\ u.clients[c].state = t.clients[c].state
        BY <3>1 DEF Heard, SameSeat, SameIdentity
      <3> QED BY <1>6, <1>9, <3>2
    <2>12. Parted(s, PushRoomList(u), c, p)
      BY <1>3, <2>3, <2>9, <2>11, GaveUpParted
    <2> QED BY <2>1, <2>10, <2>12, PushSound
  <1>11. ASSUME s.rooms[r].leases[p].token # x.resume.token
         PROVE  SoundIn(t)
    <2>1. MembershipIn(t)
      <3>1. s.rooms[x.resume.room].leases[x.resume.peer].token # x.resume.token
        BY <1>1, <1>3, <1>11
      <3>2. MembershipIn(s)
        BY <1>0
      <3> QED BY <1>7, <3>1, <3>2, ResumeRefusedInv
    <2>2. ~Seated(y) /\ s.clients[c].state # "InRoom"
      BY <1>6 DEF Seated
    <2> QED BY <1>6, <1>8, <2>1, <2>2, SessionSound
  <1>12. Parted(s, t, c, p)
    <2>1. \A d \in Conns \ {c} : SameIdentity(s.clients[d], t.clients[d])
      BY <1>9 DEF SameIdentity
    <2>2. \A d \in Conns : t.clients[d].told \subseteq s.clients[d].told
      BY <1>6, <1>9
    <2> QED BY <1>6, <1>9, <2>1, <2>2 DEF Parted
  <1> QED BY <1>1, <1>3, <1>7, <1>10, <1>11, <1>12

\* completeResume: the session has its seat back and knows the members.
LEMMA ResumedSound ==
  ASSUME NEW s, SoundIn(s), NEW c \in Conns, s.clients[c].state = "ResumePending",
         ValidateResumeLease(s, s.clients[c].resume)
  PROVE  LET t == Resumed(s, c)
         IN /\ SoundIn(t) /\ SameTokens(s, t)
            /\ t.clients[c].state = "InRoom"
            /\ t.clients[c].roomId = s.clients[c].resume.room
            /\ t.clients[c].peerId = s.clients[c].resume.peer
            /\ \A d \in Conns \ {c} : t.clients[d] = s.clients[d]
  <1>0. MembershipIn(s) /\ s \in Servers /\ RoomsIn(s) /\ SeatsIn(s) /\ OnlineIn(s)
        /\ KnownIn(s) /\ ListedIn(s)
    BY DEF SoundIn, MembershipIn
  <1>1. PICK t, x, p, r : /\ t = Resumed(s, c) /\ x = s.clients[c]
                          /\ p = x.peerId /\ r = x.resume.room
    OBVIOUS
  <1>2. x \in Sessions /\ ResumeFits(s, x)
    BY <1>0, <1>1, ResumeLease DEF Servers
  <1>3. p \in PeerIds /\ p # 0 /\ r \in RoomIds /\ x.resume.peer = p
        /\ s.peerMap[p] = c
    BY <1>0, <1>1, <1>2 DEF ResumeFits, OnlyIn, MembershipIn, IndexExactIn
  <1>4. PICK tok : tok = s.rooms[r].leases[p].token
    OBVIOUS
  <1>5. tok # 0 /\ x.resume = [room |-> r, peer |-> p, token |-> tok]
    <2>1. x.resume.token # 0 /\ x.resume.token = tok
      BY <1>1, <1>3, <1>4 DEF ValidateResumeLease
    <2>2. x.resume \in Credentials
      BY <1>2 DEF Sessions
    <2> QED BY <1>1, <1>3, <2>1, <2>2 DEF Credentials
  <1>6. p \in Holders(s.rooms[r]) /\ s.rooms[r] \in Rooms /\ RoomOK(s.rooms[r])
    BY <1>0, <1>3, <1>4, <1>5 DEF Holders, Servers, RoomsIn
  <1>7. PICK room : room = MarkLeaseOnline(s.rooms[r], p)
    OBVIOUS
  <1>8. /\ SameMembers(s.rooms[r], room) /\ RoomOK(room)
        /\ \A q \in PeerIds :
             room.leases[q].online <=> s.rooms[r].leases[q].online \/ q = p
    BY <1>3, <1>6, <1>7, LeaseOpsExact
  <1> DEFINE y == [x EXCEPT !.state = "InRoom", !.roomId = r,
                     !.vip = s.rooms[r].leases[p].vip, !.gap = FALSE,
                     !.told = Holders(s.rooms[r])]
  <1>9. t = [s EXCEPT !.rooms = [s.rooms EXCEPT ![r] = room],
                      !.clients = [s.clients EXCEPT ![c] = y]]
    BY <1>1, <1>3, <1>7 DEF Resumed
  <1>10. /\ y.state = "InRoom" /\ y.roomId = r /\ y.peerId = p
         /\ y.vip = s.rooms[r].leases[p].vip /\ y.told = Holders(s.rooms[r])
         /\ y.resume = [room |-> r, peer |-> p, token |-> tok]
    BY <1>1, <1>2, <1>5 DEF Sessions
  <1> HIDE DEF y
  <1>11. /\ t.rooms = [s.rooms EXCEPT ![r] = room]
         /\ t.clients = [s.clients EXCEPT ![c] = y]
         /\ t.peerMap = s.peerMap /\ t.published = s.published
         /\ t.freeRoomIds = s.freeRoomIds /\ t.nextRoomId = s.nextRoomId
    BY <1>0, <1>9 DEF Servers
  <1>12. t.rooms[r] = room /\ \A q \in RoomIds \ {r} : t.rooms[q] = s.rooms[q]
    BY <1>0, <1>3, <1>11 DEF Servers
  <1>13. t.clients[c] = y /\ \A d \in Conns \ {c} : t.clients[d] = s.clients[d]
    BY <1>0, <1>11 DEF Servers
  <1>14. MembershipIn(t)
    BY <1>0, <1>1, ResumedInv
  <1>15. SameRooms(s, t)
    <2>1. s.rooms[r] # NoRoom
      BY <1>6, NoRoomOK
    <2>2. \A q \in RoomIds : SameMembers(s.rooms[q], s.rooms[q]) /\ RoomOK(s.rooms[q])
      BY <1>0 DEF RoomsIn, SameMembers
    <2> QED BY <1>8, <1>11, <1>12, <2>1, <2>2 DEF SameRooms
  <1>16. RoomsIn(t) /\ SameList(s, t) /\ ListedIn(t)
    BY <1>0, <1>15, SameRoomsSound
  <1>17. SameTokens(s, t)
    BY <1>15 DEF SameTokens, SameRooms, SameMembers
  <1>18. ASSUME NEW q \in RoomIds, NEW o \in PeerIds, o # p
         PROVE  /\ t.rooms[q].leases[o].token = s.rooms[q].leases[o].token
                /\ t.rooms[q].leases[o].vip = s.rooms[q].leases[o].vip
                /\ t.rooms[q].leases[o].online <=> s.rooms[q].leases[o].online
    <2>1. CASE q = r
      BY <1>8, <1>12, <1>18, <2>1 DEF SameMembers
    <2>2. CASE q # r
      <3>1. t.rooms[q] = s.rooms[q]
        BY <1>12, <2>2
      <3> QED BY <3>1
    <2> QED BY <2>1, <2>2
  <1>19. SeatsIn(t)
    <2> SUFFICES ASSUME NEW d \in Conns, Seated(t.clients[d])
                 PROVE  SeatOK(t.clients[d], t.rooms[t.clients[d].roomId])
      BY DEF SeatsIn
    <2>1. CASE d = c
      <3>1. room.leases[p].token = tok /\ room.leases[p].online
            /\ room.leases[p].vip = s.rooms[r].leases[p].vip
        BY <1>3, <1>4, <1>8 DEF SameMembers
      <3>2. SeatOK(y, room)
        BY <1>5, <1>10, <3>1 DEF SeatOK
      <3>3. t.clients[d] = y /\ t.rooms[t.clients[d].roomId] = room
        BY <1>10, <1>12, <1>13, <2>1
      <3> QED BY <3>2, <3>3
    <2>2. CASE d # c
      <3>1. PICK z, o, q : z = s.clients[d] /\ o = z.peerId /\ q = z.roomId
        OBVIOUS
      <3>2. t.clients[d] = z /\ Seated(z)
        BY <1>13, <2>2, <3>1
      <3>3. q \in RoomIds /\ o \in PeerIds /\ o # p
        BY <1>0, <1>3, <2>2, <3>1, <3>2, SeatPlace DEF Seated
      <3>4. SeatOK(z, s.rooms[q])
        BY <1>0, <3>1, <3>2 DEF SeatsIn
      <3>5. SeatOK(z, t.rooms[q])
        BY <1>18, <3>1, <3>3, <3>4 DEF SeatOK
      <3> QED BY <3>1, <3>2, <3>5
    <2> QED BY <2>1, <2>2
  <1>20. OnlineIn(t)
    <2> SUFFICES ASSUME NEW q \in RoomIds, NEW o \in PeerIds,
                        t.rooms[q].leases[o].online
                 PROVE  /\ t.peerMap[o] # NoConn
                        /\ t.clients[t.peerMap[o]].state = "InRoom"
                        /\ t.clients[t.peerMap[o]].roomId = q
      BY DEF OnlineIn, OnlineOK
    <2>1. CASE o = p /\ q = r
      BY <1>3, <1>10, <1>11, <1>13, <2>1, NoConnAssumption
    <2>2. CASE o # p \/ q # r
      <3>1. s.rooms[q].leases[o].online
        BY <1>12, <1>18, <2>2
      <3>2. /\ s.peerMap[o] # NoConn
            /\ s.clients[s.peerMap[o]].state = "InRoom"
            /\ s.clients[s.peerMap[o]].roomId = q
        BY <1>0, <3>1 DEF OnlineIn, OnlineOK
      <3>3. s.peerMap[o] \in Conns \ {c}
        BY <1>0, <3>2, OwnerIs
      <3> QED BY <1>11, <1>13, <3>2, <3>3
    <2> QED BY <2>1, <2>2
  <1>21. KnownIn(t)
    <2> SUFFICES ASSUME NEW d \in Conns, Seated(t.clients[d]), ~t.clients[d].gap
                 PROVE  t.clients[d].told = Holders(t.rooms[t.clients[d].roomId])
      BY DEF KnownIn
    <2>1. CASE d = c
      <3>1. Holders(t.rooms[r]) = Holders(s.rooms[r])
        BY <1>3, <1>16 DEF SameList
      <3> QED BY <1>10, <1>13, <2>1, <3>1
    <2>2. CASE d # c
      <3>1. t.clients[d] = s.clients[d]
        BY <1>13, <2>2
      <3>2. s.clients[d].roomId \in RoomIds
        BY <1>0, <3>1, SeatPlace DEF Seated
      <3>3. s.clients[d].told = Holders(s.rooms[s.clients[d].roomId])
        BY <1>0, <3>1 DEF KnownIn
      <3> QED BY <1>16, <3>1, <3>2, <3>3 DEF SameList
    <2> QED BY <2>1, <2>2
  <1>22. SoundIn(t)
    BY <1>14, <1>16, <1>19, <1>20, <1>21 DEF SoundIn
  <1>23. /\ t.clients[c].state = "InRoom"
         /\ t.clients[c].roomId = s.clients[c].resume.room
         /\ t.clients[c].peerId = s.clients[c].resume.peer
    BY <1>1, <1>3, <1>10, <1>13
  <1> QED BY <1>1, <1>13, <1>17, <1>22, <1>23

-----------------------------------------------------------------------------
(* CREATE_ROOM and JOIN_ROOM *)

\* Destroying one session.
LEMMA EndSound ==
  ASSUME NEW s, SoundIn(s), NEW c \in Conns
  PROVE  SoundIn(Destroy(s, {c}, FALSE))
  <1>1. PICK D \in SUBSET Conns : D = {c}
    OBVIOUS
  <1>2. PICK b \in BOOLEAN : b = FALSE
    OBVIOUS
  <1> HIDE <1>2
  <1>3. SoundIn(Destroy(s, D, b))
    BY DestroySound
  <1> QED BY <1>1, <1>2, <1>3, Zenon

\* createRoom: the new room has no member yet, and room for the first.
LEMMA NewRoomReady ==
  ASSUME NEW s, SoundIn(s), NEW c \in Conns, s.clients[c].state = "LoggedIn",
         NEW p, p = s.clients[c].peerId,
         NEW r, r = NextRoomId(s), r <= MaxRoomId,
         NEW max \in Capacities, NEW key \in 0 .. MaxToken,
         NEW t, t = NewRoom(s, r, p, max, key)
  PROVE  /\ r \in RoomIds /\ s.rooms[r] = NoRoom
         /\ ReadyFor(t, c, r)
         /\ Holders(t.rooms[r]) = {}
         /\ t.clients = s.clients /\ t.published = s.published
         /\ \A q \in RoomIds \ {r} : t.rooms[q] = s.rooms[q]
  <1>0. MembershipIn(s) /\ s \in Servers /\ RoomsIn(s) /\ SeatsIn(s) /\ OnlineIn(s)
        /\ KnownIn(s) /\ RoomIdsOK(s)
    BY DEF SoundIn, MembershipIn, RoomsIn
  <1>1. p \in PeerIds
    BY <1>0, LobbyPeer
  <1>2. r \in RoomIds /\ t.clients = s.clients /\ MembershipIn(t)
    BY <1>0, <1>1, NewRoomInv
  <1> DEFINE room == [NoRoom EXCEPT !.max = max, !.key = key, !.host = p]
             next == IF s.freeRoomIds # {} THEN s.nextRoomId ELSE s.nextRoomId + 1
  <1>3. max \in Nat /\ max >= 2 /\ max <= VipCount
    BY CapacityAssumption, VipAssumption
  <1>4. /\ room.max = max /\ room.leases = NoRoom.leases
        /\ \A q \in PeerIds : /\ room.leases[q].token = 0
                              /\ room.leases[q].online = FALSE
                              /\ room.leases[q].vip = 0
    BY DEF NoRoom, NoLease
  <1>5. t = [s EXCEPT !.rooms = [s.rooms EXCEPT ![r] = room],
                      !.freeRoomIds = s.freeRoomIds \ {r}, !.nextRoomId = next]
    BY DEF NewRoom
  <1> HIDE DEF room
  <1>6. next = IF s.freeRoomIds # {} THEN s.nextRoomId ELSE s.nextRoomId + 1
    OBVIOUS
  <1> HIDE DEF next
  <1>7. /\ t.rooms = [s.rooms EXCEPT ![r] = room] /\ t.peerMap = s.peerMap
        /\ t.freeRoomIds = s.freeRoomIds \ {r} /\ t.nextRoomId = next
        /\ t.published = s.published
    BY <1>0, <1>5 DEF Servers
  <1>8. t.rooms[r] = room /\ \A q \in RoomIds \ {r} : t.rooms[q] = s.rooms[q]
    BY <1>0, <1>2, <1>7 DEF Servers
  <1>9. /\ s.nextRoomId \in Nat /\ s.freeRoomIds \in SUBSET RoomIds
        /\ RoomIds \subseteq Nat
    BY <1>0, BoundsAssumption DEF Servers, RoomIds
  <1>10. /\ s.rooms[r] = NoRoom
         /\ r < next
         /\ next >= s.nextRoomId
    <2>1. CASE s.freeRoomIds # {}
      <3>1. s.freeRoomIds \in SUBSET Nat
        BY <1>9
      <3>2. r \in s.freeRoomIds
        BY <2>1, <3>1, LowestIn DEF NextRoomId
      <3> QED BY <1>0, <1>2, <1>6, <1>9, <2>1, <3>2 DEF RoomIdsOK
    <2>2. CASE s.freeRoomIds = {}
      <3>1. r = s.nextRoomId /\ next = r + 1
        BY <1>6, <2>2 DEF NextRoomId
      <3>2. r >= s.nextRoomId
        BY <1>9, <3>1
      <3> QED BY <1>0, <1>2, <1>9, <3>1, <3>2 DEF RoomIdsOK
    <2> QED BY <2>1, <2>2
  <1>11. RoomIdsOK(t)
    <2>1. next \in Nat
      BY <1>6, <1>9
    <2>2. ASSUME NEW q \in RoomIds, q \in t.freeRoomIds \/ q >= t.nextRoomId
          PROVE  t.rooms[q] = NoRoom
      <3>1. q # r /\ (q \in s.freeRoomIds \/ q >= s.nextRoomId)
        BY <1>2, <1>7, <1>9, <1>10, <2>1, <2>2
      <3> QED BY <1>0, <1>8, <3>1 DEF RoomIdsOK
    <2>3. ASSUME NEW q \in t.freeRoomIds
          PROVE  q < t.nextRoomId
      <3>1. q \in s.freeRoomIds /\ q \in Nat
        BY <1>7, <1>9, <2>3
      <3>2. q < s.nextRoomId
        BY <1>0, <3>1 DEF RoomIdsOK
      <3> QED BY <1>7, <1>9, <1>10, <2>1, <3>1, <3>2
    <2> QED BY <2>2, <2>3 DEF RoomIdsOK
  <1>12. Holders(room) = {}
    BY <1>4 DEF Holders
  <1>13. Cardinality(Holders(room)) = 0
    BY <1>12, FS_EmptySet
  <1>14. RoomFits(room)
    BY <1>3, <1>4, <1>12, <1>13 DEF RoomFits
  <1>15. room # NoRoom
    <2>1. NoRoom.max = 0
      BY DEF NoRoom
    <2> QED BY <1>3, <1>4, <2>1
  <1>16. CanAddLease(room, p)
    <2>1. ~IsFull(room)
      BY <1>3, <1>4, <1>13 DEF IsFull
    <2> DEFINE free == Vips \ {room.leases[q].vip : q \in PeerIds}
    <2>2. {room.leases[q].vip : q \in PeerIds} \subseteq {0}
      BY <1>4
    <2>3. 1 \in Vips /\ Vips \subseteq Nat /\ 0 \notin Vips
      BY <1>3, VipAssumption DEF Vips
    <2>4. 1 \in free /\ free \in SUBSET Nat /\ 0 \notin free
      BY <2>2, <2>3
    <2>5. AllocateVirtualIP(room) = IF free = {} THEN 0 ELSE Lowest(free)
      BY DEF AllocateVirtualIP
    <2> HIDE DEF free
    <2>6. Lowest(free) \in free
      BY <2>4, LowestIn
    <2>7. AllocateVirtualIP(room) # 0
      BY <2>4, <2>5, <2>6
    <2> QED BY <1>12, <2>1, <2>7 DEF CanAddLease
  <1>17. ASSUME NEW d \in Conns, Seated(s.clients[d])
         PROVE  s.clients[d].roomId \in RoomIds \ {r}
    <2>1. s.clients[d].roomId \in RoomIds /\ s.clients[d].peerId \in PeerIds
      BY <1>0, <1>17, SeatPlace DEF Seated
    <2>2. s.rooms[s.clients[d].roomId].leases[s.clients[d].peerId].token # 0
      BY <1>0, <1>17 DEF SeatsIn, SeatOK
    <2> QED BY <1>10, <2>1, <2>2, Nothing
  <1>18. SeatsIn(t)
    BY <1>0, <1>2, <1>8, <1>17 DEF SeatsIn
  <1>19. KnownIn(t)
    BY <1>0, <1>2, <1>8, <1>17 DEF KnownIn
  <1>20. OnlineIn(t)
    BY <1>0, <1>2, <1>4, <1>7, <1>8 DEF OnlineIn, OnlineOK
  <1>21. \A q \in RoomIds \ {r} : RoomOK(t.rooms[q])
    BY <1>0, <1>8 DEF RoomsIn
  <1>22. ReadyFor(t, c, r)
    BY <1>2, <1>8, <1>11, <1>14, <1>15, <1>16, <1>18, <1>19, <1>20, <1>21 DEF ReadyFor
  <1> QED BY <1>2, <1>7, <1>8, <1>10, <1>12, <1>22

\* A room that is found and does not refuse.
LEMMA JoinReady ==
  ASSUME NEW s, SoundIn(s), NEW c \in Conns, s.clients[c].state = "LoggedIn",
         NEW r \in RoomIds, s.rooms[r] # NoRoom,
         CanAddLease(s.rooms[r], s.clients[c].peerId)
  PROVE  ReadyFor(s, c, r) /\ Holders(s.rooms[r]) # {}
  BY DEF SoundIn, RoomsIn, RoomOK, ReadyFor

\* The list published before a failed request is current after it.
LEMMA UndoneListed ==
  ASSUME NEW s, NEW t, NEW u, NEW r \in RoomIds, ListedIn(s), Undone(t, u, r),
         t.published = s.published,
         \A q \in RoomIds \ {r} : t.rooms[q] = s.rooms[q],
         \/ Holders(t.rooms[r]) = {} /\ s.rooms[r] = NoRoom
         \/ Holders(t.rooms[r]) # {} /\ t.rooms[r] = s.rooms[r]
  PROVE  ListedIn(u)
  <1>1. \A q \in RoomIds \ {r} : u.rooms[q] = s.rooms[q]
    BY DEF Undone
  <1>2. /\ u.rooms[r].max = s.rooms[r].max
        /\ u.rooms[r].key = s.rooms[r].key
        /\ Holders(u.rooms[r]) = Holders(s.rooms[r])
    BY DEF Undone
  <1>3. SameList(s, u)
    BY <1>1, <1>2 DEF SameList
  <1>4. u.published = s.published
    BY DEF Undone
  <1> QED BY <1>3, <1>4, ListingSame DEF ListedIn

\* CREATE_ROOM, answered or rolled back.
LEMMA CreateSound ==
  ASSUME NEW s, SoundIn(s), NEW c \in Conns, s.clients[c].state = "LoggedIn",
         NEW p, p = s.clients[c].peerId,
         NEW r, r = NextRoomId(s), r <= MaxRoomId,
         NEW max \in Capacities, NEW key \in 0 .. MaxToken, NEW token \in Tokens,
         NEW t, t = EnterRoom(WithLease(NewRoom(s, r, p, max, key), r, p, token), c, r)
  PROVE  /\ SoundIn(PushRoomList(t))
         /\ SoundIn(RollbackNewMembership(t, c))
  <1>1. PICK w : w = NewRoom(s, r, p, max, key)
    OBVIOUS
  <1>2. /\ r \in RoomIds /\ s.rooms[r] = NoRoom
        /\ ReadyFor(w, c, r)
        /\ Holders(w.rooms[r]) = {}
        /\ w.clients = s.clients /\ w.published = s.published
        /\ \A q \in RoomIds \ {r} : w.rooms[q] = s.rooms[q]
    BY <1>1, NewRoomReady
  <1>3. p = w.clients[c].peerId /\ t = EnterRoom(WithLease(w, r, p, token), c, r)
    BY <1>1, <1>2
  <1>4. SoundIn(PushRoomList(t))
    BY <1>2, <1>3, FirstSound
  <1>5. PICK u : u = RollbackNewMembership(t, c)
    OBVIOUS
  <1>6. AlmostIn(u) /\ Undone(w, u, r)
    BY <1>2, <1>3, <1>5, RollbackSound, SMTT(30)
  <1>7. ListedIn(u)
    BY <1>2, <1>6, UndoneListed DEF SoundIn
  <1> QED BY <1>4, <1>5, <1>6, <1>7 DEF SoundIn, AlmostIn

\* JOIN_ROOM, answered or rolled back.
LEMMA EntrySound ==
  ASSUME NEW s, SoundIn(s), NEW c \in Conns, s.clients[c].state = "LoggedIn",
         NEW p, p = s.clients[c].peerId,
         NEW r \in RoomIds, s.rooms[r] # NoRoom, CanAddLease(s.rooms[r], p),
         NEW token \in Tokens,
         NEW t, t = EnterRoom(WithLease(s, r, p, token), c, r)
  PROVE  /\ SoundIn(PushRoomList(TellJoined(t, r, p)))
         /\ SoundIn(RollbackNewMembership(t, c))
  <1>1. ReadyFor(s, c, r) /\ Holders(s.rooms[r]) # {}
    BY JoinReady
  <1>2. SoundIn(PushRoomList(TellJoined(t, r, p)))
    BY <1>1, JoinSound
  <1>3. PICK u : u = RollbackNewMembership(t, c)
    OBVIOUS
  <1>4. AlmostIn(u) /\ Undone(s, u, r)
    BY <1>1, <1>3, RollbackSound
  <1>5. ListedIn(u)
    BY <1>1, <1>4, UndoneListed DEF SoundIn
  <1> QED BY <1>2, <1>3, <1>4, <1>5 DEF SoundIn, AlmostIn

-----------------------------------------------------------------------------
(* The handlers *)

\* A handler that answers leaves a sound server, answered or destroyed.
LEMMA RespondSound ==
  ASSUME NEW s, SoundIn(s), NEW c \in Conns, NEW sent \in BOOLEAN,
         NEW t, t = IF sent THEN s ELSE Destroy(s, {c}, FALSE)
  PROVE  SoundIn(t)
  <1>1. CASE sent
    BY <1>1
  <1>2. CASE ~sent
    BY <1>2, EndSound
  <1> QED BY <1>1, <1>2

\* completeJoin, from a sound server in which addLease succeeds.
LEMMA CompleteJoinSound ==
  ASSUME NEW s, SoundIn(s), NEW c \in Conns, s.clients[c].state = "LoggedIn",
         NEW r \in RoomIds, s.rooms[r] # NoRoom,
         CanAddLease(s.rooms[r], s.clients[c].peerId),
         nextToken \in 1 .. (MaxToken + 1), CompleteJoin(s, c, r)
  PROVE  SoundIn(srv')
  <1>1. PICK p : p = s.clients[c].peerId
    OBVIOUS
  <1>2. nextToken \in Tokens
    BY BoundsAssumption DEF CompleteJoin, Tokens
  <1>3. PICK token \in Tokens : token = nextToken
    BY <1>2
  <1>4. PICK t : t = EnterRoom(WithLease(s, r, p, token), c, r)
    OBVIOUS
  <1>5. \/ srv' = PushRoomList(TellJoined(t, r, p))
        \/ srv' = Destroy(RollbackNewMembership(t, c), {c}, FALSE)
    BY <1>1, <1>3, <1>4 DEF CompleteJoin
  <1>6. SoundIn(PushRoomList(TellJoined(t, r, p))) /\ SoundIn(RollbackNewMembership(t, c))
    BY <1>1, <1>4, EntrySound
  <1>7. SoundIn(Destroy(RollbackNewMembership(t, c), {c}, FALSE))
    BY <1>6, EndSound
  <1> QED BY <1>5, <1>6, <1>7

\* A login with or without a credential.
LEMMA LoginSound ==
  ASSUME SoundInv, NEW c \in Conns, NEW cred,
         \/ OnLoginFresh(c, cred)
         \/ cred \in issued /\ OnLoginResume(c, cred)
  PROVE  SoundIn(srv')
  <1>0. SoundIn(srv)
    BY DEF SoundInv
  <1>1. CASE OnLoginFresh(c, cred)
    <2>1. srv.clients[c].state = "AwaitLogin" /\ CanAllocatePeerId(srv)
      BY <1>1 DEF OnLoginFresh, Dispatch
    <2>2. SoundIn(FreshLogin(srv, c))
      BY <1>0, <2>1, FreshLoginSound
    <2>3. PICK sent \in BOOLEAN : Respond(c, sent, FreshLogin(srv, c))
      BY <1>1 DEF OnLoginFresh
    <2> QED BY <2>2, <2>3, RespondSound DEF Respond
  <1>2. CASE cred \in issued /\ OnLoginResume(c, cred)
    <2>1. srv.clients[c].state = "AwaitLogin" /\ ValidateResumeLease(srv, cred)
      BY <1>2 DEF OnLoginResume, Dispatch
    <2>2. /\ cred \in Credentials
          /\ cred.room # 0 /\ cred.peer # 0 /\ cred.token # 0
      BY <1>2 DEF SoundInv, MembershipInv, TypeOK, CredentialsOK
    <2>3. SoundIn(ResumeLogin(srv, c, cred))
      BY <1>0, <2>1, <2>2, ResumeLoginSound
    <2>4. PICK sent \in BOOLEAN : Respond(c, sent, ResumeLogin(srv, c, cred))
      BY <1>2 DEF OnLoginResume
    <2> QED BY <2>3, <2>4, RespondSound DEF Respond
  <1> QED BY <1>1, <1>2

\* CREATE_ROOM.
LEMMA CreateStepSound ==
  ASSUME SoundInv, NEW c \in Conns, NEW max \in Capacities,
         NEW protected \in BOOLEAN, OnCreateRoom(c, max, protected)
  PROVE  SoundIn(srv')
  <1>1. PICK p, r, key : /\ p = srv.clients[c].peerId /\ r = NextRoomId(srv)
                         /\ key = IF protected THEN nextToken ELSE 0
    OBVIOUS
  <1>2. SoundIn(srv) /\ nextToken \in 1 .. (MaxToken + 1)
    BY DEF SoundInv, MembershipInv, TypeOK
  <1>3. srv.clients[c].state = "LoggedIn" /\ r <= MaxRoomId /\ nextToken \in Tokens
    BY <1>1, <1>2, BoundsAssumption DEF OnCreateRoom, Dispatch, Tokens
  <1>4. key \in 0 .. MaxToken
    BY <1>1, <1>3, BoundsAssumption DEF Tokens
  <1>5. PICK token \in Tokens : token = nextToken
    BY <1>3
  <1>6. PICK t : t = EnterRoom(WithLease(NewRoom(srv, r, p, max, key), r, p, token), c, r)
    OBVIOUS
  <1>7. \/ srv' = PushRoomList(t)
        \/ srv' = Destroy(RollbackNewMembership(t, c), {c}, FALSE)
    BY <1>1, <1>5, <1>6 DEF OnCreateRoom
  <1>8. SoundIn(PushRoomList(t)) /\ SoundIn(RollbackNewMembership(t, c))
    BY <1>1, <1>2, <1>3, <1>4, <1>6, CreateSound
  <1>9. SoundIn(Destroy(RollbackNewMembership(t, c), {c}, FALSE))
    BY <1>8, EndSound
  <1> QED BY <1>7, <1>8, <1>9

\* The session that is asked for the password of room r.
Challenged(s, c, r) ==
  [s.clients[c] EXCEPT !.state = "AwaitRoomPassword",
                       !.pending = [room |-> r, key |-> s.rooms[r].key]]

\* It is a session that waits for that password.
LEMMA ChallengedSession ==
  ASSUME NEW s, MembershipIn(s), NEW c \in Conns,
         s.clients[c].state = "LoggedIn", NEW r \in RoomIds
  PROVE  LET y == Challenged(s, c, r)
         IN /\ y \in Sessions /\ Shaped(y) /\ y.state = "AwaitRoomPassword"
            /\ y.peerId = s.clients[c].peerId
            /\ y.told = s.clients[c].told
  <1>0. s \in Servers /\ s.clients[c] \in Sessions /\ Shaped(s.clients[c])
    BY DEF MembershipIn, Servers, SessionShapeIn
  <1>1. s.clients[c].peerId # 0 /\ s.clients[c].roomId = 0 /\ r # 0
    BY <1>0, PositiveIds DEF Shaped, IdentityStates
  <1>2. s.rooms[r].key \in 0 .. MaxToken /\ r \in 0 .. MaxRoomId
    <2>1. s.rooms[r] \in Rooms
      BY <1>0 DEF Servers
    <2> QED BY <2>1, PositiveIds DEF Rooms
  <1>3. PICK a : a = [room |-> r, key |-> s.rooms[r].key]
    OBVIOUS
  <1>4. a \in [room : 0 .. MaxRoomId, key : 0 .. MaxToken] /\ a.room = r
    BY <1>2, <1>3
  <1>5. PICK y : y = [s.clients[c] EXCEPT !.state = "AwaitRoomPassword", !.pending = a]
    OBVIOUS
  <1>6. /\ y \in Sessions /\ y.state = "AwaitRoomPassword" /\ y.pending = a
        /\ y.peerId = s.clients[c].peerId /\ y.roomId = s.clients[c].roomId
        /\ y.told = s.clients[c].told
    BY <1>0, <1>4, <1>5, LobbyTypes DEF Sessions
  <1>7. Shaped(y)
    BY <1>1, <1>4, <1>6 DEF Shaped, IdentityStates
  <1>8. y = Challenged(s, c, r)
    BY <1>3, <1>5 DEF Challenged
  <1> QED BY <1>6, <1>7, <1>8

\* The session that has answered, back in the lobby.
Answered(s, c) ==
  [s.clients[c] EXCEPT !.state = "LoggedIn", !.pending = [room |-> 0, key |-> 0]]

\* It is a session of the lobby.
LEMMA AnsweredSession ==
  ASSUME NEW s, MembershipIn(s), NEW c \in Conns,
         s.clients[c].state = "AwaitRoomPassword"
  PROVE  LET y == Answered(s, c)
         IN /\ y \in Sessions /\ Shaped(y) /\ y.state = "LoggedIn"
            /\ y.peerId = s.clients[c].peerId
            /\ y.told = s.clients[c].told
  <1>0. s.clients[c] \in Sessions /\ Shaped(s.clients[c])
    BY DEF MembershipIn, Servers, SessionShapeIn
  <1>1. s.clients[c].peerId # 0 /\ s.clients[c].roomId = 0
    BY <1>0 DEF Shaped, IdentityStates
  <1>2. PICK b : b = [room |-> 0, key |-> 0]
    OBVIOUS
  <1>3. b \in [room : 0 .. MaxRoomId, key : 0 .. MaxToken]
    BY <1>2, LobbyTypes
  <1>4. PICK y : y = [s.clients[c] EXCEPT !.state = "LoggedIn", !.pending = b]
    OBVIOUS
  <1>5. /\ y \in Sessions /\ y.state = "LoggedIn"
        /\ y.peerId = s.clients[c].peerId /\ y.roomId = s.clients[c].roomId
        /\ y.told = s.clients[c].told
    BY <1>0, <1>3, <1>4, LobbyTypes DEF Sessions
  <1>6. Shaped(y)
    BY <1>1, <1>5 DEF Shaped, IdentityStates
  <1>7. y = Answered(s, c)
    BY <1>2, <1>4 DEF Answered
  <1> QED BY <1>5, <1>6, <1>7

\* Replacing a session outside any room by another.
LEMMA StateSound ==
  ASSUME NEW s, SoundIn(s), NEW c \in Conns,
         s.clients[c].state \notin {"InRoom", "ResumePending"},
         NEW y \in Sessions, Shaped(y), y.peerId = s.clients[c].peerId,
         y.state # "InRoom"
  PROVE  SoundIn(WithSession(s, c, y))
  <1>1. MembershipIn(WithSession(s, c, y))
    BY StateInv DEF SoundIn
  <1>2. ~Seated(y) /\ s.clients[c].state # "InRoom"
    BY DEF Seated
  <1> QED BY <1>1, <1>2, SessionSound

\* JOIN_ROOM.
LEMMA JoinStepSound ==
  ASSUME SoundInv, NEW c \in Conns, NEW r \in RoomIds, OnJoinRoom(c, r)
  PROVE  SoundIn(srv')
  <1>1. PICK s : s = CleanupExpiredLeases(srv)
    OBVIOUS
  <1>2. SoundIn(srv) /\ MembershipIn(srv) /\ nextToken \in 1 .. (MaxToken + 1)
    BY DEF SoundInv, MembershipInv, TypeOK
  <1>3. SoundIn(s)
    BY <1>1, <1>2, CleanupSound
  <1>4. MembershipIn(s) /\ SameIdentity(srv.clients[c], s.clients[c])
    BY <1>1, <1>2, CleanupInv
  <1>5. s.clients[c].state = "LoggedIn" /\ s.clients[c].peerId = srv.clients[c].peerId
    BY <1>4 DEF OnJoinRoom, Dispatch, SameIdentity
  <1>y. PICK y : y = Challenged(s, c, r)
    OBVIOUS
  <1>6. /\ y \in Sessions /\ Shaped(y) /\ y.state = "AwaitRoomPassword"
        /\ y.peerId = s.clients[c].peerId
    BY <1>4, <1>5, <1>y, ChallengedSession
  <1>7. \/ srv' = s
        \/ \E sent \in BOOLEAN : Respond(c, sent, WithSession(s, c, y))
        \/ /\ s.rooms[r] # NoRoom /\ CanAddLease(s.rooms[r], srv.clients[c].peerId)
           /\ CompleteJoin(s, c, r)
    BY <1>1, <1>y DEF OnJoinRoom, WithSession, Challenged
  <1>8. CASE \E sent \in BOOLEAN : Respond(c, sent, WithSession(s, c, y))
    <2>1. s.clients[c].state \notin {"InRoom", "ResumePending"} /\ y.state # "InRoom"
      BY <1>5, <1>6
    <2>2. SoundIn(WithSession(s, c, y))
      BY <1>3, <1>6, <2>1, StateSound
    <2> QED BY <1>8, <2>2, RespondSound DEF Respond
  <1>9. CASE /\ s.rooms[r] # NoRoom /\ CanAddLease(s.rooms[r], srv.clients[c].peerId)
             /\ CompleteJoin(s, c, r)
    BY <1>2, <1>3, <1>5, <1>9, CompleteJoinSound
  <1> QED BY <1>3, <1>7, <1>8, <1>9

\* The answer to a password challenge.
LEMMA AuthStepSound ==
  ASSUME SoundInv, NEW c \in Conns, NEW knows \in BOOLEAN, OnAuthResponse(c, knows)
  PROVE  SoundIn(srv')
  <1>1. PICK s, r : s = CleanupExpiredLeases(srv) /\ r = srv.clients[c].pending.room
    OBVIOUS
  <1>2. /\ SoundIn(srv) /\ MembershipIn(srv) /\ nextToken \in 1 .. (MaxToken + 1)
        /\ srv.clients[c] \in Sessions /\ Shaped(srv.clients[c])
        /\ srv.clients[c].state = "AwaitRoomPassword"
    BY DEF SoundInv, MembershipInv, TypeOK, MembershipIn, SessionShapeIn, Servers,
           OnAuthResponse, Dispatch
  <1>3. SoundIn(s)
    BY <1>1, <1>2, CleanupSound
  <1>4. MembershipIn(s) /\ SameIdentity(srv.clients[c], s.clients[c])
    BY <1>1, <1>2, CleanupInv
  <1>5. s.clients[c].state = "AwaitRoomPassword"
        /\ s.clients[c].peerId = srv.clients[c].peerId /\ s \in Servers
    BY <1>2, <1>4 DEF SameIdentity, MembershipIn
  <1>6. r \in RoomIds
    <2>1. r # 0
      BY <1>1, <1>2 DEF Shaped
    <2> QED BY <1>1, <1>2, <2>1, BoundsAssumption DEF Sessions, RoomIds
  <1>y. PICK y : y = Answered(s, c)
    OBVIOUS
  <1>7. /\ y \in Sessions /\ Shaped(y) /\ y.state = "LoggedIn"
        /\ y.peerId = s.clients[c].peerId
    BY <1>4, <1>5, <1>y, AnsweredSession
  <1>8. \/ srv' = WithSession(s, c, y)
        \/ /\ s.rooms[r] # NoRoom /\ CanAddLease(s.rooms[r], srv.clients[c].peerId)
           /\ CompleteJoin(WithSession(s, c, y), c, r)
    BY <1>1, <1>y DEF OnAuthResponse, WithSession, Answered
  <1>9. PICK t : t = WithSession(s, c, y)
    OBVIOUS
  <1>10. SoundIn(t)
    <2>1. s.clients[c].state \notin {"InRoom", "ResumePending"} /\ y.state # "InRoom"
      BY <1>5, <1>7
    <2> QED BY <1>3, <1>7, <1>9, <2>1, StateSound
  <1>11. t.clients[c] = y /\ t.rooms = s.rooms
    BY <1>5, <1>7, <1>9, SetSessionExact
  <1>12. CASE /\ s.rooms[r] # NoRoom /\ CanAddLease(s.rooms[r], srv.clients[c].peerId)
              /\ CompleteJoin(t, c, r)
    <2>1. /\ t.clients[c].state = "LoggedIn" /\ t.rooms[r] # NoRoom
          /\ CanAddLease(t.rooms[r], t.clients[c].peerId)
      BY <1>5, <1>7, <1>11, <1>12
    <2> QED BY <1>2, <1>6, <1>10, <1>12, <2>1, CompleteJoinSound
  <1> QED BY <1>8, <1>9, <1>10, <1>12

\* RESUME_ROOM, LEAVE_ROOM and LOGOUT.
LEMMA LeaseStepsSound ==
  ASSUME SoundInv, NEW c \in Conns,
         OnResumeRoom(c) \/ OnLeaveRoom(c) \/ OnLogout(c)
  PROVE  SoundIn(srv')
  <1>0. SoundIn(srv)
    BY DEF SoundInv
  <1>1. CASE OnResumeRoom(c)
    <2>1. PICK x : x = srv.clients[c]
      OBVIOUS
    <2>2. srv.clients[c].state = "ResumePending"
      BY <1>1 DEF OnResumeRoom, Dispatch
    <2>3. \/ /\ ValidateResumeLease(srv, srv.clients[c].resume)
             /\ \E sent \in BOOLEAN : Respond(c, sent, Resumed(srv, c))
          \/ srv' = PushRoomList(Depart(ToLobby(srv, c), x.resume.room, x.resume.peer))
          \/ /\ srv' = ToLobby(srv, c)
             /\ srv.rooms[x.resume.room].leases[x.resume.peer].token # x.resume.token
      BY <1>1, <2>1 DEF OnResumeRoom, ToLobby, LobbySession, WithSession
    <2>4. CASE /\ ValidateResumeLease(srv, srv.clients[c].resume)
               /\ \E sent \in BOOLEAN : Respond(c, sent, Resumed(srv, c))
      <3>1. SoundIn(Resumed(srv, c))
        BY <1>0, <2>2, <2>4, ResumedSound
      <3> QED BY <2>4, <3>1, RespondSound DEF Respond
    <2>5. CASE srv' = PushRoomList(Depart(ToLobby(srv, c), x.resume.room, x.resume.peer))
      BY <1>0, <2>1, <2>2, <2>5, RefusedSound
    <2>6. CASE /\ srv' = ToLobby(srv, c)
               /\ srv.rooms[x.resume.room].leases[x.resume.peer].token # x.resume.token
      BY <1>0, <2>1, <2>2, <2>6, RefusedSound
    <2> QED BY <2>3, <2>4, <2>5, <2>6
  <1>2. CASE OnLeaveRoom(c)
    BY <1>0, <1>2, LeaveSound DEF OnLeaveRoom, Dispatch
  <1>3. CASE OnLogout(c)
    <2>1. SoundIn(Logout(srv, c))
      BY <1>0, <1>3, LogoutSound DEF OnLogout
    <2>2. PICK drained \in BOOLEAN : Respond(c, ~drained, Logout(srv, c))
      BY <1>3 DEF OnLogout
    <2>3. PICK sent \in BOOLEAN : sent = ~drained
      OBVIOUS
    <2> QED BY <2>1, <2>2, <2>3, RespondSound DEF Respond
  <1> QED BY <1>1, <1>2, <1>3

\* Sessions that appear, end, die or miss an announcement, and the scan.
LEMMA OtherStepsSound ==
  ASSUME SoundInv, NEW c \in Conns,
         \/ Authenticate(c) \/ OnListRooms(c) \/ HandleClientDisconnect(c)
         \/ SessionDies(c) \/ SendDropped(c)
  PROVE  SoundIn(srv')
  <1>0. SoundIn(srv) /\ MembershipIn(srv) /\ srv.clients[c] \in Sessions
        /\ Shaped(srv.clients[c])
    BY DEF SoundInv, SoundIn, MembershipIn, Servers, SessionShapeIn
  <1>1. CASE Authenticate(c)
    <2>1. PICK y : y = [NoSession EXCEPT !.state = "AwaitLogin", !.alive = TRUE]
      OBVIOUS
    <2>2. srv' = WithSession(srv, c, y) /\ srv.clients[c].state = "Absent"
      BY <1>1, <2>1 DEF Authenticate, WithSession
    <2>3. NoSession \in Sessions /\ NoSession.peerId = 0 /\ NoSession.roomId = 0
          /\ "AwaitLogin" \in SessionStates
      BY Nothing DEF NoSession, SessionStates
    <2>4. y \in Sessions /\ y.state = "AwaitLogin" /\ y.peerId = 0 /\ y.roomId = 0
      BY <2>1, <2>3 DEF Sessions
    <2>5. Shaped(y) /\ srv.clients[c].peerId = 0
      BY <1>0, <2>2, <2>4 DEF Shaped, IdentityStates
    <2> QED BY <1>0, <2>2, <2>4, <2>5, StateSound
  <1>2. CASE OnListRooms(c)
    BY <1>0, <1>2, CleanupSound DEF OnListRooms
  <1>3. CASE HandleClientDisconnect(c)
    BY <1>0, <1>3, EndSound DEF HandleClientDisconnect
  <1>4. CASE SessionDies(c)
    <2>1. PICK y : y = [srv.clients[c] EXCEPT !.alive = FALSE]
      OBVIOUS
    <2>2. y \in Sessions /\ SameIdentity(srv.clients[c], y) /\ ~y.alive
      BY <1>0, <2>1 DEF Sessions, SameIdentity
    <2>3. srv' = WithSession(srv, c, y)
      BY <1>4, <2>1 DEF SessionDies, WithSession
    <2>4. MembershipIn(WithSession(srv, c, y))
      BY <1>0, <2>2, SameSessionInv
    <2>5. ~Seated(y)
      BY <2>2 DEF Seated
    <2>6. srv.clients[c].state = "InRoom" =>
            y.state = "InRoom" /\ y.roomId = srv.clients[c].roomId
      BY <2>2 DEF SameIdentity
    <2> QED BY <1>0, <2>2, <2>3, <2>4, <2>5, <2>6, SessionSound
  <1>5. CASE SendDropped(c)
    <2>1. PICK y : y = [srv.clients[c] EXCEPT !.gap = TRUE, !.told = {}]
      OBVIOUS
    <2>2. /\ y \in Sessions /\ SameIdentity(srv.clients[c], y) /\ y.gap
          /\ y.vip = srv.clients[c].vip /\ y.alive = srv.clients[c].alive
      BY <1>0, <2>1 DEF Sessions, SameIdentity
    <2>3. srv' = WithSession(srv, c, y)
      BY <1>5, <2>1 DEF SendDropped, WithSession
    <2>4. MembershipIn(WithSession(srv, c, y))
      BY <1>0, <2>2, SameSessionInv
    <2>5. Seated(srv.clients[c])
      BY <1>5 DEF SendDropped, Dispatch, Seated
    <2>6. /\ srv.clients[c].state = "InRoom" =>
               y.state = "InRoom" /\ y.roomId = srv.clients[c].roomId
          /\ y.roomId = srv.clients[c].roomId
          /\ y.peerId = srv.clients[c].peerId
          /\ y.resume = srv.clients[c].resume
      BY <2>2 DEF SameIdentity
    <2> QED BY <1>0, <2>2, <2>3, <2>4, <2>5, <2>6, SessionSound
  <1> QED BY <1>1, <1>2, <1>3, <1>4, <1>5

\* The periodic scan.
LEMMA ScanSound ==
  ASSUME SoundInv, CheckTimeouts
  PROVE  SoundIn(srv')
  <1>1. PICK dead \in SUBSET Conns :
          srv' = CleanupExpiredLeases(Destroy(srv, dead, FALSE))
    <2>1. {d \in Conns : srv.clients[d].state # "Absent" /\ ~srv.clients[d].alive}
            \in SUBSET Conns
      OBVIOUS
    <2> QED BY <2>1 DEF CheckTimeouts
  <1>2. SoundIn(Destroy(srv, dead, FALSE))
    BY DestroySound DEF SoundInv
  <1> QED BY <1>1, <1>2, CleanupSound

-----------------------------------------------------------------------------
(* The invariant and what follows from it *)

\* The server starts without sessions and rooms.
LEMMA InitSound == Init => SoundInv
  <1> SUFFICES ASSUME Init PROVE SoundInv
    OBVIOUS
  <1>1. MembershipInv /\ MembershipIn(srv)
    BY InitInv DEF MembershipInv
  <1>2. /\ \A c \in Conns : srv.clients[c] = NoSession
        /\ \A r \in RoomIds : srv.rooms[r] = NoRoom
        /\ srv.freeRoomIds = {}
        /\ srv.published = [r \in RoomIds |->
                              [max |-> 0, protected |-> FALSE, count |-> 0]]
    BY DEF Init
  <1>3. RoomsIn(srv)
    BY <1>2, NoRoomOK DEF RoomsIn, RoomIdsOK
  <1>4. SeatsIn(srv) /\ KnownIn(srv)
    BY <1>2 DEF SeatsIn, KnownIn, Seated, NoSession
  <1>5. OnlineIn(srv)
    <2>1. \A r \in RoomIds, p \in PeerIds : ~srv.rooms[r].leases[p].online
      BY <1>2 DEF NoRoom, NoLease
    <2> QED BY <2>1 DEF OnlineIn, OnlineOK
  <1>6. ListedIn(srv)
    <2>1. NoRoom.max = 0 /\ (NoRoom.key # 0) = FALSE /\ Cardinality(Holders(NoRoom)) = 0
      BY NoRoomOK, FS_EmptySet DEF NoRoom
    <2> QED BY <1>2, <2>1 DEF ListedIn, Listing
  <1> QED BY <1>1, <1>3, <1>4, <1>5, <1>6 DEF SoundInv, SoundIn

\* Every handler preserves the invariant.
LEMMA NextSound == SoundInv /\ [Next]_vars => SoundInv'
  <1> SUFFICES ASSUME SoundInv, [Next]_vars PROVE SoundInv'
    OBVIOUS
  <1>1. MembershipInv'
    BY NextInv DEF SoundInv
  <1>2. ASSUME SoundIn(srv') PROVE SoundInv'
    BY <1>1, <1>2 DEF SoundInv, SoundIn
  <1>3. ASSUME NEW c \in Conns, NEW cred,
               \/ OnLoginFresh(c, cred)
               \/ cred \in issued /\ OnLoginResume(c, cred)
        PROVE  SoundInv'
    BY <1>2, <1>3, LoginSound
  <1>4. ASSUME NEW c \in Conns, NEW max \in Capacities, NEW protected \in BOOLEAN,
               OnCreateRoom(c, max, protected)
        PROVE  SoundInv'
    BY <1>2, <1>4, CreateStepSound
  <1>5. ASSUME NEW c \in Conns, NEW r \in RoomIds, OnJoinRoom(c, r)
        PROVE  SoundInv'
    BY <1>2, <1>5, JoinStepSound
  <1>6. ASSUME NEW c \in Conns, NEW knows \in BOOLEAN, OnAuthResponse(c, knows)
        PROVE  SoundInv'
    BY <1>2, <1>6, AuthStepSound
  <1>7. ASSUME NEW c \in Conns, OnResumeRoom(c) \/ OnLeaveRoom(c) \/ OnLogout(c)
        PROVE  SoundInv'
    BY <1>2, <1>7, LeaseStepsSound
  <1>8. ASSUME NEW c \in Conns,
               \/ Authenticate(c) \/ OnListRooms(c) \/ HandleClientDisconnect(c)
               \/ SessionDies(c) \/ SendDropped(c)
        PROVE  SoundInv'
    BY <1>2, <1>8, OtherStepsSound
  <1>9. CASE CheckTimeouts
    BY <1>2, <1>9, ScanSound
  <1>10. CASE Tick
    <2>1. SoundIn(srv')
      BY <1>10, TickSound DEF Tick, SoundInv
    <2> QED BY <1>2, <2>1
  <1>11. CASE UNCHANGED vars
    <2>1. srv' = srv /\ SoundIn(srv)
      BY <1>11 DEF vars, SoundInv
    <2>2. SoundIn(srv')
      BY <2>1
    <2> QED BY <1>2, <2>2
  <1> QED
    BY <1>3, <1>4, <1>5, <1>6, <1>7, <1>8, <1>9, <1>10, <1>11 DEF Next

\* Rooms, leases, sessions, announcements and the published list fit together
\* in every reachable state.
THEOREM SoundSafe == Spec => []SoundInv
  BY InitSound, NextSound, PTL DEF Spec

\* Rooms exist exactly while they have members, freed identifiers name none, and
\* in every room the members fit in, have different addresses and one of them is
\* the host (createRoom, addLease, allocateVirtualIP, ensureHost, eraseRoom).
THEOREM RoomsSafe == Spec => []RoomsSound
  <1>1. SoundInv => RoomsSound
    <2> SUFFICES ASSUME SoundInv PROVE RoomsSound
      OBVIOUS
    <2>1. MembershipIn(srv) /\ RoomsIn(srv)
      BY DEF SoundInv, SoundIn
    <2>2. \A r \in RoomIds : srv.rooms[r] # NoRoom <=> Holders(srv.rooms[r]) # {}
      BY <2>1, NoRoomOK DEF RoomsIn, RoomOK
    <2>3. RoomsConsistent
      BY <2>1, <2>2 DEF RoomsConsistent, MembershipIn, RoomsIn, RoomIdsOK
    <2>4. RoomsWellFormed
      BY <2>1 DEF RoomsWellFormed, RoomsIn, RoomOK, RoomFits
    <2> QED BY <2>3, <2>4 DEF RoomsSound
  <1> QED BY <1>1, SoundSafe, PTL

\* A live session in a room holds its online lease with its address and token,
\* and an online lease has its session (completeJoin, completeResume,
\* destroyClient, cleanupExpiredLeases).
THEOREM LeasesSafe == Spec => []MembersHoldLeases
  <1>1. SoundInv => MembersHoldLeases
    BY DEF SoundInv, SoundIn, SeatsIn, Seated, SeatOK, OnlineIn, OnlineOK,
           MembersHoldLeases
  <1> QED BY <1>1, SoundSafe, PTL

\* What clients have been told is true: every session to which nothing was lost
\* knows exactly the members of its room, and the published list is the list of
\* the rooms (broadcastToRoom, broadcastRoomListPush).
THEOREM ToldSafe == Spec => []ToldTrue
  <1>1. SoundInv => ToldTrue
    BY DEF SoundInv, SoundIn, KnownIn, ListedIn, Seated, ToldTrue, MembersKnown,
           PublishedCurrent
  <1> QED BY <1>1, SoundSafe, PTL

-----------------------------------------------------------------------------
(* What a step may never do.  Most steps are calm: they hand out no lease,   *)
(* announce nobody and take no session into a room.                          *)

\* The session of a connection learns of no new member, enters no room and
\* asks to resume no other lease.
Subdued(x, y) ==
  /\ y.told \subseteq x.told
  /\ y.state = "InRoom" => x.state = "InRoom"
  /\ y.state = "ResumePending" => x.state = "ResumePending" /\ y.resume = x.resume

\* Tokens disappear, and none is new or different.
FewerTokens(s, t) ==
  \A r \in RoomIds, p \in PeerIds :
    t.rooms[r].leases[p].token \in {0, s.rooms[r].leases[p].token}

\* A calm step.
Calm(s, t) ==
  /\ FewerTokens(s, t)
  /\ \A d \in Conns : Subdued(s.clients[d], t.clients[d])

\* A step that is calm but for the session of connection c.
CalmBut(s, t, c) ==
  /\ FewerTokens(s, t)
  /\ \A d \in Conns \ {c} : Subdued(s.clients[d], t.clients[d])

\* Only expired leases are lost or change their token or address.
OnlyExpired(s, t) ==
  \A r \in RoomIds, p \in PeerIds :
    /\ s.rooms[r].leases[p].token # 0
    /\ \/ t.rooms[r].leases[p].token # s.rooms[r].leases[p].token
       \/ t.rooms[r].leases[p].vip # s.rooms[r].leases[p].vip
    => Expired(s.rooms[r].leases[p])

\* No lease is lost or changes its token or address.
KeepsTokens(s, t) ==
  \A r \in RoomIds, p \in PeerIds :
    s.rooms[r].leases[p].token # 0
      => /\ t.rooms[r].leases[p].token = s.rooms[r].leases[p].token
         /\ t.rooms[r].leases[p].vip = s.rooms[r].leases[p].vip

\* Calm steps compose.
LEMMA CalmTrans ==
  ASSUME NEW s, NEW t, NEW u, Calm(s, t)
  PROVE  /\ Calm(t, u) => Calm(s, u)
         /\ \A c \in Conns : CalmBut(t, u, c) => CalmBut(s, u, c)
  <1>1. ASSUME FewerTokens(t, u) PROVE FewerTokens(s, u)
    BY <1>1 DEF Calm, FewerTokens
  <1>2. ASSUME NEW d \in Conns, Subdued(t.clients[d], u.clients[d])
        PROVE  Subdued(s.clients[d], u.clients[d])
    BY <1>2 DEF Calm, Subdued
  <1> QED BY <1>1, <1>2 DEF Calm, CalmBut

\* What is kept after an expiry keeps the expiry the only loss.
LEMMA ExpiredTrans ==
  ASSUME NEW s, NEW t, NEW u, OnlyExpired(s, t), KeepsTokens(t, u)
  PROVE  OnlyExpired(s, u)
  <1> SUFFICES ASSUME NEW r \in RoomIds, NEW p \in PeerIds,
                      s.rooms[r].leases[p].token # 0,
                      \/ u.rooms[r].leases[p].token # s.rooms[r].leases[p].token
                      \/ u.rooms[r].leases[p].vip # s.rooms[r].leases[p].vip
               PROVE  Expired(s.rooms[r].leases[p])
    BY DEF OnlyExpired
  <1>1. CASE /\ t.rooms[r].leases[p].token = s.rooms[r].leases[p].token
             /\ t.rooms[r].leases[p].vip = s.rooms[r].leases[p].vip
    BY <1>1 DEF KeepsTokens
  <1>2. CASE \/ t.rooms[r].leases[p].token # s.rooms[r].leases[p].token
             \/ t.rooms[r].leases[p].vip # s.rooms[r].leases[p].vip
    BY <1>2 DEF OnlyExpired
  <1> QED BY <1>1, <1>2

\* Keeping every token is a special case.
LEMMA KeptTokens ==
  ASSUME NEW s, NEW t
  PROVE  /\ KeepsTokens(s, t) => OnlyExpired(s, t)
         /\ SameTokens(s, t) => KeepsTokens(s, t) /\ FewerTokens(s, t)
  BY DEF KeepsTokens, OnlyExpired, SameTokens, FewerTokens

\* Destroying sessions is calm and keeps every token.
LEMMA DestroyCalm ==
  ASSUME NEW s, SoundIn(s), NEW D \in SUBSET Conns
  PROVE  /\ Calm(s, Destroy(s, D, FALSE))
         /\ SameTokens(s, Destroy(s, D, FALSE))
  <1>0. PICK b \in BOOLEAN : b = FALSE
    OBVIOUS
  <1>1. PICK t : t = Destroy(s, D, b)
    OBVIOUS
  <1>2. /\ SameRooms(s, t)
        /\ \A c \in Conns : t.clients[c] = IF c \in D THEN NoSession ELSE s.clients[c]
    BY <1>1, DestroyExact DEF SoundIn
  <1>3. SameTokens(s, t)
    BY <1>2 DEF SameRooms, SameMembers, SameTokens
  <1>4. NoSession.told = {} /\ NoSession.state = "Absent"
    BY DEF NoSession
  <1>5. ASSUME NEW d \in Conns PROVE Subdued(s.clients[d], t.clients[d])
    BY <1>2, <1>4 DEF Subdued
  <1>6. Calm(s, t)
    BY <1>3, <1>5, KeptTokens DEF Calm
  <1> QED BY <1>0, <1>1, <1>3, <1>6

\* A session that ends with its handler makes a step calm that was calm but for
\* that session.
LEMMA EndCalm ==
  ASSUME NEW s, NEW t, SoundIn(t), NEW c \in Conns, CalmBut(s, t, c)
  PROVE  /\ Calm(s, Destroy(t, {c}, FALSE))
         /\ SameTokens(t, Destroy(t, {c}, FALSE))
         /\ Destroy(t, {c}, FALSE).clients[c].state = "Absent"
  <1>0. PICK b \in BOOLEAN, D \in SUBSET Conns : b = FALSE /\ D = {c}
    OBVIOUS
  <1>1. PICK u : u = Destroy(t, D, b)
    OBVIOUS
  <1>2. /\ SameRooms(t, u)
        /\ \A d \in Conns : u.clients[d] = IF d \in D THEN NoSession ELSE t.clients[d]
    BY <1>1, DestroyExact DEF SoundIn
  <1>3. SameTokens(t, u)
    BY <1>2 DEF SameRooms, SameMembers, SameTokens
  <1>4. FewerTokens(s, u)
    BY <1>3 DEF SameTokens, CalmBut, FewerTokens
  <1>5. NoSession.told = {} /\ NoSession.state = "Absent"
    BY DEF NoSession
  <1>6. ASSUME NEW d \in Conns PROVE Subdued(s.clients[d], u.clients[d])
    <2>1. CASE d = c
      BY <1>0, <1>2, <1>5, <2>1 DEF Subdued
    <2>2. CASE d # c
      BY <1>0, <1>2, <2>2 DEF CalmBut
    <2> QED BY <2>1, <2>2
  <1>7. Calm(s, u)
    BY <1>4, <1>6 DEF Calm
  <1>8. u.clients[c].state = "Absent"
    BY <1>0, <1>2, <1>5
  <1> QED BY <1>0, <1>1, <1>3, <1>7, <1>8

\* cleanupExpiredLeases is calm and removes expired leases alone.
LEMMA CleanupCalm ==
  ASSUME NEW s, SoundIn(s)
  PROVE  /\ Calm(s, CleanupExpiredLeases(s))
         /\ OnlyExpired(s, CleanupExpiredLeases(s))
         /\ \A c \in Conns :
              SameSeat(s.clients[c], CleanupExpiredLeases(s).clients[c])
  <1>1. PICK t : t = CleanupExpiredLeases(s)
    OBVIOUS
  <1>2. s \in Servers /\ \A r \in RoomIds : RoomOK(s.rooms[r])
    BY DEF SoundIn, MembershipIn, RoomsIn
  <1>3. /\ \A r \in RoomIds : t.rooms[r] = CleanedRoom(s, r)
        /\ \A c \in Conns : /\ SameSeat(s.clients[c], t.clients[c])
                            /\ t.clients[c].told = s.clients[c].told \ Untold(s, c)
    BY <1>1, <1>2, CleanupExact
  <1>4. ASSUME NEW r \in RoomIds, NEW p \in PeerIds
        PROVE  /\ t.rooms[r].leases[p].token \in {0, s.rooms[r].leases[p].token}
               /\ s.rooms[r].leases[p].token # 0 /\ t.rooms[r].leases[p].token = 0
                    => Expired(s.rooms[r].leases[p])
               /\ t.rooms[r].leases[p].token # 0
                    => t.rooms[r].leases[p].vip = s.rooms[r].leases[p].vip
    <2>1. Cleaned(s, r, t.rooms[r])
      BY <1>2, <1>3, CleanedExact
    <2> QED BY <2>1 DEF Cleaned
  <1>5. FewerTokens(s, t) /\ OnlyExpired(s, t)
    BY <1>4 DEF FewerTokens, OnlyExpired
  <1>6. ASSUME NEW d \in Conns PROVE Subdued(s.clients[d], t.clients[d])
    BY <1>3 DEF SameSeat, SameIdentity, Subdued
  <1> QED BY <1>1, <1>3, <1>5, <1>6 DEF Calm

\* A lease that destroyClient marks offline starts its term anew, so what is
\* expired afterwards had expired before.
LEMMA DestroyExpires ==
  ASSUME NEW s \in Servers, NEW D, NEW r \in RoomIds, NEW p \in PeerIds,
         Expired(Destroy(s, D, FALSE).rooms[r].leases[p])
  PROVE  Expired(s.rooms[r].leases[p])
  <1>1. PICK clients, rooms, freed :
          /\ Destroy(s, D, FALSE) =
               [s EXCEPT !.clients = clients, !.peerMap = Unbound(s, D),
                         !.freePeerIds = freed, !.rooms = rooms]
          /\ rooms = [q \in RoomIds |-> DetachedRoom(s, D, q)]
    BY DEF Destroy
  <1>2. Destroy(s, D, FALSE).rooms = rooms
    BY <1>1 DEF Servers
  <1>3. Destroy(s, D, FALSE).rooms[r] = DetachedRoom(s, D, r)
    BY <1>1, <1>2
  <1> DEFINE Gone(q) == s.rooms[r].leases[q].token # 0 /\ Detaches(s, D, r, q)
             leases == [q \in PeerIds |->
                          IF Gone(q) THEN OfflineLease(s.rooms[r].leases[q])
                                     ELSE s.rooms[r].leases[q]]
  <1>4. DetachedRoom(s, D, r) = [s.rooms[r] EXCEPT !.leases = leases]
    BY DEF DetachedRoom, Detaches
  <1>5. DetachedRoom(s, D, r).leases = leases
    <2>1. s.rooms[r] \in Rooms
      BY DEF Servers
    <2> HIDE DEF leases
    <2> QED BY <1>4, <2>1 DEF Rooms
  <1>6. DetachedRoom(s, D, r).leases[p] \in
          {OfflineLease(s.rooms[r].leases[p]), s.rooms[r].leases[p]}
    BY <1>5
  <1>7. ~Expired(OfflineLease(s.rooms[r].leases[p]))
    BY LeaseAssumption DEF Expired, OfflineLease
  <1> QED BY <1>3, <1>6, <1>7

\* The properties of a step from server s to server t, with the credentials
\* issued so far.  A request that fails leaves no trace.
FailOK(s, t) ==
  \A c \in Conns :
    /\ s.clients[c].state \in {"LoggedIn", "AwaitRoomPassword"}
    /\ t.clients[c].state = "Absent"
    => /\ \A r \in RoomIds, p \in PeerIds : LeaseHeld(t, r, p) => LeaseHeld(s, r, p)
       /\ \A d \in Conns : t.clients[d].told \subseteq s.clients[d].told
       /\ \A r \in RoomIds : t.published[r].count <= s.published[r].count

\* Session x enters the room as session y on one of the four grounds.
Entitled(s, t, x, y, known) ==
  \/ t.rooms[y.roomId].key = 0
  \/ x.state = "LoggedIn" /\ s.rooms[y.roomId] = NoRoom
  \/ x.state = "AwaitRoomPassword" /\ x.pending.key = t.rooms[y.roomId].key
  \/ /\ x.state = "ResumePending" /\ x.resume \in known
     /\ x.resume.token = t.rooms[y.roomId].leases[y.peerId].token

\* Whoever enters is entitled to.
EntryOK(s, t, known) ==
  \A c \in Conns :
    s.clients[c].state # "InRoom" /\ t.clients[c].state = "InRoom"
      => Entitled(s, t, s.clients[c], t.clients[c], known)

\* Whoever waits to resume presents a credential that was issued, or has
\* waited with it before.
PendingOK(s, t, known) ==
  \A c \in Conns :
    t.clients[c].state = "ResumePending" =>
      \/ t.clients[c].resume \in known
      \/ /\ s.clients[c].state = "ResumePending"
         /\ t.clients[c].resume = s.clients[c].resume

\* All of them.
QuietOK(s, t, known) ==
  FailOK(s, t) /\ EntryOK(s, t, known) /\ PendingOK(s, t, known)

\* And, but for leaving and logging out, expired leases alone are lost.
StepOK(s, t, known) == OnlyExpired(s, t) /\ QuietOK(s, t, known)

\* A list that is current before and after a step that adds no lease shows no
\* room with more members.
LEMMA FewerListed ==
  ASSUME NEW s, NEW t, SoundIn(s), ListedIn(t), FewerTokens(s, t), NEW r \in RoomIds
  PROVE  t.published[r].count <= s.published[r].count
  <1>1. Holders(t.rooms[r]) \subseteq Holders(s.rooms[r])
    BY DEF FewerTokens, Holders
  <1>2. /\ s.published[r].count = Cardinality(Holders(s.rooms[r]))
        /\ t.published[r].count = Cardinality(Holders(t.rooms[r]))
    BY DEF SoundIn, ListedIn, Listing
  <1>3. IsFiniteSet(Holders(s.rooms[r]))
    BY HoldersFinite
  <1>4. Cardinality(Holders(t.rooms[r])) <= Cardinality(Holders(s.rooms[r]))
    BY <1>1, <1>3, FS_Subset
  <1> QED BY <1>2, <1>4

\* A calm step has the properties.
LEMMA CalmStep ==
  ASSUME NEW s, NEW t, NEW known, SoundIn(s), ListedIn(t), Calm(s, t)
  PROVE  /\ QuietOK(s, t, known)
         /\ OnlyExpired(s, t) => StepOK(s, t, known)
  <1>1. \A r \in RoomIds, p \in PeerIds : LeaseHeld(t, r, p) => LeaseHeld(s, r, p)
    BY DEF Calm, FewerTokens, LeaseHeld
  <1>2. \A r \in RoomIds : t.published[r].count <= s.published[r].count
    BY FewerListed DEF Calm
  <1>3. FailOK(s, t)
    BY <1>1, <1>2 DEF FailOK, Calm, Subdued
  <1>4. EntryOK(s, t, known)
    BY DEF EntryOK, Calm, Subdued
  <1>5. PendingOK(s, t, known)
    BY DEF PendingOK, Calm, Subdued
  <1> QED BY <1>3, <1>4, <1>5 DEF StepOK, QuietOK

\* A login that presents an issued credential.
LEMMA PendingStep ==
  ASSUME NEW s, NEW t, NEW known, SoundIn(s), ListedIn(t), NEW c \in Conns,
         CalmBut(s, t, c), KeepsTokens(s, t),
         t.clients[c].told \subseteq s.clients[c].told,
         t.clients[c].state = "ResumePending", t.clients[c].resume \in known
  PROVE  StepOK(s, t, known)
  <1>1. \A r \in RoomIds, p \in PeerIds : LeaseHeld(t, r, p) => LeaseHeld(s, r, p)
    BY DEF CalmBut, FewerTokens, LeaseHeld
  <1>2. \A r \in RoomIds : t.published[r].count <= s.published[r].count
    BY FewerListed DEF CalmBut
  <1>3. FailOK(s, t)
    BY <1>1, <1>2 DEF FailOK, CalmBut, Subdued
  <1>4. EntryOK(s, t, known)
    BY DEF EntryOK, CalmBut, Subdued
  <1>5. PendingOK(s, t, known)
    BY DEF PendingOK, CalmBut, Subdued
  <1>6. OnlyExpired(s, t)
    BY KeptTokens
  <1> QED BY <1>3, <1>4, <1>5, <1>6 DEF StepOK, QuietOK

\* A session enters a room.
LEMMA EnterStep ==
  ASSUME NEW s, NEW t, NEW known, NEW c \in Conns, OnlyExpired(s, t),
         \A d \in Conns \ {c} : SameIdentity(s.clients[d], t.clients[d]),
         t.clients[c].state = "InRoom",
         Entitled(s, t, s.clients[c], t.clients[c], known)
  PROVE  StepOK(s, t, known)
  <1>1. \A d \in Conns \ {c} : /\ t.clients[d].state = s.clients[d].state
                               /\ t.clients[d].resume = s.clients[d].resume
    BY DEF SameIdentity
  <1>2. FailOK(s, t)
    BY <1>1 DEF FailOK
  <1>3. EntryOK(s, t, known)
    BY <1>1 DEF EntryOK
  <1>4. PendingOK(s, t, known)
    BY <1>1 DEF PendingOK
  <1> QED BY <1>2, <1>3, <1>4 DEF StepOK, QuietOK

\* Every lease but those of peer p stays.
OthersKeep(s, t, p) ==
  \A r \in RoomIds, o \in PeerIds :
    o # p => /\ t.rooms[r].leases[o].token = s.rooms[r].leases[o].token
             /\ s.rooms[r].leases[o].token # 0
                  => t.rooms[r].leases[o].vip = s.rooms[r].leases[o].vip

\* The live session that gives up a lease of its peer is the one by which the
\* peer is reached.
LEMMA OwnSession ==
  ASSUME NEW s, SoundIn(s), NEW c \in Conns, s.clients[c].alive,
         s.clients[c].state \in IdentityStates
  PROVE  Live(s, s.clients[c].peerId) = c
  <1>1. PICK p : p = s.clients[c].peerId
    OBVIOUS
  <1>2. MembershipIn(s)
    BY DEF SoundIn
  <1>3. p # 0
    BY <1>1, <1>2 DEF MembershipIn, SessionShapeIn, Shaped
  <1>4. Owner(s, p) = c
    BY <1>1, <1>2, <1>3, NoConnAssumption DEF Owner, MembershipIn, IndexExactIn
  <1> QED BY <1>1, <1>4, NoConnAssumption DEF Live

\* A refused resumption loses at most the lease it asked for, which had expired.
LEMMA RefusedLoss ==
  ASSUME NEW s, SoundIn(s), NEW t, NEW c \in Conns,
         s.clients[c].state = "ResumePending",
         ~ValidateResumeLease(s, s.clients[c].resume),
         Parted(s, t, c, s.clients[c].peerId)
  PROVE  OnlyExpired(s, t)
  <1> SUFFICES ASSUME NEW r \in RoomIds, NEW o \in PeerIds,
                      s.rooms[r].leases[o].token # 0,
                      \/ t.rooms[r].leases[o].token # s.rooms[r].leases[o].token
                      \/ t.rooms[r].leases[o].vip # s.rooms[r].leases[o].vip
               PROVE  Expired(s.rooms[r].leases[o])
    BY DEF OnlyExpired
  <1>1. PICK x : x = s.clients[c]
    OBVIOUS
  <1>2. o = x.peerId
    BY <1>1 DEF Parted
  <1>3. /\ Fits(x, r, s.rooms[r].leases[o].token)
        /\ x.resume.peer = x.peerId /\ x.resume.token # 0
    BY <1>1, <1>2 DEF SoundIn, MembershipIn, SessionLeaseIn, SessionShapeIn, Shaped
  <1>4. x.resume.room = r /\ x.resume.token = s.rooms[r].leases[o].token
    BY <1>1, <1>3 DEF Fits
  <1> QED BY <1>1, <1>2, <1>3, <1>4 DEF ValidateResumeLease

\* Leaving, logging out and a refused resume are calm.
LEMMA PartedCalm ==
  ASSUME NEW s, NEW t, NEW c \in Conns, NEW p, Parted(s, t, c, p)
  PROVE  Calm(s, t)
  <1>1. FewerTokens(s, t)
    BY DEF Parted, FewerTokens
  <1>2. ASSUME NEW d \in Conns PROVE Subdued(s.clients[d], t.clients[d])
    <2>1. CASE d = c
      BY <2>1 DEF Parted, Subdued
    <2>2. CASE d # c
      BY <2>2 DEF Parted, Subdued, SameIdentity
    <2> QED BY <2>1, <2>2
  <1> QED BY <1>1, <1>2 DEF Calm

-----------------------------------------------------------------------------
(* The handlers *)

\* Entering a room keeps the leases of everyone else.
LEMMA EnteredKeeps ==
  ASSUME NEW s, NEW t, NEW c, NEW r \in RoomIds, NEW p, NEW token,
         Entered(s, t, c, r, p, token), s.rooms[r].leases[p].token = 0
  PROVE  KeepsTokens(s, t) /\ t.rooms[r].key = s.rooms[r].key
  <1> SUFFICES ASSUME NEW q \in RoomIds, NEW o \in PeerIds,
                      s.rooms[q].leases[o].token # 0
               PROVE  /\ t.rooms[q].leases[o].token = s.rooms[q].leases[o].token
                      /\ t.rooms[q].leases[o].vip = s.rooms[q].leases[o].vip
    BY DEF KeepsTokens, Entered, Added
  <1>1. CASE q = r
    BY <1>1 DEF Entered, Added
  <1>2. CASE q # r
    BY <1>2 DEF Entered
  <1> QED BY <1>1, <1>2

\* A session that enters a room it may be added to, and is answered.
LEMMA JoinedStep ==
  ASSUME NEW s, NEW c \in Conns, NEW r \in RoomIds, ReadyFor(s, c, r),
         NEW token \in Tokens, NEW p, p = s.clients[c].peerId,
         NEW t, t = EnterRoom(WithLease(s, r, p, token), c, r),
         NEW u, u \in {PushRoomList(t), PushRoomList(TellJoined(t, r, p))}
  PROVE  /\ KeepsTokens(s, u)
         /\ \A d \in Conns \ {c} : SameIdentity(s.clients[d], u.clients[d])
         /\ u.clients[c].state = "InRoom" /\ u.clients[c].roomId = r
         /\ u.rooms[r].key = s.rooms[r].key
  <1>1. MembershipIn(s) /\ s.clients[c].state = "LoggedIn"
        /\ CanAddLease(s.rooms[r], p)
    BY DEF ReadyFor
  <1>2. p \in PeerIds
    BY <1>1, LobbyPeer
  <1>3. s.rooms[r].leases[p].token = 0
    BY <1>1, <1>2 DEF CanAddLease, Holders
  <1>4. Entered(s, t, c, r, p, token)
    BY EnterExact
  <1>5. t \in Servers
    BY <1>4 DEF Entered, MembershipIn
  <1>6. KeepsTokens(s, t) /\ t.rooms[r].key = s.rooms[r].key
    BY <1>3, <1>4, EnteredKeeps
  <1>7. /\ \A d \in Conns \ {c} : t.clients[d] = s.clients[d]
        /\ t.clients[c].state = "InRoom" /\ t.clients[c].roomId = r
    BY <1>4 DEF Entered
  <1>8. PICK v : v \in {t, TellJoined(t, r, p)} /\ u = PushRoomList(v)
    OBVIOUS
  <1>9. /\ v \in Servers /\ v.rooms = t.rooms
        /\ \A d \in Conns : SameIdentity(t.clients[d], v.clients[d])
    <2>1. CASE v = t
      BY <1>5, <2>1 DEF SameIdentity
    <2>2. CASE v = TellJoined(t, r, p)
      <3>1. v \in Servers /\ v.rooms = t.rooms
        BY <1>2, <1>5, <2>2, TellJoinedExact
      <3>2. \A d \in Conns : SameSeat(t.clients[d], v.clients[d])
        BY <1>2, <1>5, <2>2, TellJoinedExact, Zenon
      <3> QED BY <3>1, <3>2 DEF SameSeat
    <2> QED BY <1>8, <2>1, <2>2
  <1>10. u.rooms = v.rooms /\ u.clients = v.clients
    BY <1>8, <1>9, PushExact
  <1>11. KeepsTokens(s, u) /\ u.rooms[r].key = s.rooms[r].key
    BY <1>6, <1>9, <1>10 DEF KeepsTokens
  <1> QED BY <1>7, <1>9, <1>10, <1>11, SMTT(30) DEF SameIdentity

\* A session that enters a room and cannot be answered leaves no trace.
LEMMA RollbackStep ==
  ASSUME NEW s, NEW c \in Conns, NEW r \in RoomIds, ReadyFor(s, c, r),
         NEW token \in Tokens, NEW p, p = s.clients[c].peerId,
         NEW t, t = EnterRoom(WithLease(s, r, p, token), c, r),
         SoundIn(RollbackNewMembership(t, c)),
         NEW u, u = Destroy(RollbackNewMembership(t, c), {c}, FALSE)
  PROVE  Calm(s, u) /\ KeepsTokens(s, u)
  <1>1. PICK v : v = RollbackNewMembership(t, c)
    OBVIOUS
  <1>2. /\ Undone(s, v, r)
        /\ NoneNew(s, v)
        /\ \A d \in Conns \ {c} : v.clients[d] = s.clients[d]
    <2>1. Undone(s, v, r)
      BY <1>1, RollbackSound
    <2>2. NoneNew(s, v)
      BY <1>1, RollbackSound
    <2>3. \A d \in Conns \ {c} : v.clients[d] = s.clients[d]
      BY <1>1, RollbackSound, SMTT(30)
    <2> QED BY <2>1, <2>2, <2>3
  <1>3. CalmBut(s, v, c)
    BY <1>2 DEF CalmBut, FewerTokens, NoneNew, Subdued
  <1>4. Calm(s, u) /\ SameTokens(v, u)
    BY <1>1, <1>3, EndCalm
  <1>5. ASSUME NEW q \in RoomIds, NEW o \in PeerIds, s.rooms[q].leases[o].token # 0
        PROVE  /\ v.rooms[q].leases[o].token = s.rooms[q].leases[o].token
               /\ v.rooms[q].leases[o].vip = s.rooms[q].leases[o].vip
    <2>1. Holders(v.rooms[q]) = Holders(s.rooms[q])
      BY <1>2 DEF Undone
    <2>2. o \in Holders(v.rooms[q])
      BY <1>5, <2>1 DEF Holders
    <2> QED BY <1>2, <2>2 DEF Holders, NoneNew
  <1>6. KeepsTokens(s, u)
    <2> SUFFICES ASSUME NEW q \in RoomIds, NEW o \in PeerIds,
                        s.rooms[q].leases[o].token # 0
                 PROVE  /\ u.rooms[q].leases[o].token = s.rooms[q].leases[o].token
                        /\ u.rooms[q].leases[o].vip = s.rooms[q].leases[o].vip
      BY DEF KeepsTokens
    <2>1. /\ v.rooms[q].leases[o].token = s.rooms[q].leases[o].token
          /\ v.rooms[q].leases[o].vip = s.rooms[q].leases[o].vip
      BY <1>5
    <2>2. /\ u.rooms[q].leases[o].token = v.rooms[q].leases[o].token
          /\ v.rooms[q].leases[o].token # 0
               => u.rooms[q].leases[o].vip = v.rooms[q].leases[o].vip
      BY <1>4 DEF SameTokens
    <2> QED BY <2>1, <2>2
  <1> QED BY <1>4, <1>6

\* A handler whose answer is sent or ends the session.
LEMMA RespondStep ==
  ASSUME NEW s, NEW t, NEW known, NEW c \in Conns, SoundIn(s), SoundIn(t),
         CalmBut(s, t, c), OnlyExpired(s, t), StepOK(s, t, known),
         NEW sent \in BOOLEAN, NEW u, u = IF sent THEN t ELSE Destroy(t, {c}, FALSE)
  PROVE  StepOK(s, u, known)
  <1>1. CASE sent
    BY <1>1
  <1>2. CASE ~sent
    <2>1. u = Destroy(t, {c}, FALSE)
      BY <1>2
    <2>2. Calm(s, u) /\ SameTokens(t, u)
      BY <2>1, EndCalm
    <2>3. SoundIn(u)
      BY <2>1, EndSound
    <2>4. OnlyExpired(s, u)
      BY <2>2, KeptTokens, ExpiredTrans
    <2> QED BY <2>2, <2>3, <2>4, CalmStep DEF SoundIn
  <1> QED BY <1>1, <1>2

\* A login with or without a credential.
LEMMA LoginStep ==
  ASSUME SoundInv, NEW c \in Conns, NEW cred,
         \/ OnLoginFresh(c, cred)
         \/ cred \in issued /\ OnLoginResume(c, cred)
  PROVE  StepOK(srv, srv', issued)
  <1>0. SoundIn(srv)
    BY DEF SoundInv
  <1>1. CASE OnLoginFresh(c, cred)
    <2>1. srv.clients[c].state = "AwaitLogin" /\ CanAllocatePeerId(srv)
      BY <1>1 DEF OnLoginFresh, Dispatch
    <2>2. PICK t : t = FreshLogin(srv, c)
      OBVIOUS
    <2>3. /\ SoundIn(t) /\ t.rooms = srv.rooms
          /\ t.clients[c].state = "LoggedIn"
          /\ t.clients[c].told = srv.clients[c].told
          /\ \A d \in Conns \ {c} : t.clients[d] = srv.clients[d]
      BY <1>0, <2>1, <2>2, FreshLoginSound
    <2>4. SameTokens(srv, t)
      BY <2>3 DEF SameTokens
    <2>5. \A d \in Conns : Subdued(srv.clients[d], t.clients[d])
      BY <2>3 DEF Subdued
    <2>6. Calm(srv, t) /\ CalmBut(srv, t, c) /\ OnlyExpired(srv, t)
      BY <2>4, <2>5, KeptTokens DEF Calm, CalmBut
    <2>7. StepOK(srv, t, issued)
      BY <1>0, <2>3, <2>6, CalmStep DEF SoundIn
    <2>8. PICK sent \in BOOLEAN : Respond(c, sent, FreshLogin(srv, c))
      BY <1>1 DEF OnLoginFresh
    <2>9. srv' = IF sent THEN t ELSE Destroy(t, {c}, FALSE)
      BY <2>2, <2>8 DEF Respond
    <2> QED BY <1>0, <2>3, <2>6, <2>7, <2>9, RespondStep
  <1>2. CASE cred \in issued /\ OnLoginResume(c, cred)
    <2>1. srv.clients[c].state = "AwaitLogin" /\ ValidateResumeLease(srv, cred)
      BY <1>2 DEF OnLoginResume, Dispatch
    <2>2. /\ cred \in Credentials
          /\ cred.room # 0 /\ cred.peer # 0 /\ cred.token # 0
      BY <1>2 DEF SoundInv, MembershipInv, TypeOK, CredentialsOK
    <2>3. PICK t : t = ResumeLogin(srv, c, cred)
      OBVIOUS
    <2>4. /\ SoundIn(t) /\ SameTokens(srv, t)
          /\ t.clients[c].state = "ResumePending"
          /\ t.clients[c].resume = cred
          /\ t.clients[c].told = srv.clients[c].told
          /\ \A d \in Conns \ {c} : t.clients[d] \in {srv.clients[d], NoSession}
      BY <1>0, <2>1, <2>2, <2>3, ResumeLoginSound
    <2>5. NoSession.told = {} /\ NoSession.state = "Absent"
      BY DEF NoSession
    <2>6. \A d \in Conns \ {c} : Subdued(srv.clients[d], t.clients[d])
      BY <2>4, <2>5 DEF Subdued
    <2>7. CalmBut(srv, t, c) /\ KeepsTokens(srv, t) /\ OnlyExpired(srv, t)
      BY <2>4, <2>6, KeptTokens DEF CalmBut
    <2>8. StepOK(srv, t, issued)
      BY <1>0, <1>2, <2>4, <2>7, PendingStep DEF SoundIn
    <2>9. PICK sent \in BOOLEAN : Respond(c, sent, ResumeLogin(srv, c, cred))
      BY <1>2 DEF OnLoginResume
    <2>10. srv' = IF sent THEN t ELSE Destroy(t, {c}, FALSE)
      BY <2>3, <2>9 DEF Respond
    <2> QED BY <1>0, <2>4, <2>7, <2>8, <2>10, RespondStep
  <1> QED BY <1>1, <1>2

\* CREATE_ROOM.
LEMMA CreateStep ==
  ASSUME SoundInv, NEW c \in Conns, NEW max \in Capacities,
         NEW protected \in BOOLEAN, OnCreateRoom(c, max, protected)
  PROVE  StepOK(srv, srv', issued)
  <1>1. PICK p, r, key : /\ p = srv.clients[c].peerId /\ r = NextRoomId(srv)
                         /\ key = IF protected THEN nextToken ELSE 0
    OBVIOUS
  <1>2. SoundIn(srv) /\ nextToken \in 1 .. (MaxToken + 1)
    BY DEF SoundInv, MembershipInv, TypeOK
  <1>3. srv.clients[c].state = "LoggedIn" /\ r <= MaxRoomId /\ nextToken \in Tokens
    BY <1>1, <1>2, BoundsAssumption DEF OnCreateRoom, Dispatch, Tokens
  <1>4. key \in 0 .. MaxToken
    BY <1>1, <1>3, BoundsAssumption DEF Tokens
  <1>5. PICK token \in Tokens : token = nextToken
    BY <1>3
  <1>6. PICK n : n = NewRoom(srv, r, p, max, key)
    OBVIOUS
  <1>7. PICK t : t = EnterRoom(WithLease(n, r, p, token), c, r)
    OBVIOUS
  <1>8. \/ srv' = PushRoomList(t)
        \/ srv' = Destroy(RollbackNewMembership(t, c), {c}, FALSE)
    BY <1>1, <1>5, <1>6, <1>7 DEF OnCreateRoom
  <1>9. /\ r \in RoomIds /\ srv.rooms[r] = NoRoom
        /\ ReadyFor(n, c, r)
        /\ Holders(n.rooms[r]) = {}
        /\ n.clients = srv.clients
        /\ \A q \in RoomIds \ {r} : n.rooms[q] = srv.rooms[q]
    <2>1. p = srv.clients[c].peerId /\ r = NextRoomId(srv)
      BY <1>1
    <2>2. r \in RoomIds /\ srv.rooms[r] = NoRoom
      BY <1>2, <1>3, <1>4, <1>6, <2>1, NewRoomReady
    <2>5. ReadyFor(n, c, r)
      BY <1>2, <1>3, <1>4, <1>6, <2>1, NewRoomReady
    <2>6. Holders(n.rooms[r]) = {}
      BY <1>2, <1>3, <1>4, <1>6, <2>1, NewRoomReady
    <2>3. n.clients = srv.clients
      BY <1>2, <1>3, <1>4, <1>6, <2>1, NewRoomReady
    <2>4. \A q \in RoomIds \ {r} : n.rooms[q] = srv.rooms[q]
      BY <1>2, <1>3, <1>4, <1>6, <2>1, NewRoomReady
    <2> QED BY <2>2, <2>3, <2>4, <2>5, <2>6
  <1>10. SameTokens(srv, n)
    <2>1. \A o \in PeerIds : n.rooms[r].leases[o].token = 0
      BY <1>9 DEF Holders
    <2>2. \A o \in PeerIds : srv.rooms[r].leases[o].token = 0
      BY <1>9, NoRoomOK DEF Holders
    <2> QED BY <1>9, <2>1, <2>2 DEF SameTokens
  <1>11. Calm(srv, n) /\ OnlyExpired(srv, n)
    <2>1. \A d \in Conns : Subdued(srv.clients[d], n.clients[d])
      BY <1>9 DEF Subdued
    <2> QED BY <1>10, <2>1, KeptTokens DEF Calm
  <1>12. p = n.clients[c].peerId
    BY <1>1, <1>9
  <1>13. CASE srv' = PushRoomList(t)
    <2>1. PICK u : u = PushRoomList(t)
      OBVIOUS
    <2>2. u \in {PushRoomList(t), PushRoomList(TellJoined(t, r, p))}
      BY <2>1
    <2>3. /\ KeepsTokens(n, u)
          /\ \A d \in Conns \ {c} : SameIdentity(n.clients[d], u.clients[d])
          /\ u.clients[c].state = "InRoom" /\ u.clients[c].roomId = r
      BY <1>7, <1>9, <1>12, <2>2, JoinedStep
    <2>4. OnlyExpired(srv, u)
      BY <1>11, <2>3, ExpiredTrans
    <2>5. Entitled(srv, u, srv.clients[c], u.clients[c], issued)
      BY <1>3, <1>9, <2>3 DEF Entitled
    <2>6. \A d \in Conns \ {c} : SameIdentity(srv.clients[d], u.clients[d])
      BY <1>9, <2>3
    <2>7. StepOK(srv, u, issued)
      BY <2>3, <2>4, <2>5, <2>6, EnterStep
    <2> QED BY <1>13, <2>1, <2>7
  <1>14. CASE srv' = Destroy(RollbackNewMembership(t, c), {c}, FALSE)
    <2>1. PICK u : u = Destroy(RollbackNewMembership(t, c), {c}, FALSE)
      OBVIOUS
    <2>2. SoundIn(RollbackNewMembership(t, c))
      BY <1>1, <1>2, <1>3, <1>4, <1>6, <1>7, CreateSound
    <2>3. Calm(n, u) /\ KeepsTokens(n, u)
      BY <1>7, <1>9, <1>12, <2>1, <2>2, RollbackStep
    <2>4. Calm(srv, u) /\ OnlyExpired(srv, u)
      BY <1>11, <2>3, CalmTrans, ExpiredTrans
    <2>5. SoundIn(u)
      BY <2>1, <2>2, EndSound
    <2>6. StepOK(srv, u, issued)
      BY <1>2, <2>4, <2>5, CalmStep DEF SoundIn
    <2> QED BY <1>14, <2>1, <2>6
  <1> QED BY <1>8, <1>13, <1>14

\* The sessions of all connections but c keep their identity, state and room.
SameOthers(s, t, c) ==
  \A d \in Conns \ {c} : SameIdentity(s.clients[d], t.clients[d])

\* Session x may enter the room: it asks for no password, or x has answered the
\* challenge for the very password of the room.
MayEnter(x, room) ==
  \/ room.key = 0
  \/ x.state = "AwaitRoomPassword" /\ x.pending.key = room.key

\* From server old, server s has been reached on the way to admitting c to r.
Admits(old, s, c, r) ==
  /\ SoundIn(old) /\ SoundIn(s)
  /\ Calm(old, s) /\ OnlyExpired(old, s) /\ SameOthers(old, s, c)
  /\ s.clients[c].state = "LoggedIn"
  /\ s.rooms[r] # NoRoom /\ CanAddLease(s.rooms[r], s.clients[c].peerId)
  /\ MayEnter(old.clients[c], s.rooms[r])

\* completeJoin, in a room that asks for no password or whose password the
\* session has proved.
LEMMA AdmittedStep ==
  ASSUME NEW old, NEW s, NEW c \in Conns, NEW r \in RoomIds, Admits(old, s, c, r),
         nextToken \in 1 .. (MaxToken + 1), CompleteJoin(s, c, r)
  PROVE  StepOK(old, srv', issued)
  <1>0. /\ SoundIn(old) /\ SoundIn(s)
        /\ Calm(old, s) /\ OnlyExpired(old, s) /\ SameOthers(old, s, c)
        /\ s.clients[c].state = "LoggedIn"
        /\ s.rooms[r] # NoRoom /\ CanAddLease(s.rooms[r], s.clients[c].peerId)
        /\ MayEnter(old.clients[c], s.rooms[r])
    BY DEF Admits
  <1>1. PICK p : p = s.clients[c].peerId
    OBVIOUS
  <1>2. nextToken \in Tokens
    BY BoundsAssumption DEF CompleteJoin, Tokens
  <1>3. PICK token \in Tokens : token = nextToken
    BY <1>2
  <1>4. PICK t : t = EnterRoom(WithLease(s, r, p, token), c, r)
    OBVIOUS
  <1>5. \/ srv' = PushRoomList(TellJoined(t, r, p))
        \/ srv' = Destroy(RollbackNewMembership(t, c), {c}, FALSE)
    BY <1>1, <1>3, <1>4 DEF CompleteJoin
  <1>6. ReadyFor(s, c, r)
    BY <1>0, JoinReady
  <1>7. CASE srv' = PushRoomList(TellJoined(t, r, p))
    <2>1. PICK u : u = PushRoomList(TellJoined(t, r, p))
      OBVIOUS
    <2>2. u \in {PushRoomList(t), PushRoomList(TellJoined(t, r, p))}
      BY <2>1
    <2>3. /\ KeepsTokens(s, u)
          /\ \A d \in Conns \ {c} : SameIdentity(s.clients[d], u.clients[d])
          /\ u.clients[c].state = "InRoom" /\ u.clients[c].roomId = r
          /\ u.rooms[r].key = s.rooms[r].key
      BY <1>1, <1>4, <1>6, <2>2, JoinedStep
    <2>4. OnlyExpired(old, u)
      BY <1>0, <2>3, ExpiredTrans
    <2>5. Entitled(old, u, old.clients[c], u.clients[c], issued)
      BY <1>0, <2>3 DEF Entitled, MayEnter
    <2>6. \A d \in Conns \ {c} : SameIdentity(old.clients[d], u.clients[d])
      BY <1>0, <2>3 DEF SameIdentity, SameOthers
    <2>7. StepOK(old, u, issued)
      BY <2>3, <2>4, <2>5, <2>6, EnterStep
    <2> QED BY <1>7, <2>1, <2>7
  <1>8. CASE srv' = Destroy(RollbackNewMembership(t, c), {c}, FALSE)
    <2>1. PICK u : u = Destroy(RollbackNewMembership(t, c), {c}, FALSE)
      OBVIOUS
    <2>2. SoundIn(RollbackNewMembership(t, c))
      BY <1>0, <1>1, <1>4, EntrySound
    <2>3. Calm(s, u) /\ KeepsTokens(s, u)
      BY <1>0, <1>1, <1>4, <1>6, <2>1, <2>2, RollbackStep
    <2>4. Calm(old, u) /\ OnlyExpired(old, u)
      BY <1>0, <2>3, CalmTrans, ExpiredTrans
    <2>5. SoundIn(u)
      BY <2>1, <2>2, EndSound
    <2>6. StepOK(old, u, issued)
      BY <1>0, <2>4, <2>5, CalmStep DEF SoundIn
    <2> QED BY <1>8, <2>1, <2>6
  <1> QED BY <1>5, <1>7, <1>8

\* Replacing a session by one that is subdued, on a server whose list is
\* current.
LEMMA SessionCalm ==
  ASSUME NEW s \in Servers, NEW c \in Conns, NEW y \in Sessions,
         Subdued(s.clients[c], y)
  PROVE  /\ Calm(s, WithSession(s, c, y))
         /\ KeepsTokens(s, WithSession(s, c, y))
  <1>1. PICK t : t = WithSession(s, c, y)
    OBVIOUS
  <1>2. t.rooms = s.rooms /\ t.clients[c] = y
        /\ \A d \in Conns \ {c} : t.clients[d] = s.clients[d]
    BY <1>1, SetSessionExact
  <1>3. SameTokens(s, t)
    BY <1>2 DEF SameTokens
  <1>4. ASSUME NEW d \in Conns PROVE Subdued(s.clients[d], t.clients[d])
    <2>1. CASE d = c
      BY <1>2, <2>1
    <2>2. CASE d # c
      BY <1>2, <2>2 DEF Subdued
    <2> QED BY <2>1, <2>2
  <1> QED BY <1>1, <1>3, <1>4, KeptTokens DEF Calm

\* JOIN_ROOM.
LEMMA JoinStep ==
  ASSUME SoundInv, NEW c \in Conns, NEW r \in RoomIds, OnJoinRoom(c, r)
  PROVE  StepOK(srv, srv', issued)
  <1>1. PICK s : s = CleanupExpiredLeases(srv)
    OBVIOUS
  <1>2. SoundIn(srv) /\ nextToken \in 1 .. (MaxToken + 1)
    BY DEF SoundInv, MembershipInv, TypeOK
  <1>3. SoundIn(s) /\ MembershipIn(s) /\ s \in Servers
    BY <1>1, <1>2, CleanupSound DEF SoundIn, MembershipIn
  <1>4. /\ Calm(srv, s) /\ OnlyExpired(srv, s)
        /\ \A d \in Conns : SameIdentity(srv.clients[d], s.clients[d])
    BY <1>1, <1>2, CleanupCalm DEF SameSeat
  <1>5. s.clients[c].state = "LoggedIn" /\ s.clients[c].peerId = srv.clients[c].peerId
    BY <1>4 DEF OnJoinRoom, Dispatch, SameIdentity
  <1>y. PICK y : y = Challenged(s, c, r)
    OBVIOUS
  <1>6. /\ y \in Sessions /\ Shaped(y) /\ y.state = "AwaitRoomPassword"
        /\ y.peerId = s.clients[c].peerId
        /\ y.told = s.clients[c].told
    BY <1>3, <1>5, <1>y, ChallengedSession
  <1>7. \/ srv' = s
        \/ \E sent \in BOOLEAN : Respond(c, sent, WithSession(s, c, y))
        \/ /\ s.rooms[r] # NoRoom /\ s.rooms[r].key = 0
           /\ CanAddLease(s.rooms[r], srv.clients[c].peerId)
           /\ CompleteJoin(s, c, r)
    BY <1>1, <1>y DEF OnJoinRoom, WithSession, Challenged
  <1>8. CASE srv' = s
    BY <1>2, <1>3, <1>4, <1>8, CalmStep DEF SoundIn
  <1>9. CASE \E sent \in BOOLEAN : Respond(c, sent, WithSession(s, c, y))
    <2>1. PICK t : t = WithSession(s, c, y)
      OBVIOUS
    <2>2. s.clients[c].state \notin {"InRoom", "ResumePending"} /\ y.state # "InRoom"
      BY <1>5, <1>6
    <2>3. SoundIn(t)
      BY <1>3, <1>6, <2>1, <2>2, StateSound
    <2>4. Subdued(s.clients[c], y)
      BY <1>6 DEF Subdued
    <2>5. Calm(s, t) /\ KeepsTokens(s, t)
      BY <1>3, <1>6, <2>1, <2>4, SessionCalm
    <2>6. Calm(srv, t) /\ OnlyExpired(srv, t)
      BY <1>4, <2>5, CalmTrans, ExpiredTrans
    <2>7. CalmBut(srv, t, c) /\ StepOK(srv, t, issued)
      BY <1>2, <2>3, <2>6, CalmStep DEF SoundIn, Calm, CalmBut
    <2>8. PICK sent \in BOOLEAN : srv' = IF sent THEN t ELSE Destroy(t, {c}, FALSE)
      BY <1>9, <2>1 DEF Respond
    <2> QED BY <1>2, <2>3, <2>6, <2>7, <2>8, RespondStep
  <1>10. CASE /\ s.rooms[r] # NoRoom /\ s.rooms[r].key = 0
              /\ CanAddLease(s.rooms[r], srv.clients[c].peerId)
              /\ CompleteJoin(s, c, r)
    <2>1. CanAddLease(s.rooms[r], s.clients[c].peerId)
      BY <1>5, <1>10
    <2>2. SameOthers(srv, s, c) /\ MayEnter(srv.clients[c], s.rooms[r])
      BY <1>4, <1>10 DEF SameOthers, MayEnter
    <2>3. Admits(srv, s, c, r)
      BY <1>2, <1>3, <1>4, <1>5, <1>10, <2>1, <2>2 DEF Admits
    <2> QED BY <1>2, <1>10, <2>3, AdmittedStep
  <1> QED BY <1>7, <1>8, <1>9, <1>10

\* The answer to a password challenge.
LEMMA AuthStep ==
  ASSUME SoundInv, NEW c \in Conns, NEW knows \in BOOLEAN, OnAuthResponse(c, knows)
  PROVE  StepOK(srv, srv', issued)
  <1>1. PICK s, r : s = CleanupExpiredLeases(srv) /\ r = srv.clients[c].pending.room
    OBVIOUS
  <1>2. /\ SoundIn(srv) /\ nextToken \in 1 .. (MaxToken + 1)
        /\ srv.clients[c] \in Sessions /\ Shaped(srv.clients[c])
        /\ srv.clients[c].state = "AwaitRoomPassword"
    BY DEF SoundInv, MembershipInv, TypeOK, MembershipIn, SessionShapeIn, Servers,
           OnAuthResponse, Dispatch
  <1>3. SoundIn(s) /\ MembershipIn(s) /\ s \in Servers
    BY <1>1, <1>2, CleanupSound DEF SoundIn, MembershipIn
  <1>4. /\ Calm(srv, s) /\ OnlyExpired(srv, s)
        /\ \A d \in Conns : SameIdentity(srv.clients[d], s.clients[d])
    BY <1>1, <1>2, CleanupCalm DEF SameSeat
  <1>5. /\ s.clients[c].state = "AwaitRoomPassword"
        /\ s.clients[c].peerId = srv.clients[c].peerId
    BY <1>2, <1>4 DEF SameIdentity
  <1>6. r \in RoomIds
    <2>1. r # 0
      BY <1>1, <1>2 DEF Shaped
    <2> QED BY <1>1, <1>2, <2>1, BoundsAssumption DEF Sessions, RoomIds
  <1>y. PICK y : y = Answered(s, c)
    OBVIOUS
  <1>7. /\ y \in Sessions /\ Shaped(y) /\ y.state = "LoggedIn"
        /\ y.peerId = s.clients[c].peerId
        /\ y.told = s.clients[c].told
    BY <1>3, <1>5, <1>y, AnsweredSession
  <1>8. \/ srv' = WithSession(s, c, y)
        \/ /\ s.rooms[r] # NoRoom /\ CanAddLease(s.rooms[r], srv.clients[c].peerId)
           /\ s.rooms[r].key = srv.clients[c].pending.key
           /\ CompleteJoin(WithSession(s, c, y), c, r)
    BY <1>1, <1>y DEF OnAuthResponse, WithSession, Answered, ProvesKey
  <1>9. PICK t : t = WithSession(s, c, y)
    OBVIOUS
  <1>10. SoundIn(t)
    <2>1. s.clients[c].state \notin {"InRoom", "ResumePending"} /\ y.state # "InRoom"
      BY <1>5, <1>7
    <2> QED BY <1>3, <1>7, <1>9, <2>1, StateSound
  <1>11. t.clients[c] = y /\ t.rooms = s.rooms
         /\ \A d \in Conns \ {c} : t.clients[d] = s.clients[d]
    BY <1>3, <1>7, <1>9, SetSessionExact
  <1>12. Calm(srv, t) /\ OnlyExpired(srv, t)
    <2>1. Subdued(s.clients[c], y)
      BY <1>7 DEF Subdued
    <2>2. Calm(s, t) /\ KeepsTokens(s, t)
      BY <1>3, <1>7, <1>9, <2>1, SessionCalm
    <2> QED BY <1>4, <2>2, CalmTrans, ExpiredTrans
  <1>13. CASE srv' = t
    BY <1>2, <1>10, <1>12, <1>13, CalmStep DEF SoundIn
  <1>14. CASE /\ s.rooms[r] # NoRoom /\ CanAddLease(s.rooms[r], srv.clients[c].peerId)
              /\ s.rooms[r].key = srv.clients[c].pending.key
              /\ CompleteJoin(t, c, r)
    <2>1. /\ t.clients[c].state = "LoggedIn" /\ t.rooms[r] # NoRoom
          /\ CanAddLease(t.rooms[r], t.clients[c].peerId)
      BY <1>5, <1>7, <1>11, <1>14
    <2>2. SameOthers(srv, t, c)
      BY <1>4, <1>11 DEF SameOthers
    <2>3. MayEnter(srv.clients[c], t.rooms[r])
      BY <1>2, <1>11, <1>14 DEF MayEnter
    <2>4. Admits(srv, t, c, r)
      BY <1>2, <1>10, <1>12, <2>1, <2>2, <2>3 DEF Admits
    <2> QED BY <1>2, <1>6, <1>14, <2>4, AdmittedStep
  <1> QED BY <1>8, <1>9, <1>13, <1>14

\* A session that waits to resume presents a credential the server has issued.
PendingIssued ==
  \A c \in Conns : srv.clients[c].state = "ResumePending"
                     => srv.clients[c].resume \in issued

\* A lease given up by its own session, which may end with the handler.
LEMMA GivenUpStep ==
  ASSUME NEW s, NEW t, NEW known, SoundIn(s), SoundIn(t), NEW c \in Conns,
         Parted(s, t, c, s.clients[c].peerId),
         NEW sent \in BOOLEAN, NEW u, u = IF sent THEN t ELSE Destroy(t, {c}, FALSE)
  PROVE  QuietOK(s, u, known) /\ OthersKeep(s, u, s.clients[c].peerId)
  <1>1. PICK p : p = s.clients[c].peerId
    OBVIOUS
  <1>2. Calm(s, t)
    BY PartedCalm
  <1>3. OthersKeep(s, t, p)
    BY <1>1 DEF Parted, OthersKeep
  <1>4. CASE sent
    BY <1>1, <1>2, <1>3, <1>4, CalmStep DEF SoundIn
  <1>5. CASE ~sent
    <2>1. u = Destroy(t, {c}, FALSE)
      BY <1>5
    <2>2. CalmBut(s, t, c)
      BY <1>2 DEF Calm, CalmBut
    <2>3. Calm(s, u) /\ SameTokens(t, u)
      BY <2>1, <2>2, EndCalm
    <2>4. SoundIn(u)
      BY <2>1, EndSound
    <2>5. OthersKeep(s, u, p)
      BY <1>3, <2>3 DEF SameTokens, OthersKeep
    <2> QED BY <1>1, <2>3, <2>4, <2>5, CalmStep DEF SoundIn
  <1> QED BY <1>4, <1>5

\* RESUME_ROOM.
LEMMA ResumeStep ==
  ASSUME SoundInv, PendingIssued, NEW c \in Conns, OnResumeRoom(c)
  PROVE  StepOK(srv, srv', issued)
  <1>0. SoundIn(srv)
    BY DEF SoundInv
  <1>1. PICK x : x = srv.clients[c]
    OBVIOUS
  <1>2. srv.clients[c].state = "ResumePending" /\ srv.clients[c].alive
    BY DEF OnResumeRoom, Dispatch
  <1>3. \/ /\ ValidateResumeLease(srv, srv.clients[c].resume)
           /\ \E sent \in BOOLEAN : Respond(c, sent, Resumed(srv, c))
        \/ /\ ~ValidateResumeLease(srv, srv.clients[c].resume)
           /\ srv' = PushRoomList(Depart(ToLobby(srv, c), x.resume.room, x.resume.peer))
        \/ /\ ~ValidateResumeLease(srv, srv.clients[c].resume)
           /\ srv' = ToLobby(srv, c)
           /\ srv.rooms[x.resume.room].leases[x.resume.peer].token # x.resume.token
    BY <1>1 DEF OnResumeRoom, ToLobby, LobbySession, WithSession
  <1>4. CASE /\ ValidateResumeLease(srv, srv.clients[c].resume)
             /\ \E sent \in BOOLEAN : Respond(c, sent, Resumed(srv, c))
    <2>1. PICK t : t = Resumed(srv, c)
      OBVIOUS
    <2>2. /\ SoundIn(t) /\ SameTokens(srv, t)
          /\ t.clients[c].state = "InRoom"
          /\ t.clients[c].roomId = srv.clients[c].resume.room
          /\ t.clients[c].peerId = srv.clients[c].resume.peer
          /\ \A d \in Conns \ {c} : t.clients[d] = srv.clients[d]
      BY <1>0, <1>2, <1>4, <2>1, ResumedSound
    <2>3. CalmBut(srv, t, c) /\ OnlyExpired(srv, t)
      <3>1. \A d \in Conns \ {c} : Subdued(srv.clients[d], t.clients[d])
        BY <2>2 DEF Subdued
      <3> QED BY <2>2, <3>1, KeptTokens DEF CalmBut
    <2>4. \A d \in Conns \ {c} : SameIdentity(srv.clients[d], t.clients[d])
      BY <2>2 DEF SameIdentity
    <2>5. Entitled(srv, t, srv.clients[c], t.clients[c], issued)
      <3>1. t.clients[c].roomId \in RoomIds /\ t.clients[c].peerId \in PeerIds
        BY <2>2, SeatPlace DEF SoundIn
      <3>2. srv.rooms[t.clients[c].roomId].leases[t.clients[c].peerId].token
              = srv.clients[c].resume.token
        BY <1>4, <2>2 DEF ValidateResumeLease
      <3>3. t.rooms[t.clients[c].roomId].leases[t.clients[c].peerId].token
              = srv.clients[c].resume.token
        BY <2>2, <3>1, <3>2 DEF SameTokens
      <3>4. srv.clients[c].resume \in issued
        BY <1>2 DEF PendingIssued
      <3> QED BY <1>2, <3>3, <3>4 DEF Entitled
    <2>6. StepOK(srv, t, issued)
      BY <2>2, <2>3, <2>4, <2>5, EnterStep
    <2>7. PICK sent \in BOOLEAN : srv' = IF sent THEN t ELSE Destroy(t, {c}, FALSE)
      BY <1>4, <2>1 DEF Respond
    <2> QED BY <1>0, <2>2, <2>3, <2>6, <2>7, RespondStep
  <1>5. CASE /\ ~ValidateResumeLease(srv, srv.clients[c].resume)
             /\ srv' = PushRoomList(Depart(ToLobby(srv, c), x.resume.room, x.resume.peer))
    <2>1. SoundIn(srv') /\ Parted(srv, srv', c, srv.clients[c].peerId)
      BY <1>0, <1>1, <1>2, <1>5, RefusedSound
    <2>2. OnlyExpired(srv, srv') /\ Calm(srv, srv')
      BY <1>0, <1>2, <1>5, <2>1, RefusedLoss, PartedCalm
    <2> QED BY <1>0, <2>1, <2>2, CalmStep DEF SoundIn
  <1>6. CASE /\ ~ValidateResumeLease(srv, srv.clients[c].resume)
             /\ srv' = ToLobby(srv, c)
             /\ srv.rooms[x.resume.room].leases[x.resume.peer].token # x.resume.token
    <2>1. SoundIn(srv') /\ Parted(srv, srv', c, srv.clients[c].peerId)
      BY <1>0, <1>1, <1>2, <1>6, RefusedSound
    <2>2. OnlyExpired(srv, srv') /\ Calm(srv, srv')
      BY <1>0, <1>2, <1>6, <2>1, RefusedLoss, PartedCalm
    <2> QED BY <1>0, <2>1, <2>2, CalmStep DEF SoundIn
  <1> QED BY <1>3, <1>4, <1>5, <1>6

\* LEAVE_ROOM and LOGOUT.
LEMMA PartStep ==
  ASSUME SoundInv, NEW c \in Conns, OnLeaveRoom(c) \/ OnLogout(c)
  PROVE  /\ QuietOK(srv, srv', issued)
         /\ OthersKeep(srv, srv', srv.clients[c].peerId)
         /\ Live(srv, srv.clients[c].peerId) = c
  <1>0. SoundIn(srv)
    BY DEF SoundInv
  <1>3. Live(srv, srv.clients[c].peerId) = c
    <2>1. srv.clients[c].alive /\ srv.clients[c].state \in IdentityStates
      BY DEF OnLeaveRoom, OnLogout, Dispatch, IdentityStates
    <2> QED BY <1>0, <2>1, OwnSession
  <1>1. CASE OnLeaveRoom(c)
    <2>1. srv.clients[c].state = "InRoom" /\ srv.clients[c].alive
          /\ srv' = PushRoomList(LeaveRoom(srv, c))
      BY <1>1 DEF OnLeaveRoom, Dispatch
    <2>2. SoundIn(srv') /\ Parted(srv, srv', c, srv.clients[c].peerId)
      BY <1>0, <2>1, LeaveSound
    <2>3. PICK sent \in BOOLEAN : sent = TRUE
      OBVIOUS
    <2>4. srv' = IF sent THEN srv' ELSE Destroy(srv', {c}, FALSE)
      BY <2>3
    <2> QED BY <1>0, <1>3, <2>2, <2>4, GivenUpStep
  <1>2. CASE OnLogout(c)
    <2>1. PICK t : t = Logout(srv, c)
      OBVIOUS
    <2>2. srv.clients[c].state \in IdentityStates /\ srv.clients[c].alive
      BY <1>2 DEF OnLogout
    <2>3. SoundIn(t) /\ Parted(srv, t, c, srv.clients[c].peerId)
      BY <1>0, <2>1, <2>2, LogoutSound
    <2>4. PICK drained \in BOOLEAN : Respond(c, ~drained, Logout(srv, c))
      BY <1>2 DEF OnLogout
    <2>5. PICK sent \in BOOLEAN : sent = ~drained
      OBVIOUS
    <2>6. srv' = IF sent THEN t ELSE Destroy(t, {c}, FALSE)
      BY <2>1, <2>4, <2>5 DEF Respond
    <2> QED BY <1>0, <1>3, <2>3, <2>6, GivenUpStep
  <1> QED BY <1>1, <1>2

\* Sessions that appear, end, die or miss an announcement, and the list.
LEMMA OtherStep ==
  ASSUME SoundInv, SoundIn(srv'), NEW c \in Conns,
         \/ Authenticate(c) \/ OnListRooms(c) \/ HandleClientDisconnect(c)
         \/ SessionDies(c) \/ SendDropped(c)
  PROVE  StepOK(srv, srv', issued)
  <1>0. /\ SoundIn(srv) /\ srv \in Servers /\ srv.clients[c] \in Sessions
        /\ ListedIn(srv')
    BY DEF SoundInv, SoundIn, MembershipIn, Servers
  <1>1. ASSUME NEW y \in Sessions, Subdued(srv.clients[c], y),
               srv' = WithSession(srv, c, y)
        PROVE  StepOK(srv, srv', issued)
    <2>1. Calm(srv, srv') /\ KeepsTokens(srv, srv')
      BY <1>0, <1>1, SessionCalm
    <2> QED BY <1>0, <2>1, KeptTokens, CalmStep
  <1>2. CASE Authenticate(c)
    <2>1. PICK y : y = [NoSession EXCEPT !.state = "AwaitLogin", !.alive = TRUE]
      OBVIOUS
    <2>2. srv' = WithSession(srv, c, y)
      BY <1>2, <2>1 DEF Authenticate, WithSession
    <2>3. NoSession \in Sessions /\ NoSession.told = {} /\ "AwaitLogin" \in SessionStates
      BY Nothing DEF NoSession, SessionStates
    <2>4. y \in Sessions /\ y.state = "AwaitLogin" /\ y.told = {}
      BY <2>1, <2>3 DEF Sessions
    <2>5. Subdued(srv.clients[c], y)
      BY <2>4 DEF Subdued
    <2> QED BY <1>1, <2>2, <2>4, <2>5
  <1>3. CASE OnListRooms(c)
    <2>1. Calm(srv, srv') /\ OnlyExpired(srv, srv')
      BY <1>0, <1>3, CleanupCalm DEF OnListRooms
    <2> QED BY <1>0, <2>1, CalmStep
  <1>4. CASE HandleClientDisconnect(c)
    <2>1. PICK D \in SUBSET Conns : D = {c}
      OBVIOUS
    <2>2. srv' = Destroy(srv, D, FALSE)
      BY <1>4, <2>1 DEF HandleClientDisconnect
    <2>3. Calm(srv, srv') /\ SameTokens(srv, srv')
      BY <1>0, <2>2, DestroyCalm
    <2> QED BY <1>0, <2>3, KeptTokens, CalmStep
  <1>5. CASE SessionDies(c)
    <2>1. PICK y : y = [srv.clients[c] EXCEPT !.alive = FALSE]
      OBVIOUS
    <2>2. y \in Sessions /\ y.state = srv.clients[c].state
          /\ y.told = srv.clients[c].told /\ y.resume = srv.clients[c].resume
      BY <1>0, <2>1 DEF Sessions
    <2>3. srv' = WithSession(srv, c, y)
      BY <1>5, <2>1 DEF SessionDies, WithSession
    <2>4. Subdued(srv.clients[c], y)
      BY <2>2 DEF Subdued
    <2> QED BY <1>1, <2>2, <2>3, <2>4
  <1>6. CASE SendDropped(c)
    <2>1. PICK y : y = [srv.clients[c] EXCEPT !.gap = TRUE, !.told = {}]
      OBVIOUS
    <2>2. y \in Sessions /\ y.state = srv.clients[c].state
          /\ y.told = {} /\ y.resume = srv.clients[c].resume
      BY <1>0, <2>1 DEF Sessions
    <2>3. srv' = WithSession(srv, c, y)
      BY <1>6, <2>1 DEF SendDropped, WithSession
    <2>4. Subdued(srv.clients[c], y)
      BY <2>2 DEF Subdued
    <2> QED BY <1>1, <2>2, <2>3, <2>4
  <1> QED BY <1>2, <1>3, <1>4, <1>5, <1>6

\* The periodic scan: a lease whose session is found dead starts its term and
\* survives the scan, so only leases that had expired before are removed.
LEMMA ScanStep ==
  ASSUME SoundInv, SoundIn(srv'), CheckTimeouts
  PROVE  StepOK(srv, srv', issued)
  <1>0. SoundIn(srv) /\ srv \in Servers /\ ListedIn(srv')
    BY DEF SoundInv, SoundIn, MembershipIn
  <1>1. PICK dead \in SUBSET Conns :
          srv' = CleanupExpiredLeases(Destroy(srv, dead, FALSE))
    <2>1. {d \in Conns : srv.clients[d].state # "Absent" /\ ~srv.clients[d].alive}
            \in SUBSET Conns
      OBVIOUS
    <2> QED BY <2>1 DEF CheckTimeouts
  <1>2. PICK s : s = Destroy(srv, dead, FALSE)
    OBVIOUS
  <1>3. SoundIn(s)
    BY <1>0, <1>2, DestroySound
  <1>4. Calm(srv, s) /\ SameTokens(srv, s)
    BY <1>0, <1>2, DestroyCalm
  <1>5. Calm(s, srv') /\ OnlyExpired(s, srv')
    BY <1>1, <1>2, <1>3, CleanupCalm
  <1>6. ASSUME NEW r \in RoomIds, NEW p \in PeerIds,
               srv.rooms[r].leases[p].token # 0,
               \/ srv'.rooms[r].leases[p].token # srv.rooms[r].leases[p].token
               \/ srv'.rooms[r].leases[p].vip # srv.rooms[r].leases[p].vip
        PROVE  Expired(srv.rooms[r].leases[p])
    <2>1. /\ s.rooms[r].leases[p].token = srv.rooms[r].leases[p].token
          /\ s.rooms[r].leases[p].vip = srv.rooms[r].leases[p].vip
      BY <1>4, <1>6 DEF SameTokens
    <2>2. Expired(s.rooms[r].leases[p])
      BY <1>5, <1>6, <2>1 DEF OnlyExpired
    <2> QED BY <1>0, <1>2, <2>2, DestroyExpires
  <1>7. OnlyExpired(srv, srv')
    BY <1>6 DEF OnlyExpired
  <1>8. Calm(srv, srv')
    BY <1>4, <1>5, CalmTrans
  <1> QED BY <1>0, <1>7, <1>8, CalmStep

\* The clock.
LEMMA TickStep ==
  ASSUME SoundInv, SoundIn(srv'), Tick
  PROVE  StepOK(srv, srv', issued)
  <1>0. SoundIn(srv) /\ RoomsIn(srv) /\ srv \in Servers /\ ListedIn(srv')
    BY DEF SoundInv, SoundIn, MembershipIn
  <1>1. PICK rooms : rooms = [r \in RoomIds |-> AgedRoom(srv.rooms[r])]
    OBVIOUS
  <1>2. srv'.rooms = rooms /\ srv'.clients = srv.clients
    BY <1>0, <1>1 DEF Tick, Servers
  <1>3. ASSUME NEW r \in RoomIds
        PROVE  SameMembers(srv.rooms[r], srv'.rooms[r])
    <2>1. srv'.rooms[r] = AgedRoom(srv.rooms[r])
      BY <1>1, <1>2
    <2>2. srv.rooms[r] \in Rooms /\ RoomOK(srv.rooms[r])
      BY <1>0 DEF RoomsIn, Servers
    <2>3. 1 \in PeerIds
      BY BoundsAssumption DEF PeerIds
    <2> QED BY <2>1, <2>2, <2>3, LeaseOpsExact
  <1>4. SameTokens(srv, srv')
    BY <1>3 DEF SameMembers, SameTokens
  <1>5. \A d \in Conns : Subdued(srv.clients[d], srv'.clients[d])
    BY <1>2 DEF Subdued
  <1>6. Calm(srv, srv') /\ OnlyExpired(srv, srv')
    BY <1>4, <1>5, KeptTokens DEF Calm
  <1> QED BY <1>0, <1>6, CalmStep

-----------------------------------------------------------------------------
(* What no step does *)

\* Every handler, the scan and the clock have the properties of a step, and only
\* leaving and logging out cost a lease that has not expired.
LEMMA NextStep ==
  ASSUME SoundInv, PendingIssued, Next
  PROVE  /\ QuietOK(srv, srv', issued)
         /\ \/ OnlyExpired(srv, srv')
            \/ \E c \in Conns : OnLeaveRoom(c) \/ OnLogout(c)
  <1>1. SoundIn(srv')
    BY NextSound DEF SoundInv
  <1>2. ASSUME NEW c \in Conns, NEW cred,
               \/ OnLoginFresh(c, cred)
               \/ cred \in issued /\ OnLoginResume(c, cred)
        PROVE  StepOK(srv, srv', issued)
    BY <1>2, LoginStep
  <1>3. ASSUME NEW c \in Conns, NEW max \in Capacities, NEW protected \in BOOLEAN,
               OnCreateRoom(c, max, protected)
        PROVE  StepOK(srv, srv', issued)
    BY <1>3, CreateStep
  <1>4. ASSUME NEW c \in Conns, NEW r \in RoomIds, OnJoinRoom(c, r)
        PROVE  StepOK(srv, srv', issued)
    BY <1>4, JoinStep
  <1>5. ASSUME NEW c \in Conns, NEW knows \in BOOLEAN, OnAuthResponse(c, knows)
        PROVE  StepOK(srv, srv', issued)
    BY <1>5, AuthStep
  <1>6. ASSUME NEW c \in Conns, OnResumeRoom(c)
        PROVE  StepOK(srv, srv', issued)
    BY <1>6, ResumeStep
  <1>7. ASSUME NEW c \in Conns, OnLeaveRoom(c) \/ OnLogout(c)
        PROVE  QuietOK(srv, srv', issued)
    BY <1>7, PartStep
  <1>8. ASSUME NEW c \in Conns,
               \/ Authenticate(c) \/ OnListRooms(c) \/ HandleClientDisconnect(c)
               \/ SessionDies(c) \/ SendDropped(c)
        PROVE  StepOK(srv, srv', issued)
    BY <1>1, <1>8, OtherStep
  <1>9. ASSUME CheckTimeouts PROVE StepOK(srv, srv', issued)
    BY <1>1, <1>9, ScanStep
  <1>10. ASSUME Tick PROVE StepOK(srv, srv', issued)
    BY <1>1, <1>10, TickStep
  <1>11. \/ StepOK(srv, srv', issued)
         \/ \E c \in Conns : OnLeaveRoom(c) \/ OnLogout(c)
    BY <1>2, <1>3, <1>4, <1>5, <1>6, <1>8, <1>9, <1>10 DEF Next
  <1> QED BY <1>7, <1>11 DEF StepOK

\* Credentials are never withdrawn from the set of the issued.
LEMMA IssuedGrows ==
  ASSUME [Next]_vars
  PROVE  issued \subseteq issued'
  <1>1. ASSUME NEW c \in Conns, NEW s, NEW r, CompleteJoin(s, c, r)
        PROVE  issued \subseteq issued'
    BY <1>1 DEF CompleteJoin
  <1>2. ASSUME NEW c \in Conns, NEW max, NEW protected, OnCreateRoom(c, max, protected)
        PROVE  issued \subseteq issued'
    BY <1>2 DEF OnCreateRoom
  <1>3. ASSUME NEW c \in Conns, NEW r \in RoomIds, OnJoinRoom(c, r)
        PROVE  issued \subseteq issued'
    <2>1. issued' = issued \/ CompleteJoin(CleanupExpiredLeases(srv), c, r)
      BY <1>3 DEF OnJoinRoom
    <2> QED BY <1>1, <2>1
  <1>4. ASSUME NEW c \in Conns, NEW knows \in BOOLEAN, OnAuthResponse(c, knows)
        PROVE  issued \subseteq issued'
    <2>1. issued' = issued \/ \E s, r : CompleteJoin(s, c, r)
      BY <1>4 DEF OnAuthResponse
    <2> QED BY <1>1, <2>1
  <1>5. ASSUME NEW c \in Conns, NEW cred, OnLoginFresh(c, cred) \/ OnLoginResume(c, cred)
        PROVE  issued' = issued
    BY <1>5 DEF OnLoginFresh, OnLoginResume
  <1>6. ASSUME NEW c \in Conns,
               \/ OnResumeRoom(c) \/ OnLeaveRoom(c) \/ OnLogout(c) \/ OnListRooms(c)
               \/ Authenticate(c) \/ HandleClientDisconnect(c) \/ SessionDies(c)
               \/ SendDropped(c)
        PROVE  issued' = issued
    BY <1>6 DEF OnResumeRoom, OnLeaveRoom, OnLogout, OnListRooms, Authenticate,
                HandleClientDisconnect, SessionDies, SendDropped
  <1>7. CASE CheckTimeouts \/ Tick \/ UNCHANGED vars
    BY <1>7 DEF CheckTimeouts, Tick, vars
  <1> QED BY <1>2, <1>3, <1>4, <1>5, <1>6, <1>7 DEF Next

\* In every reachable state a session that waits to resume presents a credential
\* that the server issued (onLogin, completeResume).
THEOREM PendingSafe == Spec => []PendingIssued
  <1>1. Init => PendingIssued
    BY DEF Init, PendingIssued, NoSession
  <1>2. SoundInv /\ PendingIssued /\ [Next]_vars => PendingIssued'
    <2> SUFFICES ASSUME SoundInv, PendingIssued, [Next]_vars
                 PROVE  PendingIssued'
      OBVIOUS
    <2>1. issued \subseteq issued'
      BY IssuedGrows
    <2>2. CASE Next
      <3>1. PendingOK(srv, srv', issued)
        BY <2>2, NextStep DEF QuietOK
      <3> QED BY <2>1, <3>1 DEF PendingOK, PendingIssued
    <2>3. CASE UNCHANGED vars
      BY <2>3 DEF vars, PendingIssued
    <2> QED BY <2>2, <2>3
  <1> QED BY <1>1, <1>2, SoundSafe, PTL DEF Spec

\* No step in which a connection breaks, is found dead or taken over, or which
\* answers a resumption or fails to, costs a lease that has not expired.
LEMMA BreakLoss ==
  ASSUME SoundInv, PendingIssued, SoundIn(srv'), BreaksOff
  PROVE  OnlyExpired(srv, srv')
  <1>1. CASE CheckTimeouts
    BY <1>1, ScanStep DEF StepOK
  <1>2. ASSUME NEW c \in Conns,
               HandleClientDisconnect(c) \/ SessionDies(c) \/ SendDropped(c)
        PROVE  OnlyExpired(srv, srv')
    BY <1>2, OtherStep DEF StepOK
  <1>3. ASSUME NEW c \in Conns, NEW cred \in issued, OnLoginResume(c, cred)
        PROVE  OnlyExpired(srv, srv')
    BY <1>3, LoginStep DEF StepOK
  <1>4. ASSUME NEW c \in Conns, OnResumeRoom(c)
        PROVE  OnlyExpired(srv, srv')
    BY <1>4, ResumeStep DEF StepOK
  <1> QED BY <1>1, <1>2, <1>3, <1>4 DEF BreaksOff

\* A lease that has not expired is lost, or changes its token or address, only in
\* the handler of its own live session leaving or logging out, and never when a
\* connection breaks or is taken over or an answer is lost (destroyClient,
\* onLogin, completeResume, checkTimeouts, cleanupExpiredLeases).
THEOREM LossSafe == Spec => LeasesSurviveFailures
  <1>1. SoundInv /\ PendingIssued /\ [Next]_vars => [LeaseLossStep]_vars
    <2> SUFFICES ASSUME SoundInv, PendingIssued, Next,
                        NEW r \in RoomIds, NEW p \in PeerIds,
                        LeaseHeld(srv, r, p), ~Expired(srv.rooms[r].leases[p]),
                        \/ srv'.rooms[r].leases[p].token # srv.rooms[r].leases[p].token
                        \/ srv'.rooms[r].leases[p].vip # srv.rooms[r].leases[p].vip
                 PROVE  /\ \E c \in Conns :
                             c = Live(srv, p) /\ (OnLeaveRoom(c) \/ OnLogout(c))
                        /\ ~BreaksOff
      BY Zenon DEF LeaseLossStep
    <2>1. ~OnlyExpired(srv, srv')
      BY DEF OnlyExpired, LeaseHeld
    <2>2. PICK c \in Conns : OnLeaveRoom(c) \/ OnLogout(c)
      BY <2>1, NextStep
    <2>3. /\ OthersKeep(srv, srv', srv.clients[c].peerId)
          /\ Live(srv, srv.clients[c].peerId) = c
      BY <2>2, PartStep
    <2>4. p = srv.clients[c].peerId
      BY <2>3 DEF OthersKeep, LeaseHeld
    <2>5. SoundIn(srv')
      BY NextSound DEF SoundInv
    <2>6. ~BreaksOff
      BY <2>1, <2>5, BreakLoss
    <2> QED BY <2>2, <2>3, <2>4, <2>6
  <1> QED BY <1>1, SoundSafe, PendingSafe, PTL DEF Spec, LeasesSurviveFailures

\* A request to create or join a room whose answer cannot be sent leaves no
\* lease, no announcement and no entry in the list (rollbackNewMembership).
THEOREM FailedSafe == Spec => FailedRequestsInvisible
  <1>1. SoundInv /\ PendingIssued /\ [Next]_vars => [FailedRequestStep]_vars
    <2> SUFFICES ASSUME SoundInv, PendingIssued, Next PROVE FailedRequestStep
      OBVIOUS
    <2>1. FailOK(srv, srv')
      BY NextStep DEF QuietOK
    <2> QED BY <2>1 DEF FailOK, FailedRequestStep
  <1> QED BY <1>1, SoundSafe, PendingSafe, PTL DEF Spec, FailedRequestsInvisible

\* A session enters a protected room only by creating it, by proving the password
\* of the very room it enters, or by resuming a lease it was issued
\* (onAuthResponse, completeJoin, completeResume).
THEOREM EntrySafe == Spec => ProtectedEntry
  <1>1. SoundInv /\ PendingIssued /\ [Next]_vars => [EntryStep]_vars
    <2> SUFFICES ASSUME SoundInv, PendingIssued, Next PROVE EntryStep
      OBVIOUS
    <2>1. EntryOK(srv, srv', issued)
      BY NextStep DEF QuietOK
    <2> QED BY <2>1 DEF EntryOK, Entitled, EntryStep
  <1> QED BY <1>1, SoundSafe, PendingSafe, PTL DEF Spec, ProtectedEntry
=============================================================================
