----------------------------- MODULE RoomServer -----------------------------
(***************************************************************************)
(* The membership core of the relay server (SignalServer, Room and         *)
(* RoomManager): authenticated sessions, peer identifiers and their index, *)
(* rooms with reconnect leases, takeover and resume, lease expiry, and the *)
(* published room list.                                                    *)
(*                                                                         *)
(* The server is one thread: a handler runs to its end before the next     *)
(* event, so a handler is one action.  Handlers call each other            *)
(* (JOIN_ROOM first expires leases, a failed response ends in              *)
(* destroyClient, ...), so the members of SignalServer are the fields of   *)
(* one record, srv, and every method is an operator from records to        *)
(* records that the actions compose in the order of the code.              *)
(*                                                                         *)
(* Abstractions of data:                                                   *)
(*  - the random lease token is a number never used before; leases are     *)
(*    pushed back when their token is drawn, so the order of Room::leases  *)
(*    is the order of the tokens;                                          *)
(*  - a room's password is the secret number `key', 0 when unprotected;    *)
(*    salt and hash are drawn per room, so no two rooms share a key;       *)
(*  - expiresAt is kept as `left', the clock ticks until now > expiresAt;  *)
(*  - names, policies and rate limits only decide refusals that change     *)
(*    nothing and are left out; the HELLO and AUTH phases before a session *)
(*    is authenticated hold no membership state and are one action;        *)
(*  - a session's `told' and `gap' are history: the members the server has *)
(*    announced to that connection, and whether an announcement was lost.  *)
(***************************************************************************)
EXTENDS Integers, FiniteSets

CONSTANTS
  Conns,       \* signalling sockets (file descriptors)
  NoConn,      \* no socket: an index entry that is absent
  MaxPeerId,   \* bound: peer identifiers handed out
  MaxRoomId,   \* bound: room identifiers handed out
  MaxToken,    \* bound: lease tokens drawn
  MaxRooms,    \* ServerLimits::maxRooms
  Capacities,  \* values of maxPlayers a client may ask for
  VipCount,    \* virtual host addresses of a room's subnet
  LeaseTicks   \* clock ticks until an offline lease has expired

ASSUME NoConnAssumption == NoConn \notin Conns
ASSUME BoundsAssumption == /\ MaxPeerId \in Nat \ {0}
                           /\ MaxRoomId \in Nat \ {0}
                           /\ MaxToken \in Nat \ {0}
                           /\ MaxRooms \in Nat \ {0}
ASSUME CapacityAssumption == Capacities \subseteq 2 .. VipCount
ASSUME VipAssumption == VipCount \in Nat
ASSUME LeaseAssumption == LeaseTicks \in Nat \ {0}

PeerIds == 1 .. MaxPeerId
RoomIds == 1 .. MaxRoomId
Tokens == 1 .. MaxToken
Vips == 1 .. VipCount

VARIABLES
  srv,         \* the members of SignalServer
  nextToken,   \* the next lease token the random source yields
  issued       \* history: the credentials clients have received

vars == <<srv, nextToken, issued>>

-----------------------------------------------------------------------------
(* Records *)

\* Session states that carry a peer identity.
IdentityStates == {"LoggedIn", "AwaitRoomPassword", "ResumePending", "InRoom"}

SessionStates == IdentityStates \cup {"Absent", "AwaitLogin", "Closing"}

Credentials == [room : 0 .. MaxRoomId, peer : 0 .. MaxPeerId,
                token : 0 .. MaxToken]

NoCredential == [room |-> 0, peer |-> 0, token |-> 0]

Sessions == [state   : SessionStates,
             alive   : BOOLEAN,
             peerId  : 0 .. MaxPeerId,
             roomId  : 0 .. MaxRoomId,
             vip     : 0 .. VipCount,
             pending : [room : 0 .. MaxRoomId, key : 0 .. MaxToken],
             resume  : Credentials,
             told    : SUBSET PeerIds,
             gap     : BOOLEAN]

NoSession == [state |-> "Absent", alive |-> FALSE, peerId |-> 0, roomId |-> 0,
              vip |-> 0, pending |-> [room |-> 0, key |-> 0],
              resume |-> NoCredential, told |-> {}, gap |-> FALSE]

Leases == [vip : 0 .. VipCount, token : 0 .. MaxToken,
           online : BOOLEAN, left : 0 .. LeaseTicks]

NoLease == [vip |-> 0, token |-> 0, online |-> FALSE, left |-> 0]

Rooms == [max : Nat, key : 0 .. MaxToken, host : 0 .. MaxPeerId,
          leases : [PeerIds -> Leases]]

NoRoom == [max |-> 0, key |-> 0, host |-> 0,
           leases |-> [p \in PeerIds |-> NoLease]]

ListEntries == [max : Nat, protected : BOOLEAN, count : Nat]

Servers == [clients     : [Conns -> Sessions],
            peerMap     : [PeerIds -> Conns \cup {NoConn}],
            freePeerIds : SUBSET PeerIds,
            nextPeerId  : 1 .. (MaxPeerId + 1),
            rooms       : [RoomIds -> Rooms],
            freeRoomIds : SUBSET RoomIds,
            nextRoomId  : 1 .. (MaxRoomId + 1),
            published   : [RoomIds -> ListEntries]]

-----------------------------------------------------------------------------
(* Room *)

Lowest(S) == CHOOSE x \in S : \A y \in S : x <= y

Holders(room) == {p \in PeerIds : room.leases[p].token # 0}

\* The host keeps its place while it holds a lease, even offline; otherwise
\* the first lease that is online, otherwise the first lease.
EnsureHost(room) ==
  LET held     == Holders(room)
      online   == {p \in held : room.leases[p].online}
      First(S) == CHOOSE p \in S :
                    \A q \in S : room.leases[p].token <= room.leases[q].token
      host     == CASE held = {}          -> 0
                    [] room.host \in held -> room.host
                    [] OTHER -> IF online # {} THEN First(online)
                                               ELSE First(held)
  IN [room EXCEPT !.host = host]

\* BUG: addresses of members that are offline are handed out again.
AllocateFromOnlineOnly(room) ==
  LET free == Vips \ {room.leases[p].vip : p \in {q \in PeerIds : room.leases[q].online}}
  IN IF free = {} THEN 0 ELSE Lowest(free)

AllocateVirtualIP(room) ==
  LET free == Vips \ {room.leases[p].vip : p \in PeerIds}
  IN IF free = {} THEN 0 ELSE Lowest(free)

IsFull(room) == Cardinality(Holders(room)) >= room.max

\* addLease refuses a full room, a second lease and an exhausted subnet.
CanAddLease(room, p) ==
  /\ ~IsFull(room)
  /\ p \notin Holders(room)
  /\ AllocateVirtualIP(room) # 0

AddLease(room, p, token) ==
  EnsureHost([room EXCEPT !.leases[p] =
    [vip |-> AllocateVirtualIP(room), token |-> token,
     online |-> TRUE, left |-> LeaseTicks]])

RemoveLease(room, p) == EnsureHost([room EXCEPT !.leases[p] = NoLease])

OfflineLease(l) ==
  [vip |-> l.vip, token |-> l.token, online |-> FALSE, left |-> LeaseTicks]

OnlineLease(l) ==
  [vip |-> l.vip, token |-> l.token, online |-> TRUE, left |-> LeaseTicks]

MarkLeaseOffline(room, p) ==
  IF p \in Holders(room)
  THEN [room EXCEPT !.leases[p] = OfflineLease(@)]
  ELSE room

MarkLeaseOnline(room, p) ==
  EnsureHost([room EXCEPT !.leases[p] = OnlineLease(@)])

Expired(l) == l.token # 0 /\ ~l.online /\ l.left = 0

-----------------------------------------------------------------------------
(* Peer identifiers and the session index *)

\* findClientOwnerByPeerId: an entry that no longer matches counts as absent.
Owner(s, p) ==
  IF s.peerMap[p] # NoConn /\ s.clients[s.peerMap[p]].peerId = p
  THEN s.peerMap[p]
  ELSE NoConn

\* findClientByPeerId
Live(s, p) ==
  LET c == Owner(s, p)
  IN IF /\ c # NoConn
        /\ s.clients[c].alive
        /\ s.clients[c].state \in IdentityStates
     THEN c
     ELSE NoConn

CanAllocatePeerId(s) == s.freePeerIds # {} \/ s.nextPeerId <= MaxPeerId

NextPeerId(s) ==
  IF s.freePeerIds # {} THEN Lowest(s.freePeerIds) ELSE s.nextPeerId

-----------------------------------------------------------------------------
(* Announcements and the room list *)

Listing(s) ==
  [r \in RoomIds |-> [max       |-> s.rooms[r].max,
                      protected |-> s.rooms[r].key # 0,
                      count     |-> Cardinality(Holders(s.rooms[r]))]]

\* BUG: only the appearance and disappearance of rooms is published.
PushIfRoomsChanged(s) ==
  IF \E r \in RoomIds : (s.published[r].max = 0) # (Listing(s)[r].max = 0)
  THEN [s EXCEPT !.published = Listing(s)]
  ELSE s

\* broadcastRoomListPush: an empty delta leaves the published list as it is.
PushRoomList(s) == [s EXCEPT !.published = Listing(s)]

\* The connections broadcastToRoom reaches when peer p is the subject.
Receivers(s, r, p) ==
  {Live(s, q) : q \in Holders(s.rooms[r]) \ {p}} \ {NoConn}

TellJoined(s, r, p) ==
  [s EXCEPT !.clients = [c \in Conns |->
     IF c \in Receivers(s, r, p) /\ ~s.clients[c].gap
     THEN [s.clients[c] EXCEPT !.told = @ \cup {p}]
     ELSE s.clients[c]]]

TellLeft(s, r, p) ==
  [s EXCEPT !.clients = [c \in Conns |->
     IF c \in Receivers(s, r, p)
     THEN [s.clients[c] EXCEPT !.told = @ \ {p}]
     ELSE s.clients[c]]]

\* Removing a member's lease; the last one takes the room with it.
DropLease(s, r, p) ==
  LET room == RemoveLease(s.rooms[r], p)
  IN IF s.rooms[r] = NoRoom THEN s
     ELSE IF Holders(room) = {}
     THEN [s EXCEPT !.rooms[r] = NoRoom, !.freeRoomIds = @ \cup {r}]
     ELSE [s EXCEPT !.rooms[r] = room]

\* A member goes: the others are told, then its lease is removed.
Depart(s, r, p) == DropLease(TellLeft(s, r, p), r, p)

-----------------------------------------------------------------------------
(* Teardown of sessions *)

OwnedByOther(s, c) ==
  s.clients[c].peerId # 0 /\ Owner(s, s.clients[c].peerId) \notin {NoConn, c}

\* The room in which destroyClient marks the lease of c offline, 0 for none.
\* A session that is Closing goes with reason LogoutComplete.
DetachRoom(s, c) ==
  LET x == s.clients[c]
  IN CASE x.state = "Closing" \/ OwnedByOther(s, c) -> 0
       [] x.roomId # 0 -> x.roomId
       [] OTHER -> IF x.state = "ResumePending" THEN x.resume.room ELSE 0

\* destroyClient keeps the peer identifier for a lease that may be resumed.
PreservesPeerId(s, c) ==
  \/ OwnedByOther(s, c)
  \/ /\ DetachRoom(s, c) # 0
     /\ s.clients[c].roomId # 0 \/ s.rooms[DetachRoom(s, c)] # NoRoom

\* unbindClientIndexes for every connection of D.
Unbound(s, D) ==
  [p \in PeerIds |-> IF s.peerMap[p] \in D /\ s.clients[s.peerMap[p]].peerId = p
                     THEN NoConn ELSE s.peerMap[p]]

\* The peer identifiers that destroyClient gives back.
Released(s, D) ==
  {p \in PeerIds : \E c \in D : s.clients[c].peerId = p /\ ~PreservesPeerId(s, c)}

\* BUG: a broken connection removes the lease.
DetachedRoomDropped(s, D, r) ==
  [s.rooms[r] EXCEPT !.leases = [p \in PeerIds |->
     IF \E c \in D : DetachRoom(s, c) = r /\ s.clients[c].peerId = p
     THEN NoLease ELSE s.rooms[r].leases[p]]]

\* markSessionOffline, and markLeaseOffline of a lease pending resume.
DetachedRoom(s, D, r) ==
  [s.rooms[r] EXCEPT !.leases = [p \in PeerIds |->
     IF /\ s.rooms[r].leases[p].token # 0
        /\ \E c \in D : DetachRoom(s, c) = r /\ s.clients[c].peerId = p
     THEN OfflineLease(s.rooms[r].leases[p])
     ELSE s.rooms[r].leases[p]]]

\* destroyClient for every connection of D.  With takeover the identifiers
\* pass to the session that resumes.
Destroy(s, D, takeover) ==
  [s EXCEPT
    !.clients = [c \in Conns |-> IF c \in D THEN NoSession ELSE s.clients[c]],
    !.peerMap = Unbound(s, D),
    !.freePeerIds = s.freePeerIds \cup (IF takeover THEN {} ELSE Released(s, D)),
    !.rooms = [r \in RoomIds |-> DetachedRoom(s, D, r)]]

\* BUG: any session with the identity counts as a member.
HasLiveOwner(s, r, p) == Live(s, p) # NoConn

\* cleanupExpiredLeases, one lease: agree with the session, then expire.
HasLiveMember(s, r, p) ==
  /\ Live(s, p) # NoConn
  /\ s.clients[Live(s, p)].roomId = r
  /\ s.clients[Live(s, p)].state = "InRoom"

Refreshed(s, r, p) ==
  LET l == s.rooms[r].leases[p]
  IN CASE l.token # 0 /\ ~l.online /\ HasLiveMember(s, r, p)  -> OnlineLease(l)
       [] l.token # 0 /\ l.online /\ ~HasLiveMember(s, r, p) -> OfflineLease(l)
       [] OTHER -> l

\* cleanupExpiredLeases, one room: the leases kept, NoRoom when none is.
CleanedRoom(s, r) ==
  LET room == EnsureHost([s.rooms[r] EXCEPT !.leases = [p \in PeerIds |->
                IF Expired(Refreshed(s, r, p)) THEN NoLease
                                               ELSE Refreshed(s, r, p)]])
  IN IF Holders(room) = {} THEN NoRoom ELSE room

CleanupExpiredLeases(s) ==
  LET cleaned == [r \in RoomIds |-> CleanedRoom(s, r)]
      Gone(r) == Holders(s.rooms[r]) \ Holders(cleaned[r])
      t == [s EXCEPT
        !.rooms = cleaned,
        !.freeRoomIds = s.freeRoomIds \cup {r \in RoomIds :
                           s.rooms[r] # NoRoom /\ cleaned[r] = NoRoom},
        !.freePeerIds = s.freePeerIds \cup {p \in PeerIds :
                           /\ \E r \in RoomIds : p \in Gone(r)
                           /\ Owner(s, p) = NoConn},
        !.clients = [c \in Conns |-> [s.clients[c] EXCEPT !.told = @ \
                       {p \in PeerIds : \E r \in RoomIds :
                          p \in Gone(r) /\ c \in Receivers(s, r, p)}]]]
  IN IF cleaned = s.rooms THEN s ELSE PushRoomList(t)

-----------------------------------------------------------------------------
(* Login, rooms and leases *)

FreshLogin(s, c) ==
  LET p == NextPeerId(s)
  IN [s EXCEPT !.clients[c] = [@ EXCEPT !.state = "LoggedIn", !.peerId = p],
               !.peerMap[p] = c,
               !.freePeerIds = @ \ {p},
               !.nextPeerId = IF s.freePeerIds # {} THEN @ ELSE @ + 1]

ValidateResumeLease(s, cred) ==
  /\ cred.token # 0
  /\ s.rooms[cred.room].leases[cred.peer].token = cred.token
  /\ ~Expired(s.rooms[cred.room].leases[cred.peer])

\* A valid credential takes the identity over from the session that has it.
ResumeLogin(s, c, cred) ==
  LET old == Owner(s, cred.peer)
      t   == IF old \in {NoConn, c} THEN s ELSE Destroy(s, {old}, TRUE)
  IN [t EXCEPT !.clients[c] = [@ EXCEPT !.state = "ResumePending",
                                        !.peerId = cred.peer, !.resume = cred],
               !.rooms[cred.room] = MarkLeaseOffline(@, cred.peer),
               !.peerMap[cred.peer] = c]

\* The session part shared by CREATE_ROOM and completeJoin: c has the lease
\* its peer just got in room r.
EnterRoom(s, c, r) ==
  LET p    == s.clients[c].peerId
      held == s.rooms[r].leases[p]
  IN [s EXCEPT !.clients[c] =
       [@ EXCEPT !.state = "InRoom", !.roomId = r, !.vip = held.vip,
                 !.pending = [room |-> 0, key |-> 0],
                 !.resume = [room |-> r, peer |-> p, token |-> held.token],
                 !.told = Holders(s.rooms[r]), !.gap = FALSE]]

\* BUG: the lease of a failed request stays.
KeepNewMembership(s, c) ==
  [s EXCEPT !.clients[c] = [@ EXCEPT !.state = "LoggedIn", !.roomId = 0,
                              !.vip = 0, !.resume = NoCredential, !.told = {}]]

RollbackNewMembership(s, c) ==
  LET x == s.clients[c]
  IN [DropLease(s, x.roomId, x.peerId) EXCEPT !.clients[c] =
        [@ EXCEPT !.state = "LoggedIn", !.roomId = 0, !.vip = 0,
                  !.resume = NoCredential, !.told = {}]]

LeaveRoom(s, c) ==
  LET x == s.clients[c]
  IN [Depart(s, x.roomId, x.peerId)
        EXCEPT !.clients[c] = [@ EXCEPT !.state = "LoggedIn", !.roomId = 0,
                !.vip = 0, !.resume = NoCredential, !.told = {}, !.gap = FALSE]]

NextRoomId(s) ==
  IF s.freeRoomIds # {} THEN Lowest(s.freeRoomIds) ELSE s.nextRoomId

NewRoom(s, r, host, max, key) ==
  [s EXCEPT !.rooms[r] = [NoRoom EXCEPT !.max = max, !.key = key, !.host = host],
            !.freeRoomIds = @ \ {r},
            !.nextRoomId = IF s.freeRoomIds # {} THEN @ ELSE @ + 1]

WithLease(s, r, p, token) == [s EXCEPT !.rooms[r] = AddLease(@, p, token)]

\* BUG: a lease that is only pending resume is forgotten.
LogoutInRoomOnly(s, c) == s.clients[c].roomId

\* The room whose lease LOGOUT gives up, also one only pending resume.
LogoutRoom(s, c) ==
  LET x == s.clients[c]
  IN CASE x.roomId # 0 -> x.roomId
       [] /\ x.state = "ResumePending"
          /\ s.rooms[x.resume.room].leases[x.peerId].token = x.resume.token
            -> x.resume.room
       [] OTHER -> 0

\* Session c is Closing and without identity; its peer id is unbound, and
\* released unless another session owns it.
Retire(s, c, p, release) ==
  [s EXCEPT !.clients[c] = [NoSession EXCEPT !.state = "Closing", !.alive = TRUE],
            !.peerMap[p] = IF @ = c THEN NoConn ELSE @,
            !.freePeerIds = IF release THEN @ \cup {p} ELSE @]

Logout(s, c) ==
  LET p   == s.clients[c].peerId
      r   == LogoutRoom(s, c)
      out == Retire(IF r = 0 THEN s ELSE Depart(s, r, p), c, p, ~OwnedByOther(s, c))
  IN IF r = 0 THEN out ELSE PushRoomList(out)

\* completeResume: the session enters the room of its lease, which is online.
Resumed(s, c) ==
  LET cred == s.clients[c].resume
  IN [s EXCEPT !.rooms[cred.room] = MarkLeaseOnline(@, cred.peer),
               !.clients[c] = [@ EXCEPT
                  !.state = "InRoom", !.roomId = cred.room,
                  !.vip = s.rooms[cred.room].leases[cred.peer].vip, !.gap = FALSE,
                  !.told = Holders(s.rooms[cred.room])]]

-----------------------------------------------------------------------------
(* Actions *)

Init ==
  /\ srv = [clients     |-> [c \in Conns |-> NoSession],
            peerMap     |-> [p \in PeerIds |-> NoConn],
            freePeerIds |-> {},
            nextPeerId  |-> 1,
            rooms       |-> [r \in RoomIds |-> NoRoom],
            freeRoomIds |-> {},
            nextRoomId  |-> 1,
            published   |-> [r \in RoomIds |->
                              [max |-> 0, protected |-> FALSE, count |-> 0]]]
  /\ nextToken = 1
  /\ issued = {}

\* A message of c is dispatched: the session is alive and its state allows it.
Dispatch(c, state) == srv.clients[c].alive /\ srv.clients[c].state = state

\* The end of a handler that answers c with a required response: when the
\* response cannot be sent the session is destroyed before the next event.
Respond(c, sent, s) == srv' = IF sent THEN s ELSE Destroy(s, {c}, FALSE)

\* A socket is accepted, classified as signalling and passes HELLO and AUTH.
Authenticate(c) ==
  /\ srv.clients[c].state = "Absent"
  /\ srv' = [srv EXCEPT !.clients[c] =
               [NoSession EXCEPT !.state = "AwaitLogin", !.alive = TRUE]]
  /\ UNCHANGED <<nextToken, issued>>

OnLoginFresh(c, cred) ==
  /\ Dispatch(c, "AwaitLogin")
  /\ cred = NoCredential \/ ~ValidateResumeLease(srv, cred)
  /\ CanAllocatePeerId(srv)
  /\ \E sent \in BOOLEAN : Respond(c, sent, FreshLogin(srv, c))
  /\ UNCHANGED <<nextToken, issued>>

OnLoginResume(c, cred) ==
  /\ Dispatch(c, "AwaitLogin")
  /\ cred # NoCredential /\ ValidateResumeLease(srv, cred)
  /\ \E sent \in BOOLEAN : Respond(c, sent, ResumeLogin(srv, c, cred))
  /\ UNCHANGED <<nextToken, issued>>

OnCreateRoom(c, max, protected) ==
  LET r    == NextRoomId(srv)
      p    == srv.clients[c].peerId
      made == WithLease(NewRoom(srv, r, p, max, IF protected THEN nextToken ELSE 0),
                        r, p, nextToken)
      t    == EnterRoom(made, c, r)
  IN /\ Dispatch(c, "LoggedIn")
     /\ Cardinality({q \in RoomIds : srv.rooms[q] # NoRoom}) < MaxRooms
     /\ r <= MaxRoomId
     /\ nextToken <= MaxToken
     /\ \/ /\ srv' = PushRoomList(t)
           /\ nextToken' = nextToken + 1
           /\ issued' = issued \cup {t.clients[c].resume}
        \/ /\ srv' = Destroy(RollbackNewMembership(t, c), {c}, FALSE)
           /\ UNCHANGED <<nextToken, issued>>

\* completeJoin, from a server state s in which addLease succeeds.
CompleteJoin(s, c, r) ==
  LET p == s.clients[c].peerId
      t == EnterRoom(WithLease(s, r, p, nextToken), c, r)
  IN /\ nextToken <= MaxToken
     /\ \/ /\ srv' = PushRoomList(TellJoined(t, r, p))
           /\ nextToken' = nextToken + 1
           /\ issued' = issued \cup {t.clients[c].resume}
        \/ /\ srv' = Destroy(RollbackNewMembership(t, c), {c}, FALSE)
           /\ UNCHANGED <<nextToken, issued>>

OnJoinRoom(c, r) ==
  LET s    == CleanupExpiredLeases(srv)
      room == s.rooms[r]
      Can  == CanAddLease(room, srv.clients[c].peerId)
  IN /\ Dispatch(c, "LoggedIn")
     /\ \/ /\ room = NoRoom \/ IsFull(room) \/ (room.key = 0 /\ ~Can)
           /\ srv' = s
           /\ UNCHANGED <<nextToken, issued>>
        \/ /\ room # NoRoom /\ ~IsFull(room) /\ room.key # 0
           /\ \E sent \in BOOLEAN : Respond(c, sent,
                [s EXCEPT !.clients[c] = [@ EXCEPT
                     !.state = "AwaitRoomPassword",
                     !.pending = [room |-> r, key |-> room.key]]])
           /\ UNCHANGED <<nextToken, issued>>
        \/ /\ room # NoRoom /\ room.key = 0 /\ Can
           /\ CompleteJoin(s, c, r)

\* BUG: the proof is accepted for whatever room has the id now.
ProvesAnyKey(room, asked, knowsPassword) == knowsPassword

\* crypto_verify32 of the response against the hash of the room found now.
ProvesKey(room, asked, knowsPassword) ==
  knowsPassword /\ room.key = asked.key

\* The client answers the challenge it was sent, for the key of the room it
\* asked for; the server verifies with the room that has that id now.
OnAuthResponse(c, knowsPassword) ==
  LET s      == CleanupExpiredLeases(srv)
      asked  == srv.clients[c].pending
      room   == s.rooms[asked.room]
      proved == ProvesKey(room, asked, knowsPassword)
      Can    == CanAddLease(room, srv.clients[c].peerId)
      back   == [s EXCEPT !.clients[c] = [@ EXCEPT
                     !.state = "LoggedIn", !.pending = [room |-> 0, key |-> 0]]]
  IN /\ Dispatch(c, "AwaitRoomPassword")
     /\ \/ /\ room = NoRoom \/ ~proved \/ ~Can
           /\ srv' = back
           /\ UNCHANGED <<nextToken, issued>>
        \/ /\ room # NoRoom /\ proved /\ Can
           /\ CompleteJoin(back, c, asked.room)

\* RESUME_ROOM with the credential of the login; any other is refused.
OnResumeRoom(c) ==
  LET x       == srv.clients[c]
      cred    == x.resume
      lease   == srv.rooms[cred.room].leases[cred.peer]
      lobby   == [srv EXCEPT !.clients[c] = [@ EXCEPT
                     !.state = "LoggedIn", !.resume = NoCredential]]
  IN /\ Dispatch(c, "ResumePending")
     /\ \/ /\ ValidateResumeLease(srv, cred)
           /\ \E sent \in BOOLEAN : Respond(c, sent, Resumed(srv, c))
        \/ /\ ~ValidateResumeLease(srv, cred)
           /\ lease.token = cred.token
           /\ srv' = PushRoomList(Depart(lobby, cred.room, cred.peer))
        \/ /\ ~ValidateResumeLease(srv, cred)
           /\ lease.token # cred.token
           /\ srv' = lobby
     /\ UNCHANGED <<nextToken, issued>>

OnLeaveRoom(c) ==
  /\ Dispatch(c, "InRoom")
  /\ srv' = PushRoomList(LeaveRoom(srv, c))
  /\ UNCHANGED <<nextToken, issued>>

\* The session stays Closing while its acknowledgement is still queued.
OnLogout(c) ==
  /\ srv.clients[c].alive /\ srv.clients[c].state \in IdentityStates
  /\ \E drained \in BOOLEAN : Respond(c, ~drained, Logout(srv, c))
  /\ UNCHANGED <<nextToken, issued>>

OnListRooms(c) ==
  /\ srv.clients[c].alive /\ srv.clients[c].state \in IdentityStates
  /\ srv' = CleanupExpiredLeases(srv)
  /\ UNCHANGED <<nextToken, issued>>

\* The socket of c reports an error, is closed by the client, delivers a
\* frame the server refuses, or has drained the last answer while Closing.
HandleClientDisconnect(c) ==
  /\ srv.clients[c].state # "Absent"
  /\ srv' = Destroy(srv, {c}, FALSE)
  /\ UNCHANGED <<nextToken, issued>>

\* A send to c from another session's handler fails for good (broken socket,
\* third message in a row over the budget), or c has been silent for longer
\* than the heartbeat timeout when the scan is about to run.
SessionDies(c) ==
  /\ srv.clients[c].alive /\ srv.clients[c].state \in IdentityStates
  /\ srv' = [srv EXCEPT !.clients[c] = [@ EXCEPT !.alive = FALSE]]
  /\ UNCHANGED <<nextToken, issued>>

\* An announcement to c exceeds the budget and is dropped; c stays alive.
SendDropped(c) ==
  /\ Dispatch(c, "InRoom") /\ ~srv.clients[c].gap
  /\ srv' = [srv EXCEPT !.clients[c] = [@ EXCEPT !.gap = TRUE, !.told = {}]]
  /\ UNCHANGED <<nextToken, issued>>

\* BUG: the scan forgets the leases.
CheckSessionsOnly ==
  LET dead == {c \in Conns : srv.clients[c].state # "Absent"
                             /\ ~srv.clients[c].alive}
  IN /\ srv' = Destroy(srv, dead, FALSE)
     /\ UNCHANGED <<nextToken, issued>>

\* The periodic scan: dead sessions are destroyed, then leases expire.
CheckTimeouts ==
  LET dead == {c \in Conns : srv.clients[c].state # "Absent"
                             /\ ~srv.clients[c].alive}
  IN /\ \E s \in {Destroy(srv, dead, FALSE)} : srv' = CleanupExpiredLeases(s)
     /\ UNCHANGED <<nextToken, issued>>

AgedRoom(room) ==
  [room EXCEPT !.leases = [p \in PeerIds |->
     LET l == room.leases[p]
     IN IF ~l.online /\ l.left > 0 THEN [l EXCEPT !.left = @ - 1] ELSE l]]

\* The clock advances by one tick for every offline lease.
Tick ==
  /\ srv' = [srv EXCEPT !.rooms = [r \in RoomIds |-> AgedRoom(srv.rooms[r])]]
  /\ UNCHANGED <<nextToken, issued>>

Next ==
  \/ \E c \in Conns :
       \/ Authenticate(c)
       \/ \E cred \in issued \cup {NoCredential} : OnLoginFresh(c, cred)
       \/ \E cred \in issued : OnLoginResume(c, cred)
       \/ \E max \in Capacities, protected \in BOOLEAN :
            OnCreateRoom(c, max, protected)
       \/ \E r \in RoomIds : OnJoinRoom(c, r)
       \/ \E knowsPassword \in BOOLEAN : OnAuthResponse(c, knowsPassword)
       \/ OnResumeRoom(c)
       \/ OnLeaveRoom(c)
       \/ OnLogout(c)
       \/ OnListRooms(c)
       \/ HandleClientDisconnect(c)
       \/ SessionDies(c)
       \/ SendDropped(c)
  \/ CheckTimeouts
  \/ Tick

Spec == Init /\ [][Next]_vars

-----------------------------------------------------------------------------
(* Invariants *)

\* Every variable keeps the shape of the member it stands for.
TypeOK ==
  /\ srv \in Servers
  /\ nextToken \in 1 .. (MaxToken + 1)
  /\ issued \subseteq Credentials

IndexExactIn(s) ==
  /\ \A c \in Conns : s.clients[c].peerId # 0
       => s.peerMap[s.clients[c].peerId] = c
  /\ \A p \in PeerIds : s.peerMap[p] # NoConn
       => s.clients[s.peerMap[p]].peerId = p

\* The session index is exact: every session with an identity is the owner of
\* that identity, so no two sessions ever share a peer id, and no entry
\* outlives its session (findClientOwnerByPeerId, unbindClientIndexes).
IndexExact == IndexExactIn(srv)

FreshPeerIdsIn(s) ==
  /\ \A p \in PeerIds : p \in s.freePeerIds \/ p >= s.nextPeerId
       => /\ s.peerMap[p] = NoConn
          /\ \A r \in RoomIds : s.rooms[r].leases[p].token = 0
  /\ \A p \in s.freePeerIds : p < s.nextPeerId

\* An identifier the server may hand out next, freed or never used, is held by
\* no session and no lease: allocatePeerId cannot give a newcomer the identity
\* of a member that is only disconnected, and bindPeerIndex cannot collide.
\* Only identifiers that were handed out are freed, so none is given twice.
FreshPeerIds == FreshPeerIdsIn(srv)

OneLeasePerPeerIn(s) ==
  \A p \in PeerIds, q, r \in RoomIds :
     s.rooms[q].leases[p].token # 0 /\ s.rooms[r].leases[p].token # 0 => q = r

\* A peer has a lease in at most one room, and only in a room that exists;
\* freed room ids name no room (RoomManager::createRoom, eraseRoom).
RoomsConsistent ==
  /\ OneLeasePerPeerIn(srv)
  /\ \A r \in RoomIds : srv.rooms[r] # NoRoom <=> Holders(srv.rooms[r]) # {}
  /\ \A r \in RoomIds : r \in srv.freeRoomIds \/ r >= srv.nextRoomId
       => srv.rooms[r] = NoRoom

\* The fields of a session agree with its state.
Shaped(x) ==
  /\ x.peerId # 0 <=> x.state \in IdentityStates
  /\ x.roomId # 0 <=> x.state = "InRoom"
  /\ x.state = "ResumePending" => /\ x.resume.room # 0
                                  /\ x.resume.peer = x.peerId
                                  /\ x.resume.token # 0
  /\ x.state = "AwaitRoomPassword" => x.pending.room # 0

SessionShapeIn(s) == \A c \in Conns : Shaped(s.clients[c])

\* Session x is in room r, or about to resume the lease with that token in it.
Fits(x, r, token) ==
  \/ x.state = "InRoom" /\ x.roomId = r
  \/ x.state = "ResumePending" /\ x.resume.room = r /\ x.resume.token = token

\* The only lease of a connected peer is one that fits its session.
SessionLeaseIn(s) ==
  \A c \in Conns, p \in PeerIds, r \in RoomIds :
    s.clients[c].peerId = p /\ s.rooms[r].leases[p].token # 0
      => Fits(s.clients[c], r, s.rooms[r].leases[p].token)

MembershipIn(s) ==
  /\ s \in Servers
  /\ SessionShapeIn(s)
  /\ IndexExactIn(s)
  /\ FreshPeerIdsIn(s)
  /\ OneLeasePerPeerIn(s)
  /\ SessionLeaseIn(s)

CredentialsOK ==
  \A cred \in issued : cred.room # 0 /\ cred.peer # 0 /\ cred.token # 0

\* The inductive invariant: identities, index and leases fit together, so a
\* lease, and the peer id in it, is never given to anyone else.
MembershipInv ==
  /\ TypeOK
  /\ MembershipIn(srv)
  /\ CredentialsOK

\* In every room the members fit in, have different addresses, and the host is
\* one of them (addLease, allocateVirtualIP, ensureHost).
RoomsWellFormed ==
  \A r \in RoomIds :
    LET room == srv.rooms[r]
    IN room # NoRoom =>
         /\ room.host \in Holders(room)
         /\ Cardinality(Holders(room)) <= room.max
         /\ \A p, q \in Holders(room) :
              room.leases[p].vip = room.leases[q].vip => p = q

\* The rooms are sound as a set and one by one.
RoomsSound == RoomsConsistent /\ RoomsWellFormed

\* A live session in a room holds the online lease it was given, with the same
\* address and token, and an online lease has its session still connected.
MembersHoldLeases ==
  /\ \A c \in Conns :
       LET x == srv.clients[c]
       IN x.alive /\ x.state = "InRoom" =>
            LET l == srv.rooms[x.roomId].leases[x.peerId]
            IN /\ l.token # 0 /\ l.online
               /\ l.vip = x.vip
               /\ x.resume = [room |-> x.roomId, peer |-> x.peerId,
                              token |-> l.token]
  /\ \A r \in RoomIds, p \in PeerIds : srv.rooms[r].leases[p].online =>
       /\ srv.peerMap[p] # NoConn
       /\ srv.clients[srv.peerMap[p]].state = "InRoom"
       /\ srv.clients[srv.peerMap[p]].roomId = r

\* A connection none of whose announcements was dropped knows exactly the
\* members of its room, offline ones included, whatever joined, left, expired,
\* was resumed or was rolled back meanwhile.
MembersKnown ==
  \A c \in Conns :
    LET x == srv.clients[c]
    IN x.alive /\ x.state = "InRoom" /\ ~x.gap
         => x.told = Holders(srv.rooms[x.roomId])

\* Between two events the published list is the list of the rooms that exist:
\* no handler changes a room or its player count without publishing it.
PublishedCurrent == srv.published = Listing(srv)

\* What the clients have been told is true: members, if nothing was dropped, and
\* rooms.
ToldTrue == MembersKnown /\ PublishedCurrent

-----------------------------------------------------------------------------
(* Action properties *)

LeaseHeld(s, r, p) == s.rooms[r].leases[p].token # 0

\* The connection of a member breaks, is found dead or is taken over, or the
\* answer to its resumption is sent or lost.
BreaksOff ==
  \/ CheckTimeouts
  \/ \E c \in Conns :
       \/ HandleClientDisconnect(c) \/ SessionDies(c) \/ SendDropped(c)
       \/ \E cred \in issued : OnLoginResume(c, cred)
       \/ OnResumeRoom(c)

\* A lease that has not expired is lost, or changes its token or its address,
\* only in the handler of its own live session leaving the room or logging out.
\* In particular no broken or silent connection, no takeover, no resumption, and
\* no answer that could not be sent, costs a member its place, its address or
\* its token; one that asks to resume too late finds its lease expired.
LeaseLossStep ==
  \A r \in RoomIds, p \in PeerIds :
    LET l == srv.rooms[r].leases[p]
        m == srv'.rooms[r].leases[p]
    IN LeaseHeld(srv, r, p) /\ ~Expired(l) /\ (m.token # l.token \/ m.vip # l.vip)
         => /\ \E c \in Conns : c = Live(srv, p) /\ (OnLeaveRoom(c) \/ OnLogout(c))
            /\ ~BreaksOff

LeasesSurviveFailures == [][LeaseLossStep]_vars

\* A request to create or join a room whose answer could not be sent leaves no
\* trace: no lease, no announcement to a member, nothing more in the list.
FailedRequestStep ==
  \A c \in Conns :
    /\ srv.clients[c].state \in {"LoggedIn", "AwaitRoomPassword"}
    /\ srv'.clients[c].state = "Absent"
    => /\ \A r \in RoomIds, p \in PeerIds :
            LeaseHeld(srv', r, p) => LeaseHeld(srv, r, p)
       /\ \A d \in Conns : srv'.clients[d].told \subseteq srv.clients[d].told
       /\ \A r \in RoomIds : srv'.published[r].count <= srv.published[r].count

FailedRequestsInvisible == [][FailedRequestStep]_vars

\* A session enters a protected room only by creating it, by proving the
\* password of the very room it enters, or by resuming a lease it was issued,
\* even when the room it asked for has gone and its id names another room.
EntryStep ==
  \A c \in Conns :
    LET x == srv.clients[c]
        y == srv'.clients[c]
    IN x.state # "InRoom" /\ y.state = "InRoom" =>
         \/ srv'.rooms[y.roomId].key = 0
         \/ x.state = "LoggedIn" /\ srv.rooms[y.roomId] = NoRoom
         \/ /\ x.state = "AwaitRoomPassword"
            /\ x.pending.key = srv'.rooms[y.roomId].key
         \/ /\ x.state = "ResumePending" /\ x.resume \in issued
            /\ x.resume.token = srv'.rooms[y.roomId].leases[y.peerId].token

ProtectedEntry == [][EntryStep]_vars

-----------------------------------------------------------------------------
(* Liveness: the event loop reaches checkTimeouts every few seconds whatever *)
(* the clients do, and the clock goes on.                                    *)

FairSpec == Spec /\ WF_vars(Tick) /\ WF_vars(CheckTimeouts)

\* A member that disconnects for good does not keep its place: a lease whose
\* term is running out is removed, unless its holder comes back or presents the
\* credential again, which starts the term anew (onLogin marks the lease
\* offline afresh even when the answer to that login is lost).
AbandonedLeasesExpire ==
  \A r \in RoomIds, p \in PeerIds :
    LeaseHeld(srv, r, p) /\ srv.rooms[r].leases[p].left < LeaseTicks
      ~> ~LeaseHeld(srv, r, p) \/ srv.rooms[r].leases[p].left = LeaseTicks

=============================================================================
