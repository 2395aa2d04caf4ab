--------------------------- MODULE ServerChannels ---------------------------
(***************************************************************************)
(* The connections of SignalServer: accept, classification of a new        *)
(* connection as signalling or data channel, the send buffers with the     *)
(* budget that all of them share, relaying between members, and teardown,  *)
(* under the descriptors that the kernel hands out again at once.          *)
(*                                                                         *)
(* One event of epoll_wait is one action.  A batch of events is not kept   *)
(* as such: closed holds the descriptors closed since epoll_wait returned, *)
(* any of which may still have an event in the batch, and fresh the ones   *)
(* accepted since then, which cannot have one yet.  A recv that returns    *)
(* several frames is several events.                                       *)
(*                                                                         *)
(* A session is named by the connection it came on, which stands for       *)
(* m_secureSessionMap and m_peerMap.  Every queued frame has the size one. *)
(* Membership is only the state Room; RoomServer models it.  Rate limits   *)
(* of one address refuse a connection before it has any state.             *)
(***************************************************************************)
EXTENDS Integers, Sequences, FiniteSetsExt, Functions

CONSTANTS Conns, NoConn,     \* connections that clients make, and none
          Ips, Ip,           \* addresses, and the one a connection comes from
          MaxFd,             \* descriptors of the process
          MaxPending, MaxPendingPerIp, MaxClients, MaxClientsPerIp,
          MaxBuf,            \* MAX_TCP_SEND_BUF
          MaxGlobal,         \* m_limits.maxSendBufferBytes
          MaxFailures        \* refused frames in a row that end a session

ASSUME ChannelsAssumption ==
  /\ NoConn \notin Conns
  /\ Ip \in [Conns -> Ips]
  /\ {MaxFd, MaxPending, MaxPendingPerIp, MaxClients, MaxClientsPerIp,
      MaxBuf, MaxGlobal, MaxFailures} \subseteq Nat
  /\ MaxFailures > 0

VARIABLE server

vars == <<server>>

Fds == 1 .. MaxFd

\* Hello: until the login is answered; Lobby: a peer without a room.
States == {"Hello", "Lobby", "Room", "Closing"}

Sessions ==
  [conn  : Conns,
   state : States,
   alive : BOOLEAN,
   data  : Fds \cup {0},            \* dataFd
   out   : 0 .. MaxBuf,             \* sendBuf
   queue : UNION {[1 .. n -> Conns] : n \in 0 .. MaxBuf},
                                    \* dataSendBuf: the connection each frame is for
   fails : 0 .. MaxFailures]         \* sendBudgetFailures

NoSession == [conn |-> NoConn]

Servers ==
  [file    : [Fds -> Conns \cup {NoConn}],  \* the kernel's descriptors
   pending : SUBSET Fds,                    \* m_pending
   clients : [Fds -> Sessions \cup {NoSession}],
   dataMap : [Fds -> Fds \cup {0}],         \* m_dataFdMap
   global  : Nat,                           \* m_globalSendBytes
   waiting : [Ips -> Nat],                  \* IpState::pending
   active  : [Ips -> Nat],                  \* IpState::clients
   closed  : SUBSET Fds,
   fresh   : SUBSET Fds]

Started ==
  [file    |-> [f \in Fds |-> NoConn],
   pending |-> {},
   clients |-> [f \in Fds |-> NoSession],
   dataMap |-> [f \in Fds |-> 0],
   global  |-> 0,
   waiting |-> [i \in Ips |-> 0],
   active  |-> [i \in Ips |-> 0],
   closed  |-> {},
   fresh   |-> {}]

Init == server = Started

Clients(s) == {f \in Fds : s.clients[f] # NoSession}

Less(n, k) == IF k > n THEN 0 ELSE n - k

CloseFd(s, f) ==
  [s EXCEPT !.file[f] = NoConn, !.closed = @ \cup {f}, !.fresh = @ \ {f}]

RemovePending(s, f) ==
  [CloseFd(s, f) EXCEPT !.pending = @ \ {f},
                        !.waiting[Ip[s.file[f]]] = Less(@, 1)]

-----------------------------------------------------------------------------
(* Send buffers *)

\* BUG: the bytes of a buffer that is dropped are not given back.
ClearKeepingBudget(s, t) == [s EXCEPT !.clients[t].queue = <<>>]

\* clearSendBuffer of the data channel
ClearData(s, t) ==
  [s EXCEPT !.global = Less(@, Len(s.clients[t].queue)), !.clients[t].queue = <<>>]

\* clearSendBuffer of the signalling connection
ClearSignal(s, t) ==
  [s EXCEPT !.global = Less(@, s.clients[t].out), !.clients[t].out = 0]

\* BUG: the buffer of the old channel is kept for the new one.
CloseDataKeepingQueue(s, t) ==
  LET f == s.clients[t].data
  IN IF f = 0 THEN s
     ELSE CloseFd([s EXCEPT !.dataMap[f] = 0, !.clients[t].data = 0], f)

CloseDataChannel(s, t) ==
  LET f == s.clients[t].data
  IN IF f = 0 THEN ClearData(s, t)
     ELSE ClearData(CloseFd([s EXCEPT !.dataMap[f] = 0, !.clients[t].data = 0], f), t)

Dead(s, t) == [s EXCEPT !.clients[t].alive = FALSE]

\* flushSendBuf: the kernel takes some of the bytes or refuses with an error.
FlushSignal(s, t) ==
  {[s EXCEPT !.clients[t].out = @ - k, !.global = Less(@, k)] :
     k \in 0 .. s.clients[t].out}
  \cup (IF s.clients[t].out > 0 THEN {Dead(s, t)} ELSE {})

\* flushDataSendBuf
FlushData(s, t) ==
  LET q == s.clients[t].queue
  IN {[s EXCEPT !.clients[t].queue = SubSeq(q, k + 1, Len(q)),
                !.global = Less(@, k)] : k \in 0 .. Len(q)}
     \cup (IF q # <<>> THEN {CloseDataChannel(s, t)} ELSE {})

\* appendSendBuffer: whether one more frame fits
Fits(s, n) == n < MaxBuf /\ s.global < MaxGlobal

\* sendClientMsg, sendMsg: a required response that fails ends the session.
SendMsg(s, t, required) ==
  LET c == s.clients[t]
      refused == [s EXCEPT !.clients[t].fails = @ + 1,
                           !.clients[t].alive = ~required /\ c.fails + 1 < MaxFailures]
      queued == [s EXCEPT !.clients[t].out = @ + 1, !.global = @ + 1,
                          !.clients[t].fails = 0]
  IN IF ~c.alive THEN {s}
     ELSE IF ~Fits(s, c.out) THEN {refused}
     ELSE FlushSignal(queued, t)

\* sendDataMsg: a channel that cannot take the frame is closed; the session ends
\* when its counter is exhausted.
SendDataMsg(s, t) ==
  LET c == s.clients[t]
      queued == [s EXCEPT !.clients[t].queue = Append(@, s.file[c.data]),
                          !.global = @ + 1]
  IN IF c.data = 0 \/ ~c.alive THEN {s}
     ELSE {Dead(s, t)}
          \cup (IF Fits(s, Len(c.queue)) THEN FlushData(queued, t)
                                         ELSE {CloseDataChannel(s, t)})

\* onTcpRelayData: over the data channel of the receiver, otherwise, or when that
\* fails, over its signalling connection.
Relay(s, t) ==
  UNION {IF u.clients[t].data # 0 THEN {u} ELSE SendMsg(u, t, FALSE) :
           u \in SendDataMsg(s, t)}

\* findClientByPeerId, in the same room
Members(s) == {u \in Clients(s) : s.clients[u].alive /\ s.clients[u].state = "Room"}

Relays(s) == UNION {Relay(s, u) : u \in Members(s)}

\* broadcastToRoom and broadcastRoomListPush, as one frame to each session
Announced(s, t) ==
  FoldSet(LAMBDA u, S : UNION {SendMsg(v, u, FALSE) : v \in S}, {s},
          {u \in Clients(s) \ {t} : s.clients[u].state \in {"Lobby", "Room"}})

-----------------------------------------------------------------------------
(* Sessions *)

\* destroyClient
Destroy(s, t) ==
  LET u == ClearSignal(CloseDataChannel(s, t), t)
  IN CloseFd([u EXCEPT !.clients[t] = NoSession,
                       !.active[Ip[s.clients[t].conn]] = Less(@, 1)], t)

\* What follows a message: a session that is dead, or has said all before it
\* closes, is destroyed.
Settle(s, t) ==
  IF ~s.clients[t].alive \/ (s.clients[t].state = "Closing" /\ s.clients[t].out = 0)
  THEN Destroy(s, t) ELSE s

Became(s, t, state) == [s EXCEPT !.clients[t].state = state]

\* onLogin: the session whose lease is resumed is taken over.
Takeover(s, t) == {Destroy(s, u) : u \in {v \in Clients(s) \ {t} : s.clients[v].state = "Room"}}

\* A required response, and the announcements that follow when it was accepted
Answered(s, t) == SendMsg(s, t, TRUE)

Entered(s, t) ==
  UNION {IF u.clients[t].alive THEN Announced(u, t) ELSE {u} :
           u \in Answered(Became(s, t, "Room"), t)}

LoggedOut(s, t) ==
  UNION {Answered(Became(u, t, "Closing"), t) :
           u \in Announced(CloseDataChannel(s, t), t)}

\* onRequestRelay
RelayReady(s, t) ==
  UNION {UNION {SendMsg(v, u, FALSE) : v \in SendMsg(s, t, FALSE)} : u \in Members(s)}

\* processMessage: what a message may do to its session and to others
Processed(s, t) ==
  LET state == s.clients[t].state
  IN {Dead(s, t)} \cup Answered(s, t) \cup
     CASE state = "Hello" ->
            Answered(Became(s, t, "Lobby"), t)
              \cup {Became(u, t, "Closing") : u \in Answered(s, t)}
              \cup UNION {Answered(Became(u, t, "Lobby"), t) : u \in Takeover(s, t)}
       [] state = "Lobby" -> SendMsg(s, t, FALSE) \cup Entered(s, t) \cup LoggedOut(s, t)
       [] state = "Room" ->
            SendMsg(s, t, FALSE) \cup Relays(s) \cup RelayReady(s, t)
              \cup Announced(Became(s, t, "Lobby"), t) \cup LoggedOut(s, t)

\* processDataMessage: a frame that is invalid, or not allowed outside a room,
\* closes the channel.
ProcessedData(s, t) ==
  {CloseDataChannel(s, t)} \cup SendDataMsg(s, t)
    \cup (IF s.clients[t].state = "Room" THEN Relays(s) ELSE {})

\* findClientBySecureSessionId and sessionCanBindDataChannel
CanBind(s, t) == s.clients[t].alive /\ s.clients[t].state \in {"Lobby", "Room"}

NewSession(x) ==
  [conn |-> x, state |-> "Hello", alive |-> TRUE, data |-> 0, out |-> 0,
   queue |-> <<>>, fails |-> 0]

\* onSecureDataChannelInit for the session t, or for none that it finds
BindData(s, f, t) ==
  LET u == CloseDataChannel([s EXCEPT !.pending = @ \ {f},
                                      !.waiting[Ip[s.file[f]]] = Less(@, 1)], t)
      bound == [u EXCEPT !.clients[t].data = f, !.dataMap[f] = t]
  IN SendDataMsg(bound, t) \cup UNION {ProcessedData(v, t) : v \in
       {w \in SendDataMsg(bound, t) : w.clients[t].data = f /\ CanBind(w, t)}}

\* handlePendingData: the first frame tells what the connection is for.
Promote(s, f) ==
  LET x == s.file[f]
      u == [s EXCEPT !.pending = @ \ {f}, !.waiting[Ip[x]] = Less(@, 1),
                     !.active[Ip[x]] = @ + 1, !.clients[f] = NewSession(x)]
  IN IF Cardinality(Clients(s)) >= MaxClients \/ s.active[Ip[x]] >= MaxClientsPerIp
     THEN {RemovePending(s, f)}
     ELSE {Settle(v, f) : v \in Processed(u, f)}

PendingData(s, f) ==
  {s, RemovePending(s, f)} \cup Promote(s, f)
    \cup UNION {BindData(s, f, t) : t \in {v \in Clients(s) : CanBind(s, v)}}

\* handleClientData; recv fails when the connection is gone or has no data.
ClientData(s, t) ==
  IF s.clients[t].state = "Closing" \/ ~s.clients[t].alive
  THEN {IF ~s.clients[t].alive \/ s.clients[t].out = 0 THEN Destroy(s, t) ELSE s}
  ELSE {Destroy(s, t)} \cup {Settle(u, t) : u \in Processed(s, t)}

\* handleDataChannelData
DataData(s, f) ==
  LET t == s.dataMap[f]
  IN IF ~CanBind(s, t) THEN {CloseDataChannel(s, t)} ELSE ProcessedData(s, t)

\* handleWritable
ClientWritable(s, t) == {Settle(u, t) : u \in FlushSignal(s, t)}

DataWritable(s, f) ==
  LET t == s.dataMap[f]
  IN IF ~CanBind(s, t) THEN {CloseDataChannel(s, t)} ELSE FlushData(s, t)

-----------------------------------------------------------------------------
(* The loop of run() *)

\* BUG: a new connection is a session at once.
AcceptAsSession(x) ==
  LET free == {f \in Fds : server.file[f] = NoConn}
      f == Min(free)
  IN /\ free # {} /\ \A g \in Fds : server.file[g] # x
     /\ Cardinality(Clients(server)) < MaxClients
     /\ server' = [server EXCEPT !.file[f] = x, !.clients[f] = NewSession(x),
                                 !.active[Ip[x]] = @ + 1, !.fresh = @ \cup {f}]

Queued(s) == UNION {{s.clients[t].queue[i] : i \in DOMAIN s.clients[t].queue} :
                      t \in Clients(s)}

\* handleTcpAccept: the kernel hands out the lowest free descriptor.
HandleTcpAccept(x) ==
  LET free == {f \in Fds : server.file[f] = NoConn}
      f == Min(free)
  IN /\ free # {} /\ x \notin Queued(server) /\ \A g \in Fds : server.file[g] # x
     /\ Cardinality(server.pending) < MaxPending
     /\ server.waiting[Ip[x]] < MaxPendingPerIp
     /\ server' = [server EXCEPT !.file[f] = x, !.pending = @ \cup {f},
                                 !.waiting[Ip[x]] = @ + 1, !.fresh = @ \cup {f}]

\* EPOLLIN on a descriptor, whatever it is now
Readable(s, f) ==
  CASE f \in s.pending   -> PendingData(s, f)
    [] s.dataMap[f] # 0  -> DataData(s, f)
    [] f \in Clients(s)  -> ClientData(s, f)
    [] OTHER             -> {s}

\* EPOLLERR, EPOLLHUP
HangUp(s, f) ==
  CASE f \in s.pending   -> RemovePending(s, f)
    [] s.dataMap[f] # 0  -> CloseDataChannel(s, s.dataMap[f])
    [] f \in Clients(s)  -> Destroy(s, f)
    [] OTHER             -> s

\* EPOLLOUT, asked for while something is queued
Writable(s, f) ==
  CASE s.dataMap[f] # 0  -> DataWritable(s, f)
    [] f \in Clients(s)  -> ClientWritable(s, f)
    [] OTHER             -> {s}

\* A descriptor has one event in a batch.
Handled(s, f) == [s EXCEPT !.closed = @ \ {f}]

\* The event of an open connection that epoll_wait has reported
Event(f) ==
  /\ server.file[f] # NoConn /\ f \notin server.fresh
  /\ \E u \in Readable(server, f) \cup {HangUp(server, f)} \cup Writable(server, f) :
       server' = Handled(u, f)

\* The event of a connection that an earlier event of the batch has closed
StaleEvent(f) ==
  /\ f \in server.closed
  /\ \E u \in Readable(server, f) \cup {HangUp(server, f)} : server' = Handled(u, f)

\* epoll_wait
NextBatch ==
  /\ server.closed \cup server.fresh # {}
  /\ server' = [server EXCEPT !.closed = {}, !.fresh = {}]

\* handleUdpPacket: a datagram for a member; all that it can change here is that
\* the counter of the receiver is exhausted.
HandleUdpPacket ==
  \E u \in Members(server) : server' = Dead(server, u)

\* checkTimeouts, between two batches: sessions marked dead or silent, and
\* connections that have never been classified; leases that expire are announced.
Scan(s, dead, old) ==
  LET u == FoldSet(LAMBDA t, v : Destroy(v, t), s, dead)
  IN FoldSet(LAMBDA f, v : RemovePending(v, f), u, old)

Marked(s) == {t \in Clients(s) : ~s.clients[t].alive}

CheckTimeouts(dead, old) ==
  /\ Marked(server) \subseteq dead
  /\ LET s == Scan(server, dead, old)
     IN \E u \in {s} \cup Announced(s, 0) :
          server' = [u EXCEPT !.closed = {}, !.fresh = {}]

\* stop(), and the process is started again.
Stop == server' = Started

Next ==
  \/ \E x \in Conns : HandleTcpAccept(x)
  \/ \E f \in Fds : Event(f)
  \/ \E f \in Fds : StaleEvent(f)
  \/ NextBatch
  \/ \E dead \in SUBSET Clients(server), old \in SUBSET server.pending :
       CheckTimeouts(dead, old)
  \/ HandleUdpPacket
  \/ Stop

Spec == Init /\ [][Next]_vars

-----------------------------------------------------------------------------
(* Properties *)

\* Every member keeps its type.
TypeOK == server \in Servers

\* The bytes that are queued for a session.
Held(c) == IF c = NoSession THEN 0 ELSE c.out + Len(c.queue)

\* m_globalSendBytes is what is queued in all buffers together, on every path by
\* which bytes are sent, dropped, refused or lost with their connection: the
\* budget of the other clients never shrinks, and is never exceeded.
BudgetExact ==
  /\ server.global = SumFunction([t \in Fds |-> Held(server.clients[t])])
  /\ server.global <= MaxGlobal

\* Every open descriptor is exactly one of a connection to be classified, a
\* session and the data channel of one session, and m_dataFdMap says which: none
\* leaks, and none is used after it was closed.
DescriptorsExact ==
  LET data == {f \in Fds : server.dataMap[f] # 0}
  IN /\ TypeOK
     /\ {f \in Fds : server.file[f] # NoConn} = server.pending \cup Clients(server) \cup data
     /\ server.pending \cap Clients(server) = {}
     /\ data \cap (server.pending \cup Clients(server)) = {}
     /\ \A f \in Fds, t \in Clients(server) :
          server.dataMap[f] = t <=> server.clients[t].data = f
     /\ \A f \in data : server.dataMap[f] \in Clients(server)

\* What an address has in use is counted exactly, so that no address is shut out
\* by connections that have gone.
AddressesExact ==
  \A i \in Ips :
    /\ server.waiting[i] = Cardinality({f \in server.pending : Ip[server.file[f]] = i})
    /\ server.active[i] = Cardinality({t \in Clients(server) : Ip[server.clients[t].conn] = i})

\* The server's accounts are exact: bytes queued, descriptors, and connections
\* per address.
AccountsExact == BudgetExact /\ DescriptorsExact /\ AddressesExact

\* An event left over in a batch from a connection that was closed never reaches
\* a session or a data channel that has been given its descriptor since.
StaleEventsMissSessions ==
  \A f \in server.closed : f \notin Clients(server) /\ server.dataMap[f] = 0

\* Nothing queued for one data connection, such as the rest of a frame sent in
\* part, is written to the connection that replaces it.
StreamsSeparate ==
  \A t \in Clients(server) : \A i \in DOMAIN server.clients[t].queue :
    /\ server.clients[t].data # 0
    /\ server.clients[t].queue[i] = server.file[server.clients[t].data]

=============================================================================
