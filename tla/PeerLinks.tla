----------------------------- MODULE PeerLinks -----------------------------
(***************************************************************************)
(* The links between the members of a room: how each client learns of the  *)
(* others and builds, loses and rebuilds its transport to each of them     *)
(* (onPeerJoined, onPeerResumed, onPeerLeft, onRelayReady, onTransportDead *)
(* of RoomManager; CliApp has the same), together with what the server     *)
(* sends: JOIN_RESP, PEER_JOINED, PEER_RESUMED, PEER_LEFT and RELAY_READY. *)
(*                                                                         *)
(* There is one room.  RoomServer has the leases in detail and GuiRoom and *)
(* CliRoom the operations of the room; here a member is out of the room,   *)
(* in it, or offline with a lease, and a client is in the lobby, asks,     *)
(* prepares its adapter, is ready, or has lost its connection.  Messages   *)
(* of a connection arrive in order; the two ends notice a break at         *)
(* different times.  The server refuses a message that exceeds its budget  *)
(* for what waits to be sent: without its JOIN_RESP a session is closed,   *)
(* without any of the others it goes on, and nothing is sent again.  The   *)
(* number of a session stands for what the client is told of a member and  *)
(* does not know itself: which session of the member the message is about. *)
(* It is the number of the request that began it.                          *)
(***************************************************************************)
EXTENDS Naturals, Sequences, SequencesExt

CONSTANTS N,           \* the peers are 1 .. N
          Classes,     \* traffic classes, each with a transport of its own
          MaxStarts,   \* bound on the requests to join or to resume
          MaxFailures  \* bound on the checks that find links dead and on the
                       \* steps in which the server refuses to send

ASSUME LinkAssumption ==
  /\ N \in Nat /\ MaxStarts \in Nat /\ MaxFailures \in Nat
  /\ Classes # {} /\ IsFiniteSet(Classes)

Peers == 1 .. N
Session == 0 .. MaxStarts      \* 0: none

VARIABLES room,      \* the lease of each peer at the server
          session,   \* the last session in which the peer was in the room
          conn,      \* whether the server still has the peer's connection
          client,    \* what each client keeps
          up, down,  \* messages on their way to the server, to the client
          unheard,     \* the members of whom news was refused to each peer
          unanswered,  \* those of whom the answer it asked for was refused
          starts, failures

missed == <<unheard, unanswered>>

vars == <<room, session, conn, client, up, down, missed, starts, failures>>

Clients ==
  [phase   : {"lobby", "asking", "preparing", "ready", "lost"},
   lease   : BOOLEAN,                      \* a lease to resume with
   members : [Peers -> Session],           \* m_pendingMembers
   relays  : SUBSET Peers,                 \* m_pendingRelayReady
   known   : [Peers -> Session],           \* m_peerById
   link    : [Peers -> [Classes -> Session]], \* the session it was built for
   rebuild : SUBSET (Peers \X Classes)]    \* m_pendingRebuild

\* Messages to the server, and to a client.
Requests ==
  [type : {"JOIN"}, session : Session \ {0}] \cup [type : {"LEAVE"}]
    \cup [type : {"RELAY"}, peer : Peers]

Messages ==
  [type : {"JOIN_RESP"}, members : [Peers -> Session]]
    \cup [type : {"PEER_JOINED", "PEER_RESUMED"}, peer : Peers, session : Session \ {0}]
    \cup [type : {"PEER_LEFT", "RELAY_READY"}, peer : Peers]

\* teardownTun: nothing of the room remains.
Teardown(phase, lease) ==
  [phase |-> phase, lease |-> lease, members |-> [q \in Peers |-> 0],
   relays |-> {}, known |-> [q \in Peers |-> 0],
   link |-> [q \in Peers |-> [k \in Classes |-> 0]], rebuild |-> {}]

Init ==
  /\ room = [p \in Peers |-> "out"]
  /\ session = [p \in Peers |-> 0]
  /\ conn = [p \in Peers |-> TRUE]
  /\ client = [p \in Peers |-> Teardown("lobby", FALSE)]
  /\ up = [p \in Peers |-> <<>>]
  /\ down = [p \in Peers |-> <<>>]
  /\ unheard = [p \in Peers |-> {}] /\ unanswered = [p \in Peers |-> {}]
  /\ starts = 0 /\ failures = 0

-----------------------------------------------------------------------------
(* The client: what it keeps after a call.                                  *)

\* BUG: only the class that answers a rebuild is looked at, also when both are
\* missing.
RelayReadyRebuildOnly(c, q) ==
  IF c.phase = "preparing" THEN [c EXCEPT !.relays = @ \cup {q}]
  ELSE IF c.phase # "ready" \/ c.known[q] = 0 THEN c
  ELSE [c EXCEPT !.rebuild = {x \in @ : x[1] # q},
                 !.link[q] = [k \in Classes |-> IF <<q, k>> \in c.rebuild
                                                THEN c.known[q] ELSE @[k]]]

\* onRelayReady, setupPolicyTunnel: the classes that wait to be rebuilt, or
\* all of them if none does, get a transport if they have none.
RelayReady(c, q) ==
  LET waiting == {k \in Classes : <<q, k>> \in c.rebuild}
      build == IF waiting = {} THEN Classes ELSE waiting
  IN  IF c.phase = "preparing" THEN [c EXCEPT !.relays = @ \cup {q}]
      ELSE IF c.phase # "ready" \/ c.known[q] = 0 THEN c
      ELSE [c EXCEPT !.rebuild = @ \ ({q} \X Classes),
                     !.link[q] = [k \in Classes |-> IF k \in build /\ @[k] = 0
                                                    THEN c.known[q] ELSE @[k]]]

\* BUG: a rebuild that waited when the member came back goes on waiting.
RebuildKeepsWaiting(c, q, n) ==
  [c EXCEPT !.known[q] = n, !.link[q] = [k \in Classes |-> 0]]

\* onPeerResumed of a member that is already there, rebuildPeerTransports.
RebuildPeerTransports(c, q, n) ==
  [c EXCEPT !.known[q] = n, !.rebuild = @ \ ({q} \X Classes),
            !.link[q] = [k \in Classes |-> 0]]

\* TunnelManager::addPeer keeps a peer that is already there.
AddPeer(c, q, n) == [c EXCEPT !.known[q] = IF @ = 0 THEN n ELSE @]

\* TunnelManager::removePeer and clearPendingRebuild.
RemovePeer(c, q) ==
  [c EXCEPT !.known[q] = 0, !.rebuild = @ \ ({q} \X Classes),
            !.link[q] = [k \in Classes |-> 0]]

\* requestRelay: the message is lost if the server has dropped the connection;
\* one that a client cannot send ends its connection.
RequestRelay(p, targets) ==
  up' = IF conn[p]
        THEN [up EXCEPT ![p] = @ \o [i \in DOMAIN targets |->
                                        [type |-> "RELAY", peer |-> targets[i]]]]
        ELSE up

-----------------------------------------------------------------------------
(* The client: messages it receives.                                        *)

\* The next message to p is of this type.
Comes(p, type) == down[p] # <<>> /\ Head(down[p]).type = type

Take(p, c, targets) ==
  /\ client' = [client EXCEPT ![p] = c]
  /\ RequestRelay(p, targets)
  /\ down' = [down EXCEPT ![p] = Tail(@)]
  /\ UNCHANGED <<room, session, conn, missed, starts, failures>>

\* onJoinResponse, beginRoomReadiness.
OnJoinResponse(p) ==
  /\ Comes(p, "JOIN_RESP")
  /\ LET c == client[p]
         members == [Head(down[p]).members EXCEPT ![p] = 0]
     IN  Take(p, IF c.phase = "asking"
                 THEN [c EXCEPT !.phase = "preparing", !.lease = TRUE,
                                !.members = members, !.relays = {}]
                 ELSE c, <<>>)

OnPeerJoined(p) ==
  /\ Comes(p, "PEER_JOINED")
  /\ LET c == client[p]
         q == Head(down[p]).peer
         n == Head(down[p]).session
     IN  CASE c.phase = "preparing" -> Take(p, [c EXCEPT !.members[q] = n], <<>>)
           [] c.phase = "ready"     -> Take(p, AddPeer(c, q, n), <<q>>)
           [] OTHER                 -> Take(p, c, <<>>)

OnPeerResumed(p) ==
  /\ Comes(p, "PEER_RESUMED")
  /\ LET c == client[p]
         q == Head(down[p]).peer
         n == Head(down[p]).session
     IN  CASE c.phase = "preparing" ->
                Take(p, [c EXCEPT !.members[q] = n, !.relays = @ \ {q}], <<>>)
           [] c.phase = "ready" ->
                Take(p, IF c.known[q] = 0 THEN AddPeer(c, q, n)
                        ELSE RebuildPeerTransports(c, q, n), <<q>>)
           [] OTHER -> Take(p, c, <<>>)

OnPeerLeft(p) ==
  /\ Comes(p, "PEER_LEFT")
  /\ LET c == client[p]
         q == Head(down[p]).peer
     IN  CASE c.phase = "preparing" ->
                Take(p, [c EXCEPT !.members[q] = 0, !.relays = @ \ {q}], <<>>)
           [] c.phase = "ready" -> Take(p, RemovePeer(c, q), <<>>)
           [] OTHER -> Take(p, c, <<>>)

OnRelayReady(p) ==
  /\ Comes(p, "RELAY_READY")
  /\ Take(p, RelayReady(client[p], Head(down[p]).peer), <<>>)

-----------------------------------------------------------------------------
(* The client: everything else.                                             *)

\* BUG: what was announced while the adapter was prepared is forgotten.
CompleteForgets(c) ==
  [c EXCEPT !.phase = "ready", !.members = [q \in Peers |-> 0], !.relays = {}]

\* completeRoomReadiness: the members, and the links the server has announced;
\* the members without one are asked for in the order of the map.
Completed(c) ==
  [c EXCEPT !.phase = "ready",
            !.members = [q \in Peers |-> 0], !.relays = {},
            !.known = [q \in Peers |-> IF @[q] = 0 THEN c.members[q] ELSE @[q]],
            !.link = [q \in Peers |-> [k \in Classes |->
                        IF q \in c.relays THEN c.members[q] ELSE @[q][k]]]]

CompleteRoomReadiness(p) ==
  /\ client[p].phase = "preparing"
  /\ LET c == client[p]
     IN  /\ client' = [client EXCEPT ![p] = Completed(c)]
         /\ \E order \in SetToSeqs({q \in Peers : c.members[q] # 0} \ c.relays) :
              RequestRelay(p, order)
  /\ UNCHANGED <<room, session, conn, down, missed, starts, failures>>

\* onTransportDead for the links that were silent for 30 s when they were
\* looked at (flushPendingTransportDead, onTcpRelayHealthCheck): one request
\* for each of them.
OnTransportsDead(p, dead) ==
  /\ failures < MaxFailures
  /\ dead # {}
  /\ \A x \in dead : client[p].link[x[1]][x[2]] # 0 /\ x \notin client[p].rebuild
  /\ failures' = failures + 1
  /\ client' = [client EXCEPT
       ![p].rebuild = @ \cup dead,
       ![p].link = [q \in Peers |-> [k \in Classes |->
                      IF <<q, k>> \in dead THEN 0 ELSE @[q][k]]]]
  /\ \E order \in SetToSeqs(dead) : RequestRelay(p, [i \in DOMAIN order |-> order[i][1]])
  /\ UNCHANGED <<room, session, conn, down, missed, starts>>

\* joinRoom.
JoinRoom(p) ==
  /\ client[p].phase = "lobby" /\ conn[p] /\ starts < MaxStarts
  /\ starts' = starts + 1
  /\ client' = [client EXCEPT ![p].phase = "asking"]
  /\ up' = [up EXCEPT ![p] = Append(@, [type |-> "JOIN", session |-> starts + 1])]
  /\ UNCHANGED <<room, session, conn, down, missed, failures>>

\* The room is left: MSG_LEAVE_ROOM from a room, MSG_LOGOUT and a new
\* connection (beginRoomRecovery) while it is being entered.
LeaveRoom(p) ==
  /\ client[p].phase \in {"asking", "preparing", "ready"}
  /\ LET stays == client[p].phase = "ready"
     IN  /\ client' = [client EXCEPT ![p] = Teardown(IF stays THEN "lobby" ELSE "lost", FALSE)]
         /\ down' = IF stays THEN down ELSE [down EXCEPT ![p] = <<>>]
  /\ up' = IF conn[p] THEN [up EXCEPT ![p] = Append(@, [type |-> "LEAVE"])] ELSE up
  /\ UNCHANGED <<room, session, conn, missed, starts, failures>>

\* onSignalDisconnected: the client notices a break, or causes it.  Breaks that
\* begin in the lobby say nothing about links and are left out.
OnSignalDisconnected(p) ==
  /\ client[p].phase # "lost"
  /\ client[p].phase = "lobby" => ~conn[p]
  /\ client' = [client EXCEPT ![p] = Teardown("lost", client[p].lease)]
  /\ down' = [down EXCEPT ![p] = <<>>]
  /\ UNCHANGED <<room, session, conn, up, missed, starts, failures>>

-----------------------------------------------------------------------------
(* The server.                                                              *)

Online == {p \in Peers : room[p] = "online"}

Ready(q) == [type |-> "RELAY_READY", peer |-> q]

\* sendClientMsg: to each peer q the messages to[q], after those on the way;
\* a connection the client has given up loses them.  They are the messages that
\* appendSendBuffer accepts; the third refusal in a row also closes the session,
\* which is one of the breaks of RemoveClient.
Deliver(to) ==
  [q \in Peers |-> IF client[q].phase = "lost" THEN <<>> ELSE down[q] \o to[q]]

\* Whether a message of the step is refused.
Refuses(some) == IF some THEN failures < MaxFailures /\ failures' = failures + 1
                 ELSE UNCHANGED failures

\* broadcastToRoom and notifyRelayPeers: what the other members receive, those
\* in told the news, those in linked RELAY_READY.
Notify(p, type, n, told, linked) ==
  [q \in Peers |->
     (IF q \in told THEN <<[type |-> type, peer |-> p, session |-> n]>> ELSE <<>>)
       \o (IF q \in linked THEN <<Ready(p)>> ELSE <<>>)]

\* Of the other members only those in told have been sent the news of p.  A
\* later PEER_RESUMED or PEER_LEFT makes up for it; PEER_JOINED does not, since
\* a client that still knows p keeps what it has.  News makes a client ask for
\* the link again.
Announce(p, type, told) ==
  /\ unheard' = [q \in Peers |->
       CASE q = p                     -> {}
         [] q \in Online \ ({p} \cup told)     -> unheard[q] \cup {p}
         [] q \in told \ {p} /\ type # "PEER_JOINED" -> unheard[q] \ {p}
         [] OTHER                     -> unheard[q]]
  /\ unanswered' = [q \in Peers |-> CASE q = p     -> {}
                                       [] q \in told \ {p} -> unanswered[q] \ {p}
                                       [] OTHER     -> unanswered[q]]

\* sendJoinResponse, with every lease of the room, and notifyRelayPeers: what
\* the one who enters receives.
Welcome(p, others) ==
  LET members == [q \in Peers |-> IF q # p /\ room[q] # "out" THEN session[q] ELSE 0]
  IN  <<[type |-> "JOIN_RESP", members |-> members]>>
        \o [i \in DOMAIN others |-> Ready(others[i])]

Enter(p, n) ==
  /\ room' = [room EXCEPT ![p] = "online"]
  /\ session' = [session EXCEPT ![p] = n]

Request(p, type) == up[p] # <<>> /\ Head(up[p]).type = type

\* completeJoin.
CompleteJoin(p) ==
  /\ Request(p, "JOIN")
  /\ LET n == Head(up[p]).session
     IN  /\ Enter(p, n)
         /\ \E told \in SUBSET (Online \ {p}), linked \in SUBSET (Online \ {p}),
               greeted \in SUBSET (Online \ {p}) :
              /\ Refuses({told, linked, greeted} # {Online \ {p}})
              /\ Announce(p, "PEER_JOINED", told)
              /\ \E others \in SetToSeqs(greeted) :
                   down' = Deliver([Notify(p, "PEER_JOINED", n, told, linked)
                                      EXCEPT ![p] = Welcome(p, others)])
  /\ up' = [up EXCEPT ![p] = Tail(@)]
  /\ UNCHANGED <<conn, client, starts>>

\* completeJoin when JOIN_RESP is refused: rollbackNewMembership, and the session
\* is closed.
RollbackNewMembership(p) ==
  /\ Request(p, "JOIN")
  /\ conn' = [conn EXCEPT ![p] = FALSE]
  /\ up' = [up EXCEPT ![p] = <<>>]
  /\ Refuses(TRUE)
  /\ UNCHANGED <<room, session, client, down, missed, starts>>

\* BUG: only the member that was asked for is told.
AnswerTargetOnly(p, q) == [d \in Peers |-> IF d = q THEN <<Ready(p)>> ELSE <<>>]

\* What onRequestRelay sends if both are in the room.
Answer(p, q) == [d \in Peers |-> CASE d = p -> <<Ready(q)>>
                                   [] d = q -> <<Ready(p)>>
                                   [] OTHER -> <<>>]

OnRequestRelay(p) ==
  /\ Request(p, "RELAY")
  /\ LET q == Head(up[p]).peer
     IN  IF {p, q} \subseteq Online
         THEN \E reached \in SUBSET {p, q} :
                /\ Refuses(reached # {p, q})
                /\ down' = Deliver([d \in Peers |-> IF d \in reached
                                                    THEN Answer(p, q)[d] ELSE <<>>])
                /\ unanswered' = [unanswered EXCEPT ![p] =
                                    IF p \in reached THEN @ \ {q} ELSE @ \cup {q}]
         ELSE UNCHANGED <<down, unanswered, failures>>
  /\ up' = [up EXCEPT ![p] = Tail(@)]
  /\ UNCHANGED <<room, session, conn, client, unheard, starts>>

\* leaveRoom, expireLeases: the lease is removed and the others are told.
RemoveLease(p) ==
  /\ room' = [room EXCEPT ![p] = "out"]
  /\ \E told \in SUBSET (Online \ {p}) :
       /\ Refuses(told # Online \ {p})
       /\ Announce(p, "PEER_LEFT", told)
       /\ down' = Deliver([q \in Peers |-> IF q \in told
                                           THEN <<[type |-> "PEER_LEFT", peer |-> p]>>
                                           ELSE <<>>])

OnLeaveRoom(p) ==
  /\ Request(p, "LEAVE")
  /\ IF room[p] = "online" THEN RemoveLease(p) ELSE UNCHANGED <<room, down, missed, failures>>
  /\ up' = [up EXCEPT ![p] = Tail(@)]
  /\ UNCHANGED <<session, conn, client, starts>>

\* checkTimeouts.
LeaseExpires(p) ==
  /\ room[p] = "offline"
  /\ RemoveLease(p)
  /\ UNCHANGED <<session, conn, client, up, starts>>

\* removeClient: the server notices a break, or causes it.
RemoveClient(p) ==
  /\ conn[p] /\ room[p] = "online"
  /\ conn' = [conn EXCEPT ![p] = FALSE]
  /\ room' = [room EXCEPT ![p] = "offline"]
  /\ up' = [up EXCEPT ![p] = <<>>]
  /\ UNCHANGED <<session, client, down, missed, starts, failures>>

\* A new connection: the session it replaces is closed, and a client with a
\* lease resumes it (onLogin, completeResume), or stays offline when JOIN_RESP is
\* refused.  A client that has given up its lease while the server still has it
\* logs in as another peer.
Reconnect(p) ==
  /\ client[p].phase = "lost" /\ starts < MaxStarts
  /\ starts' = starts + 1
  /\ up' = [up EXCEPT ![p] = <<>>]
  /\ \/ /\ room[p] = "out"
        /\ conn' = [conn EXCEPT ![p] = TRUE]
        /\ client' = [client EXCEPT ![p] = Teardown("lobby", FALSE)]
        /\ UNCHANGED <<room, session, down, missed, failures>>
     \/ /\ room[p] # "out" /\ client[p].lease
        /\ conn' = [conn EXCEPT ![p] = TRUE]
        /\ client' = [client EXCEPT ![p].phase = "asking"]
        /\ Enter(p, starts + 1)
        /\ \E told \in SUBSET (Online \ {p}), linked \in SUBSET (Online \ {p}),
               greeted \in SUBSET (Online \ {p}) :
             /\ Refuses({told, linked, greeted} # {Online \ {p}})
             /\ Announce(p, "PEER_RESUMED", told)
             /\ \E others \in SetToSeqs(greeted) :
                  down' = [Deliver(Notify(p, "PEER_RESUMED", starts + 1, told, linked))
                             EXCEPT ![p] = Welcome(p, others)]
     \/ /\ room[p] # "out" /\ client[p].lease
        /\ conn' = [conn EXCEPT ![p] = FALSE]
        /\ client' = [client EXCEPT ![p].phase = "asking"]
        /\ room' = [room EXCEPT ![p] = "offline"]
        /\ Refuses(TRUE)
        /\ UNCHANGED <<session, down, missed>>

Receive(p) ==
  \/ OnJoinResponse(p) \/ OnPeerJoined(p) \/ OnPeerResumed(p)
  \/ OnPeerLeft(p) \/ OnRelayReady(p)

Serve(p) ==
  CompleteJoin(p) \/ RollbackNewMembership(p) \/ OnRequestRelay(p) \/ OnLeaveRoom(p)

Next ==
  \E p \in Peers :
    \/ Receive(p)
    \/ Serve(p)
    \/ CompleteRoomReadiness(p)
    \/ \E dead \in SUBSET (Peers \X Classes) : OnTransportsDead(p, dead)
    \/ JoinRoom(p)
    \/ LeaveRoom(p)
    \/ OnSignalDisconnected(p)
    \/ LeaseExpires(p)
    \/ RemoveClient(p)
    \/ Reconnect(p)

Spec == Init /\ [][Next]_vars

\* The event loops do not all stop while something has arrived.
Fairness == WF_vars(\E p \in Peers : Receive(p) \/ Serve(p))

FairSpec == Spec /\ Fairness

-----------------------------------------------------------------------------
(* Properties *)

\* Every variable has its type.
TypeOK ==
  /\ room \in [Peers -> {"out", "offline", "online"}]
  /\ session \in [Peers -> Session]
  /\ conn \in [Peers -> BOOLEAN]
  /\ client \in [Peers -> Clients]
  /\ up \in [Peers -> Seq(Requests)] /\ down \in [Peers -> Seq(Messages)]
  /\ unheard \in [Peers -> SUBSET Peers] /\ unanswered \in [Peers -> SUBSET Peers]
  /\ starts \in 0 .. MaxStarts /\ failures \in 0 .. MaxFailures

\* The record of what waits to be rebuilt is exact.  A link that waits is down
\* (onTransportDead ignores a link that waits, so one that is up would never be
\* given up again), and if a member is linked in one class only, the other one
\* waits (onRelayReady builds only what waits as soon as anything does, so one
\* that does not would be forgotten).
RebuildExact ==
  /\ TypeOK
  /\ \A p, q \in Peers :
       LET c == client[p]
           missing == {k \in Classes : c.link[q][k] = 0}
           waiting == {k \in Classes : <<q, k>> \in c.rebuild}
       IN  /\ waiting \subseteq missing
           /\ missing # Classes => waiting = missing
           /\ c.known[q] = 0 => missing = Classes /\ waiting = {}

News == {"PEER_JOINED", "PEER_RESUMED", "PEER_LEFT"}
InRoom(p) == client[p].phase = "ready" /\ room[p] = "online"

\* Once a client has read what the server sent it knows exactly the members of
\* the room, although it was told of some while it prepared its adapter, and
\* no link was built for an earlier session of a member: the two ends of a link
\* belong to the same sessions (onPeerResumed, completeRoomReadiness).  Only a
\* member whose news was refused, and of whom no PEER_RESUMED or PEER_LEFT has
\* come since, may be unknown or taken for what it was.
MembersCurrent ==
  \A p, q \in Peers :
    LET c == client[p]
        pending == \E i \in DOMAIN down[p] :
                      down[p][i].type \in News /\ down[p][i].peer = q
    IN  InRoom(p) /\ q # p /\ ~pending /\ q \notin unheard[p]
          => /\ c.known[q] = IF room[q] = "out" THEN 0 ELSE session[q]
             /\ \A k \in Classes : c.link[q][k] \in {0, session[q]}

\* A link that is missing between two members of the room has been asked for:
\* the request, its answer, or news of the member is on its way, whatever was
\* asked of a member that was offline at the time (onRequestRelay drops it).
\* The refusal of news, or of the answer to a request of this end, is the only
\* way to lose it; a RELAY_READY of notifyRelayPeers may be refused at no cost.
MissingIsAskedFor ==
  \A p, q \in Peers :
    /\ InRoom(p) /\ room[q] = "online" /\ q # p
    /\ q \notin unheard[p] \cup unanswered[p]
    /\ \E k \in Classes : client[p].link[q][k] = 0
    => \/ \E i \in DOMAIN down[p] :
             /\ down[p][i].type # "JOIN_RESP" /\ down[p][i].type # "PEER_LEFT"
             /\ down[p][i].peer = q
       \/ \E i \in DOMAIN up[p] : up[p][i] = [type |-> "RELAY", peer |-> q]

\* In the end any two members that stay are linked in both classes, at both
\* ends, however often links died and connections broke before, unless the news
\* of a member or the answer to the last request for it was refused.
LinksSettle ==
  <>[](\A p, q \in Peers :
         InRoom(p) /\ InRoom(q) /\ p # q /\ q \notin unheard[p] \cup unanswered[p]
           => \A k \in Classes : client[p].link[q][k] = session[q])
=============================================================================
