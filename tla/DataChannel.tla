---------------------------- MODULE DataChannel ----------------------------
(***************************************************************************)
(* The data channel of a client: the second TCP connection that carries    *)
(* relayed packets while it is established; otherwise the relay falls back *)
(* to the signalling connection.  DataChannel of the GUI and               *)
(* CliDataChannel differ in what they do when a connection cannot even be  *)
(* begun, when the send buffer is full and when the counter of the cipher  *)
(* is used up; everything else is common.                                  *)
(*                                                                         *)
(* A connection is a slot of net that is used again once both ends have    *)
(* closed it; a connection that stalls delivers nothing more, in either    *)
(* direction, without an error.  Of the frames only INIT and its ACK       *)
(* matter; pings and packets are what tells a stalled connection apart.    *)
(* The server's half is what ServerChannels has in more detail: it binds   *)
(* any INIT of the session, also one that arrives after a later one.       *)
(***************************************************************************)
EXTENDS Naturals, FiniteSets

CONSTANTS Links,         \* slots for connections
          NoLink,
          MaxSessions,   \* bound on the sessions of the client
          MaxFaults      \* bound on the faults, and on what the user undoes

ASSUME ChannelAssumption ==
  NoLink \notin Links /\ MaxSessions \in Nat /\ MaxFaults \in Nat

VARIABLES kind,     \* which client: "gui" or "cli"
          ch,       \* the client's channel
          net,      \* the connections
          server,   \* the session of the client and its dataFd
          faults

vars == <<kind, ch, net, server, faults>>

Channels ==
  [sock    : {"none", "connecting", "connected"},
   link    : Links \cup {NoLink},
   peer    : BOOLEAN,          \* m_peerId # 0: a channel is wanted
   est     : BOOLEAN,          \* m_established
   timer   : BOOLEAN,          \* m_reconnectTimer, m_needReconnect
   session : 0 .. MaxSessions, \* m_secureSessionId, 0: Unconfigured
   failing : BOOLEAN,          \* m_sendFailurePending
   unable  : BOOLEAN]          \* the last connect failed at once

Connections ==
  [open    : BOOLEAN,          \* at the client
   server  : {"none", "pending", "bound", "closed"},
   init    : 0 .. MaxSessions, \* the session of an INIT on its way
   ack     : BOOLEAN,          \* an ACK on its way
   stalled : BOOLEAN]

Unused ==
  [open |-> FALSE, server |-> "none", init |-> 0, ack |-> FALSE, stalled |-> FALSE]

Init ==
  /\ kind \in {"gui", "cli"}
  /\ ch = [sock |-> "none", link |-> NoLink, peer |-> FALSE, est |-> FALSE,
           timer |-> FALSE, session |-> 0, failing |-> FALSE, unable |-> FALSE]
  /\ net = [k \in Links |-> Unused]
  /\ server = [session |-> 0, last |-> 0, bound |-> NoLink]
  /\ faults = 0

Fault == faults < MaxFaults /\ faults' = faults + 1
NoFault == UNCHANGED faults

-----------------------------------------------------------------------------
(* The client's socket *)

\* The socket is closed, if there is one.
CloseSocket(n) ==
  IF ch.link = NoLink THEN n ELSE [n EXCEPT ![ch.link].open = FALSE]

Unconnected(c) == [c EXCEPT !.sock = "none", !.link = NoLink, !.est = FALSE]

\* onSocketDisconnected, onSocketError; reset and scheduleReconnect
Dropped(c) == [Unconnected(c) EXCEPT !.timer = @ \/ c.peer]

\* disconnect: m_peerId is 0 before the socket is aborted.
Stopped(c) ==
  [Unconnected([c EXCEPT !.peer = FALSE]) EXCEPT !.timer = FALSE, !.failing = FALSE]

\* A slot that neither end uses.
Free(k) == ~net[k].open /\ net[k].server \in {"none", "closed"}

\* connectToServer, connectTo with a channel c that has no socket
Dial(c) ==
  \/ /\ \E k \in Links :
          /\ Free(k)
          /\ ch' = [c EXCEPT !.sock = "connecting", !.link = k, !.est = FALSE,
                             !.timer = FALSE, !.unable = FALSE]
          /\ net' = [net EXCEPT ![k] = [Unused EXCEPT !.open = TRUE]]
     /\ NoFault
  \/ \* ::connect fails at once, for want of a route, and the result is ignored
     /\ kind = "cli"
     /\ Fault
     /\ ch' = [c EXCEPT !.est = FALSE, !.timer = FALSE, !.unable = TRUE]
     /\ UNCHANGED net

\* The room is ready: startTunDataPlane.
Start ==
  /\ ~ch.peer /\ ch.session # 0
  /\ Dial([ch EXCEPT !.peer = TRUE])
  /\ UNCHANGED <<kind, server>>

\* onReconnectTimer, checkTimeouts, which sees to a failed send first
ReconnectTimer ==
  /\ ch.timer /\ ~ch.failing
  /\ IF ch.peer /\ ch.sock = "none" /\ ch.session # 0
     THEN Dial([ch EXCEPT !.timer = FALSE])
     ELSE ch' = [ch EXCEPT !.timer = FALSE] /\ NoFault /\ UNCHANGED net
  /\ UNCHANGED <<kind, server>>

\* The cipher cannot encrypt any more: requestNewSecuritySession.  The CLI
\* resets only the connection.
Exhausted ==
  /\ ch' = IF kind = "gui" THEN [Stopped(ch) EXCEPT !.session = 0]
           ELSE [ch EXCEPT !.sock = "none", !.link = NoLink, !.session = 0]
  /\ net' = CloseSocket(net)

\* onSocketConnected, onWritable: the server has accepted, INIT is sent.
Connected ==
  /\ ch.sock = "connecting" /\ ~net[ch.link].stalled
  /\ \/ /\ ch' = [ch EXCEPT !.sock = "connected"]
        /\ net' = [net EXCEPT ![ch.link].server = "pending",
                              ![ch.link].init = ch.session]
        /\ NoFault
     \/ Fault /\ Exhausted
  /\ UNCHANGED <<kind, server>>

\* The connection is refused, or the kernel gives up on it.
ConnectError ==
  /\ ch.sock = "connecting"
  /\ IF net[ch.link].stalled THEN NoFault ELSE Fault
  /\ ch' = Dropped(ch)
  /\ net' = CloseSocket(net)
  /\ UNCHANGED <<kind, server>>

\* MSG_DATA_CHANNEL_ACK
Ack ==
  /\ ch.sock = "connected" /\ net[ch.link].ack /\ ~net[ch.link].stalled
  /\ ch' = [ch EXCEPT !.est = TRUE]
  /\ net' = [net EXCEPT ![ch.link].ack = FALSE]
  /\ UNCHANGED <<kind, server, faults>>

\* The end of the stream, which may overtake an ACK.
Closed ==
  /\ ch.sock = "connected" /\ net[ch.link].server = "closed" /\ ~net[ch.link].stalled
  /\ ch' = Dropped(ch)
  /\ net' = CloseSocket(net)
  /\ UNCHANGED <<kind, server, faults>>

\* A frame that is malformed, or that does not decrypt: handleMalformedFrame,
\* failDataChannelFrame.
Malformed ==
  /\ ch.sock = "connected"
  /\ Fault
  /\ ch' = Dropped(ch)
  /\ net' = CloseSocket(net)
  /\ UNCHANGED <<kind, server>>

\* Nothing for TCP_RELAY_DEAD_MS: onKeepaliveTimer, checkTimeouts.  Only an
\* established channel is watched.
Silence ==
  /\ ch.est
  /\ ch.link # NoLink => net[ch.link].stalled
  /\ ch' = Dropped(ch)
  /\ net' = CloseSocket(net)
  /\ UNCHANGED <<kind, server, faults>>

\* The kernel gives up on an INIT that nobody acknowledges.
KernelGivesUp ==
  /\ ch.sock = "connected" /\ net[ch.link].stalled /\ net[ch.link].init # 0
  /\ ch' = Dropped(ch)
  /\ net' = CloseSocket(net)
  /\ UNCHANGED <<kind, server, faults>>

\* isConnected, by which the relay chooses its way
IsConnected == ch.est /\ (kind = "gui" => ch.sock = "connected")

\* A frame of the relay, or a ping, finds the send buffer full.
SendFull ==
  /\ kind = "cli" /\ IsConnected /\ ch.sock = "connected"
  /\ Fault
  /\ ch' = [ch EXCEPT !.failing = TRUE]
  /\ UNCHANGED <<kind, net, server>>

\* A frame of the relay, or a ping, finds the counter used up.
SendLast ==
  /\ IsConnected /\ ch.sock = "connected"
  /\ Fault
  /\ Exhausted
  /\ UNCHANGED <<kind, server>>

\* checkTimeouts with m_sendFailurePending
SendFailed ==
  /\ ch.failing
  /\ ch' = [Dropped(ch) EXCEPT !.timer = TRUE, !.failing = FALSE]
  /\ net' = CloseSocket(net)
  /\ UNCHANGED <<kind, server, faults>>

\* The room is left: teardownTun.
Stop ==
  /\ ch.peer
  /\ Fault
  /\ ch' = Stopped(ch)
  /\ net' = CloseSocket(net)
  /\ UNCHANGED <<kind, server>>

\* The signalling connection ends: teardownTun and clearSecurityContext.
SignalLost ==
  /\ ch.session # 0 \/ ch.peer
  /\ IF ch.session = 0 THEN NoFault ELSE Fault
  /\ ch' = [Stopped(ch) EXCEPT !.session = 0, !.unable = FALSE]
  /\ net' = CloseSocket(net)
  /\ UNCHANGED <<kind, server>>

\* installSecureSession after a login; the server's old session is gone.
Login ==
  /\ ~ch.peer /\ ch.session = 0 /\ ch.sock = "none"
  /\ server.session = 0 /\ server.last < MaxSessions
  /\ server' = [server EXCEPT !.session = server.last + 1, !.last = @ + 1]
  /\ ch' = [ch EXCEPT !.session = server.last + 1]
  /\ UNCHANGED <<kind, net, faults>>

-----------------------------------------------------------------------------
(* The network and the server *)

Stall ==
  /\ Fault
  /\ \E k \in Links :
       /\ net[k].open /\ ~net[k].stalled
       /\ net' = [net EXCEPT ![k].stalled = TRUE]
  /\ UNCHANGED <<kind, ch, server>>

\* BUG: the old channel stays open.
UnboundOpen(n) == n

\* closeDataChannel
Unbound(n) ==
  IF server.bound = NoLink THEN n ELSE [n EXCEPT ![server.bound].server = "closed"]

\* BUG: a session that has a channel keeps it.
BindFirst(k) ==
  LET n == [net EXCEPT ![k].init = 0]
      ok == net[k].init = server.session /\ server.bound = NoLink
  IN /\ net' = [n EXCEPT ![k].server = IF ok THEN "bound" ELSE "closed", ![k].ack = ok]
     /\ server' = IF ok THEN [server EXCEPT !.bound = k] ELSE server
     /\ NoFault

\* onSecureDataChannelInit; the ACK may find no room in the budget, which
\* closes the new channel.
BindData(k) ==
  LET n == [net EXCEPT ![k].init = 0]
  IN \/ /\ net[k].init # server.session
        /\ net' = [n EXCEPT ![k].server = "closed"]
        /\ UNCHANGED server /\ NoFault
     \/ /\ net[k].init = server.session
        /\ net' = [Unbound(n) EXCEPT ![k].server = "bound", ![k].ack = TRUE]
        /\ server' = [server EXCEPT !.bound = k]
        /\ NoFault
     \/ /\ net[k].init = server.session
        /\ Fault
        /\ net' = [Unbound(n) EXCEPT ![k].server = "closed"]
        /\ server' = [server EXCEPT !.bound = NoLink]

ServerReads ==
  /\ \E k \in Links :
       /\ net[k].server = "pending" /\ net[k].init # 0 /\ ~net[k].stalled
       /\ BindData(k)
  /\ UNCHANGED <<kind, ch>>

\* The server reads the end of a stream, or gives up on a connection that
\* has sent nothing for 10 s.
ServerCloses ==
  /\ \E k \in Links :
       /\ net[k].server \in {"pending", "bound"}
       /\ \/ ~net[k].open /\ ~net[k].stalled
          \/ net[k].server = "pending" /\ net[k].stalled
       /\ net' = [net EXCEPT ![k].server = "closed"]
       /\ server' = IF server.bound = k THEN [server EXCEPT !.bound = NoLink] ELSE server
  /\ UNCHANGED <<kind, ch, faults>>

\* destroyClient: the server sees the signalling connection end.
SessionEnds ==
  /\ server.session # 0
  /\ IF ch.session = 0 THEN NoFault ELSE Fault
  /\ server' = [server EXCEPT !.session = 0, !.bound = NoLink]
  /\ net' = Unbound(net)
  /\ UNCHANGED <<kind, ch>>

Next ==
  \/ Start \/ ReconnectTimer \/ Connected \/ ConnectError \/ Ack \/ Closed
  \/ Malformed \/ Silence \/ KernelGivesUp
  \/ SendFull \/ SendLast \/ SendFailed
  \/ Stop \/ SignalLost \/ Login
  \/ Stall \/ ServerReads \/ ServerCloses \/ SessionEnds

Spec == Init /\ [][Next]_vars

\* Timers fire, the kernel reports what it knows, and the server serves its
\* events.  Nothing is assumed of faults, of the user, or of a stalled
\* connection that nobody watches.
FairSpec ==
  /\ Spec
  /\ WF_vars(ReconnectTimer) /\ WF_vars(Connected) /\ WF_vars(ConnectError)
  /\ WF_vars(Ack) /\ WF_vars(Closed) /\ WF_vars(Silence)
  /\ WF_vars(KernelGivesUp) /\ WF_vars(SendFailed)
  /\ WF_vars(ServerReads) /\ WF_vars(ServerCloses)

-----------------------------------------------------------------------------
(* Properties *)

\* Every variable has its type, and a socket is a connection that is open.
TypeOK ==
  /\ kind \in {"gui", "cli"}
  /\ ch \in Channels
  /\ net \in [Links -> Connections]
  /\ server \in [session : 0 .. MaxSessions, last : 0 .. MaxSessions,
                 bound : Links \cup {NoLink}]
  /\ faults \in 0 .. MaxFaults
  /\ {k \in Links : net[k].open} = {ch.link} \ {NoLink}
  /\ (ch.sock = "none") = (ch.link = NoLink)

\* A channel that is wanted and has no socket is about to be tried again,
\* whatever ended the last one; only a CLI whose connect failed at once has
\* given up (connectTo cleared m_needReconnect and its result is ignored).
NotStranded ==
  ch.peer /\ ch.session # 0 /\ ch.sock = "none" => ch.timer \/ ch.unable

\* Once disconnect has returned nothing revives the channel, although
\* aborting the socket calls onSocketDisconnected in the middle of it.
StopIsFinal ==
  ~ch.peer => ch.sock = "none" /\ ~ch.timer /\ ~ch.est

\* The channel follows the room: wanted, it is there or tried again, and
\* unwanted it is gone.
FollowsRoom == NotStranded /\ StopIsFinal

\* The relay prefers an established channel: the server has bound this very
\* connection, under the client's session, and if it has let it go since,
\* it has closed it, which the client will see.
EstablishedBound ==
  /\ TypeOK
  /\ IsConnected /\ ch.session # 0 =>
       /\ ch.sock = "connected"
       /\ net[ch.link].server \in {"bound", "closed"}
       /\ net[ch.link].server = "bound" =>
            server.bound = ch.link /\ server.session = ch.session

\* What the steps on the way keep: the two ends agree on what is bound, an ACK
\* is sent only for what was, an INIT is of the client's session, and a
\* channel without a session has no socket.
EndsAgree ==
  /\ \A k \in Links : net[k].server = "bound" <=> server.bound = k
  /\ \A k \in Links : net[k].ack => net[k].server \in {"bound", "closed"}
  /\ server.session = 0 => server.bound = NoLink
  /\ ch.sock = "connecting" => net[ch.link].server = "none"
  /\ ch.link # NoLink => net[ch.link].init \in {0, ch.session}
  /\ ch.link # NoLink /\ server.bound = ch.link => server.session = ch.session
  /\ ch.session = 0 => ch.sock = "none"
  /\ ch.est => ch.sock = "connected" \/ ch.session = 0
  /\ ch.failing => ch.peer

\* The channel is what the room and the server take it for: the inductive
\* invariant of the proofs.
ChannelSound == FollowsRoom /\ EstablishedBound /\ EndsAgree

\* Connected, with nothing under way, no answer to come and nobody to notice.
HalfOpen ==
  /\ ch.sock = "connected" /\ ~ch.est
  /\ net[ch.link].stalled /\ net[ch.link].init = 0

\* While client and server keep a session and the room, the channel comes
\* back after every fault, also when the INIT of an abandoned connection
\* displaces a later one.  Two things can keep it away: a CLI that gave up,
\* and a connection that stalls between INIT and ACK, when keepalive has not
\* begun.
ChannelReturns ==
  <>[](ch.peer /\ ch.session # 0 /\ ch.session = server.session) =>
    <>[](\/ ch.est /\ server.bound = ch.link
         \/ ch.unable
         \/ HalfOpen)
=============================================================================
