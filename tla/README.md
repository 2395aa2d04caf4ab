# VLan: a TLA+ model of the virtual LAN relay and its clients

VLan (protocol v9, source v0.3.4) puts players in a virtual LAN. A Linux server
holds rooms and relays traffic; a Qt client for Windows and a command line
client prepare a virtual adapter, log in, create or join a room and exchange
packets. This directory models the parts of that program whose correctness
depends on the order of events, checks them with TLC on small instances, and
proves the central invariants with TLAPS for every size.

Paths below are relative to the repository (`src/` in `PROJECT.json`).

## 1. The system

| Part | Source | State it keeps | Operations |
|---|---|---|---|
| Room membership and leases | `server/src/signal_server.*`, `room.h`, `room.cpp` | sessions by socket, index from peer id to session, freed peer and room ids, rooms with leases, the published room list | LOGIN (new or resume), CREATE_ROOM, JOIN_ROOM, AUTH_RESPONSE, RESUME_ROOM, LEAVE_ROOM, LOGOUT, LIST_ROOMS, disconnect, periodic scan |
| Session encryption | `common/secure_frame.h`, `common/payload_cipher.h`, client `tunnel_manager`, `data_channel`, `signal_client` | keys, send counter, replay window per channel | install, encrypt, decrypt, wipe |
| Background password derivation | `common/auth_kdf_task.h`, client `signal_client` | queued request, result, generation; the operation that waits | start, cancel, poll, destroy; the handshake and the room operations |
| CLI room operation | `client-cli/src/cli_app.*`, `cli_tun_lifecycle.h`, `common/room_operation.h` | phase and deadline of the operation, the worker job and its events, the flags of logout, recovery and reconnect | commands, answers, timers, worker stages |
| GUI room operation | `client/src/network/room_manager.*`, `core/tun_lifecycle_task.h`, `ui/mainwindow.cpp` | as above, with connection attempts, resume lease, a detached worker and snapshots | as above, and quitting |
| Room list synchronisation | `signal_server.cpp`, both clients | revision, published list; cache and snapshot | LIST_ROOMS, page, push, resync |
| Server connections | `signal_server.cpp` | descriptors, connections to be classified, sessions, data channels, send buffers, budget, counters per address | accept, classify, promote, bind, relay, flush, tear down |
| Data channel | `data_channel.*`, `cli_net.cpp` | socket, established flag, reconnect timer, session | connect, INIT, ACK, keepalive, reconnect, stop |
| Probe quality | `common/probe_quality.h`, `peer_connection.cpp` | window of probes, last reply, outage and failure flags | send, commit, answer, expire, reset |
| Members and links | `room_manager.cpp`, `cli_app.cpp`, `signal_server.cpp` | members known, announcements kept while preparing, links per traffic class, what waits to be rebuilt | PEER_JOINED, PEER_RESUMED, PEER_LEFT, RELAY_READY, link lost, readiness |
| Server handshake | `signal_server.cpp` | nonce, salt, ephemeral keys, lockout | HELLO, AUTH |
| Peer transports | `raw_udp_tunnel.*`, `kcp_tunnel.*`, `fec_codec.*`, `cli_peer.*`, `cli_fec.*` | partial packets, FEC groups | send, receive, expire |
| Adapters, codecs, windows, installation | `tun_adapter.*`, `common/*validator.h`, `client/src/ui`, `server/install.sh` | operating system objects, none, widgets, files | native calls, parsing, presentation, I/O |

How they interact. The server is one thread over `epoll`; a handler runs to its
end, and handlers call each other. Each client has a network thread (the Qt
event loop, or the CLI's `select` loop) and up to two workers: one derives
password hashes, one owns the virtual adapter. Network thread and worker share
only the fields guarded by the worker's mutex and a few atomics. Client and
server exchange frames on three channels: the signalling connection, a second
TCP connection for relayed data, and UDP. Each has its own cipher keys, all
derived from the master of one authenticated session.

What is hard to get right, and hard to test:

- **identity across connections.** A member that loses its connection keeps a
  lease; the same identity may be claimed by a new connection while the server
  still holds the old one, may be logged in but not resumed, may expire
  meanwhile, or may be named by a client whose room id is in use again;
- **one step of several failing.** A lease is given, announced and listed around
  a response that may fail to be sent; every prefix must be undone or kept as a
  whole;
- **nonces.** The same master is installed several times, on three channels with
  three different policies, over a network that repeats and reorders;
- **workers.** A result may arrive for a request that was cancelled, replaced or
  restarted; a notification may fall between a test and a wait; an object may
  be destroyed while the worker computes;
- **descriptors.** The kernel hands out a closed descriptor again at once, and a
  batch of events may still name its former owner; a data connection may be
  replaced while a frame for the old one is half sent;
- **lost announcements.** Lists, members and links are built from messages that
  may be refused by the send budget, arrive while the client is not ready for
  them, or belong to an earlier session of their subject;
- **32-bit time** that wraps around while probes are open;
- **timers and answers** that cross: deadlines, LOGOUT_ACK, the reconnect after
  a lost connection and the single login after a recovery share a dozen flags.

`PROJECT.json` lists the hazards with their lines and the properties that would
catch each of them. Where a property catches only a part, because the code is
exposed to the rest, the note of the hazard says which part.

## 2. Modules

| Module | Models | Run | Proofs |
|---|---|---|---|
| `RoomServer` | membership core of the server | `rooms`, `rooms_reuse`, `rooms_live` | `RoomServerProofs` |
| `FrameChannel` | what an encrypted channel promises (abstract) | | |
| `SecureFrame` | cipher, keys and the three channels; implements `FrameChannel` | `frames_udp` | `SecureFrameProofs` |
| `AuthKdf` | derivation worker and the client's handshake and room requests | `auth_kdf` | `ClientNetProofs` |
| `CliRoom` | the CLI's room operation and adapter worker | `cli_room` | `CliRoomProofs` |
| `GuiRoom` | the GUI's room operation, connection attempts, adapter worker and quitting | `gui_room` | `GuiRoomProofs` |
| `ServerChannels` | connections, data channels and buffers of the server | `server_channels` | `ServerChannelsProofs` |
| `RoomListView` | what a client's room list promises (abstract) | | |
| `RoomListSync` | pages and deltas between server and client; implements `RoomListView` | `room_list` | `RoomListSyncProofs` |
| `DataChannel` | the second connection of either client, with the server that binds it | `data_channel` | `ClientNetProofs` |
| `ProbeQuality` | the quality of one path to one peer | `probe_quality` | `PeerProofs` |
| `PeerLinks` | members and links at every client of a room, with the server between them | `peer_links` | `PeerProofs` |
| `MC...` | instances for TLC | | |

Definitions marked `BUG:` are mutated forms of the definition that follows
them. Each changes the code the way a plausible mistake would, and exists to
show that a property notices it; no specification uses them.

### RoomServer

`srv` holds the members of `SignalServer`: `clients` (the session of every
socket), `peerMap`, `freePeerIds`, `nextPeerId`, `rooms` with their leases,
`freeRoomIds`, `nextRoomId`, and `published`, the list last pushed. Methods are
operators from one such record to the next (`EnsureHost`, `AllocateVirtualIP`,
`CleanupExpiredLeases`, `Destroy`, `RollbackNewMembership`, ...), and an action
composes them in the order of the handler. An action that answers its client
has two outcomes: the response is queued, or it is not, the session is marked
dead and `destroyClient` follows before the next event (`Respond`). Sends to
*other* members are not required to succeed: `SessionDies` and `SendDropped` are
the two ways `sendFrame` ends such a send.

Abstracted data: a lease token is a number never drawn before; a room password
is a secret number drawn per room, so a proof for one room does not fit another;
`expiresAt` is a number of ticks; names, traffic policies and rate limits decide
only refusals that change nothing. `issued`, `told` and `gap` are history: the
credentials clients received, the members announced to a connection, and
whether an announcement to it was dropped.

### SecureFrame

`Context` chooses the channel, because the three treat a second installation of
the same master differently: `TunnelManager::installSecureSession` resets its
UDP cipher and starts its counters again, `DataChannel` keeps the cipher it has,
`SignalClient` installs once. `cipher` and `server[k]` are `SecureFrameCipher`s
(counter, replay maximum, ring of bits); `sealed` and `opened` count how often
each frame was encrypted and accepted. The network is every frame ever sealed:
any of them may arrive, any number of times, in any order, or never. The AEAD
and the key derivation are external: a frame opens only under its own key,
direction and counter, and a master is never derived twice.

`FrameChannel` is the promise: a frame is sealed at most once (no nonce is
reused), and opened at most once and only after it was sealed.

### AuthKdf

`task` and `worker` are `AuthKdfTask`: a region under `m_mutex` is a step, the
hash is computed outside it, the wait may end spuriously, and the destructor
sets `m_stop` under the lock and notifies after it. `signal` is the part of
`SignalClient` that asks for hashes: the handshake with its password (which may
be replaced while a hash is computed), creating and joining protected rooms, and
everything that cancels. A restarted handshake keeps its salt, so request and
result cannot be matched by salt alone; room answers carry no correlation id and
may arrive late. The specification is `KdfSpec`, and its parts are named `Kdf...`
too, so that one module (`ClientNetProofs`) can hold the theorems about it and
about `DataChannel`; the two share no variable.

### CliRoom

`cli` holds `CliApp`'s members and the job it shares with its worker. The
handler `pollRoomOperation` looks at the job twice and is two actions
(`PollEvents`, `PollDone`); every other handler touches it once. `cancel()` sets
an atomic and notifies without the mutex, so the worker's test of its predicate
(`WorkerTest`) and its going to sleep (`WorkerSleep`) are separate steps.
`PreparingAdapter` and `WaitingReadiness` are one phase because no code tells
them apart but their deadlines, and a deadline is the flag `late`. The
generation of a setup is compared only for equality and becomes `job.current`.
The server's side is external: it answers requests in order and none after
LOGOUT. The command `server` replaces the host and gives up the lease, but not
`m_wantReconnect`, `m_wasInRoom` and the saved name of the room: a client whose
connection has broken looks for its old room on the new server.

### GuiRoom

`gui` holds the members of `RoomManager`, of its `SignalClient` and of the part of
`MainWindow` that disconnects, cancels and quits, and the state shared with
`GuiTunLifecycleTask`. A slot or a timer callback is one action.
`QTcpSocket::abort` emits `disconnected` from inside the call, so every handler
that closes the socket runs `onSignalDisconnected` in its middle, at the point
where the code does. A timer that compares `m_connectionGeneration` is in the
state only while it would match. The slot of `serverError` posts its call of
`disconnectFromServer` with a timer of 0 ms; `deferred` records that it is posted,
and other handlers may run first (`DeferredDisconnect`). The worker's wait after an exception that
follows Ready is untimed and split into test and sleep, as in `CliRoom`.

### ServerChannels

One event of `epoll_wait` is one action; `closed` and `fresh` are the descriptors
closed and accepted since `epoll_wait` returned, so that `Event` can name a
descriptor whose connection is gone. `accept` returns the lowest free descriptor,
as POSIX requires. Frames have the size one, and a queue records for which
connection each frame was meant. Membership is reduced to the state `Room`.

### RoomListSync

The server's `rooms`, `published` and `revision`, one client's cache and partial
snapshot, and the messages between them. `broadcastRoomListPush` counts the
revision before it finds a delta too large; `Published` does the same.
`versions` is history: the list at every revision. `RoomListView` is the promise: what the
client shows is one whole version, never an earlier one than before, until the
connection ends.

### DataChannel

`ch` is the client's channel, `kind` says which client it is (they differ when a
connection cannot be begun, when a buffer is full and when the counter is used
up), `net` the connections, which break with or without notice, and `server` the
session with the connection it has bound. Closing a socket runs the disconnect
handler inside the call.

### ProbeQuality

One tick is a second; `Now` is the wrapped reading of the code, `clock` the true
time, and `truth` records the true times of what the tracker keeps, for the
properties only. A probe is recorded, handed to the transport and committed in
separate steps, because `sendLatencyPing` can fail in between. A path sends at
most one probe a second, so a probe is named by its second and the deque
`m_records` is a function from these names; what leaves the window from the front of
the deque is what precedes the first record young enough to stay.

### PeerLinks

Each client has a phase, the members and relays it was told of while preparing
(`members`, `relays`), the members it knows, its links per traffic class, and
what waits to be rebuilt. The server's handlers send JOIN_RESP, PEER_JOINED,
PEER_RESUMED, PEER_LEFT and RELAY_READY over ordered connections; the two ends
of a connection notice a break at different times. Any of these messages may be
refused by `appendSendBuffer` when too much waits to be sent. Without its
JOIN_RESP a new member is rolled back, one that resumes is offline again, and the
session is closed (`isRequiredControlResponse`); the other messages are optional,
the session goes on without them and nothing is sent a second time. `unheard` and
`unanswered` are history: the members of whom a client was refused news that no
later PEER_RESUMED or PEER_LEFT has made up for, and those for whom the answer to
its last request was refused. The third refusal in a row closes the connection,
which is one of the breaks that may happen at any time. A session number stands for
the session of a member that a message is about (the number of the request
that began it); no client can read it.

## 3. What the runs check

### 3.1 Runs

All runs pass (a state count is of distinct states):

| Run | Instance | Shows |
|---|---|---|
| `rooms` | 3 connections, 3 peer ids, 2 rooms for 2 members, 2 tokens; 358 772 states | A peer has at most one lease, freed rooms are empty, members fit in, have different addresses and a host among them (`RoomsSound`); members and online leases correspond (`MembersHoldLeases`); a connection knows the members of its room and the published list is current (`ToldTrue`); a lease that has not expired keeps its token and address until its own live session leaves or logs out, whatever connection breaks, is taken over or loses an answer (`LeasesSurviveFailures`); a failed request leaves no trace (`FailedRequestsInvisible`) |
| `rooms_reuse` | 2 connections, 1 room id used for up to 3 rooms | A session enters a protected room only with that room's password or a lease it was issued (`ProtectedEntry`); the inductive invariant of the proof, with the exact index and the fresh identifiers (`MembershipInv`) |
| `rooms_live` | 2 connections, 1 room, 2 ticks | The lease of a member that is gone is removed (`AbandonedLeasesExpire`) |
| `frames_udp` | 2 sessions, counters to 3, window 2; 515 042 states | Counters are fresh, windows exact (`ChannelInv`), and the UDP channel implements `FrameChannel` (`ChannelPromise`), although its cipher is installed twice per session. The data and signalling channels are covered by the proofs |
| `auth_kdf` | 2 passwords, 5 salts, 5 attempts; 38 798 states | A result belongs to the operation, salt and password of now (`ResultCurrent`); a waiting operation has exactly one request, secrets do not linger, no wake-up is lost (`AuthInv`); an operation does not wait for ever (`AuthCompletes`); the destructor returns (`StopJoins`) |
| `cli_room` | the real limit of 5 reconnects; 8 650 states | The borrowed adapter is alive (`AdapterBorrowed`); the phase of the tracker is true of the request, the job and the room, the lobby is not left in CleaningUp, and a recovery plans no second reconnect and no rejoin (`FlagsAgree`; other flags may outlive their room, section 3.3); every operation and recovery ends (`OperationResolves`, `RecoveryEnds`) |
| `gui_room` | 3 reconnect attempts; 31 962 states | The flags, the tracker and the task agree and the lobby is not left in CleaningUp (`FlagsAgree`, which leaves out `m_manualDisconnecting`, section 3.3); the borrowed adapter is alive and none is left behind by quitting (`AdapterBorrowed`); nothing is replayed by or after a recovery (`NoReplay`); operations, recoveries and the program end (`OperationResolves`, `RecoveryEnds`, `QuitCompletes`) |
| `server_channels` | 3 connections of 2 addresses over 3 descriptors, buffers of 2, a budget of 3 | Budget, descriptors and address counters are exact (`AccountsExact`); an event left over in a batch reaches no session and no data channel (`StaleEventsMissSessions`); nothing queued for one data connection is written to another (`StreamsSeparate`) |
| `room_list` | 3 room ids, 2 rooms at a time on a page each, 4 revisions, 3 refused messages; 200 055 states | Messages and copies agree with the list at their revision, and no delta is dropped since two lists fit in its budget (`ListInv`); the client implements `RoomListView` (`ViewSpec`) and catches up in the end (`ListCatchesUp`) |
| `data_channel` | both clients, 3 connections, 2 sessions, 4 faults | A wanted channel is there or tried again, an unwanted one is gone, and an established one is the one the server has bound (`ChannelSound`); the channel comes back after every fault (`ChannelReturns`) |
| `probe_quality` | 8 s across the wrap of a clock of period 17, timeout 2, window 5, 3 faults | Loss and latency shown are true (`ReportsTrue`); silence is noticed (`SilenceNoticed`); an outage is raised and lifted only when earned (`OutageEarned`) and lifted promptly (`RecoveryPrompt`) |
| `peer_links` | 2 members, 2 traffic classes, 3 joins or resumes, 1 failure (a step that refuses messages, or a check that finds links dead); 913 935 states | What waits to be rebuilt is recorded exactly (`RebuildExact`); a client that has read its messages knows the members and has no link of an earlier session (`MembersCurrent`); every missing link is asked for (`MissingIsAskedFor`); members that stay are linked in the end (`LinksSettle`); all three but for members of whom the last news, or the last answer, was refused |

### 3.2 Bounds and fairness

Why the bounds are enough. Three connections are the least in which a takeover,
a bystander of the room and a newcomer meet; two rooms let an identity be
confused between rooms; a capacity of two makes a room full. Identifiers and
tokens run out within the bounds, so exhaustion is reached, and the reuse run
spends all tokens on one room id. Counters to three and a window of two make
the ring turn over and reach the reserved last counter. Five salts and five
generations allow a restart during every stage of a derivation. `CliRoom` and
`GuiRoom` have no bound but the number of reconnects. Three descriptors hold a
session, its data channel and one more, so a descriptor is reused as any of the
three kinds while the batch may name it as another; three frames fill the budget
before the second buffer. Four revisions with two pages allow a change between
any two messages of a snapshot, and three losses one at each stage. Three
connections of a data channel are the one in use, one that is abandoned and one
that arrives late. The clock of `ProbeQuality` wraps in the middle of the run; the
assumption `2 * Horizon < ClockMod` is the code's ("retained intervals are far
shorter than 2^31 ms"). Three joins or resumes let one member return while the
other prepares, is ready, or has lost its connection; one failure lets every
message of the protocol be refused, alone or with others of its step. The two
members are alike, so the run calls the one that joins first 1 (`OneIsFirst`, an
action constraint of the instance). The proofs cover every
other size for the properties they state.

Deadlock is not checked where the instance really stops: `frames_udp` (all keys
used), `data_channel` and `peer_links` (all faults used and everything settled),
`probe_quality` (the horizon). `AuthKdf`, `CliRoom` and `GuiRoom` stutter once the
task, or the program, has ended.

Fairness, and what in the code justifies it:

- `RoomServer`: weak fairness of `Tick` and `CheckTimeouts`: the event loop
  calls `checkTimeouts` every few seconds whatever the clients do;
- `AuthKdf`: weak fairness of the worker's steps (Argon2 terminates), of the
  poll (a 10 ms timer) and of the rest of a destructor that has begun;
- `CliRoom`: weak fairness of the worker's steps (native calls return), of the
  clock, of the two halves of the poll and of the end of the loop; strong
  fairness of the logout deadline, because each turn of the loop tests it but a
  poll in progress disables it for a moment. Nothing is assumed of the server,
  the user, or spurious wake-ups;
- `GuiRoom`: weak fairness of the worker's steps, of every timer, of name
  resolution and of a connection attempt, which ends if only by its timeout. Of
  the call posted by `serverError` nothing is assumed, and nothing needs it;
- `RoomListSync`: the server answers what it reads, TCP delivers, and the GUI's
  15 s refresh fires (the CLI has no such timer: its list catches up with the
  next message or request);
- `DataChannel`: timers fire, TCP delivers or reports an error unless the
  connection stalls, a stall is noticed by keepalive or by the kernel, and the
  server reads and closes;
- `PeerLinks`: one weak fairness over all deliveries to clients and to the
  server. Nothing is assumed of joins, breaks, dead links and refusals, which are
  bounded.

### 3.3 Observed while modelling

The definitions named here state what the repository says of the program and do
not hold; no run checks them, and adding one to the configuration of its module
shows the behaviour.

- `CliRoom.CancelCompletes`: `cancel()` (`cli_tun_lifecycle.h:101`) notifies
  without the mutex. When it falls between the worker's test and its wait, the
  worker sleeps for ever and the client refuses every further connect and room
  request. `README.md:46`: "取消后等待旧任务安全清理，再允许新建网卡".
- `CliRoom.FailureHandled`: `pollRoomOperation` empties the queue and then tests
  `done()` (`cli_app.cpp:1851`). A failure reported in between is dropped with
  the job, without logout or recovery. `client-cli/README.md:69`:
  "准备阶段失败按下述注销与恢复流程处理".
- `CliRoom.AnswersAccepted`: `finishGracefulDisconnect` (`cli_app.cpp:1433`) does
  not clear `m_roomReady`; after a disconnect from within a room the answer to
  the next room request is ignored (`cli_app.cpp:1585`).
- `CliRoom.OneLobbyLogin`: on Linux a refused connect is reported as writable
  and readable (`cli_app.cpp:725`). `onReadable` then runs on the connection
  `onWritable` closed and starts the automatic reconnect that the recovery
  excludes. `client-cli/README.md:71`: "并仅尝试一次登录大厅".
- `GuiRoom.ReconnectContinues`: `onSignalDisconnected` (`room_manager.cpp:586`)
  returns at once while the phase is `Connecting`, which it still is during the
  handshake. A connection that breaks then leaves the client in `Connecting`
  with no further attempt. `docs/release-v0.3.1.md:11`: "网络故障继续退避重连".
- `GuiRoom.AnswersAccepted`: `disconnectFromServer` (`room_manager.cpp:290`) sets
  `m_manualDisconnecting` also when nothing is connected; the answer to the first
  room request of the next session may then be dropped at line 820.

Smaller observations, stated as exceptions in the properties concerned:

- GUI: an exception in the worker after Ready followed by a cancel between its
  test and its wait keeps the worker (`Thrown` in `RecoveryEnds` and
  `QuitCompletes`); a connect in the 100 ms between the end of the cleanup and
  its poll keeps the recovery active (`ConnectedByHand`).
- Server: an event left over in a batch can close a connection that has just been
  accepted and not yet been classified; only sessions and data channels are safe
  from it.
- Data channel: a CLI `connectTo` that fails at once is never retried (`unable`),
  and a connection that stalls between INIT and ACK is watched by nobody
  (`HalfOpen`).
- Probes: `m_lastReply` and `m_reference` are never aged, so that after a silence
  of exactly 2^32 ms an old round trip is shown again for up to ten seconds,
  although the comment at `probe_quality.h:219` speaks of retained intervals only.
- Members and links: PEER_JOINED, PEER_RESUMED, PEER_LEFT and RELAY_READY are
  optional, and the server never repeats one it has refused. A member can then
  stay unknown or be taken for its earlier session, and a link that was asked for
  can stay missing, while both connections live on, until the member resumes or
  leaves (`unheard`, `unanswered`; in `RoomServer`, `gap`). The refusal is the only
  cause: without one the properties hold, and a RELAY_READY refused on entering
  costs nothing because the client asks.
- Links: when one end alone declares a KCP link dead, only that end builds it
  anew; the other keeps its old KCP state under the same conversation number.
  KCP is external and the consequence is not modelled.

## 4. What is proved

The proofs hold for all values of the constants that satisfy the named
assumptions of each module (bounds are positive numbers, "none" values are not
members of the sets they extend, a window is not empty).

**RoomServer** (`RoomServerProofs`): `MembershipSafe`, and from it `TypeSafe`,
`IndexSafe`, `FreshIdsSafe`. Neither `IndexExact` nor `FreshPeerIds` is inductive.
`destroyClient` decides from the session whether the identifier is kept for a
lease; that decision is right only if the one lease a connected peer can have is
the lease its session is in or about to resume. `MembershipInv` therefore adds:
the fields of a session agree with its state (`Shaped`), a peer has at most one
lease, and that lease fits its session (`SessionLeaseIn`). The proof has lemmas
for each operator of the module (what `Destroy`, `CleanupExpiredLeases`,
`DropLease`, ... do to sessions, index, identifiers and leases), each
preserving `MembershipIn`, and one step per action that composes them.

The same module goes on from there. `SoundSafe` is a second inductive invariant
(`SoundInv`), and `RoomsSafe`, `LeasesSafe` and `ToldSafe` follow from it. None of the
three is inductive alone: the list is current only if the members counted in it
are, a session knows the members only if announcements reach exactly the sessions
of a room, and those are found through the leases and the index. `SoundInv` adds to
`MembershipInv`: a room exists if and only if it has members, they fit in, have
different addresses and the host is one of them (`RoomsIn`); a live session in a
room has its online lease with the same address and token (`SeatsIn`); a lease is
online only while the session that owns its identity is in that room (`OnlineIn`);
a session to which nothing was lost has been told of exactly the members
(`KnownIn`); the published list is the list (`ListedIn`). Within a handler the last
two are broken and repaired, so that the lemmas speak of one operator at a time:
those named `Exact` say what it does to rooms, sessions and announcements, those
named `Sound` that it keeps, or restores, the invariant.

The action properties are theorems too: `LossSafe`, `FailedSafe` and `EntrySafe`
(`ProtectedEntry` also needs `PendingSafe`: who waits to resume presents a credential
the server issued). Most steps are `Calm`: no token is new or different, nobody
is announced, no session enters a room. Calm steps compose, which covers handlers
that clean up first and those that end by destroying the session; a failed
request is calm because rolling it back leaves the holders as they were
(`RollbackStep`). What remains is entering (`EnterStep`, with the four grounds on
which a session is `Entitled`) and giving up one's own lease (`GivenUpStep`).
`LossSafe` speaks of token and address: a step that breaks a session off keeps both
in every lease that has not expired (`BreakLoss`), and where one is lost the step
is OnLeaveRoom or OnLogout of the session that owns it (`OwnSession`). That the
scan removes no lease whose session it has just found dead rests on the term
starting anew (`DestroyExpires`), for any term longer than 0.

**SecureFrame** (`SecureFrameProofs`): `ChannelSafe`, `WindowsSafe`,
`CountersSafe` and the refinement `ChannelRefines`. The counters are safe for the
UDP channel only because nothing has passed under a key by the time its cipher
is installed for the second time: `SessionShape` says that the channel is silent
until then. The window is exact because every bit stands for exactly one counter
among the last `Window`; the lemmas about `% Window` say that these do not
collide. The refinement needs both: an encryption is a `Seal` of an unused
frame, an accepted frame is an `Open` of an unopened one, all else stutters.

**AuthKdf** (`ClientNetProofs`): `AuthSafe`, and from it `ResultSafe`,
`LiveRequestSafe`, `WakeupSafe`. `ResultCurrent` is not inductive; `OneLiveRequest`
is the strengthening: the request of a waiting operation is in exactly one of
three places, and is current there. It rests on the generation being at least
the worker's (a cancellation makes a request in hand stale for ever) and on the
handshake and the room operations excluding each other by phase.

**RoomListSync** (`RoomListSyncProofs`): `ListSafe`, `DeltasSent` and the refinement
`ListRefines`. That the cache is the list of its revision is not inductive: it
depends on what the messages under way say. `ListInv` adds that every page and
every delta on the wire is the page or the difference of the lists at the
revisions it names (`MessageOK`), that revisions arrive in order, and that a
partial snapshot is the first pages of one list. The lemmas about pages (every
room is on one of `PageCount` pages; the next page extends the first ones; all of
them are the list) rest on division being monotone, those about deltas on the
cardinality of two lists. `DeltasSent` needs the assumption `2 * MaxRooms <=
DeltaBudget`, which the code meets: 128 rooms at most, hence at most 256 changes of
at most 79 bytes in 60000 bytes.

**DataChannel** (`ClientNetProofs`): `DataChannelSafe`. `FollowsRoom` and
`EstablishedBound` are not inductive: that an ACK establishes a channel which is
bound depends on what the server did with its INIT. `EndsAgree` adds that the two
ends agree on what is bound, that an ACK is sent only for what was, that an INIT
under way is of the client's session, and that a channel without a session has no
socket. The client's steps are instances of two lemmas, for giving up a socket
(`GivingUp`) and for dialling (`Dialling`); those of the server and the network of
a third (`OtherEnd`): what was bound once is bound or closed from then on.

**PeerLinks** (`PeerProofs`): `LinksSafe`, and from it `RebuildSafe`, `MembersSafe`
and `AskedSafe`. Only `RebuildExact` is close to inductive: what a client keeps
of its links (`LinkInv`) is preserved by its own handlers. That a client which has
read its messages knows the members depends on what was sent before: `NewsInv`
says of every member that is not `unheard` that the last message on the way which
tells of it says what is true at the server (a client whom none tells of a member
has the truth already), and that, if this message is a PEER_JOINED, which a client
that knows the member does not take for a new session, then the client has been
told before that the member was gone. Earlier messages may leave gaps where the
server refused some. `AskedInv` says that a missing link has a request on its way
to the server, or a message on its way to the client that makes it build the link
or ask, unless the news or the last answer was refused. Both need `ConnInv` and `JoinInv`: a client that has lost its connection
receives nothing more, one request to join is under way at most, and it comes
after the LEAVE of the room before. The lemmas about sequences say what happens
to these statements when the head is taken off and when a message is appended.

**ServerChannels** (`ServerChannelsProofs`): `GoodSafe`, and from it `AccountsSafe`,
`StaleSafe` and `StreamsSafe`. The accounts are not inductive alone: a buffer is given
back exactly because what one session holds is part of the sum, a counter of an
address is right because each descriptor has one use, and a failure counter stays
in its range only while a session that is alive may fail once more. `Good(s, f)` is
the invariant within the handler of an event of `f`: there, and only there, a
descriptor closed earlier in the batch may be in use, since a stale event can make
a session of a connection that has just been accepted. Each method has a lemma
that it preserves `Good`; `SessionStep` covers all that change one session only. The
sum over all buffers, the announcements and the two loops of `checkTimeouts` are
folds: that their recursion has a solution (`SumExists`, `CastExists`, ...) and what it
preserves is shown by induction over the subsets of a finite set
(`SubsetInduction`), which rests on the well-foundedness of the numbers. The proof
needs `MaxFailures > 0`; the code has 3.

**CliRoom** (`CliRoomProofs`): `CliSafe`, and from it `CliFlagsSafe` and
`CliAdapterSafe`. `AdapterBorrowed` is not inductive: CliApp borrows the adapter when
it takes Ready from the queue, and by then the worker might have moved on.
`JobSound` says it has not: a Ready in the queue of a job that was not cancelled was
put there by a worker that still lends, and the worker leaves that state only
when it is cancelled. `PhaseAgrees` needs `AgreeSound`: no setup is current but that of
the room being prepared or used, and none goes on once LOGOUT was sent, so that
an answer or a Ready that comes late finds the phase it belongs to. `LobbyUsable`
needs `PhaseSound`: a cleanup without a job, in a
session, waits for LOGOUT_ACK. `NoReplay` needs `FlagsSound`: a recovery has its
logout pending, the login that follows is scheduled only without a connection and
an attempt ends with the login, so that no other handler finds them half done.
`recoverRoomOperation` is called in the middle of handlers whose state is not sound
yet; `RecoverSound` says what little it needs.

**GuiRoom** (`GuiRoomProofs`): `GuiSafe`, and from it `GuiFlagsSafe`, `GuiAdapterSafe` and
the action property `GuiNoReplay`. The invariant is larger than that of the CLI
because RoomManager has connection attempts, timers and the end of the program
besides. `JobSound` and `RoomSound` carry the adapter: it is borrowed only in a room
that is ready, from a worker at a label where it only lends. `PhaseSound` and
`LogoutSound` say what a cleanup still waits for. `LinkSound` and `RetrySound` say that
a connection is made only while no task lives, and that a retry timer runs only
without a connection: `onSignalDisconnected` and `handleConnectionAttemptExhausted`
take the right branch because of them. `ResolveSound` is the least obvious part: a
name may be looked up beside a socket that is still connecting, but then for the
login after a recovery or for a client without plans, so that the timer which
follows a failed lookup never runs beside the socket. `QuitSound` keeps everything
quiet once the program quits. `GuiNoReplay` also needs that only LOGIN_RESP makes a
client logged in (`LoginOnly`, one case per action). Handlers call each other before
the state is sound again; `Base`, `Firm` and `Sound` are the invariant in three
strengths and each lemma names the one it needs.

Both invariants were checked by TLC before they were proved: as invariants of the
runs, and for inductiveness on states picked at random.

**ProbeQuality** (`PeerProofs`): `QualityInvariant`, and from it `QualityReportsTrue`,
`QualitySilenceNoticed`, `QualityRecoveryPrompt` and the action property
`QualityOutageEarned`. The code compares readings of a clock that wraps; the
properties speak of true time. `ReadingsTrue` relates the two: while a path is
followed for less than half the period of the clock (`2 * Horizon < ClockMod`, 24 days
in the code), the difference of two readings is the time between them and its sign
tells which was earlier. That is the range in which the code is right: `m_lastReply`
and `m_reference` are never aged (section 3). `ExpireTrue` then says once that `expire`,
given true records, decides what it would decide in true time. `QualityInv` carries
what makes the records true: every record has the reading of its own second, is
answered, lost or open as it really is, and is young whenever the timer is not due
(`RecordsTrue`); `lastReply` and `rtt` are those of the last accepted answer, whose record
is still kept while it is recent (`HeardTrue`); `reference` is the reading of a true time
that is not before the last answer and, on a watched path without an outage, not
long ago (`ReferenceTrue`), which is why silence cannot go unnoticed; and while no
answer counts towards the end of an outage, every answer since it was raised is
older than the timeout (`OutageTrue`), without which `RecoveryPrompt` is not inductive.
The subtle handler is the return of `sendControlPacket`: its probe may have been
forgotten meanwhile, be refused, or be committed and perhaps answered already
(`SendForgotten`, `SendRefused`, `SendCommitted`).

Only model-checked: the liveness properties, which with ENABLED are out of the
prover's reach. Every safety property of every run is proved.

## 5. Plan

Done: `RoomServer`, `SecureFrame` with `FrameChannel`, `AuthKdf`, `CliRoom`, `GuiRoom`,
`ServerChannels`, `RoomListSync` with `RoomListView`, `DataChannel`, `ProbeQuality`,
`PeerLinks`; proofs for `RoomServer`, `SecureFrame`, `AuthKdf`, `RoomListSync`,
`DataChannel`, `PeerLinks`, `ProbeQuality`, `ServerChannels`, `CliRoom` and `GuiRoom`.

### Not modelled

- the server's handshake: straight-line code over external cryptography, whose
  result (an authenticated session) is where `RoomServer` and `ServerChannels` begin;
- peer transports: KCP and cm256 are vendored, fragment reassembly and FEC work on
  bytes; when a transport is built, fails and is replaced is in `PeerLinks`, and
  what is measured on it in `ProbeQuality`;
- the forwarding of UDP datagrams (`relay_server.*`) and the learning of endpoints:
  one field per session, overwritten by every authenticated datagram;
- the virtual adapters: calls into Wintun, netlink and netsh, which `CliRoom` and
  `GuiRoom` take as stages that succeed, fail, throw or take too long;
- message codecs and validators: byte layouts without state; a refused frame is a
  disconnect in the models;
- windows, settings and logging, the installation scripts, and the vendored KCP,
  cm256 and Monocypher.
