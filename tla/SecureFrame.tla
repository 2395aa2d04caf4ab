----------------------------- MODULE SecureFrame -----------------------------
(***************************************************************************)
(* SecureFrameCipher (common/secure_frame.h) and the life of its keys: the *)
(* counters that make the nonces of a session, the replay window, and the  *)
(* places where a client and the server install, reinstall and wipe the    *)
(* cipher of one channel.                                                  *)
(*                                                                         *)
(* Every authenticated session derives a new master from fresh random      *)
(* nonces and ephemeral keys (deriveSecureMaster), so a key names one      *)
(* session and is never derived twice.  The server keeps a session, found  *)
(* by its id, until it destroys it: sessions the client has already given  *)
(* up may still send and receive.  AEAD is external: a frame opens only    *)
(* under the key, direction and counter it was sealed with, so a damaged   *)
(* or foreign frame changes nothing.  The network may lose, delay,         *)
(* duplicate and reorder the frames, as UDP does.                          *)
(***************************************************************************)
EXTENDS Integers

CONSTANTS
  Context,     \* the channel: "udp" (TunnelManager), "data" (DataChannel)
               \* or "signal" (SignalClient)
  Keys,        \* masters, one per authenticated session
  NoKey,       \* no session
  MaxCounter,  \* UINT64_MAX
  Window,      \* REPLAY_WINDOW
  Senders      \* the ends that send, "client" and "server"

ASSUME ContextAssumption == Context \in {"udp", "data", "signal"}
ASSUME NoKeyAssumption == NoKey \notin Keys
ASSUME CounterAssumption == MaxCounter \in Nat /\ Window \in Nat \ {0}
ASSUME SendersAssumption == Senders \subseteq {"client", "server"}

Counters == 0 .. MaxCounter

Frames == [from : {"client", "server"}, key : Keys, ctr : Counters]

Frame(from, k, n) == [from |-> from, key |-> k, ctr |-> n]

VARIABLES
  client,   \* the client's session and whether its channel may carry frames
  cipher,   \* the client's cipher
  server,   \* the cipher of each session the server holds
  used,     \* history: masters derived so far
  sealed,   \* history: how often each frame was sealed; the network holds them
  opened    \* history: how often each frame was opened

vars == <<client, cipher, server, used, sealed, opened>>

-----------------------------------------------------------------------------
(* SecureFrameCipher *)

Ciphers == [on      : BOOLEAN,
            send    : Counters,
            started : BOOLEAN,
            max     : Counters,
            bits    : SUBSET (0 .. (Window - 1))]

\* reset()
NoCipher == [on |-> FALSE, send |-> 0, started |-> FALSE, max |-> 0, bits |-> {}]

\* init() with new keys
FreshCipher == [on |-> TRUE, send |-> 0, started |-> FALSE, max |-> 0, bits |-> {}]

\* encrypt() fails closed on the last counter.
CanEncrypt(c) == c.on /\ c.send # MaxCounter

Encrypted(c) == [c EXCEPT !.send = (@ + 1) % (MaxCounter + 1)]

IsCounterAllowed(c, ctr) ==
  \/ ~c.started
  \/ ctr > c.max
  \/ c.max - ctr < Window /\ ctr % Window \notin c.bits

\* BUG: the window is cleared whenever it moves.
ClearedBits(c, ctr) == IF ctr > c.max THEN {} ELSE c.bits

\* The bits that survive when counter ctr arrives: a new maximum clears the
\* positions it moves over, all of them when it moves by the whole window.
MovedBits(c, ctr) ==
  CASE ~c.started -> {}
    [] c.started /\ ctr <= c.max -> c.bits
    [] c.started /\ ctr > c.max ->
         IF ctr - c.max >= Window THEN {}
         ELSE c.bits \ {(c.max + i) % Window : i \in 1 .. (ctr - c.max)}

\* recordCounter() of a counter that isCounterAllowed has let through.
Recorded(c, ctr) ==
  [c EXCEPT !.started = TRUE,
            !.max = IF ~c.started \/ ctr > c.max THEN ctr ELSE c.max,
            !.bits = MovedBits(c, ctr) \cup {ctr % Window}]

-----------------------------------------------------------------------------
(* Sessions *)

Clients == [phase   : {"Offline", "Handshake", "Secure", "LoggedIn"},
            key     : Keys \cup {NoKey},
            running : BOOLEAN]

Init ==
  /\ client = [phase |-> "Offline", key |-> NoKey, running |-> FALSE]
  /\ cipher = NoCipher
  /\ server = [k \in Keys |-> NoCipher]
  /\ used = {}
  /\ sealed = [f \in Frames |-> 0]
  /\ opened = [f \in Frames |-> 0]

\* onServerAuth: the client connects, the server accepts its proof and installs
\* the ciphers of the session.
OnServerAuth(k) ==
  /\ client.phase = "Offline"
  /\ k \notin used
  /\ used' = used \cup {k}
  /\ server' = [server EXCEPT ![k] = FreshCipher]
  /\ client' = [phase |-> "Handshake", key |-> k, running |-> FALSE]
  /\ UNCHANGED <<cipher, sealed, opened>>

\* SERVER_AUTH_OK: the client installs the session everywhere.  The signalling
\* channel carries frames from now on.
OnServerAuthOk ==
  /\ client.phase = "Handshake"
  /\ cipher' = FreshCipher
  /\ client' = [client EXCEPT !.phase = "Secure", !.running = (Context = "signal")]
  /\ UNCHANGED <<server, used, sealed, opened>>

\* installSecureSession with the master installed before: TunnelManager clears
\* its context first, DataChannel keeps what it has, SignalClient has none.
Reinstalled == IF Context = "udp" THEN FreshCipher ELSE cipher

\* LOGIN_RESP: RoomManager installs the session again.
OnLoginResponse ==
  /\ client.phase = "Secure"
  /\ cipher' = Reinstalled
  /\ client' = [client EXCEPT !.phase = "LoggedIn"]
  /\ UNCHANGED <<server, used, sealed, opened>>

\* startDataPlane, connectToServer: in a room, with security configured.
StartDataPlane ==
  /\ client.phase = "LoggedIn" /\ ~client.running
  /\ cipher.on
  /\ client' = [client EXCEPT !.running = TRUE]
  /\ UNCHANGED <<cipher, server, used, sealed, opened>>

\* BUG: leaving a room reinstalls the cipher of the session.
StopAndReinstall ==
  /\ Context # "signal"
  /\ client.phase = "LoggedIn" /\ client.running
  /\ client' = [client EXCEPT !.running = FALSE]
  /\ cipher' = FreshCipher
  /\ UNCHANGED <<server, used, sealed, opened>>

\* stopDataPlane, DataChannel::disconnect: leaving a room keeps the ciphers.
StopDataPlane ==
  /\ Context # "signal"
  /\ client.phase = "LoggedIn" /\ client.running
  /\ client' = [client EXCEPT !.running = FALSE]
  /\ UNCHANGED <<cipher, server, used, sealed, opened>>

\* The signalling connection ends, by either side: the room is torn down and
\* clearSecurityContext wipes the ciphers of the client.
Disconnect ==
  /\ client.phase # "Offline"
  /\ client' = [phase |-> "Offline", key |-> NoKey, running |-> FALSE]
  /\ cipher' = NoCipher
  /\ UNCHANGED <<server, used, sealed, opened>>

\* destroyClient, whenever the server notices or decides.
DestroyClient(k) ==
  /\ server[k].on
  /\ server' = [server EXCEPT ![k] = NoCipher]
  /\ UNCHANGED <<client, cipher, used, sealed, opened>>

ClientSend ==
  /\ "client" \in Senders
  /\ client.running /\ CanEncrypt(cipher)
  /\ sealed' = [sealed EXCEPT ![Frame("client", client.key, cipher.send)] = @ + 1]
  /\ cipher' = Encrypted(cipher)
  /\ UNCHANGED <<client, server, used, opened>>

\* The counters of the client are exhausted: the tunnel stops, the data channel
\* also wipes its context, the signalling channel disconnects.  A new session
\* follows once the signalling connection has been closed.
ClientExhausted ==
  /\ "client" \in Senders
  /\ client.running /\ ~CanEncrypt(cipher)
  /\ client' = IF Context = "signal"
               THEN [phase |-> "Offline", key |-> NoKey, running |-> FALSE]
               ELSE [client EXCEPT !.running = FALSE]
  /\ cipher' = IF Context = "udp" THEN cipher ELSE NoCipher
  /\ UNCHANGED <<server, used, sealed, opened>>

\* When its counters are exhausted the server marks the session dead instead.
ServerSend(k) ==
  /\ "server" \in Senders
  /\ CanEncrypt(server[k])
  /\ sealed' = [sealed EXCEPT ![Frame("server", k, server[k].send)] = @ + 1]
  /\ server' = [server EXCEPT ![k] = Encrypted(@)]
  /\ UNCHANGED <<client, cipher, used, opened>>

\* A frame reaches the client: the session id must be the current one.
ClientReceive(f) ==
  /\ f.from = "server" /\ sealed[f] # 0
  /\ client.running /\ cipher.on /\ f.key = client.key
  /\ IsCounterAllowed(cipher, f.ctr)
  /\ cipher' = Recorded(cipher, f.ctr)
  /\ opened' = [opened EXCEPT ![f] = @ + 1]
  /\ UNCHANGED <<client, server, used, sealed>>

\* A frame reaches the server, which finds the session by its id.
ServerReceive(f) ==
  /\ f.from = "client" /\ sealed[f] # 0
  /\ server[f.key].on
  /\ IsCounterAllowed(server[f.key], f.ctr)
  /\ server' = [server EXCEPT ![f.key] = Recorded(@, f.ctr)]
  /\ opened' = [opened EXCEPT ![f] = @ + 1]
  /\ UNCHANGED <<client, cipher, used, sealed>>

Next ==
  \/ \E k \in Keys : OnServerAuth(k) \/ DestroyClient(k) \/ ServerSend(k)
  \/ OnServerAuthOk
  \/ OnLoginResponse
  \/ StartDataPlane
  \/ StopDataPlane
  \/ Disconnect
  \/ ClientSend
  \/ ClientExhausted
  \/ \E f \in Frames : ClientReceive(f) \/ ServerReceive(f)

Spec == Init /\ [][Next]_vars

-----------------------------------------------------------------------------
(* Properties *)

\* Every variable keeps the shape of the member it stands for.
TypeOK ==
  /\ client \in Clients
  /\ cipher \in Ciphers
  /\ server \in [Keys -> Ciphers]
  /\ used \subseteq Keys
  /\ sealed \in [Frames -> Nat]
  /\ opened \in [Frames -> Nat]

\* The counters opened from one end under one key.
OpenedCounters(from, k) ==
  {n \in Counters : opened[Frame(from, k, n)] # 0}

\* What a cipher remembers of the set of counters it has opened: the maximum,
\* and exactly the members of the last Window counters.
Remembers(c, done) ==
  /\ c.started <=> done # {}
  /\ \A n \in done : n <= c.max
  /\ c.started => c.max \in done
  /\ \A n \in done : c.max - n < Window => n % Window \in c.bits
  /\ \A x \in c.bits : \E n \in done : c.max - n < Window /\ n % Window = x

\* The ring of bits is exact however the window has moved: a cipher in use
\* forgets no counter inside the window (no replay), and holds no stale bit, so
\* a frame that is new and inside the window is never refused.
WindowsExact ==
  /\ cipher.on => Remembers(cipher, OpenedCounters("server", client.key))
  /\ \A k \in Keys : server[k].on
       => Remembers(server[k], OpenedCounters("client", k))

\* Nonces: a counter still to be used under a key the end holds was never used.
CountersFresh ==
  /\ \A n \in Counters : cipher.on /\ n >= cipher.send
       => sealed[Frame("client", client.key, n)] = 0
  /\ \A k \in Keys, n \in Counters : server[k].on /\ n >= server[k].send
       => sealed[Frame("server", k, n)] = 0

\* No nonce is used twice, and only what was sealed is opened, once.
FramesOnce ==
  \A f \in Frames : sealed[f] \in {0, 1} /\ opened[f] \in 0 .. sealed[f]

\* Nothing has passed under key k at the client.
Untouched(k) ==
  \A n \in Counters : /\ sealed[Frame("client", k, n)] = 0
                      /\ opened[Frame("server", k, n)] = 0

\* The client holds a key of its own session only, and its channel is silent
\* until the session has been installed for the last time.
SessionShape ==
  /\ client.phase = "Offline" <=> client.key = NoKey
  /\ client.key # NoKey => client.key \in used
  /\ client.phase \in {"Offline", "Handshake"} => ~cipher.on /\ ~client.running
  /\ client.phase = "Secure" /\ Context # "signal" => ~client.running
  /\ \/ client.phase = "Handshake"
     \/ client.phase = "Secure" /\ Context # "signal"
     => Untouched(client.key)

\* A master that is still to be derived has no session and no frames.
UnusedKeys ==
  \A k \in Keys \ used :
    /\ ~server[k].on
    /\ \A from \in {"client", "server"}, n \in Counters :
         sealed[Frame(from, k, n)] = 0

\* The inductive invariant: what the ciphers remember is what has happened
\* under their keys, and a key is installed only before anything has.
ChannelInv ==
  /\ TypeOK
  /\ SessionShape
  /\ UnusedKeys
  /\ FramesOnce
  /\ CountersFresh
  /\ WindowsExact

\* The channel keeps the promise of FrameChannel: no nonce is used twice and no
\* frame is opened twice, across reinstalls, rooms, reconnects and exhaustion.
Channel == INSTANCE FrameChannel

ChannelPromise == Channel!Spec
=============================================================================
