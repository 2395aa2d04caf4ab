-------------------------- MODULE SecureFrameProofs --------------------------
(***************************************************************************)
(* The channel built from SecureFrameCipher keeps its promise for every    *)
(* number of sessions, every counter width and every size of the replay    *)
(* window: ChannelInv is inductive, and with it every step seals a frame   *)
(* never sealed before, opens a frame never opened before, or is invisible *)
(* to FrameChannel.                                                        *)
(***************************************************************************)
EXTENDS SecureFrame, TLAPS

-----------------------------------------------------------------------------
(* Positions of the ring *)

\* A position of the ring (m_replayBitmap) is one of its Window bits.
LEMMA ModRange ==
  ASSUME NEW W \in Nat \ {0}, NEW a \in Nat
  PROVE  a % W \in 0 .. (W - 1)
  OBVIOUS

\* A counter is its full turns of the ring and its position.
LEMMA DivMod ==
  ASSUME NEW W \in Nat \ {0}, NEW a \in Nat
  PROVE  \E k \in Int : a = W * k + (a % W)
  <1>1. a \div W \in Int /\ a = W * (a \div W) + (a % W)
    OBVIOUS
  <1> QED BY <1>1

\* Only no turn at all is shorter than one turn.
LEMMA NoTurn ==
  ASSUME NEW W \in Nat \ {0}, NEW k \in Int, -W < W * k, W * k < W
  PROVE  k = 0
  <1>1. CASE k <= -1
    <2>1. W * k <= W * (-1)
      BY <1>1, Z3
    <2> QED BY <2>1, Z3
  <1>2. CASE k >= 1
    <2>1. W * k >= W
      BY <1>2, Z3
    <2> QED BY <2>1
  <1> QED BY <1>1, <1>2

\* Multiplication by the size of the ring distributes.
LEMMA Turns ==
  ASSUME NEW W \in Int, NEW k \in Int, NEW m \in Int
  PROVE  W * (k - m) = W * k - W * m
  OBVIOUS

\* Two counters less than a window apart share a position only when equal.
LEMMA ModInj ==
  ASSUME NEW W \in Nat \ {0}, NEW a \in Nat, NEW b \in Nat,
         a <= b, b - a < W, a % W = b % W
  PROVE  a = b
  <1>1. PICK k \in Int : a = W * k + (a % W)
    BY DivMod
  <1>2. PICK m \in Int : b = W * m + (b % W)
    BY DivMod
  <1>3. PICK r, x, y : r = a % W /\ x = W * k /\ y = W * m
    OBVIOUS
  <1>4. r \in Int /\ x \in Int /\ y \in Int
    BY <1>3, ModRange
  <1>5. W * (m - k) = b - a
    BY <1>1, <1>2, <1>3, <1>4, Turns
  <1>6. m - k = 0
    BY <1>5, NoTurn
  <1> QED BY <1>5, <1>6

\* A counter one window later has the same position.
LEMMA ModShift ==
  ASSUME NEW W \in Nat \ {0}, NEW a \in Nat
  PROVE  (a + W) % W = a % W
  <1>1. PICK k \in Int : a = W * k + (a % W)
    BY DivMod
  <1>2. PICK m \in Int : a + W = W * m + ((a + W) % W)
    <2>1. a + W \in Nat
      OBVIOUS
    <2> QED BY <2>1, DivMod
  <1>3. PICK r, s, x, y : r = a % W /\ s = (a + W) % W /\ x = W * k /\ y = W * m
    OBVIOUS
  <1>4. r \in 0 .. (W - 1) /\ s \in 0 .. (W - 1) /\ x \in Int /\ y \in Int
    BY <1>3, ModRange
  <1>5. y - x = W + r - s
    BY <1>1, <1>2, <1>3, <1>4
  <1>6. W * ((m - k) - 1) = r - s
    <2>1. W * (m - k) = y - x
      BY <1>3, Turns
    <2>2. W * ((m - k) - 1) = W * (m - k) - W * 1
      BY Turns
    <2> QED BY <2>1, <2>2, <1>4, <1>5
  <1>7. (m - k) - 1 = 0
    BY <1>4, <1>6, NoTurn
  <1> QED BY <1>3, <1>4, <1>6, <1>7

-----------------------------------------------------------------------------
(* recordCounter and isCounterAllowed *)

\* A counter that isCounterAllowed lets through was not opened before: nothing
\* inside the window is forgotten, and everything behind it is refused.
LEMMA AllowedIsNew ==
  ASSUME NEW c \in Ciphers, NEW done, done \subseteq Counters,
         Remembers(c, done), NEW n \in Counters, IsCounterAllowed(c, n)
  PROVE  n \notin done
  <1>1. c.max \in Nat /\ n \in Nat
    BY CounterAssumption DEF Ciphers, Counters
  <1> SUFFICES ASSUME n \in done PROVE FALSE
    OBVIOUS
  <1>2. c.started /\ n <= c.max
    BY DEF Remembers
  <1>3. c.max - n < Window /\ n % Window \notin c.bits
    BY <1>1, <1>2 DEF IsCounterAllowed
  <1> QED BY <1>3 DEF Remembers

\* A counter that was not opened before and is not behind the window is let
\* through: no stale bit is left when the window moves.
LEMMA NewIsAllowed ==
  ASSUME NEW c \in Ciphers, NEW done, done \subseteq Counters,
         Remembers(c, done), NEW n \in Counters, n \notin done,
         n <= c.max => c.max - n < Window
  PROVE  IsCounterAllowed(c, n)
  <1>1. c.max \in Nat /\ n \in Nat /\ Window \in Nat \ {0}
    BY CounterAssumption DEF Ciphers, Counters
  <1> SUFFICES ASSUME ~IsCounterAllowed(c, n) PROVE FALSE
    OBVIOUS
  <1>2. n <= c.max /\ n % Window \in c.bits
    BY <1>1 DEF IsCounterAllowed
  <1>3. PICK m \in done : c.max - m < Window /\ m % Window = n % Window
    BY <1>2 DEF Remembers
  <1>4. m \in Nat /\ m <= c.max
    BY CounterAssumption DEF Remembers, Counters
  <1>5. m = n
    BY <1>1, <1>2, <1>3, <1>4, ModInj
  <1> QED BY <1>5

\* The cipher that has recorded a counter is a cipher.
LEMMA RecordedType ==
  ASSUME NEW c \in Ciphers, NEW n \in Counters
  PROVE  /\ Recorded(c, n) \in Ciphers
         /\ Recorded(c, n).on = c.on
         /\ Recorded(c, n).send = c.send
  <1>1. n % Window \in 0 .. (Window - 1)
    BY CounterAssumption, ModRange DEF Counters
  <1>2. MovedBits(c, n) \subseteq 0 .. (Window - 1)
    <2>1. c.bits \subseteq 0 .. (Window - 1)
      BY DEF Ciphers
    <2>2. CASE ~c.started
      BY <2>2 DEF MovedBits
    <2>3. CASE c.started /\ n <= c.max
      BY <2>1, <2>3 DEF MovedBits
    <2>4. CASE c.started /\ n > c.max
      <3>1. ~(n <= c.max)
        BY <2>4, CounterAssumption DEF Ciphers, Counters
      <3> QED BY <2>1, <2>4, <3>1 DEF MovedBits
    <2>5. c.started \in BOOLEAN /\ (n <= c.max \/ n > c.max)
      BY CounterAssumption DEF Ciphers, Counters
    <2> QED BY <2>2, <2>3, <2>4, <2>5
  <1> QED BY <1>1, <1>2 DEF Recorded, Ciphers

\* When the maximum advances inside the window, the bits kept are those of the
\* counters that stay inside it.
LEMMA AdvanceRemembers ==
  ASSUME NEW c \in Ciphers, NEW done, done \subseteq Counters,
         Remembers(c, done), NEW n \in Counters, c.started,
         n > c.max, n - c.max < Window
  PROVE  /\ \A m \in done : n - m < Window => m % Window \in MovedBits(c, n)
         /\ \A x \in MovedBits(c, n) :
              \E m \in done : n - m < Window /\ m % Window = x
  <1> DEFINE over == {(c.max + i) % Window : i \in 1 .. (n - c.max)}
  <1>1. /\ c.max \in Nat /\ n \in Nat /\ Window \in Nat \ {0}
        /\ \A m \in done : m \in Nat /\ m <= c.max
    BY CounterAssumption DEF Ciphers, Counters, Remembers
  <1>2. MovedBits(c, n) = c.bits \ over
    <2>1. ~(n <= c.max) /\ ~(n - c.max >= Window)
      BY <1>1
    <2> QED BY <2>1 DEF MovedBits
  <1>3. ASSUME NEW m \in done, n - m < Window
        PROVE  m % Window \in MovedBits(c, n)
    <2>1. m % Window \in c.bits
      BY <1>1, <1>3 DEF Remembers
    <2>2. ASSUME NEW i \in 1 .. (n - c.max), m % Window = (c.max + i) % Window
          PROVE  FALSE
      <3>1. /\ c.max + i \in Nat /\ m <= c.max + i /\ c.max + i - m < Window
            /\ m # c.max + i
        BY <1>1, <1>3
      <3> QED BY <1>1, <2>2, <3>1, ModInj
    <2> QED BY <1>2, <2>1, <2>2
  <1>4. ASSUME NEW x \in MovedBits(c, n)
        PROVE  \E m \in done : n - m < Window /\ m % Window = x
    <2>1. PICK m \in done : c.max - m < Window /\ m % Window = x
      BY <1>2 DEF Remembers
    <2>2. ASSUME ~(n - m < Window) PROVE FALSE
      <3>1. PICK i : i = m + Window - c.max
        OBVIOUS
      <3>2. i \in 1 .. (n - c.max) /\ c.max + i = m + Window
        BY <1>1, <2>1, <2>2, <3>1
      <3>3. (c.max + i) % Window = x
        BY <1>1, <2>1, <3>2, ModShift
      <3> QED BY <1>2, <3>2, <3>3
    <2> QED BY <2>1, <2>2
  <1> QED BY <1>3, <1>4

\* recordCounter keeps the memory of the cipher exact.
LEMMA RecordRemembers ==
  ASSUME NEW c \in Ciphers, NEW done, done \subseteq Counters,
         Remembers(c, done), NEW n \in Counters, IsCounterAllowed(c, n)
  PROVE  Remembers(Recorded(c, n), done \cup {n})
  <1> DEFINE d == Recorded(c, n)
  <1>1. /\ c.max \in Nat /\ n \in Nat /\ Window \in Nat \ {0}
        /\ \A m \in done : m \in Nat /\ m <= c.max
    BY CounterAssumption DEF Ciphers, Counters, Remembers
  <1>2. /\ d.started = TRUE
        /\ d.max = IF ~c.started \/ n > c.max THEN n ELSE c.max
        /\ d.bits = MovedBits(c, n) \cup {n % Window}
    BY DEF Recorded, Ciphers
  <1> SUFFICES /\ \A m \in done : m <= d.max
               /\ n <= d.max /\ d.max \in done \cup {n}
               /\ \A m \in done : d.max - m < Window => m % Window \in d.bits
               /\ d.max - n < Window
               /\ \A x \in MovedBits(c, n) :
                    \E m \in done : d.max - m < Window /\ m % Window = x
    BY <1>2 DEF Remembers
  <1> HIDE DEF d
  <1>3. CASE ~c.started
    <2>1. done = {} /\ MovedBits(c, n) = {} /\ d.max = n
      BY <1>2, <1>3 DEF Remembers, MovedBits
    <2> QED BY <1>1, <2>1
  <1>4. CASE c.started /\ n <= c.max
    <2>1. d.max = c.max /\ MovedBits(c, n) = c.bits
      BY <1>1, <1>2, <1>4 DEF MovedBits
    <2>2. c.max - n < Window
      BY <1>1, <1>4 DEF IsCounterAllowed
    <2>3. c.max \in done
      BY <1>4 DEF Remembers
    <2>4. /\ \A m \in done : c.max - m < Window => m % Window \in c.bits
          /\ \A x \in c.bits : \E m \in done : c.max - m < Window /\ m % Window = x
      BY DEF Remembers
    <2> QED BY <1>1, <1>2, <1>4, <2>1, <2>2, <2>3, <2>4
  <1>5. CASE c.started /\ n > c.max /\ n - c.max < Window
    <2>1. d.max = n
      BY <1>2, <1>5
    <2>2. \A m \in done : m <= n
      BY <1>1, <1>5
    <2>3. n <= n /\ n - n < Window
      BY <1>1
    <2>4. /\ \A m \in done : n - m < Window => m % Window \in MovedBits(c, n)
          /\ \A x \in MovedBits(c, n) :
               \E m \in done : n - m < Window /\ m % Window = x
      BY <1>5, AdvanceRemembers
    <2> QED BY <1>2, <2>1, <2>2, <2>3, <2>4
  <1>6. CASE c.started /\ n > c.max /\ n - c.max >= Window
    <2>1. d.max = n
      BY <1>2, <1>6
    <2>2. ~(n <= c.max)
      BY <1>1, <1>6
    <2>3. MovedBits(c, n) = {}
      BY <1>6, <2>2 DEF MovedBits
    <2>4. \A m \in done : m <= n /\ ~(n - m < Window)
      BY <1>1, <1>6
    <2>5. n <= n /\ n - n < Window
      BY <1>1
    <2> QED BY <1>2, <2>1, <2>3, <2>4, <2>5
  <1>7. n <= c.max \/ n > c.max
    BY <1>1
  <1>8. n - c.max < Window \/ n - c.max >= Window
    BY <1>1
  <1>9. c.started \in BOOLEAN
    BY DEF Ciphers
  <1> QED BY <1>3, <1>4, <1>5, <1>6, <1>7, <1>8, <1>9

-----------------------------------------------------------------------------
(* Ciphers, frames and sessions *)

\* reset, init and encrypt yield ciphers; encrypt touches the counter only.
LEMMA CipherTypes ==
  /\ NoCipher \in Ciphers /\ ~NoCipher.on
  /\ FreshCipher \in Ciphers /\ FreshCipher.on
  /\ FreshCipher.send = 0 /\ ~FreshCipher.started
  /\ FreshCipher.bits = {}
  /\ \A c \in Ciphers : CanEncrypt(c) =>
       /\ Encrypted(c) \in Ciphers
       /\ Encrypted(c).send = c.send + 1
       /\ Encrypted(c).on = c.on /\ Encrypted(c).started = c.started
       /\ Encrypted(c).max = c.max /\ Encrypted(c).bits = c.bits
  <1>1. /\ NoCipher \in Ciphers /\ ~NoCipher.on
        /\ FreshCipher \in Ciphers /\ FreshCipher.on
        /\ FreshCipher.send = 0 /\ ~FreshCipher.started
        /\ FreshCipher.bits = {}
    <2>1. 0 \in Counters
      BY CounterAssumption DEF Counters
    <2>2. NoCipher \in Ciphers /\ ~NoCipher.on
      BY <2>1 DEF NoCipher, Ciphers
    <2> QED BY <2>1, <2>2 DEF FreshCipher, Ciphers
  <1>2. ASSUME NEW c \in Ciphers, CanEncrypt(c)
        PROVE  /\ Encrypted(c) \in Ciphers
               /\ Encrypted(c).send = c.send + 1
               /\ Encrypted(c).on = c.on /\ Encrypted(c).started = c.started
               /\ Encrypted(c).max = c.max /\ Encrypted(c).bits = c.bits
    <2>1. c.send + 1 \in Counters /\ (c.send + 1) % (MaxCounter + 1) = c.send + 1
      BY <1>2, CounterAssumption DEF CanEncrypt, Ciphers, Counters
    <2>2. Encrypted(c) = [c EXCEPT !.send = c.send + 1]
      BY <2>1 DEF Encrypted
    <2> QED BY <2>1, <2>2 DEF Ciphers
  <1> QED BY <1>1, <1>2

\* A frame is its direction, key and counter.
LEMMA FrameFacts ==
  /\ \A a \in {"client", "server"}, k \in Keys, n \in Counters :
       Frame(a, k, n) \in Frames
  /\ \A f \in Frames : /\ f.from \in {"client", "server"}
                       /\ f.key \in Keys /\ f.ctr \in Counters
                       /\ f = Frame(f.from, f.key, f.ctr)
  BY DEF Frame, Frames

\* Frames that differ in a part are different frames.
LEMMA FrameEq ==
  \A a, k, n, b, j, m : Frame(a, k, n) = Frame(b, j, m) => a = b /\ k = j /\ n = m
  BY DEF Frame

\* What a fresh cipher remembers is nothing.
LEMMA FreshRemembers == Remembers(FreshCipher, {})
  BY CipherTypes DEF Remembers

\* A client whose cipher is installed has a key, which was derived.
LEMMA InstalledKey ==
  ASSUME ChannelInv, cipher.on
  PROVE  client.key \in Keys /\ client.key \in used
  BY DEF ChannelInv, SessionShape, TypeOK, Clients

-----------------------------------------------------------------------------
(* Every step keeps the invariant *)

\* Initially no session exists and nothing has been sealed or opened.
LEMMA InitInv == Init => ChannelInv
  <1> SUFFICES ASSUME Init PROVE ChannelInv
    OBVIOUS
  <1>1. TypeOK
    BY CipherTypes DEF Init, TypeOK, Clients
  <1>2. SessionShape /\ UnusedKeys /\ FramesOnce
    BY CipherTypes, FrameFacts DEF Init, SessionShape, UnusedKeys, FramesOnce
  <1>3. CountersFresh /\ WindowsExact
    BY CipherTypes DEF Init, CountersFresh, WindowsExact
  <1> QED BY <1>1, <1>2, <1>3 DEF ChannelInv

\* onServerAuth installs a new key under which nothing has passed.
LEMMA ServerAuthStep ==
  ASSUME ChannelInv, NEW k \in Keys, OnServerAuth(k)
  PROVE  ChannelInv'
  <1> USE DEF OnServerAuth
  <1>1. TypeOK'
    BY CipherTypes DEF ChannelInv, TypeOK, Clients
  <1>2. /\ ~server[k].on
        /\ \A from \in {"client", "server"}, n \in Counters :
             sealed[Frame(from, k, n)] = 0 /\ opened[Frame(from, k, n)] = 0
    <2>1. \A from \in {"client", "server"}, n \in Counters :
            sealed[Frame(from, k, n)] = 0
      BY DEF ChannelInv, UnusedKeys
    <2>2. \A from \in {"client", "server"}, n \in Counters :
            opened[Frame(from, k, n)] \in 0 .. 0
      BY <2>1, FrameFacts DEF ChannelInv, FramesOnce
    <2> QED BY <2>1, <2>2 DEF ChannelInv, UnusedKeys
  <1>3. SessionShape'
    BY <1>2, NoKeyAssumption DEF ChannelInv, SessionShape, Untouched
  <1>4. UnusedKeys'
    BY DEF ChannelInv, UnusedKeys, TypeOK
  <1>5. FramesOnce'
    BY DEF ChannelInv, FramesOnce
  <1>6. ~cipher.on
    BY DEF ChannelInv, SessionShape
  <1>7. CountersFresh'
    BY <1>2, <1>6, CipherTypes DEF ChannelInv, CountersFresh, TypeOK
  <1>8. OpenedCounters("client", k) = {}
    BY <1>2 DEF OpenedCounters
  <1>9. WindowsExact'
    BY <1>6, <1>8, FreshRemembers DEF ChannelInv, WindowsExact, TypeOK, OpenedCounters
  <1> QED BY <1>1, <1>3, <1>4, <1>5, <1>7, <1>9 DEF ChannelInv

\* Installing a session under whose key the client has neither sent nor
\* received anything (SERVER_AUTH_OK, and LOGIN_RESP of the tunnel).
LEMMA InstallStep ==
  ASSUME ChannelInv, Untouched(client.key), client.key \in Keys, client.key \in used,
         cipher' = FreshCipher, client' \in Clients, client'.key = client.key,
         client'.phase \in {"Secure", "LoggedIn"},
         client'.phase = "Secure" /\ Context # "signal" => ~client'.running,
         UNCHANGED <<server, used, sealed, opened>>
  PROVE  ChannelInv'
  <1>1. TypeOK'
    BY CipherTypes DEF ChannelInv, TypeOK
  <1>2. SessionShape'
    BY NoKeyAssumption DEF SessionShape, Untouched
  <1>3. UnusedKeys' /\ FramesOnce'
    BY DEF ChannelInv, UnusedKeys, FramesOnce
  <1>4. CountersFresh'
    BY DEF ChannelInv, CountersFresh, Untouched
  <1>5. OpenedCounters("server", client.key) = {}
    BY DEF Untouched, OpenedCounters
  <1>6. WindowsExact'
    BY <1>5, FreshRemembers DEF ChannelInv, WindowsExact, OpenedCounters
  <1> QED BY <1>1, <1>2, <1>3, <1>4, <1>6 DEF ChannelInv

\* SERVER_AUTH_OK at the client.
LEMMA ServerAuthOkStep ==
  ASSUME ChannelInv, OnServerAuthOk
  PROVE  ChannelInv'
  <1>1. Untouched(client.key) /\ client.key \in Keys /\ client.key \in used
    BY DEF ChannelInv, OnServerAuthOk, SessionShape, TypeOK, Clients
  <1>2. /\ client' \in Clients /\ client'.key = client.key
        /\ client'.phase = "Secure"
        /\ client'.running = (Context = "signal")
    BY DEF ChannelInv, OnServerAuthOk, TypeOK, Clients
  <1> QED BY <1>1, <1>2, InstallStep DEF OnServerAuthOk

\* Steps of the client that leave its cipher alone or wipe it.
LEMMA ClientStep ==
  ASSUME ChannelInv, SessionShape', client' \in Clients,
         \/ cipher' = NoCipher
         \/ cipher' = cipher /\ client'.key = client.key,
         UNCHANGED <<server, used, sealed, opened>>
  PROVE  ChannelInv'
  <1>1. TypeOK'
    BY CipherTypes DEF ChannelInv, TypeOK
  <1>2. UnusedKeys' /\ FramesOnce'
    BY DEF ChannelInv, UnusedKeys, FramesOnce
  <1>3. CountersFresh' /\ WindowsExact'
    <2>1. CASE cipher' = NoCipher
      BY <2>1, CipherTypes DEF ChannelInv, CountersFresh, WindowsExact, OpenedCounters
    <2>2. CASE cipher' = cipher /\ client'.key = client.key
      BY <2>2 DEF ChannelInv, CountersFresh, WindowsExact, OpenedCounters
    <2> QED BY <2>1, <2>2
  <1> QED BY <1>1, <1>2, <1>3 DEF ChannelInv

\* LOGIN_RESP: the tunnel installs a session that has not carried anything yet,
\* the data channel and the signalling channel keep theirs.
LEMMA LoginResponseStep ==
  ASSUME ChannelInv, OnLoginResponse
  PROVE  ChannelInv'
  <1>1. /\ client' \in Clients /\ client'.key = client.key
        /\ client'.phase = "LoggedIn" /\ client.phase = "Secure"
    BY DEF ChannelInv, OnLoginResponse, TypeOK, Clients
  <1>2. CASE Context = "udp"
    <2>1. Untouched(client.key) /\ client.key \in Keys /\ client.key \in used
      BY <1>1, <1>2 DEF ChannelInv, SessionShape, TypeOK, Clients
    <2>2. cipher' = FreshCipher
      BY <1>2 DEF OnLoginResponse, Reinstalled
    <2> QED BY <1>1, <2>1, <2>2, InstallStep DEF OnLoginResponse
  <1>3. CASE Context # "udp"
    <2>1. cipher' = cipher
      BY <1>3 DEF OnLoginResponse, Reinstalled
    <2>2. SessionShape'
      BY <1>1 DEF ChannelInv, OnLoginResponse, SessionShape
    <2> QED BY <1>1, <2>1, <2>2, ClientStep DEF OnLoginResponse
  <1> QED BY <1>2, <1>3

\* startDataPlane, connectToServer and their opposites, disconnects and
\* exhausted counters change neither frames nor what a cipher remembers.
LEMMA QuietStep ==
  ASSUME ChannelInv,
         StartDataPlane \/ StopDataPlane \/ Disconnect \/ ClientExhausted
  PROVE  ChannelInv'
  <1>1. UNCHANGED <<server, used, sealed, opened>>
    BY DEF StartDataPlane, StopDataPlane, Disconnect, ClientExhausted
  <1>2. client' \in Clients
    <2>1. /\ client \in Clients
          /\ [phase |-> "Offline", key |-> NoKey, running |-> FALSE] \in Clients
      BY DEF ChannelInv, TypeOK, Clients
    <2>2. /\ [client EXCEPT !.running = TRUE] \in Clients
          /\ [client EXCEPT !.running = FALSE] \in Clients
      BY <2>1 DEF Clients
    <2> QED BY <2>1, <2>2
            DEF StartDataPlane, StopDataPlane, Disconnect, ClientExhausted
  <1>3. \/ cipher' = NoCipher
        \/ cipher' = cipher /\ client'.key = client.key
    BY ContextAssumption
       DEF ChannelInv, TypeOK, Clients, StartDataPlane, StopDataPlane, Disconnect,
           ClientExhausted
  <1>4. SessionShape'
    <2> USE CipherTypes DEF ChannelInv, TypeOK, Clients, SessionShape, Untouched
    <2>1. CASE StartDataPlane
      BY <2>1 DEF StartDataPlane
    <2>2. CASE StopDataPlane
      BY <2>2 DEF StopDataPlane
    <2>3. CASE Disconnect
      BY <2>3 DEF Disconnect
    <2>4. CASE ClientExhausted
      <3>1. CASE Context = "signal"
        BY <2>4, <3>1 DEF ClientExhausted
      <3>2. CASE Context # "signal"
        BY <2>4, <3>2 DEF ClientExhausted
      <3> QED BY <3>1, <3>2
    <2> QED BY <2>1, <2>2, <2>3, <2>4
  <1> QED BY <1>1, <1>2, <1>3, <1>4, ClientStep

\* destroyClient wipes the ciphers of one session.
LEMMA DestroyStep ==
  ASSUME ChannelInv, NEW k \in Keys, DestroyClient(k)
  PROVE  ChannelInv'
  <1> USE DEF DestroyClient
  <1>1. TypeOK'
    BY CipherTypes DEF ChannelInv, TypeOK
  <1>2. SessionShape' /\ FramesOnce'
    BY DEF ChannelInv, SessionShape, FramesOnce, Untouched
  <1>3. UnusedKeys' /\ CountersFresh'
    BY CipherTypes DEF ChannelInv, UnusedKeys, CountersFresh, TypeOK
  <1>4. WindowsExact'
    BY CipherTypes DEF ChannelInv, WindowsExact, TypeOK, OpenedCounters
  <1> QED BY <1>1, <1>2, <1>3, <1>4 DEF ChannelInv

\* The client seals a frame under a counter never used with its key.
LEMMA ClientSendStep ==
  ASSUME ChannelInv, ClientSend
  PROVE  /\ ChannelInv'
         /\ \E f \in Frames : Channel!Seal(f)
  <1> DEFINE f0 == Frame("client", client.key, cipher.send)
  <1>1. /\ cipher.on /\ cipher \in Ciphers /\ cipher.send \in Counters
        /\ client.key \in Keys /\ client.key \in used
    BY InstalledKey DEF ClientSend, CanEncrypt, ChannelInv, TypeOK, Ciphers
  <1>2. f0 \in Frames
    BY <1>1, FrameFacts
  <1>3. sealed[f0] = 0
    BY <1>1, CounterAssumption DEF ChannelInv, CountersFresh, Counters
  <1>4. sealed' = [sealed EXCEPT ![f0] = 1] /\ sealed \in [Frames -> Nat]
    BY <1>3 DEF ClientSend, ChannelInv, TypeOK
  <1>5. /\ cipher' = Encrypted(cipher) /\ cipher' \in Ciphers
        /\ cipher'.send = cipher.send + 1
        /\ cipher'.on = cipher.on /\ cipher'.started = cipher.started
        /\ cipher'.max = cipher.max /\ cipher'.bits = cipher.bits
    BY <1>1, CipherTypes DEF ClientSend
  <1> HIDE DEF f0
  <1>6. UNCHANGED <<client, server, used, opened>>
    BY DEF ClientSend
  <1>7. TypeOK'
    BY <1>2, <1>4, <1>5, <1>6 DEF ChannelInv, TypeOK
  <1>8. SessionShape'
    <2>1. client.phase # "Handshake" /\ ~(client.phase = "Secure" /\ Context # "signal")
      BY DEF ChannelInv, SessionShape, ClientSend
    <2> QED BY <2>1, <1>5, <1>6 DEF ChannelInv, SessionShape
  <1>9. UnusedKeys'
    <2>1. ASSUME NEW k \in Keys \ used, NEW from \in {"client", "server"},
                 NEW n \in Counters
          PROVE  sealed'[Frame(from, k, n)] = 0
      <3>1. Frame(from, k, n) # f0 /\ Frame(from, k, n) \in Frames
        BY <1>1, FrameEq, FrameFacts DEF f0
      <3> QED BY <3>1, <1>4 DEF ChannelInv, UnusedKeys
    <2> QED BY <2>1, <1>6 DEF ChannelInv, UnusedKeys
  <1>10. FramesOnce'
    BY <1>2, <1>3, <1>4, <1>6 DEF ChannelInv, FramesOnce
  <1>11. CountersFresh'
    <2>1. ASSUME NEW n \in Counters, n >= cipher.send + 1
          PROVE  sealed'[Frame("client", client.key, n)] = 0
      <3>1. n >= cipher.send /\ n # cipher.send
        BY <1>1, <2>1, CounterAssumption DEF Counters
      <3>2. /\ Frame("client", client.key, n) # f0
            /\ Frame("client", client.key, n) \in Frames
        BY <1>1, <3>1, FrameEq, FrameFacts DEF f0
      <3> QED BY <1>1, <1>4, <3>1, <3>2 DEF ChannelInv, CountersFresh
    <2>2. ASSUME NEW k \in Keys, NEW n \in Counters, server[k].on, n >= server[k].send
          PROVE  sealed'[Frame("server", k, n)] = 0
      <3>1. Frame("server", k, n) # f0 /\ Frame("server", k, n) \in Frames
        BY FrameEq, FrameFacts DEF f0
      <3> QED BY <1>4, <2>2, <3>1 DEF ChannelInv, CountersFresh
    <2> QED BY <1>5, <1>6, <2>1, <2>2 DEF CountersFresh
  <1>12. WindowsExact'
    BY <1>5, <1>6 DEF ChannelInv, WindowsExact, Remembers, OpenedCounters
  <1>13. Channel!Seal(f0)
    BY <1>3, <1>4, <1>6 DEF Channel!Seal
  <1> QED BY <1>2, <1>7, <1>8, <1>9, <1>10, <1>11, <1>12, <1>13 DEF ChannelInv

\* The server seals a frame under a counter never used with the session's key.
LEMMA ServerSendStep ==
  ASSUME ChannelInv, NEW k \in Keys, ServerSend(k)
  PROVE  /\ ChannelInv'
         /\ \E f \in Frames : Channel!Seal(f)
  <1> DEFINE f0 == Frame("server", k, server[k].send)
  <1>1. /\ server[k].on /\ server[k] \in Ciphers /\ server[k].send \in Counters
        /\ k \in used
    BY DEF ServerSend, CanEncrypt, ChannelInv, TypeOK, Ciphers, UnusedKeys
  <1>2. f0 \in Frames
    BY <1>1, FrameFacts
  <1>3. sealed[f0] = 0
    BY <1>1, CounterAssumption DEF ChannelInv, CountersFresh, Counters
  <1>4. sealed' = [sealed EXCEPT ![f0] = 1] /\ sealed \in [Frames -> Nat]
    BY <1>3 DEF ServerSend, ChannelInv, TypeOK
  <1> HIDE DEF f0
  <1>5. /\ server' = [server EXCEPT ![k] = Encrypted(server[k])]
        /\ server'[k] \in Ciphers
        /\ server'[k].send = server[k].send + 1
        /\ server'[k].on = server[k].on /\ server'[k].started = server[k].started
        /\ server'[k].max = server[k].max /\ server'[k].bits = server[k].bits
        /\ \A j \in Keys : j # k => server'[j] = server[j]
    BY <1>1, CipherTypes DEF ServerSend, ChannelInv, TypeOK
  <1>6. UNCHANGED <<client, cipher, used, opened>>
    BY DEF ServerSend
  <1>7. TypeOK'
    BY <1>1, <1>2, <1>4, <1>5, <1>6 DEF ChannelInv, TypeOK
  <1>8. SessionShape'
    <2>1. ASSUME NEW n \in Counters, client.key \in Keys
          PROVE  sealed'[Frame("client", client.key, n)]
                   = sealed[Frame("client", client.key, n)]
      <3>1. /\ Frame("client", client.key, n) # f0
            /\ Frame("client", client.key, n) \in Frames
        BY <2>1, FrameEq, FrameFacts DEF f0
      <3> QED BY <1>4, <3>1
    <2>2. client.phase # "Offline" => client.key \in Keys
      BY DEF ChannelInv, SessionShape, TypeOK, Clients
    <2> QED BY <1>6, <2>1, <2>2 DEF ChannelInv, SessionShape, Untouched
  <1>9. UnusedKeys'
    <2>1. ASSUME NEW j \in Keys \ used, NEW from \in {"client", "server"},
                 NEW n \in Counters
          PROVE  sealed'[Frame(from, j, n)] = 0
      <3>1. Frame(from, j, n) # f0 /\ Frame(from, j, n) \in Frames
        BY <1>1, FrameEq, FrameFacts DEF f0
      <3> QED BY <3>1, <1>4 DEF ChannelInv, UnusedKeys
    <2> QED BY <1>1, <1>5, <1>6, <2>1 DEF ChannelInv, UnusedKeys
  <1>10. FramesOnce'
    BY <1>2, <1>3, <1>4, <1>6 DEF ChannelInv, FramesOnce
  <1>11. CountersFresh'
    <2>1. ASSUME NEW n \in Counters, cipher.on, n >= cipher.send
          PROVE  sealed'[Frame("client", client.key, n)] = 0
      <3>1. /\ Frame("client", client.key, n) # f0
            /\ Frame("client", client.key, n) \in Frames
        BY <2>1, InstalledKey, FrameEq, FrameFacts DEF f0
      <3> QED BY <1>4, <2>1, <3>1 DEF ChannelInv, CountersFresh
    <2>2. ASSUME NEW j \in Keys, NEW n \in Counters, server'[j].on,
                 n >= server'[j].send
          PROVE  sealed'[Frame("server", j, n)] = 0
      <3>1. server[j].on /\ n >= server[j].send /\ (j = k => n # server[k].send)
        BY <1>1, <1>5, <2>2, CounterAssumption DEF Counters
      <3>2. Frame("server", j, n) # f0 /\ Frame("server", j, n) \in Frames
        BY <3>1, FrameEq, FrameFacts DEF f0
      <3> QED BY <1>4, <3>1, <3>2 DEF ChannelInv, CountersFresh
    <2> QED BY <1>6, <2>1, <2>2 DEF CountersFresh
  <1>12. WindowsExact'
    BY <1>5, <1>6 DEF ChannelInv, WindowsExact, Remembers, OpenedCounters
  <1>13. Channel!Seal(f0)
    BY <1>3, <1>4, <1>6 DEF Channel!Seal
  <1> QED BY <1>2, <1>7, <1>8, <1>9, <1>10, <1>11, <1>12, <1>13 DEF ChannelInv

\* Opening a frame adds its counter to those opened under its key.
LEMMA OpenedFacts ==
  ASSUME ChannelInv, NEW f \in Frames, opened' = [opened EXCEPT ![f] = 1]
  PROVE  /\ OpenedCounters(f.from, f.key)' = OpenedCounters(f.from, f.key) \cup {f.ctr}
         /\ \A from, k : from \in {"client", "server"} /\ k \in Keys
               /\ (from # f.from \/ k # f.key)
                  => OpenedCounters(from, k)' = OpenedCounters(from, k)
  <1>1. opened \in [Frames -> Nat]
    BY DEF ChannelInv, TypeOK
  <1>2. ASSUME NEW n \in Counters
        PROVE  opened'[Frame(f.from, f.key, n)] # 0
                 <=> opened[Frame(f.from, f.key, n)] # 0 \/ n = f.ctr
    <2>1. Frame(f.from, f.key, n) \in Frames
      BY FrameFacts
    <2>2. Frame(f.from, f.key, n) = f <=> n = f.ctr
      BY FrameFacts, FrameEq
    <2> QED BY <1>1, <2>1, <2>2
  <1>3. OpenedCounters(f.from, f.key)' = OpenedCounters(f.from, f.key) \cup {f.ctr}
    BY <1>2, FrameFacts DEF OpenedCounters
  <1>4. ASSUME NEW from \in {"client", "server"}, NEW k \in Keys,
               from # f.from \/ k # f.key
        PROVE  OpenedCounters(from, k)' = OpenedCounters(from, k)
    <2>1. ASSUME NEW n \in Counters
          PROVE  opened'[Frame(from, k, n)] = opened[Frame(from, k, n)]
      <3>1. Frame(from, k, n) \in Frames /\ Frame(from, k, n) # f
        BY <1>4, FrameFacts, FrameEq
      <3> QED BY <1>1, <3>1
    <2> QED BY <2>1 DEF OpenedCounters
  <1> QED BY <1>3, <1>4

\* The client opens a frame of its session that it has not opened before.
LEMMA ClientReceiveStep ==
  ASSUME ChannelInv, NEW f \in Frames, ClientReceive(f)
  PROVE  ChannelInv' /\ Channel!Open(f)
  <1> DEFINE done == OpenedCounters("server", client.key)
  <1>1. /\ cipher.on /\ cipher \in Ciphers /\ f.ctr \in Counters
        /\ client.key \in Keys /\ f.key = client.key /\ f.from = "server"
        /\ f = Frame("server", client.key, f.ctr)
    BY InstalledKey, FrameFacts DEF ClientReceive, ChannelInv, TypeOK
  <1>2. Remembers(cipher, done) /\ done \subseteq Counters
    BY <1>1 DEF ChannelInv, WindowsExact, OpenedCounters
  <1>3. f.ctr \notin done
    BY <1>1, <1>2, AllowedIsNew DEF ClientReceive
  <1>4. opened[f] = 0 /\ sealed[f] = 1
    <2>1. opened[f] = 0
      BY <1>1, <1>3 DEF OpenedCounters
    <2> QED BY <2>1 DEF ClientReceive, ChannelInv, FramesOnce
  <1>5. opened' = [opened EXCEPT ![f] = 1] /\ opened \in [Frames -> Nat]
    BY <1>4 DEF ClientReceive, ChannelInv, TypeOK
  <1>6. UNCHANGED <<client, server, used, sealed>> /\ cipher' = Recorded(cipher, f.ctr)
    BY DEF ClientReceive
  <1>7. cipher' \in Ciphers /\ cipher'.on = cipher.on /\ cipher'.send = cipher.send
    BY <1>1, <1>6, RecordedType
  <1>8. TypeOK'
    BY <1>5, <1>6, <1>7 DEF ChannelInv, TypeOK
  <1>9. SessionShape'
    <2>1. client.phase # "Handshake" /\ ~(client.phase = "Secure" /\ Context # "signal")
      BY DEF ChannelInv, SessionShape, ClientReceive
    <2> QED BY <2>1, <1>6, <1>7 DEF ChannelInv, SessionShape
  <1>10. UnusedKeys' /\ CountersFresh'
    BY <1>6, <1>7 DEF ChannelInv, UnusedKeys, CountersFresh
  <1>11. FramesOnce'
    BY <1>4, <1>5, <1>6 DEF ChannelInv, FramesOnce
  <1>12. WindowsExact'
    <2>1. Remembers(cipher', done \cup {f.ctr})
      BY <1>1, <1>2, <1>6, RecordRemembers DEF ClientReceive
    <2>2. OpenedCounters("server", client.key)' = done \cup {f.ctr}
      BY <1>1, <1>5, <1>6, OpenedFacts
    <2>3. \A k \in Keys : OpenedCounters("client", k)' = OpenedCounters("client", k)
      BY <1>1, <1>5, OpenedFacts
    <2> QED BY <1>6, <2>1, <2>2, <2>3 DEF ChannelInv, WindowsExact
  <1>13. Channel!Open(f)
    BY <1>4, <1>5, <1>6 DEF Channel!Open
  <1> QED BY <1>8, <1>9, <1>10, <1>11, <1>12, <1>13 DEF ChannelInv

\* The server opens a frame of a session it holds that it has not opened before.
LEMMA ServerReceiveStep ==
  ASSUME ChannelInv, NEW f \in Frames, ServerReceive(f)
  PROVE  ChannelInv' /\ Channel!Open(f)
  <1> DEFINE k == f.key
             done == OpenedCounters("client", k)
  <1>1. /\ k \in Keys /\ server[k].on /\ server[k] \in Ciphers
        /\ f.ctr \in Counters /\ f.from = "client"
        /\ f = Frame("client", k, f.ctr)
    BY FrameFacts DEF ServerReceive, ChannelInv, TypeOK
  <1>2. Remembers(server[k], done) /\ done \subseteq Counters
    BY <1>1 DEF ChannelInv, WindowsExact, OpenedCounters
  <1>3. f.ctr \notin done
    BY <1>1, <1>2, AllowedIsNew DEF ServerReceive
  <1>4. opened[f] = 0 /\ sealed[f] = 1
    <2>1. opened[f] = 0
      BY <1>1, <1>3 DEF OpenedCounters
    <2> QED BY <2>1 DEF ServerReceive, ChannelInv, FramesOnce
  <1>5. opened' = [opened EXCEPT ![f] = 1] /\ opened \in [Frames -> Nat]
    BY <1>4 DEF ServerReceive, ChannelInv, TypeOK
  <1>6. UNCHANGED <<client, cipher, used, sealed>>
    BY DEF ServerReceive
  <1>7. /\ server' = [server EXCEPT ![k] = Recorded(server[k], f.ctr)]
        /\ server'[k] = Recorded(server[k], f.ctr)
        /\ server'[k] \in Ciphers /\ server'[k].on = server[k].on
        /\ server'[k].send = server[k].send
        /\ \A j \in Keys : j # k => server'[j] = server[j]
    BY <1>1, RecordedType DEF ServerReceive, ChannelInv, TypeOK
  <1>8. TypeOK'
    BY <1>1, <1>5, <1>6, <1>7 DEF ChannelInv, TypeOK
  <1>9. SessionShape'
    <2>1. ASSUME NEW n \in Counters, client.key \in Keys
          PROVE  opened'[Frame("server", client.key, n)]
                   = opened[Frame("server", client.key, n)]
      <3>1. /\ Frame("server", client.key, n) # f
            /\ Frame("server", client.key, n) \in Frames
        BY <1>1, <2>1, FrameEq, FrameFacts
      <3> QED BY <1>5, <3>1
    <2>2. client.phase # "Offline" => client.key \in Keys
      BY DEF ChannelInv, SessionShape, TypeOK, Clients
    <2> QED BY <1>6, <2>1, <2>2 DEF ChannelInv, SessionShape, Untouched
  <1>10. UnusedKeys' /\ CountersFresh'
    BY <1>6, <1>7 DEF ChannelInv, UnusedKeys, CountersFresh
  <1>11. FramesOnce'
    BY <1>4, <1>5, <1>6 DEF ChannelInv, FramesOnce
  <1>12. WindowsExact'
    <2>1. Remembers(server'[k], done \cup {f.ctr})
      BY <1>1, <1>2, <1>7, RecordRemembers DEF ServerReceive
    <2>2. OpenedCounters("client", k)' = done \cup {f.ctr}
      BY <1>1, <1>5, OpenedFacts
    <2> HIDE DEF k
    <2>3. ASSUME NEW from \in {"client", "server"}, NEW j \in Keys,
                 from # "client" \/ j # k
          PROVE  OpenedCounters(from, j)' = OpenedCounters(from, j)
      <3>1. from # f.from \/ j # f.key
        BY <1>1, <2>3 DEF k
      <3> QED BY <1>5, <3>1, OpenedFacts
    <2>4. cipher.on
            => OpenedCounters("server", client.key)' = OpenedCounters("server", client.key)
      <3>1. cipher.on => client.key \in Keys
        BY InstalledKey
      <3> QED BY <1>6, <2>3, <3>1
    <2> QED BY <1>6, <1>7, <2>1, <2>2, <2>3, <2>4 DEF ChannelInv, WindowsExact
  <1>13. Channel!Open(f)
    BY <1>4, <1>5, <1>6 DEF Channel!Open
  <1> QED BY <1>8, <1>9, <1>10, <1>11, <1>12, <1>13 DEF ChannelInv

\* Every step keeps the invariant and is a step of FrameChannel or invisible
\* to it.
LEMMA NextStep ==
  ASSUME ChannelInv, [Next]_vars
  PROVE  ChannelInv' /\ [Channel!Next]_<<sealed, opened>>
  <1>1. ASSUME NEW k \in Keys, OnServerAuth(k)
        PROVE  ChannelInv' /\ UNCHANGED <<sealed, opened>>
    BY <1>1, ServerAuthStep DEF OnServerAuth
  <1>2. ASSUME NEW k \in Keys, DestroyClient(k)
        PROVE  ChannelInv' /\ UNCHANGED <<sealed, opened>>
    BY <1>2, DestroyStep DEF DestroyClient
  <1>3. ASSUME NEW k \in Keys, ServerSend(k)
        PROVE  ChannelInv' /\ Channel!Next
    BY <1>3, ServerSendStep DEF Channel!Next
  <1>4. CASE OnServerAuthOk
    BY <1>4, ServerAuthOkStep DEF OnServerAuthOk
  <1>5. CASE OnLoginResponse
    BY <1>5, LoginResponseStep DEF OnLoginResponse
  <1>6. CASE StartDataPlane \/ StopDataPlane \/ Disconnect \/ ClientExhausted
    <2>1. UNCHANGED <<sealed, opened>>
      BY <1>6 DEF StartDataPlane, StopDataPlane, Disconnect, ClientExhausted
    <2> QED BY <1>6, <2>1, QuietStep
  <1>7. CASE ClientSend
    BY <1>7, ClientSendStep DEF Channel!Next
  <1>8. ASSUME NEW f \in Frames, ClientReceive(f) \/ ServerReceive(f)
        PROVE  ChannelInv' /\ Channel!Next
    BY <1>8, ClientReceiveStep, ServerReceiveStep DEF Channel!Next
  <1>9. CASE UNCHANGED vars
    <2>1. UNCHANGED <<client, cipher, server, used, sealed, opened>>
      BY <1>9 DEF vars
    <2>2. SessionShape' /\ client' \in Clients
      BY <2>1 DEF ChannelInv, SessionShape, Untouched, TypeOK
    <2> QED BY <2>1, <2>2, ClientStep
  <1> QED BY <1>1, <1>2, <1>3, <1>4, <1>5, <1>6, <1>7, <1>8, <1>9 DEF Next

-----------------------------------------------------------------------------
(* Theorems *)

\* ChannelInv holds in every reachable state: ciphers, keys and history agree
\* for every number of sessions, counter width and window size.
THEOREM ChannelSafe == Spec => []ChannelInv
  BY InitInv, NextStep, PTL DEF Spec

\* The replay window (m_replayBitmap) is exact in every reachable state.
THEOREM WindowsSafe == Spec => []WindowsExact
  <1>1. ChannelInv => WindowsExact
    BY DEF ChannelInv
  <1> QED BY <1>1, ChannelSafe, PTL

\* No end ever holds a counter that was already used under its key.
THEOREM CountersSafe == Spec => []CountersFresh
  <1>1. ChannelInv => CountersFresh
    BY DEF ChannelInv
  <1> QED BY <1>1, ChannelSafe, PTL

\* The channel implements FrameChannel: no nonce is used twice, no frame is
\* opened twice, whatever the network and the sessions do.
THEOREM ChannelRefines == Spec => ChannelPromise
  <1>1. Init => Channel!Init
    BY DEF Init, Channel!Init
  <1> QED BY <1>1, InitInv, NextStep, PTL DEF Spec, ChannelPromise, Channel!Spec
=============================================================================
