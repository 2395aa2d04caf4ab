----------------------------- MODULE PeerProofs -----------------------------
(***************************************************************************)
(* Two things a client keeps of the other members of its room: who they    *)
(* are and the links to them (PeerLinks), for any number of peers,         *)
(* classes, sessions, dead links and refused messages; and the quality of  *)
(* one path to one of them (ProbeQuality), for any timeout, window, start  *)
(* of the clock and number of faults.  The two parts share nothing.        *)
(*                                                                         *)
(* What a client knows of a member is right once it has read its messages  *)
(* because the last of the messages on the way that tell of the member     *)
(* says the truth at the server, and if it is a PEER_JOINED, which a       *)
(* client that knows the member already would not take for a new session,  *)
(* then the client has been told before that the member is gone.  Earlier  *)
(* messages may leave gaps, which the server made when it refused to send; *)
(* a gap that nothing has made up for is what unheard records.             *)
(*                                                                         *)
(* What a client shows of a path is right because, for as long as the      *)
(* model follows the path, the difference of two readings of the clock is  *)
(* the time that passed between them: expire, which compares readings,     *)
(* decides what it would decide if it could read the true time.            *)
(***************************************************************************)
EXTENDS PeerLinks, ProbeQuality, FiniteSetTheorems, FunctionTheorems, TLAPS

(***************************************************************************)
(*                      Part one: members and links                        *)
(***************************************************************************)
-----------------------------------------------------------------------------
(* The inductive invariant *)

\* What the server would say of q, and what p takes q to be.
Truth(q) == IF room[q] = "out" THEN 0 ELSE session[q]
View(c, q) == IF c.phase = "ready" THEN c.known[q] ELSE c.members[q]

\* The messages that tell a client of q, and what they say.
Tells(m, q) == m.type = "JOIN_RESP" \/ (m.type \in News /\ m.peer = q)
Says(m, q) == IF m.type = "JOIN_RESP" THEN m.members[q]
              ELSE IF m.type = "PEER_LEFT" THEN 0 ELSE m.session

\* Of a sequence of messages: none tells of q; the last that does says v (after
\* each that does, or in it, v is said); the only one that does, if it is
\* PEER_JOINED, finds v to be 0; the last one, if it is PEER_JOINED, follows the
\* news that q is gone.
Silent(s, q) == \A i \in DOMAIN s : ~Tells(s[i], q)
LastWord(s, q, v) ==
  \A i \in DOMAIN s :
    Tells(s[i], q) =>
      \E j \in DOMAIN s : j >= i /\ Tells(s[j], q) /\ Says(s[j], q) = v
FirstWord(s, q, v) ==
  \A i \in DOMAIN s :
    /\ Tells(s[i], q) /\ s[i].type = "PEER_JOINED"
    /\ \A j \in DOMAIN s : j # i => ~Tells(s[j], q)
    => v = 0
Orderly(s, q) ==
  \A i, j \in DOMAIN s :
    /\ i < j /\ Tells(s[i], q) /\ Tells(s[j], q) /\ s[j].type = "PEER_JOINED"
    /\ \A k \in DOMAIN s : i < k /\ k # j => ~Tells(s[k], q)
    => Says(s[i], q) = 0

\* The server's end of a connection and the lease agree, and a client that has
\* given up its connection receives nothing more.
ConnInv(p) ==
  /\ room[p] = "online" => conn[p]
  /\ room[p] = "offline" => ~conn[p]
  /\ ~conn[p] => up[p] = <<>>
  /\ room[p] # "out" => session[p] # 0
  /\ client[p].phase = "lost" => down[p] = <<>>

\* A client has one request to join under way, or its answer, or neither, and
\* has left the room it was in before.
JoinInv(p) ==
  /\ \A i \in DOMAIN up[p] : up[p][i].type = "JOIN" =>
       /\ client[p].phase \in {"asking", "lost"}
       /\ \A j \in DOMAIN up[p] : up[p][j].type = "JOIN" => j = i
       /\ \A j \in DOMAIN down[p] : down[p][j].type # "JOIN_RESP"
       /\ room[p] = "online" => \E j \in DOMAIN up[p] : j < i /\ up[p][j].type = "LEAVE"
  /\ \A i \in DOMAIN down[p] : down[p][i].type = "JOIN_RESP" =>
       /\ client[p].phase = "asking"
       /\ \A j \in DOMAIN down[p] : down[p][j].type = "JOIN_RESP" => j = i
  /\ client[p].phase = "lobby" /\ room[p] = "online" =>
       \E i \in DOMAIN up[p] : up[p][i].type = "LEAVE"

\* What a member p has been told of q and will be told, unless it was refused.
NewsInv(p, q) ==
  room[p] = "online" /\ q \notin unheard[p] =>
    /\ Orderly(down[p], q) /\ LastWord(down[p], q, Truth(q))
    /\ client[p].phase \in {"preparing", "ready"} =>
         /\ FirstWord(down[p], q, View(client[p], q))
         /\ Silent(down[p], q) => View(client[p], q) = Truth(q)

\* What a client c keeps of the links to q: they were built for the session it
\* knows, those that wait are down, and if any is up or waits then every one
\* that is down waits.
LinkInv(c, q) ==
  /\ \A k \in Classes : c.link[q][k] \in {0, c.known[q]}
  /\ \A k \in Classes : <<q, k>> \in c.rebuild => c.known[q] # 0 /\ c.link[q][k] = 0
  /\ \A k, l \in Classes :
       (c.link[q][k] # 0 \/ <<q, k>> \in c.rebuild) /\ c.link[q][l] = 0
         => <<q, l>> \in c.rebuild
  /\ c.phase # "ready" => c.known[q] = 0

\* A message that makes the client build the link to q or ask for it, and the
\* request for it.
Asked(s, q) ==
  \E i \in DOMAIN s :
    s[i].type # "JOIN_RESP" /\ s[i].type # "PEER_LEFT" /\ s[i].peer = q
Wanted(u, q) == \E i \in DOMAIN u : u[i] = [type |-> "RELAY", peer |-> q]

AskedInv(p, q) ==
  /\ client[p].phase = "ready" /\ room[p] = "online" /\ room[q] = "online"
  /\ q \notin unheard[p] \cup unanswered[p]
  /\ \E k \in Classes : client[p].link[q][k] = 0
  => Asked(down[p], q) \/ Wanted(up[p], q)

LinksInv ==
  /\ TypeOK
  /\ \A p \in Peers : ConnInv(p) /\ JoinInv(p)
  /\ \A p, q \in Peers : LinkInv(client[p], q)
  /\ \A p, q \in Peers : p # q => NewsInv(p, q) /\ AskedInv(p, q)

-----------------------------------------------------------------------------
(* Sequences of messages *)

\* What is left when the first element is taken off.
LEMMA TailFacts ==
  ASSUME NEW S, NEW s \in Seq(S), s # <<>>
  PROVE  /\ Head(s) = s[1] /\ Head(s) \in S /\ 1 \in DOMAIN s
         /\ Tail(s) \in Seq(S)
         /\ DOMAIN s = 1 .. Len(s) /\ Len(s) \in Nat \ {0}
         /\ DOMAIN Tail(s) = 1 .. (Len(s) - 1)
         /\ \A i \in 1 .. (Len(s) - 1) : Tail(s)[i] = s[i + 1] /\ i + 1 \in DOMAIN s
  OBVIOUS

\* One sequence after another.
LEMMA ConcatFacts ==
  ASSUME NEW S, NEW s \in Seq(S), NEW t \in Seq(S)
  PROVE  /\ s \o t \in Seq(S)
         /\ Len(s) \in Nat /\ Len(t) \in Nat
         /\ DOMAIN s = 1 .. Len(s) /\ DOMAIN t = 1 .. Len(t)
         /\ DOMAIN (s \o t) = 1 .. (Len(s) + Len(t))
         /\ \A i \in 1 .. Len(s) : (s \o t)[i] = s[i]
         /\ \A i \in 1 .. Len(t) : (s \o t)[Len(s) + i] = t[i]
         /\ \A i \in (Len(s) + 1) .. (Len(s) + Len(t)) :
              (s \o t)[i] = t[i - Len(s)] /\ i - Len(s) \in 1 .. Len(t)
  OBVIOUS

\* Reading a message that does not tell of q changes nothing about q.
LEMMA ReadOther ==
  ASSUME NEW s \in Seq(Messages), s # <<>>, NEW q, ~Tells(Head(s), q), NEW v
  PROVE  /\ Orderly(s, q) => Orderly(Tail(s), q)
         /\ LastWord(s, q, v) => LastWord(Tail(s), q, v)
         /\ FirstWord(s, q, v) => FirstWord(Tail(s), q, v)
         /\ Silent(Tail(s), q) => Silent(s, q)
  <1> DEFINE w == Tail(s)
  <1>1. /\ Head(s) = s[1] /\ DOMAIN s = 1 .. Len(s) /\ Len(s) \in Nat \ {0}
        /\ DOMAIN w = 1 .. (Len(s) - 1)
        /\ \A i \in 1 .. (Len(s) - 1) : w[i] = s[i + 1] /\ i + 1 \in DOMAIN s
    BY TailFacts
  <1> HIDE DEF w
  <1>2. \A i \in DOMAIN s : i = 1 \/ (i - 1 \in DOMAIN w /\ s[i] = w[i - 1])
    BY <1>1
  <1>3. ASSUME Orderly(s, q) PROVE Orderly(w, q)
    <2> SUFFICES ASSUME NEW i \in DOMAIN w, NEW j \in DOMAIN w, i < j,
                        Tells(w[i], q), Tells(w[j], q),
                        w[j].type = "PEER_JOINED",
                        \A k \in DOMAIN w : i < k /\ k # j => ~Tells(w[k], q)
                 PROVE  Says(w[i], q) = 0
      BY DEF Orderly
    <2>1. ASSUME NEW k \in DOMAIN s, i + 1 < k, k # j + 1 PROVE ~Tells(s[k], q)
      <3>1. k # 1 /\ k \in Nat /\ i \in Nat /\ j \in Nat
        BY <1>1, <2>1
      <3>2. k - 1 \in DOMAIN w /\ s[k] = w[k - 1]
        BY <1>2, <3>1
      <3>3. i < k - 1 /\ k - 1 # j
        BY <2>1, <3>1
      <3> QED BY <3>2, <3>3
    <2>2. /\ i + 1 \in DOMAIN s /\ s[i + 1] = w[i] /\ j + 1 \in DOMAIN s /\ s[j + 1] = w[j]
          /\ i + 1 < j + 1
      BY <1>1
    <2> QED BY <1>3, <2>1, <2>2 DEF Orderly
  <1>4. ASSUME LastWord(s, q, v) PROVE LastWord(w, q, v)
    <2> SUFFICES ASSUME NEW i \in DOMAIN w, Tells(w[i], q)
                 PROVE  \E j \in DOMAIN w : j >= i /\ Tells(w[j], q) /\ Says(w[j], q) = v
      BY DEF LastWord
    <2>1. i + 1 \in DOMAIN s /\ s[i + 1] = w[i] /\ i \in Nat /\ i >= 1
      BY <1>1
    <2>2. PICK j \in DOMAIN s : j >= i + 1 /\ Tells(s[j], q) /\ Says(s[j], q) = v
      BY <1>4, <2>1 DEF LastWord
    <2>3. j \in Nat /\ j # 1
      BY <1>1, <2>1, <2>2
    <2>4. j - 1 \in DOMAIN w /\ s[j] = w[j - 1] /\ j - 1 >= i
      BY <1>2, <2>1, <2>2, <2>3
    <2> QED BY <2>2, <2>4
  <1>5. ASSUME FirstWord(s, q, v) PROVE FirstWord(w, q, v)
    <2> SUFFICES ASSUME NEW i \in DOMAIN w, Tells(w[i], q),
                        w[i].type = "PEER_JOINED",
                        \A j \in DOMAIN w : j # i => ~Tells(w[j], q)
                 PROVE  v = 0
      BY DEF FirstWord
    <2>1. \A j \in DOMAIN s : j # i + 1 => ~Tells(s[j], q)
      BY <1>1, <1>2
    <2>2. i + 1 \in DOMAIN s /\ s[i + 1] = w[i]
      BY <1>1
    <2> QED BY <1>5, <2>1, <2>2 DEF FirstWord
  <1>6. ASSUME Silent(w, q) PROVE Silent(s, q)
    BY <1>1, <1>2, <1>6 DEF Silent
  <1> QED BY <1>3, <1>4, <1>5, <1>6 DEF w

\* Reading a message that tells of q: what it says is what the next finds, and,
\* if it was the last, the truth; a PEER_JOINED that is the last finds 0.
LEMMA ReadNews ==
  ASSUME NEW s \in Seq(Messages), s # <<>>, NEW q, Tells(Head(s), q), NEW v
  PROVE  /\ Orderly(s, q) => Orderly(Tail(s), q) /\ FirstWord(Tail(s), q, Says(Head(s), q))
         /\ LastWord(s, q, v) =>
              LastWord(Tail(s), q, v) /\ (Silent(Tail(s), q) => Says(Head(s), q) = v)
         /\ FirstWord(s, q, v) /\ Silent(Tail(s), q) /\ Head(s).type = "PEER_JOINED" => v = 0
  <1> DEFINE w == Tail(s)
  <1>1. /\ Head(s) = s[1] /\ DOMAIN s = 1 .. Len(s) /\ Len(s) \in Nat \ {0}
        /\ DOMAIN w = 1 .. (Len(s) - 1)
        /\ \A i \in 1 .. (Len(s) - 1) : w[i] = s[i + 1] /\ i + 1 \in DOMAIN s
    BY TailFacts
  <1> HIDE DEF w
  <1>2. \A i \in DOMAIN s : i = 1 \/ (i - 1 \in DOMAIN w /\ s[i] = w[i - 1])
    BY <1>1
  <1>3. ASSUME Orderly(s, q) PROVE Orderly(w, q)
    <2> SUFFICES ASSUME NEW i \in DOMAIN w, NEW j \in DOMAIN w, i < j,
                        Tells(w[i], q), Tells(w[j], q),
                        w[j].type = "PEER_JOINED",
                        \A k \in DOMAIN w : i < k /\ k # j => ~Tells(w[k], q)
                 PROVE  Says(w[i], q) = 0
      BY DEF Orderly
    <2>1. ASSUME NEW k \in DOMAIN s, i + 1 < k, k # j + 1 PROVE ~Tells(s[k], q)
      <3>1. k # 1 /\ k \in Nat /\ i \in Nat /\ j \in Nat
        BY <1>1, <2>1
      <3>2. k - 1 \in DOMAIN w /\ s[k] = w[k - 1]
        BY <1>2, <3>1
      <3>3. i < k - 1 /\ k - 1 # j
        BY <2>1, <3>1
      <3> QED BY <3>2, <3>3
    <2>2. /\ i + 1 \in DOMAIN s /\ s[i + 1] = w[i] /\ j + 1 \in DOMAIN s /\ s[j + 1] = w[j]
          /\ i + 1 < j + 1
      BY <1>1
    <2> QED BY <1>3, <2>1, <2>2 DEF Orderly
  <1>4. ASSUME LastWord(s, q, v) PROVE LastWord(w, q, v)
    <2> SUFFICES ASSUME NEW i \in DOMAIN w, Tells(w[i], q)
                 PROVE  \E j \in DOMAIN w : j >= i /\ Tells(w[j], q) /\ Says(w[j], q) = v
      BY DEF LastWord
    <2>1. i + 1 \in DOMAIN s /\ s[i + 1] = w[i] /\ i \in Nat /\ i >= 1
      BY <1>1
    <2>2. PICK j \in DOMAIN s : j >= i + 1 /\ Tells(s[j], q) /\ Says(s[j], q) = v
      BY <1>4, <2>1 DEF LastWord
    <2>3. j \in Nat /\ j # 1
      BY <1>1, <2>1, <2>2
    <2>4. j - 1 \in DOMAIN w /\ s[j] = w[j - 1] /\ j - 1 >= i
      BY <1>2, <2>1, <2>2, <2>3
    <2> QED BY <2>2, <2>4
  <1>5. ASSUME Orderly(s, q) PROVE FirstWord(w, q, Says(Head(s), q))
    <2> SUFFICES ASSUME NEW i \in DOMAIN w, Tells(w[i], q),
                        w[i].type = "PEER_JOINED",
                        \A j \in DOMAIN w : j # i => ~Tells(w[j], q)
                 PROVE  Says(Head(s), q) = 0
      BY DEF FirstWord
    <2>1. \A k \in DOMAIN s : 1 < k /\ k # i + 1 => ~Tells(s[k], q)
      BY <1>1, <1>2
    <2>2. /\ 1 \in DOMAIN s /\ i + 1 \in DOMAIN s /\ s[i + 1] = w[i] /\ 1 < i + 1
      BY <1>1
    <2> QED BY <1>1, <1>5, <2>1, <2>2 DEF Orderly
  <1>6. ASSUME LastWord(s, q, v), Silent(w, q) PROVE Says(Head(s), q) = v
    <2>1. \A j \in DOMAIN s : j > 1 => ~Tells(s[j], q)
      BY <1>1, <1>2, <1>6 DEF Silent
    <2>2. 1 \in DOMAIN s
      BY <1>1
    <2>3. PICK j \in DOMAIN s : j >= 1 /\ Tells(s[j], q) /\ Says(s[j], q) = v
      BY <1>1, <1>6, <2>2 DEF LastWord
    <2>4. j = 1
      BY <1>1, <2>1, <2>3
    <2> QED BY <1>1, <2>3, <2>4
  <1>7. ASSUME FirstWord(s, q, v), Silent(w, q), Head(s).type = "PEER_JOINED" PROVE v = 0
    <2>1. \A j \in DOMAIN s : j # 1 => ~Tells(s[j], q)
      BY <1>1, <1>2, <1>7 DEF Silent
    <2>2. 1 \in DOMAIN s
      BY <1>1
    <2> QED BY <1>1, <1>7, <2>1, <2>2 DEF FirstWord
  <1> QED BY <1>3, <1>4, <1>5, <1>6, <1>7 DEF w

\* Sending messages of which only the first may tell of q.
LEMMA SendFirst ==
  ASSUME NEW s \in Seq(Messages), NEW t \in Seq(Messages), NEW q, NEW u,
         1 \in DOMAIN t, Tells(t[1], q), \A i \in DOMAIN t : i > 1 => ~Tells(t[i], q),
         t[1].type = "PEER_JOINED" => LastWord(s, q, 0)
  PROVE  /\ Orderly(s \o t, q)
         /\ LastWord(s \o t, q, Says(t[1], q))
         /\ (t[1].type = "PEER_JOINED" /\ Silent(s, q) => u = 0) => FirstWord(s \o t, q, u)
         /\ ~Silent(s \o t, q)
  <1> DEFINE w == s \o t
  <1>1. /\ Len(s) \in Nat /\ Len(t) \in Nat
        /\ DOMAIN s = 1 .. Len(s) /\ DOMAIN t = 1 .. Len(t)
        /\ DOMAIN w = 1 .. (Len(s) + Len(t))
        /\ \A i \in 1 .. Len(s) : w[i] = s[i]
        /\ \A i \in 1 .. Len(t) : w[Len(s) + i] = t[i]
        /\ \A i \in (Len(s) + 1) .. (Len(s) + Len(t)) :
             w[i] = t[i - Len(s)] /\ i - Len(s) \in 1 .. Len(t)
    BY ConcatFacts
  <1> HIDE DEF w
  <1>2. /\ Len(s) + 1 \in DOMAIN w /\ w[Len(s) + 1] = t[1]
        /\ \A i \in DOMAIN w : i > Len(s) + 1 => ~Tells(w[i], q)
        /\ \A i \in DOMAIN w : i < Len(s) + 1 => i \in DOMAIN s /\ w[i] = s[i]
        /\ \A i \in DOMAIN s : i \in DOMAIN w /\ w[i] = s[i] /\ i < Len(s) + 1
    BY <1>1
  <1>3. Orderly(w, q)
    <2> SUFFICES ASSUME NEW i \in DOMAIN w, NEW j \in DOMAIN w, i < j,
                        Tells(w[i], q), Tells(w[j], q), w[j].type = "PEER_JOINED",
                        \A k \in DOMAIN w : i < k /\ k # j => ~Tells(w[k], q)
                 PROVE  Says(w[i], q) = 0
      BY DEF Orderly
    <2>0. i \in Nat /\ j \in Nat /\ i <= Len(s) + 1 /\ j <= Len(s) + 1 /\ i < Len(s) + 1
      BY <1>1, <1>2
    <2>1. j = Len(s) + 1
      BY <1>2, <2>0
    <2>2. i \in DOMAIN s /\ w[i] = s[i]
      BY <1>2, <2>0
    <2>3. \A k \in DOMAIN s : k > i => ~Tells(s[k], q)
      BY <1>1, <1>2, <2>0, <2>1
    <2>4. PICK k \in DOMAIN s : k >= i /\ Tells(s[k], q) /\ Says(s[k], q) = 0
      BY <1>2, <2>1, <2>2 DEF LastWord
    <2>5. k = i
      BY <1>1, <2>0, <2>3, <2>4
    <2> QED BY <2>2, <2>4, <2>5
  <1>4. LastWord(w, q, Says(t[1], q))
    <2>1. ASSUME NEW i \in DOMAIN w, Tells(w[i], q) PROVE Len(s) + 1 >= i
      BY <1>1, <1>2, <2>1
    <2> QED BY <1>2, <2>1 DEF LastWord
  <1>5. ASSUME t[1].type = "PEER_JOINED" /\ Silent(s, q) => u = 0 PROVE FirstWord(w, q, u)
    <2> SUFFICES ASSUME NEW i \in DOMAIN w, Tells(w[i], q), w[i].type = "PEER_JOINED",
                        \A j \in DOMAIN w : j # i => ~Tells(w[j], q)
                 PROVE  u = 0
      BY DEF FirstWord
    <2>1. i = Len(s) + 1
      BY <1>2
    <2>2. Silent(s, q)
      BY <1>1, <1>2, <2>1 DEF Silent
    <2> QED BY <1>2, <1>5, <2>1, <2>2
  <1>6. ~Silent(w, q)
    BY <1>2 DEF Silent
  <1> QED BY <1>3, <1>4, <1>5, <1>6 DEF w

\* Sending messages that do not tell of q.
LEMMA SendOther ==
  ASSUME NEW s \in Seq(Messages), NEW t \in Seq(Messages), NEW q, Silent(t, q), NEW u, NEW v
  PROVE  /\ Orderly(s, q) => Orderly(s \o t, q)
         /\ LastWord(s, q, v) => LastWord(s \o t, q, v)
         /\ FirstWord(s, q, u) => FirstWord(s \o t, q, u)
         /\ Silent(s \o t, q) => Silent(s, q)
  <1> DEFINE w == s \o t
  <1>1. /\ Len(s) \in Nat /\ Len(t) \in Nat
        /\ DOMAIN s = 1 .. Len(s) /\ DOMAIN t = 1 .. Len(t)
        /\ DOMAIN w = 1 .. (Len(s) + Len(t))
        /\ \A i \in 1 .. Len(s) : w[i] = s[i]
        /\ \A i \in 1 .. Len(t) : w[Len(s) + i] = t[i]
        /\ \A i \in (Len(s) + 1) .. (Len(s) + Len(t)) :
             w[i] = t[i - Len(s)] /\ i - Len(s) \in 1 .. Len(t)
    BY ConcatFacts
  <1> HIDE DEF w
  <1>2. /\ \A i \in DOMAIN w : Tells(w[i], q) => i \in DOMAIN s /\ w[i] = s[i]
        /\ \A i \in DOMAIN s : i \in DOMAIN w /\ w[i] = s[i]
    <2>1. ASSUME NEW i \in DOMAIN w, Tells(w[i], q) PROVE i \in DOMAIN s /\ w[i] = s[i]
      <3>1. CASE i \in 1 .. Len(s)
        BY <1>1, <3>1
      <3>2. CASE i \notin 1 .. Len(s)
        <4>1. i \in (Len(s) + 1) .. (Len(s) + Len(t))
          BY <1>1, <3>2
        <4>2. w[i] = t[i - Len(s)] /\ i - Len(s) \in DOMAIN t
          BY <1>1, <4>1
        <4> QED BY <2>1, <4>2 DEF Silent
      <3> QED BY <3>1, <3>2
    <2>2. \A i \in DOMAIN s : i \in DOMAIN w /\ w[i] = s[i]
      BY <1>1
    <2> QED BY <2>1, <2>2
  <1>3. Orderly(s, q) => Orderly(w, q)
    BY <1>2 DEF Orderly
  <1>4. LastWord(s, q, v) => LastWord(w, q, v)
    BY <1>2 DEF LastWord
  <1>5. FirstWord(s, q, u) => FirstWord(w, q, u)
    BY <1>2 DEF FirstWord
  <1>6. Silent(w, q) => Silent(s, q)
    BY <1>2 DEF Silent
  <1> QED BY <1>3, <1>4, <1>5, <1>6 DEF w

-----------------------------------------------------------------------------
(* Types *)

\* An order of a finite set names each of its elements.
LEMMA OrderFacts ==
  ASSUME NEW S, IsFiniteSet(S), NEW f \in SetToSeqs(S)
  PROVE  f \in Seq(S) /\ \A x \in S : \E i \in DOMAIN f : f[i] = x
  <1> DEFINE D == 1 .. Cardinality(S)
  <1>1. Cardinality(S) \in Nat
    BY FS_CardinalityType
  <1>2. f \in [D -> S] /\ \A i, j \in D : i # j => f[i] # f[j]
    BY DEF SetToSeqs
  <1>3. f \in Injection(D, S)
    BY <1>2 DEF Injection, IsInjective
  <1>4. Cardinality(D) = Cardinality(S)
    BY <1>1, FS_Interval
  <1>5. f \in Surjection(D, S)
    BY <1>3, <1>4, FS_Injection
  <1> QED BY <1>1, <1>2, <1>5 DEF Surjection

\* The peers, and the links of one of them, are finitely many.
LEMMA FinitePeers ==
  /\ \A S \in SUBSET Peers : IsFiniteSet(S)
  /\ \A S \in SUBSET (Peers \X Classes) : IsFiniteSet(S)
  <1>1. IsFiniteSet(Peers)
    <2>1. N \in Int /\ 1 \in Int
      BY LinkAssumption
    <2> QED BY <2>1, FS_Interval DEF Peers
  <1>2. IsFiniteSet(Peers \X Classes)
    BY <1>1, FS_Product, LinkAssumption
  <1> QED BY <1>1, <1>2, FS_Subset

\* What a message of each type carries.
LEMMA MessageFacts ==
  ASSUME NEW m \in Messages
  PROVE  /\ m.type \in {"JOIN_RESP", "PEER_JOINED", "PEER_RESUMED", "PEER_LEFT", "RELAY_READY"}
         /\ m.type = "JOIN_RESP" => m.members \in [Peers -> Session]
         /\ m.type # "JOIN_RESP" => m.peer \in Peers
         /\ m.type \in {"PEER_JOINED", "PEER_RESUMED"} => m.session \in Session \ {0}
  BY DEF Messages

\* The fields that a message to the server has.
LEMMA RequestFacts ==
  ASSUME NEW m \in Requests
  PROVE  /\ m.type \in {"JOIN", "LEAVE", "RELAY"}
         /\ m.type = "JOIN" => m.session \in Session \ {0}
         /\ m.type = "RELAY" => m.peer \in Peers
  BY DEF Requests

\* The fields of a client, and a client made of fields.
LEMMA ClientFacts ==
  ASSUME NEW c \in Clients
  PROVE  /\ c.phase \in {"lobby", "asking", "preparing", "ready", "lost"}
         /\ c.lease \in BOOLEAN
         /\ c.members \in [Peers -> Session] /\ c.known \in [Peers -> Session]
         /\ c.relays \in SUBSET Peers /\ c.rebuild \in SUBSET (Peers \X Classes)
         /\ c.link \in [Peers -> [Classes -> Session]]
  BY DEF Clients

\* 0 stands for no session.
LEMMA ZeroSession == 0 \in Session
  BY LinkAssumption DEF Session

\* A client that has torn its room down knows nobody and has no link.
LEMMA TeardownType ==
  ASSUME NEW ph \in {"lobby", "asking", "preparing", "ready", "lost"}, NEW b \in BOOLEAN
  PROVE  /\ Teardown(ph, b) \in Clients
         /\ Teardown(ph, b).phase = ph /\ Teardown(ph, b).rebuild = {}
         /\ \A q \in Peers : /\ Teardown(ph, b).known[q] = 0
                             /\ \A k \in Classes : Teardown(ph, b).link[q][k] = 0
  BY ZeroSession DEF Teardown, Clients

\* The initial state.
LEMMA InitType == Init => TypeOK
  <1> SUFFICES ASSUME Init PROVE TypeOK
    OBVIOUS
  <1>1. Teardown("lobby", FALSE) \in Clients
    BY TeardownType
  <1>2. 0 \in 0 .. MaxStarts /\ 0 \in 0 .. MaxFailures /\ 0 \in Session
    BY LinkAssumption DEF Session
  <1>3. conn \in [Peers -> BOOLEAN]
    BY Zenon DEF Init
  <1>4. <<>> \in Seq(Requests) /\ <<>> \in Seq(Messages)
    OBVIOUS
  <1>5. client \in [Peers -> Clients]
    BY <1>1, Zenon DEF Init
  <1> QED BY <1>2, <1>3, <1>4, <1>5 DEF Init, TypeOK

-----------------------------------------------------------------------------
(* Requests to the server *)

\* requestRelay: one request for each target, after those on the way, unless
\* the server has dropped the connection.
LEMMA RelayEffects ==
  ASSUME TypeOK, NEW p \in Peers, NEW targets \in Seq(Peers), RequestRelay(p, targets)
  PROVE  /\ up' \in [Peers -> Seq(Requests)]
         /\ \A d \in Peers : d # p => up'[d] = up[d]
         /\ ~conn[p] => up'[p] = up[p]
         /\ \A i \in DOMAIN up[p] : i \in DOMAIN up'[p] /\ up'[p][i] = up[p][i]
         /\ \A i \in DOMAIN up'[p] : i \in DOMAIN up[p] \/ up'[p][i].type = "RELAY"
         /\ conn[p] => \A i \in DOMAIN targets : \E j \in DOMAIN up'[p] :
                         up'[p][j] = [type |-> "RELAY", peer |-> targets[i]]
  <1>1. up \in [Peers -> Seq(Requests)] /\ up[p] \in Seq(Requests)
    BY DEF TypeOK
  <1>2. CASE ~conn[p]
    BY <1>1, <1>2 DEF RequestRelay
  <1>3. CASE conn[p]
    <2> DEFINE rest == [i \in DOMAIN targets |-> [type |-> "RELAY", peer |-> targets[i]]]
               s == up[p]
               w == s \o rest
    <2>1. \A i \in DOMAIN targets : [type |-> "RELAY", peer |-> targets[i]] \in Requests
      BY DEF Requests
    <2>2. rest \in Seq(Requests) /\ DOMAIN rest = DOMAIN targets
      BY <2>1
    <2>3. up' = [up EXCEPT ![p] = w]
      BY <1>3, Zenon DEF RequestRelay
    <2>4. \A i \in DOMAIN targets :
            rest[i] = [type |-> "RELAY", peer |-> targets[i]] /\ rest[i].type = "RELAY"
      OBVIOUS
    <2> HIDE DEF rest
    <2>5. /\ w \in Seq(Requests)
          /\ Len(s) \in Nat /\ Len(rest) \in Nat
          /\ DOMAIN s = 1 .. Len(s) /\ DOMAIN rest = 1 .. Len(rest)
          /\ DOMAIN w = 1 .. (Len(s) + Len(rest))
          /\ \A i \in 1 .. Len(s) : w[i] = s[i]
          /\ \A i \in 1 .. Len(rest) : w[Len(s) + i] = rest[i]
          /\ \A i \in (Len(s) + 1) .. (Len(s) + Len(rest)) :
               w[i] = rest[i - Len(s)] /\ i - Len(s) \in 1 .. Len(rest)
      BY <1>1, <2>2, ConcatFacts
    <2> HIDE DEF w
    <2>6. up'[p] = w /\ up' \in [Peers -> Seq(Requests)] /\ \A d \in Peers : d # p => up'[d] = up[d]
      BY <1>1, <2>3, <2>5
    <2>7. \A i \in DOMAIN s : i \in DOMAIN w /\ w[i] = s[i]
      BY <2>5
    <2>8. ASSUME NEW i \in DOMAIN w, i \notin DOMAIN s PROVE w[i].type = "RELAY"
      <3>1. i \in (Len(s) + 1) .. (Len(s) + Len(rest))
        BY <2>5, <2>8
      <3>2. w[i] = rest[i - Len(s)] /\ i - Len(s) \in DOMAIN targets
        BY <2>2, <2>5, <3>1
      <3> QED BY <2>4, <3>2
    <2>9. \A i \in DOMAIN targets :
            Len(s) + i \in DOMAIN w /\ w[Len(s) + i] = [type |-> "RELAY", peer |-> targets[i]]
      BY <2>2, <2>4, <2>5
    <2> QED BY <1>3, <2>6, <2>7, <2>8, <2>9
  <1> QED BY <1>2, <1>3

\* A message is put after those on the way.
LEMMA AppendFacts ==
  ASSUME NEW S, NEW s \in Seq(S), NEW x \in S
  PROVE  /\ Append(s, x) \in Seq(S) /\ DOMAIN s = 1 .. Len(s) /\ Len(s) \in Nat
         /\ DOMAIN Append(s, x) = 1 .. (Len(s) + 1)
         /\ \A i \in 1 .. Len(s) : Append(s, x)[i] = s[i]
         /\ Append(s, x)[Len(s) + 1] = x
  OBVIOUS

-----------------------------------------------------------------------------
(* What a client keeps *)

\* onRelayReady builds every link that is missing, if the client knows the
\* member.
LEMMA RelayReadyFacts ==
  ASSUME NEW c \in Clients, NEW q \in Peers, \A r \in Peers : LinkInv(c, r)
  PROVE  /\ RelayReady(c, q) \in Clients
         /\ RelayReady(c, q).phase = c.phase
         /\ RelayReady(c, q).known = c.known /\ RelayReady(c, q).members = c.members
         /\ \A r \in Peers : LinkInv(RelayReady(c, q), r)
         /\ \A r \in Peers : r # q => RelayReady(c, q).link[r] = c.link[r]
         /\ c.phase = "ready" /\ c.known[q] # 0 =>
              \A k \in Classes : RelayReady(c, q).link[q][k] # 0
         /\ c.known[q] = 0 => RelayReady(c, q).link[q] = c.link[q]
  <1> DEFINE d == RelayReady(c, q)
             waiting == {k \in Classes : <<q, k>> \in c.rebuild}
             build == IF waiting = {} THEN Classes ELSE waiting
             fresh == [k \in Classes |-> IF k \in build /\ c.link[q][k] = 0
                                         THEN c.known[q] ELSE c.link[q][k]]
  <1>0. /\ c.phase \in {"lobby", "asking", "preparing", "ready", "lost"}
        /\ c.relays \in SUBSET Peers /\ c.rebuild \in SUBSET (Peers \X Classes)
        /\ c.known \in [Peers -> Session] /\ c.link \in [Peers -> [Classes -> Session]]
    BY ClientFacts
  <1>1. CASE c.phase = "preparing"
    <2>0. PICK R \in SUBSET Peers : R = c.relays \cup {q}
      BY <1>0
    <2>1. d = [c EXCEPT !.relays = R]
      BY <1>1, <2>0 DEF RelayReady
    <2>2. /\ d \in Clients /\ d.phase = c.phase /\ d.known = c.known /\ d.link = c.link
          /\ d.rebuild = c.rebuild /\ d.members = c.members
      BY <2>1 DEF Clients
    <2>3. \A r \in Peers : LinkInv(d, r)
      BY <2>2 DEF LinkInv
    <2> QED BY <1>1, <2>2, <2>3
  <1>2. CASE c.phase # "preparing" /\ (c.phase # "ready" \/ c.known[q] = 0)
    BY <1>2 DEF RelayReady
  <1>3. CASE c.phase = "ready" /\ c.known[q] # 0
    <2>1. d = [c EXCEPT !.rebuild = @ \ ({q} \X Classes), !.link[q] = fresh]
      BY <1>3 DEF RelayReady
    <2>2. fresh \in [Classes -> Session]
      BY <1>0
    <2>3. /\ \A k \in Classes : fresh[k] # 0
          /\ \A k \in Classes : fresh[k] \in {0, c.known[q]}
      BY <1>0, <1>3 DEF LinkInv
    <2> HIDE DEF fresh
    <2>a. PICK L \in [Peers -> [Classes -> Session]] : L = [c.link EXCEPT ![q] = fresh]
      BY <1>0, <2>2
    <2>b. PICK R \in SUBSET (Peers \X Classes) : R = c.rebuild \ ({q} \X Classes)
      BY <1>0
    <2>c. d = [c EXCEPT !.rebuild = R, !.link = L]
      BY <2>1, <2>a, <2>b DEF Clients
    <2>4. /\ d \in Clients /\ d.phase = c.phase /\ d.known = c.known /\ d.members = c.members
          /\ d.link = [c.link EXCEPT ![q] = fresh]
          /\ d.rebuild = c.rebuild \ ({q} \X Classes)
      BY <2>a, <2>b, <2>c DEF Clients
    <2>5. d.link[q] = fresh /\ \A r \in Peers : r # q => d.link[r] = c.link[r]
      BY <1>0, <2>4
    <2>6. ASSUME NEW r \in Peers PROVE LinkInv(d, r)
      <3>1. CASE r = q
        <4>1. \A k \in Classes : <<q, k>> \notin d.rebuild
          BY <2>4
        <4> QED BY <1>3, <2>3, <2>4, <2>5, <3>1, <4>1 DEF LinkInv
      <3>2. CASE r # q
        <4>1. \A k \in Classes : <<r, k>> \in d.rebuild <=> <<r, k>> \in c.rebuild
          BY <2>4, <3>2
        <4>2. LinkInv(c, r)
          OBVIOUS
        <4> QED BY <2>4, <2>5, <3>2, <4>1, <4>2 DEF LinkInv
      <3> QED BY <3>1, <3>2
    <2> QED BY <1>3, <2>3, <2>4, <2>5, <2>6
  <1> QED BY <1>0, <1>1, <1>2, <1>3

\* rebuildPeerTransports, and removePeer with no session: all links to q are
\* dropped.
LEMMA DropFacts ==
  ASSUME NEW c \in Clients, NEW q \in Peers, NEW n \in Session,
         \A r \in Peers : LinkInv(c, r), c.phase = "ready"
  PROVE  LET d == RebuildPeerTransports(c, q, n)
         IN  /\ d \in Clients /\ d.phase = c.phase
             /\ d.known[q] = n /\ \A r \in Peers : r # q => d.known[r] = c.known[r]
             /\ \A r \in Peers : r # q => d.link[r] = c.link[r]
             /\ \A r \in Peers : LinkInv(d, r)
  <1> DEFINE d == RebuildPeerTransports(c, q, n)
  <1> DEFINE none == [k \in Classes |-> 0]
  <1>0. /\ c.rebuild \in SUBSET (Peers \X Classes)
        /\ c.known \in [Peers -> Session] /\ c.link \in [Peers -> [Classes -> Session]]
    BY ClientFacts
  <1>1. none \in [Classes -> Session] /\ \A k \in Classes : none[k] = 0
    BY ZeroSession
  <1> HIDE DEF none
  <1>2. d = [c EXCEPT !.known[q] = n, !.rebuild = @ \ ({q} \X Classes), !.link[q] = none]
    BY DEF none, RebuildPeerTransports
  <1> HIDE DEF d
  <1>3. /\ d \in Clients /\ d.phase = c.phase
        /\ d.known = [c.known EXCEPT ![q] = n] /\ d.link = [c.link EXCEPT ![q] = none]
        /\ d.rebuild = c.rebuild \ ({q} \X Classes)
    <2>1. PICK L \in [Peers -> [Classes -> Session]] : L = [c.link EXCEPT ![q] = none]
      BY <1>0, <1>1
    <2>2. PICK R \in SUBSET (Peers \X Classes) : R = c.rebuild \ ({q} \X Classes)
      BY <1>0
    <2>3. PICK K \in [Peers -> Session] : K = [c.known EXCEPT ![q] = n]
      BY <1>0
    <2>4. d = [c EXCEPT !.known = K, !.rebuild = R, !.link = L]
      BY <1>2, <2>1, <2>2, <2>3 DEF Clients
    <2> QED BY <2>1, <2>2, <2>3, <2>4 DEF Clients
  <1>4. /\ d.known[q] = n /\ \A r \in Peers : r # q => d.known[r] = c.known[r]
        /\ d.link[q] = none /\ \A r \in Peers : r # q => d.link[r] = c.link[r]
    BY <1>0, <1>3
  <1>5. ASSUME NEW r \in Peers PROVE LinkInv(d, r)
    <2>1. CASE r = q
      <3>1. \A k \in Classes : <<q, k>> \notin d.rebuild
        BY <1>3
      <3> QED BY <1>1, <1>3, <1>4, <2>1, <3>1 DEF LinkInv
    <2>2. CASE r # q
      <3>1. \A k \in Classes : <<r, k>> \in d.rebuild <=> <<r, k>> \in c.rebuild
        BY <1>3, <2>2
      <3>2. LinkInv(c, r)
        OBVIOUS
      <3> QED BY <1>3, <1>4, <2>2, <3>1, <3>2 DEF LinkInv
    <2> QED BY <2>1, <2>2
  <1> QED BY <1>3, <1>4, <1>5 DEF d

\* addPeer: links are not touched.
LEMMA AddPeerFacts ==
  ASSUME NEW c \in Clients, NEW q \in Peers, NEW n \in Session,
         \A r \in Peers : LinkInv(c, r), c.phase = "ready"
  PROVE  /\ AddPeer(c, q, n) \in Clients /\ AddPeer(c, q, n).phase = c.phase
         /\ AddPeer(c, q, n).known[q] = IF c.known[q] = 0 THEN n ELSE c.known[q]
         /\ \A r \in Peers : r # q => AddPeer(c, q, n).known[r] = c.known[r]
         /\ AddPeer(c, q, n).link = c.link
         /\ \A r \in Peers : LinkInv(AddPeer(c, q, n), r)
  <1> DEFINE d == AddPeer(c, q, n)
  <1>0. c.known \in [Peers -> Session] /\ c.link \in [Peers -> [Classes -> Session]]
    BY ClientFacts
  <1>1. PICK m \in Session : m = IF c.known[q] = 0 THEN n ELSE c.known[q]
    BY <1>0
  <1>2. d = [c EXCEPT !.known[q] = m]
    BY <1>1 DEF AddPeer
  <1>3. /\ d \in Clients /\ d.phase = c.phase /\ d.known = [c.known EXCEPT ![q] = m]
        /\ d.link = c.link /\ d.rebuild = c.rebuild
    <2>1. PICK K \in [Peers -> Session] : K = [c.known EXCEPT ![q] = m]
      BY <1>0
    <2>2. d = [c EXCEPT !.known = K]
      BY <1>2, <2>1 DEF Clients
    <2> QED BY <2>1, <2>2 DEF Clients
  <1> HIDE DEF d
  <1>4. d.known[q] = m /\ \A r \in Peers : r # q => d.known[r] = c.known[r]
    BY <1>0, <1>3
  <1>5. ASSUME NEW r \in Peers PROVE LinkInv(d, r)
    BY <1>1, <1>3, <1>4 DEF LinkInv
  <1> QED BY <1>1, <1>3, <1>4, <1>5 DEF d

\* completeRoomReadiness: the links the server has announced are there in
\* every class, the others in none.
LEMMA CompletedFacts ==
  ASSUME NEW c \in Clients, \A r \in Peers : LinkInv(c, r), c.phase = "preparing"
  PROVE  /\ Completed(c) \in Clients /\ Completed(c).phase = "ready"
         /\ \A r \in Peers : Completed(c).known[r] = c.members[r]
         /\ \A r \in Peers : r \in c.relays =>
              \A k \in Classes : Completed(c).link[r][k] = c.members[r]
         /\ \A r \in Peers : LinkInv(Completed(c), r)
  <1> DEFINE d == Completed(c)
  <1>0. /\ c.known \in [Peers -> Session] /\ c.link \in [Peers -> [Classes -> Session]]
        /\ c.members \in [Peers -> Session] /\ c.rebuild \in SUBSET (Peers \X Classes)
    BY ClientFacts
  <1>1. /\ \A r \in Peers : c.known[r] = 0 /\ \A k \in Classes : c.link[r][k] = 0
        /\ \A r \in Peers : \A k \in Classes : <<r, k>> \notin c.rebuild
    BY DEF LinkInv
  <1>2. /\ d.phase = "ready" /\ d.rebuild = c.rebuild /\ d.lease = c.lease
        /\ d.members = [q \in Peers |-> 0] /\ d.relays = {}
        /\ d.known = [q \in Peers |-> IF c.known[q] = 0 THEN c.members[q] ELSE c.known[q]]
        /\ d.link = [q \in Peers |-> [k \in Classes |->
                       IF q \in c.relays THEN c.members[q] ELSE c.link[q][k]]]
    BY DEF Completed, Clients
  <1>3. /\ \A r \in Peers : d.known[r] = c.members[r]
        /\ \A r \in Peers : \A k \in Classes :
             d.link[r][k] = IF r \in c.relays THEN c.members[r] ELSE 0
    BY <1>0, <1>1, <1>2
  <1>4. d \in Clients
    <2>1. [q \in Peers |-> 0] \in [Peers -> Session]
      BY ZeroSession
    <2>2. [q \in Peers |-> IF c.known[q] = 0 THEN c.members[q] ELSE c.known[q]]
            \in [Peers -> Session]
      BY <1>0
    <2>3. [q \in Peers |-> [k \in Classes |->
                       IF q \in c.relays THEN c.members[q] ELSE c.link[q][k]]]
            \in [Peers -> [Classes -> Session]]
      BY <1>0
    <2> QED BY <2>1, <2>2, <2>3 DEF Completed, Clients
  <1> HIDE DEF d
  <1>5. \A r \in Peers : LinkInv(d, r)
    BY <1>1, <1>2, <1>3 DEF LinkInv
  <1> QED BY <1>2, <1>3, <1>4, <1>5 DEF d

-----------------------------------------------------------------------------
(* A client reads a message *)

\* A member of which the client has still to be told is in a message that makes
\* it ask for the link, unless the member is gone.
LEMMA LateNews ==
  ASSUME NEW s \in Seq(Messages), NEW q, NEW v, v # 0, LastWord(s, q, v), ~Silent(s, q),
         \A i \in DOMAIN s : s[i].type # "JOIN_RESP"
  PROVE  Asked(s, q)
  <1>1. PICK i \in DOMAIN s : Tells(s[i], q)
    BY DEF Silent
  <1>2. PICK j \in DOMAIN s : Tells(s[j], q) /\ Says(s[j], q) = v
    BY <1>1 DEF LastWord
  <1>3. s[j].type # "PEER_LEFT" /\ s[j].peer = q
    BY <1>2 DEF Says, Tells
  <1> QED BY <1>3 DEF Asked

\* A client of which nothing changes.
LEMMA JoinSame ==
  ASSUME NEW d \in Peers, JoinInv(d), room'[d] = room[d],
         client'[d].phase = client[d].phase, up'[d] = up[d], down'[d] = down[d]
  PROVE  JoinInv(d)'
  BY DEF JoinInv

\* Reading the first message leads p to keep c and to ask for the targets: only
\* JOIN_RESP changes the phase; of each member c takes what the message says,
\* except that it keeps a member of which PEER_JOINED tells; a link that is
\* missing is asked for or will be, unless something was refused.
ReadsPhase(p, c) ==
  \/ c.phase = client[p].phase
  \/ Head(down[p]).type = "JOIN_RESP" /\ client[p].phase = "asking" /\ c.phase = "preparing"

ReadsNews(p, c) ==
  \A q \in Peers : q # p /\ c.phase \in {"preparing", "ready"} =>
    IF Tells(Head(down[p]), q)
    THEN \/ View(c, q) = Says(Head(down[p]), q)
         \/ /\ Head(down[p]).type = "PEER_JOINED" /\ client[p].phase = c.phase
            /\ View(client[p], q) # 0
    ELSE client[p].phase = c.phase /\ View(c, q) = View(client[p], q)

ReadsAsked(p, c, targets) ==
  \A q \in Peers :
    /\ q # p /\ c.phase = "ready" /\ room[p] = "online" /\ room[q] = "online"
    /\ q \notin unheard[p] \cup unanswered[p]
    /\ \E k \in Classes : c.link[q][k] = 0
    => \/ \E i \in DOMAIN targets : targets[i] = q
       \/ Asked(Tail(down[p]), q)
       \/ /\ client[p].phase = "ready" /\ \E k \in Classes : client[p].link[q][k] = 0
          /\ Head(down[p]).type \in {"JOIN_RESP", "PEER_LEFT"} \/ Head(down[p]).peer # q

\* The first message is read: the client keeps c afterwards and asks for the
\* targets.
LEMMA TakeStep ==
  ASSUME LinksInv, NEW p \in Peers, NEW c \in Clients, NEW targets \in Seq(Peers),
         down[p] # <<>>, Take(p, c, targets),
         ReadsPhase(p, c), ReadsNews(p, c), ReadsAsked(p, c, targets),
         \A q \in Peers : LinkInv(c, q)
  PROVE  LinksInv'
  <1> DEFINE s == down[p]
             w == Tail(s)
             u == up[p]
  <1>0. /\ TypeOK /\ ConnInv(p) /\ JoinInv(p) /\ client[p] \in Clients /\ s \in Seq(Messages)
        /\ down \in [Peers -> Seq(Messages)] /\ client \in [Peers -> Clients]
        /\ \A q \in Peers : q # p => NewsInv(p, q) /\ AskedInv(p, q)
    BY DEF LinksInv, TypeOK
  <1>1. /\ client' = [client EXCEPT ![p] = c] /\ down' = [down EXCEPT ![p] = w]
        /\ RequestRelay(p, targets)
        /\ UNCHANGED <<room, session, conn, missed, starts, failures>>
    BY DEF Take
  <1>2. /\ Head(s) = s[1] /\ 1 \in DOMAIN s /\ w \in Seq(Messages) /\ Head(s) \in Messages
        /\ DOMAIN s = 1 .. Len(s) /\ Len(s) \in Nat \ {0}
        /\ DOMAIN w = 1 .. (Len(s) - 1)
        /\ \A i \in 1 .. (Len(s) - 1) : w[i] = s[i + 1] /\ i + 1 \in DOMAIN s
    BY <1>0, TailFacts
  <1> HIDE DEF w
  <1>3. /\ up' \in [Peers -> Seq(Requests)]
        /\ \A d \in Peers : d # p => up'[d] = up[d]
        /\ ~conn[p] => up'[p] = u
        /\ \A i \in DOMAIN u : i \in DOMAIN up'[p] /\ up'[p][i] = u[i]
        /\ \A i \in DOMAIN up'[p] : i \in DOMAIN u \/ up'[p][i].type = "RELAY"
        /\ conn[p] => \A i \in DOMAIN targets : \E j \in DOMAIN up'[p] :
                        up'[p][j] = [type |-> "RELAY", peer |-> targets[i]]
    BY <1>0, <1>1, RelayEffects
  <1>4. /\ client'[p] = c /\ down'[p] = w
        /\ \A d \in Peers : d # p => client'[d] = client[d] /\ down'[d] = down[d]
    BY <1>0, <1>1
  <1>5. TypeOK'
    <2>1. down' \in [Peers -> Seq(Messages)] /\ client' \in [Peers -> Clients]
      BY <1>0, <1>1, <1>2
    <2> QED BY <1>0, <1>1, <1>3, <2>1 DEF TypeOK, missed
  <1>6. ASSUME NEW d \in Peers PROVE ConnInv(d)'
    <2>1. CASE d # p
      BY <1>1, <1>3, <1>4, <2>1 DEF LinksInv, ConnInv
    <2>2. CASE d = p
      <3>1. c.phase # "lost"
        BY <1>0 DEF ConnInv, ReadsPhase
      <3> QED BY <1>0, <1>1, <1>3, <1>4, <2>2, <3>1 DEF ConnInv
    <2> QED BY <2>1, <2>2
  <1>7. ASSUME NEW d \in Peers PROVE JoinInv(d)'
    <2>1. CASE d # p
      <3>1. JoinInv(d)
        BY DEF LinksInv
      <3> QED BY <1>1, <1>3, <1>4, <2>1, <3>1, JoinSame
    <2>2. CASE d = p
      <3>1. ASSUME NEW i \in DOMAIN up'[p], up'[p][i].type = "JOIN"
            PROVE  /\ c.phase \in {"asking", "lost"}
                   /\ \A j \in DOMAIN up'[p] : up'[p][j].type = "JOIN" => j = i
                   /\ \A j \in DOMAIN w : w[j].type # "JOIN_RESP"
                   /\ room[p] = "online" =>
                        \E j \in DOMAIN up'[p] : j < i /\ up'[p][j].type = "LEAVE"
        <4>1. i \in DOMAIN u /\ u[i].type = "JOIN"
          BY <1>3, <3>1
        <4>2. /\ client[p].phase \in {"asking", "lost"}
              /\ \A j \in DOMAIN u : u[j].type = "JOIN" => j = i
              /\ \A j \in DOMAIN s : s[j].type # "JOIN_RESP"
              /\ room[p] = "online" => \E j \in DOMAIN u : j < i /\ u[j].type = "LEAVE"
          BY <1>0, <4>1 DEF JoinInv
        <4>3. c.phase = client[p].phase
          BY <1>2, <4>2 DEF ReadsPhase
        <4>4. \A j \in DOMAIN up'[p] : up'[p][j].type = "JOIN" => j = i
          BY <1>3, <4>2
        <4>5. ASSUME NEW j \in DOMAIN w PROVE w[j].type # "JOIN_RESP"
          <5>1. j + 1 \in DOMAIN s /\ w[j] = s[j + 1]
            BY <1>2
          <5> QED BY <4>2, <5>1
        <4> QED BY <1>3, <4>2, <4>3, <4>4, <4>5
      <3>2. ASSUME NEW i \in DOMAIN w, w[i].type = "JOIN_RESP"
            PROVE  c.phase = "asking" /\ \A j \in DOMAIN w : w[j].type = "JOIN_RESP" => j = i
        <4>1. i + 1 \in DOMAIN s /\ s[i + 1].type = "JOIN_RESP" /\ i \in Nat /\ i + 1 # 1
          BY <1>2, <3>2
        <4>2. /\ client[p].phase = "asking"
              /\ \A j \in DOMAIN s : s[j].type = "JOIN_RESP" => j = i + 1
          BY <1>0, <4>1 DEF JoinInv
        <4>3. Head(s).type # "JOIN_RESP"
          BY <1>2, <4>1, <4>2
        <4>4. ASSUME NEW j \in DOMAIN w, w[j].type = "JOIN_RESP" PROVE j = i
          <5>1. j + 1 \in DOMAIN s /\ s[j + 1].type = "JOIN_RESP" /\ j \in Nat
            BY <1>2, <4>4
          <5>2. j + 1 = i + 1
            BY <4>2, <5>1
          <5> QED BY <4>1, <5>1, <5>2
        <4> QED BY <4>2, <4>3, <4>4 DEF ReadsPhase
      <3>3. ASSUME c.phase = "lobby", room[p] = "online"
            PROVE  \E i \in DOMAIN up'[p] : up'[p][i].type = "LEAVE"
        <4>1. \E i \in DOMAIN u : u[i].type = "LEAVE"
          BY <1>0, <3>3 DEF JoinInv, ReadsPhase
        <4> QED BY <1>3, <4>1
      <3> QED BY <1>1, <1>4, <2>2, <3>1, <3>2, <3>3 DEF JoinInv
    <2> QED BY <2>1, <2>2
  <1>8. ASSUME NEW d \in Peers, NEW q \in Peers PROVE LinkInv(client[d], q)'
    <2>1. LinkInv(client'[d], q)
      BY <1>4 DEF LinksInv
    <2> QED BY <2>1 DEF LinkInv
  <1>9. ASSUME NEW d \in Peers, NEW q \in Peers, d # q PROVE NewsInv(d, q)'
    <2>0. Truth(q)' = Truth(q)
      BY <1>1 DEF Truth
    <2>1. CASE d # p
      <3>1. NewsInv(d, q)
        BY <1>9 DEF LinksInv
      <3> QED BY <1>1, <1>4, <2>0, <2>1, <3>1 DEF NewsInv, missed
    <2>2. CASE d = p
      <3> SUFFICES ASSUME room[p] = "online", q \notin unheard[p]
                   PROVE  /\ Orderly(w, q) /\ LastWord(w, q, Truth(q))
                          /\ c.phase \in {"preparing", "ready"} =>
                               /\ FirstWord(w, q, View(c, q))
                               /\ Silent(w, q) => View(c, q) = Truth(q)
        BY <1>1, <1>4, <2>0, <2>2 DEF NewsInv, missed
      <3>0. /\ Orderly(s, q) /\ LastWord(s, q, Truth(q))
            /\ client[p].phase \in {"preparing", "ready"} =>
                 /\ FirstWord(s, q, View(client[p], q))
                 /\ Silent(s, q) => View(client[p], q) = Truth(q)
        BY <1>0, <1>9, <2>2 DEF NewsInv, missed
      <3>1. CASE Tells(Head(s), q)
        <4>1. Orderly(w, q) /\ FirstWord(w, q, Says(Head(s), q))
          BY <1>0, <3>0, <3>1, ReadNews DEF w
        <4>2. LastWord(w, q, Truth(q)) /\ (Silent(w, q) => Says(Head(s), q) = Truth(q))
          BY <1>0, <3>0, <3>1, ReadNews DEF w
        <4>3. CASE c.phase \in {"preparing", "ready"} /\ View(c, q) # Says(Head(s), q)
          <5>1. /\ Head(s).type = "PEER_JOINED" /\ client[p].phase = c.phase
                /\ View(client[p], q) # 0
            BY <1>9, <2>2, <3>1, <4>3 DEF ReadsNews
          <5>2. Says(Head(s), q) # 0
            BY <1>2, <5>1, MessageFacts DEF Says
          <5>3. FirstWord(w, q, View(c, q))
            BY <4>1, <5>2 DEF FirstWord
          <5>4. FirstWord(s, q, View(client[p], q))
            BY <3>0, <4>3, <5>1
          <5>5. ~Silent(w, q)
            BY <1>0, <3>1, <5>1, <5>4, ReadNews DEF w
          <5> QED BY <4>1, <4>2, <5>3, <5>5
        <4> QED BY <4>1, <4>2, <4>3
      <3>2. CASE ~Tells(Head(s), q)
        <4>1. Orderly(w, q) /\ LastWord(w, q, Truth(q)) /\ (Silent(w, q) => Silent(s, q))
          BY <1>0, <3>0, <3>2, ReadOther DEF w
        <4>2. c.phase \in {"preparing", "ready"} =>
                client[p].phase = c.phase /\ View(c, q) = View(client[p], q)
          BY <1>9, <2>2, <3>2 DEF ReadsNews
        <4>3. c.phase \in {"preparing", "ready"} => FirstWord(w, q, View(c, q))
          BY <1>0, <3>0, <3>2, <4>2, ReadOther DEF w
        <4> QED BY <3>0, <4>1, <4>2, <4>3
      <3> QED BY <3>1, <3>2
    <2> QED BY <2>1, <2>2
  <1>10. ASSUME NEW d \in Peers, NEW q \in Peers, d # q PROVE AskedInv(d, q)'
    <2>1. CASE d # p
      <3>1. AskedInv(d, q)
        BY <1>10 DEF LinksInv
      <3> QED BY <1>1, <1>3, <1>4, <2>1, <3>1 DEF AskedInv, missed
    <2>2. CASE d = p
      <3> SUFFICES ASSUME c.phase = "ready", room[p] = "online", room[q] = "online",
                          q \notin unheard[p] \cup unanswered[p],
                          \E k \in Classes : c.link[q][k] = 0
                   PROVE  Asked(w, q) \/ Wanted(up'[p], q)
        BY <1>1, <1>4, <2>2 DEF AskedInv, missed
      <3>1. CASE \E i \in DOMAIN targets : targets[i] = q
        <4>1. conn[p]
          BY <1>0 DEF ConnInv
        <4> QED BY <1>3, <3>1, <4>1 DEF Wanted
      <3>2. CASE Asked(w, q)
        BY <3>2
      <3>3. CASE /\ client[p].phase = "ready" /\ \E k \in Classes : client[p].link[q][k] = 0
                 /\ Head(s).type \in {"JOIN_RESP", "PEER_LEFT"} \/ Head(s).peer # q
        <4>1. Asked(s, q) \/ Wanted(u, q)
          BY <1>0, <1>10, <2>2, <3>3 DEF AskedInv, missed
        <4>2. CASE Wanted(u, q)
          BY <1>3, <4>2 DEF Wanted
        <4>3. CASE Asked(s, q)
          <5>1. PICK i \in DOMAIN s :
                  s[i].type # "JOIN_RESP" /\ s[i].type # "PEER_LEFT" /\ s[i].peer = q
            BY <4>3 DEF Asked
          <5>2. i # 1 /\ i \in Nat
            BY <1>2, <3>3, <5>1
          <5>3. i - 1 \in DOMAIN w /\ w[i - 1] = s[i]
            BY <1>2, <5>2
          <5> QED BY <5>1, <5>3 DEF Asked
        <4> QED BY <4>1, <4>2, <4>3
      <3> QED BY <1>10, <2>2, <3>1, <3>2, <3>3 DEF w, ReadsAsked
    <2> QED BY <2>1, <2>2
  <1> QED BY <1>5, <1>6, <1>7, <1>8, <1>9, <1>10 DEF LinksInv

\* The message that comes next.
LEMMA ComesFacts ==
  ASSUME LinksInv, NEW p \in Peers, NEW type, Comes(p, type)
  PROVE  /\ down[p] # <<>> /\ down[p] \in Seq(Messages) /\ client[p] \in Clients
         /\ Head(down[p]) \in Messages /\ Head(down[p]).type = type
         /\ 1 \in DOMAIN down[p] /\ down[p][1] = Head(down[p])
         /\ \A q \in Peers : LinkInv(client[p], q)
  <1>1. down[p] \in Seq(Messages) /\ client[p] \in Clients /\ down[p] # <<>>
    BY DEF LinksInv, TypeOK, Comes
  <1> QED BY <1>1, TailFacts DEF Comes, LinksInv

\* The answer to a join: the members and nothing else are known.
LEMMA OnJoinResponseStep ==
  ASSUME LinksInv, NEW p \in Peers, OnJoinResponse(p)
  PROVE  LinksInv'
  <1> DEFINE m == Head(down[p])
             e == client[p]
  <1>1. /\ down[p] # <<>> /\ e \in Clients /\ m \in Messages /\ m.type = "JOIN_RESP"
        /\ 1 \in DOMAIN down[p] /\ down[p][1] = m /\ \A q \in Peers : LinkInv(e, q)
    BY ComesFacts DEF OnJoinResponse
  <1>2. e.phase = "asking"
    BY <1>1 DEF LinksInv, JoinInv
  <1>3. m.members \in [Peers -> Session]
    BY <1>1, MessageFacts
  <1>4. PICK M \in [Peers -> Session] : M = [m.members EXCEPT ![p] = 0]
    BY <1>3, ZeroSession
  <1> DEFINE c == [e EXCEPT !.phase = "preparing", !.lease = TRUE, !.members = M, !.relays = {}]
  <1>5. Take(p, c, <<>>)
    BY <1>2, <1>4 DEF OnJoinResponse
  <1>6. /\ c \in Clients /\ c.phase = "preparing" /\ c.members = M
        /\ c.known = e.known /\ c.link = e.link /\ c.rebuild = e.rebuild
    BY <1>1 DEF Clients
  <1> HIDE DEF c
  <1>7. \A q \in Peers : LinkInv(c, q)
    BY <1>1, <1>2, <1>6 DEF LinkInv
  <1>8. ReadsNews(p, c)
    BY <1>1, <1>3, <1>4, <1>6 DEF Tells, View, Says, ReadsNews
  <1>9. <<>> \in Seq(Peers) /\ ReadsAsked(p, c, <<>>) /\ ReadsPhase(p, c)
    BY <1>1, <1>2, <1>6 DEF ReadsAsked, ReadsPhase
  <1> QED BY <1>1, <1>5, <1>6, <1>7, <1>8, <1>9, TakeStep

\* PEER_JOINED, applied or kept until the client is ready.
LEMMA OnPeerJoinedStep ==
  ASSUME LinksInv, NEW p \in Peers, OnPeerJoined(p)
  PROVE  LinksInv'
  <1> DEFINE m == Head(down[p])
             e == client[p]
             q == m.peer
             n == m.session
  <1>1. /\ down[p] # <<>> /\ e \in Clients /\ m \in Messages /\ m.type = "PEER_JOINED"
        /\ down[p] \in Seq(Messages)
        /\ 1 \in DOMAIN down[p] /\ down[p][1] = m /\ \A r \in Peers : LinkInv(e, r)
    BY ComesFacts DEF OnPeerJoined
  <1>2. q \in Peers /\ n \in Session
    BY <1>1, MessageFacts
  <1>3. \A r \in Peers : Tells(m, r) <=> r = q
    BY <1>1 DEF Tells, News
  <1>4. Says(m, q) = n
    BY <1>1 DEF Says
  <1>5. <<>> \in Seq(Peers) /\ <<q>> \in Seq(Peers) /\ 1 \in DOMAIN <<q>> /\ <<q>>[1] = q
    BY <1>2
  <1>6. CASE e.phase = "preparing"
    <2>1. e.members \in [Peers -> Session]
      BY <1>1, ClientFacts
    <2>2. PICK M \in [Peers -> Session] : M = [e.members EXCEPT ![q] = n]
      BY <1>2, <2>1
    <2> DEFINE c == [e EXCEPT !.members = M]
    <2>3. c = [e EXCEPT !.members[q] = n]
      BY <1>1, <2>2 DEF Clients
    <2>4. Take(p, c, <<>>)
      BY <1>6, <2>3 DEF OnPeerJoined
    <2>5. /\ c \in Clients /\ c.phase = e.phase /\ c.members = M
          /\ c.known = e.known /\ c.link = e.link /\ c.rebuild = e.rebuild
      BY <1>1 DEF Clients
    <2> HIDE DEF c
    <2>6. \A r \in Peers : LinkInv(c, r)
      BY <1>1, <2>5 DEF LinkInv
    <2>7. \A r \in Peers : View(c, r) = IF r = q THEN n ELSE View(e, r)
      BY <1>2, <1>6, <2>1, <2>2, <2>5 DEF View
    <2>8. ReadsNews(p, c)
      BY <1>3, <1>4, <2>5, <2>7 DEF ReadsNews
    <2>9. ReadsAsked(p, c, <<>>) /\ ReadsPhase(p, c)
      BY <1>6, <2>5 DEF ReadsAsked, ReadsPhase
    <2> QED BY <1>1, <1>5, <2>4, <2>5, <2>6, <2>8, <2>9, TakeStep
  <1>7. CASE e.phase = "ready"
    <2> DEFINE c == AddPeer(e, q, n)
    <2>1. Take(p, c, <<q>>)
      BY <1>7 DEF OnPeerJoined
    <2>2. /\ c \in Clients /\ c.phase = e.phase /\ c.link = e.link
          /\ c.known[q] = IF e.known[q] = 0 THEN n ELSE e.known[q]
          /\ \A r \in Peers : r # q => c.known[r] = e.known[r]
          /\ \A r \in Peers : LinkInv(c, r)
      BY <1>1, <1>2, <1>7, AddPeerFacts
    <2> HIDE DEF c
    <2>4. /\ \A r \in Peers : r # q => View(c, r) = View(e, r)
          /\ View(c, q) = n \/ View(e, q) # 0
      BY <1>2, <1>7, <2>2 DEF View
    <2>5. ReadsNews(p, c)
      BY <1>1, <1>3, <1>4, <2>2, <2>4 DEF ReadsNews
    <2>6. ReadsAsked(p, c, <<q>>) /\ ReadsPhase(p, c)
      BY <1>5, <1>7, <2>2 DEF ReadsAsked, ReadsPhase
    <2> QED BY <1>1, <1>5, <2>1, <2>2, <2>5, <2>6, TakeStep
  <1>8. CASE e.phase \notin {"preparing", "ready"}
    <2>1. Take(p, e, <<>>)
      BY <1>8 DEF OnPeerJoined
    <2>2. ReadsNews(p, e) /\ ReadsAsked(p, e, <<>>) /\ ReadsPhase(p, e)
      BY <1>8 DEF ReadsNews, ReadsAsked, ReadsPhase
    <2> QED BY <1>1, <1>5, <2>1, <2>2, TakeStep
  <1> QED BY <1>6, <1>7, <1>8

\* PEER_RESUMED: the links of the session before are dropped.
LEMMA OnPeerResumedStep ==
  ASSUME LinksInv, NEW p \in Peers, OnPeerResumed(p)
  PROVE  LinksInv'
  <1> DEFINE m == Head(down[p])
             e == client[p]
             q == m.peer
             n == m.session
  <1>1. /\ down[p] # <<>> /\ e \in Clients /\ m \in Messages /\ m.type = "PEER_RESUMED"
        /\ \A r \in Peers : LinkInv(e, r)
    BY ComesFacts DEF OnPeerResumed
  <1>2. q \in Peers /\ n \in Session
    BY <1>1, MessageFacts
  <1>3. \A r \in Peers : Tells(m, r) <=> r = q
    BY <1>1 DEF Tells, News
  <1>4. Says(m, q) = n
    BY <1>1 DEF Says
  <1>5. <<>> \in Seq(Peers) /\ <<q>> \in Seq(Peers) /\ 1 \in DOMAIN <<q>> /\ <<q>>[1] = q
    BY <1>2
  <1>6. CASE e.phase = "preparing"
    <2>1. e.members \in [Peers -> Session] /\ e.relays \in SUBSET Peers
      BY <1>1, ClientFacts
    <2>2. PICK M \in [Peers -> Session] : M = [e.members EXCEPT ![q] = n]
      BY <1>2, <2>1
    <2>r. PICK R \in SUBSET Peers : R = e.relays \ {q}
      BY <2>1
    <2> DEFINE c == [e EXCEPT !.members = M, !.relays = R]
    <2>3. c = [e EXCEPT !.members[q] = n, !.relays = @ \ {q}]
      BY <1>1, <2>2, <2>r DEF Clients
    <2>4. Take(p, c, <<>>)
      BY <1>6, <2>3 DEF OnPeerResumed
    <2>5. /\ c \in Clients /\ c.phase = e.phase /\ c.members = M
          /\ c.known = e.known /\ c.link = e.link /\ c.rebuild = e.rebuild
      BY <1>1 DEF Clients
    <2> HIDE DEF c
    <2>6. \A r \in Peers : LinkInv(c, r)
      BY <1>1, <2>5 DEF LinkInv
    <2>7. \A r \in Peers : View(c, r) = IF r = q THEN n ELSE View(e, r)
      BY <1>2, <1>6, <2>1, <2>2, <2>5 DEF View
    <2>8. ReadsNews(p, c)
      BY <1>3, <1>4, <2>5, <2>7 DEF ReadsNews
    <2>9. ReadsAsked(p, c, <<>>) /\ ReadsPhase(p, c)
      BY <1>6, <2>5 DEF ReadsAsked, ReadsPhase
    <2> QED BY <1>1, <1>5, <2>4, <2>5, <2>6, <2>8, <2>9, TakeStep
  <1>7. CASE e.phase = "ready"
    <2> DEFINE c == IF e.known[q] = 0 THEN AddPeer(e, q, n) ELSE RebuildPeerTransports(e, q, n)
    <2>1. Take(p, c, <<q>>)
      BY <1>7 DEF OnPeerResumed
    <2>2. /\ c \in Clients /\ c.phase = e.phase /\ c.known[q] = n
          /\ \A r \in Peers : r # q => c.known[r] = e.known[r] /\ c.link[r] = e.link[r]
          /\ \A r \in Peers : LinkInv(c, r)
      <3>1. CASE e.known[q] = 0
        BY <1>1, <1>2, <1>7, <3>1, AddPeerFacts
      <3>2. CASE e.known[q] # 0
        <4>1. c = RebuildPeerTransports(e, q, n)
          BY <3>2
        <4> HIDE DEF c
        <4> QED BY <1>1, <1>2, <1>7, <4>1, DropFacts
      <3> QED BY <3>1, <3>2
    <2> HIDE DEF c
    <2>4. \A r \in Peers : View(c, r) = IF r = q THEN n ELSE View(e, r)
      BY <1>2, <1>7, <2>2 DEF View
    <2>5. ReadsNews(p, c)
      BY <1>3, <1>4, <2>2, <2>4 DEF ReadsNews
    <2>6. ReadsAsked(p, c, <<q>>) /\ ReadsPhase(p, c)
      BY <1>5, <1>7, <2>2 DEF ReadsAsked, ReadsPhase
    <2> QED BY <1>1, <1>5, <2>1, <2>2, <2>5, <2>6, TakeStep
  <1>8. CASE e.phase \notin {"preparing", "ready"}
    <2>1. Take(p, e, <<>>)
      BY <1>8 DEF OnPeerResumed
    <2>2. ReadsNews(p, e) /\ ReadsAsked(p, e, <<>>) /\ ReadsPhase(p, e)
      BY <1>8 DEF ReadsNews, ReadsAsked, ReadsPhase
    <2> QED BY <1>1, <1>5, <2>1, <2>2, TakeStep
  <1> QED BY <1>6, <1>7, <1>8

\* PEER_LEFT about a member that is in the room again is followed by the news
\* that it is.
LEMMA OnPeerLeftStep ==
  ASSUME LinksInv, NEW p \in Peers, OnPeerLeft(p)
  PROVE  LinksInv'
  <1> DEFINE m == Head(down[p])
             e == client[p]
             q == m.peer
             w == Tail(down[p])
  <1>1. /\ down[p] # <<>> /\ e \in Clients /\ m \in Messages /\ m.type = "PEER_LEFT"
        /\ down[p] \in Seq(Messages)
        /\ \A r \in Peers : LinkInv(e, r)
    BY ComesFacts DEF OnPeerLeft
  <1>2. q \in Peers /\ 0 \in Session
    BY <1>1, MessageFacts, ZeroSession
  <1>3. \A r \in Peers : Tells(m, r) <=> r = q
    BY <1>1 DEF Tells, News
  <1>4. Says(m, q) = 0
    BY <1>1 DEF Says
  <1>5. <<>> \in Seq(Peers)
    OBVIOUS
  <1>6. CASE e.phase = "preparing"
    <2>1. e.members \in [Peers -> Session] /\ e.relays \in SUBSET Peers
      BY <1>1, ClientFacts
    <2>2. PICK M \in [Peers -> Session] : M = [e.members EXCEPT ![q] = 0]
      BY <1>2, <2>1
    <2>r. PICK R \in SUBSET Peers : R = e.relays \ {q}
      BY <2>1
    <2> DEFINE c == [e EXCEPT !.members = M, !.relays = R]
    <2>3. c = [e EXCEPT !.members[q] = 0, !.relays = @ \ {q}]
      BY <1>1, <2>2, <2>r DEF Clients
    <2>4. Take(p, c, <<>>)
      BY <1>6, <2>3 DEF OnPeerLeft
    <2>5. /\ c \in Clients /\ c.phase = e.phase /\ c.members = M
          /\ c.known = e.known /\ c.link = e.link /\ c.rebuild = e.rebuild
      BY <1>1 DEF Clients
    <2> HIDE DEF c
    <2>6. \A r \in Peers : LinkInv(c, r)
      BY <1>1, <2>5 DEF LinkInv
    <2>7. \A r \in Peers : View(c, r) = IF r = q THEN 0 ELSE View(e, r)
      BY <1>2, <1>6, <2>1, <2>2, <2>5 DEF View
    <2>8. ReadsNews(p, c)
      BY <1>3, <1>4, <2>5, <2>7 DEF ReadsNews
    <2>9. ReadsAsked(p, c, <<>>) /\ ReadsPhase(p, c)
      BY <1>6, <2>5 DEF ReadsAsked, ReadsPhase
    <2> QED BY <1>1, <1>5, <2>4, <2>5, <2>6, <2>8, <2>9, TakeStep
  <1>7. CASE e.phase = "ready"
    <2> DEFINE c == RemovePeer(e, q)
    <2>1. Take(p, c, <<>>)
      BY <1>7 DEF OnPeerLeft
    <2>2. /\ c \in Clients /\ c.phase = e.phase /\ c.known[q] = 0
          /\ \A r \in Peers : r # q => c.known[r] = e.known[r] /\ c.link[r] = e.link[r]
          /\ \A r \in Peers : LinkInv(c, r)
      <3>1. c = RebuildPeerTransports(e, q, 0)
        BY DEF RemovePeer, RebuildPeerTransports
      <3> HIDE DEF c
      <3> QED BY <1>1, <1>2, <1>7, <3>1, DropFacts
    <2> HIDE DEF c
    <2>4. \A r \in Peers : View(c, r) = IF r = q THEN 0 ELSE View(e, r)
      BY <1>2, <1>7, <2>2 DEF View
    <2>5. ReadsNews(p, c)
      BY <1>3, <1>4, <2>2, <2>4 DEF ReadsNews
    <2>6. ASSUME room[p] = "online", room[q] = "online", q # p, q \notin unheard[p]
          PROVE  Asked(w, q)
      <3>1. LastWord(down[p], q, session[q]) /\ session[q] # 0
        BY <1>2, <2>6 DEF LinksInv, NewsInv, Truth, ConnInv
      <3>2. LastWord(w, q, session[q]) /\ ~Silent(w, q)
        BY <1>1, <1>2, <1>3, <1>4, <3>1, ReadNews
      <3>3. /\ \A i \in DOMAIN w : \E j \in DOMAIN down[p] : w[i] = down[p][j]
            /\ w \in Seq(Messages)
        BY <1>1, TailFacts
      <3>4. \A i \in DOMAIN down[p] : down[p][i].type # "JOIN_RESP"
        BY <1>7 DEF LinksInv, JoinInv
      <3> HIDE DEF w
      <3>5. \A i \in DOMAIN w : w[i].type # "JOIN_RESP"
        BY <3>3, <3>4
      <3> QED BY <3>1, <3>2, <3>3, <3>5, LateNews
    <2>7. ReadsAsked(p, c, <<>>) /\ ReadsPhase(p, c)
      BY <1>7, <2>2, <2>6 DEF ReadsAsked, ReadsPhase
    <2> QED BY <1>1, <1>5, <2>1, <2>2, <2>5, <2>7, TakeStep
  <1>8. CASE e.phase \notin {"preparing", "ready"}
    <2>1. Take(p, e, <<>>)
      BY <1>8 DEF OnPeerLeft
    <2>2. ReadsNews(p, e) /\ ReadsAsked(p, e, <<>>) /\ ReadsPhase(p, e)
      BY <1>8 DEF ReadsNews, ReadsAsked, ReadsPhase
    <2> QED BY <1>1, <1>5, <2>1, <2>2, TakeStep
  <1> QED BY <1>6, <1>7, <1>8

\* RELAY_READY: what waits is rebuilt, or every class is built.
LEMMA OnRelayReadyStep ==
  ASSUME LinksInv, NEW p \in Peers, OnRelayReady(p)
  PROVE  LinksInv'
  <1> DEFINE m == Head(down[p])
             e == client[p]
             q == m.peer
             w == Tail(down[p])
             c == RelayReady(e, q)
  <1>1. /\ down[p] # <<>> /\ e \in Clients /\ m \in Messages /\ m.type = "RELAY_READY"
        /\ down[p] \in Seq(Messages)
        /\ \A r \in Peers : LinkInv(e, r)
    BY ComesFacts DEF OnRelayReady
  <1>2. q \in Peers
    BY <1>1, MessageFacts
  <1>3. \A r \in Peers : ~Tells(m, r)
    BY <1>1 DEF Tells, News
  <1>4. Take(p, c, <<>>)
    BY DEF OnRelayReady
  <1>5. <<>> \in Seq(Peers)
    OBVIOUS
  <1>6. /\ c \in Clients /\ c.phase = e.phase
        /\ c.known = e.known /\ c.members = e.members
        /\ \A r \in Peers : LinkInv(c, r)
        /\ \A r \in Peers : r # q => c.link[r] = e.link[r]
        /\ e.phase = "ready" /\ e.known[q] # 0 => \A k \in Classes : c.link[q][k] # 0
    BY <1>1, <1>2, RelayReadyFacts
  <1> HIDE DEF c
  <1>7. ReadsNews(p, c)
    BY <1>3, <1>6 DEF ReadsNews, View
  <1>8. ASSUME room[p] = "online", room[q] = "online", q # p, e.phase = "ready", e.known[q] = 0,
               q \notin unheard[p]
        PROVE  Asked(w, q)
    <2>1. LastWord(down[p], q, session[q]) /\ session[q] # 0
      BY <1>2, <1>8 DEF LinksInv, NewsInv, Truth, ConnInv
    <2>2. ~Silent(down[p], q)
      BY <1>2, <1>8, <2>1 DEF LinksInv, NewsInv, Truth, View
    <2>3. LastWord(w, q, session[q]) /\ ~Silent(w, q)
      BY <1>1, <1>2, <1>3, <2>1, <2>2, ReadOther
    <2>4. /\ \A i \in DOMAIN w : \E j \in DOMAIN down[p] : w[i] = down[p][j]
          /\ w \in Seq(Messages)
      BY <1>1, TailFacts
    <2>5. \A i \in DOMAIN down[p] : down[p][i].type # "JOIN_RESP"
      BY <1>8 DEF LinksInv, JoinInv
    <2> HIDE DEF w
    <2>6. \A i \in DOMAIN w : w[i].type # "JOIN_RESP"
      BY <2>4, <2>5
    <2> QED BY <2>1, <2>3, <2>4, <2>6, LateNews
  <1>9. ReadsAsked(p, c, <<>>) /\ ReadsPhase(p, c)
    BY <1>6, <1>8 DEF ReadsAsked, ReadsPhase
  <1> QED BY <1>1, <1>4, <1>5, <1>6, <1>7, <1>9, TakeStep

-----------------------------------------------------------------------------
(* A client acts by itself *)

\* A link that is missing now was missing before, is asked for or will be.
KeepsAsked(p, c, targets) ==
  \A q \in Peers :
    /\ q # p /\ room[p] = "online" /\ room[q] = "online" /\ q \notin unheard[p]
    /\ \E k \in Classes : c.link[q][k] = 0
    => \/ \E i \in DOMAIN targets : targets[i] = q
       \/ Asked(down[p], q)
       \/ client[p].phase = "ready" /\ \E k \in Classes : client[p].link[q][k] = 0

\* A client that is entering the room or is in it keeps c and asks for the
\* targets; it reads no message.
LEMMA KeepStep ==
  ASSUME LinksInv, NEW p \in Peers, NEW c \in Clients, NEW targets \in Seq(Peers),
         client' = [client EXCEPT ![p] = c], RequestRelay(p, targets),
         UNCHANGED <<room, session, conn, down, missed, starts>>, failures' \in 0 .. MaxFailures,
         client[p].phase \in {"preparing", "ready"}, c.phase \in {"preparing", "ready"},
         \A q \in Peers : LinkInv(c, q),
         \A q \in Peers : View(c, q) = View(client[p], q),
         KeepsAsked(p, c, targets)
  PROVE  LinksInv'
  <1> DEFINE u == up[p]
  <1>0. /\ TypeOK /\ ConnInv(p) /\ JoinInv(p) /\ client[p] \in Clients
        /\ client \in [Peers -> Clients]
    BY DEF LinksInv, TypeOK
  <1>3. /\ up' \in [Peers -> Seq(Requests)]
        /\ \A d \in Peers : d # p => up'[d] = up[d]
        /\ ~conn[p] => up'[p] = u
        /\ \A i \in DOMAIN u : i \in DOMAIN up'[p] /\ up'[p][i] = u[i]
        /\ \A i \in DOMAIN up'[p] : i \in DOMAIN u \/ up'[p][i].type = "RELAY"
        /\ conn[p] => \A i \in DOMAIN targets : \E j \in DOMAIN up'[p] :
                        up'[p][j] = [type |-> "RELAY", peer |-> targets[i]]
    BY <1>0, RelayEffects
  <1>4. client'[p] = c /\ \A d \in Peers : d # p => client'[d] = client[d]
    BY <1>0
  <1>5. TypeOK'
    <2>1. client' \in [Peers -> Clients]
      BY <1>0
    <2> QED BY <1>0, <1>3, <2>1 DEF TypeOK, missed
  <1>6. ASSUME NEW d \in Peers PROVE ConnInv(d)'
    BY <1>3, <1>4 DEF LinksInv, ConnInv
  <1>7. ASSUME NEW d \in Peers PROVE JoinInv(d)'
    <2>1. CASE d # p
      <3>1. JoinInv(d)
        BY DEF LinksInv
      <3> QED BY <1>3, <1>4, <2>1, <3>1, JoinSame
    <2>2. CASE d = p
      <3>1. /\ \A i \in DOMAIN u : u[i].type # "JOIN"
            /\ \A i \in DOMAIN down[p] : down[p][i].type # "JOIN_RESP"
        BY <1>0 DEF JoinInv
      <3>2. \A i \in DOMAIN up'[p] : up'[p][i].type # "JOIN"
        BY <1>3, <3>1
      <3>3. c.phase # "lobby"
        OBVIOUS
      <3> QED BY <1>4, <2>2, <3>1, <3>2, <3>3 DEF JoinInv
    <2> QED BY <2>1, <2>2
  <1>8. ASSUME NEW d \in Peers, NEW q \in Peers PROVE LinkInv(client[d], q)'
    <2>1. LinkInv(client'[d], q)
      BY <1>4 DEF LinksInv
    <2> QED BY <2>1 DEF LinkInv
  <1>9. ASSUME NEW d \in Peers, NEW q \in Peers, d # q PROVE NewsInv(d, q)'
    <2>0. Truth(q)' = Truth(q)
      BY DEF Truth
    <2>1. NewsInv(d, q)
      BY <1>9 DEF LinksInv
    <2>2. CASE d # p
      BY <1>4, <2>0, <2>1, <2>2 DEF NewsInv, missed
    <2>3. CASE d = p
      <3>1. View(c, q) = View(client[p], q)
        OBVIOUS
      <3> QED BY <1>4, <2>0, <2>1, <2>3, <3>1 DEF NewsInv, missed
    <2> QED BY <2>2, <2>3
  <1>10. ASSUME NEW d \in Peers, NEW q \in Peers, d # q PROVE AskedInv(d, q)'
    <2>0. AskedInv(d, q)
      BY <1>10 DEF LinksInv
    <2>1. CASE d # p
      BY <1>3, <1>4, <2>0, <2>1 DEF AskedInv, missed
    <2>2. CASE d = p
      <3> SUFFICES ASSUME c.phase = "ready", room[p] = "online", room[q] = "online",
                          q \notin unheard[p] \cup unanswered[p],
                          \E k \in Classes : c.link[q][k] = 0
                   PROVE  Asked(down[p], q) \/ Wanted(up'[p], q)
        BY <1>4, <2>2 DEF AskedInv, missed
      <3>1. CASE \E i \in DOMAIN targets : targets[i] = q
        <4>1. conn[p]
          BY <1>0 DEF ConnInv
        <4> QED BY <1>3, <3>1, <4>1 DEF Wanted
      <3>2. CASE client[p].phase = "ready" /\ \E k \in Classes : client[p].link[q][k] = 0
        <4>1. Asked(down[p], q) \/ Wanted(u, q)
          BY <2>0, <2>2, <3>2 DEF AskedInv, missed
        <4>2. Wanted(u, q) => Wanted(up'[p], q)
          BY <1>3 DEF Wanted
        <4> QED BY <4>1, <4>2
      <3> QED BY <1>10, <2>2, <3>1, <3>2 DEF KeepsAsked
    <2> QED BY <2>1, <2>2
  <1> QED BY <1>5, <1>6, <1>7, <1>8, <1>9, <1>10 DEF LinksInv

\* The adapter is ready: the announcements kept are applied in one go.
LEMMA CompleteRoomReadinessStep ==
  ASSUME LinksInv, NEW p \in Peers, CompleteRoomReadiness(p)
  PROVE  LinksInv'
  <1> DEFINE e == client[p]
             c == Completed(e)
             rest == {q \in Peers : e.members[q] # 0} \ e.relays
  <1>1. /\ e \in Clients /\ e.phase = "preparing" /\ \A q \in Peers : LinkInv(e, q)
        /\ client' = [client EXCEPT ![p] = c]
        /\ UNCHANGED <<room, session, conn, down, missed, starts>> /\ failures' \in 0 .. MaxFailures
    BY DEF LinksInv, TypeOK, CompleteRoomReadiness
  <1>2. PICK order \in SetToSeqs(rest) : RequestRelay(p, order)
    BY DEF CompleteRoomReadiness, missed
  <1>3. rest \in SUBSET Peers /\ IsFiniteSet(rest)
    BY FinitePeers
  <1> HIDE DEF rest
  <1>4. order \in Seq(rest) /\ \A q \in rest : \E i \in DOMAIN order : order[i] = q
    BY <1>3, OrderFacts
  <1>5. order \in Seq(Peers)
    BY <1>3, <1>4
  <1>6. /\ c \in Clients /\ c.phase = "ready"
        /\ \A q \in Peers : c.known[q] = e.members[q]
        /\ \A q \in Peers : q \in e.relays => \A k \in Classes : c.link[q][k] = e.members[q]
        /\ \A q \in Peers : LinkInv(c, q)
    BY <1>1, CompletedFacts
  <1> HIDE DEF c
  <1>7. \A q \in Peers : View(c, q) = View(e, q)
    BY <1>1, <1>6 DEF View
  <1>8. ASSUME NEW q \in Peers, q # p, room[p] = "online", room[q] = "online",
               q \notin unheard[p], \E k \in Classes : c.link[q][k] = 0
        PROVE  (\E i \in DOMAIN order : order[i] = q) \/ Asked(down[p], q)
    <2>1. CASE q \in rest
      BY <1>4, <2>1
    <2>2. CASE q \notin rest
      <3>1. e.members[q] = 0
        BY <1>6, <1>8, <2>2 DEF rest
      <3>2. LastWord(down[p], q, session[q]) /\ session[q] # 0 /\ down[p] \in Seq(Messages)
        BY <1>8 DEF LinksInv, NewsInv, Truth, ConnInv, TypeOK
      <3>3. ~Silent(down[p], q)
        BY <1>1, <1>8, <3>1, <3>2 DEF LinksInv, NewsInv, Truth, View
      <3>4. \A i \in DOMAIN down[p] : down[p][i].type # "JOIN_RESP"
        BY <1>1 DEF LinksInv, JoinInv
      <3> QED BY <3>2, <3>3, <3>4, LateNews
    <2> QED BY <2>1, <2>2
  <1>9. KeepsAsked(p, c, order)
    BY <1>8 DEF KeepsAsked
  <1>10. e.phase \in {"preparing", "ready"} /\ c.phase \in {"preparing", "ready"}
    BY <1>1, <1>6
  <1> QED BY <1>1, <1>2, <1>5, <1>6, <1>7, <1>9, <1>10, KeepStep

\* Links found dead are recorded and asked for again.
LEMMA OnTransportsDeadStep ==
  ASSUME LinksInv, NEW p \in Peers, NEW dead \in SUBSET (Peers \X Classes),
         OnTransportsDead(p, dead)
  PROVE  LinksInv'
  <1> DEFINE e == client[p]
             L == [q \in Peers |-> [k \in Classes |-> IF <<q, k>> \in dead THEN 0
                                                      ELSE e.link[q][k]]]
             R == e.rebuild \cup dead
             c == [e EXCEPT !.rebuild = R, !.link = L]
  <1>1. /\ e \in Clients /\ \A q \in Peers : LinkInv(e, q)
        /\ \A x \in dead : e.link[x[1]][x[2]] # 0 /\ x \notin e.rebuild
        /\ UNCHANGED <<room, session, conn, down, missed, starts>> /\ dead # {}
        /\ client \in [Peers -> Clients]
    BY DEF LinksInv, TypeOK, OnTransportsDead
  <1>2. failures' \in 0 .. MaxFailures
    BY LinkAssumption DEF LinksInv, TypeOK, OnTransportsDead
  <1>3. e.rebuild \in SUBSET (Peers \X Classes) /\ e.link \in [Peers -> [Classes -> Session]]
    BY <1>1, ClientFacts
  <1>4. client' = [client EXCEPT ![p] = c]
    BY <1>1 DEF OnTransportsDead, Clients
  <1>5. \A q \in Peers, k \in Classes : <<q, k>> \in dead =>
          e.link[q][k] # 0 /\ e.known[q] = e.link[q][k] /\ e.phase = "ready"
    <2> SUFFICES ASSUME NEW q \in Peers, NEW k \in Classes, <<q, k>> \in dead
                 PROVE  e.link[q][k] # 0 /\ e.known[q] = e.link[q][k] /\ e.phase = "ready"
      OBVIOUS
    <2>1. e.link[q][k] # 0
      BY <1>1
    <2> QED BY <1>1, <2>1 DEF LinkInv
  <1>6. e.phase = "ready"
    <2>1. PICK x \in dead : x \in Peers \X Classes
      BY <1>1
    <2>2. x = <<x[1], x[2]>> /\ x[1] \in Peers /\ x[2] \in Classes
      BY <2>1
    <2> QED BY <1>5, <2>1, <2>2
  <1>7. PICK order \in SetToSeqs(dead) : RequestRelay(p, [i \in DOMAIN order |-> order[i][1]])
    BY DEF OnTransportsDead, missed
  <1> DEFINE targets == [i \in DOMAIN order |-> order[i][1]]
  <1>8. order \in Seq(dead) /\ \A x \in dead : \E i \in DOMAIN order : order[i] = x
    BY FinitePeers, OrderFacts
  <1>9. targets \in Seq(Peers)
    BY <1>8
  <1>10. \A q \in Peers, k \in Classes : <<q, k>> \in dead =>
           \E i \in DOMAIN targets : targets[i] = q
    BY <1>8
  <1>11. /\ L \in [Peers -> [Classes -> Session]] /\ R \in SUBSET (Peers \X Classes)
         /\ \A q \in Peers, k \in Classes :
              /\ L[q][k] = IF <<q, k>> \in dead THEN 0 ELSE e.link[q][k]
              /\ <<q, k>> \in R <=> <<q, k>> \in e.rebuild \/ <<q, k>> \in dead
    BY <1>3, ZeroSession
  <1> HIDE DEF L, R, targets
  <1>12. /\ c \in Clients /\ c.phase = e.phase /\ c.known = e.known
         /\ c.link = L /\ c.rebuild = R /\ c.members = e.members
    BY <1>1, <1>11 DEF Clients
  <1> HIDE DEF c
  <1>13. ASSUME NEW q \in Peers PROVE LinkInv(c, q)
    <2>1. LinkInv(e, q)
      BY <1>1
    <2>2. \A k \in Classes : c.link[q][k] \in {0, c.known[q]}
      BY <1>11, <1>12, <2>1 DEF LinkInv
    <2>3. \A k \in Classes : <<q, k>> \in c.rebuild => c.known[q] # 0 /\ c.link[q][k] = 0
      BY <1>5, <1>11, <1>12, <2>1 DEF LinkInv
    <2>4. ASSUME NEW k \in Classes, NEW l \in Classes,
                 c.link[q][k] # 0 \/ <<q, k>> \in c.rebuild, c.link[q][l] = 0
          PROVE  <<q, l>> \in c.rebuild
      <3>1. CASE <<q, l>> \in dead
        BY <1>11, <1>12, <3>1
      <3>2. CASE <<q, l>> \notin dead
        <4>1. e.link[q][l] = 0
          BY <1>11, <1>12, <2>4, <3>2
        <4>2. e.link[q][k] # 0 \/ <<q, k>> \in e.rebuild
          BY <1>5, <1>11, <1>12, <2>4
        <4>3. <<q, l>> \in e.rebuild
          BY <2>1, <4>1, <4>2 DEF LinkInv
        <4> QED BY <1>11, <1>12, <4>3
      <3> QED BY <3>1, <3>2
    <2> QED BY <1>6, <1>12, <2>2, <2>3, <2>4 DEF LinkInv
  <1>14. \A q \in Peers : View(c, q) = View(e, q)
    BY <1>12 DEF View
  <1>15. ASSUME NEW q \in Peers, \E k \in Classes : c.link[q][k] = 0
         PROVE  (\E i \in DOMAIN targets : targets[i] = q) \/ \E k \in Classes : e.link[q][k] = 0
    BY <1>10, <1>11, <1>12, <1>15
  <1>16. RequestRelay(p, targets)
    BY <1>7 DEF targets
  <1>17. KeepsAsked(p, c, targets)
    BY <1>6, <1>15 DEF KeepsAsked
  <1>18. e.phase \in {"preparing", "ready"} /\ c.phase \in {"preparing", "ready"}
    BY <1>6, <1>12
  <1> QED BY <1>1, <1>2, <1>4, <1>9, <1>12, <1>13, <1>14, <1>16, <1>17, <1>18, KeepStep

\* No messages.
LEMMA NoMessages ==
  ASSUME NEW q, NEW v
  PROVE  /\ Orderly(<<>>, q) /\ LastWord(<<>>, q, v) /\ FirstWord(<<>>, q, v) /\ Silent(<<>>, q)
         /\ DOMAIN <<>> = {}
  BY DEF Orderly, LastWord, FirstWord, Silent

\* Only what concerns p changes; its lease remains, or goes offline.
LEMMA OwnStep ==
  ASSUME LinksInv, NEW p \in Peers, TypeOK',
         \A d \in Peers : d # p =>
           /\ client'[d] = client[d] /\ down'[d] = down[d] /\ up'[d] = up[d]
           /\ conn'[d] = conn[d] /\ room'[d] = room[d],
         session' = session, missed' = missed,
         room'[p] = room[p] \/ (room[p] = "online" /\ room'[p] = "offline"),
         ConnInv(p)', JoinInv(p)', \A q \in Peers : LinkInv(client'[p], q),
         \A q \in Peers : q # p => NewsInv(p, q)' /\ AskedInv(p, q)'
  PROVE  LinksInv'
  <1>1. ASSUME NEW d \in Peers PROVE ConnInv(d)'
    BY DEF LinksInv, ConnInv
  <1>2. ASSUME NEW d \in Peers PROVE JoinInv(d)'
    <2>1. JoinInv(d)
      BY DEF LinksInv
    <2>2. CASE d # p
      BY <2>1, <2>2, JoinSame
    <2> QED BY <2>2
  <1>3. ASSUME NEW d \in Peers, NEW q \in Peers PROVE LinkInv(client[d], q)'
    <2>1. LinkInv(client'[d], q)
      BY DEF LinksInv
    <2> QED BY <2>1 DEF LinkInv
  <1>4. ASSUME NEW d \in Peers, NEW q \in Peers, d # q PROVE NewsInv(d, q)' /\ AskedInv(d, q)'
    <2>1. NewsInv(d, q) /\ AskedInv(d, q)
      BY <1>4 DEF LinksInv
    <2>2. CASE d # p
      <3>1. Truth(q)' = Truth(q)
        BY DEF Truth
      <3>2. NewsInv(d, q)'
        BY <2>1, <2>2, <3>1 DEF NewsInv, missed
      <3>3. room'[q] = "online" => room[q] = "online"
        OBVIOUS
      <3>4. AskedInv(d, q)'
        BY <2>1, <2>2, <3>3 DEF AskedInv, missed
      <3> QED BY <3>2, <3>4
    <2>3. CASE d = p
      BY <1>4, <2>3
    <2> QED BY <2>2, <2>3
  <1> QED BY <1>1, <1>2, <1>3, <1>4 DEF LinksInv

\* The client asks to join.
LEMMA JoinRoomStep ==
  ASSUME LinksInv, NEW p \in Peers, JoinRoom(p)
  PROVE  LinksInv'
  <1> DEFINE e == client[p]
             u == up[p]
             c == [e EXCEPT !.phase = "asking"]
             x == [type |-> "JOIN", session |-> starts + 1]
             w == Append(u, x)
  <1>0. /\ TypeOK /\ ConnInv(p) /\ JoinInv(p) /\ e \in Clients /\ u \in Seq(Requests)
        /\ client \in [Peers -> Clients] /\ up \in [Peers -> Seq(Requests)]
        /\ \A q \in Peers : LinkInv(e, q) /\ (q # p => NewsInv(p, q))
    BY DEF LinksInv, TypeOK
  <1>1. /\ e.phase = "lobby" /\ conn[p] /\ UNCHANGED <<room, session, conn, down, missed, failures>>
        /\ client' = [client EXCEPT ![p] = c] /\ up' = [up EXCEPT ![p] = w]
    BY <1>0 DEF JoinRoom, Clients
  <1>2. starts' \in 0 .. MaxStarts /\ starts + 1 \in Session \ {0}
    BY <1>0, LinkAssumption DEF JoinRoom, TypeOK, Session, missed
  <1>3. x \in Requests /\ x.type = "JOIN"
    BY <1>2 DEF Requests
  <1>4. /\ c \in Clients /\ c.phase = "asking" /\ c.known = e.known /\ c.link = e.link
        /\ c.rebuild = e.rebuild
    BY <1>0 DEF Clients
  <1> HIDE DEF x, c
  <1>5. /\ w \in Seq(Requests) /\ DOMAIN u = 1 .. Len(u) /\ Len(u) \in Nat
        /\ DOMAIN w = 1 .. (Len(u) + 1)
        /\ \A i \in 1 .. Len(u) : w[i] = u[i]
        /\ w[Len(u) + 1] = x
    BY <1>0, <1>3, AppendFacts
  <1> HIDE DEF w
  <1>6. /\ client'[p] = c /\ up'[p] = w
        /\ \A d \in Peers : d # p => client'[d] = client[d] /\ up'[d] = up[d]
    BY <1>0, <1>1
  <1>7. TypeOK'
    <2>1. client' \in [Peers -> Clients] /\ up' \in [Peers -> Seq(Requests)]
      BY <1>0, <1>1, <1>4, <1>5
    <2> QED BY <1>0, <1>1, <1>2, <2>1 DEF TypeOK, missed
  <1>8. ConnInv(p)'
    BY <1>0, <1>1, <1>4, <1>6 DEF ConnInv
  <1>9. JoinInv(p)'
    <2>1. /\ \A i \in DOMAIN u : u[i].type # "JOIN"
          /\ \A i \in DOMAIN down[p] : down[p][i].type # "JOIN_RESP"
          /\ room[p] = "online" => \E i \in DOMAIN u : u[i].type = "LEAVE"
      BY <1>0, <1>1 DEF JoinInv
    <2>2. \A i \in DOMAIN w : w[i].type = "JOIN" => i = Len(u) + 1
      BY <1>5, <2>1
    <2>3. room[p] = "online" => \E i \in DOMAIN w : i < Len(u) + 1 /\ w[i].type = "LEAVE"
      BY <1>5, <2>1
    <2> QED BY <1>1, <1>4, <1>6, <2>1, <2>2, <2>3 DEF JoinInv
  <1>10. \A q \in Peers : LinkInv(c, q)
    BY <1>0, <1>1, <1>4 DEF LinkInv
  <1>11. ASSUME NEW q \in Peers, q # p PROVE NewsInv(p, q)' /\ AskedInv(p, q)'
    <2>1. Truth(q)' = Truth(q)
      BY <1>1 DEF Truth
    <2> QED BY <1>0, <1>1, <1>4, <1>6, <1>11, <2>1 DEF NewsInv, AskedInv, missed
  <1> QED BY <1>1, <1>6, <1>7, <1>8, <1>9, <1>10, <1>11, OwnStep

\* The client leaves its room.
LEMMA LeaveRoomStep ==
  ASSUME LinksInv, NEW p \in Peers, LeaveRoom(p)
  PROVE  LinksInv'
  <1> DEFINE e == client[p]
             u == up[p]
             c == Teardown(IF e.phase = "ready" THEN "lobby" ELSE "lost", FALSE)
             x == [type |-> "LEAVE"]
             w == Append(u, x)
             s == IF e.phase = "ready" THEN down[p] ELSE <<>>
  <1>0. /\ TypeOK /\ ConnInv(p) /\ JoinInv(p) /\ u \in Seq(Requests)
        /\ client \in [Peers -> Clients] /\ up \in [Peers -> Seq(Requests)]
        /\ down \in [Peers -> Seq(Messages)] /\ down[p] \in Seq(Messages)
        /\ \A q \in Peers : q # p => NewsInv(p, q)
    BY DEF LinksInv, TypeOK
  <1>1. /\ e.phase \in {"asking", "preparing", "ready"}
        /\ UNCHANGED <<room, session, conn, missed, starts, failures>>
        /\ client' = [client EXCEPT ![p] = c] /\ down' = [down EXCEPT ![p] = s]
        /\ up' = IF conn[p] THEN [up EXCEPT ![p] = w] ELSE up
    BY <1>0 DEF LeaveRoom
  <1>2. /\ c \in Clients /\ c.phase = IF e.phase = "ready" THEN "lobby" ELSE "lost"
        /\ \A q \in Peers : LinkInv(c, q)
    <2>1. PICK ph \in {"lobby", "lost"} : ph = IF e.phase = "ready" THEN "lobby" ELSE "lost"
      OBVIOUS
    <2>2. c = Teardown(ph, FALSE)
      BY <2>1
    <2> HIDE DEF c
    <2>3. /\ c \in Clients /\ c.phase = ph /\ c.rebuild = {}
          /\ \A q \in Peers : c.known[q] = 0 /\ \A k \in Classes : c.link[q][k] = 0
      <3>1. ph \in {"lobby", "asking", "preparing", "ready", "lost"} /\ FALSE \in BOOLEAN
        OBVIOUS
      <3> QED BY <2>2, <3>1, TeardownType
    <2> QED BY <2>1, <2>3 DEF LinkInv
  <1>3. x \in Requests /\ x.type = "LEAVE"
    BY DEF Requests
  <1> HIDE DEF x, c
  <1>4. /\ w \in Seq(Requests) /\ DOMAIN u = 1 .. Len(u) /\ Len(u) \in Nat
        /\ DOMAIN w = 1 .. (Len(u) + 1)
        /\ \A i \in 1 .. Len(u) : w[i] = u[i]
        /\ w[Len(u) + 1] = x
    BY <1>0, <1>3, AppendFacts
  <1>5. s \in Seq(Messages)
    BY <1>0
  <1> HIDE DEF w, s
  <1>6. /\ client'[p] = c /\ down'[p] = s /\ up'[p] = IF conn[p] THEN w ELSE u
        /\ \A d \in Peers : d # p =>
             client'[d] = client[d] /\ up'[d] = up[d] /\ down'[d] = down[d]
    BY <1>0, <1>1
  <1>7. TypeOK'
    <2>1. client' \in [Peers -> Clients] /\ up' \in [Peers -> Seq(Requests)]
            /\ down' \in [Peers -> Seq(Messages)]
      BY <1>0, <1>1, <1>2, <1>4, <1>5
    <2> QED BY <1>0, <1>1, <2>1 DEF TypeOK, missed
  <1>8. ConnInv(p)'
    BY <1>0, <1>1, <1>2, <1>6 DEF ConnInv, s
  <1>9. JoinInv(p)'
    <2>1. \A i \in DOMAIN s : s[i].type # "JOIN_RESP"
      BY <1>0, NoMessages DEF JoinInv, s
    <2>2. /\ \A i \in DOMAIN u : i \in DOMAIN up'[p] /\ up'[p][i] = u[i]
          /\ \A i \in DOMAIN up'[p] : i \in DOMAIN u \/ up'[p][i].type = "LEAVE"
      BY <1>3, <1>4, <1>6
    <2>3. ASSUME NEW i \in DOMAIN up'[p], up'[p][i].type = "JOIN"
          PROVE  /\ c.phase \in {"asking", "lost"}
                 /\ \A j \in DOMAIN up'[p] : up'[p][j].type = "JOIN" => j = i
                 /\ room[p] = "online" =>
                      \E j \in DOMAIN up'[p] : j < i /\ up'[p][j].type = "LEAVE"
      <3>1. i \in DOMAIN u /\ u[i].type = "JOIN"
        BY <2>2, <2>3
      <3>2. /\ e.phase \in {"asking", "lost"}
            /\ \A j \in DOMAIN u : u[j].type = "JOIN" => j = i
            /\ room[p] = "online" => \E j \in DOMAIN u : j < i /\ u[j].type = "LEAVE"
        BY <1>0, <3>1 DEF JoinInv
      <3> QED BY <1>2, <2>2, <3>2
    <2>4. room[p] = "online" => \E i \in DOMAIN up'[p] : up'[p][i].type = "LEAVE"
      <3>1. Len(u) + 1 \in DOMAIN w /\ w[Len(u) + 1].type = "LEAVE"
        BY <1>3, <1>4
      <3> QED BY <1>0, <1>6, <3>1 DEF ConnInv
    <2> QED BY <1>1, <1>6, <2>1, <2>3, <2>4 DEF JoinInv
  <1>10. ASSUME NEW q \in Peers, q # p PROVE NewsInv(p, q)' /\ AskedInv(p, q)'
    <2>1. Truth(q)' = Truth(q)
      BY <1>1 DEF Truth
    <2>2. c.phase \notin {"preparing", "ready"}
      BY <1>2
    <2>3. NewsInv(p, q)
      BY <1>0, <1>10
    <2>4. room[p] = "online" /\ q \notin unheard[p] =>
            Orderly(s, q) /\ LastWord(s, q, Truth(q))
      BY <2>3, NoMessages DEF NewsInv, s, missed
    <2>5. NewsInv(p, q)'
      BY <1>1, <1>6, <2>1, <2>2, <2>4 DEF NewsInv, missed
    <2>6. AskedInv(p, q)'
      BY <1>6, <2>2 DEF AskedInv, missed
    <2> QED BY <2>5, <2>6
  <1> QED BY <1>1, <1>2, <1>6, <1>7, <1>8, <1>9, <1>10, OwnStep

\* The client loses its connection.
LEMMA OnSignalDisconnectedStep ==
  ASSUME LinksInv, NEW p \in Peers, OnSignalDisconnected(p)
  PROVE  LinksInv'
  <1> DEFINE c == Teardown("lost", client[p].lease)
  <1>0. /\ TypeOK /\ ConnInv(p) /\ JoinInv(p) /\ client[p] \in Clients
        /\ client \in [Peers -> Clients] /\ down \in [Peers -> Seq(Messages)]
    BY DEF LinksInv, TypeOK
  <1>1. /\ UNCHANGED <<room, session, conn, up, missed, starts, failures>> /\ client[p].phase # "lost"
        /\ client' = [client EXCEPT ![p] = c] /\ down' = [down EXCEPT ![p] = <<>>]
    BY DEF OnSignalDisconnected
  <1>2. /\ c \in Clients /\ c.phase = "lost" /\ c.rebuild = {}
        /\ \A q \in Peers : c.known[q] = 0 /\ \A k \in Classes : c.link[q][k] = 0
    <2>1. client[p].lease \in BOOLEAN
      BY <1>0, ClientFacts
    <2> QED BY <2>1, TeardownType
  <1> HIDE DEF c
  <1>3. \A q \in Peers : LinkInv(c, q)
    BY <1>2 DEF LinkInv
  <1>4. /\ client'[p] = c /\ down'[p] = <<>>
        /\ \A d \in Peers : d # p => client'[d] = client[d] /\ down'[d] = down[d]
    BY <1>0, <1>1
  <1>5. TypeOK'
    <2>1. client' \in [Peers -> Clients] /\ down' \in [Peers -> Seq(Messages)]
      BY <1>0, <1>1, <1>2
    <2> QED BY <1>0, <1>1, <2>1 DEF TypeOK, missed
  <1>6. ConnInv(p)'
    BY <1>0, <1>1, <1>4 DEF ConnInv
  <1>7. JoinInv(p)'
    <2>1. DOMAIN down'[p] = {}
      BY <1>4
    <2> QED BY <1>0, <1>1, <1>2, <1>4, <2>1 DEF JoinInv
  <1>8. ASSUME NEW q \in Peers, q # p PROVE NewsInv(p, q)' /\ AskedInv(p, q)'
    <2>1. NewsInv(p, q)'
      BY <1>2, <1>4, NoMessages DEF NewsInv, missed
    <2> QED BY <1>2, <1>4, <2>1 DEF AskedInv, missed
  <1> QED BY <1>1, <1>3, <1>4, <1>5, <1>6, <1>7, <1>8, OwnStep

\* The server loses the connection and keeps the lease.
LEMMA RemoveClientStep ==
  ASSUME LinksInv, NEW p \in Peers, RemoveClient(p)
  PROVE  LinksInv'
  <1>0. /\ TypeOK /\ ConnInv(p) /\ JoinInv(p)
        /\ room \in [Peers -> {"out", "offline", "online"}] /\ conn \in [Peers -> BOOLEAN]
        /\ up \in [Peers -> Seq(Requests)]
        /\ \A q \in Peers : LinkInv(client[p], q) /\ (q # p => NewsInv(p, q))
    BY DEF LinksInv, TypeOK
  <1>1. /\ room' = [room EXCEPT ![p] = "offline"] /\ up' = [up EXCEPT ![p] = <<>>]
        /\ room[p] = "online" /\ UNCHANGED <<session, client, down, missed, starts, failures>>
    BY DEF RemoveClient
  <1>2. /\ conn' \in [Peers -> BOOLEAN] /\ ~conn'[p]
        /\ \A d \in Peers : d # p => conn'[d] = conn[d]
    BY <1>0, Zenon DEF RemoveClient
  <1>3. /\ room'[p] = "offline" /\ up'[p] = <<>>
        /\ \A d \in Peers : d # p => room'[d] = room[d] /\ up'[d] = up[d]
        /\ room' \in [Peers -> {"out", "offline", "online"}] /\ up' \in [Peers -> Seq(Requests)]
    BY <1>0, <1>1
  <1>4. TypeOK'
    BY <1>0, <1>1, <1>2, <1>3 DEF TypeOK, missed
  <1>5. ConnInv(p)'
    BY <1>0, <1>1, <1>2, <1>3 DEF ConnInv
  <1>6. JoinInv(p)'
    <2>1. DOMAIN up'[p] = {}
      BY <1>3
    <2> QED BY <1>0, <1>1, <1>3, <2>1 DEF JoinInv
  <1>7. ASSUME NEW q \in Peers, q # p PROVE NewsInv(p, q)' /\ AskedInv(p, q)'
    <2>1. NewsInv(p, q)
      BY <1>0, <1>7
    <2>2. NewsInv(p, q)'
      BY <1>1, <1>3, <2>1 DEF NewsInv, missed
    <2> QED BY <1>3, <2>2 DEF AskedInv, missed
  <1> QED BY <1>0, <1>1, <1>2, <1>3, <1>4, <1>5, <1>6, <1>7, OwnStep

-----------------------------------------------------------------------------
(* The server sends messages *)

\* The messages t to d are right about q: they do not tell of it and need not,
\* or the first tells what it is now, and is PEER_JOINED only if it was gone and
\* d has heard of that; or else it is recorded that they are not.
SendsRight(t, d, q) ==
  q \notin unheard'[d] =>
    \/ /\ Silent(t, q)
       /\ room'[d] = "online" =>
            room[d] = "online" /\ Truth(q)' = Truth(q) /\ q \notin unheard[d]
    \/ /\ 1 \in DOMAIN t /\ Tells(t[1], q) /\ \A i \in DOMAIN t : i > 1 => ~Tells(t[i], q)
       /\ Says(t[1], q) = Truth(q)'
       /\ t[1].type = "PEER_JOINED" =>
            room[d] = "online" /\ Truth(q) = 0 /\ q \notin unheard[d]

\* It is recorded at d that something of q was refused.
Missed(d, q) == q \in unheard[d] \cup unanswered[d]

\* sendClientMsg: what arrives.
LEMMA DeliverEffects ==
  ASSUME TypeOK, NEW to \in [Peers -> Seq(Messages)]
  PROVE  /\ Deliver(to) \in [Peers -> Seq(Messages)]
         /\ \A d \in Peers : Deliver(to)[d] = IF client[d].phase = "lost" THEN <<>>
                                              ELSE down[d] \o to[d]
  <1>1. \A d \in Peers : down[d] \o to[d] \in Seq(Messages) /\ <<>> \in Seq(Messages)
    BY ConcatFacts DEF TypeOK
  <1> QED BY <1>1 DEF Deliver

\* What the server sends in one handler keeps the news about a member true.
LEMMA DeliverNews ==
  ASSUME LinksInv, NEW d \in Peers, NEW q \in Peers, d # q, NEW t \in Seq(Messages),
         client'[d] = client[d],
         down'[d] = IF client[d].phase = "lost" THEN <<>> ELSE down[d] \o t,
         SendsRight(t, d, q)
  PROVE  NewsInv(d, q)'
  <1> DEFINE s == down[d]
             v == View(client[d], q)
  <1> SUFFICES ASSUME room'[d] = "online", q \notin unheard'[d]
               PROVE  /\ Orderly(down'[d], q) /\ LastWord(down'[d], q, Truth(q)')
                      /\ client[d].phase \in {"preparing", "ready"} =>
                           /\ FirstWord(down'[d], q, v)
                           /\ Silent(down'[d], q) => v = Truth(q)'
    BY DEF NewsInv
  <1>0. s \in Seq(Messages) /\ NewsInv(d, q)
    BY DEF LinksInv, TypeOK
  <1>1. CASE client[d].phase = "lost"
    <2>1. down'[d] = <<>>
      BY <1>1
    <2> QED BY <1>1, <2>1, NoMessages
  <1>2. CASE client[d].phase # "lost"
    <2> DEFINE w == s \o t
    <2>1. down'[d] = w
      BY <1>2
    <2>2. CASE /\ Silent(t, q)
               /\ room[d] = "online" /\ Truth(q)' = Truth(q) /\ q \notin unheard[d]
      <3>1. /\ Orderly(s, q) => Orderly(w, q)
            /\ LastWord(s, q, Truth(q)) => LastWord(w, q, Truth(q))
            /\ FirstWord(s, q, v) => FirstWord(w, q, v)
            /\ Silent(w, q) => Silent(s, q)
        BY <1>0, <2>2, SendOther
      <3> HIDE DEF w
      <3> QED BY <1>0, <2>1, <2>2, <3>1 DEF NewsInv
    <2>3. CASE /\ 1 \in DOMAIN t /\ Tells(t[1], q) /\ \A i \in DOMAIN t : i > 1 => ~Tells(t[i], q)
               /\ Says(t[1], q) = Truth(q)'
               /\ t[1].type = "PEER_JOINED" =>
                    room[d] = "online" /\ Truth(q) = 0 /\ q \notin unheard[d]
      <3>1. /\ t[1].type = "PEER_JOINED" => LastWord(s, q, 0)
            /\ client[d].phase \in {"preparing", "ready"} =>
                 (t[1].type = "PEER_JOINED" /\ Silent(s, q) => v = 0)
        BY <1>0, <2>3 DEF NewsInv
      <3>2. /\ Orderly(w, q)
            /\ LastWord(w, q, Says(t[1], q))
            /\ (t[1].type = "PEER_JOINED" /\ Silent(s, q) => v = 0) => FirstWord(w, q, v)
            /\ ~Silent(w, q)
        BY <1>0, <2>3, <3>1, SendFirst
      <3> HIDE DEF w
      <3> QED BY <2>1, <2>3, <3>1, <3>2
    <2> QED BY <2>2, <2>3 DEF SendsRight
  <1> QED BY <1>1, <1>2

\* What was asked for still is, and what has been sent is too.
LEMMA AskedConcat ==
  ASSUME NEW s \in Seq(Messages), NEW t \in Seq(Messages), NEW q, Asked(s, q) \/ Asked(t, q)
  PROVE  Asked(s \o t, q)
  <1> DEFINE w == s \o t
  <1>1. /\ Len(s) \in Nat /\ Len(t) \in Nat
        /\ DOMAIN s = 1 .. Len(s) /\ DOMAIN t = 1 .. Len(t)
        /\ DOMAIN w = 1 .. (Len(s) + Len(t))
        /\ \A i \in 1 .. Len(s) : w[i] = s[i]
        /\ \A i \in 1 .. Len(t) : w[Len(s) + i] = t[i]
    BY ConcatFacts
  <1> HIDE DEF w
  <1>2. CASE Asked(s, q)
    <2>1. \A i \in DOMAIN s : i \in DOMAIN w /\ w[i] = s[i]
      BY <1>1
    <2> QED BY <1>2, <2>1 DEF Asked, w
  <1>3. CASE Asked(t, q)
    <2>1. \A i \in DOMAIN t : Len(s) + i \in DOMAIN w /\ w[Len(s) + i] = t[i]
      BY <1>1
    <2> QED BY <1>3, <2>1 DEF Asked, w
  <1> QED BY <1>2, <1>3

\* It keeps every missing link asked for.
LEMMA DeliverAsked ==
  ASSUME LinksInv, NEW d \in Peers, NEW q \in Peers, d # q, NEW t \in Seq(Messages),
         client'[d] = client[d],
         down'[d] = IF client[d].phase = "lost" THEN <<>> ELSE down[d] \o t,
         client[d].phase = "ready" /\ room'[d] = "online" /\ room'[q] = "online"
             /\ ~Missed(d, q)' =>
           \/ Asked(t, q)
           \/ /\ room[d] = "online" /\ room[q] = "online" /\ ~Missed(d, q)
              /\ Wanted(up[d], q) => Wanted(up'[d], q)
  PROVE  AskedInv(d, q)'
  <1>0. down[d] \in Seq(Messages) /\ AskedInv(d, q)
    BY DEF LinksInv, TypeOK
  <1> SUFFICES ASSUME client[d].phase = "ready", room'[d] = "online", room'[q] = "online",
                      ~Missed(d, q)', \E k \in Classes : client[d].link[q][k] = 0
               PROVE  Asked(down'[d], q) \/ Wanted(up'[d], q)
    BY DEF AskedInv, Missed
  <1>1. down'[d] = down[d] \o t
    OBVIOUS
  <1>2. Asked(t, q) \/ Asked(down[d], q) \/ Wanted(up'[d], q)
    BY <1>0 DEF AskedInv, Missed
  <1>3. Asked(t, q) \/ Asked(down[d], q) => Asked(down[d] \o t, q)
    BY <1>0, AskedConcat
  <1> QED BY <1>1, <1>2, <1>3

\* No second answer to a request to join is sent.
LEMMA NoAnswer ==
  ASSUME LinksInv, NEW d \in Peers, NEW t \in Seq(Messages),
         down'[d] = IF client[d].phase = "lost" THEN <<>> ELSE down[d] \o t,
         \A i \in DOMAIN t : t[i].type # "JOIN_RESP"
  PROVE  \A i \in DOMAIN down'[d] : down'[d][i].type = "JOIN_RESP" =>
           i \in DOMAIN down[d] /\ down[d][i].type = "JOIN_RESP"
  <1> DEFINE s == down[d]
             w == s \o t
  <1>0. s \in Seq(Messages)
    BY DEF LinksInv, TypeOK
  <1>1. CASE client[d].phase = "lost"
    <2>1. DOMAIN down'[d] = {}
      BY <1>1, NoMessages
    <2> QED BY <2>1
  <1>2. CASE client[d].phase # "lost"
    <2>1. /\ Len(s) \in Nat /\ Len(t) \in Nat
          /\ DOMAIN s = 1 .. Len(s) /\ DOMAIN t = 1 .. Len(t)
          /\ DOMAIN w = 1 .. (Len(s) + Len(t))
          /\ \A i \in 1 .. Len(s) : w[i] = s[i]
          /\ \A i \in (Len(s) + 1) .. (Len(s) + Len(t)) :
               w[i] = t[i - Len(s)] /\ i - Len(s) \in 1 .. Len(t)
      BY <1>0, ConcatFacts
    <2>2. down'[d] = w
      BY <1>2
    <2> HIDE DEF w
    <2>3. ASSUME NEW i \in DOMAIN w, w[i].type = "JOIN_RESP"
          PROVE  i \in DOMAIN s /\ s[i].type = "JOIN_RESP"
      <3>1. CASE i \in 1 .. Len(s)
        BY <2>1, <2>3, <3>1
      <3>2. CASE i \notin 1 .. Len(s)
        <4>1. i \in (Len(s) + 1) .. (Len(s) + Len(t))
          BY <2>1, <3>2
        <4> QED BY <2>1, <2>3, <4>1
      <3> QED BY <3>1, <3>2
    <2> QED BY <2>2, <2>3
  <1> QED BY <1>1, <1>2

\* It is no answer to a join, so at most one join stays under way.
LEMMA DeliverJoin ==
  ASSUME LinksInv, NEW d \in Peers, NEW t \in Seq(Messages),
         client'[d] = client[d], room'[d] = "online" => room[d] = "online", up'[d] = up[d],
         down'[d] = IF client[d].phase = "lost" THEN <<>> ELSE down[d] \o t,
         \A i \in DOMAIN t : t[i].type # "JOIN_RESP"
  PROVE  JoinInv(d)'
  <1>1. \A i \in DOMAIN down'[d] : down'[d][i].type = "JOIN_RESP" =>
          i \in DOMAIN down[d] /\ down[d][i].type = "JOIN_RESP"
    BY NoAnswer
  <1>2. JoinInv(d)
    BY DEF LinksInv
  <1> QED BY <1>1, <1>2 DEF JoinInv

\* A request of p that is not one to join is taken off.
LEMMA PopJoin ==
  ASSUME LinksInv, NEW p \in Peers, up[p] # <<>>, up'[p] = Tail(up[p]),
         client'[p] = client[p],
         room'[p] = "online" => room[p] = "online" /\ Head(up[p]).type # "LEAVE",
         \A i \in DOMAIN down'[p] : down'[p][i].type = "JOIN_RESP" =>
           i \in DOMAIN down[p] /\ down[p][i].type = "JOIN_RESP"
  PROVE  JoinInv(p)'
  <1> DEFINE u == up[p]
             w == Tail(u)
  <1>0. u \in Seq(Requests) /\ JoinInv(p)
    BY DEF LinksInv, TypeOK
  <1>1. /\ Head(u) = u[1] /\ DOMAIN u = 1 .. Len(u) /\ Len(u) \in Nat \ {0}
        /\ DOMAIN w = 1 .. (Len(u) - 1)
        /\ \A i \in 1 .. (Len(u) - 1) : w[i] = u[i + 1] /\ i + 1 \in DOMAIN u
    BY <1>0, TailFacts
  <1>2. up'[p] = w
    OBVIOUS
  <1> HIDE DEF w
  <1>3. ASSUME NEW j \in DOMAIN u, u[j].type = "LEAVE", room'[p] = "online"
        PROVE  j - 1 \in DOMAIN w /\ w[j - 1] = u[j] /\ j \in Nat
    <2>1. j # 1 /\ j \in 1 .. Len(u)
      BY <1>1, <1>3
    <2> QED BY <1>1, <2>1
  <1>4. ASSUME NEW i \in DOMAIN w, w[i].type = "JOIN"
        PROVE  /\ client[p].phase \in {"asking", "lost"}
               /\ \A j \in DOMAIN w : w[j].type = "JOIN" => j = i
               /\ \A j \in DOMAIN down'[p] : down'[p][j].type # "JOIN_RESP"
               /\ room'[p] = "online" => \E j \in DOMAIN w : j < i /\ w[j].type = "LEAVE"
    <2>1. i + 1 \in DOMAIN u /\ u[i + 1].type = "JOIN" /\ i \in Nat
      BY <1>1, <1>4
    <2>2. /\ client[p].phase \in {"asking", "lost"}
          /\ \A j \in DOMAIN u : u[j].type = "JOIN" => j = i + 1
          /\ \A j \in DOMAIN down[p] : down[p][j].type # "JOIN_RESP"
          /\ room[p] = "online" => \E j \in DOMAIN u : j < i + 1 /\ u[j].type = "LEAVE"
      BY <1>0, <2>1 DEF JoinInv
    <2>3. ASSUME NEW j \in DOMAIN w, w[j].type = "JOIN" PROVE j = i
      <3>1. j + 1 \in DOMAIN u /\ u[j + 1].type = "JOIN" /\ j \in Nat
        BY <1>1, <2>3
      <3>2. j + 1 = i + 1
        BY <2>2, <3>1
      <3> QED BY <2>1, <3>1, <3>2
    <2>4. ASSUME room'[p] = "online" PROVE \E j \in DOMAIN w : j < i /\ w[j].type = "LEAVE"
      <3>1. PICK j \in DOMAIN u : j < i + 1 /\ u[j].type = "LEAVE"
        BY <2>2, <2>4
      <3>2. j - 1 \in DOMAIN w /\ w[j - 1] = u[j] /\ j \in Nat
        BY <1>3, <2>4, <3>1
      <3>3. j - 1 < i
        BY <2>1, <3>1, <3>2
      <3> QED BY <3>1, <3>2, <3>3
    <2> QED BY <2>2, <2>3, <2>4
  <1>5. ASSUME client[p].phase = "lobby", room'[p] = "online"
        PROVE  \E i \in DOMAIN w : w[i].type = "LEAVE"
    <2>1. PICK j \in DOMAIN u : u[j].type = "LEAVE"
      BY <1>0, <1>5 DEF JoinInv
    <2> QED BY <1>3, <1>5, <2>1
  <1>6. \A i \in DOMAIN down'[p] : down'[p][i].type = "JOIN_RESP" =>
          /\ client[p].phase = "asking"
          /\ \A j \in DOMAIN down'[p] : down'[p][j].type = "JOIN_RESP" => j = i
    BY <1>0 DEF JoinInv
  <1> QED BY <1>2, <1>4, <1>5, <1>6 DEF JoinInv

\* What is recorded at d of the refusals about q stays; the messages t to d make
\* it ask for the link to p, if need be.
SameMissed(d, q) ==
  /\ q \in unheard'[d] <=> q \in unheard[d]
  /\ q \in unanswered'[d] <=> q \in unanswered[d]

AsksRight(t, d, p) ==
  room[d] = "online" /\ room'[p] = "online" /\ ~Missed(d, p)' =>
    Asked(t, p) \/ (room[p] = "online" /\ ~Missed(d, p))

\* The server acts on p, and sends to[d] to each other peer d: nothing of a third
\* one, and what became of p.
LEMMA ServeStep ==
  ASSUME LinksInv, NEW p \in Peers, TypeOK', NEW to \in [Peers -> Seq(Messages)],
         \A d \in Peers : d # p =>
           /\ client'[d] = client[d] /\ up'[d] = up[d] /\ conn'[d] = conn[d]
           /\ room'[d] = room[d] /\ session'[d] = session[d]
           /\ down'[d] = IF client[d].phase = "lost" THEN <<>> ELSE down[d] \o to[d]
           /\ \A i \in DOMAIN to[d] : to[d][i].type # "JOIN_RESP"
           /\ \A q \in Peers : q # p => Silent(to[d], q) /\ SameMissed(d, q)
           /\ SendsRight(to[d], d, p) /\ AsksRight(to[d], d, p),
         ConnInv(p)', JoinInv(p)', \A q \in Peers : LinkInv(client'[p], q),
         \A q \in Peers : q # p => NewsInv(p, q)' /\ AskedInv(p, q)'
  PROVE  LinksInv'
  <1>1. ASSUME NEW d \in Peers PROVE ConnInv(d)'
    BY DEF LinksInv, ConnInv
  <1>2. ASSUME NEW d \in Peers PROVE JoinInv(d)'
    <2>1. CASE d # p
      BY <2>1, DeliverJoin
    <2> QED BY <2>1
  <1>3. ASSUME NEW d \in Peers, NEW q \in Peers PROVE LinkInv(client[d], q)'
    <2>1. LinkInv(client'[d], q)
      BY DEF LinksInv
    <2> QED BY <2>1 DEF LinkInv
  <1>4. ASSUME NEW d \in Peers, NEW q \in Peers, d # q PROVE NewsInv(d, q)' /\ AskedInv(d, q)'
    <2>1. CASE d = p
      BY <1>4, <2>1
    <2>2. CASE d # p
      <3>0. to[d] \in Seq(Messages)
        OBVIOUS
      <3>1. SendsRight(to[d], d, q)
        <4>1. CASE q # p
          <5>1. Truth(q)' = Truth(q)
            BY <4>1 DEF Truth
          <5> QED BY <2>2, <4>1, <5>1 DEF SendsRight, SameMissed
        <4> QED BY <2>2, <4>1
      <3>2. NewsInv(d, q)'
        BY <1>4, <2>2, <3>0, <3>1, DeliverNews
      <3>3. room'[d] = "online" /\ room'[q] = "online" /\ ~Missed(d, q)' =>
              \/ Asked(to[d], q)
              \/ /\ room[d] = "online" /\ room[q] = "online" /\ ~Missed(d, q)
                 /\ Wanted(up[d], q) => Wanted(up'[d], q)
        <4>1. CASE q # p
          BY <2>2, <4>1 DEF SameMissed, Missed
        <4>2. CASE q = p
          BY <2>2, <4>2 DEF AsksRight
        <4> QED BY <4>1, <4>2
      <3>4. AskedInv(d, q)'
        BY <1>4, <2>2, <3>0, <3>3, DeliverAsked
      <3> QED BY <3>2, <3>4
    <2> QED BY <2>1, <2>2
  <1> QED BY <1>1, <1>2, <1>3, <1>4 DEF LinksInv

\* A refusal is counted.
LEMMA RefusesType ==
  ASSUME TypeOK, NEW some, Refuses(some)
  PROVE  failures' \in 0 .. MaxFailures
  BY LinkAssumption DEF Refuses, TypeOK

\* What is recorded when the others, or some of them, are told of p.
LEMMA AnnounceFacts ==
  ASSUME TypeOK, NEW p \in Peers, NEW type, NEW told \in SUBSET (Online \ {p}),
         Announce(p, type, told)
  PROVE  /\ unheard' \in [Peers -> SUBSET Peers] /\ unanswered' \in [Peers -> SUBSET Peers]
         /\ \A d, q \in Peers : d # p /\ q # p => SameMissed(d, q)
         /\ \A d \in Peers : d # p /\ room[d] = "online" /\ d \notin told => p \in unheard'[d]
         /\ \A d \in told : type = "PEER_JOINED" /\ p \in unheard[d] => p \in unheard'[d]
  <1>1. unheard \in [Peers -> SUBSET Peers] /\ unanswered \in [Peers -> SUBSET Peers]
    BY DEF TypeOK
  <1>2. told \subseteq Peers /\ p \notin told /\ \A d \in Peers : d \in Online <=> room[d] = "online"
    BY DEF Online
  <1>3. ASSUME NEW d \in Peers
        PROVE  /\ unheard'[d] = CASE d = p -> {}
                                  [] d \in Online \ ({p} \cup told) -> unheard[d] \cup {p}
                                  [] d \in told \ {p} /\ type # "PEER_JOINED" -> unheard[d] \ {p}
                                  [] OTHER -> unheard[d]
               /\ unanswered'[d] = CASE d = p -> {}
                                     [] d \in told \ {p} -> unanswered[d] \ {p}
                                     [] OTHER -> unanswered[d]
    BY DEF Announce
  <1>4. ASSUME NEW d \in Peers, d # p
        PROVE  /\ unheard'[d] = IF room[d] = "online" /\ d \notin told THEN unheard[d] \cup {p}
                                ELSE IF d \in told /\ type # "PEER_JOINED" THEN unheard[d] \ {p}
                                ELSE unheard[d]
               /\ unanswered'[d] = IF d \in told THEN unanswered[d] \ {p} ELSE unanswered[d]
    BY <1>2, <1>3, <1>4
  <1>5. unheard'[p] = {} /\ unanswered'[p] = {}
    BY <1>3
  <1>6. \A d \in Peers : unheard'[d] \in SUBSET Peers /\ unanswered'[d] \in SUBSET Peers
    BY <1>1, <1>4, <1>5
  <1>7. /\ unheard' = [d \in Peers |-> unheard'[d]]
        /\ unanswered' = [d \in Peers |-> unanswered'[d]]
    BY DEF Announce
  <1>8. unheard' \in [Peers -> SUBSET Peers] /\ unanswered' \in [Peers -> SUBSET Peers]
    BY <1>6, <1>7
  <1>9. \A d, q \in Peers : d # p /\ q # p => SameMissed(d, q)
    BY <1>4 DEF SameMissed
  <1> QED BY <1>2, <1>4, <1>8, <1>9

\* A request for a link that is still on its way.
LEMMA WantedTail ==
  ASSUME NEW u \in Seq(Requests), u # <<>>, NEW q, Wanted(u, q)
  PROVE  Wanted(Tail(u), q) \/ (Head(u).type = "RELAY" /\ Head(u).peer = q)
  <1> DEFINE w == Tail(u)
  <1>1. /\ Head(u) = u[1] /\ DOMAIN u = 1 .. Len(u) /\ Len(u) \in Nat \ {0}
        /\ DOMAIN w = 1 .. (Len(u) - 1)
        /\ \A i \in 1 .. (Len(u) - 1) : w[i] = u[i + 1] /\ i + 1 \in DOMAIN u
    BY TailFacts
  <1> HIDE DEF w
  <1>2. PICK i \in DOMAIN u : u[i] = [type |-> "RELAY", peer |-> q]
    BY DEF Wanted
  <1>3. CASE i = 1
    BY <1>1, <1>2, <1>3
  <1>4. CASE i # 1
    <2>1. i - 1 \in DOMAIN w /\ w[i - 1] = u[i]
      BY <1>1, <1>4
    <2> QED BY <1>2, <2>1 DEF Wanted, w
  <1> QED BY <1>3, <1>4

\* The request that comes next.
LEMMA RequestNext ==
  ASSUME LinksInv, NEW p \in Peers, NEW type, Request(p, type),
         up' = [up EXCEPT ![p] = Tail(@)]
  PROVE  /\ up[p] # <<>> /\ up[p] \in Seq(Requests) /\ conn[p]
         /\ Head(up[p]) \in Requests /\ Head(up[p]).type = type
         /\ 1 \in DOMAIN up[p] /\ up[p][1] = Head(up[p])
         /\ up' \in [Peers -> Seq(Requests)] /\ up'[p] = Tail(up[p])
         /\ \A d \in Peers : d # p => up'[d] = up[d]
  <1>1. up \in [Peers -> Seq(Requests)] /\ up[p] \in Seq(Requests) /\ up[p] # <<>>
    BY DEF LinksInv, TypeOK, Request
  <1>2. Tail(up[p]) \in Seq(Requests)
    BY <1>1, TailFacts
  <1>3. conn[p]
    BY <1>1 DEF LinksInv, ConnInv
  <1> QED BY <1>1, <1>2, <1>3, TailFacts DEF Request

\* REQUEST_RELAY: both members are told to build their links.
LEMMA OnRequestRelayStep ==
  ASSUME LinksInv, NEW p \in Peers, OnRequestRelay(p)
  PROVE  LinksInv'
  <1> DEFINE r == Head(up[p]).peer
  <1>0. /\ TypeOK /\ ConnInv(p) /\ \A q \in Peers : LinkInv(client[p], q)
        /\ \A q \in Peers : q # p => NewsInv(p, q) /\ AskedInv(p, q)
    BY DEF LinksInv
  <1>1. /\ UNCHANGED <<room, session, conn, client, unheard, starts>>
        /\ up' = [up EXCEPT ![p] = Tail(@)]
    BY DEF OnRequestRelay
  <1>a. unheard \in [Peers -> SUBSET Peers] /\ unanswered \in [Peers -> SUBSET Peers]
    BY <1>0 DEF TypeOK
  <1>2. /\ up[p] # <<>> /\ up[p] \in Seq(Requests) /\ conn[p]
        /\ Head(up[p]) \in Requests /\ Head(up[p]).type = "RELAY"
        /\ up' \in [Peers -> Seq(Requests)] /\ up'[p] = Tail(up[p])
        /\ \A d \in Peers : d # p => up'[d] = up[d]
    BY <1>1, RequestNext DEF OnRequestRelay
  <1>3. r \in Peers
    BY <1>2, RequestFacts
  <1>4. \A q \in Peers : Wanted(up[p], q) => Wanted(up'[p], q) \/ q = r
    BY <1>2, WantedTail
  <1>5. \A q \in Peers : Truth(q)' = Truth(q)
    BY <1>1 DEF Truth
  <1> HIDE DEF r
  <1>6. CASE {p, r} \subseteq Online
    <2>a. PICK reached \in SUBSET {p, r} :
            /\ Refuses(reached # {p, r})
            /\ down' = Deliver([d \in Peers |-> IF d \in reached THEN Answer(p, r)[d] ELSE <<>>])
            /\ unanswered' = [unanswered EXCEPT ![p] = IF p \in reached THEN @ \ {r}
                                                       ELSE @ \cup {r}]
      BY <1>6 DEF OnRequestRelay, r
    <2>b. /\ unanswered' \in [Peers -> SUBSET Peers] /\ failures' \in 0 .. MaxFailures
          /\ \A d \in Peers : d # p => unanswered'[d] = unanswered[d]
          /\ unanswered'[p] = IF p \in reached THEN unanswered[p] \ {r}
                              ELSE unanswered[p] \cup {r}
      BY <1>0, <1>3, <1>a, <2>a, RefusesType
    <2> DEFINE to == [d \in Peers |-> IF d \in reached THEN Answer(p, r)[d] ELSE <<>>]
    <2>1. /\ to \in [Peers -> Seq(Messages)]
          /\ \A d \in Peers : \A i \in DOMAIN to[d] : to[d][i].type = "RELAY_READY"
          /\ p \in reached => 1 \in DOMAIN to[p] /\ to[p][1] = Ready(r)
      <3>1. Ready(p) \in Messages /\ Ready(r) \in Messages
        BY <1>3 DEF Ready, Messages
      <3>2. Ready(p).type = "RELAY_READY" /\ Ready(r).type = "RELAY_READY"
        BY DEF Ready
      <3>3. \A d \in Peers : to[d] \in {<<Ready(p)>>, <<Ready(r)>>, <<>>}
        BY DEF Answer
      <3>4. p \in reached => to[p] = <<Ready(r)>>
        BY DEF Answer
      <3> HIDE DEF to
      <3>5. \A d \in Peers : /\ to[d] \in Seq(Messages)
                             /\ \A i \in DOMAIN to[d] : to[d][i].type = "RELAY_READY"
        <4>1. ASSUME NEW m \in Messages, m.type = "RELAY_READY"
              PROVE  <<m>> \in Seq(Messages) /\ \A i \in DOMAIN <<m>> : <<m>>[i].type = "RELAY_READY"
          BY <4>1
        <4>2. <<>> \in Seq(Messages) /\ DOMAIN <<>> = {}
          OBVIOUS
        <4>3. \A x \in {<<Ready(p)>>, <<Ready(r)>>, <<>>} :
                x \in Seq(Messages) /\ \A i \in DOMAIN x : x[i].type = "RELAY_READY"
          BY <3>1, <3>2, <4>1, <4>2
        <4> QED BY <3>3, <4>3
      <3>6. to \in [Peers -> Seq(Messages)]
        BY <3>5 DEF to
      <3> QED BY <3>4, <3>5, <3>6
    <2>2. down' = Deliver(to)
      BY <2>a
    <2> HIDE DEF to
    <2>3. /\ down' \in [Peers -> Seq(Messages)]
          /\ \A d \in Peers : down'[d] = IF client[d].phase = "lost" THEN <<>>
                                         ELSE down[d] \o to[d]
      BY <1>0, <2>1, <2>2, DeliverEffects
    <2>4. TypeOK'
      BY <1>0, <1>1, <1>2, <2>3, <2>b DEF TypeOK
    <2>5. ASSUME NEW d \in Peers
          PROVE  /\ \A i \in DOMAIN to[d] : to[d][i].type # "JOIN_RESP"
                 /\ \A q \in Peers : Silent(to[d], q) /\ SendsRight(to[d], d, q)
      <3>1. \A q \in Peers : Silent(to[d], q)
        BY <2>1 DEF Silent, Tells, News
      <3> QED BY <1>1, <1>5, <2>1, <3>1 DEF SendsRight
    <2>6. room[p] = "online"
      BY <1>6 DEF Online
    <2>7. ConnInv(p)'
      BY <1>0, <1>1, <1>2, <2>3 DEF ConnInv
    <2>8. JoinInv(p)'
      <3>1. \A i \in DOMAIN down'[p] : down'[p][i].type = "JOIN_RESP" =>
              i \in DOMAIN down[p] /\ down[p][i].type = "JOIN_RESP"
        BY <2>1, <2>3, <2>5, NoAnswer
      <3> QED BY <1>1, <1>2, <3>1, PopJoin
    <2>9. ASSUME NEW q \in Peers, q # p PROVE NewsInv(p, q)' /\ AskedInv(p, q)'
      <3>0. to[p] \in Seq(Messages) /\ client'[p] = client[p]
        BY <1>1, <2>1
      <3>1. NewsInv(p, q)'
        BY <2>3, <2>5, <2>9, <3>0, DeliverNews
      <3>2. q = r /\ p \in reached => Asked(to[p], q)
        BY <2>1 DEF Asked, Ready
      <3>3. client[p].phase = "ready" /\ room'[p] = "online" /\ room'[q] = "online"
                /\ ~Missed(p, q)' =>
              \/ Asked(to[p], q)
              \/ /\ room[p] = "online" /\ room[q] = "online" /\ ~Missed(p, q)
                 /\ Wanted(up[p], q) => Wanted(up'[p], q)
        BY <1>1, <1>4, <2>b, <3>2 DEF Missed
      <3>4. AskedInv(p, q)'
        BY <2>3, <2>9, <3>0, <3>3, DeliverAsked
      <3> QED BY <3>1, <3>4
    <2>10. \A d \in Peers : d # p =>
             /\ client'[d] = client[d] /\ up'[d] = up[d] /\ conn'[d] = conn[d]
             /\ room'[d] = room[d] /\ session'[d] = session[d]
             /\ down'[d] = IF client[d].phase = "lost" THEN <<>> ELSE down[d] \o to[d]
             /\ \A i \in DOMAIN to[d] : to[d][i].type # "JOIN_RESP"
             /\ \A q \in Peers : q # p => Silent(to[d], q) /\ SameMissed(d, q)
             /\ SendsRight(to[d], d, p) /\ AsksRight(to[d], d, p)
      BY <1>1, <1>2, <2>3, <2>5, <2>6, <2>b DEF SameMissed, AsksRight, Missed
    <2>11. \A q \in Peers : LinkInv(client'[p], q)
      BY <1>0, <1>1
    <2> QED BY <2>1, <2>4, <2>7, <2>8, <2>9, <2>10, <2>11, ServeStep
  <1>7. CASE ~({p, r} \subseteq Online)
    <2>1. down' = down /\ failures' = failures /\ unanswered' = unanswered /\ missed' = missed
      BY <1>1, <1>7 DEF OnRequestRelay, r, missed
    <2>2. TypeOK'
      BY <1>0, <1>1, <1>2, <2>1 DEF TypeOK
    <2>3. ConnInv(p)'
      BY <1>0, <1>1, <1>2, <2>1 DEF ConnInv
    <2>4. JoinInv(p)'
      BY <1>1, <1>2, <2>1, PopJoin
    <2>5. ASSUME NEW q \in Peers, q # p PROVE NewsInv(p, q)' /\ AskedInv(p, q)'
      <3>1. NewsInv(p, q) /\ AskedInv(p, q)
        BY <1>0, <2>5
      <3>2. NewsInv(p, q)'
        BY <1>1, <1>5, <2>1, <3>1 DEF NewsInv
      <3>3. room[p] = "online" /\ room[q] = "online" => q # r
        BY <1>7 DEF Online
      <3>4. AskedInv(p, q)'
        BY <1>1, <1>4, <2>1, <3>1, <3>3 DEF AskedInv
      <3> QED BY <3>2, <3>4
    <2>6. /\ \A q \in Peers : LinkInv(client'[p], q)
          /\ \A d \in Peers : d # p =>
               /\ client'[d] = client[d] /\ down'[d] = down[d] /\ up'[d] = up[d]
               /\ conn'[d] = conn[d] /\ room'[d] = room[d]
          /\ session' = session /\ room'[p] = room[p]
      BY <1>0, <1>1, <1>2, <2>1
    <2> QED BY <2>1, <2>2, <2>3, <2>4, <2>5, <2>6, OwnStep
  <1> QED BY <1>6, <1>7

\* leaveRoom and expireLeases: the lease of p goes and the others are told.
LEMMA RemoveLeaseStep ==
  ASSUME LinksInv, NEW p \in Peers, RemoveLease(p), room[p] # "out",
         UNCHANGED <<session, conn, client, starts>>,
         up' \in [Peers -> Seq(Requests)], \A d \in Peers : d # p => up'[d] = up[d],
         \/ up'[p] = up[p]
         \/ up[p] # <<>> /\ up'[p] = Tail(up[p])
  PROVE  LinksInv'
  <1> DEFINE m == [type |-> "PEER_LEFT", peer |-> p]
  <1>0. /\ TypeOK /\ ConnInv(p) /\ JoinInv(p) /\ \A q \in Peers : LinkInv(client[p], q)
        /\ room \in [Peers -> {"out", "offline", "online"}] /\ up[p] \in Seq(Requests)
    BY DEF LinksInv, TypeOK
  <1>a. PICK told \in SUBSET (Online \ {p}) :
          /\ Refuses(told # Online \ {p}) /\ Announce(p, "PEER_LEFT", told)
          /\ down' = Deliver([q \in Peers |-> IF q \in told THEN <<m>> ELSE <<>>])
    BY DEF RemoveLease
  <1>b. /\ failures' \in 0 .. MaxFailures
        /\ unheard' \in [Peers -> SUBSET Peers] /\ unanswered' \in [Peers -> SUBSET Peers]
        /\ \A d, q \in Peers : d # p /\ q # p => SameMissed(d, q)
        /\ \A d \in Peers : d # p /\ room[d] = "online" /\ d \notin told => p \in unheard'[d]
    BY <1>0, <1>a, RefusesType, AnnounceFacts
  <1> DEFINE to == [q \in Peers |-> IF q \in told THEN <<m>> ELSE <<>>]
  <1>1. room' = [room EXCEPT ![p] = "out"] /\ down' = Deliver(to)
    BY <1>a DEF RemoveLease
  <1>2. m \in Messages /\ m.type = "PEER_LEFT" /\ m.peer = p
    BY DEF Messages
  <1> HIDE DEF m
  <1>3. /\ to \in [Peers -> Seq(Messages)] /\ to[p] = <<>>
        /\ \A d \in Peers : d # p => to[d] = IF d \in told THEN <<m>> ELSE <<>>
    BY <1>2 DEF Online
  <1> HIDE DEF to
  <1>4. /\ down' \in [Peers -> Seq(Messages)]
        /\ \A d \in Peers : down'[d] = IF client[d].phase = "lost" THEN <<>>
                                       ELSE down[d] \o to[d]
    BY <1>0, <1>1, <1>3, DeliverEffects
  <1>5. /\ room'[p] = "out" /\ \A d \in Peers : d # p => room'[d] = room[d]
        /\ room' \in [Peers -> {"out", "offline", "online"}]
    BY <1>0, <1>1
  <1>6. TypeOK'
    BY <1>0, <1>4, <1>5, <1>b DEF TypeOK
  <1>7. ConnInv(p)'
    <2>1. ~conn[p] => up'[p] = <<>>
      BY <1>0 DEF ConnInv
    <2> QED BY <1>0, <1>4, <1>5, <2>1 DEF ConnInv
  <1>8. JoinInv(p)'
    <2>0. to[p] \in Seq(Messages) /\ \A i \in DOMAIN to[p] : to[p][i].type # "JOIN_RESP"
      BY <1>3
    <2>1. CASE up'[p] = up[p]
      BY <1>4, <1>5, <2>0, <2>1, DeliverJoin
    <2>2. CASE up[p] # <<>> /\ up'[p] = Tail(up[p])
      <3>1. \A i \in DOMAIN down'[p] : down'[p][i].type = "JOIN_RESP" =>
              i \in DOMAIN down[p] /\ down[p][i].type = "JOIN_RESP"
        BY <1>4, <2>0, NoAnswer
      <3> QED BY <1>5, <2>2, <3>1, PopJoin
    <2> QED BY <2>1, <2>2
  <1>9. ASSUME NEW q \in Peers, q # p PROVE NewsInv(p, q)' /\ AskedInv(p, q)'
    <2>1. Silent(to[p], q) /\ to[p] \in Seq(Messages)
      BY <1>3, NoMessages
    <2>2. SendsRight(to[p], p, q)
      BY <1>5, <2>1 DEF SendsRight
    <2>3. NewsInv(p, q)'
      BY <1>4, <1>9, <2>1, <2>2, DeliverNews
    <2>4. AskedInv(p, q)'
      BY <1>5 DEF AskedInv
    <2> QED BY <2>3, <2>4
  <1>10. ASSUME NEW d \in Peers, d # p
         PROVE  /\ \A i \in DOMAIN to[d] : to[d][i].type # "JOIN_RESP"
                /\ \A q \in Peers : q # p => Silent(to[d], q)
                /\ SendsRight(to[d], d, p)
    <2>1. CASE d \in told
      <3>1. to[d] = <<m>>
        BY <1>3, <1>10, <2>1
      <3>2. DOMAIN to[d] = {1} /\ to[d][1] = m
        BY <3>1
      <3>3. Tells(m, p) /\ Says(m, p) = 0 /\ \A q \in Peers : q # p => ~Tells(m, q)
        BY <1>2 DEF Tells, Says, News
      <3>4. Truth(p)' = 0
        BY <1>5 DEF Truth
      <3>5. SendsRight(to[d], d, p)
        BY <1>2, <3>2, <3>3, <3>4 DEF SendsRight
      <3> QED BY <1>2, <3>2, <3>3, <3>5 DEF Silent
    <2>2. CASE d \notin told
      <3>1. to[d] = <<>> /\ DOMAIN to[d] = {}
        BY <1>3, <1>10, <2>2, NoMessages
      <3>2. room'[d] # "online" \/ p \in unheard'[d]
        BY <1>5, <1>10, <1>b, <2>2
      <3> QED BY <3>1, <3>2 DEF Silent, SendsRight
    <2> QED BY <2>1, <2>2
  <1>11. \A d \in Peers : d # p =>
           /\ client'[d] = client[d] /\ up'[d] = up[d] /\ conn'[d] = conn[d]
           /\ room'[d] = room[d] /\ session'[d] = session[d]
           /\ down'[d] = IF client[d].phase = "lost" THEN <<>> ELSE down[d] \o to[d]
           /\ \A i \in DOMAIN to[d] : to[d][i].type # "JOIN_RESP"
           /\ \A q \in Peers : q # p => Silent(to[d], q) /\ SameMissed(d, q)
           /\ SendsRight(to[d], d, p) /\ AsksRight(to[d], d, p)
    BY <1>4, <1>5, <1>10, <1>b DEF AsksRight
  <1>12. \A q \in Peers : LinkInv(client'[p], q)
    BY <1>0
  <1> QED BY <1>3, <1>6, <1>7, <1>8, <1>9, <1>11, <1>12, ServeStep

\* LEAVE_ROOM at the server: the others are told.
LEMMA OnLeaveRoomStep ==
  ASSUME LinksInv, NEW p \in Peers, OnLeaveRoom(p)
  PROVE  LinksInv'
  <1>1. UNCHANGED <<session, conn, client, starts>> /\ up' = [up EXCEPT ![p] = Tail(@)]
    BY DEF OnLeaveRoom
  <1>2. /\ up[p] # <<>> /\ up[p] \in Seq(Requests) /\ conn[p]
        /\ Head(up[p]) \in Requests /\ Head(up[p]).type = "LEAVE"
        /\ up' \in [Peers -> Seq(Requests)] /\ up'[p] = Tail(up[p])
        /\ \A d \in Peers : d # p => up'[d] = up[d]
    BY <1>1, RequestNext DEF OnLeaveRoom
  <1>3. CASE room[p] = "online"
    <2>1. RemoveLease(p)
      BY <1>3 DEF OnLeaveRoom
    <2> QED BY <1>1, <1>2, <1>3, <2>1, RemoveLeaseStep
  <1>4. CASE room[p] # "online"
    <2>0. /\ TypeOK /\ ConnInv(p) /\ \A q \in Peers : LinkInv(client[p], q)
          /\ \A q \in Peers : q # p => NewsInv(p, q) /\ AskedInv(p, q)
      BY DEF LinksInv
    <2>1. room' = room /\ down' = down /\ missed' = missed /\ failures' = failures
      BY <1>4 DEF OnLeaveRoom
    <2>2. TypeOK'
      BY <1>1, <1>2, <2>0, <2>1 DEF TypeOK, missed
    <2>3. ConnInv(p)'
      BY <1>1, <1>2, <2>0, <2>1 DEF ConnInv
    <2>4. JoinInv(p)'
      BY <1>1, <1>2, <1>4, <2>1, PopJoin
    <2>5. ASSUME NEW q \in Peers, q # p PROVE NewsInv(p, q)' /\ AskedInv(p, q)'
      <3>1. NewsInv(p, q)'
        BY <1>4, <2>1 DEF NewsInv
      <3>2. AskedInv(p, q)'
        BY <1>4, <2>1 DEF AskedInv
      <3> QED BY <3>1, <3>2
    <2>6. /\ \A q \in Peers : LinkInv(client'[p], q)
          /\ \A d \in Peers : d # p =>
               /\ client'[d] = client[d] /\ down'[d] = down[d] /\ up'[d] = up[d]
               /\ conn'[d] = conn[d] /\ room'[d] = room[d]
          /\ session' = session /\ room'[p] = room[p]
      BY <1>1, <1>2, <2>0, <2>1
    <2> QED BY <2>1, <2>2, <2>3, <2>4, <2>5, <2>6, OwnStep
  <1> QED BY <1>3, <1>4

\* A lease expires: the others are told.
LEMMA LeaseExpiresStep ==
  ASSUME LinksInv, NEW p \in Peers, LeaseExpires(p)
  PROVE  LinksInv'
  <1>1. /\ RemoveLease(p) /\ room[p] # "out" /\ UNCHANGED <<session, conn, client, starts>>
        /\ up' = up /\ up' \in [Peers -> Seq(Requests)]
    BY DEF LeaseExpires, LinksInv, TypeOK
  <1> QED BY <1>1, RemoveLeaseStep

-----------------------------------------------------------------------------
(* A peer enters the room *)

\* sendJoinResponse and notifyRelayPeers: the answer comes first and says of
\* every other peer what it is.
LEMMA WelcomeFacts ==
  ASSUME LinksInv, NEW p \in Peers, NEW greeted \in SUBSET (Online \ {p}),
         NEW others \in SetToSeqs(greeted)
  PROVE  LET t == Welcome(p, others)
         IN  /\ t \in Seq(Messages) /\ 1 \in DOMAIN t /\ t[1].type = "JOIN_RESP"
             /\ \A i \in DOMAIN t : i > 1 => t[i].type = "RELAY_READY"
             /\ \A q \in Peers : q # p => t[1].members[q] = Truth(q)
  <1> DEFINE M == [q \in Peers |-> IF q # p /\ room[q] # "out" THEN session[q] ELSE 0]
             m == [type |-> "JOIN_RESP", members |-> M]
             s == <<m>>
             r == [i \in DOMAIN others |-> Ready(others[i])]
             t == Welcome(p, others)
  <1>1. M \in [Peers -> Session]
    BY ZeroSession DEF LinksInv, TypeOK
  <1>2. \A q \in Peers : q # p => M[q] = Truth(q)
    BY DEF Truth
  <1> HIDE DEF M
  <1>3. m \in Messages /\ m.type = "JOIN_RESP" /\ m.members = M
    BY <1>1 DEF Messages
  <1>4. others \in Seq(Peers)
    <2>1. IsFiniteSet(greeted) /\ greeted \in SUBSET Peers
      BY FinitePeers DEF Online
    <2>2. others \in Seq(greeted)
      BY <2>1, OrderFacts
    <2> QED BY <2>1, <2>2
  <1>5. r \in Seq(Messages) /\ \A i \in DOMAIN r : r[i].type = "RELAY_READY"
    <2>1. \A i \in DOMAIN others : Ready(others[i]) \in Messages
                                     /\ Ready(others[i]).type = "RELAY_READY"
      BY <1>4 DEF Ready, Messages
    <2> QED BY <1>4, <2>1
  <1>6. t = s \o r
    BY DEF Welcome, M
  <1> HIDE DEF m, r, t
  <1>7. s \in Seq(Messages) /\ Len(s) = 1 /\ s[1] = m
    BY <1>3
  <1> HIDE DEF s
  <1>8. /\ t \in Seq(Messages)
        /\ Len(s) \in Nat /\ Len(r) \in Nat
        /\ DOMAIN s = 1 .. Len(s) /\ DOMAIN r = 1 .. Len(r)
        /\ DOMAIN t = 1 .. (Len(s) + Len(r))
        /\ \A i \in 1 .. Len(s) : t[i] = s[i]
        /\ \A i \in (Len(s) + 1) .. (Len(s) + Len(r)) :
             t[i] = r[i - Len(s)] /\ i - Len(s) \in 1 .. Len(r)
    <2>1. s \in Seq(Messages) /\ r \in Seq(Messages)
      BY <1>5, <1>7
    <2> DEFINE w == s \o r
    <2>2. /\ w \in Seq(Messages)
          /\ Len(s) \in Nat /\ Len(r) \in Nat
          /\ DOMAIN s = 1 .. Len(s) /\ DOMAIN r = 1 .. Len(r)
          /\ DOMAIN w = 1 .. (Len(s) + Len(r))
          /\ \A i \in 1 .. Len(s) : w[i] = s[i]
          /\ \A i \in (Len(s) + 1) .. (Len(s) + Len(r)) :
               w[i] = r[i - Len(s)] /\ i - Len(s) \in 1 .. Len(r)
      BY <2>1, ConcatFacts
    <2>3. t = w
      BY <1>6
    <2> HIDE DEF w
    <2> QED BY <2>2, <2>3
  <1>9. 1 \in DOMAIN t /\ t[1] = m
    BY <1>7, <1>8
  <1>10. ASSUME NEW i \in DOMAIN t, i > 1 PROVE t[i].type = "RELAY_READY"
    <2>1. i \in (Len(s) + 1) .. (Len(s) + Len(r))
      BY <1>7, <1>8, <1>10
    <2> QED BY <1>5, <1>8, <2>1
  <1> QED BY <1>2, <1>3, <1>8, <1>9, <1>10 DEF t

\* broadcastToRoom and notifyRelayPeers: those in told are told of p first, and
\* nobody of anyone else.
LEMMA NotifyFacts ==
  ASSUME NEW p \in Peers, NEW type \in {"PEER_JOINED", "PEER_RESUMED"},
         NEW n \in Session \ {0}, NEW told, NEW linked
  PROVE  LET to == Notify(p, type, n, told, linked)
         IN  /\ to \in [Peers -> Seq(Messages)]
             /\ \A d \in Peers : d \in told =>
                  /\ 1 \in DOMAIN to[d]
                  /\ to[d][1] = [type |-> type, peer |-> p, session |-> n]
                  /\ \A i \in DOMAIN to[d] : i > 1 => to[d][i].type = "RELAY_READY"
             /\ \A d \in Peers : d \notin told =>
                  \A i \in DOMAIN to[d] : to[d][i].type = "RELAY_READY"
  <1> DEFINE to == Notify(p, type, n, told, linked)
             m == [type |-> type, peer |-> p, session |-> n]
             r == Ready(p)
  <1>1. m \in Messages /\ r \in Messages /\ r.type = "RELAY_READY"
    BY DEF Messages, Ready
  <1>2. to = [q \in Peers |-> (IF q \in told THEN <<m>> ELSE <<>>)
                                \o (IF q \in linked THEN <<r>> ELSE <<>>)]
    BY DEF Notify
  <1> HIDE DEF m, r, to
  <1>3. ASSUME NEW d \in Peers
        PROVE  /\ to[d] \in Seq(Messages)
               /\ d \in told =>
                    /\ 1 \in DOMAIN to[d] /\ to[d][1] = m
                    /\ \A i \in DOMAIN to[d] : i > 1 => to[d][i].type = "RELAY_READY"
               /\ d \notin told => \A i \in DOMAIN to[d] : to[d][i].type = "RELAY_READY"
    <2> DEFINE s == IF d \in told THEN <<m>> ELSE <<>>
               t == IF d \in linked THEN <<r>> ELSE <<>>
               w == s \o t
    <2>1. /\ s \in Seq(Messages) /\ Len(s) = (IF d \in told THEN 1 ELSE 0)
          /\ d \in told => s[1] = m
      BY <1>1
    <2>2. t \in Seq(Messages) /\ \A i \in DOMAIN t : t[i] = r
      BY <1>1
    <2>3. to[d] = w
      BY <1>2
    <2> HIDE DEF s, t
    <2>4. /\ w \in Seq(Messages)
          /\ Len(s) \in Nat /\ Len(t) \in Nat
          /\ DOMAIN s = 1 .. Len(s) /\ DOMAIN t = 1 .. Len(t)
          /\ DOMAIN w = 1 .. (Len(s) + Len(t))
          /\ \A i \in 1 .. Len(s) : w[i] = s[i]
          /\ \A i \in (Len(s) + 1) .. (Len(s) + Len(t)) :
               w[i] = t[i - Len(s)] /\ i - Len(s) \in 1 .. Len(t)
      BY <2>1, <2>2, ConcatFacts
    <2> HIDE DEF w
    <2>5. ASSUME NEW i \in DOMAIN w, i > Len(s) PROVE w[i].type = "RELAY_READY"
      <3>1. i \in (Len(s) + 1) .. (Len(s) + Len(t))
        BY <2>4, <2>5
      <3> QED BY <1>1, <2>2, <2>4, <3>1
    <2>6. CASE d \in told
      BY <2>1, <2>3, <2>4, <2>5, <2>6
    <2>7. CASE d \notin told
      <3>1. \A i \in DOMAIN w : i > Len(s)
        BY <2>1, <2>4, <2>7
      <3> QED BY <2>3, <2>4, <2>5, <2>7, <3>1
    <2> QED BY <2>6, <2>7
  <1>4. to \in [Peers -> Seq(Messages)]
    BY <1>2, <1>3
  <1> QED BY <1>3, <1>4 DEF m, to

\* completeJoin and completeResume; s is what was on its way to p before.
Enters(p, n, type, told, linked, others, s) ==
  /\ Enter(p, n) /\ Announce(p, type, told)
  /\ \A d \in Peers : d # p =>
       /\ client'[d] = client[d] /\ up'[d] = up[d] /\ conn'[d] = conn[d]
       /\ down'[d] = IF client[d].phase = "lost" THEN <<>>
                     ELSE down[d] \o Notify(p, type, n, told, linked)[d]
  /\ conn'[p] /\ client'[p].phase \in {"asking", "lost"}
  /\ down'[p] = IF client'[p].phase = "lost" THEN <<>> ELSE s \o Welcome(p, others)
  /\ \A i \in DOMAIN up'[p] : up'[p][i].type # "JOIN"
  /\ \A q \in Peers : LinkInv(client'[p], q)

LEMMA EnterStep ==
  ASSUME LinksInv, TypeOK', NEW p \in Peers, NEW n \in Session \ {0},
         NEW type \in {"PEER_JOINED", "PEER_RESUMED"}, type = "PEER_JOINED" => room[p] = "out",
         NEW told \in SUBSET (Online \ {p}), NEW linked,
         NEW greeted \in SUBSET (Online \ {p}), NEW others \in SetToSeqs(greeted),
         NEW s \in Seq(Messages), \A i \in DOMAIN s : s[i].type # "JOIN_RESP",
         Enters(p, n, type, told, linked, others, s)
  PROVE  LinksInv'
  <1> DEFINE to == Notify(p, type, n, told, linked)
             t == Welcome(p, others)
             w == s \o t
             m == [type |-> type, peer |-> p, session |-> n]
  <1>0. /\ room \in [Peers -> {"out", "offline", "online"}] /\ session \in [Peers -> Session]
        /\ n # 0 /\ TypeOK
    BY DEF LinksInv, TypeOK
  <1> USE DEF Enters
  <1>1. /\ room'[p] = "online" /\ session'[p] = n
        /\ \A d \in Peers : d # p => room'[d] = room[d] /\ session'[d] = session[d]
    BY <1>0 DEF Enter
  <1>2. /\ to \in [Peers -> Seq(Messages)]
        /\ \A d \in Peers : d \in told =>
             /\ 1 \in DOMAIN to[d] /\ to[d][1] = m
             /\ \A i \in DOMAIN to[d] : i > 1 => to[d][i].type = "RELAY_READY"
        /\ \A d \in Peers : d \notin told =>
             \A i \in DOMAIN to[d] : to[d][i].type = "RELAY_READY"
    BY NotifyFacts
  <1>a. /\ \A d, q \in Peers : d # p /\ q # p => SameMissed(d, q)
        /\ \A d \in Peers : d # p /\ room[d] = "online" /\ d \notin told => p \in unheard'[d]
        /\ \A d \in told : type = "PEER_JOINED" /\ p \in unheard[d] => p \in unheard'[d]
    BY <1>0, AnnounceFacts
  <1>b. \A d \in told : room[d] = "online"
    BY DEF Online
  <1>3. /\ t \in Seq(Messages) /\ 1 \in DOMAIN t /\ t[1].type = "JOIN_RESP"
        /\ \A i \in DOMAIN t : i > 1 => t[i].type = "RELAY_READY"
        /\ \A q \in Peers : q # p => t[1].members[q] = Truth(q)
    BY WelcomeFacts
  <1>4. m.type = type /\ m.peer = p /\ m.session = n
    OBVIOUS
  <1>5. /\ Truth(p)' = n /\ (type = "PEER_JOINED" => Truth(p) = 0)
        /\ \A q \in Peers : q # p => Truth(q)' = Truth(q)
    BY <1>1 DEF Truth
  <1>6. /\ \A d \in Peers : d # p => down'[d] = IF client[d].phase = "lost" THEN <<>>
                                                ELSE down[d] \o to[d]
        /\ down'[p] = IF client'[p].phase = "lost" THEN <<>> ELSE w
    OBVIOUS
  <1> HIDE DEF to, t, m
  <1>7. ConnInv(p)'
    BY <1>0, <1>1, <1>6 DEF ConnInv
  <1>8. JoinInv(p)'
    <2>1. CASE client'[p].phase = "lost"
      <3>1. DOMAIN down'[p] = {}
        BY <1>6, <2>1, NoMessages
      <3> QED BY <2>1, <3>1 DEF JoinInv
    <2>2. CASE client'[p].phase # "lost"
      <3>1. /\ Len(s) \in Nat /\ Len(t) \in Nat
            /\ DOMAIN s = 1 .. Len(s) /\ DOMAIN t = 1 .. Len(t)
            /\ DOMAIN w = 1 .. (Len(s) + Len(t))
            /\ \A i \in 1 .. Len(s) : w[i] = s[i]
            /\ \A i \in (Len(s) + 1) .. (Len(s) + Len(t)) :
                 w[i] = t[i - Len(s)] /\ i - Len(s) \in 1 .. Len(t)
        BY <1>3, ConcatFacts
      <3>2. down'[p] = w
        BY <1>6, <2>2
      <3> HIDE DEF w
      <3>3. ASSUME NEW i \in DOMAIN w, w[i].type = "JOIN_RESP" PROVE i = Len(s) + 1
        <4>1. CASE i \in 1 .. Len(s)
          BY <3>1, <3>3, <4>1
        <4>2. CASE i \notin 1 .. Len(s)
          <5>1. i \in (Len(s) + 1) .. (Len(s) + Len(t)) /\ i \in Nat
            BY <3>1, <4>2
          <5>2. w[i] = t[i - Len(s)] /\ i - Len(s) \in DOMAIN t
            BY <3>1, <5>1
          <5>3. ~(i - Len(s) > 1)
            BY <1>3, <3>3, <5>2
          <5> QED BY <3>1, <5>1, <5>3
        <4> QED BY <4>1, <4>2
      <3> QED BY <2>2, <3>2, <3>3 DEF JoinInv
    <2> QED BY <2>1, <2>2
  <1>9. ASSUME NEW q \in Peers, q # p PROVE NewsInv(p, q)' /\ AskedInv(p, q)'
    <2>1. Tells(t[1], q) /\ Says(t[1], q) = Truth(q)' /\ t[1].type # "PEER_JOINED"
      BY <1>3, <1>5, <1>9 DEF Tells, Says
    <2>2. \A i \in DOMAIN t : i > 1 => ~Tells(t[i], q)
      BY <1>3 DEF Tells, News
    <2>a. Orderly(w, q) /\ LastWord(w, q, Says(t[1], q))
      <3>1. t[1].type = "PEER_JOINED" => LastWord(s, q, 0)
        BY <2>1
      <3>2. t \in Seq(Messages) /\ 1 \in DOMAIN t /\ Tells(t[1], q)
        BY <1>3, <2>1
      <3> QED BY <2>2, <3>1, <3>2, SendFirst
    <2>3. Orderly(w, q) /\ LastWord(w, q, Truth(q)')
      BY <2>1, <2>a
    <2> HIDE DEF w
    <2>4. Orderly(down'[p], q) /\ LastWord(down'[p], q, Truth(q)')
      BY <1>6, <2>3, NoMessages
    <2>5. client'[p].phase \notin {"preparing", "ready"}
      OBVIOUS
    <2> QED BY <2>4, <2>5 DEF NewsInv, AskedInv
  <1>10. ASSUME NEW d \in Peers, d # p
         PROVE  /\ \A i \in DOMAIN to[d] : to[d][i].type # "JOIN_RESP"
                /\ \A q \in Peers : q # p => Silent(to[d], q)
                /\ SendsRight(to[d], d, p)
                /\ room[d] = "online" => Asked(to[d], p) \/ p \in unheard'[d]
    <2>1. CASE d \in told
      <3>2. /\ 1 \in DOMAIN to[d] /\ to[d][1] = m
            /\ \A i \in DOMAIN to[d] : i > 1 => to[d][i].type = "RELAY_READY"
        BY <1>2, <2>1
      <3>3. Tells(m, p) /\ Says(m, p) = n /\ \A q \in Peers : q # p => ~Tells(m, q)
        BY <1>4 DEF Tells, Says, News
      <3>4. \A i \in DOMAIN to[d] : i > 1 => \A q \in Peers : ~Tells(to[d][i], q)
        BY <3>2 DEF Tells, News
      <3>5. SendsRight(to[d], d, p)
        BY <1>4, <1>5, <1>a, <1>b, <2>1, <3>2, <3>3, <3>4 DEF SendsRight
      <3>6. Asked(to[d], p)
        BY <1>4, <3>2 DEF Asked
      <3>7. \A i \in DOMAIN to[d] : i = 1 \/ i > 1
        BY <1>2
      <3> QED BY <1>4, <3>2, <3>3, <3>4, <3>5, <3>6, <3>7 DEF Silent
    <2>2. CASE d \notin told
      <3>1. \A i \in DOMAIN to[d] : to[d][i].type = "RELAY_READY"
        BY <1>2, <2>2
      <3>2. \A q \in Peers : Silent(to[d], q)
        BY <3>1 DEF Silent, Tells, News
      <3>3. room[d] = "online" => p \in unheard'[d]
        BY <1>10, <1>a, <2>2
      <3>4. room'[d] = room[d]
        BY <1>1, <1>10
      <3> QED BY <3>1, <3>2, <3>3, <3>4 DEF SendsRight
    <2> QED BY <2>1, <2>2
  <1>11. \A d \in Peers : d # p =>
           /\ client'[d] = client[d] /\ up'[d] = up[d] /\ conn'[d] = conn[d]
           /\ room'[d] = room[d] /\ session'[d] = session[d]
           /\ down'[d] = IF client[d].phase = "lost" THEN <<>> ELSE down[d] \o to[d]
           /\ \A i \in DOMAIN to[d] : to[d][i].type # "JOIN_RESP"
           /\ \A q \in Peers : q # p => Silent(to[d], q) /\ SameMissed(d, q)
           /\ SendsRight(to[d], d, p) /\ AsksRight(to[d], d, p)
    BY <1>1, <1>6, <1>10, <1>a DEF AsksRight, Missed
  <1> QED BY <1>2, <1>7, <1>8, <1>9, <1>11, ServeStep

\* The request to join that comes next: p is not in the room.
LEMMA JoinNext ==
  ASSUME LinksInv, NEW p \in Peers, Request(p, "JOIN")
  PROVE  /\ client[p].phase \in {"asking", "lost"} /\ room[p] = "out"
         /\ \A j \in DOMAIN up[p] : up[p][j].type = "JOIN" => j = 1
         /\ \A j \in DOMAIN down[p] : down[p][j].type # "JOIN_RESP"
  <1> DEFINE u == up[p]
  <1>0. /\ ConnInv(p) /\ JoinInv(p) /\ u \in Seq(Requests) /\ u # <<>>
        /\ room \in [Peers -> {"out", "offline", "online"}]
    BY DEF LinksInv, TypeOK, Request
  <1>1. 1 \in DOMAIN u /\ u[1].type = "JOIN" /\ DOMAIN u = 1 .. Len(u) /\ Len(u) \in Nat
    BY <1>0, TailFacts DEF Request
  <1>2. /\ client[p].phase \in {"asking", "lost"}
        /\ \A j \in DOMAIN u : u[j].type = "JOIN" => j = 1
        /\ \A j \in DOMAIN down[p] : down[p][j].type # "JOIN_RESP"
        /\ room[p] = "online" => \E j \in DOMAIN u : j < 1 /\ u[j].type = "LEAVE"
    BY <1>0, <1>1 DEF JoinInv
  <1>3. \A j \in DOMAIN u : ~(j < 1)
    BY <1>1
  <1>4. room[p] # "online" /\ room[p] # "offline"
    BY <1>0, <1>2, <1>3 DEF ConnInv
  <1> QED BY <1>0, <1>2, <1>4

\* The answer to a join cannot be sent: p is not in the room, as before.
LEMMA RollbackNewMembershipStep ==
  ASSUME LinksInv, NEW p \in Peers, RollbackNewMembership(p)
  PROVE  LinksInv'
  <1>0. /\ TypeOK /\ ConnInv(p) /\ JoinInv(p) /\ conn \in [Peers -> BOOLEAN]
        /\ up \in [Peers -> Seq(Requests)] /\ \A q \in Peers : LinkInv(client[p], q)
    BY DEF LinksInv, TypeOK
  <1>1. /\ up' = [up EXCEPT ![p] = <<>>] /\ Refuses(TRUE)
        /\ UNCHANGED <<room, session, client, down, missed, starts>>
    BY DEF RollbackNewMembership
  <1>2. room[p] = "out"
    BY JoinNext DEF RollbackNewMembership
  <1>3. conn' \in [Peers -> BOOLEAN] /\ ~conn'[p] /\ \A d \in Peers : d # p => conn'[d] = conn[d]
    BY <1>0, Zenon DEF RollbackNewMembership
  <1>4. /\ up' \in [Peers -> Seq(Requests)] /\ up'[p] = <<>> /\ DOMAIN up'[p] = {}
        /\ \A d \in Peers : d # p => up'[d] = up[d]
    BY <1>0, <1>1
  <1>5. failures' \in 0 .. MaxFailures
    BY <1>0, <1>1, RefusesType
  <1>6. TypeOK'
    BY <1>0, <1>1, <1>3, <1>4, <1>5 DEF TypeOK, missed
  <1>7. ConnInv(p)'
    BY <1>0, <1>1, <1>2, <1>3, <1>4 DEF ConnInv
  <1>8. JoinInv(p)'
    BY <1>0, <1>1, <1>2, <1>4 DEF JoinInv
  <1>9. \A q \in Peers : q # p => NewsInv(p, q)' /\ AskedInv(p, q)'
    BY <1>1, <1>2 DEF NewsInv, AskedInv
  <1> QED BY <1>0, <1>1, <1>3, <1>4, <1>6, <1>7, <1>8, <1>9, OwnStep

\* The server admits a member and tells the others.
LEMMA CompleteJoinStep ==
  ASSUME LinksInv, NEW p \in Peers, CompleteJoin(p)
  PROVE  LinksInv'
  <1> DEFINE n == Head(up[p]).session
             u == up[p]
  <1>0. /\ TypeOK /\ ConnInv(p) /\ JoinInv(p) /\ down[p] \in Seq(Messages)
        /\ room \in [Peers -> {"out", "offline", "online"}] /\ session \in [Peers -> Session]
        /\ \A q \in Peers : LinkInv(client[p], q) /\ (q # p => NewsInv(p, q))
    BY DEF LinksInv, TypeOK
  <1>1. /\ UNCHANGED <<conn, client, starts>> /\ Enter(p, n)
        /\ up' = [up EXCEPT ![p] = Tail(@)]
    BY DEF CompleteJoin
  <1>2. /\ u # <<>> /\ u \in Seq(Requests) /\ conn[p]
        /\ Head(u) \in Requests /\ Head(u).type = "JOIN" /\ 1 \in DOMAIN u /\ u[1] = Head(u)
        /\ up' \in [Peers -> Seq(Requests)] /\ up'[p] = Tail(u)
        /\ \A d \in Peers : d # p => up'[d] = up[d]
    BY <1>1, RequestNext DEF CompleteJoin
  <1>3. n \in Session \ {0}
    BY <1>2, RequestFacts
  <1>a. PICK told \in SUBSET (Online \ {p}), linked \in SUBSET (Online \ {p}),
             greeted \in SUBSET (Online \ {p}) :
          /\ Refuses({told, linked, greeted} # {Online \ {p}})
          /\ Announce(p, "PEER_JOINED", told)
          /\ \E others \in SetToSeqs(greeted) :
               down' = Deliver([Notify(p, "PEER_JOINED", n, told, linked)
                                  EXCEPT ![p] = Welcome(p, others)])
    BY DEF CompleteJoin
  <1>4. PICK others \in SetToSeqs(greeted) :
          down' = Deliver([Notify(p, "PEER_JOINED", n, told, linked)
                             EXCEPT ![p] = Welcome(p, others)])
    BY <1>a
  <1>b. /\ failures' \in 0 .. MaxFailures
        /\ unheard' \in [Peers -> SUBSET Peers] /\ unanswered' \in [Peers -> SUBSET Peers]
    BY <1>0, <1>a, RefusesType, AnnounceFacts
  <1> HIDE DEF n
  <1>5. /\ client[p].phase \in {"asking", "lost"} /\ room[p] = "out"
        /\ \A j \in DOMAIN u : u[j].type = "JOIN" => j = 1
        /\ \A j \in DOMAIN down[p] : down[p][j].type # "JOIN_RESP"
    BY JoinNext DEF CompleteJoin
  <1>7. \A i \in DOMAIN up'[p] : up'[p][i].type # "JOIN"
    <2> DEFINE w == Tail(u)
    <2>1. /\ DOMAIN u = 1 .. Len(u) /\ Len(u) \in Nat \ {0}
          /\ DOMAIN w = 1 .. (Len(u) - 1)
          /\ \A i \in 1 .. (Len(u) - 1) : w[i] = u[i + 1] /\ i + 1 \in DOMAIN u
      BY <1>2, TailFacts
    <2> HIDE DEF w
    <2>2. ASSUME NEW i \in DOMAIN w PROVE w[i].type # "JOIN"
      <3>1. i + 1 \in DOMAIN u /\ w[i] = u[i + 1] /\ i + 1 # 1
        BY <2>1
      <3> QED BY <1>5, <3>1
    <2> QED BY <1>2, <2>2 DEF w
  <1> DEFINE to == Notify(p, "PEER_JOINED", n, told, linked)
             t == Welcome(p, others)
             all == [to EXCEPT ![p] = t]
  <1>8. to \in [Peers -> Seq(Messages)]
    BY <1>3, NotifyFacts
  <1>9. t \in Seq(Messages)
    BY WelcomeFacts
  <1> HIDE DEF to, t
  <1>10. /\ all \in [Peers -> Seq(Messages)] /\ all[p] = t
         /\ \A d \in Peers : d # p => all[d] = to[d]
    BY <1>8, <1>9
  <1>11. down' = Deliver(all)
    BY <1>4 DEF to, t
  <1> HIDE DEF all
  <1>12. /\ down' \in [Peers -> Seq(Messages)]
         /\ \A d \in Peers : down'[d] = IF client[d].phase = "lost" THEN <<>>
                                        ELSE down[d] \o all[d]
    BY <1>0, <1>10, <1>11, DeliverEffects
  <1>13. TypeOK'
    <2>1. room' \in [Peers -> {"out", "offline", "online"}] /\ session' \in [Peers -> Session]
      BY <1>0, <1>1, <1>3 DEF Enter
    <2> QED BY <1>0, <1>1, <1>2, <1>12, <1>b, <2>1 DEF TypeOK
  <1>14. \A d \in Peers : d # p =>
           /\ client'[d] = client[d] /\ up'[d] = up[d] /\ conn'[d] = conn[d]
           /\ down'[d] = IF client[d].phase = "lost" THEN <<>>
                         ELSE down[d] \o Notify(p, "PEER_JOINED", n, told, linked)[d]
    BY <1>1, <1>2, <1>10, <1>12 DEF to
  <1>15. /\ conn'[p] /\ client'[p].phase \in {"asking", "lost"}
         /\ down'[p] = IF client'[p].phase = "lost" THEN <<>> ELSE down[p] \o Welcome(p, others)
         /\ \A q \in Peers : LinkInv(client'[p], q)
    BY <1>0, <1>1, <1>2, <1>5, <1>10, <1>12 DEF t
  <1>16. "PEER_JOINED" \in {"PEER_JOINED", "PEER_RESUMED"}
    OBVIOUS
  <1>17. Enters(p, n, "PEER_JOINED", told, linked, others, down[p])
    BY <1>1, <1>7, <1>14, <1>15, <1>a DEF Enters
  <1> QED BY <1>0, <1>3, <1>5, <1>13, <1>16, <1>17, EnterStep

\* A client resumes its lease: the others are told of its new session.
LEMMA ReconnectStep ==
  ASSUME LinksInv, NEW p \in Peers, Reconnect(p)
  PROVE  LinksInv'
  <1> DEFINE e == client[p]
  <1>0. /\ TypeOK /\ ConnInv(p) /\ JoinInv(p) /\ e \in Clients
        /\ room \in [Peers -> {"out", "offline", "online"}] /\ session \in [Peers -> Session]
        /\ client \in [Peers -> Clients] /\ up \in [Peers -> Seq(Requests)]
        /\ conn \in [Peers -> BOOLEAN] /\ down \in [Peers -> Seq(Messages)]
        /\ \A q \in Peers : LinkInv(e, q)
    BY DEF LinksInv, TypeOK
  <1>1. /\ e.phase = "lost" /\ down[p] = <<>>
        /\ up' = [up EXCEPT ![p] = <<>>]
    BY <1>0 DEF Reconnect, ConnInv
  <1>2. starts' \in 0 .. MaxStarts /\ starts + 1 \in Session \ {0}
    BY <1>0, LinkAssumption DEF Reconnect, TypeOK, Session
  <1>3. \A b \in BOOLEAN : conn' = [conn EXCEPT ![p] = b] =>
          /\ conn' \in [Peers -> BOOLEAN] /\ conn'[p] = b
          /\ \A d \in Peers : d # p => conn'[d] = conn[d]
    BY <1>0, Zenon
  <1>4. /\ up' \in [Peers -> Seq(Requests)] /\ up'[p] = <<>> /\ DOMAIN up'[p] = {}
        /\ \A d \in Peers : d # p => up'[d] = up[d]
    BY <1>0, <1>1
  <1>a. /\ [e EXCEPT !.phase = "asking"] \in Clients
        /\ \A q \in Peers : LinkInv([e EXCEPT !.phase = "asking"], q)
    <2> DEFINE c == [e EXCEPT !.phase = "asking"]
    <2>1. /\ c \in Clients /\ c.phase = "asking" /\ c.known = e.known /\ c.link = e.link
          /\ c.rebuild = e.rebuild
      BY <1>0 DEF Clients
    <2> HIDE DEF c
    <2>2. \A q \in Peers : LinkInv(c, q)
      BY <1>0, <1>1, <2>1 DEF LinkInv
    <2> QED BY <2>1, <2>2 DEF c
  <1>5. CASE /\ room[p] = "out"
             /\ conn' = [conn EXCEPT ![p] = TRUE]
             /\ client' = [client EXCEPT ![p] = Teardown("lobby", FALSE)]
             /\ UNCHANGED <<room, session, down, missed, failures>>
    <2>a. conn' \in [Peers -> BOOLEAN] /\ conn'[p] /\ \A d \in Peers : d # p => conn'[d] = conn[d]
      BY <1>3, <1>5
    <2> DEFINE c == Teardown("lobby", FALSE)
    <2>1. /\ c \in Clients /\ c.phase = "lobby" /\ c.rebuild = {}
          /\ \A q \in Peers : c.known[q] = 0 /\ \A k \in Classes : c.link[q][k] = 0
      BY TeardownType
    <2> HIDE DEF c
    <2>2. \A q \in Peers : LinkInv(c, q)
      BY <2>1 DEF LinkInv
    <2>3. client' = [client EXCEPT ![p] = c]
      BY <1>5 DEF c
    <2>4. /\ client'[p] = c /\ \A d \in Peers : d # p => client'[d] = client[d]
          /\ client' \in [Peers -> Clients]
      BY <1>0, <2>1, <2>3
    <2>5. TypeOK'
      BY <1>0, <1>2, <1>4, <1>5, <2>4, <2>a DEF TypeOK, missed
    <2>6. ConnInv(p)'
      BY <1>5, <2>1, <2>4, <2>a DEF ConnInv
    <2>7. JoinInv(p)'
      <3>1. DOMAIN down'[p] = {}
        BY <1>1, <1>5, NoMessages
      <3> QED BY <1>4, <1>5, <3>1 DEF JoinInv
    <2>8. ASSUME NEW q \in Peers, q # p PROVE NewsInv(p, q)' /\ AskedInv(p, q)'
      <3>1. down'[p] = <<>>
        BY <1>1, <1>5
      <3>2. client'[p].phase \notin {"preparing", "ready"}
        BY <2>1, <2>4
      <3>3. NewsInv(p, q)'
        BY <3>1, <3>2, NoMessages DEF NewsInv
      <3> QED BY <3>2, <3>3 DEF AskedInv
    <2>9. /\ \A d \in Peers : d # p =>
               /\ client'[d] = client[d] /\ down'[d] = down[d] /\ up'[d] = up[d]
               /\ conn'[d] = conn[d] /\ room'[d] = room[d]
          /\ session' = session /\ room'[p] = room[p]
          /\ \A q \in Peers : LinkInv(client'[p], q)
      BY <1>4, <1>5, <2>2, <2>4, <2>a
    <2> QED BY <1>5, <2>5, <2>6, <2>7, <2>8, <2>9, OwnStep
  <1>6. CASE /\ conn' = [conn EXCEPT ![p] = TRUE]
             /\ client' = [client EXCEPT ![p].phase = "asking"]
             /\ Enter(p, starts + 1)
             /\ \E told \in SUBSET (Online \ {p}), linked \in SUBSET (Online \ {p}),
                    greeted \in SUBSET (Online \ {p}) :
                  /\ Refuses({told, linked, greeted} # {Online \ {p}})
                  /\ Announce(p, "PEER_RESUMED", told)
                  /\ \E others \in SetToSeqs(greeted) :
                       down' = [Deliver(Notify(p, "PEER_RESUMED", starts + 1, told, linked))
                                  EXCEPT ![p] = Welcome(p, others)]
    <2> DEFINE c == [e EXCEPT !.phase = "asking"]
               n == starts + 1
    <2>1. c \in Clients /\ c.phase = "asking" /\ \A q \in Peers : LinkInv(c, q)
      BY <1>0, <1>a DEF Clients
    <2>2. client' = [client EXCEPT ![p] = c]
      BY <1>0, <1>6
    <2> HIDE DEF c
    <2>4. /\ client'[p] = c /\ \A d \in Peers : d # p => client'[d] = client[d]
          /\ client' \in [Peers -> Clients]
      BY <1>0, <2>1, <2>2
    <2>a. PICK told \in SUBSET (Online \ {p}), linked \in SUBSET (Online \ {p}),
               greeted \in SUBSET (Online \ {p}) :
            /\ Refuses({told, linked, greeted} # {Online \ {p}})
            /\ Announce(p, "PEER_RESUMED", told)
            /\ \E others \in SetToSeqs(greeted) :
                 down' = [Deliver(Notify(p, "PEER_RESUMED", starts + 1, told, linked))
                            EXCEPT ![p] = Welcome(p, others)]
      BY <1>6
    <2>b. conn' \in [Peers -> BOOLEAN] /\ conn'[p] /\ \A d \in Peers : d # p => conn'[d] = conn[d]
      BY <1>3, <1>6
    <2>c. /\ failures' \in 0 .. MaxFailures
          /\ unheard' \in [Peers -> SUBSET Peers] /\ unanswered' \in [Peers -> SUBSET Peers]
      BY <1>0, <2>a, RefusesType, AnnounceFacts
    <2> DEFINE to == Notify(p, "PEER_RESUMED", n, told, linked)
    <2>5. PICK others \in SetToSeqs(greeted) :
            down' = [Deliver(to) EXCEPT ![p] = Welcome(p, others)]
      BY <2>a
    <2> DEFINE t == Welcome(p, others)
    <2>6. to \in [Peers -> Seq(Messages)] /\ t \in Seq(Messages)
      BY <1>2, NotifyFacts, WelcomeFacts
    <2>7. n \in Session \ {0} /\ Enter(p, n)
      BY <1>2, <1>6
    <2> HIDE DEF to, t, n
    <2>8. /\ Deliver(to) \in [Peers -> Seq(Messages)]
          /\ \A d \in Peers : Deliver(to)[d] = IF client[d].phase = "lost" THEN <<>>
                                               ELSE down[d] \o to[d]
      BY <1>0, <2>6, DeliverEffects
    <2>9. down' = [Deliver(to) EXCEPT ![p] = t]
      BY <2>5 DEF t
    <2>10. /\ down' \in [Peers -> Seq(Messages)] /\ down'[p] = t
           /\ \A d \in Peers : d # p => down'[d] = IF client[d].phase = "lost" THEN <<>>
                                                   ELSE down[d] \o to[d]
      BY <2>6, <2>8, <2>9
    <2>11. TypeOK'
      <3>1. room' \in [Peers -> {"out", "offline", "online"}] /\ session' \in [Peers -> Session]
        BY <1>0, <2>7 DEF Enter
      <3> QED BY <1>0, <1>2, <1>4, <2>4, <2>10, <2>b, <2>c, <3>1 DEF TypeOK
    <2>12. <<>> \o t = t /\ <<>> \in Seq(Messages)
      BY <2>6
    <2>13. \A d \in Peers : d # p =>
             /\ client'[d] = client[d] /\ up'[d] = up[d] /\ conn'[d] = conn[d]
             /\ down'[d] = IF client[d].phase = "lost" THEN <<>>
                           ELSE down[d] \o Notify(p, "PEER_RESUMED", n, told, linked)[d]
      BY <1>4, <2>4, <2>10, <2>b DEF to
    <2>14. /\ conn'[p] /\ client'[p].phase \in {"asking", "lost"}
           /\ down'[p] = IF client'[p].phase = "lost" THEN <<>> ELSE <<>> \o Welcome(p, others)
           /\ \A q \in Peers : LinkInv(client'[p], q)
           /\ \A i \in DOMAIN up'[p] : up'[p][i].type # "JOIN"
      BY <1>4, <2>1, <2>4, <2>10, <2>12, <2>b DEF t
    <2>15. \A i \in DOMAIN <<>> : <<>>[i].type # "JOIN_RESP"
      BY NoMessages
    <2>16. "PEER_RESUMED" \in {"PEER_JOINED", "PEER_RESUMED"} /\ "PEER_RESUMED" # "PEER_JOINED"
      OBVIOUS
    <2>17. Enters(p, n, "PEER_RESUMED", told, linked, others, <<>>)
      BY <2>7, <2>13, <2>14, <2>a DEF Enters
    <2> QED BY <2>7, <2>11, <2>12, <2>15, <2>16, <2>17, EnterStep
  <1>7. CASE /\ room[p] # "out"
             /\ conn' = [conn EXCEPT ![p] = FALSE]
             /\ client' = [client EXCEPT ![p].phase = "asking"]
             /\ room' = [room EXCEPT ![p] = "offline"]
             /\ Refuses(TRUE)
             /\ UNCHANGED <<session, down, missed>>
    <2> DEFINE c == [e EXCEPT !.phase = "asking"]
    <2>1. c \in Clients /\ c.phase = "asking" /\ \A q \in Peers : LinkInv(c, q)
      BY <1>0, <1>a DEF Clients
    <2>2. client' = [client EXCEPT ![p] = c]
      BY <1>0, <1>7
    <2> HIDE DEF c
    <2>3. /\ client'[p] = c /\ \A d \in Peers : d # p => client'[d] = client[d]
          /\ client' \in [Peers -> Clients]
      BY <1>0, <2>1, <2>2
    <2>4. conn' \in [Peers -> BOOLEAN] /\ ~conn'[p] /\ \A d \in Peers : d # p => conn'[d] = conn[d]
      BY <1>3, <1>7
    <2>5. /\ room' \in [Peers -> {"out", "offline", "online"}] /\ room'[p] = "offline"
          /\ \A d \in Peers : d # p => room'[d] = room[d]
          /\ room[p] = "online" \/ room[p] = "offline"
      BY <1>0, <1>7
    <2>6. failures' \in 0 .. MaxFailures
      BY <1>0, <1>7, RefusesType
    <2>7. TypeOK'
      BY <1>0, <1>2, <1>4, <1>7, <2>3, <2>4, <2>5, <2>6 DEF TypeOK, missed
    <2>8. ConnInv(p)'
      BY <1>0, <1>4, <1>7, <2>1, <2>3, <2>4, <2>5 DEF ConnInv
    <2>9. JoinInv(p)'
      <3>1. DOMAIN down'[p] = {}
        BY <1>1, <1>7, NoMessages
      <3> QED BY <1>4, <2>5, <3>1 DEF JoinInv
    <2>10. \A q \in Peers : q # p => NewsInv(p, q)' /\ AskedInv(p, q)'
      BY <2>5 DEF NewsInv, AskedInv
    <2>11. /\ \A d \in Peers : d # p =>
                /\ client'[d] = client[d] /\ down'[d] = down[d] /\ up'[d] = up[d]
                /\ conn'[d] = conn[d] /\ room'[d] = room[d]
           /\ session' = session /\ missed' = missed
           /\ room'[p] = room[p] \/ (room[p] = "online" /\ room'[p] = "offline")
           /\ \A q \in Peers : LinkInv(client'[p], q)
      BY <1>4, <1>7, <2>1, <2>3, <2>4, <2>5
    <2> QED BY <2>7, <2>8, <2>9, <2>10, <2>11, OwnStep
  <1> QED BY <1>5, <1>6, <1>7 DEF Reconnect

-----------------------------------------------------------------------------
(* The theorems *)

\* Nobody is in the room at first.
LEMMA LinksInit == Init => LinksInv
  <1> SUFFICES ASSUME Init PROVE LinksInv
    OBVIOUS
  <1> DEFINE c == Teardown("lobby", FALSE)
  <1>1. TypeOK
    BY InitType
  <1>2. /\ c.phase = "lobby" /\ c.rebuild = {}
        /\ \A q \in Peers : c.known[q] = 0 /\ \A k \in Classes : c.link[q][k] = 0
    BY TeardownType
  <1>3. \A p \in Peers : conn[p]
    BY Zenon DEF Init
  <1>4. \A p \in Peers : /\ room[p] = "out" /\ client[p] = c /\ up[p] = <<>> /\ down[p] = <<>>
                         /\ DOMAIN up[p] = {} /\ DOMAIN down[p] = {}
    BY DEF Init
  <1> HIDE DEF c
  <1>5. \A p \in Peers : ConnInv(p) /\ JoinInv(p)
    BY <1>2, <1>3, <1>4 DEF ConnInv, JoinInv
  <1>6. \A p, q \in Peers : LinkInv(client[p], q)
    BY <1>2, <1>4 DEF LinkInv
  <1>7. \A p, q \in Peers : NewsInv(p, q) /\ AskedInv(p, q)
    BY <1>2, <1>4, NoMessages DEF NewsInv, AskedInv
  <1> QED BY <1>1, <1>5, <1>6, <1>7 DEF LinksInv

\* Every handler of a client and of the server preserves the invariant.
LEMMA LinksNext == LinksInv /\ [Next]_vars => LinksInv'
  <1> SUFFICES ASSUME LinksInv, [Next]_vars PROVE LinksInv'
    OBVIOUS
  <1>1. CASE UNCHANGED vars
    BY <1>1 DEF vars, missed, LinksInv, TypeOK, ConnInv, JoinInv, LinkInv, NewsInv, AskedInv, Truth
  <1>2. CASE Next
    <2>1. PICK p \in Peers :
            \/ Receive(p)
            \/ Serve(p)
            \/ CompleteRoomReadiness(p)
            \/ \E dead \in SUBSET (Peers \X Classes) : OnTransportsDead(p, dead)
            \/ JoinRoom(p)
            \/ LeaveRoom(p)
            \/ OnSignalDisconnected(p)
            \/ LeaseExpires(p)
            \/ RemoveClient(p)
            \/ Reconnect(p)
      BY <1>2 DEF Next
    <2>2. CASE Receive(p)
      BY <2>2, OnJoinResponseStep, OnPeerJoinedStep, OnPeerResumedStep, OnPeerLeftStep,
         OnRelayReadyStep DEF Receive
    <2>3. CASE Serve(p)
      BY <2>3, CompleteJoinStep, RollbackNewMembershipStep, OnRequestRelayStep,
         OnLeaveRoomStep DEF Serve
    <2>4. CASE CompleteRoomReadiness(p)
      BY <2>4, CompleteRoomReadinessStep
    <2>5. CASE \E dead \in SUBSET (Peers \X Classes) : OnTransportsDead(p, dead)
      BY <2>5, OnTransportsDeadStep
    <2>6. CASE JoinRoom(p)
      BY <2>6, JoinRoomStep
    <2>7. CASE LeaveRoom(p)
      BY <2>7, LeaveRoomStep
    <2>8. CASE OnSignalDisconnected(p)
      BY <2>8, OnSignalDisconnectedStep
    <2>9. CASE LeaseExpires(p)
      BY <2>9, LeaseExpiresStep
    <2>10. CASE RemoveClient(p)
      BY <2>10, RemoveClientStep
    <2>11. CASE Reconnect(p)
      BY <2>11, ReconnectStep
    <2> QED BY <2>1, <2>2, <2>3, <2>4, <2>5, <2>6, <2>7, <2>8, <2>9, <2>10, <2>11
  <1> QED BY <1>1, <1>2

\* The inductive invariant holds in every reachable state.
THEOREM LinksSafe == Spec => []LinksInv
  BY LinksInit, LinksNext, PTL DEF Spec

\* m_pendingRebuild is exact, for any number of members and classes: a link that
\* waits to be rebuilt is down, and no missing class of a member that is linked
\* in another class is forgotten.
THEOREM RebuildSafe == Spec => []RebuildExact
  <1>1. LinksInv => RebuildExact
    <2> SUFFICES ASSUME LinksInv, NEW p \in Peers, NEW q \in Peers
                 PROVE  LET c == client[p]
                            missing == {k \in Classes : c.link[q][k] = 0}
                            waiting == {k \in Classes : <<q, k>> \in c.rebuild}
                        IN  /\ waiting \subseteq missing
                            /\ missing # Classes => waiting = missing
                            /\ c.known[q] = 0 => missing = Classes /\ waiting = {}
      BY DEF RebuildExact, LinksInv
    <2>1. LinkInv(client[p], q)
      BY DEF LinksInv
    <2> QED BY <2>1 DEF LinkInv
  <1> QED BY <1>1, LinksSafe, PTL

\* A client that has read its messages knows exactly the members of the room,
\* each in its present session, and has no link to an earlier one, except for
\* members whose last news the server refused to send.
THEOREM MembersSafe == Spec => []MembersCurrent
  <1>1. LinksInv => MembersCurrent
    <2> SUFFICES ASSUME LinksInv, NEW p \in Peers, NEW q \in Peers, InRoom(p), q # p, q \notin unheard[p],
                        ~ \E i \in DOMAIN down[p] :
                            down[p][i].type \in News /\ down[p][i].peer = q
                 PROVE  /\ client[p].known[q] = IF room[q] = "out" THEN 0 ELSE session[q]
                        /\ \A k \in Classes : client[p].link[q][k] \in {0, session[q]}
      BY DEF MembersCurrent
    <2>1. client[p].phase = "ready" /\ room[p] = "online"
      BY DEF InRoom
    <2>2. \A i \in DOMAIN down[p] : down[p][i].type # "JOIN_RESP"
      BY <2>1 DEF LinksInv, JoinInv
    <2>3. Silent(down[p], q)
      BY <2>2 DEF Silent, Tells
    <2>4. NewsInv(p, q) /\ LinkInv(client[p], q)
      BY DEF LinksInv
    <2>5. client[p].known[q] = Truth(q)
      BY <2>1, <2>3, <2>4 DEF NewsInv, View
    <2> QED BY <2>4, <2>5 DEF Truth, LinkInv
  <1> QED BY <1>1, LinksSafe, PTL

\* A link that is missing between two members has been asked for, or news is on
\* the way that makes the client ask for it, unless the server refused the last
\* news of the member or the answer to the last request.
THEOREM AskedSafe == Spec => []MissingIsAskedFor
  <1>1. LinksInv => MissingIsAskedFor
    BY DEF LinksInv, MissingIsAskedFor, AskedInv, Asked, Wanted, InRoom
  <1> QED BY <1>1, LinksSafe, PTL

(***************************************************************************)
(*                    Part two: the quality of a path                      *)
(***************************************************************************)

-----------------------------------------------------------------------------
(* The inductive invariant *)

\* What the clock of the code shows t seconds after the peer joined.
Reading(t) == (Start + t) % ClockMod

\* A record of m_records.
Records == [sent : Int, replyAt : Int, state : States, committed : BOOLEAN, earlyReply : BOOLEAN]

\* The records a tracker keeps.
RecordMaps == UNION {[ids -> Records] : ids \in SUBSET Nat}

\* The members of a tracker.
Trackers ==
    [pathKind : Kinds \cup {NoPath}, enabled : BOOLEAN,
     records : RecordMaps, started : BOOLEAN, outage : BOOLEAN, queueSendFailure : BOOLEAN,
     transportSendFailure : BOOLEAN, hasReply : BOOLEAN, reference : Int,
     lastReply : Int, rtt : Int, recoveryReplies : 0..1]

\* A true time, if there is one.
Times == Nat \cup {Never}

\* The answers to the probes a tracker keeps.
AnswerMaps == UNION {[ids -> Times] : ids \in SUBSET Nat}

\* What really happened.
Histories ==
    [answered : AnswerMaps, heard : Times, raised : Times,
     answers : 0..2, watched : Times]

\* Every variable has its type, a path is enabled while it has a transport, and
\* a probe is handed over in the second it was begun in.
QualityTyped ==
    /\ clock \in 0..Horizon /\ due \in BOOLEAN /\ faults \in 0..MaxFaults
    /\ transport \in Kinds \cup {NoPath} /\ sending \in Times
    /\ quality \in Trackers /\ truth \in Histories
    /\ quality.enabled <=> transport # NoPath
    /\ sending # Never => sending = clock /\ ~due

\* The record that q keeps of the probe sent at id tells the truth.
RecordTrue(q, id) ==
    LET r == q.records[id]
        answered == truth.answered[id]
    IN  /\ id <= clock /\ (due => id < clock)
        /\ r.sent = Reading(id)
        /\ Since(id) <= WINDOW
        /\ r.state # "SendFailed" <=> id \in DOMAIN truth.answered
        /\ r.state = "Pending" =>
              /\ q.enabled
              /\ r.committed => /\ q.started /\ ~r.earlyReply
                                /\ answered = Never /\ Since(id) <= TIMEOUT
              /\ ~r.committed => id = sending
              /\ r.earlyReply => r.replyAt = Reading(clock) /\ answered = clock
              /\ ~r.earlyReply => answered = Never
        /\ r.state = "TimedOut" => answered = Never /\ Since(id) >= TIMEOUT
        /\ r.state = "Replied" =>
              /\ answered # Never /\ id <= answered /\ answered < id + TIMEOUT
              /\ truth.heard # Never /\ answered <= truth.heard

\* It is not too old: expire has nothing to do with it.
Young(q, id) ==
    /\ Since(id) < WINDOW
    /\ q.records[id].state = "Pending" /\ q.records[id].committed => Since(id) < TIMEOUT

\* Every record tells the truth, and is not too old once onLatencyUpdate ran;
\* the history speaks of no other probe.
RecordsTrue ==
    /\ \A id \in DOMAIN quality.records :
          RecordTrue(quality, id) /\ (~due => Young(quality, id))
    /\ DOMAIN truth.answered \subseteq DOMAIN quality.records

\* lastReply and rtt are those of the last answer.
HeardTrue ==
    /\ quality.hasReply <=> truth.heard # Never
    /\ quality.hasReply =>
          /\ quality.started
          /\ truth.heard <= clock /\ quality.lastReply = Reading(truth.heard)
          /\ Since(truth.heard) < TIMEOUT =>
                \E id \in Replied(quality) :
                    truth.answered[id] = truth.heard /\ quality.rtt = truth.heard - id

\* ref is the true time of reference: not before the last answer and, on a
\* path that is watched and not in an outage, recent and not later than the
\* last answer and the time since when the path has been watched.
ReferenceAt(ref) ==
    /\ ref <= clock /\ quality.reference = Reading(ref)
    /\ truth.heard # Never => truth.heard <= ref
    /\ Watched(quality) /\ ~quality.outage =>
          /\ ref <= truth.watched \/ (truth.heard # Never /\ ref <= truth.heard)
          /\ \/ Since(ref) <= TIMEOUT /\ (~due => Since(ref) < TIMEOUT)
             \/ Since(truth.watched) <= 1 /\ (~due => truth.watched = clock)

\* The path is watched when the history says so, and once it has started the
\* reading in reference is that of some true time.
ReferenceTrue ==
    /\ Watched(quality) <=> truth.watched # Never
    /\ truth.watched # Never => truth.watched <= clock
    /\ quality.started => \E ref \in Nat : ReferenceAt(ref)

\* The answers counted since the outage was raised were accepted since, and
\* while none counts every answer accepted since is older than TIMEOUT.
OutageTrue ==
    /\ quality.outage <=> truth.raised # Never
    /\ ~quality.outage \/ ~quality.hasReply => quality.recoveryReplies = 0
    /\ quality.outage =>
          /\ truth.raised <= clock
          /\ quality.recoveryReplies <= truth.answers
          /\ quality.recoveryReplies = 0 =>
                \A id \in Replied(quality) :
                    truth.answered[id] >= truth.raised => Since(truth.answered[id]) >= TIMEOUT

\* The inductive invariant.
QualityInv ==
    /\ QualityTyped /\ RecordsTrue /\ HeardTrue /\ ReferenceTrue
    /\ OutageTrue /\ RecoveryPrompt
-----------------------------------------------------------------------------
(* Types *)

\* The members of a record.
LEMMA RecordFields ==
    ASSUME NEW r \in Records
    PROVE  /\ r.sent \in Int /\ r.replyAt \in Int /\ r.state \in States
           /\ r.committed \in BOOLEAN /\ r.earlyReply \in BOOLEAN
  BY DEF Records

\* An assignment to a member of a record keeps its type.
LEMMA RecordSet ==
    ASSUME NEW r \in Records
    PROVE  /\ \A v \in Int : [r EXCEPT !.replyAt = v] \in Records
           /\ \A v \in States : [r EXCEPT !.state = v] \in Records
           /\ \A v \in BOOLEAN : /\ [r EXCEPT !.committed = v] \in Records
                                 /\ [r EXCEPT !.earlyReply = v] \in Records
  BY DEF Records

\* A settled record is a record.
LEMMA SettleTyped ==
    ASSUME NEW r \in Records, NEW state \in States
    PROVE  /\ Settle(r, state) \in Records
           /\ Settle(r, state).sent = r.sent /\ Settle(r, state).state = state
           /\ Settle(r, state).committed = FALSE /\ Settle(r, state).earlyReply = FALSE
<1>1. Settle(r, state) \in Records
  <2>1. [r EXCEPT !.state = state] \in Records
    BY RecordSet
  <2>2. [r EXCEPT !.state = state, !.replyAt = 0] \in Records
    <3>1. 0 \in Int
      OBVIOUS
    <3> QED
      BY <2>1, <3>1, RecordSet
  <2>3. [r EXCEPT !.state = state, !.replyAt = 0, !.committed = FALSE] \in Records
    BY <2>2, RecordSet
  <2>4. [r EXCEPT !.state = state, !.replyAt = 0, !.committed = FALSE,
                  !.earlyReply = FALSE] \in Records
    BY <2>3, RecordSet
  <2> QED
    BY <2>4 DEF Settle
<1>2. /\ Settle(r, state).sent = r.sent /\ Settle(r, state).state = state
      /\ Settle(r, state).committed = FALSE /\ Settle(r, state).earlyReply = FALSE
  BY DEF Settle, Records
<1> QED
  BY <1>1, <1>2

\* The members of a tracker.
LEMMA TrackerFields ==
    ASSUME NEW q \in Trackers
    PROVE  /\ q.pathKind \in Kinds \cup {NoPath} /\ q.enabled \in BOOLEAN
           /\ q.records \in RecordMaps /\ q.started \in BOOLEAN /\ q.outage \in BOOLEAN
           /\ q.queueSendFailure \in BOOLEAN /\ q.transportSendFailure \in BOOLEAN
           /\ q.hasReply \in BOOLEAN /\ q.reference \in Int /\ q.lastReply \in Int
           /\ q.rtt \in Int /\ q.recoveryReplies \in 0..1
  BY DEF Trackers

\* The records of a tracker are named by natural numbers.
LEMMA MapFields ==
    ASSUME NEW m \in RecordMaps
    PROVE  /\ DOMAIN m \subseteq Nat
           /\ \A id \in DOMAIN m : m[id] \in Records
           /\ \A r \in Records, id \in DOMAIN m :
                 /\ [m EXCEPT ![id] = r] \in RecordMaps
                 /\ DOMAIN [m EXCEPT ![id] = r] = DOMAIN m
                 /\ [m EXCEPT ![id] = r][id] = r
                 /\ \A i \in DOMAIN m : i # id => [m EXCEPT ![id] = r][i] = m[i]
<1>1. PICK ids \in SUBSET Nat : m \in [ids -> Records]
  BY DEF RecordMaps
<1>2. ASSUME NEW r \in Records, NEW id \in DOMAIN m
      PROVE  [m EXCEPT ![id] = r] \in RecordMaps
  <2>1. [m EXCEPT ![id] = r] \in [ids -> Records]
    BY <1>1
  <2> QED
    BY <2>1 DEF RecordMaps
<1> QED
  BY <1>1, <1>2

\* A function from natural numbers to records is one a tracker may keep.
LEMMA MapTyped ==
    ASSUME NEW ids \in SUBSET Nat, NEW m \in [ids -> Records]
    PROVE  m \in RecordMaps
  BY DEF RecordMaps

\* An assignment to a member of a tracker keeps its type.
LEMMA TrackerSet ==
    ASSUME NEW q \in Trackers
    PROVE  /\ \A v \in Kinds : [q EXCEPT !.pathKind = v] \in Trackers
           /\ \A v \in RecordMaps : [q EXCEPT !.records = v] \in Trackers
           /\ \A v \in Int : /\ [q EXCEPT !.reference = v] \in Trackers
                             /\ [q EXCEPT !.lastReply = v] \in Trackers
                             /\ [q EXCEPT !.rtt = v] \in Trackers
           /\ \A v \in 0..1 : [q EXCEPT !.recoveryReplies = v] \in Trackers
           /\ \A v \in BOOLEAN : /\ [q EXCEPT !.enabled = v] \in Trackers
                                 /\ [q EXCEPT !.started = v] \in Trackers
                                 /\ [q EXCEPT !.outage = v] \in Trackers
                                 /\ [q EXCEPT !.queueSendFailure = v] \in Trackers
                                 /\ [q EXCEPT !.transportSendFailure = v] \in Trackers
                                 /\ [q EXCEPT !.hasReply = v] \in Trackers
<1>1. /\ \A v \in Kinds : [q EXCEPT !.pathKind = v] \in Trackers
      /\ \A v \in RecordMaps : [q EXCEPT !.records = v] \in Trackers
  BY DEF Trackers
<1>2. ASSUME NEW v \in Int
      PROVE  /\ [q EXCEPT !.reference = v] \in Trackers
             /\ [q EXCEPT !.lastReply = v] \in Trackers
             /\ [q EXCEPT !.rtt = v] \in Trackers
  BY DEF Trackers
<1>3. \A v \in 0..1 : [q EXCEPT !.recoveryReplies = v] \in Trackers
  BY DEF Trackers
<1>4. ASSUME NEW v \in BOOLEAN
      PROVE  /\ [q EXCEPT !.enabled = v] \in Trackers
             /\ [q EXCEPT !.started = v] \in Trackers
             /\ [q EXCEPT !.outage = v] \in Trackers
  BY DEF Trackers
<1>5. ASSUME NEW v \in BOOLEAN
      PROVE  /\ [q EXCEPT !.queueSendFailure = v] \in Trackers
             /\ [q EXCEPT !.transportSendFailure = v] \in Trackers
             /\ [q EXCEPT !.hasReply = v] \in Trackers
  BY DEF Trackers
<1> QED
  BY <1>1, <1>2, <1>3, <1>4, <1>5
-----------------------------------------------------------------------------
(* Readings of the clock stand for true times *)

\* The remainder is what is left after a multiple of the divisor.
LEMMA QualityRemainder ==
    ASSUME NEW m \in Nat \ {0}, NEW k \in Int, NEW r \in 0..m-1
    PROVE  (m * k + r) % m = r
<1> DEFINE x == m * k + r
<1>1. x \in Int
  OBVIOUS
<1>2. /\ x % m \in 0..m-1 /\ x \div m \in Int
      /\ x = m * (x \div m) + (x % m)
  BY <1>1
<1>3. PICK l \in Int, s \in 0..m-1 : x % m = s /\ m * k + r = m * l + s
  BY <1>2
<1>4. m * (k - l) = s - r
  BY <1>3
<1>5. CASE k - l >= 1
  <2>1. m * (k - l) >= m
    BY <1>5
  <2> QED
    BY <2>1, <1>4
<1>6. CASE k - l <= -1
  <2>1. m * (k - l) <= -m
    BY <1>6
  <2> QED
    BY <2>1, <1>4
<1>7. CASE k = l
  BY <1>3, <1>4, <1>7
<1> QED
  BY <1>5, <1>6, <1>7

\* The unsigned difference of two readings is the true difference of their
\* times, reduced to the period of the clock.
LEMMA ReadingDifference ==
    ASSUME NEW a \in 0..Horizon, NEW b \in 0..Horizon
    PROVE  /\ Reading(a) \in Int /\ Reading(b) \in Int
           /\ Age(Reading(a), Reading(b)) = IF a >= b THEN a - b ELSE ClockMod - (b - a)
<1>1. ClockMod \in Nat \ {0} /\ Start \in Nat /\ Horizon \in Nat /\ 2 * Horizon < ClockMod
  BY ClockAssumption
<1>2. PICK k \in Int : Reading(a) \in Int /\ Start + a = ClockMod * k + Reading(a)
  <2>1. Start + a \in Int
    BY <1>1
  <2>2. /\ (Start + a) % ClockMod \in Int /\ (Start + a) \div ClockMod \in Int
        /\ Start + a = ClockMod * ((Start + a) \div ClockMod) + ((Start + a) % ClockMod)
    BY <1>1, <2>1
  <2> QED
    BY <2>2 DEF Reading
<1>3. PICK l \in Int : Reading(b) \in Int /\ Start + b = ClockMod * l + Reading(b)
  <2>1. Start + b \in Int
    BY <1>1
  <2>2. /\ (Start + b) % ClockMod \in Int /\ (Start + b) \div ClockMod \in Int
        /\ Start + b = ClockMod * ((Start + b) \div ClockMod) + ((Start + b) % ClockMod)
    BY <1>1, <2>1
  <2> QED
    BY <2>2 DEF Reading
<1>4. Reading(a) - Reading(b) = (a - b) + ClockMod * (l - k)
  <2>1. ClockMod * (l - k) = ClockMod * l - ClockMod * k
    BY <1>1
  <2>2. ClockMod * l \in Int /\ ClockMod * k \in Int
    BY <1>1
  <2>3. /\ Reading(a) = Start + a - ClockMod * k
        /\ Reading(b) = Start + b - ClockMod * l
    BY <1>1, <1>2, <1>3, <2>2
  <2> QED
    BY <1>1, <2>1, <2>2, <2>3
<1>5. CASE a >= b
  <2>1. a - b \in 0..ClockMod-1
    BY <1>1, <1>5
  <2>2. (ClockMod * (l - k) + (a - b)) % ClockMod = a - b
    BY <1>1, <2>1, QualityRemainder
  <2> QED
    BY <2>2, <1>2, <1>3, <1>4, <1>5, <1>1 DEF Age
<1>6. CASE a < b
  <2>1. ClockMod - (b - a) \in 0..ClockMod-1
    BY <1>1, <1>6
  <2>2. (ClockMod * (l - k - 1) + (ClockMod - (b - a))) % ClockMod = ClockMod - (b - a)
    <3>1. l - k - 1 \in Int
      OBVIOUS
    <3> QED
      BY <1>1, <2>1, <3>1, QualityRemainder
  <2>3. Reading(a) - Reading(b) = ClockMod * (l - k - 1) + (ClockMod - (b - a))
    BY <1>1, <1>4
  <2> QED
    BY <2>2, <2>3, <1>2, <1>3, <1>6, <1>1 DEF Age
<1> QED
  BY <1>5, <1>6, <1>1

\* What the code reads of two times is what they are, however the clock wrapped.
LEMMA ReadingsTrue ==
    ASSUME NEW a \in 0..Horizon, NEW b \in 0..Horizon
    PROVE  /\ a >= b => Age(Reading(a), Reading(b)) = a - b
           /\ NotBefore(Reading(a), Reading(b)) <=> a >= b
<1>1. ClockMod \in Nat /\ Horizon \in Nat /\ 2 * Horizon < ClockMod
  BY ClockAssumption
<1> QED
  BY <1>1, ReadingDifference DEF NotBefore
-----------------------------------------------------------------------------
(* What expire does, in true time *)

\* The probe sent at id is lost by now.
LostIn(q, id) ==
    q.records[id].state = "Pending" /\ q.records[id].committed /\ Since(id) >= TIMEOUT

\* A probe sent after the last answer is lost by now.
LossAfter(q, heard) ==
    \E id \in DOMAIN q.records : LostIn(q, id) /\ (heard = Never \/ id >= heard)

\* The path is watched and was last given a sign of life, at ref, too long ago.
SilentSince(q, ref) == Watched(q) /\ Since(ref) >= TIMEOUT

\* The times of q are readings of true times: heard that of the last answer, ref
\* that of reference, and a probe is named by its own.
Timed(q, heard, ref) ==
    /\ q \in Trackers
    /\ \A id \in DOMAIN q.records : id <= clock /\ q.records[id].sent = Reading(id)
    /\ heard \in Times /\ (q.hasReply <=> heard # Never)
    /\ q.hasReply => heard <= clock /\ q.lastReply = Reading(heard)
    /\ q.started => ref \in Nat /\ ref <= clock /\ q.reference = Reading(ref)

\* e is the tracker q after expire.
Expired(q, e, heard, ref) ==
    /\ e \in Trackers
    /\ e.pathKind = q.pathKind /\ e.enabled = q.enabled /\ e.started = q.started
    /\ e.queueSendFailure = q.queueSendFailure
    /\ e.transportSendFailure = q.transportSendFailure
    /\ e.hasReply = q.hasReply /\ e.reference = q.reference
    /\ e.lastReply = q.lastReply /\ e.rtt = q.rtt
    /\ DOMAIN e.records = {id \in DOMAIN q.records : Since(id) < WINDOW}
    /\ \A id \in DOMAIN e.records :
          e.records[id] = IF LostIn(q, id) THEN Settle(q.records[id], "TimedOut") ELSE q.records[id]
    /\ e.outage <=> q.outage \/ SilentSince(q, ref)
    /\ e.recoveryReplies = IF LossAfter(q, heard) \/ SilentSince(q, ref) THEN 0
                           ELSE q.recoveryReplies

\* expire computes in wrapped readings what it means in true time.
LEMMA ExpireTrue ==
    ASSUME NEW q, NEW heard, NEW ref, clock \in 0..Horizon, Timed(q, heard, ref)
    PROVE  Expired(q, Expire(q, Now), heard, ref)
<1> DEFINE e == Expire(q, Now)
           Late(r) == r.state = "Pending" /\ r.committed /\ Age(Now, r.sent) >= TIMEOUT
           kept == {id \in DOMAIN q.records :
                       \E first \in DOMAIN q.records :
                           first <= id /\ Age(Now, q.records[first].sent) < WINDOW}
           lost == \E id \in DOMAIN q.records :
                      /\ Late(q.records[id])
                      /\ ~q.hasReply \/ NotBefore(q.records[id].sent, q.lastReply)
           silent == /\ q.enabled /\ q.started /\ ~LocalFailure(q)
                     /\ Age(Now, q.reference) >= TIMEOUT
           marked == [id \in kept |-> IF Late(q.records[id]) THEN Settle(q.records[id], "TimedOut")
                                      ELSE q.records[id]]
<1>1. Horizon \in Nat /\ TIMEOUT \in Nat /\ WINDOW \in Nat /\ Now = Reading(clock)
  BY ClockAssumption DEF Now, Reading
<1>2. PICK ids \in SUBSET Nat : q.records \in [ids -> Records]
  BY DEF Timed, Trackers, RecordMaps
<1>3. \A id \in DOMAIN q.records :
         id \in 0..Horizon /\ id <= clock /\ Age(Now, q.records[id].sent) = Since(id)
  <2> TAKE id \in DOMAIN q.records
  <2>1. id \in Nat
    BY <1>2
  <2>2. id <= clock /\ q.records[id].sent = Reading(id)
    BY DEF Timed
  <2> QED
    BY <2>1, <2>2, <1>1, ReadingsTrue DEF Since
<1>4. \A id \in DOMAIN q.records : Late(q.records[id]) <=> LostIn(q, id)
  BY <1>3 DEF LostIn
<1>5. kept = {id \in DOMAIN q.records : Since(id) < WINDOW}
  <2>1. ASSUME NEW id \in DOMAIN q.records, Since(id) < WINDOW
        PROVE  id \in kept
    BY <2>1, <1>3
  <2>2. ASSUME NEW id \in kept
        PROVE  Since(id) < WINDOW
    <3>1. PICK first \in DOMAIN q.records : first <= id /\ Since(first) < WINDOW
      BY <1>3
    <3> QED
      BY <3>1, <1>3, <1>1 DEF Since
  <2> QED
    BY <2>1, <2>2
<1>6. lost <=> LossAfter(q, heard)
  <2>1. ASSUME NEW id \in DOMAIN q.records
        PROVE  (~q.hasReply \/ NotBefore(q.records[id].sent, q.lastReply))
               <=> (heard = Never \/ id >= heard)
    <3>1. CASE ~q.hasReply
      BY <3>1 DEF Timed
    <3>2. CASE q.hasReply
      <4>1. heard # Never /\ heard \in 0..Horizon /\ q.lastReply = Reading(heard)
        BY <3>2, <1>1 DEF Timed, Times
      <4>2. id \in 0..Horizon /\ q.records[id].sent = Reading(id)
        BY <1>3 DEF Timed
      <4> QED
        BY <3>2, <4>1, <4>2, ReadingsTrue
    <3> QED
      BY <3>1, <3>2
  <2> QED
    BY <2>1, <1>4 DEF LossAfter
<1>7. silent <=> SilentSince(q, ref)
  <2>1. CASE q.started
    <3>1. ref \in 0..Horizon /\ ref <= clock /\ q.reference = Reading(ref)
      BY <2>1, <1>1 DEF Timed
    <3>2. Age(Now, q.reference) = Since(ref)
      BY <3>1, <1>1, ReadingsTrue DEF Since
    <3> QED
      BY <3>2 DEF SilentSince, Watched
  <2>2. CASE ~q.started
    BY <2>2 DEF SilentSince, Watched
  <2> QED
    BY <2>1, <2>2
<1>8. e = [q EXCEPT !.records = marked, !.outage = @ \/ silent,
                    !.recoveryReplies = IF lost \/ silent THEN 0 ELSE @]
  BY DEF Expire
<1>9. marked \in RecordMaps
  <2>1. \A id \in kept : marked[id] \in Records
    <3>1. "TimedOut" \in States
      BY DEF States
    <3> QED
      BY <1>2, <3>1, SettleTyped
  <2>2. kept \in SUBSET Nat
    BY <1>2
  <2>3. marked \in [kept -> Records]
    BY <2>1
  <2> QED
    BY <2>2, <2>3 DEF RecordMaps
<1>10. q \in Trackers
  BY DEF Timed
<1> HIDE DEF marked, silent, lost, e
<1>11. /\ e \in Trackers
       /\ e.pathKind = q.pathKind /\ e.enabled = q.enabled /\ e.started = q.started
       /\ e.queueSendFailure = q.queueSendFailure
       /\ e.transportSendFailure = q.transportSendFailure
       /\ e.hasReply = q.hasReply /\ e.reference = q.reference
       /\ e.lastReply = q.lastReply /\ e.rtt = q.rtt
       /\ e.records = marked
       /\ e.outage = (q.outage \/ silent)
       /\ e.recoveryReplies = IF lost \/ silent THEN 0 ELSE q.recoveryReplies
  <2>1. silent \in BOOLEAN /\ lost \in BOOLEAN
    BY DEF silent, lost
  <2>2. /\ e.pathKind = q.pathKind /\ e.enabled = q.enabled /\ e.started = q.started
        /\ e.queueSendFailure = q.queueSendFailure
        /\ e.transportSendFailure = q.transportSendFailure
        /\ e.hasReply = q.hasReply /\ e.reference = q.reference
        /\ e.lastReply = q.lastReply /\ e.rtt = q.rtt
    BY <1>8, <1>10 DEF Trackers
  <2>3. e.records = marked
    BY <1>8, <1>10 DEF Trackers
  <2>4. e.outage = (q.outage \/ silent)
    BY <1>8, <1>10 DEF Trackers
  <2>5. e.recoveryReplies = IF lost \/ silent THEN 0 ELSE q.recoveryReplies
    BY <1>8, <1>10 DEF Trackers
  <2>6. e \in Trackers
    <3>1. [q EXCEPT !.records = marked] \in Trackers
      BY <1>9, <1>10, TrackerSet
    <3>2. q.outage \/ silent \in BOOLEAN
      BY <1>10, <2>1, TrackerFields
    <3>3. [q EXCEPT !.records = marked, !.outage = q.outage \/ silent] \in Trackers
      BY <3>1, <3>2, TrackerSet
    <3>4. (IF lost \/ silent THEN 0 ELSE q.recoveryReplies) \in 0..1
      BY <1>10, TrackerFields
    <3>5. e = [[q EXCEPT !.records = marked, !.outage = q.outage \/ silent] EXCEPT
                  !.recoveryReplies = IF lost \/ silent THEN 0 ELSE q.recoveryReplies]
      BY <1>8, <1>10 DEF Trackers
    <3> QED
      BY <3>3, <3>4, <3>5, TrackerSet
  <2> QED
    BY <2>2, <2>3, <2>4, <2>5, <2>6
<1>12. DOMAIN e.records = {id \in DOMAIN q.records : Since(id) < WINDOW}
  BY <1>11, <1>5 DEF marked
<1>13. \A id \in DOMAIN e.records :
          e.records[id] = IF LostIn(q, id) THEN Settle(q.records[id], "TimedOut") ELSE q.records[id]
  BY <1>11, <1>12, <1>4, <1>5 DEF marked
<1>14. e.outage <=> q.outage \/ SilentSince(q, ref)
  BY <1>11, <1>7
<1>15. e.recoveryReplies = IF LossAfter(q, heard) \/ SilentSince(q, ref) THEN 0
                           ELSE q.recoveryReplies
  BY <1>11, <1>6, <1>7
<1> QED
  BY <1>11, <1>12, <1>13, <1>14, <1>15 DEF Expired, e
-----------------------------------------------------------------------------
(* What the other calls of the tracker do *)

\* f is the tracker q after the answer to the probe id was accepted at now.
Accepted(q, f, id, now) ==
    /\ f \in Trackers
    /\ f.pathKind = q.pathKind /\ f.enabled = q.enabled /\ f.started = q.started
    /\ f.queueSendFailure = q.queueSendFailure
    /\ f.transportSendFailure = q.transportSendFailure
    /\ DOMAIN f.records = DOMAIN q.records
    /\ f.records[id] = Settle(q.records[id], "Replied")
    /\ \A i \in DOMAIN q.records : i # id => f.records[i] = q.records[i]
    /\ f.rtt = Age(now, q.records[id].sent)
    /\ f.hasReply = TRUE /\ f.lastReply = now /\ f.reference = now
    /\ f.outage <=> q.outage /\ q.recoveryReplies = 0
    /\ f.recoveryReplies = IF ~q.outage THEN q.recoveryReplies
                           ELSE IF q.recoveryReplies = 0 THEN 1 ELSE 0

\* What acceptReply does to the members.
LEMMA AcceptFields ==
    ASSUME NEW q \in Trackers, NEW id \in DOMAIN q.records, NEW now \in Int,
           Age(now, q.records[id].sent) \in Int
    PROVE  Accepted(q, AcceptReply(q, id, now), id, now)
<1> DEFINE f == AcceptReply(q, id, now)
           recovered == q.outage /\ q.recoveryReplies + 1 >= 2
           m == [q.records EXCEPT ![id] = Settle(q.records[id], "Replied")]
           age == Age(now, q.records[id].sent)
           o == q.outage /\ ~recovered
           n == IF ~q.outage THEN q.recoveryReplies
                ELSE IF recovered THEN 0 ELSE q.recoveryReplies + 1
<1>1. q.records \in RecordMaps /\ q.outage \in BOOLEAN /\ q.recoveryReplies \in 0..1
  BY TrackerFields
<1>2. Settle(q.records[id], "Replied") \in Records
  <2>1. q.records[id] \in Records /\ "Replied" \in States
    BY <1>1, MapFields DEF States
  <2> QED
    BY <2>1, SettleTyped
<1>3. /\ m \in RecordMaps /\ DOMAIN m = DOMAIN q.records
      /\ m[id] = Settle(q.records[id], "Replied")
      /\ \A i \in DOMAIN q.records : i # id => m[i] = q.records[i]
  BY <1>1, <1>2, MapFields
<1>4. o \in BOOLEAN /\ n \in 0..1 /\ (o <=> q.outage /\ q.recoveryReplies = 0)
      /\ n = IF ~q.outage THEN q.recoveryReplies
             ELSE IF q.recoveryReplies = 0 THEN 1 ELSE 0
  BY <1>1
<1>5. f = [q EXCEPT !.records = m, !.rtt = age, !.hasReply = TRUE, !.lastReply = now,
                    !.reference = now, !.outage = o, !.recoveryReplies = n]
  <2>1. f = [q EXCEPT !.records[id] = Settle(@, "Replied"), !.rtt = age, !.hasReply = TRUE,
                      !.lastReply = now, !.reference = now, !.outage = @ /\ ~recovered,
                      !.recoveryReplies = IF ~q.outage THEN @
                                          ELSE IF recovered THEN 0 ELSE @ + 1]
    BY DEF AcceptReply
  <2> QED
    BY <2>1 DEF Trackers
<1> HIDE DEF f, m, age, o, n
<1>6. f \in Trackers
  <2>1. [q EXCEPT !.records = m] \in Trackers
    BY <1>3, TrackerSet
  <2>2. [q EXCEPT !.records = m, !.rtt = age] \in Trackers
    BY <2>1, TrackerSet DEF age
  <2>3. [q EXCEPT !.records = m, !.rtt = age, !.hasReply = TRUE] \in Trackers
    BY <2>2, TrackerSet
  <2>4. [q EXCEPT !.records = m, !.rtt = age, !.hasReply = TRUE, !.lastReply = now] \in Trackers
    BY <2>3, TrackerSet
  <2>5. [q EXCEPT !.records = m, !.rtt = age, !.hasReply = TRUE, !.lastReply = now,
                  !.reference = now] \in Trackers
    BY <2>4, TrackerSet
  <2>6. [q EXCEPT !.records = m, !.rtt = age, !.hasReply = TRUE, !.lastReply = now,
                  !.reference = now, !.outage = o] \in Trackers
    BY <2>5, <1>4, TrackerSet
  <2>7. [q EXCEPT !.records = m, !.rtt = age, !.hasReply = TRUE, !.lastReply = now,
                  !.reference = now, !.outage = o, !.recoveryReplies = n] \in Trackers
    BY <2>6, <1>4, TrackerSet
  <2> QED
    BY <1>5, <2>7
<1>7. /\ f.pathKind = q.pathKind /\ f.enabled = q.enabled /\ f.started = q.started
      /\ f.queueSendFailure = q.queueSendFailure
      /\ f.transportSendFailure = q.transportSendFailure
  BY <1>5 DEF Trackers
<1>8. /\ f.records = m /\ f.rtt = age /\ f.hasReply = TRUE /\ f.lastReply = now
      /\ f.reference = now /\ f.outage = o /\ f.recoveryReplies = n
  BY <1>5 DEF Trackers
<1> QED
  BY <1>3, <1>4, <1>6, <1>7, <1>8 DEF Accepted, f, age

\* f is the tracker q with the records m, the reference r, the two failure
\* flags a and b, and started s.
Patched(q, f, m, r, a, b, s) ==
    /\ f \in Trackers
    /\ f.pathKind = q.pathKind /\ f.enabled = q.enabled /\ f.started = s
    /\ f.queueSendFailure = a /\ f.transportSendFailure = b
    /\ f.records = m /\ f.reference = r
    /\ f.rtt = q.rtt /\ f.hasReply = q.hasReply /\ f.lastReply = q.lastReply
    /\ f.outage = q.outage /\ f.recoveryReplies = q.recoveryReplies

\* A call that replaces the records changes nothing else.
LEMMA PatchRecords ==
    ASSUME NEW q \in Trackers, NEW m \in RecordMaps
    PROVE  Patched(q, [q EXCEPT !.records = m], m, q.reference, q.queueSendFailure,
                   q.transportSendFailure, q.started)
<1>1. [q EXCEPT !.records = m] \in Trackers
  BY TrackerSet
<1> QED
  BY <1>1 DEF Patched, Trackers

\* A probe the queue refused (completeSend) changes its record and the mark of
\* the failure only.
LEMMA PatchQueue ==
    ASSUME NEW q \in Trackers, NEW m \in RecordMaps, NEW a \in BOOLEAN
    PROVE  Patched(q, [q EXCEPT !.queueSendFailure = a, !.records = m], m, q.reference,
                   a, q.transportSendFailure, q.started)
<1>1. [q EXCEPT !.queueSendFailure = a] \in Trackers
  BY TrackerSet
<1>2. [q EXCEPT !.queueSendFailure = a, !.records = m] \in Trackers
  BY <1>1, TrackerSet
<1> QED
  BY <1>2 DEF Patched, Trackers

\* A datagram the socket refused (reportTransportSend) changes the records and
\* the mark of the failure only.
LEMMA PatchTransport ==
    ASSUME NEW q \in Trackers, NEW m \in RecordMaps, NEW b \in BOOLEAN
    PROVE  Patched(q, [q EXCEPT !.transportSendFailure = b, !.records = m], m, q.reference,
                   q.queueSendFailure, b, q.started)
<1>1. [q EXCEPT !.transportSendFailure = b] \in Trackers
  BY TrackerSet
<1>2. [q EXCEPT !.transportSendFailure = b, !.records = m] \in Trackers
  BY <1>1, TrackerSet
<1> QED
  BY <1>2 DEF Patched, Trackers

\* A datagram the socket took (reportTransportSend) changes the mark of the
\* failure and the time of reference only.
LEMMA PatchReference ==
    ASSUME NEW q \in Trackers, NEW r \in Int, NEW b \in BOOLEAN
    PROVE  Patched(q, [q EXCEPT !.transportSendFailure = b, !.reference = r], q.records, r,
                   q.queueSendFailure, b, q.started)
<1>1. [q EXCEPT !.transportSendFailure = b] \in Trackers
  BY TrackerSet
<1>2. [q EXCEPT !.transportSendFailure = b, !.reference = r] \in Trackers
  BY <1>1, TrackerSet
<1> QED
  BY <1>2 DEF Patched, Trackers

\* A probe that was handed over (completeSend) changes its record, the mark of
\* the failure, whether the path has started, and the time of reference only.
LEMMA PatchCommit ==
    ASSUME NEW q \in Trackers, NEW m \in RecordMaps, NEW r \in Int,
           NEW a \in BOOLEAN, NEW s \in BOOLEAN
    PROVE  Patched(q, [q EXCEPT !.queueSendFailure = a, !.records = m, !.started = s,
                                !.reference = r], m, r, a, q.transportSendFailure, s)
<1>1. [q EXCEPT !.queueSendFailure = a] \in Trackers
  BY TrackerSet
<1>2. [q EXCEPT !.queueSendFailure = a, !.records = m] \in Trackers
  BY <1>1, TrackerSet
<1>3. [q EXCEPT !.queueSendFailure = a, !.records = m, !.started = s] \in Trackers
  BY <1>2, TrackerSet
<1>4. [q EXCEPT !.queueSendFailure = a, !.records = m, !.started = s, !.reference = r] \in Trackers
  BY <1>3, TrackerSet
<1> QED
  BY <1>4 DEF Patched, Trackers
-----------------------------------------------------------------------------
(* What the history remembers *)

\* The fields of a history have their types.
LEMMA HistoryFields ==
    ASSUME NEW t \in Histories
    PROVE  /\ t.heard \in Times /\ t.raised \in Times /\ t.answers \in 0..2 /\ t.watched \in Times
           /\ DOMAIN t.answered \subseteq Nat
           /\ \A id \in DOMAIN t.answered : t.answered[id] \in Times
<1>1. t.answered \in AnswerMaps /\ t.heard \in Times /\ t.raised \in Times
      /\ t.answers \in 0..2 /\ t.watched \in Times
  BY DEF Histories
<1>2. PICK ids \in SUBSET Nat : t.answered \in [ids -> Times]
  BY <1>1 DEF AnswerMaps
<1> QED
  BY <1>1, <1>2

\* The history after a call that turns the tracker into q.
Remembered(q, arrived) ==
    /\ truth' \in Histories
    /\ DOMAIN truth'.answered = In(q, States \ {"SendFailed"})
    /\ \A id \in DOMAIN truth'.answered :
          truth'.answered[id] =
              IF id \in DOMAIN truth.answered /\ truth.answered[id] # Never
              THEN truth.answered[id]
              ELSE IF id = arrived /\ Since(id) < TIMEOUT THEN clock ELSE Never
    /\ truth'.raised = IF ~q.outage THEN Never
                       ELSE IF quality.outage THEN truth.raised ELSE clock
    /\ truth'.watched = IF ~Watched(q) THEN Never
                        ELSE IF truth.watched # Never THEN truth.watched ELSE clock

\* No answer was accepted.
Unanswered(q) ==
    /\ truth'.heard = IF ~q.hasReply THEN Never ELSE truth.heard
    /\ truth'.answers = IF quality.outage /\ q.hasReply THEN truth.answers ELSE 0

\* The answer to the probe id was accepted.
Answered(q, id) ==
    /\ truth'.heard = IF ~q.hasReply THEN Never ELSE truth'.answered[id]
    /\ truth'.answers = IF ~(quality.outage /\ q.hasReply) THEN 1
                        ELSE IF truth.answers = 2 THEN 2 ELSE truth.answers + 1

\* What Remember does to the history: after a call that accepts no answer, and
\* after one that accepts the answer to one probe.
LEMMA RememberFields ==
    ASSUME NEW q \in Trackers, NEW arrived, QualityTyped, Remember(q, arrived)
    PROVE  /\ Remembered(q, arrived)
           /\ Replied(q) \subseteq Replied(quality) => Unanswered(q)
           /\ \A id : Replied(q) \ Replied(quality) = {id} => Answered(q, id)
<1> DEFINE ids == In(q, States \ {"SendFailed"})
           answered == [id \in ids |->
                           IF id \in DOMAIN truth.answered /\ truth.answered[id] # Never
                           THEN truth.answered[id]
                           ELSE IF id = arrived /\ Since(id) < TIMEOUT THEN clock ELSE Never]
           new == Replied(q) \ Replied(quality)
           before == IF quality.outage /\ q.hasReply THEN truth.answers ELSE 0
           heard == IF ~q.hasReply THEN Never
                    ELSE IF new = {} THEN truth.heard
                    ELSE answered[CHOOSE id \in new : TRUE]
           raised == IF ~q.outage THEN Never
                     ELSE IF quality.outage THEN truth.raised ELSE clock
           answers == IF new = {} \/ before = 2 THEN before ELSE before + 1
           watched == IF ~Watched(q) THEN Never
                      ELSE IF truth.watched # Never THEN truth.watched ELSE clock
<1>1. truth' = [answered |-> answered, heard |-> heard, raised |-> raised,
                answers |-> answers, watched |-> watched]
  BY DEF Remember, Since
<1>2. /\ truth.heard \in Times /\ truth.raised \in Times /\ truth.answers \in 0..2
      /\ truth.watched \in Times /\ clock \in Times /\ Never \in Times
      /\ \A id \in DOMAIN truth.answered : truth.answered[id] \in Times
  BY HistoryFields, ClockAssumption DEF QualityTyped, Times
<1>3. ids \in SUBSET Nat
  BY TrackerFields, MapFields DEF In
<1>4. answered \in [ids -> Times]
  BY <1>2
<1>5. answered \in AnswerMaps
  BY <1>3, <1>4 DEF AnswerMaps
<1>6. Replied(q) \subseteq ids
  BY DEF Replied, In, States
<1>7. heard \in Times
  <2>1. CASE ~q.hasReply
    BY <2>1, <1>2
  <2>2. CASE q.hasReply /\ new = {}
    BY <2>2, <1>2
  <2>3. CASE q.hasReply /\ new # {}
    <3>1. (CHOOSE id \in new : TRUE) \in new
      BY <2>3
    <3>2. answered[CHOOSE id \in new : TRUE] \in Times
      BY <3>1, <1>4, <1>6
    <3> QED
      BY <2>3, <3>2
  <2> QED
    BY <2>1, <2>2, <2>3
<1>8. before \in 0..2
  BY <1>2
<1>9. answers \in 0..2
  BY <1>8
<1>10. raised \in Times /\ watched \in Times
  BY <1>2
<1> HIDE DEF answered, heard, raised, answers, watched
<1>11. truth' \in Histories
  BY <1>1, <1>5, <1>7, <1>9, <1>10 DEF Histories
<1>12. /\ truth'.answered = answered /\ truth'.heard = heard /\ truth'.raised = raised
       /\ truth'.answers = answers /\ truth'.watched = watched
  BY <1>1
<1>13. Remembered(q, arrived)
  BY <1>11, <1>12 DEF Remembered, answered, raised, watched
<1>14. ASSUME Replied(q) \subseteq Replied(quality)
       PROVE  Unanswered(q)
  <2>1. new = {}
    BY <1>14
  <2> QED
    BY <2>1, <1>12 DEF Unanswered, heard, answers
<1>15. ASSUME NEW id, new = {id}
       PROVE  Answered(q, id)
  <2>1. new # {} /\ (CHOOSE i \in new : TRUE) = id
    BY <1>15
  <2>2. truth'.heard = IF ~q.hasReply THEN Never ELSE truth'.answered[id]
    BY <2>1, <1>12 DEF heard
  <2>3. truth'.answers = IF ~(quality.outage /\ q.hasReply) THEN 1
                        ELSE IF truth.answers = 2 THEN 2 ELSE truth.answers + 1
    BY <2>1, <1>12, <1>2 DEF answers
  <2> QED
    BY <2>2, <2>3 DEF Answered
<1> QED
  BY <1>13, <1>14, <1>15
-----------------------------------------------------------------------------
(* What a call keeps true *)

\* The outage flag and the count of answers are as before, or are those of an
\* expire that noticed a loss or silence.
OutageFollows(outage, replies) ==
    \/ outage = quality.outage /\ replies = quality.recoveryReplies
    \/ /\ replies = 0 /\ (quality.outage => outage)
       /\ truth.heard = Never \/ Since(truth.heard) >= TIMEOUT

\* The facts about types and constants that every step below needs.
LEMMA InvFields ==
    ASSUME QualityInv
    PROVE  /\ clock \in 0..Horizon /\ clock \in Nat /\ Horizon \in Nat /\ due \in BOOLEAN
           /\ TIMEOUT \in Nat /\ TIMEOUT > 0 /\ WINDOW \in Nat /\ 2 * TIMEOUT < WINDOW
           /\ quality \in Trackers /\ quality.outage \in BOOLEAN /\ quality.hasReply \in BOOLEAN
           /\ quality.started \in BOOLEAN /\ quality.enabled \in BOOLEAN
           /\ quality.recoveryReplies \in 0..1
           /\ truth.heard \in Times /\ truth.raised \in Times /\ truth.answers \in 0..2
           /\ truth.watched \in Times
           /\ \A t \in Times : t # Never => t \in Nat
           /\ \A id \in DOMAIN quality.records : id \in Nat /\ quality.records[id] \in Records
           /\ \A id \in DOMAIN truth.answered : id \in Nat /\ truth.answered[id] \in Times
<1>1. QualityTyped
  BY DEF QualityInv
<1>2. clock \in 0..Horizon /\ due \in BOOLEAN /\ quality \in Trackers /\ truth \in Histories
  BY <1>1 DEF QualityTyped
<1>3. Horizon \in Nat /\ TIMEOUT \in Nat /\ TIMEOUT > 0 /\ WINDOW \in Nat /\ 2 * TIMEOUT < WINDOW
  BY ClockAssumption
<1>4. quality.records \in RecordMaps /\ quality.outage \in BOOLEAN /\ quality.hasReply \in BOOLEAN
      /\ quality.started \in BOOLEAN /\ quality.enabled \in BOOLEAN
      /\ quality.recoveryReplies \in 0..1
  BY <1>2, TrackerFields
<1>5. \A id \in DOMAIN quality.records : id \in Nat /\ quality.records[id] \in Records
  BY <1>4, MapFields
<1>6. \A id \in DOMAIN truth.answered : id \in Nat /\ truth.answered[id] \in Times
  BY <1>2, HistoryFields
<1>7. /\ truth.heard \in Times /\ truth.raised \in Times /\ truth.answers \in 0..2
      /\ truth.watched \in Times
  BY <1>2, HistoryFields
<1> QED
  BY <1>2, <1>3, <1>4, <1>5, <1>6, <1>7 DEF Times

\* An answered probe keeps the time of its answer.
LEMMA AnswersKept ==
    ASSUME QualityInv, NEW q \in Trackers, NEW arrived, Remembered(q, arrived),
           NEW id \in Replied(q), id \in Replied(quality)
    PROVE  /\ truth'.answered[id] = truth.answered[id]
           /\ truth.answered[id] \in Nat /\ id \in Nat
           /\ id <= truth.answered[id] /\ truth.answered[id] < id + TIMEOUT
           /\ truth.heard \in Nat /\ truth.heard # Never /\ truth.answered[id] <= truth.heard
<1>1. id \in DOMAIN quality.records /\ quality.records[id].state = "Replied"
  BY DEF Replied, In
<1>2. RecordTrue(quality, id)
  BY <1>1 DEF QualityInv, RecordsTrue
<1>3. id \in DOMAIN truth.answered /\ truth.answered[id] # Never
      /\ id <= truth.answered[id] /\ truth.answered[id] < id + TIMEOUT
      /\ truth.heard # Never /\ truth.answered[id] <= truth.heard
  BY <1>1, <1>2 DEF RecordTrue
<1>4. id \in DOMAIN truth'.answered
  BY DEF Replied, In, Remembered, States
<1> QED
  BY <1>3, <1>4, InvFields DEF Remembered

\* A call that accepts no answer keeps what is true of the outage.
LEMMA OutageKept ==
    ASSUME QualityInv, NEW q \in Trackers, NEW arrived, clock' = clock, quality' = q,
           Remembered(q, arrived), Unanswered(q), Replied(q) \subseteq Replied(quality),
           q.hasReply = quality.hasReply, OutageFollows(q.outage, q.recoveryReplies)
    PROVE  OutageTrue' /\ RecoveryPrompt'
<1> USE InvFields
<1>1. q.outage \in BOOLEAN /\ q.recoveryReplies \in 0..1 /\ q.hasReply \in BOOLEAN
  BY TrackerFields
<1>2. OutageTrue /\ RecoveryPrompt /\ HeardTrue
  BY DEF QualityInv
<1>3. \A id \in Replied(q) :
         /\ truth'.answered[id] = truth.answered[id] /\ truth.answered[id] \in Nat
         /\ truth.heard \in Nat /\ truth.heard # Never /\ truth.answered[id] <= truth.heard
         /\ id \in Replied(quality)
  BY AnswersKept
<1>4. /\ truth'.raised = IF ~q.outage THEN Never
                         ELSE IF quality.outage THEN truth.raised ELSE clock
      /\ truth'.answers = IF quality.outage /\ q.hasReply THEN truth.answers ELSE 0
      /\ Never \notin Int
  BY PathAssumption DEF Remembered, Unanswered
<1>5. \A id \in Replied(q) : \/ q.outage = quality.outage
                             \/ truth'.answered[id] < clock
  BY <1>3 DEF OutageFollows, Since
<1>6. OutageTrue'
  <2>1. (quality.outage <=> truth.raised # Never)'
    BY <1>1, <1>2, <1>4 DEF OutageTrue
  <2>2. (~quality.outage \/ ~quality.hasReply => quality.recoveryReplies = 0)'
    BY <1>1, <1>2 DEF OutageTrue, OutageFollows
  <2>3. (quality.outage => truth.raised <= clock)'
    BY <1>1, <1>2, <1>4 DEF OutageTrue
  <2>4. (quality.outage => quality.recoveryReplies <= truth.answers)'
    <3>1. CASE q.outage = quality.outage /\ q.recoveryReplies = quality.recoveryReplies
      BY <3>1, <1>1, <1>2, <1>4 DEF OutageTrue
    <3>2. CASE q.recoveryReplies = 0
      BY <3>2, <1>1, <1>4
    <3> QED
      BY <3>1, <3>2 DEF OutageFollows
  <2>5. ASSUME q.outage, q.recoveryReplies = 0, NEW id \in Replied(q),
               truth'.answered[id] >= truth'.raised
        PROVE  clock - truth'.answered[id] >= TIMEOUT
    <3>1. CASE truth.heard = Never \/ Since(truth.heard) >= TIMEOUT
      BY <3>1, <1>3 DEF Since
    <3>2. CASE q.outage = quality.outage /\ q.recoveryReplies = quality.recoveryReplies
      BY <3>2, <2>5, <1>2, <1>3, <1>4 DEF OutageTrue, Since
    <3> QED
      BY <3>1, <3>2 DEF OutageFollows
  <2>6. (quality.outage /\ quality.recoveryReplies = 0 =>
           \A id \in Replied(quality) :
              truth.answered[id] >= truth.raised => Since(truth.answered[id]) >= TIMEOUT)'
    BY <2>5 DEF Since, Replied, In
  <2> QED
    BY <2>1, <2>2, <2>3, <2>4, <2>6 DEF OutageTrue
<1>7. RecoveryPrompt'
  <2>1. ASSUME q.outage, NEW a \in Replied(q), NEW b \in Replied(q), a # b,
               truth'.answered[a] >= truth'.raised, truth'.answered[b] >= truth'.raised
        PROVE  \/ truth'.answered[b] - truth'.answered[a] >= TIMEOUT
               \/ truth'.answered[a] - truth'.answered[b] >= TIMEOUT
    <3>1. quality.outage /\ truth'.raised = truth.raised
      <4>1. CASE ~quality.outage
        <5>1. truth'.raised = clock /\ truth'.answered[a] < clock /\ truth'.answered[a] \in Nat
          BY <4>1, <2>1, <1>1, <1>3, <1>4, <1>5
        <5> QED
          BY <5>1, <2>1
      <4>2. CASE quality.outage
        BY <4>2, <2>1, <1>4
      <4> QED
        BY <4>1, <4>2
    <3> QED
      BY <3>1, <2>1, <1>2, <1>3 DEF RecoveryPrompt
  <2> QED
    BY <2>1 DEF RecoveryPrompt, Replied, In
<1> QED
  BY <1>6, <1>7

\* A call that accepts no answer keeps what is true of the last one.
LEMMA HeardKept ==
    ASSUME QualityInv, NEW q \in Trackers, NEW arrived, clock' = clock, quality' = q,
           Remembered(q, arrived), Unanswered(q), q.hasReply = quality.hasReply,
           q.lastReply = quality.lastReply, q.rtt = quality.rtt, quality.started => q.started,
           \A id \in Replied(quality) : Since(id) < WINDOW => id \in Replied(q)
    PROVE  HeardTrue'
<1> USE InvFields
<1>1. HeardTrue
  BY DEF QualityInv
<1>2. (quality.hasReply <=> truth.heard # Never)'
  BY <1>1 DEF HeardTrue, Unanswered
<1>3. ASSUME quality.hasReply
      PROVE  q.started /\ truth'.heard = truth.heard /\ truth.heard # Never
             /\ truth.heard \in Nat /\ truth'.heard <= clock
             /\ q.lastReply = Reading(truth'.heard)
  BY <1>1, <1>3 DEF HeardTrue, Unanswered
<1>4. ASSUME quality.hasReply, Since(truth.heard) < TIMEOUT
      PROVE  \E id \in Replied(q) :
                 truth'.answered[id] = truth.heard /\ q.rtt = truth.heard - id
  <2>1. PICK id \in Replied(quality) :
             truth.answered[id] = truth.heard /\ quality.rtt = truth.heard - id
    BY <1>4, <1>1 DEF HeardTrue
  <2>2. RecordTrue(quality, id) /\ id \in Nat /\ quality.records[id].state = "Replied"
    BY DEF QualityInv, RecordsTrue, Replied, In
  <2>3. Since(id) < WINDOW
    BY <2>1, <2>2, <1>3, <1>4 DEF RecordTrue, Since
  <2>4. id \in Replied(q)
    BY <2>3
  <2>5. truth'.answered[id] = truth.answered[id]
    BY <2>4, AnswersKept
  <2> QED
    BY <2>1, <2>4, <2>5
<1> QED
  BY <1>2, <1>3, <1>4 DEF HeardTrue, Reading, Since, Replied, In

\* Accepting an answer that arrived now keeps what is true of the outage and of
\* the last answer; outage and replies are the flag and the count before it.
LEMMA AnswerAccepted ==
    ASSUME QualityInv, NEW q \in Trackers, NEW arrived, clock' = clock, quality' = q,
           Remembered(q, arrived), NEW id \in Replied(q), Answered(q, id),
           truth'.answered[id] = clock, id <= clock, q.hasReply, q.started,
           q.lastReply = Reading(clock), q.rtt = clock - id,
           \A i \in Replied(q) : i # id => i \in Replied(quality),
           NEW outage \in BOOLEAN, NEW replies \in 0..1, OutageFollows(outage, replies),
           q.outage <=> outage /\ replies = 0,
           q.recoveryReplies = IF ~outage THEN replies ELSE IF replies = 0 THEN 1 ELSE 0
    PROVE  /\ HeardTrue' /\ OutageTrue' /\ RecoveryPrompt'
           /\ quality.outage /\ ~q.outage => truth'.answers = 2
<1> USE InvFields
<1>1. q.outage \in BOOLEAN /\ q.recoveryReplies \in 0..1 /\ id \in Nat
  <2>1. q.records \in RecordMaps /\ id \in DOMAIN q.records
    BY TrackerFields DEF Replied, In
  <2> QED
    BY <2>1, TrackerFields, MapFields
<1>2. OutageTrue /\ RecoveryPrompt /\ HeardTrue
  BY DEF QualityInv
<1>3. \A i \in Replied(q) : i # id =>
         /\ truth'.answered[i] = truth.answered[i] /\ truth.answered[i] \in Nat
         /\ truth.heard \in Nat /\ truth.heard # Never /\ truth.answered[i] <= truth.heard
         /\ i \in Replied(quality)
  BY AnswersKept
<1>4. /\ truth'.raised = IF ~q.outage THEN Never
                         ELSE IF quality.outage THEN truth.raised ELSE clock
      /\ truth'.heard = clock
      /\ truth'.answers = IF ~quality.outage THEN 1
                          ELSE IF truth.answers = 2 THEN 2 ELSE truth.answers + 1
      /\ Never \notin Int
  BY PathAssumption DEF Remembered, Answered
<1>5. HeardTrue'
  <2>1. (quality.hasReply /\ truth.heard # Never /\ quality.started)'
    BY <1>4
  <2>2. (truth.heard <= clock /\ quality.lastReply = Reading(truth.heard))'
    BY <1>4 DEF Reading
  <2>3. (\E i \in Replied(quality) :
            truth.answered[i] = truth.heard /\ quality.rtt = truth.heard - i)'
    BY <1>4 DEF Replied, In
  <2> QED
    BY <2>1, <2>2, <2>3 DEF HeardTrue
<1>6. q.outage => q.recoveryReplies = 1
  BY <1>1
<1>7. OutageTrue'
  <2>1. (quality.outage <=> truth.raised # Never)'
    BY <1>1, <1>2, <1>4 DEF OutageTrue
  <2>2. (~quality.outage \/ ~quality.hasReply => quality.recoveryReplies = 0)'
    BY <1>1, <1>2 DEF OutageTrue, OutageFollows
  <2>3. (quality.outage => truth.raised <= clock)'
    BY <1>1, <1>2, <1>4 DEF OutageTrue
  <2>4. (quality.outage => quality.recoveryReplies <= truth.answers)'
    BY <1>4, <1>6
  <2> QED
    BY <2>1, <2>2, <2>3, <2>4, <1>6 DEF OutageTrue
<1>8. RecoveryPrompt'
  <2>1. ASSUME q.outage, NEW a \in Replied(q), a # id, truth'.answered[a] >= truth'.raised
        PROVE  truth'.answered[a] \in Nat /\ clock - truth'.answered[a] >= TIMEOUT
    <3>1. CASE truth.heard = Never \/ Since(truth.heard) >= TIMEOUT
      BY <3>1, <2>1, <1>3 DEF Since
    <3>2. CASE outage = quality.outage /\ replies = quality.recoveryReplies
      <4>1. quality.outage /\ quality.recoveryReplies = 0 /\ truth'.raised = truth.raised
        BY <3>2, <2>1, <1>4
      <4> QED
        BY <4>1, <2>1, <1>2, <1>3 DEF OutageTrue, Since
    <3> QED
      BY <3>1, <3>2 DEF OutageFollows
  <2>2. ASSUME q.outage, NEW a \in Replied(q), NEW b \in Replied(q), a # b,
               truth'.answered[a] >= truth'.raised, truth'.answered[b] >= truth'.raised
        PROVE  \/ truth'.answered[b] - truth'.answered[a] >= TIMEOUT
               \/ truth'.answered[a] - truth'.answered[b] >= TIMEOUT
    <3>1. CASE a = id
      BY <3>1, <2>1, <2>2
    <3>2. CASE b = id
      BY <3>2, <2>1, <2>2
    <3>3. CASE a # id /\ b # id
      <4>1. clock - truth'.answered[a] >= TIMEOUT /\ truth'.answered[a] \in Nat
        BY <3>3, <2>1, <2>2
      <4>2. CASE quality.outage
        BY <4>2, <3>3, <2>2, <1>2, <1>3, <1>4 DEF RecoveryPrompt
      <4>3. CASE ~quality.outage
        BY <4>1, <4>3, <2>2, <1>4
      <4> QED
        BY <4>2, <4>3
    <3> QED
      BY <3>1, <3>2, <3>3
  <2> QED
    BY <2>2 DEF RecoveryPrompt, Replied, In
<1>9. ASSUME quality.outage, ~q.outage
      PROVE  truth'.answers = 2
  <2>1. quality.recoveryReplies = 1
    <3>1. ~outage \/ replies # 0
      BY <1>9
    <3>2. outage
      BY <1>9 DEF OutageFollows
    <3>3. replies = quality.recoveryReplies /\ replies # 0
      BY <3>1, <3>2 DEF OutageFollows
    <3> QED
      BY <3>3
  <2>2. truth.answers >= 1
    BY <1>2, <1>9, <2>1 DEF OutageTrue
  <2> QED
    BY <1>4, <1>9, <2>2
<1> QED
  BY <1>5, <1>7, <1>8, <1>9

\* The times of the tracker are readings of true times.
LEMMA QualityTimed ==
    ASSUME QualityInv
    PROVE  \E ref \in Nat : /\ quality.started => ReferenceAt(ref)
                            /\ Timed(quality, truth.heard, ref)
<1> USE InvFields
<1>1. \A id \in DOMAIN quality.records : id <= clock /\ quality.records[id].sent = Reading(id)
  BY DEF QualityInv, RecordsTrue, RecordTrue
<1>2. /\ quality.hasReply <=> truth.heard # Never
      /\ quality.hasReply => truth.heard <= clock /\ quality.lastReply = Reading(truth.heard)
  BY DEF QualityInv, HeardTrue
<1>3. PICK ref \in Nat : quality.started => ReferenceAt(ref)
  BY DEF QualityInv, ReferenceTrue
<1> QED
  BY <1>1, <1>2, <1>3 DEF Timed, ReferenceAt

\* What expire does to the tracker of the path.
LEMMA ExpireKeeps ==
    ASSUME QualityInv, NEW ref \in Nat, quality.started => ReferenceAt(ref),
           NEW e, Expired(quality, e, truth.heard, ref)
    PROVE  /\ OutageFollows(e.outage, e.recoveryReplies)
           /\ \A id \in DOMAIN e.records : RecordTrue(e, id) /\ Young(e, id)
           /\ \A id \in DOMAIN e.records : id \in DOMAIN quality.records
           /\ Replied(e) \subseteq Replied(quality)
           /\ \A id \in Replied(quality) : Since(id) < WINDOW => id \in Replied(e)
           /\ e.started /\ Watched(e) /\ ~e.outage => Since(ref) < TIMEOUT
           /\ Watched(e) <=> Watched(quality)
           /\ e.outage /\ ~quality.outage =>
                 /\ Watched(quality)
                 /\ truth.heard = Never \/ Since(truth.heard) >= TIMEOUT
<1> USE InvFields
<1>1. e \in Trackers /\ e.outage \in BOOLEAN /\ e.recoveryReplies \in 0..1
      /\ e.enabled \in BOOLEAN /\ e.started \in BOOLEAN
  BY TrackerFields DEF Expired
<1>2. Watched(e) <=> Watched(quality)
  BY DEF Expired, Watched, LocalFailure
<1>3. \A id \in DOMAIN e.records :
         /\ id \in DOMAIN quality.records /\ Since(id) < WINDOW
         /\ id \in Nat /\ quality.records[id] \in Records
         /\ e.records[id] = IF LostIn(quality, id) THEN Settle(quality.records[id], "TimedOut")
                            ELSE quality.records[id]
  BY DEF Expired
<1>4. "TimedOut" \in States
  BY DEF States
<1>5. SilentSince(quality, ref) =>
         /\ quality.started /\ Watched(quality)
         /\ truth.heard = Never \/ Since(truth.heard) >= TIMEOUT
  BY DEF SilentSince, Watched, ReferenceAt, Since
<1>6. LossAfter(quality, truth.heard) => truth.heard = Never \/ Since(truth.heard) >= TIMEOUT
  BY DEF LossAfter, LostIn, Since
<1>7. OutageFollows(e.outage, e.recoveryReplies)
  <2>1. CASE LossAfter(quality, truth.heard) \/ SilentSince(quality, ref)
    BY <2>1, <1>5, <1>6 DEF Expired, OutageFollows
  <2>2. CASE ~LossAfter(quality, truth.heard) /\ ~SilentSince(quality, ref)
    BY <2>2, <1>1 DEF Expired, OutageFollows
  <2> QED
    BY <2>1, <2>2
<1>8. ASSUME NEW id \in DOMAIN e.records
      PROVE  RecordTrue(e, id) /\ Young(e, id)
  <2>1. RecordTrue(quality, id)
    BY <1>3 DEF QualityInv, RecordsTrue
  <2>2. CASE LostIn(quality, id)
    <3>1. /\ e.records[id].sent = quality.records[id].sent
          /\ e.records[id].state = "TimedOut"
      <4>1. e.records[id] = Settle(quality.records[id], "TimedOut")
        BY <2>2, <1>3
      <4>2. quality.records[id] \in Records
        BY <1>3
      <4>3. /\ Settle(quality.records[id], "TimedOut").sent = quality.records[id].sent
            /\ Settle(quality.records[id], "TimedOut").state = "TimedOut"
        BY <4>2, <1>4, SettleTyped
      <4> QED
        BY <4>1, <4>3
    <3>2. quality.records[id].state = "Pending" /\ quality.records[id].committed
          /\ Since(id) >= TIMEOUT
      BY <2>2 DEF LostIn
    <3> QED
      BY <3>1, <3>2, <2>1, <1>3 DEF RecordTrue, Young
  <2>3. CASE ~LostIn(quality, id)
    <3>1. e.records[id] = quality.records[id] /\ e.enabled = quality.enabled
          /\ e.started = quality.started
      BY <2>3, <1>3 DEF Expired
    <3>2. RecordTrue(e, id)
      BY <3>1, <2>1 DEF RecordTrue
    <3> QED
      BY <3>1, <3>2, <2>3, <1>3 DEF Young, LostIn, Since
  <2> QED
    BY <2>2, <2>3
<1>9. \A id \in DOMAIN e.records :
         e.records[id].state = "Replied" <=> quality.records[id].state = "Replied"
  BY <1>3, <1>4, SettleTyped DEF LostIn
<1>10. Replied(e) \subseteq Replied(quality)
  BY <1>3, <1>9 DEF Replied, In
<1>11. \A id \in Replied(quality) : Since(id) < WINDOW => id \in Replied(e)
  BY <1>9 DEF Replied, In, Expired
<1>12. e.started /\ Watched(e) /\ ~e.outage => Since(ref) < TIMEOUT
  BY <1>2 DEF Expired, SilentSince, Since
<1>13. e.outage /\ ~quality.outage =>
         /\ Watched(quality)
         /\ truth.heard = Never \/ Since(truth.heard) >= TIMEOUT
  BY <1>5 DEF Expired
<1> QED
  BY <1>2, <1>3, <1>7, <1>8, <1>10, <1>11, <1>12, <1>13

\* A record that a call leaves alone stays true.
LEMMA RecordStays ==
    ASSUME QualityInv, NEW e \in Trackers, NEW q \in Trackers, NEW arrived, NEW id \in Nat,
           clock' = clock, due' => due, quality' = q,
           Remembered(q, arrived), RecordTrue(e, id), id \in DOMAIN q.records,
           q.records[id] = e.records[id], e.records[id] \in Records,
           e.records[id].state = "Pending" =>
              /\ q.enabled /\ (id # arrived \/ Since(id) >= TIMEOUT \/ e.records[id].earlyReply)
              /\ ~e.records[id].committed => sending' = sending
              /\ e.started => q.started,
           truth.heard # Never => truth'.heard # Never /\ truth.heard <= truth'.heard
    PROVE  RecordTrue(quality, id)'
<1> USE InvFields
<1> DEFINE r == e.records[id]
<1>1. r.state \in States /\ r.committed \in BOOLEAN /\ r.earlyReply \in BOOLEAN
  BY RecordFields
<1>2. r.state # "SendFailed" <=> id \in DOMAIN truth'.answered
  BY <1>1 DEF Remembered, In
<1>3. /\ id <= clock /\ (due => id < clock) /\ r.sent = Reading(id) /\ Since(id) <= WINDOW
      /\ r.state # "SendFailed" <=> id \in DOMAIN truth.answered
  BY DEF RecordTrue
<1>4. r.state = "TimedOut" =>
         truth.answered[id] = Never /\ Since(id) >= TIMEOUT /\ truth'.answered[id] = Never
  <2>1. SUFFICES ASSUME r.state = "TimedOut"
                 PROVE  /\ truth.answered[id] = Never /\ Since(id) >= TIMEOUT
                        /\ truth'.answered[id] = Never
    OBVIOUS
  <2>2. truth.answered[id] = Never /\ Since(id) >= TIMEOUT
    BY <2>1 DEF RecordTrue
  <2>3. ~(Since(id) < TIMEOUT)
    BY <2>2 DEF Since
  <2>4. id \in DOMAIN truth'.answered
    BY <2>1, <1>2
  <2> QED
    BY <2>2, <2>3, <2>4 DEF Remembered
<1>5. r.state = "Replied" =>
         /\ truth.answered[id] # Never /\ id <= truth.answered[id]
         /\ truth.answered[id] < id + TIMEOUT /\ truth'.heard # Never
         /\ truth.answered[id] <= truth'.heard /\ truth'.answered[id] = truth.answered[id]
  <2>1. SUFFICES ASSUME r.state = "Replied"
                 PROVE  /\ truth.answered[id] # Never /\ id <= truth.answered[id]
                        /\ truth.answered[id] < id + TIMEOUT /\ truth'.heard # Never
                        /\ truth.answered[id] <= truth'.heard
                        /\ truth'.answered[id] = truth.answered[id]
    OBVIOUS
  <2>2. /\ truth.answered[id] # Never /\ id <= truth.answered[id]
        /\ truth.answered[id] < id + TIMEOUT /\ truth.heard # Never
        /\ truth.answered[id] <= truth.heard
    BY <2>1 DEF RecordTrue
  <2>3. truth'.answered[id] = truth.answered[id]
    BY <2>1, <2>2, <1>2, <1>3 DEF Remembered
  <2>4. truth.answered[id] \in Nat /\ truth.heard \in Nat /\ truth'.heard \in Nat
    BY <2>1, <2>2, <1>3, HistoryFields DEF Remembered, Times
  <2> QED
    BY <2>2, <2>3, <2>4
<1>6. r.state = "Pending" => truth'.answered[id] = truth.answered[id]
  <2>1. SUFFICES ASSUME r.state = "Pending"
                 PROVE  truth'.answered[id] = truth.answered[id]
    OBVIOUS
  <2>2. id \in DOMAIN truth.answered /\ id \in DOMAIN truth'.answered
    BY <2>1, <1>2, <1>3
  <2>3. CASE r.earlyReply
    <3>1. truth.answered[id] = clock /\ clock # Never
      BY <2>1, <2>3, PathAssumption DEF RecordTrue
    <3> QED
      BY <3>1, <2>2 DEF Remembered
  <2>4. CASE ~r.earlyReply
    <3>1. truth.answered[id] = Never /\ ~(id = arrived /\ Since(id) < TIMEOUT)
      BY <2>1, <2>4 DEF RecordTrue, Since
    <3> QED
      BY <3>1, <2>2 DEF Remembered
  <2> QED
    BY <2>3, <2>4
<1>7. r.state = "Pending" =>
         /\ q.enabled
         /\ r.committed => /\ q.started /\ ~r.earlyReply
                           /\ truth.answered[id] = Never /\ Since(id) <= TIMEOUT
         /\ ~r.committed => id = sending'
         /\ r.earlyReply => r.replyAt = Reading(clock) /\ truth.answered[id] = clock
         /\ ~r.earlyReply => truth.answered[id] = Never
  BY DEF RecordTrue
<1>8. quality'.records[id] = r /\ (Since(id))' = Since(id) /\ Reading(clock)' = Reading(clock)
      /\ Reading(id)' = Reading(id)
  BY DEF Since, Reading
<1> HIDE DEF r
<1> QED
  BY <1>2, <1>3, <1>4, <1>5, <1>6, <1>7, <1>8 DEF RecordTrue

\* A call that changes neither what is watched nor reference keeps what is
\* true of it, if it leaves no silence unnoticed.
LEMMA ReferenceKept ==
    ASSUME QualityInv, NEW ref \in Nat, quality.started => ReferenceAt(ref),
           NEW q \in Trackers, NEW arrived, clock' = clock, quality' = q,
           Remembered(q, arrived), truth'.heard = truth.heard,
           Watched(q) <=> Watched(quality), q.started = quality.started,
           q.reference = quality.reference, quality.outage => q.outage,
           Watched(q) /\ ~q.outage => Since(ref) < TIMEOUT
    PROVE  ReferenceTrue'
<1> USE InvFields
<1>1. ReferenceTrue
  BY DEF QualityInv
<1>2. truth'.watched = truth.watched
  BY <1>1 DEF ReferenceTrue, Remembered
<1>3. (Watched(quality) <=> truth.watched # Never)'
  BY <1>1, <1>2 DEF ReferenceTrue, Watched, LocalFailure
<1>4. (truth.watched # Never => truth.watched <= clock)'
  BY <1>1, <1>2 DEF ReferenceTrue
<1>5. ASSUME q.started
      PROVE  ReferenceAt(ref)'
  <2>1. ReferenceAt(ref)
    BY <1>5
  <2>2. Watched(q)' = Watched(q) /\ Reading(ref)' = Reading(ref) /\ (Since(ref))' = Since(ref)
    BY DEF Watched, LocalFailure, Reading, Since
  <2>3. Watched(quality)' = Watched(q)
    BY DEF Watched, LocalFailure
  <2>4. (ref <= clock /\ quality.reference = Reading(ref)
         /\ (truth.heard # Never => truth.heard <= ref))'
    BY <2>1, <2>2 DEF ReferenceAt
  <2>5. ASSUME Watched(q), ~q.outage
        PROVE  /\ ref <= truth'.watched \/ (truth'.heard # Never /\ ref <= truth'.heard)
               /\ Since(ref) < TIMEOUT /\ Since(ref) <= TIMEOUT
    BY <2>1, <2>5, <1>2 DEF ReferenceAt, Since
  <2> QED
    BY <2>2, <2>3, <2>4, <2>5 DEF ReferenceAt
<1> QED
  BY <1>3, <1>4, <1>5 DEF ReferenceTrue

\* What OutageEarned says of a step.
OutageStep ==
    /\ quality'.outage /\ ~quality.outage
         => /\ Watched(quality)
            /\ truth.heard = Never \/ Since(truth.heard) >= TIMEOUT
    /\ quality.outage /\ ~quality'.outage /\ quality'.hasReply
         => truth'.answers = 2

\* onLatencyUpdate while the path is down keeps the invariant: what expire
\* drops or settles is really that old.
LEMMA UpdateWithoutPathInv ==
    ASSUME QualityInv, UpdateWithoutPath
    PROVE  QualityInv' /\ OutageStep
<1> USE InvFields
<1> DEFINE e == Expire(quality, Now)
<1>1. PICK ref \in Nat : /\ quality.started => ReferenceAt(ref)
                         /\ Timed(quality, truth.heard, ref)
  BY QualityTimed
<1>2. Expired(quality, e, truth.heard, ref)
  BY <1>1, ExpireTrue
<1>3. quality' = e /\ Remember(e, Never) /\ clock' = clock /\ due' = FALSE
      /\ UNCHANGED <<transport, sending, faults>>
  BY DEF UpdateWithoutPath, Becomes
<1> HIDE DEF e
<1>4. e \in Trackers /\ e.enabled = quality.enabled /\ e.hasReply = quality.hasReply
      /\ e.lastReply = quality.lastReply /\ e.rtt = quality.rtt /\ e.started = quality.started
      /\ e.reference = quality.reference
  BY <1>2 DEF Expired
<1>5. /\ OutageFollows(e.outage, e.recoveryReplies)
      /\ \A id \in DOMAIN e.records : RecordTrue(e, id) /\ Young(e, id)
      /\ Replied(e) \subseteq Replied(quality)
      /\ \A id \in Replied(quality) : Since(id) < WINDOW => id \in Replied(e)
      /\ e.started /\ Watched(e) /\ ~e.outage => Since(ref) < TIMEOUT
      /\ Watched(e) <=> Watched(quality)
      /\ e.outage /\ ~quality.outage =>
            /\ Watched(quality)
            /\ truth.heard = Never \/ Since(truth.heard) >= TIMEOUT
  BY <1>1, <1>2, ExpireKeeps
<1>6. QualityTyped
  BY DEF QualityInv
<1>7. Remembered(e, Never) /\ Unanswered(e)
  BY <1>3, <1>4, <1>5, <1>6, RememberFields
<1>8. QualityTyped'
  BY <1>3, <1>4, <1>6, <1>7 DEF QualityTyped, Remembered
<1>9. truth'.heard = truth.heard
  BY <1>4, <1>7 DEF Unanswered, QualityInv, HeardTrue
<1>10. RecordsTrue'
  <2>1. ASSUME NEW id \in DOMAIN e.records
        PROVE  RecordTrue(quality, id)' /\ Young(quality, id)'
    <3>1. id \in Nat /\ e.records[id] \in Records
      BY <1>4, TrackerFields, MapFields
    <3>2. e.records[id].state = "Pending" => e.enabled /\ id # Never
      BY <1>5, <3>1, PathAssumption DEF RecordTrue
    <3>3. RecordTrue(quality, id)'
      BY <1>3, <1>4, <1>5, <1>7, <1>9, <3>1, <3>2, RecordStays
    <3>4. Young(quality, id)'
      BY <1>3, <1>5 DEF Young, Since
    <3> QED
      BY <3>3, <3>4
  <2>2. DOMAIN truth'.answered \subseteq DOMAIN e.records
    BY <1>7 DEF Remembered, In
  <2> QED
    BY <1>3, <2>1, <2>2 DEF RecordsTrue
<1>11. HeardTrue'
  BY <1>3, <1>4, <1>5, <1>7, HeardKept
<1>12. ReferenceTrue'
  <2>1. quality.outage => e.outage
    BY <1>2 DEF Expired
  <2>2. Watched(e) /\ ~e.outage => Since(ref) < TIMEOUT
    BY <1>5 DEF Watched
  <2> QED
    BY <1>1, <1>3, <1>4, <1>5, <1>7, <1>9, <2>1, <2>2, ReferenceKept
<1>13. OutageTrue' /\ RecoveryPrompt'
  BY <1>3, <1>4, <1>5, <1>7, OutageKept
<1>14. OutageStep
  BY <1>2, <1>3, <1>5 DEF OutageStep, Expired
<1> QED
  BY <1>8, <1>10, <1>11, <1>12, <1>13, <1>14 DEF QualityInv

\* A tracker without history.
Blank(q) ==
    /\ q \in Trackers /\ DOMAIN q.records = {}
    /\ ~q.started /\ ~q.outage /\ ~q.hasReply /\ q.recoveryReplies = 0

\* A tracker that was reset has no history.
LEMMA ResetFields ==
    ASSUME NEW q \in Trackers
    PROVE  /\ Blank(Reset(q))
           /\ Reset(q).enabled = q.enabled /\ Reset(q).pathKind = q.pathKind
<1>1. <<>> \in RecordMaps /\ DOMAIN <<>> = {}
  <2>1. DOMAIN <<>> = {} /\ <<>> \in [{} -> Records]
    OBVIOUS
  <2> QED
    BY <2>1, MapTyped
<1>2. -1 \in Int /\ 0 \in 0..1 /\ 0 \in Int
  OBVIOUS
<1>3. q.pathKind \in Kinds \cup {NoPath} /\ q.enabled \in BOOLEAN
  BY TrackerFields
<1>4. Reset(q) \in Trackers
  BY <1>1, <1>2, <1>3 DEF Reset, Trackers
<1> QED
  BY <1>1, <1>4 DEF Reset, Blank

\* suspend removes the pending probes and nothing else.
LEMMA SuspendFields ==
    ASSUME NEW q \in Trackers
    PROVE  LET s == Suspend(q)
           IN  /\ s \in Trackers /\ s.enabled = FALSE
               /\ DOMAIN s.records = {id \in DOMAIN q.records : q.records[id].state # "Pending"}
               /\ \A id \in DOMAIN s.records : s.records[id] = q.records[id]
               /\ s.pathKind = q.pathKind /\ s.started = q.started /\ s.outage = q.outage
               /\ s.hasReply = q.hasReply /\ s.reference = q.reference
               /\ s.lastReply = q.lastReply /\ s.rtt = q.rtt
               /\ s.recoveryReplies = q.recoveryReplies
<1> DEFINE ids == {id \in DOMAIN q.records : q.records[id].state # "Pending"}
           m == [id \in ids |-> q.records[id]]
           s == Suspend(q)
<1>1. q.records \in RecordMaps
  BY TrackerFields
<1>2. ids \in SUBSET Nat /\ m \in [ids -> Records]
  BY <1>1, MapFields
<1>3. m \in RecordMaps
  BY <1>2, MapTyped
<1>4. s = [q EXCEPT !.enabled = FALSE, !.records = m]
  BY DEF Suspend, Trackers
<1>5. [q EXCEPT !.enabled = FALSE] \in Trackers
  BY TrackerSet
<1>6. [q EXCEPT !.enabled = FALSE, !.records = m] \in Trackers
  BY <1>3, <1>5, TrackerSet
<1> HIDE DEF m, s
<1>7. s.enabled = FALSE /\ s.records = m
  BY <1>4 DEF Trackers
<1>8. /\ s.pathKind = q.pathKind /\ s.started = q.started /\ s.outage = q.outage
      /\ s.hasReply = q.hasReply /\ s.reference = q.reference
      /\ s.lastReply = q.lastReply /\ s.rtt = q.rtt /\ s.recoveryReplies = q.recoveryReplies
  BY <1>4 DEF Trackers
<1>9. s \in Trackers
  BY <1>4, <1>6
<1> QED
  BY <1>7, <1>8, <1>9 DEF s, m

\* setPath enables the path, without its history if the transport is another.
LEMMA SetPathFields ==
    ASSUME NEW q \in Trackers, NEW kind \in Kinds
    PROVE  LET s == SetPath(q, kind)
               b == IF q.pathKind # kind THEN Reset(q) ELSE q
           IN  /\ s \in Trackers /\ s.enabled = TRUE
               /\ s.records = b.records /\ s.started = b.started /\ s.outage = b.outage
               /\ s.queueSendFailure = b.queueSendFailure
               /\ s.transportSendFailure = b.transportSendFailure
               /\ s.hasReply = b.hasReply /\ s.reference = b.reference
               /\ s.lastReply = b.lastReply /\ s.rtt = b.rtt
               /\ s.recoveryReplies = b.recoveryReplies
<1> DEFINE b == IF q.pathKind # kind THEN Reset(q) ELSE q
           s == SetPath(q, kind)
<1>1. b \in Trackers
  BY ResetFields DEF Blank
<1>2. s = [b EXCEPT !.pathKind = kind, !.enabled = TRUE]
  BY DEF SetPath
<1> HIDE DEF b, s
<1>3. [b EXCEPT !.pathKind = kind] \in Trackers
  BY <1>1, TrackerSet
<1>4. [b EXCEPT !.pathKind = kind, !.enabled = TRUE] \in Trackers
  BY <1>3, TrackerSet
<1>5. /\ s.enabled = TRUE /\ s.records = b.records /\ s.started = b.started
      /\ s.outage = b.outage /\ s.queueSendFailure = b.queueSendFailure
      /\ s.transportSendFailure = b.transportSendFailure
  BY <1>1, <1>2 DEF Trackers
<1>6. /\ s.hasReply = b.hasReply /\ s.reference = b.reference
      /\ s.lastReply = b.lastReply /\ s.rtt = b.rtt /\ s.recoveryReplies = b.recoveryReplies
  BY <1>1, <1>2 DEF Trackers
<1>7. s \in Trackers
  BY <1>2, <1>4
<1> QED
  BY <1>5, <1>6, <1>7 DEF s, b

\* Nothing false is said of a path without history.
LEMMA BlankTrue ==
    ASSUME QualityInv, NEW q, Blank(q), quality' = q, clock' = clock, Remember(q, Never)
    PROVE  /\ RecordsTrue' /\ HeardTrue' /\ ReferenceTrue' /\ OutageTrue' /\ RecoveryPrompt'
           /\ OutageStep /\ truth' \in Histories
<1> USE InvFields
<1>1. q \in Trackers /\ QualityTyped
  BY DEF Blank, QualityInv
<1>2. Replied(q) = {}
  BY DEF Blank, Replied, In
<1>3. Remembered(q, Never) /\ Unanswered(q)
  BY <1>1, <1>2, RememberFields
<1>4. ~Watched(q) /\ truth'.watched = Never /\ truth'.heard = Never /\ truth'.raised = Never
  BY <1>3 DEF Watched, Remembered, Unanswered, Blank
<1>5. ~Watched(quality)'
  BY DEF Watched, Blank
<1>6. DOMAIN truth'.answered = {}
  BY <1>3 DEF Remembered, In, Blank
<1>7. RecordsTrue'
  BY <1>6 DEF RecordsTrue, Blank
<1>8. HeardTrue'
  BY <1>4 DEF HeardTrue, Blank
<1>9. ReferenceTrue'
  BY <1>4, <1>5 DEF ReferenceTrue, Blank
<1>10. OutageTrue' /\ RecoveryPrompt'
  BY <1>4 DEF OutageTrue, RecoveryPrompt, Blank
<1>11. OutageStep
  BY DEF OutageStep, Blank
<1> QED
  BY <1>3, <1>7, <1>8, <1>9, <1>10, <1>11 DEF Remembered

\* A second passes: no verdict becomes false before the timer has run, since
\* every record was young and the time of reference recent after the last run.
LEMMA TickInv ==
    ASSUME QualityInv, Tick
    PROVE  QualityInv' /\ OutageStep
<1> USE InvFields
<1>1. clock' = clock + 1 /\ clock < Horizon /\ due' = TRUE /\ ~due /\ sending = Never
      /\ UNCHANGED <<transport, quality, sending, faults, truth>>
  BY DEF Tick
<1>2. QualityTyped /\ RecordsTrue /\ HeardTrue /\ ReferenceTrue /\ OutageTrue /\ RecoveryPrompt
  BY DEF QualityInv
<1>3. QualityTyped'
  BY <1>1, <1>2 DEF QualityTyped
<1>4. \A t \in Nat : (Since(t))' = Since(t) + 1
  BY <1>1 DEF Since
<1>5. RecordsTrue'
  <2>1. ASSUME NEW id \in DOMAIN quality.records
        PROVE  RecordTrue(quality, id)'
    <3>1. RecordTrue(quality, id) /\ Young(quality, id) /\ id \in Nat
          /\ quality.records[id] \in Records
      BY <1>1, <1>2 DEF RecordsTrue
    <3>2. quality.records[id].state = "Pending" => quality.records[id].committed
      BY <3>1, <1>1, PathAssumption DEF RecordTrue
    <3>3. /\ (id <= clock /\ (due => id < clock))'
          /\ (Since(id) <= WINDOW)'
          /\ (quality.records[id].sent = Reading(id))'
      BY <3>1, <1>1 DEF RecordTrue, Young, Since, Reading
    <3>4. quality.records[id].state = "Pending" => (Since(id) <= TIMEOUT)'
      BY <3>1, <3>2, <1>1 DEF Young, Since
    <3>5. Since(id) >= TIMEOUT => (Since(id) >= TIMEOUT)'
      BY <3>1, <1>1 DEF Since
    <3>6. quality.records[id].state = "Pending" => ~quality.records[id].earlyReply
      BY <3>1, <3>2 DEF RecordTrue
    <3> QED
      BY <1>1, <3>1, <3>2, <3>3, <3>4, <3>5, <3>6 DEF RecordTrue
  <2> QED
    BY <1>1, <1>2, <2>1 DEF RecordsTrue
<1>6. HeardTrue'
  BY <1>1, <1>2 DEF HeardTrue, Since, Reading, Replied, In
<1>7. ReferenceTrue'
  <2>1. Watched(quality)' = Watched(quality)
    BY <1>1 DEF Watched, LocalFailure
  <2>2. (truth.watched # Never => truth.watched <= clock)'
    BY <1>1, <1>2 DEF ReferenceTrue
  <2>3. ASSUME NEW ref \in Nat, ReferenceAt(ref)
        PROVE  ReferenceAt(ref)'
    <3>1. ref <= clock /\ Reading(ref)' = Reading(ref)
      BY <2>3, <1>1 DEF ReferenceAt, Reading
    <3>2. ASSUME Watched(quality), ~quality.outage
          PROVE  \/ (Since(ref) <= TIMEOUT)'
                 \/ (Since(truth.watched) <= 1)'
      <4>1. Since(ref) < TIMEOUT \/ truth.watched = clock
        BY <2>3, <3>2, <1>1 DEF ReferenceAt
      <4> QED
        BY <4>1, <1>1, <3>1 DEF Since
    <3> QED
      BY <2>1, <2>3, <3>1, <3>2, <1>1 DEF ReferenceAt
  <2> QED
    BY <1>1, <1>2, <2>1, <2>2, <2>3 DEF ReferenceTrue
<1>8. OutageTrue'
  <2>1. \A id \in Replied(quality) : truth.answered[id] \in Nat
    <3> TAKE id \in Replied(quality)
    <3>1. id \in DOMAIN quality.records /\ quality.records[id].state = "Replied"
      BY DEF Replied, In
    <3>2. RecordTrue(quality, id)
      BY <3>1, <1>2 DEF RecordsTrue
    <3> QED
      BY <3>1, <3>2 DEF RecordTrue
  <2>2. \A id \in Replied(quality) :
           Since(truth.answered[id]) >= TIMEOUT => (Since(truth.answered[id]) >= TIMEOUT)'
    BY <2>1, <1>1 DEF Since
  <2> QED
    BY <1>1, <1>2, <2>2 DEF OutageTrue, Replied, In
<1>9. RecoveryPrompt'
  BY <1>1, <1>2 DEF RecoveryPrompt, Replied, In
<1>10. OutageStep
  BY <1>1 DEF OutageStep
<1> QED
  BY <1>3, <1>5, <1>6, <1>7, <1>8, <1>9, <1>10 DEF QualityInv

\* setTransport keeps the invariant: a path of the same kind continues with
\* its history, one of another kind starts without any.
LEMMA PathUpInv ==
    ASSUME QualityInv, NEW kind \in Kinds, PathUp(kind)
    PROVE  QualityInv' /\ OutageStep
<1> USE InvFields
<1> DEFINE q == SetPath(quality, kind)
<1>1. quality' = q /\ Remember(q, Never) /\ transport = NoPath /\ transport' = kind
      /\ sending = Never /\ UNCHANGED <<clock, due, sending, faults>>
  BY DEF PathUp, Becomes
<1>2. QualityTyped
  BY DEF QualityInv
<1>3. q \in Trackers /\ q.enabled = TRUE
  BY SetPathFields
<1>4. truth' \in Histories
  BY <1>1, <1>2, <1>3, RememberFields DEF Remembered
<1>5. QualityTyped'
  BY <1>1, <1>2, <1>3, <1>4, PathAssumption DEF QualityTyped
<1>6. CASE quality.pathKind # kind
  <2>1. Blank(Reset(quality))
    BY ResetFields
  <2>2. q.records = Reset(quality).records /\ q.started = Reset(quality).started
        /\ q.outage = Reset(quality).outage /\ q.hasReply = Reset(quality).hasReply
        /\ q.recoveryReplies = Reset(quality).recoveryReplies
    BY <1>6, SetPathFields
  <2>3. Blank(q)
    BY <1>3, <2>1, <2>2 DEF Blank
  <2> HIDE DEF q
  <2> QED
    BY <1>1, <1>5, <2>3, BlankTrue DEF QualityInv
<1>7. CASE quality.pathKind = kind
  <2>1. /\ q.records = quality.records /\ q.started = quality.started
        /\ q.outage = quality.outage /\ q.queueSendFailure = quality.queueSendFailure
        /\ q.transportSendFailure = quality.transportSendFailure
        /\ q.hasReply = quality.hasReply /\ q.reference = quality.reference
        /\ q.lastReply = quality.lastReply /\ q.rtt = quality.rtt
        /\ q.recoveryReplies = quality.recoveryReplies
    BY <1>7, SetPathFields
  <2> HIDE DEF q
  <2>2. Replied(q) = Replied(quality)
    BY <2>1 DEF Replied, In
  <2>3. Remembered(q, Never) /\ Unanswered(q)
    BY <1>1, <1>2, <1>3, <2>2, RememberFields
  <2>4. truth'.heard = truth.heard
    BY <2>1, <2>3 DEF Unanswered, QualityInv, HeardTrue
  <2>5. RecordsTrue'
    <3>1. ASSUME NEW id \in DOMAIN quality.records
          PROVE  RecordTrue(quality, id)' /\ (~due => Young(quality, id)')
      <4>1. RecordTrue(quality, id) /\ (~due => Young(quality, id))
        BY DEF QualityInv, RecordsTrue
      <4>2. id \in Nat /\ quality.records[id] \in Records /\ id # Never
        BY PathAssumption
      <4>3. RecordTrue(quality, id)'
        BY <1>1, <1>3, <2>1, <2>3, <2>4, <4>1, <4>2, RecordStays
      <4>4. Young(quality, id) => Young(quality, id)'
        BY <1>1, <2>1 DEF Young, Since
      <4> QED
        BY <4>1, <4>3, <4>4
    <3>2. DOMAIN truth'.answered \subseteq DOMAIN q.records
      BY <2>3 DEF Remembered, In
    <3> QED
      BY <1>1, <2>1, <3>1, <3>2 DEF RecordsTrue
  <2>6. HeardTrue'
    BY <1>1, <1>3, <2>1, <2>2, <2>3, HeardKept
  <2>7. OutageFollows(q.outage, q.recoveryReplies)
    BY <2>1 DEF OutageFollows
  <2>8. OutageTrue' /\ RecoveryPrompt'
    BY <1>1, <1>3, <2>1, <2>2, <2>3, <2>7, OutageKept
  <2>9. ReferenceTrue'
    <3>1. ~Watched(quality) /\ truth.watched = Never
      BY <1>1, <1>2 DEF QualityTyped, Watched, QualityInv, ReferenceTrue
    <3>2. truth'.watched = IF ~Watched(q) THEN Never ELSE clock
      BY <2>3, <3>1 DEF Remembered
    <3>3. Watched(quality)' = Watched(q)
      BY <1>1 DEF Watched, LocalFailure
    <3>4. ASSUME NEW ref \in Nat, ReferenceAt(ref)
          PROVE  ReferenceAt(ref)'
      <4>1. ref <= clock /\ quality.reference = Reading(ref)
            /\ (truth.heard # Never => truth.heard <= ref)
        BY <3>4 DEF ReferenceAt
      <4>2. Watched(q) => ref <= truth'.watched /\ clock - truth'.watched <= 1
                          /\ truth'.watched = clock
        BY <3>2, <4>1
      <4> QED
        BY <1>1, <2>1, <2>4, <3>3, <4>1, <4>2 DEF ReferenceAt, Since, Reading
    <3>5. quality.started => \E ref \in Nat : ReferenceAt(ref)
      BY DEF QualityInv, ReferenceTrue
    <3> QED
      BY <1>1, <2>1, <3>2, <3>3, <3>4, <3>5, PathAssumption DEF ReferenceTrue
  <2>10. OutageStep
    BY <1>1, <2>1 DEF OutageStep
  <2> QED
    BY <1>5, <2>5, <2>6, <2>8, <2>9, <2>10 DEF QualityInv
<1> QED
  BY <1>6, <1>7

\* clearTransport keeps the invariant: only settled records remain, and the
\* path is no longer watched.
LEMMA PathDownInv ==
    ASSUME QualityInv, PathDown
    PROVE  QualityInv' /\ OutageStep
<1> USE InvFields
<1> DEFINE q == Suspend(quality)
<1>1. quality' = q /\ Remember(q, Never) /\ transport' = NoPath /\ Fault(TRUE)
      /\ sending = Never /\ UNCHANGED <<clock, due, sending>>
  BY DEF PathDown, Becomes
<1>2. QualityTyped
  BY DEF QualityInv
<1>3. /\ q \in Trackers /\ q.enabled = FALSE
      /\ DOMAIN q.records = {id \in DOMAIN quality.records : quality.records[id].state # "Pending"}
      /\ \A id \in DOMAIN q.records : q.records[id] = quality.records[id]
      /\ q.started = quality.started /\ q.outage = quality.outage
      /\ q.hasReply = quality.hasReply /\ q.reference = quality.reference
      /\ q.lastReply = quality.lastReply /\ q.rtt = quality.rtt
      /\ q.recoveryReplies = quality.recoveryReplies
  BY SuspendFields
<1> HIDE DEF q
<1>4. Replied(q) = Replied(quality)
  BY <1>3 DEF Replied, In
<1>5. Remembered(q, Never) /\ Unanswered(q)
  BY <1>1, <1>2, <1>3, <1>4, RememberFields
<1>6. QualityTyped'
  <2>1. faults' \in 0..MaxFaults
    BY <1>1, <1>2, ClockAssumption DEF Fault, QualityTyped
  <2> QED
    BY <2>1, <1>1, <1>2, <1>3, <1>5 DEF QualityTyped, Remembered
<1>7. truth'.heard = truth.heard
  BY <1>3, <1>5 DEF Unanswered, QualityInv, HeardTrue
<1>8. RecordsTrue'
  <2>1. ASSUME NEW id \in DOMAIN q.records
        PROVE  RecordTrue(quality, id)' /\ (~due => Young(quality, id)')
    <3>1. RecordTrue(quality, id) /\ (~due => Young(quality, id))
      BY <1>3 DEF QualityInv, RecordsTrue
    <3>2. id \in Nat /\ quality.records[id] \in Records /\ quality.records[id].state # "Pending"
      BY <1>3
    <3>3. RecordTrue(quality, id)'
      BY <1>1, <1>3, <1>5, <1>7, <3>1, <3>2, RecordStays
    <3>4. Young(quality, id) => Young(quality, id)'
      BY <1>1, <1>3 DEF Young, Since
    <3> QED
      BY <3>1, <3>3, <3>4
  <2>2. DOMAIN truth'.answered \subseteq DOMAIN q.records
    BY <1>5 DEF Remembered, In
  <2> QED
    BY <1>1, <2>1, <2>2 DEF RecordsTrue
<1>9. HeardTrue'
  BY <1>1, <1>3, <1>4, <1>5, HeardKept
<1>10. OutageTrue' /\ RecoveryPrompt'
  <2>1. OutageFollows(q.outage, q.recoveryReplies)
    BY <1>3 DEF OutageFollows
  <2> QED
    BY <2>1, <1>1, <1>3, <1>4, <1>5, OutageKept
<1>11. ReferenceTrue'
  <2>1. ~Watched(q) /\ truth'.watched = Never
    BY <1>3, <1>5 DEF Watched, Remembered
  <2>2. ~Watched(quality)'
    BY <1>1, <1>3 DEF Watched
  <2>3. ASSUME NEW ref \in Nat, ReferenceAt(ref)
        PROVE  ReferenceAt(ref)'
    BY <2>2, <2>3, <1>1, <1>3, <1>7 DEF ReferenceAt, Reading
  <2>4. quality.started => \E ref \in Nat : ReferenceAt(ref)
    BY DEF QualityInv, ReferenceTrue
  <2> QED
    BY <1>1, <1>3, <2>1, <2>2, <2>3, <2>4 DEF ReferenceTrue
<1>12. OutageStep
  BY <1>1, <1>3 DEF OutageStep
<1> QED
  BY <1>6, <1>8, <1>9, <1>10, <1>11, <1>12 DEF QualityInv

\* onPeerResumed keeps the invariant: the path starts without history.
LEMMA PeerResumedInv ==
    ASSUME QualityInv, PeerResumed
    PROVE  QualityInv' /\ OutageStep
<1> USE InvFields
<1> DEFINE r == Reset(quality)
           e == Expire(r, Now)
           q == IF transport # NoPath THEN Suspend(e) ELSE e
<1>1. quality' = q /\ Remember(q, Never) /\ transport' = NoPath /\ Fault(TRUE)
      /\ sending = Never /\ UNCHANGED <<clock, due, sending>>
  BY DEF PeerResumed, Becomes
<1>2. QualityTyped
  BY DEF QualityInv
<1>3. Blank(r) /\ r.enabled = quality.enabled
  BY ResetFields
<1> HIDE DEF r
<1>4. Timed(r, Never, 0)
  BY <1>3 DEF Timed, Blank, Times
<1>5. Expired(r, e, Never, 0)
  BY <1>4, ExpireTrue
<1> HIDE DEF e
<1>6. Blank(e) /\ e.enabled = quality.enabled
  <2>1. ~SilentSince(r, 0)
    BY <1>3 DEF Blank, SilentSince, Watched
  <2>2. ~LossAfter(r, Never)
    BY <1>3 DEF Blank, LossAfter
  <2>3. DOMAIN e.records = {}
    BY <1>3, <1>5 DEF Blank, Expired
  <2> QED
    BY <2>1, <2>2, <2>3, <1>3, <1>5 DEF Blank, Expired
<1>7. Blank(q) /\ q.enabled = FALSE
  <2>1. CASE transport # NoPath
    <3>1. LET s == Suspend(e)
          IN  /\ s \in Trackers /\ s.enabled = FALSE
              /\ DOMAIN s.records = {id \in DOMAIN e.records : e.records[id].state # "Pending"}
              /\ s.started = e.started /\ s.outage = e.outage
              /\ s.hasReply = e.hasReply /\ s.recoveryReplies = e.recoveryReplies
      BY <1>6, SuspendFields DEF Blank
    <3> QED
      BY <2>1, <3>1, <1>6 DEF Blank
  <2>2. CASE transport = NoPath
    BY <2>2, <1>2, <1>6 DEF QualityTyped
  <2> QED
    BY <2>1, <2>2
<1> HIDE DEF q
<1>8. /\ RecordsTrue' /\ HeardTrue' /\ ReferenceTrue' /\ OutageTrue' /\ RecoveryPrompt'
      /\ OutageStep /\ truth' \in Histories
  BY <1>1, <1>7, BlankTrue
<1>9. QualityTyped'
  <2>1. faults' \in 0..MaxFaults
    BY <1>1, <1>2, ClockAssumption DEF Fault, QualityTyped
  <2> QED
    BY <2>1, <1>1, <1>2, <1>7, <1>8 DEF QualityTyped, Blank
<1> QED
  BY <1>8, <1>9 DEF QualityInv

\* A call that begins with expire and changes neither the answers, the outage
\* nor the last answer after it.
LEMMA AfterExpire ==
    ASSUME QualityInv, NEW ref \in Nat, quality.started => ReferenceAt(ref),
           NEW e, Expired(quality, e, truth.heard, ref),
           NEW q \in Trackers, NEW arrived, Remember(q, arrived), quality' = q, clock' = clock,
           Replied(q) = Replied(e), q.outage = e.outage,
           q.recoveryReplies = e.recoveryReplies, q.hasReply = e.hasReply,
           q.lastReply = e.lastReply, q.rtt = e.rtt, q.started = e.started
    PROVE  /\ Remembered(q, arrived) /\ truth'.heard = truth.heard
           /\ HeardTrue' /\ OutageTrue' /\ RecoveryPrompt' /\ OutageStep
<1> USE InvFields
<1>1. /\ OutageFollows(e.outage, e.recoveryReplies)
      /\ Replied(e) \subseteq Replied(quality)
      /\ \A id \in Replied(quality) : Since(id) < WINDOW => id \in Replied(e)
      /\ e.outage /\ ~quality.outage =>
            /\ Watched(quality)
            /\ truth.heard = Never \/ Since(truth.heard) >= TIMEOUT
  BY ExpireKeeps
<1>2. QualityTyped
  BY DEF QualityInv
<1>3. Remembered(q, arrived) /\ Unanswered(q)
  BY <1>1, <1>2, RememberFields
<1>4. /\ q.hasReply = quality.hasReply /\ q.lastReply = quality.lastReply
      /\ q.rtt = quality.rtt /\ q.started = quality.started
  BY DEF Expired
<1>5. truth'.heard = truth.heard
  BY <1>3, <1>4 DEF Unanswered, QualityInv, HeardTrue
<1>6. HeardTrue'
  BY <1>1, <1>3, <1>4, HeardKept
<1>7. OutageTrue' /\ RecoveryPrompt'
  BY <1>1, <1>3, <1>4, OutageKept
<1>8. OutageStep
  BY <1>1 DEF OutageStep, Expired
<1> QED
  BY <1>3, <1>5, <1>6, <1>7, <1>8

\* sendLatencyPing keeps the invariant: expire runs, then a record of this very
\* second is added.
LEMMA SendLatencyPingInv ==
    ASSUME QualityInv, SendLatencyPing
    PROVE  QualityInv' /\ OutageStep
<1> USE InvFields
<1> DEFINE e == Expire(quality, Now)
           m == [i \in DOMAIN e.records \cup {clock} |->
                    IF i = clock THEN Record(Now) ELSE e.records[i]]
           q == [e EXCEPT !.records = m]
<1>1. PICK ref \in Nat : /\ quality.started => ReferenceAt(ref)
                         /\ Timed(quality, truth.heard, ref)
  BY QualityTimed
<1>2. Expired(quality, e, truth.heard, ref)
  BY <1>1, ExpireTrue
<1>3. QualityTyped
  BY DEF QualityInv
<1>4. e.enabled = TRUE /\ e \in Trackers
  BY <1>2, <1>3 DEF QualityTyped, Expired, SendLatencyPing
<1>5. quality' = q /\ Remember(q, Never) /\ clock' = clock /\ due' = FALSE /\ due
      /\ sending = Never /\ sending' = clock /\ UNCHANGED <<transport, faults>>
  <2>1. BeginProbe(quality, clock, Now) = q
    BY <1>4 DEF BeginProbe, Trackers
  <2> QED
    BY <2>1 DEF SendLatencyPing, Becomes
<1> HIDE DEF e
<1>6. \A id \in DOMAIN e.records : id \in Nat /\ e.records[id] \in Records
                                   /\ RecordTrue(e, id) /\ Young(e, id)
  BY <1>1, <1>2, <1>4, ExpireKeeps, TrackerFields, MapFields
<1>7. /\ Record(Now) \in Records /\ Record(Now).sent = Now
      /\ Record(Now).state = "Pending" /\ ~Record(Now).committed /\ ~Record(Now).earlyReply
  <2>1. Now \in Int
    BY ReadingDifference DEF Now, Reading
  <2> QED
    BY <2>1 DEF Record, Records, States
<1>8. m \in RecordMaps
  <2>1. DOMAIN e.records \cup {clock} \in SUBSET Nat
    BY <1>6
  <2>2. m \in [DOMAIN e.records \cup {clock} -> Records]
    BY <1>6, <1>7
  <2> QED
    BY <2>1, <2>2, MapTyped
<1>9. clock \notin DOMAIN e.records
  BY <1>5, <1>6 DEF RecordTrue
<1>10. /\ DOMAIN m = DOMAIN e.records \cup {clock} /\ m[clock] = Record(Now)
       /\ \A id \in DOMAIN e.records : m[id] = e.records[id]
  BY <1>9
<1> HIDE DEF m
<1>11. Patched(e, q, m, e.reference, e.queueSendFailure, e.transportSendFailure, e.started)
  BY <1>4, <1>8, PatchRecords
<1> HIDE DEF q
<1>12. /\ q \in Trackers /\ q.records = m /\ q.outage = e.outage
       /\ q.recoveryReplies = e.recoveryReplies /\ q.hasReply = e.hasReply
       /\ q.lastReply = e.lastReply /\ q.rtt = e.rtt /\ q.started = e.started
       /\ q.enabled = TRUE /\ q.reference = e.reference
       /\ q.queueSendFailure = e.queueSendFailure
       /\ q.transportSendFailure = e.transportSendFailure
  BY <1>4, <1>11 DEF Patched
<1>13. Replied(q) = Replied(e)
  BY <1>7, <1>9, <1>10, <1>12 DEF Replied, In
<1>14. /\ Remembered(q, Never) /\ truth'.heard = truth.heard
       /\ HeardTrue' /\ OutageTrue' /\ RecoveryPrompt' /\ OutageStep
  BY <1>1, <1>2, <1>5, <1>12, <1>13, AfterExpire
<1>15. QualityTyped'
  BY <1>3, <1>5, <1>12, <1>14 DEF QualityTyped, Remembered, Times, SendLatencyPing
<1>16. RecordsTrue'
  <2>1. ASSUME NEW id \in DOMAIN e.records
        PROVE  RecordTrue(quality, id)' /\ Young(quality, id)'
    <3>1. id \in Nat /\ e.records[id] \in Records /\ RecordTrue(e, id) /\ Young(e, id)
          /\ id \in DOMAIN q.records /\ q.records[id] = e.records[id] /\ id # Never
      BY <1>6, <1>10, <1>12, PathAssumption
    <3>2. e.records[id].state = "Pending" => e.records[id].committed
      BY <3>1, <1>5 DEF RecordTrue
    <3>3. RecordTrue(quality, id)'
      BY <1>4, <1>5, <1>12, <1>14, <3>1, <3>2, RecordStays
    <3>4. Young(quality, id)'
      BY <1>5, <3>1 DEF Young, Since
    <3> QED
      BY <3>3, <3>4
  <2>2. RecordTrue(quality, clock)' /\ Young(quality, clock)'
    <3>1. q.records[clock] = Record(Now) /\ Now = Reading(clock)
      BY <1>10, <1>12 DEF Now, Reading
    <3>2. clock \in DOMAIN truth'.answered
      BY <1>7, <1>10, <1>12, <1>14, <3>1 DEF Remembered, In, States
    <3>3. clock \notin DOMAIN truth.answered
      BY <1>5 DEF QualityInv, RecordsTrue, RecordTrue
    <3>4. truth'.answered[clock] = Never
      BY <1>14, <3>2, <3>3, PathAssumption DEF Remembered
    <3>5. (Since(clock))' = 0 /\ Reading(clock)' = Reading(clock)
      BY <1>5 DEF Since, Reading
    <3> QED
      BY <1>5, <1>7, <1>12, <3>1, <3>2, <3>4, <3>5 DEF RecordTrue, Young
  <2>3. DOMAIN truth'.answered \subseteq DOMAIN q.records
    BY <1>14 DEF Remembered, In
  <2>4. \A id \in DOMAIN quality'.records : RecordTrue(quality, id)' /\ Young(quality, id)'
    BY <1>5, <1>10, <1>12, <2>1, <2>2
  <2> QED
    BY <1>5, <2>3, <2>4 DEF RecordsTrue
<1>17. ReferenceTrue'
  <2>1. /\ e.started /\ Watched(e) /\ ~e.outage => Since(ref) < TIMEOUT
        /\ Watched(e) <=> Watched(quality)
    BY <1>1, <1>2, ExpireKeeps
  <2>2. Watched(q) <=> Watched(e)
    BY <1>4, <1>12 DEF Watched, LocalFailure
  <2>3. q.started = quality.started /\ q.reference = quality.reference
        /\ (quality.outage => q.outage)
    BY <1>2, <1>12 DEF Expired
  <2>4. Watched(q) /\ ~q.outage => Since(ref) < TIMEOUT
    BY <1>12, <2>1, <2>2 DEF Watched
  <2> QED
    BY <1>1, <1>5, <1>12, <1>14, <2>1, <2>2, <2>3, <2>4, ReferenceKept
<1> QED
  BY <1>14, <1>15, <1>16, <1>17 DEF QualityInv

\* What is true of reference when it is the reading at ref after the call.
LEMMA ReferenceMoved ==
    ASSUME QualityInv, NEW ref \in Nat, NEW q \in Trackers, NEW arrived,
           clock' = clock, quality' = q, Remembered(q, arrived),
           q.started => /\ ref <= clock /\ q.reference = Reading(ref)
                        /\ truth'.heard # Never => truth'.heard <= ref,
           Watched(q) /\ ~q.outage =>
              /\ ref <= truth'.watched \/ (truth'.heard # Never /\ ref <= truth'.heard)
              /\ Since(ref) < TIMEOUT
    PROVE  ReferenceTrue'
<1> USE InvFields
<1>1. truth.watched # Never => truth.watched <= clock
  BY DEF QualityInv, ReferenceTrue
<1>2. Watched(quality)' = Watched(q) /\ Reading(ref)' = Reading(ref) /\ (Since(ref))' = Since(ref)
  BY DEF Watched, LocalFailure, Reading, Since
<1>3. (Watched(quality) <=> truth.watched # Never)'
  BY <1>2, PathAssumption DEF Remembered
<1>4. (truth.watched # Never => truth.watched <= clock)'
  BY <1>1 DEF Remembered
<1>5. ASSUME q.started
      PROVE  ReferenceAt(ref)'
  <2>1. Since(ref) < TIMEOUT => Since(ref) <= TIMEOUT
    BY DEF Since
  <2> QED
    BY <1>2, <1>5, <2>1 DEF ReferenceAt
<1> QED
  BY <1>3, <1>4, <1>5 DEF ReferenceTrue

\* reportLocalTransportSend keeps the invariant: a failure cancels every open
\* probe, and the end of one restarts the time of reference now.
LEMMA LocalTransportSendInv ==
    ASSUME QualityInv, NEW success \in BOOLEAN, LocalTransportSend(success)
    PROVE  QualityInv' /\ OutageStep
<1> USE InvFields
<1> DEFINE e == Expire(quality, Now)
           q == ReportTransportSend(quality, Now, success)
           Cancel(r) == IF r.state = "Pending" THEN Settle(r, "SendFailed") ELSE r
           m == [id \in DOMAIN e.records |-> Cancel(e.records[id])]
           reference == IF e.transportSendFailure /\ ~e.outage THEN Now ELSE e.reference
<1>1. PICK ref \in Nat : /\ quality.started => ReferenceAt(ref)
                         /\ Timed(quality, truth.heard, ref)
  BY QualityTimed
<1>2. Expired(quality, e, truth.heard, ref)
  BY <1>1, ExpireTrue
<1>3. QualityTyped
  BY DEF QualityInv
<1>4. quality' = q /\ Remember(q, Never) /\ Fault(~success)
      /\ UNCHANGED <<clock, due, transport, sending>>
  BY DEF LocalTransportSend, Becomes
<1>5. /\ success => q = [e EXCEPT !.transportSendFailure = FALSE, !.reference = reference]
      /\ ~success => q = [e EXCEPT !.transportSendFailure = TRUE, !.records = m]
  <2>1. e \in Trackers
    BY <1>2 DEF Expired
  <2> QED
    BY <2>1 DEF ReportTransportSend, Trackers
<1> HIDE DEF e, q
<1>6. e \in Trackers /\ e.records \in RecordMaps /\ e.reference \in Int /\ e.outage \in BOOLEAN
      /\ e.transportSendFailure \in BOOLEAN /\ Now \in Int
  BY <1>2, TrackerFields, ReadingDifference DEF Expired, Now, Reading
<1>7. \A id \in DOMAIN e.records : id \in Nat /\ e.records[id] \in Records
                                   /\ RecordTrue(e, id) /\ Young(e, id) /\ id # Never
  BY <1>1, <1>2, <1>6, ExpireKeeps, MapFields, PathAssumption
<1>8. "SendFailed" \in States
  BY DEF States
<1>9. \A id \in DOMAIN e.records :
         /\ m[id] \in Records
         /\ e.records[id].state = "Pending" =>
               m[id].state = "SendFailed" /\ m[id].sent = e.records[id].sent
         /\ e.records[id].state # "Pending" => m[id] = e.records[id]
  <2> TAKE id \in DOMAIN e.records
  <2>1. e.records[id] \in Records
    BY <1>7
  <2>2. /\ Settle(e.records[id], "SendFailed") \in Records
        /\ Settle(e.records[id], "SendFailed").state = "SendFailed"
        /\ Settle(e.records[id], "SendFailed").sent = e.records[id].sent
    BY <2>1, <1>8, SettleTyped
  <2> QED
    BY <2>1, <2>2
<1>10. DOMAIN m = DOMAIN e.records /\ m \in RecordMaps
  <2>1. DOMAIN e.records \in SUBSET Nat
    BY <1>7
  <2>2. m \in [DOMAIN e.records -> Records]
    BY <1>9
  <2> QED
    BY <2>1, <2>2, MapTyped
<1> HIDE DEF m
<1>11. reference \in Int
  BY <1>6
<1> HIDE DEF reference
<1>12. /\ success => Patched(e, q, e.records, reference, e.queueSendFailure, FALSE, e.started)
       /\ ~success => Patched(e, q, m, e.reference, e.queueSendFailure, TRUE, e.started)
  <2>1. CASE success
    BY <2>1, <1>5, <1>6, <1>11, PatchReference
  <2>2. CASE ~success
    BY <2>2, <1>5, <1>6, <1>10, PatchTransport
  <2> QED
    BY <2>1, <2>2
<1>13. /\ q \in Trackers /\ q.outage = e.outage /\ q.enabled = e.enabled
       /\ q.recoveryReplies = e.recoveryReplies /\ q.hasReply = e.hasReply
       /\ q.lastReply = e.lastReply /\ q.rtt = e.rtt /\ q.started = e.started
       /\ q.queueSendFailure = e.queueSendFailure /\ DOMAIN q.records = DOMAIN e.records
  BY <1>10, <1>12 DEF Patched
<1>14. \A id \in DOMAIN e.records :
         \/ q.records[id] = e.records[id]
         \/ /\ e.records[id].state = "Pending" /\ q.records[id].state = "SendFailed"
            /\ q.records[id].sent = e.records[id].sent
  BY <1>9, <1>12 DEF Patched
<1>15. Replied(q) = Replied(e)
  BY <1>13, <1>14 DEF Replied, In
<1>16. /\ Remembered(q, Never) /\ truth'.heard = truth.heard
       /\ HeardTrue' /\ OutageTrue' /\ RecoveryPrompt' /\ OutageStep
  BY <1>1, <1>2, <1>4, <1>13, <1>15, AfterExpire
<1>17. QualityTyped'
  <2>1. faults' \in 0..MaxFaults
    BY <1>3, <1>4, ClockAssumption DEF Fault, QualityTyped
  <2>2. q.enabled = quality.enabled
    BY <1>2, <1>13 DEF Expired
  <2> QED
    BY <2>1, <2>2, <1>3, <1>4, <1>13, <1>16 DEF QualityTyped, Remembered
<1>18. RecordsTrue'
  <2>1. ASSUME NEW id \in DOMAIN e.records
        PROVE  RecordTrue(quality, id)' /\ Young(quality, id)'
    <3>1. id \in Nat /\ e.records[id] \in Records /\ RecordTrue(e, id) /\ Young(e, id)
          /\ id # Never /\ id \in DOMAIN q.records
      BY <1>7, <1>13
    <3>2. CASE q.records[id] = e.records[id]
      <4>1. e.records[id].state = "Pending" => q.enabled
        BY <3>1, <1>13 DEF RecordTrue
      <4>2. RecordTrue(quality, id)'
        BY <1>4, <1>6, <1>13, <1>16, <3>1, <3>2, <4>1, RecordStays
      <4>3. Young(quality, id)'
        BY <1>4, <3>1, <3>2 DEF Young, Since
      <4> QED
        BY <4>2, <4>3
    <3>3. CASE q.records[id].state = "SendFailed" /\ q.records[id].sent = e.records[id].sent
      <4>1. id \notin DOMAIN truth'.answered
        BY <1>16, <3>3 DEF Remembered, In
      <4> QED
        BY <1>4, <3>1, <3>3, <4>1 DEF RecordTrue, Young, Since, Reading
    <3> QED
      BY <1>14, <3>2, <3>3
  <2>2. DOMAIN truth'.answered \subseteq DOMAIN q.records
    BY <1>16 DEF Remembered, In
  <2> QED
    BY <1>4, <1>13, <2>1, <2>2 DEF RecordsTrue
<1>19. ReferenceTrue'
  <2>1. /\ e.started /\ Watched(e) /\ ~e.outage => Since(ref) < TIMEOUT
        /\ Watched(e) <=> Watched(quality)
    BY <1>1, <1>2, ExpireKeeps
  <2>2. e.reference = quality.reference /\ e.started = quality.started
        /\ (quality.outage => e.outage)
    BY <1>2 DEF Expired
  <2>3. quality.started => ref <= clock /\ quality.reference = Reading(ref)
                           /\ (truth.heard # Never => truth.heard <= ref)
    BY <1>1 DEF ReferenceAt
  <2>4. CASE success /\ ~e.transportSendFailure
    <3>1. q.reference = quality.reference /\ (Watched(q) <=> Watched(quality))
      BY <2>1, <2>2, <2>4, <1>12, <1>13 DEF Patched, Watched, LocalFailure, reference
    <3>2. Watched(q) /\ ~q.outage => Since(ref) < TIMEOUT
      BY <2>1, <3>1, <1>13 DEF Watched
    <3> QED
      BY <1>1, <1>4, <1>13, <1>16, <2>2, <3>1, <3>2, ReferenceKept
  <2>5. CASE success /\ e.transportSendFailure /\ ~e.outage
    <3>1. q.reference = Reading(clock)
      BY <2>5, <1>12 DEF Patched, reference, Now, Reading
    <3>2. truth.watched = Never
      BY <2>1, <2>5 DEF Watched, LocalFailure, QualityInv, ReferenceTrue
    <3>3. Watched(q) => truth'.watched = clock
      BY <3>2, <1>16 DEF Remembered
    <3>4. truth'.heard # Never => truth'.heard <= clock
      BY <1>16 DEF QualityInv, HeardTrue
    <3>5. Since(clock) < TIMEOUT
      BY DEF Since
    <3> QED
      BY <1>4, <1>13, <1>16, <3>1, <3>3, <3>4, <3>5, ReferenceMoved
  <2>6. CASE ~success \/ (e.transportSendFailure /\ e.outage)
    <3>1. q.reference = quality.reference
      BY <2>2, <2>6, <1>12 DEF Patched, reference
    <3>2. ~Watched(q) \/ q.outage
      BY <2>6, <1>12, <1>13 DEF Patched, Watched, LocalFailure
    <3> QED
      BY <1>4, <1>13, <1>16, <2>2, <2>3, <3>1, <3>2, ReferenceMoved
  <2> QED
    BY <2>4, <2>5, <2>6, <1>6
<1> QED
  BY <1>16, <1>17, <1>18, <1>19 DEF QualityInv

\* handleLatencyProbe keeps the invariant: an answer is accepted only for a
\* probe that is still open, early, late and repeated answers included.
LEMMA HandleLatencyPongInv ==
    ASSUME QualityInv, NEW pong \in 0..clock, HandleLatencyPong(pong)
    PROVE  QualityInv' /\ OutageStep
<1> USE InvFields
<1> DEFINE e == Expire(quality, Now)
           q == Reply(quality, pong, Now)
           open == IsPending(e, pong) /\ Age(Now, e.records[pong].sent) < TIMEOUT
<1>1. PICK ref \in Nat : /\ quality.started => ReferenceAt(ref)
                         /\ Timed(quality, truth.heard, ref)
  BY QualityTimed
<1>2. Expired(quality, e, truth.heard, ref)
  BY <1>1, ExpireTrue
<1>3. QualityTyped
  BY DEF QualityInv
<1>4. quality' = q /\ Remember(q, pong) /\ UNCHANGED <<clock, due, transport, sending, faults>>
      /\ transport # NoPath
  BY DEF HandleLatencyPong, Becomes
<1>5. e.enabled = TRUE /\ e \in Trackers /\ e.started = quality.started
  BY <1>2, <1>3, <1>4 DEF QualityTyped, Expired
<1>6. e.records \in RecordMaps /\ e.outage \in BOOLEAN /\ e.recoveryReplies \in 0..1
      /\ Now \in Int /\ Now = Reading(clock) /\ pong \in Nat /\ pong \in 0..Horizon
  BY <1>5, TrackerFields, ReadingDifference DEF Now, Reading
<1>7. \A id \in DOMAIN e.records :
         /\ id \in Nat /\ e.records[id] \in Records /\ id \in DOMAIN quality.records
         /\ RecordTrue(e, id) /\ Young(e, id)
  BY <1>1, <1>2, <1>6, ExpireKeeps, MapFields
<1>8. pong \in DOMAIN e.records =>
         Age(Now, e.records[pong].sent) = Since(pong) /\ Since(pong) \in Int
  <2>1. SUFFICES ASSUME pong \in DOMAIN e.records
                 PROVE  Age(Now, e.records[pong].sent) = Since(pong) /\ Since(pong) \in Int
    OBVIOUS
  <2>2. e.records[pong].sent = Reading(pong) /\ pong <= clock
    BY <2>1, <1>7 DEF RecordTrue
  <2> QED
    BY <2>2, <1>6, ReadingsTrue DEF Since
<1>9. q = IF ~open THEN e
          ELSE IF e.records[pong].committed THEN AcceptReply(e, pong, Now)
          ELSE IF e.records[pong].earlyReply THEN e
          ELSE [e EXCEPT !.records[pong].earlyReply = TRUE, !.records[pong].replyAt = Now]
  <2>1. open <=> ~(~IsPending(e, pong) \/ Age(Now, e.records[pong].sent) >= TIMEOUT)
    BY <1>8 DEF IsPending
  <2> HIDE DEF open
  <2> QED
    BY <2>1, <1>5 DEF Reply
<1>10. open => pong \in DOMAIN e.records /\ e.records[pong].state = "Pending"
               /\ Since(pong) < TIMEOUT
  BY <1>8 DEF IsPending
<1>11. /\ Replied(e) \subseteq Replied(quality)
       /\ Watched(e) <=> Watched(quality)
       /\ e.started /\ Watched(e) /\ ~e.outage => Since(ref) < TIMEOUT
       /\ OutageFollows(e.outage, e.recoveryReplies)
       /\ e.outage /\ ~quality.outage =>
             /\ Watched(quality)
             /\ truth.heard = Never \/ Since(truth.heard) >= TIMEOUT
  BY <1>1, <1>2, ExpireKeeps
<1>12. /\ e.reference = quality.reference /\ (quality.outage => e.outage)
       /\ e.hasReply = quality.hasReply
  BY <1>2 DEF Expired
\* A call that changes at most what is kept of the pending probe.
<1>13. ASSUME q \in Trackers, Replied(q) = Replied(e), q.outage = e.outage,
              q.recoveryReplies = e.recoveryReplies, q.hasReply = e.hasReply,
              q.lastReply = e.lastReply, q.rtt = e.rtt, q.started = e.started,
              q.enabled = e.enabled, q.reference = e.reference, Watched(q) <=> Watched(e),
              DOMAIN q.records = DOMAIN e.records,
              \A id \in DOMAIN e.records : id # pong => q.records[id] = e.records[id],
              pong \in DOMAIN e.records =>
                 \/ /\ q.records[pong] = e.records[pong]
                    /\ open => e.records[pong].earlyReply
                 \/ /\ e.records[pong].state = "Pending" /\ ~e.records[pong].committed
                    /\ Since(pong) < TIMEOUT
                    /\ q.records[pong].state = "Pending" /\ ~q.records[pong].committed
                    /\ q.records[pong].earlyReply /\ q.records[pong].replyAt = Now
                    /\ q.records[pong].sent = e.records[pong].sent
                    /\ ~e.records[pong].earlyReply
       PROVE  QualityInv' /\ OutageStep
  <2> HIDE DEF e, q
  <2>1. /\ Remembered(q, pong) /\ truth'.heard = truth.heard
        /\ HeardTrue' /\ OutageTrue' /\ RecoveryPrompt' /\ OutageStep
    BY <1>1, <1>2, <1>4, <1>13, AfterExpire
  <2>2. QualityTyped'
    BY <1>3, <1>4, <1>5, <1>13, <2>1 DEF QualityTyped, Remembered
  <2>3. ReferenceTrue'
    <3>1. Watched(q) /\ ~q.outage => Since(ref) < TIMEOUT
      BY <1>11, <1>13 DEF Watched
    <3> QED
      BY <1>1, <1>4, <1>5, <1>11, <1>12, <1>13, <2>1, <3>1, ReferenceKept
  <2>4. RecordsTrue'
    <3>1. ASSUME NEW id \in DOMAIN e.records, q.records[id] = e.records[id],
                 id = pong /\ open => e.records[id].earlyReply
          PROVE  RecordTrue(quality, id)' /\ Young(quality, id)'
      <4>1. id \in Nat /\ e.records[id] \in Records /\ RecordTrue(e, id) /\ Young(e, id)
            /\ id \in DOMAIN q.records
        BY <1>7, <1>13
      <4>2. e.records[id].state = "Pending" =>
               q.enabled /\ (id # pong \/ Since(id) >= TIMEOUT \/ e.records[id].earlyReply)
        BY <3>1, <4>1, <1>5, <1>8, <1>13 DEF IsPending, Since
      <4>3. RecordTrue(quality, id)'
        BY <1>4, <1>5, <1>13, <2>1, <3>1, <4>1, <4>2, RecordStays
      <4>4. Young(quality, id)'
        BY <1>4, <3>1, <4>1 DEF Young, Since
      <4> QED
        BY <4>3, <4>4
    <3>2. ASSUME pong \in DOMAIN e.records, q.records[pong] # e.records[pong]
          PROVE  RecordTrue(quality, pong)' /\ Young(quality, pong)'
      <4>1. RecordTrue(e, pong) /\ Young(e, pong) /\ e.records[pong] \in Records
        BY <3>2, <1>7
      <4>2. /\ e.records[pong].state = "Pending" /\ ~e.records[pong].committed
            /\ Since(pong) < TIMEOUT
            /\ q.records[pong].state = "Pending" /\ ~q.records[pong].committed
            /\ q.records[pong].earlyReply /\ q.records[pong].replyAt = Now
            /\ q.records[pong].sent = e.records[pong].sent /\ ~e.records[pong].earlyReply
        BY <3>2, <1>13
      <4>3. pong \in DOMAIN truth'.answered /\ pong \in DOMAIN truth.answered
            /\ truth.answered[pong] = Never
        BY <3>2, <4>1, <4>2, <1>13, <2>1 DEF RecordTrue, Remembered, In, States
      <4>4. truth'.answered[pong] = clock
        BY <4>2, <4>3, <2>1 DEF Remembered
      <4>5. (Since(pong))' = Since(pong) /\ Reading(pong)' = Reading(pong)
            /\ Reading(clock)' = Reading(clock)
        BY <1>4 DEF Since, Reading
      <4> QED
        BY <1>4, <1>5, <1>6, <1>13, <4>1, <4>2, <4>3, <4>4, <4>5 DEF RecordTrue, Young
    <3>3. DOMAIN truth'.answered \subseteq DOMAIN q.records
      BY <2>1 DEF Remembered, In
    <3>4. \A id \in DOMAIN quality'.records : RecordTrue(quality, id)' /\ Young(quality, id)'
      BY <1>4, <1>13, <3>1, <3>2
    <3> QED
      BY <1>4, <3>3, <3>4 DEF RecordsTrue
  <2> QED
    BY <2>1, <2>2, <2>3, <2>4 DEF QualityInv
<1>14. CASE ~open \/ (~e.records[pong].committed /\ e.records[pong].earlyReply)
  <2>1. q = e
    BY <1>9, <1>14
  <2> HIDE DEF e, q
  <2>2. open => e.records[pong].earlyReply
    BY <1>14
  <2> HIDE DEF open
  <2> QED
    BY <1>5, <1>13, <2>1, <2>2
<1>15. CASE open /\ ~e.records[pong].committed /\ ~e.records[pong].earlyReply
  <2> DEFINE r == [e.records[pong] EXCEPT !.earlyReply = TRUE, !.replyAt = Now]
             m == [e.records EXCEPT ![pong] = r]
  <2>1. q = [e EXCEPT !.records[pong].earlyReply = TRUE, !.records[pong].replyAt = Now]
    BY <1>9, <1>15
  <2> HIDE DEF e, q
  <2>2. pong \in DOMAIN e.records /\ e.records[pong] \in Records
        /\ e.records[pong].state = "Pending" /\ Since(pong) < TIMEOUT
    BY <1>7, <1>10, <1>15
  <2>3. q = [e EXCEPT !.records = m]
    BY <2>1, <2>2, <1>5 DEF Trackers, Records
  <2>4. r \in Records
    <3>1. [e.records[pong] EXCEPT !.earlyReply = TRUE] \in Records
      BY <2>2, RecordSet
    <3> QED
      BY <3>1, <1>6, RecordSet
  <2>5. r.state = "Pending" /\ r.committed = e.records[pong].committed
        /\ r.earlyReply = TRUE /\ r.replyAt = Now /\ r.sent = e.records[pong].sent
    BY <2>2 DEF Records
  <2> HIDE DEF r
  <2>6. /\ m \in RecordMaps /\ DOMAIN m = DOMAIN e.records /\ m[pong] = r
        /\ \A id \in DOMAIN e.records : id # pong => m[id] = e.records[id]
    BY <2>2, <2>4, <1>6, MapFields
  <2> HIDE DEF m
  <2>7. Patched(e, q, m, e.reference, e.queueSendFailure, e.transportSendFailure, e.started)
    BY <2>3, <2>6, <1>5, PatchRecords
  <2>8. /\ q \in Trackers /\ q.records = m /\ q.outage = e.outage
        /\ q.recoveryReplies = e.recoveryReplies /\ q.hasReply = e.hasReply
        /\ q.lastReply = e.lastReply /\ q.rtt = e.rtt /\ q.started = e.started
        /\ q.enabled = e.enabled /\ q.reference = e.reference
        /\ q.queueSendFailure = e.queueSendFailure
        /\ q.transportSendFailure = e.transportSendFailure
    BY <2>7 DEF Patched
  <2>9. Watched(q) <=> Watched(e)
    BY <2>8 DEF Watched, LocalFailure
  <2>10. Replied(q) = Replied(e)
    BY <2>2, <2>5, <2>6, <2>8 DEF Replied, In
  <2>11. ~q.records[pong].committed /\ q.records[pong].earlyReply
        /\ q.records[pong].state = "Pending" /\ q.records[pong].replyAt = Now
        /\ q.records[pong].sent = e.records[pong].sent
    BY <1>15, <2>5, <2>6, <2>8
  <2>12. DOMAIN q.records = DOMAIN e.records
         /\ \A id \in DOMAIN e.records : id # pong => q.records[id] = e.records[id]
    BY <2>6, <2>8
  <2> HIDE DEF open
  <2> QED
    BY <1>13, <1>15, <2>2, <2>8, <2>9, <2>10, <2>11, <2>12
<1>16. CASE open /\ e.records[pong].committed
  <2>1. q = AcceptReply(e, pong, Now)
    BY <1>9, <1>16
  <2> HIDE DEF e, q
  <2>2. pong \in DOMAIN e.records /\ e.records[pong] \in Records
        /\ e.records[pong].state = "Pending" /\ Since(pong) < TIMEOUT
        /\ RecordTrue(e, pong) /\ Young(e, pong)
    BY <1>7, <1>10, <1>16
  <2>3. Accepted(e, q, pong, Now)
    BY <2>1, <2>2, <1>5, <1>6, <1>8, AcceptFields
  <2>4. q \in Trackers /\ q.enabled = TRUE /\ q.started /\ q.hasReply
        /\ q.lastReply = Reading(clock) /\ q.reference = Reading(clock)
        /\ q.rtt = clock - pong /\ DOMAIN q.records = DOMAIN e.records
    BY <1>5, <1>6, <1>8, <1>16, <2>2, <2>3 DEF Accepted, RecordTrue, Since
  <2>5. /\ q.records[pong].state = "Replied" /\ q.records[pong].sent = e.records[pong].sent
        /\ \A id \in DOMAIN e.records : id # pong => q.records[id] = e.records[id]
    <3>1. "Replied" \in States /\ q.records[pong] = Settle(e.records[pong], "Replied")
      BY <2>3 DEF Accepted, States
    <3> QED
      <4>1. /\ Settle(e.records[pong], "Replied").state = "Replied"
            /\ Settle(e.records[pong], "Replied").sent = e.records[pong].sent
        BY <2>2, <3>1, SettleTyped
      <4> QED
        BY <2>3, <3>1, <4>1 DEF Accepted
  <2>6. Replied(q) = Replied(e) \cup {pong} /\ pong \notin Replied(quality)
    <3>1. Replied(q) = Replied(e) \cup {pong}
      BY <2>2, <2>4, <2>5 DEF Replied, In
    <3>2. quality.records[pong].state = "Pending"
      <4>1. \/ e.records[pong] = quality.records[pong]
            \/ e.records[pong] = Settle(quality.records[pong], "TimedOut")
        BY <1>2, <2>2 DEF Expired
      <4>2. "TimedOut" \in States /\ quality.records[pong] \in Records
        BY <1>7, <2>2 DEF States
      <4>3. Settle(quality.records[pong], "TimedOut").state = "TimedOut"
        BY <4>2, SettleTyped
      <4> QED
        BY <2>2, <4>1, <4>3
    <3> QED
      BY <3>1, <3>2 DEF Replied, In
  <2>7. Remembered(q, pong) /\ Answered(q, pong)
    <3>1. Replied(q) \ Replied(quality) = {pong}
      BY <2>6, <1>11
    <3> QED
      BY <3>1, <1>3, <1>4, <2>4, RememberFields
  <2>8. truth'.answered[pong] = clock /\ truth'.heard = clock
    <3>1. truth.answered[pong] = Never
      BY <1>16, <2>2 DEF RecordTrue
    <3>2. pong \in DOMAIN truth'.answered
      BY <2>4, <2>5, <2>2, <2>7 DEF Remembered, In, States
    <3>3. truth'.answered[pong] = clock
      BY <2>2, <2>7, <3>1, <3>2 DEF Remembered
    <3> QED
      BY <2>4, <2>7, <3>3 DEF Answered
  <2>9. /\ HeardTrue' /\ OutageTrue' /\ RecoveryPrompt'
        /\ quality.outage /\ ~q.outage => truth'.answers = 2
    <3>1. pong \in Replied(q) /\ \A i \in Replied(q) : i # pong => i \in Replied(quality)
      BY <2>6, <1>11
    <3>2. /\ q.outage <=> e.outage /\ e.recoveryReplies = 0
          /\ q.recoveryReplies = IF ~e.outage THEN e.recoveryReplies
                                 ELSE IF e.recoveryReplies = 0 THEN 1 ELSE 0
      BY <2>3 DEF Accepted
    <3>3. pong <= clock
      OBVIOUS
    <3> QED
      BY <1>4, <1>6, <1>11, <2>4, <2>7, <2>8, <3>1, <3>2, <3>3, AnswerAccepted
  <2>10. OutageStep
    <3>1. q.outage => e.outage
      BY <2>3 DEF Accepted
    <3> QED
      BY <1>4, <1>11, <2>9, <3>1 DEF OutageStep
  <2>11. QualityTyped'
    BY <1>3, <1>4, <2>4, <2>7 DEF QualityTyped, Remembered
  <2>12. ReferenceTrue'
    <3>1. Since(clock) < TIMEOUT /\ clock # Never
      BY PathAssumption DEF Since
    <3> QED
      BY <1>4, <2>4, <2>7, <2>8, <3>1, ReferenceMoved
  <2>13. RecordsTrue'
    <3>1. ASSUME NEW id \in DOMAIN e.records, id # pong
          PROVE  RecordTrue(quality, id)' /\ Young(quality, id)'
      <4>1. id \in Nat /\ e.records[id] \in Records /\ RecordTrue(e, id) /\ Young(e, id)
            /\ id \in DOMAIN q.records /\ q.records[id] = e.records[id]
        BY <1>7, <2>4, <2>5, <3>1
      <4>2. truth.heard # Never => truth'.heard # Never /\ truth.heard <= truth'.heard
        BY <2>8, PathAssumption DEF QualityInv, HeardTrue
      <4>3. RecordTrue(quality, id)'
        BY <1>4, <1>5, <2>4, <2>7, <3>1, <4>1, <4>2, RecordStays
      <4>4. Young(quality, id)'
        BY <1>4, <4>1 DEF Young, Since
      <4> QED
        BY <4>3, <4>4
    <3>2. RecordTrue(quality, pong)' /\ Young(quality, pong)'
      <4>1. pong \in DOMAIN truth'.answered
        BY <2>4, <2>5, <2>2, <2>7 DEF Remembered, In, States
      <4>2. (Since(pong))' = Since(pong) /\ Reading(pong)' = Reading(pong)
        BY <1>4 DEF Since, Reading
      <4>3. clock < pong + TIMEOUT /\ pong <= clock /\ clock # Never
        BY <2>2, <1>6, PathAssumption DEF Since
      <4> QED
        BY <1>4, <2>2, <2>5, <2>8, <4>1, <4>2, <4>3 DEF RecordTrue, Young
    <3>3. DOMAIN truth'.answered \subseteq DOMAIN q.records
      BY <2>7 DEF Remembered, In
    <3>4. \A id \in DOMAIN quality'.records : RecordTrue(quality, id)' /\ Young(quality, id)'
      BY <1>4, <2>4, <3>1, <3>2
    <3> QED
      BY <1>4, <3>3, <3>4 DEF RecordsTrue
  <2> QED
    BY <2>9, <2>10, <2>11, <2>12, <2>13 DEF QualityInv
<1> QED
  <2>1. open => /\ e.records[pong].committed \in BOOLEAN
                /\ e.records[pong].earlyReply \in BOOLEAN
    BY <1>7, <1>10, RecordFields
  <2> HIDE DEF open
  <2> QED
    BY <1>14, <1>15, <1>16, <2>1

\* q is the tracker c after one or more calls of expire that find no record too
\* old: at most they raise the outage.
Calm(c, q, ref) ==
    /\ q \in Trackers
    /\ q.pathKind = c.pathKind /\ q.enabled = c.enabled /\ q.started = c.started
    /\ q.queueSendFailure = c.queueSendFailure
    /\ q.transportSendFailure = c.transportSendFailure
    /\ q.hasReply = c.hasReply /\ q.reference = c.reference
    /\ q.lastReply = c.lastReply /\ q.rtt = c.rtt
    /\ DOMAIN q.records = DOMAIN c.records
    /\ \A id \in DOMAIN c.records : q.records[id] = c.records[id]
    /\ q.outage <=> c.outage \/ SilentSince(c, ref)
    /\ q.recoveryReplies = IF SilentSince(c, ref) THEN 0 ELSE c.recoveryReplies

\* Where no record is old or late, expire can only raise an outage, and a second
\* call at the same time changes nothing more.
LEMMA ExpireCalm ==
    ASSUME NEW c, NEW heard, NEW ref, clock \in 0..Horizon, Timed(c, heard, ref),
           \A id \in DOMAIN c.records : Since(id) < WINDOW /\ ~LostIn(c, id)
    PROVE  /\ Calm(c, Expire(c, Now), ref)
           /\ Calm(c, Expire(Expire(c, Now), Now), ref)
<1> DEFINE e == Expire(c, Now)
           f == Expire(e, Now)
<1>1. Expired(c, e, heard, ref)
  BY ExpireTrue
<1>2. ~LossAfter(c, heard)
  BY DEF LossAfter
<1> HIDE DEF e
<1>3. Calm(c, e, ref)
  BY <1>1, <1>2 DEF Calm, Expired
<1>4. Timed(e, heard, ref)
  BY <1>3 DEF Timed, Calm
<1>5. Expired(e, f, heard, ref)
  BY <1>4, ExpireTrue
<1> HIDE DEF f
<1>6. /\ ~LossAfter(e, heard)
      /\ \A id \in DOMAIN e.records : Since(id) < WINDOW /\ ~LostIn(e, id)
  BY <1>3 DEF LossAfter, LostIn, Calm
<1>7. SilentSince(e, ref) <=> SilentSince(c, ref)
  BY <1>3 DEF SilentSince, Watched, LocalFailure, Calm
<1>8. DOMAIN f.records = DOMAIN c.records /\ \A id \in DOMAIN c.records : f.records[id] = c.records[id]
  BY <1>3, <1>5, <1>6 DEF Calm, Expired
<1>9. /\ f.outage <=> c.outage \/ SilentSince(c, ref)
      /\ f.recoveryReplies = IF SilentSince(c, ref) THEN 0 ELSE c.recoveryReplies
  BY <1>3, <1>5, <1>6, <1>7 DEF Calm, Expired
<1>10. /\ f \in Trackers
       /\ f.pathKind = c.pathKind /\ f.enabled = c.enabled /\ f.started = c.started
       /\ f.queueSendFailure = c.queueSendFailure
       /\ f.transportSendFailure = c.transportSendFailure
       /\ f.hasReply = c.hasReply /\ f.reference = c.reference
       /\ f.lastReply = c.lastReply /\ f.rtt = c.rtt
  BY <1>3, <1>5 DEF Calm, Expired
<1>11. Calm(c, f, ref)
  BY <1>8, <1>9, <1>10 DEF Calm
<1> QED
  BY <1>3, <1>11 DEF e, f

\* sendControlPacket returns and the probe is not pending any more.
LEMMA SendForgotten ==
    ASSUME QualityInv, NEW success \in BOOLEAN, SendControlPacketReturns(success),
           ~IsPending(quality, sending)
    PROVE  QualityInv' /\ OutageStep
<1> USE InvFields
<1> DEFINE e == Expire(quality, Now)
<1>1. PICK ref \in Nat : /\ quality.started => ReferenceAt(ref)
                         /\ Timed(quality, truth.heard, ref)
  BY QualityTimed
<1>2. Expired(quality, e, truth.heard, ref)
  BY <1>1, ExpireTrue
<1>3. QualityTyped
  BY DEF QualityInv
<1>4. quality' = e /\ Remember(e, Never) /\ sending # Never /\ sending' = Never
      /\ Fault(~success) /\ UNCHANGED <<clock, due, transport>>
  <2>1. CompleteSend(quality, sending, Now, success) = quality
    BY DEF CompleteSend
  <2> QED
    BY <2>1 DEF SendControlPacketReturns, Becomes
<1> HIDE DEF e
<1>5. e \in Trackers /\ e.enabled = quality.enabled /\ e.started = quality.started
      /\ e.reference = quality.reference /\ (quality.outage => e.outage)
  BY <1>2 DEF Expired
<1>6. /\ Remembered(e, Never) /\ truth'.heard = truth.heard
      /\ HeardTrue' /\ OutageTrue' /\ RecoveryPrompt' /\ OutageStep
  BY <1>1, <1>2, <1>4, <1>5, AfterExpire
<1>7. /\ \A id \in DOMAIN e.records : RecordTrue(e, id) /\ Young(e, id)
      /\ \A id \in DOMAIN e.records : id \in DOMAIN quality.records
      /\ e.started /\ Watched(e) /\ ~e.outage => Since(ref) < TIMEOUT
      /\ Watched(e) <=> Watched(quality)
  BY <1>1, <1>2, ExpireKeeps
<1>8. QualityTyped'
  <2>1. faults' \in 0..MaxFaults
    BY <1>3, <1>4, ClockAssumption DEF Fault, QualityTyped
  <2> QED
    BY <2>1, <1>3, <1>4, <1>5, <1>6 DEF QualityTyped, Remembered, Times
<1>9. ReferenceTrue'
  <2>1. Watched(e) /\ ~e.outage => Since(ref) < TIMEOUT
    BY <1>7 DEF Watched
  <2> QED
    BY <2>1, <1>1, <1>4, <1>5, <1>6, <1>7, ReferenceKept
<1>10. RecordsTrue'
  <2>1. ASSUME NEW id \in DOMAIN e.records
        PROVE  RecordTrue(quality, id)' /\ Young(quality, id)'
    <3>1. id \in Nat /\ e.records[id] \in Records /\ id # Never
      BY <1>5, TrackerFields, MapFields, PathAssumption
    <3>2. e.records[id].state = "Pending" => e.enabled /\ e.records[id].committed
      <4>1. SUFFICES ASSUME e.records[id].state = "Pending", ~e.records[id].committed
                     PROVE  FALSE
        BY <1>7 DEF RecordTrue
      <4>2. id = sending
        BY <4>1, <1>7 DEF RecordTrue
      <4>3. \/ e.records[id] = quality.records[id]
            \/ e.records[id] = Settle(quality.records[id], "TimedOut")
        BY <1>2 DEF Expired
      <4>4. "TimedOut" \in States /\ quality.records[id] \in Records
        BY <1>7 DEF States
      <4>5. Settle(quality.records[id], "TimedOut").state = "TimedOut"
        BY <4>4, SettleTyped
      <4>6. IsPending(quality, id)
        BY <4>1, <4>3, <4>5, <1>7 DEF IsPending
      <4> QED
        BY <4>2, <4>6
    <3>3. RecordTrue(quality, id)'
      BY <1>4, <1>5, <1>6, <1>7, <3>1, <3>2, RecordStays
    <3>4. Young(quality, id)'
      BY <1>4, <1>7 DEF Young, Since
    <3> QED
      BY <3>3, <3>4
  <2>2. DOMAIN truth'.answered \subseteq DOMAIN e.records
    BY <1>6 DEF Remembered, In
  <2> QED
    BY <1>4, <2>1, <2>2 DEF RecordsTrue
<1> QED
  BY <1>6, <1>8, <1>9, <1>10 DEF QualityInv

\* The records stay true when one call changes only that of the probe that is
\* handed over, and none is too old.
LEMMA OthersStay ==
    ASSUME QualityInv, ~due, clock' = clock, due' = due, NEW q \in Trackers, quality' = q,
           Remembered(q, Never),
           NEW probe \in Nat, probe = sending, DOMAIN q.records = DOMAIN quality.records,
           \A id \in DOMAIN quality.records : id # probe => q.records[id] = quality.records[id],
           q.enabled = quality.enabled, quality.started => q.started,
           truth.heard # Never => truth'.heard # Never /\ truth.heard <= truth'.heard,
           RecordTrue(quality, probe)' /\ Young(quality, probe)'
    PROVE  RecordsTrue'
<1> USE InvFields
<1>1. ASSUME NEW id \in DOMAIN quality.records, id # probe
      PROVE  RecordTrue(quality, id)' /\ Young(quality, id)'
  <2>1. RecordTrue(quality, id) /\ Young(quality, id) /\ id \in Nat /\ id # Never
        /\ quality.records[id] \in Records /\ id \in DOMAIN q.records
        /\ q.records[id] = quality.records[id]
    BY <1>1, PathAssumption DEF QualityInv, RecordsTrue
  <2>2. quality.records[id].state = "Pending" => q.enabled /\ quality.records[id].committed
    BY <2>1, <1>1 DEF RecordTrue
  <2>3. RecordTrue(quality, id)'
    BY <2>1, <2>2, RecordStays
  <2>4. Young(quality, id)'
    BY <2>1 DEF Young, Since
  <2> QED
    BY <2>3, <2>4
<1>2. DOMAIN truth'.answered \subseteq DOMAIN q.records
  BY DEF Remembered, In
<1>3. \A id \in DOMAIN quality'.records : RecordTrue(quality, id)' /\ Young(quality, id)'
  BY <1>1
<1> QED
  BY <1>2, <1>3 DEF RecordsTrue

\* The probe that is handed over, and the records around it.
LEMMA HandedOver ==
    ASSUME QualityInv, NEW success \in BOOLEAN, SendControlPacketReturns(success),
           IsPending(quality, sending)
    PROVE  /\ sending = clock /\ sending \in Nat /\ ~due /\ sending \in DOMAIN quality.records
           /\ quality.records[sending] \in Records
           /\ quality.records[sending].state = "Pending" /\ quality.enabled = TRUE
           /\ quality.records[sending].sent = Reading(clock) /\ quality.records \in RecordMaps
           /\ quality.records[sending].earlyReply =>
                 /\ quality.records[sending].replyAt = Reading(clock)
                 /\ truth.answered[sending] = clock
           /\ ~quality.records[sending].earlyReply => truth.answered[sending] = Never
           /\ sending \in DOMAIN truth.answered
           /\ \A id \in DOMAIN quality.records :
                 /\ id \in Nat /\ id <= clock /\ quality.records[id].sent = Reading(id)
                 /\ Since(id) < WINDOW /\ ~LostIn(quality, id)
<1> USE InvFields
<1>1. sending # Never /\ QualityTyped /\ RecordsTrue
  BY DEF SendControlPacketReturns, QualityInv
<1>2. sending = clock /\ ~due
  BY <1>1 DEF QualityTyped
<1>3. sending \in DOMAIN quality.records /\ quality.records[sending].state = "Pending"
  BY DEF IsPending
<1>4. RecordTrue(quality, sending)
  BY <1>1, <1>3 DEF RecordsTrue
<1>5. /\ quality.enabled /\ quality.records[sending].sent = Reading(clock)
      /\ sending \in DOMAIN truth.answered
      /\ quality.records[sending].earlyReply =>
            /\ quality.records[sending].replyAt = Reading(clock)
            /\ truth.answered[sending] = clock
      /\ ~quality.records[sending].earlyReply => truth.answered[sending] = Never
  BY <1>2, <1>3, <1>4 DEF RecordTrue
<1>6. ASSUME NEW id \in DOMAIN quality.records
      PROVE  /\ id \in Nat /\ id <= clock /\ quality.records[id].sent = Reading(id)
             /\ Since(id) < WINDOW /\ ~LostIn(quality, id)
  <2>1. RecordTrue(quality, id) /\ Young(quality, id) /\ id \in Nat
    BY <1>1, <1>2 DEF RecordsTrue
  <2> QED
    BY <2>1 DEF RecordTrue, Young, LostIn, Since
<1>7. quality.records \in RecordMaps
  BY TrackerFields
<1> QED
  BY <1>2, <1>3, <1>5, <1>6, <1>7

\* The transport did not take the probe, or has refused one since.
LEMMA SendRefused ==
    ASSUME QualityInv, NEW success \in BOOLEAN, SendControlPacketReturns(success),
           IsPending(quality, sending), ~success \/ quality.transportSendFailure
    PROVE  QualityInv' /\ OutageStep
<1> USE InvFields
<1> DEFINE settled == Settle(quality.records[sending], "SendFailed")
           m == [quality.records EXCEPT ![sending] = settled]
           c == [quality EXCEPT !.queueSendFailure = ~success, !.records = m]
           q == Expire(c, Now)
<1>1. PICK ref \in Nat : /\ quality.started => ReferenceAt(ref)
                         /\ Timed(quality, truth.heard, ref)
  BY QualityTimed
<1>2. QualityTyped
  BY DEF QualityInv
<1>3. /\ sending = clock /\ sending \in Nat /\ ~due /\ sending \in DOMAIN quality.records
      /\ quality.records[sending] \in Records /\ quality.records \in RecordMaps
      /\ quality.records[sending].state = "Pending" /\ quality.enabled = TRUE
      /\ quality.records[sending].sent = Reading(clock)
      /\ \A id \in DOMAIN quality.records :
            /\ id \in Nat /\ id <= clock /\ quality.records[id].sent = Reading(id)
            /\ Since(id) < WINDOW /\ ~LostIn(quality, id)
  BY HandedOver
<1>4. quality' = q /\ Remember(q, Never) /\ sending # Never /\ sending' = Never
      /\ Fault(~success) /\ UNCHANGED <<clock, due, transport>>
  <2>1. CompleteSend(quality, sending, Now, success)
          = [quality EXCEPT !.queueSendFailure = ~success,
                            !.records[sending] = Settle(@, "SendFailed")]
    BY DEF CompleteSend
  <2>2. CompleteSend(quality, sending, Now, success) = c
    BY <2>1, InvFields DEF Trackers
  <2> QED
    BY <2>2 DEF SendControlPacketReturns, Becomes
<1>5. /\ settled \in Records /\ settled.state = "SendFailed"
      /\ settled.sent = quality.records[sending].sent
  <2>1. "SendFailed" \in States
    BY DEF States
  <2> QED
    BY <2>1, <1>3, SettleTyped
<1> HIDE DEF settled
<1>6. /\ m \in RecordMaps /\ DOMAIN m = DOMAIN quality.records /\ m[sending] = settled
      /\ \A id \in DOMAIN quality.records : id # sending => m[id] = quality.records[id]
  BY <1>3, <1>5, MapFields
<1> HIDE DEF m
<1>7. Patched(quality, c, m, quality.reference, ~success, quality.transportSendFailure,
              quality.started)
  <2>1. (~success) \in BOOLEAN
    OBVIOUS
  <2> QED
    BY <2>1, <1>6, PatchQueue
<1> HIDE DEF c
<1>8. \A id \in DOMAIN c.records : /\ id <= clock /\ c.records[id].sent = Reading(id)
                                   /\ Since(id) < WINDOW /\ ~LostIn(c, id)
  <2>1. c.records = m
    BY <1>7 DEF Patched
  <2> QED
    BY <2>1, <1>3, <1>5, <1>6 DEF LostIn
<1>9. Timed(c, truth.heard, ref)
  BY <1>1, <1>7, <1>8 DEF Timed, Patched
<1>10. Calm(c, q, ref)
  BY <1>8, <1>9, ExpireCalm
<1> HIDE DEF q
<1>11. ~Watched(c) /\ ~SilentSince(c, ref)
  BY <1>7 DEF Patched, Watched, LocalFailure, SilentSince
<1>12. /\ q \in Trackers /\ q.enabled = TRUE /\ q.started = quality.started
       /\ q.hasReply = quality.hasReply /\ q.reference = quality.reference
       /\ q.lastReply = quality.lastReply /\ q.rtt = quality.rtt
       /\ q.outage = quality.outage /\ q.recoveryReplies = quality.recoveryReplies
       /\ DOMAIN q.records = DOMAIN quality.records /\ q.records[sending] = settled
       /\ \A id \in DOMAIN quality.records : id # sending => q.records[id] = quality.records[id]
  <2>1. q.outage = quality.outage
    <3>1. q.outage <=> quality.outage
      BY <1>7, <1>10, <1>11 DEF Patched, Calm
    <3>2. q.outage \in BOOLEAN
      BY <1>10, TrackerFields DEF Calm
    <3> QED
      BY <3>1, <3>2
  <2> QED
    BY <2>1, <1>3, <1>6, <1>7, <1>10, <1>11 DEF Patched, Calm
<1>13. ~Watched(q)
  BY <1>7, <1>10 DEF Patched, Calm, Watched, LocalFailure
<1>14. Replied(q) = Replied(quality)
  BY <1>3, <1>5, <1>12 DEF Replied, In
<1>15. Remembered(q, Never) /\ Unanswered(q)
  BY <1>2, <1>4, <1>12, <1>14, RememberFields
<1>16. truth'.heard = truth.heard
  BY <1>12, <1>15 DEF Unanswered, QualityInv, HeardTrue
<1>17. QualityTyped'
  <2>1. faults' \in 0..MaxFaults
    BY <1>2, <1>4, ClockAssumption DEF Fault, QualityTyped
  <2> QED
    BY <2>1, <1>2, <1>3, <1>4, <1>12, <1>15 DEF QualityTyped, Remembered, Times
<1>18. RecordsTrue'
  <2>1. PICK probe \in Nat : probe = sending
    BY <1>3
  <2>2. probe \notin DOMAIN truth'.answered
    BY <2>1, <1>5, <1>12, <1>15 DEF Remembered, In
  <2>3. (RecordTrue(quality, probe) /\ Young(quality, probe))'
    BY <2>1, <2>2, <1>3, <1>4, <1>5, <1>12 DEF RecordTrue, Young, Since, Reading
  <2>4. /\ ~due /\ clock' = clock /\ due' = due /\ q.enabled = quality.enabled
        /\ \A id \in DOMAIN quality.records : id # probe => q.records[id] = quality.records[id]
    BY <2>1, <1>3, <1>4, <1>12
  <2>5. truth.heard # Never => truth'.heard # Never /\ truth.heard <= truth'.heard
    BY <1>16
  <2> QED
    BY <2>1, <2>3, <2>4, <2>5, <1>4, <1>12, <1>15, OthersStay
<1>19. HeardTrue'
  BY <1>4, <1>12, <1>14, <1>15, HeardKept
<1>20. OutageTrue' /\ RecoveryPrompt'
  <2>1. OutageFollows(q.outage, q.recoveryReplies)
    BY <1>12 DEF OutageFollows
  <2> QED
    BY <2>1, <1>4, <1>12, <1>14, <1>15, OutageKept
<1>21. ReferenceTrue'
  <2>1. q.started => ref <= clock /\ q.reference = Reading(ref)
                     /\ (truth'.heard # Never => truth'.heard <= ref)
    BY <1>1, <1>12, <1>16 DEF ReferenceAt
  <2> QED
    BY <2>1, <1>4, <1>12, <1>13, <1>15, ReferenceMoved
<1>22. OutageStep
  BY <1>4, <1>12 DEF OutageStep
<1> QED
  BY <1>17, <1>18, <1>19, <1>20, <1>21, <1>22 DEF QualityInv

\* The transport took the probe.
LEMMA SendCommitted ==
    ASSUME QualityInv, NEW success \in BOOLEAN, SendControlPacketReturns(success),
           IsPending(quality, sending), success, ~quality.transportSendFailure
    PROVE  QualityInv' /\ OutageStep
<1> USE InvFields
<1> DEFINE r == [quality.records[sending] EXCEPT !.committed = TRUE]
           m == [quality.records EXCEPT ![sending] = r]
           restart == ~quality.started \/ (LocalFailure(quality) /\ ~quality.outage)
           reference == IF restart THEN quality.records[sending].sent ELSE quality.reference
           c == [quality EXCEPT !.queueSendFailure = FALSE, !.records = m, !.started = TRUE,
                                !.reference = reference]
           early == quality.records[sending].earlyReply
           f == IF early THEN AcceptReply(c, sending, quality.records[sending].replyAt) ELSE c
           q == Expire(Expire(f, Now), Now)
<1>1. PICK ref \in Nat : /\ quality.started => ReferenceAt(ref)
                         /\ Timed(quality, truth.heard, ref)
  BY QualityTimed
<1>2. QualityTyped
  BY DEF QualityInv
<1>3. /\ sending = clock /\ sending \in Nat /\ ~due /\ sending \in DOMAIN quality.records
      /\ quality.records[sending] \in Records /\ quality.records \in RecordMaps
      /\ quality.records[sending].state = "Pending" /\ quality.enabled = TRUE
      /\ quality.records[sending].sent = Reading(clock)
      /\ early => /\ quality.records[sending].replyAt = Reading(clock)
                  /\ truth.answered[sending] = clock
      /\ ~early => truth.answered[sending] = Never
      /\ sending \in DOMAIN truth.answered
      /\ \A id \in DOMAIN quality.records :
            /\ id \in Nat /\ id <= clock /\ quality.records[id].sent = Reading(id)
            /\ Since(id) < WINDOW /\ ~LostIn(quality, id)
  BY HandedOver
<1>4. quality' = q /\ Remember(q, Never) /\ sending # Never /\ sending' = Never
      /\ Fault(~success) /\ UNCHANGED <<clock, due, transport>>
  <2>1. c = [quality EXCEPT !.queueSendFailure = FALSE, !.records[sending].committed = TRUE,
                            !.started = TRUE, !.reference = IF restart THEN quality.records[sending].sent
                                                            ELSE @]
    BY InvFields DEF Trackers
  <2>2. CompleteSend(quality, sending, Now, success) = Expire(f, Now)
    BY <2>1 DEF CompleteSend
  <2> QED
    BY <2>2 DEF SendControlPacketReturns, Becomes
<1>5. /\ r \in Records /\ r.state = "Pending" /\ r.committed = TRUE
      /\ r.earlyReply = early /\ r.sent = Reading(clock)
  <2>1. r \in Records
    BY <1>3, RecordSet
  <2> QED
    BY <2>1, <1>3 DEF Records
<1> HIDE DEF r
<1>6. /\ m \in RecordMaps /\ DOMAIN m = DOMAIN quality.records /\ m[sending] = r
      /\ \A id \in DOMAIN quality.records : id # sending => m[id] = quality.records[id]
  BY <1>3, <1>5, MapFields
<1> HIDE DEF m
<1>7. reference \in Int /\ early \in BOOLEAN /\ Now \in Int /\ Now = Reading(clock)
  BY <1>3, RecordFields, TrackerFields, ReadingDifference DEF Now, Reading
<1> HIDE DEF reference
<1>8. Patched(quality, c, m, reference, FALSE, quality.transportSendFailure, TRUE)
  BY <1>6, <1>7, PatchCommit
<1> HIDE DEF c
<1>9. /\ c \in Trackers /\ c.records = m /\ c.reference = reference /\ c.started = TRUE
      /\ c.enabled = TRUE /\ ~LocalFailure(c) /\ c.queueSendFailure = FALSE
      /\ c.transportSendFailure = quality.transportSendFailure
      /\ c.hasReply = quality.hasReply /\ c.lastReply = quality.lastReply /\ c.rtt = quality.rtt
      /\ c.outage = quality.outage /\ c.recoveryReplies = quality.recoveryReplies
  BY <1>3, <1>8 DEF Patched, LocalFailure
<1>10. Since(clock) = 0 /\ clock # Never
  BY PathAssumption DEF Since
<1>11. \A id \in DOMAIN m : /\ id \in Nat /\ id <= clock /\ m[id].sent = Reading(id)
                            /\ Since(id) < WINDOW
                            /\ m[id].state = "Pending" /\ m[id].committed => Since(id) < TIMEOUT
  <2> TAKE id \in DOMAIN m
  <2>1. CASE id = sending
    BY <2>1, <1>3, <1>5, <1>6, <1>10
  <2>2. CASE id # sending
    BY <2>2, <1>3, <1>6 DEF LostIn, Since
  <2> QED
    BY <2>1, <2>2
<1>12. quality.started => ref <= clock /\ quality.reference = Reading(ref)
                          /\ (truth.heard # Never => truth.heard <= ref)
  BY <1>1 DEF ReferenceAt
<1>13. truth.heard # Never => truth.heard \in Nat /\ truth.heard <= clock
  BY DEF QualityInv, HeardTrue
<1>14. faults' \in 0..MaxFaults
  BY <1>2, <1>4, ClockAssumption DEF Fault, QualityTyped
<1>15. ASSUME ~early
       PROVE  QualityInv' /\ OutageStep
  <2> DEFINE new == IF restart THEN clock ELSE ref
  <2>1. new \in Nat /\ new <= clock /\ c.reference = Reading(new)
        /\ (truth.heard # Never => truth.heard <= new)
    BY <1>3, <1>9, <1>12, <1>13 DEF reference
  <2>2. Timed(c, truth.heard, new)
    <3>1. \A id \in DOMAIN c.records : id <= clock /\ c.records[id].sent = Reading(id)
      BY <1>9, <1>11
    <3>2. /\ truth.heard \in Times /\ (c.hasReply <=> truth.heard # Never)
          /\ c.hasReply => truth.heard <= clock /\ c.lastReply = Reading(truth.heard)
      BY <1>1, <1>9 DEF Timed
    <3> QED
      BY <2>1, <1>9, <3>1, <3>2 DEF Timed
  <2>3. \A id \in DOMAIN c.records : Since(id) < WINDOW /\ ~LostIn(c, id)
    BY <1>9, <1>11 DEF LostIn, Since
  <2>4. q = Expire(Expire(c, Now), Now)
    BY <1>15
  <2>5. Calm(c, q, new)
    BY <2>2, <2>3, <2>4, ExpireCalm
  <2> HIDE DEF q, f
  <2>6. /\ q \in Trackers /\ q.enabled = TRUE /\ q.started = TRUE
        /\ q.hasReply = quality.hasReply /\ q.reference = c.reference
        /\ q.lastReply = quality.lastReply /\ q.rtt = quality.rtt
        /\ DOMAIN q.records = DOMAIN quality.records /\ q.records[sending] = r
        /\ \A id \in DOMAIN quality.records : id # sending => q.records[id] = quality.records[id]
        /\ q.outage <=> quality.outage \/ SilentSince(c, new)
        /\ q.recoveryReplies = IF SilentSince(c, new) THEN 0 ELSE quality.recoveryReplies
        /\ q.outage \in BOOLEAN
    BY <2>5, <1>3, <1>6, <1>9, TrackerFields DEF Calm
  <2>7. Watched(c) /\ Watched(q)
    BY <2>5, <1>9 DEF Calm, Watched, LocalFailure
  <2>8. SilentSince(c, new) => /\ ~restart /\ Since(ref) >= TIMEOUT
                               /\ truth.heard = Never \/ Since(truth.heard) >= TIMEOUT
    <3>1. SUFFICES ASSUME SilentSince(c, new)
                   PROVE  /\ ~restart /\ Since(ref) >= TIMEOUT
                          /\ truth.heard = Never \/ Since(truth.heard) >= TIMEOUT
      OBVIOUS
    <3>2. Since(new) >= TIMEOUT
      BY <3>1 DEF SilentSince
    <3>3. ~restart
      BY <3>2, <1>10
    <3> QED
      BY <2>1, <3>2, <3>3, <1>13 DEF Since
  <2>9. OutageFollows(q.outage, q.recoveryReplies)
    <3>1. CASE SilentSince(c, new)
      BY <3>1, <2>6, <2>8 DEF OutageFollows
    <3>2. CASE ~SilentSince(c, new)
      BY <3>2, <2>6 DEF OutageFollows
    <3> QED
      BY <3>1, <3>2
  <2>10. Replied(q) = Replied(quality)
    BY <1>3, <1>5, <2>6 DEF Replied, In
  <2>11. Remembered(q, Never) /\ Unanswered(q)
    BY <1>2, <1>4, <2>6, <2>10, RememberFields
  <2>12. truth'.heard = truth.heard
    BY <2>6, <2>11 DEF Unanswered, QualityInv, HeardTrue
  <2>13. QualityTyped'
    BY <1>2, <1>3, <1>4, <1>14, <2>6, <2>11 DEF QualityTyped, Remembered, Times
  <2>14. HeardTrue'
    BY <1>4, <2>6, <2>10, <2>11, HeardKept
  <2>15. OutageTrue' /\ RecoveryPrompt'
    BY <1>4, <2>6, <2>9, <2>10, <2>11, OutageKept
  <2>16. ~restart /\ ~quality.outage => Watched(quality)
    BY <1>3 DEF Watched
  <2>17. OutageStep
    BY <1>4, <2>6, <2>8, <2>16 DEF OutageStep
  <2>18. ReferenceTrue'
    <3>1. ASSUME ~q.outage
          PROVE  /\ new <= truth'.watched \/ (truth'.heard # Never /\ new <= truth'.heard)
                 /\ Since(new) < TIMEOUT
      <4>1. Since(new) < TIMEOUT
        BY <2>1, <2>6, <2>7, <3>1 DEF SilentSince, Since
      <4>2. CASE restart
        <5>1. ~Watched(quality)
          BY <4>2 DEF Watched
        <5>2. truth.watched = Never
          BY <5>1 DEF QualityInv, ReferenceTrue
        <5>3. truth'.watched = clock
          BY <5>2, <2>7, <2>11 DEF Remembered
        <5> QED
          BY <4>1, <4>2, <5>3
      <4>3. CASE ~restart
        <5>1. Watched(quality) /\ ~quality.outage /\ quality.started
          BY <4>3, <2>6, <2>16, <3>1
        <5>2. truth.watched # Never
          BY <5>1 DEF QualityInv, ReferenceTrue
        <5>3. truth'.watched = truth.watched
          BY <5>2, <2>7, <2>11 DEF Remembered
        <5>4. ref <= truth.watched \/ (truth.heard # Never /\ ref <= truth.heard)
          BY <5>1, <1>1 DEF ReferenceAt
        <5> QED
          BY <4>1, <4>3, <5>3, <5>4, <2>12
      <4> QED
        BY <4>2, <4>3
    <3> HIDE DEF new
    <3>2. /\ new <= clock /\ q.reference = Reading(new)
          /\ truth'.heard # Never => truth'.heard <= new
      BY <2>1, <2>6, <2>12
    <3> QED
      BY <1>4, <2>1, <2>6, <2>11, <3>1, <3>2, ReferenceMoved
  <2>19. RecordsTrue'
    <3>1. PICK probe \in Nat : probe = sending
      BY <1>3
    <3>2. probe \in DOMAIN truth'.answered
      BY <3>1, <1>3, <1>5, <2>6, <2>11 DEF Remembered, In, States
    <3>3. truth'.answered[probe] = Never
      BY <3>1, <3>2, <1>3, <1>10, <1>15, <2>11 DEF Remembered
    <3>4. (RecordTrue(quality, probe) /\ Young(quality, probe))'
      <4>1. (Since(probe))' = 0 /\ Reading(probe)' = Reading(clock)
        BY <3>1, <1>3, <1>4 DEF Since, Reading
      <4> QED
        BY <3>1, <3>2, <3>3, <4>1, <1>3, <1>4, <1>5, <1>15, <2>6 DEF RecordTrue, Young
    <3>5. /\ ~due /\ clock' = clock /\ due' = due /\ q.enabled = quality.enabled
          /\ \A id \in DOMAIN quality.records : id # probe => q.records[id] = quality.records[id]
      BY <3>1, <1>3, <1>4, <2>6
    <3>6. truth.heard # Never => truth'.heard # Never /\ truth.heard <= truth'.heard
      BY <2>12
    <3> QED
      BY <3>1, <3>4, <3>5, <3>6, <1>4, <2>6, <2>11, OthersStay
  <2> QED
    BY <2>13, <2>14, <2>15, <2>17, <2>18, <2>19 DEF QualityInv
<1>16. ASSUME early
       PROVE  QualityInv' /\ OutageStep
  <2>1. f = AcceptReply(c, sending, Now)
    BY <1>3, <1>7, <1>16
  <2>2. Age(Now, c.records[sending].sent) = 0
    <3>1. c.records[sending].sent = Reading(clock)
      BY <1>5, <1>6, <1>9
    <3> QED
      BY <3>1, <1>7, ReadingsTrue
  <2>3. Accepted(c, f, sending, Now)
    <3>1. sending \in DOMAIN c.records
      BY <1>3, <1>6, <1>9
    <3> QED
      BY <3>1, <2>1, <2>2, <1>7, <1>9, AcceptFields
  <2> HIDE DEF f
  <2>4. /\ Settle(r, "Replied").state = "Replied" /\ Settle(r, "Replied").sent = r.sent
        /\ Settle(r, "Replied").committed = FALSE
    <3>1. "Replied" \in States
      BY DEF States
    <3> QED
      BY <3>1, <1>5, SettleTyped
  <2>5. /\ f \in Trackers /\ f.enabled = TRUE /\ f.started = TRUE /\ f.hasReply = TRUE
        /\ f.lastReply = Reading(clock) /\ f.reference = Reading(clock) /\ f.rtt = 0
        /\ f.queueSendFailure = FALSE /\ f.transportSendFailure = quality.transportSendFailure
        /\ DOMAIN f.records = DOMAIN quality.records
        /\ f.records[sending].state = "Replied" /\ f.records[sending].sent = Reading(clock)
        /\ \A id \in DOMAIN quality.records : id # sending => f.records[id] = quality.records[id]
        /\ f.outage <=> quality.outage /\ quality.recoveryReplies = 0
        /\ f.recoveryReplies = IF ~quality.outage THEN quality.recoveryReplies
                               ELSE IF quality.recoveryReplies = 0 THEN 1 ELSE 0
    BY <2>2, <2>3, <2>4, <1>3, <1>5, <1>6, <1>7, <1>9 DEF Accepted
  <2>6. Timed(f, clock, clock)
    <3>1. \A id \in DOMAIN f.records : id <= clock /\ f.records[id].sent = Reading(id)
      BY <2>5, <1>3
    <3> QED
      BY <2>5, <3>1, <1>10 DEF Timed, Times
  <2>7. \A id \in DOMAIN f.records : Since(id) < WINDOW /\ ~LostIn(f, id)
    BY <2>5, <1>3 DEF LostIn
  <2>8. Calm(f, q, clock) /\ ~SilentSince(f, clock)
    BY <2>6, <2>7, <1>10, ExpireCalm DEF SilentSince
  <2> HIDE DEF q
  <2>9. /\ q \in Trackers /\ q.enabled = TRUE /\ q.started = TRUE /\ q.hasReply = TRUE
        /\ q.lastReply = Reading(clock) /\ q.reference = Reading(clock) /\ q.rtt = 0
        /\ DOMAIN q.records = DOMAIN quality.records
        /\ q.records[sending].state = "Replied" /\ q.records[sending].sent = Reading(clock)
        /\ \A id \in DOMAIN quality.records : id # sending => q.records[id] = quality.records[id]
        /\ q.outage <=> quality.outage /\ quality.recoveryReplies = 0
        /\ q.recoveryReplies = IF ~quality.outage THEN quality.recoveryReplies
                               ELSE IF quality.recoveryReplies = 0 THEN 1 ELSE 0
    BY <2>5, <2>8, <1>3 DEF Calm
  <2>10. PICK probe \in Nat : probe = sending
    BY <1>3
  <2>11. Replied(q) = Replied(quality) \cup {probe} /\ probe \notin Replied(quality)
    BY <2>9, <2>10, <1>3 DEF Replied, In
  <2>12. Remembered(q, Never) /\ Answered(q, probe)
    <3>1. Replied(q) \ Replied(quality) = {probe}
      BY <2>11
    <3> QED
      BY <3>1, <1>2, <1>4, <2>9, RememberFields
  <2>13. /\ probe \in DOMAIN truth'.answered /\ truth'.answered[probe] = clock
         /\ truth'.heard = clock
    <3>1. probe \in DOMAIN truth'.answered
      BY <2>9, <2>10, <2>12, <1>3 DEF Remembered, In, States
    <3>2. truth'.answered[probe] = clock
      BY <3>1, <2>10, <2>12, <1>3, <1>10, <1>16 DEF Remembered
    <3> QED
      BY <3>1, <3>2, <2>9, <2>12 DEF Answered
  <2>14. /\ HeardTrue' /\ OutageTrue' /\ RecoveryPrompt'
         /\ quality.outage /\ ~q.outage => truth'.answers = 2
    <3>1. probe \in Replied(q) /\ \A i \in Replied(q) : i # probe => i \in Replied(quality)
      BY <2>11
    <3>2. OutageFollows(quality.outage, quality.recoveryReplies)
      BY DEF OutageFollows
    <3>3. probe <= clock /\ q.rtt = clock - probe
      BY <2>9, <2>10, <1>3
    <3> QED
      BY <1>4, <2>9, <2>12, <2>13, <3>1, <3>2, <3>3, AnswerAccepted
  <2>15. OutageStep
    BY <1>4, <2>9, <2>14 DEF OutageStep
  <2>16. QualityTyped'
    BY <1>2, <1>3, <1>4, <1>14, <2>9, <2>12 DEF QualityTyped, Remembered, Times
  <2>17. ReferenceTrue'
    <3>1. Since(clock) < TIMEOUT
      BY <1>10
    <3> QED
      BY <1>4, <1>10, <2>9, <2>12, <2>13, <3>1, ReferenceMoved
  <2>18. RecordsTrue'
    <3>1. (RecordTrue(quality, probe) /\ Young(quality, probe))'
      <4>1. (Since(probe))' = 0 /\ Reading(probe)' = Reading(clock)
        BY <2>10, <1>3, <1>4 DEF Since, Reading
      <4> QED
        BY <2>10, <4>1, <1>3, <1>4, <1>10, <2>9, <2>13 DEF RecordTrue, Young
    <3>2. /\ ~due /\ clock' = clock /\ due' = due /\ q.enabled = quality.enabled
          /\ \A id \in DOMAIN quality.records : id # probe => q.records[id] = quality.records[id]
          /\ truth.heard # Never => truth'.heard # Never /\ truth.heard <= truth'.heard
      BY <2>10, <1>3, <1>4, <1>10, <1>13, <2>9, <2>13
    <3> QED
      BY <2>10, <3>1, <3>2, <1>4, <2>9, <2>12, OthersStay
  <2> QED
    BY <2>14, <2>15, <2>16, <2>17, <2>18 DEF QualityInv
<1> QED
  BY <1>7, <1>15, <1>16

\* The return of sendControlPacket keeps the invariant, whether the probe was
\* forgotten meanwhile, refused, or handed over.
LEMMA SendControlPacketReturnsInv ==
    ASSUME QualityInv, NEW success \in BOOLEAN, SendControlPacketReturns(success)
    PROVE  QualityInv' /\ OutageStep
  BY SendForgotten, SendRefused, SendCommitted

-----------------------------------------------------------------------------
(* The theorems *)

\* A path starts without history.
LEMMA QualityStarts ==
    ASSUME QualityInit
    PROVE  QualityInv
<1> DEFINE none == [pathKind |-> NoPath, enabled |-> FALSE]
<1>1. /\ clock = 0 /\ due = FALSE /\ transport = NoPath /\ sending = Never /\ faults = 0
      /\ quality = Reset(none)
      /\ truth = [answered |-> <<>>, heard |-> Never, answers |-> 0, raised |-> Never,
                  watched |-> Never]
  BY DEF QualityInit
<1>2. <<>> \in RecordMaps /\ <<>> \in AnswerMaps /\ DOMAIN <<>> = {}
  <2>1. DOMAIN <<>> = {} /\ <<>> \in [{} -> Records] /\ <<>> \in [{} -> Times]
    OBVIOUS
  <2> QED
    BY <2>1 DEF RecordMaps, AnswerMaps
<1>3. /\ quality.enabled = FALSE /\ quality.records = <<>> /\ ~quality.started
      /\ ~quality.outage /\ ~quality.hasReply /\ quality.recoveryReplies = 0
  BY <1>1 DEF Reset
<1>4. quality \in Trackers
  <2>1. -1 \in Int /\ 0 \in 0..1 /\ 0 \in Int
    OBVIOUS
  <2> QED
    BY <1>1, <1>2, <2>1 DEF Reset, Trackers
<1>5. truth \in Histories
  <2>1. 0 \in 0..2 /\ Never \in Times
    BY DEF Times
  <2> QED
    BY <1>1, <1>2, <2>1 DEF Histories
<1>6. /\ truth.heard = Never /\ truth.raised = Never /\ truth.watched = Never
      /\ truth.answered = <<>>
  BY <1>1
<1>7. QualityTyped
  <2>1. clock \in 0..Horizon /\ faults \in 0..MaxFaults
    BY <1>1, ClockAssumption
  <2>2. due \in BOOLEAN /\ transport \in Kinds \cup {NoPath} /\ sending \in Times
    BY <1>1 DEF Times
  <2>3. (quality.enabled <=> transport # NoPath) /\ (sending # Never => sending = clock /\ ~due)
    BY <1>1, <1>3
  <2> QED
    BY <2>1, <2>2, <2>3, <1>4, <1>5 DEF QualityTyped
<1>8. RecordsTrue /\ HeardTrue
  BY <1>2, <1>3, <1>6 DEF RecordsTrue, HeardTrue
<1>9. ReferenceTrue
  BY <1>3, <1>6 DEF ReferenceTrue, Watched
<1>10. OutageTrue /\ RecoveryPrompt
  BY <1>3, <1>6 DEF OutageTrue, RecoveryPrompt
<1> QED
  BY <1>7, <1>8, <1>9, <1>10 DEF QualityInv

\* Every step keeps the inductive invariant and is one OutageEarned allows.
LEMMA QualitySteps ==
    ASSUME QualityInv, [QualityNext]_qualityVars
    PROVE  QualityInv' /\ (OutageStep \/ UNCHANGED qualityVars)
<1>1. CASE Tick
  BY <1>1, TickInv
<1>2. ASSUME NEW kind \in Kinds, PathUp(kind)
      PROVE  QualityInv' /\ OutageStep
  BY <1>2, PathUpInv
<1>3. CASE PathDown
  BY <1>3, PathDownInv
<1>4. CASE PeerResumed
  BY <1>4, PeerResumedInv
<1>5. CASE UpdateWithoutPath
  BY <1>5, UpdateWithoutPathInv
<1>6. CASE SendLatencyPing
  BY <1>6, SendLatencyPingInv
<1>7. ASSUME NEW success \in BOOLEAN, SendControlPacketReturns(success)
      PROVE  QualityInv' /\ OutageStep
  BY <1>7, SendControlPacketReturnsInv
<1>8. ASSUME NEW success \in BOOLEAN, LocalTransportSend(success)
      PROVE  QualityInv' /\ OutageStep
  BY <1>8, LocalTransportSendInv
<1>9. ASSUME NEW id \in 0..clock, HandleLatencyPong(id)
      PROVE  QualityInv' /\ OutageStep
  BY <1>9, HandleLatencyPongInv
<1>10. CASE UNCHANGED qualityVars
  <2>1. UNCHANGED <<clock, due, transport, quality, sending, faults, truth>>
    BY <1>10 DEF qualityVars
  <2>2. QualityTyped' /\ HeardTrue' /\ OutageTrue' /\ RecoveryPrompt'
    BY <2>1 DEF QualityInv, QualityTyped, HeardTrue, OutageTrue, RecoveryPrompt, Since, Reading,
                Replied, In
  <2>3. RecordsTrue'
    BY <2>1 DEF QualityInv, RecordsTrue, RecordTrue, Young, Since, Reading
  <2>4. ReferenceTrue'
    BY <2>1 DEF QualityInv, ReferenceTrue, ReferenceAt, Since, Reading, Watched, LocalFailure
  <2> QED
    BY <1>10, <2>2, <2>3, <2>4 DEF QualityInv
<1> QED
  BY <1>1, <1>2, <1>3, <1>4, <1>5, <1>6, <1>7, <1>8, <1>9, <1>10 DEF QualityNext

\* The inductive invariant holds of every path at all times.
THEOREM QualityInvariant == QualitySpec => []QualityInv
<1>1. QualityInit => QualityInv
  BY QualityStarts
<1>2. QualityInv /\ [QualityNext]_qualityVars => QualityInv'
  BY QualitySteps
<1> QED
  BY <1>1, <1>2, PTL DEF QualitySpec

\* What the user is shown is true, however the clock wraps: each probe is
\* counted as answered, lost or open as it really is, and the latency is the
\* round trip of an answer of the last TIMEOUT seconds (expire, reply,
\* completeSend, latencyMs).
THEOREM QualityReportsTrue == QualitySpec => []ReportsTrue
<1>1. QualityInv => ReportsTrue
  <2>1. SUFFICES ASSUME QualityInv
                 PROVE  ReportsTrue
    OBVIOUS
  <2> USE InvFields
  <2>2. QualityTypeOK
    <3>1. QualityTyped
      BY <2>1 DEF QualityInv
    <3>2. sending \in 0..Horizon \cup {Never}
      BY <2>1, <3>1 DEF QualityTyped
    <3>3. \A id \in DOMAIN quality.records : quality.records[id].state \in States
      BY <2>1, RecordFields
    <3> QED
      BY <2>1, <3>1, <3>2, <3>3 DEF QualityTyped, QualityTypeOK
  <2>3. ASSUME NEW id \in DOMAIN quality.records
        PROVE  LET r == quality.records[id]
                   answered == truth.answered[id]
               IN  /\ Since(id) <= WINDOW
                   /\ r.state = "Replied" => answered # Never
                   /\ r.state = "TimedOut" => answered = Never /\ Since(id) >= TIMEOUT
                   /\ r.state = "Pending" => /\ Since(id) <= TIMEOUT
                                             /\ r.committed => answered = Never
    <3>1. RecordTrue(quality, id) /\ id \in Nat /\ quality.records[id] \in Records
      BY <2>1 DEF QualityInv, RecordsTrue
    <3>2. quality.records[id].committed \in BOOLEAN
      BY <3>1, RecordFields
    <3>3. quality.records[id].state = "Pending" => Since(id) <= TIMEOUT
      <4>1. CASE quality.records[id].committed
        BY <3>1, <4>1 DEF RecordTrue
      <4>2. CASE ~quality.records[id].committed /\ quality.records[id].state = "Pending"
        <5>1. id = clock
          BY <2>1, <3>1, <4>2, PathAssumption DEF RecordTrue, QualityInv, QualityTyped
        <5> QED
          BY <2>1, <5>1 DEF Since
      <4> QED
        BY <3>2, <4>1, <4>2
    <3> QED
      BY <3>1, <3>3 DEF RecordTrue
  <2>4. LatencyFresh
    <3>1. SUFFICES ASSUME LatencyMs(quality, Now) # -1
                   PROVE  /\ truth.heard # Never /\ Since(truth.heard) < TIMEOUT
                          /\ \E id \in Replied(quality) :
                                /\ truth.answered[id] = truth.heard
                                /\ LatencyMs(quality, Now) = truth.heard - id
      BY DEF LatencyFresh
    <3>2. /\ quality.hasReply /\ ~(Age(Now, quality.lastReply) >= TIMEOUT)
          /\ LatencyMs(quality, Now) = quality.rtt
      BY <3>1 DEF LatencyMs
    <3>3. truth.heard # Never /\ truth.heard \in 0..Horizon /\ truth.heard <= clock
          /\ quality.lastReply = Reading(truth.heard)
      BY <2>1, <3>2 DEF QualityInv, HeardTrue
    <3>4. Age(Now, quality.lastReply) = Since(truth.heard) /\ Since(truth.heard) \in Int
      BY <2>1, <3>3, ReadingsTrue DEF Now, Reading, Since
    <3>5. Since(truth.heard) < TIMEOUT
      BY <2>1, <3>2, <3>4
    <3> QED
      BY <2>1, <3>2, <3>3, <3>5 DEF QualityInv, HeardTrue
  <2> QED
    BY <2>2, <2>3, <2>4 DEF ReportsTrue, VerdictsTrue
<1> QED
  BY <1>1, QualityInvariant, PTL

\* A path that is watched and silent for longer than TIMEOUT is in an outage.
THEOREM QualitySilenceNoticed == QualitySpec => []SilenceNoticed
<1>1. QualityInv => SilenceNoticed
  <2>1. SUFFICES ASSUME QualityInv, truth.watched # Never, Since(truth.watched) > TIMEOUT,
                        truth.heard = Never \/ Since(truth.heard) > TIMEOUT, ~quality.outage
                 PROVE  FALSE
    BY DEF SilenceNoticed
  <2> USE InvFields
  <2>2. Watched(quality) /\ truth.watched \in Nat
    BY <2>1 DEF QualityInv, ReferenceTrue
  <2>3. PICK ref \in Nat : ReferenceAt(ref)
    BY <2>1, <2>2 DEF QualityInv, ReferenceTrue, Watched
  <2>4. /\ ref <= truth.watched \/ (truth.heard # Never /\ ref <= truth.heard)
        /\ Since(ref) <= TIMEOUT \/ Since(truth.watched) <= 1
    BY <2>1, <2>2, <2>3 DEF ReferenceAt
  <2> QED
    BY <2>1, <2>2, <2>4 DEF Since
<1> QED
  BY <1>1, QualityInvariant, PTL

\* Two answers within TIMEOUT of each other end an outage (expire, acceptReply).
THEOREM QualityRecoveryPrompt == QualitySpec => []RecoveryPrompt
<1>1. QualityInv => RecoveryPrompt
  BY DEF QualityInv
<1> QED
  BY <1>1, QualityInvariant, PTL

\* An outage is raised only of a watched and silent path, and lifted only by
\* two answers or a reset (expire, acceptReply).
THEOREM QualityOutageEarned == QualitySpec => OutageEarned
<1>1. QualityInv /\ [QualityNext]_qualityVars => [OutageStep]_qualityVars
  BY QualitySteps
<1>2. QualitySpec => [][OutageStep]_qualityVars
  BY <1>1, QualityInvariant, PTL DEF QualitySpec
<1> QED
  BY <1>2 DEF OutageEarned, OutageStep
=============================================================================
