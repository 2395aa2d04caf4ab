------------------------ MODULE ServerChannelsProofs ------------------------
(***************************************************************************)
(* The accounts of SignalServer for every number of connections,           *)
(* descriptors and addresses, and every budget: Good is inductive.  Each   *)
(* method has a lemma that it preserves Good; the handlers follow by       *)
(* composing them.  Loops over sessions are folds, which need an induction *)
(* over a finite set of their own.                                         *)
(***************************************************************************)
EXTENDS ServerChannels, WellFoundedInduction, FiniteSetTheorems, TLAPS

-----------------------------------------------------------------------------
(* Induction over finite sets *)

\* A non-empty set of numbers has a least element.
LEMMA LeastNumber ==
  ASSUME NEW S \in SUBSET Nat, S # {}
  PROVE  \E x \in S : \A y \in S : x <= y
  <1> DEFINE R == {ss \in Nat \X Nat : ss[1] < ss[2]}
  <1>0. R = OpToRel(<, Nat)
    BY DEF OpToRel
  <1>1. IsWellFoundedOn(R, Nat)
    BY NatLessThanWellFounded, <1>0
  <1> HIDE DEF R
  <1>2. PICK x \in S : \A y \in S : ~(<<y, x>> \in R)
    BY <1>1, WFMin
  <1>3. ASSUME NEW y \in S PROVE x <= y
    <2>1. x \in Nat /\ y \in Nat
      OBVIOUS
    <2>2. y < x => <<y, x>> \in R
      BY <2>1 DEF R
    <2> QED BY <1>2, <2>1, <2>2
  <1> QED BY <1>3

\* Induction over a finite set, one element at a time.
LEMMA SubsetInduction ==
  ASSUME NEW S, IsFiniteSet(S), NEW G, {} \in G,
         \A T \in SUBSET S : T # {} /\ (\A x \in T : T \ {x} \in G) => T \in G
  PROVE  S \in G
  <1> SUFFICES ASSUME S \notin G PROVE FALSE
    OBVIOUS
  <1> DEFINE N == {Cardinality(T) : T \in (SUBSET S) \ G}
  <1>1. N \in SUBSET Nat /\ N # {}
    BY FS_Subset, FS_CardinalityType
  <1>2. PICK T \in (SUBSET S) \ G : \A U \in (SUBSET S) \ G : Cardinality(T) <= Cardinality(U)
    <2> HIDE DEF N
    <2>1. PICK n \in N : \A m \in N : n <= m
      BY <1>1, LeastNumber
    <2> QED BY <2>1 DEF N
  <1>4. IsFiniteSet(T) /\ Cardinality(T) \in Nat
    BY FS_Subset, FS_CardinalityType
  <1>5. T # {}
    OBVIOUS
  <1>6. ASSUME NEW y \in T PROVE T \ {y} \in G
    <2>0. Cardinality(T \ {y}) = Cardinality(T) - 1
      BY <1>4, FS_RemoveElement
    <2>1. T \ {y} \in SUBSET S
      OBVIOUS
    <2>2. ~(Cardinality(T) <= Cardinality(T \ {y}))
      BY <1>4, <2>0
    <2> QED BY <2>1, <2>2, <1>2
  <1> QED BY <1>5, <1>6

\* The element that a fold takes next.
Pick(T) == CHOOSE x \in T : TRUE

-----------------------------------------------------------------------------
(* The sum of what is queued *)

\* g is the recursion of SumFunctionOnSet on the sets in D.
IsSum(g, f, D) ==
  g = [T \in D |-> IF T = {} THEN 0 ELSE f[Pick(T)] + g[T \ {Pick(T)}]]

\* The recursion has a solution on the subsets of a finite set.
LEMMA SumExists ==
  ASSUME NEW f, NEW S, IsFiniteSet(S)
  PROVE  \E g : IsSum(g, f, SUBSET S)
  <1> DEFINE Size(n) == {T \in SUBSET S : Cardinality(T) < n}
             N == {n \in Nat : ~\E g : IsSum(g, f, Size(n))}
  <1>1. N = {}
    <2> SUFFICES ASSUME N # {} PROVE FALSE
      OBVIOUS
    <2>1. PICK n \in N : \A m \in N : n <= m
      <3> HIDE DEF N
      <3>1. N \subseteq Nat
        BY DEF N
      <3> QED BY <3>1, LeastNumber
    <2>2. n # 0
      <3>1. Size(0) = {}
        BY FS_Subset, FS_CardinalityType
      <3>2. IsSum([T \in {} |-> 0], f, Size(0))
        <4> HIDE DEF Size
        <4> QED BY <3>1 DEF IsSum
      <3> QED BY <2>1, <3>2
    <2>3. n \in Nat /\ n - 1 \in Nat /\ ~(n <= n - 1)
      BY <2>1, <2>2
    <2>4. PICK g : IsSum(g, f, Size(n - 1))
      BY <2>3, <2>1
    <2> DEFINE h == [T \in Size(n) |->
                       IF T = {} THEN 0 ELSE f[Pick(T)] + g[T \ {Pick(T)}]]
    <2>5. ASSUME NEW T \in Size(n), T # {}
          PROVE  g[T \ {Pick(T)}] = h[T \ {Pick(T)}]
      <3>1. Pick(T) \in T
        BY <2>5 DEF Pick
      <3>2. IsFiniteSet(T) /\ Cardinality(T) \in Nat
        BY FS_Subset, FS_CardinalityType
      <3>3. Cardinality(T \ {Pick(T)}) = Cardinality(T) - 1
        BY <3>1, <3>2, FS_RemoveElement
      <3>4. T \ {Pick(T)} \in Size(n - 1) /\ T \ {Pick(T)} \in Size(n)
        BY <2>3, <3>2, <3>3
      <3> HIDE DEF Size
      <3> QED BY <3>4, <2>4 DEF IsSum
    <2>6. IsSum(h, f, Size(n))
      <3> HIDE DEF Size
      <3> QED BY <2>5 DEF IsSum
    <2> QED BY <2>1, <2>6
  <1>2. Cardinality(S) + 1 \in Nat
    BY FS_CardinalityType
  <1>3. Size(Cardinality(S) + 1) = SUBSET S
    BY FS_Subset, FS_CardinalityType
  <1>4. \E g : IsSum(g, f, Size(Cardinality(S) + 1))
    BY <1>1, <1>2
  <1> QED BY <1>3, <1>4

\* SumFunctionOnSet is that solution.
LEMMA SumEquation ==
  ASSUME NEW f, NEW S, IsFiniteSet(S)
  PROVE  \E g : IsSum(g, f, SUBSET S) /\ SumFunctionOnSet(f, S) = g[S]
  <1>1. PICK g : IsSum(g, f, SUBSET S)
    BY SumExists
  <1> QED BY <1>1, Zenon DEF IsSum, SumFunctionOnSet, FoldFunctionOnSet, MapThenFoldSet, Pick

\* A sum of numbers is a number, and no less than any of them.
LEMMA SumType ==
  ASSUME NEW S, IsFiniteSet(S), NEW f \in [S -> Nat]
  PROVE  /\ SumFunctionOnSet(f, S) \in Nat
         /\ \A t \in S : f[t] <= SumFunctionOnSet(f, S)
  <1>1. PICK g : IsSum(g, f, SUBSET S) /\ SumFunctionOnSet(f, S) = g[S]
    BY SumEquation
  <1> DEFINE G == {T \in SUBSET S : g[T] \in Nat /\ \A t \in T : f[t] <= g[T]}
  <1>2. {} \in G
    BY <1>1 DEF IsSum
  <1>3. ASSUME NEW T \in SUBSET S, T # {}, \A x \in T : T \ {x} \in G
        PROVE  T \in G
    <2>1. Pick(T) \in T
      BY <1>3 DEF Pick
    <2>2. g[T] = f[Pick(T)] + g[T \ {Pick(T)}]
      BY <1>1, <1>3 DEF IsSum
    <2>3. T \ {Pick(T)} \in G /\ f[Pick(T)] \in Nat
      BY <2>1, <1>3
    <2>4. g[T] \in Nat /\ f[Pick(T)] <= g[T] /\ g[T \ {Pick(T)}] <= g[T]
      BY <2>2, <2>3
    <2>5. ASSUME NEW t \in T PROVE f[t] <= g[T]
      BY <2>3, <2>4
    <2> QED BY <2>4, <2>5
  <1>4. S \in G
    <2> HIDE DEF G
    <2> QED BY <1>2, <1>3, SubsetInduction
  <1> QED BY <1>1, <1>4

\* A change of one term changes the sum by as much.
LEMMA SumChange ==
  ASSUME NEW S, IsFiniteSet(S), NEW f \in [S -> Nat], NEW h \in [S -> Nat],
         NEW t \in S, \A x \in S \ {t} : h[x] = f[x]
  PROVE  SumFunctionOnSet(h, S) + f[t] = SumFunctionOnSet(f, S) + h[t]
  <1>1. PICK g : IsSum(g, f, SUBSET S) /\ SumFunctionOnSet(f, S) = g[S]
    BY SumEquation
  <1>2. PICK k : IsSum(k, h, SUBSET S) /\ SumFunctionOnSet(h, S) = k[S]
    BY SumEquation
  <1> DEFINE G == {T \in SUBSET S : /\ g[T] \in Nat /\ k[T] \in Nat
                                    /\ t \in T => k[T] + f[t] = g[T] + h[t]
                                    /\ t \notin T => k[T] = g[T]}
  <1>3. {} \in G
    BY <1>1, <1>2 DEF IsSum
  <1>4. ASSUME NEW T \in SUBSET S, T # {}, \A x \in T : T \ {x} \in G
        PROVE  T \in G
    <2> DEFINE p == Pick(T)
               U == T \ {p}
    <2>1. p \in T
      BY <1>4 DEF Pick
    <2>2. g[T] = f[p] + g[U] /\ k[T] = h[p] + k[U]
      BY <1>1, <1>2, <1>4 DEF IsSum
    <2>3. U \in G
      BY <2>1, <1>4
    <2>4. f[p] \in Nat /\ h[p] \in Nat /\ f[t] \in Nat /\ h[t] \in Nat
      BY <2>1
    <2>5. g[T] \in Nat /\ k[T] \in Nat
      BY <2>2, <2>3, <2>4
    <2>6. CASE p = t
      BY <2>1, <2>2, <2>3, <2>4, <2>5, <2>6
    <2>7. CASE p # t
      <3>1. h[p] = f[p] /\ (t \in T <=> t \in U)
        BY <2>1, <2>7
      <3> QED BY <3>1, <2>2, <2>3, <2>4, <2>5
    <2> QED BY <2>6, <2>7
  <1>5. S \in G
    <2> HIDE DEF G
    <2> QED BY <1>3, <1>4, SubsetInduction
  <1> QED BY <1>1, <1>2, <1>5

\* A sum of zeros is zero.
LEMMA SumZero ==
  ASSUME NEW S, IsFiniteSet(S), NEW f, \A x \in S : f[x] = 0
  PROVE  SumFunctionOnSet(f, S) = 0
  <1>1. PICK g : IsSum(g, f, SUBSET S) /\ SumFunctionOnSet(f, S) = g[S]
    BY SumEquation
  <1> DEFINE G == {T \in SUBSET S : g[T] = 0}
  <1>2. {} \in G
    BY <1>1 DEF IsSum
  <1>3. ASSUME NEW T \in SUBSET S, T # {}, \A x \in T : T \ {x} \in G
        PROVE  T \in G
    <2>1. Pick(T) \in T
      BY <1>3 DEF Pick
    <2>2. g[T] = f[Pick(T)] + g[T \ {Pick(T)}]
      BY <1>1, <1>3 DEF IsSum
    <2> QED BY <1>3, <2>1, <2>2
  <1>4. S \in G
    <2> HIDE DEF G
    <2> QED BY <1>2, <1>3, SubsetInduction
  <1> QED BY <1>1, <1>4

-----------------------------------------------------------------------------
(* The inductive invariant *)

\* What is queued for every descriptor
Load(s) == [t \in Fds |-> Held(s.clients[t])]

\* A session that is alive may fail once more, and what is queued on its data
\* channel is for the connection that the channel has now.
SessionOK(file, c) ==
  /\ c.alive => c.fails < MaxFailures
  /\ \A i \in DOMAIN c.queue : c.data # 0 /\ c.queue[i] = file[c.data]

BudgetIn(s) == s.global = SumFunctionOnSet(Load(s), Fds) /\ s.global <= MaxGlobal

DescriptorsIn(s) ==
  /\ \A f \in Fds : s.file[f] # NoConn <=>
       f \in s.pending \/ f \in Clients(s) \/ s.dataMap[f] # 0
  /\ \A f \in s.pending : f \notin Clients(s) /\ s.dataMap[f] = 0
  /\ \A f \in Clients(s) : s.dataMap[f] = 0
  /\ \A f \in Fds : s.dataMap[f] # 0 =>
       s.dataMap[f] \in Clients(s) /\ s.clients[s.dataMap[f]].data = f
  /\ \A t \in Clients(s) : s.clients[t].data # 0 => s.dataMap[s.clients[t].data] = t

Waiting(s, i) == {f \in s.pending : Ip[s.file[f]] = i}

Active(s, i) == {t \in Clients(s) : Ip[s.clients[t].conn] = i}

AddressesIn(s) ==
  \A i \in Ips : /\ s.waiting[i] = Cardinality(Waiting(s, i))
                 /\ s.active[i] = Cardinality(Active(s, i))

\* Only the descriptor f, whose event is being handled, may be both closed in
\* this batch and in use.
StaleIn(s, f) ==
  \A g \in s.closed \ {f} : g \notin Clients(s) /\ s.dataMap[g] = 0

\* What holds between any two steps of the handler of an event of f.
Good(s, f) ==
  /\ s \in Servers
  /\ BudgetIn(s)
  /\ DescriptorsIn(s)
  /\ AddressesIn(s)
  /\ StaleIn(s, f)
  /\ \A t \in Clients(s) : SessionOK(s.file, s.clients[t])

-----------------------------------------------------------------------------
(* Types *)

\* Descriptors are positive, finitely many, and 0 stands for none.
LEMMA FdsFinite == IsFiniteSet(Fds) /\ 0 \notin Fds /\ Fds \subseteq Nat
  <1>1. MaxFd \in Int /\ 1 \in Int
    BY ChannelsAssumption
  <1> QED BY <1>1, FS_Interval DEF Fds

\* The bounds are numbers.
LEMMA Bounds ==
  /\ MaxBuf \in Nat /\ MaxGlobal \in Nat
  /\ MaxFailures \in Nat /\ MaxFailures > 0
  BY ChannelsAssumption

\* The buffers of a data channel are sequences of connections.
LEMMA QueueType ==
  ASSUME NEW q
  PROVE  q \in UNION {[1 .. n -> Conns] : n \in 0 .. MaxBuf}
           <=> q \in Seq(Conns) /\ Len(q) <= MaxBuf
  <1>1. MaxBuf \in Nat
    BY ChannelsAssumption
  <1>2. ASSUME q \in UNION {[1 .. n -> Conns] : n \in 0 .. MaxBuf}
        PROVE  q \in Seq(Conns) /\ Len(q) <= MaxBuf
    <2>1. PICK n \in 0 .. MaxBuf : q \in [1 .. n -> Conns]
      BY <1>2
    <2>2. n \in Nat /\ n <= MaxBuf
      BY <1>1
    <2> QED BY <2>1, <2>2
  <1>3. ASSUME q \in Seq(Conns), Len(q) <= MaxBuf
        PROVE  q \in UNION {[1 .. n -> Conns] : n \in 0 .. MaxBuf}
    <2>1. Len(q) \in 0 .. MaxBuf /\ q \in [1 .. Len(q) -> Conns]
      BY <1>3, <1>1
    <2> QED BY <2>1
  <1> QED BY <1>2, <1>3

\* What is known of a session.
LEMMA SessionType ==
  ASSUME NEW s \in Servers, NEW t \in Clients(s)
  PROVE  /\ t \in Fds /\ s.clients[t] \in Sessions
         /\ s.clients[t].queue \in Seq(Conns) /\ Len(s.clients[t].queue) \in Nat
         /\ Len(s.clients[t].queue) <= MaxBuf
         /\ s.clients[t].out \in Nat /\ s.clients[t].out <= MaxBuf
         /\ s.clients[t].fails \in Nat /\ s.clients[t].alive \in BOOLEAN
         /\ Held(s.clients[t]) = s.clients[t].out + Len(s.clients[t].queue)
  <1>1. t \in Fds /\ s.clients[t] # NoSession
    BY DEF Clients
  <1>2. s.clients[t] \in Sessions
    BY <1>1 DEF Servers
  <1>3. /\ s.clients[t].queue \in Seq(Conns) /\ Len(s.clients[t].queue) <= MaxBuf
    BY <1>2, QueueType DEF Sessions
  <1>4. MaxBuf \in Nat /\ MaxFailures \in Nat
    BY ChannelsAssumption
  <1>5. s.clients[t].out \in 0 .. MaxBuf /\ s.clients[t].fails \in 0 .. MaxFailures
        /\ s.clients[t].alive \in BOOLEAN
    BY <1>2 DEF Sessions
  <1>6. Held(s.clients[t]) = s.clients[t].out + Len(s.clients[t].queue)
    BY <1>1 DEF Held
  <1> QED BY <1>1, <1>2, <1>3, <1>4, <1>5, <1>6

\* A session is not the absence of one.
LEMMA SessionReal ==
  ASSUME NEW c \in Sessions
  PROVE  /\ c # NoSession /\ c.queue \in Seq(Conns)
         /\ Held(c) = c.out + Len(c.queue) /\ Held(c) \in Nat
  <1>1. c.conn \in Conns /\ NoSession.conn = NoConn
    BY DEF Sessions, NoSession
  <1>2. c # NoSession
    BY <1>1, ChannelsAssumption
  <1>3. c.queue \in Seq(Conns) /\ c.out \in 0 .. MaxBuf
    BY QueueType DEF Sessions
  <1>4. c.out \in Nat /\ Len(c.queue) \in Nat
    BY <1>3, ChannelsAssumption
  <1> QED BY <1>2, <1>3, <1>4 DEF Held

\* What is queued is a number, for every descriptor.
LEMMA LoadType ==
  ASSUME NEW s \in Servers
  PROVE  Load(s) \in [Fds -> Nat]
  <1>1. ASSUME NEW t \in Fds PROVE Held(s.clients[t]) \in Nat
    <2>1. s.clients[t] \in Sessions \/ s.clients[t] = NoSession
      BY DEF Servers
    <2>2. Held(NoSession) = 0
      BY DEF Held
    <2> QED BY <2>1, <2>2, SessionReal
  <1> QED BY <1>1 DEF Load

\* What one session has queued is part of the budget in use.
LEMMA BudgetCovers ==
  ASSUME NEW f, NEW s, Good(s, f), NEW t \in Clients(s)
  PROVE  Held(s.clients[t]) <= s.global /\ s.global \in Nat
  <1>1. s \in Servers /\ s.global = SumFunctionOnSet(Load(s), Fds)
    BY DEF Good, BudgetIn
  <1>2. Load(s) \in [Fds -> Nat] /\ t \in Fds
    BY <1>1, LoadType, SessionType
  <1>3. Load(s)[t] = Held(s.clients[t])
    BY <1>2 DEF Load
  <1> QED BY <1>1, <1>2, <1>3, SumType, FdsFinite

-----------------------------------------------------------------------------
(* One session *)

\* The server with another session for t and another total
With(s, t, c, g) == [s EXCEPT !.clients[t] = c, !.global = g]

\* A step that changes what is queued for a session and its state, but neither
\* its connection nor its data channel.
LEMMA SessionStep ==
  ASSUME NEW f, NEW s, Good(s, f), NEW t \in Clients(s),
         NEW c \in Sessions, NEW g \in Nat,
         c.conn = s.clients[t].conn, c.data = s.clients[t].data,
         SessionOK(s.file, c),
         g + Held(s.clients[t]) = s.global + Held(c), g <= MaxGlobal
  PROVE  /\ Good(With(s, t, c, g), f) /\ Clients(With(s, t, c, g)) = Clients(s)
         /\ With(s, t, c, g).pending = s.pending
  <1> DEFINE u == With(s, t, c, g)
  <1>1. s \in Servers /\ t \in Fds
    BY SessionType DEF Good
  <1>2. /\ u.file = s.file /\ u.pending = s.pending /\ u.dataMap = s.dataMap
        /\ u.waiting = s.waiting /\ u.active = s.active /\ u.closed = s.closed
        /\ u.global = g /\ u.clients = [s.clients EXCEPT ![t] = c]
    BY <1>1 DEF Servers, With
  <1>3. u \in Servers
    BY <1>1 DEF Servers, With
  <1> HIDE DEF u
  <1>4. /\ \A x \in Fds \ {t} : u.clients[x] = s.clients[x]
        /\ u.clients[t] = c
    BY <1>1, <1>2 DEF Servers
  <1>5. Clients(u) = Clients(s)
    <2>1. c # NoSession /\ s.clients[t] # NoSession
      BY SessionReal DEF Clients
    <2> QED BY <1>1, <1>4, <2>1 DEF Clients
  <1>6. BudgetIn(u)
    <2>1. Load(s) \in [Fds -> Nat] /\ Load(u) \in [Fds -> Nat]
      BY <1>1, <1>3, LoadType
    <2>2. /\ \A x \in Fds \ {t} : Load(u)[x] = Load(s)[x]
          /\ Load(u)[t] = Held(c) /\ Load(s)[t] = Held(s.clients[t])
      BY <1>1, <1>4 DEF Load
    <2>3. SumFunctionOnSet(Load(u), Fds) + Held(s.clients[t])
            = SumFunctionOnSet(Load(s), Fds) + Held(c)
      <3>1. SumFunctionOnSet(Load(u), Fds) + Load(s)[t]
              = SumFunctionOnSet(Load(s), Fds) + Load(u)[t]
        <4>1. t \in Fds /\ IsFiniteSet(Fds) /\ \A x \in Fds \ {t} : Load(u)[x] = Load(s)[x]
          BY <1>1, <2>2, FdsFinite
        <4> QED BY ONLY <4>1, <2>1, SumChange
      <3> QED BY <3>1, <2>2
    <2>4. /\ SumFunctionOnSet(Load(u), Fds) \in Nat
          /\ SumFunctionOnSet(Load(s), Fds) \in Nat
      BY <2>1, SumType, FdsFinite
    <2>5. Held(c) \in Nat /\ Held(s.clients[t]) \in Nat
      BY <1>1, SessionReal, SessionType
    <2>6. s.global = SumFunctionOnSet(Load(s), Fds)
      BY DEF Good, BudgetIn
    <2> QED BY <1>2, <2>3, <2>4, <2>5, <2>6 DEF BudgetIn
  <1>7. DescriptorsIn(u)
    <2>1. DescriptorsIn(s)
      BY DEF Good
    <2>2. \A x \in Clients(s) : u.clients[x].data = s.clients[x].data
      BY <1>4 DEF Clients
    <2> QED BY <1>2, <1>5, <2>1, <2>2 DEF DescriptorsIn
  <1>8. AddressesIn(u)
    <2>1. AddressesIn(s)
      BY DEF Good
    <2>2. \A x \in Clients(s) : u.clients[x].conn = s.clients[x].conn
      BY <1>4 DEF Clients
    <2>3. \A i : Waiting(u, i) = Waiting(s, i) /\ Active(u, i) = Active(s, i)
      BY <1>2, <1>5, <2>2 DEF Waiting, Active
    <2> QED BY <1>2, <2>1, <2>3 DEF AddressesIn
  <1>9. StaleIn(u, f)
    BY <1>2, <1>5 DEF Good, StaleIn
  <1>10. \A x \in Clients(u) : SessionOK(u.file, u.clients[x])
    <2>1. ASSUME NEW x \in Clients(u) PROVE SessionOK(u.file, u.clients[x])
      <3>1. x \in Fds /\ x \in Clients(s)
        BY <1>5 DEF Clients
      <3>2. SessionOK(s.file, s.clients[x])
        BY <3>1 DEF Good
      <3> QED BY <1>2, <1>4, <3>1, <3>2
    <2> QED BY <2>1
  <1> QED BY <1>2, <1>3, <1>5, <1>6, <1>7, <1>8, <1>9, <1>10 DEF Good, u

\* A step that leaves what is queued as it is: dead, or in another state.
LEMMA DeadGood ==
  ASSUME NEW f, NEW s, Good(s, f), NEW t \in Clients(s)
  PROVE  /\ Good(Dead(s, t), f) /\ Clients(Dead(s, t)) = Clients(s)
         /\ Dead(s, t).pending = s.pending
  <1> DEFINE c == [s.clients[t] EXCEPT !.alive = FALSE]
  <1>1. s \in Servers /\ t \in Fds /\ s.clients[t] \in Sessions
    BY SessionType DEF Good
  <1>2. c \in Sessions /\ c.conn = s.clients[t].conn /\ c.data = s.clients[t].data
        /\ c.out = s.clients[t].out /\ c.queue = s.clients[t].queue /\ ~c.alive
    BY <1>1 DEF Sessions
  <1>3. Dead(s, t) = With(s, t, c, s.global)
    BY <1>1 DEF Dead, Servers, With
  <1>4. SessionOK(s.file, c)
    <2>1. SessionOK(s.file, s.clients[t])
      BY DEF Good
    <2> QED BY <1>2, <2>1 DEF SessionOK
  <1>5. Held(c) = Held(s.clients[t]) /\ s.global \in Nat /\ s.global <= MaxGlobal
    BY <1>1, <1>2, SessionReal DEF Good, BudgetIn, Servers
  <1>6. s.global + Held(s.clients[t]) = s.global + Held(c)
    BY <1>5
  <1> HIDE DEF c
  <1> QED BY <1>2, <1>3, <1>4, <1>5, <1>6, SessionStep

\* A session that changes its state keeps what is queued for it.
LEMMA BecameGood ==
  ASSUME NEW f, NEW s, Good(s, f), NEW t \in Clients(s), NEW state \in States
  PROVE  /\ Good(Became(s, t, state), f) /\ Clients(Became(s, t, state)) = Clients(s)
         /\ Became(s, t, state).pending = s.pending
  <1> DEFINE c == [s.clients[t] EXCEPT !.state = state]
  <1>1. s \in Servers /\ t \in Fds /\ s.clients[t] \in Sessions
    BY SessionType DEF Good
  <1>2. c \in Sessions /\ c.conn = s.clients[t].conn /\ c.data = s.clients[t].data
        /\ c.out = s.clients[t].out /\ c.queue = s.clients[t].queue
        /\ c.alive = s.clients[t].alive /\ c.fails = s.clients[t].fails
    BY <1>1 DEF Sessions
  <1>3. Became(s, t, state) = With(s, t, c, s.global)
    BY <1>1 DEF Became, Servers, With
  <1>4. SessionOK(s.file, c)
    <2>1. SessionOK(s.file, s.clients[t])
      BY DEF Good
    <2> QED BY <1>2, <2>1 DEF SessionOK
  <1>5. Held(c) = Held(s.clients[t]) /\ s.global \in Nat /\ s.global <= MaxGlobal
    BY <1>1, <1>2, SessionReal DEF Good, BudgetIn, Servers
  <1>6. s.global + Held(s.clients[t]) = s.global + Held(c)
    BY <1>5
  <1> HIDE DEF c
  <1> QED BY <1>2, <1>3, <1>4, <1>5, <1>6, SessionStep

\* flushSendBuf: what is sent is given back to the budget.
LEMMA FlushSignalGood ==
  ASSUME NEW f, NEW s, Good(s, f), NEW t \in Clients(s), NEW u \in FlushSignal(s, t)
  PROVE  Good(u, f) /\ Clients(u) = Clients(s) /\ u.pending = s.pending
  <1>1. s \in Servers /\ t \in Fds /\ s.clients[t] \in Sessions
        /\ s.clients[t].out \in Nat /\ s.clients[t].out <= MaxBuf
        /\ s.clients[t].queue \in Seq(Conns) /\ Len(s.clients[t].queue) \in Nat
        /\ Held(s.clients[t]) = s.clients[t].out + Len(s.clients[t].queue)
    BY SessionType DEF Good
  <1>2. CASE u = Dead(s, t)
    BY <1>2, DeadGood
  <1>3. ASSUME NEW k \in 0 .. s.clients[t].out,
               u = [s EXCEPT !.clients[t].out = @ - k, !.global = Less(@, k)]
        PROVE  Good(u, f) /\ Clients(u) = Clients(s) /\ u.pending = s.pending
    <2> DEFINE c == [s.clients[t] EXCEPT !.out = @ - k]
               g == Less(s.global, k)
    <2>1. k \in Nat /\ k <= s.clients[t].out /\ s.clients[t].out \in Nat
          /\ s.clients[t].out <= MaxBuf
      BY <1>1
    <2>2. s.clients[t].out - k \in 0 .. MaxBuf
      BY <2>1, Bounds
    <2>3. c \in Sessions /\ c.conn = s.clients[t].conn /\ c.data = s.clients[t].data
          /\ c.out = s.clients[t].out - k /\ c.queue = s.clients[t].queue
          /\ c.alive = s.clients[t].alive /\ c.fails = s.clients[t].fails
      BY <1>1, <2>2 DEF Sessions
    <2>4. u = With(s, t, c, g)
      BY <1>1, <1>3 DEF Servers, With
    <2>5. SessionOK(s.file, c)
      <3>1. SessionOK(s.file, s.clients[t])
        BY DEF Good
      <3> QED BY <2>3, <3>1 DEF SessionOK
    <2>6. g \in Nat /\ g = s.global - k /\ g <= MaxGlobal
      <3>1. Held(s.clients[t]) <= s.global /\ s.global \in Nat
        BY BudgetCovers
      <3>2. s.global <= MaxGlobal /\ MaxGlobal \in Nat
        BY ChannelsAssumption DEF Good, BudgetIn
      <3>3. k <= s.global
        BY <1>1, <2>1, <3>1
      <3> QED BY <2>1, <3>1, <3>2, <3>3 DEF Less
    <2>7. g + Held(s.clients[t]) = s.global + Held(c)
      <3>1. Held(c) = c.out + Len(c.queue) /\ s.global \in Nat
        BY <2>3, SessionReal, BudgetCovers
      <3> QED BY <1>1, <2>1, <2>3, <2>6, <3>1
    <2> HIDE DEF c, g
    <2> QED BY <2>3, <2>4, <2>5, <2>6, <2>7, SessionStep
  <1> QED BY <1>2, <1>3 DEF FlushSignal

\* clearSendBuffer of either connection gives back what was queued there.
LEMMA ClearSignalGood ==
  ASSUME NEW f, NEW s, Good(s, f), NEW t \in Clients(s)
  PROVE  /\ Good(ClearSignal(s, t), f) /\ Clients(ClearSignal(s, t)) = Clients(s)
         /\ ClearSignal(s, t).pending = s.pending
         /\ ClearSignal(s, t).file = s.file /\ ClearSignal(s, t).active = s.active
         /\ ClearSignal(s, t).clients[t].out = 0
         /\ ClearSignal(s, t).clients[t].data = s.clients[t].data
         /\ ClearSignal(s, t).clients[t].queue = s.clients[t].queue
         /\ ClearSignal(s, t).clients[t].conn = s.clients[t].conn
  <1> DEFINE c == [s.clients[t] EXCEPT !.out = 0]
             g == Less(s.global, s.clients[t].out)
  <1>1. s \in Servers /\ t \in Fds /\ s.clients[t] \in Sessions
        /\ s.clients[t].out \in Nat
        /\ s.clients[t].queue \in Seq(Conns) /\ Len(s.clients[t].queue) \in Nat
        /\ Held(s.clients[t]) = s.clients[t].out + Len(s.clients[t].queue)
    BY SessionType DEF Good
  <1>2. 0 \in 0 .. MaxBuf
    BY Bounds
  <1>3. c \in Sessions /\ c.conn = s.clients[t].conn /\ c.data = s.clients[t].data
        /\ c.out = 0 /\ c.queue = s.clients[t].queue
        /\ c.alive = s.clients[t].alive /\ c.fails = s.clients[t].fails
    BY <1>1, <1>2 DEF Sessions
  <1>4. /\ ClearSignal(s, t) = With(s, t, c, g)
        /\ ClearSignal(s, t).file = s.file /\ ClearSignal(s, t).active = s.active
        /\ ClearSignal(s, t).clients[t] = c
    BY <1>1 DEF ClearSignal, Servers, With
  <1>5. SessionOK(s.file, c)
    <2>1. SessionOK(s.file, s.clients[t])
      BY DEF Good
    <2> QED BY <1>3, <2>1 DEF SessionOK
  <1>6. g \in Nat /\ g = s.global - s.clients[t].out /\ g <= MaxGlobal
    <2>1. Held(s.clients[t]) <= s.global /\ s.global \in Nat
      BY BudgetCovers
    <2>2. s.global <= MaxGlobal /\ MaxGlobal \in Nat
      BY Bounds DEF Good, BudgetIn
    <2>3. s.clients[t].out <= s.global
      BY <1>1, <2>1
    <2> QED BY <1>1, <2>1, <2>2, <2>3 DEF Less
  <1>7. g + Held(s.clients[t]) = s.global + Held(c)
    <2>1. Held(c) = c.out + Len(c.queue) /\ s.global \in Nat
      BY <1>3, SessionReal, BudgetCovers
    <2> QED BY <1>1, <1>3, <1>6, <2>1
  <1> HIDE DEF c, g
  <1>8. /\ Good(ClearSignal(s, t), f) /\ Clients(ClearSignal(s, t)) = Clients(s)
        /\ ClearSignal(s, t).pending = s.pending
    BY <1>3, <1>4, <1>5, <1>6, <1>7, SessionStep
  <1> QED BY <1>8, <1>3, <1>4

\* The empty buffer is one.
LEMMA EmptyQueue == <<>> \in UNION {[1 .. n -> Conns] : n \in 0 .. MaxBuf} /\ Len(<<>>) = 0
  <1>1. <<>> \in Seq(Conns) /\ Len(<<>>) = 0 /\ Len(<<>>) <= MaxBuf
    BY Bounds
  <1> QED BY <1>1, QueueType

\* The same for the data channel.
LEMMA ClearDataGood ==
  ASSUME NEW f, NEW s, Good(s, f), NEW t \in Clients(s)
  PROVE  /\ Good(ClearData(s, t), f) /\ Clients(ClearData(s, t)) = Clients(s)
         /\ ClearData(s, t).pending = s.pending
         /\ ClearData(s, t).file = s.file /\ ClearData(s, t).active = s.active
         /\ ClearData(s, t).clients[t] = [s.clients[t] EXCEPT !.queue = <<>>]
  <1> DEFINE c == [s.clients[t] EXCEPT !.queue = <<>>]
             g == Less(s.global, Len(s.clients[t].queue))
  <1>1. s \in Servers /\ t \in Fds /\ s.clients[t] \in Sessions
        /\ s.clients[t].out \in Nat
        /\ s.clients[t].queue \in Seq(Conns) /\ Len(s.clients[t].queue) \in Nat
        /\ Held(s.clients[t]) = s.clients[t].out + Len(s.clients[t].queue)
    BY SessionType DEF Good
  <1>3. c \in Sessions /\ c.conn = s.clients[t].conn /\ c.data = s.clients[t].data
        /\ c.out = s.clients[t].out /\ c.queue = <<>>
        /\ c.alive = s.clients[t].alive /\ c.fails = s.clients[t].fails
    BY <1>1, EmptyQueue DEF Sessions
  <1>4. /\ ClearData(s, t) = With(s, t, c, g)
        /\ ClearData(s, t).file = s.file /\ ClearData(s, t).active = s.active
        /\ ClearData(s, t).clients[t] = c
    BY <1>1 DEF ClearData, Servers, With
  <1>5. SessionOK(s.file, c)
    <2>1. SessionOK(s.file, s.clients[t])
      BY DEF Good
    <2> QED BY <1>3, <2>1 DEF SessionOK
  <1>6. g \in Nat /\ g = s.global - Len(s.clients[t].queue) /\ g <= MaxGlobal
    <2>1. Held(s.clients[t]) <= s.global /\ s.global \in Nat
      BY BudgetCovers
    <2>2. s.global <= MaxGlobal /\ MaxGlobal \in Nat
      BY Bounds DEF Good, BudgetIn
    <2>3. Len(s.clients[t].queue) <= s.global
      BY <1>1, <2>1
    <2> QED BY <1>1, <2>1, <2>2, <2>3 DEF Less
  <1>7. g + Held(s.clients[t]) = s.global + Held(c)
    <2>1. Held(c) = c.out + Len(c.queue) /\ s.global \in Nat
      BY <1>3, SessionReal, BudgetCovers
    <2>2. Len(c.queue) = 0
      BY <1>3, EmptyQueue
    <2> QED BY <1>1, <1>3, <1>6, <2>1, <2>2
  <1> HIDE DEF c, g
  <1>8. /\ Good(ClearData(s, t), f) /\ Clients(ClearData(s, t)) = Clients(s)
        /\ ClearData(s, t).pending = s.pending
    BY <1>3, <1>4, <1>5, <1>6, <1>7, SessionStep
  <1> QED BY <1>8, <1>4 DEF c

\* u is s after the data channel d of t was closed, once its buffer was empty.
Detached(s, t, d, u) ==
  /\ \A x \in Fds \ {t} : u.clients[x] = s.clients[x]
  /\ u.clients[t] = [s.clients[t] EXCEPT !.data = 0]
  /\ \A x \in Fds \ {d} : u.file[x] = s.file[x] /\ u.dataMap[x] = s.dataMap[x]
  /\ u.file[d] = NoConn /\ u.dataMap[d] = 0
  /\ u.pending = s.pending /\ u.waiting = s.waiting /\ u.active = s.active
  /\ u.closed = s.closed \cup {d} /\ u.global = s.global

\* The descriptor of a data channel is closed together with its entry.
LEMMA DetachGood ==
  ASSUME NEW f, NEW s, Good(s, f), NEW t \in Clients(s),
         NEW d, d = s.clients[t].data, d # 0, s.clients[t].queue = <<>>,
         NEW u \in Servers, Detached(s, t, d, u)
  PROVE  /\ Good(u, f) /\ Clients(u) = Clients(s)
         /\ \A p \in s.pending : u.file[p] = s.file[p]
  <1> DEFINE c == [s.clients[t] EXCEPT !.data = 0]
  <1>1. s \in Servers /\ t \in Fds /\ s.clients[t] \in Sessions
    BY SessionType DEF Good
  <1>2. d \in Fds /\ DescriptorsIn(s)
    BY <1>1 DEF Sessions, Good
  <1>3. /\ c \in Sessions /\ c.conn = s.clients[t].conn /\ c.data = 0
        /\ c.out = s.clients[t].out /\ c.queue = s.clients[t].queue
        /\ c.alive = s.clients[t].alive /\ c.fails = s.clients[t].fails
    BY <1>1 DEF Sessions
  <1>4. /\ u.pending = s.pending /\ u.waiting = s.waiting /\ u.active = s.active
        /\ u.closed = s.closed \cup {d} /\ u.global = s.global
    BY DEF Detached
  <1>5. u \in Servers
    OBVIOUS
  <1>6. /\ \A x \in Fds \ {t} : u.clients[x] = s.clients[x]
        /\ u.clients[t] = c
        /\ \A x \in Fds \ {d} : u.file[x] = s.file[x] /\ u.dataMap[x] = s.dataMap[x]
        /\ u.file[d] = NoConn /\ u.dataMap[d] = 0
    BY DEF Detached
  <1>7. Clients(u) = Clients(s)
    <2>1. c # NoSession /\ s.clients[t] # NoSession
      BY <1>3, SessionReal DEF Clients
    <2> QED BY <1>1, <1>6, <2>1 DEF Clients
  <1> HIDE DEF c
  <1>8. s.dataMap[d] = t /\ d \notin s.pending /\ d \notin Clients(s) /\ d # t
    <2>1. s.dataMap[d] = t
      BY <1>2 DEF DescriptorsIn
    <2>2. t # 0
      BY <1>1, FdsFinite
    <2> QED BY <1>2, <2>1, <2>2 DEF DescriptorsIn
  <1>9. BudgetIn(u)
    <2>1. Held(c) = Held(s.clients[t])
      BY <1>1, <1>3, SessionReal
    <2>2. Load(u) = Load(s)
      BY <1>6, <2>1 DEF Load
    <2> QED BY <1>4, <2>2 DEF BudgetIn, Good
  <1>10. DescriptorsIn(u)
    <2>1. /\ s.pending \subseteq Fds /\ Clients(s) \subseteq Fds /\ 0 \notin Fds
          /\ \A x \in Clients(s) \ {t} : s.clients[x] \in Sessions
      BY <1>1, SessionType, FdsFinite DEF Servers
    <2>2. ASSUME NEW x \in Fds
          PROVE  u.file[x] # NoConn <=>
                   x \in u.pending \/ x \in Clients(u) \/ u.dataMap[x] # 0
      BY <1>2, <1>4, <1>6, <1>7, <1>8, <2>1 DEF DescriptorsIn
    <2>3. ASSUME NEW x \in u.pending
          PROVE  x \notin Clients(u) /\ u.dataMap[x] = 0
      BY <1>2, <1>4, <1>6, <1>7, <1>8, <2>1 DEF DescriptorsIn
    <2>4. ASSUME NEW x \in Clients(u) PROVE u.dataMap[x] = 0
      BY <1>2, <1>4, <1>6, <1>7, <1>8, <2>1 DEF DescriptorsIn
    <2>5. ASSUME NEW x \in Fds, u.dataMap[x] # 0
          PROVE  u.dataMap[x] \in Clients(u) /\ u.clients[u.dataMap[x]].data = x
      <3>1. x # d /\ u.dataMap[x] = s.dataMap[x]
        BY <1>6, <2>5
      <3>2. s.dataMap[x] \in Clients(s) /\ s.clients[s.dataMap[x]].data = x
        BY <1>2, <2>5, <3>1 DEF DescriptorsIn
      <3>3. s.dataMap[x] # t
        BY <3>1, <3>2
      <3> QED BY <1>6, <1>7, <2>1, <3>1, <3>2, <3>3
    <2>6. ASSUME NEW x \in Clients(u), u.clients[x].data # 0
          PROVE  u.dataMap[u.clients[x].data] = x
      <3>1. x \in Clients(s) /\ x # t /\ u.clients[x] = s.clients[x]
        BY <1>3, <1>6, <1>7, <2>1, <2>6
      <3>2. s.dataMap[s.clients[x].data] = x /\ s.clients[x].data \in Fds
        BY <1>2, <2>1, <2>6, <3>1 DEF DescriptorsIn, Sessions
      <3>3. s.clients[x].data # d
        BY <1>8, <3>1, <3>2
      <3> QED BY <1>6, <3>1, <3>2, <3>3
    <2> QED BY <2>2, <2>3, <2>4, <2>5, <2>6 DEF DescriptorsIn
  <1>11. \A p \in s.pending : u.file[p] = s.file[p]
    BY <1>1, <1>6, <1>8 DEF Servers
  <1>12. AddressesIn(u)
    <2>1. \A i : Waiting(u, i) = Waiting(s, i)
      BY <1>4, <1>11 DEF Waiting
    <2>2. \A x \in Clients(s) : u.clients[x].conn = s.clients[x].conn
      BY <1>3, <1>6 DEF Clients
    <2>3. \A i : Active(u, i) = Active(s, i)
      BY <1>7, <2>2 DEF Active
    <2> QED BY <1>4, <2>1, <2>3 DEF AddressesIn, Good
  <1>13. StaleIn(u, f)
    <2>1. StaleIn(s, f) /\ s.closed \subseteq Fds
      BY <1>1 DEF Good, Servers
    <2> QED BY <1>4, <1>6, <1>7, <1>8, <2>1 DEF StaleIn
  <1>14. ASSUME NEW x \in Clients(u) PROVE SessionOK(u.file, u.clients[x])
    <2>1. x \in Clients(s) /\ x \in Fds /\ SessionOK(s.file, s.clients[x])
      BY <1>7 DEF Good, Clients
    <2>2. CASE x = t
      <3>1. u.clients[x].queue = <<>> /\ DOMAIN <<>> = {}
        BY <1>3, <1>6, <2>2
      <3> QED BY <1>3, <1>6, <2>1, <2>2, <3>1 DEF SessionOK
    <2>3. CASE x # t
      <3>1. u.clients[x] = s.clients[x] /\ s.clients[x] \in Sessions
        BY <1>1, <1>6, <2>1, <2>3, SessionType
      <3>2. s.clients[x].data # d /\ s.clients[x].data \in Fds \cup {0}
        BY <1>2, <1>8, <2>1, <2>3, <3>1 DEF DescriptorsIn, Sessions
      <3>3. s.clients[x].data # 0 => u.file[s.clients[x].data] = s.file[s.clients[x].data]
        BY <1>6, <3>2
      <3> QED BY <2>1, <3>1, <3>3 DEF SessionOK
    <2> QED BY <2>2, <2>3
  <1>15. Good(u, f)
    BY <1>5, <1>9, <1>10, <1>12, <1>13, <1>14 DEF Good
  <1> QED BY <1>7, <1>11, <1>15

\* closeDataChannel: the descriptor, its entry and its buffer go together.
LEMMA CloseDataChannelGood ==
  ASSUME NEW f, NEW s, Good(s, f), NEW t \in Clients(s)
  PROVE  LET u == CloseDataChannel(s, t)
         IN /\ Good(u, f) /\ Clients(u) = Clients(s) /\ u.pending = s.pending
            /\ \A p \in s.pending : u.file[p] = s.file[p]
            /\ u.active = s.active
            /\ u.clients[t].data = 0 /\ u.clients[t].queue = <<>>
            /\ u.clients[t].conn = s.clients[t].conn
  <1> DEFINE d == s.clients[t].data
             v == ClearData(s, t)
  <1>1. s \in Servers /\ t \in Fds /\ s.clients[t] \in Sessions
    BY SessionType DEF Good
  <1>2. /\ Good(v, f) /\ Clients(v) = Clients(s) /\ v.pending = s.pending
        /\ v.file = s.file /\ v.active = s.active
        /\ v.clients[t] = [s.clients[t] EXCEPT !.queue = <<>>]
    BY ClearDataGood
  <1>3. CASE d = 0
    <2>1. CloseDataChannel(s, t) = v
      BY <1>3 DEF CloseDataChannel
    <2>2. v.clients[t].data = 0 /\ v.clients[t].queue = <<>>
          /\ v.clients[t].conn = s.clients[t].conn
      BY <1>1, <1>2, <1>3 DEF Sessions
    <2> HIDE DEF v
    <2> QED BY <1>2, <2>1, <2>2
  <1>4. CASE d # 0
    <2>0. d \in Fds
      BY <1>1, <1>4 DEF Sessions
    <2> DEFINE W == CloseFd([s EXCEPT !.dataMap[d] = 0, !.clients[t].data = 0], d)
               o == [s.clients[t] EXCEPT !.data = 0]
               u == ClearData(W, t)
    <2>1. CloseDataChannel(s, t) = u
      BY <1>4 DEF CloseDataChannel
    <2>2. v.clients[t].data = d /\ v.clients[t].queue = <<>>
      BY <1>1, <1>2 DEF Sessions
    <2>3. /\ W \in Servers
          /\ W.file = [s.file EXCEPT ![d] = NoConn] /\ W.pending = s.pending
          /\ W.dataMap = [s.dataMap EXCEPT ![d] = 0]
          /\ W.waiting = s.waiting /\ W.active = s.active
          /\ W.closed = s.closed \cup {d} /\ W.global = s.global
          /\ W.clients = [s.clients EXCEPT ![t] = o]
      BY <1>1, <2>0 DEF CloseFd, Servers, Sessions
    <2>4. o \in Sessions /\ o.queue = s.clients[t].queue
      BY <1>1 DEF Sessions
    <2> HIDE DEF W
    <2>5. W.clients[t] = o
      BY <1>1, <2>3 DEF Servers
    <2>6. /\ u.file = W.file /\ u.pending = W.pending /\ u.dataMap = W.dataMap
          /\ u.waiting = W.waiting /\ u.active = W.active /\ u.closed = W.closed
          /\ u.global = Less(s.global, Len(s.clients[t].queue))
          /\ u.clients = [W.clients EXCEPT ![t] = [o EXCEPT !.queue = <<>>]]
      BY <1>1, <2>3, <2>4, <2>5 DEF ClearData, Servers
    <2>7. u \in Servers
      <3>1. Less(s.global, Len(s.clients[t].queue)) \in Nat
        BY <1>1, SessionType DEF Less, Servers
      <3>2. [o EXCEPT !.queue = <<>>] \in Sessions
        BY <2>4, EmptyQueue DEF Sessions
      <3> QED BY <1>1, <2>3, <2>4, <2>5, <3>1, <3>2 DEF ClearData, Servers
    <2>8. /\ v.dataMap = s.dataMap /\ v.waiting = s.waiting /\ v.closed = s.closed
          /\ v.global = Less(s.global, Len(s.clients[t].queue))
          /\ v.clients = [s.clients EXCEPT ![t] = [s.clients[t] EXCEPT !.queue = <<>>]]
      BY <1>1 DEF ClearData, Servers
    <2>9. /\ \A x \in Fds \ {t} : u.clients[x] = v.clients[x]
          /\ u.clients[t] = [s.clients[t] EXCEPT !.data = 0, !.queue = <<>>]
          /\ v.clients[t] = [s.clients[t] EXCEPT !.queue = <<>>]
      <3> HIDE DEF u, v
      <3>1. \A x \in Fds \ {t} : u.clients[x] = s.clients[x]
        BY <1>1, <2>3, <2>6 DEF Servers
      <3>2. \A x \in Fds \ {t} : v.clients[x] = s.clients[x]
        BY <1>1, <2>8 DEF Servers
      <3>3. u.clients[t] = [o EXCEPT !.queue = <<>>]
        BY <1>1, <2>3, <2>6 DEF Servers
      <3> QED BY <1>1, <1>2, <3>1, <3>2, <3>3 DEF Sessions
    <2> HIDE DEF u, v
    <2>10. u.clients[t] = [v.clients[t] EXCEPT !.data = 0]
      BY <1>1, <2>9 DEF Sessions
    <2>11. /\ \A x \in Fds \ {d} : u.file[x] = s.file[x] /\ u.dataMap[x] = s.dataMap[x]
           /\ u.file[d] = NoConn /\ u.dataMap[d] = 0
      BY <1>1, <2>0, <2>3, <2>6 DEF Servers
    <2>12. Detached(v, t, d, u)
      BY <1>2, <2>3, <2>6, <2>8, <2>9, <2>10, <2>11 DEF Detached
    <2>13. Good(u, f) /\ Clients(u) = Clients(v) /\ \A p \in v.pending : u.file[p] = v.file[p]
      <3> HIDE DEF d
      <3>1. Good(v, f) /\ t \in Clients(v) /\ d = v.clients[t].data /\ d # 0
            /\ v.clients[t].queue = <<>>
        BY <1>2, <1>4, <2>2
      <3> QED BY ONLY <3>1, <2>7, <2>12, DetachGood
    <2>14. u.clients[t].data = 0 /\ u.clients[t].queue = <<>>
           /\ u.clients[t].conn = s.clients[t].conn
      BY <1>1, <2>9 DEF Sessions
    <2> QED BY <1>2, <2>1, <2>3, <2>6, <2>13, <2>14
  <1> QED BY <1>3, <1>4

\* flushDataSendBuf: what is sent is given back to the budget; an error closes the
\* channel.
LEMMA FlushDataGood ==
  ASSUME NEW f, NEW s, Good(s, f), NEW t \in Clients(s), NEW u \in FlushData(s, t)
  PROVE  Good(u, f) /\ Clients(u) = Clients(s) /\ u.pending = s.pending
  <1> DEFINE q == s.clients[t].queue
  <1>1. s \in Servers /\ t \in Fds /\ s.clients[t] \in Sessions
        /\ s.clients[t].out \in Nat
        /\ q \in Seq(Conns) /\ Len(q) \in Nat /\ Len(q) <= MaxBuf
        /\ Held(s.clients[t]) = s.clients[t].out + Len(q)
    BY SessionType DEF Good
  <1>2. CASE u = CloseDataChannel(s, t)
    BY <1>2, CloseDataChannelGood
  <1>3. ASSUME NEW k \in 0 .. Len(q),
               u = [s EXCEPT !.clients[t].queue = SubSeq(q, k + 1, Len(q)),
                             !.global = Less(@, k)]
        PROVE  Good(u, f) /\ Clients(u) = Clients(s) /\ u.pending = s.pending
    <2> DEFINE r == SubSeq(q, k + 1, Len(q))
               c == [s.clients[t] EXCEPT !.queue = r]
               g == Less(s.global, k)
    <2>1. k \in Nat /\ k <= Len(q)
      BY <1>1
    <2>2. /\ r \in Seq(Conns) /\ Len(r) = Len(q) - k /\ DOMAIN r = 1 .. Len(r)
          /\ \A i \in DOMAIN r : r[i] = q[k + i] /\ k + i \in DOMAIN q
      <3> HIDE DEF q
      <3>1. k + 1 \in 1 .. Len(q) + 1 /\ \A i \in 1 .. Len(q) : q[i] \in Conns
        BY <1>1, <2>1
      <3>2. r = [i \in 1 .. (Len(q) - k) |-> q[i + k]]
        BY <1>1, <2>1
      <3>3. Len(q) - k \in Nat
        BY <1>1, <2>1
      <3>4. \A i \in 1 .. (Len(q) - k) : i + k \in 1 .. Len(q) /\ i + k = k + i
        BY <1>1, <2>1
      <3>5. r \in Seq(Conns) /\ Len(r) = Len(q) - k
        BY <1>1, <2>1, <3>1, <3>2, <3>3, <3>4
      <3> HIDE DEF r
      <3>6. DOMAIN q = 1 .. Len(q)
        BY <1>1
      <3> QED BY <3>2, <3>4, <3>5, <3>6
    <2>3. r \in UNION {[1 .. n -> Conns] : n \in 0 .. MaxBuf}
      <3>1. Len(r) <= MaxBuf
        BY <1>1, <2>1, <2>2, Bounds
      <3> QED BY <2>2, <3>1, QueueType
    <2> HIDE DEF r, q
    <2>4. c \in Sessions /\ c.conn = s.clients[t].conn /\ c.data = s.clients[t].data
          /\ c.out = s.clients[t].out /\ c.queue = r
          /\ c.alive = s.clients[t].alive /\ c.fails = s.clients[t].fails
      BY <1>1, <2>3 DEF Sessions
    <2>5. u = With(s, t, c, g)
      BY <1>1, <1>3 DEF Servers, With, r
    <2>6. SessionOK(s.file, c)
      <3>1. SessionOK(s.file, s.clients[t])
        BY DEF Good
      <3> QED BY <2>2, <2>4, <3>1 DEF SessionOK, q
    <2>7. g \in Nat /\ g = s.global - k /\ g <= MaxGlobal
      <3>1. Held(s.clients[t]) <= s.global /\ s.global \in Nat
        BY BudgetCovers
      <3>2. s.global <= MaxGlobal /\ MaxGlobal \in Nat
        BY Bounds DEF Good, BudgetIn
      <3>3. k <= s.global
        BY <1>1, <2>1, <3>1
      <3> QED BY <2>1, <3>1, <3>2, <3>3 DEF Less
    <2>8. g + Held(s.clients[t]) = s.global + Held(c)
      <3>1. Held(c) = c.out + Len(c.queue) /\ s.global \in Nat
        BY <2>4, SessionReal, BudgetCovers
      <3> QED BY <1>1, <2>1, <2>2, <2>4, <2>7, <3>1
    <2> HIDE DEF c, g
    <2> QED BY <2>4, <2>5, <2>6, <2>7, <2>8, SessionStep
  <1> QED BY <1>2, <1>3 DEF FlushData

\* sendClientMsg and sendMsg: one more frame is queued within both limits, or the
\* failure is counted.
LEMMA SendMsgGood ==
  ASSUME NEW f, NEW s, Good(s, f), NEW t \in Clients(s), NEW required \in BOOLEAN,
         NEW u \in SendMsg(s, t, required)
  PROVE  Good(u, f) /\ Clients(u) = Clients(s) /\ u.pending = s.pending
  <1> DEFINE o == s.clients[t]
  <1>1. s \in Servers /\ t \in Fds /\ o \in Sessions
        /\ o.out \in Nat /\ o.out <= MaxBuf /\ o.fails \in Nat /\ o.alive \in BOOLEAN
        /\ o.queue \in Seq(Conns) /\ Len(o.queue) \in Nat
        /\ Held(o) = o.out + Len(o.queue)
    BY SessionType DEF Good
  <1>2. SessionOK(s.file, o) /\ s.global \in Nat /\ s.global <= MaxGlobal
    BY DEF Good, BudgetIn, Servers
  <1>3. CASE ~o.alive
    BY <1>3 DEF SendMsg
  <1>4. CASE o.alive /\ ~Fits(s, o.out)
    <2> DEFINE c == [o EXCEPT !.fails = @ + 1,
                              !.alive = ~required /\ o.fails + 1 < MaxFailures]
    <2>1. o.fails + 1 \in 0 .. MaxFailures
      BY <1>1, <1>2, <1>4, Bounds DEF SessionOK
    <2>2. /\ c \in Sessions /\ c.conn = o.conn /\ c.data = o.data
          /\ c.out = o.out /\ c.queue = o.queue
          /\ c.alive = (~required /\ o.fails + 1 < MaxFailures) /\ c.fails = o.fails + 1
      BY <1>1, <2>1 DEF Sessions
    <2>3. u = With(s, t, c, s.global)
      <3> DEFINE v == [s EXCEPT !.clients[t].fails = @ + 1,
                        !.clients[t].alive = ~required /\ s.clients[t].fails + 1 < MaxFailures]
      <3>1. v = With(s, t, c, s.global)
        BY <1>1 DEF Servers, With, Sessions
      <3>2. u = v
        BY <1>4 DEF SendMsg
      <3> QED BY ONLY <3>1, <3>2
    <2>4. SessionOK(s.file, c)
      BY <1>2, <2>2 DEF SessionOK
    <2>5. Held(c) = Held(o)
      BY <1>1, <2>2, SessionReal
    <2>6. s.global + Held(o) = s.global + Held(c)
      BY <2>5
    <2> HIDE DEF c
    <2> QED BY <1>2, <2>2, <2>3, <2>4, <2>6, SessionStep
  <1>5. CASE o.alive /\ Fits(s, o.out)
    <2> DEFINE c == [o EXCEPT !.out = @ + 1, !.fails = 0]
               v == With(s, t, c, s.global + 1)
    <2>1. o.out + 1 \in 0 .. MaxBuf /\ 0 \in 0 .. MaxFailures
      BY <1>1, <1>5, Bounds DEF Fits
    <2>2. /\ c \in Sessions /\ c.conn = o.conn /\ c.data = o.data
          /\ c.out = o.out + 1 /\ c.queue = o.queue
          /\ c.alive = o.alive /\ c.fails = 0
      BY <1>1, <2>1 DEF Sessions
    <2>3. u \in FlushSignal(v, t)
      <3>1. v = [s EXCEPT !.clients[t].out = @ + 1, !.global = @ + 1,
                          !.clients[t].fails = 0]
        BY <1>1 DEF With, Servers, Sessions
      <3> HIDE DEF v
      <3> QED BY <1>5, <3>1 DEF SendMsg
    <2>4. SessionOK(s.file, c)
      BY <1>2, <2>2, Bounds DEF SessionOK
    <2>5. s.global + 1 \in Nat /\ s.global + 1 <= MaxGlobal
      BY <1>2, <1>5, Bounds DEF Fits
    <2>6. s.global + 1 + Held(o) = s.global + Held(c)
      <3>1. Held(c) = c.out + Len(c.queue)
        BY <2>2, SessionReal
      <3> HIDE DEF c, o
      <3>2. Held(c) = (o.out + 1) + Len(o.queue)
        BY <2>2, <3>1
      <3>3. Held(o) = o.out + Len(o.queue) /\ o.out \in Nat /\ Len(o.queue) \in Nat
            /\ s.global \in Nat
        BY <1>1, <1>2
      <3>4. ASSUME NEW k \in Nat, NEW a \in Nat, NEW b \in Nat
            PROVE  k + 1 + (a + b) = k + ((a + 1) + b)
        OBVIOUS
      <3>5. s.global + 1 + (o.out + Len(o.queue)) = s.global + ((o.out + 1) + Len(o.queue))
        BY <3>3, <3>4
      <3> QED BY <3>2, <3>3, <3>5, Zenon
    <2> HIDE DEF c
    <2>7. Good(v, f) /\ Clients(v) = Clients(s) /\ v.pending = s.pending
      BY <2>2, <2>4, <2>5, <2>6, SessionStep
    <2> HIDE DEF v
    <2> QED BY <2>3, <2>7, FlushSignalGood
  <1> QED BY <1>3, <1>4, <1>5

\* sendDataMsg: as sendMsg, but a channel that cannot take the frame is closed.
LEMMA SendDataMsgGood ==
  ASSUME NEW f, NEW s, Good(s, f), NEW t \in Clients(s), NEW u \in SendDataMsg(s, t)
  PROVE  Good(u, f) /\ Clients(u) = Clients(s) /\ u.pending = s.pending
  <1> DEFINE o == s.clients[t]
  <1>1. s \in Servers /\ t \in Fds /\ o \in Sessions
        /\ o.out \in Nat /\ o.alive \in BOOLEAN
        /\ o.queue \in Seq(Conns) /\ Len(o.queue) \in Nat
        /\ Held(o) = o.out + Len(o.queue)
    BY SessionType DEF Good
  <1>2. SessionOK(s.file, o) /\ s.global \in Nat /\ s.global <= MaxGlobal
    BY DEF Good, BudgetIn, Servers
  <1>3. CASE u = s
    BY <1>3
  <1>4. CASE u = Dead(s, t)
    BY <1>4, DeadGood
  <1>5. CASE u = CloseDataChannel(s, t)
    BY <1>5, CloseDataChannelGood
  <1>6. ASSUME o.data # 0, Fits(s, Len(o.queue)),
               u \in FlushData([s EXCEPT !.clients[t].queue = Append(@, s.file[o.data]),
                                         !.global = @ + 1], t)
        PROVE  Good(u, f) /\ Clients(u) = Clients(s) /\ u.pending = s.pending
    <2> DEFINE x == s.file[o.data]
               r == Append(o.queue, x)
               c == [o EXCEPT !.queue = r]
               v == With(s, t, c, s.global + 1)
    <2>1. x \in Conns
      <3>1. o.data \in Fds /\ DescriptorsIn(s)
        BY <1>1, <1>6 DEF Sessions, Good
      <3>2. s.dataMap[o.data] = t /\ t # 0
        BY <1>1, <1>6, <3>1, FdsFinite DEF DescriptorsIn
      <3>3. s.file[o.data] # NoConn
        BY <3>1, <3>2 DEF DescriptorsIn
      <3> QED BY <1>1, <3>1, <3>3 DEF Servers
    <2>2. /\ r \in Seq(Conns) /\ Len(r) = Len(o.queue) + 1
          /\ \A i \in DOMAIN r : (i \in DOMAIN o.queue /\ r[i] = o.queue[i]) \/ r[i] = x
      <3> HIDE DEF x, o
      <3> QED BY <1>1, <2>1
    <2>3. r \in UNION {[1 .. n -> Conns] : n \in 0 .. MaxBuf}
      <3>1. Len(r) <= MaxBuf
        BY <1>1, <1>6, <2>2, Bounds DEF Fits
      <3> QED BY <2>2, <3>1, QueueType
    <2> HIDE DEF r, x
    <2>4. /\ c \in Sessions /\ c.conn = o.conn /\ c.data = o.data
          /\ c.out = o.out /\ c.queue = r
          /\ c.alive = o.alive /\ c.fails = o.fails
      BY <1>1, <2>3 DEF Sessions
    <2>5. u \in FlushData(v, t)
      <3>1. v = [s EXCEPT !.clients[t].queue = Append(@, s.file[o.data]),
                          !.global = @ + 1]
        BY <1>1 DEF With, Servers, Sessions, r, x
      <3> HIDE DEF v
      <3> QED BY <1>6, <3>1
    <2>6. SessionOK(s.file, c)
      BY <1>2, <1>6, <2>2, <2>4 DEF SessionOK, x
    <2>7. s.global + 1 \in Nat /\ s.global + 1 <= MaxGlobal
      BY <1>2, <1>6, Bounds DEF Fits
    <2>8. s.global + 1 + Held(o) = s.global + Held(c)
      <3>1. Held(c) = c.out + Len(c.queue)
        BY <2>4, SessionReal
      <3> HIDE DEF c, o
      <3>2. Held(c) = o.out + (Len(o.queue) + 1)
        BY <2>2, <2>4, <3>1
      <3> QED BY <1>1, <1>2, <3>2
    <2> HIDE DEF c
    <2>9. Good(v, f) /\ Clients(v) = Clients(s) /\ v.pending = s.pending
      BY <2>4, <2>6, <2>7, <2>8, SessionStep
    <2> HIDE DEF v
    <2> QED BY <2>5, <2>9, FlushDataGood
  <1>7. \/ u = s \/ u = Dead(s, t) \/ u = CloseDataChannel(s, t)
        \/ /\ o.data # 0 /\ Fits(s, Len(o.queue))
           /\ u \in FlushData([s EXCEPT !.clients[t].queue = Append(@, s.file[o.data]),
                                        !.global = @ + 1], t)
    BY DEF SendDataMsg
  <1> QED BY <1>3, <1>4, <1>5, <1>6, <1>7

-----------------------------------------------------------------------------
(* Descriptors and addresses *)

\* The counters of an address follow the sets that they count.
LEMMA Counting ==
  ASSUME NEW A \in SUBSET Fds, NEW x \in Fds
  PROVE  /\ Cardinality(A) \in Nat
         /\ x \in A => Less(Cardinality(A), 1) = Cardinality(A \ {x})
         /\ x \notin A => Cardinality(A) + 1 = Cardinality(A \cup {x})
  <1>1. IsFiniteSet(A)
    BY FdsFinite, FS_Subset
  <1>2. Cardinality(A) \in Nat
    BY <1>1, FS_CardinalityType
  <1>3. x \in A => Cardinality(A \ {x}) = Cardinality(A) - 1 /\ Cardinality(A) # 0
    BY <1>1, FS_RemoveElement, FS_EmptySet
  <1>4. x \notin A => Cardinality(A) + 1 = Cardinality(A \cup {x})
    BY <1>1, FS_AddElement
  <1> QED BY <1>2, <1>3, <1>4 DEF Less

\* The address of an open connection
LEMMA IpType ==
  ASSUME NEW f, NEW s, Good(s, f)
  PROVE  /\ \A p \in s.pending : p \in Fds /\ s.file[p] \in Conns /\ Ip[s.file[p]] \in Ips
         /\ \A t \in Clients(s) : Ip[s.clients[t].conn] \in Ips
  <1>1. s \in Servers /\ DescriptorsIn(s) /\ Ip \in [Conns -> Ips]
    BY ChannelsAssumption DEF Good
  <1>2. ASSUME NEW p \in s.pending PROVE p \in Fds /\ s.file[p] \in Conns
    BY <1>1 DEF Servers, DescriptorsIn
  <1>3. ASSUME NEW t \in Clients(s) PROVE s.clients[t].conn \in Conns
    BY <1>1, SessionType DEF Sessions
  <1> QED BY <1>1, <1>2, <1>3

\* What destroyClient does once the data channel is closed and nothing is queued
Removed(s, t) ==
  CloseFd([s EXCEPT !.clients[t] = NoSession,
                    !.active[Ip[s.clients[t].conn]] = Less(@, 1)], t)

\* A session that holds nothing any more is taken off all accounts.
LEMMA RemovedGood ==
  ASSUME NEW f, NEW s, Good(s, f), NEW t \in Clients(s),
         s.clients[t].data = 0, s.clients[t].queue = <<>>, s.clients[t].out = 0
  PROVE  /\ Good(Removed(s, t), f) /\ Clients(Removed(s, t)) = Clients(s) \ {t}
         /\ Removed(s, t).pending = s.pending
  <1> DEFINE u == Removed(s, t)
             a == Ip[s.clients[t].conn]
  <1>1. s \in Servers /\ t \in Fds /\ s.clients[t] \in Sessions /\ DescriptorsIn(s)
    BY SessionType DEF Good
  <1>2. a \in Ips
    BY IpType
  <1>3. Less(s.active[a], 1) \in Nat
    BY <1>1, <1>2 DEF Servers, Less
  <1>4. /\ u.file = [s.file EXCEPT ![t] = NoConn] /\ u.pending = s.pending
        /\ u.dataMap = s.dataMap /\ u.waiting = s.waiting
        /\ u.active = [s.active EXCEPT ![a] = Less(s.active[a], 1)]
        /\ u.closed = s.closed \cup {t} /\ u.global = s.global
        /\ u.clients = [s.clients EXCEPT ![t] = NoSession]
    BY <1>1, <1>2 DEF Removed, CloseFd, Servers
  <1>5. u \in Servers
    BY <1>1, <1>2, <1>3 DEF Removed, CloseFd, Servers
  <1> HIDE DEF u, a
  <1>6. /\ \A x \in Fds \ {t} : u.clients[x] = s.clients[x] /\ u.file[x] = s.file[x]
        /\ u.clients[t] = NoSession /\ u.file[t] = NoConn
    BY <1>1, <1>4 DEF Servers
  <1>7. Clients(u) = Clients(s) \ {t}
    BY <1>1, <1>6 DEF Clients
  <1>8. s.dataMap[t] = 0 /\ t \notin s.pending /\ s.pending \subseteq Fds
    BY <1>1 DEF DescriptorsIn, Servers
  <1>9. BudgetIn(u)
    <2>1. Held(s.clients[t]) = 0 /\ Held(NoSession) = 0
      BY <1>1, SessionType, EmptyQueue DEF Held
    <2>2. Load(u) = Load(s)
      BY <1>6, <2>1 DEF Load
    <2> QED BY <1>4, <2>2 DEF BudgetIn, Good
  <1>10. DescriptorsIn(u)
    <2>1. ASSUME NEW x \in Fds
          PROVE  u.file[x] # NoConn <=>
                   x \in u.pending \/ x \in Clients(u) \/ u.dataMap[x] # 0
      BY <1>1, <1>4, <1>6, <1>7, <1>8 DEF DescriptorsIn
    <2>2. ASSUME NEW x \in u.pending
          PROVE  x \notin Clients(u) /\ u.dataMap[x] = 0
      BY <1>1, <1>4, <1>7 DEF DescriptorsIn
    <2>3. ASSUME NEW x \in Clients(u) PROVE u.dataMap[x] = 0
      BY <1>1, <1>4, <1>7 DEF DescriptorsIn
    <2>4. ASSUME NEW x \in Fds, u.dataMap[x] # 0
          PROVE  u.dataMap[x] \in Clients(u) /\ u.clients[u.dataMap[x]].data = x
      <3>1. s.dataMap[x] \in Clients(s) /\ s.clients[s.dataMap[x]].data = x
        BY <1>1, <1>4, <2>4 DEF DescriptorsIn
      <3>2. s.dataMap[x] # t
        BY <3>1, FdsFinite
      <3> QED BY <1>4, <1>6, <1>7, <3>1, <3>2 DEF Clients
    <2>5. ASSUME NEW x \in Clients(u), u.clients[x].data # 0
          PROVE  u.dataMap[u.clients[x].data] = x
      <3>1. x \in Clients(s) /\ u.clients[x] = s.clients[x]
        BY <1>6, <1>7 DEF Clients
      <3> QED BY <1>1, <1>4, <2>5, <3>1 DEF DescriptorsIn
    <2> QED BY <2>1, <2>2, <2>3, <2>4, <2>5 DEF DescriptorsIn
  <1>11. AddressesIn(u)
    <2>1. \A i : Waiting(u, i) = Waiting(s, i)
      BY <1>4, <1>6, <1>8 DEF Waiting
    <2>2. \A x \in Clients(u) : u.clients[x].conn = s.clients[x].conn
      BY <1>6, <1>7 DEF Clients
    <2>3. \A i : Active(u, i) = Active(s, i) \ {t}
      BY <1>7, <2>2 DEF Active
    <2>4. \A i : Active(s, i) \subseteq Fds /\ (t \in Active(s, i) <=> i = a)
      BY DEF Active, Clients, a
    <2>5. ASSUME NEW i \in Ips PROVE u.active[i] = Cardinality(Active(u, i))
      <3>1. s.active[i] = Cardinality(Active(s, i))
        BY DEF Good, AddressesIn
      <3>2. CASE i = a
        <4>1. u.active[i] = Less(s.active[i], 1)
          BY <1>1, <1>2, <1>4, <3>2 DEF Servers
        <4> QED BY <1>1, <2>3, <2>4, <3>1, <3>2, <4>1, Counting
      <3>3. CASE i # a
        <4>1. u.active[i] = s.active[i]
          BY <1>1, <1>4, <3>3 DEF Servers
        <4>2. Active(s, i) \ {t} = Active(s, i)
          BY <2>4, <3>3
        <4> QED BY <2>3, <3>1, <4>1, <4>2
      <3> QED BY <3>2, <3>3
    <2> QED BY <1>4, <2>1, <2>5 DEF AddressesIn, Good
  <1>12. StaleIn(u, f)
    BY <1>4, <1>7, <1>8 DEF StaleIn, Good
  <1>13. ASSUME NEW x \in Clients(u) PROVE SessionOK(u.file, u.clients[x])
    <2>1. x \in Clients(s) /\ u.clients[x] = s.clients[x] /\ SessionOK(s.file, s.clients[x])
      BY <1>6, <1>7 DEF Clients, Good
    <2>2. s.clients[x].data # t /\ s.clients[x].data \in Fds \cup {0}
      <3>1. s.clients[x] \in Sessions /\ x \in Fds
        BY <1>1, <2>1, SessionType
      <3>2. s.clients[x].data \in Fds \cup {0}
        BY <3>1 DEF Sessions
      <3>3. x # 0
        BY <3>1, FdsFinite
      <3>4. s.clients[x].data # 0 => s.dataMap[s.clients[x].data] = x
        BY <1>1, <2>1 DEF DescriptorsIn
      <3> QED BY <1>1, <1>8, <3>2, <3>3, <3>4, FdsFinite
    <2>3. s.clients[x].data # 0 => u.file[s.clients[x].data] = s.file[s.clients[x].data]
      BY <1>6, <2>2
    <2> QED BY <2>1, <2>3 DEF SessionOK
  <1>14. Good(u, f)
    BY <1>5, <1>9, <1>10, <1>11, <1>12, <1>13 DEF Good
  <1> QED BY <1>4, <1>7, <1>14 DEF u

\* destroyClient: nothing of the session is left, and nothing is lost with it.
LEMMA DestroyGood ==
  ASSUME NEW f, NEW s, Good(s, f), NEW t \in Clients(s)
  PROVE  /\ Good(Destroy(s, t), f) /\ Clients(Destroy(s, t)) = Clients(s) \ {t}
         /\ Destroy(s, t).pending = s.pending
  <1> DEFINE v == CloseDataChannel(s, t)
             u == ClearSignal(v, t)
  <1>1. s \in Servers /\ t \in Fds /\ s.clients[t] \in Sessions
    BY SessionType DEF Good
  <1>2. /\ Good(v, f) /\ Clients(v) = Clients(s) /\ v.pending = s.pending
        /\ v.clients[t].data = 0 /\ v.clients[t].queue = <<>>
        /\ v.clients[t].conn = s.clients[t].conn
    BY CloseDataChannelGood
  <1> HIDE DEF v
  <1>3. /\ Good(u, f) /\ Clients(u) = Clients(v) /\ u.pending = v.pending
        /\ u.clients[t].out = 0 /\ u.clients[t].data = v.clients[t].data
        /\ u.clients[t].queue = v.clients[t].queue
        /\ u.clients[t].conn = v.clients[t].conn
    BY <1>2, ClearSignalGood
  <1> HIDE DEF u
  <1>4. /\ u.clients[t].data = 0 /\ u.clients[t].queue = <<>> /\ u.clients[t].out = 0
        /\ u.clients[t].conn = s.clients[t].conn
    BY <1>2, <1>3
  <1>5. Destroy(s, t) = Removed(u, t)
    BY <1>4 DEF Destroy, Removed, u, v
  <1> QED BY <1>2, <1>3, <1>4, <1>5, RemovedGood

\* removePending
LEMMA RemovePendingGood ==
  ASSUME NEW f, NEW s, Good(s, f), NEW p \in s.pending
  PROVE  /\ Good(RemovePending(s, p), f) /\ Clients(RemovePending(s, p)) = Clients(s)
         /\ RemovePending(s, p).pending = s.pending \ {p}
  <1> DEFINE u == RemovePending(s, p)
             a == Ip[s.file[p]]
  <1>1. s \in Servers /\ p \in Fds /\ DescriptorsIn(s) /\ s.pending \subseteq Fds
    BY DEF Good, Servers
  <1>2. a \in Ips /\ Less(s.waiting[a], 1) \in Nat
    BY <1>1, IpType DEF Less, Servers
  <1>3. /\ u.file = [s.file EXCEPT ![p] = NoConn] /\ u.pending = s.pending \ {p}
        /\ u.dataMap = s.dataMap /\ u.active = s.active
        /\ u.waiting = [s.waiting EXCEPT ![a] = Less(s.waiting[a], 1)]
        /\ u.closed = s.closed \cup {p} /\ u.global = s.global
        /\ u.clients = s.clients
    BY <1>1, <1>2 DEF RemovePending, CloseFd, Servers
  <1>4. u \in Servers
    BY <1>1, <1>2 DEF RemovePending, CloseFd, Servers
  <1> HIDE DEF u, a
  <1>5. /\ \A x \in Fds \ {p} : u.file[x] = s.file[x]
        /\ u.file[p] = NoConn
    BY <1>1, <1>3 DEF Servers
  <1>6. Clients(u) = Clients(s) /\ Clients(s) \subseteq Fds
    BY <1>3 DEF Clients
  <1>7. p \notin Clients(s) /\ s.dataMap[p] = 0
    BY <1>1 DEF DescriptorsIn
  <1>8. BudgetIn(u)
    <2>1. Load(u) = Load(s)
      BY <1>3 DEF Load
    <2> QED BY <1>3, <2>1 DEF BudgetIn, Good
  <1>9. DescriptorsIn(u)
    BY <1>1, <1>3, <1>5, <1>6, <1>7 DEF DescriptorsIn
  <1>10. AddressesIn(u)
    <2>1. \A i : Active(u, i) = Active(s, i)
      BY <1>3, <1>6 DEF Active
    <2>2. \A i : Waiting(u, i) = Waiting(s, i) \ {p}
      BY <1>1, <1>3, <1>5 DEF Waiting
    <2>3. \A i : Waiting(s, i) \subseteq Fds /\ (p \in Waiting(s, i) <=> i = a)
      BY <1>1 DEF Waiting, a
    <2>4. ASSUME NEW i \in Ips PROVE u.waiting[i] = Cardinality(Waiting(u, i))
      <3>1. s.waiting[i] = Cardinality(Waiting(s, i))
        BY DEF Good, AddressesIn
      <3>2. CASE i = a
        <4>1. u.waiting[i] = Less(s.waiting[i], 1)
          BY <1>1, <1>2, <1>3, <3>2 DEF Servers
        <4> QED BY <1>1, <2>2, <2>3, <3>1, <3>2, <4>1, Counting
      <3>3. CASE i # a
        <4>1. u.waiting[i] = s.waiting[i]
          BY <1>1, <1>3, <3>3 DEF Servers
        <4>2. Waiting(s, i) \ {p} = Waiting(s, i)
          BY <2>3, <3>3
        <4> QED BY <2>2, <3>1, <4>1, <4>2
      <3> QED BY <3>2, <3>3
    <2> QED BY <1>3, <2>1, <2>4 DEF AddressesIn, Good
  <1>11. StaleIn(u, f)
    BY <1>3, <1>6, <1>7 DEF StaleIn, Good
  <1>12. ASSUME NEW x \in Clients(u) PROVE SessionOK(u.file, u.clients[x])
    <2>1. x \in Clients(s) /\ u.clients[x] = s.clients[x] /\ SessionOK(s.file, s.clients[x])
      BY <1>3, <1>6 DEF Good
    <2>2. s.clients[x].data # p /\ s.clients[x].data \in Fds \cup {0}
      <3>1. s.clients[x] \in Sessions /\ x # 0
        BY <1>1, <2>1, SessionType, FdsFinite
      <3>2. s.clients[x].data \in Fds \cup {0}
        BY <3>1 DEF Sessions
      <3>3. s.clients[x].data # 0 => s.dataMap[s.clients[x].data] = x
        BY <1>1, <2>1 DEF DescriptorsIn
      <3> QED BY <1>1, <1>7, <3>1, <3>2, <3>3, FdsFinite
    <2>3. s.clients[x].data # 0 => u.file[s.clients[x].data] = s.file[s.clients[x].data]
      BY <1>5, <2>2
    <2> QED BY <2>1, <2>3 DEF SessionOK
  <1>13. Good(u, f)
    BY <1>4, <1>8, <1>9, <1>10, <1>11, <1>12 DEF Good
  <1> QED BY <1>3, <1>6, <1>13 DEF u

\* What handlePendingData does first with a connection that becomes a session
Promoted(s, f) ==
  [s EXCEPT !.pending = @ \ {f}, !.waiting[Ip[s.file[f]]] = Less(@, 1),
            !.active[Ip[s.file[f]]] = @ + 1, !.clients[f] = NewSession(s.file[f])]

\* A connection that becomes a session moves from one count of its address to
\* the other.
LEMMA PromotedGood ==
  ASSUME NEW f, NEW s, Good(s, f), f \in s.pending
  PROVE  /\ Good(Promoted(s, f), f) /\ Clients(Promoted(s, f)) = Clients(s) \cup {f}
         /\ Promoted(s, f).clients[f].state = "Hello"
  <1> DEFINE u == Promoted(s, f)
             x == s.file[f]
             a == Ip[x]
  <1>1. s \in Servers /\ f \in Fds /\ DescriptorsIn(s) /\ s.pending \subseteq Fds
    BY DEF Good, Servers
  <1>2. /\ x \in Conns /\ a \in Ips /\ Less(s.waiting[a], 1) \in Nat
        /\ s.active[a] + 1 \in Nat
    BY <1>1, IpType DEF Less, Servers
  <1>3. /\ NewSession(x) \in Sessions /\ NewSession(x) # NoSession
        /\ NewSession(x).conn = x /\ NewSession(x).data = 0 /\ NewSession(x).out = 0
        /\ NewSession(x).queue = <<>> /\ NewSession(x).fails = 0
        /\ NewSession(x).state = "Hello"
    <2>1. 0 \in 0 .. MaxBuf /\ 0 \in 0 .. MaxFailures
      BY Bounds
    <2>2. NewSession(x) \in Sessions
      BY <1>2, <2>1, EmptyQueue DEF NewSession, Sessions, States
    <2> QED BY <2>2, SessionReal DEF NewSession
  <1>4. /\ u.file = s.file /\ u.pending = s.pending \ {f}
        /\ u.dataMap = s.dataMap /\ u.global = s.global /\ u.closed = s.closed
        /\ u.waiting = [s.waiting EXCEPT ![a] = Less(s.waiting[a], 1)]
        /\ u.active = [s.active EXCEPT ![a] = s.active[a] + 1]
        /\ u.clients = [s.clients EXCEPT ![f] = NewSession(x)]
    BY <1>1, <1>2 DEF Promoted, Servers
  <1>5. u \in Servers
    <2> HIDE DEF x
    <2> QED BY <1>1, <1>2, <1>3 DEF Promoted, Servers, x
  <1> HIDE DEF u, a, x
  <1>6. /\ \A y \in Fds \ {f} : u.clients[y] = s.clients[y]
        /\ u.clients[f] = NewSession(x)
    BY <1>1, <1>4 DEF Servers
  <1>7. Clients(u) = Clients(s) \cup {f} /\ Clients(s) \subseteq Fds
    BY <1>1, <1>3, <1>6 DEF Clients
  <1>8. f \notin Clients(s) /\ s.dataMap[f] = 0 /\ s.clients[f] = NoSession
    BY <1>1 DEF DescriptorsIn, Clients
  <1>9. BudgetIn(u)
    <2>1. Held(NewSession(x)) = 0 /\ Held(NoSession) = 0
      BY <1>3, EmptyQueue DEF Held
    <2>2. Load(u) = Load(s)
      BY <1>6, <1>8, <2>1 DEF Load
    <2> QED BY <1>4, <2>2 DEF BudgetIn, Good
  <1>10. DescriptorsIn(u)
    <2>1. ASSUME NEW y \in Fds
          PROVE  u.file[y] # NoConn <=>
                   y \in u.pending \/ y \in Clients(u) \/ u.dataMap[y] # 0
      BY <1>1, <1>4, <1>7 DEF DescriptorsIn
    <2>2. ASSUME NEW y \in u.pending
          PROVE  y \notin Clients(u) /\ u.dataMap[y] = 0
      BY <1>1, <1>4, <1>7 DEF DescriptorsIn
    <2>3. ASSUME NEW y \in Clients(u) PROVE u.dataMap[y] = 0
      BY <1>1, <1>4, <1>7, <1>8 DEF DescriptorsIn
    <2>4. ASSUME NEW y \in Fds, u.dataMap[y] # 0
          PROVE  u.dataMap[y] \in Clients(u) /\ u.clients[u.dataMap[y]].data = y
      <3>1. s.dataMap[y] \in Clients(s) /\ s.clients[s.dataMap[y]].data = y
        BY <1>1, <1>4, <2>4 DEF DescriptorsIn
      <3> QED BY <1>4, <1>6, <1>7, <1>8, <3>1
    <2>5. ASSUME NEW y \in Clients(u), u.clients[y].data # 0
          PROVE  u.dataMap[u.clients[y].data] = y
      <3>1. y # f
        BY <1>3, <1>6, <2>5
      <3>2. y \in Clients(s) /\ u.clients[y] = s.clients[y]
        BY <1>6, <1>7, <3>1
      <3> QED BY <1>1, <1>4, <2>5, <3>2 DEF DescriptorsIn
    <2> QED BY <2>1, <2>2, <2>3, <2>4, <2>5 DEF DescriptorsIn
  <1>11. AddressesIn(u)
    <2>1. \A i : Waiting(u, i) = Waiting(s, i) \ {f}
      BY <1>4 DEF Waiting
    <2>2. \A i : Waiting(s, i) \subseteq Fds /\ (f \in Waiting(s, i) <=> i = a)
      BY <1>1 DEF Waiting, a, x
    <2>3. \A i : Active(s, i) \subseteq Fds /\ f \notin Active(s, i)
      BY <1>7, <1>8 DEF Active
    <2>4. \A y \in Clients(s) : u.clients[y].conn = s.clients[y].conn
      BY <1>6, <1>7, <1>8
    <2>5. ASSUME NEW i
          PROVE  /\ i = a => Active(u, i) = Active(s, i) \cup {f}
                 /\ i # a => Active(u, i) = Active(s, i)
      <3>1. u.clients[f].conn = x
        BY <1>3, <1>6
      <3>2. \A y : y \in Active(u, i) <=>
              (y \in Clients(s) /\ Ip[u.clients[y].conn] = i) \/ (y = f /\ i = a)
        BY <1>7, <3>1 DEF Active, a
      <3>3. \A y : y \in Active(s, i) <=> y \in Clients(s) /\ Ip[u.clients[y].conn] = i
        BY <2>4 DEF Active
      <3>4. i = a => Active(u, i) = Active(s, i) \cup {f}
        BY <3>2, <3>3
      <3>5. i # a => Active(u, i) = Active(s, i)
        BY <3>2, <3>3
      <3> QED BY <3>4, <3>5
    <2>6. ASSUME NEW i \in Ips PROVE u.waiting[i] = Cardinality(Waiting(u, i))
      <3>1. s.waiting[i] = Cardinality(Waiting(s, i))
        BY DEF Good, AddressesIn
      <3>2. CASE i = a
        <4>1. u.waiting[i] = Less(s.waiting[i], 1)
          BY <1>1, <1>2, <1>4, <3>2 DEF Servers
        <4> QED BY <1>1, <2>1, <2>2, <3>1, <3>2, <4>1, Counting
      <3>3. CASE i # a
        <4>1. u.waiting[i] = s.waiting[i]
          BY <1>1, <1>4, <3>3 DEF Servers
        <4>2. Waiting(s, i) \ {f} = Waiting(s, i)
          BY <2>2, <3>3
        <4> QED BY <2>1, <3>1, <4>1, <4>2
      <3> QED BY <3>2, <3>3
    <2>7. ASSUME NEW i \in Ips PROVE u.active[i] = Cardinality(Active(u, i))
      <3>1. s.active[i] = Cardinality(Active(s, i))
        BY DEF Good, AddressesIn
      <3>2. CASE i = a
        <4>1. u.active[i] = s.active[i] + 1
          BY <1>1, <1>2, <1>4, <3>2 DEF Servers
        <4> QED BY <1>1, <2>3, <2>5, <3>1, <3>2, <4>1, Counting
      <3>3. CASE i # a
        <4>1. u.active[i] = s.active[i]
          BY <1>1, <1>4, <3>3 DEF Servers
        <4> QED BY <2>5, <3>1, <3>3, <4>1
      <3> QED BY <3>2, <3>3
    <2> QED BY <2>6, <2>7 DEF AddressesIn
  <1>12. StaleIn(u, f)
    BY <1>4, <1>7 DEF StaleIn, Good
  <1>13. ASSUME NEW y \in Clients(u) PROVE SessionOK(u.file, u.clients[y])
    <2>1. CASE y = f
      <3>1. DOMAIN NewSession(x).queue = {}
        BY <1>3
      <3> QED BY <1>3, <1>6, <2>1, <3>1, Bounds DEF SessionOK
    <2>2. CASE y # f
      BY <1>4, <1>6, <1>7, <2>2 DEF Good
    <2> QED BY <2>1, <2>2
  <1>14. Good(u, f)
    BY <1>5, <1>9, <1>10, <1>11, <1>12, <1>13 DEF Good
  <1> QED BY <1>3, <1>6, <1>7, <1>14 DEF u

\* What onSecureDataChannelInit does once the old channel of the session is closed
Bound(s, f, t) ==
  [s EXCEPT !.pending = @ \ {f}, !.waiting[Ip[s.file[f]]] = Less(@, 1),
            !.clients[t].data = f, !.dataMap[f] = t]

\* A connection that becomes a data channel is no longer waiting.
LEMMA BoundGood ==
  ASSUME NEW f, NEW s, Good(s, f), f \in s.pending, NEW t \in Clients(s),
         s.clients[t].data = 0
  PROVE  Good(Bound(s, f, t), f) /\ Clients(Bound(s, f, t)) = Clients(s)
  <1> DEFINE u == Bound(s, f, t)
             a == Ip[s.file[f]]
             c == [s.clients[t] EXCEPT !.data = f]
  <1>1. s \in Servers /\ f \in Fds /\ DescriptorsIn(s) /\ s.pending \subseteq Fds
        /\ t \in Fds /\ s.clients[t] \in Sessions
    BY SessionType DEF Good, Servers
  <1>2. a \in Ips /\ Less(s.waiting[a], 1) \in Nat
    BY <1>1, IpType DEF Less, Servers
  <1>3. /\ c \in Sessions /\ c # NoSession /\ c.conn = s.clients[t].conn /\ c.data = f
        /\ c.out = s.clients[t].out /\ c.queue = s.clients[t].queue
        /\ c.alive = s.clients[t].alive /\ c.fails = s.clients[t].fails
    <2>1. c \in Sessions
      BY <1>1 DEF Sessions
    <2> QED BY <1>1, <2>1, SessionReal DEF Sessions
  <1>4. /\ u.file = s.file /\ u.pending = s.pending \ {f}
        /\ u.dataMap = [s.dataMap EXCEPT ![f] = t] /\ u.global = s.global
        /\ u.closed = s.closed /\ u.active = s.active
        /\ u.waiting = [s.waiting EXCEPT ![a] = Less(s.waiting[a], 1)]
        /\ u.clients = [s.clients EXCEPT ![t] = c]
    BY <1>1, <1>2 DEF Bound, Servers
  <1>5. u \in Servers
    BY <1>1, <1>2, <1>3 DEF Bound, Servers
  <1> HIDE DEF u, a, c
  <1>6. /\ \A y \in Fds \ {t} : u.clients[y] = s.clients[y]
        /\ u.clients[t] = c
        /\ \A y \in Fds \ {f} : u.dataMap[y] = s.dataMap[y]
        /\ u.dataMap[f] = t
    BY <1>1, <1>4 DEF Servers
  <1>7. Clients(u) = Clients(s) /\ Clients(s) \subseteq Fds
    BY <1>1, <1>3, <1>6 DEF Clients
  <1>8. f \notin Clients(s) /\ s.dataMap[f] = 0 /\ f # t /\ t # 0 /\ f # 0
    BY <1>1, FdsFinite DEF DescriptorsIn
  <1>9. BudgetIn(u)
    <2>1. Held(c) = Held(s.clients[t])
      BY <1>1, <1>3, SessionReal
    <2>2. Load(u) = Load(s)
      BY <1>6, <2>1 DEF Load
    <2> QED BY <1>4, <2>2 DEF BudgetIn, Good
  <1>10. DescriptorsIn(u)
    <2>1. ASSUME NEW y \in Fds
          PROVE  u.file[y] # NoConn <=>
                   y \in u.pending \/ y \in Clients(u) \/ u.dataMap[y] # 0
      BY <1>1, <1>4, <1>6, <1>7, <1>8 DEF DescriptorsIn
    <2>2. ASSUME NEW y \in u.pending
          PROVE  y \notin Clients(u) /\ u.dataMap[y] = 0
      BY <1>1, <1>4, <1>6, <1>7 DEF DescriptorsIn
    <2>3. ASSUME NEW y \in Clients(u) PROVE u.dataMap[y] = 0
      BY <1>1, <1>6, <1>7, <1>8 DEF DescriptorsIn
    <2>4. ASSUME NEW y \in Fds, u.dataMap[y] # 0
          PROVE  u.dataMap[y] \in Clients(u) /\ u.clients[u.dataMap[y]].data = y
      <3>1. CASE y = f
        BY <1>3, <1>6, <1>7, <3>1
      <3>2. CASE y # f
        <4>1. u.dataMap[y] = s.dataMap[y]
          BY <1>6, <3>2
        <4>2. s.dataMap[y] \in Clients(s) /\ s.clients[s.dataMap[y]].data = y
          BY <1>1, <2>4, <4>1 DEF DescriptorsIn
        <4>3. s.dataMap[y] # t
          BY <4>2, FdsFinite
        <4> QED BY <1>6, <1>7, <4>1, <4>2, <4>3
      <3> QED BY <3>1, <3>2
    <2>5. ASSUME NEW y \in Clients(u), u.clients[y].data # 0
          PROVE  u.dataMap[u.clients[y].data] = y
      <3>1. CASE y = t
        BY <1>3, <1>6, <3>1
      <3>2. CASE y # t
        <4>1. y \in Clients(s) /\ u.clients[y] = s.clients[y] /\ y # 0
          BY <1>6, <1>7, <3>2, FdsFinite
        <4>2. s.dataMap[s.clients[y].data] = y /\ s.clients[y].data \in Fds
          BY <1>1, <2>5, <4>1, SessionType DEF DescriptorsIn, Sessions
        <4>3. s.clients[y].data # f
          BY <1>8, <4>1, <4>2
        <4> QED BY <1>6, <4>1, <4>2, <4>3
      <3> QED BY <3>1, <3>2
    <2> QED BY <2>1, <2>2, <2>3, <2>4, <2>5 DEF DescriptorsIn
  <1>11. AddressesIn(u)
    <2>1. \A i : Waiting(u, i) = Waiting(s, i) \ {f}
      BY <1>4 DEF Waiting
    <2>2. \A i : Waiting(s, i) \subseteq Fds /\ (f \in Waiting(s, i) <=> i = a)
      BY <1>1 DEF Waiting, a
    <2>3. \A y \in Clients(s) : u.clients[y].conn = s.clients[y].conn
      BY <1>3, <1>6, <1>7
    <2>4. \A i : Active(u, i) = Active(s, i)
      BY <1>7, <2>3 DEF Active
    <2>5. ASSUME NEW i \in Ips PROVE u.waiting[i] = Cardinality(Waiting(u, i))
      <3>1. s.waiting[i] = Cardinality(Waiting(s, i))
        BY DEF Good, AddressesIn
      <3>2. CASE i = a
        <4>1. u.waiting[i] = Less(s.waiting[i], 1)
          BY <1>1, <1>2, <1>4, <3>2 DEF Servers
        <4> QED BY <1>1, <2>1, <2>2, <3>1, <3>2, <4>1, Counting
      <3>3. CASE i # a
        <4>1. u.waiting[i] = s.waiting[i]
          BY <1>1, <1>4, <3>3 DEF Servers
        <4>2. Waiting(s, i) \ {f} = Waiting(s, i)
          BY <2>2, <3>3
        <4> QED BY <2>1, <3>1, <4>1, <4>2
      <3> QED BY <3>2, <3>3
    <2> QED BY <1>4, <2>4, <2>5 DEF AddressesIn, Good
  <1>12. StaleIn(u, f)
    <2>1. s.closed \subseteq Fds
      BY <1>1 DEF Servers
    <2> QED BY <1>4, <1>6, <1>7, <2>1 DEF StaleIn, Good
  <1>13. ASSUME NEW y \in Clients(u) PROVE SessionOK(u.file, u.clients[y])
    <2>1. y \in Clients(s) /\ SessionOK(s.file, s.clients[y])
      BY <1>7 DEF Good
    <2>2. CASE y = t
      <3>1. DOMAIN s.clients[t].queue = {}
        BY <2>1, <2>2 DEF SessionOK
      <3> QED BY <1>3, <1>6, <2>1, <2>2, <3>1 DEF SessionOK
    <2>3. CASE y # t
      BY <1>4, <1>6, <1>7, <2>1, <2>3
    <2> QED BY <2>2, <2>3
  <1>14. Good(u, f)
    BY <1>5, <1>9, <1>10, <1>11, <1>12, <1>13 DEF Good
  <1> QED BY <1>7, <1>14 DEF u

\* s with other connections to be classified
Classify(s, pending, waiting) == [s EXCEPT !.pending = pending, !.waiting = waiting]

\* closeDataChannel does not look at them.
LEMMA CloseClassified ==
  ASSUME NEW s \in Servers, NEW t \in Clients(s), NEW A, NEW B
  PROVE  CloseDataChannel(Classify(s, A, B), t) = Classify(CloseDataChannel(s, t), A, B)
  <1> DEFINE d == s.clients[t].data
             W == [s EXCEPT !.dataMap[d] = 0, !.clients[t].data = 0]
             V == [Classify(s, A, B) EXCEPT !.dataMap[d] = 0, !.clients[t].data = 0]
  <1>1. t \in Fds /\ s.clients[t] \in Sessions
    BY SessionType
  <1>2. /\ Classify(s, A, B).clients = s.clients /\ Classify(s, A, B).global = s.global
        /\ Classify(s, A, B).dataMap = s.dataMap
    BY DEF Classify, Servers
  <1>3. ClearData(Classify(s, A, B), t) = Classify(ClearData(s, t), A, B)
    BY DEF Classify, Servers, ClearData
  <1>4. CASE d = 0
    BY <1>2, <1>3, <1>4 DEF CloseDataChannel
  <1>5. CASE d # 0
    <2>1. d \in Fds
      BY <1>1, <1>5 DEF Sessions
    <2>2. V = Classify(W, A, B) /\ W \in Servers
      <3>1. [s.clients[t] EXCEPT !.data = 0] \in Sessions
        BY <1>1 DEF Sessions
      <3>2. W \in Servers
        BY <1>1, <2>1, <3>1 DEF Servers
      <3> QED BY <3>2 DEF Classify, Servers
    <2> HIDE DEF V, W
    <2>3. CloseFd(Classify(W, A, B), d) = Classify(CloseFd(W, d), A, B)
          /\ CloseFd(W, d) \in Servers
      BY <2>1, <2>2 DEF Classify, Servers, CloseFd
    <2> DEFINE X == CloseFd(W, d)
    <2> HIDE DEF X
    <2>4. ClearData(Classify(X, A, B), t) = Classify(ClearData(X, t), A, B)
      BY <2>3 DEF Classify, Servers, ClearData, X
    <2>5. CloseDataChannel(s, t) = ClearData(X, t)
      BY <1>5 DEF CloseDataChannel, X, W
    <2>6. CloseDataChannel(Classify(s, A, B), t) = ClearData(CloseFd(V, d), t)
      BY <1>2, <1>5 DEF CloseDataChannel, V
    <2> QED BY <2>2, <2>3, <2>4, <2>5, <2>6 DEF X
  <1> QED BY <1>4, <1>5

\* The session with its new data channel, as onSecureDataChannelInit leaves it
BoundAnew(s, f, t) ==
  [CloseDataChannel([s EXCEPT !.pending = @ \ {f},
                              !.waiting[Ip[s.file[f]]] = Less(@, 1)], t)
     EXCEPT !.clients[t].data = f, !.dataMap[f] = t]

\* The old channel of the session is closed first, with its buffer.
LEMMA BindGood ==
  ASSUME NEW f, NEW s, Good(s, f), f \in s.pending, NEW t \in Clients(s)
  PROVE  Good(BoundAnew(s, f, t), f) /\ Clients(BoundAnew(s, f, t)) = Clients(s)
  <1> DEFINE bound == BoundAnew(s, f, t)
             v == CloseDataChannel(s, t)
             A == s.pending \ {f}
             a == Ip[s.file[f]]
             B == [s.waiting EXCEPT ![a] = Less(s.waiting[a], 1)]
  <1>1. s \in Servers /\ f \in Fds
    BY DEF Good, Servers
  <1>2. /\ Good(v, f) /\ Clients(v) = Clients(s) /\ v.pending = s.pending
        /\ v.file[f] = s.file[f] /\ v.clients[t].data = 0
    BY CloseDataChannelGood
  <1>3. v.waiting = s.waiting
    <2>1. CASE s.clients[t].data = 0
      BY <1>1, <2>1 DEF CloseDataChannel, ClearData, Servers
    <2>2. CASE s.clients[t].data # 0
      <3> DEFINE W == [s EXCEPT !.dataMap[s.clients[t].data] = 0, !.clients[t].data = 0]
                 X == CloseFd(W, s.clients[t].data)
      <3>1. W.waiting = s.waiting
        BY <1>1 DEF Servers
      <3>2. X.waiting = W.waiting
        BY <1>1 DEF CloseFd, Servers
      <3>3. ClearData(X, t).waiting = X.waiting
        BY <1>1 DEF ClearData, CloseFd, Servers
      <3>4. v = ClearData(X, t)
        BY <2>2 DEF CloseDataChannel
      <3> QED BY <3>1, <3>2, <3>3, <3>4
    <2> QED BY <2>1, <2>2
  <1>4. [s EXCEPT !.pending = @ \ {f}, !.waiting[a] = Less(@, 1)] = Classify(s, A, B)
    BY <1>1 DEF Classify, Servers
  <1> DEFINE z == [s EXCEPT !.pending = @ \ {f}, !.waiting[a] = Less(@, 1)]
             y == CloseDataChannel(z, t)
  <1>5. bound = [Classify(v, A, B) EXCEPT !.clients[t].data = f, !.dataMap[f] = t]
    <2>1. bound = [y EXCEPT !.clients[t].data = f, !.dataMap[f] = t]
      BY DEF BoundAnew
    <2>2. z = Classify(s, A, B)
      BY <1>4
    <2> HIDE DEF z, A, B
    <2>3. y = Classify(v, A, B)
      BY <1>1, <2>2, CloseClassified
    <2> HIDE DEF y, v
    <2> QED BY ONLY <2>1, <2>3
  <1> HIDE DEF v
  <1>6. v \in Servers
    BY <1>2 DEF Good
  <1>7. bound = Bound(v, f, t)
    BY <1>2, <1>3, <1>5, <1>6 DEF Bound, Classify, Servers
  <1>8. Good(v, f) /\ f \in v.pending /\ t \in Clients(v) /\ v.clients[t].data = 0
    BY <1>2
  <1>9. Good(Bound(v, f, t), f) /\ Clients(Bound(v, f, t)) = Clients(v)
    BY ONLY <1>8, BoundGood
  <1> QED BY ONLY <1>2, <1>7, <1>9

-----------------------------------------------------------------------------
(* Loops over sessions *)

\* What a loop preserves: the sessions, and what is true of them
Kept(u, s, f) == Good(u, f) /\ Clients(u) = Clients(s)

\* A frame to one session, after others
LEMMA SendKept ==
  ASSUME NEW f, NEW s, NEW v, Kept(v, s, f), NEW t \in Clients(v),
         NEW u \in SendMsg(v, t, FALSE) \cup SendMsg(v, t, TRUE)
  PROVE  Kept(u, s, f)
  <1>1. PICK r \in BOOLEAN : u \in SendMsg(v, t, r)
    OBVIOUS
  <1>2. Good(v, f) /\ Clients(v) = Clients(s)
    BY DEF Kept
  <1>3. Good(u, f) /\ Clients(u) = Clients(v)
    BY <1>1, <1>2, SendMsgGood
  <1> QED BY <1>2, <1>3 DEF Kept

\* g is the recursion of Announced on the sets in D: all outcomes of one frame to
\* each session of a set.
IsCast(g, s, D) ==
  g = [T \in D |-> IF T = {} THEN {s}
                   ELSE UNION {SendMsg(v, Pick(T), FALSE) : v \in g[T \ {Pick(T)}]}]

\* The recursion has a solution on the subsets of a finite set.
LEMMA CastExists ==
  ASSUME NEW s, NEW S, IsFiniteSet(S)
  PROVE  \E g : IsCast(g, s, SUBSET S)
  <1> DEFINE Size(n) == {T \in SUBSET S : Cardinality(T) < n}
             N == {n \in Nat : ~\E g : IsCast(g, s, Size(n))}
  <1>1. N = {}
    <2> SUFFICES ASSUME N # {} PROVE FALSE
      OBVIOUS
    <2>1. PICK n \in N : \A m \in N : n <= m
      <3> HIDE DEF N
      <3>1. N \subseteq Nat
        BY DEF N
      <3> QED BY <3>1, LeastNumber
    <2>2. n # 0
      <3>1. Size(0) = {}
        BY FS_Subset, FS_CardinalityType
      <3>2. IsCast([T \in {} |-> {s}], s, Size(0))
        <4> HIDE DEF Size
        <4> QED BY <3>1 DEF IsCast
      <3> QED BY <2>1, <3>2
    <2>3. n \in Nat /\ n - 1 \in Nat /\ ~(n <= n - 1)
      BY <2>1, <2>2
    <2>4. PICK g : IsCast(g, s, Size(n - 1))
      BY <2>3, <2>1
    <2> DEFINE h == [T \in Size(n) |->
                       IF T = {} THEN {s}
                       ELSE UNION {SendMsg(v, Pick(T), FALSE) : v \in g[T \ {Pick(T)}]}]
    <2>5. ASSUME NEW T \in Size(n), T # {}
          PROVE  g[T \ {Pick(T)}] = h[T \ {Pick(T)}]
      <3>1. Pick(T) \in T
        BY <2>5 DEF Pick
      <3>2. IsFiniteSet(T) /\ Cardinality(T) \in Nat
        BY FS_Subset, FS_CardinalityType
      <3>3. Cardinality(T \ {Pick(T)}) = Cardinality(T) - 1
        BY <3>1, <3>2, FS_RemoveElement
      <3>4. T \ {Pick(T)} \in Size(n - 1) /\ T \ {Pick(T)} \in Size(n)
        BY <2>3, <3>2, <3>3
      <3> HIDE DEF Size
      <3> QED BY <3>4, <2>4 DEF IsCast
    <2>6. IsCast(h, s, Size(n))
      <3> HIDE DEF Size
      <3> QED BY <2>5 DEF IsCast
    <2> QED BY <2>1, <2>6
  <1>2. Cardinality(S) + 1 \in Nat
    BY FS_CardinalityType
  <1>3. Size(Cardinality(S) + 1) = SUBSET S
    BY FS_Subset, FS_CardinalityType
  <1>4. \E g : IsCast(g, s, Size(Cardinality(S) + 1))
    BY <1>1, <1>2
  <1> QED BY <1>3, <1>4

\* broadcastToRoom and broadcastRoomListPush, whatever comes of each frame
LEMMA AnnouncedGood ==
  ASSUME NEW f, NEW s, Good(s, f), NEW t, NEW u \in Announced(s, t)
  PROVE  Kept(u, s, f)
  <1> DEFINE S == {x \in Clients(s) \ {t} : s.clients[x].state \in {"Lobby", "Room"}}
  <1>1. IsFiniteSet(S)
    <2>1. S \subseteq Fds
      BY DEF Clients
    <2> QED BY <2>1, FdsFinite, FS_Subset
  <1>2. S \subseteq Clients(s)
    OBVIOUS
  <1>3. PICK g : IsCast(g, s, SUBSET S)
    <2> HIDE DEF S
    <2> QED BY <1>1, CastExists
  <1>4. Announced(s, t) = (CHOOSE h : IsCast(h, s, SUBSET S))[S]
    BY Zenon DEF Announced, FoldSet, MapThenFoldSet, IsCast, Pick
  <1> DEFINE h == CHOOSE h : IsCast(h, s, SUBSET S)
             G == {T \in SUBSET S : \A v \in h[T] : Kept(v, s, f)}
  <1> HIDE DEF S
  <1>5. IsCast(h, s, SUBSET S)
    BY <1>3
  <1> HIDE DEF h
  <1>6. {} \in G
    BY <1>5 DEF IsCast, Kept
  <1>7. ASSUME NEW T \in SUBSET S, T # {}, \A x \in T : T \ {x} \in G
        PROVE  T \in G
    <2>1. Pick(T) \in T
      BY <1>7 DEF Pick
    <2>2. h[T] = UNION {SendMsg(v, Pick(T), FALSE) : v \in h[T \ {Pick(T)}]}
      BY <1>5, <1>7 DEF IsCast
    <2>3. ASSUME NEW v \in h[T \ {Pick(T)}], NEW w \in SendMsg(v, Pick(T), FALSE)
          PROVE  Kept(w, s, f)
      <3>1. Kept(v, s, f)
        BY <1>7, <2>1
      <3>2. Pick(T) \in Clients(v)
        BY <1>2, <2>1, <3>1 DEF Kept
      <3> QED BY <3>1, <3>2, SendKept
    <2> QED BY <2>2, <2>3
  <1>8. S \in G
    <2> HIDE DEF G
    <2> QED BY <1>1, <1>6, <1>7, SubsetInduction
  <1> QED BY <1>4, <1>8 DEF h

\* g is the first recursion of Scan on the sets in D: sessions destroyed in turn.
IsDestroyed(g, s, D) ==
  g = [T \in D |-> IF T = {} THEN s ELSE Destroy(g[T \ {Pick(T)}], Pick(T))]

\* The recursion has a solution on the subsets of a finite set.
LEMMA DestroyedExists ==
  ASSUME NEW s, NEW S, IsFiniteSet(S)
  PROVE  \E g : IsDestroyed(g, s, SUBSET S)
  <1> DEFINE Size(n) == {T \in SUBSET S : Cardinality(T) < n}
             N == {n \in Nat : ~\E g : IsDestroyed(g, s, Size(n))}
  <1>1. N = {}
    <2> SUFFICES ASSUME N # {} PROVE FALSE
      OBVIOUS
    <2>1. PICK n \in N : \A m \in N : n <= m
      <3> HIDE DEF N
      <3>1. N \subseteq Nat
        BY DEF N
      <3> QED BY <3>1, LeastNumber
    <2>2. n # 0
      <3>1. Size(0) = {}
        BY FS_Subset, FS_CardinalityType
      <3>2. IsDestroyed([T \in {} |-> s], s, Size(0))
        <4> HIDE DEF Size
        <4> QED BY <3>1 DEF IsDestroyed
      <3> QED BY <2>1, <3>2
    <2>3. n \in Nat /\ n - 1 \in Nat /\ ~(n <= n - 1)
      BY <2>1, <2>2
    <2>4. PICK g : IsDestroyed(g, s, Size(n - 1))
      BY <2>3, <2>1
    <2> DEFINE h == [T \in Size(n) |->
                       IF T = {} THEN s ELSE Destroy(g[T \ {Pick(T)}], Pick(T))]
    <2>5. ASSUME NEW T \in Size(n), T # {}
          PROVE  g[T \ {Pick(T)}] = h[T \ {Pick(T)}]
      <3>1. Pick(T) \in T
        BY <2>5 DEF Pick
      <3>2. IsFiniteSet(T) /\ Cardinality(T) \in Nat
        BY FS_Subset, FS_CardinalityType
      <3>3. Cardinality(T \ {Pick(T)}) = Cardinality(T) - 1
        BY <3>1, <3>2, FS_RemoveElement
      <3>4. T \ {Pick(T)} \in Size(n - 1) /\ T \ {Pick(T)} \in Size(n)
        BY <2>3, <3>2, <3>3
      <3> HIDE DEF Size
      <3> QED BY <3>4, <2>4 DEF IsDestroyed
    <2>6. IsDestroyed(h, s, Size(n))
      <3> HIDE DEF Size
      <3> QED BY <2>5 DEF IsDestroyed
    <2> QED BY <2>1, <2>6
  <1>2. Cardinality(S) + 1 \in Nat
    BY FS_CardinalityType
  <1>3. Size(Cardinality(S) + 1) = SUBSET S
    BY FS_Subset, FS_CardinalityType
  <1>4. \E g : IsDestroyed(g, s, Size(Cardinality(S) + 1))
    BY <1>1, <1>2
  <1> QED BY <1>3, <1>4

\* The second recursion of Scan: connections that were never classified
IsPurged(g, s, D) ==
  g = [T \in D |-> IF T = {} THEN s ELSE RemovePending(g[T \ {Pick(T)}], Pick(T))]

\* The recursion has a solution on the subsets of a finite set.
LEMMA PurgedExists ==
  ASSUME NEW s, NEW S, IsFiniteSet(S)
  PROVE  \E g : IsPurged(g, s, SUBSET S)
  <1> DEFINE Size(n) == {T \in SUBSET S : Cardinality(T) < n}
             N == {n \in Nat : ~\E g : IsPurged(g, s, Size(n))}
  <1>1. N = {}
    <2> SUFFICES ASSUME N # {} PROVE FALSE
      OBVIOUS
    <2>1. PICK n \in N : \A m \in N : n <= m
      <3> HIDE DEF N
      <3>1. N \subseteq Nat
        BY DEF N
      <3> QED BY <3>1, LeastNumber
    <2>2. n # 0
      <3>1. Size(0) = {}
        BY FS_Subset, FS_CardinalityType
      <3>2. IsPurged([T \in {} |-> s], s, Size(0))
        <4> HIDE DEF Size
        <4> QED BY <3>1 DEF IsPurged
      <3> QED BY <2>1, <3>2
    <2>3. n \in Nat /\ n - 1 \in Nat /\ ~(n <= n - 1)
      BY <2>1, <2>2
    <2>4. PICK g : IsPurged(g, s, Size(n - 1))
      BY <2>3, <2>1
    <2> DEFINE h == [T \in Size(n) |->
                       IF T = {} THEN s ELSE RemovePending(g[T \ {Pick(T)}], Pick(T))]
    <2>5. ASSUME NEW T \in Size(n), T # {}
          PROVE  g[T \ {Pick(T)}] = h[T \ {Pick(T)}]
      <3>1. Pick(T) \in T
        BY <2>5 DEF Pick
      <3>2. IsFiniteSet(T) /\ Cardinality(T) \in Nat
        BY FS_Subset, FS_CardinalityType
      <3>3. Cardinality(T \ {Pick(T)}) = Cardinality(T) - 1
        BY <3>1, <3>2, FS_RemoveElement
      <3>4. T \ {Pick(T)} \in Size(n - 1) /\ T \ {Pick(T)} \in Size(n)
        BY <2>3, <3>2, <3>3
      <3> HIDE DEF Size
      <3> QED BY <3>4, <2>4 DEF IsPurged
    <2>6. IsPurged(h, s, Size(n))
      <3> HIDE DEF Size
      <3> QED BY <2>5 DEF IsPurged
    <2> QED BY <2>1, <2>6
  <1>2. Cardinality(S) + 1 \in Nat
    BY FS_CardinalityType
  <1>3. Size(Cardinality(S) + 1) = SUBSET S
    BY FS_Subset, FS_CardinalityType
  <1>4. \E g : IsPurged(g, s, Size(Cardinality(S) + 1))
    BY <1>1, <1>2
  <1> QED BY <1>3, <1>4

\* The first loop of checkTimeouts: sessions that are dead or silent
LEMMA DestroyedGood ==
  ASSUME NEW f, NEW s, Good(s, f), NEW S \in SUBSET Clients(s), NEW u,
         u = FoldSet(LAMBDA t, v : Destroy(v, t), s, S)
  PROVE  Good(u, f) /\ u.pending = s.pending
  <1>1. IsFiniteSet(S)
    <2>1. S \subseteq Fds
      BY DEF Clients
    <2> QED BY <2>1, FdsFinite, FS_Subset
  <1>2. PICK g : IsDestroyed(g, s, SUBSET S)
    BY <1>1, DestroyedExists
  <1> DEFINE h == CHOOSE h : IsDestroyed(h, s, SUBSET S)
             G == {T \in SUBSET S : /\ Good(h[T], f) /\ Clients(h[T]) = Clients(s) \ T
                                    /\ h[T].pending = s.pending}
  <1>3. u = h[S]
    BY Zenon DEF FoldSet, MapThenFoldSet, IsDestroyed, Pick
  <1>4. IsDestroyed(h, s, SUBSET S)
    BY <1>2
  <1> HIDE DEF h
  <1>5. {} \in G
    <2>1. h[{}] = s
      BY <1>4 DEF IsDestroyed
    <2> QED BY <2>1
  <1>6. ASSUME NEW T \in SUBSET S, T # {}, \A x \in T : T \ {x} \in G
        PROVE  T \in G
    <2> DEFINE p == Pick(T)
               v == h[T \ {p}]
    <2>1. p \in T
      BY <1>6 DEF Pick
    <2>2. h[T] = Destroy(v, p)
      BY <1>4, <1>6 DEF IsDestroyed
    <2>3. Good(v, f) /\ Clients(v) = Clients(s) \ (T \ {p}) /\ v.pending = s.pending
      BY <1>6, <2>1
    <2> HIDE DEF p, v
    <2>4. p \in Clients(v)
      BY <2>1, <2>3
    <2>5. /\ Good(Destroy(v, p), f) /\ Clients(Destroy(v, p)) = Clients(v) \ {p}
          /\ Destroy(v, p).pending = v.pending
      BY <2>3, <2>4, DestroyGood
    <2>6. Clients(v) \ {p} = Clients(s) \ T
      BY <2>1, <2>3
    <2> QED BY <2>2, <2>3, <2>5, <2>6
  <1>7. S \in G
    <2> HIDE DEF G
    <2> QED BY <1>1, <1>5, <1>6, SubsetInduction
  <1> QED BY <1>3, <1>7

\* The second loop: connections that have never been classified
LEMMA PurgedGood ==
  ASSUME NEW f, NEW s, Good(s, f), NEW S \in SUBSET s.pending, NEW u,
         u = FoldSet(LAMBDA p, v : RemovePending(v, p), s, S)
  PROVE  Good(u, f)
  <1>1. IsFiniteSet(S)
    <2>1. S \subseteq Fds
      BY DEF Good, Servers
    <2> QED BY <2>1, FdsFinite, FS_Subset
  <1>2. PICK g : IsPurged(g, s, SUBSET S)
    BY <1>1, PurgedExists
  <1> DEFINE h == CHOOSE h : IsPurged(h, s, SUBSET S)
             G == {T \in SUBSET S : Good(h[T], f) /\ h[T].pending = s.pending \ T}
  <1>3. u = h[S]
    BY Zenon DEF FoldSet, MapThenFoldSet, IsPurged, Pick
  <1>4. IsPurged(h, s, SUBSET S)
    BY <1>2
  <1> HIDE DEF h
  <1>5. {} \in G
    <2>1. h[{}] = s
      BY <1>4 DEF IsPurged
    <2> QED BY <2>1
  <1>6. ASSUME NEW T \in SUBSET S, T # {}, \A x \in T : T \ {x} \in G
        PROVE  T \in G
    <2> DEFINE p == Pick(T)
               v == h[T \ {p}]
    <2>1. p \in T
      BY <1>6 DEF Pick
    <2>2. h[T] = RemovePending(v, p)
      BY <1>4, <1>6 DEF IsPurged
    <2>3. Good(v, f) /\ v.pending = s.pending \ (T \ {p})
      BY <1>6, <2>1
    <2> HIDE DEF p, v
    <2>4. p \in v.pending
      BY <2>1, <2>3
    <2>5. Good(RemovePending(v, p), f) /\ RemovePending(v, p).pending = v.pending \ {p}
      BY <2>3, <2>4, RemovePendingGood
    <2>6. v.pending \ {p} = s.pending \ T
      BY <2>1, <2>3
    <2> QED BY <2>2, <2>5, <2>6
  <1>7. S \in G
    <2> HIDE DEF G
    <2> QED BY <1>1, <1>5, <1>6, SubsetInduction
  <1> QED BY <1>3, <1>7

-----------------------------------------------------------------------------
(* Messages *)

\* What two steps preserve each, they preserve together.
LEMMA KeptTwice ==
  ASSUME NEW f, NEW s, NEW v, NEW u, Kept(v, s, f), Kept(u, v, f)
  PROVE  Kept(u, s, f)
  BY DEF Kept

\* onTcpRelayData
LEMMA RelayGood ==
  ASSUME NEW f, NEW s, Good(s, f), NEW t \in Clients(s), NEW u \in Relay(s, t)
  PROVE  Kept(u, s, f)
  <1>1. PICK v \in SendDataMsg(s, t) : u \in {v} \/ u \in SendMsg(v, t, FALSE)
    BY DEF Relay
  <1>2. Kept(v, s, f)
    BY SendDataMsgGood DEF Kept
  <1>3. t \in Clients(v)
    BY <1>2 DEF Kept
  <1> QED BY <1>1, <1>2, <1>3, SendKept

\* A relayed frame goes to some member.
LEMMA RelaysGood ==
  ASSUME NEW f, NEW s, Good(s, f), NEW u \in Relays(s)
  PROVE  Kept(u, s, f)
  <1>1. PICK t \in Clients(s) : u \in Relay(s, t)
    BY DEF Relays, Members
  <1> QED BY <1>1, RelayGood

\* onRequestRelay
LEMMA RelayReadyGood ==
  ASSUME NEW f, NEW s, Good(s, f), NEW t \in Clients(s), NEW u \in RelayReady(s, t)
  PROVE  Kept(u, s, f)
  <1>1. PICK x \in Clients(s) : u \in UNION {SendMsg(v, x, FALSE) : v \in SendMsg(s, t, FALSE)}
    <2>1. PICK x \in Members(s) :
            u \in UNION {SendMsg(v, x, FALSE) : v \in SendMsg(s, t, FALSE)}
      BY Zenon DEF RelayReady
    <2> QED BY <2>1 DEF Members
  <1>2. PICK v \in SendMsg(s, t, FALSE) : u \in SendMsg(v, x, FALSE)
    BY <1>1
  <1>3. Kept(s, s, f)
    BY DEF Kept
  <1>4. Kept(v, s, f)
    BY <1>3, SendKept
  <1>5. x \in Clients(v)
    BY <1>4 DEF Kept
  <1> QED BY <1>2, <1>4, <1>5, SendKept

\* A session in another state is still the same session.
LEMMA BecameKept ==
  ASSUME NEW f, NEW s, Good(s, f), NEW t \in Clients(s), NEW state \in States
  PROVE  Kept(Became(s, t, state), s, f)
  BY BecameGood DEF Kept

\* Entering a room: the response, and the announcements
LEMMA EnteredGood ==
  ASSUME NEW f, NEW s, Good(s, f), NEW t \in Clients(s), NEW u \in Entered(s, t)
  PROVE  Kept(u, s, f)
  <1> DEFINE b == Became(s, t, "Room")
  <1>1. PICK v \in SendMsg(b, t, TRUE) : u \in Announced(v, t) \/ u \in {v}
    BY DEF Entered, Answered
  <1>2. Kept(b, s, f)
    BY BecameKept DEF States
  <1> HIDE DEF b
  <1>3. t \in Clients(b)
    BY <1>2 DEF Kept
  <1>4. Kept(v, s, f)
    BY <1>2, <1>3, SendKept
  <1>5. u \in Announced(v, t) => Kept(u, v, f)
    BY <1>4, AnnouncedGood DEF Kept
  <1> QED BY <1>1, <1>4, <1>5, KeptTwice

\* onLogout
LEMMA LoggedOutGood ==
  ASSUME NEW f, NEW s, Good(s, f), NEW t \in Clients(s), NEW u \in LoggedOut(s, t)
  PROVE  Kept(u, s, f)
  <1> DEFINE c == CloseDataChannel(s, t)
  <1>1. PICK v \in Announced(c, t) : u \in SendMsg(Became(v, t, "Closing"), t, TRUE)
    BY DEF LoggedOut, Answered
  <1>2. Kept(c, s, f)
    BY CloseDataChannelGood DEF Kept
  <1> HIDE DEF c
  <1>3. Kept(v, c, f)
    BY <1>2, AnnouncedGood DEF Kept
  <1>4. Kept(v, s, f)
    BY <1>2, <1>3, KeptTwice
  <1>5. Good(v, f) /\ t \in Clients(v)
    BY <1>4 DEF Kept
  <1> DEFINE b == Became(v, t, "Closing")
  <1>6. Kept(b, v, f)
    BY <1>5, BecameKept DEF States
  <1> HIDE DEF b
  <1>7. Kept(b, s, f) /\ t \in Clients(b)
    BY <1>4, <1>5, <1>6, KeptTwice DEF Kept
  <1> QED BY <1>1, <1>7, SendKept DEF b

\* processMessage: the session stays, whatever becomes of the others.
LEMMA ProcessedGood ==
  ASSUME NEW f, NEW s, Good(s, f), NEW t \in Clients(s),
         s.clients[t].state # "Closing", NEW u \in Processed(s, t)
  PROVE  Good(u, f) /\ t \in Clients(u)
  <1>0. Kept(s, s, f)
    BY DEF Kept
  <1>1. ASSUME NEW v, Kept(v, s, f) PROVE Good(v, f) /\ t \in Clients(v)
    BY <1>1 DEF Kept
  <1>2. s.clients[t].state \in {"Hello", "Lobby", "Room"}
    BY SessionType DEF Good, Sessions, States
  <1>3. ASSUME NEW v \in Answered(s, t) PROVE Kept(v, s, f)
    BY <1>0, SendKept DEF Answered
  <1>4. CASE u = Dead(s, t)
    BY <1>4, DeadGood
  <1>5. CASE u \in Answered(s, t)
    BY <1>1, <1>3, <1>5
  <1>6. ASSUME NEW v, Good(v, f), t \in Clients(v),
               u \in Answered(Became(v, t, "Lobby"), t)
        PROVE  Good(u, f) /\ t \in Clients(u)
    <2> DEFINE b == Became(v, t, "Lobby")
    <2>1. Kept(b, v, f)
      BY <1>6, BecameKept DEF States
    <2> HIDE DEF b
    <2>2. t \in Clients(b)
      BY <1>6, <2>1 DEF Kept
    <2>3. Kept(u, v, f)
      BY <1>6, <2>1, <2>2, SendKept DEF Answered, b
    <2> QED BY <1>6, <2>3 DEF Kept
  <1>7. CASE s.clients[t].state = "Hello" /\ u # Dead(s, t) /\ u \notin Answered(s, t)
    <2>1. \/ u \in Answered(Became(s, t, "Lobby"), t)
          \/ \E v \in Answered(s, t) : u = Became(v, t, "Closing")
          \/ \E v \in Takeover(s, t) : u \in Answered(Became(v, t, "Lobby"), t)
      BY <1>7 DEF Processed
    <2>2. CASE u \in Answered(Became(s, t, "Lobby"), t)
      BY <2>2, <1>6
    <2>3. ASSUME NEW v \in Answered(s, t), u = Became(v, t, "Closing")
          PROVE  Good(u, f) /\ t \in Clients(u)
      <3>1. Good(v, f) /\ t \in Clients(v)
        BY <1>1, <1>3
      <3>2. Kept(u, v, f)
        BY <2>3, <3>1, BecameKept DEF States
      <3> QED BY <3>1, <3>2 DEF Kept
    <2>4. ASSUME NEW v \in Takeover(s, t), u \in Answered(Became(v, t, "Lobby"), t)
          PROVE  Good(u, f) /\ t \in Clients(u)
      <3>1. PICK x \in Clients(s) \ {t} : v = Destroy(s, x)
        BY DEF Takeover
      <3>2. Good(v, f) /\ Clients(v) = Clients(s) \ {x}
        BY <3>1, DestroyGood
      <3> QED BY <1>6, <2>4, <3>1, <3>2
    <2> QED BY <2>1, <2>2, <2>3, <2>4
  <1>8. CASE s.clients[t].state = "Lobby" /\ u # Dead(s, t) /\ u \notin Answered(s, t)
    <2>1. u \in SendMsg(s, t, FALSE) \/ u \in Entered(s, t) \/ u \in LoggedOut(s, t)
      BY <1>8 DEF Processed
    <2>2. u \in SendMsg(s, t, FALSE) => Kept(u, s, f)
      BY <1>0, SendKept
    <2> QED BY <1>1, <2>1, <2>2, EnteredGood, LoggedOutGood
  <1>9. CASE s.clients[t].state = "Room" /\ u # Dead(s, t) /\ u \notin Answered(s, t)
    <2> DEFINE b == Became(s, t, "Lobby")
    <2>1. \/ u \in SendMsg(s, t, FALSE) \/ u \in Relays(s) \/ u \in RelayReady(s, t)
          \/ u \in Announced(b, t) \/ u \in LoggedOut(s, t)
      BY <1>9 DEF Processed
    <2>2. u \in SendMsg(s, t, FALSE) => Kept(u, s, f)
      BY <1>0, SendKept
    <2>3. Kept(b, s, f)
      BY BecameKept DEF States
    <2> HIDE DEF b
    <2>4. u \in Announced(b, t) => Kept(u, s, f)
      <3>1. u \in Announced(b, t) => Kept(u, b, f)
        BY <2>3, AnnouncedGood DEF Kept
      <3> QED BY <2>3, <3>1, KeptTwice
    <2> QED BY <1>1, <2>1, <2>2, <2>4, RelaysGood, RelayReadyGood, LoggedOutGood
  <1> QED BY <1>2, <1>4, <1>5, <1>7, <1>8, <1>9

\* processDataMessage
LEMMA ProcessedDataGood ==
  ASSUME NEW f, NEW s, Good(s, f), NEW t \in Clients(s), NEW u \in ProcessedData(s, t)
  PROVE  Kept(u, s, f)
  <1>1. u = CloseDataChannel(s, t) \/ u \in SendDataMsg(s, t) \/ u \in Relays(s)
    BY DEF ProcessedData
  <1>2. CASE u = CloseDataChannel(s, t)
    BY <1>2, CloseDataChannelGood DEF Kept
  <1>3. CASE u \in SendDataMsg(s, t)
    BY <1>3, SendDataMsgGood DEF Kept
  <1> QED BY <1>1, <1>2, <1>3, RelaysGood

\* A session that has ended is destroyed.
LEMMA SettleGood ==
  ASSUME NEW f, NEW s, Good(s, f), NEW t \in Clients(s)
  PROVE  Good(Settle(s, t), f)
  <1>1. Settle(s, t) = s \/ Settle(s, t) = Destroy(s, t)
    BY DEF Settle
  <1> QED BY <1>1, DestroyGood

-----------------------------------------------------------------------------
(* Events *)

\* onSecureDataChannelInit, and the frames that follow it
LEMMA BindDataGood ==
  ASSUME NEW f, NEW s, Good(s, f), f \in s.pending, NEW t \in Clients(s),
         NEW u \in BindData(s, f, t)
  PROVE  Good(u, f)
  <1> DEFINE b == BoundAnew(s, f, t)
  <1>1. Good(b, f) /\ Clients(b) = Clients(s)
    BY BindGood
  <1>2. u \in SendDataMsg(b, t) \/ \E v \in SendDataMsg(b, t) : u \in ProcessedData(v, t)
    BY DEF BindData, BoundAnew
  <1> HIDE DEF b
  <1>3. ASSUME NEW v \in SendDataMsg(b, t) PROVE Good(v, f) /\ t \in Clients(v)
    BY <1>1, SendDataMsgGood
  <1>4. ASSUME NEW v \in SendDataMsg(b, t), u \in ProcessedData(v, t)
        PROVE  Good(u, f)
    BY <1>3, <1>4, ProcessedDataGood DEF Kept
  <1> QED BY <1>2, <1>3, <1>4

\* handlePendingData for a connection that becomes a session
LEMMA PromoteGood ==
  ASSUME NEW f, NEW s, Good(s, f), f \in s.pending, NEW u \in Promote(s, f)
  PROVE  Good(u, f)
  <1>1. u = RemovePending(s, f) \/ \E v \in Processed(Promoted(s, f), f) : u = Settle(v, f)
    BY DEF Promote, Promoted
  <1>2. CASE u = RemovePending(s, f)
    BY <1>2, RemovePendingGood
  <1>3. ASSUME NEW v \in Processed(Promoted(s, f), f), u = Settle(v, f)
        PROVE  Good(u, f)
    <2> DEFINE n == Promoted(s, f)
    <2>1. Good(n, f) /\ Clients(n) = Clients(s) \cup {f} /\ n.clients[f].state = "Hello"
      BY PromotedGood
    <2> HIDE DEF n
    <2>2. f \in Clients(n) /\ n.clients[f].state # "Closing"
      BY <2>1
    <2>3. Good(v, f) /\ f \in Clients(v)
      BY <1>3, <2>1, <2>2, ProcessedGood DEF n
    <2> QED BY <1>3, <2>3, SettleGood
  <1> QED BY <1>1, <1>2, <1>3

\* handlePendingData, whatever the first frame says
LEMMA PendingDataGood ==
  ASSUME NEW f, NEW s, Good(s, f), f \in s.pending, NEW u \in PendingData(s, f)
  PROVE  Good(u, f)
  <1>1. \/ u = s \/ u = RemovePending(s, f) \/ u \in Promote(s, f)
        \/ \E t \in Clients(s) : u \in BindData(s, f, t)
    BY DEF PendingData
  <1> QED BY <1>1, RemovePendingGood, PromoteGood, BindDataGood

\* handleClientData
LEMMA ClientDataGood ==
  ASSUME NEW f, NEW s, Good(s, f), NEW t \in Clients(s), NEW u \in ClientData(s, t)
  PROVE  Good(u, f)
  <1>1. \/ u = s \/ u = Destroy(s, t)
        \/ /\ s.clients[t].state # "Closing"
           /\ \E v \in Processed(s, t) : u = Settle(v, t)
    BY DEF ClientData
  <1>2. ASSUME s.clients[t].state # "Closing", NEW v \in Processed(s, t), u = Settle(v, t)
        PROVE  Good(u, f)
    <2>1. Good(v, f) /\ t \in Clients(v)
      BY <1>2, ProcessedGood
    <2> QED BY <1>2, <2>1, SettleGood
  <1> QED BY <1>1, <1>2, DestroyGood

\* A data channel has a session.
LEMMA DataSession ==
  ASSUME NEW f, NEW s, Good(s, f), NEW d \in Fds, s.dataMap[d] # 0
  PROVE  s.dataMap[d] \in Clients(s)
  BY DEF Good, DescriptorsIn

\* handleDataChannelData
LEMMA DataDataGood ==
  ASSUME NEW f, NEW s, Good(s, f), f \in Fds, s.dataMap[f] # 0, NEW u \in DataData(s, f)
  PROVE  Good(u, f)
  <1> DEFINE t == s.dataMap[f]
  <1>1. t \in Clients(s)
    BY DataSession
  <1>2. u = CloseDataChannel(s, t) \/ u \in ProcessedData(s, t)
    BY DEF DataData
  <1> HIDE DEF t
  <1>3. u = CloseDataChannel(s, t) => Good(u, f)
    BY <1>1, CloseDataChannelGood
  <1>4. u \in ProcessedData(s, t) => Good(u, f)
    BY <1>1, ProcessedDataGood DEF Kept
  <1> QED BY <1>2, <1>3, <1>4

\* handleWritable for a data channel
LEMMA DataWritableGood ==
  ASSUME NEW f, NEW s, Good(s, f), f \in Fds, s.dataMap[f] # 0, NEW u \in DataWritable(s, f)
  PROVE  Good(u, f)
  <1> DEFINE t == s.dataMap[f]
  <1>1. t \in Clients(s)
    BY DataSession
  <1>2. u = CloseDataChannel(s, t) \/ u \in FlushData(s, t)
    BY DEF DataWritable
  <1> HIDE DEF t
  <1>3. u = CloseDataChannel(s, t) => Good(u, f)
    BY <1>1, CloseDataChannelGood
  <1>4. u \in FlushData(s, t) => Good(u, f)
    BY <1>1, FlushDataGood
  <1> QED BY <1>2, <1>3, <1>4

\* handleWritable for a signalling connection
LEMMA ClientWritableGood ==
  ASSUME NEW f, NEW s, Good(s, f), NEW t \in Clients(s), NEW u \in ClientWritable(s, t)
  PROVE  Good(u, f)
  <1>1. PICK v \in FlushSignal(s, t) : u = Settle(v, t)
    BY DEF ClientWritable
  <1>2. Good(v, f) /\ t \in Clients(v)
    BY FlushSignalGood
  <1> QED BY <1>1, <1>2, SettleGood

\* Whatever the descriptor of an event is now, its handler preserves Good.
LEMMA EventGood ==
  ASSUME NEW f \in Fds, NEW s, Good(s, f),
         NEW u \in Readable(s, f) \cup {HangUp(s, f)} \cup Writable(s, f)
  PROVE  Good(u, f)
  <1>1. CASE u \in Readable(s, f)
    BY <1>1, PendingDataGood, DataDataGood, ClientDataGood DEF Readable
  <1>2. CASE u = HangUp(s, f)
    <2>1. CASE f \in s.pending
      <3>1. s.dataMap[f] = 0 /\ f \notin Clients(s)
        BY <2>1 DEF Good, DescriptorsIn
      <3> QED BY <1>2, <2>1, <3>1, RemovePendingGood DEF HangUp
    <2>2. CASE s.dataMap[f] # 0
      <3>1. f \notin s.pending /\ f \notin Clients(s)
        BY <2>2 DEF Good, DescriptorsIn
      <3>2. u = CloseDataChannel(s, s.dataMap[f])
        BY <1>2, <2>2, <3>1 DEF HangUp
      <3>3. s.dataMap[f] \in Clients(s)
        BY <2>2, DataSession
      <3> QED BY <3>2, <3>3, CloseDataChannelGood
    <2>3. CASE f \in Clients(s)
      <3>1. f \notin s.pending /\ s.dataMap[f] = 0
        BY <2>3 DEF Good, DescriptorsIn
      <3> QED BY <1>2, <2>3, <3>1, DestroyGood DEF HangUp
    <2>4. CASE f \notin s.pending /\ s.dataMap[f] = 0 /\ f \notin Clients(s)
      BY <1>2, <2>4 DEF HangUp
    <2> QED BY <2>1, <2>2, <2>3, <2>4
  <1>3. CASE u \in Writable(s, f)
    BY <1>3, DataWritableGood, ClientWritableGood DEF Writable
  <1> QED BY <1>1, <1>2, <1>3

-----------------------------------------------------------------------------
(* The loop of run() *)

\* v is s with fewer descriptors closed in this batch.
Shed(s, v) ==
  /\ v.file = s.file /\ v.pending = s.pending /\ v.clients = s.clients
  /\ v.dataMap = s.dataMap /\ v.global = s.global
  /\ v.waiting = s.waiting /\ v.active = s.active

\* At the end of an event its descriptor is no exception any more.
LEMMA ShedGood ==
  ASSUME NEW f, NEW s, Good(s, f), NEW v \in Servers, Shed(s, v),
         v.closed \subseteq s.closed \ {f}
  PROVE  Good(v, 0)
  <1>1. Clients(v) = Clients(s)
    BY DEF Shed, Clients
  <1>2. BudgetIn(v)
    <2>1. Load(v) = Load(s)
      BY DEF Load, Shed
    <2> QED BY <2>1 DEF Good, BudgetIn, Shed
  <1>3. DescriptorsIn(v)
    BY <1>1 DEF Good, DescriptorsIn, Shed
  <1>4. AddressesIn(v)
    <2>1. \A i : Waiting(v, i) = Waiting(s, i) /\ Active(v, i) = Active(s, i)
      BY <1>1 DEF Waiting, Active, Shed
    <2> QED BY <2>1 DEF Good, AddressesIn, Shed
  <1>5. StaleIn(v, 0)
    BY <1>1 DEF Good, StaleIn, Shed
  <1>6. \A t \in Clients(v) : SessionOK(v.file, v.clients[t])
    BY <1>1 DEF Good, Shed
  <1> QED BY <1>2, <1>3, <1>4, <1>5, <1>6 DEF Good

\* The event has been handled.
LEMMA HandledGood ==
  ASSUME NEW f, NEW s, Good(s, f)
  PROVE  Good(Handled(s, f), 0)
  <1> DEFINE v == Handled(s, f)
  <1>1. s \in Servers
    BY DEF Good
  <1>2. v \in Servers /\ Shed(s, v) /\ v.closed = s.closed \ {f}
    BY <1>1 DEF Handled, Servers, Shed
  <1> HIDE DEF v
  <1> QED BY <1>2, ShedGood DEF v

\* epoll_wait: no event of an earlier batch is left.
LEMMA BatchGood ==
  ASSUME NEW f, NEW s, Good(s, f)
  PROVE  Good([s EXCEPT !.closed = {}, !.fresh = {}], 0)
  <1> DEFINE v == [s EXCEPT !.closed = {}, !.fresh = {}]
  <1>1. s \in Servers
    BY DEF Good
  <1>2. v \in Servers /\ Shed(s, v) /\ v.closed = {}
    BY <1>1 DEF Servers, Shed
  <1> HIDE DEF v
  <1>3. v.closed \subseteq s.closed \ {f}
    BY <1>2
  <1>4. Good(v, 0)
    BY <1>2, <1>3, ShedGood
  <1> QED BY <1>4 DEF v

\* Between two events nothing is excepted.
LEMMA GoodWithin ==
  ASSUME NEW s, Good(s, 0), NEW f
  PROVE  Good(s, f)
  <1>1. s.closed \subseteq Fds /\ 0 \notin Fds
    BY FdsFinite DEF Good, Servers
  <1> QED BY <1>1 DEF Good, StaleIn

\* checkTimeouts
LEMMA ScanGood ==
  ASSUME NEW s, Good(s, 0), NEW dead \in SUBSET Clients(s), NEW old \in SUBSET s.pending
  PROVE  Good(Scan(s, dead, old), 0)
  <1>1. PICK u : u = FoldSet(LAMBDA t, v : Destroy(v, t), s, dead)
    OBVIOUS
  <1>2. Good(u, 0) /\ u.pending = s.pending
    BY <1>1, DestroyedGood
  <1>3. PICK w : w = FoldSet(LAMBDA p, v : RemovePending(v, p), u, old)
    OBVIOUS
  <1>4. old \in SUBSET u.pending
    BY <1>2
  <1>5. Good(w, 0)
    BY <1>2, <1>3, <1>4, PurgedGood
  <1>6. Scan(s, dead, old) = w
    BY <1>1, <1>3, Zenon DEF Scan
  <1> QED BY <1>5, <1>6

\* A descriptor that is free is known to nobody.
LEMMA FreeFd ==
  ASSUME NEW s, Good(s, 0), NEW f \in Fds, s.file[f] = NoConn
  PROVE  /\ f \notin s.pending /\ f \notin Clients(s) /\ s.dataMap[f] = 0
         /\ \A t \in Clients(s) : s.clients[t].data # f
  <1>1. f \notin s.pending /\ f \notin Clients(s) /\ s.dataMap[f] = 0
    BY DEF Good, DescriptorsIn
  <1>2. ASSUME NEW t \in Clients(s), s.clients[t].data = f PROVE FALSE
    <2>1. t # 0 /\ f # 0
      BY FdsFinite DEF Clients
    <2>2. s.dataMap[f] = t
      BY <1>2, <2>1 DEF Good, DescriptorsIn
    <2> QED BY <1>1, <2>1, <2>2
  <1> QED BY <1>1, <1>2

\* handleTcpAccept
LEMMA AcceptGood ==
  ASSUME NEW s, Good(s, 0), NEW f \in Fds, s.file[f] = NoConn, NEW x \in Conns
  PROVE  Good([s EXCEPT !.file[f] = x, !.pending = @ \cup {f},
                        !.waiting[Ip[x]] = @ + 1, !.fresh = @ \cup {f}], 0)
  <1> DEFINE u == [s EXCEPT !.file[f] = x, !.pending = @ \cup {f},
                            !.waiting[Ip[x]] = @ + 1, !.fresh = @ \cup {f}]
             a == Ip[x]
  <1>1. s \in Servers /\ DescriptorsIn(s) /\ s.pending \subseteq Fds
    BY DEF Good, Servers
  <1>2. a \in Ips /\ s.waiting[a] + 1 \in Nat /\ x # NoConn
    BY <1>1, ChannelsAssumption DEF Servers
  <1>3. /\ u.file = [s.file EXCEPT ![f] = x] /\ u.pending = s.pending \cup {f}
        /\ u.dataMap = s.dataMap /\ u.active = s.active /\ u.closed = s.closed
        /\ u.waiting = [s.waiting EXCEPT ![a] = s.waiting[a] + 1]
        /\ u.global = s.global /\ u.clients = s.clients
    BY <1>1, <1>2 DEF Servers
  <1>4. u \in Servers
    BY <1>1, <1>2 DEF Servers
  <1> HIDE DEF u, a
  <1>5. /\ \A y \in Fds \ {f} : u.file[y] = s.file[y]
        /\ u.file[f] = x
    BY <1>1, <1>3 DEF Servers
  <1>6. Clients(u) = Clients(s) /\ Clients(s) \subseteq Fds
    BY <1>3 DEF Clients
  <1>7. /\ f \notin s.pending /\ f \notin Clients(s) /\ s.dataMap[f] = 0
        /\ \A t \in Clients(s) : s.clients[t].data # f
    BY FreeFd
  <1>8. BudgetIn(u)
    <2>1. Load(u) = Load(s)
      BY <1>3 DEF Load
    <2> QED BY <1>3, <2>1 DEF BudgetIn, Good
  <1>9. DescriptorsIn(u)
    BY <1>1, <1>2, <1>3, <1>5, <1>6, <1>7 DEF DescriptorsIn
  <1>10. AddressesIn(u)
    <2>1. \A i : Active(u, i) = Active(s, i)
      BY <1>3, <1>6 DEF Active
    <2>2. \A y \in s.pending : u.file[y] = s.file[y]
      BY <1>1, <1>5, <1>7
    <2>3. ASSUME NEW i
          PROVE  /\ Waiting(s, i) \subseteq Fds /\ f \notin Waiting(s, i)
                 /\ i = a => Waiting(u, i) = Waiting(s, i) \cup {f}
                 /\ i # a => Waiting(u, i) = Waiting(s, i)
      <3>1. \A y : y \in Waiting(u, i) <=> y \in Waiting(s, i) \/ (y = f /\ i = a)
        BY <1>3, <1>5, <2>2 DEF Waiting, a
      <3>2. i = a => Waiting(u, i) = Waiting(s, i) \cup {f}
        BY <3>1
      <3>3. i # a => Waiting(u, i) = Waiting(s, i)
        BY <3>1
      <3>4. Waiting(s, i) \subseteq Fds /\ f \notin Waiting(s, i)
        BY <1>1, <1>7 DEF Waiting
      <3> QED BY <3>2, <3>3, <3>4
    <2>4. ASSUME NEW i \in Ips PROVE u.waiting[i] = Cardinality(Waiting(u, i))
      <3>1. s.waiting[i] = Cardinality(Waiting(s, i))
        BY DEF Good, AddressesIn
      <3>2. CASE i = a
        <4>1. u.waiting[i] = s.waiting[i] + 1
          BY <1>1, <1>2, <1>3, <3>2 DEF Servers
        <4> QED BY <2>3, <3>1, <3>2, <4>1, Counting
      <3>3. CASE i # a
        <4>1. u.waiting[i] = s.waiting[i]
          BY <1>1, <1>3, <3>3 DEF Servers
        <4> QED BY <2>3, <3>1, <3>3, <4>1
      <3> QED BY <3>2, <3>3
    <2> QED BY <1>3, <2>1, <2>4 DEF AddressesIn, Good
  <1>11. StaleIn(u, 0)
    BY <1>3, <1>6 DEF StaleIn, Good
  <1>12. ASSUME NEW y \in Clients(u) PROVE SessionOK(u.file, u.clients[y])
    <2>1. y \in Clients(s) /\ u.clients[y] = s.clients[y] /\ SessionOK(s.file, s.clients[y])
      BY <1>3, <1>6 DEF Good
    <2>2. s.clients[y].data # f /\ s.clients[y].data \in Fds \cup {0}
      BY <1>1, <1>7, <2>1, SessionType DEF Sessions
    <2>3. s.clients[y].data # 0 => u.file[s.clients[y].data] = s.file[s.clients[y].data]
      BY <1>5, <2>2
    <2> QED BY <2>1, <2>3 DEF SessionOK
  <1>13. Good(u, 0)
    BY <1>4, <1>8, <1>9, <1>10, <1>11, <1>12 DEF Good
  <1> QED BY <1>13 DEF u

\* A server that has started has nothing queued and nothing open.
LEMMA StartedGood == Good(Started, 0)
  <1> DEFINE s == Started
  <1>1. /\ s \in Servers
        /\ s.pending = {} /\ s.global = 0 /\ s.closed = {}
        /\ s.file = [f \in Fds |-> NoConn] /\ s.dataMap = [f \in Fds |-> 0]
        /\ s.clients = [f \in Fds |-> NoSession]
        /\ s.waiting = [i \in Ips |-> 0] /\ s.active = [i \in Ips |-> 0]
    BY DEF Started, Servers
  <1> HIDE DEF s
  <1>2. Clients(s) = {}
    BY <1>1 DEF Clients
  <1>3. BudgetIn(s)
    <2>1. \A t \in Fds : Load(s)[t] = 0
      BY <1>1 DEF Load, Held
    <2>2. SumFunctionOnSet(Load(s), Fds) = 0
      BY <2>1, SumZero, FdsFinite
    <2> QED BY <1>1, <2>2, Bounds DEF BudgetIn
  <1>4. DescriptorsIn(s)
    BY <1>1, <1>2 DEF DescriptorsIn
  <1>5. AddressesIn(s)
    <2>1. \A i : Waiting(s, i) = {} /\ Active(s, i) = {}
      BY <1>1, <1>2 DEF Waiting, Active
    <2>2. Cardinality({}) = 0
      BY FS_EmptySet
    <2> QED BY <1>1, <2>1, <2>2 DEF AddressesIn
  <1>6. StaleIn(s, 0)
    BY <1>1 DEF StaleIn
  <1> QED BY <1>1, <1>2, <1>3, <1>4, <1>5, <1>6 DEF Good, s

\* Every step preserves the invariant.
LEMMA NextGood ==
  ASSUME Good(server, 0), [Next]_vars
  PROVE  Good(server, 0)'
  <1>1. ASSUME NEW x \in Conns, HandleTcpAccept(x) PROVE Good(server', 0)
    <2> DEFINE free == {g \in Fds : server.file[g] = NoConn}
               f == Min(free)
    <2>1. /\ free # {}
          /\ server' = [server EXCEPT !.file[f] = x, !.pending = @ \cup {f},
                                 !.waiting[Ip[x]] = @ + 1, !.fresh = @ \cup {f}]
      BY <1>1 DEF HandleTcpAccept
    <2>2. f \in free
      <3>1. free \in SUBSET Nat
        BY FdsFinite
      <3>2. \E y \in free : \A z \in free : y <= z
        <4> HIDE DEF free
        <4> QED BY <2>1, <3>1, LeastNumber
      <3> QED BY <3>2 DEF Min
    <2>3. f \in Fds /\ server.file[f] = NoConn
      BY <2>2
    <2> HIDE DEF f
    <2> QED BY <2>1, <2>3, AcceptGood
  <1>2. ASSUME NEW f \in Fds, Event(f) \/ StaleEvent(f) PROVE Good(server', 0)
    <2>1. PICK u \in Readable(server, f) \cup {HangUp(server, f)} \cup Writable(server, f) :
            server' = Handled(u, f)
      BY <1>2 DEF Event, StaleEvent
    <2>2. Good(server, f)
      BY GoodWithin
    <2>3. Good(u, f)
      BY <2>2, EventGood
    <2> QED BY <2>1, <2>3, HandledGood
  <1>3. CASE NextBatch
    BY <1>3, BatchGood DEF NextBatch
  <1>4. ASSUME NEW dead \in SUBSET Clients(server), NEW old \in SUBSET server.pending,
               CheckTimeouts(dead, old)
        PROVE  Good(server', 0)
    <2> DEFINE s == Scan(server, dead, old)
    <2>1. PICK u \in {s} \cup Announced(s, 0) :
            server' = [u EXCEPT !.closed = {}, !.fresh = {}]
      BY <1>4 DEF CheckTimeouts
    <2>2. Good(s, 0)
      BY ScanGood
    <2> HIDE DEF s
    <2>3. Good(u, 0)
      BY <2>1, <2>2, AnnouncedGood DEF Kept
    <2> QED BY <2>1, <2>3, BatchGood
  <1>5. CASE HandleUdpPacket
    <2>1. PICK t \in Clients(server) : server' = Dead(server, t)
      BY <1>5 DEF HandleUdpPacket, Members
    <2> QED BY <2>1, DeadGood
  <1>6. CASE Stop
    BY <1>6, StartedGood DEF Stop
  <1>7. CASE UNCHANGED vars
    BY <1>7 DEF vars
  <1>8. Good(server', 0)
    BY <1>1, <1>2, <1>3, <1>4, <1>5, <1>6, <1>7 DEF Next
  <1> QED BY <1>8 DEF Good, BudgetIn, DescriptorsIn, AddressesIn, StaleIn

-----------------------------------------------------------------------------
(* Theorems *)

\* Good holds whenever run() waits for the next event, for every number of
\* connections, descriptors and addresses, and every limit.
THEOREM GoodSafe == Spec => []Good(server, 0)
  <1>1. Init => Good(server, 0)
    BY StartedGood DEF Init
  <1>2. Good(server, 0) /\ [Next]_vars => Good(server, 0)'
    BY NextGood
  <1> QED BY <1>1, <1>2, PTL DEF Spec

\* What the invariant says of the accounts.
LEMMA GoodAccounts ==
  ASSUME Good(server, 0)
  PROVE  AccountsExact
  <1>1. server \in Servers /\ DescriptorsIn(server)
    BY DEF Good
  <1>2. BudgetExact
    <2>1. SumFunction(Load(server)) = SumFunctionOnSet(Load(server), Fds)
      <3>1. DOMAIN Load(server) = Fds
        BY DEF Load
      <3> QED BY <3>1, Zenon DEF SumFunction
    <2>2. Load(server) = [t \in Fds |-> Held(server.clients[t])]
      BY DEF Load
    <2>3. BudgetIn(server)
      BY DEF Good
    <2> HIDE DEF Load
    <2>4. server.global = SumFunction(Load(server)) /\ server.global <= MaxGlobal
      BY <2>1, <2>3 DEF BudgetIn
    <2> QED BY <2>2, <2>4, Zenon DEF BudgetExact
  <1>3. DescriptorsExact
    <2> DEFINE data == {f \in Fds : server.dataMap[f] # 0}
    <2>1. TypeOK /\ server.pending \subseteq Fds /\ Clients(server) \subseteq Fds
      BY <1>1 DEF TypeOK, Servers, Clients
    <2>2. {f \in Fds : server.file[f] # NoConn} = server.pending \cup Clients(server) \cup data
      BY <1>1, <2>1 DEF DescriptorsIn
    <2>3. /\ server.pending \cap Clients(server) = {}
          /\ data \cap (server.pending \cup Clients(server)) = {}
      BY <1>1 DEF DescriptorsIn
    <2>4. ASSUME NEW f \in Fds, NEW t \in Clients(server)
          PROVE  server.dataMap[f] = t <=> server.clients[t].data = f
      <3>1. t # 0 /\ f # 0
        BY <2>1, FdsFinite
      <3>2. server.dataMap[f] = t => server.clients[t].data = f
        BY <1>1, <3>1 DEF DescriptorsIn
      <3>3. server.clients[t].data = f => server.dataMap[f] = t
        BY <1>1, <3>1 DEF DescriptorsIn
      <3> QED BY <3>2, <3>3
    <2>5. \A f \in data : server.dataMap[f] \in Clients(server)
      BY <1>1 DEF DescriptorsIn
    <2> QED BY <2>1, <2>2, <2>3, <2>4, <2>5 DEF DescriptorsExact
  <1>4. AddressesExact
    BY DEF Good, AddressesIn, Waiting, Active, AddressesExact
  <1> QED BY <1>2, <1>3, <1>4 DEF AccountsExact

\* m_globalSendBytes is what all buffers hold together and stays within the
\* budget, every open descriptor has exactly one use, and the connections of
\* every address are counted exactly, on every path through the handlers.
THEOREM AccountsSafe == Spec => []AccountsExact
  <1>1. Good(server, 0) => AccountsExact
    BY GoodAccounts
  <1> QED BY <1>1, GoodSafe, PTL

\* An event left over in a batch never reaches a session or a data channel that
\* was given the descriptor since.
THEOREM StaleSafe == Spec => []StaleEventsMissSessions
  <1>1. Good(server, 0) => StaleEventsMissSessions
    <2>1. Good(server, 0) => server.closed \subseteq Fds /\ 0 \notin Fds
      BY FdsFinite DEF Good, Servers
    <2> QED BY <2>1 DEF Good, StaleIn, StaleEventsMissSessions
  <1> QED BY <1>1, GoodSafe, PTL

\* Nothing queued for one data connection is written to the one that replaces it.
THEOREM StreamsSafe == Spec => []StreamsSeparate
  <1>1. Good(server, 0) => StreamsSeparate
    BY DEF Good, SessionOK, StreamsSeparate
  <1> QED BY <1>1, GoodSafe, PTL
=============================================================================
