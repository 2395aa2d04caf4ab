--------------------------- MODULE ClientNetProofs ---------------------------
(***************************************************************************)
(* Theorems about the two parts of a client's network code that the room   *)
(* components build on: the password worker (AuthKdf) and the data channel *)
(* (DataChannel).  The two specifications share no variable.               *)
(*                                                                         *)
(* AuthInv is an inductive invariant of AuthKdf, for every set of          *)
(* passwords and every bound.  It gives the types, that a result that      *)
(* reaches the network thread is the current one, that an operation that   *)
(* waits has exactly one live request, and that no wakeup is lost.         *)
(*                                                                         *)
(* The data channel follows the room, and an established one is bound, for *)
(* any number of connections, sessions and faults.  ChannelSound is        *)
(* inductive as it stands.  Nearly every step of the client is one of two: *)
(* it gives up its socket, or it takes a free slot for a new one; two      *)
(* lemmas say so once.                                                     *)
(***************************************************************************)
EXTENDS AuthKdf, DataChannel, TLAPS

-----------------------------------------------------------------------------
(* The password worker *)

USE DEF ServerAuth, CreateRoomAuth, JoinRoomAuth, RoomAuths

\* KdfInit establishes the invariant: nothing is asked for and no worker runs.
LEMMA InitAuth == KdfInit => AuthInv
  BY AuthKdfAssumption
  DEF KdfInit, AuthInv, KdfTypeOK, OneLiveRequest, SecretsWiped, NoLostWakeup, Exists,
      Offline, Tasks, Workers, Signals, Phases, Requests, NoRequest, InHand

\* cancelLocked leaves a task of the right type with nothing alive in it.
LEMMA CancelledTask ==
  ASSUME NEW t \in Tasks
  PROVE  /\ Cancelled(t) \in Tasks
         /\ Cancelled(t).gen = t.gen + 1
         /\ ~Cancelled(t).queued /\ ~Cancelled(t).ready
         /\ Cancelled(t).request = NoRequest /\ Cancelled(t).result = NoRequest
         /\ Cancelled(t).stop = t.stop
  BY DEF Cancelled, Tasks

\* start leaves a task in which exactly the new request is alive, queued.
LEMMA QueuedTask ==
  ASSUME NEW t \in Tasks, NEW r \in Requests
  PROVE  /\ Queued(t, r) \in Tasks
         /\ Queued(t, r).gen = t.gen + 1
         /\ Queued(t, r).queued /\ ~Queued(t, r).ready
         /\ Queued(t, r).request = r /\ Queued(t, r).result = NoRequest
         /\ Queued(t, r).stop = t.stop
  BY CancelledTask DEF Queued, Tasks

\* start leaves a worker that will test its predicate again: it is created,
\* notified, or at work.
LEMMA WokenWorker ==
  ASSUME NEW w \in Workers
  PROVE  /\ Woken(w) \in Workers
         /\ Woken(w).gen = w.gen /\ Woken(w).request = w.request
         /\ Woken(w).pc \notin {"none", "asleep"}
         /\ Woken(w).pc = "done" <=> w.pc = "done"
         /\ Woken(w).pc \in {"hashing", "storing"} <=> w.pc \in {"hashing", "storing"}
  BY DEF Woken, Workers

\* A step of the network thread that cancels whatever is alive and leaves no
\* operation waiting keeps the invariant.
LEMMA CancelStep ==
  ASSUME AuthInv, task' = Cancelled(task), UNCHANGED <<worker, nextSalt>>,
         signal' \in Signals, signal'.op = 0, Exists, Exists',
         signal'.phase = "Challenged" => signal'.salt # 0
  PROVE  AuthInv'
<1>1. /\ task' \in Tasks /\ task'.gen = task.gen + 1 /\ task'.stop = task.stop
      /\ ~task'.queued /\ ~task'.ready
      /\ task'.request = NoRequest /\ task'.result = NoRequest
  BY CancelledTask DEF AuthInv, KdfTypeOK
<1>2. task.gen \in Nat /\ worker.gen \in Nat
  BY DEF AuthInv, KdfTypeOK, Tasks, Workers
<1>3. ~InHand'
  BY <1>1, <1>2 DEF AuthInv, InHand
<1>. QED
  BY <1>1, <1>2, <1>3
  DEF AuthInv, KdfTypeOK, OneLiveRequest, SecretsWiped, NoLostWakeup, Exists

\* A step of the network thread that starts a hash for the operation that now
\* waits keeps the invariant.
LEMMA StartTaskStep ==
  ASSUME AuthInv, NEW r \in Requests, task' = Queued(task, r), worker' = Woken(worker),
         nextSalt' \in 1 .. MaxSalt + 1, signal' \in Signals, Exists, Exists',
         signal'.op = r.op, signal'.salt = r.salt,
         r.op = ServerAuth => signal'.password = r.password,
         r.op = ServerAuth => signal'.phase = "Challenged",
         r.op \in RoomAuths => signal'.phase = "Secure"
  PROVE  AuthInv'
<1>1. /\ task' \in Tasks /\ task'.gen = task.gen + 1 /\ task'.stop = task.stop
      /\ task'.queued /\ ~task'.ready
      /\ task'.request = r /\ task'.result = NoRequest
  BY QueuedTask DEF AuthInv, KdfTypeOK
<1>2. /\ worker' \in Workers /\ worker'.gen = worker.gen
      /\ worker'.request = worker.request
      /\ worker'.pc \notin {"none", "asleep"}
      /\ worker'.pc = "done" <=> worker.pc = "done"
      /\ worker'.pc \in {"hashing", "storing"} <=> worker.pc \in {"hashing", "storing"}
  BY WokenWorker DEF AuthInv, KdfTypeOK
<1>3. task.gen \in Nat /\ worker.gen \in Nat
  BY DEF AuthInv, KdfTypeOK, Tasks, Workers
<1>4. ~InHand'
  BY <1>1, <1>2, <1>3 DEF AuthInv, InHand
<1>5. r.op # 0 /\ signal'.salt # 0
  BY DEF Requests
<1>6. Current(task.request)'
  BY <1>1 DEF Current
<1>7. OneLiveRequest'
  BY <1>1, <1>4, <1>5, <1>6 DEF OneLiveRequest
<1>8. SecretsWiped' /\ NoLostWakeup'
  BY <1>1, <1>2, <1>3 DEF AuthInv, SecretsWiped, NoLostWakeup, Exists
<1>. QED
  BY <1>1, <1>2, <1>3, <1>5, <1>7, <1>8 DEF AuthInv, KdfTypeOK, Exists

\* A step of the network thread that touches neither the task nor what the
\* waiting operation needs keeps the invariant.
LEMMA SignalStep ==
  ASSUME AuthInv, UNCHANGED <<task, worker>>, nextSalt' \in 1 .. MaxSalt + 1,
         signal' \in Signals, Exists, Exists', signal'.op = signal.op,
         signal.op # 0 => /\ signal'.salt = signal.salt
                          /\ signal'.phase = signal.phase,
         signal.op = ServerAuth => signal'.password = signal.password,
         signal'.phase = "Challenged" => signal'.salt # 0
  PROVE  AuthInv'
<1>1. InHand' <=> InHand
  BY DEF InHand
<1>2. OneLiveRequest'
  <2>1. CASE signal.op = 0
    BY <1>1, <2>1 DEF AuthInv, OneLiveRequest
  <2>2. CASE signal.op # 0
    BY <1>1, <2>2 DEF AuthInv, OneLiveRequest, Current
  <2>. QED
    BY <2>1, <2>2
<1>. QED
  BY <1>2 DEF AuthInv, KdfTypeOK, SecretsWiped, NoLostWakeup, Exists

\* The locked regions and the computation of the worker keep the invariant.
LEMMA WorkerStep ==
  AuthInv /\ (WorkerTake \/ SpuriousWake \/ WorkerHash \/ WorkerStore) => AuthInv'
<1>. SUFFICES ASSUME AuthInv,
                     WorkerTake \/ SpuriousWake \/ WorkerHash \/ WorkerStore
              PROVE  AuthInv'
  OBVIOUS
<1>0. /\ task \in Tasks /\ worker \in Workers
      /\ task.gen \in Nat /\ worker.gen \in Nat
      /\ signal.op = 0 \/ signal.op = ServerAuth \/ signal.op \in RoomAuths
      /\ task.stop => ~task.queued
  BY DEF AuthInv, KdfTypeOK, Tasks, Workers, Signals, Exists, OneLiveRequest
<1>1. CASE WorkerTake
  <2>0. UNCHANGED <<signal, nextSalt>> /\ worker.pc = "locking"
    BY <1>1 DEF WorkerTake
  <2>1. CASE MaySleep /\ worker' = [worker EXCEPT !.pc = "asleep"] /\ UNCHANGED task
    BY <1>0, <2>0, <2>1
    DEF MaySleep, AuthInv, KdfTypeOK, Workers, OneLiveRequest, SecretsWiped, NoLostWakeup,
        Exists, InHand, Current
  <2>2. CASE task.stop /\ worker' = [worker EXCEPT !.pc = "done"] /\ UNCHANGED task
    BY <1>0, <2>0, <2>2
    DEF AuthInv, KdfTypeOK, Workers, OneLiveRequest, SecretsWiped, NoLostWakeup,
        Exists, InHand, Current
  <2>3. CASE /\ ~task.stop /\ task.queued
             /\ worker' = [pc |-> "hashing", gen |-> task.gen, request |-> task.request]
             /\ task' = [task EXCEPT !.queued = FALSE, !.request = NoRequest]
    <3>1. /\ worker'.pc = "hashing" /\ worker'.gen = task.gen
          /\ worker'.request = task.request
          /\ task'.stop = task.stop /\ ~task'.queued /\ task'.ready = task.ready
          /\ task'.gen = task.gen
          /\ task'.request = NoRequest /\ task'.result = task.result
      BY <1>0, <2>3 DEF Tasks
    <3>2. worker' \in Workers
      BY <1>0, <2>3 DEF Workers, Tasks
    <3>3. task' \in Tasks
      BY <1>0, <2>3 DEF Tasks
    <3>4. OneLiveRequest'
      BY <2>0, <2>3, <3>1 DEF AuthInv, OneLiveRequest, InHand, Current
    <3>5. SecretsWiped' /\ NoLostWakeup'
      BY <2>0, <2>3, <3>1 DEF AuthInv, SecretsWiped, NoLostWakeup
    <3>. QED
      BY <1>0, <2>0, <3>1, <3>2, <3>3, <3>4, <3>5 DEF AuthInv, KdfTypeOK, Exists
  <2>. QED
    BY <1>1, <2>1, <2>2, <2>3 DEF WorkerTake
<1>2. CASE SpuriousWake
  BY <1>0, <1>2
  DEF SpuriousWake, AuthInv, KdfTypeOK, Workers, OneLiveRequest, SecretsWiped,
      NoLostWakeup, Exists, InHand, Current
<1>3. CASE WorkerHash
  BY <1>0, <1>3
  DEF WorkerHash, AuthInv, KdfTypeOK, Workers, OneLiveRequest, SecretsWiped, NoLostWakeup,
      Exists, InHand, Current
<1>4. CASE WorkerStore
  <2>0. /\ UNCHANGED <<signal, nextSalt>> /\ worker.pc = "storing"
        /\ worker' \in Workers /\ worker'.pc = "locking" /\ worker'.gen = 0
        /\ worker'.request = NoRequest
    BY <1>4 DEF WorkerStore, Workers
  <2>1. CASE Stores
    <3>1. task' = [task EXCEPT !.result = worker.request, !.ready = TRUE]
      BY <1>4, <2>1 DEF WorkerStore
    <3>2. /\ task'.stop = task.stop /\ task'.queued = task.queued /\ task'.ready
          /\ task'.gen = task.gen
          /\ task'.request = task.request /\ task'.result = worker.request
      BY <1>0, <3>1 DEF Tasks
    <3>3. task' \in Tasks
      BY <1>0, <3>1 DEF Tasks, Workers
    <3>4. signal.op # 0 /\ ~task.queued /\ ~task.ready /\ Current(worker.request)
      BY <2>0, <2>1 DEF AuthInv, OneLiveRequest, InHand, Stores
    <3>5. OneLiveRequest'
      BY <2>0, <3>2, <3>4 DEF OneLiveRequest, InHand, Current
    <3>6. SecretsWiped' /\ NoLostWakeup'
      BY <2>0, <3>2, <3>4 DEF AuthInv, SecretsWiped, NoLostWakeup
    <3>. QED
      BY <1>0, <2>0, <3>2, <3>3, <3>5, <3>6 DEF AuthInv, KdfTypeOK, Exists
  <2>2. CASE ~Stores
    <3>1. UNCHANGED task
      BY <1>4, <2>2 DEF WorkerStore
    <3>2. ~InHand
      BY <1>0, <2>0, <2>2
      DEF AuthInv, Stores, InHand, OneLiveRequest, Exists
    <3>3. ~InHand'
      BY <2>0 DEF InHand
    <3>4. OneLiveRequest'
      BY <2>0, <3>1, <3>2, <3>3 DEF AuthInv, OneLiveRequest, Current
    <3>5. SecretsWiped' /\ NoLostWakeup'
      BY <2>0, <3>1 DEF AuthInv, SecretsWiped, NoLostWakeup
    <3>. QED
      BY <1>0, <2>0, <3>1, <3>4, <3>5 DEF AuthInv, KdfTypeOK, Exists
  <2>. QED
    BY <2>1, <2>2
<1>. QED
  BY <1>1, <1>2, <1>3, <1>4

\* cancelRoomOperation keeps the invariant: a waiting room operation and its
\* request go together, a handshake in progress is not disturbed.
LEMMA CancelRoomStep ==
  ASSUME AuthInv, Exists, NEW block \in BOOLEAN, CancelRoomOperation(block),
         UNCHANGED <<worker, nextSalt>>
  PROVE  AuthInv'
<1>1. /\ signal' \in Signals
      /\ signal'.phase = signal.phase /\ signal'.salt = signal.salt
      /\ signal'.password = signal.password
      /\ signal'.op = IF signal.op \in RoomAuths THEN 0 ELSE signal.op
  BY DEF AuthInv, KdfTypeOK, Signals, CancelRoomOperation
<1>2. Exists'
  BY <1>1 DEF Exists
<1>3. CASE signal.op \in RoomAuths
  BY <1>1, <1>2, <1>3, CancelStep DEF CancelRoomOperation, AuthInv
<1>4. CASE signal.op \notin RoomAuths
  BY <1>1, <1>2, <1>4, SignalStep DEF CancelRoomOperation, AuthInv, KdfTypeOK
<1>. QED
  BY <1>3, <1>4

\* Every step keeps the invariant.
LEMMA NextAuth == AuthInv /\ [KdfNext]_kdfVars => AuthInv'
<1>. SUFFICES ASSUME AuthInv, [KdfNext]_kdfVars PROVE AuthInv'
  OBVIOUS
<1>0. /\ signal \in Signals /\ task \in Tasks /\ worker \in Workers
      /\ nextSalt \in 1 .. MaxSalt + 1 /\ MaxSalt \in Nat
  BY AuthKdfAssumption DEF AuthInv, KdfTypeOK
<1>1. CASE WorkerTake \/ SpuriousWake \/ WorkerHash \/ WorkerStore
  BY <1>1, WorkerStep
<1>2. CASE ConnectToServer
  <2>1. signal' \in Signals /\ signal'.op = 0 /\ Exists' /\ signal'.phase = "Hello"
    BY <1>0, <1>2 DEF ConnectToServer, Reset, Offline, Signals, Phases, Exists
  <2>. QED
    BY <1>2, <2>1, CancelStep DEF ConnectToServer, Reset
<1>3. CASE Disconnect
  <2>1. signal' \in Signals /\ signal'.op = 0 /\ Exists' /\ signal'.phase = "Off"
    BY <1>0, <1>3 DEF Disconnect, Reset, Offline, Signals, Phases, Exists
  <2>. QED
    BY <1>3, <2>1, CancelStep DEF Disconnect, Reset
<1>4. CASE OnServerHello
  <2>0. /\ nextSalt \in 1 .. MaxSalt /\ nextSalt \in 0 .. MaxSalt
        /\ nextSalt' \in 1 .. MaxSalt + 1
        /\ signal.op = 0 /\ Exists
    BY <1>0, <1>4 DEF OnServerHello, NewSalt, AuthInv, Signals, Exists
  <2>1. CASE signal.password # NoPassword
    <3>. DEFINE r == [op |-> ServerAuth, salt |-> nextSalt, password |-> signal.password]
    <3>1. signal' = [signal EXCEPT !.phase = "Challenged", !.salt = nextSalt,
                                   !.op = ServerAuth]
      BY <1>4, <2>1 DEF OnServerHello
    <3>2. r \in Requests
      BY <1>0, <2>0 DEF Requests, Signals
    <3>3. /\ signal' \in Signals /\ signal'.phase = "Challenged"
          /\ signal'.op = r.op /\ Exists'
      BY <1>0, <2>0, <3>1 DEF Signals, Phases, Exists
    <3>4. signal'.salt = r.salt /\ signal'.password = signal.password
      BY <1>0, <3>1 DEF Signals
    <3>5. task' = Queued(task, r) /\ worker' = Woken(worker)
      BY <1>4, <2>1 DEF OnServerHello, StartTask
    <3>. QED
      BY <2>0, <3>2, <3>3, <3>4, <3>5, StartTaskStep
  <2>2. CASE signal.password = NoPassword
    <3>1. /\ signal' = [signal EXCEPT !.phase = "Challenged", !.salt = nextSalt]
          /\ UNCHANGED <<task, worker>>
      BY <1>4, <2>2 DEF OnServerHello
    <3>2. signal' \in Signals /\ signal'.op = 0 /\ Exists'
      BY <1>0, <2>0, <3>1 DEF Signals, Phases, Exists
    <3>3. signal'.salt = nextSalt /\ nextSalt # 0
      BY <1>0, <2>0, <3>1 DEF Signals
    <3>. QED
      BY <2>0, <3>1, <3>2, <3>3, SignalStep
  <2>. QED
    BY <2>1, <2>2
<1>5. CASE ContinueServerAuth
  <2>. DEFINE r == [op |-> ServerAuth, salt |-> signal.salt, password |-> signal.password]
  <2>1. /\ signal' = [signal EXCEPT !.op = ServerAuth]
        /\ signal.phase = "Challenged" /\ UNCHANGED nextSalt
        /\ task' = Queued(task, r) /\ worker' = Woken(worker)
    BY <1>5 DEF ContinueServerAuth, StartTask
  <2>2. r \in Requests
    BY <1>0, <2>1 DEF Requests, Signals, AuthInv
  <2>3. /\ signal' \in Signals /\ signal'.phase = "Challenged"
        /\ signal'.op = r.op /\ Exists /\ Exists'
    BY <1>0, <2>1 DEF Signals, Exists
  <2>4. signal'.salt = r.salt /\ signal'.password = signal.password
    BY <1>0, <2>1 DEF Signals
  <2>. QED
    BY <1>0, <2>1, <2>2, <2>3, <2>4, StartTaskStep
<1>6. ASSUME NEW password \in Passwords \cup {NoPassword}, SetServerPassword(password)
      PROVE  AuthInv'
  <2>0. Exists /\ UNCHANGED <<worker, nextSalt>>
    BY <1>6 DEF SetServerPassword
  <2>1. CASE signal.op = ServerAuth
    <3>1. /\ signal' = [signal EXCEPT !.op = 0, !.password = password]
          /\ task' = Cancelled(task)
      BY <1>6, <2>1 DEF SetServerPassword
    <3>2. /\ signal' \in Signals /\ signal'.op = 0 /\ Exists'
          /\ signal'.phase = signal.phase /\ signal'.salt = signal.salt
      BY <1>0, <2>0, <3>1 DEF Signals, Exists
    <3>3. signal'.phase = "Challenged" => signal'.salt # 0
      BY <3>2 DEF AuthInv
    <3>. QED
      BY <2>0, <3>1, <3>2, <3>3, CancelStep
  <2>2. CASE signal.op # ServerAuth /\ signal.phase = "Proved"
    <3>1. signal' = Offline("Off", password) /\ task' = Cancelled(task)
      BY <1>6, <2>2 DEF SetServerPassword, Reset
    <3>2. signal' \in Signals /\ signal'.op = 0 /\ Exists' /\ signal'.phase = "Off"
      BY <1>0, <3>1 DEF Offline, Signals, Phases, Exists
    <3>. QED
      BY <2>0, <3>1, <3>2, CancelStep
  <2>3. CASE signal.op # ServerAuth /\ signal.phase # "Proved"
    <3>1. signal' = [signal EXCEPT !.password = password] /\ UNCHANGED task
      BY <1>6, <2>3 DEF SetServerPassword
    <3>2. /\ signal' \in Signals /\ signal'.op = signal.op
          /\ signal'.salt = signal.salt /\ signal'.phase = signal.phase /\ Exists'
      BY <1>0, <2>0, <3>1 DEF Signals, Exists
    <3>3. signal'.phase = "Challenged" => signal'.salt # 0
      BY <3>2 DEF AuthInv
    <3>. QED
      BY <1>0, <2>0, <2>3, <3>1, <3>2, <3>3, SignalStep
  <2>. QED
    BY <2>1, <2>2, <2>3
<1>7. CASE OnServerAuthOk
  <2>1. /\ signal' = [signal EXCEPT !.phase = "Secure"] /\ signal.phase = "Proved"
        /\ UNCHANGED <<task, worker, nextSalt>>
    BY <1>7 DEF OnServerAuthOk
  <2>2. signal.op = 0 /\ Exists
    BY <1>0, <2>1 DEF AuthInv, Signals, Exists
  <2>3. signal' \in Signals /\ signal'.op = signal.op /\ Exists'
    BY <1>0, <2>1 DEF Signals, Phases, Exists
  <2>. QED
    BY <1>0, <2>1, <2>2, <2>3, SignalStep
<1>8. CASE CreateRoom \/ JoinRoom \/ \E joined \in BOOLEAN : OnRoomResponse(joined)
  <2>1. /\ signal' \in Signals /\ signal'.op = signal.op /\ signal'.salt = signal.salt
        /\ signal'.phase = signal.phase /\ signal'.password = signal.password
        /\ signal.phase = "Secure"
        /\ UNCHANGED <<task, worker, nextSalt>>
    BY <1>0, <1>8 DEF CreateRoom, JoinRoom, MayStartRoom, OnRoomResponse, Signals
  <2>2. Exists /\ Exists'
    BY <2>1 DEF Exists
  <2>. QED
    BY <1>0, <2>1, <2>2, SignalStep
<1>9. CASE CreateProtectedRoom
  <2>. DEFINE r == [op |-> CreateRoomAuth, salt |-> nextSalt, password |-> NoPassword]
  <2>0. /\ nextSalt \in 1 .. MaxSalt /\ nextSalt \in 0 .. MaxSalt
        /\ nextSalt' \in 1 .. MaxSalt + 1
        /\ signal.phase = "Secure"
        /\ signal' = [signal EXCEPT !.blocked = FALSE, !.room = TRUE, !.salt = nextSalt,
                                    !.op = CreateRoomAuth]
        /\ task' = Queued(task, r) /\ worker' = Woken(worker)
    BY <1>0, <1>9 DEF CreateProtectedRoom, MayStartRoom, NewSalt, StartTask
  <2>1. r \in Requests
    BY <2>0 DEF Requests
  <2>2. /\ signal' \in Signals /\ signal'.phase = "Secure"
        /\ signal'.op = r.op /\ Exists /\ Exists'
    BY <1>0, <2>0 DEF Signals, Exists
  <2>3. signal'.salt = r.salt /\ signal'.password = signal.password
    BY <1>0, <2>0 DEF Signals
  <2>. QED
    BY <2>0, <2>1, <2>2, <2>3, StartTaskStep
<1>10. CASE OnAuthChallenge
  <2>. DEFINE r == [op |-> JoinRoomAuth, salt |-> nextSalt, password |-> NoPassword]
  <2>0. /\ nextSalt \in 1 .. MaxSalt /\ nextSalt \in 0 .. MaxSalt
        /\ nextSalt' \in 1 .. MaxSalt + 1
        /\ signal.phase = "Secure"
        /\ signal' = [signal EXCEPT !.join = FALSE, !.salt = nextSalt, !.op = JoinRoomAuth]
        /\ task' = Queued(task, r) /\ worker' = Woken(worker)
    BY <1>0, <1>10 DEF OnAuthChallenge, NewSalt, StartTask
  <2>1. r \in Requests
    BY <2>0 DEF Requests
  <2>2. /\ signal' \in Signals /\ signal'.phase = "Secure"
        /\ signal'.op = r.op /\ Exists /\ Exists'
    BY <1>0, <2>0 DEF Signals, Exists
  <2>3. signal'.salt = r.salt /\ signal'.password = signal.password
    BY <1>0, <2>0 DEF Signals
  <2>. QED
    BY <2>0, <2>1, <2>2, <2>3, StartTaskStep
<1>11. ASSUME NEW general \in BOOLEAN, OnError(general)
       PROVE  AuthInv'
  <2>0. Exists /\ signal.phase = "Secure" /\ UNCHANGED <<worker, nextSalt>>
    BY <1>11 DEF OnError, Exists
  <2>1. CASE signal.room /\ general
    <3>1. signal' = [signal EXCEPT !.blocked = TRUE] /\ UNCHANGED task
      BY <1>11, <2>1 DEF OnError
    <3>2. /\ signal' \in Signals /\ signal'.op = signal.op
          /\ signal'.salt = signal.salt /\ signal'.phase = signal.phase
          /\ signal'.password = signal.password /\ Exists'
      BY <1>0, <2>0, <3>1 DEF Signals, Exists
    <3>. QED
      BY <1>0, <2>0, <3>1, <3>2, SignalStep
  <2>2. CASE ~(signal.room /\ general)
    BY <1>11, <2>0, <2>2, CancelRoomStep DEF OnError
  <2>. QED
    BY <2>1, <2>2
<1>12. CASE AbandonRoomOperation
  BY <1>12, CancelRoomStep DEF AbandonRoomOperation
<1>13. ASSUME NEW success \in BOOLEAN, PollAuthTask(success)
       PROVE  AuthInv'
  <2>0. Exists /\ task.ready /\ UNCHANGED <<worker, nextSalt>>
    BY <1>13 DEF PollAuthTask
  <2>1. signal.op # 0 /\ ~task.queued /\ ~InHand
    BY <2>0 DEF AuthInv, OneLiveRequest
  <2>2. CASE success
    <3>1. /\ task' = [task EXCEPT !.ready = FALSE, !.result = NoRequest]
          /\ signal' = [signal EXCEPT !.op = 0,
               !.phase = IF signal.op = ServerAuth THEN "Proved" ELSE @]
      BY <1>13, <2>2 DEF PollAuthTask
    <3>2. /\ task' \in Tasks /\ task'.stop = task.stop /\ ~task'.queued /\ ~task'.ready
          /\ task'.gen = task.gen /\ task'.request = task.request
          /\ task'.result = NoRequest
      BY <1>0, <2>1, <3>1 DEF Tasks
    <3>3. /\ signal' \in Signals /\ signal'.op = 0 /\ signal'.salt = signal.salt
          /\ signal'.phase = IF signal.op = ServerAuth THEN "Proved" ELSE signal.phase
      BY <1>0, <3>1 DEF Signals, Phases
    <3>4. Exists' /\ ~InHand'
      BY <2>0, <2>1, <3>2, <3>3 DEF Exists, InHand
    <3>5. OneLiveRequest' /\ SecretsWiped' /\ NoLostWakeup'
      BY <2>0, <2>1, <3>2, <3>3, <3>4
      DEF AuthInv, OneLiveRequest, SecretsWiped, NoLostWakeup, Exists
    <3>. QED
      BY <1>0, <2>0, <3>2, <3>3, <3>4, <3>5 DEF AuthInv, KdfTypeOK
  <2>3. CASE ~success
    <3>1. signal' = Offline("Off", signal.password) /\ task' = Cancelled(task)
      BY <1>13, <2>1, <2>3 DEF PollAuthTask, Reset
    <3>2. signal' \in Signals /\ signal'.op = 0 /\ Exists' /\ signal'.phase = "Off"
      BY <1>0, <3>1 DEF Offline, Signals, Phases, Exists
    <3>. QED
      BY <2>0, <3>1, <3>2, CancelStep
  <2>. QED
    BY <2>2, <2>3
<1>14. CASE BeginDestroy
  <2>1. /\ signal' = [signal EXCEPT !.phase = "Stopping"] /\ signal.phase = "Off"
        /\ task' = [Cancelled(task) EXCEPT !.stop = TRUE]
        /\ UNCHANGED <<worker, nextSalt>>
    BY <1>14 DEF BeginDestroy
  <2>2. /\ signal' \in Signals /\ signal'.op = 0 /\ signal'.phase = "Stopping"
        /\ Exists
    BY <1>0, <2>1 DEF AuthInv, Signals, Phases, Exists
  <2>3. /\ task' \in Tasks /\ task'.gen = task.gen + 1 /\ task'.stop
        /\ ~task'.queued /\ ~task'.ready
        /\ task'.request = NoRequest /\ task'.result = NoRequest
    BY <1>0, <2>1, CancelledTask DEF Tasks
  <2>4. task.gen \in Nat /\ worker.gen \in Nat
    BY <1>0 DEF Tasks, Workers
  <2>5. ~InHand'
    BY <2>1, <2>3, <2>4 DEF AuthInv, InHand
  <2>. QED
    BY <1>0, <2>1, <2>2, <2>3, <2>4, <2>5
    DEF AuthInv, KdfTypeOK, OneLiveRequest, SecretsWiped, NoLostWakeup, Exists
<1>15. CASE NotifyStop
  <2>1. /\ signal' = [signal EXCEPT !.phase = "Joining"] /\ signal.phase = "Stopping"
        /\ UNCHANGED <<task, nextSalt>>
        /\ worker' = IF worker.pc = "asleep" THEN [worker EXCEPT !.pc = "locking"]
                                             ELSE worker
    BY <1>15 DEF NotifyStop
  <2>2. /\ signal' \in Signals /\ signal'.op = signal.op /\ signal'.phase = "Joining"
        /\ signal.op = 0 /\ ~Exists
    BY <1>0, <2>1 DEF AuthInv, Signals, Phases, Exists
  <2>3. /\ worker' \in Workers /\ worker'.gen = worker.gen
        /\ worker'.request = worker.request /\ worker'.pc # "asleep"
        /\ worker'.pc \in {"hashing", "storing"} <=> worker.pc \in {"hashing", "storing"}
        /\ worker'.pc = "done" => worker.pc = "done"
    BY <1>0, <2>1 DEF Workers
  <2>4. ~InHand' /\ ~task.queued /\ ~task.ready
    BY <2>1, <2>2, <2>3 DEF AuthInv, OneLiveRequest, InHand
  <2>. QED
    BY <1>0, <2>1, <2>2, <2>3, <2>4
    DEF AuthInv, KdfTypeOK, OneLiveRequest, SecretsWiped, NoLostWakeup, Exists
<1>16. CASE UNCHANGED kdfVars
  BY <1>16
  DEF kdfVars, AuthInv, KdfTypeOK, OneLiveRequest, SecretsWiped, NoLostWakeup, Exists,
      InHand, Current
<1>. QED
  BY <1>1, <1>2, <1>3, <1>4, <1>5, <1>6, <1>7, <1>8, <1>9, <1>10, <1>11, <1>12, <1>13,
     <1>14, <1>15, <1>16
  DEF KdfNext, Finished

-----------------------------------------------------------------------------
(* The theorems about the password worker *)

\* AuthInv, the inductive invariant of the task, its worker and SignalClient,
\* holds in every reachable state.
THEOREM AuthSafe == KdfSpec => []AuthInv
  BY InitAuth, NextAuth, PTL DEF KdfSpec

\* A hash that reaches pollAuthTask was derived for the operation that waits,
\* with the salt and the password the client holds now.
THEOREM ResultSafe == KdfSpec => []ResultCurrent
<1>1. AuthInv => ResultCurrent
  BY DEF AuthInv, OneLiveRequest, ResultCurrent
<1>. QED
  BY <1>1, AuthSafe, PTL

\* An operation that waits for a hash has exactly one live request, and it is
\* the current one; a cancelled operation has none.
THEOREM LiveRequestSafe == KdfSpec => []OneLiveRequest
<1>1. AuthInv => OneLiveRequest
  BY DEF AuthInv
<1>. QED
  BY <1>1, AuthSafe, PTL

\* No wakeup of the worker is lost, by start() or by the destructor.
THEOREM WakeupSafe == KdfSpec => []NoLostWakeup
<1>1. AuthInv => NoLostWakeup
  BY DEF AuthInv
<1>. QED
  BY <1>1, AuthSafe, PTL

-----------------------------------------------------------------------------
(* The data channel: the two steps of the socket *)

HIDE DEF ServerAuth, CreateRoomAuth, JoinRoomAuth, RoomAuths

\* The types of the fields of the client's record.
LEMMA ChannelFields ==
  ASSUME NEW c \in Channels
  PROVE  /\ c.sock \in {"none", "connecting", "connected"}
         /\ c.link \in Links \cup {NoLink}
         /\ c.peer \in BOOLEAN /\ c.est \in BOOLEAN /\ c.timer \in BOOLEAN
         /\ c.session \in 0 .. MaxSessions
         /\ c.failing \in BOOLEAN /\ c.unable \in BOOLEAN
  BY DEF Channels

\* Closing the socket leaves the connections as the server has them.
LEMMA CloseFields ==
  ASSUME TypeOK
  PROVE  /\ CloseSocket(net) \in [Links -> Connections]
         /\ \A k \in Links :
              /\ CloseSocket(net)[k].open = FALSE
              /\ CloseSocket(net)[k].server = net[k].server
              /\ CloseSocket(net)[k].ack = net[k].ack
  <1>1. net \in [Links -> Connections] /\ ch.link \in Links \cup {NoLink}
    BY DEF TypeOK, Channels
  <1>2. {k \in Links : net[k].open} = {ch.link} \ {NoLink}
    BY DEF TypeOK
  <1>3. CASE ch.link = NoLink
    <2>1. \A k \in Links : ~net[k].open
      BY <1>2, <1>3
    <2>2. \A k \in Links : net[k].open \in BOOLEAN
      BY <1>1 DEF Connections
    <2>3. \A k \in Links : net[k].open = FALSE
      BY <2>1, <2>2, Zenon
    <2>4. CloseSocket(net) = net
      BY <1>3 DEF CloseSocket
    <2>5. net \in [Links -> Connections]
      BY <1>1
    <2>6. \A k \in Links : /\ net[k].open = FALSE
                           /\ net[k].server = net[k].server
                           /\ net[k].ack = net[k].ack
      BY <2>3, Zenon
    <2> QED BY <2>4, <2>5, <2>6, Zenon
  <1>4. CASE ch.link # NoLink
    <2>1. net[ch.link] \in Connections
      BY <1>1, <1>4
    <2>2. PICK r : r = [net[ch.link] EXCEPT !.open = FALSE]
      OBVIOUS
    <2>3. /\ r \in Connections /\ r.open = FALSE
          /\ r.server = net[ch.link].server /\ r.ack = net[ch.link].ack
      BY <2>1, <2>2 DEF Connections
    <2>4. CloseSocket(net) = [net EXCEPT ![ch.link] = r]
      BY <1>1, <1>4, <2>2 DEF CloseSocket
    <2>5. CloseSocket(net) \in [Links -> Connections]
      BY <1>1, <1>4, <2>3, <2>4
    <2>6. ASSUME NEW k \in Links
          PROVE  /\ CloseSocket(net)[k].open = FALSE
                 /\ CloseSocket(net)[k].server = net[k].server
                 /\ CloseSocket(net)[k].ack = net[k].ack
      <3>1. CASE k = ch.link
        <4>1. CloseSocket(net)[k] = r
          BY <1>1, <2>4, <3>1
        <4> QED BY <2>3, <3>1, <4>1
      <3>2. CASE k # ch.link
        <4>1. CloseSocket(net)[k] = net[k]
          BY <1>1, <2>4, <3>2
        <4>2. ~net[k].open
          BY <1>2, <3>2
        <4>3. net[k].open \in BOOLEAN
          BY <1>1 DEF Connections
        <4>4. net[k].open = FALSE
          BY <4>2, <4>3, Zenon
        <4> QED BY <4>1, <4>4, Zenon
      <3> QED BY <3>1, <3>2
    <2> QED BY <2>5, <2>6
  <1> QED BY <1>3, <1>4

\* A step that gives up the socket keeps ChannelSound when it leaves the
\* channel unconnected, and to be tried again if it is wanted.
LEMMA GivingUp ==
  ASSUME ChannelSound,
         kind' = kind, server' = server, net' = CloseSocket(net),
         faults' \in 0 .. MaxFaults, ch' \in Channels,
         ch'.sock = "none", ch'.link = NoLink,
         ch'.est => ch'.session = 0 /\ ch'.peer,
         ch'.failing => ch'.peer,
         ch'.timer => ch'.peer,
         ch'.peer /\ ch'.session # 0 => ch'.timer \/ ch'.unable
  PROVE  ChannelSound'
  <1>1. TypeOK
    BY DEF ChannelSound, EstablishedBound
  <1>2. /\ net' \in [Links -> Connections]
        /\ \A k \in Links : /\ net'[k].open = FALSE
                            /\ net'[k].server = net[k].server
                            /\ net'[k].ack = net[k].ack
    BY <1>1, CloseFields
  <1>3. TypeOK'
    BY <1>1, <1>2 DEF TypeOK
  <1>4. EndsAgree'
    BY <1>2 DEF ChannelSound, EndsAgree
  <1>5. FollowsRoom'
    BY DEF FollowsRoom, NotStranded, StopIsFinal
  <1>6. EstablishedBound'
    BY <1>3 DEF EstablishedBound, IsConnected
  <1> QED BY <1>4, <1>5, <1>6 DEF ChannelSound

\* A step that dials keeps ChannelSound, whether it takes a slot or fails.
LEMMA Dialling ==
  ASSUME ChannelSound, NEW c \in Channels,
         c.sock = "none", c.link = NoLink, c.peer = TRUE, c.session = ch.session, ch.session # 0,
         ch.sock = "none",
         Dial(c), kind' = kind, server' = server
  PROVE  ChannelSound'
  <1>1. TypeOK /\ EndsAgree /\ faults \in 0 .. MaxFaults
    BY DEF ChannelSound, EstablishedBound, TypeOK
  <1>2. CASE \E k \in Links :
               /\ Free(k)
               /\ ch' = [c EXCEPT !.sock = "connecting", !.link = k, !.est = FALSE,
                                  !.timer = FALSE, !.unable = FALSE]
               /\ net' = [net EXCEPT ![k] = [Unused EXCEPT !.open = TRUE]]
               /\ NoFault
    <2>1. PICK k \in Links :
               /\ Free(k)
               /\ ch' = [c EXCEPT !.sock = "connecting", !.link = k, !.est = FALSE,
                                  !.timer = FALSE, !.unable = FALSE]
               /\ net' = [net EXCEPT ![k] = [Unused EXCEPT !.open = TRUE]]
               /\ NoFault
      BY <1>2
    <2>2. /\ ch' \in Channels /\ ch'.sock = "connecting" /\ ch'.link = k
          /\ ch'.est = FALSE /\ ch'.timer = FALSE /\ ch'.peer = c.peer
          /\ ch'.session = c.session /\ ch'.failing = c.failing
      BY <2>1 DEF Channels
    <2>3. /\ net \in [Links -> Connections] /\ k # NoLink
          /\ server \in [session : 0 .. MaxSessions, last : 0 .. MaxSessions,
                         bound : Links \cup {NoLink}]
          /\ ch.link = NoLink
          /\ {q \in Links : net[q].open} = {ch.link} \ {NoLink}
      BY <1>1, ChannelAssumption DEF TypeOK
    <2>4. /\ net' \in [Links -> Connections]
          /\ net'[k].open = TRUE /\ net'[k].server = "none"
          /\ net'[k].init = 0 /\ net'[k].ack = FALSE
          /\ \A q \in Links \ {k} : net'[q] = net[q]
      <3>1. PICK r : r = [Unused EXCEPT !.open = TRUE]
        OBVIOUS
      <3>2. r = [open |-> TRUE, server |-> "none", init |-> 0, ack |-> FALSE,
                 stalled |-> FALSE]
        BY <3>1 DEF Unused
      <3>3. /\ r \in Connections /\ r.open = TRUE /\ r.server = "none"
            /\ r.init = 0 /\ r.ack = FALSE
        BY <3>2, ChannelAssumption DEF Connections
      <3>4. net' = [net EXCEPT ![k] = r]
        BY <2>1, <3>1
      <3> QED BY <2>3, <3>3, <3>4
    <2>5. {q \in Links : net'[q].open} = {ch'.link} \ {NoLink}
      BY <2>2, <2>3, <2>4
    <2>6. TypeOK'
      BY <1>1, <2>1, <2>2, <2>3, <2>4, <2>5 DEF TypeOK, NoFault
    <2>7. server.bound # k
      BY <1>1, <2>1, <2>3 DEF EndsAgree, Free
    <2>8. EndsAgree'
      BY <1>1, <2>2, <2>3, <2>4, <2>7 DEF EndsAgree
    <2>9. FollowsRoom'
      BY <2>2 DEF FollowsRoom, NotStranded, StopIsFinal
    <2>10. EstablishedBound'
      BY <2>2, <2>6 DEF EstablishedBound, IsConnected
    <2> QED BY <2>8, <2>9, <2>10 DEF ChannelSound
  <1>3. CASE Fault /\ kind = "cli" /\ UNCHANGED net
             /\ ch' = [c EXCEPT !.est = FALSE, !.timer = FALSE, !.unable = TRUE]
    <2>1. /\ ch' \in Channels /\ ch'.sock = "none" /\ ch'.link = NoLink
          /\ ch'.est = FALSE /\ ch'.timer = FALSE /\ ch'.peer = c.peer
          /\ ch'.unable = TRUE
      BY <1>3 DEF Channels
    <2>2. faults' \in 0 .. MaxFaults
      BY <1>1, <1>3, ChannelAssumption DEF Fault
    <2>3. net' = CloseSocket(net)
      BY <1>1, <1>3 DEF TypeOK, CloseSocket
    <2> QED BY <2>1, <2>2, <2>3, GivingUp
  <1> QED BY <1>2, <1>3 DEF Dial

-----------------------------------------------------------------------------
(* The data channel: the steps of the client *)

\* What each step may use of ChannelSound.
LEMMA SoundFacts ==
  ASSUME ChannelSound
  PROVE  /\ TypeOK /\ EndsAgree
         /\ kind \in {"gui", "cli"} /\ ch \in Channels /\ faults \in 0 .. MaxFaults
         /\ net \in [Links -> Connections]
         /\ server \in [session : 0 .. MaxSessions, last : 0 .. MaxSessions,
                        bound : Links \cup {NoLink}]
         /\ ch.link \in Links \cup {NoLink}
         /\ (ch.sock = "none") = (ch.link = NoLink)
         /\ ~ch.peer => ch.sock = "none" /\ ~ch.timer /\ ~ch.est
         /\ ch.peer /\ ch.session # 0 /\ ch.sock = "none" => ch.timer \/ ch.unable
  BY DEF ChannelSound, EstablishedBound, TypeOK, Channels, FollowsRoom,
         NotStranded, StopIsFinal

\* A fault is counted, and nothing else is.
LEMMA FaultBound ==
  ASSUME faults \in 0 .. MaxFaults, Fault \/ NoFault
  PROVE  faults' \in 0 .. MaxFaults
  BY ChannelAssumption DEF Fault, NoFault

\* onSocketDisconnected and onSocketError give up the socket and keep the rest.
LEMMA DroppedFields ==
  ASSUME NEW c \in Channels
  PROVE  /\ Dropped(c) \in Channels
         /\ Dropped(c).sock = "none" /\ Dropped(c).link = NoLink
         /\ Dropped(c).est = FALSE /\ Dropped(c).timer = (c.timer \/ c.peer)
         /\ Dropped(c).peer = c.peer /\ Dropped(c).failing = c.failing
         /\ Dropped(c).session = c.session /\ Dropped(c).unable = c.unable
  <1>1. (c.timer \/ c.peer) \in BOOLEAN
    BY Zenon
  <1>2. PICK t \in BOOLEAN : t = (c.timer \/ c.peer)
    BY <1>1
  <1>3. Dropped(c) = [c EXCEPT !.sock = "none", !.link = NoLink, !.est = FALSE, !.timer = t]
    BY <1>2 DEF Dropped, Unconnected, Channels
  <1> HIDE DEF Dropped
  <1> QED BY <1>2, <1>3 DEF Channels

\* disconnect gives up the socket and everything that would revive it.
LEMMA StoppedFields ==
  ASSUME NEW c \in Channels
  PROVE  /\ Stopped(c) \in Channels
         /\ Stopped(c).sock = "none" /\ Stopped(c).link = NoLink
         /\ Stopped(c).est = FALSE /\ Stopped(c).timer = FALSE
         /\ Stopped(c).peer = FALSE /\ Stopped(c).failing = FALSE
  BY DEF Stopped, Unconnected, Channels

\* A connection that breaks, whatever the reason.
LEMMA Dropping ==
  ASSUME ChannelSound, ch' = Dropped(ch), net' = CloseSocket(net),
         Fault \/ NoFault, kind' = kind, server' = server
  PROVE  ChannelSound'
  <1>1. ch \in Channels /\ faults' \in 0 .. MaxFaults
    BY SoundFacts, FaultBound
  <1>2. ch.failing => ch.peer
    BY SoundFacts DEF EndsAgree
  <1>3. ch.timer => ch.peer
    BY SoundFacts, Zenon
  <1>4. /\ ch' \in Channels /\ ch'.sock = "none" /\ ch'.link = NoLink
        /\ ch'.est = FALSE /\ ch'.timer = (ch.timer \/ ch.peer)
        /\ ch'.peer = ch.peer /\ ch'.failing = ch.failing
    BY <1>1, DroppedFields
  <1> QED BY <1>1, <1>2, <1>3, <1>4, GivingUp

\* A room that is ready dials, from a channel that is not wanted yet.
LEMMA StartStep ==
  ASSUME ChannelSound, Start
  PROVE  ChannelSound'
  <1> DEFINE c == [ch EXCEPT !.peer = TRUE]
  <1>1. ch \in Channels /\ ch.sock = "none" /\ ch.link = NoLink
    BY SoundFacts DEF Start
  <1>2. /\ c \in Channels /\ c.sock = "none" /\ c.link = NoLink
        /\ c.peer = TRUE /\ c.session = ch.session
    BY <1>1 DEF Channels
  <1>3. Dial(c) /\ kind' = kind /\ server' = server /\ ch.session # 0
    BY DEF Start
  <1> HIDE DEF c
  <1> QED BY <1>1, <1>2, <1>3, Dialling

\* The timer dials again, or finds nothing to do.
LEMMA ReconnectTimerStep ==
  ASSUME ChannelSound, ReconnectTimer
  PROVE  ChannelSound'
  <1> DEFINE c == [ch EXCEPT !.timer = FALSE]
  <1>0. kind' = kind /\ server' = server
    BY DEF ReconnectTimer
  <1>1. ch \in Channels
    BY SoundFacts
  <1>2. /\ c \in Channels /\ c.sock = ch.sock /\ c.link = ch.link
        /\ c.peer = ch.peer /\ c.session = ch.session /\ c.est = ch.est
        /\ c.timer = FALSE /\ c.failing = ch.failing /\ c.unable = ch.unable
    BY <1>1 DEF Channels
  <1>3. CASE ch.peer /\ ch.sock = "none" /\ ch.session # 0
    <2>1. Dial(c)
      BY <1>3 DEF ReconnectTimer
    <2>2. ch.link = NoLink
      BY <1>3, SoundFacts
    <2>3. c.peer = TRUE
      <3>1. ch.peer \in BOOLEAN
        BY <1>1, ChannelFields
      <3> HIDE DEF c
      <3> QED BY <1>2, <1>3, <3>1, Zenon
    <2> HIDE DEF c
    <2> QED BY <1>0, <1>2, <1>3, <2>1, <2>2, <2>3, Dialling
  <1>4. CASE ~(ch.peer /\ ch.sock = "none" /\ ch.session # 0)
    <2>1. ch' = c /\ faults' = faults /\ net' = net
      BY <1>4 DEF ReconnectTimer, NoFault
    <2> HIDE DEF c
    <2>2. TypeOK'
      BY SoundFacts, <1>0, <1>2, <2>1 DEF TypeOK
    <2>3. EndsAgree'
      BY SoundFacts, <1>0, <1>2, <2>1 DEF EndsAgree
    <2>4. FollowsRoom'
      BY SoundFacts, <1>2, <1>4, <2>1 DEF FollowsRoom, NotStranded, StopIsFinal
    <2>5. EstablishedBound'
      BY <1>0, <1>2, <2>1, <2>2 DEF ChannelSound, EstablishedBound, IsConnected
    <2> QED BY <2>3, <2>4, <2>5 DEF ChannelSound
  <1> QED BY <1>3, <1>4

\* A cipher that cannot go on gives up the socket and the session.
LEMMA ExhaustedKeeps ==
  ASSUME ChannelSound, Exhausted, Fault, kind' = kind, server' = server
  PROVE  ChannelSound'
  <1>1. ch \in Channels /\ faults' \in 0 .. MaxFaults /\ kind \in {"gui", "cli"}
    BY SoundFacts, FaultBound
  <1>2. net' = CloseSocket(net)
    BY DEF Exhausted
  <1>3. 0 \in 0 .. MaxSessions
    BY ChannelAssumption
  <1>4. CASE kind = "gui"
    <2>1. PICK s \in Channels : s = Stopped(ch) /\ s.sock = "none" /\ s.link = NoLink
                                /\ s.est = FALSE /\ s.timer = FALSE
                                /\ s.peer = FALSE /\ s.failing = FALSE
      BY <1>1, StoppedFields
    <2>2. ch' = [s EXCEPT !.session = 0]
      BY <1>4, <2>1 DEF Exhausted
    <2>3. /\ ch' \in Channels /\ ch'.sock = "none" /\ ch'.link = NoLink
          /\ ch'.est = FALSE /\ ch'.timer = FALSE
          /\ ch'.peer = FALSE /\ ch'.failing = FALSE
      BY <1>3, <2>1, <2>2 DEF Channels
    <2> QED BY <1>1, <1>2, <2>3, GivingUp
  <1>5. CASE kind = "cli"
    <2>1. ch' = [ch EXCEPT !.sock = "none", !.link = NoLink, !.session = 0]
      BY <1>5 DEF Exhausted
    <2>2. /\ ch' \in Channels /\ ch'.sock = "none" /\ ch'.link = NoLink
          /\ ch'.session = 0 /\ ch'.peer = ch.peer /\ ch'.est = ch.est
          /\ ch'.timer = ch.timer /\ ch'.failing = ch.failing
      BY <1>1, <1>3, <2>1 DEF Channels
    <2>3. (ch.est => ch.peer) /\ (ch.timer => ch.peer)
      BY SoundFacts, Zenon
    <2>4. ch.failing => ch.peer
      BY SoundFacts DEF EndsAgree
    <2> QED BY <1>1, <1>2, <2>2, <2>3, <2>4, GivingUp
  <1> QED BY <1>1, <1>4, <1>5

\* INIT is sent on a connection that the server has accepted.
LEMMA ConnectedStep ==
  ASSUME ChannelSound, Connected
  PROVE  ChannelSound'
  <1>1. CASE Fault /\ Exhausted
    BY <1>1, ExhaustedKeeps DEF Connected
  <1>2. CASE /\ ch' = [ch EXCEPT !.sock = "connected"]
             /\ net' = [net EXCEPT ![ch.link].server = "pending",
                                   ![ch.link].init = ch.session]
             /\ NoFault
    <2>1. /\ ch.sock = "connecting" /\ ch.link \in Links /\ ch.link # NoLink
          /\ kind' = kind /\ server' = server /\ faults' = faults
      BY <1>2, SoundFacts DEF Connected, NoFault
    <2>2. /\ ch \in Channels /\ net \in [Links -> Connections]
          /\ net[ch.link] \in Connections /\ ch.session \in 0 .. MaxSessions
      BY <2>1, SoundFacts, ChannelFields
    <2>3. /\ ch' \in Channels /\ ch'.sock = "connected" /\ ch'.link = ch.link
          /\ ch'.est = ch.est /\ ch'.timer = ch.timer /\ ch'.peer = ch.peer
          /\ ch'.session = ch.session /\ ch'.failing = ch.failing
      BY <1>2, <2>2 DEF Channels
    <2>4. PICK r : r = [net[ch.link] EXCEPT !.server = "pending", !.init = ch.session]
      OBVIOUS
    <2>5. /\ r \in Connections /\ r.open = net[ch.link].open /\ r.server = "pending"
          /\ r.init = ch.session /\ r.ack = net[ch.link].ack
      BY <2>2, <2>4 DEF Connections
    <2>6. net' = [net EXCEPT ![ch.link] = r]
      BY <1>2, <2>1, <2>2, <2>4
    <2>7. /\ net' \in [Links -> Connections] /\ net'[ch.link] = r
          /\ \A q \in Links : q # ch.link => net'[q] = net[q]
      BY <2>1, <2>2, <2>5, <2>6
    <2>8. \A q \in Links : net'[q].open = net[q].open
      BY <2>5, <2>7
    <2>9. ~ch.est
      BY <2>1, SoundFacts DEF EndsAgree
    <2>10. net[ch.link].server = "none" /\ ~net[ch.link].ack /\ server.bound # ch.link
      BY <2>1, SoundFacts DEF EndsAgree
    <2>11. TypeOK'
      BY <2>1, <2>3, <2>7, <2>8, SoundFacts DEF TypeOK
    <2>12. EndsAgree'
      BY <2>1, <2>3, <2>5, <2>7, <2>9, <2>10, SoundFacts DEF EndsAgree
    <2>13. FollowsRoom'
      BY <2>1, <2>3, SoundFacts DEF FollowsRoom, NotStranded, StopIsFinal
    <2>14. EstablishedBound'
      BY <2>3, <2>9, <2>11 DEF EstablishedBound, IsConnected
    <2> QED BY <2>12, <2>13, <2>14 DEF ChannelSound
  <1> QED BY <1>1, <1>2 DEF Connected

\* The ACK establishes the channel that the server has bound.
LEMMA AckStep ==
  ASSUME ChannelSound, Ack
  PROVE  ChannelSound'
  <1>1. /\ ch.sock = "connected" /\ ch.link \in Links /\ ch.link # NoLink
        /\ kind' = kind /\ server' = server /\ faults' = faults
    BY SoundFacts DEF Ack
  <1>2. /\ ch \in Channels /\ net \in [Links -> Connections]
        /\ net[ch.link] \in Connections
    BY <1>1, SoundFacts
  <1>3. /\ ch' \in Channels /\ ch'.sock = ch.sock /\ ch'.link = ch.link
        /\ ch'.est = TRUE /\ ch'.timer = ch.timer /\ ch'.peer = ch.peer
        /\ ch'.session = ch.session /\ ch'.failing = ch.failing
    BY <1>2 DEF Ack, Channels
  <1>4. PICK r : r = [net[ch.link] EXCEPT !.ack = FALSE]
    OBVIOUS
  <1>5. /\ r \in Connections /\ r.open = net[ch.link].open
        /\ r.server = net[ch.link].server
        /\ r.init = net[ch.link].init /\ r.ack = FALSE
    BY <1>2, <1>4 DEF Connections
  <1>6. net' = [net EXCEPT ![ch.link] = r]
    BY <1>1, <1>2, <1>4 DEF Ack
  <1>7. /\ net' \in [Links -> Connections] /\ net'[ch.link] = r
        /\ \A q \in Links : q # ch.link => net'[q] = net[q]
    BY <1>1, <1>2, <1>5, <1>6
  <1>8. \A q \in Links : net'[q].open = net[q].open
    BY <1>5, <1>7
  <1>9. net[ch.link].server \in {"bound", "closed"}
    BY <1>1, SoundFacts DEF Ack, EndsAgree
  <1>10. ch.peer
    BY <1>1, SoundFacts
  <1>11. TypeOK'
    BY <1>1, <1>3, <1>7, <1>8, SoundFacts DEF TypeOK
  <1>12. EndsAgree'
    BY <1>1, <1>3, <1>5, <1>7, SoundFacts DEF EndsAgree
  <1>13. FollowsRoom'
    BY <1>1, <1>3, <1>10 DEF FollowsRoom, NotStranded, StopIsFinal
  <1>14. EstablishedBound'
    BY <1>1, <1>3, <1>5, <1>7, <1>9, <1>11, SoundFacts
       DEF EstablishedBound, EndsAgree
  <1> QED BY <1>12, <1>13, <1>14 DEF ChannelSound

\* A full send buffer only notes that the channel fails.
LEMMA SendFullStep ==
  ASSUME ChannelSound, SendFull
  PROVE  ChannelSound'
  <1>1. /\ ch.sock = "connected" /\ net' = net /\ kind' = kind /\ server' = server
        /\ ch \in Channels /\ faults' \in 0 .. MaxFaults
    BY SoundFacts, FaultBound DEF SendFull
  <1>2. /\ ch' \in Channels /\ ch'.sock = ch.sock /\ ch'.link = ch.link
        /\ ch'.est = ch.est /\ ch'.timer = ch.timer /\ ch'.peer = ch.peer
        /\ ch'.session = ch.session /\ ch'.failing = TRUE
    BY <1>1 DEF SendFull, Channels
  <1>3. ch.peer
    BY <1>1, SoundFacts
  <1>4. TypeOK'
    BY <1>1, <1>2, SoundFacts DEF TypeOK
  <1>5. EndsAgree'
    BY <1>1, <1>2, <1>3, SoundFacts DEF EndsAgree
  <1>6. FollowsRoom'
    BY <1>1, <1>2, <1>3 DEF FollowsRoom, NotStranded, StopIsFinal
  <1>7. EstablishedBound'
    BY <1>1, <1>2, <1>4 DEF ChannelSound, EstablishedBound, IsConnected
  <1> QED BY <1>5, <1>6, <1>7 DEF ChannelSound

\* A channel that fails is dropped and tried again.
LEMMA SendFailedStep ==
  ASSUME ChannelSound, SendFailed
  PROVE  ChannelSound'
  <1>1. ch \in Channels /\ faults' \in 0 .. MaxFaults
    BY SoundFacts DEF SendFailed
  <1>2. PICK d \in Channels : d = Dropped(ch) /\ d.sock = "none" /\ d.link = NoLink
                              /\ d.est = FALSE /\ d.peer = ch.peer
    BY <1>1, DroppedFields
  <1>3. ch' = [d EXCEPT !.timer = TRUE, !.failing = FALSE]
    BY <1>2 DEF SendFailed
  <1>4. /\ ch' \in Channels /\ ch'.sock = "none" /\ ch'.link = NoLink
        /\ ch'.est = FALSE /\ ch'.timer = TRUE /\ ch'.peer = ch.peer
        /\ ch'.failing = FALSE
    BY <1>2, <1>3 DEF Channels
  <1>5. ch.peer
    BY SoundFacts DEF SendFailed, EndsAgree
  <1> QED BY <1>1, <1>4, <1>5, GivingUp DEF SendFailed

\* A room that is left, and a signalling connection that ends.
LEMMA StopStep ==
  ASSUME ChannelSound, Stop \/ SignalLost
  PROVE  ChannelSound'
  <1>0. Fault \/ NoFault
    BY DEF Stop, SignalLost
  <1>1. ch \in Channels /\ faults' \in 0 .. MaxFaults
    BY <1>0, SoundFacts, FaultBound
  <1>2. PICK s \in Channels : s = Stopped(ch) /\ s.sock = "none" /\ s.link = NoLink
                              /\ s.est = FALSE /\ s.timer = FALSE
                              /\ s.peer = FALSE /\ s.failing = FALSE
    BY <1>1, StoppedFields
  <1>3. /\ net' = CloseSocket(net) /\ kind' = kind /\ server' = server
        /\ ch' = s \/ ch' = [s EXCEPT !.session = 0, !.unable = FALSE]
    BY <1>2 DEF Stop, SignalLost
  <1>4. /\ ch' \in Channels /\ ch'.sock = "none" /\ ch'.link = NoLink
        /\ ch'.est = FALSE /\ ch'.timer = FALSE
        /\ ch'.peer = FALSE /\ ch'.failing = FALSE
    <2>1. CASE ch' = s
      BY <1>2, <2>1
    <2>2. CASE ch' = [s EXCEPT !.session = 0, !.unable = FALSE]
      <3>1. 0 \in 0 .. MaxSessions
        BY ChannelAssumption
      <3> QED BY <1>2, <2>2, <3>1 DEF Channels
    <2> QED BY <1>3, <2>1, <2>2
  <1> QED BY <1>1, <1>3, <1>4, GivingUp

\* A login installs the session that the server has begun.
LEMMA LoginStep ==
  ASSUME ChannelSound, Login
  PROVE  ChannelSound'
  <1>1. /\ ch \in Channels /\ ~ch.peer /\ ch.sock = "none" /\ ch.session = 0
        /\ ~ch.est /\ ch.link = NoLink
        /\ net' = net /\ kind' = kind /\ faults' = faults
    BY SoundFacts DEF Login
  <1>2. PICK m \in 1 .. MaxSessions : m = server.last + 1
    <2>1. server.last \in 0 .. MaxSessions /\ server.last < MaxSessions
      BY SoundFacts DEF Login
    <2>2. server.last + 1 \in 1 .. MaxSessions
      BY <2>1, ChannelAssumption
    <2> QED BY <2>2
  <1>3. ch' = [ch EXCEPT !.session = m] /\ server' = [server EXCEPT !.session = m, !.last = m]
    BY <1>2, SoundFacts DEF Login
  <1>4. /\ ch' \in Channels /\ ch'.sock = "none" /\ ch'.link = NoLink
        /\ ch'.est = ch.est /\ ch'.timer = ch.timer /\ ch'.peer = ch.peer
        /\ ch'.session = m /\ ch'.failing = ch.failing
    BY <1>1, <1>2, <1>3 DEF Channels
  <1>5. /\ server' \in [session : 0 .. MaxSessions, last : 0 .. MaxSessions,
                        bound : Links \cup {NoLink}]
        /\ server'.bound = server.bound /\ server'.session = m
    <2>1. m \in 0 .. MaxSessions
      BY <1>2, ChannelAssumption
    <2>2. server \in [session : 0 .. MaxSessions, last : 0 .. MaxSessions,
                      bound : Links \cup {NoLink}]
      BY SoundFacts
    <2> QED BY <1>3, <2>1, <2>2
  <1>6. m # 0
    BY <1>2
  <1>7. TypeOK'
    BY <1>1, <1>4, <1>5, SoundFacts DEF TypeOK
  <1>8. EndsAgree'
    BY <1>1, <1>4, <1>5, <1>6, SoundFacts DEF EndsAgree
  <1>9. FollowsRoom'
    BY <1>1, <1>4, SoundFacts DEF FollowsRoom, NotStranded, StopIsFinal
  <1>10. EstablishedBound'
    BY <1>1, <1>4, <1>7 DEF EstablishedBound, IsConnected
  <1> QED BY <1>8, <1>9, <1>10 DEF ChannelSound

-----------------------------------------------------------------------------
(* The data channel: the steps of the network and of the server *)

\* What the server and the network may do to a connection: they keep what the
\* client sees of it, and what is bound once is bound or closed from then on.
LEMMA OtherEnd ==
  ASSUME ChannelSound, kind' = kind, ch' = ch, faults' \in 0 .. MaxFaults,
         net' \in [Links -> Connections],
         server' \in [session : 0 .. MaxSessions, last : 0 .. MaxSessions,
                      bound : Links \cup {NoLink}],
         \A k \in Links :
           /\ net'[k].open = net[k].open
           /\ net'[k].init \in {0, net[k].init}
           /\ net[k].server = "none" => net'[k].server = "none"
           /\ net[k].server \in {"bound", "closed"} => net'[k].server \in {"bound", "closed"}
           /\ net'[k].ack => net'[k].server \in {"bound", "closed"}
           /\ net'[k].server = "bound" <=> server'.bound = k,
         server'.session = 0 => server'.bound = NoLink,
         ch.link # NoLink /\ server'.bound = ch.link => server'.session = ch.session
  PROVE  ChannelSound'
  <1>1. TypeOK'
    BY SoundFacts DEF TypeOK
  <1>2. EndsAgree'
    BY SoundFacts DEF EndsAgree
  <1>3. FollowsRoom'
    BY DEF ChannelSound, FollowsRoom, NotStranded, StopIsFinal
  <1>4. EstablishedBound'
    <2>1. SUFFICES ASSUME IsConnected', ch'.session # 0
                   PROVE  /\ ch'.sock = "connected"
                          /\ net'[ch'.link].server \in {"bound", "closed"}
                          /\ net'[ch'.link].server = "bound" =>
                               server'.bound = ch'.link /\ server'.session = ch'.session
      BY <1>1 DEF EstablishedBound
    <2>2. ch.sock = "connected" /\ net[ch.link].server \in {"bound", "closed"}
      BY <2>1 DEF ChannelSound, EstablishedBound, IsConnected
    <2>3. ch.link \in Links /\ ch.link # NoLink
      BY <2>2, SoundFacts
    <2> QED BY <2>2, <2>3
  <1> QED BY <1>2, <1>3, <1>4 DEF ChannelSound

\* A connection that stalls is otherwise what it was.
LEMMA StallStep ==
  ASSUME ChannelSound, Stall
  PROVE  ChannelSound'
  <1>1. PICK k \in Links : net' = [net EXCEPT ![k].stalled = TRUE]
    BY DEF Stall
  <1>2. /\ net \in [Links -> Connections] /\ net[k] \in Connections
        /\ faults' \in 0 .. MaxFaults /\ kind' = kind /\ ch' = ch /\ server' = server
    BY SoundFacts, FaultBound DEF Stall
  <1>3. PICK r : r = [net[k] EXCEPT !.stalled = TRUE]
    OBVIOUS
  <1>4. /\ r \in Connections /\ r.open = net[k].open /\ r.server = net[k].server
        /\ r.init = net[k].init /\ r.ack = net[k].ack
    BY <1>2, <1>3 DEF Connections
  <1>5. net' = [net EXCEPT ![k] = r]
    BY <1>1, <1>2, <1>3
  <1>6. /\ net' \in [Links -> Connections] /\ net'[k] = r
        /\ \A q \in Links : q # k => net'[q] = net[q]
    BY <1>2, <1>4, <1>5
  <1>7. \A q \in Links : /\ net'[q].open = net[q].open /\ net'[q].init = net[q].init
                         /\ net'[q].server = net[q].server /\ net'[q].ack = net[q].ack
    BY <1>4, <1>6
  <1> QED BY <1>2, <1>6, <1>7, SoundFacts, OtherEnd DEF EndsAgree

\* closeDataChannel closes what was bound, and nothing else.
LEMMA UnboundFields ==
  ASSUME ChannelSound, NEW n \in [Links -> Connections],
         \A k \in Links : n[k].server = net[k].server
  PROVE  /\ Unbound(n) \in [Links -> Connections]
         /\ \A k \in Links :
              /\ Unbound(n)[k].open = n[k].open
              /\ Unbound(n)[k].init = n[k].init
              /\ Unbound(n)[k].ack = n[k].ack
              /\ Unbound(n)[k].server =
                   IF n[k].server = "bound" THEN "closed" ELSE n[k].server
  <1>1. /\ server.bound \in Links \cup {NoLink}
        /\ \A k \in Links : n[k].server = "bound" <=> server.bound = k
    BY SoundFacts DEF EndsAgree
  <1>2. CASE server.bound = NoLink
    <2>1. Unbound(n) = n
      BY <1>2 DEF Unbound
    <2>2. \A k \in Links : n[k].server # "bound"
      BY <1>1, <1>2, ChannelAssumption
    <2>3. \A k \in Links : n[k].open = n[k].open /\ n[k].ack = n[k].ack
      BY Zenon
    <2> QED BY <2>1, <2>2, <2>3, Zenon
  <1>3. CASE server.bound # NoLink
    <2>1. server.bound \in Links /\ n[server.bound] \in Connections
      BY <1>1, <1>3
    <2>2. PICK r : r = [n[server.bound] EXCEPT !.server = "closed"]
      OBVIOUS
    <2>3. /\ r \in Connections /\ r.open = n[server.bound].open
          /\ r.init = n[server.bound].init /\ r.ack = n[server.bound].ack
          /\ r.server = "closed"
      BY <2>1, <2>2 DEF Connections
    <2>4. Unbound(n) = [n EXCEPT ![server.bound] = r]
      BY <1>3, <2>1, <2>2 DEF Unbound
    <2>5. /\ Unbound(n) \in [Links -> Connections] /\ Unbound(n)[server.bound] = r
          /\ \A q \in Links : q # server.bound => Unbound(n)[q] = n[q]
      BY <2>1, <2>3, <2>4
    <2> QED BY <1>1, <2>3, <2>5
  <1> QED BY <1>2, <1>3

\* The end of a session closes its channel.
LEMMA SessionEndsStep ==
  ASSUME ChannelSound, SessionEnds
  PROVE  ChannelSound'
  <1>0. Fault \/ NoFault
    BY DEF SessionEnds
  <1>1. /\ faults' \in 0 .. MaxFaults /\ kind' = kind /\ ch' = ch /\ net' = Unbound(net)
        /\ net \in [Links -> Connections]
    BY <1>0, SoundFacts, FaultBound DEF SessionEnds
  <1>2. /\ server' \in [session : 0 .. MaxSessions, last : 0 .. MaxSessions,
                        bound : Links \cup {NoLink}]
        /\ server'.bound = NoLink
    <2>1. 0 \in 0 .. MaxSessions
      BY ChannelAssumption
    <2> QED BY <2>1, SoundFacts DEF SessionEnds
  <1>3. /\ net' \in [Links -> Connections]
        /\ \A k \in Links :
             /\ net'[k].open = net[k].open /\ net'[k].init = net[k].init
             /\ net'[k].ack = net[k].ack
             /\ net'[k].server = IF net[k].server = "bound" THEN "closed" ELSE net[k].server
    BY <1>1, UnboundFields
  <1>4. \A k \in Links : net[k].ack => net[k].server \in {"bound", "closed"}
    BY SoundFacts DEF EndsAgree
  <1> QED BY <1>1, <1>2, <1>3, <1>4, ChannelAssumption, OtherEnd

\* A connection that the server closes is bound no longer.
LEMMA ServerClosesStep ==
  ASSUME ChannelSound, ServerCloses
  PROVE  ChannelSound'
  <1>1. PICK k \in Links :
          /\ net[k].server \in {"pending", "bound"}
          /\ net' = [net EXCEPT ![k].server = "closed"]
          /\ server' = IF server.bound = k THEN [server EXCEPT !.bound = NoLink] ELSE server
    BY DEF ServerCloses
  <1>2. /\ net \in [Links -> Connections] /\ net[k] \in Connections
        /\ faults' \in 0 .. MaxFaults /\ kind' = kind /\ ch' = ch
    BY SoundFacts DEF ServerCloses
  <1>3. PICK r : r = [net[k] EXCEPT !.server = "closed"]
    OBVIOUS
  <1>4. /\ r \in Connections /\ r.open = net[k].open /\ r.server = "closed"
        /\ r.init = net[k].init /\ r.ack = net[k].ack
    BY <1>2, <1>3 DEF Connections
  <1>5. net' = [net EXCEPT ![k] = r]
    BY <1>1, <1>2, <1>3
  <1>6. /\ net' \in [Links -> Connections] /\ net'[k] = r
        /\ \A q \in Links : q # k => net'[q] = net[q]
    BY <1>2, <1>4, <1>5
  <1>7. /\ server' \in [session : 0 .. MaxSessions, last : 0 .. MaxSessions,
                        bound : Links \cup {NoLink}]
        /\ server'.session = server.session
        /\ server'.bound = IF server.bound = k THEN NoLink ELSE server.bound
    BY <1>1, SoundFacts
  <1>8. ASSUME NEW q \in Links
        PROVE  /\ net'[q].open = net[q].open
               /\ net'[q].init = net[q].init
               /\ net[q].server = "none" => net'[q].server = "none"
               /\ net[q].server \in {"bound", "closed"} => net'[q].server \in {"bound", "closed"}
               /\ net'[q].ack => net'[q].server \in {"bound", "closed"}
               /\ net'[q].server = "bound" <=> server'.bound = q
    <2>1. CASE q = k
      BY <1>1, <1>4, <1>6, <1>7, <2>1, ChannelAssumption
    <2>2. CASE q # k
      BY <1>6, <1>7, <2>2, SoundFacts, ChannelAssumption DEF EndsAgree
    <2> QED BY <2>1, <2>2
  <1>9. /\ server'.session = 0 => server'.bound = NoLink
        /\ ch.link # NoLink /\ server'.bound = ch.link => server'.session = ch.session
    BY <1>7, SoundFacts DEF EndsAgree
  <1> QED BY <1>2, <1>6, <1>7, <1>8, <1>9, OtherEnd

\* The connections once the server has read the INIT of k.
InitRead(k) == [net EXCEPT ![k].init = 0]

\* An INIT is taken off its connection; the rest is as before.
LEMMA InitTaken ==
  ASSUME ChannelSound, NEW k \in Links
  PROVE  /\ InitRead(k) \in [Links -> Connections]
         /\ \A q \in Links :
              /\ InitRead(k)[q].open = net[q].open /\ InitRead(k)[q].ack = net[q].ack
              /\ InitRead(k)[q].server = net[q].server
              /\ InitRead(k)[q].init \in {0, net[q].init}
  <1>0. PICK n : n = InitRead(k)
    OBVIOUS
  <1>1. net \in [Links -> Connections] /\ net[k] \in Connections
    BY SoundFacts
  <1>2. PICK r : r = [net[k] EXCEPT !.init = 0]
    OBVIOUS
  <1>3. /\ r \in Connections /\ r.open = net[k].open /\ r.ack = net[k].ack
        /\ r.server = net[k].server /\ r.init = 0
    <2>1. 0 \in 0 .. MaxSessions
      BY ChannelAssumption
    <2> QED BY <1>1, <1>2, <2>1 DEF Connections
  <1>4. n = [net EXCEPT ![k] = r]
    BY <1>0, <1>1, <1>2 DEF InitRead
  <1>5. n \in [Links -> Connections] /\ n[k] = r /\ \A q \in Links : q # k => n[q] = net[q]
    BY <1>1, <1>3, <1>4
  <1>6. /\ n \in [Links -> Connections]
        /\ \A q \in Links :
             /\ n[q].open = net[q].open /\ n[q].ack = net[q].ack
             /\ n[q].server = net[q].server /\ n[q].init \in {0, net[q].init}
    BY <1>3, <1>5
  <1> QED BY <1>0, <1>6

\* Binding, refusing or failing to answer an INIT.
LEMMA ServerReadsStep ==
  ASSUME ChannelSound, ServerReads
  PROVE  ChannelSound'
  <1>1. PICK k \in Links : /\ net[k].server = "pending" /\ net[k].init # 0
                           /\ BindData(k)
    BY DEF ServerReads
  <1>2. kind' = kind /\ ch' = ch
    BY DEF ServerReads
  <1>3. PICK n : n = InitRead(k)
    OBVIOUS
  <1>4. /\ n \in [Links -> Connections]
        /\ \A q \in Links :
             /\ n[q].open = net[q].open /\ n[q].ack = net[q].ack
             /\ n[q].server = net[q].server /\ n[q].init \in {0, net[q].init}
    BY <1>3, InitTaken
  <1>5. /\ Unbound(n) \in [Links -> Connections]
        /\ \A q \in Links :
             /\ Unbound(n)[q].open = n[q].open /\ Unbound(n)[q].init = n[q].init
             /\ Unbound(n)[q].ack = n[q].ack
             /\ Unbound(n)[q].server =
                  IF n[q].server = "bound" THEN "closed" ELSE n[q].server
    BY <1>4, UnboundFields
  <1>6. /\ server \in [session : 0 .. MaxSessions, last : 0 .. MaxSessions,
                       bound : Links \cup {NoLink}]
        /\ server.bound # k
        /\ \A q \in Links : net[q].server = "bound" <=> server.bound = q
        /\ \A q \in Links : net[q].ack => net[q].server \in {"bound", "closed"}
        /\ server.session = 0 => server.bound = NoLink
        /\ ch.link # NoLink => net[ch.link].init \in {0, ch.session}
        /\ ch.link # NoLink /\ server.bound = ch.link => server.session = ch.session
    BY <1>1, SoundFacts DEF EndsAgree
  <1>7. CASE /\ net' = [n EXCEPT ![k].server = "closed"]
             /\ UNCHANGED server /\ NoFault
    <2>1. PICK r : r = [n[k] EXCEPT !.server = "closed"]
      OBVIOUS
    <2>2. /\ r \in Connections /\ r.open = n[k].open /\ r.server = "closed"
          /\ r.init = n[k].init /\ r.ack = n[k].ack
      BY <1>4, <2>1 DEF Connections
    <2>3. net' = [n EXCEPT ![k] = r]
      BY <1>4, <1>7, <2>1
    <2>4. /\ net' \in [Links -> Connections] /\ net'[k] = r
          /\ \A q \in Links : q # k => net'[q] = n[q]
      BY <1>4, <2>2, <2>3
    <2>5. ASSUME NEW q \in Links
          PROVE  /\ net'[q].open = net[q].open
                 /\ net'[q].init \in {0, net[q].init}
                 /\ net[q].server = "none" => net'[q].server = "none"
                 /\ net[q].server \in {"bound", "closed"} => net'[q].server \in {"bound", "closed"}
                 /\ net'[q].ack => net'[q].server \in {"bound", "closed"}
                 /\ net'[q].server = "bound" <=> server'.bound = q
      <3>1. CASE q = k
        BY <1>1, <1>4, <1>6, <1>7, <2>2, <2>4, <3>1
      <3>2. CASE q # k
        BY <1>4, <1>6, <1>7, <2>4, <3>2
      <3> QED BY <3>1, <3>2
    <2>6. faults' \in 0 .. MaxFaults
      BY <1>7, SoundFacts, FaultBound
    <2>7. server' = server
      BY <1>7
    <2> QED BY <1>2, <1>6, <2>4, <2>5, <2>6, <2>7, OtherEnd
  <1>8. CASE /\ net[k].init = server.session
             /\ net' = [Unbound(n) EXCEPT ![k].server = "bound", ![k].ack = TRUE]
             /\ server' = [server EXCEPT !.bound = k]
             /\ NoFault
    <2>1. PICK r : r = [Unbound(n)[k] EXCEPT !.server = "bound", !.ack = TRUE]
      OBVIOUS
    <2>2. Unbound(n)[k] \in Connections
      BY <1>5
    <2>3. /\ r \in Connections /\ r.open = Unbound(n)[k].open /\ r.server = "bound"
          /\ r.init = Unbound(n)[k].init /\ r.ack = TRUE
      BY <2>1, <2>2 DEF Connections
    <2>4. net' = [Unbound(n) EXCEPT ![k] = r]
      BY <1>5, <1>8, <2>1
    <2>5. /\ net' \in [Links -> Connections] /\ net'[k] = r
          /\ \A q \in Links : q # k => net'[q] = Unbound(n)[q]
      BY <1>5, <2>3, <2>4
    <2>6. /\ server' \in [session : 0 .. MaxSessions, last : 0 .. MaxSessions,
                          bound : Links \cup {NoLink}]
          /\ server'.bound = k /\ server'.session = server.session
      BY <1>6, <1>8
    <2>7. ASSUME NEW q \in Links
          PROVE  /\ net'[q].open = net[q].open
                 /\ net'[q].init \in {0, net[q].init}
                 /\ net[q].server = "none" => net'[q].server = "none"
                 /\ net[q].server \in {"bound", "closed"} => net'[q].server \in {"bound", "closed"}
                 /\ net'[q].ack => net'[q].server \in {"bound", "closed"}
                 /\ net'[q].server = "bound" <=> server'.bound = q
      <3>1. CASE q = k
        BY <1>1, <1>4, <1>5, <2>3, <2>5, <2>6, <3>1
      <3>2. CASE q # k
        BY <1>4, <1>5, <1>6, <2>5, <2>6, <3>2
      <3> QED BY <3>1, <3>2
    <2>8. faults' \in 0 .. MaxFaults
      BY <1>8, SoundFacts, FaultBound
    <2>9. server'.session # 0
      BY <1>1, <1>8, <2>6
    <2>10. ch.link # NoLink /\ server'.bound = ch.link => server'.session = ch.session
      BY <1>1, <1>6, <1>8, <2>6
    <2> QED BY <1>2, <2>5, <2>6, <2>7, <2>8, <2>9, <2>10, OtherEnd
  <1>9. CASE /\ Fault
             /\ net' = [Unbound(n) EXCEPT ![k].server = "closed"]
             /\ server' = [server EXCEPT !.bound = NoLink]
    <2>1. PICK r : r = [Unbound(n)[k] EXCEPT !.server = "closed"]
      OBVIOUS
    <2>2. Unbound(n)[k] \in Connections
      BY <1>5
    <2>3. /\ r \in Connections /\ r.open = Unbound(n)[k].open /\ r.server = "closed"
          /\ r.init = Unbound(n)[k].init /\ r.ack = Unbound(n)[k].ack
      BY <2>1, <2>2 DEF Connections
    <2>4. net' = [Unbound(n) EXCEPT ![k] = r]
      BY <1>5, <1>9, <2>1
    <2>5. /\ net' \in [Links -> Connections] /\ net'[k] = r
          /\ \A q \in Links : q # k => net'[q] = Unbound(n)[q]
      BY <1>5, <2>3, <2>4
    <2>6. /\ server' \in [session : 0 .. MaxSessions, last : 0 .. MaxSessions,
                          bound : Links \cup {NoLink}]
          /\ server'.bound = NoLink
      BY <1>6, <1>9
    <2>7. ASSUME NEW q \in Links
          PROVE  /\ net'[q].open = net[q].open
                 /\ net'[q].init \in {0, net[q].init}
                 /\ net[q].server = "none" => net'[q].server = "none"
                 /\ net[q].server \in {"bound", "closed"} => net'[q].server \in {"bound", "closed"}
                 /\ net'[q].ack => net'[q].server \in {"bound", "closed"}
                 /\ net'[q].server = "bound" <=> server'.bound = q
      <3>1. CASE q = k
        BY <1>1, <1>4, <1>5, <2>3, <2>5, <2>6, <3>1, ChannelAssumption
      <3>2. CASE q # k
        BY <1>4, <1>5, <1>6, <2>5, <2>6, <3>2, ChannelAssumption
      <3> QED BY <3>1, <3>2
    <2>8. faults' \in 0 .. MaxFaults
      BY <1>9, SoundFacts, FaultBound
    <2> QED BY <1>2, <2>5, <2>6, <2>7, <2>8, OtherEnd
  <1> QED BY <1>1, <1>3, <1>7, <1>8, <1>9 DEF BindData, InitRead

-----------------------------------------------------------------------------
(* The theorem about the data channel *)

\* The channel of either client starts sound.
LEMMA InitSound == Init => ChannelSound
  <1> SUFFICES ASSUME Init PROVE ChannelSound
    OBVIOUS
  <1>1. 0 \in 0 .. MaxSessions /\ 0 \in 0 .. MaxFaults /\ NoLink \notin Links
    BY ChannelAssumption
  <1>2. ch \in Channels /\ Unused \in Connections
    BY <1>1 DEF Init, Channels, Connections, Unused
  <1>3. TypeOK
    BY <1>1, <1>2 DEF Init, TypeOK, Unused
  <1>4. EndsAgree
    BY <1>1 DEF Init, EndsAgree, Unused
  <1>5. FollowsRoom
    BY DEF Init, FollowsRoom, NotStranded, StopIsFinal
  <1>6. EstablishedBound
    BY <1>3 DEF Init, EstablishedBound, IsConnected
  <1> QED BY <1>4, <1>5, <1>6 DEF ChannelSound

\* A step that changes nothing keeps everything.
LEMMA StutterSound ==
  ASSUME ChannelSound, UNCHANGED vars
  PROVE  ChannelSound'
  BY DEF vars, ChannelSound, FollowsRoom, NotStranded, StopIsFinal, EstablishedBound,
         IsConnected, EndsAgree, TypeOK

\* Every step of the clients, the network and the server keeps ChannelSound.
LEMMA NextSound == ChannelSound /\ [Next]_vars => ChannelSound'
  <1> SUFFICES ASSUME ChannelSound, [Next]_vars PROVE ChannelSound'
    OBVIOUS
  <1>1. CASE Start
    BY <1>1, StartStep
  <1>2. CASE ReconnectTimer
    BY <1>2, ReconnectTimerStep
  <1>3. CASE Connected
    BY <1>3, ConnectedStep
  <1>4. CASE ConnectError
    BY <1>4, Dropping DEF ConnectError
  <1>5. CASE Ack
    BY <1>5, AckStep
  <1>6. CASE Closed
    BY <1>6, Dropping DEF Closed, NoFault
  <1>7. CASE Malformed
    BY <1>7, Dropping DEF Malformed
  <1>8. CASE Silence
    BY <1>8, Dropping DEF Silence, NoFault
  <1>9. CASE KernelGivesUp
    BY <1>9, Dropping DEF KernelGivesUp, NoFault
  <1>10. CASE SendFull
    BY <1>10, SendFullStep
  <1>11. CASE SendLast
    BY <1>11, ExhaustedKeeps DEF SendLast
  <1>12. CASE SendFailed
    BY <1>12, SendFailedStep
  <1>13. CASE Stop \/ SignalLost
    BY <1>13, StopStep
  <1>14. CASE Login
    BY <1>14, LoginStep
  <1>15. CASE Stall
    BY <1>15, StallStep
  <1>16. CASE ServerReads
    BY <1>16, ServerReadsStep
  <1>17. CASE ServerCloses
    BY <1>17, ServerClosesStep
  <1>18. CASE SessionEnds
    BY <1>18, SessionEndsStep
  <1>19. CASE UNCHANGED vars
    BY <1>19, StutterSound
  <1> QED
    BY <1>1, <1>2, <1>3, <1>4, <1>5, <1>6, <1>7, <1>8, <1>9, <1>10, <1>11,
       <1>12, <1>13, <1>14, <1>15, <1>16, <1>17, <1>18, <1>19 DEF Next

\* In every history of either client, whatever fails and however often: the
\* data channel follows the room and an established one is the connection
\* the server has bound under the client's session, or has closed since.
THEOREM DataChannelSafe == Spec => []ChannelSound
  BY InitSound, NextSound, PTL DEF Spec
=============================================================================
