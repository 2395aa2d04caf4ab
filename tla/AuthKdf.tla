------------------------------- MODULE AuthKdf -------------------------------
(***************************************************************************)
(* AuthKdfTask (common/auth_kdf_task.h), the worker thread that derives    *)
(* password hashes, and SignalClient, the network thread that asks for one *)
(* at a time: for the server handshake, for a protected room to create and *)
(* for a protected room to join.                                           *)
(*                                                                         *)
(* A region under m_mutex is one step.  Between the worker's two locked    *)
(* regions the hash is computed without the lock, and the network thread   *)
(* may cancel, restart, disconnect or destroy the task.  A waiting worker  *)
(* sleeps until it is notified, or wakes spuriously, and then tests its    *)
(* predicate again.                                                        *)
(*                                                                         *)
(* A request is the operation, the salt and the server password it is for; *)
(* the hash is represented by the request it was derived from.  Salts are  *)
(* drawn at random by this client or by the server, so each one is new,    *)
(* but a handshake that is restarted with another password keeps its salt. *)
(* The password of a room travels with the room operation and is left out. *)
(***************************************************************************)
EXTENDS Naturals

CONSTANTS
  Passwords,  \* the server passwords a user may type
  NoPassword, \* an empty password
  MaxSalt,    \* bound: salts drawn
  MaxGen      \* bound: the generation from which no new attempt is begun

ASSUME AuthKdfAssumption ==
  /\ NoPassword \notin Passwords
  /\ MaxSalt \in Nat \ {0}
  /\ MaxGen \in Nat \ {0}

ServerAuth == 1
CreateRoomAuth == 2
JoinRoomAuth == 3

RoomAuths == {CreateRoomAuth, JoinRoomAuth}

Requests ==
  [op : {ServerAuth} \cup RoomAuths, salt : 1 .. MaxSalt,
   password : Passwords \cup {NoPassword}]

NoRequest == [op |-> 0, salt |-> 0, password |-> NoPassword]

VARIABLES
  task,      \* the members of AuthKdfTask
  worker,    \* the worker thread and its local variables
  signal,    \* the members of SignalClient
  nextSalt   \* the next salt a random source yields

kdfVars == <<task, worker, signal, nextSalt>>

-----------------------------------------------------------------------------
(* AuthKdfTask *)

\* request holds m_password and m_salt, result holds m_result.
Tasks ==
  [stop : BOOLEAN, queued : BOOLEAN, ready : BOOLEAN, gen : Nat,
   request : Requests \cup {NoRequest}, result : Requests \cup {NoRequest}]

Workers ==
  [pc : {"none", "locking", "asleep", "hashing", "storing", "done"},
   gen : Nat, request : Requests \cup {NoRequest}]

\* cancelLocked
Cancelled(t) ==
  [stop |-> t.stop, queued |-> FALSE, ready |-> FALSE, gen |-> t.gen + 1,
   request |-> NoRequest, result |-> NoRequest]

Queued(t, request) ==
  [Cancelled(t) EXCEPT !.request = request, !.queued = TRUE]

\* BUG: a worker that sleeps is not notified.
WokenNever(w) == IF w.pc = "none" THEN [w EXCEPT !.pc = "locking"] ELSE w

\* start() creates the worker, or notifies it.
Woken(w) == IF w.pc \in {"none", "asleep"} THEN [w EXCEPT !.pc = "locking"] ELSE w

\* BUG: the worker waits for a request only, not for the end of the task.
MaySleepWhenStopped == ~task.queued

\* The worker waits while there is neither a request nor an order to stop.
MaySleep == ~task.stop /\ ~task.queued

\* The worker holds the lock and tests m_stop || m_queued.
WorkerTake ==
  /\ worker.pc = "locking"
  /\ \/ /\ MaySleep
        /\ worker' = [worker EXCEPT !.pc = "asleep"]
        /\ UNCHANGED task
     \/ /\ task.stop
        /\ worker' = [worker EXCEPT !.pc = "done"]
        /\ UNCHANGED task
     \/ /\ ~task.stop /\ task.queued
        /\ worker' = [pc |-> "hashing", gen |-> task.gen, request |-> task.request]
        /\ task' = [task EXCEPT !.queued = FALSE, !.request = NoRequest]
  /\ UNCHANGED <<signal, nextSalt>>

\* m_wake.wait may return without a notification.
SpuriousWake ==
  /\ worker.pc = "asleep"
  /\ worker' = [worker EXCEPT !.pc = "locking"]
  /\ UNCHANGED <<task, signal, nextSalt>>

\* hashPasswordSalted, without the lock.
WorkerHash ==
  /\ worker.pc = "hashing"
  /\ worker' = [worker EXCEPT !.pc = "storing"]
  /\ UNCHANGED <<task, signal, nextSalt>>

\* BUG: a result is stored whatever happened meanwhile.
StoresAlways == TRUE

\* A result is kept when nothing was started or cancelled meanwhile.
Stores == ~task.stop /\ worker.gen = task.gen

WorkerStore ==
  /\ worker.pc = "storing"
  /\ task' = IF Stores THEN [task EXCEPT !.result = worker.request, !.ready = TRUE]
                       ELSE task
  /\ worker' = [pc |-> "locking", gen |-> 0, request |-> NoRequest]
  /\ UNCHANGED <<signal, nextSalt>>

-----------------------------------------------------------------------------
(* SignalClient *)

Phases == {"Off", "Hello", "Challenged", "Proved", "Secure", "Stopping", "Joining"}

\* op is m_authOperation, room is m_roomOperationPending, join is m_joinPending,
\* blocked is m_blockRoomResponses.  The phase stands for the socket,
\* m_serverAuthRequired, m_secureMaster and m_secureReady.
Signals ==
  [phase : Phases, op : {0, ServerAuth} \cup RoomAuths, salt : 0 .. MaxSalt,
   password : Passwords \cup {NoPassword},
   room : BOOLEAN, join : BOOLEAN, blocked : BOOLEAN]

Offline(phase, password) ==
  [phase |-> phase, op |-> 0, salt |-> 0, password |-> password,
   room |-> FALSE, join |-> FALSE, blocked |-> FALSE]

KdfInit ==
  /\ task = [stop |-> FALSE, queued |-> FALSE, ready |-> FALSE, gen |-> 0,
             request |-> NoRequest, result |-> NoRequest]
  /\ worker = [pc |-> "none", gen |-> 0, request |-> NoRequest]
  /\ signal = Offline("Off", NoPassword)
  /\ nextSalt = 1

Exists == signal.phase \notin {"Stopping", "Joining"}

\* resetSecureState, and the phase that follows.
Reset(phase, password) ==
  /\ signal' = Offline(phase, password)
  /\ task' = Cancelled(task)

\* m_authTask.start for operation op with the salt s.
StartTask(op, s, password) ==
  /\ task' = Queued(task, [op |-> op, salt |-> s, password |-> password])
  /\ worker' = Woken(worker)

NewSalt == nextSalt <= MaxSalt /\ nextSalt' = nextSalt + 1

\* A connection that exists is replaced.
ConnectToServer ==
  /\ Exists /\ task.gen < MaxGen
  /\ Reset("Hello", signal.password)
  /\ UNCHANGED <<worker, nextSalt>>

\* The connection ends, a frame is refused, authentication fails or the user
\* disconnects.
Disconnect ==
  /\ Exists /\ signal.phase # "Off"
  /\ Reset("Off", signal.password)
  /\ UNCHANGED <<worker, nextSalt>>

\* SERVER_HELLO carries the salt; the hash is asked for at once when the
\* password is known, otherwise continueServerAuth asks later.
OnServerHello ==
  /\ signal.phase = "Hello"
  /\ NewSalt
  /\ \/ /\ signal.password # NoPassword
        /\ signal' = [signal EXCEPT !.phase = "Challenged", !.salt = nextSalt,
                                    !.op = ServerAuth]
        /\ StartTask(ServerAuth, nextSalt, signal.password)
     \/ /\ signal.password = NoPassword
        /\ signal' = [signal EXCEPT !.phase = "Challenged", !.salt = nextSalt]
        /\ UNCHANGED <<task, worker>>

ContinueServerAuth ==
  /\ task.gen < MaxGen
  /\ signal.phase = "Challenged" /\ signal.op = 0 /\ signal.password # NoPassword
  /\ signal' = [signal EXCEPT !.op = ServerAuth]
  /\ StartTask(ServerAuth, signal.salt, signal.password)
  /\ UNCHANGED nextSalt

\* BUG: a handshake in progress is not told of the new password.
SetServerPasswordOnly(password) ==
  /\ Exists
  /\ signal' = [signal EXCEPT !.password = password]
  /\ UNCHANGED <<task, worker, nextSalt>>

\* A new password cancels a hash in progress; a handshake that has already sent
\* its proof is disconnected.
SetServerPassword(password) ==
  /\ Exists
  /\ \/ /\ signal.op = ServerAuth
        /\ signal' = [signal EXCEPT !.op = 0, !.password = password]
        /\ task' = Cancelled(task)
     \/ /\ signal.op # ServerAuth /\ signal.phase = "Proved"
        /\ Reset("Off", password)
     \/ /\ signal.op # ServerAuth /\ signal.phase # "Proved"
        /\ signal' = [signal EXCEPT !.password = password]
        /\ UNCHANGED task
  /\ UNCHANGED <<worker, nextSalt>>

\* SERVER_AUTH_OK with a valid proof.
OnServerAuthOk ==
  /\ signal.phase = "Proved"
  /\ signal' = [signal EXCEPT !.phase = "Secure"]
  /\ UNCHANGED <<task, worker, nextSalt>>

MayStartRoom == signal.phase = "Secure" /\ ~signal.room /\ signal.op = 0

CreateRoom ==
  /\ MayStartRoom
  /\ signal' = [signal EXCEPT !.blocked = FALSE, !.room = TRUE]
  /\ UNCHANGED <<task, worker, nextSalt>>

\* A protected room is not asked for before its hash is known.
CreateProtectedRoom ==
  /\ MayStartRoom
  /\ NewSalt
  /\ signal' = [signal EXCEPT !.blocked = FALSE, !.room = TRUE, !.salt = nextSalt,
                              !.op = CreateRoomAuth]
  /\ StartTask(CreateRoomAuth, nextSalt, NoPassword)

JoinRoom ==
  /\ MayStartRoom
  /\ signal' = [signal EXCEPT !.blocked = FALSE, !.room = TRUE, !.join = TRUE]
  /\ UNCHANGED <<task, worker, nextSalt>>

\* AUTH_CHALLENGE: the room to join is protected.
OnAuthChallenge ==
  /\ signal.phase = "Secure" /\ ~signal.blocked /\ signal.join
  /\ NewSalt
  /\ signal' = [signal EXCEPT !.join = FALSE, !.salt = nextSalt, !.op = JoinRoomAuth]
  /\ StartTask(JoinRoomAuth, nextSalt, NoPassword)

\* ROOM_CREATED and JOIN_RESP.  Answers carry no correlation ID: a late one may
\* arrive while another operation waits for its hash.
OnRoomResponse(joined) ==
  /\ signal.phase = "Secure" /\ ~signal.blocked
  /\ signal' = [signal EXCEPT !.room = FALSE, !.join = @ /\ ~joined]
  /\ UNCHANGED <<task, worker, nextSalt>>

CancelRoomOperation(block) ==
  /\ task' = IF signal.op \in RoomAuths THEN Cancelled(task) ELSE task
  /\ signal' = [signal EXCEPT !.op = IF @ \in RoomAuths THEN 0 ELSE @,
                              !.room = FALSE, !.join = FALSE, !.blocked = @ \/ block]

\* ERROR that is not fatal.  A general error may belong to an earlier request,
\* so the outcome of a pending one is uncertain and its answers are ignored.
OnError(general) ==
  /\ signal.phase = "Secure" /\ ~signal.blocked
  /\ \/ /\ signal.room /\ general
        /\ signal' = [signal EXCEPT !.blocked = TRUE]
        /\ UNCHANGED task
     \/ /\ ~(signal.room /\ general)
        /\ CancelRoomOperation(FALSE)
  /\ UNCHANGED <<worker, nextSalt>>

\* The request deadline has passed, or the client logs out.
AbandonRoomOperation ==
  /\ Exists
  /\ CancelRoomOperation(TRUE)
  /\ UNCHANGED <<worker, nextSalt>>

\* A result that no operation waits for is dropped.  A result is used for the
\* operation that waits, with the salt and the keys the client holds now; when
\* the derivation failed the connection ends.
PollAuthTask(success) ==
  /\ Exists /\ task.ready
  /\ \/ /\ signal.op = 0 \/ success
        /\ task' = [task EXCEPT !.ready = FALSE, !.result = NoRequest]
        /\ signal' = [signal EXCEPT !.op = 0,
             !.phase = IF signal.op = ServerAuth THEN "Proved" ELSE @]
     \/ /\ signal.op # 0 /\ ~success
        /\ Reset("Off", signal.password)
  /\ UNCHANGED <<worker, nextSalt>>

\* ~AuthKdfTask, first part: m_stop is set under the lock.
BeginDestroy ==
  /\ signal.phase = "Off"
  /\ signal' = [signal EXCEPT !.phase = "Stopping"]
  /\ task' = [Cancelled(task) EXCEPT !.stop = TRUE]
  /\ UNCHANGED <<worker, nextSalt>>

\* ~AuthKdfTask, second part: notify_one, once, after the lock is released; the
\* destructor then waits in join.
NotifyStop ==
  /\ signal.phase = "Stopping"
  /\ signal' = [signal EXCEPT !.phase = "Joining"]
  /\ worker' = IF worker.pc = "asleep" THEN [worker EXCEPT !.pc = "locking"] ELSE worker
  /\ UNCHANGED <<task, nextSalt>>

Joined == signal.phase = "Joining" /\ worker.pc \in {"none", "done"}

\* The task is destroyed.
Finished == Joined /\ UNCHANGED kdfVars

KdfNext ==
  \/ WorkerTake
  \/ SpuriousWake
  \/ WorkerHash
  \/ WorkerStore
  \/ ConnectToServer
  \/ Disconnect
  \/ OnServerHello
  \/ ContinueServerAuth
  \/ \E password \in Passwords \cup {NoPassword} : SetServerPassword(password)
  \/ OnServerAuthOk
  \/ CreateRoom
  \/ CreateProtectedRoom
  \/ JoinRoom
  \/ OnAuthChallenge
  \/ \E joined \in BOOLEAN : OnRoomResponse(joined)
  \/ \E general \in BOOLEAN : OnError(general)
  \/ AbandonRoomOperation
  \/ \E success \in BOOLEAN : PollAuthTask(success)
  \/ BeginDestroy
  \/ NotifyStop
  \/ Finished

KdfSpec == KdfInit /\ [][KdfNext]_kdfVars

\* The worker thread is scheduled, Argon2 terminates, the 10 ms timer polls and
\* a destructor that has begun goes on.  Nothing else is assumed.
Fairness ==
  /\ WF_kdfVars(WorkerTake)
  /\ WF_kdfVars(WorkerHash)
  /\ WF_kdfVars(WorkerStore)
  /\ WF_kdfVars(\E success \in BOOLEAN : PollAuthTask(success))
  /\ WF_kdfVars(NotifyStop)

KdfFairSpec == KdfSpec /\ Fairness

-----------------------------------------------------------------------------
(* Properties *)

\* The types of the members of the task, of the worker and of SignalClient.
KdfTypeOK ==
  /\ task \in Tasks
  /\ worker \in Workers
  /\ signal \in Signals
  /\ nextSalt \in 1 .. MaxSalt + 1

\* What the operation in progress needs: its kind, the salt the client holds
\* now and, for the handshake, the password that is set now.
Current(request) ==
  /\ request.op = signal.op
  /\ request.salt = signal.salt
  /\ signal.op = ServerAuth => request.password = signal.password

InHand == worker.pc \in {"hashing", "storing"} /\ worker.gen = task.gen

\* A password hash that reaches pollAuthTask was derived for the operation that
\* waits for it, with its salt and the password set now, whatever was
\* cancelled, restarted or replaced while Argon2 ran: "completed stale results
\* never reach the network thread".
ResultCurrent == task.ready => Current(task.result)

\* An operation that waits for a hash has exactly one request alive (queued, in
\* the worker's hands, or done), and it is the current one; an operation that
\* was cancelled has none.  No operation waits for a request that was lost.
OneLiveRequest ==
  /\ signal.op = 0 => ~task.queued /\ ~InHand /\ ~task.ready
  /\ signal.op # 0 =>
       \/ task.queued /\ ~InHand /\ ~task.ready /\ Current(task.request)
       \/ ~task.queued /\ InHand /\ ~task.ready /\ Current(worker.request)
       \/ ~task.queued /\ ~InHand /\ task.ready /\ Current(task.result)

\* A password rests in the task only while its request is queued, a hash only
\* until it is fetched; a cancellation wipes both.
SecretsWiped ==
  /\ ~task.queued => task.request = NoRequest
  /\ ~task.ready => task.result = NoRequest
  /\ worker.pc \notin {"hashing", "storing"} => worker.request = NoRequest

\* While a request is queued the worker is not asleep: start() cannot notify a
\* worker that has tested its predicate and not yet gone to sleep.  An order to
\* stop leaves a sleeping worker only until the notification that follows.
NoLostWakeup ==
  /\ task.queued => worker.pc \notin {"none", "asleep", "done"}
  /\ signal.phase = "Joining" => worker.pc # "asleep"

\* The inductive invariant.
AuthInv ==
  /\ KdfTypeOK
  /\ OneLiveRequest
  /\ SecretsWiped
  /\ NoLostWakeup
  /\ task.stop <=> ~Exists
  /\ worker.pc = "done" => task.stop
  /\ worker.gen <= task.gen
  /\ signal.op = ServerAuth => signal.phase = "Challenged"
  /\ signal.op \in RoomAuths => signal.phase = "Secure"
  /\ signal.phase = "Challenged" => signal.salt # 0

\* An operation that waits for a hash does not wait for ever: the hash arrives
\* or the operation is cancelled.
AuthCompletes == (signal.op # 0) ~> (signal.op = 0)

\* The destructor of the task, once begun, returns: the worker is woken, sees
\* m_stop and ends.
StopJoins == (signal.phase = "Stopping") ~> Joined
=============================================================================
