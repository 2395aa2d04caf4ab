------------------------------- MODULE GuiRoom -------------------------------
(***************************************************************************)
(* The room operation of the graphical client: RoomManager on the Qt       *)
(* thread, with its RoomOperationTracker, the connection attempts, the     *)
(* automatic reconnect and the recovery to the lobby, the part of          *)
(* MainWindow that drives it, and GuiTunLifecycleTask, the detached worker *)
(* that prepares, lends and cleans up the virtual adapter.                 *)
(*                                                                         *)
(* A slot or timer callback is one action; the members of RoomManager and  *)
(* of its SignalClient are the fields of one record, gui.  A callback      *)
(* reads the worker's snapshot at one instant.  QTcpSocket::abort emits    *)
(* disconnected from inside the call, so closing the socket runs           *)
(* onSignalDisconnected in the middle of the handler that closes it.       *)
(*                                                                         *)
(* A timer that compares m_connectionGeneration is in the state only while *)
(* it would still match.  PreparingAdapter and WaitingReadiness are the    *)
(* phase Preparing, a deadline is the flag late, and Cancelling lasts only *)
(* within beginRoomRecovery.  Whether a reconnect lease is still usable    *)
(* and the server accepts it is a choice made when the client logs in.     *)
(* m_tun is set and the data plane started in one callback, so an adapter  *)
(* error never meets m_roomReadinessPending and m_pendingTunError stays    *)
(* empty.                                                                  *)
(***************************************************************************)
EXTENDS Naturals

CONSTANT MaxAttempts  \* MAX_RECONNECT_ATTEMPTS

ASSUME MaxAttemptsAssumption == MaxAttempts \in Nat

VARIABLE gui

vars == <<gui>>

-----------------------------------------------------------------------------
(* GuiTunLifecycleTask *)

Stages == {"adapter-create", "network-configure", "session-start",
           "waiting-readiness"}

\* "publish": allowed() was true for the last time; "lent": the timed loop that
\* follows Ready; "thrown", "tested", "asleep": the untimed wait that follows an
\* exception after Ready.
Workers == Stages \cup {"none", "publish", "lent", "thrown", "tested", "asleep",
                        "cleaning", "done"}

Jobs ==
  [pc      : Workers,
   cancel  : BOOLEAN,   \* cancelRequested
   ready   : BOOLEAN,   \* value.ready, with value.adapter
   failed  : BOOLEAN,   \* value.failed
   broken  : BOOLEAN,   \* m_runtimeError of the backend
   adapter : BOOLEAN]   \* the backend holds an adapter

NoJob == [pc |-> "none", cancel |-> FALSE, ready |-> FALSE, failed |-> FALSE,
          broken |-> FALSE, adapter |-> FALSE]

NewJob == [NoJob EXCEPT !.pc = "adapter-create"]

\* requestCancel() stores the flag and notifies without the mutex: only a worker
\* that sleeps already is woken.
CancelJob(job) ==
  IF job.pc = "none" THEN job
  ELSE [job EXCEPT !.cancel = TRUE, !.pc = IF @ = "asleep" THEN "thrown" ELSE @]

AfterStage(stage) ==
  CASE stage = "adapter-create"    -> "network-configure"
    [] stage = "network-configure" -> "session-start"
    [] stage = "session-start"     -> "waiting-readiness"
    [] stage = "waiting-readiness" -> "publish"

Alive == gui.quit # "Done"

\* A native call of the stage returns: in time, or it has failed, thrown,
\* outlived the deadline or been cancelled.
WorkerStage ==
  LET job == gui.job
  IN /\ Alive /\ job.pc \in Stages
     /\ \/ /\ ~job.cancel
           /\ gui' = [gui EXCEPT !.job = [job EXCEPT !.pc = AfterStage(@),
                                                    !.adapter = TRUE]]
        \/ gui' = [gui EXCEPT !.job = [job EXCEPT !.pc = "cleaning",
                                                 !.failed = TRUE]]

\* Ready; the setup deadline applies no longer.
WorkerPublish ==
  /\ Alive /\ gui.job.pc = "publish"
  /\ gui' = [gui EXCEPT !.job.pc = "lent", !.job.ready = TRUE]

\* BUG: a cancel is noticed only when the adapter has failed.
WorkerLendBroken ==
  /\ Alive /\ gui.job.pc = "lent" /\ gui.job.broken
  /\ gui' = IF gui.job.cancel THEN [gui EXCEPT !.job.pc = "cleaning"]
                              ELSE [gui EXCEPT !.job.failed = TRUE]

\* One turn of the loop that lends the adapter, ended by a timed wait.
WorkerLend ==
  /\ Alive /\ gui.job.pc = "lent"
  /\ \/ /\ gui.job.cancel
        /\ gui' = [gui EXCEPT !.job.pc = "cleaning"]
     \/ /\ ~gui.job.cancel /\ gui.job.broken
        /\ gui' = [gui EXCEPT !.job.failed = TRUE]

\* An exception after Ready must not free the adapter.
WorkerThrow ==
  /\ Alive /\ gui.job.pc = "lent"
  /\ gui' = [gui EXCEPT !.job.pc = "thrown", !.job.failed = TRUE]

WorkerTest ==
  /\ Alive /\ gui.job.pc = "thrown"
  /\ gui' = [gui EXCEPT !.job.pc = IF gui.job.cancel THEN "cleaning" ELSE "tested"]

WorkerSleep ==
  /\ Alive /\ gui.job.pc = "tested"
  /\ gui' = [gui EXCEPT !.job.pc = "asleep"]

SpuriousWake ==
  /\ Alive /\ gui.job.pc = "asleep"
  /\ gui' = [gui EXCEPT !.job.pc = "thrown"]

\* owner->cleanup(), then ready is withdrawn and done published.
WorkerClean ==
  /\ Alive /\ gui.job.pc = "cleaning"
  /\ gui' = [gui EXCEPT !.job.pc = "done", !.job.ready = FALSE,
                        !.job.adapter = FALSE]

\* The adapter's read thread stops and says so.
AdapterBreaks ==
  /\ Alive /\ gui.job.pc = "lent" /\ ~gui.job.broken
  /\ gui' = [gui EXCEPT !.job.broken = TRUE]

-----------------------------------------------------------------------------
(* RoomManager *)

\* Up: the states in which the socket is connected.
Up == {"Connected", "Secure", "LoggedIn"}

Guis ==
  [job        : Jobs,      \* m_lifecycleTask
   phase      : {"Idle", "WaitingServer", "Preparing", "InRoom", "CleaningUp"},
   late       : BOOLEAN,   \* m_operation.expired(now)
   sock       : {"Off", "Connecting"} \cup Up,  \* SignalClient's socket and session
   asked      : BOOLEAN,   \* SignalClient::m_roomOperationPending
   block      : BOOLEAN,   \* SignalClient::m_blockRoomResponses
   conn       : {"Idle", "Resolving", "Connecting", "Connected"},
   more       : BOOLEAN,   \* another resolved address is left
   op         : BOOLEAN,   \* m_roomOperationPending
   readiness  : BOOLEAN,   \* m_roomReadinessPending
   poll       : BOOLEAN,   \* m_readinessTimer runs and its generations match
   ready      : BOOLEAN,   \* m_roomReady
   room       : BOOLEAN,   \* m_currentRoomId != 0
   tun        : BOOLEAN,   \* m_tun, borrowed from the task
   recovery   : BOOLEAN,   \* m_recoveryActive
   login      : BOOLEAN,   \* m_recoveryLoginScheduled
   loginTimer : BOOLEAN,   \* its timer
   attempt    : BOOLEAN,   \* m_recoveryLoginAttempt
   logout     : {"No", "Manual", "Recovery"},  \* m_logoutPending, and whose timer
   manual     : BOOLEAN,   \* m_manualDisconnecting
   want       : BOOLEAN,   \* m_wantReconnect
   scheduled  : BOOLEAN,   \* m_reconnectScheduled
   timers     : SUBSET {"Poll", "Delay"},      \* of scheduleReconnectAttempt
   attempts   : 0 .. MaxAttempts,              \* m_reconnectAttempts
   was        : BOOLEAN,   \* m_wasInRoom, with the saved room
   resume     : BOOLEAN,   \* m_pendingResumeRoom
   blocked    : BOOLEAN,   \* m_authRetryBlocked
   named      : BOOLEAN,   \* m_playerName is set
   pass       : BOOLEAN,   \* m_serverPassword is set
   deferred   : BOOLEAN,   \* a call of disconnectFromServer is posted
   quit       : {"No", "Asked", "Done"}]       \* m_quitRequested, QApplication::quit

Init ==
  gui = [job |-> NoJob, phase |-> "Idle", late |-> FALSE, sock |-> "Off",
         asked |-> FALSE, block |-> FALSE, conn |-> "Idle", more |-> FALSE,
         op |-> FALSE, readiness |-> FALSE, poll |-> FALSE, ready |-> FALSE,
         room |-> FALSE, tun |-> FALSE, recovery |-> FALSE, login |-> FALSE,
         loginTimer |-> FALSE, attempt |-> FALSE, logout |-> "No",
         manual |-> FALSE, want |-> FALSE, scheduled |-> FALSE, timers |-> {},
         attempts |-> 0, was |-> FALSE, resume |-> FALSE, blocked |-> FALSE,
         named |-> FALSE, pass |-> FALSE, deferred |-> FALSE, quit |-> "No"]

HasTask(s) == s.job.pc # "none"

Done(s) == s.job.pc = "done"

\* roomCleanupPending
CleanupPending(s) == HasTask(s) /\ ~Done(s) /\ s.phase = "CleaningUp"

\* roomOperationBusy
Busy(s) == s.op \/ s.recovery \/ (HasTask(s) /\ ~Done(s) /\ ~s.ready)

\* setRoomOperationPending
SetPending(s, pending) ==
  LET t == IF pending /\ s.phase = "Idle"
           THEN [s EXCEPT !.phase = "WaitingServer", !.late = FALSE] ELSE s
  IN [t EXCEPT !.op = pending \/ CleanupPending(t) \/ t.recovery]

\* ++m_connectionGeneration
NewGeneration(s) == [s EXCEPT !.loginTimer = FALSE, !.timers = {}, !.poll = FALSE]

\* BUG: the data plane keeps the adapter until the worker is done.
TeardownKeepingTun(s) ==
  LET t == [s EXCEPT !.ready = FALSE, !.readiness = FALSE, !.poll = FALSE,
                     !.late = FALSE, !.phase = "CleaningUp", !.job = CancelJob(@)]
  IN SetPending(IF HasTask(s) /\ ~Done(s) THEN t
                ELSE [t EXCEPT !.job = NoJob, !.phase = "Idle", !.tun = FALSE], FALSE)

\* teardownTun: the data plane lets go of the adapter, then the task is
\* cancelled; a task that is done is dropped at once.
TeardownTun(s) ==
  LET t == [s EXCEPT !.ready = FALSE, !.readiness = FALSE, !.poll = FALSE,
                     !.tun = FALSE, !.late = FALSE, !.phase = "CleaningUp",
                     !.job = CancelJob(@)]
  IN SetPending(IF HasTask(s) /\ ~Done(s) THEN t
                ELSE [t EXCEPT !.job = NoJob, !.phase = "Idle"], FALSE)

ResetRoomRuntimeState(s) ==
  [s EXCEPT !.room = FALSE, !.ready = FALSE, !.was = FALSE]

\* maybeFinishRoomRecovery: the old session is closed and the adapter gone; one
\* login to the lobby follows.
MaybeFinishRoomRecovery(s) ==
  LET t == SetPending([s EXCEPT !.job = NoJob, !.phase = "Idle", !.late = FALSE,
                                !.recovery = FALSE, !.manual = FALSE], FALSE)
  IN IF \/ ~s.recovery \/ s.logout # "No" \/ s.sock \in Up
        \/ HasTask(s) /\ ~Done(s)
     THEN s
     ELSE IF s.blocked \/ ~s.named \/ ~s.pass \/ s.login THEN t
     ELSE [t EXCEPT !.login = TRUE, !.loginTimer = TRUE]

MayRetry(s) == s.attempts < MaxAttempts

\* scheduleReconnectAttempt: while the adapter is cleaned up it only looks again
\* later.
Schedule(s) ==
  IF s.blocked \/ s.scheduled \/ ~s.want THEN s
  ELSE IF CleanupPending(s) THEN [s EXCEPT !.scheduled = TRUE, !.timers = @ \cup {"Poll"}]
  ELSE IF ~MayRetry(s) THEN [s EXCEPT !.want = FALSE, !.resume = FALSE]
  ELSE [NewGeneration(s) EXCEPT !.scheduled = TRUE, !.timers = {"Delay"}]

\* The socket is closed: what SignalClient forgets.
Unlinked(s) == [s EXCEPT !.sock = "Off", !.asked = FALSE, !.block = FALSE]

\* onSignalDisconnected; a connection that is still being made is left to
\* connectFailed.
SignalDisconnected(s) ==
  LET manual == s.manual \/ s.blocked
      t == [Unlinked(s) EXCEPT
             !.conn = "Idle",
             !.was = IF manual THEN FALSE ELSE IF s.want THEN @ ELSE s.ready]
      down == [TeardownTun(t) EXCEPT !.room = FALSE, !.logout = "No"]
  IN IF s.conn \in {"Connecting", "Resolving"} THEN Unlinked(s)
     ELSE IF s.recovery
     THEN MaybeFinishRoomRecovery(ResetRoomRuntimeState(
            [down EXCEPT !.manual = FALSE, !.want = FALSE]))
     ELSE IF s.attempt THEN [down EXCEPT !.attempt = FALSE, !.want = FALSE]
     ELSE IF manual THEN [down EXCEPT !.manual = FALSE]
     ELSE IF s.want THEN Schedule(down)
     ELSE IF s.named THEN Schedule([down EXCEPT !.want = TRUE, !.attempts = 0])
     ELSE down

\* SignalClient::disconnect
Disconnect(s) == IF s.sock \in Up THEN SignalDisconnected(s) ELSE Unlinked(s)

FinishManualDisconnect(s) ==
  MaybeFinishRoomRecovery(Disconnect([s EXCEPT !.logout = "No"]))

\* What a recovery forgets: earlier plans to reconnect and to rejoin.
Forget(s) == [s EXCEPT !.login = FALSE, !.attempt = FALSE, !.want = FALSE,
                       !.was = FALSE, !.resume = FALSE, !.scheduled = FALSE]

\* beginRoomRecovery
BeginRoomRecovery(s) ==
  LET t == ResetRoomRuntimeState(TeardownTun([Forget(s) EXCEPT
             !.recovery = TRUE, !.manual = TRUE, !.asked = FALSE, !.block = TRUE]))
  IN IF s.recovery THEN s
     ELSE IF s.sock \in Up THEN [t EXCEPT !.logout = "Recovery"]
     ELSE MaybeFinishRoomRecovery([t EXCEPT !.logout = "No"])

CancelConnectionAttempt(s) ==
  LET t == NewGeneration(s)
      u == IF s.readiness THEN ResetRoomRuntimeState(TeardownTun(t)) ELSE t
      v == IF u.sock = "Connecting" THEN Unlinked(u) ELSE u
  IN [v EXCEPT !.more = FALSE, !.scheduled = FALSE, !.conn = "Idle"]

\* SignalClient::setServerPassword closes a handshake that has sent its proof.
PasswordReplaced(s) ==
  {s} \cup (IF s.sock = "Connected" THEN {SignalDisconnected(s)} ELSE {})

\* disconnectFromServer
DisconnectFromServer(s) ==
  LET t == TeardownTun([CancelConnectionAttempt([s EXCEPT
             !.recovery = FALSE, !.login = FALSE, !.attempt = FALSE])
             EXCEPT !.want = FALSE, !.resume = FALSE, !.named = FALSE, !.pass = FALSE])
      Finish(u) ==
        CASE u.sock = "LoggedIn" /\ u.logout = "No" ->
               [u EXCEPT !.manual = TRUE, !.logout = "Manual", !.asked = FALSE,
                         !.block = TRUE]
          [] u.sock = "LoggedIn" /\ u.logout # "No" -> u
          [] OTHER -> FinishManualDisconnect([u EXCEPT !.manual = TRUE])
  IN {Finish(u) : u \in PasswordReplaced(t)}

\* resolveAndConnect: a name is looked up, an address used as it is.
ResolveAndConnect(s) ==
  LET t == [NewGeneration(s) EXCEPT !.scheduled = FALSE, !.more = FALSE]
  IN {[t EXCEPT !.conn = "Resolving"],
      [Unlinked(t) EXCEPT !.conn = "Connecting", !.sock = "Connecting"]}

\* handleConnectionAttemptExhausted
Exhausted(s) ==
  LET t == [s EXCEPT !.conn = "Idle"]
  IN IF s.attempt THEN [t EXCEPT !.attempt = FALSE, !.login = FALSE,
                                 !.want = FALSE, !.scheduled = FALSE]
     ELSE Schedule(t)

\* rollbackRoomAfterTunFailure
Rollback(s) ==
  IF s.sock \in Up THEN BeginRoomRecovery(s)
  ELSE ResetRoomRuntimeState(TeardownTun([s EXCEPT !.resume = FALSE]))

\* onTunRuntimeError of a room in use
RuntimeError(s) == ResetRoomRuntimeState(TeardownTun(s))

\* createRoom, joinRoom, and the request that SignalClient sends
RequestRoom(s) ==
  IF s.sock # "LoggedIn" \/ s.room \/ s.asked \/ Busy(s) THEN s
  ELSE [SetPending([s EXCEPT !.blocked = FALSE], TRUE)
          EXCEPT !.asked = TRUE, !.block = FALSE]

\* The slot of fatalAuthError
FatalAuthError(s) ==
  LET t == NewGeneration([s EXCEPT !.blocked = TRUE, !.want = FALSE,
             !.resume = FALSE, !.was = FALSE, !.scheduled = FALSE])
  IN IF s.readiness \/ s.op THEN ResetRoomRuntimeState(TeardownTun(t)) ELSE t

\* The slot of serverError.  A login that is refused for good is closed by a call
\* of disconnectFromServer that QTimer::singleShot(0) posts; calls posted in one
\* turn run one after the other, and the later ones change nothing.
ServerError(s) ==
  LET t == IF s.readiness THEN s ELSE SetPending(s, s.asked)
      u == [t EXCEPT !.resume = FALSE]
  IN IF s.phase = "WaitingServer" /\ ~s.blocked THEN BeginRoomRecovery(s)
     ELSE IF s.conn = "Connecting" /\ s.sock # "LoggedIn"
     THEN Schedule([Disconnect(t) EXCEPT !.conn = "Idle"])
     ELSE IF t.resume /\ t.was THEN [u EXCEPT !.want = TRUE]
     ELSE IF t.sock = "LoggedIn" THEN u
     ELSE IF t.want THEN Disconnect(u)
     ELSE [u EXCEPT !.deferred = TRUE]

-----------------------------------------------------------------------------
(* Signals of the connection *)

OnHostResolved ==
  /\ Alive /\ gui.conn = "Resolving"
  /\ \/ gui' = Exhausted(gui)
     \/ \E more \in BOOLEAN :
          gui' = [Unlinked(gui) EXCEPT !.conn = "Connecting", !.sock = "Connecting",
                                       !.more = more]

\* The next address is tried when the socket is refused or times out.
OnSignalConnectFailed ==
  /\ Alive /\ gui.sock = "Connecting"
  /\ gui' = IF gui.more THEN [gui EXCEPT !.more = FALSE] ELSE Exhausted(Unlinked(gui))

\* The socket is connected; the handshake begins.
OnSocketConnected ==
  /\ Alive /\ gui.sock = "Connecting"
  /\ gui' = [gui EXCEPT !.sock = "Connected"]

\* promptServerPassword
PromptServerPassword ==
  /\ Alive /\ gui.sock = "Connected" /\ ~gui.pass
  /\ \/ gui' = [gui EXCEPT !.pass = TRUE, !.blocked = FALSE]
     \/ gui' \in DisconnectFromServer(gui)

\* onSignalConnected: the session is secure and the login is sent.
OnSignalConnected ==
  /\ Alive /\ gui.sock = "Connected" /\ gui.pass
  /\ gui' = [gui EXCEPT !.sock = "Secure", !.conn = "Connected", !.scheduled = FALSE]

\* The connection breaks, a frame is malformed or nothing arrives any more.
OnSignalDisconnected ==
  /\ Alive /\ gui.sock \in Up
  /\ gui' = SignalDisconnected(gui)

\* onRecvTimeoutCheck is all that ends a logout whose own timer is void, because
\* the recovery that sent it was given up.
RecvTimeout == gui.logout = "Recovery" /\ ~gui.recovery /\ OnSignalDisconnected

\* failAuthentication: in the handshake, or for a frame out of order.
OnFatalAuthError ==
  /\ Alive /\ gui.sock \in Up
  /\ gui' = Disconnect(ServerError(FatalAuthError(gui)))

\* The server refuses the handshake or the login, for now.
OnServerError ==
  /\ Alive /\ gui.sock \in {"Connected", "Secure"} /\ ~gui.block
  /\ gui' = ServerError(gui)

\* BUG: the login of a recovery rejoins the room.
LobbyOnlyNever(s) == [s EXCEPT !.attempt = FALSE]

\* The login of a recovery ends in the lobby.
LobbyOnly(s) ==
  IF s.attempt THEN [s EXCEPT !.attempt = FALSE, !.want = FALSE, !.was = FALSE,
                              !.resume = FALSE]
  ELSE s

\* resumeRoom of SignalClient, between two setRoomOperationPending
ResumeRoom(s) ==
  LET t == SetPending([s EXCEPT !.resume = TRUE], TRUE)
  IN SetPending([t EXCEPT !.asked = TRUE, !.block = FALSE], TRUE)

\* onLoginResponse: a client that was in a room resumes its lease or looks for
\* the room by name; without a lease, after the last attempt, it does neither.
OnLoginResponse ==
  LET s == LobbyOnly([gui EXCEPT !.sock = "LoggedIn"])
      outcomes == IF s.was
                  THEN {ResumeRoom(s), [s EXCEPT !.want = TRUE]}
                         \cup (IF s.want THEN {} ELSE {s})
                  ELSE {[s EXCEPT !.want = FALSE]}
  IN /\ Alive /\ gui.sock = "Secure"
     /\ \E t \in outcomes :
          \/ gui' = t
          \/ gui' \in DisconnectFromServer(t)  \* installSecureSession failed

\* The slot of roomList, with handleReconnectRoomList; otherwise it is shown.
OnRoomList ==
  LET t == [gui EXCEPT !.want = FALSE]
  IN /\ Alive /\ gui.sock = "LoggedIn"
     /\ ~gui.resume /\ gui.want /\ gui.was
     /\ gui' = t \/ gui' = RequestRoom(t)

\* The server answers requests in order, and none after LOGOUT.
Answers == Alive /\ gui.sock = "LoggedIn" /\ gui.logout = "No" /\ ~gui.block

\* beginRoomReadiness with setupTun, which fails when the server lies within the
\* virtual network, an earlier task is left or no thread can be created.
BeginRoomReadiness(s) ==
  LET t == [SetPending([s EXCEPT !.phase = "Preparing", !.late = FALSE,
                                 !.ready = FALSE, !.readiness = TRUE], TRUE)
              EXCEPT !.poll = TRUE]
  IN IF s.phase # "WaitingServer" \/ s.late THEN {BeginRoomRecovery(s)}
     ELSE {Rollback(t)} \cup (IF HasTask(s) THEN {} ELSE {[t EXCEPT !.job = NewJob]})

\* An answer that is not taken for the operation in progress.
Ignored(s) == ~s.op \/ s.manual \/ s.recovery \/ s.readiness \/ s.ready

\* onRoomCreated and onJoinResponse
OnRoomResponse(joined) ==
  LET s == [gui EXCEPT !.asked = FALSE]
  IN /\ Answers /\ gui.asked
     /\ IF Ignored(s) THEN gui' = s
        ELSE gui' \in BeginRoomReadiness([s EXCEPT !.room = TRUE,
                        !.resume = @ /\ ~joined, !.want = @ /\ ~joined])

\* roomOperationUncertain: an error that may belong to the request, or a
\* challenge or a derived key after the deadline.
OnRoomOperationUncertain ==
  /\ Answers /\ gui.asked
  /\ gui' = BeginRoomRecovery([gui EXCEPT !.asked = FALSE, !.block = TRUE])

\* ERROR, wrong room password: both signals are emitted.
OnRoomPasswordError ==
  /\ Answers /\ gui.asked
  /\ gui' = ServerError(FatalAuthError([gui EXCEPT !.asked = FALSE]))

OnLogoutAck ==
  /\ Alive /\ gui.sock = "LoggedIn" /\ gui.logout # "No"
  /\ gui' = FinishManualDisconnect(gui)

\* onSecurityFailure: the data plane needs a new session.
OnSecurityFailure ==
  /\ Alive /\ gui.sock \in Up /\ gui.ready /\ ~gui.manual
  /\ gui' = Disconnect(gui)

\* errorOccurred of the borrowed adapter
OnTunRuntimeError ==
  /\ Alive /\ gui.tun /\ gui.ready /\ gui.job.broken
  /\ gui' = RuntimeError(gui)

-----------------------------------------------------------------------------
(* Timers *)

\* disconnectFromServer, posted by the slot of serverError
DeferredDisconnect ==
  /\ Alive /\ gui.deferred
  /\ gui' \in DisconnectFromServer([gui EXCEPT !.deferred = FALSE])

\* BUG: only a manual logout is given up.
LogoutDeadlineManual ==
  /\ Alive /\ gui.logout = "Manual"
  /\ gui' = FinishManualDisconnect(gui)

\* One second without LOGOUT_ACK.
LogoutDeadline ==
  /\ Alive
  /\ gui.logout = "Manual" \/ (gui.logout = "Recovery" /\ gui.recovery)
  /\ gui' = FinishManualDisconnect(gui)

\* The clock reaches the deadline of the phase.
DeadlinePasses ==
  /\ Alive /\ gui.phase \in {"WaitingServer", "Preparing"} /\ ~gui.late
  /\ gui' = [gui EXCEPT !.late = TRUE]

\* BUG: the deadline counts only while the adapter is prepared.
OverduePreparing(s) == s.late /\ s.phase = "Preparing"

Overdue(s) == s.late

\* BUG: a task that is done is dropped whoever still waits for its result.
PolledDropping(s) ==
  LET a == IF s.ready /\ s.job.failed THEN RuntimeError(s) ELSE s
      b == IF Overdue(a) THEN BeginRoomRecovery(a) ELSE a
      c == IF Done(b) /\ ~b.ready THEN [b EXCEPT !.job = NoJob] ELSE b
  IN MaybeFinishRoomRecovery(c)

\* pollRoomOperation, every 100 ms
Polled(s) ==
  LET a == IF s.ready /\ s.job.failed THEN RuntimeError(s) ELSE s
      b == IF Overdue(a) THEN BeginRoomRecovery(a) ELSE a
      c == IF Done(b) /\ ~b.ready /\ ~b.readiness THEN [b EXCEPT !.job = NoJob] ELSE b
      d == IF c.phase = "CleaningUp" /\ ~HasTask(c) /\ c.logout = "No"
           THEN SetPending([c EXCEPT !.phase = "Idle"], FALSE) ELSE c
  IN MaybeFinishRoomRecovery(d)

PollRoomOperation == Alive /\ Polled(gui) # gui /\ gui' = Polled(gui)

\* completeRoomReadiness
CompleteRoomReadiness(s) ==
  IF s.late \/ s.phase # "Preparing" THEN BeginRoomRecovery(s)
  ELSE SetPending([s EXCEPT !.phase = "InRoom", !.readiness = FALSE, !.poll = FALSE,
                            !.ready = TRUE], FALSE)

\* pollRoomReadiness and pollTunReadiness, every 100 ms: the adapter is borrowed
\* and the data plane started, or the room given up.
PollRoomReadiness ==
  /\ Alive /\ gui.poll /\ gui.readiness
  /\ \/ /\ gui.job.ready /\ ~gui.job.failed
        /\ \E started \in BOOLEAN :
             LET t == [gui EXCEPT !.tun = TRUE]
             IN gui' = IF started THEN CompleteRoomReadiness(t) ELSE Rollback(t)
     \/ /\ gui.job.failed \/ gui.job.pc \in {"none", "done"}
        /\ gui' = Rollback(gui)

\* The timers of scheduleReconnectAttempt
ReconnectPoll ==
  /\ Alive /\ "Poll" \in gui.timers
  /\ gui' = Schedule([gui EXCEPT !.timers = @ \ {"Poll"}, !.scheduled = FALSE])

ReconnectDelay ==
  LET t == [gui EXCEPT !.timers = @ \ {"Delay"}, !.scheduled = FALSE]
  IN /\ Alive /\ "Delay" \in gui.timers
     /\ IF t.sock # "Off" \/ ~t.named \/ ~t.want THEN gui' = t
        ELSE gui' \in ResolveAndConnect([t EXCEPT !.attempts = @ + 1])

\* The one login that follows a recovery
RecoveryLogin ==
  LET t == [gui EXCEPT !.loginTimer = FALSE]
  IN /\ Alive /\ gui.loginTimer
     /\ IF ~t.login \/ t.sock \in Up \/ CleanupPending(t) THEN gui' = t
        ELSE gui' \in ResolveAndConnect([t EXCEPT !.login = FALSE, !.attempt = TRUE])

-----------------------------------------------------------------------------
(* Commands of the user; none is given once the program is to quit *)

User == gui.quit = "No"

\* isConnecting
Connecting(s) ==
  s.conn \in {"Resolving", "Connecting"} \/ s.scheduled \/ s.sock = "Connecting"

\* onConnectClicked: setServerAddress and connectAndLogin, or a disconnect.
OnConnectClicked ==
  LET Addressed == {gui, [CancelConnectionAttempt(gui) EXCEPT !.pass = FALSE]}
      Begin(s) == TeardownTun([s EXCEPT !.login = FALSE, !.attempt = FALSE,
                                        !.blocked = FALSE, !.named = TRUE])
  IN /\ User
     /\ IF gui.sock \in Up \/ Connecting(gui) THEN gui' \in DisconnectFromServer(gui)
        ELSE \E s \in Addressed :
               IF CleanupPending(s) THEN gui' = s
               ELSE gui' \in ResolveAndConnect(Begin(s))

\* onCreateRoomClicked, onJoinRoomClicked
OnRoomClicked ==
  /\ User /\ gui.sock = "LoggedIn" /\ RequestRoom(gui) # gui
  /\ gui' = RequestRoom(gui)

\* onLeaveRoomClicked, leaveRoom
OnLeaveRoomClicked ==
  LET s == IF gui.asked THEN [gui EXCEPT !.want = FALSE, !.manual = TRUE] ELSE gui
      t == IF gui.asked THEN Disconnect(s) ELSE s
  IN /\ User /\ (gui.ready \/ gui.op)
     /\ gui' = IF /\ gui.op /\ ~gui.ready
                  /\ gui.sock \in Up \/ gui.phase = "WaitingServer"
               THEN BeginRoomRecovery(gui)
               ELSE ResetRoomRuntimeState(TeardownTun([t EXCEPT !.resume = FALSE]))

\* quitProgram
QuitProgram ==
  /\ User
  /\ \E t \in DisconnectFromServer(gui) : gui' = [t EXCEPT !.quit = "Asked"]

\* finishProgramQuit, every 100 ms
FinishProgramQuit ==
  /\ gui.quit = "Asked" /\ ~Busy(gui)
  /\ gui' = [gui EXCEPT !.quit = "Done"]

\* The process has ended.
Ended == gui.quit = "Done" /\ UNCHANGED gui

Next ==
  \/ WorkerStage
  \/ WorkerPublish
  \/ WorkerLend
  \/ WorkerThrow
  \/ WorkerTest
  \/ WorkerSleep
  \/ SpuriousWake
  \/ WorkerClean
  \/ AdapterBreaks
  \/ OnHostResolved
  \/ OnSignalConnectFailed
  \/ OnSocketConnected
  \/ PromptServerPassword
  \/ OnSignalConnected
  \/ OnSignalDisconnected
  \/ OnFatalAuthError
  \/ OnServerError
  \/ OnLoginResponse
  \/ OnRoomList
  \/ \E joined \in BOOLEAN : OnRoomResponse(joined)
  \/ OnRoomOperationUncertain
  \/ OnRoomPasswordError
  \/ OnLogoutAck
  \/ OnSecurityFailure
  \/ OnTunRuntimeError
  \/ DeferredDisconnect
  \/ LogoutDeadline
  \/ DeadlinePasses
  \/ PollRoomOperation
  \/ PollRoomReadiness
  \/ ReconnectPoll
  \/ ReconnectDelay
  \/ RecoveryLogin
  \/ OnConnectClicked
  \/ OnRoomClicked
  \/ OnLeaveRoomClicked
  \/ QuitProgram
  \/ FinishProgramQuit
  \/ Ended

Spec == Init /\ [][Next]_vars

\* The worker is scheduled and its native calls return; every timer of the Qt
\* thread fires; a connection attempt ends, if only by its timeout, and so does
\* the silence of a server after LOGOUT.  Neither the server, the user, a spurious
\* wake-up nor the posted call of disconnectFromServer is counted on.
Fairness ==
  /\ WF_vars(WorkerStage)
  /\ WF_vars(WorkerPublish)
  /\ WF_vars(WorkerLend)
  /\ WF_vars(WorkerTest)
  /\ WF_vars(WorkerSleep)
  /\ WF_vars(WorkerClean)
  /\ WF_vars(OnHostResolved)
  /\ WF_vars(OnSignalConnectFailed \/ OnSocketConnected)
  /\ WF_vars(RecvTimeout)
  /\ WF_vars(LogoutDeadline)
  /\ WF_vars(DeadlinePasses)
  /\ WF_vars(PollRoomOperation)
  /\ WF_vars(PollRoomReadiness)
  /\ WF_vars(ReconnectPoll)
  /\ WF_vars(ReconnectDelay)
  /\ WF_vars(RecoveryLogin)
  /\ WF_vars(FinishProgramQuit)

FairSpec == Spec /\ Fairness

-----------------------------------------------------------------------------
(* Properties *)

\* Every member keeps its type, and a lost connection is retried at most
\* MAX_RECONNECT_ATTEMPTS times.
TypeOK == gui \in Guis

\* The adapter the data plane uses is alive, and its worker keeps it: neither a
\* failure, a cancel, an exception after Ready nor the end of the program frees
\* an adapter that is still borrowed or leaves one behind.
AdapterBorrowed ==
  /\ gui.tun => /\ gui.job.adapter /\ gui.job.ready /\ ~gui.job.cancel
                /\ gui.job.pc \in {"lent", "thrown", "tested", "asleep"}
  /\ gui.quit = "Done" => ~gui.job.adapter

\* After a cancelled or failed operation the client only logs in to the lobby:
\* during the recovery nothing is left that would reconnect, rejoin or create a
\* room by itself, and the login that ends it asks for no room.
NoReplay ==
  [][/\ gui'.recovery => ~gui'.want /\ ~gui'.was /\ ~gui'.resume
     /\ gui.attempt /\ gui'.sock = "LoggedIn" =>
          ~gui'.want /\ ~gui'.was /\ ~gui'.asked]_vars

\* The tracker, the flags and the task agree: an adapter is awaited only while a
\* task works on it or has left its result, a room in use has its adapter, and a
\* client that is logged in and whose adapter is gone is not left in CleaningUp.
\* It says nothing of m_manualDisconnecting, which a logout without a connection
\* leaves set, so that the next answer may still be ignored.
PhaseMatches ==
  /\ gui.readiness => gui.phase = "Preparing" /\ gui.op /\ HasTask(gui)
  /\ gui.ready <=> gui.phase = "InRoom"
  /\ gui.ready => gui.tun /\ gui.room
  /\ gui.sock = "LoggedIn" /\ ~HasTask(gui) /\ gui.logout = "No" /\ ~gui.recovery
       => gui.phase # "CleaningUp"

\* The members of RoomManager have their types and agree with each other.
FlagsAgree == TypeOK /\ PhaseMatches

\* Every room operation ends in time, whatever the server and the worker do.
OperationResolves ==
  (gui.phase \in {"WaitingServer", "Preparing"})
    ~> (gui.phase \notin {"WaitingServer", "Preparing"})

\* The worker has thrown after Ready: its wait for the cancel is not timed.
Thrown == gui.job.pc \in {"thrown", "tested", "asleep"}

\* The old session is closed, and the user has connected again in the tenth of a
\* second between the end of the cleanup and the poll that would see it: the
\* recovery then lasts as long as that connection.
ConnectedByHand == gui.logout = "No" /\ gui.conn # "Idle"

\* A recovery ends: the old session is closed even when LOGOUT_ACK never arrives,
\* and the adapter is gone, unless its worker has thrown after Ready.
RecoveryEnds == gui.recovery ~> (~gui.recovery \/ Thrown \/ ConnectedByHand)

\* The program ends once it is to quit: its wait for the adapter's worker, the
\* logout and the operation in progress is over at some time.
QuitCompletes == (gui.quit = "Asked") ~> (gui.quit = "Done" \/ Thrown)

\* A lost connection is retried until it is made again or the attempts are used
\* up: no failure on the way stops the client in the middle of an attempt.
\* Does not hold (README, 3.3).
ReconnectContinues ==
  (gui.want /\ gui.sock = "Off") ~> (~gui.want \/ gui.sock # "Off")

\* The answer to the request the client waits for is not taken for a late one.
\* Does not hold (README, 3.3).
AnswersAccepted ==
  Answers /\ gui.asked /\ gui.phase = "WaitingServer"
    => ~Ignored([gui EXCEPT !.asked = FALSE])

=============================================================================
