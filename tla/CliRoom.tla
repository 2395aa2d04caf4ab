------------------------------- MODULE CliRoom -------------------------------
(***************************************************************************)
(* The room operation of the command line client: CliApp's event loop with *)
(* its RoomOperationTracker, the recovery to the lobby and the automatic   *)
(* reconnect, and CliTunLifecycleJob, the worker thread that prepares,     *)
(* lends and cleans up the virtual adapter.                                *)
(*                                                                         *)
(* The event loop is one thread, so a handler is one action and CliApp's   *)
(* members are the fields of one record, cli.  The worker shares only its  *)
(* job with the loop (m_cancel, m_done, the event queue), so a handler is  *)
(* cut only where it looks at the job twice: pollRoomOperation empties the *)
(* queue first and asks whether the job is done afterwards.  cancel() does *)
(* not take m_mutex: the worker's test of its predicate and its going to   *)
(* sleep are two steps.                                                    *)
(*                                                                         *)
(* PreparingAdapter and WaitingReadiness are the phase Preparing: no code  *)
(* tells them apart but their deadlines, and a deadline is the flag late.  *)
(* Cancelling lasts only within recoverRoomOperation.  The generation of a *)
(* setup is compared only for equality: the job is current or not.         *)
(***************************************************************************)
EXTENDS Naturals

CONSTANT MaxAttempts  \* MAX_RECONNECT_ATTEMPTS

ASSUME MaxAttemptsAssumption == MaxAttempts \in Nat

VARIABLE cli

vars == <<cli>>

-----------------------------------------------------------------------------
(* CliTunLifecycleJob *)

Stages == {"prepare-adapter", "configure-network", "start-session",
           "waiting-readiness"}

\* "lent": Ready is published and the predicate is to be tested; "tested": it
\* was false; "asleep": the worker waits for a notification.
Jobs ==
  [pc      : Stages \cup {"none", "lent", "tested", "asleep", "cleaning", "done"},
   current : BOOLEAN,                     \* event.generation == m_tunSetupGeneration
   cancel  : BOOLEAN,                     \* m_cancel
   events  : SUBSET {"Ready", "Failed"},  \* Progress and Cleaned are only logged
   adapter : BOOLEAN]                     \* the backend holds an adapter

NoJob == [pc |-> "none", current |-> FALSE, cancel |-> FALSE,
          events |-> {}, adapter |-> FALSE]

NewJob == [NoJob EXCEPT !.pc = "prepare-adapter", !.current = TRUE]

\* start() when no thread can be created.
UnstartedJob == [NoJob EXCEPT !.pc = "done", !.current = TRUE, !.events = {"Failed"}]

\* cancel(): notify_all reaches a worker only when it is asleep already.
CancelJob(job) ==
  [job EXCEPT !.cancel = TRUE, !.current = FALSE,
              !.pc = IF @ = "asleep" THEN "lent" ELSE @]

AfterStage(stage) ==
  CASE stage = "prepare-adapter"   -> "configure-network"
    [] stage = "configure-network" -> "start-session"
    [] stage = "start-session"     -> "waiting-readiness"
    [] stage = "waiting-readiness" -> "lent"

\* A native call returns.  It has failed, thrown, or outlived the deadline, or
\* the job was cancelled meanwhile (only an exception is then reported).
WorkerStage ==
  LET job == cli.job
  IN /\ job.pc \in Stages
     /\ \/ /\ ~job.cancel
           /\ cli' = [cli EXCEPT !.job = [job EXCEPT
                !.pc = AfterStage(@), !.adapter = TRUE,
                !.events = IF job.pc = "waiting-readiness" THEN @ \cup {"Ready"} ELSE @]]
        \/ \E reported \in BOOLEAN :
             /\ reported \/ job.cancel
             /\ cli' = [cli EXCEPT !.job = [job EXCEPT
                  !.pc = "cleaning",
                  !.events = IF reported THEN @ \cup {"Failed"} ELSE @]]

WorkerTest ==
  /\ cli.job.pc = "lent"
  /\ cli' = [cli EXCEPT !.job.pc = IF cli.job.cancel THEN "cleaning" ELSE "tested"]

WorkerSleep ==
  /\ cli.job.pc = "tested"
  /\ cli' = [cli EXCEPT !.job.pc = "asleep"]

SpuriousWake ==
  /\ cli.job.pc = "asleep"
  /\ cli' = [cli EXCEPT !.job.pc = "lent"]

WorkerClean ==
  /\ cli.job.pc = "cleaning"
  /\ cli' = [cli EXCEPT !.job.pc = "done", !.job.adapter = FALSE]

-----------------------------------------------------------------------------
(* CliApp *)

Clis ==
  [job       : Jobs,       \* m_tunJob
   phase     : {"Idle", "WaitingServer", "Preparing", "InRoom", "CleaningUp"},
   late      : BOOLEAN,    \* m_roomOperation.expired(now)
   polling   : BOOLEAN,    \* pollRoomOperation is between popAll and done
   link      : {"Off", "Connecting", "Connected", "LoggedIn"},  \* m_signal
   asked     : BOOLEAN,    \* m_signal.roomOperationPending()
   pending   : BOOLEAN,    \* m_tunSetupPending
   room      : BOOLEAN,    \* m_currentRoomId != 0
   ready     : BOOLEAN,    \* m_roomReady
   tun       : BOOLEAN,    \* m_tun, borrowed from the job
   recovery  : BOOLEAN,    \* m_roomRecovery
   scheduled : BOOLEAN,    \* m_roomRecoveryScheduled
   attempt   : BOOLEAN,    \* m_roomRecoveryAttempt
   logout    : BOOLEAN,    \* m_logoutPending
   manual    : BOOLEAN,    \* m_manualDisconnecting
   exit      : BOOLEAN,    \* m_exitAfterDisconnect
   stop      : BOOLEAN,    \* m_stopAfterCleanup
   running   : BOOLEAN,    \* m_running
   want      : BOOLEAN,    \* m_wantReconnect
   was       : BOOLEAN,    \* m_wasInRoom, with a lease or a saved room
   blocked   : BOOLEAN,    \* m_authRetryBlocked
   attempts  : 0 .. MaxAttempts]  \* m_reconnectAttempts

Init ==
  cli = [job |-> NoJob, phase |-> "Idle", late |-> FALSE, polling |-> FALSE,
         link |-> "Connecting", asked |-> FALSE, pending |-> FALSE,
         room |-> FALSE, ready |-> FALSE, tun |-> FALSE, recovery |-> FALSE,
         scheduled |-> FALSE, attempt |-> FALSE, logout |-> FALSE,
         manual |-> FALSE, exit |-> FALSE, stop |-> FALSE, running |-> TRUE,
         want |-> FALSE, was |-> FALSE, blocked |-> FALSE, attempts |-> 0]

HasJob(s) == s.job.pc # "none"

\* m_stopAfterCleanup is tested at the end of every turn of the loop; what the
\* handlers of that turn still do is lost with the loop.
StopDue(s) == s.stop /\ ~HasJob(s) /\ ~s.logout

\* The event loop is between two handlers.
Turn == cli.running /\ ~cli.polling /\ ~StopDue(cli)

\* teardownTun: the adapter is given back before the job is cancelled.
TeardownTun(s) ==
  LET t == [s EXCEPT !.pending = FALSE, !.tun = FALSE, !.late = FALSE]
  IN IF HasJob(s) THEN [t EXCEPT !.phase = "CleaningUp", !.job = CancelJob(@)]
                  ELSE [t EXCEPT !.phase = "Idle"]

ResetRoomRuntimeState(s) ==
  [s EXCEPT !.room = FALSE, !.ready = FALSE, !.was = FALSE]

\* m_signal.disconnect() tells nobody.
Unlinked(s) == [s EXCEPT !.link = "Off", !.asked = FALSE]

CompleteRoomRecovery(s) ==
  [Unlinked(s) EXCEPT !.recovery = FALSE, !.logout = FALSE, !.manual = FALSE,
                      !.phase = IF HasJob(s) THEN @ ELSE "Idle",
                      !.scheduled = ~s.blocked]

\* BUG: the reconnect that was under way goes on.
ForgetRoomOnly(s) == [s EXCEPT !.attempt = FALSE, !.scheduled = FALSE, !.was = FALSE]

\* What a recovery forgets: earlier plans to reconnect and to rejoin.
Forget(s) == [s EXCEPT !.attempt = FALSE, !.scheduled = FALSE,
                       !.want = FALSE, !.was = FALSE]

RecoverRoomOperation(s) ==
  LET t == ResetRoomRuntimeState(TeardownTun([Forget(s) EXCEPT
             !.recovery = TRUE, !.manual = TRUE, !.asked = FALSE]))
  IN IF s.recovery \/ s.phase = "CleaningUp" THEN s
     ELSE IF s.link = "LoggedIn" THEN [t EXCEPT !.logout = TRUE]
     ELSE CompleteRoomRecovery(t)

\* beginRoomRequest, and the request that follows when it succeeds.
BeginRoomRequest(s) ==
  IF ~HasJob(s) /\ ~s.recovery /\ s.phase = "Idle"
  THEN [s EXCEPT !.phase = "WaitingServer", !.late = FALSE, !.asked = TRUE]
  ELSE s

\* finishGracefulDisconnect
Disconnected(s) ==
  LET t == Unlinked(TeardownTun([s EXCEPT !.logout = FALSE]))
  IN IF s.recovery THEN CompleteRoomRecovery(s)
     ELSE IF s.exit
     THEN [t EXCEPT !.stop = TRUE, !.running = HasJob(s)]
     ELSE [t EXCEPT !.manual = FALSE, !.room = FALSE, !.was = FALSE]

BeginGracefulDisconnect(s, exit) ==
  LET t == TeardownTun([Forget([s EXCEPT !.recovery = FALSE]) EXCEPT
             !.was = s.was, !.manual = TRUE, !.exit = exit])
  IN IF s.link = "LoggedIn" THEN [t EXCEPT !.logout = TRUE, !.asked = FALSE]
     ELSE Disconnected(t)

\* What comes of resolving the server's name and of connectTo.
Outcomes == {"unresolved", "refused", "begun"}

\* doConnect
DoConnect(s, outcome) ==
  LET t == [s EXCEPT !.blocked = FALSE, !.scheduled = @ /\ s.attempt]
  IN IF s.link \in {"Connected", "LoggedIn"} \/ HasJob(s) \/ outcome = "unresolved"
     THEN t
     ELSE [TeardownTun(t) EXCEPT !.link = IF outcome = "begun" THEN "Connecting" ELSE "Off"]

\* onConnectFailed
ConnectFailed(s) ==
  [Unlinked(s) EXCEPT !.attempt = FALSE, !.want = @ /\ ~s.attempt]

\* onSignalDisconnected
SignalDisconnected(s) ==
  LET t      == Unlinked(s)
      manual == s.manual \/ s.blocked
      down   == [TeardownTun([t EXCEPT
                   !.was = CASE manual  -> FALSE
                             [] ~manual -> IF s.want THEN @ ELSE s.ready /\ s.room])
                 EXCEPT !.room = FALSE, !.ready = FALSE, !.logout = FALSE]
  IN CASE s.recovery -> CompleteRoomRecovery(t)
       [] ~s.recovery /\ s.attempt ->
            ResetRoomRuntimeState(TeardownTun([t EXCEPT
              !.attempt = FALSE, !.want = FALSE, !.manual = FALSE]))
       [] ~s.recovery /\ ~s.attempt /\ ~manual
            /\ s.phase \in {"WaitingServer", "Preparing"} -> RecoverRoomOperation(t)
       [] OTHER ->
            IF manual
            THEN [down EXCEPT !.manual = FALSE, !.stop = @ \/ s.exit,
                              !.running = ~s.exit \/ HasJob(s)]
            ELSE [down EXCEPT !.want = TRUE,
                              !.attempts = IF s.want THEN @ ELSE 0]

\* onFatalAuthError
Blocked(s) ==
  [s EXCEPT !.blocked = TRUE, !.want = FALSE, !.was = FALSE,
            !.scheduled = FALSE, !.attempt = FALSE,
            !.phase = IF ~HasJob(s) /\ ~s.ready THEN "Idle" ELSE @,
            !.late = IF ~HasJob(s) /\ ~s.ready THEN FALSE ELSE @]

-----------------------------------------------------------------------------
(* Events of the connection *)

\* The socket is connected; authentication and the login begin.
OnConnected ==
  /\ Turn /\ cli.link = "Connecting"
  /\ cli' = [cli EXCEPT !.link = "Connected"]

\* The connection cannot be made.  After a timeout that is all; select reports
\* a socket that was refused writable and readable, so that onReadable runs in
\* the same turn on the connection that onWritable has just closed.
OnConnectFailed ==
  /\ Turn /\ cli.link = "Connecting"
  /\ \/ cli' = ConnectFailed(cli)
     \/ cli' = SignalDisconnected(ConnectFailed(cli))

\* The server refuses the login with an error that is not fatal.
OnServerError ==
  /\ Turn /\ cli.link = "Connected"
  /\ cli' = ConnectFailed(cli)

\* The connection breaks, a frame is refused or the session must be renewed.
OnSignalDisconnected ==
  /\ Turn /\ cli.link \in {"Connected", "LoggedIn"}
  /\ cli' = SignalDisconnected(cli)

\* failAuthentication: the proof, a key derivation or the order of the messages
\* fails, or the server reports a fatal error, before or after the login.
OnFatalAuthError ==
  /\ Turn /\ cli.link \in {"Connected", "LoggedIn"}
  /\ cli' = SignalDisconnected(Blocked(cli))

\* LOGIN_RESP: after a recovery the client stays in the lobby; a client that
\* was in a room resumes its lease, or searches the room by name, or neither
\* lease nor name is usable any more.
OnLoginResponse ==
  LET s == [cli EXCEPT !.link = "LoggedIn"]
      t == IF s.attempt THEN [s EXCEPT !.attempt = FALSE, !.want = FALSE, !.was = FALSE]
                        ELSE s
  IN /\ Turn /\ cli.link = "Connected"
     /\ \/ cli' = BeginGracefulDisconnect(t, FALSE)  \* installSecureSession failed
        \/ t.was /\ cli' = BeginRoomRequest(t)
        \/ t.was /\ cli' = [t EXCEPT !.want = TRUE]
        \/ cli' = [t EXCEPT !.want = FALSE]

\* handleReconnectRoomList; while a resume is pending the list is only shown.
OnRoomList ==
  LET t == [cli EXCEPT !.want = FALSE]
  IN /\ Turn /\ cli.link = "LoggedIn"
     /\ cli.want /\ cli.was /\ cli.phase # "WaitingServer"
     /\ cli' = t \/ cli' = BeginRoomRequest(t)

\* beginTunReadiness
BeginTunReadiness(s, started) ==
  LET t == [s EXCEPT !.pending = TRUE, !.ready = FALSE]
  IN IF HasJob(s) THEN RecoverRoomOperation(t)
     ELSE [t EXCEPT !.job = IF started THEN NewJob ELSE UnstartedJob]

\* The server answers requests in order, and none after LOGOUT.
Answered == cli.link = "LoggedIn" /\ ~cli.logout

\* ROOM_CREATED or JOIN_RESP
OnRoomResponse(joined) ==
  LET s == [cli EXCEPT !.asked = FALSE]
      t == [s EXCEPT !.phase = "Preparing", !.room = TRUE, !.want = @ /\ ~joined]
  IN /\ Turn /\ cli.asked /\ Answered
     /\ IF cli.late THEN cli' = RecoverRoomOperation(s)
        ELSE IF \/ cli.phase # "WaitingServer"
                \/ cli.pending \/ cli.ready \/ cli.room \/ cli.recovery
        THEN cli' = s
        ELSE \/ \E started \in BOOLEAN : cli' = BeginTunReadiness(t, started)
             \/ cli' = RecoverRoomOperation([t EXCEPT !.pending = TRUE]) \* subnet conflict

\* ERROR for a pending room request: the outcome is uncertain.
OnRoomError ==
  /\ Turn /\ cli.asked /\ Answered
  /\ cli' = RecoverRoomOperation([cli EXCEPT !.asked = FALSE])

\* ERROR, wrong room password: the only one that ends the request for certain.
OnRoomPasswordError ==
  /\ Turn /\ cli.asked /\ Answered
  /\ cli' = Blocked([cli EXCEPT !.asked = FALSE])

OnLogoutAck ==
  /\ Turn /\ cli.link = "LoggedIn" /\ cli.logout
  /\ cli' = Disconnected(cli)

-----------------------------------------------------------------------------
(* Timers of the event loop *)

\* BUG: a recovery waits for the acknowledgement however long it takes.
LogoutDeadlineManual ==
  /\ Turn /\ cli.logout /\ ~cli.recovery
  /\ cli' = Disconnected(cli)

\* One second without LOGOUT_ACK.
LogoutDeadline ==
  /\ Turn /\ cli.logout
  /\ cli' = Disconnected(cli)

\* The clock reaches the deadline of the phase.
DeadlinePasses ==
  /\ cli.running
  /\ cli.phase \in {"WaitingServer", "Preparing"} /\ ~cli.late
  /\ cli' = [cli EXCEPT !.late = TRUE]

\* BUG: every event of the job is taken for the setup in progress.
AcceptsAlways(s) == TRUE

\* An event of an old setup is ignored.
Accepts(s) == s.job.current /\ s.pending /\ ~s.recovery

\* Ready: the adapter is borrowed, and given back when the data plane does not
\* start.
Established(s, started) ==
  IF s.late \/ ~started THEN RecoverRoomOperation(s)
  ELSE [s EXCEPT !.tun = TRUE, !.pending = FALSE, !.phase = "InRoom", !.ready = TRUE]

\* pollRoomOperation, first part: the events of the queue.
PollEvents ==
  LET s == [cli EXCEPT !.job.events = {}, !.polling = TRUE]
  IN /\ Turn /\ HasJob(cli)
     /\ \/ /\ cli.job.events = {} \/ ~Accepts(cli)
           /\ cli' = s
        \/ /\ "Failed" \in cli.job.events /\ Accepts(cli)
           /\ cli' = RecoverRoomOperation(s)
        \/ /\ "Ready" \in cli.job.events /\ Accepts(cli)
           /\ \E started \in BOOLEAN : cli' = Established(s, started)

\* BUG: the deadline counts only once the server has answered.
OverduePreparing(s) == s.late /\ s.phase = "Preparing"

Overdue(s) == s.late

\* pollRoomOperation, second part: a job that is done is dropped, with the
\* events that have arrived meanwhile; then the deadline is tested.
PollDone ==
  LET s == [cli EXCEPT !.polling = FALSE]
      t == IF cli.job.pc = "done"
           THEN [s EXCEPT !.job = NoJob,
                  !.phase = IF s.recovery \/ s.ready \/ s.logout THEN @ ELSE "Idle",
                  !.late = IF s.recovery \/ s.ready \/ s.logout THEN @ ELSE FALSE]
           ELSE s
  IN /\ (cli.running /\ cli.polling) \/ (Turn /\ ~HasJob(cli) /\ Overdue(cli))
     /\ cli' = IF Overdue(t) THEN RecoverRoomOperation(t) ELSE t

\* The one login to the lobby that follows a recovery.
RecoveryConnect ==
  /\ Turn /\ cli.scheduled /\ ~HasJob(cli) /\ cli.link = "Off" /\ ~cli.blocked
  /\ \E outcome \in Outcomes :
       cli' = DoConnect([cli EXCEPT !.scheduled = FALSE, !.attempt = TRUE], outcome)

MayRetry(s) == s.attempts < MaxAttempts

AutoReconnect ==
  /\ Turn /\ ~cli.blocked /\ cli.want /\ ~HasJob(cli) /\ cli.link = "Off"
  /\ \/ /\ ~MayRetry(cli)
        /\ cli' = [cli EXCEPT !.want = FALSE]
     \/ /\ MayRetry(cli)
        /\ \E outcome \in Outcomes :
             cli' = DoConnect([cli EXCEPT !.attempts = @ + 1], outcome)

Stop ==
  /\ cli.running /\ ~cli.polling /\ StopDue(cli)
  /\ cli' = [cli EXCEPT !.running = FALSE]

\* The adapter reports that its reader has stopped.
HandleTunRuntimeFailure ==
  /\ Turn /\ cli.tun /\ cli.ready
  /\ cli' = ResetRoomRuntimeState(TeardownTun(cli))

-----------------------------------------------------------------------------
(* Commands of the user *)

\* "connect"
ConnectCommand ==
  /\ Turn
  /\ \E outcome \in Outcomes : cli' = DoConnect([cli EXCEPT !.want = FALSE], outcome)

\* setServerPassword of a handshake that has sent its proof ends the
\* connection, and tells nobody.
PasswordReplaced(s) == {s} \cup (IF s.link = "Connected" THEN {Unlinked(s)} ELSE {})

\* "disconnect": the server password is forgotten too.
DoDisconnect ==
  /\ Turn
  /\ \E s \in PasswordReplaced(Forget([cli EXCEPT !.recovery = FALSE])) :
       cli' = IF s.link = "Off" THEN s ELSE BeginGracefulDisconnect(s, FALSE)

\* "server-password"
ServerPasswordCommand ==
  /\ Turn
  /\ cli' \in PasswordReplaced([cli EXCEPT !.blocked = FALSE])

\* "server": another endpoint, with or without a password.  Of the plans to
\* reconnect only the recovery's is dropped: an automatic reconnect goes on, to
\* the new server, and still searches the saved room there.
ServerCommand ==
  LET s == IF cli.link \in {"Connected", "LoggedIn"}
           THEN BeginGracefulDisconnect(cli, FALSE) ELSE cli
  IN /\ Turn
     /\ \E password \in BOOLEAN :
          cli' = [TeardownTun(s) EXCEPT !.room = FALSE, !.scheduled = FALSE,
                                        !.attempt = FALSE, !.blocked = @ /\ ~password]

\* "create" and "join"
DoCreateOrJoinRoom ==
  /\ Turn /\ cli.link = "LoggedIn" /\ ~cli.asked /\ ~cli.room
  /\ cli.phase = "Idle" /\ ~HasJob(cli) /\ ~cli.recovery /\ ~cli.scheduled
  /\ cli' = BeginRoomRequest([cli EXCEPT !.blocked = FALSE])

\* "leave"
DoLeaveRoom ==
  /\ Turn
  /\ \/ /\ cli.phase \notin {"Idle", "InRoom"} \/ cli.asked
        /\ cli' = RecoverRoomOperation(cli)
     \/ /\ cli.phase \in {"Idle", "InRoom"} /\ ~cli.asked /\ cli.room
        /\ cli' = ResetRoomRuntimeState(TeardownTun(cli))

\* "quit", or a signal to stop.
Quit ==
  /\ Turn
  /\ cli' = BeginGracefulDisconnect(cli, TRUE)

\* The event loop has ended; run() releases what is left.
Ended == ~cli.running /\ UNCHANGED cli

Next ==
  \/ WorkerStage
  \/ WorkerTest
  \/ WorkerSleep
  \/ SpuriousWake
  \/ WorkerClean
  \/ OnConnected
  \/ OnConnectFailed
  \/ OnServerError
  \/ OnSignalDisconnected
  \/ OnFatalAuthError
  \/ OnLoginResponse
  \/ OnRoomList
  \/ \E joined \in BOOLEAN : OnRoomResponse(joined)
  \/ OnRoomError
  \/ OnRoomPasswordError
  \/ OnLogoutAck
  \/ LogoutDeadline
  \/ DeadlinePasses
  \/ PollEvents
  \/ PollDone
  \/ RecoveryConnect
  \/ AutoReconnect
  \/ Stop
  \/ HandleTunRuntimeFailure
  \/ ConnectCommand
  \/ DoDisconnect
  \/ ServerPasswordCommand
  \/ ServerCommand
  \/ DoCreateOrJoinRoom
  \/ DoLeaveRoom
  \/ Quit
  \/ Ended

Spec == Init /\ [][Next]_vars

\* The worker is scheduled and its native calls return; the event loop turns and
\* tests every timer in every turn, between one poll and the next (so strong
\* fairness: a poll in progress disables the other handlers).  Neither the
\* server, nor the user, nor a spurious wake-up is counted on.
Fairness ==
  /\ WF_vars(WorkerStage)
  /\ WF_vars(WorkerTest)
  /\ WF_vars(WorkerSleep)
  /\ WF_vars(WorkerClean)
  /\ WF_vars(DeadlinePasses)
  /\ WF_vars(PollEvents)
  /\ WF_vars(PollDone)
  /\ WF_vars(Stop)
  /\ SF_vars(LogoutDeadline)

FairSpec == Spec /\ Fairness

-----------------------------------------------------------------------------
(* Properties *)

\* Every member keeps its type, and a lost connection is retried at most
\* MAX_RECONNECT_ATTEMPTS times.
TypeOK == cli \in Clis

\* The adapter the event loop uses is one the worker keeps: the worker never
\* frees an adapter that CliApp still borrows, whatever was cancelled, failed
\* or arrived late ("Ready is a lifetime hand-off, not an ownership transfer").
AdapterBorrowed ==
  cli.tun => /\ cli.job.adapter /\ ~cli.job.cancel
             /\ cli.job.pc \in {"lent", "tested", "asleep"}

\* The phase of the tracker is true of the request, the job and the room: a
\* request whose answer is awaited is never without its deadline; while the
\* answer is awaited there is a session to bring it and no adapter of an earlier
\* room; a room is prepared only while a job works on it, and used only while
\* its id is known and its adapter borrowed.
PhaseAgrees ==
  /\ cli.asked => cli.phase = "WaitingServer"
  /\ cli.phase = "WaitingServer" => cli.link = "LoggedIn" /\ ~HasJob(cli) /\ ~cli.tun
  /\ cli.phase = "Preparing" => HasJob(cli) /\ cli.pending
  /\ cli.phase = "InRoom" => cli.tun /\ cli.ready /\ cli.room

\* A client that is back in the lobby with its adapter cleaned up is not kept
\* from another room by the tracker: no order of cleanup, logout and reconnect
\* leaves it in CleaningUp.
LobbyUsable ==
  /\ cli.link = "LoggedIn" /\ ~HasJob(cli) /\ ~cli.logout /\ ~cli.recovery
  => cli.phase # "CleaningUp"

\* After a cancelled or failed operation the client only logs in to the lobby:
\* while that recovery is under way nothing is left that would reconnect a
\* second time, rejoin or create a room by itself.
NoReplay ==
  cli.recovery \/ cli.scheduled \/ cli.attempt => ~cli.want /\ ~cli.was

\* The tracker, the plans and the job of CliApp agree in these three ways, in
\* every order of failure, cancel, recovery and reconnect.  The other flags of an
\* earlier room (m_roomReady, m_tunSetupPending, m_currentRoomId) may outlive it
\* and then get in the way of the next: AnswersAccepted, FailureHandled and
\* OneLobbyLogin, below, say how.
FlagsAgree == TypeOK /\ PhaseAgrees /\ LobbyUsable /\ NoReplay

\* Every room operation ends in time, whatever the server and the worker do.
OperationResolves ==
  (cli.phase \in {"WaitingServer", "Preparing"})
    ~> (cli.phase \notin {"WaitingServer", "Preparing"} \/ ~cli.running)

\* A recovery closes the old session even when LOGOUT_ACK never arrives.
RecoveryEnds == cli.recovery ~> ~cli.recovery

\* A cancelled job ends, so that another adapter may be created: the event loop
\* drops it once its worker has cleaned up.  Does not hold (README, 3.3).
CancelCompletes == (HasJob(cli) /\ cli.job.cancel) ~> ~HasJob(cli)

\* A setup is pending only while a job works on it: when preparation fails the
\* client is told, and logs out and recovers.  Does not hold (README, 3.3).
FailureHandled == cli.pending => HasJob(cli)

\* After a cancelled or failed operation the client tries to log in to the lobby
\* once: when that login fails it does not go on to reconnect by itself.  Does
\* not hold (README, 3.3).
OneLobbyLogin == [][cli.attempt /\ ~cli'.attempt => ~cli'.want]_vars

\* The answer to the request the client waits for is not ignored: nothing of an
\* earlier room is left by the time a request is sent.  Does not hold (README,
\* 3.3).
AnswersAccepted ==
  cli.phase = "WaitingServer" /\ ~cli.logout
    => ~cli.pending /\ ~cli.ready /\ ~cli.room
=============================================================================
