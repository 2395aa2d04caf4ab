--------------------------- MODULE CliRoomProofs ---------------------------
(***************************************************************************)
(* CliInv is an inductive invariant of CliRoom, for every MaxAttempts.     *)
(* FlagsAgree and AdapterBorrowed follow from it.                          *)
(*                                                                         *)
(* Neither is inductive alone. AdapterBorrowed needs to know that a Ready  *)
(* which waits in the queue of a job that is not cancelled was put there   *)
(* by a worker that still keeps the adapter: the event loop borrows it a   *)
(* turn later. PhaseAgrees needs to know when a setup is current: a Ready  *)
(* it accepts must find the room of the setup, and no LOGOUT sent.         *)
(* LobbyUsable needs to know which steps a cleanup still waits for: a job, *)
(* or the acknowledgement of a logout. NoReplay needs the plans of a       *)
(* recovery to follow each other: a recovery has sent LOGOUT, the login    *)
(* that follows is scheduled only without a connection, and an attempt     *)
(* ends with the login.                                                    *)
(*                                                                         *)
(* The handlers of CliApp share a few operators (TeardownTun,              *)
(* RecoverRoomOperation, BeginGracefulDisconnect, Disconnected,            *)
(* DoConnect...). The first parts say what each of them makes of a state;  *)
(* the last but one has a lemma for each group of actions.                 *)
(***************************************************************************)
EXTENDS CliRoom, TLAPS

\* The states of a worker that lends its adapter to the event loop.
Lent == {"lent", "tested", "asleep"}

\* What a job promises by itself: no job holds nothing; a setup that is current
\* was not cancelled; a worker that lends has an adapter, and keeps it while a
\* Ready that was not cancelled waits to be taken.
JobSound(j) ==
  /\ j.pc = "none" => j = NoJob
  /\ j.current => ~j.cancel
  /\ j.pc \in Lent => j.adapter
  /\ "Ready" \in j.events /\ ~j.cancel => j.pc \in Lent

\* How the plans of CliApp exclude each other: whatever recovers to the lobby
\* has forgotten the reconnect and the room, the scheduled login waits without
\* a connection, an attempt ends with the login, and a recovery waits for its
\* LOGOUT.
FlagsSound(s) ==
  /\ s.recovery \/ s.scheduled \/ s.attempt => ~s.want /\ ~s.was
  /\ s.scheduled => s.link = "Off" /\ ~s.attempt
  /\ s.attempt => s.link # "LoggedIn"
  /\ s.recovery => s.logout
  /\ s.logout => s.link = "LoggedIn"

\* A job lives only in a session or without a connection, never during a
\* handshake; a cleanup that is not over waits for its job, for LOGOUT_ACK, or
\* for a connection that is gone; a room that was ready is cleaned up only on
\* the way out of the session.
PhaseSound(s) ==
  /\ HasJob(s) => s.link \in {"Off", "LoggedIn"}
  /\ s.phase = "CleaningUp" /\ ~HasJob(s) /\ s.link # "Off" => s.logout
  /\ s.phase = "CleaningUp" /\ s.ready /\ HasJob(s) => s.logout \/ s.link = "Off"

\* An adapter that CliApp borrows is lent by a worker that was not cancelled.
LentSound(s) == s.tun => s.job.pc \in Lent /\ ~s.job.cancel

\* The tracker agrees with the request, the job and the room it stands for; a
\* setup is current only while the room it was begun for is prepared or used,
\* and neither goes on once LOGOUT was sent.
AgreeSound(s) ==
  /\ s.asked => s.phase = "WaitingServer"
  /\ s.phase = "WaitingServer" => s.link = "LoggedIn" /\ ~HasJob(s)
  /\ s.phase = "Preparing" => HasJob(s) /\ s.pending /\ ~s.ready
  /\ s.phase = "InRoom" => s.tun /\ s.ready /\ s.room
  /\ s.job.current => s.phase \in {"Preparing", "InRoom"} /\ s.room
  /\ s.logout => s.phase \notin {"Preparing", "InRoom"}

\* The inductive invariant, of a state s of the client.
Sound(s) ==
  /\ s \in Clis /\ JobSound(s.job) /\ LentSound(s)
  /\ FlagsSound(s) /\ PhaseSound(s) /\ AgreeSound(s)

\* No operation is under way: what teardownTun leaves once no request is open.
Quiet(s) == s.phase \in {"Idle", "CleaningUp"} /\ ~s.asked /\ ~s.job.current

\* A job that is left was cancelled.
Resting(s) == HasJob(s) => s.phase \in {"Idle", "CleaningUp"} /\ ~s.job.current

\* The inductive invariant of the specification.
CliInv == Sound(cli)

\* The phases of the tracker.
Phases == {"Idle", "WaitingServer", "Preparing", "InRoom", "CleaningUp"}

\* The states of the connection.
LinkStates == {"Off", "Connecting", "Connected", "LoggedIn"}

\* The types of the members of CliApp.
LEMMA CliFields ==
  ASSUME NEW s \in Clis
  PROVE  /\ s.job \in Jobs /\ s.phase \in Phases /\ s.link \in LinkStates
         /\ s.attempts \in 0 .. MaxAttempts
         /\ s.late \in BOOLEAN /\ s.polling \in BOOLEAN /\ s.asked \in BOOLEAN
         /\ s.pending \in BOOLEAN /\ s.room \in BOOLEAN /\ s.ready \in BOOLEAN
         /\ s.tun \in BOOLEAN /\ s.recovery \in BOOLEAN /\ s.scheduled \in BOOLEAN
         /\ s.attempt \in BOOLEAN /\ s.logout \in BOOLEAN /\ s.manual \in BOOLEAN
         /\ s.exit \in BOOLEAN /\ s.stop \in BOOLEAN /\ s.running \in BOOLEAN
         /\ s.want \in BOOLEAN /\ s.was \in BOOLEAN /\ s.blocked \in BOOLEAN
  BY DEF Clis, Phases, LinkStates

\* An assignment of a value of its type to one member keeps the type of the
\* record.
LEMMA CliSet ==
  ASSUME NEW s \in Clis
  PROVE  /\ \A v \in Jobs : [s EXCEPT !.job = v] \in Clis
         /\ \A v \in Phases : [s EXCEPT !.phase = v] \in Clis
         /\ \A v \in LinkStates : [s EXCEPT !.link = v] \in Clis
         /\ \A v \in 0 .. MaxAttempts : [s EXCEPT !.attempts = v] \in Clis
         /\ \A v \in BOOLEAN :
              /\ [s EXCEPT !.late = v] \in Clis
              /\ [s EXCEPT !.polling = v] \in Clis
              /\ [s EXCEPT !.asked = v] \in Clis
              /\ [s EXCEPT !.pending = v] \in Clis
              /\ [s EXCEPT !.room = v] \in Clis
              /\ [s EXCEPT !.ready = v] \in Clis
              /\ [s EXCEPT !.tun = v] \in Clis
              /\ [s EXCEPT !.recovery = v] \in Clis
              /\ [s EXCEPT !.scheduled = v] \in Clis
              /\ [s EXCEPT !.attempt = v] \in Clis
              /\ [s EXCEPT !.logout = v] \in Clis
              /\ [s EXCEPT !.manual = v] \in Clis
              /\ [s EXCEPT !.exit = v] \in Clis
              /\ [s EXCEPT !.stop = v] \in Clis
              /\ [s EXCEPT !.running = v] \in Clis
              /\ [s EXCEPT !.want = v] \in Clis
              /\ [s EXCEPT !.was = v] \in Clis
              /\ [s EXCEPT !.blocked = v] \in Clis
  <1>1. /\ \A v \in Jobs : [s EXCEPT !.job = v] \in Clis
        /\ \A v \in Phases : [s EXCEPT !.phase = v] \in Clis
        /\ \A v \in LinkStates : [s EXCEPT !.link = v] \in Clis
        /\ \A v \in 0 .. MaxAttempts : [s EXCEPT !.attempts = v] \in Clis
    BY DEF Clis, Phases, LinkStates
  <1>2. ASSUME NEW v \in BOOLEAN
        PROVE  /\ [s EXCEPT !.late = v] \in Clis
               /\ [s EXCEPT !.polling = v] \in Clis
               /\ [s EXCEPT !.asked = v] \in Clis
               /\ [s EXCEPT !.pending = v] \in Clis
               /\ [s EXCEPT !.room = v] \in Clis
               /\ [s EXCEPT !.ready = v] \in Clis
               /\ [s EXCEPT !.tun = v] \in Clis
               /\ [s EXCEPT !.recovery = v] \in Clis
               /\ [s EXCEPT !.scheduled = v] \in Clis
               /\ [s EXCEPT !.attempt = v] \in Clis
               /\ [s EXCEPT !.logout = v] \in Clis
               /\ [s EXCEPT !.manual = v] \in Clis
               /\ [s EXCEPT !.exit = v] \in Clis
               /\ [s EXCEPT !.stop = v] \in Clis
               /\ [s EXCEPT !.running = v] \in Clis
               /\ [s EXCEPT !.want = v] \in Clis
               /\ [s EXCEPT !.was = v] \in Clis
               /\ [s EXCEPT !.blocked = v] \in Clis
    <2>1. /\ [s EXCEPT !.late = v] \in Clis
          /\ [s EXCEPT !.polling = v] \in Clis
          /\ [s EXCEPT !.asked = v] \in Clis
      BY DEF Clis
    <2>2. /\ [s EXCEPT !.pending = v] \in Clis
          /\ [s EXCEPT !.room = v] \in Clis
          /\ [s EXCEPT !.ready = v] \in Clis
      BY DEF Clis
    <2>3. /\ [s EXCEPT !.tun = v] \in Clis
          /\ [s EXCEPT !.recovery = v] \in Clis
          /\ [s EXCEPT !.scheduled = v] \in Clis
      BY DEF Clis
    <2>4. /\ [s EXCEPT !.attempt = v] \in Clis
          /\ [s EXCEPT !.logout = v] \in Clis
          /\ [s EXCEPT !.manual = v] \in Clis
      BY DEF Clis
    <2>5. /\ [s EXCEPT !.exit = v] \in Clis
          /\ [s EXCEPT !.stop = v] \in Clis
          /\ [s EXCEPT !.running = v] \in Clis
      BY DEF Clis
    <2>6. /\ [s EXCEPT !.want = v] \in Clis
          /\ [s EXCEPT !.was = v] \in Clis
          /\ [s EXCEPT !.blocked = v] \in Clis
      BY DEF Clis
    <2> QED BY <2>1, <2>2, <2>3, <2>4, <2>5, <2>6
  <1> QED BY <1>1, <1>2

-----------------------------------------------------------------------------
(* The job *)

\* Without a job there is nothing to promise.
LEMMA NoJobSound ==
  NoJob \in Jobs /\ JobSound(NoJob) /\ NoJob.pc = "none" /\ NoJob.current = FALSE
  BY DEF NoJob, Jobs, JobSound, Lent

\* cancel() keeps what a job promises, and the job.
LEMMA CancelSound ==
  ASSUME NEW j \in Jobs, JobSound(j), j.pc # "none"
  PROVE  /\ CancelJob(j) \in Jobs /\ JobSound(CancelJob(j))
         /\ CancelJob(j).pc # "none" /\ CancelJob(j).current = FALSE
  <1>1. PICK p : p = IF j.pc = "asleep" THEN "lent" ELSE j.pc
    OBVIOUS
  <1>2. PICK k : k = [j EXCEPT !.cancel = TRUE, !.current = FALSE, !.pc = p]
    OBVIOUS
  <1>3. CancelJob(j) = k
    BY <1>1, <1>2 DEF CancelJob, Jobs
  <1>4. /\ k \in Jobs /\ k.cancel /\ k.current = FALSE /\ k.pc = p
        /\ k.events = j.events /\ k.adapter = j.adapter
    BY <1>1, <1>2 DEF Jobs
  <1>5. JobSound(k) /\ k.pc # "none"
    BY <1>1, <1>4 DEF Jobs, JobSound, Lent
  <1> QED BY <1>3, <1>4, <1>5

-----------------------------------------------------------------------------
(* The operators the handlers share *)

\* A tracker at rest agrees with everything.
LEMMA QuietAgrees ==
  ASSUME NEW s, Quiet(s)
  PROVE  AgreeSound(s)
  BY DEF Quiet, AgreeSound

\* A job that outlives LOGOUT was cancelled.
LEMMA LogoutRests ==
  ASSUME NEW s, Sound(s), s.logout
  PROVE  Resting(s)
  <1>1. s.phase \in Phases
    BY CliFields DEF Sound
  <1> QED BY <1>1 DEF Sound, AgreeSound, Resting, Phases

\* What teardownTun makes of the job j.
GivenUp(j, k) ==
  JobSound(k) /\ k.current = FALSE /\ (k.pc = "none" <=> j.pc = "none")

\* teardownTun gives the adapter back and cancels the job, if there is one; the
\* phase says whether there is.
LEMMA Teardown ==
  ASSUME NEW s \in Clis, JobSound(s.job)
  PROVE  \E k \in Jobs, p \in Phases :
           /\ GivenUp(s.job, k)
           /\ p = IF s.job.pc = "none" THEN "Idle" ELSE "CleaningUp"
           /\ TeardownTun(s) = [s EXCEPT !.pending = FALSE, !.tun = FALSE,
                                  !.late = FALSE, !.phase = p, !.job = k]
  <1>1. s.job \in Jobs
    BY DEF Clis
  <1>2. CASE s.job.pc = "none"
    <2>1. TeardownTun(s) = [s EXCEPT !.pending = FALSE, !.tun = FALSE, !.late = FALSE,
                !.phase = "Idle", !.job = s.job]
      BY <1>2 DEF TeardownTun, HasJob, Clis
    <2>2. "Idle" \in Phases
      BY DEF Phases
    <2>3. GivenUp(s.job, s.job)
      BY <1>2, NoJobSound DEF GivenUp, JobSound
    <2> QED BY <1>1, <1>2, <2>1, <2>2, <2>3
  <1>3. CASE s.job.pc # "none"
    <2>1. TeardownTun(s) = [s EXCEPT !.pending = FALSE, !.tun = FALSE, !.late = FALSE,
                !.phase = "CleaningUp", !.job = CancelJob(s.job)]
      BY <1>3 DEF TeardownTun, HasJob, Clis
    <2>2. "CleaningUp" \in Phases
      BY DEF Phases
    <2>3. CancelJob(s.job) \in Jobs /\ GivenUp(s.job, CancelJob(s.job))
      BY <1>1, <1>3, CancelSound DEF GivenUp
    <2> QED BY <1>1, <1>3, <2>1, <2>2, <2>3
  <1> QED BY <1>2, <1>3

\* The state teardownTun leaves has the type of the record.
LEMMA TeardownType ==
  ASSUME NEW s \in Clis, NEW k \in Jobs, NEW p \in Phases
  PROVE  [s EXCEPT !.pending = FALSE, !.tun = FALSE, !.late = FALSE, !.phase = p,
                   !.job = k] \in Clis
  BY CliSet

\* What teardownTun makes of s, in the members the invariant speaks about.
TearsDown(s, t) ==
  /\ t \in Clis /\ JobSound(t.job) /\ t.job.current = FALSE
  /\ t.job.pc = "none" <=> s.job.pc = "none"
  /\ t.phase = IF s.job.pc = "none" THEN "Idle" ELSE "CleaningUp"
  /\ t.tun = FALSE /\ t.pending = FALSE /\ t.late = FALSE
  /\ t.link = s.link /\ t.ready = s.ready /\ t.recovery = s.recovery
  /\ t.scheduled = s.scheduled /\ t.attempt = s.attempt
  /\ t.logout = s.logout /\ t.want = s.want /\ t.was = s.was
  /\ t.asked = s.asked

\* teardownTun does so.
LEMMA TeardownFields ==
  ASSUME NEW s \in Clis, JobSound(s.job)
  PROVE  TearsDown(s, TeardownTun(s))
  <1>1. PICK k \in Jobs, p \in Phases :
           /\ GivenUp(s.job, k)
           /\ p = IF s.job.pc = "none" THEN "Idle" ELSE "CleaningUp"
           /\ TeardownTun(s) = [s EXCEPT !.pending = FALSE, !.tun = FALSE,
                                  !.late = FALSE, !.phase = p, !.job = k]
    BY Teardown
  <1>2. PICK t : t = [s EXCEPT !.pending = FALSE, !.tun = FALSE,
                               !.late = FALSE, !.phase = p, !.job = k]
    OBVIOUS
  <1>3. t \in Clis
    BY <1>2, TeardownType
  <1>4. t.job = k /\ t.phase = p
    BY <1>2 DEF Clis
  <1>5. /\ t.tun = FALSE /\ t.pending = FALSE /\ t.late = FALSE
        /\ t.link = s.link /\ t.ready = s.ready /\ t.recovery = s.recovery
        /\ t.scheduled = s.scheduled /\ t.attempt = s.attempt
        /\ t.logout = s.logout /\ t.want = s.want /\ t.was = s.was
        /\ t.asked = s.asked
    BY <1>2 DEF Clis
  <1>6. TearsDown(s, t)
    BY <1>1, <1>3, <1>4, <1>5 DEF TearsDown, GivenUp
  <1> QED BY <1>1, <1>2, <1>6

\* completeRoomRecovery leaves a sound state without a connection.
LEMMA CompleteSound ==
  ASSUME NEW s \in Clis, JobSound(s.job), LentSound(s), ~s.want, ~s.was, ~s.attempt,
         Resting(s)
  PROVE  Sound(CompleteRoomRecovery(s)) /\ CompleteRoomRecovery(s).link = "Off"
  <1>1. PICK p : p = IF HasJob(s) THEN s.phase ELSE "Idle"
    OBVIOUS
  <1>2. PICK b : b = ~s.blocked
    OBVIOUS
  <1>3. p \in Phases /\ b \in BOOLEAN
    BY <1>1, <1>2, CliFields DEF Phases
  <1>4. PICK t : t = [s EXCEPT !.link = "Off", !.asked = FALSE, !.recovery = FALSE,
                               !.logout = FALSE, !.manual = FALSE, !.phase = p,
                               !.scheduled = b]
    OBVIOUS
  <1>5. CompleteRoomRecovery(s) = t
    BY <1>1, <1>2, <1>4 DEF CompleteRoomRecovery, Unlinked, Clis
  <1>6. t \in Clis
    BY <1>3, <1>4, CliSet DEF LinkStates
  <1>7. /\ t.link = "Off" /\ t.recovery = FALSE /\ t.logout = FALSE /\ t.phase = p
        /\ t.scheduled = b /\ t.job = s.job /\ t.tun = s.tun /\ t.ready = s.ready
        /\ t.attempt = s.attempt /\ t.want = s.want /\ t.was = s.was
        /\ t.asked = FALSE
    BY <1>4 DEF Clis
  <1>8. JobSound(t.job) /\ LentSound(t)
    BY <1>7 DEF LentSound
  <1>9. FlagsSound(t)
    BY <1>7 DEF FlagsSound
  <1>10. PhaseSound(t)
    BY <1>1, <1>7 DEF PhaseSound, HasJob
  <1>11. Quiet(t)
    BY <1>1, <1>7, NoJobSound DEF Resting, HasJob, JobSound, Quiet
  <1> QED BY <1>5, <1>6, <1>7, <1>8, <1>9, <1>10, <1>11, QuietAgrees DEF Sound

\* recoverRoomOperation leaves a sound state, even when it is called in the
\* middle of a handler: of the state it interrupts it needs only the job and
\* the connection.
LEMMA RecoverSound ==
  ASSUME NEW s \in Clis, JobSound(s.job),
         HasJob(s) => s.link \in {"Off", "LoggedIn"},
         s.recovery \/ s.phase = "CleaningUp" => Sound(s)
  PROVE  Sound(RecoverRoomOperation(s))
  <1>1. CASE s.recovery \/ s.phase = "CleaningUp"
    BY <1>1 DEF RecoverRoomOperation
  <1>2. CASE ~(s.recovery \/ s.phase = "CleaningUp")
    <2>1. PICK x : x = [Forget(s) EXCEPT !.recovery = TRUE, !.manual = TRUE,
                                         !.asked = FALSE]
      OBVIOUS
    <2>2. x \in Clis
      BY <2>1, CliSet DEF Forget
    <2>3. /\ x.job = s.job /\ x.link = s.link /\ x.recovery = TRUE
          /\ x.attempt = FALSE /\ x.scheduled = FALSE /\ x.want = FALSE
          /\ x.was = FALSE /\ x.ready = s.ready /\ x.logout = s.logout
          /\ x.asked = FALSE
      BY <2>1 DEF Clis, Forget
    <2>4. PICK y : y = TeardownTun(x)
      OBVIOUS
    <2>5. JobSound(x.job)
      BY <2>3
    <2>6. /\ y \in Clis /\ JobSound(y.job)
          /\ y.job.pc = "none" <=> s.job.pc = "none"
          /\ y.phase = IF s.job.pc = "none" THEN "Idle" ELSE "CleaningUp"
          /\ y.tun = FALSE /\ y.link = s.link /\ y.recovery = TRUE
          /\ y.attempt = FALSE /\ y.scheduled = FALSE /\ y.want = FALSE
          /\ y.asked = FALSE /\ ~y.job.current
      <3>1. /\ y \in Clis /\ JobSound(y.job)
            /\ y.job.pc = "none" <=> x.job.pc = "none"
            /\ y.phase = IF x.job.pc = "none" THEN "Idle" ELSE "CleaningUp"
            /\ y.tun = FALSE /\ y.link = x.link /\ y.recovery = x.recovery
            /\ y.attempt = x.attempt /\ y.scheduled = x.scheduled /\ y.want = x.want
            /\ y.asked = x.asked /\ ~y.job.current
        BY <2>2, <2>4, <2>5, TeardownFields DEF TearsDown
      <3> QED BY <2>3, <3>1
    <2>7. PICK t : t = ResetRoomRuntimeState(y)
      OBVIOUS
    <2>8. t \in Clis
      BY <2>6, <2>7, CliSet DEF ResetRoomRuntimeState
    <2>9. /\ t.job = y.job /\ t.phase = y.phase /\ t.tun = y.tun /\ t.link = y.link
          /\ t.recovery = y.recovery /\ t.attempt = y.attempt
          /\ t.scheduled = y.scheduled /\ t.want = y.want /\ t.was = FALSE
          /\ t.ready = FALSE /\ t.asked = y.asked
      BY <2>6, <2>7 DEF Clis, ResetRoomRuntimeState
    <2>10. CASE s.link = "LoggedIn"
      <3>1. RecoverRoomOperation(s) = [t EXCEPT !.logout = TRUE]
        BY <1>2, <2>1, <2>4, <2>7, <2>10 DEF RecoverRoomOperation
      <3>2. PICK u : u = [t EXCEPT !.logout = TRUE]
        OBVIOUS
      <3>3. u \in Clis
        BY <2>8, <3>2, CliSet
      <3>4. /\ u.job = y.job /\ u.phase = y.phase /\ u.tun = FALSE /\ u.logout = TRUE
            /\ u.link = "LoggedIn" /\ u.recovery = TRUE /\ u.attempt = FALSE
            /\ u.scheduled = FALSE /\ u.want = FALSE /\ u.was = FALSE
            /\ u.ready = FALSE /\ u.asked = FALSE
        BY <2>6, <2>8, <2>9, <2>10, <3>2 DEF Clis
      <3>5. JobSound(u.job) /\ LentSound(u)
        BY <2>6, <3>4 DEF LentSound
      <3>6. FlagsSound(u)
        BY <3>4 DEF FlagsSound
      <3>7. PhaseSound(u)
        BY <3>4 DEF PhaseSound
      <3>8. Quiet(u)
        BY <2>6, <3>4 DEF Quiet
      <3> QED BY <3>1, <3>2, <3>3, <3>5, <3>6, <3>7, <3>8, QuietAgrees DEF Sound
    <2>11. CASE s.link # "LoggedIn"
      <3>1. RecoverRoomOperation(s) = CompleteRoomRecovery(t)
        BY <1>2, <2>1, <2>4, <2>7, <2>11 DEF RecoverRoomOperation
      <3>2. JobSound(t.job) /\ LentSound(t)
        BY <2>6, <2>9 DEF LentSound
      <3>3. Resting(t)
        BY <2>6, <2>9 DEF Resting
      <3> QED BY <2>6, <2>8, <2>9, <3>1, <3>2, <3>3, CompleteSound
    <2> QED BY <2>10, <2>11
  <1> QED BY <1>1, <1>2

\* What a recovery forgets, and what it leaves alone.
LEMMA ForgetFields ==
  ASSUME NEW s \in Clis
  PROVE  /\ Forget(s) \in Clis
         /\ Forget(s).attempt = FALSE /\ Forget(s).scheduled = FALSE
         /\ Forget(s).want = FALSE /\ Forget(s).was = FALSE
         /\ Forget(s).job = s.job /\ Forget(s).phase = s.phase
         /\ Forget(s).link = s.link /\ Forget(s).ready = s.ready
         /\ Forget(s).tun = s.tun /\ Forget(s).recovery = s.recovery
         /\ Forget(s).logout = s.logout /\ Forget(s).asked = s.asked
         /\ Forget(s).pending = s.pending /\ Forget(s).room = s.room
  <1>1. Forget(s) \in Clis
    BY CliSet DEF Forget
  <1> QED BY <1>1 DEF Forget, Clis

\* SignalClient::disconnect changes the connection and nothing else.
LEMMA UnlinkedFields ==
  ASSUME NEW s \in Clis
  PROVE  /\ Unlinked(s) \in Clis
         /\ Unlinked(s).link = "Off"
         /\ Unlinked(s).attempt = s.attempt /\ Unlinked(s).scheduled = s.scheduled
         /\ Unlinked(s).want = s.want /\ Unlinked(s).was = s.was
         /\ Unlinked(s).job = s.job /\ Unlinked(s).phase = s.phase
         /\ Unlinked(s).ready = s.ready
         /\ Unlinked(s).tun = s.tun /\ Unlinked(s).recovery = s.recovery
         /\ Unlinked(s).logout = s.logout /\ Unlinked(s).asked = FALSE
         /\ Unlinked(s).pending = s.pending /\ Unlinked(s).room = s.room
  <1>1. Unlinked(s) \in Clis
    BY CliSet DEF Unlinked, LinkStates
  <1> QED BY <1>1 DEF Unlinked, Clis

\* resetRoomRuntimeState forgets the room and nothing else.
LEMMA ResetFields ==
  ASSUME NEW s \in Clis
  PROVE  /\ ResetRoomRuntimeState(s) \in Clis
         /\ ResetRoomRuntimeState(s).ready = FALSE
         /\ ResetRoomRuntimeState(s).was = FALSE
         /\ ResetRoomRuntimeState(s).link = s.link
         /\ ResetRoomRuntimeState(s).attempt = s.attempt
         /\ ResetRoomRuntimeState(s).scheduled = s.scheduled
         /\ ResetRoomRuntimeState(s).want = s.want
         /\ ResetRoomRuntimeState(s).job = s.job
         /\ ResetRoomRuntimeState(s).phase = s.phase
         /\ ResetRoomRuntimeState(s).tun = s.tun
         /\ ResetRoomRuntimeState(s).recovery = s.recovery
         /\ ResetRoomRuntimeState(s).logout = s.logout
         /\ ResetRoomRuntimeState(s).asked = s.asked
  <1>1. ResetRoomRuntimeState(s) \in Clis
    BY CliSet DEF ResetRoomRuntimeState
  <1> QED BY <1>1 DEF ResetRoomRuntimeState, Clis

\* The connection is closed and the adapter torn down: that is sound when the
\* plans that are left exclude each other.
LEMMA DownSound ==
  ASSUME NEW s, NEW t, TearsDown(s, t), FlagsSound(s), ~s.recovery,
         NEW u \in Clis, u.job = t.job, u.tun = t.tun, u.link = "Off",
         u.recovery = t.recovery, u.logout = FALSE, u.phase = t.phase, ~u.asked,
         u.scheduled = t.scheduled, u.attempt = t.attempt,
         u.scheduled \/ u.attempt => ~u.want /\ ~u.was
  PROVE  Sound(u)
  <1>1. JobSound(u.job) /\ LentSound(u)
    BY DEF TearsDown, LentSound
  <1>2. FlagsSound(u)
    BY DEF TearsDown, FlagsSound
  <1>3. PhaseSound(u)
    BY DEF PhaseSound
  <1>4. Quiet(u)
    BY DEF TearsDown, Quiet
  <1> QED BY <1>1, <1>2, <1>3, <1>4, QuietAgrees DEF Sound

\* finishGracefulDisconnect leaves a sound state without a connection.
LEMMA DisconnectedSound ==
  ASSUME NEW s \in Clis, JobSound(s.job), LentSound(s), FlagsSound(s),
         s.recovery => Resting(s)
  PROVE  Sound(Disconnected(s)) /\ Disconnected(s).link = "Off"
  <1>1. CASE s.recovery
    <2>1. Disconnected(s) = CompleteRoomRecovery(s)
      BY <1>1 DEF Disconnected
    <2>2. ~s.want /\ ~s.was /\ ~s.attempt
      BY <1>1 DEF FlagsSound
    <2> QED BY <1>1, <2>1, <2>2, CompleteSound
  <1>2. CASE ~s.recovery
    <2>1. PICK x : x = [s EXCEPT !.logout = FALSE]
      OBVIOUS
    <2>2. x \in Clis
      BY <2>1, CliSet
    <2>3. /\ x.job = s.job /\ x.link = s.link /\ x.recovery = s.recovery
          /\ x.attempt = s.attempt /\ x.scheduled = s.scheduled /\ x.want = s.want
          /\ x.was = s.was /\ x.logout = FALSE
      BY <2>1 DEF Clis
    <2>4. JobSound(x.job) /\ FlagsSound(x)
      BY <1>2, <2>3 DEF FlagsSound
    <2>5. PICK y : y = TeardownTun(x)
      OBVIOUS
    <2>6. TearsDown(x, y)
      BY <2>2, <2>4, <2>5, TeardownFields
    <2>7. PICK t : t = Unlinked(y)
      OBVIOUS
    <2>8. /\ t \in Clis /\ t.link = "Off" /\ t.attempt = s.attempt
          /\ t.scheduled = s.scheduled /\ t.want = s.want /\ t.was = s.was
          /\ t.job = y.job /\ t.tun = y.tun
          /\ t.recovery = y.recovery /\ t.logout = FALSE
          /\ t.phase = y.phase /\ t.asked = FALSE
      <3>1. /\ y \in Clis /\ y.attempt = s.attempt /\ y.scheduled = s.scheduled
            /\ y.want = s.want /\ y.was = s.was /\ y.logout = FALSE
        BY <2>3, <2>6 DEF TearsDown
      <3> QED BY <2>7, <3>1, UnlinkedFields
    <2>9. y.scheduled = s.scheduled /\ y.attempt = s.attempt
      BY <2>3, <2>6 DEF TearsDown
    <2>10. CASE s.exit
      <3>1. PICK b : b = HasJob(s)
        OBVIOUS
      <3>2. b \in BOOLEAN
        BY <3>1 DEF HasJob
      <3>3. PICK u : u = [t EXCEPT !.stop = TRUE, !.running = b]
        OBVIOUS
      <3>4. Disconnected(s) = u
        BY <1>2, <2>1, <2>5, <2>7, <2>10, <3>1, <3>3 DEF Disconnected
      <3>5. u \in Clis
        BY <2>8, <3>2, <3>3, CliSet
      <3>6. /\ u.link = t.link /\ u.attempt = t.attempt /\ u.scheduled = t.scheduled
            /\ u.want = t.want /\ u.was = t.was /\ u.job = t.job /\ u.tun = t.tun
            /\ u.recovery = t.recovery /\ u.logout = t.logout
            /\ u.phase = t.phase /\ u.asked = t.asked
        BY <2>8, <3>3 DEF Clis
      <3>7. u.scheduled \/ u.attempt => ~u.want /\ ~u.was
        BY <2>8, <3>6 DEF FlagsSound
      <3>8. Sound(u)
        BY <1>2, <2>3, <2>4, <2>6, <2>8, <2>9, <3>5, <3>6, <3>7, DownSound
      <3> QED BY <2>8, <3>4, <3>6, <3>8
    <2>11. CASE ~s.exit
      <3>3. PICK u : u = [t EXCEPT !.manual = FALSE, !.room = FALSE, !.was = FALSE]
        OBVIOUS
      <3>4. Disconnected(s) = u
        BY <1>2, <2>1, <2>5, <2>7, <2>11, <3>3 DEF Disconnected
      <3>5. u \in Clis
        BY <2>8, <3>3, CliSet
      <3>6. /\ u.link = t.link /\ u.attempt = t.attempt /\ u.scheduled = t.scheduled
            /\ u.want = t.want /\ u.was = FALSE /\ u.job = t.job /\ u.tun = t.tun
            /\ u.recovery = t.recovery /\ u.logout = t.logout
            /\ u.phase = t.phase /\ u.asked = t.asked
        BY <2>8, <3>3 DEF Clis
      <3>7. u.scheduled \/ u.attempt => ~u.want /\ ~u.was
        BY <2>8, <3>6 DEF FlagsSound
      <3>8. Sound(u)
        BY <1>2, <2>3, <2>4, <2>6, <2>8, <2>9, <3>5, <3>6, <3>7, DownSound
      <3> QED BY <2>8, <3>4, <3>6, <3>8
    <2> QED BY <2>10, <2>11
  <1> QED BY <1>1, <1>2

\* beginGracefulDisconnect leaves a sound state that waits for LOGOUT_ACK or
\* has no connection.
LEMMA GracefulSound ==
  ASSUME NEW s \in Clis, JobSound(s.job), NEW exit \in BOOLEAN,
         s.logout => s.link = "LoggedIn"
  PROVE  /\ Sound(BeginGracefulDisconnect(s, exit))
         /\ \/ BeginGracefulDisconnect(s, exit).logout
            \/ BeginGracefulDisconnect(s, exit).link = "Off"
         /\ ~BeginGracefulDisconnect(s, exit).asked
  <1>1. PICK a : a = [s EXCEPT !.recovery = FALSE]
    OBVIOUS
  <1>2. a \in Clis
    BY <1>1, CliSet
  <1>3. /\ a.job = s.job /\ a.link = s.link /\ a.recovery = FALSE
        /\ a.logout = s.logout
    BY <1>1 DEF Clis
  <1>4. PICK f : f = Forget(a)
    OBVIOUS
  <1>5. /\ f \in Clis /\ f.job = s.job /\ f.link = s.link /\ f.recovery = FALSE
        /\ f.logout = s.logout /\ f.attempt = FALSE /\ f.scheduled = FALSE
        /\ f.want = FALSE
    BY <1>2, <1>3, <1>4, ForgetFields
  <1>6. PICK w : w = s.was
    OBVIOUS
  <1>7. w \in BOOLEAN
    BY <1>6, CliFields
  <1>8. PICK x : x = [f EXCEPT !.was = w, !.manual = TRUE, !.exit = exit]
    OBVIOUS
  <1>9. x \in Clis
    BY <1>5, <1>7, <1>8, CliSet
  <1>10. /\ x.job = s.job /\ x.link = s.link /\ x.recovery = FALSE
         /\ x.logout = s.logout /\ x.attempt = FALSE /\ x.scheduled = FALSE
         /\ x.want = FALSE
    BY <1>5, <1>8 DEF Clis
  <1>11. PICK t : t = TeardownTun(x)
    OBVIOUS
  <1>12. JobSound(x.job) /\ FlagsSound(x)
    BY <1>10 DEF FlagsSound
  <1>13. TearsDown(x, t)
    BY <1>9, <1>11, <1>12, TeardownFields
  <1>14. CASE s.link = "LoggedIn"
    <2>1. PICK u : u = [t EXCEPT !.logout = TRUE, !.asked = FALSE]
      OBVIOUS
    <2>2. BeginGracefulDisconnect(s, exit) = u
      BY <1>1, <1>4, <1>6, <1>8, <1>11, <1>14, <2>1 DEF BeginGracefulDisconnect
    <2>3. t \in Clis
      BY <1>13 DEF TearsDown
    <2>4. u \in Clis
      BY <2>1, <2>3, CliSet
    <2>5. /\ u.job = t.job /\ u.link = t.link /\ u.recovery = t.recovery
          /\ u.attempt = t.attempt /\ u.scheduled = t.scheduled /\ u.tun = t.tun
          /\ u.logout = TRUE /\ u.phase = t.phase /\ u.asked = FALSE
      BY <2>1, <2>3 DEF Clis
    <2>6. /\ JobSound(u.job) /\ u.link = "LoggedIn" /\ u.recovery = FALSE
          /\ u.attempt = FALSE /\ u.scheduled = FALSE /\ u.tun = FALSE
      BY <1>10, <1>13, <1>14, <2>5 DEF TearsDown
    <2>7. LentSound(u) /\ FlagsSound(u) /\ PhaseSound(u)
      BY <2>5, <2>6 DEF LentSound, FlagsSound, PhaseSound
    <2>8. Quiet(u)
      BY <1>13, <2>5 DEF TearsDown, Quiet
    <2> QED BY <2>2, <2>4, <2>5, <2>6, <2>7, <2>8, QuietAgrees DEF Sound
  <1>15. CASE s.link # "LoggedIn"
    <2>1. BeginGracefulDisconnect(s, exit) = Disconnected(t)
      BY <1>1, <1>4, <1>6, <1>8, <1>11, <1>15 DEF BeginGracefulDisconnect
    <2>2. /\ t \in Clis /\ JobSound(t.job) /\ t.recovery = FALSE
          /\ t.attempt = FALSE /\ t.scheduled = FALSE /\ t.tun = FALSE
          /\ t.logout = s.logout /\ t.link = s.link
      BY <1>10, <1>13 DEF TearsDown
    <2>3. LentSound(t) /\ FlagsSound(t)
      BY <2>2 DEF LentSound, FlagsSound
    <2>4. Sound(Disconnected(t)) /\ Disconnected(t).link = "Off"
      BY <2>2, <2>3, DisconnectedSound
    <2>5. ~Disconnected(t).asked
      BY <2>4, Zenon DEF Sound, AgreeSound
    <2> QED BY <2>1, <2>4, <2>5
  <1> QED BY <1>14, <1>15

\* During a handshake no operation is under way.
LEMMA HandshakeQuiet ==
  ASSUME NEW s, Sound(s), s.link \in {"Connecting", "Connected"}
  PROVE  Quiet(s) /\ ~HasJob(s)
  <1>1. s.phase \in Phases /\ JobSound(s.job)
    BY CliFields DEF Sound
  <1>2. ~HasJob(s)
    BY DEF Sound, PhaseSound
  <1>3. s.job = NoJob
    BY <1>1, <1>2 DEF HasJob, JobSound
  <1>4. ~s.tun
    BY <1>2 DEF Sound, LentSound, Lent, HasJob
  <1> QED BY <1>1, <1>2, <1>3, <1>4, NoJobSound DEF Sound, AgreeSound, Quiet, Phases

\* A connection that cannot be made leaves a sound state, and nothing
\* scheduled.
LEMMA FailedSound ==
  ASSUME NEW s, Sound(s), s.link \in {"Connecting", "Connected"}
  PROVE  Sound(ConnectFailed(s)) /\ ~ConnectFailed(s).scheduled
  <1>1. s \in Clis /\ ~s.scheduled /\ ~s.logout /\ ~s.recovery
    BY DEF Sound, FlagsSound
  <1>2. PICK t : t = Unlinked(s)
    OBVIOUS
  <1>3. /\ t \in Clis /\ t.link = "Off" /\ t.attempt = s.attempt
        /\ t.scheduled = s.scheduled /\ t.want = s.want /\ t.was = s.was
        /\ t.job = s.job /\ t.phase = s.phase /\ t.ready = s.ready
        /\ t.tun = s.tun /\ t.recovery = s.recovery /\ t.logout = s.logout
        /\ t.asked = FALSE
    BY <1>1, <1>2, UnlinkedFields
  <1>4. PICK w : w = (t.want /\ ~s.attempt)
    OBVIOUS
  <1>5. w \in BOOLEAN
    BY <1>4
  <1>6. PICK u : u = [t EXCEPT !.attempt = FALSE, !.want = w]
    OBVIOUS
  <1>7. ConnectFailed(s) = u
    BY <1>2, <1>3, <1>4, <1>6 DEF ConnectFailed, Clis
  <1>8. u \in Clis
    BY <1>3, <1>5, <1>6, CliSet
  <1>9. /\ u.link = "Off" /\ u.attempt = FALSE /\ u.scheduled = s.scheduled
        /\ u.want = w /\ u.job = s.job /\ u.tun = s.tun
        /\ u.recovery = s.recovery /\ u.logout = s.logout
        /\ u.phase = s.phase /\ u.asked = FALSE
    BY <1>3, <1>6 DEF Clis
  <1>10. JobSound(u.job) /\ LentSound(u)
    BY <1>9 DEF Sound, LentSound
  <1>11. FlagsSound(u) /\ PhaseSound(u) /\ ~u.scheduled
    BY <1>1, <1>9 DEF FlagsSound, PhaseSound
  <1>12. Quiet(u)
    BY <1>9, HandshakeQuiet DEF Quiet
  <1> QED BY <1>7, <1>8, <1>10, <1>11, <1>12, QuietAgrees DEF Sound

\* onSignalDisconnected keeps the invariant in each of its cases: a recovery
\* completes, the attempt to log in to the lobby ends, an operation under way
\* is recovered, or the connection is given up or retried.
LEMMA SignalDisconnectedSound ==
  ASSUME NEW s \in Clis, JobSound(s.job), LentSound(s), FlagsSound(s),
         s.recovery => Resting(s), ~s.scheduled
  PROVE  Sound(SignalDisconnected(s))
  <1>0. s \in Clis /\ JobSound(s.job) /\ LentSound(s) /\ FlagsSound(s)
    OBVIOUS
  <1>1. PICK t : t = Unlinked(s)
    OBVIOUS
  <1>2. /\ t \in Clis /\ t.link = "Off" /\ t.attempt = s.attempt
        /\ t.scheduled = s.scheduled /\ t.want = s.want /\ t.was = s.was
        /\ t.job = s.job /\ t.phase = s.phase /\ t.ready = s.ready
        /\ t.tun = s.tun /\ t.recovery = s.recovery /\ t.logout = s.logout
        /\ t.asked = FALSE
    BY <1>0, <1>1, UnlinkedFields
  <1>3. JobSound(t.job) /\ LentSound(t)
    BY <1>0, <1>2 DEF LentSound
  <1>4. CASE s.recovery
    <2>1. SignalDisconnected(s) = CompleteRoomRecovery(t)
      BY <1>1, <1>4 DEF SignalDisconnected
    <2>2. ~t.want /\ ~t.was /\ ~t.attempt
      BY <1>0, <1>2, <1>4 DEF FlagsSound
    <2>3. Resting(t)
      BY <1>2, <1>4 DEF Resting, HasJob
    <2> QED BY <1>2, <1>3, <2>1, <2>2, <2>3, CompleteSound
  <1>5. CASE ~s.recovery /\ s.attempt
    <2>1. PICK x : x = [t EXCEPT !.attempt = FALSE, !.want = FALSE, !.manual = FALSE]
      OBVIOUS
    <2>2. x \in Clis
      BY <1>2, <2>1, CliSet
    <2>3. /\ x.job = s.job /\ x.link = "Off" /\ x.recovery = s.recovery
          /\ x.attempt = FALSE /\ x.scheduled = s.scheduled /\ x.logout = s.logout
          /\ x.asked = FALSE
      BY <1>2, <2>1 DEF Clis
    <2>4. ~s.logout
      BY <1>0, <1>5 DEF FlagsSound
    <2>5. JobSound(x.job) /\ FlagsSound(x) /\ ~x.recovery /\ ~x.logout
      BY <1>0, <1>5, <2>3, <2>4 DEF FlagsSound
    <2>6. PICK y : y = TeardownTun(x)
      OBVIOUS
    <2>7. TearsDown(x, y)
      BY <2>2, <2>5, <2>6, TeardownFields
    <2>8. PICK u : u = ResetRoomRuntimeState(y)
      OBVIOUS
    <2>9. y \in Clis
      BY <2>7 DEF TearsDown
    <2>10. /\ u \in Clis /\ u.job = y.job /\ u.tun = y.tun /\ u.link = y.link
           /\ u.recovery = y.recovery /\ u.logout = y.logout
           /\ u.scheduled = y.scheduled /\ u.attempt = y.attempt
           /\ u.phase = y.phase /\ u.asked = y.asked
      BY <2>8, <2>9, ResetFields
    <2>11. /\ u.link = "Off" /\ u.logout = FALSE /\ u.attempt = FALSE
           /\ u.scheduled = FALSE
      <3>1. /\ u.link = x.link /\ u.logout = x.logout
            /\ u.attempt = x.attempt /\ u.scheduled = x.scheduled
        BY <2>7, <2>10 DEF TearsDown
      <3>2. u.logout \in BOOLEAN /\ u.scheduled \in BOOLEAN
        BY <2>10, CliFields
      <3>3. ~u.logout /\ ~u.scheduled
        BY <2>3, <2>5, <3>1
      <3> QED BY <2>3, <3>1, <3>2, <3>3
    <2>12. Sound(u)
      <3>1. ~u.asked
        BY <2>3, <2>7, <2>10 DEF TearsDown
      <3> QED BY <2>5, <2>7, <2>10, <2>11, <3>1, DownSound
    <2>13. SignalDisconnected(s) = u
      BY <1>1, <1>5, <2>1, <2>6, <2>8 DEF SignalDisconnected
    <2> QED BY <2>12, <2>13
  <1>6. CASE /\ ~s.recovery /\ ~s.attempt /\ ~(s.manual \/ s.blocked)
             /\ s.phase \in {"WaitingServer", "Preparing"}
    <2>1. SignalDisconnected(s) = RecoverRoomOperation(t)
      BY <1>1, <1>6 DEF SignalDisconnected
    <2>2. ~t.recovery /\ t.phase # "CleaningUp"
      BY <1>2, <1>6
    <2> QED BY <1>2, <1>3, <2>1, <2>2, RecoverSound
  <1>7. CASE /\ ~s.recovery /\ ~s.attempt
             /\ ~(/\ ~(s.manual \/ s.blocked)
                  /\ s.phase \in {"WaitingServer", "Preparing"})
    <2> DEFINE manual == s.manual \/ s.blocked
    <2>1. PICK w : w = CASE manual  -> FALSE
                         [] ~manual -> IF s.want THEN t.was ELSE s.ready /\ s.room
      OBVIOUS
    <2>2. w \in BOOLEAN
      BY <1>2, <2>1, CliFields
    <2>3. PICK x : x = [t EXCEPT !.was = w]
      OBVIOUS
    <2>4. x \in Clis
      BY <1>2, <2>2, <2>3, CliSet
    <2>5. /\ x.job = s.job /\ x.recovery = s.recovery /\ x.attempt = s.attempt
          /\ x.scheduled = s.scheduled /\ x.asked = FALSE
      BY <1>2, <2>3 DEF Clis
    <2>6. JobSound(x.job) /\ ~x.recovery /\ ~x.attempt /\ ~x.scheduled
      BY <1>0, <1>7, <2>5
    <2>7. PICK y : y = TeardownTun(x)
      OBVIOUS
    <2>8. TearsDown(x, y)
      BY <2>4, <2>6, <2>7, TeardownFields
    <2>9. /\ y \in Clis /\ JobSound(y.job) /\ ~y.recovery /\ ~y.attempt
          /\ ~y.scheduled /\ ~y.tun /\ y.link = "Off"
          /\ y.phase \in {"Idle", "CleaningUp"} /\ ~y.asked /\ ~y.job.current
      <3>1. x.link = "Off"
        BY <1>2, <2>3 DEF Clis
      <3> QED BY <2>5, <2>6, <2>8, <3>1 DEF TearsDown
    <2>10. PICK d : d = [y EXCEPT !.room = FALSE, !.ready = FALSE, !.logout = FALSE]
      OBVIOUS
    <2>11. d \in Clis
      BY <2>9, <2>10, CliSet
    <2>12. /\ d.job = y.job /\ d.recovery = y.recovery /\ d.attempt = y.attempt
           /\ d.scheduled = y.scheduled /\ d.tun = y.tun /\ d.link = y.link
           /\ d.ready = FALSE /\ d.logout = FALSE /\ d.phase = y.phase
           /\ d.asked = y.asked
      BY <2>9, <2>10 DEF Clis
    <2>13. ASSUME NEW u \in Clis, u.job = d.job, u.recovery = d.recovery,
                  u.attempt = d.attempt, u.scheduled = d.scheduled,
                  u.tun = d.tun, u.link = d.link, u.logout = d.logout,
                  u.phase = d.phase, u.asked = d.asked
           PROVE  Sound(u)
      <3>1. JobSound(u.job) /\ LentSound(u)
        BY <2>9, <2>12, <2>13 DEF LentSound
      <3>2. FlagsSound(u) /\ PhaseSound(u)
        BY <2>9, <2>12, <2>13 DEF FlagsSound, PhaseSound
      <3>3. Quiet(u)
        BY <2>9, <2>12, <2>13 DEF Quiet
      <3> QED BY <3>1, <3>2, <3>3, QuietAgrees DEF Sound
    <2>14. CASE manual
      <3>1. PICK a : a = (d.stop \/ s.exit)
        OBVIOUS
      <3>2. PICK b : b = (~s.exit \/ HasJob(s))
        OBVIOUS
      <3>3. a \in BOOLEAN /\ b \in BOOLEAN
        BY <3>1, <3>2
      <3>4. PICK u : u = [d EXCEPT !.manual = FALSE, !.stop = a, !.running = b]
        OBVIOUS
      <3>5. u \in Clis
        BY <2>11, <3>3, <3>4, CliSet
      <3>6. /\ u.job = d.job /\ u.recovery = d.recovery /\ u.attempt = d.attempt
            /\ u.scheduled = d.scheduled /\ u.tun = d.tun /\ u.link = d.link
            /\ u.logout = d.logout /\ u.phase = d.phase /\ u.asked = d.asked
        BY <2>11, <3>4 DEF Clis
      <3>7. SignalDisconnected(s) = u
        <4>1. d = [TeardownTun([Unlinked(s) EXCEPT
                      !.was = CASE manual  -> FALSE
                                [] ~manual -> IF s.want THEN @ ELSE s.ready /\ s.room])
                    EXCEPT !.room = FALSE, !.ready = FALSE, !.logout = FALSE]
          BY <1>1, <2>1, <2>3, <2>7, <2>10
        <4>2. u = [d EXCEPT !.manual = FALSE, !.stop = @ \/ s.exit,
                            !.running = ~s.exit \/ HasJob(s)]
          BY <2>11, <3>1, <3>2, <3>4 DEF Clis
        <4> QED BY <1>7, <2>14, <4>1, <4>2 DEF SignalDisconnected
      <3> QED BY <2>13, <3>5, <3>6, <3>7
    <2>15. CASE ~manual
      <3>1. PICK a : a = IF s.want THEN d.attempts ELSE 0
        OBVIOUS
      <3>2. a \in 0 .. MaxAttempts
        BY <2>11, <3>1, CliFields, MaxAttemptsAssumption
      <3>3. PICK u : u = [d EXCEPT !.want = TRUE, !.attempts = a]
        OBVIOUS
      <3>4. u \in Clis
        BY <2>11, <3>2, <3>3, CliSet
      <3>5. /\ u.job = d.job /\ u.recovery = d.recovery /\ u.attempt = d.attempt
            /\ u.scheduled = d.scheduled /\ u.tun = d.tun /\ u.link = d.link
            /\ u.logout = d.logout /\ u.phase = d.phase /\ u.asked = d.asked
        BY <2>11, <3>3 DEF Clis
      <3>6. SignalDisconnected(s) = u
        <4>1. d = [TeardownTun([Unlinked(s) EXCEPT
                      !.was = CASE manual  -> FALSE
                                [] ~manual -> IF s.want THEN @ ELSE s.ready /\ s.room])
                    EXCEPT !.room = FALSE, !.ready = FALSE, !.logout = FALSE]
          BY <1>1, <2>1, <2>3, <2>7, <2>10
        <4>2. u = [d EXCEPT !.want = TRUE, !.attempts = IF s.want THEN @ ELSE 0]
          BY <2>11, <3>1, <3>3 DEF Clis
        <4> QED BY <1>7, <2>15, <4>1, <4>2 DEF SignalDisconnected
      <3> QED BY <2>13, <3>4, <3>5, <3>6
    <2> QED BY <2>14, <2>15
  <1> QED BY <1>4, <1>5, <1>6, <1>7

\* onFatalAuthError leaves nothing scheduled; with no request open it keeps the
\* invariant, otherwise what onSignalDisconnected needs.
LEMMA BlockedSound ==
  ASSUME NEW s, Sound(s)
  PROVE  /\ Blocked(s) \in Clis /\ JobSound(Blocked(s).job) /\ LentSound(Blocked(s))
         /\ FlagsSound(Blocked(s)) /\ ~Blocked(s).scheduled
         /\ Blocked(s).recovery => Resting(Blocked(s))
         /\ ~s.asked => Sound(Blocked(s))
  <1>1. s \in Clis /\ JobSound(s.job) /\ LentSound(s) /\ FlagsSound(s) /\ PhaseSound(s)
    BY DEF Sound
  <1>2. PICK p : p = IF ~HasJob(s) /\ ~s.ready THEN "Idle" ELSE s.phase
    OBVIOUS
  <1>3. PICK l : l = IF ~HasJob(s) /\ ~s.ready THEN FALSE ELSE s.late
    OBVIOUS
  <1>4. p \in Phases /\ l \in BOOLEAN
    BY <1>1, <1>2, <1>3, CliFields DEF Phases
  <1>5. PICK t : t = [s EXCEPT !.blocked = TRUE, !.want = FALSE, !.was = FALSE,
                               !.scheduled = FALSE, !.attempt = FALSE,
                               !.phase = p, !.late = l]
    OBVIOUS
  <1>6. Blocked(s) = t
    BY <1>1, <1>2, <1>3, <1>5 DEF Blocked, Clis
  <1>7. t \in Clis
    BY <1>1, <1>4, <1>5, CliSet
  <1>8. /\ t.want = FALSE /\ t.was = FALSE /\ t.scheduled = FALSE
        /\ t.attempt = FALSE /\ t.phase = p /\ t.job = s.job /\ t.link = s.link
        /\ t.ready = s.ready /\ t.tun = s.tun /\ t.recovery = s.recovery
        /\ t.logout = s.logout /\ t.asked = s.asked /\ t.pending = s.pending
        /\ t.room = s.room
    BY <1>1, <1>5 DEF Clis
  <1>9. JobSound(t.job) /\ LentSound(t)
    BY <1>1, <1>8 DEF LentSound
  <1>10. FlagsSound(t)
    BY <1>1, <1>8 DEF FlagsSound
  <1>11. PhaseSound(t)
    BY <1>1, <1>2, <1>8 DEF PhaseSound, HasJob
  <1>12. t.recovery => Resting(t)
    <2>1. s.recovery => Resting(s)
      BY <1>1, LogoutRests DEF FlagsSound
    <2> QED BY <1>2, <1>8, <2>1 DEF Resting, HasJob
  <1>13. ASSUME ~s.asked
         PROVE  AgreeSound(t)
    <2>1. CASE ~HasJob(s) /\ ~s.ready
      <3>1. s.job = NoJob
        BY <1>1, <2>1 DEF HasJob, JobSound
      <3>2. Quiet(t)
        BY <1>2, <1>8, <1>13, <2>1, <3>1, NoJobSound DEF Quiet
      <3> QED BY <3>2, QuietAgrees
    <2>2. CASE ~(~HasJob(s) /\ ~s.ready)
      <3>1. t.phase = s.phase
        BY <1>2, <1>8, <2>2
      <3> QED BY <1>8, <1>13, <3>1 DEF Sound, AgreeSound, HasJob
    <2> QED BY <2>1, <2>2
  <1> QED BY <1>6, <1>7, <1>8, <1>9, <1>10, <1>11, <1>12, <1>13 DEF Sound

\* A request for a room begins only where the tracker is idle, and keeps the
\* invariant.
LEMMA RequestSound ==
  ASSUME NEW s, Sound(s), s.link = "LoggedIn"
  PROVE  Sound(BeginRoomRequest(s))
  <1>1. s \in Clis /\ JobSound(s.job) /\ LentSound(s) /\ FlagsSound(s) /\ PhaseSound(s)
    BY DEF Sound
  <1>2. CASE ~HasJob(s) /\ ~s.recovery /\ s.phase = "Idle"
    <2>1. PICK t : t = [s EXCEPT !.phase = "WaitingServer", !.late = FALSE,
                                 !.asked = TRUE]
      OBVIOUS
    <2>2. BeginRoomRequest(s) = t
      BY <1>2, <2>1 DEF BeginRoomRequest
    <2>3. t \in Clis
      BY <1>1, <2>1, CliSet DEF Phases
    <2>4. /\ t.want = s.want /\ t.was = s.was /\ t.scheduled = s.scheduled
          /\ t.attempt = s.attempt /\ t.phase = "WaitingServer" /\ t.job = s.job
          /\ t.link = s.link /\ t.ready = s.ready /\ t.tun = s.tun
          /\ t.recovery = s.recovery /\ t.logout = s.logout
      BY <1>1, <2>1 DEF Clis
    <2>5. JobSound(t.job) /\ LentSound(t) /\ FlagsSound(t)
      BY <1>1, <2>4 DEF LentSound, FlagsSound
    <2>6. PhaseSound(t)
      BY <1>1, <2>4 DEF PhaseSound, HasJob
    <2>7. s.job = NoJob
      BY <1>1, <1>2 DEF HasJob, JobSound
    <2>8. AgreeSound(t)
      BY <1>2, <2>4, <2>7, NoJobSound DEF AgreeSound, HasJob
    <2> QED BY <2>2, <2>3, <2>5, <2>6, <2>8 DEF Sound
  <1>3. CASE ~(~HasJob(s) /\ ~s.recovery /\ s.phase = "Idle")
    BY <1>3 DEF BeginRoomRequest
  <1> QED BY <1>2, <1>3

\* doConnect keeps the invariant, whatever comes of resolving the name and of
\* connectTo: while a job lives it does nothing.
LEMMA ConnectSound ==
  ASSUME NEW s, Sound(s), NEW outcome \in Outcomes
  PROVE  Sound(DoConnect(s, outcome))
  <1>1. s \in Clis /\ JobSound(s.job) /\ LentSound(s) /\ FlagsSound(s) /\ PhaseSound(s)
    BY DEF Sound
  <1>2. PICK b : b = (s.scheduled /\ s.attempt)
    OBVIOUS
  <1>3. b = FALSE
    BY <1>1, <1>2 DEF FlagsSound
  <1>4. PICK t : t = [s EXCEPT !.blocked = FALSE, !.scheduled = b]
    OBVIOUS
  <1>5. t \in Clis
    BY <1>1, <1>3, <1>4, CliSet
  <1>6. /\ t.want = s.want /\ t.was = s.was /\ t.scheduled = FALSE
        /\ t.attempt = s.attempt /\ t.phase = s.phase /\ t.job = s.job
        /\ t.link = s.link /\ t.ready = s.ready /\ t.tun = s.tun
        /\ t.recovery = s.recovery /\ t.logout = s.logout
        /\ t.asked = s.asked /\ t.pending = s.pending /\ t.room = s.room
    BY <1>1, <1>3, <1>4 DEF Clis
  <1>7. JobSound(t.job) /\ LentSound(t) /\ FlagsSound(t)
    BY <1>1, <1>6 DEF LentSound, FlagsSound
  <1>8. PhaseSound(t)
    BY <1>1, <1>6 DEF PhaseSound, HasJob
  <1>9. t = [s EXCEPT !.blocked = FALSE, !.scheduled = @ /\ s.attempt]
    BY <1>1, <1>2, <1>4 DEF Clis
  <1>10. CASE \/ s.link \in {"Connected", "LoggedIn"} \/ HasJob(s)
              \/ outcome = "unresolved"
    <2>1. DoConnect(s, outcome) = t
      BY <1>9, <1>10 DEF DoConnect
    <2>2. AgreeSound(t)
      BY <1>6 DEF Sound, AgreeSound, HasJob
    <2> QED BY <1>5, <1>7, <1>8, <2>1, <2>2 DEF Sound
  <1>11. CASE ~(\/ s.link \in {"Connected", "LoggedIn"} \/ HasJob(s)
                \/ outcome = "unresolved")
    <2>1. PICK y : y = TeardownTun(t)
      OBVIOUS
    <2>2. TearsDown(t, y)
      BY <1>5, <1>7, <2>1, TeardownFields
    <2>3. PICK l : l = IF outcome = "begun" THEN "Connecting" ELSE "Off"
      OBVIOUS
    <2>4. l \in LinkStates
      BY <2>3 DEF LinkStates
    <2>5. PICK u : u = [y EXCEPT !.link = l]
      OBVIOUS
    <2>6. DoConnect(s, outcome) = u
      BY <1>9, <1>11, <2>1, <2>3, <2>5 DEF DoConnect
    <2>7. y \in Clis
      BY <2>2 DEF TearsDown
    <2>8. u \in Clis
      BY <2>4, <2>5, <2>7, CliSet
    <2>9. /\ u.want = y.want /\ u.was = y.was /\ u.scheduled = y.scheduled
          /\ u.attempt = y.attempt /\ u.phase = y.phase /\ u.job = y.job
          /\ u.link = l /\ u.tun = y.tun
          /\ u.recovery = y.recovery /\ u.logout = y.logout /\ u.asked = y.asked
      BY <2>5, <2>7 DEF Clis
    <2>10. ~s.logout /\ ~s.recovery /\ s.job.pc = "none"
      BY <1>1, <1>11 DEF FlagsSound, HasJob
    <2>11. /\ JobSound(u.job) /\ u.tun = FALSE /\ u.phase = "Idle"
           /\ u.want = s.want /\ u.was = s.was /\ u.scheduled = FALSE
           /\ u.attempt = s.attempt /\ u.recovery = s.recovery
           /\ u.logout = s.logout /\ u.job.pc = "none"
      BY <1>6, <2>2, <2>9, <2>10 DEF TearsDown
    <2>12. LentSound(u) /\ FlagsSound(u)
      BY <1>1, <2>3, <2>9, <2>10, <2>11 DEF LentSound, FlagsSound
    <2>13. PhaseSound(u)
      BY <2>11 DEF PhaseSound, HasJob
    <2>14. ~s.asked
      BY <1>11 DEF Sound, AgreeSound
    <2>15. Quiet(u)
      BY <1>6, <2>2, <2>9, <2>11, <2>14 DEF TearsDown, Quiet
    <2> QED BY <2>6, <2>8, <2>11, <2>12, <2>13, <2>15, QuietAgrees DEF Sound
  <1> QED BY <1>10, <1>11

\* Leaving a room, or losing its adapter, keeps the invariant.
LEMMA LeaveSound ==
  ASSUME NEW s, Sound(s), ~s.asked
  PROVE  Sound(ResetRoomRuntimeState(TeardownTun(s)))
  <1>1. s \in Clis /\ JobSound(s.job) /\ FlagsSound(s) /\ PhaseSound(s)
    BY DEF Sound
  <1>2. PICK y : y = TeardownTun(s)
    OBVIOUS
  <1>3. TearsDown(s, y)
    BY <1>1, <1>2, TeardownFields
  <1>4. y \in Clis
    BY <1>3 DEF TearsDown
  <1>5. PICK u : u = ResetRoomRuntimeState(y)
    OBVIOUS
  <1>6. /\ u \in Clis /\ u.job = y.job /\ u.tun = y.tun /\ u.link = y.link
        /\ u.recovery = y.recovery /\ u.logout = y.logout /\ u.phase = y.phase
        /\ u.scheduled = y.scheduled /\ u.attempt = y.attempt
        /\ u.want = y.want /\ u.was = FALSE /\ u.ready = FALSE
        /\ u.asked = y.asked
    BY <1>4, <1>5, ResetFields
  <1>7. /\ JobSound(u.job) /\ u.tun = FALSE /\ u.link = s.link
        /\ u.recovery = s.recovery /\ u.logout = s.logout
        /\ u.scheduled = s.scheduled /\ u.attempt = s.attempt
        /\ u.want = s.want
        /\ u.job.pc = "none" <=> s.job.pc = "none"
        /\ u.job.pc = "none" => u.phase = "Idle"
    BY <1>3, <1>6 DEF TearsDown
  <1>8. LentSound(u) /\ FlagsSound(u)
    BY <1>1, <1>6, <1>7 DEF LentSound, FlagsSound
  <1>9. PhaseSound(u)
    BY <1>1, <1>6, <1>7 DEF PhaseSound, HasJob
  <1>10. Quiet(u)
    BY <1>3, <1>6 DEF TearsDown, Quiet
  <1> QED BY <1>2, <1>5, <1>6, <1>7, <1>8, <1>9, <1>10, QuietAgrees DEF Sound

\* A job that begins, and one whose thread cannot be created, promise what a
\* job must.
LEMMA NewJobSound ==
  /\ NewJob \in Jobs /\ JobSound(NewJob) /\ NewJob.pc # "none"
  /\ UnstartedJob \in Jobs /\ JobSound(UnstartedJob) /\ UnstartedJob.pc # "none"
  BY DEF NewJob, UnstartedJob, NoJob, Jobs, Stages, JobSound, Lent

\* beginTunReadiness keeps the invariant: it begins a job, or recovers when the
\* last one is not over.
LEMMA ReadinessSound ==
  ASSUME NEW s \in Clis, JobSound(s.job), LentSound(s), FlagsSound(s),
         s.link = "LoggedIn", s.phase = "Preparing", s.room, ~s.asked, ~s.recovery,
         ~s.logout, NEW started \in BOOLEAN
  PROVE  Sound(BeginTunReadiness(s, started))
  <1>1. s \in Clis /\ JobSound(s.job) /\ LentSound(s) /\ FlagsSound(s)
    OBVIOUS
  <1>2. PICK t : t = [s EXCEPT !.pending = TRUE, !.ready = FALSE]
    OBVIOUS
  <1>3. t \in Clis
    BY <1>1, <1>2, CliSet
  <1>4. /\ t.want = s.want /\ t.was = s.was /\ t.scheduled = s.scheduled
        /\ t.attempt = s.attempt /\ t.phase = s.phase /\ t.job = s.job
        /\ t.link = s.link /\ t.ready = FALSE /\ t.tun = s.tun
        /\ t.recovery = s.recovery /\ t.logout = s.logout
        /\ t.asked = s.asked /\ t.pending = TRUE /\ t.room = s.room
    BY <1>1, <1>2 DEF Clis
  <1>5. JobSound(t.job) /\ LentSound(t) /\ FlagsSound(t)
    BY <1>1, <1>4 DEF LentSound, FlagsSound
  <1>6. CASE HasJob(s)
    <2>2. ~t.recovery /\ t.phase # "CleaningUp"
      BY <1>4
    <2>3. HasJob(t) => t.link \in {"Off", "LoggedIn"}
      BY <1>4
    <2>4. BeginTunReadiness(s, started) = RecoverRoomOperation(t)
      BY <1>2, <1>6 DEF BeginTunReadiness
    <2> QED BY <1>3, <1>5, <2>2, <2>3, <2>4, RecoverSound
  <1>7. CASE ~HasJob(s)
    <2>1. PICK k : k = IF started THEN NewJob ELSE UnstartedJob
      OBVIOUS
    <2>2. k \in Jobs /\ JobSound(k) /\ k.pc # "none"
      BY <2>1, NewJobSound
    <2>3. PICK u : u = [t EXCEPT !.job = k]
      OBVIOUS
    <2>4. BeginTunReadiness(s, started) = u
      BY <1>2, <1>7, <2>1, <2>3 DEF BeginTunReadiness
    <2>5. u \in Clis
      BY <1>3, <2>2, <2>3, CliSet
    <2>6. /\ u.want = s.want /\ u.was = s.was /\ u.scheduled = s.scheduled
          /\ u.attempt = s.attempt /\ u.phase = s.phase /\ u.job = k
          /\ u.link = s.link /\ u.ready = FALSE /\ u.tun = s.tun
          /\ u.recovery = s.recovery /\ u.logout = s.logout
          /\ u.asked = s.asked /\ u.pending = TRUE /\ u.room = s.room
      BY <1>3, <1>4, <2>3 DEF Clis
    <2>7. ~s.tun
      BY <1>1, <1>7 DEF LentSound, HasJob, Lent
    <2>8. JobSound(u.job) /\ LentSound(u) /\ FlagsSound(u)
      BY <1>1, <2>2, <2>6, <2>7 DEF LentSound, FlagsSound
    <2>9. PhaseSound(u)
      BY <2>6 DEF PhaseSound
    <2>10. AgreeSound(u)
      BY <2>2, <2>6 DEF AgreeSound, HasJob
    <2> QED BY <2>4, <2>5, <2>8, <2>9, <2>10 DEF Sound
  <1> QED BY <1>6, <1>7

-----------------------------------------------------------------------------
(* The steps of the worker and of the event loop *)

\* A step that changes none of the members Sound speaks about, or answers the
\* request.
LEMMA SameSound ==
  ASSUME NEW s, Sound(s), NEW t \in Clis,
         t.job = s.job, t.phase = s.phase, t.link = s.link, t.ready = s.ready,
         t.tun = s.tun, t.recovery = s.recovery, t.scheduled = s.scheduled,
         t.attempt = s.attempt, t.logout = s.logout, t.want = s.want,
         t.was = s.was, t.pending = s.pending, t.room = s.room,
         t.asked => s.asked
  PROVE  Sound(t)
  BY DEF Sound, LentSound, FlagsSound, PhaseSound, AgreeSound, HasJob

\* A step of the worker, or of the loop, that changes only the job.
LEMMA JobStepSound ==
  ASSUME NEW s, Sound(s), s.job.pc # "none",
         NEW k \in Jobs, JobSound(k), k.pc # "none",
         s.tun => k.pc \in Lent /\ ~k.cancel, k.current = s.job.current
  PROVE  Sound([s EXCEPT !.job = k])
  <1>1. PICK t : t = [s EXCEPT !.job = k]
    OBVIOUS
  <1>2. s \in Clis /\ FlagsSound(s) /\ PhaseSound(s)
    BY DEF Sound
  <1>3. t \in Clis
    BY <1>1, <1>2, CliSet
  <1>4. /\ t.job = k /\ t.phase = s.phase /\ t.link = s.link /\ t.ready = s.ready
        /\ t.tun = s.tun /\ t.recovery = s.recovery /\ t.scheduled = s.scheduled
        /\ t.attempt = s.attempt /\ t.logout = s.logout /\ t.want = s.want
        /\ t.was = s.was /\ t.asked = s.asked /\ t.pending = s.pending
        /\ t.room = s.room
    BY <1>1, <1>2 DEF Clis
  <1>5. JobSound(t.job) /\ LentSound(t) /\ FlagsSound(t)
    BY <1>2, <1>4 DEF LentSound, FlagsSound
  <1>6. PhaseSound(t)
    BY <1>2, <1>4 DEF PhaseSound, HasJob
  <1>7. AgreeSound(t)
    BY <1>4 DEF Sound, AgreeSound, HasJob
  <1> QED BY <1>1, <1>3, <1>5, <1>6, <1>7 DEF Sound

\* A native call of the worker returns: Ready is published only by a worker
\* that goes on to lend its adapter.
LEMMA WorkerStageSound ==
  ASSUME Sound(cli), WorkerStage
  PROVE  Sound(cli')
  <1>1. PICK j : j = cli.job
    OBVIOUS
  <1>2. j \in Jobs /\ JobSound(j) /\ j.pc \in Stages /\ j.pc # "none" /\ ~cli.tun
    BY <1>1 DEF Sound, Clis, WorkerStage, LentSound, Stages, Lent
  <1>3. "Ready" \in j.events => j.cancel
    BY <1>2 DEF JobSound, Stages, Lent
  <1>4. CASE /\ ~j.cancel
             /\ cli' = [cli EXCEPT !.job = [j EXCEPT
                  !.pc = AfterStage(@), !.adapter = TRUE,
                  !.events = IF j.pc = "waiting-readiness" THEN @ \cup {"Ready"} ELSE @]]
    <2>1. PICK p : p = AfterStage(j.pc)
      OBVIOUS
    <2>2. /\ p \in {"configure-network", "start-session", "waiting-readiness", "lent"}
          /\ p = "lent" <=> j.pc = "waiting-readiness"
      BY <1>2, <2>1 DEF AfterStage, Stages
    <2>3. PICK e : e = IF j.pc = "waiting-readiness" THEN j.events \cup {"Ready"}
                                                     ELSE j.events
      OBVIOUS
    <2>4. e \in SUBSET {"Ready", "Failed"} /\ ("Ready" \in e => p = "lent")
      BY <1>2, <1>3, <1>4, <2>2, <2>3 DEF Jobs
    <2>5. PICK k : k = [j EXCEPT !.pc = p, !.adapter = TRUE, !.events = e]
      OBVIOUS
    <2>6. /\ k \in Jobs /\ k.pc = p /\ k.adapter = TRUE /\ k.events = e
          /\ k.current = j.current /\ k.cancel = j.cancel
      BY <1>2, <2>2, <2>4, <2>5 DEF Jobs, Stages
    <2>7. JobSound(k) /\ k.pc # "none"
      BY <1>2, <2>2, <2>4, <2>6 DEF JobSound, Lent
    <2>8. cli' = [cli EXCEPT !.job = k]
      BY <1>2, <1>4, <2>1, <2>3, <2>5 DEF Jobs
    <2> QED BY <1>1, <1>2, <2>6, <2>7, <2>8, JobStepSound
  <1>5. ASSUME NEW reported \in BOOLEAN, reported \/ j.cancel,
               cli' = [cli EXCEPT !.job = [j EXCEPT
                  !.pc = "cleaning",
                  !.events = IF reported THEN @ \cup {"Failed"} ELSE @]]
        PROVE  Sound(cli')
    <2>1. PICK e : e = IF reported THEN j.events \cup {"Failed"} ELSE j.events
      OBVIOUS
    <2>2. e \in SUBSET {"Ready", "Failed"} /\ ("Ready" \in e => j.cancel)
      BY <1>2, <1>3, <2>1 DEF Jobs
    <2>3. PICK k : k = [j EXCEPT !.pc = "cleaning", !.events = e]
      OBVIOUS
    <2>4. /\ k \in Jobs /\ k.pc = "cleaning" /\ k.events = e
          /\ k.current = j.current /\ k.cancel = j.cancel
      BY <1>2, <2>2, <2>3 DEF Jobs
    <2>5. JobSound(k) /\ k.pc # "none"
      BY <1>2, <2>2, <2>4 DEF JobSound, Lent
    <2>6. cli' = [cli EXCEPT !.job = k]
      BY <1>2, <1>5, <2>1, <2>3 DEF Jobs
    <2> QED BY <1>1, <1>2, <2>4, <2>5, <2>6, JobStepSound
  <1> QED BY <1>1, <1>4, <1>5 DEF WorkerStage

\* The worker tests its predicate, sleeps and wakes: it leaves the states in
\* which the adapter is lent only when it is cancelled.
LEMMA WorkerWaitSound ==
  ASSUME Sound(cli), WorkerTest \/ WorkerSleep \/ SpuriousWake
  PROVE  Sound(cli')
  <1>1. PICK j : j = cli.job
    OBVIOUS
  <1>2. /\ j \in Jobs /\ JobSound(j) /\ j.pc \in Lent /\ j.pc # "none" /\ cli \in Clis
        /\ cli.tun => ~j.cancel
    BY <1>1 DEF Sound, Clis, WorkerTest, WorkerSleep, SpuriousWake, LentSound, Lent
  <1>3. \E p \in Lent \cup {"cleaning"} :
          /\ p = "cleaning" => j.cancel
          /\ cli' = [cli EXCEPT !.job = [j EXCEPT !.pc = p]]
    <2>1. CASE WorkerTest
      BY <1>1, <1>2, <2>1 DEF WorkerTest, Lent
    <2>2. CASE WorkerSleep
      BY <1>1, <1>2, <2>2 DEF WorkerSleep, Lent
    <2>3. CASE SpuriousWake
      BY <1>1, <1>2, <2>3 DEF SpuriousWake, Lent
    <2> QED BY <2>1, <2>2, <2>3
  <1>4. PICK p \in Lent \cup {"cleaning"} :
          /\ p = "cleaning" => j.cancel
          /\ cli' = [cli EXCEPT !.job = [j EXCEPT !.pc = p]]
    BY <1>3
  <1>5. PICK k : k = [j EXCEPT !.pc = p]
    OBVIOUS
  <1>6. /\ k \in Jobs /\ k.pc = p /\ k.current = j.current /\ k.cancel = j.cancel
        /\ k.events = j.events /\ k.adapter = j.adapter
    BY <1>2, <1>5 DEF Jobs, Lent
  <1>7. JobSound(k) /\ k.pc # "none"
    BY <1>2, <1>4, <1>6 DEF JobSound, Lent
  <1>8. cli.tun => k.pc \in Lent /\ ~k.cancel
    BY <1>2, <1>4, <1>6 DEF Lent
  <1>9. cli' = [cli EXCEPT !.job = k]
    BY <1>4, <1>5
  <1> QED BY <1>1, <1>2, <1>6, <1>7, <1>8, <1>9, JobStepSound

\* The worker frees its adapter only in a state in which nobody borrows it.
LEMMA WorkerCleanSound ==
  ASSUME Sound(cli), WorkerClean
  PROVE  Sound(cli')
  <1>1. PICK j : j = cli.job
    OBVIOUS
  <1>2. /\ j \in Jobs /\ JobSound(j) /\ j.pc = "cleaning" /\ cli \in Clis /\ ~cli.tun
    BY <1>1 DEF Sound, Clis, WorkerClean, LentSound, Lent
  <1>3. PICK k : k = [j EXCEPT !.pc = "done", !.adapter = FALSE]
    OBVIOUS
  <1>4. cli' = [cli EXCEPT !.job = k]
    BY <1>1, <1>2, <1>3 DEF WorkerClean, Clis, Jobs
  <1>5. /\ k \in Jobs /\ k.pc = "done" /\ k.current = j.current /\ k.cancel = j.cancel
        /\ k.events = j.events
    BY <1>2, <1>3 DEF Jobs
  <1>6. JobSound(k) /\ k.pc # "none"
    BY <1>2, <1>5 DEF JobSound, Lent
  <1> QED BY <1>1, <1>2, <1>4, <1>5, <1>6, JobStepSound

\* recoverRoomOperation keeps the invariant.
LEMMA RecoveringSound ==
  ASSUME NEW s, Sound(s)
  PROVE  Sound(RecoverRoomOperation(s))
  BY RecoverSound DEF Sound, PhaseSound

\* The events are taken from the queue.
LEMMA EventsTaken ==
  ASSUME NEW s, Sound(s), HasJob(s), NEW t,
         t = [s EXCEPT !.job.events = {}, !.polling = TRUE]
  PROVE  /\ Sound(t) /\ t.job.pc = s.job.pc /\ t.job.cancel = s.job.cancel
         /\ t.link = s.link /\ t.job.current = s.job.current
  <1>1. PICK j : j = s.job
    OBVIOUS
  <1>2. /\ s \in Clis /\ j \in Jobs /\ JobSound(j) /\ j.pc # "none"
        /\ s.tun => j.pc \in Lent /\ ~j.cancel
    BY <1>1 DEF Sound, Clis, HasJob, LentSound
  <1>3. PICK k : k = [j EXCEPT !.events = {}]
    OBVIOUS
  <1>4. /\ k \in Jobs /\ k.pc = j.pc /\ k.current = j.current /\ k.cancel = j.cancel
        /\ k.events = {} /\ k.adapter = j.adapter
    BY <1>2, <1>3 DEF Jobs
  <1>5. JobSound(k)
    BY <1>2, <1>4 DEF JobSound
  <1>6. PICK a : a = [s EXCEPT !.job = k]
    OBVIOUS
  <1>7. Sound(a)
    BY <1>1, <1>2, <1>4, <1>5, <1>6, JobStepSound
  <1>8. t = [a EXCEPT !.polling = TRUE]
    BY <1>1, <1>2, <1>3, <1>6 DEF Clis
  <1>9. a \in Clis
    BY <1>7 DEF Sound
  <1>10. PICK b : b = [a EXCEPT !.polling = TRUE]
    OBVIOUS
  <1>11. b \in Clis
    BY <1>9, <1>10, CliSet
  <1>12. /\ b.job = a.job /\ b.phase = a.phase /\ b.link = a.link /\ b.ready = a.ready
         /\ b.tun = a.tun /\ b.recovery = a.recovery /\ b.scheduled = a.scheduled
         /\ b.attempt = a.attempt /\ b.logout = a.logout /\ b.want = a.want
         /\ b.was = a.was /\ b.asked = a.asked /\ b.pending = a.pending
         /\ b.room = a.room
    BY <1>9, <1>10 DEF Clis
  <1>13. Sound(b)
    BY <1>7, <1>11, <1>12, SameSound
  <1>14. a.job = k /\ a.link = s.link
    BY <1>2, <1>6 DEF Clis
  <1>15. b.job = k /\ b.link = s.link
    BY <1>12, <1>14
  <1>16. t = b
    BY <1>8, <1>10
  <1> QED BY <1>1, <1>4, <1>13, <1>15, <1>16

\* Ready: the adapter that is borrowed is one the worker keeps.
LEMMA EstablishedSound ==
  ASSUME NEW s, Sound(s), s.job.pc \in Lent, ~s.job.cancel, s.job.current,
         NEW started \in BOOLEAN
  PROVE  Sound(Established(s, started))
  <1>1. s \in Clis /\ JobSound(s.job) /\ FlagsSound(s) /\ PhaseSound(s)
    BY DEF Sound
  <1>2. CASE s.late \/ ~started
    BY <1>2, RecoveringSound DEF Established
  <1>3. CASE ~(s.late \/ ~started)
    <2>1. PICK t : t = [s EXCEPT !.tun = TRUE, !.pending = FALSE, !.phase = "InRoom",
                                 !.ready = TRUE]
      OBVIOUS
    <2>2. Established(s, started) = t
      BY <1>3, <2>1 DEF Established
    <2>3. t \in Clis
      BY <1>1, <2>1, CliSet DEF Phases
    <2>4. /\ t.job = s.job /\ t.phase = "InRoom" /\ t.link = s.link
          /\ t.recovery = s.recovery /\ t.scheduled = s.scheduled
          /\ t.attempt = s.attempt /\ t.logout = s.logout /\ t.want = s.want
          /\ t.was = s.was /\ t.asked = s.asked /\ t.room = s.room
          /\ t.tun = TRUE /\ t.ready = TRUE
      BY <1>1, <2>1 DEF Clis
    <2>5. JobSound(t.job) /\ LentSound(t) /\ FlagsSound(t)
      BY <1>1, <2>4 DEF LentSound, FlagsSound
    <2>6. PhaseSound(t)
      BY <1>1, <2>4 DEF PhaseSound, HasJob
    <2>7. AgreeSound(t)
      BY <2>4 DEF Sound, AgreeSound
    <2> QED BY <2>2, <2>3, <2>5, <2>6, <2>7 DEF Sound
  <1> QED BY <1>2, <1>3

\* The first part of pollRoomOperation keeps the invariant: a Ready that is
\* accepted belongs to a job that was not cancelled.
LEMMA PollEventsSound ==
  ASSUME Sound(cli), PollEvents
  PROVE  Sound(cli')
  <1>1. PICK s : s = [cli EXCEPT !.job.events = {}, !.polling = TRUE]
    OBVIOUS
  <1>2. HasJob(cli)
    BY DEF PollEvents
  <1>3. /\ Sound(s) /\ s.job.pc = cli.job.pc /\ s.job.cancel = cli.job.cancel
        /\ s.job.current = cli.job.current
    BY <1>1, <1>2, EventsTaken
  <1>4. CASE cli' = s
    BY <1>3, <1>4
  <1>5. CASE cli' = RecoverRoomOperation(s)
    BY <1>3, <1>5, RecoveringSound
  <1>6. ASSUME "Ready" \in cli.job.events, Accepts(cli), NEW started \in BOOLEAN,
               cli' = Established(s, started)
        PROVE  Sound(cli')
    <2>1. JobSound(cli.job) /\ cli.job.current
      BY <1>6 DEF Sound, Accepts
    <2>2. cli.job.pc \in Lent /\ ~cli.job.cancel
      BY <1>6, <2>1 DEF JobSound
    <2> QED BY <1>3, <1>6, <2>1, <2>2, EstablishedSound
  <1> QED BY <1>1, <1>4, <1>5, <1>6 DEF PollEvents

\* The second part of pollRoomOperation keeps the invariant: the events a
\* dropped job leaves behind are lost with it.
LEMMA PollDoneSound ==
  ASSUME Sound(cli), PollDone
  PROVE  Sound(cli')
  <1>1. PICK s : s = [cli EXCEPT !.polling = FALSE]
    OBVIOUS
  <1>2. cli \in Clis
    BY DEF Sound
  <1>3. s \in Clis
    BY <1>1, <1>2, CliSet
  <1>4. /\ s.job = cli.job /\ s.phase = cli.phase /\ s.link = cli.link
        /\ s.ready = cli.ready /\ s.tun = cli.tun /\ s.recovery = cli.recovery
        /\ s.scheduled = cli.scheduled /\ s.attempt = cli.attempt
        /\ s.logout = cli.logout /\ s.want = cli.want /\ s.was = cli.was
        /\ s.asked = cli.asked /\ s.pending = cli.pending /\ s.room = cli.room
    BY <1>1, <1>2 DEF Clis
  <1>5. Sound(s)
    BY <1>3, <1>4, SameSound
  <1>6. ASSUME NEW t, Sound(t), cli' = IF Overdue(t) THEN RecoverRoomOperation(t) ELSE t
        PROVE  Sound(cli')
    BY <1>6, RecoveringSound
  <1>7. CASE cli.job.pc # "done"
    <2>1. cli' = IF Overdue(s) THEN RecoverRoomOperation(s) ELSE s
      BY <1>1, <1>7 DEF PollDone
    <2> QED BY <1>5, <1>6, <2>1
  <1>8. CASE cli.job.pc = "done"
    <2> DEFINE keep == s.recovery \/ s.ready \/ s.logout
    <2>1. PICK p : p = IF keep THEN s.phase ELSE "Idle"
      OBVIOUS
    <2>2. PICK l : l = IF keep THEN s.late ELSE FALSE
      OBVIOUS
    <2>3. p \in Phases /\ l \in BOOLEAN
      BY <1>3, <2>1, <2>2, CliFields DEF Phases
    <2>4. PICK t : t = [s EXCEPT !.job = NoJob, !.phase = p, !.late = l]
      OBVIOUS
    <2>5. cli' = IF Overdue(t) THEN RecoverRoomOperation(t) ELSE t
      <3>1. t = [s EXCEPT !.job = NoJob,
                  !.phase = IF s.recovery \/ s.ready \/ s.logout THEN @ ELSE "Idle",
                  !.late = IF s.recovery \/ s.ready \/ s.logout THEN @ ELSE FALSE]
        BY <1>3, <2>1, <2>2, <2>4 DEF Clis
      <3> QED BY <1>1, <1>8, <3>1 DEF PollDone
    <2>6. t \in Clis
      BY <1>3, <2>3, <2>4, NoJobSound, CliSet
    <2>7. /\ t.job = NoJob /\ t.phase = p /\ t.link = s.link
          /\ t.ready = s.ready /\ t.tun = s.tun /\ t.recovery = s.recovery
          /\ t.scheduled = s.scheduled /\ t.attempt = s.attempt
          /\ t.logout = s.logout /\ t.want = s.want /\ t.was = s.was
          /\ t.asked = s.asked
      BY <1>3, <2>4 DEF Clis
    <2>8. LentSound(s) /\ FlagsSound(s) /\ PhaseSound(s) /\ s.job.pc = "done"
      BY <1>4, <1>5, <1>8 DEF Sound
    <2>9. ~s.tun
      BY <2>8 DEF LentSound, Lent
    <2>10. JobSound(t.job) /\ LentSound(t) /\ FlagsSound(t)
      BY <2>7, <2>8, <2>9, NoJobSound DEF LentSound, FlagsSound
    <2>11. PhaseSound(t)
      <3>1. t.job.pc = "none"
        BY <2>7, NoJobSound
      <3>2. ASSUME p = "CleaningUp", s.link # "Off"
            PROVE  s.logout
        <4>1. keep /\ s.phase = "CleaningUp"
          BY <2>1, <3>2
        <4> QED BY <2>8, <3>2, <4>1 DEF FlagsSound, PhaseSound, HasJob
      <3> QED BY <2>7, <3>1, <3>2 DEF PhaseSound, HasJob
    <2>12. Quiet(t)
      <3>1. AgreeSound(s) /\ s.phase \in Phases /\ HasJob(s)
        BY <1>3, <1>5, <2>8, CliFields DEF Sound, HasJob
      <3>2. ~s.asked /\ s.phase \notin {"WaitingServer", "InRoom"}
        BY <2>9, <3>1 DEF AgreeSound
      <3>3. keep => s.phase # "Preparing"
        BY <2>8, <3>1 DEF AgreeSound, FlagsSound
      <3> QED BY <2>1, <2>7, <3>1, <3>2, <3>3, NoJobSound DEF Quiet, Phases
    <2>13. Sound(t)
      BY <2>6, <2>10, <2>11, <2>12, QuietAgrees DEF Sound
    <2> QED BY <1>6, <2>5, <2>13
  <1> QED BY <1>7, <1>8

\* A step that changes only flags.
LEMMA FlagStepSound ==
  ASSUME NEW s, Sound(s), NEW t \in Clis, FlagsSound(t),
         t.job = s.job, t.phase = s.phase, t.link = s.link, t.ready = s.ready,
         t.tun = s.tun, t.logout = s.logout, t.asked = s.asked,
         t.pending = s.pending, t.room = s.room
  PROVE  Sound(t)
  BY DEF Sound, LentSound, PhaseSound, AgreeSound, HasJob

\* A handshake is given up.
LEMMA UnlinkSound ==
  ASSUME NEW s, Sound(s), s.link = "Connected"
  PROVE  Sound(Unlinked(s)) /\ Unlinked(s).link = "Off"
  <1>1. s \in Clis /\ JobSound(s.job) /\ LentSound(s) /\ FlagsSound(s)
    BY DEF Sound
  <1>2. PICK t : t = Unlinked(s)
    OBVIOUS
  <1>3. /\ t \in Clis /\ t.link = "Off" /\ t.attempt = s.attempt
        /\ t.scheduled = s.scheduled /\ t.want = s.want /\ t.was = s.was
        /\ t.job = s.job /\ t.phase = s.phase /\ t.asked = FALSE
        /\ t.tun = s.tun /\ t.recovery = s.recovery /\ t.logout = s.logout
    BY <1>1, <1>2, UnlinkedFields
  <1>4. JobSound(t.job) /\ LentSound(t) /\ FlagsSound(t) /\ PhaseSound(t)
    BY <1>1, <1>3 DEF LentSound, FlagsSound, PhaseSound
  <1>5. Quiet(t)
    BY <1>3, HandshakeQuiet DEF Quiet
  <1> QED BY <1>2, <1>3, <1>4, <1>5, QuietAgrees DEF Sound

\* A server password that is replaced may end the handshake; that keeps the
\* invariant.
LEMMA ReplacedSound ==
  ASSUME NEW s, Sound(s), NEW t \in PasswordReplaced(s)
  PROVE  Sound(t)
  BY UnlinkSound DEF PasswordReplaced

\* The socket is connected, or the login answered.
LEMMA ConnectedSound ==
  ASSUME Sound(cli), cli.link \in {"Connecting", "Connected"},
         NEW l \in {"Connected", "LoggedIn"}, NEW s, s = [cli EXCEPT !.link = l],
         l = "LoggedIn" => ~cli.attempt
  PROVE  Sound(s)
  <1>1. /\ cli \in Clis /\ JobSound(cli.job) /\ LentSound(cli) /\ FlagsSound(cli)
        /\ PhaseSound(cli)
    BY DEF Sound
  <1>2. l \in LinkStates
    BY DEF LinkStates
  <1>3. s \in Clis
    BY <1>1, <1>2, CliSet
  <1>4. /\ s.job = cli.job /\ s.phase = cli.phase /\ s.link = l
        /\ s.ready = cli.ready /\ s.tun = cli.tun /\ s.recovery = cli.recovery
        /\ s.scheduled = cli.scheduled /\ s.attempt = cli.attempt
        /\ s.logout = cli.logout /\ s.want = cli.want /\ s.was = cli.was
        /\ s.asked = cli.asked
    BY <1>1 DEF Clis
  <1>5. JobSound(s.job) /\ LentSound(s)
    BY <1>1, <1>4 DEF LentSound
  <1>6. FlagsSound(s)
    BY <1>1, <1>4 DEF FlagsSound
  <1>7. PhaseSound(s)
    BY <1>1, <1>4 DEF PhaseSound, HasJob, FlagsSound
  <1>8. Quiet(s)
    BY <1>4, HandshakeQuiet DEF Quiet
  <1> QED BY <1>3, <1>5, <1>6, <1>7, <1>8, QuietAgrees DEF Sound

\* The events of the connection, short of the login, keep the invariant.
LEMMA ConnectionSound ==
  ASSUME Sound(cli),
         OnConnected \/ OnConnectFailed \/ OnServerError \/ OnSignalDisconnected
           \/ OnFatalAuthError
  PROVE  Sound(cli')
  <1>1. CASE OnConnected
    <2>1. cli.link = "Connecting" /\ cli' = [cli EXCEPT !.link = "Connected"]
      BY <1>1 DEF OnConnected
    <2> QED BY <2>1, ConnectedSound
  <1>0. ASSUME NEW s, Sound(s), ~s.scheduled
        PROVE  Sound(SignalDisconnected(s))
    <2>1. s \in Clis /\ JobSound(s.job) /\ LentSound(s) /\ FlagsSound(s)
      BY <1>0 DEF Sound
    <2>2. s.recovery => Resting(s)
      BY <1>0, <2>1, LogoutRests DEF FlagsSound
    <2> QED BY <1>0, <2>1, <2>2, SignalDisconnectedSound
  <1>2. CASE OnConnectFailed
    BY <1>0, <1>2, FailedSound DEF OnConnectFailed
  <1>3. CASE OnServerError
    BY <1>3, FailedSound DEF OnServerError
  <1>4. CASE OnSignalDisconnected
    <2>1. ~cli.scheduled
      BY <1>4 DEF OnSignalDisconnected, Sound, FlagsSound
    <2> QED BY <1>0, <1>4, <2>1 DEF OnSignalDisconnected
  <1>5. CASE OnFatalAuthError
    BY <1>5, BlockedSound, SignalDisconnectedSound DEF OnFatalAuthError
  <1> QED BY <1>1, <1>2, <1>3, <1>4, <1>5

\* LOGIN_RESP keeps the invariant: after a recovery it drops the plans to
\* reconnect and to rejoin, otherwise it resumes, searches or stays in the
\* lobby.
LEMMA LoginSound ==
  ASSUME Sound(cli), OnLoginResponse
  PROVE  Sound(cli')
  <1>1. /\ cli \in Clis /\ JobSound(cli.job) /\ FlagsSound(cli) /\ cli.link = "Connected"
    BY DEF Sound, OnLoginResponse
  <1>2. PICK s : s = [cli EXCEPT !.link = "LoggedIn"]
    OBVIOUS
  <1>3. s \in Clis
    BY <1>1, <1>2, CliSet DEF LinkStates
  <1>4. /\ s.job = cli.job /\ s.phase = cli.phase /\ s.link = "LoggedIn"
        /\ s.ready = cli.ready /\ s.tun = cli.tun /\ s.recovery = cli.recovery
        /\ s.scheduled = cli.scheduled /\ s.attempt = cli.attempt
        /\ s.logout = cli.logout /\ s.want = cli.want /\ s.was = cli.was
        /\ s.asked = cli.asked
    BY <1>1, <1>2 DEF Clis
  <1>5. PICK t : t = IF s.attempt
                     THEN [s EXCEPT !.attempt = FALSE, !.want = FALSE, !.was = FALSE]
                     ELSE s
    OBVIOUS
  <1>6. /\ Sound(t) /\ t.link = "LoggedIn" /\ ~t.recovery /\ ~t.scheduled
        /\ ~t.attempt
    <2>0. /\ ~cli.recovery /\ ~cli.scheduled /\ ~cli.logout /\ ~HasJob(cli)
          /\ cli.phase # "CleaningUp"
      BY <1>1 DEF Sound, FlagsSound, PhaseSound
    <2>1. CASE s.attempt
      <3>1. t = [s EXCEPT !.attempt = FALSE, !.want = FALSE, !.was = FALSE]
        BY <1>5, <2>1
      <3>2. t \in Clis
        BY <1>3, <3>1, CliSet
      <3>3. /\ t.job = s.job /\ t.phase = s.phase /\ t.link = s.link
            /\ t.ready = s.ready /\ t.tun = s.tun /\ t.recovery = s.recovery
            /\ t.scheduled = s.scheduled /\ t.attempt = FALSE
            /\ t.logout = s.logout /\ t.want = FALSE /\ t.was = FALSE
            /\ t.asked = s.asked
        BY <1>3, <3>1 DEF Clis
      <3>4. JobSound(t.job) /\ LentSound(t)
        BY <1>4, <3>3 DEF Sound, LentSound
      <3>5. FlagsSound(t)
        BY <1>4, <2>0, <3>3 DEF FlagsSound
      <3>6. PhaseSound(t)
        BY <1>4, <2>0, <3>3 DEF PhaseSound, HasJob
      <3>7. Quiet(t)
        BY <1>1, <1>4, <3>3, HandshakeQuiet DEF Quiet
      <3> QED BY <1>4, <2>0, <3>2, <3>3, <3>4, <3>5, <3>6, <3>7, QuietAgrees DEF Sound
    <2>2. CASE ~s.attempt
      <3>1. t = s /\ ~cli.attempt
        BY <1>4, <1>5, <2>2
      <3>2. Sound(s)
        BY <1>1, <1>2, <3>1, ConnectedSound
      <3> QED BY <1>4, <2>0, <2>2, <3>1, <3>2
    <2> QED BY <2>1, <2>2
  <1>7. CASE cli' = BeginGracefulDisconnect(t, FALSE)
    <2>1. t \in Clis /\ JobSound(t.job) /\ (t.logout => t.link = "LoggedIn")
      BY <1>6 DEF Sound
    <2> QED BY <1>7, <2>1, GracefulSound
  <1>8. CASE cli' = BeginRoomRequest(t)
    BY <1>6, <1>8, RequestSound
  <1>9. ASSUME NEW w \in BOOLEAN, cli' = [t EXCEPT !.want = w]
        PROVE  Sound(cli')
    <2>1. PICK u : u = [t EXCEPT !.want = w]
      OBVIOUS
    <2>2. t \in Clis
      BY <1>6 DEF Sound
    <2>3. u \in Clis
      BY <2>1, <2>2, CliSet
    <2>4. /\ u.job = t.job /\ u.phase = t.phase /\ u.link = t.link /\ u.ready = t.ready
          /\ u.tun = t.tun /\ u.logout = t.logout /\ u.recovery = t.recovery
          /\ u.scheduled = t.scheduled /\ u.attempt = t.attempt
          /\ u.asked = t.asked /\ u.pending = t.pending /\ u.room = t.room
      BY <2>1, <2>2 DEF Clis
    <2>5. FlagsSound(u)
      BY <1>6, <2>4 DEF FlagsSound
    <2>6. Sound(u)
      BY <1>6, <2>3, <2>4, <2>5, FlagStepSound
    <2> QED BY <1>9, <2>1, <2>6
  <1> QED BY <1>2, <1>5, <1>7, <1>8, <1>9 DEF OnLoginResponse

\* A plan to reconnect is dropped.
LEMMA DroppedSound ==
  ASSUME NEW s, Sound(s), NEW t, t = [s EXCEPT !.want = FALSE]
  PROVE  Sound(t) /\ t.link = s.link
  <1>1. s \in Clis /\ FlagsSound(s)
    BY DEF Sound
  <1>2. t \in Clis
    BY <1>1, CliSet
  <1>3. /\ t.job = s.job /\ t.phase = s.phase /\ t.link = s.link /\ t.ready = s.ready
        /\ t.tun = s.tun /\ t.logout = s.logout /\ t.recovery = s.recovery
        /\ t.scheduled = s.scheduled /\ t.attempt = s.attempt /\ t.want = FALSE
        /\ t.was = s.was /\ t.asked = s.asked /\ t.pending = s.pending
        /\ t.room = s.room
    BY <1>1 DEF Clis
  <1>4. FlagsSound(t)
    BY <1>1, <1>3 DEF FlagsSound
  <1> QED BY <1>2, <1>3, <1>4, FlagStepSound

\* A request is answered, or no block is left.
LEMMA AnsweredSound ==
  ASSUME NEW s, Sound(s), NEW t,
         t = [s EXCEPT !.asked = FALSE] \/ t = [s EXCEPT !.blocked = FALSE]
           \/ t = [s EXCEPT !.late = TRUE] \/ t = [s EXCEPT !.running = FALSE]
  PROVE  Sound(t) /\ t.phase = s.phase /\ t.link = s.link
  <1>1. s \in Clis
    BY DEF Sound
  <1>2. t \in Clis
    BY <1>1, CliSet
  <1>3. /\ t.job = s.job /\ t.phase = s.phase /\ t.link = s.link /\ t.ready = s.ready
        /\ t.tun = s.tun /\ t.recovery = s.recovery /\ t.scheduled = s.scheduled
        /\ t.attempt = s.attempt /\ t.logout = s.logout /\ t.want = s.want
        /\ t.was = s.was /\ t.pending = s.pending /\ t.room = s.room
        /\ t.asked \in {FALSE, s.asked}
    BY <1>1 DEF Clis
  <1> QED BY <1>2, <1>3, SameSound

\* handleReconnectRoomList keeps the invariant.
LEMMA RoomListSound ==
  ASSUME Sound(cli), OnRoomList
  PROVE  Sound(cli')
  BY DroppedSound, RequestSound DEF OnRoomList

\* ROOM_CREATED and JOIN_RESP keep the invariant, late or not.
LEMMA RoomResponseSound ==
  ASSUME Sound(cli), NEW joined \in BOOLEAN, OnRoomResponse(joined)
  PROVE  Sound(cli')
  <1>1. PICK s : s = [cli EXCEPT !.asked = FALSE]
    OBVIOUS
  <1>2. Sound(s) /\ s.link = "LoggedIn"
    BY <1>1, AnsweredSound DEF OnRoomResponse, Answered
  <1>3. s \in Clis /\ FlagsSound(s) /\ JobSound(s.job) /\ LentSound(s)
    BY <1>2 DEF Sound
  <1>0. /\ s.logout = cli.logout /\ s.recovery = cli.recovery /\ s.asked = FALSE
        /\ ~cli.logout
    BY <1>1 DEF Sound, Clis, OnRoomResponse, Answered
  <1>4. PICK w : w = (s.want /\ ~joined)
    OBVIOUS
  <1>5. w \in BOOLEAN
    BY <1>4
  <1>6. PICK t : t = [s EXCEPT !.phase = "Preparing", !.room = TRUE, !.want = w]
    OBVIOUS
  <1>7. t = [s EXCEPT !.phase = "Preparing", !.room = TRUE, !.want = @ /\ ~joined]
    BY <1>3, <1>4, <1>6 DEF Clis
  <1>8. t \in Clis
    BY <1>3, <1>5, <1>6, CliSet DEF Phases
  <1>9. /\ t.job = s.job /\ t.phase = "Preparing" /\ t.link = s.link
        /\ t.tun = s.tun /\ t.logout = s.logout
        /\ t.recovery = s.recovery /\ t.scheduled = s.scheduled
        /\ t.attempt = s.attempt /\ t.want = w /\ t.was = s.was
        /\ t.asked = s.asked /\ t.room = TRUE
    BY <1>3, <1>6 DEF Clis
  <1>10. JobSound(t.job) /\ LentSound(t) /\ FlagsSound(t)
    BY <1>2, <1>3, <1>4, <1>9 DEF LentSound, FlagsSound
  <1>12. CASE cli' = s
    BY <1>2, <1>12
  <1>13. CASE cli' = RecoverRoomOperation(s)
    BY <1>2, <1>13, RecoveringSound
  <1>14. ASSUME ~cli.recovery, NEW started \in BOOLEAN,
                cli' = BeginTunReadiness(t, started)
         PROVE  Sound(cli')
    <2>1. /\ t.link = "LoggedIn" /\ t.room /\ ~t.asked /\ ~t.recovery
          /\ ~t.logout
      BY <1>0, <1>2, <1>9, <1>14
    <2> QED BY <1>8, <1>9, <1>10, <1>14, <2>1, ReadinessSound
  <1>15. CASE ~cli.recovery /\ cli' = RecoverRoomOperation([t EXCEPT !.pending = TRUE])
    <2>1. PICK u : u = [t EXCEPT !.pending = TRUE]
      OBVIOUS
    <2>2. u \in Clis
      BY <1>8, <2>1, CliSet
    <2>3. /\ u.job = t.job /\ u.phase = t.phase /\ u.link = t.link
          /\ u.recovery = t.recovery
      BY <1>8, <2>1 DEF Clis
    <2>4. /\ JobSound(u.job) /\ u.link = "LoggedIn" /\ ~u.recovery
          /\ u.phase = "Preparing"
      BY <1>0, <1>2, <1>9, <1>10, <1>15, <2>3
    <2> QED BY <1>15, <2>1, <2>2, <2>4, RecoverSound
  <1> QED BY <1>1, <1>7, <1>12, <1>13, <1>14, <1>15 DEF OnRoomResponse

\* An ERROR for a room request keeps the invariant.
LEMMA RoomErrorSound ==
  ASSUME Sound(cli), OnRoomError \/ OnRoomPasswordError
  PROVE  Sound(cli')
  <1>0. PICK s : s = [cli EXCEPT !.asked = FALSE]
    OBVIOUS
  <1>1. Sound(s) /\ s.asked = FALSE
    BY <1>0, AnsweredSound DEF Sound, Clis
  <1>2. CASE OnRoomError
    BY <1>0, <1>1, <1>2, RecoveringSound DEF OnRoomError
  <1>3. CASE OnRoomPasswordError
    BY <1>0, <1>1, <1>3, BlockedSound DEF OnRoomPasswordError
  <1> QED BY <1>2, <1>3

\* LOGOUT_ACK, or its deadline, keeps the invariant.
LEMMA LogoutSound ==
  ASSUME Sound(cli), OnLogoutAck \/ LogoutDeadline
  PROVE  Sound(cli')
  <1>1. cli' = Disconnected(cli)
    BY DEF OnLogoutAck, LogoutDeadline
  <1>2. cli.recovery => Resting(cli)
    BY LogoutRests DEF Sound, FlagsSound
  <1> QED BY <1>1, <1>2, DisconnectedSound DEF Sound

\* The clock, the end of the loop and the failure of the adapter keep the
\* invariant.
LEMMA TimerSound ==
  ASSUME Sound(cli), DeadlinePasses \/ Stop \/ HandleTunRuntimeFailure
  PROVE  Sound(cli')
  <1>1. CASE DeadlinePasses
    BY <1>1, AnsweredSound DEF DeadlinePasses
  <1>2. CASE Stop
    BY <1>2, AnsweredSound DEF Stop
  <1>3. CASE HandleTunRuntimeFailure
    <2>1. ~cli.asked
      BY <1>3 DEF HandleTunRuntimeFailure, Sound, LentSound, Lent, AgreeSound, HasJob
    <2> QED BY <1>3, <2>1, LeaveSound DEF HandleTunRuntimeFailure
  <1> QED BY <1>1, <1>2, <1>3

\* The one login after a recovery keeps the invariant.
LEMMA RecoveryConnectSound ==
  ASSUME Sound(cli), RecoveryConnect
  PROVE  Sound(cli')
  <1>1. PICK s : s = [cli EXCEPT !.scheduled = FALSE, !.attempt = TRUE]
    OBVIOUS
  <1>2. cli \in Clis /\ FlagsSound(cli) /\ cli.scheduled /\ cli.link = "Off"
    BY DEF Sound, RecoveryConnect
  <1>3. s \in Clis
    BY <1>1, <1>2, CliSet
  <1>4. /\ s.job = cli.job /\ s.phase = cli.phase /\ s.link = cli.link
        /\ s.ready = cli.ready /\ s.tun = cli.tun /\ s.recovery = cli.recovery
        /\ s.scheduled = FALSE /\ s.attempt = TRUE
        /\ s.logout = cli.logout /\ s.want = cli.want /\ s.was = cli.was
        /\ s.asked = cli.asked /\ s.pending = cli.pending /\ s.room = cli.room
    BY <1>1, <1>2 DEF Clis
  <1>5. FlagsSound(s)
    BY <1>2, <1>4 DEF FlagsSound
  <1>6. Sound(s)
    BY <1>3, <1>4, <1>5, FlagStepSound
  <1> QED BY <1>1, <1>6, ConnectSound DEF RecoveryConnect

\* The automatic reconnect keeps the invariant and its bound on the attempts.
LEMMA AutoReconnectSound ==
  ASSUME Sound(cli), AutoReconnect
  PROVE  Sound(cli')
  <1>1. CASE cli' = [cli EXCEPT !.want = FALSE]
    BY <1>1, DroppedSound
  <1>2. ASSUME MayRetry(cli), NEW outcome \in Outcomes,
               cli' = DoConnect([cli EXCEPT !.attempts = @ + 1], outcome)
        PROVE  Sound(cli')
    <2>1. cli \in Clis
      BY DEF Sound
    <2>2. PICK a : a = cli.attempts + 1
      OBVIOUS
    <2>3. a \in 0 .. MaxAttempts
      <3>1. cli.attempts \in 0 .. MaxAttempts
        BY <2>1, CliFields
      <3> QED BY <1>2, <2>2, <3>1, MaxAttemptsAssumption DEF MayRetry
    <2>4. PICK s : s = [cli EXCEPT !.attempts = a]
      OBVIOUS
    <2>5. s = [cli EXCEPT !.attempts = @ + 1]
      BY <2>1, <2>2, <2>4 DEF Clis
    <2>6. s \in Clis
      BY <2>1, <2>3, <2>4, CliSet
    <2>7. /\ s.job = cli.job /\ s.phase = cli.phase /\ s.link = cli.link
          /\ s.ready = cli.ready /\ s.tun = cli.tun /\ s.recovery = cli.recovery
          /\ s.scheduled = cli.scheduled /\ s.attempt = cli.attempt
          /\ s.logout = cli.logout /\ s.want = cli.want /\ s.was = cli.was
          /\ s.asked = cli.asked /\ s.pending = cli.pending /\ s.room = cli.room
      BY <2>1, <2>4 DEF Clis
    <2>8. Sound(s)
      BY <2>6, <2>7, SameSound
    <2> QED BY <1>2, <2>5, <2>8, ConnectSound
  <1> QED BY <1>1, <1>2 DEF AutoReconnect

\* The command disconnect keeps the invariant.
LEMMA DisconnectSound ==
  ASSUME Sound(cli), DoDisconnect
  PROVE  Sound(cli')
  <1>1. PICK a : a = [cli EXCEPT !.recovery = FALSE]
    OBVIOUS
  <1>2. cli \in Clis /\ FlagsSound(cli)
    BY DEF Sound
  <1>3. a \in Clis
    BY <1>1, <1>2, CliSet
  <1>4. /\ a.job = cli.job /\ a.phase = cli.phase /\ a.link = cli.link
        /\ a.ready = cli.ready /\ a.tun = cli.tun /\ a.recovery = FALSE
        /\ a.logout = cli.logout /\ a.asked = cli.asked /\ a.pending = cli.pending
        /\ a.room = cli.room
    BY <1>1, <1>2 DEF Clis
  <1>5. PICK f : f = Forget(a)
    OBVIOUS
  <1>6. /\ f \in Clis /\ f.job = cli.job /\ f.phase = cli.phase /\ f.link = cli.link
        /\ f.ready = cli.ready /\ f.tun = cli.tun /\ f.recovery = FALSE
        /\ f.logout = cli.logout /\ f.attempt = FALSE /\ f.scheduled = FALSE
        /\ f.asked = cli.asked /\ f.pending = cli.pending /\ f.room = cli.room
    BY <1>3, <1>4, <1>5, ForgetFields
  <1>7. FlagsSound(f)
    BY <1>2, <1>6 DEF FlagsSound
  <1>8. Sound(f)
    BY <1>6, <1>7, FlagStepSound
  <1>9. ASSUME NEW s \in PasswordReplaced(f),
               cli' = IF s.link = "Off" THEN s ELSE BeginGracefulDisconnect(s, FALSE)
        PROVE  Sound(cli')
    <2>1. Sound(s)
      BY <1>8, ReplacedSound
    <2>2. s \in Clis /\ JobSound(s.job) /\ (s.logout => s.link = "LoggedIn")
      BY <2>1 DEF Sound, FlagsSound
    <2> QED BY <1>9, <2>1, <2>2, GracefulSound
  <1> QED BY <1>1, <1>5, <1>9 DEF DoDisconnect

\* The command server keeps the invariant.
LEMMA ServerCommandSound ==
  ASSUME Sound(cli), ServerCommand
  PROVE  Sound(cli')
  <1>1. PICK s : s = IF cli.link \in {"Connected", "LoggedIn"}
                     THEN BeginGracefulDisconnect(cli, FALSE) ELSE cli
    OBVIOUS
  <1>2. Sound(s) /\ (s.logout \/ s.link # "LoggedIn") /\ ~s.asked
    <2>1. cli \in Clis /\ JobSound(cli.job) /\ (cli.logout => cli.link = "LoggedIn")
      BY DEF Sound, FlagsSound
    <2>2. cli.link # "LoggedIn" => ~cli.asked
      BY DEF Sound, AgreeSound
    <2> QED BY <1>1, <2>1, <2>2, GracefulSound
  <1>3. s \in Clis /\ JobSound(s.job) /\ FlagsSound(s) /\ PhaseSound(s)
    BY <1>2 DEF Sound
  <1>4. PICK y : y = TeardownTun(s)
    OBVIOUS
  <1>5. TearsDown(s, y)
    BY <1>3, <1>4, TeardownFields
  <1>6. y \in Clis
    BY <1>5 DEF TearsDown
  <1>7. ASSUME NEW b \in BOOLEAN, NEW u,
               u = [y EXCEPT !.room = FALSE, !.scheduled = FALSE,
                             !.attempt = FALSE, !.blocked = b]
        PROVE  Sound(u)
    <2>1. u \in Clis
      BY <1>6, <1>7, CliSet
    <2>2. /\ u.job = y.job /\ u.phase = y.phase /\ u.link = y.link
          /\ u.ready = y.ready /\ u.tun = y.tun /\ u.recovery = y.recovery
          /\ u.scheduled = FALSE /\ u.attempt = FALSE /\ u.logout = y.logout
          /\ u.want = y.want /\ u.was = y.was /\ u.asked = y.asked
      BY <1>6, <1>7 DEF Clis
    <2>3. /\ JobSound(u.job) /\ u.tun = FALSE /\ u.link = s.link
          /\ u.recovery = s.recovery /\ u.logout = s.logout
          /\ u.want = s.want /\ u.was = s.was
          /\ u.job.pc = "none" <=> s.job.pc = "none"
          /\ u.job.pc = "none" => u.phase = "Idle"
      BY <1>5, <2>2 DEF TearsDown
    <2>4. LentSound(u) /\ FlagsSound(u)
      BY <1>3, <2>2, <2>3 DEF LentSound, FlagsSound
    <2>5. PhaseSound(u)
      BY <1>2, <1>3, <2>3 DEF PhaseSound, HasJob
    <2>6. Quiet(u)
      BY <1>2, <1>5, <2>2 DEF TearsDown, Quiet
    <2> QED BY <2>1, <2>3, <2>4, <2>5, <2>6, QuietAgrees DEF Sound
  <1>8. PICK password \in BOOLEAN :
          cli' = [TeardownTun(s) EXCEPT !.room = FALSE, !.scheduled = FALSE,
                                        !.attempt = FALSE, !.blocked = @ /\ ~password]
    BY <1>1 DEF ServerCommand
  <1>9. PICK b : b = (y.blocked /\ ~password)
    OBVIOUS
  <1>10. b \in BOOLEAN
    BY <1>9
  <1>11. cli' = [y EXCEPT !.room = FALSE, !.scheduled = FALSE,
                          !.attempt = FALSE, !.blocked = b]
    BY <1>4, <1>6, <1>8, <1>9 DEF Clis
  <1> QED BY <1>7, <1>10, <1>11

\* The other commands of the user keep the invariant.
LEMMA CommandSound ==
  ASSUME Sound(cli),
         ConnectCommand \/ ServerPasswordCommand \/ DoCreateOrJoinRoom
           \/ DoLeaveRoom \/ Quit
  PROVE  Sound(cli')
  <1>1. CASE ConnectCommand
    BY <1>1, DroppedSound, ConnectSound DEF ConnectCommand
  <1>2. CASE ServerPasswordCommand
    <2>1. PICK s : s = [cli EXCEPT !.blocked = FALSE]
      OBVIOUS
    <2>2. Sound(s) /\ cli' \in PasswordReplaced(s)
      BY <1>2, <2>1, AnsweredSound DEF ServerPasswordCommand
    <2> QED BY <2>2, ReplacedSound
  <1>3. CASE DoCreateOrJoinRoom
    BY <1>3, AnsweredSound, RequestSound DEF DoCreateOrJoinRoom
  <1>4. CASE DoLeaveRoom
    BY <1>4, RecoveringSound, LeaveSound DEF DoLeaveRoom
  <1>5. CASE Quit
    BY <1>5, GracefulSound DEF Quit, Sound, FlagsSound
  <1> QED BY <1>1, <1>2, <1>3, <1>4, <1>5

-----------------------------------------------------------------------------
(* The theorems *)

\* The client starts sound: it connects, has no job and no plan.
LEMMA InitSound == Init => CliInv
  <1>1. SUFFICES ASSUME Init PROVE Sound(cli)
    BY DEF CliInv
  <1>2. PICK j : j = NoJob
    OBVIOUS
  <1>3. j \in Jobs
    BY <1>2, NoJobSound
  <1>4. 0 \in 0 .. MaxAttempts
    BY MaxAttemptsAssumption
  <1>5. cli = [job |-> j, phase |-> "Idle", late |-> FALSE, polling |-> FALSE,
               link |-> "Connecting", asked |-> FALSE, pending |-> FALSE,
               room |-> FALSE, ready |-> FALSE, tun |-> FALSE, recovery |-> FALSE,
               scheduled |-> FALSE, attempt |-> FALSE, logout |-> FALSE,
               manual |-> FALSE, exit |-> FALSE, stop |-> FALSE, running |-> TRUE,
               want |-> FALSE, was |-> FALSE, blocked |-> FALSE, attempts |-> 0]
    BY <1>1, <1>2 DEF Init
  <1>6. cli \in Clis
    BY <1>3, <1>4, <1>5, Zenon DEF Clis
  <1>7. /\ cli.job = j /\ cli.phase = "Idle" /\ cli.tun = FALSE
        /\ cli.recovery = FALSE /\ cli.scheduled = FALSE /\ cli.attempt = FALSE
        /\ cli.logout = FALSE /\ cli.asked = FALSE
    BY <1>5
  <1>8. JobSound(cli.job) /\ LentSound(cli) /\ FlagsSound(cli)
    BY <1>2, <1>7, NoJobSound DEF LentSound, FlagsSound
  <1>9. PhaseSound(cli)
    BY <1>2, <1>7, NoJobSound DEF PhaseSound, HasJob
  <1>10. Quiet(cli)
    BY <1>2, <1>7, NoJobSound DEF Quiet
  <1> QED BY <1>6, <1>8, <1>9, <1>10, QuietAgrees DEF Sound

\* Every step of the client or of its worker keeps the invariant.
LEMMA StepSound == CliInv /\ [Next]_vars => CliInv'
  <1>1. SUFFICES ASSUME Sound(cli), [Next]_vars PROVE Sound(cli')
    BY DEF CliInv
  <1>2. CASE Next
    BY <1>1, <1>2, WorkerStageSound, WorkerWaitSound, WorkerCleanSound,
       ConnectionSound, LoginSound, RoomListSound, RoomResponseSound,
       RoomErrorSound, LogoutSound, TimerSound, PollEventsSound, PollDoneSound,
       RecoveryConnectSound, AutoReconnectSound, DisconnectSound,
       ServerCommandSound, CommandSound DEF Next, Ended
  <1>3. CASE UNCHANGED vars
    BY <1>1, <1>3 DEF vars
  <1> QED BY <1>1, <1>2, <1>3

\* In every reachable state, for every limit on the reconnects, CliApp's
\* members, its plans and the job of its worker agree as CliInv says.
THEOREM CliSafe == Spec => []CliInv
  BY InitSound, StepSound, PTL DEF Spec

\* The phase of CliApp's tracker is true of the request, the job and the room; a
\* client in the lobby with its adapter cleaned up is not left in CleaningUp; and
\* a recovery leaves no plan to reconnect or to rejoin.
THEOREM CliFlagsSafe == Spec => []FlagsAgree
  <1>1. CliInv => FlagsAgree
    BY DEF CliInv, Sound, FlagsAgree, TypeOK, PhaseAgrees, LobbyUsable, NoReplay,
           FlagsSound, PhaseSound, AgreeSound, LentSound, Lent, HasJob
  <1> QED BY <1>1, CliSafe, PTL

\* The adapter CliApp borrows from CliTunLifecycleJob is never one that the
\* worker has been told to free, or has freed.
THEOREM CliAdapterSafe == Spec => []AdapterBorrowed
  <1>1. CliInv => AdapterBorrowed
    BY DEF CliInv, Sound, AdapterBorrowed, LentSound, JobSound, Lent
  <1> QED BY <1>1, CliSafe, PTL

=============================================================================
