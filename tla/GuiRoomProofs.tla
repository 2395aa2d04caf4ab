--------------------------- MODULE GuiRoomProofs ---------------------------
(***************************************************************************)
(* GuiInv is an inductive invariant of GuiRoom, for every MaxAttempts.     *)
(* FlagsAgree, AdapterBorrowed and the action property NoReplay follow     *)
(* from it.                                                                *)
(*                                                                         *)
(* None of them is inductive alone. The adapter that RoomManager borrows   *)
(* is safe because a task that is ready and not cancelled is at a label    *)
(* where its worker only lends (JobSound), and because a borrowed adapter  *)
(* belongs to a room that is ready (RoomSound). That a client in the lobby *)
(* is not left cleaning up needs what a cleanup still waits for, a task or *)
(* a logout (PhaseSound, LogoutSound). That a connection which is being    *)
(* made meets no live task, and a retry timer no connection (LinkSound,    *)
(* RetrySound), decides which branch onSignalDisconnected and              *)
(* handleConnectionAttemptExhausted may take. A resolve that is under way  *)
(* while the socket is still connecting belongs to the login after a       *)
(* recovery or to a client that wants nothing (ResolveSound). Once the     *)
(* program quits nothing is begun any more (QuitSound).                    *)
(*                                                                         *)
(* Base, Firm and Sound are the invariant in three strengths: handlers     *)
(* call each other in states that are not sound yet, and a lemma asks only *)
(* for the strength it needs. RoomFrame, LinkFrame and PlanFrame name the  *)
(* members a step leaves alone.                                            *)
(***************************************************************************)
EXTENDS GuiRoom, TLAPS

\* The labels at which the worker lends its adapter.
Lent == {"lent", "thrown", "tested", "asleep"}

\* A connection that is being made.
Linking == {"Resolving", "Connecting"}

\* The phases of a room operation that needs its session.
InRoomPhases == {"WaitingServer", "Preparing", "InRoom"}

\* The sets of the record type: the phases of the tracker,
Phases == {"Idle", "WaitingServer", "Preparing", "InRoom", "CleaningUp"}

\* the states of the socket and its session,
SockStates == {"Off", "Connecting"} \cup Up

\* the states of RoomManager's connection attempt,
ConnStates == {"Idle", "Resolving", "Connecting", "Connected"}

\* whose logout is pending,
LogoutStates == {"No", "Manual", "Recovery"}

\* and whether the program quits.
QuitStates == {"No", "Asked", "Done"}

\* What a task promises by itself: no task holds nothing; a worker that lends
\* has its adapter and has published Ready; a Ready that is not cancelled is
\* never withdrawn; a task that is done has freed its adapter.
JobSound(j) ==
  /\ j.pc = "none" => j = NoJob
  /\ j.pc \in Lent \cup {"publish"} => j.adapter
  /\ j.pc \in Lent => j.ready
  /\ j.ready /\ ~j.cancel => j.pc \in Lent
  /\ j.pc = "done" => ~j.adapter

\* A task whose worker has not ended.
Live(s) == HasTask(s) /\ ~Done(s)

\* The members of a room agree: a setup is pending in Preparing only, with a
\* task that was not cancelled; a ready room is the phase InRoom, with its
\* adapter; the adapter is borrowed from a worker that lends it; a live task
\* and a deadline have a phase.
RoomSound(s) ==
  /\ s.readiness => /\ s.phase = "Preparing" /\ s.op /\ s.room
                    /\ HasTask(s) /\ ~s.job.cancel
  /\ s.ready <=> s.phase = "InRoom"
  /\ s.ready => s.tun /\ s.room
  /\ s.tun => s.ready /\ s.job.pc \in Lent /\ ~s.job.cancel
  /\ Live(s) => s.phase \in {"Preparing", "InRoom", "CleaningUp"}
  /\ s.late => s.phase \in {"WaitingServer", "Preparing"}

\* A room operation has its session; a cleanup is in the session that it logs
\* out of, or waits for its task.
PhaseSound(s) ==
  /\ s.phase \in InRoomPhases => s.sock = "LoggedIn"
  /\ s.phase = "CleaningUp" /\ s.logout # "No" => s.sock = "LoggedIn"
  /\ s.phase = "CleaningUp" /\ ~HasTask(s) => s.logout # "No" \/ s.sock = "LoggedIn"

\* A handshake that has succeeded is no attempt any more; the attempt of a
\* recovery ends with the login; only a session has a request pending; and a
\* connection is made only while no task lives.
LinkSound(s) ==
  /\ s.sock \in {"Secure", "LoggedIn"} => s.conn \notin Linking
  /\ s.sock = "LoggedIn" => ~s.attempt
  /\ s.sock # "LoggedIn" => ~s.asked
  /\ s.sock \in {"Connecting", "Connected", "Secure"} \/ s.conn \in Linking
       => ~Live(s)

\* The timers of scheduleReconnectAttempt run without a connection; the one
\* that leads to an attempt is under the limit, after the cleanup.
RetrySound(s) ==
  /\ s.timers # {} => s.sock = "Off" /\ s.conn = "Idle"
  /\ "Delay" \in s.timers => s.attempts < MaxAttempts /\ ~Live(s)

\* A name is resolved beside a socket that is connecting only for the login
\* after a recovery, or for a client without plans.
ResolveSound(s) ==
  s.conn = "Resolving" /\ s.sock # "Off" => s.attempt \/ (~s.want /\ ~s.resume)

\* A recovery has given up its room and every plan to reconnect or to rejoin.
RecoverySound(s) ==
  s.recovery => ~s.ready /\ ~s.readiness /\ ~s.want /\ ~s.was /\ ~s.resume

\* Nothing is under way or planned but a cleanup and a logout.
Quiet(s) ==
  /\ ~s.ready /\ ~s.readiness /\ s.conn \notin Linking /\ s.timers = {}
  /\ ~s.loginTimer /\ ~s.want /\ ~s.named

\* A program that quits is quiet, and one that has quit has freed its adapter.
QuitSound(s) ==
  /\ s.quit # "No" => Quiet(s) /\ s.sock \in {"Off", "LoggedIn"}
  /\ s.quit = "Done" => ~s.job.adapter

\* A cleanup without a task waits for a logout, and so does the end of a
\* program that is logged in.
LogoutSound(s) ==
  /\ s.phase = "CleaningUp" /\ ~HasTask(s) => s.logout # "No"
  /\ s.quit # "No" /\ s.sock = "LoggedIn" => s.logout # "No"

\* The part of the invariant that every handler may rely on,
Base(s) ==
  s \in Guis /\ JobSound(s.job) /\ LinkSound(s) /\ RetrySound(s) /\ QuitSound(s)

\* the part that SignalClient's signals may rely on,
Firm(s) == Base(s) /\ RoomSound(s) /\ PhaseSound(s) /\ RecoverySound(s)

\* and the inductive invariant, of a state s of the client.
Sound(s) == Firm(s) /\ ResolveSound(s) /\ LogoutSound(s)

\* The inductive invariant of the specification.
GuiInv == Sound(gui)

\* The step from s to t leaves alone the members of the room,
RoomFrame(s, t) ==
  /\ t.job = s.job /\ t.phase = s.phase /\ t.late = s.late /\ t.op = s.op
  /\ t.readiness = s.readiness /\ t.ready = s.ready /\ t.tun = s.tun /\ t.room = s.room

\* those of the connection,
LinkFrame(s, t) ==
  /\ t.sock = s.sock /\ t.asked = s.asked /\ t.conn = s.conn /\ t.attempt = s.attempt
  /\ t.logout = s.logout /\ t.timers = s.timers /\ t.attempts = s.attempts

\* and those of what the client plans.
PlanFrame(s, t) ==
  /\ t.recovery = s.recovery /\ t.want = s.want /\ t.was = s.was /\ t.resume = s.resume
  /\ t.loginTimer = s.loginTimer /\ t.named = s.named /\ t.quit = s.quit

\* The adapter is given back: the task is being cleaned up, or there is none.
Torn(t) ==
  /\ JobSound(t.job)
  /\ t.ready = FALSE /\ t.readiness = FALSE /\ t.tun = FALSE /\ t.late = FALSE
  /\ \/ Live(t) /\ t.phase = "CleaningUp"
     \/ t.job = NoJob /\ t.phase = "Idle"

\* What teardownTun makes of s.
TearsDown(s, t) ==
  /\ t \in Guis /\ LinkFrame(s, t) /\ PlanFrame(s, t) /\ t.room = s.room /\ Torn(t)
  /\ Live(t) => Live(s)
  /\ t.job.adapter => s.job.adapter

\* The types of the members of RoomManager and of SignalClient.
LEMMA GuiFields ==
  ASSUME NEW s \in Guis
  PROVE
    /\ s.job \in Jobs /\ s.phase \in Phases
    /\ s.sock \in SockStates /\ s.conn \in ConnStates
    /\ s.logout \in LogoutStates /\ s.timers \in SUBSET {"Poll", "Delay"}
    /\ s.attempts \in 0 .. MaxAttempts /\ s.quit \in QuitStates
    /\ s.late \in BOOLEAN /\ s.asked \in BOOLEAN /\ s.block \in BOOLEAN
    /\ s.more \in BOOLEAN /\ s.op \in BOOLEAN /\ s.readiness \in BOOLEAN
    /\ s.poll \in BOOLEAN /\ s.ready \in BOOLEAN /\ s.room \in BOOLEAN
    /\ s.tun \in BOOLEAN /\ s.recovery \in BOOLEAN /\ s.login \in BOOLEAN
    /\ s.loginTimer \in BOOLEAN /\ s.attempt \in BOOLEAN /\ s.manual \in BOOLEAN
    /\ s.want \in BOOLEAN /\ s.scheduled \in BOOLEAN /\ s.was \in BOOLEAN
    /\ s.resume \in BOOLEAN /\ s.blocked \in BOOLEAN /\ s.named \in BOOLEAN
    /\ s.pass \in BOOLEAN /\ s.deferred \in BOOLEAN
  BY DEF Guis, Phases, SockStates, ConnStates, LogoutStates, QuitStates

\* An assignment of a value of its type to one member keeps the type of the
\* record.
LEMMA GuiSet ==
  ASSUME NEW s \in Guis
  PROVE
    /\ \A v \in Jobs : [s EXCEPT !.job = v] \in Guis
    /\ \A v \in Phases : [s EXCEPT !.phase = v] \in Guis
    /\ \A v \in SockStates : [s EXCEPT !.sock = v] \in Guis
    /\ \A v \in ConnStates : [s EXCEPT !.conn = v] \in Guis
    /\ \A v \in LogoutStates : [s EXCEPT !.logout = v] \in Guis
    /\ \A v \in SUBSET {"Poll", "Delay"} : [s EXCEPT !.timers = v] \in Guis
    /\ \A v \in 0 .. MaxAttempts : [s EXCEPT !.attempts = v] \in Guis
    /\ \A v \in QuitStates : [s EXCEPT !.quit = v] \in Guis
    /\ \A v \in BOOLEAN :
         /\ [s EXCEPT !.late = v] \in Guis
         /\ [s EXCEPT !.asked = v] \in Guis
         /\ [s EXCEPT !.block = v] \in Guis
         /\ [s EXCEPT !.more = v] \in Guis
         /\ [s EXCEPT !.op = v] \in Guis
         /\ [s EXCEPT !.readiness = v] \in Guis
         /\ [s EXCEPT !.poll = v] \in Guis
         /\ [s EXCEPT !.ready = v] \in Guis
         /\ [s EXCEPT !.room = v] \in Guis
         /\ [s EXCEPT !.tun = v] \in Guis
         /\ [s EXCEPT !.recovery = v] \in Guis
         /\ [s EXCEPT !.login = v] \in Guis
         /\ [s EXCEPT !.loginTimer = v] \in Guis
         /\ [s EXCEPT !.attempt = v] \in Guis
         /\ [s EXCEPT !.manual = v] \in Guis
         /\ [s EXCEPT !.want = v] \in Guis
         /\ [s EXCEPT !.scheduled = v] \in Guis
         /\ [s EXCEPT !.was = v] \in Guis
         /\ [s EXCEPT !.resume = v] \in Guis
         /\ [s EXCEPT !.blocked = v] \in Guis
         /\ [s EXCEPT !.named = v] \in Guis
         /\ [s EXCEPT !.pass = v] \in Guis
         /\ [s EXCEPT !.deferred = v] \in Guis
  <1>1. /\ \A v \in Jobs : [s EXCEPT !.job = v] \in Guis
        /\ \A v \in Phases : [s EXCEPT !.phase = v] \in Guis
    BY DEF Guis, Phases, SockStates, ConnStates, LogoutStates, QuitStates
  <1>2. /\ \A v \in SockStates : [s EXCEPT !.sock = v] \in Guis
        /\ \A v \in ConnStates : [s EXCEPT !.conn = v] \in Guis
    BY DEF Guis, Phases, SockStates, ConnStates, LogoutStates, QuitStates
  <1>3. /\ \A v \in LogoutStates : [s EXCEPT !.logout = v] \in Guis
        /\ \A v \in SUBSET {"Poll", "Delay"} : [s EXCEPT !.timers = v] \in Guis
    BY DEF Guis, Phases, SockStates, ConnStates, LogoutStates, QuitStates
  <1>4. /\ \A v \in 0 .. MaxAttempts : [s EXCEPT !.attempts = v] \in Guis
        /\ \A v \in QuitStates : [s EXCEPT !.quit = v] \in Guis
    BY DEF Guis, Phases, SockStates, ConnStates, LogoutStates, QuitStates
  <1>5. ASSUME NEW v \in BOOLEAN
        PROVE  /\ [s EXCEPT !.late = v] \in Guis
               /\ [s EXCEPT !.asked = v] \in Guis
               /\ [s EXCEPT !.block = v] \in Guis
               /\ [s EXCEPT !.more = v] \in Guis
               /\ [s EXCEPT !.op = v] \in Guis
               /\ [s EXCEPT !.readiness = v] \in Guis
               /\ [s EXCEPT !.poll = v] \in Guis
               /\ [s EXCEPT !.ready = v] \in Guis
               /\ [s EXCEPT !.room = v] \in Guis
               /\ [s EXCEPT !.tun = v] \in Guis
               /\ [s EXCEPT !.recovery = v] \in Guis
               /\ [s EXCEPT !.login = v] \in Guis
               /\ [s EXCEPT !.loginTimer = v] \in Guis
               /\ [s EXCEPT !.attempt = v] \in Guis
               /\ [s EXCEPT !.manual = v] \in Guis
               /\ [s EXCEPT !.want = v] \in Guis
               /\ [s EXCEPT !.scheduled = v] \in Guis
               /\ [s EXCEPT !.was = v] \in Guis
               /\ [s EXCEPT !.resume = v] \in Guis
               /\ [s EXCEPT !.blocked = v] \in Guis
               /\ [s EXCEPT !.named = v] \in Guis
               /\ [s EXCEPT !.pass = v] \in Guis
               /\ [s EXCEPT !.deferred = v] \in Guis
    <2>1. /\ [s EXCEPT !.late = v] \in Guis
          /\ [s EXCEPT !.asked = v] \in Guis
          /\ [s EXCEPT !.block = v] \in Guis
      BY DEF Guis
    <2>2. /\ [s EXCEPT !.more = v] \in Guis
          /\ [s EXCEPT !.op = v] \in Guis
          /\ [s EXCEPT !.readiness = v] \in Guis
      BY DEF Guis
    <2>3. /\ [s EXCEPT !.poll = v] \in Guis
          /\ [s EXCEPT !.ready = v] \in Guis
          /\ [s EXCEPT !.room = v] \in Guis
      BY DEF Guis
    <2>4. /\ [s EXCEPT !.tun = v] \in Guis
          /\ [s EXCEPT !.recovery = v] \in Guis
          /\ [s EXCEPT !.login = v] \in Guis
      BY DEF Guis
    <2>5. /\ [s EXCEPT !.loginTimer = v] \in Guis
          /\ [s EXCEPT !.attempt = v] \in Guis
          /\ [s EXCEPT !.manual = v] \in Guis
      BY DEF Guis
    <2>6. /\ [s EXCEPT !.want = v] \in Guis
          /\ [s EXCEPT !.scheduled = v] \in Guis
          /\ [s EXCEPT !.was = v] \in Guis
      BY DEF Guis
    <2>7. /\ [s EXCEPT !.resume = v] \in Guis
          /\ [s EXCEPT !.blocked = v] \in Guis
          /\ [s EXCEPT !.named = v] \in Guis
      BY DEF Guis
    <2>8. /\ [s EXCEPT !.pass = v] \in Guis
          /\ [s EXCEPT !.deferred = v] \in Guis
      BY DEF Guis
    <2> QED BY <2>1, <2>2, <2>3, <2>4, <2>5, <2>6, <2>7, <2>8
  <1> QED BY <1>1, <1>2, <1>3, <1>4, <1>5
-----------------------------------------------------------------------------
(* The task *)

\* Without a task there is nothing to promise.
LEMMA NoJobSound ==
  NoJob \in Jobs /\ JobSound(NoJob) /\ NoJob.pc = "none" /\ ~NoJob.adapter
  BY DEF NoJob, Jobs, Workers, JobSound, Lent

\* cancel keeps what a task promises, and whether it is done.
LEMMA CancelSound ==
  ASSUME NEW j \in Jobs, JobSound(j)
  PROVE  /\ CancelJob(j) \in Jobs /\ JobSound(CancelJob(j))
         /\ CancelJob(j).pc = "none" <=> j.pc = "none"
         /\ CancelJob(j).pc = "done" <=> j.pc = "done"
         /\ CancelJob(j).adapter = j.adapter
  <1>1. CASE j.pc = "none"
    BY <1>1 DEF CancelJob
  <1>2. CASE j.pc # "none"
    <2>1. PICK p : p = IF j.pc = "asleep" THEN "thrown" ELSE j.pc
      OBVIOUS
    <2>2. PICK k : k = [j EXCEPT !.cancel = TRUE, !.pc = p]
      OBVIOUS
    <2>3. CancelJob(j) = k
      BY <1>2, <2>1, <2>2 DEF CancelJob, Jobs
    <2>4. /\ k \in Jobs /\ k.cancel /\ k.pc = p /\ k.ready = j.ready
          /\ k.adapter = j.adapter
      BY <2>1, <2>2 DEF Jobs, Workers
    <2>5. JobSound(k) /\ k.pc # "none" /\ (k.pc = "done" <=> j.pc = "done")
      BY <1>2, <2>1, <2>4 DEF JobSound, Lent
    <2> QED BY <1>2, <2>3, <2>4, <2>5
  <1> QED BY <1>1, <1>2

\* A task that begins promises what a task must.
LEMMA NewJobSound ==
  NewJob \in Jobs /\ JobSound(NewJob) /\ NewJob.pc = "adapter-create" /\ ~NewJob.cancel
  BY DEF NewJob, NoJob, Jobs, Workers, Stages, JobSound, Lent

-----------------------------------------------------------------------------
(* The parts of the invariant, and steps that keep them *)

\* The parts of the invariant.
LEMMA SoundFields ==
  ASSUME NEW s, Sound(s)
  PROVE  /\ s \in Guis /\ JobSound(s.job) /\ LinkSound(s) /\ RetrySound(s)
         /\ QuitSound(s) /\ RoomSound(s) /\ PhaseSound(s) /\ RecoverySound(s)
         /\ ResolveSound(s) /\ LogoutSound(s) /\ Base(s) /\ Firm(s)
  BY DEF Sound, Firm, Base

\* Whether there is a task, and whether it lives, depends on the task only.
LEMMA LiveJob ==
  ASSUME NEW s, NEW t, t.job = s.job
  PROVE  /\ Live(t) <=> Live(s)
         /\ HasTask(t) <=> HasTask(s)
         /\ Done(t) <=> Done(s)
  BY DEF Live, HasTask, Done

\* A step that leaves alone what the invariant is about.
LEMMA SameSound ==
  ASSUME NEW s, Sound(s), NEW t \in Guis,
         RoomFrame(s, t), LinkFrame(s, t), PlanFrame(s, t)
  PROVE  Sound(t)
  <1>1. JobSound(t.job) /\ RoomSound(t)
    BY SoundFields, LiveJob DEF RoomFrame, RoomSound
  <1>2. LinkSound(t) /\ RetrySound(t) /\ ResolveSound(t)
    BY SoundFields, LiveJob
       DEF RoomFrame, LinkFrame, PlanFrame, LinkSound, RetrySound, ResolveSound
  <1>3. PhaseSound(t) /\ RecoverySound(t)
    BY SoundFields, LiveJob
       DEF RoomFrame, LinkFrame, PlanFrame, PhaseSound, RecoverySound
  <1>4. QuitSound(t) /\ LogoutSound(t)
    BY SoundFields, LiveJob
       DEF RoomFrame, LinkFrame, PlanFrame, QuitSound, Quiet, LogoutSound
  <1> QED BY <1>1, <1>2, <1>3, <1>4 DEF Sound, Firm, Base

\* A state that is torn down is sound when its connection, its plans and its
\* logout are.
LEMMA TornSound ==
  ASSUME NEW t \in Guis, Torn(t), LinkSound(t), RetrySound(t), ResolveSound(t),
         RecoverySound(t), QuitSound(t),
         t.phase = "CleaningUp" /\ t.logout # "No" => t.sock = "LoggedIn",
         t.quit # "No" /\ t.sock = "LoggedIn" => t.logout # "No"
  PROVE  Sound(t)
  <1>1. t.job = NoJob => ~HasTask(t) /\ ~Live(t)
    BY NoJobSound DEF HasTask, Live
  <1>2. RoomSound(t)
    BY <1>1 DEF Torn, RoomSound
  <1>3. PhaseSound(t) /\ LogoutSound(t)
    BY <1>1 DEF Torn, PhaseSound, LogoutSound, InRoomPhases, Live
  <1> QED BY <1>2, <1>3 DEF Torn, Sound, Firm, Base

-----------------------------------------------------------------------------
(* setRoomOperationPending and teardownTun *)

\* A step that changes at most m_roomOperationPending.
OpOnly(s, t) ==
  /\ t \in Guis /\ LinkFrame(s, t) /\ PlanFrame(s, t)
  /\ t.job = s.job /\ t.phase = s.phase /\ t.late = s.late
  /\ t.readiness = s.readiness /\ t.ready = s.ready /\ t.tun = s.tun /\ t.room = s.room

\* An assignment to m_roomOperationPending does so,
LEMMA SetOp ==
  ASSUME NEW s \in Guis, NEW b \in BOOLEAN, NEW t, t = [s EXCEPT !.op = b]
  PROVE  OpOnly(s, t) /\ t.op = b
  <1>1. t \in Guis
    BY GuiSet
  <1>2. LinkFrame(s, t) /\ PlanFrame(s, t)
    BY DEF Guis, LinkFrame, PlanFrame
  <1>3. /\ t.job = s.job /\ t.phase = s.phase /\ t.late = s.late
        /\ t.readiness = s.readiness /\ t.ready = s.ready /\ t.tun = s.tun
        /\ t.room = s.room /\ t.op = b
    BY DEF Guis
  <1> QED BY <1>1, <1>2, <1>3 DEF OpOnly

\* and so does setRoomOperationPending(false).
LEMMA PendingOff ==
  ASSUME NEW s \in Guis
  PROVE  OpOnly(s, SetPending(s, FALSE))
  <1>1. PICK b : b = (CleanupPending(s) \/ s.recovery)
    OBVIOUS
  <1>2. b \in BOOLEAN
    BY <1>1
  <1>3. SetPending(s, FALSE) = [s EXCEPT !.op = b]
    BY <1>1 DEF SetPending
  <1> QED BY <1>2, <1>3, SetOp

\* teardownTun does what TearsDown says.
LEMMA TeardownShape ==
  ASSUME NEW s \in Guis, JobSound(s.job)
  PROVE  TearsDown(s, TeardownTun(s))
  <1>1. PICK j : j = IF Live(s) THEN CancelJob(s.job) ELSE NoJob
    OBVIOUS
  <1>2. PICK p : p = IF Live(s) THEN "CleaningUp" ELSE "Idle"
    OBVIOUS
  <1>3. j \in Jobs /\ p \in Phases /\ s.job \in Jobs
    BY <1>1, <1>2, CancelSound, NoJobSound, GuiFields DEF Phases
  <1>4. PICK x : x = [s EXCEPT !.ready = FALSE, !.readiness = FALSE, !.poll = FALSE,
                               !.tun = FALSE, !.late = FALSE, !.phase = p, !.job = j]
    OBVIOUS
  <1>5. TeardownTun(s) = SetPending(x, FALSE)
    <2>1. PICK k : k = CancelJob(s.job)
      OBVIOUS
    <2>2. PICK y : y = [s EXCEPT !.ready = FALSE, !.readiness = FALSE, !.poll = FALSE,
                                 !.tun = FALSE, !.late = FALSE,
                                 !.phase = "CleaningUp", !.job = k]
      OBVIOUS
    <2>3. x = IF Live(s) THEN y ELSE [y EXCEPT !.job = NoJob, !.phase = "Idle"]
      BY <1>1, <1>2, <1>4, <2>1, <2>2 DEF Guis
    <2>4. y = [s EXCEPT !.ready = FALSE, !.readiness = FALSE, !.poll = FALSE,
                        !.tun = FALSE, !.late = FALSE, !.phase = "CleaningUp",
                        !.job = CancelJob(@)]
      BY <2>1, <2>2
    <2> QED BY <2>3, <2>4 DEF TeardownTun, Live
  <1>6. x \in Guis
    BY <1>3, <1>4, GuiSet
  <1>7. LinkFrame(s, x) /\ PlanFrame(s, x)
    BY <1>4 DEF Guis, LinkFrame, PlanFrame
  <1>8. /\ x.job = j /\ x.phase = p /\ x.room = s.room /\ x.ready = FALSE
        /\ x.readiness = FALSE /\ x.tun = FALSE /\ x.late = FALSE
    BY <1>4 DEF Guis
  <1>9. PICK t : t = SetPending(x, FALSE)
    OBVIOUS
  <1>10. OpOnly(x, t)
    BY <1>6, <1>9, PendingOff
  <1>11. /\ t \in Guis /\ t.job = j /\ t.phase = p /\ t.room = s.room
         /\ t.ready = FALSE /\ t.readiness = FALSE /\ t.tun = FALSE /\ t.late = FALSE
    BY <1>8, <1>10 DEF OpOnly
  <1>12. LinkFrame(s, t) /\ PlanFrame(s, t)
    BY <1>7, <1>10 DEF OpOnly, LinkFrame, PlanFrame
  <1>13. /\ JobSound(j) /\ (j.adapter => s.job.adapter)
         /\ Live(t) <=> Live(s)
         /\ ~Live(s) => j = NoJob
    BY <1>1, <1>3, <1>11, CancelSound, NoJobSound DEF Live, HasTask, Done
  <1>14. Torn(t)
    BY <1>2, <1>11, <1>13 DEF Torn
  <1> QED BY <1>5, <1>9, <1>11, <1>12, <1>13, <1>14 DEF TearsDown

\* teardownTun keeps what every handler may rely on.
LEMMA TornBase ==
  ASSUME NEW s, Base(s), NEW t, TearsDown(s, t)
  PROVE  /\ Base(t) /\ (Quiet(s) => Quiet(t))
         /\ ResolveSound(s) => ResolveSound(t)
  <1>1. LinkFrame(s, t) /\ PlanFrame(s, t) /\ (Live(t) => Live(s)) /\ Torn(t)
    BY DEF TearsDown
  <1>2. LinkSound(t) /\ RetrySound(t) /\ (ResolveSound(s) => ResolveSound(t))
    BY <1>1 DEF Base, LinkFrame, PlanFrame, LinkSound, RetrySound, ResolveSound
  <1>3. QuitSound(t) /\ (Quiet(s) => Quiet(t))
    BY <1>1 DEF Base, TearsDown, Torn, LinkFrame, PlanFrame, QuitSound, Quiet
  <1> QED BY <1>1, <1>2, <1>3 DEF Base, TearsDown, Torn

\* teardownTun keeps the invariant.
LEMMA TearSound ==
  ASSUME NEW s, Sound(s), NEW t, t = TeardownTun(s)
  PROVE  Sound(t) /\ TearsDown(s, t) /\ (Quiet(s) => Quiet(t))
  <1>1. TearsDown(s, t)
    BY SoundFields, TeardownShape
  <1>2. /\ Base(t) /\ ResolveSound(t) /\ (Quiet(s) => Quiet(t))
        /\ t \in Guis /\ Torn(t) /\ LinkSound(t) /\ RetrySound(t) /\ QuitSound(t)
    BY <1>1, SoundFields, TornBase DEF Base, TearsDown
  <1>3. RecoverySound(t)
    BY <1>1, SoundFields DEF TearsDown, PlanFrame, Torn, RecoverySound
  <1>4. t.quit # "No" /\ t.sock = "LoggedIn" => t.logout # "No"
    <2>1. LogoutSound(s)
      BY SoundFields
    <2>2. t.quit = s.quit /\ t.sock = s.sock /\ t.logout = s.logout
      BY <1>1 DEF TearsDown, LinkFrame, PlanFrame
    <2> QED BY <2>1, <2>2 DEF LogoutSound
  <1>5. t.phase = "CleaningUp" /\ t.logout # "No" => t.sock = "LoggedIn"
    <2>1. ASSUME t.phase = "CleaningUp", t.logout # "No" PROVE s.sock = "LoggedIn"
      <3>1. Live(s)
        BY <1>1, <2>1 DEF TearsDown, Torn
      <3>2. s.logout # "No"
        BY <1>1, <2>1 DEF TearsDown, LinkFrame
      <3> QED BY <3>1, <3>2, SoundFields DEF RoomSound, PhaseSound, InRoomPhases
    <2> QED BY <1>1, <2>1 DEF TearsDown, LinkFrame
  <1> QED BY <1>1, <1>2, <1>3, <1>4, <1>5, TornSound

\* resetRoomRuntimeState forgets the room and nothing else.
LEMMA ResetShape ==
  ASSUME NEW s \in Guis, s.ready = FALSE, NEW t, t = ResetRoomRuntimeState(s)
  PROVE  /\ t \in Guis /\ LinkFrame(s, t)
         /\ t.job = s.job /\ t.phase = s.phase /\ t.late = s.late /\ t.op = s.op
         /\ t.readiness = s.readiness /\ t.ready = FALSE /\ t.tun = s.tun
         /\ t.room = FALSE /\ t.was = FALSE
         /\ t.recovery = s.recovery /\ t.want = s.want /\ t.resume = s.resume
         /\ t.loginTimer = s.loginTimer /\ t.named = s.named /\ t.quit = s.quit
         /\ Torn(s) => Torn(t)
  <1>1. t = [s EXCEPT !.room = FALSE, !.ready = FALSE, !.was = FALSE]
    BY DEF ResetRoomRuntimeState
  <1>2. t \in Guis
    BY <1>1, GuiSet
  <1>3. LinkFrame(s, t)
    BY <1>1 DEF Guis, LinkFrame
  <1>4. /\ t.job = s.job /\ t.phase = s.phase /\ t.late = s.late /\ t.op = s.op
        /\ t.readiness = s.readiness /\ t.ready = FALSE /\ t.tun = s.tun
        /\ t.room = FALSE /\ t.was = FALSE
    BY <1>1 DEF Guis
  <1>5. /\ t.recovery = s.recovery /\ t.want = s.want /\ t.resume = s.resume
        /\ t.loginTimer = s.loginTimer /\ t.named = s.named /\ t.quit = s.quit
    BY <1>1 DEF Guis
  <1>6. Torn(s) => Torn(t)
    BY <1>4, LiveJob DEF Torn
  <1> QED BY <1>2, <1>3, <1>4, <1>5, <1>6

\* resetRoomRuntimeState, after teardownTun, keeps the invariant.
LEMMA ResetSound ==
  ASSUME NEW s, Sound(s), Torn(s), NEW t, t = ResetRoomRuntimeState(s)
  PROVE  Sound(t) /\ Torn(t) /\ LinkFrame(s, t) /\ (Quiet(s) => Quiet(t))
         /\ t.quit = s.quit /\ t.named = s.named /\ t.want = s.want
  <1>1. s \in Guis /\ s.ready = FALSE
    BY SoundFields DEF Torn
  <1>2. /\ t \in Guis /\ LinkFrame(s, t) /\ Torn(t)
        /\ t.job = s.job /\ t.phase = s.phase
        /\ t.readiness = s.readiness /\ t.ready = FALSE /\ t.was = FALSE
        /\ t.recovery = s.recovery /\ t.want = s.want /\ t.resume = s.resume
        /\ t.loginTimer = s.loginTimer /\ t.named = s.named /\ t.quit = s.quit
    BY <1>1, ResetShape
  <1>3. LinkSound(t) /\ RetrySound(t) /\ ResolveSound(t)
    BY <1>2, SoundFields, LiveJob DEF LinkFrame, LinkSound, RetrySound, ResolveSound
  <1>4. RecoverySound(t) /\ QuitSound(t) /\ (Quiet(s) => Quiet(t))
    BY <1>1, <1>2, SoundFields DEF LinkFrame, RecoverySound, QuitSound, Quiet
  <1>5. /\ t.phase = "CleaningUp" /\ t.logout # "No" => t.sock = "LoggedIn"
        /\ t.quit # "No" /\ t.sock = "LoggedIn" => t.logout # "No"
    BY <1>2, SoundFields DEF LinkFrame, PhaseSound, LogoutSound
  <1> QED BY <1>2, <1>3, <1>4, <1>5, TornSound

-----------------------------------------------------------------------------
(* maybeFinishRoomRecovery and scheduleReconnectAttempt *)

\* maybeFinishRoomRecovery keeps the invariant: it waits for the logout, for
\* the socket and for the task, and then schedules one login at most.
LEMMA MaybeFinishSound ==
  ASSUME NEW s, Sound(s), NEW t, t = MaybeFinishRoomRecovery(s)
  PROVE  /\ Sound(t) /\ (Quiet(s) => Quiet(t))
         /\ t.sock = s.sock /\ t.conn = s.conn /\ t.logout = s.logout
  <1>0. s \in Guis
    BY SoundFields
  <1>1. PICK x : x = [s EXCEPT !.job = NoJob, !.phase = "Idle", !.late = FALSE,
                               !.recovery = FALSE, !.manual = FALSE]
    OBVIOUS
  <1>2. x \in Guis
    BY <1>0, <1>1, GuiSet, NoJobSound DEF Phases
  <1>3. LinkFrame(s, x)
    BY <1>0, <1>1 DEF Guis, LinkFrame
  <1>4. /\ x.job = NoJob /\ x.phase = "Idle" /\ x.late = FALSE
        /\ x.readiness = s.readiness /\ x.ready = s.ready /\ x.tun = s.tun
        /\ x.recovery = FALSE
    BY <1>0, <1>1 DEF Guis
  <1>5. /\ x.want = s.want /\ x.was = s.was /\ x.resume = s.resume
        /\ x.loginTimer = s.loginTimer /\ x.named = s.named /\ x.quit = s.quit
    BY <1>0, <1>1 DEF Guis
  <1>6. PICK y : y = SetPending(x, FALSE)
    OBVIOUS
  <1>7. OpOnly(x, y)
    BY <1>2, <1>6, PendingOff
  <1>8. PICK z : z = [y EXCEPT !.login = TRUE, !.loginTimer = TRUE]
    OBVIOUS
  <1>9. z \in Guis
    BY <1>7, <1>8, GuiSet DEF OpOnly
  <1>10. LinkFrame(y, z) /\ RoomFrame(y, z)
    BY <1>7, <1>8 DEF OpOnly, Guis, LinkFrame, RoomFrame
  <1>11. /\ z.recovery = y.recovery /\ z.want = y.want /\ z.was = y.was
         /\ z.resume = y.resume /\ z.named = y.named /\ z.quit = y.quit
    BY <1>7, <1>8 DEF OpOnly, Guis
  <1>12. ASSUME s.recovery, s.logout = "No", s.sock \notin Up, ~Live(s),
                NEW u \in Guis, LinkFrame(s, u), u.job = NoJob, u.phase = "Idle",
                u.late = FALSE, u.readiness = s.readiness, u.ready = s.ready,
                u.tun = s.tun, u.recovery = FALSE, u.want = s.want, u.was = s.was,
                u.resume = s.resume, u.named = s.named, u.quit = s.quit,
                (u.loginTimer = s.loginTimer) \/ s.named
         PROVE  Sound(u) /\ (Quiet(s) => Quiet(u))
    <2>1. ~Live(u) /\ ~HasTask(u) /\ ~u.job.adapter /\ JobSound(u.job)
      BY <1>12, NoJobSound DEF Live, HasTask
    <2>2. u.ready = FALSE /\ u.readiness = FALSE /\ u.tun = FALSE
      BY <1>0, <1>12, SoundFields, GuiFields DEF RecoverySound, RoomSound
    <2>3. Torn(u)
      BY <1>12, <2>1, <2>2 DEF Torn
    <2>4. LinkSound(u) /\ RetrySound(u) /\ ResolveSound(u)
      BY <1>12, <2>1, SoundFields
         DEF LinkFrame, LinkSound, RetrySound, ResolveSound
    <2>5. RecoverySound(u) /\ QuitSound(u) /\ (Quiet(s) => Quiet(u))
      BY <1>12, <2>1, SoundFields DEF LinkFrame, RecoverySound, QuitSound, Quiet
    <2>6. /\ u.phase = "CleaningUp" /\ u.logout # "No" => u.sock = "LoggedIn"
          /\ u.quit # "No" /\ u.sock = "LoggedIn" => u.logout # "No"
      BY <1>12, SoundFields DEF LinkFrame, Up
    <2> QED BY <1>12, <2>3, <2>4, <2>5, <2>6, TornSound
  <1>13. CASE ~s.recovery \/ s.logout # "No" \/ s.sock \in Up \/ Live(s)
    BY <1>13 DEF MaybeFinishRoomRecovery, Live
  <1>14. CASE ~(~s.recovery \/ s.logout # "No" \/ s.sock \in Up \/ Live(s))
    <2>1. LinkFrame(s, y) /\ LinkFrame(s, z)
      BY <1>3, <1>7, <1>10 DEF OpOnly, LinkFrame
    <2>2. /\ y \in Guis /\ y.job = NoJob /\ y.phase = "Idle" /\ y.late = FALSE
          /\ y.readiness = s.readiness /\ y.ready = s.ready /\ y.tun = s.tun
          /\ y.recovery = FALSE /\ y.want = s.want /\ y.was = s.was
          /\ y.resume = s.resume /\ y.named = s.named /\ y.quit = s.quit
          /\ y.loginTimer = s.loginTimer
      BY <1>4, <1>5, <1>7 DEF OpOnly, PlanFrame
    <2>3. /\ z.job = NoJob /\ z.phase = "Idle" /\ z.late = FALSE
          /\ z.readiness = s.readiness /\ z.ready = s.ready /\ z.tun = s.tun
          /\ z.recovery = FALSE /\ z.want = s.want /\ z.was = s.was
          /\ z.resume = s.resume /\ z.named = s.named /\ z.quit = s.quit
      BY <1>10, <1>11, <2>2 DEF RoomFrame
    <2>4. z.loginTimer = TRUE
      BY <1>7, <1>8 DEF OpOnly, Guis
    <2>5. CASE s.blocked \/ ~s.named \/ ~s.pass \/ s.login
      <3>1. t = y
        BY <1>1, <1>6, <1>14, <2>5 DEF MaybeFinishRoomRecovery, Live
      <3> QED BY <1>12, <1>14, <2>1, <2>2, <3>1 DEF LinkFrame
    <2>6. CASE ~(s.blocked \/ ~s.named \/ ~s.pass \/ s.login)
      <3>1. t = z
        BY <1>1, <1>6, <1>8, <1>14, <2>6 DEF MaybeFinishRoomRecovery, Live
      <3>2. s.named
        BY <2>6
      <3> QED BY <1>9, <1>12, <1>14, <2>1, <2>3, <3>1, <3>2 DEF LinkFrame
    <2> QED BY <2>5, <2>6
  <1> QED BY <1>13, <1>14

\* A step that only gives up plans.
Drops(s, t) ==
  /\ t \in Guis /\ RoomFrame(s, t)
  /\ t.sock = s.sock /\ t.logout = s.logout /\ t.quit = s.quit
  /\ t.conn = s.conn \/ t.conn = "Idle"
  /\ t.asked => s.asked
  /\ t.attempt => s.attempt
  /\ t.timers \subseteq s.timers
  /\ t.attempts = s.attempts \/ t.timers = {}
  /\ t.recovery => s.recovery
  /\ t.want => s.want
  /\ t.was => s.was
  /\ t.resume => s.resume
  /\ t.loginTimer => s.loginTimer
  /\ t.named => s.named

\* A step that gives up plans, and not the attempt of a recovery alone while
\* its name is resolved.
Eases(s, t) ==
  /\ Drops(s, t)
  /\ t.attempt = s.attempt \/ t.conn = "Idle" \/ (~t.want /\ ~t.resume)

\* A step that only gives up plans keeps the invariant but for ResolveSound,
LEMMA DropFirm ==
  ASSUME NEW s, Firm(s), LogoutSound(s), NEW t, Drops(s, t)
  PROVE  Firm(t) /\ LogoutSound(t) /\ (Quiet(s) => Quiet(t))
  <1>0. /\ t \in Guis /\ RoomFrame(s, t) /\ t.sock = s.sock /\ t.logout = s.logout
        /\ t.quit = s.quit
    BY DEF Drops
  <1>1. JobSound(t.job) /\ RoomSound(t)
    BY <1>0, LiveJob DEF Firm, Base, RoomFrame, RoomSound
  <1>2. LinkSound(t)
    BY <1>0, LiveJob DEF Firm, Base, RoomFrame, Drops, LinkSound, Linking
  <1>3. RetrySound(t)
    <2>1. Live(t) <=> Live(s)
      BY <1>0, LiveJob DEF RoomFrame
    <2> QED BY <2>1 DEF Firm, Base, Drops, RetrySound
  <1>4. PhaseSound(t) /\ LogoutSound(t)
    BY <1>0, LiveJob DEF Firm, RoomFrame, PhaseSound, LogoutSound
  <1>5. RecoverySound(t)
    BY <1>0 DEF Firm, RoomFrame, Drops, RecoverySound
  <1>6. Quiet(s) => Quiet(t)
    BY <1>0 DEF RoomFrame, Drops, Quiet, Linking
  <1>7. QuitSound(t)
    BY <1>0, <1>6 DEF Firm, Base, RoomFrame, QuitSound
  <1> QED BY <1>0, <1>1, <1>2, <1>3, <1>4, <1>5, <1>6, <1>7 DEF Firm, Base

\* and ResolveSound too when it eases,
LEMMA EaseSound ==
  ASSUME NEW s, Sound(s), NEW t, Eases(s, t)
  PROVE  Sound(t) /\ (Quiet(s) => Quiet(t))
  <1>1. ResolveSound(t)
    BY DEF Sound, Eases, Drops, ResolveSound
  <1> QED BY <1>1, DropFirm DEF Sound, Eases

\* or when no connection is being made afterwards.
LEMMA DropIdle ==
  ASSUME NEW s, Firm(s), LogoutSound(s), NEW t, Drops(s, t), t.conn = "Idle"
  PROVE  Sound(t) /\ (Quiet(s) => Quiet(t))
  <1>1. ResolveSound(t)
    BY DEF ResolveSound
  <1> QED BY <1>1, DropFirm DEF Sound

\* A step that changes what the client is connected to, or plans to be.
LEMMA LinkStep ==
  ASSUME NEW s, Sound(s), NEW t \in Guis, RoomFrame(s, t),
         t.sock = s.sock, t.logout = s.logout, t.quit = s.quit,
         LinkSound(t), RetrySound(t), ResolveSound(t), RecoverySound(t), QuitSound(t)
  PROVE  Sound(t)
  <1>1. JobSound(t.job) /\ RoomSound(t)
    BY SoundFields, LiveJob DEF RoomFrame, RoomSound
  <1>2. PhaseSound(t) /\ LogoutSound(t)
    BY SoundFields, LiveJob DEF RoomFrame, PhaseSound, LogoutSound
  <1> QED BY <1>1, <1>2 DEF Sound, Firm, Base

\* scheduleReconnectAttempt keeps the invariant: it sets its timer only without
\* a connection, and the delay only after the cleanup and under the limit.
LEMMA ScheduleSound ==
  ASSUME NEW s, Sound(s), s.sock = "Off", s.conn = "Idle"
  PROVE  Sound(Schedule(s)) /\ (Quiet(s) => Quiet(Schedule(s)))
  <1>0. s \in Guis
    BY SoundFields
  <1>1. CASE s.blocked \/ s.scheduled \/ ~s.want
    BY <1>1 DEF Schedule
  <1>2. CASE ~(s.blocked \/ s.scheduled \/ ~s.want) /\ CleanupPending(s)
    <2>1. PICK n : n = s.timers \cup {"Poll"}
      OBVIOUS
    <2>2. n \in SUBSET {"Poll", "Delay"} /\ ("Delay" \in n <=> "Delay" \in s.timers)
      BY <1>0, <2>1, GuiFields
    <2>3. PICK t : t = [s EXCEPT !.scheduled = TRUE, !.timers = n]
      OBVIOUS
    <2>4. t \in Guis
      BY <1>0, <2>2, <2>3, GuiSet
    <2>5. RoomFrame(s, t) /\ PlanFrame(s, t)
      BY <1>0, <2>3 DEF Guis, RoomFrame, PlanFrame
    <2>6. /\ t.sock = s.sock /\ t.asked = s.asked /\ t.conn = s.conn
          /\ t.attempt = s.attempt /\ t.logout = s.logout /\ t.timers = n
          /\ t.attempts = s.attempts
      BY <1>0, <2>3 DEF Guis
    <2>7. LinkSound(t) /\ RetrySound(t) /\ ResolveSound(t)
      BY <2>2, <2>5, <2>6, SoundFields, LiveJob
         DEF RoomFrame, PlanFrame, LinkSound, RetrySound, ResolveSound
    <2>8. RecoverySound(t)
      BY <2>5, SoundFields DEF RoomFrame, PlanFrame, RecoverySound
    <2>9. QuitSound(t) /\ ~Quiet(s)
      BY <1>2, <2>5, SoundFields DEF RoomFrame, PlanFrame, QuitSound, Quiet
    <2>10. Schedule(s) = t
      BY <1>2, <2>1, <2>3 DEF Schedule
    <2> QED BY <2>4, <2>5, <2>6, <2>7, <2>8, <2>9, <2>10, LinkStep DEF PlanFrame
  <1>3. CASE ~(s.blocked \/ s.scheduled \/ ~s.want) /\ ~CleanupPending(s) /\ ~MayRetry(s)
    <2>1. PICK t : t = [s EXCEPT !.want = FALSE, !.resume = FALSE]
      OBVIOUS
    <2>2. t \in Guis
      BY <1>0, <2>1, GuiSet
    <2>3. RoomFrame(s, t) /\ LinkFrame(s, t)
      BY <1>0, <2>1 DEF Guis, RoomFrame, LinkFrame
    <2>4. /\ t.recovery = s.recovery /\ t.want = FALSE /\ t.was = s.was
          /\ t.resume = FALSE /\ t.loginTimer = s.loginTimer /\ t.named = s.named
          /\ t.quit = s.quit
      BY <1>0, <2>1 DEF Guis
    <2>5. Eases(s, t)
      BY <2>2, <2>3, <2>4 DEF LinkFrame, Eases, Drops
    <2>6. Schedule(s) = t
      BY <1>3, <2>1 DEF Schedule
    <2> QED BY <2>5, <2>6, EaseSound
  <1>4. CASE ~(s.blocked \/ s.scheduled \/ ~s.want) /\ ~CleanupPending(s) /\ MayRetry(s)
    <2>1. PICK t : t = [s EXCEPT !.loginTimer = FALSE, !.poll = FALSE,
                                 !.scheduled = TRUE, !.timers = {"Delay"}]
      OBVIOUS
    <2>2. t \in Guis
      BY <1>0, <2>1, GuiSet
    <2>3. RoomFrame(s, t)
      BY <1>0, <2>1 DEF Guis, RoomFrame
    <2>4. /\ t.sock = s.sock /\ t.asked = s.asked /\ t.conn = s.conn
          /\ t.attempt = s.attempt /\ t.logout = s.logout /\ t.timers = {"Delay"}
          /\ t.attempts = s.attempts
      BY <1>0, <2>1 DEF Guis
    <2>5. /\ t.recovery = s.recovery /\ t.want = s.want /\ t.was = s.was
          /\ t.resume = s.resume /\ t.named = s.named /\ t.quit = s.quit
      BY <1>0, <2>1 DEF Guis
    <2>6. ~Live(t)
      <3>1. ~Live(s)
        BY <1>4, SoundFields
           DEF CleanupPending, Live, RoomSound, PhaseSound, InRoomPhases
      <3> QED BY <2>3, <3>1, LiveJob DEF RoomFrame
    <2>7. LinkSound(t) /\ RetrySound(t) /\ ResolveSound(t)
      BY <1>4, <2>4, <2>5, <2>6, SoundFields
         DEF MayRetry, LinkSound, RetrySound, ResolveSound
    <2>8. RecoverySound(t) /\ QuitSound(t) /\ ~Quiet(s)
      BY <1>4, <2>3, <2>5, SoundFields DEF RoomFrame, RecoverySound, QuitSound, Quiet
    <2>9. Schedule(s) = t
      <3>1. NewGeneration(s) = [s EXCEPT !.loginTimer = FALSE, !.timers = {},
                                         !.poll = FALSE]
        BY DEF NewGeneration
      <3>2. [NewGeneration(s) EXCEPT !.scheduled = TRUE, !.timers = {"Delay"}] = t
        BY <1>0, <2>1, <3>1 DEF Guis
      <3> QED BY <1>4, <3>2 DEF Schedule
    <2> QED BY <2>2, <2>3, <2>4, <2>5, <2>7, <2>8, <2>9, LinkStep
  <1> QED BY <1>1, <1>2, <1>3, <1>4

\* scheduleReconnectAttempt does not touch the socket.
LEMMA ScheduleLink ==
  ASSUME NEW s \in Guis
  PROVE  Schedule(s).sock = s.sock
  <1>1. [s EXCEPT !.scheduled = TRUE, !.timers = @ \cup {"Poll"}].sock = s.sock
    BY DEF Guis
  <1>2. [s EXCEPT !.want = FALSE, !.resume = FALSE].sock = s.sock
    BY DEF Guis
  <1>3. [NewGeneration(s) EXCEPT !.scheduled = TRUE, !.timers = {"Delay"}].sock = s.sock
    BY DEF Guis, NewGeneration
  <1> QED BY <1>1, <1>2, <1>3 DEF Schedule

-----------------------------------------------------------------------------
(* onSignalDisconnected, disconnect and finishManualDisconnect *)

\* The socket is closed: nothing but the socket and its request changes.
LEMMA UnlinkedShape ==
  ASSUME NEW s \in Guis, NEW t, t = Unlinked(s)
  PROVE  /\ t \in Guis /\ RoomFrame(s, t) /\ PlanFrame(s, t)
         /\ t.sock = "Off" /\ t.asked = FALSE /\ t.conn = s.conn
         /\ t.attempt = s.attempt /\ t.logout = s.logout /\ t.timers = s.timers
         /\ t.attempts = s.attempts
  <1>1. t = [s EXCEPT !.sock = "Off", !.asked = FALSE, !.block = FALSE]
    BY DEF Unlinked
  <1>2. t \in Guis
    BY <1>1, GuiSet, ZenonT(60) DEF SockStates
  <1>3. RoomFrame(s, t) /\ PlanFrame(s, t)
    BY <1>1 DEF Guis, RoomFrame, PlanFrame
  <1>4. /\ t.sock = "Off" /\ t.asked = FALSE /\ t.conn = s.conn
        /\ t.attempt = s.attempt /\ t.logout = s.logout /\ t.timers = s.timers
        /\ t.attempts = s.attempts
    BY <1>1 DEF Guis
  <1> QED BY <1>2, <1>3, <1>4

\* A socket that is closed without a session leaves a sound state.
LEMMA UnlinkedSound ==
  ASSUME NEW s, Firm(s), s.sock # "LoggedIn", NEW t, t = Unlinked(s)
  PROVE  /\ Sound(t) /\ (Quiet(s) => Quiet(t))
         /\ t.sock = "Off" /\ t.conn = s.conn
  <1>0. s \in Guis /\ Base(s)
    BY DEF Firm, Base
  <1>1. /\ t \in Guis /\ RoomFrame(s, t) /\ PlanFrame(s, t)
        /\ t.sock = "Off" /\ t.asked = FALSE /\ t.conn = s.conn
        /\ t.attempt = s.attempt /\ t.logout = s.logout /\ t.timers = s.timers
        /\ t.attempts = s.attempts
    BY <1>0, UnlinkedShape
  <1>2. JobSound(t.job) /\ RoomSound(t) /\ RecoverySound(t)
    BY <1>1, LiveJob DEF Firm, Base, RoomFrame, PlanFrame, RoomSound, RecoverySound
  <1>3. LinkSound(t) /\ RetrySound(t) /\ ResolveSound(t)
    BY <1>0, <1>1, LiveJob DEF Base, RoomFrame, LinkSound, RetrySound, ResolveSound
  <1>4. PhaseSound(t) /\ LogoutSound(t)
    BY <1>1, LiveJob DEF Firm, RoomFrame, PhaseSound, LogoutSound
  <1>5. QuitSound(t) /\ (Quiet(s) => Quiet(t))
    BY <1>0, <1>1 DEF Base, RoomFrame, PlanFrame, QuitSound, Quiet
  <1> QED BY <1>1, <1>2, <1>3, <1>4, <1>5 DEF Sound, Firm, Base

\* The state is torn down and not connected to anything.
Grounded(t) ==
  /\ t \in Guis /\ Torn(t)
  /\ t.sock = "Off" /\ t.conn = "Idle" /\ t.asked = FALSE /\ t.logout = "No"
  /\ t.timers = {}
  /\ t.quit # "No" => ~t.loginTimer /\ ~t.want /\ ~t.named
  /\ t.quit = "Done" => ~t.job.adapter

\* Such a state is sound.
LEMMA GroundSound ==
  ASSUME NEW t, Grounded(t), RecoverySound(t)
  PROVE  Sound(t) /\ t.sock = "Off" /\ t.conn = "Idle"
  <1>1. LinkSound(t) /\ RetrySound(t) /\ ResolveSound(t)
    BY DEF Grounded, LinkSound, RetrySound, ResolveSound, Linking
  <1>2. QuitSound(t)
    BY DEF Grounded, Torn, QuitSound, Quiet, Linking
  <1> QED BY <1>1, <1>2, TornSound DEF Grounded

\* What onSignalDisconnected makes of s before it looks at why.
Downed(s, d) ==
  /\ Grounded(d)
  /\ d.attempt = s.attempt /\ d.attempts = s.attempts /\ d.recovery = s.recovery
  /\ d.want = s.want /\ d.resume = s.resume /\ d.loginTimer = s.loginTimer
  /\ d.named = s.named /\ d.quit = s.quit

\* That is what it makes of it, whether the room is remembered or not.
LEMMA DownShape ==
  ASSUME NEW s, Firm(s), s.sock \in Up, NEW w \in BOOLEAN,
         NEW v, v = Unlinked(s),
         NEW x, x = [v EXCEPT !.conn = "Idle", !.was = w],
         NEW y, y = TeardownTun(x),
         NEW d, d = [y EXCEPT !.room = FALSE, !.logout = "No"]
  PROVE  Downed(s, d) /\ d.was = w
  <1>0. s \in Guis /\ Base(s)
    BY DEF Firm, Base
  <1>2. /\ v \in Guis /\ RoomFrame(s, v) /\ PlanFrame(s, v)
        /\ v.sock = "Off" /\ v.asked = FALSE
        /\ v.attempt = s.attempt /\ v.timers = s.timers /\ v.attempts = s.attempts
    BY <1>0, UnlinkedShape
  <1>4. x \in Guis
    BY <1>2, GuiSet DEF ConnStates
  <1>5. RoomFrame(v, x)
    BY <1>2 DEF Guis, RoomFrame
  <1>6. /\ x.sock = v.sock /\ x.asked = v.asked /\ x.conn = "Idle"
        /\ x.attempt = v.attempt /\ x.timers = v.timers /\ x.attempts = v.attempts
    BY <1>2 DEF Guis
  <1>7. /\ x.recovery = v.recovery /\ x.want = v.want /\ x.was = w
        /\ x.resume = v.resume /\ x.loginTimer = v.loginTimer /\ x.named = v.named
        /\ x.quit = v.quit
    BY <1>2 DEF Guis
  <1>8. JobSound(x.job) /\ x.job = s.job
    BY <1>0, <1>2, <1>5 DEF Base, RoomFrame
  <1>10. /\ TearsDown(x, y) /\ y \in Guis
         /\ y.job.adapter => s.job.adapter
    BY <1>4, <1>8, TeardownShape DEF TearsDown
  <1>12. d \in Guis
    BY <1>10, GuiSet DEF LogoutStates
  <1>13. /\ d.job = y.job /\ d.phase = y.phase /\ d.late = y.late
         /\ d.readiness = y.readiness /\ d.ready = y.ready /\ d.tun = y.tun
    BY <1>10 DEF Guis
  <1>14. /\ d.sock = y.sock /\ d.asked = y.asked /\ d.conn = y.conn
         /\ d.attempt = y.attempt /\ d.logout = "No" /\ d.timers = y.timers
         /\ d.attempts = y.attempts
    BY <1>10 DEF Guis
  <1>15. PlanFrame(y, d)
    BY <1>10 DEF Guis, PlanFrame
  <1>16. Torn(d)
    BY <1>10, <1>13, LiveJob DEF TearsDown, Torn
  <1>17. /\ d.sock = "Off" /\ d.conn = "Idle" /\ d.asked = FALSE
         /\ d.attempt = s.attempt /\ d.timers = s.timers /\ d.attempts = s.attempts
    BY <1>2, <1>6, <1>10, <1>14 DEF TearsDown, LinkFrame
  <1>18. /\ d.recovery = s.recovery /\ d.want = s.want /\ d.resume = s.resume
         /\ d.loginTimer = s.loginTimer /\ d.named = s.named /\ d.quit = s.quit
         /\ d.was = w
    BY <1>2, <1>7, <1>10, <1>15 DEF TearsDown, PlanFrame
  <1>19. s.timers = {}
    BY <1>0 DEF Base, RetrySound, Up
  <1>20. Grounded(d)
    BY <1>0, <1>10, <1>12, <1>13, <1>14, <1>16, <1>17, <1>18, <1>19
       DEF Grounded, Base, QuitSound, Quiet
  <1> QED BY <1>17, <1>18, <1>20 DEF Downed

\* Without a recovery that state is sound.
LEMMA DownSound ==
  ASSUME NEW s, Firm(s), NEW d, Downed(s, d), ~s.recovery
  PROVE  /\ Sound(d) /\ d.sock = "Off" /\ d.conn = "Idle"
         /\ Quiet(s) => Quiet(d)
  <1>1. RecoverySound(d)
    BY DEF Downed, RecoverySound
  <1>2. Quiet(s) => Quiet(d)
    BY DEF Downed, Grounded, Torn, Quiet, Linking
  <1> QED BY <1>1, <1>2, GroundSound DEF Downed

\* onSignalDisconnected leaves a sound state in each of its cases: an attempt
\* that goes on, a recovery, its login, a manual disconnect, a retry.
LEMMA SignalDisconnectedSound ==
  ASSUME NEW s, Firm(s), s.sock \in Up, NEW t, t = SignalDisconnected(s)
  PROVE  Sound(t) /\ t.sock = "Off" /\ (Quiet(s) => Quiet(t))
  <1>0. s \in Guis
    BY DEF Firm, Base
  <1>1. CASE s.conn \in Linking
    <2>1. s.sock # "LoggedIn"
      BY <1>1 DEF Firm, Base, LinkSound
    <2>2. t = Unlinked(s)
      BY <1>1 DEF SignalDisconnected, Linking
    <2> QED BY <2>1, <2>2, UnlinkedSound
  <1>2. CASE s.conn \notin Linking
    <2>1. PICK m : m = (s.manual \/ s.blocked)
      OBVIOUS
    <2>2. PICK v : v = Unlinked(s)
      OBVIOUS
    <2>3. PICK w : w = IF m THEN FALSE ELSE IF s.want THEN v.was ELSE s.ready
      OBVIOUS
    <2>4. w \in BOOLEAN
      BY <1>0, <2>2, <2>3, GuiFields, UnlinkedShape
    <2>5. PICK x : x = [v EXCEPT !.conn = "Idle", !.was = w]
      OBVIOUS
    <2>6. PICK y : y = TeardownTun(x)
      OBVIOUS
    <2>7. PICK d : d = [y EXCEPT !.room = FALSE, !.logout = "No"]
      OBVIOUS
    <2>8. Downed(s, d) /\ d \in Guis
      <3>1. Downed(s, d)
        BY <2>2, <2>4, <2>5, <2>6, <2>7, DownShape
      <3> QED BY <3>1 DEF Downed, Grounded
    <2>9. t = IF s.recovery
              THEN MaybeFinishRoomRecovery(ResetRoomRuntimeState(
                     [d EXCEPT !.manual = FALSE, !.want = FALSE]))
              ELSE IF s.attempt THEN [d EXCEPT !.attempt = FALSE, !.want = FALSE]
              ELSE IF m THEN [d EXCEPT !.manual = FALSE]
              ELSE IF s.want THEN Schedule(d)
              ELSE IF s.named THEN Schedule([d EXCEPT !.want = TRUE, !.attempts = 0])
              ELSE d
      <3>1. x = [v EXCEPT !.conn = "Idle",
                          !.was = IF m THEN FALSE ELSE IF s.want THEN @ ELSE s.ready]
        BY <2>3, <2>5
      <3> QED BY <1>2, <2>1, <2>2, <2>6, <2>7, <3>1 DEF SignalDisconnected, Linking
    <2>10. CASE s.recovery
      <3>1. PICK z : z = [d EXCEPT !.manual = FALSE, !.want = FALSE]
        OBVIOUS
      <3>2. z \in Guis
        BY <2>8, <3>1, GuiSet
      <3>3. RoomFrame(d, z) /\ LinkFrame(d, z)
        BY <2>8, <3>1 DEF Guis, RoomFrame, LinkFrame
      <3>4. /\ z.recovery = d.recovery /\ z.want = FALSE /\ z.was = d.was
            /\ z.resume = d.resume /\ z.loginTimer = d.loginTimer
            /\ z.named = d.named /\ z.quit = d.quit
        BY <2>8, <3>1 DEF Guis
      <3>5. Torn(z) /\ z.ready = FALSE
        BY <2>8, <3>3, LiveJob DEF Downed, Grounded, RoomFrame, Torn
      <3>6. PICK r : r = ResetRoomRuntimeState(z)
        OBVIOUS
      <3>7. /\ r \in Guis /\ LinkFrame(z, r) /\ Torn(r) /\ r.job = z.job
            /\ r.was = FALSE /\ r.recovery = z.recovery /\ r.want = z.want
            /\ r.resume = z.resume /\ r.loginTimer = z.loginTimer
            /\ r.named = z.named /\ r.quit = z.quit
        BY <3>2, <3>5, <3>6, ResetShape
      <3>8. Grounded(r)
        BY <2>8, <3>3, <3>4, <3>7 DEF Downed, Grounded, RoomFrame, LinkFrame
      <3>9. RecoverySound(r)
        <4>1. s.resume = FALSE
          BY <1>0, <2>10, GuiFields DEF Firm, RecoverySound
        <4> QED BY <2>8, <3>4, <3>7, <4>1 DEF Downed, Torn, RecoverySound
      <3>10. Sound(r) /\ r.sock = "Off"
        BY <3>8, <3>9, GroundSound
      <3>11. Quiet(s) => Quiet(r)
        BY <2>8, <3>4, <3>7, <3>8 DEF Downed, Grounded, Torn, Quiet, Linking
      <3>12. t = MaybeFinishRoomRecovery(r)
        BY <2>9, <2>10, <3>1, <3>6
      <3> QED BY <3>10, <3>11, <3>12, MaybeFinishSound
    <2>11. CASE ~s.recovery
      <3>1. /\ Sound(d) /\ d.sock = "Off" /\ d.conn = "Idle"
            /\ Quiet(s) => Quiet(d)
        BY <2>8, <2>11, DownSound
      <3>2. CASE s.attempt
        <4>1. t = [d EXCEPT !.attempt = FALSE, !.want = FALSE]
          BY <2>9, <2>11, <3>2
        <4>2. t \in Guis
          BY <2>8, <4>1, GuiSet
        <4>3. RoomFrame(d, t)
          BY <2>8, <4>1 DEF Guis, RoomFrame
        <4>4. /\ t.sock = d.sock /\ t.asked = d.asked /\ t.conn = d.conn
              /\ t.attempt = FALSE /\ t.logout = d.logout /\ t.timers = d.timers
              /\ t.attempts = d.attempts
          BY <2>8, <4>1 DEF Guis
        <4>5. /\ t.recovery = d.recovery /\ t.want = FALSE /\ t.was = d.was
              /\ t.resume = d.resume /\ t.loginTimer = d.loginTimer
              /\ t.named = d.named /\ t.quit = d.quit
          BY <2>8, <4>1 DEF Guis
        <4>6. Eases(d, t)
          BY <3>1, <4>2, <4>3, <4>4, <4>5 DEF Eases, Drops
        <4> QED BY <3>1, <4>4, <4>6, EaseSound
      <3>3. CASE ~s.attempt /\ m
        <4>1. t = [d EXCEPT !.manual = FALSE]
          BY <2>9, <2>11, <3>3
        <4>2. t \in Guis
          BY <2>8, <4>1, GuiSet
        <4>3. RoomFrame(d, t) /\ LinkFrame(d, t) /\ PlanFrame(d, t)
          BY <2>8, <4>1 DEF Guis, RoomFrame, LinkFrame, PlanFrame
        <4>4. Quiet(d) => Quiet(t)
          BY <4>3 DEF RoomFrame, LinkFrame, PlanFrame, Quiet
        <4>5. t.sock = "Off"
          BY <3>1, <4>3 DEF LinkFrame
        <4> QED BY <3>1, <4>2, <4>3, <4>4, <4>5, SameSound
      <3>4. CASE ~s.attempt /\ ~m /\ s.want
        <4>1. t = Schedule(d)
          BY <2>9, <2>11, <3>4
        <4> QED BY <2>8, <3>1, <4>1, ScheduleSound, ScheduleLink
      <3>5. CASE ~s.attempt /\ ~m /\ ~s.want /\ s.named
        <4>1. PICK z : z = [d EXCEPT !.want = TRUE, !.attempts = 0]
          OBVIOUS
        <4>2. z \in Guis
          <5>1. 0 \in 0 .. MaxAttempts
            BY MaxAttemptsAssumption
          <5> QED BY <2>8, <4>1, <5>1, GuiSet
        <4>3. RoomFrame(d, z)
          BY <2>8, <4>1 DEF Guis, RoomFrame
        <4>4. /\ z.sock = d.sock /\ z.asked = d.asked /\ z.conn = d.conn
              /\ z.attempt = d.attempt /\ z.logout = d.logout /\ z.timers = d.timers
          BY <2>8, <4>1 DEF Guis
        <4>5. /\ z.recovery = d.recovery /\ z.was = d.was
              /\ z.resume = d.resume /\ z.loginTimer = d.loginTimer
              /\ z.named = d.named /\ z.quit = d.quit
          BY <2>8, <4>1 DEF Guis
        <4>6. s.quit = "No" /\ ~Quiet(s)
          BY <3>5 DEF Firm, Base, QuitSound, Quiet
        <4>7. Grounded(z)
          BY <2>8, <4>2, <4>3, <4>4, <4>5, <4>6, LiveJob
             DEF Downed, Grounded, RoomFrame, Torn
        <4>8. RecoverySound(z)
          BY <2>8, <2>11, <4>5 DEF Downed, RecoverySound
        <4>9. Sound(z) /\ z.sock = "Off" /\ z.conn = "Idle"
          BY <4>7, <4>8, GroundSound
        <4>10. t = Schedule(z)
          BY <2>9, <2>11, <3>5, <4>1
        <4> QED BY <4>2, <4>6, <4>9, <4>10, ScheduleSound, ScheduleLink
      <3>6. CASE ~s.attempt /\ ~m /\ ~s.want /\ ~s.named
        <4>1. t = d
          BY <2>9, <2>11, <3>6
        <4> QED BY <3>1, <4>1
      <3> QED BY <3>2, <3>3, <3>4, <3>5, <3>6
    <2> QED BY <2>10, <2>11
  <1> QED BY <1>1, <1>2

\* SignalClient::disconnect leaves a sound state without a socket.
LEMMA DisconnectSound ==
  ASSUME NEW s, Firm(s), NEW t, t = Disconnect(s)
  PROVE  Sound(t) /\ t.sock = "Off" /\ (Quiet(s) => Quiet(t))
  <1>1. CASE s.sock \in Up
    BY <1>1, SignalDisconnectedSound DEF Disconnect
  <1>2. CASE s.sock \notin Up
    BY <1>2, UnlinkedSound DEF Disconnect, Up
  <1> QED BY <1>1, <1>2

\* finishManualDisconnect leaves a sound state without a socket.
LEMMA FinishManualSound ==
  ASSUME NEW s, Sound(s), NEW t, t = FinishManualDisconnect(s)
  PROVE  Sound(t) /\ t.sock = "Off" /\ (Quiet(s) => Quiet(t))
  <1>0. s \in Guis
    BY SoundFields
  <1>1. PICK x : x = [s EXCEPT !.logout = "No"]
    OBVIOUS
  <1>2. x \in Guis
    BY <1>0, <1>1, GuiSet DEF LogoutStates
  <1>3. RoomFrame(s, x) /\ PlanFrame(s, x)
    BY <1>0, <1>1 DEF Guis, RoomFrame, PlanFrame
  <1>4. /\ x.sock = s.sock /\ x.asked = s.asked /\ x.conn = s.conn
        /\ x.attempt = s.attempt /\ x.logout = "No" /\ x.timers = s.timers
        /\ x.attempts = s.attempts
    BY <1>0, <1>1 DEF Guis
  <1>5. JobSound(x.job) /\ RoomSound(x) /\ RecoverySound(x)
    BY <1>3, SoundFields, LiveJob DEF RoomFrame, PlanFrame, RoomSound, RecoverySound
  <1>6. LinkSound(x) /\ RetrySound(x)
    BY <1>3, <1>4, SoundFields, LiveJob DEF RoomFrame, LinkSound, RetrySound
  <1>7. PhaseSound(x)
    BY <1>3, <1>4, SoundFields, LiveJob DEF RoomFrame, PhaseSound, LogoutSound
  <1>8. QuitSound(x) /\ (Quiet(s) => Quiet(x))
    BY <1>3, <1>4, SoundFields DEF RoomFrame, PlanFrame, QuitSound, Quiet
  <1>9. Firm(x)
    BY <1>2, <1>5, <1>6, <1>7, <1>8 DEF Firm, Base
  <1>10. PICK y : y = Disconnect(x)
    OBVIOUS
  <1>11. Sound(y) /\ y.sock = "Off" /\ (Quiet(s) => Quiet(y))
    BY <1>8, <1>9, <1>10, DisconnectSound
  <1>12. t = MaybeFinishRoomRecovery(y)
    BY <1>1, <1>10 DEF FinishManualDisconnect
  <1> QED BY <1>11, <1>12, MaybeFinishSound

-----------------------------------------------------------------------------
(* beginRoomRecovery *)

\* beginRoomRecovery leaves a sound state, even in the middle of a handler: of
\* the state it interrupts it needs only Base.
LEMMA BeginSound ==
  ASSUME NEW s, Base(s), ~s.recovery, NEW t, t = BeginRoomRecovery(s)
  PROVE  Sound(t) /\ t.sock = s.sock
  <1>0. s \in Guis
    BY DEF Base
  <1>1. PICK x : x = [s EXCEPT !.login = FALSE, !.attempt = FALSE, !.want = FALSE,
                               !.was = FALSE, !.resume = FALSE, !.scheduled = FALSE,
                               !.recovery = TRUE, !.manual = TRUE, !.asked = FALSE,
                               !.block = TRUE]
    OBVIOUS
  <1>2. x \in Guis
    BY <1>0, <1>1, GuiSet
  <1>3. RoomFrame(s, x)
    BY <1>0, <1>1 DEF Guis, RoomFrame
  <1>4. /\ x.sock = s.sock /\ x.asked = FALSE /\ x.conn = s.conn
        /\ x.attempt = FALSE /\ x.timers = s.timers /\ x.attempts = s.attempts
    BY <1>0, <1>1 DEF Guis
  <1>5. /\ x.recovery = TRUE /\ x.want = FALSE /\ x.was = FALSE /\ x.resume = FALSE
        /\ x.loginTimer = s.loginTimer /\ x.named = s.named /\ x.quit = s.quit
    BY <1>0, <1>1 DEF Guis
  <1>6. Base(x)
    <2>1. JobSound(x.job) /\ LinkSound(x) /\ RetrySound(x)
      BY <1>3, <1>4, LiveJob DEF Base, RoomFrame, LinkSound, RetrySound
    <2>2. QuitSound(x)
      BY <1>3, <1>4, <1>5 DEF Base, RoomFrame, QuitSound, Quiet
    <2> QED BY <1>2, <2>1, <2>2 DEF Base
  <1>7. PICK y : y = TeardownTun(x)
    OBVIOUS
  <1>8. TearsDown(x, y) /\ Base(y) /\ y \in Guis /\ Torn(y) /\ y.ready = FALSE
    BY <1>6, <1>7, TeardownShape, TornBase DEF Base, TearsDown, Torn
  <1>9. PICK z : z = ResetRoomRuntimeState(y)
    OBVIOUS
  <1>10. /\ z \in Guis /\ LinkFrame(y, z) /\ Torn(z) /\ z.job = y.job
         /\ z.phase = y.phase /\ z.readiness = y.readiness /\ z.ready = FALSE
         /\ z.was = FALSE /\ z.recovery = y.recovery /\ z.want = y.want
         /\ z.resume = y.resume /\ z.loginTimer = y.loginTimer
         /\ z.named = y.named /\ z.quit = y.quit
    BY <1>8, <1>9, ResetShape
  <1>11. PICK l : l = IF s.sock \in Up THEN "Recovery" ELSE "No"
    OBVIOUS
  <1>12. PICK u : u = [z EXCEPT !.logout = l]
    OBVIOUS
  <1>13. u \in Guis
    BY <1>10, <1>11, <1>12, GuiSet DEF LogoutStates
  <1>14. RoomFrame(z, u) /\ PlanFrame(z, u)
    BY <1>10, <1>12 DEF Guis, RoomFrame, PlanFrame
  <1>15. /\ u.sock = z.sock /\ u.asked = z.asked /\ u.conn = z.conn
         /\ u.attempt = z.attempt /\ u.logout = l /\ u.timers = z.timers
         /\ u.attempts = z.attempts
    BY <1>10, <1>12 DEF Guis
  <1>16. /\ u.sock = s.sock /\ u.conn = s.conn /\ u.attempt = FALSE
         /\ u.asked = FALSE /\ u.timers = y.timers /\ u.attempts = y.attempts
         /\ u.sock = y.sock /\ u.conn = y.conn /\ u.asked = y.asked
         /\ u.attempt = y.attempt
    BY <1>4, <1>8, <1>10, <1>15 DEF TearsDown, LinkFrame
  <1>17. /\ u.recovery = TRUE /\ u.want = FALSE /\ u.was = FALSE /\ u.resume = FALSE
         /\ u.loginTimer = y.loginTimer /\ u.named = y.named /\ u.quit = y.quit
         /\ u.quit = s.quit /\ u.want = y.want
    BY <1>5, <1>8, <1>10, <1>14 DEF TearsDown, PlanFrame
  <1>18. /\ Torn(u) /\ u.job = y.job /\ u.phase = y.phase /\ u.ready = FALSE
         /\ u.readiness = FALSE /\ y.readiness = FALSE
    BY <1>8, <1>10, <1>14, LiveJob DEF RoomFrame, Torn
  <1>19. LinkSound(u) /\ RetrySound(u) /\ ResolveSound(u)
    BY <1>8, <1>16, <1>17, <1>18, LiveJob DEF Base, LinkSound, RetrySound, ResolveSound
  <1>20. RecoverySound(u) /\ QuitSound(u)
    BY <1>8, <1>16, <1>17, <1>18 DEF Base, RecoverySound, QuitSound, Quiet
  <1>21. u.phase = "CleaningUp" /\ u.logout # "No" => u.sock = "LoggedIn"
    <2>1. ASSUME u.phase = "CleaningUp", u.logout # "No" PROVE s.sock = "LoggedIn"
      <3>1. s.sock \in Up
        BY <1>11, <1>15, <2>1
      <3>2. Live(s)
        BY <1>3, <1>8, <1>18, <2>1, LiveJob DEF TearsDown, Torn, RoomFrame
      <3> QED BY <3>1, <3>2 DEF Base, LinkSound, Up
    <2> QED BY <1>16, <2>1
  <1>22. u.quit # "No" /\ u.sock = "LoggedIn" => u.logout # "No"
    BY <1>11, <1>15, <1>16 DEF Up
  <1>23. Sound(u)
    BY <1>13, <1>18, <1>19, <1>20, <1>21, <1>22, TornSound
  <1>24. t = IF s.sock \in Up THEN u ELSE MaybeFinishRoomRecovery(u)
    <2>1. x = [Forget(s) EXCEPT !.recovery = TRUE, !.manual = TRUE, !.asked = FALSE,
                                !.block = TRUE]
      BY <1>0, <1>1 DEF Guis, Forget
    <2> QED BY <1>7, <1>9, <1>11, <1>12, <2>1 DEF BeginRoomRecovery
  <1> QED BY <1>16, <1>23, <1>24, MaybeFinishSound

\* beginRoomRecovery keeps the invariant, also when a recovery is under way
\* already.
LEMMA RecoverySoundly ==
  ASSUME NEW s, Sound(s)
  PROVE  Sound(BeginRoomRecovery(s)) /\ BeginRoomRecovery(s).sock = s.sock
  <1>1. CASE s.recovery
    BY <1>1 DEF BeginRoomRecovery
  <1>2. CASE ~s.recovery
    BY <1>2, BeginSound, SoundFields
  <1> QED BY <1>1, <1>2

-----------------------------------------------------------------------------
(* cancelConnectionAttempt and disconnectFromServer *)

\* cancelConnectionAttempt leaves a sound state in which nothing is connecting
\* and no timer runs.
LEMMA CancelAttemptSound ==
  ASSUME NEW s, Firm(s), LogoutSound(s), NEW t, t = CancelConnectionAttempt(s)
  PROVE  /\ Sound(t) /\ t.conn = "Idle" /\ t.timers = {} /\ t.loginTimer = FALSE
         /\ t.quit = s.quit
         /\ t.sock \in {s.sock, "Off"}
         /\ (t.was => s.was) /\ (t.asked => s.asked)
  <1>0. s \in Guis
    BY DEF Firm, Base
  <1>1. CASE ~s.readiness
    <2>1. PICK x : x = [s EXCEPT !.loginTimer = FALSE, !.timers = {}, !.poll = FALSE,
                                 !.more = FALSE, !.scheduled = FALSE, !.conn = "Idle"]
      OBVIOUS
    <2>2. x \in Guis
      BY <1>0, <2>1, GuiSet DEF ConnStates
    <2>3. RoomFrame(s, x)
      BY <1>0, <2>1 DEF Guis, RoomFrame
    <2>4. /\ x.sock = s.sock /\ x.asked = s.asked /\ x.conn = "Idle"
          /\ x.attempt = s.attempt /\ x.logout = s.logout /\ x.timers = {}
          /\ x.attempts = s.attempts
      BY <1>0, <2>1 DEF Guis
    <2>5. /\ x.recovery = s.recovery /\ x.want = s.want /\ x.was = s.was
          /\ x.resume = s.resume /\ x.loginTimer = FALSE /\ x.named = s.named
          /\ x.quit = s.quit
      BY <1>0, <2>1 DEF Guis
    <2>6. Drops(s, x)
      BY <2>2, <2>3, <2>4, <2>5 DEF Drops
    <2>7. Sound(x)
      BY <2>4, <2>6, DropIdle
    <2>8. CASE s.sock # "Connecting"
      <3>1. t = x
        <4>1. PICK g : g = NewGeneration(s)
          OBVIOUS
        <4>2. g = [s EXCEPT !.loginTimer = FALSE, !.timers = {}, !.poll = FALSE]
          BY <4>1 DEF NewGeneration
        <4>3. g.sock = s.sock
          BY <1>0, <4>2 DEF Guis
        <4>4. t = [g EXCEPT !.more = FALSE, !.scheduled = FALSE, !.conn = "Idle"]
          BY <1>1, <2>8, <4>1, <4>3 DEF CancelConnectionAttempt
        <4> QED BY <1>0, <2>1, <4>2, <4>4 DEF Guis
      <3> QED BY <2>4, <2>5, <2>7, <3>1
    <2>9. CASE s.sock = "Connecting"
      <3>1. PICK g : g = NewGeneration(s)
        OBVIOUS
      <3>2. g = [s EXCEPT !.loginTimer = FALSE, !.timers = {}, !.poll = FALSE]
        BY <3>1 DEF NewGeneration
      <3>3. g.sock = s.sock
        BY <1>0, <3>2 DEF Guis
      <3>4. t = [Unlinked(g) EXCEPT !.more = FALSE, !.scheduled = FALSE, !.conn = "Idle"]
        BY <1>1, <2>9, <3>1, <3>3 DEF CancelConnectionAttempt
      <3>5. PICK v : v = Unlinked(x)
        OBVIOUS
      <3>6. t = v
        BY <2>1, <3>2, <3>4, <3>5, ZenonT(60) DEF Unlinked
      <3>7. Sound(v) /\ v.sock = "Off" /\ v.conn = x.conn
        BY <2>4, <2>7, <2>9, <3>5, UnlinkedSound, SoundFields
      <3>8. v.timers = x.timers /\ v.asked = FALSE /\ PlanFrame(x, v)
        BY <2>2, <3>5, UnlinkedShape
      <3> QED BY <2>4, <2>5, <3>6, <3>7, <3>8 DEF PlanFrame
    <2> QED BY <2>8, <2>9
  <1>2. CASE s.readiness
    <2>1. s.sock = "LoggedIn" /\ s.conn \notin Linking
      BY <1>2 DEF Firm, Base, RoomSound, PhaseSound, InRoomPhases, LinkSound
    <2>2. Sound(s)
      BY <2>1 DEF Sound, ResolveSound, Linking
    <2>3. PICK g : g = NewGeneration(s)
      OBVIOUS
    <2>4. g = [s EXCEPT !.loginTimer = FALSE, !.timers = {}, !.poll = FALSE]
      BY <2>3 DEF NewGeneration
    <2>5. g \in Guis
      BY <1>0, <2>4, GuiSet
    <2>6. RoomFrame(s, g)
      BY <1>0, <2>4 DEF Guis, RoomFrame
    <2>7. /\ g.sock = s.sock /\ g.asked = s.asked /\ g.conn = s.conn
          /\ g.attempt = s.attempt /\ g.logout = s.logout /\ g.timers = {}
          /\ g.attempts = s.attempts
      BY <1>0, <2>4 DEF Guis
    <2>8. /\ g.recovery = s.recovery /\ g.want = s.want /\ g.was = s.was
          /\ g.resume = s.resume /\ g.loginTimer = FALSE /\ g.named = s.named
          /\ g.quit = s.quit
      BY <1>0, <2>4 DEF Guis
    <2>9. Eases(s, g)
      BY <2>5, <2>6, <2>7, <2>8 DEF Eases, Drops
    <2>10. Sound(g)
      BY <2>2, <2>9, EaseSound
    <2>11. PICK y : y = TeardownTun(g)
      OBVIOUS
    <2>12. Sound(y) /\ TearsDown(g, y)
      BY <2>10, <2>11, TearSound
    <2>13. PICK z : z = ResetRoomRuntimeState(y)
      OBVIOUS
    <2>14. /\ Sound(z) /\ LinkFrame(y, z) /\ z.quit = y.quit
           /\ z.loginTimer = y.loginTimer /\ z.was = FALSE
      BY <2>12, <2>13, ResetSound, ResetShape, SoundFields, ZenonT(60) DEF TearsDown, Torn
    <2>15. /\ z.sock = "LoggedIn" /\ z.timers = {} /\ z.loginTimer = FALSE
           /\ z.quit = s.quit /\ z.asked = s.asked
      BY <2>1, <2>7, <2>8, <2>12, <2>14 DEF TearsDown, LinkFrame, PlanFrame
    <2>16. PICK w : w = [z EXCEPT !.more = FALSE, !.scheduled = FALSE, !.conn = "Idle"]
      OBVIOUS
    <2>17. z \in Guis
      BY <2>14, SoundFields
    <2>18. w \in Guis
      BY <2>16, <2>17, GuiSet DEF ConnStates
    <2>19. RoomFrame(z, w) /\ PlanFrame(z, w)
      BY <2>16, <2>17 DEF Guis, RoomFrame, PlanFrame
    <2>20. /\ w.sock = z.sock /\ w.asked = z.asked /\ w.conn = "Idle"
           /\ w.attempt = z.attempt /\ w.logout = z.logout /\ w.timers = z.timers
           /\ w.attempts = z.attempts
      BY <2>16, <2>17 DEF Guis
    <2>21. Eases(z, w)
      BY <2>18, <2>19, <2>20 DEF Eases, Drops, PlanFrame
    <2>22. Sound(w)
      BY <2>14, <2>21, EaseSound
    <2>23. t = w
      <3>1. z.sock # "Connecting"
        BY <2>15
      <3> QED BY <1>2, <2>3, <2>11, <2>13, <2>16, <3>1 DEF CancelConnectionAttempt
    <2> QED BY <2>1, <2>14, <2>15, <2>19, <2>20, <2>22, <2>23 DEF PlanFrame
  <1> QED BY <1>1, <1>2

\* The client has given up all it was about to do, and is logging out if it is
\* logged in.
Parting(t) ==
  /\ Sound(t) /\ Quiet(t) /\ t.sock \in {"Off", "LoggedIn"}
  /\ t.sock = "LoggedIn" => t.logout # "No"

\* A server password that is replaced may end the handshake; that keeps the
\* invariant.
LEMMA ReplacedSound ==
  ASSUME NEW s, Sound(s), NEW t \in PasswordReplaced(s)
  PROVE  Sound(t) /\ (Quiet(s) => Quiet(t))
  <1>1. \/ t = s
        \/ s.sock = "Connected" /\ t = SignalDisconnected(s)
    BY DEF PasswordReplaced
  <1> QED BY <1>1, SignalDisconnectedSound, SoundFields DEF Up

\* disconnectFromServer sends LOGOUT in a session that is not logging out.
LEMMA LogoutStep ==
  ASSUME NEW u, Sound(u), Quiet(u), u.sock = "LoggedIn", u.logout = "No",
         NEW t, t = [u EXCEPT !.manual = TRUE, !.logout = "Manual", !.asked = FALSE,
                              !.block = TRUE]
  PROVE  Parting(t)
  <1>0. u \in Guis
    BY SoundFields
  <1>1. t \in Guis
    BY <1>0, GuiSet DEF LogoutStates
  <1>2. RoomFrame(u, t) /\ PlanFrame(u, t)
    BY <1>0 DEF Guis, RoomFrame, PlanFrame
  <1>3. /\ t.sock = u.sock /\ t.asked = FALSE /\ t.conn = u.conn
        /\ t.attempt = u.attempt /\ t.logout = "Manual" /\ t.timers = u.timers
        /\ t.attempts = u.attempts
    BY <1>0 DEF Guis
  <1>4. JobSound(t.job) /\ RoomSound(t) /\ RecoverySound(t)
    BY <1>2, SoundFields, LiveJob DEF RoomFrame, PlanFrame, RoomSound, RecoverySound
  <1>5. LinkSound(t) /\ RetrySound(t) /\ ResolveSound(t)
    BY <1>2, <1>3, SoundFields, LiveJob
       DEF RoomFrame, PlanFrame, LinkSound, RetrySound, ResolveSound
  <1>6. PhaseSound(t) /\ LogoutSound(t)
    BY <1>2, <1>3, SoundFields, LiveJob DEF RoomFrame, PhaseSound, LogoutSound
  <1>7. QuitSound(t) /\ Quiet(t)
    BY <1>2, <1>3, SoundFields DEF RoomFrame, PlanFrame, QuitSound, Quiet
  <1> QED BY <1>1, <1>3, <1>4, <1>5, <1>6, <1>7 DEF Parting, Sound, Firm, Base

\* disconnectFromServer leaves a client that parts, and makes up no room, no
\* request and no login.
LEMMA DisconnectFromServerSound ==
  ASSUME NEW s, Sound(s), NEW r \in DisconnectFromServer(s)
  PROVE  /\ Parting(r)
         /\ r.sock = "LoggedIn" => /\ s.sock = "LoggedIn"
                                   /\ (r.was => s.was) /\ (r.asked => s.asked)
  <1>0. s \in Guis
    BY SoundFields
  <1>1. PICK x : x = [s EXCEPT !.recovery = FALSE, !.login = FALSE, !.attempt = FALSE]
    OBVIOUS
  <1>2. x \in Guis
    BY <1>0, <1>1, GuiSet
  <1>3. RoomFrame(s, x)
    BY <1>0, <1>1 DEF Guis, RoomFrame
  <1>4. /\ x.sock = s.sock /\ x.asked = s.asked /\ x.conn = s.conn
        /\ x.attempt = FALSE /\ x.logout = s.logout /\ x.timers = s.timers
        /\ x.attempts = s.attempts
    BY <1>0, <1>1 DEF Guis
  <1>5. /\ x.recovery = FALSE /\ x.want = s.want /\ x.was = s.was
        /\ x.resume = s.resume /\ x.loginTimer = s.loginTimer /\ x.named = s.named
        /\ x.quit = s.quit
    BY <1>0, <1>1 DEF Guis
  <1>6. Drops(s, x)
    BY <1>2, <1>3, <1>4, <1>5 DEF Drops
  <1>7. Firm(x) /\ LogoutSound(x)
    BY <1>6, SoundFields, DropFirm
  <1>8. PICK y : y = CancelConnectionAttempt(x)
    OBVIOUS
  <1>9. /\ Sound(y) /\ y.conn = "Idle" /\ y.timers = {} /\ y.loginTimer = FALSE
        /\ y \in Guis /\ (y.was => x.was) /\ (y.asked => x.asked)
        /\ y.sock \in {x.sock, "Off"}
    BY <1>7, <1>8, CancelAttemptSound, SoundFields
  <1>10. PICK z : z = [y EXCEPT !.want = FALSE, !.resume = FALSE, !.named = FALSE,
                                !.pass = FALSE]
    OBVIOUS
  <1>11. z \in Guis
    BY <1>9, <1>10, GuiSet
  <1>12. RoomFrame(y, z) /\ LinkFrame(y, z)
    BY <1>9, <1>10 DEF Guis, RoomFrame, LinkFrame
  <1>13. /\ z.recovery = y.recovery /\ z.want = FALSE /\ z.was = y.was
         /\ z.resume = FALSE /\ z.loginTimer = y.loginTimer /\ z.named = FALSE
         /\ z.quit = y.quit
    BY <1>9, <1>10 DEF Guis
  <1>14. Eases(y, z)
    BY <1>11, <1>12, <1>13 DEF LinkFrame, Eases, Drops
  <1>15. Sound(z)
    BY <1>9, <1>14, EaseSound
  <1>16. PICK t : t = TeardownTun(z)
    OBVIOUS
  <1>17. Sound(t) /\ TearsDown(z, t)
    BY <1>15, <1>16, TearSound
  <1>a. (t.was => s.was) /\ (t.asked => s.asked) /\ t.sock \in {s.sock, "Off"}
    BY <1>4, <1>5, <1>9, <1>12, <1>13, <1>17 DEF TearsDown, LinkFrame, PlanFrame
  <1>18. Quiet(t)
    BY <1>9, <1>12, <1>13, <1>17
       DEF TearsDown, Torn, LinkFrame, PlanFrame, Quiet, Linking
  <1>19. PICK u \in PasswordReplaced(t) :
           r = CASE u.sock = "LoggedIn" /\ u.logout = "No" ->
                      [u EXCEPT !.manual = TRUE, !.logout = "Manual",
                                !.asked = FALSE, !.block = TRUE]
                 [] u.sock = "LoggedIn" /\ u.logout # "No" -> u
                 [] OTHER -> FinishManualDisconnect([u EXCEPT !.manual = TRUE])
    <2>1. t = TeardownTun([CancelConnectionAttempt([s EXCEPT
                !.recovery = FALSE, !.login = FALSE, !.attempt = FALSE])
                EXCEPT !.want = FALSE, !.resume = FALSE, !.named = FALSE,
                       !.pass = FALSE])
      BY <1>1, <1>8, <1>10, <1>16
    <2> QED BY <2>1 DEF DisconnectFromServer
  <1>20. Sound(u) /\ Quiet(u) /\ u \in Guis
    BY <1>17, <1>18, ReplacedSound, SoundFields
  <1>b. u.sock = "LoggedIn" => u = t
    <2>1. u = t \/ (t.sock = "Connected" /\ u = SignalDisconnected(t))
      BY <1>19 DEF PasswordReplaced
    <2>2. t.sock = "Connected" /\ u = SignalDisconnected(t) => u.sock = "Off"
      BY <1>17, SoundFields, SignalDisconnectedSound DEF Up
    <2> QED BY <2>1, <2>2
  <1>21. CASE u.sock = "LoggedIn" /\ u.logout = "No"
    <2>1. r = [u EXCEPT !.manual = TRUE, !.logout = "Manual", !.asked = FALSE,
                        !.block = TRUE]
      BY <1>19, <1>21
    <2>2. r.was = u.was /\ r.asked = FALSE
      BY <1>20, <2>1 DEF Guis
    <2> QED BY <1>20, <1>21, <1>a, <1>b, <2>1, <2>2, LogoutStep
  <1>22. CASE u.sock = "LoggedIn" /\ u.logout # "No"
    BY <1>19, <1>20, <1>22, <1>a, <1>b DEF Parting
  <1>23. CASE u.sock # "LoggedIn"
    <2>1. PICK v : v = [u EXCEPT !.manual = TRUE]
      OBVIOUS
    <2>2. v \in Guis
      BY <1>20, <2>1, GuiSet
    <2>3. RoomFrame(u, v) /\ LinkFrame(u, v) /\ PlanFrame(u, v)
      BY <1>20, <2>1 DEF Guis, RoomFrame, LinkFrame, PlanFrame
    <2>4. Sound(v)
      BY <1>20, <2>2, <2>3, SameSound
    <2>5. Quiet(v)
      BY <1>20, <2>3 DEF RoomFrame, LinkFrame, PlanFrame, Quiet
    <2>6. r = FinishManualDisconnect(v)
      BY <1>19, <1>23, <2>1
    <2> QED BY <2>4, <2>5, <2>6, FinishManualSound DEF Parting
  <1> QED BY <1>21, <1>22, <1>23

-----------------------------------------------------------------------------
(* resolveAndConnect and handleConnectionAttemptExhausted *)

\* resolveAndConnect keeps the invariant when no task lives, there is no
\* connection and the program goes on.
LEMMA ResolveAndConnectSound ==
  ASSUME NEW s, Sound(s), s.sock \notin Up, ~Live(s), s.quit = "No",
         s.sock = "Off" \/ s.attempt,
         NEW r \in ResolveAndConnect(s)
  PROVE  Sound(r) /\ r.sock \in {s.sock, "Connecting"}
  <1>0. s \in Guis
    BY SoundFields
  <1>1. PICK g : g = NewGeneration(s)
    OBVIOUS
  <1>2. PICK x : x = [s EXCEPT !.loginTimer = FALSE, !.timers = {}, !.poll = FALSE,
                               !.scheduled = FALSE, !.more = FALSE]
    OBVIOUS
  <1>3. x = [g EXCEPT !.scheduled = FALSE, !.more = FALSE]
    BY <1>0, <1>1, <1>2 DEF Guis, NewGeneration
  <1>4. PICK a : a = [s EXCEPT !.loginTimer = FALSE, !.timers = {}, !.poll = FALSE,
                               !.scheduled = FALSE, !.more = FALSE,
                               !.conn = "Resolving"]
    OBVIOUS
  <1>5. PICK b : b = [s EXCEPT !.loginTimer = FALSE, !.timers = {}, !.poll = FALSE,
                               !.scheduled = FALSE, !.more = FALSE, !.asked = FALSE,
                               !.block = FALSE, !.conn = "Connecting",
                               !.sock = "Connecting"]
    OBVIOUS
  <1>6. r \in {a, b}
    <2>1. a = [x EXCEPT !.conn = "Resolving"]
      BY <1>0, <1>2, <1>4 DEF Guis
    <2>2. b = [Unlinked(x) EXCEPT !.conn = "Connecting", !.sock = "Connecting"]
      BY <1>0, <1>2, <1>5 DEF Guis, Unlinked
    <2>3. ResolveAndConnect(s) = {[x EXCEPT !.conn = "Resolving"],
             [Unlinked(x) EXCEPT !.conn = "Connecting", !.sock = "Connecting"]}
      BY <1>1, <1>3 DEF ResolveAndConnect
    <2> QED BY <2>1, <2>2, <2>3
  <1>7. a \in Guis /\ b \in Guis
    BY <1>0, <1>4, <1>5, GuiSet DEF ConnStates, SockStates
  <1>8. RoomFrame(s, a) /\ RoomFrame(s, b)
    BY <1>0, <1>4, <1>5 DEF Guis, RoomFrame
  <1>9. /\ a.sock = s.sock /\ a.asked = s.asked /\ a.conn = "Resolving"
        /\ a.attempt = s.attempt /\ a.logout = s.logout /\ a.timers = {}
    BY <1>0, <1>4 DEF Guis
  <1>10. /\ b.sock = "Connecting" /\ b.asked = FALSE /\ b.conn = "Connecting"
         /\ b.attempt = s.attempt /\ b.logout = s.logout /\ b.timers = {}
    BY <1>0, <1>5 DEF Guis
  <1>11. /\ a.recovery = s.recovery /\ a.want = s.want /\ a.was = s.was
         /\ a.resume = s.resume /\ a.quit = s.quit
    BY <1>0, <1>4 DEF Guis
  <1>12. /\ b.recovery = s.recovery /\ b.want = s.want /\ b.was = s.was
         /\ b.resume = s.resume /\ b.quit = s.quit
    BY <1>0, <1>5 DEF Guis
  <1>13. ~Live(a) /\ ~Live(b)
    BY <1>8, LiveJob DEF RoomFrame
  <1>14. /\ LinkSound(a) /\ RetrySound(a) /\ ResolveSound(a)
         /\ LinkSound(b) /\ RetrySound(b) /\ ResolveSound(b)
    BY <1>9, <1>10, <1>13, SoundFields
       DEF LinkSound, RetrySound, ResolveSound, Up, Linking
  <1>15. RecoverySound(a) /\ RecoverySound(b) /\ QuitSound(a) /\ QuitSound(b)
    BY <1>8, <1>11, <1>12, SoundFields DEF RoomFrame, RecoverySound, QuitSound
  <1>16. Sound(a)
    BY <1>7, <1>8, <1>9, <1>11, <1>14, <1>15, LinkStep
  <1>17. Sound(b)
    <2>1. JobSound(b.job) /\ RoomSound(b)
      BY <1>8, SoundFields, LiveJob DEF RoomFrame, RoomSound
    <2>2. PhaseSound(b) /\ LogoutSound(b)
      BY <1>8, <1>10, <1>12, SoundFields, LiveJob
         DEF RoomFrame, PhaseSound, LogoutSound, Up
    <2> QED BY <1>7, <1>14, <1>15, <2>1, <2>2 DEF Sound, Firm, Base
  <1> QED BY <1>6, <1>9, <1>10, <1>16, <1>17

\* handleConnectionAttemptExhausted keeps the invariant: it ends the attempt of
\* a recovery, or schedules a retry.
LEMMA ExhaustedSound ==
  ASSUME NEW s, Sound(s), s.sock = "Off" \/ s.conn = "Resolving",
         NEW t, t = Exhausted(s)
  PROVE  Sound(t) /\ t.sock = s.sock
  <1>0. s \in Guis
    BY SoundFields
  <1>1. PICK x : x = [s EXCEPT !.conn = "Idle"]
    OBVIOUS
  <1>2. x \in Guis
    BY <1>0, <1>1, GuiSet DEF ConnStates
  <1>3. RoomFrame(s, x) /\ PlanFrame(s, x)
    BY <1>0, <1>1 DEF Guis, RoomFrame, PlanFrame
  <1>4. /\ x.sock = s.sock /\ x.asked = s.asked /\ x.conn = "Idle"
        /\ x.attempt = s.attempt /\ x.logout = s.logout /\ x.timers = s.timers
        /\ x.attempts = s.attempts
    BY <1>0, <1>1 DEF Guis
  <1>5. Eases(s, x)
    BY <1>2, <1>3, <1>4 DEF PlanFrame, Eases, Drops
  <1>6. Sound(x)
    BY <1>5, EaseSound
  <1>7. CASE s.attempt
    <2>1. PICK y : y = [x EXCEPT !.attempt = FALSE, !.login = FALSE, !.want = FALSE,
                                 !.scheduled = FALSE]
      OBVIOUS
    <2>2. y \in Guis
      BY <1>2, <2>1, GuiSet
    <2>3. RoomFrame(x, y)
      BY <1>2, <2>1 DEF Guis, RoomFrame
    <2>4. /\ y.sock = x.sock /\ y.asked = x.asked /\ y.conn = x.conn
          /\ y.attempt = FALSE /\ y.logout = x.logout /\ y.timers = x.timers
          /\ y.attempts = x.attempts
      BY <1>2, <2>1 DEF Guis
    <2>5. /\ y.recovery = x.recovery /\ y.want = FALSE /\ y.was = x.was
          /\ y.resume = x.resume /\ y.loginTimer = x.loginTimer /\ y.named = x.named
          /\ y.quit = x.quit
      BY <1>2, <2>1 DEF Guis
    <2>6. Eases(x, y)
      BY <1>4, <2>2, <2>3, <2>4, <2>5 DEF Eases, Drops
    <2>7. t = y
      BY <1>1, <1>7, <2>1 DEF Exhausted
    <2> QED BY <1>4, <1>6, <2>4, <2>6, <2>7, EaseSound
  <1>8. CASE ~s.attempt
    <2>0. t.sock = s.sock
      BY <1>1, <1>2, <1>4, <1>8, ScheduleLink DEF Exhausted
    <2>1. t = Schedule(x)
      BY <1>1, <1>8 DEF Exhausted
    <2>2. CASE s.sock = "Off"
      BY <1>4, <1>6, <2>0, <2>1, <2>2, ScheduleSound
    <2>3. CASE s.sock # "Off"
      <3>1. ~x.want
        BY <1>3, <1>8, <2>3, SoundFields DEF PlanFrame, ResolveSound
      <3> QED BY <1>6, <2>0, <2>1, <3>1 DEF Schedule
    <2> QED BY <2>2, <2>3
  <1> QED BY <1>7, <1>8

-----------------------------------------------------------------------------
(* A request for a room *)

\* setRoomOperationPending(true) starts an operation where the tracker is idle.
LEMMA PendingOn ==
  ASSUME NEW s \in Guis, NEW t, t = SetPending(s, TRUE)
  PROVE  /\ t \in Guis /\ LinkFrame(s, t) /\ PlanFrame(s, t)
         /\ t.job = s.job /\ t.op = TRUE /\ t.readiness = s.readiness
         /\ t.ready = s.ready /\ t.tun = s.tun /\ t.room = s.room
         /\ s.phase = "Idle" => t.phase = "WaitingServer" /\ t.late = FALSE
         /\ s.phase # "Idle" => t.phase = s.phase /\ t.late = s.late
  <1>1. PICK x : x = [s EXCEPT !.phase = "WaitingServer", !.late = FALSE]
    OBVIOUS
  <1>2. x \in Guis
    BY <1>1, GuiSet DEF Phases
  <1>3. LinkFrame(s, x) /\ PlanFrame(s, x)
    BY <1>1 DEF Guis, LinkFrame, PlanFrame
  <1>4. /\ x.job = s.job /\ x.readiness = s.readiness /\ x.ready = s.ready
        /\ x.tun = s.tun /\ x.room = s.room /\ x.phase = "WaitingServer"
        /\ x.late = FALSE
    BY <1>1 DEF Guis
  <1>5. t = IF s.phase = "Idle" THEN [x EXCEPT !.op = TRUE] ELSE [s EXCEPT !.op = TRUE]
    BY <1>1 DEF SetPending
  <1>6. CASE s.phase = "Idle"
    <2>1. OpOnly(x, t) /\ t.op = TRUE
      BY <1>2, <1>5, <1>6, SetOp
    <2> QED BY <1>3, <1>4, <1>6, <2>1, ZenonT(60) DEF OpOnly, LinkFrame, PlanFrame
  <1>7. CASE s.phase # "Idle"
    <2>1. OpOnly(s, t) /\ t.op = TRUE
      BY <1>5, <1>7, SetOp
    <2> QED BY <1>7, <2>1 DEF OpOnly
  <1> QED BY <1>6, <1>7

\* setRoomOperationPending(true) keeps the invariant in a session,
LEMMA PendingOnSound ==
  ASSUME NEW s, Sound(s), s.sock = "LoggedIn", NEW t, t = SetPending(s, TRUE)
  PROVE  Sound(t) /\ LinkFrame(s, t) /\ PlanFrame(s, t)
  <1>1. /\ t \in Guis /\ LinkFrame(s, t) /\ PlanFrame(s, t)
        /\ t.job = s.job /\ t.op = TRUE /\ t.readiness = s.readiness
        /\ t.ready = s.ready /\ t.tun = s.tun /\ t.room = s.room
        /\ s.phase = "Idle" => t.phase = "WaitingServer" /\ t.late = FALSE
        /\ s.phase # "Idle" => t.phase = s.phase /\ t.late = s.late
    BY SoundFields, PendingOn, ZenonT(60)
  <1>2. JobSound(t.job) /\ RoomSound(t)
    BY <1>1, SoundFields, LiveJob DEF RoomSound
  <1>3. LinkSound(t) /\ RetrySound(t) /\ ResolveSound(t)
    BY <1>1, SoundFields, LiveJob
       DEF LinkFrame, PlanFrame, LinkSound, RetrySound, ResolveSound
  <1>4. PhaseSound(t)
    BY <1>1, SoundFields, LiveJob DEF LinkFrame, PhaseSound
  <1>5. LogoutSound(t) /\ RecoverySound(t)
    <2>1. LogoutSound(s) /\ RecoverySound(s)
      BY SoundFields
    <2>2. HasTask(t) <=> HasTask(s)
      BY <1>1, LiveJob
    <2>3. LogoutSound(t)
      BY <1>1, <2>1, <2>2 DEF LinkFrame, PlanFrame, LogoutSound
    <2>4. RecoverySound(t)
      BY <1>1, <2>1 DEF PlanFrame, RecoverySound
    <2> QED BY <2>3, <2>4
  <1>6. QuitSound(t)
    <2>1. QuitSound(s)
      BY SoundFields
    <2>2. /\ t.quit = s.quit /\ t.sock = s.sock /\ t.conn = s.conn
          /\ t.timers = s.timers /\ t.loginTimer = s.loginTimer
          /\ t.want = s.want /\ t.named = s.named /\ t.job = s.job
          /\ t.ready = s.ready /\ t.readiness = s.readiness
      BY <1>1 DEF LinkFrame, PlanFrame
    <2> QED BY <2>1, <2>2 DEF QuitSound, Quiet
  <1> QED BY <1>1, <1>2, <1>3, <1>4, <1>5, <1>6 DEF Sound, Firm, Base

\* and setRoomOperationPending(false) when no setup is pending.
LEMMA PendingOffSound ==
  ASSUME NEW s, Sound(s), ~s.readiness, NEW t, t = SetPending(s, FALSE)
  PROVE  Sound(t) /\ LinkFrame(s, t) /\ PlanFrame(s, t)
  <1>1. OpOnly(s, t)
    BY SoundFields, PendingOff
  <1>2. /\ t \in Guis /\ LinkFrame(s, t) /\ PlanFrame(s, t)
        /\ t.job = s.job /\ t.readiness = s.readiness
        /\ t.ready = s.ready /\ t.tun = s.tun /\ t.room = s.room
        /\ t.phase = s.phase /\ t.late = s.late
    BY <1>1 DEF OpOnly
  <1>3. JobSound(t.job) /\ RoomSound(t)
    BY <1>2, SoundFields, LiveJob DEF RoomSound
  <1>a. /\ LinkSound(s) /\ RetrySound(s) /\ ResolveSound(s)
        /\ PhaseSound(s) /\ LogoutSound(s) /\ RecoverySound(s)
    BY SoundFields
  <1>b. (HasTask(t) <=> HasTask(s)) /\ (Live(t) <=> Live(s))
    BY <1>2, LiveJob
  <1>4. LinkSound(t) /\ RetrySound(t) /\ ResolveSound(t)
    BY <1>2, <1>a, <1>b
       DEF LinkFrame, PlanFrame, LinkSound, RetrySound, ResolveSound
  <1>5. PhaseSound(t) /\ LogoutSound(t) /\ RecoverySound(t)
    <2>1. PhaseSound(t)
      BY <1>2, <1>a, <1>b DEF LinkFrame, PhaseSound
    <2>2. LogoutSound(t)
      BY <1>2, <1>a, <1>b DEF LinkFrame, PlanFrame, LogoutSound
    <2>3. RecoverySound(t)
      BY <1>2, <1>a DEF PlanFrame, RecoverySound
    <2> QED BY <2>1, <2>2, <2>3
  <1>6. QuitSound(t)
    BY <1>2, SoundFields DEF LinkFrame, PlanFrame, QuitSound, Quiet
  <1> QED BY <1>2, <1>3, <1>4, <1>5, <1>6 DEF Sound, Firm, Base

\* The request is sent by SignalClient.
LEMMA AskedSound ==
  ASSUME NEW s, Sound(s), s.sock = "LoggedIn",
         NEW t, t = [s EXCEPT !.asked = TRUE, !.block = FALSE]
  PROVE  Sound(t) /\ t.sock = "LoggedIn"
  <1>0. s \in Guis
    BY SoundFields
  <1>1. t \in Guis
    BY <1>0, GuiSet
  <1>2. RoomFrame(s, t) /\ PlanFrame(s, t)
    BY <1>0 DEF Guis, RoomFrame, PlanFrame
  <1>3. /\ t.sock = s.sock /\ t.conn = s.conn
        /\ t.attempt = s.attempt /\ t.logout = s.logout /\ t.timers = s.timers
        /\ t.attempts = s.attempts
    BY <1>0 DEF Guis
  <1>4. LinkSound(t) /\ RetrySound(t) /\ ResolveSound(t)
    BY <1>2, <1>3, SoundFields, LiveJob
       DEF RoomFrame, PlanFrame, LinkSound, RetrySound, ResolveSound
  <1>5. RecoverySound(t) /\ QuitSound(t)
    BY <1>2, <1>3, SoundFields
       DEF RoomFrame, PlanFrame, RecoverySound, QuitSound, Quiet
  <1> QED BY <1>1, <1>2, <1>3, <1>4, <1>5, LinkStep DEF PlanFrame

\* createRoom and joinRoom keep the invariant.
LEMMA RequestRoomSound ==
  ASSUME NEW s, Sound(s), NEW t, t = RequestRoom(s)
  PROVE  Sound(t) /\ t.sock = s.sock
  <1>0. s \in Guis
    BY SoundFields
  <1>1. CASE s.sock # "LoggedIn" \/ s.room \/ s.asked \/ Busy(s)
    BY <1>1 DEF RequestRoom
  <1>2. CASE ~(s.sock # "LoggedIn" \/ s.room \/ s.asked \/ Busy(s))
    <2>1. PICK x : x = [s EXCEPT !.blocked = FALSE]
      OBVIOUS
    <2>2. x \in Guis
      BY <1>0, <2>1, GuiSet
    <2>3. RoomFrame(s, x) /\ LinkFrame(s, x) /\ PlanFrame(s, x)
      BY <1>0, <2>1 DEF Guis, RoomFrame, LinkFrame, PlanFrame
    <2>4. Sound(x) /\ x.sock = "LoggedIn"
      BY <1>2, <2>2, <2>3, SameSound DEF LinkFrame
    <2>5. PICK y : y = SetPending(x, TRUE)
      OBVIOUS
    <2>6. Sound(y) /\ y.sock = "LoggedIn"
      BY <2>4, <2>5, PendingOnSound DEF LinkFrame
    <2>7. t = [y EXCEPT !.asked = TRUE, !.block = FALSE]
      BY <1>2, <2>1, <2>5 DEF RequestRoom
    <2> QED BY <1>2, <2>6, <2>7, AskedSound
  <1> QED BY <1>1, <1>2

\* A resumed lease asks for its room and keeps the invariant.
LEMMA ResumeRoomSound ==
  ASSUME NEW s, Sound(s), s.sock = "LoggedIn", ~s.recovery,
         NEW t, t = ResumeRoom(s)
  PROVE  Sound(t)
  <1>0. s \in Guis
    BY SoundFields
  <1>1. PICK x : x = [s EXCEPT !.resume = TRUE]
    OBVIOUS
  <1>2. x \in Guis
    BY <1>0, <1>1, GuiSet
  <1>3. RoomFrame(s, x) /\ LinkFrame(s, x)
    BY <1>0, <1>1 DEF Guis, RoomFrame, LinkFrame
  <1>4. /\ x.recovery = s.recovery /\ x.want = s.want /\ x.was = s.was
        /\ x.loginTimer = s.loginTimer /\ x.named = s.named /\ x.quit = s.quit
    BY <1>0, <1>1 DEF Guis
  <1>5. LinkSound(x) /\ RetrySound(x) /\ ResolveSound(x)
    BY <1>3, SoundFields, LiveJob
       DEF RoomFrame, LinkFrame, LinkSound, RetrySound, ResolveSound, Linking
  <1>6. RecoverySound(x) /\ QuitSound(x)
    BY <1>3, <1>4, SoundFields
       DEF RoomFrame, LinkFrame, RecoverySound, QuitSound, Quiet
  <1>7. Sound(x) /\ x.sock = "LoggedIn"
    BY <1>2, <1>3, <1>4, <1>5, <1>6, LinkStep DEF LinkFrame
  <1>8. PICK y : y = SetPending(x, TRUE)
    OBVIOUS
  <1>9. Sound(y) /\ y.sock = "LoggedIn"
    BY <1>7, <1>8, PendingOnSound DEF LinkFrame
  <1>10. PICK z : z = [y EXCEPT !.asked = TRUE, !.block = FALSE]
    OBVIOUS
  <1>11. Sound(z) /\ z.sock = "LoggedIn"
    BY <1>9, <1>10, AskedSound
  <1>12. t = SetPending(z, TRUE)
    BY <1>1, <1>8, <1>10 DEF ResumeRoom
  <1> QED BY <1>11, <1>12, PendingOnSound

-----------------------------------------------------------------------------
(* Errors *)

\* A room that is given up keeps the invariant and the connection.
LEMMA GiveUpRoomSound ==
  ASSUME NEW s, Sound(s), NEW t, t = ResetRoomRuntimeState(TeardownTun(s))
  PROVE  Sound(t) /\ LinkFrame(s, t) /\ t.resume = s.resume /\ t.quit = s.quit
  <1>1. PICK y : y = TeardownTun(s)
    OBVIOUS
  <1>2. Sound(y) /\ TearsDown(s, y) /\ Torn(y) /\ y \in Guis /\ y.ready = FALSE
    <2>1. Sound(y) /\ TearsDown(s, y)
      BY <1>1, TearSound
    <2> QED BY <2>1 DEF TearsDown, Torn
  <1>3. t = ResetRoomRuntimeState(y)
    BY <1>1
  <1>4. Sound(t)
    BY <1>2, <1>3, ResetSound
  <1>5. LinkFrame(y, t) /\ t.resume = y.resume /\ t.quit = y.quit
    BY <1>2, <1>3, ResetShape
  <1> QED BY <1>2, <1>4, <1>5 DEF TearsDown, LinkFrame, PlanFrame

\* The slot of fatalAuthError keeps the invariant and drops the resume.
LEMMA FatalAuthErrorSound ==
  ASSUME NEW s, Sound(s), NEW t, t = FatalAuthError(s)
  PROVE  Sound(t) /\ t.sock = s.sock /\ ~t.resume
  <1>0. s \in Guis
    BY SoundFields
  <1>1. PICK x : x = [s EXCEPT !.blocked = TRUE, !.want = FALSE, !.resume = FALSE,
                               !.was = FALSE, !.scheduled = FALSE,
                               !.loginTimer = FALSE, !.timers = {}, !.poll = FALSE]
    OBVIOUS
  <1>2. x \in Guis
    BY <1>0, <1>1, GuiSet
  <1>3. RoomFrame(s, x)
    BY <1>0, <1>1 DEF Guis, RoomFrame
  <1>4. /\ x.sock = s.sock /\ x.asked = s.asked /\ x.conn = s.conn
        /\ x.attempt = s.attempt /\ x.logout = s.logout /\ x.timers = {}
        /\ x.attempts = s.attempts
    BY <1>0, <1>1 DEF Guis
  <1>5. /\ x.recovery = s.recovery /\ x.want = FALSE /\ x.was = FALSE
        /\ x.resume = FALSE /\ x.loginTimer = FALSE /\ x.named = s.named
        /\ x.quit = s.quit
    BY <1>0, <1>1 DEF Guis
  <1>6. Eases(s, x)
    BY <1>2, <1>3, <1>4, <1>5 DEF Eases, Drops
  <1>7. Sound(x)
    BY <1>6, EaseSound
  <1>8. t = IF s.readiness \/ s.op THEN ResetRoomRuntimeState(TeardownTun(x)) ELSE x
    <2>1. x = NewGeneration([s EXCEPT !.blocked = TRUE, !.want = FALSE,
                !.resume = FALSE, !.was = FALSE, !.scheduled = FALSE])
      BY <1>0, <1>1 DEF Guis, NewGeneration
    <2> QED BY <2>1 DEF FatalAuthError
  <1>9. CASE s.readiness \/ s.op
    <2>1. t = ResetRoomRuntimeState(TeardownTun(x))
      BY <1>8, <1>9
    <2> QED BY <1>4, <1>5, <1>7, <2>1, GiveUpRoomSound DEF LinkFrame
  <1>10. CASE ~(s.readiness \/ s.op)
    BY <1>4, <1>5, <1>7, <1>8, <1>10
  <1> QED BY <1>9, <1>10

\* A posted call of disconnectFromServer is no part of the invariant.
LEMMA DeferSound ==
  ASSUME NEW s, Sound(s), NEW b \in BOOLEAN, NEW r, r = [s EXCEPT !.deferred = b]
  PROVE  Sound(r) /\ r.sock = s.sock
  <1>1. s \in Guis
    BY SoundFields
  <1>2. r \in Guis
    BY <1>1, GuiSet
  <1>3. RoomFrame(s, r) /\ LinkFrame(s, r) /\ PlanFrame(s, r)
    BY <1>1 DEF Guis, RoomFrame, LinkFrame, PlanFrame
  <1> QED BY <1>2, <1>3, SameSound DEF LinkFrame

\* The slot of serverError keeps the invariant, and logs nobody in.
LEMMA ServerErrorSound ==
  ASSUME NEW s, Sound(s), s.quit = "No" \/ ~s.resume, NEW r, r = ServerError(s)
  PROVE  Sound(r) /\ (r.sock = "LoggedIn" => s.sock = "LoggedIn")
  <1>0. s \in Guis /\ s.asked \in BOOLEAN
    BY SoundFields, GuiFields
  <1>1. PICK t : t = IF s.readiness THEN s ELSE SetPending(s, s.asked)
    OBVIOUS
  <1>2. Sound(t) /\ LinkFrame(s, t) /\ PlanFrame(s, t) /\ t \in Guis
    <2>1. CASE s.readiness
      BY <1>1, <2>1, SoundFields DEF LinkFrame, PlanFrame
    <2>2. CASE ~s.readiness /\ s.asked
      <3>1. s.sock = "LoggedIn"
        BY <2>2, SoundFields DEF LinkSound
      <3>2. t = SetPending(s, TRUE)
        BY <1>0, <1>1, <2>2
      <3> QED BY <3>1, <3>2, PendingOnSound, SoundFields
    <2>3. CASE ~s.readiness /\ ~s.asked
      <3>1. t = SetPending(s, FALSE)
        BY <1>0, <1>1, <2>3
      <3> QED BY <2>3, <3>1, PendingOffSound, SoundFields
    <2> QED BY <2>1, <2>2, <2>3
  <1>3. PICK u : u = [t EXCEPT !.resume = FALSE]
    OBVIOUS
  <1>4. u \in Guis
    BY <1>2, <1>3, GuiSet
  <1>5. RoomFrame(t, u) /\ LinkFrame(t, u)
    BY <1>2, <1>3 DEF Guis, RoomFrame, LinkFrame
  <1>6. /\ u.recovery = t.recovery /\ u.want = t.want /\ u.was = t.was
        /\ u.resume = FALSE /\ u.loginTimer = t.loginTimer /\ u.named = t.named
        /\ u.quit = t.quit
    BY <1>2, <1>3 DEF Guis
  <1>7. Eases(t, u)
    BY <1>4, <1>5, <1>6 DEF LinkFrame, Eases, Drops
  <1>8. Sound(u)
    BY <1>2, <1>7, EaseSound
  <1>9. r = IF s.phase = "WaitingServer" /\ ~s.blocked THEN BeginRoomRecovery(s)
            ELSE IF s.conn = "Connecting" /\ s.sock # "LoggedIn"
            THEN Schedule([Disconnect(t) EXCEPT !.conn = "Idle"])
            ELSE IF t.resume /\ t.was THEN [u EXCEPT !.want = TRUE]
            ELSE IF t.sock = "LoggedIn" THEN u
            ELSE IF t.want THEN Disconnect(u)
            ELSE [u EXCEPT !.deferred = TRUE]
    BY <1>1, <1>3 DEF ServerError
  <1>10. CASE r = BeginRoomRecovery(s)
    BY <1>10, RecoverySoundly
  <1>11. CASE r = Schedule([Disconnect(t) EXCEPT !.conn = "Idle"])
    <2>1. PICK d : d = Disconnect(t)
      OBVIOUS
    <2>2. Sound(d) /\ d.sock = "Off" /\ d \in Guis
      BY <1>2, <2>1, DisconnectSound, SoundFields
    <2>3. PICK x : x = [d EXCEPT !.conn = "Idle"]
      OBVIOUS
    <2>4. x \in Guis
      BY <2>2, <2>3, GuiSet DEF ConnStates
    <2>5. RoomFrame(d, x) /\ PlanFrame(d, x)
      BY <2>2, <2>3 DEF Guis, RoomFrame, PlanFrame
    <2>6. /\ x.sock = d.sock /\ x.asked = d.asked /\ x.conn = "Idle"
          /\ x.attempt = d.attempt /\ x.logout = d.logout /\ x.timers = d.timers
          /\ x.attempts = d.attempts
      BY <2>2, <2>3 DEF Guis
    <2>7. Eases(d, x)
      BY <2>4, <2>5, <2>6 DEF PlanFrame, Eases, Drops
    <2>8. Sound(x)
      BY <2>2, <2>7, EaseSound
    <2>9. r = Schedule(x)
      BY <1>11, <2>1, <2>3
    <2>10. r.sock = "Off"
      BY <2>2, <2>4, <2>6, <2>9, ScheduleLink
    <2> QED BY <2>2, <2>6, <2>8, <2>9, <2>10, ScheduleSound
  <1>12. CASE t.resume /\ t.was /\ r = [u EXCEPT !.want = TRUE]
    <2>1. PICK x : x = [u EXCEPT !.want = TRUE]
      OBVIOUS
    <2>2. x \in Guis
      BY <1>4, <2>1, GuiSet
    <2>3. RoomFrame(u, x) /\ LinkFrame(u, x)
      BY <1>4, <2>1 DEF Guis, RoomFrame, LinkFrame
    <2>4. /\ x.recovery = u.recovery /\ x.was = u.was /\ x.resume = u.resume
          /\ x.loginTimer = u.loginTimer /\ x.named = u.named /\ x.quit = u.quit
      BY <1>4, <2>1 DEF Guis
    <2>5. x.recovery = FALSE /\ x.quit = "No"
      <3>1. t.recovery = FALSE
        BY <1>2, <1>12, SoundFields, GuiFields DEF RecoverySound
      <3>2. t.quit = "No"
        BY <1>2, <1>12 DEF PlanFrame
      <3> QED BY <1>6, <2>4, <3>1, <3>2
    <2>6. t.conn = "Resolving" /\ t.sock # "Off" => t.attempt
      BY <1>2, <1>12, SoundFields DEF ResolveSound
    <2>7. LinkSound(x) /\ RetrySound(x)
      BY <1>8, <2>3, SoundFields, LiveJob
         DEF RoomFrame, LinkFrame, LinkSound, RetrySound
    <2>8. ResolveSound(x)
      BY <1>5, <2>3, <2>6 DEF LinkFrame, ResolveSound
    <2>9. RecoverySound(x) /\ QuitSound(x)
      BY <2>5 DEF RecoverySound, QuitSound
    <2>10. Sound(x)
      BY <1>8, <2>2, <2>3, <2>4, <2>7, <2>8, <2>9, LinkStep DEF LinkFrame
    <2>11. x.sock = s.sock
      BY <1>2, <1>5, <2>3 DEF LinkFrame
    <2> QED BY <1>12, <2>1, <2>10, <2>11
  <1>13. CASE r = u
    BY <1>2, <1>5, <1>8, <1>13 DEF LinkFrame
  <1>14. CASE r = Disconnect(u)
    BY <1>8, <1>14, DisconnectSound, SoundFields
  <1>15. CASE r = [u EXCEPT !.deferred = TRUE]
    <2>1. u.sock = s.sock
      BY <1>2, <1>5 DEF LinkFrame
    <2> QED BY <1>8, <1>15, <2>1, DeferSound
  <1> QED BY <1>9, <1>10, <1>11, <1>12, <1>13, <1>14, <1>15

-----------------------------------------------------------------------------
(* beginRoomReadiness and completeRoomReadiness *)

\* beginRoomReadiness keeps the invariant: the task it starts is the one of the
\* setup that is pending, and a session that has none to start rolls back or
\* recovers.
LEMMA BeginReadinessSound ==
  ASSUME NEW s, Sound(s), s.sock = "LoggedIn", s.logout = "No", ~s.recovery,
         ~s.readiness, s.room, NEW r \in BeginRoomReadiness(s)
  PROVE  Sound(r)
  <1>0. s \in Guis /\ s.quit = "No"
    BY SoundFields DEF LogoutSound
  <1>1. CASE s.phase # "WaitingServer" \/ s.late
    BY <1>1, RecoverySoundly DEF BeginRoomReadiness
  <1>2. CASE ~(s.phase # "WaitingServer" \/ s.late)
    <2>1. PICK x : x = [s EXCEPT !.phase = "Preparing", !.late = FALSE,
                                 !.ready = FALSE, !.readiness = TRUE]
      OBVIOUS
    <2>2. x \in Guis
      BY <1>0, <2>1, GuiSet DEF Phases
    <2>3. LinkFrame(s, x) /\ PlanFrame(s, x)
      BY <1>0, <2>1 DEF Guis, LinkFrame, PlanFrame
    <2>4. /\ x.job = s.job /\ x.phase = "Preparing" /\ x.late = FALSE
          /\ x.ready = FALSE /\ x.readiness = TRUE /\ x.tun = s.tun
          /\ x.room = s.room
      BY <1>0, <2>1 DEF Guis
    <2>5. PICK y : y = SetPending(x, TRUE)
      OBVIOUS
    <2>6. /\ y \in Guis /\ LinkFrame(x, y) /\ PlanFrame(x, y)
          /\ y.job = x.job /\ y.op = TRUE /\ y.readiness = x.readiness
          /\ y.ready = x.ready /\ y.tun = x.tun /\ y.room = x.room
          /\ y.phase = x.phase /\ y.late = x.late
      BY <2>2, <2>4, <2>5, PendingOn, ZenonT(60)
    <2>7. PICK t : t = [y EXCEPT !.poll = TRUE]
      OBVIOUS
    <2>8. t \in Guis
      BY <2>6, <2>7, GuiSet
    <2>9. RoomFrame(y, t) /\ LinkFrame(y, t) /\ PlanFrame(y, t)
      BY <2>6, <2>7 DEF Guis, RoomFrame, LinkFrame, PlanFrame
    <2>10. LinkFrame(s, t) /\ PlanFrame(s, t)
      BY <2>3, <2>6, <2>9 DEF LinkFrame, PlanFrame
    <2>11. /\ t.job = s.job /\ t.phase = "Preparing" /\ t.late = FALSE
           /\ t.ready = FALSE /\ t.readiness = TRUE /\ t.tun = s.tun
           /\ t.room = s.room /\ t.op = TRUE
      BY <2>4, <2>6, <2>9 DEF RoomFrame
    <2>12. r \in {Rollback(t)} \cup
                   (IF HasTask(s) THEN {} ELSE {[t EXCEPT !.job = NewJob]})
      BY <1>2, <2>1, <2>5, <2>7 DEF BeginRoomReadiness
    <2>13. CASE r = Rollback(t)
      <3>1. JobSound(t.job) /\ LinkSound(t) /\ RetrySound(t)
        BY <2>10, <2>11, SoundFields, LiveJob DEF LinkFrame, LinkSound, RetrySound
      <3>2. QuitSound(t) /\ ~t.recovery /\ t.sock = "LoggedIn"
        BY <1>0, <2>10 DEF LinkFrame, PlanFrame, QuitSound
      <3>3. Base(t)
        BY <2>8, <3>1, <3>2 DEF Base
      <3>4. r = BeginRoomRecovery(t)
        BY <2>13, <3>2 DEF Rollback, Up
      <3> QED BY <3>2, <3>3, <3>4, BeginSound
    <2>14. CASE ~HasTask(s) /\ r = [t EXCEPT !.job = NewJob]
      <3>1. PICK j : j = NewJob
        OBVIOUS
      <3>2. /\ j \in Jobs /\ JobSound(j) /\ j.pc # "none" /\ ~j.cancel
        BY <3>1, NewJobSound
      <3>3. PICK u : u = [t EXCEPT !.job = j]
        OBVIOUS
      <3>4. u \in Guis
        BY <2>8, <3>2, <3>3, GuiSet
      <3>5. LinkFrame(t, u) /\ PlanFrame(t, u)
        BY <2>8, <3>3 DEF Guis, LinkFrame, PlanFrame
      <3>6. /\ u.job = j /\ u.phase = t.phase /\ u.late = t.late /\ u.op = t.op
            /\ u.readiness = t.readiness /\ u.ready = t.ready /\ u.tun = t.tun
            /\ u.room = t.room
        BY <2>8, <3>3 DEF Guis
      <3>7. s.tun = FALSE
        BY <1>0, <1>2, SoundFields, GuiFields DEF RoomSound
      <3>8. RoomSound(u)
        BY <2>11, <3>2, <3>6, <3>7 DEF RoomSound, HasTask
      <3>9. LinkFrame(s, u) /\ PlanFrame(s, u)
        BY <2>10, <3>5 DEF LinkFrame, PlanFrame
      <3>10. LinkSound(u) /\ ResolveSound(u)
        <4>1. LinkSound(s)
          BY SoundFields
        <4> QED BY <3>9, <4>1 DEF LinkFrame, LinkSound, ResolveSound, Linking
      <3>11. RetrySound(u)
        <4>1. RetrySound(s)
          BY SoundFields
        <4> QED BY <3>9, <4>1 DEF LinkFrame, RetrySound
      <3>12. PhaseSound(u) /\ LogoutSound(u)
        BY <1>0, <2>11, <3>6, <3>9 DEF LinkFrame, PlanFrame, PhaseSound, LogoutSound
      <3>13. RecoverySound(u) /\ QuitSound(u)
        BY <1>0, <3>9 DEF PlanFrame, RecoverySound, QuitSound
      <3>14. Sound(u)
        BY <3>2, <3>4, <3>6, <3>8, <3>10, <3>11, <3>12, <3>13 DEF Sound, Firm, Base
      <3> QED BY <2>14, <3>1, <3>3, <3>14
    <2> QED BY <2>12, <2>13, <2>14
  <1> QED BY <1>1, <1>2

\* The adapter is taken: the room is entered, or given up.
LEMMA TakenSound ==
  ASSUME NEW s, Sound(s), s.readiness, s.job.ready,
         NEW t, t = [s EXCEPT !.tun = TRUE]
  PROVE  Sound(CompleteRoomReadiness(t)) /\ Sound(Rollback(t))
  <1>0. s \in Guis
    BY SoundFields
  <1>1. /\ s.phase = "Preparing" /\ s.sock = "LoggedIn" /\ s.room /\ s.recovery = FALSE
        /\ s.quit = "No" /\ s.job.pc \in Lent /\ ~s.job.cancel
    <2>1. s.phase = "Preparing" /\ s.room /\ ~s.job.cancel
      BY SoundFields DEF RoomSound
    <2>2. s.sock = "LoggedIn"
      BY <2>1, SoundFields DEF PhaseSound, InRoomPhases
    <2>3. s.job.pc \in Lent
      BY <2>1, SoundFields DEF JobSound
    <2>4. s.recovery = FALSE /\ s.quit = "No"
      BY <1>0, SoundFields, GuiFields DEF RecoverySound, QuitSound, Quiet
    <2> QED BY <2>1, <2>2, <2>3, <2>4
  <1>2. t \in Guis
    BY <1>0, GuiSet
  <1>3. LinkFrame(s, t) /\ PlanFrame(s, t)
    BY <1>0 DEF Guis, LinkFrame, PlanFrame
  <1>4. /\ t.job = s.job /\ t.phase = s.phase /\ t.late = s.late /\ t.op = s.op
        /\ t.readiness = s.readiness /\ t.ready = s.ready /\ t.tun = TRUE
        /\ t.room = s.room
    BY <1>0 DEF Guis
  <1>5. Base(t) /\ ~t.recovery /\ t.sock = "LoggedIn"
    <2>1. JobSound(t.job) /\ LinkSound(t) /\ RetrySound(t)
      BY <1>3, <1>4, SoundFields, LiveJob DEF LinkFrame, LinkSound, RetrySound
    <2>2. QuitSound(t) /\ ~t.recovery /\ t.sock = "LoggedIn"
      BY <1>1, <1>3 DEF LinkFrame, PlanFrame, QuitSound
    <2> QED BY <1>2, <2>1, <2>2 DEF Base
  <1>6. Sound(BeginRoomRecovery(t))
    BY <1>5, BeginSound
  <1>7. Sound(Rollback(t))
    BY <1>5, <1>6 DEF Rollback, Up
  <1>8. CASE t.late \/ t.phase # "Preparing"
    BY <1>6, <1>7, <1>8 DEF CompleteRoomReadiness
  <1>9. CASE ~(t.late \/ t.phase # "Preparing")
    <2>1. PICK x : x = [t EXCEPT !.phase = "InRoom", !.readiness = FALSE,
                                 !.poll = FALSE, !.ready = TRUE]
      OBVIOUS
    <2>2. x \in Guis
      BY <1>2, <2>1, GuiSet DEF Phases
    <2>3. LinkFrame(t, x) /\ PlanFrame(t, x)
      BY <1>2, <2>1 DEF Guis, LinkFrame, PlanFrame
    <2>4. /\ x.job = t.job /\ x.phase = "InRoom" /\ x.late = t.late
          /\ x.readiness = FALSE /\ x.ready = TRUE /\ x.tun = t.tun /\ x.room = t.room
      BY <1>2, <2>1 DEF Guis
    <2>5. LinkFrame(s, x) /\ PlanFrame(s, x) /\ x.job = s.job /\ x.tun = TRUE
          /\ x.room = s.room /\ ~x.late
      BY <1>3, <1>4, <1>9, <2>3, <2>4 DEF LinkFrame, PlanFrame
    <2>6. JobSound(x.job) /\ RoomSound(x)
      BY <1>1, <2>4, <2>5, SoundFields DEF RoomSound
    <2>7. LinkSound(x) /\ RetrySound(x) /\ ResolveSound(x)
      BY <2>5, SoundFields, LiveJob
         DEF LinkFrame, PlanFrame, LinkSound, RetrySound, ResolveSound
    <2>8. PhaseSound(x) /\ LogoutSound(x) /\ RecoverySound(x) /\ QuitSound(x)
      BY <1>1, <2>4, <2>5
         DEF LinkFrame, PlanFrame, PhaseSound, LogoutSound, RecoverySound, QuitSound
    <2>9. Sound(x)
      BY <2>2, <2>6, <2>7, <2>8 DEF Sound, Firm, Base
    <2>10. Sound(SetPending(x, FALSE))
      BY <2>4, <2>9, PendingOffSound
    <2>11. CompleteRoomReadiness(t) = SetPending(x, FALSE)
      BY <1>9, <2>1 DEF CompleteRoomReadiness
    <2> QED BY <1>7, <2>10, <2>11
  <1> QED BY <1>8, <1>9

-----------------------------------------------------------------------------
(* pollRoomOperation *)

\* pollRoomOperation keeps the invariant and the socket.
LEMMA PolledSound ==
  ASSUME NEW s, Sound(s)
  PROVE  Sound(Polled(s)) /\ Polled(s).sock = s.sock
  <1>1. PICK a : a = IF s.ready /\ s.job.failed THEN RuntimeError(s) ELSE s
    OBVIOUS
  <1>2. Sound(a) /\ a.sock = s.sock
    BY <1>1, GiveUpRoomSound DEF RuntimeError, LinkFrame
  <1>3. PICK b : b = IF Overdue(a) THEN BeginRoomRecovery(a) ELSE a
    OBVIOUS
  <1>4. Sound(b) /\ b \in Guis /\ b.sock = s.sock
    BY <1>2, <1>3, RecoverySoundly, SoundFields
  <1>5. PICK c : c = IF Done(b) /\ ~b.ready /\ ~b.readiness THEN [b EXCEPT !.job = NoJob]
                     ELSE b
    OBVIOUS
  <1>6. PICK d : d = IF c.phase = "CleaningUp" /\ ~HasTask(c) /\ c.logout = "No"
                     THEN SetPending([c EXCEPT !.phase = "Idle"], FALSE) ELSE c
    OBVIOUS
  <1>7. Polled(s) = MaybeFinishRoomRecovery(d)
    BY <1>1, <1>3, <1>5, <1>6 DEF Polled
  <1>8. Sound(d) /\ d.sock = s.sock
    <2>1. CASE ~(Done(b) /\ ~b.ready /\ ~b.readiness)
      <3>1. c = b /\ d = b
        BY <1>4, <1>5, <1>6, <2>1, SoundFields DEF LogoutSound
      <3> QED BY <1>4, <3>1
    <2>2. CASE Done(b) /\ ~b.ready /\ ~b.readiness
      <3>1. PICK j : j = NoJob
        OBVIOUS
      <3>2. j \in Jobs /\ JobSound(j) /\ j.pc = "none" /\ ~j.adapter
        BY <3>1, NoJobSound
      <3>3. c = [b EXCEPT !.job = j]
        BY <1>5, <2>2, <3>1
      <3>4. c \in Guis
        BY <1>4, <3>2, <3>3, GuiSet
      <3>5. LinkFrame(b, c) /\ PlanFrame(b, c)
        BY <1>4, <3>3 DEF Guis, LinkFrame, PlanFrame
      <3>6. /\ c.job = j /\ c.phase = b.phase /\ c.late = b.late /\ c.op = b.op
            /\ c.readiness = b.readiness /\ c.ready = b.ready /\ c.tun = b.tun
            /\ c.room = b.room
        BY <1>4, <3>3 DEF Guis
      <3>7. ~HasTask(c) /\ ~Live(c)
        BY <3>2, <3>6 DEF HasTask, Live
      <3>8. RoomSound(c)
        BY <1>4, <2>2, <3>6, <3>7, SoundFields DEF RoomSound
      <3>9. LinkSound(c) /\ RetrySound(c) /\ ResolveSound(c)
        BY <1>4, <3>5, <3>7, SoundFields
           DEF LinkFrame, PlanFrame, LinkSound, RetrySound, ResolveSound
      <3>10. RecoverySound(c) /\ QuitSound(c)
        BY <1>4, <3>2, <3>5, <3>6, SoundFields
           DEF LinkFrame, PlanFrame, RecoverySound, QuitSound, Quiet
      <3>11. CASE ~(c.phase = "CleaningUp" /\ c.logout = "No")
        <4>1. d = c
          BY <1>6, <3>11
        <4>2. PhaseSound(c) /\ LogoutSound(c)
          BY <1>4, <3>5, <3>6, <3>11, SoundFields
             DEF LinkFrame, PlanFrame, PhaseSound, LogoutSound
        <4>3. c.sock = s.sock
          BY <1>4, <3>5 DEF LinkFrame
        <4> QED BY <3>2, <3>4, <3>6, <3>8, <3>9, <3>10, <4>1, <4>2, <4>3
                DEF Sound, Firm, Base
      <3>12. CASE c.phase = "CleaningUp" /\ c.logout = "No"
        <4>1. PICK x : x = [c EXCEPT !.phase = "Idle"]
          OBVIOUS
        <4>2. x \in Guis
          BY <3>4, <4>1, GuiSet DEF Phases
        <4>3. LinkFrame(c, x) /\ PlanFrame(c, x)
          BY <3>4, <4>1 DEF Guis, LinkFrame, PlanFrame
        <4>4. /\ x.job = c.job /\ x.phase = "Idle" /\ x.late = c.late
              /\ x.readiness = c.readiness /\ x.ready = c.ready /\ x.tun = c.tun
              /\ x.room = c.room
          BY <3>4, <4>1 DEF Guis
        <4>5. JobSound(x.job) /\ RoomSound(x)
          BY <2>2, <3>2, <3>6, <3>7, <3>8, <3>12, <4>4, LiveJob DEF RoomSound
        <4>6. LinkSound(x) /\ RetrySound(x) /\ ResolveSound(x)
          BY <3>9, <4>3, <4>4, LiveJob
             DEF LinkFrame, PlanFrame, LinkSound, RetrySound, ResolveSound
        <4>7. RecoverySound(x) /\ QuitSound(x)
          BY <3>10, <4>3, <4>4
             DEF LinkFrame, PlanFrame, RecoverySound, QuitSound, Quiet
        <4>8. PhaseSound(x)
          BY <4>4 DEF PhaseSound, InRoomPhases
        <4>9. LogoutSound(x)
          <5>1. LogoutSound(b)
            BY <1>4, SoundFields
          <5> QED BY <3>5, <4>3, <4>4, <5>1 DEF LinkFrame, PlanFrame, LogoutSound
        <4>10. Sound(x)
          BY <4>2, <4>5, <4>6, <4>7, <4>8, <4>9 DEF Sound, Firm, Base
        <4>11. ~x.readiness
          BY <2>2, <3>6, <4>4
        <4>12. d = SetPending(x, FALSE)
          BY <1>6, <3>7, <3>12, <4>1
        <4>13. x.sock = s.sock
          BY <1>4, <3>5, <4>3 DEF LinkFrame
        <4> QED BY <4>10, <4>11, <4>12, <4>13, PendingOffSound DEF LinkFrame
      <3> QED BY <3>11, <3>12
    <2> QED BY <2>1, <2>2
  <1> QED BY <1>7, <1>8, MaybeFinishSound


-----------------------------------------------------------------------------
(* The worker *)

\* A step of the worker changes the task only: it never takes back a cancel, and
\* leaves the states in which the adapter is lent only when it is cancelled.
LEMMA JobStep ==
  ASSUME NEW s, Sound(s), s.quit # "Done", s.job.pc \notin {"none", "done"},
         NEW k \in Jobs, JobSound(k), k.pc # "none", k.cancel = s.job.cancel,
         s.job.pc \in Lent /\ ~s.job.cancel => k.pc \in Lent,
         NEW t, t = [s EXCEPT !.job = k]
  PROVE  Sound(t)
  <1>0. s \in Guis
    BY SoundFields
  <1>1. t \in Guis
    BY <1>0, GuiSet
  <1>2. LinkFrame(s, t) /\ PlanFrame(s, t)
    BY <1>0 DEF Guis, LinkFrame, PlanFrame
  <1>3. /\ t.job = k /\ t.phase = s.phase /\ t.late = s.late /\ t.op = s.op
        /\ t.readiness = s.readiness /\ t.ready = s.ready /\ t.tun = s.tun
        /\ t.room = s.room
    BY <1>0 DEF Guis
  <1>4. HasTask(s) /\ Live(s) /\ HasTask(t)
    BY <1>3 DEF HasTask, Live, Done
  <1>5. RoomSound(s) /\ LinkSound(s) /\ RetrySound(s) /\ ResolveSound(s)
    BY SoundFields
  <1>6. RoomSound(t)
    BY <1>3, <1>4, <1>5 DEF RoomSound
  <1>7. LinkSound(t) /\ RetrySound(t) /\ ResolveSound(t)
    BY <1>2, <1>4, <1>5
       DEF LinkFrame, PlanFrame, LinkSound, RetrySound, ResolveSound
  <1>8. RecoverySound(t)
    BY <1>2, <1>3, SoundFields DEF PlanFrame, RecoverySound
  <1>9. QuitSound(t)
    BY <1>2, <1>3, SoundFields DEF LinkFrame, PlanFrame, QuitSound, Quiet
  <1>10. PhaseSound(t)
    BY <1>2, <1>3, <1>4, SoundFields DEF LinkFrame, PhaseSound
  <1>11. LogoutSound(t)
    BY <1>2, <1>3, <1>4, SoundFields DEF LinkFrame, PlanFrame, LogoutSound
  <1> QED BY <1>1, <1>3, <1>6, <1>7, <1>8, <1>9, <1>10, <1>11 DEF Sound, Firm, Base

\* A native call of the worker returns.
LEMMA WorkerStageSound ==
  ASSUME Sound(gui), WorkerStage
  PROVE  Sound(gui')
  <1>1. PICK j : j = gui.job
    OBVIOUS
  <1>2. /\ j \in Jobs /\ JobSound(j) /\ gui \in Guis /\ gui.quit # "Done"
        /\ j.pc \in Stages /\ j.pc \notin {"none", "done"} /\ j.pc \notin Lent
    BY <1>1, SoundFields, GuiFields DEF WorkerStage, Alive, Stages, Lent
  <1>3. CASE /\ ~j.cancel
             /\ gui' = [gui EXCEPT !.job = [j EXCEPT !.pc = AfterStage(@),
                                                     !.adapter = TRUE]]
    <2>1. PICK p : p = AfterStage(j.pc)
      OBVIOUS
    <2>2. p \in {"network-configure", "session-start", "waiting-readiness", "publish"}
      BY <1>2, <2>1 DEF AfterStage, Stages
    <2>3. PICK k : k = [j EXCEPT !.pc = p, !.adapter = TRUE]
      OBVIOUS
    <2>4. /\ k \in Jobs /\ k.pc = p /\ k.adapter = TRUE /\ k.ready = j.ready
          /\ k.cancel = j.cancel
      BY <1>2, <2>2, <2>3 DEF Jobs, Workers, Stages
    <2>5. ~j.ready
      BY <1>2, <1>3 DEF JobSound
    <2>6. JobSound(k) /\ k.pc # "none"
      BY <2>2, <2>4, <2>5 DEF JobSound, Lent
    <2>7. gui' = [gui EXCEPT !.job = k]
      BY <1>3, <2>1, <2>3
    <2> QED BY <1>1, <1>2, <2>4, <2>6, <2>7, JobStep
  <1>4. CASE gui' = [gui EXCEPT !.job = [j EXCEPT !.pc = "cleaning", !.failed = TRUE]]
    <2>1. PICK k : k = [j EXCEPT !.pc = "cleaning", !.failed = TRUE]
      OBVIOUS
    <2>2. k \in Jobs /\ k.pc = "cleaning" /\ k.ready = j.ready /\ k.cancel = j.cancel
      BY <1>2, <2>1 DEF Jobs, Workers
    <2>3. JobSound(k) /\ k.pc # "none"
      BY <1>2, <2>2 DEF JobSound, Lent
    <2>4. gui' = [gui EXCEPT !.job = k]
      BY <1>4, <2>1
    <2> QED BY <1>1, <1>2, <2>2, <2>3, <2>4, JobStep
  <1> QED BY <1>1, <1>3, <1>4 DEF WorkerStage

\* The worker publishes Ready.
LEMMA WorkerPublishSound ==
  ASSUME Sound(gui), WorkerPublish
  PROVE  Sound(gui')
  <1>1. PICK j : j = gui.job
    OBVIOUS
  <1>2. /\ j \in Jobs /\ JobSound(j) /\ gui \in Guis /\ gui.quit # "Done"
        /\ j.pc = "publish"
    BY <1>1, SoundFields, GuiFields DEF WorkerPublish, Alive
  <1>3. PICK k : k = [j EXCEPT !.pc = "lent", !.ready = TRUE]
    OBVIOUS
  <1>4. /\ k \in Jobs /\ k.pc = "lent" /\ k.ready = TRUE /\ k.cancel = j.cancel
        /\ k.adapter = j.adapter
    BY <1>2, <1>3 DEF Jobs, Workers
  <1>5. JobSound(k)
    BY <1>2, <1>4 DEF JobSound, Lent
  <1>6. gui' = [gui EXCEPT !.job = k]
    BY <1>1, <1>2, <1>3 DEF WorkerPublish, Guis, Jobs
  <1> QED BY <1>1, <1>2, <1>4, <1>5, <1>6, JobStep DEF Lent

\* The worker goes from one label to another while it lends the adapter, or
\* leaves once it is cancelled.
LEMMA WorkerLendSound ==
  ASSUME Sound(gui),
         \/ WorkerLend \/ WorkerThrow \/ WorkerTest \/ WorkerSleep \/ SpuriousWake
         \/ AdapterBreaks
  PROVE  Sound(gui')
  <1>1. PICK j : j = gui.job
    OBVIOUS
  <1>2. /\ j \in Jobs /\ JobSound(j) /\ gui \in Guis /\ gui.quit # "Done"
        /\ j.pc \in Lent /\ j.pc \notin {"none", "done"}
    BY <1>1, SoundFields, GuiFields
       DEF WorkerLend, WorkerThrow, WorkerTest, WorkerSleep, SpuriousWake,
           AdapterBreaks, Alive, Lent
  <1>3. \E p \in Lent \cup {"cleaning"}, f, b \in BOOLEAN :
          /\ p = "cleaning" => j.cancel
          /\ gui' = [gui EXCEPT !.job = [j EXCEPT !.pc = p, !.failed = f, !.broken = b]]
    <2>0. /\ j.pc \in Lent \cup {"cleaning"} /\ j.failed \in BOOLEAN
          /\ j.broken \in BOOLEAN /\ j.pc # "cleaning"
      BY <1>2 DEF Jobs, Lent
    <2>a. [j EXCEPT !.failed = TRUE]
            = [j EXCEPT !.pc = j.pc, !.failed = TRUE, !.broken = j.broken]
      BY <1>2 DEF Jobs
    <2>b. [j EXCEPT !.broken = TRUE]
            = [j EXCEPT !.pc = j.pc, !.failed = j.failed, !.broken = TRUE]
      BY <1>2 DEF Jobs
    <2>c. \A p : [j EXCEPT !.pc = p]
                   = [j EXCEPT !.pc = p, !.failed = j.failed, !.broken = j.broken]
      BY <1>2 DEF Jobs
    <2>d. \A p : [j EXCEPT !.pc = p, !.failed = TRUE]
                   = [j EXCEPT !.pc = p, !.failed = TRUE, !.broken = j.broken]
      BY <1>2 DEF Jobs
    <2>1. CASE WorkerLend
      <3>1. \/ j.cancel /\ gui' = [gui EXCEPT !.job = [j EXCEPT !.pc = "cleaning"]]
            \/ gui' = [gui EXCEPT !.job = [j EXCEPT !.failed = TRUE]]
        BY <1>1, <2>1 DEF WorkerLend
      <3>2. CASE j.cancel /\ gui' = [gui EXCEPT !.job = [j EXCEPT !.pc = "cleaning"]]
        <4>1. gui' = [gui EXCEPT !.job = [j EXCEPT !.pc = "cleaning", !.failed = j.failed,
                                                   !.broken = j.broken]]
          BY <2>c, <3>2
        <4> QED BY <2>0, <3>2, <4>1
      <3>3. CASE gui' = [gui EXCEPT !.job = [j EXCEPT !.failed = TRUE]]
        BY <2>0, <2>a, <3>3
      <3> QED BY <3>1, <3>2, <3>3
    <2>2. CASE WorkerThrow
      <3>1. gui' = [gui EXCEPT !.job = [j EXCEPT !.pc = "thrown", !.failed = TRUE]]
        BY <1>1, <1>2, <2>2 DEF WorkerThrow, Guis, Jobs
      <3>2. gui' = [gui EXCEPT !.job = [j EXCEPT !.pc = "thrown", !.failed = TRUE,
                                                 !.broken = j.broken]]
        BY <2>d, <3>1
      <3>3. "thrown" \in Lent \cup {"cleaning"} /\ "thrown" # "cleaning"
        BY DEF Lent
      <3> QED BY <2>0, <3>2, <3>3
    <2>3. CASE WorkerTest \/ WorkerSleep \/ SpuriousWake
      <3>1. \E p \in Lent \cup {"cleaning"} :
              /\ p = "cleaning" => j.cancel
              /\ gui' = [gui EXCEPT !.job = [j EXCEPT !.pc = p]]
        <4>1. CASE WorkerTest
          BY <1>1, <1>2, <4>1 DEF WorkerTest, Lent
        <4>2. CASE WorkerSleep
          BY <1>1, <1>2, <4>2 DEF WorkerSleep, Lent
        <4>3. CASE SpuriousWake
          BY <1>1, <1>2, <4>3 DEF SpuriousWake, Lent
        <4> QED BY <2>3, <4>1, <4>2, <4>3
      <3>2. PICK p \in Lent \cup {"cleaning"} :
              /\ p = "cleaning" => j.cancel
              /\ gui' = [gui EXCEPT !.job = [j EXCEPT !.pc = p]]
        BY <3>1
      <3>3. gui' = [gui EXCEPT !.job = [j EXCEPT !.pc = p, !.failed = j.failed,
                                                 !.broken = j.broken]]
        BY <2>c, <3>2
      <3> QED BY <2>0, <3>2, <3>3
    <2>4. CASE AdapterBreaks
      <3>1. gui' = [gui EXCEPT !.job = [j EXCEPT !.broken = TRUE]]
        BY <1>1, <2>4 DEF AdapterBreaks
      <3> QED BY <2>0, <2>b, <3>1
    <2> QED BY <2>1, <2>2, <2>3, <2>4
  <1>4. PICK p \in Lent \cup {"cleaning"}, f \in BOOLEAN, b \in BOOLEAN :
          /\ p = "cleaning" => j.cancel
          /\ gui' = [gui EXCEPT !.job = [j EXCEPT !.pc = p, !.failed = f, !.broken = b]]
    BY <1>3
  <1>5. PICK k : k = [j EXCEPT !.pc = p, !.failed = f, !.broken = b]
    OBVIOUS
  <1>6. /\ k \in Jobs /\ k.pc = p /\ k.ready = j.ready /\ k.cancel = j.cancel
        /\ k.adapter = j.adapter
    BY <1>2, <1>5 DEF Jobs, Workers, Lent
  <1>7. JobSound(k) /\ k.pc # "none" /\ (~j.cancel => k.pc \in Lent)
    BY <1>2, <1>4, <1>6 DEF JobSound, Lent
  <1>8. gui' = [gui EXCEPT !.job = k]
    BY <1>4, <1>5
  <1> QED BY <1>1, <1>2, <1>6, <1>7, <1>8, JobStep

\* The worker frees the adapter: it was cancelled or has failed before Ready,
\* so that nobody borrows it.
LEMMA WorkerCleanSound ==
  ASSUME Sound(gui), WorkerClean
  PROVE  Sound(gui')
  <1>1. PICK j : j = gui.job
    OBVIOUS
  <1>2. /\ j \in Jobs /\ JobSound(j) /\ gui \in Guis /\ gui.quit # "Done"
        /\ j.pc = "cleaning"
    BY <1>1, SoundFields, GuiFields DEF WorkerClean, Alive
  <1>3. PICK k : k = [j EXCEPT !.pc = "done", !.ready = FALSE, !.adapter = FALSE]
    OBVIOUS
  <1>4. gui' = [gui EXCEPT !.job = k]
    BY <1>1, <1>2, <1>3 DEF WorkerClean, Guis, Jobs
  <1>5. /\ k \in Jobs /\ k.pc = "done" /\ k.cancel = j.cancel /\ k.ready = FALSE
        /\ k.adapter = FALSE
    BY <1>2, <1>3 DEF Jobs, Workers
  <1>6. JobSound(k)
    BY <1>5 DEF JobSound, Lent
  <1> QED BY <1>1, <1>2, <1>4, <1>5, <1>6, JobStep DEF Lent

-----------------------------------------------------------------------------
(* Signals of the connection *)

\* The socket changes its state, short of a login, and nothing else does.
LEMMA SockStep ==
  ASSUME NEW s, Sound(s), s.sock # "LoggedIn", NEW t \in Guis, RoomFrame(s, t),
         PlanFrame(s, t), t.sock # "LoggedIn", t.logout = s.logout,
         LinkSound(t), RetrySound(t), ResolveSound(t), QuitSound(t)
  PROVE  Sound(t)
  <1>1. JobSound(t.job) /\ RoomSound(t)
    BY SoundFields, LiveJob DEF RoomFrame, RoomSound
  <1>2. HasTask(t) <=> HasTask(s)
    BY LiveJob DEF RoomFrame
  <1>3. PhaseSound(t) /\ LogoutSound(t)
    BY <1>2, SoundFields DEF RoomFrame, PlanFrame, PhaseSound, LogoutSound
  <1>4. RecoverySound(t)
    BY SoundFields DEF RoomFrame, PlanFrame, RecoverySound
  <1> QED BY <1>1, <1>3, <1>4 DEF Sound, Firm, Base

\* The lookup of a name ends.
LEMMA OnHostResolvedSound ==
  ASSUME Sound(gui), OnHostResolved
  PROVE  Sound(gui')
  <1>0. /\ gui \in Guis /\ gui.conn = "Resolving" /\ gui.sock # "LoggedIn"
        /\ ~Live(gui) /\ gui.timers = {} /\ gui.quit = "No"
    <2>1. gui \in Guis /\ gui.conn = "Resolving"
      BY SoundFields DEF OnHostResolved
    <2>2. gui.sock # "LoggedIn" /\ ~Live(gui) /\ gui.timers = {}
      BY <2>1, SoundFields DEF LinkSound, RetrySound, Linking
    <2>3. gui.quit = "No"
      BY <2>1, SoundFields DEF QuitSound, Quiet, Linking
    <2> QED BY <2>1, <2>2, <2>3
  <1>1. CASE gui' = Exhausted(gui)
    BY <1>0, <1>1, ExhaustedSound
  <1>2. ASSUME NEW more \in BOOLEAN,
               gui' = [Unlinked(gui) EXCEPT !.conn = "Connecting",
                                            !.sock = "Connecting", !.more = more]
        PROVE  Sound(gui')
    <2>1. PICK v : v = Unlinked(gui)
      OBVIOUS
    <2>2. Sound(v) /\ v.sock = "Off"
      BY <1>0, <2>1, SoundFields, UnlinkedSound
    <2>3. /\ v \in Guis /\ RoomFrame(gui, v) /\ PlanFrame(gui, v)
          /\ v.asked = FALSE /\ v.timers = gui.timers
      BY <1>0, <2>1, UnlinkedShape
    <2>4. ~Live(v) /\ v.timers = {} /\ v.quit = "No"
      BY <1>0, <2>3, LiveJob DEF RoomFrame, PlanFrame
    <2>5. PICK w : w = [v EXCEPT !.conn = "Connecting", !.sock = "Connecting",
                                 !.more = more]
      OBVIOUS
    <2>6. w \in Guis
      BY <2>3, <2>5, GuiSet DEF ConnStates, SockStates
    <2>7. RoomFrame(v, w) /\ PlanFrame(v, w)
      BY <2>3, <2>5 DEF Guis, RoomFrame, PlanFrame
    <2>8. /\ w.sock = "Connecting" /\ w.conn = "Connecting" /\ w.asked = v.asked
          /\ w.timers = v.timers /\ w.logout = v.logout
      BY <2>3, <2>5 DEF Guis
    <2>9. ~Live(w)
      BY <2>4, <2>7, LiveJob DEF RoomFrame
    <2>10. LinkSound(w) /\ RetrySound(w) /\ ResolveSound(w)
      BY <2>3, <2>4, <2>8, <2>9 DEF LinkSound, RetrySound, ResolveSound
    <2>11. QuitSound(w)
      BY <2>4, <2>7 DEF PlanFrame, QuitSound
    <2>12. Sound(w)
      BY <2>2, <2>6, <2>7, <2>8, <2>10, <2>11, SockStep
    <2> QED BY <1>2, <2>1, <2>5, <2>12
  <1> QED BY <1>1, <1>2 DEF OnHostResolved

\* A socket that is being connected, or whose handshake runs.
LEMMA HandshakeFacts ==
  ASSUME NEW s, Sound(s), s.sock \in {"Connecting", "Connected", "Secure"}
  PROVE  /\ s \in Guis /\ ~Live(s) /\ s.timers = {} /\ s.quit = "No"
         /\ ~s.asked
  BY SoundFields DEF LinkSound, RetrySound, QuitSound

\* The socket cannot be connected: the next address is tried, or the attempt is
\* exhausted.
LEMMA OnSignalConnectFailedSound ==
  ASSUME Sound(gui), OnSignalConnectFailed
  PROVE  Sound(gui')
  <1>0. gui \in Guis /\ gui.sock = "Connecting"
    BY SoundFields DEF OnSignalConnectFailed
  <1>1. CASE gui.more
    <2>1. PICK w : w = [gui EXCEPT !.more = FALSE]
      OBVIOUS
    <2>2. w \in Guis
      BY <1>0, <2>1, GuiSet
    <2>3. RoomFrame(gui, w) /\ LinkFrame(gui, w) /\ PlanFrame(gui, w)
      BY <1>0, <2>1 DEF Guis, RoomFrame, LinkFrame, PlanFrame
    <2>4. gui' = w
      BY <1>1, <2>1 DEF OnSignalConnectFailed
    <2> QED BY <2>2, <2>3, <2>4, SameSound
  <1>2. CASE ~gui.more
    <2>1. PICK v : v = Unlinked(gui)
      OBVIOUS
    <2>2. Sound(v) /\ v.sock = "Off"
      BY <1>0, <2>1, SoundFields, UnlinkedSound
    <2>3. gui' = Exhausted(v)
      BY <1>2, <2>1 DEF OnSignalConnectFailed
    <2> QED BY <2>2, <2>3, ExhaustedSound
  <1> QED BY <1>1, <1>2

\* The socket is connected.
LEMMA OnSocketConnectedSound ==
  ASSUME Sound(gui), OnSocketConnected
  PROVE  Sound(gui')
  <1>0. gui.sock = "Connecting"
    BY DEF OnSocketConnected
  <1>1. gui \in Guis /\ ~Live(gui) /\ gui.timers = {} /\ gui.quit = "No" /\ ~gui.asked
    BY <1>0, HandshakeFacts
  <1>2. PICK w : w = [gui EXCEPT !.sock = "Connected"]
    OBVIOUS
  <1>3. w \in Guis
    BY <1>1, <1>2, GuiSet DEF SockStates, Up
  <1>4. RoomFrame(gui, w) /\ PlanFrame(gui, w)
    BY <1>1, <1>2 DEF Guis, RoomFrame, PlanFrame
  <1>5. /\ w.sock = "Connected" /\ w.conn = gui.conn /\ w.asked = gui.asked
        /\ w.timers = gui.timers /\ w.logout = gui.logout /\ w.attempt = gui.attempt
    BY <1>1, <1>2 DEF Guis
  <1>6. ~Live(w)
    BY <1>1, <1>4, LiveJob DEF RoomFrame
  <1>7. LinkSound(w) /\ RetrySound(w)
    BY <1>1, <1>5, <1>6 DEF LinkSound, RetrySound
  <1>8. ResolveSound(w)
    BY <1>0, <1>4, <1>5, SoundFields DEF PlanFrame, ResolveSound
  <1>9. QuitSound(w)
    BY <1>1, <1>4 DEF PlanFrame, QuitSound
  <1>10. Sound(w)
    BY <1>0, <1>3, <1>4, <1>5, <1>7, <1>8, <1>9, SockStep
  <1> QED BY <1>2, <1>10 DEF OnSocketConnected

\* The handshake succeeds.
LEMMA OnSignalConnectedSound ==
  ASSUME Sound(gui), OnSignalConnected
  PROVE  Sound(gui')
  <1>0. gui.sock = "Connected"
    BY DEF OnSignalConnected
  <1>1. gui \in Guis /\ ~Live(gui) /\ gui.timers = {} /\ gui.quit = "No" /\ ~gui.asked
    BY <1>0, HandshakeFacts
  <1>2. PICK w : w = [gui EXCEPT !.sock = "Secure", !.conn = "Connected",
                                 !.scheduled = FALSE]
    OBVIOUS
  <1>3. w \in Guis
    BY <1>1, <1>2, GuiSet DEF SockStates, ConnStates, Up
  <1>4. RoomFrame(gui, w) /\ PlanFrame(gui, w)
    BY <1>1, <1>2 DEF Guis, RoomFrame, PlanFrame
  <1>5. /\ w.sock = "Secure" /\ w.conn = "Connected" /\ w.asked = gui.asked
        /\ w.timers = gui.timers /\ w.logout = gui.logout
    BY <1>1, <1>2 DEF Guis
  <1>6. ~Live(w)
    BY <1>1, <1>4, LiveJob DEF RoomFrame
  <1>7. LinkSound(w) /\ RetrySound(w) /\ ResolveSound(w)
    BY <1>1, <1>5, <1>6 DEF LinkSound, RetrySound, ResolveSound, Linking
  <1>8. QuitSound(w)
    BY <1>1, <1>4 DEF PlanFrame, QuitSound
  <1>9. Sound(w)
    BY <1>0, <1>3, <1>4, <1>5, <1>7, <1>8, SockStep
  <1> QED BY <1>2, <1>9 DEF OnSignalConnected

\* The user is asked for the server's password.
LEMMA PromptServerPasswordSound ==
  ASSUME Sound(gui), PromptServerPassword
  PROVE  Sound(gui')
  <1>1. CASE gui' = [gui EXCEPT !.pass = TRUE, !.blocked = FALSE]
    <2>0. gui \in Guis
      BY SoundFields
    <2>1. PICK w : w = [gui EXCEPT !.pass = TRUE, !.blocked = FALSE]
      OBVIOUS
    <2>2. w \in Guis
      BY <2>0, <2>1, GuiSet
    <2>3. RoomFrame(gui, w) /\ LinkFrame(gui, w) /\ PlanFrame(gui, w)
      BY <2>0, <2>1 DEF Guis, RoomFrame, LinkFrame, PlanFrame
    <2> QED BY <1>1, <2>1, <2>2, <2>3, SameSound
  <1>2. CASE gui' \in DisconnectFromServer(gui)
    BY <1>2, DisconnectFromServerSound DEF Parting
  <1> QED BY <1>1, <1>2 DEF PromptServerPassword

\* The connection breaks.
LEMMA OnSignalDisconnectedSound ==
  ASSUME Sound(gui), OnSignalDisconnected
  PROVE  Sound(gui')
  BY SoundFields, SignalDisconnectedSound DEF OnSignalDisconnected

\* The server refuses the authentication for good.
LEMMA OnFatalAuthErrorSound ==
  ASSUME Sound(gui), OnFatalAuthError
  PROVE  Sound(gui')
  <1>1. PICK f : f = FatalAuthError(gui)
    OBVIOUS
  <1>2. Sound(f) /\ ~f.resume
    BY <1>1, FatalAuthErrorSound
  <1>3. PICK t : t = ServerError(f)
    OBVIOUS
  <1>4. Sound(t) /\ gui' = Disconnect(t)
    BY <1>1, <1>2, <1>3, ServerErrorSound DEF OnFatalAuthError
  <1>5. Firm(t)
    BY <1>4, SoundFields
  <1> QED BY <1>4, <1>5, DisconnectSound

\* The server refuses the handshake or the login, for now.
LEMMA OnServerErrorSound ==
  ASSUME Sound(gui), OnServerError
  PROVE  Sound(gui')
  <1>1. gui.quit = "No"
    BY HandshakeFacts DEF OnServerError
  <1> QED BY <1>1, ServerErrorSound DEF OnServerError

-----------------------------------------------------------------------------
(* Answers of the server *)

\* The login is answered: a client that recovers drops its plans to reconnect
\* and to rejoin.
LEMMA LobbyOnlySound ==
  ASSUME NEW s, Sound(s), s.sock = "Secure",
         NEW u, u = [s EXCEPT !.sock = "LoggedIn"], NEW t, t = LobbyOnly(u)
  PROVE  /\ Sound(t) /\ t.sock = "LoggedIn" /\ t.conn # "Resolving" /\ t.quit = "No"
         /\ ~t.asked
         /\ s.attempt => ~t.want /\ ~t.was
  <1>0. s \in Guis /\ ~Live(s) /\ s.timers = {} /\ s.quit = "No" /\ ~s.asked
    BY HandshakeFacts
  <1>1. s.conn \notin Linking
    BY SoundFields DEF LinkSound
  <1>2. \E a, w, v, r \in BOOLEAN :
          /\ a = FALSE /\ (w => s.want) /\ (v => s.was) /\ (r => s.resume)
          /\ s.attempt => ~w /\ ~v
          /\ t = [s EXCEPT !.sock = "LoggedIn", !.attempt = a, !.want = w, !.was = v,
                           !.resume = r]
    <2>1. CASE s.attempt
      <3>1. u.attempt = s.attempt
        BY <1>0 DEF Guis
      <3>2. t = [u EXCEPT !.attempt = FALSE, !.want = FALSE, !.was = FALSE,
                          !.resume = FALSE]
        BY <2>1, <3>1 DEF LobbyOnly
      <3>3. t = [s EXCEPT !.sock = "LoggedIn", !.attempt = FALSE, !.want = FALSE,
                          !.was = FALSE, !.resume = FALSE]
        BY <1>0, <3>2 DEF Guis
      <3> QED BY <3>3
    <2>2. CASE ~s.attempt
      <3>1. u.attempt = s.attempt
        BY <1>0 DEF Guis
      <3>2. t = u
        BY <2>2, <3>1 DEF LobbyOnly
      <3>3. s.want \in BOOLEAN /\ s.was \in BOOLEAN /\ s.resume \in BOOLEAN
            /\ s.attempt = FALSE
        BY <1>0, <2>2, GuiFields
      <3>4. u = [s EXCEPT !.sock = "LoggedIn", !.attempt = FALSE, !.want = s.want,
                          !.was = s.was, !.resume = s.resume]
        BY <1>0, <3>3 DEF Guis
      <3> QED BY <2>2, <3>2, <3>3, <3>4
    <2> QED BY <2>1, <2>2
  <1>3. PICK a \in BOOLEAN, w \in BOOLEAN, v \in BOOLEAN, r \in BOOLEAN :
          /\ a = FALSE /\ (w => s.want) /\ (v => s.was) /\ (r => s.resume)
          /\ s.attempt => ~w /\ ~v
          /\ t = [s EXCEPT !.sock = "LoggedIn", !.attempt = a, !.want = w, !.was = v,
                           !.resume = r]
    BY <1>2
  <1>4. PICK x : x = [s EXCEPT !.sock = "LoggedIn", !.attempt = a, !.want = w,
                               !.was = v, !.resume = r]
    OBVIOUS
  <1>5. x \in Guis
    BY <1>0, <1>4, GuiSet, ZenonT(60) DEF SockStates, Up
  <1>6. RoomFrame(s, x)
    BY <1>0, <1>4 DEF Guis, RoomFrame
  <1>7. /\ x.sock = "LoggedIn" /\ x.conn = s.conn /\ x.attempt = a /\ x.asked = s.asked
        /\ x.logout = s.logout /\ x.timers = s.timers
    BY <1>0, <1>4 DEF Guis
  <1>8. /\ x.recovery = s.recovery /\ x.want = w /\ x.was = v /\ x.resume = r
        /\ x.quit = s.quit
    BY <1>0, <1>4 DEF Guis
  <1>9. Live(x) <=> Live(s)
    BY <1>6, LiveJob DEF RoomFrame
  <1>10. HasTask(x) <=> HasTask(s)
    BY <1>6, LiveJob DEF RoomFrame
  <1>11. JobSound(x.job) /\ RoomSound(x)
    BY <1>6, <1>9, <1>10, SoundFields DEF RoomFrame, RoomSound
  <1>12. LinkSound(x) /\ RetrySound(x) /\ ResolveSound(x)
    BY <1>0, <1>1, <1>3, <1>7, <1>9 DEF LinkSound, RetrySound, ResolveSound, Linking
  <1>13. PhaseSound(x)
    BY <1>7 DEF PhaseSound
  <1>14. LogoutSound(x)
    BY <1>0, <1>6, <1>7, <1>8, <1>10, SoundFields DEF RoomFrame, LogoutSound
  <1>15. RecoverySound(x)
    BY <1>3, <1>6, <1>8, SoundFields DEF RoomFrame, RecoverySound
  <1>16. QuitSound(x)
    BY <1>0, <1>8 DEF QuitSound
  <1>17. Sound(x)
    BY <1>5, <1>11, <1>12, <1>13, <1>14, <1>15, <1>16 DEF Sound, Firm, Base
  <1>18. t = x
    BY <1>3, <1>4
  <1>19. x.conn # "Resolving" /\ x.quit = "No" /\ ~x.asked
         /\ (s.attempt => ~x.want /\ ~x.was)
    BY <1>0, <1>1, <1>3, <1>7, <1>8 DEF Linking
  <1> QED BY <1>7, <1>17, <1>18, <1>19

\* A client that is logged in makes or drops its plan to reconnect.
LEMMA WantSound ==
  ASSUME NEW s, Sound(s), s.conn # "Resolving", NEW b \in BOOLEAN,
         b => ~s.recovery /\ s.quit = "No",
         NEW t, t = [s EXCEPT !.want = b]
  PROVE  Sound(t) /\ LinkFrame(s, t) /\ t.was = s.was /\ t.want = b
  <1>0. s \in Guis
    BY SoundFields
  <1>1. t \in Guis
    BY <1>0, GuiSet
  <1>2. RoomFrame(s, t) /\ LinkFrame(s, t)
    BY <1>0 DEF Guis, RoomFrame, LinkFrame
  <1>3. /\ t.recovery = s.recovery /\ t.want = b /\ t.was = s.was /\ t.resume = s.resume
        /\ t.loginTimer = s.loginTimer /\ t.named = s.named /\ t.quit = s.quit
    BY <1>0 DEF Guis
  <1>4. LinkSound(t) /\ RetrySound(t)
    BY <1>2, SoundFields, LiveJob DEF RoomFrame, LinkFrame, LinkSound, RetrySound
  <1>5. ResolveSound(t)
    BY <1>2 DEF LinkFrame, ResolveSound
  <1>6. RecoverySound(t)
    BY <1>2, <1>3, SoundFields DEF RoomFrame, RecoverySound
  <1>7. QuitSound(t)
    BY <1>2, <1>3, SoundFields DEF RoomFrame, LinkFrame, QuitSound, Quiet
  <1>8. Sound(t)
    BY <1>1, <1>2, <1>3, <1>4, <1>5, <1>6, <1>7, LinkStep DEF LinkFrame
  <1> QED BY <1>2, <1>3, <1>8

\* LOGIN_RESP keeps the invariant, and a client that recovers is left in the
\* lobby with no plan and no request.
LEMMA OnLoginResponseSound ==
  ASSUME Sound(gui), OnLoginResponse
  PROVE  /\ Sound(gui')
         /\ gui.attempt /\ gui'.sock = "LoggedIn" =>
              ~gui'.want /\ ~gui'.was /\ ~gui'.asked
  <1>0. gui.sock = "Secure"
    BY DEF OnLoginResponse
  <1>1. PICK u : u = [gui EXCEPT !.sock = "LoggedIn"]
    OBVIOUS
  <1>2. PICK s : s = LobbyOnly(u)
    OBVIOUS
  <1>3. /\ Sound(s) /\ s.sock = "LoggedIn" /\ s.conn # "Resolving" /\ s.quit = "No"
        /\ ~s.asked /\ (gui.attempt => ~s.want /\ ~s.was)
    BY <1>0, <1>1, <1>2, LobbyOnlySound
  <1>4. PICK t : /\ \/ s.was /\ t = ResumeRoom(s)
                    \/ s.was /\ t = [s EXCEPT !.want = TRUE]
                    \/ t = s /\ s.was
                    \/ t = [s EXCEPT !.want = FALSE]
                 /\ gui' = t \/ gui' \in DisconnectFromServer(t)
    <2>1. CASE s.was
      BY <1>1, <1>2, <2>1 DEF OnLoginResponse
    <2>2. CASE ~s.was
      BY <1>1, <1>2, <2>2 DEF OnLoginResponse
    <2> QED BY <2>1, <2>2
  <1>5. s.was => ~s.recovery
    BY <1>3, SoundFields DEF RecoverySound
  <1>6. Sound(t) /\ (gui.attempt => ~t.want /\ ~t.was /\ ~t.asked)
    <2>1. CASE s.was /\ t = ResumeRoom(s)
      BY <1>3, <1>5, <2>1, ResumeRoomSound
    <2>2. CASE s.was /\ t = [s EXCEPT !.want = TRUE]
      BY <1>3, <1>5, <2>2, WantSound
    <2>3. CASE t = s /\ s.was
      BY <1>3, <2>3
    <2>4. CASE t = [s EXCEPT !.want = FALSE]
      <3>1. Sound(t) /\ LinkFrame(s, t) /\ t.was = s.was /\ t.want = FALSE
        BY <1>3, <2>4, WantSound
      <3> QED BY <1>3, <3>1 DEF LinkFrame
    <2> QED BY <1>4, <2>1, <2>2, <2>3, <2>4
  <1>7. CASE gui' = t
    BY <1>6, <1>7
  <1>8. CASE gui' \in DisconnectFromServer(t)
    BY <1>6, <1>8, DisconnectFromServerSound DEF Parting, Quiet
  <1> QED BY <1>4, <1>7, <1>8

\* The room list, searched for the room that was lost.
LEMMA OnRoomListSound ==
  ASSUME Sound(gui), OnRoomList
  PROVE  Sound(gui')
  <1>1. gui.sock = "LoggedIn"
    BY DEF OnRoomList
  <1>2. gui.conn # "Resolving"
    BY <1>1, SoundFields DEF LinkSound, Linking
  <1>3. PICK t : t = [gui EXCEPT !.want = FALSE]
    OBVIOUS
  <1>4. Sound(t)
    BY <1>2, <1>3, WantSound
  <1>5. gui' = t \/ gui' = RequestRoom(t)
    BY <1>3 DEF OnRoomList
  <1> QED BY <1>4, <1>5, RequestRoomSound

\* SignalClient has its answer, or expects none any more.
LEMMA UnaskedSound ==
  ASSUME NEW s, Sound(s), NEW b \in BOOLEAN,
         NEW t, t = [s EXCEPT !.asked = FALSE, !.block = b]
  PROVE  Sound(t) /\ RoomFrame(s, t) /\ PlanFrame(s, t)
         /\ t.sock = s.sock /\ t.logout = s.logout /\ t.conn = s.conn
  <1>0. s \in Guis
    BY SoundFields
  <1>1. t \in Guis
    BY <1>0, GuiSet
  <1>2. RoomFrame(s, t) /\ PlanFrame(s, t)
    BY <1>0 DEF Guis, RoomFrame, PlanFrame
  <1>3. /\ t.sock = s.sock /\ t.asked = FALSE /\ t.conn = s.conn
        /\ t.attempt = s.attempt /\ t.logout = s.logout /\ t.timers = s.timers
        /\ t.attempts = s.attempts
    BY <1>0 DEF Guis
  <1>4. Eases(s, t)
    BY <1>1, <1>2, <1>3 DEF PlanFrame, Eases, Drops
  <1> QED BY <1>2, <1>3, <1>4, EaseSound

\* An answer that leaves the block as it is has the form UnaskedSound speaks
\* of.
LEMMA Unasked ==
  ASSUME NEW s \in Guis
  PROVE  [s EXCEPT !.asked = FALSE] = [s EXCEPT !.asked = FALSE, !.block = s.block]
         /\ s.block \in BOOLEAN
  BY DEF Guis

\* ROOM_CREATED and JOIN_RESP, late or not.
LEMMA OnRoomResponseSound ==
  ASSUME Sound(gui), NEW joined \in BOOLEAN, OnRoomResponse(joined)
  PROVE  Sound(gui')
  <1>0. gui \in Guis /\ gui.sock = "LoggedIn" /\ gui.logout = "No"
    BY SoundFields DEF OnRoomResponse, Answers
  <1>1. PICK s : s = [gui EXCEPT !.asked = FALSE]
    OBVIOUS
  <1>2. s = [gui EXCEPT !.asked = FALSE, !.block = gui.block] /\ gui.block \in BOOLEAN
    BY <1>0, <1>1, Unasked
  <1>3. /\ Sound(s) /\ s.sock = "LoggedIn" /\ s.logout = "No"
    BY <1>0, <1>2, UnaskedSound
  <1>4. CASE Ignored(s)
    BY <1>1, <1>3, <1>4 DEF OnRoomResponse
  <1>5. CASE ~Ignored(s)
    <2>0. /\ s \in Guis /\ s.resume \in BOOLEAN /\ s.want \in BOOLEAN
          /\ ~s.recovery /\ ~s.readiness
      BY <1>3, <1>5, SoundFields, GuiFields DEF Ignored
    <2>1. PICK r : r = (s.resume /\ ~joined)
      OBVIOUS
    <2>2. PICK w : w = (s.want /\ ~joined)
      OBVIOUS
    <2>3. r \in BOOLEAN /\ w \in BOOLEAN /\ (r => s.resume) /\ (w => s.want)
      BY <2>0, <2>1, <2>2
    <2>4. PICK x : x = [s EXCEPT !.room = TRUE, !.resume = r, !.want = w]
      OBVIOUS
    <2>5. x \in Guis
      BY <2>0, <2>3, <2>4, GuiSet
    <2>6. LinkFrame(s, x)
      BY <2>0, <2>4 DEF Guis, LinkFrame
    <2>7. /\ x.recovery = s.recovery /\ x.want = w /\ x.was = s.was /\ x.resume = r
          /\ x.loginTimer = s.loginTimer /\ x.named = s.named /\ x.quit = s.quit
      BY <2>0, <2>4 DEF Guis
    <2>8. /\ x.job = s.job /\ x.phase = s.phase /\ x.late = s.late /\ x.op = s.op
          /\ x.readiness = s.readiness /\ x.ready = s.ready /\ x.tun = s.tun
          /\ x.room = TRUE
      BY <2>0, <2>4 DEF Guis
    <2>9. (Live(x) <=> Live(s)) /\ (HasTask(x) <=> HasTask(s))
      BY <2>8, LiveJob
    <2>10. JobSound(x.job) /\ RoomSound(x)
      BY <1>3, <2>8, <2>9, SoundFields DEF RoomSound
    <2>11. LinkSound(x) /\ RetrySound(x)
      BY <1>3, <2>6, <2>9, SoundFields DEF LinkFrame, LinkSound, RetrySound
    <2>12. ResolveSound(x)
      BY <1>3, <2>3, <2>6, <2>7, SoundFields DEF LinkFrame, ResolveSound
    <2>13. PhaseSound(x) /\ LogoutSound(x)
      BY <1>3, <2>6, <2>7, <2>8, <2>9, SoundFields
         DEF LinkFrame, PhaseSound, LogoutSound
    <2>14. RecoverySound(x)
      BY <2>0, <2>7 DEF RecoverySound
    <2>15. QuitSound(x)
      <3>1. s.quit = "No"
        BY <1>3, SoundFields DEF LogoutSound
      <3> QED BY <2>7, <3>1 DEF QuitSound
    <2>16. Sound(x)
      BY <2>5, <2>10, <2>11, <2>12, <2>13, <2>14, <2>15 DEF Sound, Firm, Base
    <2>17. gui' \in BeginRoomReadiness(x)
      BY <1>1, <1>5, <2>1, <2>2, <2>4 DEF OnRoomResponse
    <2>18. x.sock = "LoggedIn" /\ x.logout = "No" /\ ~x.recovery /\ ~x.readiness /\ x.room
      BY <1>3, <2>0, <2>6, <2>7, <2>8 DEF LinkFrame
    <2> QED BY <2>16, <2>17, <2>18, BeginReadinessSound
  <1> QED BY <1>4, <1>5

\* An ERROR for a room request whose outcome is uncertain.
LEMMA OnRoomOperationUncertainSound ==
  ASSUME Sound(gui), OnRoomOperationUncertain
  PROVE  Sound(gui')
  <1>1. PICK t : t = [gui EXCEPT !.asked = FALSE, !.block = TRUE]
    OBVIOUS
  <1>2. Sound(t)
    BY <1>1, UnaskedSound
  <1> QED BY <1>1, <1>2, RecoverySoundly DEF OnRoomOperationUncertain

\* The room's password is wrong.
LEMMA OnRoomPasswordErrorSound ==
  ASSUME Sound(gui), OnRoomPasswordError
  PROVE  Sound(gui')
  <1>1. PICK t : t = [gui EXCEPT !.asked = FALSE]
    OBVIOUS
  <1>2. t = [gui EXCEPT !.asked = FALSE, !.block = gui.block] /\ gui.block \in BOOLEAN
    BY <1>1, Unasked, SoundFields
  <1>3. Sound(t)
    BY <1>2, UnaskedSound
  <1>4. PICK f : f = FatalAuthError(t)
    OBVIOUS
  <1>5. Sound(f) /\ ~f.resume
    BY <1>3, <1>4, FatalAuthErrorSound
  <1>6. gui' = ServerError(f)
    BY <1>1, <1>4 DEF OnRoomPasswordError
  <1> QED BY <1>5, <1>6, ServerErrorSound

\* The posted call of disconnectFromServer.
LEMMA DeferredDisconnectSound ==
  ASSUME Sound(gui), DeferredDisconnect
  PROVE  Sound(gui') /\ (gui'.sock = "LoggedIn" => gui.sock = "LoggedIn")
  <1>1. PICK t : t = [gui EXCEPT !.deferred = FALSE]
    OBVIOUS
  <1>2. Sound(t) /\ t.sock = gui.sock
    BY <1>1, DeferSound
  <1>3. gui' \in DisconnectFromServer(t)
    BY <1>1 DEF DeferredDisconnect
  <1> QED BY <1>2, <1>3, DisconnectFromServerSound DEF Parting

\* LOGOUT_ACK, or its deadline.
LEMMA LogoutEndsSound ==
  ASSUME Sound(gui), OnLogoutAck \/ LogoutDeadline
  PROVE  Sound(gui')
  BY FinishManualSound DEF OnLogoutAck, LogoutDeadline

\* A frame of the session is refused.
LEMMA OnSecurityFailureSound ==
  ASSUME Sound(gui), OnSecurityFailure
  PROVE  Sound(gui')
  BY SoundFields, DisconnectSound DEF OnSecurityFailure

\* The adapter fails while the room is in use.
LEMMA OnTunRuntimeErrorSound ==
  ASSUME Sound(gui), OnTunRuntimeError
  PROVE  Sound(gui')
  BY GiveUpRoomSound DEF OnTunRuntimeError, RuntimeError

-----------------------------------------------------------------------------
(* Timers *)

\* The clock reaches the deadline of the phase.
LEMMA DeadlinePassesSound ==
  ASSUME Sound(gui), DeadlinePasses
  PROVE  Sound(gui')
  <1>0. gui \in Guis /\ gui.phase \in {"WaitingServer", "Preparing"}
    BY SoundFields DEF DeadlinePasses
  <1>1. PICK t : t = [gui EXCEPT !.late = TRUE]
    OBVIOUS
  <1>2. t \in Guis
    BY <1>0, <1>1, GuiSet
  <1>3. LinkFrame(gui, t) /\ PlanFrame(gui, t)
    BY <1>0, <1>1 DEF Guis, LinkFrame, PlanFrame
  <1>4. /\ t.job = gui.job /\ t.phase = gui.phase /\ t.op = gui.op
        /\ t.readiness = gui.readiness /\ t.ready = gui.ready /\ t.tun = gui.tun
        /\ t.room = gui.room
    BY <1>0, <1>1 DEF Guis
  <1>5. (Live(t) <=> Live(gui)) /\ (HasTask(t) <=> HasTask(gui))
    BY <1>4, LiveJob
  <1>6. JobSound(t.job) /\ RoomSound(t)
    BY <1>0, <1>4, <1>5, SoundFields DEF RoomSound
  <1>7. LinkSound(t) /\ RetrySound(t) /\ ResolveSound(t)
    BY <1>3, <1>5, SoundFields
       DEF LinkFrame, PlanFrame, LinkSound, RetrySound, ResolveSound
  <1>8. PhaseSound(t) /\ LogoutSound(t)
    BY <1>3, <1>4, <1>5, SoundFields DEF LinkFrame, PlanFrame, PhaseSound, LogoutSound
  <1>9. RecoverySound(t)
    BY <1>3, <1>4, SoundFields DEF PlanFrame, RecoverySound
  <1>10. QuitSound(t)
    BY <1>3, <1>4, SoundFields DEF LinkFrame, PlanFrame, QuitSound, Quiet
  <1>11. Sound(t)
    BY <1>2, <1>6, <1>7, <1>8, <1>9, <1>10 DEF Sound, Firm, Base
  <1> QED BY <1>1, <1>11 DEF DeadlinePasses

\* The timer that polls the operation.
LEMMA PollRoomOperationSound ==
  ASSUME Sound(gui), PollRoomOperation
  PROVE  Sound(gui')
  BY PolledSound DEF PollRoomOperation

\* The plan to resume the lease is dropped.
LEMMA UnresumedSound ==
  ASSUME NEW s, Sound(s), NEW t, t = [s EXCEPT !.resume = FALSE]
  PROVE  Sound(t) /\ t.sock = s.sock
  <1>0. s \in Guis
    BY SoundFields
  <1>1. t \in Guis
    BY <1>0, GuiSet
  <1>2. RoomFrame(s, t) /\ LinkFrame(s, t)
    BY <1>0 DEF Guis, RoomFrame, LinkFrame
  <1>3. /\ t.recovery = s.recovery /\ t.want = s.want /\ t.was = s.was
        /\ t.resume = FALSE /\ t.loginTimer = s.loginTimer /\ t.named = s.named
        /\ t.quit = s.quit
    BY <1>0 DEF Guis
  <1>4. Eases(s, t)
    BY <1>1, <1>2, <1>3 DEF LinkFrame, Eases, Drops
  <1> QED BY <1>2, <1>4, EaseSound DEF LinkFrame

\* rollbackRoomAfterTunFailure keeps the invariant.
LEMMA RollbackSound ==
  ASSUME NEW s, Sound(s)
  PROVE  Sound(Rollback(s))
  <1>1. CASE s.sock \in Up
    BY <1>1, RecoverySoundly DEF Rollback
  <1>2. CASE s.sock \notin Up
    <2>1. PICK x : x = [s EXCEPT !.resume = FALSE]
      OBVIOUS
    <2>2. Sound(x)
      BY <2>1, UnresumedSound
    <2>3. Rollback(s) = ResetRoomRuntimeState(TeardownTun(x))
      BY <1>2, <2>1 DEF Rollback
    <2> QED BY <2>2, <2>3, GiveUpRoomSound
  <1> QED BY <1>1, <1>2

\* The timer that polls the setup: the adapter is taken only from a task that
\* is ready and was not cancelled.
LEMMA PollRoomReadinessSound ==
  ASSUME Sound(gui), PollRoomReadiness
  PROVE  Sound(gui')
  <1>1. PICK t : t = [gui EXCEPT !.tun = TRUE]
    OBVIOUS
  <1>2. /\ gui.readiness
        /\ \/ gui.job.ready /\ (gui' = CompleteRoomReadiness(t) \/ gui' = Rollback(t))
           \/ gui' = Rollback(gui)
    BY <1>1 DEF PollRoomReadiness
  <1> QED BY <1>1, <1>2, TakenSound, RollbackSound

\* A timer of scheduleReconnectAttempt fires, and leaves the timers m.
Fired(s, m) == [s EXCEPT !.timers = m, !.scheduled = FALSE]

\* The other timers are as they were, and the state is sound.
LEMMA TimerFires ==
  ASSUME NEW s, Sound(s), s.timers # {}, NEW m \in SUBSET s.timers,
         NEW t, t = Fired(s, m)
  PROVE  /\ Sound(t) /\ t.sock = "Off" /\ t.conn = "Idle" /\ t.quit = "No"
         /\ t.timers = m /\ t.attempts = s.attempts
         /\ (Live(t) <=> Live(s))
  <1>0. s \in Guis
    BY SoundFields
  <1>1. s.sock = "Off" /\ s.conn = "Idle"
    BY SoundFields DEF RetrySound
  <1>2. s.quit = "No"
    BY SoundFields DEF QuitSound, Quiet
  <1>4. m \in SUBSET {"Poll", "Delay"} /\ m \subseteq s.timers
    BY <1>0, GuiFields
  <1>5. PICK x : x = [s EXCEPT !.timers = m, !.scheduled = FALSE]
    OBVIOUS
  <1>6. x \in Guis
    BY <1>0, <1>4, <1>5, GuiSet
  <1>7. RoomFrame(s, x) /\ PlanFrame(s, x)
    BY <1>0, <1>5 DEF Guis, RoomFrame, PlanFrame
  <1>8. /\ x.sock = s.sock /\ x.asked = s.asked /\ x.conn = s.conn
        /\ x.attempt = s.attempt /\ x.logout = s.logout /\ x.timers = m
        /\ x.attempts = s.attempts
    BY <1>0, <1>5 DEF Guis
  <1>9. Eases(s, x)
    BY <1>4, <1>6, <1>7, <1>8 DEF PlanFrame, Eases, Drops
  <1>10. Sound(x)
    BY <1>9, EaseSound
  <1>11. t = x
    BY <1>5 DEF Fired
  <1>12. Live(x) <=> Live(s)
    BY <1>7, LiveJob DEF RoomFrame
  <1> QED BY <1>1, <1>2, <1>7, <1>8, <1>10, <1>11, <1>12 DEF PlanFrame

\* The timer that waits for the cleanup looks again.
LEMMA ReconnectPollSound ==
  ASSUME Sound(gui), ReconnectPoll
  PROVE  Sound(gui')
  <1>0. "Poll" \in gui.timers
    BY DEF ReconnectPoll
  <1>m. PICK m : m = gui.timers \ {"Poll"}
    OBVIOUS
  <1>o. gui.timers # {} /\ m \in SUBSET gui.timers
    BY <1>0, <1>m
  <1>1. PICK t : t = Fired(gui, m)
    OBVIOUS
  <1>2. Sound(t) /\ t.sock = "Off" /\ t.conn = "Idle"
    BY <1>o, <1>1, TimerFires
  <1>3. gui' = Schedule(t)
    BY <1>m, <1>1 DEF ReconnectPoll, Fired
  <1> QED BY <1>2, <1>3, ScheduleSound

\* The delay before a retry is over.
LEMMA ReconnectDelaySound ==
  ASSUME Sound(gui), ReconnectDelay
  PROVE  Sound(gui') /\ (gui'.sock = "LoggedIn" => gui.sock = "LoggedIn")
  <1>0. "Delay" \in gui.timers
    BY DEF ReconnectDelay
  <1>m. PICK m : m = gui.timers \ {"Delay"}
    OBVIOUS
  <1>o. gui.timers # {} /\ m \in SUBSET gui.timers
    BY <1>0, <1>m
  <1>1. PICK t : t = Fired(gui, m)
    OBVIOUS
  <1>2. /\ Sound(t) /\ t.sock = "Off" /\ t.conn = "Idle" /\ t.quit = "No"
        /\ t.timers = m /\ t.attempts = gui.attempts
        /\ Live(t) <=> Live(gui)
    BY <1>o, <1>1, TimerFires
  <1>3. /\ t \in Guis /\ ~Live(t) /\ t.attempts < MaxAttempts /\ "Delay" \notin t.timers
    BY <1>0, <1>m, <1>2, SoundFields DEF RetrySound
  <1>4. CASE gui' = t
    BY <1>2, <1>4
  <1>5. CASE gui' \in ResolveAndConnect([t EXCEPT !.attempts = @ + 1])
    <2>1. PICK n : n = t.attempts + 1
      OBVIOUS
    <2>2. n \in 0 .. MaxAttempts
      BY <1>3, <2>1, GuiFields, MaxAttemptsAssumption
    <2>3. PICK x : x = [t EXCEPT !.attempts = n]
      OBVIOUS
    <2>4. x \in Guis
      BY <1>3, <2>2, <2>3, GuiSet
    <2>5. RoomFrame(t, x) /\ PlanFrame(t, x)
      BY <1>3, <2>3 DEF Guis, RoomFrame, PlanFrame
    <2>6. /\ x.sock = t.sock /\ x.asked = t.asked /\ x.conn = t.conn
          /\ x.attempt = t.attempt /\ x.logout = t.logout /\ x.timers = t.timers
      BY <1>3, <2>3 DEF Guis
    <2>7. ~Live(x)
      BY <1>3, <2>5, LiveJob DEF RoomFrame
    <2>8. LinkSound(x) /\ RetrySound(x) /\ ResolveSound(x)
      BY <1>2, <1>3, <2>5, <2>6, <2>7, SoundFields
         DEF PlanFrame, LinkSound, RetrySound, ResolveSound
    <2>9. QuitSound(x)
      BY <1>2, <2>5 DEF PlanFrame, QuitSound
    <2>10. Sound(x)
      BY <1>2, <2>4, <2>5, <2>6, <2>8, <2>9, SockStep
    <2>11. gui' \in ResolveAndConnect(x)
      BY <1>5, <2>1, <2>3
    <2>12. x.sock = "Off" /\ x.quit = "No"
      BY <1>2, <2>5, <2>6 DEF PlanFrame
    <2> QED BY <2>7, <2>10, <2>11, <2>12, ResolveAndConnectSound DEF Up
  <1> QED BY <1>m, <1>1, <1>4, <1>5 DEF ReconnectDelay, Fired

\* Without a connection, only a cleanup keeps a task alive.
LEMMA IdleTask ==
  ASSUME NEW s, Sound(s), s.sock # "LoggedIn", ~CleanupPending(s)
  PROVE  ~Live(s)
  BY SoundFields DEF RoomSound, PhaseSound, InRoomPhases, CleanupPending, Live

\* The one login after a recovery begins.
LEMMA RecoveryLoginSound ==
  ASSUME Sound(gui), RecoveryLogin
  PROVE  Sound(gui') /\ (gui'.sock = "LoggedIn" => gui.sock = "LoggedIn")
  <1>0. gui \in Guis /\ gui.loginTimer
    BY SoundFields DEF RecoveryLogin
  <1>a. gui.quit = "No"
    BY <1>0, SoundFields DEF QuitSound, Quiet
  <1>1. PICK t : t = [gui EXCEPT !.loginTimer = FALSE]
    OBVIOUS
  <1>2. t \in Guis
    BY <1>0, <1>1, GuiSet
  <1>3. RoomFrame(gui, t) /\ LinkFrame(gui, t)
    BY <1>0, <1>1 DEF Guis, RoomFrame, LinkFrame
  <1>4. /\ t.recovery = gui.recovery /\ t.want = gui.want /\ t.was = gui.was
        /\ t.resume = gui.resume /\ t.loginTimer = FALSE /\ t.named = gui.named
        /\ t.quit = gui.quit
    BY <1>0, <1>1 DEF Guis
  <1>5. Eases(gui, t)
    BY <1>2, <1>3, <1>4 DEF LinkFrame, Eases, Drops
  <1>6. Sound(t)
    BY <1>5, EaseSound
  <1>7. CASE ~t.login \/ t.sock \in Up \/ CleanupPending(t)
    BY <1>1, <1>3, <1>6, <1>7 DEF RecoveryLogin, LinkFrame
  <1>8. CASE ~(~t.login \/ t.sock \in Up \/ CleanupPending(t))
    <2>1. t.sock # "LoggedIn" /\ ~Live(t)
      BY <1>6, <1>8, IdleTask DEF Up
    <2>2. PICK x : x = [t EXCEPT !.login = FALSE, !.attempt = TRUE]
      OBVIOUS
    <2>3. x \in Guis
      BY <1>2, <2>2, GuiSet
    <2>4. RoomFrame(t, x) /\ PlanFrame(t, x)
      BY <1>2, <2>2 DEF Guis, RoomFrame, PlanFrame
    <2>5. /\ x.sock = t.sock /\ x.asked = t.asked /\ x.conn = t.conn
          /\ x.attempt = TRUE /\ x.logout = t.logout /\ x.timers = t.timers
          /\ x.attempts = t.attempts
      BY <1>2, <2>2 DEF Guis
    <2>6. ~Live(x)
      BY <2>1, <2>4, LiveJob DEF RoomFrame
    <2>7. LinkSound(x) /\ RetrySound(x) /\ ResolveSound(x)
      BY <1>6, <2>1, <2>5, <2>6, SoundFields DEF LinkSound, RetrySound, ResolveSound
    <2>8. x.quit = "No" /\ QuitSound(x)
      BY <1>a, <1>4, <2>4 DEF PlanFrame, QuitSound
    <2>9. Sound(x)
      BY <1>6, <2>1, <2>3, <2>4, <2>5, <2>7, <2>8, SockStep
    <2>10. gui' \in ResolveAndConnect(x)
      BY <1>1, <1>8, <2>2 DEF RecoveryLogin
    <2>11. x.sock \notin Up
      BY <1>8, <2>5
    <2>12. x.sock # "LoggedIn"
      BY <2>1, <2>5
    <2> QED BY <2>5, <2>6, <2>8, <2>9, <2>10, <2>11, <2>12, ResolveAndConnectSound
  <1> QED BY <1>7, <1>8

-----------------------------------------------------------------------------
(* Commands of the user *)

\* The user connects.
LEMMA OnConnectClickedSound ==
  ASSUME Sound(gui), OnConnectClicked
  PROVE  Sound(gui') /\ (gui'.sock = "LoggedIn" => gui.sock = "LoggedIn")
  <1>0. gui \in Guis /\ gui.quit = "No"
    BY SoundFields DEF OnConnectClicked, User
  <1>1. CASE gui.sock \in Up \/ Connecting(gui)
    BY <1>1, DisconnectFromServerSound DEF OnConnectClicked, Parting
  <1>2. CASE ~(gui.sock \in Up \/ Connecting(gui))
    <2>1. gui.sock = "Off"
      BY <1>0, <1>2, GuiFields DEF SockStates, Connecting
    <2>2. PICK c : c = CancelConnectionAttempt(gui)
      OBVIOUS
    <2>3. Sound(c) /\ c \in Guis /\ c.sock = "Off" /\ c.quit = "No"
      BY <1>0, <2>1, <2>2, SoundFields, CancelAttemptSound
    <2>4. PICK d : d = [c EXCEPT !.pass = FALSE]
      OBVIOUS
    <2>5. Sound(d) /\ d.sock = "Off" /\ d.quit = "No"
      <3>1. d \in Guis
        BY <2>3, <2>4, GuiSet
      <3>2. RoomFrame(c, d) /\ LinkFrame(c, d) /\ PlanFrame(c, d)
        BY <2>3, <2>4 DEF Guis, RoomFrame, LinkFrame, PlanFrame
      <3> QED BY <2>3, <3>1, <3>2, SameSound DEF LinkFrame, PlanFrame
    <2>6. PICK s \in {gui, d} :
            IF CleanupPending(s) THEN gui' = s
            ELSE gui' \in ResolveAndConnect(TeardownTun([s EXCEPT
                   !.login = FALSE, !.attempt = FALSE, !.blocked = FALSE,
                   !.named = TRUE]))
      BY <1>2, <2>2, <2>4 DEF OnConnectClicked
    <2>7. Sound(s) /\ s.sock = "Off" /\ s.quit = "No" /\ s \in Guis
      BY <1>0, <2>1, <2>5, <2>6, SoundFields
    <2>8. CASE CleanupPending(s)
      BY <2>6, <2>7, <2>8
    <2>9. CASE ~CleanupPending(s)
      <3>1. ~Live(s)
        BY <2>7, <2>9, IdleTask
      <3>2. PICK x : x = [s EXCEPT !.login = FALSE, !.attempt = FALSE,
                                   !.blocked = FALSE, !.named = TRUE]
        OBVIOUS
      <3>3. x \in Guis
        BY <2>7, <3>2, GuiSet
      <3>4. RoomFrame(s, x)
        BY <2>7, <3>2 DEF Guis, RoomFrame
      <3>5. /\ x.sock = s.sock /\ x.asked = s.asked /\ x.conn = s.conn
            /\ x.attempt = FALSE /\ x.logout = s.logout /\ x.timers = s.timers
            /\ x.attempts = s.attempts
        BY <2>7, <3>2 DEF Guis
      <3>6. /\ x.recovery = s.recovery /\ x.want = s.want /\ x.was = s.was
            /\ x.resume = s.resume /\ x.quit = s.quit
        BY <2>7, <3>2 DEF Guis
      <3>7. ~Live(x)
        BY <3>1, <3>4, LiveJob DEF RoomFrame
      <3>8. LinkSound(x) /\ RetrySound(x) /\ ResolveSound(x)
        BY <2>7, <3>5, <3>7, SoundFields DEF LinkSound, RetrySound, ResolveSound
      <3>9. RecoverySound(x)
        BY <2>7, <3>4, <3>6, SoundFields DEF RoomFrame, RecoverySound
      <3>10. QuitSound(x)
        BY <2>7, <3>6 DEF QuitSound
      <3>11. Sound(x)
        BY <2>7, <3>3, <3>4, <3>5, <3>6, <3>8, <3>9, <3>10, LinkStep
      <3>12. PICK y : y = TeardownTun(x)
        OBVIOUS
      <3>13. Sound(y) /\ TearsDown(x, y)
        BY <3>11, <3>12, TearSound
      <3>14. y.sock = "Off" /\ y.quit = "No" /\ ~Live(y)
        BY <2>7, <3>5, <3>6, <3>7, <3>13 DEF TearsDown, LinkFrame, PlanFrame
      <3>15. gui' \in ResolveAndConnect(y)
        BY <2>6, <2>9, <3>2, <3>12
      <3> QED BY <3>13, <3>14, <3>15, ResolveAndConnectSound DEF Up
    <2> QED BY <2>8, <2>9
  <1> QED BY <1>1, <1>2

\* The user creates or joins a room.
LEMMA OnRoomClickedSound ==
  ASSUME Sound(gui), OnRoomClicked
  PROVE  Sound(gui')
  BY RequestRoomSound DEF OnRoomClicked

\* The user leaves the room, cancels an operation or disconnects.
LEMMA OnLeaveRoomClickedSound ==
  ASSUME Sound(gui), OnLeaveRoomClicked
  PROVE  Sound(gui') /\ (gui'.sock = "LoggedIn" => gui.sock = "LoggedIn")
  <1>0. gui \in Guis
    BY SoundFields
  <1>1. PICK s : s = IF gui.asked THEN [gui EXCEPT !.want = FALSE, !.manual = TRUE]
                                  ELSE gui
    OBVIOUS
  <1>2. PICK t : t = IF gui.asked THEN Disconnect(s) ELSE s
    OBVIOUS
  <1>3. Sound(t) /\ (t.sock = "LoggedIn" => gui.sock = "LoggedIn")
    <2>1. CASE ~gui.asked
      BY <1>1, <1>2, <2>1
    <2>2. CASE gui.asked
      <3>1. PICK x : x = [gui EXCEPT !.want = FALSE, !.manual = TRUE]
        OBVIOUS
      <3>2. x \in Guis
        BY <1>0, <3>1, GuiSet
      <3>3. RoomFrame(gui, x) /\ LinkFrame(gui, x)
        BY <1>0, <3>1 DEF Guis, RoomFrame, LinkFrame
      <3>4. /\ x.recovery = gui.recovery /\ x.want = FALSE /\ x.was = gui.was
            /\ x.resume = gui.resume /\ x.loginTimer = gui.loginTimer
            /\ x.named = gui.named /\ x.quit = gui.quit
        BY <1>0, <3>1 DEF Guis
      <3>5. Eases(gui, x)
        BY <3>2, <3>3, <3>4 DEF LinkFrame, Eases, Drops
      <3>6. Firm(x)
        BY <3>5, EaseSound, SoundFields
      <3>7. t = Disconnect(x)
        BY <1>1, <1>2, <2>2, <3>1
      <3> QED BY <3>6, <3>7, DisconnectSound
    <2> QED BY <2>1, <2>2
  <1>4. PICK u : u = [t EXCEPT !.resume = FALSE]
    OBVIOUS
  <1>5. Sound(u) /\ u.sock = t.sock
    BY <1>3, <1>4, UnresumedSound
  <1>6. \/ gui' = BeginRoomRecovery(gui)
        \/ gui' = ResetRoomRuntimeState(TeardownTun(u))
    BY <1>1, <1>2, <1>4 DEF OnLeaveRoomClicked
  <1> QED BY <1>3, <1>5, <1>6, RecoverySoundly, GiveUpRoomSound DEF LinkFrame

\* The user quits.
LEMMA QuitProgramSound ==
  ASSUME Sound(gui), QuitProgram
  PROVE  Sound(gui')
  <1>1. PICK t \in DisconnectFromServer(gui) : gui' = [t EXCEPT !.quit = "Asked"]
    BY DEF QuitProgram
  <1>2. Parting(t)
    BY <1>1, DisconnectFromServerSound
  <1>3. Sound(t) /\ t \in Guis
    BY <1>2, SoundFields DEF Parting
  <1>4. PICK x : x = [t EXCEPT !.quit = "Asked"]
    OBVIOUS
  <1>5. x \in Guis
    BY <1>3, <1>4, GuiSet DEF QuitStates
  <1>6. RoomFrame(t, x) /\ LinkFrame(t, x)
    BY <1>3, <1>4 DEF Guis, RoomFrame, LinkFrame
  <1>7. /\ x.recovery = t.recovery /\ x.want = t.want /\ x.was = t.was
        /\ x.resume = t.resume /\ x.loginTimer = t.loginTimer /\ x.named = t.named
        /\ x.quit = "Asked"
    BY <1>3, <1>4 DEF Guis
  <1>8. (Live(x) <=> Live(t)) /\ (HasTask(x) <=> HasTask(t))
    BY <1>6, LiveJob DEF RoomFrame
  <1>9. JobSound(x.job) /\ RoomSound(x)
    BY <1>3, <1>6, <1>8, SoundFields DEF RoomFrame, RoomSound
  <1>10. LinkSound(x) /\ RetrySound(x)
    BY <1>3, <1>6, <1>8, SoundFields DEF LinkFrame, LinkSound, RetrySound
  <1>11. ResolveSound(x) /\ RecoverySound(x)
    BY <1>3, <1>6, <1>7, SoundFields
       DEF RoomFrame, LinkFrame, ResolveSound, RecoverySound
  <1>12. PhaseSound(x)
    BY <1>3, <1>6, <1>8, SoundFields DEF RoomFrame, LinkFrame, PhaseSound
  <1>13. LogoutSound(x)
    BY <1>2, <1>3, <1>6, <1>8, SoundFields DEF RoomFrame, LinkFrame, LogoutSound, Parting
  <1>14. QuitSound(x)
    BY <1>2, <1>6, <1>7 DEF RoomFrame, LinkFrame, QuitSound, Quiet, Parting
  <1>15. Sound(x)
    BY <1>5, <1>9, <1>10, <1>11, <1>12, <1>13, <1>14 DEF Sound, Firm, Base
  <1> QED BY <1>1, <1>4, <1>15

\* The program ends, once the session is closed and the adapter freed.
LEMMA FinishProgramQuitSound ==
  ASSUME Sound(gui), FinishProgramQuit
  PROVE  Sound(gui')
  <1>0. gui \in Guis /\ gui.quit = "Asked" /\ ~Busy(gui)
    BY SoundFields DEF FinishProgramQuit
  <1>1. ~gui.ready
    BY <1>0, SoundFields DEF QuitSound, Quiet
  <1>2. ~gui.job.adapter
    <2>1. ~HasTask(gui) \/ Done(gui)
      BY <1>0, <1>1 DEF Busy
    <2>2. gui.job.pc = "none" => ~gui.job.adapter
      BY SoundFields, NoJobSound DEF JobSound
    <2>3. gui.job.pc = "done" => ~gui.job.adapter
      BY SoundFields DEF JobSound
    <2> QED BY <2>1, <2>2, <2>3 DEF HasTask, Done
  <1>4. PICK x : x = [gui EXCEPT !.quit = "Done"]
    OBVIOUS
  <1>5. x \in Guis
    BY <1>0, <1>4, GuiSet DEF QuitStates
  <1>6. RoomFrame(gui, x) /\ LinkFrame(gui, x)
    BY <1>0, <1>4 DEF Guis, RoomFrame, LinkFrame
  <1>7. /\ x.recovery = gui.recovery /\ x.want = gui.want /\ x.was = gui.was
        /\ x.resume = gui.resume /\ x.loginTimer = gui.loginTimer
        /\ x.named = gui.named /\ x.quit = "Done"
    BY <1>0, <1>4 DEF Guis
  <1>8. (Live(x) <=> Live(gui)) /\ (HasTask(x) <=> HasTask(gui))
    BY <1>6, LiveJob DEF RoomFrame
  <1>9. JobSound(x.job) /\ RoomSound(x)
    BY <1>6, <1>8, SoundFields DEF RoomFrame, RoomSound
  <1>10. LinkSound(x) /\ RetrySound(x)
    BY <1>6, <1>8, SoundFields DEF LinkFrame, LinkSound, RetrySound
  <1>11. ResolveSound(x) /\ RecoverySound(x)
    BY <1>6, <1>7, SoundFields DEF RoomFrame, LinkFrame, ResolveSound, RecoverySound
  <1>12. PhaseSound(x)
    BY <1>6, <1>8, SoundFields DEF RoomFrame, LinkFrame, PhaseSound
  <1>13. LogoutSound(x)
    BY <1>0, <1>6, <1>8, SoundFields DEF RoomFrame, LinkFrame, LogoutSound
  <1>14. QuitSound(x)
    BY <1>0, <1>2, <1>6, <1>7, SoundFields DEF RoomFrame, LinkFrame, QuitSound, Quiet
  <1>15. Sound(x)
    BY <1>5, <1>9, <1>10, <1>11, <1>12, <1>13, <1>14 DEF Sound, Firm, Base
  <1> QED BY <1>4, <1>15 DEF FinishProgramQuit

-----------------------------------------------------------------------------
(* The theorems *)

\* The client starts sound: it is not connected and has no plan.
LEMMA InitSound == Init => GuiInv
  <1>1. SUFFICES ASSUME Init PROVE Sound(gui)
    BY DEF GuiInv
  <1>2. PICK j : j = NoJob
    OBVIOUS
  <1>3. j \in Jobs /\ JobSound(j) /\ j.pc = "none" /\ ~j.adapter
    BY <1>2, NoJobSound
  <1>4. 0 \in 0 .. MaxAttempts
    BY MaxAttemptsAssumption
  <1>5. gui = [job |-> j, phase |-> "Idle", late |-> FALSE, sock |-> "Off",
         asked |-> FALSE, block |-> FALSE, conn |-> "Idle", more |-> FALSE,
         op |-> FALSE, readiness |-> FALSE, poll |-> FALSE, ready |-> FALSE,
         room |-> FALSE, tun |-> FALSE, recovery |-> FALSE, login |-> FALSE,
         loginTimer |-> FALSE, attempt |-> FALSE, logout |-> "No",
         manual |-> FALSE, want |-> FALSE, scheduled |-> FALSE, timers |-> {},
         attempts |-> 0, was |-> FALSE, resume |-> FALSE, blocked |-> FALSE,
         named |-> FALSE, pass |-> FALSE, deferred |-> FALSE, quit |-> "No"]
    BY <1>1, <1>2 DEF Init
  <1>6. gui \in Guis
    BY <1>3, <1>4, <1>5, ZenonT(60) DEF Guis
  <1>7. /\ gui.job = j /\ gui.phase = "Idle" /\ gui.late = FALSE /\ gui.sock = "Off"
        /\ gui.asked = FALSE /\ gui.conn = "Idle" /\ gui.readiness = FALSE
        /\ gui.ready = FALSE /\ gui.tun = FALSE /\ gui.recovery = FALSE
        /\ gui.timers = {} /\ gui.quit = "No"
    BY <1>5
  <1>8. ~HasTask(gui) /\ ~Live(gui)
    BY <1>3, <1>7 DEF HasTask, Live
  <1>9. RoomSound(gui) /\ PhaseSound(gui) /\ LogoutSound(gui)
    BY <1>7, <1>8 DEF RoomSound, PhaseSound, LogoutSound, InRoomPhases
  <1>10. LinkSound(gui) /\ RetrySound(gui) /\ ResolveSound(gui)
    BY <1>7, <1>8 DEF LinkSound, RetrySound, ResolveSound
  <1>11. RecoverySound(gui) /\ QuitSound(gui)
    BY <1>7 DEF RecoverySound, QuitSound
  <1> QED BY <1>3, <1>6, <1>7, <1>9, <1>10, <1>11 DEF Sound, Firm, Base

\* Every step of the client or of its worker keeps the invariant.
LEMMA StepSound == GuiInv /\ [Next]_vars => GuiInv'
  <1>1. SUFFICES ASSUME Sound(gui), [Next]_vars PROVE Sound(gui')
    BY DEF GuiInv
  <1>2. CASE UNCHANGED vars
    BY <1>1, <1>2 DEF vars
  <1>3. CASE \/ WorkerStage \/ WorkerPublish \/ WorkerLend \/ WorkerThrow
             \/ WorkerTest \/ WorkerSleep \/ SpuriousWake \/ WorkerClean
             \/ AdapterBreaks
    BY <1>1, <1>3, WorkerStageSound, WorkerPublishSound, WorkerLendSound,
       WorkerCleanSound
  <1>4. CASE \/ OnHostResolved \/ OnSignalConnectFailed \/ OnSocketConnected
             \/ PromptServerPassword \/ OnSignalConnected \/ OnSignalDisconnected
             \/ OnFatalAuthError \/ OnServerError \/ OnLoginResponse
    BY <1>1, <1>4, OnHostResolvedSound, OnSignalConnectFailedSound,
       OnSocketConnectedSound, PromptServerPasswordSound, OnSignalConnectedSound,
       OnSignalDisconnectedSound, OnFatalAuthErrorSound, OnServerErrorSound,
       OnLoginResponseSound
  <1>5. CASE \/ OnRoomList \/ (\E joined \in BOOLEAN : OnRoomResponse(joined))
             \/ OnRoomOperationUncertain \/ OnRoomPasswordError \/ OnLogoutAck
             \/ OnSecurityFailure \/ OnTunRuntimeError
    BY <1>1, <1>5, OnRoomListSound, OnRoomResponseSound,
       OnRoomOperationUncertainSound, OnRoomPasswordErrorSound, LogoutEndsSound,
       OnSecurityFailureSound, OnTunRuntimeErrorSound
  <1>6. CASE \/ DeferredDisconnect \/ LogoutDeadline \/ DeadlinePasses
             \/ PollRoomOperation \/ PollRoomReadiness \/ ReconnectPoll
             \/ ReconnectDelay \/ RecoveryLogin
    BY <1>1, <1>6, DeferredDisconnectSound, LogoutEndsSound, DeadlinePassesSound,
       PollRoomOperationSound, PollRoomReadinessSound, ReconnectPollSound,
       ReconnectDelaySound, RecoveryLoginSound
  <1>7. CASE \/ OnConnectClicked \/ OnRoomClicked \/ OnLeaveRoomClicked
             \/ QuitProgram \/ FinishProgramQuit \/ Ended
    BY <1>1, <1>7, OnConnectClickedSound, OnRoomClickedSound,
       OnLeaveRoomClickedSound, QuitProgramSound, FinishProgramQuitSound DEF Ended
  <1> QED BY <1>1, <1>2, <1>3, <1>4, <1>5, <1>6, <1>7 DEF Next

\* In every reachable state, for every limit on the reconnects, the members of
\* RoomManager and SignalClient, their timers and the task of the worker agree
\* as GuiInv says.
THEOREM GuiSafe == Spec => []GuiInv
  BY InitSound, StepSound, PTL DEF Spec

\* The flags of RoomManager never disagree, in any order of failure, cancel,
\* recovery, reconnect and quit.
THEOREM GuiFlagsSafe == Spec => []FlagsAgree
  <1>1. GuiInv => FlagsAgree
    <2>1. SUFFICES ASSUME Sound(gui) PROVE TypeOK /\ PhaseMatches
      BY DEF GuiInv, FlagsAgree
    <2>2. RoomSound(gui) /\ LogoutSound(gui) /\ gui \in Guis
      BY <2>1, SoundFields
    <2> QED BY <2>2 DEF TypeOK, PhaseMatches, RoomSound, LogoutSound
  <1> QED BY <1>1, GuiSafe, PTL

\* The adapter RoomManager borrows from its lifecycle task is never one the
\* worker has been told to free, or has freed.
THEOREM GuiAdapterSafe == Spec => []AdapterBorrowed
  <1>1. GuiInv => AdapterBorrowed
    <2>1. SUFFICES ASSUME Sound(gui) PROVE AdapterBorrowed
      BY DEF GuiInv
    <2>2. RoomSound(gui) /\ QuitSound(gui) /\ JobSound(gui.job)
      BY <2>1, SoundFields
    <2> QED BY <2>2 DEF AdapterBorrowed, RoomSound, QuitSound, JobSound, Lent
  <1> QED BY <1>1, GuiSafe, PTL

\* No step but the answer to a login makes a client logged in.
LEMMA LoginOnly ==
  ASSUME Sound(gui), gui.sock # "LoggedIn", gui'.sock = "LoggedIn", [Next]_vars
  PROVE  OnLoginResponse
  <1>0. gui \in Guis
    BY SoundFields
  <1>p. gui.phase \notin InRoomPhases
    BY SoundFields DEF PhaseSound
  <1>r. ~gui.readiness /\ ~gui.ready
    BY <1>p, SoundFields DEF RoomSound, InRoomPhases
  <1>1. ~UNCHANGED vars
    BY DEF vars
  <1>2. ~(\/ WorkerStage \/ WorkerPublish \/ WorkerLend \/ WorkerThrow \/ WorkerTest
          \/ WorkerSleep \/ SpuriousWake \/ WorkerClean \/ AdapterBreaks)
    BY <1>0, ZenonT(60)
    DEF WorkerStage, WorkerPublish, WorkerLend, WorkerThrow, WorkerTest,
        WorkerSleep, SpuriousWake, WorkerClean, AdapterBreaks, Guis
  <1>3. ~OnHostResolved
    <2>1. \A more : [Unlinked(gui) EXCEPT !.conn = "Connecting", !.sock = "Connecting",
                                          !.more = more].sock = "Connecting"
      BY <1>0 DEF Guis, Unlinked
    <2>2. gui.conn = "Resolving" => Exhausted(gui).sock = gui.sock
      BY ExhaustedSound
    <2> QED BY <2>1, <2>2 DEF OnHostResolved
  <1>4. ~OnSignalConnectFailed
    <2>1. [gui EXCEPT !.more = FALSE].sock = gui.sock
      BY <1>0 DEF Guis
    <2>2. PICK v : v = Unlinked(gui)
      OBVIOUS
    <2>3. Sound(v) /\ v.sock = "Off"
      BY <2>2, SoundFields, UnlinkedSound
    <2>4. Exhausted(v).sock = "Off"
      BY <2>3, ExhaustedSound
    <2> QED BY <2>1, <2>2, <2>4 DEF OnSignalConnectFailed
  <1>5. ~OnSocketConnected /\ ~OnSignalConnected
    BY <1>0 DEF Guis, OnSocketConnected, OnSignalConnected
  <1>6. ~PromptServerPassword
    <2>1. [gui EXCEPT !.pass = TRUE, !.blocked = FALSE].sock = gui.sock
      BY <1>0 DEF Guis
    <2> QED BY <2>1, DisconnectFromServerSound DEF PromptServerPassword
  <1>7. ~OnSignalDisconnected /\ ~OnSecurityFailure
    BY SoundFields, SignalDisconnectedSound, DisconnectSound
       DEF OnSignalDisconnected, OnSecurityFailure
  <1>8. ~OnFatalAuthError
    <2>1. PICK f : f = FatalAuthError(gui)
      OBVIOUS
    <2>2. Sound(f) /\ ~f.resume
      BY <2>1, FatalAuthErrorSound
    <2>3. Disconnect(ServerError(f)).sock = "Off"
      BY <2>2, ServerErrorSound, SoundFields, DisconnectSound
    <2> QED BY <2>1, <2>3 DEF OnFatalAuthError
  <1>9. ~OnServerError
    BY ServerErrorSound, HandshakeFacts DEF OnServerError
  <1>10. /\ ~OnRoomList /\ (\A joined : ~OnRoomResponse(joined))
         /\ ~OnRoomOperationUncertain /\ ~OnRoomPasswordError /\ ~OnLogoutAck
         /\ ~OnRoomClicked
    BY DEF OnRoomList, OnRoomResponse, OnRoomOperationUncertain, OnRoomPasswordError,
       OnLogoutAck, OnRoomClicked, Answers
  <1>11. ~OnTunRuntimeError /\ ~PollRoomReadiness /\ ~DeadlinePasses
    BY <1>p, <1>r DEF OnTunRuntimeError, PollRoomReadiness, DeadlinePasses, InRoomPhases
  <1>12. ~LogoutDeadline /\ ~DeferredDisconnect
    BY FinishManualSound, DeferredDisconnectSound DEF LogoutDeadline
  <1>13. ~PollRoomOperation
    BY PolledSound DEF PollRoomOperation
  <1>14. ~ReconnectPoll
    <2>1. PICK t : t = [gui EXCEPT !.timers = @ \ {"Poll"}, !.scheduled = FALSE]
      OBVIOUS
    <2>2. t \in Guis /\ t.sock = gui.sock
      <3>1. PICK m : m = gui.timers \ {"Poll"}
        OBVIOUS
      <3>2. m \in SUBSET {"Poll", "Delay"}
        BY <1>0, <3>1, GuiFields
      <3>3. PICK x : x = [gui EXCEPT !.timers = m, !.scheduled = FALSE]
        OBVIOUS
      <3>4. x \in Guis
        BY <1>0, <3>2, <3>3, GuiSet
      <3>5. x.sock = gui.sock
        BY <1>0, <3>3 DEF Guis
      <3> QED BY <2>1, <3>1, <3>3, <3>4, <3>5
    <2> QED BY <2>1, <2>2, ScheduleLink DEF ReconnectPoll
  <1>15. ~ReconnectDelay /\ ~RecoveryLogin /\ ~OnConnectClicked /\ ~OnLeaveRoomClicked
    BY ReconnectDelaySound, RecoveryLoginSound, OnConnectClickedSound,
       OnLeaveRoomClickedSound
  <1>16. ~QuitProgram /\ ~FinishProgramQuit /\ ~Ended
    <2>1. ASSUME NEW t \in DisconnectFromServer(gui), gui' = [t EXCEPT !.quit = "Asked"]
          PROVE  FALSE
      <3>1. t \in Guis /\ t.sock # "LoggedIn"
        BY <2>1, DisconnectFromServerSound, SoundFields DEF Parting
      <3> QED BY <2>1, <3>1 DEF Guis
    <2>2. [gui EXCEPT !.quit = "Done"].sock = gui.sock
      BY <1>0 DEF Guis
    <2> QED BY <2>1, <2>2 DEF QuitProgram, FinishProgramQuit, Ended
  <1> QED
    BY <1>1, <1>2, <1>3, <1>4, <1>5, <1>6, <1>7, <1>8, <1>9, <1>10, <1>11, <1>12,
       <1>13, <1>14, <1>15, <1>16 DEF Next

\* A recovery leaves no plan to reconnect, to rejoin or to resume, and the
\* login that follows it only logs in to the lobby: a client that becomes
\* logged in by it has no room to rejoin and asks for none.
THEOREM GuiNoReplay == Spec => NoReplay
  <1>1. GuiInv /\ GuiInv' /\ [Next]_vars =>
          [/\ gui'.recovery => ~gui'.want /\ ~gui'.was /\ ~gui'.resume
           /\ gui.attempt /\ gui'.sock = "LoggedIn" =>
                ~gui'.want /\ ~gui'.was /\ ~gui'.asked]_vars
    <2>1. SUFFICES ASSUME Sound(gui), Sound(gui'), [Next]_vars
                   PROVE  /\ gui'.recovery => ~gui'.want /\ ~gui'.was /\ ~gui'.resume
                          /\ gui.attempt /\ gui'.sock = "LoggedIn" =>
                               ~gui'.want /\ ~gui'.was /\ ~gui'.asked
      BY DEF GuiInv
    <2>2. gui'.recovery => ~gui'.want /\ ~gui'.was /\ ~gui'.resume
      BY <2>1, SoundFields DEF RecoverySound
    <2>3. ASSUME gui.attempt, gui'.sock = "LoggedIn"
          PROVE  ~gui'.want /\ ~gui'.was /\ ~gui'.asked
      <3>1. gui.sock # "LoggedIn"
        BY <2>1, <2>3, SoundFields DEF LinkSound
      <3>2. OnLoginResponse
        BY <2>1, <2>3, <3>1, LoginOnly
      <3> QED BY <2>1, <2>3, <3>2, OnLoginResponseSound
    <2> QED BY <2>2, <2>3
  <1> QED BY <1>1, GuiSafe, PTL DEF Spec, NoReplay

=============================================================================
