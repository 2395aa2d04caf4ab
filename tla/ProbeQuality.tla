---------------------------- MODULE ProbeQuality ----------------------------
(***************************************************************************)
(* The quality of one path to one peer: ProbeQualityTracker                *)
(* (common/probe_quality.h) driven by PeerConnection (sendLatencyPing,     *)
(* handleLatencyProbe, reportLocalTransportSend, clearTransport) and by    *)
(* the one second timer onLatencyUpdate of the room.  The CLI client runs  *)
(* the same tracker in the same way.                                       *)
(*                                                                         *)
(* One tick of clock is one second.  The code reads the clock as a uint32  *)
(* of milliseconds that wraps around; Now is that reading, clock the true  *)
(* time nobody can read.  A path sends at most one probe a second and an   *)
(* identifier is used once (the 32 bit counter of nextProbeEchoId needs    *)
(* 136 years to repeat), so the model names a probe by the second it was   *)
(* sent in and the deque m_records is a function from these names, whose   *)
(* order is that of the deque.  A peer may answer late, never, or twice.   *)
(***************************************************************************)
EXTENDS Integers

CONSTANTS
    Kinds,       \* the transports a path may run on (TransportType)
    NoPath,      \* TRANSPORT_NONE: the path is being rebuilt
    Never,       \* no such time, no such probe
    TIMEOUT,     \* TIMEOUT_MS in seconds (scaled)
    WINDOW,      \* WINDOW_MS in seconds (scaled)
    ClockMod,    \* the period of the clock, 2^32 ms in the code (scaled)
    Start,       \* what the clock shows when the peer joins
    Horizon,     \* the model follows the path for this long
    MaxFaults    \* lost paths, refused sends and resumed peers it follows

ASSUME ClockAssumption ==
    /\ TIMEOUT \in Nat \ {0} /\ WINDOW \in Nat /\ 2 * TIMEOUT < WINDOW
    /\ ClockMod \in Nat /\ Start \in Nat
    /\ Horizon \in Nat /\ WINDOW < Horizon /\ 2 * Horizon < ClockMod
    /\ MaxFaults \in Nat
ASSUME PathAssumption == NoPath \notin Kinds /\ Never \notin Int

VARIABLES
    clock,       \* seconds since the peer joined
    due,         \* onLatencyUpdate is due
    transport,   \* PeerConnection::m_transport of this traffic class
    quality,     \* the members of the tracker
    sending,     \* the probe sendLatencyPing is handing to the transport
    faults,      \* how often something failed (bounded by MaxFaults)
    truth        \* history variable: true times of what the tracker keeps

qualityVars == <<clock, due, transport, quality, sending, faults, truth>>

Now == (Start + clock) % ClockMod

\* BUG: the difference of two readings is not reduced to 32 bits.
AgeUnreduced(a, b) == a - b
\* BUG: every loss counts as newer than the last reply.
NotBeforeAlways(a, b) == TRUE

\* Unsigned subtraction, and the sign of the difference cast to int32_t.
Age(a, b) == (a - b) % ClockMod
NotBefore(a, b) == 2 * Age(a, b) < ClockMod

(***************************************************************************)
(* The tracker.  Each operator maps the members before a call to those     *)
(* after it.                                                               *)
(***************************************************************************)
States == {"Pending", "Replied", "TimedOut", "SendFailed"}

Record(now) == [sent |-> now, replyAt |-> 0, state |-> "Pending",
                committed |-> FALSE, earlyReply |-> FALSE]

\* A settled record is only counted: the members read while it is pending are
\* cleared.
Settle(r, state) == [r EXCEPT !.state = state, !.replyAt = 0,
                              !.committed = FALSE, !.earlyReply = FALSE]

Reset(q) == [pathKind |-> q.pathKind, enabled |-> q.enabled, records |-> <<>>,
             started |-> FALSE, outage |-> FALSE, queueSendFailure |-> FALSE,
             transportSendFailure |-> FALSE, hasReply |-> FALSE, reference |-> 0,
             lastReply |-> 0, rtt |-> -1, recoveryReplies |-> 0]

Suspend(q) ==
    LET settled == {id \in DOMAIN q.records : q.records[id].state # "Pending"}
    IN  [q EXCEPT !.enabled = FALSE, !.records = [id \in settled |-> @[id]]]

SetPath(q, kind) ==
    [(IF q.pathKind # kind THEN Reset(q) ELSE q) EXCEPT !.pathKind = kind, !.enabled = TRUE]

LocalFailure(q) == q.queueSendFailure \/ q.transportSendFailure

\* A committed probe times out, old records leave the window from the front,
\* and a path that heard nothing for TIMEOUT is in an outage.
Expire(q, now) ==
    LET Late(r) == r.state = "Pending" /\ r.committed /\ Age(now, r.sent) >= TIMEOUT
        newLoss == \E id \in DOMAIN q.records :
                      /\ Late(q.records[id])
                      /\ ~q.hasReply \/ NotBefore(q.records[id].sent, q.lastReply)
        kept == {id \in DOMAIN q.records :
                    \E first \in DOMAIN q.records :
                        first <= id /\ Age(now, q.records[first].sent) < WINDOW}
        silent == /\ q.enabled /\ q.started /\ ~LocalFailure(q)
                  /\ Age(now, q.reference) >= TIMEOUT
    IN  [q EXCEPT !.records = [id \in kept |-> IF Late(@[id]) THEN Settle(@[id], "TimedOut")
                                              ELSE @[id]],
                  !.outage = @ \/ silent,
                  !.recoveryReplies = IF newLoss \/ silent THEN 0 ELSE @]

IsPending(q, id) == id \in DOMAIN q.records /\ q.records[id].state = "Pending"

\* BUG: the first answer ends the outage.
AcceptFirstReply(q, id, now) ==
    [q EXCEPT !.records[id] = Settle(@, "Replied"), !.rtt = Age(now, q.records[id].sent),
              !.hasReply = TRUE, !.lastReply = now, !.reference = now, !.outage = FALSE]

AcceptReply(q, id, now) ==
    LET recovered == q.outage /\ q.recoveryReplies + 1 >= 2
    IN  [q EXCEPT !.records[id] = Settle(@, "Replied"),
                  !.rtt = Age(now, q.records[id].sent),
                  !.hasReply = TRUE, !.lastReply = now, !.reference = now,
                  !.outage = @ /\ ~recovered,
                  !.recoveryReplies = IF ~q.outage THEN @
                                      ELSE IF recovered THEN 0 ELSE @ + 1]

BeginProbe(q, id, now) ==
    LET e == Expire(q, now)
        Added(records) == [i \in DOMAIN records \cup {id} |->
                              IF i = id THEN Record(now) ELSE records[i]]
    IN  IF e.enabled THEN [e EXCEPT !.records = Added(@)] ELSE e

CompleteSend(q, id, now, success) ==
    LET sent == q.records[id].sent
        failed == [q EXCEPT !.queueSendFailure = ~success,
                            !.records[id] = Settle(@, "SendFailed")]
        restart == ~q.started \/ (LocalFailure(q) /\ ~q.outage)
        committed == [q EXCEPT !.queueSendFailure = FALSE,
                               !.records[id].committed = TRUE,
                               !.started = TRUE,
                               !.reference = IF restart THEN sent ELSE @]
    IN  IF ~IsPending(q, id) THEN q
        ELSE IF ~success \/ q.transportSendFailure THEN failed
        ELSE Expire(IF q.records[id].earlyReply
                    THEN AcceptReply(committed, id, q.records[id].replyAt)
                    ELSE committed, now)

\* BUG: every datagram the socket takes counts as a sign of life.
ReportSignOfLife(q, now, success) ==
    [Expire(q, now) EXCEPT !.transportSendFailure = ~success,
                           !.reference = IF success THEN now ELSE @]

ReportTransportSend(q, now, success) ==
    LET e == Expire(q, now)
        Cancel(r) == IF r.state = "Pending" THEN Settle(r, "SendFailed") ELSE r
    IN  IF success
        THEN [e EXCEPT !.transportSendFailure = FALSE,
                       !.reference = IF e.transportSendFailure /\ ~e.outage THEN now ELSE @]
        ELSE [e EXCEPT !.transportSendFailure = TRUE,
                       !.records = [id \in DOMAIN @ |-> Cancel(@[id])]]

Reply(q, id, now) ==
    LET e == Expire(q, now)
        r == e.records[id]
    IN  IF ~e.enabled \/ ~IsPending(e, id) \/ Age(now, r.sent) >= TIMEOUT THEN e
        ELSE IF r.committed THEN AcceptReply(e, id, now)
        ELSE IF r.earlyReply THEN e
        ELSE [e EXCEPT !.records[id].earlyReply = TRUE, !.records[id].replyAt = now]

LatencyMs(q, now) ==
    IF ~q.enabled \/ ~q.hasReply \/ Age(now, q.lastReply) >= TIMEOUT THEN -1 ELSE q.rtt

(***************************************************************************)
(* What really happened, in true time: when the answer to each probe the   *)
(* tracker keeps arrived, if it did in time; when the last accepted answer *)
(* arrived; when the outage was raised and whether one or two answers were *)
(* accepted since; since when the path has been watched (in use, a probe   *)
(* sent, no local failure) without a break.                                *)
(***************************************************************************)
In(q, states) == {id \in DOMAIN q.records : q.records[id].state \in states}
Replied(q) == In(q, {"Replied"})
Watched(q) == q.enabled /\ q.started /\ ~LocalFailure(q)

\* How the history follows a call that turns the tracker into q; arrived is
\* the probe whose answer the call delivers, or Never.
Remember(q, arrived) ==
    LET answered == [id \in In(q, States \ {"SendFailed"}) |->
                        IF id \in DOMAIN truth.answered /\ truth.answered[id] # Never
                        THEN truth.answered[id]
                        ELSE IF id = arrived /\ clock - id < TIMEOUT THEN clock ELSE Never]
        new == Replied(q) \ Replied(quality)
        before == IF quality.outage /\ q.hasReply THEN truth.answers ELSE 0
    IN  truth' = [answered |-> answered,
                  heard |-> IF ~q.hasReply THEN Never
                            ELSE IF new = {} THEN truth.heard
                            ELSE answered[CHOOSE id \in new : TRUE],
                  raised |-> IF ~q.outage THEN Never
                             ELSE IF quality.outage THEN truth.raised ELSE clock,
                  answers |-> IF new = {} \/ before = 2 THEN before ELSE before + 1,
                  watched |-> IF ~Watched(q) THEN Never
                              ELSE IF truth.watched # Never THEN truth.watched ELSE clock]

Becomes(q, arrived) == quality' = q /\ Remember(q, arrived)

-----------------------------------------------------------------------------
(***************************************************************************)
(* The calls PeerConnection and the room make, all in one thread: while a  *)
(* probe is being handed to the transport only the callbacks of the        *)
(* transport run.                                                          *)
(***************************************************************************)
QualityInit ==
    /\ clock = 0 /\ due = FALSE /\ transport = NoPath /\ sending = Never /\ faults = 0
    /\ quality = Reset([pathKind |-> NoPath, enabled |-> FALSE])
    /\ truth = [answered |-> <<>>, heard |-> Never,
                answers |-> 0, raised |-> Never, watched |-> Never]

Fault(happens) ==
    /\ happens => faults < MaxFaults
    /\ faults' = IF happens THEN faults + 1 ELSE faults

\* A second passes; the timer fires before the next one has passed.  Handing
\* a probe to a transport does not block and takes no time on this scale.
Tick ==
    /\ clock < Horizon /\ ~due /\ sending = Never
    /\ clock' = clock + 1 /\ due' = TRUE
    /\ UNCHANGED <<transport, quality, sending, faults, truth>>

\* setTransport when a tunnel has been built.
PathUp(kind) ==
    /\ sending = Never /\ transport = NoPath
    /\ transport' = kind
    /\ Becomes(SetPath(quality, kind), Never)
    /\ UNCHANGED <<clock, due, sending, faults>>

\* clearTransport when a tunnel is dead and waits to be rebuilt.
PathDown ==
    /\ sending = Never /\ transport # NoPath
    /\ Fault(TRUE)
    /\ transport' = NoPath
    /\ Becomes(Suspend(quality), Never)
    /\ UNCHANGED <<clock, due, sending>>

\* onPeerResumed: resetQuality, a snapshot, and the transports are removed.
PeerResumed ==
    /\ sending = Never
    /\ Fault(TRUE)
    /\ transport' = NoPath
    /\ LET q == Expire(Reset(quality), Now)
       IN  Becomes(IF transport # NoPath THEN Suspend(q) ELSE q, Never)
    /\ UNCHANGED <<clock, due, sending>>

\* onLatencyUpdate while the path is down: sendLatencyPing returns at once
\* and qualitySnapshot expires what is too old.
UpdateWithoutPath ==
    /\ due /\ sending = Never /\ transport = NoPath
    /\ due' = FALSE
    /\ Becomes(Expire(quality, Now), Never)
    /\ UNCHANGED <<clock, transport, sending, faults>>

\* onLatencyUpdate: sendLatencyPing registers the probe ...
SendLatencyPing ==
    /\ due /\ sending = Never /\ transport # NoPath
    /\ due' = FALSE /\ sending' = clock
    /\ Becomes(BeginProbe(quality, clock, Now), Never)
    /\ UNCHANGED <<clock, transport, faults>>

\* ... and completes it when sendControlPacket returns, accepted or not by
\* the transport; qualitySnapshot follows.
SendControlPacketReturns(success) ==
    /\ sending # Never
    /\ Fault(~success)
    /\ sending' = Never
    /\ Becomes(Expire(CompleteSend(quality, sending, Now, success), Now), Never)
    /\ UNCHANGED <<clock, due, transport>>

\* reportLocalTransportSend: the socket took, or refused, a datagram.
LocalTransportSend(success) ==
    /\ transport # NoPath
    /\ Fault(~success)
    /\ Becomes(ReportTransportSend(quality, Now, success), Never)
    /\ UNCHANGED <<clock, due, transport, sending>>

\* handleLatencyProbe: an answer to any probe ever sent, however late.
HandleLatencyPong(id) ==
    /\ transport # NoPath
    /\ Becomes(Reply(quality, id, Now), id)
    /\ UNCHANGED <<clock, due, transport, sending, faults>>

QualityNext ==
    \/ Tick
    \/ \E kind \in Kinds : PathUp(kind)
    \/ PathDown
    \/ PeerResumed
    \/ UpdateWithoutPath
    \/ SendLatencyPing
    \/ \E success \in BOOLEAN : SendControlPacketReturns(success)
    \/ \E success \in BOOLEAN : LocalTransportSend(success)
    \/ \E id \in 0..clock : HandleLatencyPong(id)

QualitySpec == QualityInit /\ [][QualityNext]_qualityVars

-----------------------------------------------------------------------------
(* Properties *)

Since(t) == clock - t

\* The members have their types.
QualityTypeOK ==
    /\ clock \in 0..Horizon /\ due \in BOOLEAN /\ faults \in 0..MaxFaults
    /\ transport \in Kinds \cup {NoPath} /\ sending \in 0..Horizon \cup {Never}
    /\ quality.recoveryReplies \in 0..1
    /\ \A id \in DOMAIN quality.records : quality.records[id].state \in States

\* Every record tells the truth although its times are wrapped readings: a
\* probe counts as answered only if its own answer came in time, as lost only
\* if none did, stays open only while that is undecided, and no record
\* outlives the window (expire, reply, completeSend; the percentage shown to
\* the user is computed from these records).
VerdictsTrue ==
    /\ QualityTypeOK
    /\ \A id \in DOMAIN quality.records :
          LET r == quality.records[id]
              answered == truth.answered[id]
          IN  /\ Since(id) <= WINDOW
              /\ r.state = "Replied" => answered # Never
              /\ r.state = "TimedOut" => answered = Never /\ Since(id) >= TIMEOUT
              /\ r.state = "Pending" => /\ Since(id) <= TIMEOUT
                                        /\ r.committed => answered = Never

\* A warning is earned: an outage is not raised while the peer is heard or the
\* failure is a local one, and it ends only when two answers were accepted
\* since it was raised, or with a reset of the history (expire, acceptReply).
OutageEarned ==
    [][/\ quality'.outage /\ ~quality.outage
            => /\ Watched(quality)
               /\ truth.heard = Never \/ Since(truth.heard) >= TIMEOUT
       /\ quality.outage /\ ~quality'.outage /\ quality'.hasReply
            => truth'.answers = 2]_qualityVars

\* A path that is watched and silent for longer than the timeout is in an
\* outage: no sequence of rebuilds, failures and late answers hides it.
SilenceNoticed ==
    /\ truth.watched # Never /\ Since(truth.watched) > TIMEOUT
    /\ truth.heard = Never \/ Since(truth.heard) > TIMEOUT
    => quality.outage

\* Two answers that arrive within the timeout of each other end an outage:
\* probes lost before the first of them do not delay the recovery although
\* their deadlines pass after it (expire compares the time a lost probe was
\* sent with that of the last reply).
RecoveryPrompt ==
    quality.outage =>
        \A a, b \in {id \in Replied(quality) : truth.answered[id] >= truth.raised} :
            a # b => \/ truth.answered[b] - truth.answered[a] >= TIMEOUT
                     \/ truth.answered[a] - truth.answered[b] >= TIMEOUT

\* The latency shown is the true round trip of an answer of the last TIMEOUT
\* seconds (latencyMs).
LatencyFresh ==
    LatencyMs(quality, Now) # -1
      => /\ truth.heard # Never /\ Since(truth.heard) < TIMEOUT
         /\ \E id \in Replied(quality) :
               /\ truth.answered[id] = truth.heard
               /\ LatencyMs(quality, Now) = truth.heard - id

\* What the user is shown is true: the share of lost probes and the latency.
ReportsTrue == VerdictsTrue /\ LatencyFresh
=============================================================================
