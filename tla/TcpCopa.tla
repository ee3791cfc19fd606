------------------------------- MODULE TcpCopa -------------------------------
(***************************************************************************)
(* TcpCopa (internet/model/tcp-copa.cc), the congestion control of the     *)
(* video over TCP.  ns-3's socket calls CongControl with every ACK; twice  *)
(* per round-trip time the measurements gathered are reported and the      *)
(* window moves.                                                           *)
(*                                                                         *)
(* The smoothed round-trip time is a constant, times are kept as the time  *)
(* passed since an event, and the two windowed minimum filters of ns-3 as  *)
(* the minimum they stand for; a run is shorter than the ten seconds after *)
(* which m_minRttFilter forgets.  Integers keep the width they have in the *)
(* code where a run may exceed it.  The latency factor m_deltaParam is     *)
(* 1 / inverse, rounded to a whole inverse.  Whether losses make up a      *)
(* tenth of a cycle is left open if there was one.  The pacing rate, which *)
(* follows the window and is not read, is left out.                        *)
(***************************************************************************)
EXTENDS Integers

CONSTANTS
    Mss,            \* m_segmentSize
    InitialCwnd,    \* m_cWnd to begin with
    Srtt,           \* m_lastRtt
    Rtts,           \* round-trip times a sample may have
    Gaps,           \* times between two ACKs
    AckedBytes,     \* what an ACK may acknowledge
    DetectSpan,     \* the time tcp_detected looks back: 10 * srtt
    DetectSlack,    \* what it adds to its threshold: 0.1 ms
    StartTime,      \* simulated time when the connection starts
    UseRttStanding, \* m_useRttStanding
    MaxWindow,      \* bound: no ACK once the window is larger
    VelocityRange,  \* 2^64: m_velocityState.velocity is a uint64_t
    ChangeRange,    \* 2^32: the change of the window is made a uint32_t
    MaxInverse      \* bound: 1 / m_deltaParam

ASSUME CopaAssumption ==
    /\ Mss \in Nat \ {0, 1} /\ InitialCwnd \in Nat /\ InitialCwnd >= 8 * Mss
    /\ Srtt \in Nat \ {0} /\ Srtt % 2 = 0
    /\ Rtts \subseteq Nat \ {0} /\ Gaps \subseteq Nat \ {0} /\ AckedBytes \subseteq Nat \ {0}
    /\ {DetectSpan, DetectSlack, StartTime} \subseteq Nat /\ UseRttStanding \in BOOLEAN
    /\ VelocityRange \in Nat \ {0, 1} /\ ChangeRange \in Nat
    /\ MaxWindow \in Nat /\ MaxInverse \in Nat \ {0, 1}

VARIABLES
    cwnd,           \* tcb->m_cWnd
    acked,          \* m_reportAckedBytes
    lost,           \* m_reportLostBytes > 0
    seen,           \* m_minRttFilter, m_standingRttFilter, copa_rtts and
                    \* copa_times: the time since each value was last sampled
    uptime,         \* Simulator::Now(), up to DetectSpan
    sinceReport,    \* time since m_lastReportTime
    slowStart,      \* m_isSlowStart
    sinceDouble,    \* time since m_lastCwndDoubleTime, or Never
    v,              \* m_velocityState and m_TotalAckedBytes
    mode,           \* m_copaCurMode
    inverse,        \* 1 / m_deltaParam
    sinceCycle,     \* time since m_prevLossCycle
    curLost,        \* m_curNumLosses > 0
    lossy,          \* m_prevLossRate >= 0.1
    timedOut,       \* history: the socket had a retransmission timeout
    overshot        \* history: the last move of the window went against the
                    \* direction recorded, with a velocity above one

modeVars == <<mode, inverse, sinceCycle, curLost, lossy>>
windowVars == <<cwnd, slowStart, sinceDouble, v, overshot>>
vars == <<acked, lost, seen, uptime, sinceReport, modeVars, windowVars, timedOut>>

Never == -1
DefaultInverse == 2
Floor == 4 * Mss

Least(a, b) == IF a < b THEN a ELSE b
Greatest(a, b) == IF a < b THEN b ELSE a
Lowest(S) == CHOOSE x \in S : \A y \in S : x <= y
Most(S) == CHOOSE x \in S : \A y \in S : y <= x

\* bound: longer than any cycle of losses.
LongCycle == 2 * Most(Rtts) + 1

\* The time passed, up to where it no longer matters.
Later(since, gap, bound) == IF since = Never THEN Never ELSE Least(since + gap, bound)

\* The constructors.  m_TotalAckedBytes is not initialised: it may hold enough
\* to end the first window at once.
Init ==
    /\ cwnd = InitialCwnd
    /\ acked = 0 /\ lost = FALSE
    /\ seen = [r \in Rtts |-> Never]
    /\ uptime = Least(StartTime, DetectSpan)
    /\ sinceReport = 0
    /\ slowStart = TRUE /\ sinceDouble = Never
    /\ \E garbage \in {0, MaxWindow} :
           v = [velocity |-> 1, direction |-> "None", since |-> 0,
                recorded |-> 0, recording |-> FALSE, total |-> garbage]
    /\ mode = "Default" /\ inverse = DefaultInverse
    /\ sinceCycle = 0 /\ curLost = FALSE /\ lossy = FALSE
    /\ timedOut = FALSE
    /\ overshot = FALSE

\* new_rtt_sample and the filters.
Sampled(rtt, gap) ==
    [r \in Rtts |-> IF r = rtt THEN 0 ELSE Later(seen[r], gap, DetectSpan)]

\* m_minRttFilter.GetBest()
RttMin(s) == Lowest({r \in Rtts : s[r] # Never})

\* m_standingRttFilter.GetBest(): over half a round-trip time, and since the
\* report that reset it.
RttStanding(s, elapsed) ==
    Lowest({r \in Rtts : s[r] # Never /\ s[r] <= Srtt \div 2 /\ s[r] < elapsed})

\* tcp_detected: no sample near the minimum for some round-trip times.  While
\* the simulation is younger than that its unsigned difference wraps: no sample
\* is recent, and a flow counts as detected.
TcpDetected(s) ==
    LET recent == {r \in Rtts : s[r] # Never /\ s[r] < DetectSpan}
        low == RttMin(s)
    IN  \/ uptime' < DetectSpan
        \/ Lowest(recent) > low + (Most(recent) - low) \div 10 + DetectSlack

------------------------------------------------------------------------------
\* Fault: a loss doubles the latency factor without a limit.
FaultyInverseIn(m, loses) ==
    IF m = "Default" THEN DefaultInverse
    ELSE IF loses THEN inverse \div 2
    ELSE IF m = "TCPCoop" THEN Least(inverse + 1, MaxInverse) ELSE inverse

\* m_deltaParam in a mode: doubled after a loss, but at most the default;
\* otherwise 1 / (1 + 1 / delta) in competition, and kept under loss.
InverseIn(m, loses) ==
    IF m = "Default" THEN DefaultInverse
    ELSE IF loses THEN Greatest(inverse \div 2, DefaultInverse)
    ELSE IF m = "TCPCoop" THEN Least(inverse + 1, MaxInverse) ELSE inverse

\* ReportMeasurement.
ReportMeasurement(s, gap, loses) ==
    LET cycleEnds == sinceCycle + gap > 2 * RttMin(s)
        anyLost == curLost \/ loses
    IN  /\ curLost' = (anyLost /\ ~cycleEnds)
        /\ sinceCycle' = IF cycleEnds THEN 0 ELSE Later(sinceCycle, gap, LongCycle)
        /\ lossy' \in IF ~cycleEnds THEN {lossy} ELSE IF anyLost THEN BOOLEAN ELSE {FALSE}
        /\ mode' = IF lossy' THEN "TCPLoss" ELSE IF TcpDetected(s) THEN "TCPCoop" ELSE "Default"
        /\ inverse' = InverseIn(mode', loses)

------------------------------------------------------------------------------
\* CheckAndUpdateDirection: once a window's worth is acknowledged.  A velocity
\* that has doubled to 2^64 is 0, and stays so until the direction changes.
CheckAndUpdateDirection(w, bytes) ==
    LET new == IF cwnd > w.recorded THEN "Up" ELSE "Down"
        doubled == IF w.since > 3 * Srtt THEN (2 * w.velocity) % VelocityRange ELSE w.velocity
        same == new = w.direction
    IN  IF ~w.recording THEN [w EXCEPT !.recording = TRUE, !.recorded = cwnd]
        ELSE IF w.total + bytes < cwnd THEN [w EXCEPT !.total = @ + bytes]
        ELSE [w EXCEPT !.velocity = IF same THEN doubled ELSE 1,
                       !.since = IF same THEN @ ELSE 0,
                       !.direction = new, !.recorded = cwnd, !.total = 0]

\* Fault: the velocity survives the turn.
FaultyChangeDirection(w, dir) ==
    [w EXCEPT !.direction = dir, !.since = 0, !.recorded = cwnd]

\* ChangeDirection to another direction than before.
ChangeDirection(w, dir) ==
    [w EXCEPT !.direction = dir, !.velocity = 1, !.since = 0, !.recorded = cwnd]

\* A move against the direction while the velocity is high.
Turned(w, dir) ==
    IF w.direction # dir /\ w.velocity > 1 THEN ChangeDirection(w, dir) ELSE w

\* The amount the window may move by.  A quotient of doubles that no uint32_t
\* holds becomes any number; it is then limited to the window.
Changes(bytes, velocity) ==
    LET packets == (bytes + Mss - 1) \div Mss
        quotient == (packets * Mss * Mss * velocity * inverse') \div cwnd
    IN  IF quotient < ChangeRange THEN {Least(quotient, cwnd)} ELSE 0 .. cwnd

\* target_rate >= current_rate
IncreaseCwnd(delay, standing) ==
    delay = 0 \/ Mss * standing * inverse' >= cwnd * delay

\* Slow start: the window doubles once per round-trip time.
Doubling(bytes, gap) ==
    /\ cwnd' = IF sinceDouble # Never /\ sinceDouble + gap > Srtt THEN cwnd + bytes ELSE cwnd
    /\ sinceDouble' = IF sinceDouble = Never \/ sinceDouble + gap > Srtt THEN 0
                      ELSE sinceDouble + gap
    /\ UNCHANGED <<slowStart, v, overshot>>

\* Fault: slow start is not left.
FaultyLeft(w) == slowStart

Left(w) == FALSE

\* The window moves with the velocity found before a turn resets it.  After
\* slow start the time of the last doubling is not read again.
Move(dir, w, bytes, gap) ==
    \E change \in Changes(bytes, w.velocity) :
        LET lower == Greatest(cwnd - change, Floor)
        IN  /\ cwnd' = IF dir = "Up" THEN cwnd + change
                       ELSE IF slowStart THEN Least(cwnd \div 2, lower) ELSE lower
            /\ v' = Turned(w, dir)
            /\ slowStart' = IF dir = "Up" THEN slowStart ELSE Left(w)
            /\ sinceDouble' = IF slowStart' THEN Later(sinceDouble, gap, Srtt + 1) ELSE Never
            /\ overshot' = (w.direction \notin {"None", dir} /\ w.velocity > 1)

\* CongControl with an ACK, gap after the one before.
CongControl(bytes, loses, rtt, gap) ==
    LET s == Sampled(rtt, gap)
        elapsed == sinceReport + gap
        total == acked + bytes
        w == [v EXCEPT !.since = Least(@ + gap, 3 * Srtt + 1)]
        standing == RttStanding(s, elapsed)
        delay == (IF UseRttStanding THEN standing ELSE rtt) - RttMin(s)
        up == IncreaseCwnd(delay, standing)
    IN  /\ cwnd <= MaxWindow
        /\ seen' = s
        /\ uptime' = Least(uptime + gap, DetectSpan)
        /\ IF 2 * elapsed <= Srtt
           THEN /\ acked' = total /\ lost' = (lost \/ loses)
                /\ sinceReport' = elapsed
                /\ sinceCycle' = Later(sinceCycle, gap, LongCycle)
                /\ sinceDouble' = Later(sinceDouble, gap, Srtt + 1)
                /\ v' = w
                /\ UNCHANGED <<mode, inverse, curLost, lossy, cwnd, slowStart, overshot>>
           ELSE /\ acked' = 0 /\ lost' = FALSE
                /\ sinceReport' = 0
                /\ ReportMeasurement(s, gap, lost \/ loses)
                /\ IF up /\ slowStart THEN /\ Doubling(total, gap)
                   ELSE Move(IF up THEN "Up" ELSE "Down",
                             CheckAndUpdateDirection(w, total), total, gap)
        /\ UNCHANGED timedOut

Ack ==
    \E bytes \in AckedBytes, loses \in BOOLEAN, rtt \in Rtts, gap \in Gaps :
        CongControl(bytes, loses, rtt, gap)

\* ns-3's socket on a retransmission timeout.
Timeout ==
    /\ cwnd' = Mss
    /\ timedOut' = TRUE
    /\ UNCHANGED <<acked, lost, seen, uptime, sinceReport, modeVars, slowStart,
                   sinceDouble, v, overshot>>

Next == Ack \/ Timeout

Spec == Init /\ [][Next]_vars

------------------------------------------------------------------------------
\* The types; the latency factor is never above its default, and back at it in
\* the default mode, whatever losses and competition came before
\* (ReportMeasurement).
CopaTypeOK ==
    /\ cwnd \in Nat \ {0} /\ acked \in Nat /\ lost \in BOOLEAN
    /\ seen \in [Rtts -> {Never} \cup 0 .. DetectSpan] /\ uptime \in 0 .. DetectSpan
    /\ sinceReport \in Nat /\ slowStart \in BOOLEAN
    /\ sinceDouble \in {Never} \cup 0 .. Srtt + 1
    /\ v.velocity \in 0 .. VelocityRange - 1 /\ v.direction \in {"None", "Up", "Down"}
    /\ mode \in {"Default", "TCPCoop", "TCPLoss"}
    /\ inverse \in DefaultInverse .. MaxInverse
    /\ mode = "Default" => inverse = DefaultInverse

\* The velocity is above one only when the direction has been the same for
\* more than three round-trip times (the comment of CheckAndUpdateDirection).
VelocityEarned == v.velocity > 1 => v.since > 3 * Srtt

\* The window stays at four segments or more.  Only a timeout, and slow start
\* left after one, bring it lower, and never below half a segment
\* (kMinCwndSegment).
WindowFloor == cwnd >= IF timedOut THEN Mss \div 2 ELSE Floor

\* Violated: "we should reset it to 1" when the direction changes while the
\* velocity is still high (tcp-copa.cc:221-225).  The code resets the velocity
\* only after computing the change the window makes.
TurnsAtVelocityOne == ~overshot
==============================================================================
