---------------------------- MODULE TcpCopaProofs ----------------------------
(***************************************************************************)
(* What holds of TcpCopa for every value of its constants: the types and   *)
(* the range of the latency factor, that a velocity above one is earned,   *)
(* and that the window keeps its floor.                                    *)
(***************************************************************************)
EXTENDS TcpCopa, TLAPS

\* m_velocityState and m_TotalAckedBytes.
VelocityState ==
    [velocity : 0 .. VelocityRange - 1, direction : {"None", "Up", "Down"},
     since : 0 .. 3 * Srtt + 1, recorded : Nat, recording : BOOLEAN, total : Nat]

\* Slow start begins with twice the floor and is left once, halving the window
\* at most: that is why the window is at the floor afterwards.
SlowStartRoom ==
    slowStart => cwnd >= Mss /\ (~timedOut => cwnd >= 2 * Floor)

\* The inductive invariant.
CopaInv ==
    /\ CopaTypeOK /\ timedOut \in BOOLEAN /\ v \in VelocityState
    /\ VelocityEarned
    /\ WindowFloor
    /\ SlowStartRoom

\* A velocity state that is well formed, and earned.
Earned(w) == w \in VelocityState /\ (w.velocity > 1 => w.since > 3 * Srtt)

\* The constructors give a state of the invariant.
LEMMA CopaInitial == Init => CopaInv
<1> SUFFICES ASSUME Init PROVE CopaInv
  OBVIOUS
<1>1. CopaTypeOK
  <2>1. seen \in [Rtts -> {Never} \cup 0 .. DetectSpan]
    BY DEF Init
  <2>2. /\ cwnd \in Nat \ {0} /\ acked \in Nat /\ sinceReport \in Nat
        /\ sinceDouble \in {Never} \cup 0 .. Srtt + 1
        /\ inverse \in DefaultInverse .. MaxInverse /\ uptime \in 0 .. DetectSpan
    BY CopaAssumption, SMT DEF Init, DefaultInverse, Least
  <2>3. v.velocity \in 0 .. VelocityRange - 1 /\ v.direction = "None"
    BY CopaAssumption, SMT DEF Init
  <2> QED
    BY <2>1, <2>2, <2>3 DEF Init, CopaTypeOK
<1>2. v \in VelocityState /\ VelocityEarned
  BY CopaAssumption, SMT DEF Init, VelocityState, VelocityEarned
<1>3. WindowFloor /\ SlowStartRoom
  BY CopaAssumption, SMT DEF Init, WindowFloor, SlowStartRoom, Floor
<1> QED
  BY <1>1, <1>2, <1>3 DEF CopaInv, Init

\* A retransmission timeout only shrinks the window to a segment.
LEMMA TimeoutStep == ASSUME CopaInv, Timeout PROVE CopaInv'
<1>1. CopaTypeOK' /\ timedOut' \in BOOLEAN /\ v' = v
  BY CopaAssumption, SMT DEF CopaInv, CopaTypeOK, Timeout, modeVars
<1>2. WindowFloor' /\ SlowStartRoom'
  BY CopaAssumption, SMT DEF Timeout, WindowFloor, SlowStartRoom
<1> QED
  BY <1>1, <1>2 DEF CopaInv, VelocityEarned, VelocityState

------------------------------------------------------------------------------
\* A time passed stays within its bound (CongControl's comparisons with it).
LEMMA LaterType ==
    ASSUME NEW bound \in Nat, NEW since \in {Never} \cup 0 .. bound, NEW gap \in Nat
    PROVE  Later(since, gap, bound) \in {Never} \cup 0 .. bound
BY SMT DEF Later, Least, Never

\* The time since the last turn only grows (CongControl).
LEMMA AgedEarned ==
    ASSUME CopaInv, NEW gap \in Gaps
    PROVE  Earned([v EXCEPT !.since = Least(@ + gap, 3 * Srtt + 1)])
BY CopaAssumption, SMT DEF CopaInv, VelocityEarned, VelocityState, Earned, Least

\* A new velocity, direction and time make an earned state again, whatever is
\* recorded with them.
LEMMA Renewed ==
    ASSUME NEW w \in VelocityState, NEW n \in 0 .. VelocityRange - 1, NEW t \in 0 .. 3 * Srtt + 1,
           NEW dir \in {"None", "Up", "Down"}, NEW r \in Nat, NEW k \in Nat,
           n > 1 => t > 3 * Srtt
    PROVE  Earned([w EXCEPT !.velocity = n, !.since = t, !.direction = dir,
                            !.recorded = r, !.total = k])
<1> DEFINE e == [w EXCEPT !.velocity = n, !.since = t, !.direction = dir,
                          !.recorded = r, !.total = k]
<1>1. e \in VelocityState
  BY ZenonT(60) DEF VelocityState
<1>2. e.velocity = n /\ e.since = t
  BY ZenonT(60) DEF VelocityState
<1> QED
  BY <1>1, <1>2 DEF Earned

\* CheckAndUpdateDirection doubles a velocity only once it has lasted.
LEMMA CheckedEarned ==
    ASSUME CopaInv, NEW w, Earned(w), NEW bytes \in Nat
    PROVE  Earned(CheckAndUpdateDirection(w, bytes))
<1> DEFINE new == IF cwnd > w.recorded THEN "Up" ELSE "Down"
           doubled == IF w.since > 3 * Srtt THEN (2 * w.velocity) % VelocityRange ELSE w.velocity
<1>1. cwnd \in Nat /\ w \in VelocityState /\ (w.velocity > 1 => w.since > 3 * Srtt)
  BY DEF CopaInv, CopaTypeOK, Earned
<1>2. new \in {"None", "Up", "Down"}
  OBVIOUS
<1>3. doubled \in 0 .. VelocityRange - 1 /\ (doubled > 1 => w.since > 3 * Srtt)
  <2>1. w.velocity \in 0 .. VelocityRange - 1 /\ VelocityRange \in Nat \ {0, 1}
    BY <1>1, CopaAssumption DEF VelocityState
  <2>2. (2 * w.velocity) % VelocityRange \in 0 .. VelocityRange - 1
    BY <2>1, SMT
  <2> QED
    BY <1>1, <2>1, <2>2
<1> HIDE DEF new, doubled
<1>8. 1 \in 0 .. VelocityRange - 1 /\ 0 \in 0 .. 3 * Srtt + 1 /\ ~(1 > 1) /\ 0 \in Nat
  BY CopaAssumption, SMT
<1>4. Earned([w EXCEPT !.recording = TRUE, !.recorded = cwnd])
  BY <1>1, Zenon DEF Earned, VelocityState
<1>5. Earned([w EXCEPT !.total = @ + bytes])
  BY <1>1, SMT DEF Earned, VelocityState
<1>6. Earned([w EXCEPT !.velocity = doubled, !.since = @, !.direction = new,
                       !.recorded = cwnd, !.total = 0])
  BY <1>1, <1>2, <1>3, Renewed DEF VelocityState
<1>7. Earned([w EXCEPT !.velocity = 1, !.since = 0, !.direction = new,
                       !.recorded = cwnd, !.total = 0])
  BY <1>1, <1>2, <1>8, Renewed
<1> QED
  BY <1>4, <1>5, <1>6, <1>7 DEF CheckAndUpdateDirection, new, doubled

\* A turn resets what it finds (ChangeDirection).
LEMMA TurnedEarned ==
    ASSUME CopaInv, NEW w, Earned(w), NEW dir \in {"Up", "Down"}
    PROVE  Earned(Turned(w, dir))
<1> DEFINE e == [w EXCEPT !.direction = dir, !.velocity = 1, !.since = 0, !.recorded = cwnd]
<1>1. 1 \in 0 .. VelocityRange - 1 /\ 0 \in 0 .. 3 * Srtt + 1 /\ ~(1 > 1) /\ cwnd \in Nat
  BY CopaAssumption, SMT DEF CopaInv, CopaTypeOK
<1>2. e \in VelocityState
  BY <1>1, ZenonT(60) DEF Earned, VelocityState
<1>3. e.velocity = 1
  BY ZenonT(60) DEF Earned, VelocityState
<1>4. Earned(e)
  BY <1>1, <1>2, <1>3 DEF Earned
<1> QED
  BY <1>4 DEF Turned, ChangeDirection

\* ReportMeasurement keeps the latency factor in range, and at its default in
\* the default mode.
LEMMA ReportStep ==
    ASSUME CopaInv, NEW s, NEW gap, NEW loses, ReportMeasurement(s, gap, loses)
    PROVE  /\ mode' \in {"Default", "TCPCoop", "TCPLoss"}
           /\ inverse' \in DefaultInverse .. MaxInverse
           /\ mode' = "Default" => inverse' = DefaultInverse
<1>1. mode' \in {"Default", "TCPCoop", "TCPLoss"}
  BY DEF ReportMeasurement
<1>2. inverse' = InverseIn(mode', loses)
  BY DEF ReportMeasurement
<1>3. inverse \in DefaultInverse .. MaxInverse
  BY DEF CopaInv, CopaTypeOK
<1>4. inverse \div 2 \in Nat /\ inverse \div 2 <= inverse
  BY <1>3, SMT DEF DefaultInverse
<1>5. InverseIn(mode', loses) \in DefaultInverse .. MaxInverse
  BY <1>3, <1>4, CopaAssumption, SMT DEF InverseIn, Greatest, Least, DefaultInverse
<1> QED
  BY <1>1, <1>2, <1>5 DEF InverseIn

\* The change of the window is never more than the window (CongControl).
LEMMA ChangeType ==
    ASSUME CopaInv, NEW bytes \in Nat, NEW velocity \in Nat, inverse' \in Nat
    PROVE  Changes(bytes, velocity) \subseteq 0 .. cwnd
<1> DEFINE packets == (bytes + Mss - 1) \div Mss
           product == packets * Mss * Mss * velocity * inverse'
<1>1. cwnd \in Nat \ {0} /\ Mss \in Nat \ {0}
  BY CopaAssumption DEF CopaInv, CopaTypeOK
<1>2. packets \in Nat
  <2>1. bytes + Mss - 1 \in Nat
    BY <1>1, SMT
  <2> QED
    BY <1>1, <2>1, SMT
<1> HIDE DEF packets
<1>3. product \in Nat
  <2>1. packets * Mss \in Nat
    BY <1>1, <1>2, SMT
  <2>2. packets * Mss * Mss \in Nat
    BY <1>1, <2>1, SMT
  <2>3. packets * Mss * Mss * velocity \in Nat
    BY <2>2, SMT
  <2> QED
    BY <2>3, SMT
<1> HIDE DEF product
<1>4. product \div cwnd \in Nat
  BY <1>1, <1>3, SMT
<1>5. Changes(bytes, velocity) = IF product \div cwnd < ChangeRange
                                 THEN {Least(product \div cwnd, cwnd)} ELSE 0 .. cwnd
  BY DEF Changes, product, packets
<1>6. Least(product \div cwnd, cwnd) \in 0 .. cwnd
  BY <1>1, <1>4, SMT DEF Least
<1> QED
  BY <1>5, <1>6

------------------------------------------------------------------------------
\* What a report leaves of the window, velocity and slow start.
WindowKept ==
    /\ cwnd' \in Nat \ {0} /\ slowStart' \in BOOLEAN
    /\ sinceDouble' \in {Never} \cup 0 .. Srtt + 1
    /\ Earned(v')
    /\ timedOut' = timedOut => WindowFloor' /\ SlowStartRoom'

\* Doubling only enlarges the window (slow start of CongControl).
LEMMA DoublingStep ==
    ASSUME CopaInv, NEW bytes \in Nat, NEW gap \in Gaps, Doubling(bytes, gap)
    PROVE  WindowKept
<1>1. /\ cwnd \in Nat \ {0} /\ slowStart \in BOOLEAN
      /\ sinceDouble \in {Never} \cup 0 .. Srtt + 1 /\ gap \in Nat
      /\ Srtt \in Nat /\ Mss \in Nat
  BY CopaAssumption DEF CopaInv, CopaTypeOK
<1>2. cwnd' \in Nat \ {0} /\ cwnd' >= cwnd
  BY <1>1, SMT DEF Doubling
<1>3. sinceDouble' \in {Never} \cup 0 .. Srtt + 1
  BY <1>1, SMT DEF Doubling, Never
<1>4. Earned(v')
  BY DEF Doubling, CopaInv, VelocityEarned, Earned
<1>5. ASSUME timedOut' = timedOut PROVE WindowFloor' /\ SlowStartRoom'
  <2>1. slowStart' = slowStart /\ Mss \div 2 \in Nat /\ Floor \in Nat
    BY <1>1, SMT DEF Doubling, Floor
  <2>2. WindowFloor /\ SlowStartRoom
    BY DEF CopaInv
  <2>3. WindowFloor'
    BY <1>1, <1>2, <1>5, <2>1, <2>2, SMT DEF WindowFloor, Floor
  <2>4. SlowStartRoom'
    BY <1>1, <1>2, <1>5, <2>1, <2>2, SMT DEF SlowStartRoom, Floor
  <2> QED
    BY <2>3, <2>4
<1> QED
  BY <1>1, <1>2, <1>3, <1>4, <1>5 DEF WindowKept, Doubling

\* A move down stops at the floor, and halves the window when it ends slow
\* start, which has room for that.
LEMMA MoveStep ==
    ASSUME CopaInv, inverse' \in Nat, NEW dir \in {"Up", "Down"}, NEW w, Earned(w),
           NEW bytes \in Nat, NEW gap \in Gaps, Move(dir, w, bytes, gap)
    PROVE  WindowKept
<1> PICK change \in Changes(bytes, w.velocity) :
       LET lower == Greatest(cwnd - change, Floor)
       IN  /\ cwnd' = IF dir = "Up" THEN cwnd + change
                      ELSE IF slowStart THEN Least(cwnd \div 2, lower) ELSE lower
           /\ v' = Turned(w, dir)
           /\ slowStart' = IF dir = "Up" THEN slowStart ELSE Left(w)
           /\ sinceDouble' = IF slowStart' THEN Later(sinceDouble, gap, Srtt + 1) ELSE Never
  BY DEF Move
<1> DEFINE lower == Greatest(cwnd - change, Floor)
<1>1. /\ cwnd \in Nat \ {0} /\ slowStart \in BOOLEAN
      /\ sinceDouble \in {Never} \cup 0 .. Srtt + 1 /\ gap \in Nat
      /\ Srtt + 1 \in Nat /\ Mss \in Nat \ {0, 1}
  BY CopaAssumption, SMT DEF CopaInv, CopaTypeOK
<1>2. change \in 0 .. cwnd
  <2>1. w.velocity \in Nat
    BY CopaAssumption, SMT DEF Earned, VelocityState
  <2> QED
    BY <2>1, ChangeType
<1>3. Floor \in Nat \ {0} /\ Floor = 4 * Mss /\ Mss \div 2 \in Nat \ {0} /\ Mss \div 2 <= Mss
  BY <1>1, SMT DEF Floor
<1>4. lower \in Nat /\ lower >= Floor
  BY <1>1, <1>2, <1>3, SMT DEF Greatest
<1> HIDE DEF lower
<1>5. /\ slowStart' = IF dir = "Up" THEN slowStart ELSE FALSE
      /\ cwnd' = IF dir = "Up" THEN cwnd + change
                 ELSE IF slowStart THEN Least(cwnd \div 2, lower) ELSE lower
      /\ v' = Turned(w, dir)
  BY DEF Left, lower
<1>6. WindowFloor /\ SlowStartRoom
  BY DEF CopaInv
<1>7. cwnd >= Mss \div 2 /\ (slowStart => cwnd >= 2)
  BY <1>1, <1>3, <1>6, SMT DEF WindowFloor, SlowStartRoom
<1>8. cwnd' \in Nat \ {0}
  BY <1>1, <1>2, <1>3, <1>4, <1>5, <1>7, SMT DEF Least
<1>9. sinceDouble' \in {Never} \cup 0 .. Srtt + 1
  <2>1. Later(sinceDouble, gap, Srtt + 1) \in {Never} \cup 0 .. Srtt + 1
    BY <1>1, LaterType
  <2> QED
    BY <2>1
<1>10. Earned(v')
  BY <1>5, TurnedEarned
<1>11. ASSUME timedOut' = timedOut PROVE WindowFloor' /\ SlowStartRoom'
  <2>1. timedOut \in BOOLEAN /\ timedOut' \in BOOLEAN
    BY <1>11 DEF CopaInv
  <2>2. CASE dir = "Up"
    <3>1. cwnd' >= cwnd /\ slowStart' = slowStart
      BY <1>1, <1>2, <1>5, <2>2, SMT
    <3>2. WindowFloor'
      BY <1>1, <1>3, <1>6, <1>8, <1>11, <3>1, SMT DEF WindowFloor, Floor
    <3>3. SlowStartRoom'
      BY <1>1, <1>3, <1>6, <1>8, <1>11, <3>1, SMT DEF SlowStartRoom, Floor
    <3> QED
      BY <3>2, <3>3
  <2>3. CASE dir = "Down" /\ ~slowStart
    <3>1. cwnd' = lower /\ ~slowStart'
      BY <1>5, <2>3
    <3>2. WindowFloor'
      BY <1>1, <1>3, <1>4, <3>1, SMT DEF WindowFloor, Floor
    <3> QED
      BY <3>1, <3>2 DEF SlowStartRoom
  <2>4. CASE dir = "Down" /\ slowStart
    <3>1. cwnd' = Least(cwnd \div 2, lower) /\ ~slowStart'
      BY <1>5, <2>4
    <3>2. cwnd >= Mss /\ (~timedOut => cwnd >= 2 * Floor)
      BY <1>6, <2>4 DEF SlowStartRoom
    <3>3. cwnd \div 2 \in Nat /\ cwnd \div 2 >= Mss \div 2
      BY <1>1, <3>2, SMT
    <3>4. ~timedOut => cwnd \div 2 >= Floor
      BY <1>1, <1>3, <3>2, SMT
    <3>5. cwnd' >= Mss \div 2 /\ (~timedOut => cwnd' >= Floor)
      BY <1>1, <1>3, <1>4, <3>1, <3>3, <3>4, SMT DEF Least
    <3>6. WindowFloor'
      BY <1>1, <1>11, <3>5 DEF WindowFloor, Floor
    <3> QED
      BY <3>1, <3>6 DEF SlowStartRoom
  <2> QED
    BY <1>1, <2>2, <2>3, <2>4
<1>12. slowStart' \in BOOLEAN
  BY <1>1, <1>5
<1> QED
  BY <1>8, <1>9, <1>10, <1>11, <1>12 DEF WindowKept

------------------------------------------------------------------------------
\* An ACK, reported or only gathered, keeps the invariant.
LEMMA AckStep ==
    ASSUME CopaInv, NEW bytes \in AckedBytes, NEW loses \in BOOLEAN, NEW rtt \in Rtts,
           NEW gap \in Gaps, CongControl(bytes, loses, rtt, gap)
    PROVE  CopaInv'
<1> DEFINE s == Sampled(rtt, gap)
           elapsed == sinceReport + gap
           total == acked + bytes
           w == [v EXCEPT !.since = Least(@ + gap, 3 * Srtt + 1)]
           standing == RttStanding(s, elapsed)
           delay == (IF UseRttStanding THEN standing ELSE rtt) - RttMin(s)
           up == IncreaseCwnd(delay, standing)
           dir == IF up THEN "Up" ELSE "Down"
<1>1. total \in Nat /\ elapsed \in Nat /\ gap \in Nat
  BY CopaAssumption, SMT DEF CopaInv, CopaTypeOK
<1>2. seen' = s /\ timedOut' = timedOut
  BY DEF CongControl
<1>3. s \in [Rtts -> {Never} \cup 0 .. DetectSpan]
  <2>1. \A r \in Rtts : Later(seen[r], gap, DetectSpan) \in {Never} \cup 0 .. DetectSpan
    BY <1>1, LaterType, CopaAssumption DEF CopaInv, CopaTypeOK
  <2>2. 0 \in 0 .. DetectSpan
    BY CopaAssumption, SMT
  <2> QED
    BY <2>1, <2>2 DEF Sampled
<1>4. Earned(w)
  BY AgedEarned
<1>7. uptime' \in 0 .. DetectSpan
  <2>1. uptime' = Least(uptime + gap, DetectSpan)
    BY DEF CongControl
  <2>2. uptime \in 0 .. DetectSpan /\ DetectSpan \in Nat
    BY CopaAssumption DEF CopaInv, CopaTypeOK
  <2> QED
    BY <1>1, <2>1, <2>2, SMT DEF Least
<1>5. CASE 2 * elapsed <= Srtt
  <2>1. /\ acked' = total /\ lost' = (lost \/ loses) /\ sinceReport' = elapsed
        /\ sinceDouble' = Later(sinceDouble, gap, Srtt + 1) /\ v' = w
        /\ UNCHANGED <<mode, inverse, cwnd, slowStart>>
    BY <1>5 DEF CongControl
  <2>2. sinceDouble' \in {Never} \cup 0 .. Srtt + 1
    <3>1. Srtt + 1 \in Nat
      BY CopaAssumption, SMT
    <3> QED
      BY <1>1, <2>1, <3>1, LaterType DEF CopaInv, CopaTypeOK
  <2>3. v' \in VelocityState /\ VelocityEarned'
    BY <1>4, <2>1 DEF Earned, VelocityEarned
  <2>4. WindowFloor' /\ SlowStartRoom'
    BY <1>2, <2>1 DEF CopaInv, WindowFloor, SlowStartRoom
  <2>5. v'.velocity \in 0 .. VelocityRange - 1 /\ v'.direction \in {"None", "Up", "Down"}
    BY <2>3 DEF VelocityState
  <2>6. CopaTypeOK'
    BY <1>1, <1>2, <1>3, <1>7, <2>1, <2>2, <2>5 DEF CopaInv, CopaTypeOK
  <2> QED
    BY <1>2, <2>3, <2>4, <2>6 DEF CopaInv
<1>6. CASE ~(2 * elapsed <= Srtt)
  <2>1. /\ acked' = 0 /\ lost' = FALSE /\ sinceReport' = 0
        /\ ReportMeasurement(s, gap, lost \/ loses)
        /\ IF up /\ slowStart THEN Doubling(total, gap)
           ELSE Move(dir, CheckAndUpdateDirection(w, total), total, gap)
    BY <1>6 DEF CongControl
  <2>2. /\ mode' \in {"Default", "TCPCoop", "TCPLoss"}
        /\ inverse' \in DefaultInverse .. MaxInverse
        /\ mode' = "Default" => inverse' = DefaultInverse
    BY <2>1, ReportStep
  <2>3. inverse' \in Nat
    BY <2>2, CopaAssumption, SMT DEF DefaultInverse
  <2>4. WindowKept
    <3>1. CASE up /\ slowStart
      BY <1>1, <2>1, <3>1, DoublingStep
    <3>2. CASE ~(up /\ slowStart)
      <4>1. dir \in {"Up", "Down"}
        OBVIOUS
      <4>2. Earned(CheckAndUpdateDirection(w, total))
        BY <1>1, <1>4, CheckedEarned
      <4>3. Move(dir, CheckAndUpdateDirection(w, total), total, gap)
        BY <2>1, <3>2
      <4> HIDE DEF dir, w, total
      <4> QED
        BY <1>1, <2>3, <4>1, <4>2, <4>3, MoveStep
    <3> QED
      BY <3>1, <3>2
  <2>5. v' \in VelocityState /\ VelocityEarned'
    BY <2>4 DEF WindowKept, Earned, VelocityEarned
  <2>6. v'.velocity \in 0 .. VelocityRange - 1 /\ v'.direction \in {"None", "Up", "Down"}
    BY <2>5 DEF VelocityState
  <2>7. CopaTypeOK'
    BY <1>2, <1>3, <1>7, <2>1, <2>2, <2>4, <2>6 DEF CopaTypeOK, WindowKept
  <2> QED
    BY <1>2, <2>4, <2>5, <2>7 DEF CopaInv, WindowKept
<1> QED
  BY <1>5, <1>6

\* The invariant holds initially and every step keeps it.
THEOREM CopaInvariant == Spec => []CopaInv
<1>1. ASSUME CopaInv, [Next]_vars PROVE CopaInv'
  <2>1. CASE Ack
    BY <1>1, <2>1, AckStep DEF Ack
  <2>2. CASE Timeout
    BY <1>1, <2>2, TimeoutStep
  <2>3. CASE UNCHANGED vars
    BY <1>1, <2>3 DEF CopaInv, CopaTypeOK, VelocityState, VelocityEarned, WindowFloor,
                      SlowStartRoom, vars, modeVars, windowVars
  <2> QED
    BY <1>1, <2>1, <2>2, <2>3 DEF Next
<1> QED
  BY <1>1, CopaInitial, PTL DEF Spec

\* The types, and the range of the latency factor: losses and competition never
\* take it past its default or the bound (ReportMeasurement).
THEOREM CopaTypeCorrect == Spec => []CopaTypeOK
<1>1. CopaInv => CopaTypeOK
  BY DEF CopaInv
<1> QED
  BY <1>1, CopaInvariant, PTL

\* No velocity above one before the direction has lasted three round-trip times
\* (CheckAndUpdateDirection, ChangeDirection).
THEOREM VelocityIsEarned == Spec => []VelocityEarned
<1>1. CopaInv => VelocityEarned
  BY DEF CopaInv
<1> QED
  BY <1>1, CopaInvariant, PTL

\* The window keeps its floor, whatever ACKs, losses and delays come; after a
\* timeout half a segment is left (CongControl).
THEOREM FloorIsKept == Spec => []WindowFloor
<1>1. CopaInv => WindowFloor
  BY DEF CopaInv
<1> QED
  BY <1>1, CopaInvariant, PTL

==============================================================================
