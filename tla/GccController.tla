---------------------------- MODULE GccController ----------------------------
(***************************************************************************)
(* The rate control of the UDP sender: rmcat::GccController                *)
(* (congestion-control/gcc-controller.cc), the controllers that may stand  *)
(* in its place, and PacketSenderUdp::UpdateSendingRate, which takes the   *)
(* encoder's rate from it.                                                 *)
(*                                                                         *)
(* Rates are whole numbers of a unit (some 100 kbps).  A result between    *)
(* two units may be rounded either way, so an increase of a fraction of a  *)
(* unit is both kept and lost; the increase of at least 1 kbps that        *)
(* MultiplicativeRateIncrease grants is below the unit and left out.       *)
(* Times are kept as the time passed since an event, up to Long.           *)
(*                                                                         *)
(* The trend of the delay is chosen freely once the trendline window is    *)
(* full; how far it must rise to count is UpdateThreshold's matter, and    *)
(* left open.  The loss-based half of the class is left out: a report      *)
(* never reaches it, for UpdatePacketsLost, which sets                     *)
(* last_packet_report_ms_, is not called, and UpdateEstimate returns at    *)
(* "No feedback received", leaving the rate as it is.                      *)
(***************************************************************************)
EXTENDS Integers

CONSTANTS
    MinRate,        \* min_configured_bitrate_bps_, min_bitrate_configured_
    MaxRate,        \* max_bitrate_configured_
    Lag,            \* ClampBitrate's 10000
    Slope,          \* GetNearMaxIncreaseRateBps, in units per second
    Spread,         \* 3 * std_max_bit_rate
    Second,         \* a second
    Gaps,           \* times between two reports
    Rtts,           \* round-trip times, clamped to [10, 200] ms
    Departures,     \* times between the departures of two groups, in ms
    Received,       \* receiving rates: m_RecvR, as shown last or just now
    WindowSize,     \* window_size_ of the trendline
    OverusingTime,  \* kOverUsingTimeThreshold, in ms
    EncodeMin,      \* kMinEncodeBps
    EncodeMax       \* kMaxEncodeBps

Most(S) == CHOOSE x \in S : \A y \in S : y <= x

\* bound: beyond it the comparisons with a time passed no longer change.
Long == Most(Gaps) + Most(Rtts) + 1

ASSUME GccAssumption ==
    /\ MinRate \in Nat \ {0} /\ MaxRate \in Nat /\ MinRate <= MaxRate
    /\ Lag \in Nat /\ Slope \in Nat /\ Spread \in Nat /\ Second \in Nat \ {0}
    /\ Gaps \subseteq Nat /\ Rtts \subseteq Nat \ {0} /\ Departures \subseteq Nat
    /\ Received \subseteq Nat /\ 0 \in Received
    /\ Long \in Nat \ {0}
    /\ WindowSize \in Nat \ {0, 1} /\ OverusingTime \in Nat
    /\ EncodeMin \in Nat /\ EncodeMax \in Nat /\ EncodeMin <= EncodeMax

VARIABLES
    cca,            \* the controller in use
    valid,          \* m_lastTimeCalcValid
    rate,           \* current_bitrate_bps_
    state,          \* rate_control_state_: "H"old, "I"ncrease, "D"ecrease
    region,         \* rate_control_region_: near "M"ax or "N"ot known
    average,        \* avg_max_bitrate_kbps_, or Unknown
    initialized,    \* bitrate_is_initialized_
    sinceChange,    \* time since time_last_bitrate_change_
    sinceUpdate,    \* time since last_update_ms_
    samples,        \* delay_hist_.size()
    trend,          \* D_prev_offset_
    hypothesis,     \* D_hypothesis_: "N"ormal, "O"ver-use, "U"nder-use
    overusing,      \* time_over_using_, or -1
    counter,        \* overuse_counter_, up to 2
    encoder,        \* the rate the encoder was last given
    streak,         \* history: reports above the threshold in a row, up to 2
    verdict         \* history: the hypothesis the last update was made on

rateVars == <<rate, state, region, average, initialized>>
detectorVars == <<samples, trend, hypothesis, overusing, counter, streak>>
vars == <<cca, valid, rateVars, sinceChange, sinceUpdate, detectorVars, encoder, verdict>>

Unknown == -1
Trends == -1 .. 2

Least(a, b) == IF a < b THEN a ELSE b
Greatest(a, b) == IF a < b THEN b ELSE a

\* A quotient between two units.
Rounded(a, b) == {a \div b, (a + b - 1) \div b}

\* The constructor; last_update_ms_ and time_last_bitrate_change_ are -1.
Init ==
    /\ cca \in {"Gcc", "Nada"}
    /\ valid = FALSE
    /\ rate = MinRate
    /\ state = "H"
    /\ region = "M"
    /\ average = Unknown
    /\ initialized = FALSE
    /\ sinceChange = Long
    /\ sinceUpdate = Long
    /\ samples = 0
    /\ trend = 0
    /\ hypothesis = "N"
    /\ overusing = -1
    /\ counter = 0
    /\ encoder = EncodeMin
    /\ streak = 0
    /\ verdict = "-"

Later(since, gap) == Least(since + gap, Long)

------------------------------------------------------------------------------
\* Where a trend lies: T against threshold_.  Until the window is full
\* offset_ is 0, which is never beyond the threshold.
Sides(offset) ==
    {"in"} \cup (IF offset > 0 THEN {"over"} ELSE {})
           \cup (IF offset < 0 THEN {"under"} ELSE {})

\* Fault: a report within the threshold does not start the count afresh.
FaultyCounterAfter(side, fires) ==
    IF side = "over" /\ ~fires THEN Least(counter + 1, 2) ELSE IF fires THEN 0 ELSE counter

CounterAfter(side, fires) ==
    IF side = "over" /\ ~fires THEN Least(counter + 1, 2) ELSE 0

\* time_over_using_ with the report's ts_delta counted in.
OverusingWith(departure) ==
    IF overusing = -1 THEN departure \div 2
    ELSE Least(overusing + departure, OverusingTime + 1)

\* OveruseEstimatorUpdate: the trend is fitted once the window is full.
Estimated(offset) ==
    /\ samples' = Least(samples + 1, WindowSize)
    /\ samples' < WindowSize => offset = 0

\* OveruseDetectorDetect.  The first report leaves the detector alone: it takes
\* two deltas.
Detect(departure, offset, side) ==
    LET fires == /\ side = "over"
                 /\ OverusingWith(departure) > OverusingTime
                 /\ counter >= 1
                 /\ offset >= trend
    IN  /\ Estimated(offset)
        /\ IF samples = 0
           THEN UNCHANGED <<trend, hypothesis, overusing, counter, streak>>
           ELSE /\ trend' = offset
                /\ hypothesis' = CASE side = "under" -> "U"
                                   [] side = "in" -> "N"
                                   [] OTHER -> IF fires THEN "O" ELSE hypothesis
                /\ overusing' = IF side # "over" THEN -1
                                ELSE IF fires THEN 0 ELSE OverusingWith(departure)
                /\ counter' = CounterAfter(side, fires)
                /\ streak' = IF side = "over" THEN Least(streak + 1, 2) ELSE 0

------------------------------------------------------------------------------
\* TimeToReduceFurther, after gap has passed.
TimeToReduceFurther(incoming, rtt, gap) ==
    \/ Later(sinceChange, gap) >= rtt
    \/ initialized /\ incoming < rate \div 2

\* processFeedback's decision to update the estimate.
UpdateDue(incoming, rtt, gap) ==
    \/ Later(sinceUpdate, gap) > rtt
    \/ hypothesis' = "O" /\ incoming > 0 /\ TimeToReduceFurther(incoming, rtt, gap)

\* ChangeState; "D" does not outlast ChangeBitrate.
StateAfter(s, bw) == CASE bw = "N" -> "I" [] bw = "O" -> "D" [] OTHER -> "H"

\* Fault: leaving "H" does not restart the time the increase is made for.
FaultyTimeFor(gap) == Later(sinceChange, gap)

\* The time an increase is made for: none on leaving "H".
TimeFor(gap) == IF state = "H" THEN 0 ELSE Later(sinceChange, gap)

\* MultiplicativeRateIncrease and AdditiveRateIncrease.
Increases(known, passed) ==
    IF known THEN Rounded(Slope * passed, Second)
    ELSE Rounded(8 * rate * Least(passed, Second), 100 * Second)

\* beta_ * incoming + 0.5
BackedOff(incoming) == (85 * incoming + 50) \div 100

\* Fault: the maximum is not applied.
FaultyCapped(r) == Greatest(r, MinRate)

\* CapBitrateToThresholds.
Capped(r) == Greatest(Least(r, MaxRate), MinRate)

\* SetSendBitrate, after SetMinMaxBitrate with the limits that hold already.
SetSendBitrate(r) == Capped(r)

\* UpdateDelayBasedEstimate and UpdateEstimate, at the end of every report: the
\* start phase takes the larger of the rate and the delay-based one, which it has
\* just become; behind it the rate stays, as no loss report ever came.
UpdateEstimate(r) == Capped(r)

\* ClampBitrate: what is far above the receiving rate is cut, also a rate that
\* was only to be kept.
Clamped(r, incoming) == UpdateEstimate(Least(r, (3 * incoming) \div 2 + Lag))

\* UpdateMaxBitRateEstimate, after an average that is far off is forgotten.
Averages(incoming) ==
    IF average = Unknown \/ incoming < average - Spread THEN {incoming}
    ELSE Rounded(95 * average + 5 * incoming, 100)

Hold(incoming) ==
    /\ rate' = Clamped(rate, incoming)
    /\ UNCHANGED <<region, average>>

Increase(incoming, gap) ==
    LET above == average # Unknown /\ incoming > average + Spread
    IN  /\ region' = IF above THEN "M" ELSE region
        /\ average' = IF above THEN Unknown ELSE average
        /\ \E inc \in Increases(region' = "N", TimeFor(gap)) :
               rate' = Clamped(rate + inc, incoming)

Decrease(incoming) ==
    /\ rate' = Clamped(Least(BackedOff(incoming), rate), incoming)
    /\ region' = "N"
    /\ average' \in Averages(incoming)

\* Update and ChangeBitrate.
Update(incoming, gap) ==
    LET next == StateAfter(state, hypothesis')
    IN  /\ verdict' = hypothesis'
        /\ sinceUpdate' = 0
        /\ initialized' = TRUE
        /\ IF ~initialized /\ hypothesis' = "O"
           THEN /\ sinceChange' = Later(sinceChange, gap)
                /\ UNCHANGED <<rate, state, region, average>>
           ELSE /\ CASE next = "H" -> Hold(incoming)
                     [] next = "I" -> Increase(incoming, gap)
                     [] OTHER -> Decrease(incoming)
                /\ state' = IF next = "D" THEN "H" ELSE next
                /\ sinceChange' = IF next = "H" THEN Later(sinceChange, gap) ELSE 0

------------------------------------------------------------------------------
\* The first report only sets the limits: SetMinMaxBitrate, SetSendBitrate.
FirstFeedback ==
    /\ cca = "Gcc"
    /\ ~valid
    /\ valid' = TRUE
    /\ rate' = SetSendBitrate(MinRate)
    /\ UNCHANGED <<cca, state, region, average, initialized>>
    /\ UNCHANGED <<sinceChange, sinceUpdate, detectorVars, encoder, verdict>>

\* processFeedback, gap after the one before, with the receiving rate that
\* updateMetrics finds, or keeps when the histories show none.
ProcessFeedback(gap, rtt, departure, offset, side, shown) ==
    LET incoming == Least(shown, rate)
    IN  /\ cca = "Gcc"
        /\ valid
        /\ Detect(departure, offset, side)
        /\ IF UpdateDue(incoming, rtt, gap)
           THEN Update(incoming, gap)
           ELSE /\ sinceChange' = Later(sinceChange, gap)
                /\ sinceUpdate' = Later(sinceUpdate, gap)
                /\ UNCHANGED <<rate, state, region, average, initialized, verdict>>
        /\ UNCHANGED <<cca, valid, encoder>>

Feedback ==
    \E gap \in Gaps, rtt \in Rtts, departure \in Departures,
       shown \in Received, offset \in Trends :
        \E side \in Sides(offset) :
            ProcessFeedback(gap, rtt, departure, offset, side, shown)

\* getSendBps.  NadaController declares a processFeedback with other
\* parameters, which does not override the base class's: no report reaches
\* it, and it asks for nothing.
SendBps == IF cca = "Gcc" THEN rate ELSE 0

\* The timer: UpdateSendingRate takes 85 % of the estimate, and
\* GameServer::UpdateBitrate keeps it in the encoder's range.
UpdateBitrate ==
    /\ encoder' = Least(Greatest((85 * SendBps) \div 100, EncodeMin), EncodeMax)
    /\ UNCHANGED <<cca, valid, rateVars, sinceChange, sinceUpdate, detectorVars, verdict>>

Next == FirstFeedback \/ Feedback \/ UpdateBitrate

Spec == Init /\ [][Next]_vars

------------------------------------------------------------------------------
\* The types, and that the estimate is always within the configured range:
\* no clamp, back-off or increase of the code takes it out of it.
GccTypeOK ==
    /\ cca \in {"Gcc", "Nada"} /\ valid \in BOOLEAN
    /\ rate \in MinRate .. MaxRate
    /\ state \in {"H", "I"} /\ region \in {"M", "N"}
    /\ average \in Nat \cup {Unknown}
    /\ initialized \in BOOLEAN
    /\ sinceChange \in 0 .. Long /\ sinceUpdate \in 0 .. Long
    /\ samples \in 0 .. WindowSize /\ trend \in Trends
    /\ hypothesis \in {"N", "O", "U"}
    /\ overusing \in Nat \cup {-1} /\ counter \in 0 .. 2
    /\ encoder \in EncodeMin .. EncodeMax
    /\ streak \in 0 .. 2 /\ verdict \in {"-", "N", "O", "U"}

\* Over-use is found only after two reports in a row above the threshold, and
\* forgotten with the first one that is not: a single late group never cuts
\* the rate, however far apart earlier ones were (OveruseDetectorDetect).
OveruseIsSustained == hypothesis = "O" => streak = 2

\* The rate rises, by more than the 1 kbps MultiplicativeRateIncrease always
\* grants, only on the second of two updates in a row that found the network
\* normal: neither over-use, nor under-use, nor the update that ends a hold
\* raises it (ChangeState, ChangeBitrate).
RisesWhenCalm == [][rate' > rate => verdict = "N" /\ verdict' = "N"]_vars
==============================================================================
