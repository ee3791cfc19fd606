------------------------- MODULE GccControllerProofs -------------------------
(***************************************************************************)
(* What holds of GccController for every value of its constants: the       *)
(* estimate keeps to its range, over-use is found only after two reports,  *)
(* and the estimate rises only on the second calm update in a row.         *)
(***************************************************************************)
EXTENDS GccController, TLAPS

\* A count of reports above the threshold never runs ahead of the reports.
CountedReports == counter <= streak

\* The rate increases only in a state a normal update has led to.
IncreasingWhenCalm == state = "I" => verdict = "N" /\ initialized

\* The inductive invariant.
GccInv == GccTypeOK /\ OveruseIsSustained /\ CountedReports /\ IncreasingWhenCalm

\* What a quotient rounded either way can be (Rounded).
LEMMA RoundedType ==
    ASSUME NEW a \in Nat, NEW b \in Nat \ {0}, NEW q \in Rounded(a, b)
    PROVE  q \in Nat
BY SMTT(30) DEF Rounded

\* No time, no increase (Rounded, for AdditiveRateIncrease).
LEMMA RoundedZero ==
    ASSUME NEW b \in Nat \ {0}, NEW q \in Rounded(0, b)
    PROVE  q = 0
<1>1. 0 \div b = 0  BY SMTT(30)
<1>2. (b - 1) \div b = 0  BY SMTT(30)
<1> QED  BY <1>1, <1>2, SMT DEF Rounded

\* The cap brings any rate into the range (CapBitrateToThresholds).
LEMMA CappedType ==
    ASSUME NEW r \in Int
    PROVE  /\ Capped(r) \in MinRate .. MaxRate
           /\ \A x \in MinRate .. MaxRate : r <= x => Capped(r) <= x
BY GccAssumption, SMT DEF Capped, Least, Greatest

\* Times passed stay within their bound (processFeedback).
LEMMA LaterType ==
    ASSUME NEW since \in 0 .. Long, NEW gap \in Gaps
    PROVE  Later(since, gap) \in 0 .. Long
BY GccAssumption, SMT DEF Later, Least

\* A clamp never raises a rate within the range (ClampBitrate).
LEMMA ClampedType ==
    ASSUME NEW r \in Nat, NEW incoming \in Nat
    PROVE  /\ Clamped(r, incoming) \in MinRate .. MaxRate
           /\ \A x \in MinRate .. MaxRate : r <= x => Clamped(r, incoming) <= x
<1> DEFINE cut == Least(r, (3 * incoming) \div 2 + Lag)
<1>1. cut \in Int /\ cut <= r  BY GccAssumption, SMT DEF Least
<1> HIDE DEF cut
<1>2. Clamped(r, incoming) = Capped(cut)  BY DEF Clamped, UpdateEstimate, cut
<1>3. \A x \in MinRate .. MaxRate : r <= x => cut <= x  BY <1>1, GccAssumption, SMT
<1> QED  BY <1>1, <1>2, <1>3, CappedType

------------------------------------------------------------------------------
\* The detector's part of a report keeps its part of the invariant.
LEMMA DetectStep ==
    ASSUME GccInv,
           NEW departure \in Departures, NEW offset \in Trends, NEW side \in Sides(offset),
           Detect(departure, offset, side)
    PROVE  /\ samples' \in 0 .. WindowSize /\ trend' \in Trends
           /\ hypothesis' \in {"N", "O", "U"}
           /\ overusing' \in Nat \cup {-1} /\ counter' \in 0 .. 2 /\ streak' \in 0 .. 2
           /\ OveruseIsSustained' /\ CountedReports'
<1> DEFINE fires == /\ side = "over"
                    /\ OverusingWith(departure) > OverusingTime
                    /\ counter >= 1
                    /\ offset >= trend
<1>1. fires \in BOOLEAN  OBVIOUS
<1>2. departure \in Nat /\ departure \div 2 \in Nat /\ OverusingWith(departure) \in Nat
  <2>1. departure \in Nat  BY GccAssumption
  <2>2. departure \div 2 \in Nat  BY <2>1, SMT
  <2>3. overusing \in Nat \cup {-1} /\ OverusingTime \in Nat  BY GccAssumption DEF GccInv, GccTypeOK
  <2> QED  BY <2>1, <2>2, <2>3, SMT DEF OverusingWith, Least
<1>3. samples' \in 0 .. WindowSize
  BY GccAssumption, SMT DEF Detect, Estimated, GccInv, GccTypeOK, Least
<1>4. CASE samples = 0
  BY <1>3, <1>4 DEF Detect, GccInv, GccTypeOK, OveruseIsSustained, CountedReports
<1>5. CASE samples # 0
  <2> DEFINE hyp == CASE side = "under" -> "U"
                      [] side = "in" -> "N"
                      [] OTHER -> IF fires THEN "O" ELSE hypothesis
  <2>1. /\ trend' = offset /\ hypothesis' = hyp
        /\ overusing' = IF side # "over" THEN -1
                        ELSE IF fires THEN 0 ELSE OverusingWith(departure)
        /\ counter' = CounterAfter(side, fires)
        /\ streak' = IF side = "over" THEN Least(streak + 1, 2) ELSE 0
    BY <1>5 DEF Detect
  <2>2. side \in {"in", "over", "under"}  BY DEF Sides
  <2>3. overusing' \in Nat \cup {-1}  BY <2>1, <1>2, SMT
  <2>4. streak \in 0 .. 2 /\ counter \in 0 .. 2 /\ counter <= streak
        /\ hypothesis \in {"N", "O", "U"} /\ (hypothesis = "O" => streak = 2)
    BY DEF GccInv, GccTypeOK, OveruseIsSustained, CountedReports
  <2> HIDE DEF fires
  <2>5. counter' \in 0 .. 2 /\ streak' \in 0 .. 2 /\ counter' <= streak'
    BY <2>1, <2>4, SMT DEF CounterAfter, Least
  <2>6. hypothesis' \in {"N", "O", "U"}  BY <2>1, <2>2, <2>4
  <2>7. ASSUME hypothesis' = "O" PROVE streak' = 2
    <3>1. side = "over" /\ (fires \/ hypothesis = "O")  BY <2>1, <2>2, <2>7
    <3>2. streak >= 1
      <4>1. fires => counter >= 1  BY DEF fires
      <4> QED  BY <3>1, <4>1, <2>4, SMT
    <3> QED  BY <3>1, <3>2, <2>1, <2>4, SMT DEF Least
  <2> QED  BY <1>3, <2>1, <2>3, <2>5, <2>6, <2>7 DEF OveruseIsSustained, CountedReports
<1> QED  BY <1>4, <1>5

------------------------------------------------------------------------------
\* An increase is a whole number of units, none when no time has passed for it
\* (MultiplicativeRateIncrease, AdditiveRateIncrease).
LEMMA IncreasesType ==
    ASSUME GccInv, NEW known \in BOOLEAN, NEW gap \in Gaps,
           NEW inc \in Increases(known, TimeFor(gap))
    PROVE  inc \in Nat /\ (state = "H" => inc = 0)
<1> DEFINE passed == TimeFor(gap)
<1>1. passed \in Nat /\ (state = "H" => passed = 0)
  <2>1. Later(sinceChange, gap) \in 0 .. Long  BY LaterType DEF GccInv, GccTypeOK
  <2> QED  BY <2>1, GccAssumption, SMT DEF TimeFor
<1>2. rate \in Nat  BY GccAssumption, SMT DEF GccInv, GccTypeOK
<1> HIDE DEF passed
<1>3. Least(passed, Second) \in Nat /\ (passed = 0 => Least(passed, Second) = 0)
  BY <1>1, GccAssumption, SMT DEF Least
<1> DEFINE capped == Least(passed, Second)
<1> HIDE DEF capped
<1>4. CASE known
  <2>1. inc \in Rounded(Slope * passed, Second)  BY <1>4 DEF Increases, passed
  <2>2. Slope * passed \in Nat /\ (passed = 0 => Slope * passed = 0)  BY <1>1, GccAssumption, SMT
  <2>3. inc \in Nat  BY <2>1, <2>2, RoundedType, GccAssumption
  <2>4. ASSUME state = "H" PROVE inc = 0
    <3>1. inc \in Rounded(0, Second)  BY <2>1, <2>2, <2>4, <1>1
    <3> QED  BY <3>1, RoundedZero, GccAssumption
  <2> QED  BY <2>3, <2>4
<1>5. CASE ~known
  <2> DEFINE per == 8 * rate * capped
  <2>1. inc \in Rounded(per, 100 * Second)  BY <1>5 DEF Increases, passed, capped
  <2>2. capped \in Nat /\ (passed = 0 => capped = 0)  BY <1>3 DEF capped
  <2>3. per \in Nat /\ (passed = 0 => per = 0)  BY <1>2, <2>2, SMT
  <2>4. 100 * Second \in Nat \ {0}  BY GccAssumption, SMT
  <2> HIDE DEF per
  <2>5. inc \in Nat  BY <2>1, <2>3, <2>4, RoundedType
  <2>6. ASSUME state = "H" PROVE inc = 0
    <3>1. inc \in Rounded(0, 100 * Second)  BY <2>1, <2>3, <2>6, <1>1
    <3> QED  BY <3>1, <2>4, RoundedZero
  <2> QED  BY <2>5, <2>6
<1> QED  BY <1>4, <1>5

\* A hold and a decrease keep the types and never raise the rate (ChangeBitrate).
LEMMA HoldStep ==
    ASSUME GccInv, NEW incoming \in Nat, Hold(incoming)
    PROVE  /\ rate' \in MinRate .. MaxRate /\ rate' <= rate
           /\ region' \in {"M", "N"} /\ average' \in Nat \cup {Unknown}
<1>1. rate \in MinRate .. MaxRate /\ rate \in Nat /\ rate <= rate
  BY GccAssumption, SMT DEF GccInv, GccTypeOK
<1>2. rate' \in MinRate .. MaxRate /\ rate' <= rate  BY <1>1, ClampedType DEF Hold
<1> QED  BY <1>2 DEF Hold, GccInv, GccTypeOK

LEMMA DecreaseStep ==
    ASSUME GccInv, NEW incoming \in Nat, Decrease(incoming)
    PROVE  /\ rate' \in MinRate .. MaxRate /\ rate' <= rate
           /\ region' \in {"M", "N"} /\ average' \in Nat \cup {Unknown}
<1>1. rate \in MinRate .. MaxRate /\ rate \in Nat
  BY GccAssumption, SMT DEF GccInv, GccTypeOK
<1>2. BackedOff(incoming) \in Nat  BY SMT DEF BackedOff
<1> DEFINE low == Least(BackedOff(incoming), rate)
<1>3. low \in Nat /\ low <= rate  BY <1>1, <1>2, SMT DEF Least
<1>4. rate' = Clamped(low, incoming)  BY DEF Decrease
<1> HIDE DEF low
<1>5. rate' \in MinRate .. MaxRate /\ rate' <= rate  BY <1>1, <1>3, <1>4, ClampedType
<1>6. average' \in Nat
  <2>1. average' \in Averages(incoming)  BY DEF Decrease
  <2>2. CASE average = Unknown \/ incoming < average - Spread
    BY <2>1, <2>2 DEF Averages
  <2>3. CASE ~(average = Unknown \/ incoming < average - Spread)
    <3>1. average \in Nat  BY <2>3 DEF GccInv, GccTypeOK
    <3>2. 95 * average + 5 * incoming \in Nat  BY <3>1, SMT
    <3>3. average' \in Rounded(95 * average + 5 * incoming, 100)  BY <2>1, <2>3 DEF Averages
    <3>4. 100 \in Nat \ {0}  BY SMT
    <3> QED  BY <3>2, <3>3, <3>4, RoundedType
  <2> QED  BY <2>2, <2>3
<1> QED  BY <1>5, <1>6 DEF Decrease

\* An increase out of a hold is none (ChangeBitrate).
LEMMA IncreaseStep ==
    ASSUME GccInv, NEW incoming \in Nat, NEW gap \in Gaps, Increase(incoming, gap)
    PROVE  /\ rate' \in MinRate .. MaxRate /\ (state = "H" => rate' <= rate)
           /\ region' \in {"M", "N"} /\ average' \in Nat \cup {Unknown}
<1>1. rate \in MinRate .. MaxRate /\ rate \in Nat
  BY GccAssumption, SMT DEF GccInv, GccTypeOK
<1>2. region' \in {"M", "N"} /\ average' \in Nat \cup {Unknown}
  BY DEF Increase, GccInv, GccTypeOK
<1>3. PICK inc \in Increases(region' = "N", TimeFor(gap)) : rate' = Clamped(rate + inc, incoming)
  BY DEF Increase
<1>4. inc \in Nat /\ (state = "H" => inc = 0)  BY <1>3, IncreasesType
<1>5. rate + inc \in Nat /\ (inc = 0 => rate + inc <= rate)  BY <1>1, <1>4, SMT
<1> QED  BY <1>1, <1>2, <1>3, <1>4, <1>5, ClampedType

\* An update keeps its part of the invariant, and raises the rate only on the
\* second of two calm ones (Update).
LEMMA UpdateStep ==
    ASSUME GccInv, hypothesis' \in {"N", "O", "U"},
           NEW incoming \in Nat, NEW gap \in Gaps, Update(incoming, gap)
    PROVE  /\ rate' \in MinRate .. MaxRate
           /\ state' \in {"H", "I"} /\ region' \in {"M", "N"}
           /\ average' \in Nat \cup {Unknown} /\ initialized' \in BOOLEAN
           /\ sinceChange' \in 0 .. Long /\ sinceUpdate' \in 0 .. Long
           /\ verdict' \in {"N", "O", "U"} /\ IncreasingWhenCalm'
           /\ (rate' > rate => verdict = "N" /\ verdict' = "N")
<1>1. /\ verdict' = hypothesis' /\ initialized' = TRUE
      /\ sinceUpdate' \in 0 .. Long /\ 0 \in 0 .. Long
  BY GccAssumption, SMT DEF Update
<1>2. Later(sinceChange, gap) \in 0 .. Long  BY LaterType DEF GccInv, GccTypeOK
<1>3. /\ rate \in MinRate .. MaxRate /\ rate \in Nat /\ MinRate \in Nat /\ MaxRate \in Nat
      /\ state \in {"H", "I"} /\ region \in {"M", "N"} /\ average \in Nat \cup {Unknown}
      /\ (state = "I" => verdict = "N" /\ initialized)
  BY GccAssumption, SMT DEF GccInv, GccTypeOK, IncreasingWhenCalm
<1>4. \A x \in MinRate .. MaxRate : x <= rate => ~(x > rate)  BY <1>3, SMT
<1>5. CASE ~initialized /\ hypothesis' = "O"
  <2>1. UNCHANGED <<rate, state, region, average>> /\ sinceChange' = Later(sinceChange, gap)
    BY <1>5 DEF Update
  <2>2. ~(rate' > rate)  BY <2>1, <1>3, <1>4
  <2> QED  BY <1>1, <1>2, <1>3, <1>5, <2>1, <2>2 DEF IncreasingWhenCalm
<1>6. CASE ~(~initialized /\ hypothesis' = "O")
  <2> DEFINE next == StateAfter(state, hypothesis')
  <2>1. /\ CASE next = "H" -> Hold(incoming)
             [] next = "I" -> Increase(incoming, gap)
             [] OTHER -> Decrease(incoming)
        /\ state' = IF next = "D" THEN "H" ELSE next
        /\ sinceChange' = IF next = "H" THEN Later(sinceChange, gap) ELSE 0
    BY <1>6 DEF Update
  <2>2. next \in {"H", "I", "D"} /\ (next = "I" => hypothesis' = "N")
    BY DEF StateAfter
  <2> HIDE DEF next
  <2>3. state' \in {"H", "I"} /\ (state' = "I" => next = "I") /\ sinceChange' \in 0 .. Long
    BY <2>1, <2>2, <1>1, <1>2
  <2>4. IncreasingWhenCalm'  BY <2>2, <2>3, <1>1 DEF IncreasingWhenCalm
  <2>5. /\ rate' \in MinRate .. MaxRate /\ region' \in {"M", "N"}
        /\ average' \in Nat \cup {Unknown}
        /\ (rate' <= rate \/ (next = "I" /\ state # "H"))
    <3>1. CASE next = "H"  BY <2>1, <3>1, HoldStep
    <3>2. CASE next = "I"  BY <2>1, <3>2, IncreaseStep
    <3>3. CASE next = "D"  BY <2>1, <3>3, DecreaseStep
    <3> QED  BY <2>2, <3>1, <3>2, <3>3
  <2>6. rate' > rate => verdict = "N" /\ verdict' = "N"
    BY <2>5, <2>2, <1>1, <1>3, <1>4
  <2> QED  BY <1>1, <2>3, <2>4, <2>5, <2>6
<1> QED  BY <1>5, <1>6

------------------------------------------------------------------------------
\* The state the controller is constructed in satisfies the invariant (the
\* constructor, Setup).
THEOREM GccInitial == Init => GccInv
<1> SUFFICES ASSUME Init PROVE GccInv  OBVIOUS
<1>1. /\ MinRate \in MinRate .. MaxRate /\ Long \in 0 .. Long /\ 0 \in 0 .. WindowSize
      /\ 0 \in Trends /\ 0 \in 0 .. 2 /\ EncodeMin \in EncodeMin .. EncodeMax
      /\ -1 \in Nat \cup {-1}
  BY GccAssumption, SMT DEF Trends
<1>2. 0 <= 0  BY SMT
<1> QED
  BY <1>1, <1>2
  DEF Init, GccInv, GccTypeOK, OveruseIsSustained, CountedReports, IncreasingWhenCalm, Unknown

\* What a step of the controller does to the rate when it is allowed to rise.
CalmRise == rate' > rate => verdict = "N" /\ verdict' = "N"

\* A report keeps the invariant (processFeedback).
LEMMA FeedbackStep == GccInv /\ Feedback => GccInv' /\ CalmRise
<1> SUFFICES ASSUME GccInv,
                    NEW gap \in Gaps, NEW rtt \in Rtts, NEW departure \in Departures,
                    NEW shown \in Received, NEW offset \in Trends, NEW side \in Sides(offset),
                    ProcessFeedback(gap, rtt, departure, offset, side, shown)
             PROVE  GccInv' /\ CalmRise
  BY DEF Feedback
<1> DEFINE incoming == Least(shown, rate)
<1>1. /\ rate \in MinRate .. MaxRate /\ rate \in Nat
      /\ state \in {"H", "I"} /\ region \in {"M", "N"} /\ average \in Nat \cup {Unknown}
      /\ initialized \in BOOLEAN /\ verdict \in {"-", "N", "O", "U"}
      /\ sinceChange \in 0 .. Long /\ sinceUpdate \in 0 .. Long
      /\ cca \in {"Gcc", "Nada"} /\ valid \in BOOLEAN /\ encoder \in EncodeMin .. EncodeMax
      /\ IncreasingWhenCalm
  BY GccAssumption, SMT DEF GccInv, GccTypeOK
<1>2. shown \in Nat  BY GccAssumption
<1>3. incoming \in Nat  BY <1>1, <1>2, SMT DEF Least
<1> HIDE DEF incoming
<1>4. /\ samples' \in 0 .. WindowSize /\ trend' \in Trends
      /\ hypothesis' \in {"N", "O", "U"}
      /\ overusing' \in Nat \cup {-1} /\ counter' \in 0 .. 2 /\ streak' \in 0 .. 2
      /\ OveruseIsSustained' /\ CountedReports'
  BY DetectStep DEF ProcessFeedback
<1>5. UNCHANGED <<cca, valid, encoder>>  BY DEF ProcessFeedback
<1>6. /\ rate' \in MinRate .. MaxRate
      /\ state' \in {"H", "I"} /\ region' \in {"M", "N"}
      /\ average' \in Nat \cup {Unknown} /\ initialized' \in BOOLEAN
      /\ sinceChange' \in 0 .. Long /\ sinceUpdate' \in 0 .. Long
      /\ verdict' \in {"-", "N", "O", "U"} /\ IncreasingWhenCalm'
      /\ CalmRise
  <2>1. CASE UpdateDue(incoming, rtt, gap)
    <3>1. Update(incoming, gap)  BY <2>1 DEF ProcessFeedback, incoming
    <3> QED  BY <3>1, <1>3, <1>4, UpdateStep DEF CalmRise
  <2>2. CASE ~UpdateDue(incoming, rtt, gap)
    <3>1. /\ sinceChange' = Later(sinceChange, gap) /\ sinceUpdate' = Later(sinceUpdate, gap)
          /\ UNCHANGED <<rate, state, region, average, initialized, verdict>>
      BY <2>2 DEF ProcessFeedback, incoming
    <3>2. ~(rate' > rate)  BY <3>1, <1>1, SMT
    <3> QED  BY <3>1, <3>2, <1>1, LaterType DEF IncreasingWhenCalm, CalmRise
  <2> QED  BY <2>1, <2>2
<1> QED  BY <1>1, <1>4, <1>5, <1>6 DEF GccInv, GccTypeOK

\* The first report and the timer keep the invariant.
LEMMA OtherStep == GccInv /\ (FirstFeedback \/ UpdateBitrate) => GccInv' /\ CalmRise
<1> SUFFICES ASSUME GccInv, FirstFeedback \/ UpdateBitrate PROVE GccInv' /\ CalmRise
  OBVIOUS
<1>1. rate \in MinRate .. MaxRate /\ rate \in Nat
  BY GccAssumption, SMT DEF GccInv, GccTypeOK
<1>2. CASE FirstFeedback
  <2>1. Capped(MinRate) \in MinRate .. MaxRate /\ Capped(MinRate) <= rate
    <3>1. MinRate \in Int /\ MinRate <= rate  BY <1>1, GccAssumption, SMT
    <3> QED  BY <3>1, <1>1, CappedType
  <2>2. rate' \in MinRate .. MaxRate /\ ~(rate' > rate)
    <3>1. rate' = Capped(MinRate)  BY <1>2 DEF FirstFeedback, SetSendBitrate
    <3> QED  BY <3>1, <2>1, <1>1, GccAssumption, SMT
  <2> QED
    BY <1>2, <2>2
    DEF FirstFeedback, GccInv, GccTypeOK, detectorVars, OveruseIsSustained, CountedReports,
        IncreasingWhenCalm, CalmRise
<1>3. CASE UpdateBitrate
  <2>1. (85 * SendBps) \div 100 \in Int  BY <1>1, SMT DEF SendBps
  <2>2. encoder' \in EncodeMin .. EncodeMax
    <3>1. encoder' = Least(Greatest((85 * SendBps) \div 100, EncodeMin), EncodeMax)
      BY <1>3 DEF UpdateBitrate
    <3> QED  BY <2>1, <3>1, GccAssumption, SMT DEF Least, Greatest
  <2>3. UNCHANGED <<rate>> /\ ~(rate' > rate)
    <3>1. rate' = rate  BY <1>3 DEF UpdateBitrate, rateVars
    <3> QED  BY <3>1, <1>1, SMT
  <2> QED
    BY <1>3, <2>2, <2>3
    DEF UpdateBitrate, GccInv, GccTypeOK, detectorVars, rateVars, OveruseIsSustained,
        CountedReports, IncreasingWhenCalm, CalmRise
<1> QED  BY <1>2, <1>3

\* Every step keeps the invariant and raises the rate only when it may.
THEOREM GccInductive == GccInv /\ [Next]_vars => GccInv' /\ CalmRise
<1> SUFFICES ASSUME GccInv, [Next]_vars PROVE GccInv' /\ CalmRise  OBVIOUS
<1>1. CASE Next  BY <1>1, FeedbackStep, OtherStep DEF Next
<1>2. CASE UNCHANGED vars
  <2>1. rate \in Nat  BY GccAssumption, SMT DEF GccInv, GccTypeOK
  <2>2. rate' = rate  BY <1>2 DEF vars, rateVars
  <2>3. ~(rate' > rate)  BY <2>1, <2>2, SMT
  <2> QED
    BY <1>2, <2>3
    DEF vars, rateVars, detectorVars, GccInv, GccTypeOK, OveruseIsSustained, CountedReports,
        IncreasingWhenCalm, CalmRise
<1> QED  BY <1>1, <1>2

\* The invariant holds of every behaviour of the controller.
THEOREM GccInvariant == Spec => []GccInv
<1>1. GccInv /\ [Next]_vars => GccInv'  BY GccInductive
<1> QED  BY <1>1, GccInitial, PTL DEF Spec

\* The estimate never leaves the configured range, nor the encoder's rate its
\* own (CapBitrateToThresholds, GameServer::UpdateBitrate).
THEOREM GccTypeCorrect == Spec => []GccTypeOK
<1>1. GccInv => GccTypeOK  BY DEF GccInv
<1> QED  BY <1>1, GccInvariant, PTL

\* Over-use is found only after two reports in a row above the threshold
\* (OveruseDetectorDetect).
THEOREM OveruseSustained == Spec => []OveruseIsSustained
<1>1. GccInv => OveruseIsSustained  BY DEF GccInv
<1> QED  BY <1>1, GccInvariant, PTL

\* The rate rises, by more than the 1 kbps always granted, only on the second
\* calm update in a row (ChangeBitrate).
THEOREM RiseIsCalm == Spec => RisesWhenCalm
<1>1. GccInv /\ [Next]_vars => [CalmRise]_vars  BY GccInductive
<1>2. [CalmRise]_vars <=> [rate' > rate => verdict = "N" /\ verdict' = "N"]_vars
  BY DEF CalmRise
<1> QED  BY <1>1, <1>2, GccInvariant, PTL DEF Spec, RisesWhenCalm
==============================================================================
