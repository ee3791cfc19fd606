------------------------------ MODULE DeltaDelay ------------------------------
(***************************************************************************)
(* The class DeltaDelay (zhuge/model/delta-delay.cc): the recent changes   *)
(* of the AP's forwarding delay.  An increase is a delta, which an ACK may *)
(* sample as its own extra delay; a decrease is a token, which shortens    *)
(* later samples until it is used up.  An object is a record of its four   *)
(* deques; the methods are operators from an object to an object.          *)
(* m_delayToken, ConsumeToken and Reset are used by nobody and left out.   *)
(***************************************************************************)
EXTENDS Integers, Sequences

CONSTANTS HistoryLen,   \* m_historyLen: the age at which an entry is retired
          MaxDelta      \* the cap on a delta and on a token

ASSUME DeltaAssumption == HistoryLen \in Nat /\ MaxDelta \in Nat

Least(a, b) == IF a < b THEN a ELSE b
Greatest(a, b) == IF a < b THEN b ELSE a

\* When a change was recorded, and how large it was.
Entry == [at : Nat, amount : Nat]

\* A freshly constructed object.
NoHistory == [deltas |-> <<>>, tokens |-> <<>>, popped |-> <<>>, lastwnd |-> <<>>]

\* The number of entries a ClearAged loop takes off the front of s: it stops
\* at the first entry that is not older than age.
Aged(s, now, age) ==
    CHOOSE n \in 0 .. Len(s) :
        /\ \A i \in 1 .. n : now - s[i].at > age
        /\ n < Len(s) => ~(now - s[n + 1].at > age)

Old(s, now, age) == SubSeq(s, 1, Aged(s, now, age))
Recent(s, now, age) == SubSeq(s, Aged(s, now, age) + 1, Len(s))

\* The four ClearAged methods: retired entries move to m_lastwndPkt, from
\* whose front they are dropped after twice the window.
Cleared(d, now) ==
    [deltas  |-> Recent(d.deltas, now, HistoryLen),
     tokens  |-> Recent(d.tokens, now, HistoryLen),
     popped  |-> Recent(d.popped, now, HistoryLen),
     lastwnd |-> Recent(d.lastwnd \o Old(d.deltas, now, HistoryLen)
                                  \o Old(d.tokens, now, HistoryLen)
                                  \o Old(d.popped, now, HistoryLen),
                        now, 2 * HistoryLen)]

\* Fault: a delta is recorded without the cap.
FaultyAddDeltaDelay(d, now, change) ==
    LET c == Cleared(d, now)
    IN  IF change >= 0
        THEN [c EXCEPT !.deltas = Append(@, [at |-> now, amount |-> change])]
        ELSE [c EXCEPT !.tokens = Append(@, [at |-> now, amount |-> -change])]

AddDeltaDelay(d, now, change) ==
    LET c == Cleared(d, now)
    IN  IF change >= 0
        THEN [c EXCEPT !.deltas = Append(@, [at |-> now, amount |-> Least(MaxDelta, change)])]
        ELSE [c EXCEPT !.tokens = Append(@, [at |-> now, amount |-> Least(MaxDelta, -change)])]

\* The while loop over the tokens, as the number n of tokens it pops and what
\* is left of the delay after each.  A token smaller than the rest is popped,
\* the first other one ends the loop.
Payments(delay, tokens) ==
    UNION {
      {[n |-> n, left |-> left] : left \in
         {f \in [0 .. n -> 0 .. delay] :
            /\ f[0] = delay
            /\ \A k \in 1 .. n : /\ tokens[k].amount < f[k - 1]
                                 /\ f[k] = f[k - 1] - tokens[k].amount
            /\ n < Len(tokens) => f[n] <= tokens[n + 1].amount}}
      : n \in 0 .. Len(tokens)}

\* Fault: the token that ends the loop pays for the whole sample again.
FaultyPaid(d, pay) ==
    LET rest == SubSeq(d.tokens, pay.n + 1, Len(d.tokens))
    IN  [d EXCEPT !.tokens = IF rest = <<>> THEN rest
                             ELSE [rest EXCEPT ![1].amount = @ - pay.left[0]],
                  !.popped = @ \o SubSeq(d.tokens, 1, pay.n)]

\* The object after that loop: the token that ended it keeps what it did not
\* have to pay.
Paid(d, pay) ==
    LET rest == SubSeq(d.tokens, pay.n + 1, Len(d.tokens))
    IN  [d EXCEPT !.tokens = IF rest = <<>> THEN rest
                             ELSE [rest EXCEPT ![1].amount = @ - pay.left[pay.n]],
                  !.popped = @ \o SubSeq(d.tokens, 1, pay.n)]

\* The delay after that loop: nothing when a token ended it.
LeftOver(tokens, pay) == IF pay.n = Len(tokens) THEN pay.left[pay.n] ELSE 0

\* The last step of a sample: it shrinks when fewer changes are in the window
\* than were in the one before it.
Scaled(d, delay) ==
    LET count == Len(d.popped) + Len(d.tokens) + Len(d.deltas)
    IN  IF Len(d.lastwnd) > count THEN (count * delay) \div Len(d.lastwnd) ELSE delay

\* SampleDeltaDelay(min): the outcomes, one for every delta the generator may
\* pick.  min comes back untouched when there is no delta to sample.
SampleDeltaDelay(d, now, min) ==
    LET c == Cleared(d, now)
    IN  IF c.deltas = <<>> THEN {[delay |-> min, after |-> c]}
        ELSE UNION {
               LET delay == Greatest(c.deltas[i].amount, min)
               IN  {[delay |-> Scaled(Paid(c, pay), LeftOver(c.tokens, pay)),
                     after |-> Paid(c, pay)] : pay \in Payments(delay, c.tokens)}
               : i \in DOMAIN c.deltas}

==============================================================================
