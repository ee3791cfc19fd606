----------------------------- MODULE AckDelayLine -----------------------------
(***************************************************************************)
(* What the Zhuge AP promises about the ACKs it holds back: a delay line.  *)
(* Every ACK that enters leaves once, in the order of arrival, and none    *)
(* stays longer than Limit.                                                *)
(***************************************************************************)
EXTENDS Integers

CONSTANT Limit

VARIABLES clock,    \* current time
          entered,  \* the number of ACKs so far
          held      \* the ACKs inside, with their arrival times

lineVars == <<clock, entered, held>>

LineInit == clock \in Nat /\ entered = 0 /\ held = {}

Enter ==
    /\ entered' = entered + 1
    /\ held' = held \cup {[id |-> entered + 1, arrived |-> clock]}
    /\ UNCHANGED clock

Leave ==
    /\ \E first \in held : /\ \A e \in held : first.id <= e.id
                           /\ held' = held \ {first}
    /\ UNCHANGED <<clock, entered>>

Pass ==
    /\ \A e \in held : clock < e.arrived + Limit
    /\ clock' = clock + 1
    /\ UNCHANGED <<entered, held>>

LineSpec == LineInit /\ [][Enter \/ Leave \/ Pass]_lineVars

==============================================================================
