---------------------------- MODULE DeadlineStore ----------------------------
(***************************************************************************)
(* What the retransmission store of PacketSenderUdp promises, free of      *)
(* groups, batches, queues and timers: a packet is kept from the moment it *)
(* is encoded until it is acknowledged or misses its deadline; only a kept *)
(* packet that can still make its deadline is sent again; and, until the   *)
(* store is closed, no packet is kept longer than Slack past its deadline. *)
(* A closed store keeps what it has and does nothing more.                 *)
(***************************************************************************)
EXTENDS Integers

CONSTANTS Ddl,    \* the deadline: how long after encoding a packet is useful
          Slack   \* how long an outdated packet may linger

VARIABLES clock,    \* current time
          born,     \* born[p]: when packet p was encoded
          resent,   \* resent[p]: how many times p has been sent again
          pending,  \* the packets kept for retransmission
          open      \* FALSE once the store is closed

storeVars == <<clock, born, resent, pending, open>>

Age(p) == clock - born[p]

StoreInit ==
    /\ clock \in Nat
    /\ DOMAIN born = {} /\ DOMAIN resent = {}
    /\ pending = {}
    /\ open = TRUE

\* A frame is encoded: new packets are born now, unsent, and all are kept.
Submit ==
    LET new == DOMAIN born' \ DOMAIN born
    IN  /\ open
        /\ DOMAIN born \subseteq DOMAIN born' /\ DOMAIN resent' = DOMAIN born'
        /\ \A p \in DOMAIN born : born'[p] = born[p] /\ resent'[p] = resent[p]
        /\ \A p \in new : born'[p] = clock /\ resent'[p] = 0
        /\ pending' = pending \cup new
        /\ UNCHANGED <<clock, open>>

\* The receiver has some of the packets.
Acknowledge ==
    /\ open
    /\ pending' \subseteq pending
    /\ UNCHANGED <<clock, born, resent, open>>

\* Every outdated packet goes and no other; of the rest some go out again.
Sweep ==
    /\ open
    /\ pending' = {p \in pending : Age(p) <= Ddl}
    /\ DOMAIN resent' = DOMAIN resent
    /\ \A p \in DOMAIN resent :
          \/ resent'[p] = resent[p]
          \/ p \in pending' /\ resent'[p] = resent[p] + 1
    /\ UNCHANGED <<clock, born, open>>

\* Time passes, in an open store not beyond the slack of a kept packet.
Advance ==
    /\ open => \A p \in pending : Age(p) < Ddl + Slack
    /\ clock' = clock + 1
    /\ UNCHANGED <<born, resent, pending, open>>

\* The store closes with what it still keeps.
Close ==
    /\ open /\ open' = FALSE
    /\ UNCHANGED <<clock, born, resent, pending>>

StoreNext == Submit \/ Acknowledge \/ Sweep \/ Advance \/ Close

StoreSpec == StoreInit /\ [][StoreNext]_storeVars

==============================================================================
