# A TLA+ verification of the Zhuge simulator

The repository is an ns-3 simulator for interactive video over wireless links. It has a
video application (`ns-3.34-diff/src/bitrate-ctrl`), the access points under study
(`ns-3.34-diff/src/zhuge`: Zhuge itself, and FastAck and ABC to compare with), two TCP
congestion controls (`ns-3.34-diff/src/internet`) and a program that wires them up
(`ns-3.34-diff/scratch/fec-emulate.cc`). Everything runs in one thread: the ns-3
scheduler runs events in time order, events of one time in the order they were scheduled.
What is hard here is therefore not data races but the order of events, of packets and of
acknowledgements, and state that several handlers keep in step by hand.

Paths below are relative to `src/ns-3.34-diff/src/`; `BC` is `bitrate-ctrl/model`, `ZH` is
`zhuge/model`.

## Inventory

| Component | State | Operations | Hard | Correct when |
|---|---|---|---|---|
| UDP video sender (`BC/packet-sender-udp`) | stored packets by group, a deque of their keys, a queue of frames, send events, a retransmission timer | `CreateFrame`, `SendPacket`, `CheckRetransmission`, `RcvACKPacket`, `StopRunning` | two structures for one store; packet objects shared by store and queue; timer against late ACK | each packet is kept until acknowledged or too late, never forgotten, and not kept longer unless the stop cuts it off |
| UDP video receiver (`BC/packet-receiver-udp`, `BC/fec-policy/packet-group`) | groups (incomplete, complete, timed out), batches, decoded packets | `ReceiveUdpPacket`, `PacketGroup::AddPacket`, `PacketBatch::CheckComplete`, `ReplyACK` | reordering between batches; packets of settled groups | what it acknowledges was received or recovered; FEC counts add up |
| Video decoder (`BC/video-decoder`) | unplayed and played frames, last played, newest | `DecodeDataPacket`, `GetDDLMissRate` | a discard loop with a catch-up loop inside | frames decoded once and in order; no frame waits beyond the deadline |
| Zhuge AP, TCP (`ZH/network-queue-zhuge`, `ZH/delta-delay`) | four histories of delay changes, last ACK's arrival and departure, held ACKs | `OnRecv_rcvdev`, `SetAckDelay`, `OnRecv_snddev`, `SampleDeltaDelay`, `SendPkt` | random samples, tokens, relative delays | ACKs never overtake each other and are held a bounded time |
| Receiver's network state (`BC/packet-receiver-udp`) | packets of a window in id order, byte count, report timer, last id reported | `OnSocketRecv_receiver`, `Feedback_NetState` | late packets, erasure while iterating, wrapping ids | ordered; nothing is dropped within the window; reports in order; losses exact |
| Zhuge AP, UDP (`Sendback`) | last packet id, pending feedback | `OnRecv_rcvdev`, `Sendback` | 16-bit ids that wrap | reports go forward and state their distance |
| FastAck AP (`ZH/network-queue-fastack`) | histories of segments, queue of delivered ones, cache, last ACKs, duplicate counter | `OnRecv_rcvdev`, `CheckAck`, `CreateAckPkt`, `OnRecv_snddev`, `StopApplication` | a timer that schedules itself, twice in one mode; a loop over a queue it shortens; ACKs over gaps | it acknowledges only what was delivered, answers for all of it, and keeps a copy of what is missing below an ACK it gave |
| ABC AP (`ZH/network-queue-abc`), `TcpABC` | transmitted bytes per slot | `UpdateTxRate`, `CongControl` | marking is done outside the repository | - |
| Sender-based controller (`BC/congestion-control`) | packets in transit, packets sent, packets fed back, sum of sizes, loss intervals | `processSendPacket`, `processFeedback`, `PrunTransitHistory`, getters | 16-bit ids, pruning of three histories, `front()` without a check | asserts hold; sums equal the entries; a packet's bytes count once |
| Feedback groups (`BC/packet-sender-udp`, `OnSocketRecv_sender`) | start of the group, previous packet and group end | the NETSTATE branch | gaps in feedback; overtaking samples | the controller gets feedback once per group |
| GCC, NADA, dummy (`BC/congestion-control`) | over-use detector, rate state machine, estimate, encoder rate | `processFeedback`, `OveruseDetectorDetect`, `ChangeState`, `ChangeBitrate`, `UpdateSendingRate` | pieces of state reset in different branches; floating point | the rate stays in range, falls only on sustained over-use, rises only when calm |
| Copa (`internet/model/tcp-copa`) | window, velocity and direction, slow start, mode, measurements since the last report | `CongControl`, the socket's timeout | window, velocity and direction are updated in an order; floor and timeout meet | velocity is earned; the window keeps its floor |
| TCP sender and receiver (`BC/packet-*-tcp`) | frame queue, write history, rate; bytes left of a frame | `CreateFrame`, `SendPacket`, `UpdateDutyRatio`, `UpdateBitrate`, `OnSocketRecv_receiver` | framing over a byte stream; a send that is not retried; unsigned sums | frames are delivered whole and in order |
| Game server, client, encoder | frame counter, bitrate, encode event | `SendFrame`, `EncodeFrame`, `UpdateBitrate`, `StopEncoding` | stop order; the empty frame | - |
| FEC policies, packet formats, experiment program, rtc_base | tables, byte layout, topology | - | - | - |

Interactions. The encoder calls `CreateFrame` of the sender; the sender's packets reach the
receiver's `ReceiveUdpPacket` through the network and the AP; the receiver calls
`DecodeDataPacket` synchronously and answers with an ACK packet, which comes back to
`RcvACKPacket`. The AP sees both directions: a data segment updates its estimate of the
queueing delay, an ACK of the flow is held back by it. A report of network state comes to
`OnSocketRecv_sender` from the receiver's timer, or, with Zhuge for RTP (`wirtc`), from the
AP; the sender looks up each sample's send time in the controller's history, cuts the
samples into groups and feeds the controller at each change of group; a timer takes the
controller's rate to the encoder. Over TCP the same encoder and timer are joined to
`PacketSenderTcp`, whose rate comes from what left the socket's buffer; below it is a TCP
congestion control (Copa, ABC), and, with `FastAck` at the AP, ACKs the AP has made itself.

## Modules

| Module | Models | Shape |
|---|---|---|
| `DeadlineStore` | nothing in the code: the promise of the sender's store | abstract specification |
| `PacketSenderUdp` | the sender, game server and encoder | one action per handler; `CheckRetransmission` is one step with its two phases, `RetransmitGroup` and the queueing of the new batch |
| `PacketReceiverUdp` | the receiver, `PacketGroup`, `PacketBatch` | operators over one group, one action `ReceiveUdpPacket` |
| `UdpPath` | sender + network + receiver | composition: `EXTENDS` the sender, `INSTANCE` of the receiver |
| `VideoDecoder`, `VideoDecoderMC` | the decoder | the discard loop as a recursive function of states, a catch-up by the frame it ends at |
| `DeltaDelay` | the class `DeltaDelay` | operators from an object to an object, the random choice as a set of outcomes |
| `ZhugeAckDelay` | the AP's handling of a TCP flow | actions of the two receive callbacks and the send event |
| `NetStateFeedback` | the receiver's packet record and reports; the AP's `Sendback` | one action per callback; ids are `n % Ids`, `n` kept beside them |
| `SenderBasedController` | the packet histories of the class | operators from an object to an object |
| `FeedbackGroups` | the sender's handling of samples | `EXTENDS` the controller; one action per branch for a sample |
| `AckDelayLine` | nothing in the code: the promise of the AP to a flow | abstract specification |
| `TcpVideo` | encoder, TCP sender, the socket's buffer, TCP, TCP receiver | one action per event; the stream is a row of positions, `rx` the receiver's fields |
| `FastAck` | the FastAck AP between a server, a wireless link and a client | one action per handler; `CheckAck` with both runs of `CreateAckPkt` in point-to-point mode |
| `TcpCopa` | `CongControl`, and the socket's timeout | two actions; `CongControl` is a chain of operators in the order of the code |
| `GccController` | `GccController`, what NADA gets, `UpdateSendingRate` | three actions; the detector and the rate state machine as operators of one report |
| `UdpVideoProofs` (sender, path and decoder), `FeedbackGroupsProofs`, `ZhugeAckDelayProofs`, `TcpVideoProofs`, `FastAckProofs`, `TcpCopaProofs`, `GccControllerProofs`, `NetStateFeedbackProofs` | - | theorems |

Abstractions that matter.

- *Packets* are numbered in the order `StorePackets` records them, so `data_pkt_history_key`
  is a set read in increasing order; a packet's group, batch, times and TX count are a
  record shared by store and queue, as the `Ptr<DataPacket>` is.
- *The retransmission timeout* `srtt + 4 sd + n * dispersion` is any value of `Rtos`, for
  each group and check; *the FEC policy* answers any group size and FEC count of a set.
- *Time* is in ticks. What the scheduler runs "now" happens before `Tick`, so a queue
  filled at a time is emptied at that time: pacing is off in every configuration.
- *The frame ACK, statistics and RTT filter* change nothing in the modelled state and are
  left out; congestion-control feedback, which does not touch the store either, is in
  modules of its own.
- *The delay estimate* is computed as `CalculateTotalDelayMs` does for a point-to-point
  link: from the bits queued, any of `QueueSizes`, and from what `UpdateTxRate` makes of the
  last window of `m_txBytesList`, any of `Windows` (the bits sent, the busy and the idle
  slots). `MinTxRate` is `kMinTxRateBps`. In WiFi mode the estimate cannot be computed once
  a packet waits (see Findings).
- `m_lastQSizeByte` is read before it is written: `lastEmpty` starts as any Boolean.
- `VideoDecoder` keeps `m_lastPlayedFrameId` as an integer from -1: the code uses it only
  as `m_lastPlayedFrameId + 1`, and frame ids stay far below 2^32.

- *Ids* (`NetStateFeedback`, `SenderBasedController`) are those of the code, `n % Ids` with
  `Ids` for 65536; the model keeps `n` beside them to say what a report is about and never
  decides by it. The numbers in use at one time stay within half the range: a guard of
  `Send` and `SendPacket`, as the window and the histories are seconds long and half the
  range is 32768 packets.
- *The guard of `SendPacket`*, `NumbersSuffice`, says this of the samples that may still
  come and, as long as feedback is taken into account, of the packets in transit, of those
  fed back and of those sent in the last `TransitAge` (5 seconds,
  `sender-based-controller.cc:39,184`), and that the first feedback comes before the ids
  wrap. The properties need it: a first feedback behind the wrap is credited with packets
  sent after it, and an id that came round before the prune at it cuts the history in the
  wrong place, or empties it. Once the sender is locked out nothing is fed back or pruned,
  and it may send for as long as it likes. `2 * LockGap <= TransitAge`: 20 frame intervals
  (`packet-sender-udp.cc:805`) are 0.8 seconds at the default of 40 ms a frame.
- *A packet has one byte*, so byte counts are numbers of packets, and a history entry
  carries the set of packets its size stands for.
- *Erasing from a deque while iterating* is modelled as libstdc++ does it: the shorter side
  moves, so after an erasure in the back half one entry is passed over (`Slid`).
- *The AP's report* is built one millisecond after the packet; the flag `wirtc`, which says
  whether the receiver or the AP really sends, changes no other state. The predicted
  arrival time is not modelled.
- *Samples* reach `FeedbackGroups` in any order within `Reorder` packets and each at most
  once: `ReportsAdvance` shows that a report never repeats one, and reports themselves may
  overtake each other or be lost.
- `SenderBasedController::reset` is called by nobody and is left out.

- *The byte stream* of `TcpVideo` is four positions, `acked <= rcvd <= sent <= wrote`; TCP
  sends a full segment or all there is, and an arrival may fill a hole, so one callback may
  find several segments. `m_connected` is read before it is set: it starts as any Boolean.
- *Sums of bytes* in `TcpVideo` are modulo `Word`, for 2^32.
- *Segments* of `FastAck` are one unit long and numbered; sender, link and client are
  external and may send again, lose and delay. `Setup` assigns `cc_create` to itself: it
  starts as any Boolean. The receive window and `m_HighestSeq` only fill header fields.
- *Copa's times* are the times passed since an event; its two windowed minimum filters are
  the minimum they stand for; the smoothed round-trip time is a constant; the latency
  factor is `1 / inverse` with a whole `inverse`; whether a tenth of a cycle was lost is
  left open when something was. The velocity is a number modulo `VelocityRange` (2^64, a
  `uint64_t`); a change of `ChangeRange` (2^32) or more, whose conversion to `uint32_t` is
  undefined, is any change. While the simulation is younger than ten round-trip times the
  unsigned difference in `tcp_detected` wraps, and a flow counts as detected; `DetectSlack`
  is the 0.1 ms its threshold adds. `m_copaModeSwitch` is taken to be true and the pacing rate,
  which nothing reads, is left out.
- *Rates of GCC* are whole numbers of a unit of some 100 kbps; a result between two units
  is rounded either way. The 1 kbps that a multiplicative increase always grants is below
  the unit. The trend of the delay is any of `Trends` once the trendline window is full,
  and may or may not be beyond the adaptive threshold. `Spread` stands for
  `3 * std_max_bit_rate` of the average.

Operators named `Faulty...` stand next to the definition they damage. They belong to no
specification; with one put in the place of its definition the property it is listed with
in `PROJECT.json` fails.

## Runs

| Run | Asks | Bounds |
|---|---|---|
| `sender` | Does the store stay in step with its deque, its queue and its timer, does it keep the promise of `DeadlineStore`, and does every packet leave it, unless the stop cuts it off? | 2 frames of 1-2 packets, groups of 1-2: two groups of one frame, two frames, a partial last group; deadline 3, timeouts 1 and 2, so up to two retransmissions before the deadline; from the end of encoding to the stop exactly a deadline, as in the program |
| `udp_path` | Do sender and receiver agree under loss, delay and reordering? | 1 frame of 2 packets with FEC, one or two groups: enough for overlapping batches of one group and for late packets of a settled one |
| `decoder` | Are frames settled without gaps, in order and once, and how many can be missed? | 8 frames, two of them of two packets, a deadline of 3 frames: two discard loops that each meet full frames ahead |
| `ack_delay` | Do ACKs stay in order and bounded, do the asserts hold, and do all leave? | 3 ACKs, 3 changes; window 1 tick against a run of 5, so entries age twice; a queue of 0 or 2 bits and a rate window of 2 give estimates of 1 to 4, so changes of up to 3 against a cap of 2 and a limit of 2: the cap binds |
| `netstate_feedback` | Do reports keep the order of sending and their record its packets, and are losses and distances exact? | 10 packets with ids that wrap at 8: the window, the last report and the AP's last id all cross the wrap; window 1 and report interval 2 against 4 ticks, in the order the program has them (see Findings): several reports, retired entries, arrivals no report finds |
| `feedback_groups` | Do the controller's asserts hold, do the sums add up, can feedback stop for good? | 10 packets with ids that wrap at 8; samples overtaken by one; group gap 0, lock-out gap 2 and ages 1 to 4 against 7 ticks: groups change repeatedly, the history holds three entries across the wrap, every age limit is passed, and a sender that is locked out goes on until it has reused ids |
| `counts_at_wrap` | see Findings | as `feedback_groups`, with a lock-out gap of 4, ages to match, and no packet too old to count |
| `tcp_video` | Do frames arrive whole and in order, does the unsigned rate sum hold, and when is a frame written? | 7 frame times; header 2, segment 4, so segments end inside, at and behind frames; a buffer of 8 bytes that refuses the larger frames until ACKs come; sums modulo 4096, above any of the run, so a wrap would show as a negative difference |
| `fast_ack` | Do early ACKs match what was delivered, is a missing segment kept, does all that is delivered get dealt with, what does a stop leave behind? | both modes; 4 segments and 2 troubles (losses, repeats, foreign packets), enough for a loss of a segment and of its copy, and for three equal ACKs; more than 2 pending checks are not told apart |
| `copa` | Is velocity earned, and is the floor kept through slow start, decreases, modes and time-outs? | windows up to 26 bytes, 13 segments of 2 bytes, around the floor of 4 segments; velocity 1, 2, 4 and, as its range is 8, then 0; two latency factors (inverse 2 and 3); round-trip times 4 and 12, below and above the target; a start at 2 and 8 ticks to look back on, so that the first reports come too early for `tcp_detected` |
| `copa_turn` | see Findings | as `copa` |
| `rate_control` | Does the estimate stay in range, fall only on sustained over-use and rise only when calm? | 4 rates; a trendline window of 2; departures below and above the over-use time; receiving rates of none, less and more than the estimate |

Every bound is a CONSTANT: `MaxSent`, `Reorder`, `MaxFrames`, `LastEncode`, `MaxTime`,
`MaxAcks`, `MaxChanges`, `InFlight`, `MaxSeq`, `MaxTrouble`, `MaxChecks`, `MaxWindow`,
`MaxInverse`; `Long` of `GccController` is defined from the constants. `VelocityRange`,
`ChangeRange`, `Ids` and `Word` are widths of the code's integers, not bounds.
`CHECK_DEADLOCK FALSE` is said where a run ends at `MaxTime`; the decoder is checked for
deadlock.

Fairness. `FairSpec` of the sender and `AckSpec` of the AP ask weak fairness of the events
the program has scheduled (send, retransmission check, stop, held ACKs) and of the clock:
the ns-3 scheduler runs every event in the list and then advances. Nothing is asked of the
encoder, the network or the receiver. `Settles` and `EveryAckLeaves` thus hold even when no
ACK and no data packet ever comes; `Settles` excepts the packets a stop cuts off (see
Findings). `FairSpec` of `FastAck` asks the same of the check and the scheduled ACKs, and
nothing of sender, link and client: `DeliveredIsSeen` says that a queue a check leaves half
done is done in the end, unless the application stops.

## Findings

Each is a property that its run finds violated.

- `CountsWhatWasSent`: the size credited to an acknowledged packet is selected with plain
  `>` and `<=` on sequence numbers (`sender-based-controller.cc:286`), though "sequences,
  uint16_t, can wrap (just like TCP)" (`sender-based-controller.h:95`). The first packet
  acknowledged after a wrap is credited with nothing. With `Ids` beyond the packets sent
  no violation was found.
- `TurnsAtVelocityOne`: "If we detect a sudden direction change here, while v is still very
  high but meant for opposite direction, we should reset it to 1" (`tcp-copa.cc:221-225`),
  yet `CongControl` has computed the change of the window before it looks at the direction
  (`171-173`, `203-205`), so the first step in the new direction is as large as the last in
  the old one.

Other places where code and words differ, or that surprise, met while modelling; no run is
kept for them.

- The application stops exactly a deadline after the encoder: both are one second
  (`fec-emulate.cc:49,169,174`), and `CheckRetransmission`, which runs once a millisecond
  (`packet-sender-udp.cc:86`), drops a packet only when it is older than the deadline. So the
  last check before `StopRunning` still keeps a packet encoded in the last millisecond, or
  in the very moment, of encoding, and nothing removes it afterwards. `StopLeavesLast` and
  `Settles` say that only such packets (`CutOff`) are left, for any `StopGap`; the `Close`
  step of `DeadlineStore` is the stop. That a store always ends up empty holds only where
  the gap is longer than deadline and check interval together, and is not claimed.
- `ReceiveUdpPacket` adds a packet to a group before its "necessity check"
  (`packet-receiver-udp.cc:212-213`), so a late packet re-opens a settled group, which
  "Groups: Received" (`404`) counts twice. What is delivered is not affected.
- `PacketGroup::AddPacket` drops a data packet that is already decoded as "useless for
  decoding" (`packet-group.cc:202-204`), yet in the batch of a retransmission it would
  count towards recovery of the others.
- The "ddl miss rate = missed_frames / all_frames" (`video-decoder.cc:167`) counts
  discarded frames as played: what it takes for missed is never more than the frames of a
  deadline (`BoundedLag`), however many are lost. A discarded frame of which no packet came
  is a null pointer in `played_frames`, which `183` follows.
- The sender counts the first sample of all in `m_curr_pkts_in_frame`, but adds nothing of
  it to the sums the group's averages are made of (`packet-sender-udp.cc:792-801`).
- The AP's estimate does not run in WiFi mode: the branch meant for it tests `m_mode == 1` a
  second time (`network-queue-zhuge.cc:160`), so the first waiting packet is a fatal error.
  The flag `emptyqueue` (`185-193`) is true when the queue is not empty; what is done with
  it is right.
- The loss-based half of GCC never works: `UpdatePacketsLost` is not called
  (`gcc-controller.cc:528` is a comment), so `UpdateEstimate` returns at "No feedback
  received". `last_fraction_loss_` is declared once more in the header (`249`) and not
  initialised. `ClampBitrate` also lowers a rate that is to be held, which its comment
  denies. The additive increase has no cap of a second, the multiplicative one has.
- `NadaController::processFeedback` has other parameters than the method of the base class:
  no report reaches it, its rate is 0 and the encoder stays at its minimum.
- `PacketSenderTcp`'s window is closed at both ends: a write exactly `Window` old counts in
  two updates. The factor `* 1000 * 8` leaves 32 bits above 536870 bytes a window. The
  receiver takes one frame per callback, so behind a burst a frame waits for later data,
  and the last frames may stay in the queue or in the socket for good. That the server
  drops an empty frame is what protects the receiver from an empty body.
- FastAck acknowledges over gaps, passes over the segment its last ACK asks for, and works
  off half of its queue with each check. In point-to-point mode each check schedules two.
  The cache is cut at the copy of the segment the client's previous ACK ended with
  (`network-queue-fastack.cc:248-263`). If the sender sends an old segment again, its second
  copy stands behind newer ones, and the cut takes them with it: with segments 2, 3 and 6
  lost and 2 sent again, the only copy of 6 goes when the client's ACK reaches 6, though the
  AP has acknowledged 8. `MissingIsKept` therefore speaks of runs in which the sender
  sends nothing again.
- The window of the receiver's record is given in milliseconds, "window(in ms)"
  (`game-client.h:53`), 34000 by default (`game-client.cc:23`), and compared with
  microseconds (`packet-receiver-udp.cc:93`): it is 34 ms, shorter than the 40 ms between
  reports. Packets that come early in an interval are gone when the report is made.
- Copa's velocity, a `uint64_t`, goes on doubling without a limit (`tcp-copa.cc:319`) while
  the window stands at its floor. The change of the window computed from it soon leaves the
  `uint32_t` it is converted to, which is undefined; after 64 doublings the velocity is 0,
  and at the floor, where the direction
  stays down, the window stands still until a timeout. `VelocityEarned` and `WindowFloor`
  hold even so. Besides, slow start that
  ends after a timeout halves below the four segments of the floor; `m_TotalAckedBytes` is
  not initialised.

Two things the properties say with a condition, because the code needs it. `LossesExact`
holds while the ids of the window do not wrap around: at a wrap with a gap `losses_in_wnd`
is about 2^32 (`packet-receiver-udp.cc:346`). And the window of `m_record` is not exact: an
entry passed over by the erasing loop stays until a later packet. `RecordOrdered` and
`NothingSkipped` hold nevertheless. `LockedOutForever` states a property of the code that
may surprise: once a gap in the feedback is longer than 20 frame intervals, no sample ever
starts a group again and the controller gets no more feedback; the code prints the group
and goes on (`packet-sender-udp.cc:843`).

## Proofs

TLAPS proves for all values of the constants what the runs check on small instances, under
the assumptions the modules name (`SenderAssumption`, `DecoderAssumption`, `AckAssumption`,
`DeltaAssumption`, `FeedbackAssumption`, `ControllerAssumption`, `GroupAssumption`,
`TcpVideoAssumption`, `FastAckAssumption`, `CopaAssumption`, `GccAssumption`) and no others.
Bounds such as `MaxTime` are constants too, so the theorems hold for runs of any length.
Several properties are conjunctions of named parts (`StoreSound`, `DeliveriesSound`,
`DeltaSound`, `FramesArriveWhole`, `SettledOnce`, `RecordSound`, `AcksMatchDeliveries`,
`HistoriesSound`, `SizesCountOnce`).

*Recursive functions.* The loops of the code over its deques are recursive functions on the
positions of a sequence. The library's induction principles take an operator as a parameter,
which the installed provers cannot instantiate. Each proof module that needs induction
therefore derives it once more in a form without one: `SmallestNat` (a non-empty set of
naturals has a least element) from the well-foundedness of `<`, from it `UpTo` (induction on
the numbers up to a bound, for a set in the place of a predicate), and with that the
existence of the function that a recursive definition chooses. What such a function computes
is then proved by `UpTo` like anything else.

*Sender* (`UdpVideoProofs`, first part). None of the safety properties is inductive alone.
The inductive invariant `IInv` is the conjunction of `TypeInv`; `OrderInv` (packets are
numbered in encode order, the store's keys are in the deque); `StepInv` (stored packets of a
group agree in TX count, batch and encode time: needed because `RetransmitGroup` takes the
TX count of one of them); `QueueInv` (a queued packet was enqueued at this very time and
belongs to the batch it is queued with: needed because a later retransmission would change
it); `FreshInv` (numbers not yet given are larger than all in use) and `StopInv` (what a
stopped sender still stores was too young for the last check: a check came within
`CheckInterval` of the stop and kept only what was within its deadline; nothing is assumed
of `StopGap`). `Inductive` has one step per action; `StopCutsLast` reads `StopLeavesLast`
off `StopInv`; `StoreStaysSound` collects the parts. `Implementation` maps the sender to
`DeadlineStore`, `StopRunning` to its `Close`; the key fact is that `Outdated`, a prefix of
the deque, is exactly the set of outdated stored packets, by `OrderInv`.

*Path* (`UdpVideoProofs`, second part). Each step of the path is a step or a stutter of the
sender, so the sender's invariant is that of the path; `NeverForgotten` then follows from
what ACKs in flight may name. What the receiver knows needs more. A retransmission moves a
stored packet to a new batch and changes the very object that an older batch was made of, so
neither the store nor the queue still says what a batch on the wire contains. The invariant
`WholeInv` therefore asks for some function `mem` that gives each batch the packets it was
made of, and says that queue, wire and receiver all agree with it, that a batch's data
packets are sent before its FEC packets (so what FEC covers was sent), and that what is
settled was delivered. A step that makes new batches (`CreateFrame`, `CheckRetransmission`:
the lemmas about `BatchStep`) extends `mem` to them; every other step keeps it.
`CountIsRight` rests on one more invariant (`CountInv`): packets delivered plus FEC packets
still open in some batch are at most the packets received. `DeliveriesAreSound` reads
`DeliveriesSound` off `WholeInv`.

*AP, TCP* (`ZhugeAckDelayProofs`). `AckInv` adds to the properties that the deltas, the
tokens and the popped tokens are in time order, popped ones before the rest (`Window`), that
the last ACK's departure is within the limit of its arrival (`LastInv`) and that no held ACK
leaves after the last (`PendingInv`). Loops that prune a deque are described by the entry
they stop at; that such an entry exists is `SmallestNat`. `TotalDelayIsNat` says that the
estimate is a natural number: the rate is never 0 and no divisor is. `DeltaStaysSound`
collects the parts.

*Decoder* (`UdpVideoProofs`, last part). `DecoderInv`: the settled frames are `0 .. p - 1`
for some `p`, the frames that wait are not among them and not newer than `maxFrame`, and
`m_lastPlayedFrameId`, which the discard loop may move back behind frames its own catch-up
has played, stays within a deadline of `maxFrame`. Hence the loop runs only for a packet of
a new newest frame, so its catch-up never plays the frame of the packet at hand, whose
`unplayed_frames` entry is used after it. `DiscardKeeps` carries this through the turns of
the loop. `PlayedHasNoGap`, `FramesSettleOnce` and `LagIsBounded` read their properties off
the invariant; the last also bounds what the miss rate counts, as the settled frames are `0
.. p - 1`.

*Receiver's network state* (`NetStateFeedbackProofs`). Lemmas about the loops say what the
erasing loop leaves (`SlidKeeps`: a part of the record in its order, with every entry that is
young enough), where an arrival is put in (`InsertedKeeps`), what a report takes
(`SamplesAdvance`) and what the loss count adds up (`LossesCounted`: while the ids do not
wrap, the sum over neighbours telescopes). `RecInv` adds to the properties that the id kept
from the last report is that of the latest packet reported, and that packets in flight and in
the record are within half the range of ids of the sender; `IdDifference` and `CloseIds` are
the arithmetic of the wrap. `LossesAreExact` and `SamplesMoveOn` are action properties.

*AP, UDP* (`NetStateFeedbackProofs`). `GapIsExact`: the distance the AP computes between
two 16-bit ids is the number of packets between them. `ApInv` says that the id kept from
the last report is that of the packet reported, that the sender is at most half the range
ahead of it, and that the packet held for the next report is not older; the lemma
`IdDistance` is the arithmetic of the wrap.

*TCP video* (`TcpVideoProofs`). `VideoInv` is `TypeInv`, `StreamInv` and `EventInv`.
`StreamInv` relates the stream's positions to the frames written (`LayoutInv`), to those
still queued (`QueueInv`), to the ends of the segments sent (`SegmentInv`), to the bytes
the receiver has and the frame it is in (`ReceiverInv`, `WaitInv`). Frame ends increase
strictly, and two neighbouring segment ends are a segment apart unless the later one is
where the written data ended, the end of a frame: so no callback finds a part of a header,
the case the code has no answer to. `FramingIsSound` follows. `WritesFollowFrames` follows
from `EventInv`: while a send event is pending, the clock is at the last frame's creation.
`SendRateIsSound` needs `RateInv`: behind some point of the write history all entries are at
least as young as the last update, and they add up to what the buffer grew by since then. An
update happens at most a window after the one before, so no such entry has left the window.

*FastAck* (`FastAckProofs`). `StopIsNotEnough` proves of every instance that
a stop ends the checks of the WiFi mode and, once a check has found work, not those of the
point-to-point mode; `ChecksInv` relates their number to the mode. `EarlyAcksAreRight` and
`MissingStays` rest on `FlowInv`, four parts: the types with the AP's histories in order
(`Shapes`); every segment the AP has dealt with is at most the number of an ACK, and below
one unless it is the latest (`AckedInv`: this is what answers for a segment that the next
round passes over); the client's ACKs are cumulative and not ahead of what it has
(`ClientInv`); and each segment the client misses stands in the cache, in order, and is under
way or lost, or was lost twice (`CopiesInv`, which needs that the sender sends nothing again).

*Feedback groups* (`FeedbackGroupsProofs`). The difficult part of `HistoriesSound` is
`PrunTransitHistory`, which reads `front()` before every pop and compares ids as plain
numbers: it stops in time only if a packet with the id of `m_prev_groupend_id` is still
there. `GroupInv` therefore says that the packets behind `m_prev_id` and
`m_prev_groupend_id` stand in the history of sent packets until their ids are used again
(`Kept`), the first within its group and the second at most `LockGap` before it: no packet
near them in time has their id, and a pruning that stops at one keeps the other. `SentOK`
says that the packets sent stand in a row by number, so that the position of one tells
those of all others; `TransitOK` and `HistoryOK` say how packets in transit and fed back
follow each other, and `LastOK` relates `m_lastRecvSequence` and the
expected id to the last entry, so what a new entry counts lies behind what was counted.
This holds only as long as the sender is within reach: when it is locked out, packets and
ids go round without feedback. So `FeedbackInv` is `ActiveInv \/ (BaseInv /\ LockedOut)`,
where `BaseInv` is what the properties still need, and `LockOutIsFinal` is proved with it:
a group starts only from a sample within reach, none is left, and an entry that could be
found for a new packet is younger than the group by more than `LockGap`.

*GCC* (`GccControllerProofs`). `GccInv` adds to the type the conditions the branches leave
behind: the detector's counter is at most the number of over-using reports in a row
(`CountedReports`), and the rate machine is in its increasing state only after a calm
update (`IncreasingWhenCalm`). `GccInductive` proves invariant and step property together,
with one lemma per part of `processFeedback`, in the order of the code.

*Copa* (`TcpCopaProofs`). `CopaInv` adds the type of the velocity record (`VelocityState`)
and `SlowStartRoom`: slow start has at least twice the floor, or after a timeout a segment,
and is left once, by a halving at most; without it the floor would not be inductive.

*Only model-checked*: the liveness properties (`Settles`, `EveryAckLeaves`,
`DeliveredIsSeen`), which are out of the prover's reach. Every other property of a passing
run is a theorem. The two properties that are violated are not.

## Plan

What is left, in order.

1. Composition: the reports of `NetStateFeedback` as the samples of `FeedbackGroups`; the
   getters of the controller over its histories (`getCurrentRecvRate`, loss intervals).
2. `VideoStream`: `UdpPath` with `VideoDecoder`, the whole path from encoder to player.
3. The loss-based half of GCC, for the day `UpdatePacketsLost` is called.

## Not modelled

- FEC policies: floating-point optimisation over generated tables; the model lets them
  answer anything.
- ABC: the marking is done in ns-3 classes outside this repository, and without it
  `TcpABC` and the AP's rate are formulas without a partner.
- Of GCC, the adaptive threshold (`UpdateThreshold`, a floating-point filter: a trend may be
  on either side of it) and the loss-based half, which never runs (see Findings); NADA's
  and the dummy's rules, of which no report reaches the first.
- The byte layout of headers, trace and statistics output, getters, the experiment program
  (topology and options), scripts, and `rtc_base`, copied from WebRTC.
