---------------------------- MODULE NackScheduler ----------------------------
(***************************************************************************)
(* The receiver's NACK scheduler (protocol/nack_tracker.rs) as the receive   *)
(* task of rist-transport/src/receiver.rs drives it: every RTP packet goes   *)
(* through on_packet_received, a 10 ms pump collects the NACKs that are due, *)
(* and RTT echo responses adjust the delays.  Packet e of the stream carries *)
(* wire sequence number Wire(e).  The code only compares next_nack_at with   *)
(* the present, so a slot keeps the time left until then (wait).             *)
(***************************************************************************)
EXTENDS SeqArith, FiniteSets

CONSTANTS NCap,        \* slots of the ring: 4096, a power of two
          MaxGap,      \* MAX_TRACKABLE_GAP: 1000
          MaxRetries,  \* max_retries
          Floor,       \* MIN_NACK_RETRY_DELAY, in clock ticks
          Rtts,        \* smoothed RTTs an echo response may produce
          Starts,      \* indices the stream may be joined at
          MaxExt,      \* last index of the stream (bound)
          MaxJump      \* largest step past the expected index (bound)

ASSUME NackAssumption ==
  /\ NCap \in Nat \ {0} /\ NCap <= Half /\ \E k \in 1..M : M = k * NCap
  /\ MaxGap \in Nat /\ MaxGap < NCap
  /\ MaxRetries \in Nat /\ Floor \in Nat
  /\ Rtts \subseteq Nat
  /\ Starts \subseteq Nat /\ MaxExt \in Nat /\ MaxJump \in Nat

NRing == 0 .. (NCap - 1)

nidx(s) == s % NCap

NackSlot == [seq : SeqNos, active : BOOLEAN, wait : Nat, count : Nat]

NoRtt == -1

VARIABLES
  nslots,        \* the ring
  started,       \* expected_seq is Some
  expected,      \* expected_seq
  active_count,
  base_delay,
  rtt,           \* the estimator's srtt(), or NoRtt for None
  \* Ghosts:
  eexp,          \* the stream index that expected stands for
  got,           \* packets received, of the last NCap before eexp
  pending,       \* packets flagged missing, not received and not given up
  sent,          \* NACKs sent for each packet
  lapped         \* a slot stayed active while the sequence numbers came round

codeVars == <<nslots, started, expected, active_count, base_delay, rtt>>
vars == <<codeVars, eexp, got, pending, sent, lapped>>

Init ==
  /\ nslots = [i \in NRing |-> [seq |-> 0, active |-> FALSE, wait |-> 0, count |-> 0]]
  /\ started = FALSE /\ expected = 0 /\ active_count = 0
  /\ base_delay = Floor /\ rtt = NoRtt
  /\ eexp = 0 /\ got = {} /\ pending = {} /\ sent = [e \in 0..MaxExt |-> 0]
  /\ lapped = FALSE

Active == {i \in NRing : nslots[i].active}

-----------------------------------------------------------------------------
(* on_packet_received *)

\* Slots from sequence number s forward to ring index i.
NAhead(s, i) == IF i >= nidx(s) THEN i - nidx(s) ELSE i - nidx(s) + NCap

\* The slots that start tracking one of the n sequence numbers from expected
\* on: those not tracking it already.
NewlyTracked(n) ==
  {i \in NRing : LET k == NAhead(expected, i)
                 IN  k < n /\ (~nslots[i].active \/ nslots[i].seq # wrapping_add(expected, k))}

Track(n) ==
  /\ nslots' = [i \in NRing |->
       IF i \in NewlyTracked(n)
       THEN [seq |-> wrapping_add(expected, NAhead(expected, i)), active |-> TRUE,
             wait |-> base_delay, count |-> 0]
       ELSE nslots[i]]
  /\ active_count' = active_count + Cardinality(NewlyTracked(n))

IsTracked(s) == nslots[nidx(s)].active /\ nslots[nidx(s)].seq = s

\* saturating_sub(1)
Decrement(c, k) == IF c >= k THEN c - k ELSE 0

\* Mutant: the count goes down for every late packet, tracked or not.
deactivateAlwaysCounts(s) ==
  /\ nslots' = IF IsTracked(s) THEN [nslots EXCEPT ![nidx(s)].active = FALSE] ELSE nslots
  /\ active_count' = Decrement(active_count, 1)

\* Mutant: whatever the slot tracks is deactivated.
deactivateAnySeq(s) ==
  IF nslots[nidx(s)].active
  THEN /\ nslots' = [nslots EXCEPT ![nidx(s)].active = FALSE]
       /\ active_count' = Decrement(active_count, 1)
  ELSE UNCHANGED <<nslots, active_count>>

deactivate(s) ==
  IF IsTracked(s)
  THEN /\ nslots' = [nslots EXCEPT ![nidx(s)].active = FALSE]
       /\ active_count' = Decrement(active_count, 1)
  ELSE UNCHANGED <<nslots, active_count>>

\* The packet, not later than the newest one expected, that a slot tracks.
Tracked(i) == eexp - wrapping_sub(expected, nslots[i].seq)

\* The arrivals the network can produce.
CanArrive(e) ==
  IF started THEN eexp - Half <= e /\ e < eexp + Half /\ e <= eexp + MaxJump
             ELSE e \in Starts

OnPacketReceived(e) ==
  LET s == Wire(e)
      n == diff(expected, s)
  IN  /\ CanArrive(e)
      /\ started' = TRUE
      /\ \/ /\ ~started
            /\ expected' = wrapping_add(s, 1) /\ eexp' = e + 1
            /\ UNCHANGED <<nslots, active_count, pending>>
         \/ /\ started /\ n > 0 /\ n <= MaxGap
            /\ Track(n)
            /\ expected' = wrapping_add(s, 1) /\ eexp' = e + 1
            /\ pending' = pending \cup (eexp .. (e - 1))
         \/ /\ started /\ (n > MaxGap \/ n = 0)
            /\ expected' = wrapping_add(s, 1) /\ eexp' = e + 1
            /\ UNCHANGED <<nslots, active_count, pending>>
         \/ /\ started /\ n < 0
            /\ deactivate(s)
            /\ pending' = pending \ {e}
            /\ UNCHANGED <<expected, eexp>>
      /\ got' = {g \in got \cup {e} : g >= eexp' - NCap}
      /\ lapped' = (lapped \/ \E i \in Active : eexp' - Tracked(i) >= M)
      /\ UNCHANGED <<base_delay, rtt, sent>>

-----------------------------------------------------------------------------
(* get_pending_nacks, called by the pump *)

DueSlots == {i \in Active : nslots[i].wait = 0}

\* Mutant: one retry too few.
GivenUpEarly == {i \in DueSlots : nslots[i].count + 1 >= MaxRetries}

\* Mutant: one retry too many.
GivenUpLate == {i \in DueSlots : nslots[i].count > MaxRetries}

GivenUp == {i \in DueSlots : nslots[i].count >= MaxRetries}
ToNack == DueSlots \ GivenUp

\* Mutant: a retry too waits only for half the round trip.
PumpHalfTrip ==
  /\ active_count # 0
  /\ DueSlots # {}
  /\ nslots' = [i \in NRing |->
       CASE i \in GivenUp -> [nslots[i] EXCEPT !.active = FALSE]
         [] i \in ToNack -> [nslots[i] EXCEPT !.count = @ + 1,
                               !.wait = base_delay]
         [] OTHER -> nslots[i]]
  /\ active_count' = Decrement(active_count, Cardinality(GivenUp))
  /\ sent' = [e \in 0..MaxExt |->
       sent[e] + IF \E i \in ToNack : Tracked(i) = e THEN 1 ELSE 0]
  /\ pending' = pending \ {Tracked(i) : i \in GivenUp}
  /\ UNCHANGED <<started, expected, base_delay, rtt, eexp, got, lapped>>

\* A turn of the pump that finds something due.  It needs a known RTCP peer,
\* which the first RTP packet provides.  Its interval may fire late, and then
\* several times in a row, so turns are not tied to the clock.
Pump ==
  /\ active_count # 0
  /\ DueSlots # {}
  /\ nslots' = [i \in NRing |->
       CASE i \in GivenUp -> [nslots[i] EXCEPT !.active = FALSE]
         [] i \in ToNack -> [nslots[i] EXCEPT !.count = @ + 1,
                               !.wait = IF rtt = NoRtt THEN base_delay ELSE rtt]
         [] OTHER -> nslots[i]]
  /\ active_count' = Decrement(active_count, Cardinality(GivenUp))
  /\ sent' = [e \in 0..MaxExt |->
       sent[e] + IF \E i \in ToNack : Tracked(i) = e THEN 1 ELSE 0]
  /\ pending' = pending \ {Tracked(i) : i \in GivenUp}
  /\ UNCHANGED <<started, expected, base_delay, rtt, eexp, got, lapped>>

\* An RTT echo response: srtt changes, and update_base_delay is called.
RttUpdate(r) ==
  /\ r # rtt
  /\ rtt' = r
  /\ base_delay' = IF r \div 2 >= Floor THEN r \div 2 ELSE Floor
  /\ UNCHANGED <<nslots, started, expected, active_count, eexp, got, pending, sent, lapped>>

\* Time passes for every slot that is waiting.
Tick ==
  /\ \E i \in Active : nslots[i].wait > 0
  /\ nslots' = [i \in NRing |->
       [nslots[i] EXCEPT !.wait = IF @ > 0 THEN @ - 1 ELSE 0]]
  /\ UNCHANGED <<started, expected, active_count, base_delay, rtt, eexp, got, pending, sent,
                 lapped>>

Next ==
  \/ \E e \in 0..MaxExt : OnPacketReceived(e)
  \/ Pump
  \/ \E r \in Rtts : RttUpdate(r)
  \/ Tick

Spec == Init /\ [][Next]_vars

-----------------------------------------------------------------------------
(* Properties *)

\* Every variable has its type.
TypeOK ==
  /\ nslots \in [NRing -> NackSlot]
  /\ started \in BOOLEAN /\ expected \in SeqNos
  /\ active_count \in Nat /\ base_delay \in Nat /\ rtt \in Nat \cup {NoRtt}
  /\ eexp \in Nat /\ got \subseteq Nat /\ pending \subseteq Nat
  /\ sent \in [0..MaxExt -> Nat] /\ lapped \in BOOLEAN

\* active_count never falls below the number of active slots, so the early
\* return of get_pending_nacks on 0 never hides a gap that is still tracked.
CountCoversActive == Cardinality(Active) <= active_count

\* The ring tracks what is missing: a packet flagged missing stays tracked until
\* it is received, given up, or a ring's worth of newer packets has gone by, and
\* one that was received is not tracked, so not asked for again.  A slot still
\* active when the numbers have come round stands for another packet: all bets
\* are off then.
TracksTheMissing ==
  lapped \/
    /\ \A e \in pending : e >= eexp - NCap => IsTracked(Wire(e))
    /\ \A e \in got : started /\ eexp - NCap <= e /\ e < eexp => ~IsTracked(Wire(e))

\* No packet is asked for more than max_retries times, over all its life, unless
\* a slot was still active when the numbers had come round.
RetryBudget == lapped \/ \A e \in 0..MaxExt : sent[e] <= MaxRetries

\* Packets that can be flagged missing: none before the stream was joined.
Late == {e \in 0..MaxExt : \E j \in Starts : j < e}

=============================================================================
