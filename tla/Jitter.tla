------------------------------- MODULE Jitter -------------------------------
(***************************************************************************)
(* The interarrival jitter of RtcpReceiverState::on_packet_received          *)
(* (protocol/rtcp_state.rs).  The clock counts 90 kHz ticks from the         *)
(* receiver's epoch; a packet sent at time t carries the RTP timestamp of t, *)
(* whose offset to the receiver's clock is arbitrary.  The jitter is a       *)
(* running average of the deviations fed to it, so it is abstracted to the   *)
(* largest of them: it is never above that, and 0 only if that is.           *)
(***************************************************************************)
EXTENDS Integers

CONSTANTS U32,        \* 2^32
          Latencies,  \* network delays
          MaxNow      \* bound of the clock

JitterAssumption ==
  U32 \in Nat \ {0} /\ Latencies \subseteq 0..(U32 - 1) /\ MaxNow \in Nat

VARIABLES
  now,           \* the receiver's clock
  offset,        \* RTP timestamp at the receiver's epoch
  last_transit,  \* 0.0 also stands for none
  deviation,     \* the largest |transit - last_transit| fed to the jitter
  \* Ghosts:
  lastLatency,   \* of the packet before, or -1
  variation      \* the largest change of latency between successive packets

vars == <<now, offset, last_transit, deviation, lastLatency, variation>>

Init ==
  /\ now = 0 /\ offset \in 0..(U32 - 1)
  /\ last_transit = 0 /\ deviation = 0 /\ lastLatency = -1 /\ variation = 0

Distance(a, b) == IF a >= b THEN a - b ELSE b - a
Larger(a, b) == IF a >= b THEN a ELSE b

\* The timestamp of a packet sent at time t.
rtp_timestamp(t) == (t + offset) % U32

\* The cast of an f64 to u32 saturates.
arrival_rtp == IF now < U32 THEN now ELSE U32 - 1

transit(lat) == (arrival_rtp - rtp_timestamp(now - lat)) % U32

\* Mutant: the transit of the packet before is never kept.
ReceiveKeepsFirst(lat) ==
  /\ lat <= now
  /\ deviation' = Larger(deviation, Distance(transit(lat), last_transit))
  /\ lastLatency' = lat
  /\ variation' = IF lastLatency < 0 THEN 0 ELSE Larger(variation, Distance(lat, lastLatency))
  /\ UNCHANGED <<now, offset, last_transit>>

Receive(lat) ==
  /\ lat <= now
  /\ deviation' = IF last_transit = 0 THEN deviation
                  ELSE Larger(deviation, Distance(transit(lat), last_transit))
  /\ last_transit' = transit(lat)
  /\ lastLatency' = lat
  /\ variation' = IF lastLatency < 0 THEN 0 ELSE Larger(variation, Distance(lat, lastLatency))
  /\ UNCHANGED <<now, offset>>

Tick ==
  /\ now < MaxNow /\ now' = now + 1
  /\ UNCHANGED <<offset, last_transit, deviation, lastLatency, variation>>

Next == Tick \/ \E lat \in Latencies : Receive(lat)

Spec == Init /\ [][Next]_vars

-----------------------------------------------------------------------------
(* Properties *)

\* Every variable has its type.
TypeOK ==
  /\ now \in 0..MaxNow /\ last_transit \in 0..(U32 - 1) /\ deviation \in 0..(U32 - 1)
  /\ variation \in Nat /\ lastLatency \in Latencies \cup {-1}

\* Transit times lie on both sides of the wrap of the 32-bit difference.
Straddles == \E a, b \in Latencies : a < b /\ (a - offset) % U32 > (b - offset) % U32

\* In the first 2^32 ticks (13 hours), and unless transit times straddle the
\* wrap, the jitter never exceeds the network's largest change of latency.
JitterBounded == now < U32 /\ ~Straddles => deviation <= variation

=============================================================================
