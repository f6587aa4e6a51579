----------------------------- MODULE Bookkeeping -----------------------------
(***************************************************************************)
(* What the tasks keep count of, side by side: the counts of receiver        *)
(* reports (RtcpReceiver), the jitter (Jitter), the clocks of the reports    *)
(* (SenderReports) and the round trip (RttEstimator).  They share no state.  *)
(***************************************************************************)
EXTENDS SeqArith

CONSTANTS Cycles, MaxLoss, Starts, MaxExt, MaxCopies,               \* RtcpReceiver
          U32, Latencies, MaxClock,                                 \* Jitter
          Short, Second, Micro, Offset, Epoch, Num, Den, Steps, MaxDelay, MaxNow,
                                                                    \* SenderReports
          Step, Period, Ratio, Lag, MaxTurn, Lifetime, MaxFlight    \* RttEstimator

VARIABLES
  first, base_seq, max_seq, seq_cycles, extended_max_seq, packets_received, expected_prior,
  received_prior, efirst, ehigh, copies, counted, marks, got, released,
  clock, offset, last_transit, deviation, lastLatency, variation,
  now, wall, flight, last_sr, sinceSr, stamp, prev, travel,
  known, due, sentAgo, srtt, echoes, least, most, ordered

countVars == <<first, base_seq, max_seq, seq_cycles, extended_max_seq, packets_received,
               expected_prior, received_prior, efirst, ehigh, copies, counted, marks, got,
               released>>
jitterVars == <<clock, offset, last_transit, deviation, lastLatency, variation>>
clockVars == <<now, wall, flight, last_sr, sinceSr, stamp, prev, travel>>
rttVars == <<known, due, sentAgo, srtt, echoes, least, most, ordered>>

C == INSTANCE RtcpReceiver
J == INSTANCE Jitter WITH now <- clock, MaxNow <- MaxClock
S == INSTANCE SenderReports
E == INSTANCE RttEstimator WITH flight <- echoes

ASSUME BookkeepingAssumption ==
  C!RtcpReceiverAssumption /\ J!JitterAssumption /\ S!ReportsAssumption /\ E!RttAssumption

-----------------------------------------------------------------------------
(* Properties *)

\* The numbers of a receiver report are exact, however packets are reordered
\* around the wrap and whichever of them come twice.
ReportIsExact == C!ReportIsExact

\* The reported jitter never exceeds the network's largest change of latency, in
\* the first 2^32 ticks and unless transit times straddle the wrap.
JitterBounded == J!JitterBounded

\* Media and sender reports are stamped on one timeline, whatever is done to the
\* system clock.
OneTimeline == S!OneTimeline

\* A receiver report tells how long the sender report received last travelled, to
\* two units of its fields and until the delay field saturates.
ReportsTellDelay == S!ReportsTellDelay

\* The smoothed round trip is never above the longest true one, nor below the
\* shortest while answers come before the next request.
RttIsTrue == E!RttIsTrue

\* The report timer sends an echo request again within a bounded time.
RequestsKeepComing == E!RequestsKeepComing

=============================================================================
