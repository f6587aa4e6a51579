--------------------------- MODULE SenderReports ---------------------------
(***************************************************************************)
(* The clocks of the reports: media and sender reports are stamped by the    *)
(* sender (ntp_to_rtp90k in sender.rs, RtcpSenderState in rtcp_state.rs),    *)
(* and receiver reports say which one came last and how long ago (last_sr,   *)
(* delay_since_last_sr).  now is the monotonic time since the sender's epoch *)
(* and wall the system clock's, which may be stepped; both are in units of   *)
(* which Second make a second (nanoseconds).  The packet and octet counts,   *)
(* on which nothing depends, are left out.                                   *)
(***************************************************************************)
EXTENDS Integers

CONSTANTS U32,       \* 2^32
          Short,     \* 2^16
          Second,    \* units in a second: 10^9
          Micro,     \* units in a microsecond: 1000
          Offset,    \* NTP_EPOCH_OFFSET, in seconds
          Epoch,     \* rtp_ts_epoch_system, in units since 1970
          Num, Den,  \* RTP ticks per microsecond: 90 / 1000
          Steps,     \* steps of the system clock
          MaxDelay,  \* longest time a sender report travels
          MaxNow     \* bound of the clock

ReportsAssumption ==
  /\ {Short, Second, Micro, Num, Den} \subseteq Nat \ {0} /\ U32 = Short * Short
  /\ {Offset, Epoch, MaxDelay, MaxNow} \subseteq Nat /\ Steps \subseteq Int
  /\ (MaxDelay * Short) \div Second + 2 < U32

VARIABLES
  now, wall,
  flight,   \* sender reports in flight: [msw, lsw, age]
  last_sr,  \* compact NTP of the last sender report received, or -1
  sinceSr,  \* time since it came
  stamp,    \* the last media packet or sender report: [ts, at], its RTP timestamp
            \* and the time it was made
  \* Ghosts:
  prev,     \* the stamp before
  travel    \* how long the last sender report received had travelled

vars == <<now, wall, flight, last_sr, sinceSr, stamp, prev, travel>>

\* Whole microseconds.
as_micros(t) == t \div Micro

\* ntp_us * 90 / 1000, truncated to 32 bits; generate_sr computes the same.
ntp_to_rtp90k(t) ==
  LET ntp_us == as_micros(Epoch) + Offset * (Second \div Micro) + as_micros(t)
  IN  ((ntp_us * Num) \div Den) % U32

\* Whole seconds, and the rest in 2^-32 seconds.
system_time_to_ntp(t) ==
  LET unix == Epoch + t
  IN  [msw |-> (unix \div Second + Offset) % U32,
       lsw |-> ((unix % Second) * U32) \div Second]

\* The middle 32 bits: seconds modulo 2^16 and the rest in 2^-16 seconds.
compact_ntp(m) == (m.msw % Short) * Short + m.lsw \div Short

Media ==
  /\ stamp' = [ts |-> ntp_to_rtp90k(now), at |-> now] /\ prev' = stamp
  /\ UNCHANGED <<now, wall, flight, last_sr, sinceSr, travel>>

\* Mutant: the RTP timestamp too is taken from the system clock.
generate_sr_wall ==
  LET ntp == system_time_to_ntp(wall)
  IN  /\ stamp' = [ts |-> ntp_to_rtp90k(wall), at |-> now] /\ prev' = stamp
      /\ flight' \in {flight, flight \cup {[msw |-> ntp.msw, lsw |-> ntp.lsw, age |-> 0]}}
      /\ UNCHANGED <<now, wall, last_sr, sinceSr, travel>>

\* The NTP timestamp is the system clock's, the RTP timestamp is computed from
\* the epoch and the monotonic clock.  The report may be lost.
generate_sr ==
  LET ntp == system_time_to_ntp(wall)
  IN  /\ stamp' = [ts |-> ntp_to_rtp90k(now), at |-> now] /\ prev' = stamp
      /\ flight' \in {flight, flight \cup {[msw |-> ntp.msw, lsw |-> ntp.lsw, age |-> 0]}}
      /\ UNCHANGED <<now, wall, last_sr, sinceSr, travel>>

\* Mutant: the time of receipt is that of the first report.
on_sr_received_first(m) ==
  /\ last_sr' = compact_ntp(m) /\ sinceSr' = sinceSr /\ travel' = m.age /\ flight' = flight \ {m}
  /\ UNCHANGED <<now, wall, stamp, prev>>

\* In any order.
on_sr_received(m) ==
  /\ last_sr' = compact_ntp(m) /\ sinceSr' = 0 /\ travel' = m.age /\ flight' = flight \ {m}
  /\ UNCHANGED <<now, wall, stamp, prev>>

\* Whole 2^-16 seconds of a time.
Fraction16(t) == (t * Short) \div Second

\* What generate_rr says: the cast to u32 saturates.
delay_since_last_sr ==
  IF last_sr = -1 THEN 0
  ELSE IF Fraction16(sinceSr) < U32 THEN Fraction16(sinceSr) ELSE U32 - 1

Init ==
  /\ now = 0 /\ wall = 0 /\ flight = {} /\ last_sr = -1 /\ sinceSr = 0 /\ travel = 0
  /\ stamp = [ts |-> ntp_to_rtp90k(0), at |-> 0] /\ prev = stamp

Tick ==
  /\ now < MaxNow /\ now' = now + 1 /\ wall' = wall + 1
  /\ sinceSr' = IF last_sr = -1 THEN 0 ELSE sinceSr + 1
  /\ flight' = {[m EXCEPT !.age = @ + 1] : m \in {n \in flight : n.age < MaxDelay}}
  /\ UNCHANGED <<last_sr, stamp, prev, travel>>

\* The system clock is set, once.
StepClock(d) ==
  /\ wall = now /\ wall + d >= 0 /\ wall' = wall + d
  /\ UNCHANGED <<now, flight, last_sr, sinceSr, stamp, prev, travel>>

Next ==
  \/ Tick \/ Media \/ generate_sr
  \/ \E m \in flight : on_sr_received(m)
  \/ \E d \in Steps : StepClock(d)

Spec == Init /\ [][Next]_vars

-----------------------------------------------------------------------------
(* Properties *)

\* Every variable has its type.
TypeOK ==
  /\ now \in 0..MaxNow /\ wall \in Nat /\ sinceSr \in 0..MaxNow /\ travel \in 0..MaxDelay
  /\ last_sr \in -1..(U32 - 1) /\ flight \subseteq [msw : 0..(U32 - 1), lsw : 0..(U32 - 1), age : 0..MaxDelay]
  /\ {stamp.ts, prev.ts} \subseteq 0..(U32 - 1)

\* Media packets and sender reports are stamped on one timeline, whatever is
\* done to the system clock and across the wrap: between two stamps the RTP
\* timestamp advances by the microseconds between them, to the tick.
OneTimeline ==
  LET ticks == ((as_micros(stamp.at) - as_micros(prev.at)) * Num) \div Den
  IN  (stamp.ts - prev.ts) % U32 \in {ticks % U32, (ticks + 1) % U32}

\* From the two fields of a receiver report the sender can tell, at any time
\* and whatever the order in which its reports arrived, how long the one that
\* arrived last had travelled, to two units of the fields, 2^-16 seconds each;
\* provided its clock was not set meanwhile and the delay field, which stops at
\* its largest value after 2^16 seconds, has not.
ReportsTellDelay ==
  wall = now /\ last_sr # -1 /\ Fraction16(sinceSr) < U32 =>
    LET told == (compact_ntp(system_time_to_ntp(now)) - last_sr - delay_since_last_sr) % U32
    IN  told - Fraction16(travel) \in 0..2

=============================================================================
