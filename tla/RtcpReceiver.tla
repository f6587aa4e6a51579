---------------------------- MODULE RtcpReceiver ----------------------------
(***************************************************************************)
(* The counts behind receiver reports (RtcpReceiverState in                  *)
(* protocol/rtcp_state.rs), fed by the receive task with what the reorder    *)
(* buffer says of each packet.  Packet e of the stream carries Wire(e).  Of  *)
(* the buffer only the verdict counts: a packet it holds again is a          *)
(* duplicate, one it has released or given up is stale and so not one.       *)
(* The cycle count is u16 and the counts u32; both wrap, as in a release     *)
(* build.  Jitter is a module of its own.                                    *)
(***************************************************************************)
EXTENDS SeqArith, FiniteSets

CONSTANTS Cycles,     \* values of the cycle count: 65536
          MaxLoss,    \* the cumulative loss is a 24-bit number: 2^23
          Starts,     \* indices the stream may be joined at
          MaxExt,     \* last index of the stream (bound)
          MaxCopies   \* copies of packets received (bound)

RtcpReceiverAssumption ==
  {Cycles, MaxLoss} \subseteq Nat \ {0} /\ Starts \subseteq Nat /\ MaxExt \in Nat /\ MaxCopies \in Nat

Count32 == M * Cycles

VARIABLES
  first,              \* first_packet_received
  base_seq, max_seq, seq_cycles, extended_max_seq,
  packets_received, expected_prior, received_prior,
  \* Ghosts:
  efirst, ehigh,      \* indices of the first and of the highest packet
  copies,             \* packets received again, duplicates or not
  counted,            \* packets received, and copies of ones no longer held
  marks,              \* [high, counted] at the last report
  got,                \* packets received, of the last Half before ehigh
  released            \* packets before this one have left the buffer

seqVars == <<first, base_seq, max_seq, seq_cycles, extended_max_seq>>
priorVars == <<expected_prior, received_prior, marks>>
vars == <<seqVars, packets_received, priorVars, efirst, ehigh, copies, counted,
          got, released>>

Init ==
  /\ first = FALSE /\ base_seq = 0 /\ max_seq = 0 /\ seq_cycles = 0 /\ extended_max_seq = 0
  /\ packets_received = 0 /\ expected_prior = 0 /\ received_prior = 0
  /\ efirst = 0 /\ ehigh = 0 /\ copies = 0 /\ counted = 0
  /\ marks = [high |-> -1, counted |-> 0] /\ got = {} /\ released = 0

-----------------------------------------------------------------------------
(* on_packet_received *)

FirstPacket(s) ==
  /\ first' = TRUE /\ base_seq' = s /\ max_seq' = s /\ extended_max_seq' = s
  /\ UNCHANGED seq_cycles

next_cycle(c) == (c + 1) % Cycles

\* Mutant: a step back over the wrap counts as a cycle.
LaterPacketBackwards(s) ==
  LET wraps == s < max_seq
  IN  /\ seq_cycles' = IF wraps THEN next_cycle(seq_cycles) ELSE seq_cycles
      /\ IF diff(max_seq, s) > 0
         THEN max_seq' = s /\ extended_max_seq' = seq_cycles' * M + s
         ELSE UNCHANGED <<max_seq, extended_max_seq>>
      /\ UNCHANGED <<first, base_seq>>

\* A step forward moves the highest number, and past the wrap it is a cycle.
LaterPacket(s) ==
  IF diff(max_seq, s) > 0
  THEN /\ seq_cycles' = IF s < max_seq THEN next_cycle(seq_cycles) ELSE seq_cycles
       /\ max_seq' = s
       /\ extended_max_seq' = seq_cycles' * M + s
       /\ UNCHANGED <<first, base_seq>>
  ELSE UNCHANGED seqVars

\* The reorder buffer's InsertOutcome::duplicate.
IsHeld(e) == e \in got /\ e >= released

CanArrive(e) ==
  IF first THEN e > ehigh - Half /\ e < ehigh + Half ELSE e \in Starts

Arrive(e) ==
  /\ CanArrive(e)
  /\ e \in got => copies < MaxCopies
  /\ IF IsHeld(e)
     THEN UNCHANGED <<seqVars, packets_received>>
     ELSE /\ IF first THEN LaterPacket(Wire(e)) ELSE FirstPacket(Wire(e))
          /\ packets_received' = (packets_received + 1) % Count32
  /\ efirst' = IF first THEN efirst ELSE e
  /\ ehigh' = IF first /\ e < ehigh THEN ehigh ELSE e
  /\ released' = IF first THEN released ELSE e
  /\ counted' = IF e \in got /\ e >= released THEN counted ELSE counted + 1
  /\ copies' = IF e \in got THEN copies + 1 ELSE copies
  /\ got' = {g \in got \cup {e} : g > ehigh' - Half}
  /\ UNCHANGED priorVars

\* The buffer releases packets, or gives them up, up to the highest one.
Release ==
  /\ first /\ released <= ehigh
  /\ released' = released + 1
  /\ UNCHANGED <<seqVars, packets_received, priorVars, efirst, ehigh, copies,
                 counted, got>>

-----------------------------------------------------------------------------
(* generate_rr *)

minus(a, b) == IF a >= b THEN a - b ELSE a - b + Count32   \* u32 subtraction

expected == (minus(extended_max_seq, base_seq) + 1) % Count32

expected_interval == minus(expected, expected_prior)
received_interval == minus(packets_received, received_prior)

\* (lost / expected * 256) as u8: the cast saturates.
fraction_lost ==
  IF expected_interval = 0 \/ received_interval >= expected_interval THEN 0
  ELSE LET f == ((expected_interval - received_interval) * 256) \div expected_interval
       IN  IF f > 255 THEN 255 ELSE f

\* Clamped to 24 bits.
cumulative_lost ==
  LET lost == expected - packets_received
  IN  IF lost < -MaxLoss THEN -MaxLoss ELSE IF lost > MaxLoss - 1 THEN MaxLoss - 1 ELSE lost

GenerateRr ==
  /\ first
  /\ expected_prior' = expected /\ received_prior' = packets_received
  /\ marks' = [high |-> ehigh, counted |-> counted]
  /\ UNCHANGED <<seqVars, packets_received, efirst, ehigh, copies, counted, got, released>>

Next == (\E e \in 0..MaxExt : Arrive(e)) \/ Release \/ GenerateRr

Spec == Init /\ [][Next]_vars

-----------------------------------------------------------------------------
(* Properties *)

\* Every variable has its type.
TypeOK ==
  /\ first \in BOOLEAN /\ base_seq \in SeqNos /\ max_seq \in SeqNos /\ seq_cycles \in 0..(Cycles - 1)
  /\ {extended_max_seq, packets_received, expected_prior, received_prior} \subseteq 0..(Count32 - 1)

\* Packets expected since the last report, in the stream itself.
TrueInterval == ehigh - (IF marks.high < 0 THEN efirst - 1 ELSE marks.high)

CountedInterval == counted - marks.counted

\* The numbers of a receiver report are exact.  The extended highest number is
\* the highest packet's place in the stream counted from the first packet's
\* number, modulo 2^32: cycles are neither missed nor counted twice, however
\* packets are reordered around the wrap.  The fraction is that of the packets
\* expected and received since the report before (fewer than 2^32), also while
\* cycles and counters wrap; and until 2^32 packets the cumulative loss is the
\* number of packets from the first to the highest less those received, and the
\* nearest 24-bit number once that one is not.  A copy counts only if its packet
\* has left the buffer.
ReportIsExact ==
  first =>
    /\ extended_max_seq = (Wire(efirst) + ehigh - efirst) % Count32
    /\ TrueInterval < Count32 /\ CountedInterval < Count32 =>
         LET lost == TrueInterval - CountedInterval
         IN  fraction_lost =
               IF lost <= 0 THEN 0 ELSE IF lost = TrueInterval THEN 255
               ELSE (lost * 256) \div TrueInterval
    /\ ehigh - efirst + 1 < Count32 /\ counted < Count32 =>
         LET lost == ehigh - efirst + 1 - counted
         IN  cumulative_lost =
               IF lost \in -MaxLoss..(MaxLoss - 1) THEN lost
               ELSE IF lost < 0 THEN -MaxLoss ELSE MaxLoss - 1

=============================================================================
