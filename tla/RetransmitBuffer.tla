-------------------------- MODULE RetransmitBuffer --------------------------
(***************************************************************************)
(* The sender's ring of recent packets (protocol/nack_tracker.rs), as        *)
(* operators on the ring r.  A slot is None or the packet that wrote it,     *)
(* with its sequence number.                                                 *)
(***************************************************************************)
EXTENDS SeqArith

CONSTANT ConfiguredCap   \* retransmit_buffer_capacity of the configuration

ASSUME ConfiguredCapAssumption == ConfiguredCap \in Nat \ {0}

next_power_of_two(n) ==
  CHOOSE p \in {2 ^ k : k \in 0..n} :
    p >= n /\ \A q \in {2 ^ k : k \in 0..n} : q >= n => p <= q

RCap == next_power_of_two(ConfiguredCap)

\* Both are powers of two in the code, so the smaller divides the larger.
ASSUME RingAssumption ==
  RCap \in Nat \ {0} /\ \E k \in 1..(M + RCap) : M = k * RCap \/ RCap = k * M

ridx(s) == s % RCap

EmptyRetx == [seq |-> -1, data |-> -1]

NewRetx == [i \in 0..(RCap - 1) |-> EmptyRetx]

insertRetx(r, s, d) == [r EXCEPT ![ridx(s)] = [seq |-> s, data |-> d]]

\* Mutant: the stored number is not compared.
holdsAny(r, s) == r[ridx(s)] # EmptyRetx

\* get returns Some: the slot has not been overwritten by another number.
holds(r, s) == r[ridx(s)].seq = s

\* ... and then this packet.
packet(r, s) == r[ridx(s)].data

=============================================================================
