------------------------------ MODULE SeqArith ------------------------------
(***************************************************************************)
(* RTP sequence numbers: unsigned, of fixed width, wrapping.  The code uses *)
(* u16 with wrapping_add, wrapping_sub and a cast of the difference to i16  *)
(* (packet/seq.rs, and the same expressions inline in reorder.rs,           *)
(* nack_tracker.rs and bonding.rs).  Half is 2^15 in the code; everything   *)
(* below is stated for an arbitrary half-space size.                        *)
(***************************************************************************)
EXTENDS Integers

CONSTANT Half   \* half of the sequence space; 2^15 in the code

ASSUME HalfAssumption == Half \in Nat \ {0}

M == 2 * Half

SeqNos == 0 .. (M - 1)

\* u16::wrapping_add and u16::wrapping_sub on operands that fit in a u16.
wrapping_add(a, k) == IF a + k < M THEN a + k ELSE a + k - M

wrapping_sub(a, b) == IF a >= b THEN a - b ELSE a - b + M

\* The cast `as i16`: the upper half of the space is negative.
as_i16(u) == IF u < Half THEN u ELSE u - M

\* `other.wrapping_sub(self) as i16`: how far b is ahead of a.
diff(a, b) == as_i16(wrapping_sub(b, a))

\* The wire sequence number of the e-th packet of a stream.
Wire(e) == e % M

=============================================================================
