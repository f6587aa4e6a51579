---------------------------- MODULE BondingMerger ----------------------------
(***************************************************************************)
(* The bonding merger (protocol/bonding.rs): one window of bits indexed by   *)
(* sequence number, fed by every path.  The e-th packet of the stream has    *)
(* the number Wire(e); paths lose, delay and reorder packets.                *)
(***************************************************************************)
EXTENDS SeqArith

CONSTANTS Window,    \* WINDOW_SIZE: 1024, a power of two
          Behind,    \* how far behind the newest a packet may still arrive
          Ahead,     \* how far ahead of it, when all paths lose a stretch (bound:
                     \* less than half the space)
          MaxIndex   \* last packet of the stream (bound)

ASSUME BondingAssumption ==
  /\ Window \in 1..Half /\ M % Window = 0
  /\ Behind \in 0..Half /\ Ahead \in 1..(Half - 1) /\ MaxIndex \in Nat

VARIABLES bitmap,   \* position -> was its number emitted
          highest,  \* highest_seq, or -1
          outcome,  \* verdict on the last arrival: which counter it raised
          top       \* ghost: the packet that highest stands for, or -1

bvars == <<bitmap, highest, outcome, top>>

idx(seq) == seq % Window

clear_bitmap == [i \in 0..(Window - 1) |-> FALSE]

BInit == bitmap = clear_bitmap /\ highest = -1 /\ top = -1 /\ outcome = [verdict |-> "none", e |-> -1]

mark_seq(bits, seq) == [bits EXCEPT ![idx(seq)] = TRUE]

is_seq_marked(seq) == bitmap[idx(seq)]

\* Mutant: a window's worth of packets ahead is not a complete reset.
advance_window_partial(advance) ==
  [i \in DOMAIN bitmap |->
     bitmap[i] /\ i # idx(wrapping_add(highest, advance))]

\* The positions of the numbers that enter the window are cleared.
advance_window(advance) ==
  IF advance >= Window THEN clear_bitmap
  ELSE [i \in DOMAIN bitmap |->
          bitmap[i] /\ \A k \in 1..advance : i # idx(wrapping_add(highest, k))]

\* Too far behind.  The negation of i16::MIN wraps, and the cast to usize makes
\* it far larger than the window.
LatePacket(seq) == highest # -1 /\ -diff(highest, seq) >= Window

process(e) ==
  LET seq == Wire(e)
      d == diff(highest, seq)
      Verdict(v) == outcome' = [verdict |-> v, e |-> e]
  IN  \/ /\ highest = -1
         /\ highest' = seq /\ top' = e /\ bitmap' = mark_seq(clear_bitmap, seq)
         /\ Verdict("emit")
      \/ /\ highest # -1 /\ d > 0
         /\ highest' = seq /\ top' = e /\ bitmap' = mark_seq(advance_window(d), seq)
         /\ Verdict("emit")
      \/ /\ highest # -1 /\ d = 0
         /\ UNCHANGED <<bitmap, highest, top>> /\ Verdict("duplicate")
      \/ /\ d < 0 /\ LatePacket(seq)
         /\ UNCHANGED <<bitmap, highest, top>> /\ Verdict("late")
      \/ /\ highest # -1 /\ d < 0 /\ ~LatePacket(seq) /\ is_seq_marked(seq)
         /\ UNCHANGED <<bitmap, highest, top>> /\ Verdict("duplicate")
      \/ /\ highest # -1 /\ d < 0 /\ ~LatePacket(seq) /\ ~is_seq_marked(seq)
         /\ bitmap' = mark_seq(bitmap, seq) /\ UNCHANGED <<highest, top>>
         /\ Verdict("emit")

\* A path brings a packet.
CanArrive(e) == IF top = -1 THEN e < M ELSE e >= top - Behind /\ e <= top + Ahead

BNext == \E e \in 0..MaxIndex : CanArrive(e) /\ process(e)

BSpec == BInit /\ [][BNext]_bvars

-----------------------------------------------------------------------------
(* Properties *)

\* Every variable has its type.
BTypeOK ==
  /\ bitmap \in [0..(Window - 1) -> BOOLEAN] /\ highest \in SeqNos \cup {-1}
  /\ top \in -1..MaxIndex /\ outcome.verdict \in {"none", "emit", "duplicate", "late"}

\* The packets of the window that the bits say were emitted.
Emitted == {e \in 0..top : e > top - Window /\ bitmap[idx(Wire(e))]}

Promise == INSTANCE FirstArrival WITH emitted <- Emitted

\* The merger keeps its promise across the wraps of the number and the reuse of
\* the bits: read through the bitmap, every verdict is the promised one, and
\* every bit of the window is right after every step.
FirstArrivalWins == Promise!Spec

=============================================================================
