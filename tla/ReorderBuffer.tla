---------------------------- MODULE ReorderBuffer ----------------------------
(***************************************************************************)
(* The reorder / jitter buffer of protocol/reorder.rs as operators on a     *)
(* buffer value b:                                                          *)
(*   b.slots    the ring, indexed by seq & mask                             *)
(*   b.started  base_seq and highest_seq are Some (they are set together)   *)
(*   b.base     next sequence number scheduled for delivery                 *)
(*   b.highest  highest sequence number inserted                            *)
(* ReorderStream and DrainThread drive these operators.                     *)
(***************************************************************************)
EXTENDS SeqArith, FiniteSets

CONSTANTS Cap,         \* ring slots: a power of two, 8192 in the code
          BufferTime   \* hold time, in clock ticks

\* The capacity is a power of two and the sequence space a larger one, so the
\* ring index of a sequence number survives the wrap; and a jump that the i16
\* comparison could misread is past two rings, so it resets the buffer.
ASSUME CapAssumption ==
  /\ Cap \in Nat \ {0}
  /\ 2 * Cap <= Half
  /\ \E k \in 1..M : M = k * Cap
  /\ BufferTime \in Nat

Ring == 0 .. (Cap - 1)

idx(s) == s % Cap

\* A slot; data and at mean something only in the states that carry them.
Slot == [seq : SeqNos, state : {"Empty", "Gap", "Filled"}, data : Nat, at : Nat]

EmptySlot(s) == [seq |-> s, state |-> "Empty", data |-> 0, at |-> 0]
GapSlot(s, now) == [seq |-> s, state |-> "Gap", data |-> 0, at |-> now]
FilledSlot(s, d, now) == [seq |-> s, state |-> "Filled", data |-> d, at |-> now]

Buffer == [slots : [Ring -> Slot], started : BOOLEAN, base : SeqNos, highest : SeqNos]

NewBuffer ==
  [slots |-> [i \in Ring |-> EmptySlot(0)], started |-> FALSE, base |-> 0, highest |-> 0]

-----------------------------------------------------------------------------
(* insert *)

\* Slots from s forward to ring index i, and from i forward to s (1 .. Cap).
Ahead(s, i)  == IF i >= idx(s) THEN i - idx(s) ELSE i - idx(s) + Cap
Behind(s, i) == IF i < idx(s) THEN idx(s) - i ELSE idx(s) - i + Cap

\* A ring holding s alone: the first packet writes its slot and anchors both
\* ends of the window there.
Anchor(slots, s, d, now) ==
  [slots |-> [slots EXCEPT ![idx(s)] = FilledSlot(s, d, now)],
   started |-> TRUE, base |-> s, highest |-> s]

\* Mutant: off by one, the packet just passed is not stale.
IsStaleOffByOne(b, s) == b.started /\ diff(b.base, s) < -1

IsStale(b, s) == b.started /\ diff(b.base, s) < 0

\* How far the base has to move for s to fit in the ring; positive = overflow.
Advance(b, s) == wrapping_sub(s, b.base) - (Cap - 1)

Overflows(b, s) == b.started /\ ~IsStale(b, s) /\ Advance(b, s) > 0

\* The jump is a ring or more, or goes past everything buffered.
Resets(b, s) ==
  /\ Overflows(b, s)
  /\ \/ Advance(b, s) >= Cap
     \/ wrapping_sub(b.highest, b.base) < Advance(b, s)

FilledIn(b) == {i \in Ring : b.slots[i].state = "Filled"}

\* Mutant: the flush goes one slot too far.
FlushOldestInclusive(b, n) ==
  [b EXCEPT !.base = wrapping_add(b.base, n),
            !.slots = [i \in Ring |-> IF Ahead(b.base, i) <= n THEN EmptySlot(0)
                                                             ELSE b.slots[i]]]

\* Drop [base, base + n) and move the base there.
FlushOldest(b, n) ==
  [b EXCEPT !.base = wrapping_add(b.base, n),
            !.slots = [i \in Ring |-> IF Ahead(b.base, i) < n THEN EmptySlot(0)
                                                            ELSE b.slots[i]]]

\* The buffered packets that FlushOldest(b, n) throws away.
FlushedBy(b, n) ==
  {i \in FilledIn(b) : /\ Ahead(b.base, i) < n
                       /\ b.slots[i].seq = wrapping_add(b.base, Ahead(b.base, i))}

\* The buffer that the tail of insert works on.
Fitted(b, s) ==
  IF Overflows(b, s) THEN FlushOldest(b, Advance(b, s)) ELSE b

IsDuplicate(b, s) ==
  LET slot == Fitted(b, s).slots[idx(s)]
  IN  /\ b.started /\ ~IsStale(b, s) /\ ~Resets(b, s)
      /\ slot.seq = s /\ slot.state = "Filled"

IsRecovery(b, s) ==
  LET slot == Fitted(b, s).slots[idx(s)]
  IN  /\ b.started /\ ~IsStale(b, s) /\ ~Resets(b, s)
      /\ slot.seq = s /\ slot.state = "Gap"

\* Mutant: the first missing number is not flagged.
ExtendToShort(b, s, now) ==
  LET n == diff(b.highest, s)
  IN  IF n > 0
      THEN [b EXCEPT !.highest = s,
                     !.slots = [i \in Ring |->
                       LET k == Behind(s, i)
                           g == wrapping_sub(s, k)
                       IN  IF k < n - 1 /\ (b.slots[i].state = "Empty" \/ b.slots[i].seq # g)
                           THEN GapSlot(g, now) ELSE b.slots[i]]]
      ELSE b

\* Mutant: a slot that holds something, of whatever number, is left alone.
ExtendToEmptyOnly(b, s, now) ==
  LET n == diff(b.highest, s)
  IN  IF n > 0
      THEN [b EXCEPT !.highest = s,
                     !.slots = [i \in Ring |->
                       LET k == Behind(s, i)
                       IN  IF k < n /\ b.slots[i].state = "Empty"
                           THEN GapSlot(wrapping_sub(s, k), now) ELSE b.slots[i]]]
      ELSE b

\* Flag highest+1 .. s-1 as gaps, in ascending order, and move highest to s.
\* g is the last of them that falls on slot i; when an earlier one falls there
\* too, it has already replaced what the slot held.
ExtendTo(b, s, now) ==
  LET n == diff(b.highest, s)
      Marked(i) ==
        LET k == Behind(s, i)
            g == wrapping_sub(s, k)
            replace == \/ b.slots[i].state = "Empty"
                       \/ b.slots[i].seq # g
                       \/ k + Cap < n
        IN  IF k < n /\ replace THEN GapSlot(g, now) ELSE b.slots[i]
  IN  IF n > 0
      THEN [b EXCEPT !.slots = [i \in Ring |-> Marked(i)], !.highest = s]
      ELSE b

\* The ring after insert(seq, data, now).
Insert(b, s, d, now) ==
  CASE ~b.started -> Anchor(b.slots, s, d, now)
    [] IsStale(b, s) -> b
    [] Resets(b, s) -> Anchor([i \in Ring |-> EmptySlot(0)], s, d, now)
    [] IsDuplicate(b, s) -> Fitted(b, s)
    [] OTHER ->
         LET f == Fitted(b, s)
         IN  ExtendTo([f EXCEPT !.slots[idx(s)] = FilledSlot(s, d, now)], s, now)

\* Mutant: every overflow is counted as if it cleared the ring.
OverflowFlushedAll(b, s) == IF Overflows(b, s) THEN Cardinality(FilledIn(b)) ELSE 0

\* InsertOutcome.overflow_flushed.
OverflowFlushed(b, s) ==
  IF Resets(b, s) THEN Cardinality(FilledIn(b))
  ELSE IF Overflows(b, s) THEN Cardinality(FlushedBy(b, Advance(b, s)))
  ELSE 0

-----------------------------------------------------------------------------
(* drain_ready, one turn of its loop at a time, and next_drain_time *)

HeadSlot(b) == b.slots[idx(b.base)]

\* saturating_duration_since(at) >= buffer_time
Expired(at, now) == (IF now >= at THEN now - at ELSE 0) >= BufferTime

PastHighest(b) == diff(b.highest, b.base) > 0

\* The loop takes another turn: the head is overwritten, or held long enough.
HeadReady(b, now) ==
  /\ b.started
  /\ ~PastHighest(b)
  /\ \/ HeadSlot(b).seq # b.base
     \/ HeadSlot(b).state # "Empty" /\ Expired(HeadSlot(b).at, now)

\* The turn yields Delivered rather than Lost.
HeadDelivers(b) == HeadSlot(b).seq = b.base /\ HeadSlot(b).state = "Filled"

\* Mutant: the slot is not emptied.
DropHeadKeepsSlot(b) == [b EXCEPT !.base = wrapping_add(b.base, 1)]

\* The ring after the turn; a delivered or timed-out slot keeps its seq.
DropHead(b) ==
  [b EXCEPT !.slots[idx(b.base)] = EmptySlot(IF HeadSlot(b).seq = b.base THEN b.base ELSE 0),
            !.base = wrapping_add(b.base, 1)]

\* next_drain_time() is Some ...
HasDeadline(b) == b.started /\ ~(HeadSlot(b).seq = b.base /\ HeadSlot(b).state = "Empty")

\* ... and then this; an overwritten head is due at once.
Deadline(b, now) ==
  IF HeadSlot(b).seq # b.base THEN now ELSE HeadSlot(b).at + BufferTime

=============================================================================
