----------------------------- MODULE ReorderLoops -----------------------------
(***************************************************************************)
(* insert() written the way reorder.rs writes it, with its three loops taken *)
(* turn by turn, against which the closed forms Insert and OverflowFlushed   *)
(* of ReorderBuffer are compared.                                            *)
(***************************************************************************)
EXTENDS ReorderStream

Plus1If(n, hit) == n + (IF hit THEN 1 ELSE 0)

\* for slot in slots: clear it, counting a packet.
ClearTurn(was, i) ==
  [slots |-> [was.slots EXCEPT ![i] = EmptySlot(0)],
   flushed |-> Plus1If(was.flushed, was.slots[i].state = "Filled")]

ClearLoop(slots) ==
  LET after[i \in 0..Cap] ==
        IF i = 0 THEN [slots |-> slots, flushed |-> 0] ELSE ClearTurn(after[i - 1], i - 1)
  IN  after[Cap]

\* for i in 0..advance: clear the slot of base + i, counting a packet with
\* that number.
FlushTurn(was, base, i) ==
  LET s == wrapping_add(base, i)
      slot == was.slots[idx(s)]
  IN  [slots |-> [was.slots EXCEPT ![idx(s)] = EmptySlot(0)],
       flushed |-> Plus1If(was.flushed, slot.seq = s /\ slot.state = "Filled")]

FlushLoop(slots, base, n) ==
  LET after[i \in 0..n] ==
        IF i = 0 THEN [slots |-> slots, flushed |-> 0] ELSE FlushTurn(after[i - 1], base, i - 1)
  IN  after[n]

\* for i in 1..=diff: flag highest + i as a gap, except the new packet itself.
GapTurn(slots, highest, s, i, t) ==
  LET g == wrapping_add(highest, i)
      slot == slots[idx(g)]
      replace == slot.state = "Empty" \/ slot.seq # g
  IN  IF g # s /\ replace THEN [slots EXCEPT ![idx(g)] = GapSlot(g, t)] ELSE slots

GapLoop(slots, highest, s, t) ==
  LET n == diff(highest, s)
      after[i \in 0..n] ==
        IF i = 0 THEN slots ELSE GapTurn(after[i - 1], highest, s, i, t)
  IN  after[n]

\* insert() from the duplicate test on: b has room for s.
LoopStore(b, s, d, t) ==
  LET slot == b.slots[idx(s)]
      stored == [b EXCEPT !.slots[idx(s)] = FilledSlot(s, d, t)]
  IN  IF slot.seq = s /\ slot.state = "Filled" THEN b
      ELSE IF diff(b.highest, s) > 0
      THEN [stored EXCEPT !.slots = GapLoop(stored.slots, b.highest, s, t), !.highest = s]
      ELSE stored

\* insert(): the ring after it, and overflow_flushed.
LoopInsert(b, s, d, t) ==
  CASE ~b.started -> [buf |-> Anchor(b.slots, s, d, t), flushed |-> 0]
    [] IsStale(b, s) -> [buf |-> b, flushed |-> 0]
    [] Resets(b, s) ->
         LET clear == ClearLoop(b.slots)
         IN  [buf |-> Anchor(clear.slots, s, d, t), flushed |-> clear.flushed]
    [] OTHER ->
         IF Overflows(b, s)
         THEN LET n == Advance(b, s)
                  flush == FlushLoop(b.slots, b.base, n)
                  room == [b EXCEPT !.slots = flush.slots, !.base = wrapping_add(b.base, n)]
              IN  [buf |-> LoopStore(room, s, d, t), flushed |-> flush.flushed]
         ELSE [buf |-> LoopStore(b, s, d, t), flushed |-> 0]

-----------------------------------------------------------------------------
(* Properties *)

\* The closed forms of Insert and OverflowFlushed compute what the loops of
\* insert() compute for every packet that can arrive, including when the gaps
\* of one insert lap the ring and a later one replaces an earlier one.
InsertIsTheLoop ==
  \A e \in 0..MaxExt :
    LET s == Wire(e)
        loop == LoopInsert(buf, s, e, now)
    IN  CanArrive(e) =>
          Insert(buf, s, e, now) = loop.buf /\ OverflowFlushed(buf, s) = loop.flushed

=============================================================================
