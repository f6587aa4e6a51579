------------------------- MODULE ReorderBufferProofs -------------------------
(***************************************************************************)
(* What the operations of the reorder buffer do to its window, for every     *)
(* sequence-space size and every ring capacity of at most a quarter of it.   *)
(***************************************************************************)
EXTENDS ReorderBuffer, SeqArithProofs

-----------------------------------------------------------------------------
(* Ring indices *)

\* The arithmetic of the constants.
LEMMA Constants ==
  /\ Half \in Nat \ {0} /\ M \in Nat \ {0} /\ M = 2 * Half
  /\ Cap \in Nat \ {0} /\ 2 * Cap <= Half
BY HalfAssumption, CapAssumption DEF M

\* A ring index is in the ring.
LEMMA IdxType ==
  ASSUME NEW s \in SeqNos
  PROVE  idx(s) \in Ring
<1>1. s \in Nat
  BY Constants DEF SeqNos
<1> QED
  BY <1>1, Constants, ModRange DEF idx, Ring

\* The ring index does not see the wrap of the sequence space.
LEMMA IdxOfWire ==
  ASSUME NEW x \in Nat
  PROVE  idx(Wire(x)) = x % Cap
<1>1. PICK k \in 1 .. M : M = k * Cap
  BY CapAssumption
<1>2. k \in Nat \ {0}
  BY Constants
<1>3. (x % M) % Cap = x % Cap
  BY <1>1, <1>2, Constants, ModMod, ZenonT(30), ZenonT(30)
<1> QED
  BY <1>3 DEF idx, Wire

\* The slot of a packet of the window lies as far ahead of the base's slot as
\* the packet is ahead of the base.
LEMMA AheadIsDistance ==
  ASSUME NEW B \in Nat, NEW d \in Nat, B <= d, d < B + Cap
  PROVE  Ahead(Wire(B), idx(Wire(d))) = d - B
<1>1. PICK k \in 0 .. (Cap - 1) : d = B + k /\ k = d - B
  BY Constants
<1>2. PICK r \in 0 .. (Cap - 1) : r = B % Cap
  BY Constants, ModRange
<1>3. (B + k) % Cap = IF (B % Cap) + k < Cap THEN (B % Cap) + k ELSE (B % Cap) + k - Cap
  <2>1. k \in 0 .. Cap
    BY Constants
  <2> QED
    BY <2>1, Constants, ModAdd, Zenon
<1>4. idx(Wire(B)) = r /\ idx(Wire(d)) = IF r + k < Cap THEN r + k ELSE r + k - Cap
  BY <1>1, <1>2, <1>3, IdxOfWire
<1>5. Ahead(Wire(B), idx(Wire(d))) = k
  BY <1>4, Constants DEF Ahead
<1> QED
  BY <1>1, <1>5

\* Two packets less than half the space ahead of the same base with the same
\* number are the same packet.
LEMMA WireInjective ==
  ASSUME NEW B \in Nat, NEW d \in Nat, NEW e \in Nat,
         B <= d, d < B + Half, B <= e, e < B + Half, Wire(d) = Wire(e)
  PROVE  d = e
<1>1. diff(Wire(B), Wire(d)) = d - B
  BY Constants, DiffIsDistance
<1>2. diff(Wire(B), Wire(e)) = e - B
  BY Constants, DiffIsDistance
<1> QED
  BY <1>1, <1>2

-----------------------------------------------------------------------------
(* insert *)

\* Every payload of the ring lies in [B, H], in the slot of its own number.
FilledOK(slots, B, H) ==
  \A i \in Ring : slots[i].state = "Filled" =>
    /\ B <= slots[i].data /\ slots[i].data <= H
    /\ slots[i].seq = Wire(slots[i].data)
    /\ i = idx(Wire(slots[i].data))

\* The buffer's window is [B, H].
Window(b, B, H) ==
  /\ b.started
  /\ b.base = Wire(B) /\ b.highest = Wire(H)
  /\ B <= H + 1 /\ H < B + Cap
  /\ FilledOK(b.slots, B, H)

\* The three kinds of slot are slots.
LEMMA SlotTypes ==
  ASSUME NEW s \in SeqNos, NEW d \in Nat, NEW t \in Nat
  PROVE  EmptySlot(s) \in Slot /\ GapSlot(s, t) \in Slot /\ FilledSlot(s, d, t) \in Slot
BY DEF EmptySlot, GapSlot, FilledSlot, Slot

\* The new buffer is one, and holds nothing.
LEMMA NewBufferType ==
  NewBuffer \in Buffer /\ \A i \in Ring : NewBuffer.slots[i].state # "Filled"
<1>1. 0 \in SeqNos
  BY Constants DEF SeqNos
<1>2. EmptySlot(0) \in Slot /\ EmptySlot(0).state = "Empty"
  BY <1>1, SlotTypes DEF EmptySlot
<1> QED
  BY <1>1, <1>2 DEF NewBuffer, Buffer

\* Anchoring a ring without payloads makes the window [e, e].
LEMMA AnchorWindow ==
  ASSUME NEW slots \in [Ring -> Slot], \A i \in Ring : slots[i].state # "Filled",
         NEW e \in Nat, NEW t \in Nat
  PROVE  /\ Anchor(slots, Wire(e), e, t) \in Buffer
         /\ Window(Anchor(slots, Wire(e), e, t), e, e)
<1> DEFINE f == FilledSlot(Wire(e), e, t)
           a == Anchor(slots, Wire(e), e, t)
<1>1. Wire(e) \in SeqNos /\ idx(Wire(e)) \in Ring
  BY WireType, IdxType
<1>2. f \in Slot /\ f.data = e /\ f.seq = Wire(e)
  BY <1>1, SlotTypes DEF FilledSlot
<1>3. a = [slots |-> [slots EXCEPT ![idx(Wire(e))] = f],
           started |-> TRUE, base |-> Wire(e), highest |-> Wire(e)]
  BY DEF Anchor
<1> HIDE DEF f, a
<1>4. a \in Buffer
  BY <1>1, <1>2, <1>3 DEF Buffer
<1>5. FilledOK(a.slots, e, e)
  BY <1>1, <1>2, <1>3 DEF FilledOK
<1> QED
  BY <1>3, <1>4, <1>5, Constants DEF Window, a

\* The flush of the oldest n keeps the payloads of [B + n, H] and no others.
LEMMA FlushWindow ==
  ASSUME NEW b \in Buffer, NEW B \in Nat, NEW H \in Nat, Window(b, B, H),
         NEW n \in 0 .. Cap
  PROVE  /\ FlushOldest(b, n) \in Buffer
         /\ FlushOldest(b, n).started
         /\ FlushOldest(b, n).base = Wire(B + n)
         /\ FlushOldest(b, n).highest = b.highest
         /\ FilledOK(FlushOldest(b, n).slots, B + n, H)
<1> DEFINE f == FlushOldest(b, n)
           kept == [i \in Ring |-> IF Ahead(b.base, i) < n THEN EmptySlot(0) ELSE b.slots[i]]
<1>1. wrapping_add(b.base, n) = Wire(B + n)
  BY Constants, WireAdd DEF Window
<1>2. Wire(B + n) \in SeqNos /\ 0 \in SeqNos
  BY Constants, WireType DEF SeqNos
<1>3. EmptySlot(0) \in Slot /\ EmptySlot(0).state = "Empty"
  BY <1>2, SlotTypes DEF EmptySlot
<1>4. f = [b EXCEPT !.base = Wire(B + n), !.slots = kept]
  BY <1>1 DEF FlushOldest
<1>5. kept \in [Ring -> Slot]
  BY <1>3 DEF Buffer
<1>6. FilledOK(kept, B + n, H)
  <2> SUFFICES ASSUME NEW i \in Ring, kept[i].state = "Filled"
               PROVE  /\ B + n <= kept[i].data /\ kept[i].data <= H
                      /\ kept[i].seq = Wire(kept[i].data)
                      /\ i = idx(Wire(kept[i].data))
    BY DEF FilledOK
  <2>1. kept[i] = b.slots[i] /\ ~(Ahead(b.base, i) < n)
    BY <1>3
  <2> DEFINE d == b.slots[i].data
  <2>2. d \in Nat
    BY DEF Buffer, Slot
  <2>3. B <= d /\ d <= H /\ b.slots[i].seq = Wire(d) /\ i = idx(Wire(d))
    BY <2>1 DEF Window, FilledOK
  <2>4. Ahead(b.base, i) = d - B
    BY <2>2, <2>3, Constants, AheadIsDistance DEF Window
  <2> QED
    BY <2>1, <2>2, <2>3, <2>4
<1> HIDE DEF f, kept
<1>7. f \in Buffer /\ f.base = Wire(B + n) /\ f.slots = kept
      /\ f.highest = b.highest /\ f.started = b.started
  BY <1>2, <1>4, <1>5, Zenon DEF Buffer
<1> QED
  BY <1>6, <1>7 DEF f, Window

\* Flagging gaps removes payloads and adds none.
LEMMA ExtendKeepsFilled ==
  ASSUME NEW b \in Buffer, NEW s \in SeqNos, NEW t \in Nat,
         NEW B \in Nat, NEW H \in Nat, FilledOK(b.slots, B, H)
  PROVE  /\ ExtendTo(b, s, t) \in Buffer
         /\ ExtendTo(b, s, t).started = b.started
         /\ ExtendTo(b, s, t).base = b.base
         /\ ExtendTo(b, s, t).highest = IF diff(b.highest, s) > 0 THEN s ELSE b.highest
         /\ FilledOK(ExtendTo(b, s, t).slots, B, H)
<1> DEFINE n == diff(b.highest, s)
           Marked(i) ==
             LET k == Behind(s, i)
                 g == wrapping_sub(s, k)
                 replace == \/ b.slots[i].state = "Empty"
                            \/ b.slots[i].seq # g
                            \/ k + Cap < n
             IN  IF k < n /\ replace THEN GapSlot(g, t) ELSE b.slots[i]
           x == [b EXCEPT !.slots = [i \in Ring |-> Marked(i)], !.highest = s]
<1>1. ExtendTo(b, s, t) = IF n > 0 THEN x ELSE b
  BY DEF ExtendTo
<1>2. ASSUME NEW i \in Ring
      PROVE  Marked(i) \in Slot /\ (Marked(i).state = "Filled" => Marked(i) = b.slots[i])
  <2>1. idx(s) \in 0 .. (Cap - 1) /\ i \in 0 .. (Cap - 1) /\ s \in 0 .. (M - 1)
    BY IdxType DEF Ring, SeqNos
  <2>2. Behind(s, i) \in 1 .. Cap
    BY <2>1, Constants DEF Behind
  <2>3. wrapping_sub(s, Behind(s, i)) \in SeqNos
    BY <2>1, <2>2, Constants DEF wrapping_sub, SeqNos
  <2>4. /\ GapSlot(wrapping_sub(s, Behind(s, i)), t) \in Slot
        /\ GapSlot(wrapping_sub(s, Behind(s, i)), t).state = "Gap"
    BY <2>3, Constants, SlotTypes DEF GapSlot
  <2>5. b.slots[i] \in Slot
    BY DEF Buffer
  <2>6. Marked(i) = GapSlot(wrapping_sub(s, Behind(s, i)), t) \/ Marked(i) = b.slots[i]
    OBVIOUS
  <2> HIDE DEF Marked
  <2> QED
    BY <2>4, <2>5, <2>6
<1> HIDE DEF Marked
<1>3. [i \in Ring |-> Marked(i)] \in [Ring -> Slot]
  BY <1>2
<1>4. x \in Buffer /\ x.started = b.started /\ x.base = b.base /\ x.highest = s
      /\ x.slots = [i \in Ring |-> Marked(i)]
  BY <1>3, Zenon DEF Buffer
<1>5. FilledOK(x.slots, B, H)
  BY <1>2, <1>4 DEF FilledOK
<1> HIDE DEF x
<1> QED
  BY <1>1, <1>4, <1>5

\* Storing packet e puts one payload in the window.
LEMMA StoreFilled ==
  ASSUME NEW b \in Buffer, NEW B \in Nat, NEW H \in Nat, FilledOK(b.slots, B, H),
         NEW e \in Nat, B <= e, NEW t \in Nat
  PROVE  LET x == [b EXCEPT !.slots[idx(Wire(e))] = FilledSlot(Wire(e), e, t)]
         IN  /\ x \in Buffer
             /\ x.started = b.started /\ x.base = b.base /\ x.highest = b.highest
             /\ FilledOK(x.slots, B, IF e > H THEN e ELSE H)
<1> DEFINE f == FilledSlot(Wire(e), e, t)
           x == [b EXCEPT !.slots[idx(Wire(e))] = f]
<1>1. Wire(e) \in SeqNos /\ idx(Wire(e)) \in Ring
  BY WireType, IdxType
<1>2. f \in Slot /\ f.data = e /\ f.seq = Wire(e)
  BY <1>1, SlotTypes DEF FilledSlot
<1> HIDE DEF f
<1>3. x \in Buffer /\ x.started = b.started /\ x.base = b.base /\ x.highest = b.highest
      /\ x.slots = [b.slots EXCEPT ![idx(Wire(e))] = f]
  BY <1>1, <1>2 DEF Buffer
<1> HIDE DEF x
<1>4. FilledOK(x.slots, B, IF e > H THEN e ELSE H)
  <2> SUFFICES ASSUME NEW i \in Ring, x.slots[i].state = "Filled"
               PROVE  /\ B <= x.slots[i].data
                      /\ x.slots[i].data <= (IF e > H THEN e ELSE H)
                      /\ x.slots[i].seq = Wire(x.slots[i].data)
                      /\ i = idx(Wire(x.slots[i].data))
    BY DEF FilledOK
  <2>1. b.slots \in [Ring -> Slot] /\ b.slots[i].data \in Nat
    BY DEF Buffer, Slot
  <2>2. CASE i = idx(Wire(e))
    BY <1>1, <1>2, <1>3, <2>1, <2>2
  <2>3. CASE i # idx(Wire(e))
    BY <1>3, <2>1, <2>3 DEF FilledOK
  <2> QED
    BY <2>2, <2>3
<1> QED
  BY <1>3, <1>4 DEF x, f

\* The index that the base of b stands for after the insert of packet e.
NewBase(b, B, e) ==
  IF Resets(b, Wire(e)) THEN e
  ELSE IF Overflows(b, Wire(e)) THEN B + Advance(b, Wire(e)) ELSE B

\* insert keeps the window sound and never moves the base back.
LEMMA InsertWindow ==
  ASSUME NEW b \in Buffer, NEW B \in Nat, NEW H \in Nat, Window(b, B, H),
         NEW e \in Nat, B - Half <= e, e < B + Half, NEW t \in Nat
  PROVE  /\ Insert(b, Wire(e), e, t) \in Buffer
         /\ NewBase(b, B, e) \in Nat /\ B <= NewBase(b, B, e)
         /\ Window(Insert(b, Wire(e), e, t), NewBase(b, B, e), IF e > H THEN e ELSE H)
<1> DEFINE s == Wire(e)
           top == IF e > H THEN e ELSE H
<1>1. diff(b.base, s) = e - B
  BY DiffIsDistance DEF Window
<1>2. IsStale(b, s) <=> e < B
  BY <1>1, Constants DEF IsStale, Window
<1>3. CASE e < B
  <2>1. ~Overflows(b, s) /\ ~Resets(b, s) /\ ~IsDuplicate(b, s)
    BY <1>2, <1>3 DEF Overflows, Resets, IsDuplicate
  <2>2. Insert(b, s, e, t) = b
    BY <1>2, <1>3, <2>1 DEF Insert, Window
  <2>3. NewBase(b, B, e) = B
    BY <2>1 DEF NewBase
  <2>4. top = H
    BY <1>3 DEF Window
  <2> QED
    BY <2>2, <2>3, <2>4
<1>4. CASE B <= e
  <2>1. Advance(b, s) = e - B - (Cap - 1)
    <3>1. wrapping_sub(s, b.base) = e - B
      BY <1>4, Constants, WireSubAhead DEF Window
    <3> QED
      BY <3>1 DEF Advance
  <2>2. Overflows(b, s) <=> e >= B + Cap
    BY <1>2, <1>4, <2>1, Constants DEF Overflows, Window
  <2>3. CASE Resets(b, s)
    <3> DEFINE clear == [i \in Ring |-> EmptySlot(0)]
    <3>1. Insert(b, s, e, t) = Anchor(clear, s, e, t)
      <4>1. ~IsStale(b, s) /\ ~IsDuplicate(b, s)
        BY <1>2, <1>4, <2>3 DEF IsDuplicate
      <4> QED
        BY <2>3, <4>1 DEF Insert, Window
    <3>2. NewBase(b, B, e) = e
      BY <2>3 DEF NewBase
    <3>3. top = e
      BY <2>2, <2>3, Constants DEF Resets, Window
    <3>4. clear \in [Ring -> Slot] /\ \A i \in Ring : clear[i].state # "Filled"
      <4>1. 0 \in SeqNos
        BY Constants DEF SeqNos
      <4> QED
        BY <4>1, SlotTypes DEF EmptySlot
    <3> HIDE DEF clear
    <3>5. Anchor(clear, s, e, t) \in Buffer /\ Window(Anchor(clear, s, e, t), e, e)
      BY <3>4, AnchorWindow
    <3> QED
      BY <1>4, <3>1, <3>2, <3>3, <3>5
  <2>4. CASE ~Resets(b, s)
    <3> DEFINE f == Fitted(b, s)
               nb == NewBase(b, B, e)
    <3>1. Overflows(b, s) => Advance(b, s) \in 1 .. (Cap - 1)
      BY <2>1, <2>2, <2>4, Constants DEF Resets
    <3>2. nb = IF Overflows(b, s) THEN B + (e - B - (Cap - 1)) ELSE B
      BY <2>1, <2>4 DEF NewBase
    <3>3. nb \in Nat /\ B <= nb /\ nb <= e /\ e < nb + Cap
      BY <1>4, <2>1, <2>2, <3>1, <3>2, Constants
    <3>4. e < B + 2 * Cap - 1 /\ e - H < Half /\ H - e <= Half
      BY <1>4, <2>1, <2>2, <3>1, Constants DEF Window
    <3>5. /\ f \in Buffer /\ f.started /\ f.base = Wire(nb) /\ f.highest = Wire(H)
          /\ FilledOK(f.slots, nb, H)
      <4>1. CASE Overflows(b, s)
        <5>1. f = FlushOldest(b, Advance(b, s)) /\ nb = B + Advance(b, s)
          BY <2>1, <3>2, <4>1 DEF Fitted
        <5>2. Advance(b, s) \in 0 .. Cap
          BY <3>1, <4>1, Constants
        <5> QED
          BY <5>1, <5>2, FlushWindow DEF Window
      <4>2. CASE ~Overflows(b, s)
        BY <3>2, <4>2 DEF Fitted, Window
      <4> QED
        BY <4>1, <4>2
    <3>6. nb <= top + 1 /\ top < nb + Cap /\ top \in Nat
      BY <2>2, <3>2, <3>3, Constants DEF Window
    <3> HIDE DEF f, nb
    <3>7. CASE IsDuplicate(b, s)
      <4>1. f.slots[idx(s)].state = "Filled" /\ f.slots[idx(s)].seq = s
        BY <3>7 DEF IsDuplicate, f
      <4>2. idx(s) \in Ring
        BY WireType, IdxType
      <4>3. PICK d \in Nat : d = f.slots[idx(s)].data
        BY <3>5, <4>2 DEF Buffer, Slot
      <4>4. nb <= d /\ d <= H /\ Wire(d) = s
        BY <3>5, <4>1, <4>2, <4>3 DEF FilledOK
      <4>5. d = e
        <5>1. B <= d /\ d < B + Half
          BY <3>3, <4>4, Constants DEF Window
        <5> QED
          BY <1>4, <4>4, <5>1, WireInjective
      <4>6. top = H
        BY <4>4, <4>5
      <4>7. Insert(b, s, e, t) = f
        BY <1>2, <1>4, <2>4, <3>7 DEF Insert, Window, f
      <4> QED
        BY <3>3, <3>5, <3>6, <4>6, <4>7 DEF Window, nb
    <3>8. CASE ~IsDuplicate(b, s)
      <4> DEFINE g == [f EXCEPT !.slots[idx(s)] = FilledSlot(s, e, t)]
                 x == ExtendTo(g, s, t)
      <4>1. Insert(b, s, e, t) = x
        BY <1>2, <1>4, <2>4, <3>8 DEF Insert, Window, f
      <4>2. /\ g \in Buffer /\ g.started /\ g.base = Wire(nb) /\ g.highest = Wire(H)
            /\ FilledOK(g.slots, nb, top)
        BY <3>3, <3>5, StoreFilled
      <4> HIDE DEF g
      <4>3. s \in SeqNos
        BY WireType
      <4>4. /\ x \in Buffer /\ x.started /\ x.base = Wire(nb)
            /\ x.highest = (IF diff(Wire(H), s) > 0 THEN s ELSE Wire(H))
            /\ FilledOK(x.slots, nb, top)
        BY <3>3, <3>6, <4>2, <4>3, ExtendKeepsFilled
      <4> HIDE DEF x
      <4>5. diff(Wire(H), s) = e - H
        BY <3>4, Constants, DiffIsDistance
      <4>6. x.highest = Wire(top)
        BY <4>4, <4>5
      <4> QED
        BY <3>3, <3>6, <4>1, <4>4, <4>6 DEF Window, nb
    <3> QED
      BY <3>7, <3>8
  <2> QED
    BY <2>3, <2>4
<1> QED
  BY <1>3, <1>4

-----------------------------------------------------------------------------
(* drain_ready *)

\* A turn of the drain loop moves the base up by one and takes its payload out.
LEMMA DropHeadWindow ==
  ASSUME NEW b \in Buffer, NEW B \in Nat, NEW H \in Nat, Window(b, B, H), B <= H
  PROVE  DropHead(b) \in Buffer /\ Window(DropHead(b), B + 1, H)
<1> DEFINE z == EmptySlot(IF HeadSlot(b).seq = b.base THEN b.base ELSE 0)
           x == DropHead(b)
<1>1. b.base \in SeqNos /\ idx(b.base) \in Ring /\ 0 \in SeqNos
  BY IdxType, Constants DEF Buffer, SeqNos
<1>2. z \in Slot /\ z.state = "Empty"
  BY <1>1, SlotTypes DEF EmptySlot
<1>3. wrapping_add(b.base, 1) = Wire(B + 1)
  <2>1. 1 \in 0 .. (M - 1)
    BY Constants
  <2> QED
    BY <2>1, WireAdd DEF Window
<1>4. Wire(B + 1) \in SeqNos
  BY WireType
<1>5. x = [b EXCEPT !.slots[idx(b.base)] = z, !.base = Wire(B + 1)]
  BY <1>3, Zenon DEF DropHead
<1> HIDE DEF z, x
<1>6. /\ x \in Buffer /\ x.started = b.started /\ x.highest = b.highest
      /\ x.base = Wire(B + 1) /\ x.slots = [b.slots EXCEPT ![idx(b.base)] = z]
  BY <1>1, <1>2, <1>4, <1>5, Zenon DEF Buffer
<1>7. FilledOK(x.slots, B + 1, H)
  <2> SUFFICES ASSUME NEW i \in Ring, x.slots[i].state = "Filled"
               PROVE  /\ B + 1 <= x.slots[i].data /\ x.slots[i].data <= H
                      /\ x.slots[i].seq = Wire(x.slots[i].data)
                      /\ i = idx(Wire(x.slots[i].data))
    BY DEF FilledOK
  <2>1. b.slots \in [Ring -> Slot] /\ b.slots[i].data \in Nat
    BY DEF Buffer, Slot
  <2>2. i # idx(b.base) /\ x.slots[i] = b.slots[i]
    BY <1>1, <1>2, <1>6, <2>1
  <2>3. /\ B <= b.slots[i].data /\ b.slots[i].data <= H
        /\ b.slots[i].seq = Wire(b.slots[i].data)
        /\ i = idx(Wire(b.slots[i].data))
    BY <2>2 DEF Window, FilledOK
  <2>4. b.slots[i].data # B
    BY <2>2, <2>3 DEF Window
  <2> QED
    BY <2>1, <2>2, <2>3, <2>4
<1>8. Window(x, B + 1, H)
  BY <1>6, <1>7, Constants DEF Window
<1> QED
  BY <1>6, <1>8 DEF x

\* The drain loop takes a turn only inside the window.
LEMMA ReadyInWindow ==
  ASSUME NEW b \in Buffer, NEW B \in Nat, NEW H \in Nat, Window(b, B, H),
         NEW t \in Nat, HeadReady(b, t)
  PROVE  B <= H
<1>1. diff(b.highest, b.base) = B - H
  <2>1. H - Half <= B /\ B < H + Half
    BY Constants DEF Window
  <2> QED
    BY <2>1, DiffIsDistance DEF Window
<1> QED
  BY <1>1 DEF HeadReady, PastHighest, Window

\* A payload delivered is the packet that the base stands for.
LEMMA DeliversBase ==
  ASSUME NEW b \in Buffer, NEW B \in Nat, NEW H \in Nat, Window(b, B, H),
         HeadDelivers(b)
  PROVE  HeadSlot(b).data = B
<1>1. idx(b.base) \in Ring
  BY IdxType DEF Buffer
<1>2. PICK d \in Nat : d = HeadSlot(b).data
  BY <1>1 DEF Buffer, Slot, HeadSlot
<1>3. B <= d /\ d <= H /\ Wire(d) = Wire(B)
  BY <1>1, <1>2 DEF Window, FilledOK, HeadDelivers, HeadSlot
<1>4. d = B
  <2>1. d < B + Half /\ B < B + Half
    BY <1>3, Constants DEF Window
  <2> QED
    BY <1>3, <2>1, WireInjective
<1> QED
  BY <1>2, <1>4

-----------------------------------------------------------------------------
(* The promise: slots of the window *)

\* No two packets of one ring's worth share a slot.
LEMMA SlotInjective ==
  ASSUME NEW B \in Nat, NEW d \in Nat, NEW x \in Nat,
         B <= d, d < B + Cap, B <= x, x < B + Cap, idx(Wire(d)) = idx(Wire(x))
  PROVE  d = x
<1>1. Ahead(Wire(B), idx(Wire(d))) = d - B /\ Ahead(Wire(B), idx(Wire(x))) = x - B
  BY AheadIsDistance
<1> QED
  BY <1>1

\* The slot of a packet lies as far behind that of a later one as the packet.
LEMMA BehindIsDistance ==
  ASSUME NEW e \in Nat, NEW x \in Nat, x < e, e <= x + Cap
  PROVE  Behind(Wire(e), idx(Wire(x))) = e - x
<1>1. PICK k \in 1 .. Cap : e = x + k /\ k = e - x
  BY Constants
<1>2. PICK r \in 0 .. (Cap - 1) : r = x % Cap
  BY Constants, ModRange
<1>3. (x + k) % Cap = IF (x % Cap) + k < Cap THEN (x % Cap) + k ELSE (x % Cap) + k - Cap
  <2>1. k \in 0 .. Cap
    BY Constants
  <2> QED
    BY <2>1, Constants, ModAdd, Zenon
<1>4. idx(Wire(x)) = r /\ idx(Wire(e)) = IF r + k < Cap THEN r + k ELSE r + k - Cap
  BY <1>1, <1>2, <1>3, IdxOfWire
<1>5. Behind(Wire(e), idx(Wire(x))) = k
  BY <1>4, Constants DEF Behind
<1> QED
  BY <1>1, <1>5

\* Stepping back from a number gives the earlier packet's.
LEMMA WireBack ==
  ASSUME NEW x \in Nat, NEW k \in 0 .. (M - 1)
  PROVE  wrapping_sub(Wire(x + k), k) = Wire(x)
<1>1. PICK a \in 0 .. (M - 1) : a = Wire(x)
  BY WireType DEF SeqNos
<1>2. Wire(x + k) = wrapping_add(a, k)
  BY <1>1, WireAdd
<1>3. wrapping_sub(wrapping_add(a, k), k) = a
  BY Constants DEF wrapping_add, wrapping_sub
<1> QED
  BY <1>1, <1>2, <1>3

\* Flagging the gaps below packet e, at most a ring's worth of them, touches
\* the slots of the packets past H that are not held, and no other.
LEMMA ExtendSlots ==
  ASSUME NEW b \in Buffer, NEW H \in Nat, NEW e \in Nat, NEW t \in Nat,
         b.highest = Wire(H), H < e, e <= H + Cap
  PROVE  LET z == ExtendTo(b, Wire(e), t)
         IN  /\ z.slots[idx(Wire(e))] = b.slots[idx(Wire(e))]
             /\ \A x \in Nat : x < e /\ e <= x + Cap =>
                  z.slots[idx(Wire(x))] =
                    IF x > H /\ (\/ b.slots[idx(Wire(x))].state = "Empty"
                                 \/ b.slots[idx(Wire(x))].seq # Wire(x))
                    THEN GapSlot(Wire(x), t) ELSE b.slots[idx(Wire(x))]
<1> DEFINE s == Wire(e)
           n == diff(b.highest, s)
           Marked(i) ==
             LET k == Behind(s, i)
                 g == wrapping_sub(s, k)
                 replace == \/ b.slots[i].state = "Empty"
                            \/ b.slots[i].seq # g
                            \/ k + Cap < n
             IN  IF k < n /\ replace THEN GapSlot(g, t) ELSE b.slots[i]
           z == ExtendTo(b, s, t)
<1>1. n = e - H
  BY Constants, DiffIsDistance
<1>2. n > 0
  BY <1>1
<1>3. z = [b EXCEPT !.slots = [i \in Ring |-> Marked(i)], !.highest = s]
  BY <1>2 DEF ExtendTo
<1>4. \A i \in Ring : z.slots[i] = Marked(i)
  BY <1>3 DEF Buffer
<1>5. z.slots[idx(s)] = b.slots[idx(s)]
  <2>1. idx(s) \in Ring /\ idx(s) \in Nat
    BY WireType, IdxType DEF Ring
  <2>2. Behind(s, idx(s)) = Cap
    BY <2>1, Constants DEF Behind
  <2>3. ~(Cap < n)
    BY <1>1, Constants
  <2> HIDE DEF s, n, z
  <2>4. Marked(idx(s)) = b.slots[idx(s)]
    BY <2>2, <2>3
  <2> QED
    BY <1>4, <2>1, <2>4
<1>6. ASSUME NEW x \in Nat, x < e, e <= x + Cap
      PROVE  z.slots[idx(Wire(x))] =
               IF x > H /\ (\/ b.slots[idx(Wire(x))].state = "Empty"
                            \/ b.slots[idx(Wire(x))].seq # Wire(x))
               THEN GapSlot(Wire(x), t) ELSE b.slots[idx(Wire(x))]
  <2>1. PICK i \in Ring : i = idx(Wire(x))
    BY WireType, IdxType
  <2>2. PICK k \in 1 .. Cap : k = e - x /\ e = x + k
    BY <1>6, Constants
  <2>3. Behind(s, i) = k
    BY <1>6, <2>1, <2>2, BehindIsDistance
  <2>4. wrapping_sub(s, k) = Wire(x)
    <3>1. k \in 0 .. (M - 1)
      BY Constants
    <3> QED
      BY <2>2, <3>1, WireBack
  <2>5. (k < n <=> x > H) /\ ~(k + Cap < n)
    BY <1>1, <1>6, <2>2, Constants
  <2> HIDE DEF s, n, z
  <2>6. Marked(i) = IF x > H /\ (b.slots[i].state = "Empty" \/ b.slots[i].seq # Wire(x))
                    THEN GapSlot(Wire(x), t) ELSE b.slots[i]
    BY <2>3, <2>4, <2>5
  <2> HIDE DEF Marked
  <2> QED
    BY <1>4, <2>1, <2>6
<1> QED
  BY <1>5, <1>6

\* A packet less than a ring past everything taken in, or into a buffer that
\* still holds something.
Near(B, H, e) == ~(B = H + 1 /\ e > H + Cap)

\* An insert that does not reset leaves the base where the packet fits, and is
\* at most a ring past the highest.
LEMMA InsertFits ==
  ASSUME NEW b \in Buffer, NEW B \in Nat, NEW H \in Nat, Window(b, B, H),
         NEW e \in Nat, B <= e, e < B + Half, Near(B, H, e), ~Resets(b, Wire(e)),
         NEW nb, nb = NewBase(b, B, e)
  PROVE  /\ ~IsStale(b, Wire(e))
         /\ nb \in Nat /\ B <= nb /\ nb <= e /\ e < nb + Cap /\ e <= H + Cap /\ nb <= H + 1
         /\ Fitted(b, Wire(e)) \in Buffer /\ Fitted(b, Wire(e)).highest = Wire(H)
         /\ FilledOK(Fitted(b, Wire(e)).slots, nb, H)
         /\ \A y \in nb .. H : Fitted(b, Wire(e)).slots[idx(Wire(y))] = b.slots[idx(Wire(y))]
         /\ e <= H => Fitted(b, Wire(e)) = b /\ nb = B
<1> DEFINE s == Wire(e)
           f == Fitted(b, s)
<1>1. diff(b.base, s) = e - B
  BY Constants, DiffIsDistance DEF Window
<1>2. ~IsStale(b, s)
  BY <1>1 DEF IsStale
<1>3. Advance(b, s) = e - B - (Cap - 1)
  <2>1. wrapping_sub(s, b.base) = e - B
    BY Constants, WireSubAhead DEF Window
  <2> QED
    BY <2>1 DEF Advance
<1>4. Overflows(b, s) <=> e >= B + Cap
  BY <1>2, <1>3, Constants DEF Overflows, Window
<1>5. CASE ~Overflows(b, s)
  <2>1. f = b /\ nb = B
    BY <1>5 DEF Fitted, NewBase
  <2>2. e < B + Cap
    BY <1>4, <1>5, Constants
  <2> QED
    BY <1>2, <2>1, <2>2, Constants DEF Window
<1>6. CASE Overflows(b, s)
  <2>1. B <= H
    BY <1>4, <1>6, Constants DEF Near, Window
  <2>2. PICK n \in 1 .. (Cap - 1) : n = Advance(b, s)
    BY <1>3, <1>4, <1>6, Constants DEF Resets
  <2>3. wrapping_sub(b.highest, b.base) = H - B
    BY <2>1, Constants, WireSubAhead DEF Window
  <2>4. n <= H - B
    BY <1>6, <2>2, <2>3, Constants DEF Resets
  <2>5. nb = B + n /\ f = FlushOldest(b, n)
    BY <1>6, <2>2 DEF NewBase, Fitted
  <2>6. nb \in Nat /\ B <= nb /\ nb <= e /\ e < nb + Cap /\ e <= H + Cap /\ nb <= H + 1 /\ e > H
    BY <1>3, <2>2, <2>4, <2>5, Constants DEF Window
  <2>7. f \in Buffer /\ f.highest = Wire(H) /\ FilledOK(f.slots, nb, H)
    <3>1. n \in 0 .. Cap
      BY Constants
    <3> QED
      BY <2>5, <3>1, FlushWindow DEF Window
  <2>8. ASSUME NEW y \in nb .. H
        PROVE  f.slots[idx(Wire(y))] = b.slots[idx(Wire(y))]
    <3>1. y \in Nat /\ B <= y /\ y < B + Cap
      BY <2>6, Constants DEF Window
    <3>2. Ahead(b.base, idx(Wire(y))) = y - B
      BY <3>1, AheadIsDistance DEF Window
    <3>3. ~(y - B < n) /\ idx(Wire(y)) \in Ring
      BY <2>5, <2>6, <3>1, WireType, IdxType
    <3>4. f.slots = [i \in Ring |-> IF Ahead(b.base, i) < n THEN EmptySlot(0) ELSE b.slots[i]]
      BY <2>5, Zenon DEF FlushOldest, Buffer
    <3> QED
      BY <3>2, <3>3, <3>4
  <2> QED
    BY <1>2, <2>6, <2>7, <2>8, Constants
<1> QED
  BY <1>5, <1>6

\* An insert that neither resets nor finds a duplicate stores the packet, flags
\* what it passed over, and leaves the rest of the new window as it was.
LEMMA InsertSlots ==
  ASSUME NEW b \in Buffer, NEW B \in Nat, NEW H \in Nat, Window(b, B, H),
         NEW e \in Nat, B <= e, e < B + Half, Near(B, H, e), NEW t \in Nat,
         ~Resets(b, Wire(e)), ~IsDuplicate(b, Wire(e)), NEW nb, nb = NewBase(b, B, e)
  PROVE  LET x == Insert(b, Wire(e), e, t)
         IN  /\ x.slots[idx(Wire(e))] = FilledSlot(Wire(e), e, t)
             /\ \A y \in nb .. H : y # e => x.slots[idx(Wire(y))] = b.slots[idx(Wire(y))]
             /\ \A y \in (H + 1) .. (e - 1) :
                  /\ x.slots[idx(Wire(y))].seq = Wire(y)
                  /\ x.slots[idx(Wire(y))].state # "Empty"
                  /\ x.slots[idx(Wire(y))].state # "Filled"
<1> DEFINE s == Wire(e)
           f == Fitted(b, s)
           g == [f EXCEPT !.slots[idx(s)] = FilledSlot(s, e, t)]
           x == Insert(b, s, e, t)
<1>1. /\ ~IsStale(b, s)
      /\ nb \in Nat /\ B <= nb /\ nb <= e /\ e < nb + Cap /\ e <= H + Cap /\ nb <= H + 1
      /\ f \in Buffer /\ f.highest = Wire(H) /\ FilledOK(f.slots, nb, H)
      /\ \A y \in nb .. H : f.slots[idx(Wire(y))] = b.slots[idx(Wire(y))]
  BY InsertFits
<1>2. x = ExtendTo(g, s, t)
  BY <1>1 DEF Insert, Window
<1>3. idx(s) \in Ring /\ FilledSlot(s, e, t) \in Slot
  BY WireType, IdxType, SlotTypes
<1>4. /\ g \in Buffer /\ g.highest = Wire(H)
      /\ g.slots = [f.slots EXCEPT ![idx(s)] = FilledSlot(s, e, t)]
  BY <1>1, <1>3 DEF Buffer
<1>5. diff(Wire(H), s) = e - H
  BY <1>1, Constants, DiffIsDistance DEF Window
<1>6. g.slots[idx(s)] = FilledSlot(s, e, t)
  BY <1>1, <1>3, <1>4 DEF Buffer
<1>7. ASSUME NEW y \in Nat, nb <= y, y < nb + Cap, y # e
      PROVE  idx(Wire(y)) \in Ring /\ g.slots[idx(Wire(y))] = f.slots[idx(Wire(y))]
  <2>1. idx(Wire(y)) # idx(s)
    BY <1>1, <1>7, SlotInjective
  <2>2. idx(Wire(y)) \in Ring
    BY WireType, IdxType
  <2> QED
    BY <1>1, <1>4, <2>1, <2>2 DEF Buffer
<1> HIDE DEF g, x, f
<1>8. CASE e <= H
  <2>1. x = g
    BY <1>2, <1>4, <1>5, <1>8 DEF ExtendTo
  <2>2. ASSUME NEW y \in nb .. H, y # e
        PROVE  x.slots[idx(Wire(y))] = b.slots[idx(Wire(y))]
    <3>1. y \in Nat /\ nb <= y /\ y < nb + Cap
      BY <1>1, Constants DEF Window
    <3> QED
      BY <1>1, <1>7, <2>1, <2>2, <3>1
  <2> QED
    BY <1>6, <1>8, <2>1, <2>2 DEF x
<1>9. CASE H < e
  <2>1. /\ x.slots[idx(s)] = g.slots[idx(s)]
        /\ \A y \in Nat : y < e /\ e <= y + Cap =>
             x.slots[idx(Wire(y))] =
               IF y > H /\ (\/ g.slots[idx(Wire(y))].state = "Empty"
                            \/ g.slots[idx(Wire(y))].seq # Wire(y))
               THEN GapSlot(Wire(y), t) ELSE g.slots[idx(Wire(y))]
    <3>1. e <= H + Cap /\ g \in Buffer /\ g.highest = Wire(H)
      BY <1>1, <1>4
    <3> HIDE DEF s
    <3>2. s = Wire(e)
      BY DEF s
    <3> QED
      BY <1>2, <1>9, <3>1, <3>2, ExtendSlots
  <2>2. ASSUME NEW y \in nb .. H, y # e
        PROVE  x.slots[idx(Wire(y))] = b.slots[idx(Wire(y))]
    <3>1. y \in Nat /\ nb <= y /\ y < nb + Cap /\ y < e /\ e <= y + Cap /\ ~(y > H)
      BY <1>1, <1>9, Constants DEF Window
    <3>2. x.slots[idx(Wire(y))] = g.slots[idx(Wire(y))]
      BY <2>1, <3>1
    <3> QED
      BY <1>1, <1>7, <2>2, <3>1, <3>2
  <2>3. ASSUME NEW y \in (H + 1) .. (e - 1)
        PROVE  /\ x.slots[idx(Wire(y))].seq = Wire(y)
               /\ x.slots[idx(Wire(y))].state # "Empty"
               /\ x.slots[idx(Wire(y))].state # "Filled"
    <3>1. y \in Nat /\ nb <= y /\ y < nb + Cap /\ y < e /\ e <= y + Cap /\ y > H /\ y # e
      BY <1>1, Constants
    <3>2. PICK i \in Ring : i = idx(Wire(y))
      BY <1>7, <3>1
    <3>3. g.slots[i].state # "Filled"
      <4> SUFFICES ASSUME g.slots[i].state = "Filled" PROVE FALSE
        OBVIOUS
      <4>1. f.slots[i].state = "Filled"
        BY <1>7, <3>1, <3>2
      <4>2. PICK d \in Nat : d = f.slots[i].data
        BY <1>1 DEF Buffer, Slot
      <4>3. nb <= d /\ d <= H /\ i = idx(Wire(d))
        BY <1>1, <4>1, <4>2 DEF FilledOK
      <4>4. d < nb + Cap
        BY <1>1, <4>3, Constants DEF Window
      <4>5. d = y
        BY <1>1, <3>1, <3>2, <4>3, <4>4, SlotInjective, Zenon
      <4> QED
        BY <3>1, <4>3, <4>5
    <3>4. x.slots[i] = IF g.slots[i].state = "Empty" \/ g.slots[i].seq # Wire(y)
                       THEN GapSlot(Wire(y), t) ELSE g.slots[i]
      BY <2>1, <3>1, <3>2
    <3> QED
      BY <3>2, <3>3, <3>4 DEF GapSlot
  <2> QED
    BY <1>6, <2>1, <2>2, <2>3 DEF x
<1> QED
  BY <1>1, <1>8, <1>9

\* The packets held.
HeldIn(b) == {b.slots[i].data : i \in FilledIn(b)}

\* A packet is held exactly if it is in the window and its slot is filled.
LEMMA HeldIff ==
  ASSUME NEW b \in Buffer, NEW B \in Nat, NEW H \in Nat, Window(b, B, H), NEW x
  PROVE  x \in HeldIn(b) <=> x \in B .. H /\ b.slots[idx(Wire(x))].state = "Filled"
<1>1. ASSUME x \in HeldIn(b)
      PROVE  x \in B .. H /\ b.slots[idx(Wire(x))].state = "Filled"
  <2>1. PICK i \in Ring : b.slots[i].state = "Filled" /\ x = b.slots[i].data
    BY <1>1 DEF HeldIn, FilledIn
  <2>2. x \in Nat
    BY <2>1 DEF Buffer, Slot
  <2> QED
    BY <2>1, <2>2 DEF Window, FilledOK
<1>2. ASSUME x \in B .. H, b.slots[idx(Wire(x))].state = "Filled"
      PROVE  x \in HeldIn(b)
  <2>1. x \in Nat /\ B <= x /\ x < B + Cap
    BY <1>2, Constants DEF Window
  <2>2. PICK i \in Ring : i = idx(Wire(x))
    BY <2>1, WireType, IdxType
  <2>3. PICK d \in Nat : d = b.slots[i].data
    BY DEF Buffer, Slot
  <2>4. B <= d /\ d <= H /\ i = idx(Wire(d))
    BY <1>2, <2>2, <2>3 DEF Window, FilledOK
  <2>5. d < B + Cap
    BY <2>4, Constants DEF Window
  <2>6. d = x
    BY <2>1, <2>2, <2>4, <2>5, SlotInjective, Zenon
  <2> QED
    BY <1>2, <2>2, <2>3, <2>6, Zenon DEF HeldIn, FilledIn
<1> QED
  BY <1>1, <1>2

\* Every index of [B, H] is in its slot, held or flagged, and the newest is held.
Whole(b, B, H) ==
  /\ \A y \in B .. H : /\ b.slots[idx(Wire(y))].seq = Wire(y)
                       /\ b.slots[idx(Wire(y))].state # "Empty"
  /\ B <= H => b.slots[idx(Wire(H))].state = "Filled"

\* A ring without payloads, anchored at e, is whole and holds e alone.
LEMMA AnchorWhole ==
  ASSUME NEW slots \in [Ring -> Slot], \A i \in Ring : slots[i].state # "Filled",
         NEW e \in Nat, NEW t \in Nat
  PROVE  LET a == Anchor(slots, Wire(e), e, t)
         IN  Whole(a, e, e) /\ HeldIn(a) = {e}
<1> DEFINE a == Anchor(slots, Wire(e), e, t)
<1>1. idx(Wire(e)) \in Ring
  BY WireType, IdxType
<1>2. a.slots[idx(Wire(e))] = FilledSlot(Wire(e), e, t)
  BY <1>1 DEF Anchor
<1>3. a \in Buffer /\ Window(a, e, e)
  BY AnchorWindow
<1> HIDE DEF a
<1>4. a.slots[idx(Wire(e))].seq = Wire(e) /\ a.slots[idx(Wire(e))].state = "Filled"
  BY <1>2 DEF FilledSlot
<1>5. Whole(a, e, e)
  BY <1>4 DEF Whole
<1>6. \A x : x \in HeldIn(a) <=> x \in e .. e /\ a.slots[idx(Wire(x))].state = "Filled"
  BY <1>3, HeldIff
<1>7. HeldIn(a) = {e}
  BY <1>4, <1>6
<1> QED
  BY <1>5, <1>7 DEF a

\* An insert of a packet that is not stale keeps the window whole, and what is
\* held is the tail from the new base on, and the packet.
LEMMA InsertWhole ==
  ASSUME NEW b \in Buffer, NEW B \in Nat, NEW H \in Nat, Window(b, B, H),
         NEW e \in Nat, B <= e, e < B + Half, Near(B, H, e), NEW t \in Nat,
         NEW nb, nb = NewBase(b, B, e)
  PROVE  LET x == Insert(b, Wire(e), e, t)
         IN  /\ Whole(b, B, H) => Whole(x, nb, IF e > H THEN e ELSE H)
             /\ HeldIn(x) = {y \in HeldIn(b) : y >= nb} \cup {e}
             /\ nb <= e
<1> DEFINE s == Wire(e)
           x == Insert(b, s, e, t)
           top == IF e > H THEN e ELSE H
<1>1. diff(b.base, s) = e - B
  BY Constants, DiffIsDistance DEF Window
<1>2. ~IsStale(b, s)
  BY <1>1 DEF IsStale
<1>3. x \in Buffer /\ nb \in Nat /\ Window(x, nb, top)
  <2>1. B - Half <= e
    BY Constants
  <2> QED
    BY <2>1, InsertWindow
<1>4. \A y : y \in HeldIn(b) <=> y \in B .. H /\ b.slots[idx(Wire(y))].state = "Filled"
  BY HeldIff
<1>5. top \in Nat
  OBVIOUS
<1>6. \A y : y \in HeldIn(x) <=> y \in nb .. top /\ x.slots[idx(Wire(y))].state = "Filled"
  <2> HIDE DEF x, top
  <2> QED
    BY <1>3, <1>5, HeldIff
<1>7. CASE Resets(b, s)
  <2> DEFINE clear == [i \in Ring |-> EmptySlot(0)]
  <2>1. x = Anchor(clear, s, e, t)
    <3>1. ~IsDuplicate(b, s)
      BY <1>7 DEF IsDuplicate
    <3> QED
      BY <1>2, <1>7, <3>1 DEF Insert, Window
  <2>2. clear \in [Ring -> Slot] /\ \A i \in Ring : clear[i].state # "Filled"
    <3>1. 0 \in SeqNos
      BY Constants DEF SeqNos
    <3> QED
      BY <3>1, SlotTypes DEF EmptySlot
  <2>3. nb = e
    BY <1>7 DEF NewBase
  <2>4. e > H
    <3>1. wrapping_sub(s, b.base) = e - B
      BY Constants, WireSubAhead DEF Window
    <3>2. e - B - (Cap - 1) > 0
      BY <1>7, <3>1 DEF Resets, Overflows, Advance
    <3> QED
      BY <3>2, Constants DEF Window
  <2> HIDE DEF clear
  <2>5. Whole(x, e, e) /\ HeldIn(x) = {e}
    BY <2>1, <2>2, AnchorWhole
  <2>6. {y \in HeldIn(b) : y >= nb} = {}
    BY <1>4, <2>3, <2>4
  <2> QED
    BY <2>3, <2>4, <2>5, <2>6
<1>8. CASE ~Resets(b, s) /\ IsDuplicate(b, s)
  <2>1. x = Fitted(b, s)
    BY <1>2, <1>8 DEF Insert, Window
  <2>2. /\ nb \in Nat /\ B <= nb /\ nb <= e /\ e < nb + Cap /\ Fitted(b, s) \in Buffer
        /\ FilledOK(Fitted(b, s).slots, nb, H) /\ (e <= H => Fitted(b, s) = b /\ nb = B)
    BY <1>8, InsertFits
  <2>3. Fitted(b, s).slots[idx(s)].state = "Filled" /\ idx(s) \in Ring
    BY <1>8, WireType, IdxType DEF IsDuplicate
  <2>4. e <= H
    <3>1. PICK d \in Nat : d = Fitted(b, s).slots[idx(s)].data
      BY <2>2, <2>3 DEF Buffer, Slot
    <3>2. nb <= d /\ d <= H /\ idx(Wire(d)) = idx(s)
      BY <2>2, <2>3, <3>1 DEF FilledOK
    <3>3. d < nb + Cap
      BY <2>2, <3>2, Constants DEF Window
    <3>4. d = e
      BY <2>2, <3>2, <3>3, SlotInjective
    <3> QED
      BY <3>2, <3>4
  <2>5. x = b /\ nb = B /\ top = H
    BY <2>1, <2>2, <2>4
  <2>6. e \in HeldIn(b)
    BY <1>4, <2>1, <2>3, <2>4, <2>5
  <2>7. {y \in HeldIn(b) : y >= nb} = HeldIn(b)
    BY <1>4, <2>5
  <2> HIDE DEF x, top
  <2>8. HeldIn(x) = {y \in HeldIn(b) : y >= nb} \cup {e}
    BY <2>5, <2>6, <2>7
  <2> QED
    BY <2>2, <2>5, <2>8 DEF x, top
<1>9. CASE ~Resets(b, s) /\ ~IsDuplicate(b, s)
  <2>1. /\ nb \in Nat /\ B <= nb /\ nb <= e
    BY <1>9, InsertFits, SMTT(30)
  <2>2. /\ x.slots[idx(s)] = FilledSlot(s, e, t)
        /\ \A y \in nb .. H : y # e => x.slots[idx(Wire(y))] = b.slots[idx(Wire(y))]
        /\ \A y \in (H + 1) .. (e - 1) :
             /\ x.slots[idx(Wire(y))].seq = Wire(y)
             /\ x.slots[idx(Wire(y))].state # "Empty"
             /\ x.slots[idx(Wire(y))].state # "Filled"
    BY <1>9, InsertSlots
  <2>3. x.slots[idx(Wire(e))].seq = Wire(e) /\ x.slots[idx(Wire(e))].state = "Filled"
    BY <2>2 DEF FilledSlot
  <2> HIDE DEF x
  <2>4. ASSUME NEW y \in nb .. top
        PROVE  y = e \/ (y \in nb .. H /\ y # e) \/ y \in (H + 1) .. (e - 1)
    BY <2>1
  <2>5. HeldIn(x) = {y \in HeldIn(b) : y >= nb} \cup {e}
    <3>1. ASSUME NEW y \in HeldIn(x)
          PROVE  y = e \/ (y \in HeldIn(b) /\ y >= nb)
      <4>1. y \in nb .. top /\ x.slots[idx(Wire(y))].state = "Filled"
        BY <1>6
      <4>2. CASE y \in nb .. H /\ y # e
        BY <1>4, <2>1, <2>2, <4>1, <4>2
      <4>3. CASE y \in (H + 1) .. (e - 1)
        BY <2>2, <4>1, <4>3
      <4> QED
        BY <2>4, <4>1, <4>2, <4>3
    <3>2. ASSUME NEW y \in HeldIn(b), y >= nb
          PROVE  y \in HeldIn(x)
      <4>1. y \in nb .. H /\ b.slots[idx(Wire(y))].state = "Filled"
        BY <1>4, <2>1, <3>2
      <4>2. y \in nb .. top
        BY <4>1
      <4>3. x.slots[idx(Wire(y))].state = "Filled"
        BY <2>2, <2>3, <4>1
      <4> QED
        BY <1>6, <4>2, <4>3
    <3>3. e \in HeldIn(x)
      <4>1. e \in nb .. top
        BY <2>1
      <4> QED
        BY <1>6, <2>3, <4>1
    <3> QED
      BY <3>1, <3>2, <3>3, Zenon
  <2>6. ASSUME Whole(b, B, H)
        PROVE  Whole(x, nb, top)
    <3>1. ASSUME NEW y \in nb .. top
          PROVE  x.slots[idx(Wire(y))].seq = Wire(y) /\ x.slots[idx(Wire(y))].state # "Empty"
      <4>1. CASE y \in nb .. H /\ y # e
        <5>1. y \in B .. H
          BY <2>1, <4>1
        <5> QED
          BY <2>2, <2>6, <4>1, <5>1 DEF Whole
      <4>2. CASE y \in (H + 1) .. (e - 1)
        BY <2>2, <4>2
      <4>3. CASE y = e
        BY <2>3, <4>3
      <4> QED
        BY <2>4, <4>1, <4>2, <4>3
    <3>2. x.slots[idx(Wire(top))].state = "Filled"
      <4>1. CASE top = e
        BY <2>3, <4>1
      <4>2. CASE top # e
        <5>1. top = H /\ H \in nb .. H /\ H # e /\ B <= H
          BY <2>1, <4>2
        <5> QED
          BY <2>2, <2>6, <5>1 DEF Whole
      <4> QED
        BY <4>1, <4>2
    <3> QED
      BY <3>1, <3>2 DEF Whole
  <2> QED
    BY <2>1, <2>5, <2>6 DEF x
<1> QED
  BY <1>7, <1>8, <1>9

\* A turn of the drain loop takes the base out of what is held and keeps the
\* rest of the window whole.
LEMMA DropHeadWhole ==
  ASSUME NEW b \in Buffer, NEW B \in Nat, NEW H \in Nat, Window(b, B, H), B <= H
  PROVE  /\ Whole(b, B, H) => Whole(DropHead(b), B + 1, H)
         /\ HeldIn(DropHead(b)) = HeldIn(b) \ {B}
<1> DEFINE z == EmptySlot(IF HeadSlot(b).seq = b.base THEN b.base ELSE 0)
           x == DropHead(b)
<1>1. x.slots = [b.slots EXCEPT ![idx(b.base)] = z]
  BY DEF DropHead, Buffer
<1>2. x \in Buffer /\ Window(x, B + 1, H)
  BY DropHeadWindow
<1> HIDE DEF x, z
<1>3. ASSUME NEW y \in (B + 1) .. H
      PROVE  x.slots[idx(Wire(y))] = b.slots[idx(Wire(y))]
  <2>1. y \in Nat /\ B <= y /\ y < B + Cap /\ y # B /\ B < B + Cap
    BY Constants DEF Window
  <2>2. idx(Wire(y)) # idx(b.base)
    BY <2>1, SlotInjective DEF Window
  <2>3. idx(Wire(y)) \in Ring
    BY <2>1, WireType, IdxType
  <2> QED
    BY <1>1, <2>2, <2>3 DEF Buffer
<1>4. \A y : y \in HeldIn(b) <=> y \in B .. H /\ b.slots[idx(Wire(y))].state = "Filled"
  BY HeldIff
<1>5. \A y : y \in HeldIn(x) <=> y \in (B + 1) .. H /\ x.slots[idx(Wire(y))].state = "Filled"
  BY <1>2, HeldIff
<1>6. HeldIn(x) = HeldIn(b) \ {B}
  <2>1. ASSUME NEW y
        PROVE  y \in HeldIn(x) <=> y \in HeldIn(b) /\ y # B
    <3>1. y \in (B + 1) .. H <=> y \in B .. H /\ y # B
      OBVIOUS
    <3> QED
      BY <1>3, <1>4, <1>5, <3>1
  <2> QED
    BY <2>1
<1>7. ASSUME Whole(b, B, H)
      PROVE  Whole(x, B + 1, H)
  <2>1. \A y \in (B + 1) .. H : y \in B .. H
    OBVIOUS
  <2>2. B + 1 <= H => H \in (B + 1) .. H
    OBVIOUS
  <2> QED
    BY <1>3, <1>7, <2>1, <2>2 DEF Whole
<1> QED
  BY <1>6, <1>7 DEF x

\* Before the first packet nothing is held.
LEMMA NewHeld == HeldIn(NewBuffer) = {}
BY NewBufferType DEF HeldIn, FilledIn

=============================================================================
