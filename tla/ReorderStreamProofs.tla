------------------------- MODULE ReorderStreamProofs -------------------------
(***************************************************************************)
(* The reorder buffer is correct for every sequence-space size, every ring   *)
(* capacity of at most a quarter of it, every hold time and every stream:    *)
(* its window is sound, it delivers in order without repeats, it reports no  *)
(* packet twice, and until the far step it keeps JitterBuffer's promise.     *)
(* And the loops of insert do what the model's closed forms say.             *)
(***************************************************************************)
EXTENDS ReorderPromise, ReorderLoops, ReorderBufferProofs, FiniteSetTheorems, FunctionTheorems

-----------------------------------------------------------------------------
(* The stream *)

\* The inductive invariant: before the first packet the buffer is new, after
\* it the ghost indices are its window.
Inv ==
  /\ TypeOK
  /\ last <= ebase
  /\ IF buf.started THEN Window(buf, ebase, ehigh)
     ELSE buf = NewBuffer /\ ebase = 0 /\ last = 0

LEMMA InitInv == Init => Inv
<1> SUFFICES ASSUME Init PROVE Inv
  OBVIOUS
<1>1. buf.started = FALSE
  BY DEF Init, NewBuffer
<1>2. TypeOK
  <2>1. draining \in BOOLEAN /\ overflowed \in BOOLEAN
    BY Zenon DEF Init
  <2>2. buf \in Buffer
    BY NewBufferType DEF Init
  <2> QED
    BY <2>1, <2>2 DEF Init, TypeOK
<1>3. last <= ebase
  BY DEF Init
<1> QED
  BY <1>1, <1>2, <1>3 DEF Init, Inv

\* A loss count is a number.
LEMMA OverflowFlushedType ==
  ASSUME NEW b, NEW s
  PROVE  OverflowFlushed(b, s) \in Nat
<1>1. IsFiniteSet(Ring)
  BY Constants, FS_Interval DEF Ring
<1>2. ASSUME NEW S \in SUBSET Ring PROVE Cardinality(S) \in Nat
  BY <1>1, FS_Subset, FS_CardinalityType
<1>3. FilledIn(b) \in SUBSET Ring /\ FlushedBy(b, Advance(b, s)) \in SUBSET Ring
  BY DEF FilledIn, FlushedBy
<1> QED
  BY <1>2, <1>3 DEF OverflowFlushed

\* An arrival keeps the invariant.
LEMMA ArriveInv ==
  ASSUME Inv, NEW e \in 0 .. MaxExt, Arrive(e)
  PROVE  Inv'
<1>1. e \in Nat /\ now \in Nat /\ ebase \in Nat /\ ehigh \in Nat /\ buf \in Buffer
  BY StreamAssumption DEF Inv, TypeOK
<1>2. buf' = Insert(buf, Wire(e), e, now) /\ last' = last /\ now' = now /\ draining' = draining
  BY DEF Arrive
<1>3. /\ buf' \in Buffer /\ ebase' \in Nat /\ ehigh' \in Nat /\ buf'.started
      /\ ebase <= ebase' /\ Window(buf', ebase', ehigh')
  <2>1. CASE ~buf.started
    <3>1. buf = NewBuffer /\ ebase = 0
      BY <2>1 DEF Inv
    <3>2. Insert(buf, Wire(e), e, now) = Anchor(buf.slots, Wire(e), e, now)
      <4>1. ~IsStale(buf, Wire(e)) /\ ~Resets(buf, Wire(e)) /\ ~IsDuplicate(buf, Wire(e))
        BY <2>1 DEF IsStale, Resets, Overflows, IsDuplicate
      <4> QED
        BY <2>1, <4>1 DEF Insert
    <3>3. ebase' = e /\ ehigh' = e
      <4>1. ~Overflows(buf, Wire(e))
        BY <2>1 DEF Overflows
      <4> QED
        BY <2>1, <4>1 DEF Arrive, BaseAfter
    <3>4. buf.slots \in [Ring -> Slot] /\ \A i \in Ring : buf.slots[i].state # "Filled"
      BY <3>1, NewBufferType DEF Buffer
    <3>5. /\ Anchor(buf.slots, Wire(e), e, now) \in Buffer
          /\ Window(Anchor(buf.slots, Wire(e), e, now), e, e)
      BY <1>1, <3>4, AnchorWindow
    <3> QED
      BY <1>1, <1>2, <3>1, <3>2, <3>3, <3>5, SMTT(30) DEF Window
  <2>2. CASE buf.started
    <3>1. Window(buf, ebase, ehigh)
      BY <2>2 DEF Inv
    <3>2. ebase - Half <= e /\ e < ebase + Half
      BY <2>2 DEF Arrive, CanArrive
    <3>3. ebase' = NewBase(buf, ebase, e)
      BY <2>2 DEF Arrive, BaseAfter, NewBase
    <3>4. ehigh' = IF e > ehigh THEN e ELSE ehigh
      BY <2>2 DEF Arrive
    <3>5. /\ Insert(buf, Wire(e), e, now) \in Buffer
          /\ NewBase(buf, ebase, e) \in Nat /\ ebase <= NewBase(buf, ebase, e)
          /\ Window(Insert(buf, Wire(e), e, now), NewBase(buf, ebase, e),
                    IF e > ehigh THEN e ELSE ehigh)
      BY <1>1, <3>1, <3>2, InsertWindow
    <3> QED
      BY <1>1, <1>2, <3>3, <3>4, <3>5 DEF Window
  <2> QED
    BY <2>1, <2>2
<1>4. unreported' \in Int
  <2>1. ebase' = BaseAfter(e)
    BY DEF Arrive
  <2> QED
    BY <1>1, <1>3, <2>1, OverflowFlushedType, SMTT(30) DEF Arrive, Inv, TypeOK
<1>5. overflowed' \in BOOLEAN
  BY DEF Arrive
<1>6. TypeOK'
  BY <1>1, <1>2, <1>3, <1>4, <1>5, ZenonT(60) DEF Inv, TypeOK
<1>7. last' <= ebase'
  BY <1>1, <1>2, <1>3 DEF Inv, TypeOK
<1> QED
  BY <1>3, <1>6, <1>7 DEF Inv

\* A turn of the drain keeps the invariant, and a delivery is the packet at the
\* base.
LEMMA DrainTurnInv ==
  ASSUME Inv, DrainTurn
  PROVE  Inv' /\ ebase' = ebase + 1 /\ last' \in {last, ebase + 1}
<1>1. now \in Nat /\ ebase \in Nat /\ ehigh \in Nat /\ last \in Nat /\ buf \in Buffer
  BY DEF Inv, TypeOK
<1>2. HeadReady(buf, now) /\ buf' = DropHead(buf) /\ ebase' = ebase + 1 /\ ehigh' = ehigh
  BY DEF DrainTurn
<1>3. Window(buf, ebase, ehigh)
  BY <1>2 DEF HeadReady, Inv
<1>4. ebase <= ehigh
  BY <1>1, <1>2, <1>3, ReadyInWindow
<1>5. buf' \in Buffer /\ Window(buf', ebase', ehigh')
  BY <1>1, <1>2, <1>3, <1>4, DropHeadWindow, ZenonT(60)
<1>6. last' \in {last, ebase + 1}
  <2>1. CASE HeadDelivers(buf)
    <3>1. HeadSlot(buf).data = ebase
      BY <1>1, <1>3, <2>1, DeliversBase
    <3> QED
      BY <2>1, <3>1 DEF DrainTurn
  <2>2. CASE ~HeadDelivers(buf)
    BY <2>2 DEF DrainTurn
  <2> QED
    BY <2>1, <2>2
<1>7. last' \in Nat /\ last' <= ebase'
  BY <1>1, <1>2, <1>6 DEF Inv
<1>8. TypeOK'
  <2>1. /\ now' = now /\ draining' = draining /\ unreported' = unreported
        /\ overflowed' = overflowed
    BY DEF DrainTurn
  <2> QED
    BY <1>1, <1>2, <1>5, <1>7, <2>1, SMTT(30) DEF Inv, TypeOK
<1>9. buf'.started
  BY <1>5 DEF Window
<1> QED
  BY <1>2, <1>5, <1>6, <1>7, <1>8, <1>9, ZenonT(60) DEF Inv

\* The other steps leave the buffer and the ghosts alone.
LEMMA OtherInv ==
  ASSUME Inv, DrainBegin \/ DrainEnd \/ Tick \/ UNCHANGED vars
  PROVE  Inv' /\ last' = last
<1>1. /\ buf' = buf /\ ebase' = ebase /\ ehigh' = ehigh /\ last' = last
      /\ unreported' = unreported /\ overflowed' = overflowed
  BY DEF DrainBegin, DrainEnd, Tick, vars
<1>2. now' \in Nat
  BY DEF DrainBegin, DrainEnd, Tick, vars, Inv, TypeOK
<1>3. draining' \in BOOLEAN
  BY ZenonT(30), Zenon DEF DrainBegin, DrainEnd, Tick, vars, Inv, TypeOK
<1>4. TypeOK'
  BY <1>1, <1>2, <1>3 DEF Inv, TypeOK
<1> QED
  BY <1>1, <1>4 DEF Inv

LEMMA NextInv == Inv /\ [Next]_vars => Inv'
<1> SUFFICES ASSUME Inv, [Next]_vars PROVE Inv'
  OBVIOUS
<1>1. CASE \E e \in 0 .. MaxExt : Arrive(e)
  BY <1>1, ArriveInv
<1>2. CASE DrainTurn
  BY <1>2, DrainTurnInv
<1>3. CASE DrainBegin \/ DrainEnd \/ Tick \/ UNCHANGED vars
  BY <1>3, OtherInv
<1> QED
  BY <1>1, <1>2, <1>3 DEF Next

LEMMA InvAlways == Spec => []Inv
BY InitInv, NextInv, PTL DEF Spec

\* Every variable keeps its type: in particular the wrapped base and highest
\* stay sequence numbers and the ring keeps its shape.
THEOREM TypeCorrect == Spec => []TypeOK
<1>1. Inv => TypeOK
  BY ZenonT(60) DEF Inv
<1> QED
  BY <1>1, InvAlways, PTL

\* The window is sound at all times: insert and drain_ready keep it at most a
\* ring wide, keep base_seq and highest_seq the images of the stream indices
\* across any number of wraps, and hold every payload inside it in its own slot.
THEOREM WindowIsSound == Spec => []WindowSound
<1>1. Inv => WindowSound
  BY DEF Inv, Window, FilledOK, WindowSound
<1> QED
  BY <1>1, InvAlways, PTL

\* drain_ready delivers in stream order without repeats, whatever is lost,
\* duplicated, reordered or flushed, and across the wrap.
THEOREM DeliveryInOrder == Spec => InOrderDelivery
<1>1. Inv /\ [Next]_vars => [last' # last => last' = ebase + 1 /\ last' > last]_vars
  <2> SUFFICES ASSUME Inv, [Next]_vars, last' # last
               PROVE  last' = ebase + 1 /\ last' > last
    OBVIOUS
  <2>1. DrainTurn
    <3>1. ASSUME NEW e \in 0 .. MaxExt, Arrive(e) PROVE last' = last
      BY <3>1 DEF Arrive
    <3>2. CASE DrainBegin \/ DrainEnd \/ Tick \/ UNCHANGED vars
      BY <3>2, OtherInv
    <3> QED
      BY <3>1, <3>2 DEF Next
  <2>2. last' = ebase + 1
    BY <2>1, DrainTurnInv
  <2> QED
    BY <2>2 DEF Inv, TypeOK
<1> QED
  BY <1>1, InvAlways, PTL DEF Spec, InOrderDelivery

-----------------------------------------------------------------------------
(* The accounting of the overflow *)

\* A set that a function sends one to one into an interval is no larger.
LEMMA AtMost ==
  ASSUME NEW S, NEW a \in Int, NEW b \in Int, a <= b + 1, NEW f \in [S -> a .. b],
         \A i, j \in S : f[i] = f[j] => i = j
  PROVE  Cardinality(S) <= b - a + 1
<1>1. f \in Injection(S, a .. b)
  BY Fun_IsInj
<1>2. IsFiniteSet(a .. b) /\ Cardinality(a .. b) = IF a > b THEN 0 ELSE b - a + 1
  BY FS_Interval
<1>3. Cardinality(S) <= Cardinality(a .. b)
  BY <1>1, <1>2, FS_Injection
<1>4. Cardinality(a .. b) = b - a + 1
  BY <1>2
<1> QED
  BY <1>3, <1>4

\* What a flush of the oldest n throws away is at most n.
LEMMA FlushedAtMost ==
  ASSUME NEW b \in Buffer, NEW n \in 0 .. Cap
  PROVE  Cardinality(FlushedBy(b, n)) <= n
<1> DEFINE S == FlushedBy(b, n)
           f == [i \in S |-> Ahead(b.base, i)]
<1>1. idx(b.base) \in 0 .. (Cap - 1) /\ Cap \in Nat \ {0}
  BY IdxType, Constants DEF Buffer, Ring
<1>2. ASSUME NEW i \in S
      PROVE  i \in 0 .. (Cap - 1) /\ Ahead(b.base, i) \in 0 .. (n - 1)
  <2>1. i \in 0 .. (Cap - 1) /\ Ahead(b.base, i) < n
    BY DEF FlushedBy, FilledIn, Ring
  <2> QED
    BY <1>1, <2>1 DEF Ahead
<1>3. ASSUME NEW i \in S, NEW j \in S, Ahead(b.base, i) = Ahead(b.base, j)
      PROVE  i = j
  <2>1. i \in 0 .. (Cap - 1) /\ j \in 0 .. (Cap - 1)
    BY <1>2
  <2> QED
    BY <1>1, <1>3, <2>1 DEF Ahead
<1> HIDE DEF S
<1>4. f \in [S -> 0 .. (n - 1)]
  BY <1>2
<1>5. \A i, j \in S : f[i] = f[j] => i = j
  BY <1>3
<1> HIDE DEF f
<1>6. Cardinality(S) <= (n - 1) - 0 + 1
  <2>1. n - 1 \in Int /\ 0 <= (n - 1) + 1
    BY Constants
  <2> QED
    BY <1>4, <1>5, <2>1, AtMost, SMTT(30)
<1> QED
  BY <1>6, Constants DEF S

\* The payloads of the window [B, H] are at most as many as its indices.
LEMMA FilledAtMost ==
  ASSUME NEW b \in Buffer, NEW B \in Nat, NEW H \in Nat, Window(b, B, H)
  PROVE  Cardinality(FilledIn(b)) <= H - B + 1
<1> DEFINE S == FilledIn(b)
           f == [i \in S |-> b.slots[i].data]
<1>1. ASSUME NEW i \in S
      PROVE  b.slots[i].data \in B .. H /\ i = idx(Wire(b.slots[i].data))
  <2>1. i \in Ring /\ b.slots[i].state = "Filled" /\ b.slots[i].data \in Nat
    BY DEF FilledIn, Buffer, Slot
  <2> QED
    BY <2>1 DEF Window, FilledOK
<1> HIDE DEF S
<1>2. f \in [S -> B .. H]
  BY <1>1
<1>3. \A i, j \in S : f[i] = f[j] => i = j
  BY <1>1
<1> HIDE DEF f
<1> QED
  BY <1>2, <1>3, AtMost, SMTT(30) DEF S, Window

\* insert counts as flushed no more than the base passes over.
LEMMA FlushedIsPassed ==
  ASSUME NEW b \in Buffer, NEW B \in Nat, NEW H \in Nat, Window(b, B, H),
         NEW e \in Nat, B - Half <= e, e < B + Half
  PROVE  /\ OverflowFlushed(b, Wire(e)) <= NewBase(b, B, e) - B
         /\ ~Overflows(b, Wire(e)) => OverflowFlushed(b, Wire(e)) = 0 /\ NewBase(b, B, e) = B
<1> DEFINE s == Wire(e)
<1>1. CASE ~Overflows(b, s)
  <2>1. ~Resets(b, s)
    BY <1>1 DEF Resets
  <2> QED
    BY <1>1, <2>1 DEF OverflowFlushed, NewBase
<1>2. CASE Overflows(b, s)
  <2>1. B <= e
    <3>1. diff(b.base, s) = e - B
      BY DiffIsDistance DEF Window
    <3> QED
      BY <1>2, <3>1, Constants, SMTT(30) DEF Overflows, IsStale
  <2>2. Advance(b, s) = e - B - (Cap - 1) /\ e >= B + Cap
    <3>1. wrapping_sub(s, b.base) = e - B
      BY <2>1, Constants, WireSubAhead DEF Window
    <3>2. Advance(b, s) = e - B - (Cap - 1)
      BY <3>1 DEF Advance
    <3> QED
      BY <1>2, <3>2, Constants, SMTT(30) DEF Overflows
  <2>3. CASE Resets(b, s)
    <3>1. OverflowFlushed(b, s) <= H - B + 1 /\ NewBase(b, B, e) = e
      BY <2>3, FilledAtMost DEF OverflowFlushed, NewBase
    <3>2. OverflowFlushed(b, s) \in Nat
      BY OverflowFlushedType
    <3>3. H + 1 <= e
      BY <2>2, Constants DEF Window
    <3> QED
      BY <1>2, <3>1, <3>2, <3>3, SMTT(30)
  <2>4. CASE ~Resets(b, s)
    <3>1. PICK n \in 0 .. Cap : n = Advance(b, s)
      BY <1>2, <2>2, <2>4, Constants, SMTT(30) DEF Resets
    <3>2. OverflowFlushed(b, s) <= n /\ NewBase(b, B, e) = B + n
      BY <1>2, <2>4, <3>1, FlushedAtMost, ZenonT(60) DEF OverflowFlushed, NewBase
    <3> QED
      BY <1>2, <3>2, Constants
  <2> QED
    BY <2>3, <2>4
<1> QED
  BY <1>1, <1>2

\* No index is reported twice, and without an overflow none that the base has
\* passed goes unreported: overflow_flushed never counts more packets than the
\* base passes, for every ring, hold time and stream.
THEOREM NothingIsOverReported == Spec => []NoOverReport
<1>1. Init => NoOverReport
  BY DEF Init, NoOverReport
<1>2. Inv /\ NoOverReport /\ [Next]_vars => NoOverReport'
  <2> SUFFICES ASSUME Inv, NoOverReport, [Next]_vars
               PROVE  NoOverReport'
    OBVIOUS
  <2>1. ASSUME NEW e \in 0 .. MaxExt, Arrive(e)
        PROVE  NoOverReport'
    <3>1. e \in Nat /\ ebase \in Nat /\ ehigh \in Nat /\ buf \in Buffer /\ unreported \in Int
      BY StreamAssumption DEF Inv, TypeOK
    <3>2. overflowed' = (overflowed \/ Overflows(buf, Wire(e)))
      BY <2>1 DEF Arrive
    <3>3. CASE ~buf.started
      <4>1. unreported' = unreported /\ ~Overflows(buf, Wire(e))
        BY <2>1, <3>3 DEF Arrive, Overflows
      <4> QED
        BY <3>2, <4>1, ZenonT(30), Zenon DEF NoOverReport
    <3>4. CASE buf.started
      <4>1. /\ Window(buf, ebase, ehigh) /\ ebase - Half <= e /\ e < ebase + Half
            /\ BaseAfter(e) = NewBase(buf, ebase, e)
        BY <2>1, <3>4 DEF Inv, Arrive, CanArrive, BaseAfter, NewBase
      <4>2. PICK o \in Nat, n \in Nat :
              /\ o = OverflowFlushed(buf, Wire(e)) /\ n = NewBase(buf, ebase, e)
              /\ o <= n - ebase /\ (~Overflows(buf, Wire(e)) => o = 0 /\ n = ebase)
        <5>1. NewBase(buf, ebase, e) \in Nat
          BY <3>1, <4>1, InsertWindow, ZenonT(60)
        <5> QED
          BY <3>1, <4>1, <5>1, OverflowFlushedType, FlushedIsPassed
      <4>3. unreported' = unreported + (n - ebase) - o
        BY <2>1, <3>4, <4>1, <4>2, ZenonT(60) DEF Arrive
      <4>4. unreported' >= 0
        BY <3>1, <4>2, <4>3 DEF NoOverReport
      <4>5. ~overflowed' => ~overflowed /\ ~Overflows(buf, Wire(e))
        BY <3>2, ZenonT(30), Zenon
      <4>6. ~overflowed' => unreported' = 0
        BY <3>1, <4>2, <4>3, <4>5 DEF NoOverReport
      <4> QED
        BY <4>4, <4>6 DEF NoOverReport
    <3> QED
      BY <3>3, <3>4
  <2>2. CASE DrainTurn \/ DrainBegin \/ DrainEnd \/ Tick \/ UNCHANGED vars
    <3>1. unreported' = unreported /\ overflowed' = overflowed
      BY <2>2 DEF DrainTurn, DrainBegin, DrainEnd, Tick, vars
    <3> QED
      BY <3>1, ZenonT(60) DEF NoOverReport
  <2> QED
    BY <2>1, <2>2 DEF Next
<1> QED
  BY <1>1, <1>2, InvAlways, PTL DEF Spec

-----------------------------------------------------------------------------
(* The promise *)

\* The inductive invariant: until the far step the window is whole.
FInv ==
  /\ Inv /\ far \in BOOLEAN
  /\ ~far /\ buf.started => Whole(buf, ebase, ehigh)

\* What JitterBuffer's cursor stands for.
Cursor == IF buf.started THEN ebase ELSE 0

\* An arrival keeps the window whole and is accepted, or changes nothing.
LEMMA ArriveWhole ==
  ASSUME FInv, NEW e \in 0 .. MaxExt, Arrive(e), Inv', ~far,
         ~(buf.started /\ ebase = ehigh + 1 /\ ehigh' > ehigh + Cap)
  PROVE  /\ Whole(buf', ebase', ehigh')
         /\ \/ Promise!JNext
            \/ UNCHANGED Promise!jvars
<1>1. e \in Nat /\ now \in Nat /\ ebase \in Nat /\ ehigh \in Nat /\ buf \in Buffer
  BY StreamAssumption DEF FInv, Inv, TypeOK
<1>2. buf' = Insert(buf, Wire(e), e, now) /\ last' = last
  BY DEF Arrive
<1>3. ASSUME NEW c \in 0 .. MaxExt, Cursor <= c, c <= e, Cursor' = c,
             HeldIn(buf') = {y \in HeldIn(buf) : y >= c} \cup {e}
      PROVE  Promise!JNext
  <2>1. Promise!Accept(e, c)
    BY <1>2, <1>3 DEF Promise!Accept, Cursor, HeldIn
  <2> QED
    BY <2>1 DEF Promise!JNext
<1>4. CASE ~buf.started
  <2>1. buf = NewBuffer
    BY <1>4 DEF FInv, Inv
  <2>2. Insert(buf, Wire(e), e, now) = Anchor(buf.slots, Wire(e), e, now)
    <3>1. ~IsStale(buf, Wire(e)) /\ ~Resets(buf, Wire(e)) /\ ~IsDuplicate(buf, Wire(e))
      BY <1>4 DEF IsStale, Resets, Overflows, IsDuplicate
    <3> QED
      BY <1>4, <3>1, ZenonT(60) DEF Insert
  <2>3. ebase' = e /\ ehigh' = e
    <3>1. ~Overflows(buf, Wire(e))
      BY <1>4 DEF Overflows
    <3> QED
      BY <1>4, <3>1 DEF Arrive, BaseAfter
  <2>4. buf.slots \in [Ring -> Slot] /\ \A i \in Ring : buf.slots[i].state # "Filled"
    BY <2>1, NewBufferType, ZenonT(60) DEF Buffer
  <2>5. Whole(buf', e, e) /\ HeldIn(buf') = {e}
    BY <1>1, <1>2, <2>2, <2>4, AnchorWhole, SMTT(30)
  <2>6. buf'.started
    BY <1>2, <2>2 DEF Anchor
  <2>7. Cursor = 0 /\ Cursor' = e /\ HeldIn(buf) = {}
    BY <1>4, <2>1, <2>3, <2>6, NewHeld, ZenonT(60) DEF Cursor
  <2>8. Promise!JNext
    BY <1>1, <1>3, <2>5, <2>7, SMTT(30)
  <2> QED
    BY <2>3, <2>5, <2>8, ZenonT(60)
<1>5. CASE buf.started
  <2>1. Window(buf, ebase, ehigh) /\ Whole(buf, ebase, ehigh)
    BY <1>5 DEF FInv, Inv
  <2>2. ebase - Half <= e /\ e < ebase + Half
    BY <1>5 DEF Arrive, CanArrive
  <2>3. ebase' = NewBase(buf, ebase, e)
    BY <1>5 DEF Arrive, BaseAfter, NewBase
  <2>4. ehigh' = IF e > ehigh THEN e ELSE ehigh
    BY <1>5 DEF Arrive
  <2>5. diff(buf.base, Wire(e)) = e - ebase
    BY <1>1, <2>1, <2>2, DiffIsDistance, ZenonT(60) DEF Window
  <2>6. CASE e < ebase
    <3>1. IsStale(buf, Wire(e))
      BY <1>1, <1>5, <2>5, <2>6, SMTT(30) DEF IsStale
    <3>2. ~Overflows(buf, Wire(e)) /\ ~Resets(buf, Wire(e)) /\ ~IsDuplicate(buf, Wire(e))
      BY <3>1 DEF Overflows, Resets, IsDuplicate
    <3>3. buf' = buf /\ ebase' = ebase
      BY <1>2, <1>5, <2>3, <3>1, <3>2, ZenonT(60) DEF Insert, NewBase
    <3>4. ehigh' = ehigh
      BY <1>1, <2>1, <2>4, <2>6, SMTT(30) DEF Window
    <3>5. UNCHANGED Promise!jvars
      BY <1>2, <3>3 DEF Promise!jvars, FilledIn
    <3> QED
      BY <2>1, <3>3, <3>4, <3>5, ZenonT(60)
  <2>7. CASE ebase <= e
    <3>1. Near(ebase, ehigh, e)
      BY <1>1, <1>5, <2>4, Constants, SMTT(30) DEF Near
    <3>2. /\ Whole(buf', ebase', ehigh') /\ ebase' <= e
          /\ HeldIn(buf') = {y \in HeldIn(buf) : y >= ebase'} \cup {e}
      BY <1>1, <1>2, <2>1, <2>2, <2>3, <2>4, <2>7, <3>1, InsertWhole, SMTT(30)
    <3>3. ebase' \in Nat /\ ebase <= ebase' /\ buf'.started
      BY <1>1, <1>2, <2>1, <2>2, <2>3, InsertWindow, ZenonT(60) DEF Window
    <3>4. ebase' \in 0 .. MaxExt
      BY <1>1, <3>2, <3>3, StreamAssumption, SMTT(30)
    <3>5. Cursor = ebase /\ Cursor' = ebase'
      BY <1>5, <3>3 DEF Cursor
    <3> QED
      BY <1>3, <3>2, <3>3, <3>4, <3>5, ZenonT(60)
  <2> QED
    BY <1>1, <2>6, <2>7, SMTT(30)
<1> QED
  BY <1>4, <1>5

\* A turn of the drain loop keeps the window whole and hands over the packet at
\* the cursor or passes over one that is not held.
LEMMA DrainTurnWhole ==
  ASSUME FInv, DrainTurn
  PROVE  /\ ~far => Whole(buf', ebase', ehigh')
         /\ Promise!JNext
<1>1. buf.started /\ now \in Nat /\ ebase \in Nat /\ ehigh \in Nat /\ buf \in Buffer
  BY DEF FInv, Inv, TypeOK, DrainTurn, HeadReady
<1>2. Window(buf, ebase, ehigh)
  BY <1>1 DEF FInv, Inv
<1>3. ebase <= ehigh
  BY <1>1, <1>2, ReadyInWindow, ZenonT(60) DEF DrainTurn
<1>4. buf' = DropHead(buf) /\ ebase' = ebase + 1 /\ ehigh' = ehigh
  BY DEF DrainTurn
<1>5. /\ Whole(buf, ebase, ehigh) => Whole(buf', ebase', ehigh')
      /\ HeldIn(buf') = HeldIn(buf) \ {ebase}
  BY <1>1, <1>2, <1>3, <1>4, DropHeadWhole, ZenonT(60)
<1>6. buf'.started
  BY <1>1, <1>4 DEF DropHead, Buffer
<1>7. Cursor = ebase /\ Cursor' = ebase + 1
  BY <1>1, <1>4, <1>6, ZenonT(60) DEF Cursor
<1>8. CASE HeadDelivers(buf)
  <2>1. last' = ebase + 1
    BY <1>1, <1>2, <1>8, DeliversBase, ZenonT(60) DEF DrainTurn
  <2>2. ebase \in HeldIn(buf)
    <3>1. ebase \in ebase .. ehigh
      BY <1>1, <1>3
    <3>2. buf.slots[idx(Wire(ebase))].state = "Filled"
      BY <1>2, <1>8 DEF HeadDelivers, HeadSlot, Window
    <3> QED
      BY <1>1, <1>2, <3>1, <3>2, HeldIff, ZenonT(60)
  <2>3. Promise!HandOver
    BY <1>5, <1>7, <2>1, <2>2, ZenonT(60) DEF Promise!HandOver, Cursor, HeldIn
  <2> QED
    BY <1>1, <1>5, <2>3, ZenonT(60) DEF Promise!JNext, FInv
<1>9. CASE ~HeadDelivers(buf)
  <2>1. last' = last
    BY <1>9, Zenon DEF DrainTurn
  <2>2. ebase \notin HeldIn(buf)
    <3> SUFFICES ASSUME ebase \in HeldIn(buf) PROVE FALSE
      OBVIOUS
    <3>1. PICK i \in Ring : buf.slots[i].state = "Filled" /\ ebase = buf.slots[i].data
      BY DEF HeldIn, FilledIn
    <3>2. i = idx(Wire(ebase)) /\ buf.slots[i].seq = Wire(ebase)
      BY <1>2, <3>1 DEF Window, FilledOK
    <3> QED
      BY <1>2, <1>9, <3>1, <3>2, ZenonT(30) DEF HeadDelivers, HeadSlot, Window
  <2>3. HeldIn(buf') = HeldIn(buf)
    BY <1>5, <2>2
  <2>4. Promise!PassOver
    BY <1>7, <2>1, <2>2, <2>3, ZenonT(60) DEF Promise!PassOver, Cursor, HeldIn
  <2> QED
    BY <1>1, <1>5, <2>4 DEF Promise!JNext, FInv
<1> QED
  BY <1>8, <1>9, ZenonT(60)

\* Every step keeps the invariant and, until the far one, is a step of
\* JitterBuffer or leaves it alone.
LEMMA FNextInv ==
  ASSUME FInv, [FNext]_<<vars, far>>
  PROVE  FInv' /\ (far' \/ Promise!JNext \/ UNCHANGED <<Promise!jvars, far>>)
<1>1. Inv'
  <2>1. [Next]_vars
    BY DEF FNext
  <2> QED
    BY <2>1, NextInv DEF FInv
<1>2. far' \in BOOLEAN /\ (far => far')
  BY Zenon DEF FNext, FInv
<1>3. ASSUME NEW e \in 0 .. MaxExt, Arrive(e), ~far',
             far' = (far \/ (buf.started /\ ebase = ehigh + 1 /\ ehigh' > ehigh + Cap))
      PROVE  Whole(buf', ebase', ehigh') /\ (Promise!JNext \/ UNCHANGED Promise!jvars)
  BY <1>1, <1>3, ArriveWhole, ZenonT(30)
<1>4. ASSUME DrainBegin \/ DrainEnd \/ Tick \/ UNCHANGED vars
      PROVE  /\ ~far /\ buf'.started => Whole(buf', ebase', ehigh')
             /\ UNCHANGED Promise!jvars
  <2>1. buf' = buf /\ ebase' = ebase /\ ehigh' = ehigh /\ last' = last
    BY <1>4 DEF DrainBegin, DrainEnd, Tick, vars
  <2> QED
    BY <2>1 DEF FInv, Promise!jvars, FilledIn
<1>5. far' \/ ((buf'.started => Whole(buf', ebase', ehigh'))
               /\ (Promise!JNext \/ UNCHANGED Promise!jvars))
  <2> SUFFICES ASSUME ~far'
               PROVE  /\ buf'.started => Whole(buf', ebase', ehigh')
                      /\ Promise!JNext \/ UNCHANGED Promise!jvars
    OBVIOUS
  <2>1. ~far
    BY <1>2
  <2>2. CASE UNCHANGED <<vars, far>>
    BY <1>4, <2>1, <2>2, ZenonT(60)
  <2>3. CASE FNext
    <3>1. far' = (far \/ (buf.started /\ ebase = ehigh + 1 /\ ehigh' > ehigh + Cap)) /\ Next
      BY <2>3 DEF FNext
    <3>2. CASE DrainTurn
      BY <2>1, <3>2, DrainTurnWhole, ZenonT(60)
    <3> QED
      BY <1>3, <1>4, <2>1, <3>1, <3>2, ZenonT(60) DEF Next
  <2> QED
    BY <2>2, <2>3
<1>6. FInv'
  BY <1>1, <1>2, <1>5, ZenonT(60) DEF FInv
<1>7. ~far' => far' = far
  BY <1>2 DEF FInv
<1> QED
  BY <1>5, <1>6, <1>7

\* A payload of the window in the slot of ehigh is ehigh.
LEMMA WholeIsComplete == FInv => WindowWholeBeforeFar
<1> SUFFICES ASSUME FInv, ~far, buf.started
             PROVE  WindowComplete /\ FreshestHeld
  BY DEF WindowWholeBeforeFar, WindowComplete, FreshestHeld
<1>1. ebase \in Nat /\ ehigh \in Nat /\ buf \in Buffer /\ Window(buf, ebase, ehigh)
      /\ Whole(buf, ebase, ehigh)
  BY DEF FInv, Inv, TypeOK
<1>2. WindowComplete
  BY <1>1 DEF WindowComplete, Whole
<1>3. FreshestHeld
  <2> SUFFICES ASSUME ebase <= ehigh
               PROVE  /\ buf.slots[idx(Wire(ehigh))].state = "Filled"
                      /\ buf.slots[idx(Wire(ehigh))].data = ehigh
    BY DEF FreshestHeld
  <2>1. PICK i \in Ring : i = idx(Wire(ehigh))
    BY <1>1, WireType, IdxType, ZenonT(60)
  <2>2. buf.slots[i].state = "Filled"
    BY <1>1, <2>1 DEF Whole
  <2>3. PICK d \in Nat : d = buf.slots[i].data
    BY <1>1, Zenon DEF Buffer, Slot
  <2>4. ebase <= d /\ d <= ehigh /\ i = idx(Wire(d))
    BY <1>1, <2>2, <2>3, ZenonT(60) DEF Window, FilledOK
  <2>5. d < ebase + Cap /\ ehigh < ebase + Cap
    BY <1>1, <2>4, Constants DEF Window
  <2>6. d = ehigh
    BY <1>1, <2>1, <2>4, <2>5, SlotInjective, ZenonT(60)
  <2> QED
    BY <2>1, <2>2, <2>3, <2>6, ZenonT(60)
<1> QED
  BY <1>2, <1>3

LEMMA FInvAlways == FSpec => []FInv
<1>1. FInit => FInv
  <2> SUFFICES ASSUME FInit PROVE FInv
    OBVIOUS
  <2>1. ~buf.started
    BY DEF FInit, Init, NewBuffer
  <2> QED
    BY <2>1, InitInv, ZenonT(30) DEF FInit, FInv
<1>2. FInv /\ [FNext]_<<vars, far>> => FInv'
  BY FNextInv
<1> QED
  BY <1>1, <1>2, PTL DEF FSpec

\* Until an arrival passes over more than a ring into a buffer drained empty,
\* insert keeps every index of the window buffered or flagged, and the newest
\* packet buffered, for every ring, stream and pattern of loss.
THEOREM WindowStaysWhole == FSpec => []WindowWholeBeforeFar
BY FInvAlways, WholeIsComplete, PTL

\* Until then the ring implements JitterBuffer: insert keeps the fresh packet and
\* the tail, and drain_ready hands over exactly what is held, in order.
THEOREM RingKeepsPromise == FSpec => ImplementsPromise
<1>1. FInit => Promise!JInit
  <2> SUFFICES ASSUME FInit PROVE Promise!JInit
    OBVIOUS
  <2>1. ~buf.started /\ buf = NewBuffer /\ last = 0
    BY DEF FInit, Init, NewBuffer
  <2>2. HeldIn(buf) = {}
    BY <2>1, NewHeld
  <2> QED
    BY <2>1, <2>2, ZenonT(60) DEF Promise!JInit, HeldIn
<1>2. FInv /\ [FNext]_<<vars, far>> => [far' \/ Promise!JNext]_<<Promise!jvars, far>>
  BY FNextInv
<1> QED
  BY <1>1, <1>2, FInvAlways, PTL DEF FSpec, ImplementsPromise

-----------------------------------------------------------------------------
(* The loops of insert() *)

\* The sequence number k past a is the wire number of index a + k.
LEMMA NumberPast ==
  ASSUME NEW a \in SeqNos, NEW k \in 0 .. (M - 1)
  PROVE  Wire(a) = a /\ Wire(a + k) = wrapping_add(a, k)
<1>1. a \in Nat /\ a = M * 0 + a /\ a \in 0 .. (M - 1)
  BY Constants DEF SeqNos
<1>2. Wire(a) = a
  BY <1>1, Constants, ModUnique, SMTT(30) DEF Wire
<1> QED
  BY <1>1, <1>2, WireAdd, ZenonT(60)

\* The k-th number from s on falls on the one slot that is k ahead of s.
LEMMA AheadSlot ==
  ASSUME NEW s \in SeqNos, NEW k \in 0 .. (Cap - 1)
  PROVE  /\ idx(wrapping_add(s, k)) \in Ring
         /\ \A i \in Ring : Ahead(s, i) \in Ring
         /\ \A i \in Ring : Ahead(s, i) = k <=> i = idx(wrapping_add(s, k))
<1> DEFINE j == idx(wrapping_add(s, k))
<1>1. s \in Nat /\ k \in Nat /\ k \in 0 .. (M - 1) /\ s + k \in Nat
  BY Constants DEF SeqNos
<1>2. Wire(s) = s /\ Wire(s + k) = wrapping_add(s, k)
  BY <1>1, NumberPast
<1>3. j \in Ring /\ idx(s) \in Ring
  BY <1>1, <1>2, WireType, IdxType, ZenonT(60)
<1>4. Ahead(s, j) = k
  <2>1. Ahead(Wire(s), idx(Wire(s + k))) = (s + k) - s
    BY <1>1, Constants, AheadIsDistance
  <2> QED
    BY <1>1, <1>2, <2>1
<1> HIDE DEF j
<1>5. PICK r \in 0 .. (Cap - 1), q \in 0 .. (Cap - 1) : r = idx(s) /\ q = j
  BY <1>3 DEF Ring
<1>6. ASSUME NEW i \in Ring
      PROVE  Ahead(s, i) \in Ring /\ (Ahead(s, i) = Ahead(s, q) <=> i = q)
  BY <1>5, <1>6, Constants, SMTT(30) DEF Ahead, Ring
<1> QED
  BY <1>3, <1>4, <1>5, <1>6, ZenonT(60) DEF j

\* The three loops count in sets that gain at most one element in a turn.
LEMMA CountTurn ==
  ASSUME NEW S, IsFiniteSet(S), NEW x, x \notin S, NEW hit \in BOOLEAN
  PROVE  /\ Cardinality(S \cup (IF hit THEN {x} ELSE {})) = Plus1If(Cardinality(S), hit)
         /\ Cardinality(S) \in Nat
<1>1. Cardinality(S) \in Nat
  BY FS_CardinalityType
<1>2. CASE hit
  <2>1. Cardinality(S \cup {x}) = Cardinality(S) + 1
    BY FS_AddElement
  <2> QED
    BY <1>1, <1>2, <2>1, ZenonT(60) DEF Plus1If
<1>3. CASE ~hit
  <2>1. S \cup (IF hit THEN {x} ELSE {}) = S
    BY <1>3, Zenon
  <2> QED
    BY <1>1, <1>3, <2>1, SMTT(30) DEF Plus1If
<1> QED
  BY <1>1, <1>2, <1>3, ZenonT(60)

\* One turn of the minimal flush takes FlushOldest from k numbers to k + 1.
LEMMA FlushTurnIs ==
  ASSUME NEW b \in Buffer, NEW k \in 0 .. (Cap - 1)
  PROVE  [slots |-> FlushOldest(b, k + 1).slots, flushed |-> Cardinality(FlushedBy(b, k + 1))] =
         FlushTurn([slots |-> FlushOldest(b, k).slots, flushed |-> Cardinality(FlushedBy(b, k))],
                   b.base, k)
<1> DEFINE s == wrapping_add(b.base, k)
           j == idx(s)
           hit == b.slots[j].seq = s /\ b.slots[j].state = "Filled"
           A(n) == [i \in Ring |-> IF Ahead(b.base, i) < n THEN EmptySlot(0) ELSE b.slots[i]]
<1>1. b.base \in SeqNos /\ b.slots \in [Ring -> Slot]
  BY Zenon DEF Buffer
<1>2. /\ j \in Ring
      /\ \A i \in Ring : Ahead(b.base, i) \in Ring
      /\ \A i \in Ring : Ahead(b.base, i) = k <=> i = j
  BY <1>1, AheadSlot
<1>3. FlushOldest(b, k).slots = A(k) /\ FlushOldest(b, k + 1).slots = A(k + 1)
  BY DEF FlushOldest, Buffer
<1>4. \A i \in Ring : Ahead(b.base, i) < k + 1 <=> Ahead(b.base, i) < k \/ i = j
  <2>1. ASSUME NEW i \in Ring
        PROVE  Ahead(b.base, i) < k + 1 <=> Ahead(b.base, i) < k \/ i = j
    <3>1. PICK a \in 0 .. (Cap - 1) : a = Ahead(b.base, i)
      BY <1>2 DEF Ring
    <3>2. a < k + 1 <=> a < k \/ a = k
      BY <3>1, Constants
    <3> QED
      BY <1>2, <3>1, <3>2, ZenonT(60)
  <2> QED
    BY <2>1
<1>5. Ahead(b.base, j) = k /\ ~(Ahead(b.base, j) < k)
  BY <1>2, Constants
<1> HIDE DEF j, s
<1>6. A(k + 1) = [A(k) EXCEPT ![j] = EmptySlot(0)]
  BY <1>2, <1>4, ZenonT(30)
<1>7. A(k)[j] = b.slots[j]
  BY <1>2, <1>5
<1>8. /\ FlushedBy(b, k + 1) = FlushedBy(b, k) \cup (IF hit THEN {j} ELSE {})
      /\ j \notin FlushedBy(b, k)
  <2>1. ASSUME NEW i
        PROVE  i \in FlushedBy(b, k + 1) <=> i \in FlushedBy(b, k) \/ (hit /\ i = j)
    <3>1. CASE i = j
      BY <1>2, <1>4, <1>5, <3>1, ZenonT(60) DEF FlushedBy, FilledIn, s
    <3>2. CASE i # j
      BY <1>4, <3>2, ZenonT(60) DEF FlushedBy, FilledIn
    <3> QED
      BY <3>1, <3>2
  <2>2. j \notin FlushedBy(b, k)
    BY <1>5 DEF FlushedBy
  <2> HIDE DEF hit
  <2>3. FlushedBy(b, k + 1) = FlushedBy(b, k) \cup (IF hit THEN {j} ELSE {})
    BY <2>1
  <2> QED
    BY <2>2, <2>3
<1>9. IsFiniteSet(FlushedBy(b, k)) /\ hit \in BOOLEAN
  <2>1. FlushedBy(b, k) \subseteq 0 .. (Cap - 1) /\ IsFiniteSet(0 .. (Cap - 1))
    BY Constants, FS_Interval DEF FlushedBy, FilledIn, Ring
  <2> QED
    BY <2>1, FS_Subset, ZenonT(30)
<1>10. Cardinality(FlushedBy(b, k + 1)) = Plus1If(Cardinality(FlushedBy(b, k)), hit)
  <2> HIDE DEF hit
  <2> QED
    BY <1>8, <1>9, CountTurn
<1> HIDE DEF A
<1> QED
  BY <1>3, <1>6, <1>7, <1>10, ZenonT(60) DEF FlushTurn, s, j

\* The minimal flush, turn by turn, is FlushOldest with its count.
LEMMA FlushLoopIs ==
  ASSUME NEW b \in Buffer, NEW n \in 0 .. Cap
  PROVE  FlushLoop(b.slots, b.base, n) =
         [slots |-> FlushOldest(b, n).slots, flushed |-> Cardinality(FlushedBy(b, n))]
<1> DEFINE C(i) == [slots |-> FlushOldest(b, i).slots, flushed |-> Cardinality(FlushedBy(b, i))]
           Zero == [slots |-> b.slots, flushed |-> 0]
           Is(f) == f = [i \in 0 .. n |-> IF i = 0 THEN Zero ELSE FlushTurn(f[i - 1], b.base, i - 1)]
           c == [i \in 0 .. n |-> C(i)]
<1>1. C(0) = Zero
  <2>1. \A i \in Ring : Ahead(b.base, i) \in 0 .. (Cap - 1)
    BY Constants, AheadSlot, ZenonT(60) DEF Buffer, Ring
  <2>2. \A i \in Ring : ~(Ahead(b.base, i) < 0)
    BY <2>1
  <2>3. FlushOldest(b, 0).slots = b.slots
    BY <2>2 DEF FlushOldest, Buffer
  <2>4. FlushedBy(b, 0) = {}
    BY <2>2 DEF FlushedBy, FilledIn
  <2> QED
    BY <2>3, <2>4, FS_EmptySet, ZenonT(60)
<1>2. \A i \in 1 .. n : C(i) = FlushTurn(C(i - 1), b.base, i - 1)
  <2>1. ASSUME NEW i \in 1 .. n
        PROVE  C(i) = FlushTurn(C(i - 1), b.base, i - 1)
    <3>1. i - 1 \in 0 .. (Cap - 1) /\ (i - 1) + 1 = i
      BY Constants
    <3> QED
      BY <3>1, FlushTurnIs
  <2> QED
    BY <2>1
<1> HIDE DEF C, Zero
<1>3. Is(c)
  BY <1>1, <1>2
<1>4. ASSUME NEW f, Is(f)
      PROVE  f[n] = C(n)
  <2> DEFINE S == {i \in 0 .. n : f[i] = C(i)}
  <2>1. 0 \in S
    BY <1>1, <1>4
  <2>2. ASSUME NEW i \in 0 .. (n - 1), i \in S
        PROVE  i + 1 \in S
    <3>1. i + 1 \in 1 .. n /\ i + 1 \in 0 .. n /\ (i + 1) - 1 = i /\ i + 1 # 0
      BY Constants
    <3>2. f[i + 1] = FlushTurn(f[i], b.base, i)
      BY <1>4, <3>1
    <3>3. C(i + 1) = FlushTurn(C(i), b.base, i)
      BY <1>2, <3>1
    <3> QED
      BY <2>2, <3>1, <3>2, <3>3, ZenonT(60)
  <2> HIDE DEF S
  <2>3. n \in Nat /\ n \in 0 .. n
    BY Constants
  <2>4. 0 .. n \subseteq S
    BY <2>1, <2>2, <2>3, UpTo, ZenonT(60)
  <2> QED
    BY <2>3, <2>4 DEF S
<1> DEFINE after == CHOOSE f : Is(f)
<1>5. FlushLoop(b.slots, b.base, n) = after[n]
  BY DEF FlushLoop, Zero
<1> HIDE DEF Is
<1>6. Is(after)
  BY <1>3
<1> HIDE DEF after
<1>7. after[n] = C(n)
  BY <1>4, <1>6, ZenonT(60)
<1> QED
  BY <1>5, <1>7 DEF C

\* What the first k turns of the reset have cleared.
ClearedTo(b, k) ==
  [slots |-> [i \in Ring |-> IF i < k THEN EmptySlot(0) ELSE b.slots[i]],
   flushed |-> Cardinality({i \in FilledIn(b) : i < k})]

\* One turn of the reset clears one more slot.
LEMMA ClearTurnIs ==
  ASSUME NEW b \in Buffer, NEW k \in Ring
  PROVE  ClearedTo(b, k + 1) = ClearTurn(ClearedTo(b, k), k)
<1> DEFINE F(n) == {i \in FilledIn(b) : i < n}
           A(n) == [i \in Ring |-> IF i < n THEN EmptySlot(0) ELSE b.slots[i]]
           hit == b.slots[k].state = "Filled"
<1>1. \A i \in Ring : i < k + 1 <=> i < k \/ i = k
  BY Constants DEF Ring
<1>2. ~(k < k)
  BY Constants DEF Ring
<1>3. A(k + 1) = [A(k) EXCEPT ![k] = EmptySlot(0)]
  BY <1>1, Zenon
<1>4. A(k)[k] = b.slots[k]
  BY <1>2
<1>5. F(k + 1) = F(k) \cup (IF hit THEN {k} ELSE {}) /\ k \notin F(k)
  BY <1>1, <1>2 DEF FilledIn
<1>6. IsFiniteSet(F(k)) /\ hit \in BOOLEAN
  <2>1. F(k) \subseteq 0 .. (Cap - 1) /\ IsFiniteSet(0 .. (Cap - 1))
    BY Constants, FS_Interval DEF FilledIn, Ring
  <2> QED
    BY <2>1, FS_Subset, ZenonT(30)
<1> HIDE DEF hit
<1>7. Cardinality(F(k + 1)) = Plus1If(Cardinality(F(k)), hit)
  BY <1>5, <1>6, CountTurn
<1>8. \A n : ClearedTo(b, n) = [slots |-> A(n), flushed |-> Cardinality(F(n))]
  BY DEF ClearedTo
<1> HIDE DEF A, F
<1> QED
  BY <1>3, <1>4, <1>7, <1>8, SMTT(30) DEF ClearTurn, hit

\* The reset, turn by turn, clears every slot and counts every packet.
LEMMA ClearLoopIs ==
  ASSUME NEW b \in Buffer
  PROVE  ClearLoop(b.slots) =
         [slots |-> [i \in Ring |-> EmptySlot(0)], flushed |-> Cardinality(FilledIn(b))]
<1> DEFINE C(i) == ClearedTo(b, i)
           Zero == [slots |-> b.slots, flushed |-> 0]
           Is(f) == f = [i \in 0 .. Cap |-> IF i = 0 THEN Zero ELSE ClearTurn(f[i - 1], i - 1)]
           c == [i \in 0 .. Cap |-> C(i)]
<1>1. C(0) = Zero
  <2>1. \A i \in Ring : ~(i < 0)
    BY DEF Ring
  <2>2. [i \in Ring |-> IF i < 0 THEN EmptySlot(0) ELSE b.slots[i]] = b.slots
    BY <2>1 DEF Buffer
  <2>3. {i \in FilledIn(b) : i < 0} = {}
    BY <2>1 DEF FilledIn
  <2> QED
    BY <2>2, <2>3, FS_EmptySet DEF ClearedTo
<1>2. \A i \in 1 .. Cap : C(i) = ClearTurn(C(i - 1), i - 1)
  <2>1. ASSUME NEW i \in 1 .. Cap
        PROVE  C(i) = ClearTurn(C(i - 1), i - 1)
    <3>1. i - 1 \in Ring /\ (i - 1) + 1 = i
      BY Constants DEF Ring
    <3> QED
      BY <3>1, ClearTurnIs
  <2> QED
    BY <2>1
<1>3. C(Cap) = [slots |-> [i \in Ring |-> EmptySlot(0)], flushed |-> Cardinality(FilledIn(b))]
  <2>1. \A i \in Ring : i < Cap
    BY Constants DEF Ring
  <2>2. {i \in FilledIn(b) : i < Cap} = FilledIn(b)
    BY <2>1 DEF FilledIn
  <2>3. [i \in Ring |-> IF i < Cap THEN EmptySlot(0) ELSE b.slots[i]] = [i \in Ring |-> EmptySlot(0)]
    BY <2>1
  <2> QED
    BY <2>2, <2>3 DEF ClearedTo
<1> HIDE DEF C, Zero
<1>4. Is(c)
  BY <1>1, <1>2, Constants
<1>5. ASSUME NEW f, Is(f)
      PROVE  f[Cap] = C(Cap)
  <2> DEFINE S == {i \in 0 .. Cap : f[i] = C(i)}
  <2>1. 0 \in S
    BY <1>1, <1>5, Constants, SMTT(30)
  <2>2. ASSUME NEW i \in 0 .. (Cap - 1), i \in S
        PROVE  i + 1 \in S
    <3>1. i + 1 \in 1 .. Cap /\ i + 1 \in 0 .. Cap /\ (i + 1) - 1 = i /\ i + 1 # 0
      BY Constants
    <3>2. f[i + 1] = ClearTurn(f[i], i)
      BY <1>5, <3>1, ZenonT(60)
    <3>3. C(i + 1) = ClearTurn(C(i), i)
      BY <1>2, <3>1
    <3> QED
      BY <2>2, <3>1, <3>2, <3>3, ZenonT(60)
  <2> HIDE DEF S
  <2>3. Cap \in Nat /\ Cap \in 0 .. Cap
    BY Constants
  <2>4. 0 .. Cap \subseteq S
    BY <2>1, <2>2, <2>3, UpTo
  <2> QED
    BY <2>3, <2>4 DEF S
<1> DEFINE after == CHOOSE f : Is(f)
<1>6. ClearLoop(b.slots) = after[Cap]
  BY DEF ClearLoop, Zero
<1> HIDE DEF Is
<1>7. Is(after)
  BY <1>4
<1> HIDE DEF after
<1> QED
  BY <1>3, <1>5, <1>6, <1>7, ZenonT(60)

\* Ring indices and their distances back from a number.
LEMMA BehindSteps ==
  ASSUME NEW x \in Nat
  PROVE  /\ idx(Wire(x)) \in Ring
         /\ \A i \in Ring : Behind(Wire(x), i) \in 1 .. Cap
         /\ Behind(Wire(x), idx(Wire(x))) = Cap
         /\ Behind(Wire(x + 1), idx(Wire(x))) = 1
         /\ \A i \in Ring : i # idx(Wire(x)) => Behind(Wire(x + 1), i) = Behind(Wire(x), i) + 1
<1>1. idx(Wire(x)) \in Ring /\ idx(Wire(x + 1)) \in Ring
  BY WireType, IdxType
<1>2. Behind(Wire(x + 1), idx(Wire(x))) = (x + 1) - x
  BY Constants, BehindIsDistance
<1>3. PICK q \in 0 .. (Cap - 1), p \in 0 .. (Cap - 1) : q = idx(Wire(x)) /\ p = idx(Wire(x + 1))
  BY <1>1 DEF Ring
<1>4. IF q < p THEN p - q = 1 ELSE p - q + Cap = 1
  BY <1>2, <1>3, Constants DEF Behind
<1>5. \A i \in Ring : Behind(Wire(x), i) \in 1 .. Cap
  BY <1>3, Constants DEF Behind, Ring
<1>6. Behind(Wire(x), idx(Wire(x))) = Cap
  BY <1>3, Constants DEF Behind
<1>7. ASSUME NEW i \in Ring, i # q
      PROVE  Behind(Wire(x + 1), i) = Behind(Wire(x), i) + 1
  <2>1. PICK j \in 0 .. (Cap - 1) : j = i
    BY DEF Ring
  <2> QED
    BY <1>3, <1>4, <1>7, <2>1, Constants, SMTT(30) DEF Behind
<1> QED
  BY <1>1, <1>2, <1>3, <1>5, <1>6, <1>7, SMTT(30)

\* The ring once the gaps h+1 .. h+m have been flagged: k slots back from
\* h+m+1 is the last of them that falls on slot i.
Flagged(slots, h, m, t) ==
  [i \in Ring |->
    LET k == Behind(Wire(h + m + 1), i)
        g == wrapping_sub(Wire(h + m + 1), k)
        replace == slots[i].state = "Empty" \/ slots[i].seq # g \/ k + Cap < m + 1
    IN  IF k < m + 1 /\ replace THEN GapSlot(g, t) ELSE slots[i]]

\* The number k back from index x + k.
LEMMA NumberBack ==
  ASSUME NEW x \in Nat, NEW k \in 1 .. Cap
  PROVE  wrapping_sub(Wire(x + k), k) = Wire(x)
<1>1. k \in 0 .. (M - 1)
  BY Constants, SMTT(30)
<1> QED
  BY <1>1, WireBack

\* Flagging the next number changes its own slot alone, and replaces there
\* exactly what the turn of the loop replaces.
LEMMA GapTurnIs ==
  ASSUME NEW slots \in [Ring -> Slot], NEW h \in SeqNos, NEW s \in SeqNos, NEW t \in Nat,
         NEW m \in Nat, m + 1 < Half, wrapping_add(h, m + 1) # s
  PROVE  Flagged(slots, h, m + 1, t) = GapTurn(Flagged(slots, h, m, t), h, s, m + 1, t)
<1> DEFINE x == h + m + 1
           g == Wire(x)
           j == idx(g)
           A == Flagged(slots, h, m, t)
           Z == Flagged(slots, h, m + 1, t)
           replace == A[j].state = "Empty" \/ A[j].seq # g
<1>1. h \in Nat /\ x \in Nat /\ x = h + (m + 1) /\ x + 1 = h + (m + 1) + 1 /\ m + 1 \in 0 .. (M - 1)
  BY Constants DEF SeqNos
<1>2. wrapping_add(h, m + 1) = g
  BY <1>1, NumberPast, Zenon
<1>3. /\ j \in Ring
      /\ \A i \in Ring : Behind(Wire(x), i) \in 1 .. Cap
      /\ Behind(Wire(x), j) = Cap
      /\ Behind(Wire(x + 1), j) = 1
      /\ \A i \in Ring : i # j => Behind(Wire(x + 1), i) = Behind(Wire(x), i) + 1
  BY <1>1, BehindSteps, ZenonT(30)
<1> HIDE DEF x
<1>4. ASSUME NEW i \in Ring, i # j
      PROVE  Z[i] = A[i]
  <2>1. PICK k \in 1 .. Cap : k = Behind(Wire(x), i) /\ k + 1 = Behind(Wire(x + 1), i)
    BY <1>3, <1>4
  <2>2. CASE k < m + 1
    <3>1. PICK y \in Nat : x = y + k
      <4>1. x - k \in Nat /\ x = (x - k) + k
        BY <1>1, <2>1, <2>2, Constants, SMTT(30)
      <4> QED
        BY <4>1
    <3>2. wrapping_sub(Wire(x), k) = Wire(y)
      BY <3>1, NumberBack, ZenonT(60)
    <3>3. k + 1 \in 0 .. (M - 1) /\ x + 1 = y + (k + 1)
      BY <2>1, <3>1, Constants, SMTT(30)
    <3>4. wrapping_sub(Wire(x + 1), k + 1) = Wire(y)
      BY <3>3, WireBack, ZenonT(60)
    <3>5. A[i] = IF slots[i].state = "Empty" \/ slots[i].seq # Wire(y) \/ k + Cap < m + 1
                 THEN GapSlot(Wire(y), t) ELSE slots[i]
      BY <2>1, <2>2, <3>2, ZenonT(60) DEF Flagged, x
    <3>6. k + 1 < (m + 1) + 1 /\ ((k + 1) + Cap < (m + 1) + 1 <=> k + Cap < m + 1)
      BY <2>1, <2>2, Constants, SMTT(30)
    <3>7. Z[i] = IF slots[i].state = "Empty" \/ slots[i].seq # Wire(y) \/ k + Cap < m + 1
                 THEN GapSlot(Wire(y), t) ELSE slots[i]
      BY <1>1, <2>1, <3>4, <3>6, ZenonT(60) DEF Flagged
    <3> QED
      BY <3>5, <3>7
  <2>3. CASE ~(k < m + 1)
    <3>1. ~(k + 1 < (m + 1) + 1)
      BY <2>1, <2>3, Constants, SMTT(30)
    <3>2. A[i] = slots[i]
      BY <2>1, <2>3, ZenonT(60) DEF Flagged, x
    <3>3. Z[i] = slots[i]
      BY <1>1, <2>1, <3>1, ZenonT(60) DEF Flagged
    <3> QED
      BY <3>2, <3>3, ZenonT(60)
  <2> QED
    BY <2>2, <2>3
<1>5. Z[j] = IF replace THEN GapSlot(g, t) ELSE A[j]
  <2>1. wrapping_sub(Wire(x + 1), 1) = g
    BY <1>1, Constants, NumberBack, SMTT(30)
  <2>2. 1 < (m + 1) + 1 /\ (1 + Cap < (m + 1) + 1 <=> Cap < m + 1)
    BY Constants, SMTT(30)
  <2>3. Z[j] = IF slots[j].state = "Empty" \/ slots[j].seq # g \/ Cap < m + 1
               THEN GapSlot(g, t) ELSE slots[j]
    BY <1>1, <1>3, <2>1, <2>2, ZenonT(60) DEF Flagged
  <2>4. CASE Cap < m + 1
    <3>1. PICK y \in Nat : x = y + Cap
      BY <1>1, <2>4, Constants, SMTT(30)
    <3>2. wrapping_sub(Wire(x), Cap) = Wire(y)
      BY <3>1, Constants, NumberBack, SMTT(30)
    <3>3. Wire(y) # g
      BY <3>1, Constants, WireInjective, SMTT(30)
    <3>4. A[j] = GapSlot(Wire(y), t) \/ (A[j] = slots[j] /\ slots[j].seq = Wire(y))
      BY <1>3, <2>4, <3>2, ZenonT(60) DEF Flagged, x
    <3>5. A[j].seq # g
      BY <3>3, <3>4, SMTT(30) DEF GapSlot
    <3> QED
      BY <2>3, <2>4, <3>5, ZenonT(60)
  <2>5. CASE ~(Cap < m + 1)
    <3>1. A[j] = slots[j]
      BY <1>3, <2>5, ZenonT(60) DEF Flagged, x
    <3> QED
      BY <2>3, <2>5, <3>1, ZenonT(60)
  <2> QED
    BY <2>4, <2>5, Zenon
<1>6. Z = [i \in Ring |-> Z[i]] /\ A = [i \in Ring |-> A[i]]
  BY DEF Flagged
<1>7. Z = IF replace THEN [A EXCEPT ![j] = GapSlot(g, t)] ELSE A
  <2> HIDE DEF Z, A, j, g
  <2>1. CASE A[j].state = "Empty" \/ A[j].seq # g
    <3>1. Z = [i \in Ring |-> IF i = j THEN GapSlot(g, t) ELSE A[i]]
      BY <1>4, <1>5, <1>6, <2>1, ZenonT(60)
    <3> QED
      BY <1>6, <2>1, <3>1, ZenonT(60)
  <2>2. CASE ~(A[j].state = "Empty" \/ A[j].seq # g)
    <3>1. \A i \in Ring : Z[i] = A[i]
      BY <1>4, <1>5, <2>2
    <3> QED
      BY <1>6, <2>2, <3>1, ZenonT(60)
  <2> QED
    BY <2>1, <2>2
<1> HIDE DEF A, Z, g
<1>8. g # s
  BY <1>2
<1>9. GapTurn(A, h, s, m + 1, t) = IF g # s /\ replace THEN [A EXCEPT ![j] = GapSlot(g, t)] ELSE A
  BY <1>2, ZenonT(60) DEF GapTurn
<1> QED
  BY <1>7, <1>8, <1>9, SMTT(30) DEF A, Z

\* A positive diff is the number of turns from h up to s and to nothing before.
LEMMA TurnsTo ==
  ASSUME NEW h \in SeqNos, NEW s \in SeqNos, diff(h, s) > 0
  PROVE  /\ diff(h, s) \in 1 .. (Half - 1)
         /\ wrapping_add(h, diff(h, s)) = s
         /\ \A i \in 1 .. (diff(h, s) - 1) : wrapping_add(h, i) # s
<1>1. PICK a \in 0 .. (M - 1), c \in 0 .. (M - 1) : a = h /\ c = s
  BY DEF SeqNos
<1>2. PICK n \in 1 .. (Half - 1) : n = diff(h, s) /\ (c = a + n \/ c = a + n - M)
  <2>1. diff(a, c) > 0
    BY <1>1, ZenonT(60)
  <2>2. diff(a, c) \in 1 .. (Half - 1) /\ (c = a + diff(a, c) \/ c = a + diff(a, c) - M)
    BY <2>1, Constants, SMTT(30) DEF diff, as_i16, wrapping_sub
  <2> QED
    BY <1>1, <2>2
<1>3. wrapping_add(a, n) = c
  BY <1>1, <1>2, Constants, SMTT(30) DEF wrapping_add
<1>4. \A i \in 1 .. (n - 1) : wrapping_add(a, i) # c
  BY <1>1, <1>2, Constants, SMTT(30) DEF wrapping_add
<1> QED
  BY <1>1, <1>2, <1>3, <1>4

\* The gaps, turn by turn, are those of ExtendTo.
LEMMA GapLoopIs ==
  ASSUME NEW slots \in [Ring -> Slot], NEW h \in SeqNos, NEW s \in SeqNos, NEW t \in Nat,
         diff(h, s) > 0
  PROVE  GapLoop(slots, h, s, t) = Flagged(slots, h, diff(h, s) - 1, t)
<1> DEFINE n == diff(h, s)
           C(i) == Flagged(slots, h, IF i < n THEN i ELSE n - 1, t)
           Is(f) == f = [i \in 0 .. n |-> IF i = 0 THEN slots ELSE GapTurn(f[i - 1], h, s, i, t)]
           c == [i \in 0 .. n |-> C(i)]
           after == CHOOSE f : Is(f)
<1>1. GapLoop(slots, h, s, t) = after[n]
  BY DEF GapLoop
<1>2. /\ n \in 1 .. (Half - 1)
      /\ wrapping_add(h, n) = s
      /\ \A i \in 1 .. (n - 1) : wrapping_add(h, i) # s
  BY TurnsTo
<1> HIDE DEF n
<1>3. n \in Nat /\ n \in 0 .. n /\ 0 < n /\ ~(n < n)
  BY <1>2, Constants, SMTT(30)
<1>4. C(0) = slots
  <2>1. h + 0 + 1 \in Nat
    BY Constants DEF SeqNos
  <2>2. \A i \in Ring : Behind(Wire(h + 0 + 1), i) \in 1 .. Cap
    BY <2>1, BehindSteps, ZenonT(60)
  <2>3. \A i \in Ring : ~(Behind(Wire(h + 0 + 1), i) < 0 + 1)
    BY <2>2, Constants, SMTT(30)
  <2>4. Flagged(slots, h, 0, t) = slots
    BY <2>3, ZenonT(60) DEF Flagged
  <2> QED
    BY <1>3, <2>4, ZenonT(60)
<1>5. ASSUME NEW i \in 1 .. n
      PROVE  C(i) = GapTurn(C(i - 1), h, s, i, t)
  <2>1. i \in Nat /\ i - 1 \in Nat /\ (i - 1) + 1 = i /\ i - 1 < n /\ i < Half
    BY <1>2, Constants
  <2>2. C(i - 1) = Flagged(slots, h, i - 1, t)
    BY <2>1
  <2>3. CASE i < n
    <3>1. i \in 1 .. (n - 1)
      BY <2>1, <2>3, <1>3
    <3>2. wrapping_add(h, (i - 1) + 1) # s
      BY <1>2, <2>1, <3>1, ZenonT(60)
    <3>3. Flagged(slots, h, (i - 1) + 1, t) = GapTurn(Flagged(slots, h, i - 1, t), h, s, (i - 1) + 1, t)
      <4>1. (i - 1) + 1 < Half
        BY <2>1
      <4> QED
        BY <2>1, <3>2, <4>1, GapTurnIs, ZenonT(60)
    <3> QED
      BY <2>1, <2>2, <2>3, <3>3, ZenonT(60)
  <2>4. CASE i = n
    <3>1. C(i) = Flagged(slots, h, i - 1, t)
      BY <1>3, <2>4
    <3>2. \A x : GapTurn(x, h, s, i, t) = x
      BY <1>2, <2>4 DEF GapTurn
    <3> QED
      BY <2>2, <3>1, <3>2, SMTT(30)
  <2> QED
    BY <1>3, <2>1, <2>3, <2>4, SMTT(30)
<1>6. C(n) = Flagged(slots, h, n - 1, t)
  BY <1>3
<1> HIDE DEF C
<1>7. Is(c)
  BY <1>3, <1>4, <1>5
<1>8. ASSUME NEW f, Is(f)
      PROVE  f[n] = C(n)
  <2> DEFINE S == {i \in 0 .. n : f[i] = C(i)}
  <2>1. 0 \in S
    BY <1>3, <1>4, <1>8, SMTT(30)
  <2>2. ASSUME NEW i \in 0 .. (n - 1), i \in S
        PROVE  i + 1 \in S
    <3>1. i + 1 \in 1 .. n /\ i + 1 \in 0 .. n /\ (i + 1) - 1 = i /\ i + 1 # 0
      BY <1>3
    <3>2. f[i + 1] = GapTurn(f[i], h, s, i + 1, t)
      BY <1>8, <3>1, ZenonT(60)
    <3>3. C(i + 1) = GapTurn(C(i), h, s, i + 1, t)
      BY <1>5, <3>1
    <3> QED
      BY <2>2, <3>1, <3>2, <3>3, ZenonT(60)
  <2> HIDE DEF S
  <2>3. 0 .. n \subseteq S
    BY <1>3, <2>1, <2>2, UpTo
  <2> QED
    BY <1>3, <2>3 DEF S
<1> HIDE DEF Is
<1>9. Is(after)
  BY <1>7
<1> HIDE DEF after
<1>10. after[n] = C(n)
  BY <1>8, <1>9
<1> QED
  BY <1>1, <1>6, <1>10, ZenonT(60) DEF n

\* From the duplicate test on, loop and closed form agree.
LEMMA StoreIs ==
  ASSUME NEW b \in Buffer, NEW s \in SeqNos, NEW d \in Nat, NEW t \in Nat
  PROVE  LoopStore(b, s, d, t) =
         IF b.slots[idx(s)].seq = s /\ b.slots[idx(s)].state = "Filled" THEN b
         ELSE ExtendTo([b EXCEPT !.slots[idx(s)] = FilledSlot(s, d, t)], s, t)
<1> DEFINE x == [b EXCEPT !.slots[idx(s)] = FilledSlot(s, d, t)]
           n == diff(b.highest, s)
<1>1. /\ b.highest \in SeqNos
      /\ x.slots \in [Ring -> Slot] /\ x.highest = b.highest
  BY IdxType, SlotTypes DEF Buffer
<1>2. CASE n > 0
  <2>1. /\ n \in 1 .. (Half - 1) /\ n - 1 \in Nat
        /\ wrapping_add(b.highest, n) = s
    BY <1>1, <1>2, Constants, TurnsTo
  <2>2. GapLoop(x.slots, b.highest, s, t) = Flagged(x.slots, b.highest, n - 1, t)
    BY <1>1, <1>2, GapLoopIs
  <2>3. Wire(b.highest + (n - 1) + 1) = s /\ (n - 1) + 1 = n
    <3>1. n \in 0 .. (M - 1) /\ b.highest + (n - 1) + 1 = b.highest + n /\ (n - 1) + 1 = n
      BY <1>1, <2>1, Constants, SMTT(30) DEF SeqNos
    <3> QED
      BY <1>1, <2>1, <3>1, NumberPast, ZenonT(60)
  <2> HIDE DEF x, n
  <2> DEFINE Marked(i) ==
               LET k == Behind(s, i)
                   g == wrapping_sub(s, k)
                   replace == x.slots[i].state = "Empty" \/ x.slots[i].seq # g \/ k + Cap < n
               IN  IF k < n /\ replace THEN GapSlot(g, t) ELSE x.slots[i]
  <2>4. ExtendTo(x, s, t) = [x EXCEPT !.slots = [i \in Ring |-> Marked(i)], !.highest = s]
    BY <1>1, <1>2, Zenon DEF ExtendTo, n
  <2>5. Flagged(x.slots, b.highest, n - 1, t) = [i \in Ring |-> Marked(i)]
    BY <2>3 DEF Flagged
  <2> HIDE DEF Marked
  <2> QED
    BY <1>2, <2>2, <2>4, <2>5, ZenonT(60) DEF LoopStore, x, n
<1>3. CASE ~(n > 0)
  <2>1. ExtendTo(x, s, t) = x
    BY <1>1, <1>3, ZenonT(60) DEF ExtendTo
  <2> QED
    BY <1>3, <2>1 DEF LoopStore
<1> QED
  BY <1>2, <1>3

\* For every ring, number, payload and time, the closed forms are the loops.
LEMMA InsertIs ==
  ASSUME NEW b \in Buffer, NEW s \in SeqNos, NEW d \in Nat, NEW t \in Nat
  PROVE  /\ Insert(b, s, d, t) = LoopInsert(b, s, d, t).buf
         /\ OverflowFlushed(b, s) = LoopInsert(b, s, d, t).flushed
<1> DEFINE f == Fitted(b, s)
           L == LoopInsert(b, s, d, t)
           n == Advance(b, s)
<1>1. CASE ~b.started
  <2>1. ~Resets(b, s) /\ ~Overflows(b, s) /\ ~IsStale(b, s)
    BY <1>1 DEF Resets, Overflows, IsStale
  <2>2. L = [buf |-> Anchor(b.slots, s, d, t), flushed |-> 0]
    BY <1>1, <2>1 DEF LoopInsert
  <2>3. Insert(b, s, d, t) = Anchor(b.slots, s, d, t)
    BY <1>1, <2>1, ZenonT(60) DEF Insert, IsDuplicate
  <2> QED
    BY <2>1, <2>2, <2>3, SMTT(30) DEF OverflowFlushed
<1>2. CASE b.started /\ IsStale(b, s)
  <2>1. ~Resets(b, s) /\ ~Overflows(b, s)
    BY <1>2 DEF Resets, Overflows
  <2>2. L = [buf |-> b, flushed |-> 0]
    BY <1>2, <2>1 DEF LoopInsert
  <2>3. Insert(b, s, d, t) = b
    BY <1>2, <2>1, ZenonT(60) DEF Insert, IsDuplicate
  <2> QED
    BY <2>1, <2>2, <2>3, SMTT(30) DEF OverflowFlushed
<1>3. CASE b.started /\ ~IsStale(b, s) /\ Resets(b, s)
  <2> DEFINE fresh == Anchor([i \in Ring |-> EmptySlot(0)], s, d, t)
  <2>1. L = [buf |-> fresh, flushed |-> Cardinality(FilledIn(b))]
    <3>1. L = [buf |-> Anchor(ClearLoop(b.slots).slots, s, d, t), flushed |-> ClearLoop(b.slots).flushed]
      BY <1>3 DEF LoopInsert
    <3>2. /\ ClearLoop(b.slots).slots = [i \in Ring |-> EmptySlot(0)]
          /\ ClearLoop(b.slots).flushed = Cardinality(FilledIn(b))
      <4>1. PICK c : c = ClearLoop(b.slots)
        OBVIOUS
      <4>2. c = [slots |-> [i \in Ring |-> EmptySlot(0)], flushed |-> Cardinality(FilledIn(b))]
        BY <4>1, ClearLoopIs, ZenonT(60)
      <4>3. c.slots = [i \in Ring |-> EmptySlot(0)] /\ c.flushed = Cardinality(FilledIn(b))
        BY <4>2
      <4> QED
        BY <4>1, <4>3
    <3> QED
      BY <3>1, <3>2
  <2>2. Insert(b, s, d, t) = fresh
    BY <1>3, ZenonT(60) DEF Insert, IsDuplicate
  <2> QED
    BY <1>3, <2>1, <2>2, SMTT(30) DEF OverflowFlushed
<1>4. CASE b.started /\ ~IsStale(b, s) /\ ~Resets(b, s) /\ Overflows(b, s)
  <2>1. n \in 0 .. Cap
    <3>1. b.base \in SeqNos
      BY DEF Buffer
    <3>2. n > 0 /\ ~(n >= Cap)
      BY <1>4 DEF Resets, Overflows
    <3>3. n \in Int
      BY <3>1, Constants, SMTT(30) DEF Advance, wrapping_sub, SeqNos
    <3> QED
      BY <3>2, <3>3, Constants, SMTT(30)
  <2>2. f = FlushOldest(b, n)
    BY <1>4 DEF Fitted
  <2>3. f = [b EXCEPT !.slots = FlushOldest(b, n).slots, !.base = wrapping_add(b.base, n)]
    BY <2>2, Zenon DEF FlushOldest, Buffer
  <2>4. f \in Buffer
    <3>1. FlushOldest(b, n).slots \in [Ring -> Slot]
      <4>1. EmptySlot(0) \in Slot
        BY Constants, SlotTypes, SMTT(30) DEF SeqNos
      <4> QED
        BY <4>1 DEF FlushOldest, Buffer
    <3>2. wrapping_add(b.base, n) \in SeqNos
      BY <2>1, Constants, SMTT(30) DEF wrapping_add, SeqNos, Buffer
    <3> QED
      BY <2>3, <3>1, <3>2, ZenonT(60) DEF Buffer
  <2>5. FlushLoop(b.slots, b.base, n) =
          [slots |-> FlushOldest(b, n).slots, flushed |-> Cardinality(FlushedBy(b, n))]
    BY <2>1, FlushLoopIs, ZenonT(60)
  <2>6. L = [buf |-> LoopStore(f, s, d, t), flushed |-> Cardinality(FlushedBy(b, n))]
    BY <1>4, <2>3, <2>5, SMTT(30) DEF LoopInsert
  <2>7. IsDuplicate(b, s) <=> f.slots[idx(s)].seq = s /\ f.slots[idx(s)].state = "Filled"
    BY <1>4 DEF IsDuplicate
  <2>8. Insert(b, s, d, t) = LoopStore(f, s, d, t)
    <3> HIDE DEF f
    <3>1. Insert(b, s, d, t) = IF IsDuplicate(b, s) THEN f
            ELSE ExtendTo([f EXCEPT !.slots[idx(s)] = FilledSlot(s, d, t)], s, t)
      BY <1>4, ZenonT(60) DEF Insert, f
    <3> QED
      BY <2>4, <2>7, <3>1, StoreIs, SMTT(30)
  <2> QED
    BY <1>4, <2>6, <2>8, SMTT(30) DEF OverflowFlushed
<1>5. CASE b.started /\ ~IsStale(b, s) /\ ~Resets(b, s) /\ ~Overflows(b, s)
  <2>1. L = [buf |-> LoopStore(b, s, d, t), flushed |-> 0]
    BY <1>5 DEF LoopInsert
  <2>2. Fitted(b, s) = b
    BY <1>5, ZenonT(60) DEF Fitted
  <2>3. IsDuplicate(b, s) <=> b.slots[idx(s)].seq = s /\ b.slots[idx(s)].state = "Filled"
    BY <1>5, <2>2 DEF IsDuplicate
  <2>4. Insert(b, s, d, t) = IF IsDuplicate(b, s) THEN b
          ELSE ExtendTo([b EXCEPT !.slots[idx(s)] = FilledSlot(s, d, t)], s, t)
    BY <1>5, <2>2, ZenonT(60) DEF Insert
  <2>5. Insert(b, s, d, t) = LoopStore(b, s, d, t)
    BY <2>3, <2>4, StoreIs, SMTT(30)
  <2> QED
    BY <1>5, <2>1, <2>5, SMTT(30) DEF OverflowFlushed
<1> QED
  BY <1>1, <1>2, <1>3, <1>4, <1>5, ZenonT(60)

\* What the model's insert computes in one expression is what the loops of
\* insert() compute turn by turn, for every ring, stream and arrival.
THEOREM ClosedFormsAreTheLoops == Spec => []InsertIsTheLoop
<1>1. TypeOK => InsertIsTheLoop
  <2> SUFFICES ASSUME TypeOK, NEW e \in 0 .. MaxExt
               PROVE  /\ Insert(buf, Wire(e), e, now) = LoopInsert(buf, Wire(e), e, now).buf
                      /\ OverflowFlushed(buf, Wire(e)) = LoopInsert(buf, Wire(e), e, now).flushed
    BY DEF InsertIsTheLoop
  <2>1. buf \in Buffer /\ now \in Nat /\ e \in Nat
    BY StreamAssumption DEF TypeOK
  <2> QED
    BY <2>1, WireType, InsertIs, ZenonT(60)
<1> QED
  BY <1>1, TypeCorrect, PTL

=============================================================================
