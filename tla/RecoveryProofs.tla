---------------------------- MODULE RecoveryProofs ----------------------------
(***************************************************************************)
(* The NACK scheduler is correct for every sequence-space size, every ring,  *)
(* gap limit, retry budget and delay, and every pattern of loss and          *)
(* reordering, until a slot is still active when the sequence numbers have   *)
(* come round.  Loss recovery as a whole, from the sender's ring over both   *)
(* networks to the scheduler, is so too, for every pattern of loss, delay    *)
(* and reordering in which what is in flight or still asked for is gone      *)
(* before its number is used again.                                          *)
(***************************************************************************)
EXTENDS Recovery, SeqArithProofs, FiniteSetTheorems

-----------------------------------------------------------------------------
(* The scheduler's ring *)

\* The arithmetic of the constants.
LEMMA NConstants ==
  /\ Half \in Nat \ {0} /\ M \in Nat \ {0} /\ M = 2 * Half
  /\ NCap \in Nat \ {0} /\ NCap <= Half
  /\ MaxGap \in Nat /\ MaxGap < NCap /\ MaxRetries \in Nat /\ Floor \in Nat
  /\ MaxExt \in Nat /\ Starts \subseteq Nat /\ Rtts \subseteq Nat
BY HalfAssumption, NackAssumption DEF M

\* A ring index is in the ring.
LEMMA NidxType ==
  ASSUME NEW s \in SeqNos
  PROVE  nidx(s) \in NRing
<1>1. s \in Nat
  BY NConstants DEF SeqNos
<1> QED
  BY <1>1, NConstants, ModRange DEF nidx, NRing

\* The ring index does not see the wrap of the sequence space.
LEMMA NidxOfWire ==
  ASSUME NEW x \in Nat
  PROVE  nidx(Wire(x)) = x % NCap
<1>1. PICK k \in 1 .. M : M = k * NCap
  BY NackAssumption
<1>2. k \in Nat \ {0}
  BY NConstants
<1>3. (x % M) % NCap = x % NCap
  BY <1>1, <1>2, NConstants, ModMod, ZenonT(30)
<1> QED
  BY <1>3 DEF nidx, Wire

\* The slot of a packet less than a ring ahead of B lies as far ahead.
LEMMA NAheadIsDistance ==
  ASSUME NEW B \in Nat, NEW d \in Nat, B <= d, d < B + NCap
  PROVE  NAhead(Wire(B), nidx(Wire(d))) = d - B
<1>1. PICK k \in 0 .. (NCap - 1) : d = B + k /\ k = d - B
  BY NConstants
<1>2. PICK r \in 0 .. (NCap - 1) : r = B % NCap
  BY NConstants, ModRange
<1>3. (B + k) % NCap = IF (B % NCap) + k < NCap THEN (B % NCap) + k ELSE (B % NCap) + k - NCap
  <2>1. k \in 0 .. NCap
    BY NConstants
  <2> QED
    BY <2>1, NConstants, ModAdd, Zenon
<1>4. nidx(Wire(B)) = r /\ nidx(Wire(d)) = IF r + k < NCap THEN r + k ELSE r + k - NCap
  BY <1>1, <1>2, <1>3, NidxOfWire
<1>5. NAhead(Wire(B), nidx(Wire(d))) = k
  BY <1>4, NConstants DEF NAhead
<1> QED
  BY <1>1, <1>5

\* No two packets of one ring's worth share a slot.
LEMMA NSlotInjective ==
  ASSUME NEW B \in Nat, NEW d \in Nat, NEW x \in Nat,
         B <= d, d < B + NCap, B <= x, x < B + NCap, nidx(Wire(d)) = nidx(Wire(x))
  PROVE  d = x
<1>1. NAhead(Wire(B), nidx(Wire(d))) = d - B /\ NAhead(Wire(B), nidx(Wire(x))) = x - B
  BY NAheadIsDistance
<1> QED
  BY <1>1

\* The slot that lies k ahead of packet B's is packet B + k's.
LEMMA NAheadSlot ==
  ASSUME NEW B \in Nat, NEW i \in NRing
  PROVE  /\ NAhead(Wire(B), i) \in 0 .. (NCap - 1)
         /\ nidx(Wire(B + NAhead(Wire(B), i))) = i
<1>1. PICK r \in 0 .. (NCap - 1) : r = B % NCap
  BY NConstants, ModRange
<1>2. nidx(Wire(B)) = r
  BY <1>1, NidxOfWire
<1>3. PICK k \in 0 .. (NCap - 1) : k = NAhead(Wire(B), i)
  <2>1. i \in 0 .. (NCap - 1)
    BY DEF NRing
  <2>2. NAhead(Wire(B), i) \in 0 .. (NCap - 1)
    BY <1>2, <2>1, NConstants DEF NAhead
  <2> QED
    BY <2>2
<1>4. (B + k) % NCap = IF r + k < NCap THEN r + k ELSE r + k - NCap
  <2>1. k \in 0 .. NCap
    BY NConstants
  <2> QED
    BY <1>1, <2>1, NConstants, ModAdd, ZenonT(30), Zenon
<1>5. nidx(Wire(B + k)) = (B + k) % NCap
  BY NConstants, NidxOfWire
<1>6. i = IF r + k < NCap THEN r + k ELSE r + k - NCap
  BY <1>2, <1>3, NConstants DEF NAhead, NRing
<1> QED
  BY <1>3, <1>4, <1>5, <1>6

\* Less than the sequence space behind E, a packet is told by its number.
LEMMA Recognised ==
  ASSUME NEW E \in Nat, NEW x \in Nat, x <= E, E < x + M
  PROVE  E - wrapping_sub(Wire(E), Wire(x)) = x
<1>1. wrapping_sub(Wire(E), Wire(x)) = E - x
  BY NConstants, WireSubAhead
<1> QED
  BY <1>1

\* Different packets less than the sequence space apart have different numbers.
LEMMA WiresDiffer ==
  ASSUME NEW x \in Nat, NEW y \in Nat, x < y + M, y < x + M, Wire(x) = Wire(y)
  PROVE  x = y
<1>1. CASE x <= y
  <2>1. y - wrapping_sub(Wire(y), Wire(x)) = x /\ y - wrapping_sub(Wire(y), Wire(y)) = y
    BY <1>1, NConstants, Recognised
  <2> QED
    BY <2>1
<1>2. CASE y <= x
  <2>1. x - wrapping_sub(Wire(x), Wire(y)) = y /\ x - wrapping_sub(Wire(x), Wire(x)) = x
    BY <1>2, NConstants, Recognised
  <2> QED
    BY <2>1
<1> QED
  BY <1>1, <1>2

-----------------------------------------------------------------------------
(* Types *)

\* Sets of slots are finite.
LEMMA SlotsFinite ==
  ASSUME NEW S \in SUBSET NRing
  PROVE  IsFiniteSet(S) /\ Cardinality(S) \in Nat
<1>1. IsFiniteSet(NRing)
  BY NConstants, FS_Interval DEF NRing
<1> QED
  BY <1>1, FS_Subset, FS_CardinalityType

\* Wrapping arithmetic stays within the sequence space.
LEMMA WrapType ==
  ASSUME NEW a \in SeqNos, NEW b \in SeqNos
  PROVE  wrapping_add(a, b) \in SeqNos /\ wrapping_sub(a, b) \in SeqNos
BY NConstants DEF wrapping_add, wrapping_sub, SeqNos

\* An arrival keeps the types.
LEMMA TypeArrive ==
  ASSUME TypeOK, NEW e \in 0 .. MaxExt, OnPacketReceived(e)
  PROVE  TypeOK'
<1> DEFINE s == Wire(e)
           n == diff(expected, s)
<1>1. e \in Nat /\ s \in SeqNos /\ 1 \in SeqNos
  BY NConstants, WireType DEF SeqNos
<1>2. wrapping_add(s, 1) \in SeqNos
  BY <1>1, WrapType
<1>3. /\ started' = TRUE
      /\ got' = {g \in got \cup {e} : g >= eexp' - NCap}
      /\ lapped' = (lapped \/ \E i \in Active : eexp' - Tracked(i) >= M)
      /\ UNCHANGED <<base_delay, rtt, sent>>
  BY DEF OnPacketReceived
<1>4. /\ expected' \in {expected, wrapping_add(s, 1)} /\ eexp' \in {eexp, e + 1}
      /\ pending' \in {pending, pending \cup (eexp .. (e - 1)), pending \ {e}}
  BY DEF OnPacketReceived
<1>5. expected' \in SeqNos /\ eexp' \in Nat /\ pending' \subseteq Nat
  BY <1>1, <1>2, <1>4 DEF TypeOK
<1>6. \/ nslots' = nslots /\ active_count' = active_count
      \/ Track(n)
      \/ deactivate(s)
  BY DEF OnPacketReceived
<1>7. nslots' \in [NRing -> NackSlot] /\ active_count' \in Nat
  <2>1. CASE nslots' = nslots /\ active_count' = active_count
    BY <2>1 DEF TypeOK
  <2>2. CASE Track(n)
    <3>1. Cardinality(NewlyTracked(n)) \in Nat
      BY SlotsFinite DEF NewlyTracked
    <3>2. ASSUME NEW i \in NRing
          PROVE  i \in NewlyTracked(n) =>
                   [seq |-> wrapping_add(expected, NAhead(expected, i)), active |-> TRUE,
                    wait |-> base_delay, count |-> 0] \in NackSlot
      <4>1. i \in 0 .. (NCap - 1) /\ nidx(expected) \in 0 .. (NCap - 1)
        BY NidxType DEF NRing, TypeOK
      <4>2. NAhead(expected, i) \in SeqNos
        BY <4>1, NConstants DEF NAhead, SeqNos
      <4>3. wrapping_add(expected, NAhead(expected, i)) \in SeqNos
        BY <4>2, WrapType DEF TypeOK
      <4> QED
        BY <4>3 DEF NackSlot, TypeOK
    <3> QED
      BY <2>2, <3>1, <3>2 DEF Track, TypeOK
  <2>3. CASE deactivate(s)
    <3>1. nidx(s) \in NRing
      BY <1>1, NidxType
    <3>2. nslots' \in [NRing -> NackSlot]
      BY <2>3, <3>1, ZenonT(60), ZenonT(30) DEF deactivate, TypeOK, NackSlot
    <3>3. active_count' \in Nat
      BY <2>3 DEF deactivate, Decrement, TypeOK
    <3> QED
      BY <3>2, <3>3
  <2> QED
    BY <1>6, <2>1, <2>2, <2>3
<1>8. got' \subseteq Nat
  BY <1>1, <1>3, Zenon DEF TypeOK
<1>9. lapped' \in BOOLEAN /\ started' \in BOOLEAN
  BY <1>3
<1> QED
  BY <1>3, <1>5, <1>7, <1>8, <1>9 DEF TypeOK

\* Every step keeps the types.
LEMMA TypeNext == TypeOK /\ [Next]_vars => TypeOK'
<1> SUFFICES ASSUME TypeOK, [Next]_vars
             PROVE  TypeOK'
  OBVIOUS
<1>1. ASSUME NEW e \in 0 .. MaxExt, OnPacketReceived(e)
      PROVE  TypeOK'
  BY <1>1, TypeArrive
<1>2. CASE Pump
  <2>1. GivenUp \in SUBSET NRing
    BY DEF GivenUp, DueSlots, Active
  <2>2. Cardinality(GivenUp) \in Nat
    BY <2>1, SlotsFinite
  <2>3. active_count' \in Nat
    <3>1. active_count' = Decrement(active_count, Cardinality(GivenUp)) /\ active_count \in Nat
      BY <1>2, Zenon DEF Pump, TypeOK
    <3> QED
      BY <2>2, <3>1 DEF Decrement
  <2>4. sent' \in [0 .. MaxExt -> Nat]
    <3>1. sent' = [e \in 0 .. MaxExt |->
                     sent[e] + IF \E i \in ToNack : Tracked(i) = e THEN 1 ELSE 0]
      BY <1>2, Zenon DEF Pump
    <3>2. ASSUME NEW e \in 0 .. MaxExt
          PROVE  sent[e] + (IF \E i \in ToNack : Tracked(i) = e THEN 1 ELSE 0) \in Nat
      BY DEF TypeOK
    <3> QED
      BY <3>1, <3>2
  <2>5. nslots' \in [NRing -> NackSlot]
    <3>1. (IF rtt = NoRtt THEN base_delay ELSE rtt) \in Nat
      BY DEF TypeOK
    <3>2. ASSUME NEW i \in NRing
          PROVE  /\ [nslots[i] EXCEPT !.active = FALSE] \in NackSlot
                 /\ [nslots[i] EXCEPT !.count = @ + 1,
                       !.wait = IF rtt = NoRtt THEN base_delay ELSE rtt] \in NackSlot
                 /\ nslots[i] \in NackSlot
      <4>1. nslots[i] \in [seq : SeqNos, active : BOOLEAN, wait : Nat, count : Nat]
        BY DEF TypeOK, NackSlot
      <4>2. [nslots[i] EXCEPT !.active = FALSE] \in NackSlot
        BY <4>1, Zenon DEF NackSlot
      <4>3. PICK w \in Nat : w = IF rtt = NoRtt THEN base_delay ELSE rtt
        BY <3>1
      <4>4. [nslots[i] EXCEPT !.count = @ + 1, !.wait = w] \in NackSlot
        <5>1. PICK r \in NackSlot : r = nslots[i]
          BY <4>1 DEF NackSlot
        <5>2. PICK c \in Nat : c = r.count + 1
          BY DEF NackSlot
        <5>3. PICK q \in NackSlot : q = [r EXCEPT !.count = c]
          BY ZenonT(30) DEF NackSlot
        <5>4. [r EXCEPT !.count = c, !.wait = w] \in NackSlot
          <6>1. [q EXCEPT !.wait = w] \in NackSlot
            BY DEF NackSlot
          <6>2. [r EXCEPT !.count = c, !.wait = w] = [q EXCEPT !.wait = w]
            BY <5>3
          <6> QED
            BY <6>1, <6>2
        <5> QED
          BY <5>1, <5>2, <5>4
      <4> QED
        BY <4>1, <4>2, <4>3, <4>4 DEF NackSlot
    <3> QED
      BY <1>2, <3>2, Zenon DEF Pump
  <2>6. pending' \subseteq Nat
    BY <1>2, Zenon DEF Pump, TypeOK
  <2> QED
    BY <1>2, <2>3, <2>4, <2>5, <2>6, Zenon DEF Pump, TypeOK
<1>3. ASSUME NEW r \in Rtts, RttUpdate(r)
      PROVE  TypeOK'
  <2>1. r \in Nat /\ r \div 2 \in Nat
    BY NConstants
  <2> QED
    BY <1>3, <2>1, NConstants DEF RttUpdate, TypeOK
<1>4. CASE Tick
  <2>1. ASSUME NEW i \in NRing
        PROVE  [nslots[i] EXCEPT !.wait = IF @ > 0 THEN @ - 1 ELSE 0] \in NackSlot
    BY DEF TypeOK, NackSlot
  <2>2. nslots' \in [NRing -> NackSlot]
    BY <1>4, <2>1 DEF Tick
  <2> QED
    BY <1>4, <2>2 DEF Tick, TypeOK
<1>5. CASE UNCHANGED vars
  BY <1>5 DEF vars, codeVars, TypeOK
<1> QED
  BY <1>1, <1>2, <1>3, <1>4, <1>5 DEF Next

\* The types hold at first, and in every behaviour.
LEMMA TypeInit == Init => TypeOK
<1> SUFFICES ASSUME Init PROVE TypeOK
  OBVIOUS
<1>1. 0 \in SeqNos
  BY NConstants DEF SeqNos
<1>2. nslots \in [NRing -> NackSlot]
  BY <1>1 DEF Init, NackSlot
<1>3. started \in BOOLEAN /\ lapped \in BOOLEAN
  BY Zenon DEF Init
<1> QED
  BY <1>1, <1>2, <1>3, NConstants DEF Init, TypeOK

-----------------------------------------------------------------------------
(* active_count *)

\* What a turn of the pump does to a slot.
LEMMA PumpSlots ==
  ASSUME TypeOK, Pump, NEW i \in NRing
  PROVE  /\ nslots'[i].seq = nslots[i].seq
         /\ i \in Active' <=> i \in Active /\ i \notin GivenUp
         /\ i \in ToNack => /\ nslots'[i].count = nslots[i].count + 1
                            /\ nslots'[i].wait = IF rtt = NoRtt THEN base_delay ELSE rtt
         /\ i \notin ToNack => nslots'[i].count = nslots[i].count
         /\ i \notin ToNack /\ i \notin GivenUp => nslots'[i] = nslots[i]
<1>1. nslots'[i] = CASE i \in GivenUp -> [nslots[i] EXCEPT !.active = FALSE]
                     [] i \in ToNack -> [nslots[i] EXCEPT !.count = @ + 1,
                                           !.wait = IF rtt = NoRtt THEN base_delay ELSE rtt]
                     [] OTHER -> nslots[i]
  BY Zenon DEF Pump
<1>2. nslots[i] \in [seq : SeqNos, active : BOOLEAN, wait : Nat, count : Nat]
  BY DEF TypeOK, NackSlot
<1>3. GivenUp \subseteq Active /\ ToNack \subseteq Active /\ ~(i \in GivenUp /\ i \in ToNack)
  BY DEF GivenUp, ToNack, DueSlots
<1>4. CASE i \in GivenUp
  <2>1. nslots'[i] = [nslots[i] EXCEPT !.active = FALSE]
    BY <1>1, <1>3, <1>4
  <2>2. /\ nslots'[i].seq = nslots[i].seq /\ nslots'[i].count = nslots[i].count
        /\ nslots'[i].active = FALSE
    BY <1>2, <2>1
  <2> QED
    BY <1>3, <1>4, <2>2 DEF Active
<1>5. CASE i \in ToNack
  <2>1. i \notin GivenUp /\ i \in Active
    BY <1>3, <1>5
  <2>2. nslots'[i] = [nslots[i] EXCEPT !.count = @ + 1,
                        !.wait = IF rtt = NoRtt THEN base_delay ELSE rtt]
    BY <1>1, <1>5, <2>1
  <2>3. /\ nslots'[i].seq = nslots[i].seq /\ nslots'[i].count = nslots[i].count + 1
        /\ nslots'[i].active = nslots[i].active
        /\ nslots'[i].wait = IF rtt = NoRtt THEN base_delay ELSE rtt
    BY <1>2, <2>2
  <2> QED
    BY <1>5, <2>1, <2>3 DEF Active
<1>6. CASE i \notin GivenUp /\ i \notin ToNack
  <2>1. nslots'[i] = nslots[i]
    BY <1>1, <1>6
  <2> QED
    BY <1>6, <2>1 DEF Active
<1> QED
  BY <1>4, <1>5, <1>6

\* The time a slot waits is a number.
LEMMA SlotFields ==
  ASSUME TypeOK, NEW i \in NRing
  PROVE  nslots[i].wait \in Nat
<1>1. nslots[i] \in [seq : SeqNos, active : BOOLEAN, wait : Nat, count : Nat]
  BY DEF TypeOK, NackSlot
<1> QED
  BY <1>1

\* A tick leaves what a slot tracks and counts alone.
LEMMA TickSlots ==
  ASSUME TypeOK, Tick, NEW i \in NRing
  PROVE  /\ nslots'[i].seq = nslots[i].seq /\ nslots'[i].count = nslots[i].count
         /\ nslots'[i].active = nslots[i].active
         /\ nslots'[i].wait = IF nslots[i].wait > 0 THEN nslots[i].wait - 1 ELSE 0
<1>1. nslots'[i] = [nslots[i] EXCEPT !.wait = IF @ > 0 THEN @ - 1 ELSE 0]
  BY DEF Tick
<1>2. nslots[i] \in [seq : SeqNos, active : BOOLEAN, wait : Nat, count : Nat]
  BY DEF TypeOK, NackSlot
<1> QED
  BY <1>1, <1>2

\* What an arrival that finds its number tracked does.
LEMMA DeactivateSlots ==
  ASSUME TypeOK, NEW s \in SeqNos, deactivate(s)
  PROVE  /\ \A i \in NRing : nslots'[i].seq = nslots[i].seq /\ nslots'[i].count = nslots[i].count
                             /\ nslots'[i].wait = nslots[i].wait
         /\ IsTracked(s) => Active' = Active \ {nidx(s)} /\ nidx(s) \in Active
         /\ ~IsTracked(s) => nslots' = nslots /\ Active' = Active
<1>1. nidx(s) \in NRing
  BY NidxType
<1>2. CASE IsTracked(s)
  <2>1. nslots' = [nslots EXCEPT ![nidx(s)].active = FALSE]
    BY <1>2 DEF deactivate
  <2>2. ASSUME NEW i \in NRing
        PROVE  /\ nslots'[i].seq = nslots[i].seq /\ nslots'[i].count = nslots[i].count
               /\ nslots'[i].wait = nslots[i].wait
               /\ nslots'[i].active = IF i = nidx(s) THEN FALSE ELSE nslots[i].active
    <3>1. nslots[i] \in [seq : SeqNos, active : BOOLEAN, wait : Nat, count : Nat]
      BY DEF TypeOK, NackSlot
    <3>2. nslots'[i] = IF i = nidx(s) THEN [nslots[i] EXCEPT !.active = FALSE] ELSE nslots[i]
      BY <1>1, <2>1, Zenon DEF TypeOK
    <3>3. CASE i = nidx(s)
      BY <3>1, <3>2, <3>3
    <3>4. CASE i # nidx(s)
      BY <3>2, <3>4
    <3> QED
      BY <3>3, <3>4, Zenon
  <2>3. \A i \in NRing : i \in Active' <=> i \in Active /\ i # nidx(s)
    BY <2>2, ZenonT(30), Zenon DEF Active
  <2>4. Active' \subseteq NRing /\ Active \subseteq NRing
    BY DEF Active
  <2> QED
    BY <1>1, <1>2, <2>2, <2>3, <2>4, Zenon DEF IsTracked, Active
<1>3. CASE ~IsTracked(s)
  <2>1. nslots' = nslots
    BY <1>3 DEF deactivate
  <2> QED
    BY <1>3, <2>1 DEF Active
<1> QED
  BY <1>2, <1>3

\* What a gap of n does to a slot.
LEMMA TrackSlots ==
  ASSUME TypeOK, NEW n, Track(n), NEW i \in NRing
  PROVE  /\ i \in NewlyTracked(n) =>
              /\ nslots'[i].seq = wrapping_add(expected, NAhead(expected, i))
              /\ nslots'[i].wait = base_delay /\ nslots'[i].count = 0
         /\ i \notin NewlyTracked(n) => nslots'[i] = nslots[i]
         /\ i \in Active' <=> i \in Active \/ i \in NewlyTracked(n)
<1>1. nslots'[i] = IF i \in NewlyTracked(n)
                   THEN [seq |-> wrapping_add(expected, NAhead(expected, i)), active |-> TRUE,
                         wait |-> base_delay, count |-> 0]
                   ELSE nslots[i]
  BY DEF Track
<1>2. CASE i \in NewlyTracked(n)
  BY <1>1, <1>2 DEF Active
<1>3. CASE i \notin NewlyTracked(n)
  BY <1>1, <1>3 DEF Active
<1> QED
  BY <1>2, <1>3

\* Every step keeps active_count at or above the number of active slots.
LEMMA CountNext == TypeOK /\ CountCoversActive /\ [Next]_vars => CountCoversActive'
<1> SUFFICES ASSUME TypeOK, CountCoversActive, [Next]_vars
             PROVE  CountCoversActive'
  OBVIOUS
<1>1. Active \in SUBSET NRing
  BY DEF Active
<1>2. IsFiniteSet(Active) /\ Cardinality(Active) \in Nat /\ active_count \in Nat
      /\ Cardinality(Active) <= active_count
  BY <1>1, SlotsFinite DEF TypeOK, CountCoversActive
<1>3. ASSUME Active' = Active, active_count' = active_count
      PROVE  CountCoversActive'
  BY <1>3 DEF CountCoversActive
<1>4. ASSUME NEW n, Track(n)
      PROVE  CountCoversActive'
  <2> DEFINE N == NewlyTracked(n)
  <2>1. N \in SUBSET NRing
    BY DEF NewlyTracked
  <2>2. IsFiniteSet(N) /\ Cardinality(N) \in Nat
    BY <2>1, SlotsFinite
  <2>3. Active' = Active \cup N
    <3>1. Active' \subseteq NRing
      BY DEF Active
    <3>2. \A i \in NRing : i \in Active' <=> i \in Active \/ i \in N
      BY <1>4, TrackSlots
    <3> QED
      BY <1>1, <2>1, <3>1, <3>2
  <2>4. active_count' = active_count + Cardinality(N)
    BY <1>4 DEF Track
  <2> HIDE DEF N
  <2>5. Cardinality(Active \cup N) = Cardinality(Active) + Cardinality(N) - Cardinality(Active \cap N)
    BY <1>2, <2>2, FS_Union
  <2>6. Cardinality(Active \cap N) \in Nat
    <3>1. Active \cap N \in SUBSET NRing
      BY <1>1
    <3> QED
      BY <3>1, SlotsFinite
  <2>7. Cardinality(Active') <= active_count'
    BY <1>2, <2>2, <2>3, <2>4, <2>5, <2>6
  <2> QED
    BY <2>7 DEF CountCoversActive
<1>5. ASSUME NEW s \in SeqNos, deactivate(s)
      PROVE  CountCoversActive'
  <2>1. CASE IsTracked(s)
    <3>1. Active' = Active \ {nidx(s)} /\ nidx(s) \in Active
      BY <1>5, <2>1, DeactivateSlots
    <3>2. Cardinality(Active \ {nidx(s)}) = Cardinality(Active) - 1
      BY <1>2, <3>1, FS_RemoveElement
    <3>3. active_count' = Decrement(active_count, 1)
      BY <1>5, <2>1 DEF deactivate
    <3>4. Cardinality(Active') \in Nat
      <4>1. Active \ {nidx(s)} \in SUBSET NRing
        BY <1>1
      <4> QED
        BY <3>1, <4>1, SlotsFinite
    <3>5. Cardinality(Active') <= active_count'
      BY <1>2, <3>1, <3>2, <3>3, <3>4 DEF Decrement
    <3> QED
      BY <3>5 DEF CountCoversActive
  <2>2. CASE ~IsTracked(s)
    BY <1>3, <1>5, <2>2, DeactivateSlots DEF deactivate
  <2> QED
    BY <2>1, <2>2
<1>6. ASSUME NEW e \in 0 .. MaxExt, OnPacketReceived(e)
      PROVE  CountCoversActive'
  <2>1. Wire(e) \in SeqNos
    BY NConstants, WireType
  <2>2. \/ nslots' = nslots /\ active_count' = active_count
        \/ Track(diff(expected, Wire(e)))
        \/ deactivate(Wire(e))
    BY <1>6 DEF OnPacketReceived
  <2>3. nslots' = nslots => Active' = Active
    BY DEF Active
  <2> QED
    BY <1>3, <1>4, <1>5, <2>1, <2>2, <2>3
<1>7. CASE Pump
  <2>1. GivenUp \in SUBSET Active
    BY DEF GivenUp, DueSlots
  <2>2. Active' = Active \ GivenUp
    <3>1. Active' \subseteq NRing
      BY DEF Active
    <3>2. \A i \in NRing : i \in Active' <=> i \in Active /\ i \notin GivenUp
      BY <1>7, PumpSlots
    <3> QED
      BY <1>1, <3>1, <3>2
  <2>3. Cardinality(Active \ GivenUp) = Cardinality(Active) - Cardinality(Active \cap GivenUp)
    BY <1>2, FS_Difference
  <2>4. Active \cap GivenUp = GivenUp
    BY <2>1
  <2>5. Cardinality(GivenUp) \in Nat /\ Cardinality(Active \ GivenUp) \in Nat
    <3>1. GivenUp \in SUBSET NRing /\ Active \ GivenUp \in SUBSET NRing
      BY <1>1, <2>1
    <3> QED
      BY <3>1, SlotsFinite
  <2>6. active_count' = Decrement(active_count, Cardinality(GivenUp))
    BY <1>7, Zenon DEF Pump
  <2>7. Cardinality(Active') <= active_count'
    BY <1>2, <2>2, <2>3, <2>4, <2>5, <2>6, SMTT(30) DEF Decrement
  <2> QED
    BY <2>7 DEF CountCoversActive
<1>8. ASSUME NEW r \in Rtts, RttUpdate(r)
      PROVE  CountCoversActive'
  BY <1>3, <1>8 DEF RttUpdate, Active
<1>9. CASE Tick
  <2>1. Active' = Active
    BY <1>9, TickSlots DEF Active
  <2> QED
    BY <1>3, <1>9, <2>1 DEF Tick
<1>10. CASE UNCHANGED vars
  BY <1>3, <1>10 DEF vars, codeVars, Active
<1> QED
  BY <1>6, <1>7, <1>8, <1>9, <1>10 DEF Next

\* active_count never falls below the number of active slots, so the early return
\* of get_pending_nacks on 0 never hides a gap that is still tracked, whatever
\* arrives, is given up or overwritten.
THEOREM CountIsCovering == Spec => []CountCoversActive
<1>1. Init => CountCoversActive
  <2> SUFFICES ASSUME Init PROVE CountCoversActive
    OBVIOUS
  <2>1. Active = {}
    BY DEF Init, Active
  <2> QED
    BY <2>1, FS_EmptySet DEF Init, CountCoversActive
<1> QED
  BY <1>1, TypeInit, TypeNext, CountNext, PTL DEF Spec

-----------------------------------------------------------------------------
(* The inductive invariant of the scheduler *)

\* Slot i tracks a packet before the newest expected one, at that packet's place
\* in the ring, and counts the NACKs sent for it.
SlotOK(i) ==
  /\ Tracked(i) \in 0 .. MaxExt /\ Tracked(i) < eexp
  /\ nslots[i].seq = Wire(Tracked(i)) /\ nidx(Wire(Tracked(i))) = i
  /\ sent[Tracked(i)] = nslots[i].count

NBody ==
  /\ TypeOK /\ eexp <= MaxExt + 1
  /\ IF started THEN expected = Wire(eexp)
     ELSE eexp = 0 /\ Active = {} /\ pending = {} /\ got = {}
  /\ \A i \in Active : SlotOK(i)
  /\ \A e \in 0 .. MaxExt : sent[e] <= MaxRetries /\ (e >= eexp => sent[e] = 0)
  /\ \A e \in pending : e < eexp /\ (e >= eexp - NCap => IsTracked(Wire(e)))
  /\ \A e \in got : e < eexp /\ (e >= eexp - NCap => ~IsTracked(Wire(e)))

NInv == lapped \/ NBody

\* Nothing is asked for before the stream is joined.
LEMMA InitBody == Init => NBody
<1> SUFFICES ASSUME Init PROVE NBody
  OBVIOUS
<1>1. TypeOK
  BY TypeInit
<1>2. Active = {}
  BY DEF Init, Active
<1>3. ~started /\ eexp = 0 /\ pending = {} /\ got = {}
  BY DEF Init
<1>4. \A e \in 0 .. MaxExt : sent[e] = 0
  BY DEF Init
<1> QED
  BY <1>1, <1>2, <1>3, <1>4, NConstants DEF NBody

\* While expected moves on, and less than the sequence space is passed, a slot
\* goes on tracking the same packet.
LEMMA StillTracked ==
  ASSUME NBody, TypeOK', NEW i \in Active, eexp' >= eexp, expected' = Wire(eexp'),
         nslots'[i].seq = nslots[i].seq, eexp' - Tracked(i) < M
  PROVE  Tracked(i)' = Tracked(i)
<1>1. SlotOK(i)
  BY DEF NBody
<1>2. PICK x \in Nat : x = Tracked(i)
  BY <1>1, NConstants DEF SlotOK
<1>3. PICK E \in Nat : E = eexp'
  BY DEF TypeOK
<1>4. x <= E /\ E < x + M
  <2>1. eexp \in Nat
    BY DEF NBody, TypeOK
  <2>2. x < eexp
    BY <1>1, <1>2, Zenon DEF SlotOK
  <2> QED
    BY <1>2, <1>3, <2>1, <2>2, NConstants
<1>5. E - wrapping_sub(Wire(E), Wire(x)) = x
  BY <1>4, Recognised, ZenonT(60)
<1>6. Tracked(i)' = eexp' - wrapping_sub(expected', nslots'[i].seq)
  BY DEF Tracked, wrapping_sub, M
<1>7. nslots'[i].seq = Wire(x)
  BY <1>1, <1>2 DEF SlotOK
<1> QED
  BY <1>2, <1>3, <1>5, <1>6, <1>7, ZenonT(60)

\* The packet a number stands for, within the last sequence space.
LEMMA TrackedIs ==
  ASSUME NBody, started, NEW e \in Nat, e < eexp, eexp < e + M, IsTracked(Wire(e))
  PROVE  nidx(Wire(e)) \in Active /\ Tracked(nidx(Wire(e))) = e
<1>1. Wire(e) \in SeqNos
  BY WireType
<1>2. nidx(Wire(e)) \in NRing
  BY <1>1, NidxType
<1>3. eexp \in Nat /\ expected = Wire(eexp)
  BY DEF NBody, TypeOK
<1>4. eexp - wrapping_sub(Wire(eexp), Wire(e)) = e
  BY <1>3, Recognised
<1>5. nslots[nidx(Wire(e))].seq = Wire(e) /\ nslots[nidx(Wire(e))].active
  BY DEF IsTracked
<1> QED
  BY <1>2, <1>3, <1>4, <1>5 DEF Tracked, Active

\* ... and its slot stays sound when its count and what was sent for it agree.
LEMMA SlotStays ==
  ASSUME NBody, TypeOK', NEW i \in Active, eexp' >= eexp, expected' = Wire(eexp'),
         nslots'[i].seq = nslots[i].seq, eexp' - Tracked(i) < M,
         sent'[Tracked(i)] = nslots'[i].count
  PROVE  SlotOK(i)' /\ Tracked(i)' = Tracked(i)
<1>1. SlotOK(i)
  BY DEF NBody
<1>2. PICK x \in 0 .. MaxExt : x = Tracked(i)
  BY <1>1 DEF SlotOK
<1>3. Tracked(i)' = x
  BY <1>2, StillTracked
<1>4. x < eexp'
  <2>1. eexp \in Nat /\ eexp' \in Nat /\ x < eexp
    BY <1>1, <1>2 DEF NBody, TypeOK, SlotOK
  <2> QED
    BY <1>2, <2>1, NConstants, SMTT(30)
<1>5. nslots'[i].seq = Wire(x) /\ nidx(Wire(x)) = i
  BY <1>1, <1>2, Zenon DEF SlotOK
<1> QED
  BY <1>2, <1>3, <1>4, <1>5, ZenonT(60) DEF SlotOK, nidx, Wire, M

\* What an arrival does after the first, on the stream's indices.
LEMMA ArriveCases ==
  ASSUME NBody, started, NEW e \in 0 .. MaxExt, OnPacketReceived(e), ~lapped'
  PROVE  /\ started' /\ sent' = sent /\ got' = {g \in got \cup {e} : g >= eexp' - NCap}
         /\ \A i \in Active : eexp' - Tracked(i) < M
         /\ eexp' \in Nat /\ eexp <= eexp' /\ eexp' <= MaxExt + 1 /\ e < eexp'
         /\ expected' = Wire(eexp')
         /\ \/ /\ e < eexp /\ eexp <= e + Half /\ eexp' = eexp
               /\ deactivate(Wire(e)) /\ pending' = pending \ {e}
            \/ /\ e > eexp /\ e - eexp <= MaxGap /\ eexp' = e + 1
               /\ Track(e - eexp) /\ pending' = pending \cup (eexp .. (e - 1))
            \/ /\ e >= eexp /\ eexp' = e + 1 /\ nslots' = nslots /\ pending' = pending
<1>1. e \in Nat /\ eexp \in Nat /\ expected = Wire(eexp) /\ eexp <= MaxExt + 1
  BY NConstants DEF NBody, TypeOK
<1>2. eexp - Half <= e /\ e < eexp + Half
  BY DEF OnPacketReceived, CanArrive
<1>3. diff(expected, Wire(e)) = e - eexp
  BY <1>1, <1>2, DiffIsDistance
<1>4. wrapping_add(Wire(e), 1) = Wire(e + 1)
  <2>1. 1 \in 0 .. (M - 1)
    BY NConstants
  <2> QED
    BY <1>1, <2>1, WireAdd
<1>5. started' /\ sent' = sent /\ got' = {g \in got \cup {e} : g >= eexp' - NCap}
  BY DEF OnPacketReceived
<1>6. lapped' = (lapped \/ \E i \in Active : eexp' - Tracked(i) >= M)
  BY DEF OnPacketReceived
<1>7. \/ /\ e - eexp > 0 /\ e - eexp <= MaxGap /\ Track(e - eexp)
         /\ expected' = Wire(e + 1) /\ eexp' = e + 1
         /\ pending' = pending \cup (eexp .. (e - 1))
      \/ /\ e - eexp > MaxGap \/ e - eexp = 0
         /\ expected' = Wire(e + 1) /\ eexp' = e + 1 /\ nslots' = nslots /\ pending' = pending
      \/ /\ e - eexp < 0 /\ deactivate(Wire(e)) /\ pending' = pending \ {e}
         /\ expected' = expected /\ eexp' = eexp
  BY <1>3, <1>4 DEF OnPacketReceived
<1>8. eexp' \in Nat /\ eexp <= eexp' /\ eexp' <= MaxExt + 1 /\ e < eexp' /\ expected' = Wire(eexp')
  BY <1>1, <1>7, NConstants
<1>9. ASSUME NEW i \in Active
      PROVE  eexp' - Tracked(i) < M
  <2>1. Tracked(i) \in Nat
    BY NConstants DEF NBody, SlotOK
  <2>2. ~(eexp' - Tracked(i) >= M)
    BY <1>6, ZenonT(30), Zenon
  <2> QED
    BY <1>8, <2>1, <2>2, NConstants, SMTT(30)
<1>10. CASE e - eexp > 0 /\ e - eexp <= MaxGap /\ Track(e - eexp)
             /\ eexp' = e + 1 /\ pending' = pending \cup (eexp .. (e - 1))
  <2>1. e > eexp
    BY <1>1, <1>10
  <2> QED
    BY <1>5, <1>8, <1>9, <1>10, <2>1
<1>11. CASE (e - eexp > MaxGap \/ e - eexp = 0)
             /\ eexp' = e + 1 /\ nslots' = nslots /\ pending' = pending
  <2>1. e >= eexp
    BY <1>1, <1>11, NConstants
  <2> QED
    BY <1>5, <1>8, <1>9, <1>11, <2>1
<1>12. CASE e - eexp < 0 /\ deactivate(Wire(e)) /\ pending' = pending \ {e} /\ eexp' = eexp
  <2>1. e < eexp /\ eexp <= e + Half
    BY <1>1, <1>2, <1>12, NConstants
  <2> QED
    BY <1>5, <1>8, <1>9, <1>12, <2>1, ZenonT(60)
<1> QED
  BY <1>7, <1>10, <1>11, <1>12, ZenonT(60)

\* A packet that was still to come is not tracked already, unless a lap behind.
LEMMA NotYetTracked ==
  ASSUME NBody, NEW e \in Nat, e >= eexp, \A i \in Active : e < Tracked(i) + M
  PROVE  ~IsTracked(Wire(e))
<1> SUFFICES ASSUME IsTracked(Wire(e)) PROVE FALSE
  OBVIOUS
<1>1. nidx(Wire(e)) \in NRing
  BY WireType, NidxType
<1>2. PICK i \in Active : nslots[i].seq = Wire(e)
  BY <1>1 DEF IsTracked, Active
<1>3. PICK x \in Nat : x = Tracked(i) /\ x < eexp /\ Wire(x) = Wire(e)
  BY <1>2, NConstants DEF NBody, SlotOK
<1>4. eexp \in Nat /\ x < e + M /\ e < x + M
  BY <1>3, NConstants DEF NBody, TypeOK
<1>5. x = e
  BY <1>3, <1>4, WiresDiffer
<1> QED
  BY <1>3, <1>4, <1>5

\* A gap of n leaves alone the slots of what came before it, within a ring's
\* worth, and of the packet that showed it.
LEMMA GapSpares ==
  ASSUME NBody, started, NEW n \in 1 .. MaxGap, NEW p \in Nat,
         p < eexp \/ p = eexp + n, eexp + n + 1 <= p + NCap
  PROVE  nidx(Wire(p)) \notin NewlyTracked(n)
<1> DEFINE i == nidx(Wire(p))
<1>1. eexp \in Nat /\ expected = Wire(eexp) /\ n \in Nat
  BY NConstants DEF NBody, TypeOK
<1>2. i \in NRing
  BY WireType, NidxType
<1> HIDE DEF i
<1>3. PICK k \in 0 .. (NCap - 1) : k = NAhead(Wire(eexp), i) /\ nidx(Wire(eexp + k)) = i
  BY <1>1, <1>2, NAheadSlot
<1>4. ~(k < n)
  <2> SUFFICES ASSUME k < n PROVE FALSE
    OBVIOUS
  <2>1. PICK y \in Nat : y = eexp + k
    BY <1>1, NConstants
  <2>2. nidx(Wire(y)) = nidx(Wire(p))
    BY <1>3, <2>1 DEF i
  <2>3. y < eexp + n
    BY <1>1, <2>1, NConstants
  <2>4. CASE p < eexp
    <3>1. p <= y /\ y < p + NCap /\ p < p + NCap /\ p # y
      BY <1>1, <2>1, <2>3, <2>4, NConstants
    <3> QED
      BY <2>2, <3>1, NSlotInjective
  <2>5. CASE p = eexp + n
    <3>1. y <= p /\ p < y + NCap /\ y < y + NCap /\ p # y
      BY <1>1, <2>1, <2>3, <2>5, NConstants, SMTT(30)
    <3> QED
      BY <2>2, <3>1, NSlotInjective
  <2> QED
    BY <2>4, <2>5
<1>5. i \notin NewlyTracked(n)
  BY <1>1, <1>3, <1>4, Zenon DEF NewlyTracked
<1> QED
  BY <1>5 DEF i

\* A late packet stops being asked for, and nothing else changes.
LEMMA ArriveLate ==
  ASSUME NBody, TypeOK', started, NEW e \in 0 .. MaxExt, OnPacketReceived(e), ~lapped',
         e < eexp, eexp <= e + Half, eexp' = eexp, deactivate(Wire(e)), pending' = pending \ {e}
  PROVE  NBody'
<1>1. /\ started' /\ sent' = sent /\ got' = {g \in got \cup {e} : g >= eexp' - NCap}
      /\ \A i \in Active : eexp' - Tracked(i) < M
      /\ expected' = Wire(eexp')
  BY ArriveCases
<1>2. e \in Nat /\ eexp \in Nat /\ Wire(e) \in SeqNos /\ TypeOK
  BY NConstants, WireType, SMTT(30), SMTT(30) DEF NBody, TypeOK
<1>3. /\ \A i \in NRing : nslots'[i].seq = nslots[i].seq /\ nslots'[i].count = nslots[i].count
      /\ IsTracked(Wire(e)) => Active' = Active \ {nidx(Wire(e))}
      /\ ~IsTracked(Wire(e)) => Active' = Active
  BY <1>2, DeactivateSlots
<1>4. Active \subseteq NRing /\ Active' \subseteq Active /\ Active' \subseteq NRing
  BY <1>3 DEF Active
<1>5. \A i \in Active' : SlotOK(i)'
  <2> SUFFICES ASSUME NEW i \in Active' PROVE SlotOK(i)'
    OBVIOUS
  <2>1. i \in Active /\ i \in NRing
    BY <1>4, ZenonT(60)
  <2>2. sent'[Tracked(i)] = nslots'[i].count /\ nslots'[i].seq = nslots[i].seq
    BY <1>1, <1>3, <2>1 DEF NBody, SlotOK
  <2>3. eexp' >= eexp /\ eexp' - Tracked(i) < M
    BY <1>1, <1>2, <2>1, SMTT(30)
  <2> QED
    BY <1>1, <2>1, <2>2, <2>3, SlotStays
<1>6. ASSUME NEW p \in Nat, p < eexp, p >= eexp - NCap, p # e, IsTracked(Wire(p))
      PROVE  IsTracked(Wire(p))'
  <2>1. Wire(p) # Wire(e)
    <3>1. p < e + M /\ e < p + M
      BY <1>2, <1>6, NConstants
    <3> QED
      BY <1>2, <1>6, <3>1, WiresDiffer
  <2>2. nidx(Wire(p)) \in NRing
    BY WireType, NidxType
  <2>3. nidx(Wire(p)) \in Active /\ nslots[nidx(Wire(p))].seq = Wire(p)
    BY <1>6, <2>2, Zenon DEF IsTracked, Active
  <2>4. nidx(Wire(p)) \in Active'
    BY <1>3, <2>1, <2>3, Zenon DEF IsTracked
  <2>5. nslots'[nidx(Wire(p))].active /\ nslots'[nidx(Wire(p))].seq = Wire(p)
    BY <1>3, <2>2, <2>3, <2>4, Zenon DEF Active
  <2> QED
    BY <2>5 DEF IsTracked, nidx, Wire, M
<1>7. \A p \in pending' : p < eexp' /\ (p >= eexp' - NCap => IsTracked(Wire(p))')
  BY <1>6, <1>2, ZenonT(60) DEF NBody, TypeOK
<1>8. ASSUME NEW g \in Nat, g = e \/ ~IsTracked(Wire(g))
      PROVE  ~IsTracked(Wire(g))'
  <2> SUFFICES ASSUME IsTracked(Wire(g))' PROVE FALSE
    OBVIOUS
  <2>1. nidx(Wire(g)) \in NRing
    BY WireType, NidxType, Zenon
  <2>2. nslots'[nidx(Wire(g))].active /\ nslots'[nidx(Wire(g))].seq = Wire(g)
    BY Zenon DEF IsTracked, nidx, Wire, M
  <2>3. nidx(Wire(g)) \in Active' /\ nslots[nidx(Wire(g))].seq = Wire(g)
    BY <1>3, <2>1, <2>2, ZenonT(60) DEF Active
  <2>4. IsTracked(Wire(g))
    BY <1>4, <2>3 DEF IsTracked, Active
  <2>5. g = e
    BY <1>8, <2>4
  <2> QED
    BY <1>3, <2>3, <2>4, <2>5
<1>9. \A g \in got' : g < eexp' /\ (g >= eexp' - NCap => ~IsTracked(Wire(g))')
  <2> SUFFICES ASSUME NEW g \in got'
               PROVE  g < eexp' /\ (g >= eexp' - NCap => ~IsTracked(Wire(g))')
    OBVIOUS
  <2>1. g \in got \cup {e} /\ g \in Nat /\ g >= eexp - NCap
    BY <1>1, <1>2 DEF TypeOK
  <2>2. g < eexp /\ (g = e \/ ~IsTracked(Wire(g)))
    BY <2>1 DEF NBody
  <2> QED
    BY <1>8, <2>1, <2>2
<1>10. \A x \in 0 .. MaxExt : sent'[x] <= MaxRetries /\ (x >= eexp' => sent'[x] = 0)
  BY <1>1 DEF NBody
<1>11. eexp' <= MaxExt + 1
  BY DEF NBody
<1> QED
  BY <1>1, <1>5, <1>7, <1>9, <1>10, <1>11, ZenonT(60) DEF NBody

\* A slot that a gap of n sets up tracks one of the n packets skipped.
LEMMA NewSlot ==
  ASSUME NBody, TypeOK', started, NEW n \in 1 .. MaxGap, Track(n), eexp' = eexp + n + 1,
         expected' = Wire(eexp'), NEW i \in NewlyTracked(n)
  PROVE  /\ Tracked(i)' \in Nat /\ eexp <= Tracked(i)' /\ Tracked(i)' < eexp + n
         /\ nslots'[i].seq = Wire(Tracked(i)') /\ nidx(Wire(Tracked(i)')) = i
         /\ nslots'[i].count = 0 /\ nslots'[i].wait = base_delay
<1>1. eexp \in Nat /\ TypeOK /\ expected = Wire(eexp) /\ i \in NRing /\ eexp' \in Nat /\ n \in Nat
  BY NConstants, SMTT(30), SMTT(30) DEF NBody, TypeOK, NewlyTracked
<1>2. PICK k \in 0 .. (NCap - 1) : k = NAhead(expected, i) /\ nidx(Wire(eexp + k)) = i
  BY <1>1, NAheadSlot
<1>3. k < n
  BY <1>2 DEF NewlyTracked
<1>4. PICK x \in Nat : x = eexp + k
  BY <1>1, NConstants
<1>5. x < eexp + n /\ eexp <= x /\ x < eexp' /\ eexp' < x + M /\ k \in 0 .. (M - 1)
  BY <1>1, <1>3, <1>4, NConstants
<1>6. wrapping_add(Wire(eexp), k) = Wire(x)
  BY <1>1, <1>4, <1>5, WireAdd, ZenonT(60)
<1>7. nslots'[i].seq = Wire(x) /\ nslots'[i].count = 0 /\ nslots'[i].wait = base_delay
  BY <1>1, <1>2, <1>6, TrackSlots
<1>8. eexp' - wrapping_sub(Wire(eexp'), Wire(x)) = x
  BY <1>1, <1>5, Recognised, SMTT(30)
<1>9. Tracked(i)' = x
  BY <1>7, <1>8, Zenon DEF Tracked, wrapping_sub, M
<1> QED
  BY <1>2, <1>4, <1>5, <1>7, <1>9, ZenonT(60)

\* A gap starts tracking what it skips, each packet at its own slot.
LEMMA ArriveGap ==
  ASSUME NBody, TypeOK', started, NEW e \in 0 .. MaxExt, OnPacketReceived(e), ~lapped',
         e > eexp, e - eexp <= MaxGap, eexp' = e + 1, Track(e - eexp),
         pending' = pending \cup (eexp .. (e - 1))
  PROVE  NBody'
<1>1. /\ started' /\ sent' = sent /\ got' = {g \in got \cup {e} : g >= eexp' - NCap}
      /\ \A i \in Active : eexp' - Tracked(i) < M
      /\ expected' = Wire(eexp') /\ eexp' <= MaxExt + 1
  BY ArriveCases, ZenonT(60)
<1>2. e \in Nat /\ eexp \in Nat /\ TypeOK /\ expected = Wire(eexp)
  BY NConstants, SMTT(30), SMTT(30) DEF NBody, TypeOK
<1>3. PICK n \in 1 .. MaxGap : n = e - eexp /\ e = eexp + n /\ Track(n) /\ n < NCap
  BY <1>2, NConstants
<1>4. ASSUME NEW i \in NRing
      PROVE  /\ i \in NewlyTracked(n) =>
                  /\ nslots'[i].seq = wrapping_add(expected, NAhead(expected, i))
                  /\ nslots'[i].count = 0
             /\ i \notin NewlyTracked(n) => nslots'[i] = nslots[i]
             /\ i \in Active' <=> i \in Active \/ i \in NewlyTracked(n)
  BY <1>2, <1>3, TrackSlots, Zenon
<1>5. ASSUME NEW i \in NRing, NEW k \in 0 .. (NCap - 1), k = NAhead(expected, i)
      PROVE  /\ wrapping_add(expected, k) = Wire(eexp + k) /\ nidx(Wire(eexp + k)) = i
             /\ eexp + k \in Nat
  <2>1. k \in 0 .. (M - 1) /\ eexp + k \in Nat
    BY <1>2, NConstants
  <2>2. wrapping_add(Wire(eexp), k) = Wire(eexp + k)
    BY <1>2, <2>1, WireAdd
  <2> QED
    BY <1>2, <1>5, <2>1, <2>2, NAheadSlot, ZenonT(60)
<1>6. \A i \in Active' : SlotOK(i)'
  <2> SUFFICES ASSUME NEW i \in Active' PROVE SlotOK(i)'
    OBVIOUS
  <2>0. i \in NRing
    BY DEF Active
  <2>1. CASE i \notin NewlyTracked(n)
    <3>1. i \in Active /\ nslots'[i] = nslots[i]
      BY <1>4, <2>0, <2>1, Zenon
    <3>2. sent'[Tracked(i)] = nslots'[i].count /\ nslots'[i].seq = nslots[i].seq
      BY <1>1, <3>1, ZenonT(60) DEF NBody, SlotOK
    <3>3. eexp' >= eexp /\ eexp' - Tracked(i) < M
      BY <1>1, <1>2, <3>1, SMTT(30)
    <3> QED
      BY <1>1, <3>1, <3>2, <3>3, SlotStays, ZenonT(60)
  <2>2. CASE i \in NewlyTracked(n)
    <3>1. /\ Tracked(i)' \in Nat /\ eexp <= Tracked(i)' /\ Tracked(i)' < eexp + n
          /\ nslots'[i].seq = Wire(Tracked(i)') /\ nidx(Wire(Tracked(i)')) = i
          /\ nslots'[i].count = 0
      <4>1. eexp' = eexp + n + 1
        BY <1>2, <1>3, Zenon
      <4> QED
        BY <1>1, <1>3, <2>2, <4>1, NewSlot, ZenonT(60)
    <3>2. PICK x \in Nat : x = Tracked(i)'
      BY <3>1, ZenonT(60)
    <3>3. x \in 0 .. MaxExt /\ x < eexp' /\ x >= eexp
      BY <1>2, <1>3, <3>1, <3>2, NConstants, SMTT(30)
    <3>4. sent'[x] = 0
      BY <1>1, <3>3, ZenonT(60) DEF NBody
    <3> QED
      BY <3>1, <3>2, <3>3, <3>4, Zenon DEF SlotOK, nidx, Wire, M
  <2> QED
    BY <2>1, <2>2
<1>7. ASSUME NEW p \in Nat, p < eexp \/ p = eexp + n, p >= eexp' - NCap
      PROVE  IsTracked(Wire(p))' <=> IsTracked(Wire(p))
  <2>1. nidx(Wire(p)) \in NRing
    BY WireType, NidxType
  <2>2. eexp + n + 1 <= p + NCap
    BY <1>2, <1>3, <1>7, NConstants
  <2>3. nidx(Wire(p)) \notin NewlyTracked(n)
    BY <1>7, <2>2, GapSpares, Zenon
  <2>4. nslots'[nidx(Wire(p))] = nslots[nidx(Wire(p))]
    BY <1>4, <2>1, <2>3, ZenonT(60)
  <2> QED
    BY <2>4 DEF IsTracked, nidx, Wire, M
<1>8. ASSUME NEW p \in eexp .. (e - 1)
      PROVE  IsTracked(Wire(p))'
  <2>1. PICK k \in 0 .. (NCap - 1) : p = eexp + k /\ k < n
    <3>1. p - eexp \in 0 .. (NCap - 1) /\ p = eexp + (p - eexp) /\ p - eexp < n
      BY <1>2, <1>3, NConstants
    <3> QED
      BY <3>1
  <2>2. p \in Nat /\ eexp <= p /\ p < eexp + NCap /\ p - eexp = k
    BY <1>2, <2>1, NConstants, SMTT(30)
  <2>3. NAhead(expected, nidx(Wire(p))) = k
    BY <1>2, <2>2, NAheadIsDistance
  <2>4. nidx(Wire(p)) \in NRing
    BY <2>2, WireType, NidxType, Zenon
  <2>5. wrapping_add(expected, k) = Wire(p)
    BY <1>5, <2>1, <2>3, <2>4, ZenonT(60)
  <2>6. nslots'[nidx(Wire(p))].active /\ nslots'[nidx(Wire(p))].seq = Wire(p)
    <3>1. CASE nidx(Wire(p)) \in NewlyTracked(n)
      BY <1>4, <2>3, <2>4, <2>5, <3>1, ZenonT(60) DEF Active
    <3>2. CASE nidx(Wire(p)) \notin NewlyTracked(n)
      <4>1. nslots[nidx(Wire(p))].active /\ nslots[nidx(Wire(p))].seq = Wire(p)
        BY <2>1, <2>3, <2>4, <2>5, <3>2, ZenonT(60) DEF NewlyTracked
      <4> QED
        BY <1>4, <2>4, <3>2, <4>1, ZenonT(60)
    <3> QED
      BY <3>1, <3>2, Zenon
  <2> QED
    BY <2>6 DEF IsTracked, nidx, Wire, M
<1>9. \A p \in pending' : p < eexp' /\ (p >= eexp' - NCap => IsTracked(Wire(p))')
  <2> SUFFICES ASSUME NEW p \in pending'
               PROVE  p < eexp' /\ (p >= eexp' - NCap => IsTracked(Wire(p))')
    OBVIOUS
  <2>1. CASE p \in pending
    <3>1. p \in Nat /\ p < eexp /\ (p >= eexp - NCap => IsTracked(Wire(p)))
      BY <2>1 DEF NBody, TypeOK
    <3>2. p < eexp' /\ (p >= eexp' - NCap => p >= eexp - NCap)
      BY <1>2, <3>1, NConstants
    <3> QED
      BY <1>7, <3>1, <3>2, ZenonT(60)
  <2>2. CASE p \in eexp .. (e - 1)
    <3>1. p < eexp'
      BY <1>2, <2>2
    <3> QED
      BY <1>8, <2>2, <3>1
  <2> QED
    BY <2>1, <2>2
<1>10. \A g \in got' : g < eexp' /\ (g >= eexp' - NCap => ~IsTracked(Wire(g))')
  <2> SUFFICES ASSUME NEW g \in got'
               PROVE  g < eexp' /\ (g >= eexp' - NCap => ~IsTracked(Wire(g))')
    OBVIOUS
  <2>1. g \in got \cup {e} /\ g \in Nat /\ g >= eexp' - NCap
    BY <1>1, <1>2 DEF TypeOK
  <2>2. CASE g \in got
    <3>1. g < eexp /\ (g >= eexp - NCap => ~IsTracked(Wire(g)))
      BY <2>2 DEF NBody
    <3>2. g < eexp' /\ g >= eexp - NCap
      BY <1>2, <2>1, <3>1, NConstants, SMTT(30)
    <3> QED
      BY <1>7, <2>1, <3>1, <3>2
  <2>3. CASE g = e
    <3>1. \A i \in Active : e < Tracked(i) + M
      <4> SUFFICES ASSUME NEW i \in Active PROVE e < Tracked(i) + M
        BY ZenonT(60)
      <4>1. PICK x \in Nat : x = Tracked(i)
        BY NConstants DEF NBody, SlotOK
      <4>2. e + 1 - x < M
        BY <1>1, <4>1
      <4> QED
        BY <1>2, <4>1, <4>2, NConstants, SMTT(30)
    <3>2. ~IsTracked(Wire(e))
      BY <1>2, <3>1, NotYetTracked, SMTT(30)
    <3> QED
      BY <1>2, <1>3, <1>7, <2>1, <2>3, <3>2, SMTT(30)
  <2> QED
    BY <2>1, <2>2, <2>3
<1>11. \A x \in 0 .. MaxExt : sent'[x] <= MaxRetries /\ (x >= eexp' => sent'[x] = 0)
  BY <1>1, <1>2, NConstants, SMTT(30) DEF NBody
<1> QED
  BY <1>1, <1>6, <1>9, <1>10, <1>11, Zenon DEF NBody

\* The next packet in order, or one past a gap too wide to track, changes no slot.
LEMMA ArriveOn ==
  ASSUME NBody, TypeOK', started, NEW e \in 0 .. MaxExt, OnPacketReceived(e), ~lapped',
         e >= eexp, eexp' = e + 1, nslots' = nslots, pending' = pending
  PROVE  NBody'
<1>1. /\ started' /\ sent' = sent /\ got' = {g \in got \cup {e} : g >= eexp' - NCap}
      /\ \A i \in Active : eexp' - Tracked(i) < M
      /\ expected' = Wire(eexp') /\ eexp' <= MaxExt + 1
  BY ArriveCases, ZenonT(60)
<1>2. e \in Nat /\ eexp \in Nat /\ TypeOK
  BY NConstants, SMTT(30) DEF NBody, TypeOK
<1>3. Active' = Active
  BY DEF Active
<1>4. \A i \in Active' : SlotOK(i)'
  <2> SUFFICES ASSUME NEW i \in Active PROVE SlotOK(i)'
    BY <1>3, ZenonT(60)
  <2>1. sent'[Tracked(i)] = nslots'[i].count
    BY <1>1 DEF NBody, SlotOK
  <2>2. eexp' >= eexp /\ eexp' - Tracked(i) < M
    BY <1>1, <1>2
  <2> QED
    BY <1>1, <2>1, <2>2, SlotStays, Zenon
<1>5. ASSUME NEW p \in Nat
      PROVE  IsTracked(Wire(p))' <=> IsTracked(Wire(p))
  BY DEF IsTracked, nidx, Wire, M
<1>6. \A p \in pending' : p < eexp' /\ (p >= eexp' - NCap => IsTracked(Wire(p))')
  <2> SUFFICES ASSUME NEW p \in pending
               PROVE  p < eexp' /\ (p >= eexp' - NCap => IsTracked(Wire(p))')
    OBVIOUS
  <2>1. p \in Nat /\ p < eexp /\ (p >= eexp - NCap => IsTracked(Wire(p)))
    BY DEF NBody, TypeOK
  <2>2. p < eexp' /\ (p >= eexp' - NCap => p >= eexp - NCap)
    BY <1>2, <2>1, NConstants
  <2> QED
    BY <1>5, <2>1, <2>2
<1>7. ~IsTracked(Wire(e))
  <2> SUFFICES ASSUME NEW i \in Active PROVE e < Tracked(i) + M
    BY <1>2, NotYetTracked, ZenonT(60)
  <2>1. PICK x \in Nat : x = Tracked(i)
    BY NConstants DEF NBody, SlotOK
  <2>2. e + 1 - x < M
    BY <1>1, <2>1
  <2> QED
    BY <1>2, <2>1, <2>2, NConstants
<1>8. \A g \in got' : g < eexp' /\ (g >= eexp' - NCap => ~IsTracked(Wire(g))')
  <2> SUFFICES ASSUME NEW g \in got'
               PROVE  g < eexp' /\ (g >= eexp' - NCap => ~IsTracked(Wire(g))')
    OBVIOUS
  <2>1. g \in got \cup {e} /\ g \in Nat /\ g >= eexp' - NCap
    BY <1>1, <1>2 DEF TypeOK
  <2>2. CASE g \in got
    <3>1. g < eexp /\ (g >= eexp - NCap => ~IsTracked(Wire(g)))
      BY <2>2 DEF NBody
    <3>2. g < eexp' /\ g >= eexp - NCap
      BY <1>2, <2>1, <3>1, NConstants, SMTT(30)
    <3> QED
      BY <1>5, <2>1, <3>1, <3>2, ZenonT(60)
  <2>3. CASE g = e
    <3>1. e < eexp'
      BY <1>2, SMTT(30)
    <3> QED
      BY <1>2, <1>5, <1>7, <2>3, <3>1
  <2> QED
    BY <2>1, <2>2, <2>3
<1>9. \A x \in 0 .. MaxExt : sent'[x] <= MaxRetries /\ (x >= eexp' => sent'[x] = 0)
  BY <1>1, <1>2, NConstants, SMTT(30) DEF NBody
<1> QED
  BY <1>1, <1>4, <1>6, <1>8, <1>9, Zenon DEF NBody

\* The first packet only sets what is expected next.
LEMMA ArriveFirst ==
  ASSUME NBody, TypeOK', ~started, NEW e \in 0 .. MaxExt, OnPacketReceived(e)
  PROVE  NBody'
<1>1. /\ started' /\ sent' = sent /\ got' = {g \in got \cup {e} : g >= eexp' - NCap}
      /\ expected' = wrapping_add(Wire(e), 1) /\ eexp' = e + 1 /\ nslots' = nslots
      /\ pending' = pending
  BY DEF OnPacketReceived
<1>2. e \in Nat /\ eexp = 0 /\ Active = {} /\ pending = {} /\ got = {}
  BY NConstants DEF NBody
<1>3. wrapping_add(Wire(e), 1) = Wire(e + 1)
  <2>1. 1 \in 0 .. (M - 1)
    BY NConstants
  <2> QED
    BY <1>2, <2>1, WireAdd
<1>4. Active' = {}
  BY <1>1, <1>2 DEF Active
<1>5. ~IsTracked(Wire(e))'
  <2>1. nidx(Wire(e)) \in NRing
    BY <1>2, WireType, NidxType
  <2>2. ~nslots'[nidx(Wire(e))].active
    BY <1>4, <2>1 DEF Active
  <2> QED
    BY <2>2 DEF IsTracked, nidx, Wire, M
<1>6. \A g \in got' : g < eexp' /\ ~IsTracked(Wire(g))'
  BY <1>1, <1>2, <1>5, SMTT(30)
<1>7. \A x \in 0 .. MaxExt : sent'[x] <= MaxRetries /\ (x >= eexp' => sent'[x] = 0)
  BY <1>1, <1>2, NConstants DEF NBody
<1>8. eexp' <= MaxExt + 1
  BY <1>1, NConstants
<1> QED
  BY <1>1, <1>2, <1>3, <1>4, <1>6, <1>7, <1>8, ZenonT(60) DEF NBody

\* A turn of the pump asks for what it is due to, once more each.
LEMMA PumpBody ==
  ASSUME NBody, TypeOK', Pump
  PROVE  NBody'
<1>1. /\ sent' = [e \in 0 .. MaxExt |->
                    sent[e] + IF \E i \in ToNack : Tracked(i) = e THEN 1 ELSE 0]
      /\ pending' = pending \ {Tracked(i) : i \in GivenUp}
      /\ started' = started /\ expected' = expected /\ eexp' = eexp /\ got' = got
  BY ZenonT(30) DEF Pump
<1>2. /\ eexp \in Nat /\ TypeOK /\ ToNack \subseteq Active /\ Active \subseteq NRing
      /\ GivenUp \subseteq Active /\ sent \in [0 .. MaxExt -> Nat]
  BY Zenon DEF NBody, TypeOK, ToNack, DueSlots, GivenUp, Active
<1>3. started /\ expected = Wire(eexp)
  BY <1>2, Zenon DEF NBody, Pump, DueSlots
<1>4. ASSUME NEW i \in NRing
      PROVE  /\ nslots'[i].seq = nslots[i].seq
             /\ i \in Active' <=> i \in Active /\ i \notin GivenUp
             /\ i \in ToNack => nslots'[i].count = nslots[i].count + 1
             /\ i \notin ToNack => nslots'[i].count = nslots[i].count
  BY <1>2, PumpSlots, Zenon
<1>5. ASSUME NEW i \in Active, NEW j \in Active, Tracked(i) = Tracked(j)
      PROVE  i = j
  BY <1>5, ZenonT(60) DEF NBody, SlotOK
<1>6. ASSUME NEW i \in Active
      PROVE  sent'[Tracked(i)] = nslots'[i].count /\ nslots'[i].count \in Nat
  <2>1. PICK x \in 0 .. MaxExt : x = Tracked(i) /\ sent[x] = nslots[i].count
    BY DEF NBody, SlotOK
  <2>2. (\E j \in ToNack : Tracked(j) = x) <=> i \in ToNack
    BY <1>2, <1>5, <2>1, ZenonT(60)
  <2>3. sent'[x] = sent[x] + IF i \in ToNack THEN 1 ELSE 0
    BY <1>1, <2>2
  <2>4. sent[x] \in Nat
    BY <1>2
  <2> QED
    BY <1>2, <1>4, <2>1, <2>3, <2>4, SMTT(30)
<1>7. \A i \in Active' : SlotOK(i)'
  <2> SUFFICES ASSUME NEW i \in Active' PROVE SlotOK(i)'
    OBVIOUS
  <2>1. i \in NRing
    BY DEF Active
  <2>2. i \in Active /\ nslots'[i].seq = nslots[i].seq
    BY <1>4, <2>1, Zenon
  <2>3. Tracked(i)' = Tracked(i)
    BY <1>1, <2>2, ZenonT(60) DEF Tracked, wrapping_sub, M
  <2>4. SlotOK(i)
    BY <2>2 DEF NBody
  <2> QED
    BY <1>1, <1>6, <2>2, <2>3, <2>4, ZenonT(30), ZenonT(30) DEF SlotOK, nidx, Wire, M
<1>8. ASSUME NEW x \in 0 .. MaxExt
      PROVE  sent'[x] <= MaxRetries /\ (x >= eexp' => sent'[x] = 0)
  <2>1. sent[x] \in Nat /\ sent[x] <= MaxRetries /\ (x >= eexp => sent[x] = 0)
    BY <1>2, ZenonT(60) DEF NBody
  <2>2. CASE \E i \in ToNack : Tracked(i) = x
    <3>1. PICK i \in ToNack : Tracked(i) = x
      BY <2>2, ZenonT(60)
    <3>2. sent[x] = nslots[i].count /\ x < eexp
      BY <1>2, <3>1 DEF NBody, SlotOK
    <3>3. ~(nslots[i].count >= MaxRetries)
      BY <3>1 DEF ToNack, GivenUp
    <3>4. sent'[x] = sent[x] + 1
      BY <1>1, <2>2, Zenon
    <3> QED
      BY <1>1, <1>2, <2>1, <3>2, <3>3, <3>4, NConstants, SMTT(30)
  <2>3. CASE ~ \E i \in ToNack : Tracked(i) = x
    <3>1. sent'[x] = sent[x]
      BY <1>1, <2>1, <2>3, SMTT(30)
    <3> QED
      BY <1>1, <2>1, <3>1, ZenonT(60)
  <2> QED
    BY <2>2, <2>3
<1>9. ASSUME NEW p \in Nat
      PROVE  /\ IsTracked(Wire(p))' => IsTracked(Wire(p))
             /\ IsTracked(Wire(p)) /\ nidx(Wire(p)) \notin GivenUp => IsTracked(Wire(p))'
  <2>1. nidx(Wire(p)) \in NRing
    BY WireType, NidxType
  <2>2. IsTracked(Wire(p)) <=> nidx(Wire(p)) \in Active /\ nslots[nidx(Wire(p))].seq = Wire(p)
    BY <2>1 DEF IsTracked, Active
  <2>3. IsTracked(Wire(p))' <=> nidx(Wire(p)) \in Active' /\ nslots'[nidx(Wire(p))].seq = Wire(p)
    BY <2>1 DEF IsTracked, Active, nidx, Wire, M
  <2> QED
    BY <1>4, <2>1, <2>2, <2>3, Zenon
<1>10. \A p \in pending' : p < eexp' /\ (p >= eexp' - NCap => IsTracked(Wire(p))')
  <2> SUFFICES ASSUME NEW p \in pending'
               PROVE  p < eexp' /\ (p >= eexp' - NCap => IsTracked(Wire(p))')
    BY Zenon
  <2>1. p \in pending /\ p \notin {Tracked(i) : i \in GivenUp} /\ p \in Nat /\ p < eexp
    BY <1>1, <1>2, Zenon DEF NBody, TypeOK
  <2>2. ASSUME p >= eexp - NCap
        PROVE  IsTracked(Wire(p))'
    <3>1. IsTracked(Wire(p))
      BY <2>1, <2>2 DEF NBody
    <3>2. eexp < p + M
      BY <1>2, <2>1, <2>2, NConstants, SMTT(30)
    <3>3. Tracked(nidx(Wire(p))) = p
      BY <1>3, <2>1, <3>1, <3>2, TrackedIs, ZenonT(60)
    <3> QED
      BY <1>9, <2>1, <3>1, <3>3, ZenonT(60)
  <2> QED
    BY <1>1, <2>1, <2>2
<1>11. \A g \in got' : g < eexp' /\ (g >= eexp' - NCap => ~IsTracked(Wire(g))')
  BY <1>1, <1>2, <1>9, ZenonT(30) DEF NBody, TypeOK
<1>12. eexp' <= MaxExt + 1
  BY <1>1, Zenon DEF NBody
<1> QED
  BY <1>1, <1>3, <1>7, <1>8, <1>10, <1>11, <1>12, ZenonT(30) DEF NBody

\* Time, and the delays, do not touch what is tracked.
LEMMA SameBody ==
  ASSUME NBody, TypeOK', UNCHANGED <<started, expected, eexp, got, pending, sent>>,
         \A i \in NRing : /\ nslots'[i].seq = nslots[i].seq /\ nslots'[i].count = nslots[i].count
                          /\ nslots'[i].active = nslots[i].active
  PROVE  NBody' /\ Active' = Active /\ \A i \in Active : Tracked(i)' = Tracked(i)
<1>1. Active' = Active /\ Active \subseteq NRing
  BY Zenon DEF Active
<1>2. ASSUME NEW i \in Active
      PROVE  Tracked(i)' = Tracked(i) /\ SlotOK(i)'
  <2>1. Tracked(i)' = Tracked(i)
    BY <1>1, Zenon DEF Tracked, wrapping_sub, M
  <2>2. SlotOK(i)
    BY Zenon DEF NBody
  <2> QED
    BY <1>1, <2>1, <2>2, ZenonT(30) DEF SlotOK, nidx, Wire, M
<1>3. ASSUME NEW p \in Nat
      PROVE  IsTracked(Wire(p))' <=> IsTracked(Wire(p))
  <2>1. nidx(Wire(p)) \in NRing
    BY WireType, NidxType, ZenonT(60)
  <2> QED
    BY <2>1, Zenon DEF IsTracked, nidx, Wire, M
<1>4. pending \subseteq Nat /\ got \subseteq Nat
  BY DEF NBody, TypeOK
<1> QED
  BY <1>1, <1>2, <1>3, <1>4, Zenon DEF NBody

\* Every step keeps the invariant.
LEMMA NInvNext == TypeOK /\ NInv /\ [Next]_vars => NInv'
<1> SUFFICES ASSUME TypeOK, NInv, [Next]_vars, ~lapped'
             PROVE  NBody'
  BY DEF NInv
<1>1. TypeOK'
  BY TypeNext
<1>2. ~lapped
  BY Zenon DEF Next, OnPacketReceived, Pump, RttUpdate, Tick, vars
<1>3. NBody
  BY <1>2 DEF NInv
<1>4. ASSUME NEW e \in 0 .. MaxExt, OnPacketReceived(e)
      PROVE  NBody'
  <2>1. CASE ~started
    BY <1>1, <1>3, <1>4, <2>1, ArriveFirst, ZenonT(60)
  <2>2. CASE started
    BY <1>1, <1>3, <1>4, <2>2, ArriveCases, ArriveLate, ArriveGap, ArriveOn, ZenonT(60)
  <2> QED
    BY <2>1, <2>2, Zenon
<1>5. CASE Pump
  BY <1>1, <1>3, <1>5, PumpBody, Zenon
<1>6. ASSUME NEW r \in Rtts, RttUpdate(r)
      PROVE  NBody'
  BY <1>1, <1>3, <1>6, SameBody, ZenonT(60) DEF RttUpdate
<1>7. CASE Tick
  <2>1. UNCHANGED <<started, expected, eexp, got, pending, sent>>
    BY <1>7 DEF Tick
  <2> QED
    BY <1>1, <1>3, <1>7, <2>1, TickSlots, SameBody
<1>8. CASE UNCHANGED vars
  BY <1>1, <1>3, <1>8, SameBody DEF vars, codeVars
<1> QED
  BY <1>4, <1>5, <1>6, <1>7, <1>8 DEF Next

\* The scheduler's invariant holds in every behaviour.
LEMMA NInvAlways == Spec => [](TypeOK /\ NInv)
<1>1. Init => TypeOK /\ NInv
  BY TypeInit, InitBody DEF NInv
<1>2. TypeOK /\ NInv /\ [Next]_vars => TypeOK' /\ NInv'
  BY TypeNext, NInvNext
<1> QED
  BY <1>1, <1>2, PTL DEF Spec

\* The scheduler's ring tracks exactly what is missing of the last NCap packets:
\* what a gap flagged stays tracked until it is received or given up, and what
\* was received is not asked for again (on_packet_received, get_pending_nacks),
\* for every ring size, gap limit and order of arrival.
THEOREM MissingIsTracked == Spec => []TracksTheMissing
<1>1. TypeOK /\ NInv => TracksTheMissing
  BY DEF NInv, NBody, TracksTheMissing, TypeOK
<1> QED
  BY <1>1, NInvAlways, PTL

\* No packet is asked for more than max_retries times over its whole life, though
\* the count lives in a slot that is reused: the slot's count is the number of
\* NACKs ever sent for the packet it tracks.
THEOREM BudgetIsKept == Spec => []RetryBudget
<1>1. TypeOK /\ NInv => RetryBudget
  BY DEF NInv, NBody, RetryBudget
<1> QED
  BY <1>1, NInvAlways, PTL

-----------------------------------------------------------------------------
(* The inductive invariant of recovery *)

\* A slot of the sender's ring is empty or holds, at its place, one of the last M
\* packets.
RingOK(r, n) ==
  /\ DOMAIN r = 0 .. (RCap - 1)
  /\ \A j \in 0 .. (RCap - 1) :
       \/ r[j] = EmptyRetx
       \/ \E d \in 0 .. (n - 1) :
            r[j] = [seq |-> Wire(d), data |-> d] /\ ridx(Wire(d)) = j /\ n <= d + M

\* The last attempt for e, if one was made, has failed, is late, or is under way
\* and late in w ticks at the latest.
Awaited(e, w) ==
  sent[e] # 0 => \/ <<e, sent[e]>> \in failed \cup late
                 \/ <<e, sent[e]>> \in UnderWay /\ left[e] <= w

\* What slot i tracks is still in the sender's reach, and its last attempt fails or
\* is late by the time the slot is due.
AskedOK(i) == next - Tracked(i) < M /\ Awaited(Tracked(i), nslots[i].wait)

\* An attempt is one for a packet that was expected and is in the sender's reach.
AttemptOK(a) == a = <<a[1], a[2]>> /\ a[1] \in Nat /\ a[1] < eexp /\ next - a[1] < M

RBody ==
  /\ NBody /\ ~lapped
  /\ next \in Nat /\ next <= MaxExt + 1 /\ eexp <= next /\ (started => next - eexp <= Half)
  /\ \A e \in media : e \in 0 .. (next - 1) /\ next - e <= Half
  /\ base_delay >= Floor
  /\ left \in [0 .. MaxExt -> Nat] /\ Overdue \subseteq late
  /\ RingOK(ring, next)
  /\ \A a \in UnderWay : AttemptOK(a)
  /\ \A i \in Active : AskedOK(i)
  /\ NoNeedlessNack

\* The sequence numbers repeat after M packets.
LEMMA WireAround ==
  ASSUME NEW d \in Nat
  PROVE  Wire(d + M) = Wire(d)
<1>1. M \in 0 .. M /\ d % M \in 0 .. (M - 1)
  BY NConstants, ModRange
<1>2. (d + M) % M = IF (d % M) + M < M THEN (d % M) + M ELSE (d % M) + M - M
  BY <1>1, NConstants, ModAdd, ZenonT(30), Zenon
<1>3. PICK r \in 0 .. (M - 1) : r = d % M
  BY <1>1
<1>4. (d + M) % M = r
  BY <1>2, <1>3, NConstants
<1> QED
  BY <1>3, <1>4 DEF Wire

\* A packet that is sent takes the place of the one M before it, at the latest.
LEMMA InsertKeepsRing ==
  ASSUME NEW r, NEW n \in Nat, RingOK(r, n)
  PROVE  RingOK(insertRetx(r, Wire(n), n), n + 1)
<1> DEFINE q == insertRetx(r, Wire(n), n)
<1>1. RCap \in Nat \ {0} /\ Wire(n) \in SeqNos /\ Wire(n) \in Nat
  BY RingAssumption, WireType, NConstants DEF SeqNos
<1>2. ridx(Wire(n)) \in 0 .. (RCap - 1)
  BY <1>1, ModRange, Zenon DEF ridx
<1>3. /\ DOMAIN q = 0 .. (RCap - 1)
      /\ q[ridx(Wire(n))] = [seq |-> Wire(n), data |-> n]
      /\ \A j \in 0 .. (RCap - 1) : j # ridx(Wire(n)) => q[j] = r[j]
  BY <1>2, Zenon DEF insertRetx, RingOK
<1> HIDE DEF q
<1>4. ASSUME NEW j \in 0 .. (RCap - 1)
      PROVE  \/ q[j] = EmptyRetx
             \/ \E d \in 0 .. n :
                  q[j] = [seq |-> Wire(d), data |-> d] /\ ridx(Wire(d)) = j /\ n + 1 <= d + M
  <2>1. CASE j = ridx(Wire(n))
    <3>1. n \in 0 .. n /\ n + 1 <= n + M
      BY NConstants, SMTT(30)
    <3> QED
      BY <1>3, <2>1, <3>1
  <2>2. CASE j # ridx(Wire(n))
    <3>1. q[j] = r[j]
      BY <1>3, <2>2, Zenon
    <3>2. CASE r[j] = EmptyRetx
      BY <3>1, <3>2, Zenon
    <3>3. CASE r[j] # EmptyRetx
      <4>1. PICK d \in 0 .. (n - 1) :
              r[j] = [seq |-> Wire(d), data |-> d] /\ ridx(Wire(d)) = j /\ n <= d + M
        BY <3>3, ZenonT(60) DEF RingOK
      <4>2. d \in Nat /\ d \in 0 .. n
        BY <4>1
      <4>3. n # d + M
        BY <2>2, <4>1, <4>2, WireAround, ZenonT(60)
      <4>4. n + 1 <= d + M
        BY <4>1, <4>2, <4>3, NConstants
      <4> QED
        BY <3>1, <4>1, <4>2, <4>4, Zenon
    <3> QED
      BY <3>2, <3>3, Zenon
  <2> QED
    BY <2>1, <2>2, ZenonT(60)
<1>5. n + 1 - 1 = n
  BY SMTT(30)
<1>6. RingOK(q, n + 1)
  BY <1>3, <1>4, <1>5, SMTT(30) DEF RingOK
<1> QED
  BY <1>6 DEF q

\* What the ring returns for one of the last M packets' numbers is that packet.
LEMMA PacketIsAsked ==
  ASSUME RBody, NEW e \in Nat, e < next, next - e < M, holds(ring, Wire(e))
  PROVE  packet(ring, Wire(e)) = e
<1>1. RCap \in Nat \ {0} /\ Wire(e) \in SeqNos /\ Wire(e) \in Nat
  BY RingAssumption, WireType, NConstants, SMTT(30) DEF SeqNos
<1>2. ridx(Wire(e)) \in 0 .. (RCap - 1)
  BY <1>1, ModRange DEF ridx
<1>3. ring[ridx(Wire(e))].seq = Wire(e)
  BY Zenon DEF holds
<1>4. ring[ridx(Wire(e))] # EmptyRetx
  BY <1>1, <1>3, SMTT(30) DEF EmptyRetx
<1>5. PICK d \in 0 .. (next - 1) :
        ring[ridx(Wire(e))] = [seq |-> Wire(d), data |-> d] /\ next <= d + M
  BY <1>2, <1>4, ZenonT(60) DEF RBody, RingOK
<1>6. Wire(d) = Wire(e)
  BY <1>3, <1>5, SMTT(30)
<1>7. d \in Nat /\ d < e + M /\ e < d + M
  BY <1>5, NConstants DEF RBody
<1>8. d = e
  BY <1>6, <1>7, WiresDiffer, ZenonT(60)
<1> QED
  BY <1>5, <1>8 DEF packet

\* A step of the network or of the sender leaves the scheduler as it was.
LEMMA SchedulerSame ==
  ASSUME RBody, UNCHANGED vars
  PROVE  /\ NBody' /\ ~lapped' /\ Active' = Active /\ \A i \in Active : Tracked(i)' = Tracked(i)
         /\ UNCHANGED <<nslots, eexp, started, sent, base_delay, rtt, pending>>
<1>1. UNCHANGED <<nslots, started, expected, eexp, got, pending, sent, lapped, base_delay, rtt>>
  BY DEF vars, codeVars
<1>2. TypeOK'
  BY TypeNext DEF RBody, NBody
<1> QED
  BY <1>1, <1>2, SameBody DEF RBody

\* Attempts may end, if each that ends counts as a failure.
LEMMA AttemptsEnd ==
  ASSUME RBody, UNCHANGED <<vars, ring, next, late, left>>, media' \subseteq media,
         UnderWay' \subseteq UnderWay, failed \subseteq failed', UnderWay \subseteq UnderWay' \cup failed'
  PROVE  RBody'
<1>1. /\ NBody' /\ ~lapped' /\ Active' = Active /\ \A i \in Active : Tracked(i)' = Tracked(i)
      /\ UNCHANGED <<nslots, eexp, started, sent, base_delay, rtt>>
  BY SchedulerSame, Zenon
<1>2. ASSUME NEW i \in Active
      PROVE  AskedOK(i)'
  <2>1. AskedOK(i) /\ Tracked(i)' = Tracked(i)
    BY <1>1, Zenon DEF RBody
  <2>2. next' - Tracked(i)' < M /\ next' = next /\ M' = M
    BY <2>1, Zenon DEF AskedOK, M
  <2>3. Awaited(Tracked(i), nslots[i].wait)
    BY <2>1, Zenon DEF AskedOK
  <2>4. Awaited(Tracked(i), nslots[i].wait)'
    BY <1>1, <2>1, <2>3, Zenon DEF Awaited
  <2> QED
    BY <2>2, <2>4, Zenon DEF AskedOK
<1>3. NoNeedlessNack'
  BY <1>1, Zenon DEF RBody, NoNeedlessNack, Excused
<1>4. RingOK(ring, next)'
  BY Zenon DEF RBody, RingOK, Wire, ridx, M
<1>5. (\A a \in UnderWay : AttemptOK(a))'
  BY <1>1, Zenon DEF RBody, AttemptOK, M
<1>6. (Overdue \subseteq late)' /\ left' \in [0 .. MaxExt -> Nat]
  BY Zenon DEF RBody, Overdue
<1>7. \A e \in media' : e \in 0 .. (next' - 1) /\ next' - e <= Half
  BY Zenon DEF RBody
<1>8. /\ next' \in Nat /\ next' <= MaxExt + 1 /\ eexp' <= next' /\ (started' => next' - eexp' <= Half)
      /\ base_delay' >= Floor
  BY <1>1, Zenon DEF RBody
<1> QED
  BY <1>1, <1>2, <1>3, <1>4, <1>5, <1>6, <1>7, <1>8, ZenonT(60) DEF RBody

\* The losses, and the sender's answer.
LEMMA QuietBody ==
  ASSUME RBody,
         \/ \E e \in media : LoseMedia(e)
         \/ \E a \in resent : LoseResent(a)
         \/ \E n \in nacks : LoseNack(n)
         \/ \E n \in nacks : ServeNack(n)
         \/ UNCHANGED rvars
  PROVE  RBody'
<1>1. ASSUME UNCHANGED <<vars, ring, next, nacks, resent, failed, late, left>>, media' \subseteq media
      PROVE  RBody'
  <2>1. UnderWay' = UnderWay
    BY <1>1, Zenon DEF UnderWay
  <2> QED
    BY <1>1, <2>1, AttemptsEnd, Zenon
<1>2. ASSUME NEW a \in resent, LoseResent(a)
      PROVE  RBody'
  <2>1. /\ UNCHANGED <<vars, ring, next, media, nacks, late, left>>
        /\ resent' = resent \ {a} /\ failed' = failed \cup {a}
    BY <1>2, Zenon DEF LoseResent
  <2>2. UnderWay' \subseteq UnderWay /\ UnderWay \subseteq UnderWay' \cup failed'
    BY <2>1, Zenon DEF UnderWay
  <2> QED
    BY <2>1, <2>2, AttemptsEnd, Zenon
<1>3. ASSUME NEW n \in nacks, LoseNack(n)
      PROVE  RBody'
  <2>1. /\ UNCHANGED <<vars, ring, next, media, resent, late, left>>
        /\ nacks' = nacks \ {n} /\ failed' = failed \cup n
    BY <1>3, Zenon DEF LoseNack
  <2>2. UnderWay' \subseteq UnderWay /\ UnderWay \subseteq UnderWay' \cup failed'
    BY <2>1, Zenon DEF UnderWay
  <2> QED
    BY <2>1, <2>2, AttemptsEnd, Zenon
<1>4. ASSUME NEW n \in nacks, ServeNack(n)
      PROVE  RBody'
  <2> DEFINE hits == {a \in n : holds(ring, Wire(a[1]))}
             answers == {<<packet(ring, Wire(a[1])), a[2]>> : a \in hits}
  <2>1. /\ UNCHANGED <<vars, ring, next, media, late, left>> /\ nacks' = nacks \ {n}
        /\ resent' = resent \cup answers /\ failed' = failed \cup (n \ hits)
    BY <1>4, Zenon DEF ServeNack
  <2>2. ASSUME NEW a \in hits
        PROVE  <<packet(ring, Wire(a[1])), a[2]>> = a
    <3>1. a \in UnderWay
      BY Zenon DEF UnderWay
    <3>2. AttemptOK(a) /\ next \in Nat /\ eexp \in Nat /\ eexp <= next
      BY <3>1, ZenonT(60) DEF RBody, NBody, TypeOK
    <3>3. a[1] \in Nat /\ a[1] < next /\ next - a[1] < M
      BY <3>2 DEF AttemptOK
    <3>4. packet(ring, Wire(a[1])) = a[1]
      BY <3>3, PacketIsAsked, Zenon
    <3> QED
      BY <3>2, <3>4, Zenon DEF AttemptOK
  <2>3. answers \subseteq n /\ hits \subseteq answers
    BY <2>2, Zenon
  <2> HIDE DEF hits, answers
  <2>4. UnderWay' \subseteq UnderWay /\ UnderWay \subseteq UnderWay' \cup failed'
    BY <2>1, <2>3, Zenon DEF UnderWay
  <2>5. media' \subseteq media /\ failed \subseteq failed'
    BY <2>1, Zenon
  <2> QED
    BY <2>1, <2>4, <2>5, AttemptsEnd, Zenon
<1>5. ASSUME NEW e \in media, LoseMedia(e)
      PROVE  RBody'
  BY <1>1, <1>5, ZenonT(60) DEF LoseMedia
<1>6. CASE UNCHANGED rvars
  BY <1>1, <1>6 DEF rvars, wire
<1> QED
  BY <1>2, <1>3, <1>4, <1>5, <1>6, Zenon

\* Arithmetic: a packet less than half the number space back is still in reach
\* after one more, a bound passes up a chain, and so does reach.
LEMMA StepOn ==
  ASSUME NEW n \in Nat, NEW e \in Nat, n - e < Half
  PROVE  (n + 1) - e < M
BY NConstants

LEMMA InReach ==
  ASSUME NEW n \in Nat, NEW k \in Nat, NEW x \in Nat, n <= k, k - x < M
  PROVE  ~(n - x >= M)
BY NConstants, SMTT(30)

\* The sender goes on: what is tracked or under way stays in its reach.
LEMMA SendBody ==
  ASSUME RBody, SendMedia
  PROVE  RBody'
<1>1. /\ next <= MaxExt /\ ring' = insertRetx(ring, Wire(next), next)
      /\ media' = media \cup {next} /\ next' = next + 1
      /\ UNCHANGED <<vars, nacks, resent, failed, late, left>>
      /\ \A e \in InFlight \cup (IF started THEN {eexp} ELSE {}) : next - e < Half
      /\ \A i \in Active : next + 1 - Tracked(i) < M
  BY Zenon DEF SendMedia
<1>2. /\ NBody' /\ ~lapped' /\ Active' = Active /\ \A i \in Active : Tracked(i)' = Tracked(i)
      /\ UNCHANGED <<nslots, eexp, started, sent, base_delay, rtt>>
  BY <1>1, SchedulerSame, Zenon
<1>3. next \in Nat /\ eexp \in Nat /\ eexp <= next /\ UnderWay' = UnderWay
  BY <1>1, Zenon DEF RBody, NBody, TypeOK, UnderWay
<1>4. RingOK(ring, next)'
  <2>1. RingOK(ring', next')
    BY <1>1, <1>3, InsertKeepsRing, Zenon DEF RBody
  <2> QED
    BY <2>1, Zenon DEF RingOK, Wire, ridx, M
<1>5. ASSUME NEW i \in Active
      PROVE  AskedOK(i)'
  <2>1. Tracked(i)' = Tracked(i) /\ AskedOK(i)
    BY <1>2, Zenon DEF RBody
  <2>2. next' - Tracked(i) < M
    <3>1. PICK x \in 0 .. MaxExt : x = Tracked(i)
      BY Zenon DEF RBody, NBody, SlotOK
    <3>2. next + 1 - x < M
      BY <1>1, <3>1, ZenonT(60)
    <3>3. next' - x < M
      BY <1>1, <1>3, <3>2, SMTT(30)
    <3> QED
      BY <3>1, <3>3, Zenon
  <2>3. Awaited(Tracked(i), nslots[i].wait)'
    BY <1>1, <1>2, <1>3, <2>1, ZenonT(60) DEF AskedOK, Awaited
  <2> QED
    BY <2>1, <2>2, <2>3, Zenon DEF AskedOK, M
<1>6. (\A a \in UnderWay : AttemptOK(a))'
  <2> SUFFICES ASSUME NEW a \in UnderWay PROVE AttemptOK(a)'
    BY <1>3, Zenon
  <2>1. AttemptOK(a)
    BY Zenon DEF RBody
  <2>2. next - a[1] < Half
    BY <1>1, Zenon DEF InFlight
  <2>3. (next + 1) - a[1] < M
    BY <1>3, <2>1, <2>2, StepOn, ZenonT(60) DEF AttemptOK
  <2> QED
    BY <1>1, <1>2, <2>1, <2>3, ZenonT(60) DEF AttemptOK, M
<1>7. \A e \in media' : e \in 0 .. (next' - 1) /\ next' - e <= Half
  <2> SUFFICES ASSUME NEW e \in media \cup {next}
               PROVE  e \in 0 .. (next' - 1) /\ next' - e <= Half
    BY <1>1
  <2>1. CASE e \in media
    <3>1. next - e < Half /\ e \in 0 .. (next - 1)
      BY <1>1, <2>1, ZenonT(60) DEF InFlight, RBody
    <3> QED
      BY <1>1, <1>3, <3>1, NConstants, SMTT(30)
  <2>2. CASE e = next
    BY <1>1, <1>3, <2>2, NConstants, SMTT(30)
  <2> QED
    BY <2>1, <2>2
<1>8. next' \in Nat /\ next' <= MaxExt + 1 /\ eexp' <= next'
  BY <1>1, <1>2, <1>3, NConstants, SMTT(30)
<1>9. started' => next' - eexp' <= Half
  <2>1. started => next - eexp < Half
    BY <1>1, Zenon
  <2> QED
    BY <1>1, <1>2, <1>3, <2>1, NConstants, SMTT(30)
<1>10. /\ base_delay' >= Floor /\ left' \in [0 .. MaxExt -> Nat] /\ (Overdue \subseteq late)'
       /\ NoNeedlessNack'
  BY <1>1, <1>2, <1>3, ZenonT(60) DEF RBody, NoNeedlessNack, Excused, Overdue
<1> QED
  BY <1>2, <1>4, <1>5, <1>6, <1>7, <1>8, <1>9, <1>10, ZenonT(60) DEF RBody

\* Arithmetic: of the first n attempts all are the last one or among those before.
LEMMA LastOrBefore ==
  ASSUME NEW n \in Nat, NEW k \in 1 .. n
  PROVE  n # 0 /\ (k = n \/ k \in 1 .. (n - 1))
OBVIOUS

\* Arithmetic: an attempt that outlives its slot's wait by nothing has no time left.
LEMMA NoTimeLeft ==
  ASSUME NEW t \in Nat, NEW w, w = 0, t <= w
  PROVE  t = 0
OBVIOUS

\* When a slot is due, all attempts for its packet have failed or are late.
LEMMA DueMeansExcused ==
  ASSUME RBody, NEW i \in DueSlots
  PROVE  /\ i \in Active /\ Tracked(i) \in 0 .. MaxExt
         /\ Excused(Tracked(i), sent[Tracked(i)])
<1>1. i \in Active /\ nslots[i].wait = 0
  BY Zenon DEF DueSlots
<1>2. PICK x \in 0 .. MaxExt : x = Tracked(i)
  BY <1>1, Zenon DEF RBody, NBody, SlotOK
<1>3. Awaited(x, nslots[i].wait)
  BY <1>1, <1>2, Zenon DEF RBody, AskedOK
<1>4. sent[x] \in Nat /\ left[x] \in Nat /\ Overdue \subseteq late
  BY Zenon DEF RBody, NBody, TypeOK
<1>5. ASSUME sent[x] # 0
      PROVE  <<x, sent[x]>> \in failed \cup late
  <2>1. CASE <<x, sent[x]>> \in UnderWay /\ left[x] <= nslots[i].wait
    <3>1. left[x] = 0
      BY <1>1, <1>4, <2>1, NoTimeLeft, ZenonT(60)
    <3>2. <<x, sent[x]>>[1] = x
      OBVIOUS
    <3> QED
      BY <1>4, <2>1, <3>1, <3>2, ZenonT(60) DEF Overdue
  <2> QED
    BY <1>3, <1>5, <2>1, Zenon DEF Awaited
<1>6. Excused(x, sent[x] - 1)
  BY Zenon DEF RBody, NoNeedlessNack
<1>7. Excused(x, sent[x])
  BY <1>4, <1>5, <1>6, LastOrBefore, Zenon DEF Excused
<1> QED
  BY <1>1, <1>2, <1>7, Zenon

\* The pump asks only for packets all of whose attempts have failed or are late.
LEMMA PumpNacksBody ==
  ASSUME RBody, PumpNacks
  PROVE  RBody'
<1> DEFINE asked == {Tracked(i) : i \in ToNack}
           made == {<<e, sent[e] + 1>> : e \in asked}
<1>1. /\ Pump /\ nacks' = nacks \cup ({made} \ {{}})
      /\ left' = [e \in 0 .. MaxExt |-> IF e \in asked THEN RoundTrip ELSE left[e]]
      /\ UNCHANGED <<ring, next, media, resent, failed>> /\ late' = late \cup Overdue'
  BY Zenon DEF PumpNacks
<1>2. NBody /\ TypeOK /\ TypeOK'
  BY <1>1, TypeNext, Zenon DEF RBody, NBody, Next
<1>3. NBody'
  BY <1>1, <1>2, PumpBody, Zenon
<1>4. /\ sent' = [e \in 0 .. MaxExt |->
                    sent[e] + IF \E i \in ToNack : Tracked(i) = e THEN 1 ELSE 0]
      /\ UNCHANGED <<started, expected, base_delay, rtt, eexp, lapped>>
  BY <1>1, Zenon DEF Pump
<1>5. UnderWay' = UnderWay \cup made
  BY <1>1, ZenonT(30) DEF UnderWay
<1>6. /\ ToNack \subseteq DueSlots /\ DueSlots \subseteq Active /\ Active \subseteq NRing
      /\ sent \in [0 .. MaxExt -> Nat] /\ left \in [0 .. MaxExt -> Nat]
      /\ next \in Nat /\ eexp \in Nat
  BY <1>2, Zenon DEF ToNack, DueSlots, Active, TypeOK, RBody
<1>7. ASSUME NEW i \in NRing
      PROVE  /\ nslots'[i].seq = nslots[i].seq
             /\ i \in Active' => i \in Active
             /\ i \in ToNack => nslots'[i].wait = IF rtt = NoRtt THEN base_delay ELSE rtt
             /\ i \in Active' /\ i \notin ToNack => nslots'[i] = nslots[i]
  BY <1>1, <1>2, PumpSlots, Zenon
<1>8. \A e \in asked : e \in 0 .. MaxExt /\ Excused(e, sent[e])
  BY <1>6, DueMeansExcused, ZenonT(60)
<1>9. ASSUME NEW e \in 0 .. MaxExt
      PROVE  /\ sent[e] \in Nat
             /\ e \in asked => sent'[e] = sent[e] + 1 /\ left'[e] = RoundTrip
             /\ e \notin asked => sent'[e] = sent[e] /\ left'[e] = left[e]
  <2>1. sent[e] \in Nat
    BY <1>6, Zenon
  <2>2. sent'[e] = sent[e] + IF e \in asked THEN 1 ELSE 0
    BY <1>4, Zenon
  <2>3. left'[e] = IF e \in asked THEN RoundTrip ELSE left[e]
    BY <1>1, Zenon
  <2> QED
    BY <2>1, <2>2, <2>3
<1> HIDE DEF asked
<1>10. RoundTrip \in Nat /\ RoundTrip <= IF rtt = NoRtt THEN base_delay ELSE rtt
  <2>1. CASE rtt = NoRtt
    BY <1>2, <2>1, NConstants DEF RoundTrip, RBody, TypeOK
  <2>2. CASE rtt # NoRtt
    <3>1. rtt \in Nat
      BY <1>2, <2>2, Zenon DEF TypeOK
    <3> QED
      BY <2>2, <3>1 DEF RoundTrip
  <2> QED
    BY <2>1, <2>2, ZenonT(60)
<1>11. \A i \in Active' : AskedOK(i)'
  <2> SUFFICES ASSUME NEW i \in Active' PROVE AskedOK(i)'
    OBVIOUS
  <2>1. i \in NRing
    BY Zenon DEF Active
  <2>2. i \in Active /\ nslots'[i].seq = nslots[i].seq
    BY <1>7, <2>1, Zenon
  <2>3. Tracked(i)' = Tracked(i)
    BY <1>4, <2>2, Zenon DEF Tracked, wrapping_sub, M
  <2>4. PICK x \in 0 .. MaxExt : x = Tracked(i)
    BY <1>2, <2>2, Zenon DEF NBody, SlotOK
  <2>5. next - x < M /\ Awaited(x, nslots[i].wait)
    BY <2>2, <2>4, Zenon DEF RBody, AskedOK
  <2>6. x \in asked <=> i \in ToNack
    <3>1. \A j \in Active : nidx(Wire(Tracked(j))) = j
      BY <1>2, Zenon DEF NBody, SlotOK
    <3>2. \A j \in ToNack : j \in Active
      BY <1>6, Zenon
    <3> QED
      BY <2>2, <2>4, <3>1, <3>2, ZenonT(60) DEF asked
  <2>7. Awaited(x, nslots[i].wait)'
    <3>1. CASE i \in ToNack
      <4>1. <<x, sent'[x]>> \in UnderWay'
        BY <1>5, <1>9, <2>6, <3>1, Zenon
      <4>2. left'[x] = RoundTrip /\ nslots'[i].wait = IF rtt = NoRtt THEN base_delay ELSE rtt
        BY <1>7, <1>9, <2>1, <2>6, <3>1, ZenonT(60)
      <4>3. left'[x] <= nslots'[i].wait
        BY <1>10, <4>2, Zenon
      <4> QED
        BY <4>1, <4>3, Zenon DEF Awaited
    <3>2. CASE i \notin ToNack
      <4>1. nslots'[i] = nslots[i] /\ sent'[x] = sent[x] /\ left'[x] = left[x]
        BY <1>7, <1>9, <2>1, <2>6, <3>2, ZenonT(60)
      <4>2. UnderWay \subseteq UnderWay' /\ failed' = failed /\ late \subseteq late'
        BY <1>1, <1>5, Zenon
      <4> QED
        BY <2>5, <4>1, <4>2, ZenonT(60) DEF Awaited
    <3> QED
      BY <3>1, <3>2, Zenon
  <2> QED
    BY <1>1, <2>3, <2>4, <2>5, <2>7, ZenonT(60) DEF AskedOK, M
<1>12. NoNeedlessNack'
  <2> SUFFICES ASSUME NEW e \in 0 .. MaxExt PROVE Excused(e, sent[e] - 1)'
    BY Zenon DEF NoNeedlessNack
  <2>1. failed' = failed /\ late \subseteq late'
    BY <1>1, Zenon
  <2>2. CASE e \in asked
    <3>1. Excused(e, sent[e]) /\ sent[e] \in Nat /\ sent'[e] = sent[e] + 1
      BY <1>8, <1>9, <2>2, Zenon
    <3>2. sent'[e] - 1 = sent[e]
      BY <3>1
    <3> QED
      BY <2>1, <3>1, <3>2, Zenon DEF Excused
  <2>3. CASE e \notin asked
    <3>1. Excused(e, sent[e] - 1) /\ sent'[e] = sent[e]
      BY <1>9, <2>3, Zenon DEF RBody, NoNeedlessNack
    <3> QED
      BY <2>1, <3>1, Zenon DEF Excused
  <2> QED
    BY <2>2, <2>3, Zenon
<1>13. (\A a \in UnderWay : AttemptOK(a))'
  <2> SUFFICES ASSUME NEW a \in UnderWay' PROVE AttemptOK(a)'
    OBVIOUS
  <2>1. CASE a \in UnderWay
    BY <1>1, <1>4, <2>1, Zenon DEF RBody, AttemptOK, M
  <2>2. CASE a \in made
    <3>1. PICK i \in ToNack : a = <<Tracked(i), sent[Tracked(i)] + 1>>
      BY <2>2, Zenon DEF asked
    <3>2. i \in Active
      BY <1>6, Zenon
    <3>3. SlotOK(i) /\ AskedOK(i)
      BY <3>2, Zenon DEF RBody, NBody
    <3>4. a[1] = Tracked(i) /\ a = <<a[1], a[2]>>
      BY <3>1
    <3>5. Tracked(i) \in Nat
      BY <3>3, NConstants DEF SlotOK
    <3> QED
      BY <1>1, <1>4, <3>3, <3>4, <3>5, ZenonT(60) DEF SlotOK, AskedOK, AttemptOK, M
  <2> QED
    BY <1>5, <2>1, <2>2, Zenon
<1>14. RingOK(ring, next)'
  BY <1>1, Zenon DEF RBody, RingOK, Wire, ridx, M
<1>15. left' \in [0 .. MaxExt -> Nat] /\ (Overdue \subseteq late)'
  BY <1>1, <1>6, <1>10, Zenon
<1>16. /\ ~lapped' /\ next' \in Nat /\ next' <= MaxExt + 1 /\ eexp' <= next'
       /\ (started' => next' - eexp' <= Half) /\ base_delay' >= Floor
       /\ \A e \in media' : e \in 0 .. (next' - 1) /\ next' - e <= Half
  BY <1>1, <1>4, ZenonT(30) DEF RBody
<1> QED
  BY <1>3, <1>11, <1>12, <1>13, <1>14, <1>15, <1>16, ZenonT(60) DEF RBody

\* Arithmetic: time runs out for an attempt no later than for its slot.
LEMMA BothRun ==
  ASSUME NEW t \in Nat, NEW w \in Nat, t <= w
  PROVE  (IF t > 0 THEN t - 1 ELSE 0) <= (IF w > 0 THEN w - 1 ELSE 0)
OBVIOUS

\* A tick takes time from the attempts and from their slots alike.
LEMMA TickBody ==
  ASSUME RBody, TickAll
  PROVE  RBody'
<1>1. /\ Tick /\ left' = [e \in 0 .. MaxExt |-> IF left[e] > 0 THEN left[e] - 1 ELSE 0]
      /\ UNCHANGED <<ring, next, media, nacks, resent, failed>> /\ late' = late \cup Overdue'
  BY Zenon DEF TickAll
<1>2. NBody /\ TypeOK /\ TypeOK'
  BY <1>1, TypeNext, Zenon DEF RBody, NBody, Next
<1>3. UNCHANGED <<started, expected, eexp, got, pending, sent, lapped, base_delay, rtt>>
  BY <1>1, Zenon DEF Tick
<1>4. NBody' /\ Active' = Active /\ \A i \in Active : Tracked(i)' = Tracked(i)
  BY <1>1, <1>2, <1>3, TickSlots, SameBody, ZenonT(30)
<1>5. UnderWay' = UnderWay /\ late \subseteq late' /\ failed' = failed
  BY <1>1, Zenon DEF UnderWay
<1>6. left \in [0 .. MaxExt -> Nat] /\ left' \in [0 .. MaxExt -> Nat]
  <2>1. left \in [0 .. MaxExt -> Nat]
    BY Zenon DEF RBody
  <2> QED
    BY <1>1, <2>1
<1>7. \A i \in Active' : AskedOK(i)'
  <2> SUFFICES ASSUME NEW i \in Active PROVE AskedOK(i)'
    BY <1>4, Zenon
  <2>1. PICK x \in 0 .. MaxExt : x = Tracked(i) /\ Tracked(i)' = x
    BY <1>2, <1>4, Zenon DEF NBody, SlotOK
  <2>2. next - x < M /\ Awaited(x, nslots[i].wait)
    BY <2>1, Zenon DEF RBody, AskedOK
  <2>3. ASSUME left[x] <= nslots[i].wait
        PROVE  left'[x] <= nslots'[i].wait
    <3>1. i \in NRing
      BY Zenon DEF Active
    <3>2. left[x] \in Nat /\ nslots[i].wait \in Nat
      BY <1>2, <1>6, <3>1, SlotFields, ZenonT(60)
    <3>3. left'[x] = IF left[x] > 0 THEN left[x] - 1 ELSE 0
      BY <1>1, Zenon
    <3>4. nslots'[i].wait = IF nslots[i].wait > 0 THEN nslots[i].wait - 1 ELSE 0
      BY <1>1, <1>2, <3>1, TickSlots, ZenonT(60)
    <3> QED
      BY <2>3, <3>2, <3>3, <3>4, BothRun, ZenonT(60)
  <2>4. Awaited(x, nslots[i].wait)'
    BY <1>3, <1>5, <2>2, <2>3, ZenonT(60) DEF Awaited
  <2> QED
    BY <1>1, <2>1, <2>2, <2>4, ZenonT(60) DEF AskedOK, M
<1>8. NoNeedlessNack'
  BY <1>3, <1>5, Zenon DEF RBody, NoNeedlessNack, Excused
<1>9. (\A a \in UnderWay : AttemptOK(a))'
  BY <1>1, <1>3, <1>5, Zenon DEF RBody, AttemptOK, M
<1>10. RingOK(ring, next)'
  BY <1>1, Zenon DEF RBody, RingOK, Wire, ridx, M
<1>11. /\ ~lapped' /\ next' \in Nat /\ next' <= MaxExt + 1 /\ eexp' <= next'
       /\ (started' => next' - eexp' <= Half) /\ base_delay' >= Floor
       /\ (\A e \in media' : e \in 0 .. (next' - 1) /\ next' - e <= Half)
       /\ (Overdue \subseteq late)'
  BY <1>1, <1>3, Zenon DEF RBody
<1> QED
  BY <1>4, <1>6, <1>7, <1>8, <1>9, <1>10, <1>11, ZenonT(60) DEF RBody

\* An echo changes the delays to come, and none below the floor before a retry.
LEMMA EchoBody ==
  ASSUME RBody, Echo
  PROVE  RBody'
<1>1. UNCHANGED wire /\ \E r \in Rtts : RttUpdate(r)
  BY Zenon DEF Echo
<1>2. UNCHANGED <<ring, next, media, nacks, resent, failed, late, left>>
  BY <1>1, Zenon DEF wire
<1>3. PICK r \in Rtts : RttUpdate(r)
  BY <1>1, Zenon
<1>4. NBody /\ TypeOK /\ TypeOK'
  BY <1>3, TypeNext, Zenon DEF RBody, NBody, Next
<1>5. UNCHANGED <<nslots, started, expected, eexp, got, pending, sent, lapped>>
  BY <1>3, Zenon DEF RttUpdate
<1>6. NBody' /\ Active' = Active /\ \A i \in Active : Tracked(i)' = Tracked(i)
  BY <1>4, <1>5, SameBody, ZenonT(30)
<1>7. UnderWay' = UnderWay
  BY <1>2, Zenon DEF UnderWay
<1>8. \A i \in Active' : AskedOK(i)'
  <2> SUFFICES ASSUME NEW i \in Active PROVE AskedOK(i)'
    BY <1>6, Zenon
  <2>1. Tracked(i)' = Tracked(i) /\ AskedOK(i)
    BY <1>6, Zenon DEF RBody
  <2> QED
    BY <1>2, <1>5, <1>7, <2>1, ZenonT(60) DEF AskedOK, Awaited, M
<1>9. base_delay' >= Floor
  <2>1. r \in Nat /\ Floor \in Nat
    BY NConstants, Zenon
  <2>2. PICK h \in Nat : h = r \div 2
    BY <2>1
  <2>3. base_delay' = IF h >= Floor THEN h ELSE Floor
    BY <1>3, <2>2, Zenon DEF RttUpdate
  <2> QED
    BY <2>1, <2>2, <2>3
<1>10. NoNeedlessNack' /\ (Overdue \subseteq late)'
  BY <1>2, <1>5, <1>7, ZenonT(60) DEF RBody, NoNeedlessNack, Excused, Overdue
<1>11. (\A a \in UnderWay : AttemptOK(a))'
  BY <1>2, <1>5, <1>7, Zenon DEF RBody, AttemptOK, M
<1>12. RingOK(ring, next)'
  BY <1>2, Zenon DEF RBody, RingOK, Wire, ridx, M
<1>13. /\ ~lapped' /\ next' \in Nat /\ next' <= MaxExt + 1 /\ eexp' <= next'
       /\ (started' => next' - eexp' <= Half) /\ left' \in [0 .. MaxExt -> Nat]
       /\ (\A e \in media' : e \in 0 .. (next' - 1) /\ next' - e <= Half)
  BY <1>2, <1>5, Zenon DEF RBody
<1> QED
  BY <1>6, <1>8, <1>9, <1>10, <1>11, <1>12, <1>13, ZenonT(60) DEF RBody

\* Packet e reaches the receiver, as the original or as an answer.
Deliver(e) == DeliverMedia(e) \/ \E a \in resent : e = a[1] /\ DeliverResent(a)

\* What reaches the receiver was sent, and is no lap ahead of what is tracked.
LEMMA DeliverIsStep ==
  ASSUME RBody, NEW e, Deliver(e)
  PROVE  /\ e \in 0 .. (next - 1) /\ e \in 0 .. MaxExt /\ OnPacketReceived(e) /\ [Next]_vars
         /\ ~started => next - e <= Half
         /\ eexp' \in {eexp, e + 1} /\ ~lapped' /\ NBody' /\ TypeOK /\ TypeOK'
<1>1. OnPacketReceived(e)
  BY Zenon DEF Deliver, DeliverMedia, DeliverResent
<1>2. NBody /\ TypeOK /\ next \in Nat /\ eexp \in Nat /\ eexp <= next /\ next <= MaxExt + 1 /\ ~lapped
  BY Zenon DEF RBody, NBody, TypeOK
<1>3. e \in 0 .. (next - 1) /\ (~started => next - e <= Half)
  <2>1. CASE e \in media
    BY <2>1 DEF RBody
  <2>2. CASE \E a \in resent : e = a[1]
    <3>1. e \in Nat /\ e < eexp
      BY <2>2, Zenon DEF RBody, UnderWay, AttemptOK
    <3>2. ~started => eexp = 0
      BY <1>2, ZenonT(60) DEF NBody
    <3> QED
      BY <1>2, <3>1, <3>2, SMTT(30)
  <2> QED
    BY <2>1, <2>2, ZenonT(60) DEF Deliver, DeliverMedia, DeliverResent
<1>4. e \in 0 .. MaxExt
  BY <1>2, <1>3, NConstants
<1>5. [Next]_vars
  BY <1>1, <1>4, ZenonT(60) DEF Next
<1>6. eexp' \in {eexp, e + 1} /\ lapped' = (lapped \/ \E i \in Active : eexp' - Tracked(i) >= M)
  BY <1>1 DEF OnPacketReceived
<1>7. ASSUME NEW i \in Active
      PROVE  ~(eexp' - Tracked(i) >= M)
  <2>1. PICK x \in Nat : x = Tracked(i)
    <3>1. Tracked(i) \in 0 .. MaxExt
      BY <1>2, ZenonT(30) DEF NBody, SlotOK
    <3>2. 0 .. MaxExt \subseteq Nat
      BY NConstants, SMTT(30)
    <3> QED
      BY <3>1, <3>2, Zenon
  <2>2. next - x < M
    BY <2>1, Zenon DEF RBody, AskedOK
  <2>3. eexp' \in Nat /\ eexp' <= next
    BY <1>2, <1>3, <1>6
  <2>4. ~(eexp' - x >= M)
    BY <1>2, <2>2, <2>3, InReach, ZenonT(30)
  <2> QED
    BY <2>1, <2>4, Zenon
<1>8. ~lapped'
  BY <1>2, <1>6, <1>7, ZenonT(30), ZenonT(30)
<1>9. NBody' /\ TypeOK'
  BY <1>2, <1>5, <1>8, TypeNext, NInvNext, ZenonT(60) DEF NInv
<1> QED
  BY <1>1, <1>2, <1>3, <1>4, <1>5, <1>6, <1>8, <1>9, ZenonT(60)

\* After an arrival, an active slot either is as it was and tracks another packet,
\* or tracks one that was not expected before.
LEMMA DeliverSlots ==
  ASSUME RBody, started, NEW e \in 0 .. MaxExt, OnPacketReceived(e), ~lapped', TypeOK',
         NEW i \in Active'
  PROVE  \/ /\ i \in Active /\ Tracked(i)' = Tracked(i) /\ Tracked(i) # e
            /\ nslots'[i].wait = nslots[i].wait
         \/ Tracked(i)' >= eexp
<1>1. NBody /\ TypeOK /\ eexp \in Nat /\ e \in Nat
  <2>1. NBody
    BY DEF RBody
  <2>2. TypeOK
    BY <2>1, ZenonT(60) DEF NBody
  <2>3. eexp \in Nat
    BY <2>2 DEF TypeOK
  <2> QED
    BY <2>1, <2>2, <2>3, NConstants, SMTT(30)
<1>2. i \in NRing
  BY DEF Active
<1>3. ASSUME i \in Active, nslots'[i].seq = nslots[i].seq
      PROVE  Tracked(i)' = Tracked(i)
  <2>1. eexp' >= eexp /\ expected' = Wire(eexp') /\ eexp' - Tracked(i) < M
    BY <1>1, <1>3, ArriveCases, Zenon
  <2> QED
    BY <1>1, <1>3, <2>1, StillTracked, ZenonT(60)
<1>4. i \in Active => SlotOK(i)
  BY <1>1, Zenon DEF NBody
<1>5. CASE e < eexp /\ deactivate(Wire(e))
  <2>1. Wire(e) \in SeqNos
    BY <1>1, WireType, Zenon
  <2>2. /\ nslots'[i].seq = nslots[i].seq /\ nslots'[i].wait = nslots[i].wait
        /\ IsTracked(Wire(e)) => Active' = Active \ {nidx(Wire(e))}
        /\ ~IsTracked(Wire(e)) => Active' = Active
    BY <1>1, <1>2, <1>5, <2>1, DeactivateSlots, ZenonT(60)
  <2>3. i \in Active
    BY <2>2, ZenonT(60)
  <2>4. Tracked(i) # e
    <3> SUFFICES ASSUME Tracked(i) = e PROVE FALSE
      OBVIOUS
    <3>1. nslots[i].seq = Wire(e) /\ nidx(Wire(e)) = i
      BY <1>4, <2>3, Zenon DEF SlotOK
    <3>2. IsTracked(Wire(e))
      BY <2>3, <3>1, Zenon DEF IsTracked, Active
    <3> QED
      BY <2>2, <3>1, <3>2
  <2> QED
    BY <1>3, <2>2, <2>3, <2>4, ZenonT(60)
<1>6. ASSUME e >= eexp, i \in Active, nslots'[i] = nslots[i]
      PROVE  Tracked(i)' = Tracked(i) /\ Tracked(i) # e /\ nslots'[i].wait = nslots[i].wait
  <2>1. Tracked(i) < eexp /\ Tracked(i) \in Nat
    BY <1>4, <1>6, NConstants, SMTT(30) DEF SlotOK
  <2>2. Tracked(i)' = Tracked(i)
    BY <1>3, <1>6, ZenonT(60)
  <2>3. Tracked(i) # e
    BY <1>1, <1>6, <2>1, SMTT(30)
  <2> QED
    BY <1>6, <2>2, <2>3, ZenonT(60)
<1>7. CASE e > eexp /\ e - eexp <= MaxGap /\ eexp' = e + 1 /\ Track(e - eexp)
  <2>1. PICK n \in 1 .. MaxGap : n = e - eexp /\ eexp' = eexp + n + 1 /\ Track(n)
    BY <1>1, <1>7, NConstants, SMTT(30)
  <2>2. expected' = Wire(eexp')
    BY <1>1, ArriveCases, Zenon
  <2>3. CASE i \in NewlyTracked(n)
    BY <1>1, <2>1, <2>2, <2>3, NewSlot, ZenonT(60)
  <2>4. CASE i \notin NewlyTracked(n)
    <3>1. i \in Active /\ nslots'[i] = nslots[i]
      BY <1>1, <1>2, <2>1, <2>4, TrackSlots, ZenonT(30)
    <3>2. e >= eexp
      BY <1>1, <1>7
    <3> QED
      BY <1>6, <3>1, <3>2, ZenonT(60)
  <2> QED
    BY <2>3, <2>4, ZenonT(60)
<1>8. CASE e >= eexp /\ nslots' = nslots
  <2>1. i \in Active /\ nslots'[i] = nslots[i]
    BY <1>8, Zenon DEF Active
  <2> QED
    BY <1>6, <1>8, <2>1
<1>9. \/ e < eexp /\ deactivate(Wire(e))
      \/ e > eexp /\ e - eexp <= MaxGap /\ eexp' = e + 1 /\ Track(e - eexp)
      \/ e >= eexp /\ nslots' = nslots
  BY <1>1, ArriveCases, Zenon
<1> QED
  BY <1>5, <1>7, <1>8, <1>9, ZenonT(60)

\* An arrival ends the attempt for its packet, which is no longer asked for.
LEMMA DeliverBody ==
  ASSUME RBody, NEW e, Deliver(e)
  PROVE  RBody'
<1>1. /\ e \in 0 .. (next - 1) /\ e \in 0 .. MaxExt /\ OnPacketReceived(e)
      /\ ~started => next - e <= Half
      /\ eexp' \in {eexp, e + 1} /\ ~lapped' /\ NBody' /\ TypeOK /\ TypeOK'
  BY DeliverIsStep
<1>2. /\ UNCHANGED <<ring, next, nacks, failed, late, left>> /\ media' \subseteq media
      /\ resent' \subseteq resent /\ \A a \in resent : a \in resent' \/ a[1] = e
  BY ZenonT(60) DEF Deliver, DeliverMedia, DeliverResent
<1>3. UNCHANGED <<sent, base_delay, rtt>> /\ started'
  BY <1>1 DEF OnPacketReceived
<1>4. UnderWay' \subseteq UnderWay /\ \A a \in UnderWay : a \in UnderWay' \/ a[1] = e
  BY <1>2, Zenon DEF UnderWay
<1>5. /\ NBody /\ next \in Nat /\ eexp \in Nat /\ eexp' \in Nat /\ eexp <= next /\ eexp' <= next
      /\ sent \in [0 .. MaxExt -> Nat]
  <2>1. /\ NBody /\ next \in Nat /\ eexp \in Nat /\ eexp <= next
        /\ sent \in [0 .. MaxExt -> Nat]
    BY DEF RBody, NBody, TypeOK
  <2> QED
    BY <1>1, <2>1, SMTT(30)
<1>6. eexp <= eexp' /\ next' - eexp' <= Half
  <2>1. CASE started
    <3>1. eexp <= eexp'
      BY <1>1, <1>5, <2>1, ArriveCases, ZenonT(60)
    <3>2. next - eexp <= Half /\ next' = next
      BY <1>2, <2>1 DEF RBody
    <3>3. next - eexp' <= Half
      <4>1. PICK n \in Nat, a \in Nat, b \in Nat : n = next /\ a = eexp /\ b = eexp'
        BY <1>5
      <4>2. a <= b /\ n - a <= Half
        BY <3>1, <3>2, <4>1
      <4>3. n - b <= Half
        BY <4>2, NConstants, SMTT(30)
      <4> QED
        BY <4>1, <4>3
    <3> QED
      BY <3>1, <3>2, <3>3, ZenonT(60)
  <2>2. CASE ~started
    <3>1. eexp = 0 /\ eexp' = e + 1
      BY <1>1, <1>5, <2>2, ZenonT(30) DEF NBody, OnPacketReceived
    <3> QED
      BY <1>1, <1>2, <1>5, <2>2, <3>1, NConstants
  <2> QED
    BY <2>1, <2>2
<1>7. \A i \in Active' : AskedOK(i)'
  <2> SUFFICES ASSUME NEW i \in Active' PROVE AskedOK(i)'
    OBVIOUS
  <2>1. started
    <3> SUFFICES ASSUME ~started PROVE FALSE
      OBVIOUS
    <3>1. nslots' = nslots /\ Active = {}
      BY <1>1, <1>5, ZenonT(60) DEF OnPacketReceived, NBody
    <3> QED
      BY <3>1 DEF Active
  <2>2. CASE i \in Active /\ Tracked(i)' = Tracked(i) /\ Tracked(i) # e
             /\ nslots'[i].wait = nslots[i].wait
    <3>1. PICK x : x = Tracked(i) /\ AskedOK(i)
      BY <2>2, Zenon DEF RBody
    <3>2. <<x, sent[x]>>[1] = x
      OBVIOUS
    <3>3. <<x, sent[x]>> \in UnderWay => <<x, sent[x]>> \in UnderWay'
      BY <1>4, <2>2, <3>1, <3>2, ZenonT(60)
    <3>4. Awaited(x, nslots[i].wait)'
      BY <1>2, <1>3, <2>2, <3>1, <3>3, ZenonT(60) DEF AskedOK, Awaited
    <3> QED
      BY <1>2, <2>2, <3>1, <3>4, ZenonT(60) DEF AskedOK, M
  <2>3. CASE Tracked(i)' >= eexp
    <3>1. PICK x \in 0 .. MaxExt : x = Tracked(i)'
      BY <1>1, Zenon DEF NBody, SlotOK
    <3>2. x >= eexp
      BY <2>3, <3>1, ZenonT(60)
    <3>4. next' - x < M
      <4>1. next - eexp <= Half
        BY <2>1 DEF RBody
      <4> QED
        BY <1>2, <1>5, <3>2, <4>1, NConstants, SMTT(30)
    <3>5. sent'[x] = 0
      BY <1>3, <1>5, <3>2, Zenon DEF NBody
    <3> QED
      BY <3>1, <3>4, <3>5, Zenon DEF AskedOK, Awaited, M
  <2> QED
    BY <1>1, <2>1, <2>2, <2>3, DeliverSlots, ZenonT(30)
<1>8. (\A a \in UnderWay : AttemptOK(a))'
  <2> SUFFICES ASSUME NEW a \in UnderWay PROVE AttemptOK(a)'
    BY <1>4, Zenon
  <2>1. AttemptOK(a)
    BY Zenon DEF RBody
  <2>2. a[1] < eexp'
    BY <1>5, <1>6, <2>1 DEF AttemptOK
  <2> QED
    BY <1>2, <2>1, <2>2, Zenon DEF AttemptOK, M
<1>9. RingOK(ring, next)'
  BY <1>2, Zenon DEF RBody, RingOK, Wire, ridx, M
<1>10. /\ next' \in Nat /\ next' <= MaxExt + 1 /\ eexp' <= next'
       /\ base_delay' >= Floor /\ left' \in [0 .. MaxExt -> Nat] /\ (Overdue \subseteq late)'
       /\ (\A x \in media' : x \in 0 .. (next' - 1) /\ next' - x <= Half)
       /\ NoNeedlessNack'
  BY <1>2, <1>3, <1>4, <1>5, ZenonT(60) DEF RBody, NoNeedlessNack, Excused, Overdue
<1> QED
  BY <1>1, <1>6, <1>7, <1>8, <1>9, <1>10, ZenonT(60) DEF RBody

\* Recovery's invariant holds before anything is sent ...
LEMMA RBodyInit == RInit => RBody
<1> SUFFICES ASSUME RInit PROVE RBody
  OBVIOUS
<1>1. /\ Init /\ ring = NewRetx /\ next = First /\ media = {} /\ resent = {} /\ nacks = {}
      /\ left = [e \in 0 .. MaxExt |-> 0]
  BY DEF RInit
<1>2. NBody
  BY <1>1, InitBody, ZenonT(60)
<1>3. ~started /\ ~lapped /\ eexp = 0 /\ base_delay = Floor /\ Active = {}
      /\ \A e \in 0 .. MaxExt : sent[e] = 0
  BY <1>1 DEF Init, Active
<1>4. First \in 0 .. MaxExt
  BY RecoveryAssumption
<1>5. next \in Nat /\ next <= MaxExt + 1 /\ eexp <= next
  BY <1>1, <1>3, <1>4, NConstants, SMTT(30)
<1>6. RingOK(ring, next)
  BY <1>1 DEF NewRetx, RingOK
<1>7. UnderWay = {} /\ Overdue = {}
  BY <1>1 DEF UnderWay, Overdue
<1>8. NoNeedlessNack
  BY <1>3 DEF NoNeedlessNack, Excused
<1>9. base_delay >= Floor /\ left \in [0 .. MaxExt -> Nat]
  BY <1>1, <1>3, NConstants
<1> QED
  BY <1>1, <1>2, <1>3, <1>5, <1>6, <1>7, <1>8, <1>9, ZenonT(60) DEF RBody

\* ... every step of sender, network, receiver and clock keeps it ...
LEMMA RBodyNext == RBody /\ [RNext]_rvars => RBody'
<1> SUFFICES ASSUME RBody, [RNext]_rvars PROVE RBody'
  OBVIOUS
<1>1. CASE SendMedia
  BY <1>1, SendBody
<1>2. CASE DeliverAny
  BY <1>2, DeliverBody, ZenonT(60) DEF DeliverAny, Deliver
<1>3. CASE PumpNacks
  BY <1>3, PumpNacksBody
<1>4. CASE ServeAny \/ UNCHANGED rvars
  BY <1>4, QuietBody DEF ServeAny
<1>5. CASE (\E e \in media : LoseMedia(e)) \/ (\E a \in resent : LoseResent(a))
             \/ (\E n \in nacks : LoseNack(n))
  BY <1>5, QuietBody
<1>6. CASE TickAll
  BY <1>6, TickBody
<1>7. CASE Echo
  BY <1>7, EchoBody
<1> QED
  BY <1>1, <1>2, <1>3, <1>4, <1>5, <1>6, <1>7, ZenonT(60) DEF RNext

\* ... and so it always holds.
LEMMA RBodyAlways == RSpec => []RBody
BY RBodyInit, RBodyNext, PTL DEF RSpec

\* A packet is asked for again only after the attempt before failed or was under
\* way for the round trip known when it was made: the slot is not due again before
\* (get_pending_nacks, the retry delay), whatever echoes arrive meanwhile, and the
\* sender's ring answers a number with that packet or with nothing.  Nothing is
\* assumed of the time the network takes.
THEOREM NoNackIsNeedless == RSpec => []NoNeedlessNack
<1>1. RBody => NoNeedlessNack
  BY DEF RBody
<1> QED
  BY <1>1, RBodyAlways, PTL

\* A missing packet stops being asked for only when it arrives or after max_retries
\* attempts that failed or had the round trip known to come back, whatever is
\* lost, delayed, reordered or overwritten.
THEOREM GivenUpAfterFailures == RSpec => GivenUpOnlyAfterFailures
<1> DEFINE Gone == \A e \in pending \ pending' :
                     e \in (media \ media') \cup {a[1] : a \in resent \ resent'}
                       \/ Excused(e, MaxRetries)
<1>1. ASSUME RBody, RNext
      PROVE  Gone
  <2> SUFFICES ASSUME NEW e \in pending \ pending'
               PROVE  e \in (media \ media') \cup {a[1] : a \in resent \ resent'}
                        \/ Excused(e, MaxRetries)
    OBVIOUS
  <2>1. CASE DeliverAny
    <3>1. PICK d : Deliver(d)
      BY <2>1, Zenon DEF DeliverAny, Deliver
    <3>2. OnPacketReceived(d) /\ d \in (media \ media') \cup {a[1] : a \in resent \ resent'}
      BY <3>1, Zenon DEF Deliver, DeliverMedia, DeliverResent
    <3>3. pending \ pending' \subseteq {d}
      BY <3>2, Zenon DEF OnPacketReceived
    <3> QED
      BY <3>2, <3>3
  <2>2. CASE PumpNacks
    <3>1. pending' = pending \ {Tracked(i) : i \in GivenUp}
      BY <2>2, Zenon DEF PumpNacks, Pump
    <3>2. PICK i \in GivenUp : e = Tracked(i)
      BY <3>1
    <3>3. i \in DueSlots /\ nslots[i].count >= MaxRetries
      BY ZenonT(60) DEF GivenUp
    <3>4. i \in Active /\ e \in 0 .. MaxExt /\ Excused(e, sent[e])
      BY <1>1, <3>2, <3>3, DueMeansExcused
    <3>5. sent[e] = nslots[i].count
      BY <1>1, <3>2, <3>4, ZenonT(30) DEF RBody, NBody, SlotOK
    <3>6. sent[e] \in Nat
      BY <1>1, <3>4 DEF RBody, NBody, TypeOK
    <3>7. sent[e] >= MaxRetries /\ MaxRetries \in Nat
      BY <3>3, <3>5, NConstants, Zenon
    <3>8. \A k \in 1 .. MaxRetries : k \in 1 .. sent[e]
      BY <3>6, <3>7
    <3> QED
      BY <3>4, <3>8, Zenon DEF Excused
  <2>3. CASE pending' = pending
    BY <2>3
  <2>4. pending' = pending \/ DeliverAny \/ PumpNacks
    <3>1. UNCHANGED vars => pending' = pending
      BY DEF vars
    <3>2. (TickAll \/ Echo) => pending' = pending
      BY DEF TickAll, Echo, Tick, RttUpdate
    <3>3. CASE SendMedia \/ ServeAny
      BY <3>1, <3>3, Zenon DEF SendMedia, ServeAny, ServeNack
    <3>4. CASE (\E x \in media : LoseMedia(x)) \/ (\E a \in resent : LoseResent(a))
               \/ (\E n \in nacks : LoseNack(n))
      BY <3>1, <3>4, ZenonT(60) DEF LoseMedia, LoseResent, LoseNack
    <3> QED
      BY <1>1, <3>2, <3>3, <3>4, ZenonT(60) DEF RNext
  <2> QED
    BY <2>1, <2>2, <2>3, <2>4, ZenonT(60)
<1>2. RBody /\ [RNext]_rvars => [Gone]_rvars
  BY <1>1
<1> QED
  BY <1>2, RBodyAlways, PTL DEF RSpec, GivenUpOnlyAfterFailures

=============================================================================
