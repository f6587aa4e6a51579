-------------------------- MODULE DrainThreadProofs --------------------------
(***************************************************************************)
(* The receive task and the delivery thread around the shared reorder buffer *)
(* are correct for every set of packets less than half the sequence space    *)
(* apart, every hold time and every channel capacity: no wake-up is missed,  *)
(* packets stay in order from the ring to the application, and each one that *)
(* arrived is delivered, held, or counted where it was dropped.              *)
(***************************************************************************)
EXTENDS DrainThread, ReorderBufferProofs, FiniteSetTheorems

-----------------------------------------------------------------------------
(* What flows from the ring to the application *)

\* What is in the channel c and what is drained to s follow each other.
InOrder(c, s) ==
  /\ \A j, k \in DOMAIN c : j < k => c[j] < c[k]
  /\ \A j, k \in DOMAIN s : j < k /\ IsPacket(s[j]) /\ IsPacket(s[k]) => s[j] < s[k]
  /\ \A j \in DOMAIN c, k \in DOMAIN s : IsPacket(s[k]) => c[j] < s[k] - 1

\* ... and the base has passed them.
Below(c, s, B) ==
  /\ \A j \in DOMAIN c : c[j] < B
  /\ \A k \in DOMAIN s : s[k] <= B

\* The ring's window lies within the packets of the run, and what has left the
\* ring lies below it; before the first packet nothing has.
Flow(b, c, s) ==
  /\ InOrder(c, s)
  /\ IF b.started
     THEN \E B, H \in Nat :
            /\ Window(b, B, H) /\ H \in Packets /\ (\E a \in Packets : a <= B)
            /\ Below(c, s, B)
     ELSE b = NewBuffer /\ c = <<>> /\ s = <<>>

\* The empty sequence is below and in order with anything.
LEMMA EmptyFlow ==
  ASSUME NEW c \in Seq(Nat), NEW s \in Seq(Nat), InOrder(c, s)
  PROVE  /\ InOrder(<<>>, s) /\ InOrder(c, <<>>)
         /\ \A B \in Nat : Below(c, s, B) => Below(<<>>, s, B) /\ Below(c, <<>>, B)
BY DEF InOrder, Below

\* The application, or the loss of the channel, takes from the front.
LEMMA FlowTake ==
  ASSUME NEW b, NEW c \in Seq(Nat), NEW s \in Seq(Nat), Flow(b, c, s)
  PROVE  Flow(b, <<>>, s) /\ Flow(b, c, <<>>) /\ (c # <<>> => Flow(b, Tail(c), s))
<1>1. Flow(b, <<>>, s) /\ Flow(b, c, <<>>)
  BY EmptyFlow DEF Flow
<1>2. ASSUME c # <<>>
      PROVE  Flow(b, Tail(c), s)
  <2>1. PICK n \in Nat : n = Len(c)
    OBVIOUS
  <2>2. DOMAIN Tail(c) = 1 .. (n - 1) /\ DOMAIN c = 1 .. n
    BY <1>2, <2>1
  <2>3. \A j \in 1 .. (n - 1) : Tail(c)[j] = c[j + 1] /\ j + 1 \in 1 .. n
    BY <1>2, <2>1
  <2>4. InOrder(c, s)
    BY DEF Flow
  <2>5. \A j, k \in 1 .. (n - 1) : j < k => Tail(c)[j] < Tail(c)[k]
    <3>1. \A j, k \in 1 .. (n - 1) : j < k => j + 1 < k + 1
      OBVIOUS
    <3> QED
      BY <2>2, <2>3, <2>4, <3>1, Zenon DEF InOrder
  <2>6. InOrder(Tail(c), s)
    BY <2>2, <2>3, <2>4, <2>5, ZenonT(30) DEF InOrder
  <2>7. \A B \in Nat : Below(c, s, B) => Below(Tail(c), s, B)
    BY <2>2, <2>3 DEF Below
  <2> QED
    BY <1>2, <2>6, <2>7 DEF Flow
<1> QED
  BY <1>1, <1>2

\* The delivery thread sends the next drained item, or drops it.
LEMMA FlowSend ==
  ASSUME NEW b, NEW c \in Seq(Nat), NEW s \in Seq(Nat), Flow(b, c, s), s # <<>>
  PROVE  /\ Flow(b, c, Tail(s))
         /\ IsPacket(Head(s)) => /\ Head(s) - 1 \in Nat
                                 /\ Flow(b, Append(c, Head(s) - 1), Tail(s))
<1>1. PICK n \in Nat, m \in Nat \ {0}, h \in Nat : n = Len(c) /\ m = Len(s) /\ h = Head(s)
  OBVIOUS
<1>2. /\ DOMAIN c = 1 .. n /\ DOMAIN s = 1 .. m /\ DOMAIN Tail(s) = 1 .. (m - 1)
      /\ \A j \in 1 .. (m - 1) : Tail(s)[j] = s[j + 1]
      /\ s[1] = h /\ (\A j \in 1 .. m : s[j] \in Nat) /\ (\A j \in 1 .. n : c[j] \in Nat)
  BY <1>1
<1>3. InOrder(c, Tail(s)) /\ \A B \in Nat : Below(c, s, B) => Below(c, Tail(s), B)
  <2>1. InOrder(c, s)
    BY DEF Flow
  <2>2. \A j, k \in 1 .. (m - 1) : j + 1 \in 1 .. m /\ (j < k => j + 1 < k + 1)
    OBVIOUS
  <2>3. \A j, k \in 1 .. (m - 1) :
          j < k /\ IsPacket(Tail(s)[j]) /\ IsPacket(Tail(s)[k]) => Tail(s)[j] < Tail(s)[k]
    BY <1>2, <2>1, <2>2, ZenonT(30), Zenon DEF InOrder
  <2>4. \A j \in 1 .. n, k \in 1 .. (m - 1) :
          IsPacket(Tail(s)[k]) => c[j] < Tail(s)[k] - 1
    BY <1>2, <2>1, <2>2, ZenonT(30), Zenon DEF InOrder
  <2>5. InOrder(c, Tail(s))
    BY <1>2, <2>1, <2>3, <2>4, ZenonT(30), Zenon DEF InOrder
  <2>6. \A B \in Nat : Below(c, s, B) => Below(c, Tail(s), B)
    BY <1>2, <2>2 DEF Below
  <2> QED
    BY <2>5, <2>6
<1>4. Flow(b, c, Tail(s))
  BY <1>3 DEF Flow
<1>5. ASSUME IsPacket(h)
      PROVE  h - 1 \in Nat /\ Flow(b, Append(c, h - 1), Tail(s))
  <2>1. PICK x \in Nat : h = x + 1 /\ x = h - 1
    BY <1>5 DEF IsPacket
  <2> DEFINE d == Append(c, x)
  <2>2. d \in Seq(Nat) /\ DOMAIN d = 1 .. (n + 1)
    BY <1>1
  <2>3. \A j \in 1 .. n : d[j] = c[j]
    BY <1>1
  <2>4. d[n + 1] = x
    BY <1>1
  <2> HIDE DEF d
  <2>5. \A j \in 1 .. n : c[j] < x
    <3>1. 1 \in 1 .. m /\ InOrder(c, s)
      BY DEF Flow
    <3>2. \A j \in 1 .. n : c[j] < h - 1
      BY <1>2, <1>5, <3>1, ZenonT(30), Zenon DEF InOrder
    <3> QED
      BY <2>1, <3>2
  <2>6. \A j, k \in 1 .. (n + 1) : j < k => d[j] < d[k]
    <3> SUFFICES ASSUME NEW j \in 1 .. (n + 1), NEW k \in 1 .. (n + 1), j < k
                 PROVE  d[j] < d[k]
      OBVIOUS
    <3>1. CASE k = n + 1
      BY <2>3, <2>4, <2>5, <3>1, SMTT(30)
    <3>2. CASE k # n + 1
      <4>1. j \in 1 .. n /\ k \in 1 .. n
        BY <3>2
      <4> QED
        BY <1>2, <2>3, <4>1, ZenonT(30) DEF Flow, InOrder
    <3> QED
      BY <3>1, <3>2
  <2>7. ASSUME NEW k \in 1 .. (m - 1), IsPacket(Tail(s)[k])
        PROVE  \A j \in 1 .. (n + 1) : d[j] < Tail(s)[k] - 1
    <3>1. Tail(s)[k] = s[k + 1] /\ k + 1 \in 1 .. m /\ 1 \in 1 .. m /\ 1 < k + 1
      BY <1>2
    <3>2. s[1] < s[k + 1]
      BY <1>2, <1>5, <2>7, <3>1, ZenonT(30), Zenon DEF Flow, InOrder
    <3>3. \A j \in 1 .. n : c[j] < s[k + 1] - 1
      BY <1>2, <2>7, <3>1, ZenonT(30), Zenon DEF Flow, InOrder
    <3>4. x < s[k + 1] - 1
      BY <1>2, <2>1, <3>1, <3>2
    <3> SUFFICES ASSUME NEW j \in 1 .. (n + 1)
                 PROVE  d[j] < Tail(s)[k] - 1
      BY ZenonT(30)
    <3>5. CASE j = n + 1
      BY <2>4, <3>1, <3>4, <3>5, ZenonT(30), Zenon
    <3>6. CASE j # n + 1
      <4>1. j \in 1 .. n
        BY <3>6
      <4> QED
        BY <2>3, <3>1, <3>3, <4>1, ZenonT(30), Zenon
    <3> QED
      BY <3>5, <3>6, ZenonT(30), Zenon
  <2>8. InOrder(d, Tail(s))
    BY <1>2, <1>3, <2>2, <2>6, <2>7, ZenonT(30), ZenonT(30) DEF InOrder
  <2>9. ASSUME NEW B \in Nat, Below(c, s, B)
        PROVE  Below(d, Tail(s), B)
    <3>1. x < B
      BY <1>2, <2>1, <2>9, SMTT(30) DEF Below
    <3>2. ASSUME NEW j \in 1 .. (n + 1)
          PROVE  d[j] < B
      <4>1. CASE j = n + 1
        BY <2>4, <3>1, <4>1
      <4>2. CASE j # n + 1
        <5>1. j \in 1 .. n
          BY <4>2
        <5> QED
          BY <1>2, <2>3, <2>9, <5>1, ZenonT(30), Zenon DEF Below
      <4> QED
        BY <4>1, <4>2
    <3> QED
      BY <1>3, <2>2, <2>9, <3>2, Zenon DEF Below
  <2>10. b.started
    BY <1>1 DEF Flow
  <2>11. Flow(b, d, Tail(s))
    BY <2>8, <2>9, <2>10 DEF Flow
  <2> QED
    BY <2>1, <2>11 DEF d
<1> QED
  BY <1>1, <1>4, <1>5

\* insert of a packet of the run: the base never moves back over what has left.
LEMMA FlowInsert ==
  ASSUME NEW b \in Buffer, NEW c \in Seq(Nat), NEW s \in Seq(Nat), Flow(b, c, s),
         NEW e \in Packets, NEW t \in Nat
  PROVE  Insert(b, Wire(e), e, t) \in Buffer /\ Flow(Insert(b, Wire(e), e, t), c, s)
<1> DEFINE x == Insert(b, Wire(e), e, t)
<1>1. e \in Nat /\ Packets \subseteq Nat
  BY DrainAssumption
<1>2. CASE ~b.started
  <2>1. b = NewBuffer /\ c = <<>> /\ s = <<>>
    BY <1>2 DEF Flow
  <2>2. x = Anchor(b.slots, Wire(e), e, t)
    <3>1. ~IsStale(b, Wire(e)) /\ ~Resets(b, Wire(e)) /\ ~IsDuplicate(b, Wire(e))
      BY <1>2 DEF IsStale, Resets, Overflows, IsDuplicate
    <3> QED
      BY <1>2, <3>1 DEF Insert
  <2>3. b.slots \in [Ring -> Slot] /\ \A i \in Ring : b.slots[i].state # "Filled"
    BY <2>1, NewBufferType DEF Buffer
  <2> HIDE DEF x
  <2>4. x \in Buffer /\ Window(x, e, e)
    BY <1>1, <2>2, <2>3, AnchorWindow
  <2>5. x.started /\ e <= e
    BY <1>1, <2>4 DEF Window
  <2>6. InOrder(c, s) /\ Below(c, s, e)
    BY <2>1 DEF Flow, Below
  <2>7. Flow(x, c, s)
    BY <1>1, <2>4, <2>5, <2>6 DEF Flow
  <2> QED
    BY <2>4, <2>7 DEF x
<1>3. CASE b.started
  <2>1. PICK B \in Nat, H \in Nat :
          Window(b, B, H) /\ H \in Packets /\ (\E a \in Packets : a <= B) /\ Below(c, s, B)
    BY <1>3 DEF Flow
  <2>2. PICK a \in Packets : a <= B
    BY <2>1
  <2>3. e < B + Half
    <3>1. e - a < Half /\ a \in Nat
      BY <1>1, DrainAssumption
    <3> QED
      BY <1>1, <2>2, <3>1, Constants
  <2>4. B - Half <= e
    <3>1. H - e < Half
      BY <2>1, DrainAssumption
    <3>2. B <= H + 1
      BY <2>1 DEF Window
    <3> QED
      BY <1>1, <3>1, <3>2, Constants
  <2>5. PICK top \in Nat : top = (IF e > H THEN e ELSE H)
    BY <1>1
  <2> HIDE DEF x
  <2>6. PICK nb \in Nat : B <= nb /\ x \in Buffer /\ Window(x, nb, top)
    BY <1>1, <2>1, <2>3, <2>4, <2>5, InsertWindow, ZenonT(30), ZenonT(30) DEF x
  <2>7. top \in Packets
    BY <2>1, <2>5
  <2>8. a <= nb /\ x.started
    BY <1>1, <2>2, <2>6 DEF Window
  <2>9. Below(c, s, nb)
    <3>1. (\A j \in DOMAIN c : c[j] \in Nat) /\ (\A k \in DOMAIN s : s[k] \in Nat)
      OBVIOUS
    <3> QED
      BY <2>1, <2>6, <3>1, SMTT(30) DEF Below
  <2>10. InOrder(c, s)
    BY DEF Flow
  <2>11. Flow(x, c, s)
    BY <2>2, <2>6, <2>7, <2>8, <2>9, <2>10 DEF Flow
  <2> QED
    BY <2>6, <2>11 DEF x
<1> QED
  BY <1>2, <1>3

\* What a turn of drain_ready adds to the drained items.
Turned(b) == IF HeadDelivers(b) THEN HeadSlot(b).data + 1 ELSE 0

\* A turn of drain_ready drains what the base stands for, and the base moves on.
LEMMA FlowTurn ==
  ASSUME NEW b \in Buffer, NEW c \in Seq(Nat), NEW s \in Seq(Nat), Flow(b, c, s),
         NEW t \in Nat, HeadReady(b, t)
  PROVE  /\ Turned(b) \in Nat /\ DropHead(b) \in Buffer
         /\ Flow(DropHead(b), c, Append(s, Turned(b)))
<1>1. b.started
  BY DEF HeadReady
<1>2. PICK B \in Nat, H \in Nat :
        Window(b, B, H) /\ H \in Packets /\ (\E a \in Packets : a <= B) /\ Below(c, s, B)
  BY <1>1 DEF Flow
<1>3. DropHead(b) \in Buffer /\ Window(DropHead(b), B + 1, H) /\ DropHead(b).started
  <2>1. B <= H
    BY <1>2, ReadyInWindow
  <2>2. DropHead(b) \in Buffer /\ Window(DropHead(b), B + 1, H)
    BY <1>2, <2>1, DropHeadWindow
  <2> QED
    BY <2>2 DEF Window
<1>4. PICK z \in Nat : z = Turned(b) /\ (z = 0 \/ z = B + 1)
  <2>1. CASE HeadDelivers(b)
    <3>1. HeadSlot(b).data = B
      BY <1>2, <2>1, DeliversBase
    <3>2. Turned(b) = B + 1 /\ B + 1 \in Nat
      BY <2>1, <3>1 DEF Turned
    <3> QED
      BY <3>2
  <2>2. CASE ~HeadDelivers(b)
    BY <2>2 DEF Turned
  <2> QED
    BY <2>1, <2>2
<1>5. PICK n \in Nat, m \in Nat : n = Len(c) /\ m = Len(s)
  OBVIOUS
<1> DEFINE d == Append(s, z)
<1>6. d \in Seq(Nat) /\ DOMAIN d = 1 .. (m + 1) /\ DOMAIN s = 1 .. m /\ DOMAIN c = 1 .. n
  BY <1>5
<1>7. (\A j \in 1 .. m : d[j] = s[j] /\ s[j] \in Nat) /\ (\A j \in 1 .. n : c[j] \in Nat)
  BY <1>5
<1>8. d[m + 1] = z
  BY <1>5
<1> HIDE DEF d
<1>9. InOrder(c, s)
  BY DEF Flow
<1>10. \A j \in 1 .. m : s[j] <= B
  BY <1>2, <1>6, ZenonT(30), Zenon DEF Below
<1>11. \A j \in 1 .. n : c[j] < B
  BY <1>2, <1>6, ZenonT(30), Zenon DEF Below
<1>12. ASSUME NEW j \in 1 .. (m + 1), NEW k \in 1 .. (m + 1), j < k,
              IsPacket(d[j]), IsPacket(d[k])
       PROVE  d[j] < d[k]
  <2>1. j \in 1 .. m
    BY <1>12
  <2>2. CASE k = m + 1
    BY <1>4, <1>7, <1>8, <1>10, <1>12, <2>1, <2>2, SMTT(30), SMTT(30) DEF IsPacket
  <2>3. CASE k # m + 1
    <3>1. k \in 1 .. m
      BY <2>3
    <3> QED
      BY <1>6, <1>7, <1>9, <1>12, <2>1, <3>1, ZenonT(30) DEF InOrder
  <2> QED
    BY <2>2, <2>3
<1>13. ASSUME NEW j \in 1 .. n, NEW k \in 1 .. (m + 1), IsPacket(d[k])
       PROVE  c[j] < d[k] - 1
  <2>1. CASE k = m + 1
    <3>1. d[k] = B + 1
      BY <1>4, <1>8, <1>13, <2>1 DEF IsPacket
    <3> QED
      BY <1>7, <1>11, <3>1
  <2>2. CASE k # m + 1
    <3>1. k \in 1 .. m
      BY <2>2
    <3> QED
      BY <1>6, <1>7, <1>9, <1>13, <3>1, ZenonT(30), ZenonT(30) DEF InOrder
  <2> QED
    BY <2>1, <2>2
<1>14. InOrder(c, d)
  BY <1>6, <1>9, <1>12, <1>13, ZenonT(30), ZenonT(30) DEF InOrder
<1>15. Below(c, d, B + 1)
  <2>1. \A j \in 1 .. n : c[j] < B + 1
    BY <1>7, <1>11
  <2>2. ASSUME NEW j \in 1 .. (m + 1)
        PROVE  d[j] <= B + 1
    <3>1. CASE j = m + 1
      BY <1>4, <1>8, <3>1
    <3>2. CASE j # m + 1
      <4>1. j \in 1 .. m
        BY <3>2
      <4> QED
        BY <1>7, <1>10, <4>1
    <3> QED
      BY <3>1, <3>2
  <2> QED
    BY <1>6, <2>1, <2>2 DEF Below
<1>16. B + 1 \in Nat /\ \E a \in Packets : a <= B + 1
  BY <1>2, DrainAssumption
<1>17. Flow(DropHead(b), c, d)
  BY <1>2, <1>3, <1>14, <1>15, <1>16, ZenonT(60) DEF Flow
<1> QED
  BY <1>3, <1>4, <1>17 DEF d

-----------------------------------------------------------------------------
(* The accounting of the packets *)

\* Two sets that a function pairs up are of one size.
LEMMA SameSize ==
  ASSUME NEW S, IsFiniteSet(S), NEW T, NEW f \in [S -> T],
         \A i, j \in S : f[i] = f[j] => i = j, \A t \in T : \E i \in S : f[i] = t
  PROVE  IsFiniteSet(T) /\ Cardinality(T) = Cardinality(S)
<1>1. f \in Injection(S, T)
  BY DEF Injection, IsInjective
<1>2. f \in Surjection(S, T)
  BY DEF Surjection
<1>3. ExistsBijection(S, T)
  BY <1>1, <1>2 DEF ExistsBijection, Bijection
<1> QED
  BY <1>3, FS_Bijection

\* The places that carry a packet are finitely many.
LEMMA CarryingFinite ==
  ASSUME NEW s \in Seq(Nat)
  PROVE  IsFiniteSet(Carrying(s)) /\ Cardinality(Carrying(s)) \in Nat
<1>1. IsFiniteSet(1 .. Len(s))
  <2>1. 1 \in Int /\ Len(s) \in Int
    OBVIOUS
  <2> QED
    BY <2>1, FS_Interval
<1>2. Carrying(s) \subseteq 1 .. Len(s)
  BY DEF Carrying
<1> QED
  BY <1>1, <1>2, FS_Subset, FS_CardinalityType

\* Nothing is carried by the empty sequence.
LEMMA CarryingNone == Cardinality(Carrying(<<>>)) = 0
<1>1. Carrying(<<>>) = {}
  BY DEF Carrying
<1> QED
  BY <1>1, FS_EmptySet

\* An item at the end counts if it carries a packet.
LEMMA CarryingAppend ==
  ASSUME NEW s \in Seq(Nat), NEW z \in Nat
  PROVE  Cardinality(Carrying(Append(s, z)))
           = Cardinality(Carrying(s)) + (IF IsPacket(z) THEN 1 ELSE 0)
<1>1. PICK n \in Nat : n = Len(s)
  OBVIOUS
<1> DEFINE d == Append(s, z)
<1>2. DOMAIN d = 1 .. (n + 1) /\ DOMAIN s = 1 .. n
  BY <1>1
<1>3. (\A k \in 1 .. n : d[k] = s[k]) /\ d[n + 1] = z
  BY <1>1
<1> HIDE DEF d
<1>4. n + 1 \notin Carrying(s)
  BY <1>2 DEF Carrying
<1>5. IsFiniteSet(Carrying(s)) /\ Cardinality(Carrying(s)) \in Nat
  BY CarryingFinite
<1>6. CASE IsPacket(z)
  <2>1. Carrying(d) = Carrying(s) \cup {n + 1}
    BY <1>2, <1>3, <1>6 DEF Carrying
  <2> QED
    BY <1>4, <1>5, <1>6, <2>1, FS_AddElement, ZenonT(30), ZenonT(30) DEF d
<1>7. CASE ~IsPacket(z)
  <2>1. Carrying(d) = Carrying(s)
    BY <1>2, <1>3, <1>7 DEF Carrying
  <2> QED
    BY <1>5, <1>7, <2>1 DEF d
<1> QED
  BY <1>6, <1>7

\* ... and so does one taken from the front.
LEMMA CarryingTail ==
  ASSUME NEW s \in Seq(Nat), s # <<>>
  PROVE  Cardinality(Carrying(s))
           = Cardinality(Carrying(Tail(s))) + (IF IsPacket(Head(s)) THEN 1 ELSE 0)
<1>1. PICK n \in Nat : n + 1 = Len(s)
  <2>1. Len(s) \in Nat /\ Len(s) # 0
    OBVIOUS
  <2>2. Len(s) - 1 \in Nat /\ (Len(s) - 1) + 1 = Len(s)
    BY <2>1
  <2> QED
    BY <2>2, Zenon
<1> DEFINE d == Tail(s)
           S == Carrying(d)
           T == Carrying(s) \ {1}
           f == [k \in S |-> k + 1]
<1>2. d \in Seq(Nat) /\ Head(s) = s[1]
  OBVIOUS
<1>3. DOMAIN d = 1 .. n /\ DOMAIN s = 1 .. (n + 1)
  BY <1>1
<1>4. \A k \in 1 .. n : d[k] = s[k + 1] /\ k + 1 \in 1 .. (n + 1) /\ k + 1 # 1
  BY <1>1
<1> HIDE DEF d
<1>5. \A k : k \in S <=> k \in 1 .. n /\ IsPacket(d[k])
  BY <1>3 DEF Carrying
<1>6. \A k : k \in Carrying(s) <=> k \in 1 .. (n + 1) /\ IsPacket(s[k])
  BY <1>3 DEF Carrying
<1> HIDE DEF S
<1>7. \A k \in S : k + 1 \in T
  BY <1>4, <1>5, <1>6, ZenonT(30), Zenon
<1>8. f \in [S -> T]
  BY <1>7
<1>9. \A i, j \in S : f[i] = f[j] => i = j
  BY <1>5
<1>10. ASSUME NEW t \in T
       PROVE  \E i \in S : f[i] = t
  <2>1. t \in 1 .. (n + 1) /\ IsPacket(s[t]) /\ t # 1
    BY <1>6
  <2>2. PICK i \in 1 .. n : t = i + 1
    <3>1. t - 1 \in 1 .. n /\ t = (t - 1) + 1
      BY <2>1
    <3> QED
      BY <3>1
  <2>3. i \in S
    BY <1>4, <1>5, <2>1, <2>2, ZenonT(60)
  <2> QED
    BY <2>2, <2>3
<1>11. IsFiniteSet(S) /\ Cardinality(S) \in Nat
  BY <1>2, CarryingFinite DEF S
<1> HIDE DEF T, f
<1>12. IsFiniteSet(T) /\ Cardinality(T) = Cardinality(S)
  BY <1>8, <1>9, <1>10, <1>11, SameSize, ZenonT(60)
<1>13. IsFiniteSet(Carrying(s)) /\ Cardinality(Carrying(s)) \in Nat
  BY CarryingFinite
<1>14. 1 \in Carrying(s) <=> IsPacket(Head(s))
  BY <1>2, <1>6
<1>15. Cardinality(T) = IF 1 \in Carrying(s) THEN Cardinality(Carrying(s)) - 1
                                             ELSE Cardinality(Carrying(s))
  BY <1>13, FS_RemoveElement, ZenonT(30), Zenon DEF T
<1> QED
  BY <1>11, <1>12, <1>13, <1>14, <1>15, SMTT(30) DEF S, d

\* The packets in a set of slots.
PayloadOf(b, S) == {b.slots[i].data : i \in S}

\* A filled slot holds a packet of the window, in the slot of its number.
LEMMA FilledSlotHolds ==
  ASSUME NEW b \in Buffer, NEW B \in Nat, NEW H \in Nat, Window(b, B, H),
         NEW i \in FilledIn(b)
  PROVE  /\ i \in Ring /\ b.slots[i].data \in B .. H /\ i = idx(Wire(b.slots[i].data))
         /\ b.slots[i].seq = Wire(b.slots[i].data)
         /\ Ahead(b.base, i) = b.slots[i].data - B
<1>1. i \in Ring /\ b.slots[i].state = "Filled" /\ b.slots[i].data \in Nat
  BY DEF FilledIn, Buffer, Slot
<1>2. PICK d \in Nat : d = b.slots[i].data
  BY <1>1
<1>3. B <= d /\ d <= H /\ i = idx(Wire(d)) /\ b.slots[i].seq = Wire(d)
  BY <1>1, <1>2 DEF Window, FilledOK
<1>4. Ahead(b.base, i) = d - B
  <2>1. d < B + Cap /\ b.base = Wire(B)
    BY <1>3, Constants DEF Window
  <2> QED
    BY <1>3, <2>1, AheadIsDistance
<1>5. d \in B .. H
  BY <1>3
<1> QED
  BY <1>1, <1>2, <1>3, <1>4, <1>5, ZenonT(30)

\* Filled slots hold different packets, one each.
LEMMA PayloadCount ==
  ASSUME NEW b \in Buffer, NEW B \in Nat, NEW H \in Nat, Window(b, B, H),
         NEW S \in SUBSET FilledIn(b)
  PROVE  /\ IsFiniteSet(S) /\ IsFiniteSet(PayloadOf(b, S)) /\ Cardinality(S) \in Nat
         /\ Cardinality(PayloadOf(b, S)) = Cardinality(S)
<1> DEFINE T == PayloadOf(b, S)
           f == [i \in S |-> b.slots[i].data]
<1>1. IsFiniteSet(Ring) /\ S \subseteq Ring
  <2>1. Cap - 1 \in Int /\ 0 \in Int
    BY Constants
  <2> QED
    BY <2>1, FS_Interval DEF Ring, FilledIn
<1>2. IsFiniteSet(S) /\ Cardinality(S) \in Nat
  BY <1>1, FS_Subset, FS_CardinalityType
<1>3. \A i \in S : i = idx(Wire(b.slots[i].data))
  BY FilledSlotHolds
<1>4. f \in [S -> T]
  BY DEF PayloadOf
<1>5. \A i, j \in S : f[i] = f[j] => i = j
  BY <1>3
<1>6. \A t \in T : \E i \in S : f[i] = t
  BY DEF PayloadOf
<1> HIDE DEF T, f
<1>7. IsFiniteSet(T) /\ Cardinality(T) = Cardinality(S)
  BY <1>2, <1>4, <1>5, <1>6, SameSize
<1> QED
  BY <1>2, <1>7 DEF T

\* A flush of the oldest n throws away what is held below the new base.
LEMMA FlushedHeld ==
  ASSUME NEW b \in Buffer, NEW B \in Nat, NEW H \in Nat, Window(b, B, H),
         NEW n \in 0 .. Cap
  PROVE  PayloadOf(b, FlushedBy(b, n)) = {y \in HeldIn(b) : y < B + n}
<1>1. ASSUME NEW i \in FilledIn(b)
      PROVE  i \in FlushedBy(b, n) <=> b.slots[i].data < B + n
  <2>1. PICK d \in B .. H : /\ d = b.slots[i].data /\ b.slots[i].seq = Wire(d)
                            /\ Ahead(b.base, i) = d - B
    BY FilledSlotHolds
  <2>2. PICK k \in Nat : k = d - B /\ d = B + k
    BY <2>1, SMTT(30)
  <2>3. k \in 0 .. (M - 1)
    BY <2>1, <2>2, Constants, SMTT(30) DEF Window
  <2>4. wrapping_add(b.base, k) = Wire(d)
    BY <2>2, <2>3, WireAdd, Zenon DEF Window
  <2>5. b.slots[i].seq = wrapping_add(b.base, Ahead(b.base, i))
    BY <2>1, <2>2, <2>4, ZenonT(60)
  <2>6. Ahead(b.base, i) < n <=> d < B + n
    BY <2>1, Constants
  <2> QED
    BY <2>1, <2>5, <2>6, ZenonT(60) DEF FlushedBy
<1>2. FlushedBy(b, n) \subseteq FilledIn(b)
  BY DEF FlushedBy
<1> QED
  BY <1>1, <1>2, ZenonT(30) DEF PayloadOf, HeldIn

\* insert counts as flushed exactly what was held below the new base.
LEMMA FlushedCount ==
  ASSUME NEW b \in Buffer, NEW B \in Nat, NEW H \in Nat, Window(b, B, H),
         NEW e \in Nat, B <= e, e < B + Half
  PROVE  LET gone == {y \in HeldIn(b) : y < NewBase(b, B, e)}
         IN  IsFiniteSet(gone) /\ OverflowFlushed(b, Wire(e)) = Cardinality(gone)
<1> DEFINE s == Wire(e)
           gone == {y \in HeldIn(b) : y < NewBase(b, B, e)}
<1>1. \A y : y \in HeldIn(b) => y \in B .. H
  BY HeldIff
<1>2. HeldIn(b) = PayloadOf(b, FilledIn(b))
  BY DEF HeldIn, PayloadOf
<1>3. Advance(b, s) = e - B - (Cap - 1)
  <2>1. wrapping_sub(s, b.base) = e - B
    BY Constants, WireSubAhead DEF Window
  <2> QED
    BY <2>1 DEF Advance
<1>4. CASE Resets(b, s)
  <2>1. NewBase(b, B, e) = e /\ OverflowFlushed(b, s) = Cardinality(FilledIn(b))
    BY <1>4 DEF NewBase, OverflowFlushed
  <2>2. e > H
    <3>1. e - B - (Cap - 1) > 0
      BY <1>3, <1>4 DEF Resets, Overflows
    <3> QED
      BY <3>1, Constants DEF Window
  <2>3. gone = PayloadOf(b, FilledIn(b))
    BY <1>1, <1>2, <2>1, <2>2, SMTT(30)
  <2> QED
    BY <2>1, <2>3, PayloadCount
<1>5. CASE ~Resets(b, s) /\ Overflows(b, s)
  <2>1. PICK n \in 0 .. Cap : n = Advance(b, s)
    BY <1>3, <1>5, Constants, SMTT(30) DEF Resets, Overflows
  <2>2. NewBase(b, B, e) = B + n /\ OverflowFlushed(b, s) = Cardinality(FlushedBy(b, n))
    BY <1>5, <2>1 DEF NewBase, OverflowFlushed
  <2>3. gone = PayloadOf(b, FlushedBy(b, n))
    BY <2>2, FlushedHeld
  <2>4. FlushedBy(b, n) \in SUBSET FilledIn(b)
    BY DEF FlushedBy
  <2> QED
    BY <2>2, <2>3, <2>4, PayloadCount, ZenonT(60)
<1>6. CASE ~Resets(b, s) /\ ~Overflows(b, s)
  <2>1. NewBase(b, B, e) = B /\ OverflowFlushed(b, s) = 0
    BY <1>6 DEF NewBase, OverflowFlushed
  <2>2. gone = {}
    BY <1>1, <2>1
  <2> QED
    BY <2>1, <2>2, FS_EmptySet
<1> QED
  BY <1>4, <1>5, <1>6, Zenon

\* What is held can be counted.
LEMMA HeldFinite ==
  ASSUME NEW b \in Buffer, NEW B \in Nat, NEW H \in Nat, Window(b, B, H)
  PROVE  IsFiniteSet(HeldIn(b)) /\ Cardinality(HeldIn(b)) \in Nat
<1>1. HeldIn(b) = PayloadOf(b, FilledIn(b))
  BY DEF HeldIn, PayloadOf
<1> QED
  BY <1>1, PayloadCount

\* Overrun is the packet that is not near and does not reset.
LEMMA OverrunsIff ==
  ASSUME NEW b \in Buffer, NEW B \in Nat, NEW H \in Nat, Window(b, B, H),
         NEW e \in Nat, B <= e, e < B + Half
  PROVE  Overruns(b, Wire(e)) <=> ~Near(B, H, e) /\ ~Resets(b, Wire(e))
<1>1. B <= H + 1 /\ H < B + Cap /\ b.started
  BY DEF Window
<1>2. diff(b.highest, b.base) = B - H
  <2>1. H - Half <= B /\ B < H + Half
    BY <1>1, Constants
  <2> QED
    BY <2>1, DiffIsDistance DEF Window
<1>3. PastHighest(b) <=> B = H + 1
  BY <1>1, <1>2, SMTT(30) DEF PastHighest
<1>4. CASE B # H + 1
  BY <1>3, <1>4 DEF Overruns, Near
<1>5. CASE B = H + 1
  <2>1. CASE e < H + Half
    <3>1. diff(b.highest, Wire(e)) = e - H
      <4>1. H - Half <= e
        BY <1>5, Constants
      <4> QED
        BY <2>1, <4>1, DiffIsDistance DEF Window
    <3>2. diff(b.highest, Wire(e)) > Cap <=> e > H + Cap
      BY <3>1, Constants
    <3> QED
      BY <1>1, <1>3, <1>5, <3>2, Zenon DEF Overruns, Near
  <2>2. CASE e = H + Half
    <3>1. Resets(b, Wire(e))
      <4>1. wrapping_sub(Wire(e), b.base) = e - B
        BY Constants, WireSubAhead DEF Window
      <4>2. Advance(b, Wire(e)) = Half - Cap
        BY <1>5, <2>2, <4>1, Constants, SMTT(30) DEF Advance
      <4>3. diff(b.base, Wire(e)) = e - B
        BY Constants, DiffIsDistance DEF Window
      <4>4. ~IsStale(b, Wire(e))
        BY <4>3 DEF IsStale
      <4> QED
        BY <1>1, <4>2, <4>4, Constants, SMTT(30) DEF Resets, Overflows
    <3> QED
      BY <3>1 DEF Overruns
  <2> QED
    BY <1>5, <2>1, <2>2, Constants, SMTT(30)
<1> QED
  BY <1>4, <1>5

\* A ring whose window is empty holds no packet.
LEMMA DrainedHoldsNothing ==
  ASSUME NEW slots \in [Ring -> Slot], NEW B \in Nat, NEW H \in Nat, FilledOK(slots, B, H),
         B > H, NEW i \in Ring
  PROVE  slots[i].state # "Filled"
<1>1. PICK d \in Nat : d = slots[i].data
  BY DEF Slot
<1> QED
  BY <1>1 DEF FilledOK

\* The insert that overruns leaves the ring without a packet: the gaps it flags
\* take the slot it has just filled.
LEMMA OverrunHoldsNothing ==
  ASSUME NEW b \in Buffer, NEW B \in Nat, NEW H \in Nat, Window(b, B, H),
         NEW e \in Nat, B <= e, e < B + Half, NEW t \in Nat, Overruns(b, Wire(e))
  PROVE  HeldIn(Insert(b, Wire(e), e, t)) = {} /\ ~IsDuplicate(b, Wire(e))
<1> DEFINE s == Wire(e)
           f == Fitted(b, s)
           g == [f EXCEPT !.slots[idx(s)] = FilledSlot(s, e, t)]
           x == Insert(b, s, e, t)
<1>1. B = H + 1 /\ e > H + Cap /\ ~Resets(b, s) /\ diff(b.highest, s) > Cap
  BY OverrunsIff DEF Near, Overruns
<1>2. s \in SeqNos /\ idx(s) \in Ring /\ FilledSlot(s, e, t) \in Slot
  BY WireType, IdxType, SlotTypes, Zenon
<1>3. f \in Buffer /\ f.highest = b.highest /\ (\A i \in Ring : f.slots[i].state # "Filled")
  <2>1. CASE ~Overflows(b, s)
    <3>1. f = b /\ FilledOK(b.slots, B, H) /\ B > H /\ b.slots \in [Ring -> Slot]
      BY <1>1, <2>1 DEF Fitted, Window, Buffer
    <3> QED
      BY <3>1, DrainedHoldsNothing, ZenonT(60)
  <2>2. CASE Overflows(b, s)
    <3>1. Advance(b, s) = e - B - (Cap - 1)
      <4>1. b.base = Wire(B)
        BY DEF Window
      <4>2. Half \in Nat /\ M = 2 * Half
        BY Constants
      <4>3. e < B + M
        BY <4>2
      <4>4. wrapping_sub(Wire(e), Wire(B)) = e - B
        BY <4>3, WireSubAhead, Zenon
      <4> QED
        BY <4>1, <4>4 DEF Advance
    <3>2. PICK n \in 0 .. Cap : n = Advance(b, s)
      BY <1>1, <2>2, <3>1, Constants, SMTT(30) DEF Resets, Overflows
    <3>3. f = FlushOldest(b, n)
      BY <2>2, <3>2, Zenon DEF Fitted
    <3>4. f \in Buffer /\ f.highest = b.highest /\ FilledOK(f.slots, B + n, H)
      BY <3>3, FlushWindow, SMTT(30)
    <3>5. B + n \in Nat /\ B + n > H /\ f.slots \in [Ring -> Slot]
      BY <1>1, <3>4, Constants, SMTT(30) DEF Buffer
    <3> HIDE DEF f
    <3> QED
      BY <3>4, <3>5, DrainedHoldsNothing, ZenonT(30), ZenonT(30)
  <2> QED
    BY <2>1, <2>2, Zenon
<1>4. ~IsDuplicate(b, s)
  BY <1>2, <1>3 DEF IsDuplicate
<1>5. x = ExtendTo(g, s, t)
  <2>1. diff(b.base, s) = e - B
    BY Constants, DiffIsDistance DEF Window
  <2>2. ~IsStale(b, s)
    BY <2>1 DEF IsStale
  <2> QED
    BY <1>1, <1>4, <2>2, Zenon DEF Insert, Window
<1>6. g.highest = b.highest /\ g.slots = [f.slots EXCEPT ![idx(s)] = FilledSlot(s, e, t)]
  BY <1>3 DEF Buffer
<1>7. \A i \in Ring : i # idx(s) => g.slots[i].state # "Filled"
  BY <1>2, <1>3, <1>6 DEF Buffer
<1>8. g.slots[idx(s)].seq = s
  BY <1>2, <1>3, <1>6, Zenon DEF Buffer, FilledSlot
<1> HIDE DEF g
<1> DEFINE n == diff(g.highest, s)
           Marked(i) ==
             LET k == Behind(s, i)
                 m == wrapping_sub(s, k)
                 replace == \/ g.slots[i].state = "Empty"
                            \/ g.slots[i].seq # m
                            \/ k + Cap < n
             IN  IF k < n /\ replace THEN GapSlot(m, t) ELSE g.slots[i]
<1>9. n \in Int /\ n > Cap
  <2>1. b.highest \in 0 .. (M - 1) /\ s \in 0 .. (M - 1)
    BY <1>2 DEF Buffer, SeqNos
  <2>2. diff(b.highest, s) \in Int
    BY <2>1, Constants DEF diff, as_i16, wrapping_sub
  <2> QED
    BY <1>1, <1>6, <2>2, Zenon
<1>10. x.slots = [i \in Ring |-> Marked(i)]
  <2>1. n > 0
    BY <1>9, Constants
  <2> QED
    BY <1>5, <2>1 DEF ExtendTo
<1>11. Behind(s, idx(s)) = Cap
  BY <1>2, Constants DEF Behind, Ring
<1>12. wrapping_sub(s, Cap) # s
  BY <1>2, Constants, SMTT(30) DEF wrapping_sub, SeqNos
<1> HIDE DEF x, n
<1>13. ASSUME NEW i \in Ring
       PROVE  x.slots[i].state # "Filled"
  <2>1. x.slots[i] = Marked(i)
    BY <1>10, ZenonT(60)
  <2>2. CASE i = idx(s)
    <3>1. Marked(i) = GapSlot(wrapping_sub(s, Cap), t)
      BY <1>8, <1>9, <1>11, <1>12, <2>2, ZenonT(60)
    <3> QED
      BY <2>1, <3>1, SMTT(30) DEF GapSlot
  <2>3. CASE i # idx(s)
    <3>1. Marked(i) = g.slots[i] \/ \E m : Marked(i) = GapSlot(m, t)
      BY Zenon
    <3>2. g.slots[i].state # "Filled"
      BY <1>7, <2>3, Zenon
    <3> HIDE DEF Marked
    <3> QED
      BY <2>1, <3>1, <3>2, SMTT(30) DEF GapSlot
  <2> QED
    BY <2>2, <2>3, Zenon
<1>14. HeldIn(x) = {}
  BY <1>13 DEF HeldIn, FilledIn
<1> QED
  BY <1>4, <1>14 DEF x

\* A packet near the window is a duplicate exactly if it is held and not flushed.
LEMMA HeldIsDuplicate ==
  ASSUME NEW b \in Buffer, NEW B \in Nat, NEW H \in Nat, Window(b, B, H),
         NEW e \in Nat, B <= e, e < B + Half, Near(B, H, e)
  PROVE  IsDuplicate(b, Wire(e)) <=> e \in HeldIn(b) /\ e >= NewBase(b, B, e)
<1> DEFINE s == Wire(e)
           f == Fitted(b, s)
<1>1. e \in HeldIn(b) <=> e \in B .. H /\ b.slots[idx(s)].state = "Filled"
  BY HeldIff
<1>2. idx(s) \in Ring
  BY WireType, IdxType, ZenonT(60)
<1>3. CASE Resets(b, s)
  <2>1. wrapping_sub(s, b.base) = e - B
    BY Constants, WireSubAhead DEF Window
  <2>2. e - B - (Cap - 1) > 0
    BY <1>3, <2>1 DEF Resets, Overflows, Advance
  <2>3. e > H
    BY <2>2, Constants DEF Window
  <2> QED
    BY <1>1, <1>3, <2>3, SMTT(30) DEF IsDuplicate
<1>4. CASE ~Resets(b, s)
  <2>1. PICK nb \in Nat : nb = NewBase(b, B, e)
    <3>1. B - Half <= e
      BY Constants, SMTT(30)
    <3> QED
      BY <3>1, InsertWindow
  <2>2. /\ ~IsStale(b, s) /\ b.started
        /\ B <= nb /\ nb <= e /\ e < nb + Cap /\ f \in Buffer
        /\ FilledOK(f.slots, nb, H) /\ (e <= H => f = b /\ nb = B)
    BY <1>4, <2>1, InsertFits, SMTT(30) DEF Window
  <2>3. IsDuplicate(b, s) <=> f.slots[idx(s)].seq = s /\ f.slots[idx(s)].state = "Filled"
    BY <1>4, <2>2 DEF IsDuplicate
  <2> HIDE DEF f
  <2>4. ASSUME f.slots[idx(s)].state = "Filled"
        PROVE  e <= H /\ f.slots[idx(s)].seq = s
    <3>1. PICK d \in Nat : d = f.slots[idx(s)].data
      BY <1>2, <2>2, Zenon DEF Buffer, Slot
    <3>2. nb <= d /\ d <= H /\ idx(Wire(d)) = idx(s) /\ f.slots[idx(s)].seq = Wire(d)
      BY <1>2, <2>2, <2>4, <3>1, ZenonT(60) DEF FilledOK
    <3>3. d < nb + Cap
      BY <2>2, <3>2, Constants, SMTT(30) DEF Window
    <3>4. d = e
      BY <2>2, <3>2, <3>3, SlotInjective, ZenonT(60)
    <3> QED
      BY <3>2, <3>4, Zenon
  <2>5. CASE e > H
    <3>1. f.slots[idx(s)].state # "Filled"
      BY <2>4, <2>5, SMTT(30)
    <3> QED
      BY <1>1, <2>3, <2>5, <3>1, SMTT(30)
  <2>6. CASE e <= H
    <3>1. f = b /\ e \in B .. H /\ e >= nb
      BY <2>2, <2>6
    <3> QED
      BY <1>1, <2>1, <2>3, <2>4, <3>1, ZenonT(60)
  <2> QED
    BY <2>5, <2>6
<1> QED
  BY <1>3, <1>4, Zenon

\* The insert that resets leaves its packet alone in the ring.
LEMMA ResetHeld ==
  ASSUME NEW b \in Buffer, NEW s \in SeqNos, NEW e \in Nat, s = Wire(e), NEW t \in Nat,
         Resets(b, s)
  PROVE  HeldIn(Insert(b, s, e, t)) = {e}
<1> DEFINE clear == [i \in Ring |-> EmptySlot(0)]
<1>1. Insert(b, s, e, t) = Anchor(clear, s, e, t)
  <2>1. b.started /\ ~IsStale(b, s) /\ ~IsDuplicate(b, s)
    BY DEF Resets, Overflows, IsDuplicate
  <2> QED
    BY <2>1, ZenonT(60) DEF Insert
<1>2. clear \in [Ring -> Slot] /\ \A i \in Ring : clear[i].state # "Filled"
  <2>1. 0 \in SeqNos
    BY Constants, SMTT(30) DEF SeqNos
  <2> QED
    BY <2>1, SlotTypes DEF EmptySlot
<1> HIDE DEF clear
<1> QED
  BY <1>1, <1>2, AnchorWhole

\* insert adds its packet to what is held, unless it was held already or is
\* overrun, and takes away what it counts as flushed.
LEMMA InsertCount ==
  ASSUME NEW b \in Buffer, NEW B \in Nat, NEW H \in Nat, Window(b, B, H),
         NEW e \in Nat, B <= e, e < B + Half, NEW t \in Nat
  PROVE  /\ OverflowFlushed(b, Wire(e)) \in Nat
         /\ Cardinality(HeldIn(Insert(b, Wire(e), e, t))) + OverflowFlushed(b, Wire(e))
            + (IF Overruns(b, Wire(e)) THEN 1 ELSE 0)
            + (IF IsDuplicate(b, Wire(e)) THEN 1 ELSE 0)
              = Cardinality(HeldIn(b)) + 1
<1> DEFINE s == Wire(e)
           nb == NewBase(b, B, e)
           x == Insert(b, s, e, t)
           gone == {y \in HeldIn(b) : y < nb}
           kept == {y \in HeldIn(b) : y >= nb}
<1>1. IsFiniteSet(HeldIn(b)) /\ Cardinality(HeldIn(b)) \in Nat
  BY HeldFinite
<1>2. IsFiniteSet(gone) /\ OverflowFlushed(b, s) = Cardinality(gone)
  BY FlushedCount
<1>3. Cardinality(gone) \in Nat
  BY <1>2, FS_CardinalityType, Zenon
<1>4. \A y : y \in HeldIn(b) <=> y \in B .. H /\ b.slots[idx(Wire(y))].state = "Filled"
  BY HeldIff
<1>5. Overruns(b, s) <=> ~Near(B, H, e) /\ ~Resets(b, s)
  BY OverrunsIff
<1>6. nb \in Nat
  <2>1. B - Half <= e
    BY Constants
  <2> QED
    BY <2>1, InsertWindow
<1> HIDE DEF nb, x
<1>7. IsFiniteSet(kept) /\ Cardinality(kept) \in Nat
      /\ Cardinality(HeldIn(b)) = Cardinality(gone) + Cardinality(kept)
  <2>1. kept = HeldIn(b) \ gone /\ HeldIn(b) \cap gone = gone
    BY <1>4, <1>6
  <2>2. IsFiniteSet(kept) /\ Cardinality(kept) = Cardinality(HeldIn(b)) - Cardinality(gone)
    BY <1>1, <2>1, FS_Difference, ZenonT(30), ZenonT(30)
  <2>3. Cardinality(kept) \in Nat
    BY <2>2, FS_CardinalityType
  <2> QED
    BY <1>1, <1>3, <2>2, <2>3, SMTT(30)
<1>8. CASE Near(B, H, e)
  <2>1. HeldIn(x) = kept \cup {e}
    BY <1>8, InsertWhole DEF x, nb
  <2>2. Cardinality(HeldIn(x))
          = IF e \in kept THEN Cardinality(kept) ELSE Cardinality(kept) + 1
    BY <1>7, <2>1, FS_AddElement, ZenonT(30), ZenonT(30)
  <2>3. e \in kept <=> IsDuplicate(b, s)
    BY <1>8, HeldIsDuplicate DEF nb
  <2>4. ~Overruns(b, s)
    BY <1>5, <1>8, Zenon
  <2> QED
    BY <1>2, <1>3, <1>7, <2>2, <2>3, <2>4 DEF x
<1>9. CASE ~Near(B, H, e)
  <2>1. HeldIn(b) = {}
    BY <1>4, <1>9 DEF Near
  <2>2. Cardinality(HeldIn(b)) = 0 /\ Cardinality(gone) = 0
    BY <2>1, FS_EmptySet, Zenon
  <2>3. CASE ~Resets(b, s)
    <3>1. Overruns(b, s)
      BY <1>5, <1>9, <2>3, Zenon
    <3>2. HeldIn(x) = {} /\ ~IsDuplicate(b, s)
      BY <3>1, OverrunHoldsNothing, Zenon DEF x
    <3>3. Cardinality(HeldIn(x)) = 0
      BY <3>2, FS_EmptySet, ZenonT(60)
    <3> QED
      BY <1>2, <2>2, <3>1, <3>2, <3>3, SMTT(30) DEF x
  <2>4. CASE Resets(b, s)
    <3>1. ~Overruns(b, s) /\ ~IsDuplicate(b, s)
      BY <2>4 DEF Overruns, IsDuplicate
    <3>2. HeldIn(x) = {e}
      BY <2>4, WireType, ResetHeld DEF x
    <3>3. Cardinality(HeldIn(x)) = 1
      BY <3>2, FS_Singleton
    <3> QED
      BY <1>2, <2>2, <3>1, <3>3, SMTT(30) DEF x
  <2> QED
    BY <2>3, <2>4, Zenon
<1> QED
  BY <1>2, <1>3, <1>8, <1>9, Zenon

\* A turn of drain_ready takes from what is held the packet it drains.
LEMMA TurnCount ==
  ASSUME NEW b \in Buffer, NEW B \in Nat, NEW H \in Nat, Window(b, B, H), B <= H
  PROVE  Cardinality(HeldIn(b))
           = Cardinality(HeldIn(DropHead(b))) + (IF IsPacket(Turned(b)) THEN 1 ELSE 0)
<1>1. IsFiniteSet(HeldIn(b)) /\ Cardinality(HeldIn(b)) \in Nat
  BY HeldFinite
<1>2. HeldIn(DropHead(b)) = HeldIn(b) \ {B}
  BY DropHeadWhole
<1>3. Cardinality(HeldIn(DropHead(b)))
        = IF B \in HeldIn(b) THEN Cardinality(HeldIn(b)) - 1 ELSE Cardinality(HeldIn(b))
  BY <1>1, <1>2, FS_RemoveElement, ZenonT(30), ZenonT(30)
<1>4. idx(b.base) \in Ring /\ b.base = Wire(B)
  BY IdxType DEF Buffer, Window
<1>5. ASSUME HeadDelivers(b)
      PROVE  B \in HeldIn(b) /\ IsPacket(Turned(b))
  <2>1. HeadSlot(b).data = B
    BY <1>5, DeliversBase, Zenon
  <2>2. Turned(b) = B + 1
    BY <1>5, <2>1, Zenon DEF Turned
  <2>3. idx(b.base) \in FilledIn(b) /\ b.slots[idx(b.base)].data = B
    BY <1>4, <1>5, <2>1, ZenonT(60) DEF HeadDelivers, HeadSlot, FilledIn
  <2> QED
    BY <2>2, <2>3 DEF HeldIn, IsPacket
<1>6. ASSUME B \in HeldIn(b)
      PROVE  HeadDelivers(b)
  <2>1. PICK i \in FilledIn(b) : b.slots[i].data = B
    BY <1>6, ZenonT(60) DEF HeldIn
  <2>2. i = idx(b.base) /\ b.slots[i].seq = b.base /\ b.slots[i].state = "Filled"
    BY <1>4, <2>1, FilledSlotHolds DEF FilledIn
  <2> QED
    BY <2>2 DEF HeadDelivers, HeadSlot
<1>7. ~HeadDelivers(b) => ~IsPacket(Turned(b))
  BY DEF Turned, IsPacket
<1>8. B \in HeldIn(b) <=> IsPacket(Turned(b))
  BY <1>5, <1>6, <1>7
<1> QED
  BY <1>1, <1>3, <1>8

\* What is held can be counted, before the first packet too.
LEMMA FlowFinite ==
  ASSUME NEW b \in Buffer, NEW c, NEW s, Flow(b, c, s)
  PROVE  Cardinality(HeldIn(b)) \in Nat
<1>1. CASE b.started
  <2>1. PICK B \in Nat, H \in Nat : Window(b, B, H)
    BY <1>1 DEF Flow
  <2> QED
    BY <2>1, HeldFinite
<1>2. CASE ~b.started
  <2>1. HeldIn(b) = {}
    BY <1>2, NewHeld, ZenonT(60) DEF Flow
  <2> QED
    BY <2>1, FS_EmptySet
<1> QED
  BY <1>1, <1>2

\* Every insert stores its packet or accounts for it, and accounts for what it
\* throws away.
LEMMA InsertAccount ==
  ASSUME NEW b \in Buffer, NEW c \in Seq(Nat), NEW s \in Seq(Nat), Flow(b, c, s),
         NEW e \in Packets, NEW t \in Nat
  PROVE  /\ OverflowFlushed(b, Wire(e)) \in Nat
         /\ Cardinality(HeldIn(Insert(b, Wire(e), e, t))) + OverflowFlushed(b, Wire(e))
            + (IF Overruns(b, Wire(e)) THEN 1 ELSE 0)
            + (IF IsDuplicate(b, Wire(e)) THEN 1 ELSE 0)
            + (IF IsStale(b, Wire(e)) THEN 1 ELSE 0)
              = Cardinality(HeldIn(b)) + 1
<1> DEFINE w == Wire(e)
           x == Insert(b, w, e, t)
<1>1. e \in Nat
  BY DrainAssumption
<1>2. CASE ~b.started
  <2>1. b = NewBuffer /\ HeldIn(b) = {}
    BY <1>2, NewHeld, ZenonT(60) DEF Flow
  <2>2. ~Overflows(b, w) /\ ~Overruns(b, w) /\ ~IsDuplicate(b, w) /\ ~IsStale(b, w)
    BY <1>2 DEF Overflows, Overruns, IsDuplicate, IsStale
  <2>3. OverflowFlushed(b, w) = 0
    BY <2>2 DEF OverflowFlushed, Resets
  <2>4. x = Anchor(b.slots, w, e, t)
    BY <1>2, <2>2, Zenon DEF Insert, Resets
  <2>5. HeldIn(x) = {e}
    <3>1. b.slots \in [Ring -> Slot] /\ \A i \in Ring : b.slots[i].state # "Filled"
      BY <2>1, NewBufferType DEF Buffer
    <3> QED
      BY <1>1, <2>4, <3>1, AnchorWhole, ZenonT(60)
  <2>6. Cardinality(HeldIn(x)) = 1 /\ Cardinality(HeldIn(b)) = 0
    BY <2>1, <2>5, FS_Singleton, FS_EmptySet, ZenonT(30), ZenonT(30)
  <2> QED
    BY <2>2, <2>3, <2>6, SMTT(30)
<1>3. CASE b.started
  <2>1. PICK B \in Nat, H \in Nat : Window(b, B, H) /\ H \in Packets /\ (\E a \in Packets : a <= B)
    BY <1>3 DEF Flow
  <2>2. PICK a \in Packets : a <= B
    BY <2>1
  <2>3. a \in Nat /\ H - e < Half /\ e - H < Half /\ e - a < Half
    BY <2>1, DrainAssumption, ZenonT(60)
  <2>4. B <= H + 1 /\ H < B + Cap
    BY <2>1 DEF Window
  <2>5. e < B + Half /\ B - Half <= e
    BY <1>1, <2>2, <2>3, <2>4, Constants, SMTT(30)
  <2>6. diff(b.base, w) = e - B
    BY <1>1, <2>1, <2>5, DiffIsDistance, ZenonT(30), ZenonT(30) DEF Window
  <2>7. CASE e < B
    <3>1. IsStale(b, w)
      BY <1>1, <1>3, <2>6, <2>7, SMTT(30) DEF IsStale
    <3>2. ~Overflows(b, w) /\ ~IsDuplicate(b, w) /\ ~Resets(b, w)
      BY <3>1 DEF Overflows, IsDuplicate, Resets
    <3>3. ~Overruns(b, w)
      <4>1. H - Half <= e /\ e < H + Half
        BY <1>1, <2>3, Constants, SMTT(30)
      <4>2. diff(b.highest, w) = e - H
        BY <1>1, <2>1, <4>1, DiffIsDistance, ZenonT(60) DEF Window
      <4>3. ~(e - H > Cap)
        BY <1>1, <2>4, <2>7, Constants, SMTT(30)
      <4> QED
        BY <4>2, <4>3 DEF Overruns
    <3>4. x = b /\ OverflowFlushed(b, w) = 0
      BY <1>3, <3>1, <3>2, Zenon DEF Insert, OverflowFlushed
    <3>5. Cardinality(HeldIn(b)) \in Nat
      BY FlowFinite, Zenon
    <3> QED
      BY <3>1, <3>2, <3>3, <3>4, <3>5, SMTT(30)
  <2>8. CASE B <= e
    <3>1. ~IsStale(b, w)
      BY <1>1, <2>6, <2>8, SMTT(30) DEF IsStale
    <3>2. /\ OverflowFlushed(b, w) \in Nat
          /\ Cardinality(HeldIn(x)) + OverflowFlushed(b, w)
             + (IF Overruns(b, w) THEN 1 ELSE 0) + (IF IsDuplicate(b, w) THEN 1 ELSE 0)
               = Cardinality(HeldIn(b)) + 1
      BY <1>1, <2>1, <2>5, <2>8, InsertCount, ZenonT(60)
    <3>3. Cardinality(HeldIn(x)) \in Nat
      <4>1. x \in Buffer /\ Flow(x, c, s)
        BY FlowInsert
      <4> HIDE DEF x
      <4> QED
        BY <4>1, FlowFinite
    <3> QED
      BY <3>1, <3>2, <3>3, SMTT(30)
  <2> QED
    BY <1>1, <2>7, <2>8, SMTT(30)
<1> QED
  BY <1>2, <1>3

-----------------------------------------------------------------------------
(* The lock and the condition variable *)

\* A thread at p that waits does so with nothing to release, or until the head
\* is due.
WaitsRightly(b, p, u) ==
  /\ p = "parked" => ~HasDeadline(b)
  /\ p = "sleeping" => HeadSlot(b).seq = b.base /\ u = HeadSlot(b).at + BufferTime

ThreadTypes ==
  /\ buf \in Buffer /\ now \in Nat /\ arr \in Nat /\ dnow \in Nat /\ cancelled \in BOOLEAN
  /\ batch \in Seq(Packets) /\ coming \subseteq Packets
  /\ scratch \in Seq(Nat) /\ chan \in Seq(Nat)

\* Who holds the lock: the delivery thread from its lock() to its unlock or
\* wait, the receive task between the inserts of a burst.
Locks ==
  /\ lock = "drain" <=> pcD \in {"check", "drain", "wait"}
  /\ lock = "recv" => pcR = "insert"
  /\ pcR = "insert" => batch # <<>>

\* The inductive invariant of the two threads.  The delivery thread may wait
\* wrongly only while the receive task is between an insert and its notify.
TInv ==
  /\ ThreadTypes
  /\ Locks
  /\ Flow(buf, chan, scratch)
  /\ lock # "recv" /\ pcR # "notify" => WaitsRightly(buf, pcD, until)

LEMMA TInvInit == Init => TInv
<1> SUFFICES ASSUME Init
             PROVE  TInv
  OBVIOUS
<1>1. ThreadTypes
  <2>1. cancelled \in BOOLEAN /\ buf \in Buffer
    BY NewBufferType, ZenonT(30), ZenonT(30) DEF Init
  <2> QED
    BY <2>1 DEF Init, ThreadTypes
<1>2. Locks
  BY Zenon DEF Init, Locks
<1>3. Flow(buf, chan, scratch)
  <2>1. buf.started = FALSE
    BY DEF Init, NewBuffer
  <2> QED
    BY <2>1, SMTT(30) DEF Init, Flow, InOrder
<1>4. WaitsRightly(buf, pcD, until)
  BY DEF Init, WaitsRightly
<1> QED
  BY <1>1, <1>2, <1>3, <1>4, Zenon DEF TInv

\* A burst is a sequence of packets of the run.
LEMMA BurstType ==
  ASSUME coming \subseteq Packets, NEW b \in Bursts
  PROVE  b \in Seq(Packets) /\ b # <<>>
<1>1. CASE b \in {<<e>> : e \in coming}
  <2>1. PICK e \in coming : b = <<e>>
    BY <1>1
  <2> QED
    BY <2>1
<1>2. CASE b \in coming \X coming
  <2>1. PICK d \in coming, e \in coming : b = <<d, e>>
    BY <1>2
  <2> QED
    BY <2>1
<1> QED
  BY <1>1, <1>2 DEF Bursts

\* The receive task inserts under the lock, and has yet to notify.
LEMMA InsertThread ==
  ASSUME TInv, RecvInsert
  PROVE  TInv'
<1> DEFINE e == Head(batch)
<1>1. batch \in Seq(Packets) /\ batch # <<>> /\ lock # "drain"
  BY DEF TInv, ThreadTypes, Locks, RecvInsert
<1>2. e \in Packets /\ Tail(batch) \in Seq(Packets) /\ (Len(batch) # 1 => Tail(batch) # <<>>)
  <2>1. Len(batch) \in Nat \ {0} /\ Len(Tail(batch)) = Len(batch) - 1
    BY <1>1
  <2>2. e \in Packets /\ Tail(batch) \in Seq(Packets)
    BY <1>1
  <2>3. Len(<<>>) = 0
    OBVIOUS
  <2>4. Len(batch) # 1 => Len(Tail(batch)) # 0
    BY <2>1
  <2> QED
    BY <2>2, <2>3, <2>4, ZenonT(30), ZenonT(30)
<1>3. buf' = Insert(buf, Wire(e), e, arr)
  BY DEF RecvInsert
<1>4. UNCHANGED <<now, cancelled, arr, coming, pcD, dnow, until, scratch, chan>>
  BY DEF RecvInsert, drainVars, appVars
<1>5. buf' \in Buffer /\ Flow(buf', chan, scratch)
  BY <1>2, <1>3, FlowInsert DEF TInv, ThreadTypes
<1>6. batch' = Tail(batch)
  BY DEF RecvInsert
<1>7. ThreadTypes'
  BY <1>2, <1>4, <1>5, <1>6, Zenon DEF TInv, ThreadTypes
<1>8. lock' \in {"free", "recv"} /\ (lock' = "free" => pcR' = "notify")
      /\ (lock' = "recv" => pcR' = "insert" /\ Len(batch) # 1)
      /\ (pcR' = "insert" => Len(batch) # 1)
  BY DEF RecvInsert
<1>9. Locks'
  BY <1>1, <1>2, <1>4, <1>6, <1>8, Zenon DEF TInv, Locks
<1> QED
  BY <1>4, <1>5, <1>7, <1>8, <1>9 DEF TInv

\* The other steps of the receive task leave the buffer alone.
LEMMA RecvThread ==
  ASSUME TInv,
         \/ RecvStart \/ RecvNotify \/ RecvCancelled \/ RecvShutdown \/ RecvJoin
         \/ \E b \in Bursts : RecvBurst(b)
  PROVE  TInv'
<1>1. UNCHANGED <<buf, lock, now, cancelled, dnow, until, scratch, chan>>
  BY Zenon DEF RecvStart, RecvNotify, RecvCancelled, RecvShutdown, RecvJoin, RecvBurst,
         drainVars, appVars
<1>2. pcD' = pcD \/ (pcD \in {"parked", "sleeping"} /\ pcD' = "lock")
  BY Zenon DEF RecvStart, RecvNotify, RecvCancelled, RecvShutdown, RecvJoin, RecvBurst,
         drainVars, Notify
<1>3. pcR # "insert" /\ (pcR = "notify" => pcD' \notin {"parked", "sleeping"})
  BY DEF RecvStart, RecvNotify, RecvCancelled, RecvShutdown, RecvJoin, RecvBurst, Notify
<1>4. /\ batch' \in Seq(Packets) /\ coming' \subseteq Packets /\ arr' \in Nat
      /\ pcR' = "insert" => batch' # <<>>
  <2>1. CASE RecvStart \/ RecvNotify \/ RecvCancelled \/ RecvShutdown \/ RecvJoin
    <3>1. UNCHANGED <<batch, coming, arr>> /\ pcR' # "insert"
      BY <2>1, Zenon DEF RecvStart, RecvNotify, RecvCancelled, RecvShutdown, RecvJoin
    <3> QED
      BY <3>1, Zenon DEF TInv, ThreadTypes
  <2>2. ASSUME NEW b \in Bursts, RecvBurst(b)
        PROVE  /\ batch' \in Seq(Packets) /\ coming' \subseteq Packets /\ arr' \in Nat
               /\ batch' # <<>>
    BY <2>2, BurstType, Zenon DEF RecvBurst, TInv, ThreadTypes
  <2> QED
    BY <2>1, <2>2
<1>5. ThreadTypes'
  BY <1>1, <1>4 DEF TInv, ThreadTypes
<1>6. Locks'
  BY <1>1, <1>2, <1>3, <1>4 DEF TInv, Locks
<1>7. WaitsRightly(buf, pcD', until)
  <2>1. CASE pcR = "notify" \/ pcD' = "lock"
    BY <1>3, <2>1 DEF WaitsRightly
  <2>2. CASE pcR # "notify" /\ pcD' # "lock"
    BY <1>2, <1>3, <2>2 DEF TInv, Locks
  <2> QED
    BY <2>1, <2>2, Zenon
<1> QED
  BY <1>1, <1>5, <1>6, <1>7, Zenon DEF TInv

\* A turn of drain_ready happens under the lock.
LEMMA TurnThread ==
  ASSUME TInv, DrainTurn
  PROVE  TInv'
<1>1. pcD = "drain" /\ HeadReady(buf, dnow)
  BY DEF DrainTurn
<1>2. UNCHANGED <<lock, now, cancelled, pcR, batch, arr, coming, pcD, dnow, until, chan>>
  BY DEF DrainTurn, recvVars, appVars
<1>3. buf' = DropHead(buf) /\ scratch' = Append(scratch, Turned(buf))
  BY DEF DrainTurn, Turned
<1>4. /\ Turned(buf) \in Nat /\ DropHead(buf) \in Buffer
      /\ Flow(DropHead(buf), chan, Append(scratch, Turned(buf)))
  BY <1>1, FlowTurn DEF TInv, ThreadTypes
<1>5. scratch' \in Seq(Nat)
  BY <1>3, <1>4 DEF TInv, ThreadTypes
<1>6. ThreadTypes'
  BY <1>2, <1>3, <1>4, <1>5, Zenon DEF TInv, ThreadTypes
<1>7. Locks'
  BY <1>2 DEF TInv, Locks
<1>8. WaitsRightly(buf', pcD', until')
  BY <1>1, <1>2 DEF WaitsRightly
<1> QED
  BY <1>2, <1>3, <1>4, <1>6, <1>7, <1>8, ZenonT(60) DEF TInv

\* The delivery thread sends outside the lock.
LEMMA SendThread ==
  ASSUME TInv, DrainSend
  PROVE  TInv'
<1>1. pcD = "deliver" /\ scratch # <<>> /\ scratch' = Tail(scratch)
  BY DEF DrainSend
<1>2. UNCHANGED <<buf, lock, now, cancelled, pcR, batch, arr, coming, pcD, dnow, until>>
  BY DEF DrainSend, recvVars
<1>3. chan' = chan \/ (IsPacket(Head(scratch)) /\ chan' = Append(chan, Head(scratch) - 1))
  BY DEF DrainSend, IsPacket
<1>4. scratch \in Seq(Nat) /\ chan \in Seq(Nat) /\ Flow(buf, chan, scratch)
  BY DEF TInv, ThreadTypes
<1>5. Tail(scratch) \in Seq(Nat)
  BY <1>1, <1>4
<1>6. /\ Flow(buf, chan, Tail(scratch))
      /\ IsPacket(Head(scratch)) => /\ Head(scratch) - 1 \in Nat
                                    /\ Flow(buf, Append(chan, Head(scratch) - 1), Tail(scratch))
  BY <1>1, <1>4, FlowSend, Zenon
<1>7. chan' \in Seq(Nat) /\ Flow(buf, chan', Tail(scratch))
  <2>1. CASE chan' = chan
    BY <1>4, <1>6, <2>1
  <2>2. CASE IsPacket(Head(scratch)) /\ chan' = Append(chan, Head(scratch) - 1)
    <3>1. PICK x \in Nat : x = Head(scratch) - 1 /\ Flow(buf, Append(chan, x), Tail(scratch))
      BY <1>6, <2>2
    <3>2. Append(chan, x) \in Seq(Nat)
      BY <1>4
    <3> QED
      BY <2>2, <3>1, <3>2
  <2> QED
    BY <1>3, <2>1, <2>2
<1>8. ThreadTypes'
  BY <1>1, <1>2, <1>5, <1>7, Zenon DEF TInv, ThreadTypes
<1>9. Locks'
  BY <1>2, Zenon DEF TInv, Locks
<1>10. WaitsRightly(buf', pcD', until')
  BY <1>1, <1>2 DEF WaitsRightly
<1> QED
  BY <1>1, <1>2, <1>7, <1>8, <1>9, <1>10, ZenonT(60) DEF TInv

\* The other steps of the delivery thread move it and the lock; it enters a wait
\* having looked at the head under the lock that the wait releases.
LEMMA DrainThreadMoves ==
  ASSUME TInv,
         \/ DrainLock \/ DrainCheck \/ DrainReturn \/ DrainWait
         \/ DrainTimeout \/ DrainSpurious \/ DrainLoop
  PROVE  TInv'
<1>1. UNCHANGED <<buf, now, cancelled, pcR, batch, arr, coming, chan>>
  BY Zenon DEF DrainLock, DrainCheck, DrainReturn, DrainWait, DrainTimeout, DrainSpurious,
         DrainLoop, recvVars, appVars
<1>2. (scratch' = scratch \/ scratch' = <<>>) /\ (dnow' = dnow \/ dnow' = now)
  BY DEF DrainLock, DrainCheck, DrainReturn, DrainWait, DrainTimeout, DrainSpurious,
         DrainLoop
<1>3. ThreadTypes'
  <2>1. scratch' \in Seq(Nat)
    <3>1. scratch \in Seq(Nat) /\ <<>> \in Seq(Nat)
      BY DEF TInv, ThreadTypes
    <3> QED
      BY <1>2, <3>1, ZenonT(30), Zenon
  <2> QED
    BY <1>1, <1>2, <2>1 DEF TInv, ThreadTypes
<1>4. Flow(buf, chan, scratch')
  BY <1>2, FlowTake, Zenon DEF TInv, ThreadTypes
<1>5. /\ lock' = "drain" <=> pcD' \in {"check", "drain", "wait"}
      /\ lock' = "recv" => lock = "recv"
      /\ lock = "recv" /\ pcD' \in {"parked", "sleeping"} => FALSE
  <2>1. CASE DrainLock
    BY <2>1 DEF DrainLock
  <2>2. CASE DrainCheck
    BY <2>2 DEF DrainCheck, TInv, Locks, ThreadTypes
  <2>3. CASE DrainReturn
    BY <2>3 DEF DrainReturn, TInv, Locks
  <2>4. CASE DrainWait
    BY <2>4, Zenon DEF DrainWait, TInv, Locks
  <2>5. CASE DrainTimeout \/ DrainSpurious \/ DrainLoop
    BY <2>5 DEF DrainTimeout, DrainSpurious, DrainLoop, TInv, Locks
  <2> QED
    BY <2>1, <2>2, <2>3, <2>4, <2>5, ZenonT(60)
<1>6. Locks'
  BY <1>1, <1>5 DEF TInv, Locks
<1>7. WaitsRightly(buf, pcD', until')
  <2>1. CASE DrainLock \/ DrainCheck \/ DrainReturn \/ DrainTimeout \/ DrainSpurious \/ DrainLoop
    <3>1. pcD' \notin {"parked", "sleeping"}
      BY <2>1 DEF DrainLock, DrainCheck, DrainReturn, DrainTimeout, DrainSpurious, DrainLoop
    <3> QED
      BY <3>1, ZenonT(60) DEF WaitsRightly
  <2>2. CASE DrainWait
    <3>1. CASE ~HasDeadline(buf) /\ pcD' = "parked"
      BY <3>1 DEF WaitsRightly
    <3>2. CASE Deadline(buf, now) > now /\ pcD' = "sleeping" /\ until' = Deadline(buf, now)
      <4>1. now \in Nat
        BY DEF TInv, ThreadTypes
      <4>2. HeadSlot(buf).seq = buf.base
        BY <3>2, <4>1 DEF Deadline
      <4> QED
        BY <3>2, <4>2 DEF Deadline, WaitsRightly
    <3>3. CASE pcD' = "lock"
      BY <3>3 DEF WaitsRightly
    <3> QED
      BY <2>2, <3>1, <3>2, <3>3, ZenonT(60) DEF DrainWait
  <2> QED
    BY <2>1, <2>2
<1> QED
  BY <1>1, <1>3, <1>4, <1>6, <1>7, Zenon DEF TInv

\* The application, the token and the clock touch neither buffer nor lock.
LEMMA AppThread ==
  ASSUME TInv, AppRecv \/ AppDrop \/ Cancel \/ Tick \/ UNCHANGED vars
  PROVE  TInv'
<1>1. UNCHANGED <<buf, lock, pcR, batch, arr, coming, pcD, dnow, until, scratch>>
  BY DEF AppRecv, AppDrop, Cancel, Tick, vars, recvVars, drainVars
<1>2. now' = now \/ now' = now + 1
  BY Zenon DEF AppRecv, AppDrop, Cancel, Tick, vars
<1>3. cancelled' \in BOOLEAN
  BY ZenonT(30) DEF AppRecv, AppDrop, Cancel, Tick, vars, TInv, ThreadTypes
<1>4. chan' = chan \/ chan' = <<>> \/ (chan # <<>> /\ chan' = Tail(chan))
  BY DEF AppRecv, AppDrop, Cancel, Tick, vars, appVars
<1>5. chan' \in Seq(Nat) /\ Flow(buf, chan', scratch)
  <2>1. chan \in Seq(Nat) /\ scratch \in Seq(Nat) /\ Flow(buf, chan, scratch)
    BY DEF TInv, ThreadTypes
  <2>2. <<>> \in Seq(Nat) /\ (chan # <<>> => Tail(chan) \in Seq(Nat))
    BY <2>1
  <2>3. Flow(buf, <<>>, scratch) /\ (chan # <<>> => Flow(buf, Tail(chan), scratch))
    BY <2>1, FlowTake, ZenonT(30), Zenon
  <2> QED
    BY <1>4, <2>1, <2>2, <2>3, ZenonT(30), Zenon
<1>6. ThreadTypes'
  BY <1>1, <1>2, <1>3, <1>5 DEF TInv, ThreadTypes
<1>7. Locks'
  BY <1>1 DEF TInv, Locks
<1> QED
  BY <1>1, <1>5, <1>6, <1>7, ZenonT(60) DEF TInv

LEMMA TInvNext == TInv /\ [Next]_vars => TInv'
BY InsertThread, RecvThread, TurnThread, SendThread, DrainThreadMoves, AppThread
   DEF Next, Recv, Drain

LEMMA TInvAlways == Spec => []TInv
BY TInvInit, TInvNext, PTL DEF Spec

\* No wake-up of the delivery thread is missed: whenever the receive task is not
\* between an insert and its notify_one, a thread in the untimed wait has
\* nothing to release and one in the timed wait wakes by the head's deadline
\* (run_drain_thread, receiver.rs:154-187, against the insert at 366-380).
THEOREM WakesAreNotMissed == Spec => []NoMissedWake
<1>1. TInv => NoMissedWake
  <2> SUFFICES ASSUME TInv, Quiet
               PROVE  /\ pcD = "parked" => ~HasDeadline(buf)
                      /\ pcD = "sleeping" /\ HasDeadline(buf) => until <= Deadline(buf, now)
    BY DEF NoMissedWake
  <2>1. WaitsRightly(buf, pcD, until)
    BY DEF TInv, Quiet
  <2>2. HeadSlot(buf).at + BufferTime \in Nat
    <3>1. idx(buf.base) \in Ring
      BY IdxType DEF TInv, ThreadTypes, Buffer
    <3>2. HeadSlot(buf).at \in Nat
      BY <3>1, ZenonT(60) DEF TInv, ThreadTypes, Buffer, Slot, HeadSlot
    <3> QED
      BY <3>2, CapAssumption
  <2> QED
    BY <2>1, <2>2 DEF WaitsRightly, Deadline
<1> QED
  BY <1>1, TInvAlways, PTL

\* Packets reach the application in stream order across the two threads: the
\* channel, the drained items and the ring follow each other at every step of
\* drain_ready, of the sends outside the lock and of the inserts between them.
THEOREM OrderAcrossThreads == Spec => []InOrderAcrossThreads
<1>1. TInv => InOrderAcrossThreads
  <2> SUFFICES ASSUME TInv
               PROVE  InOrderAcrossThreads
    OBVIOUS
  <2>1. Flow(buf, chan, scratch) /\ buf \in Buffer
    BY DEF TInv, ThreadTypes
  <2>2. ASSUME NEW e \in Held
        PROVE  /\ \A j \in DOMAIN chan : chan[j] < e
               /\ \A k \in DOMAIN scratch : IsPacket(scratch[k]) => scratch[k] - 1 < e
    <3>1. PICK i \in FilledIn(buf) : e = buf.slots[i].data
      BY <2>2 DEF Held
    <3>2. i \in Ring /\ buf.slots[i].state = "Filled"
      BY <3>1, Zenon DEF FilledIn
    <3>3. buf.started
      BY <2>1, <3>2, NewBufferType DEF Flow
    <3>4. PICK B \in Nat, H \in Nat : Window(buf, B, H) /\ Below(chan, scratch, B)
      BY <2>1, <3>3, Zenon DEF Flow
    <3>5. e \in Nat /\ B <= e
      BY <2>1, <3>1, <3>2, <3>4, ZenonT(60) DEF Window, FilledOK, Buffer, Slot
    <3>6. /\ \A j \in DOMAIN chan : chan[j] \in Nat
          /\ \A k \in DOMAIN scratch : scratch[k] \in Nat
      BY DEF TInv, ThreadTypes
    <3> QED
      BY <3>4, <3>5, <3>6 DEF Below
  <2> QED
    BY <2>1, <2>2 DEF Flow, InOrder, InOrderAcrossThreads
<1> QED
  BY <1>1, TInvAlways, PTL

\* The inductive invariant of the accounting, on top of TInv: what has been
\* drained is in the delivery thread's hands only while it drains or delivers.
AInv ==
  /\ stats \in [drops : Nat, lost : Nat, dup : Nat]
  /\ pcD \notin {"drain", "deliver"} => scratch = <<>>
  /\ NothingVanishes

\* The parts of the account are numbers.
LEMMA AccountTypes ==
  ASSUME TInv, AInv
  PROVE  /\ Cardinality(Held) \in Nat /\ Held = HeldIn(buf)
         /\ Cardinality(Carrying(scratch)) \in Nat /\ Len(chan) \in Nat
         /\ stats.drops \in Nat /\ stats.lost \in Nat /\ stats.dup \in Nat
         /\ due \in Nat
<1>1. Held = HeldIn(buf)
  BY DEF Held, HeldIn
<1>2. Cardinality(HeldIn(buf)) \in Nat
  BY FlowFinite DEF TInv, ThreadTypes
<1>3. scratch \in Seq(Nat) /\ chan \in Seq(Nat)
  BY DEF TInv, ThreadTypes
<1>4. Cardinality(Carrying(scratch)) \in Nat /\ Len(chan) \in Nat
  BY <1>3, CarryingFinite
<1>5. stats.drops \in Nat /\ stats.lost \in Nat /\ stats.dup \in Nat
  BY DEF AInv
<1> QED
  BY <1>1, <1>2, <1>4, <1>5, SMTT(30) DEF AInv, NothingVanishes

LEMMA AInvInit == Init => AInv
<1> SUFFICES ASSUME Init
             PROVE  AInv
  OBVIOUS
<1>1. Cardinality(Held) = 0
  <2>1. Held = {}
    BY NewHeld, ZenonT(30), ZenonT(30) DEF Init, Held, HeldIn
  <2> QED
    BY <2>1, FS_EmptySet
<1>2. Cardinality(Carrying(scratch)) = 0 /\ Len(chan) = 0 /\ scratch = <<>>
  BY CarryingNone DEF Init
<1> QED
  BY <1>1, <1>2 DEF Init, AInv, NothingVanishes

\* An insert is accounted for in the ring and in the statistics.
LEMMA InsertAccounted ==
  ASSUME TInv, AInv, RecvInsert
  PROVE  AInv'
<1> DEFINE e == Head(batch)
           w == Wire(e)
           x == Insert(buf, w, e, arr)
<1>1. e \in Packets
  <2>1. batch \in Seq(Packets) /\ batch # <<>>
    BY DEF TInv, ThreadTypes, Locks, RecvInsert
  <2> QED
    BY <2>1
<1>2. UNCHANGED <<pcD, scratch, chan>>
  BY DEF RecvInsert, drainVars, appVars
<1>3. PICK o \in Nat, h \in Nat, k \in Nat, d \in Nat, l \in Nat, u \in Nat, p \in Nat, n \in Nat :
        /\ o = OverflowFlushed(buf, w) /\ h = Cardinality(Held)
        /\ k = (IF Overruns(buf, w) THEN 1 ELSE 0)
        /\ d = stats.drops /\ l = stats.lost /\ u = stats.dup
        /\ p = Cardinality(Carrying(scratch)) /\ n = Len(chan)
  <2>1. OverflowFlushed(buf, w) \in Nat
    BY <1>1, InsertAccount DEF TInv, ThreadTypes
  <2> QED
    BY <2>1, AccountTypes, ZenonT(30), ZenonT(30)
<1>4. PICK i \in Nat, j \in Nat : /\ i = (IF IsStale(buf, w) THEN 1 ELSE 0)
                                  /\ j = (IF IsDuplicate(buf, w) THEN 1 ELSE 0)
  OBVIOUS
<1>5. PICK g \in Nat : g = Cardinality(HeldIn(x)) /\ g + o + k + j + i = h + 1
  <2>1. Cardinality(HeldIn(x)) + o + k + j + i = h + 1
    <3>1. /\ buf \in Buffer /\ chan \in Seq(Nat) /\ scratch \in Seq(Nat)
          /\ Flow(buf, chan, scratch) /\ arr \in Nat
      BY DEF TInv, ThreadTypes
    <3>2. Cardinality(HeldIn(x)) + OverflowFlushed(buf, w)
          + (IF Overruns(buf, w) THEN 1 ELSE 0)
          + (IF IsDuplicate(buf, w) THEN 1 ELSE 0)
          + (IF IsStale(buf, w) THEN 1 ELSE 0)
            = Cardinality(HeldIn(buf)) + 1
      BY <1>1, <3>1, InsertAccount, ZenonT(30), ZenonT(30)
    <3>3. HeldIn(buf) = Held
      BY AccountTypes, Zenon
    <3> QED
      BY <1>3, <1>4, <3>2, <3>3, ZenonT(30), ZenonT(30)
  <2>2. Cardinality(HeldIn(x)) \in Nat
    <3>1. x \in Buffer /\ Flow(x, chan, scratch)
      BY <1>1, FlowInsert DEF TInv, ThreadTypes
    <3> HIDE DEF x
    <3> QED
      BY <3>1, FlowFinite, Zenon
  <2> QED
    BY <2>1, <2>2
<1>6. buf' = x /\ due' = due + 1 - o - k
      /\ stats' = [stats EXCEPT !.drops = @ + i, !.dup = @ + j, !.lost = @ + o]
  BY <1>3, <1>4 DEF RecvInsert
<1>7. stats' = [drops |-> d + i, lost |-> l + o, dup |-> u + j]
  BY <1>3, <1>6, ZenonT(30), Zenon DEF AInv
<1>8. Cardinality(Held') = g
  BY <1>5, <1>6 DEF Held, HeldIn
<1>9. due = h + p + n + d + u
  BY <1>3 DEF AInv, NothingVanishes
<1>10. due' = g + p + n + (d + i) + (u + j)
  BY <1>5, <1>6, <1>9, SMTT(30)
<1>11. NothingVanishes'
  BY <1>2, <1>3, <1>7, <1>8, <1>10, ZenonT(60) DEF NothingVanishes
<1>12. stats' \in [drops : Nat, lost : Nat, dup : Nat]
  BY <1>7
<1> QED
  BY <1>2, <1>11, <1>12 DEF AInv

\* A turn of drain_ready hands what it takes from the ring to the thread.
LEMMA TurnAccounted ==
  ASSUME TInv, AInv, DrainTurn
  PROVE  AInv'
<1>1. pcD = "drain" /\ HeadReady(buf, dnow) /\ UNCHANGED <<pcD, chan, stats, due>>
  BY DEF DrainTurn, appVars
<1>2. buf' = DropHead(buf) /\ scratch' = Append(scratch, Turned(buf))
  BY DEF DrainTurn, Turned
<1>3. PICK z \in Nat : z = Turned(buf)
  BY <1>1, FlowTurn DEF TInv, ThreadTypes
<1>4. PICK r \in Nat : r = (IF IsPacket(z) THEN 1 ELSE 0)
  BY Zenon
<1>5. Cardinality(Held) = Cardinality(Held') + r
  <2>1. buf.started
    BY <1>1 DEF HeadReady
  <2>2. PICK B \in Nat, H \in Nat : Window(buf, B, H)
    BY <2>1 DEF TInv, Flow
  <2>3. buf \in Buffer /\ dnow \in Nat
    BY DEF TInv, ThreadTypes
  <2>4. B <= H
    BY <1>1, <2>2, <2>3, ReadyInWindow, Zenon
  <2> QED
    BY <1>2, <1>3, <1>4, <2>2, <2>3, <2>4, TurnCount, ZenonT(60) DEF Held, HeldIn
<1>6. Cardinality(Carrying(scratch')) = Cardinality(Carrying(scratch)) + r
  <2>1. scratch \in Seq(Nat)
    BY DEF TInv, ThreadTypes
  <2> QED
    BY <1>2, <1>3, <1>4, <2>1, CarryingAppend, ZenonT(60)
<1>7. Cardinality(Held') \in Nat
  <2>1. TInv'
    BY TurnThread
  <2>2. Cardinality(HeldIn(buf')) \in Nat
    BY <2>1, FlowFinite DEF TInv, ThreadTypes
  <2> QED
    BY <2>2 DEF Held, HeldIn
<1>8. Cardinality(Held) + Cardinality(Carrying(scratch))
        = Cardinality(Held') + Cardinality(Carrying(scratch'))
  BY <1>5, <1>6, <1>7, AccountTypes, SMTT(30)
<1>9. NothingVanishes'
  BY <1>1, <1>8, Zenon DEF AInv, NothingVanishes
<1> QED
  BY <1>1, <1>9 DEF AInv

\* A drained packet goes into the channel or is counted as a drop.
LEMMA SendAccounted ==
  ASSUME TInv, AInv, DrainSend
  PROVE  AInv'
<1> DEFINE item == Head(scratch)
           sends == item # 0 /\ open /\ Len(chan) < ChanCap
<1>1. pcD = "deliver" /\ scratch # <<>> /\ scratch' = Tail(scratch)
      /\ UNCHANGED <<buf, pcD, due>>
  BY DEF DrainSend
<1>2. scratch \in Seq(Nat) /\ chan \in Seq(Nat)
  BY DEF TInv, ThreadTypes
<1>3. PICK r \in Nat, d \in Nat, l \in Nat, u \in Nat, p \in Nat, n \in Nat :
        /\ r = (IF IsPacket(item) THEN 1 ELSE 0)
        /\ d = stats.drops /\ l = stats.lost /\ u = stats.dup
        /\ p = Cardinality(Carrying(scratch)) /\ n = Len(chan)
  BY AccountTypes, ZenonT(30), Zenon
<1>4. PICK q \in Nat : q = Cardinality(Carrying(scratch')) /\ p = q + r
  <2>1. Tail(scratch) \in Seq(Nat)
    BY <1>1, <1>2
  <2>2. Cardinality(Carrying(Tail(scratch))) \in Nat
    BY <2>1, CarryingFinite, ZenonT(30), ZenonT(30)
  <2>3. p = Cardinality(Carrying(Tail(scratch))) + r
    BY <1>1, <1>2, <1>3, CarryingTail, Zenon
  <2> QED
    BY <1>1, <2>2, <2>3, Zenon
<1>5. PICK y \in Nat, v \in Nat : /\ y = (IF item # 0 /\ ~sends THEN 1 ELSE 0)
                                  /\ v = (IF item = 0 THEN 1 ELSE 0)
  OBVIOUS
<1>6. stats' = [stats EXCEPT !.lost = @ + v, !.drops = @ + y]
  BY <1>5 DEF DrainSend
<1>7. stats' = [drops |-> d + y, lost |-> l + v, dup |-> u]
  BY <1>3, <1>6, ZenonT(30), ZenonT(30) DEF AInv
<1>8. Len(chan') + y = n + r
  <2>1. CASE sends
    <3>1. chan' = Append(chan, item - 1)
      BY <2>1, Zenon DEF DrainSend
    <3>2. Len(chan') = n + 1
      BY <1>2, <1>3, <3>1, SMTT(30)
    <3>3. y = 0 /\ r = 1
      BY <1>3, <1>5, <2>1, Zenon DEF IsPacket
    <3> QED
      BY <3>2, <3>3
  <2>2. CASE ~sends
    <3>1. chan' = chan
      BY <2>2 DEF DrainSend
    <3>2. y = r
      BY <1>3, <1>5, <2>2, Zenon DEF IsPacket
    <3> QED
      BY <1>3, <3>1, <3>2, Zenon
  <2> QED
    BY <2>1, <2>2
<1>9. PICK m \in Nat : m = Len(chan')
  <2>1. chan' = chan \/ chan' = Append(chan, item - 1)
    BY DEF DrainSend
  <2>2. TInv'
    BY SendThread, Zenon
  <2>3. chan' \in Seq(Nat)
    BY <2>2 DEF TInv, ThreadTypes
  <2> QED
    BY <2>3
<1>10. PICK h \in Nat : h = Cardinality(Held) /\ h = Cardinality(Held')
  <2>1. Held' = Held
    BY <1>1, Zenon DEF Held, FilledIn
  <2> QED
    BY <2>1, AccountTypes, Zenon
<1>11. due = h + p + n + d + u
  BY <1>3, <1>10, Zenon DEF AInv, NothingVanishes
<1>12. due' = h + q + m + (d + y) + u
  <2>1. m + y = n + r /\ p = q + r
    BY <1>4, <1>8, <1>9, Zenon
  <2>2. h + p + n + d + u = h + q + m + (d + y) + u
    BY <2>1, SMTT(30)
  <2> QED
    BY <1>1, <1>11, <2>2, Zenon
<1>13. NothingVanishes'
  BY <1>4, <1>7, <1>9, <1>10, <1>12, ZenonT(60) DEF NothingVanishes
<1>14. stats' \in [drops : Nat, lost : Nat, dup : Nat]
  BY <1>7
<1> QED
  BY <1>1, <1>13, <1>14, Zenon DEF AInv

\* The application takes packets from the channel, one or all that are left.
LEMMA AppAccounted ==
  ASSUME TInv, AInv, AppRecv \/ AppDrop
  PROVE  AInv'
<1>1. UNCHANGED <<buf, pcD, scratch, stats>>
  BY DEF AppRecv, AppDrop, drainVars
<1>2. chan \in Seq(Nat) /\ Len(chan) \in Nat
  BY DEF TInv, ThreadTypes
<1>3. Held' = Held
  BY <1>1 DEF Held, FilledIn
<1>4. due' - Len(chan') = due - Len(chan) /\ Len(chan') \in Nat /\ due' \in Int
  <2>1. due \in Nat
    BY AccountTypes
  <2>2. CASE AppRecv
    <3>1. chan # <<>> /\ chan' = Tail(chan) /\ due' = due - 1
      BY <2>2 DEF AppRecv
    <3>2. Len(chan') = Len(chan) - 1 /\ Len(chan') \in Nat
      BY <1>2, <3>1
    <3> QED
      BY <1>2, <2>1, <3>1, <3>2, SMTT(30)
  <2>3. CASE AppDrop
    <3>1. chan' = <<>> /\ due' = due - Len(chan)
      BY <2>3 DEF AppDrop
    <3>2. Len(chan') = 0
      BY <3>1
    <3> QED
      BY <1>2, <2>1, <3>1, <3>2, SMTT(30)
  <2> QED
    BY <2>2, <2>3
<1>5. PICK h \in Nat, p \in Nat, d \in Nat, u \in Nat :
        /\ h = Cardinality(Held) /\ p = Cardinality(Carrying(scratch))
        /\ d = stats.drops /\ u = stats.dup
  BY AccountTypes
<1>6. due = h + p + Len(chan) + d + u
  BY <1>5 DEF AInv, NothingVanishes
<1>7. due' = h + p + Len(chan') + d + u
  BY <1>2, <1>4, <1>6, SMTT(30)
<1>8. NothingVanishes'
  BY <1>1, <1>3, <1>5, <1>7, Zenon DEF NothingVanishes
<1> QED
  BY <1>1, <1>8, Zenon DEF AInv

\* The other steps move no packet.
LEMMA OthersAccounted ==
  ASSUME TInv, AInv,
         \/ \E b \in Bursts : RecvBurst(b)
         \/ RecvStart \/ RecvNotify \/ RecvShutdown \/ RecvJoin \/ RecvCancelled
         \/ DrainLock \/ DrainCheck \/ DrainReturn \/ DrainWait \/ DrainTimeout
         \/ DrainLoop \/ DrainSpurious \/ Cancel \/ Tick \/ UNCHANGED vars
  PROVE  AInv'
<1>1. UNCHANGED <<buf, chan, stats, due>>
  BY Zenon DEF RecvBurst, RecvStart, RecvNotify, RecvShutdown, RecvJoin, RecvCancelled, DrainLock,
         DrainCheck, DrainReturn, DrainWait, DrainTimeout, DrainLoop, DrainSpurious, Cancel,
         Tick, vars, appVars
<1>2. scratch' = scratch /\ (pcD' \notin {"drain", "deliver"} => scratch' = <<>>)
  <2>1. CASE \/ \E b \in Bursts : RecvBurst(b)
             \/ RecvStart \/ RecvJoin \/ RecvCancelled \/ Cancel \/ Tick \/ UNCHANGED vars
    <3>1. UNCHANGED <<pcD, scratch>>
      BY <2>1, ZenonT(30) DEF RecvBurst, RecvStart, RecvJoin, RecvCancelled, Cancel, Tick, vars, drainVars
    <3> QED
      BY <3>1 DEF AInv
  <2>2. CASE RecvNotify \/ RecvShutdown
    <3>1. scratch' = scratch /\ (pcD' = pcD \/ pcD \in {"parked", "sleeping"})
      BY <2>2, Zenon DEF RecvNotify, RecvShutdown, Notify
    <3> QED
      BY <3>1, Zenon DEF AInv
  <2>3. CASE DrainCheck
    BY <2>3, Zenon DEF DrainCheck, AInv
  <2>4. CASE DrainReturn
    BY <2>4, Zenon DEF DrainReturn
  <2>5. CASE DrainLock \/ DrainWait \/ DrainTimeout \/ DrainLoop \/ DrainSpurious
    BY <2>5, ZenonT(30) DEF DrainLock, DrainWait, DrainTimeout, DrainLoop, DrainSpurious, AInv
  <2> QED
    BY <2>1, <2>2, <2>3, <2>4, <2>5, ZenonT(60)
<1>3. Held' = Held
  BY <1>1, Zenon DEF Held, FilledIn
<1>4. NothingVanishes'
  BY <1>1, <1>2, <1>3, Zenon DEF AInv, NothingVanishes
<1> QED
  BY <1>1, <1>2, <1>4, Zenon DEF AInv

LEMMA AInvNext == TInv /\ AInv /\ [Next]_vars => AInv'
BY InsertAccounted, TurnAccounted, SendAccounted, AppAccounted, OthersAccounted, ZenonT(60)
   DEF Next, Recv, Drain

\* No packet vanishes between the two threads: each one inserted is in the ring,
\* in the delivery thread's hands, in the channel, or has been taken, flushed,
\* overrun, dropped or found a duplicate, and counted as such (insert at
\* receiver.rs:366-412, drain_ready and try_send at receiver.rs:159-210).
THEOREM PacketsAreAccountedFor == Spec => []NothingVanishes
<1>1. TInv /\ TInv' /\ AInv /\ [Next]_vars => AInv'
  BY AInvNext
<1>2. AInv => NothingVanishes
  BY DEF AInv
<1> QED
  BY <1>1, <1>2, TInvAlways, AInvInit, PTL DEF Spec

=============================================================================
