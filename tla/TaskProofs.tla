----------------------------- MODULE TaskProofs -----------------------------
(***************************************************************************)
(* The two tasks, their sockets and the bonding merger.  Whom the receive    *)
(* task listens to: for any set of addresses, any grace period and any       *)
(* number of restarts, the configured source is respected and live media     *)
(* holds its slots.  Which packets the bonding merger lets through: it       *)
(* implements FirstArrival for every window that divides the sequence space  *)
(* and is at most half of it, and for every stream.  What the send task      *)
(* answers, and to whom: for every capacity of the retransmit ring, smaller  *)
(* or larger than the sequence space, the ring gives the recent packets and  *)
(* no others, a live peer keeps its slot, and a feedback datagram is served  *)
(* within its budget.  And for any handles and ports no socket outlives its  *)
(* owner.                                                                    *)
(***************************************************************************)
EXTENDS ReceiverTask, SenderTask, SocketLifecycle, BondingMerger, SeqArithProofs,
        FiniteSetTheorems

-----------------------------------------------------------------------------
(* The slots of the receive task *)

\* What the hold-down of the media slot has left is what the time since the
\* last media leaves of it: the two are renewed and run down together.
GraceRuns == rtpAge \in 0..Grace /\ rtpLeft = Grace - rtpAge /\ rtcpLeft \in 0..Grace

Inv == GraceRuns /\ PinRespected

\* An admitted source is of the pinned host, if one is pinned.
LEMMA AdmittedIsPinned ==
  ASSUME NEW from, NEW current, NEW grace, source_allowed(from, pinned, current, grace)
  PROVE  pinned # None => from.ip = pinned
BY DEF source_allowed

\* An admitted source is of the host that holds a slot still protected.
LEMMA ProtectedHost ==
  ASSUME NEW from, NEW current, NEW grace, source_allowed(from, pinned, current, grace),
         current # None, grace > 0
  PROVE  from.ip = current.ip
BY DEF source_allowed, peer_move_allowed, peer_is_protected

\* The RTCP address derived from an RTP address is of the same host.
LEMMA SameHost ==
  ASSUME NEW a \in Addrs
  PROVE  rtcp_addr_for(a).ip = a.ip
<1>1. a \in [ip : Hosts, port : 0..(Ports - 1)]
  BY ReceiverAssumption
<1> QED
  BY <1>1 DEF rtcp_addr_for

\* At start nothing is held, and no media was ever taken in.
LEMMA InitInv == Init => Inv
BY GuardAssumption DEF Init, Inv, GraceRuns, PinRespected

\* Every arm of the loop, and the passing of time, keep the invariant.
LEMMA NextInv == Inv /\ [Next]_vars => Inv'
<1> SUFFICES ASSUME Inv, [Next]_vars
             PROVE  Inv'
  OBVIOUS
<1> USE GuardAssumption DEF Inv
<1>1. ASSUME NEW a \in Addrs, NEW first \in 0..1, NEW rest \in 0..2, RecvRtp(a, first, rest)
      PROVE  Inv'
  <2>1. GraceRuns'
    BY <1>1 DEF RecvRtp, GraceRuns
  <2>2. pinned' # None => a.ip = pinned'
    BY <1>1, AdmittedIsPinned DEF RecvRtp
  <2>3. PinRespected'
    BY <1>1, <2>2, SameHost DEF RecvRtp, PinRespected
  <2> QED
    BY <2>1, <2>3
<1>2. ASSUME NEW a \in Addrs, NEW kind, RecvRtcp(rtcp_addr_for(a), kind)
      PROVE  Inv'
  <2>1. GraceRuns'
    BY <1>2 DEF RecvRtcp, GraceRuns
  <2>2. pinned' # None => rtcp_addr_for(a).ip = pinned'
    BY <1>2, AdmittedIsPinned DEF RecvRtcp
  <2>3. PinRespected'
    BY <1>2, <2>2 DEF RecvRtcp, PinRespected
  <2> QED
    BY <2>1, <2>3
<1>3. CASE Pump
  BY <1>3 DEF Pump, slotVars, GraceRuns, PinRespected
<1>4. CASE Report
  BY <1>4 DEF Report, slotVars, GraceRuns, PinRespected
<1>5. CASE Tick
  BY <1>5 DEF Tick, Less, GraceRuns, PinRespected
<1>6. ASSUME NEW h \in Hosts, Restart(h)
      PROVE  Inv'
  BY <1>6 DEF Restart, slotVars, GraceRuns, PinRespected
<1>7. ASSUME NEW h \in Survivors, Settle(h)
      PROVE  Inv'
  BY <1>7 DEF Settle, slotVars, GraceRuns, PinRespected
<1>8. CASE UNCHANGED vars
  BY <1>8 DEF vars, slotVars, GraceRuns, PinRespected
<1> QED
  BY <1>1, <1>2, <1>3, <1>4, <1>5, <1>6, <1>7, <1>8 DEF Next

\* The invariant holds throughout.
LEMMA InvAlways == Spec => []Inv
BY InitInv, NextInv, PTL DEF Spec

\* With a configured source, no slot ever holds another host and nothing is
\* sent to one (source_allowed in guard.rs, at both of its uses).
THEOREM PinIsRespected == Spec => []PinRespected
<1>1. Inv => PinRespected
  BY DEF Inv
<1> QED
  BY <1>1, InvAlways, PTL

\* While the last media is younger than the grace period, its host keeps the
\* media slot, and a control slot that is its own.
LEMMA HeldStep ==
  ASSUME Inv, [Next]_vars
  PROVE  /\ rtpAddr # None /\ rtpAddr'.ip # rtpAddr.ip => rtpAge = Grace
         /\ /\ rtpAge < Grace /\ rtpAddr # None /\ rtcpAddr # None /\ rtcpAddr.ip = rtpAddr.ip
            => rtcpAddr'.ip = rtcpAddr.ip
<1> DEFINE Held == /\ rtpAddr # None => rtpAddr'.ip = rtpAddr.ip
                   /\ rtpAddr # None /\ rtcpAddr # None /\ rtcpAddr.ip = rtpAddr.ip
                      => rtcpAddr'.ip = rtcpAddr.ip
<1> SUFFICES ASSUME rtpAge < Grace
             PROVE  Held
  BY GuardAssumption DEF Inv, GraceRuns
<1>0. rtpLeft > 0 /\ rtcp_live > 0
  <2>1. CASE rtcpLeft > rtpLeft
    BY <2>1, GuardAssumption DEF Inv, GraceRuns, rtcp_live
  <2>2. CASE ~(rtcpLeft > rtpLeft)
    BY <2>2, GuardAssumption DEF Inv, GraceRuns, rtcp_live
  <2> QED
    BY <2>1, <2>2
<1>1. ASSUME NEW a \in Addrs, NEW first \in 0..1, NEW rest \in 0..2, RecvRtp(a, first, rest)
      PROVE  Held
  <2>1. rtpAddr # None => a.ip = rtpAddr.ip
    BY <1>0, <1>1, ProtectedHost DEF RecvRtp
  <2> QED
    BY <1>1, <2>1, SameHost DEF RecvRtp
<1>2. ASSUME NEW a \in Addrs, NEW kind, RecvRtcp(rtcp_addr_for(a), kind)
      PROVE  Held
  <2>1. rtcpAddr # None => rtcp_addr_for(a).ip = rtcpAddr.ip
    BY <1>0, <1>2, ProtectedHost DEF RecvRtcp
  <2> QED
    BY <1>2, <2>1 DEF RecvRtcp
<1>3. CASE Pump \/ Report
  BY <1>3 DEF Pump, Report, slotVars
<1>4. CASE Tick
  BY <1>4 DEF Tick
<1>5. CASE (\E h \in Hosts : Restart(h)) \/ (\E h \in Survivors : Settle(h))
  BY <1>5 DEF Restart, Settle, slotVars
<1>6. CASE UNCHANGED vars
  BY <1>6 DEF vars, slotVars
<1> QED
  BY <1>1, <1>2, <1>3, <1>4, <1>5, <1>6 DEF Next

\* Live media holds its slots against every other host (peer_move_allowed, and
\* the control slot's protection by the younger of the two instants).
THEOREM SlotsAreHeld == Spec => SlotsHeld
<1>1. Inv /\ [Next]_vars =>
        [/\ rtpAddr # None /\ rtpAddr'.ip # rtpAddr.ip => rtpAge = Grace
         /\ /\ rtpAge < Grace /\ rtpAddr # None /\ rtcpAddr # None /\ rtcpAddr.ip = rtpAddr.ip
            => rtcpAddr'.ip = rtcpAddr.ip]_vars
  BY HeldStep
<1> QED
  BY <1>1, InvAlways, PTL DEF Spec, SlotsHeld

-----------------------------------------------------------------------------
(* The bonding merger *)

\* The arithmetic of the constants.
LEMMA Constants ==
  /\ Half \in Nat \ {0} /\ M \in Nat \ {0} /\ M = 2 * Half
  /\ Window \in Nat \ {0} /\ Window <= Half
  /\ \E k \in Nat \ {0} : M = k * Window
<1>1. /\ Half \in Nat \ {0} /\ M \in Nat \ {0} /\ M = 2 * Half
      /\ Window \in Nat \ {0} /\ Window <= Half
  BY HalfAssumption, BondingAssumption DEF M
<1>2. PICK k \in Nat : M = Window * k + (M % Window)
  BY <1>1, ModRange, Zenon
<1>3. M = k * Window /\ k # 0
  BY <1>1, <1>2, BondingAssumption
<1> QED
  BY <1>1, <1>3

\* A bit's position does not see the wrap of the sequence space.
LEMMA Position ==
  ASSUME NEW x \in Nat
  PROVE  idx(Wire(x)) = x % Window /\ idx(Wire(x)) \in 0..(Window - 1)
<1>1. PICK k \in Nat \ {0} : M = k * Window
  BY Constants
<1>2. (x % M) % Window = x % Window
  BY <1>1, Constants, ModMod, ZenonT(30)
<1> QED
  BY <1>2, Constants, ModRange DEF idx, Wire

\* Packets less than a window apart have different bits.
LEMMA BitsDiffer ==
  ASSUME NEW d \in Nat, NEW e \in Nat, d < e, e < d + Window
  PROVE  idx(Wire(d)) # idx(Wire(e))
<1>1. PICK k \in 1..(Window - 1) : e = d + k
  BY Constants
<1>2. PICK r \in 0..(Window - 1) : r = d % Window
  BY Constants, ModRange
<1>3. k \in 0..Window
  BY Constants
<1>4. (d + k) % Window = IF r + k < Window THEN r + k ELSE r + k - Window
  BY <1>2, <1>3, Constants, ModAdd, ZenonT(30)
<1>5. (d + k) % Window # r
  BY <1>4, Constants
<1> QED
  BY <1>1, <1>2, <1>5, Position

-----------------------------------------------------------------------------
(* The invariant *)

\* highest_seq is the number of the newest packet, whose bit is set.
BInv ==
  /\ bitmap \in [0..(Window - 1) -> BOOLEAN]
  /\ top \in 0..MaxIndex \cup {-1}
  /\ highest = IF top = -1 THEN -1 ELSE Wire(top)
  /\ top # -1 => bitmap[idx(Wire(top))]

\* The signed difference is the distance from the newest packet.
LEMMA DistanceFromTop ==
  ASSUME BInv, NEW e \in 0..MaxIndex, CanArrive(e), highest # -1
  PROVE  top \in Nat /\ diff(highest, Wire(e)) = e - top
<1>1. top \in Nat /\ highest = Wire(top) /\ e \in Nat /\ top # -1
  BY BondingAssumption DEF BInv
<1>2. top - Half <= e /\ e < top + Half
  BY <1>1, Constants, BondingAssumption DEF CanArrive
<1> QED
  BY <1>1, <1>2, DiffIsDistance

\* Marking a number sets its bit and no other.
LEMMA Mark ==
  ASSUME NEW bits \in [0..(Window - 1) -> BOOLEAN], NEW e \in Nat
  PROVE  /\ mark_seq(bits, Wire(e)) \in [0..(Window - 1) -> BOOLEAN]
         /\ mark_seq(bits, Wire(e))[idx(Wire(e))]
         /\ \A i \in 0..(Window - 1) :
              i # idx(Wire(e)) => mark_seq(bits, Wire(e))[i] = bits[i]
<1>1. idx(Wire(e)) \in 0..(Window - 1)
  BY Position
<1> QED
  BY <1>1 DEF mark_seq

\* Advancing the window by n clears the bits of the n packets that enter it.
LEMMA Advance ==
  ASSUME BInv, top \in Nat, NEW n \in 1..(Half - 1),
         NEW e \in Nat, e = top + n
  PROVE  /\ advance_window(n) \in [0..(Window - 1) -> BOOLEAN]
         /\ \A x \in Nat : x > top /\ x <= e => ~advance_window(n)[idx(Wire(x))]
         /\ \A x \in Nat : x <= top /\ x > e - Window =>
              advance_window(n)[idx(Wire(x))] = bitmap[idx(Wire(x))]
<1> DEFINE a == advance_window(n)
<1>0. highest = Wire(top) /\ top \in Nat /\ bitmap \in [0..(Window - 1) -> BOOLEAN]
  BY DEF BInv
<1>1. CASE n >= Window
  <2>1. a = clear_bitmap
    BY <1>1 DEF advance_window
  <2>2. \A x \in Nat : idx(Wire(x)) \in 0..(Window - 1)
    BY Position
  <2>3. \A x \in Nat : ~(x <= top /\ x > e - Window)
    BY <1>1, <1>0, Constants
  <2> QED
    BY <2>1, <2>2, <2>3, ZenonT(30), Zenon DEF clear_bitmap
<1>2. CASE ~(n >= Window)
  <2>1. a = [i \in 0..(Window - 1) |->
               bitmap[i] /\ \A k \in 1..n : i # idx(wrapping_add(highest, k))]
    BY <1>0, <1>2 DEF advance_window
  <2>2. \A k \in 1..n : wrapping_add(highest, k) = Wire(top + k)
    <3>1. \A k \in 1..n : k \in 0..(M - 1)
      BY Constants
    <3> QED
      BY <3>1, <1>0, WireAdd
  <2>3. a \in [0..(Window - 1) -> BOOLEAN]
    BY <1>0, <2>1
  <2>4. ASSUME NEW x \in Nat, x > top, x <= e
        PROVE  ~a[idx(Wire(x))]
    <3>1. PICK k \in 1..n : x = top + k
      BY <2>4, <1>0, Constants
    <3>2. idx(Wire(x)) = idx(wrapping_add(highest, k))
      BY <3>1, <2>2
    <3> QED
      BY <3>2, <2>1, Position, ZenonT(30), Zenon
  <2>5. ASSUME NEW x \in Nat, x <= top, x > e - Window
        PROVE  a[idx(Wire(x))] = bitmap[idx(Wire(x))]
    <3>1. ASSUME NEW k \in 1..n
          PROVE  idx(Wire(x)) # idx(wrapping_add(highest, k))
      <4>1. top + k \in Nat /\ x < top + k /\ top + k < x + Window
        BY <2>5, <1>0, <1>2, Constants
      <4> QED
        BY <4>1, <2>2, BitsDiffer
    <3>2. a[idx(Wire(x))] = (bitmap[idx(Wire(x))] /\ \A k \in 1..n : idx(Wire(x)) # idx(wrapping_add(highest, k)))
      BY <2>1, Position
    <3>3. bitmap[idx(Wire(x))] \in BOOLEAN
      BY <1>0, Position, ZenonT(30), Zenon
    <3> QED
      BY <3>1, <3>2, <3>3
  <2> QED
    BY <2>3, <2>4, <2>5
<1> QED
  BY <1>1, <1>2

-----------------------------------------------------------------------------
(* The refinement *)

\* Packet e is emitted as promised when its bit gets set and the other packets
\* of the new window keep their verdict.
LEMMA Emits ==
  ASSUME BInv, NEW e \in 0..MaxIndex,
         e \notin Emitted, top = -1 \/ e > top - Window,
         top' = IF e > top THEN e ELSE top,
         bitmap'[idx(Wire(e))],
         \A x \in 0..top' : x > top' - Window /\ x # e => (bitmap'[idx(Wire(x))] <=> x \in Emitted),
         outcome' = [verdict |-> "emit", e |-> e]
  PROVE  Promise!Emit(e)
<1>1. Window \in Nat \ {0} /\ MaxIndex \in Nat /\ e \in Nat
  BY Constants, BondingAssumption
<1>2. top' \in Nat /\ e <= top' /\ top <= top' /\ e > top' - Window
  <2>1. CASE top = -1
    BY <1>1, <2>1
  <2>2. CASE top # -1
    BY <1>1, <2>2 DEF BInv
  <2> QED
    BY <2>1, <2>2
<1>3. Emitted \subseteq 0..top'
  BY <1>1, <1>2 DEF Emitted, BInv
<1>4. Emitted' = {x \in 0..top' : x > top' - Window /\ bitmap'[idx(Wire(x))]}
  BY DEF Emitted, idx, Wire, M
<1>5. ASSUME NEW x \in 0..top', x > top' - Window
      PROVE  bitmap'[idx(Wire(x))] <=> x \in Emitted \cup {e}
  BY <1>5
<1>6. Emitted' = {x \in Emitted \cup {e} : x > top' - Window}
  <2> DEFINE bit(x) == bitmap'[idx(Wire(x))]
             S == Emitted
             T == Emitted'
  <2>1. T = {x \in 0..top' : x > top' - Window /\ bit(x)}
    BY <1>4
  <2>2. \A x \in 0..top' : x > top' - Window => (bit(x) <=> x \in S \cup {e})
    BY <1>5
  <2>3. S \subseteq 0..top' /\ e \in 0..top'
    BY <1>1, <1>2, <1>3
  <2> HIDE DEF bit, S, T
  <2>4. T = {x \in S \cup {e} : x > top' - Window}
    BY <2>1, <2>2, <2>3, ZenonT(30)
  <2> QED
    BY <2>4 DEF S, T
<1> QED
  BY <1>6 DEF Promise!Emit

\* Every verdict is the promised one, and keeps the invariant.
LEMMA Processed ==
  ASSUME BInv, NEW e \in 0..MaxIndex, CanArrive(e), process(e)
  PROVE  BInv' /\ (Promise!Emit(e) \/ Promise!Duplicate(e) \/ Promise!Late(e))
<1> DEFINE s == Wire(e)
           d == diff(highest, s)
<1>0. /\ Window \in Nat \ {0} /\ MaxIndex \in Nat /\ e \in Nat /\ Half \in Nat
      /\ s \in SeqNos /\ s # -1
      /\ bitmap \in [0..(Window - 1) -> BOOLEAN]
  <2>1. MaxIndex \in Nat /\ e \in Nat
    BY BondingAssumption
  <2>2. s \in SeqNos
    BY <2>1, WireType
  <2>3. s # -1
    BY <2>2, Constants DEF SeqNos
  <2> QED
    BY <2>1, <2>2, <2>3, Constants DEF BInv
<1>a. \A x \in Nat : idx(Wire(x)) \in 0..(Window - 1)
  BY Position
<1>1. CASE highest = -1 /\ highest' = s /\ top' = e /\ bitmap' = mark_seq(clear_bitmap, s)
           /\ outcome' = [verdict |-> "emit", e |-> e]
  <2>1. top = -1
    BY <1>1, WireType, Constants DEF BInv, SeqNos
  <2>2. Emitted = {}
    BY <2>1 DEF Emitted
  <2>3. clear_bitmap \in [0..(Window - 1) -> BOOLEAN] /\ \A i \in 0..(Window - 1) : ~clear_bitmap[i]
    BY DEF clear_bitmap
  <2>4. /\ bitmap' \in [0..(Window - 1) -> BOOLEAN]
        /\ bitmap'[idx(Wire(e))]
        /\ \A i \in 0..(Window - 1) : i # idx(Wire(e)) => ~bitmap'[i]
    BY <1>0, <1>1, <2>3, Mark, SMTT(30)
  <2>5. BInv'
    BY <1>0, <1>1, <2>4 DEF BInv, idx, Wire, M
  <2>6. ASSUME NEW x \in 0..top', x > top' - Window, x # e
        PROVE  bitmap'[idx(Wire(x))] <=> x \in Emitted
    <3>1. x \in Nat /\ x < e /\ e < x + Window
      BY <1>0, <1>1, <2>6
    <3> QED
      BY <3>1, <2>2, <2>4, <1>a, BitsDiffer
  <2>7. top' = IF e > top THEN e ELSE top
    BY <1>0, <1>1, <2>1
  <2> QED
    BY <1>1, <2>1, <2>2, <2>4, <2>5, <2>6, <2>7, Emits, ZenonT(60)
<1>2. CASE highest # -1 /\ d > 0 /\ highest' = s /\ top' = e
           /\ bitmap' = mark_seq(advance_window(d), s) /\ outcome' = [verdict |-> "emit", e |-> e]
  <2>1. top \in Nat /\ d = e - top /\ e > top /\ d \in 1..(Half - 1)
    <3>1. top \in Nat /\ d = e - top
      BY <1>2, DistanceFromTop
    <3> QED
      BY <3>1, <1>0, <1>2, BondingAssumption DEF CanArrive
  <2> DEFINE a == advance_window(d)
  <2>2. /\ a \in [0..(Window - 1) -> BOOLEAN]
        /\ \A x \in Nat : x > top /\ x <= e => ~a[idx(Wire(x))]
        /\ \A x \in Nat : x <= top /\ x > e - Window => a[idx(Wire(x))] = bitmap[idx(Wire(x))]
    <3> HIDE DEF d
    <3>1. top + d = e
      BY <2>1, <1>0
    <3> QED
      BY <3>1, <2>1, <1>0, Advance
  <2> HIDE DEF a
  <2>3. /\ bitmap' \in [0..(Window - 1) -> BOOLEAN]
        /\ bitmap'[idx(Wire(e))]
        /\ \A i \in 0..(Window - 1) : i # idx(Wire(e)) => bitmap'[i] = a[i]
    <3>1. bitmap' = mark_seq(a, Wire(e))
      BY <1>2 DEF a
    <3> QED
      BY <3>1, <1>0, <2>2, Mark
  <2>4. BInv'
    BY <1>0, <1>2, <2>3 DEF BInv, idx, Wire, M
  <2>5. ASSUME NEW x \in 0..top', x > top' - Window, x # e
        PROVE  bitmap'[idx(Wire(x))] <=> x \in Emitted
    <3>1. x \in Nat /\ x < e /\ e < x + Window /\ x > e - Window
      BY <1>0, <1>2, <2>5
    <3>2. bitmap'[idx(Wire(x))] = a[idx(Wire(x))]
      <4>1. idx(Wire(x)) # idx(Wire(e)) /\ idx(Wire(x)) \in 0..(Window - 1)
        BY <3>1, <1>0, <1>a, BitsDiffer
      <4> QED
        BY <4>1, <2>3
    <3>3. CASE x > top
      BY <3>1, <3>2, <3>3, <2>1, <2>2, SMTT(30) DEF Emitted
    <3>4. CASE x <= top
      <4>1. x > top - Window /\ x \in 0..top
        BY <3>1, <3>4, <2>1, <1>0
      <4>2. a[idx(Wire(x))] = bitmap[idx(Wire(x))]
        BY <3>1, <3>4, <2>2
      <4> QED
        BY <3>2, <4>1, <4>2 DEF Emitted
    <3> QED
      BY <3>1, <3>3, <3>4, <2>1
  <2>6. e \notin Emitted
    BY <2>1, <1>0 DEF Emitted
  <2>7. top' = (IF e > top THEN e ELSE top) /\ e > top - Window
    BY <1>0, <1>2, <2>1
  <2> QED
    BY <1>2, <2>3, <2>4, <2>5, <2>6, <2>7, Emits, ZenonT(60)
<1>3. CASE highest # -1 /\ d = 0 /\ UNCHANGED <<bitmap, highest, top>>
           /\ outcome' = [verdict |-> "duplicate", e |-> e]
  <2>1. top = e /\ top \in Nat /\ top # -1
    <3>1. top \in Nat /\ d = e - top
      BY <1>3, DistanceFromTop
    <3> QED
      BY <3>1, <1>0, <1>3
  <2>2. e \in Emitted
    BY <1>0, <2>1 DEF Emitted, BInv
  <2>3. BInv' /\ UNCHANGED <<top, Emitted>>
    BY <1>3 DEF BInv, Emitted, idx, Wire, M
  <2> QED
    BY <1>3, <2>2, <2>3 DEF Promise!Duplicate
<1>4. CASE d < 0 /\ LatePacket(s) /\ UNCHANGED <<bitmap, highest, top>>
           /\ outcome' = [verdict |-> "late", e |-> e]
  <2>1. highest # -1 /\ -d >= Window
    BY <1>4 DEF LatePacket
  <2>2. top \in Nat /\ d = e - top
    BY <2>1, DistanceFromTop
  <2>3. e <= top - Window
    BY <1>0, <2>1, <2>2
  <2>4. BInv' /\ UNCHANGED <<top, Emitted>>
    BY <1>4 DEF BInv, Emitted, idx, Wire, M
  <2> QED
    BY <1>4, <2>3, <2>4 DEF Promise!Late
<1>5. CASE highest # -1 /\ d < 0 /\ ~LatePacket(s)
           /\ \/ /\ is_seq_marked(s) /\ UNCHANGED <<bitmap, highest, top>>
                 /\ outcome' = [verdict |-> "duplicate", e |-> e]
              \/ /\ ~is_seq_marked(s)
                 /\ bitmap' = mark_seq(bitmap, s) /\ UNCHANGED <<highest, top>>
                 /\ outcome' = [verdict |-> "emit", e |-> e]
  <2>1. top \in Nat /\ d = e - top
    BY <1>5, DistanceFromTop
  <2>2. e < top /\ e > top - Window /\ top # -1 /\ e \in 0..top
    BY <1>0, <1>5, <2>1 DEF LatePacket
  <2>3. CASE is_seq_marked(s) /\ UNCHANGED <<bitmap, highest, top>>
             /\ outcome' = [verdict |-> "duplicate", e |-> e]
    <3>1. e \in Emitted
      BY <2>2, <2>3 DEF Emitted, is_seq_marked
    <3>2. BInv' /\ UNCHANGED <<top, Emitted>>
      BY <2>3 DEF BInv, Emitted, idx, Wire, M
    <3> QED
      BY <2>3, <3>1, <3>2 DEF Promise!Duplicate
  <2>4. CASE ~is_seq_marked(s) /\ bitmap' = mark_seq(bitmap, s) /\ UNCHANGED <<highest, top>>
             /\ outcome' = [verdict |-> "emit", e |-> e]
    <3>1. e \notin Emitted
      BY <2>4 DEF Emitted, is_seq_marked
    <3>2. /\ bitmap' \in [0..(Window - 1) -> BOOLEAN]
          /\ bitmap'[idx(Wire(e))]
          /\ \A i \in 0..(Window - 1) : i # idx(Wire(e)) => bitmap'[i] = bitmap[i]
      BY <1>0, <2>4, Mark
    <3>3. bitmap'[idx(Wire(top))]
      <4>1. idx(Wire(top)) # idx(Wire(e))
        BY <1>0, <2>1, <2>2, BitsDiffer, SMTT(30)
      <4> QED
        BY <4>1, <3>2, <2>1, <2>2, <1>a DEF BInv
    <3>4. BInv'
      BY <1>0, <2>4, <2>2, <3>2, <3>3, ZenonT(60) DEF BInv, idx, Wire, M
    <3>5. ASSUME NEW x \in 0..top', x > top' - Window, x # e
          PROVE  bitmap'[idx(Wire(x))] <=> x \in Emitted
      <4>1. x \in Nat /\ x \in 0..top /\ x > top - Window
        BY <2>1, <2>4, <3>5
      <4>2. idx(Wire(x)) # idx(Wire(e))
        <5>1. CASE x < e
          BY <5>1, <4>1, <2>2, <2>1, <1>0, BitsDiffer
        <5>2. CASE e < x
          BY <5>2, <4>1, <2>2, <2>1, <1>0, BitsDiffer, SMTT(30)
        <5> QED
          BY <5>1, <5>2, <3>5, <4>1, <1>0
      <4>3. bitmap'[idx(Wire(x))] = bitmap[idx(Wire(x))]
        BY <4>1, <4>2, <3>2, <1>a, SMTT(30), SMTT(30)
      <4> QED
        BY <4>1, <4>3 DEF Emitted
    <3>6. top' = IF e > top THEN e ELSE top
      BY <2>1, <2>2, <2>4, <1>0
    <3> QED
      BY <2>2, <2>4, <3>1, <3>2, <3>4, <3>5, <3>6, Emits, ZenonT(60)
  <2> QED
    BY <1>5, <2>3, <2>4
<1> QED
  BY <1>1, <1>2, <1>3, <1>4, <1>5, ZenonT(60) DEF process

\* The merger implements the promise of a hitless merge: of the copies of a
\* packet that the paths bring, the first is emitted and the others are not
\* (BondingMerger::process), however often the numbers and the bits come round.
THEOREM MergerKeepsPromise == BSpec => FirstArrivalWins
<1>1. BInit => BInv /\ Promise!Init
  <2> SUFFICES ASSUME BInit
               PROVE  BInv /\ Promise!Init
    OBVIOUS
  <2>1. Emitted = {}
    BY DEF BInit, Emitted
  <2> QED
    BY <2>1 DEF BInit, BInv, clear_bitmap, Promise!Init
<1>2. BInv /\ [BNext]_bvars => BInv' /\ [Promise!Next]_(Promise!vars)
  <2> SUFFICES ASSUME BInv, [BNext]_bvars
               PROVE  BInv' /\ [Promise!Next]_(Promise!vars)
    OBVIOUS
  <2>1. ASSUME NEW e \in 0..MaxIndex, CanArrive(e), process(e)
        PROVE  BInv' /\ [Promise!Next]_(Promise!vars)
    BY <2>1, Processed DEF Promise!Next
  <2>2. CASE UNCHANGED bvars
    <3>1. BInv' /\ UNCHANGED <<top, Emitted, outcome>>
      BY <2>2 DEF bvars, BInv, Emitted, idx, Wire, M
    <3> QED
      BY <3>1 DEF Promise!vars
  <2> QED
    BY <2>1, <2>2 DEF BNext
<1> QED
  BY <1>1, <1>2, PTL DEF BSpec, FirstArrivalWins, Promise!Spec

-----------------------------------------------------------------------------
(* The retransmit ring of the send task *)

\* How many packets the ring remembers: its capacity, or a cycle of the
\* sequence space if that is less.
Span == IF RCap <= M THEN RCap ELSE M

\* The arithmetic of the constants.
LEMMA RingConstants ==
  /\ M \in Nat \ {0} /\ RCap \in Nat \ {0} /\ Span \in Nat \ {0}
  /\ Span <= RCap /\ Span <= M
BY HalfAssumption, RingAssumption DEF M, Span

\* A number's slot is in the ring.
LEMMA RidxType ==
  ASSUME NEW s \in SeqNos
  PROVE  ridx(s) \in 0..(RCap - 1)
<1>1. s \in Nat
  BY RingConstants DEF SeqNos
<1> QED
  BY <1>1, RingConstants, ModRange DEF ridx

\* The slot of a packet is its index modulo what the ring remembers: the wrap
\* of the numbers does not show, in a ring smaller than the space or larger.
LEMMA SlotOfPacket ==
  ASSUME NEW e \in Nat
  PROVE  ridx(Wire(e)) = e % Span
<1>1. PICK k \in 1..(M + RCap) : M = k * RCap \/ RCap = k * M
  BY RingAssumption
<1>2. k \in Nat \ {0}
  BY RingConstants
<1>3. CASE M = k * RCap
  <2>1. RCap <= M
    BY <1>2, <1>3, RingConstants
  <2>2. (e % M) % RCap = e % RCap
    BY <1>2, <1>3, RingConstants, ModMod, ZenonT(30), ZenonT(30)
  <2> QED
    BY <2>1, <2>2 DEF ridx, Wire, Span
<1>4. CASE RCap = k * M
  <2>1. M <= RCap
    BY <1>2, <1>4, RingConstants
  <2>2. PICK w \in 0..(M - 1) : w = e % M
    BY RingConstants, ModRange
  <2>3. w \in 0..(RCap - 1) /\ w \in Nat /\ w = RCap * 0 + w
    BY <2>1, RingConstants
  <2>4. w % RCap = w
    BY <2>3, RingConstants, ModUnique
  <2>5. Span = M
    BY <2>1, RingConstants DEF Span
  <2> QED
    BY <2>2, <2>4, <2>5 DEF ridx, Wire
<1> QED
  BY <1>1, <1>3, <1>4

\* Two packets less than a span apart have different slots, ...
LEMMA SlotsDiffer ==
  ASSUME NEW d \in Nat, NEW e \in Nat, d < e, e < d + Span
  PROVE  ridx(Wire(d)) # ridx(Wire(e))
<1>1. PICK k \in 1..(Span - 1) : e = d + k
  BY RingConstants
<1>2. PICK r \in 0..(Span - 1) : r = d % Span
  BY RingConstants, ModRange
<1>3. k \in 0..Span
  BY RingConstants
<1>4. (d + k) % Span = IF r + k < Span THEN r + k ELSE r + k - Span
  BY <1>2, <1>3, RingConstants, ModAdd, Zenon
<1>5. (d + k) % Span # r
  BY <1>4, RingConstants
<1> QED
  BY <1>1, <1>2, <1>5, SlotOfPacket

\* ... and a span apart the same slot.
LEMMA SlotReused ==
  ASSUME NEW d \in Nat
  PROVE  ridx(Wire(d + Span)) = ridx(Wire(d))
<1>1. PICK r \in 0..(Span - 1) : r = d % Span
  BY RingConstants, ModRange
<1>2. Span \in 0..Span
  BY RingConstants
<1>3. (d + Span) % Span = IF r + Span < Span THEN r + Span ELSE r + Span - Span
  BY <1>1, <1>2, RingConstants, ModAdd, ZenonT(30), Zenon
<1>4. (d + Span) % Span = r
  BY <1>1, <1>3, RingConstants
<1> QED
  BY <1>1, <1>4, RingConstants, SlotOfPacket

\* Packet d as the ring stores it.
Stored(d) == [seq |-> Wire(d), data |-> d]

\* The packets of a stream from Start that the ring remembers before packet n.
Remembered(n) == {e \in Start..(n - 1) : e >= n - Span}

\* The ring holds the remembered packets, each in its slot, and nothing else.
RingOK(r, n) ==
  /\ DOMAIN r = 0..(RCap - 1)
  /\ \A e \in Remembered(n) : r[ridx(Wire(e))] = Stored(e)
  /\ \A i \in 0..(RCap - 1) :
       r[i] = EmptyRetx \/ \E d \in Remembered(n) : r[i] = Stored(d) /\ i = ridx(Wire(d))

\* Storing packet n overwrites the one packet that is no longer remembered.
LEMMA InsertRing ==
  ASSUME NEW r, NEW n \in Nat, n >= Start, RingOK(r, n)
  PROVE  RingOK(insertRetx(r, Wire(n), n), n + 1)
<1> DEFINE q == insertRetx(r, Wire(n), n)
<1>1. Start \in Nat
  BY SenderAssumption
<1>2. ridx(Wire(n)) \in 0..(RCap - 1)
  BY WireType, RidxType
<1>3. /\ DOMAIN q = 0..(RCap - 1)
      /\ q[ridx(Wire(n))] = Stored(n)
      /\ \A i \in 0..(RCap - 1) : i # ridx(Wire(n)) => q[i] = r[i]
  BY <1>2 DEF RingOK, insertRetx, Stored
<1>4. n \in Remembered(n + 1)
  BY <1>1, RingConstants DEF Remembered
<1>5. ASSUME NEW e \in Remembered(n + 1)
      PROVE  q[ridx(Wire(e))] = Stored(e)
  <2>1. CASE e = n
    BY <2>1, <1>3
  <2>2. CASE e # n
    <3>1. e \in Nat /\ e < n /\ n < e + Span /\ e \in Remembered(n)
      BY <2>2, <1>1, RingConstants DEF Remembered
    <3>2. ridx(Wire(e)) # ridx(Wire(n)) /\ ridx(Wire(e)) \in 0..(RCap - 1)
      BY <3>1, SlotsDiffer, WireType, RidxType, Zenon
    <3> QED
      BY <3>1, <3>2, <1>3, ZenonT(60) DEF RingOK
  <2> QED
    BY <2>1, <2>2, ZenonT(60)
<1>6. ASSUME NEW i \in 0..(RCap - 1)
      PROVE  q[i] = EmptyRetx \/ \E d \in Remembered(n + 1) : q[i] = Stored(d) /\ i = ridx(Wire(d))
  <2>1. CASE i = ridx(Wire(n))
    BY <2>1, <1>3, <1>4, Zenon
  <2>2. CASE i # ridx(Wire(n)) /\ r[i] # EmptyRetx
    <3>1. PICK d \in Remembered(n) : r[i] = Stored(d) /\ i = ridx(Wire(d))
      BY <2>2 DEF RingOK
    <3>2. d \in Nat /\ d < n /\ d >= n - Span
      BY <1>1, RingConstants DEF Remembered
    <3>3. d + Span # n
      BY <3>1, <3>2, <2>2, SlotReused, ZenonT(60)
    <3>4. d \in Remembered(n + 1)
      BY <3>2, <3>3, <1>1, RingConstants, SMTT(30) DEF Remembered
    <3> QED
      BY <3>1, <3>4, <2>2, <1>3, ZenonT(60)
  <2>3. CASE i # ridx(Wire(n)) /\ r[i] = EmptyRetx
    BY <2>3, <1>3, ZenonT(60)
  <2> QED
    BY <2>1, <2>2, <2>3, Zenon
<1> HIDE DEF q
<1>7. RingOK(q, n + 1)
  BY <1>3, <1>5, <1>6 DEF RingOK
<1> QED
  BY <1>7 DEF q

-----------------------------------------------------------------------------
(* The send task *)

\* The next number stands for the next packet, the ring holds the remembered
\* packets, and the hold-down runs with the time since the peer's last datagram.
SInv ==
  /\ next \in Nat /\ next >= Start /\ seq = Wire(next)
  /\ RingOK(ring, next)
  /\ age \in 0..Grace /\ left = Grace - age

\* The packets that SenderTask calls recent are the remembered ones.
LEMMA RecentIsRemembered ==
  ASSUME next \in Nat
  PROVE  Recent = Remembered(next)
<1>1. Start \in Nat
  BY SenderAssumption
<1>2. ASSUME NEW e \in Start..(next - 1)
      PROVE  e >= next - RCap /\ e >= next - M <=> e >= next - Span
  BY <1>1, RingConstants DEF Span
<1> QED
  BY <1>2 DEF Recent, Remembered

\* At start the ring is empty and no packet was sent.
LEMMA SInvInit == SInit => SInv
<1> SUFFICES ASSUME SInit
             PROVE  SInv
  OBVIOUS
<1>1. next = Start /\ seq = Wire(next) /\ next \in Nat
  BY SenderAssumption DEF SInit
<1>2. Remembered(next) = {}
  BY <1>1 DEF Remembered
<1>3. DOMAIN ring = 0..(RCap - 1) /\ \A i \in 0..(RCap - 1) : ring[i] = EmptyRetx
  BY DEF SInit, NewRetx
<1>4. RingOK(ring, next)
  BY <1>2, <1>3 DEF RingOK
<1> QED
  BY <1>1, <1>4, GuardAssumption DEF SInit, SInv

\* Every arm of the loop, the application and the passing of time keep it.
LEMMA SInvNext == SInv /\ [SNext]_svars => SInv'
<1> SUFFICES ASSUME SInv, [SNext]_svars
             PROVE  SInv'
  OBVIOUS
<1> USE GuardAssumption
<1>1. CASE AppSend \/ AppDrop \/ Close
  BY <1>1 DEF AppSend, AppDrop, Close, mediaVars, peerVars, SInv
<1>2. CASE Media
  <2>1. next' = next + 1 /\ next' \in Nat /\ next' >= Start
    BY <1>2, SenderAssumption, SMTT(30) DEF Media, SInv
  <2>2. RingOK(ring', next')
    BY <1>2, <2>1, InsertRing, ZenonT(60) DEF Media, SInv
  <2>3. seq' = Wire(next')
    <3>1. 1 \in 0..(M - 1)
      BY HalfAssumption DEF M
    <3> QED
      BY <1>2, <2>1, <3>1, WireAdd DEF Media, SInv
  <2> QED
    BY <1>2, <2>1, <2>2, <2>3, ZenonT(60) DEF Media, peerVars, SInv
<1>3. CASE STick
  BY <1>3 DEF STick, mediaVars, SInv
<1>4. ASSUME NEW why, Exit(why)
      PROVE  SInv'
  BY <1>4, ZenonT(60) DEF Exit, mediaVars, peerVars, SInv
<1>5. ASSUME NEW a \in Addrs, NEW dg \in Datagrams, RecvFeedback(a, dg)
      PROVE  SInv'
  BY <1>5 DEF RecvFeedback, mediaVars, SInv
<1>6. ASSUME NEW h \in Survivors, SSettle(h)
      PROVE  SInv'
  BY <1>6 DEF SSettle, mediaVars, peerVars, SInv
<1>7. CASE UNCHANGED svars
  BY <1>7, ZenonT(60) DEF svars, mediaVars, peerVars, SInv
<1> QED
  BY <1>1, <1>2, <1>3, <1>4, <1>5, <1>6, <1>7, ZenonT(60) DEF SNext

\* The invariant holds throughout.
LEMMA SInvAlways == SSpec => []SInv
BY SInvInit, SInvNext, PTL DEF SSpec

\* A slot of the ring answers with a remembered packet or not at all.
LEMMA RingAnswers == SInv => RingIsRecent
<1> SUFFICES ASSUME SInv, NEW s \in SeqNos
             PROVE  IF holds(ring, s) THEN packet(ring, s) \in Recent /\ Wire(packet(ring, s)) = s
                                      ELSE s \notin {Wire(e) : e \in Recent}
  BY DEF RingIsRecent
<1>1. Recent = Remembered(next) /\ RingOK(ring, next)
  BY RecentIsRemembered DEF SInv
<1>2. CASE holds(ring, s)
  <2>1. ridx(s) \in 0..(RCap - 1) /\ ring[ridx(s)].seq = s /\ s # -1
    BY <1>2, RidxType, RingConstants, SMTT(30) DEF holds, SeqNos
  <2>2. PICK d \in Remembered(next) : ring[ridx(s)] = Stored(d)
    BY <1>1, <2>1 DEF RingOK, EmptyRetx
  <2>3. packet(ring, s) = d /\ Wire(d) = s
    <3>1. ring[ridx(s)].seq = Wire(d) /\ ring[ridx(s)].data = d
      BY <2>2, SMTT(30) DEF Stored
    <3> QED
      BY <2>1, <3>1, ZenonT(30) DEF packet
  <2> QED
    BY <1>1, <1>2, <2>3, ZenonT(60)
<1>3. CASE ~holds(ring, s)
  <2>1. ASSUME NEW e \in Remembered(next), s = Wire(e)
        PROVE  FALSE
    <3>1. ring[ridx(s)] = Stored(e)
      BY <1>1, <2>1 DEF RingOK
    <3>2. Stored(e).seq = s
      BY <2>1, Zenon DEF Stored
    <3> QED
      BY <1>3, <3>1, <3>2, ZenonT(60) DEF holds
  <2> QED
    BY <1>1, <1>3, <2>1
<1> QED
  BY <1>2, <1>3

\* A request for a number is answered with the packet of that number among the
\* recent ones, and with nothing else (RetransmitBuffer::insert and get).
THEOREM RingIsExact == SSpec => []RingIsRecent
BY RingAnswers, SInvAlways, PTL

-----------------------------------------------------------------------------
(* What the send task answers a datagram with *)

\* An item of a datagram, and what serving has come to.
Item == SeqNos \cup {EchoItem}
Work == [scan : Nat, retx : Nat, served : Seq(Nat), echoes : Nat, spent : BOOLEAN]

\* The items of a compound are sequence numbers and echo requests.
LEMMA ItemsType ==
  ASSUME NEW dg \in Seq(SubPackets)
  PROVE  Items(dg) \in Seq(Item)
<1> DEFINE N == Len(dg)
           of(k) ==
             CASE dg[k].type = "nack" /\ nack_targets_us(dg[k].ssrc, OurSsrc) -> dg[k].seqs
               [] dg[k].type = "echo_request" -> <<EchoItem>>
               [] OTHER -> <<>>
           Is(f) == f = [k \in 0..N |-> IF k = 0 THEN <<>> ELSE f[k - 1] \o of(k)]
           upTo == CHOOSE f : Is(f)
           V == Seq(Item)
           F == [k \in 1..N |-> [v \in V |-> v \o of(k)]]
<1>1. Items(dg) = upTo[N]
  BY DEF Items
<1>2. ASSUME NEW k \in 1..N
      PROVE  of(k) \in V
  <2>1. dg[k] \in SubPackets
    BY <1>2
  <2>2. CASE dg[k].type = "nack"
    <3>1. dg[k].seqs \in Seq(SeqNos)
      BY <2>1, <2>2 DEF SubPackets
    <3>2. dg[k].seqs \in Seq(Item) /\ <<>> \in Seq(Item)
      BY <3>1 DEF Item
    <3> QED
      BY <2>2, <3>2, ZenonT(60)
  <2>3. CASE dg[k].type # "nack"
    <3>1. <<EchoItem>> \in Seq(Item) /\ <<>> \in Seq(Item)
      BY DEF Item
    <3> QED
      BY <2>3, <3>1
  <2> QED
    BY <2>2, <2>3
<1>3. N \in Nat
  OBVIOUS
<1> HIDE DEF of, N
<1>4. <<>> \in V /\ \A v \in V, k \in 1..N : v \o of(k) \in V
  BY <1>2
<1> HIDE DEF V
<1>5. F \in [1..N -> [V -> V]]
  BY <1>4
<1> HIDE DEF F
<1>6. PICK f : LoopRuns(f, N, V, <<>>, F)
  BY <1>3, <1>4, <1>5, LoopExists, ZenonT(30), Zenon
<1>7. Is(f)
  <2>1. ASSUME NEW k \in 0..N
        PROVE  f[k] = IF k = 0 THEN <<>> ELSE f[k - 1] \o of(k)
    <3>1. CASE k # 0
      <4>1. k \in 1..N /\ k - 1 \in 0..N
        BY <1>3, <3>1
      <4> QED
        BY <1>4, <1>6, <3>1, <4>1, ZenonT(30), Zenon DEF F, LoopRuns
    <3> QED
      BY <1>6, <3>1 DEF LoopRuns
  <2>2. f \in [0..N -> V]
    BY <1>6 DEF LoopRuns
  <2> QED
    BY <2>1, <2>2, ZenonT(60)
<1> HIDE DEF Is
<1>8. Is(upTo)
  BY <1>7
<1> HIDE DEF upTo
<1>9. 0..N \subseteq {k \in 0..N : upTo[k] \in V}
  <2> DEFINE S == {k \in 0..N : upTo[k] \in V}
  <2>1. 0 \in S
    BY <1>3, <1>4, <1>8 DEF Is
  <2>2. ASSUME NEW k \in 0..(N - 1), k \in S
        PROVE  k + 1 \in S
    <3>1. k + 1 \in 1..N /\ k + 1 \in 0..N /\ k + 1 # 0 /\ (k + 1) - 1 = k
      BY <1>3
    <3>2. upTo[k + 1] = upTo[k] \o of(k + 1)
      BY <1>8, <3>1, ZenonT(30), Zenon DEF Is
    <3> QED
      BY <1>4, <2>2, <3>1, <3>2, ZenonT(30), Zenon
  <2> HIDE DEF S
  <2>3. 0..N \subseteq S
    BY <1>3, <2>1, <2>2, UpTo
  <2> QED
    BY <2>3 DEF S
<1>10. N \in 0..N
  BY <1>3
<1> QED
  BY <1>1, <1>9, <1>10, ZenonT(60) DEF V

\* One turn, case by case.
LEMMA ServeItemIs ==
  ASSUME NEW w \in Work, NEW s \in Item
  PROVE  /\ w.spent => ServeItem(w, s) = w
         /\ ~w.spent /\ s = EchoItem => ServeItem(w, s) = [w EXCEPT !.echoes = @ + 1]
         /\ ~w.spent /\ s # EchoItem /\ w.scan = 0 => ServeItem(w, s) = [w EXCEPT !.spent = TRUE]
         /\ ~w.spent /\ s # EchoItem /\ w.scan > 0 /\ ~holds(ring, s) =>
              ServeItem(w, s) = [w EXCEPT !.scan = @ - 1]
         /\ ~w.spent /\ s # EchoItem /\ w.scan > 0 /\ holds(ring, s) /\ w.retx = 0 =>
              ServeItem(w, s) = [w EXCEPT !.scan = @ - 1, !.spent = TRUE]
         /\ ~w.spent /\ s # EchoItem /\ w.scan > 0 /\ holds(ring, s) /\ w.retx # 0 =>
              ServeItem(w, s) = [w EXCEPT !.scan = @ - 1, !.retx = @ - 1,
                                          !.served = Append(@, packet(ring, s))]
<1>1. w.scan \in Nat /\ w.spent \in BOOLEAN
  BY DEF Work
<1>2. ~(w.scan > 0) <=> w.scan = 0
  BY <1>1
<1> QED
  BY <1>1, <1>2 DEF ServeItem

\* The budget, and where serving starts.
Unserved ==
  [scan |-> for_capacity(RCap).scan, retx |-> for_capacity(RCap).retx,
   served |-> <<>>, echoes |-> 0, spent |-> FALSE]

LEMMA UnservedType == Unserved \in Work
<1>1. clamp(RCap) \in Nat
  BY GuardAssumption, RingConstants DEF clamp
<1>2. 4 * clamp(RCap) \in Nat
  BY <1>1
<1>3. for_capacity(RCap).scan \in Nat /\ for_capacity(RCap).retx \in Nat
  <2> HIDE DEF clamp
  <2> QED
    BY <1>1, <1>2, SMTT(30) DEF for_capacity
<1>4. <<>> \in Seq(Nat)
  OBVIOUS
<1>5. 0 \in Nat /\ FALSE \in BOOLEAN
  OBVIOUS
<1> HIDE DEF for_capacity
<1> QED
  BY <1>3, <1>4, <1>5, ZenonT(30), Zenon DEF Unserved, Work

\* A turn goes from work to work: what it sends again is a packet of the stream.
LEMMA ServeItemType ==
  ASSUME SInv, NEW w \in Work, NEW s \in Item
  PROVE  ServeItem(w, s) \in Work
<1>1. /\ w.scan \in Nat /\ w.retx \in Nat /\ w.echoes \in Nat
      /\ w.served \in Seq(Nat) /\ w.spent \in BOOLEAN
  BY DEF Work
<1>2. CASE w.spent
  BY <1>2, ServeItemIs, Zenon
<1>3. CASE ~w.spent /\ s = EchoItem
  <2>1. ServeItem(w, s) = [w EXCEPT !.echoes = @ + 1]
    BY <1>3, ServeItemIs, Zenon
  <2> QED
    BY <1>1, <2>1 DEF Work
<1>4. CASE ~w.spent /\ s # EchoItem /\ w.scan = 0
  <2>1. ServeItem(w, s) = [w EXCEPT !.spent = TRUE]
    BY <1>4, ServeItemIs, Zenon
  <2> QED
    BY <1>1, <2>1, ZenonT(30), Zenon DEF Work
<1>5. CASE ~w.spent /\ s # EchoItem /\ w.scan # 0
  <2>1. w.scan > 0 /\ w.scan - 1 \in Nat
    BY <1>1, <1>5
  <2>2. CASE ~holds(ring, s)
    <3>1. ServeItem(w, s) = [w EXCEPT !.scan = @ - 1]
      BY <1>5, <2>1, <2>2, ServeItemIs, Zenon
    <3> QED
      BY <1>1, <2>1, <3>1 DEF Work
  <2>3. CASE holds(ring, s) /\ w.retx = 0
    <3>1. ServeItem(w, s) = [w EXCEPT !.scan = @ - 1, !.spent = TRUE]
      BY <1>5, <2>1, <2>3, ServeItemIs, Zenon
    <3> QED
      BY <1>1, <2>1, <3>1, Zenon DEF Work
  <2>4. CASE holds(ring, s) /\ w.retx # 0
    <3>1. ServeItem(w, s) = [w EXCEPT !.scan = @ - 1, !.retx = @ - 1,
                                      !.served = Append(@, packet(ring, s))]
      BY <1>5, <2>1, <2>4, ServeItemIs, ZenonT(30)
    <3>2. s \in SeqNos
      BY <1>5 DEF Item
    <3>3. packet(ring, s) \in Recent
      BY <2>4, <3>2, RingAnswers, ZenonT(60) DEF RingIsRecent
    <3>4. packet(ring, s) \in Nat
      BY <3>3, SenderAssumption DEF Recent, SInv
    <3>5. w.retx - 1 \in Nat /\ Append(w.served, packet(ring, s)) \in Seq(Nat)
      BY <1>1, <2>4, <3>4, SMTT(30)
    <3> QED
      BY <1>1, <2>1, <3>1, <3>5, Zenon DEF Work
  <2> QED
    BY <2>2, <2>3, <2>4
<1> QED
  BY <1>1, <1>2, <1>3, <1>4, <1>5, ZenonT(60)

\* What serving the first k items of a datagram has come to.
Serving(f, items) ==
  /\ f \in [0..Len(items) -> Work]
  /\ f[0] = Unserved
  /\ \A k \in 1..Len(items) : f[k] = ServeItem(f[k - 1], items[k])

LEMMA ServeIs ==
  ASSUME SInv, NEW dg \in Datagrams
  PROVE  /\ Items(dg) \in Seq(Item)
         /\ \E f : Serving(f, Items(dg)) /\ Serve(dg) = f[Len(Items(dg))]
<1>1. Items(dg) \in Seq(Item)
  BY SenderAssumption, ItemsType, ZenonT(60)
<1> DEFINE items == Items(dg)
           N == Len(items)
           Is(f) == f = [k \in 0..N |-> IF k = 0 THEN Unserved ELSE ServeItem(f[k - 1], items[k])]
           after == CHOOSE f : Is(f)
           F == [k \in 1..N |-> [w \in Work |-> ServeItem(w, items[k])]]
<1>2. Serve(dg) = after[N]
  BY DEF Serve, Unserved
<1>3. N \in Nat /\ \A k \in 1..N : items[k] \in Item
  BY <1>1
<1> HIDE DEF items, N
<1>4. \A w \in Work, k \in 1..N : ServeItem(w, items[k]) \in Work
  BY <1>3, ServeItemType
<1>5. F \in [1..N -> [Work -> Work]]
  BY <1>4
<1> HIDE DEF F
<1>6. PICK f : LoopRuns(f, N, Work, Unserved, F)
  BY <1>3, <1>5, UnservedType, LoopExists, Zenon
<1>7. f \in [0..N -> Work] /\ f[0] = Unserved /\ \A k \in 1..N : f[k] = F[k][f[k - 1]]
  BY <1>6, Zenon DEF LoopRuns
<1>8. Is(f)
  <2>1. ASSUME NEW k \in 0..N
        PROVE  f[k] = IF k = 0 THEN Unserved ELSE ServeItem(f[k - 1], items[k])
    <3>1. CASE k # 0
      <4>1. k \in 1..N /\ k - 1 \in 0..N
        BY <1>3, <3>1, SMTT(30)
      <4>2. f[k - 1] \in Work
        BY <1>7, <4>1
      <4> QED
        BY <1>7, <3>1, <4>1, <4>2, ZenonT(30) DEF F
    <3> QED
      BY <1>7, <3>1
  <2> QED
    BY <1>7, <2>1, ZenonT(60)
<1> HIDE DEF Is
<1>9. Is(after)
  BY <1>8
<1> HIDE DEF after
<1>10. after[0] = Unserved
  BY <1>3, <1>9 DEF Is
<1>11. ASSUME NEW k \in 1..N
       PROVE  after[k] = ServeItem(after[k - 1], items[k])
  <2>1. k \in 0..N /\ k # 0
    BY <1>3
  <2> QED
    BY <1>9, <2>1, ZenonT(30), Zenon DEF Is
<1>12. 0..N \subseteq {k \in 0..N : after[k] \in Work}
  <2> DEFINE S == {k \in 0..N : after[k] \in Work}
  <2>1. 0 \in S
    BY <1>3, <1>10, UnservedType, SMTT(30)
  <2>2. ASSUME NEW k \in 0..(N - 1), k \in S
        PROVE  k + 1 \in S
    <3>1. k + 1 \in 1..N /\ k + 1 \in 0..N /\ (k + 1) - 1 = k
      BY <1>3
    <3>2. after[k + 1] = ServeItem(after[k], items[k + 1])
      BY <1>11, <3>1
    <3> QED
      BY <1>4, <2>2, <3>1, <3>2
  <2> HIDE DEF S
  <2>3. 0..N \subseteq S
    BY <1>3, <2>1, <2>2, UpTo
  <2> QED
    BY <2>3 DEF S
<1>13. after = [k \in 0..N |-> after[k]]
  BY <1>9 DEF Is
<1>14. after \in [0..N -> Work]
  BY <1>12, <1>13, ZenonT(60)
<1> QED
  BY <1>1, <1>2, <1>10, <1>11, <1>14, ZenonT(60) DEF Serving, N, items

\* A turn takes from the budget what it puts on the wire.
LEMMA ServePays ==
  ASSUME SInv, NEW w \in Work, NEW s \in Item
  PROVE  Len(ServeItem(w, s).served) + ServeItem(w, s).retx = Len(w.served) + w.retx
<1>1. w.scan \in Nat /\ w.retx \in Nat /\ w.served \in Seq(Nat) /\ w.spent \in BOOLEAN
  BY ZenonT(60) DEF Work
<1>2. CASE w.spent \/ s = EchoItem \/ w.scan = 0 \/ ~holds(ring, s) \/ w.retx = 0
  <2>1. w.scan = 0 \/ w.scan > 0
    BY <1>1
  <2>2. \/ ServeItem(w, s) = w
        \/ ServeItem(w, s) = [w EXCEPT !.echoes = @ + 1]
        \/ ServeItem(w, s) = [w EXCEPT !.spent = TRUE]
        \/ ServeItem(w, s) = [w EXCEPT !.scan = @ - 1]
        \/ ServeItem(w, s) = [w EXCEPT !.scan = @ - 1, !.spent = TRUE]
    BY <1>1, <1>2, <2>1, ServeItemIs, Zenon
  <2>3. ServeItem(w, s).served = w.served /\ ServeItem(w, s).retx = w.retx
    BY <2>2, ZenonT(30), Zenon DEF Work
  <2> QED
    BY <2>3
<1>3. CASE ~(w.spent \/ s = EchoItem \/ w.scan = 0 \/ ~holds(ring, s) \/ w.retx = 0)
  <2>1. w.scan > 0
    BY <1>1, <1>3
  <2>2. ServeItem(w, s) = [w EXCEPT !.scan = @ - 1, !.retx = @ - 1,
                                    !.served = Append(@, packet(ring, s))]
    BY <1>3, <2>1, ServeItemIs, Zenon
  <2>3. /\ ServeItem(w, s).served = Append(w.served, packet(ring, s))
        /\ ServeItem(w, s).retx = w.retx - 1
    BY <2>2 DEF Work
  <2>4. Len(Append(w.served, packet(ring, s))) = Len(w.served) + 1 /\ Len(w.served) \in Nat
    BY <1>1
  <2> QED
    BY <1>1, <2>3, <2>4
<1> QED
  BY <1>2, <1>3

\* No datagram draws more than the retransmit budget.
LEMMA ServeCapped ==
  ASSUME SInv, NEW items \in Seq(Item), NEW f, Serving(f, items)
  PROVE  Len(f[Len(items)].served) <= Unserved.retx
<1> DEFINE N == Len(items)
           R == Unserved.retx
           S == {k \in 0..N : Len(f[k].served) + f[k].retx = R}
<1>1. /\ N \in Nat /\ R \in Nat
      /\ f \in [0..N -> Work] /\ f[0] = Unserved
      /\ \A k \in 1..N : f[k] = ServeItem(f[k - 1], items[k])
      /\ \A k \in 1..N : items[k] \in Item
  BY UnservedType, SMTT(30) DEF Serving, Work
<1>2. 0 \in S
  <2>1. Unserved.served = <<>>
    BY Zenon DEF Unserved
  <2> QED
    BY <1>1, <2>1, SMTT(30)
<1> HIDE DEF N, R
<1>3. ASSUME NEW k \in 0..(N - 1), k \in S
      PROVE  k + 1 \in S
  <2>1. k \in 0..N /\ k + 1 \in 1..N /\ k + 1 \in 0..N /\ (k + 1) - 1 = k
    BY <1>1, SMTT(30)
  <2>2. f[k + 1] = ServeItem(f[k], items[k + 1]) /\ f[k] \in Work /\ items[k + 1] \in Item
    BY <1>1, <2>1
  <2>3. Len(f[k + 1].served) + f[k + 1].retx = Len(f[k].served) + f[k].retx
    BY <2>2, ServePays, Zenon
  <2> QED
    BY <1>3, <2>1, <2>3, ZenonT(60)
<1> HIDE DEF S
<1>4. N \in S
  <2>1. 0..N \subseteq S
    BY <1>1, <1>2, <1>3, UpTo, ZenonT(60)
  <2>2. N \in 0..N
    BY <1>1
  <2> QED
    BY <2>1, <2>2
<1>5. Len(f[N].served) + f[N].retx = R /\ f[N] \in Work
  BY <1>1, <1>4, ZenonT(60) DEF S
<1>6. Len(f[N].served) \in Nat /\ f[N].retx \in Nat
  BY <1>5 DEF Work
<1>7. Len(f[N].served) <= R
  BY <1>1, <1>5, <1>6
<1> QED
  BY <1>7, ZenonT(60) DEF N, R

\* The requests, and the requests for held packets, among the first k items.
Asks(items, k) == {j \in 1..k : items[j] # EchoItem}
Finds(items, k) == {j \in Asks(items, k) : holds(ring, items[j])}

\* Serving k items without running out: everything is charged and answered.
Exact(w, items, k) ==
  /\ ~w.spent
  /\ w.scan = Unserved.scan - Cardinality(Asks(items, k))
  /\ w.retx = Unserved.retx - Cardinality(Finds(items, k))
  /\ w.echoes = k - Cardinality(Asks(items, k))
  /\ Range(w.served) = {packet(ring, items[j]) : j \in Finds(items, k)}

\* How the counts grow with one more item.
LEMMA AsksGrow ==
  ASSUME NEW items, NEW N \in Nat, NEW k \in 0..(N - 1)
  PROVE  /\ Cardinality(Asks(items, k)) \in Nat /\ Cardinality(Finds(items, k)) \in Nat
         /\ Asks(items, k + 1) = Asks(items, k) \cup
              (IF items[k + 1] # EchoItem THEN {k + 1} ELSE {})
         /\ Finds(items, k + 1) = Finds(items, k) \cup
              (IF items[k + 1] # EchoItem /\ holds(ring, items[k + 1]) THEN {k + 1} ELSE {})
         /\ Cardinality(Asks(items, k + 1)) = Cardinality(Asks(items, k)) +
              (IF items[k + 1] # EchoItem THEN 1 ELSE 0)
         /\ Cardinality(Finds(items, k + 1)) = Cardinality(Finds(items, k)) +
              (IF items[k + 1] # EchoItem /\ holds(ring, items[k + 1]) THEN 1 ELSE 0)
         /\ Cardinality(Asks(items, k + 1)) <= Cardinality(Asks(items, N))
         /\ Cardinality(Finds(items, k + 1)) <= Cardinality(Finds(items, N))
         /\ Cardinality(Asks(items, N)) \in Nat /\ Cardinality(Finds(items, N)) \in Nat
<1> DEFINE a == items[k + 1] # EchoItem
           h == items[k + 1] # EchoItem /\ holds(ring, items[k + 1])
<1>1. k + 1 \in 1..N /\ k \in Nat /\ k + 1 \in Nat
  OBVIOUS
<1>2. \A m \in Nat : IsFiniteSet(Asks(items, m)) /\ IsFiniteSet(Finds(items, m))
  <2>1. ASSUME NEW m \in Nat
        PROVE  IsFiniteSet(Asks(items, m)) /\ IsFiniteSet(Finds(items, m))
    <3>1. IsFiniteSet(1..m) /\ Asks(items, m) \subseteq 1..m /\ Finds(items, m) \subseteq 1..m
      BY FS_Interval DEF Asks, Finds
    <3> QED
      BY <3>1, FS_Subset
  <2> QED
    BY <2>1
<1>3. Cardinality(Asks(items, k)) \in Nat /\ Cardinality(Finds(items, k)) \in Nat
  BY <1>1, <1>2, FS_CardinalityType
<1>4. \A j : j \in 1..(k + 1) <=> j \in 1..k \/ j = k + 1
  BY <1>1
<1>5. /\ Asks(items, k + 1) = Asks(items, k) \cup (IF a THEN {k + 1} ELSE {})
      /\ Finds(items, k + 1) = Finds(items, k) \cup (IF h THEN {k + 1} ELSE {})
  BY <1>4 DEF Asks, Finds
<1>6. k + 1 \notin 1..k
  BY <1>1
<1>7. k + 1 \notin Asks(items, k) /\ k + 1 \notin Finds(items, k)
  BY <1>6, Zenon DEF Asks, Finds
<1>8. Cardinality(Asks(items, k + 1)) = Cardinality(Asks(items, k)) + (IF a THEN 1 ELSE 0)
  <2>1. CASE a
    <3>1. Asks(items, k + 1) = Asks(items, k) \cup {k + 1}
      BY <1>5, <2>1
    <3>2. Cardinality(Asks(items, k) \cup {k + 1}) = Cardinality(Asks(items, k)) + 1
      BY <1>1, <1>2, <1>7, FS_AddElement, ZenonT(30), ZenonT(30)
    <3> QED
      BY <2>1, <3>1, <3>2, ZenonT(60)
  <2>2. CASE ~a
    <3>1. Asks(items, k + 1) = Asks(items, k)
      BY <1>5, <2>2, Zenon
    <3> QED
      BY <1>3, <2>2, <3>1, SMTT(30)
  <2> QED
    BY <2>1, <2>2, Zenon
<1>9. Cardinality(Finds(items, k + 1)) = Cardinality(Finds(items, k)) + (IF h THEN 1 ELSE 0)
  <2>1. CASE h
    <3>1. Finds(items, k + 1) = Finds(items, k) \cup {k + 1}
      BY <1>5, <2>1
    <3>2. Cardinality(Finds(items, k) \cup {k + 1}) = Cardinality(Finds(items, k)) + 1
      BY <1>1, <1>2, <1>7, FS_AddElement, ZenonT(30), ZenonT(30)
    <3> QED
      BY <2>1, <3>1, <3>2, ZenonT(60)
  <2>2. CASE ~h
    <3>1. Finds(items, k + 1) = Finds(items, k)
      BY <1>5, <2>2
    <3> QED
      BY <1>3, <2>2, <3>1, SMTT(30)
  <2> QED
    BY <2>1, <2>2, Zenon
<1>10. Asks(items, k + 1) \subseteq Asks(items, N) /\ Finds(items, k + 1) \subseteq Finds(items, N)
  <2>1. 1..(k + 1) \subseteq 1..N
    BY <1>1, SMTT(30)
  <2> QED
    BY <2>1 DEF Asks, Finds
<1>11. /\ Cardinality(Asks(items, k + 1)) <= Cardinality(Asks(items, N))
       /\ Cardinality(Finds(items, k + 1)) <= Cardinality(Finds(items, N))
  BY <1>2, <1>10, FS_Subset, ZenonT(60)
<1>12. Cardinality(Asks(items, N)) \in Nat /\ Cardinality(Finds(items, N)) \in Nat
  BY <1>2, FS_CardinalityType
<1> QED
  BY <1>3, <1>5, <1>8, <1>9, <1>11, <1>12, ZenonT(30)

\* What a sequence with one more element ranges over.
LEMMA RangeAppend ==
  ASSUME NEW q \in Seq(Nat), NEW e \in Nat
  PROVE  Range(Append(q, e)) = Range(q) \cup {e}
<1> DEFINE z == Append(q, e)
<1>1. /\ Len(q) \in Nat /\ DOMAIN q = 1..Len(q) /\ DOMAIN z = 1..(Len(q) + 1)
      /\ z[Len(q) + 1] = e /\ \A k \in 1..Len(q) : z[k] = q[k]
  OBVIOUS
<1>2. \A k : k \in 1..(Len(q) + 1) <=> k \in 1..Len(q) \/ k = Len(q) + 1
  BY <1>1, SMTT(30)
<1> HIDE DEF z
<1>3. Range(z) = Range(q) \cup {e}
  BY <1>1, <1>2 DEF Range
<1> QED
  BY <1>3 DEF z

\* Arithmetic of a budget u of which a is spent: one more may be spent, and
\* what is left is one less.
LEMMA Within ==
  ASSUME NEW a \in Nat, NEW n \in Nat, NEW u \in Nat, a + 1 <= n, n <= u
  PROVE  u - a > 0 /\ u - a # 0
OBVIOUS

LEMMA Spending ==
  ASSUME NEW a \in Nat, NEW u \in Nat
  PROVE  /\ (u - a) - 1 = u - (a + 1)
         /\ (u - a) + 1 = (u + 1) - a
         /\ u - a = (u + 1) - (a + 1)
OBVIOUS

\* As long as the budgets last, a turn keeps the account exact.
LEMMA ExactTurn ==
  ASSUME SInv, NEW items \in Seq(Item), NEW k \in 0..(Len(items) - 1), NEW w \in Work,
         Exact(w, items, k),
         Cardinality(Asks(items, Len(items))) <= Unserved.scan,
         Cardinality(Finds(items, Len(items))) <= Unserved.retx
  PROVE  Exact(ServeItem(w, items[k + 1]), items, k + 1)
<1> DEFINE N == Len(items)
           s == items[k + 1]
           v == ServeItem(w, s)
           A(m) == Asks(items, m)
           D(m) == Finds(items, m)
<1>1. N \in Nat /\ s \in Item /\ k \in Nat
  OBVIOUS
<1>2. /\ w.scan \in Nat /\ w.retx \in Nat /\ w.echoes \in Nat
      /\ w.served \in Seq(Nat) /\ w.spent \in BOOLEAN
      /\ Unserved.scan \in Nat /\ Unserved.retx \in Nat
  BY UnservedType DEF Work
<1>3. /\ Cardinality(A(k)) \in Nat /\ Cardinality(D(k)) \in Nat
      /\ A(k + 1) = A(k) \cup (IF s # EchoItem THEN {k + 1} ELSE {})
      /\ D(k + 1) = D(k) \cup (IF s # EchoItem /\ holds(ring, s) THEN {k + 1} ELSE {})
      /\ Cardinality(A(k + 1)) = Cardinality(A(k)) + (IF s # EchoItem THEN 1 ELSE 0)
      /\ Cardinality(D(k + 1)) = Cardinality(D(k)) +
           (IF s # EchoItem /\ holds(ring, s) THEN 1 ELSE 0)
      /\ Cardinality(A(k + 1)) <= Cardinality(A(N)) /\ Cardinality(D(k + 1)) <= Cardinality(D(N))
      /\ Cardinality(A(N)) \in Nat /\ Cardinality(D(N)) \in Nat
  BY <1>1, AsksGrow, ZenonT(30), ZenonT(30)
<1>4. PICK a \in Nat, d \in Nat, u \in Nat, r \in Nat :
        /\ a = Cardinality(A(k)) /\ d = Cardinality(D(k))
        /\ u = Unserved.scan /\ r = Unserved.retx
  BY <1>2, <1>3, Zenon
<1>5. /\ ~w.spent /\ w.scan = u - a /\ w.retx = r - d
      /\ w.echoes = k - a
  BY <1>4, Zenon DEF Exact
<1>6. Range(w.served) = {packet(ring, items[j]) : j \in D(k)}
  BY Zenon DEF Exact
<1>7. CASE s = EchoItem
  <2>1. v = [w EXCEPT !.echoes = @ + 1]
    BY <1>1, <1>5, <1>7, ServeItemIs, ZenonT(30)
  <2>2. v.spent = w.spent /\ v.scan = w.scan /\ v.retx = w.retx /\ v.served = w.served /\ v.echoes = w.echoes + 1
    BY <2>1, ZenonT(60) DEF Work
  <2>3. A(k + 1) = A(k) /\ D(k + 1) = D(k)
    BY <1>3, <1>7
  <2>4. v.echoes = (k + 1) - a
    <3>1. a \in Nat
      BY <1>4, Zenon
    <3>2. (k - a) + 1 = (k + 1) - a
      BY <1>1, <3>1, Spending, ZenonT(60)
    <3> QED
      BY <1>5, <2>2, <3>2, ZenonT(60)
  <2> QED
    BY <1>4, <1>5, <1>6, <2>2, <2>3, <2>4, Zenon DEF Exact
<1>8. CASE s # EchoItem /\ ~holds(ring, s)
  <2>1. Cardinality(A(k + 1)) = a + 1 /\ Cardinality(D(k + 1)) = d /\ D(k + 1) = D(k)
    BY <1>3, <1>4, <1>8, ZenonT(30)
  <2>2. u - a > 0
    <3>1. PICK n \in Nat : n = Cardinality(A(N))
      BY <1>3, Zenon
    <3>2. a + 1 <= n /\ n <= u
      BY <1>3, <1>4, <2>1, <3>1, ZenonT(30)
    <3> QED
      BY <1>4, <3>1, <3>2, Within, ZenonT(30)
  <2>3. w.scan > 0
    BY <1>5, <2>2, Zenon
  <2>4. v = [w EXCEPT !.scan = @ - 1]
    BY <1>1, <1>5, <1>8, <2>3, ServeItemIs, ZenonT(30)
  <2>5. /\ v.spent = w.spent /\ v.scan = w.scan - 1 /\ v.retx = w.retx
        /\ v.served = w.served /\ v.echoes = w.echoes
    BY <2>4 DEF Work
  <2>6. v.scan = u - (a + 1) /\ v.echoes = (k + 1) - (a + 1)
    <3>1. a \in Nat /\ u \in Nat
      BY <1>4, Zenon
    <3>2. (u - a) - 1 = u - (a + 1) /\ k - a = (k + 1) - (a + 1)
      BY <1>1, <3>1, Spending, ZenonT(60)
    <3> QED
      BY <1>5, <2>5, <3>2, ZenonT(30)
  <2> QED
    BY <1>4, <1>5, <1>6, <2>1, <2>5, <2>6, ZenonT(30) DEF Exact
<1>9. CASE s # EchoItem /\ holds(ring, s)
  <2>1. /\ Cardinality(A(k + 1)) = a + 1 /\ Cardinality(D(k + 1)) = d + 1
        /\ D(k + 1) = D(k) \cup {k + 1}
    BY <1>3, <1>4, <1>9, Zenon
  <2>2. u - a > 0 /\ r - d # 0
    <3>1. PICK n \in Nat, p \in Nat : n = Cardinality(A(N)) /\ p = Cardinality(D(N))
      BY <1>3, Zenon
    <3>2. a + 1 <= n /\ n <= u /\ d + 1 <= p /\ p <= r
      BY <1>3, <1>4, <2>1, <3>1, ZenonT(30)
    <3> QED
      BY <1>4, <3>1, <3>2, Within, ZenonT(30)
  <2>3. w.scan > 0 /\ w.retx # 0
    BY <1>5, <2>2, Zenon
  <2>4. v = [w EXCEPT !.scan = @ - 1, !.retx = @ - 1, !.served = Append(@, packet(ring, s))]
    BY <1>1, <1>5, <1>9, <2>3, ServeItemIs, ZenonT(30)
  <2>5. /\ v.spent = w.spent /\ v.scan = w.scan - 1 /\ v.retx = w.retx - 1
        /\ v.served = Append(w.served, packet(ring, s)) /\ v.echoes = w.echoes
    BY <2>4 DEF Work
  <2>6. /\ v.scan = u - (a + 1) /\ v.echoes = (k + 1) - (a + 1)
        /\ v.retx = r - (d + 1)
    <3>1. a \in Nat /\ d \in Nat /\ u \in Nat /\ r \in Nat
      BY <1>4, Zenon
    <3>2. (u - a) - 1 = u - (a + 1) /\ (r - d) - 1 = r - (d + 1) /\ k - a = (k + 1) - (a + 1)
      BY <1>1, <3>1, Spending, ZenonT(30)
    <3> QED
      BY <1>5, <2>5, <3>2, ZenonT(30)
  <2>7. packet(ring, s) \in Nat
    <3>1. s \in SeqNos
      BY <1>1, <1>9 DEF Item
    <3>2. packet(ring, s) \in Recent
      BY <1>9, <3>1, RingAnswers, ZenonT(30) DEF RingIsRecent
    <3> QED
      BY <3>2, SenderAssumption, SMTT(30) DEF Recent, SInv
  <2>8. Range(v.served) = Range(w.served) \cup {packet(ring, s)}
    BY <1>2, <2>5, <2>7, RangeAppend, ZenonT(30)
  <2>9. Range(v.served) = {packet(ring, items[j]) : j \in D(k + 1)}
    BY <1>6, <2>1, <2>8, ZenonT(60)
  <2> QED
    BY <1>4, <1>5, <2>1, <2>5, <2>6, <2>9, ZenonT(30) DEF Exact
<1> QED
  BY <1>7, <1>8, <1>9

\* A datagram within the budgets is served exactly.
LEMMA ServeExact ==
  ASSUME SInv, NEW items \in Seq(Item), NEW f, Serving(f, items),
         Cardinality(Asks(items, Len(items))) <= Unserved.scan,
         Cardinality(Finds(items, Len(items))) <= Unserved.retx
  PROVE  Exact(f[Len(items)], items, Len(items))
<1> DEFINE N == Len(items)
           S == {k \in 0..N : Exact(f[k], items, k)}
<1>1. /\ N \in Nat
      /\ f \in [0..N -> Work] /\ f[0] = Unserved
      /\ \A k \in 1..N : f[k] = ServeItem(f[k - 1], items[k])
  BY DEF Serving
<1>2. 0 \in S
  <2>1. Asks(items, 0) = {} /\ Finds(items, 0) = {}
    BY DEF Asks, Finds
  <2>2. Cardinality(Asks(items, 0)) = 0 /\ Cardinality(Finds(items, 0)) = 0
    BY <2>1, FS_EmptySet, ZenonT(30), Zenon
  <2>3. /\ Unserved.spent = FALSE /\ Unserved.served = <<>> /\ Unserved.echoes = 0
        /\ Unserved.scan \in Nat /\ Unserved.retx \in Nat
    BY UnservedType, Zenon DEF Unserved, Work
  <2>4. Range(<<>>) = {packet(ring, items[j]) : j \in Finds(items, 0)}
    <3>1. Range(<<>>) = {}
      BY SMTT(30) DEF Range
    <3> QED
      BY <2>1, <3>1, ZenonT(30), ZenonT(30)
  <2>5. Exact(Unserved, items, 0)
    <3>1. ASSUME NEW n \in Nat
          PROVE  n = n - 0
      OBVIOUS
    <3>2. 0 = 0 - 0
      OBVIOUS
    <3> HIDE DEF Unserved
    <3> QED
      BY <2>2, <2>3, <2>4, <3>1, <3>2, ZenonT(30), ZenonT(30) DEF Exact
  <2> QED
    BY <1>1, <2>5, SMTT(30)
<1>3. ASSUME NEW k \in 0..(N - 1), k \in S
      PROVE  k + 1 \in S
  <2>1. k \in 0..N /\ k + 1 \in 1..N /\ k + 1 \in 0..N /\ (k + 1) - 1 = k
    BY <1>1, SMTT(30)
  <2>2. f[k + 1] = ServeItem(f[k], items[k + 1]) /\ f[k] \in Work /\ Exact(f[k], items, k)
    BY <1>1, <1>3, <2>1, ZenonT(60)
  <2>3. Exact(f[k + 1], items, k + 1)
    BY <2>2, ExactTurn
  <2> QED
    BY <2>1, <2>3, ZenonT(60)
<1> HIDE DEF S
<1>4. 0..N \subseteq S
  <2> HIDE DEF N
  <2> QED
    BY <1>1, <1>2, <1>3, UpTo, ZenonT(30)
<1>5. N \in 0..N
  BY <1>1
<1> QED
  BY <1>4, <1>5, ZenonT(60) DEF S

\* Two recent packets have different numbers.
LEMMA RecentDiffer ==
  ASSUME SInv, NEW e \in Recent, NEW g \in Recent, Wire(e) = Wire(g)
  PROVE  e = g
<1>1. /\ e \in Nat /\ g \in Nat /\ next \in Nat /\ M \in Nat
      /\ e < next /\ g < next /\ e >= next - M /\ g >= next - M
  BY SenderAssumption, RingConstants, SMTT(30) DEF Recent, SInv
<1>2. ASSUME NEW x \in Nat, NEW y \in Nat, y <= x, x < y + M, Wire(x) = Wire(y)
      PROVE  x = y
  <2>1. wrapping_sub(Wire(x), Wire(y)) = x - y
    BY <1>2, WireSubAhead
  <2>2. PICK n \in Int : n = Wire(x)
    BY WireType, RingConstants DEF SeqNos
  <2>3. wrapping_sub(Wire(x), Wire(y)) = 0
    BY <1>2, <2>2 DEF wrapping_sub
  <2> QED
    BY <2>1, <2>3, SMTT(30)
<1>3. CASE g <= e
  <2>1. e < g + M
    BY <1>1
  <2> QED
    BY <1>1, <1>2, <1>3, <2>1, ZenonT(60)
<1>4. CASE e <= g
  <2>1. g < e + M
    BY <1>1
  <2> QED
    BY <1>1, <1>2, <1>4, <2>1, ZenonT(60)
<1> QED
  BY <1>1, <1>3, <1>4, SMTT(30)

\* Whatever a datagram is made of, serve_nack_entries sends no more than the
\* budget of guard.rs, and within the budgets it sends again exactly the recent
\* packets named and answers every echo request.
THEOREM ServiceWithinBudget == SSpec => []ServedWithinBudget
<1>1. SInv => ServedWithinBudget
  <2> SUFFICES ASSUME SInv, NEW dg \in Datagrams
               PROVE  LET budget == for_capacity(RCap)
                          Named == {Items(dg)[k] : k \in Requests(dg)}
                      IN  /\ Len(Serve(dg).served) <= budget.retx
                          /\ Cardinality(Requests(dg)) <= budget.scan
                             /\ Cardinality(Hits(dg)) <= budget.retx =>
                               /\ Range(Serve(dg).served) = {e \in Recent : Wire(e) \in Named}
                               /\ Serve(dg).echoes = Len(Items(dg)) - Cardinality(Requests(dg))
    BY Zenon DEF ServedWithinBudget
  <2> DEFINE items == Items(dg)
             N == Len(items)
             w == Serve(dg)
             Named == {items[k] : k \in Requests(dg)}
  <2>1. items \in Seq(Item)
    BY ServeIs
  <2>2. PICK f : Serving(f, items) /\ w = f[N]
    BY ServeIs, Zenon
  <2>3. /\ for_capacity(RCap).scan = Unserved.scan
        /\ for_capacity(RCap).retx = Unserved.retx
    BY ZenonT(60) DEF Unserved
  <2>4. Requests(dg) = Asks(items, N) /\ Hits(dg) = Finds(items, N) /\ Requests(dg) \subseteq 1..N
    BY <2>1 DEF Requests, Hits, Asks, Finds
  <2> HIDE DEF items, N, w
  <2>5. Len(w.served) <= Unserved.retx
    BY <2>1, <2>2, ServeCapped, ZenonT(60) DEF N
  <2>6. ASSUME Cardinality(Requests(dg)) <= Unserved.scan, Cardinality(Hits(dg)) <= Unserved.retx
        PROVE  /\ Range(w.served) = {e \in Recent : Wire(e) \in Named}
               /\ w.echoes = N - Cardinality(Requests(dg))
    <3>1. Exact(w, items, N)
      BY <2>1, <2>2, <2>4, <2>6, ServeExact, ZenonT(60) DEF N
    <3>2. w.echoes = N - Cardinality(Requests(dg))
      BY <2>4, <3>1, ZenonT(60) DEF Exact
    <3>3. Range(w.served) = {packet(ring, items[j]) : j \in Hits(dg)}
      BY <2>4, <3>1 DEF Exact
    <3>4. ASSUME NEW k \in Requests(dg)
          PROVE  items[k] \in SeqNos
      <4>1. items[k] # EchoItem
        BY DEF Requests, items
      <4>2. k \in 1..Len(items)
        BY <2>4 DEF N
      <4>3. items[k] \in Item
        BY <2>1, <4>2
      <4> QED
        BY <4>1, <4>3 DEF Item
    <3>5. ASSUME NEW j \in Hits(dg)
          PROVE  /\ packet(ring, items[j]) \in Recent
                 /\ Wire(packet(ring, items[j])) \in Named
      <4>1. j \in Requests(dg) /\ holds(ring, items[j])
        BY DEF Hits, items
      <4>2. packet(ring, items[j]) \in Recent /\ Wire(packet(ring, items[j])) = items[j]
        BY <3>4, <4>1, RingAnswers, ZenonT(30) DEF RingIsRecent
      <4> QED
        BY <4>1, <4>2, ZenonT(60)
    <3>6. ASSUME NEW e \in Recent, Wire(e) \in Named
          PROVE  \E j \in Hits(dg) : e = packet(ring, items[j])
      <4>1. PICK j \in Requests(dg) : Wire(e) = items[j]
        BY <3>6
      <4>2. items[j] \in SeqNos
        BY <3>4, ZenonT(60)
      <4>3. holds(ring, items[j])
        BY <4>1, <4>2, RingAnswers DEF RingIsRecent
      <4>4. packet(ring, items[j]) \in Recent /\ Wire(packet(ring, items[j])) = items[j]
        BY <4>2, <4>3, RingAnswers, ZenonT(30) DEF RingIsRecent
      <4>5. e = packet(ring, items[j])
        BY <4>1, <4>4, RecentDiffer, ZenonT(60)
      <4>6. j \in Hits(dg)
        BY <4>3 DEF Hits, items
      <4> QED
        BY <4>5, <4>6, ZenonT(60)
    <3> QED
      BY <3>2, <3>3, <3>5, <3>6, ZenonT(60)
  <2> QED
    BY <2>3, <2>5, <2>6, ZenonT(60) DEF w, items, N
<1> QED
  BY <1>1, SInvAlways, PTL

-----------------------------------------------------------------------------
(* The peer of the send task *)

\* The feedback peer changes host only after a grace period of silence
\* (peer_move_allowed in guard.rs; the slot is renewed by every datagram).
THEOREM PeerIsHeld == SSpec => PeerHeld
<1>1. SInv /\ [SNext]_svars => [peer'.ip # peer.ip => age = Grace]_svars
  <2> SUFFICES ASSUME SInv, [SNext]_svars, peer'.ip # peer.ip
               PROVE  age = Grace
    OBVIOUS
  <2>1. PICK a \in Addrs, dg \in Datagrams : RecvFeedback(a, dg)
    BY Zenon DEF SNext, AppSend, AppDrop, Close, Media, STick, Exit, SSettle, svars, peerVars
  <2>2. ~(left > 0)
    BY <2>1, Zenon DEF RecvFeedback, peer_move_allowed, peer_is_protected
  <2> QED
    BY <2>2, GuardAssumption, SMTT(30) DEF SInv
<1> QED
  BY <1>1, SInvAlways, PTL DEF SSpec, PeerHeld

-----------------------------------------------------------------------------
(* The ports of the sockets *)

\* An opening in progress has neither the RTCP port nor a task, a socket is open
\* only with an owner; and every handle has a phase, a task and two ports.
LInv ==
  /\ phase = [h \in Handles |-> phase[h]] /\ task = [h \in Handles |-> task[h]]
  /\ rtp = [h \in Handles |-> rtp[h]] /\ rtcp = [h \in Handles |-> rtcp[h]]
  /\ \A h \in Handles : phase[h] \in {"idle", "rtp"} => rtcp[h] = NoPort /\ task[h] = "none"
  /\ PortsAreOwned

\* A step of one handle keeps it, if it does so for that handle.
LEMMA OneHandle ==
  ASSUME LInv, NEW h \in Handles, NEW ph, NEW tk, NEW p, NEW q,
         phase' = [phase EXCEPT ![h] = ph], task' = [task EXCEPT ![h] = tk],
         rtp' = [rtp EXCEPT ![h] = p], rtcp' = [rtcp EXCEPT ![h] = q],
         ph \in {"idle", "rtp"} => q = NoPort /\ tk = "none",
         p # NoPort \/ q # NoPort => tk # "none" \/ ph = "rtp"
  PROVE  LInv'
<1>1. ASSUME NEW g \in Handles
      PROVE  /\ phase[g]' \in {"idle", "rtp"} => rtcp[g]' = NoPort /\ task[g]' = "none"
             /\ rtp[g]' # NoPort \/ rtcp[g]' # NoPort => task[g]' # "none" \/ phase[g]' = "rtp"
  BY ZenonT(30), ZenonT(30) DEF LInv, PortsAreOwned
<1> QED
  BY <1>1, ZenonT(30), Zenon DEF LInv, PortsAreOwned

\* No opening is in progress and no port is held at start.
LEMMA LInvInit == LInit => LInv
BY Zenon DEF LInit, LInv, PortsAreOwned

\* Opening, its failure, close, drop and every end of a task keep it.
LEMMA LInvNext == LInv /\ [LNext]_lvars => LInv'
<1> SUFFICES ASSUME LInv, [LNext]_lvars
             PROVE  LInv'
  OBVIOUS
<1>1. CASE UNCHANGED lvars
  BY <1>1, Zenon DEF lvars, LInv, PortsAreOwned
<1>2. ASSUME NEW h \in Handles, NEW p \in Asked, BindRtp(h, p)
      PROVE  LInv'
  <2>1. rtcp[h] = NoPort /\ task[h] = "none" /\ rtp[h] = NoPort
    BY <1>2 DEF BindRtp, LInv, PortsAreOwned
  <2>2. /\ rtcp' = [rtcp EXCEPT ![h] = NoPort] /\ task' = [task EXCEPT ![h] = "none"]
        /\ rtp = [rtp EXCEPT ![h] = NoPort]
    BY <1>2, <2>1, ZenonT(30), ZenonT(30) DEF BindRtp, LInv
  <2>3. CASE phase' = [phase EXCEPT ![h] = "failed"] /\ UNCHANGED rtp
    BY <2>2, <2>3, OneHandle, ZenonT(30)
  <2>4. CASE /\ phase' = [phase EXCEPT ![h] = "rtp"]
             /\ \E q \in create_udp_socket(p) : rtp' = [rtp EXCEPT ![h] = q]
    BY <2>2, <2>4, OneHandle, Zenon
  <2> QED
    BY <1>2, <2>3, <2>4, ZenonT(60) DEF BindRtp
<1>3. ASSUME NEW h \in Handles, BindRtcp(h)
      PROVE  LInv'
  <2>1. rtp' = [rtp EXCEPT ![h] = rtp[h]]
    BY <1>3, Zenon DEF BindRtcp, LInv
  <2> QED
    BY <1>3, <2>1, OneHandle, Zenon DEF BindRtcp
<1>4. ASSUME NEW h \in Handles, BindFails(h)
      PROVE  LInv'
  <2>1. rtcp[h] = NoPort /\ task[h] = "none"
    BY <1>4 DEF BindFails, LInv
  <2>2. rtcp' = [rtcp EXCEPT ![h] = NoPort] /\ task' = [task EXCEPT ![h] = "none"]
    BY <1>4, <2>1, ZenonT(30), ZenonT(30) DEF BindFails, LInv
  <2> QED
    BY <1>4, <2>2, OneHandle, ZenonT(30), ZenonT(30) DEF BindFails
<1>5. ASSUME NEW h \in Handles, close(h) \/ DropHandle(h)
      PROVE  LInv'
  BY <1>5, ZenonT(60) DEF close, DropHandle, LInv, PortsAreOwned
<1>6. ASSUME NEW h \in Handles, StartTask(h)
      PROVE  LInv'
  BY <1>6 DEF StartTask, LInv, PortsAreOwned
<1>7. ASSUME NEW h \in Handles, EndTask(h), task[h] # "none"
      PROVE  LInv'
  <2>1. phase[h] \notin {"idle", "rtp"} /\ phase' = [phase EXCEPT ![h] = phase[h]]
    BY <1>7 DEF EndTask, LInv
  <2> QED
    BY <1>7, <2>1, OneHandle, ZenonT(30), ZenonT(30) DEF EndTask
<1>8. ASSUME NEW h \in Handles,
             StartFails(h) \/ SenderReturns(h) \/ ReceiverReturns(h) \/ SenderFails(h)
      PROVE  LInv'
  BY <1>7, <1>8, Zenon DEF StartFails, SenderReturns, ReceiverReturns, SenderFails
<1> QED
  BY <1>1, <1>2, <1>3, <1>4, <1>5, <1>6, <1>8, ZenonT(60) DEF LNext

\* A port is held only by an opening in progress or by a live task: an opening
\* that fails half-way leaves none (bind in channel.rs, the tasks of socket.rs).
THEOREM PortsHaveOwners == LSpec => []PortsAreOwned
<1>1. LInv => PortsAreOwned
  BY DEF LInv
<1> QED
  BY <1>1, LInvInit, LInvNext, PTL DEF LSpec

=============================================================================
