---------------------------- MODULE ReorderStream ----------------------------
(***************************************************************************)
(* The reorder buffer fed by a stream: packets arrive lost, duplicated and   *)
(* reordered, the clock ticks, and the delivery thread drains.  Packet e of  *)
(* the stream (an unbounded index, also standing for its payload) carries    *)
(* wire sequence number Wire(e).  The lock is held for one insert, and for   *)
(* one drain_ready from its clock reading to its return.                     *)
(***************************************************************************)
EXTENDS ReorderBuffer

CONSTANTS Starts,    \* indices the stream may be joined at
          MaxExt,    \* last index of the stream (bound)
          MaxJump    \* largest step of the highest index in one arrival (bound)

ASSUME StreamAssumption ==
  /\ Starts \subseteq Nat
  /\ MaxExt \in Nat
  /\ MaxJump \in Nat

VARIABLES
  buf,         \* the ReorderBuffer
  now,         \* the clock
  draining,    \* the delivery thread is inside drain_ready
  \* Ghosts, read by the properties and never by the code's steps:
  ebase,       \* the stream index that buf.base stands for
  ehigh,       \* the stream index that buf.highest stands for
  last,        \* last packet delivered, plus one (0: none yet)
  unreported,  \* indices passed by the base and neither delivered, nor
               \* reported Lost, nor counted in overflow_flushed
  overflowed   \* some insert overflowed the ring

vars == <<buf, now, draining, ebase, ehigh, last, unreported, overflowed>>

Init ==
  /\ buf = NewBuffer
  /\ now = 0
  /\ draining = FALSE
  /\ ebase = 0 /\ ehigh = 0 /\ last = 0
  /\ unreported = 0
  /\ overflowed = FALSE

\* The arrivals the network can produce: a first packet, or one less than half
\* the sequence space away from the base (what the i16 comparison presumes).
CanArrive(e) ==
  IF buf.started
  THEN /\ ebase - Half <= e /\ e < ebase + Half
       /\ e <= ehigh + MaxJump
  ELSE e \in Starts

\* The index the base stands for after an insert.
BaseAfter(e) ==
  IF ~buf.started \/ Resets(buf, Wire(e)) THEN e
  ELSE IF Overflows(buf, Wire(e)) THEN ebase + Advance(buf, Wire(e)) ELSE ebase

\* receiver_loop inserts one arrival under the lock.
Arrive(e) ==
  LET s == Wire(e)
  IN  /\ ~draining
      /\ CanArrive(e)
      /\ buf' = Insert(buf, s, e, now)
      /\ ebase' = BaseAfter(e)
      /\ ehigh' = IF ~buf.started \/ e > ehigh THEN e ELSE ehigh
      /\ unreported' = IF buf.started
                       THEN unreported + (BaseAfter(e) - ebase) - OverflowFlushed(buf, s)
                       ELSE unreported
      /\ overflowed' = (overflowed \/ Overflows(buf, s))
      /\ UNCHANGED <<now, draining, last>>

\* The delivery thread takes the lock, reads the clock and enters the loop.
DrainBegin ==
  /\ ~draining
  /\ HeadReady(buf, now)
  /\ draining' = TRUE
  /\ UNCHANGED <<buf, now, ebase, ehigh, last, unreported, overflowed>>

\* One turn of the loop: deliver the head, or report it lost.
DrainTurn ==
  /\ draining
  /\ HeadReady(buf, now)
  /\ last' = IF HeadDelivers(buf) THEN HeadSlot(buf).data + 1 ELSE last
  /\ buf' = DropHead(buf)
  /\ ebase' = ebase + 1
  /\ UNCHANGED <<now, draining, ehigh, unreported, overflowed>>

DrainEnd ==
  /\ draining
  /\ ~HeadReady(buf, now)
  /\ draining' = FALSE
  /\ UNCHANGED <<buf, now, ebase, ehigh, last, unreported, overflowed>>

\* Time passes.  drain_ready works with one clock reading, so time that passes
\* inside it shows only after it; and with nothing held the clock is idle.
Tick ==
  /\ ~draining
  /\ \E i \in Ring : buf.slots[i].state # "Empty" /\ ~Expired(buf.slots[i].at, now)
  /\ now' = now + 1
  /\ UNCHANGED <<buf, draining, ebase, ehigh, last, unreported, overflowed>>

Next ==
  \/ \E e \in 0..MaxExt : Arrive(e)
  \/ DrainBegin
  \/ DrainTurn
  \/ DrainEnd
  \/ Tick

Spec == Init /\ [][Next]_vars

-----------------------------------------------------------------------------
(* Properties *)

\* Every variable has its type.
TypeOK ==
  /\ buf \in Buffer
  /\ now \in Nat
  /\ draining \in BOOLEAN
  /\ ebase \in Nat /\ ehigh \in Nat /\ last \in Nat
  /\ unreported \in Int
  /\ overflowed \in BOOLEAN

\* The window is at most the ring wide, the wrapped base and highest stand for
\* the unbounded ones, and every buffered payload lies inside the window in
\* the slot of its own sequence number: nothing that was delivered, flushed or
\* passed over can come back, across any number of wraps.
WindowSound ==
  buf.started =>
    /\ buf.base = Wire(ebase) /\ buf.highest = Wire(ehigh)
    /\ ebase <= ehigh + 1 /\ ehigh < ebase + Cap
    /\ last <= ebase
    /\ \A i \in Ring : buf.slots[i].state = "Filled" =>
         LET e == buf.slots[i].data
         IN  ebase <= e /\ e <= ehigh /\ buf.slots[i].seq = Wire(e) /\ i = idx(Wire(e))

\* Delivery is in stream order without repeats, and a delivered payload is the
\* packet of the index the base stands for (drain_ready's Delivered items).
InOrderDelivery ==
  [][last' # last => last' = ebase + 1 /\ last' > last]_vars

\* Every index of the window is either buffered or flagged as a gap, in the
\* slot of its own sequence number, so the drain never meets an overwritten
\* or an unknown head.
WindowComplete ==
  buf.started => \A e \in ebase..ehigh :
    LET slot == buf.slots[idx(Wire(e))]
    IN  slot.seq = Wire(e) /\ slot.state # "Empty"

\* The newest packet taken in is still buffered until the base passes it: an
\* overflow makes room by dropping the oldest, never the fresh packet.
FreshestHeld ==
  buf.started /\ ebase <= ehigh =>
    LET slot == buf.slots[idx(Wire(ehigh))]
    IN  slot.state = "Filled" /\ slot.data = ehigh

\* Accounting: no index is reported twice, and without an overflow none that
\* the base has passed goes unreported.
NoOverReport == unreported >= 0 /\ (~overflowed => unreported = 0)

\* What the ring stands for in JitterBuffer.
Promise == INSTANCE JitterBuffer WITH
  Indices <- 0..MaxExt,
  cursor <- IF buf.started THEN ebase ELSE 0,
  held <- {buf.slots[i].data : i \in FilledIn(buf)}

=============================================================================
