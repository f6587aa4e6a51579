------------------------------ MODULE Recovery ------------------------------
(***************************************************************************)
(* Loss recovery end to end: the sender's media path and NACK handler        *)
(* (rist-transport/src/sender.rs) over its retransmit ring, the receiver's   *)
(* NACK scheduler and pump, and between them a network that loses and        *)
(* reorders datagrams of both directions.  A datagram is identified by the   *)
(* stream index of its packet; the two sides read only its wire number.      *)
(* It takes any time over them, so an answer may come after the retry delay.  *)
(***************************************************************************)
EXTENDS NackScheduler, RetransmitBuffer

CONSTANT First   \* index of the first packet sent

ASSUME RecoveryAssumption == First \in 0..MaxExt

VARIABLES
  ring,       \* the sender's RetransmitBuffer
  next,       \* index of the next packet the application sends
  media,      \* packets in flight, sent for the first time
  \* An attempt <<e, k>> at recovering packet e is its k-th NACK and the answer:
  nacks,      \* NACKs in flight: each the set of attempts it makes
  resent,     \* attempts whose answer is in flight
  \* Ghosts:
  failed,     \* attempts lost in the network, or that found the ring moved on
  late,       \* attempts under way for longer than the round trip known
  left        \* time left before the last attempt for each packet is late

wire == <<ring, next, media, nacks, resent, failed, late, left>>
rvars == <<vars, wire>>

UnderWay == resent \cup UNION nacks
InFlight == media \cup {a[1] : a \in UnderWay}
Overdue == {a \in UnderWay : left[a[1]] = 0}

RInit ==
  /\ Init
  /\ ring = NewRetx /\ next = First
  /\ media = {} /\ nacks = {} /\ resent = {}
  /\ failed = {} /\ late = {} /\ left = [e \in 0..MaxExt |-> 0]

\* The application's packet goes out and is kept for resending.  What is in
\* flight is gone before the sequence numbers come half-way round, and what is
\* still asked for before they have come round (bounds).
SendMedia ==
  /\ next <= MaxExt
  /\ \A e \in InFlight \cup (IF started THEN {eexp} ELSE {}) : next - e < Half
  /\ \A i \in Active : next + 1 - Tracked(i) < M
  /\ ring' = insertRetx(ring, Wire(next), next)
  /\ media' = media \cup {next}
  /\ next' = next + 1
  /\ UNCHANGED <<vars, nacks, resent, failed, late, left>>

\* A packet reaches the receiver: the original ...
DeliverMedia(e) ==
  /\ e \in media
  /\ OnPacketReceived(e)
  /\ media' = media \ {e}
  /\ UNCHANGED <<ring, next, nacks, resent, failed, late, left>>

\* ... or the answer to an attempt.
DeliverResent(a) ==
  /\ a \in resent
  /\ OnPacketReceived(a[1])
  /\ resent' = resent \ {a}
  /\ UNCHANGED <<ring, next, media, nacks, failed, late, left>>

\* The round trip the receiver has measured, or its floor before it has.
RoundTrip == IF rtt = NoRtt THEN Floor ELSE rtt

\* The pump's turn, and the one NACK it sends for all it found due.
PumpNacks ==
  LET asked == {Tracked(i) : i \in ToNack}
  IN  /\ Pump
      /\ nacks' = nacks \cup ({{<<e, sent[e] + 1>> : e \in asked}} \ {{}})
      /\ left' = [e \in 0..MaxExt |-> IF e \in asked THEN RoundTrip ELSE left[e]]
      /\ UNCHANGED <<ring, next, media, resent, failed>>
      /\ late' = late \cup Overdue'

\* The sender resends what its ring still holds of the numbers a NACK names.
\* The work budget is at least 512 (SenderTask): these NACKs do not reach it.
ServeNack(n) ==
  LET hits == {a \in n : holds(ring, Wire(a[1]))}
  IN  /\ n \in nacks
      /\ nacks' = nacks \ {n}
      /\ resent' = resent \cup {<<packet(ring, Wire(a[1])), a[2]>> : a \in hits}
      /\ failed' = failed \cup (n \ hits)
      /\ UNCHANGED <<vars, ring, next, media, late, left>>

\* The network loses packets and NACKs.
LoseMedia(e) ==
  /\ e \in media
  /\ media' = media \ {e}
  /\ UNCHANGED <<vars, ring, next, nacks, resent, failed, late, left>>

LoseResent(a) ==
  /\ a \in resent
  /\ resent' = resent \ {a}
  /\ failed' = failed \cup {a}
  /\ UNCHANGED <<vars, ring, next, media, nacks, late, left>>

LoseNack(n) ==
  /\ n \in nacks
  /\ nacks' = nacks \ {n}
  /\ failed' = failed \cup n
  /\ UNCHANGED <<vars, ring, next, media, resent, late, left>>

\* Time passes, whatever is in flight.
TickAll ==
  /\ Tick
  /\ left' = [e \in 0..MaxExt |-> IF left[e] > 0 THEN left[e] - 1 ELSE 0]
  /\ UNCHANGED <<ring, next, media, nacks, resent, failed>>
  /\ late' = late \cup Overdue'

Echo == (\E r \in Rtts : RttUpdate(r)) /\ UNCHANGED wire

DeliverAny == (\E e \in media : DeliverMedia(e)) \/ (\E a \in resent : DeliverResent(a))
ServeAny == \E n \in nacks : ServeNack(n)

RNext ==
  \/ SendMedia \/ DeliverAny \/ PumpNacks \/ ServeAny
  \/ \E e \in media : LoseMedia(e)
  \/ \E a \in resent : LoseResent(a)
  \/ \E n \in nacks : LoseNack(n)
  \/ TickAll \/ Echo

RSpec == RInit /\ [][RNext]_rvars

\* Datagrams do not stay in flight for ever, the pump's interval and the clock
\* go on.  Nothing is assumed of the application or of the losses.
RFairSpec ==
  RSpec /\ WF_rvars(DeliverAny) /\ WF_rvars(ServeAny) /\ WF_rvars(PumpNacks) /\ WF_rvars(TickAll)

-----------------------------------------------------------------------------
(* Properties *)

\* Every variable has its type.
RTypeOK ==
  /\ TypeOK
  /\ next \in Nat /\ media \subseteq 0..MaxExt
  /\ UnderWay \cup failed \cup late \subseteq (0..MaxExt) \X (1..MaxRetries)
  /\ left \in [0..MaxExt -> Nat]

\* The first n attempts at packet e have failed or come late.
Excused(e, n) == \A k \in 1..n : <<e, k>> \in failed \cup late

\* A packet is asked for again only when the attempt before has failed, in the
\* network or because the ring had moved on, or has been under way for the round
\* trip measured when it was made (MIN_NACK_RETRY_DELAY if none was): never
\* because a slot was reused, an echo came or the pump fired twice.
NoNeedlessNack == \A e \in 0..MaxExt : Excused(e, sent[e] - 1)

\* A missing packet is given up only after max_retries attempts, each of which
\* failed or was given at least that long.
GivenUpOnlyAfterFailures ==
  [][\A e \in pending \ pending' :
       e \in (media \ media') \cup {a[1] : a \in resent \ resent'} \/ Excused(e, MaxRetries)]_rvars

\* Every gap the receiver has seen is filled, unless max_retries attempts fail
\* or the sender's ring or the receiver's is overwritten by newer packets first;
\* an answer that comes after the packet was given up still fills it.
Recovers ==
  \A e \in Late :
    e \in pending ~> (e \in got \/ (\A k \in 1..MaxRetries : <<e, k>> \in failed)
                         \/ e < eexp - NCap \/ ~holds(ring, Wire(e)))

=============================================================================
