------------------------------- MODULE Guard -------------------------------
(***************************************************************************)
(* The admission rules and the NACK work budget of rist-transport/guard.rs. *)
(* An address is a host and a port.  The code keeps the instant a peer slot *)
(* was last live and compares its age with PEER_TAKEOVER_GRACE; here the    *)
(* slot keeps what is left of that grace period, 0 when it is over or the   *)
(* slot was never live, which the code does not tell apart either.          *)
(***************************************************************************)
EXTENDS Integers

CONSTANTS None,      \* an Option that is None
          Grace,     \* PEER_TAKEOVER_GRACE, in clock ticks
          MinRetx,   \* NackWorkBudget::MIN_RETX: 512
          MaxRetx    \* NackWorkBudget::MAX_RETX: 8192

ASSUME GuardAssumption ==
  Grace \in Nat \ {0} /\ MinRetx \in Nat \ {0} /\ MaxRetx \in Nat /\ MinRetx <= MaxRetx

\* Mutant: a slot that was ever set stays protected.
peer_is_protected_ever(left) == left \in Nat

peer_is_protected(left) == left > 0

peer_move_allowed(from, current, left) ==
  from.ip = current.ip \/ ~peer_is_protected(left)

\* Mutant: the pin is only looked at while the slot is free.
source_allowed_pin_first(from, pinned, current, left) ==
  IF current = None THEN pinned \in {None, from.ip} ELSE peer_move_allowed(from, current, left)

\* pinned is the operator's source IP, or None.
source_allowed(from, pinned, current, left) ==
  /\ pinned \in {None, from.ip}
  /\ current # None => peer_move_allowed(from, current, left)

\* An SSRC is a number; its lowest bit flags a retransmission.
nack_targets_us(media_ssrc, our_ssrc) ==
  media_ssrc = 0 \/ media_ssrc \div 2 = our_ssrc \div 2

-----------------------------------------------------------------------------
(* NackWorkBudget: one per received datagram *)

clamp(n) == IF n < MinRetx THEN MinRetx ELSE IF n > MaxRetx THEN MaxRetx ELSE n

for_capacity(capacity) == [scan |-> 4 * clamp(capacity), retx |-> clamp(capacity)]

=============================================================================
