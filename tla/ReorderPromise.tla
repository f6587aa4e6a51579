---------------------------- MODULE ReorderPromise ----------------------------
(***************************************************************************)
(* What the reorder buffer promises, up to the one step that breaks it: an   *)
(* arrival that passes over more than a ring's worth of numbers when the     *)
(* buffer has just been drained empty.                                       *)
(***************************************************************************)
EXTENDS ReorderStream

VARIABLE far   \* ghost: such a step has been taken

FInit == Init /\ far = FALSE

FNext ==
  /\ Next
  /\ far' = (far \/ (buf.started /\ ebase = ehigh + 1 /\ ehigh' > ehigh + Cap))

FSpec == FInit /\ [][FNext]_<<vars, far>>

-----------------------------------------------------------------------------
(* Properties *)

\* WindowComplete and FreshestHeld, with steps of any size and overflows and
\* resets among them, up to a step over more than a ring into a buffer drained
\* empty: highest - base wraps there (reorder.rs:162), and only there can gap
\* marking lap the fresh packet.
WindowWholeBeforeFar == far \/ (WindowComplete /\ FreshestHeld)

\* The ring implements JitterBuffer: every insert keeps the fresh packet and
\* the kept tail, every delivery hands over the packet at the cursor, every
\* Lost passes over an index not held.
ImplementsPromise == Promise!JInit /\ [][far' \/ Promise!JNext]_<<Promise!jvars, far>>

=============================================================================
