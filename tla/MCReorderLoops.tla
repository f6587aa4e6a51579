---------------------------- MODULE MCReorderLoops ----------------------------
(***************************************************************************)
(* Model checking of ReorderStream.  A 16-number sequence space with a ring  *)
(* of 4 keeps the ratio that matters: the half space is two rings.  The      *)
(* stream is joined just below the wrap, so that windows straddle it and     *)
(* cross 0, the number that a cleared slot carries.                          *)
(***************************************************************************)
EXTENDS ReorderPromise, ReorderLoops

AtWrap == {14}

=============================================================================
