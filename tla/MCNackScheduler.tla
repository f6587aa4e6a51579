--------------------------- MODULE MCNackScheduler ---------------------------
(***************************************************************************)
(* Values for model checking NackScheduler: a ring of 2 in an 8-number       *)
(* sequence space, joined just below the wrap.                               *)
(***************************************************************************)
EXTENDS NackScheduler

AtWrap == {5}
ShortAndLongRtt == {0, 2}

=============================================================================
