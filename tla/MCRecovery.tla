----------------------------- MODULE MCRecovery -----------------------------
(***************************************************************************)
(* Values for model checking Recovery: five packets around the wrap of a     *)
(* 16-number sequence space, which overwrite both rings, the receiver joining *)
(* at one of the first two, and a round trip of two ticks.                    *)
(***************************************************************************)
EXTENDS Recovery

Joins == 14..15
OneRtt == {2}

=============================================================================
