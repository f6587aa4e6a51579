---------------------------- MODULE MCBookkeeping ----------------------------
(***************************************************************************)
(* Model checking of Bookkeeping.  Its parts share no state, so a behaviour  *)
(* is one of one of them, and the others stay at rest.  The counts and the   *)
(* clocks pass 2^32, which is 12 or 9 here, and the loss and the delay leave *)
(* the range of their fields; the stream is joined near a wrap; the system   *)
(* clock is set forward and back.                                            *)
(***************************************************************************)
EXTENDS Bookkeeping

VARIABLE part

BackAndForth == {-2, 3}

Parts == {"counts", "jitter", "clocks", "rtt"}

bVars == <<countVars, jitterVars, clockVars, rttVars, part>>

\* Of the parts at rest only one initial state matters.
BInit ==
  /\ part \in Parts /\ C!Init /\ J!Init /\ S!Init /\ E!Init
  /\ part # "jitter" => offset = 0
  /\ part # "rtt" => ~known

BNext ==
  \/ part = "counts" /\ C!Next /\ UNCHANGED <<part, jitterVars, clockVars, rttVars>>
  \/ part = "jitter" /\ J!Next /\ UNCHANGED <<part, countVars, clockVars, rttVars>>
  \/ part = "clocks" /\ S!Next /\ UNCHANGED <<part, countVars, jitterVars, rttVars>>
  \/ part = "rtt" /\ E!Next /\ UNCHANGED <<part, countVars, jitterVars, clockVars>>

BSpec == BInit /\ [][BNext]_bVars

=============================================================================
