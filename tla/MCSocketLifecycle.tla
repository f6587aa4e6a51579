------------------------- MODULE MCSocketLifecycle -------------------------
(***************************************************************************)
(* Values for model checking SocketLifecycle: two handles that ask for the   *)
(* same pair, for a pair whose upper port is taken, for an odd port and for  *)
(* port 0.                                                                   *)
(***************************************************************************)
EXTENDS SocketLifecycle

CONSTANTS h1, h2
TwoHandles == {h1, h2}
AnyPort == {0, 2, 3, 4}
Taken == {5}
FreePorts == {6, 7}

=============================================================================
