---------------------------- MODULE MCDrainThread ----------------------------
(***************************************************************************)
(* Values for model checking DrainThread: three packets that straddle the    *)
(* wrap of a 16-number sequence space.                                       *)
(***************************************************************************)
EXTENDS DrainThread

ThreePackets == {15, 16, 18}

=============================================================================
