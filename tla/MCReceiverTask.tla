--------------------------- MODULE MCReceiverTask ---------------------------
(***************************************************************************)
(* Values for model checking ReceiverTask: two hosts, and a third address    *)
(* that is a new port of the first, the last of the port space.              *)
(***************************************************************************)
EXTENDS ReceiverTask

TwoAddrs == {[ip |-> "a", port |-> 0], [ip |-> "b", port |-> 0]}
ThreeAddrs == TwoAddrs \cup {[ip |-> "a", port |-> 3]}
OneHost == {"a"}

=============================================================================
