---------------------------- MODULE MCSenderTask ----------------------------
(***************************************************************************)
(* Values for model checking SenderTask: a ring of 4 (configured as 3) in an *)
(* 8-number space joined below the wrap, two hosts, one with two ports, and  *)
(* datagrams that mix hits, misses, repeats, other flows and echo requests.  *)
(***************************************************************************)
EXTENDS SenderTask

TwoHosts == {[ip |-> "a", port |-> 1], [ip |-> "b", port |-> 1]}
ThreeAddrs == TwoHosts \cup {[ip |-> "a", port |-> 3]}

Nack(ssrc, seqs) == [type |-> "nack", ssrc |-> ssrc, seqs |-> seqs]
Echo == [type |-> "echo_request"]
Other == [type |-> "other"]

\* Ours, ours with the retransmit flag, unnamed and foreign; and long runs.
MixedDatagrams ==
  {<<Other, Nack(2, <<i>>), Nack(4, <<2>>), Echo, Nack(x, <<i, i + 1>>)>> :
      x \in {0, 3}, i \in {1, 6}} \cup
  {<<Nack(2, [k \in 1..n |-> (i + k) % M]), Echo>> : i \in {3, 6}, n \in {3, 9}} \cup
  {<<Echo>>}

EchoOnly == <<Echo>>
OneHost == {"a"}

=============================================================================
