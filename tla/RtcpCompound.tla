---------------------------- MODULE RtcpCompound ----------------------------
(***************************************************************************)
(* Compounds of every make, written, cut short or mixed with a peer's        *)
(* extensions on their way, and read.                                        *)
(***************************************************************************)
EXTENDS RtcpCodec

CONSTANTS Samples,     \* sub-packets that compounds are made of
          Extensions,  \* sub-packets of other makes, as bytes
          MaxPackets   \* sub-packets in a compound (bound)

VARIABLE packets

Init == packets = <<>>

Push(p) == Len(packets) < MaxPackets /\ packets' = Append(packets, p)

Next == \E p \in Samples : Push(p)

Spec == Init /\ [][Next]_packets

bytes == serialize(packets)

First(n, s) == SubSeq(s, 1, IF Len(s) < n THEN Len(s) ELSE n)

-----------------------------------------------------------------------------
(* Properties *)

\* What is written are bytes, in whole words as the length fields count them.
TypeOK == bytes \in Seq(0..255) /\ Len(bytes) % 4 = 0

\* What survives: a range NACK keeps MaxEntries entries.
Kept(p) == IF "entries" \in DOMAIN p /\ p.type = "app" THEN [p EXCEPT !.entries = First(MaxEntries, @)] ELSE p

\* A compound is read back as written, up to MaxSub sub-packets, and one cut
\* anywhere (a read buffer, a lossy tunnel) gives the sub-packets that are
\* whole and nothing made up: the length each serializer announces is what it
\* writes, names of any length, signed counts, entries and blocks included.
ReadsWhatIsWhole ==
  \A n \in 0..Len(bytes) :
    LET whole == {k \in 0..Len(packets) : Len(serialize(First(k, packets))) <= n}
        k == Max(whole)
    IN  parse(First(n, bytes)) =
          [ok |-> TRUE, packets |-> First(MaxSub, [i \in 1..k |-> Kept(packets[i])])]

\* A peer's extensions (other types, other subtypes, bodies too short for their
\* type) do not keep the sub-packets around them from being read: the others
\* are read as if the extension were not there, and it as one sub-packet.
ExtensionsPass ==
  \A x \in Extensions, k \in 0..Len(packets) :
    LET got == parse(serialize(First(k, packets)) \o x \o serialize(From(packets, k + 1)))
    IN  Len(packets) < MaxSub =>
          /\ got.ok /\ Len(got.packets) = Len(packets) + 1
          /\ RemoveAt(got.packets, k + 1) = parse(bytes).packets

=============================================================================
