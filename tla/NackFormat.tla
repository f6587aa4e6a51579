----------------------------- MODULE NackFormat -----------------------------
(***************************************************************************)
(* The two NACK formats (packet/rtcp_nack.rs): lists of lost numbers packed  *)
(* into entries by NackListBuilder and unpacked by lost_seqs.  A bitmask is  *)
(* the set of the offsets its bits stand for, and what an entry unpacks to   *)
(* is a function from offsets to numbers.  RtcpCodec carries the entries as  *)
(* bytes.                                                                    *)
(***************************************************************************)
EXTENDS SeqArith, Sequences

CONSTANTS Bits,     \* bits of a mask: 16
          Tracked,  \* numbers the NACK scheduler can track at once: 4096
          Numbers,  \* numbers that lists are made of (bound)
          MaxLost   \* length of a list (bound)

ASSUME NackFormatAssumption ==
  Bits \in 1..(M - 1) /\ Tracked \in 2..M /\ Numbers \subseteq SeqNos /\ MaxLost \in Nat

VARIABLE lost   \* the list given to the builder

Listed == {lost[i] : i \in DOMAIN lost}

ListInit == lost = <<>>

\* The lists are any of distinct numbers, in any order: get_pending_nacks gives
\* some of these, and sorts them.
Lose(s) == Len(lost) < MaxLost /\ s \notin Listed /\ lost' = Append(lost, s)

ListNext == \E s \in Numbers : Lose(s)

ListSpec == ListInit /\ [][ListNext]_lost

-----------------------------------------------------------------------------
(* Packing: each number joins the last entry or opens one *)

\* Mutant: one bit too many.
Joins_wide(n, s) == wrapping_sub(s, n.pid) \in 1..(Bits + 1)

Joins(n, s) == wrapping_sub(s, n.pid) \in 1..Bits

AddToMasks(ns, s) ==
  IF ns # <<>> /\ Joins(ns[Len(ns)], s)
  THEN [ns EXCEPT ![Len(ns)].blp = @ \cup {wrapping_sub(s, ns[Len(ns)].pid)}]
  ELSE Append(ns, [pid |-> s, blp |-> {}])

build_bitmask(seqs) ==
  LET packed[k \in 0..Len(seqs)] == IF k = 0 THEN <<>> ELSE AddToMasks(packed[k - 1], seqs[k])
  IN  packed[Len(seqs)]

Extends(n, s) == s = wrapping_add(n.start, n.extra + 1)

AddToRanges(ns, s) ==
  IF ns # <<>> /\ Extends(ns[Len(ns)], s)
  THEN [ns EXCEPT ![Len(ns)].extra = @ + 1]
  ELSE Append(ns, [start |-> s, extra |-> 0])

build_range(seqs) ==
  LET packed[k \in 0..Len(seqs)] == IF k = 0 THEN <<>> ELSE AddToRanges(packed[k - 1], seqs[k])
  IN  packed[Len(seqs)]

-----------------------------------------------------------------------------
(* Unpacking *)

\* Offset 0 is the packet id itself; the others are the bits that are set.
bitmask_lost_seqs(n) == [k \in {0} \cup {b \in 1..Bits : b \in n.blp} |-> wrapping_add(n.pid, k)]

range_lost_seqs(n) == [k \in 0..n.extra |-> wrapping_add(n.start, k)]

Unmasked(ns) == [i \in DOMAIN ns |-> bitmask_lost_seqs(ns[i])]
Unranged(ns) == [i \in DOMAIN ns |-> range_lost_seqs(ns[i])]

-----------------------------------------------------------------------------
(* Properties *)

\* The numbers that unpacked entries give, and that they give each one once.
Named(us) == UNION {{us[i][k] : k \in DOMAIN us[i]} : i \in DOMAIN us}

Once(us) ==
  \A i, j \in DOMAIN us : \A k \in DOMAIN us[i], l \in DOMAIN us[j] :
    us[i][k] = us[j][l] => i = j /\ k = l

NamesAll(us) == Named(us) = Listed /\ Once(us)

\* The list is of sequence numbers, each once.
ListTypeOK ==
  /\ lost \in Seq(SeqNos) /\ Len(lost) <= MaxLost
  /\ \A i, j \in DOMAIN lost : lost[i] = lost[j] => i = j

Sorted == \A i, j \in DOMAIN lost : i < j => lost[i] < lost[j]

Within(span) == \E a \in SeqNos : \A s \in Listed : wrapping_sub(s, a) < span

\* Whatever the order of the list and wherever it wraps, the sender unpacks from
\* a bitmask NACK and from a range NACK every number of the list, once, and no
\* other.  The sorted list the scheduler gives, of numbers within the span it
\* tracks, takes (Tracked - 2) / (Bits + 1) + 2 bitmask entries at most: 242 in the
\* code, which with the report before them fit the 2048 bytes the sender reads.
ListsSurvive ==
  /\ NamesAll(Unmasked(build_bitmask(lost)))
  /\ NamesAll(Unranged(build_range(lost)))
  /\ Sorted /\ Within(Tracked) => Len(build_bitmask(lost)) <= (Tracked - 2) \div (Bits + 1) + 2

=============================================================================
