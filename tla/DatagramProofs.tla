---------------------------- MODULE DatagramProofs ----------------------------
(***************************************************************************)
(* What goes over the wire means the same at both ends: the lists of lost    *)
(* packets, for every sequence-space size and mask width, and RTP packets as *)
(* bytes, for every payload, number, stream, foreign header and read buffer. *)
(***************************************************************************)
EXTENDS NackFormat, RtpCodec, SeqArithProofs

-----------------------------------------------------------------------------
(* The lists of lost numbers in NACKs *)

LEMMA NamedBy ==
  ASSUME NEW us, NEW x
  PROVE  x \in Named(us) <=> \E i \in DOMAIN us : \E k \in DOMAIN us[i] : us[i][k] = x
BY DEF Named

\* vs is us, of n entries, with one entry more that names s alone.
Opens(us, vs, n, s) ==
  /\ DOMAIN us = 1..n /\ DOMAIN vs = 1..(n + 1) /\ \A i \in 1..n : vs[i] = us[i]
  /\ DOMAIN vs[n + 1] = {0} /\ vs[n + 1][0] = s

\* A number not named yet that opens an entry of its own is named once more.
LEMMA OpensOne ==
  ASSUME NEW n \in Nat, NEW us, NEW vs, NEW s,
         Opens(us, vs, n, s), s \notin Named(us), Once(us)
  PROVE  Named(vs) = Named(us) \cup {s} /\ Once(vs)
<1> USE DEF Opens
<1>1. \A i \in 1..(n + 1) : i \in 1..n \/ i = n + 1
  OBVIOUS
<1>2. \A i \in 1..n : i \in 1..(n + 1) /\ i # n + 1
  OBVIOUS
<1>3. n + 1 \in 1..(n + 1)
  OBVIOUS
<1>4. \A i \in 1..n : \A k \in DOMAIN us[i] : us[i][k] \in Named(us)
  BY NamedBy
<1>5. Named(vs) \subseteq Named(us) \cup {s}
  <2> SUFFICES ASSUME NEW i \in 1..(n + 1), NEW k \in DOMAIN vs[i]
               PROVE  vs[i][k] \in Named(us) \cup {s}
    BY NamedBy
  <2> QED
    BY <1>1, <1>4, Zenon
<1>6. Named(us) \cup {s} \subseteq Named(vs)
  <2>1. ASSUME NEW i \in 1..n, NEW k \in DOMAIN us[i]
        PROVE  us[i][k] \in Named(vs)
    <3>1. i \in DOMAIN vs /\ k \in DOMAIN vs[i] /\ vs[i][k] = us[i][k]
      BY <1>2
    <3> QED
      BY <3>1, NamedBy
  <2>2. s \in Named(vs)
    BY <1>3, NamedBy
  <2> QED
    BY <2>1, <2>2, NamedBy
<1>7. Once(vs)
  <2> SUFFICES ASSUME NEW i \in 1..(n + 1), NEW j \in 1..(n + 1),
                      NEW k \in DOMAIN vs[i], NEW l \in DOMAIN vs[j], vs[i][k] = vs[j][l]
               PROVE  i = j /\ k = l
    BY DEF Once
  <2>1. CASE i \in 1..n /\ j \in 1..n
    BY <2>1 DEF Once
  <2>2. CASE i = n + 1 /\ j \in 1..n
    BY <2>2, <1>4, Zenon
  <2>3. CASE j = n + 1 /\ i \in 1..n
    BY <2>3, <1>4, Zenon
  <2>4. CASE i = n + 1 /\ j = n + 1
    BY <2>4, Zenon
  <2> QED
    BY <1>1, <2>1, <2>2, <2>3, <2>4
<1> QED
  BY <1>5, <1>6, <1>7

\* And so is one that joins the last entry at an offset of its own.
LEMMA JoinsOne ==
  ASSUME NEW n \in Nat \ {0}, NEW us, NEW vs, NEW s, NEW o,
         DOMAIN us = 1..n, DOMAIN vs = 1..n, \A i \in 1..(n - 1) : vs[i] = us[i],
         DOMAIN vs[n] = DOMAIN us[n] \cup {o}, o \notin DOMAIN us[n],
         \A k \in DOMAIN us[n] : vs[n][k] = us[n][k], vs[n][o] = s,
         s \notin Named(us), Once(us)
  PROVE  Named(vs) = Named(us) \cup {s} /\ Once(vs)
<1>1. \A i \in 1..n : i \in 1..(n - 1) \/ i = n
  OBVIOUS
<1>2. \A i \in 1..(n - 1) : i \in 1..n /\ i # n
  OBVIOUS
<1>3. n \in 1..n
  OBVIOUS
<1>4. \A i \in 1..n : \A k \in DOMAIN us[i] : us[i][k] \in Named(us)
  BY NamedBy
<1>5. \A i \in 1..n : \A k \in DOMAIN us[i] : k \in DOMAIN vs[i] /\ vs[i][k] = us[i][k]
  BY <1>1, Zenon
<1>6. \A i \in 1..n : \A k \in DOMAIN vs[i] : k \in DOMAIN us[i] \/ (i = n /\ k = o)
  BY <1>1, Zenon
<1>7. Named(vs) \subseteq Named(us) \cup {s}
  <2> SUFFICES ASSUME NEW i \in 1..n, NEW k \in DOMAIN vs[i]
               PROVE  vs[i][k] \in Named(us) \cup {s}
    BY NamedBy
  <2>1. CASE k \in DOMAIN us[i]
    BY <1>4, <1>5, <2>1
  <2>2. CASE i = n /\ k = o
    BY <2>2
  <2> QED
    BY <1>6, <2>1, <2>2
<1>8. Named(us) \cup {s} \subseteq Named(vs)
  <2>1. ASSUME NEW i \in 1..n, NEW k \in DOMAIN us[i]
        PROVE  us[i][k] \in Named(vs)
    <3>1. i \in DOMAIN vs /\ k \in DOMAIN vs[i] /\ vs[i][k] = us[i][k]
      BY <1>5
    <3> QED
      BY <3>1, NamedBy
  <2>2. s \in Named(vs)
    <3>1. n \in DOMAIN vs /\ o \in DOMAIN vs[n]
      BY <1>3
    <3> QED
      BY <3>1, NamedBy
  <2> QED
    BY <2>1, <2>2, NamedBy
<1>9. Once(vs)
  <2> SUFFICES ASSUME NEW i \in 1..n, NEW j \in 1..n,
                      NEW k \in DOMAIN vs[i], NEW l \in DOMAIN vs[j], vs[i][k] = vs[j][l]
               PROVE  i = j /\ k = l
    BY DEF Once
  <2>1. CASE k \in DOMAIN us[i] /\ l \in DOMAIN us[j]
    <3>1. us[i][k] = us[j][l]
      BY <1>5, <2>1
    <3> QED
      BY <2>1, <3>1 DEF Once
  <2>2. CASE i = n /\ k = o /\ l \in DOMAIN us[j]
    BY <1>4, <1>5, <2>2
  <2>3. CASE j = n /\ l = o /\ k \in DOMAIN us[i]
    BY <1>4, <1>5, <2>3
  <2>4. CASE i = n /\ k = o /\ j = n /\ l = o
    BY <2>4
  <2> QED
    BY <1>6, <2>1, <2>2, <2>3, <2>4
<1> QED
  BY <1>7, <1>8, <1>9

\* The entries of a bitmask NACK.
Mask == [pid : SeqNos, blp : SUBSET (1..Bits)]

LEMMA MaskAdded ==
  ASSUME NEW ns \in Seq(Mask), NEW s \in SeqNos
  PROVE  /\ ~(ns # <<>> /\ Joins(ns[Len(ns)], s)) =>
              AddToMasks(ns, s) = Append(ns, [pid |-> s, blp |-> {}])
         /\ ns # <<>> /\ Joins(ns[Len(ns)], s) =>
              /\ Len(ns) \in 1..Len(ns)
              /\ AddToMasks(ns, s) \in Seq(Mask) /\ Len(AddToMasks(ns, s)) = Len(ns)
              /\ \A i \in 1..(Len(ns) - 1) : AddToMasks(ns, s)[i] = ns[i]
              /\ AddToMasks(ns, s)[Len(ns)].pid = ns[Len(ns)].pid
              /\ AddToMasks(ns, s)[Len(ns)].blp
                   = ns[Len(ns)].blp \cup {wrapping_sub(s, ns[Len(ns)].pid)}
<1>1. ~(ns # <<>> /\ Joins(ns[Len(ns)], s)) => AddToMasks(ns, s) = Append(ns, [pid |-> s, blp |-> {}])
  BY DEF AddToMasks
<1>2. ASSUME ns # <<>>, Joins(ns[Len(ns)], s)
      PROVE  /\ Len(ns) \in 1..Len(ns)
             /\ AddToMasks(ns, s) \in Seq(Mask) /\ Len(AddToMasks(ns, s)) = Len(ns)
             /\ \A i \in 1..(Len(ns) - 1) : AddToMasks(ns, s)[i] = ns[i]
             /\ AddToMasks(ns, s)[Len(ns)].pid = ns[Len(ns)].pid
             /\ AddToMasks(ns, s)[Len(ns)].blp
                  = ns[Len(ns)].blp \cup {wrapping_sub(s, ns[Len(ns)].pid)}
  <2>1. PICK n \in Nat : n = Len(ns) /\ n \in 1..n /\ ns \in [1..n -> Mask]
    BY <1>2
  <2>2. PICK e \in Mask : e = ns[n]
    BY <2>1
  <2>3. PICK o \in 1..Bits : o = wrapping_sub(s, e.pid)
    BY <1>2, <2>1, <2>2 DEF Joins
  <2>4. AddToMasks(ns, s) = [ns EXCEPT ![n].blp = @ \cup {o}]
    BY <1>2, <2>1, <2>2, <2>3 DEF AddToMasks
  <2> DEFINE f == [e EXCEPT !.blp = @ \cup {o}]
  <2>5. f \in Mask /\ f.pid = e.pid /\ f.blp = e.blp \cup {o}
    BY <2>2, <2>3 DEF Mask
  <2>6. AddToMasks(ns, s) = [ns EXCEPT ![n] = f]
    BY <2>1, <2>2, <2>4
  <2> HIDE DEF f
  <2>7. AddToMasks(ns, s) \in [1..n -> Mask] /\ AddToMasks(ns, s)[n] = f
    BY <2>1, <2>5, <2>6
  <2>8. AddToMasks(ns, s) \in Seq(Mask) /\ Len(AddToMasks(ns, s)) = n
    BY <2>1, <2>7
  <2>9. \A i \in 1..(n - 1) : i \in 1..n /\ i # n
    OBVIOUS
  <2>10. \A i \in 1..(n - 1) : AddToMasks(ns, s)[i] = ns[i]
    BY <2>1, <2>6, <2>9, Zenon
  <2> QED
    BY <2>1, <2>2, <2>3, <2>5, <2>7, <2>8, <2>10
<1> QED
  BY <1>1, <1>2

LEMMA MaskAddType ==
  ASSUME NEW ns \in Seq(Mask), NEW s \in SeqNos
  PROVE  AddToMasks(ns, s) \in Seq(Mask)
<1>1. [pid |-> s, blp |-> {}] \in Mask
  BY DEF Mask
<1>2. Append(ns, [pid |-> s, blp |-> {}]) \in Seq(Mask)
  BY <1>1
<1> QED
  BY <1>2, MaskAdded

\* wrapping_add takes back what wrapping_sub took away.
LEMMA AddBack ==
  ASSUME NEW a \in SeqNos, NEW b \in SeqNos
  PROVE  wrapping_sub(a, b) \in SeqNos /\ wrapping_add(b, wrapping_sub(a, b)) = a
BY HalfAssumption DEF wrapping_add, wrapping_sub, SeqNos, M

\* The loop over the bits of an entry finds every bit the builder can set.
LEMMA MaskUnpacks ==
  ASSUME NEW n \in Mask
  PROVE  bitmask_lost_seqs(n) = [k \in {0} \cup n.blp |-> wrapping_add(n.pid, k)]
<1>1. n.blp \subseteq 1..Bits
  BY DEF Mask
<1>2. {b \in 1..Bits : b \in n.blp} = n.blp
  BY <1>1, Zenon
<1> QED
  BY <1>2, Zenon DEF bitmask_lost_seqs

\* Unpacking keeps to the entries, and the offsets are those of the bits.
LEMMA UnmaskedIs ==
  ASSUME NEW ns \in Seq(Mask)
  PROVE  /\ DOMAIN Unmasked(ns) = 1..Len(ns)
         /\ \A i \in 1..Len(ns) :
              /\ DOMAIN Unmasked(ns)[i] = {0} \cup ns[i].blp
              /\ \A k \in {0} \cup ns[i].blp : Unmasked(ns)[i][k] = wrapping_add(ns[i].pid, k)
<1>1. \A i \in 1..Len(ns) : ns[i] \in Mask
  OBVIOUS
<1>2. Unmasked(ns) = [i \in 1..Len(ns) |-> bitmask_lost_seqs(ns[i])]
  BY DEF Unmasked
<1>3. \A i \in 1..Len(ns) :
        Unmasked(ns)[i] = [k \in {0} \cup ns[i].blp |-> wrapping_add(ns[i].pid, k)]
  BY <1>1, <1>2, MaskUnpacks, Zenon
<1> QED
  BY <1>2, <1>3, Zenon

\* A turn of build_bitmask names one number more.
LEMMA MaskNames ==
  ASSUME NEW ns \in Seq(Mask), NEW s \in SeqNos, s \notin Named(Unmasked(ns)), Once(Unmasked(ns))
  PROVE  /\ Named(Unmasked(AddToMasks(ns, s))) = Named(Unmasked(ns)) \cup {s}
         /\ Once(Unmasked(AddToMasks(ns, s)))
<1> DEFINE ms == AddToMasks(ns, s)
           us == Unmasked(ns)
           vs == Unmasked(ms)
<1>1. PICK n \in Nat : n = Len(ns) /\ \A i \in 1..n : ns[i] \in Mask
  OBVIOUS
<1>2. /\ DOMAIN us = 1..n
      /\ \A i \in 1..n : /\ DOMAIN us[i] = {0} \cup ns[i].blp
                         /\ \A k \in {0} \cup ns[i].blp : us[i][k] = wrapping_add(ns[i].pid, k)
  BY <1>1, UnmaskedIs
<1>3. us = [i \in 1..n |-> bitmask_lost_seqs(ns[i])]
  BY <1>1 DEF Unmasked
<1>4. CASE ~(ns # <<>> /\ Joins(ns[Len(ns)], s))
  <2> DEFINE e == [pid |-> s, blp |-> {}]
  <2>1. ms = Append(ns, e) /\ e \in Mask
    BY <1>4, MaskAdded, Zenon DEF Mask
  <2>2. Len(ms) = n + 1 /\ (\A i \in 1..n : ms[i] = ns[i]) /\ ms[n + 1] = e
    BY <1>1, <2>1
  <2>3. vs = [i \in 1..(n + 1) |-> bitmask_lost_seqs(ms[i])]
    BY <1>1, <2>1, <2>2 DEF Unmasked
  <2>4. DOMAIN vs = 1..(n + 1) /\ \A i \in 1..n : vs[i] = us[i]
    BY <1>1, <1>3, <2>2, <2>3
  <2>5. vs[n + 1] = [k \in {0} |-> wrapping_add(s, k)]
    <3>1. vs[n + 1] = bitmask_lost_seqs(e)
      BY <1>1, <2>2, <2>3
    <3>2. e.pid = s /\ {0} \cup e.blp = {0}
      OBVIOUS
    <3> HIDE DEF e
    <3> QED
      BY <2>1, <3>1, <3>2, MaskUnpacks, Zenon
  <2>6. wrapping_add(s, 0) = s
    BY HalfAssumption DEF wrapping_add, SeqNos, M
  <2>7. DOMAIN vs[n + 1] = {0} /\ vs[n + 1][0] = s
    BY <2>5, <2>6
  <2> HIDE DEF us, vs
  <2>8. s \notin Named(us) /\ Once(us)
    BY DEF us
  <2>9. Named(vs) = Named(us) \cup {s} /\ Once(vs)
    <3>1. Opens(us, vs, n, s)
      BY <1>2, <2>4, <2>7, Zenon DEF Opens
    <3> QED
      BY <2>8, <3>1, OpensOne, Zenon
  <2> QED
    BY <2>9 DEF us, vs
<1>5. CASE ns # <<>> /\ Joins(ns[Len(ns)], s)
  <2> DEFINE o == wrapping_sub(s, ns[n].pid)
  <2>1. /\ n \in 1..n /\ ms \in Seq(Mask) /\ Len(ms) = n
        /\ \A i \in 1..(n - 1) : ms[i] = ns[i]
        /\ ms[n].pid = ns[n].pid /\ ms[n].blp = ns[n].blp \cup {o}
    BY <1>1, <1>5, MaskAdded, Zenon
  <2>2. o \in 1..Bits /\ ns[n].pid \in SeqNos
    BY <1>1, <1>5, <2>1 DEF Joins, Mask
  <2>3. wrapping_add(ns[n].pid, o) = s
    BY <2>2, AddBack
  <2> HIDE DEF ms
  <2>4. vs = [i \in 1..n |-> bitmask_lost_seqs(ms[i])]
    BY <2>1 DEF Unmasked
  <2>5. DOMAIN vs = 1..n /\ \A i \in 1..(n - 1) : vs[i] = us[i]
    <3>1. \A i \in 1..(n - 1) : i \in 1..n
      BY <2>1
    <3> QED
      BY <1>3, <2>1, <2>4, <3>1
  <2>6. vs[n] = [k \in {0} \cup ms[n].blp |-> wrapping_add(ms[n].pid, k)]
    <3>1. ms[n] \in Mask /\ vs[n] = bitmask_lost_seqs(ms[n])
      BY <2>1, <2>4
    <3> QED
      BY <3>1, MaskUnpacks, Zenon
  <2>7. DOMAIN us[n] = {0} \cup ns[n].blp /\ \A k \in DOMAIN us[n] : us[n][k] = wrapping_add(ns[n].pid, k)
    BY <1>2, <2>1, ZenonT(30)
  <2> HIDE DEF o
  <2>8. DOMAIN vs[n] = DOMAIN us[n] \cup {o}
    BY <2>1, <2>6, <2>7
  <2>9. (\A k \in DOMAIN us[n] : vs[n][k] = us[n][k]) /\ vs[n][o] = s
    BY <2>1, <2>3, <2>6, <2>7, <2>8
  <2> HIDE DEF us, vs
  <2>10. s \notin Named(us) /\ Once(us)
    BY DEF us
  <2>11. o \notin DOMAIN us[n]
    <3>1. SUFFICES ASSUME o \in DOMAIN us[n]
                   PROVE  FALSE
      OBVIOUS
    <3>2. us[n][o] = s
      BY <2>3, <2>7, <3>1
    <3> QED
      BY <1>2, <2>1, <2>10, <3>1, <3>2, NamedBy
  <2>12. n \in Nat \ {0}
    BY <2>1
  <2>13. Named(vs) = Named(us) \cup {s} /\ Once(vs)
    BY <1>2, <2>5, <2>8, <2>9, <2>10, <2>11, <2>12, JoinsOne
  <2> QED
    BY <2>13 DEF us, vs, ms
<1> QED
  BY <1>4, <1>5

\* The entries of a range NACK.
Span == [start : SeqNos, extra : Nat]

LEMMA RangeAdded ==
  ASSUME NEW ns \in Seq(Span), NEW s \in SeqNos
  PROVE  /\ ~(ns # <<>> /\ Extends(ns[Len(ns)], s)) =>
              AddToRanges(ns, s) = Append(ns, [start |-> s, extra |-> 0])
         /\ ns # <<>> /\ Extends(ns[Len(ns)], s) =>
              /\ Len(ns) \in 1..Len(ns)
              /\ AddToRanges(ns, s) \in Seq(Span) /\ Len(AddToRanges(ns, s)) = Len(ns)
              /\ \A i \in 1..(Len(ns) - 1) : AddToRanges(ns, s)[i] = ns[i]
              /\ AddToRanges(ns, s)[Len(ns)].start = ns[Len(ns)].start
              /\ AddToRanges(ns, s)[Len(ns)].extra = ns[Len(ns)].extra + 1
<1>1. ~(ns # <<>> /\ Extends(ns[Len(ns)], s)) =>
        AddToRanges(ns, s) = Append(ns, [start |-> s, extra |-> 0])
  BY DEF AddToRanges
<1>2. ASSUME ns # <<>>, Extends(ns[Len(ns)], s)
      PROVE  /\ Len(ns) \in 1..Len(ns)
             /\ AddToRanges(ns, s) \in Seq(Span) /\ Len(AddToRanges(ns, s)) = Len(ns)
             /\ \A i \in 1..(Len(ns) - 1) : AddToRanges(ns, s)[i] = ns[i]
             /\ AddToRanges(ns, s)[Len(ns)].start = ns[Len(ns)].start
             /\ AddToRanges(ns, s)[Len(ns)].extra = ns[Len(ns)].extra + 1
  <2>1. PICK n \in Nat : n = Len(ns) /\ n \in 1..n /\ ns \in [1..n -> Span]
    BY <1>2
  <2>2. PICK e \in Span : e = ns[n]
    BY <2>1
  <2>3. AddToRanges(ns, s) = [ns EXCEPT ![n].extra = @ + 1]
    BY <1>2, <2>1, <2>2 DEF AddToRanges
  <2> DEFINE f == [e EXCEPT !.extra = @ + 1]
  <2>4. f \in Span /\ f.start = e.start /\ f.extra = e.extra + 1
    BY <2>2 DEF Span
  <2>5. AddToRanges(ns, s) = [ns EXCEPT ![n] = f]
    BY <2>1, <2>2, <2>3
  <2> HIDE DEF f
  <2>6. AddToRanges(ns, s) \in [1..n -> Span] /\ AddToRanges(ns, s)[n] = f
    BY <2>1, <2>4, <2>5, Zenon
  <2>7. AddToRanges(ns, s) \in Seq(Span) /\ Len(AddToRanges(ns, s)) = n
    BY <2>1, <2>6
  <2>8. \A i \in 1..(n - 1) : i \in 1..n /\ i # n
    OBVIOUS
  <2>9. \A i \in 1..(n - 1) : AddToRanges(ns, s)[i] = ns[i]
    BY <2>1, <2>5, <2>8, Zenon
  <2> QED
    BY <2>1, <2>2, <2>4, <2>6, <2>7, <2>9
<1> QED
  BY <1>1, <1>2

LEMMA RangeAddType ==
  ASSUME NEW ns \in Seq(Span), NEW s \in SeqNos
  PROVE  AddToRanges(ns, s) \in Seq(Span)
<1>1. [start |-> s, extra |-> 0] \in Span
  BY DEF Span
<1>2. Append(ns, [start |-> s, extra |-> 0]) \in Seq(Span)
  BY <1>1
<1> QED
  BY <1>2, RangeAdded

\* A turn of build_range names one number more.
LEMMA RangeNames ==
  ASSUME NEW ns \in Seq(Span), NEW s \in SeqNos,
         s \notin Named(Unranged(ns)), Once(Unranged(ns))
  PROVE  /\ Named(Unranged(AddToRanges(ns, s))) = Named(Unranged(ns)) \cup {s}
         /\ Once(Unranged(AddToRanges(ns, s)))
<1> DEFINE ms == AddToRanges(ns, s)
           us == Unranged(ns)
           vs == Unranged(ms)
<1>1. PICK n \in Nat : n = Len(ns) /\ \A i \in 1..n : ns[i] \in Span
  OBVIOUS
<1>2. us = [i \in 1..n |-> range_lost_seqs(ns[i])]
  BY <1>1 DEF Unranged
<1>3. DOMAIN us = 1..n
  BY <1>2
<1>4. CASE ~(ns # <<>> /\ Extends(ns[Len(ns)], s))
  <2> DEFINE e == [start |-> s, extra |-> 0]
  <2>1. ms = Append(ns, e) /\ e \in Span
    BY <1>4, RangeAdded, Zenon DEF Span
  <2>2. Len(ms) = n + 1 /\ (\A i \in 1..n : ms[i] = ns[i]) /\ ms[n + 1] = e
    BY <1>1, <2>1
  <2>3. vs = [i \in 1..(n + 1) |-> range_lost_seqs(ms[i])]
    BY <1>1, <2>1, <2>2 DEF Unranged
  <2>4. DOMAIN vs = 1..(n + 1) /\ \A i \in 1..n : vs[i] = us[i]
    BY <1>1, <1>2, <2>2, <2>3
  <2>5. vs[n + 1] = [k \in 0..0 |-> wrapping_add(s, k)]
    <3>1. vs[n + 1] = range_lost_seqs(e)
      BY <1>1, <2>2, <2>3
    <3> QED
      BY <3>1 DEF range_lost_seqs
  <2>6. wrapping_add(s, 0) = s
    BY HalfAssumption DEF wrapping_add, SeqNos, M
  <2>7. DOMAIN vs[n + 1] = {0} /\ vs[n + 1][0] = s
    BY <2>5, <2>6
  <2>8. s \notin Named(us) /\ Once(us)
    OBVIOUS
  <2> HIDE DEF e, ms, us, vs
  <2>9. Named(vs) = Named(us) \cup {s} /\ Once(vs)
    <3>1. Opens(us, vs, n, s)
      BY <1>3, <2>4, <2>7, Zenon DEF Opens
    <3> QED
      BY <2>8, <3>1, OpensOne, Zenon
  <2> QED
    BY <2>9, Zenon DEF us, vs, ms
<1>5. CASE ns # <<>> /\ Extends(ns[Len(ns)], s)
  <2>1. /\ n \in 1..n /\ ms \in Seq(Span) /\ Len(ms) = n
        /\ \A i \in 1..(n - 1) : ms[i] = ns[i]
        /\ ms[n].start = ns[n].start /\ ms[n].extra = ns[n].extra + 1
    BY <1>1, <1>5, RangeAdded, Zenon
  <2>2. PICK x \in Nat, a \in SeqNos : x = ns[n].extra /\ a = ns[n].start
    BY <1>1, <2>1 DEF Span
  <2>3. wrapping_add(a, x + 1) = s
    BY <1>1, <1>5, <2>2 DEF Extends
  <2> HIDE DEF ms
  <2>4. vs = [i \in 1..n |-> range_lost_seqs(ms[i])]
    BY <2>1 DEF Unranged
  <2>5. DOMAIN vs = 1..n /\ \A i \in 1..(n - 1) : vs[i] = us[i]
    <3>1. \A i \in 1..(n - 1) : i \in 1..n
      OBVIOUS
    <3> QED
      BY <1>2, <2>1, <2>4, <3>1
  <2>6. vs[n] = [k \in 0..(x + 1) |-> wrapping_add(a, k)]
    BY <2>1, <2>2, <2>4 DEF range_lost_seqs
  <2>7. us[n] = [k \in 0..x |-> wrapping_add(a, k)]
    BY <1>2, <2>1, <2>2 DEF range_lost_seqs
  <2>8. 0..(x + 1) = (0..x) \cup {x + 1} /\ x + 1 \notin 0..x
    BY <2>2
  <2>9. DOMAIN vs[n] = DOMAIN us[n] \cup {x + 1} /\ x + 1 \notin DOMAIN us[n]
    BY <2>6, <2>7, <2>8
  <2>10. (\A k \in DOMAIN us[n] : vs[n][k] = us[n][k]) /\ vs[n][x + 1] = s
    BY <2>3, <2>6, <2>7, <2>8
  <2> HIDE DEF us, vs
  <2>11. s \notin Named(us) /\ Once(us)
    BY DEF us
  <2>12. n \in Nat \ {0}
    BY <2>1
  <2>13. Named(vs) = Named(us) \cup {s} /\ Once(vs)
    BY <1>3, <2>5, <2>9, <2>10, <2>11, <2>12, JoinsOne
  <2> QED
    BY <2>13 DEF us, vs, ms
<1> QED
  BY <1>4, <1>5

\* build_bitmask comes to its entries turn by turn.
LEMMA MaskLoop ==
  ASSUME NEW seqs \in Seq(SeqNos)
  PROVE  \E f \in [0..Len(seqs) -> Seq(Mask)] :
           /\ f[0] = <<>>
           /\ \A k \in 1..Len(seqs) : f[k] = AddToMasks(f[k - 1], seqs[k])
           /\ build_bitmask(seqs) = f[Len(seqs)]
<1> DEFINE N == Len(seqs)
           W == Seq(Mask)
           Is(f) == f = [k \in 0..N |-> IF k = 0 THEN <<>> ELSE AddToMasks(f[k - 1], seqs[k])]
           packed == CHOOSE f : Is(f)
           F == [k \in 1..N |-> [w \in W |-> AddToMasks(w, seqs[k])]]
<1>1. build_bitmask(seqs) = packed[N]
  BY DEF build_bitmask
<1>2. N \in Nat /\ (\A k \in 1..N : seqs[k] \in SeqNos) /\ <<>> \in W
  OBVIOUS
<1>3. \A w \in W, k \in 1..N : AddToMasks(w, seqs[k]) \in W
  BY <1>2, MaskAddType, Zenon
<1> HIDE DEF N, W
<1>4. F \in [1..N -> [W -> W]]
  BY <1>3
<1> HIDE DEF F
<1>5. PICK f : LoopRuns(f, N, W, <<>>, F)
  BY <1>2, <1>4, LoopExists
<1>6. f \in [0..N -> W] /\ f[0] = <<>> /\ \A k \in 1..N : f[k] = F[k][f[k - 1]]
  BY <1>5 DEF LoopRuns
<1>7. Is(f)
  <2>1. ASSUME NEW k \in 0..N
        PROVE  f[k] = IF k = 0 THEN <<>> ELSE AddToMasks(f[k - 1], seqs[k])
    <3>1. CASE k # 0
      <4>1. k \in 1..N /\ k - 1 \in 0..N
        BY <1>2, <3>1
      <4>2. f[k - 1] \in W
        BY <1>6, <4>1
      <4>3. f[k] = F[k][f[k - 1]]
        BY <1>6, <4>1
      <4>4. F[k][f[k - 1]] = AddToMasks(f[k - 1], seqs[k])
        BY <4>1, <4>2 DEF F
      <4> QED
        BY <3>1, <4>3, <4>4
    <3> QED
      BY <1>6, <3>1
  <2> QED
    BY <1>6, <2>1
<1> HIDE DEF Is
<1>8. Is(packed)
  BY <1>7
<1> HIDE DEF packed
<1>9. packed[0] = <<>>
  BY <1>2, <1>8 DEF Is
<1>10. ASSUME NEW k \in 1..N
       PROVE  packed[k] = AddToMasks(packed[k - 1], seqs[k])
  <2>1. k \in 0..N /\ k # 0
    BY <1>2
  <2> QED
    BY <1>8, <2>1, Zenon DEF Is
<1> DEFINE S == {k \in 0..N : packed[k] \in W}
<1>11. 0 \in S
  BY <1>2, <1>9
<1>12. ASSUME NEW k \in 0..(N - 1), k \in S
       PROVE  k + 1 \in S
  <2>1. k + 1 \in 1..N /\ k + 1 \in 0..N /\ (k + 1) - 1 = k
    BY <1>2
  <2>2. packed[k + 1] = AddToMasks(packed[k], seqs[k + 1])
    BY <1>10, <2>1
  <2> QED
    BY <1>3, <1>12, <2>1, <2>2
<1> HIDE DEF S
<1>13. 0..N \subseteq S
  BY <1>2, <1>11, <1>12, UpTo, Zenon
<1>14. \A k \in 0..N : packed[k] \in W
  BY <1>13 DEF S
<1>15. packed = [k \in 0..N |-> packed[k]]
  BY <1>8 DEF Is
<1>16. packed \in [0..N -> W]
  BY <1>14, <1>15
<1> QED
  BY <1>1, <1>9, <1>10, <1>16 DEF N, W

\* build_range comes to its entries turn by turn.
LEMMA RangeLoop ==
  ASSUME NEW seqs \in Seq(SeqNos)
  PROVE  \E f \in [0..Len(seqs) -> Seq(Span)] :
           /\ f[0] = <<>>
           /\ \A k \in 1..Len(seqs) : f[k] = AddToRanges(f[k - 1], seqs[k])
           /\ build_range(seqs) = f[Len(seqs)]
<1> DEFINE N == Len(seqs)
           W == Seq(Span)
           Is(f) == f = [k \in 0..N |-> IF k = 0 THEN <<>> ELSE AddToRanges(f[k - 1], seqs[k])]
           packed == CHOOSE f : Is(f)
           F == [k \in 1..N |-> [w \in W |-> AddToRanges(w, seqs[k])]]
<1>1. build_range(seqs) = packed[N]
  BY DEF build_range
<1>2. N \in Nat /\ (\A k \in 1..N : seqs[k] \in SeqNos) /\ <<>> \in W
  OBVIOUS
<1>3. \A w \in W, k \in 1..N : AddToRanges(w, seqs[k]) \in W
  BY <1>2, RangeAddType, Zenon
<1> HIDE DEF N, W
<1>4. F \in [1..N -> [W -> W]]
  BY <1>3
<1> HIDE DEF F
<1>5. PICK f : LoopRuns(f, N, W, <<>>, F)
  BY <1>2, <1>4, LoopExists
<1>6. f \in [0..N -> W] /\ f[0] = <<>> /\ \A k \in 1..N : f[k] = F[k][f[k - 1]]
  BY <1>5 DEF LoopRuns
<1>7. Is(f)
  <2>1. ASSUME NEW k \in 0..N
        PROVE  f[k] = IF k = 0 THEN <<>> ELSE AddToRanges(f[k - 1], seqs[k])
    <3>1. CASE k # 0
      <4>1. k \in 1..N /\ k - 1 \in 0..N
        BY <1>2, <3>1
      <4>2. f[k - 1] \in W
        BY <1>6, <4>1
      <4>3. f[k] = F[k][f[k - 1]]
        BY <1>6, <4>1
      <4>4. F[k][f[k - 1]] = AddToRanges(f[k - 1], seqs[k])
        BY <4>1, <4>2 DEF F
      <4> QED
        BY <3>1, <4>3, <4>4
    <3> QED
      BY <1>6, <3>1
  <2> QED
    BY <1>6, <2>1
<1> HIDE DEF Is
<1>8. Is(packed)
  BY <1>7
<1> HIDE DEF packed
<1>9. packed[0] = <<>>
  BY <1>2, <1>8 DEF Is
<1>10. ASSUME NEW k \in 1..N
       PROVE  packed[k] = AddToRanges(packed[k - 1], seqs[k])
  <2>1. k \in 0..N /\ k # 0
    BY <1>2
  <2> QED
    BY <1>8, <2>1, Zenon DEF Is
<1> DEFINE S == {k \in 0..N : packed[k] \in W}
<1>11. 0 \in S
  BY <1>2, <1>9
<1>12. ASSUME NEW k \in 0..(N - 1), k \in S
       PROVE  k + 1 \in S
  <2>1. k + 1 \in 1..N /\ k + 1 \in 0..N /\ (k + 1) - 1 = k
    BY <1>2
  <2>2. packed[k + 1] = AddToRanges(packed[k], seqs[k + 1])
    BY <1>10, <2>1
  <2> QED
    BY <1>3, <1>12, <2>1, <2>2
<1> HIDE DEF S
<1>13. 0..N \subseteq S
  BY <1>2, <1>11, <1>12, UpTo, Zenon
<1>14. \A k \in 0..N : packed[k] \in W
  BY <1>13 DEF S
<1>15. packed = [k \in 0..N |-> packed[k]]
  BY <1>8 DEF Is
<1>16. packed \in [0..N -> W]
  BY <1>14, <1>15
<1> QED
  BY <1>1, <1>9, <1>10, <1>16 DEF N, W

\* The entries of build_bitmask name the list, each number once.
LEMMA MasksNameAll ==
  ASSUME ListTypeOK
  PROVE  NamesAll(Unmasked(build_bitmask(lost)))
<1>1. PICK N \in Nat : N = Len(lost) /\ lost \in [1..N -> SeqNos] /\ lost \in Seq(SeqNos)
  BY DEF ListTypeOK
<1>2. PICK f \in [0..N -> Seq(Mask)] :
         /\ f[0] = <<>>
         /\ \A k \in 1..N : f[k] = AddToMasks(f[k - 1], lost[k])
         /\ build_bitmask(lost) = f[N]
  BY <1>1, MaskLoop
<1> DEFINE Upto(k) == {lost[i] : i \in 1..k}
           S == {k \in 0..N : Named(Unmasked(f[k])) = Upto(k) /\ Once(Unmasked(f[k]))}
<1>3. 0 \in S
  <2>1. DOMAIN Unmasked(<<>>) = {}
    BY DEF Unmasked
  <2>2. Named(Unmasked(<<>>)) = {} /\ Once(Unmasked(<<>>))
    BY <2>1 DEF Named, Once
  <2>3. Upto(0) = {}
    OBVIOUS
  <2> QED
    BY <1>2, <2>2, <2>3
<1>4. ASSUME NEW k \in 0..(N - 1), k \in S
      PROVE  k + 1 \in S
  <2>1. k + 1 \in 1..N /\ k + 1 \in 0..N /\ (k + 1) - 1 = k /\ k \in 0..N
    OBVIOUS
  <2>2. f[k + 1] = AddToMasks(f[k], lost[k + 1]) /\ f[k] \in Seq(Mask) /\ lost[k + 1] \in SeqNos
    BY <1>1, <1>2, <2>1
  <2>3. Named(Unmasked(f[k])) = Upto(k) /\ Once(Unmasked(f[k]))
    BY <1>4
  <2>4. lost[k + 1] \notin Upto(k)
    <3>1. \A i \in 1..k : i \in 1..N /\ i # k + 1
      BY <2>1
    <3> QED
      BY <1>1, <2>1, <3>1 DEF ListTypeOK
  <2>5. /\ Named(Unmasked(f[k + 1])) = Upto(k) \cup {lost[k + 1]}
        /\ Once(Unmasked(f[k + 1]))
    BY <2>2, <2>3, <2>4, MaskNames, Zenon
  <2>6. 1..(k + 1) = (1..k) \cup {k + 1}
    BY <2>1
  <2>7. Upto(k + 1) = Upto(k) \cup {lost[k + 1]}
    BY <2>6
  <2> QED
    BY <2>1, <2>5, <2>7, Zenon
<1> HIDE DEF S
<1>5. 0..N \subseteq S
  BY <1>3, <1>4, UpTo, ZenonT(30)
<1>6. N \in S
  BY <1>5
<1>7. Upto(N) = Listed
  BY <1>1, ZenonT(60) DEF Listed
<1> QED
  BY <1>2, <1>6, <1>7, Zenon DEF S, NamesAll

\* The entries of build_range name the list, each number once.
LEMMA RangesNameAll ==
  ASSUME ListTypeOK
  PROVE  NamesAll(Unranged(build_range(lost)))
<1>1. PICK N \in Nat : N = Len(lost) /\ lost \in [1..N -> SeqNos] /\ lost \in Seq(SeqNos)
  BY DEF ListTypeOK
<1>2. PICK f \in [0..N -> Seq(Span)] :
         /\ f[0] = <<>>
         /\ \A k \in 1..N : f[k] = AddToRanges(f[k - 1], lost[k])
         /\ build_range(lost) = f[N]
  BY <1>1, RangeLoop
<1> DEFINE Upto(k) == {lost[i] : i \in 1..k}
           S == {k \in 0..N : Named(Unranged(f[k])) = Upto(k) /\ Once(Unranged(f[k]))}
<1>3. 0 \in S
  <2>1. DOMAIN Unranged(<<>>) = {}
    BY DEF Unranged
  <2>2. Named(Unranged(<<>>)) = {} /\ Once(Unranged(<<>>))
    BY <2>1 DEF Named, Once
  <2>3. Upto(0) = {}
    OBVIOUS
  <2> QED
    BY <1>2, <2>2, <2>3
<1>4. ASSUME NEW k \in 0..(N - 1), k \in S
      PROVE  k + 1 \in S
  <2>1. k + 1 \in 1..N /\ k + 1 \in 0..N /\ (k + 1) - 1 = k /\ k \in 0..N
    OBVIOUS
  <2>2. f[k + 1] = AddToRanges(f[k], lost[k + 1]) /\ f[k] \in Seq(Span) /\ lost[k + 1] \in SeqNos
    BY <1>1, <1>2, <2>1
  <2>3. Named(Unranged(f[k])) = Upto(k) /\ Once(Unranged(f[k]))
    BY <1>4
  <2>4. lost[k + 1] \notin Upto(k)
    <3>1. \A i \in 1..k : i \in 1..N /\ i # k + 1
      BY <2>1
    <3> QED
      BY <1>1, <2>1, <3>1 DEF ListTypeOK
  <2>5. /\ Named(Unranged(f[k + 1])) = Upto(k) \cup {lost[k + 1]}
        /\ Once(Unranged(f[k + 1]))
    BY <2>2, <2>3, <2>4, RangeNames, Zenon
  <2>6. 1..(k + 1) = (1..k) \cup {k + 1}
    BY <2>1
  <2>7. Upto(k + 1) = Upto(k) \cup {lost[k + 1]}
    BY <2>6
  <2> QED
    BY <2>1, <2>5, <2>7, Zenon
<1> HIDE DEF S
<1>5. 0..N \subseteq S
  BY <1>3, <1>4, UpTo, Zenon
<1>6. N \in S
  BY <1>5
<1>7. Upto(N) = Listed
  BY <1>1 DEF Listed
<1> QED
  BY <1>2, <1>6, <1>7, Zenon DEF S, NamesAll

\* The entries of a sorted list are more than the bits of a mask apart.
Spaced(ns) ==
  \A i, j \in 1..Len(ns) : i <= j => ns[j].pid >= ns[i].pid + (j - i) * (Bits + 1)

LEMMA OneMoreGap ==
  ASSUME NEW c \in Nat, NEW d \in Nat
  PROVE  (d + 1) * c = d * c + c /\ d * c \in Nat
OBVIOUS

LEMMA GapAfterGap ==
  ASSUME NEW s \in Nat, NEW q \in Nat, NEW p \in Nat, NEW g \in Nat, NEW b \in Nat,
         s >= q + (b + 1), q >= p + g
  PROVE  s >= p + (g + (b + 1))
OBVIOUS

LEMMA MaskSpaced ==
  ASSUME NEW ns \in Seq(Mask), NEW s \in SeqNos, Spaced(ns), \A i \in 1..Len(ns) : ns[i].pid < s
  PROVE  /\ Spaced(AddToMasks(ns, s))
         /\ \A i \in 1..Len(AddToMasks(ns, s)) : AddToMasks(ns, s)[i].pid <= s
<1> DEFINE ms == AddToMasks(ns, s)
<1>1. PICK n \in Nat : n = Len(ns) /\ \A i \in 1..n : ns[i] \in Mask
  OBVIOUS
<1>2. \A i \in 1..n : ns[i].pid \in Nat
  BY <1>1, HalfAssumption DEF Mask, SeqNos, M
<1>3. s \in Nat /\ Bits \in Nat
  BY HalfAssumption, NackFormatAssumption DEF SeqNos, M
<1>4. CASE ns # <<>> /\ Joins(ns[Len(ns)], s)
  <2>1. /\ n \in 1..n /\ ms \in Seq(Mask) /\ Len(ms) = n
        /\ \A i \in 1..(n - 1) : ms[i] = ns[i]
        /\ ms[n].pid = ns[n].pid
    BY <1>1, <1>4, MaskAdded, Zenon
  <2> HIDE DEF ms
  <2>2. \A i \in 1..n : i \in 1..(n - 1) \/ i = n
    OBVIOUS
  <2>3. \A i \in 1..n : ms[i].pid = ns[i].pid
    BY <2>1, <2>2
  <2>4. Spaced(ms)
    BY <1>1, <2>1, <2>3, Zenon DEF Spaced
  <2>5. \A i \in 1..n : ms[i].pid <= s
    BY <1>1, <1>2, <1>3, <2>3
  <2> QED
    BY <2>1, <2>4, <2>5 DEF ms
<1>5. CASE ~(ns # <<>> /\ Joins(ns[Len(ns)], s))
  <2> DEFINE e == [pid |-> s, blp |-> {}]
  <2>1. ms = Append(ns, e) /\ e.pid = s
    BY <1>5, MaskAdded
  <2>2. Len(ms) = n + 1 /\ (\A i \in 1..n : ms[i].pid = ns[i].pid) /\ ms[n + 1].pid = s
    BY <1>1, <2>1
  <2> HIDE DEF ms, e
  <2>3. \A i \in 1..(n + 1) : i \in 1..n \/ i = n + 1
    OBVIOUS
  <2>4. \A i \in 1..(n + 1) : ms[i].pid <= s
    BY <1>1, <1>2, <1>3, <2>2, <2>3
  <2>5. ASSUME NEW i \in 1..n
        PROVE  s >= ns[i].pid + ((n + 1) - i) * (Bits + 1)
    <3>1. n \in 1..n /\ ns # <<>> /\ n - i \in Nat
      BY <1>1, <2>5
    <3>2. PICK p \in Nat, q \in Nat : p = ns[i].pid /\ q = ns[n].pid
      BY <1>2, <3>1
    <3>3. q < s /\ ~(wrapping_sub(s, q) \in 1..Bits)
      BY <1>1, <1>5, <3>1, <3>2 DEF Joins
    <3>4. s - q \notin 1..Bits /\ s - q > 0
      BY <1>3, <3>2, <3>3 DEF wrapping_sub
    <3>5. s >= q + (Bits + 1)
      <4>1. PICK d \in Nat : d = s - q /\ d > 0 /\ d \notin 1..Bits
        BY <1>3, <3>2, <3>4
      <4>2. d > Bits
        BY <1>3, <4>1
      <4> QED
        BY <1>3, <3>2, <4>1, <4>2
    <3>6. q >= p + (n - i) * (Bits + 1)
      BY <1>1, <3>1, <3>2 DEF Spaced
    <3>7. PICK g \in Nat : g = (n - i) * (Bits + 1) /\ ((n - i) + 1) * (Bits + 1) = g + (Bits + 1)
      BY <1>3, <3>1, OneMoreGap
    <3>8. (n + 1) - i = (n - i) + 1
      BY <3>1
    <3>9. q >= p + g
      BY <3>6, <3>7
    <3>10. s >= p + (g + (Bits + 1))
      BY <1>3, <3>5, <3>9, GapAfterGap
    <3> QED
      BY <3>2, <3>7, <3>8, <3>10
  <2>6. ASSUME NEW i \in 1..(n + 1), NEW j \in 1..(n + 1), i <= j
        PROVE  ms[j].pid >= ms[i].pid + (j - i) * (Bits + 1)
    <3>1. CASE j \in 1..n
      <4>1. i \in 1..n
        BY <2>6, <3>1
      <4> QED
        BY <1>1, <2>2, <2>6, <3>1, <4>1 DEF Spaced
    <3>2. CASE j = n + 1 /\ i \in 1..n
      BY <2>2, <2>5, <3>2
    <3>3. CASE j = n + 1 /\ i = n + 1
      <4>1. (j - i) * (Bits + 1) = 0
        BY <1>3, <3>3
      <4> QED
        BY <1>3, <2>2, <3>3, <4>1
    <3> QED
      BY <2>3, <3>1, <3>2, <3>3
  <2>7. Spaced(ms)
    BY <2>2, <2>6 DEF Spaced
  <2> QED
    BY <2>2, <2>4, <2>7 DEF ms
<1> QED
  BY <1>4, <1>5

LEMMA MasksSpaced ==
  ASSUME ListTypeOK, Sorted
  PROVE  /\ build_bitmask(lost) \in Seq(Mask)
         /\ Spaced(build_bitmask(lost))
         /\ \A i \in 1..Len(build_bitmask(lost)) : build_bitmask(lost)[i].pid \in Listed
<1>1. PICK N \in Nat : N = Len(lost) /\ lost \in [1..N -> SeqNos] /\ lost \in Seq(SeqNos)
  BY DEF ListTypeOK
<1>2. PICK f \in [0..N -> Seq(Mask)] :
         /\ f[0] = <<>>
         /\ \A k \in 1..N : f[k] = AddToMasks(f[k - 1], lost[k])
         /\ build_bitmask(lost) = f[N]
  BY <1>1, MaskLoop
<1> DEFINE Below(ns, k) == \A i \in 1..Len(ns), m \in 1..N : m > k => ns[i].pid < lost[m]
           S == {k \in 0..N : Spaced(f[k]) /\ Below(f[k], k)}
<1>3. 0 \in S
  <2>1. Len(f[0]) = 0
    BY <1>2
  <2> QED
    BY <2>1 DEF Spaced
<1>4. ASSUME NEW k \in 0..(N - 1), k \in S
      PROVE  k + 1 \in S
  <2>1. k + 1 \in 1..N /\ k + 1 \in 0..N /\ (k + 1) - 1 = k /\ k \in 0..N
    OBVIOUS
  <2>2. f[k + 1] = AddToMasks(f[k], lost[k + 1]) /\ f[k] \in Seq(Mask) /\ lost[k + 1] \in SeqNos
    BY <1>1, <1>2, <2>1
  <2>3. Spaced(f[k]) /\ Below(f[k], k)
    BY <1>4
  <2>4. \A i \in 1..Len(f[k]) : f[k][i].pid < lost[k + 1]
    BY <2>1, <2>3
  <2>5. Spaced(f[k + 1]) /\ \A i \in 1..Len(f[k + 1]) : f[k + 1][i].pid <= lost[k + 1]
    BY <2>2, <2>3, <2>4, MaskSpaced, Zenon
  <2>6. f[k + 1] \in Seq(Mask)
    BY <1>2, <2>1
  <2>7. ASSUME NEW i \in 1..Len(f[k + 1]), NEW m \in 1..N, m > k + 1
        PROVE  f[k + 1][i].pid < lost[m]
    <3>1. lost[k + 1] < lost[m]
      BY <1>1, <2>1, <2>7 DEF Sorted
    <3>2. PICK a \in Nat, b \in Nat, c \in Nat : a = f[k + 1][i].pid /\ b = lost[k + 1] /\ c = lost[m]
      <4>1. f[k + 1][i].pid \in SeqNos
        <5>1. f[k + 1][i] \in Mask
          BY <2>6
        <5> QED
          BY <5>1 DEF Mask
      <4>2. lost[m] \in SeqNos
        BY <1>1
      <4> QED
        BY <2>2, <4>1, <4>2, HalfAssumption, SMTT(30) DEF SeqNos, M
    <3>3. a <= b /\ b < c
      BY <2>5, <3>1, <3>2
    <3> QED
      BY <3>2, <3>3, SMTT(30)
  <2> QED
    BY <2>1, <2>5, <2>7
<1> HIDE DEF S
<1>5. 0..N \subseteq S
  BY <1>3, <1>4, UpTo, Zenon
<1>6. N \in S
  BY <1>5
<1>7. Spaced(build_bitmask(lost)) /\ build_bitmask(lost) \in Seq(Mask)
  BY <1>2, <1>6 DEF S
<1>8. ASSUME NEW i \in 1..Len(build_bitmask(lost))
      PROVE  build_bitmask(lost)[i].pid \in Listed
  <2> DEFINE ns == build_bitmask(lost)
             us == Unmasked(ns)
  <2>1. DOMAIN us = 1..Len(ns) /\ 0 \in DOMAIN us[i] /\ us[i][0] = wrapping_add(ns[i].pid, 0)
    BY <1>7, UnmaskedIs
  <2>2. ns[i].pid \in SeqNos
    <3>1. ns[i] \in Mask
      BY <1>7
    <3> QED
      BY <3>1 DEF Mask
  <2>3. wrapping_add(ns[i].pid, 0) = ns[i].pid
    BY <2>2, HalfAssumption DEF wrapping_add, SeqNos, M
  <2>4. Named(us) = Listed
    BY MasksNameAll DEF NamesAll
  <2> HIDE DEF us, ns
  <2>5. ns[i].pid \in Listed
    BY <2>1, <2>3, <2>4, NamedBy DEF ns
  <2> QED
    BY <2>5 DEF ns
<1> QED
  BY <1>7, <1>8

LEMMA GapMonotone ==
  ASSUME NEW c \in Nat \ {0}, NEW d \in Nat, NEW e \in Nat, d <= e
  PROVE  d * c <= e * c
OBVIOUS

\* So many gaps as fit a span.
LEMMA GapsFit ==
  ASSUME NEW c \in Nat \ {0}, NEW d \in Nat, NEW x \in Nat, d * c <= x
  PROVE  d <= x \div c
<1>1. PICK q \in Nat, r \in 0..(c - 1) : x = c * q + r /\ q = x \div c
  BY ModRange
<1>2. SUFFICES ASSUME q + 1 <= d
               PROVE  FALSE
  BY <1>1
<1>3. (q + 1) * c <= d * c
  BY <1>2, GapMonotone
<1>4. (q + 1) * c = c * q + c
  OBVIOUS
<1>5. PICK y \in Nat, z \in Nat : y = c * q /\ z = d * c
  OBVIOUS
<1>6. y + c <= z /\ z <= y + r
  BY <1>1, <1>3, <1>4, <1>5
<1> QED
  BY <1>6

\* Numbers with a gap c between neighbours, all in a span of T numbers that may
\* wrap: those before the wrap and those after it take a gap less than they are.
LEMMA SpacedCount ==
  ASSUME NEW n \in Nat, NEW c \in Nat \ {0}, NEW T \in 2..M, NEW a \in SeqNos,
         NEW p \in [1..n -> SeqNos],
         \A i, j \in 1..n : i <= j => p[j] >= p[i] + (j - i) * c,
         \A i \in 1..n : wrapping_sub(p[i], a) < T
  PROVE  n <= (T - 2) \div c + 2
<1>1. /\ a \in Nat /\ M \in Nat /\ T \in Nat /\ T - 2 \in Nat /\ a < M
      /\ \A i \in 1..n : p[i] \in Nat /\ p[i] < M
  BY HalfAssumption DEF SeqNos, M
<1>2. \A i \in 1..n : IF p[i] >= a THEN p[i] - a < T ELSE p[i] - a + M < T
  BY DEF wrapping_sub
<1>3. (T - 2) \div c \in Nat
  BY <1>1, ModRange, Zenon
<1>4. SUFFICES ASSUME n > 2
               PROVE  (n - 2) * c <= T - 2
  <2>1. CASE n > 2
    <3>1. n - 2 \in Nat
      BY <2>1
    <3>2. n - 2 <= (T - 2) \div c
      BY <1>1, <1>4, <2>1, <3>1, GapsFit, Zenon
    <3> QED
      BY <1>3, <3>2
  <2> QED
    BY <1>3, <2>1
<1>5. 1 \in 1..n /\ n \in 1..n /\ n - 1 \in Nat /\ n - 2 \in Nat
  BY <1>4
<1>6. (n - 1) * c = (n - 2) * c + c /\ (n - 2) * c \in Nat
  <2>1. n - 1 = (n - 2) + 1
    OBVIOUS
  <2> QED
    BY <1>5, <2>1, OneMoreGap
<1>7. PICK x \in Nat, y \in Nat, g \in Nat : x = p[1] /\ y = p[n] /\ g = (n - 2) * c
  BY <1>1, <1>5, <1>6
<1>8. y >= x + (g + c)
  <2>1. p[n] >= p[1] + (n - 1) * c
    BY <1>5
  <2> QED
    BY <1>6, <1>7, <2>1
<1>9. CASE x >= a \/ y < a
  <2>1. x >= a => y >= a
    BY <1>1, <1>7, <1>8
  <2>2. CASE x >= a
    <3>1. y - a < T
      BY <1>2, <1>5, <1>7, <2>1, <2>2
    <3>2. g + c <= T - 1
      BY <1>1, <1>8, <2>2, <3>1
    <3> QED
      BY <1>1, <1>7, <3>2
  <2>3. CASE y < a
    <3>1. y - a + M < T
      BY <1>2, <1>5, <1>7, <2>3, <1>1
    <3>2. g + c <= T - 1
      BY <1>1, <1>8, <2>3, <3>1
    <3> QED
      BY <1>1, <1>7, <3>2
  <2> QED
    BY <1>9, <2>2, <2>3
<1>10. CASE x < a /\ y >= a
  <2> DEFINE L == {k \in Nat : k \in 1..n /\ p[k] >= a}
  <2>1. PICK m \in L : \A k \in L : m <= k
    <3>1. L \in SUBSET Nat /\ n \in L
      BY <1>5, <1>7, <1>10
    <3> HIDE DEF L
    <3> QED
      BY <3>1, LeastNumber, Zenon
  <2>2. m \in 1..n /\ p[m] >= a /\ m # 1
    BY <1>1, <1>7, <1>10, <2>1
  <2>3. m - 1 \in 1..n /\ m - 2 \in Nat /\ n - m \in Nat /\ m \in Nat
    BY <2>2
  <2>4. m - 1 \notin L
    BY <2>1, <2>3
  <2>5. p[m - 1] < a
    BY <1>1, <2>3, <2>4
  <2>6. PICK u \in Nat, w \in Nat : u = p[m - 1] /\ w = p[m]
    BY <1>1, <2>2, <2>3
  <2>7. PICK b \in Nat, d \in Nat : b = (m - 2) * c /\ d = (n - m) * c
    BY <2>3
  <2>8. u >= x + b
    <3>1. (m - 1) - 1 = m - 2 /\ 1 <= m - 1
      BY <2>3
    <3>2. p[m - 1] >= p[1] + ((m - 1) - 1) * c
      BY <1>5, <2>3, <3>1
    <3> QED
      BY <1>7, <2>6, <2>7, <3>1, <3>2
  <2>9. y >= w + d
    <3>1. m <= n
      BY <2>2
    <3>2. p[n] >= p[m] + (n - m) * c
      BY <1>5, <2>2, <3>1
    <3> QED
      BY <1>7, <2>6, <2>7, <3>2
  <2>10. u - a + M < T /\ y <= M - 1 /\ w >= a
    <3>1. u - a + M < T
      BY <1>1, <1>2, <2>3, <2>5, <2>6
    <3>2. y <= M - 1
      BY <1>1, <1>5, <1>7
    <3> QED
      BY <2>2, <2>6, <3>1, <3>2
  <2>11. b + d <= T - 2
    <3>1. b <= u /\ d <= y - w
      BY <2>8, <2>9
    <3>2. d <= (M - 1) - a
      BY <1>1, <2>10, <3>1
    <3>3. u <= (T - 1) + a - M
      BY <1>1, <2>6, <2>10
    <3> QED
      BY <1>1, <3>1, <3>2, <3>3
  <2>12. (n - 2) * c = b + d
    <3>1. n - 2 = (m - 2) + (n - m)
      BY <2>3
    <3>2. PICK e \in Nat, f \in Nat : e = m - 2 /\ f = n - m
      BY <2>3
    <3>3. (e + f) * c = e * c + f * c
      BY <3>2
    <3> QED
      BY <2>7, <3>1, <3>2, <3>3
  <2> QED
    BY <2>11, <2>12
<1> QED
  BY <1>7, <1>9, <1>10, <1>1

\* A list in order and within the span the scheduler tracks takes few entries.
LEMMA FewEntries ==
  ASSUME ListTypeOK, Sorted, Within(Tracked)
  PROVE  Len(build_bitmask(lost)) <= (Tracked - 2) \div (Bits + 1) + 2
<1>1. PICK ns : ns = build_bitmask(lost)
  OBVIOUS
<1>2. ns \in Seq(Mask) /\ Spaced(ns) /\ \A i \in 1..Len(ns) : ns[i].pid \in Listed
  BY <1>1, MasksSpaced
<1>3. PICK a \in SeqNos : \A s \in Listed : wrapping_sub(s, a) < Tracked
  BY DEF Within
<1>4. PICK n \in Nat : n = Len(ns) /\ \A i \in 1..n : ns[i] \in Mask
  BY <1>2
<1> DEFINE p == [i \in 1..n |-> ns[i].pid]
           c == Bits + 1
<1>5. p \in [1..n -> SeqNos]
  BY <1>4 DEF Mask
<1>6. c \in Nat \ {0} /\ Tracked \in 2..M
  BY NackFormatAssumption
<1>7. \A i, j \in 1..n : i <= j => p[j] >= p[i] + (j - i) * c
  BY <1>2, <1>4 DEF Spaced
<1>8. \A i \in 1..n : wrapping_sub(p[i], a) < Tracked
  BY <1>2, <1>3, <1>4
<1> HIDE DEF p, c
<1>9. n <= (Tracked - 2) \div c + 2
  BY <1>5, <1>6, <1>7, <1>8, SpacedCount, Zenon
<1> QED
  BY <1>1, <1>4, <1>9 DEF c

LEMMA OnceAppended ==
  ASSUME NEW S, NEW l \in Seq(S), NEW s \in S,
         \A i, j \in DOMAIN l : l[i] = l[j] => i = j, \A i \in DOMAIN l : l[i] # s
  PROVE  /\ Append(l, s) \in Seq(S) /\ Len(Append(l, s)) = Len(l) + 1
         /\ \A i, j \in DOMAIN Append(l, s) : Append(l, s)[i] = Append(l, s)[j] => i = j
<1> DEFINE m == Append(l, s)
<1>1. PICK n \in Nat : n = Len(l) /\ DOMAIN l = 1..n
  OBVIOUS
<1>2. m \in Seq(S) /\ Len(m) = n + 1 /\ DOMAIN m = 1..(n + 1)
  BY <1>1
<1>3. (\A i \in 1..n : m[i] = l[i]) /\ m[n + 1] = s
  BY <1>1
<1>4. \A i \in 1..(n + 1) : i \in 1..n \/ i = n + 1
  OBVIOUS
<1> HIDE DEF m
<1>5. \A i, j \in 1..(n + 1) : m[i] = m[j] => i = j
  BY <1>1, <1>3, <1>4
<1> QED
  BY <1>1, <1>2, <1>5 DEF m

LEMMA ListedOnce == ListSpec => []ListTypeOK
<1>1. ListInit => ListTypeOK
  BY NackFormatAssumption DEF ListInit, ListTypeOK
<1>2. ListTypeOK /\ [ListNext]_lost => ListTypeOK'
  <2> SUFFICES ASSUME ListTypeOK, [ListNext]_lost
               PROVE  ListTypeOK'
    OBVIOUS
  <2>1. CASE UNCHANGED lost
    BY <2>1 DEF ListTypeOK
  <2>2. CASE ListNext
    <3>1. PICK s \in Numbers : Lose(s)
      BY <2>2 DEF ListNext
    <3>2. /\ lost \in Seq(SeqNos) /\ Len(lost) < MaxLost /\ MaxLost \in Nat
          /\ lost' = Append(lost, s) /\ s \in SeqNos
      BY <3>1, NackFormatAssumption DEF Lose, ListTypeOK
    <3>3. \A i \in DOMAIN lost : lost[i] # s
      BY <3>1 DEF Lose, Listed
    <3>4. \A i, j \in DOMAIN lost : lost[i] = lost[j] => i = j
      BY DEF ListTypeOK
    <3>5. /\ lost' \in Seq(SeqNos) /\ Len(lost') = Len(lost) + 1
          /\ \A i, j \in DOMAIN lost' : lost'[i] = lost'[j] => i = j
      BY <3>2, <3>3, <3>4, OnceAppended
    <3>6. Len(lost') <= MaxLost
      BY <3>2, <3>5
    <3> QED
      BY <3>5, <3>6 DEF ListTypeOK
  <2> QED
    BY <2>1, <2>2
<1> QED
  BY <1>1, <1>2, PTL DEF ListSpec

\* Both NACK formats carry every list the scheduler can give, of any length and
\* order and across the wrap: what lost_seqs unpacks is the list, each number
\* once; and sorted lists fit the sender's buffer.
THEOREM ListsAreCarried == ListSpec => []ListsSurvive
<1>1. ListTypeOK => ListsSurvive
  BY MasksNameAll, RangesNameAll, FewEntries DEF ListsSurvive
<1> QED
  BY <1>1, ListedOnce, PTL

-----------------------------------------------------------------------------
(* RTP packets as bytes *)

\* x is u and then v: what is written after something is read from where that
\* ends.
Joined(x, u, v) ==
  /\ Len(x) = Len(u) + Len(v)
  /\ \A i \in 1..Len(u) : x[i] = u[i]
  /\ \A i \in 1..Len(v) : x[Len(u) + i] = v[i]

LEMMA ReadAfter ==
  ASSUME NEW S, NEW u \in Seq(S), NEW v \in Seq(S)
  PROVE  u \o v \in Seq(S) /\ Joined(u \o v, u, v)
BY DEF Joined

\* x is what u holds past m and up to n.
IsCut(x, u, m, n) == Len(x) = n - m /\ \A i \in 1..(n - m) : x[i] = u[m + i]

LEMMA CutIs ==
  ASSUME NEW S, NEW u \in Seq(S), NEW m \in Nat, NEW n \in Nat, m <= n, n <= Len(u)
  PROVE  SubSeq(u, m + 1, n) \in Seq(S) /\ IsCut(SubSeq(u, m + 1, n), u, m, n)
BY DEF IsCut

LEMMA FixedLength ==
  ASSUME NEW S, NEW u \in Seq(S), NEW n \in Nat, Len(u) = n
  PROVE  u \in [1..n -> S] /\ \A i \in 1..n : u[i] \in S
OBVIOUS

\* Two bytes hold a number, and the lowest bit tells odd numbers from even ones.
LEMMA TwoBytes ==
  ASSUME NEW n \in Nat
  PROVE  n = 256 * (n \div 256) + (n % 256)
OBVIOUS

LEMMA ByteType ==
  ASSUME NEW b \in Bytes
  PROVE  b \in Nat /\ b <= 255
BY DEF Bytes

LEMMA BytesOfNumber ==
  ASSUME NEW n \in U16
  PROVE  n \in Nat /\ n \div 256 \in Bytes /\ n % 256 \in Bytes
<1>1. n \in Nat /\ n < 256 * 256
  <2>1. PICK m \in Nat : m = 256 * 256
    OBVIOUS
  <2>2. n \in 0..(m - 1)
    BY <2>1, Zenon DEF U16
  <2>3. n \in Nat /\ n < m
    BY <2>2
  <2> QED
    BY <2>1, <2>3
<1>2. n % 256 \in 0..255 /\ n \div 256 \in Nat
  BY <1>1
<1>3. n \div 256 < 256
  BY <1>1
<1> QED
  BY <1>1, <1>2, <1>3 DEF Bytes

LEMMA LowBit ==
  ASSUME NEW y \in Nat, y % 2 = 0
  PROVE  (y + 1) % 2 = 1
<1>1. PICK q \in Nat : y = 2 * q
  <2>1. 2 \in Nat \ {0}
    OBVIOUS
  <2>2. y \div 2 \in Nat /\ y = 2 * (y \div 2) + (y % 2)
    BY <2>1, ModRange
  <2> QED
    BY <2>2
<1>2. y + 1 = 2 * q + 1 /\ 2 \in Nat \ {0} /\ 1 \in 0..(2 - 1) /\ y + 1 \in Nat
  BY <1>1
<1> QED
  BY <1>2, ModUnique

LEMMA SameSeq ==
  ASSUME NEW S, NEW u \in Seq(S), NEW v \in Seq(S), Len(u) = Len(v),
         \A i \in 1..Len(u) : u[i] = v[i]
  PROVE  u = v
OBVIOUS

\* The twelve bytes of a header.
IsHeader(h, a, c, d, id) ==
  /\ Len(h) = 12 /\ h[1] = a /\ h[3] = c /\ h[4] = d
  /\ \A i \in 1..4 : h[8 + i] = id[i]

LEMMA HeaderBytes ==
  ASSUME NEW a \in Bytes, NEW b \in Bytes, NEW c \in Bytes, NEW d \in Bytes,
         NEW ts \in Seq(Bytes), NEW id \in Seq(Bytes), Len(ts) = 4, Len(id) = 4
  PROVE  /\ <<a, b, c, d>> \o ts \o id \in Seq(Bytes)
         /\ IsHeader(<<a, b, c, d>> \o ts \o id, a, c, d, id)
<1>1. PICK w \in Seq(Bytes) : w = <<a, b, c, d>>
  <2>1. <<a, b, c, d>> \in Seq(Bytes)
    OBVIOUS
  <2> QED
    BY <2>1, Zenon
<1>2. Len(w) = 4 /\ w[1] = a /\ w[2] = b /\ w[3] = c /\ w[4] = d
  BY <1>1
<1>3. PICK x \in Seq(Bytes) : x = w \o ts /\ Joined(x, w, ts)
  BY ReadAfter, Zenon
<1>4. PICK h \in Seq(Bytes) : h = x \o id /\ Joined(h, x, id)
  BY ReadAfter, Zenon
<1>5. h = <<a, b, c, d>> \o ts \o id
  BY <1>1, <1>3, <1>4, Zenon
<1>6. Joined(x, w, ts) /\ Joined(h, x, id)
  BY <1>3, <1>4, Zenon
<1>7. Len(x) = 8 /\ \A i \in 1..4 : x[i] = w[i]
  BY <1>2, <1>6 DEF Joined
<1>8. Len(h) = 12 /\ (\A i \in 1..8 : h[i] = x[i]) /\ \A i \in 1..4 : h[8 + i] = id[i]
  <2>1. Len(h) = Len(x) + Len(id) /\ (\A i \in 1..Len(x) : h[i] = x[i])
    BY <1>6 DEF Joined
  <2>2. \A i \in 1..Len(id) : h[Len(x) + i] = id[i]
    BY <1>6 DEF Joined
  <2>3. \A i \in 1..4 : h[8 + i] = id[i]
    BY <1>7, <2>2
  <2> QED
    BY <1>7, <2>1, <2>3
<1>9. h[1] = a /\ h[2] = b /\ h[3] = c /\ h[4] = d
  BY <1>2, <1>7, <1>8
<1>10. IsHeader(h, a, c, d, id)
  BY <1>8, <1>9 DEF IsHeader
<1> QED
  BY <1>5, <1>10, Zenon

\* What a packet of number n and stream id has before its payload: a header of
\* version 2 with both, flagged if it is sent again, the CSRC words and the
\* extension that the first byte announces.
Preamble(pre, n, id, again) ==
  /\ Len(pre) >= 12 /\ pre[1] \div 64 = 2
  /\ pre[3] = n \div 256 /\ pre[4] = n % 256
  /\ \A i \in 1..3 : pre[8 + i] = id[i]
  /\ pre[12] = id[4] + Bit(again)
  /\ (pre[1] \div 16) % 2 = 0 => Len(pre) = header_size(pre) /\ Len(pre) <= MaxRecv
  /\ (pre[1] \div 16) % 2 # 0 =>
       /\ Len(pre) >= header_size(pre) + 4
       /\ Len(pre) = header_size(pre) + 4 + 4 * (256 * pre[header_size(pre) + 3] + pre[header_size(pre) + 4])

\* The streams that packets are of.
Stream(id) == id \in Seq(Bytes) /\ Len(id) = 4 /\ id[4] % 2 = 0

Agree(c, pre, n) == \A i \in 1..n : c[i] = pre[i]

\* The fields of a header are read as they were written.
LEMMA FieldsRead ==
  ASSUME NEW n \in Nat, NEW id, NEW again \in BOOLEAN, NEW pre \in Seq(Bytes),
         NEW c \in Seq(Bytes), Stream(id), Preamble(pre, n, id, again), Agree(c, pre, 12), Len(c) >= 12
  PROVE  /\ sequence_number(c) = n
         /\ is_retransmit(ssrc_of(c)) = again
         /\ logical_ssrc(ssrc_of(c)) = id
<1>1. /\ Len(pre) >= 12 /\ pre[3] = n \div 256 /\ pre[4] = n % 256
      /\ pre[12] = id[4] + Bit(again) /\ \A i \in 1..3 : pre[8 + i] = id[i]
  BY DEF Preamble
<1>2. \A i \in 1..12 : c[i] = pre[i]
  BY Zenon DEF Agree
<1>3. sequence_number(c) = n
  <2>1. c[3] = n \div 256 /\ c[4] = n % 256
    BY <1>1, <1>2
  <2>2. n = 256 * (n \div 256) + (n % 256)
    BY TwoBytes
  <2> QED
    BY <2>1, <2>2 DEF sequence_number
<1>4. id \in Seq(Bytes) /\ Len(id) = 4 /\ id[4] % 2 = 0
  BY DEF Stream
<1>5. PICK x \in Seq(Bytes) : x = SubSeq(c, 9, 12) /\ IsCut(x, c, 8, 12)
  <2>1. SubSeq(c, 8 + 1, 12) \in Seq(Bytes) /\ IsCut(SubSeq(c, 8 + 1, 12), c, 8, 12)
    <3>1. 8 \in Nat /\ 12 \in Nat /\ 8 <= 12 /\ 12 <= Len(c)
      OBVIOUS
    <3> QED
      BY <3>1, CutIs
  <2>2. 8 + 1 = 9
    OBVIOUS
  <2> QED
    BY <2>1, <2>2, Zenon
<1>6. Len(x) = 4 /\ \A i \in 1..4 : x[i] = c[8 + i]
  <2>1. IsCut(x, c, 8, 12)
    BY <1>5, Zenon
  <2> QED
    BY <2>1 DEF IsCut
<1>7. ssrc_of(c) = x
  BY <1>5, Zenon DEF ssrc_of
<1>8. x[4] = id[4] + Bit(again) /\ \A i \in 1..3 : x[i] = id[i]
  <2>1. \A i \in 1..4 : x[i] = pre[8 + i]
    <3>1. \A i \in 1..4 : 8 + i \in 1..12
      OBVIOUS
    <3> QED
      BY <1>2, <1>6, <3>1, Zenon
  <2> QED
    BY <1>1, <2>1
<1>9. PICK y \in Nat : y = id[4] /\ y % 2 = 0
  <2>1. id \in Seq(Bytes) /\ Len(id) = 4 /\ 4 \in Nat /\ 4 \in 1..4
    BY <1>4
  <2>2. id[4] \in Nat
    <3>1. id[4] \in Bytes
      BY <2>1, FixedLength, Zenon
    <3> QED
      BY <3>1, ByteType
  <2>3. id[4] % 2 = 0
    BY <1>4
  <2> QED
    BY <2>2, <2>3, Zenon
<1>10. is_retransmit(x) = again /\ x[4] - (x[4] % 2) = y
  <2>1. CASE again
    <3>1. x[4] = y + 1
      BY <1>8, <1>9, <2>1 DEF Bit
    <3>2. (y + 1) % 2 = 1
      BY <1>9, LowBit, Zenon
    <3> QED
      <4>1. x[4] % 2 = 1 /\ (y + 1) - 1 = y
        BY <3>1, <3>2
      <4> QED
        BY <2>1, <3>1, <4>1, Zenon DEF is_retransmit
  <2>2. CASE ~again
    <3>1. x[4] = y
      BY <1>8, <1>9, <2>2 DEF Bit
    <3> QED
      BY <1>9, <2>2, <3>1 DEF is_retransmit
  <2> QED
    BY <2>1, <2>2
<1>11. logical_ssrc(x) = id
  <2>1. PICK z : z = logical_ssrc(x)
    OBVIOUS
  <2>2. x \in [1..4 -> Bytes] /\ id \in [1..4 -> Bytes]
    <3>1. id \in Seq(Bytes) /\ Len(id) = 4 /\ x \in Seq(Bytes) /\ Len(x) = 4 /\ 4 \in Nat
      BY <1>4, <1>6
    <3> QED
      BY <3>1, FixedLength, ZenonT(30)
  <2>3. z = [x EXCEPT ![4] = y]
    BY <1>10, <2>1, <2>2, Zenon DEF logical_ssrc
  <2>4. \A i \in 1..4 : i \in 1..3 \/ i = 4
    OBVIOUS
  <2>5. \A i \in 1..4 : z[i] = id[i]
    BY <1>8, <1>9, <2>2, <2>3, <2>4
  <2> QED
    BY <2>1, <2>2, <2>3, <2>5
<1> QED
  BY <1>3, <1>7, <1>10, <1>11, Zenon

\* A packet as it is read whole: what precedes its payload, and the payload.
Packet(b, pre, n, id, p, again) ==
  /\ b \in Seq(Bytes) /\ pre \in Seq(Bytes) /\ p \in Seq(Bytes)
  /\ Joined(b, pre, p) /\ Preamble(pre, n, id, again)

\* Both parsers take the header for what it is.
LEMMA HeaderRead ==
  ASSUME NEW b, NEW pre, NEW n, NEW id, NEW p, NEW again, Packet(b, pre, n, id, p, again)
  PROVE  /\ header_size(b) = header_size(pre) /\ header_size(b) \in Nat
         /\ header_size(b) >= 12 /\ header_size(b) <= Len(pre)
         /\ RtpHeader_ok(b) /\ payload_at(b) = Len(pre)
         /\ b[1] = pre[1]
<1>1. b \in Seq(Bytes) /\ pre \in Seq(Bytes) /\ p \in Seq(Bytes)
  BY DEF Packet
<1>2. PICK k \in Nat, q \in Nat : k = Len(pre) /\ q = Len(p) /\ Len(b) = k + q /\ k >= 12
  BY <1>1 DEF Packet, Joined, Preamble
<1>3. \A i \in 1..k : b[i] = pre[i] /\ pre[i] \in Bytes
  BY <1>1, <1>2 DEF Packet, Joined
<1>4. PICK f \in Nat : f = pre[1] /\ b[1] = f /\ f \div 64 = 2
  <2>1. 1 \in 1..k
    BY <1>2
  <2>2. pre[1] \in Nat /\ b[1] = pre[1]
    BY <1>3, <2>1, ByteType
  <2>3. pre[1] \div 64 = 2
    BY DEF Packet, Preamble
  <2> QED
    BY <2>2, <2>3, Zenon
<1>5. PICK s \in Nat : s = 12 + 4 * (f % 16) /\ s >= 12
  BY <1>4
<1>6. header_size(b) = s /\ header_size(pre) = s
  BY <1>4, <1>5 DEF header_size, RTP_HEADER_SIZE
<1>7. /\ (f \div 16) % 2 = 0 => k = s
      /\ (f \div 16) % 2 # 0 => k >= s + 4 /\ k = s + 4 + 4 * (256 * pre[s + 3] + pre[s + 4])
  BY <1>2, <1>4, <1>6 DEF Packet, Preamble
<1>8. s <= k /\ payload_at(b) = k
  <2>1. CASE (f \div 16) % 2 = 0
    <3>1. payload_at(b) = s
      BY <1>4, <1>6, <2>1 DEF payload_at
    <3> QED
      BY <1>7, <2>1, <3>1
  <2>2. CASE (f \div 16) % 2 # 0
    <3>1. k >= s + 4
      BY <1>7, <2>2
    <3>2. s + 3 \in 1..k /\ s + 4 \in 1..k
      BY <3>1
    <3>3. b[s + 3] = pre[s + 3] /\ b[s + 4] = pre[s + 4]
      BY <1>3, <3>2
    <3>4. ~(Len(b) < s + 4)
      BY <1>2, <3>1
    <3>5. payload_at(b) = s + 4 + 4 * (256 * b[s + 3] + b[s + 4])
      BY <1>4, <1>6, <2>2, <3>4 DEF payload_at
    <3> QED
      BY <1>7, <2>2, <3>1, <3>3, <3>5
  <2> QED
    BY <2>1, <2>2
<1>9. RtpHeader_ok(b)
  <2>1. Len(b) >= 12 /\ Len(b) >= s
    BY <1>2, <1>8
  <2> QED
    BY <1>4, <1>6, <2>1 DEF RtpHeader_ok, RTP_HEADER_SIZE
<1> QED
  BY <1>2, <1>4, <1>5, <1>6, <1>8, <1>9

\* What follows the header is the payload.
LEMMA PayloadRead ==
  ASSUME NEW b, NEW pre, NEW n, NEW id, NEW p, NEW again, Packet(b, pre, n, id, p, again)
  PROVE  SubSeq(b, Len(pre) + 1, Len(b)) = p
<1>1. b \in Seq(Bytes) /\ pre \in Seq(Bytes) /\ p \in Seq(Bytes)
  BY DEF Packet
<1>2. PICK k \in Nat, q \in Nat : k = Len(pre) /\ q = Len(p) /\ Len(b) = k + q
  BY <1>1 DEF Packet, Joined
<1>3. \A i \in 1..q : b[k + i] = p[i]
  BY <1>2 DEF Packet, Joined
<1>4. k + q \in Nat /\ k <= k + q /\ k + q <= Len(b) /\ (k + q) - k = q
  BY <1>2
<1>5. PICK x \in Seq(Bytes) : x = SubSeq(b, k + 1, k + q) /\ IsCut(x, b, k, k + q)
  BY <1>1, <1>4, CutIs, Zenon
<1>6. Len(x) = q /\ \A i \in 1..q : x[i] = b[k + i]
  <2>1. IsCut(x, b, k, k + q)
    BY <1>5, Zenon
  <2> QED
    BY <1>4, <2>1 DEF IsCut
<1>7. x = p
  <2>1. Len(x) = Len(p) /\ \A i \in 1..Len(x) : x[i] = p[i]
    BY <1>2, <1>3, <1>6
  <2> QED
    BY <1>1, <2>1, SameSeq
<1> QED
  BY <1>2, <1>5, <1>7

\* A packet read whole: both parsers find what was meant.
LEMMA WholeRead ==
  ASSUME NEW n \in Nat, NEW id, NEW again \in BOOLEAN, NEW b, NEW pre, NEW p,
         Stream(id), Packet(b, pre, n, id, p, again)
  PROVE  /\ RtpHeader_ok(b) /\ sequence_number(b) = n /\ is_retransmit(ssrc_of(b)) = again
         /\ logical_ssrc(ssrc_of(b)) = id
         /\ RtpPacket_ok(b) /\ RtpPacket_payload(b) = p
         /\ (b[1] \div 16) % 2 = 0 => SubSeq(b, header_size(b) + 1, Len(b)) = p
<1>1. b \in Seq(Bytes) /\ pre \in Seq(Bytes) /\ p \in Seq(Bytes) /\ Preamble(pre, n, id, again)
  BY DEF Packet
<1>2. PICK k \in Nat, q \in Nat : k = Len(pre) /\ q = Len(p) /\ Len(b) = k + q /\ k >= 12
  BY <1>1 DEF Packet, Joined, Preamble
<1>3. Agree(b, pre, 12)
  <2>1. \A i \in 1..k : b[i] = pre[i]
    BY <1>2 DEF Packet, Joined
  <2> QED
    BY <1>2, <2>1, SMTT(30) DEF Agree
<1>4. Len(b) >= 12
  BY <1>2
<1>5. /\ sequence_number(b) = n /\ is_retransmit(ssrc_of(b)) = again
      /\ logical_ssrc(ssrc_of(b)) = id
  BY <1>1, <1>3, <1>4, FieldsRead
<1>6. RtpHeader_ok(b) /\ payload_at(b) = k /\ b[1] = pre[1] /\ header_size(b) = header_size(pre)
  BY <1>2, HeaderRead
<1>7. SubSeq(b, k + 1, Len(b)) = p
  BY <1>2, PayloadRead, Zenon
<1>8. RtpPacket_ok(b) /\ RtpPacket_payload(b) = p
  <2>1. k <= Len(b)
    BY <1>2
  <2> QED
    BY <1>6, <1>7, <2>1, Zenon DEF RtpPacket_ok, RtpPacket_payload
<1>9. ASSUME (b[1] \div 16) % 2 = 0
      PROVE  SubSeq(b, header_size(b) + 1, Len(b)) = p
  <2>1. Len(pre) = header_size(pre)
    BY <1>1, <1>6, <1>9 DEF Preamble
  <2> QED
    BY <1>2, <1>6, <1>7, <2>1
<1> QED
  BY <1>5, <1>6, <1>8, <1>9

\* One without an extension, cut by the read buffer: the start of its payload.
LEMMA CutRead ==
  ASSUME NEW n \in Nat, NEW id, NEW again \in BOOLEAN, NEW b, NEW pre, NEW p,
         Packet(b, pre, n, id, p, again), (b[1] \div 16) % 2 = 0, NEW m \in Nat, m <= Len(b),
         Len(pre) <= m
  PROVE  \E c \in Seq(Bytes) :
           /\ c = SubSeq(b, 1, m) /\ RtpHeader_ok(c)
           /\ StartOf(SubSeq(c, header_size(c) + 1, Len(c)), p)
<1>1. b \in Seq(Bytes) /\ pre \in Seq(Bytes) /\ p \in Seq(Bytes) /\ Preamble(pre, n, id, again)
  BY DEF Packet
<1>2. PICK k \in Nat, q \in Nat : k = Len(pre) /\ q = Len(p) /\ Len(b) = k + q /\ k >= 12
  BY <1>1 DEF Packet, Joined, Preamble
<1>3. /\ header_size(b) = header_size(pre) /\ RtpHeader_ok(b) /\ b[1] = pre[1]
  BY HeaderRead
<1>4. header_size(b) = k
  BY <1>1, <1>2, <1>3 DEF Preamble
<1>5. PICK c \in Seq(Bytes) : c = SubSeq(b, 1, m) /\ Len(c) = m /\ \A i \in 1..m : c[i] = b[i]
  <2>1. 0 \in Nat /\ 0 <= m /\ 0 + 1 = 1 /\ m - 0 = m /\ \A i \in 1..m : 0 + i = i
    OBVIOUS
  <2>2. PICK c \in Seq(Bytes) : c = SubSeq(b, 1, m) /\ IsCut(c, b, 0, m)
    BY <1>1, <2>1, CutIs, Zenon
  <2>3. Len(c) = m /\ \A i \in 1..m : c[i] = b[i]
    <3>1. IsCut(c, b, 0, m)
      BY <2>2, Zenon
    <3> QED
      BY <2>1, <3>1 DEF IsCut
  <2> QED
    BY <2>2, <2>3, Zenon
<1>6. c[1] = b[1]
  <2>1. 1 \in 1..m
    BY <1>2
  <2> QED
    BY <1>5, <2>1
<1>7. header_size(c) = k
  BY <1>4, <1>6 DEF header_size
<1>8. RtpHeader_ok(c)
  <2>1. b[1] \div 64 = 2
    BY <1>3 DEF RtpHeader_ok
  <2>2. Len(c) >= 12 /\ Len(c) >= k
    BY <1>2, <1>5
  <2> QED
    BY <1>6, <1>7, <2>1, <2>2 DEF RtpHeader_ok, RTP_HEADER_SIZE
<1>9. PICK x \in Seq(Bytes) : x = SubSeq(c, k + 1, m) /\ Len(x) = m - k /\ \A i \in 1..(m - k) : x[i] = c[k + i]
  <2>1. k <= m /\ m <= Len(c)
    BY <1>2, <1>5
  <2>2. PICK x \in Seq(Bytes) : x = SubSeq(c, k + 1, m) /\ IsCut(x, c, k, m)
    BY <2>1, CutIs, Zenon
  <2>3. Len(x) = m - k /\ \A i \in 1..(m - k) : x[i] = c[k + i]
    <3>1. IsCut(x, c, k, m)
      BY <2>2, Zenon
    <3> QED
      BY <3>1 DEF IsCut
  <2> QED
    BY <2>2, <2>3, Zenon
<1>10. PICK l \in Nat : l = m - k /\ l <= q
  <2>1. k <= m /\ m <= k + q
    BY <1>2
  <2>2. m - k \in Nat /\ m - k <= q
    BY <2>1
  <2> QED
    BY <2>2
<1>11. \A i \in 1..l : x[i] = p[i]
  <2>1. \A i \in 1..l : k + i \in 1..m /\ i \in 1..q
    BY <1>10
  <2>2. \A i \in 1..q : b[k + i] = p[i]
    BY <1>2 DEF Packet, Joined
  <2> QED
    BY <1>5, <1>9, <1>10, <2>1, <2>2
<1>12. PICK y \in Seq(Bytes) : y = SubSeq(p, 1, l) /\ Len(y) = l /\ \A i \in 1..l : y[i] = p[i]
  <2>1. 0 \in Nat /\ 0 <= l /\ l <= Len(p) /\ 0 + 1 = 1 /\ l - 0 = l /\ \A i \in 1..l : 0 + i = i
    BY <1>2, <1>10
  <2>2. PICK y \in Seq(Bytes) : y = SubSeq(p, 1, l) /\ IsCut(y, p, 0, l)
    BY <1>1, <2>1, CutIs, Zenon
  <2>3. Len(y) = l /\ \A i \in 1..l : y[i] = p[i]
    <3>1. IsCut(y, p, 0, l)
      BY <2>2, Zenon
    <3> QED
      BY <2>1, <3>1 DEF IsCut
  <2> QED
    BY <2>2, <2>3, Zenon
<1>13. Len(x) = l
  BY <1>9, <1>10
<1>14. x = y
  <2>1. Len(x) = Len(y) /\ \A i \in 1..Len(x) : x[i] = y[i]
    BY <1>11, <1>12, <1>13
  <2> QED
    BY <2>1, SameSeq
<1>15. StartOf(x, p)
  <2>1. Len(x) <= Len(p)
    BY <1>2, <1>10, <1>13
  <2>2. x = SubSeq(p, 1, Len(x))
    BY <1>12, <1>13, <1>14
  <2> QED
    BY <2>1, <2>2 DEF StartOf
<1>16. SubSeq(c, header_size(c) + 1, Len(c)) = x
  BY <1>5, <1>7, <1>9, Zenon
<1> QED
  BY <1>5, <1>8, <1>15, <1>16, Zenon

\* The first byte tells the version, the extension and the CSRC words.
LEMMA FirstByte ==
  ASSUME NEW e \in {0, 1}, NEW k \in 0..15, NEW f, f = 128 + 16 * e + k
  PROVE  f \in Bytes /\ f \div 64 = 2 /\ f % 16 = k /\ (f \div 16) % 2 = e
<1>1. CASE e = 0
  <2>1. f = 128 + k
    BY <1>1
  <2>2. f \in Bytes
    BY <2>1 DEF Bytes
  <2>3. f \div 64 = 2 /\ f % 16 = k
    BY <2>1
  <2>4. f \div 16 = 8
    BY <2>1
  <2> QED
    BY <1>1, <2>2, <2>3, <2>4
<1>2. CASE e = 1
  <2>1. f = 144 + k
    BY <1>2
  <2>2. f \in Bytes
    BY <2>1 DEF Bytes
  <2>3. f \div 64 = 2 /\ f % 16 = k
    BY <2>1
  <2>4. f \div 16 = 9
    BY <2>1
  <2> QED
    BY <1>2, <2>2, <2>3, <2>4
<1> QED
  BY <1>1, <1>2

LEMMA TimestampType == Timestamp \in Seq(Bytes) /\ Len(Timestamp) = 4
<1>1. 1 \in Bytes /\ 2 \in Bytes /\ 3 \in Bytes /\ 4 \in Bytes
  BY DEF Bytes
<1> QED
  BY <1>1 DEF Timestamp

LEMMA Constants ==
  /\ \A s \in Ssrcs : Stream(s)
  /\ \A n \in SentNumbers : n \in U16 /\ n \in Nat
  /\ \A p \in Payloads : p \in Seq(Bytes)
  /\ \A w \in ExtWords : w \in U16 /\ w \in Nat
  /\ MaxRecv \in Nat /\ MaxRecv >= 12
<1>1. \A n \in U16 : n \in Nat
  BY BytesOfNumber
<1>2. \A s \in Ssrcs : Stream(s)
  BY RtpAssumption DEF Stream
<1> QED
  BY <1>1, <1>2, RtpAssumption

\* The sender task's header is that of new_ts.
LEMMA WritersAgree ==
  ASSUME NEW n, NEW id, NEW ts
  PROVE  write_rtp_header(id, n, ts) = RtpHeader_serialize(new_ts(id, n, ts))
<1>1. 64 * 2 + 32 * 0 + 16 * 0 + (0 % 16) = 128 /\ 128 * 0 + (33 % 128) = 33
  OBVIOUS
<1> QED
  BY <1>1 DEF write_rtp_header, RtpHeader_serialize, new_ts, PT_TS, Bit

\* A first byte without CSRC words and extension.
Plain(b) == b[1] = 128

\* What the media arm sends is a packet.
LEMMA SentIs ==
  ASSUME NEW n \in SentNumbers, NEW id \in Ssrcs, NEW p \in Payloads
  PROVE  \E b, pre : /\ b = write_rtp_header(id, n, Timestamp) \o p
                     /\ Packet(b, pre, n, id, p, FALSE) /\ Plain(b)
<1>1. Stream(id) /\ n \in U16 /\ n \in Nat /\ p \in Seq(Bytes)
  BY Constants
<1>2. id \in Seq(Bytes) /\ Len(id) = 4 /\ id[4] % 2 = 0
  BY <1>1 DEF Stream
<1>3. 128 \in Bytes /\ 33 \in Bytes /\ n \div 256 \in Bytes /\ n % 256 \in Bytes
  BY <1>1, BytesOfNumber DEF Bytes
<1>4. PICK h \in Seq(Bytes) :
         /\ h = <<128, 33, n \div 256, n % 256>> \o Timestamp \o id
         /\ IsHeader(h, 128, n \div 256, n % 256, id)
  <2>1. PICK a \in Bytes, b \in Bytes, c \in Bytes, d \in Bytes :
           a = 128 /\ b = 33 /\ c = n \div 256 /\ d = n % 256
    BY <1>3
  <2>2. PICK h \in Seq(Bytes) : h = <<a, b, c, d>> \o Timestamp \o id /\ IsHeader(h, a, c, d, id)
    BY <1>2, TimestampType, HeaderBytes, Zenon
  <2> QED
    BY <2>1, <2>2, ZenonT(30)
<1>5. h = write_rtp_header(id, n, Timestamp)
  BY <1>4, Zenon DEF write_rtp_header, PT_TS
<1>6. /\ Len(h) = 12 /\ h[1] = 128 /\ h[3] = n \div 256 /\ h[4] = n % 256
      /\ \A i \in 1..4 : h[8 + i] = id[i]
  <2>1. IsHeader(h, 128, n \div 256, n % 256, id)
    BY <1>4, Zenon
  <2> QED
    BY <2>1 DEF IsHeader
<1>7. Preamble(h, n, id, FALSE)
  <2>1. 128 \div 64 = 2 /\ (128 \div 16) % 2 = 0 /\ 12 + 4 * (128 % 16) = 12
    OBVIOUS
  <2>2. header_size(h) = 12
    BY <1>6, <2>1 DEF header_size, RTP_HEADER_SIZE
  <2>3. \A i \in 1..3 : h[8 + i] = id[i]
    BY <1>6
  <2>4. h[12] = id[4] + Bit(FALSE)
    <3>1. h[12] = id[4]
      <4>1. 4 \in 1..4 /\ 8 + 4 = 12
        OBVIOUS
      <4> QED
        BY <1>6, <4>1
    <3>2. id[4] \in Nat
      <4>1. id[4] \in Bytes
        <5>1. 4 \in Nat /\ 4 \in 1..4
          OBVIOUS
        <5> QED
          BY <1>2, <5>1, FixedLength, Zenon
      <4> QED
        BY <4>1, ByteType
    <3> QED
      BY <3>1, <3>2 DEF Bit
  <2> QED
    BY <1>6, <2>1, <2>2, <2>3, <2>4, Constants DEF Preamble
<1>8. PICK x \in Seq(Bytes) : x = h \o p /\ Joined(x, h, p)
  BY <1>1, ReadAfter, Zenon
<1>9. Packet(x, h, n, id, p, FALSE)
  BY <1>1, <1>7, <1>8, Zenon DEF Packet
<1>10. Plain(x)
  <2>1. Joined(x, h, p)
    BY <1>8, Zenon
  <2>2. 1 \in 1..Len(h)
    BY <1>6
  <2> QED
    BY <1>6, <2>1, <2>2 DEF Joined, Plain
<1>11. x = write_rtp_header(id, n, Timestamp) \o p
  BY <1>5, <1>8, Zenon
<1> QED
  BY <1>9, <1>10, <1>11, Zenon

\* The twelve bytes that another sender begins with.
LEMMA ForeignHeader ==
  ASSUME NEW h \in Headers, NEW n \in SentNumbers, NEW id \in Ssrcs, NEW k \in 0..15,
         Len(h.csrc) = 4 * k
  PROVE  \E x \in Seq(Bytes) :
           /\ x = RtpHeader_serialize([new_ts(id, n, Timestamp) EXCEPT
                     !.extension = h.extension, !.marker = h.marker, !.payload_type = h.pt,
                     !.csrc_count = Len(h.csrc) \div 4])
           /\ IsHeader(x, 128 + 16 * Bit(h.extension) + k, n \div 256, n % 256, id)
<1>1. h.extension \in BOOLEAN /\ h.marker \in BOOLEAN /\ h.pt \in 0..127
  BY RtpAssumption
<1>2. Len(h.csrc) \div 4 = k /\ k % 16 = k
  BY SMT
<1>3. PICK e \in {0, 1} : e = Bit(h.extension)
  BY <1>1 DEF Bit
<1>4. PICK f \in Bytes : f = 128 + 16 * e + k
  BY FirstByte, ZenonT(30)
<1>5. PICK g \in Bytes : g = 128 * Bit(h.marker) + (h.pt % 128)
  <2>1. PICK q \in 0..127 : q = h.pt
    BY <1>1
  <2>2. q % 128 = q
    OBVIOUS
  <2>3. 128 * Bit(h.marker) + q \in Bytes
    BY <1>1 DEF Bit, Bytes
  <2> QED
    BY <2>1, <2>2, <2>3
<1>6. PICK c \in Bytes, d \in Bytes : c = n \div 256 /\ d = n % 256
  BY Constants, BytesOfNumber
<1>7. id \in Seq(Bytes) /\ Len(id) = 4
  BY Constants DEF Stream
<1>8. PICK x \in Seq(Bytes) : x = <<f, g, c, d>> \o Timestamp \o id /\ IsHeader(x, f, c, d, id)
  BY <1>7, TimestampType, HeaderBytes, Zenon
<1> DEFINE r == [new_ts(id, n, Timestamp) EXCEPT
                   !.extension = h.extension, !.marker = h.marker, !.payload_type = h.pt,
                   !.csrc_count = Len(h.csrc) \div 4]
<1>9. /\ r.version = 2 /\ r.padding = FALSE /\ r.extension = h.extension
      /\ r.csrc_count = Len(h.csrc) \div 4 /\ r.marker = h.marker /\ r.payload_type = h.pt
      /\ r.sequence_number = n /\ r.timestamp = Timestamp /\ r.ssrc = id
  BY DEF new_ts
<1> HIDE DEF r
<1>10. 64 * r.version + 32 * Bit(r.padding) + 16 * Bit(r.extension) + (r.csrc_count % 16) = f
  <2>1. Bit(r.padding) = 0 /\ Bit(r.extension) = e /\ r.csrc_count % 16 = k
    BY <1>2, <1>3, <1>9, Zenon DEF Bit
  <2>2. 64 * 2 + 32 * 0 + 16 * e + k = 128 + 16 * e + k
    BY <1>3
  <2> QED
    BY <1>4, <1>9, <2>1, <2>2
<1>11. 128 * Bit(r.marker) + (r.payload_type % 128) = g
  BY <1>5, <1>9
<1>12. RtpHeader_serialize(r) = <<f, g, c, d>> \o Timestamp \o id
  BY <1>6, <1>9, <1>10, <1>11, ZenonT(30), ZenonT(30) DEF RtpHeader_serialize
<1> QED
  BY <1>3, <1>4, <1>6, <1>8, <1>12, ZenonT(30), ZenonT(30) DEF r

LEMMA ExtensionIs ==
  ASSUME NEW w \in ExtWords
  PROVE  \E e \in Seq(Bytes) :
           /\ e = ForeignExtension(w) /\ Len(e) = 4 + 4 * w
           /\ e[3] = w \div 256 /\ e[4] = w % 256
<1>1. w \in U16 /\ w \in Nat
  BY Constants
<1>2. PICK c \in Bytes, d \in Bytes : c = w \div 256 /\ d = w % 256
  BY <1>1, BytesOfNumber
<1>3. 190 \in Bytes /\ 222 \in Bytes /\ 9 \in Bytes
  BY DEF Bytes
<1>4. PICK u \in Seq(Bytes) : u = <<190, 222, c, d>> /\ Len(u) = 4 /\ u[3] = c /\ u[4] = d
  <2>1. <<190, 222, c, d>> \in Seq(Bytes)
    BY <1>3
  <2> QED
    BY <2>1, Zenon
<1>5. PICK v \in Seq(Bytes) : v = [k \in 1..(4 * w) |-> 9] /\ Len(v) = 4 * w
  <2>1. PICK m \in Nat : m = 4 * w
    BY <1>1
  <2>2. [k \in 1..m |-> 9] \in Seq(Bytes)
    BY <1>3
  <2>3. Len([k \in 1..m |-> 9]) = m
    OBVIOUS
  <2> QED
    BY <2>1, <2>2, <2>3
<1>6. PICK e \in Seq(Bytes) : e = u \o v /\ Joined(e, u, v)
  BY ReadAfter, Zenon
<1>7. Joined(e, u, v) /\ Len(u) = 4 /\ u[3] = c /\ u[4] = d /\ Len(v) = 4 * w
  BY <1>4, <1>5, <1>6, Zenon
<1>8. Len(e) = 4 + 4 * w /\ e[3] = c /\ e[4] = d
  BY <1>1, <1>7 DEF Joined
<1>9. e = ForeignExtension(w)
  BY <1>2, <1>4, <1>5, <1>6 DEF ForeignExtension
<1> QED
  BY <1>2, <1>8, <1>9

\* The start of a packet: its header, with CSRC words and an extension as the
\* first byte has them.
Begins(y, f, n, id) ==
  y[1] = f /\ y[3] = n \div 256 /\ y[4] = n % 256 /\ \A i \in 1..4 : y[8 + i] = id[i]

Lengthened(y, m) == Len(y) >= m + 4 /\ Len(y) = m + 4 + 4 * (256 * y[m + 3] + y[m + 4])

LEMMA HeadIs ==
  ASSUME NEW n, NEW id, NEW y \in Seq(Bytes), NEW e \in {0, 1}, NEW k \in 0..15, NEW f, NEW m \in Nat,
         Stream(id), f \div 64 = 2, f % 16 = k, (f \div 16) % 2 = e,
         m = 12 + 4 * k, m <= MaxRecv, Begins(y, f, n, id),
         e = 0 => Len(y) = m,
         e = 1 => Lengthened(y, m)
  PROVE  Preamble(y, n, id, FALSE)
<1>1. f \div 64 = 2 /\ f % 16 = k /\ (f \div 16) % 2 = e
  OBVIOUS
<1>8. /\ y[1] = f /\ y[3] = n \div 256 /\ y[4] = n % 256
      /\ \A i \in 1..4 : y[8 + i] = id[i]
  BY DEF Begins
<1>2. header_size(y) = m
  BY <1>8, <1>1 DEF header_size, RTP_HEADER_SIZE
<1>3. \A i \in 1..3 : y[8 + i] = id[i]
  BY <1>8, SMTT(30)
<1>4. y[12] = id[4] + Bit(FALSE)
  <2>1. 4 \in 1..4 /\ 8 + 4 = 12 /\ 4 \in Nat
    OBVIOUS
  <2>2. y[12] = id[4]
    BY <1>8, <2>1
  <2>3. id \in Seq(Bytes) /\ Len(id) = 4
    BY DEF Stream
  <2>4. id[4] \in Bytes
    BY <2>1, <2>3, FixedLength, ZenonT(30), Zenon
  <2>5. id[4] \in Nat
    BY <2>4, ByteType
  <2> QED
    BY <2>2, <2>5 DEF Bit
<1>5. Len(y) >= 12 /\ Len(y) \in Nat
  <2>1. Len(y) \in Nat /\ Len(y) >= m
    BY DEF Lengthened
  <2>2. m >= 12
    OBVIOUS
  <2> QED
    BY <2>1, <2>2
<1>6. e = 0 => Len(y) = header_size(y) /\ Len(y) <= MaxRecv
  BY <1>2
<1>7. e # 0 => Lengthened(y, header_size(y))
  BY <1>2
<1> QED
  BY <1>1, <1>8, <1>3, <1>4, <1>5, <1>6, <1>7, ZenonT(30) DEF Preamble, Lengthened

LEMMA ForeignIs ==
  ASSUME NEW h \in Headers, NEW w \in ExtWords, NEW n \in SentNumbers, NEW id \in Ssrcs,
         NEW p \in Payloads
  PROVE  Packet(ForeignHead(h, w, id, n) \o p, ForeignHead(h, w, id, n), n, id, p, FALSE)
<1>1. /\ h.csrc \in Seq(Bytes) /\ h.extension \in BOOLEAN
      /\ \E k \in 0..15 : Len(h.csrc) = 4 * k /\ 12 + Len(h.csrc) <= MaxRecv
  BY RtpAssumption
<1>2. PICK k \in 0..15 : Len(h.csrc) = 4 * k /\ 12 + 4 * k <= MaxRecv
  BY <1>1, Zenon
<1>3. PICK e \in {0, 1} : e = Bit(h.extension) /\ (e = 1 <=> h.extension)
  BY <1>1 DEF Bit
<1>4. PICK f \in Bytes :
         f = 128 + 16 * e + k /\ f \div 64 = 2 /\ f % 16 = k /\ (f \div 16) % 2 = e
  BY FirstByte
<1>5. PICK x \in Seq(Bytes) :
         /\ x = RtpHeader_serialize([new_ts(id, n, Timestamp) EXCEPT
                   !.extension = h.extension, !.marker = h.marker, !.payload_type = h.pt,
                   !.csrc_count = Len(h.csrc) \div 4])
         /\ IsHeader(x, f, n \div 256, n % 256, id)
  <2>1. Len(h.csrc) = 4 * k /\ f = 128 + 16 * Bit(h.extension) + k
    BY <1>2, <1>3, <1>4, Zenon
  <2> QED
    BY <2>1, ForeignHeader, ZenonT(30)
<1>6. PICK z \in Seq(Bytes) : z = x \o h.csrc /\ Joined(z, x, h.csrc)
  BY <1>1, ReadAfter, Zenon
<1>7. PICK m \in Nat : m = 12 + 4 * k
  OBVIOUS
<1>8. /\ Len(z) = m /\ z[1] = f /\ z[3] = n \div 256 /\ z[4] = n % 256
      /\ \A i \in 1..4 : z[8 + i] = id[i]
  <2>1. IsHeader(x, f, n \div 256, n % 256, id) /\ Joined(z, x, h.csrc)
    BY <1>5, <1>6, Zenon
  <2>2. /\ Len(x) = 12 /\ x[1] = f /\ x[3] = n \div 256 /\ x[4] = n % 256
        /\ \A i \in 1..4 : x[8 + i] = id[i]
    BY <2>1, Zenon DEF IsHeader
  <2>3. Len(z) = 12 + 4 * k /\ \A i \in 1..12 : z[i] = x[i]
    BY <1>2, <2>1, <2>2 DEF Joined
  <2>4. z[1] = x[1] /\ z[3] = x[3] /\ z[4] = x[4] /\ \A i \in 1..4 : z[8 + i] = x[8 + i]
    BY <2>3
  <2> QED
    BY <1>7, <2>2, <2>3, <2>4
<1>9. PICK ext \in Seq(Bytes) :
         /\ ext = IF h.extension THEN ForeignExtension(w) ELSE <<>>
         /\ e = 0 => Len(ext) = 0
         /\ e = 1 => /\ Len(ext) = 4 + 4 * w
                     /\ ext[3] = w \div 256 /\ ext[4] = w % 256
  <2>1. CASE h.extension
    <3>1. e = 1
      BY <1>3, <2>1, Zenon
    <3> QED
      BY <2>1, <3>1, ExtensionIs
  <2>2. CASE ~h.extension
    <3>1. e = 0
      BY <1>3, <2>2
    <3>2. <<>> \in Seq(Bytes) /\ Len(<<>>) = 0
      OBVIOUS
    <3>3. e # 1
      BY <3>1
    <3> QED
      BY <2>2, <3>1, <3>2, <3>3, Zenon
  <2> QED
    BY <1>1, <2>1, <2>2
<1>10. PICK y \in Seq(Bytes) : y = z \o ext /\ Joined(y, z, ext)
  BY ReadAfter, Zenon
<1>11. y = ForeignHead(h, w, id, n)
  BY <1>5, <1>6, <1>9, <1>10, Zenon DEF ForeignHead
<1>12. Joined(y, z, ext)
  BY <1>10, Zenon
<1>13. Begins(y, f, n, id)
  <2>1. \A i \in 1..12 : y[i] = z[i]
    BY <1>7, <1>8, <1>12 DEF Joined
  <2>2. y[1] = z[1] /\ y[3] = z[3] /\ y[4] = z[4] /\ \A i \in 1..4 : y[8 + i] = z[8 + i]
    BY <2>1
  <2> QED
    BY <1>8, <2>2 DEF Begins
<1>14. e = 0 => Len(y) = m
  BY <1>8, <1>9, <1>12 DEF Joined
<1>15. e = 1 => Lengthened(y, m)
  <2> SUFFICES ASSUME e = 1
               PROVE  Lengthened(y, m)
    OBVIOUS
  <2>1. w \in Nat
    BY Constants
  <2>2. Len(ext) = 4 + 4 * w /\ ext[3] = w \div 256 /\ ext[4] = w % 256
    BY <1>9
  <2>3. Len(y) = m + Len(ext) /\ \A i \in 1..Len(ext) : y[m + i] = ext[i]
    BY <1>8, <1>12 DEF Joined
  <2>4. 3 \in 1..Len(ext) /\ 4 \in 1..Len(ext)
    BY <2>1, <2>2
  <2>5. y[m + 3] = w \div 256 /\ y[m + 4] = w % 256
    BY <2>2, <2>3, <2>4
  <2>6. w = 256 * (w \div 256) + (w % 256)
    BY <2>1, TwoBytes
  <2>7. Len(y) = m + 4 + 4 * w
    BY <2>1, <2>2, <2>3
  <2> QED
    BY <2>1, <2>5, <2>6, <2>7 DEF Lengthened
<1>16. Stream(id) /\ p \in Seq(Bytes)
  BY Constants
<1>17. m <= MaxRecv
  BY <1>2, <1>7
<1>18. Preamble(y, n, id, FALSE)
  <2>1. f \div 64 = 2 /\ f % 16 = k /\ (f \div 16) % 2 = e
    BY <1>4, Zenon
  <2>2. Stream(id) /\ Begins(y, f, n, id)
    BY <1>13, <1>16, Zenon
  <2> QED
    BY <1>7, <1>14, <1>15, <1>17, <2>1, <2>2, HeadIs, ZenonT(30), ZenonT(30)
<1>19. y \o p \in Seq(Bytes) /\ Joined(y \o p, y, p)
  BY <1>16, ReadAfter
<1>20. Packet(y \o p, y, n, id, p, FALSE)
  BY <1>16, <1>18, <1>19, Zenon DEF Packet
<1> QED
  BY <1>11, <1>20, Zenon

\* w is u with y for its element j.
Replaced(w, u, j, y) == Len(w) = Len(u) /\ \A i \in 1..Len(u) : w[i] = IF i = j THEN y ELSE u[i]

LEMMA OneReplaced ==
  ASSUME NEW S, NEW u \in Seq(S), NEW j \in Nat, NEW y \in S
  PROVE  \E w \in Seq(S) : w = [u EXCEPT ![j] = y] /\ Replaced(w, u, j, y)
<1>1. PICK n \in Nat : n = Len(u) /\ u \in [1..n -> S]
  OBVIOUS
<1>2. PICK w \in [1..n -> S] : w = [u EXCEPT ![j] = y]
  BY <1>1, Zenon
<1>3. \A i \in 1..n : w[i] = IF i = j THEN y ELSE u[i]
  BY <1>1, <1>2
<1>4. w \in Seq(S) /\ Len(w) = n
  OBVIOUS
<1> QED
  BY <1>1, <1>2, <1>3, <1>4, Zenon DEF Replaced

\* What goes out for a NACK is the kept packet with the flag: the lowest bit of
\* the twelfth byte, which its stream has clear.
LEMMA ResentIs ==
  ASSUME NEW b, NEW pre, NEW n, NEW id, NEW p, Stream(id), Packet(b, pre, n, id, p, FALSE)
  PROVE  /\ \E w : Packet(flag_retransmit(b), w, n, id, p, TRUE)
         /\ SubSeq(flag_retransmit(b), 1, 11) = SubSeq(b, 1, 11)
         /\ Plain(b) => Plain(flag_retransmit(b))
<1>1. /\ b \in Seq(Bytes) /\ pre \in Seq(Bytes) /\ p \in Seq(Bytes)
      /\ Joined(b, pre, p) /\ Preamble(pre, n, id, FALSE)
  BY Zenon DEF Packet
<1>2. PICK k \in Nat, q \in Nat : k = Len(pre) /\ q = Len(p) /\ k >= 12
  BY <1>1 DEF Preamble
<1>3. /\ Len(b) = k + q /\ \A i \in 1..k : b[i] = pre[i]
      /\ \A i \in 1..q : b[k + i] = p[i]
  BY <1>1, <1>2, Zenon DEF Joined
<1>4. /\ id[4] \in Nat /\ id[4] % 2 = 0 /\ id[4] + 1 \in Bytes
  <2>1. id \in Seq(Bytes) /\ Len(id) = 4 /\ 4 \in Nat /\ 4 \in 1..4
    BY DEF Stream
  <2>2. id[4] \in Bytes
    BY <2>1, FixedLength, ZenonT(30), Zenon
  <2>3. id[4] % 2 = 0
    BY DEF Stream
  <2>4. id[4] # 255
    <3>1. 255 % 2 = 1
      OBVIOUS
    <3> QED
      BY <2>3, <3>1
  <2> QED
    BY <2>2, <2>3, <2>4 DEF Bytes
<1>5. PICK y \in Bytes : y = id[4] + 1
  BY <1>4
<1>6. pre[12] = id[4] /\ b[12] = id[4]
  <2>1. pre[12] = id[4] + Bit(FALSE)
    BY <1>1 DEF Preamble
  <2>2. pre[12] = id[4]
    BY <1>4, <2>1 DEF Bit
  <2>3. 12 \in 1..k
    BY <1>2
  <2> QED
    BY <1>3, <2>2, <2>3
<1>7. PICK c \in Seq(Bytes) :
         /\ c = [b EXCEPT ![12] = y] /\ Len(c) = k + q
         /\ \A i \in 1..(k + q) : c[i] = IF i = 12 THEN y ELSE b[i]
  <2>1. b \in Seq(Bytes) /\ 12 \in Nat
    BY <1>1
  <2>2. PICK c \in Seq(Bytes) : c = [b EXCEPT ![12] = y] /\ Replaced(c, b, 12, y)
    BY <2>1, OneReplaced
  <2>3. Len(c) = k + q /\ \A i \in 1..(k + q) : c[i] = IF i = 12 THEN y ELSE b[i]
    BY <1>3, <2>2, Zenon DEF Replaced
  <2> QED
    BY <2>2, <2>3, Zenon
<1>8. flag_retransmit(b) = c
  <2>1. Len(b) > 11
    BY <1>2, <1>3
  <2>2. b[12] + 1 - (b[12] % 2) = y
    BY <1>4, <1>5, <1>6
  <2> QED
    BY <1>7, <2>1, <2>2, ZenonT(30) DEF flag_retransmit
<1>9. PICK w \in Seq(Bytes) :
         Len(w) = k /\ \A i \in 1..k : w[i] = IF i = 12 THEN y ELSE pre[i]
  <2>1. pre \in Seq(Bytes) /\ 12 \in Nat
    BY <1>1
  <2>2. PICK w \in Seq(Bytes) : Replaced(w, pre, 12, y)
    BY <2>1, OneReplaced
  <2> QED
    BY <1>2, <2>2, Zenon DEF Replaced
<1>10. Joined(c, w, p)
  <2>1. \A i \in 1..k : c[i] = w[i]
    BY <1>3, <1>7, <1>9
  <2>2. \A i \in 1..q : c[k + i] = p[i]
    BY <1>2, <1>3, <1>7
  <2> QED
    BY <1>2, <1>7, <1>9, <2>1, <2>2 DEF Joined
<1>11. Preamble(w, n, id, TRUE)
  <2>1. \A i \in 1..k : i # 12 => w[i] = pre[i]
    BY <1>9
  <2>2. w[1] = pre[1] /\ w[3] = pre[3] /\ w[4] = pre[4] /\ \A i \in 1..3 : w[8 + i] = pre[8 + i]
    BY <1>2, <2>1
  <2>3. w[12] = id[4] + Bit(TRUE)
    <3>1. 12 \in 1..k
      BY <1>2
    <3> QED
      BY <1>4, <1>5, <1>9, <3>1 DEF Bit
  <2>4. PICK m \in Nat : m = header_size(pre) /\ m >= 12 /\ m = header_size(w)
    <3>1. header_size(pre) = header_size(w)
      BY <2>2 DEF header_size
    <3>2. header_size(pre) \in Nat /\ header_size(pre) >= 12
      BY HeaderRead, Zenon
    <3> QED
      BY <3>1, <3>2
  <2>5. (pre[1] \div 16) % 2 # 0 =>
           /\ Len(pre) >= m + 4
           /\ Len(pre) = m + 4 + 4 * (256 * pre[m + 3] + pre[m + 4])
    BY <1>1, <2>4 DEF Preamble
  <2>6. (pre[1] \div 16) % 2 # 0 =>
           /\ Len(w) >= m + 4
           /\ Len(w) = m + 4 + 4 * (256 * w[m + 3] + w[m + 4])
    <3> SUFFICES ASSUME (pre[1] \div 16) % 2 # 0
                 PROVE  Len(w) >= m + 4 /\ Len(w) = m + 4 + 4 * (256 * w[m + 3] + w[m + 4])
      OBVIOUS
    <3>1. k >= m + 4 /\ k = m + 4 + 4 * (256 * pre[m + 3] + pre[m + 4])
      BY <1>2, <2>5
    <3>2. m + 3 \in 1..k /\ m + 4 \in 1..k /\ m + 3 # 12 /\ m + 4 # 12
      BY <2>4, <3>1, SMTT(30)
    <3>3. w[m + 3] = pre[m + 3] /\ w[m + 4] = pre[m + 4]
      BY <2>1, <3>2
    <3> QED
      BY <1>9, <3>1, <3>3
  <2>7. (pre[1] \div 16) % 2 = 0 => Len(w) = m /\ Len(w) <= MaxRecv
    BY <1>1, <1>2, <1>9, <2>4, ZenonT(60) DEF Preamble
  <2>8. /\ pre[1] \div 64 = 2 /\ pre[3] = n \div 256 /\ pre[4] = n % 256
        /\ \A i \in 1..3 : pre[8 + i] = id[i]
    BY <1>1 DEF Preamble
  <2>9. Len(w) >= 12
    BY <1>2, <1>9
  <2>10. \A i \in 1..3 : w[8 + i] = id[i]
    BY <2>2, <2>8
  <2> QED
    BY <2>2, <2>3, <2>4, <2>6, <2>7, <2>8, <2>9, <2>10, ZenonT(30) DEF Preamble
<1>12. Packet(c, w, n, id, p, TRUE)
  BY <1>1, <1>10, <1>11, Zenon DEF Packet
<1>13. SubSeq(c, 1, 11) = SubSeq(b, 1, 11)
  <2>1. 0 \in Nat /\ 11 \in Nat /\ 0 <= 11 /\ 11 <= Len(b) /\ 11 <= Len(c) /\ 0 + 1 = 1 /\ 11 - 0 = 11
    BY <1>2, <1>3, <1>7
  <2>2. PICK u \in Seq(Bytes) : u = SubSeq(c, 1, 11) /\ IsCut(u, c, 0, 11)
    BY <2>1, CutIs, Zenon
  <2>3. PICK v \in Seq(Bytes) : v = SubSeq(b, 1, 11) /\ IsCut(v, b, 0, 11)
    BY <1>1, <2>1, CutIs, ZenonT(30), Zenon
  <2>4. IsCut(u, c, 0, 11) /\ IsCut(v, b, 0, 11)
    BY <2>2, <2>3, Zenon
  <2>5. Len(u) = 11 /\ Len(v) = 11 /\ \A i \in 1..11 : u[i] = c[i] /\ v[i] = b[i]
    BY <2>4 DEF IsCut
  <2>6. \A i \in 1..11 : c[i] = b[i]
    BY <1>2, <1>7, SMTT(30)
  <2>7. u = v
    BY <2>5, <2>6, SameSeq, ZenonT(30), ZenonT(30)
  <2> QED
    BY <2>2, <2>3, <2>7, Zenon
<1>14. Plain(b) => Plain(c)
  BY <1>2, <1>7 DEF Plain
<1> QED
  BY <1>8, <1>12, <1>13, <1>14, Zenon

\* The five fields of a record.
FiveFields(A, B, C, D) == [bytes : A, seq : B, ssrc : C, payload : D, again : BOOLEAN]

\* What the fields are.
Carries(r, b, n, s, p, again) ==
  r.bytes = b /\ r.seq = n /\ r.ssrc = s /\ r.payload = p /\ r.again = again

\* o with other bytes, to be sent again.
Flagged(o, a) == [o EXCEPT !.bytes = a, !.again = TRUE]

LEMMA FieldsChanged ==
  ASSUME NEW A, NEW B, NEW C, NEW D, NEW o \in FiveFields(A, B, C, D), NEW a \in A
  PROVE  \E r \in FiveFields(A, B, C, D) :
           r = Flagged(o, a) /\ Carries(r, a, o.seq, o.ssrc, o.payload, TRUE)
<1>1. PICK r : r = Flagged(o, a)
  OBVIOUS
<1>2. r \in FiveFields(A, B, C, D)
  BY <1>1, Zenon DEF FiveFields, Flagged
<1>3. r.bytes = a /\ r.seq = o.seq /\ r.ssrc = o.ssrc /\ r.payload = o.payload /\ r.again = TRUE
  BY <1>1 DEF FiveFields, Flagged
<1> QED
  BY <1>1, <1>2, <1>3, Zenon DEF Carries

\* A record of a datagram and what was meant by it: the bytes are a packet of
\* that number, stream and payload.
Means(r) ==
  /\ r \in FiveFields(Seq(Bytes), SentNumbers, Ssrcs, Payloads)
  /\ \E pre : Packet(r.bytes, pre, r.seq, r.ssrc, r.payload, r.again)

Original(r) ==
  /\ Means(r) /\ ~r.again /\ Plain(r.bytes)
  /\ r.bytes = write_rtp_header(r.ssrc, r.seq, Timestamp) \o r.payload

\* r is o with the flag.
Again(r, o) ==
  /\ o # Nothing /\ r.payload = o.payload /\ Plain(r.bytes)
  /\ SubSeq(r.bytes, 1, 11) = SubSeq(o.bytes, 1, 11)

RtpInv ==
  /\ kept # Nothing => Original(kept)
  /\ wire # Nothing => Means(wire) /\ (wire.again => Again(wire, kept))

Meant(b, n, s, p) == [bytes |-> b, seq |-> n, ssrc |-> s, payload |-> p, again |-> FALSE]

LEMMA PacketMeans ==
  ASSUME NEW s \in Ssrcs, NEW n \in SentNumbers, NEW p \in Payloads, NEW b, NEW pre,
         Packet(b, pre, n, s, p, FALSE)
  PROVE  \E r : r = Meant(b, n, s, p) /\ Means(r) /\ Carries(r, b, n, s, p, FALSE)
<1>1. b \in Seq(Bytes)
  BY DEF Packet
<1>2. PICK r : r = Meant(b, n, s, p)
  OBVIOUS
<1>3. r.bytes = b /\ r.seq = n /\ r.ssrc = s /\ r.payload = p /\ r.again = FALSE
  BY <1>2 DEF Meant
<1>4. r \in FiveFields(Seq(Bytes), SentNumbers, Ssrcs, Payloads)
  BY <1>1, <1>2 DEF Meant, FiveFields
<1>5. Means(r)
  BY <1>3, <1>4, Zenon DEF Means
<1> QED
  BY <1>2, <1>3, <1>5, Zenon DEF Carries

LEMMA SendMeans ==
  ASSUME NEW s \in Ssrcs, NEW n \in SentNumbers, NEW p \in Payloads, Send(s, n, p)
  PROVE  Original(kept') /\ wire' = kept'
<1>1. PICK b, pre : /\ b = write_rtp_header(s, n, Timestamp) \o p
                    /\ Packet(b, pre, n, s, p, FALSE) /\ Plain(b)
  BY SentIs, Zenon
<1>2. PICK r : r = Meant(b, n, s, p) /\ Means(r) /\ Carries(r, b, n, s, p, FALSE)
  <2>1. Packet(b, pre, n, s, p, FALSE)
    BY <1>1, Zenon
  <2> QED
    BY <2>1, PacketMeans, Zenon
<1>3. kept' = r /\ wire' = kept'
  BY <1>1, <1>2, Zenon DEF Send, Meant
<1>4. r.bytes = b /\ r.seq = n /\ r.ssrc = s /\ r.payload = p /\ ~r.again
  BY <1>2 DEF Carries
<1>5. Original(r)
  BY <1>1, <1>2, <1>4, Zenon DEF Original
<1> QED
  BY <1>3, <1>5, Zenon

LEMMA ForeignMeans ==
  ASSUME NEW h \in Headers, NEW w \in ExtWords, NEW s \in Ssrcs, NEW n \in SentNumbers,
         NEW p \in Payloads, Foreign(h, w, s, n, p)
  PROVE  Means(wire') /\ ~wire'.again /\ kept' = kept
<1>1. PICK b, pre : b = ForeignHead(h, w, s, n) \o p /\ Packet(b, pre, n, s, p, FALSE)
  BY ForeignIs, Zenon
<1>2. PICK r : r = Meant(b, n, s, p) /\ Means(r) /\ Carries(r, b, n, s, p, FALSE)
  <2>1. Packet(b, pre, n, s, p, FALSE)
    BY <1>1, Zenon
  <2> QED
    BY <2>1, PacketMeans, Zenon
<1>3. wire' = r /\ kept' = kept
  BY <1>1, <1>2, Zenon DEF Foreign, Meant
<1>4. ~r.again
  BY <1>2 DEF Carries
<1> QED
  BY <1>2, <1>3, <1>4, Zenon

LEMMA ResendMeans ==
  ASSUME Original(kept), Resend
  PROVE  Means(wire') /\ Again(wire', kept)
<1>1. /\ kept \in FiveFields(Seq(Bytes), SentNumbers, Ssrcs, Payloads)
      /\ kept.again = FALSE /\ Plain(kept.bytes)
  <2>1. Means(kept) /\ ~kept.again /\ Plain(kept.bytes)
    BY DEF Original
  <2>2. kept \in FiveFields(Seq(Bytes), SentNumbers, Ssrcs, Payloads)
    BY <2>1 DEF Means
  <2>3. kept.again \in BOOLEAN
    BY <2>2 DEF FiveFields
  <2> QED
    BY <2>1, <2>2, <2>3
<1>2. PICK pre : Packet(kept.bytes, pre, kept.seq, kept.ssrc, kept.payload, FALSE)
  <2>1. Means(kept)
    BY DEF Original
  <2>2. PICK pre : Packet(kept.bytes, pre, kept.seq, kept.ssrc, kept.payload, kept.again)
    BY <2>1, Zenon DEF Means
  <2> QED
    BY <1>1, <2>2, Zenon
<1>3. Stream(kept.ssrc)
  <2>1. kept.ssrc \in Ssrcs
    BY <1>1 DEF FiveFields
  <2> QED
    BY <2>1, Constants
<1>4. PICK b : b = flag_retransmit(kept.bytes)
  OBVIOUS
<1>5. /\ \E w : Packet(b, w, kept.seq, kept.ssrc, kept.payload, TRUE)
      /\ SubSeq(b, 1, 11) = SubSeq(kept.bytes, 1, 11) /\ (Plain(kept.bytes) => Plain(b))
  BY <1>2, <1>3, <1>4, ResentIs, Zenon
<1>6. b \in Seq(Bytes)
  BY <1>5 DEF Packet
<1>7. PICK r \in FiveFields(Seq(Bytes), SentNumbers, Ssrcs, Payloads) :
         r = Flagged(kept, b) /\ Carries(r, b, kept.seq, kept.ssrc, kept.payload, TRUE)
  BY <1>1, <1>6, FieldsChanged, Zenon
<1>8. /\ r.bytes = b /\ r.seq = kept.seq /\ r.ssrc = kept.ssrc /\ r.payload = kept.payload
       /\ r.again = TRUE
  BY <1>7, Zenon DEF Carries
<1>9. wire' = r /\ kept # Nothing
  BY <1>4, <1>7 DEF Resend, Flagged
<1>10. Means(r)
  BY <1>5, <1>8, Zenon DEF Means
<1> QED
  BY <1>1, <1>5, <1>9, <1>10, <1>8, Zenon DEF Again

\* The datagram in flight and the sender's copy are packets of what was meant, and
\* what is sent again is the sender's copy but for the flag.
LEMMA PacketsMean == RtpSpec => []RtpInv
<1>1. RtpInit => RtpInv
  BY DEF RtpInit, RtpInv
<1>2. RtpInv /\ [RtpNext]_rtpVars => RtpInv'
  <2> SUFFICES ASSUME RtpInv, [RtpNext]_rtpVars
               PROVE  RtpInv'
    OBVIOUS
  <2>1. CASE Resend
    <3>1. kept # Nothing /\ Original(kept) /\ kept' = kept
      BY <2>1 DEF RtpInv, Resend
    <3>2. Means(wire') /\ Again(wire', kept)
      BY <2>1, <3>1, ResendMeans, Zenon
    <3> QED
      BY <3>1, <3>2, Zenon DEF RtpInv
  <2>2. ASSUME NEW s \in Ssrcs, NEW n \in SentNumbers, NEW p \in Payloads, Send(s, n, p)
        PROVE  RtpInv'
    <3>1. Original(kept') /\ wire' = kept'
      BY <2>2, SendMeans, Zenon
    <3>2. Means(wire') /\ ~wire'.again
      BY <3>1, Zenon DEF Original
    <3> QED
      BY <3>1, <3>2, Zenon DEF RtpInv
  <2>3. ASSUME NEW s \in Ssrcs, NEW n \in SentNumbers, NEW p \in Payloads,
               NEW h \in Headers, NEW w \in ExtWords, Foreign(h, w, s, n, p)
        PROVE  RtpInv'
    <3>1. Means(wire') /\ ~wire'.again /\ kept' = kept
      BY <2>3, ForeignMeans, Zenon
    <3> QED
      BY <3>1, Zenon DEF RtpInv
  <2>4. CASE UNCHANGED rtpVars
    BY <2>4 DEF RtpInv, rtpVars
  <2> QED
    BY <2>1, <2>2, <2>3, <2>4, Zenon DEF RtpNext
<1> QED
  BY <1>1, <1>2, PTL DEF RtpSpec

\* What parse_rtp returns for bytes that it takes.
LEMMA ParsedIs ==
  ASSUME NEW b, RtpHeader_ok(b)
  PROVE  /\ parse_rtp(b).seq = sequence_number(b) /\ parse_rtp(b).ssrc = ssrc_of(b)
         /\ parse_rtp(b).payload = SubSeq(b, header_size(b) + 1, Len(b))
         /\ parse_rtp(b).again = is_retransmit(ssrc_of(b))
BY Zenon DEF parse_rtp

\* A packet that fits the read buffer is read as it was meant, and of one without
\* an extension the start of the payload is read in any case.
LEMMA ReceivedIs ==
  ASSUME wire # Nothing, Means(wire)
  PROVE  /\ RtpPacket_ok(wire.bytes) /\ RtpPacket_payload(wire.bytes) = wire.payload
         /\ Fits => /\ received.seq = wire.seq /\ received.again = wire.again
                    /\ logical_ssrc(received.ssrc) = wire.ssrc
                    /\ ~Extended => received.payload = wire.payload
         /\ ~Extended => StartOf(received.payload, wire.payload)
<1>1. PICK b, n, id, p, again :
         b = wire.bytes /\ n = wire.seq /\ id = wire.ssrc /\ p = wire.payload /\ again = wire.again
  OBVIOUS
<1>2. n \in SentNumbers /\ id \in Ssrcs /\ again \in BOOLEAN
  BY <1>1 DEF Means, FiveFields
<1>3. PICK pre : Packet(b, pre, n, id, p, again)
  BY <1>1, Zenon DEF Means
<1>4. Stream(id) /\ n \in Nat /\ MaxRecv \in Nat
  BY <1>2, Constants
<1>5. /\ RtpHeader_ok(b) /\ sequence_number(b) = n /\ is_retransmit(ssrc_of(b)) = again
      /\ logical_ssrc(ssrc_of(b)) = id
      /\ RtpPacket_ok(b) /\ RtpPacket_payload(b) = p
      /\ (b[1] \div 16) % 2 = 0 => SubSeq(b, header_size(b) + 1, Len(b)) = p
  BY <1>2, <1>3, <1>4, WholeRead
<1>6. /\ b \in Seq(Bytes) /\ Len(b) \in Nat /\ Len(pre) \in Nat /\ Len(pre) <= Len(b) /\ Len(b) >= 12
  <2>1. b \in Seq(Bytes) /\ pre \in Seq(Bytes) /\ p \in Seq(Bytes) /\ Joined(b, pre, p)
    BY <1>3 DEF Packet
  <2>2. Len(b) = Len(pre) + Len(p)
    BY <2>1 DEF Joined
  <2>3. Len(pre) >= 12
    BY <1>3 DEF Packet, Preamble
  <2>4. Len(pre) \in Nat /\ Len(p) \in Nat
    BY <2>1
  <2> QED
    BY <2>1, <2>2, <2>3, <2>4
<1>7. ~Extended => (b[1] \div 16) % 2 = 0
  <2>1. 1 \in 1..Len(b)
    BY <1>6
  <2>2. b[1] \in Bytes
    BY <1>6, <2>1
  <2>3. b[1] \in Nat
    BY <2>2, ByteType
  <2>4. (b[1] \div 16) % 2 \in {0, 1}
    BY <2>3
  <2> QED
    BY <1>1, <2>4 DEF Extended
<1>8. PICK m \in Nat : m = IF Len(b) < MaxRecv THEN Len(b) ELSE MaxRecv
  BY <1>4, <1>6
<1>9. received = parse_rtp(SubSeq(b, 1, m))
  BY <1>1, <1>8, Zenon DEF received
<1>10. Fits => received = parse_rtp(b)
  <2> SUFFICES ASSUME Fits PROVE received = parse_rtp(b)
    OBVIOUS
  <2>1. m = Len(b)
    BY <1>1, <1>4, <1>6, <1>8 DEF Fits
  <2>2. SubSeq(b, 1, Len(b)) = b
    BY <1>6
  <2> QED
    BY <1>9, <2>1, <2>2, ZenonT(30), Zenon
<1>11. parse_rtp(b).seq = n /\ parse_rtp(b).again = again /\ logical_ssrc(parse_rtp(b).ssrc) = id
  BY <1>5, ParsedIs
<1>12. parse_rtp(b).payload = SubSeq(b, header_size(b) + 1, Len(b))
  BY <1>5, ParsedIs
<1>13. ~Extended => StartOf(received.payload, p)
  <2> SUFFICES ASSUME ~Extended PROVE StartOf(received.payload, p)
    OBVIOUS
  <2>1. (b[1] \div 16) % 2 = 0
    BY <1>7
  <2>2. Len(pre) <= MaxRecv
    <3>1. b[1] = pre[1]
      BY <1>3, HeaderRead
    <3>2. (pre[1] \div 16) % 2 = 0 => Len(pre) <= MaxRecv
      BY <1>3 DEF Packet, Preamble
    <3> QED
      BY <2>1, <3>1, <3>2
  <2>3. m <= Len(b) /\ Len(pre) <= m
    BY <1>4, <1>6, <1>8, <2>2
  <2>4. PICK c \in Seq(Bytes) :
           /\ c = SubSeq(b, 1, m) /\ RtpHeader_ok(c)
           /\ StartOf(SubSeq(c, header_size(c) + 1, Len(c)), p)
    BY <1>2, <1>3, <1>4, <2>1, <2>3, CutRead
  <2>5. parse_rtp(c).payload = SubSeq(c, header_size(c) + 1, Len(c))
    BY <2>4, ParsedIs, Zenon
  <2>6. received = parse_rtp(c)
    BY <1>9, <2>4, Zenon
  <2> QED
    BY <2>4, <2>5, <2>6, ZenonT(30), Zenon
<1> QED
  BY <1>1, <1>5, <1>7, <1>10, <1>11, <1>12, <1>13, Zenon

\* Every RTP packet arrives as it was meant: its number, its stream and whether it
\* is a retransmission are read as they were written, a retransmission differs
\* from the original in the flag alone, and the payload is delivered, cut to the
\* read buffer if it has to be, whatever CSRC words precede it (RtpHeader,
\* write_rtp_header, the retransmission in the sender task and parse_rtp).
THEOREM PacketsArrive == RtpSpec => []Delivered
<1>1. RtpInv => Delivered
  <2> SUFFICES ASSUME RtpInv PROVE Delivered
    OBVIOUS
  <2>1. CASE wire = Nothing
    BY <2>1 DEF Delivered, Fits
  <2>2. CASE wire # Nothing
    <3>1. Means(wire) /\ (wire.again => Again(wire, kept))
      BY <2>2, Zenon DEF RtpInv
    <3>2. /\ Fits => /\ received.seq = wire.seq /\ received.again = wire.again
                     /\ logical_ssrc(received.ssrc) = wire.ssrc
                     /\ ~Extended => received.payload = wire.payload
          /\ ~Extended => StartOf(received.payload, wire.payload)
      BY <2>2, <3>1, ReceivedIs
    <3>3. wire.again => /\ ~Extended /\ wire.payload = kept.payload
                        /\ SubSeq(wire.bytes, 1, 11) = SubSeq(kept.bytes, 1, 11)
      <4>1. (128 \div 16) % 2 # 1
        OBVIOUS
      <4> QED
        BY <3>1, <4>1 DEF Again, Plain, Extended
    <3> QED
      BY <3>2, <3>3, Zenon DEF Delivered
  <2> QED
    BY <2>1, <2>2
<1> QED
  BY <1>1, PacketsMean, PTL

\* The sender task's own header is byte for byte that of RtpPacket's serializer,
\* and RtpPacket's parser finds the payload of every packet behind CSRC words and
\* an extension of any length.
THEOREM CodecsMeet == RtpSpec => []CodecsAgree
<1>1. RtpInv => CodecsAgree
  <2> SUFFICES ASSUME RtpInv PROVE CodecsAgree
    OBVIOUS
  <2>1. ASSUME kept # Nothing
        PROVE  kept.bytes = RtpPacket_serialize(new_ts(kept.ssrc, kept.seq, Timestamp), kept.payload)
    <3>1. kept.bytes = write_rtp_header(kept.ssrc, kept.seq, Timestamp) \o kept.payload
      BY <2>1, Zenon DEF RtpInv, Original
    <3>2. write_rtp_header(kept.ssrc, kept.seq, Timestamp)
            = RtpHeader_serialize(new_ts(kept.ssrc, kept.seq, Timestamp))
      BY WritersAgree
    <3> QED
      BY <3>1, <3>2 DEF RtpPacket_serialize
  <2>2. ASSUME wire # Nothing
        PROVE  RtpPacket_ok(wire.bytes) /\ RtpPacket_payload(wire.bytes) = wire.payload
    <3>1. Means(wire)
      BY <2>2 DEF RtpInv
    <3> QED
      BY <2>2, <3>1, ReceivedIs
  <2> QED
    BY <2>1, <2>2 DEF CodecsAgree
<1> QED
  BY <1>1, PacketsMean, PTL

=============================================================================
