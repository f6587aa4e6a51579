---------------------------- MODULE FirstArrival ----------------------------
(***************************************************************************)
(* What a hitless merger promises ("First arrival wins; duplicates are       *)
(* dropped"): of the copies of a packet that the paths bring, the first is   *)
(* emitted and the others are not, over a window of packets behind the       *)
(* newest; what is older than the window is dropped.                         *)
(***************************************************************************)
EXTENDS Integers

CONSTANTS Window,   \* packets remembered
          MaxIndex  \* last packet of the stream (bound)

VARIABLES top,      \* newest packet emitted, or -1
          emitted,  \* packets of the window that were emitted
          outcome   \* what became of the last arrival

vars == <<top, emitted, outcome>>

Init == top = -1 /\ emitted = {} /\ outcome = [verdict |-> "none", e |-> -1]

Emit(e) ==
  /\ e \notin emitted /\ (top = -1 \/ e > top - Window)
  /\ top' = IF e > top THEN e ELSE top
  /\ emitted' = {x \in emitted \cup {e} : x > top' - Window}
  /\ outcome' = [verdict |-> "emit", e |-> e]

Duplicate(e) == e \in emitted /\ outcome' = [verdict |-> "duplicate", e |-> e] /\ UNCHANGED <<top, emitted>>

Late(e) == e <= top - Window /\ outcome' = [verdict |-> "late", e |-> e] /\ UNCHANGED <<top, emitted>>

Next == \E e \in 0..MaxIndex : Emit(e) \/ Duplicate(e) \/ Late(e)

Spec == Init /\ [][Next]_vars

=============================================================================
