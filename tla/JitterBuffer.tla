----------------------------- MODULE JitterBuffer -----------------------------
(***************************************************************************)
(* What the reorder buffer promises, with no ring, no wrapping and no clock: *)
(* packets numbered by an unbounded index are held in a set, and a cursor    *)
(* moves up through the indices, handing over the held packet at each index  *)
(* or passing over an index that is not held.                                *)
(***************************************************************************)
EXTENDS Naturals

CONSTANT Indices   \* the packets of the stream

VARIABLES cursor,   \* next index to settle
          held,     \* packets accepted and not yet settled
          last      \* last packet handed over, plus one; 0 before the first

jvars == <<cursor, held, last>>

JInit == cursor = 0 /\ held = {} /\ last = 0

\* A packet at or above the cursor is taken in.  The cursor may jump forward
\* to c to make room (or to anchor the stream): older packets are dropped, the
\* new one and everything from c on are kept.
Accept(e, c) ==
  /\ cursor <= c /\ c <= e
  /\ cursor' = c
  /\ held' = {x \in held : x >= c} \cup {e}
  /\ UNCHANGED last

\* The packet at the cursor is handed over.
HandOver ==
  /\ cursor \in held
  /\ last' = cursor + 1
  /\ held' = held \ {cursor}
  /\ cursor' = cursor + 1

\* The packet at the cursor never came.
PassOver ==
  /\ cursor \notin held
  /\ cursor' = cursor + 1
  /\ UNCHANGED <<held, last>>

JNext == (\E e, c \in Indices : Accept(e, c)) \/ HandOver \/ PassOver

JSpec == JInit /\ [][JNext]_jvars

=============================================================================
