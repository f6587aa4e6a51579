----------------------------- MODULE DrainThread -----------------------------
(***************************************************************************)
(* The receiver's two threads of control around the shared reorder buffer    *)
(* (rist-transport/src/receiver.rs): the receive task, which inserts bursts  *)
(* under the mutex and notifies the condition variable, and the dedicated    *)
(* delivery thread, which drains under the mutex, waits on the condition     *)
(* variable, and sends to the application channel outside the mutex.         *)
(***************************************************************************)
EXTENDS ReorderBuffer, Sequences

CONSTANTS Packets,    \* stream indices of the packets the network may deliver
          MaxBatch,   \* datagrams drained per socket wake-up (MAX_BATCH)
          ChanCap     \* capacity of the application channel

\* The packets of a run are less than half the sequence space apart, what the
\* i16 comparison presumes of the arrivals (bound).
ASSUME DrainAssumption ==
  /\ Packets \subseteq Nat
  /\ \A d, e \in Packets : e - d < Half
  /\ MaxBatch \in Nat \ {0} /\ ChanCap \in Nat \ {0}

VARIABLES
  buf,        \* Mutex<ReorderBuffer>: the value
  lock,       \* ... and who holds it: "free", "recv" or "drain"
  now,        \* the clock
  cancelled,  \* the CancellationToken
  pcR,        \* where the receive task is
  batch,      \* the burst it is inserting
  arr,        \* the burst's arrival time
  coming,     \* packets the network has yet to deliver or lose
  pcD,        \* where the delivery thread is
  dnow,       \* its clock reading for drain_ready
  until,      \* deadline of its timed wait
  scratch,    \* drained items not yet sent; Lost is 0, packet e is e + 1
  chan,       \* the application channel
  open,       \* the application still holds the channel's receiver
  stats,      \* [drops, lost, dup]: reorder_drops, packets_lost, duplicates
  due         \* ghost: packets inserted, less those the application took (or
              \* left in a channel it dropped), those an overflow flushed and
              \* those that were overrun

recvVars  == <<pcR, batch, arr, coming>>
drainVars == <<pcD, dnow, until, scratch>>
appVars   == <<chan, open>>
vars == <<buf, lock, now, cancelled, recvVars, drainVars, appVars, stats, due>>

Init ==
  /\ buf = NewBuffer /\ lock = "free" /\ now = 0 /\ cancelled = FALSE
  /\ pcR = "start" /\ batch = <<>> /\ arr = 0 /\ coming = Packets
  /\ pcD = "lock" /\ dnow = 0 /\ until = 0 /\ scratch = <<>>
  /\ chan = <<>> /\ open = TRUE
  /\ stats = [drops |-> 0, lost |-> 0, dup |-> 0]
  /\ due = 0

\* notify_one and notify_all: at most the delivery thread waits.
Notify == pcD' = IF pcD \in {"parked", "sleeping"} THEN "lock" ELSE pcD

-----------------------------------------------------------------------------
(* The receive task *)

\* The delivery thread is already running when the task asks both sockets for
\* their address, to log it; an error ends the task there.
RecvStart ==
  /\ pcR = "start"
  /\ pcR' \in {"select", "failed"}
  /\ UNCHANGED <<buf, lock, now, cancelled, batch, arr, coming, drainVars, appVars, stats, due>>

\* A burst of admitted datagrams is read off the socket; the clock is read
\* once for all of them, before the lock.
RecvBurst(b) ==
  /\ pcR = "select"
  /\ pcR' = "insert"
  /\ batch' = b
  /\ arr' = now
  /\ coming' = coming \ {b[k] : k \in DOMAIN b}
  /\ UNCHANGED <<buf, lock, now, cancelled, drainVars, appVars, stats, due>>

\* A packet more than a ring past everything taken in, when all of that has been
\* drained: its own slot is among those its insert then flags as gaps, and
\* drain_ready reports it lost (ghost).
Overruns(b, s) ==
  b.started /\ PastHighest(b) /\ ~Resets(b, s) /\ diff(b.highest, s) > Cap

\* insert() of the next packet of the burst.  The lock is taken with the first
\* and released with the last; the statistics the task updates from the
\* outcome after the unlock are folded in here.
RecvInsert ==
  /\ pcR = "insert"
  /\ lock \in {"free", "recv"}
  /\ LET e == Head(batch)
         s == Wire(e)
     IN  /\ buf' = Insert(buf, s, e, arr)
         /\ stats' = [stats EXCEPT
                        !.drops = @ + IF IsStale(buf, s) THEN 1 ELSE 0,
                        !.dup = @ + IF IsDuplicate(buf, s) THEN 1 ELSE 0,
                        !.lost = @ + OverflowFlushed(buf, s)]
         /\ due' = due + 1 - OverflowFlushed(buf, s) - (IF Overruns(buf, s) THEN 1 ELSE 0)
  /\ batch' = Tail(batch)
  /\ lock' = IF Len(batch) = 1 THEN "free" ELSE "recv"
  /\ pcR' = IF Len(batch) = 1 THEN "notify" ELSE "insert"
  /\ UNCHANGED <<now, cancelled, arr, coming, drainVars, appVars>>

\* Mutant: the notification is forgotten.
RecvNotifyForgotten ==
  /\ pcR = "notify"
  /\ pcR' = "select"
  /\ UNCHANGED <<buf, lock, now, cancelled, batch, arr, coming, drainVars, appVars, stats, due>>

\* notify_one after the unlock.
RecvNotify ==
  /\ pcR = "notify"
  /\ pcR' = "select"
  /\ Notify
  /\ UNCHANGED <<buf, lock, now, cancelled, batch, arr, coming, dnow, until, scratch,
                 appVars, stats, due>>

\* select! takes the cancelled branch and leaves the loop.
RecvCancelled ==
  /\ pcR = "select"
  /\ cancelled
  /\ pcR' = "shutdown"
  /\ UNCHANGED <<buf, lock, now, cancelled, batch, arr, coming, drainVars, appVars, stats, due>>

\* notify_all, without the lock.
RecvShutdown ==
  /\ pcR = "shutdown"
  /\ pcR' = "join"
  /\ Notify
  /\ UNCHANGED <<buf, lock, now, cancelled, batch, arr, coming, dnow, until, scratch,
                 appVars, stats, due>>

\* The delivery thread is joined; only then does the task end and drop the sockets.
RecvJoin ==
  /\ pcR = "join"
  /\ pcD = "exited"
  /\ pcR' = "done"
  /\ UNCHANGED <<buf, lock, now, cancelled, batch, arr, coming, drainVars, appVars, stats, due>>

-----------------------------------------------------------------------------
(* The delivery thread *)

DrainLock ==
  /\ pcD = "lock"
  /\ lock = "free"
  /\ lock' = "drain"
  /\ pcD' = "check"
  /\ UNCHANGED <<buf, now, cancelled, recvVars, dnow, until, scratch, appVars, stats, due>>

\* Mutant: the cancellation is not looked at.
DrainCheckIgnoresCancel ==
  /\ pcD = "check"
  /\ pcD' = "drain"
  /\ dnow' = now
  /\ scratch' = <<>>
  /\ UNCHANGED <<buf, lock, now, cancelled, recvVars, until, appVars, stats, due>>

\* Return if cancelled, else read the clock and enter drain_ready.
DrainCheck ==
  /\ pcD = "check"
  /\ lock' = IF cancelled THEN "free" ELSE lock
  /\ pcD' = IF cancelled THEN "exited" ELSE "drain"
  /\ dnow' = now
  /\ scratch' = <<>>
  /\ UNCHANGED <<buf, now, cancelled, recvVars, until, appVars, stats, due>>

\* One turn of drain_ready's loop.
DrainTurn ==
  /\ pcD = "drain"
  /\ HeadReady(buf, dnow)
  /\ scratch' = Append(scratch, IF HeadDelivers(buf) THEN HeadSlot(buf).data + 1 ELSE 0)
  /\ buf' = DropHead(buf)
  /\ UNCHANGED <<lock, now, cancelled, recvVars, pcD, dnow, until, appVars, stats, due>>

\* drain_ready returns: go and deliver without the lock, or look for a deadline.
DrainReturn ==
  /\ pcD = "drain"
  /\ ~HeadReady(buf, dnow)
  /\ pcD' = IF scratch = <<>> THEN "wait" ELSE "deliver"
  /\ lock' = IF scratch = <<>> THEN lock ELSE "free"
  /\ UNCHANGED <<buf, now, cancelled, recvVars, dnow, until, scratch, appVars, stats, due>>

\* Mutant: the wait has no timeout.
DrainWaitUntimed ==
  /\ pcD = "wait"
  /\ lock' = "free"
  /\ pcD' = IF HasDeadline(buf) /\ Deadline(buf, now) <= now THEN "lock" ELSE "parked"
  /\ until' = 0
  /\ UNCHANGED <<buf, now, cancelled, recvVars, dnow, scratch, appVars, stats, due>>

\* next_drain_time: wait, wait_timeout, or go round again.  Waiting releases
\* the mutex atomically.
DrainWait ==
  /\ pcD = "wait"
  /\ lock' = "free"
  /\ \/ /\ ~HasDeadline(buf)
        /\ pcD' = "parked" /\ until' = 0
     \/ /\ HasDeadline(buf) /\ Deadline(buf, now) > now
        /\ pcD' = "sleeping" /\ until' = Deadline(buf, now)
     \/ /\ HasDeadline(buf) /\ Deadline(buf, now) <= now
        /\ pcD' = "lock" /\ until' = 0
  /\ UNCHANGED <<buf, now, cancelled, recvVars, dnow, scratch, appVars, stats, due>>

\* wait_timeout's deadline passes.  (The mutex re-acquired on return is
\* dropped at once, so waking up is going back to "lock".)
DrainTimeout ==
  /\ pcD = "sleeping"
  /\ now >= until
  /\ pcD' = "lock"
  /\ UNCHANGED <<buf, lock, now, cancelled, recvVars, dnow, until, scratch, appVars, stats, due>>

\* A condition variable may wake without a reason.
DrainSpurious ==
  /\ pcD \in {"parked", "sleeping"}
  /\ pcD' = "lock"
  /\ UNCHANGED <<buf, lock, now, cancelled, recvVars, dnow, until, scratch, appVars, stats, due>>

\* Mutant: the drained items are taken from the wrong end.
DrainSendNewestFirst ==
  /\ pcD = "deliver"
  /\ scratch # <<>>
  /\ scratch' = SubSeq(scratch, 1, Len(scratch) - 1)
  /\ LET item == scratch[Len(scratch)]
         sends == item # 0 /\ open /\ Len(chan) < ChanCap
     IN  /\ chan' = IF sends THEN Append(chan, item - 1) ELSE chan
         /\ stats' = [stats EXCEPT !.lost = @ + IF item = 0 THEN 1 ELSE 0,
                                   !.drops = @ + IF item # 0 /\ ~sends THEN 1 ELSE 0]
  /\ UNCHANGED <<buf, lock, now, cancelled, recvVars, pcD, dnow, until, open, due>>

\* Mutant: a send to a closed channel is not counted.
DrainSendUncounted ==
  /\ pcD = "deliver"
  /\ scratch # <<>>
  /\ scratch' = Tail(scratch)
  /\ LET item == Head(scratch)
         sends == item # 0 /\ open /\ Len(chan) < ChanCap
     IN  /\ chan' = IF sends THEN Append(chan, item - 1) ELSE chan
         /\ stats' = [stats EXCEPT !.lost = @ + IF item = 0 THEN 1 ELSE 0,
                                   !.drops = @ + IF item # 0 /\ open /\ ~sends THEN 1 ELSE 0]
  /\ UNCHANGED <<buf, lock, now, cancelled, recvVars, pcD, dnow, until, open, due>>

\* try_send of the next drained item, outside the lock.
DrainSend ==
  /\ pcD = "deliver"
  /\ scratch # <<>>
  /\ scratch' = Tail(scratch)
  /\ LET item == Head(scratch)
         sends == item # 0 /\ open /\ Len(chan) < ChanCap
     IN  /\ chan' = IF sends THEN Append(chan, item - 1) ELSE chan
         /\ stats' = [stats EXCEPT !.lost = @ + IF item = 0 THEN 1 ELSE 0,
                                   !.drops = @ + IF item # 0 /\ ~sends THEN 1 ELSE 0]
  /\ UNCHANGED <<buf, lock, now, cancelled, recvVars, pcD, dnow, until, open, due>>

DrainLoop ==
  /\ pcD = "deliver"
  /\ scratch = <<>>
  /\ pcD' = "lock"
  /\ UNCHANGED <<buf, lock, now, cancelled, recvVars, dnow, until, scratch, appVars, stats, due>>

-----------------------------------------------------------------------------
(* The environment *)

\* The application takes a packet, or drops its end of the channel.
AppRecv ==
  /\ chan # <<>>
  /\ chan' = Tail(chan)
  /\ due' = due - 1
  /\ UNCHANGED <<buf, lock, now, cancelled, recvVars, drainVars, open, stats>>

AppDrop ==
  /\ open
  /\ open' = FALSE
  /\ chan' = <<>>
  /\ due' = due - Len(chan)
  /\ UNCHANGED <<buf, lock, now, cancelled, recvVars, drainVars, stats>>

\* RistSocket::close.
Cancel ==
  /\ ~cancelled
  /\ cancelled' = TRUE
  /\ UNCHANGED <<buf, lock, now, recvVars, drainVars, appVars, stats, due>>

\* The clock matters while something is held, or about to be, and not yet due.
Tick ==
  /\ \/ \E i \in Ring : buf.slots[i].state # "Empty" /\ ~Expired(buf.slots[i].at, now)
     \/ batch # <<>> /\ ~Expired(arr, now)
  /\ now' = now + 1
  /\ UNCHANGED <<buf, lock, cancelled, recvVars, drainVars, appVars, stats, due>>

\* Bursts of one datagram, or of two, one of which may repeat the other.
Bursts ==
  {<<e>> : e \in coming} \cup
  (IF MaxBatch > 1 THEN coming \X coming ELSE {})

Recv == RecvStart \/ RecvInsert \/ RecvNotify \/ RecvShutdown \/ RecvJoin

Drain ==
  \/ DrainLock \/ DrainCheck \/ DrainTurn \/ DrainReturn \/ DrainWait
  \/ DrainTimeout \/ DrainSend \/ DrainLoop

Next ==
  \/ \E b \in Bursts : RecvBurst(b)
  \/ Recv \/ RecvCancelled
  \/ Drain \/ DrainSpurious
  \/ AppRecv \/ AppDrop \/ Cancel \/ Tick

\* Both threads are scheduled and get a mutex that is released again and again;
\* select! picks among its ready branches at random, so the cancelled branch is
\* taken in the end.  Nothing is assumed of the network, the application, or of
\* spurious wake-ups.
Fairness ==
  /\ WF_vars(Recv) /\ SF_vars(RecvInsert) /\ SF_vars(RecvCancelled)
  /\ WF_vars(Drain) /\ SF_vars(DrainLock)
  /\ WF_vars(Tick)

Spec == Init /\ [][Next]_vars
FairSpec == Spec /\ Fairness

-----------------------------------------------------------------------------
(* Properties *)

Item == {0} \cup {e + 1 : e \in Packets}

\* Every variable has its type.
TypeOK ==
  /\ buf \in Buffer
  /\ lock \in {"free", "recv", "drain"}
  /\ now \in Nat /\ arr \in Nat /\ dnow \in Nat /\ until \in Nat
  /\ cancelled \in BOOLEAN /\ open \in BOOLEAN
  /\ pcR \in {"start", "failed", "select", "insert", "notify", "shutdown", "join", "done"}
  /\ batch \in Seq(Packets) /\ coming \subseteq Packets
  /\ pcD \in {"lock", "check", "drain", "wait", "parked", "sleeping", "deliver", "exited"}
  /\ scratch \in Seq(Item) /\ chan \in Seq(Packets)
  /\ stats \in [drops : Nat, lost : Nat, dup : Nat]
  /\ due \in Int

\* Nobody else holds the lock, or is about to wake the delivery thread.
Quiet == lock = "free" /\ pcR \in {"start", "failed", "select", "join", "done"}

\* No missed wake-up: once the receive task has notified, a delivery thread in
\* the untimed wait has nothing to release, and one in the timed wait is not
\* due to wake after the head's deadline.  Holds because the insert is under
\* the mutex that the wait releases (comment at receiver.rs:166-169).
NoMissedWake ==
  Quiet =>
    /\ pcD = "parked" => ~HasDeadline(buf)
    /\ pcD = "sleeping" /\ HasDeadline(buf) => until <= Deadline(buf, now)

Held == {buf.slots[i].data : i \in FilledIn(buf)}

\* A drained item that carries a packet, and the places of those in a sequence.
IsPacket(item) == item # 0
Carrying(items) == {k \in DOMAIN items : IsPacket(items[k])}

\* Packets reach the application in stream order: what is in the channel, what
\* the delivery thread has drained and not sent, and what is still in the ring
\* follow each other, whatever is dropped on the way.
InOrderAcrossThreads ==
  /\ \A j, k \in DOMAIN chan : j < k => chan[j] < chan[k]
  /\ \A j, k \in DOMAIN scratch :
       j < k /\ IsPacket(scratch[j]) /\ IsPacket(scratch[k]) => scratch[j] < scratch[k]
  /\ \A j \in DOMAIN chan, k \in DOMAIN scratch :
       IsPacket(scratch[k]) => chan[j] < scratch[k] - 1
  /\ \A e \in Held :
       /\ \A j \in DOMAIN chan : chan[j] < e
       /\ \A k \in DOMAIN scratch : IsPacket(scratch[k]) => scratch[k] - 1 < e

\* No packet vanishes: each one inserted is in the ring, in the delivery
\* thread's hands, in the channel, taken by the application, flushed, overrun,
\* or counted as a drop or a duplicate.
NothingVanishes ==
  due = Cardinality(Held) + Cardinality(Carrying(scratch)) + Len(chan)
        + stats.drops + stats.dup

\* A packet that reached the buffer is released to the application, dropped
\* with the drop counted, or flushed: it leaves the ring, unless the socket is
\* closed first.
EventuallyReleased ==
  \A e \in Packets : e \in Held ~> (e \notin Held \/ cancelled)

\* Once the socket is closed both threads end, except when the delivery thread
\* entered the untimed wait after the notification had gone by, or the task
\* failed at its start.
ShutdownOrParked ==
  cancelled ~> (pcR \in {"done", "failed"} \/ (pcR = "join" /\ pcD = "parked"))

\* What the comments at receiver.rs:146 and 579-580 say of the shutdown: the
\* notification makes the delivery thread observe the cancellation and exit.
ShutdownCompletes == cancelled ~> pcR \in {"done", "failed"}

=============================================================================
