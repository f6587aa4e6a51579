----------------------------- MODULE SenderTask -----------------------------
(***************************************************************************)
(* The sender task (rist-transport/src/sender.rs): a select! loop over the   *)
(* application's channel, the RTCP socket, the report timer and the token.   *)
(* Each arm runs to its end before the next is chosen, so an arm is one      *)
(* action.  The e-th packet of the stream carries Wire(e).  Statistics are   *)
(* left out (the task never reads them), so a failed send changes nothing;   *)
(* the report timer's state is RttEstimator's.                               *)
(***************************************************************************)
EXTENDS RetransmitBuffer, PeerHosts, Sequences, Functions, FiniteSets

CONSTANTS OurSsrc,    \* even: the lowest bit is the retransmit flag
          Datagrams,  \* decoded compounds the receiver may send
          Keepalive,  \* one of them, which a live receiver repeats
          ChanCap,    \* capacity of the application channel: 256
          Start,      \* index of the first packet: the number it has is random
          MaxSent     \* packets the application sends (bound)

\* A decoded sub-packet: a NACK (RTPFB, or APP range) as the numbers it names,
\* an echo request, or one the sender does not act on.
SubPackets ==
  [type : {"nack"}, ssrc : Nat, seqs : Seq(SeqNos)] \cup [type : {"echo_request", "other"}]

ASSUME SenderAssumption ==
  /\ Datagrams \subseteq Seq(SubPackets)
  /\ OurSsrc \in Nat /\ OurSsrc % 2 = 0 /\ Keepalive \in Datagrams
  /\ ChanCap \in Nat \ {0} /\ Start \in Nat /\ MaxSent \in Nat

VARIABLES
  running,    \* the loop has not been left
  cancelled,  \* the CancellationToken
  open,       \* the application holds the channel's sender
  queued,     \* payloads in the channel
  seq,        \* next sequence number
  ring,       \* the retransmit buffer
  peer,       \* remote_rtcp_addr
  left,       \* rtcp_peer_live: what is left of the grace period
  reply,      \* what the last RTCP datagram made the task send: packets
              \* again, and echo responses
  \* Ghosts:
  next,       \* the stream index that seq stands for
  age         \* time since the peer's last accepted datagram, up to Grace

appVars == <<cancelled, open, queued>>
mediaVars == <<seq, ring, next>>
peerVars == <<peer, left, reply, age>>
svars == <<running, appVars, mediaVars, peerVars, only>>

SInit ==
  /\ running = TRUE /\ cancelled = FALSE /\ open = TRUE /\ queued = 0
  /\ seq = Wire(Start) /\ ring = NewRetx /\ next = Start
  /\ peer \in Addrs /\ left = 0 /\ age = Grace /\ only = None
  /\ reply = [served |-> <<>>, echoes |-> 0]

-----------------------------------------------------------------------------
(* The application *)

AppSend ==
  /\ running /\ open /\ queued < ChanCap /\ next + queued < Start + MaxSent
  /\ queued' = queued + 1
  /\ UNCHANGED <<running, cancelled, open, mediaVars, peerVars, only>>

\* Dropping the socket drops the channel's only sender.
AppDrop ==
  /\ open /\ open' = FALSE
  /\ UNCHANGED <<running, cancelled, queued, mediaVars, peerVars, only>>

Close ==
  /\ ~cancelled /\ cancelled' = TRUE
  /\ UNCHANGED <<running, open, queued, mediaVars, peerVars, only>>

-----------------------------------------------------------------------------
(* The arms of the loop *)

\* A payload is stored, sent and numbered, whether or not the send succeeds.
Media ==
  /\ running /\ queued > 0
  /\ queued' = queued - 1
  /\ ring' = insertRetx(ring, seq, next)
  /\ seq' = wrapping_add(seq, 1) /\ next' = next + 1
  /\ UNCHANGED <<running, cancelled, open, peerVars, only>>

\* Mutant: a closed channel does not end the loop.
ExitOnCloseOnly(why) ==
  /\ running /\ why = "cancelled" /\ cancelled
  /\ running' = FALSE
  /\ UNCHANGED <<appVars, mediaVars, peerVars, only>>

\* The loop is left: the token, the closed and empty channel, or (the ? on
\* recv_from) an error of the RTCP socket.
Exit(why) ==
  /\ running
  /\ why = "cancelled" => cancelled
  /\ why = "closed" => ~open /\ queued = 0
  /\ running' = FALSE
  /\ UNCHANGED <<appVars, mediaVars, peerVars, only>>

EchoItem == -1

\* What a compound makes the task do, item by item: the numbers named by the
\* NACKs that are ours, and the echo requests.
Items(dg) ==
  LET of(k) ==
        CASE dg[k].type = "nack" /\ nack_targets_us(dg[k].ssrc, OurSsrc) -> dg[k].seqs
          [] dg[k].type = "echo_request" -> <<EchoItem>>
          [] OTHER -> <<>>
      upTo[k \in 0..Len(dg)] == IF k = 0 THEN <<>> ELSE upTo[k - 1] \o of(k)
  IN  upTo[Len(dg)]

\* Mutant: the retransmissions are not charged.
ServeItemUncharged(w, s) ==
  CASE w.spent -> w
    [] ~w.spent /\ s = EchoItem -> [w EXCEPT !.echoes = @ + 1]
    [] ~w.spent /\ s # EchoItem /\ w.scan = 0 -> [w EXCEPT !.spent = TRUE]
    [] OTHER -> [w EXCEPT !.scan = @ - 1,
                          !.served = IF holds(ring, s) THEN Append(@, packet(ring, s)) ELSE @]

\* One turn of serve_nack_entries' loop, or of the loop over the sub-packets:
\* once the budget is spent the rest of the datagram is abandoned.
ServeItem(w, s) ==
  CASE w.spent -> w
    [] ~w.spent /\ s = EchoItem -> [w EXCEPT !.echoes = @ + 1]
    [] ~w.spent /\ s # EchoItem /\ w.scan = 0 -> [w EXCEPT !.spent = TRUE]
    [] ~w.spent /\ s # EchoItem /\ w.scan > 0 /\ ~holds(ring, s) -> [w EXCEPT !.scan = @ - 1]
    [] ~w.spent /\ s # EchoItem /\ w.scan > 0 /\ holds(ring, s) ->
         IF w.retx = 0
         THEN [w EXCEPT !.scan = @ - 1, !.spent = TRUE]
         ELSE [w EXCEPT !.scan = @ - 1, !.retx = @ - 1, !.served = Append(@, packet(ring, s))]

\* The outcome of a datagram: packets put on the wire again, echo responses
\* sent, and what is left of the budget.
Serve(dg) ==
  LET items == Items(dg)
      after[k \in 0..Len(items)] ==
        IF k = 0
        THEN [scan |-> for_capacity(RCap).scan, retx |-> for_capacity(RCap).retx,
              served |-> <<>>, echoes |-> 0, spent |-> FALSE]
        ELSE ServeItem(after[k - 1], items[k])
  IN  after[Len(items)]

\* Mutant: only a move renews the grace period.
RecvFeedbackRenewsOnMove(from, dg) ==
  /\ running
  /\ peer_move_allowed(from, peer, left)
  /\ peer' = from /\ left' = (IF from = peer THEN left ELSE Grace) /\ age' = 0
  /\ reply' = [served |-> Serve(dg).served, echoes |-> Serve(dg).echoes]
  /\ UNCHANGED <<running, appVars, mediaVars, only>>

\* A compound that decodes (others are ignored) from an admitted source: the
\* peer slot moves there, and the compound is served.
RecvFeedback(from, dg) ==
  /\ running
  /\ peer_move_allowed(from, peer, left)
  /\ peer' = from /\ left' = Grace /\ age' = 0
  /\ reply' = [served |-> Serve(dg).served, echoes |-> Serve(dg).echoes]
  /\ UNCHANGED <<running, appVars, mediaVars, only>>

-----------------------------------------------------------------------------
(* The environment *)

STick ==
  /\ left > 0 \/ age < Grace
  /\ left' = (IF left > 0 THEN left - 1 ELSE 0)
  /\ age' = (IF age < Grace THEN age + 1 ELSE Grace)
  /\ UNCHANGED <<running, appVars, mediaVars, peer, reply, only>>

\* From now on RTCP comes from one host only.
SSettle(h) ==
  /\ only = None /\ only' = h
  /\ UNCHANGED <<running, appVars, mediaVars, peerVars>>

SNext ==
  \/ AppSend \/ AppDrop \/ Close \/ Media \/ STick
  \/ \E why \in {"cancelled", "closed", "error"} : Exit(why)
  \/ \E a \in Addrs, dg \in Datagrams : Sends(a) /\ RecvFeedback(a, dg)
  \/ \E h \in Survivors : SSettle(h)

\* select! polls its branches in random order, so a branch that stays ready is
\* taken; the host that is left goes on sending; time passes.
SFairness ==
  /\ WF_svars(Media) /\ WF_svars(Exit("cancelled")) /\ WF_svars(Exit("closed")) /\ WF_svars(STick)
  /\ \A h \in Survivors :
       SF_svars(only = h /\ \E a \in Addrs : a.ip = h /\ RecvFeedback(a, Keepalive))

SSpec == SInit /\ [][SNext]_svars
SFairSpec == SSpec /\ SFairness

-----------------------------------------------------------------------------
(* Properties *)

\* Every variable has its type.
STypeOK ==
  /\ running \in BOOLEAN /\ cancelled \in BOOLEAN /\ open \in BOOLEAN
  /\ queued \in 0..ChanCap /\ seq \in SeqNos /\ next \in Nat
  /\ \A i \in DOMAIN ring : ring[i] = EmptyRetx \/ ring[i].seq \in SeqNos
  /\ reply.served \in Seq(Nat) /\ reply.echoes \in Nat
  /\ peer \in Addrs /\ left \in 0..Grace /\ age \in 0..Grace /\ only \in Survivors \cup {None}

\* The packets a retransmission request can be answered with: the last ones
\* sent, a ring's worth or a cycle of the sequence space, whichever is less.
Recent == {e \in Start..(next - 1) : e >= next - RCap /\ e >= next - M}

\* A request for number s is answered with the packet of that number among the
\* recent ones, never with one of an earlier cycle, and not at all otherwise.
RingIsRecent ==
  \A s \in SeqNos :
    IF holds(ring, s) THEN packet(ring, s) \in Recent /\ Wire(packet(ring, s)) = s
                      ELSE s \notin {Wire(e) : e \in Recent}

\* The items of a datagram that ask for a packet, and those whose packet is held.
Requests(dg) == {k \in DOMAIN Items(dg) : Items(dg)[k] # EchoItem}
Hits(dg) == {k \in Requests(dg) : holds(ring, Items(dg)[k])}

\* No datagram draws more retransmissions than the budget of guard.rs, and one
\* that names no more numbers than the scan budget and no more held packets than
\* the retransmit budget is served in full: every held packet it names goes out
\* again and every echo request is answered, whatever its sub-packets are.
ServedWithinBudget ==
  \A dg \in Datagrams :
    LET budget == for_capacity(RCap)
        Named == {Items(dg)[k] : k \in Requests(dg)}
    IN  /\ Len(Serve(dg).served) <= budget.retx
        /\ Cardinality(Requests(dg)) <= budget.scan /\ Cardinality(Hits(dg)) <= budget.retx =>
             /\ Range(Serve(dg).served) = {e \in Recent : Wire(e) \in Named}
             /\ Serve(dg).echoes = Len(Items(dg)) - Cardinality(Requests(dg))

\* The feedback peer changes host only after a full grace period in which
\* nothing was accepted from it.
PeerHeld == [][peer'.ip # peer.ip => age = Grace]_svars

\* Closing or dropping the socket ends the task.
Stops == cancelled \/ ~open ~> ~running

\* When only one host goes on sending RTCP, feedback ends up there, whoever
\* held the slot before.
PeerFollows == \A h \in Survivors : only = h ~> peer.ip = h \/ ~running

=============================================================================
