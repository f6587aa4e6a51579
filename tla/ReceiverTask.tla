---------------------------- MODULE ReceiverTask ----------------------------
(***************************************************************************)
(* Who the receive task listens to and talks to (receiver_loop in            *)
(* rist-transport/src/receiver.rs): the media slot, the control slot, the    *)
(* hold-down of both, and the SSRC its NACKs name.  Each arm of select! runs *)
(* to its end before the next is chosen.  Buffering and delivery of media is *)
(* DrainThread's, the NACK schedule NackScheduler's: here a gap is open or   *)
(* not.  Datagrams that are not admitted, or do not decode on the control    *)
(* port, change nothing.                                                     *)
(***************************************************************************)
EXTENDS PeerHosts

CONSTANTS Ports,        \* size of the port space: 65536
          MaxRestarts   \* restarts of senders, each with a new SSRC (bound)

\* Addrs are the source addresses of RTP; RTCP comes from the next port.
Hosts == {a.ip : a \in Addrs}

ASSUME ReceiverAssumption ==
  /\ Ports \in Nat \ {0} /\ MaxRestarts \in Nat
  /\ Addrs \subseteq [ip : Hosts, port : 0..(Ports - 1)]

VARIABLES
  pinned,    \* pinned_source_ip, or None
  rtpAddr,   \* sender_rtp_addr, or None
  rtpLeft,   \* rtp_peer_live: what is left of the grace period
  rtcpAddr,  \* sender_rtcp_addr, or None
  rtcpLeft,  \* rtcp_peer_live
  observed,  \* observed_media_ssrc, or None
  srSsrc,    \* rtcp_state.sender_ssrc, from the last SR, or None
  seen,      \* some media packet was taken in
  gap,       \* get_pending_nacks has something to ask for
  out,       \* where the last RTCP datagram was sent, or None
  \* Environment and ghosts:
  ssrc,      \* the SSRC each host uses now
  restarts,
  rtpAge     \* time since the last media taken in, up to Grace

slotVars == <<rtpAddr, rtpLeft, rtcpAddr, rtcpLeft, rtpAge>>
nameVars == <<observed, srSsrc, seen, gap>>
envVars == <<ssrc, restarts, only>>
vars == <<pinned, slotVars, nameVars, out, envVars>>

\* Even and not 0, one range for each host.
FirstSsrc == CHOOSE f \in [Hosts -> {2 * (MaxRestarts + 1) * k : k \in 1..3}] :
               \A g, h \in Hosts : g # h => f[g] # f[h]

Init ==
  /\ pinned \in Hosts \cup {None}
  /\ rtpAddr = None /\ rtpLeft = 0 /\ rtcpAddr = None /\ rtcpLeft = 0
  /\ rtpAge = Grace
  /\ observed = None /\ srSsrc = None /\ seen = FALSE /\ gap = FALSE /\ out = None
  /\ ssrc = FirstSsrc /\ restarts = 0 /\ only = None

\* The port's addition wraps in a release build.
rtcp_addr_for(a) == [a EXCEPT !.port = (@ + 1) % Ports]

-----------------------------------------------------------------------------
(* The arms of the loop *)

\* A burst from one source: its first datagram parses (1) or not (0), rest of
\* the others do, those of other sources being thrown away.  The slots follow
\* the source before anything is parsed; only parsed media renews the grace
\* period; and only the first datagram is asked for its SSRC.
RecvRtp(from, first, rest) ==
  LET kept == first + rest
  IN  /\ source_allowed(from, pinned, rtpAddr, rtpLeft)
      /\ rtpAddr' = from
      /\ rtcpAddr' = IF rtpAddr # from THEN rtcp_addr_for(from) ELSE rtcpAddr
      /\ observed' = IF first = 1 /\ observed = None THEN ssrc[from.ip] ELSE observed
      /\ rtpLeft' = IF kept > 0 THEN Grace ELSE rtpLeft
      /\ rtpAge' = IF kept > 0 THEN 0 ELSE rtpAge
      /\ seen' = (seen \/ kept > 0)
      /\ gap' \in {gap} \cup (IF kept > 1 \/ (seen /\ kept > 0) THEN BOOLEAN ELSE {})
      /\ UNCHANGED <<pinned, rtcpLeft, srSsrc, out, envVars>>

\* Mutant: media does not protect the control slot.
rtcp_live_alone == rtcpLeft

\* rtcp_peer_live.max(rtp_peer_live)
rtcp_live == IF rtcpLeft > rtpLeft THEN rtcpLeft ELSE rtpLeft

\* Mutant: only the first report is asked for the SSRC.
on_sr_received_once(from) == srSsrc' = IF srSsrc = None THEN ssrc[from.ip] ELSE srSsrc

on_sr_received(from) == srSsrc' = ssrc[from.ip]

\* A compound that decodes, with a sender report, an echo request or neither.
RecvRtcp(from, kind) ==
  /\ source_allowed(from, pinned, rtcpAddr, rtcp_live)
  /\ rtcpAddr' = from /\ rtcpLeft' = Grace
  /\ IF kind = "sr" THEN on_sr_received(from) ELSE UNCHANGED srSsrc
  /\ out' = IF kind = "echo_request" THEN from ELSE out
  /\ UNCHANGED <<pinned, rtpAddr, rtpLeft, rtpAge, observed, seen, gap, envVars>>

\* The SSRC that a NACK names: sender_ssrc.or(observed_media_ssrc).unwrap_or(0)
media_ssrc == IF srSsrc # None THEN srSsrc ELSE IF observed # None THEN observed ELSE 0

\* The NACK pump; what it asks for may be given up with this turn, or not.
Pump ==
  /\ rtcpAddr # None /\ gap
  /\ gap' \in BOOLEAN
  /\ out' = rtcpAddr
  /\ UNCHANGED <<pinned, slotVars, observed, srSsrc, seen, envVars>>

\* The report timer.
Report ==
  /\ rtcpAddr # None
  /\ out' = rtcpAddr
  /\ UNCHANGED <<pinned, slotVars, nameVars, envVars>>

-----------------------------------------------------------------------------
(* The environment *)

Less(left) == IF left > 0 THEN left - 1 ELSE 0

Tick ==
  /\ rtpAge < Grace \/ rtcpLeft > 0
  /\ rtpLeft' = Less(rtpLeft) /\ rtcpLeft' = Less(rtcpLeft)
  /\ rtpAge' = IF rtpAge < Grace THEN rtpAge + 1 ELSE Grace
  /\ UNCHANGED <<pinned, rtpAddr, rtcpAddr, nameVars, out, envVars>>

Restart(h) ==
  /\ restarts < MaxRestarts
  /\ restarts' = restarts + 1 /\ ssrc' = [ssrc EXCEPT ![h] = @ + 2]
  /\ UNCHANGED <<pinned, slotVars, nameVars, out, only>>

\* From now on RTP and RTCP come from one host only.
Settle(h) ==
  /\ only = None /\ pinned \in {None, h} /\ only' = h
  /\ UNCHANGED <<pinned, slotVars, nameVars, out, ssrc, restarts>>

Next ==
  \/ \E a \in Addrs, first \in 0..1, rest \in 0..2 : Sends(a) /\ RecvRtp(a, first, rest)
  \/ \E a \in Addrs, kind \in {"sr", "echo_request", "other"} :
       Sends(a) /\ RecvRtcp(rtcp_addr_for(a), kind)
  \/ Pump \/ Report \/ Tick
  \/ (\E h \in Hosts : Restart(h)) \/ (\E h \in Survivors : Settle(h))

\* The host that is left goes on sending media and reports; time passes.
Fairness ==
  /\ WF_vars(Tick)
  /\ \A h \in Survivors :
       /\ SF_vars(only = h /\ \E a \in Addrs : a.ip = h /\ RecvRtp(a, 1, 0))
       /\ SF_vars(only = h /\ \E a \in Addrs : a.ip = h /\ RecvRtcp(rtcp_addr_for(a), "sr"))

Spec == Init /\ [][Next]_vars
FairSpec == Spec /\ Fairness

-----------------------------------------------------------------------------
(* Properties *)

Addresses == [ip : Hosts, port : 0..(Ports - 1)] \cup {None}

\* Every variable has its type.
TypeOK ==
  /\ pinned \in Hosts \cup {None} /\ only \in Survivors \cup {None}
  /\ rtpAddr \in Addresses /\ rtcpAddr \in Addresses
  /\ rtpLeft \in 0..Grace /\ rtcpLeft \in 0..Grace
  /\ observed \in Nat \cup {None} /\ srSsrc \in Nat \cup {None}
  /\ seen \in BOOLEAN /\ gap \in BOOLEAN /\ ssrc \in [Hosts -> Nat]

\* With a configured source, no slot ever holds another host and nothing is
\* sent to one, answers to echo requests included.
PinRespected ==
  pinned # None =>
    /\ rtpAddr # None => rtpAddr.ip = pinned
    /\ rtcpAddr # None => rtcpAddr.ip = pinned
    /\ out # None => out.ip = pinned

\* Live media holds its slots: the media slot goes to another host only after a
\* full grace period without media from the one that has it, and until then a
\* control slot of that host does not either, however long it has sent no RTCP.
SlotsHeld ==
  [][/\ rtpAddr # None /\ rtpAddr'.ip # rtpAddr.ip => rtpAge = Grace
     /\ /\ rtpAge < Grace /\ rtpAddr # None /\ rtcpAddr # None /\ rtcpAddr.ip = rtpAddr.ip
        => rtcpAddr'.ip = rtcpAddr.ip]_vars

\* A host that goes on sending alone gets the media slot.
MediaFollows == \A h \in Survivors : only = h ~> rtpAddr # None /\ rtpAddr.ip = h

\* ... and once it has the control slot, NACKs come to name the SSRC it uses,
\* whatever they named before and although it restarted.
NameFollows ==
  \A h \in Survivors :
    only = h /\ rtcpAddr # None /\ rtcpAddr.ip = h ~> media_ssrc = ssrc[h]

\* What integration-guide.md:88-90 and the comment at receiver.rs:325-326 say:
\* it also gets the control slot.
ControlFollows == \A h \in Survivors : only = h ~> rtcpAddr # None /\ rtcpAddr.ip = h

=============================================================================
