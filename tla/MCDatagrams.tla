----------------------------- MODULE MCDatagrams -----------------------------
(***************************************************************************)
(* Model checking of what is made of datagrams: RTCP compounds               *)
(* (RtcpCompound), lists of lost numbers (NackFormat), RTP packets           *)
(* (RtpCodec) and the merging of bonded paths (BondingMerger).  They share   *)
(* no state, so a behaviour is one of one of them, and the others stay at    *)
(* rest.  The RTCP samples are of every make, with the signed counts, name   *)
(* lengths and entry counts where the formats change shape; RTP payloads are *)
(* empty, short and too long for the read buffer.                            *)
(***************************************************************************)
EXTENDS RtcpCompound, NackFormat, RtpCodec, BondingMerger

VARIABLE part

AroundWrap == 0..3 \cup 12..15

AllPayloads == {<<>>, <<71, 0>>, [k \in 1..20 |-> 71]}
EndsOfBytes == {255, 65535}
TwoSsrcs == {<<0, 0, 0, 2>>, <<255, 255, 255, 254>>}
SomeHeaders ==
  [extension : BOOLEAN, csrc : {<<>>, <<1, 1, 1, 1>>}, marker : BOOLEAN, pt : {96}]

W(n) == <<255, 0, n, 1>>
Run(n) == [k \in 1..n |-> (17 * k) % 256]
Text(n) == [k \in 1..n |-> 32 + ((17 * k) % 95)]   \* printable ASCII

Block(n) == [ssrc |-> W(3), fraction_lost |-> 7, cumulative_lost |-> n, rest |-> Run(16)]
Rr(rs) == [type |-> "rr", ssrc |-> W(2), reports |-> rs]
Name(n) == [type |-> "sdes", ssrc |-> W(4), cname |-> Text(n)]
Entries(n) == [k \in 1..n |-> <<65534 + (k % 2), 256 * k>>]
Nack(f, n) == [type |-> "nack", format |-> f, sender_ssrc |-> W(5), media_ssrc |-> W(6), entries |-> Entries(n)]

AllSamples ==
  {[type |-> "sr", info |-> Run(24)],
   Rr(<<>>), Rr(<<Block(-8388608)>>), Rr(<<Block(-1), Block(8388607)>>),
   Name(0), Name(2), Name(3), Name(5), Name(255),
   Nack("generic", 0), Nack("generic", 2), Nack("range", 1),
   [type |-> "app", app |-> "range_nack", ssrc |-> W(7), entries |-> Entries(0)],
   [type |-> "app", app |-> "range_nack", ssrc |-> W(7), entries |-> Entries(3)],
   [type |-> "app", app |-> "echo_request", ssrc |-> W(8), time |-> Run(8)],
   [type |-> "app", app |-> "echo_response", ssrc |-> W(9), time |-> Run(8), delay |-> W(1)],
   [type |-> "app", app |-> "unknown", subtype |-> 9, data |-> W(1) \o RIST_APP_NAME \o W(2)]}

SomeExtensions ==
  {header(0, 77, 0), header(3, 207, 2) \o Run(8), header(0, Pt.sr, 1) \o W(1),
   header(2, Pt.rr, 7) \o Run(28), header(1, Pt.sdes, 2) \o W(1) \o <<2, 0, 0, 0>>,
   header(5, Pt.rtpfb, 2) \o Run(8), header(2, Pt.app, 3) \o W(1) \o RIST_APP_NAME \o W(2),
   header(0, Pt.app, 0)}

DInit == part \in {"rtcp", "nack", "rtp", "bonding"} /\ Init /\ ListInit /\ RtpInit /\ BInit

DNext ==
  \/ part = "rtcp" /\ Next /\ UNCHANGED <<part, lost, rtpVars, bvars>>
  \/ part = "nack" /\ ListNext /\ UNCHANGED <<part, packets, rtpVars, bvars>>
  \/ part = "rtp" /\ RtpNext /\ UNCHANGED <<part, packets, lost, bvars>>
  \/ part = "bonding" /\ BNext /\ UNCHANGED <<part, packets, lost, rtpVars>>

DSpec == DInit /\ [][DNext]_<<part, packets, lost, rtpVars, bvars>>

=============================================================================
