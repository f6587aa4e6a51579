------------------------------ MODULE RtpCodec ------------------------------
(***************************************************************************)
(* An RTP packet's way as bytes: written by the sender task, sent again from *)
(* the retransmit buffer with the flag in its SSRC, or made by another       *)
(* sender, read into a buffer of fixed size and parsed (packet/rtp.rs,       *)
(* parse_rtp in receiver.rs).  Timestamp and SSRC are four bytes each.       *)
(***************************************************************************)
EXTENDS Integers, Sequences

CONSTANTS Payloads,     \* byte sequences an application sends
          SentNumbers,  \* sequence numbers
          Ssrcs,        \* four bytes, the last one even
          Headers,      \* headers of other senders: [extension, csrc, marker, pt],
                        \* csrc the bytes of up to fifteen words
          ExtWords,     \* lengths of extension headers
          MaxRecv       \* MAX_UDP_RECV: 2048

Bytes == 0..255
U16 == 0..(256 * 256 - 1)

ASSUME RtpAssumption ==
  /\ Payloads \subseteq Seq(Bytes) /\ SentNumbers \subseteq U16 /\ ExtWords \subseteq U16
  /\ \A s \in Ssrcs : s \in Seq(Bytes) /\ Len(s) = 4 /\ s[4] % 2 = 0
  /\ \A h \in Headers : /\ h.extension \in BOOLEAN /\ h.marker \in BOOLEAN /\ h.pt \in 0..127
                        /\ h.csrc \in Seq(Bytes) /\ \E n \in 0..15 : Len(h.csrc) = 4 * n
                        /\ MaxRecv >= 12 + Len(h.csrc)
  /\ MaxRecv \in Nat /\ MaxRecv >= 12

VARIABLES wire,  \* the datagram in flight, and what was meant by it
          kept   \* the sender's copy of its last packet, and the same

rtpVars == <<wire, kept>>

Nothing == [bytes |-> <<>>, seq |-> -1]

RtpInit == wire = Nothing /\ kept = Nothing

-----------------------------------------------------------------------------
(* Writing *)

RTP_HEADER_SIZE == 12
PT_TS == 33
Timestamp == <<1, 2, 3, 4>>

Bit(flag) == IF flag THEN 1 ELSE 0

write_rtp_header(ssrc, seq, ts) == <<128, PT_TS, seq \div 256, seq % 256>> \o ts \o ssrc

new_ts(ssrc, seq, ts) ==
  [version |-> 2, padding |-> FALSE, extension |-> FALSE, csrc_count |-> 0, marker |-> FALSE,
   payload_type |-> PT_TS, sequence_number |-> seq, timestamp |-> ts, ssrc |-> ssrc]

\* Without CSRC words and extension.
RtpHeader_serialize(h) ==
  <<64 * h.version + 32 * Bit(h.padding) + 16 * Bit(h.extension) + (h.csrc_count % 16),
    128 * Bit(h.marker) + (h.payload_type % 128),
    h.sequence_number \div 256, h.sequence_number % 256>> \o h.timestamp \o h.ssrc

RtpPacket_serialize(h, payload) == RtpHeader_serialize(h) \o payload

\* The sender task's media arm.
Send(ssrc, seq, payload) ==
  /\ kept' = [bytes |-> write_rtp_header(ssrc, seq, Timestamp) \o payload,
              seq |-> seq, ssrc |-> ssrc, payload |-> payload, again |-> FALSE]
  /\ wire' = kept'

\* Mutant: the flag goes into the byte before.
flag_retransmit_early(b) == [b EXCEPT ![11] = @ + 1 - (@ % 2)]

\* retx_buf[11] |= 0x01
flag_retransmit(b) == IF Len(b) > 11 THEN [b EXCEPT ![12] = @ + 1 - (@ % 2)] ELSE b

Resend ==
  /\ kept # Nothing
  /\ wire' = [kept EXCEPT !.bytes = flag_retransmit(@), !.again = TRUE]
  /\ UNCHANGED kept

\* What another sender puts before the payload, as RFC 3550 has it.
ForeignExtension(words) == <<190, 222, words \div 256, words % 256>> \o [k \in 1..(4 * words) |-> 9]

ForeignHead(h, words, ssrc, seq) ==
  RtpHeader_serialize([new_ts(ssrc, seq, Timestamp) EXCEPT
      !.extension = h.extension, !.marker = h.marker, !.payload_type = h.pt,
      !.csrc_count = Len(h.csrc) \div 4])
    \o h.csrc \o (IF h.extension THEN ForeignExtension(words) ELSE <<>>)

Foreign(h, words, ssrc, seq, payload) ==
  /\ wire' = [bytes |-> ForeignHead(h, words, ssrc, seq) \o payload,
              seq |-> seq, ssrc |-> ssrc, payload |-> payload, again |-> FALSE]
  /\ UNCHANGED kept

-----------------------------------------------------------------------------
(* Reading *)

header_size(b) == RTP_HEADER_SIZE + 4 * (b[1] % 16)

RtpHeader_ok(b) == Len(b) >= RTP_HEADER_SIZE /\ b[1] \div 64 = 2 /\ Len(b) >= header_size(b)

sequence_number(b) == 256 * b[3] + b[4]
ssrc_of(b) == SubSeq(b, 9, 12)
is_retransmit(ssrc) == ssrc[4] % 2 = 1
logical_ssrc(ssrc) == [ssrc EXCEPT ![4] = @ - (@ % 2)]

\* What the receive task takes from a datagram, or Nothing.
parse_rtp(b) ==
  IF ~RtpHeader_ok(b) THEN Nothing
  ELSE [bytes |-> b, seq |-> sequence_number(b), ssrc |-> ssrc_of(b),
        payload |-> SubSeq(b, header_size(b) + 1, Len(b)), again |-> is_retransmit(ssrc_of(b))]

\* Mutant: the extension's own header is not skipped.
payload_at_short(b) ==
  LET at == header_size(b)
  IN  IF (b[1] \div 16) % 2 = 0 THEN at ELSE at + 4 * (256 * b[at + 3] + b[at + 4])

\* Where RtpPacket::parse takes the payload to begin; past the end if it refuses.
payload_at(b) ==
  LET at == header_size(b)
  IN  IF (b[1] \div 16) % 2 = 0 THEN at
      ELSE IF Len(b) < at + 4 THEN Len(b) + 1
      ELSE at + 4 + 4 * (256 * b[at + 3] + b[at + 4])

RtpPacket_ok(b) == RtpHeader_ok(b) /\ payload_at(b) <= Len(b)
RtpPacket_payload(b) == SubSeq(b, payload_at(b) + 1, Len(b))

\* recv_from cuts the datagram to the size of the buffer.
received == parse_rtp(SubSeq(wire.bytes, 1, IF Len(wire.bytes) < MaxRecv THEN Len(wire.bytes) ELSE MaxRecv))

RtpNext ==
  \/ Resend
  \/ \E s \in Ssrcs, n \in SentNumbers, p \in Payloads :
       Send(s, n, p) \/ \E h \in Headers, w \in ExtWords : Foreign(h, w, s, n, p)

RtpSpec == RtpInit /\ [][RtpNext]_rtpVars

-----------------------------------------------------------------------------
(* Properties *)

\* Datagrams are bytes.
RtpTypeOK == wire.bytes \in Seq(Bytes) /\ kept.bytes \in Seq(Bytes)

Fits == wire # Nothing /\ Len(wire.bytes) <= MaxRecv

Extended == (wire.bytes[1] \div 16) % 2 = 1

StartOf(p, q) == Len(p) <= Len(q) /\ p = SubSeq(q, 1, Len(p))

\* A packet that fits the read buffer arrives with its number and its stream,
\* marked as a retransmission exactly if it is one and differing from the
\* original in nothing else.  It is delivered without its header, CSRC words
\* included, unless it has an extension; what does not fit is cut, never refused.
Delivered ==
  /\ Fits =>
       /\ received.seq = wire.seq /\ received.again = wire.again
       /\ logical_ssrc(received.ssrc) = wire.ssrc
       /\ wire.again => received.payload = kept.payload /\ SubSeq(wire.bytes, 1, 11) = SubSeq(kept.bytes, 1, 11)
       /\ ~Extended => received.payload = wire.payload
  /\ wire # Nothing /\ ~Extended => StartOf(received.payload, wire.payload)

\* The two writers of headers agree (the sender task's own and RtpPacket's), and
\* RtpPacket's parser finds the payload of every packet, extensions included.
CodecsAgree ==
  /\ kept # Nothing =>
       kept.bytes = RtpPacket_serialize(new_ts(kept.ssrc, kept.seq, Timestamp), kept.payload)
  /\ wire # Nothing => RtpPacket_ok(wire.bytes) /\ RtpPacket_payload(wire.bytes) = wire.payload

=============================================================================
