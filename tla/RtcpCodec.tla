----------------------------- MODULE RtcpCodec -----------------------------
(***************************************************************************)
(* RTCP compounds as bytes (packet/rtcp.rs and rtcp_sr, _rr, _sdes, _nack,   *)
(* _app): how each sub-packet is written, and how a datagram is taken apart  *)
(* again.  A 32-bit field that no code here computes with is its four bytes. *)
(***************************************************************************)
EXTENDS Integers, SequencesExt

CONSTANTS MaxSub,      \* MAX_RTCP_SUB_PACKETS: 64
          MaxEntries   \* MAX_RANGE_NACK_ENTRIES: 512

ASSUME CodecAssumption == MaxSub \in Nat \ {0} /\ MaxEntries \in Nat \ {0}

Pt == [sr |-> 200, rr |-> 201, sdes |-> 202, app |-> 204, rtpfb |-> 205]
Fmt == [generic |-> 1, range |-> 15]
Subtype == [range_nack |-> 0, echo_request |-> 2, echo_response |-> 3]
SDES_CNAME == 1
RIST_APP_NAME == <<82, 73, 83, 84>>

put_u16(n) == <<(n % 65536) \div 256, n % 256>>
get_u16(b, i) == 256 * b[i] + b[i + 1]
From(b, i) == SubSeq(b, i, Len(b))

-----------------------------------------------------------------------------
(* Writing *)

\* Version 2, no padding; length is in words after the first.
header(count, pt, length) == <<128 + (count % 32), pt>> \o put_u16(length)

\* The 24 low bits of the two's complement.
put_i24(n) == LET u == n % 16777216 IN <<u \div 65536, (u \div 256) % 256, u % 256>>

sr_serialize(p) == header(0, Pt.sr, 6) \o p.info

block_serialize(r) == r.ssrc \o <<r.fraction_lost>> \o put_i24(r.cumulative_lost) \o r.rest

rr_serialize(p) ==
  header(Len(p.reports), Pt.rr, 1 + 6 * Len(p.reports)) \o p.ssrc
    \o FlattenSeq([k \in DOMAIN p.reports |-> block_serialize(p.reports[k])])

\* Zero bytes to the next word, four of them if there already.
sdes_padding(n) == 4 - ((6 + n) % 4)

sdes_serialize(p) ==
  LET n == Len(p.cname)
  IN  header(1, Pt.sdes, (10 + n + sdes_padding(n)) \div 4 - 1)
        \o p.ssrc \o <<SDES_CNAME, n % 256>> \o p.cname \o [k \in 1..sdes_padding(n) |-> 0]

entries_serialize(es) == FlattenSeq([k \in DOMAIN es |-> put_u16(es[k][1]) \o put_u16(es[k][2])])

nack_serialize(p) ==
  header(Fmt[p.format], Pt.rtpfb, 2 + Len(p.entries))
    \o p.sender_ssrc \o p.media_ssrc \o entries_serialize(p.entries)

app_serialize(p) ==
  CASE p.app = "unknown" -> header(p.subtype, Pt.app, (4 + Len(p.data)) \div 4 - 1) \o p.data
    [] p.app = "range_nack" ->
         header(Subtype.range_nack, Pt.app, (12 + 4 * Len(p.entries)) \div 4 - 1)
           \o p.ssrc \o RIST_APP_NAME \o entries_serialize(p.entries)
    [] p.app = "echo_request" -> header(Subtype.echo_request, Pt.app, 4) \o p.ssrc \o RIST_APP_NAME \o p.time
    [] p.app = "echo_response" ->
         header(Subtype.echo_response, Pt.app, 5) \o p.ssrc \o RIST_APP_NAME \o p.time \o p.delay

\* Unknown sub-packets are left out.
serialize(packets) ==
  FlattenSeq([k \in DOMAIN packets |->
    LET p == packets[k]
    IN  CASE p.type = "sr" -> sr_serialize(p)
          [] p.type = "rr" -> rr_serialize(p)
          [] p.type = "sdes" -> sdes_serialize(p)
          [] p.type = "nack" -> nack_serialize(p)
          [] p.type = "app" -> app_serialize(p)
          [] p.type = "unknown" -> <<>>])

-----------------------------------------------------------------------------
(* Reading: a body that a parser refuses becomes Unknown *)

Unknown(pt, body) == [type |-> "unknown", packet_type |-> pt, data |-> body]

sr_parse(body) ==
  IF Len(body) < 24 THEN Unknown(Pt.sr, body)
  ELSE [type |-> "sr", info |-> SubSeq(body, 1, 24)]

get_i24(b, i) ==
  LET u == 65536 * b[i] + 256 * b[i + 1] + b[i + 2] IN IF u >= 8388608 THEN u - 16777216 ELSE u

block_parse(b) ==
  [ssrc |-> SubSeq(b, 1, 4), fraction_lost |-> b[5], cumulative_lost |-> get_i24(b, 6),
   rest |-> SubSeq(b, 9, 24)]

rr_parse(body, rc) ==
  IF Len(body) < 4 + 24 * rc THEN Unknown(Pt.rr, body)
  ELSE [type |-> "rr", ssrc |-> SubSeq(body, 1, 4),
        reports |-> [k \in 1..rc |-> block_parse(From(body, 24 * k - 19))]]

\* The name is the bytes of a String; from_utf8_lossy leaves such bytes alone.
sdes_parse(body) ==
  IF Len(body) < 6 \/ body[5] # SDES_CNAME \/ Len(body) < 6 + body[6] THEN Unknown(Pt.sdes, body)
  ELSE [type |-> "sdes", ssrc |-> SubSeq(body, 1, 4), cname |-> SubSeq(body, 7, 6 + body[6])]

\* The entries in words i, i + 4, ... of a body, as many as it holds and max.
entries_parse(body, max) ==
  LET n == (Len(body) - 8) \div 4
  IN  [k \in 1..(IF n < max THEN n ELSE max) |->
         <<get_u16(body, 4 * k + 5), get_u16(body, 4 * k + 7)>>]

nack_parse(body, fmt) ==
  IF Len(body) < 8 \/ \A f \in DOMAIN Fmt : Fmt[f] # fmt THEN Unknown(Pt.rtpfb, body)
  ELSE [type |-> "nack", format |-> CHOOSE f \in DOMAIN Fmt : Fmt[f] = fmt,
        sender_ssrc |-> SubSeq(body, 1, 4), media_ssrc |-> SubSeq(body, 5, 8),
        entries |-> entries_parse(body, Len(body))]

app_parse(body, sub) ==
  LET ssrc == SubSeq(body, 1, 4)
      rist == SubSeq(body, 5, 8) = RIST_APP_NAME
      App(name) == rist /\ sub = Subtype[name]
  IN  CASE Len(body) < 8
           \/ (App("echo_request") /\ Len(body) < 16)
           \/ (App("echo_response") /\ Len(body) < 20) -> Unknown(Pt.app, body)
        [] Len(body) >= 8 /\ App("range_nack") ->
             [type |-> "app", app |-> "range_nack", ssrc |-> ssrc, entries |-> entries_parse(body, MaxEntries)]
        [] Len(body) >= 16 /\ App("echo_request") ->
             [type |-> "app", app |-> "echo_request", ssrc |-> ssrc, time |-> SubSeq(body, 9, 16)]
        [] Len(body) >= 20 /\ App("echo_response") ->
             [type |-> "app", app |-> "echo_response", ssrc |-> ssrc, time |-> SubSeq(body, 9, 16),
              delay |-> SubSeq(body, 17, 20)]
        [] OTHER -> [type |-> "app", app |-> "unknown", subtype |-> sub, data |-> body]

parse_sub(pt, count, body) ==
  CASE pt = Pt.sr -> sr_parse(body)
    [] pt = Pt.rr -> rr_parse(body, count)
    [] pt = Pt.sdes -> sdes_parse(body)
    [] pt = Pt.rtpfb -> nack_parse(body, count)
    [] pt = Pt.app -> app_parse(body, count)
    [] OTHER -> Unknown(pt, body)

packet_size(b, at) == 4 * (get_u16(b, at + 3) + 1)

\* Mutant: a sub-packet that is not understood ends the parse.
Taken_strict(w, size, p) ==
  [w EXCEPT !.at = @ + size, !.done = p.type = "unknown", !.packets = Append(@, p)]

Taken(w, size, p) == [w EXCEPT !.at = @ + size, !.packets = Append(@, p)]

\* Mutant: a truncated sub-packet fails the datagram.
Truncated_fails(w) == [w EXCEPT !.done = TRUE, !.ok = FALSE]

Truncated(w) == [w EXCEPT !.done = TRUE]

\* One turn of the loop in RtcpCompound::parse: too few bytes for a header, or
\* for what the header announces, end it; a wrong version fails the datagram.
parse_step(b, w) ==
  CASE w.done \/ w.at + 4 > Len(b) -> [w EXCEPT !.done = TRUE]
    [] ~w.done /\ w.at + 4 <= Len(b) /\ b[w.at + 1] \div 64 # 2 -> [w EXCEPT !.done = TRUE, !.ok = FALSE]
    [] OTHER ->
         LET size == packet_size(b, w.at)
         IN  IF w.at + size > Len(b) THEN Truncated(w)
             ELSE Taken(w, size, parse_sub(b[w.at + 2], b[w.at + 1] % 32,
                                           SubSeq(b, w.at + 5, w.at + size)))

\* The sub-packets, or none and not ok if parsing fails.
parse(b) ==
  LET w == FoldLeft(LAMBDA v, k : parse_step(b, v),
                    [at |-> 0, packets |-> <<>>, ok |-> TRUE, done |-> FALSE],
                    [k \in 1..MaxSub |-> k])
  IN  [ok |-> w.ok, packets |-> IF w.ok THEN w.packets ELSE <<>>]

=============================================================================
