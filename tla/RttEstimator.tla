---------------------------- MODULE RttEstimator ----------------------------
(***************************************************************************)
(* Round-trip estimation (protocol/rtt.rs) as the two tasks drive it: the    *)
(* report timer sends echo requests, the peer's task answers them, and the   *)
(* answers feed the running average.  Either task is the requester.  The     *)
(* network loses, delays, duplicates and reorders.  Time is in steps of Step *)
(* nanoseconds.  A request's timestamp is represented by the age of the      *)
(* request it names; rttvar is left out, since nothing reads it.             *)
(***************************************************************************)
EXTENDS Integers, FiniteSets

CONSTANTS Step,       \* nanoseconds in a step of the clock
          Period,     \* rtcp_interval, in steps
          Ratio,      \* request_interval is Ratio report periods: 10
          Lag,        \* how late the timer's arm may run
          MaxTurn,    \* longest time from receipt of a request to its answer
          Lifetime,   \* age at which the network has lost a message
          MaxFlight   \* messages in flight (bound)

RttAssumption ==
  /\ {Step, Period, Ratio, Lifetime, MaxFlight} \subseteq Nat \ {0}
  /\ Lag \in 0..(Period - 1) /\ MaxTurn \in Nat

VARIABLES
  known,    \* there is a peer to report to: always so in the sender task
  due,      \* steps until the report timer is due; negative once it is late
  sentAgo,  \* now - last_request_time, or -1
  srtt,     \* nanoseconds, or -1
  flight,   \* messages: [kind, age, turn], age being that of the request and
            \* turn the time the peer has had it
  \* Ghosts:
  least, most,  \* true round trips of the answers so far
  ordered       \* no answer came after the request that followed its own

estVars == <<srtt, least, most, ordered>>
vars == <<known, due, sentAgo, flight, estVars>>

Init ==
  /\ known \in BOOLEAN /\ due = 0 /\ sentAgo = -1 /\ srtt = -1 /\ flight = {}
  /\ least = -1 /\ most = -1 /\ ordered = TRUE

Latch == ~known /\ known' = TRUE /\ UNCHANGED <<due, sentAgo, flight, estVars>>

request_interval == Ratio * Period

\* Mutant: the moment itself does not count.
should_send_request_late == sentAgo = -1 \/ sentAgo > request_interval

should_send_request == sentAgo = -1 \/ sentAgo >= request_interval

\* The request may be lost at once.
generate_request ==
  /\ sentAgo' = 0
  /\ flight' \in {flight, flight \cup {[kind |-> "request", age |-> 0, turn |-> 0]}}
  /\ Cardinality(flight') <= MaxFlight

\* The report timer: a request goes out with the report when one is due.
Report ==
  /\ due <= 0 /\ due' = due + Period
  /\ IF known /\ should_send_request THEN generate_request ELSE UNCHANGED <<sentAgo, flight>>
  /\ UNCHANGED <<known, estVars>>

\* The peer's task takes a request in, and answers it with the time it took.
\* Requests and answers may be delivered again.
Reach(m, again) ==
  /\ m.kind = "request"
  /\ LET kept == IF again THEN flight ELSE flight \ {m}
     IN  flight' = kept \cup {[m EXCEPT !.kind = "held"]}
  /\ Cardinality(flight') <= MaxFlight
  /\ UNCHANGED <<known, due, sentAgo, estVars>>

Answer(m) ==
  /\ m.kind = "held"
  /\ flight' = (flight \ {m}) \cup {[m EXCEPT !.kind = "response"]}
  /\ UNCHANGED <<known, due, sentAgo, estVars>>

\* Mutant: the old estimate keeps its full weight.
update_rtt_sums(s) == IF srtt = -1 THEN s ELSE srtt + s \div 8

update_rtt(s) == IF srtt = -1 THEN s ELSE (srtt * 7) \div 8 + s \div 8

\* on_response measures from the last request, whichever one is answered.
on_response_sample(m) == Step * (IF sentAgo >= m.turn THEN sentAgo - m.turn ELSE 0)

Respond(m, again) ==
  /\ m.kind = "response"
  /\ flight' = IF again THEN flight ELSE flight \ {m}
  /\ srtt' = update_rtt(on_response_sample(m))
  /\ LET true == Step * (m.age - m.turn)
     IN  /\ least' = IF least = -1 \/ true < least THEN true ELSE least
         /\ most' = IF true > most THEN true ELSE most
  /\ ordered' = (ordered /\ m.age = sentAgo)
  /\ UNCHANGED <<known, due, sentAgo>>

\* A step of time: the timer's arm is no later than Lag, and the peer answers
\* in MaxTurn.
Tick ==
  /\ due > -Lag
  /\ \A m \in flight : m.kind = "held" => m.turn < MaxTurn
  /\ due' = due - 1
  /\ sentAgo' = IF sentAgo = -1 THEN -1 ELSE sentAgo + 1
  /\ flight' = {[m EXCEPT !.age = @ + 1, !.turn = IF m.kind = "held" THEN @ + 1 ELSE @] :
                  m \in {n \in flight : n.kind = "held" \/ n.age < Lifetime}}
  /\ UNCHANGED <<known, estVars>>

Lose(m) ==
  /\ m.kind # "held" /\ flight' = flight \ {m}
  /\ UNCHANGED <<known, due, sentAgo, estVars>>

Next ==
  \/ Latch \/ Report \/ Tick
  \/ \E m \in flight :
       Answer(m) \/ Lose(m) \/ \E again \in BOOLEAN : Reach(m, again) \/ Respond(m, again)

Spec == Init /\ [][Next]_vars

-----------------------------------------------------------------------------
(* Properties *)

\* Every variable has its type.
TypeOK ==
  /\ known \in BOOLEAN /\ ordered \in BOOLEAN /\ due \in -Lag..Period
  /\ sentAgo \in Nat \cup {-1} /\ srtt \in Nat \cup {-1}
  /\ least \in Nat \cup {-1} /\ most \in Nat \cup {-1}
  /\ flight \subseteq [kind : {"request", "held", "response"},
                       age : 0..(Lifetime + MaxTurn + 1), turn : 0..MaxTurn]

\* Whatever the network loses, delays or repeats, the smoothed round trip is
\* never above the longest true one: an answer to an older request is measured
\* too short, never too long, so NACKs are not held back by it.  While every
\* answer comes before the next request it is not below the shortest either,
\* but for the 14 ns that the divisions of update_rtt can lose.
RttIsTrue == srtt <= most /\ (ordered /\ srtt # -1 => srtt >= least - 14)

\* Once there is a peer, a request follows the one before within the interval
\* and one report period, however late the timer's arm runs: a tick that comes
\* just short of the interval costs one period, never more.
RequestsKeepComing == sentAgo <= request_interval + Period - 1 + Lag

=============================================================================
