-------------------------- MODULE BookkeepingProofs --------------------------
(***************************************************************************)
(* What the tasks count and measure is right for every width of the numbers, *)
(* every rate, period and delay, and every length of the stream.             *)
(***************************************************************************)
EXTENDS Bookkeeping, SeqArithProofs

-----------------------------------------------------------------------------
(* The round trip: RttEstimator *)

\* The arithmetic of the constants.
LEMMA RttConstants ==
  /\ Step \in Nat \ {0} /\ Period \in Nat \ {0} /\ Ratio \in Nat \ {0}
  /\ Lag \in 0..(Period - 1) /\ E!request_interval \in Nat \ {0}
<1>1. /\ Step \in Nat \ {0} /\ Period \in Nat \ {0} /\ Ratio \in Nat \ {0}
      /\ Lag \in 0..(Period - 1)
  BY BookkeepingAssumption DEF E!RttAssumption
<1>2. Ratio * Period \in Nat \ {0}
  BY <1>1
<1> QED
  BY <1>1, <1>2 DEF E!request_interval

\* The time since the last request and the time until the timer is due add up
\* to less than the interval and a period.
TimerInv ==
  /\ known \in BOOLEAN /\ due \in Int /\ due >= -Lag
  /\ sentAgo \in Nat \cup {-1}
  /\ ~known => sentAgo = -1
  /\ sentAgo # -1 => sentAgo + due <= E!request_interval + Period - 1

\* A turn of the timer sends a request or leaves one that is not yet due.
LEMMA ReportTimer ==
  ASSUME TimerInv, E!Report
  PROVE  TimerInv'
<1>1. PICK r \in Nat \ {0} : r = E!request_interval
  BY RttConstants
<1>3. due <= 0 /\ due' = due + Period /\ known' = known
  BY DEF E!Report
<1>4. CASE known /\ E!should_send_request
  <2>1. sentAgo' = 0
    BY <1>4 DEF E!Report, E!generate_request
  <2> QED
    BY <1>1, <1>3, <1>4, <2>1, RttConstants DEF TimerInv, E!request_interval
<1>5. CASE ~(known /\ E!should_send_request)
  <2>1. sentAgo' = sentAgo
    BY <1>5 DEF E!Report
  <2>2. sentAgo # -1 => sentAgo <= r - 1
    BY <1>1, <1>5 DEF TimerInv, E!should_send_request
  <2> QED
    BY <1>1, <1>3, <2>1, <2>2, RttConstants DEF TimerInv, E!request_interval
<1> QED
  BY <1>4, <1>5

\* Every step of the estimator keeps the timer's invariant.
LEMMA TimerNext == TimerInv /\ [E!Next]_(E!vars) => TimerInv'
<1> SUFFICES ASSUME TimerInv, [E!Next]_(E!vars)
             PROVE  TimerInv'
  OBVIOUS
<1>1. CASE E!Latch
  BY <1>1 DEF E!Latch, TimerInv, E!request_interval
<1>2. CASE E!Report
  BY <1>2, ReportTimer
<1>3. CASE E!Tick
  <2>1. due > -Lag /\ due' = due - 1 /\ known' = known
        /\ sentAgo' = IF sentAgo = -1 THEN -1 ELSE sentAgo + 1
    BY <1>3, Zenon DEF E!Tick
  <2>2. PICK r \in Nat \ {0} : r = E!request_interval
    BY RttConstants
  <2> QED
    BY <2>1, <2>2, RttConstants DEF TimerInv, E!request_interval
<1>4. CASE UNCHANGED <<known, due, sentAgo>>
  BY <1>4 DEF TimerInv, E!request_interval
<1>5. ASSUME NEW m \in echoes, NEW again \in BOOLEAN,
             E!Answer(m) \/ E!Lose(m) \/ E!Reach(m, again) \/ E!Respond(m, again)
      PROVE  UNCHANGED <<known, due, sentAgo>>
  BY <1>5 DEF E!Answer, E!Lose, E!Reach, E!Respond
<1>6. CASE UNCHANGED E!vars
  BY <1>4, <1>6 DEF E!vars
<1> QED
  BY <1>1, <1>2, <1>3, <1>4, <1>5, <1>6, Zenon DEF E!Next

\* Once there is a peer a request follows the one before within the interval
\* and one report period, plus the lag of the timer's arm (should_send_request,
\* asked by both tasks' report timers).
THEOREM RequestsComeInTime == E!Spec => []RequestsKeepComing
<1>1. E!Init => TimerInv
  BY RttConstants DEF E!Init, TimerInv
<1>2. TimerInv => RequestsKeepComing
  BY RttConstants DEF TimerInv, RequestsKeepComing, E!RequestsKeepComing
<1> QED
  BY <1>1, <1>2, TimerNext, PTL DEF E!Spec

\* A message in flight: never younger than the last request, and held by the
\* peer for part of its age only.
MessageOK(m) ==
  /\ m = [kind |-> m.kind, age |-> m.age, turn |-> m.turn]
  /\ m.age \in Nat /\ m.turn \in Nat
  /\ m.turn <= m.age /\ sentAgo \in Nat /\ sentAgo <= m.age

\* Messages are as above, and the average lies between the true round trips.
EchoInv ==
  /\ sentAgo \in Nat \cup {-1} /\ ordered \in BOOLEAN
  /\ \A m \in echoes : MessageOK(m)
  /\ srtt \in Nat \cup {-1} /\ least \in Nat \cup {-1} /\ most \in Nat \cup {-1}
  /\ (srtt = -1 <=> least = -1) /\ (srtt = -1 <=> most = -1)
  /\ srtt <= most /\ (ordered /\ srtt # -1 => srtt >= least - 14)

\* The quotient by 8, bounded on both sides.
LEMMA Eighth ==
  ASSUME NEW x \in Nat
  PROVE  x \div 8 \in Nat /\ 8 * (x \div 8) <= x /\ x <= 8 * (x \div 8) + 7
BY ModRange

\* The average of two numbers is not above a bound of both.
LEMMA AverageBelow ==
  ASSUME NEW a \in Nat, NEW b \in Nat, NEW m \in Nat, a <= m, b <= m
  PROVE  (a * 7) \div 8 + b \div 8 \in Nat /\ (a * 7) \div 8 + b \div 8 <= m
<1>1. PICK p \in Nat : p = (a * 7) \div 8 /\ 8 * p <= a * 7
  BY Eighth
<1>2. PICK q \in Nat : q = b \div 8 /\ 8 * q <= b
  BY Eighth
<1>3. p + q <= m
  BY <1>1, <1>2
<1> QED
  BY <1>1, <1>2, <1>3

\* ... and at most 14 below one, when the first is: the two divisions lose
\* less than 2, and 14 is where seven eighths of the loss and that balance.
LEMMA AverageAbove ==
  ASSUME NEW a \in Nat, NEW b \in Nat, NEW l \in Nat, a >= l - 14, b >= l
  PROVE  (a * 7) \div 8 + b \div 8 >= l - 14
<1>1. PICK p \in Nat : p = (a * 7) \div 8 /\ a * 7 <= 8 * p + 7
  BY Eighth
<1>2. PICK q \in Nat : q = b \div 8 /\ b <= 8 * q + 7
  BY Eighth
<1>3. p + q >= l - 14
  BY <1>1, <1>2
<1> QED
  BY <1>1, <1>2, <1>3

\* A longer time is more nanoseconds.
LEMMA Longer ==
  ASSUME NEW n \in Nat, NEW x \in Nat, NEW y \in Nat, x <= y
  PROVE  n * x \in Nat /\ n * y \in Nat /\ n * x <= n * y
OBVIOUS

\* A sample is never above the true round trip of its answer, and exact when
\* the answer is to the last request.
LEMMA Sample ==
  ASSUME EchoInv, NEW m \in echoes
  PROVE  /\ E!on_response_sample(m) \in Nat
         /\ Step * (m.age - m.turn) \in Nat
         /\ E!on_response_sample(m) <= Step * (m.age - m.turn)
         /\ m.age = sentAgo => E!on_response_sample(m) = Step * (m.age - m.turn)
<1> DEFINE t == IF sentAgo >= m.turn THEN sentAgo - m.turn ELSE 0
<1>1. m.age \in Nat /\ m.turn \in Nat /\ m.turn <= m.age /\ sentAgo \in Nat /\ sentAgo <= m.age
  BY DEF EchoInv, MessageOK
<1>2. t \in Nat /\ t <= m.age - m.turn /\ m.age - m.turn \in Nat
  BY <1>1
<1>3. m.age = sentAgo => t = m.age - m.turn
  BY <1>1
<1>4. E!on_response_sample(m) = Step * t
  BY DEF E!on_response_sample
<1> HIDE DEF t
<1>5. Step \in Nat
  BY RttConstants
<1> QED
  BY <1>2, <1>3, <1>4, <1>5, Longer

\* An answer keeps the average between the true round trips.
LEMMA RespondEcho ==
  ASSUME EchoInv, NEW m \in echoes, NEW again \in BOOLEAN, E!Respond(m, again)
  PROVE  EchoInv'
<1>1. PICK s \in Nat : s = E!on_response_sample(m)
  BY Sample
<1>2. PICK trip \in Nat : trip = Step * (m.age - m.turn)
  BY Sample
<1>3. s <= trip /\ (m.age = sentAgo => s = trip)
  BY <1>1, <1>2, Sample
<1>4. /\ srtt' = IF srtt = -1 THEN s ELSE (srtt * 7) \div 8 + s \div 8
      /\ least' = IF least = -1 \/ trip < least THEN trip ELSE least
      /\ most' = IF trip > most THEN trip ELSE most
      /\ ordered' = (ordered /\ m.age = sentAgo)
      /\ sentAgo' = sentAgo
      /\ echoes' \subseteq echoes
  BY <1>1, <1>2 DEF E!Respond, E!update_rtt
<1>5. \A n \in echoes' : MessageOK(n)'
  BY <1>4 DEF EchoInv, MessageOK
<1>a. /\ srtt \in Nat \cup {-1} /\ least \in Nat \cup {-1} /\ most \in Nat \cup {-1}
      /\ (srtt = -1 <=> least = -1) /\ (srtt = -1 <=> most = -1)
      /\ srtt <= most
  BY DEF EchoInv
<1>b. ordered' => ordered /\ s = trip /\ (srtt # -1 => srtt >= least - 14)
  BY <1>3, <1>4, ZenonT(30), Zenon DEF EchoInv
<1>c. ordered' \in BOOLEAN
  BY <1>4
<1>6. least' \in Nat /\ least' <= trip /\ (least # -1 => least' <= least)
  BY <1>4, <1>a
<1>7. most' \in Nat /\ trip <= most' /\ most <= most'
  BY <1>4, <1>a
<1>8. srtt' \in Nat /\ srtt' <= most' /\ (ordered' => srtt' >= least' - 14)
  <2>1. CASE srtt = -1
    BY <1>3, <1>4, <1>6, <1>7, <1>b, <2>1
  <2>2. CASE srtt # -1
    <3>1. srtt \in Nat /\ srtt <= most' /\ s <= most' /\ least # -1
      BY <1>3, <1>6, <1>7, <1>a, <2>2
    <3>2. srtt' \in Nat /\ srtt' <= most'
      BY <1>4, <1>7, <2>2, <3>1, AverageBelow, ZenonT(30), Zenon
    <3>3. ASSUME ordered'
          PROVE  srtt' >= least' - 14
      <4>0. s = trip /\ srtt >= least - 14
        BY <3>3, <1>b, <2>2
      <4>1. srtt >= least' - 14 /\ s >= least'
        <5>1. PICK l \in Nat : l = least /\ least' <= l
          BY <1>6, <1>a, <3>1
        <5>2. PICK k \in Nat : k = least'
          BY <1>6
        <5>3. PICK v \in Nat : v = srtt
          BY <3>1
        <5>4. v >= l - 14 /\ k <= l
          BY <4>0, <5>1, <5>2, <5>3
        <5>5. v >= k - 14
          BY <5>4
        <5>6. s >= k
          BY <4>0, <1>6, <5>2
        <5> QED
          BY <5>5, <5>6, <5>2, <5>3, ZenonT(30), Zenon
      <4> QED
        BY <4>1, <1>4, <1>6, <2>2, <3>1, AverageAbove
    <3> QED
      BY <3>2, <3>3
  <2> QED
    BY <2>1, <2>2
<1> QED
  BY <1>4, <1>5, <1>6, <1>7, <1>8, <1>c DEF EchoInv

\* Every step of the estimator keeps the average's invariant.
LEMMA EchoNext == EchoInv /\ [E!Next]_(E!vars) => EchoInv'
<1> SUFFICES ASSUME EchoInv, [E!Next]_(E!vars)
             PROVE  EchoInv'
  OBVIOUS
<1>1. ASSUME UNCHANGED E!estVars, sentAgo' \in Nat \cup {-1}, \A m \in echoes' : MessageOK(m)'
      PROVE  EchoInv'
  BY <1>1 DEF EchoInv, E!estVars
<1>2. CASE E!Latch \/ UNCHANGED E!vars
  <2>1. UNCHANGED <<sentAgo, echoes, E!estVars>>
    BY <1>2 DEF E!Latch, E!vars
  <2> QED
    BY <2>1, <1>1 DEF EchoInv, MessageOK
<1>3. CASE E!Report
  <2>1. CASE sentAgo' = 0 /\ echoes' \subseteq echoes \cup {[kind |-> "request", age |-> 0, turn |-> 0]}
    <3>1. \A m \in echoes : MessageOK(m)'
      BY <2>1 DEF EchoInv, MessageOK
    <3>2. MessageOK([kind |-> "request", age |-> 0, turn |-> 0])'
      BY <2>1 DEF MessageOK
    <3> QED
      BY <1>1, <1>3, <2>1, <3>1, <3>2 DEF E!Report
  <2>2. CASE UNCHANGED <<sentAgo, echoes>>
    BY <1>1, <1>3, <2>2 DEF E!Report, EchoInv, MessageOK
  <2> QED
    BY <1>3, <2>1, <2>2 DEF E!Report, E!generate_request
<1>4. CASE E!Tick
  <2>1. /\ UNCHANGED E!estVars
        /\ sentAgo' = IF sentAgo = -1 THEN -1 ELSE sentAgo + 1
    BY <1>4, Zenon DEF E!Tick
  <2>2. ASSUME NEW n \in echoes'
        PROVE  MessageOK(n)'
    <3>1. PICK m \in echoes :
            n = [m EXCEPT !.age = @ + 1, !.turn = IF m.kind = "held" THEN @ + 1 ELSE @]
      BY <1>4, Zenon DEF E!Tick
    <3>2. MessageOK(m) /\ sentAgo' = sentAgo + 1
      BY <2>1 DEF EchoInv, MessageOK
    <3>3. n = [kind |-> m.kind, age |-> m.age + 1,
               turn |-> IF m.kind = "held" THEN m.turn + 1 ELSE m.turn]
      BY <3>1, <3>2, ZenonT(30), Zenon DEF MessageOK
    <3> QED
      BY <3>2, <3>3, SMTT(30) DEF MessageOK
  <2> QED
    BY <1>1, <2>1, <2>2, SMTT(30) DEF EchoInv
<1>5. ASSUME NEW m \in echoes, NEW again \in BOOLEAN,
             E!Answer(m) \/ E!Lose(m) \/ E!Reach(m, again)
      PROVE  EchoInv'
  <2>1. UNCHANGED <<sentAgo, E!estVars>>
    BY <1>5 DEF E!Answer, E!Lose, E!Reach
  <2>2. echoes' \subseteq echoes \cup {[m EXCEPT !.kind = "held"], [m EXCEPT !.kind = "response"]}
    BY <1>5 DEF E!Answer, E!Lose, E!Reach
  <2>3. \A k : MessageOK([m EXCEPT !.kind = k])'
    BY <2>1 DEF EchoInv, MessageOK
  <2>4. \A n \in echoes : MessageOK(n)'
    BY <2>1 DEF EchoInv, MessageOK
  <2> QED
    BY <1>1, <2>1, <2>2, <2>3, <2>4, ZenonT(30), Zenon DEF EchoInv
<1>6. ASSUME NEW m \in echoes, NEW again \in BOOLEAN, E!Respond(m, again)
      PROVE  EchoInv'
  BY <1>6, RespondEcho
<1> QED
  BY <1>2, <1>3, <1>4, <1>5, <1>6, ZenonT(30), Zenon DEF E!Next

\* Whatever the network loses, delays, repeats or reorders, the smoothed round
\* trip stays between the true ones (RttEstimator::on_response, update_rtt).
THEOREM RoundTripIsTrue == E!Spec => []RttIsTrue
<1>1. E!Init => EchoInv
  BY DEF E!Init, EchoInv
<1>2. EchoInv => RttIsTrue
  BY DEF EchoInv, RttIsTrue, E!RttIsTrue
<1> QED
  BY <1>1, <1>2, EchoNext, PTL DEF E!Spec

-----------------------------------------------------------------------------
(* The counts of receiver reports: RtcpReceiver *)

\* A multiple of the modulus does not show in the remainder.
LEMMA ModPlusMultiple ==
  ASSUME NEW m \in Nat \ {0}, NEW y \in Nat, NEW q \in Nat
  PROVE  (m * q + y) % m = y % m
<1>1. PICK p \in Nat, r \in 0 .. (m - 1) : y = m * p + r /\ r = y % m
  BY ModRange, ZenonT(30)
<1>2. PICK n \in Nat : n = q + p
  OBVIOUS
<1>3. m * n = m * q + m * p
  BY <1>2
<1>4. PICK z \in Nat : z = m * q + y
  OBVIOUS
<1>5. z = m * n + r
  <2>1. PICK a \in Nat, b \in Nat, c \in Nat : a = m * q /\ b = m * p /\ c = m * n
    OBVIOUS
  <2>2. c = a + b /\ z = a + y /\ y = b + r
    BY <2>1, <1>1, <1>3, <1>4, ZenonT(30), Zenon
  <2>3. z = c + r
    BY <2>2
  <2> QED
    BY <2>1, <2>3
<1>6. z % m = r
  BY <1>5, ModUnique
<1> QED
  BY <1>1, <1>4, <1>6, ZenonT(30), Zenon

\* A counter that wraps counts modulo its width.
LEMMA ModStep ==
  ASSUME NEW m \in Nat \ {0}, NEW x \in Nat
  PROVE  ((x % m) + 1) % m = (x + 1) % m
<1>1. PICK q \in Nat, r \in 0 .. (m - 1) : x = m * q + r /\ r = x % m
  BY ModRange, ZenonT(30), Zenon
<1>2. x + 1 = m * q + (r + 1) /\ r + 1 \in Nat
  BY <1>1
<1>3. (m * q + (r + 1)) % m = (r + 1) % m
  BY <1>2, ModPlusMultiple, ZenonT(30), Zenon
<1> QED
  BY <1>1, <1>2, <1>3

\* A number below the modulus is its own remainder.
LEMMA ModSmall ==
  ASSUME NEW m \in Nat \ {0}, NEW x \in 0 .. (m - 1)
  PROVE  x % m = x
<1>1. x \in Nat /\ x = m * 0 + x
  OBVIOUS
<1> QED
  BY <1>1, ModUnique

LEMMA LossConstant == MaxLoss \in Nat \ {0}
BY BookkeepingAssumption DEF C!RtcpReceiverAssumption

\* The arithmetic of the constants.
LEMMA CountConstants ==
  /\ M \in Nat \ {0} /\ Half \in Nat \ {0} /\ M = 2 * Half /\ Cycles \in Nat \ {0}
  /\ C!Count32 = M * Cycles /\ C!Count32 \in Nat \ {0} /\ M <= C!Count32
<1>1. M \in Nat \ {0} /\ Half \in Nat \ {0} /\ M = 2 * Half /\ Cycles \in Nat \ {0}
  BY HalfAssumption, BookkeepingAssumption DEF M, C!RtcpReceiverAssumption
<1>2. C!Count32 = M * Cycles
  BY DEF C!Count32, C!M, M
<1>3. M * Cycles \in Nat \ {0} /\ M <= M * Cycles
  BY <1>1
<1> QED
  BY <1>1, <1>2, <1>3

\* The wrapped arithmetic of RtcpReceiver is that of the lemmas.
LEMMA SameArithmetic ==
  /\ \A e \in Int : C!Wire(e) = Wire(e)
  /\ \A a, b \in Int : C!diff(a, b) = diff(a, b)
BY DEF C!Wire, Wire, C!M, M, C!diff, diff, C!as_i16, as_i16, C!wrapping_sub, wrapping_sub

\* u32 subtraction is subtraction, modulo 2^32.
LEMMA MinusMod ==
  ASSUME NEW a \in Nat, NEW b \in Nat, b <= a
  PROVE  C!minus(a % C!Count32, b % C!Count32) = (a - b) % C!Count32
<1>0. PICK u \in Nat \ {0} : u = C!Count32
  BY CountConstants
<1>1. PICK q \in Nat, k \in 0 .. (u - 1) : a - b = u * q + k /\ k = (a - b) % u
  <2>1. a - b \in Nat
    OBVIOUS
  <2> QED
    BY <2>1, ModRange, ZenonT(30), Zenon
<1>2. PICK r \in 0 .. (u - 1) : r = b % u
  BY ModRange
<1>3. k \in 0 .. u /\ a = u * q + (b + k) /\ b + k \in Nat
  BY <1>1
<1>4. a % u = (b + k) % u
  BY <1>3, ModPlusMultiple, ZenonT(30), Zenon
<1>5. (b + k) % u = IF r + k < u THEN r + k ELSE r + k - u
  BY <1>2, <1>3, ModAdd, Zenon
<1>6. C!minus(a % u, r) = k
  BY <1>0, <1>4, <1>5 DEF C!minus
<1> QED
  BY <1>0, <1>1, <1>2, <1>6

\* The cycle count and the highest number step together: what they make up is
\* the place in the stream modulo 2^32, over the wrap of either.
LEMMA ExtendedStep ==
  ASSUME NEW x \in Nat, NEW c \in 0 .. (Cycles - 1), NEW s \in 0 .. (M - 1),
         NEW d \in 1 .. (M - 1), NEW t \in 0 .. (M - 1), NEW k,
         c * M + s = x % C!Count32,
         t = IF s + d < M THEN s + d ELSE s + d - M,
         k = IF t < s THEN C!next_cycle(c) ELSE c
  PROVE  k \in 0 .. (Cycles - 1) /\ k * M + t = (x + d) % C!Count32
<1>0. PICK u \in Nat \ {0} : u = C!Count32 /\ u = M * Cycles /\ M <= u
  BY CountConstants
<1>1. PICK p \in Nat : p = c * M /\ p + M <= u
  <2>1. c * M \in Nat /\ (c + 1) * M <= Cycles * M /\ (c + 1) * M = c * M + M
    BY CountConstants
  <2> QED
    BY <2>1, <1>0, CountConstants
<1>2. d \in 0 .. u
  BY <1>0, CountConstants
<1>3. (x + d) % u = IF p + s + d < u THEN p + s + d ELSE p + s + d - u
  <2>1. PICK e \in Nat : e = x % u /\ e = p + s
    BY <1>0, <1>1, ModRange
  <2>2. (x + d) % u = IF (x % u) + d < u THEN (x % u) + d ELSE (x % u) + d - u
    BY <1>2, ModAdd, ZenonT(30), Zenon
  <2> QED
    BY <2>1, <2>2
<1>4. CASE s + d < M
  <2>1. t = s + d /\ k = c
    BY <1>4, CountConstants
  <2> QED
    BY <1>0, <1>1, <1>3, <1>4, <2>1, CountConstants
<1>5. CASE ~(s + d < M) /\ c + 1 < Cycles
  <2>1. t = s + d - M /\ t < s /\ k = (c + 1) % Cycles
    BY <1>5, CountConstants DEF C!next_cycle
  <2>2. k = c + 1
    <3>1. c + 1 \in 0 .. (Cycles - 1)
      BY <1>5, CountConstants
    <3> QED
      BY <2>1, <3>1, CountConstants, ModSmall
  <2>3. k * M = p + M /\ p + M + M <= u
    <3>1. (c + 1) * M = c * M + M /\ (c + 2) * M = c * M + M + M /\ (c + 2) * M <= Cycles * M
      BY <1>5, CountConstants
    <3> QED
      BY <1>0, <1>1, <2>2, <3>1, CountConstants
  <2>4. p + s + d < u /\ p + M + t = p + s + d
    BY <1>0, <2>1, <2>3, CountConstants
  <2> QED
    BY <1>0, <1>3, <1>5, <2>2, <2>3, <2>4, CountConstants
<1>6. CASE ~(s + d < M) /\ c + 1 = Cycles
  <2>1. t = s + d - M /\ t < s /\ k = (c + 1) % Cycles
    BY <1>6, CountConstants DEF C!next_cycle
  <2>2. k = 0
    <3>1. c + 1 = Cycles * 1 + 0 /\ c + 1 \in Nat /\ 0 \in 0 .. (Cycles - 1)
      BY <1>6, CountConstants
    <3> QED
      BY <2>1, <3>1, CountConstants, ModUnique
  <2>3. p + M = u
    <3>1. (c + 1) * M = c * M + M
      BY CountConstants
    <3> QED
      BY <1>0, <1>1, <1>6, <3>1, CountConstants
  <2>4. k * M + t = t
    BY <2>1, <2>2, CountConstants
  <2>5. ~(p + s + d < u) /\ p + s + d - u = t
    BY <1>0, <2>1, <2>3, <1>6, CountConstants
  <2> QED
    BY <1>0, <1>3, <2>2, <2>4, <2>5, CountConstants
<1> QED
  BY <1>4, <1>5, <1>6, CountConstants

\* The place of the highest packet, counted from the first packet's number.
Place == Wire(efirst) + (ehigh - efirst)

\* The numbers of the code are those of the stream, modulo their widths.
CountInv ==
  /\ first \in BOOLEAN /\ efirst \in Nat /\ ehigh \in Nat /\ counted \in Nat /\ got \subseteq Nat
  /\ packets_received = counted % C!Count32
  /\ marks.high \in Nat \cup {-1} /\ marks.counted \in Nat /\ marks.counted <= counted
  /\ received_prior = marks.counted % C!Count32
  /\ marks.high = -1 => expected_prior = 0
  /\ ~first => got = {} /\ seq_cycles = 0 /\ marks.high = -1
  /\ first =>
       /\ efirst <= ehigh
       /\ \A g \in got : g <= ehigh
       /\ base_seq = Wire(efirst) /\ max_seq = Wire(ehigh)
       /\ seq_cycles \in 0 .. (Cycles - 1)
       /\ extended_max_seq = seq_cycles * M + max_seq
       /\ extended_max_seq = Place % C!Count32
       /\ marks.high # -1 =>
            /\ efirst <= marks.high /\ marks.high <= ehigh
            /\ expected_prior = (marks.high - efirst + 1) % C!Count32

\* Where a packet stands is not less than where the first one does.
LEMMA PlaceType ==
  ASSUME CountInv, first
  PROVE  Place \in Nat /\ Wire(efirst) \in 0 .. (M - 1) /\ ehigh - efirst \in Nat
<1>1. Wire(efirst) \in 0 .. (M - 1)
  BY WireType DEF CountInv, SeqNos
<1> QED
  BY <1>1, CountConstants DEF CountInv, Place

\* The count of expected packets is right, modulo 2^32.
LEMMA ExpectedIsTrue ==
  ASSUME CountInv, first
  PROVE  C!expected = (ehigh - efirst + 1) % C!Count32
<1>0. PICK u \in Nat \ {0} : u = C!Count32 /\ M <= u
  BY CountConstants
<1>1. PICK n \in Nat : n = ehigh - efirst
  BY PlaceType
<1>2. PICK w \in 0 .. (M - 1) : w = Wire(efirst)
  BY PlaceType
<1>3. PICK x \in Nat : x = Place /\ x = w + n
  BY <1>1, <1>2, PlaceType DEF Place
<1>4. w \in 0 .. (u - 1) /\ w \in Nat
  BY <1>0, CountConstants
<1>5. base_seq = w % u
  BY <1>2, <1>4, ModSmall DEF CountInv
<1>6. extended_max_seq = x % u
  BY <1>0, <1>3 DEF CountInv
<1>7. C!minus(x % u, w % u) = n % u
  <2>1. x - w = n /\ w <= x
    BY <1>3, <1>4
  <2> QED
    BY <2>1, <1>0, <1>4, MinusMod, ZenonT(30), Zenon
<1>8. C!expected = ((n % u) + 1) % u
  BY <1>0, <1>5, <1>6, <1>7 DEF C!expected
<1> QED
  BY <1>0, <1>1, <1>8, ModStep

\* A step forward keeps the extended highest number right.
LEMMA LaterCounts ==
  ASSUME CountInv, first, NEW e \in Nat, e > ehigh - Half, e < ehigh + Half,
         C!LaterPacket(C!Wire(e)),
         efirst' = efirst, ehigh' = IF e < ehigh THEN ehigh ELSE e
  PROVE  /\ base_seq' = Wire(efirst) /\ max_seq' = Wire(ehigh') /\ first' = first
         /\ seq_cycles' \in 0 .. (Cycles - 1)
         /\ extended_max_seq' = seq_cycles' * M + max_seq'
         /\ extended_max_seq' = (Wire(efirst) + (ehigh' - efirst)) % C!Count32
<1>0. ehigh \in Nat /\ Half \in Nat /\ max_seq = Wire(ehigh) /\ base_seq = Wire(efirst)
  BY CountConstants DEF CountInv
<1>1. diff(max_seq, Wire(e)) = e - ehigh
  BY <1>0, DiffIsDistance
<1>2. Wire(e) \in 0 .. (M - 1) /\ Wire(ehigh) \in 0 .. (M - 1)
  BY <1>0, WireType DEF SeqNos
<1>3. C!Wire(e) = Wire(e) /\ C!diff(max_seq, Wire(e)) = e - ehigh
  <2>1. Wire(e) \in Int /\ max_seq \in Int
    BY <1>0, <1>2
  <2> QED
    BY <2>1, <1>1, SameArithmetic
<1>a. C!LaterPacket(Wire(e))
  BY <1>3
<1>4. CASE e > ehigh
  <2>0. C!diff(max_seq, Wire(e)) > 0
    BY <1>0, <1>3, <1>4
  <2>1. /\ seq_cycles' = (IF Wire(e) < max_seq THEN C!next_cycle(seq_cycles) ELSE seq_cycles)
        /\ max_seq' = Wire(e)
        /\ extended_max_seq' = seq_cycles' * M + max_seq'
        /\ UNCHANGED <<first, base_seq>>
    BY <1>a, <2>0 DEF C!LaterPacket, C!M, M
  <2>2. ehigh' = e
    BY <1>0, <1>4
  <2>3. PICK d \in 1 .. (M - 1) : d = e - ehigh /\ e = ehigh + d
    BY <1>0, <1>4, CountConstants
  <2>4. Wire(e) = IF Wire(ehigh) + d < M THEN Wire(ehigh) + d ELSE Wire(ehigh) + d - M
    <3>1. d \in 0 .. (M - 1)
      BY CountConstants
    <3>2. Wire(ehigh + d) = wrapping_add(Wire(ehigh), d)
      BY <1>0, <3>1, WireAdd
    <3> QED
      BY <2>3, <3>2 DEF wrapping_add
  <2>5. seq_cycles * M + max_seq = Place % C!Count32 /\ seq_cycles \in 0 .. (Cycles - 1)
    BY DEF CountInv
  <2>6. Place \in Nat
    BY PlaceType
  <2>7. /\ seq_cycles' \in 0 .. (Cycles - 1)
        /\ seq_cycles' * M + Wire(e) = (Place + d) % C!Count32
    BY <1>0, <1>2, <2>1, <2>3, <2>4, <2>5, <2>6, ExtendedStep, SMTT(30)
  <2>8. Place + d = Wire(efirst) + (ehigh' - efirst)
    <3>1. Wire(efirst) \in Nat /\ efirst \in Nat
      BY PlaceType, CountConstants, SMTT(30) DEF CountInv
    <3> QED
      BY <3>1, <1>0, <2>2, <2>3, SMTT(30) DEF Place
  <2> QED
    BY <1>0, <2>1, <2>2, <2>7, <2>8
<1>5. CASE ~(e > ehigh)
  <2>0. ~(C!diff(max_seq, Wire(e)) > 0)
    BY <1>0, <1>3, <1>5
  <2>1. UNCHANGED <<first, base_seq, max_seq, seq_cycles, extended_max_seq>>
    BY <1>a, <2>0 DEF C!LaterPacket, C!seqVars
  <2>2. ehigh' = ehigh
    BY <1>0, <1>5
  <2> QED
    BY <1>0, <2>1, <2>2 DEF CountInv, Place
<1> QED
  BY <1>4, <1>5, ZenonT(30), Zenon

\* A packet keeps the counts right, whether it is new, late, held or a copy.
LEMMA ArriveCounts ==
  ASSUME CountInv, NEW e \in 0 .. MaxExt, C!Arrive(e)
  PROVE  CountInv'
<1>0. /\ e \in Nat /\ C!Count32 \in Nat \ {0} /\ Half \in Nat /\ M \in Nat
      /\ first \in BOOLEAN /\ efirst \in Nat /\ ehigh \in Nat /\ counted \in Nat /\ got \subseteq Nat
  BY CountConstants, BookkeepingAssumption DEF CountInv, C!RtcpReceiverAssumption
<1>u. C!Count32' = C!Count32
  BY DEF C!Count32, C!M
<1>1. /\ efirst' = IF first THEN efirst ELSE e
      /\ ehigh' = IF first /\ e < ehigh THEN ehigh ELSE e
      /\ got' \subseteq got \cup {e}
      /\ UNCHANGED <<expected_prior, received_prior, marks>>
  BY DEF C!Arrive, C!priorVars
<1>2. counted' = (IF C!IsHeld(e) THEN counted ELSE counted + 1) /\ counted' \in Nat /\ counted <= counted'
  BY <1>0 DEF C!Arrive, C!IsHeld
<1>3. packets_received' = counted' % C!Count32
  <2>1. CASE C!IsHeld(e)
    BY <1>2, <2>1 DEF C!Arrive, CountInv
  <2>2. CASE ~C!IsHeld(e)
    <3>1. packets_received' = ((counted % C!Count32) + 1) % C!Count32
      BY <2>2 DEF C!Arrive, CountInv
    <3> QED
      BY <1>0, <1>2, <2>2, <3>1, ModStep, ZenonT(30), ZenonT(30)
  <2> QED
    BY <2>1, <2>2
<1>4. /\ efirst' \in Nat /\ ehigh' \in Nat /\ got' \subseteq Nat
      /\ marks'.high \in Nat \cup {-1} /\ marks'.counted \in Nat /\ marks'.counted <= counted'
      /\ received_prior' = marks'.counted % C!Count32
      /\ marks'.high = -1 => expected_prior' = 0
  BY <1>0, <1>1, <1>2, SMTT(30) DEF CountInv
<1>5. ASSUME first', efirst' <= ehigh', \A g \in got' : g <= ehigh',
             base_seq' = Wire(efirst'), max_seq' = Wire(ehigh'),
             seq_cycles' \in 0 .. (Cycles - 1),
             extended_max_seq' = seq_cycles' * M + max_seq',
             extended_max_seq' = (Wire(efirst') + (ehigh' - efirst')) % C!Count32,
             marks'.high # -1 => /\ efirst' <= marks'.high /\ marks'.high <= ehigh'
                                 /\ expected_prior' = (marks'.high - efirst' + 1) % C!Count32
      PROVE  CountInv'
  <2>1. Place' = Wire(efirst') + (ehigh' - efirst')
    BY DEF Place, Wire, M
  <2>3. base_seq' = Wire(efirst)' /\ max_seq' = Wire(ehigh)' /\ M' = M
    BY <1>5, ZenonT(60) DEF Wire, M
  <2> QED
    BY <1>2, <1>3, <1>4, <1>5, <1>u, <2>1, <2>3, ZenonT(60) DEF CountInv
<1>6. CASE ~first
  <2>1. got = {} /\ seq_cycles = 0 /\ marks.high = -1
    BY <1>6, ZenonT(60) DEF CountInv
  <2>2. C!FirstPacket(C!Wire(e)) /\ efirst' = e /\ ehigh' = e
    BY <1>1, <1>6, <2>1 DEF C!Arrive, C!IsHeld
  <2>3. C!Wire(e) = Wire(e)
    BY <1>0, SameArithmetic
  <2>4. first' /\ base_seq' = Wire(e) /\ max_seq' = Wire(e) /\ extended_max_seq' = Wire(e)
        /\ seq_cycles' = 0
    BY <2>1, <2>2, <2>3 DEF C!FirstPacket
  <2>5. PICK w \in 0 .. (M - 1) : w = Wire(e)
    BY <1>0, WireType DEF SeqNos
  <2>6. w = 0 * M + w /\ w + (e - e) = w /\ w \in 0 .. (C!Count32 - 1) /\ 0 \in 0 .. (Cycles - 1)
    BY <1>0, CountConstants
  <2>7. w = (w + (e - e)) % C!Count32
    BY <1>0, <2>6, ModSmall
  <2>8. \A g \in got' : g <= ehigh'
    BY <1>0, <1>1, <2>1, <2>2
  <2> QED
    BY <1>0, <1>1, <1>5, <2>1, <2>2, <2>4, <2>5, <2>6, <2>7, <2>8, SMTT(30)
<1>7. CASE first
  <2>1. /\ efirst <= ehigh
        /\ \A g \in got : g <= ehigh
        /\ base_seq = Wire(efirst) /\ max_seq = Wire(ehigh)
        /\ seq_cycles \in 0 .. (Cycles - 1)
        /\ extended_max_seq = seq_cycles * M + max_seq
        /\ extended_max_seq = (Wire(efirst) + (ehigh - efirst)) % C!Count32
        /\ marks.high # -1 =>
             /\ efirst <= marks.high /\ marks.high <= ehigh
             /\ expected_prior = (marks.high - efirst + 1) % C!Count32
    BY <1>7 DEF CountInv, Place
  <2>2. efirst' = efirst /\ ehigh' = (IF e < ehigh THEN ehigh ELSE e) /\ ehigh <= ehigh' /\ e <= ehigh'
    BY <1>0, <1>1, <1>7, SMTT(30)
  <2>3. efirst' <= ehigh' /\ \A g \in got' : g <= ehigh'
    <3>1. \A g \in got \cup {e} : g \in Nat /\ g <= ehigh'
      BY <1>0, <1>4, <2>1, <2>2
    <3> QED
      BY <1>0, <1>1, <1>4, <2>1, <2>2, <3>1, SMTT(30)
  <2>4. marks'.high # -1 => /\ efirst' <= marks'.high /\ marks'.high <= ehigh'
                            /\ expected_prior' = (marks'.high - efirst' + 1) % C!Count32
    <3>1. CASE marks.high = -1
      BY <1>1, <3>1
    <3>2. CASE marks.high # -1
      <4>1. marks.high \in Nat
        BY <3>2 DEF CountInv
      <4> QED
        BY <4>1, <3>2, <1>0, <1>1, <1>4, <2>1, <2>2, SMTT(30)
    <3> QED
      BY <3>1, <3>2
  <2>5. CASE C!IsHeld(e)
    <3>1. UNCHANGED <<first, base_seq, max_seq, seq_cycles, extended_max_seq>>
      BY <2>5 DEF C!Arrive, C!seqVars
    <3>2. ehigh' = ehigh
      BY <1>0, <2>1, <2>2, <2>5, SMTT(30) DEF C!IsHeld
    <3> QED
      BY <1>5, <1>7, <2>1, <2>2, <2>3, <2>4, <3>1, <3>2, ZenonT(60)
  <2>6. CASE ~C!IsHeld(e)
    <3>1. C!LaterPacket(C!Wire(e)) /\ e > ehigh - Half /\ e < ehigh + Half
      BY <1>7, <2>6 DEF C!Arrive, C!CanArrive
    <3>2. /\ base_seq' = Wire(efirst) /\ max_seq' = Wire(ehigh') /\ first' = first
          /\ seq_cycles' \in 0 .. (Cycles - 1)
          /\ extended_max_seq' = seq_cycles' * M + max_seq'
          /\ extended_max_seq' = (Wire(efirst) + (ehigh' - efirst)) % C!Count32
      BY <1>0, <1>7, <2>2, <3>1, LaterCounts, ZenonT(30), ZenonT(30)
    <3> QED
      BY <1>5, <1>7, <2>2, <2>3, <2>4, <3>2, ZenonT(60)
  <2> QED
    BY <2>5, <2>6, ZenonT(60)
<1> QED
  BY <1>0, <1>6, <1>7, ZenonT(60)

\* A report's interval is the difference of the true counts.
LEMMA Intervals ==
  ASSUME CountInv, first, C!TrueInterval < C!Count32, C!CountedInterval < C!Count32
  PROVE  /\ C!expected_interval = C!TrueInterval /\ C!TrueInterval \in Nat
         /\ C!received_interval = C!CountedInterval /\ C!CountedInterval \in Nat
<1>0. PICK u \in Nat \ {0} : u = C!Count32
  BY CountConstants
<1>1. PICK n \in Nat : n = ehigh - efirst + 1 /\ C!expected = n % u
  BY <1>0, PlaceType, ExpectedIsTrue
<1>2. PICK p \in Nat : /\ expected_prior = p % u /\ p <= n
                       /\ C!TrueInterval = n - p
  <2>1. CASE marks.high = -1
    <3>1. 0 % u = 0 /\ expected_prior = 0
      BY <2>1, ModSmall DEF CountInv
    <3>2. C!TrueInterval = n - 0
      BY <1>1, <2>1 DEF C!TrueInterval, CountInv
    <3> QED
      BY <3>1, <3>2
  <2>2. CASE marks.high # -1
    <3>1. marks.high \in Nat /\ efirst \in Nat /\ ehigh \in Nat
          /\ efirst <= marks.high /\ marks.high <= ehigh
          /\ expected_prior = (marks.high - efirst + 1) % u
      BY <1>0, <2>2 DEF CountInv
    <3>2. PICK p \in Nat : p = marks.high - efirst + 1
      BY <3>1
    <3>3. C!TrueInterval = ehigh - marks.high
      BY <3>1 DEF C!TrueInterval
    <3> QED
      BY <3>1, <3>2, <3>3, <1>1, SMTT(30)
  <2> QED
    BY <2>1, <2>2
<1>3. n - p \in 0 .. (u - 1)
  BY <1>0, <1>2
<1>4. C!expected_interval = n - p
  BY <1>0, <1>1, <1>2, <1>3, MinusMod, ModSmall, ZenonT(30), ZenonT(30) DEF C!expected_interval
<1>5. /\ counted \in Nat /\ marks.counted \in Nat /\ marks.counted <= counted
      /\ packets_received = counted % u /\ received_prior = marks.counted % u
  BY <1>0 DEF CountInv
<1>6. counted - marks.counted \in 0 .. (u - 1)
  BY <1>0, <1>5 DEF C!CountedInterval
<1>7. C!received_interval = counted - marks.counted
  BY <1>0, <1>5, <1>6, MinusMod, ModSmall, ZenonT(30), ZenonT(30) DEF C!received_interval
<1> QED
  BY <1>0, <1>2, <1>3, <1>4, <1>6, <1>7 DEF C!CountedInterval

\* A fraction below one is below 256 256ths.
LEMMA Fraction ==
  ASSUME NEW t \in Nat \ {0}, NEW l \in Nat, l < t
  PROVE  (l * 256) \div t \in Nat /\ (l * 256) \div t <= 255
<1>0. PICK x \in Nat : x = l * 256 /\ x < t * 256
  OBVIOUS
<1>1. PICK f \in Nat, r \in 0 .. (t - 1) : x = t * f + r /\ f = x \div t
  BY ModRange
<1>2. ASSUME f >= 256
      PROVE  FALSE
  <2>1. t * f >= t * 256
    BY <1>2
  <2> QED
    BY <1>0, <1>1, <2>1
<1> QED
  BY <1>0, <1>1, <1>2

\* Every step of the receiver keeps the counts right.
LEMMA CountNext == CountInv /\ [C!Next]_(C!vars) => CountInv'
<1> SUFFICES ASSUME CountInv, [C!Next]_(C!vars)
             PROVE  CountInv'
  OBVIOUS
<1>1. ASSUME NEW e \in 0 .. MaxExt, C!Arrive(e)
      PROVE  CountInv'
  BY <1>1, ArriveCounts, ZenonT(60)
<1>2. CASE UNCHANGED <<first, base_seq, max_seq, seq_cycles, extended_max_seq, packets_received,
                       expected_prior, received_prior, marks, efirst, ehigh, counted, got>>
  BY <1>2 DEF CountInv, Place, Wire, M, C!Count32, C!M
<1>3. CASE C!Release \/ UNCHANGED C!vars
  BY <1>2, <1>3, ZenonT(60) DEF C!Release, C!vars, C!seqVars, C!priorVars
<1>4. CASE C!GenerateRr
  <2>1. /\ UNCHANGED <<first, base_seq, max_seq, seq_cycles, extended_max_seq, packets_received,
                       efirst, ehigh, counted, got>>
        /\ first /\ received_prior' = packets_received /\ expected_prior' = C!expected
        /\ marks' = [high |-> ehigh, counted |-> counted]
    BY <1>4 DEF C!GenerateRr, C!seqVars
  <2>2. C!expected = (ehigh - efirst + 1) % C!Count32
    BY <2>1, ExpectedIsTrue, ZenonT(60)
  <2>3. /\ marks'.high = ehigh /\ marks'.counted = counted /\ ehigh \in Nat /\ counted \in Nat
        /\ efirst <= ehigh /\ ehigh # -1
    BY <2>1 DEF CountInv
  <2> QED
    BY <2>1, <2>2, <2>3, SMTT(30) DEF CountInv, Place, Wire, M, C!Count32, C!M
<1> QED
  BY <1>1, <1>3, <1>4 DEF C!Next

\* A receiver report is exact: the extended highest number, the fraction lost
\* and, to the width of its field, the cumulative loss are those of the stream,
\* for every width of the numbers and the counters, however packets are reordered
\* around the wraps (RtcpReceiverState::on_packet_received, generate_rr).
THEOREM ReportsAreExact == C!Spec => []ReportIsExact
<1>1. C!Init => CountInv
  <2>1. 0 % C!Count32 = 0
    BY CountConstants, ModSmall
  <2> SUFFICES ASSUME C!Init
               PROVE  CountInv
    OBVIOUS
  <2>2. marks.high = -1 /\ marks.counted = 0
    BY DEF C!Init
  <2>3. /\ first = FALSE /\ efirst = 0 /\ ehigh = 0 /\ counted = 0 /\ got = {} /\ seq_cycles = 0
        /\ packets_received = 0 /\ received_prior = 0 /\ expected_prior = 0
    BY DEF C!Init
  <2>4. /\ packets_received = counted % C!Count32 /\ received_prior = marks.counted % C!Count32
        /\ got \subseteq Nat /\ marks.counted <= counted
    BY <2>1, <2>2, <2>3
  <2>5. first \in BOOLEAN /\ ~first
    BY <2>3, ZenonT(30), Zenon
  <2>6. /\ efirst \in Nat /\ ehigh \in Nat /\ counted \in Nat
        /\ marks.high \in Nat \cup {-1} /\ marks.counted \in Nat
    BY <2>2, <2>3
  <2> QED
    BY <2>2, <2>3, <2>4, <2>5, <2>6 DEF CountInv
<1>2. CountInv => ReportIsExact
  <2> SUFFICES ASSUME CountInv, first
               PROVE  ReportIsExact
    BY DEF ReportIsExact, C!ReportIsExact
  <2>0. PICK u \in Nat \ {0} : u = C!Count32
    BY CountConstants
  <2>1. extended_max_seq = (C!Wire(efirst) + ehigh - efirst) % C!Count32
    <3>1. C!Wire(efirst) = Wire(efirst)
      BY SameArithmetic DEF CountInv
    <3>2. Wire(efirst) + ehigh - efirst = Place
      <4>1. Wire(efirst) \in Nat /\ ehigh \in Nat /\ efirst \in Nat
        BY PlaceType, CountConstants DEF CountInv
      <4> QED
        BY <4>1, ZenonT(60) DEF Place
    <3> QED
      BY <3>1, <3>2, ZenonT(60) DEF CountInv
  <2>2. ASSUME C!TrueInterval < C!Count32, C!CountedInterval < C!Count32
        PROVE  LET lost == C!TrueInterval - C!CountedInterval
               IN  C!fraction_lost =
                     IF lost <= 0 THEN 0 ELSE IF lost = C!TrueInterval THEN 255
                     ELSE (lost * 256) \div C!TrueInterval
    <3>1. PICK t \in Nat, c \in Nat :
            /\ t = C!TrueInterval /\ c = C!CountedInterval
            /\ C!expected_interval = t /\ C!received_interval = c
      BY <2>2, Intervals
    <3>2. C!fraction_lost =
            IF t = 0 \/ c >= t THEN 0
            ELSE LET f == ((t - c) * 256) \div t IN IF f > 255 THEN 255 ELSE f
      BY <3>1 DEF C!fraction_lost
    <3>3. CASE t = 0 \/ c >= t
      BY <3>1, <3>2, <3>3
    <3>4. CASE ~(t = 0 \/ c >= t) /\ c = 0
      <4>1. (t * 256) \div t = 256
        <5>1. PICK x \in Nat : x = t * 256
          OBVIOUS
        <5>2. PICK q \in Nat, r \in 0 .. (t - 1) : x = t * q + r /\ q = x \div t
          BY <3>4, ModRange
        <5>3. t * 256 + 0 = t * q + r /\ 0 \in 0 .. (t - 1) /\ t \in Nat \ {0}
          BY <5>1, <5>2, <3>4
        <5>4. q = 256
          BY <5>3, DivisionUnique
        <5> QED
          BY <5>1, <5>2, <5>4
      <4>2. t - c = t /\ ~(t <= 0)
        BY <3>4
      <4> QED
        BY <3>1, <3>2, <3>4, <4>1, <4>2
    <3>5. CASE ~(t = 0 \/ c >= t) /\ c # 0
      <4>1. PICK l \in Nat : l = t - c /\ l < t /\ ~(l <= 0) /\ l # t /\ t # 0
        BY <3>5
      <4>2. (l * 256) \div t \in Nat /\ (l * 256) \div t <= 255
        BY <4>1, Fraction
      <4> QED
        BY <3>1, <3>2, <3>5, <4>1, <4>2
    <3> QED
      BY <3>3, <3>4, <3>5
  <2>3. ASSUME ehigh - efirst + 1 < C!Count32, counted < C!Count32
        PROVE  LET lost == ehigh - efirst + 1 - counted
               IN  C!cumulative_lost =
                     IF lost \in -MaxLoss..(MaxLoss - 1) THEN lost
                     ELSE IF lost < 0 THEN -MaxLoss ELSE MaxLoss - 1
    <3>1. ehigh - efirst + 1 \in 0 .. (u - 1) /\ counted \in 0 .. (u - 1)
      BY <2>0, <2>3, PlaceType DEF CountInv
    <3>2. C!expected = ehigh - efirst + 1
      BY <2>0, <3>1, ExpectedIsTrue, ModSmall, ZenonT(60)
    <3>3. packets_received = counted
      BY <2>0, <3>1, ModSmall DEF CountInv
    <3>4. PICK k \in Int, l \in Int :
            k = ehigh - efirst + 1 /\ l = k - counted /\ l = ehigh - efirst + 1 - counted
      BY <3>1 DEF CountInv
    <3>5. C!expected - packets_received = l
      BY <3>2, <3>3, <3>4, Zenon
    <3>6. C!cumulative_lost =
            IF l < -MaxLoss THEN -MaxLoss ELSE IF l > MaxLoss - 1 THEN MaxLoss - 1 ELSE l
      BY <3>5, Zenon DEF C!cumulative_lost
    <3>7. C!cumulative_lost =
            IF l \in -MaxLoss..(MaxLoss - 1) THEN l
            ELSE IF l < 0 THEN -MaxLoss ELSE MaxLoss - 1
      BY <3>6, LossConstant
    <3> QED
      BY <3>4, <3>7, ZenonT(60)
  <2> QED
    BY <2>1, <2>2, <2>3 DEF ReportIsExact, C!ReportIsExact
<1> QED
  BY <1>1, <1>2, CountNext, PTL DEF C!Spec

-----------------------------------------------------------------------------
(* Remainders of integers *)

\* Division of an integer with a remainder that is not negative.
LEMMA IntDivision ==
  ASSUME NEW m \in Nat \ {0}, NEW x \in Int
  PROVE  \E q \in Int, r \in 0 .. (m - 1) : x = m * q + r /\ r = x % m
<1>1. x \div m \in Int /\ x % m \in 0 .. (m - 1) /\ x = m * (x \div m) + (x % m)
  OBVIOUS
<1> QED
  BY <1>1, ZenonT(30), Zenon

\* Quotient and remainder of an integer are unique.
LEMMA IntModUnique ==
  ASSUME NEW m \in Nat \ {0}, NEW q \in Int, NEW p \in Int,
         NEW r \in 0 .. (m - 1), NEW s \in 0 .. (m - 1), m * q + r = m * p + s
  PROVE  q = p /\ r = s
<1>1. PICK k \in Int : k = q - p
  OBVIOUS
<1>2. m * k = s - r
  <2>1. m * k = m * q - m * p
    BY <1>1
  <2>2. PICK a \in Int, b \in Int : a = m * q /\ b = m * p
    OBVIOUS
  <2> QED
    BY <2>1, <2>2
<1>3. CASE k >= 1
  <2>1. m * k >= m
    BY <1>3
  <2> QED
    BY <1>2, <2>1
<1>4. CASE k <= -1
  <2>1. m * k <= -m
    BY <1>4
  <2> QED
    BY <1>2, <2>1
<1>5. CASE k = 0
  BY <1>1, <1>2, <1>5
<1> QED
  BY <1>3, <1>4, <1>5

\* Integers that differ by a multiple of the modulus have the same remainder.
LEMMA SameRemainder ==
  ASSUME NEW m \in Nat \ {0}, NEW x \in Int, NEW y \in Int, NEW k \in Int, x = y + m * k
  PROVE  x % m = y % m
<1>1. PICK q \in Int, r \in 0 .. (m - 1) : x = m * q + r /\ r = x % m
  BY IntDivision, ZenonT(30), Zenon
<1>2. PICK p \in Int, s \in 0 .. (m - 1) : y = m * p + s /\ s = y % m
  BY IntDivision, ZenonT(30), Zenon
<1>3. PICK n \in Int : n = p + k
  OBVIOUS
<1>4. m * n = m * p + m * k
  BY <1>3
<1>5. m * q + r = m * n + s
  <2>1. PICK a \in Int, b \in Int, c \in Int, d \in Int :
          a = m * q /\ b = m * p /\ c = m * k /\ d = m * n
    OBVIOUS
  <2>2. d = b + c /\ x = a + r /\ y = b + s /\ x = y + c
    BY <2>1, <1>1, <1>2, <1>4, ZenonT(60)
  <2>3. a + r = d + s
    BY <2>2
  <2> QED
    BY <2>1, <2>3
<1>6. r = s
  BY <1>5, IntModUnique
<1> QED
  BY <1>1, <1>2, <1>6, ZenonT(30), Zenon

\* The remainder of a difference is that of the difference of the remainders.
LEMMA RemainderOfDifference ==
  ASSUME NEW m \in Nat \ {0}, NEW x \in Int, NEW y \in Int
  PROVE  ((x % m) - (y % m)) % m = (x - y) % m
<1>1. PICK q \in Int, r \in 0 .. (m - 1) : x = m * q + r /\ r = x % m
  BY IntDivision, ZenonT(30), Zenon
<1>2. PICK p \in Int, s \in 0 .. (m - 1) : y = m * p + s /\ s = y % m
  BY IntDivision, ZenonT(30), Zenon
<1>3. PICK k \in Int, d \in Int, e \in Int : k = p - q /\ d = r - s /\ e = x - y
  OBVIOUS
<1>4. m * k = m * p - m * q
  BY <1>3
<1>5. d = e + m * k
  <2>1. PICK a \in Int, b \in Int, c \in Int : a = m * q /\ b = m * p /\ c = m * k
    OBVIOUS
  <2>2. x = a + r /\ y = b + s /\ c = b - a
    BY <2>1, <1>1, <1>2, <1>4, ZenonT(60)
  <2>3. d = e + c
    BY <2>2, <1>3
  <2> QED
    BY <2>1, <2>3
<1>6. d % m = e % m
  BY <1>5, SameRemainder, ZenonT(30), Zenon
<1> QED
  BY <1>1, <1>2, <1>3, <1>6, ZenonT(30), Zenon

\* A remainder may be taken before a subtraction.
LEMMA WithoutRemainder ==
  ASSUME NEW m \in Nat \ {0}, NEW x \in Int, NEW y \in Int
  PROVE  ((x % m) - y) % m = (x - y) % m
<1>1. PICK q \in Int, r \in 0 .. (m - 1) : x = m * q + r /\ r = x % m
  BY IntDivision, Zenon
<1>2. PICK d \in Int, e \in Int, k \in Int : d = r - y /\ e = x - y /\ k = -q
  OBVIOUS
<1>3. d = e + m * k
  <2>1. m * k = -(m * q)
    BY <1>2
  <2>2. PICK a \in Int, c \in Int : a = m * q /\ c = m * k
    OBVIOUS
  <2>3. x = a + r /\ c = -a
    BY <1>1, <2>1, <2>2
  <2>4. d = e + c
    BY <1>2, <2>3
  <2> QED
    BY <2>2, <2>4
<1>4. d % m = e % m
  BY <1>3, SameRemainder, ZenonT(30), ZenonT(30)
<1> QED
  BY <1>1, <1>2, <1>4, ZenonT(30), Zenon

\* Rounding down a sum loses at most one against rounding down its terms.
LEMMA FloorOfSum ==
  ASSUME NEW n \in Nat \ {0}, NEW x \in Nat, NEW y \in Nat
  PROVE  (x + y) \div n - x \div n \in {y \div n, y \div n + 1}
<1>1. PICK p \in Nat, r \in 0 .. (n - 1) : x = n * p + r /\ p = x \div n
  BY ModRange
<1>2. PICK q \in Nat, s \in 0 .. (n - 1) : y = n * q + s /\ q = y \div n
  BY ModRange
<1>3. PICK z \in Nat : z = x + y
  OBVIOUS
<1>4. PICK v \in Nat, t \in 0 .. (n - 1) : z = n * v + t /\ v = z \div n
  BY ModRange
<1>5. PICK w \in Nat : w = p + q
  OBVIOUS
<1>6. n * w = n * p + n * q /\ n * (w + 1) = n * w + n
  BY <1>5, SMTT(30)
<1>7. CASE r + s < n
  <2>1. n * v + t = n * w + (r + s) /\ r + s \in 0 .. (n - 1)
    BY <1>1, <1>2, <1>3, <1>4, <1>6, <1>7, SMTT(30)
  <2>2. v = w
    BY <2>1, DivisionUnique
  <2>3. v - p \in {q, q + 1}
    BY <1>5, <2>2, SMTT(30)
  <2> QED
    BY <1>1, <1>2, <1>3, <1>4, <2>3, ZenonT(60)
<1>8. CASE ~(r + s < n)
  <2>1. n * v + t = n * (w + 1) + (r + s - n) /\ r + s - n \in 0 .. (n - 1) /\ w + 1 \in Nat
    BY <1>1, <1>2, <1>3, <1>4, <1>6, <1>8, SMTT(30)
  <2>2. v = w + 1
    BY <2>1, DivisionUnique
  <2>3. v - p \in {q, q + 1}
    BY <1>5, <2>2
  <2> QED
    BY <1>1, <1>2, <1>3, <1>4, <2>3
<1> QED
  BY <1>7, <1>8

-----------------------------------------------------------------------------
(* The clocks of the reports: SenderReports *)

\* The arithmetic of the constants.
LEMMA ClockConstants ==
  /\ Short \in Nat \ {0} /\ U32 = Short * Short /\ U32 \in Nat \ {0}
  /\ Second \in Nat \ {0} /\ Micro \in Nat \ {0} /\ Num \in Nat \ {0} /\ Den \in Nat \ {0}
  /\ Offset \in Nat /\ Epoch \in Nat /\ MaxDelay \in Nat /\ Steps \subseteq Int
  /\ (MaxDelay * Short) \div Second + 2 < U32
<1>1. /\ Short \in Nat \ {0} /\ U32 = Short * Short
      /\ Second \in Nat \ {0} /\ Micro \in Nat \ {0} /\ Num \in Nat \ {0} /\ Den \in Nat \ {0}
      /\ Offset \in Nat /\ Epoch \in Nat /\ MaxDelay \in Nat /\ Steps \subseteq Int
      /\ (MaxDelay * Short) \div Second + 2 < U32
  BY BookkeepingAssumption, Zenon DEF S!ReportsAssumption
<1>2. Short * Short \in Nat \ {0}
  BY <1>1
<1> QED
  BY <1>1, <1>2, Zenon

\* A stamp made at time t carries the timestamp of t.
Stamped(s) == s.at \in Nat /\ s.ts = S!ntp_to_rtp90k(s.at)

\* The stamps were made one after the other and carry the timestamps of their
\* times.
StampInv ==
  /\ now \in Nat
  /\ Stamped(stamp) /\ Stamped(prev) /\ prev.at <= stamp.at /\ stamp.at <= now

\* A new stamp of the present keeps the invariant.
LEMMA NewStamp ==
  ASSUME StampInv, stamp' = [ts |-> S!ntp_to_rtp90k(now), at |-> now],
         prev' = stamp, now' = now
  PROVE  StampInv'
<1>1. stamp'.at = now /\ stamp'.ts = S!ntp_to_rtp90k(now)
  BY ZenonT(60)
<1>2. Stamped(stamp)'
  BY <1>1 DEF Stamped, StampInv, S!ntp_to_rtp90k, S!as_micros
<1>3. Stamped(prev)'
  BY DEF Stamped, StampInv, S!ntp_to_rtp90k, S!as_micros
<1> QED
  BY <1>1, <1>2, <1>3 DEF StampInv, Stamped

\* Every step keeps the stamps' invariant.
LEMMA StampNext == StampInv /\ [S!Next]_(S!vars) => StampInv'
<1> SUFFICES ASSUME StampInv, [S!Next]_(S!vars)
             PROVE  StampInv'
  OBVIOUS
<1>1. CASE UNCHANGED <<stamp, prev>> /\ now' \in {now, now + 1}
  BY <1>1 DEF StampInv, Stamped, S!ntp_to_rtp90k, S!as_micros
<1>2. CASE S!Tick
  BY <1>1, <1>2, Zenon DEF S!Tick
<1>3. CASE S!Media
  BY <1>3, NewStamp, Zenon DEF S!Media
<1>4. CASE S!generate_sr
  BY <1>4, NewStamp, Zenon DEF S!generate_sr
<1>5. ASSUME NEW m \in flight, S!on_sr_received(m)
      PROVE  StampInv'
  BY <1>1, <1>5 DEF S!on_sr_received
<1>6. ASSUME NEW d \in Steps, S!StepClock(d)
      PROVE  StampInv'
  BY <1>1, <1>6 DEF S!StepClock
<1>7. CASE UNCHANGED S!vars
  BY <1>1, <1>7 DEF S!vars
<1> QED
  BY <1>2, <1>3, <1>4, <1>5, <1>6, <1>7, ZenonT(60) DEF S!Next

\* Whole microseconds grow with the time.
LEMMA MicrosGrow ==
  ASSUME NEW a \in Nat, NEW b \in Nat, b <= a
  PROVE  /\ S!as_micros(a) \in Nat /\ S!as_micros(b) \in Nat
         /\ S!as_micros(b) <= S!as_micros(a)
<1>1. PICK d \in Nat : a = b + d
  BY SMTT(30)
<1>2. PICK p \in Nat, q \in Nat, t \in Nat :
        p = a \div Micro /\ q = b \div Micro /\ t = d \div Micro
  BY <1>1, ClockConstants, ModRange, Zenon
<1>3. p - q \in {t, t + 1}
  BY <1>1, <1>2, ClockConstants, FloorOfSum, ZenonT(60)
<1>4. q <= p
  BY <1>3
<1> QED
  BY <1>2, <1>4, Zenon DEF S!as_micros

\* Two stamps differ by the microseconds between them, to the tick.
LEMMA TicksBetween ==
  ASSUME NEW a \in Nat, NEW b \in Nat, b <= a
  PROVE  LET ticks == ((S!as_micros(a) - S!as_micros(b)) * Num) \div Den
         IN  (S!ntp_to_rtp90k(a) - S!ntp_to_rtp90k(b)) % U32 \in {ticks % U32, (ticks + 1) % U32}
<1>0. PICK e \in Nat : e = S!as_micros(Epoch) + Offset * (Second \div Micro)
  <2>1. S!as_micros(Epoch) \in Nat
    BY ClockConstants, ModRange, Zenon DEF S!as_micros
  <2>2. Second \div Micro \in Nat
    BY ClockConstants, ModRange, Zenon
  <2>3. Offset * (Second \div Micro) \in Nat
    BY <2>2, ClockConstants
  <2> QED
    BY <2>1, <2>3
<1>1. PICK v \in Nat, w \in Nat : v = S!as_micros(a) /\ w = S!as_micros(b) /\ w <= v
  BY MicrosGrow, Zenon
<1>2. PICK x \in Nat, d \in Nat : x = (e + w) * Num /\ d = (v - w) * Num /\ (e + v) * Num = x + d
  <2>1. PICK g \in Nat, h \in Nat : g = v - w /\ h = e + w /\ e + v = h + g
    BY <1>1
  <2>2. h * Num \in Nat /\ g * Num \in Nat /\ (h + g) * Num = h * Num + g * Num
    BY ClockConstants
  <2> QED
    BY <2>1, <2>2, Zenon
<1>3. PICK p \in Int, q \in Int, t \in Int :
        p = (x + d) \div Den /\ q = x \div Den /\ t = d \div Den
  BY ClockConstants
<1>4. p - q \in {t, t + 1}
  BY <1>3, ClockConstants, FloorOfSum, Zenon
<1>5. ((p % U32) - (q % U32)) % U32 = (p - q) % U32
  BY ClockConstants, RemainderOfDifference, ZenonT(30), Zenon
<1>6. S!ntp_to_rtp90k(a) = p % U32 /\ S!ntp_to_rtp90k(b) = q % U32
  BY <1>0, <1>1, <1>2, <1>3, Zenon DEF S!ntp_to_rtp90k
<1>7. ((v - w) * Num) \div Den = t
  BY <1>2, <1>3, Zenon
<1>8. (p - q) % U32 \in {t % U32, (t + 1) % U32}
  BY <1>4, ZenonT(60)
<1> QED
  BY <1>1, <1>5, <1>6, <1>7, <1>8, ZenonT(60)

\* Media packets and sender reports are stamped on one timeline, whatever is
\* done to the system clock, across any number of wraps and for every rate:
\* between two stamps the timestamp advances by the microseconds between them.
THEOREM TimelineIsOne == S!Spec => []OneTimeline
<1>1. S!Init => StampInv
  <2> SUFFICES ASSUME S!Init
               PROVE  StampInv
    OBVIOUS
  <2>1. stamp.at = 0 /\ stamp.ts = S!ntp_to_rtp90k(0) /\ prev = stamp /\ now = 0
    BY DEF S!Init
  <2> QED
    BY <2>1 DEF StampInv, Stamped
<1>2. StampInv => OneTimeline
  BY TicksBetween, Zenon DEF StampInv, Stamped, OneTimeline, S!OneTimeline
<1> QED
  BY <1>1, <1>2, StampNext, PTL DEF S!Spec

\* A quotient is known from the division.
LEMMA QuotientIs ==
  ASSUME NEW n \in Nat \ {0}, NEW q \in Nat, NEW r \in 0 .. (n - 1), NEW x \in Nat, x = n * q + r
  PROVE  x \div n = q
<1>1. PICK p \in Nat, s \in 0 .. (n - 1) : x = n * p + s /\ p = x \div n
  BY ModRange, Zenon
<1>2. n * q + r = n * p + s
  BY <1>1, Zenon
<1>3. q = p
  BY <1>2, DivisionUnique
<1> QED
  BY <1>1, <1>3, Zenon

\* Arithmetic: a product below n times c has a factor below c.
LEMMA FactorBelow ==
  ASSUME NEW n \in Nat \ {0}, NEW c \in Nat, NEW h \in Nat, n * h < n * c
  PROVE  h < c
<1>1. CASE h >= c
  <2>1. PICK d \in Nat : h = c + d
    BY <1>1
  <2>2. n * h = n * c + n * d /\ n * d >= 0 /\ n * c \in Nat /\ n * d \in Nat
    BY <2>1
  <2> QED
    BY <2>2
<1> QED
  BY <1>1

LEMMA ProductBelow ==
  ASSUME NEW n \in Nat, NEW c \in Nat \ {0}, NEW g \in Nat, g < n
  PROVE  g * c < n * c
<1>1. PICK d \in Nat \ {0} : n = g + d
  <2>1. n - g \in Nat \ {0} /\ n = g + (n - g)
    OBVIOUS
  <2> QED
    BY <2>1, Zenon
<1>2. n * c = g * c + d * c /\ d * c > 0 /\ g * c \in Nat /\ d * c \in Nat
  BY <1>1
<1> QED
  BY <1>2

\* Of a fraction in units of a square, the upper half is the fraction in units of
\* the root: rounding twice is rounding once.
LEMMA UpperHalf ==
  ASSUME NEW n \in Nat \ {0}, NEW c \in Nat \ {0}, NEW r \in Nat
  PROVE  ((r * (c * c)) \div n) \div c = (r * c) \div n
<1>1. PICK y \in Nat : y = r * c
  OBVIOUS
<1>2. PICK f \in Nat, g \in 0 .. (n - 1) : y = n * f + g /\ f = y \div n
  BY ModRange, Zenon
<1>3. PICK z \in Nat : z = g * c
  OBVIOUS
<1>4. PICK h \in Nat, i \in 0 .. (n - 1) : z = n * h + i
  <2>1. z % n \in 0 .. (n - 1) /\ z \div n \in Nat /\ z = n * (z \div n) + (z % n)
    BY ModRange, Zenon
  <2> QED
    BY <2>1, Zenon
<1>5. h < c
  <2>1. z < n * c
    BY <1>3, ProductBelow
  <2>2. n * h \in Nat /\ n * c \in Nat
    OBVIOUS
  <2>3. n * h < n * c
    BY <1>4, <2>1, <2>2
  <2> QED
    BY <2>3, FactorBelow
<1>6. PICK v \in Nat : v = c * f + h
  OBVIOUS
<1>7. PICK x \in Nat : x = r * (c * c) /\ x = y * c
  BY <1>1
<1>8. x = n * v + i
  <2>1. y * c = n * (c * f) + g * c
    BY <1>2
  <2>2. n * v = n * (c * f) + n * h
    BY <1>6
  <2>3. n * (c * f) \in Nat /\ n * h \in Nat
    OBVIOUS
  <2> QED
    BY <1>3, <1>4, <1>7, <2>1, <2>2, <2>3
<1>9. x \div n = v
  BY <1>8, QuotientIs, ZenonT(60)
<1>10. v \div c = f
  <2>1. h \in 0 .. (c - 1)
    BY <1>5
  <2> QED
    BY <1>6, <2>1, QuotientIs, ZenonT(60)
<1> QED
  BY <1>1, <1>2, <1>7, <1>9, <1>10, ZenonT(60)

\* The number of whole 2^-16 seconds, from whole seconds and the rest.
LEMMA SecondsAndRest ==
  ASSUME NEW n \in Nat \ {0}, NEW c \in Nat \ {0}, NEW q \in Nat, NEW r \in 0 .. (n - 1)
  PROVE  /\ ((n * q + r) * c) \div n = q * c + (r * c) \div n
         /\ (r * c) \div n \in 0 .. (c - 1)
<1>1. PICK y \in Nat : y = r * c
  OBVIOUS
<1>2. PICK f \in Nat, g \in 0 .. (n - 1) : y = n * f + g /\ f = y \div n
  BY ModRange, Zenon
<1>3. f < c
  <2>1. y < n * c
    BY <1>1, ProductBelow
  <2>2. n * f \in Nat /\ n * c \in Nat
    OBVIOUS
  <2>3. n * f < n * c
    BY <1>2, <2>1, <2>2
  <2> QED
    BY <2>3, FactorBelow
<1>4. PICK v \in Nat, x \in Nat : v = q * c + f /\ x = (n * q + r) * c
  OBVIOUS
<1>5. x = n * v + g
  <2>1. x = n * (q * c) + r * c
    BY <1>4
  <2>2. n * v = n * (q * c) + n * f
    BY <1>4
  <2>3. n * (q * c) \in Nat /\ n * f \in Nat
    OBVIOUS
  <2> QED
    BY <1>1, <1>2, <2>1, <2>2, <2>3
<1>6. x \div n = v
  BY <1>5, QuotientIs, ZenonT(60)
<1>7. f \in 0 .. (c - 1)
  BY <1>3
<1> QED
  BY <1>1, <1>2, <1>4, <1>6, <1>7, ZenonT(60)

\* The compact time of t.
Compact(t) == S!compact_ntp(S!system_time_to_ntp(t))

\* Arithmetic: the root of a modulus in a product.
LEMMA SquareOut ==
  ASSUME NEW c \in Nat, NEW a \in Nat, NEW b \in Nat
  PROVE  (c * a + b) * c = (c * c) * a + b * c
OBVIOUS

\* The compact time counts 2^-16 seconds since 1900, modulo 2^32.
LEMMA CompactIs ==
  ASSUME NEW t \in Nat
  PROVE  /\ S!Fraction16(Epoch + t) \in Nat
         /\ Compact(t) = (S!Fraction16(Epoch + t) + Offset * Short) % U32
<1>1. PICK x \in Nat : x = Epoch + t
  BY ClockConstants
<1>2. PICK q \in Nat, r \in 0 .. (Second - 1) :
        x = Second * q + r /\ q = x \div Second /\ r = x % Second
  BY ClockConstants, ModRange, Zenon
<1>3. PICK f \in 0 .. (Short - 1) : f = (r * Short) \div Second /\ S!Fraction16(x) = q * Short + f
  <2>1. /\ ((Second * q + r) * Short) \div Second = q * Short + (r * Short) \div Second
        /\ (r * Short) \div Second \in 0 .. (Short - 1)
    <3>1. Second \in Nat \ {0} /\ Short \in Nat \ {0}
      BY ClockConstants, Zenon
    <3> QED
      BY <3>1, SecondsAndRest, ZenonT(30)
  <2>2. S!Fraction16(x) = ((Second * q + r) * Short) \div Second
    BY <1>2 DEF S!Fraction16
  <2> QED
    BY <2>1, <2>2, Zenon
<1>4. PICK n \in Nat : n = q + Offset
  BY ClockConstants
<1>5. PICK a \in Nat, b \in 0 .. (Short - 1) : n = Short * a + b /\ b = n % Short
  BY ClockConstants, ModRange, Zenon
<1>6. (n % U32) % Short = b
  <2>1. (n % U32) % Short = n % Short
    <3>1. Short \in Nat \ {0} /\ U32 \in Nat \ {0} /\ U32 = Short * Short
      BY ClockConstants, Zenon
    <3> QED
      BY <3>1, ModMod, ZenonT(30)
  <2> QED
    BY <1>5, <2>1, Zenon
<1>7. ((r * U32) \div Second) \div Short = f
  <2>1. r \in Nat
    BY ClockConstants
  <2> QED
    BY <1>3, <2>1, ClockConstants, UpperHalf, Zenon
<1>8. Compact(t) = b * Short + f
  <2>1. /\ S!system_time_to_ntp(t).msw = n % U32
        /\ S!system_time_to_ntp(t).lsw = (r * U32) \div Second
    BY <1>1, <1>2, <1>4, Zenon DEF S!system_time_to_ntp
  <2> QED
    BY <1>6, <1>7, <2>1, Zenon DEF Compact, S!compact_ntp
<1>9. PICK y \in Nat, s \in Nat : y = q * Short + f + Offset * Short /\ s = b * Short + f
  BY ClockConstants
<1>10. s \in 0 .. (U32 - 1)
  <2>1. b * Short < (b + 1) * Short /\ (b + 1) * Short = b * Short + Short
    BY ClockConstants
  <2>2. (b + 1) * Short <= Short * Short
    <3>1. PICK d \in Nat : Short = (b + 1) + d
      BY ClockConstants
    <3>2. Short * Short = (b + 1) * Short + d * Short /\ d * Short \in Nat
      BY <3>1, ClockConstants
    <3>3. (b + 1) * Short \in Nat
      BY ClockConstants
    <3> QED
      BY <3>2, <3>3
  <2>3. b * Short \in Nat /\ f \in Nat /\ f < Short
    BY ClockConstants
  <2> QED
    BY <1>9, <2>1, <2>2, <2>3, ClockConstants
<1>11. y = U32 * a + s
  <2>1. PICK z \in Nat : z = n * Short
    BY ClockConstants
  <2>2. z = q * Short + Offset * Short
    BY <1>4, <2>1, ClockConstants
  <2>3. z = (Short * Short) * a + b * Short
    <3>1. b \in Nat /\ Short \in Nat
      BY ClockConstants
    <3>2. (Short * a + b) * Short = (Short * Short) * a + b * Short
      BY <3>1, SquareOut, Zenon
    <3> QED
      BY <1>5, <2>1, <3>2, ZenonT(60)
  <2>4. q * Short \in Nat /\ Offset * Short \in Nat /\ b * Short \in Nat /\ f \in Nat
    BY ClockConstants
  <2>5. y = z + f
    BY <1>9, <2>2, <2>4
  <2>6. PICK w \in Nat : w = U32 * a /\ w = (Short * Short) * a
    BY ClockConstants
  <2> QED
    BY <1>9, <2>3, <2>4, <2>5, <2>6
<1>12. y % U32 = s
  BY <1>10, <1>11, ClockConstants, ModUnique
<1>13. q * Short + f \in Nat
  BY ClockConstants
<1> QED
  BY <1>1, <1>3, <1>8, <1>9, <1>12, <1>13, ZenonT(60)

\* A report in flight is a pair of words and an age, and carries, while the system
\* clock is not set, the compact time of its making.
InFlightOK(m) ==
  /\ m = [msw |-> m.msw, lsw |-> m.lsw, age |-> m.age] /\ m.age \in 0..MaxDelay
  /\ wall = now => m.age <= now /\ S!compact_ntp(m) = Compact(now - m.age)

\* So does the last one received.
DelayInv ==
  /\ now \in Nat /\ wall \in Nat /\ sinceSr \in Nat /\ travel \in 0..MaxDelay
  /\ \A m \in flight : InFlightOK(m)
  /\ wall = now /\ last_sr # -1 =>
       sinceSr + travel <= now /\ last_sr = Compact(now - sinceSr - travel)

\* A tick ages what is in flight and what was received.
LEMMA DelayTick ==
  ASSUME DelayInv, S!Tick
  PROVE  DelayInv'
<1>1. /\ now' = now + 1 /\ wall' = wall + 1 /\ last_sr' = last_sr /\ travel' = travel
      /\ sinceSr' = IF last_sr = -1 THEN 0 ELSE sinceSr + 1
      /\ flight' = {[m EXCEPT !.age = @ + 1] : m \in {n \in flight : n.age < MaxDelay}}
  BY DEF S!Tick
<1>2. now' \in Nat /\ wall' \in Nat /\ sinceSr' \in Nat /\ travel' \in 0..MaxDelay
  BY <1>1 DEF DelayInv
<1>3. wall' = now' => wall = now
  BY <1>1, SMTT(30) DEF DelayInv
<1>4. ASSUME NEW m \in flight'
      PROVE  InFlightOK(m)'
  <2>1. PICK n \in flight : n.age < MaxDelay /\ m = [n EXCEPT !.age = @ + 1]
    BY <1>1, Zenon
  <2>2. InFlightOK(n)
    BY Zenon DEF DelayInv
  <2>3. n = [msw |-> n.msw, lsw |-> n.lsw, age |-> n.age] /\ n.age \in 0..MaxDelay
    BY <2>2, Zenon DEF InFlightOK
  <2>4. m = [msw |-> n.msw, lsw |-> n.lsw, age |-> n.age + 1]
    BY <2>1, <2>3
  <2>5. m.msw = n.msw /\ m.lsw = n.lsw /\ m.age = n.age + 1
    BY <2>4, Zenon
  <2>6. m = [msw |-> m.msw, lsw |-> m.lsw, age |-> m.age]
    BY <2>4, <2>5, ZenonT(60)
  <2>7. PICK a \in Nat : a = n.age
    BY <2>3
  <2>8. now + 1 - (a + 1) = now - a /\ (a <= now => a + 1 <= now + 1) /\ (a < MaxDelay => a + 1 \in 0..MaxDelay)
    BY ClockConstants DEF DelayInv
  <2>9. S!compact_ntp(m) = S!compact_ntp(n)
    BY <2>5, Zenon DEF S!compact_ntp
  <2>10. ASSUME wall' = now'
         PROVE  m.age <= now' /\ S!compact_ntp(m) = Compact(now' - m.age)
    <3>1. a <= now /\ S!compact_ntp(n) = Compact(now - a)
      BY <1>3, <2>2, <2>7, <2>10, ZenonT(60) DEF InFlightOK
    <3>2. now' - m.age = now - a /\ m.age <= now'
      <4>1. now' = now + 1 /\ m.age = a + 1
        BY <1>1, <2>5, <2>7, Zenon
      <4>2. now \in Nat
        BY Zenon DEF DelayInv
      <4> QED
        BY <3>1, <4>1, <4>2
    <3> QED
      BY <2>9, <3>1, <3>2, Zenon
  <2>11. m.age \in 0..MaxDelay
    BY <2>1, <2>5, <2>7, <2>8, Zenon
  <2> QED
    BY <2>6, <2>10, <2>11, Zenon DEF InFlightOK, S!compact_ntp, Compact, S!system_time_to_ntp
<1>5. ASSUME wall' = now', last_sr' # -1
      PROVE  sinceSr' + travel' <= now' /\ last_sr' = Compact(now' - sinceSr' - travel')
  <2>1. sinceSr' = sinceSr + 1
    BY <1>1, <1>5, Zenon
  <2>2. sinceSr + travel <= now /\ last_sr = Compact(now - sinceSr - travel)
    BY <1>1, <1>3, <1>5, ZenonT(60) DEF DelayInv
  <2>3. PICK k \in Nat, v \in Nat, n \in Nat : k = sinceSr /\ v = travel /\ n = now /\ k + v <= n
    BY <2>2, ClockConstants DEF DelayInv
  <2>4. n + 1 - (k + 1) - v = n - k - v /\ k + 1 + v <= n + 1
    BY <2>3
  <2>5. now' - sinceSr' - travel' = now - sinceSr - travel /\ sinceSr' + travel' <= now'
    BY <1>1, <2>1, <2>3, <2>4
  <2> QED
    BY <1>1, <2>2, <2>5, Zenon
<1> QED
  BY <1>2, <1>4, <1>5, Zenon DEF DelayInv, Compact, S!compact_ntp, S!system_time_to_ntp

\* A new report carries the system clock's time, whether it is lost or not.
LEMMA DelaySent ==
  ASSUME DelayInv, S!generate_sr
  PROVE  DelayInv'
<1>1. UNCHANGED <<now, wall, last_sr, sinceSr, travel>>
  BY DEF S!generate_sr
<1>2. ASSUME NEW m \in flight', m \notin flight
      PROVE  InFlightOK(m)
  <2>1. PICK w, l : w = S!system_time_to_ntp(wall).msw /\ l = S!system_time_to_ntp(wall).lsw
    OBVIOUS
  <2>2. m = [msw |-> w, lsw |-> l, age |-> 0]
    BY <1>2, <2>1, Zenon DEF S!generate_sr
  <2>3. m.msw = w /\ m.lsw = l /\ m.age = 0
    BY <2>2, Zenon
  <2>4. S!compact_ntp(m) = Compact(wall)
    BY <2>1, <2>3, ZenonT(60) DEF Compact, S!compact_ntp
  <2>5. now - 0 = now /\ 0 <= now /\ 0 \in 0..MaxDelay
    BY ClockConstants DEF DelayInv
  <2> QED
    BY <2>2, <2>3, <2>4, <2>5, Zenon DEF InFlightOK
<1>3. \A m \in flight' : InFlightOK(m)
  BY <1>2, Zenon DEF DelayInv
<1>4. (\A m \in flight : InFlightOK(m))'
  BY <1>1, <1>3, Zenon DEF InFlightOK, S!compact_ntp, Compact, S!system_time_to_ntp
<1> QED
  BY <1>1, <1>4, ZenonT(60) DEF DelayInv, Compact, S!compact_ntp, S!system_time_to_ntp

\* Every step keeps the reports' invariant.
LEMMA DelayNext == DelayInv /\ [S!Next]_(S!vars) => DelayInv'
<1> SUFFICES ASSUME DelayInv, [S!Next]_(S!vars)
             PROVE  DelayInv'
  OBVIOUS
<1>0. ASSUME UNCHANGED <<now, wall>>, flight' \subseteq flight
      PROVE  (\A m \in flight : InFlightOK(m))'
  BY <1>0, Zenon DEF DelayInv, InFlightOK, S!compact_ntp, Compact, S!system_time_to_ntp
<1>1. CASE S!Tick
  BY <1>1, DelayTick
<1>2. CASE UNCHANGED <<now, wall, flight, last_sr, sinceSr, travel>>
  BY <1>0, <1>2, Zenon DEF DelayInv, Compact, S!compact_ntp, S!system_time_to_ntp
<1>3. CASE S!generate_sr
  BY <1>3, DelaySent
<1>4. ASSUME NEW m \in flight, S!on_sr_received(m)
      PROVE  DelayInv'
  <2>1. /\ last_sr' = S!compact_ntp(m) /\ sinceSr' = 0 /\ travel' = m.age /\ flight' \subseteq flight
        /\ now' = now /\ wall' = wall
    BY <1>4, Zenon DEF S!on_sr_received
  <2>2. m.age \in 0..MaxDelay /\ (wall = now => m.age <= now /\ S!compact_ntp(m) = Compact(now - m.age))
    BY Zenon DEF DelayInv, InFlightOK
  <2>3. now - 0 - m.age = now - m.age /\ 0 + m.age = m.age /\ 0 \in Nat
    BY <2>2, ClockConstants DEF DelayInv
  <2>4. wall' = now' => sinceSr' + travel' <= now' /\ last_sr' = Compact(now' - sinceSr' - travel')
    BY <2>1, <2>2, <2>3, Zenon
  <2>5. (\A n \in flight : InFlightOK(n))'
    BY <1>0, <2>1, Zenon
  <2> QED
    BY <2>1, <2>2, <2>3, <2>4, <2>5, ZenonT(60) DEF DelayInv, Compact, S!compact_ntp, S!system_time_to_ntp
<1>5. ASSUME NEW d \in Steps, S!StepClock(d)
      PROVE  DelayInv'
  <2>1. /\ wall = now /\ wall' = wall + d /\ wall + d >= 0
        /\ UNCHANGED <<now, flight, last_sr, sinceSr, travel>>
    BY <1>5, ZenonT(60) DEF S!StepClock
  <2>2. d \in Int /\ wall' \in Nat
    BY <2>1, ClockConstants, SMTT(30) DEF DelayInv
  <2>3. wall' = now' => wall' = wall
    BY <2>1, Zenon
  <2>4. (\A m \in flight : InFlightOK(m))'
    <3>1. CASE wall' = wall
      BY <1>0, <2>1, <3>1, Zenon
    <3>2. CASE wall' # now'
      BY <2>1, <3>2, Zenon DEF DelayInv, InFlightOK
    <3> QED
      BY <2>3, <3>1, <3>2, Zenon
  <2> QED
    BY <2>1, <2>2, <2>3, <2>4, Zenon DEF DelayInv, Compact, S!compact_ntp, S!system_time_to_ntp
<1> QED
  BY <1>1, <1>2, <1>3, <1>4, <1>5, ZenonT(60) DEF S!Next, S!Media, S!vars

\* Of two compact times and a third the difference is that of the times they
\* stand for, if it is less than 2^32.
LEMMA DelayFollows ==
  ASSUME NEW x \in Int, NEW y \in Int, NEW k \in Int, x - y - k \in 0 .. (U32 - 1)
  PROVE  ((x % U32) - (y % U32) - k) % U32 = x - y - k
<1>0. PICK u \in Nat \ {0} : u = U32
  BY ClockConstants, Zenon
<1>1. PICK d \in Int, w \in 0 .. (u - 1) : d = x - y /\ d - k = w
  BY <1>0
<1>2. ((x % u) - (y % u)) % u = d % u
  BY <1>1, RemainderOfDifference, Zenon
<1>3. PICK v \in Int : v = (x % u) - (y % u)
  <2>1. PICK p \in Int, r \in 0 .. (u - 1) : r = x % u
    BY IntDivision, Zenon
  <2>2. PICK q \in Int, s \in 0 .. (u - 1) : s = y % u
    BY IntDivision, Zenon
  <2>3. r - s \in Int
    OBVIOUS
  <2> QED
    BY <2>1, <2>2, <2>3, Zenon
<1>4. ((v % u) - k) % u = (v - k) % u /\ ((d % u) - k) % u = (d - k) % u
  BY WithoutRemainder, Zenon
<1>5. w % u = w
  BY ModSmall, Zenon
<1>6. (v - k) % u = w
  BY <1>1, <1>2, <1>3, <1>4, <1>5, ZenonT(60)
<1> QED
  BY <1>0, <1>1, <1>3, <1>6, ZenonT(60)

\* Rounded down, a sum of three times is the sum of them rounded, to two units; and
\* the time a report travels is told apart modulo 2^32.
LEMMA TimesFollow ==
  ASSUME NEW x \in Nat, NEW k \in Nat, NEW t \in 0 .. MaxDelay
  PROVE  /\ S!Fraction16(x) \in Nat /\ S!Fraction16(k) \in Nat /\ S!Fraction16(t) \in Nat
         /\ S!Fraction16(t) + 2 < U32
         /\ \E j \in 0 .. 2 : S!Fraction16(x + k + t) =
              S!Fraction16(x) + S!Fraction16(k) + S!Fraction16(t) + j
<1>1. PICK n \in Nat \ {0}, c \in Nat \ {0} : n = Second /\ c = Short
  BY ClockConstants, Zenon
<1>2. PICK d \in Nat : MaxDelay = t + d
  BY ClockConstants
<1>3. PICK xx \in Nat, kk \in Nat, tt \in Nat, dd \in Nat :
        xx = x * c /\ kk = k * c /\ tt = t * c /\ dd = d * c
  OBVIOUS
<1>4. (x + k + t) * c = xx + (kk + tt) /\ MaxDelay * c = tt + dd /\ kk + tt \in Nat
  BY <1>2, <1>3
<1>5. PICK fx \in Nat, fk \in Nat, ft \in Nat, fd \in Nat, fs \in Nat :
        /\ fx = xx \div n /\ fk = kk \div n /\ ft = tt \div n /\ fd = dd \div n
        /\ fs = (kk + tt) \div n
  BY <1>4, ModRange, Zenon
<1>6. PICK fa \in Nat, fm \in Nat : fa = (xx + (kk + tt)) \div n /\ fm = (tt + dd) \div n
  <2>1. xx + (kk + tt) \in Nat /\ tt + dd \in Nat
    OBVIOUS
  <2> QED
    BY <2>1, ModRange, Zenon
<1>7. fa - fx \in {fs, fs + 1}
  BY <1>4, <1>5, <1>6, FloorOfSum, Zenon
<1>8. fs - fk \in {ft, ft + 1}
  BY <1>5, FloorOfSum, Zenon
<1>9. fm - ft \in {fd, fd + 1}
  BY <1>5, <1>6, FloorOfSum, Zenon
<1>10. fm + 2 < U32
  BY <1>1, <1>4, <1>6, ClockConstants, ZenonT(60)
<1>11. ft + 2 < U32
  BY <1>9, <1>10, ClockConstants
<1>12. \E j \in 0 .. 2 : fa = fx + fk + ft + j
  <2>1. fa - fx - fk - ft \in 0 .. 2 /\ fa = fx + fk + ft + (fa - fx - fk - ft)
    BY <1>7, <1>8
  <2> QED
    BY <2>1, Zenon
<1>13. /\ S!Fraction16(x) = fx /\ S!Fraction16(k) = fk /\ S!Fraction16(t) = ft
       /\ S!Fraction16(x + k + t) = fa
  BY <1>1, <1>3, <1>4, <1>5, <1>6, ZenonT(60) DEF S!Fraction16
<1> QED
  BY <1>11, <1>12, <1>13, Zenon

\* From the two fields of a receiver report the sender can tell, to two units of
\* 2^-16 seconds, how long the sender report received last had travelled, in
\* whatever order the reports came, for every epoch and width of the compact time,
\* until the delay field saturates.
THEOREM DelayIsTold == S!Spec => []ReportsTellDelay
<1>1. S!Init => DelayInv
  <2> SUFFICES ASSUME S!Init
               PROVE  DelayInv
    OBVIOUS
  <2>1. now = 0 /\ wall = 0 /\ sinceSr = 0 /\ travel = 0 /\ flight = {} /\ last_sr = -1
    BY DEF S!Init
  <2>2. 0 \in Nat /\ 0 \in 0 .. MaxDelay
    BY ClockConstants
  <2> QED
    BY <2>1, <2>2, Zenon DEF DelayInv
<1>2. DelayInv => ReportsTellDelay
  <2> SUFFICES ASSUME DelayInv, wall = now, last_sr # -1, S!Fraction16(sinceSr) < U32
               PROVE  ((Compact(now) - last_sr - S!delay_since_last_sr) % U32)
                        - S!Fraction16(travel) \in 0 .. 2
    BY Zenon DEF ReportsTellDelay, S!ReportsTellDelay, Compact
  <2>1. sinceSr + travel <= now /\ last_sr = Compact(now - sinceSr - travel)
    BY Zenon DEF DelayInv
  <2>2. PICK t \in 0 .. MaxDelay, k \in Nat, n \in Nat : t = travel /\ k = sinceSr /\ n = now
    BY Zenon DEF DelayInv
  <2>3. PICK m \in Nat : m = n - k - t /\ n = m + k + t
    BY <2>1, <2>2, ClockConstants
  <2>4. PICK x \in Nat : x = Epoch + m /\ Epoch + n = x + k + t
    BY <2>3, ClockConstants
  <2>5. PICK fx \in Nat, fk \in Nat, ft \in Nat, j \in 0 .. 2 :
          /\ fx = S!Fraction16(x) /\ fk = S!Fraction16(k) /\ ft = S!Fraction16(t) /\ ft + 2 < U32
          /\ S!Fraction16(x + k + t) = fx + fk + ft + j
    <3>1. /\ S!Fraction16(x) \in Nat /\ S!Fraction16(k) \in Nat /\ S!Fraction16(t) \in Nat
          /\ S!Fraction16(t) + 2 < U32
      BY TimesFollow, Zenon
    <3>2. PICK j \in 0 .. 2 : S!Fraction16(x + k + t) =
            S!Fraction16(x) + S!Fraction16(k) + S!Fraction16(t) + j
      BY TimesFollow, Zenon
    <3> QED
      BY <3>1, <3>2, Zenon
  <2>6. PICK fa \in Int, fb \in Int, w \in 0 .. (U32 - 1) :
          /\ fa = fx + fk + ft + j + Offset * Short /\ fb = fx + Offset * Short
          /\ w = ft + j /\ fa - fb - fk = w
    <3>1. PICK c \in Nat : c = Offset * Short
      BY ClockConstants
    <3>2. ft + j \in 0 .. (U32 - 1)
      BY <2>5, ClockConstants
    <3> QED
      BY <3>1, <3>2
  <2>7. Compact(n) = fa % U32 /\ Compact(m) = fb % U32
    <3>1. /\ Compact(n) = (S!Fraction16(Epoch + n) + Offset * Short) % U32
          /\ Compact(m) = (S!Fraction16(Epoch + m) + Offset * Short) % U32
      BY CompactIs, Zenon
    <3>2. S!Fraction16(Epoch + n) = fx + fk + ft + j /\ S!Fraction16(Epoch + m) = fx
      BY <2>4, <2>5, Zenon
    <3> QED
      BY <2>6, <3>1, <3>2, Zenon
  <2>8. S!delay_since_last_sr = fk
    BY <2>2, <2>5, Zenon DEF S!delay_since_last_sr
  <2>9. last_sr = Compact(m)
    BY <2>1, <2>2, <2>3, Zenon
  <2>10. ((fa % U32) - (fb % U32) - fk) % U32 = w
    <3>1. fk \in Int
      OBVIOUS
    <3>2. fa - fb - fk \in 0 .. (U32 - 1)
      BY <2>6, Zenon
    <3>3. ((fa % U32) - (fb % U32) - fk) % U32 = fa - fb - fk
      BY <3>1, <3>2, DelayFollows, Zenon
    <3> QED
      BY <2>6, <3>3, Zenon
  <2>11. (Compact(now) - last_sr - S!delay_since_last_sr) % U32 = w
    BY <2>2, <2>7, <2>8, <2>9, <2>10, ZenonT(60)
  <2>12. w - ft \in 0 .. 2
    BY <2>6
  <2> QED
    BY <2>2, <2>5, <2>11, <2>12, Zenon
<1> QED
  BY <1>1, <1>2, DelayNext, PTL DEF S!Spec

-----------------------------------------------------------------------------
(* The jitter: Jitter *)

\* The arithmetic of the constants.
LEMMA JitterConstants == U32 \in Nat \ {0} /\ Latencies \subseteq 0..(U32 - 1)
BY BookkeepingAssumption DEF J!JitterAssumption

\* Until the clock saturates, the transit time of a packet is its latency less
\* the offset of the clocks.
LEMMA TransitIsLatency ==
  ASSUME NEW c \in Nat, NEW o \in 0..(U32 - 1), NEW lat \in Latencies, lat <= c
  PROVE  (c - ((c - lat + o) % U32)) % U32 = (lat - o) % U32
<1>1. lat \in Nat
  BY JitterConstants
<1>2. PICK x \in Int : x = c - lat + o
  BY <1>1, JitterConstants
<1>3. PICK q \in Int, r \in 0 .. (U32 - 1) : x = U32 * q + r /\ r = x % U32
  BY IntDivision, JitterConstants, ZenonT(30), Zenon
<1>4. PICK d \in Int, e \in Int : d = c - r /\ e = lat - o
  BY <1>1, JitterConstants
<1>5. d = e + U32 * q
  <2>1. PICK y \in Int : y = U32 * q
    BY JitterConstants
  <2>2. d = e + y
    BY <1>1, <1>2, <1>3, <1>4, <2>1, JitterConstants, SMTT(30)
  <2> QED
    BY <2>1, <2>2
<1>6. d % U32 = e % U32
  BY <1>5, SameRemainder, JitterConstants, ZenonT(30), ZenonT(30)
<1> QED
  BY <1>2, <1>3, <1>4, <1>6, ZenonT(30), ZenonT(30)

\* Transit times on one side of the wrap differ by the difference of the
\* latencies.
LEMMA TransitsDiffer ==
  ASSUME NEW a \in Latencies, NEW b \in Latencies, NEW o \in 0..(U32 - 1), a < b,
         (a - o) % U32 <= (b - o) % U32
  PROVE  ((b - o) % U32) - ((a - o) % U32) = b - a
<1>1. a \in 0..(U32 - 1) /\ b \in 0..(U32 - 1)
  BY JitterConstants
<1>2. PICK x \in Int, y \in Int : x = a - o /\ y = b - o
  BY <1>1, JitterConstants
<1>3. PICK p \in Int, r \in 0 .. (U32 - 1) : x = U32 * p + r /\ r = x % U32
  BY IntDivision, JitterConstants, ZenonT(30), Zenon
<1>4. PICK q \in Int, s \in 0 .. (U32 - 1) : y = U32 * q + s /\ s = y % U32
  BY IntDivision, JitterConstants, ZenonT(30), ZenonT(30)
<1>5. PICK k \in Int, g \in 0 .. (U32 - 1), h \in 0 .. (U32 - 1) :
        k = q - p /\ g = b - a /\ h = s - r
  <2>1. r <= s
    BY <1>2, <1>3, <1>4, ZenonT(30), Zenon
  <2>2. q - p \in Int /\ b - a \in 0 .. (U32 - 1) /\ s - r \in 0 .. (U32 - 1)
    BY <1>1, <2>1, JitterConstants
  <2> QED
    BY <2>2
<1>6. U32 * k + h = U32 * 0 + g
  <2>1. U32 * k = U32 * q - U32 * p
    BY <1>5, JitterConstants
  <2>2. PICK u \in Int, v \in Int, w \in Int : u = U32 * q /\ v = U32 * p /\ w = U32 * k
    BY JitterConstants, SMTT(30)
  <2>3. w = u - v /\ x = v + r /\ y = u + s
    BY <1>3, <1>4, <2>1, <2>2, ZenonT(60)
  <2>4. w + h = g
    BY <1>1, <1>2, <1>5, <2>3, JitterConstants, SMTT(30)
  <2> QED
    BY <2>2, <2>4, JitterConstants
<1>7. h = g
  BY <1>6, IntModUnique, JitterConstants
<1>8. (b - o) % U32 = s /\ (a - o) % U32 = r
  BY <1>2, <1>3, <1>4, ZenonT(30), ZenonT(30)
<1>9. s - r = b - a
  BY <1>5, <1>7
<1> QED
  BY <1>8, <1>9

\* Until the clock saturates, the transit time kept is that of the packet before,
\* and no deviation fed to the jitter was above the changes of latency seen.
JitterInv ==
  /\ clock \in Nat /\ offset \in 0..(U32 - 1) /\ last_transit \in Int
  /\ deviation \in Int /\ variation \in Int /\ lastLatency \in Latencies \cup {-1}
  /\ lastLatency = -1 => last_transit = 0 /\ deviation = 0 /\ variation = 0
  /\ clock < U32 /\ lastLatency # -1 => last_transit = (lastLatency - offset) % U32
  /\ clock < U32 /\ ~J!Straddles => deviation <= variation

\* The transit time of a packet that comes before the clock saturates.
LEMMA TransitOfPacket ==
  ASSUME JitterInv, NEW lat \in Latencies, lat <= clock
  PROVE  J!transit(lat) \in Int /\ (clock < U32 => J!transit(lat) = (lat - offset) % U32)
<1>1. lat \in Int /\ U32 \in Nat \ {0} /\ clock \in Nat /\ offset \in 0..(U32 - 1)
  BY JitterConstants DEF JitterInv
<1>2. PICK r \in Int : r = (clock - lat + offset) % U32
  BY <1>1
<1>3. J!transit(lat) = (J!arrival_rtp - r) % U32
  BY <1>2 DEF J!transit, J!rtp_timestamp
<1>4. J!arrival_rtp \in Int /\ (clock < U32 => J!arrival_rtp = clock)
  BY <1>1 DEF J!arrival_rtp
<1>5. (clock - r) % U32 = (lat - offset) % U32
  BY <1>1, <1>2, TransitIsLatency, ZenonT(30), ZenonT(30)
<1> QED
  BY <1>1, <1>3, <1>4, <1>5, SMTT(30)

\* On one side of the wrap, transit times are as far apart as the latencies.
LEMMA SameDistance ==
  ASSUME ~J!Straddles, offset \in 0..(U32 - 1), NEW a \in Latencies, NEW b \in Latencies
  PROVE  J!Distance((a - offset) % U32, (b - offset) % U32) = J!Distance(a, b)
<1>1. a \in Int /\ b \in Int /\ U32 \in Nat \ {0} /\ offset \in Int
  BY JitterConstants
<1>2. PICK x \in Int, y \in Int : x = (a - offset) % U32 /\ y = (b - offset) % U32
  BY <1>1
<1>3. CASE a < b
  <2>1. x <= y
    BY <1>1, <1>2, <1>3 DEF J!Straddles
  <2>2. y - x = b - a
    BY <1>2, <1>3, <2>1, TransitsDiffer, ZenonT(60)
  <2> QED
    BY <1>1, <1>2, <1>3, <2>1, <2>2, SMTT(30) DEF J!Distance
<1>4. CASE b < a
  <2>1. y <= x
    BY <1>1, <1>2, <1>4, SMTT(30) DEF J!Straddles
  <2>2. x - y = a - b
    BY <1>2, <1>4, <2>1, TransitsDiffer, ZenonT(60)
  <2> QED
    BY <1>1, <1>2, <1>4, <2>1, <2>2, SMTT(30) DEF J!Distance
<1>5. CASE a = b
  BY <1>1, <1>2, <1>5, SMTT(30) DEF J!Distance
<1> QED
  BY <1>1, <1>3, <1>4, <1>5, SMTT(30)

\* A packet keeps the invariant.
LEMMA JitterReceive ==
  ASSUME JitterInv, NEW lat \in Latencies, J!Receive(lat)
  PROVE  JitterInv'
<1>1. lat \in Int /\ lat # -1 /\ U32 \in Nat \ {0} /\ lastLatency \in Int
  BY JitterConstants DEF JitterInv
<1>2. PICK t \in Int : t = J!transit(lat) /\ (clock < U32 => t = (lat - offset) % U32)
  BY TransitOfPacket, ZenonT(60) DEF J!Receive
<1>3. /\ clock' = clock /\ offset' = offset /\ last_transit' = t /\ lastLatency' = lat
      /\ deviation' = IF last_transit = 0 THEN deviation
                      ELSE J!Larger(deviation, J!Distance(t, last_transit))
      /\ variation' = IF lastLatency < 0 THEN 0
                      ELSE J!Larger(variation, J!Distance(lat, lastLatency))
  BY <1>2 DEF J!Receive
<1>4. PICK d \in Int, e \in Int :
        d = J!Distance(t, last_transit) /\ e = J!Distance(lat, lastLatency)
  <2>1. last_transit \in Int
    BY DEF JitterInv
  <2>2. J!Distance(t, last_transit) \in Int
    BY <2>1 DEF J!Distance
  <2>3. J!Distance(lat, lastLatency) \in Int
    BY <1>1 DEF J!Distance
  <2> QED
    BY <2>2, <2>3
<1>5. deviation' \in Int /\ variation' \in Int
  BY <1>3, <1>4 DEF J!Larger, JitterInv
<1>6. J!Straddles' = J!Straddles
  BY <1>3 DEF J!Straddles
<1>7. ASSUME clock < U32, ~J!Straddles
      PROVE  deviation' <= variation'
  <2>1. CASE lastLatency = -1
    BY <1>3, <2>1 DEF JitterInv
  <2>2. CASE lastLatency # -1
    <3>1. lastLatency \in Latencies /\ ~(lastLatency < 0)
      BY <2>2, JitterConstants DEF JitterInv
    <3>2. last_transit = (lastLatency - offset) % U32 /\ t = (lat - offset) % U32
      BY <1>2, <1>7, <2>2, Zenon DEF JitterInv
    <3>3. d = e
      BY <1>4, <1>7, <3>1, <3>2, SameDistance, ZenonT(60) DEF JitterInv
    <3>4. deviation \in Int /\ variation \in Int /\ deviation <= variation
      BY <1>7 DEF JitterInv
    <3>5. variation' = J!Larger(variation, e) /\ deviation' \in {deviation, J!Larger(deviation, e)}
      BY <1>3, <1>4, <3>1, <3>3
    <3> QED
      BY <3>4, <3>5 DEF J!Larger
  <2> QED
    BY <2>1, <2>2
<1> QED
  BY <1>1, <1>2, <1>3, <1>5, <1>6, <1>7, ZenonT(60) DEF JitterInv

\* Every step keeps the jitter's invariant.
LEMMA JitterNext == JitterInv /\ [J!Next]_(J!vars) => JitterInv'
<1> SUFFICES ASSUME JitterInv, [J!Next]_(J!vars)
             PROVE  JitterInv'
  OBVIOUS
<1>1. CASE J!Tick
  <2>1. clock' = clock + 1 /\ UNCHANGED <<offset, last_transit, deviation, lastLatency, variation>>
    BY <1>1 DEF J!Tick
  <2>2. J!Straddles' = J!Straddles
    BY <2>1 DEF J!Straddles
  <2>3. clock' \in Nat /\ (clock' < U32 => clock < U32)
    BY <2>1, JitterConstants DEF JitterInv
  <2> QED
    BY <2>1, <2>2, <2>3 DEF JitterInv
<1>2. ASSUME NEW lat \in Latencies, J!Receive(lat)
      PROVE  JitterInv'
  BY <1>2, JitterReceive, ZenonT(60)
<1>3. CASE UNCHANGED J!vars
  <2>1. UNCHANGED <<clock, offset, last_transit, deviation, lastLatency, variation>>
    BY <1>3 DEF J!vars
  <2>2. J!Straddles' = J!Straddles
    BY <2>1, ZenonT(60) DEF J!Straddles
  <2> QED
    BY <2>1, <2>2 DEF JitterInv
<1> QED
  BY <1>1, <1>2, <1>3 DEF J!Next

\* In the first 2^32 ticks, and unless transit times straddle the wrap, the
\* reported jitter never exceeds the network's largest change of latency, for
\* every set of latencies and every offset of the clocks.
THEOREM JitterIsBounded == J!Spec => []JitterBounded
<1>1. J!Init => JitterInv
  BY JitterConstants DEF J!Init, JitterInv
<1>2. JitterInv => JitterBounded
  BY DEF JitterInv, JitterBounded, J!JitterBounded
<1> QED
  BY <1>1, <1>2, JitterNext, PTL DEF J!Spec

=============================================================================
