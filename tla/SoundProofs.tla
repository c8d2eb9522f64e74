---------------------------- MODULE SoundProofs ----------------------------
(***************************************************************************)
(* The sound unit makes its samples on time for every clock and every      *)
(* sample rate below it, its timers may be advanced by any number of       *)
(* cycles at once, and a batch of cycles is what the per-cycle reference   *)
(* makes of them.  Over writes, resets and calls in any order the pulses   *)
(* stay in the range of their timers, and the DMC plays what it was given. *)
(* What is heard is what was made, in its order, on each of the five       *)
(* builds: for rings, chunks and blocks of every size that the assumption  *)
(* of AudioPath allows, and every interleaving of the main loop with the   *)
(* interrupts, the other core or the callback.                             *)
(* MCSoundAndPicture checks the same on small values.                      *)
(***************************************************************************)
EXTENDS Apu, AudioPath, NumberFacts, TLAPS

(* Where the phase is, between the last sample and the next.               *)
IInv ==
  /\ clk.phase \in 0 .. Clock - 1
  /\ clk.cycles \in Nat /\ clk.samples \in Nat /\ left \in Nat
  /\ clk.phase = Rate * clk.cycles - Clock * clk.samples

-----------------------------------------------------------------------------
(* Rounding up: the quotient is the least that reaches x.                  *)
LEMMA RoundedUp ==
  ASSUME NEW x \in Nat \ {0}, NEW r \in Nat \ {0}
  PROVE  LET q == (x + r - 1) \div r
         IN  q \in Nat \ {0} /\ r * (q - 1) < x /\ x <= r * q
<1> DEFINE a == x + r - 1
           q == a \div r
<1>1. a = r * q + (a % r) /\ a % r \in 0 .. r - 1 /\ q \in Int
  BY SMT
<1>2. a \in Int /\ a >= r
  OBVIOUS
<1>3. r * q > 0
  BY <1>1, <1>2
<1> HIDE DEF q
<1>4. q >= 1
  <2>1. CASE q <= 0
    <3>1. r * q <= 0
      BY <1>1, <2>1, SMT
    <3>2. r * q \in Int
      BY <1>1
    <3> QED
      BY <3>1, <3>2, <1>3
  <2> QED
    BY <2>1, <1>1
<1>5. r * (q - 1) = r * q - r
  BY <1>1, SMT
<1> HIDE DEF a
<1>6. r * (q - 1) < x /\ x <= r * q
  <2>1. a = x + r - 1 /\ a \in Int
    BY DEF a
  <2>2. r * q \in Int
    BY <1>1
  <2> QED
    BY <2>1, <2>2, <1>1, <1>5
<1> QED
  BY <1>1, <1>4, <1>6 DEF q, a

(* A batch does not go past the next sample: one cycle less stays below.   *)
LEMMA BatchEndsAtSample ==
  ASSUME NEW phase \in 0 .. Clock - 1, NEW n \in Nat \ {0}
  PROVE  LET b == BatchSize(phase, n)
         IN  b \in 1 .. n /\ phase + Rate * (b - 1) < Clock
<1> DEFINE x == Clock - phase
           q == ToNext(phase)
           b == BatchSize(phase, n)
<1>1. x \in Nat \ {0} /\ Rate \in Nat \ {0}
  BY ClockAssumption
<1>2. q = (x + Rate - 1) \div Rate
  BY ClockAssumption DEF ToNext
<1> HIDE DEF x, q
<1>3. q \in Nat \ {0} /\ Rate * (q - 1) < x
  BY <1>1, <1>2, RoundedUp
<1>4. b = IF q < n THEN q ELSE n
  BY DEF BatchSize, q
<1> HIDE DEF b
<1>5. b \in 1 .. n /\ b <= q
  BY <1>3, <1>4
<1>6. Rate * (b - 1) <= Rate * (q - 1)
  <2>1. q - b \in Nat /\ Rate * (q - b) >= 0
    BY <1>1, <1>3, <1>5
  <2>2. Rate * (q - 1) = Rate * (b - 1) + Rate * (q - b)
    BY <1>1, <1>3, <1>5, SMT
  <2>3. Rate * (b - 1) \in Int /\ Rate * (q - b) \in Int /\ Rate * (q - 1) \in Int
    BY <1>1, <1>3, <1>5
  <2> QED
    BY <2>1, <2>2, <2>3
<1>7. x = Clock - phase /\ Clock \in Nat /\ Rate * (b - 1) \in Int /\ Rate * (q - 1) \in Int
  BY <1>1, <1>3, <1>5, ClockAssumption DEF x
<1>8. phase + Rate * (b - 1) < Clock
  BY <1>3, <1>6, <1>7
<1> QED
  BY <1>5, <1>8 DEF b

(* One turn of the loop keeps the phase, takes at most one sample, and     *)
(* takes it in its cycle.                                                  *)
LEMMA BatchOnTime ==
  ASSUME IInv, Batch
  PROVE  /\ IInv'
         /\ clk'.samples > clk.samples => (clk'.cycles - 1) * Rate < clk'.samples * Clock
<1> DEFINE n == BatchSize(clk.phase, left)
           phase == clk.phase + Rate * n
<1>1. n \in 1 .. left /\ clk.phase + Rate * (n - 1) < Clock
  BY BatchEndsAtSample DEF IInv, Batch
<1>2. Rate \in 1 .. Clock /\ Clock \in Nat \ {0}
  BY ClockAssumption
<1>3. /\ clk'.phase = IF phase >= Clock THEN phase - Clock ELSE phase
      /\ clk'.cycles = clk.cycles + n
      /\ clk'.samples = IF phase >= Clock THEN clk.samples + 1 ELSE clk.samples
      /\ left' = left - n
  BY DEF Batch, Sampled
<1> HIDE DEF n
<1>4. Rate * (n - 1) = Rate * n - Rate
  BY <1>1, <1>2, SMT
<1>5. phase \in Nat /\ phase < Clock + Rate /\ Rate * n \in Nat
  BY <1>1, <1>2, <1>4 DEF IInv
<1>6. clk'.phase \in 0 .. Clock - 1
  BY <1>2, <1>3, <1>5
<1>7. Rate * (clk.cycles + n) = Rate * clk.cycles + Rate * n
  BY <1>1, <1>2, SMT DEF IInv
<1>8. Clock * (clk.samples + 1) = Clock * clk.samples + Clock
  BY <1>2, SMT DEF IInv
<1>9. Rate * clk.cycles \in Int /\ Clock * clk.samples \in Int
  BY <1>2 DEF IInv
<1>10. clk'.phase = Rate * clk'.cycles - Clock * clk'.samples
  BY <1>2, <1>3, <1>5, <1>7, <1>8, <1>9 DEF IInv
<1>11. IInv'
  BY <1>1, <1>3, <1>6, <1>10 DEF IInv
<1>12. ASSUME clk'.samples > clk.samples
       PROVE  (clk'.cycles - 1) * Rate < clk'.samples * Clock
  <2>1. phase >= Clock
    BY <1>3, <1>12 DEF IInv
  <2>2. (clk'.cycles - 1) * Rate = Rate * clk.cycles + Rate * (n - 1)
    BY <1>1, <1>2, <1>3, SMT DEF IInv
  <2>3. clk'.samples * Clock = Clock * clk.samples + Clock
    BY <1>2, <1>3, <1>8, <2>1, SMT DEF IInv
  <2>4. Rate * (n - 1) \in Int
    BY <1>1, <1>2
  <2> QED
    BY <1>1, <1>2, <1>9, <2>2, <2>3, <2>4 DEF IInv
<1> QED
  BY <1>11, <1>12

LEMMA Invariance == Spec => []IInv
<1>1. Init => IInv
  BY ClockAssumption, SMT DEF Init, IInv, StoppedClock
<1>2. IInv /\ [Next]_apuVars => IInv'
  <2> SUFFICES ASSUME IInv, [Next]_apuVars PROVE IInv'
    OBVIOUS
  <2>1. CASE Batch
    BY <2>1, BatchOnTime
  <2>2. ASSUME NEW n \in Calls, Call(n) PROVE IInv'
    BY <2>2, TableAssumption DEF Call, IInv
  <2>3. ASSUME NEW w \in io.program, Write(w) PROVE IInv'
    BY <2>3 DEF Write, IInv
  <2>4. CASE Reset
    BY <2>4, ClockAssumption, SMT DEF Reset, IInv, StoppedClock
  <2>5. CASE UNCHANGED apuVars
    BY <2>5 DEF apuVars, IInv
  <2> QED
    BY <2>1, <2>2, <2>3, <2>4, <2>5 DEF Next
<1> QED
  BY <1>1, <1>2, PTL DEF Spec

(* There have always been exactly as many samples as the cycles make, each *)
(* mixed in its own cycle: of any clock, rate, and lengths of calls.       *)
THEOREM OnTime == Spec => SamplesOnTime
<1> DEFINE Punctual ==
      clk' # clk =>
        /\ clk'.samples * Clock <= clk'.cycles * Rate
        /\ clk'.cycles * Rate < (clk'.samples + 1) * Clock
        /\ clk'.samples > clk.samples => (clk'.cycles - 1) * Rate < clk'.samples * Clock
<1>1. IInv /\ IInv' /\ [Next]_apuVars => [Punctual]_apuVars
  <2> SUFFICES ASSUME IInv, IInv', [Next]_apuVars, clk' # clk PROVE Punctual
    OBVIOUS
  <2>1. clk'.samples * Clock <= clk'.cycles * Rate /\ clk'.cycles * Rate < (clk'.samples + 1) * Clock
    <3>1. Clock \in Nat \ {0} /\ Rate \in Nat
      BY ClockAssumption
    <3>2. /\ clk'.samples * Clock = Clock * clk'.samples
          /\ (clk'.samples + 1) * Clock = Clock * clk'.samples + Clock
          /\ clk'.cycles * Rate = Rate * clk'.cycles
      BY <3>1, SMT DEF IInv
    <3>3. Clock * clk'.samples \in Int /\ Rate * clk'.cycles \in Int
      BY <3>1 DEF IInv
    <3> QED
      BY <3>1, <3>2, <3>3 DEF IInv
  <2>2. CASE Batch
    BY <2>1, <2>2, BatchOnTime
  <2>3. CASE Reset
    BY <2>1, <2>3 DEF Reset, StoppedClock, IInv
  <2>4. CASE ~Batch /\ ~Reset
    BY <2>4 DEF Next, Call, Write, apuVars
  <2> QED
    BY <2>2, <2>3, <2>4
<1> QED
  BY Invariance, <1>1, PTL DEF Spec, SamplesOnTime

-----------------------------------------------------------------------------
(* A remainder grows by one, or starts again and the quotient grows.       *)
LEMMA DivPlus1 ==
  ASSUME NEW m \in Nat, NEW d \in Nat \ {0}
  PROVE  /\ m % d \in 0 .. d - 1 /\ m \div d \in Int
         /\ (m + 1) % d = IF m % d = d - 1 THEN 0 ELSE (m % d) + 1
         /\ (m + 1) \div d = (m \div d) + (IF m % d = d - 1 THEN 1 ELSE 0)
<1> DEFINE q == m \div d
           r == m % d
<1>1. m = d * q + r /\ r \in 0 .. d - 1 /\ q \in Int
  BY SMT
<1>2. m + 1 \in Int
  OBVIOUS
<1> HIDE DEF q, r
<1>3. CASE r = d - 1
  <2>1. d * (q + 1) = d * q + d /\ d * q \in Int
    BY <1>1, SMT
  <2>2. m + 1 = d * (q + 1) + 0 /\ q + 1 \in Int /\ 0 \in 0 .. d - 1
    BY <1>1, <1>3, <2>1
  <2>3. (m + 1) % d = 0 /\ (m + 1) \div d = q + 1
    BY <1>2, <2>2, ModUnique, DivUnique
  <2> QED
    BY <1>1, <1>3, <2>3 DEF q, r
<1>4. CASE r # d - 1
  <2>1. m + 1 = d * q + (r + 1) /\ r + 1 \in 0 .. d - 1
    BY <1>1, <1>4
  <2>2. (m + 1) % d = r + 1 /\ (m + 1) \div d = q
    BY <1>1, <1>2, <2>1, ModUnique, DivUnique
  <2> QED
    BY <1>1, <1>4, <2>2 DEF q, r
<1> QED
  BY <1>3, <1>4

(* A timer advanced by any number of cycles at once (apu_timer_advance),   *)
(* of any period and from any count, is where one more cycle of the per-   *)
(* cycle clock takes it, and has fired as often.                           *)
THEOREM OneCycleMore ==
  ASSUME NEW c \in [counter : Nat, period : Nat], NEW n \in Nat
  PROVE  /\ Advance(c, 0) = c /\ Fires(c.counter, c.period, 0) = 0
         /\ Advance(c, n + 1) = Tick(Advance(c, n))
         /\ Fires(c.counter, c.period, n + 1)
              = Fires(c.counter, c.period, n) + (IF Advance(c, n).counter = 0 THEN 1 ELSE 0)
<1> DEFINE k == c.counter
           p == c.period
           m == n - k - 1
           after == CounterAfter(k, p, n)
<1>1. k \in Nat /\ p \in Nat /\ c = [counter |-> k, period |-> p]
  OBVIOUS
<1>2. /\ CounterAfter(k, p, 0) = k /\ Fires(k, p, 0) = 0
  BY <1>1 DEF CounterAfter, Fires
<1>3. /\ CounterAfter(k, p, n + 1) = IF after = 0 THEN p ELSE after - 1
      /\ Fires(k, p, n + 1) = Fires(k, p, n) + (IF after = 0 THEN 1 ELSE 0)
  <2> HIDE DEF k, p
  <2>1. CASE k > n
    BY <1>1, <2>1 DEF CounterAfter, Fires
  <2>2. CASE k = n
    <3>1. 0 = (p + 1) * 0 + 0 /\ 0 \in 0 .. (p + 1) - 1 /\ p + 1 \in Nat \ {0}
      BY <1>1
    <3>2. 0 % (p + 1) = 0 /\ 0 \div (p + 1) = 0
      BY <3>1, ModUnique, DivUnique
    <3>3. (n + 1) - k - 1 = 0
      BY <1>1, <2>2
    <3> QED
      BY <1>1, <2>2, <3>2, <3>3 DEF CounterAfter, Fires
  <2>3. CASE k < n
    <3>1. m \in Nat /\ (n + 1) - k - 1 = m + 1 /\ p + 1 \in Nat \ {0} /\ (p + 1) - 1 = p
      BY <1>1, <2>3
    <3>2. /\ after = p - (m % (p + 1)) /\ Fires(k, p, n) = 1 + m \div (p + 1)
          /\ CounterAfter(k, p, n + 1) = p - ((m + 1) % (p + 1))
          /\ Fires(k, p, n + 1) = 1 + (m + 1) \div (p + 1)
      BY <1>1, <2>3, <3>1 DEF CounterAfter, Fires
    <3> HIDE DEF m, after
    <3>3. /\ m % (p + 1) \in 0 .. p /\ m \div (p + 1) \in Int
          /\ (m + 1) % (p + 1) = IF m % (p + 1) = p THEN 0 ELSE (m % (p + 1)) + 1
          /\ (m + 1) \div (p + 1) = (m \div (p + 1)) + (IF m % (p + 1) = p THEN 1 ELSE 0)
      BY <3>1, DivPlus1
    <3> DEFINE r == m % (p + 1)
               q == m \div (p + 1)
               r1 == (m + 1) % (p + 1)
               q1 == (m + 1) \div (p + 1)
    <3>4. /\ r \in 0 .. p /\ q \in Int
          /\ r1 = (IF r = p THEN 0 ELSE r + 1) /\ q1 = q + (IF r = p THEN 1 ELSE 0)
          /\ after = p - r /\ Fires(k, p, n) = 1 + q
          /\ CounterAfter(k, p, n + 1) = p - r1 /\ Fires(k, p, n + 1) = 1 + q1
      BY <3>2, <3>3
    <3> HIDE DEF r, q, r1, q1
    <3> QED
      BY <1>1, <3>4
  <2> QED
    BY <1>1, <2>1, <2>2, <2>3
<1>4. /\ Advance(c, 0) = [counter |-> CounterAfter(k, p, 0), period |-> p]
      /\ Advance(c, n) = [counter |-> after, period |-> p]
      /\ Advance(c, n + 1) = [counter |-> CounterAfter(k, p, n + 1), period |-> p]
  BY <1>1 DEF Advance
<1> HIDE DEF after, k, p
<1>5. Tick(Advance(c, n)) = [counter |-> IF after = 0 THEN p ELSE after - 1, period |-> p]
  BY <1>4 DEF Tick
<1>6. Advance(c, n).counter = after
  BY <1>4
<1> QED
  BY <1>1, <1>2, <1>3, <1>4, <1>5, <1>6 DEF k, p

-----------------------------------------------------------------------------
(* Folds are unfolded by the greatest of their numbers, one operator at a *)
(* time: the prover takes no operator as a parameter.                      *)

(* One clock more of the DMC.                                              *)
LEMMA DmcOneMore ==
  ASSUME NEW x, NEW n \in Nat
  PROVE  Times(DmcClock, x, 0) = x /\ Times(DmcClock, x, n + 1) = DmcClock(Times(DmcClock, x, n))
<1> DEFINE Iterates(f, m) ==
             f = [s \in SUBSET (1 .. m) |-> IF s = {} THEN x ELSE DmcClock(f[s \ {Max(s)}])]
           it(m) == CHOOSE f : Iterates(f, m)
<1>1. \A m \in Nat : Times(DmcClock, x, m) = it(m)[1 .. m]
  <2> TAKE m \in Nat
  <2>1. DOMAIN [i \in 1 .. m |-> i] = 1 .. m
    OBVIOUS
  <2> QED
    BY <2>1 DEF Times, FoldLeft, MapThenFoldSet
<1>2. \A m \in Nat : \E f : Iterates(f, m)
  <2> DEFINE Bad == {m \in Nat : ~\E f : Iterates(f, m)}
  <2> SUFFICES ASSUME Bad # {} PROVE FALSE
    OBVIOUS
  <2>1. PICK m \in Bad : \A k \in Bad : m <= k
    BY LeastNatural
  <2>2. CASE m = 0
    <3>1. \A s \in SUBSET (1 .. 0) : s = {}
      OBVIOUS
    <3>2. Iterates([s \in SUBSET (1 .. 0) |-> x], 0)
      BY <3>1
    <3> QED
      BY <2>1, <2>2, <3>2
  <2>3. CASE m # 0
    <3>1. m - 1 \in Nat /\ m - 1 \notin Bad
      <4>1. m \in Nat
        BY <2>1
      <4> HIDE DEF Bad
      <4> QED
        BY <2>1, <2>3, <4>1
    <3>2. PICK g : Iterates(g, m - 1)
      BY <3>1
    <3> DEFINE h == [s \in SUBSET (1 .. m) |-> IF m \in s THEN DmcClock(g[s \ {m}]) ELSE g[s]]
    <3>3. ASSUME NEW s \in SUBSET (1 .. m)
          PROVE  h[s] = IF s = {} THEN x ELSE DmcClock(h[s \ {Max(s)}])
      <4>1. CASE m \in s
        <5>1. Max(s) = m /\ s \ {m} \in SUBSET (1 .. m - 1) /\ s \ {m} \in SUBSET (1 .. m)
          BY <4>1, LastTaken
        <5>2. h[s \ {m}] = g[s \ {m}]
          BY <5>1
        <5> QED
          BY <4>1, <5>1, <5>2
      <4>2. CASE m \notin s /\ s # {}
        <5>1. s \in SUBSET (1 .. m - 1) /\ Max(s) \in s
          BY <4>2, LastTaken
        <5>2. s \ {Max(s)} \in SUBSET (1 .. m) /\ m \notin s \ {Max(s)}
          BY <4>2, LastTaken
        <5>3. h[s] = g[s] /\ h[s \ {Max(s)}] = g[s \ {Max(s)}]
          BY <4>2, <5>2
        <5>4. g[s] = DmcClock(g[s \ {Max(s)}])
          BY <3>2, <4>2, <5>1
        <5> QED
          BY <4>2, <5>3, <5>4
      <4>3. CASE s = {}
        <5>1. {} \in SUBSET (1 .. m - 1) /\ m \notin s
          BY <4>3
        <5>2. g[{}] = x
          BY <3>2, <5>1
        <5> QED
          BY <4>3, <5>1, <5>2
      <4> QED
        BY <4>1, <4>2, <4>3
    <3>4. Iterates(h, m)
      BY <3>3
    <3> QED
      BY <2>1, <3>4
  <2> QED
    BY <2>2, <2>3
<1>3. \A m \in Nat : Iterates(it(m), m)
  BY <1>2
<1> HIDE DEF it
<1> DEFINE a == it(n)
           b == it(n + 1)
<1>4. \A s \in SUBSET (1 .. n) : a[s] = IF s = {} THEN x ELSE DmcClock(a[s \ {Max(s)}])
  <2> HIDE DEF Iterates
  <2>1. Iterates(a, n)
    BY <1>3
  <2> QED
    BY <2>1 DEF Iterates
<1>5. \A s \in SUBSET (1 .. n + 1) : b[s] = IF s = {} THEN x ELSE DmcClock(b[s \ {Max(s)}])
  <2> HIDE DEF Iterates
  <2>1. n + 1 \in Nat /\ Iterates(b, n + 1)
    BY <1>3
  <2> QED
    BY <2>1 DEF Iterates
<1> HIDE DEF Iterates, a, b
<1>6. ASSUME NEW k \in 1 .. n + 1
      PROVE  /\ b[1 .. k] = DmcClock(b[1 .. (k - 1)])
             /\ k <= n => a[1 .. k] = DmcClock(a[1 .. (k - 1)])
  <2>1. Max(1 .. k) = k /\ (1 .. k) \ {k} = 1 .. (k - 1) /\ 1 .. k # {}
    BY GreatestOfInterval
  <2>2. 1 .. k \in SUBSET (1 .. n + 1) /\ (k <= n => 1 .. k \in SUBSET (1 .. n))
    OBVIOUS
  <2> HIDE DEF Max
  <2> QED
    BY <1>4, <1>5, <2>1, <2>2
<1>7. /\ a[1 .. 0] = x /\ b[1 .. 0] = x
  <2>1. 1 .. 0 = {} /\ {} \in SUBSET (1 .. n) /\ {} \in SUBSET (1 .. n + 1)
    OBVIOUS
  <2> QED
    BY <1>4, <1>5, <2>1
<1> DEFINE Differs == {k \in 0 .. n : a[1 .. k] # b[1 .. k]}
<1>8. Differs = {}
  <2> SUFFICES ASSUME Differs # {} PROVE FALSE
    OBVIOUS
  <2>1. Differs \in SUBSET Nat
    OBVIOUS
  <2>2. PICK k \in Differs : \A j \in Differs : k <= j
    BY <2>1, LeastNatural
  <2>3. CASE k = 0
    BY <1>7, <2>2, <2>3
  <2>4. CASE k # 0
    <3>1. k \in 1 .. n + 1 /\ k <= n /\ k - 1 \in 0 .. n /\ k - 1 \notin Differs
      BY <2>2, <2>4
    <3>2. a[1 .. (k - 1)] = b[1 .. (k - 1)]
      BY <3>1
    <3> QED
      BY <1>6, <2>2, <3>1, <3>2
  <2> QED
    BY <2>3, <2>4
<1>9. b[1 .. (n + 1)] = DmcClock(a[1 .. n])
  <2>1. n \in 0 .. n /\ n + 1 \in 1 .. n + 1 /\ (n + 1) - 1 = n
    OBVIOUS
  <2>2. a[1 .. n] = b[1 .. n]
    BY <1>8, <2>1
  <2>3. b[1 .. (n + 1)] = DmcClock(b[1 .. n])
    BY <1>6, <2>1
  <2> QED
    BY <2>2, <2>3
<1>10. Times(DmcClock, x, 0) = x
  <2>1. 1 .. 0 = {} /\ {} \in SUBSET (1 .. 0) /\ Iterates(it(0), 0)
    BY <1>3
  <2>2. it(0)[{}] = x
    BY <2>1 DEF Iterates
  <2> QED
    BY <1>1, <2>1, <2>2
<1>11. Times(DmcClock, x, n) = a[1 .. n] /\ Times(DmcClock, x, n + 1) = b[1 .. (n + 1)]
  <2>1. n + 1 \in Nat
    OBVIOUS
  <2> QED
    BY <1>1, <2>1 DEF a, b
<1> QED
  BY <1>9, <1>10, <1>11

(* One shift more of the noise.                                            *)
LEMMA ShiftOneMore ==
  ASSUME NEW x, NEW n \in Nat
  PROVE  Times(Shift, x, 0) = x /\ Times(Shift, x, n + 1) = Shift(Times(Shift, x, n))
<1> DEFINE Iterates(f, m) ==
             f = [s \in SUBSET (1 .. m) |-> IF s = {} THEN x ELSE Shift(f[s \ {Max(s)}])]
           it(m) == CHOOSE f : Iterates(f, m)
<1>1. \A m \in Nat : Times(Shift, x, m) = it(m)[1 .. m]
  <2> TAKE m \in Nat
  <2>1. DOMAIN [i \in 1 .. m |-> i] = 1 .. m
    OBVIOUS
  <2> QED
    BY <2>1 DEF Times, FoldLeft, MapThenFoldSet
<1>2. \A m \in Nat : \E f : Iterates(f, m)
  <2> DEFINE Bad == {m \in Nat : ~\E f : Iterates(f, m)}
  <2> SUFFICES ASSUME Bad # {} PROVE FALSE
    OBVIOUS
  <2>1. PICK m \in Bad : \A k \in Bad : m <= k
    BY LeastNatural
  <2>2. CASE m = 0
    <3>1. \A s \in SUBSET (1 .. 0) : s = {}
      OBVIOUS
    <3>2. Iterates([s \in SUBSET (1 .. 0) |-> x], 0)
      BY <3>1
    <3> QED
      BY <2>1, <2>2, <3>2
  <2>3. CASE m # 0
    <3>1. m - 1 \in Nat /\ m - 1 \notin Bad
      <4>1. m \in Nat
        BY <2>1
      <4> HIDE DEF Bad
      <4> QED
        BY <2>1, <2>3, <4>1
    <3>2. PICK g : Iterates(g, m - 1)
      BY <3>1
    <3> DEFINE h == [s \in SUBSET (1 .. m) |-> IF m \in s THEN Shift(g[s \ {m}]) ELSE g[s]]
    <3>3. ASSUME NEW s \in SUBSET (1 .. m)
          PROVE  h[s] = IF s = {} THEN x ELSE Shift(h[s \ {Max(s)}])
      <4>1. CASE m \in s
        <5>1. Max(s) = m /\ s \ {m} \in SUBSET (1 .. m - 1) /\ s \ {m} \in SUBSET (1 .. m)
          BY <4>1, LastTaken
        <5>2. h[s \ {m}] = g[s \ {m}]
          BY <5>1
        <5> QED
          BY <4>1, <5>1, <5>2
      <4>2. CASE m \notin s /\ s # {}
        <5>1. s \in SUBSET (1 .. m - 1) /\ Max(s) \in s
          BY <4>2, LastTaken
        <5>2. s \ {Max(s)} \in SUBSET (1 .. m) /\ m \notin s \ {Max(s)}
          BY <4>2, LastTaken
        <5>3. h[s] = g[s] /\ h[s \ {Max(s)}] = g[s \ {Max(s)}]
          BY <4>2, <5>2
        <5>4. g[s] = Shift(g[s \ {Max(s)}])
          BY <3>2, <4>2, <5>1
        <5> QED
          BY <4>2, <5>3, <5>4
      <4>3. CASE s = {}
        <5>1. {} \in SUBSET (1 .. m - 1) /\ m \notin s
          BY <4>3
        <5>2. g[{}] = x
          BY <3>2, <5>1
        <5> QED
          BY <4>3, <5>1, <5>2
      <4> QED
        BY <4>1, <4>2, <4>3
    <3>4. Iterates(h, m)
      BY <3>3
    <3> QED
      BY <2>1, <3>4
  <2> QED
    BY <2>2, <2>3
<1>3. \A m \in Nat : Iterates(it(m), m)
  BY <1>2
<1> HIDE DEF it
<1> DEFINE a == it(n)
           b == it(n + 1)
<1>4. \A s \in SUBSET (1 .. n) : a[s] = IF s = {} THEN x ELSE Shift(a[s \ {Max(s)}])
  <2> HIDE DEF Iterates
  <2>1. Iterates(a, n)
    BY <1>3
  <2> QED
    BY <2>1 DEF Iterates
<1>5. \A s \in SUBSET (1 .. n + 1) : b[s] = IF s = {} THEN x ELSE Shift(b[s \ {Max(s)}])
  <2> HIDE DEF Iterates
  <2>1. n + 1 \in Nat /\ Iterates(b, n + 1)
    BY <1>3
  <2> QED
    BY <2>1 DEF Iterates
<1> HIDE DEF Iterates, a, b
<1>6. ASSUME NEW k \in 1 .. n + 1
      PROVE  /\ b[1 .. k] = Shift(b[1 .. (k - 1)])
             /\ k <= n => a[1 .. k] = Shift(a[1 .. (k - 1)])
  <2>1. Max(1 .. k) = k /\ (1 .. k) \ {k} = 1 .. (k - 1) /\ 1 .. k # {}
    BY GreatestOfInterval
  <2>2. 1 .. k \in SUBSET (1 .. n + 1) /\ (k <= n => 1 .. k \in SUBSET (1 .. n))
    OBVIOUS
  <2> HIDE DEF Max
  <2> QED
    BY <1>4, <1>5, <2>1, <2>2
<1>7. /\ a[1 .. 0] = x /\ b[1 .. 0] = x
  <2>1. 1 .. 0 = {} /\ {} \in SUBSET (1 .. n) /\ {} \in SUBSET (1 .. n + 1)
    OBVIOUS
  <2> QED
    BY <1>4, <1>5, <2>1
<1> DEFINE Differs == {k \in 0 .. n : a[1 .. k] # b[1 .. k]}
<1>8. Differs = {}
  <2> SUFFICES ASSUME Differs # {} PROVE FALSE
    OBVIOUS
  <2>1. Differs \in SUBSET Nat
    OBVIOUS
  <2>2. PICK k \in Differs : \A j \in Differs : k <= j
    BY <2>1, LeastNatural
  <2>3. CASE k = 0
    BY <1>7, <2>2, <2>3
  <2>4. CASE k # 0
    <3>1. k \in 1 .. n + 1 /\ k <= n /\ k - 1 \in 0 .. n /\ k - 1 \notin Differs
      BY <2>2, <2>4
    <3>2. a[1 .. (k - 1)] = b[1 .. (k - 1)]
      BY <3>1
    <3> QED
      BY <1>6, <2>2, <3>1, <3>2
  <2> QED
    BY <2>3, <2>4
<1>9. b[1 .. (n + 1)] = Shift(a[1 .. n])
  <2>1. n \in 0 .. n /\ n + 1 \in 1 .. n + 1 /\ (n + 1) - 1 = n
    OBVIOUS
  <2>2. a[1 .. n] = b[1 .. n]
    BY <1>8, <2>1
  <2>3. b[1 .. (n + 1)] = Shift(b[1 .. n])
    BY <1>6, <2>1
  <2> QED
    BY <2>2, <2>3
<1>10. Times(Shift, x, 0) = x
  <2>1. 1 .. 0 = {} /\ {} \in SUBSET (1 .. 0) /\ Iterates(it(0), 0)
    BY <1>3
  <2>2. it(0)[{}] = x
    BY <2>1 DEF Iterates
  <2> QED
    BY <1>1, <2>1, <2>2
<1>11. Times(Shift, x, n) = a[1 .. n] /\ Times(Shift, x, n + 1) = b[1 .. (n + 1)]
  <2>1. n + 1 \in Nat
    OBVIOUS
  <2> QED
    BY <1>1, <2>1 DEF a, b
<1> QED
  BY <1>9, <1>10, <1>11

(* One cycle more of the frame counter.                                    *)
LEMMA FrameOneMore ==
  ASSUME NEW x, NEW n \in Nat
  PROVE  /\ Times(FrameCycle, x, 0) = x
         /\ Times(FrameCycle, x, n + 1) = FrameCycle(Times(FrameCycle, x, n))
<1> DEFINE Iterates(f, m) ==
             f = [s \in SUBSET (1 .. m) |-> IF s = {} THEN x ELSE FrameCycle(f[s \ {Max(s)}])]
           it(m) == CHOOSE f : Iterates(f, m)
<1>1. \A m \in Nat : Times(FrameCycle, x, m) = it(m)[1 .. m]
  <2> TAKE m \in Nat
  <2>1. DOMAIN [i \in 1 .. m |-> i] = 1 .. m
    OBVIOUS
  <2> QED
    BY <2>1 DEF Times, FoldLeft, MapThenFoldSet
<1>2. \A m \in Nat : \E f : Iterates(f, m)
  <2> DEFINE Bad == {m \in Nat : ~\E f : Iterates(f, m)}
  <2> SUFFICES ASSUME Bad # {} PROVE FALSE
    OBVIOUS
  <2>1. PICK m \in Bad : \A k \in Bad : m <= k
    BY LeastNatural
  <2>2. CASE m = 0
    <3>1. \A s \in SUBSET (1 .. 0) : s = {}
      OBVIOUS
    <3>2. Iterates([s \in SUBSET (1 .. 0) |-> x], 0)
      BY <3>1
    <3> QED
      BY <2>1, <2>2, <3>2
  <2>3. CASE m # 0
    <3>1. m - 1 \in Nat /\ m - 1 \notin Bad
      <4>1. m \in Nat
        BY <2>1
      <4> HIDE DEF Bad
      <4> QED
        BY <2>1, <2>3, <4>1
    <3>2. PICK g : Iterates(g, m - 1)
      BY <3>1
    <3> DEFINE h == [s \in SUBSET (1 .. m) |-> IF m \in s THEN FrameCycle(g[s \ {m}]) ELSE g[s]]
    <3>3. ASSUME NEW s \in SUBSET (1 .. m)
          PROVE  h[s] = IF s = {} THEN x ELSE FrameCycle(h[s \ {Max(s)}])
      <4>1. CASE m \in s
        <5>1. Max(s) = m /\ s \ {m} \in SUBSET (1 .. m - 1) /\ s \ {m} \in SUBSET (1 .. m)
          BY <4>1, LastTaken
        <5>2. h[s \ {m}] = g[s \ {m}]
          BY <5>1
        <5> QED
          BY <4>1, <5>1, <5>2
      <4>2. CASE m \notin s /\ s # {}
        <5>1. s \in SUBSET (1 .. m - 1) /\ Max(s) \in s
          BY <4>2, LastTaken
        <5>2. s \ {Max(s)} \in SUBSET (1 .. m) /\ m \notin s \ {Max(s)}
          BY <4>2, LastTaken
        <5>3. h[s] = g[s] /\ h[s \ {Max(s)}] = g[s \ {Max(s)}]
          BY <4>2, <5>2
        <5>4. g[s] = FrameCycle(g[s \ {Max(s)}])
          BY <3>2, <4>2, <5>1
        <5> QED
          BY <4>2, <5>3, <5>4
      <4>3. CASE s = {}
        <5>1. {} \in SUBSET (1 .. m - 1) /\ m \notin s
          BY <4>3
        <5>2. g[{}] = x
          BY <3>2, <5>1
        <5> QED
          BY <4>3, <5>1, <5>2
      <4> QED
        BY <4>1, <4>2, <4>3
    <3>4. Iterates(h, m)
      BY <3>3
    <3> QED
      BY <2>1, <3>4
  <2> QED
    BY <2>2, <2>3
<1>3. \A m \in Nat : Iterates(it(m), m)
  BY <1>2
<1> HIDE DEF it
<1> DEFINE a == it(n)
           b == it(n + 1)
<1>4. \A s \in SUBSET (1 .. n) : a[s] = IF s = {} THEN x ELSE FrameCycle(a[s \ {Max(s)}])
  <2> HIDE DEF Iterates
  <2>1. Iterates(a, n)
    BY <1>3
  <2> QED
    BY <2>1 DEF Iterates
<1>5. \A s \in SUBSET (1 .. n + 1) : b[s] = IF s = {} THEN x ELSE FrameCycle(b[s \ {Max(s)}])
  <2> HIDE DEF Iterates
  <2>1. n + 1 \in Nat /\ Iterates(b, n + 1)
    BY <1>3
  <2> QED
    BY <2>1 DEF Iterates
<1> HIDE DEF Iterates, a, b
<1>6. ASSUME NEW k \in 1 .. n + 1
      PROVE  /\ b[1 .. k] = FrameCycle(b[1 .. (k - 1)])
             /\ k <= n => a[1 .. k] = FrameCycle(a[1 .. (k - 1)])
  <2>1. Max(1 .. k) = k /\ (1 .. k) \ {k} = 1 .. (k - 1) /\ 1 .. k # {}
    BY GreatestOfInterval
  <2>2. 1 .. k \in SUBSET (1 .. n + 1) /\ (k <= n => 1 .. k \in SUBSET (1 .. n))
    OBVIOUS
  <2> HIDE DEF Max
  <2> QED
    BY <1>4, <1>5, <2>1, <2>2
<1>7. /\ a[1 .. 0] = x /\ b[1 .. 0] = x
  <2>1. 1 .. 0 = {} /\ {} \in SUBSET (1 .. n) /\ {} \in SUBSET (1 .. n + 1)
    OBVIOUS
  <2> QED
    BY <1>4, <1>5, <2>1
<1> DEFINE Differs == {k \in 0 .. n : a[1 .. k] # b[1 .. k]}
<1>8. Differs = {}
  <2> SUFFICES ASSUME Differs # {} PROVE FALSE
    OBVIOUS
  <2>1. Differs \in SUBSET Nat
    OBVIOUS
  <2>2. PICK k \in Differs : \A j \in Differs : k <= j
    BY <2>1, LeastNatural
  <2>3. CASE k = 0
    BY <1>7, <2>2, <2>3
  <2>4. CASE k # 0
    <3>1. k \in 1 .. n + 1 /\ k <= n /\ k - 1 \in 0 .. n /\ k - 1 \notin Differs
      BY <2>2, <2>4
    <3>2. a[1 .. (k - 1)] = b[1 .. (k - 1)]
      BY <3>1
    <3> QED
      BY <1>6, <2>2, <3>1, <3>2
  <2> QED
    BY <2>3, <2>4
<1>9. b[1 .. (n + 1)] = FrameCycle(a[1 .. n])
  <2>1. n \in 0 .. n /\ n + 1 \in 1 .. n + 1 /\ (n + 1) - 1 = n
    OBVIOUS
  <2>2. a[1 .. n] = b[1 .. n]
    BY <1>8, <2>1
  <2>3. b[1 .. (n + 1)] = FrameCycle(b[1 .. n])
    BY <1>6, <2>1
  <2> QED
    BY <2>2, <2>3
<1>10. Times(FrameCycle, x, 0) = x
  <2>1. 1 .. 0 = {} /\ {} \in SUBSET (1 .. 0) /\ Iterates(it(0), 0)
    BY <1>3
  <2>2. it(0)[{}] = x
    BY <2>1 DEF Iterates
  <2> QED
    BY <1>1, <2>1, <2>2
<1>11. Times(FrameCycle, x, n) = a[1 .. n] /\ Times(FrameCycle, x, n + 1) = b[1 .. (n + 1)]
  <2>1. n + 1 \in Nat
    OBVIOUS
  <2> QED
    BY <1>1, <2>1 DEF a, b
<1> QED
  BY <1>9, <1>10, <1>11

(* One cycle more of the timers, odd or even by its number.                *)
LEMMA TimersOneMore ==
  ASSUME NEW x, NEW c \in Nat, NEW n \in Nat
  PROVE  /\ TimersCycles(x, c, 0) = x
         /\ TimersCycles(x, c, n + 1) = TimersCycle(TimersCycles(x, c, n), (c + (n + 1)) % 2 = 0)
<1> DEFINE Iterates(f, m) ==
             f = [s \in SUBSET (1 .. m) |->
                    IF s = {} THEN x
                    ELSE TimersCycle(f[s \ {Max(s)}], (c + [i \in 1 .. m |-> i][Max(s)]) % 2 = 0)]
           it(m) == CHOOSE f : Iterates(f, m)
<1>1. \A m \in Nat : TimersCycles(x, c, m) = it(m)[1 .. m]
  <2> TAKE m \in Nat
  <2>1. DOMAIN [i \in 1 .. m |-> i] = 1 .. m
    OBVIOUS
  <2> QED
    BY <2>1 DEF TimersCycles, FoldLeft, MapThenFoldSet
<1>2. \A m \in Nat : \E f : Iterates(f, m)
  <2> DEFINE Bad == {m \in Nat : ~\E f : Iterates(f, m)}
  <2> SUFFICES ASSUME Bad # {} PROVE FALSE
    OBVIOUS
  <2>1. PICK m \in Bad : \A k \in Bad : m <= k
    BY LeastNatural
  <2>2. CASE m = 0
    <3>1. \A s \in SUBSET (1 .. 0) : s = {}
      OBVIOUS
    <3>2. Iterates([s \in SUBSET (1 .. 0) |-> x], 0)
      BY <3>1
    <3> QED
      BY <2>1, <2>2, <3>2
  <2>3. CASE m # 0
    <3>1. m - 1 \in Nat /\ m - 1 \notin Bad
      <4>1. m \in Nat
        BY <2>1
      <4> HIDE DEF Bad
      <4> QED
        BY <2>1, <2>3, <4>1
    <3>2. PICK g : Iterates(g, m - 1)
      BY <3>1
    <3> DEFINE h == [s \in SUBSET (1 .. m) |->
                       IF m \in s THEN TimersCycle(g[s \ {m}], (c + m) % 2 = 0) ELSE g[s]]
    <3>3. ASSUME NEW s \in SUBSET (1 .. m)
          PROVE  h[s] = IF s = {} THEN x ELSE TimersCycle(h[s \ {Max(s)}], (c + Max(s)) % 2 = 0)
      <4>1. CASE m \in s
        <5>1. Max(s) = m /\ s \ {m} \in SUBSET (1 .. m - 1) /\ s \ {m} \in SUBSET (1 .. m)
          BY <4>1, LastTaken
        <5>2. h[s \ {m}] = g[s \ {m}]
          BY <5>1
        <5> QED
          BY <4>1, <5>1, <5>2
      <4>2. CASE m \notin s /\ s # {}
        <5>1. s \in SUBSET (1 .. m - 1) /\ Max(s) \in s
          BY <4>2, LastTaken
        <5>2. s \ {Max(s)} \in SUBSET (1 .. m) /\ m \notin s \ {Max(s)}
          BY <4>2, LastTaken
        <5>3. h[s] = g[s] /\ h[s \ {Max(s)}] = g[s \ {Max(s)}]
          BY <4>2, <5>2
        <5>4. g[s] = TimersCycle(g[s \ {Max(s)}], (c + [i \in 1 .. m - 1 |-> i][Max(s)]) % 2 = 0)
          BY <3>2, <4>2, <5>1
        <5>5. [i \in 1 .. m - 1 |-> i][Max(s)] = Max(s)
          <6>1. Max(s) \in 1 .. m - 1
            BY <5>1
          <6> QED
            BY <6>1
        <5> QED
          BY <4>2, <5>3, <5>4, <5>5
      <4>3. CASE s = {}
        <5>1. {} \in SUBSET (1 .. m - 1) /\ m \notin s
          BY <4>3
        <5>2. g[{}] = x
          BY <3>2, <5>1
        <5> QED
          BY <4>3, <5>1, <5>2
      <4> QED
        BY <4>1, <4>2, <4>3
    <3>4. Iterates(h, m)
      <4>1. \A s \in SUBSET (1 .. m) :
              h[s] = IF s = {} THEN x
                     ELSE TimersCycle(h[s \ {Max(s)}], (c + [i \in 1 .. m |-> i][Max(s)]) % 2 = 0)
        <5> TAKE s \in SUBSET (1 .. m)
        <5>1. s # {} => [i \in 1 .. m |-> i][Max(s)] = Max(s)
          BY LastTaken
        <5> HIDE DEF h
        <5> QED
          BY <3>3, <5>1
      <4>2. h = [s \in SUBSET (1 .. m) |-> h[s]]
        OBVIOUS
      <4> HIDE DEF h
      <4> QED
        BY <4>1, <4>2
    <3> QED
      BY <2>1, <3>4
  <2> QED
    BY <2>2, <2>3
<1>3. \A m \in Nat : Iterates(it(m), m)
  BY <1>2
<1> HIDE DEF it
<1> DEFINE a == it(n)
           b == it(n + 1)
<1>4. \A s \in SUBSET (1 .. n) :
          a[s] = IF s = {} THEN x ELSE TimersCycle(a[s \ {Max(s)}], (c + Max(s)) % 2 = 0)
  <2> HIDE DEF Iterates
  <2>1. Iterates(a, n)
    BY <1>3
  <2> QED
    BY <2>1, LastTaken DEF Iterates
<1>5. \A s \in SUBSET (1 .. n + 1) :
          b[s] = IF s = {} THEN x ELSE TimersCycle(b[s \ {Max(s)}], (c + Max(s)) % 2 = 0)
  <2> HIDE DEF Iterates
  <2>1. n + 1 \in Nat /\ Iterates(b, n + 1)
    BY <1>3
  <2> QED
    BY <2>1, LastTaken DEF Iterates
<1> HIDE DEF Iterates, a, b
<1>6. ASSUME NEW k \in 1 .. n + 1
      PROVE  /\ b[1 .. k] = TimersCycle(b[1 .. (k - 1)], (c + k) % 2 = 0)
             /\ k <= n => a[1 .. k] = TimersCycle(a[1 .. (k - 1)], (c + k) % 2 = 0)
  <2>1. Max(1 .. k) = k /\ (1 .. k) \ {k} = 1 .. (k - 1) /\ 1 .. k # {}
    BY GreatestOfInterval
  <2>2. 1 .. k \in SUBSET (1 .. n + 1) /\ (k <= n => 1 .. k \in SUBSET (1 .. n))
    OBVIOUS
  <2> HIDE DEF Max
  <2> QED
    BY <1>4, <1>5, <2>1, <2>2
<1>7. /\ a[1 .. 0] = x /\ b[1 .. 0] = x
  <2>1. 1 .. 0 = {} /\ {} \in SUBSET (1 .. n) /\ {} \in SUBSET (1 .. n + 1)
    OBVIOUS
  <2> QED
    BY <1>4, <1>5, <2>1
<1> DEFINE Differs == {k \in 0 .. n : a[1 .. k] # b[1 .. k]}
<1>8. Differs = {}
  <2> SUFFICES ASSUME Differs # {} PROVE FALSE
    OBVIOUS
  <2>1. Differs \in SUBSET Nat
    OBVIOUS
  <2>2. PICK k \in Differs : \A j \in Differs : k <= j
    BY <2>1, LeastNatural
  <2>3. CASE k = 0
    BY <1>7, <2>2, <2>3
  <2>4. CASE k # 0
    <3>1. k \in 1 .. n + 1 /\ k <= n /\ k - 1 \in 0 .. n /\ k - 1 \notin Differs
      BY <2>2, <2>4
    <3>2. a[1 .. (k - 1)] = b[1 .. (k - 1)]
      BY <3>1
    <3> QED
      BY <1>6, <2>2, <3>1, <3>2
  <2> QED
    BY <2>3, <2>4
<1>9. b[1 .. (n + 1)] = TimersCycle(a[1 .. n], (c + (n + 1)) % 2 = 0)
  <2>1. n \in 0 .. n /\ n + 1 \in 1 .. n + 1 /\ (n + 1) - 1 = n
    OBVIOUS
  <2>2. a[1 .. n] = b[1 .. n]
    BY <1>8, <2>1
  <2>3. b[1 .. (n + 1)] = TimersCycle(b[1 .. n], (c + (n + 1)) % 2 = 0)
    BY <1>6, <2>1
  <2> QED
    BY <2>2, <2>3
<1>10. TimersCycles(x, c, 0) = x
  <2>1. 1 .. 0 = {} /\ {} \in SUBSET (1 .. 0) /\ Iterates(it(0), 0)
    BY <1>3
  <2>2. it(0)[{}] = x
    BY <2>1 DEF Iterates
  <2> QED
    BY <1>1, <2>1, <2>2
<1>11. TimersCycles(x, c, n) = a[1 .. n] /\ TimersCycles(x, c, n + 1) = b[1 .. (n + 1)]
  <2>1. n + 1 \in Nat
    OBVIOUS
  <2> QED
    BY <1>1, <2>1 DEF a, b
<1> QED
  BY <1>9, <1>10, <1>11

-----------------------------------------------------------------------------
(* A timer's counter and the times it fires are natural numbers, and an    *)
(* advance by nothing changes neither.                                     *)
LEMMA TimerTyped ==
  ASSUME NEW c \in Nat, NEW p \in Nat, NEW n \in Nat
  PROVE  /\ CounterAfter(c, p, n) \in Nat /\ Fires(c, p, n) \in Nat
         /\ CounterAfter(c, p, 0) = c /\ Fires(c, p, 0) = 0
<1> DEFINE x == n - c - 1
           m == p + 1
<1>1. CASE c >= n
  BY <1>1 DEF CounterAfter, Fires
<1>2. CASE ~(c >= n)
  <2>1. x \in Nat /\ m \in Nat \ {0}
    BY <1>2
  <2> HIDE DEF x
  <2>2. x \div m \in Nat /\ x % m \in 0 .. m - 1
    <3> HIDE DEF m
    <3>1. x = m * (x \div m) + (x % m) /\ x % m \in 0 .. m - 1 /\ x \div m \in Int
      BY <2>1, SMT
    <3> DEFINE q == x \div m
    <3> HIDE DEF q
    <3>2. m * q > -m
      <4>1. m * q \in Int
        BY <2>1, <3>1 DEF q
      <4> QED
        BY <2>1, <3>1, <4>1 DEF q
    <3>3. q \in Int
      BY <3>1 DEF q
    <3>4. q > -1
      BY <2>1, <3>2, <3>3, SMT
    <3>5. q \in Nat
      BY <3>3, <3>4
    <3> QED
      BY <3>1, <3>5 DEF q
  <2>3. CounterAfter(c, p, n) = p - (x % m) /\ Fires(c, p, n) = 1 + x \div m
    BY <1>2 DEF CounterAfter, Fires, x
  <2>4. p - (x % m) \in Nat
    BY <2>2
  <2> QED
    BY <2>2, <2>3, <2>4 DEF CounterAfter, Fires
<1> QED
  BY <1>1, <1>2

(* The pulses.  Their records keep their fields, a period in the range of  *)
(* the timer and a shift of three bits.                                    *)
PulseFields ==
  {"enabled", "halt", "start", "sweeps", "negate", "swReload", "step", "volume", "divider", "decay",
   "swPeriod", "swDivider", "shift", "length", "period", "counter"}

IsPulse(p) ==
  /\ p = [field \in PulseFields |-> p[field]]
  /\ p.period \in 0 .. PeriodMax /\ p.shift \in 0 .. 7 /\ p.step \in 0 .. 7 /\ p.counter \in Nat

LEMMA PulseClocked ==
  ASSUME NEW p, IsPulse(p)
  PROVE  IsPulse(Envelope(p)) /\ IsPulse(CountLength(p))
<1>1. IsPulse(Envelope(p))
  <2>1. CASE p.start
    BY <2>1 DEF IsPulse, PulseFields, Envelope
  <2>2. CASE ~p.start /\ p.divider > 0
    BY <2>2 DEF IsPulse, PulseFields, Envelope
  <2>3. CASE ~p.start /\ ~(p.divider > 0)
    BY <2>3 DEF IsPulse, PulseFields, Envelope
  <2> QED
    BY <2>1, <2>2, <2>3
<1>2. IsPulse(CountLength(p))
  BY DEF IsPulse, PulseFields, CountLength
<1> QED
  BY <1>1, <1>2

LEMMA PulseSwept ==
  ASSUME NEW p, IsPulse(p), NEW i \in {1, 2}
  PROVE  IsPulse(Sweep(p, i))
<1>1. Target(p, i) \in Nat
  <2> DEFINE change == p.period \div 2 ^ p.shift
             x == IF p.negate THEN p.period - change - (IF i = 1 THEN 1 ELSE 0)
                  ELSE p.period + change
  <2>0. PeriodMax \in Nat
    BY RegisterAssumption
  <2>1. p.period \in Int /\ p.shift \in 0 .. 7 /\ change \in Int
    <3>1. p.period \in Nat /\ p.shift \in 0 .. 7
      BY <2>0 DEF IsPulse, PulseFields
    <3>2. 2 ^ p.shift \in Nat \ {0}
      BY <3>1, SmallPowers
    <3>3. \A y \in Nat, z \in Nat \ {0} : y \div z \in Int
      BY SMT
    <3> QED
      BY <3>1, <3>2, <3>3
  <2> HIDE DEF change
  <2>2. x \in Int
    BY <2>1
  <2> HIDE DEF x
  <2>3. x % 65536 \in Nat
    BY <2>2
  <2> QED
    BY <2>3 DEF Target, x, change
<1> DEFINE period == IF p.swDivider = 0 /\ p.sweeps /\ p.shift > 0 /\ ~Muted(p, i)
                     THEN Target(p, i) ELSE p.period
<1>2. period \in 0 .. PeriodMax
  <2>1. CASE p.shift > 0 /\ ~Muted(p, i)
    <3>1. ~(Target(p, i) > PeriodMax)
      BY <2>1 DEF Muted
    <3> QED
      BY <1>1, <3>1, RegisterAssumption DEF IsPulse, PulseFields
  <2>2. CASE ~(p.shift > 0 /\ ~Muted(p, i))
    BY <2>2 DEF IsPulse, PulseFields
  <2> QED
    BY <2>1, <2>2
<1> HIDE DEF period
<1>3. Sweep(p, i) = [p EXCEPT !.period = period,
                              !.swDivider = IF @ = 0 \/ p.swReload THEN p.swPeriod ELSE @ - 1,
                              !.swReload = FALSE]
  BY DEF Sweep, period, IsPulse, PulseFields
<1> QED
  BY <1>2, <1>3 DEF IsPulse, PulseFields

LEMMA PulseAdvanced ==
  ASSUME NEW p, IsPulse(p), NEW n \in Nat
  PROVE  IsPulse(PulseBatch(p, n))
<1> DEFINE c == CounterAfter(p.counter, p.period, n)
           f == (p.step + Fires(p.counter, p.period, n)) % 8
           a == Advance(p, n)
<1>1. p.counter \in Nat /\ p.period \in Nat /\ p.step \in 0 .. 7
  BY RegisterAssumption DEF IsPulse, PulseFields
<1>2. c \in Nat /\ f \in 0 .. 7
  <2> DEFINE x == p.step + Fires(p.counter, p.period, n)
  <2>1. c \in Nat /\ Fires(p.counter, p.period, n) \in Nat
    BY <1>1, TimerTyped
  <2>2. x \in Int
    BY <1>1, <2>1
  <2> HIDE DEF x
  <2>3. x % 8 \in 0 .. 7
    BY <2>2
  <2> QED
    BY <2>1, <2>3 DEF x
<1>3. a = [p EXCEPT !.counter = c]
  BY DEF Advance, IsPulse, PulseFields
<1> HIDE DEF c
<1>4. IsPulse(a) /\ a.step = p.step
  BY <1>2, <1>3 DEF IsPulse, PulseFields
<1>5. PulseBatch(p, n) = [a EXCEPT !.step = f]
  BY <1>4 DEF PulseBatch
<1> HIDE DEF a, f
<1> QED
  BY <1>2, <1>4, <1>5 DEF IsPulse, PulseFields

LEMMA PulseSwitched ==
  ASSUME NEW p, IsPulse(p), NEW on
  PROVE  IsPulse(Enabled(p, on))
<1> DEFINE n == IF on THEN p.length ELSE 0
<1>1. Enabled(p, on) = [p EXCEPT !.enabled = on, !.length = n]
  BY DEF Enabled, IsPulse, PulseFields
<1> HIDE DEF n
<1> QED
  BY <1>1 DEF IsPulse, PulseFields

LEMMA PulseTuned ==
  ASSUME NEW p, IsPulse(p), NEW period \in 0 .. PeriodMax, NEW length
  PROVE  IsPulse([p EXCEPT !.period = period, !.length = length])
BY DEF IsPulse, PulseFields

LEMMA PulseStarted ==
  ASSUME NEW p, IsPulse(p), NEW step \in 0 .. 7, NEW start
  PROVE  IsPulse([p EXCEPT !.step = step, !.start = start])
BY DEF IsPulse, PulseFields

LEMMA PulseSet ==
  ASSUME NEW p, IsPulse(p), NEW w, Writable(w), w.on = "pulse"
  PROVE  IsPulse(PulseWritten(p, w))
<1>1. CASE w.reg = "volume"
  BY <1>1 DEF PulseWritten, IsPulse, PulseFields
<1>2. CASE w.reg = "sweep"
  <2>1. w.shift \in 0 .. 7
    BY <1>2 DEF Writable
  <2> QED
    BY <1>2, <2>1 DEF PulseWritten, IsPulse, PulseFields
<1>3. CASE w.reg = "low"
  <2> DEFINE x == p.period
             q == x \div LowSize
             k == (PeriodMax + 1) \div LowSize
  <2>1. w.low \in 0 .. LowSize - 1
    BY <1>3 DEF Writable
  <2>2. LowSize \in Nat \ {0} /\ PeriodMax \in Nat /\ (PeriodMax + 1) % LowSize = 0
    BY RegisterAssumption
  <2>3. x \in 0 .. PeriodMax
    BY DEF IsPulse, PulseFields
  <2> HIDE DEF x
  <2>4. /\ x = LowSize * q + (x % LowSize) /\ x % LowSize \in 0 .. LowSize - 1 /\ q \in Int
        /\ PeriodMax + 1 = LowSize * k /\ k \in Int
    <3>1. x \in Int /\ PeriodMax + 1 \in Int
      BY <2>2, <2>3
    <3>2. \A b \in Int : b = LowSize * (b \div LowSize) + (b % LowSize)
                       /\ b % LowSize \in 0 .. LowSize - 1 /\ b \div LowSize \in Int
      BY <2>2, SMT
    <3>3. LowSize * k \in Int
      BY <2>2, <3>1, <3>2
    <3> QED
      BY <2>2, <3>1, <3>2, <3>3
  <2> HIDE DEF q, k
  <2>5. q \in Nat /\ q + 1 <= k
    <3>1. LowSize * q <= x /\ LowSize * q \in Int /\ LowSize * k \in Int
      BY <2>2, <2>3, <2>4
    <3>2. LowSize * q < LowSize * k
      BY <2>2, <2>3, <2>4, <3>1
    <3>3. q < k
      BY <2>2, <2>4, <3>2, SMT
    <3>4. LowSize * q > -LowSize
      BY <2>2, <2>3, <2>4, <3>1
    <3>5. q > -1
      BY <2>2, <2>4, <3>4, SMT
    <3> QED
      BY <2>4, <3>3, <3>5
  <2>6. LowSize * (q + 1) <= LowSize * k /\ LowSize * (q + 1) = q * LowSize + LowSize
    BY <2>2, <2>4, <2>5, SMT
  <2>7. q * LowSize \in Nat
    BY <2>2, <2>5, SMT
  <2> DEFINE period == q * LowSize + w.low
  <2>8. period \in 0 .. PeriodMax
    BY <2>1, <2>2, <2>4, <2>6, <2>7
  <2>9. PulseWritten(p, w) = [p EXCEPT !.period = period]
    BY <1>3 DEF PulseWritten, IsPulse, PulseFields, q, x
  <2> HIDE DEF period
  <2> QED
    BY <2>8, <2>9 DEF IsPulse, PulseFields
<1>4. CASE w.reg = "high"
  <2> DEFINE period == w.high * LowSize + (p.period % LowSize)
             length == IF p.enabled THEN w.length ELSE p.length
  <2>1. w.high \in Nat /\ (w.high + 1) * LowSize <= PeriodMax + 1
    BY <1>4 DEF Writable
  <2>2. p.period \in Nat /\ LowSize \in Nat \ {0} /\ PeriodMax \in Nat
    BY RegisterAssumption DEF IsPulse, PulseFields
  <2>3. p.period % LowSize \in 0 .. LowSize - 1
    <3>1. p.period \in Int
      BY <2>2
    <3> QED
      BY <2>2, <3>1, DivMod
  <2>4. (w.high + 1) * LowSize = w.high * LowSize + LowSize /\ w.high * LowSize \in Nat
    BY <2>1, <2>2, SMT
  <2>5. period \in 0 .. PeriodMax
    BY <2>1, <2>2, <2>3, <2>4
  <2> DEFINE e == [p EXCEPT !.period = period, !.length = length]
             g == [e EXCEPT !.step = 0, !.start = TRUE]
  <2>6. PulseWritten(p, w) = g
    BY <1>4 DEF PulseWritten, IsPulse, PulseFields
  <2> HIDE DEF period, length
  <2>7. IsPulse(e)
    BY <2>5, PulseTuned
  <2> HIDE DEF e
  <2>8. IsPulse(g)
    <3>1. 0 \in 0 .. 7
      OBVIOUS
    <3> QED
      BY <2>7, <3>1, PulseStarted
  <2> QED
    BY <2>6, <2>8
<1> QED
  BY <1>1, <1>2, <1>3, <1>4 DEF Writable

-----------------------------------------------------------------------------
(* The triangle and the noise: the fields of their records, and timers     *)
(* that count natural numbers.                                             *)
TriangleFields ==
  {"enabled", "halt", "reload", "step", "reloadValue", "linear", "length", "period", "counter"}
NoiseFields ==
  {"enabled", "halt", "start", "mode", "volume", "divider", "decay", "length", "period", "counter", "lfsr"}

IsTriangle(t) ==
  /\ t = [field \in TriangleFields |-> t[field]]
  /\ t.step \in 0 .. 31 /\ t.period \in Nat /\ t.counter \in Nat

IsNoise(c) == c = [field \in NoiseFields |-> c[field]] /\ c.period \in Nat /\ c.counter \in Nat

LEMMA TriangleClocked ==
  ASSUME NEW t, IsTriangle(t)
  PROVE  IsTriangle(Linear(t)) /\ IsTriangle(CountLength(t))
<1>1. IsTriangle(CountLength(t))
  BY DEF CountLength, IsTriangle, TriangleFields
<1> DEFINE linear == IF t.reload THEN t.reloadValue ELSE IF t.linear > 0 THEN t.linear - 1 ELSE t.linear
           reload == t.reload /\ t.halt
<1>2. Linear(t) = [t EXCEPT !.linear = linear, !.reload = reload]
  BY DEF Linear, IsTriangle, TriangleFields
<1> HIDE DEF linear, reload
<1>3. IsTriangle(Linear(t))
  BY <1>2 DEF IsTriangle, TriangleFields
<1> QED
  BY <1>1, <1>3

LEMMA TriangleAdvanced ==
  ASSUME NEW t, IsTriangle(t), NEW n \in Nat
  PROVE  IsTriangle(TriangleBatch(t, n))
<1> DEFINE c == CounterAfter(t.counter, t.period, n)
           f == IF t.enabled /\ t.length > 0 /\ t.linear > 0
                THEN (t.step + Fires(t.counter, t.period, n)) % 32 ELSE t.step
           a == Advance(t, n)
<1>1. t.counter \in Nat /\ t.period \in Nat /\ t.step \in 0 .. 31
  BY DEF IsTriangle, TriangleFields
<1>2. c \in Nat /\ f \in 0 .. 31
  <2>1. c \in Nat /\ Fires(t.counter, t.period, n) \in Nat
    BY <1>1, TimerTyped
  <2>2. (t.step + Fires(t.counter, t.period, n)) % 32 \in 0 .. 31
    <3> DEFINE x == t.step + Fires(t.counter, t.period, n)
    <3>1. x \in Int
      BY <1>1, <2>1
    <3> HIDE DEF x
    <3>2. x % 32 \in 0 .. 31
      BY <3>1
    <3> QED
      BY <3>2 DEF x
  <2> QED
    BY <1>1, <2>1, <2>2
<1>3. a = [t EXCEPT !.counter = c]
  BY DEF Advance, IsTriangle, TriangleFields
<1> HIDE DEF c
<1>4. IsTriangle(a) /\ a.step = t.step
  BY <1>2, <1>3 DEF IsTriangle, TriangleFields
<1>5. TriangleBatch(t, n) = [a EXCEPT !.step = f]
  BY <1>4 DEF TriangleBatch
<1> HIDE DEF a, f
<1> QED
  BY <1>2, <1>4, <1>5 DEF IsTriangle, TriangleFields

LEMMA TriangleSet ==
  ASSUME NEW t, IsTriangle(t), NEW w, Writable(w), w.on = "tri"
  PROVE  IsTriangle(TriangleWritten(t, w))
<1>0. LowSize \in Nat \ {0} /\ t.period \in Nat /\ t.counter \in Nat
  BY RegisterAssumption DEF IsTriangle, TriangleFields
<1>1. CASE w.reg = "volume"
  BY <1>1 DEF TriangleWritten, IsTriangle, TriangleFields
<1>2. CASE w.reg = "low"
  <2> DEFINE period == (t.period \div LowSize) * LowSize + w.low
  <2>1. w.low \in Nat
    BY <1>2 DEF Writable
  <2>2. period \in Nat
    <3>1. t.period \div LowSize \in Nat
      BY <1>0, SMT
    <3>2. (t.period \div LowSize) * LowSize \in Nat
      BY <1>0, <3>1, SMT
    <3> QED
      BY <2>1, <3>2
  <2>3. TriangleWritten(t, w) = [t EXCEPT !.period = period]
    BY <1>2 DEF TriangleWritten, IsTriangle, TriangleFields
  <2> HIDE DEF period
  <2> QED
    BY <2>2, <2>3 DEF IsTriangle, TriangleFields
<1>3. CASE w.reg = "high"
  <2> DEFINE period == w.high * LowSize + (t.period % LowSize)
             length == IF t.enabled THEN w.length ELSE t.length
             counter == IF t.counter > period THEN period ELSE t.counter
  <2>1. w.high \in Nat
    BY <1>3 DEF Writable
  <2>2. period \in Nat
    <3>1. t.period % LowSize \in 0 .. LowSize - 1
      <4>1. t.period \in Int
        BY <1>0
      <4> QED
        BY <1>0, <4>1, DivMod
    <3>2. w.high * LowSize \in Nat
      BY <1>0, <2>1, SMT
    <3> DEFINE low == t.period % LowSize
               high == w.high * LowSize
    <3> HIDE DEF low, high
    <3>3. low \in Nat /\ high \in Nat
      BY <1>0, <3>1, <3>2 DEF low, high
    <3> QED
      BY <3>3 DEF low, high
  <2>3. counter \in Nat
    BY <1>0, <2>2
  <2>4. TriangleWritten(t, w) = [t EXCEPT !.period = period, !.length = length,
                                          !.counter = counter, !.reload = TRUE]
    BY <1>3 DEF TriangleWritten, IsTriangle, TriangleFields
  <2> HIDE DEF period, length, counter
  <2> QED
    BY <2>2, <2>3, <2>4 DEF IsTriangle, TriangleFields
<1> QED
  BY <1>1, <1>2, <1>3 DEF Writable

LEMMA TriangleSwitched ==
  ASSUME NEW t, IsTriangle(t), NEW on
  PROVE  IsTriangle(TriangleEnabled(t, on))
<1> DEFINE length == IF on THEN t.length ELSE 0
           linear == IF on THEN t.linear ELSE 0
<1>1. TriangleEnabled(t, on) = [t EXCEPT !.enabled = on, !.length = length, !.linear = linear]
  BY DEF TriangleEnabled, IsTriangle, TriangleFields
<1> HIDE DEF length, linear
<1> QED
  BY <1>1 DEF IsTriangle, TriangleFields

LEMMA NoiseClocked ==
  ASSUME NEW c, IsNoise(c)
  PROVE  IsNoise(Envelope(c)) /\ IsNoise(CountLength(c))
<1>1. IsNoise(CountLength(c))
  BY DEF CountLength, IsNoise, NoiseFields
<1>2. CASE c.start
  BY <1>1, <1>2 DEF IsNoise, NoiseFields, Envelope
<1>3. CASE ~c.start /\ c.divider > 0
  BY <1>1, <1>3 DEF IsNoise, NoiseFields, Envelope
<1>4. CASE ~c.start /\ ~(c.divider > 0)
  BY <1>1, <1>4 DEF IsNoise, NoiseFields, Envelope
<1> QED
  BY <1>2, <1>3, <1>4

LEMMA NoiseSet ==
  ASSUME NEW c, IsNoise(c), NEW w, Writable(w), w.on = "noise"
  PROVE  IsNoise(NoiseWritten(c, w))
<1>1. CASE w.reg = "volume"
  BY <1>1 DEF NoiseWritten, IsNoise, NoiseFields
<1>2. CASE w.reg = "low"
  <2>1. w.period \in Nat
    BY <1>2 DEF Writable
  <2> QED
    BY <1>2, <2>1 DEF NoiseWritten, IsNoise, NoiseFields
<1>3. CASE w.reg = "high"
  <2> DEFINE length == IF c.enabled THEN w.length ELSE c.length
  <2>1. NoiseWritten(c, w) = [c EXCEPT !.length = length, !.counter = c.period, !.start = TRUE]
    BY <1>3 DEF NoiseWritten, IsNoise, NoiseFields
  <2> HIDE DEF length
  <2> QED
    BY <2>1 DEF IsNoise, NoiseFields
<1> QED
  BY <1>1, <1>2, <1>3 DEF Writable

LEMMA NoiseSwitched ==
  ASSUME NEW c, IsNoise(c), NEW on
  PROVE  IsNoise(Enabled(c, on))
<1> DEFINE n == IF on THEN c.length ELSE 0
<1>1. Enabled(c, on) = [c EXCEPT !.enabled = on, !.length = n]
  BY DEF Enabled, IsNoise, NoiseFields
<1> HIDE DEF n
<1> QED
  BY <1>1 DEF IsNoise, NoiseFields

(* Shifts change only the register.                                        *)
LEMMA NoiseShifted ==
  ASSUME NEW c, IsNoise(c), NEW n \in Nat
  PROVE  LET e == Times(Shift, c, n)
         IN  IsNoise(e) /\ e.counter = c.counter /\ e.period = c.period
<1> DEFINE Good(k) == LET e == Times(Shift, c, k)
                      IN  IsNoise(e) /\ e.counter = c.counter /\ e.period = c.period
           Bad == {k \in Nat : ~Good(k)}
<1>1. Good(0)
  <2>1. Times(Shift, c, 0) = c
    BY ShiftOneMore
  <2> QED
    BY <2>1
<1>2. ASSUME NEW k \in Nat, Good(k) PROVE Good(k + 1)
  <2> DEFINE e == Times(Shift, c, k)
  <2>1. Times(Shift, c, k + 1) = Shift(e)
    BY ShiftOneMore
  <2>2. IsNoise(e) /\ e.counter = c.counter /\ e.period = c.period
    BY <1>2
  <2> HIDE DEF e
  <2>3. \E x : Shift(e) = [e EXCEPT !.lfsr = x]
    BY DEF Shift
  <2>4. IsNoise(Shift(e)) /\ Shift(e).counter = c.counter /\ Shift(e).period = c.period
    BY <2>2, <2>3 DEF IsNoise, NoiseFields
  <2> QED
    BY <2>1, <2>4
<1> HIDE DEF Good
<1>3. Bad = {}
  <2> SUFFICES ASSUME Bad # {} PROVE FALSE
    OBVIOUS
  <2>1. Bad \in SUBSET Nat
    OBVIOUS
  <2>2. PICK k \in Bad : \A j \in Bad : k <= j
    BY <2>1, LeastNatural
  <2>3. k \in Nat /\ k # 0
    BY <1>1, <2>2
  <2>4. k - 1 \in Nat /\ k - 1 \notin Bad /\ (k - 1) + 1 = k
    BY <2>2, <2>3
  <2> QED
    BY <1>2, <2>2, <2>4
<1>4. Good(n)
  BY <1>3
<1> QED
  BY <1>4 DEF Good

NoiseBatch(c, n) == Advance(Times(Shift, c, Fires(c.counter, c.period, n)), n)

LEMMA NoiseAdvanced ==
  ASSUME NEW c, IsNoise(c), NEW n \in Nat
  PROVE  IsNoise(NoiseBatch(c, n))
<1> DEFINE e == Times(Shift, c, Fires(c.counter, c.period, n))
           k == CounterAfter(e.counter, e.period, n)
<1>1. IsNoise(e)
  <2>1. Fires(c.counter, c.period, n) \in Nat
    BY TimerTyped DEF IsNoise, NoiseFields
  <2> QED
    BY <2>1, NoiseShifted
<1> HIDE DEF e
<1>2. k \in Nat
  BY <1>1, TimerTyped DEF IsNoise, NoiseFields
<1>3. NoiseBatch(c, n) = [e EXCEPT !.counter = k]
  BY <1>1 DEF NoiseBatch, Advance, IsNoise, NoiseFields, e
<1> HIDE DEF k
<1> QED
  BY <1>1, <1>2, <1>3 DEF IsNoise, NoiseFields

-----------------------------------------------------------------------------
(* The DMC's reader.  What is due is the byte in the buffer and then the   *)
(* bytes from the current address on, as many as remain.                   *)
DmcType ==
  [loop : BOOLEAN, silent : BOOLEAN, filled : BOOLEAN, level : Int, buffer : Nat, shift : Nat,
   bits : 0 .. BitsOfByte, period : DmcPeriods, counter : Nat, address : Nat, size : Nat,
   current : Nat, remaining : Nat, loads : Nat]

Place(a, k) == IF k = 0 THEN a ELSE LowAddress + ((a + k) % LowAddress)

DueIs(d, q) ==
  IF d.filled
  THEN q = [k \in 1 .. d.remaining + 1 |-> IF k = 1 THEN d.buffer ELSE Place(d.current, k - 2)]
  ELSE d.remaining = 0 /\ q = <<>>

LEMMA PlaceType ==
  ASSUME NEW a \in Nat, NEW k \in Nat
  PROVE  Place(a, k) \in Nat
<1>1. LowAddress \in Nat \ {0} /\ a + k \in Int
  BY RegisterAssumption
<1>2. (a + k) % LowAddress \in 0 .. LowAddress - 1
  BY <1>1, DivMod
<1> QED
  BY <1>1, <1>2 DEF Place

LEMMA NextPlace ==
  ASSUME NEW a \in Nat, NEW k \in Nat
  PROVE  Place(Place(a, 1), k) = Place(a, k + 1)
<1> DEFINE m == LowAddress
           x == a + k + 1
           r == (a + 1) % m
<1>1. m \in Nat \ {0} /\ x \in Int /\ a + 1 \in Int /\ m + k \in Int
  BY RegisterAssumption
<1>2. r \in 0 .. m - 1 /\ x % m \in 0 .. m - 1
  BY <1>1, DivMod
<1>3. (x + m) % m = x % m
  <2>1. PICK q \in Int : x = m * q + (x % m)
    BY <1>1, DivMod
  <2>2. x + m = m * (q + 1) + (x % m) /\ x + m \in Int /\ q + 1 \in Int
    <3>1. m * (q + 1) = m * q + m /\ m * q \in Int
      BY <1>1, <2>1, SMT
    <3> HIDE DEF m, x
    <3> QED
      BY <1>1, <1>2, <2>1, <3>1
  <2> HIDE DEF m, x
  <2> QED
    BY <1>1, <1>2, <2>2, ModUnique
<1>4. (r + (m + k)) % m = (a + 1 + (m + k)) % m
  BY <1>1, ModPlus
<1>5. a + 1 + (m + k) = x + m /\ r + (m + k) = m + r + k
  <2>1. r \in Int
    BY <1>2
  <2> HIDE DEF r
  <2> QED
    BY <1>1, <2>1
<1>6. (m + r + k) % m = x % m
  BY <1>3, <1>4, <1>5
<1>7. Place(a, 1) = m + r
  BY DEF Place
<1>8. CASE k = 0
  BY <1>7, <1>8 DEF Place
<1>9. CASE k # 0
  <2>1. Place(Place(a, 1), k) = m + ((m + r + k) % m)
    BY <1>7, <1>9 DEF Place
  <2>2. Place(a, k + 1) = m + (x % m)
    BY <1>9 DEF Place
  <2> QED
    BY <2>1, <2>2, <1>6
<1> QED
  BY <1>8, <1>9

LEMMA SampleIs ==
  ASSUME NEW d \in DmcType
  PROVE  SampleOf(d) = [i \in 1 .. d.size |-> Place(d.address, i - 1)]
<1>1. d.address \in Nat /\ d.size \in Nat
  BY DEF DmcType
<1>2. ASSUME NEW i \in 1 .. d.size
      PROVE  (IF i = 1 THEN d.address ELSE LowAddress + ((d.address + i - 1) % LowAddress))
               = Place(d.address, i - 1)
  <2>1. d.address + i - 1 = d.address + (i - 1)
    BY <1>1
  <2> QED
    BY <2>1 DEF Place
<1> QED
  BY <1>2 DEF SampleOf

(* One byte fetched, of those that remain.                                 *)
LEMMA FetchedIs ==
  ASSUME NEW d \in DmcType, ~d.filled, d.remaining > 0
  PROVE  LET loops == d.remaining = 1 /\ d.loop
         IN  Fetched(d) = [d EXCEPT !.buffer = d.current, !.filled = TRUE,
                             !.current = IF loops THEN d.address ELSE Place(d.current, 1),
                             !.remaining = IF loops THEN d.size ELSE d.remaining - 1]
BY DEF Fetched, Place, DmcType

LEMMA FetchedType ==
  ASSUME NEW d \in DmcType
  PROVE  Fetched(d) \in DmcType
<1>1. CASE d.filled \/ d.remaining = 0
  BY <1>1 DEF Fetched
<1>2. CASE ~d.filled /\ d.remaining # 0
  <2>1. d.remaining > 0
    BY <1>2 DEF DmcType
  <2>2. Place(d.current, 1) \in Nat
    BY PlaceType DEF DmcType
  <2> DEFINE loops == d.remaining = 1 /\ d.loop
             current == IF loops THEN d.address ELSE Place(d.current, 1)
             remaining == IF loops THEN d.size ELSE d.remaining - 1
  <2>3. current \in Nat /\ remaining \in Nat
    BY <2>1, <2>2 DEF DmcType
  <2>4. Fetched(d) = [d EXCEPT !.buffer = d.current, !.filled = TRUE,
                                !.current = current, !.remaining = remaining]
    BY <1>2, <2>1, FetchedIs
  <2> HIDE DEF current, remaining
  <2> QED
    BY <2>3, <2>4 DEF DmcType
<1> QED
  BY <1>1, <1>2

(* A byte before a sample.                                                 *)
LEMMA BytesBefore ==
  ASSUME NEW d \in DmcType, NEW x \in Nat
  PROVE  /\ SampleOf(d) \in Seq(Nat) /\ Len(SampleOf(d)) = d.size
         /\ <<x>> \o SampleOf(d) =
              [k \in 1 .. d.size + 1 |-> IF k = 1 THEN x ELSE Place(d.address, k - 2)]
<1> DEFINE s == SampleOf(d)
           f == [k \in 1 .. d.size + 1 |-> IF k = 1 THEN x ELSE Place(d.address, k - 2)]
<1>1. d.size \in Nat /\ d.address \in Nat
  BY DEF DmcType
<1>2. s = [i \in 1 .. d.size |-> Place(d.address, i - 1)]
  BY SampleIs
<1>3. \A i \in 1 .. d.size : Place(d.address, i - 1) \in Nat
  <2> TAKE i \in 1 .. d.size
  <2>1. i - 1 \in Nat
    BY <1>1
  <2> QED
    BY <1>1, <2>1, PlaceType
<1>4. s \in Seq(Nat) /\ Len(s) = d.size
  BY <1>1, <1>2, <1>3
<1> HIDE DEF s
<1>5. <<x>> \o s \in Seq(Nat) /\ Len(<<x>> \o s) = d.size + 1
  BY <1>4
<1>6. ASSUME NEW k \in 1 .. d.size + 1 PROVE (<<x>> \o s)[k] = f[k]
  <2>1. CASE k = 1
    BY <1>1, <1>4, <2>1
  <2>2. CASE k # 1
    <3>1. k - 1 \in 1 .. d.size /\ (k - 1) - 1 = k - 2
      BY <1>1, <2>2
    <3>2. (<<x>> \o s)[k] = s[k - 1]
      BY <1>1, <1>4, <2>2, <3>1
    <3>3. s[k - 1] = Place(d.address, k - 2)
      BY <1>2, <3>1
    <3> QED
      BY <2>2, <3>2, <3>3
  <2> QED
    BY <2>1, <2>2
<1>7. DOMAIN (<<x>> \o s) = 1 .. d.size + 1
  BY <1>5
<1>8. <<x>> \o s = [k \in 1 .. d.size + 1 |-> (<<x>> \o s)[k]]
  BY <1>5, <1>7
<1>9. <<x>> \o s = f
  BY <1>6, <1>8
<1> QED
  BY <1>4, <1>9 DEF s

LEMMA DueWhenFilled ==
  ASSUME NEW d, d.filled, NEW b, NEW c, NEW r, NEW q,
         d.buffer = b, d.current = c, d.remaining = r,
         q = [k \in 1 .. r + 1 |-> IF k = 1 THEN b ELSE Place(c, k - 2)]
  PROVE  DueIs(d, q)
BY DEF DueIs

(* The reader is started: what was buffered, and the sample.               *)
LEMMA DueStarts ==
  ASSUME NEW d \in DmcType, NEW q, DueIs(d, q), d.remaining = 0
  PROVE  LET e == [d EXCEPT !.current = d.address, !.remaining = d.size]
             buffered == IF d.filled THEN <<d.buffer>> ELSE <<>>
             loops == d.loop /\ d.size = 1 /\ ~d.filled
         IN  DueIs(Fetched(e), buffered \o SampleOf(d) \o (IF loops THEN SampleOf(d) ELSE <<>>))
<1> DEFINE e == [d EXCEPT !.current = d.address, !.remaining = d.size]
           buffered == IF d.filled THEN <<d.buffer>> ELSE <<>>
           loops == d.loop /\ d.size = 1 /\ ~d.filled
           s == SampleOf(d)
           all == buffered \o s \o (IF loops THEN s ELSE <<>>)
<1>1. /\ d.size \in Nat /\ d.address \in Nat /\ d.buffer \in Nat /\ s \in Seq(Nat) /\ Len(s) = d.size
      /\ s = [i \in 1 .. d.size |-> Place(d.address, i - 1)]
  BY BytesBefore, SampleIs DEF DmcType
<1>2. /\ e \in DmcType /\ e.filled = d.filled /\ e.current = d.address /\ e.remaining = d.size
      /\ e.address = d.address /\ e.size = d.size /\ e.buffer = d.buffer /\ e.loop = d.loop
  BY DEF DmcType
<1> HIDE DEF e
<1>3. ASSUME d.filled PROVE DueIs(Fetched(e), all)
  <2>1. all = <<d.buffer>> \o s
    <3>1. all = <<d.buffer>> \o s \o <<>>
      BY <1>3
    <3>2. <<d.buffer>> \o s \in Seq(Nat)
      BY <1>1
    <3> HIDE DEF s, all
    <3> QED
      BY <3>1, <3>2
  <2>2. Fetched(e) = e
    BY <1>2, <1>3 DEF Fetched
  <2>3. all = [k \in 1 .. d.size + 1 |-> IF k = 1 THEN d.buffer ELSE Place(d.address, k - 2)]
    BY <2>1, <1>1, BytesBefore
  <2> HIDE DEF all
  <2> QED
    <3>1. e.filled
      BY <1>2, <1>3
    <3> QED
      BY <1>2, <2>2, <2>3, <3>1, DueWhenFilled
<1>4. ASSUME ~d.filled, d.size = 0 PROVE DueIs(Fetched(e), all)
  <2>1. Fetched(e) = e
    BY <1>2, <1>4 DEF Fetched
  <2>2. s = <<>>
    BY <1>1, <1>4
  <2>3. all = <<>>
    BY <1>4, <2>2
  <2> HIDE DEF all
  <2> QED
    BY <1>2, <1>4, <2>1, <2>3 DEF DueIs
<1>5. ASSUME ~d.filled, d.size # 0 PROVE DueIs(Fetched(e), all)
  <2>1. /\ Fetched(e).filled /\ Fetched(e).buffer = d.address
        /\ Fetched(e).current = IF loops THEN d.address ELSE Place(d.address, 1)
        /\ Fetched(e).remaining = IF loops THEN d.size ELSE d.size - 1
    <3>1. ~e.filled /\ e.remaining > 0
      BY <1>1, <1>2, <1>5
    <3>2. Fetched(e) = [e EXCEPT !.buffer = e.current, !.filled = TRUE,
                           !.current = IF e.remaining = 1 /\ e.loop THEN e.address ELSE Place(e.current, 1),
                           !.remaining = IF e.remaining = 1 /\ e.loop THEN e.size ELSE e.remaining - 1]
      BY <1>2, <3>1, FetchedIs
    <3>3. (e.remaining = 1 /\ e.loop) = loops
      BY <1>2, <1>5
    <3> QED
      BY <1>2, <3>2, <3>3 DEF DmcType
  <2> DEFINE g == Fetched(e)
  <2> HIDE DEF g
  <2>2. CASE loops
    <3>0. d.size = 1
      BY <2>2
    <3>1. all = s \o s
      <4>1. all = <<>> \o s \o s
        BY <1>5, <2>2
      <4>2. s \in Seq(Nat)
        BY <1>1
      <4> HIDE DEF s, all
      <4>3. <<>> \o s = s
        BY <4>2
      <4> QED
        BY <4>1, <4>3
    <3>2. s = <<d.address>>
      BY <1>1, <3>0 DEF Place
    <3>3. all = [k \in 1 .. d.size + 1 |-> IF k = 1 THEN d.address ELSE Place(d.address, k - 2)]
      <4>1. <<d.address>> \o s =
              [k \in 1 .. d.size + 1 |-> IF k = 1 THEN d.address ELSE Place(d.address, k - 2)]
        BY <1>1, BytesBefore
      <4> HIDE DEF s, all
      <4> QED
        BY <3>1, <3>2, <4>1
    <3> HIDE DEF all, loops
    <3>4. DueIs(g, all)
      <4>1. g.filled /\ g.buffer = d.address /\ g.current = d.address /\ g.remaining = d.size
        BY <2>1, <2>2 DEF g
      <4> QED
        BY <3>3, <4>1, DueWhenFilled
    <3> QED
      BY <3>4 DEF g
  <2>3. CASE ~loops
    <3>1. all = s
      <4>1. all = <<>> \o s \o <<>>
        BY <1>5, <2>3
      <4> HIDE DEF s, all
      <4> QED
        BY <1>1, <4>1
    <3>2. ASSUME NEW k \in 1 .. d.size
          PROVE  Place(d.address, k - 1) = IF k = 1 THEN d.address ELSE Place(Place(d.address, 1), k - 2)
      <4>1. CASE k = 1
        BY <4>1 DEF Place
      <4>2. CASE k # 1
        <5>1. k - 2 \in Nat /\ (k - 2) + 1 = k - 1
          BY <1>1, <4>2
        <5>2. d.address \in Nat
          BY <1>1
        <5>3. Place(Place(d.address, 1), k - 2) = Place(d.address, (k - 2) + 1)
          BY <5>1, <5>2, NextPlace
        <5> QED
          BY <4>2, <5>1, <5>3
      <4> QED
        BY <4>1, <4>2
    <3>3. all = [k \in 1 .. d.size |-> IF k = 1 THEN d.address ELSE Place(Place(d.address, 1), k - 2)]
      BY <1>1, <3>1, <3>2
    <3>4. all = [k \in 1 .. (d.size - 1) + 1 |->
                   IF k = 1 THEN d.address ELSE Place(Place(d.address, 1), k - 2)]
      <4>1. (d.size - 1) + 1 = d.size
        BY <1>1
      <4> HIDE DEF all, loops
      <4> QED
        BY <3>3, <4>1, Zenon
    <3> HIDE DEF all, loops
    <3>5. DueIs(g, all)
      <4>1. g.filled /\ g.buffer = d.address /\ g.current = Place(d.address, 1) /\ g.remaining = d.size - 1
        BY <2>1, <2>3 DEF g
      <4> QED
        BY <3>4, <4>1, DueWhenFilled
    <3> QED
      BY <3>5 DEF g
  <2> QED
    BY <2>2, <2>3
<1> QED
  BY <1>3, <1>4, <1>5 DEF e

(* A byte begun: the buffer's, and the next fetched.                       *)
Loaded(d) == IF d.filled THEN Fetched([d EXCEPT !.filled = FALSE, !.loads = @ + 1]) ELSE d

LEMMA DueMoves ==
  ASSUME NEW d \in DmcType, NEW q, DueIs(d, q), d.filled
  PROVE  DueIs(Loaded(d), Tail(q) \o (IF d.remaining = 1 /\ d.loop THEN SampleOf(d) ELSE <<>>))
<1> DEFINE e == [d EXCEPT !.filled = FALSE, !.loads = @ + 1]
           r == d.remaining
           loops == r = 1 /\ d.loop
           rest == Tail(q)
           g == Fetched(e)
<1>1. r \in Nat /\ d.current \in Nat /\ d.buffer \in Nat
  BY DEF DmcType
<1>2. /\ e \in DmcType /\ ~e.filled /\ e.current = d.current /\ e.remaining = r
      /\ e.address = d.address /\ e.size = d.size /\ e.loop = d.loop
  <2>1. d.loads + 1 \in Nat
    BY DEF DmcType
  <2>2. e = [d EXCEPT !.filled = FALSE, !.loads = d.loads + 1]
    BY DEF DmcType
  <2> QED
    BY <2>1, <2>2 DEF DmcType
<1>3. Loaded(d) = g
  BY DEF Loaded
<1> HIDE DEF e
<1>4. rest \in Seq(Nat) /\ rest = [k \in 1 .. r |-> Place(d.current, k - 1)]
  <2>1. q = [k \in 1 .. r + 1 |-> IF k = 1 THEN d.buffer ELSE Place(d.current, k - 2)]
    BY DEF DueIs
  <2>2. ASSUME NEW k \in 1 .. r + 1
        PROVE  (IF k = 1 THEN d.buffer ELSE Place(d.current, k - 2)) \in Nat
    <3>1. CASE k = 1
      BY <1>1, <3>1
    <3>2. CASE k # 1
      <4>1. k - 2 \in Nat
        BY <1>1, <3>2
      <4> QED
        BY <1>1, <3>2, <4>1, PlaceType
    <3> QED
      BY <3>1, <3>2
  <2>3. q \in Seq(Nat) /\ Len(q) = r + 1
    BY <1>1, <2>1, <2>2
  <2>4. q # <<>>
    BY <1>1, <2>3
  <2>5. rest \in Seq(Nat) /\ Len(rest) = r /\ \A k \in 1 .. r : rest[k] = q[k + 1]
    <3>1. DOMAIN q = 1 .. r + 1
      BY <2>1
    <3>2. Tail(q) \in Seq(Nat) /\ Len(Tail(q)) = Len(q) - 1
      BY <2>3, <2>4
    <3>3. \A k \in 1 .. r : Tail(q)[k] = q[k + 1]
      BY <1>1, <2>3, <2>4
    <3>4. (r + 1) - 1 = r
      BY <1>1
    <3> QED
      BY <2>3, <3>2, <3>3, <3>4
  <2>6. \A k \in 1 .. r : q[k + 1] = Place(d.current, k - 1)
    <3> TAKE k \in 1 .. r
    <3>1. k + 1 \in 1 .. r + 1 /\ k + 1 # 1 /\ (k + 1) - 2 = k - 1
      BY <1>1
    <3> QED
      BY <2>1, <3>1
  <2> HIDE DEF rest
  <2>7. rest = [k \in 1 .. r |-> rest[k]]
    <3>1. DOMAIN rest = 1 .. r
      BY <2>5
    <3> QED
      BY <2>5, <3>1
  <2> QED
    BY <2>5, <2>6, <2>7
<1> HIDE DEF rest
<1>5. CASE r = 0
  <2>1. g = e
    BY <1>2, <1>5 DEF Fetched
  <2>2. rest = <<>>
    BY <1>4, <1>5
  <2>3. rest \o (IF loops THEN SampleOf(d) ELSE <<>>) = <<>>
    BY <1>5, <2>2
  <2> QED
    BY <1>2, <1>3, <1>5, <2>1, <2>3 DEF DueIs, rest
<1>6. CASE r # 0
  <2>1. /\ g.filled /\ g.buffer = d.current
        /\ g.current = IF loops THEN d.address ELSE Place(d.current, 1)
        /\ g.remaining = IF loops THEN d.size ELSE r - 1
    <3>1. e.remaining > 0
      BY <1>1, <1>2, <1>6
    <3>2. g = [e EXCEPT !.buffer = e.current, !.filled = TRUE,
                 !.current = IF e.remaining = 1 /\ e.loop THEN e.address ELSE Place(e.current, 1),
                 !.remaining = IF e.remaining = 1 /\ e.loop THEN e.size ELSE e.remaining - 1]
      BY <1>2, <3>1, FetchedIs
    <3>3. (e.remaining = 1 /\ e.loop) = loops
      BY <1>2
    <3> QED
      BY <1>2, <3>2, <3>3 DEF DmcType
  <2> HIDE DEF g
  <2>2. CASE loops
    <3>1. rest = <<d.current>>
      BY <1>4, <2>2 DEF Place
    <3>2. rest \o SampleOf(d) =
            [k \in 1 .. d.size + 1 |-> IF k = 1 THEN d.current ELSE Place(d.address, k - 2)]
      BY <1>1, <3>1, BytesBefore
    <3>3. DueIs(g, rest \o SampleOf(d))
      BY <2>1, <2>2, <3>2 DEF DueIs
    <3> QED
      BY <1>3, <2>2, <3>3 DEF rest
  <2>3. CASE ~loops
    <3>1. rest \o <<>> = rest
      BY <1>4
    <3>2. ASSUME NEW k \in 1 .. r
          PROVE  Place(d.current, k - 1) = IF k = 1 THEN d.current ELSE Place(Place(d.current, 1), k - 2)
      <4>1. CASE k = 1
        BY <4>1 DEF Place
      <4>2. CASE k # 1
        <5>1. k - 2 \in Nat /\ (k - 2) + 1 = k - 1
          BY <1>1, <4>2
        <5> QED
          BY <1>1, <4>2, <5>1, NextPlace
      <4> QED
        BY <4>1, <4>2
    <3>3. rest = [k \in 1 .. r |-> IF k = 1 THEN d.current ELSE Place(Place(d.current, 1), k - 2)]
      BY <1>4, <3>2
    <3>4. (r - 1) + 1 = r
      BY <1>1
    <3> HIDE DEF loops, r
    <3>5. DueIs(g, rest)
      BY <2>1, <2>3, <3>3, <3>4 DEF DueIs
    <3> QED
      BY <1>3, <2>3, <3>1, <3>5 DEF rest, loops, r
  <2> QED
    BY <2>2, <2>3
<1> QED
  BY <1>5, <1>6

(* What the output unit leaves to the reader and to the registers.         *)
Keeps(e, d) ==
  /\ e.filled = d.filled /\ e.buffer = d.buffer /\ e.current = d.current
  /\ e.remaining = d.remaining /\ e.loads = d.loads /\ e.address = d.address
  /\ e.size = d.size /\ e.loop = d.loop /\ e.period = d.period /\ e.counter = d.counter

LEMMA LoadedIs ==
  ASSUME NEW d \in DmcType
  PROVE  LET loops == d.remaining = 1 /\ d.loop
             g == Loaded(d)
         IN  /\ g \in DmcType /\ g.bits = d.bits /\ g.level = d.level /\ g.silent = d.silent /\ g.shift = d.shift
             /\ g.address = d.address /\ g.size = d.size /\ g.loop = d.loop
             /\ g.period = d.period /\ g.counter = d.counter
             /\ ~d.filled => g = d
             /\ d.filled =>
                  /\ g.loads = d.loads + 1 /\ g.filled = (d.remaining # 0)
                  /\ g.buffer = IF d.remaining = 0 THEN d.buffer ELSE d.current
                  /\ g.current = IF d.remaining = 0 THEN d.current
                                 ELSE IF loops THEN d.address ELSE Place(d.current, 1)
                  /\ g.remaining = IF d.remaining = 0 THEN 0
                                   ELSE IF loops THEN d.size ELSE d.remaining - 1
<1>1. CASE ~d.filled
  BY <1>1 DEF Loaded
<1>2. CASE d.filled
  <2> DEFINE e == [d EXCEPT !.filled = FALSE, !.loads = d.loads + 1]
  <2>1. Loaded(d) = Fetched(e)
    BY <1>2 DEF Loaded, DmcType
  <2>2. d.loads + 1 \in Nat
    BY DEF DmcType
  <2>3. /\ e \in DmcType /\ ~e.filled /\ e.loads = d.loads + 1
        /\ e.bits = d.bits /\ e.level = d.level /\ e.silent = d.silent /\ e.shift = d.shift
        /\ e.address = d.address /\ e.size = d.size /\ e.loop = d.loop /\ e.period = d.period
        /\ e.counter = d.counter /\ e.buffer = d.buffer /\ e.current = d.current
        /\ e.remaining = d.remaining
    BY <2>2 DEF DmcType
  <2> HIDE DEF e
  <2>4. Fetched(e) \in DmcType
    BY <2>3, FetchedType
  <2>5. CASE d.remaining = 0
    <3>1. Fetched(e) = e
      BY <2>3, <2>5 DEF Fetched
    <3>2. (d.remaining # 0) = FALSE /\ e.filled = FALSE
      <4>1. e.filled \in BOOLEAN
        BY <2>3 DEF DmcType
      <4> QED
        BY <2>3, <2>5, <4>1
    <3> QED
      BY <1>2, <2>1, <2>3, <2>5, <3>1, <3>2
  <2>6. CASE d.remaining # 0
    <3> DEFINE loops == d.remaining = 1 /\ d.loop
               current == IF loops THEN d.address ELSE Place(d.current, 1)
               remaining == IF loops THEN d.size ELSE d.remaining - 1
    <3>1. e.remaining > 0
      BY <2>3, <2>6 DEF DmcType
    <3>2. Fetched(e) = [e EXCEPT !.buffer = d.current, !.filled = TRUE,
                                  !.current = current, !.remaining = remaining]
      <4>1. Fetched(e)
              = [e EXCEPT !.buffer = e.current, !.filled = TRUE,
                          !.current = IF e.remaining = 1 /\ e.loop THEN e.address
                                      ELSE Place(e.current, 1),
                          !.remaining = IF e.remaining = 1 /\ e.loop THEN e.size
                                        ELSE e.remaining - 1]
        BY <2>3, <3>1, FetchedIs
      <4> QED
        BY <2>3, <4>1
    <3> HIDE DEF current, remaining
    <3> DEFINE g == Fetched(e)
    <3>3. /\ g.loads = e.loads /\ g.filled /\ g.buffer = d.current /\ g.current = current
          /\ g.remaining = remaining /\ g.bits = e.bits /\ g.level = e.level /\ g.silent = e.silent
          /\ g.shift = e.shift /\ g.address = e.address /\ g.size = e.size /\ g.loop = e.loop
          /\ g.period = e.period /\ g.counter = e.counter
      BY <2>3, <3>2 DEF DmcType
    <3> HIDE DEF g
    <3> QED
      BY <1>2, <2>1, <2>3, <2>4, <2>6, <3>3 DEF g, current, remaining
  <2> QED
    BY <2>5, <2>6
<1> QED
  BY <1>1, <1>2

LEMMA LoadedAlike ==
  ASSUME NEW d \in DmcType, NEW e \in DmcType, Keeps(e, d)
  PROVE  Keeps(Loaded(e), Loaded(d))
<1>1. CASE ~d.filled
  <2>1. Loaded(d) = d /\ Loaded(e) = e
    BY <1>1 DEF Loaded, Keeps
  <2> QED
    BY <2>1
<1>2. CASE d.filled
  <2>1. e.filled
    BY <1>2 DEF Keeps
  <2> QED
    BY <1>2, <2>1, LoadedIs DEF Keeps
<1> QED
  BY <1>1, <1>2

(* One clock of the output unit: a bit, or the byte that follows.          *)
LEMMA DmcClocked ==
  ASSUME NEW d \in DmcType
  PROVE  LET e == DmcClock(d)
         IN  /\ e \in DmcType
             /\ d.bits > 1 => Keeps(e, d) /\ e.bits = d.bits - 1
             /\ d.bits <= 1 => Keeps(e, Loaded(d)) /\ e.bits = BitsOfByte
<1> DEFINE up == d.shift % 2 = 1
           level == IF d.silent THEN d.level
                    ELSE IF up THEN (IF d.level <= LevelMax - 2 THEN d.level + 2 ELSE d.level)
                    ELSE IF d.level >= 2 THEN d.level - 2 ELSE d.level
           bits == IF d.bits > 0 THEN d.bits - 1 ELSE 0
           e == [d EXCEPT !.level = level, !.bits = bits]
<1>1. BitsOfByte \in Nat \ {0}
  BY RegisterAssumption
<1>2. level \in Int
  BY DEF DmcType
<1>3. bits \in 0 .. BitsOfByte /\ (bits > 0 <=> d.bits > 1) /\ (d.bits > 1 => bits = d.bits - 1)
  BY <1>1 DEF DmcType
<1>4. DmcClock(d) =
        IF bits > 0 THEN e
        ELSE IF d.filled
             THEN Fetched([e EXCEPT !.bits = BitsOfByte, !.silent = FALSE,
                                    !.shift = d.buffer, !.filled = FALSE, !.loads = @ + 1])
             ELSE [e EXCEPT !.bits = BitsOfByte, !.silent = TRUE]
  BY DEF DmcClock
<1> HIDE DEF level, bits
<1>5. e \in DmcType /\ Keeps(e, d) /\ e.bits = bits
  BY <1>2, <1>3 DEF DmcType, Keeps
<1>6. CASE bits > 0
  <2>1. DmcClock(d) = e
    BY <1>4, <1>6
  <2>2. d.bits > 1 /\ ~(d.bits <= 1)
    <3>1. d.bits \in Int
      BY <1>1 DEF DmcType
    <3> QED
      BY <1>3, <1>6, <3>1
  <2> HIDE DEF e
  <2> QED
    BY <1>3, <1>5, <2>1, <2>2
<1> HIDE DEF e
<1>7. CASE ~(bits > 0) /\ d.filled
  <2> DEFINE b == [e EXCEPT !.bits = BitsOfByte, !.silent = FALSE, !.shift = d.buffer]
  <2>1. b \in DmcType /\ Keeps(b, d) /\ b.bits = BitsOfByte
    <3>1. d.buffer \in Nat /\ BitsOfByte \in 0 .. BitsOfByte
      BY <1>1 DEF DmcType
    <3>2. b \in DmcType /\ b.bits = BitsOfByte
      BY <1>5, <3>1 DEF DmcType
    <3>3. Keeps(b, e)
      BY <1>5 DEF DmcType, Keeps
    <3> QED
      BY <1>5, <3>2, <3>3 DEF Keeps
  <2>2. [e EXCEPT !.bits = BitsOfByte, !.silent = FALSE,
                  !.shift = d.buffer, !.filled = FALSE, !.loads = @ + 1]
          = [b EXCEPT !.filled = FALSE, !.loads = @ + 1]
    BY <1>5 DEF DmcType
  <2>3. DmcClock(d) = Loaded(b)
    BY <1>4, <1>7, <2>1, <2>2 DEF Loaded, Keeps
  <2> HIDE DEF b
  <2>4. Loaded(b) \in DmcType /\ Loaded(b).bits = BitsOfByte
    BY <2>1, LoadedIs
  <2>5. Keeps(Loaded(b), Loaded(d))
    BY <2>1, LoadedAlike
  <2> QED
    BY <1>3, <1>7, <2>3, <2>4, <2>5
<1>8. CASE ~(bits > 0) /\ ~d.filled
  <2>1. DmcClock(d) = [e EXCEPT !.bits = BitsOfByte, !.silent = TRUE] /\ Loaded(d) = d
    BY <1>4, <1>8 DEF Loaded
  <2> DEFINE b == [e EXCEPT !.bits = BitsOfByte, !.silent = TRUE]
  <2>2. b \in DmcType /\ Keeps(b, d) /\ b.bits = BitsOfByte
    <3>1. BitsOfByte \in 0 .. BitsOfByte
      BY <1>1
    <3>2. b \in DmcType /\ b.bits = BitsOfByte
      BY <1>5, <3>1 DEF DmcType
    <3>3. Keeps(b, e)
      BY <1>5 DEF DmcType, Keeps
    <3> QED
      BY <1>5, <3>2, <3>3 DEF Keeps
  <2> QED
    BY <1>3, <1>8, <2>1, <2>2
<1> QED
  BY <1>6, <1>7, <1>8

(* No more clocks in a batch than a byte has bits: it begins one at most.  *)
LEMMA DmcBatched ==
  ASSUME NEW d \in DmcType, NEW n \in 0 .. BitsOfByte
  PROVE  LET e == Times(DmcClock, d, n)
         IN  e \in DmcType /\ (Keeps(e, d) \/ Keeps(e, Loaded(d)))
<1> DEFINE g == [k \in 0 .. n |-> Times(DmcClock, d, k)]
           r == IF d.bits > 1 THEN d.bits ELSE 1
           Good(k) == /\ g[k] \in DmcType
                      /\ k < r => Keeps(g[k], d) /\ g[k].bits = d.bits - k
                      /\ k >= r => Keeps(g[k], Loaded(d)) /\ g[k].bits = BitsOfByte - (k - r)
           Bad == {k \in 0 .. n : ~Good(k)}
<1>1. n \in Nat /\ BitsOfByte \in Nat \ {0} /\ n <= BitsOfByte
  BY RegisterAssumption
<1>2. g[0] = d /\ \A k \in 1 .. n : g[k] = DmcClock(g[k - 1])
  <2>1. g[0] = d
    <3>1. Times(DmcClock, d, 0) = d
      BY <1>1, DmcOneMore, Zenon
    <3>2. 0 \in 0 .. n
      BY <1>1
    <3> QED
      BY <3>1, <3>2
  <2>2. ASSUME NEW k \in 1 .. n PROVE g[k] = DmcClock(g[k - 1])
    <3>1. k - 1 \in Nat /\ (k - 1) + 1 = k /\ k - 1 \in 0 .. n /\ k \in 0 .. n
      BY <1>1
    <3>2. Times(DmcClock, d, (k - 1) + 1) = DmcClock(Times(DmcClock, d, k - 1))
      BY <3>1, DmcOneMore
    <3> QED
      BY <3>1, <3>2
  <2> QED
    BY <2>1, <2>2
<1>3. d.bits \in 0 .. BitsOfByte /\ r \in 1 .. BitsOfByte
  BY <1>1 DEF DmcType
<1> HIDE DEF g
<1>4. Good(0)
  <2>1. 0 < r /\ ~(0 >= r) /\ d.bits - 0 = d.bits
    BY <1>3
  <2>2. Keeps(d, d)
    BY DEF Keeps
  <2> QED
    BY <1>2, <2>1, <2>2
<1>5. ASSUME NEW k \in 1 .. n, Good(k - 1)
      PROVE  Good(k)
  <2> DEFINE p == g[k - 1]
  <2>1. g[k] = DmcClock(p) /\ p \in DmcType /\ k - 1 \in Nat
    BY <1>1, <1>2, <1>5
  <2>2. CASE k < r
    <3>1. Keeps(p, d) /\ p.bits = d.bits - (k - 1) /\ r = d.bits /\ p.bits > 1
      BY <1>3, <1>5, <2>2
    <3>2. g[k] \in DmcType /\ Keeps(g[k], p) /\ g[k].bits = p.bits - 1
      BY <2>1, <3>1, DmcClocked
    <3>3. Keeps(g[k], d)
      BY <3>1, <3>2 DEF Keeps
    <3>4. g[k].bits = d.bits - k /\ ~(k >= r)
      BY <1>3, <2>2, <3>1, <3>2
    <3> QED
      BY <2>2, <3>2, <3>3, <3>4
  <2>3. CASE k = r
    <3>1. Keeps(p, d) /\ p.bits = d.bits - (k - 1) /\ p.bits <= 1
      BY <1>3, <1>5, <2>3
    <3>2. g[k] \in DmcType /\ Keeps(g[k], Loaded(p)) /\ g[k].bits = BitsOfByte
      BY <2>1, <3>1, DmcClocked
    <3>3. Keeps(Loaded(p), Loaded(d))
      BY <2>1, <3>1, LoadedAlike
    <3>4. Keeps(g[k], Loaded(d))
      BY <3>2, <3>3 DEF Keeps
    <3>5. BitsOfByte - (k - r) = BitsOfByte /\ ~(k < r)
      BY <1>1, <1>3, <2>3
    <3> QED
      BY <2>3, <3>2, <3>4, <3>5
  <2>4. CASE k > r
    <3>1. Keeps(p, Loaded(d)) /\ p.bits = BitsOfByte - ((k - 1) - r)
      BY <1>3, <1>5, <2>4
    <3>2. p.bits > 1
      BY <1>1, <1>3, <2>4, <3>1
    <3>3. g[k] \in DmcType /\ Keeps(g[k], p) /\ g[k].bits = p.bits - 1
      BY <2>1, <3>2, DmcClocked
    <3>4. Keeps(g[k], Loaded(d))
      BY <3>1, <3>3 DEF Keeps
    <3>5. g[k].bits = BitsOfByte - (k - r) /\ ~(k < r)
      BY <1>1, <1>3, <2>4, <3>1, <3>3
    <3> QED
      BY <2>4, <3>3, <3>4, <3>5
  <2> QED
    BY <1>3, <2>2, <2>3, <2>4
<1> HIDE DEF Good
<1>6. Bad = {}
  <2> SUFFICES ASSUME Bad # {} PROVE FALSE
    OBVIOUS
  <2>1. Bad \in SUBSET Nat
    OBVIOUS
  <2>2. PICK k \in Bad : \A j \in Bad : k <= j
    BY <2>1, LeastNatural
  <2>3. k \in 1 .. n
    BY <1>4, <2>2
  <2>4. k - 1 \in 0 .. n /\ k - 1 \notin Bad
    BY <1>1, <2>2, <2>3
  <2> QED
    BY <1>5, <2>2, <2>3, <2>4
<1>7. Good(n)
  BY <1>1, <1>6
<1>8. Times(DmcClock, d, n) = g[n]
  BY <1>1 DEF g
<1> QED
  BY <1>1, <1>3, <1>7, <1>8 DEF Good

LEMMA DmcFires ==
  ASSUME NEW n \in 0 .. Longest, NEW c \in Nat, NEW p \in DmcPeriods
  PROVE  Fires(c, p, n) \in 0 .. BitsOfByte /\ CounterAfter(c, p, n) \in Nat
<1> DEFINE x == n - c - 1
           m == p + 1
           q == x \div m
<1>1. /\ p \in Nat /\ m \in Nat \ {0} /\ BitsOfByte \in Nat \ {0} /\ Longest \in Int
      /\ BitsOfByte * m >= Longest /\ n \in Nat /\ n <= Longest
  <2>1. Longest \in Int
    BY ClockAssumption, SMT DEF Longest
  <2> QED
    BY <2>1, RegisterAssumption DEF DmcPeriods
<1>2. CASE c >= n
  BY <1>1, <1>2 DEF Fires, CounterAfter
<1>3. CASE ~(c >= n)
  <2>1. x \in Nat /\ x < BitsOfByte * m
    <3>1. BitsOfByte * m \in Int
      BY <1>1
    <3> QED
      BY <1>1, <1>3, <3>1
  <2> HIDE DEF x
  <2>2. x = m * q + (x % m) /\ x % m \in 0 .. m - 1 /\ q \in Int
    BY <1>1, <2>1, SMT
  <2> HIDE DEF q
  <2>3. m * q < m * BitsOfByte /\ m * q > -m
    <3>1. m * q \in Int /\ m * BitsOfByte = BitsOfByte * m /\ m * BitsOfByte \in Int
      BY <1>1, <2>2, SMT
    <3> HIDE DEF m
    <3> QED
      BY <1>1, <2>1, <2>2, <3>1
  <2>4. q < BitsOfByte
    BY <1>1, <2>2, <2>3, SMT
  <2>5. q > -1
    BY <1>1, <2>2, <2>3, SMT
  <2>6. Fires(c, p, n) = 1 + q /\ CounterAfter(c, p, n) = p - (x % m)
    BY <1>3 DEF Fires, CounterAfter, x, q
  <2>7. p - (x % m) \in Nat
    BY <1>1, <2>2
  <2> QED
    BY <1>1, <2>2, <2>4, <2>5, <2>6, <2>7
<1> QED
  BY <1>2, <1>3

LEMMA DueAlike ==
  ASSUME NEW d, NEW e, Keeps(e, d), NEW q, DueIs(d, q)
  PROVE  DueIs(e, q)
<1>1. CASE d.filled
  <2>1. q = [k \in 1 .. d.remaining + 1 |-> IF k = 1 THEN d.buffer ELSE Place(d.current, k - 2)]
    BY <1>1 DEF DueIs
  <2>2. e.filled /\ e.buffer = d.buffer /\ e.current = d.current /\ e.remaining = d.remaining
    BY <1>1 DEF Keeps
  <2> QED
    BY <2>1, <2>2, DueWhenFilled
<1>2. CASE ~d.filled
  BY <1>2 DEF DueIs, Keeps
<1> QED
  BY <1>1, <1>2

-----------------------------------------------------------------------------
(* All the channels.  The frame counter and the timers of the others leave *)
(* the DMC alone.                                                          *)
IsChannels(ch) ==
  /\ ch = [pulse |-> ch.pulse, tri |-> ch.tri, noise |-> ch.noise, dmc |-> ch.dmc, frame |-> ch.frame]
  /\ ch.pulse = [i \in {1, 2} |-> ch.pulse[i]]
  /\ \A i \in {1, 2} : IsPulse(ch.pulse[i])
  /\ IsTriangle(ch.tri) /\ IsNoise(ch.noise)
  /\ ch.frame = [cycle |-> ch.frame.cycle, five |-> ch.frame.five]

LEMMA ChannelsMade ==
  ASSUME NEW f, \A i \in {1, 2} : IsPulse(f[i]), f = [i \in {1, 2} |-> f[i]],
         NEW t, IsTriangle(t), NEW n, IsNoise(n), NEW d, NEW c, NEW five
  PROVE  LET e == [pulse |-> f, tri |-> t, noise |-> n, dmc |-> d,
                   frame |-> [cycle |-> c, five |-> five]]
         IN  /\ IsChannels(e) /\ e.pulse = f /\ e.tri = t /\ e.noise = n /\ e.dmc = d
             /\ e.frame = [cycle |-> c, five |-> five] /\ e.frame.cycle = c /\ e.frame.five = five
BY DEF IsChannels

(* The same channels at another count of the frame counter.                *)
At(ch, c) == [ch EXCEPT !.frame.cycle = c]

LEMMA AtIs ==
  ASSUME NEW ch, IsChannels(ch), NEW c
  PROVE  /\ At(ch, c) = [pulse |-> ch.pulse, tri |-> ch.tri, noise |-> ch.noise, dmc |-> ch.dmc,
                         frame |-> [cycle |-> c, five |-> ch.frame.five]]
         /\ IsChannels(At(ch, c)) /\ At(ch, ch.frame.cycle) = ch
         /\ At(ch, c).frame.cycle = c /\ At(ch, c).frame.five = ch.frame.five
         /\ At(ch, c).pulse = ch.pulse /\ At(ch, c).tri = ch.tri /\ At(ch, c).noise = ch.noise
         /\ At(ch, c).dmc = ch.dmc
<1> DEFINE e == [pulse |-> ch.pulse, tri |-> ch.tri, noise |-> ch.noise, dmc |-> ch.dmc,
                 frame |-> [cycle |-> c, five |-> ch.frame.five]]
<1>1. At(ch, c) = e
  BY DEF At, IsChannels
<1>2. /\ IsChannels(e) /\ e.frame.cycle = c /\ e.frame.five = ch.frame.five
      /\ e.pulse = ch.pulse /\ e.tri = ch.tri /\ e.noise = ch.noise /\ e.dmc = ch.dmc
  BY ChannelsMade DEF IsChannels
<1>3. At(ch, ch.frame.cycle) = ch
  BY DEF At, IsChannels
<1> HIDE DEF e
<1>4. At(ch, c) = [pulse |-> ch.pulse, tri |-> ch.tri, noise |-> ch.noise, dmc |-> ch.dmc,
                   frame |-> [cycle |-> c, five |-> ch.frame.five]]
  BY <1>1 DEF e
<1> QED
  BY <1>1, <1>2, <1>3, <1>4

LEMMA AtTwice ==
  ASSUME NEW ch, IsChannels(ch), NEW c, NEW d
  PROVE  At(At(ch, c), d) = At(ch, d)
<1> DEFINE e == At(ch, c)
<1>1. IsChannels(e) /\ e.pulse = ch.pulse /\ e.tri = ch.tri /\ e.noise = ch.noise /\ e.dmc = ch.dmc
      /\ e.frame.five = ch.frame.five
  BY AtIs
<1> HIDE DEF e
<1>2. At(e, d) = [pulse |-> e.pulse, tri |-> e.tri, noise |-> e.noise, dmc |-> e.dmc,
                  frame |-> [cycle |-> d, five |-> e.frame.five]]
  BY <1>1, AtIs
<1>3. At(ch, d) = [pulse |-> ch.pulse, tri |-> ch.tri, noise |-> ch.noise, dmc |-> ch.dmc,
                   frame |-> [cycle |-> d, five |-> ch.frame.five]]
  BY AtIs
<1> QED
  BY <1>1, <1>2, <1>3 DEF e

(* What the frame counter clocks does not depend on its own count.         *)
LEMMA QuarterKeeps ==
  ASSUME NEW ch, IsChannels(ch)
  PROVE  /\ IsChannels(Quarter(ch)) /\ Quarter(ch).dmc = ch.dmc /\ Quarter(ch).frame = ch.frame
         /\ \A c : Quarter(At(ch, c)) = At(Quarter(ch), c)
<1> DEFINE F(e) == [i \in {1, 2} |-> Envelope(e.pulse[i])]
           Made(e) == [pulse |-> F(e), tri |-> Linear(e.tri), noise |-> Envelope(e.noise),
                       dmc |-> e.dmc, frame |-> [cycle |-> e.frame.cycle, five |-> e.frame.five]]
<1>1. ASSUME NEW e, IsChannels(e)
      PROVE  /\ Quarter(e) = Made(e) /\ IsChannels(Made(e))
             /\ Made(e).dmc = e.dmc /\ Made(e).frame = e.frame /\ Made(e).pulse = F(e)
             /\ Made(e).tri = Linear(e.tri) /\ Made(e).noise = Envelope(e.noise)
  <2> DEFINE f == F(e)
  <2>1. /\ \A i \in {1, 2} : IsPulse(f[i])
        /\ IsTriangle(Linear(e.tri)) /\ IsNoise(Envelope(e.noise))
    BY <1>1, PulseClocked, TriangleClocked, NoiseClocked DEF IsChannels
  <2>2. Quarter(e) = [e EXCEPT !.pulse = f, !.tri = Linear(e.tri), !.noise = Envelope(e.noise)]
    BY <1>1 DEF Quarter, IsChannels
  <2>3. f = [i \in {1, 2} |-> f[i]]
    OBVIOUS
  <2> HIDE DEF f
  <2>4. Quarter(e) = [pulse |-> f, tri |-> Linear(e.tri), noise |-> Envelope(e.noise), dmc |-> e.dmc,
                      frame |-> [cycle |-> e.frame.cycle, five |-> e.frame.five]]
    BY <1>1, <2>2 DEF IsChannels
  <2>5. e.frame = [cycle |-> e.frame.cycle, five |-> e.frame.five]
    BY <1>1 DEF IsChannels
  <2>6. Made(e) = [pulse |-> f, tri |-> Linear(e.tri), noise |-> Envelope(e.noise), dmc |-> e.dmc,
                   frame |-> [cycle |-> e.frame.cycle, five |-> e.frame.five]]
    BY DEF f
  <2> HIDE DEF Made, F
  <2>7. /\ IsChannels(Made(e)) /\ Made(e).dmc = e.dmc /\ Made(e).pulse = f
        /\ Made(e).frame = [cycle |-> e.frame.cycle, five |-> e.frame.five]
        /\ Made(e).tri = Linear(e.tri) /\ Made(e).noise = Envelope(e.noise)
    BY <2>1, <2>3, <2>6, ChannelsMade
  <2> QED
    BY <2>4, <2>5, <2>6, <2>7 DEF f
<1>2. ASSUME NEW c PROVE Quarter(At(ch, c)) = At(Quarter(ch), c)
  <2> DEFINE e == At(ch, c)
             m == Made(ch)
  <2>1. IsChannels(e) /\ e.pulse = ch.pulse /\ e.tri = ch.tri /\ e.noise = ch.noise /\ e.dmc = ch.dmc
        /\ e.frame.five = ch.frame.five /\ e.frame.cycle = c
    BY AtIs
  <2> HIDE DEF e
  <2>2. F(e) = F(ch)
    BY <2>1
  <2> HIDE DEF F
  <2>3. Quarter(e) = [pulse |-> F(ch), tri |-> Linear(ch.tri), noise |-> Envelope(ch.noise),
                      dmc |-> ch.dmc, frame |-> [cycle |-> c, five |-> ch.frame.five]]
    <3>1. Quarter(e) = Made(e)
      BY <1>1, <2>1
    <3>2. Made(e) = [pulse |-> F(ch), tri |-> Linear(ch.tri), noise |-> Envelope(ch.noise),
                     dmc |-> ch.dmc, frame |-> [cycle |-> c, five |-> ch.frame.five]]
      BY <2>1, <2>2
    <3> QED
      BY <3>1, <3>2
  <2> HIDE DEF Made
  <2>4. /\ Quarter(ch) = m /\ IsChannels(m) /\ m.dmc = ch.dmc /\ m.frame = ch.frame /\ m.pulse = F(ch)
        /\ m.tri = Linear(ch.tri) /\ m.noise = Envelope(ch.noise)
    BY <1>1
  <2> HIDE DEF m
  <2>5. At(m, c) = [pulse |-> m.pulse, tri |-> m.tri, noise |-> m.noise, dmc |-> m.dmc,
                    frame |-> [cycle |-> c, five |-> m.frame.five]]
    BY <2>4, AtIs
  <2> QED
    BY <2>3, <2>4, <2>5 DEF e
<1> HIDE DEF Made, F
<1> QED
  BY <1>1, <1>2

LEMMA HalfKeeps ==
  ASSUME NEW ch, IsChannels(ch)
  PROVE  /\ IsChannels(Half(ch)) /\ Half(ch).dmc = ch.dmc /\ Half(ch).frame = ch.frame
         /\ \A c : Half(At(ch, c)) = At(Half(ch), c)
<1> DEFINE F(e) == [i \in {1, 2} |-> Sweep(CountLength(e.pulse[i]), i)]
           Made(e) == [pulse |-> F(e), tri |-> CountLength(e.tri), noise |-> CountLength(e.noise),
                       dmc |-> e.dmc, frame |-> [cycle |-> e.frame.cycle, five |-> e.frame.five]]
<1>1. ASSUME NEW e, IsChannels(e)
      PROVE  /\ Half(e) = Made(e) /\ IsChannels(Made(e))
             /\ Made(e).dmc = e.dmc /\ Made(e).frame = e.frame /\ Made(e).pulse = F(e)
             /\ Made(e).tri = CountLength(e.tri) /\ Made(e).noise = CountLength(e.noise)
  <2> DEFINE f == F(e)
  <2>1. /\ \A i \in {1, 2} : IsPulse(f[i])
        /\ IsTriangle(CountLength(e.tri)) /\ IsNoise(CountLength(e.noise))
    BY <1>1, PulseClocked, PulseSwept, TriangleClocked, NoiseClocked DEF IsChannels
  <2>2. Half(e) = [e EXCEPT !.pulse = f, !.tri = CountLength(e.tri), !.noise = CountLength(e.noise)]
    BY <1>1 DEF Half, IsChannels
  <2>3. f = [i \in {1, 2} |-> f[i]]
    OBVIOUS
  <2> HIDE DEF f
  <2>4. Half(e) = [pulse |-> f, tri |-> CountLength(e.tri), noise |-> CountLength(e.noise),
                   dmc |-> e.dmc, frame |-> [cycle |-> e.frame.cycle, five |-> e.frame.five]]
    BY <1>1, <2>2 DEF IsChannels
  <2>5. e.frame = [cycle |-> e.frame.cycle, five |-> e.frame.five]
    BY <1>1 DEF IsChannels
  <2>6. Made(e) = [pulse |-> f, tri |-> CountLength(e.tri), noise |-> CountLength(e.noise),
                   dmc |-> e.dmc, frame |-> [cycle |-> e.frame.cycle, five |-> e.frame.five]]
    BY DEF f
  <2> HIDE DEF Made, F
  <2>7. /\ IsChannels(Made(e)) /\ Made(e).dmc = e.dmc /\ Made(e).pulse = f
        /\ Made(e).frame = [cycle |-> e.frame.cycle, five |-> e.frame.five]
        /\ Made(e).tri = CountLength(e.tri) /\ Made(e).noise = CountLength(e.noise)
    BY <2>1, <2>3, <2>6, ChannelsMade
  <2> QED
    BY <2>4, <2>5, <2>6, <2>7 DEF f
<1>2. ASSUME NEW c PROVE Half(At(ch, c)) = At(Half(ch), c)
  <2> DEFINE e == At(ch, c)
             m == Made(ch)
  <2>1. IsChannels(e) /\ e.pulse = ch.pulse /\ e.tri = ch.tri /\ e.noise = ch.noise /\ e.dmc = ch.dmc
        /\ e.frame.five = ch.frame.five /\ e.frame.cycle = c
    BY AtIs
  <2> HIDE DEF e
  <2>2. F(e) = F(ch)
    BY <2>1
  <2> HIDE DEF F
  <2>3. Half(e) = [pulse |-> F(ch), tri |-> CountLength(ch.tri), noise |-> CountLength(ch.noise),
                   dmc |-> ch.dmc, frame |-> [cycle |-> c, five |-> ch.frame.five]]
    <3>1. Half(e) = Made(e)
      BY <1>1, <2>1
    <3>2. Made(e) = [pulse |-> F(ch), tri |-> CountLength(ch.tri), noise |-> CountLength(ch.noise),
                     dmc |-> ch.dmc, frame |-> [cycle |-> c, five |-> ch.frame.five]]
      BY <2>1, <2>2
    <3> QED
      BY <3>1, <3>2
  <2> HIDE DEF Made
  <2>4. /\ Half(ch) = m /\ IsChannels(m) /\ m.dmc = ch.dmc /\ m.frame = ch.frame /\ m.pulse = F(ch)
        /\ m.tri = CountLength(ch.tri) /\ m.noise = CountLength(ch.noise)
    BY <1>1
  <2> HIDE DEF m
  <2>5. At(m, c) = [pulse |-> m.pulse, tri |-> m.tri, noise |-> m.noise, dmc |-> m.dmc,
                    frame |-> [cycle |-> c, five |-> m.frame.five]]
    BY <2>4, AtIs
  <2> QED
    BY <2>3, <2>4, <2>5 DEF e
<1> HIDE DEF Made, F
<1> QED
  BY <1>1, <1>2

(* The count of the frame counter stays below its last step.               *)
End(ch) == IF ch.frame.five THEN LongStep ELSE FrameSteps[4]
InFrame(ch) == ch.frame.five \in BOOLEAN /\ ch.frame.cycle \in Nat /\ ch.frame.cycle < End(ch)

LEMMA StepsNatural == \A i \in 1 .. 4 : FrameSteps[i] \in Nat
<1>1. FrameSteps \in Seq(Nat) /\ Len(FrameSteps) = 4
  BY TableAssumption
<1>2. \A s \in Seq(Nat) : \A i \in 1 .. Len(s) : s[i] \in Nat
  OBVIOUS
<1> QED
  BY <1>1, <1>2

LEMMA FrameKeeps ==
  ASSUME NEW ch, IsChannels(ch), NEW n
  PROVE  /\ IsChannels(Frame(ch, n)) /\ Frame(ch, n).dmc = ch.dmc
         /\ Frame(ch, n).frame.five = ch.frame.five
         /\ InFrame(ch) /\ n \in Nat => InFrame(Frame(ch, n))
<1> DEFINE new == ch.frame.cycle + n
           q == Quarter(ch)
           h == Half(q)
<1>1. /\ IsChannels(q) /\ q.dmc = ch.dmc /\ IsChannels(h) /\ h.dmc = ch.dmc
      /\ q.frame = ch.frame /\ h.frame = ch.frame
  BY QuarterKeeps, HalfKeeps
<1>3. /\ ch.frame.cycle < End(ch) /\ new >= End(ch) => Frame(ch, n) = At(h, 0)
      /\ ~(ch.frame.cycle < End(ch) /\ new >= End(ch)) =>
           Frame(ch, n) = At(q, new) \/ Frame(ch, n) = At(h, new) \/ Frame(ch, n) = At(ch, new)
  BY DEF Frame, At, End
<1> HIDE DEF q, h
<1>4. PICK e, c : /\ Frame(ch, n) = At(e, c) /\ IsChannels(e) /\ e.dmc = ch.dmc /\ e.frame = ch.frame
                  /\ \/ c = 0
                     \/ c = new /\ ~(ch.frame.cycle < End(ch) /\ new >= End(ch))
  BY <1>1, <1>3, Zenon
<1>5. /\ IsChannels(At(e, c)) /\ At(e, c).dmc = ch.dmc /\ At(e, c).frame.five = ch.frame.five
      /\ At(e, c).frame.cycle = c
  BY <1>4, AtIs
<1>6. ASSUME InFrame(ch), n \in Nat PROVE InFrame(Frame(ch, n))
  <2>1. End(At(e, c)) = End(ch)
    BY <1>5 DEF End
  <2>2. ch.frame.cycle \in Nat /\ ch.frame.cycle < End(ch) /\ ch.frame.five \in BOOLEAN /\ End(ch) \in Int
    <3>1. LongStep \in Int /\ FrameSteps[4] \in Int
      <4>1. LongStep \in Int
        BY FrameAssumption
      <4>2. FrameSteps[4] \in Int
        BY StepsNatural
      <4> QED
        BY <4>1, <4>2
    <3> QED
      BY <1>6, <3>1 DEF InFrame, End
  <2>3. c \in Nat /\ c < End(ch)
    BY <1>4, <1>6, <2>2
  <2> QED
    BY <1>4, <1>5, <2>1, <2>2, <2>3 DEF InFrame
<1> QED
  BY <1>4, <1>5, <1>6

(* A batch, channel by channel; with no APU cycles it leaves what is       *)
(* clocked by them.                                                        *)
DmcBatch(d, n) == Advance(Times(DmcClock, d, Fires(d.counter, d.period, n)), n)

Together(f, n, a) ==
  [pulse |-> [i \in {1, 2} |-> PulseBatch(f.pulse[i], a)], tri |-> TriangleBatch(f.tri, n),
   noise |-> NoiseBatch(f.noise, a), dmc |-> DmcBatch(f.dmc, n),
   frame |-> [cycle |-> f.frame.cycle, five |-> f.frame.five]]

LEMMA Idle ==
  /\ \A p : IsPulse(p) => PulseBatch(p, 0) = p
  /\ \A c : IsNoise(c) => NoiseBatch(c, 0) = c
<1>1. ASSUME NEW p, IsPulse(p) PROVE PulseBatch(p, 0) = p
  <2>1. p.counter \in Nat /\ p.period \in Nat /\ p.step \in 0 .. 7
    BY <1>1, RegisterAssumption DEF IsPulse
  <2>2. CounterAfter(p.counter, p.period, 0) = p.counter /\ Fires(p.counter, p.period, 0) = 0
    BY <2>1, TimerTyped
  <2>3. Advance(p, 0) = p
    BY <1>1, <2>2 DEF Advance, IsPulse, PulseFields
  <2>4. (p.step + 0) % 8 = p.step
    BY <2>1
  <2> QED
    BY <1>1, <2>2, <2>3, <2>4 DEF PulseBatch, IsPulse, PulseFields
<1>2. ASSUME NEW c, IsNoise(c) PROVE NoiseBatch(c, 0) = c
  <2>1. c.counter \in Nat /\ c.period \in Nat
    BY <1>2 DEF IsNoise, NoiseFields
  <2>2. CounterAfter(c.counter, c.period, 0) = c.counter /\ Fires(c.counter, c.period, 0) = 0
    BY <2>1, TimerTyped
  <2>3. Times(Shift, c, 0) = c
    BY ShiftOneMore
  <2>4. Advance(c, 0) = c
    BY <1>2, <2>2 DEF Advance, IsNoise, NoiseFields
  <2> QED
    BY <2>2, <2>3, <2>4 DEF NoiseBatch
<1> QED
  BY <1>1, <1>2

LEMMA BatchedIs ==
  ASSUME NEW ch, IsChannels(ch), NEW n, NEW a \in Nat
  PROVE  Batched(ch, n, a) = Together(IF a > 0 THEN Frame(ch, a) ELSE ch, n, a)
<1> DEFINE f == IF a > 0 THEN Frame(ch, a) ELSE ch
           t == [f EXCEPT
                   !.pulse = [i \in {1, 2} |-> PulseBatch(@[i], a)],
                   !.noise = Advance(Times(Shift, @, Fires(@.counter, @.period, a)), a)]
           b == IF a > 0 THEN t ELSE f
           p == [i \in {1, 2} |-> PulseBatch(f.pulse[i], a)]
           noise == NoiseBatch(f.noise, a)
<1>1. IsChannels(f)
  BY FrameKeeps
<1>2. t = [f EXCEPT !.pulse = p, !.noise = noise]
  BY <1>1 DEF IsChannels, NoiseBatch
<1>3. Batched(ch, n, a)
        = [b EXCEPT !.tri = TriangleBatch(@, n),
                    !.dmc = Advance(Times(DmcClock, @, Fires(@.counter, @.period, n)), n)]
  BY DEF Batched
<1>4. ~(a > 0) => p = f.pulse /\ noise = f.noise
  <2> HIDE DEF f
  <2>1. ASSUME ~(a > 0) PROVE p = f.pulse /\ noise = f.noise
    <3>1. a = 0
      BY <2>1
    <3>2. \A i \in {1, 2} : PulseBatch(f.pulse[i], a) = f.pulse[i]
      BY <1>1, <3>1, Idle DEF IsChannels
    <3>3. p = [i \in {1, 2} |-> f.pulse[i]]
      BY <3>2
    <3> QED
      BY <1>1, <3>1, <3>3, Idle DEF IsChannels
  <2> QED
    BY <2>1
<1> HIDE DEF t, f, p, noise
<1>5. b = [pulse |-> p, tri |-> f.tri, noise |-> noise, dmc |-> f.dmc, frame |-> f.frame]
  <2>1. CASE a > 0
    BY <1>1, <1>2, <2>1 DEF IsChannels
  <2>2. CASE ~(a > 0)
    BY <1>1, <1>4, <2>2 DEF IsChannels
  <2> QED
    BY <2>1, <2>2
<1> HIDE DEF b
<1> DEFINE tri == TriangleBatch(f.tri, n)
           dmc == DmcBatch(f.dmc, n)
<1>6. Batched(ch, n, a) = [b EXCEPT !.tri = tri, !.dmc = dmc]
  BY <1>3, <1>5 DEF DmcBatch
<1> HIDE DEF tri, dmc
<1>7. Batched(ch, n, a) = [pulse |-> p, tri |-> tri, noise |-> noise, dmc |-> dmc, frame |-> f.frame]
  BY <1>5, <1>6
<1>8. f.frame = [cycle |-> f.frame.cycle, five |-> f.frame.five]
  BY <1>1 DEF IsChannels
<1> QED
  BY <1>7, <1>8 DEF Together, p, tri, noise, dmc, f

LEMMA ChannelsBatched ==
  ASSUME NEW ch, IsChannels(ch), ch.dmc \in DmcType, NEW n \in 0 .. Longest, NEW a \in Nat
  PROVE  LET e == Batched(ch, n, a)
         IN  /\ IsChannels(e) /\ e.dmc \in DmcType /\ (InFrame(ch) => InFrame(e))
             /\ \/ e.dmc.loads = ch.dmc.loads /\ \A q : DueIs(ch.dmc, q) => DueIs(e.dmc, q)
                \/ /\ e.dmc.loads > ch.dmc.loads /\ ch.dmc.filled
                   /\ \A q : DueIs(Loaded(ch.dmc), q) => DueIs(e.dmc, q)
<1> DEFINE d == ch.dmc
           f == IF a > 0 THEN Frame(ch, a) ELSE ch
           fires == Fires(d.counter, d.period, n)
           r == Times(DmcClock, d, fires)
           s == Advance(r, n)
<1>1. IsChannels(f) /\ f.dmc = d /\ (InFrame(ch) => InFrame(f))
  BY FrameKeeps
<1>2. fires \in 0 .. BitsOfByte /\ CounterAfter(d.counter, d.period, n) \in Nat
  BY DmcFires DEF DmcType
<1>3. r \in DmcType /\ (Keeps(r, d) \/ Keeps(r, Loaded(d)))
  BY <1>2, DmcBatched
<1>4. /\ IsChannels(Batched(ch, n, a)) /\ Batched(ch, n, a).dmc = s
      /\ InFrame(ch) => InFrame(Batched(ch, n, a))
  <2> DEFINE p == [i \in {1, 2} |-> PulseBatch(f.pulse[i], a)]
             tri == TriangleBatch(f.tri, n)
             noise == NoiseBatch(f.noise, a)
  <2>1. Batched(ch, n, a) = Together(f, n, a)
    BY BatchedIs
  <2>2. n \in Nat
    <3>1. Longest \in Int
      BY ClockAssumption, SMT DEF Longest
    <3> QED
      BY <3>1
  <2> HIDE DEF f
  <2>3. \A i \in {1, 2} : IsPulse(p[i])
    BY <1>1, PulseAdvanced DEF IsChannels
  <2>4. p = [i \in {1, 2} |-> p[i]] /\ IsTriangle(tri) /\ IsNoise(noise)
    BY <1>1, <2>2, TriangleAdvanced, NoiseAdvanced DEF IsChannels
  <2>5. s = DmcBatch(f.dmc, n)
    BY <1>1 DEF DmcBatch
  <2> HIDE DEF s
  <2>6. Together(f, n, a)
          = [pulse |-> p, tri |-> tri, noise |-> noise, dmc |-> s,
             frame |-> [cycle |-> f.frame.cycle, five |-> f.frame.five]]
    BY <2>5 DEF Together
  <2> HIDE DEF p, tri, noise
  <2> DEFINE e == Together(f, n, a)
  <2>7. IsChannels(e) /\ e.dmc = s /\ e.frame.cycle = f.frame.cycle /\ e.frame.five = f.frame.five
    BY <2>3, <2>4, <2>6, ChannelsMade
  <2> HIDE DEF e
  <2>8. InFrame(f) => InFrame(e)
    BY <2>7 DEF InFrame, End
  <2> QED
    BY <1>1, <2>1, <2>7, <2>8 DEF e
<1> HIDE DEF r, f, fires
<1>5. s \in DmcType /\ s.filled = r.filled /\ s.buffer = r.buffer /\ s.current = r.current
      /\ s.remaining = r.remaining /\ s.loads = r.loads
  <2>1. CounterAfter(r.counter, r.period, n) \in Nat
    <3>1. r.counter = d.counter /\ r.period = d.period
      BY <1>3, LoadedIs DEF Keeps
    <3> QED
      BY <1>2, <3>1
  <2> DEFINE c == CounterAfter(r.counter, r.period, n)
  <2>2. s = [r EXCEPT !.counter = c]
    BY <1>3 DEF Advance, DmcType
  <2> HIDE DEF c, s
  <2> QED
    BY <1>3, <2>1, <2>2 DEF DmcType, c
<1> HIDE DEF s
<1>6. ASSUME NEW x, Keeps(r, x), NEW q, DueIs(x, q)
      PROVE  DueIs(s, q)
  <2>1. DueIs(r, q)
    BY <1>6, DueAlike
  <2>2. CASE r.filled
    <3>1. q = [k \in 1 .. r.remaining + 1 |-> IF k = 1 THEN r.buffer ELSE Place(r.current, k - 2)]
      BY <2>1, <2>2 DEF DueIs
    <3>2. s.filled
      BY <1>5, <2>2
    <3> QED
      BY <1>5, <3>1, <3>2, DueWhenFilled
  <2>3. CASE ~r.filled
    BY <1>5, <2>1, <2>3 DEF DueIs
  <2> QED
    BY <2>2, <2>3
<1>7. CASE Keeps(r, d)
  <2>1. s.loads = d.loads
    BY <1>5, <1>7 DEF Keeps
  <2> QED
    BY <1>4, <1>5, <1>6, <1>7, <2>1
<1>8. CASE Keeps(r, Loaded(d)) /\ d.filled
  <2>1. s.loads > d.loads
    <3>1. s.loads = d.loads + 1 /\ d.loads \in Nat
      BY <1>5, <1>8, LoadedIs DEF Keeps, DmcType
    <3> QED
      BY <3>1
  <2> QED
    BY <1>4, <1>5, <1>6, <1>8, <2>1
<1>9. CASE Keeps(r, Loaded(d)) /\ ~d.filled
  <2>1. Keeps(r, d)
    BY <1>9 DEF Loaded
  <2> QED
    BY <1>7, <2>1
<1> QED
  BY <1>3, <1>7, <1>8, <1>9

Most == (Longest + 1) \div 2

LEMMA Geometry ==
  /\ Most \in Nat \ {0} /\ LongStep \in Nat /\ LongStep > 0
  /\ \A i \in 1 .. 4 : FrameSteps[i] \in Nat /\ FrameSteps[i] > 0
  /\ FrameSteps[1] >= Most /\ FrameSteps[2] - FrameSteps[1] >= Most
  /\ FrameSteps[3] - FrameSteps[2] >= Most /\ FrameSteps[4] - FrameSteps[3] >= Most
  /\ LongStep - FrameSteps[3] >= Most
<1>1. Most \in Nat \ {0}
  <2>1. Clock \in Nat \ {0} /\ Rate \in Nat \ {0}
    BY ClockAssumption
  <2>2. Longest \in Nat \ {0}
    <3>1. Clock + Rate - 1 \in Nat \ {0}
      BY <2>1
    <3> QED
      BY <2>1, RoundedUp DEF Longest
  <2> QED
    BY <2>2, SMT DEF Most
<1>2. \A i \in 1 .. 4 : FrameSteps[i] \in Nat
  BY StepsNatural
<1>3. FrameSteps[1] >= Most /\ LongStep \in Nat /\ LongStep >= FrameSteps[4]
  BY FrameAssumption DEF Most
<1>4. \A i \in 1 .. 3 : FrameSteps[i + 1] - FrameSteps[i] >= Most
  BY FrameAssumption DEF Most
<1>5. /\ FrameSteps[2] - FrameSteps[1] >= Most /\ FrameSteps[3] - FrameSteps[2] >= Most
      /\ FrameSteps[4] - FrameSteps[3] >= Most
  <2>1. 1 + 1 = 2 /\ 2 + 1 = 3 /\ 3 + 1 = 4
    OBVIOUS
  <2> QED
    BY <1>4, <2>1
<1>6. /\ FrameSteps[1] \in Nat /\ FrameSteps[2] \in Nat /\ FrameSteps[3] \in Nat
      /\ FrameSteps[4] \in Nat
  BY <1>2
<1>7. LongStep - FrameSteps[3] >= Most /\ LongStep > 0
  BY <1>1, <1>3, <1>5, <1>6
<1>8. \A i \in 1 .. 4 : FrameSteps[i] > 0
  <2>1. \A i \in 1 .. 4 : i = 1 \/ i = 2 \/ i = 3 \/ i = 4
    OBVIOUS
  <2> QED
    BY <1>1, <1>3, <1>5, <1>6, <2>1
<1> QED
  BY <1>1, <1>2, <1>3, <1>5, <1>7, <1>8

(* The frame counter, k cycles on: what it has clocked, and its count.     *)
Passes(ch, k, t) == ch.frame.cycle < t /\ ch.frame.cycle + k >= t

Clocked(ch, k) ==
  IF Passes(ch, k, End(ch)) THEN Half(Quarter(ch))
  ELSE IF Passes(ch, k, FrameSteps[3]) THEN Quarter(ch)
  ELSE IF Passes(ch, k, FrameSteps[2]) THEN Half(Quarter(ch))
  ELSE IF Passes(ch, k, FrameSteps[1]) THEN Quarter(ch) ELSE ch

CycleAfter(ch, k) ==
  IF Passes(ch, k, End(ch)) THEN ch.frame.cycle + k - End(ch) ELSE ch.frame.cycle + k

LEMMA ClockedKeeps ==
  ASSUME NEW ch, IsChannels(ch), NEW k
  PROVE  IsChannels(Clocked(ch, k)) /\ Clocked(ch, k).frame = ch.frame
BY QuarterKeeps, HalfKeeps DEF Clocked

LEMMA FrameIs ==
  ASSUME NEW ch, IsChannels(ch), NEW k
  PROVE  Frame(ch, k) = At(Clocked(ch, k),
                           IF Passes(ch, k, End(ch)) THEN 0 ELSE ch.frame.cycle + k)
BY DEF Frame, At, Clocked, Passes, End

(* One cycle of the reference, which looks at the count alone.             *)
LEMMA FrameCycleIs ==
  ASSUME NEW e, IsChannels(e), NEW c \in Nat
  PROVE  LET n == c + 1
             next == FrameCycle(At(e, c))
         IN  /\ n = End(e) => next = At(Half(Quarter(e)), 0)
             /\ n # End(e) /\ n \in {FrameSteps[1], FrameSteps[3]} => next = At(Quarter(e), n)
             /\ n # End(e) /\ n = FrameSteps[2] => next = At(Half(Quarter(e)), n)
             /\ n \notin {End(e), FrameSteps[1], FrameSteps[2], FrameSteps[3]} => next = At(e, n)
<1> DEFINE n == c + 1
           x == At(e, c)
           y == At(x, n)
<1>1. /\ IsChannels(x) /\ x.frame.cycle = c /\ x.frame.five = e.frame.five /\ End(x) = End(e)
      /\ y = At(e, n)
  BY AtIs, AtTwice DEF End
<1>2. FrameCycle(x) = CASE n = End(e) -> At(Half(Quarter(y)), 0)
                        [] n \in {FrameSteps[1], FrameSteps[3]} -> Quarter(y)
                        [] n = FrameSteps[2] -> Half(Quarter(y))
                        [] OTHER -> y
  BY <1>1 DEF FrameCycle, At, End
<1>3. FrameSteps[2] \notin {FrameSteps[1], FrameSteps[3]} /\ End(e) \notin {FrameSteps[1], FrameSteps[2], FrameSteps[3]}
  <2>1. /\ FrameSteps[1] \in Nat /\ FrameSteps[2] \in Nat /\ FrameSteps[3] \in Nat
        /\ FrameSteps[4] \in Nat
    BY StepsNatural
  <2> QED
    BY <2>1, Geometry DEF End
<1>4. IsChannels(Quarter(e)) /\ IsChannels(Half(Quarter(e)))
  BY QuarterKeeps, HalfKeeps
<1>5. Quarter(y) = At(Quarter(e), n) /\ Half(Quarter(y)) = At(Half(Quarter(e)), n)
  BY <1>1, <1>4, QuarterKeeps, HalfKeeps
<1>6. At(Half(Quarter(y)), 0) = At(Half(Quarter(e)), 0)
  BY <1>4, <1>5, AtTwice
<1> HIDE DEF x, y, n
<1>7. CASE n = End(e)
  <2>1. FrameCycle(x) = At(Half(Quarter(y)), 0)
    BY <1>2, <1>3, <1>7
  <2> QED
    BY <1>3, <1>6, <1>7, <2>1 DEF n, x
<1>8. CASE n # End(e) /\ n \in {FrameSteps[1], FrameSteps[3]}
  <2>1. FrameCycle(x) = Quarter(y)
    BY <1>2, <1>3, <1>8
  <2> QED
    BY <1>3, <1>5, <1>8, <2>1 DEF n, x
<1>9. CASE n # End(e) /\ n = FrameSteps[2]
  <2>1. FrameCycle(x) = Half(Quarter(y))
    BY <1>2, <1>3, <1>9
  <2> QED
    BY <1>3, <1>5, <1>9, <2>1 DEF n, x
<1>10. CASE n \notin {End(e), FrameSteps[1], FrameSteps[2], FrameSteps[3]}
  <2>1. FrameCycle(x) = y
    BY <1>2, <1>10
  <2> QED
    BY <1>1, <1>10, <2>1 DEF n, x
<1> QED
  BY <1>7, <1>8, <1>9, <1>10 DEF n

(* At most one of the steps is passed in as many cycles as a batch can     *)
(* have: once one is, the next is out of reach.                            *)
LEMMA StepsApart ==
  ASSUME NEW ch, InFrame(ch), NEW k \in Nat, k + 1 <= Most,
         NEW t \in {FrameSteps[1], FrameSteps[2], FrameSteps[3], End(ch)}, Passes(ch, k, t)
  PROVE  LET steps == {FrameSteps[1], FrameSteps[2], FrameSteps[3], End(ch)}
         IN  /\ CycleAfter(ch, k) + 1 \notin steps
             /\ CycleAfter(ch, k + 1) = CycleAfter(ch, k) + 1
             /\ \A u \in steps : Passes(ch, k + 1, u) = Passes(ch, k, u)
<1> DEFINE a == FrameSteps[1]
           b == FrameSteps[2]
           c == FrameSteps[3]
           d == End(ch)
           m == Most
           old == ch.frame.cycle
<1>1. a \in Nat /\ b \in Nat /\ c \in Nat
  BY StepsNatural
<1>2. d \in Nat /\ d - c >= m /\ m \in Nat /\ a >= m /\ b - a >= m /\ c - b >= m
  <2>1. LongStep \in Nat /\ FrameSteps[4] \in Nat
    BY Geometry, StepsNatural
  <2> QED
    BY <2>1, Geometry DEF End
<1>3. old \in Nat /\ old < d
  BY DEF InFrame
<1>4. t \in {a, b, c, d} /\ old < t /\ old + k >= t
  BY DEF Passes
<1> HIDE DEF a, b, c, d, m, old
<1>5. k + 1 <= m
  BY DEF m
<1>6. \A u \in {a, b, c, d} : (old < u /\ old + (k + 1) >= u) <=> (old < u /\ old + k >= u)
  BY <1>1, <1>2, <1>3, <1>4, <1>5
<1>7. CASE old + k >= d
  <2>1. old + k - d + 1 \notin {a, b, c, d}
    BY <1>1, <1>2, <1>3, <1>4, <1>5, <1>7
  <2>2. CycleAfter(ch, k) = old + k - d /\ CycleAfter(ch, k + 1) = old + (k + 1) - d
    <3>1. old < d /\ old + (k + 1) >= d
      BY <1>2, <1>3, <1>7
    <3> QED
      BY <1>7, <3>1 DEF CycleAfter, Passes, old, d
  <2>3. old + (k + 1) - d = (old + k - d) + 1
    BY <1>2, <1>3
  <2> QED
    BY <1>6, <2>1, <2>2, <2>3 DEF Passes, a, b, c, d, old
<1>8. CASE ~(old + k >= d)
  <2>1. old + k + 1 \notin {a, b, c, d}
    BY <1>1, <1>2, <1>3, <1>4, <1>5, <1>8
  <2>2. CycleAfter(ch, k) = old + k /\ CycleAfter(ch, k + 1) = old + (k + 1)
    <3>1. ~(old + (k + 1) >= d)
      BY <1>2, <1>3, <1>8, <2>1
    <3> QED
      BY <1>8, <3>1 DEF CycleAfter, Passes, old, d
  <2>3. old + (k + 1) = (old + k) + 1
    BY <1>3
  <2> QED
    BY <1>6, <2>1, <2>2, <2>3 DEF Passes, a, b, c, d, old
<1> QED
  BY <1>7, <1>8

Framed(ch, k) == At(Clocked(ch, k), CycleAfter(ch, k))

LEMMA FramedOnce ==
  ASSUME NEW ch, IsChannels(ch), InFrame(ch), NEW k \in Nat, k + 1 <= Most
  PROVE  FrameCycle(Framed(ch, k)) = Framed(ch, k + 1)
<1> DEFINE steps == {FrameSteps[1], FrameSteps[2], FrameSteps[3], End(ch)}
           e == Clocked(ch, k)
           c == CycleAfter(ch, k)
           old == ch.frame.cycle
           n == c + 1
           d == End(ch)
<1>0. /\ FrameSteps[1] \in Nat /\ FrameSteps[2] \in Nat /\ FrameSteps[3] \in Nat /\ d \in Nat
      /\ FrameSteps[1] < FrameSteps[2] /\ FrameSteps[2] < FrameSteps[3] /\ FrameSteps[3] < d
  <2>1. /\ FrameSteps[1] \in Nat /\ FrameSteps[2] \in Nat /\ FrameSteps[3] \in Nat /\ FrameSteps[4] \in Nat
    BY StepsNatural
  <2> QED
    BY <2>1, Geometry DEF End
<1>1. IsChannels(e) /\ e.frame = ch.frame /\ End(e) = d
  BY ClockedKeeps DEF End
<1>2. old \in Nat /\ old < d
  BY DEF InFrame
<1>3. c \in Nat
  <2>1. Passes(ch, k, d) => old + k - d \in Nat
    BY <1>0, <1>2 DEF Passes
  <2> QED
    BY <1>2, <2>1 DEF CycleAfter
<1>4. /\ n = d => FrameCycle(At(e, c)) = At(Half(Quarter(e)), 0)
      /\ n # d /\ n \in {FrameSteps[1], FrameSteps[3]} => FrameCycle(At(e, c)) = At(Quarter(e), n)
      /\ n # d /\ n = FrameSteps[2] => FrameCycle(At(e, c)) = At(Half(Quarter(e)), n)
      /\ n \notin steps => FrameCycle(At(e, c)) = At(e, n)
  <2> HIDE DEF e, c
  <2> QED
    BY <1>1, <1>3, FrameCycleIs
<1>5. CASE \E t \in steps : Passes(ch, k, t)
  <2>1. /\ n \notin steps /\ CycleAfter(ch, k + 1) = n
        /\ \A u \in steps : Passes(ch, k + 1, u) = Passes(ch, k, u)
    BY <1>5, StepsApart
  <2>2. Clocked(ch, k + 1) = e
    BY <2>1 DEF Clocked
  <2> QED
    BY <1>4, <2>1, <2>2 DEF Framed
<1>6. CASE ~\E t \in steps : Passes(ch, k, t)
  <2>1. e = ch /\ c = old + k
    BY <1>6 DEF Clocked, CycleAfter
  <2>2. n = old + (k + 1)
    BY <1>2, <2>1
  <2>3. \A t \in steps : Passes(ch, k + 1, t) <=> n = t
    <3>1. ASSUME NEW t \in steps PROVE (old < t /\ old + (k + 1) >= t) <=> n = t
      <4>1. ~(old < t /\ old + k >= t)
        BY <1>6 DEF Passes
      <4>2. t \in Nat
        BY <1>0
      <4> HIDE DEF steps, c, e, d
      <4> QED
        BY <1>2, <2>1, <2>2, <4>1, <4>2
    <3> QED
      BY <3>1 DEF Passes
  <2>4. FrameSteps[1] \in steps /\ FrameSteps[2] \in steps /\ FrameSteps[3] \in steps /\ d \in steps
    OBVIOUS
  <2>5. CASE n = d
    <3>1. Passes(ch, k + 1, d)
      BY <2>3, <2>4, <2>5
    <3>2. Clocked(ch, k + 1) = Half(Quarter(ch)) /\ CycleAfter(ch, k + 1) = 0
      <4>1. old + (k + 1) - d = 0
        BY <1>0, <1>2, <2>2, <2>5
      <4> QED
        BY <3>1, <4>1 DEF Clocked, CycleAfter
    <3> QED
      BY <1>4, <2>1, <2>5, <3>2 DEF Framed
  <2>6. CASE n # d
    <3>1. ~Passes(ch, k + 1, d) /\ CycleAfter(ch, k + 1) = n
      <4>1. ~Passes(ch, k + 1, d)
        BY <2>3, <2>4, <2>6
      <4> QED
        BY <2>2, <4>1 DEF CycleAfter
    <3>2. /\ Passes(ch, k + 1, FrameSteps[1]) <=> n = FrameSteps[1]
          /\ Passes(ch, k + 1, FrameSteps[2]) <=> n = FrameSteps[2]
          /\ Passes(ch, k + 1, FrameSteps[3]) <=> n = FrameSteps[3]
      BY <2>3, <2>4
    <3>3. CASE n = FrameSteps[3]
      <4>1. Clocked(ch, k + 1) = Quarter(ch)
        BY <3>1, <3>2, <3>3 DEF Clocked
      <4> QED
        BY <1>4, <2>1, <2>6, <3>1, <3>3, <4>1 DEF Framed
    <3>4. CASE n = FrameSteps[2]
      <4>1. Clocked(ch, k + 1) = Half(Quarter(ch))
        <5>1. n # FrameSteps[3]
          BY <1>0, <3>4
        <5> QED
          BY <3>1, <3>2, <3>4, <5>1 DEF Clocked
      <4> QED
        BY <1>4, <2>1, <2>6, <3>1, <3>4, <4>1 DEF Framed
    <3>5. CASE n = FrameSteps[1]
      <4>1. Clocked(ch, k + 1) = Quarter(ch)
        <5>1. n # FrameSteps[3] /\ n # FrameSteps[2]
          BY <1>0, <3>5
        <5> QED
          BY <3>1, <3>2, <3>5, <5>1 DEF Clocked
      <4> QED
        BY <1>4, <2>1, <2>6, <3>1, <3>5, <4>1 DEF Framed
    <3>6. CASE n \notin steps
      <4>1. Clocked(ch, k + 1) = ch
        BY <3>1, <3>2, <3>6 DEF Clocked
      <4> QED
        BY <1>4, <2>1, <3>1, <3>6, <4>1 DEF Framed
    <3> QED
      BY <2>6, <3>3, <3>4, <3>5, <3>6
  <2> QED
    BY <2>5, <2>6
<1> QED
  BY <1>5, <1>6

LEMMA FrameCyclesAre ==
  ASSUME NEW ch, IsChannels(ch), InFrame(ch), NEW n \in 0 .. Most
  PROVE  FrameCycles(ch, n) = Framed(ch, n)
<1> DEFINE Bad == {k \in 0 .. n : FrameCycles(ch, k) # Framed(ch, k)}
<1>0. Most \in Nat /\ n \in Nat /\ n <= Most
  BY Geometry
<1>1. FrameCycles(ch, 0) = Framed(ch, 0)
  <2>1. FrameCycles(ch, 0) = ch
    BY FrameOneMore DEF FrameCycles
  <2>2. ch.frame.cycle \in Nat /\ ch.frame.cycle + 0 = ch.frame.cycle
    BY DEF InFrame
  <2>3. ASSUME NEW t \in Nat PROVE ~Passes(ch, 0, t)
    BY <2>2 DEF Passes
  <2>4. FrameSteps[1] \in Nat /\ FrameSteps[2] \in Nat /\ FrameSteps[3] \in Nat /\ End(ch) \in Nat
    <3>1. FrameSteps[1] \in Nat /\ FrameSteps[2] \in Nat /\ FrameSteps[3] \in Nat /\ FrameSteps[4] \in Nat
      BY StepsNatural
    <3> QED
      BY <3>1, Geometry DEF End
  <2>5. Clocked(ch, 0) = ch /\ CycleAfter(ch, 0) = ch.frame.cycle
    BY <2>2, <2>3, <2>4 DEF Clocked, CycleAfter
  <2> QED
    BY <2>1, <2>5, AtIs DEF Framed
<1>2. ASSUME NEW k \in Nat, k + 1 <= n, FrameCycles(ch, k) = Framed(ch, k)
      PROVE  FrameCycles(ch, k + 1) = Framed(ch, k + 1)
  <2>1. FrameCycles(ch, k + 1) = FrameCycle(FrameCycles(ch, k))
    BY FrameOneMore DEF FrameCycles
  <2>2. k + 1 <= Most
    BY <1>0, <1>2
  <2> QED
    BY <1>2, <2>1, <2>2, FramedOnce
<1>3. Bad = {}
  <2> SUFFICES ASSUME Bad # {} PROVE FALSE
    OBVIOUS
  <2>1. Bad \in SUBSET Nat
    OBVIOUS
  <2>2. PICK k \in Bad : \A j \in Bad : k <= j
    BY <2>1, LeastNatural
  <2>3. k \in 0 .. n /\ k # 0 /\ FrameCycles(ch, k) # Framed(ch, k)
    BY <1>1, <2>2
  <2>4. k - 1 \in Nat /\ k - 1 \in 0 .. n /\ (k - 1) + 1 = k /\ k <= n
    BY <1>0, <2>3
  <2>5. k - 1 \notin Bad
    BY <2>2, <2>4
  <2>6. FrameCycles(ch, k - 1) = Framed(ch, k - 1)
    BY <2>4, <2>5
  <2> QED
    BY <1>2, <2>3, <2>4, <2>6
<1> QED
  BY <1>0, <1>3

LEMMA FrameSet ==
  ASSUME NEW ch, IsChannels(ch), NEW five
  PROVE  /\ IsChannels(FrameWritten(ch, five)) /\ FrameWritten(ch, five).dmc = ch.dmc
         /\ five \in BOOLEAN => InFrame(FrameWritten(ch, five))
<1> DEFINE c == [ch EXCEPT !.frame = [cycle |-> 0, five |-> five]]
<1>1. c = [pulse |-> ch.pulse, tri |-> ch.tri, noise |-> ch.noise, dmc |-> ch.dmc,
           frame |-> [cycle |-> 0, five |-> five]]
  BY DEF IsChannels
<1>2. IsChannels(c) /\ c.dmc = ch.dmc /\ c.frame.cycle = 0 /\ c.frame.five = five
  BY <1>1, ChannelsMade DEF IsChannels
<1>3. FrameWritten(ch, five) = IF five THEN Half(Quarter(c)) ELSE c
  BY DEF FrameWritten
<1> HIDE DEF c
<1> DEFINE e == FrameWritten(ch, five)
<1>4. IsChannels(e) /\ e.dmc = ch.dmc /\ e.frame = c.frame
  BY <1>2, <1>3, QuarterKeeps, HalfKeeps
<1> HIDE DEF e
<1>5. ASSUME five \in BOOLEAN PROVE InFrame(e)
  <2>1. e.frame.cycle = 0 /\ e.frame.five = five
    BY <1>2, <1>4
  <2>2. 0 < End(e)
    BY Geometry DEF End
  <2> QED
    BY <1>5, <2>1, <2>2 DEF InFrame
<1> QED
  BY <1>4, <1>5 DEF e

(* The registers.                                                          *)
LEMMA ChannelsWritten ==
  ASSUME NEW ch, IsChannels(ch), ch.dmc \in DmcType, NEW w, Writable(w)
  PROVE  LET e == Written(ch, w)
         IN  /\ IsChannels(e) /\ (InFrame(ch) => InFrame(e))
             /\ w.on \notin {"dmc", "status"} => e.dmc = ch.dmc
             /\ w.on = "dmc" => e.dmc = DmcWritten(ch.dmc, w)
             /\ w.on = "status" => e.dmc = DmcEnabled(ch.dmc, "dmc" \in w.channels)
<1>0. ASSUME NEW f, \A i \in {1, 2} : IsPulse(f[i]), f = [i \in {1, 2} |-> f[i]],
             NEW t, IsTriangle(t), NEW n, IsNoise(n), NEW d
      PROVE  LET e == [pulse |-> f, tri |-> t, noise |-> n, dmc |-> d, frame |-> ch.frame]
             IN  IsChannels(e) /\ (InFrame(ch) => InFrame(e)) /\ e.dmc = d
  <2> DEFINE e == [pulse |-> f, tri |-> t, noise |-> n, dmc |-> d,
                   frame |-> [cycle |-> ch.frame.cycle, five |-> ch.frame.five]]
  <2>1. e = [pulse |-> f, tri |-> t, noise |-> n, dmc |-> d, frame |-> ch.frame]
    BY DEF IsChannels
  <2>2. IsChannels(e) /\ e.dmc = d /\ e.frame.cycle = ch.frame.cycle /\ e.frame.five = ch.frame.five
    BY <1>0, ChannelsMade
  <2> HIDE DEF e
  <2>3. InFrame(ch) => InFrame(e)
    BY <2>2 DEF InFrame, End
  <2> QED
    BY <2>1, <2>2, <2>3
<1>1. CASE w.on = "pulse"
  <2> DEFINE f == [ch.pulse EXCEPT ![w.i] = PulseWritten(ch.pulse[w.i], w)]
  <2>1. w.i \in {1, 2}
    BY <1>1 DEF Writable
  <2>2. IsPulse(PulseWritten(ch.pulse[w.i], w))
    BY <1>1, <2>1, PulseSet DEF IsChannels
  <2>3. f = [i \in {1, 2} |-> f[i]] /\ \A i \in {1, 2} : IsPulse(f[i])
    BY <2>1, <2>2 DEF IsChannels
  <2>4. Written(ch, w) = [ch EXCEPT !.pulse = f]
    BY <1>1 DEF Written, IsChannels
  <2> HIDE DEF f
  <2>5. Written(ch, w) = [pulse |-> f, tri |-> ch.tri, noise |-> ch.noise, dmc |-> ch.dmc, frame |-> ch.frame]
    BY <2>4 DEF IsChannels
  <2>6. IsTriangle(ch.tri) /\ IsNoise(ch.noise)
    BY DEF IsChannels
  <2> QED
    BY <1>0, <1>1, <2>3, <2>5, <2>6
<1> DEFINE p == ch.pulse
<1>p. (\A i \in {1, 2} : IsPulse(p[i])) /\ p = [i \in {1, 2} |-> p[i]]
  BY DEF IsChannels
<1> HIDE DEF p
<1>2. CASE w.on = "tri"
  <2> DEFINE t == TriangleWritten(ch.tri, w)
  <2>1. IsTriangle(t) /\ IsNoise(ch.noise)
    BY <1>2, TriangleSet DEF IsChannels
  <2>2. Written(ch, w) = [ch EXCEPT !.tri = t]
    BY <1>2 DEF Written, IsChannels
  <2> HIDE DEF t
  <2>3. Written(ch, w) = [pulse |-> p, tri |-> t, noise |-> ch.noise, dmc |-> ch.dmc, frame |-> ch.frame]
    BY <2>2 DEF IsChannels, p
  <2> QED
    BY <1>0, <1>2, <1>p, <2>1, <2>3
<1>3. CASE w.on = "noise"
  <2> DEFINE n == NoiseWritten(ch.noise, w)
  <2>1. IsTriangle(ch.tri) /\ IsNoise(n)
    BY <1>3, NoiseSet DEF IsChannels
  <2>2. Written(ch, w) = [ch EXCEPT !.noise = n]
    BY <1>3 DEF Written, IsChannels
  <2> HIDE DEF n
  <2>3. Written(ch, w) = [pulse |-> p, tri |-> ch.tri, noise |-> n, dmc |-> ch.dmc, frame |-> ch.frame]
    BY <2>2 DEF IsChannels, p
  <2> QED
    BY <1>0, <1>3, <1>p, <2>1, <2>3
<1>4. CASE w.on = "dmc"
  <2> DEFINE d == DmcWritten(ch.dmc, w)
  <2>1. IsTriangle(ch.tri) /\ IsNoise(ch.noise)
    BY DEF IsChannels
  <2>2. Written(ch, w) = [ch EXCEPT !.dmc = d]
    BY <1>4 DEF Written, IsChannels
  <2> HIDE DEF d
  <2>3. Written(ch, w) = [pulse |-> p, tri |-> ch.tri, noise |-> ch.noise, dmc |-> d, frame |-> ch.frame]
    BY <2>2 DEF IsChannels, p
  <2> QED
    BY <1>0, <1>4, <1>p, <2>1, <2>3 DEF d
<1>5. CASE w.on = "status"
  <2> DEFINE on == w.channels
             f == [i \in {1, 2} |-> Enabled(ch.pulse[i], Channels[i] \in on)]
             d == DmcEnabled(ch.dmc, "dmc" \in on)
             t == TriangleEnabled(ch.tri, "tri" \in on)
             n == Enabled(ch.noise, "noise" \in on)
  <2>1. \A i \in {1, 2} : IsPulse(f[i])
    <3>1. TAKE i \in {1, 2}
    <3>2. IsPulse(ch.pulse[i])
      BY DEF IsChannels
    <3>3. IsPulse(Enabled(ch.pulse[i], Channels[i] \in on))
      BY <3>2, PulseSwitched
    <3> QED
      BY <3>3
  <2>2. f = [i \in {1, 2} |-> f[i]]
    OBVIOUS
  <2>3. IsTriangle(t) /\ IsNoise(n)
    <3>1. IsTriangle(ch.tri) /\ IsNoise(ch.noise)
      BY DEF IsChannels
    <3>2. IsTriangle(t)
      BY <3>1, TriangleSwitched
    <3>3. IsNoise(n)
      BY <3>1, NoiseSwitched
    <3> QED
      BY <3>2, <3>3
  <2>4. Written(ch, w) = [ch EXCEPT !.pulse = f, !.tri = t, !.noise = n, !.dmc = d]
    <3>1. EnabledAll(ch, on) = [ch EXCEPT !.pulse = f, !.tri = t, !.noise = n, !.dmc = d]
      BY DEF EnabledAll
    <3>2. Written(ch, w) = EnabledAll(ch, on)
      BY <1>5 DEF Written
    <3> HIDE DEF f, t, n, d
    <3> QED
      BY <3>1, <3>2
  <2> HIDE DEF f, t, n, d
  <2>5. Written(ch, w) = [pulse |-> f, tri |-> t, noise |-> n, dmc |-> d, frame |-> ch.frame]
    BY <2>4 DEF IsChannels
  <2> QED
    BY <1>0, <1>5, <2>1, <2>2, <2>3, <2>5 DEF d
<1>6. CASE w.on = "frame"
  <2>1. Written(ch, w) = FrameWritten(ch, w.five) /\ w.five \in BOOLEAN
    BY <1>6 DEF Written, Writable
  <2> QED
    BY <1>6, <2>1, FrameSet
<1> QED
  BY <1>1, <1>2, <1>3, <1>4, <1>5, <1>6 DEF Writable

(* What a write leaves due.                                                *)
DueAfterWrite(d, w, q) ==
  LET buffered == IF d.filled THEN <<d.buffer>> ELSE <<>>
      starts == w.on = "status" /\ Starts(d, "dmc" \in w.channels)
      loops == d.loop /\ d.size = 1 /\ ~d.filled
  IN  IF starts THEN buffered \o SampleOf(d) \o (IF loops THEN SampleOf(d) ELSE <<>>)
      ELSE IF w.on = "status" /\ "dmc" \notin w.channels THEN buffered ELSE q

LEMMA DmcSet ==
  ASSUME NEW d \in DmcType, NEW w, Writable(w), w.on = "dmc"
  PROVE  DmcWritten(d, w) \in DmcType
         /\ \A q : DueIs(d, q) => DueIs(DmcWritten(d, w), q)
<1> DEFINE e == DmcWritten(d, w)
<1>1. /\ e \in DmcType /\ e.filled = d.filled /\ e.buffer = d.buffer /\ e.current = d.current
      /\ e.remaining = d.remaining
  <2>1. CASE w.reg = "volume"
    <3>1. w.loop \in BOOLEAN /\ w.period \in DmcPeriods
      BY <2>1 DEF Writable
    <3>2. e = [d EXCEPT !.loop = w.loop, !.period = w.period]
      BY <2>1 DEF DmcWritten
    <3> QED
      BY <3>1, <3>2 DEF DmcType
  <2>2. CASE w.reg = "level"
    <3>1. w.level \in Int /\ e = [d EXCEPT !.level = w.level]
      BY <2>2 DEF Writable, DmcWritten
    <3> QED
      BY <3>1 DEF DmcType
  <2>3. CASE w.reg = "address"
    <3>1. w.address \in Nat /\ e = [d EXCEPT !.address = w.address]
      BY <2>3 DEF Writable, DmcWritten
    <3> QED
      BY <3>1 DEF DmcType
  <2>4. CASE w.reg = "size"
    <3>1. w.size \in Nat /\ e = [d EXCEPT !.size = w.size]
      BY <2>4 DEF Writable, DmcWritten
    <3> QED
      BY <3>1 DEF DmcType
  <2> QED
    BY <2>1, <2>2, <2>3, <2>4 DEF Writable
<1> HIDE DEF e
<1>2. ASSUME NEW q, DueIs(d, q) PROVE DueIs(e, q)
  <2>1. CASE d.filled
    <3>1. q = [k \in 1 .. d.remaining + 1 |-> IF k = 1 THEN d.buffer ELSE Place(d.current, k - 2)]
      BY <1>2, <2>1 DEF DueIs
    <3>2. e.filled
      BY <1>1, <2>1
    <3> QED
      BY <1>1, <3>1, <3>2, DueWhenFilled
  <2>2. CASE ~d.filled
    BY <1>1, <1>2, <2>2 DEF DueIs
  <2> QED
    BY <2>1, <2>2
<1> QED
  BY <1>1, <1>2 DEF e

LEMMA DmcSwitched ==
  ASSUME NEW d \in DmcType, NEW w, w.on = "status", NEW q, DueIs(d, q)
  PROVE  LET e == DmcEnabled(d, "dmc" \in w.channels)
         IN  e \in DmcType /\ DueIs(e, DueAfterWrite(d, w, q))
<1> DEFINE on == "dmc" \in w.channels
           e == [d EXCEPT !.current = d.address, !.remaining = d.size]
           s == [d EXCEPT !.remaining = IF on THEN @ ELSE 0]
<1>1. CASE on /\ d.remaining = 0
  <2>1. e \in DmcType
    BY DEF DmcType
  <2>2. DmcEnabled(d, on) = Fetched(e)
    BY <1>1 DEF DmcEnabled, Starts
  <2>3. Fetched(e) \in DmcType
    BY <2>1, FetchedType
  <2> DEFINE buffered == IF d.filled THEN <<d.buffer>> ELSE <<>>
             loops == d.loop /\ d.size = 1 /\ ~d.filled
             all == buffered \o SampleOf(d) \o (IF loops THEN SampleOf(d) ELSE <<>>)
  <2>4. DueAfterWrite(d, w, q) = all
    BY <1>1 DEF DueAfterWrite, Starts
  <2>5. DueIs(Fetched(e), all)
    BY <1>1, DueStarts
  <2> HIDE DEF all, e
  <2> QED
    BY <2>2, <2>3, <2>4, <2>5
<1>2. CASE on /\ d.remaining # 0
  <2>1. DmcEnabled(d, on) = d
    BY <1>2 DEF DmcEnabled, Starts, DmcType
  <2>2. DueAfterWrite(d, w, q) = q
    BY <1>2 DEF DueAfterWrite, Starts
  <2> QED
    BY <2>1, <2>2
<1>3. CASE ~on
  <2>1. DmcEnabled(d, on) = [d EXCEPT !.remaining = 0]
    BY <1>3 DEF DmcEnabled, Starts
  <2>2. DueAfterWrite(d, w, q) = IF d.filled THEN <<d.buffer>> ELSE <<>>
    BY <1>3 DEF DueAfterWrite, Starts
  <2> DEFINE x == [d EXCEPT !.remaining = 0]
  <2>3. x \in DmcType /\ x.filled = d.filled /\ x.buffer = d.buffer /\ x.current = d.current /\ x.remaining = 0
    BY DEF DmcType
  <2> HIDE DEF x
  <2>4. CASE d.filled
    <3>1. <<d.buffer>> =
            [k \in 1 .. x.remaining + 1 |-> IF k = 1 THEN x.buffer ELSE Place(x.current, k - 2)]
      BY <2>3
    <3>2. x.filled
      BY <2>3, <2>4
    <3>3. DueIs(x, <<d.buffer>>)
      BY <3>1, <3>2 DEF DueIs
    <3> QED
      BY <2>1, <2>2, <2>3, <2>4, <3>3 DEF x
  <2>5. CASE ~d.filled
    <3>1. DueIs(x, <<>>)
      BY <2>3, <2>5 DEF DueIs
    <3> QED
      BY <2>1, <2>2, <2>3, <2>5, <3>1 DEF x
  <2> QED
    BY <2>4, <2>5
<1> QED
  BY <1>1, <1>2, <1>3

-----------------------------------------------------------------------------
(* The inductive invariant: of the clock, of the channels' records, and of *)
(* what the DMC has been given to play.                                    *)
ChannelsInv ==
  /\ IInv /\ TypeOK
  /\ clk.cpu = clk.cycles % Wrap /\ clk.cycles + left <= MaxCycles
  /\ IsChannels(chan) /\ InFrame(chan) /\ chan.dmc \in DmcType /\ DueIs(chan.dmc, due)
  /\ io.program \in Programs

LEMMA BatchNoLonger ==
  ASSUME NEW phase \in 0 .. Clock - 1, NEW n \in Nat \ {0}
  PROVE  BatchSize(phase, n) \in 0 .. Longest
<1> DEFINE x == Clock - phase + Rate - 1
           y == Clock + Rate - 1
           q == x \div Rate
           p == y \div Rate
<1>1. x \in Int /\ y \in Int /\ x <= y /\ Rate \in Nat \ {0}
  BY ClockAssumption
<1>2. BatchSize(phase, n) \in 1 .. n
  BY BatchEndsAtSample
<1>3. BatchSize(phase, n) <= q
  <2>1. BatchSize(phase, n) = IF q < n THEN q ELSE n
    BY DEF BatchSize, ToNext
  <2>2. q \in Int
    BY <1>1, SMT
  <2> HIDE DEF q
  <2> QED
    BY <2>1, <2>2
<1> HIDE DEF x, y
<1>4. /\ x = Rate * q + (x % Rate) /\ x % Rate \in 0 .. Rate - 1 /\ q \in Int
      /\ y = Rate * p + (y % Rate) /\ y % Rate \in 0 .. Rate - 1 /\ p \in Int
  BY <1>1, SMT
<1> HIDE DEF q, p
<1>5. q <= p
  <2>1. Rate * q \in Int /\ Rate * p \in Int /\ Rate * (p + 1) = Rate * p + Rate
    BY <1>1, <1>4, SMT
  <2>2. Rate * q < Rate * (p + 1)
    BY <1>1, <1>4, <2>1
  <2>3. q < p + 1
    BY <1>1, <1>4, <2>2, SMT
  <2> QED
    BY <1>4, <2>3
<1>6. Longest = p
  BY DEF Longest, p, y
<1> QED
  BY <1>2, <1>3, <1>4, <1>5, <1>6

LEMMA ChannelsAtRest ==
  IsChannels(Silence) /\ InFrame(Silence) /\ Silence.dmc \in DmcType /\ DueIs(Silence.dmc, <<>>)
<1>1. IsPulse(Pulse)
  BY RegisterAssumption DEF IsPulse, PulseFields, Pulse
<1>2. IsTriangle(Triangle) /\ IsNoise(Noise)
  BY DEF IsTriangle, TriangleFields, IsNoise, NoiseFields, Triangle, Noise
<1> DEFINE f == [i \in {1, 2} |-> Pulse]
<1>3. (\A i \in {1, 2} : IsPulse(f[i])) /\ f = [i \in {1, 2} |-> f[i]]
  BY <1>1
<1>4. Silence = [pulse |-> f, tri |-> Triangle, noise |-> Noise, dmc |-> Dmc,
                 frame |-> [cycle |-> 0, five |-> FALSE]]
  BY DEF Silence
<1> HIDE DEF f
<1>5. /\ IsChannels(Silence) /\ Silence.dmc = Dmc /\ Silence.frame.cycle = 0
      /\ Silence.frame.five = FALSE
  BY <1>2, <1>3, <1>4, ChannelsMade
<1>6. InFrame(Silence)
  <2>1. FrameSteps[4] > 0 /\ 0 \in Nat
    BY Geometry
  <2>2. End(Silence) = FrameSteps[4]
    BY <1>5 DEF End
  <2>3. Silence.frame.five \in BOOLEAN
    <3>1. Silence.frame.five = FALSE
      BY <1>5
    <3> QED
      BY <3>1, Zenon
  <2>5. Silence.frame.cycle \in Nat
    BY <1>5
  <2>4. Silence.frame.cycle < End(Silence)
    BY <1>5, <2>1, <2>2
  <2> QED
    BY <2>3, <2>4, <2>5 DEF InFrame
<1>7. Dmc \in DmcType /\ DueIs(Dmc, <<>>)
  BY RegisterAssumption DEF Dmc, DmcType, DueIs
<1> QED
  BY <1>5, <1>6, <1>7

LEMMA NothingCounted == 0 = 0 % Wrap /\ 0 + 0 <= MaxCycles
<1>1. Wrap \in Nat \ {0} /\ 0 = Wrap * 0 + 0 /\ 0 \in 0 .. Wrap - 1 /\ MaxCycles \in Nat
  BY TableAssumption
<1> QED
  BY <1>1, ModUnique

LEMMA CyclesNatural ==
  ASSUME NEW cpu \in 0 .. Wrap - 1, NEW n \in Nat
  PROVE  (cpu + n) % Wrap \in 0 .. Wrap - 1 /\ ApuCyclesIn(cpu, n) \in Nat
<1>1. Wrap \in Nat \ {0} /\ cpu \in Nat /\ cpu + n \in Int
  BY TableAssumption
<1>2. (cpu + n) % Wrap \in 0 .. Wrap - 1
  BY <1>1, DivMod
<1>3. (((cpu + n) % Wrap) \div 2) \in Int /\ cpu \div 2 \in Int
  BY <1>1, <1>2, SMT
<1> DEFINE x == (((cpu + n) % Wrap) \div 2) - (cpu \div 2)
<1>4. x % Wrap \in 0 .. Wrap - 1
  <2>1. x \in Int
    BY <1>3
  <2> HIDE DEF x
  <2> QED
    BY <1>1, <2>1, DivMod
<1> QED
  BY <1>1, <1>2, <1>4 DEF ApuCyclesIn

LEMMA ClockTyped ==
  ASSUME ChannelsInv, Batch
  PROVE  TypeOK' /\ clk'.cpu = clk'.cycles % Wrap /\ clk'.cycles + left' <= MaxCycles
<1> DEFINE n == BatchSize(clk.phase, left)
<1>1. n \in 1 .. left /\ clk.phase + Rate * (n - 1) < Clock
  BY BatchEndsAtSample DEF ChannelsInv, IInv, Batch
<1> HIDE DEF n
<1>2. left' \in Nat /\ clk' = Sampled(clk, n)
  BY <1>1 DEF Batch, ChannelsInv, IInv, n
<1>3. /\ clk.phase \in 0 .. Clock - 1 /\ clk.cpu \in 0 .. Wrap - 1 /\ clk.cycles \in Nat
      /\ clk.samples \in Nat /\ clk.apuCycles \in Nat
  BY DEF ChannelsInv, TypeOK
<1>4. Rate * (n - 1) = Rate * n - Rate /\ Rate * n \in Nat /\ Rate \in 1 .. Clock /\ Clock \in Nat
  BY <1>1, ClockAssumption, SMT
<1>5. clk.phase + Rate * n \in Nat /\ clk.phase + Rate * n < Clock + Rate
  BY <1>1, <1>3, <1>4
<1>6. (clk.cpu + n) % Wrap \in 0 .. Wrap - 1 /\ ApuCyclesIn(clk.cpu, n) \in Nat
  <2>1. n \in Nat
    BY <1>1
  <2> QED
    BY <1>3, <2>1, CyclesNatural
<1> DEFINE phase == clk.phase + Rate * n
<1>7. (IF phase >= Clock THEN phase - Clock ELSE phase) \in 0 .. Clock - 1
  BY <1>4, <1>5
<1>8. clk' \in [phase : 0 .. Clock - 1, cpu : 0 .. Wrap - 1, cycles : Nat, samples : Nat, apuCycles : Nat]
  BY <1>1, <1>2, <1>3, <1>6, <1>7 DEF Sampled
<1>9. clk'.cpu = clk'.cycles % Wrap
  <2>1. clk.cpu = clk.cycles % Wrap /\ clk'.cpu = (clk.cpu + n) % Wrap /\ clk'.cycles = clk.cycles + n
    BY <1>2 DEF ChannelsInv, Sampled
  <2>2. ((clk.cycles % Wrap) + n) % Wrap = (clk.cycles + n) % Wrap
    <3>1. clk.cycles \in Int /\ n \in Int /\ Wrap \in Nat \ {0}
      BY <1>1, <1>3, TableAssumption
    <3> QED
      BY <3>1, ModPlus
  <2> QED
    BY <2>1, <2>2
<1>10. clk'.cycles + left' <= MaxCycles
  <2>1. clk.cycles + left <= MaxCycles /\ clk'.cycles = clk.cycles + n /\ left' = left - n /\ left \in Nat
    BY <1>2 DEF ChannelsInv, IInv, Sampled, Batch, n
  <2> QED
    BY <1>1, <1>3, <2>1
<1> QED
  BY <1>2, <1>8, <1>9, <1>10 DEF TypeOK

LEMMA BatchPlays ==
  ASSUME ChannelsInv, Batch
  PROVE  /\ IsChannels(chan') /\ InFrame(chan') /\ chan'.dmc \in DmcType /\ DueIs(chan'.dmc, due')
<1> DEFINE n == BatchSize(clk.phase, left)
           a == ApuCyclesIn(clk.cpu, n)
           d == chan.dmc
           begun == chan'.dmc.loads > d.loads
           more == IF d.remaining = 1 /\ d.loop THEN SampleOf(d) ELSE <<>>
<1>1. n \in 0 .. Longest
  BY BatchNoLonger DEF ChannelsInv, IInv, Batch
<1>2. chan' = Batched(chan, n, a)
  BY DEF Batch
<1>3. due' = IF ~begun THEN due ELSE Tail(due) \o more
  BY DEF Batch
<1> HIDE DEF n, a
<1>4. IsChannels(chan) /\ InFrame(chan) /\ d \in DmcType /\ DueIs(d, due)
  BY DEF ChannelsInv
<1>a. a \in Nat
  <2>1. n \in Nat /\ clk.cpu \in 0 .. Wrap - 1
    <3>1. n \in 1 .. left /\ left \in Nat
      BY BatchEndsAtSample DEF ChannelsInv, IInv, Batch, n
    <3> QED
      BY <3>1 DEF ChannelsInv, TypeOK
  <2> QED
    BY <2>1, CyclesNatural DEF a
<1>5. /\ IsChannels(chan') /\ InFrame(chan') /\ chan'.dmc \in DmcType
      /\ \/ chan'.dmc.loads = d.loads /\ \A q : DueIs(d, q) => DueIs(chan'.dmc, q)
         \/ /\ chan'.dmc.loads > d.loads /\ d.filled
            /\ \A q : DueIs(Loaded(d), q) => DueIs(chan'.dmc, q)
  BY <1>1, <1>2, <1>4, <1>a, ChannelsBatched
<1> HIDE DEF more
<1>6. CASE chan'.dmc.loads = d.loads /\ \A q : DueIs(d, q) => DueIs(chan'.dmc, q)
  <2>1. ~begun
    BY <1>4, <1>6 DEF DmcType
  <2> QED
    BY <1>3, <1>4, <1>5, <1>6, <2>1
<1>7. CASE /\ begun /\ d.filled
           /\ \A q : DueIs(Loaded(d), q) => DueIs(chan'.dmc, q)
  <2>1. DueIs(Loaded(d), Tail(due) \o more)
    BY <1>4, <1>7, DueMoves DEF more
  <2>2. due' = Tail(due) \o more
    BY <1>3, <1>7
  <2> QED
    BY <1>5, <1>7, <2>1, <2>2
<1> QED
  BY <1>5, <1>6, <1>7

LEMMA WritePlays ==
  ASSUME ChannelsInv, NEW w \in io.program, Write(w)
  PROVE  /\ IsChannels(chan') /\ InFrame(chan') /\ chan'.dmc \in DmcType /\ DueIs(chan'.dmc, due')
<1> DEFINE d == chan.dmc
<1>1. Writable(w)
  BY RegisterAssumption DEF ChannelsInv
<1>2. IsChannels(chan) /\ InFrame(chan) /\ d \in DmcType /\ DueIs(d, due) /\ chan' = Written(chan, w)
  BY DEF ChannelsInv, Write
<1>3. due' = DueAfterWrite(d, w, due)
  BY DEF Write, DueAfterWrite
<1>4. /\ IsChannels(chan') /\ InFrame(chan')
      /\ w.on \notin {"dmc", "status"} => chan'.dmc = d
      /\ w.on = "dmc" => chan'.dmc = DmcWritten(d, w)
      /\ w.on = "status" => chan'.dmc = DmcEnabled(d, "dmc" \in w.channels)
  BY <1>1, <1>2, ChannelsWritten
<1>5. CASE w.on \notin {"dmc", "status"}
  <2>1. due' = due
    BY <1>3, <1>5 DEF DueAfterWrite
  <2> QED
    BY <1>2, <1>4, <1>5, <2>1
<1>6. CASE w.on = "dmc"
  <2>1. due' = due
    BY <1>3, <1>6 DEF DueAfterWrite
  <2> QED
    BY <1>1, <1>2, <1>4, <1>6, <2>1, DmcSet
<1>7. CASE w.on = "status"
  BY <1>2, <1>3, <1>4, <1>7, DmcSwitched
<1> QED
  BY <1>5, <1>6, <1>7

LEMMA ChannelsShow == ChannelsInv => ChannelsOK
<1> SUFFICES ASSUME ChannelsInv PROVE ChannelsOK
  OBVIOUS
<1> DEFINE d == chan.dmc
<1>1. IsChannels(chan) /\ d \in DmcType /\ DueIs(d, due) /\ TypeOK
  BY DEF ChannelsInv
<1>2. SweepInRange
  BY <1>1 DEF SweepInRange, IsChannels, IsPulse
<1>3. DmcPlays
  <2>1. CASE d.filled
    <3>1. due = [k \in 1 .. d.remaining + 1 |-> IF k = 1 THEN d.buffer ELSE Place(d.current, k - 2)]
      BY <1>1, <2>1 DEF DueIs
    <3>2. d.remaining \in Nat
      BY <1>1 DEF DmcType
    <3>3. Len(due) = d.remaining + 1
      <4>1. ASSUME NEW k \in 1 .. d.remaining + 1
            PROVE  (IF k = 1 THEN d.buffer ELSE Place(d.current, k - 2)) \in Nat
        <5>1. d.buffer \in Nat /\ d.current \in Nat
          BY <1>1 DEF DmcType
        <5>2. CASE k = 1
          BY <5>1, <5>2
        <5>3. CASE k # 1
          <6>1. k - 2 \in Nat
            BY <3>2, <5>3
          <6> QED
            BY <5>1, <5>3, <6>1, PlaceType
        <5> QED
          BY <5>2, <5>3
      <4> QED
        BY <3>1, <3>2, <4>1
    <3>4. due # <<>> /\ due[1] = d.buffer
      <4>1. Len(due) # 0 /\ 1 \in 1 .. d.remaining + 1
        BY <3>2, <3>3
      <4>2. due # <<>>
        BY <4>1
      <4>3. due[1] = d.buffer
        BY <3>1, <4>1
      <4> QED
        BY <4>2, <4>3
    <3>5. Head(due) = d.buffer
      BY <3>4 DEF Head
    <3> QED
      BY <2>1, <3>3, <3>4, <3>5 DEF DmcPlays
  <2>2. CASE ~d.filled
    <3>1. d.filled = FALSE
      BY <1>1, <2>2 DEF DmcType
    <3>2. d.remaining = 0 /\ due = <<>>
      BY <1>1, <2>2 DEF DueIs
    <3>3. (due # <<>>) = FALSE /\ Len(due) = 0
      BY <3>2
    <3>4. d.filled = (due # <<>>)
      BY <3>1, <3>3
    <3>5. Len(due) = d.remaining + (IF d.filled THEN 1 ELSE 0)
      BY <2>2, <3>2, <3>3
    <3> QED
      BY <2>2, <3>4, <3>5 DEF DmcPlays
  <2> QED
    BY <2>1, <2>2
<1> QED
  BY <1>1, <1>2, <1>3 DEF ChannelsOK

LEMMA ChannelsStay == Spec => []ChannelsInv
<1>1. Init => ChannelsInv
  <2> SUFFICES ASSUME Init PROVE ChannelsInv
    OBVIOUS
  <2>1. IInv /\ TypeOK
    BY ClockAssumption, TableAssumption, SMT DEF Init, IInv, TypeOK, StoppedClock
  <2>2. chan = Silence /\ due = <<>> /\ io.program \in Programs /\ clk = StoppedClock /\ left = 0
    BY DEF Init
  <2>3. clk.cpu = clk.cycles % Wrap /\ clk.cycles + left <= MaxCycles
    <3>1. clk.cpu = 0 /\ clk.cycles = 0
      BY <2>2 DEF StoppedClock
    <3> QED
      BY <2>2, <3>1, NothingCounted
  <2> QED
    BY <2>1, <2>2, <2>3, ChannelsAtRest DEF ChannelsInv
<1>2. ChannelsInv /\ IInv' /\ [Next]_apuVars => ChannelsInv'
  <2> SUFFICES ASSUME ChannelsInv, IInv', [Next]_apuVars PROVE ChannelsInv'
    OBVIOUS
  <2>1. CASE Batch
    <3>1. io' = io
      BY <2>1 DEF Batch
    <3> QED
      BY <2>1, <3>1, ClockTyped, BatchPlays DEF ChannelsInv
  <2>2. ASSUME NEW n \in Calls, Call(n) PROVE ChannelsInv'
    <3>1. chan' = chan /\ due' = due /\ io' = io /\ clk' = clk /\ clk'.cycles + left' <= MaxCycles
      BY <2>2 DEF Call
    <3>2. TypeOK'
      BY <3>1 DEF ChannelsInv, TypeOK, IInv
    <3> QED
      BY <3>1, <3>2 DEF ChannelsInv
  <2>3. ASSUME NEW w \in io.program, Write(w) PROVE ChannelsInv'
    <3>1. io'.program = io.program /\ clk' = clk /\ left' = left
      BY <2>3 DEF Write
    <3>2. /\ IsChannels(chan') /\ InFrame(chan') /\ chan'.dmc \in DmcType /\ DueIs(chan'.dmc, due')
      BY <2>3, WritePlays
    <3> QED
      BY <3>1, <3>2 DEF ChannelsInv, TypeOK
  <2>4. CASE Reset
    <3>1. io'.program = io.program /\ chan' = Silence /\ due' = <<>> /\ clk' = StoppedClock /\ left' = left
          /\ left = 0
      BY <2>4 DEF Reset
    <3>2. TypeOK'
      BY <3>1, ClockAssumption, TableAssumption DEF TypeOK, StoppedClock, ChannelsInv
    <3>3. clk'.cpu = clk'.cycles % Wrap /\ clk'.cycles + left' <= MaxCycles
      <4>1. clk'.cpu = 0 /\ clk'.cycles = 0 /\ left' = 0
        BY <3>1 DEF StoppedClock
      <4> QED
        BY <4>1, NothingCounted
    <3> QED
      BY <3>1, <3>2, <3>3, ChannelsAtRest DEF ChannelsInv
  <2>5. CASE UNCHANGED apuVars
    BY <2>5 DEF apuVars, ChannelsInv, TypeOK
  <2> QED
    BY <2>1, <2>2, <2>3, <2>4, <2>5 DEF Next
<1> QED
  BY <1>1, <1>2, Invariance, PTL DEF Spec

(* The channels stay in the ranges of their timers, and the DMC plays each *)
(* byte that it was given once, in order, and none too late: of every      *)
(* clock, sample rate and program, of samples of any length and at any     *)
(* address, over starts, stops, loops and the end of the address space.    *)
THEOREM PlaysAsGiven == Spec => []ChannelsOK
<1>1. ChannelsInv => ChannelsOK
  BY ChannelsShow
<1> QED
  BY <1>1, ChannelsStay, PTL

-----------------------------------------------------------------------------
(* A batch against its cycles, one channel at a time: one cycle more.      *)
LEMMA TimerOnce ==
  ASSUME NEW c \in Nat, NEW p \in Nat, NEW n \in Nat
  PROVE  LET k == CounterAfter(c, p, n)
         IN  /\ CounterAfter(c, p, n + 1) = IF k = 0 THEN p ELSE k - 1
             /\ Fires(c, p, n + 1) = Fires(c, p, n) + (IF k = 0 THEN 1 ELSE 0)
             /\ k \in Nat /\ Fires(c, p, n) \in Nat
<1> DEFINE r == [counter |-> c, period |-> p]
           k == CounterAfter(c, p, n)
           m == CounterAfter(c, p, n + 1)
<1>1. r \in [counter : Nat, period : Nat] /\ r.counter = c /\ r.period = p
  OBVIOUS
<1>2. Advance(r, n) = [counter |-> k, period |-> p] /\ Advance(r, n + 1) = [counter |-> m, period |-> p]
  BY DEF Advance
<1>3. /\ Advance(r, n + 1) = Tick(Advance(r, n))
      /\ Fires(c, p, n + 1) = Fires(c, p, n) + (IF Advance(r, n).counter = 0 THEN 1 ELSE 0)
  <2> HIDE DEF r
  <2> QED
    BY <1>1, OneCycleMore
<1> HIDE DEF r, k, m
<1>4. Tick([counter |-> k, period |-> p]) = [counter |-> IF k = 0 THEN p ELSE k - 1, period |-> p]
  BY DEF Tick
<1>5. m = IF k = 0 THEN p ELSE k - 1
  <2>1. [counter |-> m, period |-> p] = [counter |-> IF k = 0 THEN p ELSE k - 1, period |-> p]
    BY <1>2, <1>3, <1>4
  <2> DEFINE x == IF k = 0 THEN p ELSE k - 1
  <2> HIDE DEF x
  <2>2. [counter |-> m, period |-> p].counter = [counter |-> x, period |-> p].counter
    BY <2>1 DEF x
  <2> QED
    BY <2>2 DEF x
<1>6. Fires(c, p, n + 1) = Fires(c, p, n) + (IF k = 0 THEN 1 ELSE 0)
  BY <1>2, <1>3
<1> QED
  BY <1>5, <1>6, TimerTyped DEF k, m

(* Steps of a waveform, counted modulo its length.                         *)
LEMMA StepOnce ==
  ASSUME NEW step \in Nat, NEW f \in Nat, NEW m \in Nat \ {0}
  PROVE  (((step + f) % m) + 1) % m = (step + (f + 1)) % m
<1> DEFINE a == step + f
<1>1. a \in Int /\ a + 1 = step + (f + 1) /\ 1 \in Int
  OBVIOUS
<1> HIDE DEF a
<1>2. ((a % m) + 1) % m = (a + 1) % m
  BY <1>1, ModPlus
<1> QED
  BY <1>1, <1>2 DEF a

PulseAt(p, k, s) == [p EXCEPT !.counter = k, !.step = s]

LEMMA PulseTicks ==
  ASSUME NEW p, IsPulse(p), NEW k, NEW s
  PROVE  PulseCycle(PulseAt(p, k, s))
           = PulseAt(p, IF k = 0 THEN p.period ELSE k - 1, IF k = 0 THEN (s + 1) % 8 ELSE s)
<1> DEFINE e == [p EXCEPT !.counter = k, !.step = s]
           next == IF k = 0 THEN p.period ELSE k - 1
           after == IF k = 0 THEN (s + 1) % 8 ELSE s
           t == Tick(e)
<1>1. e.counter = k /\ e.period = p.period /\ e.step = s /\ e = [field \in PulseFields |-> e[field]]
  BY DEF IsPulse, PulseFields
<1>2. t = [e EXCEPT !.counter = next]
  <2> HIDE DEF e
  <2> QED
    BY <1>1 DEF Tick
<1>3. t.step = s
  <2> HIDE DEF e, next
  <2> QED
    BY <1>1, <1>2 DEF PulseFields
<1>4. PulseCycle(e) = [t EXCEPT !.step = after]
  <2> HIDE DEF e
  <2> QED
    BY <1>1, <1>3 DEF PulseCycle
<1> HIDE DEF t, next, after
<1>5. [t EXCEPT !.step = after] = [p EXCEPT !.counter = next, !.step = after]
  BY <1>2 DEF IsPulse, PulseFields
<1> QED
  BY <1>4, <1>5 DEF next, after, PulseAt

LEMMA PulseOnce ==
  ASSUME NEW p, IsPulse(p), NEW n \in Nat
  PROVE  PulseBatch(p, n + 1) = PulseCycle(PulseBatch(p, n))
<1> DEFINE k(m) == CounterAfter(p.counter, p.period, m)
           f(m) == Fires(p.counter, p.period, m)
           s(m) == (p.step + f(m)) % 8
<1>1. p.counter \in Nat /\ p.period \in Nat /\ p.step \in Nat
  BY RegisterAssumption DEF IsPulse
<1>2. ASSUME NEW m PROVE PulseBatch(p, m) = [p EXCEPT !.counter = k(m), !.step = s(m)]
  <2> DEFINE a == Advance(p, m)
  <2>1. a = [p EXCEPT !.counter = k(m)]
    BY DEF Advance, IsPulse
  <2>2. PulseBatch(p, m) = [a EXCEPT !.step = (a.step + f(m)) % 8]
    BY DEF PulseBatch
  <2>3. a.step = p.step
    <3> HIDE DEF k
    <3> QED
      BY <2>1 DEF IsPulse, PulseFields
  <2> HIDE DEF a, k, f
  <2>4. PulseBatch(p, m) = [a EXCEPT !.step = s(m)]
    BY <2>2, <2>3
  <2> HIDE DEF s
  <2> QED
    BY <2>1, <2>4
<1>3. /\ k(n + 1) = IF k(n) = 0 THEN p.period ELSE k(n) - 1
      /\ f(n + 1) = f(n) + (IF k(n) = 0 THEN 1 ELSE 0) /\ f(n) \in Nat
  BY <1>1, TimerOnce
<1>4. s(n + 1) = IF k(n) = 0 THEN (s(n) + 1) % 8 ELSE s(n)
  <2>1. CASE k(n) = 0
    <3>1. f(n + 1) = f(n) + 1
      BY <1>3, <2>1
    <3> HIDE DEF f
    <3>2. (((p.step + f(n)) % 8) + 1) % 8 = (p.step + (f(n) + 1)) % 8
      <4>1. p.step \in Nat /\ f(n) \in Nat /\ 8 \in Nat \ {0}
        BY <1>1, <1>3
      <4> QED
        BY <4>1, StepOnce
    <3> QED
      BY <2>1, <3>1, <3>2
  <2>2. CASE k(n) # 0
    <3>1. f(n + 1) = f(n)
      BY <1>3, <2>2
    <3> HIDE DEF f
    <3> QED
      BY <2>2, <3>1
  <2> QED
    BY <2>1, <2>2
<1>5. /\ PulseBatch(p, n) = [p EXCEPT !.counter = k(n), !.step = s(n)]
      /\ PulseBatch(p, n + 1) = [p EXCEPT !.counter = k(n + 1), !.step = s(n + 1)]
  <2> HIDE DEF k, s
  <2> QED
    BY <1>2
<1> HIDE DEF k, f, s
<1>6. PulseCycle(PulseAt(p, k(n), s(n))) = PulseAt(p, k(n + 1), s(n + 1))
  <2>1. PulseCycle(PulseAt(p, k(n), s(n)))
          = PulseAt(p, IF k(n) = 0 THEN p.period ELSE k(n) - 1,
                    IF k(n) = 0 THEN (s(n) + 1) % 8 ELSE s(n))
    BY PulseTicks
  <2> QED
    BY <1>3, <1>4, <2>1
<1> QED
  BY <1>5, <1>6 DEF PulseAt

(* The triangle as the reference has it, which stops at short periods.     *)
TriangleTimes(t, n) ==
  [Advance(t, n) EXCEPT
     !.step = IF t.enabled /\ t.length > 0 /\ t.linear > 0 /\ t.period >= 2
              THEN (@ + Fires(t.counter, t.period, n)) % 32 ELSE @]

LEMMA TriangleOnce ==
  ASSUME NEW t, IsTriangle(t), NEW n \in Nat
  PROVE  /\ TriangleTimes(t, 0) = t
         /\ TriangleTimes(t, n + 1) = TriangleCycle(TriangleTimes(t, n))
<1> DEFINE k(m) == CounterAfter(t.counter, t.period, m)
           f(m) == Fires(t.counter, t.period, m)
           sounds == t.enabled /\ t.length > 0 /\ t.linear > 0 /\ t.period >= 2
           s(m) == IF sounds THEN (t.step + f(m)) % 32 ELSE t.step
<1>1. t.counter \in Nat /\ t.period \in Nat /\ t.step \in 0 .. 31
  BY DEF IsTriangle, TriangleFields
<1>2. ASSUME NEW m PROVE TriangleTimes(t, m) = [t EXCEPT !.counter = k(m), !.step = s(m)]
  <2> DEFINE a == Advance(t, m)
  <2>1. a = [t EXCEPT !.counter = k(m)]
    BY DEF Advance, IsTriangle, TriangleFields
  <2>2. TriangleTimes(t, m) = [a EXCEPT !.step = IF sounds THEN (a.step + f(m)) % 32 ELSE a.step]
    BY DEF TriangleTimes
  <2>3. a.step = t.step
    <3> HIDE DEF k
    <3> QED
      BY <2>1 DEF IsTriangle, TriangleFields
  <2> HIDE DEF a, k, f, sounds
  <2>4. TriangleTimes(t, m) = [a EXCEPT !.step = s(m)]
    BY <2>2, <2>3
  <2> HIDE DEF s
  <2> QED
    BY <2>1, <2>4
<1>3. /\ k(n + 1) = IF k(n) = 0 THEN t.period ELSE k(n) - 1
      /\ f(n + 1) = f(n) + (IF k(n) = 0 THEN 1 ELSE 0) /\ f(n) \in Nat
  BY <1>1, TimerOnce
<1>4. s(n + 1) = IF k(n) = 0 /\ sounds THEN (s(n) + 1) % 32 ELSE s(n)
  <2> HIDE DEF sounds
  <2>1. CASE k(n) = 0 /\ sounds
    <3>1. f(n + 1) = f(n) + 1
      BY <1>3, <2>1
    <3> HIDE DEF f
    <3>2. (((t.step + f(n)) % 32) + 1) % 32 = (t.step + (f(n) + 1)) % 32
      <4>1. t.step \in Nat /\ f(n) \in Nat /\ 32 \in Nat \ {0}
        BY <1>1, <1>3
      <4> QED
        BY <4>1, StepOnce
    <3> QED
      BY <2>1, <3>1, <3>2
  <2>2. CASE k(n) # 0
    <3>1. f(n + 1) = f(n)
      BY <1>3, <2>2
    <3> HIDE DEF f
    <3> QED
      BY <2>2, <3>1
  <2>3. CASE ~sounds
    BY <2>3
  <2> QED
    BY <2>1, <2>2, <2>3
<1>5. ASSUME NEW x, NEW y
      PROVE  TriangleCycle([t EXCEPT !.counter = x, !.step = y])
               = [t EXCEPT !.counter = IF x = 0 THEN t.period ELSE x - 1,
                           !.step = IF x = 0 /\ sounds THEN (y + 1) % 32 ELSE y]
  <2> DEFINE e == [t EXCEPT !.counter = x, !.step = y]
             next == IF x = 0 THEN t.period ELSE x - 1
             a == Tick(e)
  <2>1. /\ e.counter = x /\ e.period = t.period /\ e.step = y /\ e.enabled = t.enabled
        /\ e.length = t.length /\ e.linear = t.linear
    BY DEF IsTriangle, TriangleFields
  <2>2. e = [field \in TriangleFields |->
               IF field = "counter" THEN x ELSE IF field = "step" THEN y ELSE t[field]]
    BY DEF IsTriangle, TriangleFields
  <2> HIDE DEF e
  <2>3. a = [e EXCEPT !.counter = next]
    BY <2>1 DEF Tick
  <2>4. a.step = y
    <3> HIDE DEF a, next
    <3> QED
      BY <2>2, <2>3 DEF TriangleFields
  <2> DEFINE after == IF x = 0 /\ sounds THEN (y + 1) % 32 ELSE y
  <2>5. TriangleCycle(e) = [a EXCEPT !.step = after]
    <3>1. TriangleCycle(e) =
            [a EXCEPT !.step = IF e.counter = 0 /\ e.enabled /\ e.length > 0 /\ e.linear > 0 /\ e.period >= 2
                               THEN (a.step + 1) % 32 ELSE a.step]
      BY DEF TriangleCycle
    <3> HIDE DEF a
    <3> QED
      BY <2>1, <2>4, <3>1
  <2> HIDE DEF a, after, next
  <2>6. [a EXCEPT !.step = after] = [t EXCEPT !.counter = next, !.step = after]
    BY <2>2, <2>3 DEF IsTriangle, TriangleFields
  <2> QED
    BY <2>5, <2>6 DEF next, after, e
<1>6. TriangleTimes(t, 0) = t
  <2>1. k(0) = t.counter /\ f(0) = 0
    BY <1>1, TimerTyped
  <2>2. s(0) = t.step
    <3>1. (t.step + 0) % 32 = t.step
      BY <1>1
    <3> QED
      BY <2>1, <3>1
  <2>3. TriangleTimes(t, 0) = [t EXCEPT !.counter = k(0), !.step = s(0)]
    <3> HIDE DEF k, s
    <3> QED
      BY <1>2
  <2> HIDE DEF k, s
  <2> QED
    BY <2>1, <2>2, <2>3 DEF IsTriangle, TriangleFields
<1> HIDE DEF k, f, s, sounds
<1>7. /\ TriangleTimes(t, n) = [t EXCEPT !.counter = k(n), !.step = s(n)]
      /\ TriangleTimes(t, n + 1) = [t EXCEPT !.counter = k(n + 1), !.step = s(n + 1)]
  BY <1>2
<1>8. TriangleCycle([t EXCEPT !.counter = k(n), !.step = s(n)])
        = [t EXCEPT !.counter = k(n + 1), !.step = s(n + 1)]
  BY <1>3, <1>4, <1>5
<1> QED
  BY <1>6, <1>7, <1>8

NextLfsr(r, mode) == r \div 2 + ((r + r \div (IF mode THEN 64 ELSE 2)) % 2) * 2 ^ 14

Counted(c, k) == [c EXCEPT !.counter = k]

LEMMA NoiseTicks ==
  ASSUME NEW c, IsNoise(c), NEW k
  PROVE  NoiseCycle(Counted(c, k))
           = IF k = 0 THEN Counted(Shift(c), c.period) ELSE Counted(c, k - 1)
<1> DEFINE e == Counted(c, k)
           r == NextLfsr(c.lfsr, c.mode)
<1>1. /\ e.counter = k /\ e.period = c.period /\ e.lfsr = c.lfsr /\ e.mode = c.mode
      /\ e = [field \in NoiseFields |-> IF field = "counter" THEN k ELSE c[field]]
  BY DEF Counted, IsNoise, NoiseFields
<1>2. \A x : Shift(x) = [x EXCEPT !.lfsr = NextLfsr(x.lfsr, x.mode)]
  BY DEF Shift, NextLfsr
<1> HIDE DEF e
<1>3. Shift(e) = [e EXCEPT !.lfsr = r] /\ Shift(c) = [c EXCEPT !.lfsr = r]
  <2>1. Shift(e) = [e EXCEPT !.lfsr = NextLfsr(e.lfsr, e.mode)]
    BY <1>2
  <2> QED
    BY <1>1, <1>2, <2>1
<1> HIDE DEF r
<1>4. CASE k = 0
  <2> DEFINE s == Shift(e)
  <2>1. NoiseCycle(e) = Tick(s)
    BY <1>1, <1>4 DEF NoiseCycle
  <2>2. s.counter = 0 /\ s.period = c.period
    BY <1>1, <1>3, <1>4 DEF NoiseFields
  <2> HIDE DEF s
  <2>3. Tick(s) = [s EXCEPT !.counter = c.period]
    BY <2>2 DEF Tick
  <2>4. [s EXCEPT !.counter = c.period] = [Shift(c) EXCEPT !.counter = c.period]
    BY <1>1, <1>3 DEF s, NoiseFields, IsNoise
  <2> QED
    BY <1>4, <2>1, <2>3, <2>4 DEF Counted, e
<1>5. CASE k # 0
  <2>1. NoiseCycle(e) = [e EXCEPT !.counter = k - 1]
    BY <1>1, <1>5 DEF NoiseCycle, Tick
  <2>2. [e EXCEPT !.counter = k - 1] = [c EXCEPT !.counter = k - 1]
    BY <1>1 DEF NoiseFields, IsNoise
  <2> QED
    BY <1>5, <2>1, <2>2 DEF Counted, e
<1> QED
  BY <1>4, <1>5

LEMMA NoiseOnce ==
  ASSUME NEW c, IsNoise(c), NEW n \in Nat
  PROVE  NoiseBatch(c, n + 1) = NoiseCycle(NoiseBatch(c, n))
<1> DEFINE k(m) == CounterAfter(c.counter, c.period, m)
           f(m) == Fires(c.counter, c.period, m)
           s(m) == Times(Shift, c, m)
<1>1. c.counter \in Nat /\ c.period \in Nat
  BY DEF IsNoise, NoiseFields
<1>2. ASSUME NEW m \in Nat
      PROVE  f(m) \in Nat /\ NoiseBatch(c, m) = Counted(s(f(m)), k(m))
  <2>1. f(m) \in Nat
    BY <1>1, TimerTyped
  <2> DEFINE e == s(f(m))
  <2>2. IsNoise(e) /\ e.counter = c.counter /\ e.period = c.period
    BY <2>1, NoiseShifted
  <2>3. NoiseBatch(c, m) = Advance(e, m)
    BY DEF NoiseBatch
  <2> HIDE DEF e
  <2>4. Advance(e, m) = [e EXCEPT !.counter = k(m)]
    BY <2>2 DEF Advance
  <2> QED
    BY <2>1, <2>3, <2>4 DEF Counted, e
<1>3. /\ k(n + 1) = IF k(n) = 0 THEN c.period ELSE k(n) - 1
      /\ f(n + 1) = f(n) + (IF k(n) = 0 THEN 1 ELSE 0) /\ f(n) \in Nat
  BY <1>1, TimerOnce
<1>4. IsNoise(s(f(n))) /\ s(f(n)).period = c.period /\ s(f(n) + 1) = Shift(s(f(n)))
  BY <1>3, NoiseShifted, ShiftOneMore
<1> DEFINE e == s(f(n))
<1>5. NoiseBatch(c, n) = Counted(e, k(n)) /\ NoiseBatch(c, n + 1) = Counted(s(f(n + 1)), k(n + 1))
  BY <1>2
<1> HIDE DEF k
<1>6. NoiseCycle(Counted(e, k(n)))
        = IF k(n) = 0 THEN Counted(Shift(e), c.period) ELSE Counted(e, k(n) - 1)
  <2> HIDE DEF e
  <2> QED
    BY <1>4, NoiseTicks DEF e
<1>7. s(f(n + 1)) = IF k(n) = 0 THEN Shift(e) ELSE e
  <2>1. k(n) = 0 => f(n + 1) = f(n) + 1
    BY <1>3
  <2>2. k(n) # 0 => f(n + 1) = f(n)
    BY <1>3
  <2> HIDE DEF f, s
  <2> QED
    BY <1>4, <2>1, <2>2
<1> HIDE DEF e, s, f
<1> QED
  BY <1>3, <1>5, <1>6, <1>7

LEMMA FetchedCounted ==
  ASSUME NEW d \in DmcType, NEW k \in Nat
  PROVE  Fetched(Counted(d, k)) = Counted(Fetched(d), k)
<1> DEFINE e == Counted(d, k)
           loops == d.remaining = 1 /\ d.loop
           current == IF loops THEN d.address ELSE Place(d.current, 1)
           remaining == IF loops THEN d.size ELSE d.remaining - 1
<1>1. /\ e \in DmcType /\ e.filled = d.filled /\ e.remaining = d.remaining /\ e.loop = d.loop
      /\ e.address = d.address /\ e.current = d.current /\ e.size = d.size
  BY DEF Counted, DmcType
<1>2. CASE d.filled \/ d.remaining = 0
  BY <1>1, <1>2 DEF Fetched
<1>3. CASE ~(d.filled \/ d.remaining = 0)
  <2>1. d.remaining > 0
    BY <1>3 DEF DmcType
  <2>2. Fetched(d) = [d EXCEPT !.buffer = d.current, !.filled = TRUE,
                               !.current = current, !.remaining = remaining]
    BY <1>3, <2>1, FetchedIs
  <2> HIDE DEF e
  <2>3. Fetched(e) = [e EXCEPT !.buffer = d.current, !.filled = TRUE,
                               !.current = current, !.remaining = remaining]
    <3>1. ~e.filled /\ e.remaining > 0
      BY <1>1, <1>3, <2>1
    <3> QED
      BY <1>1, <3>1, FetchedIs
  <2> HIDE DEF current, remaining
  <2> QED
    BY <2>2, <2>3 DEF Counted, DmcType, e
<1> QED
  BY <1>2, <1>3

LEMMA DmcCounted ==
  ASSUME NEW d \in DmcType, NEW k \in Nat
  PROVE  DmcClock(Counted(d, k)) = Counted(DmcClock(d), k)
<1> DEFINE up == d.shift % 2 = 1
           level == IF d.silent THEN d.level
                    ELSE IF up THEN (IF d.level <= LevelMax - 2 THEN d.level + 2 ELSE d.level)
                    ELSE IF d.level >= 2 THEN d.level - 2 ELSE d.level
           bits == IF d.bits > 0 THEN d.bits - 1 ELSE 0
           c == Counted(d, k)
           Bit(x) == [x EXCEPT !.level = level, !.bits = bits]
           Next8(x) == [Bit(x) EXCEPT !.bits = BitsOfByte, !.silent = FALSE, !.shift = d.buffer,
                                      !.filled = FALSE, !.loads = d.loads + 1]
           Quiet(x) == [Bit(x) EXCEPT !.bits = BitsOfByte, !.silent = TRUE]
           Clock1(x) == IF bits > 0 THEN Bit(x)
                        ELSE IF d.filled THEN Fetched(Next8(x)) ELSE Quiet(x)
<1>0. BitsOfByte \in Nat \ {0}
  BY RegisterAssumption
<1>1. /\ c \in DmcType /\ c.shift = d.shift /\ c.silent = d.silent /\ c.level = d.level
      /\ c.bits = d.bits /\ c.filled = d.filled /\ c.buffer = d.buffer /\ c.loads = d.loads
  BY DEF Counted, DmcType
<1>2. level \in Int /\ bits \in 0 .. BitsOfByte /\ d.loads + 1 \in Nat /\ d.buffer \in Nat
      /\ BitsOfByte \in 0 .. BitsOfByte
  BY <1>0 DEF DmcType
<1>3. DmcClock(d) = Clock1(d)
  BY DEF DmcClock, DmcType
<1>4. DmcClock(c) = Clock1(c)
  <2> HIDE DEF c
  <2> QED
    BY <1>1 DEF DmcClock, DmcType
<1> HIDE DEF level, bits
<1>5. Bit(c) = Counted(Bit(d), k) /\ Quiet(c) = Counted(Quiet(d), k)
  BY DEF Counted, DmcType
<1>6. Next8(c) = Counted(Next8(d), k)
  BY DEF Counted, DmcType
<1>7. Next8(d) \in DmcType
  BY <1>2 DEF DmcType
<1> HIDE DEF Bit, Next8, Quiet, c
<1>8. Fetched(Next8(c)) = Counted(Fetched(Next8(d)), k)
  BY <1>6, <1>7, FetchedCounted
<1> QED
  BY <1>3, <1>4, <1>5, <1>8 DEF c

LEMMA DmcTicks ==
  ASSUME NEW d \in DmcType, NEW k \in Nat
  PROVE  DmcCycle(Counted(d, k))
           = IF k = 0 THEN Counted(DmcClock(d), d.period) ELSE Counted(d, k - 1)
<1> DEFINE e == Counted(d, k)
           g == DmcClock(d)
<1>1. e.counter = k /\ e.period = d.period
  BY DEF Counted, DmcType
<1>2. g \in DmcType /\ g.period = d.period
  <2>1. Keeps(g, d) \/ Keeps(g, Loaded(d))
    <3>1. d.bits > 1 \/ d.bits <= 1
      BY DEF DmcType
    <3> QED
      BY <3>1, DmcClocked
  <2> QED
    BY <2>1, DmcClocked, LoadedIs DEF Keeps
<1>3. CASE k = 0
  <2> DEFINE s == Counted(g, k)
  <2>1. DmcClock(e) = s
    BY DmcCounted
  <2> HIDE DEF g, e
  <2>2. s.counter = k /\ s.period = d.period
    BY <1>2 DEF Counted, DmcType
  <2>3. DmcCycle(e) = Tick(s)
    BY <1>1, <1>3, <2>1 DEF DmcCycle
  <2>4. [s EXCEPT !.counter = d.period] = [g EXCEPT !.counter = d.period]
    BY <1>2 DEF Counted, DmcType
  <2> HIDE DEF s
  <2>5. Tick(s) = [s EXCEPT !.counter = d.period]
    BY <1>3, <2>2 DEF Tick
  <2> QED
    BY <1>3, <2>3, <2>4, <2>5 DEF Counted, e, g
<1>4. CASE k # 0
  <2>1. [e EXCEPT !.counter = k - 1] = [d EXCEPT !.counter = k - 1]
    BY DEF Counted, DmcType
  <2> HIDE DEF e
  <2>2. DmcCycle(e) = [e EXCEPT !.counter = k - 1]
    BY <1>1, <1>4 DEF DmcCycle, Tick
  <2> QED
    BY <1>4, <2>1, <2>2 DEF Counted, e
<1> QED
  BY <1>3, <1>4

(* Clocks change neither the counter nor the period.                       *)
LEMMA DmcClocks ==
  ASSUME NEW d \in DmcType, NEW n \in Nat
  PROVE  LET e == Times(DmcClock, d, n)
         IN  e \in DmcType /\ e.counter = d.counter /\ e.period = d.period
<1> DEFINE Good(k) == LET e == Times(DmcClock, d, k)
                      IN  e \in DmcType /\ e.counter = d.counter /\ e.period = d.period
           Bad == {k \in Nat : ~Good(k)}
<1>1. Good(0)
  <2>1. Times(DmcClock, d, 0) = d
    BY DmcOneMore
  <2> QED
    BY <2>1
<1>2. ASSUME NEW k \in Nat, Good(k) PROVE Good(k + 1)
  <2> DEFINE e == Times(DmcClock, d, k)
  <2>1. Times(DmcClock, d, k + 1) = DmcClock(e)
    BY DmcOneMore
  <2>2. e \in DmcType /\ e.counter = d.counter /\ e.period = d.period
    BY <1>2
  <2> HIDE DEF e
  <2>3. e.bits > 1 \/ e.bits <= 1
    BY <2>2, RegisterAssumption DEF DmcType
  <2>4. DmcClock(e) \in DmcType /\ (Keeps(DmcClock(e), e) \/ Keeps(DmcClock(e), Loaded(e)))
    BY <2>2, <2>3, DmcClocked
  <2>5. DmcClock(e).counter = d.counter /\ DmcClock(e).period = d.period
    BY <2>2, <2>4, LoadedIs DEF Keeps
  <2> QED
    BY <2>1, <2>4, <2>5
<1> HIDE DEF Good
<1>3. Bad = {}
  <2> SUFFICES ASSUME Bad # {} PROVE FALSE
    OBVIOUS
  <2>1. Bad \in SUBSET Nat
    OBVIOUS
  <2>2. PICK k \in Bad : \A j \in Bad : k <= j
    BY <2>1, LeastNatural
  <2>3. k \in Nat /\ k # 0
    BY <1>1, <2>2
  <2>4. k - 1 \in Nat /\ k - 1 \notin Bad /\ (k - 1) + 1 = k
    BY <2>2, <2>3
  <2> QED
    BY <1>2, <2>2, <2>4
<1>4. Good(n)
  BY <1>3
<1> QED
  BY <1>4 DEF Good

LEMMA DmcOnce ==
  ASSUME NEW d \in DmcType, NEW n \in Nat
  PROVE  DmcBatch(d, 0) = d /\ DmcBatch(d, n + 1) = DmcCycle(DmcBatch(d, n))
<1> DEFINE k(m) == CounterAfter(d.counter, d.period, m)
           f(m) == Fires(d.counter, d.period, m)
           s(m) == Times(DmcClock, d, m)
<1>1. d.counter \in Nat /\ d.period \in Nat
  BY DEF DmcType, DmcPeriods
<1>2. ASSUME NEW m \in Nat
      PROVE  f(m) \in Nat /\ DmcBatch(d, m) = Counted(s(f(m)), k(m))
  <2>1. f(m) \in Nat
    BY <1>1, TimerTyped
  <2> DEFINE e == s(f(m))
  <2>2. e.counter = d.counter /\ e.period = d.period
    BY <2>1, DmcClocks
  <2>3. DmcBatch(d, m) = Advance(e, m)
    BY DEF DmcBatch
  <2> HIDE DEF e
  <2>4. Advance(e, m) = [e EXCEPT !.counter = k(m)]
    BY <2>2 DEF Advance
  <2> QED
    BY <2>1, <2>3, <2>4 DEF Counted, e
<1>3. /\ k(n + 1) = IF k(n) = 0 THEN d.period ELSE k(n) - 1
      /\ f(n + 1) = f(n) + (IF k(n) = 0 THEN 1 ELSE 0) /\ f(n) \in Nat /\ k(n) \in Nat
  BY <1>1, TimerOnce
<1>4. s(f(n)) \in DmcType /\ s(f(n)).period = d.period /\ s(f(n) + 1) = DmcClock(s(f(n)))
  BY <1>3, DmcClocks, DmcOneMore
<1> DEFINE e == s(f(n))
<1>5. DmcBatch(d, n) = Counted(e, k(n)) /\ DmcBatch(d, n + 1) = Counted(s(f(n + 1)), k(n + 1))
  BY <1>2
<1>8. DmcBatch(d, 0) = d
  <2>1. k(0) = d.counter /\ f(0) = 0
    BY <1>1, TimerTyped
  <2>2. s(0) = d
    BY DmcOneMore
  <2>3. DmcBatch(d, 0) = Counted(s(f(0)), k(0))
    BY <1>2
  <2> HIDE DEF k, s, f
  <2> QED
    BY <2>1, <2>2, <2>3 DEF Counted, DmcType
<1> HIDE DEF k
<1>6. DmcCycle(Counted(e, k(n)))
        = IF k(n) = 0 THEN Counted(DmcClock(e), d.period) ELSE Counted(e, k(n) - 1)
  <2>1. k(n) \in Nat
    BY <1>3
  <2> HIDE DEF e
  <2> QED
    BY <1>4, <2>1, DmcTicks DEF e
<1>7. s(f(n + 1)) = IF k(n) = 0 THEN DmcClock(e) ELSE e
  <2>1. k(n) = 0 => f(n + 1) = f(n) + 1
    BY <1>3
  <2>2. k(n) # 0 => f(n + 1) = f(n)
    BY <1>3
  <2> HIDE DEF f, s
  <2> QED
    BY <1>4, <2>1, <2>2
<1> HIDE DEF e, s, f
<1> QED
  BY <1>3, <1>5, <1>6, <1>7, <1>8

-----------------------------------------------------------------------------
(* All the timers, n cycles of the CPU and a of its own on.                *)
Timed(f, n, a) ==
  [pulse |-> [i \in {1, 2} |-> PulseBatch(f.pulse[i], a)], tri |-> TriangleTimes(f.tri, n),
   noise |-> NoiseBatch(f.noise, a), dmc |-> DmcBatch(f.dmc, n), frame |-> f.frame]

LEMMA NotYetTimed ==
  ASSUME NEW f, IsChannels(f), f.dmc \in DmcType
  PROVE  Timed(f, 0, 0) = f
<1> DEFINE p == [i \in {1, 2} |-> PulseBatch(f.pulse[i], 0)]
<1>1. p = f.pulse
  <2>1. \A i \in {1, 2} : PulseBatch(f.pulse[i], 0) = f.pulse[i]
    BY Idle DEF IsChannels
  <2>2. p = [i \in {1, 2} |-> f.pulse[i]]
    BY <2>1
  <2> QED
    BY <2>2 DEF IsChannels
<1>2. NoiseBatch(f.noise, 0) = f.noise
  BY Idle DEF IsChannels
<1>3. 0 \in Nat
  OBVIOUS
<1>4. TriangleTimes(f.tri, 0) = f.tri /\ DmcBatch(f.dmc, 0) = f.dmc
  BY <1>3, TriangleOnce, DmcOnce DEF IsChannels
<1>5. Timed(f, 0, 0) = [pulse |-> p, tri |-> TriangleTimes(f.tri, 0), noise |-> NoiseBatch(f.noise, 0),
                        dmc |-> DmcBatch(f.dmc, 0), frame |-> f.frame]
  BY DEF Timed
<1> HIDE DEF p
<1>6. Timed(f, 0, 0) = [pulse |-> f.pulse, tri |-> f.tri, noise |-> f.noise, dmc |-> f.dmc,
                        frame |-> f.frame]
  BY <1>1, <1>2, <1>4, <1>5
<1> QED
  BY <1>6 DEF IsChannels

LEMMA TimedOnce ==
  ASSUME NEW f, IsChannels(f), f.dmc \in DmcType, NEW n \in Nat, NEW a \in Nat, NEW even
  PROVE  TimersCycle(Timed(f, n, a), even) = Timed(f, n + 1, IF even THEN a + 1 ELSE a)
<1> DEFINE b == IF even THEN a + 1 ELSE a
           e == Timed(f, n, a)
           g == Timed(f, n + 1, b)
           p == [i \in {1, 2} |-> IF even THEN PulseCycle(e.pulse[i]) ELSE e.pulse[i]]
           noise == IF even THEN NoiseCycle(e.noise) ELSE e.noise
           tri == TriangleCycle(e.tri)
           dmc == DmcCycle(e.dmc)
<1>1. TimersCycle(e, even) = [e EXCEPT !.pulse = p, !.noise = noise, !.tri = tri, !.dmc = dmc]
  BY DEF TimersCycle, Timed
<1>2. p = g.pulse
  <2>1. ASSUME NEW i \in {1, 2}
        PROVE  (IF even THEN PulseCycle(e.pulse[i]) ELSE e.pulse[i]) = PulseBatch(f.pulse[i], b)
    <3>1. IsPulse(f.pulse[i])
      BY DEF IsChannels
    <3>2. e.pulse[i] = PulseBatch(f.pulse[i], a)
      BY DEF Timed
    <3>3. PulseBatch(f.pulse[i], a + 1) = PulseCycle(PulseBatch(f.pulse[i], a))
      BY <3>1, PulseOnce
    <3> HIDE DEF e
    <3> QED
      BY <3>2, <3>3
  <2>2. g.pulse = [i \in {1, 2} |-> PulseBatch(f.pulse[i], b)]
    BY DEF Timed
  <2> HIDE DEF e, g, b
  <2> QED
    BY <2>1, <2>2
<1>3. noise = g.noise
  <2>1. e.noise = NoiseBatch(f.noise, a) /\ g.noise = NoiseBatch(f.noise, b)
    BY DEF Timed
  <2>2. NoiseBatch(f.noise, a + 1) = NoiseCycle(NoiseBatch(f.noise, a))
    BY NoiseOnce DEF IsChannels
  <2> HIDE DEF e, g
  <2> QED
    BY <2>1, <2>2
<1>4. tri = g.tri
  <2>1. e.tri = TriangleTimes(f.tri, n) /\ g.tri = TriangleTimes(f.tri, n + 1)
    BY DEF Timed
  <2>2. TriangleTimes(f.tri, n + 1) = TriangleCycle(TriangleTimes(f.tri, n))
    BY TriangleOnce DEF IsChannels
  <2> HIDE DEF e, g
  <2> QED
    BY <2>1, <2>2
<1>5. dmc = g.dmc
  <2>1. e.dmc = DmcBatch(f.dmc, n) /\ g.dmc = DmcBatch(f.dmc, n + 1)
    BY DEF Timed
  <2>2. DmcBatch(f.dmc, n + 1) = DmcCycle(DmcBatch(f.dmc, n))
    BY DmcOnce
  <2> HIDE DEF e, g
  <2> QED
    BY <2>1, <2>2
<1>6. /\ e.frame = g.frame
      /\ e = [pulse |-> e.pulse, tri |-> e.tri, noise |-> e.noise, dmc |-> e.dmc, frame |-> e.frame]
      /\ g = [pulse |-> g.pulse, tri |-> g.tri, noise |-> g.noise, dmc |-> g.dmc, frame |-> g.frame]
  BY DEF Timed
<1> HIDE DEF e, g, p, noise, tri, dmc
<1>7. [e EXCEPT !.pulse = p, !.noise = noise, !.tri = tri, !.dmc = dmc]
        = [pulse |-> p, tri |-> tri, noise |-> noise, dmc |-> dmc, frame |-> e.frame]
  <2> DEFINE h == [e EXCEPT !.pulse = p, !.noise = noise, !.tri = tri, !.dmc = dmc]
  <2>1. h = [e EXCEPT !.pulse = p, !.noise = noise, !.tri = tri, !.dmc = dmc]
    OBVIOUS
  <2> HIDE DEF h
  <2>2. h = [pulse |-> p, tri |-> tri, noise |-> noise, dmc |-> dmc, frame |-> e.frame]
    BY <1>6, <2>1
  <2> QED
    BY <2>2 DEF h
<1> QED
  BY <1>1, <1>2, <1>3, <1>4, <1>5, <1>6, <1>7 DEF e, g

(* The APU cycles among n of the CPU's: those with an even number.         *)
Halves(c, n) == (c + n) \div 2 - c \div 2

LEMMA HalvesOnce ==
  ASSUME NEW c \in Nat, NEW n \in Nat
  PROVE  /\ Halves(c, 0) = 0 /\ Halves(c, n) \in 0 .. n /\ Halves(c, n) <= (n + 1) \div 2
         /\ Halves(c, n + 1) = IF (c + (n + 1)) % 2 = 0 THEN Halves(c, n) + 1 ELSE Halves(c, n)
<1>1. Halves(c, 0) = 0 /\ Halves(c, n) \in 0 .. n /\ Halves(c, n) <= (n + 1) \div 2
  BY SMT DEF Halves
<1>2. Halves(c, n + 1) = IF (c + (n + 1)) % 2 = 0 THEN Halves(c, n) + 1 ELSE Halves(c, n)
  BY SMT DEF Halves
<1> QED
  BY <1>1, <1>2

LEMMA TimersAre ==
  ASSUME NEW f, IsChannels(f), f.dmc \in DmcType, NEW c \in Nat, NEW n \in Nat
  PROVE  TimersCycles(f, c, n) = Timed(f, n, Halves(c, n))
<1> DEFINE Good(k) == TimersCycles(f, c, k) = Timed(f, k, Halves(c, k))
           Bad == {k \in Nat : ~Good(k)}
<1>1. Good(0)
  <2>1. TimersCycles(f, c, 0) = f /\ Halves(c, 0) = 0
    BY TimersOneMore, HalvesOnce
  <2> QED
    BY <2>1, NotYetTimed
<1>2. ASSUME NEW k \in Nat, Good(k) PROVE Good(k + 1)
  <2> DEFINE even == (c + (k + 1)) % 2 = 0
             a == Halves(c, k)
             b == Halves(c, k + 1)
  <2>1. TimersCycles(f, c, k + 1) = TimersCycle(TimersCycles(f, c, k), even)
    BY TimersOneMore
  <2>2. a \in Nat /\ b = IF even THEN a + 1 ELSE a
    <3>1. a \in 0 .. k
      BY HalvesOnce
    <3>2. b = IF even THEN a + 1 ELSE a
      BY HalvesOnce, Zenon
    <3> HIDE DEF a
    <3> QED
      BY <3>1, <3>2
  <2> HIDE DEF even, a, b
  <2>3. TimersCycle(Timed(f, k, a), even) = Timed(f, k + 1, IF even THEN a + 1 ELSE a)
    BY <2>2, TimedOnce
  <2>4. TimersCycles(f, c, k) = Timed(f, k, a)
    BY <1>2 DEF a
  <2> QED
    BY <2>1, <2>2, <2>3, <2>4 DEF b
<1> HIDE DEF Good
<1>3. Bad = {}
  <2> SUFFICES ASSUME Bad # {} PROVE FALSE
    OBVIOUS
  <2>1. Bad \in SUBSET Nat
    OBVIOUS
  <2>2. PICK k \in Bad : \A j \in Bad : k <= j
    BY <2>1, LeastNatural
  <2>3. k \in Nat /\ k # 0
    BY <1>1, <2>2
  <2>4. k - 1 \in Nat /\ k - 1 \notin Bad /\ (k - 1) + 1 = k
    BY <2>2, <2>3
  <2> QED
    BY <1>2, <2>2, <2>4
<1>4. Good(n)
  BY <1>3
<1> QED
  BY <1>4 DEF Good

(* Below a period of 2 only the reference's triangle stands still.         *)
LEMMA TriangleApart ==
  ASSUME NEW t, IsTriangle(t), NEW n \in Nat
  PROVE  LET r == TriangleTimes(t, n)
             b == TriangleBatch(t, n)
         IN  /\ b = [r EXCEPT !.step = IF r.period < 2 THEN b.step ELSE r.step]
             /\ IsTriangle(b)
<1> DEFINE e == Advance(t, n)
           f == Fires(t.counter, t.period, n)
           on == t.enabled /\ t.length > 0 /\ t.linear > 0
           x == IF on THEN (e.step + f) % 32 ELSE e.step
           y == IF on /\ t.period >= 2 THEN (e.step + f) % 32 ELSE e.step
           r == TriangleTimes(t, n)
           b == TriangleBatch(t, n)
<1>1. e = [field \in TriangleFields |-> e[field]] /\ e.period = t.period /\ t.period \in Nat
  BY DEF Advance, IsTriangle, TriangleFields
<1>2. b = [e EXCEPT !.step = x]
  BY DEF TriangleBatch
<1>3. r = [e EXCEPT !.step = y]
  BY DEF TriangleTimes
<1>4. t.period < 2 \/ x = y
  BY <1>1
<1>5. IsTriangle(b)
  BY TriangleAdvanced
<1> HIDE DEF e, x, y, r, b
<1>6. r.period = t.period /\ r.step = y /\ b.step = x
  BY <1>1, <1>2, <1>3 DEF TriangleFields
<1> DEFINE z == IF r.period < 2 THEN b.step ELSE r.step
<1>7. z = x
  BY <1>4, <1>6
<1> HIDE DEF z
<1>8. b = [r EXCEPT !.step = z]
  BY <1>1, <1>2, <1>3, <1>7 DEF TriangleFields
<1> QED
  BY <1>5, <1>8 DEF z, r, b

(* The APU cycles of a batch, from a counter that has not wrapped.         *)
LEMMA HalvesCounted ==
  ASSUME MaxCycles < Wrap, ChannelsInv, NEW n \in 1 .. left
  PROVE  ApuCyclesIn(clk.cpu, n) = Halves(clk.cycles, n)
<1> DEFINE c == clk.cycles
<1>1. Wrap \in Nat \ {0} /\ MaxCycles \in Nat /\ c \in Nat /\ left \in Nat /\ n \in Nat /\ n <= left
  BY TableAssumption DEF ChannelsInv, TypeOK
<1>2. clk.cpu = c % Wrap /\ c + left <= MaxCycles
  BY DEF ChannelsInv
<1> HIDE DEF c
<1>3. c \in 0 .. Wrap - 1 /\ c + n \in 0 .. Wrap - 1 /\ c = Wrap * 0 + c /\ c + n = Wrap * 0 + (c + n)
  BY <1>1, <1>2
<1>4. c % Wrap = c
  BY <1>1, <1>3, ModUnique
<1>5. (c + n) % Wrap = c + n
  <2> DEFINE x == c + n
  <2>1. x \in Int /\ x \in 0 .. Wrap - 1 /\ x = Wrap * 0 + x
    BY <1>3
  <2> HIDE DEF x
  <2>2. x % Wrap = x
    BY <1>1, <2>1, ModUnique
  <2> QED
    BY <2>2 DEF x
<1> DEFINE h == Halves(c, n)
<1>6. h \in 0 .. n
  BY <1>1, HalvesOnce
<1>7. ApuCyclesIn(clk.cpu, n) = h % Wrap
  BY <1>2, <1>4, <1>5 DEF ApuCyclesIn, Halves
<1> HIDE DEF h
<1>8. h \in Int /\ h \in 0 .. Wrap - 1 /\ h = Wrap * 0 + h
  BY <1>1, <1>2, <1>3, <1>6
<1>9. h % Wrap = h
  BY <1>1, <1>8, ModUnique
<1> QED
  BY <1>7, <1>9 DEF h, c

(* A batch is what the frame counter does in it, then its timers' cycles.  *)
LEMMA BatchTimed ==
  ASSUME NEW ch, IsChannels(ch), InFrame(ch), ch.dmc \in DmcType,
         NEW n \in 0 .. Longest, NEW c \in Nat
  PROVE  LET a == Halves(c, n)
             f == FrameCycles(ch, a)
             t == TimersCycles(f, c, n)
             e == Batched(ch, n, a)
         IN  /\ e = [t EXCEPT !.frame.cycle = e.frame.cycle,
                              !.tri.step = IF t.tri.period < 2 THEN e.tri.step ELSE @]
             /\ e.frame.cycle \in {f.frame.cycle, 0}
<1> DEFINE a == Halves(c, n)
           f == FrameCycles(ch, a)
           t == TimersCycles(f, c, n)
           e == Batched(ch, n, a)
           g == IF a > 0 THEN Frame(ch, a) ELSE ch
<1>1. n \in Nat /\ a \in 0 .. Most
  <2>1. Longest \in Int
    BY ClockAssumption, SMT DEF Longest
  <2>2. n \in Nat /\ n <= Longest
    BY <2>1
  <2>3. a \in 0 .. n /\ a <= (n + 1) \div 2
    BY <2>2, HalvesOnce
  <2> HIDE DEF a
  <2>4. (n + 1) \div 2 <= (Longest + 1) \div 2
    BY <2>1, <2>2, SMT
  <2> QED
    BY <2>1, <2>2, <2>3, <2>4, SMT DEF Most
<1> HIDE DEF a
<1>2. f = At(Clocked(ch, a), CycleAfter(ch, a))
  BY <1>1, FrameCyclesAre DEF Framed
<1>3. IsChannels(Clocked(ch, a))
  BY ClockedKeeps
<1>4. IsChannels(f) /\ f.frame.cycle = CycleAfter(ch, a)
  BY <1>2, <1>3, AtIs
<1>5. PICK x : g = At(f, x) /\ x \in {f.frame.cycle, 0}
  <2>1. CASE a > 0
    <3> DEFINE y == IF Passes(ch, a, End(ch)) THEN 0 ELSE ch.frame.cycle + a
    <3>1. g = At(Clocked(ch, a), y)
      BY <2>1, FrameIs
    <3>2. y \in {CycleAfter(ch, a), 0}
      BY DEF CycleAfter
    <3> HIDE DEF y, f
    <3>3. At(f, y) = At(Clocked(ch, a), y)
      BY <1>2, <1>3, AtTwice
    <3> HIDE DEF g
    <3> QED
      BY <1>4, <3>1, <3>2, <3>3
  <2>2. CASE ~(a > 0)
    <3>1. a = 0 /\ 0 \in Nat
      BY <1>1, <2>2, Geometry
    <3>2. f = ch
      BY <3>1, FrameOneMore DEF FrameCycles
    <3> HIDE DEF f
    <3>3. g = At(f, f.frame.cycle)
      BY <2>2, <3>2, AtIs
    <3> QED
      BY <3>3
  <2> QED
    BY <2>1, <2>2
<1>6. IsChannels(g) /\ g.dmc = ch.dmc
  BY FrameKeeps
<1> HIDE DEF f, g
<1>7. /\ g.pulse = f.pulse /\ g.tri = f.tri /\ g.noise = f.noise /\ g.dmc = f.dmc
      /\ g.frame.cycle = x /\ g.frame.five = f.frame.five
  BY <1>4, <1>5, AtIs
<1>8. e = Together(g, n, a)
  <2>1. a \in Nat
    BY <1>1
  <2> QED
    BY <2>1, BatchedIs DEF g
<1>9. t = Timed(f, n, a)
  <2>1. f.dmc \in DmcType
    BY <1>6, <1>7
  <2> QED
    BY <1>1, <1>4, <2>1, TimersAre DEF a
<1> DEFINE p == [i \in {1, 2} |-> PulseBatch(f.pulse[i], a)]
           r == TriangleTimes(f.tri, n)
           b == TriangleBatch(f.tri, n)
           noise == NoiseBatch(f.noise, a)
           dmc == DmcBatch(f.dmc, n)
<1> HIDE DEF e, t
<1>10. t = [pulse |-> p, tri |-> r, noise |-> noise, dmc |-> dmc, frame |-> f.frame]
  BY <1>9 DEF Timed
<1>11. e = [pulse |-> p, tri |-> b, noise |-> noise, dmc |-> dmc,
            frame |-> [cycle |-> x, five |-> f.frame.five]]
  BY <1>7, <1>8 DEF Together
<1>12. f.frame = [cycle |-> f.frame.cycle, five |-> f.frame.five]
  BY <1>4 DEF IsChannels
<1>13. b = [r EXCEPT !.step = IF r.period < 2 THEN b.step ELSE r.step]
  BY <1>1, <1>4, TriangleApart DEF IsChannels
<1> HIDE DEF p, r, b, noise, dmc
<1>14. e.frame.cycle = x /\ e.tri = b
  BY <1>11
<1> DEFINE s == IF t.tri.period < 2 THEN e.tri.step ELSE t.tri.step
           k == [t EXCEPT !.frame.cycle = x, !.tri.step = s]
<1>15. k = e
  <2>1. t.tri = r /\ s = IF r.period < 2 THEN b.step ELSE r.step
    BY <1>10, <1>14
  <2>2. b = [r EXCEPT !.step = s]
    BY <1>13, <2>1
  <2>3. t.frame = f.frame
    BY <1>10
  <2> DEFINE frame == [t.frame EXCEPT !.cycle = x]
  <2>4. frame = [cycle |-> x, five |-> f.frame.five]
    BY <1>12, <2>3
  <2>5. k = [t EXCEPT !.frame = frame, !.tri = [r EXCEPT !.step = s]]
    BY <1>10, <2>1
  <2> HIDE DEF s, k, frame
  <2>6. k = [t EXCEPT !.frame = frame, !.tri = b]
    BY <2>2, <2>5
  <2>7. k = [pulse |-> p, tri |-> b, noise |-> noise, dmc |-> dmc, frame |-> frame]
    BY <1>10, <2>6
  <2> QED
    BY <1>11, <2>4, <2>7
<1>16. [t EXCEPT !.frame.cycle = e.frame.cycle,
                 !.tri.step = IF t.tri.period < 2 THEN e.tri.step ELSE @] = k
  BY <1>14
<1> HIDE DEF k
<1>17. e.frame.cycle \in {f.frame.cycle, 0}
  BY <1>5, <1>14
<1> QED
  BY <1>15, <1>16, <1>17 DEF e, t, f, a

(* A batch leaves the channels as its cycles would, one at a time, with    *)
(* the clocks that the per-cycle reference has: of every clock and sample  *)
(* rate whose batches hold one step of the frame counter at most, and over *)
(* calls of any length, as long as the 32 bits of cpu_cycles do not wrap   *)
(* (there WrapsHarmlessly fails, and this with it).                        *)
THEOREM BatchesAreCycles ==
  ASSUME MaxCycles < Wrap
  PROVE  Spec => BatchIsCycles
<1> DEFINE Step ==
             left' < left =>
               LET n == left - left'
                   a == (clk.cycles + n) \div 2 - clk.cycles \div 2
                   f == FrameCycles(chan, a)
                   kept(c) == [c EXCEPT !.frame.cycle = chan'.frame.cycle,
                                        !.tri.step = IF c.tri.period < 2 THEN chan'.tri.step ELSE @]
               IN  /\ chan' = kept(TimersCycles(f, clk.cycles, n))
                   /\ chan'.frame.cycle \in {f.frame.cycle, 0}
<1>1. ChannelsInv /\ [Next]_apuVars => [Step]_apuVars
  <2> SUFFICES ASSUME ChannelsInv, [Next]_apuVars PROVE [Step]_apuVars
    OBVIOUS
  <2>1. CASE Batch
    <3> DEFINE n == BatchSize(clk.phase, left)
               a == Halves(clk.cycles, n)
               f == FrameCycles(chan, a)
               t == TimersCycles(f, clk.cycles, n)
    <3>1. n \in 1 .. left /\ left \in Nat
      BY <2>1, BatchEndsAtSample DEF ChannelsInv, IInv, Batch
    <3>2. n \in 0 .. Longest
      BY <2>1, BatchNoLonger DEF ChannelsInv, IInv, Batch
    <3>3. chan' = Batched(chan, n, ApuCyclesIn(clk.cpu, n)) /\ left' = left - n
      BY <2>1 DEF Batch
    <3> HIDE DEF n
    <3>4. chan' = Batched(chan, n, a)
      BY <3>1, <3>3, HalvesCounted
    <3>5. clk.cycles \in Nat /\ IsChannels(chan) /\ InFrame(chan) /\ chan.dmc \in DmcType
      BY DEF ChannelsInv, TypeOK
    <3>6. /\ chan' = [t EXCEPT !.frame.cycle = chan'.frame.cycle,
                               !.tri.step = IF t.tri.period < 2 THEN chan'.tri.step ELSE @]
          /\ chan'.frame.cycle \in {f.frame.cycle, 0}
      <4> DEFINE e == Batched(chan, n, a)
      <4>1. /\ e = [t EXCEPT !.frame.cycle = e.frame.cycle,
                             !.tri.step = IF t.tri.period < 2 THEN e.tri.step ELSE @]
            /\ e.frame.cycle \in {f.frame.cycle, 0}
        BY <3>2, <3>5, BatchTimed
      <4>2. chan' = e
        BY <3>4
      <4> HIDE DEF e, t, f, a
      <4> QED
        BY <4>1, <4>2
    <3>7. left - left' = n
      BY <3>1, <3>3
    <3>8. Step
      BY <3>6, <3>7 DEF Halves
    <3> QED
      BY <3>8
  <2>2. ASSUME left' = left PROVE Step
    <3>1. left \in Nat
      BY DEF ChannelsInv, TypeOK
    <3>2. ~(left' < left)
      BY <2>2, <3>1
    <3> QED
      BY <3>2
  <2>3. ASSUME NEW n \in Calls, Call(n) PROVE Step
    <3>1. left = 0 /\ left' = n /\ n > 0 /\ n \in Nat
      BY <2>3, TableAssumption DEF Call
    <3>2. ~(left' < left)
      BY <3>1
    <3> QED
      BY <3>2
  <2>4. ASSUME NEW w \in io.program, Write(w) PROVE Step
    <3>1. left' = left
      BY <2>4 DEF Write
    <3> HIDE DEF Step
    <3> QED
      BY <2>2, <3>1
  <2>5. CASE Reset
    <3>1. left' = left
      BY <2>5 DEF Reset
    <3> HIDE DEF Step
    <3> QED
      BY <2>2, <3>1
  <2>6. CASE UNCHANGED apuVars
    BY <2>6
  <2> HIDE DEF Step
  <2> QED
    BY <2>1, <2>3, <2>4, <2>5, <2>6 DEF Next
<1> QED
  BY <1>1, ChannelsStay, PTL DEF Spec, BatchIsCycles

-----------------------------------------------------------------------------
(* The path of a sample to the device.                                     *)
AudioSpec == AudioInit /\ [][AudioNext]_audioVars

-----------------------------------------------------------------------------
(* The ring: k places behind its head; how much of it is published; how    *)
(* much is stored behind that by a push that has not published it yet.     *)
Cell(h, k) == (h + k) % RingSize
Wraps == build \in {"pwm", "i2s", "esp32"}
Space == IF build = "web" THEN RingSize ELSE RingSize - 1
Count == IF Wraps THEN Level(ring) ELSE ring.tail - ring.head
Unpublished == IF build \in {"pwm", "i2s"} THEN main.i - 1
               ELSE IF main.at = "publish" THEN 1 ELSE 0
Filled == Count + Unpublished

(* Where the samples are, from the converter back to the sound unit.       *)
Image(f, n) == {f[k] : k \in 1 .. n}
Ran(s) == Image(s, Len(s))
View(slot, head) == [k \in Nat |-> slot[Cell(head, k - 1)]]
Playing == IF build = "i2s" THEN Ran(sink.block[sink.playing])
           ELSE IF build = "esp32" /\ sink.at = "write" THEN Ran(sink.chunk) ELSE {}
Queued == IF build = "i2s" /\ sink.ended = 0 THEN Ran(sink.block[3 - sink.playing]) ELSE {}
InRing == Image(View(ring.slot, ring.head), Filled)

Before(A, B) == \A a \in A, b \in B : a < b
Rises(f, n) == \A j, k \in 1 .. n : j < k => f[j] < f[k]
Increasing(s) == s \in Seq(Nat) /\ Rises(s, Len(s))

-----------------------------------------------------------------------------
(* The parts of the invariant.                                             *)

(* The samples stand in a line: those of a stage were made before those of *)
(* every stage behind it.                                                  *)
InLine(h, p, q, r, m, u) ==
  /\ Before(h, p) /\ Before(h, q) /\ Before(h, r) /\ Before(h, m) /\ Before(h, u)
  /\ Before(p, q) /\ Before(p, r) /\ Before(p, m) /\ Before(p, u)
  /\ Before(q, r) /\ Before(q, m) /\ Before(q, u)
  /\ Before(r, m) /\ Before(r, u)
  /\ Before(m, u)

(* All there are and were not given up are somewhere in it.                *)
Accounted(h, p, q, r, m, u, made, gone) ==
  /\ h \union p \union q \union r \union m \union u = (1 .. made) \ gone
  /\ gone \subseteq 1 .. made

Line(h, p, q, r, m, u, made, gone) ==
  InLine(h, p, q, r, m, u) /\ Accounted(h, p, q, r, m, u, made, gone)

LineOK == Line(Ran(heard), Playing, Queued, InRing, Rest(main), Ran(pcm), produced, lost)

(* The records of the main loop, of the ring and of the ESP32-S3's task.   *)
Mains == [at : {"frame", "drain", "push", "evict", "store", "publish"},
          buf : Seq(Nat), i : Nat, tail : Nat, late : BOOLEAN]
Rings == [slot : [0 .. RingSize - 1 -> Nat], head : Nat, tail : Nat]
Tasks == [at : {"peek", "copy", "write"}, from : Nat, count : Nat, chunk : Seq(Nat)]

MainOK ==
  /\ main \in Mains
  /\ Increasing(main.buf) /\ Len(main.buf) <= Chunk /\ main.i \in 1 .. Len(main.buf) + 1
  /\ main.at \in {"frame", "drain"} => main.buf = <<>> /\ main.i = 1
  /\ main.at \in {"evict", "store"} => build = "i2s" /\ main.i <= Len(main.buf)
  /\ main.at = "publish" => build = "esp32"
  /\ build \in {"sdl", "web"} => main.i = 1
  /\ main.at # "evict" => main.late = FALSE
  /\ Increasing(pcm) /\ Len(pcm) <= PcmCapacity
  /\ Increasing(heard) /\ produced \in Nat

(* The ring holds what is published and what is not, in order and without  *)
(* a gap; a push that finds it full has a published sample to give up,     *)
(* also after an interrupt in between.                                     *)
RingOK ==
  /\ ring \in Rings
  /\ Count \in Nat /\ Filled <= Space
  /\ Wraps => ring.head < RingSize /\ ring.tail = Cell(ring.head, Count)
  /\ build \in {"pwm", "i2s"} /\ main.at \in {"push", "evict", "store"} =>
       main.tail = Cell(ring.head, Filled)
  /\ main.at = "store" => Filled < Space
  /\ main.at = "evict" => Count > IF main.late THEN 0 ELSE BlockSamples
  /\ Rises(View(ring.slot, ring.head), Filled)

SinkOK ==
  /\ build \in {"pwm", "i2s", "esp32", "sdl", "web"}
  /\ build = "i2s" =>
       /\ sink \in [block : [{1, 2} -> Seq(Nat)], playing : {1, 2}, ended : {0, 1, 2}]
       /\ sink.ended # sink.playing
       /\ Increasing(sink.block[1]) /\ Increasing(sink.block[2])
  /\ build = "esp32" =>
       /\ sink \in Tasks
       /\ Increasing(sink.chunk)
       /\ sink.at = "peek" => sink.chunk = <<>>
       /\ sink.at = "copy" =>
            /\ sink.from = ring.head /\ sink.count <= Count /\ Len(sink.chunk) <= sink.count
            /\ \A k \in 1 .. Len(sink.chunk) : sink.chunk[k] = View(ring.slot, ring.head)[k]

AudioOK == MainOK /\ RingOK /\ SinkOK /\ LineOK

-----------------------------------------------------------------------------
(* Places in the ring.                                                     *)
LEMMA Sizes ==
  /\ RingSize \in Nat \ {0} /\ Chunk \in Nat \ {0} /\ BlockSamples \in Nat
  /\ Chunk + BlockSamples < RingSize
BY AudioAssumption

LEMMA CellPlace == \A h, k \in Int : Cell(h, k) \in 0 .. RingSize - 1
<1> TAKE h, k \in Int
<1>1. h + k \in Int
  OBVIOUS
<1> QED
  BY <1>1, Sizes, DivMod DEF Cell

LEMMA CellMoves ==
  ASSUME NEW h \in Int, NEW n \in Int, NEW k \in Int
  PROVE  Cell((h + n) % RingSize, k) = Cell(h, n + k) /\ Cell(h + n, k) = Cell(h, n + k)
<1>1. h + n \in Int /\ (h + n) + k = h + (n + k)
  OBVIOUS
<1>2. (((h + n) % RingSize) + k) % RingSize = ((h + n) + k) % RingSize
  BY <1>1, Sizes, ModPlus
<1> QED
  BY <1>1, <1>2 DEF Cell

LEMMA CellHere ==
  ASSUME NEW h \in 0 .. RingSize - 1
  PROVE  Cell(h, 0) = h
<1>1. h = RingSize * 0 + h /\ h + 0 = h
  BY Sizes, SMT
<1>2. h % RingSize = h
  BY <1>1, Sizes, ModUnique
<1> QED
  BY <1>1, <1>2 DEF Cell

LEMMA CellDistinct ==
  ASSUME NEW h \in Int, NEW j \in 0 .. RingSize - 1, NEW k \in 0 .. RingSize - 1,
         Cell(h, j) = Cell(h, k)
  PROVE  j = k
<1>1. ASSUME NEW a \in 0 .. RingSize - 1, NEW b \in 0 .. RingSize - 1, a < b
      PROVE  Cell(h, b) # Cell(h, a)
  <2> DEFINE d == b - a
  <2>1. h + a \in Int /\ d \in 1 .. RingSize - 1 /\ (h + a) + d = h + b
    BY <1>1, Sizes
  <2> HIDE DEF d
  <2>2. ((h + a) + d) % RingSize # (h + a) % RingSize
    BY <2>1, Sizes, DistinctSlots
  <2> QED
    BY <2>1, <2>2 DEF Cell
<1> QED
  BY <1>1, Sizes, SMT

(* What a ring that wraps tells of its level.                              *)
LEMMA LevelOf ==
  ASSUME NEW h \in 0 .. RingSize - 1, NEW c \in 0 .. RingSize - 1
  PROVE  (Cell(h, c) - h) % RingSize = c
<1> DEFINE t == Cell(h, c)
           b == 0 - h
<1>1. t \in 0 .. RingSize - 1 /\ h \in Int /\ c \in Int /\ b \in Int /\ h + c \in Int
  BY CellPlace
<1>3. t - h = t + b /\ (h + c) + b = c
  BY <1>1
<1> HIDE DEF b
<1>2. (t + b) % RingSize = ((h + c) + b) % RingSize
  BY <1>1, Sizes, ModPlus DEF Cell
<1>4. c = RingSize * 0 + c
  BY Sizes, SMT
<1>5. c % RingSize = c
  BY <1>4, <1>1, Sizes, ModUnique
<1> QED
  BY <1>2, <1>3, <1>5

LEMMA AfterCell ==
  ASSUME NEW h \in Int, NEW k \in Int
  PROVE  After(Cell(h, k)) = Cell(h, k + 1)
<1>1. h + k \in Int /\ (h + k) + 1 = h + (k + 1) /\ 1 \in Int
  OBVIOUS
<1>2. (((h + k) % RingSize) + 1) % RingSize = ((h + k) + 1) % RingSize
  BY <1>1, Sizes, ModPlus
<1> QED
  BY <1>1, <1>2 DEF Cell, After

(* A write position has come round to the head if the ring is full.        *)
LEMMA FullRing ==
  ASSUME NEW h \in 0 .. RingSize - 1, NEW k \in 0 .. RingSize - 1
  PROVE  After(Cell(h, k)) = h <=> k = RingSize - 1
<1>1. After(Cell(h, k)) = Cell(h, k + 1) /\ Cell(h, 0) = h /\ h \in Int
  BY AfterCell, CellHere
<1>2. CASE k = RingSize - 1
  <2>1. h + RingSize = RingSize * 1 + h
    BY Sizes
  <2>2. (h + RingSize) % RingSize = h
    BY <2>1, <1>1, Sizes, ModUnique
  <2> QED
    BY <1>1, <1>2, <2>2, Sizes DEF Cell
<1>3. CASE k # RingSize - 1
  <2>1. k + 1 \in 0 .. RingSize - 1 /\ 0 \in 0 .. RingSize - 1 /\ k + 1 # 0
    BY <1>3, Sizes
  <2> QED
    BY <1>1, <1>3, <2>1, CellDistinct
<1> QED
  BY <1>2, <1>3

-----------------------------------------------------------------------------
(* Sequences and sets of samples.                                          *)
Joined(u, s, m, t, n) == \A k \in 1 .. m + n : u[k] = IF k <= m THEN s[k] ELSE t[k - m]
RisesTo(u, n, A) == Rises(u, n) /\ Image(u, n) = A

LEMMA RisesImage ==
  \A s : /\ Increasing(s) <=> s \in Seq(Nat) /\ Rises(s, Len(s))
         /\ Ran(s) = Image(s, Len(s))
BY DEF Increasing, Rises, Ran, Image

LEMMA RisesOn ==
  ASSUME NEW s, NEW t, NEW u, NEW m \in Nat, NEW n \in Nat,
         Rises(s, m), Rises(t, n), Before(Image(s, m), Image(t, n)),
         Joined(u, s, m, t, n)
  PROVE  RisesTo(u, m + n, Image(s, m) \union Image(t, n))
<1>1. \A k \in 1 .. m + n : \/ k \in 1 .. m /\ u[k] = s[k]
                            \/ k - m \in 1 .. n /\ ~(k <= m) /\ u[k] = t[k - m]
  BY DEF Joined
<1>2. \A k \in 1 .. m : k \in 1 .. m + n /\ u[k] = s[k]
  BY DEF Joined
<1>3. \A k \in 1 .. n : m + k \in 1 .. m + n /\ u[m + k] = t[k]
  BY DEF Joined
<1>4. Rises(u, m + n)
  <2> SUFFICES ASSUME NEW j \in 1 .. m + n, NEW k \in 1 .. m + n, j < k
               PROVE  u[j] < u[k]
    BY DEF Rises
  <2>1. CASE k <= m
    <3>1. j \in 1 .. m /\ k \in 1 .. m
      BY <2>1
    <3> QED
      BY <1>2, <3>1 DEF Rises
  <2>2. CASE j <= m /\ ~(k <= m)
    <3>1. j \in 1 .. m /\ k - m \in 1 .. n
      BY <2>2
    <3>2. u[j] = s[j] /\ u[k] = t[k - m]
      BY <2>2 DEF Joined
    <3> QED
      BY <3>1, <3>2 DEF Before, Image
  <2>3. CASE ~(j <= m)
    <3>1. j - m \in 1 .. n /\ k - m \in 1 .. n /\ j - m < k - m
      BY <2>3
    <3>2. u[j] = t[j - m] /\ u[k] = t[k - m]
      BY <2>3 DEF Joined
    <3> QED
      BY <3>1, <3>2 DEF Rises
  <2> QED
    BY <2>1, <2>2, <2>3
<1>5. Image(u, m + n) = Image(s, m) \union Image(t, n)
  <2>1. Image(u, m + n) \subseteq Image(s, m) \union Image(t, n)
    BY <1>1 DEF Image
  <2>2. Image(s, m) \subseteq Image(u, m + n)
    BY <1>2 DEF Image
  <2>3. Image(t, n) \subseteq Image(u, m + n)
    BY <1>3 DEF Image
  <2> QED
    BY <2>1, <2>2, <2>3
<1> QED
  BY <1>4, <1>5 DEF RisesTo

LEMMA JoinedUp ==
  ASSUME NEW s, NEW t, Increasing(s), Increasing(t), Before(Ran(s), Ran(t))
  PROVE  Increasing(s \o t) /\ Ran(s \o t) = Ran(s) \union Ran(t)
<1> DEFINE m == Len(s)
           n == Len(t)
           u == s \o t
<1>1. /\ u \in Seq(Nat) /\ Len(u) = m + n /\ m \in Nat /\ n \in Nat
      /\ Joined(u, s, m, t, n)
  BY DEF Increasing, Joined
<1>2. Rises(s, m) /\ Rises(t, n) /\ Before(Image(s, m), Image(t, n))
  BY DEF Increasing, Ran
<1> HIDE DEF u, m, n
<1>3. Rises(u, m + n) /\ Image(u, m + n) = Image(s, m) \union Image(t, n)
  <2>1. RisesTo(u, m + n, Image(s, m) \union Image(t, n))
    BY <1>1, <1>2, RisesOn, Zenon
  <2> QED
    BY <2>1 DEF RisesTo
<1>4. Increasing(u) /\ Ran(u) = Image(s, m) \union Image(t, n)
  BY <1>1, <1>3 DEF Increasing, Ran
<1> QED
  BY <1>4 DEF u, m, n, Ran

LEMMA OneMore ==
  ASSUME NEW s, Increasing(s), NEW x \in Nat, Before(Ran(s), {x})
  PROVE  Increasing(Append(s, x)) /\ Ran(Append(s, x)) = Ran(s) \union {x}
<1> DEFINE m == Len(s)
           u == Append(s, x)
           t == <<x>>
<1>1. /\ u \in Seq(Nat) /\ Len(u) = m + 1 /\ m \in Nat /\ 1 \in Nat
      /\ Joined(u, s, m, t, 1)
  BY DEF Increasing, Joined
<1>2. Rises(t, 1) /\ Image(t, 1) = {x}
  <2>1. t[1] = x /\ 1 .. 1 = {1}
    OBVIOUS
  <2> HIDE DEF t
  <2> QED
    BY <2>1 DEF Rises, Image
<1>3. Rises(s, m) /\ Before(Image(s, m), Image(t, 1))
  BY <1>2 DEF Increasing, Ran
<1> HIDE DEF u, m, t
<1>4. Rises(u, m + 1) /\ Image(u, m + 1) = Image(s, m) \union {x}
  <2>1. RisesTo(u, m + 1, Image(s, m) \union Image(t, 1))
    BY <1>1, <1>2, <1>3, RisesOn, Zenon
  <2> QED
    BY <1>2, <2>1 DEF RisesTo
<1>5. Increasing(u) /\ Ran(u) = Image(s, m) \union {x}
  BY <1>1, <1>4 DEF Increasing, Ran
<1> QED
  BY <1>5 DEF u, m, Ran

(* The two parts of a sequence.                                            *)
Parts(f, c, a, n, b) ==
  /\ \A k \in 1 .. n : a[k] = f[k]
  /\ \A k \in 1 .. c - n : b[k] = f[n + k]
Apart(S, A, B) == S = A \union B /\ Before(A, B)

LEMMA RisesInParts ==
  ASSUME NEW f, NEW c \in Nat, NEW a, NEW n \in 0 .. c, NEW b, Rises(f, c), Parts(f, c, a, n, b)
  PROVE  Rises(a, n) /\ Rises(b, c - n) /\ Apart(Image(f, c), Image(a, n), Image(b, c - n))
<1>1. \A k \in 1 .. n : k \in 1 .. c /\ a[k] = f[k]
  BY DEF Parts
<1>2. \A k \in 1 .. c - n : n + k \in 1 .. c /\ b[k] = f[n + k]
  BY DEF Parts
<1>3. Rises(a, n)
  BY <1>1 DEF Rises
<1>4. Rises(b, c - n)
  <2> SUFFICES ASSUME NEW j \in 1 .. c - n, NEW k \in 1 .. c - n, j < k PROVE b[j] < b[k]
    BY DEF Rises
  <2>1. n + j < n + k
    OBVIOUS
  <2> QED
    BY <1>2, <2>1 DEF Rises
<1>5. Image(f, c) = Image(a, n) \union Image(b, c - n)
  <2>1. \A k \in 1 .. c : \/ k \in 1 .. n /\ a[k] = f[k]
                          \/ k - n \in 1 .. c - n /\ b[k - n] = f[k]
    <3> TAKE k \in 1 .. c
    <3>1. CASE k <= n
      BY <1>1, <3>1
    <3>2. CASE ~(k <= n)
      <4>1. k - n \in 1 .. c - n /\ n + (k - n) = k
        BY <3>2
      <4> QED
        BY <1>2, <4>1
    <3> QED
      BY <3>1, <3>2
  <2>2. Image(f, c) \subseteq Image(a, n) \union Image(b, c - n)
    BY <2>1 DEF Image
  <2>3. Image(a, n) \subseteq Image(f, c)
    BY <1>1 DEF Image
  <2>4. Image(b, c - n) \subseteq Image(f, c)
    BY <1>2 DEF Image
  <2> QED
    BY <2>2, <2>3, <2>4
<1>6. Before(Image(a, n), Image(b, c - n))
  <2> SUFFICES ASSUME NEW j \in 1 .. n, NEW k \in 1 .. c - n PROVE a[j] < b[k]
    BY DEF Before, Image
  <2>1. j < n + k
    OBVIOUS
  <2> QED
    BY <1>1, <1>2, <2>1 DEF Rises
<1> QED
  BY <1>3, <1>4, <1>5, <1>6 DEF Apart

LEMMA Split ==
  ASSUME NEW s, Increasing(s), NEW n \in 0 .. Len(s)
  PROVE  LET a == SubSeq(s, 1, n)
             b == SubSeq(s, n + 1, Len(s))
         IN  /\ Increasing(a) /\ Increasing(b) /\ Len(a) = n
             /\ Apart(Ran(s), Ran(a), Ran(b))
<1> DEFINE a == SubSeq(s, 1, n)
           b == SubSeq(s, n + 1, Len(s))
           m == Len(s)
<1>1. /\ a \in Seq(Nat) /\ Len(a) = n /\ b \in Seq(Nat) /\ Len(b) = m - n
      /\ Parts(s, m, a, n, b) /\ m \in Nat /\ n \in 0 .. m
  BY DEF Increasing, Parts
<1>2. Rises(s, m) /\ Ran(s) = Image(s, m)
  BY DEF Increasing, Ran
<1> HIDE DEF a, b, m
<1>3. Rises(a, n) /\ Rises(b, m - n) /\ Apart(Image(s, m), Image(a, n), Image(b, m - n))
  BY <1>1, <1>2, RisesInParts
<1>4. /\ Increasing(a) /\ Increasing(b) /\ Ran(a) = Image(a, n) /\ Ran(b) = Image(b, m - n)
  BY <1>1, <1>3 DEF Increasing, Ran
<1> QED
  BY <1>1, <1>2, <1>3, <1>4 DEF a, b, m

-----------------------------------------------------------------------------
(* The ring seen from its head.                                            *)
Slots == [0 .. RingSize - 1 -> Nat]

LEMMA ViewIs ==
  ASSUME NEW slot \in Slots, NEW h \in Nat, NEW k \in Nat \ {0}
  PROVE  View(slot, h)[k] = slot[Cell(h, k - 1)] /\ View(slot, h)[k] \in Nat
<1>1. k - 1 \in Int /\ h \in Int
  OBVIOUS
<1>2. Cell(h, k - 1) \in 0 .. RingSize - 1
  BY <1>1, CellPlace
<1> QED
  BY <1>2 DEF View, Slots

(* When n samples are taken, the rest is seen from the new head.           *)
LEMMA HeadMoves ==
  ASSUME NEW slot \in Slots, NEW h \in Nat, NEW c \in Nat, NEW n \in 0 .. c, NEW g \in Nat,
         g = (h + n) % RingSize \/ g = h + n, Rises(View(slot, h), c)
  PROVE  /\ Rises(View(slot, h), n) /\ Rises(View(slot, g), c - n)
         /\ Apart(Image(View(slot, h), c), Image(View(slot, h), n), Image(View(slot, g), c - n))
<1> DEFINE f == View(slot, h)
           b == View(slot, g)
<1>1. ASSUME NEW k \in 1 .. c - n PROVE b[k] = f[n + k]
  <2> DEFINE i == k - 1
  <2>1. k \in Nat \ {0} /\ n + k \in Nat \ {0} /\ h \in Int /\ n \in Int /\ i \in Int
        /\ n + i = (n + k) - 1
    OBVIOUS
  <2> HIDE DEF i
  <2>2. CASE g = (h + n) % RingSize
    <3>1. Cell(g, i) = Cell(h, n + i)
      BY <2>1, <2>2, CellMoves
    <3> QED
      BY <2>1, <3>1, ViewIs DEF i
  <2>3. CASE g = h + n
    <3>1. Cell(g, i) = Cell(h, n + i)
      BY <2>1, <2>3, CellMoves
    <3> QED
      BY <2>1, <3>1, ViewIs DEF i
  <2> QED
    BY <2>2, <2>3
<1> HIDE DEF f, b
<1>2. Parts(f, c, f, n, b)
  BY <1>1 DEF Parts
<1>3. Rises(f, n) /\ Rises(b, c - n) /\ Apart(Image(f, c), Image(f, n), Image(b, c - n))
  BY <1>2, RisesInParts DEF f
<1> QED
  BY <1>3 DEF f, b

(* A sample stored behind the others disturbs none of them.                *)
LEMMA SampleStored ==
  ASSUME NEW slot \in Slots, NEW h \in Nat, NEW c \in 0 .. RingSize - 1, NEW x \in Nat,
         Rises(View(slot, h), c), Before(Image(View(slot, h), c), {x}),
         NEW new, new = [slot EXCEPT ![Cell(h, c)] = x]
  PROVE  /\ new \in Slots
         /\ \A k \in 1 .. c : View(new, h)[k] = View(slot, h)[k]
         /\ Rises(View(new, h), c + 1)
         /\ Image(View(new, h), c + 1) = Image(View(slot, h), c) \union {x}
<1> DEFINE f == View(slot, h)
           v == View(new, h)
           t == <<x>>
<1>1. c \in Nat /\ 1 \in Nat /\ c + 1 \in Nat \ {0} /\ h \in Int /\ c \in Int
  OBVIOUS
<1>2. Cell(h, c) \in 0 .. RingSize - 1
  BY <1>1, CellPlace
<1>3. new \in Slots /\ new[Cell(h, c)] = x
      /\ \A p \in 0 .. RingSize - 1 : p # Cell(h, c) => new[p] = slot[p]
  BY <1>2 DEF Slots
<1>4. ASSUME NEW k \in 1 .. c PROVE v[k] = f[k]
  <2>1. k \in Nat \ {0} /\ k - 1 \in Int /\ k - 1 \in 0 .. RingSize - 1 /\ k - 1 # c
    BY Sizes
  <2>2. Cell(h, k - 1) # Cell(h, c) /\ Cell(h, k - 1) \in 0 .. RingSize - 1
    BY <1>1, <2>1, CellDistinct, CellPlace
  <2>3. v[k] = new[Cell(h, k - 1)] /\ f[k] = slot[Cell(h, k - 1)]
    BY <1>3, <2>1, ViewIs
  <2> QED
    BY <1>3, <2>2, <2>3
<1>5. v[c + 1] = x
  <2>1. (c + 1) - 1 = c
    OBVIOUS
  <2>2. v[c + 1] = new[Cell(h, (c + 1) - 1)]
    BY <1>1, <1>3, ViewIs
  <2> QED
    BY <1>3, <2>1, <2>2
<1> HIDE DEF v
<1>6. Joined(v, f, c, t, 1)
  <2> SUFFICES ASSUME NEW k \in 1 .. c + 1 PROVE v[k] = IF k <= c THEN f[k] ELSE t[k - c]
    BY DEF Joined
  <2>1. CASE k <= c
    BY <1>4, <2>1
  <2>2. CASE ~(k <= c)
    <3>1. k = c + 1 /\ k - c = 1
      BY <2>2
    <3> QED
      BY <1>5, <2>2, <3>1
  <2> QED
    BY <2>1, <2>2
<1>7. Rises(t, 1) /\ Image(t, 1) = {x}
  <2>1. t[1] = x /\ 1 .. 1 = {1}
    BY SMT
  <2> HIDE DEF t
  <2> QED
    BY <2>1 DEF Rises, Image
<1> HIDE DEF f, t
<1>8. RisesTo(v, c + 1, Image(f, c) \union Image(t, 1))
  BY <1>1, <1>6, <1>7, RisesOn, Zenon DEF f
<1> QED
  BY <1>3, <1>4, <1>7, <1>8 DEF RisesTo, v, f

(* Samples taken out one by one, as a sequence.                            *)
LEMMA TakenOut ==
  ASSUME NEW slot \in Slots, NEW h \in Nat, NEW n \in Nat, Rises(View(slot, h), n),
         NEW s \in Seq(Nat), Len(s) = n, \A k \in 1 .. n : s[k] = View(slot, h)[k]
  PROVE  Increasing(s) /\ Ran(s) = Image(View(slot, h), n)
<1> DEFINE f == View(slot, h)
<1> HIDE DEF f
<1>1. Rises(s, n) /\ Image(s, n) = Image(f, n)
  BY DEF f, Rises, Image
<1> QED
  BY <1>1 DEF Increasing, Ran, f

-----------------------------------------------------------------------------
(* Samples move along the line.                                            *)
LEMMA LineGrows ==
  ASSUME NEW h, NEW p, NEW q, NEW r, NEW m, NEW u, NEW made \in Nat, NEW gone,
         Line(h, p, q, r, m, u, made, gone), NEW n \in Nat, NEW f \in 0 .. n
  PROVE  Line(h, p, q, r, m, u \union (made + 1 .. made + f),
              made + n, gone \union (made + f + 1 .. made + n))
<1> DEFINE new == made + 1 .. made + f
           over == made + f + 1 .. made + n
<1>1. /\ \A x \in 1 .. made, y \in new : x < y
      /\ 1 .. made + n = (1 .. made) \union new \union over
      /\ \A x \in 1 .. made : x \notin new /\ x \notin over
      /\ \A x \in new : x \notin over
  OBVIOUS
<1> HIDE DEF new, over
<1>2. h \subseteq 1 .. made /\ p \subseteq 1 .. made /\ q \subseteq 1 .. made
      /\ r \subseteq 1 .. made /\ m \subseteq 1 .. made /\ u \subseteq 1 .. made
      /\ gone \subseteq 1 .. made
  BY Zenon DEF Line, Accounted
<1>3. InLine(h, p, q, r, m, u \union new)
  BY <1>1, <1>2 DEF Line, InLine, Before
<1>4. Accounted(h, p, q, r, m, u \union new, made + n, gone \union over)
  BY <1>1, <1>2 DEF Line, Accounted
<1> QED
  BY <1>3, <1>4 DEF Line, new, over

LEMMA LineTakes ==
  ASSUME NEW h, NEW p, NEW q, NEW r, NEW u, NEW made, NEW gone, NEW x, NEW y,
         Line(h, p, q, r, {}, u, made, gone), Apart(u, x, y)
  PROVE  Line(h, p, q, r, x, y, made, gone)
BY DEF Line, InLine, Accounted, Apart, Before

(* The oldest of the samples of the main loop go into the ring, others are *)
(* given up.                                                               *)
LEMMA LineStores ==
  ASSUME NEW h, NEW p, NEW q, NEW r, NEW m, NEW u, NEW made, NEW gone, NEW x, NEW y,
         Line(h, p, q, r, m, u, made, gone), Apart(m, x, y)
  PROVE  Line(h, p, q, r \union x, y, u, made, gone)
BY DEF Line, InLine, Accounted, Apart, Before

LEMMA LineDrops ==
  ASSUME NEW h, NEW p, NEW q, NEW r, NEW m, NEW u, NEW made, NEW gone,
         Line(h, p, q, r, m, u, made, gone)
  PROVE  Line(h, p, q, r, {}, u, made, gone \union m)
<1>1. InLine(h, p, q, r, {}, u)
  BY DEF Line, InLine, Before
<1>2. \A x \in m : x \notin h /\ x \notin p /\ x \notin q /\ x \notin r /\ x \notin u
  <2>1. \A x \in 1 .. made : ~(x < x)
    OBVIOUS
  <2>2. m \subseteq 1 .. made
    BY Zenon DEF Line, Accounted
  <2> QED
    BY <2>1, <2>2 DEF Line, InLine, Before
<1>3. Accounted(h, p, q, r, {}, u, made, gone \union m)
  BY <1>2 DEF Line, Accounted
<1> QED
  BY <1>1, <1>3 DEF Line

(* The oldest samples of the ring are given up, queued, played or heard.   *)
LEMMA LineEvicts ==
  ASSUME NEW h, NEW p, NEW q, NEW r, NEW m, NEW u, NEW made, NEW gone, NEW x, NEW y,
         Line(h, p, q, r, m, u, made, gone), Apart(r, x, y)
  PROVE  Line(h, p, q, y, m, u, made, gone \union x)
<1>1. InLine(h, p, q, y, m, u)
  BY DEF Line, InLine, Apart, Before
<1>2. \A z \in x : z \notin h /\ z \notin p /\ z \notin q /\ z \notin y /\ z \notin m /\ z \notin u
  <2>1. \A z \in 1 .. made : ~(z < z)
    OBVIOUS
  <2>2. x \subseteq 1 .. made
    BY Zenon DEF Line, Accounted, Apart
  <2> QED
    BY <2>1, <2>2 DEF Line, InLine, Before, Apart
<1>3. Accounted(h, p, q, y, m, u, made, gone \union x)
  BY <1>2 DEF Line, Accounted, Apart
<1> QED
  BY <1>1, <1>3 DEF Line

LEMMA LineQueues ==
  ASSUME NEW h, NEW p, NEW r, NEW m, NEW u, NEW made, NEW gone, NEW x, NEW y,
         Line(h, p, {}, r, m, u, made, gone), Apart(r, x, y)
  PROVE  Line(h, p, x, y, m, u, made, gone)
BY DEF Line, InLine, Accounted, Apart, Before

LEMMA LinePlays ==
  ASSUME NEW h, NEW r, NEW m, NEW u, NEW made, NEW gone, NEW x, NEW y,
         Line(h, {}, {}, r, m, u, made, gone), Apart(r, x, y)
  PROVE  /\ Line(h, x, {}, y, m, u, made, gone)
         /\ Line(h \union x, {}, {}, y, m, u, made, gone)
BY DEF Line, InLine, Accounted, Apart, Before

LEMMA LineSounds ==
  ASSUME NEW h, NEW p, NEW q, NEW r, NEW m, NEW u, NEW made, NEW gone,
         Line(h, p, q, r, m, u, made, gone)
  PROVE  Line(h \union p, q, {}, r, m, u, made, gone)
BY DEF Line, InLine, Accounted, Before

-----------------------------------------------------------------------------
(* What the main loop holds.                                               *)
LEMMA RestSplits ==
  ASSUME NEW b, Increasing(b), NEW i \in 1 .. Len(b),
         NEW m, m.buf = b, m.i = i, NEW l, l.buf = b, l.i = i + 1
  PROVE  b[i] \in Nat /\ b[i] \in Rest(m) /\ Apart(Rest(m), {b[i]}, Rest(l))
<1>1. b \in Seq(Nat) /\ Len(b) \in Nat /\ Rises(b, Len(b))
  BY DEF Increasing
<1>2. Rest(m) = {b[i]} \union Rest(l)
  <2>1. i .. Len(b) = {i} \union (i + 1 .. Len(b))
    BY <1>1
  <2> QED
    BY <2>1 DEF Rest
<1>3. Before({b[i]}, Rest(l))
  <2>1. \A k \in i + 1 .. Len(b) : k \in 1 .. Len(b) /\ i < k
    BY <1>1
  <2>2. \A k \in i + 1 .. Len(b) : b[i] < b[k]
    BY <1>1, <2>1 DEF Rises
  <2> QED
    BY <2>2 DEF Before, Rest
<1> QED
  BY <1>1, <1>2, <1>3 DEF Apart

LEMMA RestEnds ==
  ASSUME NEW m, m.buf \in Seq(Nat), m.i \in Nat
  PROVE  /\ m.i = 1 => Rest(m) = Ran(m.buf)
         /\ m.i > Len(m.buf) => Rest(m) = {}
<1>1. ASSUME m.i > Len(m.buf) PROVE m.i .. Len(m.buf) = {}
  BY <1>1
<1> QED
  BY <1>1 DEF Rest, Ran, Image

(* The samples of a frame follow those that are there.                     *)
LEMMA RunUp ==
  ASSUME NEW s, Increasing(s), NEW made \in Nat, NEW n \in Nat, Ran(s) \subseteq 1 .. made
  PROVE  LET u == s \o [k \in 1 .. n |-> made + k]
         IN  Increasing(u) /\ Len(u) = Len(s) + n /\ Ran(u) = Ran(s) \union (made + 1 .. made + n)
<1> DEFINE t == [k \in 1 .. n |-> made + k]
<1>1. t \in Seq(Nat) /\ Len(t) = n /\ \A k \in 1 .. n : t[k] = made + k
  OBVIOUS
<1>5. Len(s \o t) = Len(s) + n
  BY <1>1 DEF Increasing
<1> HIDE DEF t
<1>2. Increasing(t)
  <2>1. \A j, k \in 1 .. n : j < k => t[j] < t[k]
    BY <1>1
  <2> QED
    BY <1>1, <2>1 DEF Increasing, Rises
<1>3. Ran(t) = made + 1 .. made + n
  <2>1. \A x \in made + 1 .. made + n : x - made \in 1 .. n /\ t[x - made] = x
    <3> TAKE x \in made + 1 .. made + n
    <3>1. x - made \in 1 .. n /\ made + (x - made) = x
      OBVIOUS
    <3> QED
      BY <1>1, <3>1
  <2>2. \A k \in 1 .. n : t[k] \in made + 1 .. made + n
    BY <1>1
  <2> QED
    BY <1>1, <2>1, <2>2 DEF Ran, Image
<1>4. Before(Ran(s), Ran(t))
  BY <1>3 DEF Before
<1> QED
  BY <1>2, <1>3, <1>4, <1>5, JoinedUp DEF t

(* Nothing moves in the ring.                                              *)
LEMMA RingStays ==
  ASSUME build' = build, ring' = ring, Unpublished' = Unpublished
  PROVE  Wraps' = Wraps /\ Count' = Count /\ Filled' = Filled /\ InRing' = InRing
<1>1. Count' = Count /\ Wraps' = Wraps
  BY DEF Count, Wraps
<1>2. Filled' = Filled
  BY <1>1 DEF Filled
<1> QED
  BY <1>1, <1>2 DEF InRing

LEMMA SinkStays ==
  ASSUME build' = build, sink' = sink
  PROVE  Playing' = Playing /\ Queued' = Queued
BY DEF Playing, Queued

-----------------------------------------------------------------------------
(* The sound unit and the main loop.                                       *)
LEMMA Frames ==
  ASSUME AudioOK, NEW n \in FrameSamples, MakeFrame(n)
  PROVE  AudioOK'
<1> DEFINE fit == Smaller(n, PcmCapacity - Len(pcm))
           b == main.buf
<1>1. n \in Nat /\ PcmCapacity \in Nat
  BY AudioAssumption
<1>2. fit \in 0 .. n /\ Len(pcm) + fit <= PcmCapacity
  BY <1>1 DEF AudioOK, MainOK, Increasing, Smaller, Mains
<1>3. /\ build' = build /\ ring' = ring /\ sink' = sink /\ heard' = heard
      /\ main.at = "frame" /\ main' = [main EXCEPT !.at = "drain"]
      /\ produced' = produced + n
      /\ pcm' = pcm \o [k \in 1 .. fit |-> produced + k]
      /\ lost' = lost \union (produced + fit + 1 .. produced + n)
  BY Zenon DEF MakeFrame
<1>4. /\ main'.at = "drain" /\ main'.buf = main.buf /\ main'.i = main.i
      /\ main'.tail = main.tail /\ main'.late = main.late
      /\ main' \in Mains
  BY <1>3 DEF AudioOK, MainOK, Mains
<1> HIDE DEF fit
<1>5. Ran(pcm) \subseteq 1 .. produced
  BY DEF AudioOK, LineOK, Line, Accounted
<1>6. /\ Increasing(pcm') /\ Len(pcm') = Len(pcm) + fit
      /\ Ran(pcm') = Ran(pcm) \union (produced + 1 .. produced + fit)
  BY <1>2, <1>3, <1>5, RunUp DEF AudioOK, MainOK, Mains
<1>7. MainOK'
  BY <1>1, <1>2, <1>3, <1>4, <1>6 DEF AudioOK, MainOK, Mains
<1>8. Unpublished' = Unpublished
  BY <1>3, <1>4 DEF Unpublished
<1>9. Wraps' = Wraps /\ Count' = Count /\ Filled' = Filled /\ InRing' = InRing
  BY <1>3, <1>8, RingStays
<1>10. RingOK'
  BY <1>3, <1>4, <1>9 DEF AudioOK, RingOK, Space, Rings
<1>11. SinkOK'
  BY <1>3, <1>9 DEF AudioOK, SinkOK, Tasks
<1>12. LineOK'
  <2>1. Playing' = Playing /\ Queued' = Queued
    BY <1>3, SinkStays
  <2>2. Rest(main') = Rest(main)
    BY <1>4 DEF Rest
  <2>3. Line(Ran(heard), Playing, Queued, InRing, Rest(main),
             Ran(pcm) \union (produced + 1 .. produced + fit),
             produced + n, lost \union (produced + fit + 1 .. produced + n))
    BY <1>1, <1>2, LineGrows DEF AudioOK, MainOK, LineOK, Mains
  <2> QED
    BY <1>3, <1>6, <1>9, <2>1, <2>2, <2>3 DEF LineOK
<1> QED
  BY <1>7, <1>10, <1>11, <1>12 DEF AudioOK

LEMMA Reads ==
  ASSUME AudioOK, ReadSamples
  PROVE  AudioOK'
<1> DEFINE n == Smaller(Len(pcm), Chunk)
           a == SubSeq(pcm, 1, n)
           b == SubSeq(pcm, n + 1, Len(pcm))
<1>1. n \in 0 .. Len(pcm) /\ n <= Chunk
  BY Sizes DEF AudioOK, MainOK, Increasing, Smaller, Mains
<1>2. /\ build' = build /\ ring' = ring /\ sink' = sink /\ heard' = heard
      /\ produced' = produced /\ lost' = lost /\ main.at = "drain"
      /\ main.buf = <<>> /\ main.i = 1 /\ main.late = FALSE
      /\ \/ main' = [main EXCEPT !.at = "frame"] /\ pcm' = pcm
         \/ /\ main' = [main EXCEPT !.at = "push", !.i = 1, !.tail = ring.tail, !.buf = a]
            /\ pcm' = b
  BY DEF ReadSamples, AudioOK, MainOK, Mains
<1>3. /\ Increasing(a) /\ Increasing(b) /\ Len(a) = n /\ Apart(Ran(pcm), Ran(a), Ran(b))
      /\ a \in Seq(Nat) /\ Len(b) <= PcmCapacity
  <2>1. Len(b) <= PcmCapacity
    BY <1>1, AudioAssumption DEF AudioOK, MainOK, Increasing, Mains
  <2> HIDE DEF n
  <2>2. /\ Increasing(a) /\ Increasing(b) /\ Len(a) = n /\ Apart(Ran(pcm), Ran(a), Ran(b))
    BY <1>1, Split DEF AudioOK, MainOK, Mains
  <2> QED
    BY <2>1, <2>2 DEF Increasing
<1> HIDE DEF a, b
<1>4. Rest(main) = {}
  BY <1>2 DEF Rest
<1>5. CASE main' = [main EXCEPT !.at = "frame"] /\ pcm' = pcm
  <2>1. /\ main'.at = "frame" /\ main'.buf = main.buf /\ main'.i = main.i
        /\ main'.tail = main.tail /\ main'.late = main.late
        /\ main' \in Mains
    BY <1>5 DEF AudioOK, MainOK, Mains
  <2>2. MainOK'
    BY <1>2, <1>5, <2>1 DEF AudioOK, MainOK, Mains
  <2>3. Unpublished' = Unpublished
    BY <1>2, <2>1 DEF Unpublished
  <2>4. Wraps' = Wraps /\ Count' = Count /\ Filled' = Filled /\ InRing' = InRing
    BY <1>2, <2>3, RingStays
  <2>5. RingOK'
    BY <1>2, <2>1, <2>4 DEF AudioOK, RingOK, Space, Rings
  <2>6. SinkOK'
    BY <1>2, <2>4 DEF AudioOK, SinkOK, Tasks
  <2>7. LineOK'
    <3>1. Playing' = Playing /\ Queued' = Queued /\ Rest(main') = Rest(main)
      BY <1>2, <2>1, SinkStays DEF Rest
    <3> QED
      BY <1>2, <1>5, <2>4, <3>1 DEF AudioOK, LineOK
  <2> QED
    BY <2>2, <2>5, <2>6, <2>7 DEF AudioOK
<1>6. CASE /\ main' = [main EXCEPT !.at = "push", !.i = 1, !.tail = ring.tail, !.buf = a]
           /\ pcm' = b
  <2>1. /\ main'.at = "push" /\ main'.buf = a /\ main'.i = 1
        /\ main'.tail = ring.tail /\ main'.late = main.late /\ ring.tail \in Nat
        /\ main' \in Mains
    BY <1>3, <1>6 DEF AudioOK, MainOK, RingOK, Mains, Rings
  <2>2. MainOK'
    <3>1. 1 \in 1 .. Len(a) + 1 /\ Len(a) <= Chunk
      BY <1>1, <1>3
    <3> QED
      BY <1>2, <1>3, <1>6, <2>1, <3>1 DEF AudioOK, MainOK, Mains
  <2>3. Unpublished' = Unpublished /\ Unpublished = 0
    BY <1>2, <2>1 DEF Unpublished
  <2>4. /\ Wraps' = Wraps /\ Count' = Count /\ Filled' = Filled /\ InRing' = InRing
        /\ Filled = Count
    BY <1>2, <2>3, RingStays DEF Filled, AudioOK, RingOK, Rings
  <2>5. RingOK'
    BY <1>2, <2>1, <2>4 DEF AudioOK, RingOK, Space, Wraps, Rings
  <2>6. SinkOK'
    BY <1>2, <2>4 DEF AudioOK, SinkOK, Tasks
  <2>7. LineOK'
    <3>1. Playing' = Playing /\ Queued' = Queued
      BY <1>2, SinkStays
    <3>2. Rest(main') = Ran(a)
      BY <2>1 DEF Rest, Ran, Image
    <3>3. Line(Ran(heard), Playing, Queued, InRing, Ran(a), Ran(b), produced, lost)
      BY <1>3, <1>4, LineTakes DEF AudioOK, LineOK
    <3> QED
      BY <1>2, <1>6, <2>4, <3>1, <3>2, <3>3 DEF LineOK
  <2> QED
    BY <2>2, <2>5, <2>6, <2>7 DEF AudioOK
<1> QED
  BY <1>2, <1>5, <1>6

-----------------------------------------------------------------------------
(* What a push does to the ring.                                           *)
LEMMA Numbers ==
  ASSUME AudioOK
  PROVE  /\ Count \in Nat /\ Filled \in Nat /\ Unpublished \in Nat /\ Count <= Filled
         /\ Filled = Count + Unpublished
         /\ Filled <= Space /\ Space \in {RingSize, RingSize - 1}
         /\ Wraps => Space = RingSize - 1 /\ ring.head \in 0 .. RingSize - 1
         /\ ring.slot \in Slots /\ ring.head \in Nat /\ ring.tail \in Nat
<1>1. Unpublished \in Nat
  BY DEF AudioOK, MainOK, Unpublished, Mains
<1> QED
  BY <1>1, Sizes DEF AudioOK, RingOK, Filled, Space, Wraps, Slots, Rings

(* Stored and not published yet.                                           *)
LEMMA Stores ==
  ASSUME AudioOK, build' = build, heard' = heard, sink' = sink, produced' = produced,
         lost' = lost, pcm' = pcm,
         main.i <= Len(main.buf), Filled < Space, Unpublished' = Unpublished + 1,
         NEW p, p = Cell(ring.head, Filled),
         ring' = [ring EXCEPT !.slot[p] = main.buf[main.i]],
         main'.buf = main.buf, main'.i = main.i + 1
  PROVE  /\ ring' \in Rings
         /\ ring'.head = ring.head /\ ring'.tail = ring.tail
         /\ Count' = Count /\ Filled' = Filled + 1
         /\ Rises(View(ring'.slot, ring'.head), Filled')
         /\ SinkOK' /\ LineOK'
<1> DEFINE x == main.buf[main.i]
           new == [ring.slot EXCEPT ![p] = x]
           f == View(ring.slot, ring.head)
           v == View(new, ring.head)
<1>1. main.i \in 1 .. Len(main.buf) /\ Increasing(main.buf)
  BY DEF AudioOK, MainOK, Increasing, Mains
<1>2. x \in Nat /\ x \in Rest(main) /\ Apart(Rest(main), {x}, Rest(main'))
  BY <1>1, RestSplits
<1>3. Filled \in 0 .. RingSize - 1 /\ Count <= Filled /\ Count \in Nat
  BY Numbers, Sizes
<1>4. Before(InRing, {x}) /\ Rises(f, Filled)
  BY <1>2 DEF AudioOK, LineOK, Line, InLine, Before, RingOK, Rings
<1>5. /\ new \in Slots /\ \A k \in 1 .. Filled : v[k] = f[k]
      /\ Rises(v, Filled + 1) /\ Image(v, Filled + 1) = InRing \union {x}
  <2>1. new = [ring.slot EXCEPT ![Cell(ring.head, Filled)] = x]
    OBVIOUS
  <2>2. ring.slot \in Slots /\ ring.head \in Nat
    BY Numbers
  <2> HIDE DEF new, x
  <2> QED
    BY <1>2, <1>3, <1>4, <2>1, <2>2, SampleStored DEF InRing
<1>6. ring' = [ring EXCEPT !.slot = new]
  OBVIOUS
<1> HIDE DEF x, new
<1>7. /\ ring' \in Rings
      /\ ring'.head = ring.head /\ ring'.tail = ring.tail /\ ring'.slot = new
  <2>1. new \in [0 .. RingSize - 1 -> Nat]
    BY <1>5 DEF Slots
  <2> QED
    BY <1>6, <2>1 DEF AudioOK, RingOK, Rings
<1>8. Count' = Count
  BY <1>7 DEF Count, Wraps, Level
<1>9. Filled' = Filled + 1
  BY <1>3, <1>8, Numbers DEF Filled
<1>10. View(ring'.slot, ring'.head) = v
  BY <1>7
<1> HIDE DEF v, f
<1>11. SinkOK'
  <2>1. \A k \in 1 .. Count : v[k] = f[k]
    BY <1>3, <1>5
  <2> QED
    <3>1. ASSUME build = "esp32", sink.at = "copy"
          PROVE  \A k \in 1 .. Len(sink.chunk) : sink.chunk[k] = v[k]
      <4>1. sink.chunk \in Seq(Nat) /\ Len(sink.chunk) <= sink.count /\ sink.count <= Count
            /\ sink.count \in Nat
            /\ \A k \in 1 .. Len(sink.chunk) : sink.chunk[k] = f[k]
        BY <3>1 DEF AudioOK, SinkOK, f, Tasks
      <4> QED
        BY <1>3, <2>1, <4>1
    <3> QED
      BY <1>7, <1>8, <1>10, <3>1 DEF AudioOK, SinkOK, Tasks
<1>12. LineOK'
  <2>1. Playing' = Playing /\ Queued' = Queued
    BY SinkStays
  <2>2. InRing' = InRing \union {x}
    BY <1>5, <1>9, <1>10 DEF InRing
  <2>3. Line(Ran(heard), Playing, Queued, InRing \union {x}, Rest(main'), Ran(pcm), produced, lost)
    BY <1>2, LineStores DEF AudioOK, LineOK
  <2> QED
    BY <2>1, <2>2, <2>3 DEF LineOK
<1> QED
  BY <1>5, <1>7, <1>8, <1>9, <1>10, <1>11, <1>12

(* All that is stored is published.                                        *)
LEMMA Publishes ==
  ASSUME AudioOK, Wraps, build' = build, Unpublished' = 0,
         NEW t \in Nat, t = Cell(ring.head, Filled), ring' = [ring EXCEPT !.tail = t]
  PROVE  /\ ring' \in Rings
         /\ ring'.head = ring.head /\ ring'.tail = t /\ ring'.slot = ring.slot
         /\ Count' = Filled /\ Filled' = Filled /\ InRing' = InRing
<1>1. /\ ring' \in Rings
      /\ ring'.head = ring.head /\ ring'.tail = t /\ ring'.slot = ring.slot
  BY DEF AudioOK, RingOK, Rings
<1>2. ring.head \in 0 .. RingSize - 1 /\ Filled \in 0 .. RingSize - 1
  BY Numbers, Sizes
<1>3. (t - ring.head) % RingSize = Filled
  BY <1>2, LevelOf
<1>4. Count' = Filled
  BY <1>1, <1>3 DEF Count, Wraps, Level
<1>5. Filled' = Filled
  BY <1>2, <1>4 DEF Filled
<1> QED
  BY <1>1, <1>4, <1>5 DEF InRing

(* The samples that have left the ring are the oldest that were in it.     *)
LEMMA Leaves ==
  ASSUME AudioOK, build' = build, Unpublished' = Unpublished,
         NEW n \in 0 .. Count, NEW g \in Nat,
         g = IF Wraps THEN (ring.head + n) % RingSize ELSE ring.head + n,
         ring' = [ring EXCEPT !.head = g]
  PROVE  /\ ring' \in Rings
         /\ ring'.head = g /\ ring'.tail = ring.tail /\ ring'.slot = ring.slot
         /\ Count' = Count - n /\ Filled' = Filled - n
         /\ Wraps => g < RingSize /\ ring.tail = Cell(g, Count') /\ Cell(g, Filled') = Cell(ring.head, Filled)
         /\ Rises(View(ring.slot, g), Filled')
         /\ Apart(InRing, Image(View(ring.slot, ring.head), n), InRing')
         /\ Rises(View(ring.slot, ring.head), n)
<1>1. /\ ring' \in Rings
      /\ ring'.head = g /\ ring'.tail = ring.tail /\ ring'.slot = ring.slot
  BY DEF AudioOK, RingOK, Rings
<1>2. /\ Count \in Nat /\ Filled \in Nat /\ n \in 0 .. Filled /\ ring.slot \in Slots
      /\ ring.head \in Nat /\ ring.head \in Int /\ n \in Int /\ ring.tail \in Nat
      /\ Filled = Count + Unpublished /\ Unpublished \in Nat
      /\ Count - n \in Int /\ Filled - n \in Int
      /\ n + (Count - n) = Count /\ n + (Filled - n) = Filled
  BY Numbers
<1>3. ASSUME Wraps
      PROVE  /\ g < RingSize /\ ring.tail = Cell(g, Count - n)
             /\ Cell(g, Filled - n) = Cell(ring.head, Filled)
             /\ Count' = Count - n
  <2>1. g = (ring.head + n) % RingSize /\ ring.tail = Cell(ring.head, Count)
        /\ Filled <= RingSize - 1 /\ g = Cell(ring.head, n)
    BY <1>3, Numbers DEF AudioOK, RingOK, Cell, Rings
  <2>2. Cell(g, Count - n) = Cell(ring.head, Count) /\ Cell(g, Filled - n) = Cell(ring.head, Filled)
    BY <1>2, <2>1, CellMoves
  <2>3. g \in 0 .. RingSize - 1
    BY <1>2, <2>1, CellPlace
  <2>4. Count - n \in 0 .. RingSize - 1
    BY <1>2, <2>1, Sizes
  <2>5. (Cell(g, Count - n) - g) % RingSize = Count - n
    BY <2>3, <2>4, LevelOf
  <2>6. Count' = (ring.tail - g) % RingSize
    BY <1>1, <1>3 DEF Count, Wraps, Level
  <2>7. ring.tail = Cell(g, Count - n)
    BY <2>1, <2>2, Zenon
  <2>8. Count' = Count - n
    BY <2>5, <2>6, <2>7, Zenon
  <2> QED
    BY <2>2, <2>3, <2>7, <2>8, Sizes
<1>4. Count' = Count - n
  <2>1. CASE Wraps
    BY <1>3, <2>1
  <2>2. CASE ~Wraps
    BY <1>1, <1>2, <2>2 DEF Count, Wraps
  <2> QED
    BY <2>1, <2>2
<1>5. Filled' = Filled - n
  BY <1>2, <1>4 DEF Filled
<1>6. /\ Rises(View(ring.slot, g), Filled - n) /\ Rises(View(ring.slot, ring.head), n)
      /\ Apart(InRing, Image(View(ring.slot, ring.head), n), Image(View(ring.slot, g), Filled - n))
  <2>1. g = (ring.head + n) % RingSize \/ g = ring.head + n
    OBVIOUS
  <2>2. Rises(View(ring.slot, ring.head), Filled)
    BY DEF AudioOK, RingOK, Rings
  <2> QED
    BY <1>2, <2>1, <2>2, HeadMoves DEF InRing
<1>7. InRing' = Image(View(ring.slot, g), Filled - n)
  BY <1>1, <1>5 DEF InRing
<1> QED
  BY <1>1, <1>3, <1>4, <1>5, <1>6, <1>7

LEMMA FirstSeen ==
  ASSUME NEW slot \in Slots, NEW h \in 0 .. RingSize - 1
  PROVE  Image(View(slot, h), 1) = {slot[h]}
<1>1. h \in Nat /\ 1 \in Nat \ {0} /\ 1 - 1 = 0 /\ 1 .. 1 = {1}
  OBVIOUS
<1>2. View(slot, h)[1] = slot[Cell(h, 1 - 1)]
  BY <1>1, ViewIs
<1>3. Cell(h, 0) = h
  BY CellHere
<1> QED
  BY <1>1, <1>2, <1>3 DEF Image

-----------------------------------------------------------------------------
(* The pushes.                                                             *)
Clear(m, none) == [m EXCEPT !.at = "drain", !.buf = none, !.i = 1, !.late = FALSE]
IsClear(m, none) ==
  m \in Mains /\ m.at = "drain" /\ m.i = 1 /\ m.buf = none /\ m.late = FALSE

LEMMA Cleared ==
  ASSUME NEW m \in Mains, NEW none \in Seq(Nat)
  PROVE  IsClear(Clear(m, none), none)
<1> DEFINE new == Clear(m, none)
<1>1. new \in Mains
  BY DEF Mains, Clear
<1>2. new.at = "drain" /\ new.i = 1 /\ new.buf = none
  BY DEF Mains, Clear
<1>3. new.late = FALSE
  BY DEF Mains, Clear
<1> HIDE DEF new
<1>4. IsClear(new, none)
  BY <1>1, <1>2, <1>3 DEF IsClear
<1> QED
  BY <1>4 DEF new

LEMMA PushEnds ==
  ASSUME AudioOK, main' = Pushed, pcm' = pcm, heard' = heard, produced' = produced, build' = build
  PROVE  /\ MainOK' /\ main'.at = "drain" /\ main'.i = 1 /\ Rest(main') = {} /\ Unpublished' = 0
<1>1. /\ main'.at = "drain" /\ main'.i = 1 /\ main'.buf = <<>> /\ main'.late = FALSE
      /\ main' \in Mains
  <2>1. main \in Mains /\ <<>> \in Seq(Nat)
    BY DEF AudioOK, MainOK, Mains
  <2>2. main' = Clear(main, <<>>)
    BY DEF Pushed, Clear
  <2>3. IsClear(main', <<>>)
    BY <2>1, <2>2, Cleared, Zenon
  <2> QED
    BY <2>3 DEF IsClear, Mains
<1>2. Increasing(<<>>) /\ Len(<<>>) <= Chunk /\ 1 \in 1 .. Len(<<>>) + 1
  BY Sizes DEF Increasing, Rises
<1>3. MainOK'
  BY <1>1, <1>2 DEF AudioOK, MainOK, Mains
<1>4. Rest(main') = {} /\ Unpublished' = 0
  BY <1>1 DEF Rest, Unpublished
<1> QED
  BY <1>1, <1>3, <1>4

LEMMA PushGoesOn ==
  ASSUME AudioOK, main.i <= Len(main.buf), main.at \in {"push", "store"},
         NEW a \in {"push", "publish"}, a = "publish" => build = "esp32", Wraps,
         (main' = Stored /\ a = main.at) \/ main' = [Stored EXCEPT !.at = a],
         pcm' = pcm, heard' = heard, produced' = produced, build' = build
  PROVE  /\ MainOK' /\ main'.at = a /\ main'.i = main.i + 1 /\ main'.buf = main.buf
         /\ main'.tail = After(main.tail) /\ main'.late = FALSE
<1>1. After(main.tail) \in Nat /\ main.i \in Nat
  <2>1. main.tail \in Nat /\ main.tail + 1 \in Int /\ main.i \in Nat
    BY DEF AudioOK, MainOK, Mains
  <2> QED
    BY <2>1, Sizes, DivMod DEF After
<1>2. /\ main'.at = a /\ main'.i = main.i + 1 /\ main'.buf = main.buf
      /\ main'.tail = After(main.tail) /\ main'.late = main.late
      /\ main' \in Mains
  <2> DEFINE s == Stored
             t == After(main.tail)
             j == main.i + 1
  <2>1. s = [main EXCEPT !.i = j, !.tail = t] /\ t \in Nat /\ j \in Nat
    BY <1>1 DEF Stored
  <2> HIDE DEF t, j
  <2>2. /\ s.at = main.at /\ s.i = j /\ s.buf = main.buf /\ s.tail = t /\ s.late = main.late
        /\ s \in Mains
    BY <2>1 DEF AudioOK, MainOK, Mains
  <2> HIDE DEF s
  <2>3. (main' = s /\ a = main.at) \/ main' = [s EXCEPT !.at = a]
    BY DEF s
  <2>4. /\ main'.at = a /\ main'.i = j /\ main'.buf = main.buf /\ main'.tail = t
        /\ main'.late = main.late
        /\ main' \in Mains
    BY <2>2, <2>3 DEF Mains
  <2> QED
    BY <2>4 DEF t, j
<1>3. main.i + 1 \in 1 .. Len(main.buf) + 1 /\ build \notin {"sdl", "web"}
  BY DEF AudioOK, MainOK, Wraps, Mains
<1> QED
  BY <1>2, <1>3 DEF AudioOK, MainOK, Mains

(* The rest of a push is given up, nothing moves in the ring.              *)
LEMMA Drops ==
  ASSUME AudioOK, build' = build, sink' = sink, heard' = heard, produced' = produced, pcm' = pcm,
         InRing' = InRing, Rest(main') = {}, lost' = lost \union Rest(main)
  PROVE  LineOK'
<1>1. Line(Ran(heard), Playing, Queued, InRing, {}, Ran(pcm), produced, lost \union Rest(main))
  BY LineDrops DEF AudioOK, LineOK
<1> QED
  BY <1>1, SinkStays DEF LineOK

(* A push that does not find the ring full has room for one more.          *)
LEMMA HasRoom ==
  ASSUME AudioOK, Wraps, NEW t, t = Cell(ring.head, Filled)
  PROVE  (After(t) = ring.head <=> Filled = Space) /\ (After(t) # ring.head => Filled < Space)
<1>1. Filled \in 0 .. RingSize - 1 /\ ring.head \in 0 .. RingSize - 1 /\ Space = RingSize - 1
  BY Numbers, Sizes
<1>2. After(t) = ring.head <=> Filled = RingSize - 1
  BY <1>1, FullRing
<1> QED
  BY <1>1, <1>2, Sizes

LEMMA AfterFilled ==
  ASSUME AudioOK, NEW t, t = Cell(ring.head, Filled), NEW n, n = Filled + 1
  PROVE  After(t) = Cell(ring.head, n)
<1>1. ring.head \in Int /\ Filled \in Int
  BY Numbers
<1> QED
  BY <1>1, AfterCell

LEMMA MoreFits ==
  ASSUME AudioOK, Wraps, build' = build, Filled < Space, Filled' = Filled + 1, Count' = Count,
         ring' \in Rings,
         ring'.head = ring.head, ring'.tail = ring.tail,
         Rises(View(ring'.slot, ring'.head), Filled'),
         main'.at \in {"push", "publish"},
         build = "esp32" \/ main'.tail = Cell(ring.head, Filled')
  PROVE  RingOK'
<1>1. Space' = Space /\ Wraps'
  BY DEF Space, Wraps
<1>2. Count' \in Nat /\ Filled' <= Space
  BY Numbers, Sizes
<1> QED
  BY <1>1, <1>2 DEF AudioOK, RingOK, Rings

LEMMA PwmPushes ==
  ASSUME AudioOK, PwmPush
  PROVE  AudioOK'
<1>1. /\ build = "pwm" /\ Wraps /\ main.at = "push" /\ build' = build /\ produced' = produced
      /\ pcm' = pcm /\ sink' = sink /\ heard' = heard
      /\ main.tail = Cell(ring.head, Filled) /\ main.tail \in Nat
  BY DEF PwmPush, AudioOK, RingOK, MainOK, Wraps, Mains, Rings
<1>2. CASE /\ ring' = [ring EXCEPT !.tail = main.tail]
           /\ lost' = lost \union Rest(main) /\ main' = Pushed
  <2>1. /\ MainOK' /\ main'.at = "drain" /\ main'.i = 1 /\ Rest(main') = {} /\ Unpublished' = 0
    BY <1>1, <1>2, PushEnds
  <2>2. /\ ring' \in Rings
        /\ ring'.head = ring.head /\ ring'.tail = main.tail /\ ring'.slot = ring.slot
        /\ Count' = Filled /\ Filled' = Filled /\ InRing' = InRing
    BY <1>1, <1>2, <2>1, Publishes
  <2>3. RingOK'
    BY <1>1, <2>1, <2>2, Numbers DEF AudioOK, RingOK, Wraps, Space, Rings
  <2>4. SinkOK'
    BY <1>1 DEF AudioOK, SinkOK, Tasks
  <2>5. LineOK'
    BY <1>1, <1>2, <2>1, <2>2, Drops
  <2> QED
    BY <2>1, <2>3, <2>4, <2>5 DEF AudioOK
<1>3. CASE /\ ~(main.i > Len(main.buf) \/ After(main.tail) = ring.head)
           /\ ring' = [ring EXCEPT !.slot[main.tail] = main.buf[main.i]]
           /\ main' = Stored /\ lost' = lost
  <2>1. main.i <= Len(main.buf)
    BY <1>1, <1>3 DEF AudioOK, MainOK, Mains
  <2>2. /\ MainOK' /\ main'.at = "push" /\ main'.i = main.i + 1 /\ main'.buf = main.buf
        /\ main'.tail = After(main.tail)
    BY <1>1, <1>3, <2>1, PushGoesOn
  <2>3. Filled < Space
    BY <1>1, <1>3, HasRoom
  <2>4. Unpublished' = Unpublished + 1
    BY <1>1, <2>2 DEF Unpublished, AudioOK, MainOK, Mains
  <2>5. /\ ring' \in Rings
        /\ ring'.head = ring.head /\ ring'.tail = ring.tail
        /\ Count' = Count /\ Filled' = Filled + 1
        /\ Rises(View(ring'.slot, ring'.head), Filled')
        /\ SinkOK' /\ LineOK'
    BY <1>1, <1>3, <2>1, <2>2, <2>3, <2>4, Stores
  <2>6. main'.tail = Cell(ring.head, Filled')
    BY <1>1, <2>2, <2>5, AfterFilled
  <2>7. RingOK'
    BY <1>1, <2>2, <2>3, <2>5, <2>6, MoreFits
  <2> QED
    BY <2>2, <2>5, <2>7 DEF AudioOK
<1> QED
  BY <1>2, <1>3 DEF PwmPush

LEMMA I2sTests ==
  ASSUME AudioOK, I2sTest
  PROVE  AudioOK'
<1> DEFINE a == IF After(main.tail) = ring.head THEN "evict" ELSE "store"
<1>1. /\ build = "i2s" /\ Wraps /\ main.at = "push" /\ main.i <= Len(main.buf)
      /\ build' = build /\ produced' = produced /\ pcm' = pcm /\ sink' = sink
      /\ heard' = heard /\ ring' = ring /\ lost' = lost
      /\ main' = [main EXCEPT !.at = a] /\ a \in {"evict", "store"}
      /\ main.tail = Cell(ring.head, Filled) /\ main.late = FALSE
      /\ a = "evict" <=> After(main.tail) = ring.head
  BY DEF I2sTest, AudioOK, RingOK, MainOK, Wraps, Mains, Rings
<1> HIDE DEF a
<1>2. /\ main'.at = a /\ main'.buf = main.buf /\ main'.i = main.i
      /\ main'.tail = main.tail /\ main'.late = main.late
      /\ main' \in Mains
  BY <1>1 DEF AudioOK, MainOK, Mains
<1>3. MainOK'
  BY <1>1, <1>2 DEF AudioOK, MainOK, Mains
<1>4. Unpublished' = Unpublished /\ Unpublished = main.i - 1
  BY <1>1, <1>2 DEF Unpublished
<1>5. Wraps' = Wraps /\ Count' = Count /\ Filled' = Filled /\ InRing' = InRing
  BY <1>1, <1>4, RingStays
<1>6. Wraps /\ (a = "evict" <=> Filled = Space)
  BY <1>1, HasRoom
<1>7. a = "evict" => Count > BlockSamples
  <2>1. main.i - 1 <= Chunk - 1 /\ main.i \in Nat
    BY <1>1, Sizes DEF AudioOK, MainOK, Mains
  <2> QED
    BY <1>4, <1>6, <2>1, Numbers, Sizes
<1>8. a = "store" => Filled < Space
  BY <1>1, <1>6, Numbers, Sizes
<1>9. RingOK'
  BY <1>1, <1>2, <1>5, <1>7, <1>8 DEF AudioOK, RingOK, Space, Rings
<1>10. SinkOK'
  BY <1>1, <1>5 DEF AudioOK, SinkOK, Tasks
<1>11. LineOK'
  <2>1. Playing' = Playing /\ Queued' = Queued /\ Rest(main') = Rest(main)
    BY <1>1, <1>2, SinkStays DEF Rest
  <2> QED
    BY <1>1, <1>5, <2>1 DEF AudioOK, LineOK
<1> QED
  BY <1>3, <1>9, <1>10, <1>11 DEF AudioOK

LEMMA I2sEvicts ==
  ASSUME AudioOK, I2sEvict
  PROVE  AudioOK'
<1> DEFINE g == After(ring.head)
<1>1. /\ build = "i2s" /\ Wraps /\ main.at = "evict"
      /\ build' = build /\ produced' = produced /\ pcm' = pcm /\ sink' = sink /\ heard' = heard
      /\ ring' = [ring EXCEPT !.head = g] /\ lost' = lost \union {ring.slot[ring.head]}
      /\ main' = [main EXCEPT !.at = "store", !.late = FALSE]
      /\ main.tail = Cell(ring.head, Filled)
  BY DEF I2sEvict, AudioOK, RingOK, Wraps, Rings
<1>2. g \in Nat /\ g = (ring.head + 1) % RingSize /\ 1 \in 0 .. Count
  <2>1. Count > 0
    BY <1>1, Sizes, Numbers DEF AudioOK, RingOK, Rings
  <2>2. ring.head + 1 \in Int
    BY Numbers
  <2>3. (ring.head + 1) % RingSize \in 0 .. RingSize - 1
    BY <2>2, Sizes, DivMod
  <2> QED
    BY <2>1, <2>3, Numbers DEF After
<1> HIDE DEF g
<1>3. /\ main'.at = "store" /\ main'.buf = main.buf /\ main'.i = main.i
      /\ main'.tail = main.tail /\ main'.late = FALSE
      /\ main' \in Mains
  BY <1>1 DEF AudioOK, MainOK, Mains
<1>4. MainOK'
  BY <1>1, <1>3 DEF AudioOK, MainOK, Mains
<1>5. Unpublished' = Unpublished
  BY <1>1, <1>3 DEF Unpublished
<1>6. /\ ring' \in Rings
      /\ ring'.head = g /\ ring'.tail = ring.tail /\ ring'.slot = ring.slot
      /\ Count' = Count - 1 /\ Filled' = Filled - 1
      /\ g < RingSize /\ ring.tail = Cell(g, Count') /\ Cell(g, Filled') = Cell(ring.head, Filled)
      /\ Rises(View(ring.slot, g), Filled')
      /\ Apart(InRing, Image(View(ring.slot, ring.head), 1), InRing')
  BY <1>1, <1>2, <1>5, Leaves
<1>7. RingOK'
  <2>1. Space' = Space /\ Wraps'
    BY <1>1 DEF Space, Wraps
  <2>2. Count' \in Nat /\ Filled' < Space /\ Filled' <= Space
    <3>1. Count' = Count - 1 /\ Filled' = Filled - 1 /\ Count \in Nat /\ Filled \in Nat
          /\ Filled <= Space /\ Space \in {RingSize, RingSize - 1}
      BY <1>6, Numbers, Zenon
    <3> QED
      BY <1>2, <3>1, Sizes
  <2> QED
    BY <1>1, <1>3, <1>6, <2>1, <2>2 DEF RingOK, Rings
<1>8. SinkOK'
  BY <1>1 DEF AudioOK, SinkOK, Tasks
<1>9. LineOK'
  <2>1. Playing' = Playing /\ Queued' = Queued /\ Rest(main') = Rest(main)
    BY <1>1, <1>3, SinkStays DEF Rest
  <2>2. Image(View(ring.slot, ring.head), 1) = {ring.slot[ring.head]}
    BY <1>1, Numbers, FirstSeen
  <2>3. Line(Ran(heard), Playing, Queued, InRing', Rest(main), Ran(pcm), produced,
             lost \union {ring.slot[ring.head]})
    BY <1>6, <2>2, LineEvicts DEF AudioOK, LineOK
  <2> QED
    BY <1>1, <2>1, <2>3 DEF LineOK
<1> QED
  BY <1>4, <1>7, <1>8, <1>9 DEF AudioOK

LEMMA I2sStores ==
  ASSUME AudioOK, I2sStore
  PROVE  AudioOK'
<1>1. /\ build = "i2s" /\ Wraps /\ main.at = "store" /\ build' = build /\ produced' = produced
      /\ pcm' = pcm /\ sink' = sink /\ heard' = heard /\ lost' = lost
      /\ ring' = [ring EXCEPT !.slot[main.tail] = main.buf[main.i]]
      /\ main' = [Stored EXCEPT !.at = "push"]
      /\ main.tail = Cell(ring.head, Filled) /\ main.tail \in Nat
      /\ main.i <= Len(main.buf) /\ Filled < Space
  BY DEF I2sStore, AudioOK, RingOK, MainOK, Wraps, Mains, Rings
<1>2. /\ MainOK' /\ main'.at = "push" /\ main'.i = main.i + 1 /\ main'.buf = main.buf
      /\ main'.tail = After(main.tail)
  BY <1>1, PushGoesOn
<1>3. Unpublished' = Unpublished + 1
  BY <1>1, <1>2 DEF Unpublished, AudioOK, MainOK, Mains
<1>4. /\ ring' \in Rings
      /\ ring'.head = ring.head /\ ring'.tail = ring.tail
      /\ Count' = Count /\ Filled' = Filled + 1
      /\ Rises(View(ring'.slot, ring'.head), Filled')
      /\ SinkOK' /\ LineOK'
  BY <1>1, <1>2, <1>3, Stores
<1>5. main'.tail = Cell(ring.head, Filled')
  BY <1>1, <1>2, <1>4, AfterFilled
<1>6. RingOK'
  BY <1>1, <1>2, <1>4, <1>5, MoreFits
<1> QED
  BY <1>2, <1>4, <1>6 DEF AudioOK

LEMMA I2sPublishes ==
  ASSUME AudioOK, I2sPublish
  PROVE  AudioOK'
<1>1. /\ build = "i2s" /\ Wraps /\ main.at = "push" /\ build' = build /\ produced' = produced
      /\ pcm' = pcm /\ sink' = sink /\ heard' = heard /\ lost' = lost
      /\ ring' = [ring EXCEPT !.tail = main.tail] /\ main' = Pushed
      /\ main.tail = Cell(ring.head, Filled) /\ main.tail \in Nat
      /\ main.i > Len(main.buf) /\ main.buf \in Seq(Nat) /\ main.i \in Nat
  BY DEF I2sPublish, AudioOK, RingOK, MainOK, Wraps, Mains, Rings
<1>2. /\ MainOK' /\ main'.at = "drain" /\ main'.i = 1 /\ Rest(main') = {} /\ Unpublished' = 0
  BY <1>1, PushEnds
<1>3. /\ ring' \in Rings
      /\ ring'.head = ring.head /\ ring'.tail = main.tail /\ ring'.slot = ring.slot
      /\ Count' = Filled /\ Filled' = Filled /\ InRing' = InRing
  BY <1>1, <1>2, Publishes
<1>4. RingOK'
  BY <1>1, <1>2, <1>3, Numbers DEF AudioOK, RingOK, Wraps, Space, Rings
<1>5. SinkOK'
  BY <1>1 DEF AudioOK, SinkOK, Tasks
<1>6. LineOK'
  <2>1. Rest(main) = {}
    BY <1>1, RestEnds
  <2> QED
    BY <1>1, <1>2, <1>3, <2>1, Drops
<1> QED
  BY <1>2, <1>4, <1>5, <1>6 DEF AudioOK

LEMMA EspStores ==
  ASSUME AudioOK, EspStore
  PROVE  AudioOK'
<1>1. /\ build = "esp32" /\ Wraps /\ main.at = "push" /\ build' = build /\ produced' = produced
      /\ pcm' = pcm /\ sink' = sink /\ heard' = heard
  BY DEF EspStore, Wraps
<1>2. /\ Unpublished = 0 /\ Filled = Count /\ ring.tail = Cell(ring.head, Filled)
  BY <1>1, Numbers DEF Unpublished, AudioOK, RingOK, Rings
<1>3. CASE main' = Pushed /\ lost' = lost \union Rest(main) /\ ring' = ring
  <2>1. /\ MainOK' /\ main'.at = "drain" /\ main'.i = 1 /\ Rest(main') = {} /\ Unpublished' = 0
    BY <1>1, <1>3, PushEnds
  <2>2. Wraps' = Wraps /\ Count' = Count /\ Filled' = Filled /\ InRing' = InRing
    BY <1>1, <1>2, <1>3, <2>1, RingStays
  <2>3. RingOK'
    BY <1>1, <1>3, <2>1, <2>2 DEF AudioOK, RingOK, Space, Rings
  <2>4. SinkOK'
    BY <1>1, <1>3, <2>2 DEF AudioOK, SinkOK, Tasks
  <2>5. LineOK'
    BY <1>1, <1>3, <2>1, <2>2, Drops
  <2> QED
    BY <2>1, <2>3, <2>4, <2>5 DEF AudioOK
<1>4. CASE /\ ~(main.i > Len(main.buf) \/ After(ring.tail) = ring.head)
           /\ ring' = [ring EXCEPT !.slot[ring.tail] = main.buf[main.i]]
           /\ main' = [Stored EXCEPT !.at = "publish"] /\ lost' = lost
  <2>1. main.i <= Len(main.buf)
    BY <1>1, <1>4 DEF AudioOK, MainOK, Mains
  <2>2. /\ MainOK' /\ main'.at = "publish" /\ main'.i = main.i + 1 /\ main'.buf = main.buf
    BY <1>1, <1>4, <2>1, PushGoesOn
  <2>3. Filled < Space
    BY <1>1, <1>2, <1>4, HasRoom
  <2>4. Unpublished' = Unpublished + 1
    BY <1>1, <1>2, <2>2 DEF Unpublished
  <2>5. /\ ring' \in Rings
        /\ ring'.head = ring.head /\ ring'.tail = ring.tail
        /\ Count' = Count /\ Filled' = Filled + 1
        /\ Rises(View(ring'.slot, ring'.head), Filled')
        /\ SinkOK' /\ LineOK'
    BY <1>1, <1>2, <1>4, <2>1, <2>2, <2>3, <2>4, Stores
  <2>6. RingOK'
    BY <1>1, <2>2, <2>3, <2>5, MoreFits
  <2> QED
    BY <2>2, <2>5, <2>6 DEF AudioOK
<1> QED
  BY <1>3, <1>4 DEF EspStore

LEMMA EspPublishes ==
  ASSUME AudioOK, EspPublish
  PROVE  AudioOK'
<1>1. /\ build = "esp32" /\ Wraps /\ main.at = "publish" /\ build' = build
      /\ produced' = produced /\ pcm' = pcm /\ sink' = sink /\ heard' = heard /\ lost' = lost
      /\ ring' = [ring EXCEPT !.tail = After(ring.tail)]
      /\ main' = [main EXCEPT !.at = "push"] /\ main.late = FALSE
  BY DEF EspPublish, Wraps, AudioOK, MainOK, Mains
<1>2. /\ Unpublished = 1 /\ Filled = Count + 1 /\ ring.tail = Cell(ring.head, Count)
  BY <1>1, Numbers DEF Unpublished, AudioOK, RingOK, Rings
<1>3. After(ring.tail) = Cell(ring.head, Filled) /\ After(ring.tail) \in Nat
  <2>1. ring.head \in Int /\ Count \in Int /\ Filled \in Int
    BY Numbers
  <2>2. After(ring.tail) = Cell(ring.head, Filled)
    BY <1>2, <2>1, AfterCell
  <2>3. Cell(ring.head, Filled) \in 0 .. RingSize - 1
    BY <2>1, CellPlace
  <2> QED
    BY <2>2, <2>3
<1>4. /\ main'.at = "push" /\ main'.buf = main.buf /\ main'.i = main.i
      /\ main'.tail = main.tail /\ main'.late = main.late
      /\ main' \in Mains
  BY <1>1 DEF AudioOK, MainOK, Mains
<1>5. MainOK'
  BY <1>1, <1>4 DEF AudioOK, MainOK, Mains
<1>6. Unpublished' = 0
  BY <1>1, <1>4 DEF Unpublished
<1>7. /\ ring' \in Rings
      /\ ring'.head = ring.head /\ ring'.tail = After(ring.tail) /\ ring'.slot = ring.slot
      /\ Count' = Filled /\ Filled' = Filled /\ InRing' = InRing
  BY <1>1, <1>3, <1>6, Publishes
<1>8. RingOK'
  BY <1>1, <1>3, <1>4, <1>7, Numbers DEF AudioOK, RingOK, Wraps, Space, Rings
<1>9. SinkOK'
  <2>1. sink.at = "copy" => sink.count <= Count'
    BY <1>1, <1>2, <1>7, Numbers DEF AudioOK, SinkOK, Tasks
  <2> QED
    BY <1>1, <1>7, <2>1 DEF AudioOK, SinkOK, Tasks
<1>10. LineOK'
  <2>1. Playing' = Playing /\ Queued' = Queued /\ Rest(main') = Rest(main)
    BY <1>1, <1>4, SinkStays DEF Rest
  <2> QED
    BY <1>1, <1>7, <2>1 DEF AudioOK, LineOK
<1> QED
  BY <1>5, <1>8, <1>9, <1>10 DEF AudioOK

-----------------------------------------------------------------------------
(* The push of the builds that count without wrapping.                     *)
LaidDown(slot, t, b, n) ==
  [s \in 0 .. RingSize - 1 |->
     IF \E k \in 1 .. n : (t + k - 1) % RingSize = s
     THEN b[CHOOSE k \in 1 .. n : (t + k - 1) % RingSize = s]
     ELSE slot[s]]

LEMMA ManyStored ==
  ASSUME NEW slot \in Slots, NEW h \in Nat, NEW c \in Nat, NEW n \in Nat, c + n <= RingSize,
         NEW b, \A k \in 1 .. n : b[k] \in Nat, Rises(View(slot, h), c), Rises(b, n),
         Before(Image(View(slot, h), c), Image(b, n)), NEW t, t = h + c,
         NEW new, new = LaidDown(slot, t, b, n)
  PROVE  new \in Slots /\ RisesTo(View(new, h), c + n, Image(View(slot, h), c) \union Image(b, n))
<1> DEFINE f == View(slot, h)
           v == View(new, h)
           In(k, s) == (t + k - 1) % RingSize = s
<1>1. ASSUME NEW k \in 1 .. n, NEW s PROVE In(k, s) <=> Cell(h, (c + k) - 1) = s
  <2>1. t + k - 1 = h + ((c + k) - 1)
    OBVIOUS
  <2> QED
    BY <2>1, Zenon DEF Cell
<1>2. ASSUME NEW s \in 0 .. RingSize - 1, NEW k \in 1 .. n, In(k, s) PROVE new[s] = b[k]
  <2> DEFINE j == CHOOSE i \in 1 .. n : In(i, s)
  <2>1. j \in 1 .. n /\ In(j, s)
    BY <1>2, Zenon
  <2>2. new[s] = b[j]
    BY <1>2 DEF LaidDown
  <2> HIDE DEF j, In
  <2>3. Cell(h, (c + j) - 1) = Cell(h, (c + k) - 1)
    BY <1>1, <1>2, <2>1
  <2>4. /\ (c + j) - 1 \in 0 .. RingSize - 1 /\ (c + k) - 1 \in 0 .. RingSize - 1 /\ h \in Int
    BY <2>1, Sizes
  <2>5. (c + j) - 1 = (c + k) - 1
    BY <2>3, <2>4, CellDistinct
  <2> QED
    BY <2>1, <2>2, <2>5
<1>3. ASSUME NEW s \in 0 .. RingSize - 1, \A k \in 1 .. n : ~In(k, s) PROVE new[s] = slot[s]
  BY <1>3 DEF LaidDown
<1>4. new \in Slots
  <2>1. \A s \in 0 .. RingSize - 1 : new[s] \in Nat
    BY <1>2, <1>3 DEF Slots
  <2> QED
    BY <2>1 DEF Slots, LaidDown
<1> HIDE DEF In
<1>5. ASSUME NEW k \in 1 .. c + n PROVE v[k] = IF k <= c THEN f[k] ELSE b[k - c]
  <2> DEFINE s == Cell(h, k - 1)
  <2>1. /\ k \in Nat \ {0} /\ h \in Int /\ k - 1 \in Int /\ k - 1 \in 0 .. RingSize - 1
    BY Sizes
  <2>2. s \in 0 .. RingSize - 1
    BY <2>1, CellPlace
  <2>3. v[k] = new[s] /\ f[k] = slot[s]
    BY <1>4, <2>1, ViewIs
  <2>4. CASE k <= c
    <3>1. ASSUME NEW j \in 1 .. n, In(j, s) PROVE FALSE
      <4>1. Cell(h, (c + j) - 1) = Cell(h, k - 1)
        BY <1>1, <3>1
      <4>2. (c + j) - 1 \in 0 .. RingSize - 1 /\ (c + j) - 1 # k - 1
        BY <2>4, Sizes
      <4> QED
        BY <2>1, <4>1, <4>2, CellDistinct
    <3>2. new[s] = slot[s]
      BY <1>3, <2>2, <3>1
    <3> QED
      BY <2>3, <2>4, <3>2
  <2>5. CASE ~(k <= c)
    <3>1. k - c \in 1 .. n /\ (c + (k - c)) - 1 = k - 1
      BY <2>5
    <3>2. In(k - c, s)
      BY <1>1, <3>1
    <3>3. new[s] = b[k - c]
      BY <1>2, <2>2, <3>1, <3>2
    <3> QED
      BY <2>3, <2>5, <3>3
  <2> QED
    BY <2>4, <2>5
<1> HIDE DEF v, f
<1>6. Joined(v, f, c, b, n)
  BY <1>5 DEF Joined
<1>7. RisesTo(v, c + n, Image(f, c) \union Image(b, n))
  BY <1>6, RisesOn, Zenon DEF f
<1> QED
  BY <1>4, <1>7 DEF v, f

LEMMA TwoParts ==
  ASSUME NEW b, Increasing(b), NEW n \in 0 .. Len(b)
  PROVE  /\ Rises(b, n) /\ \A k \in 1 .. n : b[k] \in Nat
         /\ Apart(Ran(b), Image(b, n), {b[k] : k \in n + 1 .. Len(b)})
<1>1. b \in Seq(Nat) /\ Len(b) \in Nat /\ \A j, k \in 1 .. Len(b) : j < k => b[j] < b[k]
  BY DEF Increasing, Rises
<1>2. \A k \in 1 .. n : k \in 1 .. Len(b)
  BY <1>1
<1>3. \A k \in n + 1 .. Len(b) : k \in 1 .. Len(b) /\ \A j \in 1 .. n : j < k
  BY <1>1
<1>4. \A k \in 1 .. Len(b) : k \in 1 .. n \/ k \in n + 1 .. Len(b)
  BY <1>1
<1>5. Ran(b) = Image(b, n) \union {b[k] : k \in n + 1 .. Len(b)}
  BY <1>2, <1>3, <1>4 DEF Ran, Image
<1>6. Before(Image(b, n), {b[k] : k \in n + 1 .. Len(b)})
  BY <1>1, <1>2, <1>3 DEF Before, Image
<1> QED
  BY <1>1, <1>2, <1>5, <1>6 DEF Apart, Rises

LEMMA Puts ==
  ASSUME AudioOK, PutAll
  PROVE  AudioOK'
<1> DEFINE room == (IF build = "web" THEN RingSize ELSE RingSize - 1) - (ring.tail - ring.head)
           n == Smaller(Len(main.buf), room)
           b == main.buf
           f == View(ring.slot, ring.head)
           over == {b[k] : k \in n + 1 .. Len(b)}
           new == [s \in 0 .. RingSize - 1 |->
                     IF \E k \in 1 .. n : (ring.tail + k - 1) % RingSize = s
                     THEN b[CHOOSE k \in 1 .. n : (ring.tail + k - 1) % RingSize = s]
                     ELSE ring.slot[s]]
           t == ring.tail + n
<1>1. /\ build \in {"sdl", "web"} /\ ~Wraps /\ main.at = "push" /\ build' = build
      /\ produced' = produced /\ pcm' = pcm /\ sink' = sink /\ heard' = heard
      /\ main' = Pushed /\ lost' = lost \union over
  BY DEF PutAll, Wraps
<1>2. /\ Count = ring.tail - ring.head /\ Unpublished = 0 /\ Filled = Count /\ Count \in Nat
      /\ room = Space - Count /\ Count <= Space /\ Space \in {RingSize, RingSize - 1}
      /\ ring.head \in Nat /\ ring.tail = ring.head + Count /\ ring.slot \in Slots
  <2>1. Count = ring.tail - ring.head /\ Unpublished = 0
    BY <1>1 DEF Count, Unpublished
  <2>2. room = Space - Count
    BY <2>1 DEF Space
  <2> QED
    BY <2>1, <2>2, Numbers
<1>3. /\ Increasing(b) /\ main.i = 1 /\ Rest(main) = Ran(b) /\ Len(b) \in Nat
  BY <1>1, RestEnds DEF AudioOK, MainOK, Increasing, Mains
<1> HIDE DEF room
<1>4. /\ n \in 0 .. Len(b) /\ Count + n <= Space /\ n \in Nat /\ t \in Nat
  BY <1>2, <1>3, Sizes DEF Smaller
<1>5. ring' = [ring EXCEPT !.slot = new, !.tail = t]
  <2>1. DOMAIN ring.slot = 0 .. RingSize - 1
    BY <1>2 DEF Slots
  <2> QED
    BY <2>1, Zenon DEF PutAll, room
<1> HIDE DEF n
<1>6. /\ Rises(b, n) /\ \A k \in 1 .. n : b[k] \in Nat
      /\ Apart(Rest(main), Image(b, n), over)
  BY <1>3, <1>4, TwoParts
<1> HIDE DEF over
<1>7. Line(Ran(heard), Playing, Queued, InRing \union Image(b, n), over, Ran(pcm), produced, lost)
  BY <1>6, LineStores DEF AudioOK, LineOK
<1>8. Before(InRing, Image(b, n)) /\ Rises(f, Count) /\ InRing = Image(f, Count)
  <2>1. Before(InRing, Rest(main))
    BY Zenon DEF AudioOK, LineOK, Line, InLine
  <2> QED
    BY <1>2, <1>6, <2>1 DEF AudioOK, RingOK, Before, Apart, InRing, Rings
<1>9. new \in Slots /\ RisesTo(View(new, ring.head), Count + n, InRing \union Image(b, n))
  <2>1. Count + n <= RingSize
    BY <1>2, <1>4, Sizes
  <2>2. new = LaidDown(ring.slot, ring.tail, b, n)
    BY DEF LaidDown
  <2> HIDE DEF new
  <2>3. new \in Slots /\ RisesTo(View(new, ring.head), Count + n, Image(f, Count) \union Image(b, n))
    BY <1>2, <1>4, <1>6, <1>8, <2>1, <2>2, ManyStored
  <2> QED
    BY <1>8, <2>3
<1> HIDE DEF new, t
<1>10. /\ ring' \in Rings
       /\ ring'.head = ring.head /\ ring'.tail = t /\ ring'.slot = new
  <2>1. new \in [0 .. RingSize - 1 -> Nat]
    BY <1>9 DEF Slots
  <2> QED
    BY <1>4, <1>5, <2>1 DEF AudioOK, RingOK, Rings
<1>11. /\ MainOK' /\ main'.at = "drain" /\ Rest(main') = {} /\ Unpublished' = 0
  BY <1>1, PushEnds
<1>12. Count' = Count + n /\ Filled' = Count + n /\ ~Wraps'
  <2>1. Count' = Count + n /\ ~Wraps'
    BY <1>1, <1>2, <1>4, <1>10 DEF Count, Wraps, t
  <2>2. Count + n \in Nat /\ Unpublished' = 0
    BY <1>2, <1>4, <1>11
  <2>3. Filled' = Count' + Unpublished'
    BY DEF Filled
  <2> QED
    BY <2>1, <2>2, <2>3
<1>13. Rises(View(ring'.slot, ring'.head), Filled') /\ InRing' = InRing \union Image(b, n)
  BY <1>9, <1>10, <1>12 DEF RisesTo, InRing
<1>14. RingOK'
  <2>1. Space' = Space
    BY <1>1 DEF Space
  <2>2. Count' \in Nat /\ Filled' <= Space
    <3>1. Count' = Count + n /\ Filled' = Count + n /\ Count \in Nat /\ n \in Nat /\ Count + n <= Space
      BY <1>2, <1>4, <1>12, Zenon
    <3> QED
      BY <3>1
  <2> QED
    BY <1>1, <1>10, <1>11, <1>12, <1>13, <2>1, <2>2 DEF RingOK, Rings
<1>15. SinkOK'
  BY <1>1 DEF AudioOK, SinkOK, Tasks
<1>16. LineOK'
  <2>1. Line(Ran(heard), Playing, Queued, InRing', {}, Ran(pcm), produced, lost \union over)
    BY <1>7, <1>13, LineDrops
  <2> QED
    BY <1>1, <1>11, <2>1, SinkStays DEF LineOK
<1> QED
  BY <1>11, <1>14, <1>15, <1>16 DEF AudioOK

-----------------------------------------------------------------------------
(* What empties the ring.                                                  *)
AsSequence(f, n) == [k \in 1 .. n |-> f[k]]
IsRun(s, f, n) == s \in Seq(Nat) /\ Len(s) = n /\ \A k \in 1 .. n : s[k] = f[k]

LEMMA IsSequence ==
  ASSUME NEW f, NEW n \in Nat, \A k \in 1 .. n : f[k] \in Nat
  PROVE  IsRun(AsSequence(f, n), f, n)
BY DEF AsSequence, IsRun

Oldest(slot, h, n) == [k \in 1 .. n |-> slot[(h + k - 1) % RingSize]]

LEMMA BlockIs ==
  ASSUME NEW slot \in Slots, NEW h \in Nat, NEW n \in Nat, Rises(View(slot, h), n),
         NEW s, s = Oldest(slot, h, n)
  PROVE  Increasing(s) /\ Len(s) = n /\ Ran(s) = Image(View(slot, h), n)
<1>1. ASSUME NEW k \in 1 .. n
      PROVE  slot[(h + k - 1) % RingSize] = View(slot, h)[k] /\ View(slot, h)[k] \in Nat
  <2>1. k \in Nat \ {0} /\ h + k - 1 = h + (k - 1)
    OBVIOUS
  <2>2. (h + k - 1) % RingSize = Cell(h, k - 1)
    BY <2>1, Zenon DEF Cell
  <2> QED
    BY <2>1, <2>2, ViewIs
<1>2. s \in Seq(Nat) /\ Len(s) = n /\ \A k \in 1 .. n : s[k] = View(slot, h)[k]
  <2>1. s = AsSequence(View(slot, h), n) /\ \A k \in 1 .. n : View(slot, h)[k] \in Nat
    BY <1>1 DEF AsSequence, Oldest
  <2>2. IsRun(s, View(slot, h), n)
    BY <2>1, IsSequence, Zenon
  <2> QED
    BY <2>2, Zenon DEF IsRun
<1> QED
  BY <1>2, TakenOut

LEMMA RingEmpties ==
  ASSUME AudioOK, build' = build, Unpublished' = Unpublished,
         NEW n \in 0 .. Count, NEW g \in Nat,
         g = IF Wraps THEN (ring.head + n) % RingSize ELSE ring.head + n,
         ring' = [ring EXCEPT !.head = g],
         main'.at = main.at, main'.tail = main.tail,
         main.at = "evict" => Count - n > IF main'.late THEN 0 ELSE BlockSamples
  PROVE  /\ RingOK' /\ Count' = Count - n
         /\ Apart(InRing, Image(View(ring.slot, ring.head), n), InRing')
         /\ Rises(View(ring.slot, ring.head), n)
<1>1. /\ ring' \in Rings
      /\ ring'.head = g /\ ring'.tail = ring.tail /\ ring'.slot = ring.slot
      /\ Count' = Count - n /\ Filled' = Filled - n
      /\ Wraps => g < RingSize /\ ring.tail = Cell(g, Count') /\ Cell(g, Filled') = Cell(ring.head, Filled)
      /\ Rises(View(ring.slot, g), Filled')
      /\ Apart(InRing, Image(View(ring.slot, ring.head), n), InRing')
      /\ Rises(View(ring.slot, ring.head), n)
  BY Leaves
<1>2. Space' = Space /\ Wraps' = Wraps
  BY DEF Space, Wraps
<1>3. Count' \in Nat /\ Filled' <= Filled /\ Filled' <= Space /\ (Filled < Space => Filled' < Space)
  <2>1. Count' = Count - n /\ Filled' = Filled - n /\ Count \in Nat /\ Filled \in Nat
        /\ Filled <= Space /\ Space \in {RingSize, RingSize - 1}
    BY <1>1, Numbers, Zenon
  <2> QED
    BY <2>1, Sizes
<1>4. build \in {"pwm", "i2s"} => Wraps
  BY DEF Wraps
<1>5. build' \in {"pwm", "i2s"} /\ main'.at \in {"push", "evict", "store"} =>
        main'.tail = Cell(ring'.head, Filled')
  BY <1>1, <1>4 DEF AudioOK, RingOK, Rings
<1>6. main'.at = "store" => Filled' < Space'
  BY <1>2, <1>3 DEF AudioOK, RingOK, Rings
<1>7. main'.at = "evict" => Count' > IF main'.late THEN 0 ELSE BlockSamples
  BY <1>1
<1>8. RingOK'
  BY <1>1, <1>2, <1>3, <1>5, <1>6, <1>7 DEF RingOK, Rings
<1> QED
  BY <1>1, <1>8

(* The main loop does not move.                                            *)
LEMMA MainStays ==
  ASSUME AudioOK, UNCHANGED <<build, produced, pcm, main>>, Increasing(heard')
  PROVE  /\ MainOK' /\ Unpublished' = Unpublished /\ Rest(main') = Rest(main)
         /\ main'.at = main.at /\ main'.tail = main.tail /\ main'.late = main.late
<1>1. MainOK'
  BY DEF AudioOK, MainOK, Mains
<1> QED
  BY <1>1 DEF Unpublished, Rest

LEMMA PwmTakes ==
  ASSUME AudioOK, PwmIrq
  PROVE  AudioOK'
<1>1. /\ build = "pwm" /\ Wraps /\ build' = build /\ produced' = produced /\ pcm' = pcm
      /\ main' = main /\ sink' = sink /\ lost' = lost
  BY DEF PwmIrq, Wraps
<1>2. CASE ring' = ring /\ heard' = heard
  <2>1. MainOK' /\ Unpublished' = Unpublished /\ Rest(main') = Rest(main)
    BY <1>1, <1>2, MainStays DEF AudioOK, MainOK, Mains
  <2>2. Wraps' = Wraps /\ Count' = Count /\ Filled' = Filled /\ InRing' = InRing
    BY <1>1, <1>2, <2>1, RingStays
  <2>3. RingOK'
    BY <1>1, <1>2, <2>1, <2>2 DEF AudioOK, RingOK, Space, Rings
  <2>4. SinkOK' /\ LineOK'
    BY <1>1, <1>2, <2>1, <2>2, SinkStays DEF AudioOK, SinkOK, LineOK, Tasks
  <2> QED
    BY <2>1, <2>3, <2>4 DEF AudioOK
<1>3. CASE /\ ring.head # ring.tail
           /\ heard' = Append(heard, ring.slot[ring.head])
           /\ ring' = [ring EXCEPT !.head = After(@)]
  <2> DEFINE g == After(ring.head)
             x == ring.slot[ring.head]
  <2>1. /\ ring.head \in 0 .. RingSize - 1 /\ ring.slot \in Slots /\ Count \in Nat
        /\ ring.tail = Cell(ring.head, Count) /\ Cell(ring.head, 0) = ring.head
    BY <1>1, Numbers, CellHere DEF AudioOK, RingOK, Rings
  <2>2. 1 \in 0 .. Count /\ g = (ring.head + 1) % RingSize /\ g \in Nat /\ x \in Nat
    <3>1. Count # 0
      BY <1>3, <2>1
    <3>2. ring.head + 1 \in Int
      BY <2>1
    <3>3. (ring.head + 1) % RingSize \in 0 .. RingSize - 1
      BY <3>2, Sizes, DivMod
    <3>4. g = (ring.head + 1) % RingSize /\ g \in Nat
      BY <3>3 DEF After
    <3>5. 1 \in 0 .. Count
      BY <2>1, <3>1
    <3>6. x \in Nat
      BY <2>1 DEF Slots
    <3> QED
      BY <3>4, <3>5, <3>6
  <2>3. Image(View(ring.slot, ring.head), 1) = {x}
    BY <2>1, FirstSeen
  <2>4. ring' = [ring EXCEPT !.head = g] /\ heard' = Append(heard, x)
    BY <1>3
  <2> HIDE DEF g, x
  <2>5. Unpublished' = Unpublished
    BY <1>1 DEF Unpublished
  <2>6. main.at # "evict"
    BY <1>1 DEF AudioOK, MainOK, Mains
  <2>7. RingOK' /\ Apart(InRing, {x}, InRing')
    BY <1>1, <2>2, <2>3, <2>4, <2>5, <2>6, RingEmpties
  <2>8. Increasing(heard') /\ Ran(heard') = Ran(heard) \union {x}
    <3>1. Increasing(heard) /\ Before(Ran(heard), {x})
      BY <2>7 DEF AudioOK, MainOK, LineOK, Line, InLine, Before, Apart, Mains
    <3> QED
      BY <2>2, <2>4, <3>1, OneMore
  <2>9. MainOK' /\ Rest(main') = Rest(main)
    BY <1>1, <2>8, MainStays
  <2>10. SinkOK'
    BY <1>1 DEF AudioOK, SinkOK, Tasks
  <2>11. LineOK'
    <3>1. Playing = {} /\ Queued = {} /\ Playing' = {} /\ Queued' = {}
      BY <1>1 DEF Playing, Queued
    <3>2. Line(Ran(heard) \union {x}, {}, {}, InRing', Rest(main), Ran(pcm), produced, lost)
      BY <2>7, <3>1, LinePlays DEF AudioOK, LineOK
    <3> QED
      BY <1>1, <2>8, <2>9, <3>1, <3>2 DEF LineOK
  <2> QED
    BY <2>7, <2>9, <2>10, <2>11 DEF AudioOK
<1> QED
  BY <1>2, <1>3 DEF PwmIrq

LEMMA DmaTakes ==
  ASSUME AudioOK, DmaIrq
  PROVE  AudioOK'
<1> DEFINE block == BlockOf(ring)
           n == Smaller(Count, BlockSamples)
           g == (ring.head + n) % RingSize
           e == sink.ended
           late == main.at = "evict"
<1>1. /\ build = "i2s" /\ Wraps /\ build' = build /\ produced' = produced /\ pcm' = pcm
      /\ heard' = heard /\ lost' = lost /\ e # 0 /\ (main.at = "evict" => ~main.late)
  BY DEF DmaIrq, Wraps
<1>2. /\ Count = Level(ring) /\ Count \in Nat /\ n \in 0 .. Count /\ n <= BlockSamples
      /\ (Count > BlockSamples => n = BlockSamples)
      /\ ring.slot \in Slots /\ ring.head \in Nat /\ n \in Nat
  BY <1>1, Numbers, Sizes DEF Count, Smaller
<1>3. block = Oldest(ring.slot, ring.head, n)
  BY <1>2, Zenon DEF BlockOf, Oldest
<1>4. g \in Nat
  <2>1. ring.head + n \in Int
    BY <1>2
  <2>2. (ring.head + n) % RingSize \in 0 .. RingSize - 1
    BY <2>1, Sizes, DivMod
  <2> QED
    BY <2>2
<1>5. late \in BOOLEAN /\ (late <=> main.at = "evict")
  OBVIOUS
<1> HIDE DEF n, block, late
<1>6. Rises(View(ring.slot, ring.head), n)
  BY <1>2, Numbers DEF AudioOK, RingOK, Rises, Rings
<1>7. Increasing(block) /\ Len(block) = n /\ Ran(block) = Image(View(ring.slot, ring.head), n)
  BY <1>2, <1>3, <1>6, BlockIs
<1>8. /\ ring' = [ring EXCEPT !.head = g] /\ main' = [main EXCEPT !.late = late]
      /\ sink' = [sink EXCEPT !.block[e] = block, !.ended = 0]
  BY <1>7 DEF DmaIrq, block, late
<1> HIDE DEF g
<1>9. /\ main'.at = main.at /\ main'.buf = main.buf /\ main'.i = main.i /\ main'.tail = main.tail
      /\ main'.late = late
      /\ main' \in Mains
  BY <1>5, <1>8 DEF AudioOK, MainOK, Mains
<1>10. MainOK'
  BY <1>1, <1>5, <1>9 DEF AudioOK, MainOK, Mains
<1>11. Unpublished' = Unpublished /\ Rest(main') = Rest(main)
  BY <1>1, <1>9 DEF Unpublished, Rest
<1>12. main.at = "evict" => Count - n > IF main'.late THEN 0 ELSE BlockSamples
  <2>1. main.at = "evict" => Count > BlockSamples /\ main'.late
    BY <1>1, <1>5, <1>9 DEF AudioOK, RingOK, Rings
  <2> QED
    BY <1>2, <2>1, Sizes
<1>13. g = IF Wraps THEN (ring.head + n) % RingSize ELSE ring.head + n
  BY <1>1 DEF g
<1>14. RingOK' /\ Apart(InRing, Ran(block), InRing')
  BY <1>1, <1>2, <1>4, <1>7, <1>8, <1>9, <1>11, <1>12, <1>13, RingEmpties
<1> DEFINE blocks == [sink.block EXCEPT ![e] = block]
<1>15. /\ e \in {1, 2} /\ e # sink.playing /\ e = 3 - sink.playing /\ sink.playing \in {1, 2}
       /\ blocks \in [{1, 2} -> Seq(Nat)] /\ blocks[e] = block
       /\ blocks[sink.playing] = sink.block[sink.playing]
       /\ sink.block \in [{1, 2} -> Seq(Nat)]
  BY <1>1, <1>7 DEF AudioOK, SinkOK, Increasing, Tasks
<1>16. sink' = [sink EXCEPT !.block = blocks, !.ended = 0]
  BY <1>8
<1> HIDE DEF blocks
<1>17. /\ sink' \in [block : [{1, 2} -> Seq(Nat)], playing : {1, 2}, ended : {0, 1, 2}]
       /\ sink'.block = blocks /\ sink'.playing = sink.playing /\ sink'.ended = 0
  BY <1>1, <1>15, <1>16 DEF AudioOK, SinkOK, Tasks
<1>18. Increasing(blocks[1]) /\ Increasing(blocks[2])
  BY <1>1, <1>7, <1>15 DEF AudioOK, SinkOK, Tasks
<1>19. SinkOK'
  BY <1>1, <1>15, <1>17, <1>18 DEF SinkOK, Tasks
<1>20. LineOK'
  <2>1. Playing' = Playing /\ Queued = {} /\ Queued' = Ran(block)
    BY <1>1, <1>15, <1>17 DEF Playing, Queued
  <2>2. Line(Ran(heard), Playing, Ran(block), InRing', Rest(main), Ran(pcm), produced, lost)
    BY <1>14, <2>1, LineQueues DEF AudioOK, LineOK
  <2> QED
    BY <1>1, <1>11, <2>1, <2>2 DEF LineOK
<1> QED
  BY <1>10, <1>14, <1>19, <1>20 DEF AudioOK

LEMMA DmaPlays ==
  ASSUME AudioOK, DmaEnds
  PROVE  AudioOK'
<1> DEFINE p == sink.playing
           o == 3 - p
           b == sink.block[p]
<1>1. /\ build = "i2s" /\ Wraps /\ build' = build /\ produced' = produced /\ pcm' = pcm
      /\ main' = main /\ ring' = ring /\ lost' = lost /\ sink.ended = 0
      /\ heard' = heard \o b
      /\ sink' = [sink EXCEPT !.ended = p, !.playing = o]
  BY DEF DmaEnds, Wraps
<1>2. /\ p \in {1, 2} /\ o \in {1, 2} /\ o # p /\ Increasing(b)
      /\ Increasing(sink.block[1]) /\ Increasing(sink.block[2])
      /\ sink \in [block : [{1, 2} -> Seq(Nat)], playing : {1, 2}, ended : {0, 1, 2}]
  BY <1>1 DEF AudioOK, SinkOK, Tasks
<1> HIDE DEF p, o
<1>3. /\ sink' \in [block : [{1, 2} -> Seq(Nat)], playing : {1, 2}, ended : {0, 1, 2}]
      /\ sink'.block = sink.block /\ sink'.playing = o /\ sink'.ended = p
  BY <1>1, <1>2
<1>4. Playing = Ran(b) /\ Queued = Ran(sink.block[o]) /\ Playing' = Ran(sink.block[o]) /\ Queued' = {}
  BY <1>1, <1>2, <1>3 DEF Playing, Queued, p, o
<1>5. Increasing(heard') /\ Ran(heard') = Ran(heard) \union Ran(b)
  <2>1. Increasing(heard) /\ Before(Ran(heard), Ran(b))
    BY <1>4 DEF AudioOK, MainOK, LineOK, Line, InLine, Mains
  <2> QED
    BY <1>1, <1>2, <2>1, JoinedUp
<1>6. MainOK' /\ Unpublished' = Unpublished /\ Rest(main') = Rest(main)
  BY <1>1, <1>5, MainStays
<1>7. Wraps' = Wraps /\ Count' = Count /\ Filled' = Filled /\ InRing' = InRing
  BY <1>1, <1>6, RingStays
<1>8. RingOK'
  BY <1>1, <1>7 DEF AudioOK, RingOK, Space, Rings
<1>9. SinkOK'
  BY <1>1, <1>2, <1>3 DEF SinkOK, Tasks
<1>10. LineOK'
  <2>1. Line(Ran(heard) \union Ran(b), Ran(sink.block[o]), {}, InRing, Rest(main), Ran(pcm), produced, lost)
    BY <1>4, LineSounds DEF AudioOK, LineOK
  <2> QED
    BY <1>1, <1>4, <1>5, <1>6, <1>7, <2>1 DEF LineOK
<1> QED
  BY <1>6, <1>8, <1>9, <1>10 DEF AudioOK

LEMMA TaskLooks ==
  ASSUME AudioOK, TaskPeek
  PROVE  AudioOK'
<1> DEFINE n == Smaller(Count, Chunk)
           h == ring.head
<1>1. /\ build = "esp32" /\ Wraps /\ build' = build /\ produced' = produced /\ pcm' = pcm
      /\ main' = main /\ ring' = ring /\ lost' = lost /\ heard' = heard /\ sink.at = "peek"
      /\ Count = Level(ring) /\ sink.chunk = <<>> /\ sink \in Tasks
      /\ sink' = sink \/ sink' = [sink EXCEPT !.at = "copy", !.from = h, !.count = n]
  BY DEF TaskPeek, Wraps, Count, AudioOK, SinkOK, Tasks
<1>2. /\ n \in Nat /\ n <= Count /\ h \in Nat
  BY Numbers, Sizes DEF Smaller
<1> HIDE DEF n, h
<1>3. MainOK' /\ Unpublished' = Unpublished /\ Rest(main') = Rest(main)
  BY <1>1, MainStays DEF AudioOK, MainOK, Mains
<1>4. Wraps' = Wraps /\ Count' = Count /\ Filled' = Filled /\ InRing' = InRing
  BY <1>1, <1>3, RingStays
<1>5. RingOK'
  BY <1>1, <1>4 DEF AudioOK, RingOK, Space, Rings
<1>6. /\ sink' \in Tasks /\ sink'.chunk = <<>> /\ sink'.at # "write"
      /\ sink'.at = "copy" => sink'.from = h /\ sink'.count = n
  BY <1>1, <1>2 DEF Tasks
<1>7. SinkOK'
  <2>1. Increasing(sink'.chunk)
    BY <1>1, <1>6 DEF AudioOK, SinkOK, Tasks
  <2>2. Len(sink'.chunk) = 0
    BY <1>6
  <2>3. \A k \in 1 .. Len(sink'.chunk) : sink'.chunk[k] = View(ring'.slot, ring'.head)[k]
    BY <2>2
  <2> QED
    BY <1>1, <1>2, <1>4, <1>6, <2>1, <2>2, <2>3 DEF SinkOK, Tasks, h
<1>8. LineOK'
  <2>1. Playing = {} /\ Queued = {} /\ Playing' = {} /\ Queued' = {}
    BY <1>1, <1>6 DEF Playing, Queued
  <2> QED
    BY <1>1, <1>3, <1>4, <2>1 DEF AudioOK, LineOK
<1> QED
  BY <1>3, <1>5, <1>7, <1>8 DEF AudioOK

LEMMA TaskCopies ==
  ASSUME AudioOK, TaskCopy
  PROVE  AudioOK'
<1> DEFINE f == View(ring.slot, ring.head)
           c == sink.chunk
           n == sink.count
<1>1. /\ build = "esp32" /\ Wraps /\ build' = build /\ produced' = produced /\ pcm' = pcm
      /\ main' = main /\ lost' = lost /\ heard' = heard /\ sink.at = "copy" /\ sink \in Tasks
      /\ sink.from = ring.head /\ n <= Count /\ Len(c) <= n /\ Increasing(c)
      /\ \A k \in 1 .. Len(c) : c[k] = f[k]
  BY DEF TaskCopy, Wraps, AudioOK, SinkOK, Tasks
<1>2. /\ n \in Nat /\ c \in Seq(Nat) /\ Len(c) \in Nat /\ ring.head \in Nat /\ ring.slot \in Slots
      /\ Count \in Nat /\ Count <= Filled /\ Filled \in Nat
  BY <1>1, Numbers DEF Tasks
<1>3. MainOK' /\ Unpublished' = Unpublished /\ Rest(main') = Rest(main)
      /\ main'.at = main.at /\ main'.tail = main.tail
  BY <1>1, MainStays DEF AudioOK, MainOK, Mains
<1>4. Playing = {} /\ Queued = {} /\ Queued' = {}
  BY <1>1 DEF Playing, Queued
<1>5. Rises(f, n)
  BY <1>1, <1>2 DEF AudioOK, RingOK, Rises, Rings
<1> HIDE DEF f, c, n
<1>6. CASE /\ Len(c) < n /\ ring' = ring
           /\ sink' = [sink EXCEPT !.chunk = Append(c, ring.slot[(sink.from + Len(c)) % RingSize])]
  <2> DEFINE x == ring.slot[(sink.from + Len(c)) % RingSize]
             new == Append(c, x)
  <2>1. x = f[Len(c) + 1] /\ x \in Nat
    <3>1. Len(c) + 1 \in Nat \ {0} /\ (Len(c) + 1) - 1 = Len(c)
      BY <1>2
    <3>2. f[Len(c) + 1] = ring.slot[Cell(ring.head, (Len(c) + 1) - 1)] /\ f[Len(c) + 1] \in Nat
      BY <1>2, <3>1, ViewIs DEF f
    <3> QED
      BY <1>1, <3>1, <3>2 DEF Cell
  <2>2. sink' = [sink EXCEPT !.chunk = new]
    BY <1>6
  <2> HIDE DEF x
  <2>3. /\ new \in Seq(Nat) /\ Len(new) = Len(c) + 1 /\ Len(new) <= n
        /\ \A k \in 1 .. Len(new) : new[k] = f[k]
    BY <1>1, <1>2, <1>6, <2>1
  <2> HIDE DEF new
  <2>4. Increasing(new)
    <3>1. \A k \in 1 .. Len(new) : k \in 1 .. n /\ new[k] = f[k]
      BY <1>2, <2>3
    <3>2. Rises(new, Len(new))
      BY <1>5, <3>1 DEF Rises
    <3> QED
      BY <2>3, <3>2 DEF Increasing
  <2>5. /\ sink' \in Tasks /\ sink'.at = "copy" /\ sink'.from = sink.from /\ sink'.count = n
        /\ sink'.chunk = new
    BY <1>1, <2>2, <2>3 DEF Tasks, n
  <2>6. Wraps' = Wraps /\ Count' = Count /\ Filled' = Filled /\ InRing' = InRing
    BY <1>1, <1>3, <1>6, RingStays
  <2>7. RingOK'
    BY <1>1, <1>3, <1>6, <2>6 DEF AudioOK, RingOK, Space, Rings
  <2>8. SinkOK'
    BY <1>1, <1>6, <2>3, <2>4, <2>5, <2>6 DEF SinkOK, Tasks, f
  <2>9. LineOK'
    <3>1. Playing' = {}
      BY <1>1, <2>5 DEF Playing
    <3> QED
      BY <1>1, <1>3, <1>4, <2>6, <3>1 DEF AudioOK, LineOK
  <2> QED
    BY <1>3, <2>7, <2>8, <2>9 DEF AudioOK
<1>7. CASE /\ ~(Len(c) < n)
           /\ ring' = [ring EXCEPT !.head = (sink.from + sink.count) % RingSize]
           /\ sink' = [sink EXCEPT !.at = "write"]
  <2> DEFINE g == (ring.head + n) % RingSize
  <2>1. Len(c) = n /\ n \in 0 .. Count
    BY <1>1, <1>2, <1>7
  <2>2. g \in Nat /\ ring' = [ring EXCEPT !.head = g]
    <3>1. ring.head + n \in Int
      BY <1>2
    <3>2. (ring.head + n) % RingSize \in 0 .. RingSize - 1
      BY <3>1, Sizes, DivMod
    <3> QED
      BY <1>1, <1>7, <3>2 DEF n
  <2>3. g = IF Wraps THEN (ring.head + n) % RingSize ELSE ring.head + n
    BY <1>1
  <2> HIDE DEF g
  <2>4. main.at # "evict"
    BY <1>1 DEF AudioOK, MainOK, Mains
  <2>5. RingOK' /\ Apart(InRing, Image(f, n), InRing')
    BY <1>1, <1>3, <2>1, <2>2, <2>3, <2>4, RingEmpties DEF f
  <2>6. Ran(c) = Image(f, n)
    BY <1>1, <2>1 DEF Ran, Image
  <2>7. sink' \in Tasks /\ sink'.at = "write" /\ sink'.chunk = c
    BY <1>1, <1>7 DEF Tasks, c
  <2>8. SinkOK'
    BY <1>1, <2>7 DEF SinkOK, Tasks
  <2>9. LineOK'
    <3>1. Playing' = Ran(c)
      BY <1>1, <2>7 DEF Playing
    <3>2. Line(Ran(heard), Ran(c), {}, InRing', Rest(main), Ran(pcm), produced, lost)
      BY <1>4, <2>5, <2>6, LinePlays DEF AudioOK, LineOK
    <3> QED
      BY <1>1, <1>3, <1>4, <3>1, <3>2 DEF LineOK
  <2> QED
    BY <1>3, <2>5, <2>8, <2>9 DEF AudioOK
<1> QED
  BY <1>6, <1>7 DEF TaskCopy, c, n

LEMMA TaskWrites ==
  ASSUME AudioOK, TaskWrite
  PROVE  AudioOK'
<1> DEFINE c == sink.chunk
           none == <<>>
<1>1. /\ build = "esp32" /\ Wraps /\ build' = build /\ produced' = produced /\ pcm' = pcm
      /\ main' = main /\ ring' = ring /\ lost' = lost /\ sink.at = "write" /\ sink \in Tasks
      /\ heard' = heard \o c /\ sink' = [sink EXCEPT !.at = "peek", !.chunk = none]
      /\ Increasing(c)
  BY DEF TaskWrite, Wraps, AudioOK, SinkOK, Tasks
<1>2. none \in Seq(Nat) /\ Increasing(none)
  BY DEF Increasing, Rises
<1> HIDE DEF none
<1>3. sink' \in Tasks /\ sink'.at = "peek" /\ sink'.chunk = none
  BY <1>1, <1>2 DEF Tasks
<1>4. Playing = Ran(c) /\ Queued = {} /\ Playing' = {} /\ Queued' = {}
  BY <1>1, <1>3 DEF Playing, Queued
<1>5. Increasing(heard') /\ Ran(heard') = Ran(heard) \union Ran(c)
  <2>1. Increasing(heard) /\ Before(Ran(heard), Ran(c))
    BY <1>4 DEF AudioOK, MainOK, LineOK, Line, InLine, Mains
  <2> QED
    BY <1>1, <2>1, JoinedUp
<1>6. MainOK' /\ Unpublished' = Unpublished /\ Rest(main') = Rest(main)
  BY <1>1, <1>5, MainStays
<1>7. Wraps' = Wraps /\ Count' = Count /\ Filled' = Filled /\ InRing' = InRing
  BY <1>1, <1>6, RingStays
<1>8. RingOK'
  BY <1>1, <1>7 DEF AudioOK, RingOK, Space, Rings
<1>9. SinkOK'
  BY <1>1, <1>2, <1>3 DEF SinkOK, Tasks, none
<1>10. LineOK'
  <2>1. Line(Ran(heard) \union Ran(c), {}, {}, InRing, Rest(main), Ran(pcm), produced, lost)
    BY <1>4, LineSounds DEF AudioOK, LineOK
  <2> QED
    BY <1>1, <1>4, <1>5, <1>6, <1>7, <2>1 DEF LineOK
<1> QED
  BY <1>6, <1>8, <1>9, <1>10 DEF AudioOK

LEMMA CallbackTakes ==
  ASSUME AudioOK, Callback
  PROVE  AudioOK'
<1> DEFINE n == Smaller(ring.tail - ring.head, BlockSamples)
           g == ring.head + n
           block == Oldest(ring.slot, ring.head, n)
           f == View(ring.slot, ring.head)
<1>1. /\ build \in {"sdl", "web"} /\ ~Wraps /\ build' = build /\ produced' = produced /\ pcm' = pcm
      /\ main' = main /\ sink' = sink /\ lost' = lost
      /\ heard' = heard \o block /\ ring' = [ring EXCEPT !.head = g]
  BY DEF Callback, Wraps, Oldest
<1>2. /\ Count = ring.tail - ring.head /\ Count \in Nat /\ ring.head \in Nat /\ ring.slot \in Slots
      /\ n \in 0 .. Count /\ n \in Nat /\ g \in Nat
  <2>1. Count = ring.tail - ring.head
    BY <1>1 DEF Count
  <2>2. Count \in Nat /\ ring.head \in Nat /\ ring.slot \in Slots
    BY Numbers
  <2> QED
    BY <2>1, <2>2, Sizes DEF Smaller
<1>3. g = IF Wraps THEN (ring.head + n) % RingSize ELSE ring.head + n
  BY <1>1
<1> HIDE DEF n, g
<1>4. Rises(f, n)
  BY <1>2, Numbers DEF AudioOK, RingOK, Rises, Rings
<1>5. Increasing(block) /\ Len(block) = n /\ Ran(block) = Image(View(ring.slot, ring.head), n)
  BY <1>2, <1>4, BlockIs
<1>6. Increasing(block) /\ Ran(block) = Image(f, n)
  BY <1>5
<1> HIDE DEF block
<1>7. Unpublished' = Unpublished /\ main.at # "evict"
  BY <1>1 DEF Unpublished, AudioOK, MainOK, Mains
<1>8. RingOK' /\ Apart(InRing, Ran(block), InRing')
  BY <1>1, <1>2, <1>3, <1>6, <1>7, RingEmpties
<1>9. Increasing(heard') /\ Ran(heard') = Ran(heard) \union Ran(block)
  <2>1. Increasing(heard) /\ Before(Ran(heard), Ran(block))
    BY <1>8 DEF AudioOK, MainOK, LineOK, Line, InLine, Before, Apart, Mains
  <2> QED
    BY <1>1, <1>6, <2>1, JoinedUp
<1>10. MainOK' /\ Rest(main') = Rest(main)
  BY <1>1, <1>9, MainStays
<1>11. SinkOK'
  BY <1>1 DEF AudioOK, SinkOK, Tasks
<1>12. LineOK'
  <2>1. Playing = {} /\ Queued = {} /\ Playing' = {} /\ Queued' = {}
    BY <1>1 DEF Playing, Queued
  <2>2. Line(Ran(heard) \union Ran(block), {}, {}, InRing', Rest(main), Ran(pcm), produced, lost)
    BY <1>8, <2>1, LinePlays DEF AudioOK, LineOK
  <2> QED
    BY <1>1, <1>9, <1>10, <2>1, <2>2 DEF LineOK
<1> QED
  BY <1>8, <1>10, <1>11, <1>12 DEF AudioOK

-----------------------------------------------------------------------------
(* Nothing has been made, nothing is anywhere.                             *)
LEMMA AudioStarts == AudioInit => AudioOK
<1> SUFFICES ASSUME AudioInit PROVE AudioOK
  OBVIOUS
<1> DEFINE none == <<>>
           slots == [s \in 0 .. RingSize - 1 |-> 0]
<1>1. none \in Seq(Nat) /\ Increasing(none) /\ Len(none) = 0 /\ Ran(none) = {}
  BY DEF Increasing, Rises, Ran, Image
<1>2. slots \in Slots
  BY DEF Slots
<1>3. /\ build \in {"pwm", "i2s", "esp32", "sdl", "web"} /\ produced = 0 /\ pcm = none
      /\ heard = none /\ lost = {}
      /\ main = [at |-> "frame", buf |-> none, i |-> 1, tail |-> 0, late |-> FALSE]
      /\ ring = [slot |-> slots, head |-> 0, tail |-> 0]
  BY AudioAssumption DEF AudioInit
<1>4. /\ build = "i2s" => sink = [block |-> <<none, none>>, playing |-> 1, ended |-> 0]
      /\ build = "esp32" => sink = [at |-> "peek", from |-> 0, count |-> 0, chunk |-> none]
  BY DEF AudioInit
<1> HIDE DEF slots
<1>5. /\ main.at = "frame" /\ main.buf = none /\ main.i = 1 /\ main.late = FALSE
      /\ main \in Mains
  BY <1>1, <1>3 DEF Mains
<1>6. MainOK
  <2>1. 1 \in 1 .. Len(none) + 1 /\ Len(none) <= Chunk /\ Len(none) <= PcmCapacity
    BY <1>1, AudioAssumption
  <2> QED
    BY <1>1, <1>3, <1>5, <2>1 DEF MainOK, Mains
<1>7. /\ ring \in Rings
      /\ ring.head = 0 /\ ring.tail = 0
  BY <1>2, <1>3 DEF Slots, Rings
<1>8. 0 \in 0 .. RingSize - 1 /\ Cell(0, 0) = 0
  <2>1. 0 \in 0 .. RingSize - 1
    BY Sizes
  <2> QED
    BY <2>1, CellHere
<1>9. Count = 0 /\ Filled = 0
  <2>1. (Cell(0, 0) - 0) % RingSize = 0
    BY <1>8, LevelOf
  <2>2. Unpublished = 0
    BY <1>5 DEF Unpublished
  <2>3. Level(ring) = 0
    BY <1>7, <1>8, <2>1 DEF Level
  <2>4. Count = 0
    BY <1>7, <2>3 DEF Count
  <2> QED
    BY <2>2, <2>4 DEF Filled
<1>10. RingOK
  <2>1. 0 <= Space /\ 0 < RingSize
    BY Sizes DEF Space
  <2>2. \A f : Rises(f, 0)
    BY DEF Rises
  <2> QED
    BY <1>5, <1>7, <1>8, <1>9, <2>1, <2>2 DEF RingOK, Rings
<1>11. SinkOK
  <2>1. CASE build = "i2s"
    <3> DEFINE blocks == <<none, none>>
    <3> HIDE DEF none
    <3>1. blocks \in [{1, 2} -> Seq(Nat)] /\ blocks[1] = none /\ blocks[2] = none
      <4>1. none \in Seq(Nat)
        BY <1>1
      <4>2. blocks \in [{1, 2} -> Seq(Nat)]
        BY <4>1
      <4>3. blocks[1] = none
        OBVIOUS
      <4>4. blocks[2] = none
        OBVIOUS
      <4> QED
        BY <4>2, <4>3, <4>4
    <3> HIDE DEF blocks
    <3>2. sink = [block |-> blocks, playing |-> 1, ended |-> 0]
      BY <1>4, <2>1 DEF blocks
    <3>3. /\ sink \in [block : [{1, 2} -> Seq(Nat)], playing : {1, 2}, ended : {0, 1, 2}]
          /\ sink.block = blocks /\ sink.playing = 1 /\ sink.ended = 0
      BY <3>1, <3>2
    <3> QED
      BY <1>1, <2>1, <3>1, <3>3 DEF SinkOK, Tasks
  <2>2. CASE build = "esp32"
    <3> HIDE DEF none
    <3>1. none \in Seq(Nat)
      BY <1>1
    <3>2. sink = [at |-> "peek", from |-> 0, count |-> 0, chunk |-> none]
      BY <1>4, <2>2
    <3>3. sink \in Tasks
      BY <3>1, <3>2 DEF Tasks
    <3>4. sink.at = "peek" /\ sink.chunk = none
      BY <3>2
    <3> QED
      BY <1>1, <2>2, <3>3, <3>4 DEF SinkOK, none, Tasks
  <2>3. CASE build \notin {"i2s", "esp32"}
    BY <1>3, <2>3 DEF SinkOK, Tasks
  <2> QED
    BY <2>1, <2>2, <2>3
<1>12. LineOK
  <2>1. Playing = {} /\ Queued = {}
    <3>1. CASE build = "i2s"
      BY <1>1, <1>4, <3>1 DEF Playing, Queued
    <3>2. CASE build # "i2s"
      <4>1. build = "esp32" => sink.at = "peek"
        BY <1>4
      <4> QED
        BY <3>2, <4>1 DEF Playing, Queued
    <3> QED
      BY <3>1, <3>2
  <2>2. InRing = {}
    BY <1>9 DEF InRing, Image
  <2>3. Rest(main) = {}
    BY <1>1, <1>5 DEF Rest
  <2>4. 1 .. 0 = {}
    OBVIOUS
  <2>5. Line({}, {}, {}, {}, {}, {}, 0, {})
    BY <2>4 DEF Line, InLine, Accounted, Before
  <2> QED
    BY <1>1, <1>3, <2>1, <2>2, <2>3, <2>5 DEF LineOK
<1> QED
  BY <1>6, <1>10, <1>11, <1>12 DEF AudioOK

LEMMA AudioMoves == AudioOK /\ [AudioNext]_audioVars => AudioOK'
<1>1. ASSUME AudioOK, UNCHANGED audioVars PROVE AudioOK'
  BY <1>1 DEF audioVars, AudioOK, MainOK, RingOK, SinkOK, LineOK, Count, Unpublished, Filled, Space,
              Wraps, Level, Playing, Queued, InRing, Rest, Mains, Rings, Tasks
<1>2. ASSUME AudioOK, AudioNext PROVE AudioOK'
  BY <1>2, Frames, Reads, PwmPushes, PwmTakes, I2sTests, I2sEvicts, I2sStores, I2sPublishes,
     DmaTakes, DmaPlays, EspStores, EspPublishes, TaskLooks, TaskCopies, TaskWrites, Puts,
     CallbackTakes DEF AudioNext
<1> QED
  BY <1>1, <1>2

(* What is not heard yet and not lost comes after all that was heard.      *)
LEMMA AudioShows == AudioOK => HeardInOrder
<1> SUFFICES ASSUME AudioOK, heard # <<>>
             PROVE  /\ \A k \in 1 .. Len(heard) - 1 : heard[k] < heard[k + 1]
                    /\ ToSet(heard) = (1 .. Last(heard)) \ lost
  BY DEF HeardInOrder
<1> DEFINE n == Len(heard)
           last == heard[n]
<1>1. heard \in Seq(Nat) /\ n \in Nat /\ n > 0 /\ \A j, k \in 1 .. n : j < k => heard[j] < heard[k]
  BY DEF AudioOK, MainOK, Increasing, Rises, Mains
<1>2. \A k \in 1 .. n - 1 : heard[k] < heard[k + 1]
  BY <1>1
<1>3. ToSet(heard) = Ran(heard) /\ Last(heard) = last
  BY <1>1 DEF ToSet, Last, Ran, Image
<1>4. last \in Ran(heard) /\ last \in Nat /\ \A x \in Ran(heard) : x <= last
  <2>1. n \in 1 .. n /\ last \in Nat
    BY <1>1
  <2>2. \A k \in 1 .. n : heard[k] \in Nat /\ (heard[k] < last \/ heard[k] = last)
    BY <1>1
  <2> HIDE DEF last
  <2> QED
    BY <2>1, <2>2 DEF Ran, Image, last
<1> HIDE DEF n, last
<1>5. /\ Ran(heard) \subseteq (1 .. produced) \ lost /\ produced \in Nat
      /\ \A x \in (1 .. produced) \ lost : x \in Ran(heard) \/ \A y \in Ran(heard) : y < x
  <2>1. produced \in Nat
    BY DEF AudioOK, MainOK, Mains
  <2> QED
    BY <2>1, Zenon DEF AudioOK, LineOK, Line, InLine, Accounted, Before
<1>6. Ran(heard) = (1 .. last) \ lost
  <2>1. ASSUME NEW x \in Ran(heard) PROVE x \in (1 .. last) \ lost
    <3>1. x \in 1 .. produced /\ x \notin lost /\ x <= last
      BY <1>4, <1>5
    <3> QED
      BY <1>4, <3>1
  <2>2. ASSUME NEW x \in 1 .. last, x \notin lost PROVE x \in Ran(heard)
    <3>1. last \in 1 .. produced
      BY <1>4, <1>5
    <3>2. x \in (1 .. produced) \ lost /\ ~(last < x)
      BY <1>5, <2>2, <3>1
    <3> QED
      BY <1>4, <1>5, <3>2
  <2> QED
    BY <2>1, <2>2
<1> QED
  BY <1>2, <1>3, <1>6 DEF n

-----------------------------------------------------------------------------
(* On every build, whatever an interrupt, the other core or the callback   *)
(* does between two steps of a push: what is heard is what was made, in    *)
(* its order, each sample once, without those that a full buffer gave up   *)
(* (audio_pwm.c, audio_i2s_max98357.c, audio.c of the ESP32-S3,            *)
(* audio_sdl.c, index.html).                                               *)
THEOREM HeardAsMade == AudioSpec => []HeardInOrder
<1>1. AudioInit => AudioOK
  BY AudioStarts
<1>2. AudioOK /\ [AudioNext]_audioVars => AudioOK'
  BY AudioMoves
<1>3. AudioOK => HeardInOrder
  BY AudioShows
<1> QED
  BY <1>1, <1>2, <1>3, PTL DEF AudioSpec
=============================================================================
