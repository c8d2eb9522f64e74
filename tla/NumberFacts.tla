-------------------------- MODULE NumberFacts --------------------------
(***************************************************************************)
(* Facts that the proofs of the project rest on: what % is, how indices    *)
(* modulo a capacity behave when the counters they come from wrap at a     *)
(* multiple of it, that a set of numbers has a least one, and that a       *)
(* finite one can be listed from the greatest down.                        *)
(***************************************************************************)
EXTENDS Integers, FiniteSetsExt, FiniteSetTheorems, TLAPS

(* Division with remainder is unique: any way of writing a as d*q + r with *)
(* r below d gives a % d.                                                  *)
LEMMA ModUnique ==
  ASSUME NEW a \in Int, NEW d \in Nat \ {0}, NEW q \in Int,
         NEW r \in 0 .. d - 1, a = d * q + r
  PROVE  a % d = r
<1>1. a = d * (a \div d) + (a % d) /\ a % d \in 0 .. d - 1
  BY SMT
<1> DEFINE k == (a \div d) - q
<1>2. k \in Int
  BY SMT
<1>3. d * k = r - (a % d)
  BY <1>1, SMT
<1>4. k = 0
  <2> HIDE DEF k
  <2>1. CASE k >= 1
    <3>1. d * k >= d
      BY <1>2, <2>1, SMT
    <3> QED
      BY <3>1, <1>3, <1>1
  <2>2. CASE k <= -1
    <3>1. d * k <= -d
      BY <1>2, <2>2, SMT
    <3> QED
      BY <3>1, <1>3, <1>1
  <2> QED
    BY <1>2, <2>1, <2>2
<1> QED
  BY <1>3, <1>4, <1>1, SMT

(* The quotient is the one integer with that remainder.                    *)
LEMMA DivUnique ==
  ASSUME NEW a \in Int, NEW d \in Nat \ {0}, NEW q \in Int,
         NEW r \in 0 .. d - 1, a = q * d + r
  PROVE  a \div d = q
<1>1. a % d = r
  BY ModUnique, SMT
<1>2. a = d * (a \div d) + (a % d) /\ a \div d \in Int
  BY SMT
<1>3. d * (a \div d) = d * q
  BY <1>1, <1>2, SMT
<1> QED
  BY <1>2, <1>3, SMT

(* The remainder and quotient of any integer exist.                        *)
LEMMA DivMod ==
  ASSUME NEW a \in Int, NEW d \in Nat \ {0}
  PROVE  /\ a % d \in 0 .. d - 1
         /\ \E q \in Int : a = d * q + (a % d)
<1>1. a = d * (a \div d) + (a % d) /\ a % d \in 0 .. d - 1 /\ a \div d \in Int
  BY SMT
<1> QED
  BY <1>1

(* The distance between two wrapping counters.                             *)
LEMMA WrappingMinus ==
  ASSUME NEW m \in Nat \ {0}, NEW h \in 0 .. m - 1, NEW t \in 0 .. m - 1
  PROVE  (h - t) % m = IF t <= h THEN h - t ELSE h - t + m
<1>1. CASE t <= h
  <2>1. h - t = m * 0 + (h - t) /\ h - t \in 0 .. m - 1
    BY <1>1, SMT
  <2> QED
    BY <1>1, <2>1, ModUnique
<1>2. CASE ~(t <= h)
  <2>1. h - t = m * (-1) + (h - t + m) /\ h - t + m \in 0 .. m - 1
    BY <1>2, SMT
  <2> QED
    BY <1>2, <2>1, ModUnique
<1> QED
  BY <1>1, <1>2

(* The increment of a wrapping counter.                                    *)
LEMMA WrappingPlus1 ==
  ASSUME NEW m \in Nat \ {0}, NEW h \in 0 .. m - 1
  PROVE  (h + 1) % m = IF h + 1 = m THEN 0 ELSE h + 1
<1>1. CASE h + 1 = m
  <2>1. h + 1 = m * 1 + 0 /\ 0 \in 0 .. m - 1
    BY <1>1, SMT
  <2> QED
    BY <1>1, <2>1, ModUnique
<1>2. CASE h + 1 # m
  <2>1. h + 1 = m * 0 + (h + 1) /\ h + 1 \in 0 .. m - 1
    BY <1>2, SMT
  <2> QED
    BY <1>2, <2>1, ModUnique
<1> QED
  BY <1>1, <1>2

(* Reducing one summand first does not change the remainder.               *)
LEMMA ModPlus ==
  ASSUME NEW a \in Int, NEW b \in Int, NEW m \in Nat \ {0}
  PROVE  ((a % m) + b) % m = (a + b) % m
<1>1. PICK q \in Int : a = m * q + (a % m)
  BY DivMod
<1> DEFINE s == (a % m) + b
<1>2. a % m \in Int
  BY DivMod
<1>3. s \in Int
  BY <1>2
<1>4. a + b = m * q + s
  BY <1>1, <1>2
<1> HIDE DEF s
<1>5. PICK p \in Int : s = m * p + (s % m)
  BY <1>3, DivMod
<1>6. s % m \in 0 .. m - 1
  BY <1>3, DivMod
<1>7. a + b = m * (q + p) + (s % m)
  <2>1. s % m \in Int
    BY <1>6
  <2>2. a + b = m * q + (m * p + (s % m))
    BY <1>4, <1>5
  <2> HIDE <1>4, <1>5
  <2> QED
    BY <2>1, <2>2, SMT
<1>8. /\ a + b \in Int
      /\ q + p \in Int
  OBVIOUS
<1>9. (a + b) % m = s % m
  BY <1>6, <1>7, <1>8, ModUnique
<1> QED
  BY <1>9 DEF s

(* A counter that wraps at a multiple of the capacity has the same ring    *)
(* index as the count it stands for.                                       *)
LEMMA ModMod ==
  ASSUME NEW a \in Int, NEW m \in Nat \ {0}, NEW c \in Nat \ {0}, m % c = 0
  PROVE  (a % m) % c = a % c
<1>1. PICK q \in Int : a = m * q + (a % m)
  BY DivMod
<1>2. PICK k \in Int : m = c * k + 0
  BY DivMod
<1> DEFINE r == a % m
<1>3. r \in Int
  BY DivMod
<1>4. PICK p \in Int : r = c * p + (r % c)
  BY <1>3, DivMod
<1>5. r % c \in 0 .. c - 1
  BY <1>3, DivMod
<1>6. a = c * (k * q + p) + (r % c)
  <2>1. a = (c * k) * q + r
    BY <1>1, <1>2, <1>3, SMT
  <2> HIDE DEF r
  <2>2. r % c \in Int
    BY <1>5
  <2>3. a = (c * k) * q + (c * p + (r % c))
    BY <2>1, <1>4
  <2> QED
    BY <2>2, <2>3, SMT
<1>7. k * q + p \in Int
  BY SMT
<1> HIDE DEF r
<1>8. a % c = r % c
  BY <1>5, <1>6, <1>7, ModUnique
<1> QED
  BY <1>8 DEF r

(* Fewer than c steps apart, two counts have different ring indices.       *)
LEMMA DistinctSlots ==
  ASSUME NEW a \in Int, NEW c \in Nat \ {0}, NEW d \in 1 .. c - 1
  PROVE  (a + d) % c # a % c
<1> SUFFICES ASSUME (a + d) % c = a % c PROVE FALSE
  OBVIOUS
<1>1. PICK q \in Int : a = c * q + (a % c)
  BY DivMod
<1> DEFINE b == a + d
<1>2. PICK p \in Int : b = c * p + (b % c)
  <2>1. b \in Int
    OBVIOUS
  <2> HIDE DEF b
  <2> QED
    BY <2>1, DivMod
<1>3. a % c \in Int
  BY DivMod
<1> DEFINE k == p - q
<1>4. k \in Int
  OBVIOUS
<1>5. c * k = d
  BY <1>1, <1>2, <1>3, SMT
<1> HIDE DEF k
<1>6. CASE k >= 1
  <2>1. c * k >= c
    BY <1>4, <1>6, SMT
  <2> QED
    BY <2>1, <1>5
<1>7. CASE k <= 0
  <2>1. c * k <= 0
    BY <1>4, <1>7, SMT
  <2> QED
    BY <2>1, <1>5
<1> QED
  BY <1>4, <1>6, <1>7

-----------------------------------------------------------------------------
(* Every set of naturals has a least element.  With it a statement about   *)
(* every natural is proved from the least counterexample.                  *)
LEMMA LeastNatural ==
  ASSUME NEW S \in SUBSET Nat, S # {}
  PROVE  \E x \in S : \A y \in S : x <= y
<1>1. PICK x \in S : \A y \in S : ~(<<y, x>> \in OpToRel(<,Nat))
  BY NatLessThanWellFounded, WFMin
<1>2. \A y \in S : ~(y < x)
  <2> SUFFICES ASSUME NEW y \in S, y < x
               PROVE  FALSE
    OBVIOUS
  <2>1. <<y, x>> \in Nat \X Nat
    OBVIOUS
  <2>2. <<y, x>> \in OpToRel(<, Nat)
    BY <2>1 DEF OpToRel
  <2> QED
    BY <2>2, <1>1
<1> QED
  BY <1>2

(* The enumerations of a set of numbers from the largest to the smallest.  *)
Falling(T) == {l \in [1 .. Cardinality(T) -> T] : \A i, j \in DOMAIN l : i < j => l[i] > l[j]}

(* What falls to a number below all the others falls to the end.          *)
LEMMA OneLarger ==
  ASSUME NEW T \in SUBSET Nat, IsFiniteSet(T), NEW x \in T, \A y \in T : x <= y,
         NEW l \in Falling(T \ {x})
  PROVE  \E m : m \in Falling(T)
<1> DEFINE n == Cardinality(T)
           U == T \ {x}
           m == [i \in 1 .. n |-> IF i < n THEN l[i] ELSE x]
<1>1. n \in Nat /\ Cardinality(U) = n - 1 /\ IsFiniteSet(U)
  BY FS_CardinalityType, FS_RemoveElement
<1>2. l \in [1 .. n - 1 -> U] /\ \A i, j \in 1 .. n - 1 : i < j => l[i] > l[j]
  BY <1>1 DEF Falling
<1>3. \A i \in 1 .. n - 1 : l[i] \in U /\ l[i] > x
  <2> SUFFICES ASSUME NEW i \in 1 .. n - 1 PROVE l[i] \in U /\ l[i] > x
    OBVIOUS
  <2>1. l[i] \in U
    BY <1>2
  <2>2. l[i] \in Nat /\ x \in Nat /\ l[i] # x /\ x <= l[i]
    BY <2>1
  <2> QED
    BY <2>1, <2>2
<1>4. m \in [1 .. n -> T]
  BY <1>1, <1>3
<1>5. \A i, j \in 1 .. n : i < j => m[i] > m[j]
  BY <1>1, <1>2, <1>3
<1> HIDE DEF m
<1> QED
  BY <1>4, <1>5 DEF Falling

(* A finite set of naturals has such an enumeration: a smallest set that   *)
(* had none would have none without its least element.                     *)
LEMMA FallingExist ==
  ASSUME NEW T \in SUBSET Nat, IsFiniteSet(T)
  PROVE  \E l : l \in Falling(T)
<1> DEFINE Bad == {n \in Nat : \E U \in SUBSET Nat : IsFiniteSet(U) /\ Cardinality(U) = n
                                   /\ ~\E l : l \in Falling(U)}
<1> SUFFICES ASSUME Bad # {}
               PROVE  FALSE
  BY FS_CardinalityType
<1>1. PICK n \in Bad : \A k \in Bad : n <= k
  BY LeastNatural
<1>2. PICK U \in SUBSET Nat : IsFiniteSet(U) /\ Cardinality(U) = n /\ ~\E l : l \in Falling(U)
  BY <1>1
<1>3. U # {}
  <2> SUFFICES ASSUME U = {} PROVE  FALSE
    OBVIOUS
  <2>1. Cardinality({}) = 0
    BY FS_EmptySet
  <2> DEFINE e == [i \in 1 .. 0 |-> 0]
  <2>2. e \in [1..Cardinality({}) -> {}] /\ DOMAIN e = {}
    BY <2>1
  <2>3. e \in Falling({})
    BY <2>2 DEF Falling
  <2> QED
    BY <2>3, <1>2
<1>4. PICK x \in U : \A y \in U : x <= y
  BY <1>3, LeastNatural
<1>5. IsFiniteSet(U \ {x}) /\ Cardinality(U \ {x}) = n - 1 /\ n - 1 \in Nat
  <2>1. IsFiniteSet(U \ {x}) /\ Cardinality(U \ {x}) = n - 1
    BY <1>2, FS_RemoveElement
  <2> QED
    BY <2>1, FS_CardinalityType
<1>6. n - 1 \notin Bad
  BY <1>1, <1>5
<1>7. PICK l : l \in Falling(U \ {x})
  BY <1>5, <1>6
<1> QED
  BY <1>7, <1>4, <1>2, OneLarger

(* It meets every element.                                                 *)
LEMMA FallingOnto ==
  ASSUME NEW T \in SUBSET Nat, IsFiniteSet(T), NEW l \in Falling(T)
  PROVE  {l[i] : i \in DOMAIN l} = T
<1> DEFINE D == 1 .. Cardinality(T)
<1>1. Cardinality(T) \in Nat
  BY FS_CardinalityType
<1>2. l \in [D -> T] /\ \A i, j \in D : i < j => l[i] > l[j]
  BY DEF Falling
<1>3. \A i, j \in D : l[i] = l[j] => i = j
  <2> SUFFICES ASSUME NEW i \in D, NEW j \in D, l[i] = l[j], i # j
               PROVE  FALSE
    OBVIOUS
  <2>1. l[i] \in Nat /\ l[j] \in Nat
    BY <1>2
  <2> QED
    BY <1>1, <1>2, <2>1
<1>4. l \in Injection(D, T)
  BY <1>2, <1>3 DEF Injection, IsInjective
<1>5. Cardinality(D) = Cardinality(T)
  BY <1>1, FS_Interval
<1>6. l \in Surjection(D, T)
  BY <1>4, <1>5, FS_Injection
<1> QED
  BY <1>2, <1>6 DEF Surjection

(* Taking the greatest away from the numbers up to n, one at a time.       *)
LEMMA GreatestTaken ==
  ASSUME NEW n \in Nat, NEW s \in SUBSET (1 .. n), s # {}
  PROVE  /\ Max(s) \in s /\ \A y \in s : Max(s) >= y
         /\ s \ {Max(s)} \in SUBSET (1 .. n)
         /\ Cardinality(s) \in 1 .. n /\ Cardinality(s \ {Max(s)}) = Cardinality(s) - 1
<1>1. IsFiniteSet(1 .. n) /\ Cardinality(1 .. n) = n
  BY FS_Interval
<1>2. IsFiniteSet(s) /\ Cardinality(s) \in Nat /\ Cardinality(s) <= n
  BY <1>1, FS_Subset, FS_CardinalityType
<1>3. \E m \in s : \A y \in s : m >= y
  <2> DEFINE T == {n - y : y \in s}
  <2>1. T \in SUBSET Nat /\ T # {}
    <3>1. \A y \in s : y \in Int /\ n - y \in Nat
      OBVIOUS
    <3> QED
      BY <3>1
  <2>2. PICK t \in T : \A u \in T : t <= u
    BY <2>1, LeastNatural
  <2>3. PICK m \in s : t = n - m
    OBVIOUS
  <2>4. \A y \in s : n - m <= n - y
    BY <2>2, <2>3
  <2>5. \A y \in s : m >= y
    <3>1. m \in Int /\ \A y \in s : y \in Int
      OBVIOUS
    <3> QED
      BY <2>4, <3>1
  <2> QED
    BY <2>5
<1>4. Max(s) \in s /\ \A y \in s : Max(s) >= y
  BY <1>3 DEF Max
<1>5. Cardinality(s \ {Max(s)}) = Cardinality(s) - 1 /\ Cardinality(s) # 0
  BY <1>2, <1>4, FS_RemoveElement, FS_EmptySet
<1>6. Cardinality(s) \in 1 .. n
  BY <1>2, <1>5
<1> HIDE DEF Max
<1> QED
  BY <1>4, <1>5, <1>6

LEMMA GreatestOfInterval ==
  ASSUME NEW k \in Nat \ {0}
  PROVE  Max(1 .. k) = k /\ (1 .. k) \ {k} = 1 .. k - 1
<1>1. (1 .. k) \in SUBSET (1 .. k) /\ k \in 1 .. k
  OBVIOUS
<1>2. Max(1 .. k) \in 1 .. k /\ Max(1 .. k) >= k
  BY <1>1, GreatestTaken
<1> QED
  BY <1>2

(* The greatest of a set of numbers up to m, and the set without it.       *)
LEMMA LastTaken ==
  ASSUME NEW m \in Nat, NEW s \in SUBSET (1 .. m)
  PROVE  /\ s # {} => Max(s) \in s /\ s \ {Max(s)} \in SUBSET (1 .. m)
         /\ m \in s => Max(s) = m /\ s \ {m} \in SUBSET (1 .. m - 1)
         /\ m \notin s => s \in SUBSET (1 .. m - 1)
<1>1. CASE s # {}
  <2>1. Max(s) \in s /\ (\A y \in s : Max(s) >= y) /\ s \ {Max(s)} \in SUBSET (1 .. m)
    BY <1>1, GreatestTaken
  <2> HIDE DEF Max
  <2>2. m \in s => Max(s) = m
    <3>1. Max(s) \in 1 .. m
      BY <2>1
    <3> QED
      BY <2>1, <3>1
  <2> QED
    BY <2>1, <2>2
<1>2. CASE s = {}
  BY <1>2
<1> QED
  BY <1>1, <1>2

(* The powers of two of a shift of three bits.                             *)
LEMMA SmallPowers == \A s \in 0 .. 7 : 2 ^ s \in Nat \ {0}
<1>1. 2 ^ 0 = 1 /\ 2 ^ 1 = 2 /\ 2 ^ 2 = 4 /\ 2 ^ 3 = 8
  BY SMT
<1>2. 2 ^ 4 = 16 /\ 2 ^ 5 = 32 /\ 2 ^ 6 = 64 /\ 2 ^ 7 = 128
  BY SMT
<1>3. \A s \in 0 .. 7 : s = 0 \/ s = 1 \/ s = 2 \/ s = 3 \/ s = 4 \/ s = 5 \/ s = 6 \/ s = 7
  BY SMT
<1>4. TAKE s \in 0 .. 7
<1>5. s = 0 \/ s = 1 \/ s = 2 \/ s = 3 \/ s = 4 \/ s = 5 \/ s = 6 \/ s = 7
  BY <1>3
<1>6. /\ 2 ^ 0 \in Nat \ {0} /\ 2 ^ 1 \in Nat \ {0} /\ 2 ^ 2 \in Nat \ {0} /\ 2 ^ 3 \in Nat \ {0}
      /\ 2 ^ 4 \in Nat \ {0} /\ 2 ^ 5 \in Nat \ {0} /\ 2 ^ 6 \in Nat \ {0} /\ 2 ^ 7 \in Nat \ {0}
  BY <1>1, <1>2
<1> QED
  BY <1>5, <1>6, Zenon
=============================================================================
