----------------------------- MODULE NatLemmas ------------------------------
(***************************************************************************)
(* Facts about natural numbers that the proofs of several modules need:    *)
(* a smallest element, what whole seconds tell of ticks, and quotients and *)
(* remainders.                                                             *)
(***************************************************************************)
EXTENDS Integers, FiniteSetsExt, WellFoundedInduction, TLAPS

\* A set of naturals that is not empty has a smallest element, and Min is it.
LEMMA MinIsLeast ==
  ASSUME NEW S \in SUBSET Nat, S # {}
  PROVE  Min(S) \in S /\ \A y \in S : Min(S) <= y
<1>1. PICK x \in S : \A y \in S : ~ (<<y, x>> \in OpToRel(<, Nat))
  BY NatLessThanWellFounded, WFMin
<1>2. \A y \in S : ~ (y < x)
  BY <1>1 DEF OpToRel
<1>3. \A y \in S : x <= y
  BY <1>2
<1> QED
  BY <1>3 DEF Min

\* Multiplication keeps the order.
LEMMA TimesMonotone ==
  ASSUME NEW t \in Nat, NEW x \in Int, NEW y \in Int, x <= y
  PROVE  t * x <= t * y
<1>1. PICK z \in Nat : y = x + z
  <2>1. y - x \in Nat /\ y = x + (y - x)
    OBVIOUS
  <2> QED
    BY <2>1
<1>2. t * z \in Nat /\ t * y = t * x + t * z
  BY <1>1
<1> QED
  BY <1>2

\* A division leaves less than the divisor.
LEMMA DivisionBounds ==
  ASSUME NEW n \in Nat, NEW t \in Nat \ {0}
  PROVE  /\ n \div t \in Nat
         /\ t * (n \div t) <= n /\ n < t * (n \div t) + t
  OBVIOUS

\* Less than k whole units apart: less than k units apart.
LEMMA DivisionGapBelow ==
  ASSUME NEW n \in Nat, NEW m \in Nat, NEW t \in Nat \ {0}, NEW k \in Int,
         (n \div t) - (m \div t) < k
  PROVE  n - m < k * t
<1> DEFINE a == n \div t
           b == m \div t
<1>1. a \in Nat /\ b \in Nat /\ t * b <= m /\ n < t * a + t
  BY DivisionBounds
<1>2. a <= b + (k - 1)
  BY <1>1
<1> HIDE DEF a, b
<1>3. t * a <= t * (b + (k - 1))
  BY <1>1, <1>2, TimesMonotone
<1>4. t * (b + (k - 1)) = t * b + t * k - t
  BY <1>1
<1>5. t * k = k * t /\ t * k \in Int /\ t * a \in Int /\ t * b \in Int
  BY <1>1
<1> QED
  BY <1>1, <1>3, <1>4, <1>5

\* At least k whole units apart: more than k - 1 units apart.
LEMMA DivisionGapAbove ==
  ASSUME NEW n \in Nat, NEW m \in Nat, NEW t \in Nat \ {0}, NEW k \in Int,
         (n \div t) - (m \div t) >= k
  PROVE  n - m > (k - 1) * t
<1> DEFINE a == n \div t
           b == m \div t
<1>1. a \in Nat /\ b \in Nat /\ t * a <= n /\ m < t * b + t
  BY DivisionBounds
<1>2. b + k <= a
  BY <1>1
<1> HIDE DEF a, b
<1>3. t * (b + k) <= t * a
  BY <1>1, <1>2, TimesMonotone
<1>4. t * (b + k) = t * b + t * k
  BY <1>1
<1>5. t * k \in Int /\ t * a \in Int /\ t * b \in Int /\ (k - 1) * t = t * k - t
  BY <1>1
<1> QED
  BY <1>1, <1>3, <1>4, <1>5

\* Whole units keep the order.
LEMMA DivisionMonotone ==
  ASSUME NEW n \in Nat, NEW m \in Nat, NEW t \in Nat \ {0}, m <= n
  PROVE  m \div t <= n \div t
<1>1. SUFFICES ASSUME ~ (m \div t <= n \div t) PROVE FALSE
  OBVIOUS
<1>2. (n \div t) - (m \div t) < 0
  BY <1>1, DivisionBounds
<1> QED
  BY <1>2, DivisionGapBelow

\* A quotient and a remainder below the divisor are the only ones.
LEMMA QuotientUnique ==
  ASSUME NEW c \in Nat \ {0}, NEW q \in Nat, NEW r \in 0..c-1
  PROVE  (c * q + r) \div c = q /\ (c * q + r) % c = r
OBVIOUS

\* Every number has them.
LEMMA DivMod ==
  ASSUME NEW a \in Nat, NEW c \in Nat \ {0}
  PROVE  \E q \in Nat, r \in 0..c-1 : a = c * q + r
<1>1. PICK q \in Nat : q = a \div c
  BY DivisionBounds
<1>2. c * q <= a /\ a < c * q + c
  BY <1>1, DivisionBounds
<1>3. c * q \in Nat
  OBVIOUS
<1>4. a - c * q \in 0..c-1 /\ a = c * q + (a - c * q)
  BY <1>2, <1>3
<1> QED BY <1>4

\* The remainder of a sum is that of the remainder's sum.
LEMMA RemainderOfSum ==
  ASSUME NEW c \in Nat \ {0}, NEW a \in Nat, NEW n \in 0..c
  PROVE  (a + n) % c = ((a % c) + n) % c
<1>1. PICK q \in Nat, r \in 0..c-1 : a = c * q + r
  BY DivMod
<1>2. c * q \in Nat
  OBVIOUS
<1>3. a % c = r
  BY <1>1, QuotientUnique
<1>4. CASE r + n < c
  <2>1. r + n \in 0..c-1 /\ a + n = c * q + (r + n)
    BY <1>2, <1>1, <1>4
  <2>2. (a + n) % c = r + n
    BY <2>1, QuotientUnique
  <2>3. c * 0 = 0 /\ c * 0 + (r + n) = r + n
    OBVIOUS
  <2>4. (c * 0 + (r + n)) % c = r + n
    BY <2>1, QuotientUnique
  <2> QED BY <1>3, <2>2, <2>3, <2>4
<1>5. CASE ~(r + n < c)
  <2>1. r + n - c \in 0..c-1 /\ c * (q + 1) = c * q + c /\ q + 1 \in Nat
    BY <1>5
  <2>2. a + n = c * (q + 1) + (r + n - c)
    BY <1>2, <1>1, <2>1
  <2>3. PICK p \in Nat, s \in 0..c-1 : s = r + n - c /\ a + n = c * p + s
    BY <2>1, <2>2
  <2>4. (c * p + s) % c = s
    BY QuotientUnique
  <2>5. r + n = c * 1 + (r + n - c)
    OBVIOUS
  <2>6. (c * 1 + (r + n - c)) % c = r + n - c
    BY <2>1, QuotientUnique
  <2> QED BY <1>3, <2>3, <2>4, <2>5, <2>6
<1> QED BY <1>4, <1>5

\* Two numbers with the same quotient are within one turn of the divisor.
LEMMA SameQuotient ==
  ASSUME NEW c \in Nat \ {0}, NEW a \in Nat, NEW n \in Nat,
         a \div c = (a + n) \div c
  PROVE  (a % c) + n < c
<1>1. PICK q \in Nat, r \in 0..c-1 : a = c * q + r
  BY DivMod
<1>2. a % c = r /\ a \div c = q
  BY <1>1, QuotientUnique
<1>3. a + n < c * q + c
  <2>1. a + n \in Nat
    OBVIOUS
  <2> QED BY <1>2, <2>1, DivisionBounds
<1> QED BY <1>1, <1>2, <1>3

=============================================================================
