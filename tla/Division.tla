------------------------------ MODULE Division ------------------------------
(* Division with remainder: facts the round robin and the windows of the     *)
(* rate limiter need.                                                        *)
EXTENDS Integers, TLAPS

\* A dividend is made of its quotient and its remainder.
LEMMA DivMod ==
    ASSUME NEW x \in Nat, NEW n \in Nat \ {0}
    PROVE  /\ x = n * (x \div n) + (x % n)
           /\ x \div n \in Nat
           /\ x % n \in 0 .. n - 1
BY Z3T(30)

\* A non-zero multiple of n is at least n away from zero.
LEMMA Multiple ==
    ASSUME NEW n \in Nat \ {0}, NEW d \in Int
    PROVE  /\ d >= 1 => n * d >= n
           /\ d =< -1 => n * d =< -n
BY Z3T(30)

\* Remainders are unique.
LEMMA UniqueRemainder ==
    ASSUME NEW n \in Nat \ {0}, NEW q \in Int, NEW r \in 0 .. n - 1,
           NEW p \in Int, NEW s \in 0 .. n - 1,
           n * q + r = n * p + s
    PROVE  r = s
<1>1. n * (q - p) = s - r
  BY Z3T(30)
<1>2. q - p = 0
  BY <1>1, Multiple, Z3T(30)
<1> QED
  BY <1>1, <1>2, Z3T(30)

\* The remainder of a counter goes up by one and wraps around.
LEMMA NextRemainder ==
    ASSUME NEW x \in Nat, NEW n \in Nat \ {0}
    PROVE  (x + 1) % n = IF x % n = n - 1 THEN 0 ELSE (x % n) + 1
<1> DEFINE q == x \div n
           r == x % n
           p == (x + 1) \div n
           s == (x + 1) % n
<1>1. /\ x = n * q + r
      /\ q \in Int
      /\ r \in 0 .. n - 1
  BY DivMod, Z3T(30)
<1>2. /\ x + 1 = n * p + s
      /\ p \in Int
      /\ s \in 0 .. n - 1
  <2>1. x + 1 \in Nat
    BY Z3
  <2> QED
    BY <2>1, DivMod, Z3T(30)
<1> HIDE DEF q, r, p, s
<1>3. CASE r = n - 1
  <2>1. n * (q + 1) = n * p + s
    BY <1>1, <1>2, <1>3, Z3T(30)
  <2>2. PICK z \in 0 .. n - 1 : z = 0 /\ n * (q + 1) + z = n * p + s
    BY <2>1, <1>1, <1>2, Z3T(30)
  <2>3. z = s
    BY <2>2, <1>1, <1>2, UniqueRemainder, Z3T(30)
  <2> QED
    BY <2>2, <2>3, <1>3 DEF s, r
<1>4. CASE r # n - 1
  <2>1. n * q + (r + 1) = n * p + s
    BY <1>1, <1>2, Z3T(30)
  <2>2. r + 1 \in 0 .. n - 1
    BY <1>1, <1>4, Z3
  <2>3. s = r + 1
    BY <2>1, <2>2, <1>1, <1>2, UniqueRemainder, Z3T(30)
  <2> QED
    BY <2>3, <1>4 DEF s, r
<1> QED
  BY <1>3, <1>4

\* A product over the divisor has the other factor as its quotient.
LEMMA QuotientOfMultiple ==
    ASSUME NEW n \in Nat \ {0}, NEW q \in Nat
    PROVE  (n * q) \div n = q
<1> DEFINE x == n * q
           p == x \div n
           s == x % n
<1>1. x \in Nat
  BY Z3T(30)
<1>2. x = n * p + s /\ p \in Nat /\ s \in 0 .. n - 1
  BY <1>1, DivMod
<1> HIDE DEF p, s
<1>3. n * (q - p) = s
  BY <1>2, Z3T(30)
<1>4. q - p = 0
  BY <1>2, <1>3, Multiple, Z3T(30)
<1> QED
  BY <1>2, <1>4, Z3T(30) DEF p

\* The quotient grows with the dividend.
LEMMA QuotientMonotone ==
    ASSUME NEW n \in Nat \ {0}, NEW x \in Nat, NEW y \in Nat, x =< y
    PROVE  x \div n =< y \div n
<1> DEFINE q == x \div n
           p == y \div n
<1>1. q \in Nat /\ p \in Nat /\ x % n \in 0 .. n - 1 /\ y % n \in 0 .. n - 1
  BY DivMod
<1>2. x = n * q + (x % n) /\ y = n * p + (y % n)
  BY DivMod
<1> HIDE DEF q, p
<1>3. n * (q - p) < n
  BY <1>1, <1>2, Z3T(30)
<1>4. ~(q - p >= 1)
  BY <1>1, <1>3, Multiple, Z3T(30)
<1> QED
  BY <1>1, <1>4, Z3T(30) DEF q, p

=============================================================================
