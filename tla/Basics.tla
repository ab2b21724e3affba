-------------------------------- MODULE Basics --------------------------------
(***************************************************************************)
(* Facts of numbers and sequences that the proofs of several modules cite: *)
(* quotients, functions that are sequences, and induction over the natural *)
(* numbers with a set in place of the predicate.                           *)
(***************************************************************************)
EXTENDS Integers, SequenceTheorems, WellFoundedInduction, TLAPS

\* The quotient and the remainder are the only numbers that divide.
LEMMA DivisionUnique ==
  ASSUME NEW a \in Int, NEW d \in Nat \ {0}, NEW q \in Int, NEW r \in 0 .. d - 1,
         a = d * q + r
  PROVE  a \div d = q /\ a % d = r
  <1> DEFINE p == a \div d
             s == a % d
  <1>1. p \in Int /\ s \in 0 .. d - 1 /\ a = d * p + s
    OBVIOUS
  <1> HIDE DEF p, s
  <1>2. d * p - d * q = r - s
    BY <1>1
  <1>3. d * (p - q) = r - s
    BY <1>1, <1>2
  <1>4. ASSUME p > q PROVE FALSE
    <2>1. p - q >= 1
      BY <1>1, <1>4
    <2>2. d * (p - q) >= d
      BY <1>1, <2>1
    <2> QED
      BY <1>1, <1>3, <2>2
  <1>5. ASSUME p < q PROVE FALSE
    <2>1. p - q <= -1
      BY <1>1, <1>5
    <2>2. d * (p - q) <= -d
      BY <1>1, <2>1
    <2> QED
      BY <1>1, <1>3, <2>2
  <1>6. p = q
    BY <1>1, <1>4, <1>5
  <1> QED
    BY <1>1, <1>6 DEF p, s

\* Two digits are a number below the square of the base, which gives them back.
LEMMA Joined ==
  ASSUME NEW d \in Nat \ {0}, NEW a \in 0 .. d - 1, NEW b \in 0 .. d - 1
  PROVE  /\ a * d + b \in 0 .. d * d - 1
         /\ (a * d + b) \div d = a /\ (a * d + b) % d = b
  <1>1. a * d <= (d - 1) * d
    OBVIOUS
  <1>2. (d - 1) * d = d * d - d
    OBVIOUS
  <1>3. a * d \in Nat
    OBVIOUS
  <1>4. a * d + b \in 0 .. d * d - 1
    BY <1>1, <1>2, <1>3
  <1>5. a * d = d * a
    OBVIOUS
  <1> QED
    BY <1>3, <1>4, <1>5, DivisionUnique

\* The last two digits of a number.
LEMMA Halves ==
  ASSUME NEW d \in Nat \ {0}, NEW x \in Nat
  PROVE  ((x \div d) % d) * d + (x % d) = x % (d * d)
  <1> DEFINE y == x \div d
             b == x % d
             q == y \div d
             a == y % d
             r == a * d + b
  <1>1. y \in Nat /\ b \in 0 .. d - 1 /\ x = d * y + b
    OBVIOUS
  <1>2. q \in Nat /\ a \in 0 .. d - 1 /\ y = d * q + a
    BY <1>1
  <1> HIDE DEF y, b, q, a
  <1>3. d * y = d * (d * q) + d * a
    BY <1>1, <1>2
  <1>4. d * (d * q) = (d * d) * q
    BY <1>2
  <1>5. d * a = a * d /\ a * d \in Nat /\ (d * d) * q \in Nat
    BY <1>2
  <1>6. x = (d * d) * q + r
    BY <1>1, <1>3, <1>4, <1>5
  <1>7. r \in 0 .. d * d - 1
    BY <1>1, <1>2, Joined
  <1> DEFINE square == d * d
  <1>8. square \in Nat \ {0}
    OBVIOUS
  <1>10. x \in Int /\ q \in Int /\ r \in 0 .. square - 1 /\ x = square * q + r
    BY <1>2, <1>6, <1>7
  <1> HIDE DEF r, square
  <1>9. x % square = r
    BY <1>8, <1>10, DivisionUnique, Zenon
  <1> QED
    BY <1>9, Zenon DEF r, a, b, y, square

\* A quotient by the square.
LEMMA SquareQuotient ==
  ASSUME NEW t \in Nat, NEW s \in Nat \ {0}
  PROVE  /\ (t * s) \div (s * s) = t \div s
         /\ (t \div s) * (s * s) <= t * s
         /\ t \div s = 0 => t < s
  <1> DEFINE q == t \div s
             r == t % s
  <1>1. q \in Nat /\ r \in 0 .. s - 1 /\ t = s * q + r
    OBVIOUS
  <1> HIDE DEF q, r
  <1>2. t * s = (s * q) * s + r * s
    BY <1>1
  <1>3. (s * q) * s = (s * s) * q /\ (s * s) * q = q * (s * s)
    BY <1>1
  <1>4. r * s \in Nat /\ r * s <= (s - 1) * s
    BY <1>1
  <1>5. (s - 1) * s = s * s - s
    OBVIOUS
  <1>6. r * s \in 0 .. s * s - 1
    BY <1>4, <1>5
  <1>7. s * s \in Nat \ {0} /\ t * s \in Int /\ t * s = (s * s) * q + r * s
    BY <1>2, <1>3
  <1> DEFINE m == s * s
             n == t * s
             k == r * s
  <1>8. n \div m = q
    <2>1. m \in Nat \ {0} /\ n \in Int /\ n = m * q + k /\ k \in 0 .. m - 1
      BY <1>6, <1>7
    <2> HIDE DEF m, n, k
    <2> QED
      BY <1>1, <2>1, DivisionUnique
  <1>9. q * (s * s) <= t * s
    <2> DEFINE x == (s * s) * q
    <2>1. x \in Int /\ q * (s * s) = x /\ t * s = x + k /\ k \in Nat
      BY <1>1, <1>3, <1>4, <1>7
    <2> HIDE DEF x, k
    <2>2. x <= t * s
      BY <2>1
    <2> QED
      BY <2>1, <2>2
  <1>10. q = 0 => t < s
    BY <1>1
  <1> QED
    BY <1>8, <1>9, <1>10 DEF q

-----------------------------------------------------------------------------
LEMMA TuplesAreSequences ==
  ASSUME NEW S, NEW n \in Nat, NEW b \in [1 .. n -> S]
  PROVE  b \in Seq(S) /\ Len(b) = n
  <1>1. b \in Seq(S)
    BY SeqDef
  <1>2. 1 .. Len(b) = 1 .. n /\ Len(b) \in Nat
    BY <1>1, LenProperties
  <1>3. Len(b) = n
    <2>1. n > 0 => n \in 1 .. Len(b)
      BY <1>2
    <2>2. Len(b) > 0 => Len(b) \in 1 .. n
      BY <1>2
    <2> QED
      BY <1>2, <2>1, <2>2
  <1> QED
    BY <1>1, <1>3

-----------------------------------------------------------------------------
LEMMA LeastOf ==
  ASSUME NEW T, T \subseteq Nat, T # {}
  PROVE  \E x \in T : \A y \in T : x <= y
  <1> DEFINE R == OpToRel(<, Nat)
  <1>1. IsWellFoundedOn(R, Nat)
    BY NatLessThanWellFounded
  <1>2. \A x, y \in Nat : y < x => <<y, x>> \in R
    BY DEF OpToRel
  <1> HIDE DEF R
  <1>3. PICK x \in T : \A y \in T : ~ (<<y, x>> \in R)
    BY <1>1, WFMin
  <1>4. \A y \in T : ~ (y < x)
    BY <1>2, <1>3
  <1> QED
    BY <1>4

LEMMA StrongInduction ==
  ASSUME NEW S, \A n \in Nat : 0 .. n - 1 \subseteq S => n \in S
  PROVE  Nat \subseteq S
  <1> SUFFICES ASSUME Nat \ S # {} PROVE FALSE
    OBVIOUS
  <1>1. PICK x \in Nat \ S : \A y \in Nat \ S : x <= y
    BY LeastOf
  <1>2. 0 .. x - 1 \subseteq S
    BY <1>1
  <1> QED
    BY <1>1, <1>2

LEMMA Induction ==
  ASSUME NEW S, 0 \in S, \A n \in Nat : n \in S => n + 1 \in S
  PROVE  Nat \subseteq S
  <1>1. ASSUME NEW n \in Nat, 0 .. n - 1 \subseteq S
        PROVE  n \in S
    <2>1. CASE n = 0
      BY <2>1
    <2>2. CASE n # 0
      <3>1. n - 1 \in Nat /\ n - 1 \in S /\ (n - 1) + 1 = n
        BY <1>1, <2>2
      <3> QED
        BY <3>1
    <2> QED
      BY <2>1, <2>2
  <1> QED
    BY <1>1, StrongInduction

\* A function of the natural numbers up to m, each value from the one before.
Builds(f, a, m, G) == f[0] = a /\ \A k \in 1 .. m : f[k] = G[k][f[k - 1]]

LEMMA Recursion ==
  ASSUME NEW S, NEW a \in S, NEW m \in Nat, NEW G \in [1 .. m -> [S -> S]]
  PROVE  \E f \in [0 .. m -> S] : Builds(f, a, m, G)
  <1> DEFINE Up(n) == n <= m =>
               \E f \in [0 .. n -> S] : f[0] = a /\ \A k \in 1 .. n : f[k] = G[k][f[k - 1]]
             T == {n \in Nat : Up(n)}
  <1>1. 0 \in T
    <2>1. [i \in 0 .. 0 |-> a] \in [0 .. 0 -> S] /\ [i \in 0 .. 0 |-> a][0] = a
      OBVIOUS
    <2>2. Up(0)
      <3>1. 1 .. 0 = {}
        OBVIOUS
      <3> QED
        BY <2>1, <3>1
    <2> QED
      BY <2>2
  <1>2. ASSUME NEW n \in Nat, n \in T
        PROVE  n + 1 \in T
    <2>1. ASSUME n + 1 <= m
          PROVE  \E f \in [0 .. n + 1 -> S] :
                   f[0] = a /\ \A k \in 1 .. n + 1 : f[k] = G[k][f[k - 1]]
      <3>1. PICK f \in [0 .. n -> S] : f[0] = a /\ \A k \in 1 .. n : f[k] = G[k][f[k - 1]]
        BY <1>2, <2>1
      <3> DEFINE h == [i \in 0 .. n + 1 |-> IF i <= n THEN f[i] ELSE G[n + 1][f[n]]]
      <3>2. G[n + 1][f[n]] \in S
        BY <2>1
      <3>3. h \in [0 .. n + 1 -> S] /\ h[0] = a
        BY <3>1, <3>2
      <3>4. ASSUME NEW k \in 1 .. n + 1
            PROVE  h[k] = G[k][h[k - 1]]
        <4>1. k - 1 \in 0 .. n /\ h[k - 1] = f[k - 1]
          OBVIOUS
        <4>2. CASE k <= n
          <5>1. k \in 1 .. n /\ h[k] = f[k]
            BY <4>2
          <5> QED
            BY <3>1, <4>1, <5>1
        <4>3. CASE k = n + 1
          <5>1. k - 1 = n /\ h[k] = G[n + 1][f[n]]
            BY <4>3
          <5> QED
            BY <4>1, <4>3, <5>1
        <4> QED
          BY <4>2, <4>3
      <3> QED
        BY <3>3, <3>4
    <2> QED
      BY <2>1
  <1> HIDE DEF T
  <1>3. m \in T
    BY <1>1, <1>2, Induction
  <1> QED
    BY <1>3 DEF T, Builds

\* The same where each value has a type of its own.
Follows(f, a, m, G) == f = [k \in 0 .. m |-> IF k = 0 THEN a ELSE G[k][f[k - 1]]]

LEMMA TypedRecursion ==
  ASSUME NEW m \in Nat, NEW T, NEW a \in T[0], NEW G,
         \A k \in 1 .. m : \A x \in T[k - 1] : G[k][x] \in T[k]
  PROVE  \E f : Follows(f, a, m, G) /\ \A k \in 0 .. m : f[k] \in T[k]
  <1> DEFINE Up(n) == n <= m =>
               \E f : /\ DOMAIN f = 0 .. n /\ f[0] = a /\ \A k \in 0 .. n : f[k] \in T[k]
                      /\ \A k \in 1 .. n : f[k] = G[k][f[k - 1]]
             S == {n \in Nat : Up(n)}
  <1>1. 0 \in S
    <2> DEFINE f == [i \in 0 .. 0 |-> a]
    <2>1. /\ DOMAIN f = 0 .. 0 /\ f[0] = a /\ \A k \in 0 .. 0 : f[k] \in T[k]
          /\ \A k \in 1 .. 0 : f[k] = G[k][f[k - 1]]
      OBVIOUS
    <2> HIDE DEF f
    <2> QED
      BY <2>1
  <1>2. ASSUME NEW n \in Nat, n \in S
        PROVE  n + 1 \in S
    <2> SUFFICES ASSUME n + 1 <= m
                 PROVE  \E f : /\ DOMAIN f = 0 .. n + 1 /\ f[0] = a
                               /\ \A k \in 0 .. n + 1 : f[k] \in T[k]
                               /\ \A k \in 1 .. n + 1 : f[k] = G[k][f[k - 1]]
      OBVIOUS
    <2>1. PICK f : /\ DOMAIN f = 0 .. n /\ f[0] = a /\ \A k \in 0 .. n : f[k] \in T[k]
                   /\ \A k \in 1 .. n : f[k] = G[k][f[k - 1]]
      BY <1>2
    <2> DEFINE v == G[n + 1][f[n]]
               h == [i \in 0 .. n + 1 |-> IF i <= n THEN f[i] ELSE v]
    <2>2. v \in T[n + 1]
      <3>1. n + 1 \in 1 .. m /\ (n + 1) - 1 = n /\ f[n] \in T[n]
        BY <2>1
      <3> QED
        BY <3>1
    <2>3. DOMAIN h = 0 .. n + 1 /\ h[n + 1] = v /\ \A k \in 0 .. n : h[k] = f[k]
      OBVIOUS
    <2> HIDE DEF h
    <2>4. ASSUME NEW k \in 0 .. n + 1 PROVE h[k] \in T[k]
      <3>1. k \in 0 .. n \/ k = n + 1
        OBVIOUS
      <3> QED
        BY <2>1, <2>2, <2>3, <3>1
    <2>5. ASSUME NEW k \in 1 .. n + 1 PROVE h[k] = G[k][h[k - 1]]
      <3>1. k - 1 \in 0 .. n
        OBVIOUS
      <3>2. CASE k = n + 1
        <4>1. k - 1 = n
          BY <3>2
        <4> QED
          BY <2>3, <3>1, <3>2, <4>1
      <3>3. CASE k \in 1 .. n
        BY <2>1, <2>3, <3>1, <3>3
      <3> QED
        BY <3>2, <3>3
    <2>6. h[0] = a
      BY <2>1, <2>3
    <2> QED
      BY <2>3, <2>4, <2>5, <2>6
  <1> HIDE DEF S
  <1>3. m \in S
    BY <1>1, <1>2, Induction
  <1>4. PICK f : /\ DOMAIN f = 0 .. m /\ f[0] = a /\ \A k \in 0 .. m : f[k] \in T[k]
                 /\ \A k \in 1 .. m : f[k] = G[k][f[k - 1]]
    BY <1>3 DEF S
  <1> DEFINE g == [k \in 0 .. m |-> f[k]]
             h == [k \in 0 .. m |-> IF k = 0 THEN a ELSE G[k][g[k - 1]]]
  <1>5. ASSUME NEW k \in 0 .. m PROVE g[k] = h[k]
    <2>1. CASE k = 0
      BY <1>4, <2>1
    <2>2. CASE k # 0
      <3>1. k \in 1 .. m /\ k - 1 \in 0 .. m /\ g[k - 1] = f[k - 1] /\ g[k] = f[k]
        BY <2>2
      <3> QED
        BY <1>4, <2>2, <3>1
    <2> QED
      BY <2>1, <2>2
  <1>6. g = h
    BY <1>5
  <1>7. Follows(g, a, m, G) /\ \A k \in 0 .. m : g[k] \in T[k]
    BY <1>4, <1>6 DEF Follows
  <1> QED
    BY <1>7

=============================================================================
