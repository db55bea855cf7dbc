---------------------------- MODULE DivModLemmas ----------------------------
(***************************************************************************)
(* Facts about \div and % by a divisor that is a parameter.  The solvers    *)
(* know only that a = R * (a \div R) + a % R with 0 <= a % R < R; the ring   *)
(* positions of the source and of the spool need what follows from it.      *)
(***************************************************************************)
EXTENDS Integers, TLAPS

\* Multiplying by something positive does not shrink a natural number.
LEMMA MulGe == ASSUME NEW R \in Nat, NEW d \in Int, d >= 1 PROVE R * d >= R
  <1>1. R * d = R + R * (d - 1) OBVIOUS
  <1>2. R * (d - 1) >= 0 OBVIOUS
  <1> QED BY <1>1, <1>2

\* The quotient and the remainder, as the provers know them.
LEMMA DivModDef ==
  ASSUME NEW a \in Int, NEW R \in Nat \ {0}
  PROVE /\ a = R * (a \div R) + (a % R)
        /\ a \div R \in Int
        /\ a % R \in 0 .. R - 1
  OBVIOUS

\* Of a natural number, how many whole blocks it holds.
LEMMA DivNat ==
  ASSUME NEW a \in Nat, NEW b \in Nat \ {0}
  PROVE a \div b \in Nat /\ (a \div b) * b <= a /\ (a \div b) * b \in Nat
  <1> DEFINE q == a \div b  r == a % b
  <1>1. q \in Int /\ r \in 0 .. b - 1 /\ a = b * q + r BY DivModDef
  <1> HIDE DEF q, r
  <1>2. ~(q <= -1)
    <2> SUFFICES ASSUME q <= -1 PROVE FALSE OBVIOUS
    <2>1. -q \in Int /\ -q >= 1 BY <1>1
    <2>2. b * (-q) >= b BY <2>1, MulGe
    <2> QED BY <1>1, <2>2
  <1>3. q * b = b * q /\ q \in Nat BY <1>1, <1>2
  <1>4. q * b <= a /\ q * b \in Nat BY <1>1, <1>3
  <1> QED BY <1>3, <1>4 DEF q

\* There is only one quotient and one remainder: a way to compute either.
LEMMA DivModUnique ==
  ASSUME NEW a \in Int, NEW R \in Nat \ {0}, NEW q \in Int, NEW r \in 0 .. R - 1,
         a = R * q + r
  PROVE a % R = r /\ a \div R = q
  <1> DEFINE p == a \div R
  <1> DEFINE s == a % R
  <1>1. p \in Int /\ s \in 0 .. R - 1 /\ a = R * p + s BY DivModDef
  <1> HIDE DEF p, s
  <1>2. R * (p - q) = r - s BY <1>1
  <1>3. ~(p - q >= 1) BY <1>1, <1>2, MulGe
  <1>4. R * (q - p) = s - r BY <1>1
  <1>5. ~(q - p >= 1) BY <1>1, <1>4, MulGe
  <1>6. p = q BY <1>1, <1>3, <1>5
  <1>7. s = r BY <1>1, <1>6
  <1> QED BY <1>6, <1>7 DEF p, s

\* A remainder may be taken early: a ring index can be advanced step by step.
LEMMA ModAdd ==
  ASSUME NEW a \in Int, NEW b \in Int, NEW R \in Nat \ {0}
  PROVE ((a % R) + b) % R = (a + b) % R
  <1> DEFINE q == a \div R  r == a % R  p == (r + b) \div R  s == (r + b) % R
  <1>1. q \in Int /\ r \in 0 .. R - 1 /\ a = R * q + r BY DivModDef
  <1>2. p \in Int /\ s \in 0 .. R - 1 /\ r + b = R * p + s BY <1>1, DivModDef
  <1> HIDE DEF q, r, p, s
  <1>3. a + b = R * (q + p) + s BY <1>1, <1>2
  <1>4. q + p \in Int /\ a + b \in Int BY <1>1, <1>2
  <1>5. (a + b) % R = s BY <1>2, <1>3, <1>4, DivModUnique
  <1> QED BY <1>5 DEF s, r

\* The same for what is subtracted.
LEMMA ModSub ==
  ASSUME NEW a \in Int, NEW b \in Int, NEW R \in Nat \ {0}
  PROVE (a - (b % R)) % R = (a - b) % R
  <1> DEFINE q == b \div R  r == b % R  p == (a - r) \div R  s == (a - r) % R
  <1>1. q \in Int /\ r \in 0 .. R - 1 /\ b = R * q + r BY DivModDef
  <1>2. p \in Int /\ s \in 0 .. R - 1 /\ a - r = R * p + s BY <1>1, DivModDef
  <1> HIDE DEF q, r, p, s
  <1>3. a - b = R * (p - q) + s BY <1>1, <1>2
  <1>4. p - q \in Int /\ a - b \in Int BY <1>1, <1>2
  <1>5. (a - b) % R = s BY <1>2, <1>3, <1>4, DivModUnique
  <1> QED BY <1>5 DEF s, r

\* Dividing a whole number of blocks gives the number of blocks.
LEMMA DivOfMultiple ==
  ASSUME NEW b \in Nat \ {0}, NEW k \in Int
  PROVE (k * b) \div b = k /\ (k * b) % b = 0
  <1>1. k * b \in Int /\ k * b = b * k + 0 /\ 0 \in 0 .. b - 1 OBVIOUS
  <1> QED BY <1>1, DivModUnique

\* Division by a block size keeps the order.
LEMMA DivMono ==
  ASSUME NEW x \in Int, NEW y \in Int, NEW b \in Nat \ {0}, x <= y
  PROVE x \div b <= y \div b
  <1> DEFINE p == x \div b  r == x % b  q == y \div b  s == y % b
  <1>1. p \in Int /\ r \in 0 .. b - 1 /\ x = b * p + r BY DivModDef
  <1>2. q \in Int /\ s \in 0 .. b - 1 /\ y = b * q + s BY DivModDef
  <1> HIDE DEF p, q, r, s
  <1>3. b * (p - q) <= s - r BY <1>1, <1>2
  <1>4. ~(p - q >= 1) BY <1>1, <1>2, <1>3, MulGe
  <1>5. p <= q BY <1>1, <1>2, <1>4
  <1> QED BY <1>5 DEF p, q

\* Multiplication by a block size keeps the order.
LEMMA MulMono ==
  ASSUME NEW b \in Nat, NEW x \in Int, NEW y \in Int, x <= y
  PROVE x * b <= y * b
  <1>1. (y - x) * b >= 0 OBVIOUS
  <1> QED BY <1>1

\* The remainder of a number at most one turn away from the range.
LEMMA ModSmall ==
  ASSUME NEW R \in Nat \ {0}, NEW x \in Int
  PROVE /\ x \in 0 .. R - 1 => x % R = x
        /\ x \in -R .. -1 => x % R = x + R
  <1>1. CASE x \in 0 .. R - 1
    <2>1. x = R * 0 + x OBVIOUS
    <2> QED BY <1>1, <2>1, DivModUnique
  <1>2. CASE x \in -R .. -1
    <2>1. x = R * (-1) + (x + R) OBVIOUS
    <2>2. x + R \in 0 .. R - 1 BY <1>2
    <2> QED BY <1>2, <2>1, <2>2, DivModUnique
  <1> QED BY <1>1, <1>2
=============================================================================
