--------------------------- MODULE NumberTheorems ---------------------------
(***************************************************************************)
(* Facts about quotients and remainders that the proofs of the components  *)
(* share: slot, symbol and sequence numbers all wrap.                      *)
(***************************************************************************)
EXTENDS Integers, WellFoundedInduction, TLAPS

LEMMA DivMod ==
  ASSUME NEW P \in Nat \ {0}, NEW a \in Int
  PROVE  /\ a = P * (a \div P) + (a % P)
         /\ a \div P \in Int
         /\ a % P \in 0 .. (P - 1)
OBVIOUS

\* A multiple of P that is smaller than P in size is 0.
LEMMA SmallMultiple ==
  ASSUME NEW P \in Nat \ {0}, NEW k \in Int, P * k < P, P * k > -P
  PROVE  k = 0
<1>1. k >= 1 => P * k >= P
  OBVIOUS
<1>2. k =< -1 => P * k =< -P
  OBVIOUS
<1>. QED  BY <1>1, <1>2

\* Quotient and remainder are determined by the equation between them.
LEMMA DivModUnique ==
  ASSUME NEW P \in Nat \ {0}, NEW a \in Int, NEW k \in Int, NEW r \in 0 .. (P - 1),
         a = P * k + r
  PROVE  a \div P = k /\ a % P = r
<1> DEFINE q == a \div P
           s == a % P
<1>1. a = P * q + s /\ q \in Int /\ s \in 0 .. (P - 1)
  BY DivMod
<1> HIDE DEF q, s
<1>2. P * (q - k) = r - s
  BY <1>1
<1>3. q - k = 0
  <2>1. r - s < P /\ r - s > -P
    BY <1>1
  <2>2. q - k \in Int
    BY <1>1
  <2>. QED  BY <1>2, <2>1, <2>2, SmallMultiple
<1>4. q = k /\ s = r
  BY <1>1, <1>2, <1>3
<1>. QED  BY <1>4 DEF q, s

\* Integers less than P apart are told apart modulo P.
LEMMA ModInjective ==
  ASSUME NEW P \in Nat \ {0}, NEW a \in Int, NEW b \in Int,
         a % P = b % P, a - b < P, a - b > -P
  PROVE  a = b
<1> DEFINE k == (a \div P) - (b \div P)
<1>1. k \in Int /\ a - b = P * k
  BY DivMod
<1> HIDE DEF k
<1>2. k = 0
  BY <1>1, SmallMultiple
<1>. QED  BY <1>1, <1>2

\* Integers that differ by a multiple of P have the same remainder.
LEMMA ModShift ==
  ASSUME NEW P \in Nat \ {0}, NEW a \in Int, NEW k \in Int
  PROVE  (a + P * k) % P = a % P
<1> DEFINE q == a \div P
           r == a % P
<1>1. a = P * q + r /\ q \in Int /\ r \in 0 .. (P - 1)
  BY DivMod
<1> HIDE DEF q, r
<1>2. a + P * k = P * (q + k) + r
  BY <1>1
<1>3. q + k \in Int /\ a + P * k \in Int
  BY <1>1
<1>4. (a + P * k) % P = r
  BY <1>1, <1>2, <1>3, DivModUnique
<1>. QED  BY <1>4 DEF r

\* A term of a sum may be reduced first.
LEMMA ModAdd ==
  ASSUME NEW P \in Nat \ {0}, NEW a \in Int, NEW b \in Int
  PROVE  /\ ((a % P) + b) % P = (a + b) % P
         /\ (b - (a % P)) % P = (b - a) % P
<1> DEFINE q == a \div P
           r == a % P
<1>1. a = P * q + r /\ q \in Int /\ r \in Int
  BY DivMod
<1> HIDE DEF q, r
<1>2. a + b = (r + b) + P * q /\ b - a = (b - r) + P * (-q)
  BY <1>1
<1>3. r + b \in Int /\ b - r \in Int /\ -q \in Int
  BY <1>1
<1>4. ((r + b) + P * q) % P = (r + b) % P
  BY <1>1, <1>3, ModShift, Zenon
<1>5. ((b - r) + P * (-q)) % P = (b - r) % P
  BY <1>3, ModShift, Zenon
<1>6. (a + b) % P = (r + b) % P /\ (b - a) % P = (b - r) % P
  BY <1>2, <1>4, <1>5, Zenon
<1>. QED  BY <1>6, Zenon DEF r

\* A period that divides another one.
LEMMA ModMod ==
  ASSUME NEW P \in Nat \ {0}, NEW R \in Nat \ {0}, R % P = 0, NEW a \in Int
  PROVE  (a % R) % P = a % P
<1> DEFINE m == R \div P
           q == a \div R
           r == a % R
<1>1. R = P * m /\ m \in Int
  BY DivMod
<1>2. a = R * q + r /\ q \in Int /\ r \in Int
  BY DivMod
<1> HIDE DEF m, q, r
<1>3. a = r + P * (m * q) /\ m * q \in Int
  BY <1>1, <1>2
<1>4. (r + P * (m * q)) % P = r % P
  BY <1>2, <1>3, ModShift, Zenon
<1>5. a % P = r % P
  BY <1>3, <1>4, Zenon
<1>. QED  BY <1>5, Zenon DEF r

\* A number of the longer period R translated to the shorter P by an offset.
LEMMA Translated ==
  ASSUME NEW P \in Nat \ {0}, NEW R \in Nat \ {0}, R % P = 0, NEW n \in Int, NEW k \in Int
  PROVE  ((n % R) + (k % P)) % P = (n + k) % P
<1> DEFINE x == n % R
<1>1. x \in Int
  BY DivMod
<1>2. x % P = n % P
  BY ModMod
<1>. HIDE DEF x
<1>3. ((k % P) + x) % P = (k + x) % P
  BY <1>1, ModAdd
<1>4. ((x % P) + k) % P = (x + k) % P
  BY <1>1, ModAdd
<1>5. ((n % P) + k) % P = (n + k) % P
  BY ModAdd
<1>6. k % P \in Int
  BY DivMod
<1>7. k + x = x + k /\ (k % P) + x = x + (k % P)
  BY <1>1, <1>6
<1>8. (x + (k % P)) % P = (n + k) % P
  BY <1>2, <1>3, <1>4, <1>5, <1>7, Zenon
<1>. QED  BY <1>8 DEF x

\* The offset measured between two numberings.
LEMMA Measured ==
  ASSUME NEW P \in Nat \ {0}, NEW R \in Nat \ {0}, R % P = 0, NEW g \in Int, NEW n \in Int
  PROVE  (g + (P - ((n % R) % P))) % P = (g - n) % P
<1>1. (n % R) % P = n % P
  BY ModMod
<1>2. g + P \in Int /\ g - n \in Int /\ 1 \in Int
  OBVIOUS
<1>3. ((g + P) - (n % P)) % P = ((g + P) - n) % P
  BY <1>2, ModAdd
<1>4. ((g - n) + P * 1) % P = (g - n) % P
  BY <1>2, ModShift
<1>5. (g + P) - n = (g - n) + P * 1
  OBVIOUS
<1>6. (g + P) - (n % P) = g + (P - (n % P))
  BY DivMod
<1>. QED  BY <1>1, <1>3, <1>4, <1>5, <1>6, Zenon

\* Numbers below the period are their own remainder.
LEMMA ModSmall ==
  ASSUME NEW P \in Nat \ {0}, NEW a \in 0 .. (P - 1)
  PROVE  a % P = a
OBVIOUS

\* A divisor is no larger.
LEMMA DivisorBound ==
  ASSUME NEW P \in Nat \ {0}, NEW R \in Nat \ {0}, R % P = 0
  PROVE  P =< R
<1>1. R < P => R % P = R
  OBVIOUS
<1>. QED  BY <1>1

\* A set of naturals that is not empty has a smallest element.
LEMMA SmallestElement ==
  ASSUME NEW T, T \subseteq Nat, T # {}
  PROVE  \E s \in T : \A t \in T : s =< t
<1> DEFINE R == {ss \in Nat \X Nat : ss[1] < ss[2]}
<1>1. IsWellFoundedOn(R, Nat)
  BY NatLessThanWellFounded, Zenon DEF OpToRel
<1> HIDE DEF R
<1>2. PICK s \in T : \A t \in T : <<t, s>> \notin R
  BY <1>1, WFMin, Zenon
<1>3. \A x, y \in Nat : x < y => <<x, y>> \in R
  BY DEF R
<1>4. ASSUME NEW t \in T PROVE s =< t
  <2>1. s \in Nat /\ t \in Nat
    OBVIOUS
  <2>2. ~(t < s)
    BY <1>2, <1>3, <2>1
  <2>. QED  BY <2>1, <2>2
<1>. QED  BY <1>4
=============================================================================
