--------------------------- MODULE RingArithmetic ---------------------------
(***************************************************************************)
(* Facts about % for rings whose cursors count modulo a power of two that  *)
(* the ring's size divides.  n is a modulus, m a multiple of it.           *)
(***************************************************************************)
EXTENDS Integers, TLAPS

(* Division with remainder.                                                 *)
LEMMA Division ==
  ASSUME NEW a \in Int, NEW n \in Nat \ {0}
  PROVE  (a \div n) \in Int /\ (a % n) \in 0 .. n - 1 /\ a = n * (a \div n) + (a % n)
OBVIOUS

(* Multiplication distributes.                                              *)
LEMMA Distribute ==
  ASSUME NEW n \in Int, NEW p \in Int, NEW q \in Int
  PROVE  n * p \in Int /\ n * (p + q) = n * p + n * q /\ n * (q - p) = n * q - n * p
OBVIOUS

(* Multiplication is associative.                                           *)
LEMMA Associate ==
  ASSUME NEW n \in Int, NEW k \in Int, NEW p \in Int
  PROVE  (n * k) * p = n * (k * p) /\ k * p \in Int
OBVIOUS

(* A positive multiple of n is at least n.                                  *)
LEMMA Grow ==
  ASSUME NEW n \in Nat \ {0}, NEW k \in Int, k >= 1
  PROVE  n * k >= n
<1>1. n * (k - 1) >= 0
  OBVIOUS
<1>2. n * (k - 1) = n * k - n
  OBVIOUS
<1>3. n * k \in Int
  OBVIOUS
<1> QED BY <1>1, <1>2, <1>3

(* Quotient and remainder are unique.                                       *)
LEMMA DivisionUnique ==
  ASSUME NEW n \in Nat \ {0}, NEW q \in Int, NEW r \in 0 .. n - 1,
         NEW p \in Int, NEW s \in 0 .. n - 1, n * q + r = n * p + s
  PROVE  q = p /\ r = s
<1>1. n * (q - p) = s - r
  OBVIOUS
<1>2. ~(q - p >= 1)
  <2> SUFFICES ASSUME q - p >= 1 PROVE FALSE
    OBVIOUS
  <2>1. n * (q - p) >= n
    BY Grow
  <2> QED BY <2>1, <1>1
<1>3. ~(p - q >= 1)
  <2> SUFFICES ASSUME p - q >= 1 PROVE FALSE
    OBVIOUS
  <2>1. n * (p - q) >= n
    BY Grow
  <2>2. n * (p - q) = -(n * (q - p))
    OBVIOUS
  <2> QED BY <2>1, <2>2, <1>1
<1>4. q = p
  BY <1>2, <1>3
<1> QED BY <1>1, <1>4

(* A remainder is recognised by any decomposition.                          *)
LEMMA ModOf ==
  ASSUME NEW n \in Nat \ {0}, NEW a \in Int, NEW q \in Int, NEW r \in 0 .. n - 1,
         a = n * q + r
  PROVE  a % n = r
<1>1. (a \div n) \in Int /\ (a % n) \in 0 .. n - 1 /\ a = n * (a \div n) + (a % n)
  BY Division
<1>2. n * q + r = n * (a \div n) + (a % n)
  BY <1>1
<1> QED BY <1>1, <1>2, DivisionUnique, Zenon

(* Adding a multiple of n changes no remainder.                             *)
LEMMA ModShift ==
  ASSUME NEW n \in Nat \ {0}, NEW a \in Int, NEW b \in Int, NEW q \in Int,
         b = a + n * q
  PROVE  b % n = a % n
<1>0. n \in Int
  OBVIOUS
<1>1. (a % n) \in 0 .. n - 1 /\ (a \div n) \in Int /\ a = n * (a \div n) + (a % n)
  BY Division
<1>2. n * ((a \div n) + q) = n * (a \div n) + n * q
  BY <1>0, <1>1, Distribute, Zenon
<1>3. n * (a \div n) \in Int /\ n * q \in Int
  BY <1>0, <1>1, Distribute, Zenon
<1>4. b = n * ((a \div n) + q) + (a % n)
  <2> DEFINE x == n * (a \div n)
  <2> DEFINE y == n * q
  <2> DEFINE z == n * ((a \div n) + q)
  <2> DEFINE w == a % n
  <2>1. a = x + w /\ z = x + y /\ b = a + y /\ x \in Int /\ y \in Int /\ w \in Int
    BY <1>1, <1>2, <1>3
  <2>2. b = z + w
    <3> HIDE DEF x, y, z, w
    <3> QED BY <2>1
  <2> QED BY <2>2
<1>5. (a \div n) + q \in Int
  BY <1>1
<1> QED BY <1>1, <1>4, <1>5, ModOf, Zenon

(* A count in range is its own remainder.                                   *)
LEMMA ModSmall ==
  ASSUME NEW n \in Nat \ {0}, NEW a \in 0 .. n - 1
  PROVE  a % n = a
<1>1. a = n * 0 + a
  OBVIOUS
<1> QED BY <1>1, ModOf

(* wr - rd on cursors, modulo n.                                            *)
LEMMA ModMinus ==
  ASSUME NEW n \in Nat \ {0}, NEW a \in Int, NEW b \in Int
  PROVE  ((a % n) - (b % n)) % n = (a - b) % n
<1>0. n \in Int
  OBVIOUS
<1>1. PICK p \in Int : a = n * p + (a % n)
  BY Division
<1>2. PICK q \in Int : b = n * q + (b % n)
  BY Division
<1>3. (a % n) \in Int /\ (b % n) \in Int
  BY Division
<1>4. n * p \in Int /\ n * q \in Int /\ n * (q - p) = n * q - n * p /\ q - p \in Int
  BY <1>0, Distribute
<1>5. (a % n) - (b % n) = (a - b) + n * (q - p)
  <2> DEFINE x == n * p
  <2> DEFINE y == n * q
  <2> DEFINE z == n * (q - p)
  <2> DEFINE v == a % n
  <2> DEFINE w == b % n
  <2>1. /\ a = x + v /\ b = y + w /\ z = y - x
        /\ x \in Int /\ y \in Int /\ v \in Int /\ w \in Int
    BY <1>1, <1>2, <1>3, <1>4
  <2>2. v - w = (a - b) + z
    <3> HIDE DEF x, y, z, v, w
    <3> QED BY <2>1
  <2> QED BY <2>2
<1>6. (a % n) - (b % n) \in Int /\ a - b \in Int
  BY <1>3
<1> QED BY <1>4, <1>5, <1>6, ModShift, Zenon

(* wr - rd on cursors is the true distance when it fits in a cursor.        *)
LEMMA ModDistance ==
  ASSUME NEW n \in Nat \ {0}, NEW a \in Int, NEW b \in Int, a - b \in 0 .. n - 1
  PROVE  ((a % n) - (b % n)) % n = a - b
BY ModMinus, ModSmall

(* Advancing a cursor advances the count it stands for.                     *)
LEMMA ModPlus ==
  ASSUME NEW n \in Nat \ {0}, NEW a \in Int, NEW b \in Int
  PROVE  ((a % n) + b) % n = (a + b) % n
<1>0. n \in Int
  OBVIOUS
<1>1. PICK p \in Int : a = n * p + (a % n)
  BY Division
<1>2. (a % n) \in Int /\ n * p \in Int
  BY Division, <1>0, Distribute
<1>3. a + b = ((a % n) + b) + n * p
  <2> DEFINE x == n * p
  <2> DEFINE v == a % n
  <2>1. a = x + v /\ x \in Int /\ v \in Int
    BY <1>1, <1>2
  <2>2. a + b = (v + b) + x
    <3> HIDE DEF x, v
    <3> QED BY <2>1
  <2> QED BY <2>2
<1>4. (a % n) + b \in Int /\ a + b \in Int
  BY <1>2
<1> QED BY <1>3, <1>4, ModShift, Zenon

(* A cursor's index in a ring whose size divides the cursor's range.        *)
LEMMA ModMod ==
  ASSUME NEW m \in Nat \ {0}, NEW n \in Nat \ {0}, m % n = 0, NEW a \in Int
  PROVE  (a % m) % n = a % n
<1>0. n \in Int /\ m \in Int
  OBVIOUS
<1>1. PICK k \in Int : m = n * k
  BY Division
<1>2. PICK p \in Int : a = m * p + (a % m)
  BY Division
<1>3. (a % m) \in Int
  BY Division
<1>4. m * p = n * (k * p) /\ k * p \in Int
  BY <1>0, <1>1, Associate
<1>5. m * p \in Int
  BY <1>0, Distribute
<1>6. a = (a % m) + n * (k * p)
  <2> DEFINE x == m * p
  <2> DEFINE v == a % m
  <2>1. a = x + v /\ x \in Int /\ v \in Int
    BY <1>2, <1>3, <1>5
  <2>2. a = v + x
    <3> HIDE DEF x, v
    <3> QED BY <2>1
  <2> QED BY <2>2, <1>4
<1> QED BY <1>3, <1>4, <1>6, ModShift, Zenon

(* Two counts less than a ring apart with one index are equal.              *)
LEMMA ModSame ==
  ASSUME NEW n \in Nat \ {0}, NEW a \in Int, NEW b \in Int,
         a - b \in 0 .. n - 1, a % n = b % n
  PROVE  a = b
<1>1. ((a % n) - (b % n)) % n = (a - b) % n
  BY ModMinus
<1>2. (a % n) \in Int /\ (b % n) \in Int
  BY Division
<1>3. (a % n) - (b % n) = 0
  BY <1>2
<1>4. 0 % n = 0 /\ (a - b) % n = a - b
  BY ModSmall
<1> QED BY <1>1, <1>3, <1>4

(* A run that does not wrap has consecutive indices.                        *)
LEMMA ModRun ==
  ASSUME NEW n \in Nat \ {0}, NEW a \in Int, NEW d \in Nat, (a % n) + d < n
  PROVE  (a + d) % n = (a % n) + d
<1>0. d \in Int
  OBVIOUS
<1>1. ((a % n) + d) % n = (a + d) % n
  BY <1>0, ModPlus, Zenon
<1>2. (a % n) \in 0 .. n - 1
  BY Division
<1>3. (a % n) + d \in 0 .. n - 1
  BY <1>2
<1> QED BY <1>1, <1>3, ModSmall

(* The index d past a cursor.                                               *)
LEMMA ModIndex ==
  ASSUME NEW m \in Nat \ {0}, NEW n \in Nat \ {0}, m % n = 0,
         NEW a \in Int, NEW d \in Int
  PROVE  ((a % m) + d) % n = (a + d) % n
<1>1. (a % m) \in Int
  BY Division
<1>2. (((a % m) % n) + d) % n = ((a % m) + d) % n
  BY <1>1, ModPlus
<1>3. ((a % n) + d) % n = (a + d) % n
  BY ModPlus
<1>4. (a % m) % n = a % n
  BY ModMod
<1> QED BY <1>2, <1>3, <1>4

(* How far an index is past a cursor.                                       *)
LEMMA ModOffset ==
  ASSUME NEW m \in Nat \ {0}, NEW n \in Nat \ {0}, m % n = 0,
         NEW a \in Int, NEW b \in Int
  PROVE  ((a % n) - (b % m)) % n = (a - b) % n
<1>1. (b % m) \in Int /\ (a % n) \in Int
  BY Division
<1>2. ((a % n) - ((b % m) % n)) % n = (a - (b % m)) % n
  BY <1>1, ModMinus
<1>3. (((a % n) % n) - ((b % m) % n)) % n = ((a % n) - (b % m)) % n
  BY <1>1, ModMinus
<1>4. (a % n) % n = a % n
  BY <1>1, Division, ModSmall
<1>5. ((a % n) - (b % n)) % n = (a - b) % n
  BY ModMinus
<1>6. (b % m) % n = b % n
  BY ModMod
<1> QED BY <1>3, <1>4, <1>5, <1>6
=============================================================================
