--------------------------- MODULE CountersProofs ---------------------------
(***************************************************************************)
(* Facts about free-running counters, for every modulus and ring depth.    *)
(* They rest on the uniqueness of quotient and remainder.                  *)
(***************************************************************************)
EXTENDS Counters, TLAPS

\* Division with remainder.
LEMMA DivMod ==
  ASSUME NEW a \in Int, NEW m \in Nat \ {0}
  PROVE  /\ a \div m \in Int
         /\ a % m \in 0 .. (m - 1)
         /\ a = m * (a \div m) + (a % m)
OBVIOUS

\* The remainder is the only number below m that differs by a multiple of m.
LEMMA ModUnique ==
  ASSUME NEW q \in Int, NEW m \in Nat \ {0}, NEW r \in 0 .. (m - 1)
  PROVE  (m * q + r) % m = r
OBVIOUS

\* Adding less than m to a number steps its remainder on, around the end once.
LEMMA ModAdd ==
  ASSUME NEW a \in Nat, NEW m \in Nat \ {0}, NEW d \in 0 .. (m - 1)
  PROVE  (a + d) % m = IF (a % m) + d < m THEN (a % m) + d ELSE (a % m) + d - m
<1> DEFINE q == a \div m
           r == a % m
<1>1. q \in Int /\ r \in 0 .. (m - 1) /\ a = m * q + r
  BY DivMod
<1> HIDE DEF q, r
<1>2. CASE r + d < m
  <2>1. a + d = m * q + (r + d) /\ r + d \in 0 .. (m - 1)
    BY <1>1, <1>2
  <2>2. (m * q + (r + d)) % m = r + d
    BY <1>1, <2>1, ModUnique
  <2> QED BY <1>2, <2>1, <2>2 DEF r
<1>3. CASE ~(r + d < m)
  <2>1. q + 1 \in Int /\ r + d - m \in 0 .. (m - 1)
    BY <1>1, <1>3
  <2>2. m * (q + 1) = m * q + m
    BY <1>1
  <2>3. a + d = m * (q + 1) + (r + d - m)
    BY <1>1, <2>2
  <2>4. (m * (q + 1) + (r + d - m)) % m = r + d - m
    BY <2>1, ModUnique
  <2> QED BY <1>3, <2>3, <2>4 DEF r
<1> QED BY <1>2, <1>3 DEF r

\* Two numbers less than m apart have different remainders.
LEMMA ModDistinct ==
  ASSUME NEW a \in Nat, NEW b \in Nat, NEW m \in Nat \ {0},
         a < b, b < a + m
  PROVE  a % m # b % m
<1>1. b - a \in 0 .. (m - 1) /\ b = a + (b - a) /\ b - a # 0
  OBVIOUS
<1>2. (a + (b - a)) % m = IF (a % m) + (b - a) < m THEN (a % m) + (b - a)
                                                  ELSE (a % m) + (b - a) - m
  BY <1>1, ModAdd
<1>3. a % m \in Int
  BY DivMod
<1> QED BY <1>1, <1>2, <1>3

\* Unsigned subtraction of two counters gives their distance.
LEMMA MinusVal ==
  ASSUME NEW a \in Nat, NEW b \in Nat, b <= a, a - b < Modulus
  PROVE  Minus(Val(a), Val(b)) = a - b
<1> USE CountersAssumption
<1> DEFINE d == a - b
           r == b % Modulus
<1>1. d \in 0 .. (Modulus - 1) /\ a = b + d /\ r \in 0 .. (Modulus - 1)
  BY DivMod
<1>2. a % Modulus = IF r + d < Modulus THEN r + d ELSE r + d - Modulus
  BY <1>1, ModAdd
<1> HIDE DEF d, r
<1>3. CASE r + d < Modulus
  <2>1. ((a % Modulus) - r) = Modulus * 0 + d
    BY <1>1, <1>2, <1>3
  <2>2. (Modulus * 0 + d) % Modulus = d
    BY <1>1, ModUnique
  <2>3. ((a % Modulus) - r) % Modulus = d
    BY <2>1, <2>2
  <2> QED BY <2>3 DEF Minus, Val, d, r
<1>4. CASE ~(r + d < Modulus)
  <2>1. ((a % Modulus) - r) = Modulus * (-1) + d
    BY <1>1, <1>2, <1>4
  <2>2. (Modulus * (-1) + d) % Modulus = d
    BY <1>1, ModUnique
  <2>3. ((a % Modulus) - r) % Modulus = d
    BY <2>1, <2>2
  <2> QED BY <2>3 DEF Minus, Val, d, r
<1> QED BY <1>3, <1>4

\* The slot a counter selects does not notice that the counter wraps.
LEMMA SlotVal ==
  ASSUME NEW a \in Nat, NEW c, RingDepth(c)
  PROVE  SlotOf(Val(a), c) = a % c
<1> USE CountersAssumption
<1> DEFINE q == a \div Modulus
           r == a % Modulus
           k == Modulus \div c
           u == r \div c
           v == r % c
<1>0. c \in Nat \ {0} /\ Modulus % c = 0
  BY DEF RingDepth
<1>1. q \in Int /\ r \in 0 .. (Modulus - 1) /\ a = Modulus * q + r
  BY DivMod
<1>2. k \in Int /\ Modulus = c * k
  BY <1>0, DivMod
<1> HIDE DEF q, r, k
<1>3. u \in Int /\ v \in 0 .. (c - 1) /\ r = c * u + v
  BY <1>0, <1>1, DivMod
<1> HIDE DEF u, v
<1>4. k * q + u \in Int
  BY <1>1, <1>2, <1>3
<1>5. (c * k) * q = c * (k * q)
  BY <1>0, <1>1, <1>2
<1>6. c * (k * q + u) = c * (k * q) + c * u
  BY <1>0, <1>1, <1>2, <1>3
<1>7. a = c * (k * q + u) + v
  <2>1. Modulus * q = (c * k) * q
    BY <1>2
  <2> DEFINE x == c * (k * q)
             y == c * u
             z == Modulus * q
  <2>2. x \in Int /\ y \in Int /\ z \in Int /\ z = x /\ a = z + r /\ r = y + v
    BY <2>1, <1>0, <1>1, <1>2, <1>3, <1>5
  <2>3. c * (k * q + u) = x + y
    BY <1>6
  <2> HIDE DEF x, y, z
  <2> QED BY <2>2, <2>3, <1>3
<1>8. (c * (k * q + u) + v) % c = v
  BY <1>0, <1>3, <1>4, ModUnique
<1> QED BY <1>7, <1>8 DEF SlotOf, Val, r, v

\* A counter's value is a counter.
LEMMA ValType ==
  ASSUME NEW a \in Int
  PROVE  Val(a) \in Counter
BY CountersAssumption, DivMod DEF Val, Counter

\* Wrapping before an addition changes nothing.
LEMMA ValAdd ==
  ASSUME NEW a \in Nat, NEW b \in Nat
  PROVE  Val(Val(a) + b) = Val(a + b)
<1> USE CountersAssumption
<1> DEFINE q == a \div Modulus
           r == a % Modulus
           u == (r + b) \div Modulus
           v == (r + b) % Modulus
<1>1. q \in Int /\ r \in 0 .. (Modulus - 1) /\ a = Modulus * q + r
  BY DivMod
<1> HIDE DEF q, r
<1>2. r + b \in Int
  BY <1>1
<1>3. u \in Int /\ v \in 0 .. (Modulus - 1) /\ r + b = Modulus * u + v
  BY <1>2, DivMod
<1> HIDE DEF u, v
<1>4. Modulus * (q + u) = Modulus * q + Modulus * u /\ q + u \in Int
  BY <1>1, <1>3
<1>5. a + b = Modulus * (q + u) + v
  <2> DEFINE x == Modulus * q
             y == Modulus * u
  <2>1. x \in Int /\ y \in Int /\ a = x + r /\ r + b = y + v
    BY <1>1, <1>3
  <2>2. Modulus * (q + u) = x + y
    BY <1>4
  <2> HIDE DEF x, y
  <2> QED BY <1>1, <1>3, <2>1, <2>2
<1>6. (Modulus * (q + u) + v) % Modulus = v
  BY <1>3, <1>4, ModUnique
<1> QED BY <1>5, <1>6 DEF Val, r, v

\* Counters less than a lap of their type apart differ.
LEMMA ValDistinct ==
  ASSUME NEW a \in Nat, NEW b \in Nat, a < b, b - a < Modulus
  PROVE  Val(a) # Val(b)
<1>1. b < a + Modulus
  BY CountersAssumption
<1> QED BY <1>1, CountersAssumption, ModDistinct DEF Val

\* Counters less than a lap of the ring apart select different slots of it.
LEMMA SlotDistinct ==
  ASSUME NEW a \in Nat, NEW b \in Nat, NEW c, RingDepth(c), a # b,
         a - b < c, b - a < c
  PROVE  SlotOf(Val(a), c) # SlotOf(Val(b), c)
<1>1. c \in Nat \ {0}
  BY DEF RingDepth
<1>2. SlotOf(Val(a), c) = a % c /\ SlotOf(Val(b), c) = b % c
  BY SlotVal
<1>3. CASE a < b
  <2>1. b < a + c
    BY <1>1
  <2> QED BY <1>1, <1>2, <1>3, <2>1, ModDistinct
<1>4. CASE b < a
  <2>1. a < b + c
    BY <1>1
  <2> QED BY <1>1, <1>2, <1>4, <2>1, ModDistinct
<1> QED BY <1>3, <1>4

\* A slot is within the ring.
LEMMA SlotType ==
  ASSUME NEW a \in Nat, NEW c, RingDepth(c)
  PROVE  SlotOf(Val(a), c) \in 0 .. (c - 1)
<1>1. SlotOf(Val(a), c) = a % c
  BY SlotVal
<1>2. c \in Nat \ {0}
  BY DEF RingDepth
<1>3. a % c \in 0 .. (c - 1)
  BY <1>2
<1> QED BY <1>1, <1>3

\* Unsigned subtraction never exceeds the true distance.
LEMMA MinusBound ==
  ASSUME NEW a \in Nat, NEW b \in Nat, b <= a
  PROVE  Minus(Val(a), Val(b)) \in 0 .. (a - b)
<1> USE CountersAssumption
<1> DEFINE d == a - b
           q == d \div Modulus
           e == d % Modulus
<1>0. d \in Nat /\ a = b + d
  OBVIOUS
<1> HIDE DEF d
<1>1. q \in Int /\ e \in 0 .. (Modulus - 1) /\ d = Modulus * q + e
  BY <1>0, DivMod
<1> HIDE DEF q, e
<1>2. Val(a) = Val(b + e)
  <2>1. Val(b) \in Nat /\ Val(b + e) \in Nat
    BY <1>1, DivMod DEF Val
  <2>2. b + e \in Nat /\ a = Modulus * q + (b + e)
    BY <1>0, <1>1
  <2> DEFINE x == b + e
             k == x \div Modulus
             r == x % Modulus
  <2> HIDE DEF x
  <2>0. x \in Int
    BY <2>2 DEF x
  <2>3. k \in Int /\ r \in 0 .. (Modulus - 1) /\ x = Modulus * k + r
    BY <2>0, DivMod
  <2> HIDE DEF k, r
  <2>4. Modulus * (q + k) = Modulus * q + Modulus * k /\ q + k \in Int
    BY <1>1, <2>3
  <2>5. a = Modulus * (q + k) + r
    <3> DEFINE y == Modulus * q
               z == Modulus * k
    <3>1. y \in Int /\ z \in Int /\ a = y + x /\ x = z + r
      BY <1>1, <2>2, <2>3 DEF x
    <3>2. Modulus * (q + k) = y + z
      BY <2>4
    <3> HIDE DEF y, z
    <3> QED BY <2>3, <3>1, <3>2
  <2>6. (Modulus * (q + k) + r) % Modulus = r
    BY <2>3, <2>4, ModUnique
  <2> QED BY <2>5, <2>6 DEF Val, x, r
<1>3. Minus(Val(b + e), Val(b)) = e
  <2>1. b + e \in Nat /\ b <= b + e /\ (b + e) - b < Modulus /\ (b + e) - b = e
    BY <1>1
  <2> QED BY <2>1, MinusVal
<1>4. e <= d
  <2>1. q >= 0
    BY <1>0, <1>1
  <2>2. Modulus * q >= 0
    BY <1>1, <2>1
  <2> DEFINE y == Modulus * q
  <2>3. y \in Int /\ y >= 0 /\ d = y + e
    BY <1>1, <2>2
  <2> HIDE DEF y
  <2> QED BY <1>0, <1>1, <2>3
<1> QED BY <1>0, <1>1, <1>2, <1>3, <1>4 DEF d
=============================================================================
