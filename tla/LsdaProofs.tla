----------------------------- MODULE LsdaProofs -----------------------------
(***************************************************************************)
(* handleLsda reads in a data area what was written there, for any list of *)
(* call sites, in every encoding: LandingPad finds the first call site     *)
(* that has a landing pad and covers the offset.                           *)
(***************************************************************************)
EXTENDS Lsda, WellFoundedInduction, TLAPS

Bytes == 0..255

-----------------------------------------------------------------------------
(* Induction over sets of numbers *)

\* A property of numbers is given by the set of those that have it.
LEMMA Upward ==
    ASSUME NEW S, 0 \in S, \A n \in Nat : n \in S => n + 1 \in S
    PROVE  \A n \in Nat : n \in S
<1> DEFINE less == OpToRel(<, Nat)
           T == Nat \ S
<1> SUFFICES ASSUME T # {} PROVE FALSE
  OBVIOUS
<1>1. \E n \in T : \A m \in T : ~(<<m, n>> \in less)
  <2>1. T \subseteq Nat
    OBVIOUS
  <2>2. QED
    BY <2>1, WFMin, NatLessThanWellFounded
<1>2. PICK n \in T : \A m \in T : ~(<<m, n>> \in less)
  BY <1>1
<1>3. \A m \in T : m < n => <<m, n>> \in less
  BY DEF OpToRel
<1>4. \A m \in T : ~(m < n)
  BY <1>2, <1>3, Zenon
<1>5. n # 0 /\ n - 1 \in Nat /\ n - 1 \notin S
  <2>1. n \in Nat /\ n \notin S /\ n # 0
    BY <1>2
  <2>2. n - 1 \in Nat /\ (n - 1) + 1 = n
    BY <2>1
  <2>3. QED
    BY <2>1, <2>2
<1>6. n - 1 \in T /\ n - 1 < n
  BY <1>5
<1>7. QED
  BY <1>4, <1>6

LEMMA Downward ==
    ASSUME NEW n \in Nat, NEW S, n \in S, \A k \in 1..(n - 1) : k + 1 \in S => k \in S
    PROVE  \A k \in 1..n : k \in S
<1> DEFINE T == {j \in Nat : j < n => n - j \in S}
<1>1. 0 \in T
  OBVIOUS
<1>2. \A j \in Nat : j \in T => j + 1 \in T
  <2> SUFFICES ASSUME NEW j \in T, j + 1 < n PROVE n - (j + 1) \in S
    OBVIOUS
  <2>1. n - j \in S /\ n - (j + 1) \in 1..(n - 1) /\ n - j = (n - (j + 1)) + 1
    OBVIOUS
  <2>2. QED
    BY <2>1
<1> HIDE DEF T
<1>3. \A j \in Nat : j \in T
  BY <1>1, <1>2, Upward
<1>4. QED
  <2> SUFFICES ASSUME NEW k \in 1..n PROVE k \in S
    OBVIOUS
  <2>1. n - k \in T
    BY <1>3
  <2>2. QED
    BY <2>1 DEF T

-----------------------------------------------------------------------------
(* A sequence of bytes within another *)

Holds(b, p, u) ==
    /\ p + Len(u) - 1 <= Len(b)
    /\ \A k \in 1..Len(u) : b[p + k - 1] = u[k]

LEMMA Joined ==
    ASSUME NEW u \in Seq(Bytes), NEW w \in Seq(Bytes)
    PROVE  /\ u \o w \in Seq(Bytes) /\ Len(u \o w) = Len(u) + Len(w)
           /\ \A k \in 1..Len(u) : (u \o w)[k] = u[k]
           /\ \A k \in 1..Len(w) : (u \o w)[Len(u) + k] = w[k]
OBVIOUS

LEMMA HoldsBoth ==
    ASSUME NEW b \in Seq(Bytes), NEW p \in Nat, NEW u \in Seq(Bytes), NEW w \in Seq(Bytes),
           Holds(b, p, u \o w)
    PROVE  Holds(b, p, u) /\ Holds(b, p + Len(u), w)
<1>1. Len(u) \in Nat /\ Len(w) \in Nat /\ Len(b) \in Nat
  OBVIOUS
<1>2. Holds(b, p, u)
  <2>1. Len(u \o w) = Len(u) + Len(w) /\ p + Len(u \o w) - 1 <= Len(b)
    BY Joined DEF Holds
  <2>2. p + Len(u) - 1 <= Len(b)
    BY <1>1, <2>1
  <2>3. ASSUME NEW k \in 1..Len(u) PROVE b[p + k - 1] = u[k]
    <3>1. k \in 1..Len(u \o w) /\ (u \o w)[k] = u[k]
      BY <1>1, Joined
    <3>2. QED
      BY <3>1 DEF Holds
  <2>4. QED
    BY <2>2, <2>3 DEF Holds
<1>3. Holds(b, p + Len(u), w)
  <2>1. ASSUME NEW k \in 1..Len(w) PROVE b[p + Len(u) + k - 1] = w[k]
    <3>1. Len(u) + k \in 1..Len(u \o w) /\ (u \o w)[Len(u) + k] = w[k]
      BY <1>1, Joined
    <3>2. b[p + (Len(u) + k) - 1] = w[k]
      BY <3>1 DEF Holds
    <3>3. p + (Len(u) + k) - 1 = p + Len(u) + k - 1
      BY <1>1
    <3>4. QED
      BY <3>2, <3>3
  <2>2. QED
    BY <1>1, <2>1, Joined DEF Holds
<1>4. QED
  BY <1>2, <1>3

LEMMA OneByte == ASSUME NEW x \in Bytes PROVE <<x>> \in Seq(Bytes) /\ Len(<<x>>) = 1
OBVIOUS

-----------------------------------------------------------------------------
(* Digits *)

Bases == {128, 256}
Divided(v, base, f, k) == IF k = 1 THEN v ELSE f[k - 1] \div base

LEMMA DividedExists ==
    ASSUME NEW v, NEW base, NEW D, NEW f, f = [k \in D |-> Divided(v, base, f, k)]
    PROVE  LET rest == CHOOSE g : g = [k \in D |-> Divided(v, base, g, k)]
           IN  rest = [k \in D |-> Divided(v, base, rest, k)]
BY Zenon

LEMMA QuotientsAre ==
    ASSUME NEW v \in Nat, NEW base \in Bases
    PROVE  /\ Quotients(v, base) \in [1..8 -> Nat] /\ Quotients(v, base)[1] = v
           /\ \A k \in 1..7 : Quotients(v, base)[k + 1] = Quotients(v, base)[k] \div base
<1> DEFINE q2 == v \div base
           q3 == q2 \div base
           q4 == q3 \div base
           q5 == q4 \div base
           q6 == q5 \div base
           q7 == q6 \div base
           q8 == q7 \div base
           f == <<v, q2, q3, q4, q5, q6, q7, q8>>
           rest == Quotients(v, base)
<1>1. \A x \in Nat : x \div base \in Nat
  BY DEF Bases
<1>2. q2 \in Nat /\ q3 \in Nat /\ q4 \in Nat /\ q5 \in Nat /\ q6 \in Nat /\ q7 \in Nat /\ q8 \in Nat
  BY <1>1
<1>3. f = [k \in 1..8 |-> IF k = 1 THEN v ELSE f[k - 1] \div base]
  <2>1. DOMAIN f = 1..8 /\ f = [k \in 1..8 |-> f[k]]
    OBVIOUS
  <2>2. ASSUME NEW k \in 1..8 PROVE f[k] = IF k = 1 THEN v ELSE f[k - 1] \div base
    <3>1. k = 1 \/ k = 2 \/ k = 3 \/ k = 4 \/ k = 5 \/ k = 6 \/ k = 7 \/ k = 8
      OBVIOUS
    <3>2. /\ f[1] = v /\ f[2] = q2 /\ f[3] = q3 /\ f[4] = q4 /\ f[5] = q5
          /\ f[6] = q6 /\ f[7] = q7 /\ f[8] = q8
      OBVIOUS
    <3> HIDE DEF f
    <3>3. QED
      BY <3>1, <3>2
  <2> HIDE DEF f
  <2>3. QED
    BY <2>1, <2>2
<1> HIDE DEF rest, f
<1>5. rest = [k \in 1..8 |-> IF k = 1 THEN v ELSE rest[k - 1] \div base]
  <2>1. f = [k \in 1..8 |-> Divided(v, base, f, k)]
    BY <1>3 DEF Divided
  <2> DEFINE chosen == CHOOSE g : g = [k \in 1..8 |-> Divided(v, base, g, k)]
  <2>2. rest = chosen
    BY Zenon DEF rest, Quotients, Divided
  <2>3. chosen = [k \in 1..8 |-> Divided(v, base, chosen, k)]
    BY <2>1, DividedExists
  <2> HIDE DEF chosen
  <2>4. QED
    BY <2>2, <2>3 DEF Divided
<1>6. \A k \in 1..8 : rest[k] = IF k = 1 THEN v ELSE rest[k - 1] \div base
  BY <1>5
<1>7. rest[1] = v
  BY <1>6
<1>8. \A k \in 1..7 : rest[k + 1] = rest[k] \div base
  <2> SUFFICES ASSUME NEW k \in 1..7 PROVE rest[k + 1] = rest[k] \div base
    OBVIOUS
  <2>1. k + 1 \in 1..8 /\ k + 1 # 1 /\ (k + 1) - 1 = k
    OBVIOUS
  <2>2. QED
    BY <1>6, <2>1
<1>9. rest \in [1..8 -> Nat]
  <2>1. rest[2] \in Nat /\ rest[3] \in Nat /\ rest[4] \in Nat /\ rest[5] \in Nat
        /\ rest[6] \in Nat /\ rest[7] \in Nat /\ rest[8] \in Nat
    BY <1>1, <1>7, <1>8
  <2>2. \A k \in 1..8 : rest[k] \in Nat
    <3> SUFFICES ASSUME NEW k \in 1..8 PROVE rest[k] \in Nat
      OBVIOUS
    <3>1. k = 1 \/ k = 2 \/ k = 3 \/ k = 4 \/ k = 5 \/ k = 6 \/ k = 7 \/ k = 8
      OBVIOUS
    <3>2. QED
      BY <1>7, <2>1, <3>1
  <2>3. QED
    BY <1>5, <2>2
<1>10. QED
  BY <1>7, <1>8, <1>9 DEF rest

LEMMA LastDigit ==
    ASSUME NEW base \in Bases, NEW x \in Nat
    PROVE  /\ x % base \in Nat /\ (x % base) + base * (x \div base) = x
           /\ x < base => (x % base) + base * 0 = x
<1>1. base = 128 \/ base = 256
  BY DEF Bases
<1>2. CASE base = 128
  BY <1>2
<1>3. CASE base = 256
  BY <1>3
<1>4. QED
  BY <1>1, <1>2, <1>3

\* How far a number goes down.
LEMMA SmallQuotients ==
    ASSUME NEW v \in Nat, v <= INT_MAX
    PROVE  /\ Quotients(v, 128)[5] < 64
           /\ Quotients(v, 256)[4] < 256
           /\ \A k \in 5..8 : Quotients(v, 256)[k] = 0
           /\ v <= Largest(2) => Quotients(v, 256)[2] < 256
<1>1. Quotients(v, 128)[5] < 64
  <2> DEFINE q == Quotients(v, 128)
  <2>1. /\ q \in [1..8 -> Nat] /\ q[1] = v
        /\ \A k \in 1..7 : q[k + 1] = q[k] \div 128
    BY QuotientsAre DEF Bases
  <2> HIDE DEF q
  <2>2. /\ q[1] = v /\ q[2] = q[1] \div 128 /\ q[3] = q[2] \div 128
        /\ q[4] = q[3] \div 128 /\ q[5] = q[4] \div 128
        /\ q[2] \in Nat /\ q[3] \in Nat /\ q[4] \in Nat /\ q[5] \in Nat
    BY <2>1
  <2>3. q[5] < 64
    <3>1. v \in Nat /\ v <= 2147483647
      BY SMT DEF INT_MAX
    <3>2. q[2] <= 16777215
      BY <2>2, <3>1, SMT
    <3>3. q[3] <= 131071
      BY <2>2, <3>2, SMT
    <3>4. q[4] <= 1023
      BY <2>2, <3>3, SMT
    <3>5. QED
      BY <2>2, <3>4, SMT
  <2>4. QED
    BY <2>3 DEF q
<1>2. /\ Quotients(v, 256)[4] < 256
      /\ \A k \in 5..8 : Quotients(v, 256)[k] = 0
      /\ v <= Largest(2) => Quotients(v, 256)[2] < 256
  <2> DEFINE q == Quotients(v, 256)
  <2>1. /\ q \in [1..8 -> Nat] /\ q[1] = v
        /\ \A k \in 1..7 : q[k + 1] = q[k] \div 256
    BY QuotientsAre DEF Bases
  <2> HIDE DEF q
  <2>2. /\ q[1] = v /\ q[2] = q[1] \div 256 /\ q[3] = q[2] \div 256
        /\ q[4] = q[3] \div 256 /\ q[5] = q[4] \div 256
        /\ q[2] \in Nat /\ q[3] \in Nat /\ q[4] \in Nat /\ q[5] \in Nat
    BY <2>1
  <2>3. q[4] < 256 /\ q[5] = 0 /\ (v <= Largest(2) => q[2] < 256)
    <3>1. v \in Nat /\ v <= 2147483647
      BY SMT DEF INT_MAX
    <3>2. q[2] <= 8388607
      BY <2>2, <3>1, SMT
    <3>3. q[3] <= 32767
      BY <2>2, <3>2, SMT
    <3>4. q[4] <= 127
      BY <2>2, <3>3, SMT
    <3>5. q[5] = 0
      BY <2>2, <3>4, SMT
    <3>6. v <= Largest(2) => q[2] < 256
      BY <2>2, <3>1, SMT DEF Largest
    <3>7. q[4] < 256
      BY <2>2, <3>4
    <3>8. QED
      BY <3>5, <3>6, <3>7
  <2>4. q[6] = q[5] \div 256 /\ q[7] = q[6] \div 256 /\ q[8] = q[7] \div 256
    BY <2>1
  <2>5. q[6] = 0 /\ q[7] = 0 /\ q[8] = 0
    BY <2>3, <2>4
  <2>6. ASSUME NEW k \in 5..8 PROVE q[k] = 0
    <3>1. k = 5 \/ k = 6 \/ k = 7 \/ k = 8
      OBVIOUS
    <3>2. QED
      BY <2>3, <2>5, <3>1
  <2>7. QED
    BY <2>3, <2>6 DEF q
<1>3. QED
  BY <1>1, <1>2

\* Adding up digits, the highest first, gives the number.
LEMMA DigitsAddUp ==
    ASSUME NEW v \in Nat, NEW base \in Bases, NEW n \in 1..8, NEW p \in Nat, NEW f,
           Quotients(v, base)[n] < base,
           f[p + n] = 0,
           \A k \in 1..n : f[p + k - 1] = (Quotients(v, base)[k] % base) + base * f[p + k]
    PROVE  f[p] = v
<1> DEFINE q == Quotients(v, base)
           S == {k \in 1..n : f[p + k - 1] = q[k]}
<1>1. /\ q \in [1..8 -> Nat] /\ q[1] = v
      /\ \A k \in 1..7 : q[k + 1] = q[k] \div base
  BY QuotientsAre, Zenon
<1>2. /\ q[n] < base /\ f[p + n] = 0
      /\ \A k \in 1..n : f[p + k - 1] = (q[k] % base) + base * f[p + k]
  OBVIOUS
<1> HIDE DEF q
<1>3. n \in S
  <2>1. q[n] \in Nat /\ n \in 1..n
    BY <1>1
  <2>2. f[p + n - 1] = (q[n] % base) + base * f[p + n]
    BY <1>2, <2>1
  <2>3. QED
    BY <1>2, <2>1, <2>2, LastDigit
<1>4. \A k \in 1..(n - 1) : k + 1 \in S => k \in S
  <2> SUFFICES ASSUME NEW k \in 1..(n - 1), k + 1 \in S PROVE k \in S
    OBVIOUS
  <2>1. k \in 1..n /\ k \in 1..7 /\ p + (k + 1) - 1 = p + k
    OBVIOUS
  <2>2. f[p + k] = q[k] \div base /\ q[k] \in Nat
    BY <1>1, <2>1
  <2>3. f[p + k - 1] = (q[k] % base) + base * (q[k] \div base)
    BY <1>2, <2>1, <2>2
  <2>4. (q[k] % base) + base * (q[k] \div base) = q[k]
    BY <2>2, LastDigit
  <2>5. QED
    BY <2>1, <2>3, <2>4
<1>5. \A k \in 1..n : k \in S
  <2>1. n \in Nat
    OBVIOUS
  <2> HIDE DEF S
  <2>2. QED
    BY <1>3, <1>4, <2>1, Downward
<1>6. f[p + 1 - 1] = q[1]
  BY <1>5
<1>7. QED
  BY <1>1, <1>6

\* There is a function that adds up the digits.
Sums(v, base, n, p) ==
    [k \in p..(p + n) |-> IF k = p + n THEN 0 ELSE Quotients(v, base)[k - p + 1]]
LEMMA SumsAddUp ==
    ASSUME NEW v \in Nat, NEW base \in Bases, NEW n \in 1..8, NEW p \in Nat,
           Quotients(v, base)[n] < base
    PROVE  LET g == Sums(v, base, n, p)
           IN  /\ g[p + n] = 0
               /\ \A k \in 1..n : g[p + k - 1] = (Quotients(v, base)[k] % base) + base * g[p + k]
<1> DEFINE q == Quotients(v, base)
           g == Sums(v, base, n, p)
<1>1. /\ q \in [1..8 -> Nat] /\ q[1] = v
      /\ \A k \in 1..7 : q[k + 1] = q[k] \div base
  BY QuotientsAre, Zenon
<1>2. q[n] < base /\ g = [k \in p..(p + n) |-> IF k = p + n THEN 0 ELSE q[k - p + 1]]
  BY DEF Sums
<1> HIDE DEF q, g
<1>3. g[p + n] = 0
  BY <1>2
<1>4. ASSUME NEW k \in 1..n PROVE g[p + k - 1] = (q[k] % base) + base * g[p + k]
  <2>1. g[p + k - 1] = q[k] /\ q[k] \in Nat
    <3>1. p + k - 1 \in p..(p + n) /\ p + k - 1 # p + n /\ (p + k - 1) - p + 1 = k /\ k \in 1..8
      OBVIOUS
    <3>2. g[p + k - 1] = q[(p + k - 1) - p + 1]
      BY <1>2, <3>1, Zenon
    <3>3. q[k] \in Nat
      BY <1>1, <3>1
    <3>4. QED
      BY <3>1, <3>2, <3>3
  <2>2. CASE k = n
    BY <1>2, <1>3, <2>1, <2>2, LastDigit
  <2>3. CASE k # n
    <3>1. p + k \in p..(p + n) /\ p + k # p + n /\ (p + k) - p + 1 = k + 1 /\ k \in 1..7
      BY <2>3
    <3>2. g[p + k] = q[k + 1]
      BY <1>2, <3>1
    <3>3. g[p + k] = q[k] \div base
      BY <1>1, <3>1, <3>2
    <3>4. QED
      BY <2>1, <3>3, LastDigit
  <2>4. QED
    BY <2>2, <2>3
<1>5. QED
  BY <1>3, <1>4 DEF q, g

\* Adding up the digits of a number gives the number.
AddDigit(d, base, end, f, k) == IF k = end THEN 0 ELSE d[k] + base * f[k + 1]

LEMMA AddDigitExists ==
    ASSUME NEW d, NEW base, NEW end, NEW D, NEW f,
           f = [k \in D |-> AddDigit(d, base, end, f, k)]
    PROVE  LET from == CHOOSE g : g = [k \in D |-> AddDigit(d, base, end, g, k)]
           IN  from = [k \in D |-> AddDigit(d, base, end, from, k)]
BY Zenon

LEMMA NumberIs ==
    ASSUME NEW v \in Nat, NEW base \in Bases, NEW n \in 1..8, NEW p \in Nat, NEW d,
           Quotients(v, base)[n] < base,
           \A k \in 1..n : d[p + k - 1] = Quotients(v, base)[k] % base
    PROVE  Number(d, base, p, p + n) = v
<1> DEFINE q == Quotients(v, base)
           end == p + n
           from == CHOOSE g : g = [k \in p..end |-> AddDigit(d, base, end, g, k)]
<1>1. Number(d, base, p, end) = from[p]
  BY Zenon DEF Number, AddDigit
<1> HIDE DEF q, end
<1>2. end = p + n
  BY DEF end
<1>3. ASSUME NEW g
      PROVE  /\ AddDigit(d, base, end, g, p + n) = 0
             /\ \A k \in 1..n : AddDigit(d, base, end, g, p + k - 1) = (q[k] % base) + base * g[p + k]
  <2>1. ASSUME NEW k \in 1..n
        PROVE  AddDigit(d, base, end, g, p + k - 1) = (q[k] % base) + base * g[p + k]
    <3>1. p + k - 1 # end /\ (p + k - 1) + 1 = p + k
      BY <1>2
    <3>2. d[p + k - 1] = q[k] % base
      BY DEF q
    <3>3. AddDigit(d, base, end, g, p + k - 1) = d[p + k - 1] + base * g[(p + k - 1) + 1]
      BY <3>1, Zenon DEF AddDigit
    <3>4. QED
      BY <3>1, <3>2, <3>3, Zenon
  <2>2. QED
    BY <1>2, <2>1 DEF AddDigit
<1>4. /\ p + n \in p..end /\ \A k \in 1..n : p + k - 1 \in p..end
      /\ \A j \in p..end : j = p + n \/ \E k \in 1..n : j = p + k - 1
  <2>1. ASSUME NEW j \in p..end, j # p + n PROVE \E k \in 1..n : j = p + k - 1
    <3>1. j - p + 1 \in 1..n /\ j = p + (j - p + 1) - 1
      BY <1>2, <2>1
    <3>2. QED
      BY <3>1
  <2>2. p + n \in p..end /\ \A k \in 1..n : p + k - 1 \in p..end
    BY <1>2
  <2>3. QED
    BY <2>1, <2>2
<1>5. from = [k \in p..end |-> AddDigit(d, base, end, from, k)]
  <2> DEFINE g == Sums(v, base, n, p)
  <2>1. /\ g[p + n] = 0
        /\ \A k \in 1..n : g[p + k - 1] = (q[k] % base) + base * g[p + k]
    BY SumsAddUp, Zenon DEF q
  <2>2. g = [k \in p..end |-> g[k]]
    BY <1>2 DEF Sums
  <2> HIDE DEF g
  <2>3. \A j \in p..end : g[j] = AddDigit(d, base, end, g, j)
    <3> SUFFICES ASSUME NEW j \in p..end PROVE g[j] = AddDigit(d, base, end, g, j)
      OBVIOUS
    <3>1. CASE j = p + n
      BY <1>3, <2>1, <3>1
    <3>2. CASE \E k \in 1..n : j = p + k - 1
      <4>1. PICK k \in 1..n : j = p + k - 1
        BY <3>2
      <4>2. g[p + k - 1] = AddDigit(d, base, end, g, p + k - 1)
        BY <1>3, <2>1
      <4>3. QED
        BY <4>1, <4>2
    <3>3. QED
      BY <1>4, <3>1, <3>2
  <2>4. g = [k \in p..end |-> AddDigit(d, base, end, g, k)]
    BY <2>2, <2>3
  <2>5. QED
    BY <2>4, AddDigitExists
<1> HIDE DEF from
<1>6. \A k \in p..end : from[k] = AddDigit(d, base, end, from, k)
  BY <1>5
<1>7. /\ from[p + n] = 0
      /\ \A k \in 1..n : from[p + k - 1] = (q[k] % base) + base * from[p + k]
  <2>1. /\ AddDigit(d, base, end, from, p + n) = 0
        /\ \A k \in 1..n : AddDigit(d, base, end, from, p + k - 1) = (q[k] % base) + base * from[p + k]
    BY <1>3
  <2>2. from[p + n] = AddDigit(d, base, end, from, p + n)
    BY <1>4, <1>6
  <2>3. ASSUME NEW k \in 1..n
        PROVE  from[p + k - 1] = AddDigit(d, base, end, from, p + k - 1)
    <3>1. p + k - 1 \in p..end
      BY <1>4
    <3>2. QED
      BY <1>6, <3>1
  <2>4. QED
    BY <2>1, <2>2, <2>3
<1>8. from[p] = v
  BY <1>7, DigitsAddUp DEF q
<1>9. QED
  BY <1>1, <1>8 DEF end

-----------------------------------------------------------------------------
(* Numbers *)

\* The bytes of a LEB128 number.
IsLEB128(u, q, limit, n) ==
    /\ u \in Seq(Bytes) /\ Len(u) = n
    /\ \A k \in 1..(n - 1) : u[k] >= 128
    /\ u[n] < limit /\ u[n] < 128
    /\ q[n] < 128
    /\ \A k \in 1..n : u[k] % 128 = q[k] % 128

LEMMA LEB128Is ==
    ASSUME NEW v \in Nat, v <= INT_MAX, NEW limit \in {64, 128}
    PROVE  \E n \in 1..5 : IsLEB128(LEB128(v, limit), Quotients(v, 128), limit, n)
<1> DEFINE q == Quotients(v, 128)
           Ends(n) == q[n] < limit /\ \A k \in 1..(n - 1) : q[k] >= limit
           n == CHOOSE i \in 1..5 : Ends(i)
           u == [k \in 1..n |-> (q[k] % 128) + (IF k < n THEN 128 ELSE 0)]
<1>1. LEB128(v, limit) = u
  BY DEF LEB128
<1>2. q \in [1..8 -> Nat] /\ q[5] < 64
  BY QuotientsAre, SmallQuotients DEF Bases
<1> HIDE DEF q
<1>3. \E i \in 1..5 : Ends(i)
  <2>1. q[1] \in Nat /\ q[2] \in Nat /\ q[3] \in Nat /\ q[4] \in Nat /\ q[5] \in Nat
    BY <1>2
  <2>2. CASE q[1] < limit
    BY <2>2
  <2>3. CASE q[1] >= limit /\ q[2] < limit
    BY <2>3
  <2>4. CASE q[1] >= limit /\ q[2] >= limit /\ q[3] < limit
    BY <2>4
  <2>5. CASE q[1] >= limit /\ q[2] >= limit /\ q[3] >= limit /\ q[4] < limit
    BY <2>5
  <2>6. CASE q[1] >= limit /\ q[2] >= limit /\ q[3] >= limit /\ q[4] >= limit
    <3>1. q[5] < limit
      BY <1>2, <2>1
    <3>2. \A k \in 1..4 : q[k] >= limit
      BY <2>6
    <3>3. QED
      BY <3>1, <3>2
  <2>7. QED
    BY <2>1, <2>2, <2>3, <2>4, <2>5, <2>6
<1>4. n \in 1..5 /\ Ends(n)
  <2> HIDE DEF Ends
  <2>1. QED
    BY <1>3
<1> HIDE DEF n
<1>5. \A k \in 1..n : q[k] \in Nat
  BY <1>2, <1>4
<1>6. \A k \in 1..n : u[k] \in Bytes /\ u[k] % 128 = q[k] % 128
  <2> SUFFICES ASSUME NEW k \in 1..n PROVE u[k] \in Bytes /\ u[k] % 128 = q[k] % 128
    OBVIOUS
  <2>1. u[k] = (q[k] % 128) + (IF k < n THEN 128 ELSE 0) /\ q[k] \in Nat
    BY <1>5
  <2>2. QED
    BY <2>1 DEF Bytes
<1>7. u \in Seq(Bytes) /\ Len(u) = n
  <2>1. u \in [1..n -> Bytes] /\ n \in Nat
    BY <1>4, <1>6
  <2>2. QED
    BY <2>1
<1>8. \A k \in 1..(n - 1) : u[k] >= 128
  <2> SUFFICES ASSUME NEW k \in 1..(n - 1) PROVE u[k] >= 128
    OBVIOUS
  <2>1. k \in 1..n /\ k < n
    BY <1>4
  <2>2. u[k] = (q[k] % 128) + 128 /\ q[k] \in Nat
    BY <1>5, <2>1
  <2>3. QED
    BY <2>2
<1>9. u[n] < limit /\ u[n] < 128 /\ q[n] < 128
  <2>1. n \in 1..n /\ ~(n < n)
    BY <1>4
  <2>2. u[n] = q[n] % 128 /\ q[n] \in Nat /\ q[n] < limit
    BY <1>4, <1>5, <2>1
  <2>3. QED
    BY <2>2
<1>10. IsLEB128(u, q, limit, n)
  BY <1>4, <1>6, <1>7, <1>8, <1>9 DEF IsLEB128
<1> HIDE DEF u
<1>11. n \in 1..5 /\ IsLEB128(LEB128(v, limit), q, limit, n)
  BY <1>1, <1>4, <1>10
<1>12. QED
  BY <1>11 DEF q

\* Where a number ends, for a number of n bytes.
LEMMA LebEnd ==
    ASSUME NEW b \in Seq(Bytes), NEW p \in Nat \ {0}, NEW n \in 1..5, p + n - 1 <= Len(b),
           \A k \in 1..(n - 1) : b[p + k - 1] >= 128,
           b[p + n - 1] < 128
    PROVE  (CHOOSE k \in p..Len(b) : b[k] < 128 /\ \A j \in p..(k - 1) : b[j] >= 128) = p + n - 1
<1> DEFINE Ending(k) == b[k] < 128 /\ \A j \in p..(k - 1) : b[j] >= 128
<1>1. p + n - 1 \in p..Len(b) /\ Len(b) \in Nat
  OBVIOUS
<1>2. \A k \in p..Len(b) : b[k] \in Int
  <2>1. \A k \in p..Len(b) : k \in 1..Len(b)
    BY <1>1
  <2>2. \A k \in 1..Len(b) : b[k] \in Bytes
    OBVIOUS
  <2>3. Bytes \subseteq Int
    BY DEF Bytes
  <2>4. QED
    BY <2>1, <2>2, <2>3
<1>3. \A j \in p..(p + n - 2) : b[j] >= 128
  <2> SUFFICES ASSUME NEW j \in p..(p + n - 2) PROVE b[j] >= 128
    OBVIOUS
  <2>1. j - p + 1 \in 1..(n - 1) /\ p + (j - p + 1) - 1 = j
    OBVIOUS
  <2>2. QED
    BY <2>1
<1>4. Ending(p + n - 1)
  <2>1. (p + n - 1) - 1 = p + n - 2
    OBVIOUS
  <2>2. QED
    BY <1>3, <2>1
<1>5. ASSUME NEW k \in p..Len(b), Ending(k) PROVE k = p + n - 1
  <2>1. ~(k < p + n - 1)
    <3> SUFFICES ASSUME k < p + n - 1 PROVE FALSE
      OBVIOUS
    <3>1. k \in p..(p + n - 2)
      OBVIOUS
    <3>2. QED
      BY <1>2, <1>3, <1>5, <3>1
  <2>2. ~(k > p + n - 1)
    <3> SUFFICES ASSUME k > p + n - 1 PROVE FALSE
      OBVIOUS
    <3>1. p + n - 1 \in p..(k - 1)
      OBVIOUS
    <3>2. QED
      BY <1>1, <1>2, <1>5, <3>1
  <2>3. QED
    BY <2>1, <2>2
<1>6. (CHOOSE k \in p..Len(b) : Ending(k)) = p + n - 1
  <2> HIDE DEF Ending
  <2>1. QED
    BY <1>1, <1>4, <1>5
<1>7. QED
  BY <1>6

\* The number v is at p in n bytes.
LebAt(b, p, v, n) ==
    /\ p + n - 1 <= Len(b)
    /\ \A k \in 1..(n - 1) : b[p + k - 1] >= 128
    /\ b[p + n - 1] < 128
    /\ Quotients(v, 128)[n] < 128
    /\ \A k \in 1..n : b[p + k - 1] % 128 = Quotients(v, 128)[k] % 128

LEMMA LebNumber ==
    ASSUME NEW b \in Seq(Bytes), NEW p \in Nat \ {0}, NEW v \in Nat, NEW n \in 1..5,
           LebAt(b, p, v, n)
    PROVE  readULEB128(b, p) = [value |-> v, next |-> p + n]
<1> DEFINE last == CHOOSE k \in p..Len(b) : b[k] < 128 /\ \A j \in p..(k - 1) : b[j] >= 128
           bits == [k \in p..last |-> b[k] % 128]
<1>1. readULEB128(b, p) = [value |-> Number(bits, 128, p, last + 1), next |-> last + 1]
  BY DEF readULEB128
<1>2. last = p + n - 1
  BY LebEnd DEF LebAt
<1> HIDE DEF last
<1>3. \A k \in 1..n : bits[p + k - 1] = Quotients(v, 128)[k] % 128
  <2> SUFFICES ASSUME NEW k \in 1..n PROVE bits[p + k - 1] = Quotients(v, 128)[k] % 128
    OBVIOUS
  <2>1. p + k - 1 \in p..last
    BY <1>2
  <2>2. bits[p + k - 1] = b[p + k - 1] % 128
    BY <2>1
  <2>3. QED
    BY <2>2 DEF LebAt
<1> HIDE DEF bits
<1>4. Number(bits, 128, p, p + n) = v
  <2>1. n \in 1..8 /\ 128 \in Bases /\ p \in Nat
    BY DEF Bases
  <2>2. QED
    BY <1>3, <2>1, NumberIs DEF LebAt
<1>5. last + 1 = p + n
  BY <1>2
<1>6. QED
  BY <1>1, <1>4, <1>5

LEMMA ReadsLEB128 ==
    ASSUME NEW b \in Seq(Bytes), NEW p \in Nat \ {0}, NEW v \in Nat, v <= INT_MAX,
           NEW limit \in {64, 128}, Holds(b, p, LEB128(v, limit))
    PROVE  /\ readULEB128(b, p) = [value |-> v, next |-> p + Len(LEB128(v, limit))]
           /\ b[p + Len(LEB128(v, limit)) - 1] < limit
<1> DEFINE u == LEB128(v, limit)
           q == Quotients(v, 128)
<1>a. PICK n \in 1..5 : IsLEB128(u, q, limit, n)
  BY LEB128Is
<1>2. Holds(b, p, u)
  OBVIOUS
<1> HIDE DEF u, q
<1>1. /\ u \in Seq(Bytes) /\ Len(u) = n
      /\ \A k \in 1..(n - 1) : u[k] >= 128
      /\ u[n] < limit /\ u[n] < 128 /\ q[n] < 128
      /\ \A k \in 1..n : u[k] % 128 = q[k] % 128
  BY <1>a DEF IsLEB128
<1>3. /\ p + n - 1 <= Len(b)
      /\ \A k \in 1..n : b[p + k - 1] = u[k]
  BY <1>1, <1>2 DEF Holds
<1>4. \A k \in 1..(n - 1) : b[p + k - 1] >= 128
  <2> SUFFICES ASSUME NEW k \in 1..(n - 1) PROVE b[p + k - 1] >= 128
    OBVIOUS
  <2>1. k \in 1..n
    OBVIOUS
  <2>2. b[p + k - 1] = u[k] /\ u[k] >= 128
    BY <1>1, <1>3, <2>1
  <2>3. QED
    BY <2>2
<1>5. b[p + n - 1] = u[n]
  BY <1>3
<1>6. \A k \in 1..n : b[p + k - 1] % 128 = q[k] % 128
  BY <1>1, <1>3
<1>7. readULEB128(b, p) = [value |-> v, next |-> p + n]
  <2>1. b[p + n - 1] < 128 /\ q[n] < 128 /\ p + n - 1 <= Len(b)
    BY <1>1, <1>3, <1>5
  <2>2. LebAt(b, p, v, n)
    BY <1>4, <1>6, <2>1 DEF LebAt, q
  <2>3. QED
    BY <2>2, LebNumber
<1>8. QED
  BY <1>1, <1>5, <1>7 DEF u

Fixed == Supported \ {DW_EH_PE_uleb128, DW_EH_PE_sleb128}

LEMMA Limits ==
    ASSUME NEW e \in Supported, NEW v \in Nat, v <= Largest(e)
    PROVE  /\ v <= INT_MAX
           /\ e \in {2, 10} => v <= Largest(2)
BY SMT DEF Supported, Largest, INT_MAX

LEMMA FixedIs ==
    ASSUME NEW e \in Fixed, NEW v \in Nat, v <= Largest(e)
    PROVE  /\ Encoded(v, e) \in Seq(Bytes) /\ Len(Encoded(v, e)) = Width(e)
           /\ Width(e) \in 1..8
           /\ Quotients(v, 256)[Width(e)] < 256
           /\ \A k \in 1..Width(e) : Encoded(v, e)[k] = Quotients(v, 256)[k] % 256
<1> DEFINE q == Quotients(v, 256)
           w == Width(e)
           u == [k \in 1..w |-> q[k] % 256]
<1>1. Encoded(v, e) = u
  BY SMT DEF Encoded, Fixed, Supported, DW_EH_PE_uleb128, DW_EH_PE_sleb128
<1>2. /\ e \in {2, 10} => w = 2
      /\ e \in {3, 11} => w = 4
      /\ e \in {0, 4, 12} => w = 8
      /\ e \in {0, 2, 3, 4, 10, 11, 12}
  BY SMT DEF Width, Fixed, Supported, DW_EH_PE_uleb128, DW_EH_PE_sleb128
<1>3. w \in {2, 4, 8} /\ (w = 2 => e \in {2, 10})
  BY <1>2
<1>4. /\ q \in [1..8 -> Nat] /\ q[4] < 256 /\ q[8] = 0
      /\ e \in {2, 10} => q[2] < 256
  <2>1. e \in Supported
    BY DEF Fixed
  <2>2. v <= INT_MAX /\ (e \in {2, 10} => v <= Largest(2))
    BY <2>1, Limits
  <2>3. 256 \in Bases /\ 8 \in 5..8
    BY DEF Bases
  <2>4. q \in [1..8 -> Nat]
    BY <2>3, QuotientsAre
  <2>5. QED
    BY <2>2, <2>3, <2>4, SmallQuotients
<1> HIDE DEF q, w
<1>5. q[w] < 256 /\ w \in 1..8
  BY <1>3, <1>4
<1>6. u \in Seq(Bytes) /\ Len(u) = w
  <2>1. \A k \in 1..w : q[k] % 256 \in Bytes
    <3> SUFFICES ASSUME NEW k \in 1..w PROVE q[k] % 256 \in Bytes
      OBVIOUS
    <3>1. q[k] \in Nat
      BY <1>4, <1>5
    <3>2. QED
      BY <3>1 DEF Bytes
  <2>2. u \in [1..w -> Bytes] /\ w \in Nat
    BY <1>5, <2>1
  <2>3. QED
    BY <2>2
<1>7. \A k \in 1..w : u[k] = q[k] % 256
  OBVIOUS
<1> HIDE DEF u
<1>8. QED
  BY <1>1, <1>5, <1>6, <1>7 DEF q, w

LEMMA ReadsFixed ==
    ASSUME NEW b \in Seq(Bytes), NEW p \in Nat \ {0}, NEW e \in Fixed, NEW v \in Nat,
           v <= Largest(e), Holds(b, p, Encoded(v, e))
    PROVE  readEncodedPointer(b, p, e) = [value |-> v, next |-> p + Len(Encoded(v, e))]
<1> DEFINE w == Width(e)
<1>1. /\ Len(Encoded(v, e)) = w /\ w \in 1..8
      /\ Quotients(v, 256)[w] < 256
      /\ \A k \in 1..w : Encoded(v, e)[k] = Quotients(v, 256)[k] % 256
  BY FixedIs
<1>2. e % 16 = e /\ e # DW_EH_PE_omit /\ e # DW_EH_PE_uleb128 /\ e # DW_EH_PE_sleb128
  BY SMT DEF Fixed, Supported, DW_EH_PE_omit, DW_EH_PE_uleb128, DW_EH_PE_sleb128
<1>3. readEncodedPointer(b, p, e) = [value |-> Number(b, 256, p, p + w), next |-> p + w]
  BY <1>2, SMT DEF readEncodedPointer
<1>4. Number(b, 256, p, p + w) = v
  <2>1. \A k \in 1..w : b[p + k - 1] = Quotients(v, 256)[k] % 256
    BY <1>1 DEF Holds
  <2>2. 256 \in Bases /\ p \in Nat
    BY DEF Bases
  <2> HIDE DEF w
  <2>3. QED
    BY <1>1, <2>1, <2>2, NumberIs
<1>5. QED
  BY <1>1, <1>3, <1>4

\* Every number, written in a supported encoding, is read back.
LEMMA EncodedIs ==
    ASSUME NEW e \in Supported, NEW v \in Nat, v <= Largest(e)
    PROVE  Encoded(v, e) \in Seq(Bytes) /\ Len(Encoded(v, e)) >= 1
<1>1. CASE e = DW_EH_PE_uleb128 \/ e = DW_EH_PE_sleb128
  <2>1. Encoded(v, e) = LEB128(v, 128) \/ Encoded(v, e) = LEB128(v, 64)
    BY <1>1 DEF Encoded, ULEB128, SLEB128
  <2>2. QED
    BY <2>1, Limits, LEB128Is DEF IsLEB128
<1>2. CASE e \in Fixed
  BY <1>2, FixedIs
<1>3. QED
  BY <1>1, <1>2 DEF Fixed

LEMMA ReadsEncoded ==
    ASSUME NEW b \in Seq(Bytes), NEW p \in Nat \ {0}, NEW e \in Supported, NEW v \in Nat,
           v <= Largest(e), Holds(b, p, Encoded(v, e))
    PROVE  readEncodedPointer(b, p, e) = [value |-> v, next |-> p + Len(Encoded(v, e))]
<1>0. v <= INT_MAX
  BY Limits
<1>1. CASE e = DW_EH_PE_uleb128
  <2>1. Encoded(v, e) = LEB128(v, 128)
    BY <1>1 DEF Encoded, ULEB128
  <2>2. readEncodedPointer(b, p, e) = readULEB128(b, p)
    BY <1>1, SMT DEF readEncodedPointer, DW_EH_PE_uleb128, DW_EH_PE_omit
  <2>3. Holds(b, p, LEB128(v, 128)) /\ 128 \in {64, 128}
    BY <2>1
  <2>4. readULEB128(b, p) = [value |-> v, next |-> p + Len(LEB128(v, 128))]
    BY <1>0, <2>3, ReadsLEB128
  <2>5. QED
    BY <2>1, <2>2, <2>4
<1>2. CASE e = DW_EH_PE_sleb128
  <2>1. Encoded(v, e) = LEB128(v, 64)
    BY <1>2, SMT DEF Encoded, SLEB128, DW_EH_PE_uleb128, DW_EH_PE_sleb128
  <2>2. readEncodedPointer(b, p, e) = readSLEB128(b, p)
    BY <1>2, SMT DEF readEncodedPointer, DW_EH_PE_uleb128, DW_EH_PE_sleb128, DW_EH_PE_omit
  <2>3. /\ readULEB128(b, p) = [value |-> v, next |-> p + Len(LEB128(v, 64))]
        /\ b[p + Len(LEB128(v, 64)) - 1] < 64
    BY <1>0, <2>1, ReadsLEB128
  <2>4. readSLEB128(b, p) = readULEB128(b, p)
    BY <2>3 DEF readSLEB128
  <2>5. QED
    BY <2>1, <2>2, <2>3, <2>4
<1>3. CASE e \in Fixed
  BY <1>3, ReadsFixed
<1>4. QED
  BY <1>1, <1>2, <1>3 DEF Fixed

-----------------------------------------------------------------------------
(* Call sites *)

\* A call site whose numbers can be written.
SiteFits(s, e) ==
    /\ s.start \in Nat /\ s.start <= Largest(e)
    /\ s.length \in Nat /\ s.length <= Largest(e)
    /\ s.pad \in Nat /\ s.pad <= Largest(e)

\* What is read for it.
SiteRead(s, next) == [start |-> s.start, length |-> s.length, landingPad |-> s.pad, next |-> next]

LEMMA ActionIs ==
    ASSUME NEW s
    PROVE  LET x == IF s.pad = 0 THEN 0 ELSE 1
           IN  /\ x \in Nat /\ x <= INT_MAX
               /\ ULEB128(x) \in Seq(Bytes) /\ Len(ULEB128(x)) >= 1
<1> DEFINE x == IF s.pad = 0 THEN 0 ELSE 1
<1>1. x \in Nat /\ x <= INT_MAX
  BY SMT DEF INT_MAX
<1> HIDE DEF x
<1>2. ULEB128(x) \in Seq(Bytes) /\ Len(ULEB128(x)) >= 1
  BY <1>1, LEB128Is DEF ULEB128, IsLEB128
<1>3. QED
  BY <1>1, <1>2 DEF x

LEMMA SiteIs ==
    ASSUME NEW e \in Supported, NEW s, SiteFits(s, e)
    PROVE  EncodedSite(s, e) \in Seq(Bytes) /\ Len(EncodedSite(s, e)) >= 4
<1> DEFINE u1 == Encoded(s.start, e)
           u2 == Encoded(s.length, e)
           u3 == Encoded(s.pad, e)
           u4 == ULEB128(IF s.pad = 0 THEN 0 ELSE 1)
<1>1. EncodedSite(s, e) = u1 \o u2 \o u3 \o u4
  BY DEF EncodedSite
<1>2. /\ u1 \in Seq(Bytes) /\ Len(u1) >= 1
      /\ u2 \in Seq(Bytes) /\ Len(u2) >= 1
      /\ u3 \in Seq(Bytes) /\ Len(u3) >= 1
  BY EncodedIs DEF SiteFits
<1>3. u4 \in Seq(Bytes) /\ Len(u4) >= 1
  BY ActionIs
<1> HIDE DEF u1, u2, u3, u4
<1>4. u1 \o u2 \in Seq(Bytes) /\ Len(u1 \o u2) >= 2
  BY <1>2, Joined
<1>5. u1 \o u2 \o u3 \in Seq(Bytes) /\ Len(u1 \o u2 \o u3) >= 3
  BY <1>2, <1>4, Joined
<1>6. u1 \o u2 \o u3 \o u4 \in Seq(Bytes) /\ Len(u1 \o u2 \o u3 \o u4) >= 4
  BY <1>3, <1>5, Joined
<1>7. QED
  BY <1>1, <1>6

\* The call-site table is read entry by entry.
LEMMA ReadsSite ==
    ASSUME NEW b \in Seq(Bytes), NEW p \in Nat \ {0}, NEW e \in Supported, NEW s,
           SiteFits(s, e), Holds(b, p, EncodedSite(s, e))
    PROVE  CallSite(b, p, e) = SiteRead(s, p + Len(EncodedSite(s, e)))
<1> DEFINE x == IF s.pad = 0 THEN 0 ELSE 1
           u1 == Encoded(s.start, e)
           u2 == Encoded(s.length, e)
           u3 == Encoded(s.pad, e)
           u4 == ULEB128(x)
           p2 == p + Len(u1)
           p3 == p2 + Len(u2)
           p4 == p3 + Len(u3)
           p5 == p4 + Len(u4)
<1>1. EncodedSite(s, e) = u1 \o u2 \o u3 \o u4
  BY DEF EncodedSite
<1>2. /\ u1 \in Seq(Bytes) /\ Len(u1) >= 1
      /\ u2 \in Seq(Bytes) /\ Len(u2) >= 1
      /\ u3 \in Seq(Bytes) /\ Len(u3) >= 1
  BY EncodedIs DEF SiteFits
<1>3. x \in Nat /\ x <= INT_MAX /\ u4 \in Seq(Bytes) /\ Len(u4) >= 1
  BY ActionIs
<1>4. /\ Len(u1) \in Nat /\ Len(u2) \in Nat /\ Len(u3) \in Nat /\ Len(u4) \in Nat
  BY <1>2, <1>3
<1>5. /\ p2 \in Nat \ {0} /\ p3 \in Nat \ {0} /\ p4 \in Nat \ {0} /\ p5 \in Nat
  BY <1>4
<1>6. /\ Holds(b, p, u1) /\ Holds(b, p2, u2) /\ Holds(b, p3, u3) /\ Holds(b, p4, u4)
      /\ p + Len(EncodedSite(s, e)) = p5
  <2> HIDE DEF u1, u2, u3, u4
  <2>1. /\ u1 \o u2 \in Seq(Bytes) /\ Len(u1 \o u2) = Len(u1) + Len(u2)
        /\ u1 \o u2 \o u3 \in Seq(Bytes) /\ Len(u1 \o u2 \o u3) = Len(u1) + Len(u2) + Len(u3)
        /\ Len(u1 \o u2 \o u3 \o u4) = Len(u1) + Len(u2) + Len(u3) + Len(u4)
    BY <1>2, <1>3, Joined
  <2>2. Holds(b, p, u1 \o u2 \o u3 \o u4) /\ p \in Nat
    BY <1>1
  <2>3. Holds(b, p, u1 \o u2 \o u3) /\ Holds(b, p + Len(u1 \o u2 \o u3), u4)
    BY <1>3, <2>1, <2>2, HoldsBoth
  <2>4. Holds(b, p, u1 \o u2) /\ Holds(b, p + Len(u1 \o u2), u3)
    BY <1>2, <2>1, <2>2, <2>3, HoldsBoth
  <2>5. Holds(b, p, u1) /\ Holds(b, p + Len(u1), u2)
    BY <1>2, <2>2, <2>4, HoldsBoth
  <2>6. /\ p + Len(u1 \o u2) = p3 /\ p + Len(u1 \o u2 \o u3) = p4
        /\ p + Len(u1 \o u2 \o u3 \o u4) = p5
    BY <1>4, <2>1
  <2>7. QED
    BY <1>1, <2>3, <2>4, <2>5, <2>6
<1>7. readEncodedPointer(b, p, e) = [value |-> s.start, next |-> p2]
  BY <1>6, ReadsEncoded DEF SiteFits
<1>8. readEncodedPointer(b, p2, e) = [value |-> s.length, next |-> p3]
  <2> HIDE DEF p2
  <2>1. s.length \in Nat /\ s.length <= Largest(e)
    BY DEF SiteFits
  <2>2. p2 \in Nat \ {0} /\ Holds(b, p2, Encoded(s.length, e))
    BY <1>5, <1>6
  <2>3. QED
    BY <2>1, <2>2, ReadsEncoded, Zenon
<1>9. readEncodedPointer(b, p3, e) = [value |-> s.pad, next |-> p4]
  <2> HIDE DEF p3
  <2>1. s.pad \in Nat /\ s.pad <= Largest(e)
    BY DEF SiteFits
  <2>2. p3 \in Nat \ {0} /\ Holds(b, p3, Encoded(s.pad, e))
    BY <1>5, <1>6
  <2>3. QED
    BY <2>1, <2>2, ReadsEncoded, Zenon
<1>10. readULEB128(b, p4) = [value |-> x, next |-> p5]
  <2>1. Holds(b, p4, LEB128(x, 128)) /\ 128 \in {64, 128} /\ u4 = LEB128(x, 128)
    BY <1>6 DEF ULEB128
  <2> HIDE DEF p4, x
  <2>2. readULEB128(b, p4) = [value |-> x, next |-> p4 + Len(LEB128(x, 128))]
    BY <1>3, <1>5, <2>1, ReadsLEB128
  <2>3. QED
    BY <2>1, <2>2
<1>11. QED
  <2> HIDE DEF p2, p3, p4, p5, x
  <2>1. CallSite(b, p, e) = [start |-> s.start, length |-> s.length,
                             landingPad |-> s.pad, next |-> p5]
    BY <1>7, <1>8, <1>9, <1>10 DEF CallSite
  <2>2. QED
    BY <1>6, <2>1 DEF SiteRead

-----------------------------------------------------------------------------
(* Sequences joined *)

Extended(seqs, f, i) == IF i = 1 THEN seqs[i] ELSE f[i - 1] \o seqs[i]
IsFlatten(seqs, n, f) == f = [i \in 1..n |-> Extended(seqs, f, i)]

LEMMA FlattenLonger ==
    ASSUME NEW seqs, NEW n \in Nat, NEW f, IsFlatten(seqs, n, f)
    PROVE  \E g : IsFlatten(seqs, n + 1, g)
<1> DEFINE g == [i \in 1..(n + 1) |-> IF i = n + 1 THEN Extended(seqs, f, i) ELSE f[i]]
<1>1. f = [i \in 1..n |-> Extended(seqs, f, i)]
  BY DEF IsFlatten
<1>2. \A i \in 1..(n + 1) : g[i] = Extended(seqs, g, i)
  <2> SUFFICES ASSUME NEW i \in 1..(n + 1) PROVE g[i] = Extended(seqs, g, i)
    OBVIOUS
  <2>1. g[i] = Extended(seqs, f, i)
    <3>1. CASE i = n + 1
      BY <3>1
    <3>2. CASE i # n + 1
      <4>1. i \in 1..n
        BY <3>2
      <4>2. f[i] = Extended(seqs, f, i)
        BY <1>1, <4>1
      <4>3. QED
        BY <3>2, <4>2
    <3>3. QED
      BY <3>1, <3>2
  <2>2. i # 1 => g[i - 1] = f[i - 1]
    <3>1. i # 1 => i - 1 \in 1..(n + 1) /\ i - 1 # n + 1
      OBVIOUS
    <3>2. QED
      BY <3>1
  <2> HIDE DEF g
  <2>3. Extended(seqs, g, i) = Extended(seqs, f, i)
    BY <2>2 DEF Extended
  <2>4. QED
    BY <2>1, <2>3
<1>3. g = [i \in 1..(n + 1) |-> g[i]]
  OBVIOUS
<1> HIDE DEF g
<1>4. g = [i \in 1..(n + 1) |-> Extended(seqs, g, i)]
  BY <1>2, <1>3
<1>5. QED
  BY <1>4 DEF IsFlatten

LEMMA FlattenExists == ASSUME NEW seqs PROVE \A n \in Nat : \E f : IsFlatten(seqs, n, f)
<1> DEFINE S == {n \in Nat : \E f : IsFlatten(seqs, n, f)}
<1>1. 0 \in S
  <2> DEFINE none == [i \in 1..0 |-> 0]
  <2>1. none = [i \in 1..0 |-> Extended(seqs, none, i)]
    OBVIOUS
  <2> HIDE DEF none
  <2>2. QED
    BY <2>1 DEF IsFlatten
<1>2. \A n \in Nat : n \in S => n + 1 \in S
  BY FlattenLonger
<1> HIDE DEF S
<1>3. \A n \in Nat : n \in S
  BY <1>1, <1>2, Upward
<1>4. QED
  BY <1>3 DEF S

LEMMA FlattenIs ==
    ASSUME NEW seqs, Len(seqs) \in Nat \ {0}
    PROVE  \E f : IsFlatten(seqs, Len(seqs), f) /\ FlattenSeq(seqs) = f[Len(seqs)]
<1> DEFINE n == Len(seqs)
           chosen == CHOOSE f : f = [i \in 1..n |-> Extended(seqs, f, i)]
<1>1. FlattenSeq(seqs) = chosen[n]
  <2>1. n # 0
    OBVIOUS
  <2>2. QED
    BY <2>1, Zenon DEF FlattenSeq, Extended
<1>2. \E f : f = [i \in 1..n |-> Extended(seqs, f, i)]
  BY FlattenExists DEF IsFlatten
<1>3. chosen = [i \in 1..n |-> Extended(seqs, chosen, i)]
  BY <1>2, Zenon
<1> HIDE DEF chosen
<1>4. QED
  BY <1>1, <1>3 DEF IsFlatten

LEMMA HoldsItself == ASSUME NEW u \in Seq(Bytes) PROVE Holds(u, 1, u)
<1>1. \A k \in 1..Len(u) : 1 + k - 1 = k
  OBVIOUS
<1>2. QED
  BY <1>1 DEF Holds

LEMMA HoldsWithin ==
    ASSUME NEW b \in Seq(Bytes), NEW p \in Nat \ {0}, NEW t \in Seq(Bytes), Holds(b, p, t),
           NEW a \in Nat, NEW u \in Seq(Bytes), Holds(t, a + 1, u)
    PROVE  Holds(b, p + a, u)
<1>1. Len(b) \in Nat /\ Len(t) \in Nat /\ Len(u) \in Nat
  OBVIOUS
<1>2. p + a + Len(u) - 1 <= Len(b)
  BY <1>1 DEF Holds
<1>3. ASSUME NEW k \in 1..Len(u) PROVE b[p + a + k - 1] = u[k]
  <2>1. a + 1 + k - 1 = a + k /\ a + k \in 1..Len(t) /\ p + (a + k) - 1 = p + a + k - 1
    BY <1>1 DEF Holds
  <2>2. t[a + k] = u[k]
    BY <2>1 DEF Holds
  <2>3. b[p + (a + k) - 1] = t[a + k]
    BY <2>1 DEF Holds
  <2>4. QED
    BY <2>1, <2>2, <2>3
<1>4. QED
  BY <1>2, <1>3 DEF Holds

\* Where each of the sequences stands in the one they are joined to.
LEMMA FlattenHolds ==
    ASSUME NEW seqs \in Seq(Seq(Bytes)), seqs # <<>>
    PROVE  /\ FlattenSeq(seqs) \in Seq(Bytes)
           /\ \E at \in [0..Len(seqs) -> Nat] :
                 /\ at[0] = 0 /\ at[Len(seqs)] = Len(FlattenSeq(seqs))
                 /\ \A k \in 1..Len(seqs) :
                       /\ at[k] = at[k - 1] + Len(seqs[k])
                       /\ Holds(FlattenSeq(seqs), at[k - 1] + 1, seqs[k])
<1> DEFINE n == Len(seqs)
           t == FlattenSeq(seqs)
<1>1. n \in Nat \ {0} /\ \A k \in 1..n : seqs[k] \in Seq(Bytes)
  OBVIOUS
<1>2. PICK f : IsFlatten(seqs, n, f) /\ t = f[n]
  BY <1>1, FlattenIs
<1> HIDE DEF n, t
<1>3. \A i \in 1..n : f[i] = IF i = 1 THEN seqs[i] ELSE f[i - 1] \o seqs[i]
  BY <1>2 DEF IsFlatten, Extended
<1>4. /\ f[1] = seqs[1]
      /\ \A i \in 1..(n - 1) : f[i + 1] = f[i] \o seqs[i + 1]
  <2>1. ASSUME NEW i \in 1..(n - 1) PROVE f[i + 1] = f[i] \o seqs[i + 1]
    <3>1. i + 1 \in 1..n /\ i + 1 # 1 /\ (i + 1) - 1 = i
      BY <1>1
    <3>2. QED
      BY <1>3, <3>1
  <2>2. 1 \in 1..n
    BY <1>1
  <2>3. f[1] = seqs[1]
    BY <1>3, <2>2
  <2>4. QED
    BY <2>1, <2>3
<1>5. \A i \in 1..n : f[i] \in Seq(Bytes)
  <2> DEFINE S == {i \in Nat : i \in 1..n => f[i] \in Seq(Bytes)}
  <2>1. 0 \in S
    OBVIOUS
  <2>2. \A i \in Nat : i \in S => i + 1 \in S
    <3> SUFFICES ASSUME NEW i \in S, i + 1 \in 1..n PROVE f[i + 1] \in Seq(Bytes)
      OBVIOUS
    <3>1. CASE i = 0
      BY <1>1, <1>4, <3>1
    <3>2. CASE i # 0
      <4>1. i \in 1..(n - 1) /\ i \in 1..n
        BY <1>1, <3>2
      <4>2. f[i] \in Seq(Bytes) /\ seqs[i + 1] \in Seq(Bytes)
        BY <1>1, <4>1
      <4>3. QED
        BY <1>4, <4>1, <4>2, Joined
    <3>3. QED
      BY <3>1, <3>2
  <2> HIDE DEF S
  <2>3. \A i \in Nat : i \in S
    BY <2>1, <2>2, Upward
  <2>4. QED
    BY <2>3 DEF S
<1>6. t \in Seq(Bytes)
  BY <1>1, <1>2, <1>5
<1>7. \A i \in 1..n : Holds(t, 1, f[i])
  <2> DEFINE S == {i \in 1..n : Holds(t, 1, f[i])}
  <2>1. n \in S
    BY <1>1, <1>2, <1>6, HoldsItself
  <2>2. \A k \in 1..(n - 1) : k + 1 \in S => k \in S
    <3> SUFFICES ASSUME NEW k \in 1..(n - 1), k + 1 \in S PROVE k \in S
      OBVIOUS
    <3>1. k \in 1..n /\ k + 1 \in 1..n
      BY <1>1
    <3>2. Holds(t, 1, f[k] \o seqs[k + 1]) /\ f[k] \in Seq(Bytes) /\ seqs[k + 1] \in Seq(Bytes)
      BY <1>1, <1>4, <1>5, <3>1
    <3>3. Holds(t, 1, f[k])
      BY <1>6, <3>2, HoldsBoth
    <3>4. QED
      BY <3>1, <3>3
  <2> HIDE DEF S
  <2>3. \A k \in 1..n : k \in S
    BY <1>1, <2>1, <2>2, Downward
  <2>4. QED
    BY <2>3 DEF S
<1> DEFINE at == [i \in 0..n |-> IF i = 0 THEN 0 ELSE Len(f[i])]
<1>8. at \in [0..n -> Nat] /\ at[0] = 0 /\ at[n] = Len(t)
  <2>1. \A i \in 0..n : i # 0 => Len(f[i]) \in Nat
    <3>1. \A i \in 0..n : i # 0 => i \in 1..n
      BY <1>1
    <3>2. QED
      BY <1>5, <3>1
  <2>2. 0 \in 0..n /\ n \in 0..n
    BY <1>1
  <2>3. QED
    BY <1>1, <1>2, <2>1, <2>2
<1>9. ASSUME NEW k \in 1..n
      PROVE  at[k] = at[k - 1] + Len(seqs[k]) /\ Holds(t, at[k - 1] + 1, seqs[k])
  <2>1. k \in 0..n /\ k - 1 \in 0..n /\ at[k] = Len(f[k])
    BY <1>1
  <2>2. CASE k = 1
    <3>1. f[k] = seqs[k] /\ at[k - 1] = 0 /\ 0 + 1 = 1 /\ Len(seqs[k]) \in Nat
      BY <1>1, <1>4, <1>8, <2>2
    <3>2. Holds(t, 1, seqs[k]) /\ at[k - 1] + 1 = 1
      BY <1>7, <3>1
    <3>3. at[k] = Len(seqs[k])
      BY <2>1, <3>1, Zenon
    <3> HIDE DEF at
    <3>4. at[k] = at[k - 1] + Len(seqs[k])
      BY <3>1, <3>3
    <3>5. QED
      BY <3>2, <3>4
  <2>3. CASE k # 1
    <3>1. k - 1 \in 1..(n - 1) /\ (k - 1) + 1 = k /\ k - 1 \in 1..n /\ at[k - 1] = Len(f[k - 1])
      BY <1>1, <2>1, <2>3
    <3>2. f[k] = f[k - 1] \o seqs[k]
      BY <1>4, <3>1
    <3>3. f[k - 1] \in Seq(Bytes) /\ seqs[k] \in Seq(Bytes)
      BY <1>1, <1>5, <3>1
    <3>4. Holds(t, 1 + Len(f[k - 1]), seqs[k])
      BY <1>6, <1>7, <3>2, <3>3, HoldsBoth
    <3>5. Len(f[k]) = Len(f[k - 1]) + Len(seqs[k]) /\ 1 + Len(f[k - 1]) = Len(f[k - 1]) + 1
      BY <3>2, <3>3, Joined
    <3>6. QED
      BY <2>1, <3>1, <3>4, <3>5
  <2>4. QED
    BY <2>2, <2>3
<1> HIDE DEF at
<1>10. QED
  BY <1>6, <1>8, <1>9 DEF n, t

-----------------------------------------------------------------------------
(* The data area *)

\* The numbers of the sites and the length of their table can be written.
SitesFit(sites, e) ==
    /\ \A k \in DOMAIN sites : SiteFits(sites[k], e)
    /\ Len(CallSiteTable(sites, e)) <= INT_MAX - 8

LEMMA TableIs ==
    ASSUME NEW T, NEW sites \in Seq(T), sites # <<>>, NEW e \in Supported, SitesFit(sites, e)
    PROVE  /\ CallSiteTable(sites, e) \in Seq(Bytes)
           /\ \E at \in [0..Len(sites) -> Nat] :
                 /\ at[0] = 0 /\ at[Len(sites)] = Len(CallSiteTable(sites, e))
                 /\ \A k \in 1..Len(sites) :
                       /\ at[k] = at[k - 1] + Len(EncodedSite(sites[k], e))
                       /\ Holds(CallSiteTable(sites, e), at[k - 1] + 1, EncodedSite(sites[k], e))
<1> DEFINE seqs == [k \in DOMAIN sites |-> EncodedSite(sites[k], e)]
           n == Len(sites)
<1>1. n \in Nat \ {0} /\ DOMAIN sites = 1..n
  OBVIOUS
<1>2. \A k \in 1..n : EncodedSite(sites[k], e) \in Seq(Bytes)
  BY <1>1, SiteIs DEF SitesFit
<1> HIDE DEF n
<1>3. seqs \in Seq(Seq(Bytes)) /\ Len(seqs) = n /\ seqs # <<>>
  <2>1. seqs \in [1..n -> Seq(Bytes)]
    BY <1>1, <1>2
  <2>2. seqs \in Seq(Seq(Bytes)) /\ Len(seqs) = n
    BY <1>1, <2>1
  <2>3. QED
    BY <1>1, <2>2
<1>4. \A k \in 1..n : seqs[k] = EncodedSite(sites[k], e)
  BY <1>1
<1>5. CallSiteTable(sites, e) = FlattenSeq(seqs)
  BY DEF CallSiteTable
<1> HIDE DEF seqs
<1>6. /\ FlattenSeq(seqs) \in Seq(Bytes)
      /\ \E at \in [0..n -> Nat] :
            /\ at[0] = 0 /\ at[n] = Len(FlattenSeq(seqs))
            /\ \A k \in 1..n :
                  /\ at[k] = at[k - 1] + Len(seqs[k])
                  /\ Holds(FlattenSeq(seqs), at[k - 1] + 1, seqs[k])
  BY <1>3, FlattenHolds
<1>7. PICK at \in [0..n -> Nat] :
            /\ at[0] = 0 /\ at[n] = Len(FlattenSeq(seqs))
            /\ \A k \in 1..n :
                  /\ at[k] = at[k - 1] + Len(seqs[k])
                  /\ Holds(FlattenSeq(seqs), at[k - 1] + 1, seqs[k])
  BY <1>6
<1>8. \A k \in 1..n :
         /\ at[k] = at[k - 1] + Len(EncodedSite(sites[k], e))
         /\ Holds(CallSiteTable(sites, e), at[k - 1] + 1, EncodedSite(sites[k], e))
  BY <1>4, <1>5, <1>7, Zenon
<1>9. QED
  BY <1>5, <1>6, <1>7, <1>8, Zenon DEF n

LEMMA ULEB128Is ==
    ASSUME NEW v \in Nat, v <= INT_MAX
    PROVE  /\ ULEB128(v) \in Seq(Bytes) /\ Len(ULEB128(v)) \in 1..5
           /\ \A b \in Seq(Bytes), p \in Nat \ {0} :
                 Holds(b, p, ULEB128(v)) =>
                    readULEB128(b, p) = [value |-> v, next |-> p + Len(ULEB128(v))]
<1>1. ULEB128(v) = LEB128(v, 128) /\ 128 \in {64, 128}
  BY DEF ULEB128
<1>2. LEB128(v, 128) \in Seq(Bytes) /\ Len(LEB128(v, 128)) \in 1..5
  BY <1>1, LEB128Is DEF IsLEB128
<1>3. ASSUME NEW b \in Seq(Bytes), NEW p \in Nat \ {0}, Holds(b, p, LEB128(v, 128))
      PROVE  readULEB128(b, p) = [value |-> v, next |-> p + Len(LEB128(v, 128))]
  BY <1>1, <1>3, ReadsLEB128
<1>4. QED
  BY <1>1, <1>2, <1>3

\* The header is read: the table starts at some place and ends where it ends.
LEMMA ReadsHeader ==
    ASSUME NEW sites, sites # <<>>, NEW e \in Supported,
           CallSiteTable(sites, e) \in Seq(Bytes),
           Len(CallSiteTable(sites, e)) <= INT_MAX - 8
    PROVE  /\ Emit(sites, e) \in Seq(Bytes)
           /\ \E start \in Nat \ {0} :
                 /\ Header(Emit(sites, e)) =
                       [encoding |-> e, start |-> start,
                        end |-> start + Len(CallSiteTable(sites, e))]
                 /\ Holds(Emit(sites, e), start, CallSiteTable(sites, e))
<1> DEFINE t == CallSiteTable(sites, e)
           h == <<DW_EH_PE_omit, DW_EH_PE_absptr>>
           u2 == ULEB128(Len(t))
           rest == <<e>> \o u2 \o t \o <<1, 0>>
           u1 == ULEB128(Len(rest))
           b == Emit(sites, e)
<1>1. b = h \o u1 \o rest
  BY DEF Emit
<1>2. t \in Seq(Bytes) /\ Len(t) \in Nat /\ Len(t) <= INT_MAX - 8
  OBVIOUS
<1>3. h \in Seq(Bytes) /\ Len(h) = 2 /\ h[1] = 255 /\ h[2] = 0
  BY SMT DEF DW_EH_PE_omit, DW_EH_PE_absptr, Bytes
<1>4. <<e>> \in Seq(Bytes) /\ Len(<<e>>) = 1 /\ <<e>>[1] = e /\ e \in Bytes
  BY SMT DEF Supported, Bytes
<1>5. <<1, 0>> \in Seq(Bytes) /\ Len(<<1, 0>>) = 2
  BY SMT DEF Bytes
<1> DEFINE ends == <<1, 0>>
           one == <<e>>
<1>6. INT_MAX \in Nat
  BY SMT DEF INT_MAX
<1> HIDE DEF t
<1>7. /\ u2 \in Seq(Bytes) /\ Len(u2) \in 1..5
      /\ \A c \in Seq(Bytes), p \in Nat \ {0} :
            Holds(c, p, u2) => readULEB128(c, p) = [value |-> Len(t), next |-> p + Len(u2)]
  <2>1. Len(t) <= INT_MAX
    BY <1>2, <1>6
  <2>2. QED
    BY <1>2, <2>1, ULEB128Is
<1> HIDE DEF h, u2, ends, one
<1>8. /\ one \o u2 \in Seq(Bytes) /\ Len(one \o u2) = 1 + Len(u2)
      /\ one \o u2 \o t \in Seq(Bytes) /\ Len(one \o u2 \o t) = 1 + Len(u2) + Len(t)
      /\ rest \in Seq(Bytes) /\ Len(rest) = 1 + Len(u2) + Len(t) + 2
      /\ rest = one \o u2 \o t \o ends
  <2>1. one \in Seq(Bytes) /\ Len(one) = 1 /\ ends \in Seq(Bytes) /\ Len(ends) = 2
    BY <1>4, <1>5 DEF one, ends
  <2>2. one \o u2 \in Seq(Bytes) /\ Len(one \o u2) = 1 + Len(u2)
    <3>1. one \o u2 \in Seq(Bytes) /\ Len(one \o u2) = Len(one) + Len(u2)
      BY <1>7, <2>1, Joined
    <3>2. QED
      BY <2>1, <3>1
  <2>3. one \o u2 \o t \in Seq(Bytes) /\ Len(one \o u2 \o t) = 1 + Len(u2) + Len(t)
    BY <1>2, <2>2, Joined
  <2>4. rest = one \o u2 \o t \o ends
    BY DEF one, ends
  <2> HIDE DEF rest
  <2>5. rest \in Seq(Bytes) /\ Len(rest) = Len(one \o u2 \o t) + Len(ends)
    BY <2>1, <2>3, <2>4, Joined
  <2>6. QED
    BY <2>1, <2>2, <2>3, <2>4, <2>5
<1> HIDE DEF rest
<1>9. /\ u1 \in Seq(Bytes) /\ Len(u1) \in 1..5
      /\ \A c \in Seq(Bytes), p \in Nat \ {0} :
            Holds(c, p, u1) => readULEB128(c, p) = [value |-> Len(rest), next |-> p + Len(u1)]
  <2>1. Len(rest) \in Nat /\ Len(rest) <= INT_MAX
    <3>1. Len(u2) \in 1..5
      BY <1>7, Zenon
    <3>2. Len(rest) = 1 + Len(u2) + Len(t) + 2
      BY <1>8
    <3>3. \A x \in 1..5, y \in Nat, z \in Nat :
             y <= z - 8 => 1 + x + y + 2 \in Nat /\ 1 + x + y + 2 <= z
      OBVIOUS
    <3>4. QED
      BY <1>2, <1>6, <3>1, <3>2, <3>3, Zenon
  <2>2. QED
    BY <2>1, ULEB128Is
<1> HIDE DEF u1, b
<1>10. /\ h \o u1 \in Seq(Bytes) /\ Len(h \o u1) = 2 + Len(u1) /\ b \in Seq(Bytes)
  <2>1. h \o u1 \in Seq(Bytes) /\ Len(h \o u1) = Len(h) + Len(u1)
    <3>1. h \in Seq(Bytes) /\ u1 \in Seq(Bytes)
      BY <1>3, <1>9, Zenon
    <3>2. QED
      BY <3>1, Joined
  <2>2. b \in Seq(Bytes)
    BY <1>1, <1>8, <2>1, Joined
  <2>3. QED
    BY <1>3, <2>1, <2>2
<1> DEFINE p1 == 3 + Len(u1)
           p2 == p1 + 1
           start == p2 + Len(u2)
<1>11. p1 \in Nat \ {0} /\ p2 \in Nat \ {0} /\ start \in Nat \ {0} /\ 1 \in Nat
  BY <1>7, <1>9
<1>12. /\ Holds(b, 1, h) /\ Holds(b, 3, u1) /\ Holds(b, p1, one)
       /\ Holds(b, p2, u2) /\ Holds(b, start, t)
  <2>1. Holds(b, 1, h \o u1 \o rest)
    BY <1>1, <1>10, HoldsItself
  <2>2. Holds(b, 1, h \o u1) /\ Holds(b, 1 + Len(h \o u1), rest)
    BY <1>8, <1>10, <1>11, <2>1, HoldsBoth
  <2>3. Holds(b, 1, h) /\ Holds(b, 1 + Len(h), u1)
    BY <1>3, <1>9, <1>10, <1>11, <2>2, HoldsBoth
  <2>4. 1 + Len(h) = 3 /\ 1 + Len(h \o u1) = p1
    BY <1>3, <1>9, <1>10
  <2>5. Holds(b, p1, one \o u2 \o t \o ends)
    BY <1>8, <2>2, <2>4
  <2>6. one \in Seq(Bytes) /\ Len(one) = 1 /\ ends \in Seq(Bytes) /\ p1 \in Nat
    BY <1>4, <1>5, <1>11 DEF one, ends
  <2> HIDE DEF p1
  <2>7. Holds(b, p1, one \o u2 \o t)
    BY <1>8, <1>10, <2>5, <2>6, HoldsBoth
  <2>8. Holds(b, p1, one \o u2) /\ Holds(b, p1 + Len(one \o u2), t)
    BY <1>2, <1>8, <1>10, <2>6, <2>7, HoldsBoth
  <2>9. Holds(b, p1, one) /\ Holds(b, p1 + Len(one), u2)
    BY <1>7, <1>10, <2>6, <2>8, HoldsBoth
  <2>10. p1 + Len(one) = p2 /\ p1 + Len(one \o u2) = start
    BY <1>7, <1>8, <2>6
  <2>11. QED
    BY <2>3, <2>4, <2>8, <2>9, <2>10
<1>13. b[1] = 255 /\ b[2] = 0
  <2>1. 1 \in 1..Len(h) /\ 2 \in 1..Len(h) /\ 1 + 1 - 1 = 1 /\ 1 + 2 - 1 = 2
    BY <1>3
  <2>2. b[1 + 1 - 1] = h[1] /\ b[1 + 2 - 1] = h[2]
    BY <1>12, <2>1, Zenon DEF Holds
  <2>3. QED
    BY <1>3, <2>1, <2>2
<1>14. b[p1] = e
  <2>1. one[1] = e /\ 1 \in 1..Len(one) /\ p1 + 1 - 1 = p1
    BY <1>4, <1>11 DEF one
  <2> HIDE DEF p1
  <2>2. b[p1 + 1 - 1] = one[1]
    BY <1>12, <2>1, Zenon DEF Holds
  <2>3. QED
    BY <2>1, <2>2
<1>15. readULEB128(b, 3) = [value |-> Len(rest), next |-> p1]
  <2>1. 3 \in Nat \ {0}
    OBVIOUS
  <2>2. QED
    BY <1>9, <1>10, <1>12, <2>1
<1>16. readULEB128(b, p2) = [value |-> Len(t), next |-> start]
  <2> HIDE DEF p2
  <2>1. QED
    BY <1>7, <1>10, <1>11, <1>12
<1>17. Header(b) = [encoding |-> e, start |-> start, end |-> start + Len(t)]
  <2>1. b[1] = DW_EH_PE_omit /\ b[2] # DW_EH_PE_omit
    BY <1>13, SMT DEF DW_EH_PE_omit
  <2>2. readULEB128(b, 2 + 1).next = p1
    <3>1. 2 + 1 = 3
      OBVIOUS
    <3> HIDE DEF p1
    <3>2. QED
      BY <1>15, <3>1
  <2>3. readULEB128(b, p1 + 1) = [value |-> Len(t), next |-> start]
    BY <1>16
  <2> HIDE DEF p1, start
  <2>4. QED
    BY <1>14, <2>1, <2>2, <2>3 DEF Header
<1> HIDE DEF start
<1>18. QED
  BY <1>10, <1>11, <1>12, <1>17 DEF t, b

-----------------------------------------------------------------------------
(* The walk over the call sites *)

Walked(b, header, pcOffset, f, k) ==
    IF k = 0 THEN [next |-> header.start, pad |-> 0] ELSE Turn(b, header, pcOffset, f[k - 1])
IsWalk(b, header, pcOffset, n, f) == f = [k \in 0..n |-> Walked(b, header, pcOffset, f, k)]

LEMMA WalkLonger ==
    ASSUME NEW b, NEW header, NEW pcOffset, NEW n \in Nat, NEW f, IsWalk(b, header, pcOffset, n, f)
    PROVE  \E g : IsWalk(b, header, pcOffset, n + 1, g)
<1> DEFINE W(g, k) == Walked(b, header, pcOffset, g, k)
           g == [k \in 0..(n + 1) |-> IF k = n + 1 THEN W(f, k) ELSE f[k]]
<1>1. f = [k \in 0..n |-> W(f, k)]
  BY DEF IsWalk
<1>2. \A k \in 0..(n + 1) : g[k] = W(g, k)
  <2> SUFFICES ASSUME NEW k \in 0..(n + 1) PROVE g[k] = W(g, k)
    OBVIOUS
  <2>1. g[k] = W(f, k)
    <3> HIDE DEF W
    <3>1. CASE k = n + 1
      BY <3>1
    <3>2. CASE k # n + 1
      <4>1. k \in 0..n
        BY <3>2
      <4>2. f[k] = W(f, k)
        BY <1>1, <4>1
      <4>3. QED
        BY <3>2, <4>2
    <3>3. QED
      BY <3>1, <3>2
  <2>2. k # 0 => g[k - 1] = f[k - 1]
    <3>1. k # 0 => k - 1 \in 0..(n + 1) /\ k - 1 # n + 1
      OBVIOUS
    <3> HIDE DEF W
    <3>2. QED
      BY <3>1
  <2> HIDE DEF g
  <2>3. W(g, k) = W(f, k)
    BY <2>2, Zenon DEF Walked
  <2>4. QED
    BY <2>1, <2>3
<1>3. g = [k \in 0..(n + 1) |-> g[k]]
  OBVIOUS
<1> HIDE DEF g
<1>4. g = [k \in 0..(n + 1) |-> W(g, k)]
  BY <1>2, <1>3, Zenon
<1>5. QED
  BY <1>4 DEF IsWalk

LEMMA WalkExists ==
    ASSUME NEW b, NEW header, NEW pcOffset
    PROVE  \A n \in Nat : \E f : IsWalk(b, header, pcOffset, n, f)
<1> DEFINE S == {n \in Nat : \E f : IsWalk(b, header, pcOffset, n, f)}
<1>1. 0 \in S
  <2> DEFINE one == [k \in 0..0 |-> [next |-> header.start, pad |-> 0]]
  <2>1. \A k \in 0..0 : [next |-> header.start, pad |-> 0] = Walked(b, header, pcOffset, one, k)
    BY DEF Walked
  <2>2. one = [k \in 0..0 |-> Walked(b, header, pcOffset, one, k)]
    <3> HIDE DEF one
    <3>1. \A k \in 0..0 : one[k] = [next |-> header.start, pad |-> 0]
      BY DEF one
    <3>2. one = [k \in 0..0 |-> one[k]]
      BY DEF one
    <3>3. QED
      BY <2>1, <3>1, <3>2, Zenon
  <2> HIDE DEF one
  <2>3. QED
    BY <2>2 DEF IsWalk
<1>2. \A n \in Nat : n \in S => n + 1 \in S
  BY WalkLonger
<1> HIDE DEF S
<1>3. \A n \in Nat : n \in S
  BY <1>1, <1>2, Upward
<1>4. QED
  BY <1>3 DEF S

LEMMA WalkIs ==
    ASSUME NEW b, Len(b) \in Nat, NEW pcOffset
    PROVE  \E f : /\ IsWalk(b, Header(b), pcOffset, Len(b) \div 4, f)
                  /\ LandingPad(b, pcOffset) = f[Len(b) \div 4].pad
<1> DEFINE turns == Len(b) \div 4
           h == Header(b)
           chosen == CHOOSE f : f = [k \in 0..turns |-> Walked(b, h, pcOffset, f, k)]
<1>1. turns \in Nat
  OBVIOUS
<1>2. LandingPad(b, pcOffset) = chosen[turns].pad
  <2> HIDE DEF h
  <2>1. LandingPad(b, pcOffset) =
           (LET after[k \in 0..turns] == IF k = 0 THEN [next |-> h.start, pad |-> 0]
                                         ELSE Turn(b, h, pcOffset, after[k - 1])
            IN  after[turns].pad)
    BY Zenon DEF LandingPad, h
  <2>2. QED
    BY <2>1, Zenon DEF Walked
<1> HIDE DEF turns, h
<1>3. \E f : f = [k \in 0..turns |-> Walked(b, h, pcOffset, f, k)]
  BY <1>1, WalkExists DEF IsWalk
<1>4. chosen = [k \in 0..turns |-> Walked(b, h, pcOffset, chosen, k)]
  BY <1>3, Zenon
<1> HIDE DEF chosen
<1>5. QED
  BY <1>2, <1>4, Zenon DEF IsWalk, turns, h

\* The call site s has a landing pad and is about the code at an offset.
About(s, pcOffset) == s.pad # 0 /\ s.start <= pcOffset /\ pcOffset < s.start + s.length

\* x is the landing pad of the first call site, of the first n, that is about
\* the offset, or 0 when none is.
FirstAbout(sites, n, pcOffset, x) ==
    \/ x = 0 /\ \A i \in 1..n : ~About(sites[i], pcOffset)
    \/ \E i \in 1..n : /\ About(sites[i], pcOffset) /\ x = sites[i].pad
                       /\ \A j \in 1..(i - 1) : ~About(sites[j], pcOffset)

\* The entries of the call-site table, where they start and what is read there.
Laid(b, header, sites, at) ==
    /\ at \in [0..Len(sites) -> Nat] /\ at[0] = 0
    /\ header.start \in Nat /\ header.end = header.start + at[Len(sites)]
    /\ \A k \in 1..Len(sites) :
          /\ at[k - 1] < at[Len(sites)]
          /\ CallSite(b, header.start + at[k - 1], header.encoding) =
                SiteRead(sites[k], header.start + at[k])

\* What the walk has come to after k turns.
Progress(header, sites, at, pcOffset, k, r) ==
    /\ FirstAbout(sites, k, pcOffset, r.pad)
    /\ r.pad = 0 => r.next = header.start + at[k]

LEMMA WalkStep ==
    ASSUME NEW b, NEW header, NEW T, NEW sites \in Seq(T), NEW at, NEW pcOffset,
           Laid(b, header, sites, at), NEW k \in 1..Len(sites), NEW r,
           Progress(header, sites, at, pcOffset, k - 1, r)
    PROVE  Progress(header, sites, at, pcOffset, k, Turn(b, header, pcOffset, r))
<1> DEFINE s == sites[k]
           new == Turn(b, header, pcOffset, r)
<1>1. /\ k \in Nat /\ k - 1 \in Nat /\ \A i \in 1..(k - 1) : i \in 1..k
      /\ \A i \in 1..k : i = k \/ i \in 1..(k - 1)
  OBVIOUS
<1>2. CASE r.pad # 0
  <2>1. new = r
    BY <1>2 DEF Turn
  <2>2. PICK i \in 1..(k - 1) : /\ About(sites[i], pcOffset) /\ r.pad = sites[i].pad
                                /\ \A j \in 1..(i - 1) : ~About(sites[j], pcOffset)
    BY <1>2 DEF Progress, FirstAbout
  <2>3. FirstAbout(sites, k, pcOffset, r.pad)
    BY <1>1, <2>2 DEF FirstAbout
  <2>4. QED
    BY <1>2, <2>1, <2>3, Zenon DEF Progress
<1>3. CASE r.pad = 0
  <2>1. r.next = header.start + at[k - 1] /\ \A i \in 1..(k - 1) : ~About(sites[i], pcOffset)
    <3>1. r.next = header.start + at[k - 1]
      BY <1>3 DEF Progress
    <3>2. ASSUME NEW i \in 1..(k - 1), About(sites[i], pcOffset) PROVE FALSE
      <4>1. PICK j \in 1..(k - 1) : About(sites[j], pcOffset) /\ r.pad = sites[j].pad
        BY <1>3, <3>2 DEF Progress, FirstAbout
      <4>2. QED
        BY <1>3, <4>1 DEF About
    <3>3. QED
      BY <3>1, <3>2
  <2>2. ~(r.next >= header.end)
    <3>1. at[k - 1] \in Nat /\ at[Len(sites)] \in Nat /\ at[k - 1] < at[Len(sites)]
          /\ header.start \in Nat /\ header.end = header.start + at[Len(sites)]
      <4>1. k - 1 \in 0..Len(sites) /\ Len(sites) \in 0..Len(sites)
        OBVIOUS
      <4>2. QED
        BY <4>1 DEF Laid
    <3>2. QED
      BY <2>1, <3>1
  <2>3. CallSite(b, r.next, header.encoding) = SiteRead(s, header.start + at[k])
    BY <2>1 DEF Laid
  <2> DEFINE read == SiteRead(s, header.start + at[k])
  <2>4. new = [next |-> read.next, pad |-> IF Covers(read, pcOffset) THEN read.landingPad ELSE 0]
    BY <1>3, <2>2, <2>3, Zenon DEF Turn
  <2>5. read.next = header.start + at[k] /\ read.landingPad = s.pad /\ read.start = s.start
        /\ read.length = s.length
    BY DEF SiteRead
  <2>6. Covers(read, pcOffset) <=> About(s, pcOffset)
    <3> HIDE DEF read, s
    <3>1. QED
      BY <2>5, Zenon DEF Covers, About
  <2> HIDE DEF read, s, new
  <2>7. CASE About(s, pcOffset)
    <3>1. new.pad = s.pad /\ s.pad # 0
      BY <2>4, <2>5, <2>6, <2>7 DEF About
    <3>2. k \in 1..k
      OBVIOUS
    <3>3. FirstAbout(sites, k, pcOffset, new.pad)
      BY <2>1, <2>7, <3>1, <3>2 DEF FirstAbout, s
    <3>4. QED
      BY <3>1, <3>3 DEF Progress, new
  <2>8. CASE ~About(s, pcOffset)
    <3>1. new.pad = 0 /\ new.next = header.start + at[k]
      BY <2>4, <2>5, <2>6, <2>8
    <3>2. \A i \in 1..k : ~About(sites[i], pcOffset)
      BY <1>1, <2>1, <2>8 DEF s
    <3>3. QED
      BY <3>1, <3>2 DEF Progress, FirstAbout, new
  <2>9. QED
    BY <2>7, <2>8
<1>4. QED
  BY <1>2, <1>3

\* After the last call site nothing changes any more.
LEMMA WalkStays ==
    ASSUME NEW b, NEW header, NEW T, NEW sites \in Seq(T), NEW at, NEW pcOffset,
           Laid(b, header, sites, at), NEW r,
           Progress(header, sites, at, pcOffset, Len(sites), r)
    PROVE  Turn(b, header, pcOffset, r) = r
<1>1. CASE r.pad # 0
  BY <1>1 DEF Turn
<1>2. CASE r.pad = 0
  <2>1. r.next = header.start + at[Len(sites)] /\ header.end = header.start + at[Len(sites)]
    BY <1>2 DEF Progress, Laid
  <2>2. header.start \in Nat /\ at[Len(sites)] \in Nat
    <3>1. Len(sites) \in 0..Len(sites)
      OBVIOUS
    <3>2. QED
      BY <3>1 DEF Laid
  <2>3. r.next >= header.end
    BY <2>1, <2>2
  <2>4. QED
    BY <2>3 DEF Turn
<1>3. QED
  BY <1>1, <1>2

LEMMA WalkEnds ==
    ASSUME NEW b, NEW header, NEW T, NEW sites \in Seq(T), NEW at, NEW pcOffset,
           Laid(b, header, sites, at), NEW turns \in Nat, Len(sites) <= turns, NEW f,
           IsWalk(b, header, pcOffset, turns, f)
    PROVE  FirstAbout(sites, Len(sites), pcOffset, f[turns].pad)
<1> DEFINE n == Len(sites)
           P(k, r) == Progress(header, sites, at, pcOffset, k, r)
           S == {k \in Nat : /\ k <= n => P(k, f[k])
                             /\ k >= n /\ k <= turns => P(n, f[k])}
<1>1. n \in Nat
  OBVIOUS
<1>2. /\ f[0] = [next |-> header.start, pad |-> 0]
      /\ \A k \in 0..(turns - 1) : f[k + 1] = Turn(b, header, pcOffset, f[k])
  <2>1. \A k \in 0..turns : f[k] = IF k = 0 THEN [next |-> header.start, pad |-> 0]
                                   ELSE Turn(b, header, pcOffset, f[k - 1])
    BY Zenon DEF IsWalk, Walked
  <2>2. 0 \in 0..turns
    OBVIOUS
  <2>3. ASSUME NEW k \in 0..(turns - 1) PROVE f[k + 1] = Turn(b, header, pcOffset, f[k])
    <3>1. k + 1 \in 0..turns /\ k + 1 # 0 /\ (k + 1) - 1 = k
      OBVIOUS
    <3>2. f[k + 1] = Turn(b, header, pcOffset, f[(k + 1) - 1])
      BY <2>1, <3>1, Zenon
    <3>3. QED
      BY <3>1, <3>2
  <2>4. QED
    BY <2>1, <2>2, <2>3, Zenon
<1> HIDE DEF n
<1>3. 0 \in S
  <2>1. P(0, f[0])
    <3>1. f[0].pad = 0 /\ f[0].next = header.start
      BY <1>2
    <3>2. header.start + at[0] = header.start
      BY DEF Laid
    <3>3. FirstAbout(sites, 0, pcOffset, 0)
      BY DEF FirstAbout
    <3>4. QED
      BY <3>1, <3>2, <3>3, Zenon DEF Progress
  <2> HIDE DEF P
  <2>2. 0 >= n => n = 0
    BY <1>1
  <2>3. QED
    BY <2>1, <2>2
<1>4. \A k \in Nat : k \in S => k + 1 \in S
  <2> SUFFICES ASSUME NEW k \in Nat, k \in S PROVE k + 1 \in S
    OBVIOUS
  <2> HIDE DEF P
  <2>1. CASE k + 1 <= n
    <3>1. k + 1 \in 1..n /\ (k + 1) - 1 = k /\ k \in 0..(turns - 1) /\ k <= n
      BY <1>1, <2>1 DEF n
    <3>2. P(k, f[k])
      BY <3>1
    <3>3. P(k + 1, f[k + 1])
      <4>1. f[k + 1] = Turn(b, header, pcOffset, f[k])
        BY <1>2, <3>1
      <4>2. P((k + 1) - 1, f[k]) /\ k + 1 \in 1..Len(sites)
        BY <3>1, <3>2 DEF n
      <4>3. P(k + 1, Turn(b, header, pcOffset, f[k]))
        BY <4>2, WalkStep DEF P
      <4>4. QED
        BY <4>1, <4>3
    <3>4. k + 1 >= n => k + 1 = n
      BY <1>1, <2>1
    <3>5. QED
      BY <3>3, <3>4
  <2>2. CASE ~(k + 1 <= n) /\ k + 1 <= turns
    <3>1. k >= n /\ k <= turns /\ k \in 0..(turns - 1)
      BY <1>1, <2>2
    <3>2. P(n, f[k])
      BY <3>1
    <3>3. f[k + 1] = f[k]
      <4>1. f[k + 1] = Turn(b, header, pcOffset, f[k])
        BY <1>2, <3>1
      <4>2. Turn(b, header, pcOffset, f[k]) = f[k]
        BY <3>2, WalkStays DEF P, n
      <4>3. QED
        BY <4>1, <4>2
    <3>4. QED
      BY <2>2, <3>2, <3>3
  <2>3. CASE ~(k + 1 <= n) /\ ~(k + 1 <= turns)
    BY <2>3
  <2>4. QED
    BY <2>1, <2>2, <2>3
<1>5. turns \in S
  <2> HIDE DEF S
  <2>1. QED
    BY <1>3, <1>4, Upward
<1>6. P(n, f[turns])
  <2>1. n <= turns /\ turns >= n /\ turns <= turns
    BY <1>1 DEF n
  <2> HIDE DEF P
  <2>2. QED
    BY <1>5, <2>1
<1>7. QED
  BY <1>6, Zenon DEF Progress, n

\* The data area written for a list of call sites holds them one after another.
LEMMA EmitLaid ==
    ASSUME NEW T, NEW sites \in Seq(T), sites # <<>>, NEW e \in Supported, SitesFit(sites, e)
    PROVE  /\ Emit(sites, e) \in Seq(Bytes)
           /\ Len(sites) <= Len(Emit(sites, e)) \div 4
           /\ \E at : Laid(Emit(sites, e), Header(Emit(sites, e)), sites, at)
<1> DEFINE t == CallSiteTable(sites, e)
           b == Emit(sites, e)
           n == Len(sites)
           u(k) == EncodedSite(sites[k], e)
<1>1. n \in Nat \ {0} /\ DOMAIN sites = 1..n
  OBVIOUS
<1>2. t \in Seq(Bytes)
  BY TableIs
<1>3. PICK at \in [0..n -> Nat] :
         /\ at[0] = 0 /\ at[n] = Len(t)
         /\ \A k \in 1..n : at[k] = at[k - 1] + Len(u(k)) /\ Holds(t, at[k - 1] + 1, u(k))
  BY TableIs
<1>4. b \in Seq(Bytes)
  BY <1>2, ReadsHeader DEF SitesFit
<1>5. PICK start \in Nat \ {0} :
         /\ Header(b) = [encoding |-> e, start |-> start, end |-> start + Len(t)]
         /\ Holds(b, start, t)
  BY <1>2, ReadsHeader DEF SitesFit
<1>6. \A k \in 1..n : SiteFits(sites[k], e) /\ u(k) \in Seq(Bytes) /\ Len(u(k)) >= 4
  BY <1>1, SiteIs DEF SitesFit
<1> HIDE DEF n, t, b, u
<1>7. /\ \A k \in 1..n : at[k - 1] \in Nat /\ at[k] \in Nat /\ at[k] >= at[k - 1] + 4
  <2> SUFFICES ASSUME NEW k \in 1..n
               PROVE  at[k - 1] \in Nat /\ at[k] \in Nat /\ at[k] >= at[k - 1] + 4
    OBVIOUS
  <2>1. k \in 0..n /\ k - 1 \in 0..n
    BY <1>1
  <2>2. at[k] \in Nat /\ at[k - 1] \in Nat
    BY <1>3, <2>1
  <2>3. at[k] = at[k - 1] + Len(u(k)) /\ Len(u(k)) >= 4 /\ Len(u(k)) \in Nat
    BY <1>3, <1>6
  <2>4. QED
    BY <2>2, <2>3
<1>8. \A k \in 1..n : at[k - 1] < at[n]
  <2> DEFINE S == {k \in 1..n : at[k - 1] < at[n]}
  <2>1. n \in S
    BY <1>1, <1>7
  <2>2. \A k \in 1..(n - 1) : k + 1 \in S => k \in S
    <3> SUFFICES ASSUME NEW k \in 1..(n - 1), k + 1 \in S PROVE k \in S
      OBVIOUS
    <3>1. k \in 1..n /\ (k + 1) - 1 = k /\ n \in 1..n
      BY <1>1
    <3>2. at[k] < at[n] /\ at[k - 1] \in Nat /\ at[k] \in Nat /\ at[n] \in Nat /\ at[k] >= at[k - 1] + 4
      BY <1>7, <3>1
    <3>3. QED
      BY <3>1, <3>2
  <2> HIDE DEF S
  <2>3. \A k \in 1..n : k \in S
    BY <1>1, <2>1, <2>2, Downward
  <2>4. QED
    BY <2>3 DEF S
<1>9. ASSUME NEW k \in 1..n
      PROVE  CallSite(b, start + at[k - 1], e) = SiteRead(sites[k], start + at[k])
  <2>1. Holds(b, start + at[k - 1], u(k))
    BY <1>2, <1>3, <1>4, <1>5, <1>6, <1>7, HoldsWithin
  <2>2. start + at[k - 1] \in Nat \ {0}
    BY <1>7
  <2>3. CallSite(b, start + at[k - 1], e) = SiteRead(sites[k], (start + at[k - 1]) + Len(u(k)))
    BY <1>4, <1>6, <2>1, <2>2, ReadsSite DEF u
  <2>4. (start + at[k - 1]) + Len(u(k)) = start + at[k]
    <3>1. at[k] = at[k - 1] + Len(u(k)) /\ Len(u(k)) \in Nat
      BY <1>3, <1>6
    <3>2. QED
      BY <1>7, <3>1
  <2>5. QED
    BY <2>3, <2>4
<1>10. Laid(b, Header(b), sites, at)
  <2>1. /\ Header(b).start = start /\ Header(b).encoding = e
        /\ Header(b).end = start + at[n]
    BY <1>3, <1>5
  <2>2. QED
    BY <1>3, <1>8, <1>9, <2>1 DEF Laid, n
<1>11. n <= Len(b) \div 4
  <2> DEFINE S == {k \in Nat : k <= n => 4 * k <= at[k]}
  <2>1. 0 \in S
    BY <1>3
  <2>2. \A k \in Nat : k \in S => k + 1 \in S
    <3> SUFFICES ASSUME NEW k \in S, k + 1 <= n PROVE 4 * (k + 1) <= at[k + 1]
      OBVIOUS
    <3>1. k + 1 \in 1..n /\ (k + 1) - 1 = k /\ k <= n
      BY <1>1
    <3>2. at[k + 1] >= at[k] + 4 /\ at[k] \in Nat /\ at[k + 1] \in Nat
      BY <1>7, <3>1
    <3>3. QED
      BY <3>1, <3>2
  <2> HIDE DEF S
  <2>3. n \in S
    BY <1>1, <2>1, <2>2, Upward
  <2>4. 4 * n <= Len(t)
    BY <1>1, <1>3, <2>3 DEF S
  <2>5. Len(t) <= Len(b) /\ Len(t) \in Nat /\ Len(b) \in Nat
    BY <1>2, <1>4, <1>5 DEF Holds
  <2>6. QED
    BY <1>1, <2>4, <2>5
<1>12. QED
  BY <1>4, <1>10, <1>11 DEF n, b

\* For any list of call sites, in every supported encoding that their numbers
\* fit in, handleLsda finds in the area that was written for them the landing pad
\* of the first call site that has one and covers the offset, and none when no
\* call site does.
THEOREM LandingPadFound ==
    ASSUME NEW T, NEW sites \in Seq(T), sites # <<>>, NEW e \in Supported,
           SitesFit(sites, e), NEW pcOffset
    PROVE  FirstAbout(sites, Len(sites), pcOffset, LandingPad(Emit(sites, e), pcOffset))
<1> DEFINE b == Emit(sites, e)
           turns == Len(b) \div 4
<1>1. b \in Seq(Bytes) /\ Len(sites) <= turns /\ \E at : Laid(b, Header(b), sites, at)
  BY EmitLaid
<1>2. PICK at : Laid(b, Header(b), sites, at)
  BY <1>1
<1> HIDE DEF b
<1>3. Len(b) \in Nat /\ turns \in Nat
  BY <1>1
<1>4. PICK f : IsWalk(b, Header(b), pcOffset, turns, f) /\ LandingPad(b, pcOffset) = f[turns].pad
  BY <1>3, WalkIs
<1> HIDE DEF turns
<1>5. FirstAbout(sites, Len(sites), pcOffset, f[turns].pad)
  BY <1>1, <1>2, <1>3, <1>4, WalkEnds
<1>6. QED
  BY <1>4, <1>5 DEF b
=============================================================================
