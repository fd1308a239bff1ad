----------------------------- MODULE CommonLemmas ----------------------------
(***************************************************************************)
(* Facts the proofs share, about natural numbers and about the sequences   *)
(* loops build.  The induction theorems of the library take an operator;   *)
(* here induction is on a set of numbers and recursion by a function, so   *)
(* that they can be cited.                                                 *)
(***************************************************************************)
EXTENDS Loops, SequencesExt, WellFoundedInduction, TLAPS

(* A set of numbers that is not empty has a least one.                     *)
LEMMA LeastNumber ==
  ASSUME NEW T \in SUBSET Nat, T # {}
  PROVE  \E m \in T : \A n \in T : m <= n
PROOF
<1>1. IsWellFoundedOn(OpToRel(<, Nat), Nat)
  BY NatLessThanWellFounded
<1>2. \E m \in T : \A n \in T : <<n, m>> \notin OpToRel(<, Nat)
  BY <1>1, WFMin
<1>3. OpToRel(<, Nat) = {ss \in Nat \X Nat : ss[1] < ss[2]}
  BY DEF OpToRel
<1>4. PICK m \in T : \A n \in T : <<n, m>> \notin {ss \in Nat \X Nat : ss[1] < ss[2]}
  BY <1>2, <1>3
<1>5. \A n \in T : ~(n < m)
  BY <1>4
<1> QED BY <1>5

(* A set with 0 and with the successor of each of its numbers has them all. *)
LEMMA NatInductionOnSets ==
  ASSUME NEW S \in SUBSET Nat, 0 \in S, \A n \in S : n + 1 \in S
  PROVE  S = Nat
PROOF
<1>1. SUFFICES ASSUME Nat \ S # {} PROVE FALSE
  OBVIOUS
<1>2. PICK m \in Nat \ S : \A n \in Nat \ S : m <= n
  BY <1>1, LeastNumber
<1>3. m - 1 \in S
  BY <1>2
<1> QED BY <1>2, <1>3

(* Induction up to a number.                                               *)
LEMMA InductionUpTo ==
  ASSUME NEW n \in Nat, NEW S, 0 \in S, \A k \in 0..(n - 1) : k \in S => k + 1 \in S
  PROVE  0..n \subseteq S
PROOF
<1> DEFINE R == {k \in Nat : k <= n => k \in S}
<1>1. 0 \in R /\ \A k \in R : k + 1 \in R
  OBVIOUS
<1>2. R = Nat
  <2>1. R \in SUBSET Nat OBVIOUS
  <2> HIDE DEF R
  <2> QED BY <1>1, <2>1, NatInductionOnSets
<1> QED BY <1>2

(* There is a function that starts at c and goes on by g.                   *)
StepOf(T, g) == g \in [Nat \X T -> T]

Recursion(f, T, c, g) == /\ f \in [Nat -> T]
                         /\ f[0] = c
                         /\ \A k \in Nat \ {0} : f[k] = g[<<k, f[k - 1]>>]

LEMMA NatRecursion ==
  ASSUME NEW T, NEW c \in T, NEW g, StepOf(T, g)
  PROVE  \E f : Recursion(f, T, c, g)
PROOF
<1>0. g \in [Nat \X T -> T]
  BY DEF StepOf
<1> DEFINE Upto(n, f) == /\ f \in [0..n -> T] /\ f[0] = c
                         /\ \A k \in 1..n : f[k] = g[<<k, f[k - 1]>>]
           Has == {n \in Nat : \E f \in [0..n -> T] : Upto(n, f)}
<1>1. 0 \in Has
  <2>1. Upto(0, [k \in 0..0 |-> c])
    OBVIOUS
  <2> QED BY <2>1
<1>2. ASSUME NEW n \in Has PROVE n + 1 \in Has
  <2>1. PICK f \in [0..n -> T] : Upto(n, f)
    OBVIOUS
  <2> DEFINE e == [k \in 0..(n + 1) |-> IF k = n + 1 THEN g[<<n + 1, f[n]>>] ELSE f[k]]
  <2>2. n \in Nat /\ f[n] \in T
    OBVIOUS
  <2>3. e \in [0..(n + 1) -> T]
    BY <1>0, <2>2
  <2>4. e[0] = c
    BY <2>1, <2>2
  <2>5. ASSUME NEW k \in 1..(n + 1) PROVE e[k] = g[<<k, e[k - 1]>>]
    <3>1. CASE k = n + 1
      <4>1. k - 1 = n /\ n \in 0..(n + 1) /\ n # n + 1 /\ k \in 0..(n + 1)
        BY <2>2, <3>1
      <4>2. e[k] = g[<<n + 1, f[n]>>] /\ e[k - 1] = f[n]
        BY <3>1, <4>1
      <4> QED BY <3>1, <4>1, <4>2
    <3>2. CASE k # n + 1
      BY <2>1, <2>2, <3>2
    <3> QED BY <3>1, <3>2
  <2> HIDE DEF e
  <2>6. Upto(n + 1, e)
    BY <2>3, <2>4, <2>5
  <2> QED BY <2>2, <2>3, <2>6
<1>3. Has = Nat
  <2> HIDE DEF Has
  <2>1. Has \subseteq Nat BY DEF Has
  <2> QED BY <1>1, <1>2, <2>1, NatInductionOnSets
<1> DEFINE s == [n \in Nat |-> CHOOSE f \in [0..n -> T] : Upto(n, f)]
           r == [n \in Nat |-> s[n][n]]
<1>4. \A n \in Nat : Upto(n, s[n])
  BY <1>3
<1> HIDE DEF s
<1>5. ASSUME NEW n \in Nat
      PROVE  \A k \in 0..n : s[n][k] = s[n + 1][k]
  <2> DEFINE Same == {k \in Nat : k <= n => s[n][k] = s[n + 1][k]}
  <2>1. 0 \in Same
    BY <1>4
  <2>2. ASSUME NEW k \in Same PROVE k + 1 \in Same
    <3> SUFFICES ASSUME k + 1 <= n PROVE s[n][k + 1] = s[n + 1][k + 1]
      OBVIOUS
    <3>1. s[n][k] = s[n + 1][k]
      OBVIOUS
    <3>2. s[n][k + 1] = g[<<k + 1, s[n][k]>>]
      BY <1>4
    <3>3. s[n + 1][k + 1] = g[<<k + 1, s[n + 1][k]>>]
      BY <1>4
    <3> QED BY <3>1, <3>2, <3>3
  <2> HIDE DEF Same
  <2>3. Same = Nat
    <3>1. Same \subseteq Nat BY DEF Same
    <3> QED BY <2>1, <2>2, <3>1, NatInductionOnSets
  <2> QED BY <2>3 DEF Same
<1>6. r \in [Nat -> T] /\ r[0] = c
  BY <1>4
<1>7. ASSUME NEW k \in Nat \ {0} PROVE r[k] = g[<<k, r[k - 1]>>]
  <2>1. r[k] = g[<<k, s[k][k - 1]>>]
    BY <1>4
  <2>2. s[k - 1][k - 1] = s[k][k - 1]
    <3>1. k - 1 \in Nat /\ (k - 1) + 1 = k
      OBVIOUS
    <3> QED BY <3>1, <1>5
  <2> QED BY <2>1, <2>2
<1> QED BY <1>6, <1>7 DEF Recursion

Lesser(a, b) == IF a <= b THEN a ELSE b

LEMMA LesserIs ==
  ASSUME NEW a \in Nat, NEW b \in Nat
  PROVE  (CHOOSE x \in {a, b} : \A y \in {a, b} : x <= y) = Lesser(a, b)
PROOF
<1> DEFINE m == CHOOSE x \in {a, b} : \A y \in {a, b} : x <= y
<1>1. \E x \in {a, b} : \A y \in {a, b} : x <= y
  OBVIOUS
<1>2. m \in {a, b} /\ \A y \in {a, b} : m <= y
  BY <1>1
<1> HIDE DEF m
<1>3. m = Lesser(a, b)
  BY <1>2 DEF Lesser
<1> QED BY <1>3 DEF m

-----------------------------------------------------------------------------
(* Division.                                                               *)
LEMMA RemainderUnique ==
  ASSUME NEW a \in Nat \ {0}, NEW b \in Nat, NEW q \in Nat, NEW r \in 0..(a - 1),
         b = a * q + r
  PROVE  b % a = r
PROOF
<1> DEFINE p == b \div a
           s == b % a
<1>1. b = a * p + s /\ s \in 0..(a - 1) /\ p \in Nat
  BY SMT
<1> HIDE DEF p, s
<1>2. CASE p < q
  <2>1. PICK d \in Nat \ {0} : q = p + d
    BY <1>1, <1>2
  <2>2. a * q = a * p + a * d
    BY <2>1, <1>1
  <2>3. a * d >= a
    BY SMT
  <2> QED BY <1>1, <2>2, <2>3
<1>3. CASE q < p
  <2>1. PICK d \in Nat \ {0} : p = q + d
    BY <1>1, <1>3
  <2>2. a * p = a * q + a * d
    BY <2>1, <1>1
  <2>3. a * d >= a
    BY SMT
  <2> QED BY <1>1, <2>2, <2>3
<1>4. CASE p = q
  BY <1>1, <1>4 DEF s
<1> QED BY <1>1, <1>2, <1>3, <1>4

(* One batch more: the remainder grows by one, or a window is complete.     *)
LEMMA RemainderStep ==
  ASSUME NEW a \in Nat \ {0}, NEW b \in Nat
  PROVE  /\ b % a \in Nat
         /\ (b + 1) % a = 0 => (b % a) + 1 = a
         /\ (b + 1) % a # 0 => (b + 1) % a = (b % a) + 1
PROOF
<1> DEFINE p == b \div a
           s == b % a
<1>1. b = a * p + s /\ s \in 0..(a - 1) /\ p \in Nat
  BY SMT
<1> HIDE DEF p, s
<1>2. CASE s + 1 < a
  <2>1. b + 1 = a * p + (s + 1) /\ s + 1 \in 0..(a - 1)
    BY <1>1, <1>2
  <2>2. (b + 1) % a = s + 1
    BY <1>1, <2>1, RemainderUnique
  <2> QED BY <1>1, <2>2 DEF s
<1>3. CASE s + 1 = a
  <2>1. a * (p + 1) = a * p + a
    BY <1>1
  <2>2. b + 1 = a * (p + 1) + 0 /\ 0 \in 0..(a - 1)
    BY <1>1, <1>3, <2>1
  <2>3. (b + 1) % a = 0
    BY <1>1, <2>2, RemainderUnique
  <2> QED BY <1>1, <1>3, <2>3 DEF s
<1> QED BY <1>1, <1>2, <1>3

(* Below one window the remainder is the number.                            *)
LEMMA RemainderSmall ==
  ASSUME NEW a \in Nat \ {0}, NEW b \in Nat
  PROVE  (b < a => b % a = b) /\ a % a = 0
BY SMT

LEMMA Division ==
  ASSUME NEW a \in Nat \ {0}, NEW b \in Nat
  PROVE  b = a * (b \div a) + (b % a) /\ b % a \in 0..(a - 1) /\ b \div a \in Nat
BY SMT

LEMMA QuotientUnique ==
  ASSUME NEW a \in Nat \ {0}, NEW b \in Nat, NEW q \in Nat, b = a * q
  PROVE  b % a = 0 /\ b \div a = q
PROOF
<1> DEFINE p == b \div a
           s == b % a
<1>1. b = a * p + s /\ s \in 0..(a - 1) /\ p \in Nat
  BY SMT
<1>2. s = 0
  <2>1. 0 \in 0..(a - 1) /\ b = a * q + 0
    BY SMT
  <2> QED BY <2>1, RemainderUnique
<1> HIDE DEF p, s
<1>3. a * p = a * q
  BY <1>1, <1>2
<1>4. p = q
  BY <1>1, <1>3, SMT
<1> QED BY <1>2, <1>4 DEF p, s

LEMMA QuotientAndRemainder ==
  ASSUME NEW a \in Nat \ {0}, NEW b \in Nat, NEW q \in Nat, NEW r \in 0..(a - 1),
         b = a * q + r
  PROVE  b % a = r /\ b \div a = q
PROOF
<1>1. b % a = r
  BY RemainderUnique
<1> DEFINE p == b \div a
<1>2. b = a * p + (b % a) /\ p \in Nat
  BY SMT
<1> HIDE DEF p
<1>3. a * p = a * q
  BY <1>1, <1>2
<1>4. p = q
  BY <1>2, <1>3, SMT
<1> QED BY <1>1, <1>4 DEF p

(* The places of the elements in the padded rows.                          *)
Placed(place, size, rows, wide, perRow, row, column) ==
  /\ place \div size \in 0..(rows * perRow - 1) /\ place % size \in 0..(size - 1)
  /\ ((place \div size) % perRow) * size + (place % size) = column /\ column < wide
  /\ (place \div size) \div perRow = row

LEMMA PlaceOf ==
  ASSUME NEW size \in Nat \ {0}, NEW rows \in Nat, NEW wide \in Nat,
         NEW perRow \in Nat, perRow = (wide + size - 1) \div size,
         NEW row \in 0..(rows - 1), NEW column \in 0..(wide - 1),
         NEW place, place = row * perRow * size + column
  PROVE  Placed(place, size, rows, wide, perRow, row, column)
PROOF
<1> DEFINE q == column \div size
           r == column % size
           full == wide + size - 1
           last == full % size
<1>0. column \in Nat /\ column < wide /\ row \in Nat /\ row < rows
  OBVIOUS
<1>1. /\ column = size * q + r /\ r \in 0..(size - 1) /\ q \in Nat /\ column \in Nat
      /\ column < wide /\ row \in Nat /\ row < rows
  BY <1>0, Division
<1>2. /\ full = size * perRow + last /\ last \in 0..(size - 1)
      /\ full \in Nat
  <2>1. full \in Nat OBVIOUS
  <2> HIDE DEF full
  <2>2. full = size * (full \div size) + (full % size) /\ full % size \in 0..(size - 1)
    BY <2>1, Division
  <2>3. full \div size = perRow BY DEF full
  <2> QED BY <2>1, <2>2, <2>3
<1> HIDE DEF q, r, last
<1>3. q < perRow
  <2> SUFFICES ASSUME perRow <= q PROVE FALSE
    BY <1>1
  <2>1. PICK d \in Nat : q = perRow + d
    BY <1>1
  <2>2. size * q = size * perRow + size * d
    BY <2>1
  <2>3. size * d >= 0
    BY SMT
  <2> DEFINE x == size * perRow
             y == size * d
  <2>4. x \in Nat /\ y \in Nat
    BY SMT
  <2>5. column = x + y + r /\ full = x + last
    BY <1>1, <1>2, <2>2
  <2> HIDE DEF x, y
  <2> QED BY <1>1, <1>2, <2>4, <2>5
<1> DEFINE b == row * perRow + q
<1>4. place = size * b + r /\ b \in Nat /\ place \in Nat
  <2> DEFINE x == row * perRow
  <2>1. x \in Nat /\ x * size = size * x
    BY <1>1
  <2>2. row * perRow * size = x * size
    OBVIOUS
  <2> HIDE DEF x
  <2>3. size * (x + q) = size * x + size * q
    BY <1>1, <2>1
  <2>4. x + q \in Nat
    BY <1>1, <2>1
  <2>5. place = size * (x + q) + r
    BY <1>1, <2>1, <2>2, <2>3
  <2>6. size * (x + q) \in Nat
    BY <2>4
  <2>7. place \in Nat
    BY <1>1, <2>5, <2>6
  <2> QED BY <2>4, <2>5, <2>7 DEF x
<1>5. place % size = r /\ place \div size = b
  <2>1. size \in Nat \ {0}
    OBVIOUS
  <2> HIDE DEF b
  <2> QED BY ONLY <1>1, <1>4, <2>1, QuotientAndRemainder
<1>6. b % perRow = q /\ b \div perRow = row
  <2>1. perRow \in Nat \ {0} /\ q \in 0..(perRow - 1)
    BY <1>1, <1>3
  <2>2. b = perRow * row + q
    BY <1>1
  <2> HIDE DEF b
  <2> QED BY <1>1, <1>4, <2>1, <2>2, QuotientAndRemainder
<1>7. b \in 0..(rows * perRow - 1)
  <2>1. PICK d \in Nat : rows = row + 1 + d
    BY <1>1
  <2>2. rows * perRow = row * perRow + perRow + d * perRow
    BY <1>1, <2>1
  <2> DEFINE x == row * perRow
             y == d * perRow
  <2>3. x \in Nat /\ y \in Nat
    BY <1>1, SMT
  <2>4. rows * perRow = x + perRow + y /\ b = x + q
    BY <2>2
  <2> DEFINE z == rows * perRow
  <2> HIDE DEF x, y, z, b
  <2>5. z = x + perRow + y BY <2>4 DEF z
  <2>6. b \in 0..(z - 1)
    BY <1>1, <1>3, <2>3, <2>4, <2>5
  <2> QED BY <2>6 DEF z
<1> HIDE DEF b
<1>8. q * size + r = column
  BY <1>1
<1> QED BY ONLY <1>1, <1>5, <1>6, <1>7, <1>8 DEF Placed

(* A sum of multiples of a is one, and its quotient the sum of theirs.      *)
LEMMA MultiplesAdd ==
  ASSUME NEW a \in Nat \ {0}, NEW b \in Nat, NEW c \in Nat, b % a = 0, c % a = 0
  PROVE  /\ (b + c) % a = 0
         /\ (b + c) \div a = b \div a + c \div a
         /\ b \div a \in Nat /\ c \div a \in Nat
PROOF
<1> DEFINE p == b \div a
           q == c \div a
<1>1. b = a * p /\ c = a * q /\ p \in Nat /\ q \in Nat
  BY SMT
<1> HIDE DEF p, q
<1>2. a * (p + q) = a * p + a * q
  BY <1>1
<1>3. b + c = a * (p + q) /\ p + q \in Nat
  BY <1>1, <1>2
<1>4. (b + c) % a = 0 /\ (b + c) \div a = p + q
  BY <1>1, <1>3, QuotientUnique
<1> QED BY <1>1, <1>4 DEF p, q

(* A quotient is at most its dividend.                                     *)
LEMMA QuotientSmall ==
  ASSUME NEW a \in Nat \ {0}, NEW b \in Nat
  PROVE  b \div a \in Nat /\ b \div a <= b
PROOF
<1> DEFINE p == b \div a
           s == b % a
<1>1. b = a * p + s /\ s \in 0..(a - 1) /\ p \in Nat
  BY SMT
<1> HIDE DEF p, s
<1>2. a * p >= p
  BY <1>1, SMT
<1> QED BY <1>1, <1>2 DEF p, s

-----------------------------------------------------------------------------
(* Sequences built by a loop.                                              *)

(* PickedUpTo is the function its recursion says.                          *)
LEMMA PickedSteps ==
  ASSUME NEW T, NEW s \in Seq(T), NEW places
  PROVE  /\ PickedUpTo(s, places) \in [0..Len(s) -> Seq(T)]
         /\ PickedUpTo(s, places)[0] = << >>
         /\ \A n \in 1..Len(s) : PickedUpTo(s, places)[n] =
              IF n \in places THEN Append(PickedUpTo(s, places)[n - 1], s[n])
              ELSE PickedUpTo(s, places)[n - 1]
PROOF
<1> DEFINE g == [p \in Nat \X Seq(T) |->
                   IF p[1] \in 1..Len(s) /\ p[1] \in places THEN Append(p[2], s[p[1]]) ELSE p[2]]
           Unrolls(f) == f = [n \in 0..Len(s) |->
              IF n = 0 THEN << >>
              ELSE IF n \in places THEN Append(f[n - 1], s[n]) ELSE f[n - 1]]
<1>1. g \in [Nat \X Seq(T) -> Seq(T)]
  OBVIOUS
<1>2. PICK h : Recursion(h, Seq(T), << >>, g)
  <2>1. StepOf(Seq(T), g) BY <1>1 DEF StepOf
  <2>2. << >> \in Seq(T) OBVIOUS
  <2> HIDE DEF g
  <2> QED BY <2>1, <2>2, NatRecursion
<1> DEFINE f == [n \in 0..Len(s) |-> h[n]]
<1>3. \A n \in 1..Len(s) : h[n] = IF n \in places THEN Append(h[n - 1], s[n]) ELSE h[n - 1]
  <2> TAKE n \in 1..Len(s)
  <2>1. n \in Nat \ {0} /\ n - 1 \in Nat
    OBVIOUS
  <2>2. h[n] = g[<<n, h[n - 1]>>] /\ h[n - 1] \in Seq(T)
    BY <1>2, <2>1 DEF Recursion
  <2> QED BY <2>1, <2>2
<1> HIDE DEF g
<1>4. h \in [Nat -> Seq(T)] /\ h[0] = << >>
  BY <1>2 DEF Recursion
<1>5. \A n \in 1..Len(s) : n - 1 \in 0..Len(s) /\ n \in 0..Len(s)
  OBVIOUS
<1>6. Unrolls(f)
  <2> SUFFICES ASSUME NEW n \in 0..Len(s)
               PROVE  h[n] = IF n = 0 THEN << >>
                             ELSE IF n \in places THEN Append(f[n - 1], s[n]) ELSE f[n - 1]
    OBVIOUS
  <2>1. CASE n = 0 BY <1>4, <2>1
  <2>2. CASE n # 0
    <3>1. n \in 1..Len(s) BY <2>2
    <3>2. f[n - 1] = h[n - 1] BY <3>1, <1>5
    <3> QED BY <2>2, <3>1, <3>2, <1>3
  <2> QED BY <2>1, <2>2
<1>7. Unrolls(PickedUpTo(s, places))
  <2>1. PickedUpTo(s, places) = CHOOSE ff : Unrolls(ff)
    BY DEF PickedUpTo
  <2> HIDE DEF Unrolls
  <2> QED BY <1>6, <2>1
<1>8. PickedUpTo(s, places) = f
  <2> DEFINE u == PickedUpTo(s, places)
             Same == {n \in Nat : n <= Len(s) => u[n] = h[n]}
  <2>0. Unrolls(u) BY <1>7
  <2> HIDE DEF u
  <2>1. /\ u[0] = << >>
        /\ \A n \in 1..Len(s) : u[n] = IF n \in places THEN Append(u[n - 1], s[n]) ELSE u[n - 1]
        /\ u = [n \in 0..Len(s) |-> u[n]]
    <3>1. 0 \in 0..Len(s) /\ \A n \in 1..Len(s) : n \in 0..Len(s) /\ n # 0
      OBVIOUS
    <3>2. u = [n \in 0..Len(s) |->
                IF n = 0 THEN << >>
                ELSE IF n \in places THEN Append(u[n - 1], s[n]) ELSE u[n - 1]]
      BY <2>0
    <3>3. u[0] = << >> BY <3>1, <3>2
    <3>4. \A n \in 1..Len(s) : u[n] = IF n \in places THEN Append(u[n - 1], s[n]) ELSE u[n - 1]
      BY <3>1, <3>2
    <3>5. u = [n \in 0..Len(s) |-> u[n]]
      BY ONLY <3>2
    <3> QED BY <3>3, <3>4, <3>5
  <2>2. 0 \in Same BY <1>4, <2>1
  <2>3. ASSUME NEW n \in Same PROVE n + 1 \in Same
    <3> SUFFICES ASSUME n + 1 <= Len(s) PROVE u[n + 1] = h[n + 1]
      OBVIOUS
    <3>1. n + 1 \in 1..Len(s) /\ (n + 1) - 1 = n /\ u[n] = h[n]
      OBVIOUS
    <3> QED BY <3>1, <2>1, <1>3
  <2>4. Same = Nat
    <3> HIDE DEF Same
    <3>1. Same \subseteq Nat BY DEF Same
    <3> QED BY <2>2, <2>3, <3>1, NatInductionOnSets
  <2>5. \A n \in 0..Len(s) : u[n] = h[n]
    BY <2>4
  <2> QED BY <2>1, <2>5 DEF u
<1>9. \A n \in 0..Len(s) : f[n] = h[n]
  OBVIOUS
<1>10. f \in [0..Len(s) -> Seq(T)]
  <2>1. \A n \in 0..Len(s) : n \in Nat OBVIOUS
  <2> QED BY <1>4, <2>1
<1>11. 0 \in 0..Len(s)
  OBVIOUS
<1> HIDE DEF f
<1> QED BY <1>3, <1>4, <1>5, <1>8, <1>9, <1>10, <1>11

(* The places of the picked elements, in order.                            *)
Embeds(e, r, s, places) ==
  /\ e \in [1..Len(r) -> 1..Len(s)]
  /\ \A k \in 1..Len(r) : e[k] \in places /\ r[k] = s[e[k]]
  /\ \A j, k \in 1..Len(r) : j < k => e[j] < e[k]

LEMMA PickedEmbeds ==
  ASSUME NEW T, NEW s \in Seq(T), NEW places
  PROVE  /\ Picked(s, places) \in Seq(T)
         /\ \E e : Embeds(e, Picked(s, places), s, places)
PROOF
<1> DEFINE r == PickedUpTo(s, places)
           Below(e, n) == /\ e \in [1..Len(r[n]) -> 1..n]
                          /\ \A k \in 1..Len(r[n]) : e[k] \in places /\ r[n][k] = s[e[k]]
                          /\ \A j, k \in 1..Len(r[n]) : j < k => e[j] < e[k]
           Has == {n \in Nat : n <= Len(s) => \E e : Below(e, n)}
<1>1. /\ r \in [0..Len(s) -> Seq(T)] /\ r[0] = << >>
      /\ \A n \in 1..Len(s) : r[n] = IF n \in places THEN Append(r[n - 1], s[n]) ELSE r[n - 1]
  BY PickedSteps
<1> HIDE DEF r
<1>2. 0 \in Has
  <2>1. Below([k \in 1..0 |-> 0], 0)
    BY <1>1
  <2> QED BY <2>1
<1>3. ASSUME NEW n \in Has PROVE n + 1 \in Has
  <2> SUFFICES ASSUME n + 1 <= Len(s) PROVE \E e : Below(e, n + 1)
    OBVIOUS
  <2>1. PICK e : Below(e, n)
    OBVIOUS
  <2>2. n + 1 \in 1..Len(s) /\ (n + 1) - 1 = n /\ n \in Nat /\ n \in 0..Len(s)
    OBVIOUS
  <2>3. r[n] \in Seq(T) /\ Len(r[n]) \in Nat
    BY <1>1, <2>2
  <2> DEFINE m == Len(r[n])
  <2>4. CASE n + 1 \notin places
    <3>1. r[n + 1] = r[n]
      BY <1>1, <2>2, <2>4
    <3>2. Below(e, n + 1)
      <4>1. e \in [1..Len(r[n + 1]) -> 1..(n + 1)]
        BY <2>1, <2>2, <3>1
      <4> QED BY <2>1, <3>1, <4>1
    <3> QED BY <3>2
  <2>5. CASE n + 1 \in places
    <3>0. s[n + 1] \in T BY <2>2
    <3>1. r[n + 1] = Append(r[n], s[n + 1]) /\ s[n + 1] \in T
      BY <1>1, <2>2, <2>5, <3>0
    <3>2. /\ Len(r[n + 1]) = m + 1 /\ r[n + 1][m + 1] = s[n + 1]
          /\ \A k \in 1..m : r[n + 1][k] = r[n][k]
      BY <2>3, <3>1
    <3> DEFINE x == [k \in 1..(m + 1) |-> IF k = m + 1 THEN n + 1 ELSE e[k]]
    <3>3. \A k \in 1..(m + 1) : k = m + 1 \/ k \in 1..m
      BY <2>3
    <3>4. \A k \in 1..m : e[k] \in 1..n /\ e[k] \in places /\ r[n][k] = s[e[k]]
      BY <2>1
    <3>4a. \A j, k \in 1..m : j < k => e[j] < e[k]
      BY <2>1
    <3>5. x[m + 1] = n + 1 /\ \A k \in 1..m : x[k] = e[k] /\ k \in 1..(m + 1)
      BY <2>3
    <3>6. x \in [1..(m + 1) -> 1..(n + 1)]
      <4>1. \A k \in 1..(m + 1) : x[k] \in 1..(n + 1)
        BY <3>3, <3>4, <3>5, <2>2
      <4> QED BY <4>1
    <3>6a. \A k \in 1..m : m + 1 # k /\ ~(m + 1 < k)
      BY <2>3
    <3> HIDE DEF m, x
    <3>7. \A k \in 1..(m + 1) : x[k] \in places /\ r[n + 1][k] = s[x[k]]
      BY <2>5, <3>2, <3>3, <3>4, <3>5
    <3>8. ASSUME NEW j \in 1..(m + 1), NEW k \in 1..(m + 1), j < k PROVE x[j] < x[k]
      <4>1. m \in Nat BY <2>3 DEF m
      <4>2. j \in 1..m BY <3>8, <4>1
      <4>3. x[j] = e[j] /\ e[j] \in 1..n BY <4>2, <3>4, <3>5
      <4>4. CASE k = m + 1 BY <4>3, <4>4, <3>5, <2>2
      <4>5. CASE k \in 1..m BY <4>2, <4>3, <4>5, <3>4a, <3>5, <3>8
      <4> QED BY <4>4, <4>5, <3>3
    <3>9. Below(x, n + 1)
      BY <3>2, <3>6, <3>7, <3>8
    <3> QED BY <3>9
  <2> QED BY <2>4, <2>5
<1>4. Has = Nat
  <2> HIDE DEF Has
  <2>1. Has \subseteq Nat BY DEF Has
  <2> QED BY <1>2, <1>3, <2>1, NatInductionOnSets
<1>5. PICK e : Below(e, Len(s))
  BY <1>4
<1>6. Picked(s, places) = r[Len(s)]
  BY DEF Picked, r
<1>7. Embeds(e, Picked(s, places), s, places)
  BY <1>5, <1>6 DEF Embeds
<1>8. Picked(s, places) \in Seq(T)
  BY <1>1, <1>6
<1> QED BY <1>7, <1>8

(* Where each element of a flattened sequence comes from: every place of   *)
(* every part, each once.                                                  *)
ComesFrom(at, r, ss, n) ==
  /\ at \in [1..Len(r) -> Nat \X Nat]
  /\ \A k \in 1..Len(r) : /\ at[k][1] \in 1..n
                          /\ at[k][2] \in 1..Len(ss[at[k][1]])
                          /\ r[k] = ss[at[k][1]][at[k][2]]
  /\ \A j, k \in 1..Len(r) : at[j] = at[k] => j = k
  /\ \A i \in 1..n : \A j \in 1..Len(ss[i]) : \E k \in 1..Len(r) : at[k] = <<i, j>>

LEMMA FlattenSteps ==
  ASSUME NEW T, NEW ss \in Seq(Seq(T)), Len(ss) > 0
  PROVE  \E f : /\ f \in [1..Len(ss) -> Seq(T)]
                /\ f[1] = ss[1]
                /\ \A n \in 2..Len(ss) : f[n] = f[n - 1] \o ss[n]
                /\ FlattenSeq(ss) = f[Len(ss)]
PROOF
<1> DEFINE g == [p \in Nat \X Seq(T) |->
                   IF p[1] + 1 \in 1..Len(ss) THEN p[2] \o ss[p[1] + 1] ELSE p[2]]
           Unrolls(f) == f = [i \in 1..Len(ss) |-> IF i = 1 THEN ss[i] ELSE f[i - 1] \o ss[i]]
<1>0. ss[1] \in Seq(T) /\ 1 \in 1..Len(ss) /\ Len(ss) \in Nat
  OBVIOUS
<1>1. g \in [Nat \X Seq(T) -> Seq(T)]
  OBVIOUS
<1>2. PICK h : Recursion(h, Seq(T), ss[1], g)
  <2>1. StepOf(Seq(T), g) BY <1>1 DEF StepOf
  <2> HIDE DEF g
  <2> QED BY <1>0, <2>1, NatRecursion
<1> DEFINE f == [n \in 1..Len(ss) |-> h[n - 1]]
<1>3. \A n \in 2..Len(ss) : h[n - 1] = h[(n - 1) - 1] \o ss[n]
  <2> TAKE n \in 2..Len(ss)
  <2>1. n - 1 \in Nat \ {0} /\ (n - 1) + 1 = n /\ n \in 1..Len(ss) /\ (n - 1) - 1 \in Nat
    OBVIOUS
  <2>2. h[n - 1] = g[<<n - 1, h[(n - 1) - 1]>>] /\ h[(n - 1) - 1] \in Seq(T)
    BY <1>2, <2>1 DEF Recursion
  <2> QED BY <2>1, <2>2
<1> HIDE DEF g
<1>4. h \in [Nat -> Seq(T)] /\ h[0] = ss[1]
  BY <1>2 DEF Recursion
<1>5. /\ f \in [1..Len(ss) -> Seq(T)] /\ f[1] = ss[1]
      /\ \A n \in 2..Len(ss) : f[n] = f[n - 1] \o ss[n]
  <2>1. \A n \in 1..Len(ss) : f[n] = h[n - 1] /\ n - 1 \in Nat
    OBVIOUS
  <2>2. \A n \in 2..Len(ss) : n - 1 \in 1..Len(ss) /\ n \in 1..Len(ss)
    OBVIOUS
  <2>3. f \in [1..Len(ss) -> Seq(T)] BY <1>4, <2>1
  <2>4. 1 - 1 = 0 OBVIOUS
  <2> HIDE DEF f
  <2>5. f[1] = ss[1] BY <1>0, <1>4, <2>1, <2>4
  <2>6. ASSUME NEW n \in 2..Len(ss) PROVE f[n] = f[n - 1] \o ss[n]
    BY <1>3, <2>1, <2>2
  <2> QED BY <2>3, <2>5, <2>6
<1>6. Unrolls(f)
  <2>1. f = [n \in 1..Len(ss) |-> f[n]]
    BY <1>5
  <2> HIDE DEF f
  <2>2. \A n \in 1..Len(ss) : f[n] = IF n = 1 THEN ss[n] ELSE f[n - 1] \o ss[n]
    <3> TAKE n \in 1..Len(ss)
    <3>1. CASE n = 1 BY <3>1, <1>5
    <3>2. CASE n # 1
      <4>1. n \in 2..Len(ss) BY <1>0, <3>2
      <4> QED BY <3>2, <4>1, <1>5
    <3> QED BY <3>1, <3>2
  <2> QED BY <2>1, <2>2
<1>7. FlattenSeq(ss) = (CHOOSE ff : Unrolls(ff))[Len(ss)]
  <2> HIDE DEF f
  <2> QED BY <1>0 DEF FlattenSeq
<1>8. Unrolls(CHOOSE ff : Unrolls(ff))
  <2> HIDE DEF Unrolls, f
  <2> QED BY <1>6
<1> DEFINE u == CHOOSE ff : Unrolls(ff)
<1>9. u = f
  <2> HIDE DEF f
  <2>0. Unrolls(u) BY <1>8
  <2> HIDE DEF u
  <2>1. u = [i \in 1..Len(ss) |-> IF i = 1 THEN ss[i] ELSE u[i - 1] \o ss[i]]
    BY <2>0
  <2>2. u = [i \in 1..Len(ss) |-> u[i]]
    BY ONLY <2>1
  <2>3. u[1] = ss[1] /\ \A n \in 2..Len(ss) : u[n] = u[n - 1] \o ss[n]
    <3>1. \A n \in 2..Len(ss) : n \in 1..Len(ss) /\ n # 1
      OBVIOUS
    <3> QED BY <1>0, <2>1, <3>1
  <2> DEFINE Same == {n \in Nat : n + 1 <= Len(ss) => u[n + 1] = f[n + 1]}
  <2>4. 0 \in Same
    <3>1. 0 + 1 = 1 OBVIOUS
    <3> QED BY <1>5, <2>3, <3>1
  <2>5. ASSUME NEW n \in Same PROVE n + 1 \in Same
    <3> SUFFICES ASSUME (n + 1) + 1 <= Len(ss) PROVE u[(n + 1) + 1] = f[(n + 1) + 1]
      OBVIOUS
    <3> DEFINE m == (n + 1) + 1
    <3>1. m \in 2..Len(ss) /\ m - 1 = n + 1 /\ u[n + 1] = f[n + 1]
      OBVIOUS
    <3> HIDE DEF m
    <3>2. u[m] = f[m] BY <3>1, <2>3, <1>5
    <3> QED BY <3>2 DEF m
  <2>6. Same = Nat
    <3> HIDE DEF Same
    <3>1. Same \subseteq Nat BY DEF Same
    <3> QED BY <2>4, <2>5, <3>1, NatInductionOnSets
  <2>7. ASSUME NEW n \in 1..Len(ss) PROVE u[n] = f[n]
    <3>0. n - 1 \in Nat /\ (n - 1) + 1 = n /\ n <= Len(ss)
      BY <1>0
    <3>1. (n - 1) + 1 <= Len(ss) /\ n - 1 \in Same /\ (n - 1) + 1 = n
      BY ONLY <2>6, <3>0
    <3> QED BY <3>1
  <2>8. f = [n \in 1..Len(ss) |-> f[n]]
    BY <1>5
  <2> HIDE DEF Same
  <2> QED BY <2>2, <2>7, <2>8
<1>10. FlattenSeq(ss) = f[Len(ss)]
  <2> HIDE DEF f, u
  <2>1. FlattenSeq(ss) = u[Len(ss)] BY <1>7 DEF u
  <2> QED BY <1>9, <2>1
<1> HIDE DEF f
<1> QED BY <1>5, <1>10

LEMMA FlattenPlaces ==
  ASSUME NEW T, NEW ss \in Seq(Seq(T))
  PROVE  /\ FlattenSeq(ss) \in Seq(T)
         /\ \E at : ComesFrom(at, FlattenSeq(ss), ss, Len(ss))
PROOF
<1>1. CASE Len(ss) = 0
  <2>1. FlattenSeq(ss) = ss /\ ss = << >>
    BY <1>1 DEF FlattenSeq
  <2>2. ComesFrom([k \in 1..0 |-> <<0, 0>>], FlattenSeq(ss), ss, Len(ss))
    BY <1>1, <2>1 DEF ComesFrom
  <2>3. << >> \in Seq(T) OBVIOUS
  <2> QED BY <2>1, <2>2, <2>3
<1>2. CASE Len(ss) # 0
  <2>0. Len(ss) > 0 /\ Len(ss) \in Nat BY <1>2
  <2>1. PICK f : /\ f \in [1..Len(ss) -> Seq(T)]
                 /\ f[1] = ss[1]
                 /\ \A n \in 2..Len(ss) : f[n] = f[n - 1] \o ss[n]
                 /\ FlattenSeq(ss) = f[Len(ss)]
    BY <2>0, FlattenSteps
  <2> DEFINE Has == {n \in Nat : n + 1 <= Len(ss) => \E at : ComesFrom(at, f[n + 1], ss, n + 1)}
  <2>2. 0 \in Has
    <3>1. 0 + 1 = 1 /\ 1 \in 1..Len(ss) /\ f[1] \in Seq(T) /\ Len(f[1]) \in Nat
      BY <2>0, <2>1
    <3> DEFINE at == [k \in 1..Len(f[1]) |-> <<1, k>>]
    <3>2. at \in [1..Len(f[1]) -> Nat \X Nat]
      BY <3>1
    <3>3. \A k \in 1..Len(f[1]) : at[k][1] = 1 /\ at[k][2] = k /\ at[k] = <<1, k>>
      OBVIOUS
    <3> HIDE DEF at
    <3>4. \A j, k \in 1..Len(f[1]) : at[j] = at[k] => j = k
      BY <3>3
    <3>5. ComesFrom(at, f[1], ss, 1)
      <4>1. \A i \in 1..1 : i = 1 OBVIOUS
      <4>2. 1 \in 1..1 /\ ss[1] = f[1] BY <2>1
      <4>3. \A k \in 1..Len(f[1]) : /\ at[k][1] \in 1..1
                                    /\ at[k][2] \in 1..Len(ss[at[k][1]])
                                    /\ f[1][k] = ss[at[k][1]][at[k][2]]
        BY <3>3, <4>2
      <4>4. \A i \in 1..1 : \A j \in 1..Len(ss[i]) : \E k \in 1..Len(f[1]) : at[k] = <<i, j>>
        BY <3>3, <4>1, <4>2
      <4> QED BY <3>2, <3>4, <4>3, <4>4 DEF ComesFrom
    <3> QED BY <3>1, <3>5
  <2>3. ASSUME NEW n0 \in Has PROVE n0 + 1 \in Has
    <3> DEFINE n == n0 + 1
    <3> SUFFICES ASSUME n + 1 <= Len(ss) PROVE \E at : ComesFrom(at, f[n + 1], ss, n + 1)
      OBVIOUS
    <3>1. PICK at : ComesFrom(at, f[n], ss, n)
      <4>1. n0 + 1 <= Len(ss) BY <2>0
      <4> QED BY <4>1
    <3>2. n \in Nat /\ n \in 1..Len(ss) /\ n + 1 \in 2..Len(ss) /\ (n + 1) - 1 = n
          /\ n + 1 \in 1..Len(ss)
      BY <2>0
    <3> HIDE DEF n, Has
    <3>3. f[n] \in Seq(T) /\ ss[n + 1] \in Seq(T) /\ f[n + 1] = f[n] \o ss[n + 1]
      <4>1. f[n] \in Seq(T) BY <2>1, <3>2
      <4>2. ss[n + 1] \in Seq(T) BY <3>2
      <4>3. f[n + 1] = f[(n + 1) - 1] \o ss[n + 1] BY <2>1, <3>2
      <4> QED BY <4>1, <4>2, <4>3, <3>2
    <3> DEFINE a == Len(f[n])
               b == Len(ss[n + 1])
               r == f[n + 1]
    <3>4. /\ a \in Nat /\ b \in Nat /\ Len(r) = a + b
          /\ \A k \in 1..a : r[k] = f[n][k]
          /\ \A k \in (a + 1)..(a + b) : r[k] = ss[n + 1][k - a]
      <4> DEFINE u == f[n]
                 v == ss[n + 1]
      <4>1. u \in Seq(T) /\ v \in Seq(T) /\ f[n + 1] = u \o v BY <3>3
      <4> HIDE DEF u, v
      <4>2. Len(u) \in Nat /\ Len(v) \in Nat /\ Len(u \o v) = Len(u) + Len(v) BY <4>1
      <4>3. \A k \in 1..Len(u) : (u \o v)[k] = u[k] BY <4>1, <4>2
      <4>4. \A k \in (Len(u) + 1)..(Len(u) + Len(v)) : (u \o v)[k] = v[k - Len(u)]
        BY <4>1, <4>2
      <4> QED BY <4>1, <4>2, <4>3, <4>4 DEF u, v
    <3>4a. Len(ss[n + 1]) = b /\ a = Len(f[n])
      OBVIOUS
    <3> HIDE DEF a, b, r
    <3> DEFINE x == [k \in 1..(a + b) |-> IF k <= a THEN at[k] ELSE <<n + 1, k - a>>]
    <3>5. /\ \A k \in 1..a : x[k] = at[k] /\ k \in 1..(a + b)
          /\ \A k \in (a + 1)..(a + b) : x[k] = <<n + 1, k - a>> /\ k \in 1..(a + b)
                                          /\ k - a \in 1..b /\ k - a \in Nat
      <4>0. a \in Nat /\ b \in Nat BY <3>4
      <4>1. \A k \in 1..a : k \in 1..(a + b) /\ k <= a BY <4>0
      <4>2. \A k \in (a + 1)..(a + b) : /\ k \in 1..(a + b) /\ ~(k <= a)
                                        /\ k - a \in 1..b /\ k - a \in Nat
        BY <4>0
      <4> QED BY <4>1, <4>2
    <3>6. \A k \in 1..(a + b) : k \in 1..a \/ k \in (a + 1)..(a + b)
      BY <3>4
    <3>6a. x = [k \in 1..(a + b) |-> x[k]]
      OBVIOUS
    <3>7. /\ at \in [1..a -> Nat \X Nat]
          /\ \A k \in 1..a : /\ at[k][1] \in 1..n
                             /\ at[k][2] \in 1..Len(ss[at[k][1]])
                             /\ f[n][k] = ss[at[k][1]][at[k][2]]
          /\ \A j, k \in 1..a : at[j] = at[k] => j = k
          /\ \A i \in 1..n : \A j \in 1..Len(ss[i]) : \E k \in 1..a : at[k] = <<i, j>>
      BY <3>1, <3>4a DEF ComesFrom
    <3>7a. \A i \in 1..n : i \in 1..(n + 1) /\ i # n + 1
      BY <3>2
    <3>7b. \A i \in 1..(n + 1) : i \in 1..n \/ i = n + 1
      BY <3>2
    <3>7c. Len(ss[n + 1]) = b
      BY <3>4a
    <3> HIDE DEF x
    <3>8. x \in [1..(a + b) -> Nat \X Nat]
      <4>1. \A k \in 1..(a + b) : x[k] \in Nat \X Nat
        <5> TAKE k \in 1..(a + b)
        <5>1. CASE k \in 1..a BY <5>1, <3>5, <3>7
        <5>2. CASE k \in (a + 1)..(a + b)
          <6>1. x[k] = <<n + 1, k - a>> /\ n + 1 \in Nat /\ k - a \in Nat
            BY <5>2, <3>2, <3>5
          <6> QED BY <6>1
        <5> QED BY <5>1, <5>2, <3>6
      <4> QED BY <3>6a, <4>1
    <3>9. ASSUME NEW k \in 1..(a + b)
          PROVE  /\ x[k][1] \in 1..(n + 1)
                 /\ x[k][2] \in 1..Len(ss[x[k][1]])
                 /\ r[k] = ss[x[k][1]][x[k][2]]
      <4>1. CASE k \in 1..a
        BY <4>1, <3>4, <3>5, <3>7, <3>7a
      <4>2. CASE k \in (a + 1)..(a + b)
        <5>1. x[k][1] = n + 1 /\ x[k][2] = k - a /\ k - a \in 1..b
          BY <4>2, <3>5
        <5>2. r[k] = ss[n + 1][k - a] /\ n + 1 \in 1..(n + 1)
          BY <4>2, <3>4, <3>2
        <5> QED BY <5>1, <5>2, <3>7c
      <4> QED BY <4>1, <4>2, <3>6
    <3>10. ASSUME NEW j \in 1..(a + b), NEW k \in 1..(a + b), x[j] = x[k] PROVE j = k
      <4>1. CASE j \in 1..a /\ k \in 1..a
        BY <4>1, <3>5, <3>7, <3>10
      <4>2. CASE j \in (a + 1)..(a + b) /\ k \in (a + 1)..(a + b)
        <5>1. j - a = k - a BY <4>2, <3>5, <3>10
        <5> QED BY <5>1, <3>4
      <4>3. ASSUME NEW i \in 1..a, NEW m \in (a + 1)..(a + b) PROVE x[i] # x[m]
        <5>1. x[i][1] # n + 1 BY <3>5, <3>7, <3>7a
        <5>2. x[m][1] = n + 1 BY <3>5
        <5> QED BY <5>1, <5>2
      <4> QED BY <4>1, <4>2, <4>3, <3>6, <3>10
    <3>11. ASSUME NEW i \in 1..(n + 1), NEW j \in 1..Len(ss[i])
           PROVE  \E k \in 1..(a + b) : x[k] = <<i, j>>
      <4>1. CASE i \in 1..n
        <5>1. PICK k \in 1..a : at[k] = <<i, j>> BY <4>1, <3>7
        <5> QED BY <5>1, <3>5
      <4>2. CASE i = n + 1
        <5>1. j \in 1..b BY <4>2, <3>7c
        <5>2. a + j \in (a + 1)..(a + b) /\ (a + j) - a = j
          BY <5>1, <3>4
        <5>3. x[a + j] = <<n + 1, j>> /\ a + j \in 1..(a + b)
          BY <5>2, <3>5
        <5> QED BY <4>2, <5>3
      <4> QED BY <4>1, <4>2, <3>7b
    <3>12. ComesFrom(x, r, ss, n + 1)
      <4>1. Len(r) = a + b BY <3>4
      <4> QED BY <4>1, <3>8, <3>9, <3>10, <3>11 DEF ComesFrom
    <3> QED BY <3>12 DEF r
  <2>4. Has = Nat
    <3> HIDE DEF Has
    <3>1. Has \subseteq Nat BY DEF Has
    <3> QED BY <2>2, <2>3, <3>1, NatInductionOnSets
  <2>5. \E at : ComesFrom(at, f[Len(ss)], ss, Len(ss))
    <3>0. Len(ss) - 1 \in Nat /\ (Len(ss) - 1) + 1 = Len(ss)
      BY <2>0
    <3>1. Len(ss) - 1 \in Has
      BY <3>0, <2>4
    <3>2. PICK n \in Nat : n = Len(ss) - 1 /\ n + 1 = Len(ss) /\ n \in Has
      BY <3>0, <3>1
    <3>3. n + 1 <= Len(ss) BY <2>0, <3>2
    <3>4. \E at : ComesFrom(at, f[n + 1], ss, n + 1) BY <3>2, <3>3
    <3>5. n + 1 = Len(ss) BY <3>2
    <3> QED BY ONLY <3>4, <3>5, Zenon
  <2>6. FlattenSeq(ss) = f[Len(ss)] /\ f[Len(ss)] \in Seq(T)
    <3>1. Len(ss) \in 1..Len(ss) BY <2>0
    <3> QED BY <2>1, <3>1
  <2> QED BY ONLY <2>5, <2>6, Zenon
<1> QED BY <1>1, <1>2

-----------------------------------------------------------------------------
(* Sums and products.                                                      *)

Recurs(f, T, c, g, n) == /\ f \in [0..n -> T] /\ f[0] = c
                         /\ \A k \in 1..n : f[k] = g[<<k, f[k - 1]>>]

LEMMA RecursionUpTo ==
  ASSUME NEW T, NEW c \in T, NEW g, StepOf(T, g), NEW n \in Nat
  PROVE  \E f : Recurs(f, T, c, g, n)
PROOF
<1>1. PICK h : Recursion(h, T, c, g)
  BY NatRecursion
<1>2. /\ h \in [Nat -> T] /\ h[0] = c
      /\ \A k \in Nat \ {0} : h[k] = g[<<k, h[k - 1]>>]
  BY <1>1 DEF Recursion
<1> DEFINE f == [k \in 0..n |-> h[k]]
<1>3. f \in [0..n -> T] /\ f[0] = c
  BY <1>2
<1>4. ASSUME NEW k \in 1..n PROVE f[k] = g[<<k, f[k - 1]>>]
  <2>1. k \in Nat \ {0} /\ k \in 0..n /\ k - 1 \in 0..n
    OBVIOUS
  <2>2. f[k] = h[k] /\ f[k - 1] = h[k - 1]
    BY <2>1
  <2> HIDE DEF f
  <2> QED BY <1>2, <2>1, <2>2
<1> HIDE DEF f
<1>5. Recurs(f, T, c, g, n)
  BY <1>3, <1>4 DEF Recurs
<1> QED BY <1>5

LEMMA SumSteps ==
  ASSUME NEW s \in Seq(Nat)
  PROVE  /\ SumUpTo(s) \in [0..Len(s) -> Nat] /\ SumUpTo(s)[0] = 0
         /\ \A n \in 1..Len(s) : SumUpTo(s)[n] = SumUpTo(s)[n - 1] + s[n]
PROOF
<1> DEFINE Unrolls(f) == f = [n \in 0..Len(s) |-> IF n = 0 THEN 0 ELSE f[n - 1] + s[n]]
           g == [p \in Nat \X Nat |-> IF p[1] \in 1..Len(s) THEN p[2] + s[p[1]] ELSE 0]
<1>0. Len(s) \in Nat /\ \A n \in 1..Len(s) : s[n] \in Nat /\ n \in Nat
  OBVIOUS
<1>1. \E f : Unrolls(f)
  <2>1. StepOf(Nat, g)
    BY <1>0 DEF StepOf
  <2>2. \A n \in 1..Len(s), x \in Nat : g[<<n, x>>] = x + s[n]
    BY <1>0
  <2> HIDE DEF g, Unrolls
  <2>3. PICK f : Recurs(f, Nat, 0, g, Len(s))
    BY <1>0, <2>1, RecursionUpTo
  <2>4. \A n \in 0..Len(s) : f[n] = IF n = 0 THEN 0 ELSE f[n - 1] + s[n]
    <3> TAKE n \in 0..Len(s)
    <3>1. CASE n = 0 BY <2>3, <3>1 DEF Recurs
    <3>2. CASE n # 0
      <4>1. n \in 1..Len(s) /\ n - 1 \in 0..Len(s) BY <3>2
      <4> QED BY <2>2, <2>3, <3>2, <4>1 DEF Recurs
    <3> QED BY <3>1, <3>2
  <2>5. f = [n \in 0..Len(s) |-> f[n]]
    BY <2>3 DEF Recurs
  <2>6. Unrolls(f)
    BY <2>4, <2>5 DEF Unrolls
  <2> QED BY <2>6
<1>2. Unrolls(SumUpTo(s))
  <2>1. SumUpTo(s) = CHOOSE f : Unrolls(f)
    BY DEF SumUpTo
  <2> HIDE DEF Unrolls
  <2> QED BY <1>1, <2>1
<1> DEFINE u == SumUpTo(s)
<1>3. /\ u[0] = 0 /\ \A n \in 1..Len(s) : u[n] = u[n - 1] + s[n]
      /\ u = [n \in 0..Len(s) |-> u[n]]
  <2>0. Unrolls(u) BY <1>2
  <2> HIDE DEF u
  <2>1. u = [n \in 0..Len(s) |-> IF n = 0 THEN 0 ELSE u[n - 1] + s[n]]
    BY <2>0
  <2>2. 0 \in 0..Len(s) /\ \A n \in 1..Len(s) : n \in 0..Len(s) /\ n # 0
    BY <1>0
  <2>3. u = [n \in 0..Len(s) |-> u[n]]
    BY ONLY <2>1
  <2>4. u[0] = 0 BY <2>1, <2>2
  <2>5. \A n \in 1..Len(s) : u[n] = u[n - 1] + s[n] BY <2>1, <2>2
  <2> QED BY <2>3, <2>4, <2>5
<1>4. \A n \in 0..Len(s) : u[n] \in Nat
  <2> DEFINE S == {n \in 0..Len(s) : u[n] \in Nat}
  <2> HIDE DEF u
  <2>1. 0 \in S BY <1>0, <1>3
  <2>2. ASSUME NEW k \in 0..(Len(s) - 1), k \in S PROVE k + 1 \in S
    <3>1. k + 1 \in 1..Len(s) /\ (k + 1) - 1 = k /\ u[k] \in Nat /\ k + 1 \in 0..Len(s)
      BY <1>0, <2>2
    <3>2. u[k + 1] = u[k] + s[k + 1] /\ s[k + 1] \in Nat
      BY <1>0, <1>3, <3>1
    <3>3. u[k + 1] \in Nat BY <3>1, <3>2
    <3> QED BY <3>1, <3>3
  <2> HIDE DEF S
  <2>3. 0..Len(s) \subseteq S BY <1>0, <2>1, <2>2, InductionUpTo
  <2> QED BY <2>3 DEF S
<1> HIDE DEF u
<1>5. u \in [0..Len(s) -> Nat]
  BY <1>3, <1>4
<1> QED BY <1>3, <1>5 DEF u

LEMMA ProductSteps ==
  ASSUME NEW s \in Seq(Nat)
  PROVE  /\ ProductUpTo(s) \in [0..Len(s) -> Nat] /\ ProductUpTo(s)[0] = 1
         /\ \A n \in 1..Len(s) : ProductUpTo(s)[n] = ProductUpTo(s)[n - 1] * s[n]
PROOF
<1> DEFINE Unrolls(f) == f = [n \in 0..Len(s) |-> IF n = 0 THEN 1 ELSE f[n - 1] * s[n]]
           g == [p \in Nat \X Nat |-> IF p[1] \in 1..Len(s) THEN p[2] * s[p[1]] ELSE 1]
<1>0. Len(s) \in Nat /\ \A n \in 1..Len(s) : s[n] \in Nat /\ n \in Nat
  OBVIOUS
<1>1. \E f : Unrolls(f)
  <2>1. StepOf(Nat, g)
    BY <1>0 DEF StepOf
  <2>2. \A n \in 1..Len(s), x \in Nat : g[<<n, x>>] = x * s[n]
    BY <1>0
  <2> HIDE DEF g, Unrolls
  <2>3. PICK f : Recurs(f, Nat, 1, g, Len(s))
    BY <1>0, <2>1, RecursionUpTo
  <2>4. \A n \in 0..Len(s) : f[n] = IF n = 0 THEN 1 ELSE f[n - 1] * s[n]
    <3> TAKE n \in 0..Len(s)
    <3>1. CASE n = 0 BY <2>3, <3>1 DEF Recurs
    <3>2. CASE n # 0
      <4>1. n \in 1..Len(s) /\ n - 1 \in 0..Len(s) BY <3>2
      <4> QED BY <2>2, <2>3, <3>2, <4>1 DEF Recurs
    <3> QED BY <3>1, <3>2
  <2>5. f = [n \in 0..Len(s) |-> f[n]]
    BY <2>3 DEF Recurs
  <2>6. Unrolls(f)
    BY <2>4, <2>5 DEF Unrolls
  <2> QED BY <2>6
<1>2. Unrolls(ProductUpTo(s))
  <2>1. ProductUpTo(s) = CHOOSE f : Unrolls(f)
    BY DEF ProductUpTo
  <2> HIDE DEF Unrolls
  <2> QED BY <1>1, <2>1
<1> DEFINE u == ProductUpTo(s)
<1>3. /\ u[0] = 1 /\ \A n \in 1..Len(s) : u[n] = u[n - 1] * s[n]
      /\ u = [n \in 0..Len(s) |-> u[n]]
  <2>0. Unrolls(u) BY <1>2
  <2> HIDE DEF u
  <2>1. u = [n \in 0..Len(s) |-> IF n = 0 THEN 1 ELSE u[n - 1] * s[n]]
    BY <2>0
  <2>2. 0 \in 0..Len(s) /\ \A n \in 1..Len(s) : n \in 0..Len(s) /\ n # 0
    BY <1>0
  <2>3. u = [n \in 0..Len(s) |-> u[n]]
    BY ONLY <2>1
  <2>4. u[0] = 1 BY <2>1, <2>2
  <2>5. \A n \in 1..Len(s) : u[n] = u[n - 1] * s[n] BY <2>1, <2>2
  <2> QED BY <2>3, <2>4, <2>5
<1>4. \A n \in 0..Len(s) : u[n] \in Nat
  <2> DEFINE S == {n \in 0..Len(s) : u[n] \in Nat}
  <2> HIDE DEF u
  <2>1. 0 \in S BY <1>0, <1>3
  <2>2. ASSUME NEW k \in 0..(Len(s) - 1), k \in S PROVE k + 1 \in S
    <3>1. k + 1 \in 1..Len(s) /\ (k + 1) - 1 = k /\ u[k] \in Nat /\ k + 1 \in 0..Len(s)
      BY <1>0, <2>2
    <3>2. u[k + 1] = u[k] * s[k + 1] /\ s[k + 1] \in Nat
      BY <1>0, <1>3, <3>1
    <3>3. u[k + 1] \in Nat BY <3>1, <3>2
    <3> QED BY <3>1, <3>3
  <2> HIDE DEF S
  <2>3. 0..Len(s) \subseteq S BY <1>0, <2>1, <2>2, InductionUpTo
  <2> QED BY <2>3 DEF S
<1> HIDE DEF u
<1>5. u \in [0..Len(s) -> Nat]
  BY <1>3, <1>4
<1> QED BY <1>3, <1>5 DEF u

LEMMA SumOfBeginning ==
  ASSUME NEW s \in Seq(Nat), NEW t \in Seq(Nat), NEW n \in Nat, n <= Len(s), n <= Len(t),
         \A k \in 1..n : s[k] = t[k]
  PROVE  \A k \in 0..n : SumUpTo(s)[k] = SumUpTo(t)[k]
PROOF
<1> DEFINE S == {k \in 0..n : SumUpTo(s)[k] = SumUpTo(t)[k]}
<1>1. 0 \in S
  BY SumSteps
<1>2. ASSUME NEW k \in 0..(n - 1), k \in S PROVE k + 1 \in S
  <2>1. k + 1 \in 1..n /\ k + 1 \in 1..Len(s) /\ k + 1 \in 1..Len(t) /\ (k + 1) - 1 = k
        /\ k + 1 \in 0..n
    OBVIOUS
  <2>2. SumUpTo(s)[k + 1] = SumUpTo(s)[k] + s[k + 1]
    BY <2>1, SumSteps
  <2>3. SumUpTo(t)[k + 1] = SumUpTo(t)[k] + t[k + 1]
    BY <2>1, SumSteps
  <2> QED BY <1>2, <2>1, <2>2, <2>3
<1> HIDE DEF S
<1>3. 0..n \subseteq S
  BY <1>1, <1>2, InductionUpTo
<1> QED BY <1>3 DEF S
=============================================================================
