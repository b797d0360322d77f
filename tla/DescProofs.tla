----------------------------- MODULE DescProofs -----------------------------
(***************************************************************************)
(* Proofs about DescProgramming, for every list, page, scatter table and   *)
(* call of a client that keeps to Tidy.                                    *)
(*                                                                         *)
(* What descriptors move is the concatenation of what each of them moves,  *)
(* which FlattenSeq computes. The argument follows the code: a chunk       *)
(* (ChunkCarries), the loop over the scatter table (EntryInv), a transfer  *)
(* (BindTransfers) and the loop over a batch (BatchInv) each append the    *)
(* bytes that are next in what the call asks for.                          *)
(***************************************************************************)
EXTENDS DescProgramming, SequenceTheorems, WellFoundedInduction, TLAPS

(* A set of natural numbers has a least one.                               *)
LEMMA Least ==
  ASSUME NEW T \in SUBSET Nat, T # {}
  PROVE  \E x \in T : \A y \in T : x <= y
<1>1. PICK x \in T : \A y \in T : ~(<<y, x>> \in OpToRel(<, Nat))
  BY NatLessThanWellFounded, WFMin
<1>2. ASSUME NEW y \in T PROVE x <= y
  <2>1. x \in Nat /\ y \in Nat
    OBVIOUS
  <2>2. ASSUME y < x PROVE <<y, x>> \in OpToRel(<, Nat)
    <3>1. <<y, x>> \in Nat \X Nat /\ <<y, x>>[1] < <<y, x>>[2]
      BY <2>1, <2>2
    <3> QED
      BY <3>1 DEF OpToRel
  <2>3. ~(y < x)
    BY <1>1, <2>2, Zenon
  <2> QED
    BY <2>1, <2>3
<1> QED
  BY <1>2

----------------------------------------------------------------------------
(* Indices that wrap, and pages.                                           *)

LEMMA QuotientUnique ==
  ASSUME NEW n \in Nat \ {0}, NEW q \in Int, NEW r \in 0 .. n - 1
  PROVE  (q * n + r) \div n = q /\ (q * n + r) % n = r
<1> DEFINE x == q * n + r
           d == x \div n
           e == x % n
<1>1. x \in Int
  OBVIOUS
<1> HIDE DEF x
<1>2. d \in Int /\ e \in 0 .. n - 1 /\ x = n * d + e
  BY <1>1
<1>3. x = q * n + r
  BY DEF x
<1> HIDE DEF d, e
<1>4. ~(d <= q - 1)
  <2> SUFFICES ASSUME d <= q - 1 PROVE FALSE
    OBVIOUS
  <2>1. n * d <= n * (q - 1)
    BY <1>2
  <2>2. n * (q - 1) = q * n - n
    OBVIOUS
  <2>3. n * d \in Int /\ q * n \in Int
    BY <1>2
  <2> QED
    BY <1>2, <1>3, <2>1, <2>2, <2>3
<1>5. ~(q <= d - 1)
  <2> SUFFICES ASSUME q <= d - 1 PROVE FALSE
    OBVIOUS
  <2>1. n * q <= n * (d - 1)
    BY <1>2
  <2>2. n * (d - 1) = n * d - n /\ n * q = q * n
    BY <1>2
  <2>3. n * d \in Int /\ q * n \in Int
    BY <1>2
  <2> QED
    BY <1>2, <1>3, <2>1, <2>2, <2>3
<1>6. d = q
  BY <1>2, <1>4, <1>5
<1>7. e = r
  <2>1. n * d = q * n /\ q * n \in Int
    BY <1>6
  <2> QED
    BY <1>2, <1>3, <2>1
<1> QED
  BY <1>6, <1>7 DEF d, e, x

LEMMA Quotient ==
  ASSUME NEW n \in Nat \ {0}, NEW x \in Nat
  PROVE  /\ x \div n \in Nat /\ x % n \in 0 .. n - 1
         /\ x = (x \div n) * n + (x % n)
<1> DEFINE d == x \div n
           e == x % n
<1>1. d \in Int /\ e \in 0 .. n - 1 /\ x = n * d + e
  OBVIOUS
<1> HIDE DEF d, e
<1>2. d >= 0
  <2> SUFFICES ASSUME d <= -1 PROVE FALSE
    BY <1>1
  <2>1. n * d <= n * (-1)
    BY <1>1
  <2> QED
    BY <1>1, <2>1
<1>3. n * d = d * n
  BY <1>1
<1>4. d \in Nat /\ x = d * n + e
  BY <1>1, <1>2, <1>3
<1> QED
  BY <1>1, <1>4 DEF d, e

(* Indices of a list wrap once more without a difference.                  *)
LEMMA WrapTwice ==
  ASSUME NEW n \in Nat \ {0}, NEW a \in Nat, NEW b \in Nat
  PROVE  ((a % n) + b) % n = (a + b) % n
<1> DEFINE q == a \div n
           r == a % n
           c == (r + b) \div n
           e == (r + b) % n
<1>1. q \in Nat /\ r \in 0 .. n - 1 /\ a = q * n + r
  BY Quotient
<1> HIDE DEF q, r
<1>2. r + b \in Nat
  BY <1>1
<1>3. c \in Nat /\ e \in 0 .. n - 1 /\ r + b = c * n + e
  BY <1>2, Quotient
<1> HIDE DEF c, e
<1>4. a + b = (q + c) * n + e
  <2>1. (q + c) * n = q * n + c * n
    BY <1>1, <1>3
  <2>2. q * n \in Int /\ c * n \in Int
    BY <1>1, <1>3
  <2> QED
    BY <1>1, <1>3, <2>1, <2>2
<1>5. q + c \in Int
  BY <1>1, <1>3
<1>6. ((q + c) * n + e) % n = e
  BY <1>3, <1>5, QuotientUnique
<1> QED
  BY <1>4, <1>6 DEF e, r

(* As many indices as the list has are different.                          *)
LEMMA WrapUnique ==
  ASSUME NEW n \in Nat \ {0}, NEW s \in Nat, NEW j \in Nat, NEW k \in Nat,
         j < k, k - j < n
  PROVE  (s + j) % n # (s + k) % n
<1> DEFINE q == (s + j) \div n
           r == (s + j) % n
           c == (s + k) \div n
           e == (s + k) % n
<1>0. s + j \in Nat /\ s + k \in Nat
  OBVIOUS
<1>1. q \in Nat /\ r \in 0 .. n - 1 /\ s + j = q * n + r
  BY <1>0, Quotient
<1>2. c \in Nat /\ e \in 0 .. n - 1 /\ s + k = c * n + e
  BY <1>0, Quotient
<1> HIDE DEF q, r, c, e
<1> SUFFICES ASSUME r = e PROVE FALSE
  BY DEF r, e
<1>3. k - j = (c - q) * n
  <2>1. (c - q) * n = c * n - q * n
    BY <1>1, <1>2
  <2>2. q * n \in Int /\ c * n \in Int
    BY <1>1, <1>2
  <2> QED
    BY <1>1, <1>2, <2>1, <2>2
<1>4. ~(c - q <= 0)
  <2> SUFFICES ASSUME c - q <= 0 PROVE FALSE
    OBVIOUS
  <2>1. (c - q) * n <= 0
    BY <1>1, <1>2
  <2> QED
    BY <1>3, <2>1
<1>5. (c - q) * n >= n
  BY <1>1, <1>2, <1>4
<1> QED
  BY <1>3, <1>5

LEMMA Pages ==
  ASSUME NEW size \in Nat
  PROVE  /\ DivRoundUp(size, Page) \in Nat
         /\ DivRoundUp(size, Page) * Page >= size
         /\ (DivRoundUp(size, Page) - 1) * Page < size
<1>1. Page \in Nat /\ Page >= 1
  BY PageAssumption
<1> DEFINE x == size + Page - 1
           q == x \div Page
           r == x % Page
<1>2. x \in Nat /\ x = size + Page - 1
  BY <1>1
<1> HIDE DEF x
<1>3. q \in Nat /\ r \in 0 .. Page - 1 /\ x = q * Page + r
  BY <1>1, <1>2, Quotient
<1>4. DivRoundUp(size, Page) = q
  BY DEF DivRoundUp, x
<1> HIDE DEF q, r
<1>5. q * Page >= size
  <2>1. q * Page \in Int
    BY <1>1, <1>3
  <2> QED
    BY <1>1, <1>2, <1>3, <2>1
<1>6. (q - 1) * Page < size
  <2>1. q * Page \in Int /\ (q - 1) * Page = q * Page - Page
    BY <1>1, <1>3
  <2> QED
    BY <1>1, <1>2, <1>3, <2>1
<1> QED
  BY <1>3, <1>4, <1>5, <1>6

LEMMA PagesUnique ==
  ASSUME NEW n \in Nat, NEW size \in Nat, n * Page >= size, (n - 1) * Page < size
  PROVE  DivRoundUp(size, Page) = n
<1>1. Page \in Nat /\ Page >= 1
  BY PageAssumption
<1> DEFINE q == DivRoundUp(size, Page)
<1>2. q \in Nat /\ q * Page >= size /\ (q - 1) * Page < size
  BY Pages
<1> HIDE DEF q
<1>3. ~(q <= n - 1)
  <2> SUFFICES ASSUME q <= n - 1 PROVE FALSE
    OBVIOUS
  <2>1. q * Page <= (n - 1) * Page
    BY <1>1, <1>2
  <2> QED
    BY <1>1, <1>2, <2>1
<1>4. ~(n <= q - 1)
  <2> SUFFICES ASSUME n <= q - 1 PROVE FALSE
    OBVIOUS
  <2>1. n * Page <= (q - 1) * Page
    BY <1>1, <1>2
  <2> QED
    BY <1>1, <1>2, <2>1
<1> QED
  BY <1>2, <1>3, <1>4 DEF q

----------------------------------------------------------------------------
(* Sequences, one after the other.                                         *)

(* The first m of the sequences p, one after the other.                    *)
Flat(p, m) == FlattenSeq([k \in 1 .. m |-> p[k]])

LEMMA FlattenRecursion ==
  ASSUME NEW p, NEW m \in Nat, m >= 1
  PROVE  \E g : /\ Flat(p, m) = g[m] /\ g[1] = p[1]
                /\ \A i \in 2 .. m : g[i] = g[i - 1] \o p[i]
<1> DEFINE s == [k \in 1 .. m |-> p[k]]
           C(x, i) == x \o s[i]
           R(n, f) == f = [i \in 1 .. n |-> IF i = 1 THEN s[i] ELSE C(f[i - 1], i)]
           B == {n \in 1 .. m : ~\E f : R(n, f)}
           g == CHOOSE f : R(m, f)
<1>1. Len(s) = m
  OBVIOUS
<1>2. Flat(p, m) = g[m]
  BY <1>1 DEF Flat, FlattenSeq
<1>2a. \A x : \A i \in 1 .. m : C(x, i) = x \o p[i]
  OBVIOUS
<1> HIDE DEF s, C
<1>3. \E f : R(m, f)
  <2> SUFFICES ASSUME B # {} PROVE FALSE
    OBVIOUS
  <2>1. B \in SUBSET Nat
    OBVIOUS
  <2> HIDE DEF B
  <2>2. PICK n \in B : \A j \in B : n <= j
    BY <2>1, Least
  <2>3. n \in 1 .. m /\ ~\E f : R(n, f)
    BY <2>2 DEF B
  <2>4. n # 1
    <3> DEFINE z == [i \in 1 .. 1 |-> s[1]]
    <3>1. z = [i \in 1 .. 1 |-> IF i = 1 THEN s[i] ELSE C(z[i - 1], i)]
      OBVIOUS
    <3>2. R(1, z)
      BY <3>1
    <3> QED
      BY <2>3, <3>2
  <2>5. n - 1 \in 1 .. m /\ ~(n <= n - 1)
    BY <2>3, <2>4
  <2>6. n - 1 \notin B
    BY <2>2, <2>5
  <2>7. PICK f : R(n - 1, f)
    BY <2>5, <2>6 DEF B
  <2> DEFINE h == [i \in 1 .. n |-> IF i = n THEN C(f[n - 1], n) ELSE f[i]]
  <2>8. ASSUME NEW i \in 1 .. n
        PROVE  h[i] = IF i = 1 THEN s[i] ELSE C(h[i - 1], i)
    <3>1. CASE i = n
      BY <2>3, <2>4, <3>1
    <3>2. CASE i # n
      <4>1. i \in 1 .. n - 1
        BY <2>3, <3>2
      <4>2. f[i] = IF i = 1 THEN s[i] ELSE C(f[i - 1], i)
        BY <2>7, <4>1
      <4> QED
        BY <2>3, <3>2, <4>1, <4>2
    <3> QED
      BY <3>1, <3>2
  <2>9. R(n, h)
    BY <2>8
  <2> QED
    BY <2>3, <2>9
<1>4. R(m, g)
  BY <1>3
<1> HIDE DEF g
<1>5. \A i \in 1 .. m : g[i] = IF i = 1 THEN s[i] ELSE C(g[i - 1], i)
  BY <1>4
<1>6. \A i \in 1 .. m : s[i] = p[i]
  BY DEF s
<1>7. g[1] = p[1]
  BY <1>5, <1>6
<1>8. ASSUME NEW i \in 2 .. m PROVE g[i] = g[i - 1] \o p[i]
  <2>1. i \in 1 .. m /\ g[i] = C(g[i - 1], i)
    BY <1>5
  <2> QED
    BY <1>2a, <2>1, Zenon
<1> QED
  BY <1>2, <1>7, <1>8, Zenon

LEMMA FlatEmpty == ASSUME NEW p PROVE Flat(p, 0) = << >>
BY DEF Flat, FlattenSeq

LEMMA FlatStep ==
  ASSUME NEW S, NEW m \in Nat, NEW p, \A k \in 1 .. m + 1 : p[k] \in Seq(S)
  PROVE  Flat(p, m + 1) = Flat(p, m) \o p[m + 1]
<1>1. PICK g : /\ Flat(p, m + 1) = g[m + 1] /\ g[1] = p[1]
               /\ \A i \in 2 .. m + 1 : g[i] = g[i - 1] \o p[i]
  <2>1. m + 1 \in Nat /\ m + 1 >= 1
    OBVIOUS
  <2> QED
    BY <2>1, FlattenRecursion, Zenon
<1>2. CASE m = 0
  <2>1. p[1] \in Seq(S)
    BY <1>2
  <2>2. << >> \o p[1] = p[1]
    BY <2>1
  <2> QED
    BY <1>1, <1>2, <2>2, FlatEmpty
<1>3. CASE m # 0
  <2>1. PICK h : /\ Flat(p, m) = h[m] /\ h[1] = p[1]
                 /\ \A i \in 2 .. m : h[i] = h[i - 1] \o p[i]
    <3>1. m >= 1
      BY <1>3
    <3> QED
      BY <3>1, FlattenRecursion, Zenon
  <2> DEFINE B == {i \in 1 .. m : g[i] # h[i]}
  <2>2. B = {}
    <3> SUFFICES ASSUME B # {} PROVE FALSE
      OBVIOUS
    <3>1. B \in SUBSET Nat
      OBVIOUS
    <3>2. PICK k \in B : \A j \in B : k <= j
      BY <3>1, Least
    <3>3. k \in 1 .. m /\ g[k] # h[k]
      BY <3>2
    <3>4. k # 1
      BY <1>1, <2>1, <3>3
    <3>5. k \in 2 .. m /\ k \in 2 .. m + 1 /\ k - 1 \in 1 .. m /\ ~(k <= k - 1)
      BY <3>3, <3>4
    <3>5a. k - 1 \notin B
      BY <3>2, <3>5
    <3>6. g[k - 1] = h[k - 1] /\ g[k] = g[k - 1] \o p[k] /\ h[k] = h[k - 1] \o p[k]
      BY <1>1, <2>1, <3>5, <3>5a, Zenon
    <3> QED
      BY <3>3, <3>6
  <2>3. g[m] = h[m]
    BY <1>3, <2>2
  <2>4. m + 1 \in 2 .. m + 1 /\ (m + 1) - 1 = m
    BY <1>3
  <2>5. g[m + 1] = g[m] \o p[m + 1]
    BY <1>1, <2>4
  <2> QED
    BY <1>1, <2>1, <2>3, <2>5
<1> QED
  BY <1>2, <1>3

LEMMA FlatType ==
  ASSUME NEW S, NEW m \in Nat, NEW p, \A k \in 1 .. m : p[k] \in Seq(S)
  PROVE  \A k \in 0 .. m : Flat(p, k) \in Seq(S)
<1> DEFINE B == {k \in 0 .. m : Flat(p, k) \notin Seq(S)}
<1> SUFFICES ASSUME B # {} PROVE FALSE
  OBVIOUS
<1>1. B \in SUBSET Nat
  OBVIOUS
<1>2. PICK k \in B : \A j \in B : k <= j
  BY <1>1, Least
<1>3. k \in 0 .. m /\ Flat(p, k) \notin Seq(S)
  BY <1>2
<1>4. k # 0
  <2>1. << >> \in Seq(S)
    OBVIOUS
  <2> QED
    BY <1>3, <2>1, FlatEmpty
<1>5. k - 1 \in 0 .. m /\ k - 1 \in Nat /\ k - 1 \notin B /\ (k - 1) + 1 = k
  BY <1>2, <1>3, <1>4
<1>6. Flat(p, k - 1) \in Seq(S) /\ p[k] \in Seq(S)
  BY <1>3, <1>4, <1>5
<1>7. \A j \in 1 .. (k - 1) + 1 : p[j] \in Seq(S)
  BY <1>3, <1>5
<1>8. Flat(p, k) = Flat(p, k - 1) \o p[k]
  BY <1>5, <1>7, FlatStep
<1> QED
  BY <1>3, <1>6, <1>8

(* The sequences p and r agree on the first m.                             *)
LEMMA FlatSame ==
  ASSUME NEW m, NEW p, NEW r, \A k \in 1 .. m : p[k] = r[k]
  PROVE  Flat(p, m) = Flat(r, m)
<1>1. [k \in 1 .. m |-> p[k]] = [k \in 1 .. m |-> r[k]]
  OBVIOUS
<1> QED
  BY <1>1 DEF Flat


----------------------------------------------------------------------------
(* What descriptors carry.                                                 *)

DescSet == [addr : Nat, size : Nat, irq : BOOLEAN]

(* What the descriptors of a list of c move, from s on.                    *)
Pieces(c, list, s) ==
  [k \in Nat |-> [j \in 1 .. list[(s + k - 1) % c].size |->
                    list[(s + k - 1) % c].addr + j - 1]]

(* The m descriptors from s on move the first y bytes of a, none of them   *)
(* interrupts, and the others are those of before.                         *)
Carries(c, before, s, a, list, m, y) ==
  /\ Len(Flat(Pieces(c, list, s), m)) = y
  /\ \A i \in 1 .. y : Flat(Pieces(c, list, s), m)[i] = a[i]
  /\ \A k \in 0 .. m - 1 : ~list[(s + k) % c].irq
  /\ \A d \in 0 .. c - 1 : (\A k \in 0 .. m - 1 : d # (s + k) % c) => list[d] = before[d]

LEMMA PieceType ==
  \A c \in Nat \ {0} : \A list \in [0 .. c - 1 -> DescSet] : \A s \in Nat : \A k \in Nat \ {0} :
    /\ (s + k - 1) % c \in 0 .. c - 1
    /\ Pieces(c, list, s)[k] \in Seq(Nat)
    /\ Len(Pieces(c, list, s)[k]) = list[(s + k - 1) % c].size
    /\ \A j \in 1 .. list[(s + k - 1) % c].size :
         Pieces(c, list, s)[k][j] = list[(s + k - 1) % c].addr + j - 1
<1> TAKE c \in Nat \ {0}
<1> TAKE list \in [0 .. c - 1 -> DescSet]
<1> TAKE s \in Nat
<1> TAKE k \in Nat \ {0}
<1> DEFINE d == (s + k - 1) % c
<1>1. s + k - 1 \in Nat
  OBVIOUS
<1>2. d \in 0 .. c - 1
  BY <1>1, Quotient
<1> HIDE DEF d
<1>3. list[d].size \in Nat /\ list[d].addr \in Nat
  BY <1>2 DEF DescSet
<1>4. Pieces(c, list, s)[k] = [j \in 1 .. list[d].size |-> list[d].addr + j - 1]
  BY DEF Pieces, d
<1>5. \A j \in 1 .. list[d].size : list[d].addr + j - 1 \in Nat
  BY <1>3
<1> DEFINE p == [j \in 1 .. list[d].size |-> list[d].addr + j - 1]
<1>6. p \in [1 .. list[d].size -> Nat]
  BY <1>5
<1>7. p \in Seq(Nat) /\ Len(p) = list[d].size
  <2>1. PICK n \in Nat : n = list[d].size
    BY <1>3
  <2>2. PICK w : w = p
    OBVIOUS
  <2>3. w \in [1 .. n -> Nat]
    BY <1>6, <2>1, <2>2
  <2>4. w \in Seq(Nat)
    BY <2>3
  <2>5. Len(w) = n
    BY <2>3, <2>4, LenProperties
  <2> QED
    BY <2>1, <2>2, <2>4, <2>5
<1>8. \A j \in 1 .. list[d].size : p[j] = list[d].addr + j - 1
  OBVIOUS
<1> HIDE DEF p
<1>9. Pieces(c, list, s)[k] = p
  BY <1>4 DEF p
<1> QED
  BY <1>2, <1>7, <1>8, <1>9 DEF d

LEMMA AppendBytes ==
  ASSUME NEW y \in Nat, NEW n \in Nat, NEW a, NEW u \in Seq(Nat), NEW v \in Seq(Nat),
         Len(u) = y, \A i \in 1 .. y : u[i] = a[i],
         Len(v) = n, \A j \in 1 .. n : v[j] = a[y + j]
  PROVE  Len(u \o v) = y + n /\ \A i \in 1 .. y + n : (u \o v)[i] = a[i]
<1>1. Len(u \o v) = y + n
  BY ConcatProperties
<1>2. ASSUME NEW i \in 1 .. y + n PROVE (u \o v)[i] = a[i]
  <2>1. (u \o v)[i] = IF i <= y THEN u[i] ELSE v[i - y]
    OBVIOUS
  <2>2. CASE i <= y
    BY <2>1, <2>2
  <2>3. CASE ~(i <= y)
    <3>1. i - y \in 1 .. n /\ y + (i - y) = i
      BY <2>3
    <3>2. v[i - y] = a[y + (i - y)]
      BY <3>1
    <3> QED
      BY <2>1, <2>3, <3>1, <3>2
  <2> QED
    BY <2>2, <2>3
<1> QED
  BY <1>1, <1>2

(* One more descriptor.                                                    *)
LEMMA CarriesMore ==
  ASSUME NEW c \in Nat \ {0}, NEW s \in Nat, NEW a, NEW before,
         NEW list \in [0 .. c - 1 -> DescSet], NEW other \in [0 .. c - 1 -> DescSet],
         NEW m \in 0 .. c - 1, NEW y \in Nat, NEW x \in DescSet,
         Carries(c, before, s, a, list, m, y),
         other[(s + m) % c] = x, ~x.irq,
         \A d \in 0 .. c - 1 : d # (s + m) % c => other[d] = list[d],
         \A j \in 0 .. x.size - 1 : a[y + j + 1] = x.addr + j
  PROVE  Carries(c, before, s, a, other, m + 1, y + x.size)
<1> DEFINE P == Pieces(c, list, s)
           Q == Pieces(c, other, s)
           e == (s + m) % c
<1>1. e \in 0 .. c - 1 /\ m \in Nat /\ x.size \in Nat /\ x.addr \in Nat
  <2>1. s + m \in Nat /\ m \in Nat
    OBVIOUS
  <2>2. e \in 0 .. c - 1
    BY <2>1, Quotient
  <2> QED
    BY <2>1, <2>2 DEF DescSet
<1>2. ASSUME NEW k \in 0 .. m - 1
      PROVE  (s + k) % c \in 0 .. c - 1 /\ (s + k) % c # e
  <2>1. k \in Nat /\ k < m /\ m - k < c /\ s + k \in Nat
    OBVIOUS
  <2> QED
    <3>1. (s + k) % c \in 0 .. c - 1
      BY <2>1, Quotient
    <3>2. (s + k) % c # e
      <4> HIDE DEF P, Q
      <4>1. PICK z \in Nat : z = m
        BY <1>1
      <4>2. k \in Nat /\ k < z /\ z - k < c
        BY <2>1, <4>1
      <4>3. (s + k) % c # (s + z) % c
        BY ONLY c \in Nat \ {0}, s \in Nat, z \in Nat, <4>2, WrapUnique
      <4> QED
        BY <4>1, <4>3
    <3> QED
      BY <3>1, <3>2
<1>3. \A k \in 1 .. m : Q[k] = P[k]
  <2> SUFFICES ASSUME NEW k \in 1 .. m PROVE Q[k] = P[k]
    OBVIOUS
  <2>1. k - 1 \in 0 .. m - 1 /\ s + (k - 1) = s + k - 1
    OBVIOUS
  <2>2. other[(s + k - 1) % c] = list[(s + k - 1) % c]
    BY <1>2, <2>1
  <2> QED
    <3>1. PICK z : z = (s + k - 1) % c
      OBVIOUS
    <3>2. /\ Q[k] = [j \in 1 .. other[z].size |-> other[z].addr + j - 1]
          /\ P[k] = [j \in 1 .. list[z].size |-> list[z].addr + j - 1]
      BY <3>1 DEF Pieces
    <3> QED
      BY <2>2, <3>1, <3>2
<1>4. Flat(Q, m) = Flat(P, m)
  <2> HIDE DEF P, Q
  <2> QED
    BY <1>3, FlatSame
<1>5. \A k \in 1 .. m + 1 : Q[k] \in Seq(Nat)
  <2> SUFFICES ASSUME NEW k \in 1 .. m + 1 PROVE Q[k] \in Seq(Nat)
    OBVIOUS
  <2>1. k \in Nat \ {0} /\ (s + k - 1) % c = (s + k - 1) % c
    BY <1>1
  <2> QED
    BY <2>1, PieceType
<1>6. Len(Q[m + 1]) = x.size /\ \A j \in 1 .. x.size : Q[m + 1][j] = x.addr + j - 1
  <2>1. PICK k \in Nat \ {0} : k = m + 1
    BY <1>1
  <2>2. s + k - 1 = s + m
    BY <1>1, <2>1
  <2>3. e = (s + k - 1) % c /\ other[e] = x
    BY <2>2
  <2> HIDE DEF Q, e
  <2>4. Q = Pieces(c, other, s)
    BY DEF Q
  <2>5. Len(Pieces(c, other, s)[k]) = other[e].size
    BY <2>2, <2>3, PieceType, ZenonT(40)
  <2>6. ASSUME NEW j \in 1 .. other[e].size
        PROVE  Pieces(c, other, s)[k][j] = other[e].addr + j - 1
    <3>1. j \in 1 .. other[(s + k - 1) % c].size
      BY <2>3
    <3>2. Pieces(c, other, s)[k][j] = other[(s + k - 1) % c].addr + j - 1
      BY <3>1 DEF Pieces
    <3> QED
      BY <2>3, <3>2
  <2> QED
    BY <2>1, <2>3, <2>4, <2>5, <2>6
<1> DEFINE u == Flat(Q, m)
           v == Q[m + 1]
<1>7. u \in Seq(Nat) /\ v \in Seq(Nat) /\ Flat(Q, m + 1) = u \o v
  <2> HIDE DEF Q
  <2>1. \A k \in 1 .. m : Q[k] \in Seq(Nat)
    BY <1>5
  <2>2. m \in 0 .. m
    BY <1>1
  <2>3. u \in Seq(Nat)
    BY <1>1, <2>1, <2>2, FlatType
  <2>4. v \in Seq(Nat)
    BY <1>1, <1>5
  <2> QED
    BY <1>1, <1>5, <2>3, <2>4, FlatStep, ZenonT(40)
<1>8. Len(u) = y /\ \A i \in 1 .. y : u[i] = a[i]
  BY <1>4 DEF Carries
<1>9. \A j \in 1 .. x.size : v[j] = a[y + j]
  <2> SUFFICES ASSUME NEW j \in 1 .. x.size PROVE v[j] = a[y + j]
    OBVIOUS
  <2>1. j - 1 \in 0 .. x.size - 1 /\ y + (j - 1) + 1 = y + j
    BY <1>1
  <2>2. a[y + j] = x.addr + (j - 1)
    BY <2>1
  <2> QED
    BY <1>1, <1>6, <2>2
<1>10. /\ Len(Flat(Q, m + 1)) = y + x.size
       /\ \A i \in 1 .. y + x.size : Flat(Q, m + 1)[i] = a[i]
  <2> HIDE DEF u, v, Q
  <2>1. PICK n \in Nat : n = x.size
    BY <1>1
  <2>2. Len(v) = n /\ \A j \in 1 .. n : v[j] = a[y + j]
    BY <1>6, <1>9, <2>1 DEF v
  <2>3. Len(u \o v) = y + n /\ \A i \in 1 .. y + n : (u \o v)[i] = a[i]
    BY ONLY y \in Nat, n \in Nat, <1>7, <1>8, <2>2, AppendBytes
  <2> QED
    BY <1>7, <2>1, <2>3
<1>11. ASSUME NEW k \in 0 .. (m + 1) - 1 PROVE ~other[(s + k) % c].irq
  <2>1. CASE k = m
    BY <2>1
  <2>2. CASE k # m
    <3>1. k \in 0 .. m - 1
      BY <2>2
    <3> QED
      BY <1>2, <3>1 DEF Carries
  <2> QED
    BY <2>1, <2>2
<1>12. ASSUME NEW d \in 0 .. c - 1, \A k \in 0 .. (m + 1) - 1 : d # (s + k) % c
       PROVE  other[d] = before[d]
  <2>1. m \in 0 .. (m + 1) - 1 /\ \A k \in 0 .. m - 1 : k \in 0 .. (m + 1) - 1
    BY <1>1
  <2>2. d # e /\ \A k \in 0 .. m - 1 : d # (s + k) % c
    BY <1>12, <2>1
  <2> QED
    BY <2>2 DEF Carries
<1> QED
  BY <1>10, <1>11, <1>12 DEF Carries

----------------------------------------------------------------------------
(* A chunk.                                                                *)

(* The list with the first n descriptors of a chunk.                       *)
ChunkList(list, addr, size, stride, mask, next, n) ==
  [d \in DOMAIN list |->
     IF {k \in 0 .. n - 1 : (next + k) % mask = d} = {} THEN list[d]
     ELSE ChunkDesc(addr, size, stride,
                    CHOOSE k \in {k \in 0 .. n - 1 : (next + k) % mask = d} : TRUE)]

(* A descriptor at addr that does not interrupt.                           *)
QuietAt(desc, addr) == desc \in DescSet /\ ~desc.irq /\ desc.addr = addr

LEMMA ChunkDescType ==
  ASSUME NEW addr \in Nat, NEW size \in Nat, NEW stride \in Nat, NEW k \in Nat
  PROVE  QuietAt(ChunkDesc(addr, size, stride, k), addr + k * Page)
<1>1. Page \in Nat \ {0}
  BY PageAssumption
<1>2. k * Page \in Nat
  BY <1>1
<1> DEFINE z == size % Page
<1>3. z \in 0 .. Page - 1
  BY <1>1, Quotient
<1>4. z \in Nat
  BY <1>1, <1>3
<1> DEFINE w == IF k = DivRoundUp(size, Page) - 1 /\ z # 0 THEN z ELSE stride
<1>5. w \in Nat
  BY <1>4
<1> DEFINE v == k * Page
<1>6. addr + v \in Nat
  BY <1>2
<1>7. ChunkDesc(addr, size, stride, k) = [addr |-> addr + v, size |-> w, irq |-> FALSE]
  BY DEF ChunkDesc
<1> HIDE DEF v, w
<1>8. [addr |-> addr + v, size |-> w, irq |-> FALSE] \in DescSet
  BY <1>5, <1>6 DEF DescSet
<1>9. QuietAt(ChunkDesc(addr, size, stride, k), addr + v)
  BY <1>7, <1>8 DEF QuietAt
<1> QED
  BY <1>9 DEF v

(* The list a chunk is written to stays one, descriptor by descriptor.     *)
LEMMA ChunkListType ==
  ASSUME NEW c \in Nat \ {0}, NEW list \in [0 .. c - 1 -> DescSet], NEW addr \in Nat,
         NEW size \in Nat, NEW stride \in Nat, NEW mask, NEW next, NEW n \in Nat
  PROVE  ChunkList(list, addr, size, stride, mask, next, n) \in [0 .. c - 1 -> DescSet]
<1> DEFINE At(d) == {k \in 0 .. n - 1 : (next + k) % mask = d}
           G(k) == ChunkDesc(addr, size, stride, k)
           x(d) == IF At(d) = {} THEN list[d] ELSE G(CHOOSE k \in At(d) : TRUE)
<1>1. \A k \in Nat : G(k) \in DescSet
  BY ChunkDescType DEF QuietAt
<1>2. \A d : At(d) \subseteq Nat
  OBVIOUS
<1>3. ChunkList(list, addr, size, stride, mask, next, n) = [d \in 0 .. c - 1 |-> x(d)]
  BY DEF ChunkList
<1> HIDE DEF At, G
<1>4. ASSUME NEW d \in 0 .. c - 1 PROVE x(d) \in DescSet
  <2>1. CASE At(d) = {}
    BY <2>1
  <2>2. CASE At(d) # {}
    <3>1. (CHOOSE k \in At(d) : TRUE) \in Nat
      BY <1>2, <2>2
    <3> QED
      BY <1>1, <2>2, <3>1
  <2> QED
    BY <2>1, <2>2
<1> HIDE DEF x
<1> QED
  BY <1>3, <1>4

(* The n descriptors at next are those from s on.                          *)
Aligned(c, s, mask, next, n) ==
  \A k \in 0 .. n - 1 : (next + k) % mask = (s + k) % c

(* A chunk of n descriptors behind the m that are there.                   *)
LEMMA ChunkCarries ==
  ASSUME NEW c \in Nat \ {0}, NEW s \in Nat, NEW a, NEW before,
         NEW list \in [0 .. c - 1 -> DescSet], NEW m \in Nat, NEW y \in Nat,
         NEW addr \in Nat, NEW size \in Nat, NEW stride \in Nat, NEW mask, NEW next,
         NEW n \in Nat \ {0}, n = DivRoundUp(size, Page), m + n <= c,
         Carries(c, before, s, a, list, m, y),
         Aligned(c, s + m, mask, next, n),
         \A k \in 0 .. n - 1 : \A j \in 0 .. ChunkDesc(addr, size, stride, k).size - 1 :
           a[y + k * stride + j + 1] = addr + k * Page + j
  PROVE  Carries(c, before, s, a, ChunkList(list, addr, size, stride, mask, next, n), m + n,
                 y + (n - 1) * stride + ChunkDesc(addr, size, stride, n - 1).size)
<1> DEFINE L(i) == ChunkList(list, addr, size, stride, mask, next, i)
           G(k) == ChunkDesc(addr, size, stride, k)
           Y(i) == y + i * stride
           X(k) == addr + k * Page
           W(i) == Carries(c, before, s, a, L(i), m + i, Y(i))
<1>0. Page \in Nat \ {0}
  BY PageAssumption
<1>1. \A i \in Nat : L(i) \in [0 .. c - 1 -> DescSet]
  BY ChunkListType
<1>2. \A k \in Nat : G(k) \in DescSet /\ ~G(k).irq /\ G(k).addr = X(k)
  <2> SUFFICES ASSUME NEW k \in Nat
               PROVE  G(k) \in DescSet /\ ~G(k).irq /\ G(k).addr = X(k)
    OBVIOUS
  <2>1. QuietAt(G(k), X(k))
    BY ChunkDescType
  <2> QED
    BY <2>1 DEF QuietAt
<1>3. \A k \in 0 .. n - 2 : G(k).size = stride
  BY DEF ChunkDesc
<1>4. \A i \in Nat : Y(i) \in Nat /\ Y(i + 1) = Y(i) + stride
  <2> SUFFICES ASSUME NEW i \in Nat PROVE Y(i) \in Nat /\ Y(i + 1) = Y(i) + stride
    OBVIOUS
  <2> DEFINE v == i * stride
             w == (i + 1) * stride
  <2>1. v \in Nat /\ w = v + stride
    OBVIOUS
  <2> HIDE DEF v, w
  <2>2. y + v \in Nat /\ y + w = y + v + stride
    BY <2>1
  <2> QED
    BY <2>2 DEF v, w
<1>5. \A k \in 0 .. n - 1 : \A j \in 0 .. G(k).size - 1 : a[Y(k) + j + 1] = X(k) + j
  OBVIOUS
<1>6. \A i \in 0 .. n - 1 :
        /\ L(i + 1)[((s + m) + i) % c] = G(i)
        /\ \A d \in 0 .. c - 1 : d # ((s + m) + i) % c => L(i + 1)[d] = L(i)[d]
  <2> SUFFICES ASSUME NEW i \in 0 .. n - 1
               PROVE  /\ L(i + 1)[((s + m) + i) % c] = G(i)
                      /\ \A d \in 0 .. c - 1 : d # ((s + m) + i) % c => L(i + 1)[d] = L(i)[d]
    OBVIOUS
  <2> DEFINE t == s + m
             e == (t + i) % c
             At(d, h) == {k \in 0 .. h - 1 : (next + k) % mask = d}
  <2>1. t \in Nat /\ i \in Nat /\ i < c
    OBVIOUS
  <2>2. \A k \in 0 .. i : (next + k) % mask = (t + k) % c
    BY DEF Aligned
  <2> HIDE DEF t
  <2>3. e \in 0 .. c - 1
    <3>1. t + i \in Nat
      BY <2>1
    <3> QED
      BY <3>1, Quotient
  <2>4. \A h : \A d \in 0 .. c - 1 :
          L(h)[d] = IF At(d, h) = {} THEN list[d] ELSE G(CHOOSE k \in At(d, h) : TRUE)
    BY DEF ChunkList
  <2>5. At(e, i + 1) = {i}
    <3>1. i \in At(e, i + 1)
      BY <2>1, <2>2
    <3>2. ASSUME NEW k \in At(e, i + 1), k # i PROVE FALSE
      <4>1. k \in 0 .. i /\ k \in Nat /\ k < i /\ i - k < c /\ (next + k) % mask = e
        BY <3>2
      <4>2. (t + k) % c = (t + i) % c
        BY <2>2, <4>1
      <4>3. (t + k) % c # (t + i) % c
        BY ONLY c \in Nat \ {0}, <2>1, <4>1, WrapUnique
      <4> QED
        BY <4>2, <4>3
    <3> QED
      BY <3>1, <3>2
  <2>6. ASSUME NEW d \in 0 .. c - 1, d # e PROVE At(d, i + 1) = At(d, i)
    <3>1. i \notin At(d, i + 1)
      BY <2>1, <2>2, <2>6
    <3> QED
      BY <2>1, <3>1, SMTT(40)
  <2>7. (CHOOSE k \in {i} : TRUE) = i
    OBVIOUS
  <2> HIDE DEF At, G, L, e
  <2>8. L(i + 1)[e] = G(i)
    BY <2>3, <2>4, <2>5, <2>7
  <2>9. ASSUME NEW d \in 0 .. c - 1, d # e PROVE L(i + 1)[d] = L(i)[d]
    <3>1. PICK U : U = At(d, i)
      OBVIOUS
    <3>2. At(d, i + 1) = U
      BY <2>6, <2>9, <3>1
    <3>3. L(i)[d] = IF U = {} THEN list[d] ELSE G(CHOOSE k \in U : TRUE)
      BY <2>4, <3>1, SMTT(40)
    <3>4. L(i + 1)[d] = IF U = {} THEN list[d] ELSE G(CHOOSE k \in U : TRUE)
      BY <2>4, <3>2, SMTT(40)
    <3> QED
      BY <3>3, <3>4
  <2> QED
    BY <2>8, <2>9 DEF e, t
<1>7. L(0) = list
  BY DEF ChunkList
<1>8. W(0)
  <2>1. Y(0) = y /\ m + 0 = m
    OBVIOUS
  <2> HIDE DEF L, Y
  <2> QED
    BY <1>7, <2>1
<1> HIDE DEF L, G, Y, X
<1>9. ASSUME NEW i \in 0 .. n - 1, W(i)
      PROVE  Carries(c, before, s, a, L(i + 1), m + (i + 1), Y(i) + G(i).size)
  <2>1. PICK p \in 0 .. c - 1 : p = m + i
    OBVIOUS
  <2>2. PICK x \in DescSet : x = G(i)
    BY <1>2
  <2>3. L(i) \in [0 .. c - 1 -> DescSet] /\ L(i + 1) \in [0 .. c - 1 -> DescSet]
    BY <1>1, SMTT(40)
  <2>4. PICK z \in Nat : z = Y(i)
    <3>1. i \in Nat
      OBVIOUS
    <3>2. Y(i) \in Nat
      BY <1>4, <3>1
    <3> QED
      BY <3>2
  <2>5. (s + m) + i = s + p /\ p + 1 = m + (i + 1)
    BY <2>1
  <2>6. /\ L(i + 1)[(s + p) % c] = x
        /\ \A d \in 0 .. c - 1 : d # (s + p) % c => L(i + 1)[d] = L(i)[d]
    <3>1. PICK e : e = ((s + m) + i) % c
      OBVIOUS
    <3>2. L(i + 1)[e] = G(i) /\ \A d \in 0 .. c - 1 : d # e => L(i + 1)[d] = L(i)[d]
      BY <1>6, <3>1
    <3>3. e = (s + p) % c
      BY <2>5, <3>1
    <3> QED
      BY <2>2, <3>2, <3>3, Zenon
  <2>7. ~x.irq
    BY <1>2, <2>2
  <2>8. \A j \in 0 .. x.size - 1 : a[z + j + 1] = x.addr + j
    <3>1. \A j \in 0 .. G(i).size - 1 : a[Y(i) + j + 1] = X(i) + j
      BY <1>5
    <3>2. G(i).addr = X(i)
      BY <1>2, <2>1
    <3>3. PICK w : w = X(i)
      OBVIOUS
    <3>4. x.addr = w /\ \A j \in 0 .. x.size - 1 : a[z + j + 1] = w + j
      BY <2>2, <2>4, <3>1, <3>2, <3>3
    <3> QED
      BY ONLY <3>4
  <2>9. Carries(c, before, s, a, L(i), p, z)
    BY <1>9, <2>1, <2>4
  <2>10. Carries(c, before, s, a, L(i + 1), p + 1, z + x.size)
    BY ONLY c \in Nat \ {0}, s \in Nat, p \in 0 .. c - 1, z \in Nat, x \in DescSet,
            <2>3, <2>6, <2>7, <2>8, <2>9, CarriesMore, ZenonT(40)
  <2> QED
    BY <2>2, <2>4, <2>5, <2>10
<1> DEFINE B == {i \in 0 .. n - 1 : ~W(i)}
<1>10. B = {}
  <2> SUFFICES ASSUME B # {} PROVE FALSE
    OBVIOUS
  <2>1. B \in SUBSET Nat
    OBVIOUS
  <2> HIDE DEF W
  <2>2. PICK i \in B : \A j \in B : i <= j
    BY <2>1, Least
  <2>3. i \in 0 .. n - 1 /\ ~W(i) /\ i # 0
    BY <1>8, <2>2
  <2>4. i - 1 \in 0 .. n - 1 /\ i - 1 \in 0 .. n - 2 /\ i - 1 \notin B /\ (i - 1) + 1 = i
    BY <2>2, <2>3, SMTT(40)
  <2>5. W(i - 1)
    BY <2>4
  <2>6. Carries(c, before, s, a, L(i), m + i, Y(i - 1) + G(i - 1).size)
    BY <1>9, <2>4, <2>5
  <2>7. Y(i - 1) + G(i - 1).size = Y(i)
    <3>1. i - 1 \in Nat
      BY <2>4
    <3>2. Y((i - 1) + 1) = Y(i - 1) + stride /\ G(i - 1).size = stride
      BY <1>3, <1>4, <2>4, <3>1
    <3> QED
      BY <2>4, <3>2
  <2>8. W(i)
    BY <2>6, <2>7 DEF W
  <2> QED
    BY <2>3, <2>8
<1>11. n - 1 \in 0 .. n - 1 /\ (n - 1) + 1 = n
  OBVIOUS
<1>12. W(n - 1)
  BY <1>10, <1>11
<1>13. Carries(c, before, s, a, L(n), m + n, Y(n - 1) + G(n - 1).size)
  BY <1>9, <1>11, <1>12
<1> QED
  BY <1>13 DEF L, Y, G

----------------------------------------------------------------------------
(* What a call asks for, and where its bytes are.                          *)

(* What the first sequences gave stays in front.                           *)
LEMMA FlatPrefix ==
  ASSUME NEW S, NEW m \in Nat, NEW p, NEW k \in 0 .. m,
         \A i \in 1 .. m : p[i] \in Seq(S)
  PROVE  /\ Len(Flat(p, k)) <= Len(Flat(p, m))
         /\ \A i \in 1 .. Len(Flat(p, k)) : Flat(p, m)[i] = Flat(p, k)[i]
<1> DEFINE F(i) == Flat(p, i)
           W(h) == /\ Len(F(k)) <= Len(F(h))
                   /\ \A i \in 1 .. Len(F(k)) : F(h)[i] = F(k)[i]
           B == {h \in k .. m : ~W(h)}
<1>1. \A i \in 0 .. m : F(i) \in Seq(S)
  BY FlatType
<1>1a. \A i \in 0 .. m : Len(F(i)) \in Nat
  BY <1>1, LenProperties
<1>2. \A i \in 0 .. m - 1 : F(i + 1) = F(i) \o p[i + 1]
  <2> SUFFICES ASSUME NEW i \in 0 .. m - 1 PROVE F(i + 1) = F(i) \o p[i + 1]
    OBVIOUS
  <2>1. i \in Nat /\ \A j \in 1 .. i + 1 : p[j] \in Seq(S)
    OBVIOUS
  <2> QED
    BY <2>1, FlatStep
<1> HIDE DEF F
<1>3. B = {}
  <2> SUFFICES ASSUME B # {} PROVE FALSE
    OBVIOUS
  <2>1. B \in SUBSET Nat
    OBVIOUS
  <2>2. PICK h \in B : \A j \in B : h <= j
    BY <2>1, Least
  <2>3. h \in k .. m /\ ~W(h)
    BY <2>2
  <2>4. h # k
    BY <1>1a, <2>3
  <2>5. h - 1 \in k .. m /\ h - 1 \in 0 .. m - 1 /\ h - 1 \notin B /\ (h - 1) + 1 = h
    BY <2>2, <2>3, <2>4
  <2>6. W(h - 1)
    BY <2>5
  <2>7. F(h) = F(h - 1) \o p[h] /\ F(h - 1) \in Seq(S) /\ p[h] \in Seq(S)
    <3>1. h \in 1 .. m
      BY <2>3, <2>5
    <3>2. F(h - 1) \in Seq(S) /\ p[h] \in Seq(S)
      BY <1>1, <2>5, <3>1
    <3>3. F((h - 1) + 1) = F(h - 1) \o p[(h - 1) + 1]
      BY <1>2, <2>5
    <3>4. F(h) = F(h - 1) \o p[h]
      BY <2>5, <3>3
    <3> QED
      BY <3>2, <3>4
  <2>8. PICK u \in Seq(S) : u = F(h - 1)
    BY <2>7
  <2>9. PICK v \in Seq(S) : v = p[h]
    BY <2>7
  <2>10. Len(u) \in Nat /\ Len(v) \in Nat /\ Len(u \o v) = Len(u) + Len(v)
    BY <2>8, <2>9, LenProperties, ConcatProperties
  <2>11. \A i \in 1 .. Len(u) : (u \o v)[i] = u[i]
    BY <2>10
  <2>12. k \in 0 .. m /\ Len(F(k)) \in Nat
    BY <1>1a
  <2>13. W(h)
    <3>1. F(h) = u \o v
      BY <2>7, <2>8, <2>9, Zenon
    <3>2. PICK f : f = F(k)
      OBVIOUS
    <3>3. PICK w : w = u \o v
      OBVIOUS
    <3>4. Len(w) = Len(u) + Len(v) /\ \A i \in 1 .. Len(u) : w[i] = u[i]
      BY <2>10, <2>11, <3>3
    <3>5. Len(f) <= Len(u) /\ \A i \in 1 .. Len(f) : u[i] = f[i]
      BY <2>6, <2>8, <3>2
    <3>6. Len(f) <= Len(w) /\ \A i \in 1 .. Len(f) : w[i] = f[i]
      BY <2>10, <2>12, <3>2, <3>4, <3>5
    <3> QED
      BY <3>1, <3>2, <3>3, <3>6
  <2> QED
    BY <2>3, <2>13
<1>4. m \in k .. m
  OBVIOUS
<1>5. W(m)
  BY <1>3, <1>4
<1> QED
  BY <1>5 DEF F

(* The entries of a scatter table, and the bytes in the first i of them.   *)
Entries(sg) == [i \in Nat |-> [j \in 1 .. sg[i] |-> SgGap * i + j - 1]]
Before(sg, i) == Len(Flat(Entries(sg), i))

LEMMA SgLayout ==
  ASSUME NEW sg \in Seq(0 .. SgGap - 1)
  PROVE  /\ Len(SgBytes(sg)) = Before(sg, Len(sg))
         /\ Before(sg, 0) = 0
         /\ \A i \in 0 .. Len(sg) : Before(sg, i) \in Nat /\ Before(sg, i) <= Len(SgBytes(sg))
         /\ \A i \in 1 .. Len(sg) :
              /\ Before(sg, i) = Before(sg, i - 1) + sg[i]
              /\ \A x \in 0 .. sg[i] - 1 :
                   SgBytes(sg)[Before(sg, i - 1) + x + 1] = SgGap * i + x
<1> DEFINE p == Entries(sg)
           n == Len(sg)
           F(i) == Flat(p, i)
<1>0. n \in Nat /\ SgGap \in Nat /\ \A i \in 1 .. n : sg[i] \in Nat
  BY PageAssumption, LenProperties
<1>1. \A i \in 1 .. n : /\ p[i] \in Seq(Nat) /\ Len(p[i]) = sg[i]
                        /\ \A x \in 0 .. sg[i] - 1 : p[i][x + 1] = SgGap * i + x
  <2> SUFFICES ASSUME NEW i \in 1 .. n
               PROVE  /\ p[i] \in Seq(Nat) /\ Len(p[i]) = sg[i]
                      /\ \A x \in 0 .. sg[i] - 1 : p[i][x + 1] = SgGap * i + x
    OBVIOUS
  <2>1. i \in Nat /\ sg[i] \in Nat
    BY <1>0
  <2>2. PICK g \in Nat : g = SgGap * i
    BY <1>0
  <2>3. PICK k \in Nat : k = sg[i]
    BY <2>1
  <2>4. PICK q : q = [j \in 1 .. k |-> g + j - 1]
    OBVIOUS
  <2>5. p[i] = q
    BY <2>1, <2>2, <2>3, <2>4 DEF Entries
  <2>6. q \in [1 .. k -> Nat]
    BY <2>4
  <2>7. q \in Seq(Nat)
    BY <2>6
  <2>8. Len(q) = k
    BY <2>6, <2>7, LenProperties
  <2>9. \A x \in 0 .. k - 1 : q[x + 1] = g + x
    BY <2>4
  <2> QED
    BY <2>2, <2>3, <2>5, <2>7, <2>8, <2>9
<1>2. SgBytes(sg) = F(n)
  <2>1. [i \in 1 .. Len(sg) |-> [j \in 1 .. sg[i] |-> SgGap * i + j - 1]] =
          [k \in 1 .. n |-> p[k]]
    BY <1>0 DEF Entries
  <2> QED
    BY <2>1 DEF SgBytes, Flat
<1>3. F(0) = << >>
  BY FlatEmpty
<1> HIDE DEF p
<1>4. \A i \in 0 .. n : F(i) \in Seq(Nat)
  <2>1. \A i \in 1 .. n : p[i] \in Seq(Nat)
    BY <1>1
  <2> QED
    BY <1>0, <2>1, FlatType
<1>5. \A i \in 1 .. n : F(i) = F(i - 1) \o p[i]
  <2> SUFFICES ASSUME NEW i \in 1 .. n PROVE F(i) = F(i - 1) \o p[i]
    OBVIOUS
  <2>1. PICK h \in Nat : h = i - 1
    OBVIOUS
  <2>2. h + 1 = i /\ \A j \in 1 .. h + 1 : p[j] \in Seq(Nat)
    BY <1>0, <1>1, <2>1
  <2>3. Flat(p, h + 1) = Flat(p, h) \o p[h + 1]
    BY <2>2, FlatStep
  <2> QED
    BY <2>1, <2>2, <2>3
<1>6. \A i \in 0 .. n : /\ Len(F(i)) <= Len(F(n))
                        /\ \A j \in 1 .. Len(F(i)) : F(n)[j] = F(i)[j]
  <2> SUFFICES ASSUME NEW i \in 0 .. n
               PROVE  /\ Len(F(i)) <= Len(F(n))
                      /\ \A j \in 1 .. Len(F(i)) : F(n)[j] = F(i)[j]
    OBVIOUS
  <2>1. \A j \in 1 .. n : p[j] \in Seq(Nat)
    BY <1>1
  <2> HIDE DEF n
  <2> QED
    BY <1>0, <2>1, FlatPrefix
<1> HIDE DEF F, n
<1>7. \A i \in 0 .. n : Len(F(i)) \in Nat
  BY <1>4, LenProperties
<1>8. ASSUME NEW i \in 1 .. n
      PROVE  /\ Len(F(i)) = Len(F(i - 1)) + sg[i]
             /\ \A x \in 0 .. sg[i] - 1 : F(n)[Len(F(i - 1)) + x + 1] = SgGap * i + x
  <2>1. i - 1 \in 0 .. n /\ i \in 0 .. n
    BY <1>0
  <2>2. PICK u \in Seq(Nat) : u = F(i - 1)
    BY <1>4, <2>1
  <2>3. PICK v \in Seq(Nat) : v = p[i]
    BY <1>1
  <2>4. F(i) = u \o v /\ Len(v) = sg[i]
    BY <1>1, <1>5, <2>2, <2>3
  <2>5. Len(u) \in Nat /\ Len(v) \in Nat /\ Len(u \o v) = Len(u) + Len(v)
    BY <2>2, <2>3, LenProperties, ConcatProperties
  <2>6. ASSUME NEW x \in 0 .. sg[i] - 1
        PROVE  F(n)[Len(F(i - 1)) + x + 1] = SgGap * i + x
    <3>1. PICK z \in Nat : z = Len(u) + x + 1
      BY <2>5
    <3>2. z \in 1 .. Len(u) + Len(v) /\ ~(z <= Len(u)) /\ z - Len(u) = x + 1
      BY <1>0, <2>4, <2>5, <3>1, SMTT(40)
    <3>3. (u \o v)[z] = v[x + 1]
      BY <2>5, <3>2
    <3>4. F(n)[z] = F(i)[z]
      BY <1>6, <2>1, <2>4, <2>5, <3>2
    <3>5. v[x + 1] = SgGap * i + x
      BY <1>1, <2>3
    <3> QED
      BY <2>2, <2>4, <3>1, <3>3, <3>4, <3>5
  <2> QED
    BY <2>2, <2>4, <2>5, <2>6
<1>9. Len(F(0)) = 0
  BY <1>3
<1>10. \A i : Before(sg, i) = Len(F(i))
  BY DEF Before, F, p
<1>11. n \in 0 .. n /\ \A i \in 1 .. n : i - 1 \in 0 .. n
  BY <1>0
<1> QED
  <2>1. n = Len(sg)
    BY DEF n
  <2>2. Len(SgBytes(sg)) = Before(sg, n) /\ Before(sg, 0) = 0
    BY <1>2, <1>9, <1>10
  <2>3. \A i \in 0 .. n : Before(sg, i) \in Nat /\ Before(sg, i) <= Len(SgBytes(sg))
    BY <1>2, <1>6, <1>7, <1>10
  <2>4. ASSUME NEW i \in 1 .. n
        PROVE  /\ Before(sg, i) = Before(sg, i - 1) + sg[i]
               /\ \A x \in 0 .. sg[i] - 1 :
                    SgBytes(sg)[Before(sg, i - 1) + x + 1] = SgGap * i + x
    <3>1. PICK f : f = SgBytes(sg)
      OBVIOUS
    <3>2. PICK b : b = Before(sg, i - 1)
      OBVIOUS
    <3>3. \A x \in 0 .. sg[i] - 1 : f[b + x + 1] = SgGap * i + x
      BY <1>2, <1>8, <1>10, <3>1, <3>2
    <3>4. Before(sg, i) = b + sg[i]
      BY <1>8, <1>10, <3>2
    <3> QED
      BY <3>1, <3>2, <3>3, <3>4
  <2> QED
    BY <2>1, <2>2, <2>3, <2>4

StrideOf(call) == Stride(call.stride, call.size)

(* The bytes of a transfer that are asked for, and where the t-th begins.  *)
Kept(call) ==
  (call.size \div Page) * StrideOf(call) + Lesser(call.size % Page, StrideOf(call))
OffsetOf(call, t) == call.offset + t * DivRoundUp(call.size, Page) * Page

LEMMA StrideRange ==
  ASSUME NEW call \in Calls, StrideOf(call) >= 0
  PROVE  /\ StrideOf(call) \in 1 .. Page
         /\ StrideOf(call) # Page => call.size % Page = 0 /\ call.stride % Page # 0
<1>1. Page \in Nat \ {0} /\ call.stride \in Nat /\ call.size \in Nat
  BY PageAssumption, CallsAssumption
<1>2. CASE call.stride % Page = 0
  BY <1>1, <1>2 DEF StrideOf, Stride
<1>3. CASE call.stride % Page # 0
  <2>1. StrideOf(call) = call.stride /\ call.size % Page = 0 /\ call.stride <= Page
    BY <1>1, <1>3 DEF StrideOf, Stride, EINVAL
  <2>2. call.stride # 0
    <3> SUFFICES ASSUME call.stride = 0 PROVE FALSE
      OBVIOUS
    <3>1. 0 * Page + 0 = 0 /\ 0 \in 0 .. Page - 1
      BY <1>1
    <3>2. 0 % Page = 0
      BY <1>1, <3>1, QuotientUnique
    <3> QED
      BY <1>3, <3>2
  <2> QED
    BY <1>1, <1>3, <2>1, <2>2
<1> QED
  BY <1>2, <1>3

LEMMA KeptIs ==
  ASSUME NEW call \in Calls, StrideOf(call) >= 0
  PROVE  /\ Kept(call) \in Nat
         /\ StrideOf(call) = Page => Kept(call) = call.size
         /\ call.size % Page = 0 =>
              /\ Kept(call) = DivRoundUp(call.size, Page) * StrideOf(call)
              /\ call.size = DivRoundUp(call.size, Page) * Page
<1> DEFINE st == StrideOf(call)
           q == call.size \div Page
           r == call.size % Page
           n == DivRoundUp(call.size, Page)
<1>1. Page \in Nat \ {0} /\ call.size \in Nat
  BY PageAssumption, CallsAssumption
<1>2. q \in Nat /\ r \in 0 .. Page - 1 /\ call.size = q * Page + r
  BY <1>1, Quotient
<1>3. st \in 1 .. Page
  BY StrideRange
<1>4. Kept(call) = q * st + Lesser(r, st)
  BY DEF Kept
<1>5. r = 0 => n = q
  <2> SUFFICES ASSUME r = 0 PROVE n = q
    OBVIOUS
  <2> HIDE DEF q, r
  <2>1. q * Page >= call.size
    BY <1>1, <1>2
  <2>2. (q - 1) * Page < call.size
    <3>1. (q - 1) * Page = q * Page - Page /\ q * Page \in Int
      BY <1>1, <1>2
    <3> QED
      BY <1>1, <1>2, <3>1
  <2> QED
    BY <1>1, <1>2, <2>1, <2>2, PagesUnique
<1> HIDE DEF q, r, st, n
<1>6. q * st \in Nat /\ Lesser(r, st) \in Nat
  BY <1>1, <1>2, <1>3 DEF Lesser
<1>7. st = Page => Kept(call) = call.size
  BY <1>1, <1>2, <1>4 DEF Lesser
<1>8. r = 0 => Lesser(r, st) = 0
  BY <1>1, <1>3 DEF Lesser
<1>9. r = 0 => Kept(call) = n * st /\ call.size = n * Page
  <2> SUFFICES ASSUME r = 0 PROVE Kept(call) = n * st /\ call.size = n * Page
    OBVIOUS
  <2>1. n = q /\ Lesser(r, st) = 0
    BY <1>5, <1>8
  <2>2. PICK v \in Nat : v = q * st
    BY <1>6
  <2>3. Kept(call) = v
    BY <1>4, <2>1, <2>2
  <2>4. PICK w \in Int : w = q * Page
    BY <1>1, <1>2
  <2>5. call.size = w
    BY <1>2, <2>4
  <2> QED
    BY <2>1, <2>2, <2>3, <2>4, <2>5
<1>10. Kept(call) \in Nat
  BY <1>4, <1>6
<1> QED
  BY <1>7, <1>9, <1>10 DEF st, r, n

LEMMA AskedAt ==
  ASSUME NEW call \in Calls, NEW t \in 0 .. call.batch - 1, NEW q \in Nat,
         NEW j \in 0 .. StrideOf(call) - 1, StrideOf(call) >= 0,
         q * StrideOf(call) + j < Kept(call)
  PROVE  Asked(call)[t * Kept(call) + q * StrideOf(call) + j + 1] =
           SgBytes(call.sg)[OffsetOf(call, t) + q * Page + j + 1]
<1> DEFINE st == StrideOf(call)
           kept == Kept(call)
           b == call.batch
           r == q * st + j
           i == t * kept + r
           R(h) == h % st
           D(h) == h \div st
           T(h) == h \div kept
           M(h) == h % kept
<1>1. st \in 1 .. Page /\ kept \in Nat /\ b \in Nat \ {0} /\ t \in 0 .. b - 1
  BY StrideRange, KeptIs, CallsAssumption
<1>2. st \in Nat \ {0} /\ t \in Nat /\ t \in Int /\ q \in Int
  BY <1>1
<1> HIDE DEF st, kept, b
<1>3. r \in Nat /\ r < kept /\ D(r) = q /\ R(r) = j
  <2>1. q * st \in Nat
    BY <1>2
  <2>2. r \in Nat /\ r < kept
    BY <2>1 DEF st, kept
  <2>3. j \in 0 .. st - 1
    BY DEF st
  <2>4. (q * st + j) \div st = q /\ (q * st + j) % st = j
    BY <1>2, <2>3, QuotientUnique
  <2> QED
    BY <2>2, <2>4
<1> HIDE DEF r
<1>4. kept \in Nat \ {0} /\ r \in 0 .. kept - 1
  BY <1>1, <1>3
<1>5. T(i) = t /\ M(i) = r
  <2>1. (t * kept + r) \div kept = t /\ (t * kept + r) % kept = r
    BY <1>2, <1>4, QuotientUnique
  <2> QED
    BY <2>1
<1>6. i + 1 \in 1 .. b * kept
  <2>1. t * kept \in Nat /\ (t + 1) * kept <= b * kept /\ b * kept \in Nat
    BY <1>1, <1>2
  <2>2. (t + 1) * kept = t * kept + kept
    BY <1>1, <1>2
  <2> DEFINE x == t * kept
             z == b * kept
  <2>3. x \in Nat /\ z \in Nat /\ x + kept <= z
    BY <2>1, <2>2
  <2> HIDE DEF x, z
  <2>4. x + r + 1 \in 1 .. z
    BY <1>4, <2>3
  <2> QED
    BY <2>4 DEF x, z
<1>7. i \in Nat
  BY <1>2, <1>4
<1> HIDE DEF i
<1> DEFINE P(h, x) == call.offset + h * DivRoundUp(call.size, Page) * Page
                        + D(x) * Page + R(x)
           A == [h \in 1 .. b * kept |-> SgBytes(call.sg)[P(T(h - 1), M(h - 1)) + 1]]
<1>8. Asked(call) = A
  BY DEF Asked, st, kept, b, Kept, StrideOf
<1>9. (i + 1) - 1 = i
  BY <1>7
<1> HIDE DEF T, M, P
<1>10. A[i + 1] = SgBytes(call.sg)[P(t, r) + 1]
  BY <1>5, <1>6, <1>9
<1>11. P(t, r) = OffsetOf(call, t) + q * Page + j
  BY <1>3 DEF P, OffsetOf
<1>12. P(t, r) + 1 = OffsetOf(call, t) + q * Page + j + 1
  BY <1>11
<1>13. i + 1 = t * kept + q * st + j + 1
  <2>1. t * kept \in Int /\ q * st \in Int
    BY <1>1, <1>2
  <2> QED
    BY <2>1 DEF i, r
<1> HIDE DEF A
<1> QED
  BY <1>8, <1>10, <1>12, <1>13 DEF st, kept

LEMMA BindRecursion ==
  ASSUME NEW list, NEW starting_desc, NEW sg \in Seq(0 .. SgGap - 1), NEW offset, NEW size,
         NEW stride, NEW g,
         g = BindEntries(list, starting_desc, sg, offset, size, stride)
  PROVE  /\ g[0] = [list |-> list, next |-> starting_desc, left |-> size, pos |-> 0, err |-> 0]
         /\ \A i \in 1 .. Len(sg) :
              g[i] = BindEntry(g[i - 1], sg[i], SgGap * i, offset,
                               (IF kind.is_circular THEN starting_desc ELSE 0) + kind.count - 1,
                               stride)
<1> DEFINE n == Len(sg)
           max == (IF kind.is_circular THEN starting_desc ELSE 0) + kind.count - 1
           I == [list |-> list, next |-> starting_desc, left |-> size, pos |-> 0, err |-> 0]
           C(x, i) == BindEntry(x, sg[i], SgGap * i, offset, max, stride)
           R(k, f) == f = [i \in 0 .. k |-> IF i = 0 THEN I ELSE C(f[i - 1], i)]
           B == {k \in 0 .. n : ~\E f : R(k, f)}
           u == CHOOSE f : R(n, f)
<1>1. n \in Nat
  BY CallsAssumption, LenProperties
<1>2. BindEntries(list, starting_desc, sg, offset, size, stride) = u
  BY DEF BindEntries
<1> HIDE DEF C, I
<1>3. \E f : R(n, f)
  <2> HIDE DEF n
  <2> SUFFICES ASSUME B # {} PROVE FALSE
    BY <1>1
  <2>1. B \in SUBSET Nat
    OBVIOUS
  <2> HIDE DEF B
  <2>2. PICK k \in B : \A j \in B : k <= j
    BY <2>1, Least
  <2>3. k \in 0 .. n /\ ~\E f : R(k, f)
    BY <2>2 DEF B
  <2>4. k # 0
    <3> DEFINE z == [i \in 0 .. 0 |-> I]
    <3>1. z = [i \in 0 .. 0 |-> IF i = 0 THEN I ELSE C(z[i - 1], i)]
      OBVIOUS
    <3>2. R(0, z)
      BY <3>1
    <3> QED
      BY <2>3, <3>2
  <2>5. k - 1 \in 0 .. n /\ ~(k <= k - 1)
    BY <1>1, <2>3, <2>4
  <2>6. k - 1 \notin B
    BY <2>2, <2>5
  <2>7. PICK f : R(k - 1, f)
    BY <2>5, <2>6 DEF B
  <2> DEFINE h == [i \in 0 .. k |-> IF i = k THEN C(f[k - 1], k) ELSE f[i]]
  <2>8. ASSUME NEW i \in 0 .. k
        PROVE  h[i] = IF i = 0 THEN I ELSE C(h[i - 1], i)
    <3>1. CASE i = k
      BY <2>3, <2>4, <3>1
    <3>2. CASE i # k
      <4>1. i \in 0 .. k - 1
        BY <2>3, <3>2
      <4>2. f[i] = IF i = 0 THEN I ELSE C(f[i - 1], i)
        BY <2>7, <4>1
      <4> QED
        BY <2>3, <3>2, <4>1, <4>2
    <3> QED
      BY <3>1, <3>2
  <2>9. R(k, h)
    BY <2>8
  <2> QED
    BY <2>3, <2>9
<1>4. R(n, u)
  BY <1>3
<1> HIDE DEF u
<1>5. \A i \in 0 .. n : u[i] = IF i = 0 THEN I ELSE C(u[i - 1], i)
  BY <1>4
<1>6. u[0] = I
  BY <1>1, <1>5
<1>7. ASSUME NEW i \in 1 .. n PROVE u[i] = C(u[i - 1], i)
  BY <1>1, <1>5
<1> QED
  BY <1>2, <1>6, <1>7, Zenon DEF C, I, n

LEMMA BatchRecursion ==
  ASSUME NEW call \in Calls, NEW g, g = Batch(call)
  PROVE  /\ g[0] = [ret |-> 0, list |-> desc_list, offset |-> call.offset, next |-> call.start]
         /\ \A i \in 1 .. call.batch :
              g[i] = BatchTransfer(g[i - 1], call, call.irq /\ i = call.batch)
<1> DEFINE n == call.batch
           I == [ret |-> 0, list |-> desc_list, offset |-> call.offset, next |-> call.start]
           C(x, i) == BatchTransfer(x, call, call.irq /\ i = call.batch)
           R(k, f) == f = [i \in 0 .. k |-> IF i = 0 THEN I ELSE C(f[i - 1], i)]
           B == {k \in 0 .. n : ~\E f : R(k, f)}
           u == CHOOSE f : R(n, f)
<1>1. n \in Nat
  BY CallsAssumption, LenProperties
<1>2. Batch(call) = u
  BY DEF Batch
<1> HIDE DEF C, I
<1>3. \E f : R(n, f)
  <2> HIDE DEF n
  <2> SUFFICES ASSUME B # {} PROVE FALSE
    BY <1>1
  <2>1. B \in SUBSET Nat
    OBVIOUS
  <2> HIDE DEF B
  <2>2. PICK k \in B : \A j \in B : k <= j
    BY <2>1, Least
  <2>3. k \in 0 .. n /\ ~\E f : R(k, f)
    BY <2>2 DEF B
  <2>4. k # 0
    <3> DEFINE z == [i \in 0 .. 0 |-> I]
    <3>1. z = [i \in 0 .. 0 |-> IF i = 0 THEN I ELSE C(z[i - 1], i)]
      OBVIOUS
    <3>2. R(0, z)
      BY <3>1
    <3> QED
      BY <2>3, <3>2
  <2>5. k - 1 \in 0 .. n /\ ~(k <= k - 1)
    BY <1>1, <2>3, <2>4
  <2>6. k - 1 \notin B
    BY <2>2, <2>5
  <2>7. PICK f : R(k - 1, f)
    BY <2>5, <2>6 DEF B
  <2> DEFINE h == [i \in 0 .. k |-> IF i = k THEN C(f[k - 1], k) ELSE f[i]]
  <2>8. ASSUME NEW i \in 0 .. k
        PROVE  h[i] = IF i = 0 THEN I ELSE C(h[i - 1], i)
    <3>1. CASE i = k
      BY <2>3, <2>4, <3>1
    <3>2. CASE i # k
      <4>1. i \in 0 .. k - 1
        BY <2>3, <3>2
      <4>2. f[i] = IF i = 0 THEN I ELSE C(f[i - 1], i)
        BY <2>7, <4>1
      <4> QED
        BY <2>3, <3>2, <4>1, <4>2
    <3> QED
      BY <3>1, <3>2
  <2>9. R(k, h)
    BY <2>8
  <2> QED
    BY <2>3, <2>9
<1>4. R(n, u)
  BY <1>3
<1> HIDE DEF u
<1>5. \A i \in 0 .. n : u[i] = IF i = 0 THEN I ELSE C(u[i - 1], i)
  BY <1>4
<1>6. u[0] = I
  BY <1>1, <1>5
<1>7. ASSUME NEW i \in 1 .. n PROVE u[i] = C(u[i - 1], i)
  BY <1>1, <1>5
<1> QED
  BY <1>2, <1>6, <1>7, Zenon DEF C, I, n

LEMMA MultipleIs ==
  ASSUME NEW x \in Nat
  PROVE  x % Page = 0 <=> x = (x \div Page) * Page
<1>1. Page \in Nat \ {0}
  BY PageAssumption
<1>2. x \div Page \in Nat /\ x % Page \in 0 .. Page - 1 /\ x = (x \div Page) * Page + (x % Page)
  BY <1>1, Quotient
<1> DEFINE z == (x \div Page) * Page
           r == x % Page
<1>3. z \in Nat /\ r \in Nat /\ x = z + r
  BY <1>1, <1>2
<1> HIDE DEF z, r
<1>4. r = 0 <=> x = z
  BY <1>3
<1> QED
  BY <1>4 DEF z, r

LEMMA MultipleOf ==
  ASSUME NEW q \in Int
  PROVE  (q * Page) % Page = 0
<1>1. Page \in Nat \ {0} /\ 0 \in 0 .. Page - 1
  BY PageAssumption
<1>2. (q * Page + 0) % Page = 0
  BY <1>1, QuotientUnique
<1>3. q * Page + 0 = q * Page
  BY <1>1
<1> QED
  BY <1>2, <1>3

LEMMA MultipleSum ==
  ASSUME NEW x \in Nat, NEW y \in Nat, x % Page = 0, y % Page = 0
  PROVE  (x + y) % Page = 0
<1>1. x = (x \div Page) * Page /\ y = (y \div Page) * Page
  BY MultipleIs
<1>2. Page \in Nat \ {0}
  BY PageAssumption
<1>3. PICK a \in Nat, b \in Nat : a = x \div Page /\ b = y \div Page
  BY <1>2, Quotient
<1>4. a * Page + b * Page = (a + b) * Page /\ a + b \in Int
  BY <1>2
<1>5. ((a + b) * Page) % Page = 0
  BY <1>4, MultipleOf
<1>6. x + y = a * Page + b * Page
  BY <1>1, <1>3
<1>7. x + y = (a + b) * Page
  BY <1>4, <1>6
<1> QED
  BY <1>5, <1>7

LEMMA MultipleDifference ==
  ASSUME NEW x \in Nat, NEW y \in Nat, x % Page = 0, y % Page = 0
  PROVE  (x - y) % Page = 0
<1>1. x = (x \div Page) * Page /\ y = (y \div Page) * Page
  BY MultipleIs
<1>2. Page \in Nat \ {0}
  BY PageAssumption
<1>3. PICK a \in Nat, b \in Nat : a = x \div Page /\ b = y \div Page
  BY <1>2, Quotient
<1>4. a * Page - b * Page = (a - b) * Page /\ a - b \in Int
  BY <1>2
<1>5. ((a - b) * Page) % Page = 0
  BY <1>4, MultipleOf
<1>6. x - y = a * Page - b * Page
  BY <1>1, <1>3
<1>7. x - y = (a - b) * Page
  BY <1>4, <1>6
<1> QED
  BY <1>5, <1>7

(* How a chunk is cut.                                                     *)
LEMMA ChunkSizes ==
  ASSUME NEW addr, NEW size \in Nat \ {0}, NEW stride \in 1 .. Page,
         NEW n, n = DivRoundUp(size, Page), size % Page # 0 => stride = Page
  PROVE  /\ n \in Nat \ {0}
         /\ \A k \in 0 .. n - 1 : /\ ChunkDesc(addr, size, stride, k).size \in 1 .. stride
                                  /\ k * Page + ChunkDesc(addr, size, stride, k).size <= size
         /\ \A k \in 0 .. n - 1 : k = n - 1 =>
              /\ stride = Page => k * Page + ChunkDesc(addr, size, stride, k).size = size
              /\ size % Page = 0 =>
                   ChunkDesc(addr, size, stride, k).size = stride /\ n * Page = size
<1> DEFINE g(k) == ChunkDesc(addr, size, stride, k).size
           q == size \div Page
           r == size % Page
           v == n * Page
           w == (n - 1) * Page
<1>1. Page \in Nat \ {0}
  BY PageAssumption
<1>2. n \in Nat /\ v >= size /\ w < size
  BY Pages
<1>3. v \in Nat /\ w \in Int /\ v = w + Page
  BY <1>1, <1>2
<1> HIDE DEF v
<1>4. n >= 1
  <2> SUFFICES ASSUME n = 0 PROVE FALSE
    BY <1>2
  <2>1. v = 0
    BY <1>1 DEF v
  <2> QED
    BY <1>2, <2>1
<1> HIDE DEF w
<1>5. q \in Nat /\ r \in 0 .. Page - 1 /\ size = q * Page + r
  BY <1>1, Quotient
<1>6. \A k : g(k) = IF k = n - 1 /\ r # 0 THEN r ELSE stride
  BY DEF ChunkDesc
<1> HIDE DEF g, q, r
<1>7. r = 0 => v = size
  <2> SUFFICES ASSUME r = 0 PROVE v = size
    OBVIOUS
  <2>1. q * Page >= size /\ q * Page = size
    BY <1>1, <1>5
  <2>2. (q - 1) * Page < size
    <3>1. (q - 1) * Page = q * Page - Page /\ q * Page \in Int
      BY <1>1, <1>5
    <3> QED
      BY <1>1, <2>1, <3>1
  <2>3. n = q
    BY <1>5, <2>1, <2>2, PagesUnique
  <2> QED
    BY <2>1, <2>3 DEF v
<1>8. r # 0 => w + r = size
  <2> SUFFICES ASSUME r # 0 PROVE w + r = size
    OBVIOUS
  <2>1. (q + 1) * Page = q * Page + Page /\ q * Page \in Int /\ (q + 1) - 1 = q /\ q + 1 \in Nat
    BY <1>1, <1>5
  <2>2. (q + 1) * Page >= size /\ ((q + 1) - 1) * Page < size
    BY <1>1, <1>5, <2>1
  <2>3. n = q + 1
    BY <2>1, <2>2, PagesUnique
  <2>4. n - 1 = q
    BY <1>5, <2>3
  <2>5. w = q * Page
    BY <2>4 DEF w
  <2> QED
    BY <1>5, <2>5
<1>9. ASSUME NEW k \in 0 .. n - 1
      PROVE  g(k) \in 1 .. stride /\ k * Page + g(k) <= size
  <2>1. CASE k = n - 1
    <3>1. k * Page = w
      BY <2>1 DEF w
    <3>2. CASE r = 0
      BY <1>1, <1>3, <1>6, <1>7, <2>1, <3>1, <3>2
    <3>3. CASE r # 0
      <4>1. stride = Page
        BY <3>3 DEF r
      <4> QED
        BY <1>1, <1>3, <1>5, <1>6, <1>8, <2>1, <3>1, <3>3, <4>1
    <3> QED
      BY <3>2, <3>3
  <2>2. CASE k # n - 1
    <3>1. g(k) = stride
      BY <1>6, <2>2
    <3>2. (k + 1) * Page <= w
      <4>1. k + 1 \in Nat /\ k + 1 <= n - 1
        BY <1>2, <2>2
      <4> QED
        BY <1>1, <1>2, <4>1 DEF w
    <3>3. (k + 1) * Page = k * Page + Page /\ k * Page \in Int
      BY <1>1
    <3> QED
      BY <1>1, <1>2, <1>3, <3>1, <3>2, <3>3
  <2> QED
    BY <2>1, <2>2
<1>10. stride = Page => w + g(n - 1) = size
  BY <1>1, <1>3, <1>6, <1>7, <1>8
<1>11. r = 0 => g(n - 1) = stride /\ v = size
  BY <1>6, <1>7
<1>12. n \in Nat \ {0}
  BY <1>2, <1>4
<1> QED
  BY <1>9, <1>10, <1>11, <1>12 DEF g, r, v, w

(* Every entry is whole pages, and so are those before any of them.        *)
Paged(sg) == \A i \in 1 .. Len(sg) : sg[i] % Page = 0

LEMMA BeforePaged ==
  ASSUME NEW sg \in Seq(0 .. SgGap - 1), Paged(sg)
  PROVE  \A i \in 0 .. Len(sg) : Before(sg, i) % Page = 0
<1> DEFINE n == Len(sg)
           B == {i \in 0 .. n : Before(sg, i) % Page # 0}
<1>1. /\ n \in Nat /\ \A i \in 1 .. n : sg[i] \in Nat
  BY PageAssumption, LenProperties
<1>2. /\ Before(sg, 0) = 0
      /\ \A i \in 0 .. n : Before(sg, i) \in Nat
      /\ \A i \in 1 .. n : Before(sg, i) = Before(sg, i - 1) + sg[i]
  BY SgLayout
<1>3. \A i \in 1 .. n : sg[i] % Page = 0
  BY DEF Paged
<1> HIDE DEF n
<1>4. B = {}
  <2> SUFFICES ASSUME B # {} PROVE FALSE
    OBVIOUS
  <2>1. B \in SUBSET Nat
    BY <1>1
  <2>2. PICK k \in B : \A j \in B : k <= j
    BY <2>1, Least
  <2>3. k \in 0 .. n /\ Before(sg, k) % Page # 0
    BY <2>2
  <2>4. k # 0
    <3>1. (0 * Page) % Page = 0 /\ 0 * Page = 0
      BY PageAssumption, MultipleOf
    <3> QED
      BY <1>2, <2>3, <3>1
  <2>5. k - 1 \in 0 .. n /\ k \in 1 .. n /\ ~(k <= k - 1)
    BY <1>1, <2>3, <2>4
  <2>6. k - 1 \notin B
    BY <2>2, <2>5
  <2>7. Before(sg, k - 1) % Page = 0 /\ Before(sg, k - 1) \in Nat
    BY <1>2, <2>5, <2>6
  <2>8. sg[k] \in Nat /\ sg[k] % Page = 0
    BY <1>1, <1>3, <2>5
  <2>9. (Before(sg, k - 1) + sg[k]) % Page = 0
    BY <2>7, <2>8, MultipleSum
  <2> QED
    BY <1>2, <2>3, <2>5, <2>9
<1> QED
  BY <1>4 DEF n

LEMMA AskedByPages ==
  ASSUME NEW call \in Calls, NEW t \in 0 .. call.batch - 1, NEW x \in Nat,
         StrideOf(call) = Page, x < call.size
  PROVE  Asked(call)[t * Kept(call) + x + 1] = SgBytes(call.sg)[OffsetOf(call, t) + x + 1]
<1> DEFINE q == x \div Page
           j == x % Page
           v == q * Page
<1>1. Page \in Nat \ {0} /\ StrideOf(call) >= 0
  BY PageAssumption
<1>2. q \in Nat /\ j \in 0 .. Page - 1 /\ x = v + j
  BY <1>1, Quotient
<1>3. v \in Nat
  BY <1>1, <1>2
<1>4. Kept(call) = call.size
  BY <1>1, KeptIs
<1> HIDE DEF q, j
<1>5. Asked(call)[t * Kept(call) + q * StrideOf(call) + j + 1] =
        SgBytes(call.sg)[OffsetOf(call, t) + q * Page + j + 1]
  <2>1. q * StrideOf(call) + j < Kept(call) /\ j \in 0 .. StrideOf(call) - 1
    BY <1>2, <1>4
  <2> QED
    BY <1>1, <1>2, <2>1, AskedAt
<1>6. t * Kept(call) \in Nat /\ OffsetOf(call, t) \in Nat
  <2>1. call.batch \in Nat /\ call.offset \in Nat /\ call.size \in Nat /\ t \in Nat
    BY CallsAssumption
  <2>2. DivRoundUp(call.size, Page) \in Nat
    BY <2>1, Pages
  <2>3. t * DivRoundUp(call.size, Page) \in Nat
    BY <2>1, <2>2
  <2>4. t * DivRoundUp(call.size, Page) * Page \in Nat
    BY <1>1, <2>3
  <2> QED
    BY <1>4, <2>1, <2>4 DEF OffsetOf
<1> DEFINE f == t * Kept(call)
           o == OffsetOf(call, t)
<1>7. q * StrideOf(call) = v
  OBVIOUS
<1> HIDE DEF v
<1>8. Asked(call)[f + v + j + 1] = SgBytes(call.sg)[o + v + j + 1]
  BY <1>5, <1>7 DEF v
<1>9. f + v + j + 1 = f + x + 1 /\ o + v + j + 1 = o + x + 1
  BY <1>2, <1>3, <1>6
<1> QED
  BY <1>8, <1>9

(* The y-th byte asked for is the first of the done-th of the transfer;    *)
(* d descriptors are behind it.                                            *)
----------------------------------------------------------------------------
(* Where a transfer is, and what its next chunk adds.                      *)

(* After d descriptors and `done' bytes of the t-th transfer, y bytes of the*)
(* call; with whole pages the descriptors say how many bytes are done.     *)
Place(call, t, d, done, y) ==
  /\ Paged(call.sg) => done = d * Page
  /\ y = t * Kept(call) + (IF StrideOf(call) = Page THEN done ELSE d * StrideOf(call))

LEMMA PlaceBytes ==
  ASSUME NEW call \in Calls, NEW t \in 0 .. call.batch - 1, NEW d \in Nat, NEW done \in Nat,
         NEW y \in Nat, StrideOf(call) >= 0, Place(call, t, d, done, y),
         StrideOf(call) # Page => Paged(call.sg)
  PROVE  \A k \in Nat : \A j \in 0 .. StrideOf(call) - 1 :
           done + k * Page + j < call.size =>
             Asked(call)[y + k * StrideOf(call) + j + 1] =
               SgBytes(call.sg)[OffsetOf(call, t) + done + k * Page + j + 1]
<1> TAKE k \in Nat
<1> TAKE j \in 0 .. StrideOf(call) - 1
<1> HAVE done + k * Page + j < call.size
<1> DEFINE st == StrideOf(call)
           kept == Kept(call)
           n == DivRoundUp(call.size, Page)
<1>1. Page \in Nat \ {0} /\ st \in 1 .. Page /\ st \in Nat /\ kept \in Nat /\ t \in Nat
  BY PageAssumption, StrideRange, KeptIs, CallsAssumption
<1>2. call.size \in Nat /\ n \in Nat
  BY CallsAssumption, Pages
<1>3. OffsetOf(call, t) \in Nat
  <2>1. call.offset \in Nat
    BY CallsAssumption
  <2>2. t * n \in Nat
    BY <1>1, <1>2
  <2>3. t * n * Page \in Nat
    BY <1>1, <2>2
  <2> QED
    BY <2>1, <2>3 DEF OffsetOf
<1> DEFINE o == OffsetOf(call, t)
           f == t * kept
<1>4. f \in Nat
  BY <1>1
<1>5. CASE st = Page
  <2>1. PICK v \in Nat : v = k * Page
    BY <1>1
  <2>2. k * st = v
    BY <1>5, <2>1
  <2>3. y = f + done
    BY <1>5 DEF Place
  <2>4. PICK x \in Nat : x = done + v + j
    BY <2>1
  <2>5. x < call.size
    BY <2>1, <2>4
  <2>6. Asked(call)[f + x + 1] = SgBytes(call.sg)[o + x + 1]
    BY <1>5, <2>5, AskedByPages
  <2> HIDE DEF f, o
  <2>7. f + x + 1 = y + v + j + 1
    BY <1>4, <2>1, <2>3, <2>4
  <2>8. o + x + 1 = o + done + v + j + 1
    BY <1>3, <2>1, <2>4 DEF o
  <2>9. Asked(call)[y + v + j + 1] = SgBytes(call.sg)[o + done + v + j + 1]
    BY <2>6, <2>7, <2>8
  <2>10. Asked(call)[y + k * st + j + 1] = SgBytes(call.sg)[o + done + k * Page + j + 1]
    BY <2>1, <2>2, <2>9
  <2> QED
    BY <2>10 DEF o
<1>6. CASE st # Page
  <2>1. done = d * Page /\ y = f + d * st
    BY <1>6 DEF Place
  <2>2. kept = n * st /\ call.size = n * Page
    BY <1>6, StrideRange, KeptIs
  <2>3. d + k \in Nat /\ (d + k) * Page = d * Page + k * Page /\ (d + k) * st = d * st + k * st
    BY <1>1
  <2>4. (d + k) * Page < n * Page
    <3>1. d * Page \in Nat /\ k * Page \in Nat
      BY <1>1
    <3> DEFINE z == k * Page
    <3>2. done + z + j < call.size /\ j \in Nat /\ z \in Nat
      BY <1>1, <3>1
    <3> HIDE DEF z
    <3>3. done + z < call.size
      BY <1>2, <3>2
    <3> QED
      BY <2>1, <2>2, <2>3, <3>3 DEF z
  <2>5. ~(n <= d + k)
    <3> SUFFICES ASSUME n <= d + k PROVE FALSE
      OBVIOUS
    <3>1. n * Page <= (d + k) * Page
      BY <1>1, <1>2
    <3>2. n * Page \in Int /\ (d + k) * Page \in Int
      BY <1>1, <1>2, <2>3
    <3> QED
      BY <2>4, <3>1, <3>2
  <2>6. (d + k) * st + j < kept
    <3>1. ((d + k) + 1) * st <= n * st
      <4>1. (d + k) + 1 <= n /\ (d + k) + 1 \in Nat
        BY <1>2, <2>3, <2>5
      <4> QED
        BY <1>1, <1>2, <4>1
    <3>2. ((d + k) + 1) * st = (d + k) * st + st /\ (d + k) * st \in Int
      BY <1>1, <2>3
    <3>3. n * st \in Int
      BY <1>1, <1>2
    <3>4. j \in 0 .. st - 1
      OBVIOUS
    <3> QED
      BY <1>1, <2>2, <3>1, <3>2, <3>3, <3>4
  <2>7. Asked(call)[t * Kept(call) + (d + k) * StrideOf(call) + j + 1] =
          SgBytes(call.sg)[OffsetOf(call, t) + (d + k) * Page + j + 1]
    BY <2>3, <2>6, AskedAt
  <2> DEFINE a == (d + k) * st
             b == (d + k) * Page
             a1 == d * st
             a2 == k * st
             b2 == k * Page
  <2>8. a = a1 + a2 /\ b = done + b2 /\ a1 \in Nat /\ a2 \in Nat /\ b2 \in Nat
    BY <1>1, <2>1, <2>3
  <2>9. Asked(call)[f + a + j + 1] = SgBytes(call.sg)[o + b + j + 1]
    BY <2>7
  <2>10. y = f + a1
    BY <2>1
  <2> HIDE DEF a, b, a1, a2, b2, f, o
  <2>11. f + a + j + 1 = y + a2 + j + 1 /\ o + b + j + 1 = o + done + b2 + j + 1
    BY <1>3, <1>4, <2>8, <2>10 DEF o
  <2>12. Asked(call)[y + a2 + j + 1] = SgBytes(call.sg)[o + done + b2 + j + 1]
    BY <2>9, <2>11
  <2> QED
    BY <2>12 DEF a2, b2, o
<1> QED
  BY <1>5, <1>6

(* A chunk from an entry of the table, skip bytes into it.                 *)
ChunkFits(call, t, i, d, done, y, skip, chunk) ==
  /\ Place(call, t, d, done, y)
  /\ StrideOf(call) # Page => Paged(call.sg)
  /\ Before(call.sg, i - 1) + skip = OffsetOf(call, t) + done
  /\ skip + chunk <= call.sg[i] /\ done + chunk <= call.size
  /\ done + chunk = call.size \/ skip + chunk = call.sg[i]

(* What bind_and_program_descriptors_list checks of an offset.             *)
OffsetMultiple(call, t) == OffsetOf(call, t) \in Nat /\ OffsetOf(call, t) % Page = 0

LEMMA ChunkStride ==
  ASSUME NEW call \in Calls, NEW t \in 0 .. call.batch - 1, NEW i \in 1 .. Len(call.sg),
         NEW d \in Nat, NEW done \in Nat, NEW y \in Nat, NEW skip \in Nat,
         NEW chunk \in Nat \ {0}, StrideOf(call) >= 0, OffsetMultiple(call, t),
         ChunkFits(call, t, i, d, done, y, skip, chunk)
  PROVE  /\ Paged(call.sg) /\ done + chunk # call.size => chunk % Page = 0
         /\ chunk % Page # 0 => StrideOf(call) = Page
<1> DEFINE st == StrideOf(call)
           o == OffsetOf(call, t)
           b == Before(call.sg, i - 1)
           e == Before(call.sg, i)
<1>1. Page \in Nat \ {0} /\ call.sg \in Seq(0 .. SgGap - 1) /\ call.size \in Nat
  BY PageAssumption, CallsAssumption
<1>2. Len(call.sg) \in Nat /\ i \in Nat /\ i - 1 \in 0 .. Len(call.sg) /\ i \in 0 .. Len(call.sg)
  BY <1>1, LenProperties
<1>3. b \in Nat /\ e \in Nat /\ e = b + call.sg[i] /\ call.sg[i] \in Nat
  <2>1. b \in Nat /\ e \in Nat /\ e = b + call.sg[i]
    BY <1>1, <1>2, SgLayout
  <2>2. call.sg[i] \in 0 .. SgGap - 1
    BY <1>1, ElementOfSeq
  <2> QED
    BY <2>1, <2>2, PageAssumption
<1>4. o \in Nat /\ o % Page = 0
  BY DEF OffsetMultiple
<1>5. /\ b + skip = o + done /\ skip + chunk <= call.sg[i] /\ done + chunk <= call.size
      /\ done + chunk = call.size \/ skip + chunk = call.sg[i]
  BY DEF ChunkFits
<1> HIDE DEF st, o, b, e
<1>6. Paged(call.sg) => done % Page = 0
  BY MultipleOf DEF ChunkFits, Place
<1>7. ASSUME Paged(call.sg), done + chunk # call.size PROVE chunk % Page = 0
  <2>1. e % Page = 0
    BY <1>1, <1>2, <1>7, BeforePaged DEF e
  <2>2. (o + done) % Page = 0 /\ o + done \in Nat
    BY <1>4, <1>6, <1>7, MultipleSum
  <2>3. (e - (o + done)) % Page = 0
    BY <1>3, <2>1, <2>2, MultipleDifference
  <2>4. e - (o + done) = chunk
    <3>0. b + skip = o + done
      BY <1>5
    <3>1. skip + chunk = call.sg[i]
      BY <1>5, <1>7
    <3>2. PICK z \in Nat : z = call.sg[i]
      BY <1>3
    <3>3. e = b + z /\ skip + chunk = z
      BY <1>3, <3>1, <3>2
    <3> QED
      <4>1. b \in Nat /\ e \in Nat /\ o \in Nat
        BY <1>3, <1>4
      <4> QED
        BY ONLY <3>0, <3>3, <4>1, z \in Nat, done \in Nat, skip \in Nat, chunk \in Nat \ {0}
  <2> QED
    BY <2>3, <2>4
<1>8. ASSUME chunk % Page # 0 PROVE StrideOf(call) = Page
  <2> SUFFICES ASSUME StrideOf(call) # Page PROVE FALSE
    OBVIOUS
  <2>1. Paged(call.sg) /\ call.size % Page = 0
    BY StrideRange DEF ChunkFits
  <2>2. done + chunk = call.size
    BY <1>7, <1>8, <2>1
  <2>3. (call.size - done) % Page = 0
    BY <1>1, <1>6, <2>1, MultipleDifference
  <2>4. call.size - done = chunk
    BY <1>1, <2>2
  <2> QED
    BY <1>8, <2>3, <2>4
<1> QED
  BY <1>7, <1>8

(* The chunk's descriptors move the bytes that are asked for from y on.    *)
ChunkMoves(call, i, y, skip, chunk) ==
  \A k \in 0 .. DivRoundUp(chunk, Page) - 1 :
  \A j \in 0 .. ChunkDesc(SgGap * i + skip, chunk, StrideOf(call), k).size - 1 :
    Asked(call)[y + k * StrideOf(call) + j + 1] = (SgGap * i + skip) + k * Page + j

LEMMA ChunkBytes ==
  ASSUME NEW call \in Calls, NEW t \in 0 .. call.batch - 1, NEW i \in 1 .. Len(call.sg),
         NEW d \in Nat, NEW done \in Nat, NEW y \in Nat, NEW skip \in Nat,
         NEW chunk \in Nat \ {0}, StrideOf(call) >= 0, OffsetMultiple(call, t),
         ChunkFits(call, t, i, d, done, y, skip, chunk)
  PROVE  ChunkMoves(call, i, y, skip, chunk)
<1> SUFFICES ASSUME NEW k \in 0 .. DivRoundUp(chunk, Page) - 1,
                    NEW j \in 0 .. ChunkDesc(SgGap * i + skip, chunk, StrideOf(call), k).size - 1
             PROVE  Asked(call)[y + k * StrideOf(call) + j + 1] = (SgGap * i + skip) + k * Page + j
  BY DEF ChunkMoves
<1> DEFINE st == StrideOf(call)
           o == OffsetOf(call, t)
           b == Before(call.sg, i - 1)
           g == ChunkDesc(SgGap * i + skip, chunk, st, k).size
           v == k * Page
           h == SgGap * i
<1>1. Page \in Nat \ {0} /\ call.sg \in Seq(0 .. SgGap - 1) /\ call.size \in Nat /\ SgGap \in Nat
  BY PageAssumption, CallsAssumption
<1>2. st \in 1 .. Page
  BY StrideRange
<1>3. DivRoundUp(chunk, Page) \in Nat
  BY Pages
<1>4. g \in 1 .. st /\ v + g <= chunk
  <2>1. chunk % Page # 0 => st = Page
    BY ChunkStride
  <2> HIDE DEF st
  <2>2. \A z \in 0 .. DivRoundUp(chunk, Page) - 1 :
          /\ ChunkDesc(SgGap * i + skip, chunk, st, z).size \in 1 .. st
          /\ z * Page + ChunkDesc(SgGap * i + skip, chunk, st, z).size <= chunk
    BY <1>2, <2>1, ChunkSizes
  <2> QED
    BY <2>2
<1>5. /\ b + skip = o + done /\ skip + chunk <= call.sg[i] /\ done + chunk <= call.size
  BY DEF ChunkFits
<1>6. v \in Nat /\ h \in Nat /\ k \in Nat /\ i \in Nat
  <2>1. k \in Nat /\ i \in Nat
    BY <1>3
  <2> QED
    BY <1>1, <2>1
<1>7. o \in Nat /\ b \in Nat /\ call.sg[i] \in Nat
  <2>1. Len(call.sg) \in Nat /\ i - 1 \in 0 .. Len(call.sg)
    BY <1>1, LenProperties
  <2>2. call.sg[i] \in 0 .. SgGap - 1
    BY <1>1, ElementOfSeq
  <2>3. b \in Nat
    BY <1>1, <2>1, SgLayout
  <2> QED
    BY <1>1, <2>2, <2>3 DEF OffsetMultiple
<1>8. j \in 0 .. g - 1 /\ j \in 0 .. st - 1 /\ j \in Nat
  BY <1>2, <1>4
<1>9. done + v + j < call.size
  <2>1. PICK w \in Nat : w = v
    BY <1>6
  <2>2. PICK f \in Nat : f = g
    BY <1>2, <1>4
  <2>3. PICK z \in Nat : z = call.size
    BY <1>1
  <2>4. w + f <= chunk /\ j \in 0 .. f - 1 /\ done + chunk <= z
    BY <1>4, <1>5, <1>8, <2>1, <2>2, <2>3
  <2>5. done + w + j < z
    BY ONLY <2>4, done \in Nat, w \in Nat, f \in Nat, z \in Nat, chunk \in Nat \ {0}
  <2> QED
    BY <2>1, <2>3, <2>5
<1>10. Asked(call)[y + k * StrideOf(call) + j + 1] =
         SgBytes(call.sg)[OffsetOf(call, t) + done + k * Page + j + 1]
  <2>1. Place(call, t, d, done, y) /\ (StrideOf(call) # Page => Paged(call.sg))
    BY DEF ChunkFits
  <2>2. j \in 0 .. StrideOf(call) - 1 /\ done + k * Page + j < call.size
    BY <1>8, <1>9
  <2> QED
    <3>1. \A a \in Nat : \A c \in 0 .. StrideOf(call) - 1 :
            done + a * Page + c < call.size =>
              Asked(call)[y + a * StrideOf(call) + c + 1] =
                SgBytes(call.sg)[OffsetOf(call, t) + done + a * Page + c + 1]
      BY <2>1, PlaceBytes
    <3> QED
      BY ONLY <1>6, <2>2, <3>1
<1>11. PICK x \in Nat : x = skip + v + j
  BY <1>6, <1>8
<1>12. x \in 0 .. call.sg[i] - 1
  <2>1. PICK w \in Nat : w = v
    BY <1>6
  <2>2. PICK f \in Nat : f = g
    BY <1>2, <1>4
  <2>3. PICK z \in Nat : z = call.sg[i]
    BY <1>7
  <2>4. w + f <= chunk /\ j \in 0 .. f - 1 /\ skip + chunk <= z /\ x = skip + w + j
    BY <1>4, <1>5, <1>8, <1>11, <2>1, <2>2, <2>3
  <2>5. x \in 0 .. z - 1
    BY ONLY <2>4, skip \in Nat, w \in Nat, f \in Nat, z \in Nat, chunk \in Nat \ {0}
  <2> QED
    BY <2>3, <2>5
<1>13. SgBytes(call.sg)[b + x + 1] = SgGap * i + x
  BY <1>1, <1>12, SgLayout
<1> HIDE DEF v, g, o, b, h
<1>14. o + done + v + j + 1 = b + x + 1
  <2>1. b + skip = o + done
    BY <1>5
  <2> QED
    BY ONLY <1>6, <1>7, <1>8, <1>11, <2>1, done \in Nat, skip \in Nat
<1>15. h + x = (h + skip) + v + j
  BY <1>6, <1>8, <1>11
<1>16. SgBytes(call.sg)[o + done + v + j + 1] = (h + skip) + v + j
  BY <1>13, <1>14, <1>15 DEF h
<1> QED
  BY <1>10, <1>16 DEF o, v, h

(* Where the next chunk's bytes begin; the transfer's, behind the last.    *)
ChunkEnd(call, y, addr, chunk) ==
  y + (DivRoundUp(chunk, Page) - 1) * StrideOf(call)
    + ChunkDesc(addr, chunk, StrideOf(call), DivRoundUp(chunk, Page) - 1).size

(* Behind the chunk, either the transfer goes on from there or it is over. *)
ChunkEndsAt(call, t, d, done, y, addr, chunk) ==
  /\ ChunkEnd(call, y, addr, chunk) \in Nat
  /\ done + chunk # call.size =>
       Place(call, t, d + DivRoundUp(chunk, Page), done + chunk, ChunkEnd(call, y, addr, chunk))
  /\ done + chunk = call.size =>
       /\ ChunkEnd(call, y, addr, chunk) = (t + 1) * Kept(call)
       /\ Paged(call.sg) => d + DivRoundUp(chunk, Page) = DivRoundUp(call.size, Page)

LEMMA ChunkEnds ==
  ASSUME NEW call \in Calls, NEW t \in 0 .. call.batch - 1, NEW i \in 1 .. Len(call.sg),
         NEW d \in Nat, NEW done \in Nat, NEW y \in Nat, NEW skip \in Nat,
         NEW chunk \in Nat \ {0}, NEW addr, StrideOf(call) >= 0, OffsetMultiple(call, t),
         ChunkFits(call, t, i, d, done, y, skip, chunk)
  PROVE  ChunkEndsAt(call, t, d, done, y, addr, chunk)
<1> DEFINE n == DivRoundUp(chunk, Page)
           z == ChunkEnd(call, y, addr, chunk)
<1>n. n = DivRoundUp(chunk, Page)
  OBVIOUS
<1>z. z = y + (n - 1) * StrideOf(call) + ChunkDesc(addr, chunk, StrideOf(call), n - 1).size
  BY DEF ChunkEnd
<1> HIDE DEF n, z
<1> DEFINE st == StrideOf(call)
           kept == Kept(call)
           g == ChunkDesc(addr, chunk, st, n - 1).size
           w == (n - 1) * st
           f == t * kept
           size == call.size
<1>1. Page \in Nat \ {0} /\ st \in 1 .. Page /\ kept \in Nat /\ t \in Nat /\ size \in Nat
  <2>1. size \in Nat /\ call.batch \in Nat
    BY CallsAssumption
  <2>2. t \in Nat
    BY <2>1
  <2>3. st \in 1 .. Page
    BY StrideRange
  <2>4. kept \in Nat
    BY KeptIs
  <2> QED
    BY <2>1, <2>2, <2>3, <2>4, PageAssumption
<1>2. /\ n \in Nat \ {0} /\ g \in 1 .. st
      /\ st = Page => w + g = chunk
      /\ chunk % Page = 0 => g = st /\ n * Page = chunk
  <2>1. chunk % Page # 0 => st = Page
    BY ChunkStride
  <2>2. st \in 1 .. Page
    BY <1>1
  <2>3. n \in Nat \ {0}
    BY <1>n, <2>1, <2>2, ChunkSizes
  <2>4. \A k \in 0 .. n - 1 : ChunkDesc(addr, chunk, st, k).size \in 1 .. st
    <3> HIDE DEF st
    <3> QED
      BY <1>n, <2>1, <2>2, ChunkSizes
  <2>5. g \in 1 .. st
    BY <2>3, <2>4
  <2>6. \A k \in 0 .. n - 1 : k = n - 1 =>
          /\ st = Page => k * Page + ChunkDesc(addr, chunk, st, k).size = chunk
          /\ chunk % Page = 0 => ChunkDesc(addr, chunk, st, k).size = st /\ n * Page = chunk
    <3> HIDE DEF st
    <3> QED
      BY <1>n, <2>1, <2>2, ChunkSizes
  <2> QED
    BY <2>3, <2>5, <2>6
<1>3. w \in Nat /\ f \in Nat
  <2>1. n - 1 \in Nat
    BY <1>2
  <2> QED
    <3>1. st \in Nat
      BY <1>1
    <3> HIDE DEF st, kept
    <3> QED
      BY ONLY <1>1, <2>1, <3>1
<1>4. z = y + w + g /\ z \in Nat
  <2>1. z = y + w + g
    BY <1>z
  <2>2. g \in Nat
    BY <1>1, <1>2
  <2>3. PICK u \in Nat, v \in Nat : u = w /\ v = g
    BY <1>3, <2>2
  <2>4. z = y + u + v
    BY <2>1, <2>3
  <2>5. y + u + v \in Nat
    BY ONLY y \in Nat, u \in Nat, v \in Nat
  <2>6. z \in Nat
    BY ONLY <2>4, <2>5
  <2> QED
    BY ONLY <2>1, <2>6
<1>5. /\ y = f + (IF st = Page THEN done ELSE d * st)
      /\ Paged(call.sg) => done = d * Page
      /\ st # Page => Paged(call.sg)
      /\ done + chunk <= size
  BY DEF ChunkFits, Place
<1>6. Paged(call.sg) /\ done + chunk # size => chunk % Page = 0
  BY ChunkStride
<1>7. st = Page => z = f + done + chunk
  <2> HIDE DEF w, g, st, f
  <2> QED
    BY <1>1, <1>2, <1>3, <1>4, <1>5
<1>8. st # Page /\ chunk % Page = 0 => z = f + (d + n) * st
  <2> SUFFICES ASSUME st # Page, chunk % Page = 0 PROVE z = f + (d + n) * st
    OBVIOUS
  <2>1. (d + n) * st = d * st + (n - 1) * st + st
    BY <1>1, <1>2
  <2>2. d * st \in Nat
    BY <1>1
  <2> DEFINE a == d * st
             b == (d + n) * st
  <2>3. y = f + a /\ b = a + w + st /\ a \in Nat
    BY <1>5, <2>1, <2>2
  <2>4. g = st
    BY <1>2
  <2> HIDE DEF a, b, w, g, st, f
  <2>5. z = f + b
    BY <1>1, <1>3, <1>4, <2>3, <2>4
  <2> QED
    BY <2>5 DEF b
<1>9. Paged(call.sg) /\ chunk % Page = 0 => done + chunk = (d + n) * Page
  <2> SUFFICES ASSUME Paged(call.sg), chunk % Page = 0 PROVE done + chunk = (d + n) * Page
    OBVIOUS
  <2>1. (d + n) * Page = d * Page + n * Page
    BY <1>1, <1>2
  <2> QED
    BY <1>2, <1>5, <2>1
<1>10. ASSUME done + chunk # size PROVE Place(call, t, d + n, done + chunk, z)
  <2>1. Paged(call.sg) => done + chunk = (d + n) * Page
    BY <1>6, <1>9, <1>10
  <2>2. z = f + (IF st = Page THEN done + chunk ELSE (d + n) * st)
    <3>1. CASE st = Page
      <4>1. z = f + (done + chunk)
        <5> HIDE DEF f, st
        <5> QED
          BY <1>3, <1>7, <3>1
      <4> QED
        BY <3>1, <4>1
    <3>2. CASE st # Page
      BY <1>5, <1>6, <1>8, <1>10, <3>2
    <3> QED
      BY <3>1, <3>2
  <2> QED
    BY <2>1, <2>2 DEF Place
<1>11. ASSUME done + chunk = size, Paged(call.sg) PROVE d + n = DivRoundUp(size, Page)
  <2>1. n * Page >= chunk /\ (n - 1) * Page < chunk
    BY <1>n, Pages
  <2>2. /\ (d + n) * Page = d * Page + n * Page
        /\ ((d + n) - 1) * Page = d * Page + (n - 1) * Page
        /\ d * Page \in Int /\ n * Page \in Int /\ (n - 1) * Page \in Int
    <3>1. PICK p \in Nat, h \in Nat : p = Page /\ h = n
      BY <1>1, <1>2
    <3>2. /\ (d + h) * p = d * p + h * p
          /\ ((d + h) - 1) * p = d * p + (h - 1) * p
          /\ d * p \in Int /\ h * p \in Int /\ (h - 1) * p \in Int
      BY ONLY d \in Nat, p \in Nat, h \in Nat
    <3> QED
      BY <3>1, <3>2
  <2>3. (d + n) * Page >= size /\ ((d + n) - 1) * Page < size
    <3> DEFINE a == d * Page
               b == n * Page
               c == (n - 1) * Page
    <3>1. done = a
      BY <1>5, <1>11
    <3> HIDE DEF a, b, c
    <3>2. a \in Int /\ b \in Int /\ c \in Int /\ b >= chunk /\ c < chunk
      BY <2>1, <2>2 DEF a, b, c
    <3>3. a + b >= size /\ a + c < size
      BY ONLY <1>11, <3>1, <3>2, chunk \in Nat \ {0}
    <3> QED
      BY <2>2, <3>3 DEF a, b, c
  <2>4. d + n \in Nat
    BY <1>2
  <2> QED
    BY <1>1, <2>3, <2>4, PagesUnique
<1>12. ASSUME done + chunk = size PROVE z = (t + 1) * kept
  <2>1. (t + 1) * kept = f + kept
    BY <1>1
  <2>2. CASE st = Page
    <3>1. kept = size
      BY <2>2, KeptIs
    <3>2. z = f + (done + chunk)
      <4> HIDE DEF f, st
      <4> QED
        BY <1>3, <1>7, <2>2
    <3> QED
      BY <1>12, <2>1, <3>1, <3>2
  <2>3. CASE st # Page
    <3>1. size % Page = 0 /\ kept = DivRoundUp(size, Page) * st
      BY <2>3, StrideRange, KeptIs
    <3>2. chunk % Page = 0
      BY <2>3, ChunkStride
    <3>3. d + n = DivRoundUp(size, Page)
      BY <1>5, <1>11, <1>12, <2>3
    <3>4. z = f + (d + n) * st
      BY <1>8, <2>3, <3>2
    <3> QED
      BY <2>1, <3>1, <3>3, <3>4
  <2> QED
    BY <2>2, <2>3
<1> QED
  BY <1>4, <1>10, <1>11, <1>12 DEF n, z, ChunkEndsAt

(* The descriptors of the transfers before the t-th.                       *)
Behind(call, t) == t * DivRoundUp(call.size, Page)

(* A transfer's first descriptor is the one behind those of the others.    *)
Follows(call, t, sd) ==
  /\ sd \in 0 .. kind.count - 1
  /\ kind.is_circular => sd = (call.start + Behind(call, t)) % kind.count
  /\ ~kind.is_circular => sd = call.start + Behind(call, t)

LEMMA KindType ==
  ASSUME kind \in ListKinds
  PROVE  /\ kind.count \in Nat \ {0} /\ NextPowerOfTwo(kind.count) \in Nat
         /\ NextPowerOfTwo(kind.count) >= kind.count
         /\ kind.is_circular \in BOOLEAN
         /\ kind.is_circular => NextPowerOfTwo(kind.count) = kind.count
<1> DEFINE z(x) == NextPowerOfTwo(x)
<1> HIDE DEF z
<1>1. \A k \in ListKinds :
    /\ k.count \in Nat \ {0} /\ z(k.count) \in Nat
    /\ k.is_circular \in BOOLEAN
    /\ z(k.count) >= k.count
    /\ k.is_circular => k.count = z(k.count)
  BY ListKindsAssumption DEF z
<1>2. /\ kind.count \in Nat \ {0} /\ z(kind.count) \in Nat
      /\ kind.is_circular \in BOOLEAN
      /\ z(kind.count) >= kind.count
      /\ kind.is_circular => kind.count = z(kind.count)
  BY <1>1
<1> QED
  BY <1>2 DEF z

LEMMA BehindType ==
  ASSUME NEW call \in Calls, NEW t \in Nat
  PROVE  Behind(call, t) \in Nat /\ OffsetOf(call, t) = call.offset + Behind(call, t) * Page
<1>1. call.size \in Nat
  BY CallsAssumption
<1>2. DivRoundUp(call.size, Page) \in Nat
  BY <1>1, Pages
<1> QED
  BY <1>2 DEF Behind, OffsetOf

LEMMA AlignedAt ==
  ASSUME NEW call \in Calls, NEW t \in Nat, NEW sd, NEW d \in Nat, NEW n \in Nat,
         kind \in ListKinds, Follows(call, t, sd),
         ~kind.is_circular => sd + d + n <= kind.count
  PROVE  Aligned(kind.count, call.start + (Behind(call, t) + d), NextPowerOfTwo(kind.count),
                 sd + d, n)
<1> DEFINE c == kind.count
           mask == NextPowerOfTwo(c)
           m == Behind(call, t)
           s == call.start
<1>1. c \in Nat \ {0} /\ mask \in Nat /\ mask >= c /\ (kind.is_circular => mask = c)
  BY KindType
<1>2. m \in Nat /\ s \in Nat
  BY BehindType, CallsAssumption
<1>3. /\ sd \in 0 .. c - 1
      /\ kind.is_circular => sd = (s + m) % c
      /\ ~kind.is_circular => sd = s + m
  BY DEF Follows
<1> HIDE DEF c, mask, m, s
<1> SUFFICES ASSUME NEW k \in 0 .. n - 1
             PROVE  ((sd + d) + k) % mask = ((s + (m + d)) + k) % c
  BY DEF Aligned, c, mask, m, s
<1>4. sd \in Nat /\ k \in Nat /\ s + m \in Nat /\ d + k \in Nat
  BY <1>1, <1>2, <1>3
<1>5. (sd + d) + k = sd + (d + k) /\ (s + (m + d)) + k = (s + m) + (d + k)
  BY <1>2, <1>4
<1>6. CASE kind.is_circular
  <2>1. (((s + m) % c) + (d + k)) % c = ((s + m) + (d + k)) % c
    BY <1>1, <1>4, WrapTwice
  <2> QED
    BY <1>1, <1>3, <1>5, <1>6, <2>1
<1>7. CASE ~kind.is_circular
  <2>1. PICK x \in Nat : x = sd + (d + k)
    BY <1>4
  <2>2. x < c
    BY <1>1, <1>4, <1>7, <2>1 DEF c
  <2>3. (s + m) + (d + k) = x
    BY <1>3, <1>7, <2>1
  <2>4. 0 * mask + x = x /\ 0 * c + x = x /\ x \in 0 .. mask - 1 /\ x \in 0 .. c - 1
        /\ mask \in Nat \ {0}
    BY <1>1, <2>2
  <2>5. x % mask = x /\ x % c = x
    BY <1>1, <2>4, QuotientUnique
  <2> QED
    BY <1>5, <2>1, <2>3, <2>5
<1> QED
  BY <1>6, <1>7

(* There is room: what all transfers of a batch take is on different pages *)
(* of the buffer.                                                          *)
LEMMA Room ==
  ASSUME NEW call \in Calls, NEW t \in 0 .. call.batch - 1, NEW sd,
         NEW i \in 1 .. Len(call.sg), NEW d \in Nat, NEW done \in Nat, NEW y \in Nat,
         NEW skip \in Nat, NEW chunk \in Nat \ {0}, kind \in ListKinds, Tidy(call),
         StrideOf(call) >= 0, Follows(call, t, sd),
         ChunkFits(call, t, i, d, done, y, skip, chunk),
         sd + d + DivRoundUp(chunk, Page) <= (IF kind.is_circular THEN sd ELSE 0) + kind.count
  PROVE  (Behind(call, t) + d) + DivRoundUp(chunk, Page) <= kind.count
<1> DEFINE c == kind.count
           n == DivRoundUp(chunk, Page)
           m == Behind(call, t)
           s == call.start
<1>1. c \in Nat \ {0}
  BY KindType
<1>2. /\ m \in Nat /\ s \in Nat /\ n \in Nat /\ t \in Nat /\ call.batch \in Nat
      /\ Page \in Nat \ {0}
  <2>1. t \in Nat /\ call.batch \in Nat /\ s \in Nat
    BY CallsAssumption
  <2> QED
    BY <2>1, BehindType, Pages, PageAssumption
<1>3. /\ sd \in 0 .. c - 1
      /\ ~kind.is_circular => sd = s + m
  BY DEF Follows
<1>4. CASE ~kind.is_circular
  <2>1. sd + d + n <= 0 + c
    BY <1>4
  <2> HIDE DEF c, n, m, s
  <2>2. sd = s + m
    BY <1>3, <1>4
  <2>3. (m + d) + n <= c
    BY ONLY <1>1, <1>2, <2>1, <2>2, d \in Nat
  <2> QED
    BY <2>3 DEF c, n, m
<1>5. CASE kind.is_circular /\ call.batch = 1
  <2>1. t = 0
    BY <1>5
  <2>2. m = 0
    <3>1. call.size \in Nat
      BY CallsAssumption
    <3>2. DivRoundUp(call.size, Page) \in Nat
      BY <3>1, Pages
    <3> QED
      BY <2>1, <3>2 DEF Behind
  <2>3. sd + d + n <= sd + c
    BY <1>5
  <2> HIDE DEF c, n, m, s
  <2>4. (m + d) + n <= c
    BY ONLY <1>1, <1>2, <1>3, <2>2, <2>3, d \in Nat
  <2> QED
    BY <2>4 DEF c, n, m
<1>6. CASE kind.is_circular /\ call.batch # 1
  <2>1. call.batch > 1
    BY <1>2, <1>6, CallsAssumption
  <2>2. Paged(call.sg) /\ Len(SgBytes(call.sg)) <= c * Page
    BY <1>6, <2>1 DEF Tidy, Paged
  <2>3. call.sg \in Seq(0 .. SgGap - 1) /\ call.offset \in Nat
    BY CallsAssumption
  <2>4. Before(call.sg, i) <= Len(SgBytes(call.sg))
        /\ Before(call.sg, i) = Before(call.sg, i - 1) + call.sg[i]
        /\ Before(call.sg, i) \in Nat /\ Before(call.sg, i - 1) \in Nat
    <3>1. Len(call.sg) \in Nat /\ i \in 0 .. Len(call.sg) /\ i - 1 \in 0 .. Len(call.sg)
      BY <2>3, LenProperties
    <3> QED
      BY <2>3, <3>1, SgLayout
  <2>5. call.sg[i] \in Nat
    <3>1. call.sg[i] \in 0 .. SgGap - 1
      BY <2>3, ElementOfSeq
    <3> QED
      BY <3>1, PageAssumption
  <2>6. /\ Before(call.sg, i - 1) + skip = OffsetOf(call, t) + done
        /\ skip + chunk <= call.sg[i] /\ done = d * Page
    BY <2>2 DEF ChunkFits, Place
  <2>7. OffsetOf(call, t) = call.offset + m * Page
    BY <1>2, BehindType
  <2>8. (n - 1) * Page < chunk
    BY Pages
  <2>9. /\ ((m + d) + (n - 1)) * Page = m * Page + d * Page + (n - 1) * Page
        /\ m * Page \in Nat /\ d * Page \in Nat /\ (n - 1) * Page \in Int
    <3>1. PICK p \in Nat, h \in Nat, l \in Nat : p = Page /\ h = n /\ l = m
      BY <1>2
    <3>2. /\ ((l + d) + (h - 1)) * p = l * p + d * p + (h - 1) * p
          /\ l * p \in Nat /\ d * p \in Nat /\ (h - 1) * p \in Int
      BY ONLY d \in Nat, p \in Nat, h \in Nat, l \in Nat
    <3> QED
      BY <3>1, <3>2
  <2>10. ((m + d) + (n - 1)) * Page < c * Page
    <3> DEFINE a == m * Page
               b == d * Page
               e == (n - 1) * Page
               f == c * Page
               o == OffsetOf(call, t)
    <3>1. /\ a \in Nat /\ b \in Nat /\ e \in Int /\ f \in Int
          /\ ((m + d) + (n - 1)) * Page = a + b + e
      <4>1. a \in Nat /\ b \in Nat /\ e \in Int /\ ((m + d) + (n - 1)) * Page = a + b + e
        BY <2>9
      <4>2. f \in Int
        <5>1. PICK p \in Nat, h \in Nat : p = Page /\ h = c
          BY <1>1, <1>2
        <5>2. h * p \in Int
          BY ONLY p \in Nat, h \in Nat
        <5> QED
          BY <5>1, <5>2
      <4> QED
        BY <4>1, <4>2
    <3>2. e < chunk /\ o = call.offset + a /\ done = b
      BY <2>6, <2>7, <2>8
    <3> HIDE DEF a, b, e, f, o
    <3>3. PICK z \in Nat, u \in Nat, v \in Nat, l \in Nat, w \in Int :
            /\ z = call.offset /\ u = Before(call.sg, i - 1) /\ v = call.sg[i]
            /\ l = Before(call.sg, i) /\ w = f
      BY <2>3, <2>4, <2>5, <3>1
    <3>4. l = u + v /\ l <= w
      <4>1. Len(SgBytes(call.sg)) <= w /\ l <= Len(SgBytes(call.sg)) /\ l = u + v
        BY <2>2, <2>4, <3>3 DEF f
      <4>2. Len(SgBytes(call.sg)) \in Nat
        <5>1. Len(call.sg) \in Nat /\ Len(call.sg) \in 0 .. Len(call.sg)
          BY <2>3, LenProperties
        <5> QED
          BY <2>3, <5>1, SgLayout
      <4> QED
        BY <4>1, <4>2
    <3>5. u + skip = o + b /\ skip + chunk <= v /\ o = z + a
      BY <2>6, <3>2, <3>3 DEF o
    <3>6. a + b + e < w
      BY ONLY <3>1, <3>2, <3>4, <3>5, a \in Nat, b \in Nat, e \in Int, z \in Nat, u \in Nat,
              v \in Nat, l \in Nat, w \in Int, skip \in Nat, chunk \in Nat \ {0}
    <3> QED
      BY <3>1, <3>3, <3>6 DEF f
  <2>11. ~(c <= (m + d) + (n - 1))
    <3> SUFFICES ASSUME c <= (m + d) + (n - 1) PROVE FALSE
      OBVIOUS
    <3>1. PICK p \in Nat \ {0}, h \in Nat, l \in Int : p = Page /\ h = c /\ l = (m + d) + (n - 1)
      <4>1. Page \in Nat \ {0} /\ c \in Nat /\ (m + d) + (n - 1) \in Int
        <5> HIDE DEF c, m, n
        <5> QED
          BY <1>1, <1>2
      <4> HIDE DEF c, m, n
      <4> QED
        BY <4>1
    <3>1a. h <= l
      BY <3>1
    <3>2. h * p <= l * p
      BY ONLY <3>1a, h \in Nat, l \in Int, p \in Nat \ {0}
    <3>3. l * p < h * p /\ l * p \in Int /\ h * p \in Int
      <4>1. l * p < h * p
        BY <2>10, <3>1, Zenon
      <4> QED
        BY ONLY <4>1, p \in Nat \ {0}, h \in Nat, l \in Int
    <3> QED
      BY <3>2, <3>3
  <2> HIDE DEF c, n, m, s
  <2>12. (m + d) + n <= c
    BY <1>1, <1>2, <2>11
  <2> QED
    BY <2>12 DEF c, n, m
<1> QED
  BY <1>4, <1>5, <1>6

----------------------------------------------------------------------------
(* A turn of the loop over the scatter table, and the loop.                *)

(* A list, and what the loop over the table keeps.                         *)
ListType == [0 .. kind.count - 1 -> DescSet]

AccType(call) ==
  [list : ListType, next : Nat, left : 0 .. call.size, pos : Nat, err : Int]

(* What a transfer bound so far: in the first i entries d descriptors, and *)
(* y bytes of the call with those of the transfers before it.              *)
Bound(call, t, sd, i, acc, d, y) ==
  /\ Behind(call, t) + d <= kind.count
  /\ Carries(kind.count, desc_list, call.start, Asked(call), acc.list, Behind(call, t) + d, y)
  /\ acc.next = sd + d
  /\ acc.left # 0 =>
       /\ acc.pos = Before(call.sg, i)
       /\ call.size - acc.left =
            IF acc.pos < OffsetOf(call, t) THEN 0 ELSE acc.pos - OffsetOf(call, t)
       /\ Place(call, t, d, call.size - acc.left, y)
  /\ acc.left = 0 =>
       /\ d # 0 /\ y = (t + 1) * Kept(call)
       /\ Paged(call.sg) => d = DivRoundUp(call.size, Page)

(* The loop's invariant.                                                   *)
EntryInv(call, t, sd, i, acc) ==
  /\ acc \in AccType(call)
  /\ acc.err >= 0 => \E d \in Nat, y \in Nat : Bound(call, t, sd, i, acc, d, y)

(* A chunk, all of it.                                                     *)
LEMMA BindChunk ==
  ASSUME NEW call \in Calls, NEW t \in 0 .. call.batch - 1, NEW sd,
         NEW i \in 1 .. Len(call.sg), NEW acc \in AccType(call), NEW d \in Nat,
         NEW y \in Nat, NEW skip, NEW chunk, NEW list, kind \in ListKinds,
         desc_list \in ListType, Tidy(call), StrideOf(call) >= 0, OffsetMultiple(call, t),
         Follows(call, t, sd), Bound(call, t, sd, i - 1, acc, d, y), acc.left # 0,
         skip = IF acc.pos < OffsetOf(call, t) THEN OffsetOf(call, t) - acc.pos ELSE 0,
         ~(call.sg[i] <= skip), chunk = Lesser(acc.left, call.sg[i] - skip),
         sd + d + DivRoundUp(chunk, Page) <= (IF kind.is_circular THEN sd ELSE 0) + kind.count,
         list = ChunkList(acc.list, SgGap * i + skip, chunk, StrideOf(call),
                          NextPowerOfTwo(kind.count), acc.next, DivRoundUp(chunk, Page))
  PROVE  LET next == [list |-> list, next |-> acc.next + DivRoundUp(chunk, Page),
                      left |-> acc.left - chunk, pos |-> acc.pos + call.sg[i], err |-> 0]
         IN  EntryInv(call, t, sd, i, next)
<1> DEFINE c == kind.count
           n == DivRoundUp(chunk, Page)
           m == Behind(call, t)
           s == call.start
           st == StrideOf(call)
           o == OffsetOf(call, t)
           len == call.sg[i]
           b == Before(call.sg, i - 1)
           e == Before(call.sg, i)
           done == call.size - acc.left
           addr == SgGap * i + skip
           mask == NextPowerOfTwo(kind.count)
           z == y + (n - 1) * st + ChunkDesc(addr, chunk, st, n - 1).size
<1>1. c \in Nat \ {0} /\ m \in Nat /\ s \in Nat /\ t \in Nat /\ call.size \in Nat /\ st \in 1 .. Page
      /\ call.sg \in Seq(0 .. SgGap - 1) /\ SgGap \in Nat /\ Page \in Nat \ {0}
  <2>1. call.batch \in Nat
    BY CallsAssumption
  <2>2. t \in Nat
    BY <2>1
  <2> QED
    BY <2>2, KindType, BehindType, CallsAssumption, PageAssumption, StrideRange
<1>2. Len(call.sg) \in Nat /\ i \in Nat /\ i - 1 \in 0 .. Len(call.sg) /\ i \in 0 .. Len(call.sg)
  <2>1. PICK k \in Nat : k = Len(call.sg)
    BY <1>1, LenProperties
  <2>2. i \in 1 .. k
    BY <2>1
  <2>3. i \in Nat /\ i - 1 \in 0 .. k /\ i \in 0 .. k
    BY ONLY k \in Nat, <2>2
  <2> QED
    BY <2>1, <2>3
<1>3. len \in Nat /\ b \in Nat /\ e \in Nat /\ e = b + len
  <2>1. len \in 0 .. SgGap - 1
    BY <1>1, ElementOfSeq
  <2>2. b \in Nat /\ e \in Nat /\ e = b + call.sg[i]
    BY <1>1, <1>2, SgLayout
  <2> QED
    BY <1>1, <2>1, <2>2
<1>4. /\ acc.list \in ListType /\ acc.next \in Nat /\ acc.left \in 0 .. call.size
      /\ acc.pos \in Nat /\ acc.err \in Int
  BY DEF AccType
<1>4a. acc.next \in Nat /\ acc.pos \in Nat
  BY <1>4
<1>5. o \in Nat
  BY DEF OffsetMultiple
<1>6. acc.pos = b /\ done = (IF acc.pos < o THEN 0 ELSE acc.pos - o) /\ Place(call, t, d, done, y)
      /\ m + d <= c /\ acc.next = sd + d
      /\ Carries(c, desc_list, s, Asked(call), acc.list, m + d, y)
  BY DEF Bound
<1>7. skip \in Nat /\ done \in Nat /\ b + skip = o + done
  <2> HIDE DEF o, b, done
  <2>1. skip = IF b < o THEN o - b ELSE 0
    BY <1>6 DEF o
  <2>2. done = IF b < o THEN 0 ELSE b - o
    BY <1>6
  <2>3. PICK u \in Nat, v \in Nat : u = b /\ v = o
    BY <1>3, <1>5
  <2>4. /\ skip = IF u < v THEN v - u ELSE 0
        /\ done = IF u < v THEN 0 ELSE u - v
    BY <2>1, <2>2, <2>3
  <2>5. skip \in Nat /\ done \in Nat /\ u + skip = v + done
    BY ONLY <2>4, u \in Nat, v \in Nat
  <2> QED
    BY <2>3, <2>5
<1>8. chunk \in Nat \ {0} /\ skip + chunk <= len /\ done + chunk <= call.size
      /\ (done + chunk = call.size \/ skip + chunk = len)
      /\ acc.left - chunk \in 0 .. call.size
  <2>1. PICK l \in Nat, z1 \in Nat, q \in Nat : l = len /\ z1 = call.size /\ q = acc.left
    <3>1. acc.left \in Nat
      BY ONLY <1>1, <1>4
    <3> QED
      BY <1>1, <1>3, <3>1
  <2>2. /\ chunk = (IF q < l - skip THEN q ELSE l - skip) /\ ~(l <= skip) /\ q # 0 /\ q <= z1
        /\ done = z1 - q
    BY <1>4, <2>1 DEF Lesser
  <2> HIDE DEF done
  <2>3. chunk \in Nat \ {0} /\ skip + chunk <= l /\ done + chunk <= z1
        /\ (done + chunk = z1 \/ skip + chunk = l) /\ q - chunk \in 0 .. z1
    BY ONLY <1>7, <2>2, l \in Nat, z1 \in Nat, q \in Nat
  <2> QED
    BY <2>1, <2>3
<1>9. ChunkFits(call, t, i, d, done, y, skip, chunk)
  <2>1. st # Page => Paged(call.sg)
    BY StrideRange DEF Tidy, Paged
  <2> QED
    BY <1>6, <1>7, <1>8, <2>1 DEF ChunkFits
<1>10. n \in Nat \ {0}
  <2>1. n \in Nat /\ n * Page >= chunk
    BY <1>8, Pages
  <2>2. n # 0
    <3> SUFFICES ASSUME n = 0 PROVE FALSE
      OBVIOUS
    <3>1. n * Page = 0
      BY <1>1
    <3> QED
      BY <1>8, <2>1, <3>1
  <2> QED
    BY <2>1, <2>2
<1>11. (m + d) + n <= c
  <2> HIDE DEF done
  <2> QED
    BY <1>7, <1>8, <1>9, Room
<1>12. Aligned(c, s + (m + d), mask, sd + d, n)
  <2>1. ~kind.is_circular => sd + d + n <= c
    <3> SUFFICES ASSUME ~kind.is_circular PROVE sd + d + n <= c
      OBVIOUS
    <3>1. sd + d + n <= 0 + c
      OBVIOUS
    <3>2. c \in Nat
      BY <1>1, Zenon
    <3> HIDE DEF c
    <3>3. 0 + c = c
      BY ONLY <3>2
    <3> QED
      BY <3>1, <3>3, Zenon
  <2> QED
    BY <1>1, <1>10, <2>1, AlignedAt
<1>13. \A k \in 0 .. n - 1 : \A j \in 0 .. ChunkDesc(addr, chunk, st, k).size - 1 :
         Asked(call)[y + k * st + j + 1] = addr + k * Page + j
  <2>1. done \in Nat /\ chunk \in Nat \ {0} /\ skip \in Nat
    BY <1>7, <1>8
  <2> HIDE DEF done
  <2>2. ChunkMoves(call, i, y, skip, chunk)
    BY ONLY call \in Calls, t \in 0 .. call.batch - 1, i \in 1 .. Len(call.sg), d \in Nat,
            y \in Nat, OffsetMultiple(call, t), StrideOf(call) >= 0, <1>9, <2>1, ChunkBytes
  <2> QED
    BY ONLY <2>2 DEF ChunkMoves
<1>14. addr \in Nat
  <2>1. PICK g \in Nat : g = SgGap * i
    BY ONLY <1>1, <1>2
  <2>2. g + skip \in Nat
    BY <1>7, <2>1
  <2> QED
    BY <2>1, <2>2
<1>15. Carries(c, desc_list, s, Asked(call), list, (m + d) + n, z)
  <2>1. PICK a : a = Asked(call)
    OBVIOUS
  <2>2. PICK l : l = acc.list
    OBVIOUS
  <2>3. l \in [0 .. c - 1 -> DescSet]
    BY <1>4, <2>2 DEF ListType
  <2>4. PICK p \in Nat : p = m + d
    BY <1>1
  <2>5. PICK r \in Nat : r = st
    BY <1>1
  <2>6. PICK h \in Nat : h = addr
    BY <1>14
  <2>7. PICK x : x = n
    OBVIOUS
  <2>8. PICK w : w = sd + d
    OBVIOUS
  <2>9. /\ x \in Nat \ {0} /\ x = DivRoundUp(chunk, Page) /\ p + x <= c
        /\ Carries(c, desc_list, s, a, l, p, y)
        /\ Aligned(c, s + p, mask, w, x)
    BY <1>6, <1>10, <1>11, <1>12, <2>1, <2>2, <2>4, <2>7, <2>8
  <2>10. \A k \in 0 .. x - 1 : \A j \in 0 .. ChunkDesc(h, chunk, r, k).size - 1 :
           a[y + k * r + j + 1] = h + k * Page + j
    <3> HIDE DEF n, addr, st
    <3> QED
      BY ONLY <1>13, <2>1, <2>5, <2>6, <2>7
  <2>11. list = ChunkList(l, h, chunk, r, mask, w, x)
    BY <1>6, <2>2, <2>5, <2>6, <2>7, <2>8
  <2>12. chunk \in Nat
    BY <1>8
  <2> HIDE DEF c, mask, s
  <2>13. Carries(c, desc_list, s, a, ChunkList(l, h, chunk, r, mask, w, x), p + x,
                 y + (x - 1) * r + ChunkDesc(h, chunk, r, x - 1).size)
    BY ONLY <1>1, <2>3, p \in Nat, y \in Nat, h \in Nat, <2>12, r \in Nat, <2>9,
            <2>10, ChunkCarries, ZenonT(40)
  <2> QED
    BY <2>1, <2>4, <2>5, <2>6, <2>7, <2>11, <2>13 DEF c, s
<1>16. /\ z \in Nat
       /\ done + chunk # call.size => Place(call, t, d + n, done + chunk, z)
       /\ done + chunk = call.size =>
            z = (t + 1) * Kept(call) /\ (Paged(call.sg) => d + n = DivRoundUp(call.size, Page))
  <2>1. StrideOf(call) >= 0
    BY <1>1
  <2>2. z = ChunkEnd(call, y, addr, chunk)
    BY DEF ChunkEnd
  <2>3. chunk \in Nat \ {0} /\ done \in Nat /\ skip \in Nat
    BY <1>7, <1>8
  <2> HIDE DEF done, addr, z
  <2>4. ChunkEndsAt(call, t, d, done, y, addr, chunk)
    BY ONLY call \in Calls, t \in 0 .. call.batch - 1, i \in 1 .. Len(call.sg), d \in Nat,
            y \in Nat, OffsetMultiple(call, t), <1>9, <2>1, <2>3, ChunkEnds
  <2> QED
    BY ONLY <2>2, <2>4 DEF ChunkEndsAt, n
<1> DEFINE next == [list |-> list, next |-> acc.next + n, left |-> acc.left - chunk,
                    pos |-> acc.pos + len, err |-> 0]
<1>17. next \in AccType(call)
  <2>1. list \in ListType
    <3>1. acc.list \in [0 .. c - 1 -> DescSet]
      BY <1>4 DEF ListType
    <3>2. chunk \in Nat /\ st \in Nat /\ n \in Nat
      BY <1>1, <1>8, <1>10
    <3> HIDE DEF addr, st, n, c
    <3>3. ChunkList(acc.list, addr, chunk, st, mask, acc.next, n) \in [0 .. c - 1 -> DescSet]
      BY <1>1, <1>14, <3>1, <3>2, ChunkListType
    <3> QED
      BY <3>3 DEF addr, st, n, c, ListType
  <2>2. acc.next + n \in Nat /\ acc.pos + len \in Nat
    <3>1. len \in Nat /\ n \in Nat
      BY <1>3, <1>10
    <3> HIDE DEF n, len
    <3> QED
      BY ONLY <1>4a, <3>1
  <2> HIDE DEF n, len
  <2> QED
    BY <1>8, <2>1, <2>2 DEF AccType
<1>18. Bound(call, t, sd, i, next, d + n, z)
  <2>0. PICK p \in Nat : p = acc.pos + len
    <3> HIDE DEF len
    <3> QED
      BY ONLY <1>3, <1>4a
  <2>1. /\ next.list = list /\ next.next = acc.next + n /\ next.left = acc.left - chunk
        /\ next.pos = p
    BY <2>0
  <2>2. m + (d + n) = (m + d) + n /\ acc.next + n = sd + (d + n) /\ d + n # 0
    <3>1. sd \in Nat
      BY <1>1 DEF Follows
    <3> HIDE DEF n, m
    <3> QED
      BY <1>1, <1>6, <1>10, <3>1
  <2>3. /\ call.size - (acc.left - chunk) = done + chunk
        /\ acc.left - chunk = 0 <=> done + chunk = call.size
    <3>1. PICK z1 \in Nat, q \in Nat, x \in Nat : q <= z1 /\ z1 = call.size /\ q = acc.left /\ x = chunk
      <4>1. acc.left \in Nat /\ acc.left <= call.size /\ chunk \in Nat
        BY ONLY <1>1, <1>4, <1>8
      <4> QED
        BY <1>1, <4>1
    <3>2. z1 - (q - x) = (z1 - q) + x /\ (q - x = 0 <=> (z1 - q) + x = z1)
      BY ONLY <3>1, z1 \in Nat, q \in Nat, x \in Nat
    <3> QED
      BY <3>1, <3>2
  <2>5. ASSUME acc.left - chunk # 0
        PROVE  p = e /\ done + chunk = IF p < o THEN 0 ELSE p - o
    <3>1. skip + chunk = len
      BY <1>8, <2>3, <2>5
    <3>2. PICK x \in Nat, h \in Nat : x = acc.pos /\ h = chunk
      BY <1>4, <1>8
    <3>3. x = b /\ skip + h = len /\ h # 0
      BY <1>6, <1>8, <3>1, <3>2
    <3> HIDE DEF len, b, e, o, done
    <3>4. x + len = o + (done + h) /\ x + len = e
      BY ONLY <1>3, <1>5, <1>7, <3>3, x \in Nat, h \in Nat
    <3>5. done + h = (IF x + len < o THEN 0 ELSE x + len - o)
      BY ONLY <1>3, <1>5, <1>7, <3>4, h \in Nat, x \in Nat
    <3>6. p = x + len
      BY <2>0, <3>2
    <3>7. p = e /\ done + h = IF p < o THEN 0 ELSE p - o
      BY ONLY <3>4, <3>5, <3>6, <1>3, <1>5, x \in Nat, p \in Nat
    <3> QED
      BY ONLY <3>2, <3>7
  <2> HIDE DEF next, z, n, len, o, e, m, c, s, done
  <2>6. /\ m + (d + n) <= c
        /\ Carries(c, desc_list, s, Asked(call), next.list, m + (d + n), z)
        /\ next.next = sd + (d + n)
    BY <1>11, <1>15, <2>1, <2>2
  <2>7. next.left # 0 =>
          /\ next.pos = e
          /\ call.size - next.left = IF next.pos < o THEN 0 ELSE next.pos - o
          /\ Place(call, t, d + n, call.size - next.left, z)
    <3> SUFFICES ASSUME next.left # 0
                 PROVE  /\ next.pos = e
                        /\ call.size - next.left = IF next.pos < o THEN 0 ELSE next.pos - o
                        /\ Place(call, t, d + n, call.size - next.left, z)
      OBVIOUS
    <3>1. acc.left - chunk # 0 /\ call.size - next.left = done + chunk
      BY <2>1, <2>3
    <3>2. Place(call, t, d + n, done + chunk, z)
      BY <1>16, <2>3, <3>1
    <3>3. next.pos = p /\ p = e /\ done + chunk = IF p < o THEN 0 ELSE p - o
      BY <2>1, <2>5, <3>1
    <3> QED
      BY <3>1, <3>2, <3>3
  <2>8. next.left = 0 =>
          /\ d + n # 0 /\ z = (t + 1) * Kept(call)
          /\ Paged(call.sg) => d + n = DivRoundUp(call.size, Page)
    BY <1>16, <2>1, <2>2, <2>3
  <2> QED
    BY <2>6, <2>7, <2>8 DEF Bound, e, o, m, c, s
<1>19. d + n \in Nat
  BY <1>10
<1>20. EntryInv(call, t, sd, i, next)
  <2> HIDE DEF next, z, n
  <2> QED
    BY <1>16, <1>17, <1>18, <1>19 DEF EntryInv
<1> QED
  BY <1>20

LEMMA ChunkProgrammed ==
  ASSUME NEW list, NEW addr, NEW size, NEW next, NEW top, NEW stride
  PROVE  LET r == ProgramInChunk(list, addr, size, next, top, stride)
             n == DivRoundUp(size, Page)
         IN  \/ next + n > top + 1 /\ r.ret = ERANGE
             \/ /\ ~(next + n > top + 1) /\ r.ret = n
                /\ r.list = ChunkList(list, addr, size, stride, NextPowerOfTwo(kind.count), next, n)
BY DEF ProgramInChunk, ChunkList

(* A turn of the loop over the scatter table.                              *)
LEMMA BindEntryInv ==
  ASSUME NEW call \in Calls, NEW t \in 0 .. call.batch - 1, NEW sd,
         NEW i \in 1 .. Len(call.sg), NEW acc,
         kind \in ListKinds, desc_list \in ListType, Tidy(call), StrideOf(call) >= 0,
         OffsetMultiple(call, t), Follows(call, t, sd), EntryInv(call, t, sd, i - 1, acc)
  PROVE  EntryInv(call, t, sd, i,
           BindEntry(acc, call.sg[i], SgGap * i, OffsetOf(call, t),
                     (IF kind.is_circular THEN sd ELSE 0) + kind.count - 1, StrideOf(call)))
<1> DEFINE len == call.sg[i]
           o == OffsetOf(call, t)
           max == (IF kind.is_circular THEN sd ELSE 0) + kind.count - 1
           skip == IF acc.pos < o THEN o - acc.pos ELSE 0
           chunk == Lesser(acc.left, len - skip)
           r == ProgramInChunk(acc.list, SgGap * i + skip, chunk, acc.next, max, StrideOf(call))
           next == BindEntry(acc, len, SgGap * i, o, max, StrideOf(call))
           b == Before(call.sg, i - 1)
           e == Before(call.sg, i)
<1>1. acc \in AccType(call)
  BY DEF EntryInv
<1>2. /\ acc.list \in ListType /\ acc.next \in Nat /\ acc.left \in 0 .. call.size
      /\ acc.pos \in Nat /\ acc.err \in Int
  BY <1>1 DEF AccType
<1>3. call.size \in Nat /\ call.sg \in Seq(0 .. SgGap - 1)
  BY CallsAssumption
<1>4. len \in Nat /\ b \in Nat /\ e \in Nat /\ e = b + len
  <2>1. Len(call.sg) \in Nat /\ i - 1 \in 0 .. Len(call.sg) /\ i \in 0 .. Len(call.sg)
    BY <1>3, LenProperties
  <2>2. len \in 0 .. SgGap - 1
    BY <1>3, ElementOfSeq
  <2>3. b \in Nat /\ e \in Nat /\ e = b + call.sg[i]
    BY <1>3, <2>1, SgLayout
  <2> QED
    BY <2>2, <2>3, PageAssumption
<1>5. o \in Nat
  BY DEF OffsetMultiple
<1>6. kind.count \in Nat \ {0} /\ kind.is_circular \in BOOLEAN /\ sd \in Nat
  BY KindType DEF Follows
<1>7. CASE acc.err < 0 \/ acc.left = 0
  <2>1. next = acc
    BY <1>7 DEF BindEntry
  <2>2. ASSUME acc.err >= 0, NEW d \in Nat, NEW y \in Nat, Bound(call, t, sd, i - 1, acc, d, y)
        PROVE  Bound(call, t, sd, i, acc, d, y)
    <3>1. acc.left = 0
      BY <1>2, <1>7, <2>2
    <3> QED
      BY <2>2, <3>1 DEF Bound
  <2>3. EntryInv(call, t, sd, i, acc)
    BY <1>1, <2>2 DEF EntryInv
  <2> QED
    BY <2>1, <2>3
<1>8. CASE ~(acc.err < 0 \/ acc.left = 0)
  <2>0. acc.err >= 0 /\ acc.left # 0
    BY <1>2, <1>8
  <2>1. PICK d \in Nat, y \in Nat : Bound(call, t, sd, i - 1, acc, d, y)
    BY <2>0 DEF EntryInv
  <2>2. /\ acc.pos = b /\ acc.next = sd + d
        /\ call.size - acc.left = IF acc.pos < o THEN 0 ELSE acc.pos - o
    BY <2>0, <2>1 DEF Bound
  <2>3. CASE len <= skip
    <3>1. next = [acc EXCEPT !.pos = @ + len]
      BY <1>8, <2>3 DEF BindEntry
    <3>2. /\ next \in AccType(call)
          /\ next.list = acc.list /\ next.next = acc.next /\ next.left = acc.left
          /\ next.err = acc.err /\ next.pos = acc.pos + len
      <4> HIDE DEF len, next
      <4>1. acc.pos + len \in Nat
        <5>1. acc.pos \in Nat
          BY <1>2
        <5> QED
          BY ONLY <1>4, <5>1
      <4> QED
        BY ONLY <1>1, <3>1, <4>1 DEF AccType
    <3>3. /\ next.pos = e
          /\ call.size - acc.left = IF next.pos < o THEN 0 ELSE next.pos - o
      <4>1. PICK x \in Nat, l \in Nat, p \in Nat : x = acc.pos /\ l = len /\ p = x + l
        BY <1>2, <1>4
      <4>2. l <= (IF x < o THEN o - x ELSE 0) /\ next.pos = p
        BY <2>3, <3>2, <4>1
      <4>3. p = e
        BY <1>4, <2>2, <4>1
      <4>4. PICK u : u = call.size - acc.left
        OBVIOUS
      <4>5. u = IF x < o THEN 0 ELSE x - o
        BY <2>2, <4>1, <4>4
      <4> HIDE DEF o, b, e, len, next, skip
      <4>6. u = IF p < o THEN 0 ELSE p - o
        BY ONLY <1>5, <4>1, <4>2, <4>5, x \in Nat, l \in Nat, p \in Nat
      <4> QED
        BY <4>2, <4>3, <4>4, <4>6
    <3> HIDE DEF next, e, o
    <3>4. Bound(call, t, sd, i, next, d, y)
      <4>1. /\ Behind(call, t) + d <= kind.count
            /\ Carries(kind.count, desc_list, call.start, Asked(call), next.list, Behind(call, t) + d, y)
            /\ next.next = sd + d /\ Place(call, t, d, call.size - next.left, y)
        BY <2>0, <2>1, <3>2 DEF Bound
      <4>2. /\ next.pos = e /\ next.left # 0
            /\ call.size - next.left = IF next.pos < o THEN 0 ELSE next.pos - o
        BY <2>0, <3>2, <3>3
      <4> QED
        BY <4>1, <4>2 DEF Bound, e, o
    <3> QED
      BY <3>2, <3>4 DEF EntryInv, next, o
  <2>4. CASE ~(len <= skip)
    <3> DEFINE n == DivRoundUp(chunk, Page)
    <3>0. \/ acc.next + n > max + 1 /\ r.ret = ERANGE
          \/ /\ ~(acc.next + n > max + 1) /\ r.ret = n
             /\ r.list = ChunkList(acc.list, SgGap * i + skip, chunk, StrideOf(call),
                                   NextPowerOfTwo(kind.count), acc.next, n)
      BY ChunkProgrammed
    <3>1. n \in Nat
      <4>1. chunk \in Nat
        <5>1. PICK x \in Nat, l \in Nat, q \in Nat : x = acc.pos /\ l = len /\ q = acc.left
          BY <1>2, <1>3, <1>4
        <5>2. PICK k \in Nat : k = skip
          <6>1. skip \in Nat
            BY <1>5, <5>1
          <6> QED
            BY <6>1
        <5>3. chunk = (IF q < l - k THEN q ELSE l - k) /\ ~(l <= k)
          BY <2>4, <5>1, <5>2 DEF Lesser
        <5> QED
          BY ONLY <5>3, l \in Nat, q \in Nat, k \in Nat
      <4> HIDE DEF chunk
      <4> QED
        BY <4>1, Pages
    <3> HIDE DEF r, skip, chunk
    <3>2. CASE acc.next + n > max + 1 /\ r.ret = ERANGE
      <4>1. r.ret < 0
        BY <3>2 DEF ERANGE
      <4>2. next = [acc EXCEPT !.err = r.ret]
        BY <1>8, <2>4, <4>1 DEF BindEntry, r, skip, chunk
      <4>3. r.ret \in Int
        BY <3>2 DEF ERANGE
      <4>4. next \in AccType(call) /\ next.err = r.ret
        <5> HIDE DEF next
        <5> QED
          BY <1>1, <4>2, <4>3 DEF AccType
      <4>5. ~(next.err >= 0)
        BY <4>1, <4>3, <4>4
      <4> QED
        BY <4>4, <4>5 DEF EntryInv
    <3>3. CASE /\ ~(acc.next + n > max + 1) /\ r.ret = n
               /\ r.list = ChunkList(acc.list, SgGap * i + skip, chunk, StrideOf(call),
                                     NextPowerOfTwo(kind.count), acc.next, n)
      <4>1. ~(r.ret < 0)
        BY <3>1, <3>3
      <4>2. next = [list |-> r.list, next |-> acc.next + n, left |-> acc.left - chunk,
                    pos |-> acc.pos + len, err |-> 0]
        BY <1>8, <2>4, <3>3, <4>1 DEF BindEntry, r, skip, chunk
      <4>3. sd + d + n <= (IF kind.is_circular THEN sd ELSE 0) + kind.count
        <5>1. PICK z \in Nat : z = IF kind.is_circular THEN sd ELSE 0
          BY <1>6
        <5>2. PICK c \in Nat : c = kind.count
          BY <1>6
        <5>3. ~((sd + d) + n > (z + c - 1) + 1)
          BY <2>2, <3>3, <5>1, <5>2
        <5> HIDE DEF n
        <5>4. sd + d + n <= z + c
          BY ONLY <1>6, <3>1, <5>3, z \in Nat, c \in Nat, d \in Nat
        <5> QED
          BY <5>1, <5>2, <5>4
      <4>4. PICK list : list = r.list
        OBVIOUS
      <4>5. skip = (IF acc.pos < OffsetOf(call, t) THEN OffsetOf(call, t) - acc.pos ELSE 0)
            /\ chunk = Lesser(acc.left, call.sg[i] - skip)
        BY DEF skip, chunk
      <4>6. list = ChunkList(acc.list, SgGap * i + skip, chunk, StrideOf(call),
                             NextPowerOfTwo(kind.count), acc.next, DivRoundUp(chunk, Page))
        BY <3>3, <4>4
      <4>7. EntryInv(call, t, sd, i,
              [list |-> list, next |-> acc.next + DivRoundUp(chunk, Page),
               left |-> acc.left - chunk, pos |-> acc.pos + call.sg[i], err |-> 0])
        <5> HIDE DEF next, max, b, e
        <5>1. ~(call.sg[i] <= skip)
          BY <2>4
        <5> QED
          BY <1>1, <2>0, <2>1, <4>3, <4>5, <4>6, <5>1, BindChunk, ZenonT(40)
      <4> QED
        BY <4>2, <4>4, <4>7
    <3> QED
      BY <3>0, <3>2, <3>3
  <2> QED
    BY <2>3, <2>4
<1> QED
  BY <1>7, <1>8

(* The loop over the scatter table.                                        *)
LEMMA BindEntriesInv ==
  ASSUME NEW call \in Calls, NEW t \in 0 .. call.batch - 1, NEW sd, NEW list \in ListType,
         kind \in ListKinds, desc_list \in ListType, Tidy(call), StrideOf(call) >= 0,
         OffsetMultiple(call, t), Follows(call, t, sd), Behind(call, t) <= kind.count,
         Carries(kind.count, desc_list, call.start, Asked(call), list, Behind(call, t), t * Kept(call))
  PROVE  EntryInv(call, t, sd, Len(call.sg),
           BindEntries(list, sd, call.sg, OffsetOf(call, t), call.size, StrideOf(call))[Len(call.sg)])
<1> DEFINE n == Len(call.sg)
           g == BindEntries(list, sd, call.sg, OffsetOf(call, t), call.size, StrideOf(call))
           first == [list |-> list, next |-> sd, left |-> call.size, pos |-> 0, err |-> 0]
           B == {i \in 0 .. n : ~EntryInv(call, t, sd, i, g[i])}
<1>1. call.sg \in Seq(0 .. SgGap - 1) /\ call.size \in Nat \ {0} /\ n \in Nat
      /\ call.batch \in Nat /\ Page \in Nat
  BY CallsAssumption, PageAssumption, LenProperties
<1>2. /\ g[0] = first
      /\ \A i \in 1 .. n :
           g[i] = BindEntry(g[i - 1], call.sg[i], SgGap * i, OffsetOf(call, t),
                            (IF kind.is_circular THEN sd ELSE 0) + kind.count - 1, StrideOf(call))
  BY <1>1, BindRecursion
<1> HIDE DEF g, n
<1>3. EntryInv(call, t, sd, 0, first)
  <2>1. sd \in Nat /\ t \in Nat
    BY <1>1, KindType DEF Follows
  <2>2. Behind(call, t) \in Nat /\ Kept(call) \in Nat
    BY <2>1, BehindType, KeptIs
  <2>3. t * Kept(call) \in Nat
    BY <2>1, <2>2
  <2>4. first \in AccType(call)
    BY <1>1, <2>1 DEF AccType
  <2>5. PICK y \in Nat : y = t * Kept(call)
    BY <2>3
  <2>6. OffsetOf(call, t) \in Nat
    BY DEF OffsetMultiple
  <2>7. Place(call, t, 0, 0, y)
    <3>1. 0 * Page = 0
      BY <1>1
    <3>2. StrideOf(call) \in Int
      BY StrideRange, PageAssumption
    <3>3. 0 * StrideOf(call) = 0
      BY <3>2
    <3>4. y = y + (IF StrideOf(call) = Page THEN 0 ELSE 0)
      OBVIOUS
    <3> QED
      BY <2>5, <3>1, <3>3, <3>4 DEF Place
  <2>8. call.size - call.size = (IF 0 < OffsetOf(call, t) THEN 0 ELSE 0 - OffsetOf(call, t))
    BY <1>1, <2>6
  <2>9. Before(call.sg, 0) = 0
    BY <1>1, SgLayout
  <2>10. Place(call, t, 0, call.size - call.size, y)
    BY <1>1, <2>7
  <2>11. Behind(call, t) + 0 = Behind(call, t) /\ sd + 0 = sd
    BY <2>1, <2>2
  <2>12. Bound(call, t, sd, 0, first, 0, y)
    <3>1. /\ first.list = list /\ first.next = sd /\ first.left = call.size /\ first.pos = 0
          /\ first.left # 0
      BY <1>1
    <3> HIDE DEF first
    <3> QED
      BY <2>5, <2>8, <2>9, <2>10, <2>11, <3>1 DEF Bound
  <2> HIDE DEF first
  <2> QED
    BY <2>4, <2>12 DEF EntryInv
<1>4. B = {}
  <2> SUFFICES ASSUME B # {} PROVE FALSE
    OBVIOUS
  <2>1. B \in SUBSET Nat
    BY <1>1
  <2>2. PICK i \in B : \A j \in B : i <= j
    BY <2>1, Least
  <2>3. i \in 0 .. n /\ ~EntryInv(call, t, sd, i, g[i])
    BY <2>2
  <2>4. i # 0
    BY <1>2, <1>3, <2>3
  <2>5. i - 1 \in 0 .. n /\ i \in 1 .. n /\ ~(i <= i - 1)
    BY <1>1, <2>3, <2>4
  <2>6. i - 1 \notin B
    BY <2>2, <2>5
  <2>7. EntryInv(call, t, sd, i - 1, g[i - 1])
    BY <2>5, <2>6
  <2>8. i \in 1 .. Len(call.sg)
    BY <2>5 DEF n
  <2>9. EntryInv(call, t, sd, i,
          BindEntry(g[i - 1], call.sg[i], SgGap * i, OffsetOf(call, t),
                    (IF kind.is_circular THEN sd ELSE 0) + kind.count - 1, StrideOf(call)))
    BY <2>7, <2>8, BindEntryInv
  <2> QED
    BY <1>2, <2>3, <2>5, <2>9
<1>5. n \in 0 .. n
  BY <1>1
<1>6. EntryInv(call, t, sd, n, g[n])
  BY <1>4, <1>5
<1> QED
  BY <1>6 DEF g, n

(* The m descriptors are programmed, and the last one interrupts.          *)
Done(c, before, s, a, list, m, y, irq) ==
  /\ Len(Flat(Pieces(c, list, s), m)) = y
  /\ \A i \in 1 .. y : Flat(Pieces(c, list, s), m)[i] = a[i]
  /\ \A k \in 0 .. m - 1 : list[(s + k) % c].irq <=> k = m - 1 /\ irq
  /\ \A d \in 0 .. c - 1 : (\A k \in 0 .. m - 1 : d # (s + k) % c) => list[d] = before[d]

LEMMA NotLast ==
  ASSUME NEW c, NEW before, NEW s, NEW a, NEW list, NEW m, NEW y,
         NEW irq, ~irq, Done(c, before, s, a, list, m, y, irq)
  PROVE  Carries(c, before, s, a, list, m, y)
BY DEF Done, Carries

(* A descriptor that interrupts, too, if irq says so.                      *)
Requested(f, desc, irq) ==
  f.addr = desc.addr /\ f.size = desc.size /\ (f.irq <=> desc.irq \/ irq)

(* The list in which the last of m descriptors from s on does so.          *)
Interrupts(c, s, m, list, irq, other) ==
  \E f \in DescSet : /\ Requested(f, list[(s + (m - 1)) % c], irq)
                      /\ other = [list EXCEPT ![(s + (m - 1)) % c] = f]

LEMMA RequestIrqIs ==
  ASSUME NEW list \in ListType, NEW next, NEW irq, NEW e \in 0 .. kind.count - 1,
         (next - 1) % kind.count = e
  PROVE  \E f \in DescSet :
           /\ Requested(f, list[e], irq)
           /\ RequestIrq(list, next, irq) = [list EXCEPT ![e] = f]
<1>1. list[e] \in DescSet
  BY DEF ListType
<1>2. PICK v \in BOOLEAN : v = (list[e].irq \/ irq)
  <2>1. (list[e].irq \/ irq) \in BOOLEAN
    OBVIOUS
  <2> QED
    BY <2>1
<1>3. PICK f : f = [list[e] EXCEPT !.irq = v]
  OBVIOUS
<1>4. f \in DescSet /\ f.addr = list[e].addr /\ f.size = list[e].size /\ f.irq = v
  BY <1>1, <1>3 DEF DescSet
<1>5. RequestIrq(list, next, irq) = [list EXCEPT ![e] = f]
  BY <1>2, <1>3 DEF RequestIrq
<1>6. Requested(f, list[e], irq)
  BY <1>2, <1>4 DEF Requested
<1> QED
  BY <1>4, <1>5, <1>6

LEMMA RequestDone ==
  ASSUME NEW c \in Nat \ {0}, NEW before, NEW s \in Nat, NEW a,
         NEW list \in [0 .. c - 1 -> DescSet], NEW m \in Nat \ {0}, NEW y, NEW irq,
         NEW other, m <= c, Carries(c, before, s, a, list, m, y),
         Interrupts(c, s, m, list, irq, other)
  PROVE  other \in [0 .. c - 1 -> DescSet] /\ Done(c, before, s, a, other, m, y, irq)
<1> DEFINE e == (s + (m - 1)) % c
           P == Pieces(c, list, s)
           Q == Pieces(c, other, s)
<1>1. e \in 0 .. c - 1
  <2>1. s + (m - 1) \in Nat
    OBVIOUS
  <2> QED
    BY <2>1, Quotient
<1>2. PICK f \in DescSet : Requested(f, list[e], irq) /\ other = [list EXCEPT ![e] = f]
  BY DEF Interrupts
<1> HIDE DEF e
<1>6. f \in DescSet /\ f.addr = list[e].addr /\ f.size = list[e].size
      /\ (f.irq <=> list[e].irq \/ irq)
  BY <1>2 DEF Requested
<1>7. /\ other \in [0 .. c - 1 -> DescSet] /\ other[e] = f
      /\ \A d \in 0 .. c - 1 : d # e => other[d] = list[d]
  BY <1>1, <1>2
<1>8. \A d \in 0 .. c - 1 : other[d].addr = list[d].addr /\ other[d].size = list[d].size
  BY <1>6, <1>7
<1>9. Flat(Q, m) = Flat(P, m)
  <2>1. ASSUME NEW k \in 1 .. m PROVE Q[k] = P[k]
    <3>1. PICK d : d = (s + k - 1) % c
      OBVIOUS
    <3>2. d \in 0 .. c - 1
      <4>1. s + k - 1 \in Nat
        OBVIOUS
      <4> QED
        BY <3>1, <4>1, Quotient
    <3>3. /\ Q[k] = [j \in 1 .. other[d].size |-> other[d].addr + j - 1]
          /\ P[k] = [j \in 1 .. list[d].size |-> list[d].addr + j - 1]
      BY <3>1 DEF Pieces
    <3>4. PICK x, z : x = list[d].addr /\ z = list[d].size
      OBVIOUS
    <3>5. other[d].addr = x /\ other[d].size = z
      BY <1>8, <3>2, <3>4
    <3> HIDE DEF P, Q
    <3> QED
      BY ONLY <3>3, <3>4, <3>5
  <2> HIDE DEF P, Q
  <2> QED
    BY <2>1, FlatSame
<1>10. ASSUME NEW k \in 0 .. m - 1
       PROVE  other[(s + k) % c].irq <=> k = m - 1 /\ irq
  <2>1. ~list[(s + k) % c].irq
    BY DEF Carries
  <2>2. CASE k = m - 1
    <3>1. (s + k) % c = e
      BY <2>2 DEF e
    <3> QED
      BY <1>6, <1>7, <2>1, <2>2, <3>1
  <2>3. CASE k # m - 1
    <3>1. PICK h \in Nat : h = m - 1
      OBVIOUS
    <3>2. k \in Nat /\ k < h /\ h - k < c
      BY <2>3, <3>1
    <3>3. (s + k) % c # (s + h) % c
      BY ONLY c \in Nat \ {0}, s \in Nat, h \in Nat, <3>2, WrapUnique
    <3>4. (s + k) % c # e
      BY <3>1, <3>3 DEF e
    <3>5. (s + k) % c \in 0 .. c - 1
      <4>1. s + k \in Nat
        OBVIOUS
      <4> QED
        BY <4>1, Quotient
    <3> QED
      BY <1>7, <2>1, <2>3, <3>4, <3>5
  <2> QED
    BY <2>2, <2>3
<1>11. ASSUME NEW d \in 0 .. c - 1, \A k \in 0 .. m - 1 : d # (s + k) % c
       PROVE  other[d] = before[d]
  <2>1. m - 1 \in 0 .. m - 1
    OBVIOUS
  <2>2. d # e
    BY <1>11, <2>1 DEF e
  <2>3. list[d] = before[d]
    BY <1>11 DEF Carries
  <2> QED
    BY <1>7, <2>2, <2>3
<1>12. /\ Len(Flat(P, m)) = y
       /\ \A i \in 1 .. y : Flat(P, m)[i] = a[i]
  BY DEF Carries
<1> HIDE DEF P
<1>13. /\ Len(Flat(Q, m)) = y
       /\ \A i \in 1 .. y : Flat(Q, m)[i] = a[i]
  BY <1>9, <1>12
<1> QED
  BY <1>7, <1>10, <1>11, <1>13 DEF Done

----------------------------------------------------------------------------
(* A transfer, and the batch.                                              *)

(* What a transfer of a batch comes to.                                    *)
Transferred(call, t, sd, irq, r) ==
  /\ r.list \in ListType /\ r.ret \in Int
  /\ r.ret >= 0 =>
       /\ r.ret \in Nat \ {0} /\ Behind(call, t) + r.ret <= kind.count
       /\ StrideOf(call) >= 0 /\ Follows(call, t, sd)
       /\ Paged(call.sg) => r.ret = DivRoundUp(call.size, Page)
       /\ Done(kind.count, desc_list, call.start, Asked(call), r.list, Behind(call, t) + r.ret,
               (t + 1) * Kept(call), irq)

(* The descriptor the loop stopped behind is the transfer's last one.      *)
LEMMA LastIndex ==
  ASSUME NEW call \in Calls, NEW t \in Nat, NEW sd, NEW d \in Nat \ {0}, kind \in ListKinds,
         Follows(call, t, sd)
  PROVE  (sd + d - 1) % kind.count = (call.start + ((Behind(call, t) + d) - 1)) % kind.count
<1>1. PICK c \in Nat \ {0}, m \in Nat, s \in Nat :
        c = kind.count /\ m = Behind(call, t) /\ s = call.start
  BY KindType, BehindType, CallsAssumption
<1>2. PICK b \in Nat : d = b + 1
  <2>1. d - 1 \in Nat /\ d = (d - 1) + 1
    OBVIOUS
  <2> QED
    BY <2>1
<1>3. sd \in 0 .. c - 1
  BY <1>1 DEF Follows
<1>4. sd + d - 1 = sd + b /\ s + ((m + d) - 1) = (s + m) + b
  BY ONLY <1>2, <1>3, c \in Nat \ {0}, m \in Nat, s \in Nat, b \in Nat
<1>5. CASE kind.is_circular
  <2>1. sd = (s + m) % c
    BY <1>1, <1>5 DEF Follows
  <2>2. PICK a \in Nat : a = s + m
    OBVIOUS
  <2>3. (sd + b) % c = (a + b) % c
    BY <2>1, <2>2, WrapTwice
  <2> QED
    BY <1>1, <1>4, <2>2, <2>3
<1>6. CASE ~kind.is_circular
  <2>1. sd = s + m
    BY <1>1, <1>6 DEF Follows
  <2> QED
    BY <1>1, <1>4, <2>1
<1> QED
  BY <1>5, <1>6

(* A transfer that follows on those before it either fails or carries its  *)
(* bytes behind theirs.                                                    *)
LEMMA BindTransfers ==
  ASSUME NEW call \in Calls, NEW t \in 0 .. call.batch - 1, NEW sd \in Nat,
         NEW list \in ListType, NEW irq,
         kind \in ListKinds, desc_list \in ListType, Tidy(call), OffsetOf(call, t) \in Nat,
         sd < kind.count => Follows(call, t, sd), Behind(call, t) <= kind.count,
         Carries(kind.count, desc_list, call.start, Asked(call), list, Behind(call, t), t * Kept(call))
  PROVE  Transferred(call, t, sd, irq, Bind(list, sd, call, OffsetOf(call, t), irq))
<1> DEFINE c == kind.count
           o == OffsetOf(call, t)
           st == StrideOf(call)
           end == BindEntries(list, sd, call.sg, o, call.size, st)[Len(call.sg)]
           r == Bind(list, sd, call, o, irq)
<1>1. /\ c \in Nat \ {0} /\ t \in Nat /\ call.start \in Nat /\ call.size \in Nat
      /\ Behind(call, t) \in Nat
  <2>1. t \in Nat
    BY CallsAssumption
  <2> QED
    BY <2>1, KindType, BehindType, CallsAssumption
<1>2. r = IF o % Page # 0 \/ sd >= c \/ st < 0 THEN [ret |-> EINVAL, list |-> list]
          ELSE IF end.err < 0 THEN [ret |-> end.err, list |-> end.list]
          ELSE IF end.left # 0 THEN [ret |-> EFAULT, list |-> end.list]
          ELSE [ret |-> end.next - sd, list |-> RequestIrq(end.list, end.next, irq)]
  BY DEF Bind, StrideOf
<1> HIDE DEF r
<1>3. CASE o % Page # 0 \/ sd >= c \/ st < 0
  <2>1. r.ret = -22 /\ r.list = list
    BY <1>2, <1>3 DEF EINVAL
  <2> QED
    BY <2>1 DEF Transferred, r
<1>4. CASE ~(o % Page # 0 \/ sd >= c \/ st < 0)
  <2>1. OffsetMultiple(call, t)
    BY <1>4 DEF OffsetMultiple
  <2>2. sd < c
    BY <1>1, <1>4
  <2>3. st >= 0
    <3>1. st \in Int
      <4>1. call.stride \in Nat /\ Page \in Nat
        BY CallsAssumption, PageAssumption
      <4> QED
        BY <4>1 DEF StrideOf, Stride, EINVAL
    <3> HIDE DEF st
    <3> QED
      BY <1>4, <3>1
  <2>4. EntryInv(call, t, sd, Len(call.sg), end)
    BY <2>1, <2>2, <2>3, BindEntriesInv
  <2> HIDE DEF end
  <2>5. /\ end.list \in ListType /\ end.next \in Nat /\ end.left \in 0 .. call.size
        /\ end.err \in Int
    BY <2>4 DEF EntryInv, AccType
  <2>6. CASE end.err < 0
    <3>1. r.ret = end.err /\ r.list = end.list
      BY <1>2, <1>4, <2>6
    <3>2. ~(r.ret >= 0)
      BY <2>5, <2>6, <3>1
    <3> QED
      BY <2>5, <3>1, <3>2 DEF Transferred, r
  <2>7. CASE ~(end.err < 0) /\ end.left # 0
    <3>1. r.ret = -14 /\ r.list = end.list
      BY <1>2, <1>4, <2>7 DEF EFAULT
    <3> QED
      BY <2>5, <3>1 DEF Transferred, r
  <2>8. CASE ~(end.err < 0) /\ end.left = 0
    <3>1. end.err >= 0
      BY <2>5, <2>8
    <3>2. PICK d \in Nat, y \in Nat : Bound(call, t, sd, Len(call.sg), end, d, y)
      BY <2>4, <3>1 DEF EntryInv
    <3>3. /\ Behind(call, t) + d <= c /\ end.next = sd + d /\ d # 0
          /\ Carries(c, desc_list, call.start, Asked(call), end.list, Behind(call, t) + d,
                     (t + 1) * Kept(call))
          /\ Paged(call.sg) => d = DivRoundUp(call.size, Page)
      BY <2>8, <3>2 DEF Bound
    <3>4. r.ret = end.next - sd /\ r.list = RequestIrq(end.list, end.next, irq)
      BY <1>2, <1>4, <2>8
    <3>5. end.next - sd = d
      BY <2>5, <3>3
    <3>6. (end.next - 1) % c = (call.start + ((Behind(call, t) + d) - 1)) % c
      BY <1>1, <2>2, <3>3, LastIndex
    <3>7. PICK m \in Nat \ {0}, s \in Nat, other \in {r.list} : m = Behind(call, t) + d /\ s = call.start
            /\ other = r.list
      BY <1>1, <3>3
    <3>8. PICK own : own = end.list
      OBVIOUS
    <3>9. PICK e : e = (s + (m - 1)) % c
      OBVIOUS
    <3>9a. PICK f \in DescSet :
             Requested(f, own[e], irq) /\ other = [own EXCEPT ![e] = f]
      <4>1. s + (m - 1) \in Nat
        BY <1>1, <3>7
      <4>2. e \in 0 .. kind.count - 1
        BY <1>1, <3>9, <4>1, Quotient
      <4>3. own \in ListType /\ (end.next - 1) % kind.count = e
        BY <2>5, <3>6, <3>7, <3>8, <3>9
      <4> QED
        BY <3>4, <3>7, <3>8, <4>2, <4>3, RequestIrqIs
    <3>10. PICK y2 : y2 = (t + 1) * Kept(call)
      OBVIOUS
    <3>11. /\ own \in [0 .. c - 1 -> DescSet] /\ m <= c
           /\ Carries(c, desc_list, s, Asked(call), own, m, y2)
      BY <2>5, <3>3, <3>7, <3>8, <3>10 DEF ListType
    <3> HIDE DEF c
    <3>12. other \in [0 .. c - 1 -> DescSet] /\ Done(c, desc_list, s, Asked(call), other, m, y2, irq)
      <4>1. PICK before, a, z : before = desc_list /\ a = Asked(call) /\ z = c
        OBVIOUS
      <4>2. /\ z \in Nat \ {0} /\ own \in [0 .. z - 1 -> DescSet] /\ m <= z
            /\ Carries(z, before, s, a, own, m, y2)
        BY ONLY <1>1, <3>11, <4>1
      <4>3. Interrupts(z, s, m, own, irq, other)
        BY ONLY <3>9, <3>9a, <4>1 DEF Interrupts
      <4>4. other \in [0 .. z - 1 -> DescSet] /\ Done(z, before, s, a, other, m, y2, irq)
        BY ONLY s \in Nat, m \in Nat \ {0}, <4>2, <4>3, RequestDone
      <4> QED
        BY ONLY <4>1, <4>4
    <3>13. r.ret = d
      BY <3>4, <3>5
    <3>14. r.list \in ListType
      BY <3>7, <3>12 DEF ListType, c
    <3>15. /\ r.ret \in Nat \ {0} /\ Behind(call, t) + r.ret <= kind.count
           /\ Paged(call.sg) => r.ret = DivRoundUp(call.size, Page)
      BY <3>3, <3>13 DEF c
    <3>16. Done(kind.count, desc_list, call.start, Asked(call), r.list, Behind(call, t) + r.ret,
                (t + 1) * Kept(call), irq)
      BY <3>7, <3>10, <3>12, <3>13 DEF c
    <3>17. Follows(call, t, sd)
      BY <2>2 DEF c
    <3>18. Transferred(call, t, sd, irq, r)
      BY <2>3, <3>14, <3>15, <3>16, <3>17 DEF Transferred
    <3> QED
      BY <3>18 DEF r
  <2> QED
    BY <2>6, <2>7, <2>8
<1> QED
  BY <1>3, <1>4

(* What is behind the first i transfers of a batch.                        *)
BatchInv(call, i, acc) ==
  /\ acc \in [ret : Int, list : ListType, offset : Nat, next : Nat]
  /\ acc.ret >= 0 /\ i >= 1 =>
       /\ StrideOf(call) >= 0 /\ acc.ret \in 1 .. kind.count
       /\ Done(kind.count, desc_list, call.start, Asked(call), acc.list, acc.ret, i * Kept(call),
               call.irq /\ i = call.batch)
  /\ acc.ret >= 0 /\ i < call.batch =>
       /\ acc.ret = Behind(call, i) /\ acc.ret <= kind.count
       /\ acc.offset = OffsetOf(call, i)
       /\ acc.next < kind.count => Follows(call, i, acc.next)
       /\ Carries(kind.count, desc_list, call.start, Asked(call), acc.list, acc.ret, i * Kept(call))

LEMMA BehindNext ==
  ASSUME NEW call \in Calls, NEW t \in Nat, NEW d, d = DivRoundUp(call.size, Page)
  PROVE  /\ Behind(call, t + 1) = Behind(call, t) + d
         /\ OffsetOf(call, t + 1) = OffsetOf(call, t) + d * Page
<1>1. d \in Nat /\ Page \in Nat /\ call.offset \in Nat
  <2>1. call.size \in Nat /\ call.offset \in Nat /\ Page \in Nat
    BY CallsAssumption, PageAssumption
  <2>2. DivRoundUp(call.size, Page) \in Nat
    BY <2>1, Pages
  <2> QED
    BY <2>1, <2>2
<1>2. Behind(call, t) = t * d /\ Behind(call, t + 1) = (t + 1) * d
  BY DEF Behind
<1>3. PICK o \in Nat, p \in Nat, a \in Nat, b \in Nat : o = call.offset /\ p = Page /\ a = t * d /\ b = d
  <2>1. t * d \in Nat
    BY <1>1
  <2> QED
    BY <1>1, <2>1
<1>4. (t + 1) * d = a + b
  <2>1. (t + 1) * d = t * d + d
    BY ONLY t \in Nat, <1>1
  <2> QED
    BY <1>3, <2>1
<1>5. OffsetOf(call, t) = o + a * p /\ OffsetOf(call, t + 1) = o + (a + b) * p
  BY <1>2, <1>3, <1>4, BehindType
<1>6. o + (a + b) * p = (o + a * p) + b * p
  <2>1. (a + b) * p = a * p + b * p
    BY ONLY a \in Nat, b \in Nat, p \in Nat
  <2>2. a * p \in Nat /\ b * p \in Nat
    BY ONLY a \in Nat, b \in Nat, p \in Nat
  <2> QED
    BY <2>1, <2>2
<1> QED
  BY <1>2, <1>3, <1>4, <1>5, <1>6

(* Where the next transfer begins.                                         *)
LEMMA FollowsNext ==
  ASSUME NEW call \in Calls, NEW t \in Nat, NEW sd, NEW d \in Nat, NEW next,
         kind \in ListKinds, Follows(call, t, sd), Behind(call, t + 1) = Behind(call, t) + d,
         next = IF kind.is_circular THEN (sd + d) % kind.count ELSE sd + d
  PROVE  next \in Nat /\ (next < kind.count => Follows(call, t + 1, next))
<1>1. PICK c \in Nat \ {0}, m \in Nat, s \in Nat :
        c = kind.count /\ m = Behind(call, t) /\ s = call.start
  BY KindType, BehindType, CallsAssumption
<1>2. sd \in 0 .. c - 1 /\ sd + d \in Nat
  <2>1. sd \in 0 .. c - 1
    BY <1>1 DEF Follows
  <2> QED
    BY <2>1
<1>3. s + (m + d) = (s + m) + d
  BY <1>1
<1>4. CASE kind.is_circular
  <2>1. sd = (s + m) % c
    BY <1>1, <1>4 DEF Follows
  <2>2. PICK a \in Nat : a = s + m
    OBVIOUS
  <2>3. (sd + d) % c = (a + d) % c
    BY <2>1, <2>2, WrapTwice
  <2>4. next \in 0 .. c - 1 /\ next = (s + (m + d)) % c
    BY <1>1, <1>2, <1>3, <1>4, <2>2, <2>3, Quotient
  <2> QED
    BY <1>1, <1>4, <2>4 DEF Follows
<1>5. CASE ~kind.is_circular
  <2>1. sd = s + m
    BY <1>1, <1>5 DEF Follows
  <2>2. next = s + (m + d) /\ next \in Nat
    BY <1>1, <1>2, <1>3, <1>5, <2>1
  <2>3. next < c => next \in 0 .. c - 1
    BY <2>2
  <2> QED
    BY <1>1, <1>5, <2>2, <2>3 DEF Follows
<1> QED
  BY <1>4, <1>5

LEMMA FirstTransfer ==
  ASSUME NEW call \in Calls, kind \in ListKinds, desc_list \in ListType
  PROVE  BatchInv(call, 0, [ret |-> 0, list |-> desc_list, offset |-> call.offset, next |-> call.start])
<1> DEFINE c == kind.count
           acc == [ret |-> 0, list |-> desc_list, offset |-> call.offset, next |-> call.start]
<1>1. /\ c \in Nat \ {0} /\ call.start \in Nat /\ call.size \in Nat /\ call.offset \in Nat
      /\ Page \in Nat \ {0} /\ call.stride \in Nat
  BY KindType, CallsAssumption, PageAssumption
<1>2. 0 * Kept(call) = 0
  <2>1. StrideOf(call) \in Int
    BY <1>1 DEF StrideOf, Stride, EINVAL
  <2>2. call.size \div Page \in Nat /\ call.size % Page \in Int
    <3>1. call.size % Page \in 0 .. Page - 1 /\ call.size \div Page \in Nat
      BY <1>1, Quotient
    <3> QED
      BY <1>1, <3>1
  <2>3. Lesser(call.size % Page, StrideOf(call)) \in Int
    BY <2>1, <2>2 DEF Lesser
  <2>4. (call.size \div Page) * StrideOf(call) \in Int
    BY <2>1, <2>2
  <2>5. Kept(call) \in Int
    BY <2>3, <2>4 DEF Kept
  <2> QED
    BY <2>5
<1>3. Behind(call, 0) = 0 /\ OffsetOf(call, 0) = call.offset
  <2>1. DivRoundUp(call.size, Page) \in Nat
    BY <1>1, Pages
  <2>2. 0 * DivRoundUp(call.size, Page) = 0
    BY <2>1
  <2>3. Behind(call, 0) = 0
    BY <2>2 DEF Behind
  <2>4. OffsetOf(call, 0) = call.offset + Behind(call, 0) * Page
    BY BehindType
  <2>5. 0 * Page = 0
    BY <1>1
  <2> QED
    BY <1>1, <2>3, <2>4, <2>5
<1>4. ASSUME call.start < c PROVE Follows(call, 0, call.start)
  <2>1. call.start \in 0 .. c - 1
    BY <1>1, <1>4
  <2>2. call.start % c = call.start
    <3>1. 0 * c + call.start = call.start
      BY <1>1
    <3> QED
      BY <1>1, <2>1, <3>1, QuotientUnique
  <2>3. call.start + 0 = call.start
    BY <1>1
  <2> QED
    BY <1>3, <2>1, <2>2, <2>3 DEF Follows
<1>5. Carries(c, desc_list, call.start, Asked(call), desc_list, 0, 0)
  <2>1. Flat(Pieces(c, desc_list, call.start), 0) = << >>
    BY FlatEmpty
  <2>2. Len(<< >>) = 0 /\ 1 .. 0 = {} /\ 0 .. 0 - 1 = {}
    OBVIOUS
  <2> QED
    BY <2>1, <2>2 DEF Carries
<1>6. /\ acc.ret = 0 /\ acc.list = desc_list /\ acc.offset = call.offset /\ acc.next = call.start
      /\ acc \in [ret : Int, list : ListType, offset : Nat, next : Nat]
  BY <1>1
<1> HIDE DEF acc
<1>7. Carries(kind.count, desc_list, call.start, Asked(call), acc.list, acc.ret, 0 * Kept(call))
  BY <1>2, <1>5, <1>6
<1>8. acc.ret = Behind(call, 0) /\ acc.ret <= kind.count /\ acc.offset = OffsetOf(call, 0)
  BY <1>1, <1>3, <1>6
<1>9. BatchInv(call, 0, acc)
  BY <1>1, <1>4, <1>6, <1>7, <1>8 DEF BatchInv
<1> QED
  BY <1>9 DEF acc

(* Only the last transfer interrupts.                                      *)
OnlyLast(call, i, irq) == irq <=> call.irq /\ i = call.batch

LEMMA BatchTransferInv ==
  ASSUME NEW call \in Calls, NEW i \in 1 .. call.batch, NEW acc, NEW irq,
         OnlyLast(call, i, irq),
         kind \in ListKinds, desc_list \in ListType, Tidy(call), BatchInv(call, i - 1, acc)
  PROVE  BatchInv(call, i, BatchTransfer(acc, call, irq))
<1> DEFINE t == i - 1
           c == kind.count
           r == Bind(acc.list, acc.next, call, acc.offset, irq)
           next == BatchTransfer(acc, call, irq)
           T == [ret : Int, list : ListType, offset : Nat, next : Nat]
<1>1. /\ call.batch \in Nat \ {0} /\ i \in Nat \ {0} /\ t \in 0 .. call.batch - 1 /\ t \in Nat
      /\ t + 1 = i /\ t < call.batch /\ c \in Nat \ {0} /\ Page \in Nat
      /\ call.offset \in Nat
  <2>1. call.batch \in Nat \ {0} /\ call.offset \in Nat
    BY CallsAssumption
  <2> QED
    BY <2>1, KindType, PageAssumption
<1>2. /\ acc \in T /\ acc.list \in ListType /\ acc.ret \in Int /\ acc.offset \in Nat
      /\ acc.next \in Nat
  BY DEF BatchInv
<1>3. CASE acc.ret < 0
  <2>1. next = acc
    BY <1>3 DEF BatchTransfer
  <2>2. ~(acc.ret >= 0)
    BY <1>2, <1>3
  <2>3. BatchInv(call, i, acc)
    BY <1>2, <2>2 DEF BatchInv
  <2> QED
    BY <2>1, <2>3
<1>4. CASE ~(acc.ret < 0)
  <2>1. acc.ret >= 0
    BY <1>2, <1>4
  <2>2. /\ acc.ret = Behind(call, t) /\ acc.ret <= c
        /\ acc.offset = OffsetOf(call, t)
        /\ acc.next < c => Follows(call, t, acc.next)
        /\ Carries(c, desc_list, call.start, Asked(call), acc.list, acc.ret, t * Kept(call))
    BY <1>1, <2>1 DEF BatchInv
  <2>3. Behind(call, t) \in Nat /\ OffsetOf(call, t) \in Nat
    BY <1>1, <1>2, <2>2, BehindType
  <2>4. Transferred(call, t, acc.next, irq, r)
    <3>1. PICK list \in ListType, sd \in Nat : list = acc.list /\ sd = acc.next
      BY <1>2
    <3>2. /\ sd < kind.count => Follows(call, t, sd)
          /\ Carries(kind.count, desc_list, call.start, Asked(call), list, Behind(call, t), t * Kept(call))
          /\ Behind(call, t) <= kind.count
      BY <2>2, <3>1
    <3>3. Transferred(call, t, sd, irq, Bind(list, sd, call, OffsetOf(call, t), irq))
      BY <1>1, <2>3, <3>2, BindTransfers
    <3> QED
      BY <2>2, <3>1, <3>3
  <2>5. next = IF r.ret < 0 THEN [acc EXCEPT !.ret = r.ret, !.list = r.list]
               ELSE [ret |-> acc.ret + r.ret, list |-> r.list,
                     offset |-> acc.offset + r.ret * Page,
                     next |-> IF kind.is_circular THEN (acc.next + r.ret) % kind.count
                              ELSE acc.next + r.ret]
    BY <1>4 DEF BatchTransfer
  <2> HIDE DEF r, next
  <2>6. r.list \in ListType /\ r.ret \in Int
    BY <2>4 DEF Transferred
  <2>7. CASE r.ret < 0
    <3>1. next \in T /\ next.ret = r.ret
      BY <1>2, <2>5, <2>6, <2>7
    <3>2. ~(next.ret >= 0)
      BY <2>6, <2>7, <3>1
    <3> QED
      BY <3>1, <3>2 DEF BatchInv, next
  <2>8. CASE ~(r.ret < 0)
    <3>1. r.ret >= 0
      BY <2>6, <2>8
    <3>2. PICK d \in Nat \ {0} : d = r.ret
      BY <2>4, <3>1 DEF Transferred
    <3>3. /\ Behind(call, t) + d <= c
          /\ StrideOf(call) >= 0 /\ Follows(call, t, acc.next)
          /\ Paged(call.sg) => d = DivRoundUp(call.size, Page)
          /\ Done(c, desc_list, call.start, Asked(call), r.list, Behind(call, t) + d,
                  (t + 1) * Kept(call), irq)
      BY <2>4, <3>1, <3>2 DEF Transferred
    <3>4. PICK x : x = IF kind.is_circular THEN (acc.next + d) % kind.count ELSE acc.next + d
      OBVIOUS
    <3>5. next = [ret |-> Behind(call, t) + d, list |-> r.list,
                  offset |-> OffsetOf(call, t) + d * Page, next |-> x]
      BY <2>2, <2>5, <2>8, <3>2, <3>4
    <3>6. /\ next.ret = Behind(call, t) + d /\ next.list = r.list
          /\ next.offset = OffsetOf(call, t) + d * Page /\ next.next = x
      BY <3>5
    <3>7. x \in Nat
      <4>1. acc.next + d \in Nat
        BY <1>2
      <4>2. (acc.next + d) % kind.count \in 0 .. kind.count - 1
        BY <1>1, <4>1, Quotient
      <4> QED
        BY <1>1, <3>4, <4>1, <4>2
    <3>8. next \in T
      <4>1. Behind(call, t) + d \in Int
        BY <2>3
      <4>2. OffsetOf(call, t) + d * Page \in Nat
        <5>1. d * Page \in Nat
          BY <1>1
        <5> QED
          BY <2>3, <5>1
      <4> QED
        BY <2>6, <3>5, <3>7, <4>1, <4>2
    <3>9. Behind(call, t) + d \in 1 .. c
      BY <1>1, <2>3, <3>3
    <3>10. Done(c, desc_list, call.start, Asked(call), next.list, next.ret, i * Kept(call), irq)
      BY <1>1, <3>3, <3>6
    <3>11. ASSUME i < call.batch
           PROVE  /\ next.ret = Behind(call, i) /\ next.ret <= c
                  /\ next.offset = OffsetOf(call, i)
                  /\ next.next < c => Follows(call, i, next.next)
                  /\ Carries(c, desc_list, call.start, Asked(call), next.list, next.ret,
                             i * Kept(call))
      <4>1. call.batch > 1
        BY <1>1, <3>11
      <4>2. d = DivRoundUp(call.size, Page)
        BY <3>3, <4>1 DEF Tidy, Paged
      <4>3. /\ Behind(call, i) = Behind(call, t) + d
            /\ OffsetOf(call, i) = OffsetOf(call, t) + d * Page
        <5>1. Behind(call, t + 1) = Behind(call, t) + d
              /\ OffsetOf(call, t + 1) = OffsetOf(call, t) + d * Page
          BY <1>1, <4>2, BehindNext
        <5> QED
          BY <1>1, <5>1
      <4>4. x < kind.count => Follows(call, i, x)
        <5>1. PICK sd : sd = acc.next
          OBVIOUS
        <5>2. Behind(call, t + 1) = Behind(call, t) + d /\ Follows(call, t, sd)
              /\ x = IF kind.is_circular THEN (sd + d) % kind.count ELSE sd + d
          BY <1>1, <3>3, <3>4, <4>3, <5>1
        <5>3. x < kind.count => Follows(call, t + 1, x)
          BY <1>1, <5>2, FollowsNext
        <5> QED
          BY <1>1, <5>3
      <4>5. ~irq
        BY <1>1, <3>11 DEF OnlyLast
      <4>6. Carries(c, desc_list, call.start, Asked(call), next.list, next.ret, i * Kept(call))
        BY <3>10, <4>5, NotLast
      <4> QED
        BY <3>6, <3>9, <4>3, <4>4, <4>6
    <3>12. Done(c, desc_list, call.start, Asked(call), next.list, next.ret, i * Kept(call),
                call.irq /\ i = call.batch)
      BY <3>10 DEF Done, OnlyLast
    <3>13. next.ret \in 1 .. c
      BY <3>6, <3>9
    <3>14. BatchInv(call, i, next)
      BY <3>3, <3>8, <3>11, <3>12, <3>13 DEF BatchInv
    <3> QED
      BY <3>14 DEF next
  <2> QED
    BY <2>7, <2>8
<1> QED
  BY <1>3, <1>4

LEMMA BatchInvAt ==
  ASSUME NEW call \in Calls, kind \in ListKinds, desc_list \in ListType, Tidy(call)
  PROVE  BatchInv(call, call.batch, Batch(call)[call.batch])
<1> DEFINE n == call.batch
           B(g) == {i \in 0 .. n : ~BatchInv(call, i, g[i])}
<1>1. n \in Nat \ {0}
  BY CallsAssumption
<1>2. PICK g : g = Batch(call)
  OBVIOUS
<1>3. /\ g[0] = [ret |-> 0, list |-> desc_list, offset |-> call.offset, next |-> call.start]
      /\ \A i \in 1 .. n : g[i] = BatchTransfer(g[i - 1], call, call.irq /\ i = call.batch)
  BY <1>2, BatchRecursion
<1> HIDE DEF n
<1>4. B(g) = {}
  <2> SUFFICES ASSUME B(g) # {} PROVE FALSE
    OBVIOUS
  <2>1. B(g) \in SUBSET Nat
    BY <1>1
  <2>2. PICK i \in B(g) : \A j \in B(g) : i <= j
    BY <2>1, Least
  <2>3. i \in 0 .. n /\ ~BatchInv(call, i, g[i])
    BY <2>2
  <2>4. i # 0
    BY <1>3, <2>3, FirstTransfer
  <2>5. i - 1 \in 0 .. n /\ i \in 1 .. n /\ ~(i <= i - 1)
    BY <1>1, <2>3, <2>4
  <2>6. i - 1 \notin B(g)
    BY <2>2, <2>5
  <2>7. BatchInv(call, i - 1, g[i - 1]) /\ i \in 1 .. call.batch
    BY <2>5, <2>6 DEF n
  <2>8. PICK irq : OnlyLast(call, i, irq) /\ g[i] = BatchTransfer(g[i - 1], call, irq)
    <3>1. OnlyLast(call, i, call.irq /\ i = call.batch)
      BY DEF OnlyLast
    <3>2. g[i] = BatchTransfer(g[i - 1], call, call.irq /\ i = call.batch)
      BY <1>3, <2>5
    <3> QED
      BY <3>1, <3>2, Zenon
  <2>9. BatchInv(call, i, BatchTransfer(g[i - 1], call, irq))
    BY <2>7, <2>8, BatchTransferInv
  <2> QED
    BY <1>3, <2>3, <2>5, <2>8, <2>9
<1>5. BatchInv(call, n, g[n])
  BY <1>1, <1>4
<1> QED
  BY <1>2, <1>5 DEF n

----------------------------------------------------------------------------
(* A list after a call.                                                    *)

(* The m descriptors of a list of c from s on move the bytes a; the last of*)
(* them interrupts, or the first, and the others are as before.            *)
Moves(c, list, s, m, a, irq, first, before) ==
  LET own == {(s + k) % c : k \in 0 .. m - 1} IN
  /\ m \in 1 .. c
  /\ Flat(Pieces(c, list, s), m) = a
  /\ \A d \in own : list[d].irq <=> (d = (s + m - 1) % c /\ irq) \/ (d = s /\ first)
  /\ \A d \in DOMAIN list \ own : list[d] = before[d]

(* What ListMovesBuffer says of a list of c and a call p.                  *)
MovesBuffer(c, list, p) ==
  Moves(c, list, p.start, p.descs, p.bytes, p.irq, p.first, p.before)

LEMMA MovedIs ==
  ASSUME NEW c, NEW list, NEW s, NEW n
  PROVE  FlattenSeq([k \in 1 .. n |->
           LET desc == list[(s + k - 1) % c] IN
           [j \in 1 .. desc.size |-> desc.addr + j - 1]]) = Flat(Pieces(c, list, s), n)
<1> DEFINE F == [k \in 1 .. n |->
                  LET desc == list[(s + k - 1) % c] IN
                  [j \in 1 .. desc.size |-> desc.addr + j - 1]]
           G == [k \in 1 .. n |-> Pieces(c, list, s)[k]]
<1>1. F = G
  <2>1. ASSUME NEW k \in 1 .. n PROVE F[k] = G[k]
    <3>1. k \in Nat
      OBVIOUS
    <3> QED
      BY <3>1 DEF Pieces
  <2> QED
    BY <2>1
<1> QED
  BY <1>1 DEF Flat

(* The call moves what it says.                                            *)
LEMMA MovesIs ==
  ASSUME MovesBuffer(kind'.count, desc_list', programmed')
  PROVE  ListMovesBuffer'
<1>1. Moved(programmed.start, programmed.descs)' =
        Flat(Pieces(kind'.count, desc_list', programmed'.start), programmed'.descs)
  BY MovedIs DEF Moved
<1> QED
  BY <1>1 DEF MovesBuffer, Moves, ListMovesBuffer

(* A sequence of y bytes.                                                  *)
IsBytes(a, y) == a = [i \in 1 .. y |-> a[i]]

LEMMA DoneMoves ==
  ASSUME NEW c \in Nat \ {0}, NEW before, NEW s \in Nat, NEW a, NEW list \in [0 .. c - 1 -> DescSet],
         NEW m \in 1 .. c, NEW y \in Nat, NEW irq, Done(c, before, s, a, list, m, y, irq),
         IsBytes(a, y)
  PROVE  Moves(c, list, s, m, a, irq, FALSE, before)
<1> DEFINE u == Flat(Pieces(c, list, s), m)
<1>1. u = a
  <2>1. ASSUME NEW k \in 1 .. m PROVE Pieces(c, list, s)[k] \in Seq(Nat)
    <3>1. k \in Nat \ {0}
      OBVIOUS
    <3> QED
      BY <3>1, PieceType
  <2>2. u \in Seq(Nat)
    <3>1. m \in Nat /\ m \in 0 .. m
      OBVIOUS
    <3> QED
      BY <2>1, <3>1, FlatType
  <2>3. Len(u) = y /\ \A i \in 1 .. y : u[i] = a[i]
    BY DEF Done
  <2> HIDE DEF u
  <2>4. u = [i \in 1 .. y |-> u[i]]
    BY <2>2, <2>3, LenProperties
  <2>5. a = [i \in 1 .. y |-> a[i]]
    BY DEF IsBytes
  <2> QED
    BY <2>3, <2>4, <2>5
<1>2. \A k \in 0 .. m - 1 : list[(s + k) % c].irq <=> k = m - 1 /\ irq
  BY DEF Done
<1>3. ASSUME NEW k \in 0 .. m - 1
      PROVE  k = m - 1 <=> (s + k) % c = (s + m - 1) % c
  <2>1. PICK h \in Nat : h = m - 1
    OBVIOUS
  <2>2. s + m - 1 = s + h /\ k \in Nat
    BY <2>1
  <2>3. CASE k # h
    <3>1. k < h /\ h - k < c
      BY <2>1, <2>2, <2>3
    <3>2. (s + k) % c # (s + h) % c
      BY ONLY c \in Nat \ {0}, s \in Nat, h \in Nat, <2>2, <3>1, WrapUnique
    <3> QED
      BY <2>1, <2>2, <2>3, <3>2
  <2> QED
    BY <2>1, <2>2, <2>3
<1>4. ASSUME NEW d, NEW k \in 0 .. m - 1, d = (s + k) % c
      PROVE  list[d].irq <=> d = (s + m - 1) % c /\ irq
  BY <1>2, <1>3, <1>4
<1>5. \A d \in 0 .. c - 1 : (\A k \in 0 .. m - 1 : d # (s + k) % c) => list[d] = before[d]
  BY DEF Done
<1>6. \A d \in {(s + k) % c : k \in 0 .. m - 1} :
        list[d].irq <=> (d = (s + m - 1) % c /\ irq) \/ (d = s /\ FALSE)
  BY <1>4
<1>7. \A d \in DOMAIN list \ {(s + k) % c : k \in 0 .. m - 1} : list[d] = before[d]
  <2>1. DOMAIN list = 0 .. c - 1
    OBVIOUS
  <2> QED
    BY <1>5, <2>1
<1> QED
  BY <1>1, <1>6, <1>7 DEF Moves

(* A flag; one that asks for an interrupt of a descriptor on the list.     *)
Flag(irq) == irq \in BOOLEAN
FirstFlag(c, s, first) == first \in BOOLEAN /\ (first => s \in 0 .. c - 1)

(* Asking the first descriptor to interrupt, too, changes nothing else.    *)
LEMMA FirstMoves ==
  ASSUME NEW c \in Nat \ {0}, NEW before, NEW s \in Nat, NEW a,
         NEW list \in [0 .. c - 1 -> DescSet], NEW m \in 1 .. c, NEW irq, NEW first,
         FirstFlag(c, s, first), Moves(c, list, s, m, a, irq, FALSE, before)
  PROVE  /\ RequestFirst(list, s, first) \in [0 .. c - 1 -> DescSet]
         /\ Moves(c, RequestFirst(list, s, first), s, m, a, irq, first, before)
<1> first \in BOOLEAN /\ (first => s \in 0 .. c - 1)
  BY DEF FirstFlag
<1>1. CASE ~first
  <2>1. RequestFirst(list, s, first) = list
    BY <1>1 DEF RequestFirst
  <2>2. Moves(c, list, s, m, a, irq, first, before)
    BY <1>1 DEF Moves
  <2> QED
    BY <2>1, <2>2
<1>2. CASE first
  <2>1. s \in 0 .. c - 1 /\ list[s] \in DescSet
    BY <1>2
  <2>2. PICK f : f = [list[s] EXCEPT !.irq = TRUE]
    OBVIOUS
  <2>3. f \in DescSet /\ f.addr = list[s].addr /\ f.size = list[s].size /\ f.irq
    BY <2>1, <2>2 DEF DescSet
  <2>4. PICK other \in [0 .. c - 1 -> DescSet] :
          /\ other = RequestFirst(list, s, first) /\ other[s] = f
          /\ \A d \in 0 .. c - 1 : d # s => other[d] = list[d]
    <3>1. RequestFirst(list, s, first) = [list EXCEPT ![s] = f]
      BY <1>2, <2>2 DEF RequestFirst
    <3> QED
      BY <2>1, <2>3, <3>1
  <2>5. \A d \in 0 .. c - 1 : other[d].addr = list[d].addr /\ other[d].size = list[d].size
    BY <2>3, <2>4
  <2>6. Flat(Pieces(c, other, s), m) = Flat(Pieces(c, list, s), m)
    <3> DEFINE P == Pieces(c, list, s)
               Q == Pieces(c, other, s)
    <3>1. ASSUME NEW k \in 1 .. m PROVE Q[k] = P[k]
      <4>1. k \in Nat /\ s + k - 1 \in Nat
        OBVIOUS
      <4>2. PICK d : d = (s + k - 1) % c
        OBVIOUS
      <4>3. d \in 0 .. c - 1
        BY <4>1, <4>2, Quotient
      <4>4. /\ Q[k] = [j \in 1 .. other[d].size |-> other[d].addr + j - 1]
            /\ P[k] = [j \in 1 .. list[d].size |-> list[d].addr + j - 1]
        BY <4>1, <4>2 DEF Pieces
      <4> HIDE DEF P, Q
      <4> QED
        BY <2>5, <4>3, <4>4
    <3> HIDE DEF P, Q
    <3>2. Flat(Q, m) = Flat(P, m)
      BY <3>1, FlatSame
    <3> QED
      BY <3>2 DEF P, Q
  <2>7. PICK own : own = {(s + k) % c : k \in 0 .. m - 1}
    OBVIOUS
  <2>8. own \subseteq 0 .. c - 1
    <3>1. ASSUME NEW k \in 0 .. m - 1 PROVE (s + k) % c \in 0 .. c - 1
      <4>1. s + k \in Nat
        OBVIOUS
      <4> QED
        BY <4>1, Quotient
    <3> QED
      BY <2>7, <3>1
  <2>9. s \in own
    <3>1. 0 \in 0 .. m - 1 /\ (s + 0) % c = s
      BY <2>1
    <3> QED
      BY <2>7, <3>1
  <2>10. /\ \A d \in own : list[d].irq <=> d = (s + m - 1) % c /\ irq
         /\ \A d \in DOMAIN list \ own : list[d] = before[d]
         /\ Flat(Pieces(c, list, s), m) = a
    BY <2>7 DEF Moves
  <2>11. \A d \in own : other[d].irq <=> (d = (s + m - 1) % c /\ irq) \/ (d = s /\ first)
    <3> SUFFICES ASSUME NEW d \in own
                 PROVE  other[d].irq <=> (d = (s + m - 1) % c /\ irq) \/ (d = s /\ first)
      OBVIOUS
    <3>1. CASE d = s
      BY <1>2, <2>3, <2>4, <3>1
    <3>2. CASE d # s
      BY <2>4, <2>8, <2>10, <3>2
    <3> QED
      BY <3>1, <3>2
  <2>12. \A d \in DOMAIN other \ own : other[d] = before[d]
    <3>1. DOMAIN other = DOMAIN list /\ DOMAIN list = 0 .. c - 1
      OBVIOUS
    <3> QED
      BY <2>4, <2>9, <2>10, <3>1
  <2>13. Moves(c, other, s, m, a, irq, first, before)
    BY <2>6, <2>7, <2>10, <2>11, <2>12 DEF Moves
  <2> QED
    BY <2>4, <2>13
<1> QED
  BY <1>1, <1>2

(* The bytes of a descriptor.                                              *)
IsPiece(q, desc) ==
  /\ desc \in DescSet /\ q \in Seq(Nat) /\ Len(q) = desc.size
  /\ \A j \in 1 .. desc.size : q[j] = desc.addr + j - 1

LEMMA PieceAt ==
  ASSUME NEW c \in Nat \ {0}, NEW list \in [0 .. c - 1 -> DescSet], NEW s \in Nat,
         NEW k \in Nat \ {0}
  PROVE  IsPiece(Pieces(c, list, s)[k], list[(s + k - 1) % c])
<1> DEFINE q == Pieces(c, list, s)[k]
           d == (s + k - 1) % c
<1>1. d \in 0 .. c - 1 /\ q \in Seq(Nat) /\ Len(q) = list[d].size
  BY PieceType, ZenonT(40)
<1>2. \A j \in 1 .. list[d].size : q[j] = list[d].addr + j - 1
  BY PieceType, ZenonT(40)
<1> HIDE DEF q, d
<1>3. IsPiece(q, list[d])
  BY <1>1, <1>2 DEF IsPiece
<1> QED
  BY <1>3 DEF q, d

(* Pages, one after the other.                                             *)
LEMMA FlatPages ==
  ASSUME NEW m \in Nat, NEW p,
         \A k \in 1 .. m : p[k] \in Seq(Nat) /\ Len(p[k]) = Page
  PROVE  \A k \in 0 .. m : Len(Flat(p, k)) = k * Page
<1> DEFINE B == {k \in 0 .. m : Len(Flat(p, k)) # k * Page}
<1>1. Page \in Nat
  BY PageAssumption
<1> SUFFICES ASSUME B # {} PROVE FALSE
  OBVIOUS
<1>2. PICK i \in B : \A j \in B : i <= j
  <2>1. B \in SUBSET Nat
    OBVIOUS
  <2> QED
    BY <2>1, Least
<1>3. i \in 0 .. m /\ Len(Flat(p, i)) # i * Page
  BY <1>2
<1>4. i # 0
  <2>1. Flat(p, 0) = << >> /\ 0 * Page = 0
    BY <1>1, FlatEmpty
  <2> QED
    BY <1>3, <2>1
<1>5. PICK h \in Nat : i = h + 1
  <2>1. i - 1 \in Nat /\ i = (i - 1) + 1
    BY <1>3, <1>4
  <2> QED
    BY <2>1
<1>6. h \in 0 .. m /\ h + 1 \in 1 .. m /\ ~(i <= h)
  BY <1>3, <1>5
<1>7. Len(Flat(p, h)) = h * Page
  BY <1>2, <1>6
<1>8. Flat(p, h + 1) = Flat(p, h) \o p[h + 1]
  <2>1. \A k \in 1 .. h + 1 : p[k] \in Seq(Nat)
    BY <1>6
  <2> QED
    BY <2>1, FlatStep
<1>9. Flat(p, h) \in Seq(Nat)
  BY <1>6, FlatType
<1>10. p[h + 1] \in Seq(Nat) /\ Len(p[h + 1]) = Page
  BY <1>6
<1>11. Len(Flat(p, h + 1)) = h * Page + Page
  BY <1>7, <1>8, <1>9, <1>10, ConcatProperties
<1>12. (h + 1) * Page = h * Page + Page
  BY <1>1
<1> QED
  BY <1>3, <1>5, <1>11, <1>12

(* A list bound by pages, the one in which the last of n descriptors moves *)
(* z bytes only, and the bytes of the n.                                   *)
LastCut(c, s, list, n, z, a, irq, other) ==
  /\ \A d \in 0 .. c - 1 : list[d].size = Page /\ ~list[d].irq
  /\ other = [list EXCEPT ![(s + n - 1) % c].size = z, ![(s + n - 1) % c].irq = irq]
  /\ a = SubSeq(Flat(Pieces(c, list, s), n), 1, (n - 1) * Page + z)

LEMMA LastDone ==
  ASSUME NEW c \in Nat \ {0}, NEW s \in Nat, NEW list \in [0 .. c - 1 -> DescSet],
         NEW n \in 1 .. c, NEW z \in 1 .. Page, NEW a, NEW irq, NEW other, NEW y, Flag(irq),
         LastCut(c, s, list, n, z, a, irq, other), y = (n - 1) * Page + z
  PROVE  /\ other \in [0 .. c - 1 -> DescSet] /\ IsBytes(a, y)
         /\ Done(c, list, s, a, other, n, y, irq)
<1> DEFINE P == Pieces(c, list, s)
           Q == Pieces(c, other, s)
           e == (s + n - 1) % c
<1>0. n \in Nat /\ n <= c /\ z \in Nat /\ z >= 1 /\ z <= Page /\ Page \in Nat \ {0}
  BY PageAssumption
<1>1. PICK h \in Nat, p \in Nat \ {0}, x \in Nat : n = h + 1 /\ p = Page /\ x = h * p
  <2>1. n - 1 \in Nat /\ n = (n - 1) + 1 /\ Page \in Nat \ {0}
    BY PageAssumption
  <2>2. (n - 1) * Page \in Nat
    BY <2>1
  <2> QED
    BY <2>1, <2>2
<1>2. /\ (n - 1) * Page + z = x + z /\ h + 1 \in Nat /\ z \in Nat /\ z <= p /\ h \in 0 .. n
      /\ n \in Nat /\ s + n - 1 = s + h /\ x + z \in Nat /\ h < c /\ 1 <= z
  <2>1. n - 1 = h
    BY <1>1
  <2>2. (n - 1) * Page + z = x + z
    BY <1>1, <2>1
  <2>3. z <= p /\ h \in 0 .. n /\ s + n - 1 = s + h /\ h < c
    BY ONLY <1>0, <1>1, h \in Nat, s \in Nat, c \in Nat \ {0}
  <2>4. h + 1 \in Nat /\ x + z \in Nat
    BY ONLY <1>0, h \in Nat, x \in Nat
  <2> QED
    BY <1>0, <2>2, <2>3, <2>4
<1>3. e \in 0 .. c - 1 /\ e = (s + h) % c
  <2>1. s + h \in Nat
    OBVIOUS
  <2> QED
    BY <1>2, <2>1, Quotient
<1>3a. \A d \in 0 .. c - 1 : list[d].size = Page /\ ~list[d].irq
  BY DEF LastCut
<1>3b. other = [list EXCEPT ![e].size = z, ![e].irq = irq]
  BY DEF LastCut
<1>3c. a = SubSeq(Flat(P, n), 1, x + z)
  BY <1>2 DEF LastCut
<1>4. \A d \in 0 .. c - 1 : list[d] \in DescSet
  OBVIOUS
<1> HIDE DEF e
<1>5. PICK f : f = [[list[e] EXCEPT !.size = z] EXCEPT !.irq = irq]
  OBVIOUS
<1>6. f \in DescSet /\ f.addr = list[e].addr /\ f.size = z /\ f.irq = irq
  BY <1>2, <1>3, <1>4, <1>5 DEF DescSet, Flag
<1>7. /\ other \in [0 .. c - 1 -> DescSet] /\ other[e] = f
      /\ \A d \in 0 .. c - 1 : d # e => other[d] = list[d]
  <2>1. other = [[list EXCEPT ![e] = [list[e] EXCEPT !.size = z]] EXCEPT
                   ![e] = [[list EXCEPT ![e] = [list[e] EXCEPT !.size = z]][e] EXCEPT !.irq = irq]]
    BY <1>3b
  <2>2. PICK v, mid : v = [list[e] EXCEPT !.size = z] /\ mid = [list EXCEPT ![e] = v]
    OBVIOUS
  <2>3. mid[e] = v /\ DOMAIN mid = 0 .. c - 1 /\ \A d \in 0 .. c - 1 : d # e => mid[d] = list[d]
    BY <1>3, <2>2
  <2>4. other = [mid EXCEPT ![e] = f]
    BY <1>5, <2>1, <2>2, <2>3
  <2>5. /\ DOMAIN other = 0 .. c - 1 /\ other = [d \in 0 .. c - 1 |-> other[d]]
        /\ other[e] = f
        /\ \A d \in 0 .. c - 1 : d # e => other[d] = list[d]
    BY <1>3, <2>3, <2>4
  <2> QED
    BY <1>4, <1>6, <2>5
<1>8. ASSUME NEW k \in 1 .. n PROVE P[k] \in Seq(Nat) /\ Len(P[k]) = Page
  <2>1. k \in Nat \ {0} /\ s + k - 1 \in Nat
    BY <1>0
  <2>2. IsPiece(P[k], list[(s + k - 1) % c])
    BY <2>1, PieceAt
  <2>3. (s + k - 1) % c \in 0 .. c - 1
    BY <2>1, Quotient
  <2>4. list[(s + k - 1) % c].size = Page
    BY <1>3a, <2>3
  <2> HIDE DEF P
  <2> QED
    BY <2>2, <2>4 DEF IsPiece
<1>9. Len(Flat(P, h)) = x /\ Flat(P, h) \in Seq(Nat)
      /\ Flat(P, n) \in Seq(Nat) /\ Len(Flat(P, n)) = x + p
  <2>1. \A k \in 0 .. n : Len(Flat(P, k)) = k * Page /\ Flat(P, k) \in Seq(Nat)
    <3> HIDE DEF P
    <3>1. n \in Nat
      BY <1>2
    <3>2. \A k \in 1 .. n : P[k] \in Seq(Nat)
      BY <1>8
    <3>3. \A k \in 0 .. n : Flat(P, k) \in Seq(Nat)
      BY <3>1, <3>2, FlatType, Zenon
    <3>4. \A k \in 1 .. n : P[k] \in Seq(Nat) /\ Len(P[k]) = Page
      BY <1>8
    <3>5. \A k \in 0 .. n : Len(Flat(P, k)) = k * Page
      BY <3>1, <3>4, FlatPages, Zenon
    <3> QED
      BY <3>3, <3>5
  <2>2. n * Page = x + p
    <3>1. (h + 1) * p = h * p + p
      OBVIOUS
    <3> QED
      BY <1>1, <3>1
  <2>3. n \in 0 .. n /\ h * Page = x
    BY <1>1, <1>2
  <2> HIDE DEF P
  <2> QED
    BY <1>2, <2>1, <2>2, <2>3
<1>10. /\ Len(a) = x + z /\ IsBytes(a, x + z)
       /\ \A i \in 1 .. x + z : a[i] = Flat(P, n)[i]
  <2>1. PICK u \in Seq(Nat) : u = Flat(P, n)
    BY <1>9
  <2>2. a = SubSeq(u, 1, x + z) /\ Len(u) = x + p
    BY <1>3c, <1>9, <2>1
  <2>3. x + z \in Nat /\ x + z <= Len(u)
    BY ONLY <1>2, <2>2, x \in Nat, p \in Nat \ {0}
  <2>4. SubSeq(u, 1, x + z) = [i \in 1 .. x + z |-> u[i]]
    BY <2>3
  <2> HIDE DEF P
  <2>5. a = [i \in 1 .. x + z |-> u[i]]
    BY <2>2, <2>4
  <2>6. Len(a) = x + z
    BY ONLY <2>3, <2>5
  <2>7. \A i \in 1 .. x + z : a[i] = u[i]
    BY ONLY <2>5
  <2>8. IsBytes(a, x + z)
    BY <2>5, <2>7 DEF IsBytes
  <2> QED
    BY <2>1, <2>6, <2>7, <2>8
<1>11. ASSUME NEW k \in 0 .. h - 1
       PROVE  (s + k) % c # e /\ (s + k) % c \in 0 .. c - 1
  <2>1. k \in Nat /\ k < h /\ h - k < c /\ s + k \in Nat
    BY ONLY <1>2, h \in Nat, s \in Nat, c \in Nat \ {0}, k \in 0 .. h - 1
  <2>2. (s + k) % c # (s + h) % c
    BY ONLY c \in Nat \ {0}, s \in Nat, h \in Nat, <2>1, WrapUnique
  <2> QED
    BY <1>3, <2>1, <2>2, Quotient
<1>12. Flat(Q, h) = Flat(P, h)
  <2>1. ASSUME NEW k \in 1 .. h PROVE Q[k] = P[k]
    <3>0. k - 1 \in 0 .. h - 1 /\ s + k - 1 = s + (k - 1) /\ k \in Nat
      BY ONLY k \in 1 .. h, h \in Nat, s \in Nat
    <3>1. PICK i \in 0 .. h - 1 : i = k - 1 /\ s + k - 1 = s + i
      BY <3>0
    <3>1a. PICK d : d = (s + k - 1) % c
      OBVIOUS
    <3>2. other[d] = list[d]
      BY <1>7, <1>11, <3>1, <3>1a
    <3>3. /\ Q[k] = [j \in 1 .. other[d].size |-> other[d].addr + j - 1]
          /\ P[k] = [j \in 1 .. list[d].size |-> list[d].addr + j - 1]
      BY <3>0, <3>1a DEF Pieces
    <3> HIDE DEF P, Q
    <3> QED
      BY ONLY <3>2, <3>3
  <2> HIDE DEF P, Q
  <2> QED
    BY <2>1, FlatSame
<1>13. /\ Q[n] \in Seq(Nat) /\ Len(Q[n]) = z
       /\ \A j \in 1 .. z : Q[n][j] = P[n][j]
  <2>1. n \in Nat \ {0} /\ (s + n - 1) % c = e
    BY <1>0 DEF e
  <2>2. IsPiece(P[n], list[e])
    <3>1. IsPiece(P[n], list[(s + n - 1) % c])
      BY <2>1, PieceAt
    <3> HIDE DEF P
    <3> QED
      BY <2>1, <3>1
  <2>3. IsPiece(Q[n], other[e])
    <3>1. IsPiece(Q[n], other[(s + n - 1) % c])
      BY <1>7, <2>1, PieceAt
    <3> HIDE DEF Q
    <3> QED
      BY <2>1, <3>1
  <2>4. list[e].size = p /\ other[e].size = z /\ other[e].addr = list[e].addr
    BY <1>1, <1>3, <1>3a, <1>6, <1>7
  <2> HIDE DEF P, Q
  <2>5. \A j \in 1 .. z : j \in 1 .. p
    BY <1>2
  <2> QED
    BY <2>2, <2>3, <2>4, <2>5 DEF IsPiece
<1>14. Flat(Q, n) = Flat(P, h) \o Q[n] /\ Flat(P, n) = Flat(P, h) \o P[n]
  <2>1. ASSUME NEW k \in 1 .. h + 1 PROVE P[k] \in Seq(Nat) /\ Q[k] \in Seq(Nat)
    <3>1. k \in Nat \ {0}
      OBVIOUS
    <3> QED
      BY <1>7, <3>1, PieceType
  <2> HIDE DEF P, Q
  <2>2. Flat(Q, h + 1) = Flat(Q, h) \o Q[h + 1] /\ Flat(P, h + 1) = Flat(P, h) \o P[h + 1]
    BY <2>1, FlatStep
  <2> QED
    BY <1>1, <1>12, <2>2
<1> HIDE DEF P, Q
<1>15. Len(Flat(Q, n)) = x + z /\ \A i \in 1 .. x + z : Flat(Q, n)[i] = a[i]
  <2>1. PICK u, v, w : u = Flat(P, h) /\ v = Q[n] /\ w = P[n]
    OBVIOUS
  <2>2. /\ u \in Seq(Nat) /\ Len(u) = x /\ v \in Seq(Nat) /\ Len(v) = z
        /\ w \in Seq(Nat) /\ Len(w) = p /\ \A j \in 1 .. z : v[j] = w[j]
    <3>1. n \in 1 .. n
      BY <1>2
    <3> QED
      BY <1>1, <1>8, <1>9, <1>13, <2>1, <3>1
  <2>3. ASSUME NEW i \in 1 .. x + z PROVE (u \o v)[i] = (u \o w)[i]
    <3>1. i \in 1 .. x + p
      BY <1>2
    <3>2. CASE i <= x
      <4>1. (u \o v)[i] = u[i] /\ (u \o w)[i] = u[i]
        BY <2>2, <3>1, <3>2, ConcatProperties
      <4> QED
        BY <4>1
    <3>3. CASE ~(i <= x)
      <4>1. i - x \in 1 .. z
        BY ONLY <1>2, <3>3, x \in Nat, i \in 1 .. x + z
      <4>2. (u \o v)[i] = v[i - x] /\ (u \o w)[i] = w[i - x]
        BY <2>2, <3>1, <3>3, ConcatProperties, ZenonT(40)
      <4> QED
        BY <2>2, <4>1, <4>2
    <3> QED
      BY <3>2, <3>3
  <2>4. Len(u \o v) = x + z
    BY <2>2, ConcatProperties
  <2> QED
    BY <1>10, <1>14, <2>1, <2>3, <2>4
<1>16. ASSUME NEW k \in 0 .. n - 1 PROVE other[(s + k) % c].irq <=> k = n - 1 /\ irq
  <2>1. CASE k = n - 1
    <3>1. k = h
      BY <1>1, <2>1
    <3> QED
      BY <1>3, <1>6, <1>7, <2>1, <3>1
  <2>2. CASE k # n - 1
    <3>1. k \in 0 .. h - 1
      BY <1>1, <2>2
    <3> QED
      BY <1>3a, <1>7, <1>11, <2>2, <3>1
  <2> QED
    BY <2>1, <2>2
<1>17. ASSUME NEW d \in 0 .. c - 1, \A k \in 0 .. n - 1 : d # (s + k) % c
       PROVE  other[d] = list[d]
  <2>1. h \in 0 .. n - 1
    BY <1>1
  <2> QED
    BY <1>3, <1>7, <1>17, <2>1
<1>18. Done(c, list, s, a, other, n, x + z, irq)
  BY <1>15, <1>16, <1>17 DEF Done, Q
<1> QED
  BY <1>2, <1>7, <1>10, <1>18

(* The inductive invariant: what the last call left on the list is all that*)
(* the next one needs, for it keeps a copy of the list it found.           *)
DpInv == kind \in ListKinds /\ desc_list \in ListType /\ ListMovesBuffer

(* A list begins blank, and no call has been made.                         *)
LEMMA ListInit == DpInit => DpInv
<1> SUFFICES ASSUME DpInit PROVE DpInv
  OBVIOUS
<1>1. BlankDesc \in DescSet
  BY DEF BlankDesc, DescSet
<1>2. kind \in ListKinds /\ desc_list \in ListType /\ programmed = Nothing
  BY <1>1 DEF DpInit, ListType
<1> QED
  BY <1>2 DEF DpInv, ListMovesBuffer

(* HAILO_DESC_LIST_PROGRAM, and a launch that binds.                       *)
LEMMA ListProgram ==
  ASSUME DpInv, NEW call \in Calls, Tidy(call), NEW launched, NEW first \in BOOLEAN,
         Program(call, launched, first), first => call.start < kind.count
  PROVE  DpInv'
<1> DEFINE r == Batch(call)[call.batch]
           y == call.batch * Kept(call)
           p == [start |-> call.start, descs |-> r.ret, bytes |-> Asked(call),
                 irq |-> call.irq, first |-> first, launched |-> launched,
                 before |-> desc_list]
<1>1. kind \in ListKinds /\ desc_list \in ListType
  BY DEF DpInv
<1>2. /\ kind' = kind /\ desc_list' = RequestFirst(r.list, call.start, first)
      /\ programmed' = IF r.ret < 0 THEN Nothing ELSE p
  BY DEF Program
<1>3. BatchInv(call, call.batch, r)
  BY <1>1, BatchInvAt
<1> HIDE DEF r
<1>4. r.list \in ListType /\ r.ret \in Int
  BY <1>3 DEF BatchInv
<1>5. kind' \in ListKinds /\ (desc_list \in ListType)'
  <2>1. call.start \in Nat /\ kind.count \in Nat \ {0}
    BY <1>1, CallsAssumption, KindType
  <2>2. RequestFirst(r.list, call.start, first) \in ListType
    <3>1. PICK list \in [0 .. kind.count - 1 -> DescSet], s \in Nat :
            list = r.list /\ s = call.start
      BY <1>4, <2>1 DEF ListType
    <3>2. CASE first
      <4>1. s \in 0 .. kind.count - 1
        BY <2>1, <3>1, <3>2
      <4>2. PICK f : f = [list[s] EXCEPT !.irq = TRUE]
        OBVIOUS
      <4>3. f \in DescSet
        BY <4>1, <4>2 DEF DescSet
      <4>4. RequestFirst(list, s, first) = [list EXCEPT ![s] = f]
        BY <3>2, <4>2 DEF RequestFirst
      <4> QED
        BY <3>1, <4>3, <4>4 DEF ListType
    <3>3. CASE ~first
      BY <1>4, <3>3 DEF RequestFirst
    <3> QED
      BY <3>2, <3>3
  <2> QED
    BY <1>1, <1>2, <2>2 DEF ListType
<1>6. CASE r.ret < 0
  <2>1. ListMovesBuffer'
    BY <1>2, <1>6 DEF ListMovesBuffer, Nothing
  <2> QED
    BY <1>5, <2>1 DEF DpInv
<1>7. CASE ~(r.ret < 0)
  <2>1. /\ call.batch \in Nat \ {0} /\ call.start \in Nat /\ call.batch >= 1
    BY CallsAssumption
  <2>2. r.ret >= 0
    BY <1>4, <1>7
  <2>3. /\ StrideOf(call) >= 0 /\ r.ret \in 1 .. kind.count
        /\ Done(kind.count, desc_list, call.start, Asked(call), r.list, r.ret, y,
                call.irq /\ call.batch = call.batch)
    BY <1>3, <2>1, <2>2 DEF BatchInv
  <2>4. Done(kind.count, desc_list, call.start, Asked(call), r.list, r.ret, y, call.irq)
    BY <2>3 DEF Done
  <2>5. y \in Nat
    <3>1. Kept(call) \in Nat
      BY <2>3, KeptIs
    <3> QED
      BY <2>1, <3>1
  <2>6. IsBytes(Asked(call), y)
    BY DEF IsBytes, Asked, Kept, StrideOf
  <2>6a. kind.count \in Nat \ {0}
    BY <1>1, KindType
  <2> HIDE DEF y
  <2>7. PICK c, before, s, a, z :
          /\ c = kind.count /\ before = desc_list /\ s = call.start /\ a = Asked(call) /\ z = y
          /\ c \in Nat \ {0} /\ s \in Nat /\ z \in Nat
    BY <2>1, <2>5, <2>6a
  <2>8. PICK list, m : list = r.list /\ m = r.ret
    OBVIOUS
  <2>9. list \in [0 .. c - 1 -> DescSet] /\ m \in 1 .. c
    BY <1>4, <2>3, <2>7, <2>8 DEF ListType
  <2>10. Done(c, before, s, a, list, m, z, call.irq) /\ IsBytes(a, z)
    BY <2>4, <2>6, <2>7, <2>8
  <2>11. PICK irq : irq = call.irq
    OBVIOUS
  <2>12. Moves(c, list, s, m, a, irq, FALSE, before)
    <3>1. Done(c, before, s, a, list, m, z, irq)
      BY <2>10, <2>11
    <3> QED
      BY <2>7, <2>9, <2>10, <3>1, DoneMoves
  <2>13. Moves(c, RequestFirst(list, s, first), s, m, a, irq, first, before)
    <3>1. FirstFlag(c, s, first)
      BY <2>7 DEF FirstFlag
    <3> QED
      BY <2>7, <2>9, <2>12, <3>1, FirstMoves
  <2>14. programmed' = [start |-> s, descs |-> m, bytes |-> a, irq |-> irq, first |-> first,
                        launched |-> launched, before |-> before]
    BY <1>2, <1>7, <2>7, <2>8, <2>11
  <2>15. MovesBuffer(kind'.count, desc_list', programmed')
    <3>1. desc_list' = RequestFirst(list, s, first) /\ kind'.count = c
      BY <1>2, <2>7, <2>8
    <3> QED
      BY <2>13, <2>14, <3>1 DEF MovesBuffer
  <2> QED
    BY <1>5, <2>15, MovesIs DEF DpInv
<1> QED
  BY <1>6, <1>7

(* A launch that does not bind.                                            *)
LEMMA ListLast ==
  ASSUME DpInv, NEW start \in 0 .. kind.count - 1, NEW size \in LastSizes,
         NEW irq \in BOOLEAN, NEW first \in BOOLEAN, ProgramLast(start, size, irq, first)
  PROVE  DpInv'
<1> DEFINE n == DivRoundUp(size, Page)
           e == (start + n - 1) % kind.count
           f == FlattenSeq([k \in 1 .. n |-> PageBytes((start + k - 1) % kind.count)])
           cut == [desc_list EXCEPT ![e].size = LastSize(size), ![e].irq = irq]
<1>1. kind \in ListKinds /\ desc_list \in ListType
  BY DEF DpInv
<1>2. PICK c \in Nat \ {0} : c = kind.count
  BY <1>1, KindType
<1>3. /\ kind' = kind /\ n <= c
      /\ desc_list' = RequestFirst(cut, start, first)
      /\ programmed' = [start |-> start, descs |-> n, irq |-> irq, first |-> first,
                        launched |-> TRUE, before |-> desc_list, bytes |-> SubSeq(f, 1, size)]
      /\ BoundByPages
  BY <1>2 DEF ProgramLast
<1>4. size \in Nat \ {0} /\ Page \in Nat \ {0} /\ start \in Nat
  BY PageAssumption, <1>2
<1>5. n \in Nat /\ n * Page >= size /\ (n - 1) * Page < size
  BY <1>4, Pages
<1> HIDE DEF n
<1>6. n \in 1 .. c
  <2>1. n # 0
    <3>1. 0 * Page = 0
      BY <1>4
    <3> QED
      BY <1>4, <1>5, <3>1
  <2> QED
    BY <1>3, <1>5, <2>1
<1>7. PICK z \in 1 .. Page : z = LastSize(size) /\ (n - 1) * Page + z = size
  <2>1. PICK x \in Nat : x = (n - 1) * Page
    <3>1. n - 1 \in Nat
      BY <1>6
    <3> QED
      BY <1>4, <3>1
  <2>2. n * Page = x + Page
    <3>1. PICK h \in Nat : n = h + 1 /\ n - 1 = h
      <4>1. n - 1 \in Nat /\ n = (n - 1) + 1
        BY <1>6
      <4> QED
        BY <4>1
    <3>2. (h + 1) * Page = h * Page + Page
      BY <1>4
    <3> QED
      BY <2>1, <3>1, <3>2
  <2>3. size - x \in 1 .. Page /\ x + (size - x) = size
    BY <1>4, <1>5, <2>1, <2>2
  <2>4. LastSize(size) = size - x
    BY <2>1 DEF LastSize, n
  <2> QED
    BY <2>1, <2>3, <2>4
<1>8. \A d \in 0 .. c - 1 : desc_list[d].size = Page /\ ~desc_list[d].irq
  BY <1>1, <1>2, <1>3 DEF BoundByPages, ListType
<1>9. f = Flat(Pieces(c, desc_list, start), n)
  <2> DEFINE F == [k \in 1 .. n |-> PageBytes((start + k - 1) % kind.count)]
             G == [k \in 1 .. n |-> Pieces(c, desc_list, start)[k]]
  <2>1. ASSUME NEW k \in 1 .. n PROVE F[k] = G[k]
    <3>1. k \in Nat /\ start + k - 1 \in Nat
      BY <1>4, <1>6
    <3>2. PICK d : d = (start + k - 1) % c
      OBVIOUS
    <3>3. d \in 0 .. c - 1
      BY <3>1, <3>2, Quotient
    <3>4. desc_list[d].size = Page
      BY <1>8, <3>3
    <3>5. F[k] = [j \in 1 .. Page |-> desc_list[d].addr + j - 1]
      BY <1>2, <3>2 DEF PageBytes
    <3>6. G[k] = [j \in 1 .. desc_list[d].size |-> desc_list[d].addr + j - 1]
      BY <3>1, <3>2 DEF Pieces
    <3> QED
      BY <3>4, <3>5, <3>6
  <2>2. F = G
    <3> HIDE DEF n
    <3> QED
      BY <2>1
  <2> QED
    BY <2>2 DEF Flat
<1>10. PICK list \in [0 .. c - 1 -> DescSet], s \in Nat : list = desc_list /\ s = start
  BY <1>1, <1>2, <1>4 DEF ListType
<1>11. PICK m \in 1 .. c : m = n
  BY <1>6
<1>12. PICK a, other : a = SubSeq(f, 1, size) /\ other = cut
  OBVIOUS
<1>13. /\ \A d \in 0 .. c - 1 : list[d].size = Page /\ ~list[d].irq
       /\ other = [list EXCEPT ![(s + m - 1) % c].size = z, ![(s + m - 1) % c].irq = irq]
       /\ a = SubSeq(Flat(Pieces(c, list, s), m), 1, (m - 1) * Page + z)
  BY <1>2, <1>7, <1>8, <1>9, <1>10, <1>11, <1>12
<1> HIDE DEF e, f, cut
<1>14. PICK y \in Nat : y = (m - 1) * Page + z
  BY <1>4, <1>7, <1>11
<1>15. /\ other \in [0 .. c - 1 -> DescSet] /\ IsBytes(a, y)
       /\ Done(c, list, s, a, other, m, y, irq)
  <2>1. LastCut(c, s, list, m, z, a, irq, other)
    BY <1>13 DEF LastCut
  <2>2. Flag(irq)
    BY DEF Flag
  <2> QED
    BY <1>14, <2>1, <2>2, LastDone
<1>16. Moves(c, other, s, m, a, irq, FALSE, list)
  BY <1>15, DoneMoves
<1>17. /\ RequestFirst(other, s, first) \in [0 .. c - 1 -> DescSet]
       /\ Moves(c, RequestFirst(other, s, first), s, m, a, irq, first, list)
  <2>1. FirstFlag(c, s, first)
    BY <1>2, <1>10 DEF FirstFlag
  <2> QED
    BY <1>15, <1>16, <2>1, FirstMoves
<1>18. programmed' = [start |-> s, descs |-> m, irq |-> irq, first |-> first,
                      launched |-> TRUE, before |-> list, bytes |-> a]
  BY <1>3, <1>10, <1>11, <1>12
<1>19. desc_list' = RequestFirst(other, s, first) /\ kind'.count = c
  BY <1>2, <1>3, <1>10, <1>12
<1>20. MovesBuffer(kind'.count, desc_list', programmed')
  BY <1>17, <1>18, <1>19 DEF MovesBuffer
<1>21. (desc_list \in ListType)'
  BY <1>17, <1>19 DEF ListType
<1> QED
  BY <1>1, <1>3, <1>20, <1>21, MovesIs DEF DpInv

(* The end of a transfer.                                                  *)
LEMMA CleanType ==
  ASSUME NEW c, NEW list \in [0 .. c - 1 -> DescSet], NEW e
  PROVE  CleanDesc(list, e) \in [0 .. c - 1 -> DescSet]
<1>1. CASE e \in 0 .. c - 1
  <2>1. list[e] \in DescSet /\ Page \in Nat
    BY <1>1, PageAssumption
  <2>2. PICK f : f = [[list[e] EXCEPT !.size = Page] EXCEPT !.irq = FALSE]
    OBVIOUS
  <2>3. f \in DescSet
    BY <2>1, <2>2 DEF DescSet
  <2>4. CleanDesc(list, e) = [list EXCEPT ![e] = f]
    BY <1>1, <2>2 DEF CleanDesc
  <2> QED
    BY <2>3, <2>4
<1>2. CASE e \notin 0 .. c - 1
  <2>1. CleanDesc(list, e) = list
    BY <1>2 DEF CleanDesc
  <2> QED
    BY <2>1
<1> QED
  BY <1>1, <1>2

LEMMA ListClear ==
  ASSUME DpInv, ClearDirtyDescs
  PROVE  DpInv'
<1>1. kind \in ListKinds /\ desc_list \in ListType
  BY DEF DpInv
<1>2. PICK d, e : desc_list' = CleanDesc(CleanDesc(desc_list, d), e)
  BY DEF ClearDirtyDescs
<1>3. kind' = kind /\ programmed' = Nothing
  BY DEF ClearDirtyDescs
<1>4. CleanDesc(desc_list, d) \in [0 .. kind.count - 1 -> DescSet]
  BY <1>1, CleanType DEF ListType
<1>5. desc_list' \in [0 .. kind.count - 1 -> DescSet]
  BY <1>2, <1>4, CleanType
<1> QED
  BY <1>1, <1>3, <1>5 DEF DpInv, ListType, ListMovesBuffer

(* In every state, if clients keep to Tidy: the descriptors the last call  *)
(* says it programmed move the bytes asked for, the last of them and a     *)
(* launch's first interrupt as asked, and the others are what they were    *)
(* (bind_and_program_descriptors_list, program_last_desc).                 *)
THEOREM ListCorrect ==
  (\A call \in Calls : Tidy(call)) => (DpSpec => []ListMovesBuffer)
<1> SUFFICES ASSUME \A call \in Calls : Tidy(call)
             PROVE  DpSpec => []ListMovesBuffer
  OBVIOUS
<1>1. DpInit => DpInv
  BY ListInit
<1>2. DpInv /\ [DpNext]_dpVars => DpInv'
  <2> SUFFICES ASSUME DpInv, [DpNext]_dpVars PROVE DpInv'
    OBVIOUS
  <2>1. ASSUME NEW call \in Calls, ProgramList(call) PROVE DpInv'
    <3>1. Program(call, FALSE, FALSE)
      BY <2>1 DEF ProgramList
    <3> QED
      BY <3>1, ListProgram
  <2>5. ASSUME NEW call \in Calls, NEW first \in BOOLEAN, LaunchBind(call, first)
         PROVE  DpInv'
    <3>1. Program(call, TRUE, first) /\ call.start < kind.count
      BY <2>5 DEF LaunchBind
    <3> QED
      BY <3>1, ListProgram
  <2>2. ASSUME NEW start \in 0 .. kind.count - 1, NEW size \in LastSizes,
               NEW irq \in BOOLEAN, NEW first \in BOOLEAN,
               ProgramLast(start, size, irq, first)
        PROVE  DpInv'
    BY <2>2, ListLast
  <2>3. CASE ClearDirtyDescs
    BY <2>3, ListClear
  <2>4. CASE UNCHANGED dpVars
    BY <2>4 DEF dpVars, DpInv, ListType, ListMovesBuffer, Moved
  <2> QED
    BY <2>1, <2>5, <2>2, <2>3, <2>4 DEF DpNext
<1>3. DpInv => ListMovesBuffer
  BY DEF DpInv
<1> QED
  BY <1>1, <1>2, <1>3, PTL DEF DpSpec
==============================================================================
