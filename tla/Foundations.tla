----------------------------- MODULE Foundations ------------------------------
(***************************************************************************)
(* Facts about numbers and sums that the proofs rest on.                   *)
(*                                                                         *)
(* The library states induction for predicates, which are operators.  Here *)
(* it is stated for sets, a number at a time, and follows from every set   *)
(* of numbers having a least one.                                          *)
(***************************************************************************)
EXTENDS Sums, WellFoundedInduction, SequenceTheorems, TLAPS

\* Any set of natural numbers with a member has a least one.
LEMMA LeastNumber ==
  ASSUME NEW T \in SUBSET Nat, T # {}
  PROVE  \E n \in T : \A m \in T : n <= m
<1>1. IsWellFoundedOn({ss \in Nat \X Nat : ss[1] < ss[2]}, Nat)
  BY NatLessThanWellFounded, Zenon DEF OpToRel
<1>2. PICK n \in T : \A m \in T : <<m, n>> \notin {ss \in Nat \X Nat : ss[1] < ss[2]}
  BY <1>1, WFMin, T \subseteq Nat
<1>3. ASSUME NEW m \in T
      PROVE  n <= m
  <2>1. m \in Nat /\ n \in Nat /\ <<m, n>> \in Nat \X Nat
    OBVIOUS
  <2>2. ~(<<m, n>>[1] < <<m, n>>[2])
    BY <1>2, <2>1
  <2> QED
    BY <2>1, <2>2
<1> QED
  BY <1>3

\* Induction up to l, for the set of the numbers that have a property.
LEMMA NumberInduction ==
  ASSUME NEW T, NEW l \in Nat, 0 \in T,
         ASSUME NEW n \in 1 .. l, n - 1 \in T PROVE n \in T
  PROVE  l \in T
<1> DEFINE Missing == {n \in 0 .. l : n \notin T}
<1>1. CASE Missing = {}
  <2>1. l \in 0 .. l
    OBVIOUS
  <2> QED
    BY <1>1, <2>1
<1>2. CASE Missing # {}
  <2>1. Missing \in SUBSET Nat
    OBVIOUS
  <2>2. PICK n \in Missing : \A m \in Missing : n <= m
    BY <1>2, <2>1, LeastNumber
  <2>3. n \in 1 .. l /\ n - 1 \in 0 .. l
    BY <2>2
  <2>4. n - 1 \notin Missing
    BY <2>2, <2>3
  <2> QED
    BY <2>2, <2>3, <2>4
<1> QED
  BY <1>1, <1>2

-----------------------------------------------------------------------------
(* Products and quotients. *)

\* A product of natural numbers is one.
LEMMA ProductInNat ==
  ASSUME NEW a \in Nat, NEW b \in Nat
  PROVE  a * b \in Nat
OBVIOUS

\* A larger factor makes no smaller product.
LEMMA ProductMonotone ==
  ASSUME NEW a \in Nat, NEW b \in Nat, NEW c \in Nat, a <= b
  PROVE  a * c <= b * c
<1>1. (b - a) * c \in Nat
  BY ProductInNat
<1>2. b * c = a * c + (b - a) * c
  OBVIOUS
<1>3. a * c \in Nat /\ b * c \in Nat
  BY ProductInNat
<1> QED
  BY <1>1, <1>2, <1>3

\* A factor that makes a product smaller is smaller.
LEMMA FactorLess ==
  ASSUME NEW a \in Nat, NEW b \in Nat, NEW c \in Nat \ {0}, c * a < c * b
  PROVE  a < b
<1>1. CASE b <= a
  <2>1. b * c <= a * c
    BY <1>1, ProductMonotone
  <2>2. a * c = c * a /\ b * c = c * b
    OBVIOUS
  <2>3. c * a \in Nat /\ c * b \in Nat
    BY ProductInNat
  <2> QED
    BY <2>1, <2>2, <2>3
<1> QED
  BY <1>1

\* The cluster of a position, and the offset in it, are unique.
LEMMA Quotient ==
  ASSUME NEW c \in Nat \ {0}, NEW q \in Nat, NEW r \in 0 .. c - 1
  PROVE  /\ (c * q + r) \div c = q
         /\ (c * q + r) % c = r
<1> DEFINE p == c * q + r
           d == p \div c
           m == p % c
<1>1. p \in Nat
  BY ProductInNat
<1>2. d \in Nat /\ m \in 0 .. c - 1 /\ p = c * d + m
  BY <1>1, Z3
<1> HIDE DEF d, m
<1>3. c * d + m = c * q + r
  BY <1>2
<1>4. /\ c * d \in Nat /\ c * q \in Nat
      /\ c * (d + 1) = c * d + c /\ c * (q + 1) = c * q + c
  BY <1>2, ProductInNat
<1>5. c * d < c * (q + 1) /\ c * q < c * (d + 1)
  BY <1>2, <1>3, <1>4
<1>6. d + 1 \in Nat /\ q + 1 \in Nat
  BY <1>2
<1>7. d < q + 1 /\ q < d + 1
  BY <1>2, <1>5, <1>6, FactorLess
<1>8. d = q
  BY <1>2, <1>7
<1>9. m = r
  BY <1>2, <1>3, <1>4, <1>8
<1> QED
  BY <1>8, <1>9 DEF d, m

-----------------------------------------------------------------------------
(* Sums. *)

\* f adds up the first n numbers of s, for every n up to m.
AddsUp(f, s, m) ==
  f = [n \in 0 .. m |-> IF n = 0 THEN 0 ELSE f[n - 1] + s[n]]

\* The numbers can be added up, to whatever length.
LEMMA AddingUp ==
  ASSUME NEW s, NEW l \in Nat
  PROVE  \E f : AddsUp(f, s, l)
<1> DEFINE T == {m \in Nat : \E f : AddsUp(f, s, m)}
<1>1. 0 \in T
  <2>1. AddsUp([n \in 0 .. 0 |-> 0], s, 0)
    BY DEF AddsUp
  <2> QED
    BY <2>1
<1>2. ASSUME NEW m \in 1 .. l, m - 1 \in T
      PROVE  m \in T
  <2>1. PICK g : AddsUp(g, s, m - 1)
    BY <1>2
  <2> DEFINE h == [n \in 0 .. m |-> IF n = m THEN g[m - 1] + s[m] ELSE g[n]]
  <2>2. \A n \in 0 .. m : h[n] = IF n = 0 THEN 0 ELSE h[n - 1] + s[n]
    <3> TAKE n \in 0 .. m
    <3>1. CASE n = m
      BY <3>1
    <3>2. CASE n # m
      <4>1. n \in 0 .. m - 1 /\ h[n] = g[n]
        BY <3>2
      <4>2. g[n] = IF n = 0 THEN 0 ELSE g[n - 1] + s[n]
        BY <2>1, <4>1 DEF AddsUp
      <4>3. n # 0 => h[n - 1] = g[n - 1]
        BY <3>2
      <4> QED
        BY <4>1, <4>2, <4>3
    <3> QED
      BY <3>1, <3>2
  <2>3. AddsUp(h, s, m)
    BY <2>2 DEF AddsUp
  <2> QED
    BY <2>3
<1> HIDE DEF T
<1>3. l \in T
  BY <1>1, <1>2, NumberInduction
<1> QED
  BY <1>3 DEF T

\* Each sum is the one before and one number more.
LEMMA SumsStep ==
  ASSUME NEW s, Len(s) \in Nat
  PROVE  /\ sums(s)[0] = 0
         /\ \A n \in 1 .. Len(s) : sums(s)[n] = sums(s)[n - 1] + s[n]
<1>1. \E f : AddsUp(f, s, Len(s))
  BY AddingUp
<1>2. sums(s) = CHOOSE f : AddsUp(f, s, Len(s))
  BY DEF sums, AddsUp
<1>3. AddsUp(sums(s), s, Len(s))
  BY <1>1, <1>2
<1> DEFINE f == sums(s)
           l == Len(s)
<1>4. f = [n \in 0 .. l |-> IF n = 0 THEN 0 ELSE f[n - 1] + s[n]]
  BY <1>3 DEF AddsUp
<1>5. l \in Nat
  OBVIOUS
<1> HIDE DEF f, l
<1>6. f[0] = 0 /\ \A n \in 1 .. l : f[n] = f[n - 1] + s[n]
  BY <1>4, <1>5
<1> QED
  BY <1>6 DEF f, l

\* Nothing adds up to nothing.
LEMMA TotalEmpty ==
  ASSUME NEW s, s = <<>>
  PROVE  total(s) = 0
<1>1. Len(s) = 0
  BY EmptySeq
<1>2. sums(s)[0] = 0
  BY <1>1, SumsStep
<1> QED
  BY <1>1, <1>2 DEF total

\* The sum of the first numbers does not depend on those behind them.
LEMMA SumsOfPrefix ==
  ASSUME NEW s, NEW t, Len(s) \in Nat, Len(t) \in Nat,
         NEW l \in Nat, l <= Len(s), l <= Len(t),
         \A i \in 1 .. l : s[i] = t[i]
  PROVE  sums(s)[l] = sums(t)[l]
<1> DEFINE f == sums(s)
           g == sums(t)
           T == {m \in 0 .. l : f[m] = g[m]}
<1>1. f[0] = 0 /\ g[0] = 0
  BY SumsStep
<1>2. \A n \in 1 .. l : f[n] = f[n - 1] + s[n] /\ g[n] = g[n - 1] + t[n]
  BY SumsStep
<1> HIDE DEF f, g
<1>3. 0 \in T
  BY <1>1, <1>2
<1>4. ASSUME NEW n \in 1 .. l, n - 1 \in T
      PROVE  n \in T
  BY <1>1, <1>2, <1>4
<1> HIDE DEF T
<1>5. l \in T
  BY <1>3, <1>4, NumberInduction
<1> QED
  BY <1>5 DEF T, f, g

\* A number that is appended is added.
LEMMA TotalAppend ==
  ASSUME NEW S, NEW s \in Seq(S), NEW x \in S
  PROVE  total(Append(s, x)) = total(s) + x
<1> DEFINE t == Append(s, x)
<1>1. /\ t \in Seq(S) /\ Len(t) = Len(s) + 1 /\ Len(s) \in Nat
      /\ \A i \in 1 .. Len(s) : t[i] = s[i]
      /\ t[Len(s) + 1] = x
  BY AppendProperties, LenProperties
<1> HIDE DEF t
<1>2. Len(t) \in Nat /\ Len(t) - 1 = Len(s) /\ Len(t) \in 1 .. Len(t)
  BY <1>1
<1>3. sums(t)[Len(t)] = sums(t)[Len(t) - 1] + t[Len(t)]
  BY <1>2, SumsStep
<1>4. sums(t)[Len(s)] = sums(s)[Len(s)]
  <2>1. Len(s) <= Len(t) /\ Len(s) <= Len(s)
    BY <1>1
  <2> QED
    BY <1>1, <1>2, <2>1, SumsOfPrefix
<1> QED
  BY <1>1, <1>2, <1>3, <1>4 DEF total, t

\* What natural numbers add up to is one.
LEMMA TotalInNat ==
  ASSUME NEW s \in Seq(Nat)
  PROVE  total(s) \in Nat
<1> DEFINE f == sums(s)
           l == Len(s)
           T == {m \in 0 .. l : f[m] \in Nat}
<1>1. l \in Nat /\ \A n \in 1 .. l : s[n] \in Nat
  BY LenProperties, ElementOfSeq
<1>2. f[0] = 0 /\ \A n \in 1 .. l : f[n] = f[n - 1] + s[n]
  BY <1>1, SumsStep
<1> HIDE DEF f, l
<1>3. 0 \in T
  BY <1>1, <1>2
<1>4. ASSUME NEW n \in 1 .. l, n - 1 \in T
      PROVE  n \in T
  BY <1>1, <1>2, <1>4
<1> HIDE DEF T
<1>5. l \in T
  BY <1>1, <1>3, <1>4, NumberInduction
<1> QED
  BY <1>5 DEF T, total, f, l

\* The sums of natural numbers grow up to the total.
LEMMA SumsGrow ==
  ASSUME NEW s \in Seq(Nat)
  PROVE  \A n \in 0 .. Len(s) : sums(s)[n] \in Nat /\ sums(s)[n] <= total(s)
<1> DEFINE f == sums(s)
           l == Len(s)
<1>1. l \in Nat /\ \A n \in 1 .. l : s[n] \in Nat
  BY LenProperties, ElementOfSeq
<1>2. f[0] = 0 /\ \A n \in 1 .. l : f[n] = f[n - 1] + s[n]
  BY <1>1, SumsStep
<1>3. total(s) = f[l]
  BY DEF total
<1> HIDE DEF f, l
<1>4. ASSUME NEW m \in 0 .. l
      PROVE  f[m] \in Nat
  <2> DEFINE T == {n \in 0 .. m : f[n] \in Nat}
  <2>1. 0 \in T
    BY <1>1, <1>2
  <2>2. ASSUME NEW n \in 1 .. m, n - 1 \in T
        PROVE  n \in T
    BY <1>1, <1>2, <2>2
  <2>3. m \in Nat
    BY <1>1
  <2> HIDE DEF T
  <2>4. m \in T
    BY <2>1, <2>2, <2>3, NumberInduction
  <2> QED
    BY <2>4 DEF T
<1>5. ASSUME NEW m \in 0 .. l
      PROVE  f[m] <= f[l]
  <2> DEFINE k == l - m
             T == {n \in 0 .. k : f[l - n] <= f[l]}
  <2>1. 0 \in T /\ k \in Nat
    <3>1. f[l] \in Nat /\ l - 0 = l /\ k \in Nat
      BY <1>1, <1>4
    <3> QED
      BY <3>1
  <2>2. ASSUME NEW n \in 1 .. k, n - 1 \in T
        PROVE  n \in T
    <3> DEFINE i == l - (n - 1)
    <3>1. i \in 1 .. l /\ i - 1 = l - n /\ i - 1 \in 0 .. l /\ i \in 0 .. l /\ n \in 0 .. k
      BY <1>1
    <3>2. f[i] <= f[l]
      BY <2>2
    <3> HIDE DEF i
    <3>3. f[i] = f[i - 1] + s[i] /\ s[i] \in Nat
      BY <1>1, <1>2, <3>1
    <3>4. f[i] \in Nat /\ f[i - 1] \in Nat /\ f[l] \in Nat
      BY <1>1, <1>4, <3>1
    <3>5. f[i - 1] <= f[l]
      BY <3>2, <3>3, <3>4
    <3> QED
      BY <3>1, <3>5
  <2> HIDE DEF T
  <2>3. k \in T
    BY <2>1, <2>2, NumberInduction
  <2>4. l - k = m
    BY <1>1
  <2> QED
    BY <2>3, <2>4 DEF T
<1> QED
  BY <1>3, <1>4, <1>5 DEF f, l

\* Numbers of at most b add up to at most b times as much as there are of them.
LEMMA TotalBound ==
  ASSUME NEW s \in Seq(Nat), NEW b \in Nat, \A i \in 1 .. Len(s) : s[i] <= b
  PROVE  total(s) <= b * Len(s)
<1> DEFINE f == sums(s)
           l == Len(s)
           T == {m \in 0 .. l : f[m] \in Nat /\ f[m] <= b * m}
<1>1. l \in Nat /\ \A n \in 1 .. l : s[n] \in Nat /\ s[n] <= b
  BY LenProperties, ElementOfSeq
<1>2. f[0] = 0 /\ \A n \in 1 .. l : f[n] = f[n - 1] + s[n]
  BY <1>1, SumsStep
<1> HIDE DEF f, l
<1>3. 0 \in T
  BY <1>1, <1>2
<1>4. ASSUME NEW n \in 1 .. l, n - 1 \in T
      PROVE  n \in T
  <2>1. b * n = b * (n - 1) + b /\ b * (n - 1) \in Int
    BY <1>1
  <2>2. f[n] = f[n - 1] + s[n] /\ s[n] \in Nat /\ s[n] <= b
    BY <1>1, <1>2
  <2> QED
    BY <1>1, <1>4, <2>1, <2>2
<1> HIDE DEF T
<1>5. l \in T
  BY <1>1, <1>3, <1>4, NumberInduction
<1> QED
  BY <1>5 DEF T, total, f, l

-----------------------------------------------------------------------------
(* Concatenations. *)

\* A sequence of whatever.
Sequence(s) == \E S : s \in Seq(S)

\* A function on the first n numbers is a sequence of n.
LEMMA Tabulated ==
  ASSUME NEW n \in Nat, NEW f, f = [i \in 1 .. n |-> f[i]]
  PROVE  Sequence(f) /\ Len(f) = n /\ DOMAIN f = 1 .. n
<1> DEFINE S == {f[i] : i \in 1 .. n}
<1>1. f \in [1 .. n -> S]
  <2>1. \A i \in 1 .. n : f[i] \in S
    OBVIOUS
  <2> HIDE DEF S
  <2> QED
    BY <2>1
<1>2. DOMAIN f = 1 .. n
  BY <1>1
<1> HIDE DEF S
<1>3. f \in Seq(S)
  BY <1>1, SeqDef
<1>4. Len(f) \in Nat /\ DOMAIN f = 1 .. Len(f)
  BY <1>3, LenProperties
<1>5. Len(f) = n
  BY <1>2, <1>4
<1> QED
  BY <1>2, <1>3, <1>5 DEF Sequence

\* What two sequences put together consist of.
LEMMA Concatenation ==
  ASSUME NEW s, NEW t, Sequence(s), Sequence(t)
  PROVE  /\ Sequence(s \o t)
         /\ Len(s) \in Nat /\ Len(t) \in Nat
         /\ Len(s \o t) = Len(s) + Len(t)
         /\ \A i \in 1 .. Len(s) : (s \o t)[i] = s[i]
         /\ \A i \in 1 .. Len(t) : (s \o t)[Len(s) + i] = t[i]
<1>1. PICK S : s \in Seq(S)
  BY DEF Sequence
<1>2. PICK T : t \in Seq(T)
  BY DEF Sequence
<1>3. s \in Seq(S \cup T) /\ t \in Seq(S \cup T)
  BY <1>1, <1>2
<1>4. /\ s \o t \in Seq(S \cup T)
      /\ Len(s \o t) = Len(s) + Len(t)
      /\ \A i \in 1 .. Len(s) + Len(t) :
           (s \o t)[i] = IF i <= Len(s) THEN s[i] ELSE t[i - Len(s)]
  BY <1>3, ConcatProperties
<1>5. Len(s) \in Nat /\ Len(t) \in Nat
  BY <1>3, LenProperties
<1>6. \A i \in 1 .. Len(s) : (s \o t)[i] = s[i]
  BY <1>4, <1>5
<1>7. \A i \in 1 .. Len(t) : (s \o t)[Len(s) + i] = t[i]
  <2> TAKE i \in 1 .. Len(t)
  <2> DEFINE k == Len(s) + i
  <2>1. k \in 1 .. Len(s) + Len(t) /\ ~(k <= Len(s)) /\ k - Len(s) = i
    BY <1>5
  <2> HIDE DEF k
  <2>2. (s \o t)[k] = t[i]
    BY <1>4, <2>1
  <2> QED
    BY <2>2 DEF k
<1> QED
  BY <1>4, <1>5, <1>6, <1>7 DEF Sequence

\* f puts together the first n sequences of s, for every n up to m.
PutsTogether(f, s, m) ==
  f = [n \in 0 .. m |-> IF n = 0 THEN <<>> ELSE f[n - 1] \o s[n]]

\* The sequences can be put together, however many there are.
LEMMA PuttingTogether ==
  ASSUME NEW s, NEW l \in Nat
  PROVE  \E f : PutsTogether(f, s, l)
<1> DEFINE T == {m \in Nat : \E f : PutsTogether(f, s, m)}
<1>1. 0 \in T
  <2>1. PutsTogether([n \in 0 .. 0 |-> <<>>], s, 0)
    BY DEF PutsTogether
  <2> QED
    BY <2>1
<1>2. ASSUME NEW m \in 1 .. l, m - 1 \in T
      PROVE  m \in T
  <2>1. PICK g : PutsTogether(g, s, m - 1)
    BY <1>2
  <2> DEFINE h == [n \in 0 .. m |-> IF n = m THEN g[m - 1] \o s[m] ELSE g[n]]
  <2>2. \A n \in 0 .. m : h[n] = IF n = 0 THEN <<>> ELSE h[n - 1] \o s[n]
    <3> TAKE n \in 0 .. m
    <3>1. CASE n = m
      BY <3>1
    <3>2. CASE n # m
      <4>1. n \in 0 .. m - 1 /\ h[n] = g[n]
        BY <3>2
      <4>2. g[n] = IF n = 0 THEN <<>> ELSE g[n - 1] \o s[n]
        BY <2>1, <4>1 DEF PutsTogether
      <4>3. n # 0 => h[n - 1] = g[n - 1]
        BY <3>2
      <4> QED
        BY <4>1, <4>2, <4>3
    <3> QED
      BY <3>1, <3>2
  <2>3. PutsTogether(h, s, m)
    BY <2>2 DEF PutsTogether
  <2> QED
    BY <2>3
<1> HIDE DEF T
<1>3. l \in T
  BY <1>1, <1>2, NumberInduction
<1> QED
  BY <1>3 DEF T

\* Each of them is the one before with one more sequence behind it.
LEMMA JoinsStep ==
  ASSUME NEW s, Len(s) \in Nat
  PROVE  /\ joins(s)[0] = <<>>
         /\ \A n \in 1 .. Len(s) : joins(s)[n] = joins(s)[n - 1] \o s[n]
<1>1. \E f : PutsTogether(f, s, Len(s))
  BY PuttingTogether
<1>2. joins(s) = CHOOSE f : PutsTogether(f, s, Len(s))
  BY DEF joins, PutsTogether
<1>3. PutsTogether(joins(s), s, Len(s))
  BY <1>1, <1>2
<1> DEFINE f == joins(s)
           l == Len(s)
<1>4. f = [n \in 0 .. l |-> IF n = 0 THEN <<>> ELSE f[n - 1] \o s[n]]
  BY <1>3 DEF PutsTogether
<1>5. l \in Nat
  OBVIOUS
<1> HIDE DEF f, l
<1>6. f[0] = <<>>
  <2>1. 0 \in 0 .. l
    BY <1>5
  <2> QED
    BY <1>4, <2>1, Zenon
<1>7. ASSUME NEW n \in 1 .. l
      PROVE  f[n] = f[n - 1] \o s[n]
  <2>1. n \in 0 .. l /\ n # 0
    BY <1>5
  <2> QED
    BY <1>4, <2>1, Zenon
<1> QED
  BY <1>6, <1>7 DEF f, l

\* Sequences put together are a sequence, as long as all of them.
LEMMA JoinsLength ==
  ASSUME NEW s, Len(s) \in Nat, NEW k, Len(k) = Len(s),
         \A i \in 1 .. Len(s) : Sequence(s[i]) /\ k[i] = Len(s[i])
  PROVE  \A n \in 0 .. Len(s) : Sequence(joins(s)[n]) /\ Len(joins(s)[n]) = sums(k)[n]
<1> DEFINE f == joins(s)
           g == sums(k)
           l == Len(s)
<1>1. l \in Nat
  OBVIOUS
<1>2. f[0] = <<>> /\ \A n \in 1 .. l : f[n] = f[n - 1] \o s[n]
  BY JoinsStep
<1>3. g[0] = 0 /\ \A n \in 1 .. l : g[n] = g[n - 1] + k[n]
  BY SumsStep
<1>4. \A n \in 1 .. l : Sequence(s[n]) /\ k[n] = Len(s[n])
  OBVIOUS
<1> HIDE DEF f, g, l
<1> SUFFICES ASSUME NEW m \in 0 .. l
             PROVE  Sequence(f[m]) /\ Len(f[m]) = g[m]
  BY DEF f, g, l
<1> DEFINE T == {n \in 0 .. m : Sequence(f[n]) /\ Len(f[n]) = g[n]}
<1>5. 0 \in T
  <2>1. Sequence(<<>>) /\ Len(<<>>) = 0
    BY DEF Sequence
  <2> QED
    BY <1>1, <1>2, <1>3, <2>1
<1>6. ASSUME NEW n \in 1 .. m, n - 1 \in T
      PROVE  n \in T
  <2>1. n \in 1 .. l /\ n \in 0 .. m
    BY <1>1
  <2>2. Sequence(f[n - 1]) /\ Len(f[n - 1]) = g[n - 1]
    BY <1>6
  <2>3. /\ Sequence(s[n]) /\ k[n] = Len(s[n])
        /\ f[n] = f[n - 1] \o s[n] /\ g[n] = g[n - 1] + k[n]
    BY <1>2, <1>3, <1>4, <2>1, Zenon
  <2>4. Sequence(f[n]) /\ Len(f[n]) = Len(f[n - 1]) + Len(s[n])
    <3> DEFINE a == f[n - 1]
               b == s[n]
    <3>1. Sequence(a) /\ Sequence(b)
      BY <2>2, <2>3
    <3> HIDE DEF a, b
    <3>2. Sequence(a \o b) /\ Len(a \o b) = Len(a) + Len(b)
      BY <3>1, Concatenation
    <3> QED
      BY <2>3, <3>2, Zenon DEF a, b
  <2>5. Len(f[n]) = g[n]
    BY <2>2, <2>3, <2>4, Zenon
  <2> QED
    BY <2>1, <2>4, <2>5, Zenon
<1> HIDE DEF T
<1>7. m \in Nat
  BY <1>1
<1>8. m \in T
  BY <1>5, <1>6, <1>7, NumberInduction
<1> QED
  BY <1>8 DEF T

\* Each sequence keeps its place among those it is put together with.
LEMMA JoinsPlace ==
  ASSUME NEW s, Len(s) \in Nat, NEW k, Len(k) = Len(s),
         \A i \in 1 .. Len(s) : Sequence(s[i]) /\ k[i] = Len(s[i])
  PROVE  \A i \in 1 .. Len(s) : \A j \in 1 .. k[i] : joined(s)[sums(k)[i - 1] + j] = s[i][j]
<1> DEFINE f == joins(s)
           g == sums(k)
           l == Len(s)
<1>1. l \in Nat
  OBVIOUS
<1>2. \A n \in 1 .. l : f[n] = f[n - 1] \o s[n]
  BY JoinsStep
<1>3. g[0] = 0 /\ \A n \in 1 .. l : g[n] = g[n - 1] + k[n]
  BY SumsStep
<1>4. \A n \in 1 .. l : Sequence(s[n]) /\ k[n] = Len(s[n])
  OBVIOUS
<1>5. \A n \in 0 .. l : Sequence(f[n]) /\ Len(f[n]) = g[n]
  BY JoinsLength
<1>6. joined(s) = f[l]
  BY DEF joined
<1> HIDE DEF f, g, l
<1> DEFINE In(n, i, j) == g[i - 1] + j \in 1 .. g[n] /\ f[n][g[i - 1] + j] = s[i][j]
           T == {n \in 0 .. l : \A i \in 1 .. n : \A j \in 1 .. k[i] : In(n, i, j)}
<1>7. 0 \in T
  BY <1>1
<1>8. ASSUME NEW n \in 1 .. l, n - 1 \in T
      PROVE  n \in T
  <2>1. n \in 0 .. l /\ n - 1 \in 0 .. l /\ n \in Nat
    BY <1>1
  <2> DEFINE a == f[n - 1]
             b == s[n]
  <2>2. Sequence(a) /\ Len(a) = g[n - 1] /\ Sequence(b) /\ Len(b) = k[n]
    BY <1>4, <1>5, <2>1
  <2>3. f[n] = a \o b /\ g[n] = g[n - 1] + k[n]
    BY <1>2, <1>3
  <2> HIDE DEF a, b
  <2>4. /\ Len(a) \in Nat /\ Len(b) \in Nat
        /\ \A i \in 1 .. Len(a) : (a \o b)[i] = a[i]
        /\ \A i \in 1 .. Len(b) : (a \o b)[Len(a) + i] = b[i]
    BY <2>2, Concatenation
  <2>5. g[n - 1] \in Nat /\ k[n] \in Nat
    BY <2>2, <2>4
  <2>6. ASSUME NEW i \in 1 .. n - 1, NEW j \in 1 .. k[i]
        PROVE  In(n, i, j)
    <3>1. g[i - 1] + j \in 1 .. g[n - 1] /\ a[g[i - 1] + j] = s[i][j]
      BY <1>8 DEF a
    <3> DEFINE at == g[i - 1] + j
    <3> HIDE DEF at
    <3>2. at \in 1 .. g[n - 1] + k[n]
      BY <2>5, <3>1 DEF at
    <3>3. (a \o b)[at] = a[at]
      BY <2>2, <2>4, <3>1 DEF at
    <3> QED
      BY <2>3, <3>1, <3>2, <3>3 DEF at
  <2>7. ASSUME NEW j \in 1 .. k[n]
        PROVE  In(n, n, j)
    <3>1. g[n - 1] + j \in 1 .. g[n - 1] + k[n]
      BY <2>5
    <3>2. (a \o b)[g[n - 1] + j] = b[j]
      BY <2>2, <2>4
    <3> QED
      BY <2>3, <3>1, <3>2 DEF b
  <2> HIDE DEF In
  <2>8. \A i \in 1 .. n : \A j \in 1 .. k[i] : In(n, i, j)
    BY <2>1, <2>6, <2>7
  <2> QED
    BY <2>1, <2>8
<1> HIDE DEF T
<1>9. l \in T
  BY <1>1, <1>7, <1>8, NumberInduction
<1> QED
  BY <1>6, <1>9 DEF T, l, g

\* What is in the sequences put together is in one of them.
LEMMA JoinsOrigin ==
  ASSUME NEW s, Len(s) \in Nat, \A i \in 1 .. Len(s) : Sequence(s[i])
  PROVE  \A n \in 1 .. Len(joined(s)) :
           \E i \in 1 .. Len(s) : \E j \in 1 .. Len(s[i]) : joined(s)[n] = s[i][j]
<1> DEFINE f == joins(s)
           l == Len(s)
           k == [i \in 1 .. l |-> Len(s[i])]
<1>1. l \in Nat
  OBVIOUS
<1>2. f[0] = <<>> /\ \A n \in 1 .. l : f[n] = f[n - 1] \o s[n]
  BY JoinsStep
<1>3. \A n \in 1 .. l : Sequence(s[n])
  OBVIOUS
<1>4. \A n \in 0 .. l : Sequence(f[n])
  <2>1. \A i \in 1 .. l : k[i] = Len(s[i])
    OBVIOUS
  <2>2. k = [i \in 1 .. l |-> k[i]]
    OBVIOUS
  <2> HIDE DEF k
  <2>3. Len(k) = Len(s)
    BY <1>1, <2>2, Tabulated
  <2> QED
    BY <1>1, <2>1, <2>3, JoinsLength
<1>5. joined(s) = f[l]
  BY DEF joined
<1> HIDE DEF f, l
<1> DEFINE From(x, n) == \E i \in 1 .. n : \E j \in 1 .. Len(s[i]) : x = s[i][j]
           T == {n \in 0 .. l : \A m \in 1 .. Len(f[n]) : From(f[n][m], n)}
<1>6. 0 \in T
  BY <1>1, <1>2
<1>7. ASSUME NEW n \in 1 .. l, n - 1 \in T
      PROVE  n \in T
  <2>1. n \in 0 .. l /\ n - 1 \in 0 .. l /\ n \in Nat
    BY <1>1
  <2> DEFINE a == f[n - 1]
             b == s[n]
  <2>2. Sequence(a) /\ Sequence(b) /\ f[n] = a \o b
    BY <1>2, <1>3, <1>4, <2>1
  <2>3. \A m \in 1 .. Len(a) : From(a[m], n - 1)
    BY <1>7
  <2>4. \A m \in 1 .. Len(b) : From(b[m], n)
    BY <2>1
  <2> HIDE DEF a, b
  <2>5. /\ Len(a) \in Nat /\ Len(b) \in Nat /\ Len(a \o b) = Len(a) + Len(b)
        /\ \A i \in 1 .. Len(a) : (a \o b)[i] = a[i]
        /\ \A i \in 1 .. Len(b) : (a \o b)[Len(a) + i] = b[i]
    BY <2>2, Concatenation
  <2>6. ASSUME NEW m \in 1 .. Len(a \o b)
        PROVE  From((a \o b)[m], n)
    <3>1. CASE m <= Len(a)
      <4>1. m \in 1 .. Len(a)
        BY <2>5, <3>1
      <4>2. From(a[m], n - 1)
        BY <2>3, <4>1
      <4>3. \A i \in 1 .. n - 1 : i \in 1 .. n
        BY <2>1
      <4>4. From(a[m], n)
        BY <4>2, <4>3
      <4> QED
        BY <2>5, <4>1, <4>4
    <3>2. CASE ~(m <= Len(a))
      <4> DEFINE j == m - Len(a)
      <4>1. j \in 1 .. Len(b) /\ m = Len(a) + j
        BY <2>5, <3>2
      <4> HIDE DEF j
      <4>2. (a \o b)[m] = b[j]
        BY <2>5, <4>1
      <4> QED
        BY <2>4, <4>1, <4>2
    <3> QED
      BY <3>1, <3>2
  <2> HIDE DEF From
  <2> QED
    BY <2>1, <2>2, <2>6
<1> HIDE DEF T
<1>8. l \in T
  BY <1>1, <1>6, <1>7, NumberInduction
<1> QED
  BY <1>5, <1>8 DEF T, l

\* Two sequences of one are a pair.
LEMMA JoinedPair ==
  ASSUME NEW x, NEW y
  PROVE  /\ <<x>> \o (<<y>> \o <<>>) = <<x, y>>
         /\ <<x>> \o (<<>> \o <<y>>) = <<x, y>>
         /\ <<x>> \o <<y>> = <<x, y>>
<1> DEFINE S == {x, y}
<1>1. <<x>> \in Seq(S) /\ <<y>> \in Seq(S) /\ <<x, y>> \in Seq(S)
  OBVIOUS
<1>2. <<y>> \o <<>> = <<y>> /\ <<>> \o <<y>> = <<y>>
  BY <1>1, ConcatEmptySeq
<1>3. <<x>> \o <<y>> = <<x, y>>
  <2> DEFINE t == <<x>> \o <<y>>
  <2>1. /\ t \in Seq(S) /\ Len(t) = Len(<<x>>) + Len(<<y>>)
        /\ \A i \in 1 .. Len(<<x>>) + Len(<<y>>) :
             t[i] = IF i <= Len(<<x>>) THEN <<x>>[i] ELSE <<y>>[i - Len(<<x>>)]
    BY <1>1, ConcatProperties
  <2>2. Len(<<x>>) = 1 /\ Len(<<y>>) = 1
    OBVIOUS
  <2> HIDE DEF t
  <2>3. Len(t) = 2 /\ t[1] = x /\ t[2] = y
    BY <2>1, <2>2
  <2>4. Len(<<x, y>>) = 2 /\ <<x, y>>[1] = x /\ <<x, y>>[2] = y
    OBVIOUS
  <2> HIDE DEF S
  <2>5. t = <<x, y>>
    BY <1>1, <2>1, <2>3, <2>4, SeqEqual
  <2> QED
    BY <2>5 DEF t
<1> QED
  BY <1>2, <1>3
=============================================================================
