---------------------------- MODULE ElementProofs ----------------------------
(***************************************************************************)
(* What output writes, for elements, pages and ranges of any size.         *)
(*                                                                         *)
(* Every part of an element -- an ID, a length, a plane, a child -- takes  *)
(* its share of the range and moves the cursor on; what the parts write is *)
(* put together as the range is.  So an element is written as wanted when  *)
(* its children are, and all of a tree are, one after the other.  What     *)
(* report says of a byte follows from where that puts it.                  *)
(***************************************************************************)
EXTENDS ElementReport, Foundations

-----------------------------------------------------------------------------
(* Numbers. *)

\* There is a modulus.
LEMMA Modulus == SizeMax \in Nat \ {0}
<1>1. MaxPages * Page \in Nat
  BY NumbersAssumption, ProductInNat
<1> QED
  BY <1>1, NumbersAssumption

\* size_t holds what is less than its modulus, and nothing else.
LEMMA Wrapping ==
  /\ \A n \in 0 .. SizeMax - 1 : Wrap(n) = n
  /\ \A n \in Int : Wrap(n) \in 0 .. SizeMax - 1
<1>1. SizeMax \in Nat \ {0}
  BY Modulus
<1>2. ASSUME NEW n \in 0 .. SizeMax - 1
      PROVE  Wrap(n) = n
  <2> DEFINE r == n
  <2>1. SizeMax * 0 + r = n /\ 0 \in Nat /\ r \in 0 .. SizeMax - 1
    BY <1>1
  <2> HIDE DEF r
  <2>2. (SizeMax * 0 + r) % SizeMax = r
    BY <1>1, <2>1, Quotient
  <2> QED
    BY <2>1, <2>2 DEF Wrap, r
<1>3. ASSUME NEW n \in Int
      PROVE  Wrap(n) \in 0 .. SizeMax - 1
  BY <1>1, Z3 DEF Wrap
<1> QED
  BY <1>2, <1>3

\* A vint has one to eight bytes, and no more than one above its value.
LEMMA VintWidth ==
  ASSUME NEW v \in Nat, v < VintLimits[8]
  PROVE  VintSize(v) \in 1 .. 8 /\ VintSize(v) <= v + 1
<1> DEFINE Fits(n) == v < VintLimits[n] /\ (n = 1 \/ v >= VintLimits[n - 1])
<1>1. /\ \A n \in 1 .. 8 : VintLimits[n] \in Nat
      /\ \A n \in 2 .. 8 : VintLimits[n - 1] < VintLimits[n]
      /\ VintLimits[1] > 4
  BY NumbersAssumption DEF Timecode
<1>2. \E n \in 1 .. 8 : Fits(n)
  BY <1>1
<1>3. VintSize(v) = CHOOSE n \in 1 .. 8 : Fits(n)
  BY DEF VintSize
<1>4. PICK n \in 1 .. 8 : Fits(n) /\ VintSize(v) = n
  BY <1>2, <1>3
<1>5. \A k \in 1 .. 8 : VintLimits[k] >= k
  BY <1>1
<1>6. n <= v + 1
  <2>1. CASE n = 1
    BY <2>1
  <2>2. CASE n # 1
    <3>1. n - 1 \in 1 .. 8 /\ v >= VintLimits[n - 1]
      BY <1>4, <2>2
    <3>2. VintLimits[n - 1] >= n - 1 /\ VintLimits[n - 1] \in Nat
      BY <1>1, <1>5, <3>1
    <3> QED
      BY <3>1, <3>2
  <2> QED
    BY <2>1, <2>2
<1> QED
  BY <1>4, <1>6

-----------------------------------------------------------------------------
(* Cursors. *)

IsCursor(c) ==
  /\ DOMAIN c.buffer \subseteq Nat
  /\ c.at \in Nat /\ c.size \in 0 .. SizeMax - 1 /\ c.offset \in 0 .. SizeMax - 1

\* Some byte is where it should be.
Holds(r, p, byte) == p \in DOMAIN r.buffer /\ r.buffer[p] = byte

\* From c to r, nothing is written outside the range, and what is in front of
\* the buffer pointer stays as it is.
Confined(c, r) ==
  /\ DOMAIN r.buffer \subseteq DOMAIN c.buffer \cup c.at .. c.at + c.size - 1
  /\ \A p \in DOMAIN c.buffer : p < c.at => Holds(r, p, c.buffer[p])

\* What Put does to the buffer.
LEMMA Putting ==
  ASSUME NEW c, IsCursor(c), NEW b, DOMAIN b \subseteq 0 .. c.size - 1
  PROVE  /\ IsCursor(Put(c, b)) /\ Confined(c, Put(c, b))
         /\ Put(c, b).at = c.at /\ Put(c, b).size = c.size /\ Put(c, b).offset = c.offset
         /\ \A i \in DOMAIN b : Holds(Put(c, b), c.at + i, b[i])
<1> DEFINE r == Put(c, b)
           S == DOMAIN c.buffer \cup {c.at + i : i \in DOMAIN b}
           f == [p \in S |-> IF p - c.at \in DOMAIN b THEN b[p - c.at] ELSE c.buffer[p]]
<1>1. /\ r.buffer = f /\ r.at = c.at /\ r.size = c.size /\ r.offset = c.offset
  BY DEF Put, Cursor
<1> HIDE DEF r
<1>2. DOMAIN f \subseteq DOMAIN c.buffer \cup c.at .. c.at + c.size - 1
  BY DEF IsCursor
<1>3. \A i \in DOMAIN b : c.at + i \in DOMAIN f /\ f[c.at + i] = b[i]
  <2> TAKE i \in DOMAIN b
  <2>1. c.at + i \in S /\ (c.at + i) - c.at = i
    BY DEF IsCursor
  <2> QED
    BY <2>1
<1>4. \A p \in DOMAIN c.buffer : p < c.at => p \in DOMAIN f /\ f[p] = c.buffer[p]
  <2> TAKE p \in DOMAIN c.buffer
  <2>1. p < c.at => p - c.at \notin DOMAIN b
    BY DEF IsCursor
  <2> QED
    BY <2>1
<1> HIDE DEF f
<1>5. IsCursor(r)
  BY <1>1, <1>2 DEF IsCursor
<1> QED
  BY <1>1, <1>2, <1>3, <1>4, <1>5 DEF Confined, Holds, r

\* What Advance does.
LEMMA Advancing ==
  ASSUME NEW c, IsCursor(c), NEW n \in 0 .. c.size
  PROVE  /\ IsCursor(Advance(c, n))
         /\ Advance(c, n).at = c.at + n /\ Advance(c, n).size = c.size - n
         /\ Advance(c, n).offset = c.offset /\ Advance(c, n).buffer = c.buffer
<1>1. c.size - n \in 0 .. SizeMax - 1
  BY Modulus DEF IsCursor
<1>2. Wrap(c.size - n) = c.size - n
  BY <1>1, Wrapping
<1> QED
  BY <1>1, <1>2 DEF IsCursor, Advance, Cursor

\* What Skip does, as long as the offset is not skipped.
LEMMA Skipping ==
  ASSUME NEW c, IsCursor(c), NEW n \in Nat
  PROVE  /\ IsCursor(Skip(c, n))
         /\ Skip(c, n).at = c.at /\ Skip(c, n).size = c.size /\ Skip(c, n).buffer = c.buffer
         /\ n <= c.offset => Skip(c, n).offset = c.offset - n
<1>1. c.offset - n \in Int /\ (n <= c.offset => c.offset - n \in 0 .. SizeMax - 1)
  BY Modulus DEF IsCursor
<1>2. /\ Wrap(c.offset - n) \in 0 .. SizeMax - 1
      /\ n <= c.offset => Wrap(c.offset - n) = c.offset - n
  BY <1>1, Wrapping
<1> QED
  BY <1>2 DEF IsCursor, Skip, Cursor

\* What Begin does.
LEMMA Beginning ==
  ASSUME NEW c, IsCursor(c)
  PROVE  /\ IsCursor(Begin(c)) /\ Begin(c).offset = 0
         /\ Begin(c).at = c.at /\ Begin(c).size = c.size /\ Begin(c).buffer = c.buffer
BY Modulus DEF IsCursor, Begin, Cursor

-----------------------------------------------------------------------------
(* What an output does with a cursor.                                        *)

\* How many of n bytes are wanted.
Amount(c, n) == IF c.offset < n THEN least(n - c.offset, c.size) ELSE 0

\* The part of n bytes is behind the cursor.
Moves(c, r, n) ==
  /\ IsCursor(r)
  /\ r.at = c.at + Amount(c, n) /\ r.size = c.size - Amount(c, n)
  /\ r.size > 0 => r.offset = IF c.offset < n THEN 0 ELSE c.offset - n

\* The range is not cut inside what cannot be cut in this part.
Clean(c, part) ==
  /\ c.offset = 0 \/ ~BadBegin(part[c.offset + 1])
  /\ \/ c.offset + Amount(c, Len(part)) = Len(part)
     \/ ~BadEnd(part[c.offset + Amount(c, Len(part))])

\* What is written of the part is right, as far as it can be.
BytesRight(c, r, part) ==
  \A i \in 0 .. Amount(c, Len(part)) - 1 :
    part[c.offset + i + 1][2] = "frame" \/ Clean(c, part) =>
      Holds(r, c.at + i, part[c.offset + i + 1])

\* The rows of an element lie in memory one right after the other.
Dense(e) == e.kind = "block" => \A p \in DOMAIN e.planes : e.planes[p].stride = e.planes[p].row

\* Those of all elements do.
NoPadding == \A f \in Files : \A k \in DOMAIN f.tree : Dense(f.tree[k])

\* The wanted bytes of the part have been written.
Writes(c, r, part) ==
  /\ r.at = c.at + Amount(c, Len(part))
  /\ Confined(c, r)
  /\ NoPadding => BytesRight(c, r, part)

\* What is wanted of a part is no more than what is wanted.
LEMMA Shares ==
  ASSUME NEW c, c.size \in Nat, c.offset \in Nat, NEW n \in Nat
  PROVE  Amount(c, n) \in 0 .. c.size
BY DEF Amount, least

\* What is wanted of two parts is what is wanted of each.
LEMMA Sharing ==
  ASSUME NEW c, c.size \in Nat, c.offset \in Nat,
         NEW m, m.size \in Nat, m.offset \in Nat, NEW k \in Nat, NEW l \in Nat,
         m.size = c.size - Amount(c, k),
         m.size > 0 => m.offset = IF c.offset < k THEN 0 ELSE c.offset - k
  PROVE  Amount(c, k + l) = Amount(c, k) + Amount(m, l)
<1>1. CASE c.offset < k /\ k - c.offset < c.size
  <2>1. Amount(c, k) = k - c.offset
    BY <1>1 DEF Amount, least
  <2>2. m.size = c.size - (k - c.offset) /\ m.offset = 0
    BY <1>1, <2>1
  <2> QED
    BY <1>1, <2>1, <2>2 DEF Amount, least
<1>2. CASE c.offset < k /\ ~(k - c.offset < c.size)
  <2>1. Amount(c, k) = c.size
    BY <1>2 DEF Amount, least
  <2>2. m.size = 0
    BY <2>1
  <2>3. Amount(m, l) = 0
    BY <2>2 DEF Amount, least
  <2>4. Amount(c, k + l) = c.size
    BY <1>2 DEF Amount, least
  <2> QED
    BY <2>1, <2>3, <2>4
<1>3. CASE ~(c.offset < k) /\ c.size > 0
  <2>1. Amount(c, k) = 0
    BY <1>3 DEF Amount
  <2>2. m.size = c.size /\ m.offset = c.offset - k
    BY <1>3, <2>1
  <2> QED
    BY <1>3, <2>1, <2>2 DEF Amount, least
<1>4. CASE c.size = 0
  <2>1. Amount(c, k) = 0 /\ Amount(c, k + l) = 0
    BY <1>4 DEF Amount, least
  <2>2. m.size = 0
    BY <1>4, <2>1
  <2>3. Amount(m, l) = 0
    BY <2>2 DEF Amount, least
  <2> QED
    BY <2>1, <2>3
<1> QED
  BY <1>1, <1>2, <1>3, <1>4

\* Two parts are behind the cursor when one after the other is.
LEMMA MovesBoth ==
  ASSUME NEW c, NEW m, NEW r, NEW k \in Nat, NEW l \in Nat,
         IsCursor(c), Moves(c, m, k), Moves(m, r, l)
  PROVE  Moves(c, r, k + l) /\ Amount(c, k + l) = Amount(c, k) + Amount(m, l)
<1>1. /\ c.at \in Nat /\ c.size \in Nat /\ c.offset \in Nat
      /\ m.at \in Nat /\ m.size \in Nat /\ m.offset \in Nat
      /\ r.at \in Nat /\ r.size \in Nat /\ r.offset \in Nat
  BY Modulus DEF IsCursor, Moves
<1>2. /\ m.at = c.at + Amount(c, k) /\ m.size = c.size - Amount(c, k)
      /\ m.size > 0 => m.offset = IF c.offset < k THEN 0 ELSE c.offset - k
      /\ r.at = m.at + Amount(m, l) /\ r.size = m.size - Amount(m, l)
      /\ r.size > 0 => r.offset = IF m.offset < l THEN 0 ELSE m.offset - l
  BY DEF Moves
<1>3. Amount(c, k + l) = Amount(c, k) + Amount(m, l)
  BY <1>1, <1>2, Sharing
<1>4. Amount(c, k) \in 0 .. c.size /\ Amount(m, l) \in 0 .. m.size
  BY <1>1, Shares
<1>5. r.at = c.at + Amount(c, k + l) /\ r.size = c.size - Amount(c, k + l)
  <2> DEFINE a == Amount(c, k)
             b == Amount(m, l)
  <2>1. /\ a \in 0 .. c.size /\ b \in 0 .. m.size
        /\ m.at = c.at + a /\ m.size = c.size - a
        /\ r.at = m.at + b /\ r.size = m.size - b
    BY <1>2, <1>4
  <2> HIDE DEF a, b
  <2>2. r.at = c.at + (a + b) /\ r.size = c.size - (a + b)
    BY <1>1, <2>1
  <2> QED
    BY <1>3, <2>2 DEF a, b
<1>6. r.size > 0 => r.offset = IF c.offset < k + l THEN 0 ELSE c.offset - (k + l)
  <2> SUFFICES ASSUME r.size > 0
               PROVE  r.offset = IF c.offset < k + l THEN 0 ELSE c.offset - (k + l)
    OBVIOUS
  <2>1. m.size > 0
    BY <1>1, <1>2, <1>4
  <2>2. CASE c.offset < k
    <3>1. m.offset = 0 /\ r.offset = IF 0 < l THEN 0 ELSE 0 - l
      BY <1>2, <2>1, <2>2
    <3> QED
      BY <1>1, <2>2, <3>1
  <2>3. CASE ~(c.offset < k)
    <3>1. m.offset = c.offset - k
      BY <1>2, <2>1, <2>3
    <3>2. r.offset = IF m.offset < l THEN 0 ELSE m.offset - l
      BY <1>2
    <3> QED
      BY <1>1, <2>3, <3>1, <3>2
  <2> QED
    BY <2>2, <2>3
<1> QED
  BY <1>3, <1>5, <1>6 DEF Moves

\* What is written into the rest of a range is written into the range.
LEMMA ConfinedBoth ==
  ASSUME NEW c, NEW m, NEW r, IsCursor(c), Confined(c, m), Confined(m, r),
         m.at \in Nat, m.size \in Nat, c.at <= m.at, m.at + m.size = c.at + c.size
  PROVE  Confined(c, r)
<1> DEFINE d == c.at
           z == c.size
           d2 == m.at
           z2 == m.size
<1>1. d \in Nat /\ z \in Nat /\ d2 \in Nat /\ z2 \in Nat /\ d <= d2 /\ d2 + z2 = d + z
  BY Modulus DEF IsCursor
<1> HIDE DEF d, z, d2, z2
<1>2. d2 .. d2 + z2 - 1 \subseteq d .. d + z - 1
  BY <1>1
<1>3. DOMAIN r.buffer \subseteq DOMAIN c.buffer \cup d .. d + z - 1
  BY <1>2 DEF Confined, d, d2, z, z2
<1>4. ASSUME NEW p \in DOMAIN c.buffer, p < d
      PROVE  Holds(r, p, c.buffer[p])
  <2>1. p \in DOMAIN m.buffer /\ m.buffer[p] = c.buffer[p]
    BY <1>4 DEF Confined, Holds, d
  <2>2. p \in Nat
    BY DEF IsCursor
  <2>3. p < d2
    BY <1>1, <1>4, <2>2
  <2> QED
    BY <2>1, <2>3 DEF Confined, d2
<1> QED
  BY <1>3, <1>4 DEF Confined, d, z

\* Two parts have been written when one has been behind the other.
LEMMA WritesBoth ==
  ASSUME NEW c, NEW m, NEW r, NEW s, NEW t, Sequence(s), Sequence(t),
         IsCursor(c), Moves(c, m, Len(s)), Writes(c, m, s), Writes(m, r, t)
  PROVE  Writes(c, r, s \o t)
<1> DEFINE k == Len(s)
           l == Len(t)
           u == s \o t
           a == Amount(c, k)
           b == Amount(m, l)
           o == c.offset
           z == c.size
           d == c.at
           o2 == m.offset
           z2 == m.size
           d2 == m.at
           e == r.at
<1>1. /\ k \in Nat /\ l \in Nat /\ Len(u) = k + l
      /\ \A i \in 1 .. k : u[i] = s[i]
      /\ \A i \in 1 .. l : u[k + i] = t[i]
  BY Concatenation
<1>2. o \in Nat /\ z \in Nat /\ d \in Nat /\ o2 \in Nat /\ z2 \in Nat /\ d2 \in Nat
  BY Modulus DEF IsCursor, Moves
<1>3. /\ d2 = d + a /\ z2 = z - a
      /\ z2 > 0 => o2 = IF o < k THEN 0 ELSE o - k
      /\ e = d2 + b
  BY DEF Moves, Writes
<1>4. /\ a = IF o < k THEN least(k - o, z) ELSE 0
      /\ b = IF o2 < l THEN least(l - o2, z2) ELSE 0
  BY DEF Amount
<1>5. Amount(c, k + l) = a + b
  BY <1>1, <1>2, <1>3, Sharing
<1> HIDE DEF k, l, u, a, b, o, z, d, o2, z2, d2, e
<1>6. a \in 0 .. z /\ b \in 0 .. z2 /\ a \in Nat /\ b \in Nat
  BY <1>1, <1>2, <1>4 DEF least
<1>7. Confined(c, r)
  <2>1. d <= d2 /\ d2 + z2 = d + z
    BY <1>2, <1>3, <1>6
  <2> QED
    BY <1>2, <2>1, ConfinedBoth DEF Writes, d, d2, z, z2
<1>8. ASSUME BytesRight(c, m, s), BytesRight(m, r, t)
      PROVE  BytesRight(c, r, u)
  <2> SUFFICES ASSUME NEW i \in 0 .. Amount(c, Len(u)) - 1,
                      u[o + i + 1][2] = "frame" \/ Clean(c, u)
               PROVE  Holds(r, d + i, u[o + i + 1])
    BY DEF BytesRight, o, d
  <2> DEFINE x == o + i + 1
             y == d + i
  <2>0. x \in Nat /\ y \in Nat /\ i \in Nat /\ i < a + b
    BY <1>1, <1>2, <1>5, <1>6
  <2>1. CASE i < a
    <3>1. o + a <= k /\ o + 1 \in 1 .. k /\ o + a \in 1 .. k
      BY <1>1, <1>2, <1>4, <1>6, <2>0, <2>1 DEF least
    <3>2. i \in 0 .. a - 1 /\ x \in 1 .. k /\ y < d2
      BY <1>1, <1>2, <1>3, <1>6, <2>0, <2>1, <3>1
    <3>3. u[x] = s[x] /\ u[o + 1] = s[o + 1] /\ u[o + a] = s[o + a]
      BY <1>1, <3>1, <3>2
    <3>4. ASSUME Clean(c, u)
          PROVE  Clean(c, s)
      <4>1. o = 0 \/ ~BadBegin(u[o + 1])
        BY <3>4 DEF Clean, o
      <4>2. o + (a + b) = k + l \/ ~BadEnd(u[o + (a + b)])
        BY <1>1, <1>5, <3>4 DEF Clean, o
      <4>3. o + a = k \/ ~BadEnd(s[o + a])
        <5>1. CASE o + a # k
          <6>1. a = z
            BY <1>1, <1>2, <1>4, <5>1, <2>0, <2>1, <1>6 DEF least
          <6>2. b = 0
            BY <1>2, <1>3, <1>6, <6>1
          <6>3. o + (a + b) = o + a /\ o + a # k + l
            BY <1>1, <1>2, <1>6, <3>1, <5>1, <6>2
          <6> QED
            BY <3>3, <4>2, <6>3
        <5> QED
          BY <5>1
      <4> QED
        BY <3>3, <4>1, <4>3 DEF Clean, a, k, o
    <3>5. Holds(m, y, s[x])
      BY <1>8, <3>2, <3>3, <3>4 DEF BytesRight, a, k, o, d
    <3>6. Holds(r, y, s[x])
      BY <3>2, <3>5 DEF Writes, Confined, Holds, d2
    <3> QED
      BY <3>3, <3>6
  <2>2. CASE i >= a
    <3> DEFINE j == i - a
    <3>1. j \in 0 .. b - 1 /\ j \in Nat /\ z2 > 0 /\ b > 0
      BY <1>2, <1>6, <2>0, <2>2
    <3>2. o2 + b <= l /\ o2 < l
      BY <1>1, <1>2, <1>4, <3>1 DEF least
    <3>3. o + a = k + o2
      BY <1>1, <1>2, <1>3, <1>4, <3>1 DEF least
    <3>4. y = d2 + j /\ x = k + (o2 + j + 1) /\ o2 + j + 1 \in 1 .. l
      BY <1>1, <1>2, <1>3, <1>6, <2>0, <3>1, <3>2, <3>3
    <3> HIDE DEF j, x, y
    <3>5. u[x] = t[o2 + j + 1]
      BY <1>1, <3>4
    <3>6. ASSUME Clean(c, u)
          PROVE  Clean(m, t)
      <4>1. o = 0 \/ ~BadBegin(u[o + 1])
        BY <3>6 DEF Clean, o
      <4>2. o + (a + b) = k + l \/ ~BadEnd(u[o + (a + b)])
        BY <1>1, <1>5, <3>6 DEF Clean, o
      <4>3. o2 + 1 \in 1 .. l /\ o2 + b \in 1 .. l
        BY <1>1, <1>2, <1>6, <3>1, <3>2
      <4>4. u[k + (o2 + 1)] = t[o2 + 1] /\ u[k + (o2 + b)] = t[o2 + b]
        BY <1>1, <4>3
      <4>5. o2 # 0 => o # 0 /\ o + 1 = k + (o2 + 1)
        BY <1>1, <1>2, <1>3, <3>1
      <4>6. o + (a + b) = k + (o2 + b) /\ (o2 + b = l <=> o + (a + b) = k + l)
        <5>1. o + (a + b) = (o + a) + b
          BY <1>2, <1>6
        <5>2. o + (a + b) = k + (o2 + b)
          BY <1>1, <1>2, <1>6, <3>3, <5>1
        <5> QED
          BY <1>1, <1>2, <1>6, <5>2
      <4>7. o2 = 0 \/ ~BadBegin(t[o2 + 1])
        BY <4>1, <4>4, <4>5
      <4>8. o2 + b = l \/ ~BadEnd(t[o2 + b])
        BY <4>2, <4>4, <4>6
      <4> QED
        BY <4>7, <4>8 DEF Clean, b, l, o2
    <3>7. Holds(r, d2 + j, t[o2 + j + 1])
      BY <1>8, <2>2, <3>1, <3>4, <3>5, <3>6 DEF BytesRight, b, l, x, o2, d2
    <3> QED
      BY <3>4, <3>5, <3>7 DEF x, y
  <2> QED
    BY <1>2, <1>6, <2>0, <2>1, <2>2
<1>9. e = d + Amount(c, Len(u))
  BY <1>1, <1>2, <1>3, <1>5, <1>6
<1> QED
  BY <1>7, <1>8, <1>9 DEF Writes, u, d, e

\* What is written into a part of the range and passed over.
LEMMA Emitting ==
  ASSUME NEW c, IsCursor(c), NEW b, DOMAIN b \subseteq 0 .. c.size - 1,
         NEW w \in 0 .. c.size,
         NEW r, r \in {Advance(Put(c, b), w), Begin(Advance(Put(c, b), w))}
  PROVE  /\ IsCursor(r) /\ Confined(c, r)
         /\ r.at = c.at + w /\ r.size = c.size - w
         /\ r = Begin(Advance(Put(c, b), w)) => r.offset = 0
         /\ \A i \in DOMAIN b : Holds(r, c.at + i, b[i])
<1> DEFINE q == Put(c, b)
           a == Advance(q, w)
<1>1. /\ IsCursor(q) /\ Confined(c, q)
      /\ q.at = c.at /\ q.size = c.size
      /\ \A i \in DOMAIN b : Holds(q, c.at + i, b[i])
  BY Putting
<1> HIDE DEF q
<1>2. w \in 0 .. q.size
  BY <1>1
<1>3. /\ IsCursor(a) /\ a.buffer = q.buffer
      /\ a.at = c.at + w /\ a.size = c.size - w
  BY <1>1, <1>2, Advancing
<1> HIDE DEF a
<1>4. /\ IsCursor(Begin(a)) /\ Begin(a).buffer = q.buffer /\ Begin(a).offset = 0
      /\ Begin(a).at = c.at + w /\ Begin(a).size = c.size - w
  BY <1>3, Beginning
<1>5. r \in {a, Begin(a)}
  BY DEF a, q
<1>6. /\ IsCursor(r) /\ r.buffer = q.buffer
      /\ r.at = c.at + w /\ r.size = c.size - w
  BY <1>3, <1>4, <1>5
<1>7. Confined(c, r) /\ \A i \in DOMAIN b : Holds(r, c.at + i, b[i])
  BY <1>1, <1>6 DEF Confined, Holds
<1> QED
  BY <1>4, <1>6, <1>7 DEF a, q

\* What is neither wanted nor has room is skipped.
LEMMA PassingBy ==
  ASSUME NEW c, IsCursor(c), NEW part, Sequence(part),
         ~(c.offset < Len(part) /\ c.size > 0)
  PROVE  Moves(c, Skip(c, Len(part)), Len(part)) /\ Writes(c, Skip(c, Len(part)), part)
<1> DEFINE n == Len(part)
           r == Skip(c, n)
<1>1. n \in Nat
  BY LenProperties DEF Sequence
<1>2. /\ c.at \in Nat /\ c.size \in Nat /\ c.offset \in Nat
  BY Modulus DEF IsCursor
<1>3. Amount(c, n) = 0
  BY <1>1, <1>2 DEF Amount, least
<1> HIDE DEF n
<1>4. /\ IsCursor(r)
      /\ r.at = c.at /\ r.size = c.size /\ r.buffer = c.buffer
      /\ n <= c.offset => r.offset = c.offset - n
  BY <1>1, Skipping
<1> HIDE DEF r
<1>5. Moves(c, r, n)
  BY <1>1, <1>2, <1>3, <1>4 DEF Moves, n
<1>6. Confined(c, r) /\ BytesRight(c, r, part)
  BY <1>3, <1>4 DEF Confined, Holds, BytesRight, n
<1> QED
  BY <1>2, <1>3, <1>4, <1>5, <1>6 DEF Writes, n, r

-----------------------------------------------------------------------------
(* The parts of an element. *)

\* The bytes of a part.
LEMMA Numbers ==
  ASSUME NEW e, NEW part, NEW n \in Nat
  PROVE  /\ Sequence(numbered(e, part, n)) /\ Len(numbered(e, part, n)) = n
         /\ \A i \in 1 .. n : numbered(e, part, n)[i] = <<e.name, part, i>>
<1> DEFINE f == numbered(e, part, n)
<1>1. f = [i \in 1 .. n |-> <<e.name, part, i>>]
  BY DEF numbered
<1> HIDE DEF f
<1>2. \A i \in 1 .. n : f[i] = <<e.name, part, i>>
  BY <1>1, Zenon
<1>3. f = [i \in 1 .. n |-> f[i]]
  BY <1>1, Zenon
<1>4. Sequence(f) /\ Len(f) = n
  BY <1>3, Tabulated
<1> QED
  BY <1>2, <1>4 DEF f

\* An ID or a length is written where it belongs, unless the range begins in it
\* and has not room for that many bytes.
LEMMA VintWritten ==
  ASSUME NEW c, IsCursor(c), NEW e, NEW part \in {"id", "length"}, NEW n \in 1 .. 8,
         c.offset = 0 \/ c.offset >= n \/ c.size >= n \/ c.size = 0
  PROVE  /\ Moves(c, outputVint(e, part, n, c), n)
         /\ Writes(c, outputVint(e, part, n, c), numbered(e, part, n))
<1> DEFINE bytes == numbered(e, part, n)
           r == outputVint(e, part, n, c)
           o == c.offset
           z == c.size
           size == least(n, Wrap(z - o))
           end == least(n, size + o)
           b == [i \in {0} \cup (o + 1 .. end - 1) |->
                   <<e.name, part, IF i = 0 THEN o + 1 ELSE i + 1>>]
           w == Amount(c, n)
<1>1. /\ Sequence(bytes) /\ Len(bytes) = n
      /\ \A i \in 1 .. n : bytes[i] = <<e.name, part, i>>
  BY Numbers
<1>2. o \in 0 .. SizeMax - 1 /\ z \in 0 .. SizeMax - 1 /\ o \in Nat /\ z \in Nat
  BY Modulus DEF IsCursor
<1>3. CASE o < n /\ z > 0
  <2>1. Wrap(z - o) = z - o
    <3>1. z - o \in 0 .. SizeMax - 1
      BY <1>2, <1>3, Modulus
    <3> QED
      BY <3>1, Wrapping
  <2>2. w = least(n - o, z)
    BY <1>3 DEF Amount
  <2> DEFINE v == vint(e.name, part, n, size, o)
  <2>3. size # 0 => v.bytes = b /\ v.written = end - o
    <3>1. size # 0 /\ ~(o >= n) => v = [bytes |-> b, written |-> end - o]
      BY Zenon DEF vint
    <3>2. ~(o >= n)
      BY <1>2, <1>3
    <3> QED
      BY <3>1, <3>2
  <2>a. r = Begin(Advance(Put(c, v.bytes), v.written))
    BY <1>3, Zenon DEF outputVint
  <2>b. o = 0 \/ z >= n
    BY <1>2, <1>3
  <2>c. z - o \in Nat /\ z - o > 0 /\ size = least(n, z - o) /\ end = least(n, size + o)
    BY <1>2, <1>3, <2>1, <2>b
  <2> HIDE DEF o, z, w, b, r, size, end, v
  <2>d. size \in Nat /\ size > 0 /\ end \in Nat /\ end <= z /\ o < end /\ end <= n
        /\ end - o = least(n - o, z)
    <3>1. CASE o = 0
      BY <1>2, <1>3, <2>c, <3>1 DEF least
    <3>2. CASE z >= n
      BY <1>2, <1>3, <2>c, <3>2 DEF least
    <3> QED
      BY <2>b, <3>1, <3>2
  <2>4. /\ size # 0 /\ end - o = w
        /\ w \in 0 .. z /\ {0} \cup (o + 1 .. end - 1) \subseteq 0 .. z - 1
        /\ o = 0 => end = w /\ w <= n
    BY <1>2, <1>3, <2>2, <2>d
  <2>5. DOMAIN b \subseteq 0 .. z - 1 /\ r = Begin(Advance(Put(c, b), w))
    BY <2>3, <2>4, <2>a DEF b
  <2>6. /\ IsCursor(r) /\ Confined(c, r)
        /\ r.at = c.at + w /\ r.size = c.size - w /\ r.offset = 0
        /\ \A i \in DOMAIN b : Holds(r, c.at + i, b[i])
    BY <2>4, <2>5, Emitting DEF z
  <2>7. Moves(c, r, n)
    BY <1>3, <2>6 DEF Moves, w, o
  <2>8. BytesRight(c, r, bytes)
    <3> SUFFICES ASSUME NEW i \in 0 .. w - 1,
                        bytes[o + i + 1][2] = "frame" \/ Clean(c, bytes)
                 PROVE  Holds(r, c.at + i, bytes[o + i + 1])
      BY <1>1 DEF BytesRight, w, o
    <3>1. o + i + 1 \in 1 .. n
      BY <1>2, <1>3, <2>2 DEF least
    <3>2. bytes[o + i + 1][2] # "frame"
      BY <1>1, <3>1
    <3>3. o = 0
      <4>1. o + 1 \in 1 .. n
        BY <1>2, <1>3
      <4>2. bytes[o + 1] = <<e.name, part, o + 1>>
        BY <1>1, <4>1
      <4>3. o = 0 \/ ~BadBegin(bytes[o + 1])
        BY <3>2 DEF Clean, o
      <4> QED
        BY <1>2, <4>2, <4>3 DEF BadBegin
    <3>4. i \in DOMAIN b /\ b[i] = <<e.name, part, i + 1>>
      BY <2>4, <3>3 DEF b
    <3> QED
      BY <1>1, <2>6, <3>1, <3>3, <3>4
  <2> QED
    BY <1>1, <2>6, <2>7, <2>8 DEF Writes, w, r
<1>4. CASE ~(o < n /\ z > 0)
  <2>1. r = Skip(c, Len(bytes))
    BY <1>1, <1>4 DEF outputVint
  <2>2. ~(c.offset < Len(bytes) /\ c.size > 0)
    BY <1>1, <1>4
  <2> HIDE DEF bytes, r
  <2>3. Moves(c, r, Len(bytes)) /\ Writes(c, r, bytes)
    BY <1>1, <2>1, <2>2, PassingBy
  <2> QED
    BY <1>1, <2>3 DEF bytes, r
<1> QED
  BY <1>3, <1>4

\* A range with n bytes left to its end begins here, has room for a vint of any
\* length, or reaches that end.
Safe(c, n) == c.size = 0 \/ c.offset = 0 \/ c.size >= 8 \/ c.offset + c.size >= n

\* It does so behind the first of them, too.
LEMMA SafeBehind ==
  ASSUME NEW c, NEW m, NEW k \in Nat, NEW l \in Nat,
         IsCursor(c), Moves(c, m, k), Safe(c, k + l)
  PROVE  Safe(m, l)
<1> DEFINE o == c.offset
           z == c.size
           o2 == m.offset
           z2 == m.size
           a == Amount(c, k)
<1>1. o \in Nat /\ z \in Nat /\ o2 \in Nat /\ z2 \in Nat
  BY Modulus DEF IsCursor, Moves
<1>2. z2 = z - a /\ (z2 > 0 => o2 = IF o < k THEN 0 ELSE o - k)
  BY DEF Moves
<1>3. a = IF o < k THEN least(k - o, z) ELSE 0
  BY DEF Amount
<1>4. z = 0 \/ o = 0 \/ z >= 8 \/ o + z >= k + l
  BY DEF Safe
<1> HIDE DEF o, z, o2, z2, a
<1>5. z2 = 0 \/ o2 = 0 \/ z2 >= 8 \/ o2 + z2 >= l
  <2>1. CASE o < k
    BY <1>1, <1>2, <2>1
  <2>2. CASE ~(o < k)
    BY <1>1, <1>2, <1>3, <1>4, <2>2
  <2> QED
    BY <2>1, <2>2
<1> QED
  BY <1>5 DEF Safe, o2, z2

\* The ID and the length of an element are written.
LEMMA HeadWritten ==
  ASSUME NEW e, e.id \in 1 .. 4, length(e) \in Nat, length(e) < VintLimits[8],
         NEW c, IsCursor(c), Safe(c, e.id + VintSize(length(e)) + length(e)),
         NeedsStart(e) /\ c.size > 0 => c.offset = 0
  PROVE  /\ Sequence(HeadBytes(e)) /\ Len(HeadBytes(e)) = e.id + VintSize(length(e))
         /\ Moves(c, outputHead(e, c), Len(HeadBytes(e)))
         /\ Writes(c, outputHead(e, c), HeadBytes(e))
<1> DEFINE l == length(e)
           v == VintSize(l)
           k == e.id
           s == numbered(e, "id", k)
           t == numbered(e, "length", v)
           m == outputVint(e, "id", k, c)
           r == outputVint(e, "length", v, m)
<1>1. HeadBytes(e) = s \o t /\ outputHead(e, c) = r
  BY DEF HeadBytes, outputHead
<1>2. l \in Nat /\ v \in 1 .. 8 /\ v <= l + 1
  BY VintWidth
<1>3. /\ k \in 1 .. 4 /\ Safe(c, k + v + l)
      /\ k - 2 <= l \/ (c.size > 0 => c.offset = 0)
  BY <1>2 DEF NeedsStart
<1> HIDE DEF l, v, k
<1>4. Sequence(s) /\ Len(s) = k /\ Sequence(t) /\ Len(t) = v
  BY <1>2, <1>3, Numbers
<1>5. Moves(c, m, k) /\ Writes(c, m, s)
  <2>1. c.offset \in Nat /\ c.size \in Nat
    BY Modulus DEF IsCursor
  <2>2. c.offset = 0 \/ c.offset >= k \/ c.size >= k \/ c.size = 0
    BY <1>2, <1>3, <2>1 DEF Safe
  <2>3. k \in 1 .. 8
    BY <1>3
  <2> QED
    BY <2>2, <2>3, VintWritten
<1> HIDE DEF m
<1>6. IsCursor(m)
  BY <1>5 DEF Moves
<1>7. Safe(m, v + l)
  <2>1. k + v + l = k + (v + l) /\ k \in Nat /\ v + l \in Nat
    BY <1>2, <1>3
  <2>2. Safe(c, k + (v + l))
    BY <1>3, <2>1
  <2> QED
    BY <1>5, <2>1, <2>2, SafeBehind
<1>8. Moves(m, r, v) /\ Writes(m, r, t)
  <2>1. m.offset \in Nat /\ m.size \in Nat
    BY <1>6, Modulus DEF IsCursor
  <2>2. m.offset = 0 \/ m.offset >= v \/ m.size >= v \/ m.size = 0
    BY <1>2, <1>7, <2>1 DEF Safe
  <2> QED
    BY <1>2, <1>6, <2>2, VintWritten
<1> HIDE DEF r, s, t
<1>9. k \in Nat /\ v \in Nat
  BY <1>2, <1>3
<1>10. Moves(c, r, k + v)
  BY <1>5, <1>8, <1>9, MovesBoth
<1>11. Sequence(s \o t) /\ Len(s \o t) = k + v
  BY <1>4, Concatenation
<1>12. Writes(c, r, s \o t)
  BY <1>4, <1>5, <1>8, WritesBoth
<1> QED
  BY <1>1, <1>10, <1>11, <1>12 DEF k, v, l

-----------------------------------------------------------------------------
(* The content of a leaf is asked for up to its end at most. *)

\* When nothing is wanted, nothing needs to be done.
LEMMA NothingWanted ==
  ASSUME NEW c, IsCursor(c), c.size = 0, NEW part, Sequence(part)
  PROVE  Moves(c, c, Len(part)) /\ Writes(c, c, part)
<1> DEFINE n == Len(part)
<1>1. n \in Nat
  BY LenProperties DEF Sequence
<1>2. c.at \in Nat /\ c.offset \in Nat
  BY Modulus DEF IsCursor
<1>3. Amount(c, n) = 0
  BY <1>1, <1>2 DEF Amount, least
<1> HIDE DEF n
<1>4. c.at = c.at + Amount(c, n) /\ c.size = c.size - Amount(c, n)
  BY <1>2, <1>3
<1>5. Confined(c, c) /\ BytesRight(c, c, part)
  BY <1>3 DEF Confined, Holds, BytesRight, n
<1> QED
  BY <1>4, <1>5 DEF Moves, Writes, n

\* The bytes of an integer, which say how many there are.
ValueBytes(e) == [i \in 1 .. e.n |-> <<e.name, "value", i, e.n>>]

LEMMA ValueNumbers ==
  ASSUME NEW e, e.n \in Nat
  PROVE  /\ Sequence(ValueBytes(e)) /\ Len(ValueBytes(e)) = e.n
         /\ \A i \in 1 .. e.n : ValueBytes(e)[i] = <<e.name, "value", i, e.n>>
<1> DEFINE f == ValueBytes(e)
           n == e.n
<1>1. f = [i \in 1 .. n |-> <<e.name, "value", i, n>>]
  BY DEF ValueBytes
<1>2. n \in Nat
  OBVIOUS
<1> HIDE DEF f, n
<1>3. \A i \in 1 .. n : f[i] = <<e.name, "value", i, n>>
  BY <1>1, Zenon
<1>4. f = [i \in 1 .. n |-> f[i]]
  BY <1>1, Zenon
<1>5. Sequence(f) /\ Len(f) = n
  BY <1>2, <1>4, Tabulated
<1> QED
  BY <1>3, <1>5 DEF f, n

\* An integer is written, unless the range ends in it.
LEMMA IntegerWritten ==
  ASSUME NEW e, e.n \in 1 .. 8,
         NEW c, IsCursor(c), c.size > 0 => c.offset + c.size <= e.n
  PROVE  Writes(c, outputInteger(e, c), ValueBytes(e))
<1> DEFINE n == e.n
           part == ValueBytes(e)
           r == outputInteger(e, c)
           o == c.offset
           z == c.size
           b == [i \in 0 .. z - 1 |-> <<e.name, "value", n - z + i + 1, n>>]
<1>1. /\ Sequence(part) /\ Len(part) = n
      /\ \A i \in 1 .. n : part[i] = <<e.name, "value", i, n>>
  BY ValueNumbers
<1>2. o \in Nat /\ z \in Nat /\ n \in Nat /\ n > 0
  BY Modulus DEF IsCursor
<1>3. CASE z = 0
  <2>1. r = c
    BY <1>3 DEF outputInteger
  <2> HIDE DEF r, part
  <2> QED
    BY <1>1, <1>3, <2>1, NothingWanted DEF part, r
<1>4. CASE z # 0
  <2>1. z > 0 /\ o + z <= n /\ o < n
    BY <1>2, <1>4
  <2>2. least(z, n) = z
    BY <1>2, <2>1 DEF least
  <2>3. r = Advance(Put(c, b), z)
    BY <2>1, <2>2, Zenon DEF outputInteger
  <2>4. Amount(c, n) = z
    BY <1>2, <2>1 DEF Amount, least
  <2>5. DOMAIN b = 0 .. z - 1 /\ \A i \in 0 .. z - 1 : b[i] = <<e.name, "value", n - z + i + 1, n>>
    OBVIOUS
  <2> HIDE DEF n, part, r, b, z, o
  <2>6. z \in 0 .. c.size
    BY <1>2 DEF z
  <2>7. /\ Confined(c, r) /\ r.at = c.at + z
        /\ \A i \in DOMAIN b : Holds(r, c.at + i, b[i])
    BY <2>3, <2>5, <2>6, Emitting DEF z
  <2>8. ASSUME NEW i \in 0 .. z - 1, part[o + i + 1][2] = "frame" \/ Clean(c, part)
        PROVE  Holds(r, c.at + i, part[o + i + 1])
    <3>1. o + i + 1 \in 1 .. n /\ o + z \in 1 .. n
      BY <1>2, <2>1
    <3>2. part[o + i + 1] = <<e.name, "value", o + i + 1, n>>
          /\ part[o + z] = <<e.name, "value", o + z, n>>
      BY <1>1, <3>1
    <3>3. o + z = n \/ ~BadEnd(part[o + z])
      BY <1>1, <2>4, <2>8, <3>2 DEF Clean, o
    <3>4. o + z = n
      BY <1>2, <3>1, <3>2, <3>3 DEF BadEnd
    <3>5. n - z + i + 1 = o + i + 1
      BY <1>2, <3>4
    <3> QED
      BY <2>5, <2>7, <3>2, <3>5
  <2>9. BytesRight(c, r, part)
    BY <1>1, <2>4, <2>8 DEF BytesRight, o
  <2> QED
    BY <1>1, <2>4, <2>7, <2>9 DEF Writes, part, r, n
<1> QED
  BY <1>3, <1>4

\* A float is written when the range does not begin in it.
LEMMA FloatingWritten ==
  ASSUME NEW e, e.n = 4,
         NEW c, IsCursor(c), c.size > 0 => c.offset + c.size <= e.n /\ c.offset = 0
  PROVE  Writes(c, outputFloating(e, c), numbered(e, "float", e.n))
<1> DEFINE part == numbered(e, "float", 4)
           r == outputFloating(e, c)
           z == c.size
           b == [i \in 0 .. z - 1 |-> <<e.name, "float", i + 1>>]
<1>1. /\ Sequence(part) /\ Len(part) = 4
      /\ \A i \in 1 .. 4 : part[i] = <<e.name, "float", i>>
  <2>1. 4 \in Nat
    OBVIOUS
  <2> QED
    BY <2>1, Numbers, Zenon
<1>2. z \in Nat
  BY Modulus DEF IsCursor
<1>3. CASE z = 0
  <2>1. r = c
    BY <1>3 DEF outputFloating
  <2> HIDE DEF r, part
  <2> QED
    BY <1>1, <1>3, <2>1, NothingWanted DEF part, r
<1>4. CASE z # 0
  <2>1. z > 0 /\ z <= 4 /\ c.offset = 0
    BY <1>2, <1>4
  <2>2. least(z, 4) = z
    BY <1>2, <2>1 DEF least
  <2>3. r = Advance(Put(c, b), z)
    <3>1. c.offset < 4
      BY <2>1
    <3> QED
      BY <2>1, <2>2, <3>1, Zenon DEF outputFloating
  <2>4. Amount(c, 4) = z
    BY <1>2, <2>1 DEF Amount, least
  <2>5. DOMAIN b = 0 .. z - 1 /\ \A i \in 0 .. z - 1 : b[i] = <<e.name, "float", i + 1>>
    OBVIOUS
  <2> HIDE DEF part, r, b, z
  <2>6. z \in 0 .. c.size
    BY <1>2 DEF z
  <2>7. /\ Confined(c, r) /\ r.at = c.at + z
        /\ \A i \in DOMAIN b : Holds(r, c.at + i, b[i])
    BY <2>3, <2>5, <2>6, Emitting DEF z
  <2>8. ASSUME NEW i \in 0 .. z - 1
        PROVE  Holds(r, c.at + i, part[0 + i + 1])
    <3>1. i + 1 \in 1 .. 4 /\ 0 + i + 1 = i + 1
      BY <1>2, <2>1
    <3> QED
      BY <1>1, <2>5, <2>7, <3>1
  <2>9. BytesRight(c, r, part)
    BY <1>1, <2>1, <2>4, <2>8 DEF BytesRight
  <2> QED
    BY <1>1, <2>4, <2>7, <2>9 DEF Writes, part, r
<1> QED
  BY <1>3, <1>4

\* A string is written when the range does not begin in it.
LEMMA StringWritten ==
  ASSUME NEW e, e.n \in Nat,
         NEW c, IsCursor(c), c.size > 0 => c.offset + c.size <= e.n /\ c.offset = 0
  PROVE  Writes(c, outputString(e, c), numbered(e, "string", e.n))
<1> DEFINE n == e.n
           part == numbered(e, "string", n)
           r == outputString(e, c)
           z == c.size
           b == [i \in 0 .. z - 1 |-> <<e.name, "string", i + 1>>]
<1>1. /\ Sequence(part) /\ Len(part) = n
      /\ \A i \in 1 .. n : part[i] = <<e.name, "string", i>>
  BY Numbers
<1>2. z \in Nat /\ n \in Nat
  BY Modulus DEF IsCursor
<1>3. CASE z = 0
  <2>1. r = c
    BY <1>3 DEF outputString
  <2> HIDE DEF r, part
  <2> QED
    BY <1>1, <1>3, <2>1, NothingWanted DEF part, r
<1>4. CASE z # 0
  <2>1. z > 0 /\ z <= n /\ c.offset = 0 /\ 0 < n
    BY <1>2, <1>4
  <2>2. least(c.offset + z, n) = z
    BY <1>2, <2>1 DEF least
  <2>3. r = Advance(Put(c, b), z)
    <3>1. c.offset < n /\ c.size > 0
      BY <2>1
    <3>2. r = Advance(Put(c, [i \in c.offset .. z - 1 |-> <<e.name, "string", i + 1>>]), z)
      BY <2>2, <3>1, Zenon DEF outputString
    <3> QED
      BY <2>1, <3>2, Zenon
  <2>4. Amount(c, n) = z
    BY <1>2, <2>1 DEF Amount, least
  <2>5. DOMAIN b = 0 .. z - 1 /\ \A i \in 0 .. z - 1 : b[i] = <<e.name, "string", i + 1>>
    OBVIOUS
  <2> HIDE DEF part, r, b, z, n
  <2>6. z \in 0 .. c.size
    BY <1>2 DEF z
  <2>7. /\ Confined(c, r) /\ r.at = c.at + z
        /\ \A i \in DOMAIN b : Holds(r, c.at + i, b[i])
    BY <2>3, <2>5, <2>6, Emitting DEF z
  <2>8. ASSUME NEW i \in 0 .. z - 1
        PROVE  Holds(r, c.at + i, part[0 + i + 1])
    <3>1. i + 1 \in 1 .. n /\ 0 + i + 1 = i + 1
      BY <1>2, <2>1
    <3> QED
      BY <1>1, <2>5, <2>7, <3>1
  <2>9. BytesRight(c, r, part)
    BY <1>1, <2>1, <2>4, <2>8 DEF BytesRight
  <2> QED
    BY <1>1, <2>4, <2>7, <2>9 DEF Writes, part, r, n
<1> QED
  BY <1>3, <1>4

\* The header of a block is written when the range does not begin in it.
LEMMA BlockHeaderWritten ==
  ASSUME NEW e, NEW c, IsCursor(c)
  PROVE  /\ Moves(c, outputBlockHeader(e, c), 4)
         /\ Writes(c, outputBlockHeader(e, c), numbered(e, "header", 4))
<1> DEFINE part == numbered(e, "header", 4)
           r == outputBlockHeader(e, c)
           o == c.offset
           w == least(4 - o, c.size)
           b == [i \in 0 .. w - 1 |-> <<e.name, "header", i + 1>>]
<1>1. /\ Sequence(part) /\ Len(part) = 4
      /\ \A i \in 1 .. 4 : part[i] = <<e.name, "header", i>>
  <2>1. 4 \in Nat
    OBVIOUS
  <2> QED
    BY <2>1, Numbers, Zenon
<1>2. o \in Nat /\ c.size \in Nat
  BY Modulus DEF IsCursor
<1>3. CASE o < 4
  <2>1. Amount(c, 4) = w
    BY <1>3 DEF Amount
  <2>2. r = Begin(Advance(Put(c, b), w))
    BY <1>3, Zenon DEF outputBlockHeader
  <2>3. w \in 0 .. c.size /\ w <= 4 - o
    BY <1>2, <1>3 DEF least
  <2>4. DOMAIN b = 0 .. w - 1 /\ \A i \in 0 .. w - 1 : b[i] = <<e.name, "header", i + 1>>
    OBVIOUS
  <2> HIDE DEF part, r, b, w
  <2>5. DOMAIN b \subseteq 0 .. c.size - 1
    BY <1>2, <2>3, <2>4
  <2>6. /\ IsCursor(r) /\ Confined(c, r) /\ r.at = c.at + w
        /\ r.size = c.size - w /\ r.offset = 0
        /\ \A i \in DOMAIN b : Holds(r, c.at + i, b[i])
    BY <2>2, <2>3, <2>5, Emitting
  <2>7. Moves(c, r, 4)
    BY <1>3, <2>1, <2>6 DEF Moves
  <2>8. ASSUME NEW i \in 0 .. w - 1, part[o + i + 1][2] = "frame" \/ Clean(c, part)
        PROVE  Holds(r, c.at + i, part[o + i + 1])
    <3>1. o + i + 1 \in 1 .. 4 /\ o + 1 \in 1 .. 4
      BY <1>2, <1>3, <2>3
    <3>2. /\ part[o + i + 1] = <<e.name, "header", o + i + 1>>
          /\ part[o + 1] = <<e.name, "header", o + 1>>
      BY <1>1, <3>1
    <3>3. o = 0 \/ ~BadBegin(part[o + 1])
      BY <2>8, <3>2 DEF Clean, o
    <3>4. o = 0
      BY <1>2, <3>2, <3>3 DEF BadBegin
    <3>5. o + i + 1 = i + 1
      BY <3>4, <2>3
    <3> QED
      BY <2>4, <2>6, <3>2, <3>5
  <2>9. BytesRight(c, r, part)
    BY <1>1, <2>1, <2>8 DEF BytesRight, o
  <2> QED
    BY <1>1, <2>1, <2>6, <2>7, <2>9 DEF Writes, part, r
<1>4. CASE ~(o < 4)
  <2>1. r = Skip(c, 4)
    BY <1>4 DEF outputBlockHeader
  <2>2. ~(c.offset < Len(part) /\ c.size > 0)
    BY <1>1, <1>4
  <2> HIDE DEF part, r
  <2> QED
    BY <1>1, <2>1, <2>2, PassingBy DEF part, r
<1> QED
  BY <1>3, <1>4

-----------------------------------------------------------------------------
(* The planes of a frame. *)

IsPlane(plane) ==
  /\ plane.row \in Nat \ {0} /\ plane.height \in Nat
  /\ plane.stride \in Nat /\ plane.stride >= plane.row

\* The bytes of a plane, row by row.
LEMMA PlaneNumbers ==
  ASSUME NEW e, NEW p, IsPlane(e.planes[p])
  PROVE  /\ PlaneSize(e.planes[p]) \in Nat
         /\ Sequence(PlaneBytes(e, p)) /\ Len(PlaneBytes(e, p)) = PlaneSize(e.planes[p])
         /\ \A i \in 1 .. PlaneSize(e.planes[p]) : PlaneBytes(e, p)[i][2] = "frame"
<1> DEFINE n == PlaneSize(e.planes[p])
           row == e.planes[p].row
           f == PlaneBytes(e, p)
<1>1. n \in Nat
  BY ProductInNat DEF IsPlane, PlaneSize
<1>2. f = [i \in 1 .. n |-> <<e.name, "frame", p, (i - 1) \div row, (i - 1) % row>>]
  BY DEF PlaneBytes
<1> HIDE DEF n, f, row
<1>3. \A i \in 1 .. n : f[i] = <<e.name, "frame", p, (i - 1) \div row, (i - 1) % row>>
  BY <1>2, Zenon
<1>4. f = [i \in 1 .. n |-> f[i]]
  BY <1>2, Zenon
<1>5. Sequence(f) /\ Len(f) = n
  BY <1>1, <1>4, Tabulated
<1> QED
  BY <1>1, <1>3, <1>5 DEF n, f

\* Without padding, an address is a number in the plane.
LEMMA MemoryOfPlane ==
  ASSUME NEW e, NEW p, IsPlane(e.planes[p]), e.planes[p].stride = e.planes[p].row,
         NEW a \in 0 .. PlaneSize(e.planes[p]) - 1
  PROVE  Memory(e, p, a) = PlaneBytes(e, p)[a + 1]
<1> DEFINE n == PlaneSize(e.planes[p])
           row == e.planes[p].row
<1>1. n \in Nat /\ row \in Nat \ {0}
  BY PlaneNumbers DEF IsPlane
<1>2. PlaneBytes(e, p) =
        [i \in 1 .. n |-> <<e.name, "frame", p, (i - 1) \div row, (i - 1) % row>>]
  BY DEF PlaneBytes
<1>3. Memory(e, p, a) = IF a % row < row THEN <<e.name, "frame", p, a \div row, a % row>>
                                         ELSE <<e.name, "padding">>
  BY Zenon DEF Memory
<1> HIDE DEF n, row
<1>4. a \in Nat /\ a + 1 \in 1 .. n /\ (a + 1) - 1 = a
  BY <1>1 DEF n
<1>5. a % row < row
  BY <1>1, <1>4, Z3
<1>6. PlaneBytes(e, p)[a + 1] =
        <<e.name, "frame", p, ((a + 1) - 1) \div row, ((a + 1) - 1) % row>>
  BY <1>2, <1>4, Zenon
<1> QED
  BY <1>3, <1>4, <1>5, <1>6

\* d bytes have been copied of the plane p that c0 asks for; the next row begins
\* q bytes into the plane.
Copied(c0, e, p, c, q, d) ==
  /\ IsCursor(c.cur) /\ d \in 0 .. c0.size
  /\ c.cur.at = c0.at + d /\ c.cur.size = c0.size - d
  /\ c.row_offset \in 0 .. e.planes[p].row - 1
  /\ c.cur.size > 0 => c0.offset + d = q + c.row_offset
  /\ Confined(c0, c.cur)
  /\ e.planes[p].stride = e.planes[p].row =>
       /\ c.ptr = c0.offset + d
       /\ \A i \in 0 .. d - 1 : Holds(c.cur, c0.at + i, PlaneBytes(e, p)[c0.offset + i + 1])

\* All rows in front of the next one have been copied as far as they are wanted.
Complete(c0, c, q, d) == c.row_offset = 0 /\ c.cur.offset = 0 /\ c0.offset + d <= q

\* A round of the loop over rows copies a row.
LEMMA RowCopied ==
  ASSUME NEW c0, IsCursor(c0), NEW e, NEW p, IsPlane(e.planes[p]), NEW c, NEW y,
         NEW q \in Nat, NEW d, Copied(c0, e, p, c, q, d),
         q + e.planes[p].row <= PlaneSize(e.planes[p]),
         c.cur.size > 0 \/ Complete(c0, c, q, d)
  PROVE  \E d2 : /\ Copied(c0, e, p, CopyRow(e, p, c, y), q + e.planes[p].row, d2)
                 /\ Complete(c0, CopyRow(e, p, c, y), q + e.planes[p].row, d2)
<1> DEFINE row == e.planes[p].row
           stride == e.planes[p].stride
           o == c0.offset
           at0 == c0.at
           z0 == c0.size
           z == c.cur.size
           ro == c.row_offset
           n == least(row - ro, z)
           new == CopyRow(e, p, c, y)
           b == [i \in 0 .. n - 1 |-> Memory(e, p, c.ptr + i)]
           r == Begin(Advance(Put(c.cur, b), n))
           size == PlaneSize(e.planes[p])
           bytes == PlaneBytes(e, p)
           d2 == d + n
           k == c.cur.at
<1>1. /\ row \in Nat \ {0} /\ stride \in Nat /\ stride >= row
      /\ o \in Nat /\ at0 \in Nat /\ z0 \in Nat /\ z \in Nat /\ d \in Nat /\ ro \in Nat
      /\ ro < row /\ d <= z0 /\ z = z0 - d /\ k = at0 + d
      /\ z > 0 => o + d = q + ro
  BY Modulus DEF IsCursor, IsPlane, Copied
<1>2. size \in Nat /\ q + row <= size
  BY PlaneNumbers
<1>3. CASE z > 0
  <2>1. new = [cur |-> r, ptr |-> c.ptr + least(stride, n), row_offset |-> 0]
    BY <1>3, Zenon DEF CopyRow
  <2>2. DOMAIN b = 0 .. n - 1 /\ \A i \in 0 .. n - 1 : b[i] = Memory(e, p, c.ptr + i)
    OBVIOUS
  <2>a. stride = row /\ IsPlane(e.planes[p]) =>
          \A i \in 0 .. size - 1 : Memory(e, p, i) = bytes[i + 1]
    BY MemoryOfPlane
  <2>b. stride = row => /\ c.ptr = o + d
                        /\ \A i \in 0 .. d - 1 : Holds(c.cur, at0 + i, bytes[o + i + 1])
    BY DEF Copied
  <2>c. /\ c.cur.at = k /\ c.cur.size = z
    OBVIOUS
  <2>3. n \in Nat /\ n <= row - ro /\ n <= z /\ (n = row - ro \/ n = z) /\ n <= row
    BY <1>1 DEF least
  <2> HIDE DEF row, stride, o, at0, z0, z, ro, n, b, r, size, bytes, k, new
  <2>4. DOMAIN b \subseteq 0 .. c.cur.size - 1 /\ n \in 0 .. c.cur.size
    BY <1>1, <2>2, <2>3, <2>c
  <2>5. IsCursor(c.cur) /\ Confined(c0, c.cur)
    BY DEF Copied
  <2>6. /\ IsCursor(r) /\ Confined(c.cur, r) /\ r.at = k + n /\ r.size = z - n
        /\ r.offset = 0
        /\ \A i \in DOMAIN b : Holds(r, k + i, b[i])
    <3> DEFINE w == c.cur
    <3>1. IsCursor(w) /\ r = Begin(Advance(Put(w, b), n))
          /\ DOMAIN b \subseteq 0 .. w.size - 1 /\ n \in 0 .. w.size
      BY <2>4, <2>5 DEF r
    <3> HIDE DEF w
    <3>2. /\ IsCursor(r) /\ Confined(w, r) /\ r.at = w.at + n /\ r.size = w.size - n
          /\ r.offset = 0
          /\ \A i \in DOMAIN b : Holds(r, w.at + i, b[i])
      BY <3>1, Emitting
    <3> QED
      BY <3>2, <2>c DEF w
  <2>7. new.cur = r /\ new.ptr = c.ptr + least(stride, n) /\ new.row_offset = 0
    BY <2>1
  <2>8. d2 \in 0 .. z0 /\ r.at = at0 + d2 /\ r.size = z0 - d2 /\ o + d2 <= q + row
        /\ (r.size > 0 => o + d2 = q + row)
    <3>1. d2 \in 0 .. z0 /\ k + n = at0 + d2 /\ z - n = z0 - d2 /\ o + d2 <= q + row
          /\ (z - n > 0 => o + d2 = q + row)
      BY <1>1, <1>3, <2>3
    <3> QED
      BY <2>6, <3>1
  <2>9. Confined(c0, r)
    <3>1. at0 <= k /\ k + z = at0 + z0
      BY <1>1
    <3>2. c.cur.at \in Nat /\ c.cur.size \in Nat
      BY <1>1, <2>c
    <3>3. c0.at <= c.cur.at /\ c.cur.at + c.cur.size = c0.at + c0.size
      BY <3>1, <2>c DEF at0, z0
    <3> QED
      BY <2>5, <2>6, <3>2, <3>3, ConfinedBoth
  <2>10. ASSUME stride = row
         PROVE  /\ new.ptr = o + d2
                /\ \A i \in 0 .. d2 - 1 : Holds(r, at0 + i, bytes[o + i + 1])
    <3>1. least(stride, n) = n
      BY <1>1, <2>3, <2>10 DEF least
    <3>2. new.ptr = o + d2
      BY <1>1, <2>3, <2>7, <2>b, <2>10, <3>1
    <3>3. ASSUME NEW i \in 0 .. d - 1
          PROVE  Holds(r, at0 + i, bytes[o + i + 1])
      <4>1. Holds(c.cur, at0 + i, bytes[o + i + 1])
        BY <2>b, <2>10
      <4>2. at0 + i < k
        BY <1>1
      <4> QED
        BY <2>6, <2>c, <4>1, <4>2 DEF Confined, Holds
    <3>4. ASSUME NEW j \in 0 .. n - 1
          PROVE  Holds(r, k + j, bytes[o + d + j + 1])
      <4>1. Holds(r, k + j, Memory(e, p, c.ptr + j))
        BY <2>2, <2>6
      <4>2. c.ptr + j = o + d + j /\ o + d + j \in 0 .. size - 1
        BY <1>1, <1>2, <1>3, <2>3, <2>b, <2>10
      <4>3. Memory(e, p, o + d + j) = bytes[o + d + j + 1]
        BY <2>10, <2>a, <4>2 DEF IsPlane
      <4> QED
        BY <4>1, <4>2, <4>3
    <3>5. ASSUME NEW i \in 0 .. d2 - 1
          PROVE  Holds(r, at0 + i, bytes[o + i + 1])
      <4>1. CASE i < d
        <5>1. i \in 0 .. d - 1
          BY <1>1, <4>1
        <5> QED
          BY <3>3, <5>1
      <4>2. CASE ~(i < d)
        <5>1. i - d \in 0 .. n - 1 /\ k + (i - d) = at0 + i
              /\ o + d + (i - d) + 1 = o + i + 1
          BY <1>1, <2>3, <4>2
        <5>2. Holds(r, k + (i - d), bytes[o + d + (i - d) + 1])
          BY <3>4, <5>1
        <5> QED
          BY <5>1, <5>2
      <4> QED
        BY <4>1, <4>2
    <3> QED
      BY <3>2, <3>5
  <2> HIDE DEF d2
  <2>11. 0 \in 0 .. row - 1
    BY <1>1
  <2>12. q + row + 0 = q + row
    BY <1>1
  <2>13. Copied(c0, e, p, new, q + row, d2)
    BY <2>6, <2>7, <2>8, <2>9, <2>10, <2>11, <2>12
    DEF Copied, o, at0, z0, row, stride, bytes
  <2>14. Complete(c0, new, q + row, d2)
    BY <2>6, <2>7, <2>8 DEF Complete, o
  <2> QED
    BY <2>13, <2>14 DEF new, row
<1>4. CASE ~(z > 0)
  <2>1. new = c
    BY <1>4, Zenon DEF CopyRow
  <2>2. Complete(c0, c, q, d)
    BY <1>4
  <2>3. Copied(c0, e, p, c, q + row, d)
    BY <1>4 DEF Copied
  <2>4. c.row_offset = 0 /\ c.cur.offset = 0 /\ o + d <= q
    BY <2>2 DEF Complete
  <2> HIDE DEF new, o, row
  <2>5. o + d <= q + row
    BY <1>1, <2>4
  <2>6. Complete(c0, c, q + row, d)
    BY <2>4, <2>5 DEF Complete, o
  <2> QED
    BY <2>1, <2>3, <2>6 DEF new, row
<1> QED
  BY <1>3, <1>4

\* f holds the state of the loop over rows in front of every row up to h.
CopiesRows(f, e, p, first, start_row, h) ==
  f = [y \in start_row .. h |->
         IF y = start_row THEN first ELSE CopyRow(e, p, f[y - 1], y - 1)]

\* The loop over rows comes to its end.
LEMMA RowsStep ==
  ASSUME NEW e, NEW p, NEW first, NEW start_row \in Nat,
         NEW h \in Nat, h = e.planes[p].height, start_row <= h
  PROVE  \E f : /\ f[start_row] = first /\ CopyRows(e, p, first, start_row) = f[h]
                /\ \A y \in start_row + 1 .. h : f[y] = CopyRow(e, p, f[y - 1], y - 1)
<1> DEFINE Loop(f, k) == CopiesRows(f, e, p, first, start_row, k)
           l == h - start_row
           T == {m \in Nat : \E f : Loop(f, start_row + m)}
<1>1. 0 \in T
  <2>1. Loop([y \in start_row .. start_row + 0 |-> first], start_row + 0)
    BY DEF CopiesRows
  <2> QED
    BY <2>1
<1>2. l \in Nat /\ h = start_row + l
  OBVIOUS
<1> HIDE DEF l
<1>3. ASSUME NEW m \in 1 .. l, m - 1 \in T
      PROVE  m \in T
  <2>1. PICK g : Loop(g, start_row + (m - 1))
    BY <1>3
  <2> DEFINE k == start_row + m
             g2 == [y \in start_row .. k |->
                      IF y = k THEN CopyRow(e, p, g[k - 1], k - 1) ELSE g[y]]
  <2>2. k \in Nat /\ k > start_row /\ start_row + (m - 1) = k - 1 /\ m \in Nat
    BY <1>2
  <2> HIDE DEF k
  <2>3. g = [y \in start_row .. k - 1 |->
               IF y = start_row THEN first ELSE CopyRow(e, p, g[y - 1], y - 1)]
    BY <2>1, <2>2 DEF CopiesRows
  <2>4. \A y \in start_row .. k :
          g2[y] = IF y = start_row THEN first ELSE CopyRow(e, p, g2[y - 1], y - 1)
    <3> TAKE y \in start_row .. k
    <3>1. CASE y = k
      <4>1. y # start_row /\ k - 1 \in start_row .. k /\ k - 1 # k
        BY <2>2, <3>1
      <4>2. g2[k - 1] = g[k - 1] /\ g2[y] = CopyRow(e, p, g[k - 1], k - 1)
        BY <3>1, <4>1
      <4> QED
        BY <3>1, <4>1, <4>2, Zenon
    <3>2. CASE y # k
      <4>1. y \in start_row .. k - 1 /\ g2[y] = g[y]
        BY <2>2, <3>2
      <4>2. g[y] = IF y = start_row THEN first ELSE CopyRow(e, p, g[y - 1], y - 1)
        BY <2>3, <4>1, Zenon
      <4>3. y # start_row => y - 1 \in start_row .. k /\ y - 1 # k
        BY <2>2, <4>1
      <4>4. y # start_row => g2[y - 1] = g[y - 1]
        BY <4>3
      <4> HIDE DEF g2
      <4> QED
        BY <4>1, <4>2, <4>4, Zenon
    <3> QED
      BY <3>1, <3>2
  <2>5. g2 = [y \in start_row .. k |-> g2[y]]
    OBVIOUS
  <2> HIDE DEF g2
  <2>6. g2 = [y \in start_row .. k |->
                IF y = start_row THEN first ELSE CopyRow(e, p, g2[y - 1], y - 1)]
    BY <2>4, <2>5, Zenon
  <2>7. Loop(g2, start_row + m)
    BY <2>6, Zenon DEF CopiesRows, k
  <2> QED
    BY <2>2, <2>7
<1>4. l \in T
  <2> HIDE DEF T
  <2> QED
    BY <1>1, <1>2, <1>3, NumberInduction
<1>5. \E f : CopiesRows(f, e, p, first, start_row, h)
  BY <1>2, <1>4
<1> DEFINE f == CHOOSE f : CopiesRows(f, e, p, first, start_row, h)
<1>6. CopiesRows(f, e, p, first, start_row, h)
  BY <1>5
<1>7. CopyRows(e, p, first, start_row) = f[h]
  BY Zenon DEF CopyRows, CopiesRows
<1> HIDE DEF f
<1>8. f = [y \in start_row .. h |->
             IF y = start_row THEN first ELSE CopyRow(e, p, f[y - 1], y - 1)]
  BY <1>6, Zenon DEF CopiesRows
<1>9. f[start_row] = first
  <2>1. start_row \in start_row .. h
    OBVIOUS
  <2> QED
    BY <1>8, <2>1, Zenon
<1>10. ASSUME NEW y \in start_row + 1 .. h
       PROVE  f[y] = CopyRow(e, p, f[y - 1], y - 1)
  <2>1. y \in start_row .. h /\ y # start_row
    OBVIOUS
  <2> QED
    BY <1>8, <2>1, Zenon
<1> QED
  BY <1>7, <1>9, <1>10

\* A plane is written.
LEMMA PlaneWritten ==
  ASSUME NEW e, NEW p, IsPlane(e.planes[p]),
         NoPadding => e.planes[p].stride = e.planes[p].row,
         NEW c, IsCursor(c)
  PROVE  /\ Moves(c, CopyPlane(e, c, p), PlaneSize(e.planes[p]))
         /\ Writes(c, CopyPlane(e, c, p), PlaneBytes(e, p))
<1> DEFINE row == e.planes[p].row
           stride == e.planes[p].stride
           h == e.planes[p].height
           size == PlaneSize(e.planes[p])
           bytes == PlaneBytes(e, p)
           o == c.offset
           z == c.size
           start_row == o \div row
           ro == o % row
           first == [cur |-> c, ptr |-> stride * start_row + ro, row_offset |-> ro]
           r == CopyPlane(e, c, p)
<1>1. /\ row \in Nat \ {0} /\ h \in Nat /\ stride \in Nat /\ o \in Nat /\ z \in Nat
      /\ c.at \in Nat /\ size \in Nat /\ size = row * h
  BY PlaneNumbers, Modulus DEF IsPlane, IsCursor, PlaneSize
<1>2. Sequence(bytes) /\ Len(bytes) = size
  BY PlaneNumbers
<1>3. CASE z = 0
  <2>1. r = c
    BY <1>3 DEF CopyPlane
  <2> HIDE DEF r, bytes, size
  <2> QED
    BY <1>2, <1>3, <2>1, NothingWanted DEF r, bytes, size
<1>4. CASE z # 0 /\ ~(o < size)
  <2>1. r = Skip(c, size)
    BY <1>4, Zenon DEF CopyPlane
  <2>2. ~(c.offset < Len(bytes) /\ c.size > 0)
    BY <1>2, <1>4
  <2> HIDE DEF r, bytes, size
  <2> QED
    BY <1>2, <2>1, <2>2, PassingBy DEF r, bytes, size
<1>5. CASE z # 0 /\ o < size
  <2>1. r = CopyRows(e, p, first, start_row).cur
    BY <1>5, Zenon DEF CopyPlane
  <2>2. start_row \in Nat /\ ro \in 0 .. row - 1 /\ o = row * start_row + ro
    <3> HIDE DEF row, o
    <3> QED
      BY <1>1, Z3
  <2>3. first.cur = c /\ first.ptr = stride * start_row + ro /\ first.row_offset = ro
    OBVIOUS
  <2> HIDE DEF row, stride, size, bytes, o, z, start_row, ro, first, r
  <2>4. start_row < h
    <3>1. row * start_row \in Nat /\ row * h \in Nat
      BY <1>1, <2>2, ProductInNat
    <3>2. row * start_row < row * h
      BY <1>1, <1>5, <2>2, <3>1
    <3> QED
      BY <1>1, <2>2, <3>2, FactorLess
  <2>5. PICK f : /\ f[start_row] = first /\ CopyRows(e, p, first, start_row) = f[h]
                 /\ \A y \in start_row + 1 .. h : f[y] = CopyRow(e, p, f[y - 1], y - 1)
    BY <1>1, <2>2, <2>4, RowsStep
  <2> HIDE DEF h
  <2> DEFINE l == h - start_row
             State(k, d) ==
               /\ Copied(c, e, p, f[start_row + k], row * (start_row + k), d)
               /\ k = 0 \/ Complete(c, f[start_row + k], row * (start_row + k), d)
             T == {k \in Nat : \E d : State(k, d)}
  <2>6. 0 \in T
    <3>1. IsCursor(first.cur) /\ 0 \in 0 .. c.size
          /\ first.cur.at = c.at + 0 /\ first.cur.size = c.size - 0
      BY <1>1, <2>3 DEF z
    <3>2. first.row_offset \in 0 .. e.planes[p].row - 1
      BY <2>2, <2>3 DEF row
    <3>3. c.offset + 0 = row * start_row + first.row_offset
      BY <1>1, <2>2, <2>3 DEF o
    <3>4. Confined(c, first.cur)
      BY <2>3 DEF Confined, Holds
    <3>5. e.planes[p].stride = e.planes[p].row => first.ptr = c.offset + 0
      BY <1>1, <2>2, <2>3 DEF row, stride, o
    <3>6. Copied(c, e, p, first, row * start_row, 0)
      BY <3>1, <3>2, <3>3, <3>4, <3>5 DEF Copied
    <3>7. start_row + 0 = start_row
      BY <2>2
    <3>8. State(0, 0)
      BY <2>5, <3>6, <3>7
    <3> QED
      BY <3>8
  <2>7. ASSUME NEW k \in 1 .. l, k - 1 \in T
        PROVE  k \in T
    <3> DEFINE y == start_row + (k - 1)
               q == row * y
    <3>1. PICK d : Copied(c, e, p, f[y], q, d)
                   /\ (k - 1 = 0 \/ Complete(c, f[y], q, d))
      BY <2>7
    <3>2. /\ y \in Nat /\ y + 1 = start_row + k /\ y + 1 \in start_row + 1 .. h
          /\ (y + 1) - 1 = y /\ y + 1 \in Nat /\ y + 1 <= h /\ k \in Nat
          /\ k - 1 = 0 => y = start_row
      BY <1>1, <2>2
    <3> HIDE DEF y
    <3>3. f[y + 1] = CopyRow(e, p, f[y], y)
      BY <2>5, <3>2
    <3>4. q \in Nat /\ row * (y + 1) = q + row /\ q + row <= size
      <4>1. q \in Nat /\ row * (y + 1) = q + row
        BY <1>1, <3>2, ProductInNat
      <4>2. (y + 1) * row <= h * row
        BY <1>1, <3>2, ProductMonotone
      <4>3. (y + 1) * row = row * (y + 1) /\ h * row = size
        BY <1>1, <3>2
      <4> QED
        BY <4>1, <4>2, <4>3
    <3> HIDE DEF q
    <3>5. f[y].cur.size > 0 \/ Complete(c, f[y], q, d)
      <4>1. CASE k - 1 = 0
        <5>1. f[y] = first
          BY <2>5, <3>2, <4>1
        <5> QED
          BY <1>1, <1>5, <2>3, <5>1 DEF z
      <4> QED
        BY <3>1, <4>1
    <3> DEFINE g == f[y]
    <3>6. Copied(c, e, p, g, q, d) /\ (g.cur.size > 0 \/ Complete(c, g, q, d))
          /\ q + e.planes[p].row <= PlaneSize(e.planes[p])
      BY <3>1, <3>4, <3>5 DEF row, size
    <3> HIDE DEF g
    <3>7. \E d2 : /\ Copied(c, e, p, CopyRow(e, p, g, y), q + row, d2)
                  /\ Complete(c, CopyRow(e, p, g, y), q + row, d2)
      BY <3>4, <3>6, RowCopied DEF row
    <3>8. \E d2 : State(k, d2)
      BY <3>2, <3>3, <3>4, <3>7 DEF g
    <3> QED
      BY <3>2, <3>8
  <2>8. l \in T /\ start_row + l = h /\ l # 0
    <3>1. l \in Nat /\ start_row + l = h /\ l # 0
      BY <1>1, <2>2, <2>4
    <3> HIDE DEF T, l
    <3>2. l \in T
      BY <2>6, <2>7, <3>1, NumberInduction
    <3> QED
      BY <3>1, <3>2
  <2>9. PICK d : Copied(c, e, p, f[h], row * h, d) /\ Complete(c, f[h], row * h, d)
    BY <2>8
  <2>10. r = f[h].cur
    BY <2>1, <2>5
  <2>11. /\ IsCursor(r) /\ d \in 0 .. z /\ r.at = c.at + d /\ r.size = z - d
         /\ r.size > 0 => o + d = size
         /\ o + d <= size /\ r.offset = 0 /\ Confined(c, r)
    <3>1. /\ IsCursor(r) /\ d \in 0 .. c.size /\ r.at = c.at + d /\ r.size = c.size - d
          /\ r.size > 0 => c.offset + d = row * h + f[h].row_offset
          /\ Confined(c, r)
      BY <2>9, <2>10, Zenon DEF Copied
    <3>2. f[h].row_offset = 0 /\ r.offset = 0 /\ c.offset + d <= row * h
      BY <2>9, <2>10, Zenon DEF Complete
    <3>3. row * h = size /\ size + 0 = size
      BY <1>1
    <3> QED
      BY <3>1, <3>2, <3>3 DEF o, z
  <2>12. Amount(c, size) = d
    <3>1. d = least(size - o, z)
      BY <1>1, <2>11 DEF least
    <3> QED
      BY <1>5, <3>1 DEF Amount, o, z
  <2>13. Moves(c, r, size)
    BY <1>5, <2>11, <2>12 DEF Moves, o, z
  <2>14. NoPadding => \A i \in 0 .. d - 1 : Holds(r, c.at + i, bytes[c.offset + i + 1])
    <3>1. e.planes[p].stride = e.planes[p].row =>
            \A i \in 0 .. d - 1 : Holds(r, c.at + i, bytes[c.offset + i + 1])
      BY <2>9, <2>10, Zenon DEF Copied, bytes
    <3> QED
      BY <3>1
  <2>15. NoPadding => BytesRight(c, r, bytes)
    BY <1>2, <2>12, <2>14 DEF BytesRight
  <2>16. Writes(c, r, bytes)
    BY <1>2, <2>11, <2>12, <2>15 DEF Writes
  <2> QED
    BY <2>13, <2>16 DEF r, size, bytes
<1> QED
  BY <1>3, <1>4, <1>5

-----------------------------------------------------------------------------
(* Parts in a row. *)

\* What is done for one part after the other is done for all of them.
LEMMA PartsWritten ==
  ASSUME NEW c, IsCursor(c), NEW s, Len(s) \in Nat,
         \A i \in 1 .. Len(s) : Sequence(s[i]),
         NEW g, g[0] = c,
         ASSUME NEW n \in 1 .. Len(s), Moves(c, g[n - 1], Len(joins(s)[n - 1]))
         PROVE  Moves(g[n - 1], g[n], Len(s[n])) /\ Writes(g[n - 1], g[n], s[n])
  PROVE  /\ Sequence(joined(s))
         /\ Moves(c, g[Len(s)], Len(joined(s))) /\ Writes(c, g[Len(s)], joined(s))
<1> DEFINE l == Len(s)
           j == joins(s)
           T == {n \in 0 .. l : Sequence(j[n]) /\ Moves(c, g[n], Len(j[n])) /\ Writes(c, g[n], j[n])}
<1>1. l \in Nat /\ j[0] = <<>> /\ \A n \in 1 .. l : j[n] = j[n - 1] \o s[n]
  BY JoinsStep
<1>2. \A n \in 1 .. l : Sequence(s[n])
  OBVIOUS
<1>3. ASSUME NEW n \in 1 .. l, Moves(c, g[n - 1], Len(j[n - 1]))
      PROVE  Moves(g[n - 1], g[n], Len(s[n])) /\ Writes(g[n - 1], g[n], s[n])
  BY <1>3
<1> HIDE DEF l, j
<1>4. 0 \in T
  <2>1. Sequence(<<>>) /\ Len(<<>>) = 0
    BY DEF Sequence
  <2>2. /\ c.at \in Nat /\ c.size \in Nat /\ c.offset \in Nat
    BY Modulus DEF IsCursor
  <2>3. Amount(c, 0) = 0
    BY <2>2 DEF Amount
  <2>4. Moves(c, c, 0)
    BY <2>2, <2>3 DEF Moves
  <2>5. Writes(c, c, <<>>)
    BY <2>1, <2>2, <2>3 DEF Writes, Confined, Holds, BytesRight
  <2> QED
    BY <1>1, <2>1, <2>4, <2>5
<1>5. ASSUME NEW n \in 1 .. l, n - 1 \in T
      PROVE  n \in T
  <2> DEFINE a == j[n - 1]
             m == g[n - 1]
             r == g[n]
             t == s[n]
  <2>1. Sequence(a) /\ Moves(c, m, Len(a)) /\ Writes(c, m, a)
    BY <1>5
  <2>2. Moves(m, r, Len(t)) /\ Writes(m, r, t)
    BY <1>3, <2>1
  <2>3. j[n] = a \o t /\ Sequence(t)
    BY <1>1, <1>2
  <2> HIDE DEF a, m, t, r
  <2>4. /\ Sequence(a \o t) /\ Len(a) \in Nat /\ Len(t) \in Nat
        /\ Len(a \o t) = Len(a) + Len(t)
    BY <2>1, <2>3, Concatenation
  <2>5. Moves(c, r, Len(a \o t))
    BY <2>1, <2>2, <2>4, MovesBoth
  <2>6. Writes(c, r, a \o t)
    BY <2>1, <2>2, <2>3, WritesBoth
  <2>7. n \in 0 .. l
    BY <1>1
  <2> QED
    BY <2>3, <2>4, <2>5, <2>6, <2>7 DEF r
<1>6. l \in T
  <2> HIDE DEF T
  <2> QED
    BY <1>1, <1>4, <1>5, NumberInduction
<1> QED
  BY <1>6 DEF l, j, joined

\* f holds the cursor behind every plane up to the m-th.
CopiesPlanes(f, e, cur, m) ==
  f = [p \in 0 .. m |-> IF p = 0 THEN cur ELSE CopyPlane(e, f[p - 1], p)]

\* The loop over planes comes to its end.
LEMMA PlanesStep ==
  ASSUME NEW e, NEW cur, NEW l \in Nat, l = Len(e.planes)
  PROVE  \E f : /\ f[0] = cur /\ outputFrame(e, cur) = f[l]
                /\ \A p \in 1 .. l : f[p] = CopyPlane(e, f[p - 1], p)
<1> DEFINE T == {m \in Nat : \E f : CopiesPlanes(f, e, cur, m)}
<1>1. 0 \in T
  <2>1. CopiesPlanes([p \in 0 .. 0 |-> cur], e, cur, 0)
    BY DEF CopiesPlanes
  <2> QED
    BY <2>1
<1>2. ASSUME NEW m \in 1 .. l, m - 1 \in T
      PROVE  m \in T
  <2>1. PICK g : CopiesPlanes(g, e, cur, m - 1)
    BY <1>2
  <2> DEFINE h == [p \in 0 .. m |-> IF p = m THEN CopyPlane(e, g[m - 1], m) ELSE g[p]]
  <2>2. \A p \in 0 .. m : h[p] = IF p = 0 THEN cur ELSE CopyPlane(e, h[p - 1], p)
    <3> TAKE p \in 0 .. m
    <3>1. CASE p = m
      <4>1. p # 0 /\ m - 1 \in 0 .. m /\ m - 1 # m
        BY <3>1
      <4>2. h[m - 1] = g[m - 1] /\ h[p] = CopyPlane(e, g[m - 1], m)
        BY <3>1, <4>1
      <4> QED
        BY <3>1, <4>1, <4>2, Zenon
    <3>2. CASE p # m
      <4>1. p \in 0 .. m - 1 /\ h[p] = g[p]
        BY <3>2
      <4>2. g[p] = IF p = 0 THEN cur ELSE CopyPlane(e, g[p - 1], p)
        BY <2>1, <4>1, Zenon DEF CopiesPlanes
      <4>3. p # 0 => p - 1 \in 0 .. m /\ p - 1 # m
        BY <4>1
      <4>4. p # 0 => h[p - 1] = g[p - 1]
        BY <4>3
      <4> HIDE DEF h
      <4> QED
        BY <4>1, <4>2, <4>4, Zenon
    <3> QED
      BY <3>1, <3>2
  <2>3. h = [p \in 0 .. m |-> h[p]]
    OBVIOUS
  <2> HIDE DEF h
  <2>4. CopiesPlanes(h, e, cur, m)
    BY <2>2, <2>3, Zenon DEF CopiesPlanes
  <2> QED
    BY <2>4
<1>3. l \in T
  <2> HIDE DEF T
  <2> QED
    BY <1>1, <1>2, NumberInduction
<1> DEFINE f == CHOOSE f : CopiesPlanes(f, e, cur, l)
<1>4. CopiesPlanes(f, e, cur, l)
  BY <1>3
<1>5. outputFrame(e, cur) = f[l]
  BY Zenon DEF outputFrame, CopiesPlanes
<1> HIDE DEF f
<1>6. f = [p \in 0 .. l |-> IF p = 0 THEN cur ELSE CopyPlane(e, f[p - 1], p)]
  BY <1>4, Zenon DEF CopiesPlanes
<1>7. f[0] = cur
  <2>1. 0 \in 0 .. l
    OBVIOUS
  <2> QED
    BY <1>6, <2>1, Zenon
<1>8. ASSUME NEW p \in 1 .. l
      PROVE  f[p] = CopyPlane(e, f[p - 1], p)
  <2>1. p \in 0 .. l /\ p # 0
    OBVIOUS
  <2> QED
    BY <1>6, <2>1, Zenon
<1> QED
  BY <1>5, <1>7, <1>8

-----------------------------------------------------------------------------
(* Leaves. *)

\* The planes of a frame, one after the other.
Pixels(e) == joined([p \in DOMAIN e.planes |-> PlaneBytes(e, p)])

\* The sizes of planes.
PlaneSizes(e) == [p \in DOMAIN e.planes |-> PlaneSize(e.planes[p])]
PlaneParts(e) == [p \in DOMAIN e.planes |-> PlaneBytes(e, p)]

\* A frame is as long as its planes.
LEMMA FrameLength ==
  ASSUME NEW e, IsFrame(e.planes)
  PROVE  /\ FrameSize(e.planes) \in Nat
         /\ Sequence(Pixels(e)) /\ Len(Pixels(e)) = FrameSize(e.planes)
         /\ Len(PlaneParts(e)) = Len(e.planes)
         /\ \A p \in 1 .. Len(e.planes) :
              /\ PlaneParts(e)[p] = PlaneBytes(e, p)
              /\ Sequence(PlaneBytes(e, p)) /\ Len(PlaneBytes(e, p)) = PlaneSize(e.planes[p])
<1> DEFINE ps == e.planes
           l == Len(ps)
           s == PlaneParts(e)
           k == PlaneSizes(e)
<1>1. l \in Nat /\ DOMAIN ps = 1 .. l /\ \A p \in 1 .. l : IsPlane(ps[p])
  BY DEF IsFrame, IsSequence, IsPlane
<1>2. Pixels(e) = joined(s) /\ FrameSize(ps) = total(k)
  BY Zenon DEF Pixels, PlaneParts, PlaneSizes, FrameSize
<1>a. /\ s = [p \in 1 .. l |-> PlaneBytes(e, p)]
      /\ k = [p \in 1 .. l |-> PlaneSize(ps[p])]
  BY <1>1, Zenon DEF PlaneParts, PlaneSizes
<1> HIDE DEF l, s, k
<1>3. /\ \A p \in 1 .. l : s[p] = PlaneBytes(e, p) /\ k[p] = PlaneSize(ps[p])
      /\ s = [p \in 1 .. l |-> s[p]] /\ k = [p \in 1 .. l |-> k[p]]
  BY <1>a, Zenon
<1>4. Len(s) = l /\ Len(k) = l
  BY <1>1, <1>3, Tabulated
<1>5. \A p \in 1 .. l : /\ k[p] \in Nat /\ Sequence(s[p]) /\ Len(s[p]) = k[p]
  BY <1>1, <1>3, PlaneNumbers
<1>6. k \in Seq(Nat)
  <2>1. k \in [1 .. l -> Nat]
    BY <1>3, <1>5
  <2> QED
    BY <1>1, <2>1, SeqDef
<1>7. total(k) \in Nat
  BY <1>6, TotalInNat
<1>8. Sequence(joined(s)) /\ Len(joined(s)) = total(k)
  <2>1. l \in 0 .. l
    BY <1>1
  <2>2. \A n \in 0 .. Len(s) : Sequence(joins(s)[n]) /\ Len(joins(s)[n]) = sums(k)[n]
    BY <1>1, <1>4, <1>5, JoinsLength
  <2> QED
    BY <1>4, <2>1, <2>2 DEF joined, total
<1> QED
  BY <1>2, <1>3, <1>4, <1>5, <1>7, <1>8, Zenon DEF l, s

\* A frame is written.
LEMMA FrameWritten ==
  ASSUME NEW e, IsFrame(e.planes),
         NoPadding => \A p \in DOMAIN e.planes : e.planes[p].stride = e.planes[p].row,
         NEW c, IsCursor(c)
  PROVE  Writes(c, outputFrame(e, c), Pixels(e))
<1> DEFINE ps == e.planes
           l == Len(ps)
           s == PlaneParts(e)
<1>1. l \in Nat /\ DOMAIN ps = 1 .. l /\ \A p \in 1 .. l : IsPlane(ps[p])
  BY DEF IsFrame, IsSequence, IsPlane
<1>2. NoPadding => \A p \in 1 .. l : ps[p].stride = ps[p].row
  BY <1>1
<1>3. l = Len(e.planes)
  OBVIOUS
<1>4. Pixels(e) = joined(s)
  BY Zenon DEF Pixels, PlaneParts
<1>5. /\ Len(s) = l
      /\ \A p \in 1 .. l : /\ s[p] = PlaneBytes(e, p) /\ Sequence(s[p])
                           /\ Len(s[p]) = PlaneSize(ps[p])
  <2>1. /\ Len(PlaneParts(e)) = Len(e.planes)
        /\ \A p \in 1 .. Len(e.planes) :
              /\ PlaneParts(e)[p] = PlaneBytes(e, p)
              /\ Sequence(PlaneBytes(e, p)) /\ Len(PlaneBytes(e, p)) = PlaneSize(e.planes[p])
    BY FrameLength
  <2> QED
    BY <2>1
<1> HIDE DEF l, s
<1>6. PICK g : /\ g[0] = c /\ outputFrame(e, c) = g[l]
               /\ \A p \in 1 .. l : g[p] = CopyPlane(e, g[p - 1], p)
  BY <1>1, <1>3, PlanesStep
<1>7. ASSUME NEW n \in 1 .. Len(s), Moves(c, g[n - 1], Len(joins(s)[n - 1]))
      PROVE  Moves(g[n - 1], g[n], Len(s[n])) /\ Writes(g[n - 1], g[n], s[n])
  <2> DEFINE m == g[n - 1]
  <2>1. n \in 1 .. l /\ g[n] = CopyPlane(e, m, n)
    BY <1>5, <1>6
  <2>2. IsCursor(m)
    BY <1>7 DEF Moves
  <2>3. IsPlane(ps[n]) /\ (NoPadding => ps[n].stride = ps[n].row)
    BY <1>1, <1>2, <2>1
  <2> HIDE DEF m
  <2>4. /\ Moves(m, CopyPlane(e, m, n), PlaneSize(ps[n]))
        /\ Writes(m, CopyPlane(e, m, n), PlaneBytes(e, n))
    BY <2>2, <2>3, PlaneWritten
  <2>5. s[n] = PlaneBytes(e, n) /\ Len(s[n]) = PlaneSize(ps[n])
    BY <1>5, <2>1
  <2> QED
    BY <2>1, <2>4, <2>5 DEF m
<1>8. \A i \in 1 .. Len(s) : Sequence(s[i])
  BY <1>5
<1>9. Len(s) \in Nat
  BY <1>1, <1>5
<1>10. Writes(c, g[Len(s)], joined(s))
  BY <1>6, <1>7, <1>8, <1>9, PartsWritten
<1> QED
  BY <1>4, <1>5, <1>6, <1>10

\* What a leaf consists of.
LEMMA LeafParts ==
  ASSUME NEW e, IsLeaf(e)
  PROVE  length(e) \in Nat /\ Sequence(Body(e)) /\ Len(Body(e)) = length(e)
<1>1. CASE e.kind = "integer" /\ e.n \in 1 .. 8
  <2>1. length(e) = e.n /\ e.n \in Nat
    BY <1>1 DEF length
  <2>2. Body(e) = ValueBytes(e)
    BY <1>1 DEF Body, ValueBytes
  <2> QED
    BY <2>1, <2>2, ValueNumbers
<1>2. CASE e.kind = "floating" /\ e.n = 4
  <2>1. length(e) = e.n /\ e.n \in Nat
    BY <1>2 DEF length
  <2>2. Body(e) = numbered(e, "float", e.n)
    BY <1>2 DEF Body
  <2> QED
    BY <2>1, <2>2, Numbers
<1>3. CASE e.kind = "string" /\ e.n \in Nat
  <2>1. length(e) = e.n
    BY <1>3 DEF length
  <2>2. Body(e) = numbered(e, "string", e.n)
    BY <1>3 DEF Body
  <2> QED
    BY <1>3, <2>1, <2>2, Numbers
<1>4. CASE e.kind = "block" /\ IsFrame(e.planes)
  <2>1. length(e) = 4 + FrameSize(e.planes)
    BY <1>4 DEF length
  <2> DEFINE header == numbered(e, "header", 4)
             pixels == Pixels(e)
  <2>2. Body(e) = header \o pixels
    BY <1>4 DEF Body, Pixels
  <2>3. FrameSize(e.planes) \in Nat /\ Sequence(pixels) /\ Len(pixels) = FrameSize(e.planes)
    BY <1>4, FrameLength
  <2>4. Sequence(header) /\ Len(header) = 4
    <3>1. 4 \in Nat
      OBVIOUS
    <3> QED
      BY <3>1, Numbers, Zenon
  <2> HIDE DEF header, pixels
  <2>5. Sequence(header \o pixels) /\ Len(header \o pixels) = Len(header) + Len(pixels)
    BY <2>3, <2>4, Concatenation
  <2>6. Sequence(Body(e)) /\ Len(Body(e)) = 4 + FrameSize(e.planes)
    BY <2>2, <2>3, <2>4, <2>5, Zenon
  <2> QED
    BY <2>1, <2>3, <2>6
<1> QED
  BY <1>1, <1>2, <1>3, <1>4 DEF IsLeaf

\* An element whose ID and length can be written.
Encodable(e) ==
  e.id \in 1 .. 4 /\ length(e) \in Nat /\ length(e) < VintLimits[8]

\* What is wanted of a leaf is written.
LEMMA LeafWritten ==
  ASSUME NEW e, IsLeaf(e), Encodable(e), NoPadding => Dense(e),
         NEW c, IsCursor(c), Safe(c, getSize(e)),
         c.size > 0 => c.offset + c.size <= getSize(e),
         NeedsStart(e) /\ c.size > 0 => c.offset = 0
  PROVE  /\ Sequence(HeadBytes(e) \o Body(e)) /\ Len(HeadBytes(e) \o Body(e)) = getSize(e)
         /\ getSize(e) \in Nat
         /\ Writes(c, outputLeaf(e, c), HeadBytes(e) \o Body(e))
<1> DEFINE n == length(e)
           v == VintSize(n)
           k == e.id + v
           head == HeadBytes(e)
           body == Body(e)
           m == outputHead(e, c)
           r == outputLeaf(e, c)
<1>1. n \in Nat /\ Sequence(body) /\ Len(body) = n /\ getSize(e) = k + n
  BY LeafParts DEF getSize
<1>2. e.id \in 1 .. 4 /\ n < VintLimits[8]
  BY DEF Encodable
<1>3. v \in 1 .. 8
  BY <1>1, <1>2, VintWidth
<1>4. Sequence(head) /\ Len(head) = k /\ Moves(c, m, k) /\ Writes(c, m, head)
  BY <1>1, <1>2, HeadWritten
<1>5. k \in Nat /\ k > 0
  BY <1>2, <1>3
<1>6. Sequence(head \o body) /\ Len(head \o body) = k + n
  BY <1>1, <1>4, Concatenation
<1>7. CASE c.size = 0
  <2>1. r = c
    BY <1>7, Zenon DEF outputLeaf
  <2> HIDE DEF head, body, r, k, n
  <2> QED
    BY <1>1, <1>5, <1>6, <1>7, <2>1, NothingWanted DEF head, body, r
<1>8. CASE c.size # 0
  <2>1. IsCursor(m)
    BY <1>4 DEF Moves
  <2>2. c.size > 0 /\ c.offset + c.size <= k + n /\ (NeedsStart(e) => c.offset = 0)
    <3>1. c.size \in Nat
      BY Modulus DEF IsCursor
    <3> QED
      BY <1>1, <1>8, <3>1
  <2>3. m.size > 0 => m.offset + m.size <= n /\ (NeedsStart(e) => m.offset = 0)
    <3> DEFINE o == c.offset
               z == c.size
               o2 == m.offset
               z2 == m.size
               a == Amount(c, k)
    <3>1. o \in Nat /\ z \in Nat /\ o2 \in Nat /\ z2 \in Nat
      BY <2>1, Modulus DEF IsCursor
    <3>2. z2 = z - a /\ (z2 > 0 => o2 = IF o < k THEN 0 ELSE o - k)
      BY <1>4 DEF Moves
    <3>3. a = IF o < k THEN least(k - o, z) ELSE 0
      BY DEF Amount
    <3>4. o + z <= k + n /\ (NeedsStart(e) => o = 0)
      BY <2>2
    <3> HIDE DEF o, z, o2, z2, a, k, n
    <3>5. z2 > 0 => o2 + z2 <= n /\ (o = 0 => o2 = 0)
      <4>1. CASE o < k
        BY <1>1, <1>5, <3>1, <3>2, <3>3, <3>4, <4>1 DEF least
      <4>2. CASE ~(o < k)
        BY <1>1, <1>5, <3>1, <3>2, <3>3, <3>4, <4>2
      <4> QED
        BY <4>1, <4>2
    <3> QED
      BY <3>4, <3>5 DEF o2, z2
  <2> HIDE DEF m, n
  <2>4. Writes(m, r, body)
    <3>1. CASE e.kind = "integer" /\ e.n \in 1 .. 8
      <4>1. r = outputInteger(e, m) /\ body = ValueBytes(e) /\ n = e.n
        BY <1>8, <3>1 DEF outputLeaf, Body, ValueBytes, length, m, n
      <4> QED
        BY <2>1, <2>3, <3>1, <4>1, IntegerWritten
    <3>2. CASE e.kind = "floating" /\ e.n = 4
      <4>1. r = outputFloating(e, m) /\ body = numbered(e, "float", e.n) /\ n = e.n
        BY <1>8, <3>2 DEF outputLeaf, Body, length, m, n
      <4>2. NeedsStart(e)
        BY <3>2 DEF NeedsStart
      <4> QED
        BY <2>1, <2>3, <3>2, <4>1, <4>2, FloatingWritten
    <3>3. CASE e.kind = "string" /\ e.n \in Nat
      <4>1. r = outputString(e, m) /\ body = numbered(e, "string", e.n) /\ n = e.n
        BY <1>8, <3>3 DEF outputLeaf, Body, length, m, n
      <4>2. NeedsStart(e)
        BY <3>3 DEF NeedsStart
      <4> QED
        BY <2>1, <2>3, <3>3, <4>1, <4>2, StringWritten
    <3>4. CASE e.kind = "block" /\ IsFrame(e.planes)
      <4> DEFINE w == outputBlockHeader(e, m)
                 header == numbered(e, "header", 4)
                 pixels == Pixels(e)
      <4>1. r = outputFrame(e, w) /\ body = header \o pixels
        BY <1>8, <3>4 DEF outputLeaf, Body, Pixels, m
      <4>2. Sequence(header) /\ Len(header) = 4
        <5>1. 4 \in Nat
          OBVIOUS
        <5> QED
          BY <5>1, Numbers, Zenon
      <4> HIDE DEF w, header, pixels, r, body
      <4>3. Moves(m, w, 4) /\ Writes(m, w, header)
        BY <2>1, BlockHeaderWritten DEF w, header
      <4>4. IsCursor(w)
        BY <4>3 DEF Moves
      <4>5. NoPadding => \A p \in DOMAIN e.planes : e.planes[p].stride = e.planes[p].row
        BY <3>4 DEF Dense
      <4>6. Sequence(pixels) /\ Writes(w, outputFrame(e, w), pixels)
        BY <3>4, <4>4, <4>5, FrameLength, FrameWritten DEF pixels
      <4>7. Writes(m, r, header \o pixels)
        BY <2>1, <4>1, <4>2, <4>3, <4>6, WritesBoth
      <4> QED
        BY <4>1, <4>7
    <3> QED
      BY <3>1, <3>2, <3>3, <3>4 DEF IsLeaf
  <2> HIDE DEF head, body, r, k
  <2>5. Writes(c, r, head \o body)
    BY <1>1, <1>4, <2>4, WritesBoth
  <2>6. k + n \in Nat
    BY <1>1, <1>5
  <2> QED
    BY <1>1, <1>6, <2>5, <2>6 DEF head, body, r
<1> QED
  BY <1>7, <1>8

-----------------------------------------------------------------------------
(* Elements with children. *)

\* f holds the cursor behind every child up to the m-th.
OutputsChildren(f, sizes, kids, cur, m) ==
  f = [i \in 0 .. m |-> IF i = 0 THEN cur ELSE outputChild(f[i - 1], sizes[i], kids[i])]

\* The loop over children comes to its end.
LEMMA ChildrenStep ==
  ASSUME NEW sizes, NEW kids, NEW cur, NEW l \in Nat, l = Len(sizes)
  PROVE  \E f : /\ f[0] = cur /\ outputChildren(sizes, kids, cur) = f[l]
                /\ \A i \in 1 .. l : f[i] = outputChild(f[i - 1], sizes[i], kids[i])
<1> DEFINE T == {m \in Nat : \E f : OutputsChildren(f, sizes, kids, cur, m)}
<1>1. 0 \in T
  <2>1. OutputsChildren([i \in 0 .. 0 |-> cur], sizes, kids, cur, 0)
    BY DEF OutputsChildren
  <2> QED
    BY <2>1
<1>2. ASSUME NEW m \in 1 .. l, m - 1 \in T
      PROVE  m \in T
  <2>1. PICK g : OutputsChildren(g, sizes, kids, cur, m - 1)
    BY <1>2
  <2> DEFINE h == [i \in 0 .. m |->
                     IF i = m THEN outputChild(g[m - 1], sizes[m], kids[m]) ELSE g[i]]
  <2>2. \A i \in 0 .. m : h[i] = IF i = 0 THEN cur ELSE outputChild(h[i - 1], sizes[i], kids[i])
    <3> TAKE i \in 0 .. m
    <3>1. CASE i = m
      <4>1. i # 0 /\ m - 1 \in 0 .. m /\ m - 1 # m
        BY <3>1
      <4>2. h[m - 1] = g[m - 1] /\ h[i] = outputChild(g[m - 1], sizes[m], kids[m])
        BY <3>1, <4>1
      <4> QED
        BY <3>1, <4>1, <4>2, Zenon
    <3>2. CASE i # m
      <4>1. i \in 0 .. m - 1 /\ h[i] = g[i]
        BY <3>2
      <4>2. g[i] = IF i = 0 THEN cur ELSE outputChild(g[i - 1], sizes[i], kids[i])
        BY <2>1, <4>1, Zenon DEF OutputsChildren
      <4>3. i # 0 => i - 1 \in 0 .. m /\ i - 1 # m
        BY <4>1
      <4>4. i # 0 => h[i - 1] = g[i - 1]
        BY <4>3
      <4> HIDE DEF h
      <4> QED
        BY <4>1, <4>2, <4>4, Zenon
    <3> QED
      BY <3>1, <3>2
  <2>3. h = [i \in 0 .. m |-> h[i]]
    OBVIOUS
  <2> HIDE DEF h
  <2>4. OutputsChildren(h, sizes, kids, cur, m)
    BY <2>2, <2>3, Zenon DEF OutputsChildren
  <2> QED
    BY <2>4
<1>3. l \in T
  <2> HIDE DEF T
  <2> QED
    BY <1>1, <1>2, NumberInduction
<1> DEFINE f == CHOOSE f : OutputsChildren(f, sizes, kids, cur, l)
<1>4. OutputsChildren(f, sizes, kids, cur, l)
  BY <1>3
<1>5. outputChildren(sizes, kids, cur) = f[l]
  BY Zenon DEF outputChildren, OutputsChildren
<1> HIDE DEF f
<1>6. f = [i \in 0 .. l |-> IF i = 0 THEN cur ELSE outputChild(f[i - 1], sizes[i], kids[i])]
  BY <1>4, Zenon DEF OutputsChildren
<1>7. f[0] = cur
  <2>1. 0 \in 0 .. l
    OBVIOUS
  <2> QED
    BY <1>6, <2>1, Zenon
<1>8. ASSUME NEW i \in 1 .. l
      PROVE  f[i] = outputChild(f[i - 1], sizes[i], kids[i])
  <2>1. i \in 0 .. l /\ i # 0
    OBVIOUS
  <2> QED
    BY <1>6, <2>1, Zenon
<1> QED
  BY <1>5, <1>7, <1>8

\* A range that begins with a part begins with what is behind the part, too.
LEMMA StillAtTheBeginning ==
  ASSUME NEW c, IsCursor(c), NEW m, NEW k \in Nat, Moves(c, m, k),
         c.size > 0 => c.offset = 0
  PROVE  m.size > 0 => m.offset = 0
<1> SUFFICES ASSUME m.size > 0
             PROVE  m.offset = 0
  OBVIOUS
<1> DEFINE a == Amount(c, k)
           z == c.size
           z2 == m.size
<1>1. c.offset \in Nat /\ z \in Nat /\ z2 \in Nat
  BY Modulus DEF IsCursor, Moves
<1>2. a \in 0 .. z
  BY <1>1, Shares
<1>3. z2 = z - a /\ (m.offset = IF c.offset < k THEN 0 ELSE c.offset - k) /\ z2 > 0
  BY DEF Moves
<1> HIDE DEF a, z2, z
<1>4. z > 0
  BY <1>1, <1>2, <1>3
<1>5. c.offset = 0
  BY <1>4 DEF z
<1> QED
  BY <1>3, <1>5

\* A range in the n bytes of an element, which begins with them if it has to (text).
Within(c, n, text) ==
  /\ Safe(c, n)
  /\ c.size > 0 => c.offset + c.size <= n
  /\ text /\ c.size > 0 => c.offset = 0

\* f has what is written for every such range.
Puts(f, bytes, text) ==
  \A size \in Sizes, offset \in Sizes :
    Within(Fresh(size, offset), Len(bytes), text) =>
      Writes(Fresh(size, offset), f[size][offset], bytes)

\* A child takes its part of what is wanted.
LEMMA ChildWritten ==
  ASSUME NEW bytes, Sequence(bytes), NEW text, NEW kid, Puts(kid, bytes, text),
         NEW c, IsCursor(c), NEW rest \in Nat, Safe(c, Len(bytes) + rest),
         text /\ c.size > 0 => c.offset = 0
  PROVE  /\ Moves(c, outputChild(c, Len(bytes), kid), Len(bytes))
         /\ Writes(c, outputChild(c, Len(bytes), kid), bytes)
<1> DEFINE n == Len(bytes)
           o == c.offset
           z == c.size
           d == c.at
           a == least(z, n - o)
           inner == Fresh(a, o)
           r == kid[a][o]
           new == outputChild(c, n, kid)
<1>1. /\ o \in Nat /\ z \in Nat /\ d \in Nat /\ z < SizeMax /\ o < SizeMax /\ n \in Nat
  BY Modulus, LenProperties DEF IsCursor, Sequence
<1>2. CASE ~(o < n /\ z > 0)
  <2>1. new = Skip(c, n)
    BY <1>2, Zenon DEF outputChild
  <2> HIDE DEF new
  <2> QED
    BY <1>2, <2>1, PassingBy DEF new
<1>3. CASE o < n /\ z > 0
  <2>1. new = Begin(Advance(Put(c, r.buffer), r.at))
    BY <1>3, Zenon DEF outputChild, Paste
  <2>2. inner.buffer = NoBytes /\ inner.at = 0 /\ inner.size = a /\ inner.offset = o
    BY DEF Cursor, Fresh
  <2>3. z = 0 \/ o = 0 \/ z >= 8 \/ o + z >= n + rest
    BY DEF Safe
  <2>4. text => o = 0
    BY <1>3
  <2>5. a = least(z, n - o)
    OBVIOUS
  <2>6. Amount(c, n) = least(n - o, z)
    BY <1>3 DEF Amount
  <2>7. IsCursor(c) /\ c.at = d /\ c.offset = o /\ c.size = z
    OBVIOUS
  <2>8. n = Len(bytes)
    OBVIOUS
  <2> HIDE DEF n, o, z, d, a, new, inner, r
  <2>9. a \in 0 .. z /\ o + a <= n /\ a > 0 /\ (a = z \/ o + a = n) /\ a \in Nat
        /\ Amount(c, n) = a
    BY <1>1, <1>3, <2>5, <2>6 DEF least
  <2>10. a \in Sizes /\ o \in Sizes
    BY <1>1, <2>9, Modulus DEF Sizes
  <2>11. Within(inner, n, text)
    <3>1. a = 0 \/ o = 0 \/ a >= 8 \/ o + a >= n
      BY <1>1, <2>3, <2>9
    <3> QED
      BY <2>2, <2>4, <2>9, <3>1 DEF Within, Safe
  <2>12. Writes(inner, r, bytes)
    BY <2>8, <2>10, <2>11, Zenon DEF Puts, inner, r
  <2>13. Amount(inner, n) = a
    <3>1. o < n /\ least(n - o, a) = a
      BY <1>1, <1>3, <2>9 DEF least
    <3> QED
      BY <2>2, <3>1 DEF Amount
  <2>14. r.at = 0 + a /\ Confined(inner, r) /\ (NoPadding => BytesRight(inner, r, bytes))
    BY <2>2, <2>8, <2>12, <2>13, Zenon DEF Writes
  <2> DEFINE b == r.buffer
  <2>15. DOMAIN b \subseteq 0 .. c.size - 1 /\ a \in 0 .. c.size
    <3>1. DOMAIN b \subseteq {} \cup 0 .. 0 + a - 1
      BY <2>2, <2>14 DEF Confined, NoBytes
    <3>2. 0 .. 0 + a - 1 \subseteq 0 .. z - 1
      BY <1>1, <2>9
    <3> QED
      BY <2>7, <2>9, <3>1, <3>2
  <2>16. new = Begin(Advance(Put(c, b), a))
    <3>1. r.at = a
      BY <2>9, <2>14
    <3> QED
      BY <2>1, <3>1, Zenon
  <2> HIDE DEF b
  <2>17. /\ IsCursor(new) /\ Confined(c, new)
         /\ new.at = c.at + a /\ new.size = c.size - a /\ new.offset = 0
         /\ \A i \in DOMAIN b : Holds(new, c.at + i, b[i])
    BY <2>15, <2>16, Emitting
  <2>18. Moves(c, new, n)
    BY <1>3, <2>7, <2>9, <2>17 DEF Moves
  <2>19. ASSUME BytesRight(inner, r, bytes)
         PROVE  BytesRight(c, new, bytes)
    <3>1. Clean(c, bytes) <=> Clean(inner, bytes)
      BY <2>2, <2>7, <2>8, <2>9, <2>13 DEF Clean
    <3> SUFFICES ASSUME NEW i \in 0 .. a - 1, bytes[o + i + 1][2] = "frame" \/ Clean(c, bytes)
                 PROVE  Holds(new, d + i, bytes[o + i + 1])
      BY <2>7, <2>8, <2>9 DEF BytesRight
    <3>2. Holds(r, 0 + i, bytes[o + i + 1])
      BY <2>2, <2>8, <2>13, <2>19, <3>1 DEF BytesRight
    <3>3. i \in DOMAIN b /\ b[i] = bytes[o + i + 1]
      <4>1. 0 + i = i
        BY <2>9
      <4> QED
        BY <3>2, <4>1 DEF Holds, b
    <3> QED
      BY <2>7, <2>17, <3>3
  <2>20. Writes(c, new, bytes)
    BY <2>7, <2>8, <2>9, <2>14, <2>17, <2>19 DEF Writes
  <2> QED
    BY <2>18, <2>20 DEF new, n
<1> QED
  BY <1>2, <1>3

\* The children of an element, what they are encoded to, how long that is and what
\* is written of them.
Children(s, sizes, kids, text) ==
  /\ Len(s) \in Nat /\ Len(sizes) = Len(s) /\ sizes \in Seq(Nat)
  /\ \A i \in 1 .. Len(s) : Sequence(s[i]) /\ Len(s[i]) = sizes[i] /\ Puts(kids[i], s[i], text)

\* The children are written, one after the other.
LEMMA ChildrenWritten ==
  ASSUME NEW s, NEW sizes, NEW kids, NEW text, Children(s, sizes, kids, text),
         NEW c, IsCursor(c), Safe(c, total(sizes)), text /\ c.size > 0 => c.offset = 0
  PROVE  /\ Sequence(joined(s)) /\ Len(joined(s)) = total(sizes)
         /\ Writes(c, outputChildren(sizes, kids, c), joined(s))
<1> DEFINE l == Len(s)
           t == total(sizes)
<1>1. /\ l \in Nat /\ Len(sizes) = l /\ sizes \in Seq(Nat)
      /\ \A i \in 1 .. l : Sequence(s[i]) /\ Len(s[i]) = sizes[i] /\ Puts(kids[i], s[i], text)
  BY DEF Children
<1>a. l = Len(sizes) /\ l = Len(s) /\ Safe(c, t) /\ t = total(sizes)
  BY <1>1
<1> HIDE DEF l, t
<1>b. l \in Nat /\ l = Len(sizes)
  BY <1>1
<1>2. PICK g : /\ g[0] = c /\ outputChildren(sizes, kids, c) = g[l]
               /\ \A i \in 1 .. l : g[i] = outputChild(g[i - 1], sizes[i], kids[i])
  BY <1>b, ChildrenStep
<1>3. \A i \in 0 .. l : sums(sizes)[i] \in Nat /\ sums(sizes)[i] <= t
  BY <1>1, <1>a, SumsGrow
<1>4. \A i \in 1 .. l : sums(sizes)[i] = sums(sizes)[i - 1] + sizes[i]
  BY <1>1, <1>a, SumsStep
<1>5. \A i \in 0 .. l : Sequence(joins(s)[i]) /\ Len(joins(s)[i]) = sums(sizes)[i]
  <2>1. \A i \in 1 .. Len(s) : Sequence(s[i]) /\ sizes[i] = Len(s[i])
    BY <1>1, <1>a
  <2> QED
    BY <1>1, <1>a, <2>1, JoinsLength
<1>6. Sequence(joined(s)) /\ Len(joined(s)) = t
  <2>1. l \in 0 .. l
    BY <1>1
  <2> QED
    BY <1>5, <1>a, <2>1 DEF joined, total
<1>7. ASSUME NEW n \in 1 .. Len(s), Moves(c, g[n - 1], Len(joins(s)[n - 1]))
      PROVE  Moves(g[n - 1], g[n], Len(s[n])) /\ Writes(g[n - 1], g[n], s[n])
  <2> DEFINE m == g[n - 1]
             a == sums(sizes)[n - 1]
             b == sizes[n]
             rest == t - (a + b)
             bytes == s[n]
             kid == kids[n]
  <2>1. n \in 1 .. l /\ n \in 0 .. l /\ n - 1 \in 0 .. l
    BY <1>1, <1>a
  <2>2. /\ b = Len(bytes) /\ Sequence(bytes) /\ Puts(kid, bytes, text)
        /\ g[n] = outputChild(m, b, kid)
    BY <1>1, <1>2, <2>1
  <2>3. sums(sizes)[n] = a + b /\ sums(sizes)[n] \in Nat /\ sums(sizes)[n] <= t /\ a \in Nat
    BY <1>3, <1>4, <2>1
  <2>4. Moves(c, m, a)
    BY <1>5, <1>7, <2>1
  <2>5. b \in Nat /\ t \in Nat
    <3>1. n \in 1 .. Len(sizes)
      BY <1>a, <2>1
    <3> QED
      BY <1>1, <1>a, <3>1, TotalInNat, ElementOfSeq
  <2> HIDE DEF m, a, b, bytes, kid
  <2>6. IsCursor(m)
    BY <2>4 DEF Moves
  <2>7. rest \in Nat /\ b + rest \in Nat /\ a + (b + rest) = t
    BY <2>3, <2>5
  <2> HIDE DEF rest
  <2>8. Safe(m, b + rest)
    <3>1. Safe(c, a + (b + rest))
      BY <1>a, <2>7
    <3> QED
      BY <2>3, <2>4, <2>7, <3>1, SafeBehind
  <2>9. text /\ m.size > 0 => m.offset = 0
    BY <2>3, <2>4, StillAtTheBeginning
  <2>10. Moves(m, outputChild(m, b, kid), b) /\ Writes(m, outputChild(m, b, kid), bytes)
    BY <2>2, <2>6, <2>7, <2>8, <2>9, ChildWritten
  <2> QED
    BY <2>2, <2>10 DEF m, bytes
<1>8. \A i \in 1 .. Len(s) : Sequence(s[i])
  BY <1>1, <1>a
<1>9. Len(s) \in Nat
  BY <1>1, <1>a
<1>10. Writes(c, g[Len(s)], joined(s))
  BY <1>2, <1>7, <1>8, <1>9, PartsWritten
<1> QED
  BY <1>2, <1>6, <1>10, <1>a

\* Whatever is wanted of an element with children is written.
LEMMA MasterWritten ==
  ASSUME NEW e, Encodable(e), NEW s, NEW sizes, NEW kids, NEW text,
         Children(s, sizes, kids, text), length(e) = total(sizes), NeedsStart(e) => text,
         NEW c, IsCursor(c), Safe(c, getSize(e)), text /\ c.size > 0 => c.offset = 0
  PROVE  /\ Sequence(HeadBytes(e) \o joined(s)) /\ Len(HeadBytes(e) \o joined(s)) = getSize(e)
         /\ Writes(c, outputMaster(e, sizes, kids, c), HeadBytes(e) \o joined(s))
<1> DEFINE n == length(e)
           k == e.id + VintSize(n)
           head == HeadBytes(e)
           body == joined(s)
           m == outputHead(e, c)
           r == outputMaster(e, sizes, kids, c)
<1>1. e.id \in 1 .. 4 /\ n \in Nat /\ n < VintLimits[8] /\ getSize(e) = k + n
  BY DEF Encodable, getSize
<1>2. k \in Nat
  BY <1>1, VintWidth
<1>3. Sequence(head) /\ Len(head) = k /\ Moves(c, m, k) /\ Writes(c, m, head)
  BY <1>1, HeadWritten
<1>4. IsCursor(m)
  BY <1>3 DEF Moves
<1>5. n = total(sizes)
  OBVIOUS
<1> HIDE DEF m, n, k, head, body
<1>6. Safe(m, n)
  BY <1>1, <1>2, <1>3, SafeBehind
<1>7. text /\ m.size > 0 => m.offset = 0
  BY <1>2, <1>3, StillAtTheBeginning
<1>8. /\ Sequence(body) /\ Len(body) = n
      /\ Writes(m, outputChildren(sizes, kids, m), body)
  BY <1>4, <1>5, <1>6, <1>7, ChildrenWritten DEF body
<1>9. Sequence(head \o body) /\ Len(head \o body) = getSize(e)
  BY <1>1, <1>3, <1>8, Concatenation
<1>10. Writes(c, r, head \o body)
  <2>1. CASE c.size = 0
    <3>1. r = c
      BY <2>1, Zenon DEF outputMaster
    <3> HIDE DEF r
    <3> QED
      BY <1>9, <2>1, <3>1, NothingWanted
  <2>2. CASE c.size # 0 /\ m.offset < n /\ m.size > 0
    <3>1. r = outputChildren(sizes, kids, m)
      BY <2>2, Zenon DEF outputMaster, m, n
    <3> HIDE DEF r
    <3> QED
      BY <1>3, <1>8, <3>1, WritesBoth
  <2>3. CASE c.size # 0 /\ ~(m.offset < n /\ m.size > 0)
    <3>1. r = m
      BY <2>3, Zenon DEF outputMaster, m, n
    <3>2. m.at \in Nat /\ m.size \in Nat /\ m.offset \in Nat
      BY <1>4, Modulus DEF IsCursor
    <3>3. Amount(m, n) = 0
      BY <1>1, <2>3, <3>2 DEF Amount, least
    <3>4. Confined(m, m) /\ BytesRight(m, m, body) /\ m.at = m.at + Amount(m, n)
      BY <1>8, <3>2, <3>3 DEF Confined, Holds, BytesRight
    <3>5. Writes(m, m, body)
      BY <1>8, <3>4 DEF Writes
    <3> HIDE DEF r
    <3> QED
      BY <1>3, <1>8, <3>1, <3>5, WritesBoth
  <2> QED
    BY <2>1, <2>2, <2>3
<1> QED
  BY <1>9, <1>10 DEF head, body, r

-----------------------------------------------------------------------------
(* Trees.  What is said of an element by what is said of its children is said *)
(* of all, one after the other.                                               *)

\* A tree has elements, with children or without.
LEMMA TreeParts ==
  ASSUME NEW t, IsTree(t)
  PROVE  /\ Len(t) \in Nat /\ DOMAIN t = 1 .. Len(t) /\ Len(t) \in 1 .. Len(t)
         /\ IsMaster(t, Len(t))
         /\ \A k \in 1 .. Len(t) : /\ t[k].kind # "master" => IsLeaf(t[k])
                                   /\ t[k].kind = "master" => IsMaster(t, k)
<1>1. /\ Len(t) \in Nat /\ DOMAIN t = 1 .. Len(t) /\ t # <<>> /\ IsMaster(t, Len(t))
      /\ \A k \in 1 .. Len(t) : IsLeaf(t[k]) \/ IsMaster(t, k)
  BY Zenon DEF IsTree, IsSequence
<1>2. \A k \in 1 .. Len(t) : IsLeaf(t[k]) => t[k].kind # "master"
  BY DEF IsLeaf
<1>3. \A k \in 1 .. Len(t) : IsMaster(t, k) => t[k].kind = "master"
  BY DEF IsMaster
<1>4. Len(t) \in 1 .. Len(t)
  BY <1>1
<1> QED
  BY <1>1, <1>2, <1>3, <1>4, Zenon

\* An element has what those in front of it have.
LEMMA BelowAgrees ==
  ASSUME NEW t, IsTree(t), NEW k \in 1 .. Len(t), NEW f, NEW g, \A j \in 1 .. k - 1 : f[j] = g[j]
  PROVE  below(f, t[k]) = below(g, t[k])
<1>1. CASE t[k].kind = "master"
  <2>1. \A i \in DOMAIN t[k].children : t[k].children[i] \in 1 .. k - 1
    <3>1. IsMaster(t, k)
      BY <1>1, TreeParts
    <3> QED
      BY <3>1 DEF IsMaster
  <2>2. \A i \in DOMAIN t[k].children : f[t[k].children[i]] = g[t[k].children[i]]
    BY <2>1
  <2> QED
    BY <1>1, <2>2, Zenon DEF below
<1>2. CASE t[k].kind # "master"
  BY <1>2 DEF below
<1> QED
  BY <1>1, <1>2

\* What an element has when those in front of it do, all of them have.
LEMMA ChildrenFirst ==
  ASSUME NEW l \in Nat, NEW S,
         ASSUME NEW k \in 1 .. l, \A j \in 1 .. k - 1 : j \in S PROVE k \in S
  PROVE  \A k \in 1 .. l : k \in S
<1> DEFINE T == {m \in 0 .. l : \A j \in 1 .. m : j \in S}
<1>1. 0 \in T
  OBVIOUS
<1>2. ASSUME NEW m \in 1 .. l, m - 1 \in T
      PROVE  m \in T
  <2>1. \A j \in 1 .. m - 1 : j \in S
    BY <1>2
  <2>2. m \in S
    BY <2>1
  <2>3. m \in 0 .. l /\ \A j \in 1 .. m : j = m \/ j \in 1 .. m - 1
    OBVIOUS
  <2> QED
    BY <2>1, <2>2, <2>3
<1> HIDE DEF T
<1>3. l \in T
  BY <1>1, <1>2, NumberInduction
<1> QED
  BY <1>3 DEF T

\* f has the outputs of all elements in S.
Outputs(f, t, S) == f = [k \in S |-> output(t, k, below(f, t[k]))]

\* There is an output of every element.
LEMMA OutputsExist ==
  ASSUME NEW t, IsTree(t)
  PROVE  \A k \in 1 .. Len(t) : outputs(t)[k] = output(t, k, below(outputs(t), t[k]))
<1> DEFINE l == Len(t)
           T == {m \in 0 .. l : \E f : Outputs(f, t, 1 .. m)}
<1>1. l \in Nat /\ DOMAIN t = 1 .. l
  BY TreeParts
<1>2. ASSUME NEW k \in 1 .. l, NEW f, NEW g, \A j \in 1 .. k - 1 : f[j] = g[j]
      PROVE  below(f, t[k]) = below(g, t[k])
  BY <1>2, BelowAgrees
<1> HIDE DEF l
<1>3. 0 \in T
  <2>1. Outputs([k \in 1 .. 0 |-> 0], t, 1 .. 0)
    BY DEF Outputs
  <2> QED
    BY <1>1, <2>1
<1>4. ASSUME NEW m \in 1 .. l, m - 1 \in T
      PROVE  m \in T
  <2>1. PICK g : Outputs(g, t, 1 .. m - 1)
    BY <1>4
  <2>2. m \in Nat /\ m \in 0 .. l
    BY <1>1
  <2>3. \A k \in 1 .. m - 1 : g[k] = output(t, k, below(g, t[k]))
    BY <2>1, Zenon DEF Outputs
  <2> DEFINE h == [k \in 1 .. m |-> IF k = m THEN output(t, m, below(g, t[m])) ELSE g[k]]
  <2>4. h = [k \in 1 .. m |-> h[k]]
    OBVIOUS
  <2>5. /\ m \in 1 .. m /\ h[m] = output(t, m, below(g, t[m]))
        /\ \A k \in 1 .. m - 1 : h[k] = g[k]
    BY <2>2
  <2> HIDE DEF h
  <2>6. ASSUME NEW k \in 1 .. m
        PROVE  h[k] = output(t, k, below(h, t[k]))
    <3>1. k \in 1 .. l /\ \A j \in 1 .. k - 1 : h[j] = g[j]
      BY <1>1, <2>2, <2>5
    <3>2. below(h, t[k]) = below(g, t[k])
      BY <1>2, <3>1
    <3>3. CASE k = m
      BY <2>5, <3>2, <3>3
    <3>4. CASE k # m
      <4>1. k \in 1 .. m - 1
        BY <2>2, <3>4
      <4> QED
        BY <2>3, <2>5, <3>2, <4>1
    <3> QED
      BY <3>3, <3>4
  <2>7. Outputs(h, t, 1 .. m)
    BY <2>4, <2>6, Zenon DEF Outputs
  <2> QED
    BY <2>2, <2>7
<1>5. \E f : Outputs(f, t, DOMAIN t)
  <2> HIDE DEF T
  <2>1. l \in T
    BY <1>1, <1>3, <1>4, NumberInduction
  <2> QED
    BY <1>1, <2>1 DEF T
<1> DEFINE f == CHOOSE f : Outputs(f, t, DOMAIN t)
<1>6. Outputs(f, t, DOMAIN t)
  BY <1>5
<1>7. outputs(t) = f
  BY Zenon DEF outputs, Outputs
<1> HIDE DEF f
<1> QED
  BY <1>1, <1>6, <1>7, Zenon DEF Outputs, l

\* f has the encodings of all elements in S.
Encodings(f, t, S) == f = [k \in S |-> encoded(t[k], below(f, t[k]))]

\* There is an encoding of every element.
LEMMA EncodingsExist ==
  ASSUME NEW t, IsTree(t)
  PROVE  \A k \in 1 .. Len(t) : encodings(t)[k] = encoded(t[k], below(encodings(t), t[k]))
<1> DEFINE l == Len(t)
           T == {m \in 0 .. l : \E f : Encodings(f, t, 1 .. m)}
<1>1. l \in Nat /\ DOMAIN t = 1 .. l
  BY TreeParts
<1>2. ASSUME NEW k \in 1 .. l, NEW f, NEW g, \A j \in 1 .. k - 1 : f[j] = g[j]
      PROVE  below(f, t[k]) = below(g, t[k])
  BY <1>2, BelowAgrees
<1> HIDE DEF l
<1>3. 0 \in T
  <2>1. Encodings([k \in 1 .. 0 |-> 0], t, 1 .. 0)
    BY DEF Encodings
  <2> QED
    BY <1>1, <2>1
<1>4. ASSUME NEW m \in 1 .. l, m - 1 \in T
      PROVE  m \in T
  <2>1. PICK g : Encodings(g, t, 1 .. m - 1)
    BY <1>4
  <2>2. m \in Nat /\ m \in 0 .. l
    BY <1>1
  <2>3. \A k \in 1 .. m - 1 : g[k] = encoded(t[k], below(g, t[k]))
    BY <2>1, Zenon DEF Encodings
  <2> DEFINE h == [k \in 1 .. m |-> IF k = m THEN encoded(t[m], below(g, t[m])) ELSE g[k]]
  <2>4. h = [k \in 1 .. m |-> h[k]]
    OBVIOUS
  <2>5. /\ m \in 1 .. m /\ h[m] = encoded(t[m], below(g, t[m]))
        /\ \A k \in 1 .. m - 1 : h[k] = g[k]
    BY <2>2
  <2> HIDE DEF h
  <2>6. ASSUME NEW k \in 1 .. m
        PROVE  h[k] = encoded(t[k], below(h, t[k]))
    <3>1. k \in 1 .. l /\ \A j \in 1 .. k - 1 : h[j] = g[j]
      BY <1>1, <2>2, <2>5
    <3>2. below(h, t[k]) = below(g, t[k])
      BY <1>2, <3>1
    <3>3. CASE k = m
      BY <2>5, <3>2, <3>3
    <3>4. CASE k # m
      <4>1. k \in 1 .. m - 1
        BY <2>2, <3>4
      <4> QED
        BY <2>3, <2>5, <3>2, <4>1
    <3> QED
      BY <3>3, <3>4
  <2>7. Encodings(h, t, 1 .. m)
    BY <2>4, <2>6, Zenon DEF Encodings
  <2> QED
    BY <2>2, <2>7
<1>5. \E f : Encodings(f, t, DOMAIN t)
  <2> HIDE DEF T
  <2>1. l \in T
    BY <1>1, <1>3, <1>4, NumberInduction
  <2> QED
    BY <1>1, <2>1 DEF T
<1> DEFINE f == CHOOSE f : Encodings(f, t, DOMAIN t)
<1>6. Encodings(f, t, DOMAIN t)
  BY <1>5
<1>7. encodings(t) = f
  BY Zenon DEF encodings, Encodings
<1> HIDE DEF f
<1> QED
  BY <1>1, <1>6, <1>7, Zenon DEF Encodings, l

\* A cursor at the beginning of a buffer is one.
LEMMA FreshIsCursor ==
  ASSUME NEW size \in Sizes, NEW offset \in Sizes
  PROVE  /\ IsCursor(Fresh(size, offset))
         /\ Fresh(size, offset).buffer = NoBytes /\ Fresh(size, offset).at = 0
         /\ Fresh(size, offset).size = size /\ Fresh(size, offset).offset = offset
<1> DEFINE c == Fresh(size, offset)
<1>1. c.buffer = NoBytes /\ c.at = 0 /\ c.size = size /\ c.offset = offset
  BY DEF Fresh, Cursor
<1> HIDE DEF c
<1>2. DOMAIN NoBytes \subseteq Nat
  BY DEF NoBytes
<1> QED
  BY <1>1, <1>2 DEF IsCursor, Sizes, c

\* There is a range, the empty one.
LEMMA WithinNothing ==
  ASSUME NEW n, NEW text
  PROVE  \E c : IsCursor(c) /\ Within(c, n, text)
<1> DEFINE c == Fresh(0, 0)
<1>1. 0 \in Sizes
  BY Modulus DEF Sizes
<1>2. IsCursor(c) /\ c.size = 0
  BY <1>1, FreshIsCursor
<1> HIDE DEF c
<1>3. Within(c, n, text)
  BY <1>2 DEF Within, Safe
<1> QED
  BY <1>2, <1>3

\* What the children of an element are encoded to, and how long they are.
LEMMA ChildParts ==
  ASSUME NEW t, IsTree(t), NEW k \in 1 .. Len(t), IsMaster(t, k)
  PROVE  LET e     == t[k]
             s     == below(encodings(t), e)
             sizes == sizesBelow(t, e)
             l     == Len(e.children)
         IN /\ l \in Nat /\ DOMAIN e.children = 1 .. l /\ e.kind = "master"
            /\ Len(s) = l /\ Len(sizes) = l /\ DOMAIN sizes = 1 .. l
            /\ length(e) = total(sizes)
            /\ \A i \in 1 .. l : /\ e.children[i] \in 1 .. k - 1 /\ e.children[i] \in 1 .. Len(t)
                                 /\ s[i] = encodings(t)[e.children[i]]
                                 /\ sizes[i] = getSize(t[e.children[i]])
                                 /\ \A f : below(f, e)[i] = f[e.children[i]]
            /\ (\A i \in 1 .. l : sizes[i] \in Nat) => sizes \in Seq(Nat)
<1> DEFINE e == t[k]
           s == below(encodings(t), e)
           sizes == sizesBelow(t, e)
           l == Len(e.children)
<1>1. /\ l \in Nat /\ DOMAIN e.children = 1 .. l /\ e.kind = "master"
      /\ \A i \in 1 .. l : e.children[i] \in 1 .. k - 1
      /\ e.n = total(sizes)
  BY DEF IsMaster, IsSequence
<1>2. length(e) = total(sizes)
  BY <1>1 DEF length
<1>3. Len(t) \in Nat
  BY TreeParts
<1>4. \A i \in 1 .. l : e.children[i] \in 1 .. Len(t)
  <2> HIDE DEF e, l
  <2> QED
    BY <1>1, <1>3
<1>5. \A f : below(f, e) = [i \in 1 .. l |-> f[e.children[i]]]
  BY <1>1, Zenon DEF below
<1>6. sizes = [i \in 1 .. l |-> getSize(t[e.children[i]])]
  BY <1>1, Zenon DEF sizesBelow
<1>7. s = [i \in 1 .. l |-> encodings(t)[e.children[i]]]
  BY <1>5
<1> HIDE DEF e, s, sizes, l
<1>8. /\ \A i \in 1 .. l : sizes[i] = getSize(t[e.children[i]])
      /\ \A i \in 1 .. l : s[i] = encodings(t)[e.children[i]]
      /\ \A f : \A i \in 1 .. l : below(f, e)[i] = f[e.children[i]]
  BY <1>5, <1>6, <1>7, Zenon
<1>9. s = [i \in 1 .. l |-> s[i]] /\ sizes = [i \in 1 .. l |-> sizes[i]] /\ DOMAIN sizes = 1 .. l
  BY <1>6, <1>7, Zenon
<1>10. Len(s) = l /\ Len(sizes) = l
  BY <1>1, <1>9, Tabulated
<1>11. ASSUME \A i \in 1 .. l : sizes[i] \in Nat
       PROVE  sizes \in Seq(Nat)
  <2>1. sizes \in [1 .. l -> Nat]
    BY <1>9, <1>11
  <2> QED
    BY <1>1, <2>1, SeqDef
<1> QED
  BY <1>1, <1>2, <1>4, <1>8, <1>9, <1>10, <1>11, Zenon DEF e, s, sizes, l

\* Every element can be encoded, and its size is less than the modulus.
LEMMA AllEncodable ==
  ASSUME NEW t, IsTree(t)
  PROVE  \A k \in 1 .. Len(t) : Encodable(t[k]) /\ getSize(t[k]) \in 1 .. SizeMax - 1
<1> DEFINE l == Len(t)
           S == {k \in 1 .. l : Encodable(t[k]) /\ getSize(t[k]) \in 1 .. SizeMax - 1}
<1>1. /\ l \in Nat
      /\ \A k \in 1 .. l : /\ t[k].kind # "master" => IsLeaf(t[k])
                           /\ t[k].kind = "master" => IsMaster(t, k)
      /\ \A k \in 1 .. l : /\ t[k].id \in 1 .. 4
                           /\ length(t[k]) < VintLimits[8] /\ getSize(t[k]) < SizeMax
  BY TreeParts DEF IsTree
<1>2. ASSUME NEW k \in 1 .. l, \A j \in 1 .. k - 1 : j \in S
      PROVE  k \in S
  <2>1. /\ t[k].id \in 1 .. 4
        /\ length(t[k]) < VintLimits[8] /\ getSize(t[k]) < SizeMax
    BY <1>1
  <2>2. length(t[k]) \in Nat
    <3>1. CASE t[k].kind = "master"
      <4> DEFINE e == t[k]
                 sizes == sizesBelow(t, e)
                 c == Len(e.children)
      <4>1. IsMaster(t, k)
        BY <1>1, <3>1
      <4>2. /\ length(e) = total(sizes)
            /\ \A i \in 1 .. c : /\ e.children[i] \in 1 .. k - 1
                                 /\ sizes[i] = getSize(t[e.children[i]])
            /\ (\A i \in 1 .. c : sizes[i] \in Nat) => sizes \in Seq(Nat)
        BY <4>1, ChildParts
      <4> HIDE DEF sizes, c, e
      <4>3. \A i \in 1 .. c : sizes[i] \in Nat
        <5> TAKE i \in 1 .. c
        <5>1. e.children[i] \in S
          BY <1>2, <4>2
        <5> QED
          BY <4>2, <5>1, Modulus
      <4>4. total(sizes) \in Nat
        BY <4>2, <4>3, TotalInNat
      <4> QED
        BY <4>2, <4>4 DEF e
    <3>2. CASE t[k].kind # "master"
      <4>1. IsLeaf(t[k])
        BY <1>1, <3>2
      <4> QED
        BY <4>1, LeafParts
    <3> QED
      BY <3>1, <3>2
  <2>3. VintSize(length(t[k])) \in 1 .. 8
    BY <2>1, <2>2, VintWidth
  <2>4. getSize(t[k]) \in 1 .. SizeMax - 1
    <3>1. getSize(t[k]) = t[k].id + VintSize(length(t[k])) + length(t[k])
      BY DEF getSize
    <3> DEFINE n == length(t[k])
               v == VintSize(n)
               id == t[k].id
               size == getSize(t[k])
    <3>2. /\ id \in 1 .. 4 /\ n \in Nat /\ v \in 1 .. 8 /\ size = id + v + n
          /\ size < SizeMax /\ SizeMax \in Nat
      BY <2>1, <2>2, <2>3, <3>1, Modulus
    <3> HIDE DEF n, v, id, size
    <3>3. size \in 1 .. SizeMax - 1
      BY <3>2
    <3> QED
      BY <3>3 DEF size
  <2> QED
    BY <2>1, <2>2, <2>4 DEF Encodable
<1> HIDE DEF S
<1>3. \A k \in 1 .. l : k \in S
  BY <1>1, <1>2, ChildrenFirst
<1> QED
  BY <1>3 DEF S

\* What output is, argument by argument.
LEMMA OutputOf ==
  ASSUME NEW t, NEW k, NEW kids, NEW size \in Sizes, NEW offset \in Sizes
  PROVE  output(t, k, kids)[size][offset] =
           IF t[k].kind = "master"
           THEN outputMaster(t[k], sizesBelow(t, t[k]), kids, Fresh(size, offset))
           ELSE outputLeaf(t[k], Fresh(size, offset))
BY Zenon DEF output

\* What is wanted of an element without children is written.
LEMMA LeafPuts ==
  ASSUME NEW t, NEW k, t[k].kind # "master", IsLeaf(t[k]), Encodable(t[k]),
         getSize(t[k]) \in Nat, NoPadding => Dense(t[k]), NEW kids, NEW text,
         NeedsStart(t[k]) => text
  PROVE  /\ Sequence(encoded(t[k], kids)) /\ Len(encoded(t[k], kids)) = getSize(t[k])
         /\ Puts(output(t, k, kids), encoded(t[k], kids), text)
<1> DEFINE e == t[k]
           bytes == HeadBytes(e) \o Body(e)
<1>1. encoded(e, kids) = bytes
  BY DEF encoded
<1>2. \A size \in Sizes, offset \in Sizes :
        output(t, k, kids)[size][offset] = outputLeaf(e, Fresh(size, offset))
  <2> TAKE size \in Sizes, offset \in Sizes
  <2>1. output(t, k, kids)[size][offset] =
          IF t[k].kind = "master"
          THEN outputMaster(t[k], sizesBelow(t, t[k]), kids, Fresh(size, offset))
          ELSE outputLeaf(t[k], Fresh(size, offset))
    BY OutputOf
  <2> QED
    BY <2>1, Zenon
<1>3. \A size \in Sizes, offset \in Sizes :
        /\ IsCursor(Fresh(size, offset))
        /\ Fresh(size, offset).size = size /\ Fresh(size, offset).offset = offset
  BY FreshIsCursor
<1> HIDE DEF bytes, e
<1>4. ASSUME NEW c, IsCursor(c), Within(c, getSize(e), text)
      PROVE  Sequence(bytes) /\ Len(bytes) = getSize(e) /\ Writes(c, outputLeaf(e, c), bytes)
  <2>1. /\ Safe(c, getSize(e)) /\ (c.size > 0 => c.offset + c.size <= getSize(e))
        /\ (NeedsStart(e) /\ c.size > 0 => c.offset = 0)
    BY <1>4 DEF Within, e
  <2> QED
    BY <1>4, <2>1, LeafWritten DEF bytes, e
<1>5. Sequence(bytes) /\ Len(bytes) = getSize(e)
  BY <1>4, WithinNothing
<1>6. Puts(output(t, k, kids), bytes, text)
  <2> SUFFICES ASSUME NEW size \in Sizes, NEW offset \in Sizes,
                      Within(Fresh(size, offset), Len(bytes), text)
               PROVE  Writes(Fresh(size, offset), output(t, k, kids)[size][offset], bytes)
    BY Zenon DEF Puts
  <2>1. Writes(Fresh(size, offset), outputLeaf(e, Fresh(size, offset)), bytes)
    BY <1>3, <1>4, <1>5
  <2> QED
    BY <1>2, <2>1, Zenon
<1> QED
  BY <1>1, <1>5, <1>6 DEF e

\* What an element of a tree is encoded to is as long as its size, and is what is
\* written.
Written(t, k) ==
  /\ Sequence(encodings(t)[k]) /\ Len(encodings(t)[k]) = getSize(t[k])
  /\ Puts(outputs(t)[k], encodings(t)[k], OnlyFromStart(t))

\* When this is so of the elements in front of it, an element has what it needs.
LEMMA ChildrenReady ==
  ASSUME NEW t, IsTree(t), NEW k \in 1 .. Len(t), IsMaster(t, k),
         \A j \in 1 .. k - 1 : Written(t, j)
  PROVE  /\ Children(below(encodings(t), t[k]), sizesBelow(t, t[k]), below(outputs(t), t[k]),
                     OnlyFromStart(t))
         /\ length(t[k]) = total(sizesBelow(t, t[k]))
<1> DEFINE e == t[k]
           s == below(encodings(t), e)
           sizes == sizesBelow(t, e)
           kids == below(outputs(t), e)
           l == Len(e.children)
           text == OnlyFromStart(t)
<1>1. /\ l \in Nat /\ Len(s) = l /\ Len(sizes) = l /\ length(e) = total(sizes)
      /\ \A i \in 1 .. l : /\ e.children[i] \in 1 .. k - 1 /\ e.children[i] \in 1 .. Len(t)
                           /\ s[i] = encodings(t)[e.children[i]]
                           /\ sizes[i] = getSize(t[e.children[i]])
                           /\ \A f : below(f, e)[i] = f[e.children[i]]
      /\ (\A i \in 1 .. l : sizes[i] \in Nat) => sizes \in Seq(Nat)
  BY ChildParts
<1>2. \A i \in 1 .. l : kids[i] = outputs(t)[e.children[i]]
  BY <1>1
<1> HIDE DEF e, s, sizes, kids, l, text
<1>3. ASSUME NEW i \in 1 .. l
      PROVE  sizes[i] \in Nat /\ Sequence(s[i]) /\ Len(s[i]) = sizes[i] /\ Puts(kids[i], s[i], text)
  <2> DEFINE j == e.children[i]
  <2>1. /\ j \in 1 .. k - 1 /\ j \in 1 .. Len(t) /\ kids[i] = outputs(t)[j]
        /\ s[i] = encodings(t)[j] /\ sizes[i] = getSize(t[j])
    BY <1>1, <1>2
  <2> HIDE DEF j
  <2>2. Written(t, j) /\ getSize(t[j]) \in 1 .. SizeMax - 1
    BY <2>1, AllEncodable
  <2>3. getSize(t[j]) \in Nat
    BY <2>2, Modulus
  <2> QED
    BY <2>1, <2>2, <2>3 DEF Written, text
<1>4. Children(s, sizes, kids, text)
  BY <1>1, <1>3 DEF Children
<1> QED
  BY <1>1, <1>4 DEF e, s, sizes, kids, text

\* Whatever part of an element is wanted is written.
LEMMA TreeWritten ==
  ASSUME NEW t, IsTree(t), NoPadding => \A k \in DOMAIN t : Dense(t[k])
  PROVE  \A k \in 1 .. Len(t) : Written(t, k)
<1> DEFINE l == Len(t)
           S == {k \in 1 .. l : Written(t, k)}
           text == OnlyFromStart(t)
<1>1. /\ l \in Nat /\ DOMAIN t = 1 .. l
      /\ \A k \in 1 .. l : /\ t[k].kind # "master" => IsLeaf(t[k])
                           /\ t[k].kind = "master" => IsMaster(t, k)
  BY TreeParts
<1>2. \A k \in 1 .. l : Encodable(t[k]) /\ getSize(t[k]) \in Nat
  BY AllEncodable, Modulus
<1>3. ASSUME NEW k \in 1 .. l, \A j \in 1 .. k - 1 : j \in S
      PROVE  k \in S
  <2> DEFINE e == t[k]
             kids == below(outputs(t), e)
             bytes == below(encodings(t), e)
  <2>1. outputs(t)[k] = output(t, k, kids) /\ encodings(t)[k] = encoded(e, bytes)
    BY OutputsExist, EncodingsExist
  <2>2. CASE e.kind = "master"
    <3> DEFINE sizes == sizesBelow(t, e)
               all == HeadBytes(e) \o joined(bytes)
    <3>1. Children(bytes, sizes, kids, text) /\ length(e) = total(sizes)
      <4>1. \A j \in 1 .. k - 1 : Written(t, j)
        BY <1>3
      <4>2. IsMaster(t, k)
        BY <1>1, <2>2
      <4> QED
        BY <4>1, <4>2, ChildrenReady
    <3>2. encodings(t)[k] = all
      BY <2>1, <2>2, Zenon DEF encoded
    <3>3. \A size \in Sizes, offset \in Sizes :
            outputs(t)[k][size][offset] = outputMaster(e, sizes, kids, Fresh(size, offset))
      <4> TAKE size \in Sizes, offset \in Sizes
      <4>1. output(t, k, kids)[size][offset] =
              IF t[k].kind = "master"
              THEN outputMaster(t[k], sizesBelow(t, t[k]), kids, Fresh(size, offset))
              ELSE outputLeaf(t[k], Fresh(size, offset))
        BY OutputOf
      <4> QED
        BY <2>1, <2>2, <4>1, Zenon
    <3>4. Encodable(e) /\ (NeedsStart(e) => text)
      BY <1>1, <1>2 DEF OnlyFromStart
    <3> HIDE DEF e, kids, bytes, sizes, all, text
    <3>5. ASSUME NEW c, IsCursor(c), Within(c, getSize(e), text)
          PROVE  /\ Sequence(all) /\ Len(all) = getSize(e)
                 /\ Writes(c, outputMaster(e, sizes, kids, c), all)
      <4>1. Safe(c, getSize(e)) /\ (text /\ c.size > 0 => c.offset = 0)
        BY <3>5 DEF Within
      <4> QED
        BY <3>1, <3>4, <3>5, <4>1, MasterWritten DEF all
    <3>6. Sequence(all) /\ Len(all) = getSize(e)
      BY <3>5, WithinNothing
    <3>7. Puts(outputs(t)[k], all, text)
      <4> SUFFICES ASSUME NEW size \in Sizes, NEW offset \in Sizes,
                          Within(Fresh(size, offset), Len(all), text)
                   PROVE  Writes(Fresh(size, offset), outputs(t)[k][size][offset], all)
        BY Zenon DEF Puts
      <4>1. IsCursor(Fresh(size, offset))
        BY FreshIsCursor
      <4>2. Writes(Fresh(size, offset), outputMaster(e, sizes, kids, Fresh(size, offset)), all)
        BY <3>5, <3>6, <4>1
      <4> QED
        BY <3>3, <4>2, Zenon
    <3> QED
      BY <3>2, <3>6, <3>7 DEF Written, text, e
  <2>3. CASE e.kind # "master"
    <3>1. IsLeaf(e) /\ Encodable(e) /\ getSize(e) \in Nat
      BY <1>1, <1>2, <2>3, Zenon
    <3>2. NoPadding => Dense(e)
      BY <1>1
    <3>3. NeedsStart(e) => text
      BY <1>1 DEF OnlyFromStart
    <3> HIDE DEF kids, bytes, text
    <3>4. /\ Sequence(encoded(e, bytes)) /\ Len(encoded(e, bytes)) = getSize(e)
          /\ Puts(output(t, k, bytes), encoded(e, bytes), text)
      BY <2>3, <3>1, <3>2, <3>3, LeafPuts
    <3>5. output(t, k, bytes) = output(t, k, kids)
      BY <2>3 DEF output
    <3> QED
      BY <2>1, <3>4, <3>5 DEF Written, text
  <2> QED
    BY <2>2, <2>3 DEF Written
<1> HIDE DEF S
<1>4. \A k \in 1 .. l : k \in S
  BY <1>1, <1>3, ChildrenFirst
<1> QED
  BY <1>4 DEF S

\* What is wanted of a whole tree is written, even when more is asked for.
LEMMA OutputWritten ==
  ASSUME NEW t, IsTree(t), NoPadding => \A k \in DOMAIN t : Dense(t[k]),
         NEW size \in Sizes, NEW offset \in Sizes, Safe(Fresh(size, offset), getSize(Root(t))),
         OnlyFromStart(t) /\ size > 0 => offset = 0
  PROVE  /\ Sequence(Encoding(t)) /\ Len(Encoding(t)) = getSize(Root(t))
         /\ Writes(Fresh(size, offset), outputs(t)[Len(t)][size][offset], Encoding(t))
<1> DEFINE k == Len(t)
           e == Root(t)
           kids == below(outputs(t), e)
           bytes == below(encodings(t), e)
           sizes == sizesBelow(t, e)
           text == OnlyFromStart(t)
           c == Fresh(size, offset)
<1>1. k \in 1 .. k /\ IsMaster(t, k) /\ e = t[k] /\ k \in Nat
  BY TreeParts DEF Root
<1>2. \A j \in 1 .. k : Written(t, j)
  BY TreeWritten
<1>3. Children(bytes, sizes, kids, text) /\ length(e) = total(sizes)
  <2>1. \A j \in 1 .. k - 1 : Written(t, j)
    BY <1>1, <1>2
  <2> QED
    BY <1>1, <2>1, ChildrenReady
<1>4. e.kind = "master"
  BY <1>1 DEF IsMaster
<1>5. outputs(t)[k][size][offset] = outputMaster(e, sizes, kids, c)
  <2>1. outputs(t)[k] = output(t, k, kids)
    BY <1>1, OutputsExist
  <2>2. output(t, k, kids)[size][offset] =
          IF t[k].kind = "master"
          THEN outputMaster(t[k], sizesBelow(t, t[k]), kids, Fresh(size, offset))
          ELSE outputLeaf(t[k], Fresh(size, offset))
    BY OutputOf
  <2> QED
    BY <1>1, <1>4, <2>1, <2>2, Zenon
<1>6. Encoding(t) = HeadBytes(e) \o joined(bytes)
  <2>1. encodings(t)[k] = encoded(e, bytes)
    BY <1>1, EncodingsExist
  <2> QED
    BY <1>4, <2>1, Zenon DEF Encoding, encoded
<1>7. Encodable(e) /\ (NeedsStart(e) => text)
  <2>1. k \in DOMAIN t
    BY <1>1, TreeParts
  <2> QED
    BY <1>1, <2>1, AllEncodable DEF OnlyFromStart
<1>8. IsCursor(c) /\ c.size = size /\ c.offset = offset
  BY FreshIsCursor
<1>9. Safe(c, getSize(e)) /\ (text /\ c.size > 0 => c.offset = 0)
  BY <1>8
<1> HIDE DEF e, kids, bytes, sizes, text, c, k
<1>10. /\ Sequence(HeadBytes(e) \o joined(bytes)) /\ Len(HeadBytes(e) \o joined(bytes)) = getSize(e)
       /\ Writes(c, outputMaster(e, sizes, kids, c), HeadBytes(e) \o joined(bytes))
  BY <1>3, <1>7, <1>8, <1>9, MasterWritten
<1> QED
  BY <1>5, <1>6, <1>10 DEF e, c, k

-----------------------------------------------------------------------------
(* The size of a cluster. *)

\* Only one length of a vint fits.
LEMMA ShortVint == VintSize(Timecode.n) = 1
<1> DEFINE v == Timecode.n
           Fits(n) == v < VintLimits[n] /\ (n = 1 \/ v >= VintLimits[n - 1])
<1>1. /\ \A n \in 1 .. 8 : VintLimits[n] \in Nat
      /\ \A n \in 2 .. 8 : VintLimits[n - 1] < VintLimits[n]
      /\ VintLimits[1] > v /\ v \in Nat
  BY NumbersAssumption DEF Timecode
<1>2. VintSize(v) = CHOOSE n \in 1 .. 8 : Fits(n)
  BY DEF VintSize
<1> HIDE DEF v
<1>3. \A n \in 1 .. 8 : VintLimits[n] > v
  BY <1>1
<1>4. Fits(1)
  BY <1>1
<1>5. \A n \in 1 .. 8 : Fits(n) => n = 1
  <2> TAKE n \in 1 .. 8
  <2>1. n # 1 => n - 1 \in 1 .. 8 /\ VintLimits[n - 1] \in Nat
    BY <1>1
  <2> QED
    BY <1>1, <1>3, <2>1
<1>6. 1 \in 1 .. 8
  OBVIOUS
<1> HIDE DEF Fits
<1> QED
  BY <1>2, <1>4, <1>5, <1>6 DEF v

\* A sequence with one more at its end has that there.
LEMMA Appending ==
  ASSUME NEW s, NEW e, Sequence(s)
  PROVE  Append(s, e)[Len(Append(s, e))] = e
<1>1. PICK S : s \in Seq(S)
  BY DEF Sequence
<1> DEFINE T == S \cup {e}
<1>2. s \in Seq(T) /\ e \in T
  <2>1. Len(s) \in Nat /\ s \in [1 .. Len(s) -> S]
    BY <1>1
  <2>2. s \in [1 .. Len(s) -> T]
    BY <2>1
  <2>3. s \in Seq(T)
    BY <2>1, <2>2, SeqDef
  <2> QED
    BY <2>3
<1> HIDE DEF T
<1> QED
  BY <1>2, AppendProperties

\* What the constructor of clusterlist computes is the size of a cluster.
LEMMA ClusterSize ==
  ASSUME NEW blocks \in Nat, NEW ps, IsFrame(ps), 4 + FrameSize(ps) < VintLimits[8]
  PROVE  getSize(Root(Cluster(blocks, ps))) = ComputedSize(blocks, ps)
<1> DEFINE bs == [i \in 1 .. blocks |-> SimpleBlock(i, ps)]
           cs == <<Timecode>> \o bs
           k == [i \in DOMAIN cs |-> getSize(cs[i])]
           e == Root(Cluster(blocks, ps))
           data == 4 + FrameSize(ps)
           size == 1 + VintSize(data) + data
           f == sums(k)
<1>1. Sequence(bs) /\ Len(bs) = blocks /\ \A i \in 1 .. blocks : bs[i] = SimpleBlock(i, ps)
  <2>1. bs = [i \in 1 .. blocks |-> bs[i]] /\ \A i \in 1 .. blocks : bs[i] = SimpleBlock(i, ps)
    OBVIOUS
  <2> HIDE DEF bs
  <2> QED
    BY <2>1, Tabulated
<1>2. Sequence(<<Timecode>>) /\ Len(<<Timecode>>) = 1 /\ <<Timecode>>[1] = Timecode
  <2> DEFINE t == Timecode
  <2> HIDE DEF t
  <2>1. <<t>> \in Seq({t}) /\ Len(<<t>>) = 1 /\ <<t>>[1] = t
    OBVIOUS
  <2> QED
    BY <2>1 DEF Sequence, t
<1> HIDE DEF bs
<1>3. /\ Sequence(cs) /\ Len(cs) = 1 + blocks /\ cs[1] = Timecode
      /\ \A i \in 1 .. blocks : cs[1 + i] = SimpleBlock(i, ps)
  <2> DEFINE one == <<Timecode>>
  <2>1. Sequence(one) /\ Len(one) = 1 /\ one[1] = Timecode /\ cs = one \o bs
    BY <1>2
  <2> HIDE DEF one, cs
  <2>2. Sequence(one) /\ Sequence(bs)
    BY <1>1, <2>1
  <2>3. Sequence(one \o bs) /\ Len(one \o bs) = Len(one) + Len(bs)
    BY <2>2, Concatenation
  <2>4. \A i \in 1 .. Len(one) : (one \o bs)[i] = one[i]
    BY <2>2, Concatenation
  <2>5. \A i \in 1 .. Len(bs) : (one \o bs)[Len(one) + i] = bs[i]
    BY <2>2, Concatenation
  <2>6. 1 \in 1 .. Len(one)
    BY <2>1
  <2> QED
    BY <1>1, <2>1, <2>3, <2>4, <2>5, <2>6
<1> HIDE DEF cs
<1>4. DOMAIN cs = 1 .. 1 + blocks
  <2>1. PICK S : cs \in Seq(S)
    BY <1>3 DEF Sequence
  <2>2. DOMAIN cs = 1 .. Len(cs)
    BY <2>1
  <2> QED
    BY <1>3, <2>2
<1>5. Len(k) = 1 + blocks /\ \A i \in 1 .. 1 + blocks : k[i] = getSize(cs[i])
  <2>1. 1 + blocks \in Nat
    OBVIOUS
  <2>2. k = [i \in 1 .. 1 + blocks |-> k[i]] /\ \A i \in 1 .. 1 + blocks : k[i] = getSize(cs[i])
    BY <1>4
  <2> HIDE DEF k
  <2>3. Len(k) = 1 + blocks
    BY <2>1, <2>2, Tabulated
  <2> QED
    BY <2>2, <2>3
<1>6. /\ e.id = 4 /\ length(e) = total(k)
  <2> DEFINE root == [name |-> <<"Cluster", 1>>, kind |-> "master", id |-> 4,
                      blocks |-> blocks, planes |-> ps, n |-> total(k),
                      children |-> [i \in DOMAIN cs |-> i]]
  <2>1. Cluster(blocks, ps) = Append(cs, root)
    BY Zenon DEF Cluster, cs, bs
  <2>2. root.id = 4 /\ root.kind = "master" /\ root.n = total(k)
    OBVIOUS
  <2> HIDE DEF root
  <2>3. e = root
    BY <1>3, <2>1, Appending DEF Root
  <2> HIDE DEF e, k
  <2> QED
    BY <2>2, <2>3 DEF length
<1>7. getSize(Timecode) = 6
  BY ShortVint DEF getSize, length, Timecode
<1>8. \A i \in 1 .. blocks : getSize(SimpleBlock(i, ps)) = size
  BY DEF getSize, length, SimpleBlock
<1>9. data \in Nat /\ size \in Nat
  <2> DEFINE e1 == SimpleBlock(1, ps)
  <2>1. e1.planes = ps
    BY DEF SimpleBlock
  <2> HIDE DEF e1
  <2>2. FrameSize(e1.planes) \in Nat
    BY <2>1, FrameLength
  <2>3. data \in Nat /\ data < VintLimits[8]
    BY <2>1, <2>2
  <2>4. VintSize(data) \in 1 .. 8
    BY <2>3, VintWidth
  <2> QED
    BY <2>3, <2>4
<1>10. f[0] = 0 /\ \A i \in 1 .. 1 + blocks : f[i] = f[i - 1] + k[i]
  <2>1. Len(k) \in Nat
    BY <1>5
  <2> HIDE DEF k
  <2>2. f[0] = 0 /\ \A i \in 1 .. Len(k) : f[i] = f[i - 1] + k[i]
    BY <2>1, SumsStep
  <2> QED
    BY <1>5, <2>2
<1>11. total(k) = f[1 + blocks]
  BY <1>5 DEF total
<1>12. /\ ComputedSize(blocks, ps) = 4 + VintSize(6 + size * blocks) + (6 + size * blocks)
       /\ getSize(e) = 4 + VintSize(length(e)) + length(e)
  BY <1>6, Zenon DEF ComputedSize, getSize
<1> HIDE DEF f, k, size, data, e
<1>13. /\ f[1] = 6
       /\ \A n \in 1 .. blocks : f[n + 1] = f[n] + size
  <2>1. /\ 1 \in 1 .. 1 + blocks
        /\ \A n \in 1 .. blocks : n + 1 \in 1 .. 1 + blocks /\ (n + 1) - 1 = n /\ n + 1 = 1 + n
    OBVIOUS
  <2>2. f[1] = 6
    <3>1. f[1] = f[1 - 1] + k[1] /\ 1 - 1 = 0 /\ k[1] = 6
      BY <1>3, <1>5, <1>7, <1>10, <2>1
    <3> QED
      BY <1>10, <3>1
  <2>3. ASSUME NEW n \in 1 .. blocks
        PROVE  f[n + 1] = f[n] + size
    <3>1. cs[n + 1] = SimpleBlock(n, ps) /\ k[n + 1] = getSize(cs[n + 1])
      BY <1>3, <1>5, <2>1
    <3>2. k[n + 1] = size
      BY <1>8, <3>1
    <3>3. f[n + 1] = f[(n + 1) - 1] + k[n + 1] /\ (n + 1) - 1 = n
      BY <1>10, <2>1
    <3> QED
      BY <3>2, <3>3
  <2> QED
    BY <2>2, <2>3
<1> DEFINE T == {n \in 0 .. blocks : f[n + 1] = 6 + size * n}
<1>14. 0 \in T
  <2>1. size * 0 = 0 /\ 0 \in 0 .. blocks
    BY <1>9
  <2> QED
    BY <1>13, <2>1
<1>15. ASSUME NEW n \in 1 .. blocks, n - 1 \in T
       PROVE  n \in T
  <2> DEFINE q == size * (n - 1)
  <2>1. f[(n - 1) + 1] = 6 + q /\ (n - 1) + 1 = n
    BY <1>15
  <2>2. size * n = q + size /\ q \in Int /\ n \in 0 .. blocks
    BY <1>9
  <2> HIDE DEF q
  <2>3. f[n + 1] = f[n] + size
    BY <1>13
  <2>4. f[n + 1] = 6 + size * n
    BY <1>9, <2>1, <2>2, <2>3
  <2> QED
    BY <2>2, <2>4
<1> HIDE DEF T
<1>16. blocks \in T
  BY <1>14, <1>15, NumberInduction
<1>17. length(e) = 6 + size * blocks
  <2>1. 1 + blocks = blocks + 1
    OBVIOUS
  <2> QED
    BY <1>6, <1>16, <1>11, <2>1 DEF T
<1> QED
  BY <1>12, <1>17, Zenon DEF e

-----------------------------------------------------------------------------
(* Reads. *)

\* A file is one of those the program is built with.
LEMMA FileFacts ==
  ASSUME NEW f \in Files
  PROVE  /\ IsTree(f.tree) /\ getSize(Root(f.tree)) \in Nat
         /\ getSize(Root(f.tree)) > 0 /\ getSize(Root(f.tree)) < SizeMax
         /\ f.starts \subseteq 0 .. Page - 1
         /\ OnlyFromStart(f.tree) => \A s \in f.starts : s + getSize(Root(f.tree)) <= Page
         /\ NoPadding => \A k \in DOMAIN f.tree : Dense(f.tree[k])
<1> DEFINE t == f.tree
           size == getSize(Root(t))
<1>1. /\ IsTree(t) /\ f.starts \subseteq 0 .. Page - 1
      /\ OnlyFromStart(t) => \A s \in f.starts : s + size <= Page
  BY FilesAssumption, Zenon
<1>2. NoPadding => \A k \in DOMAIN t : Dense(t[k])
  BY Zenon DEF NoPadding
<1>3. size \in 1 .. SizeMax - 1
  BY <1>1, TreeParts, AllEncodable DEF Root
<1> HIDE DEF t, size
<1>4. size \in Nat /\ size > 0 /\ size < SizeMax
  BY <1>3, Modulus
<1> QED
  BY <1>1, <1>2, <1>4 DEF t, size

\* Of an element of that size, which begins at st, what is between two positions
\* in the file is asked for.
Asked(size, st, first, n, from, stop) ==
  /\ size \in Nat \ {0} /\ st \in 0 .. Page - 1
  /\ first \in 0 .. (st + size - 1) \div Page /\ n \in 1 .. MaxPages
  /\ from = IF first = 0 THEN st ELSE first * Page
  /\ stop \in {(first + n) * Page, least((first + n) * Page, st + size)}

\* The pages that are asked for begin in front of the element or in it, and end
\* at a page or with the element.
LEMMA PagesAsked ==
  ASSUME NEW size, NEW st, NEW first, NEW n, NEW from, NEW stop,
         Asked(size, st, first, n, from, stop)
  PROVE  /\ stop - from \in 0 .. MaxPages * Page /\ from - st \in 0 .. size
         /\ first = 0 => from - st = 0
         /\ stop - from >= 8 \/ from = st \/ (from - st) + (stop - from) >= size
         /\ st + size <= Page => first = 0
<1> DEFINE a == first * Page
           b == (first + n) * Page
           w == n * Page
           m == MaxPages * Page
           end == st + size
           q == (end - 1) \div Page
           c == q * Page
<1>1. /\ Page \in Nat /\ Page >= 8 /\ MaxPages \in Nat
      /\ size \in Nat \ {0} /\ st \in 0 .. Page - 1 /\ n \in 1 .. MaxPages
  BY NumbersAssumption DEF Asked
<1>2. end \in Nat /\ end > st /\ end - 1 \in Nat
  BY <1>1
<1>3. q \in Nat /\ c <= end - 1 /\ (end <= Page => q = 0)
  <2> HIDE DEF end
  <2>1. q \in Nat /\ \E r \in 0 .. Page - 1 : end - 1 = Page * q + r
    <3> DEFINE x == end - 1
    <3>1. x \in Nat /\ q = x \div Page
      BY <1>2
    <3> HIDE DEF x, q
    <3>2. /\ x \div Page \in Nat /\ x % Page \in 0 .. Page - 1
          /\ x = Page * (x \div Page) + (x % Page)
      BY <1>1, <3>1, Z3
    <3>3. q \in Nat /\ \E r \in 0 .. Page - 1 : x = Page * q + r
      BY <3>1, <3>2
    <3> QED
      BY <3>3 DEF x
  <2> HIDE DEF q
  <2>2. PICK r \in 0 .. Page - 1 : end - 1 = Page * q + r
    BY <2>1
  <2>3. c \in Nat /\ Page * q = c
    BY <1>1, <2>1, ProductInNat
  <2>4. c <= end - 1
    BY <1>1, <1>2, <2>2, <2>3
  <2>5. end <= Page => q = 0
    <3>1. q >= 1 => 1 * Page <= c
      BY <1>1, <2>1, ProductMonotone
    <3>2. 1 * Page = Page
      BY <1>1
    <3> HIDE DEF c
    <3> QED
      BY <1>1, <1>2, <2>1, <2>3, <2>4, <3>1, <3>2
  <2> QED
    BY <2>1, <2>4, <2>5
<1>4. first \in Nat /\ n \in Nat /\ n >= 1 /\ first <= q
  <2> HIDE DEF q, end
  <2>1. first \in 0 .. q
    BY DEF Asked, q, end
  <2> QED
    BY <1>1, <1>3, <2>1
<1>5. /\ a \in Nat /\ w \in Nat /\ m \in Nat /\ b = a + w
      /\ a <= c /\ c \in Nat /\ w <= m /\ Page <= w
      /\ first >= 1 => Page <= a
  <2> HIDE DEF q
  <2>1. a \in Nat /\ w \in Nat /\ m \in Nat /\ c \in Nat
    BY <1>1, <1>3, <1>4, ProductInNat
  <2>2. b = a + w
    BY <1>1, <1>4
  <2>3. a <= c /\ w <= m
    BY <1>1, <1>3, <1>4, ProductMonotone
  <2>4. 1 * Page <= w /\ (first >= 1 => 1 * Page <= a)
    BY <1>1, <1>4, ProductMonotone
  <2>5. 1 * Page = Page
    BY <1>1
  <2> QED
    BY <2>1, <2>2, <2>3, <2>4, <2>5
<1>6. from = (IF first = 0 THEN st ELSE a) /\ stop \in {b, least(b, end)}
  BY DEF Asked
<1>7. end = st + size
  OBVIOUS
<1>8. first = 0 => a = 0
  BY <1>1
<1> HIDE DEF a, b, w, m, end, c, q
<1>9. from \in Nat /\ from >= st /\ from < end /\ from >= a /\ (first = 0 \/ from = a)
  BY <1>1, <1>2, <1>3, <1>4, <1>5, <1>6, <1>8
<1>10. stop \in Nat /\ (stop = b \/ (stop = end /\ end <= b))
  BY <1>1, <1>2, <1>5, <1>6 DEF least
<1>11. stop - from \in 0 .. m /\ from - st \in 0 .. size
  <2>1. from <= b
    BY <1>1, <1>4, <1>5, <1>6, <1>8, <1>9
  <2> QED
    BY <1>1, <1>2, <1>5, <1>7, <1>9, <1>10, <2>1
<1>12. stop - from >= 8 \/ from = st \/ (from - st) + (stop - from) >= size
  BY <1>1, <1>2, <1>5, <1>6, <1>7, <1>9, <1>10
<1>13. st + size <= Page => first = 0
  BY <1>3, <1>4, <1>7
<1>14. first = 0 => from - st = 0
  BY <1>1, <1>6
<1> QED
  BY <1>11, <1>12, <1>13, <1>14 DEF m

\* The range that was asked for, and what is in the buffer.
Request == Fresh(read.size, read.offset)
Answer  == Cursor(buffer, written, 0, 0)

\* What holds between reads.
Inv ==
  /\ \E f \in Files : tree = f.tree /\ start \in f.starts
  /\ read.size \in 0 .. MaxPages * Page
  /\ read.offset \in 0 .. getSize(Root(tree))
  /\ Writes(Request, Answer, Encoding(tree))

\* Ranges in an element are less than the modulus.
LEMMA RangeFits ==
  ASSUME NEW size \in 0 .. MaxPages * Page, NEW n \in Nat, n < SizeMax, NEW offset \in 0 .. n
  PROVE  size \in Sizes /\ offset \in Sizes
<1> DEFINE m == MaxPages * Page
<1>1. m \in Nat /\ m < SizeMax /\ SizeMax \in Nat
  BY NumbersAssumption, ProductInNat
<1>2. size \in 0 .. m
  OBVIOUS
<1> HIDE DEF m
<1> QED
  BY <1>1, <1>2 DEF Sizes

\* Nothing has been asked for at first.
LEMMA InitInv == Init => Inv
<1> SUFFICES ASSUME Init
             PROVE  Inv
  OBVIOUS
<1>1. PICK f \in Files : tree = f.tree /\ start \in f.starts
  BY DEF Init
<1>2. read.size = 0 /\ read.offset = 0 /\ buffer = NoBytes /\ written = 0
  BY DEF Init
<1>3. /\ IsTree(tree) /\ getSize(Root(tree)) \in Nat /\ getSize(Root(tree)) < SizeMax
      /\ NoPadding => \A k \in DOMAIN tree : Dense(tree[k])
  BY <1>1, FileFacts
<1>4. 0 \in 0 .. MaxPages * Page /\ 0 \in 0 .. getSize(Root(tree)) /\ 0 \in Sizes
  <2>1. MaxPages * Page \in Nat
    BY NumbersAssumption, ProductInNat
  <2> QED
    BY <1>3, <2>1, Modulus DEF Sizes
<1> DEFINE c == Fresh(0, 0)
<1>5. IsCursor(c) /\ c.size = 0
  BY <1>4, FreshIsCursor
<1>6. Sequence(Encoding(tree))
  <2>1. Safe(c, getSize(Root(tree))) /\ ~(0 > 0)
    BY <1>5 DEF Safe
  <2> QED
    BY <1>3, <1>4, <2>1, OutputWritten
<1>7. Request = c /\ Answer = c
  BY <1>2 DEF Request, Answer, Fresh
<1> HIDE DEF c
<1>8. Writes(c, c, Encoding(tree))
  BY <1>5, <1>6, NothingWanted
<1> QED
  BY <1>1, <1>2, <1>4, <1>7, <1>8 DEF Inv

\* A read that is answered leaves it that way.
LEMMA ReadInv == Inv /\ Read => Inv'
<1> SUFFICES ASSUME Inv, Read
             PROVE  Inv'
  OBVIOUS
<1>1. PICK f \in Files : tree = f.tree /\ start \in f.starts
  BY DEF Inv
<1>2. tree' = tree /\ start' = start
  BY DEF Read
<1> DEFINE size == getSize(Root(tree))
<1>3. /\ IsTree(tree) /\ size \in Nat \ {0} /\ size < SizeMax /\ start \in 0 .. Page - 1
      /\ OnlyFromStart(tree) => start + size <= Page
      /\ NoPadding => \A k \in DOMAIN tree : Dense(tree[k])
  BY <1>1, FileFacts
<1> HIDE DEF size
<1> DEFINE end == start + getSize(Root(tree))
<1>4. PICK first \in 0 .. (end - 1) \div Page, n \in 1 .. MaxPages :
        \E stop \in {(first + n) * Page, least((first + n) * Page, end)} :
          read' = [size |-> stop - (IF first = 0 THEN start ELSE first * Page),
                   offset |-> (IF first = 0 THEN start ELSE first * Page) - start]
  BY Zenon DEF Read
<1> DEFINE from == IF first = 0 THEN start ELSE first * Page
<1>5. PICK stop \in {(first + n) * Page, least((first + n) * Page, end)} :
        read' = [size |-> stop - from, offset |-> from - start]
  BY <1>4
<1>6. (from = IF first = 0 THEN start ELSE first * Page) /\ end = start + size
  BY DEF size
<1> HIDE DEF from, end
<1>7. /\ stop - from \in 0 .. MaxPages * Page /\ from - start \in 0 .. size
      /\ first = 0 => from - start = 0
      /\ stop - from >= 8 \/ from = start \/ (from - start) + (stop - from) >= size
      /\ start + size <= Page => first = 0
  <2>1. size \in Nat \ {0} /\ start \in 0 .. Page - 1
    BY <1>3
  <2>2. Asked(size, start, first, n, from, stop)
    BY <2>1, <1>6 DEF Asked
  <2> QED
    BY <2>2, PagesAsked
<1> DEFINE z == stop - from
           o == from - start
           c == Fresh(z, o)
           r == outputs(tree)[Len(tree)][z][o]
<1>8. read'.size = z /\ read'.offset = o
  BY <1>5
<1>9. z \in 0 .. MaxPages * Page /\ o \in 0 .. size /\ o \in Nat /\ z \in Nat
      /\ (z >= 8 \/ o = 0 \/ o + z >= size)
      /\ (OnlyFromStart(tree) => o = 0)
  <2>1. from = start => from - start = 0
    BY <1>3, <1>7, <1>6
  <2>2. OnlyFromStart(tree) => first = 0
    BY <1>3, <1>7
  <2>3. MaxPages * Page \in Nat
    BY NumbersAssumption, ProductInNat
  <2> QED
    BY <1>3, <1>7, <2>1, <2>2, <2>3
<1> HIDE DEF z, o
<1>10. buffer' = r.buffer /\ written' = r.at
  <2>1. /\ buffer' = outputs(tree)[Len(tree)][read'.size][read'.offset].buffer
        /\ written' = outputs(tree)[Len(tree)][read'.size][read'.offset].at
    BY Zenon DEF Read
  <2> QED
    BY <1>8, <2>1
<1>11. z \in Sizes /\ o \in Sizes
  BY <1>3, <1>9, RangeFits
<1>12. c.size = z /\ c.offset = o
  BY <1>11, FreshIsCursor
<1> HIDE DEF c
<1>13. Safe(c, size)
  BY <1>9, <1>12 DEF Safe
<1>14. Writes(c, r, Encoding(tree))
  <2>1. OnlyFromStart(tree) /\ z > 0 => o = 0
    BY <1>9
  <2>2. Safe(Fresh(z, o), getSize(Root(tree)))
    BY <1>13 DEF c, size
  <2> QED
    BY <1>3, <1>11, <2>1, <2>2, OutputWritten DEF c
<1> HIDE DEF r
<1>15. Writes(c, Cursor(r.buffer, r.at, 0, 0), Encoding(tree))
  <2> DEFINE s == Cursor(r.buffer, r.at, 0, 0)
  <2>1. s.buffer = r.buffer /\ s.at = r.at
    BY DEF Cursor
  <2> HIDE DEF s
  <2>2. Confined(c, s) <=> Confined(c, r)
    BY <2>1, Zenon DEF Confined, Holds
  <2>3. BytesRight(c, s, Encoding(tree)) <=> BytesRight(c, r, Encoding(tree))
    BY <2>1, Zenon DEF BytesRight, Holds
  <2>4. Writes(c, s, Encoding(tree))
    BY <1>14, <2>1, <2>2, <2>3, Zenon DEF Writes
  <2> QED
    BY <2>4 DEF s
<1>16. Request' = c /\ Answer' = Cursor(r.buffer, r.at, 0, 0)
  BY <1>8, <1>10 DEF Request, Answer, c
<1>17. Writes(Request', Answer', Encoding(tree'))
  BY <1>2, <1>15, <1>16
<1>18. /\ \E g \in Files : tree' = g.tree /\ start' \in g.starts
       /\ read'.size \in 0 .. MaxPages * Page /\ read'.offset \in 0 .. getSize(Root(tree'))
  BY <1>1, <1>2, <1>8, <1>9 DEF size
<1>19. (Writes(Request, Answer, Encoding(tree)))'
  BY <1>17 DEF Writes, Confined, BytesRight, Clean, Holds, NoPadding
<1> QED
  BY <1>18, <1>19 DEF Inv

\* It holds in every state that can be reached.
LEMMA Invariance == Spec => []Inv
<1>1. Init => Inv
  BY InitInv
<1>2. Inv /\ [Next]_vars => Inv'
  <2>1. CASE Read
    BY <2>1, ReadInv
  <2>2. CASE UNCHANGED vars
    BY <2>2 DEF Inv, vars, Request, Answer, Writes, Confined, BytesRight, Clean, Holds, NoPadding
  <2> QED
    BY <2>1, <2>2 DEF Next
<1> QED
  BY <1>1, <1>2, PTL DEF Spec

\* What the invariant says of the range and the count.
LEMMA RangeFacts ==
  ASSUME Inv
  PROVE  /\ IsTree(tree) /\ Len(Encoding(tree)) = getSize(Root(tree))
         /\ getSize(Root(tree)) \in Nat
         /\ read.size \in Nat /\ read.offset \in Nat /\ read.offset <= getSize(Root(tree))
         /\ written = least(read.size, Available) /\ written \in 0 .. read.size
         /\ written = Amount(Request, Len(Encoding(tree)))
         /\ Request.at = 0 /\ Request.size = read.size /\ Request.offset = read.offset
         /\ Answer.buffer = buffer
<1> DEFINE n == getSize(Root(tree))
           z == read.size
           o == read.offset
<1>1. PICK f \in Files : tree = f.tree /\ start \in f.starts
  BY DEF Inv
<1>2. /\ IsTree(tree) /\ n \in Nat /\ n < SizeMax
      /\ NoPadding => \A k \in DOMAIN tree : Dense(tree[k])
  BY <1>1, FileFacts
<1>3. Len(Encoding(tree)) = n
  <2>1. 0 \in Sizes /\ ~(0 > 0)
    BY Modulus DEF Sizes
  <2>2. Safe(Fresh(0, 0), n)
    BY <2>1, FreshIsCursor DEF Safe
  <2> QED
    BY <1>2, <2>1, <2>2, OutputWritten
<1>4. z \in Nat /\ o \in Nat /\ o <= n
  <2>1. MaxPages * Page \in Nat
    BY NumbersAssumption, ProductInNat
  <2>2. z \in 0 .. MaxPages * Page /\ o \in 0 .. n
    BY DEF Inv
  <2> HIDE DEF n, z, o
  <2> QED
    BY <1>2, <2>1, <2>2
<1>5. /\ Request.at = 0 /\ Request.size = z /\ Request.offset = o
      /\ Answer.buffer = buffer /\ Answer.at = written
  BY DEF Request, Answer, Fresh, Cursor
<1>6. written = 0 + Amount(Request, n)
  BY <1>3, <1>5 DEF Inv, Writes
<1>7. Amount(Request, n) = IF o < n THEN least(n - o, z) ELSE 0
  BY <1>5 DEF Amount
<1>8. Available = n - o
  BY DEF Available
<1> HIDE DEF n, z, o
<1>9. /\ Amount(Request, n) = least(z, n - o) /\ Amount(Request, n) \in 0 .. z
  BY <1>2, <1>4, <1>7 DEF least
<1>10. written = Amount(Request, n)
  BY <1>4, <1>6, <1>9
<1> QED
  BY <1>2, <1>3, <1>4, <1>5, <1>8, <1>9, <1>10 DEF n, z, o

\* Nothing is written outside of what was asked for: output of an element, of
\* its head, its children and their frames stays in the buffer it is given.
THEOREM OutputTypeOK == Spec => []TypeOK
<1>1. Inv => TypeOK
  <2> SUFFICES ASSUME Inv
               PROVE  TypeOK
    OBVIOUS
  <2>1. /\ read.size \in 0 .. MaxPages * Page /\ read.offset \in 0 .. getSize(Root(tree))
        /\ written \in 0 .. read.size
    BY RangeFacts DEF Inv
  <2>2. DOMAIN Answer.buffer \subseteq
          DOMAIN Request.buffer \cup Request.at .. Request.at + Request.size - 1
    BY DEF Inv, Writes, Confined
  <2>3. Request.buffer = NoBytes /\ DOMAIN NoBytes = {}
    BY DEF Request, Fresh, Cursor, NoBytes
  <2>4. DOMAIN buffer \subseteq 0 .. 0 + read.size - 1
    BY <2>2, <2>3, RangeFacts
  <2>5. 0 + read.size = read.size
    BY RangeFacts
  <2> QED
    BY <2>1, <2>4, <2>5 DEF TypeOK
<1> QED
  BY <1>1, Invariance, PTL

\* The count that output returns reaches to the end of the range or of the
\* element, and a cluster ends where the constructor of clusterlist says.
THEOREM OutputCountRight == Spec => []CountRight
<1>1. Inv => CountRight
  <2> SUFFICES ASSUME Inv
               PROVE  CountRight
    OBVIOUS
  <2>1. PICK f \in Files : tree = f.tree /\ start \in f.starts
    BY DEF Inv
  <2>2. ASSUME IsCluster(Root(tree))
        PROVE  getSize(Root(tree)) = ComputedSize(Root(tree).blocks, Root(tree).planes)
    <3> DEFINE blocks == Root(tree).blocks
               ps == Root(tree).planes
    <3>1. /\ tree = Cluster(blocks, ps) /\ blocks \in Nat /\ IsFrame(ps)
          /\ 4 + FrameSize(ps) < VintLimits[8]
      BY <2>1, <2>2, FilesAssumption, Zenon
    <3> HIDE DEF blocks, ps
    <3>2. getSize(Root(Cluster(blocks, ps))) = ComputedSize(blocks, ps)
      BY <3>1, ClusterSize, Zenon
    <3> QED
      BY <3>1, <3>2, Zenon DEF blocks, ps
  <2>3. written = least(read.size, Available)
    BY RangeFacts
  <2> QED
    BY <2>2, <2>3 DEF CountRight
<1> QED
  BY <1>1, Invariance, PTL

\* A byte that is right in the answer is so in the buffer.
LEMMA AnswerRight ==
  ASSUME Inv, NoPadding, NEW i \in 0 .. written - 1,
         PartOf(read.offset + i + 1) = "frame" \/ Clean(Request, Encoding(tree))
  PROVE  i \in DOMAIN buffer /\ Right(i)
<1>1. /\ written = Amount(Request, Len(Encoding(tree)))
      /\ Request.at = 0 /\ Request.offset = read.offset /\ Answer.buffer = buffer
  BY RangeFacts
<1>2. BytesRight(Request, Answer, Encoding(tree))
  BY DEF Inv, Writes
<1>3. Holds(Answer, 0 + i, Encoding(tree)[read.offset + i + 1])
  BY <1>1, <1>2 DEF BytesRight, PartOf
<1>4. 0 + i = i
  OBVIOUS
<1> QED
  BY <1>1, <1>3, <1>4 DEF Holds, Right

\* Without padding between rows, pixels are at their place, however the range
\* cuts the bytes before them.  With padding they are not: read_ptr moves on by
\* what was copied of the first row, see ElementOutput_stride.cfg.
THEOREM PixelsRight == NoPadding => (Spec => []FrameBytesRight)
<1> SUFFICES ASSUME NoPadding
             PROVE  Spec => []FrameBytesRight
  OBVIOUS
<1>1. Inv => FrameBytesRight
  BY AnswerRight DEF FrameBytesRight
<1> QED
  BY <1>1, Invariance, PTL

\* Without padding between rows, a range that begins and ends where the code can
\* cut is answered with exactly that slice of the encoding.
THEOREM CleanSlices == NoPadding => (Spec => []CleanCutsRight)
<1> SUFFICES ASSUME NoPadding
             PROVE  Spec => []CleanCutsRight
  OBVIOUS
<1>1. Inv => CleanCutsRight
  <2> SUFFICES ASSUME Inv, read.size > 0, ~BadCut
               PROVE  \A i \in 0 .. written - 1 : i \in DOMAIN buffer /\ Right(i)
    BY DEF CleanCutsRight
  <2>1. Clean(Request, Encoding(tree))
    BY RangeFacts DEF Clean, BadCut
  <2> QED
    BY <2>1, AnswerRight
<1> QED
  BY <1>1, Invariance, PTL

-----------------------------------------------------------------------------
(* Report. *)

\* What is before the content of an element is reported as what it is.
LEMMA HeadReported ==
  ASSUME NEW e, e.id \in Nat, VintSize(length(e)) \in Nat, NEW offset \in 0 .. HeadSize(e) - 1
  PROVE  \E part \in {"id", "length"}, n \in Nat :
           /\ <<e.name>> \o reportHead(e, offset) = <<e.name, part>>
           /\ HeadBytes(e)[offset + 1] = <<e.name, part, n>>
<1> DEFINE v == VintSize(length(e))
           a == numbered(e, "id", e.id)
           b == numbered(e, "length", v)
<1>1. HeadBytes(e) = a \o b
  BY DEF HeadBytes
<1>2. /\ Sequence(a) /\ Len(a) = e.id /\ \A i \in 1 .. e.id : a[i] = <<e.name, "id", i>>
      /\ Sequence(b) /\ Len(b) = v /\ \A i \in 1 .. v : b[i] = <<e.name, "length", i>>
  BY Numbers
<1>3. HeadSize(e) = e.id + v
  BY DEF HeadSize
<1>4. v \in Nat
  OBVIOUS
<1> HIDE DEF a, b, v
<1>5. /\ \A i \in 1 .. e.id : (a \o b)[i] = a[i]
      /\ \A i \in 1 .. v : (a \o b)[e.id + i] = b[i]
  BY <1>2, Concatenation
<1>6. CASE offset < e.id
  <2>1. offset + 1 \in 1 .. e.id /\ offset + 1 \in Nat
    BY <1>3, <1>4, <1>6
  <2>2. HeadBytes(e)[offset + 1] = <<e.name, "id", offset + 1>>
    BY <1>1, <1>2, <1>5, <2>1
  <2>3. reportHead(e, offset) = <<"id">> \o <<>>
    BY <1>6 DEF reportHead, reportVint
  <2>4. <<e.name>> \o reportHead(e, offset) = <<e.name, "id">>
    BY <2>3, JoinedPair, Zenon
  <2> QED
    BY <2>1, <2>2, <2>4
<1>7. CASE ~(offset < e.id)
  <2> DEFINE i == offset - e.id + 1
  <2>1. i \in 1 .. v /\ i \in Nat /\ offset + 1 = e.id + i
    BY <1>3, <1>4, <1>7
  <2>2. offset - e.id < v
    BY <1>3, <1>4, <1>7
  <2> HIDE DEF i
  <2>3. HeadBytes(e)[offset + 1] = <<e.name, "length", i>>
    BY <1>1, <1>2, <1>5, <2>1
  <2>4. reportHead(e, offset) = <<>> \o <<"length">>
    BY <1>7, <2>2 DEF reportHead, reportVint, v
  <2>5. <<e.name>> \o reportHead(e, offset) = <<e.name, "length">>
    BY <2>4, JoinedPair, Zenon
  <2> QED
    BY <2>1, <2>3, <2>5
<1> QED
  BY <1>6, <1>7

\* The last line says which byte of an element this is.
Ends(last, e, byte) ==
  /\ byte[1] = e.name
  /\ IF byte[2] = "frame"
     THEN e.kind = "block" /\ last[1] = "data" /\ Body(e)[last[2] + 1] = byte
     ELSE last = Shown(byte[2], byte[3])

\* The head is as long as its parts.
LEMMA HeadLength ==
  ASSUME NEW e, e.id \in Nat, VintSize(length(e)) \in Nat
  PROVE  HeadSize(e) \in Nat /\ Sequence(HeadBytes(e)) /\ Len(HeadBytes(e)) = HeadSize(e)
<1> DEFINE a == numbered(e, "id", e.id)
           b == numbered(e, "length", VintSize(length(e)))
<1>1. Sequence(a) /\ Len(a) = e.id /\ Sequence(b) /\ Len(b) = VintSize(length(e))
  BY Numbers
<1>2. HeadBytes(e) = a \o b
  BY DEF HeadBytes
<1> HIDE DEF a, b
<1>3. Sequence(a \o b) /\ Len(a \o b) = Len(a) + Len(b)
  BY <1>1, Concatenation
<1> QED
  BY <1>1, <1>2, <1>3 DEF HeadSize

\* The last line for a byte in the head.
LEMMA HeadEnds ==
  ASSUME NEW e, e.id \in Nat, VintSize(length(e)) \in Nat, NEW offset \in 0 .. HeadSize(e) - 1
  PROVE  \E last : /\ <<e.name>> \o reportHead(e, offset) = <<e.name, last>>
                   /\ Ends(last, e, HeadBytes(e)[offset + 1])
<1> DEFINE byte == HeadBytes(e)[offset + 1]
<1>1. PICK part \in {"id", "length"}, n \in Nat :
        <<e.name>> \o reportHead(e, offset) = <<e.name, part>> /\ byte = <<e.name, part, n>>
  BY HeadReported
<1> HIDE DEF byte
<1>2. byte[1] = e.name /\ byte[2] = part /\ byte[3] = n
  BY <1>1
<1>3. part # "frame" /\ Shown(part, n) = part
  BY DEF Shown
<1>4. Ends(part, e, byte)
  BY <1>2, <1>3, Zenon DEF Ends
<1> QED
  BY <1>1, <1>4 DEF byte

\* The content of a leaf, byte by byte.
LEMMA BodyReported ==
  ASSUME NEW e, IsLeaf(e), NEW at \in 0 .. length(e) - 1
  PROVE  Ends(IF e.kind = "block" THEN <<IF at < 4 THEN "header" ELSE "data", at>> ELSE "value",
              e, Body(e)[at + 1])
<1> DEFINE byte == Body(e)[at + 1]
<1>1. ASSUME NEW part \in {"value", "float", "string"}, e.n \in Nat, length(e) = e.n,
             Body(e) = numbered(e, part, e.n), e.kind # "block"
      PROVE  Ends("value", e, byte)
  <2>1. at + 1 \in 1 .. e.n
    BY <1>1
  <2>2. byte = <<e.name, part, at + 1>>
    BY <1>1, <2>1, Numbers
  <2> HIDE DEF byte
  <2>3. byte[1] = e.name /\ byte[2] = part /\ byte[3] = at + 1
    BY <2>2
  <2>4. part # "frame" /\ Shown(part, at + 1) = "value"
    BY DEF Shown
  <2> QED
    BY <2>3, <2>4, Zenon DEF Ends
<1>2. CASE e.kind = "integer" /\ e.n \in 1 .. 8
  <2>1. length(e) = e.n /\ e.n \in Nat
    BY <1>2 DEF length
  <2>2. Body(e) = ValueBytes(e) /\ at + 1 \in 1 .. e.n
    BY <1>2, <2>1 DEF Body, ValueBytes
  <2>3. byte = <<e.name, "value", at + 1, e.n>>
    BY <2>1, <2>2, ValueNumbers
  <2> HIDE DEF byte
  <2>4. byte[1] = e.name /\ byte[2] = "value"
    BY <2>3
  <2>5. Shown("value", byte[3]) = "value"
    BY DEF Shown
  <2>6. Ends("value", e, byte)
    BY <2>4, <2>5, Zenon DEF Ends
  <2> QED
    BY <1>2, <2>6 DEF byte
<1>3. CASE e.kind = "floating" /\ e.n = 4
  <2>1. length(e) = e.n /\ e.n \in Nat /\ Body(e) = numbered(e, "float", e.n)
    BY <1>3 DEF length, Body
  <2> QED
    BY <1>1, <1>3, <2>1
<1>4. CASE e.kind = "string" /\ e.n \in Nat
  <2>1. length(e) = e.n /\ Body(e) = numbered(e, "string", e.n)
    BY <1>4 DEF length, Body
  <2> QED
    BY <1>1, <1>4, <2>1
<1>5. CASE e.kind = "block" /\ IsFrame(e.planes)
  <2> DEFINE header == numbered(e, "header", 4)
             pixels == Pixels(e)
             s == PlaneParts(e)
             size == FrameSize(e.planes)
  <2>1. length(e) = 4 + size /\ Body(e) = header \o pixels
    BY <1>5 DEF length, Body, Pixels
  <2>2. /\ size \in Nat /\ Sequence(pixels) /\ Len(pixels) = size
        /\ Len(s) = Len(e.planes)
        /\ \A p \in 1 .. Len(e.planes) : s[p] = PlaneBytes(e, p) /\ Sequence(PlaneBytes(e, p))
    BY <1>5, FrameLength
  <2>3. 4 \in Nat
    OBVIOUS
  <2>4. /\ Sequence(header) /\ Len(header) = 4
        /\ \A i \in 1 .. 4 : header[i] = <<e.name, "header", i>>
    BY <2>3, Numbers, Zenon
  <2>5. pixels = joined(s)
    BY Zenon DEF Pixels, PlaneParts
  <2>6. /\ Len(e.planes) \in Nat
        /\ \A p \in 1 .. Len(e.planes) : IsPlane(e.planes[p])
    BY <1>5 DEF IsFrame, IsSequence, IsPlane
  <2> HIDE DEF header, pixels, s, size
  <2>7. /\ \A i \in 1 .. 4 : (header \o pixels)[i] = header[i]
        /\ \A i \in 1 .. size : (header \o pixels)[4 + i] = pixels[i]
    <3>1. Sequence(header) /\ Sequence(pixels)
      BY <2>2, <2>4
    <3>2. /\ \A i \in 1 .. Len(header) : (header \o pixels)[i] = header[i]
          /\ \A i \in 1 .. Len(pixels) : (header \o pixels)[Len(header) + i] = pixels[i]
      BY <3>1, Concatenation
    <3> QED
      BY <2>2, <2>4, <3>2
  <2>8. CASE at < 4
    <3>1. at + 1 \in 1 .. 4
      BY <2>8
    <3>2. byte = <<e.name, "header", at + 1>>
      BY <2>1, <2>4, <2>7, <3>1
    <3> HIDE DEF byte
    <3>3. byte[1] = e.name /\ byte[2] = "header" /\ byte[3] = at + 1
      BY <3>2
    <3>4. Shown("header", at + 1) = <<"header", at>>
      BY DEF Shown
    <3>5. Ends(<<"header", at>>, e, byte)
      BY <3>3, <3>4, Zenon DEF Ends
    <3> QED
      BY <1>5, <2>8, <3>5 DEF byte
  <2>9. CASE ~(at < 4)
    <3> DEFINE i == at - 3
    <3>1. i \in 1 .. size /\ at + 1 = 4 + i
      BY <2>1, <2>2, <2>9
    <3> HIDE DEF i
    <3>2. byte = pixels[i]
      BY <2>1, <2>7, <3>1
    <3>3. PICK p \in 1 .. Len(s) : \E j \in 1 .. Len(s[p]) : pixels[i] = s[p][j]
      BY <2>2, <2>5, <2>6, <3>1, JoinsOrigin
    <3>4. PICK j \in 1 .. Len(s[p]) : pixels[i] = s[p][j]
      BY <3>3
    <3>5. byte = PlaneBytes(e, p)[j] /\ j \in 1 .. PlaneSize(e.planes[p]) /\ IsPlane(e.planes[p])
      BY <2>2, <2>6, <3>2, <3>4, PlaneNumbers
    <3>6. byte[1] = e.name /\ byte[2] = "frame"
      BY <3>5 DEF PlaneBytes
    <3> DEFINE last == <<"data", at>>
    <3>7. last[1] = "data" /\ Body(e)[last[2] + 1] = byte
      OBVIOUS
    <3> HIDE DEF byte, last
    <3>8. Ends(last, e, byte)
      BY <1>5, <3>6, <3>7, Zenon DEF Ends
    <3> QED
      BY <1>5, <2>9, <3>8 DEF byte, last
  <2> QED
    BY <2>8, <2>9
<1> QED
  BY <1>2, <1>3, <1>4, <1>5 DEF IsLeaf

\* Every byte of a leaf is reported as what it is.
LEMMA LeafReported ==
  ASSUME NEW e, IsLeaf(e), Encodable(e), NEW offset \in 0 .. getSize(e) - 1
  PROVE  \E last : /\ reportLeaf(e, offset) = <<e.name, last>>
                   /\ Ends(last, e, (HeadBytes(e) \o Body(e))[offset + 1])
<1> DEFINE head == HeadBytes(e)
           body == Body(e)
           h == HeadSize(e)
           n == length(e)
           at == offset - h
           content == IF e.kind = "block" THEN <<IF at < 4 THEN "header" ELSE "data", at>>
                                          ELSE "value"
           byte == (head \o body)[offset + 1]
<1>1. n \in Nat /\ Sequence(body) /\ Len(body) = n
  BY LeafParts
<1>2. e.id \in Nat /\ VintSize(n) \in Nat
  BY <1>1, VintWidth DEF Encodable
<1>3. h \in Nat /\ Sequence(head) /\ Len(head) = h
  BY <1>2, HeadLength
<1>4. getSize(e) = h + n
  BY <1>1, <1>2 DEF getSize, HeadSize
<1>5. reportLeaf(e, offset) = reportLines(e, offset, content)
  <2>1. e.kind \in {"integer", "floating", "string", "block"}
    BY DEF IsLeaf
  <2> QED
    BY <2>1 DEF reportLeaf, reportInteger, reportFloating, reportString, reportBlock
<1>6. offset \in Int /\ 0 <= offset /\ offset < getSize(e)
  BY <1>1, <1>3, <1>4
<1> HIDE DEF head, body, h, n
<1>7. Sequence(head) /\ Sequence(body)
  BY <1>1, <1>3
<1>8. /\ \A i \in 1 .. Len(head) : (head \o body)[i] = head[i]
      /\ \A i \in 1 .. Len(body) : (head \o body)[Len(head) + i] = body[i]
  BY <1>7, Concatenation
<1>9. CASE offset < h
  <2>1. reportLeaf(e, offset) = <<e.name>> \o reportHead(e, offset)
    BY <1>1, <1>3, <1>4, <1>5, <1>6, <1>9 DEF reportLines, h
  <2>2. offset \in 0 .. h - 1 /\ offset + 1 \in 1 .. h
    BY <1>3, <1>6, <1>9
  <2>3. byte = head[offset + 1]
    BY <1>3, <1>8, <2>2
  <2>4. \E last : <<e.name>> \o reportHead(e, offset) = <<e.name, last>>
                  /\ Ends(last, e, head[offset + 1])
    BY <1>2, <2>2, HeadEnds DEF h, head, n
  <2> QED
    BY <2>1, <2>3, <2>4, Zenon DEF byte, head, body
<1>10. CASE ~(offset < h)
  <2>1. reportLeaf(e, offset) = <<e.name, content>>
    <3> HIDE DEF content
    <3> QED
      BY <1>1, <1>3, <1>4, <1>5, <1>6, <1>10 DEF reportLines, h
  <2>2. at \in 0 .. n - 1 /\ at + 1 \in 1 .. n /\ offset + 1 = h + (at + 1)
    BY <1>1, <1>3, <1>4, <1>6, <1>10
  <2>3. byte = body[at + 1]
    BY <1>1, <1>3, <1>8, <2>2
  <2> HIDE DEF at, byte
  <2>4. Ends(content, e, body[at + 1])
    BY <2>2, BodyReported DEF n, body
  <2> HIDE DEF content
  <2> QED
    BY <2>1, <2>3, <2>4 DEF byte, head, body
<1> QED
  BY <1>9, <1>10

\* f has the reports of all elements in S.
Reports(f, t, S) == f = [k \in S |-> report(t, k, below(f, t[k]))]

\* There is a report of every element.
LEMMA ReportsExist ==
  ASSUME NEW t, IsTree(t)
  PROVE  \A k \in 1 .. Len(t) : reports(t)[k] = report(t, k, below(reports(t), t[k]))
<1> DEFINE l == Len(t)
           T == {m \in 0 .. l : \E f : Reports(f, t, 1 .. m)}
<1>1. l \in Nat /\ DOMAIN t = 1 .. l
  BY TreeParts
<1>2. ASSUME NEW k \in 1 .. l, NEW f, NEW g, \A j \in 1 .. k - 1 : f[j] = g[j]
      PROVE  below(f, t[k]) = below(g, t[k])
  BY <1>2, BelowAgrees
<1> HIDE DEF l
<1>3. 0 \in T
  <2>1. Reports([k \in 1 .. 0 |-> 0], t, 1 .. 0)
    BY DEF Reports
  <2> QED
    BY <1>1, <2>1
<1>4. ASSUME NEW m \in 1 .. l, m - 1 \in T
      PROVE  m \in T
  <2>1. PICK g : Reports(g, t, 1 .. m - 1)
    BY <1>4
  <2>2. m \in Nat /\ m \in 0 .. l
    BY <1>1
  <2>3. \A k \in 1 .. m - 1 : g[k] = report(t, k, below(g, t[k]))
    BY <2>1, Zenon DEF Reports
  <2> DEFINE h == [k \in 1 .. m |-> IF k = m THEN report(t, m, below(g, t[m])) ELSE g[k]]
  <2>4. h = [k \in 1 .. m |-> h[k]]
    OBVIOUS
  <2>5. /\ m \in 1 .. m /\ h[m] = report(t, m, below(g, t[m]))
        /\ \A k \in 1 .. m - 1 : h[k] = g[k]
    BY <2>2
  <2> HIDE DEF h
  <2>6. ASSUME NEW k \in 1 .. m
        PROVE  h[k] = report(t, k, below(h, t[k]))
    <3>1. k \in 1 .. l /\ \A j \in 1 .. k - 1 : h[j] = g[j]
      BY <1>1, <2>2, <2>5
    <3>2. below(h, t[k]) = below(g, t[k])
      BY <1>2, <3>1
    <3>3. CASE k = m
      BY <2>5, <3>2, <3>3
    <3>4. CASE k # m
      <4>1. k \in 1 .. m - 1
        BY <2>2, <3>4
      <4> QED
        BY <2>3, <2>5, <3>2, <4>1
    <3> QED
      BY <3>3, <3>4
  <2>7. Reports(h, t, 1 .. m)
    BY <2>4, <2>6, Zenon DEF Reports
  <2> QED
    BY <2>2, <2>7
<1>5. \E f : Reports(f, t, DOMAIN t)
  <2> HIDE DEF T
  <2>1. l \in T
    BY <1>1, <1>3, <1>4, NumberInduction
  <2> QED
    BY <1>1, <2>1 DEF T
<1> DEFINE f == CHOOSE f : Reports(f, t, DOMAIN t)
<1>6. Reports(f, t, DOMAIN t)
  BY <1>5
<1>7. reports(t) = f
  BY Zenon DEF reports, Reports
<1> HIDE DEF f
<1> QED
  BY <1>1, <1>6, <1>7, Zenon DEF Reports, l


\* The report of the children is that of the one that has the byte.
Finds(e, s, sizes, kids, offset) ==
  \E i \in 1 .. Len(sizes) : \E at \in 0 .. sizes[i] - 1 :
    /\ reportChildren(e, sizes, kids, offset) = kids[i][at]
    /\ joined(s)[offset + 1] = s[i][at + 1]

\* It is the first one that ends behind it.
LEMMA ChildFound ==
  ASSUME NEW e, NEW s, NEW sizes, NEW out, NEW text, Children(s, sizes, out, text),
         NEW kids, DOMAIN sizes = 1 .. Len(sizes),
         NEW offset \in 0 .. total(sizes) - 1, offset < getSize(e)
  PROVE  Finds(e, s, sizes, kids, offset)
<1> DEFINE l == Len(sizes)
           g == sums(sizes)
           found == {i \in DOMAIN sizes : offset < g[i - 1] + sizes[i]}
           child == CHOOSE i \in found : \A k \in found : i <= k
<1>1. /\ sizes \in Seq(Nat) /\ Len(s) = Len(sizes)
      /\ \A i \in 1 .. Len(s) : Sequence(s[i]) /\ Len(s[i]) = sizes[i]
  BY Zenon DEF Children
<1>2. /\ l \in Nat /\ Len(s) = l /\ DOMAIN sizes = 1 .. l
      /\ \A i \in 1 .. l : sizes[i] \in Nat
  BY <1>1, LenProperties, ElementOfSeq
<1>3. g[0] = 0 /\ \A i \in 1 .. l : g[i] = g[i - 1] + sizes[i]
  BY <1>2, SumsStep
<1>4. \A i \in 0 .. l : g[i] \in Nat
  BY <1>1, SumsGrow
<1>5. \A i \in 1 .. l : \A j \in 1 .. sizes[i] : joined(s)[g[i - 1] + j] = s[i][j]
  <2>1. \A i \in 1 .. Len(s) : Sequence(s[i]) /\ sizes[i] = Len(s[i])
    BY <1>1
  <2>2. \A i \in 1 .. Len(s) : \A j \in 1 .. sizes[i] : joined(s)[sums(sizes)[i - 1] + j] = s[i][j]
    BY <1>2, <2>1, JoinsPlace
  <2> QED
    BY <1>2, <2>2
<1>6. total(sizes) = g[l]
  BY DEF total
<1>7. reportChildren(e, sizes, kids, offset) =
        IF found # {} THEN kids[child][offset - g[child - 1]] ELSE <<>>
  <2>1. reportChildren(e, sizes, kids, offset) =
          IF offset < getSize(e) /\ found # {}
          THEN kids[child][offset - g[child - 1]] ELSE <<>>
    BY Zenon DEF reportChildren
  <2> QED
    BY <2>1, Zenon
<1>8. offset \in Nat /\ offset < total(sizes)
  BY <1>1, TotalInNat
<1> HIDE DEF l, g
<1>9. found # {}
  <2>1. l # 0
    BY <1>3, <1>6, <1>8
  <2>2. l \in 1 .. l
    BY <1>2, <2>1
  <2>3. offset < g[l - 1] + sizes[l]
    BY <1>3, <1>6, <1>8, <2>2
  <2> QED
    BY <1>2, <2>2, <2>3
<1>10. child \in found /\ \A j \in found : child <= j
  <2>1. found \in SUBSET Nat
    BY <1>2
  <2> HIDE DEF found
  <2>2. \E i \in found : \A j \in found : i <= j
    BY <1>9, <2>1, LeastNumber
  <2> QED
    BY <2>2
<1>11. child \in 1 .. l /\ offset < g[child - 1] + sizes[child]
  BY <1>2, <1>10
<1>12. g[child - 1] <= offset
  <2>1. CASE child = 1
    <3> HIDE DEF child
    <3>1. g[child - 1] = 0
      BY <1>3, <2>1
    <3> QED
      BY <1>8, <3>1
  <2>2. CASE child # 1
    <3> DEFINE i == child - 1
    <3>1. i \in 1 .. l /\ ~(child <= i)
      BY <1>2, <1>11, <2>2
    <3>2. ~(offset < g[i - 1] + sizes[i])
      BY <1>2, <1>10, <3>1
    <3>3. g[i] = g[i - 1] + sizes[i] /\ g[i] \in Nat
      BY <1>2, <1>3, <1>4, <3>1
    <3> HIDE DEF child
    <3> QED
      BY <1>8, <3>2, <3>3
  <2> QED
    BY <2>1, <2>2
<1> DEFINE at == offset - g[child - 1]
<1>13. reportChildren(e, sizes, kids, offset) = kids[child][at]
  BY <1>7, <1>9
<1> HIDE DEF child, found
<1>14. g[child - 1] \in Nat /\ sizes[child] \in Nat
  BY <1>2, <1>4, <1>11
<1>15. /\ at \in 0 .. sizes[child] - 1 /\ at + 1 \in 1 .. sizes[child]
       /\ offset + 1 = g[child - 1] + (at + 1)
  BY <1>8, <1>11, <1>12, <1>14
<1>16. joined(s)[offset + 1] = s[child][at + 1]
  <2> HIDE DEF at
  <2> QED
    BY <1>5, <1>11, <1>15
<1> HIDE DEF at
<1> QED
  BY <1>11, <1>13, <1>15, <1>16 DEF l, Finds

\* The lines lead from element k of a tree to a byte.
Leads(t, lines, k, byte) ==
  LET last == lines[Len(lines)]
  IN /\ Sequence(lines) /\ Len(lines) >= 2
     /\ lines[1] = t[k].name
     /\ \A l \in 1 .. Len(lines) - 2 : \E parent \in DOMAIN t :
          /\ t[parent].kind = "master" /\ t[parent].name = lines[l]
          /\ \E i \in DOMAIN t[parent].children : t[t[parent].children[i]].name = lines[l + 1]
     /\ lines[Len(lines) - 1] = byte[1]
     /\ IF byte[2] = "frame"
        THEN /\ last[1] = "data"
             /\ \E block \in DOMAIN t :
                  /\ t[block].kind = "block" /\ t[block].name = byte[1]
                  /\ Body(t[block])[last[2] + 1] = byte
        ELSE last = Shown(byte[2], byte[3])

\* A line with the last one.
LEMMA EndLeads ==
  ASSUME NEW t, NEW k \in DOMAIN t, NEW last, NEW byte, Ends(last, t[k], byte)
  PROVE  Leads(t, <<t[k].name, last>>, k, byte)
<1> DEFINE name == t[k].name
           lines == <<name, last>>
<1>1. Sequence(lines) /\ Len(lines) = 2 /\ lines[1] = name /\ lines[2] = last
  <2> HIDE DEF name
  <2>1. lines \in Seq({name, last}) /\ Len(lines) = 2 /\ lines[1] = name /\ lines[2] = last
    OBVIOUS
  <2> QED
    BY <2>1 DEF Sequence
<1> HIDE DEF lines
<1>2. /\ Len(lines) >= 2 /\ Len(lines) - 1 = 1 /\ \A l \in 1 .. Len(lines) - 2 : FALSE
  BY <1>1
<1>3. byte[1] = name
  BY DEF Ends
<1>4. ASSUME byte[2] = "frame"
      PROVE  /\ last[1] = "data"
             /\ \E block \in DOMAIN t :
                  /\ t[block].kind = "block" /\ t[block].name = byte[1]
                  /\ Body(t[block])[last[2] + 1] = byte
  BY <1>3, <1>4, Zenon DEF Ends
<1>5. byte[2] # "frame" => last = Shown(byte[2], byte[3])
  BY Zenon DEF Ends
<1>6. Leads(t, lines, k, byte)
  BY <1>1, <1>2, <1>3, <1>4, <1>5, Zenon DEF Leads
<1> QED
  BY <1>6 DEF lines

\* A line in front of those of a child.
LEMMA LeadsOn ==
  ASSUME NEW t, NEW k \in DOMAIN t, t[k].kind = "master", NEW i \in DOMAIN t[k].children,
         NEW lines, NEW byte, Leads(t, lines, t[k].children[i], byte)
  PROVE  Leads(t, <<t[k].name>> \o lines, k, byte)
<1> DEFINE name == t[k].name
           all == <<name>> \o lines
           n == Len(lines)
           Step(a, b) == \E parent \in DOMAIN t :
             /\ t[parent].kind = "master" /\ t[parent].name = a
             /\ \E j \in DOMAIN t[parent].children : t[t[parent].children[j]].name = b
           last == lines[n]
           End == IF byte[2] = "frame"
                  THEN /\ last[1] = "data"
                       /\ \E block \in DOMAIN t :
                            /\ t[block].kind = "block" /\ t[block].name = byte[1]
                            /\ Body(t[block])[last[2] + 1] = byte
                  ELSE last = Shown(byte[2], byte[3])
<1>1. /\ Sequence(lines) /\ n >= 2 /\ lines[1] = t[t[k].children[i]].name
      /\ \A l \in 1 .. n - 2 : Step(lines[l], lines[l + 1])
      /\ lines[n - 1] = byte[1] /\ End
  BY Zenon DEF Leads
<1>2. Step(name, lines[1])
  BY <1>1, Zenon
<1>3. Sequence(<<name>>) /\ Len(<<name>>) = 1 /\ <<name>>[1] = name
  <2> HIDE DEF name
  <2>1. <<name>> \in Seq({name}) /\ Len(<<name>>) = 1 /\ <<name>>[1] = name
    OBVIOUS
  <2> QED
    BY <2>1 DEF Sequence
<1> DEFINE one == <<name>>
<1>4. Sequence(one) /\ Len(one) = 1 /\ one[1] = name
  BY <1>3
<1> HIDE DEF one
<1>5. /\ Sequence(one \o lines) /\ n \in Nat /\ Len(one \o lines) = Len(one) + n
      /\ \A l \in 1 .. Len(one) : (one \o lines)[l] = one[l]
      /\ \A l \in 1 .. n : (one \o lines)[Len(one) + l] = lines[l]
  <2> HIDE DEF End, Step
  <2>1. Sequence(one) /\ Sequence(lines)
    BY <1>1, <1>4
  <2>2. Sequence(one \o lines) /\ Len(lines) \in Nat /\ Len(one \o lines) = Len(one) + Len(lines)
    BY <2>1, Concatenation
  <2>3. \A l \in 1 .. Len(one) : (one \o lines)[l] = one[l]
    BY <2>1, Concatenation
  <2>4. \A l \in 1 .. Len(lines) : (one \o lines)[Len(one) + l] = lines[l]
    BY <2>1, Concatenation
  <2> QED
    BY <2>2, <2>3, <2>4
<1>6. all = one \o lines
  BY DEF one
<1> HIDE DEF name, all, n, Step, End
<1>7. /\ Sequence(all) /\ n \in Nat /\ Len(all) = n + 1 /\ all[1] = name
      /\ \A l \in 1 .. n : all[1 + l] = lines[l]
  <2>1. 1 \in 1 .. Len(one)
    BY <1>4
  <2> QED
    BY <1>4, <1>5, <1>6, <2>1
<1>8. Len(all) >= 2 /\ all[Len(all)] = lines[n] /\ all[Len(all) - 1] = byte[1]
  <2>1. n \in 1 .. n /\ n - 1 \in 1 .. n /\ 1 + n = n + 1 /\ 1 + (n - 1) = (n + 1) - 1
    BY <1>1, <1>7
  <2> QED
    BY <1>1, <1>7, <2>1
<1>9. ASSUME NEW l \in 1 .. Len(all) - 2
      PROVE  Step(all[l], all[l + 1])
  <2>1. CASE l = 1
    <3>1. all[l] = name /\ all[l + 1] = lines[1]
      BY <1>1, <1>7, <2>1
    <3> QED
      BY <1>2, <3>1
  <2>2. CASE l # 1
    <3>1. /\ l - 1 \in 1 .. n - 2 /\ l - 1 \in 1 .. n /\ l \in 1 .. n
          /\ 1 + (l - 1) = l /\ 1 + l = l + 1 /\ (l - 1) + 1 = l
      BY <1>1, <1>7, <2>2
    <3>2. all[l] = lines[l - 1] /\ all[l + 1] = lines[(l - 1) + 1]
      BY <1>7, <3>1
    <3> QED
      BY <1>1, <3>1, <3>2
  <2> QED
    BY <2>1, <2>2
<1>10. Leads(t, all, k, byte)
  <2>1. \A l \in 1 .. Len(all) - 2 : \E parent \in DOMAIN t :
          /\ t[parent].kind = "master" /\ t[parent].name = all[l]
          /\ \E j \in DOMAIN t[parent].children : t[t[parent].children[j]].name = all[l + 1]
    BY <1>9, Zenon DEF Step
  <2>2. all[Len(all)] = last
    BY <1>8
  <2>3. IF byte[2] = "frame"
        THEN /\ all[Len(all)][1] = "data"
             /\ \E block \in DOMAIN t :
                  /\ t[block].kind = "block" /\ t[block].name = byte[1]
                  /\ Body(t[block])[all[Len(all)][2] + 1] = byte
        ELSE all[Len(all)] = Shown(byte[2], byte[3])
    <3> HIDE DEF last
    <3> QED
      BY <1>1, <2>2, Zenon DEF End
  <2> QED
    BY <1>7, <1>8, <2>1, <2>3, Zenon DEF Leads, name
<1> QED
  BY <1>10, Zenon DEF all, name

\* Every byte of element k of a tree is reported as what it is.
Reported(t, k) ==
  \A offset \in 0 .. getSize(t[k]) - 1 :
    Leads(t, reports(t)[k][offset], k, encodings(t)[k][offset + 1])

\* So it is of an element without children.
LEMMA LeafLeads ==
  ASSUME NEW t, IsTree(t), NEW k \in 1 .. Len(t), t[k].kind # "master"
  PROVE  Reported(t, k)
<1> DEFINE e == t[k]
           kids == below(reports(t), e)
           bytes == below(encodings(t), e)
<1>1. /\ IsLeaf(e) /\ Encodable(e) /\ k \in DOMAIN t /\ e.kind # "master"
      /\ getSize(e) \in 1 .. SizeMax - 1
  BY TreeParts, AllEncodable
<1>2. reports(t)[k] = report(t, k, kids) /\ encodings(t)[k] = encoded(e, bytes)
  BY ReportsExist, EncodingsExist
<1>3. encodings(t)[k] = HeadBytes(e) \o Body(e)
  BY <1>1, <1>2, Zenon DEF encoded
<1> SUFFICES ASSUME NEW offset \in 0 .. getSize(e) - 1
             PROVE  Leads(t, reports(t)[k][offset], k, encodings(t)[k][offset + 1])
  BY Zenon DEF Reported
<1>4. offset \in Sizes
  <2> DEFINE size == getSize(e)
  <2>1. size \in 1 .. SizeMax - 1 /\ offset \in 0 .. size - 1
    BY <1>1
  <2> HIDE DEF size
  <2> QED
    BY <2>1, Modulus DEF Sizes
<1>5. reports(t)[k][offset] = reportLeaf(e, offset)
  BY <1>1, <1>2, <1>4 DEF report
<1>6. PICK last : /\ reportLeaf(e, offset) = <<e.name, last>>
                  /\ Ends(last, e, (HeadBytes(e) \o Body(e))[offset + 1])
  BY <1>1, LeafReported
<1>7. Leads(t, <<e.name, last>>, k, (HeadBytes(e) \o Body(e))[offset + 1])
  BY <1>1, <1>6, EndLeads
<1> QED
  BY <1>3, <1>5, <1>6, <1>7, Zenon

\* And of one with children of which it is so.
LEMMA MasterLeads ==
  ASSUME NEW t, IsTree(t), NEW k \in 1 .. Len(t), t[k].kind = "master",
         \A j \in 1 .. k - 1 : Written(t, j), \A j \in 1 .. k - 1 : Reported(t, j)
  PROVE  Reported(t, k)
<1> DEFINE e == t[k]
           l == Len(e.children)
           kids == below(reports(t), e)
           s == below(encodings(t), e)
           sizes == sizesBelow(t, e)
           head == HeadBytes(e)
           body == joined(s)
           h == HeadSize(e)
<1>1. /\ IsMaster(t, k) /\ Encodable(e) /\ k \in DOMAIN t
      /\ getSize(e) \in 1 .. SizeMax - 1
  BY TreeParts, AllEncodable
<1>2. /\ reports(t)[k] = report(t, k, kids) /\ encodings(t)[k] = encoded(e, s)
  BY ReportsExist, EncodingsExist
<1>3. encodings(t)[k] = head \o body
  BY <1>2, Zenon DEF encoded
<1>4. Children(s, sizes, below(outputs(t), e), OnlyFromStart(t)) /\ length(e) = total(sizes)
  BY <1>1, ChildrenReady
<1>5. /\ Len(s) \in Nat /\ Len(s) = Len(sizes) /\ sizes \in Seq(Nat)
      /\ \A i \in 1 .. Len(s) : Sequence(s[i]) /\ Len(s[i]) = sizes[i]
  BY <1>4, Zenon DEF Children
<1>6. /\ l \in Nat /\ DOMAIN e.children = 1 .. l /\ Len(sizes) = l /\ DOMAIN sizes = 1 .. l
      /\ \A i \in 1 .. l : /\ e.children[i] \in 1 .. k - 1
                           /\ s[i] = encodings(t)[e.children[i]]
                           /\ sizes[i] = getSize(t[e.children[i]])
                           /\ \A f : below(f, e)[i] = f[e.children[i]]
  BY <1>1, ChildParts
<1>7. \A i \in 1 .. l : kids[i] = reports(t)[e.children[i]]
  BY <1>6
<1>8. Sequence(body) /\ Len(body) = length(e)
  <2>1. \A i \in 1 .. Len(s) : Sequence(s[i]) /\ sizes[i] = Len(s[i])
    BY <1>5
  <2> HIDE DEF s, sizes, e
  <2>2. \A n \in 0 .. Len(s) : Sequence(joins(s)[n]) /\ Len(joins(s)[n]) = sums(sizes)[n]
    BY <1>5, <2>1, JoinsLength
  <2>3. Len(s) \in 0 .. Len(s)
    BY <1>5
  <2> QED
    BY <1>4, <1>5, <2>2, <2>3 DEF joined, total
<1>9. /\ e.id \in Nat /\ VintSize(length(e)) \in Nat /\ length(e) \in Nat
  BY <1>1, VintWidth DEF Encodable
<1>10. h \in Nat /\ Sequence(head) /\ Len(head) = h
  BY <1>9, HeadLength
<1>11. getSize(e) = h + length(e)
  BY <1>9 DEF getSize, HeadSize
<1> SUFFICES ASSUME NEW offset \in 0 .. getSize(e) - 1
             PROVE  Leads(t, reports(t)[k][offset], k, encodings(t)[k][offset + 1])
  BY Zenon DEF Reported
<1> HIDE DEF e, kids, s, sizes, head, body, h, l
<1>12. offset \in Sizes /\ offset \in Nat /\ offset < getSize(e)
  <2> DEFINE size == getSize(e)
  <2>1. size \in 1 .. SizeMax - 1 /\ offset \in 0 .. size - 1
    BY <1>1
  <2> HIDE DEF size
  <2>2. offset \in Sizes /\ offset \in Nat /\ offset < size
    BY <2>1, Modulus DEF Sizes
  <2> QED
    BY <2>2 DEF size
<1>13. reports(t)[k][offset] = reportMaster(e, sizes, kids, offset)
  BY <1>2, <1>12, Zenon DEF report, e, sizes
<1>14. /\ \A i \in 1 .. Len(head) : (head \o body)[i] = head[i]
       /\ \A i \in 1 .. Len(body) : (head \o body)[Len(head) + i] = body[i]
  BY <1>8, <1>10, Concatenation
<1>15. CASE offset < h
  <2>1. reports(t)[k][offset] = <<e.name>> \o reportHead(e, offset)
    BY <1>9, <1>10, <1>11, <1>12, <1>13, <1>15 DEF reportMaster, h
  <2>2. offset \in 0 .. h - 1 /\ offset + 1 \in 1 .. h
    BY <1>10, <1>12, <1>15
  <2>3. encodings(t)[k][offset + 1] = head[offset + 1]
    BY <1>3, <1>10, <1>14, <2>2
  <2>4. PICK last : /\ <<e.name>> \o reportHead(e, offset) = <<e.name, last>>
                    /\ Ends(last, e, head[offset + 1])
    BY <1>9, <2>2, HeadEnds DEF h, head
  <2>5. Leads(t, <<e.name, last>>, k, head[offset + 1])
    BY <1>1, <2>4, EndLeads DEF e
  <2> QED
    BY <2>1, <2>3, <2>4, <2>5, Zenon
<1>16. CASE ~(offset < h)
  <2> DEFINE at == offset - h
  <2>1. reports(t)[k][offset] = <<e.name>> \o reportChildren(e, sizes, kids, at)
    BY <1>9, <1>10, <1>11, <1>12, <1>13, <1>16 DEF reportMaster, h
  <2>2. /\ at \in 0 .. total(sizes) - 1 /\ at + 1 \in 1 .. length(e) /\ at < getSize(e)
        /\ offset + 1 = h + (at + 1)
    BY <1>4, <1>9, <1>10, <1>11, <1>12, <1>16
  <2> HIDE DEF at
  <2>3. encodings(t)[k][offset + 1] = body[at + 1]
    BY <1>3, <1>8, <1>10, <1>14, <2>2
  <2>4. Finds(e, s, sizes, kids, at)
    <3>1. DOMAIN sizes = 1 .. Len(sizes)
      BY <1>6
    <3>2. at \in 0 .. total(sizes) - 1 /\ at < getSize(e)
      BY <2>2
    <3> QED
      BY <1>4, <3>1, <3>2, ChildFound
  <2>5. PICK i \in 1 .. Len(sizes) : \E n \in 0 .. sizes[i] - 1 :
          /\ reportChildren(e, sizes, kids, at) = kids[i][n]
          /\ body[at + 1] = s[i][n + 1]
    BY <2>4, Zenon DEF Finds, body
  <2>6. PICK n \in 0 .. sizes[i] - 1 :
          /\ reportChildren(e, sizes, kids, at) = kids[i][n]
          /\ body[at + 1] = s[i][n + 1]
    BY <2>5
  <2> DEFINE j == e.children[i]
  <2>7. /\ j \in 1 .. k - 1 /\ kids[i] = reports(t)[j] /\ s[i] = encodings(t)[j]
        /\ sizes[i] = getSize(t[j]) /\ i \in DOMAIN e.children
    BY <1>6, <1>7
  <2> HIDE DEF j
  <2>8. Reported(t, j) /\ n \in 0 .. getSize(t[j]) - 1
    BY <2>7
  <2>9. Leads(t, reports(t)[j][n], j, encodings(t)[j][n + 1])
    BY <2>8, Zenon DEF Reported
  <2>10. Leads(t, <<e.name>> \o reports(t)[j][n], k, encodings(t)[j][n + 1])
    BY <1>1, <2>7, <2>9, LeadsOn DEF e, j
  <2> QED
    BY <2>1, <2>3, <2>6, <2>7, <2>10, Zenon
<1> QED
  BY <1>15, <1>16, Zenon DEF e

\* So it is of all elements.
LEMMA TreeReported ==
  ASSUME NEW t, IsTree(t), NoPadding => \A k \in DOMAIN t : Dense(t[k])
  PROVE  \A k \in 1 .. Len(t) : Reported(t, k)
<1> DEFINE l == Len(t)
           S == {k \in 1 .. l : Reported(t, k)}
<1>1. l \in Nat
  BY TreeParts
<1>2. \A k \in 1 .. l : Written(t, k)
  BY TreeWritten
<1>3. ASSUME NEW k \in 1 .. l, \A j \in 1 .. k - 1 : j \in S
      PROVE  k \in S
  <2>1. CASE t[k].kind = "master"
    <3>1. \A j \in 1 .. k - 1 : j \in 1 .. l
      <4> HIDE DEF l
      <4> QED
        BY <1>1
    <3>2. /\ \A j \in 1 .. k - 1 : Written(t, j)
          /\ \A j \in 1 .. k - 1 : Reported(t, j)
      BY <1>2, <1>3, <3>1
    <3> QED
      BY <2>1, <3>2, MasterLeads
  <2>2. CASE t[k].kind # "master"
    BY <2>2, LeafLeads
  <2> QED
    BY <2>1, <2>2
<1> HIDE DEF S
<1>4. \A k \in 1 .. l : k \in S
  BY <1>1, <1>3, ChildrenFirst
<1> QED
  BY <1>4 DEF S

\* The tree that report prints leads, always on to a child of the element before,
\* to the byte that output has at that offset, and past the end of an element it
\* prints nothing.
THEOREM ReportsLeadToBytes == Spec => []ReportRight
<1>1. Inv => ReportRight
  <2> SUFFICES ASSUME Inv
               PROVE  ReportRight
    OBVIOUS
  <2> DEFINE k == Len(tree)
             e == tree[k]
             kids == below(reports(tree), e)
             size == getSize(e)
  <2>1. PICK f \in Files : tree = f.tree /\ start \in f.starts
    BY DEF Inv
  <2>2. IsTree(tree) /\ (NoPadding => \A j \in DOMAIN tree : Dense(tree[j]))
    BY <2>1, FileFacts
  <2>3. /\ k \in 1 .. k /\ Root(tree) = e /\ e.kind = "master"
        /\ size \in 1 .. SizeMax - 1
    BY <2>2, TreeParts, AllEncodable DEF Root, IsMaster
  <2>4. reports(tree)[k][size] = <<>>
    <3>1. reports(tree)[k] = report(tree, k, kids)
      BY <2>2, <2>3, ReportsExist
    <3> HIDE DEF size
    <3>2. size \in Sizes /\ size >= size
      BY <2>3, Modulus DEF Sizes
    <3>3. report(tree, k, kids)[size] = reportMaster(e, sizesBelow(tree, e), kids, size)
      BY <2>3, <3>2 DEF report
    <3> QED
      BY <3>1, <3>2, <3>3 DEF reportMaster, size
  <2>5. Reported(tree, k)
    BY <2>2, <2>3, TreeReported
  <2>6. \A offset \in 0 .. size - 1 : LinesRight(tree, k, offset)
    BY <2>5, Zenon DEF Reported, Leads, LinesRight
  <2> HIDE DEF e, k
  <2> QED
    BY <2>3, <2>4, <2>6, Zenon DEF ReportRight, k
<1> QED
  BY <1>1, Invariance, PTL
=============================================================================
