--------------------------- MODULE LogBytesProofs ---------------------------
(***************************************************************************)
(* Proofs about LogBytes, for any widths, strings and bound.               *)
(*                                                                         *)
(* They hold for files that can be opened: "open" \notin Faults.  With     *)
(* that fault a start serves an empty map on top of what is in the file.   *)
(*                                                                         *)
(* What the recursive functions of the codec compute is shown by induction *)
(* over sets of numbers: that 0 is in the set, or all numbers below one,   *)
(* is a fact the provers can use, while a predicate as a parameter is not. *)
(***************************************************************************)
EXTENDS LogBytes, SequenceTheorems, WellFoundedInduction, TLAPS

-----------------------------------------------------------------------------
(* Induction and recursion over the natural numbers.                       *)

\* A set that holds 0 and with each number the next holds every number.
LEMMA Induction ==
  ASSUME NEW S, 0 \in S, \A n \in Nat : n \in S => n + 1 \in S
  PROVE  \A n \in Nat : n \in S
<1>1. SUFFICES ASSUME Nat \ S # {} PROVE FALSE
  OBVIOUS
<1>2. PICK m \in Nat \ S : \A k \in Nat \ S : <<k, m>> \notin OpToRel(<, Nat)
  BY <1>1, WFMin, NatLessThanWellFounded, Zenon
<1>3. \A k \in Nat : k < m => k \in S
  BY <1>2, Zenon DEF OpToRel
<1>4. m \in Nat /\ m # 0 /\ m \notin S
  OBVIOUS
<1>5. m - 1 \in Nat /\ m - 1 < m /\ m = (m - 1) + 1
  BY <1>4
<1>6. m - 1 \in S
  BY <1>3, <1>5
<1> QED
  BY <1>4, <1>5, <1>6

\* The same where a number follows from all the lower ones.
LEMMA CourseInduction ==
  ASSUME NEW S, \A n \in Nat : (\A k \in Nat : k < n => k \in S) => n \in S
  PROVE  \A n \in Nat : n \in S
<1> DEFINE U == {n \in Nat : \A k \in Nat : k < n => k \in S}
<1>1. 0 \in U
  OBVIOUS
<1>2. ASSUME NEW n \in Nat, n \in U
      PROVE  n + 1 \in U
  <2>1. n \in S
    BY <1>2
  <2>2. \A k \in Nat : k < n + 1 => k < n \/ k = n
    OBVIOUS
  <2> QED
    BY <1>2, <2>1, <2>2
<1>3. \A n \in Nat : n \in U
  <2> HIDE DEF U
  <2> QED
    BY <1>1, <1>2, Induction
<1> QED
  BY <1>3

\* A function that is given for some numbers, and for any other by a step from its value
\* for a lower one.
Recursive(f, base, start, down, step) ==
  \A n \in Nat : f[n] = IF n \in base THEN start[n] ELSE step[n][f[down[n]]]

Descends(base, down) == down \in [Nat -> Nat] /\ \A n \in Nat \ base : down[n] < n

\* A function may be defined by recursion: from a base, and for every other number
\* from the value for a lower one.
LEMMA RecursionExists ==
  ASSUME NEW T, NEW base, NEW start \in [base -> T],
         NEW step \in [Nat -> [T -> T]], NEW down, Descends(base, down)
  PROVE  \E f \in [Nat -> T] : Recursive(f, base, start, down, step)
<1> USE DEF Descends
<1> DEFINE Value(g, n) == IF n \in base THEN start[n] ELSE step[n][g[down[n]]]
           Upto(g, n) == /\ g \in [0..n -> T]
                         /\ \A i \in 0..n : g[i] = Value(g, i)
           Some == {n \in Nat : \E g : Upto(g, n)}
<1>1. 0 \in Some
  <2>1. 0 \in base
    <3>1. CASE 0 \notin base
      <4>1. down[0] < 0 /\ down[0] \in Nat
        BY <3>1
      <4> QED
        BY <4>1
    <3> QED
      BY <3>1
  <2>2. 0..0 = {0}
    OBVIOUS
  <2>3. Upto([i \in 0..0 |-> start[i]], 0)
    BY <2>1, <2>2
  <2> QED
    BY <2>3
<1>2. ASSUME NEW n \in Nat, n \in Some
      PROVE  n + 1 \in Some
  <2>1. PICK g : Upto(g, n)
    BY <1>2
  <2> DEFINE h == [i \in 0..(n + 1) |-> IF i \in 0..n THEN g[i] ELSE Value(g, n + 1)]
  <2>2. \A i \in 0..(n + 1) : i \notin base => down[i] \in 0..(i - 1)
    OBVIOUS
  <2>3. ASSUME NEW i \in 0..n
        PROVE  /\ h[i] = g[i]
               /\ h[i] = Value(h, i)
    <3>1. h[i] = g[i] /\ g[i] = Value(g, i)
      BY <2>1
    <3>2. CASE i \in base
      BY <3>1, <3>2
    <3>3. CASE i \notin base
      <4>1. down[i] \in 0..n
        BY <2>2, <3>3
      <4>2. h[down[i]] = g[down[i]]
        BY <4>1
      <4> QED
        BY <3>1, <3>3, <4>2
    <3> QED
      BY <3>2, <3>3
  <2>4. h[n + 1] = Value(h, n + 1) /\ h[n + 1] \in T
    <3>1. h[n + 1] = Value(g, n + 1)
      OBVIOUS
    <3>2. CASE n + 1 \in base
      BY <3>1, <3>2
    <3>3. CASE n + 1 \notin base
      <4>1. down[n + 1] \in 0..n
        BY <2>2, <3>3
      <4>2. h[down[n + 1]] = g[down[n + 1]] /\ g[down[n + 1]] \in T
        BY <2>1, <4>1
      <4>3. step[n + 1] \in [T -> T]
        OBVIOUS
      <4> QED
        BY <3>1, <3>3, <4>2, <4>3
    <3> QED
      BY <3>2, <3>3
  <2>5. \A i \in 0..(n + 1) : i \in 0..n \/ i = n + 1
    OBVIOUS
  <2>6. \A i \in 0..(n + 1) : h[i] \in T /\ h[i] = Value(h, i)
    <3>1. \A i \in 0..n : g[i] \in T
      BY <2>1
    <3> HIDE DEF h, Value
    <3> QED
      BY <2>3, <2>4, <2>5, <3>1
  <2>7. Upto(h, n + 1)
    <3>1. h \in [0..(n + 1) -> T]
      <4> HIDE DEF Value
      <4> QED
        BY <2>6
    <3> HIDE DEF h
    <3> QED
      BY <2>6, <3>1
  <2> HIDE DEF h, Upto
  <2> QED
    BY <2>7
<1>3. \A n \in Nat : \E g : Upto(g, n)
  <2>1. \A n \in Nat : n \in Some
    <3> HIDE DEF Some
    <3> QED
      BY <1>1, <1>2, Induction
  <2> QED
    BY <2>1
<1>4. ASSUME NEW n \in Nat, NEW g, Upto(g, n), NEW m \in Nat, NEW h, Upto(h, m)
      PROVE  \A i \in Nat : i <= n /\ i <= m => g[i] = h[i]
  <2> DEFINE Same == {i \in Nat : i <= n /\ i <= m => g[i] = h[i]}
  <2>1. ASSUME NEW i \in Nat, \A k \in Nat : k < i => k \in Same
        PROVE  i \in Same
    <3>1. SUFFICES ASSUME i <= n, i <= m PROVE g[i] = h[i]
      OBVIOUS
    <3>2. g[i] = Value(g, i) /\ h[i] = Value(h, i)
      <4>1. i \in 0..n /\ i \in 0..m
        BY <3>1
      <4>2. /\ \A k \in 0..n : g[k] = Value(g, k)
            /\ \A k \in 0..m : h[k] = Value(h, k)
        <5> HIDE DEF Value
        <5> QED
          BY <1>4
      <4> HIDE DEF Value, Upto
      <4> QED
        BY <4>1, <4>2
    <3>3. CASE i \in base
      BY <3>2, <3>3
    <3>4. CASE i \notin base
      <4>1. down[i] \in Nat /\ down[i] < i
        BY <3>4
      <4>2. g[down[i]] = h[down[i]]
        BY <2>1, <3>1, <4>1
      <4> QED
        BY <3>2, <3>4, <4>2
    <3> QED
      BY <3>3, <3>4
  <2>2. \A i \in Nat : i \in Same
    <3> HIDE DEF Same
    <3> QED
      BY <2>1, CourseInduction
  <2> QED
    BY <2>2
<1> DEFINE chosen(n) == CHOOSE g : Upto(g, n)
           f == [n \in Nat |-> chosen(n)[n]]
<1>5. \A n \in Nat : Upto(chosen(n), n)
  <2> HIDE DEF Upto
  <2> QED
    BY <1>3
<1>6. ASSUME NEW n \in Nat
      PROVE  f[n] \in T /\ f[n] = Value(f, n)
  <2>1. Upto(chosen(n), n)
    BY <1>5
  <2>2. f[n] = chosen(n)[n]
    OBVIOUS
  <2>3. f[n] \in T /\ f[n] = Value(chosen(n), n)
    <3>1. n \in 0..n
      OBVIOUS
    <3> HIDE DEF f, chosen
    <3> QED
      BY <2>1, <2>2, <3>1
  <2>4. CASE n \in base
    <3> HIDE DEF f, chosen
    <3> QED
      BY <2>3, <2>4
  <2>5. CASE n \notin base
    <3>1. down[n] \in Nat /\ down[n] < n
      BY <2>5
    <3>2. f[down[n]] = chosen(down[n])[down[n]] /\ Upto(chosen(down[n]), down[n])
      BY <1>5, <3>1
    <3>3. chosen(down[n])[down[n]] = chosen(n)[down[n]]
      <4> HIDE DEF chosen, Upto
      <4> QED
        BY <1>4, <2>1, <3>1, <3>2
    <3> HIDE DEF f, chosen
    <3> QED
      BY <2>3, <2>5, <3>2, <3>3
  <2> QED
    BY <2>4, <2>5
<1>7. f \in [Nat -> T]
  <2>1. \A n \in Nat : f[n] \in T
    BY <1>6
  <2> HIDE DEF chosen
  <2> QED
    BY <2>1
<1> QED
  <2>1. Recursive(f, base, start, down, step)
    <3>1. \A n \in Nat : f[n] = Value(f, n)
      BY <1>6
    <3> HIDE DEF f
    <3> QED
      BY <3>1 DEF Recursive
  <2> HIDE DEF f
  <2> QED
    BY <1>7, <2>1

-----------------------------------------------------------------------------
(* Powers of two, as far as the widths go.                                 *)

Widest == GroupBits + SizeBits

\* A power is positive, and powers with a sum for their exponent are products.
LEMMA Powers ==
  /\ Widest \in Nat
  /\ \A n \in 0..Widest : 2 ^ n \in Nat \ {0}
  /\ \A m, n \in Nat : m + n <= Widest => 2 ^ (m + n) = 2 ^ m * 2 ^ n
<1>1. /\ Widest \in Nat
      /\ 2 ^ 0 = 1
      /\ \A n \in 0..Widest : 2 ^ n \in Nat /\ 2 ^ (n + 1) = 2 * 2 ^ n
  BY WidthsAssumption, PowersAssumption DEF Widest
<1>2. \A n \in 0..Widest : 2 ^ n \in Nat \ {0}
  <2> DEFINE S == {n \in Nat : n <= Widest => 2 ^ n # 0}
  <2>1. 0 \in S
    BY <1>1
  <2>2. ASSUME NEW n \in Nat, n \in S
        PROVE  n + 1 \in S
    BY <1>1, <2>2
  <2>3. \A n \in Nat : n \in S
    <3> HIDE DEF S
    <3> QED
      BY <2>1, <2>2, Induction
  <2> QED
    BY <1>1, <2>3
<1>3. ASSUME NEW m \in Nat
      PROVE  \A n \in Nat : m + n <= Widest => 2 ^ (m + n) = 2 ^ m * 2 ^ n
  <2> DEFINE S == {n \in Nat : m + n <= Widest => 2 ^ (m + n) = 2 ^ m * 2 ^ n}
  <2>1. 0 \in S
    <3>1. CASE m \in 0..Widest
      <4>1. 2 ^ m \in Nat
        BY <1>1, <3>1
      <4> QED
        BY <1>1, <4>1
    <3> QED
      BY <1>1, <3>1
  <2>2. ASSUME NEW n \in Nat, n \in S
        PROVE  n + 1 \in S
    <3>1. SUFFICES ASSUME m + (n + 1) <= Widest
                   PROVE  2 ^ (m + (n + 1)) = 2 ^ m * 2 ^ (n + 1)
      OBVIOUS
    <3>2. /\ m \in 0..Widest /\ n \in 0..Widest /\ m + n \in 0..Widest
          /\ m + (n + 1) = (m + n) + 1
      BY <1>1, <3>1
    <3>3. PICK a \in Nat, b \in Nat : a = 2 ^ m /\ b = 2 ^ n
      BY <1>1, <3>2
    <3>4. 2 ^ ((m + n) + 1) = 2 * (a * b) /\ 2 ^ (n + 1) = 2 * b
      BY <1>1, <2>2, <3>2, <3>3
    <3>5. 2 * (a * b) = a * (2 * b)
      OBVIOUS
    <3> QED
      BY <3>2, <3>3, <3>4, <3>5
  <2>3. \A n \in Nat : n \in S
    <3> HIDE DEF S
    <3> QED
      BY <2>1, <2>2, Induction
  <2> QED
    BY <2>3
<1> QED
  BY <1>1, <1>2, <1>3

\* A power is at least twice any lower one.
LEMMA PowersGrow ==
  ASSUME NEW m \in Nat, NEW n \in Nat, m < n, n <= Widest
  PROVE  2 * 2 ^ m <= 2 ^ n
<1>1. n - m - 1 \in Nat /\ n - m - 1 \in 0..Widest /\ m + 1 \in 0..Widest /\ m \in 0..Widest
  BY Powers
<1>2. PICK a \in Nat \ {0}, b \in Nat \ {0} : a = 2 ^ m /\ b = 2 ^ (n - m - 1)
  BY <1>1, Powers
<1>3. 2 ^ (m + 1) = 2 * a
  BY <1>1, <1>2, PowersAssumption DEF Widest
<1>4. n = (m + 1) + (n - m - 1)
  OBVIOUS
<1>5. 2 ^ n = (2 * a) * b
  BY <1>1, <1>2, <1>3, <1>4, Powers
<1>6. (2 * a) * b >= 2 * a
  BY <1>2
<1> QED
  BY <1>2, <1>5, <1>6

\* The sizes that the code works with.
LEMMA Sizes ==
  /\ Group \in Nat /\ Group >= 2
  /\ 2 ^ (IntBits - 1) \in Nat \ {0} /\ 2 ^ IntBits = 2 * 2 ^ (IntBits - 1)
  /\ 2 ^ (SizeBits - 1) \in Nat \ {0} /\ 2 ^ SizeBits = 2 * 2 ^ (SizeBits - 1)
  /\ 2 ^ IntBits <= 2 ^ SizeBits
  /\ 2 ^ (IntBits - 1) <= 2 ^ (SizeBits - 1)
<1>1. /\ 2 ^ 0 = 1
      /\ GroupBits \in 0..Widest /\ 0 < GroupBits
      /\ IntBits - 1 \in 0..Widest /\ (IntBits - 1) + 1 = IntBits
      /\ SizeBits - 1 \in 0..Widest /\ (SizeBits - 1) + 1 = SizeBits
      /\ IntBits \in 0..Widest /\ SizeBits \in 0..Widest
  BY WidthsAssumption DEF Widest
<1>2. Group \in Nat /\ Group >= 2
  BY <1>1, Powers, PowersGrow DEF Group
<1>3. /\ 2 ^ (IntBits - 1) \in Nat \ {0} /\ 2 ^ IntBits = 2 * 2 ^ (IntBits - 1)
      /\ 2 ^ (SizeBits - 1) \in Nat \ {0} /\ 2 ^ SizeBits = 2 * 2 ^ (SizeBits - 1)
  BY <1>1, Powers, PowersAssumption DEF Widest
<1>4. 2 ^ IntBits <= 2 ^ SizeBits
  <2>1. CASE IntBits < SizeBits
    <3>1. 2 * 2 ^ IntBits <= 2 ^ SizeBits
      BY <1>1, <2>1, PowersGrow
    <3> QED
      BY <1>1, <1>3, <3>1
  <2>2. CASE IntBits = SizeBits
    BY <1>3, <2>2
  <2> QED
    BY <2>1, <2>2, WidthsAssumption
<1> QED
  BY <1>2, <1>3, <1>4

\* Division leaves a remainder.
LEMMA Division ==
  ASSUME NEW x \in Nat, NEW y \in Nat, y >= 2
  PROVE  /\ x \div y \in Nat /\ x % y \in 0..(y - 1)
         /\ x = y * (x \div y) + (x % y)
         /\ x < y => x % y = x /\ x \div y = 0
         /\ x > 0 => x \div y < x
  OBVIOUS

-----------------------------------------------------------------------------
(* The groups of a length.                                                 *)

\* The recursion of Varint is well founded, and it yields bytes, at least one.
LEMMA VarintIs ==
  \A x \in Nat :
    /\ Varint[x] \in Seq(Byte) /\ Varint[x] # <<>>
    /\ Varint[x] = IF x < Group THEN <<x>>
                   ELSE <<Group + (x % Group)>> \o Varint[x \div Group]
<1> DEFINE base == {x \in Nat : x < Group}
           down == [x \in Nat |-> x \div Group]
           start == [x \in base |-> <<x>>]
           step == [x \in Nat |-> [v \in Seq(Byte) |-> <<Group + (x % Group)>> \o v]]
           Is(f) == f = [x \in Nat |-> IF x < Group THEN <<x>>
                                       ELSE <<Group + (x % Group)>> \o f[x \div Group]]
<1>1. /\ start \in [base -> Seq(Byte)]
      /\ \A x \in base : start[x] = <<x>>
  BY Sizes DEF Byte
<1>2. /\ Descends(base, down)
      /\ \A x \in Nat : down[x] = x \div Group /\ down[x] \in Nat
  <2>1. \A x \in Nat : x \div Group \in Nat /\ (x > 0 => x \div Group < x)
    BY Sizes, Division
  <2> QED
    BY <2>1, Sizes DEF Descends
<1>3. \A x \in Nat : Group + (x % Group) \in Byte
  <2>1. \A x \in Nat : x % Group \in 0..(Group - 1)
    BY Sizes, Division
  <2> QED
    BY <2>1, Sizes DEF Byte
<1>4. /\ step \in [Nat -> [Seq(Byte) -> Seq(Byte)]]
      /\ \A x \in Nat, v \in Seq(Byte) : step[x][v] = <<Group + (x % Group)>> \o v
  BY <1>3
<1>5. PICK f \in [Nat -> Seq(Byte)] : Recursive(f, base, start, down, step)
  <2> HIDE DEF base, down, start, step
  <2> QED
    BY <1>1, <1>2, <1>4, RecursionExists
<1>6. ASSUME NEW x \in Nat
      PROVE  f[x] = IF x < Group THEN <<x>>
                    ELSE <<Group + (x % Group)>> \o f[x \div Group]
  <2>1. f[x] = IF x \in base THEN start[x] ELSE step[x][f[down[x]]]
    <3> HIDE DEF base, down, start, step
    <3> QED
      BY <1>5 DEF Recursive
  <2>2. f[down[x]] \in Seq(Byte)
    BY <1>2
  <2>3. CASE x < Group
    <3>1. x \in base
      BY <2>3
    <3> HIDE DEF base, down, start, step
    <3> QED
      BY <1>1, <2>1, <2>3, <3>1
  <2>4. CASE ~(x < Group)
    <3>1. x \notin base
      BY <2>4
    <3> HIDE DEF base, down, start, step
    <3> QED
      BY <1>2, <1>4, <2>1, <2>2, <2>4, <3>1
  <2> QED
    BY <2>3, <2>4
<1>7. Is(f)
  BY <1>6
<1>8. Is(Varint)
  <2>1. Varint = CHOOSE g : Is(g)
    BY DEF Varint
  <2> HIDE DEF Is
  <2> QED
    BY <1>7, <2>1
<1>9. \A x \in Nat : Varint[x] = IF x < Group THEN <<x>>
                                 ELSE <<Group + (x % Group)>> \o Varint[x \div Group]
  BY <1>8
<1> DEFINE S == {x \in Nat : Varint[x] \in Seq(Byte) /\ Varint[x] # <<>>}
<1>10. ASSUME NEW x \in Nat, \A y \in Nat : y < x => y \in S
       PROVE  x \in S
  <2>1. CASE x < Group
    <3>1. x \in Byte
      BY <2>1, Sizes DEF Byte
    <3>2. Varint[x] = <<x>>
      BY <1>9, <2>1
    <3>3. <<x>> \in Seq(Byte) /\ <<x>> # <<>>
      BY <3>1
    <3> QED
      BY <3>2, <3>3
  <2>2. CASE ~(x < Group)
    <3>1. x \div Group \in Nat /\ x \div Group < x
      <4>1. x > 0
        BY <2>2, Sizes
      <4> QED
        BY <4>1, Sizes, Division
    <3>2. Varint[x \div Group] \in Seq(Byte)
      BY <1>10, <3>1
    <3>3. Varint[x] = <<Group + (x % Group)>> \o Varint[x \div Group]
      BY <1>9, <2>2
    <3>4. Varint[x] \in Seq(Byte) /\ Len(Varint[x]) > 0
      <4>1. <<Group + (x % Group)>> \in Seq(Byte) /\ Len(<<Group + (x % Group)>>) = 1
        BY <1>3
      <4> QED
        BY <3>2, <3>3, <4>1, ConcatProperties
    <3> QED
      BY <3>4
  <2> QED
    BY <2>1, <2>2
<1>11. \A x \in Nat : x \in S
  <2> HIDE DEF S
  <2> QED
    BY <1>10, CourseInduction
<1> QED
  BY <1>9, <1>11

-----------------------------------------------------------------------------
(* Putting a length together.                                              *)

\* The recursion of Or is well founded, and it yields numbers.
LEMMA OrIs ==
  \A a, b \in Nat :
    /\ Or[a][b] \in Nat
    /\ Or[a][b] = IF a = 0 THEN b
                  ELSE 2 * Or[a \div 2][b \div 2] + (IF a % 2 = 0 THEN b % 2 ELSE 1)
<1> DEFINE T == [Nat -> Nat]
           base == {0}
           down == [a \in Nat |-> a \div 2]
           Same == [b \in Nat |-> b]
           start == [a \in base |-> Same]
           Bits(a, g) == [b \in Nat |-> 2 * g[b \div 2] + (IF a % 2 = 0 THEN b % 2 ELSE 1)]
           step == [a \in Nat |-> [g \in T |-> Bits(a, g)]]
           Is(f) == f = [a \in Nat |-> [b \in Nat |->
                      IF a = 0 THEN b
                      ELSE 2 * f[a \div 2][b \div 2] + (IF a % 2 = 0 THEN b % 2 ELSE 1)]]
<1>1. /\ start \in [base -> T]
      /\ start[0] = Same
  OBVIOUS
<1>2. /\ Descends(base, down)
      /\ \A a \in Nat : down[a] = a \div 2 /\ down[a] \in Nat
  BY Division DEF Descends
<1>3. /\ step \in [Nat -> [T -> T]]
      /\ \A a \in Nat, g \in T : step[a][g] = Bits(a, g) /\ Bits(a, g) \in T
  <2>1. ASSUME NEW a \in Nat, NEW g \in T
        PROVE  Bits(a, g) \in T
    <3>1. ASSUME NEW b \in Nat
          PROVE  2 * g[b \div 2] + (IF a % 2 = 0 THEN b % 2 ELSE 1) \in Nat
      <4>1. b \div 2 \in Nat /\ b % 2 \in Nat
        BY Division
      <4>2. g[b \div 2] \in Nat
        BY <4>1
      <4> QED
        BY <4>1, <4>2
    <3> QED
      BY <3>1
  <2> HIDE DEF T, Bits
  <2> QED
    BY <2>1
<1>4. PICK f \in [Nat -> T] : Recursive(f, base, start, down, step)
  <2> HIDE DEF T, base, down, start, step
  <2> QED
    BY <1>1, <1>2, <1>3, RecursionExists
<1>5. ASSUME NEW a \in Nat
      PROVE  f[a] = [b \in Nat |->
               IF a = 0 THEN b
               ELSE 2 * f[a \div 2][b \div 2] + (IF a % 2 = 0 THEN b % 2 ELSE 1)]
  <2>1. f[a] = IF a \in base THEN start[a] ELSE step[a][f[a \div 2]]
    <3> HIDE DEF T, base, down, start, step
    <3> QED
      BY <1>2, <1>4 DEF Recursive
  <2>2. f[a \div 2] \in T
    <3>1. a \div 2 \in Nat
      BY Division
    <3> HIDE DEF T
    <3> QED
      BY <1>4, <3>1
  <2>3. CASE a = 0
    <3>1. f[a] = Same
      <4> HIDE DEF T, start, step, Same
      <4> QED
        BY <1>1, <2>1, <2>3
    <3> QED
      BY <2>3, <3>1
  <2>4. CASE a # 0
    <3>1. f[a] = Bits(a, f[a \div 2])
      <4> HIDE DEF T, start, step, Bits
      <4> QED
        BY <1>3, <2>1, <2>2, <2>4
    <3> HIDE DEF T, start, step
    <3> QED
      BY <2>4, <3>1
  <2> QED
    BY <2>3, <2>4
<1>6. Is(f)
  <2> HIDE DEF T, start, step
  <2> QED
    BY <1>4, <1>5
<1>7. Is(Or)
  <2>1. Or = CHOOSE g : Is(g)
    BY DEF Or
  <2> HIDE DEF Is
  <2> QED
    BY <1>6, <2>1
<1>8. \A a, b \in Nat :
        Or[a][b] = IF a = 0 THEN b
                   ELSE 2 * Or[a \div 2][b \div 2] + (IF a % 2 = 0 THEN b % 2 ELSE 1)
  <2>1. \A a \in Nat : Or[a] = [b \in Nat |->
          IF a = 0 THEN b
          ELSE 2 * Or[a \div 2][b \div 2] + (IF a % 2 = 0 THEN b % 2 ELSE 1)]
    BY <1>7
  <2> QED
    BY <2>1
<1> DEFINE S == {a \in Nat : \A b \in Nat : Or[a][b] \in Nat}
<1>9. ASSUME NEW a \in Nat, \A k \in Nat : k < a => k \in S
      PROVE  a \in S
  <2>1. SUFFICES ASSUME NEW b \in Nat PROVE Or[a][b] \in Nat
    OBVIOUS
  <2>2. CASE a = 0
    BY <1>8, <2>2
  <2>3. CASE a # 0
    <3>1. a \div 2 \in Nat /\ a \div 2 < a /\ b \div 2 \in Nat /\ b % 2 \in Nat
      BY <2>3, Division
    <3>2. Or[a \div 2][b \div 2] \in Nat
      BY <1>9, <3>1
    <3>3. Or[a][b] = 2 * Or[a \div 2][b \div 2] + (IF a % 2 = 0 THEN b % 2 ELSE 1)
      BY <1>8, <2>3
    <3>4. PICK h \in Nat, low \in Nat :
            h = Or[a \div 2][b \div 2] /\ low = (IF a % 2 = 0 THEN b % 2 ELSE 1)
      BY <3>1, <3>2
    <3>5. Or[a][b] = 2 * h + low
      BY <3>3, <3>4
    <3> QED
      BY <3>5
  <2> QED
    BY <2>2, <2>3
<1>10. \A a \in Nat : a \in S
  <2> HIDE DEF S
  <2> QED
    BY <1>9, CourseInduction
<1> QED
  BY <1>8, <1>10

\* Bits that lie above those of a value are added to it.
LEMMA OrOfHigher ==
  ASSUME NEW r \in Nat
  PROVE  \A s \in 0..Widest : \A a \in Nat : a < 2 ^ s => Or[a][r * 2 ^ s] = a + r * 2 ^ s
<1> DEFINE S == {s \in Nat : s <= Widest =>
                   \A a \in Nat : a < 2 ^ s => Or[a][r * 2 ^ s] = a + r * 2 ^ s}
<1>1. 0 \in S
  <2>1. \A a \in Nat : a < 2 ^ 0 => a = 0
    OBVIOUS
  <2>2. r * 2 ^ 0 = r
    OBVIOUS
  <2>3. Or[0][r] = r
    BY OrIs
  <2> QED
    BY <2>1, <2>2, <2>3
<1>2. ASSUME NEW s \in Nat, s \in S
      PROVE  s + 1 \in S
  <2>1. SUFFICES ASSUME s + 1 <= Widest, NEW a \in Nat, a < 2 ^ (s + 1)
                 PROVE  Or[a][r * 2 ^ (s + 1)] = a + r * 2 ^ (s + 1)
    OBVIOUS
  <2>2. s \in 0..Widest
    BY <2>1, Powers
  <2>3. PICK p \in Nat : p = 2 ^ s /\ 2 ^ (s + 1) = 2 * p
    BY <2>2, Powers, PowersAssumption DEF Widest
  <2>4. PICK c \in Nat : c = r * p
    BY <2>3
  <2>5. r * 2 ^ (s + 1) = 2 * c
    BY <2>3, <2>4
  <2>6. \A d \in Nat : d < p => Or[d][c] = d + c
    BY <1>2, <2>2, <2>3, <2>4
  <2>7. /\ a \div 2 \in Nat /\ a % 2 \in {0, 1} /\ a = 2 * (a \div 2) + (a % 2)
        /\ (2 * c) \div 2 = c /\ (2 * c) % 2 = 0
    OBVIOUS
  <2>8. a \div 2 < p
    BY <2>1, <2>3, <2>7
  <2>9. Or[a][2 * c] = IF a = 0 THEN 2 * c
                       ELSE 2 * Or[a \div 2][c] + (IF a % 2 = 0 THEN 0 ELSE 1)
    <3>1. 2 * c \in Nat
      OBVIOUS
    <3> QED
      BY <2>7, <3>1, OrIs
  <2>10. Or[a][2 * c] = a + 2 * c
    BY <2>6, <2>7, <2>8, <2>9
  <2> QED
    BY <2>5, <2>10
<1>3. \A s \in Nat : s \in S
  <2> HIDE DEF S
  <2> QED
    BY <1>1, <1>2, Induction
<1> QED
  BY <1>3

\* Or keeps the bits of its second argument and needs no more than the two have.
LEMMA OrBounds ==
  \A s \in 0..Widest : \A a, b \in Nat :
    a < 2 ^ s /\ b < 2 ^ s => Or[a][b] \in b..(2 ^ s - 1)
<1> DEFINE S == {s \in Nat : s <= Widest => \A a, b \in Nat :
                   a < 2 ^ s /\ b < 2 ^ s => Or[a][b] \in b..(2 ^ s - 1)}
<1>1. 0 \in S
  <2>1. \A a \in Nat : a < 2 ^ 0 => a = 0
    OBVIOUS
  <2>2. Or[0][0] = 0
    BY OrIs
  <2> QED
    BY <2>1, <2>2
<1>2. ASSUME NEW s \in Nat, s \in S
      PROVE  s + 1 \in S
  <2>1. SUFFICES ASSUME s + 1 <= Widest, NEW a \in Nat, NEW b \in Nat,
                        a < 2 ^ (s + 1), b < 2 ^ (s + 1)
                 PROVE  Or[a][b] \in b..(2 ^ (s + 1) - 1)
    OBVIOUS
  <2>2. s \in 0..Widest
    BY <2>1, Powers
  <2>3. PICK p \in Nat : p = 2 ^ s /\ 2 ^ (s + 1) = 2 * p
    BY <2>2, Powers, PowersAssumption DEF Widest
  <2>4. /\ a \div 2 \in Nat /\ a % 2 \in {0, 1} /\ a = 2 * (a \div 2) + (a % 2)
        /\ b \div 2 \in Nat /\ b % 2 \in {0, 1} /\ b = 2 * (b \div 2) + (b % 2)
    OBVIOUS
  <2>5. a \div 2 < p /\ b \div 2 < p
    BY <2>1, <2>3, <2>4
  <2>6. PICK h \in Nat : h = Or[a \div 2][b \div 2] /\ h >= b \div 2 /\ h < p
    <3>1. Or[a \div 2][b \div 2] \in (b \div 2)..(p - 1)
      BY <1>2, <2>2, <2>3, <2>4, <2>5
    <3> QED
      BY <2>4, <3>1
  <2>7. Or[a][b] = IF a = 0 THEN b ELSE 2 * h + (IF a % 2 = 0 THEN b % 2 ELSE 1)
    BY <2>6, OrIs
  <2> QED
    BY <2>1, <2>3, <2>4, <2>6, <2>7
<1>3. \A s \in Nat : s \in S
  <2> HIDE DEF S
  <2> QED
    BY <1>1, <1>2, Induction
<1> QED
  BY <1>3

\* A group that leaves the sign of the int alone goes to its place above the lower ones.
LEMMA GroupFits ==
  ASSUME NEW shifts \in Nat, shifts < IntBits, NEW len \in Nat, len < 2 ^ shifts,
         NEW b \in Nat, (b % Group) * 2 ^ shifts < 2 ^ (IntBits - 1)
  PROVE  WithGroup(len, b, shifts) = len + (b % Group) * 2 ^ shifts
<1>1. shifts % IntBits = shifts /\ shifts \in 0..Widest
  BY WidthsAssumption DEF Widest
<1>2. b % Group \in Nat
  BY Sizes, Division
<1>3. PICK p \in Nat : p = 2 ^ shifts
  BY <1>1, Powers
<1>4. PICK v \in Nat : v = (b % Group) * p
  BY <1>2, <1>3
<1>5. AsInt(v) = v
  <2>1. PICK h \in Nat \ {0} : h = 2 ^ (IntBits - 1) /\ 2 ^ IntBits = 2 * h
    BY Sizes
  <2>2. v < h
    BY <1>3, <1>4, <2>1
  <2>3. (v + h) % (2 * h) = v + h
    <3>1. 2 * h \in Nat /\ 2 * h >= 2 /\ v + h \in Nat /\ v + h < 2 * h
      BY <2>1, <2>2
    <3> QED
      BY <3>1, Division
  <2> QED
    BY <2>1, <2>3 DEF AsInt
<1>6. AsSize(v) = v
  <2>1. v < 2 ^ SizeBits /\ 2 ^ SizeBits \in Nat
    BY <1>3, <1>4, Sizes
  <2>2. 2 ^ SizeBits >= 2
    BY Sizes
  <2> QED
    BY <2>1, <2>2, Division DEF AsSize
<1>7. Or[len][v] = len + v
  BY <1>1, <1>2, <1>3, <1>4, OrOfHigher
<1> QED
  BY <1>1, <1>3, <1>4, <1>5, <1>6, <1>7 DEF WithGroup

\* A group that reaches the sign of the int sets the highest bit of the length.
LEMMA GroupReachesSign ==
  ASSUME NEW shifts \in Nat, shifts < IntBits, NEW len \in Nat, len < 2 ^ shifts,
         NEW b \in Nat, (b % Group) * 2 ^ shifts >= 2 ^ (IntBits - 1),
         (b % Group) * 2 ^ shifts < 2 ^ IntBits
  PROVE  WithGroup(len, b, shifts) \in (2 ^ (SizeBits - 1))..(2 ^ SizeBits - 1)
<1>1. /\ shifts % IntBits = shifts /\ shifts \in 0..Widest
      /\ SizeBits \in 0..Widest /\ IntBits \in 0..Widest
      /\ shifts < SizeBits /\ SizeBits <= Widest
  BY WidthsAssumption DEF Widest
<1>2. b % Group \in Nat
  BY Sizes, Division
<1>3. PICK p \in Nat : p = 2 ^ shifts
  BY <1>1, Powers
<1>4. PICK v \in Nat : v = (b % Group) * p
  BY <1>2, <1>3
<1>5. PICK h \in Nat \ {0} : h = 2 ^ (IntBits - 1) /\ 2 ^ IntBits = 2 * h
  BY Sizes
<1>6. PICK k \in Nat \ {0} : k = 2 ^ (SizeBits - 1) /\ 2 ^ SizeBits = 2 * k
  BY Sizes
<1>7. h <= v /\ v < 2 * h /\ h <= k
  BY <1>3, <1>4, <1>5, <1>6, Sizes
<1>8. AsInt(v) = v - 2 * h
  <2>1. v + h = 2 * h * 1 + (v - h) /\ v - h \in 0..(2 * h - 1)
    BY <1>7
  <2>2. (v + h) % (2 * h) = v - h
    BY <1>7, <2>1
  <2> QED
    BY <1>5, <2>2 DEF AsInt
<1>9. AsSize(v - 2 * h) = (v - 2 * h) + 2 * k
  <2>1. (v - 2 * h) + 2 * k \in 0..(2 * k - 1)
    BY <1>7
  <2>2. (v - 2 * h) % (2 * k) = (v - 2 * h) + 2 * k
    BY <1>7, <2>1
  <2> QED
    BY <1>6, <2>2 DEF AsSize
<1>10. PICK w \in Nat : w = (v - 2 * h) + 2 * k
  BY <1>7
<1>11. w >= k /\ w < 2 * k
  BY <1>7, <1>10
<1>12. len < 2 * k
  <2>1. 2 * p <= 2 * k
    BY <1>1, <1>3, <1>6, PowersGrow
  <2> QED
    BY <1>3, <2>1
<1>13. Or[len][w] \in w..(2 * k - 1)
  BY <1>1, <1>6, <1>11, <1>12, OrBounds
<1>14. WithGroup(len, b, shifts) = Or[len][w]
  BY <1>1, <1>3, <1>4, <1>8, <1>9, <1>10 DEF WithGroup
<1> QED
  BY <1>6, <1>11, <1>13, <1>14

\* Multiplication is monotone.
LEMMA TimesGrows ==
  ASSUME NEW a \in Nat, NEW b \in Nat, a <= b, NEW c \in Nat
  PROVE  a * c <= b * c
<1>1. PICK d \in Nat : b = a + d
  <2>1. b - a \in Nat /\ b = a + (b - a)
    OBVIOUS
  <2> QED
    BY <2>1
<1>2. (a + d) * c = a * c + d * c /\ d * c \in Nat /\ a * c \in Nat
  OBVIOUS
<1> QED
  BY <1>1, <1>2

\* Of the length n the lowest bits are in len, and x is still to be read.
Gathered(n, len, shifts, x) ==
  /\ len \in Nat /\ x \in Nat
  /\ shifts \in Nat /\ shifts < IntBits
  /\ n = len + 2 ^ shifts * x /\ len < 2 ^ shifts

\* The length that LoadString makes of n: n itself, or one that no string can have
\* when the last group reaches the sign of the int.
LengthOf(n) ==
  IF n < 2 ^ (IntBits - 1) THEN {n} ELSE (2 ^ (SizeBits - 1))..(2 ^ SizeBits - 1)

\* Reading the last group of a length.
LEMMA LastGroup ==
  ASSUME NEW n \in Nat, n < 2 ^ IntBits, NEW len, NEW shifts, NEW x,
         Gathered(n, len, shifts, x), x < Group
  PROVE  /\ Varint[x] = <<x>>
         /\ WithGroup(len, x, shifts) \in LengthOf(n)
<1>1. len \in Nat /\ x \in Nat /\ shifts \in Nat /\ shifts < IntBits /\ len < 2 ^ shifts
  BY DEF Gathered
<1>2. Varint[x] = <<x>>
  BY <1>1, VarintIs
<1>3. x % Group = x
  BY <1>1, Sizes, Division
<1>4. PICK p \in Nat \ {0} : p = 2 ^ shifts
  <2>1. shifts \in 0..Widest
    BY <1>1, WidthsAssumption DEF Widest
  <2> QED
    BY <2>1, Powers
<1>5. PICK v \in Nat : v = x * p
  BY <1>1, <1>4
<1>6. n = len + v /\ len < p
  <2>1. p * x = x * p
    BY <1>1, <1>4
  <2> QED
    BY <1>1, <1>4, <1>5, <2>1 DEF Gathered
<1>7. PICK h \in Nat \ {0} : h = 2 ^ (IntBits - 1) /\ 2 ^ IntBits = 2 * h
  BY Sizes
<1>8. CASE v < h
  <2>1. WithGroup(len, x, shifts) = n
    BY <1>1, <1>3, <1>4, <1>5, <1>6, <1>7, <1>8, GroupFits
  <2>2. n < h
    <3>1. CASE v = 0
      <4>1. p <= h
        <5>1. CASE shifts = IntBits - 1
          BY <1>4, <1>7, <5>1
        <5>2. CASE shifts < IntBits - 1
          <6>1. 2 * 2 ^ shifts <= 2 ^ (IntBits - 1)
            BY <1>1, <5>2, PowersGrow, WidthsAssumption DEF Widest
          <6> QED
            BY <1>4, <1>7, <6>1
        <5> QED
          BY <1>1, <5>1, <5>2, WidthsAssumption
      <4> QED
        BY <1>1, <1>6, <3>1, <4>1
    <3>2. CASE v # 0
      \* v and h are multiples of p, so that h - v is p at least.
      <4>1. PICK m \in Nat : h = m * p
        <5>1. IntBits - 1 - shifts \in Nat /\ shifts + (IntBits - 1 - shifts) = IntBits - 1
              /\ IntBits - 1 <= Widest /\ IntBits - 1 - shifts \in 0..Widest
          BY <1>1, WidthsAssumption DEF Widest
        <5>2. 2 ^ (IntBits - 1) = 2 ^ shifts * 2 ^ (IntBits - 1 - shifts)
          BY <1>1, <5>1, Powers
        <5>3. PICK m \in Nat : m = 2 ^ (IntBits - 1 - shifts)
          BY <5>1, Powers
        <5>4. p * m = m * p
          BY <1>4, <5>3
        <5> QED
          BY <1>4, <1>7, <5>2, <5>3, <5>4
      <4>2. x < m
        <5>1. x >= m => x * p >= m * p
          BY <1>1, <1>4, <4>1
        <5> QED
          BY <1>1, <1>5, <1>8, <4>1, <5>1
      <4>3. (x + 1) * p <= m * p
        BY <1>1, <1>4, <4>1, <4>2
      <4>4. (x + 1) * p = v + p
        BY <1>1, <1>4, <1>5
      <4> QED
        BY <1>1, <1>6, <4>1, <4>3, <4>4
    <3> QED
      BY <3>1, <3>2
  <2>3. LengthOf(n) = {n}
    BY <1>7, <2>2 DEF LengthOf
  <2> QED
    BY <1>2, <2>1, <2>3
<1>9. CASE v >= h
  <2>1. v < 2 * h
    BY <1>1, <1>6, <1>7
  <2>2. WithGroup(len, x, shifts) \in (2 ^ (SizeBits - 1))..(2 ^ SizeBits - 1)
    BY <1>1, <1>3, <1>4, <1>5, <1>7, <1>9, <2>1, GroupReachesSign
  <2>3. ~(n < h)
    BY <1>1, <1>6, <1>9
  <2>4. LengthOf(n) = (2 ^ (SizeBits - 1))..(2 ^ SizeBits - 1)
    BY <1>7, <2>3 DEF LengthOf
  <2> QED
    BY <1>2, <2>2, <2>4
<1> QED
  BY <1>2, <1>7, <1>8, <1>9

\* Reading a group that is marked.
LEMMA MarkedGroup ==
  ASSUME NEW n \in Nat, n < 2 ^ IntBits, NEW len, NEW shifts, NEW x,
         Gathered(n, len, shifts, x), ~(x < Group)
  PROVE  \E b \in Byte, y \in Nat :
           /\ Varint[x] = <<b>> \o Varint[y]
           /\ ~(b < Group)
           /\ Gathered(n, WithGroup(len, b, shifts), shifts + GroupBits, y)
<1>1. len \in Nat /\ x \in Nat /\ shifts \in Nat /\ shifts < IntBits /\ len < 2 ^ shifts
  BY DEF Gathered
<1>2. PICK g \in Nat : g = Group /\ g >= 2 /\ g = 2 ^ GroupBits
  BY Sizes DEF Group
<1> DEFINE Parts(y, r) == x = g * y + r
<1> HIDE DEF Parts
<1>3. PICK y \in Nat, r \in Nat :
        r < g /\ Parts(y, r) /\ Varint[x] = <<Group + r>> \o Varint[y]
  <2>1. x \div Group \in Nat /\ x % Group \in 0..(Group - 1)
    BY <1>1, Sizes, Division
  <2>2. x = Group * (x \div Group) + (x % Group)
    BY <1>1, Sizes, Division
  <2>3. Varint[x] = <<Group + (x % Group)>> \o Varint[x \div Group]
    BY <1>1, VarintIs
  <2>4. PICK y, r : y = x \div Group /\ r = x % Group
    OBVIOUS
  <2>5. y \in Nat /\ r \in Nat /\ r < g
    <3>1. y \in Nat /\ r \in 0..(Group - 1)
      BY <2>1, <2>4
    <3> QED
      BY <1>2, <3>1
  <2>6. Parts(y, r)
    BY <1>2, <2>2, <2>4 DEF Parts
  <2>7. Varint[x] = <<Group + r>> \o Varint[y]
    BY <2>3, <2>4
  <2> QED
    BY <2>5, <2>6, <2>7
<1>4. r \in Nat /\ r < g
  BY <1>3
<1>5. x = g * y + r
  BY <1>3 DEF Parts
<1>6. Varint[x] = <<Group + r>> \o Varint[y]
  BY <1>3
<1>7. y >= 1
  <2>1. CASE y = 0
    <3>1. x = g * 0 + r
      BY <1>5, <2>1
    <3>2. x < g
      BY <1>4, <3>1
    <3> QED
      BY <1>2, <3>2
  <2> QED
    BY <1>3, <2>1
<1> DEFINE b == Group + r
<1>8. b \in Byte /\ b \in Nat /\ ~(b < Group) /\ Varint[x] = <<b>> \o Varint[y]
  <2>1. Varint[x] = <<b>> \o Varint[y]
    BY <1>6
  <2>2. g + r \in 0..(2 * g - 1) /\ ~(g + r < g)
    BY <1>2, <1>4
  <2>3. g + r = b
    BY <1>2
  <2> HIDE DEF b
  <2> QED
    BY <1>2, <2>2, <2>3, <2>1 DEF Byte
<1>9. b % Group = r
  <2>1. (g + r) % g = r
    <3>1. g + r = g * 1 + r
      BY <1>2
    <3> QED
      BY <1>2, <1>4, <3>1
  <2> QED
    BY <1>2, <2>1
<1>10. PICK p \in Nat \ {0} : p = 2 ^ shifts
  <2>1. shifts \in 0..Widest
    BY <1>1, WidthsAssumption DEF Widest
  <2> QED
    BY <2>1, Powers
<1>11. 2 ^ (shifts + GroupBits) = p * g /\ shifts + GroupBits \in 0..Widest
  <2>1. shifts + GroupBits <= Widest /\ GroupBits \in Nat
    BY <1>1, WidthsAssumption DEF Widest
  <2> QED
    BY <1>1, <1>2, <1>10, <2>1, Powers
<1>12. PICK v \in Nat : v = r * p
  BY <1>10
<1>13. PICK w \in Nat : w = (p * g) * y
  BY <1>2, <1>10
<1>14. p * x = w + v
  <2>1. p * (g * y + r) = (p * g) * y + r * p
    BY <1>2, <1>10
  <2> QED
    BY <1>3, <1>12, <1>13, <2>1 DEF Parts
<1>15. n = (len + v) + w
  BY <1>1, <1>10, <1>14 DEF Gathered
<1>16. len + v < p * g
  <2>1. (r + 1) * p <= g * p /\ g * p = p * g
    <3>1. r + 1 <= g /\ r + 1 \in Nat
      BY <1>4
    <3>2. g * p = p * g
      BY <1>10
    <3> QED
      BY <1>10, <3>1, <3>2, TimesGrows
  <2>2. (r + 1) * p = v + p
    BY <1>10, <1>12
  <2>3. p * g \in Nat
    BY <1>2, <1>10
  <2> QED
    BY <1>1, <1>10, <2>1, <2>2, <2>3
<1>17. p * g <= n
  <2>1. (p * g) * y >= p * g
    BY <1>2, <1>7, <1>10
  <2>2. p * g \in Nat
    BY <1>2, <1>10
  <2> QED
    BY <1>1, <1>13, <1>15, <2>1, <2>2
<1>18. shifts + GroupBits < IntBits
  <2>1. CASE shifts + GroupBits = IntBits
    BY <1>2, <1>10, <1>11, <1>17, <2>1
  <2>2. CASE shifts + GroupBits > IntBits
    <3>1. 2 * 2 ^ IntBits <= 2 ^ (shifts + GroupBits)
      BY <1>11, <2>2, PowersGrow, WidthsAssumption
    <3>2. PICK k \in Nat : k = 2 ^ IntBits
      BY Sizes
    <3>3. p * g \in Nat
      BY <1>2, <1>10
    <3> QED
      BY <1>11, <1>17, <3>1, <3>2, <3>3
  <2> QED
    BY <1>1, <2>1, <2>2, WidthsAssumption
<1>19. v < 2 ^ (IntBits - 1)
  <2>1. v < p * g
    BY <1>1, <1>2, <1>10, <1>16
  <2>2. 2 ^ (shifts + GroupBits) <= 2 ^ (IntBits - 1)
    <3>1. CASE shifts + GroupBits = IntBits - 1
      <4>1. 2 ^ (IntBits - 1) \in Nat
        BY Sizes
      <4> QED
        BY <3>1, <4>1
    <3>2. CASE shifts + GroupBits < IntBits - 1
      <4>1. 2 * 2 ^ (shifts + GroupBits) <= 2 ^ (IntBits - 1)
        BY <1>11, <3>2, PowersGrow, WidthsAssumption DEF Widest
      <4>2. 2 ^ (shifts + GroupBits) \in Nat /\ 2 ^ (IntBits - 1) \in Nat
        BY <1>11, Powers, Sizes
      <4> QED
        BY <4>1, <4>2
    <3> QED
      BY <1>1, <1>18, <3>1, <3>2, WidthsAssumption
  <2>3. p * g \in Nat /\ 2 ^ (IntBits - 1) \in Nat
    BY <1>2, <1>10, Sizes
  <2> QED
    BY <1>11, <2>1, <2>2, <2>3
<1>20. WithGroup(len, b, shifts) = len + v
  <2>1. (b % Group) * 2 ^ shifts = v
    BY <1>9, <1>10, <1>12
  <2> HIDE DEF b
  <2> QED
    BY <1>1, <1>8, <1>19, <2>1, GroupFits
<1>21. Gathered(n, WithGroup(len, b, shifts), shifts + GroupBits, y)
  <2>1. len + v \in Nat /\ shifts + GroupBits \in Nat
    BY <1>1, <1>11
  <2> HIDE DEF b
  <2> QED
    BY <1>11, <1>13, <1>15, <1>16, <1>18, <1>20, <2>1 DEF Gathered
<1> QED
  BY <1>8, <1>21

-----------------------------------------------------------------------------
(* Records, and the bytes of a sequence of them.                           *)

\* The recursion in FlattenSeq is well founded.
LEMMA FlattenIs ==
  ASSUME NEW S, NEW ss \in Seq(Seq(S)), ss # <<>>
  PROVE  \E f : /\ \A i \in 1..Len(ss) :
                     /\ f[i] \in Seq(S)
                     /\ f[i] = IF i = 1 THEN ss[i] ELSE f[i - 1] \o ss[i]
                /\ FlattenSeq(ss) = f[Len(ss)]
<1> DEFINE T == Seq(S)
           base == {0, 1}
           down == [n \in Nat |-> IF n \in base THEN 0 ELSE n - 1]
           start == [n \in base |-> ss[1]]
           step == [n \in Nat |-> [v \in T |-> IF n \in 1..Len(ss) THEN v \o ss[n] ELSE v]]
           Is(f) == f = [i \in 1..Len(ss) |-> IF i = 1 THEN ss[i] ELSE f[i - 1] \o ss[i]]
<1>1. Len(ss) \in Nat /\ Len(ss) # 0 /\ \A i \in 1..Len(ss) : ss[i] \in T
  OBVIOUS
<1>2. /\ start \in [base -> T]
      /\ start[1] = ss[1]
  BY <1>1
<1>3. /\ Descends(base, down)
      /\ \A n \in Nat : n > 1 => down[n] = n - 1
  BY DEF Descends
<1>4. /\ step \in [Nat -> [T -> T]]
      /\ \A n \in 1..Len(ss), v \in T : step[n][v] = v \o ss[n] /\ v \o ss[n] \in T
  <2>1. \A n \in 1..Len(ss), v \in T : v \o ss[n] \in T
    BY <1>1
  <2>2. 1..Len(ss) \subseteq Nat
    OBVIOUS
  <2> HIDE DEF T
  <2> QED
    BY <2>1, <2>2
<1>5. PICK g \in [Nat -> T] : Recursive(g, base, start, down, step)
  <2> HIDE DEF T, base, down, start, step
  <2> QED
    BY <1>2, <1>3, <1>4, RecursionExists
<1>6. ASSUME NEW i \in 1..Len(ss)
      PROVE  g[i] \in T /\ g[i] = IF i = 1 THEN ss[i] ELSE g[i - 1] \o ss[i]
  <2>1. i \in Nat /\ g[i] \in T
    BY <1>5
  <2>2. g[i] = IF i \in base THEN start[i] ELSE step[i][g[down[i]]]
    <3> HIDE DEF T, base, down, start, step
    <3> QED
      BY <1>5, <2>1 DEF Recursive
  <2>3. CASE i = 1
    BY <1>2, <2>1, <2>2, <2>3
  <2>4. CASE i # 1
    <3>1. i \notin base /\ i > 1 /\ i - 1 \in Nat
      BY <2>4
    <3>4. down[i] = i - 1
      <4> HIDE DEF down
      <4> QED
        BY <1>3, <2>1, <3>1
    <3>2. g[i - 1] \in T
      BY <1>5, <3>1
    <3>3. step[i][g[i - 1]] = g[i - 1] \o ss[i]
      <4> HIDE DEF T, step
      <4> QED
        BY <1>4, <3>2
    <3> HIDE DEF T, base, down, start, step
    <3> QED
      BY <2>1, <2>2, <2>4, <3>1, <3>3, <3>4
  <2> QED
    BY <2>3, <2>4
<1> DEFINE f == [i \in 1..Len(ss) |-> g[i]]
<1>7. Is(f)
  <2>1. \A i \in 1..Len(ss) : i # 1 => i - 1 \in 1..Len(ss)
    BY <1>1
  <2> HIDE DEF T
  <2> QED
    BY <1>6, <2>1
<1> DEFINE c == CHOOSE h : Is(h)
<1>8. Is(c)
  <2> HIDE DEF Is, f
  <2> QED
    BY <1>7
<1>9. FlattenSeq(ss) = c[Len(ss)]
  BY <1>1 DEF FlattenSeq
<1> HIDE DEF c, T, base, down, start, step, f
<1> DEFINE Same == {i \in Nat : i \in 1..Len(ss) => c[i] = g[i]}
<1>10. ASSUME NEW i \in Nat, i \in Same
       PROVE  i + 1 \in Same
  <2>1. SUFFICES ASSUME i + 1 \in 1..Len(ss) PROVE c[i + 1] = g[i + 1]
    OBVIOUS
  <2>2. c[i + 1] = IF i + 1 = 1 THEN ss[i + 1] ELSE c[i] \o ss[i + 1]
    <3>1. \A j \in 1..Len(ss) : c[j] = IF j = 1 THEN ss[j] ELSE c[j - 1] \o ss[j]
      BY <1>8
    <3>2. (i + 1) - 1 = i
      OBVIOUS
    <3> QED
      BY <2>1, <3>1, <3>2
  <2>3. g[i + 1] = IF i + 1 = 1 THEN ss[i + 1] ELSE g[i] \o ss[i + 1]
    <3>1. (i + 1) - 1 = i
      OBVIOUS
    <3> QED
      BY <1>6, <2>1, <3>1
  <2>4. i + 1 # 1 => c[i] = g[i]
    <3>1. i + 1 # 1 => i \in 1..Len(ss)
      BY <1>1, <2>1
    <3> QED
      BY <1>10, <3>1
  <2> QED
    BY <2>2, <2>3, <2>4
<1>11. \A i \in Nat : i \in Same
  <2>1. 0 \in Same
    <3>1. 0 \notin 1..Len(ss) /\ 0 \in Nat
      BY <1>1
    <3> QED
      BY <3>1
  <2> HIDE DEF Same
  <2> QED
    BY <1>10, <2>1, Induction
<1>12. FlattenSeq(ss) = g[Len(ss)]
  <2>1. c[Len(ss)] = g[Len(ss)]
    <3>1. Len(ss) \in 1..Len(ss)
      BY <1>1
    <3> QED
      BY <1>1, <1>11, <3>1
  <2> QED
    BY <1>9, <2>1
<1> QED
  BY <1>6, <1>12 DEF T

\* FlattenSeq one sequence at a time.
LEMMA FlattenAppend ==
  ASSUME NEW S, NEW ss \in Seq(Seq(S)), NEW s \in Seq(S)
  PROVE  /\ FlattenSeq(ss) \in Seq(S)
         /\ FlattenSeq(Append(ss, s)) = FlattenSeq(ss) \o s
<1>1. PICK tt \in Seq(Seq(S)) : /\ tt = Append(ss, s)
                                /\ tt # <<>> /\ Len(tt) = Len(ss) + 1 /\ Len(ss) \in Nat
                                /\ \A i \in 1..Len(ss) : tt[i] = ss[i]
                                /\ tt[Len(ss) + 1] = s
  <2>1. PICK n \in Nat : n = Len(ss)
    OBVIOUS
  <2>2. PICK T : T = Seq(S)
    OBVIOUS
  <2>3. Append(ss, s) \in Seq(T) /\ Len(Append(ss, s)) = n + 1
    BY <2>1, <2>2
  <2>4. (\A i \in 1..n : Append(ss, s)[i] = ss[i]) /\ Append(ss, s)[n + 1] = s
    BY <2>1, <2>2
  <2>5. Append(ss, s) # <<>>
    BY <2>1, <2>3
  <2> QED
    BY <2>1, <2>2, <2>3, <2>4, <2>5
<1>2. PICK g : /\ \A i \in 1..Len(tt) : /\ g[i] \in Seq(S)
                                        /\ g[i] = IF i = 1 THEN tt[i] ELSE g[i - 1] \o tt[i]
               /\ FlattenSeq(tt) = g[Len(tt)]
  BY <1>1, FlattenIs
<1>3. CASE ss = <<>>
  <2>1. FlattenSeq(<<>>) = <<>>
    BY DEF FlattenSeq
  <2>2. Len(ss) = 0
    BY <1>3
  <2>3. FlattenSeq(tt) = s
    BY <1>1, <1>2, <2>2
  <2>4. <<>> \o s = s /\ <<>> \in Seq(S)
    BY ConcatEmptySeq
  <2> QED
    BY <1>1, <1>3, <2>1, <2>3, <2>4
<1>4. CASE ss # <<>>
  <2>1. PICK f : /\ \A i \in 1..Len(ss) : /\ f[i] \in Seq(S)
                                          /\ f[i] = IF i = 1 THEN ss[i] ELSE f[i - 1] \o ss[i]
                 /\ FlattenSeq(ss) = f[Len(ss)]
    BY <1>4, FlattenIs
  <2>2. PICK n \in Nat : n = Len(ss) /\ n # 0
    BY <1>1, <1>4
  <2> DEFINE Same == {i \in Nat : i \in 1..n => f[i] = g[i]}
  <2>3. ASSUME NEW i \in Nat, i \in Same
        PROVE  i + 1 \in Same
    <3>1. SUFFICES ASSUME i + 1 \in 1..n PROVE f[i + 1] = g[i + 1]
      OBVIOUS
    <3>2. i + 1 \in 1..Len(ss) /\ i + 1 \in 1..Len(tt) /\ (i + 1) - 1 = i
      BY <1>1, <2>2, <3>1
    <3>3. /\ f[i + 1] = IF i + 1 = 1 THEN ss[i + 1] ELSE f[i] \o ss[i + 1]
          /\ g[i + 1] = IF i + 1 = 1 THEN tt[i + 1] ELSE g[i] \o tt[i + 1]
      BY <1>2, <2>1, <3>2
    <3>4. ss[i + 1] = tt[i + 1]
      BY <1>1, <3>2
    <3>5. i + 1 # 1 => f[i] = g[i]
      BY <2>3, <3>1
    <3> QED
      BY <3>3, <3>4, <3>5
  <2>4. \A i \in Nat : i \in Same
    <3>1. 0 \in Same
      OBVIOUS
    <3> HIDE DEF Same
    <3> QED
      BY <2>3, <3>1, Induction
  <2>5. f[n] = g[n]
    BY <2>2, <2>4
  <2>6. g[n + 1] = g[n] \o tt[n + 1]
    <3>1. n + 1 \in 1..Len(tt) /\ (n + 1) - 1 = n /\ n + 1 # 1
      BY <1>1, <2>2
    <3> QED
      BY <1>2, <3>1
  <2>7. f[n] \in Seq(S)
    BY <2>1, <2>2
  <2> QED
    BY <1>1, <1>2, <2>1, <2>2, <2>5, <2>6, <2>7
<1> QED
  BY <1>3, <1>4

\* The first sequence comes first.
LEMMA FlattenFirst ==
  ASSUME NEW S, NEW s \in Seq(S)
  PROVE  \A ss \in Seq(Seq(S)) : FlattenSeq(<<s>> \o ss) = s \o FlattenSeq(ss)
<1>1. PICK T : T = Seq(S)
  OBVIOUS
<1>2. FlattenSeq(<<>>) = <<>>
  BY DEF FlattenSeq
<1>3. \A a, b, c \in T : (a \o b) \o c = a \o (b \o c)
  <2>1. ASSUME NEW a \in Seq(S), NEW b \in Seq(S), NEW c \in Seq(S)
        PROVE  (a \o b) \o c = a \o (b \o c)
    BY ConcatAssociative
  <2> QED
    BY <1>1, <2>1
<1>4. \A a \in T : a \o <<>> = a /\ <<>> \o a = a
  BY <1>1, ConcatEmptySeq
<1>5. \A ss \in Seq(T), t \in T : /\ FlattenSeq(ss) \in T
                                   /\ FlattenSeq(Append(ss, t)) = FlattenSeq(ss) \o t
  BY <1>1, FlattenAppend
<1>6. s \in T /\ <<>> \in T
  BY <1>1
<1> DEFINE U == {n \in Nat : \A ss \in Seq(T) : Len(ss) = n =>
                               FlattenSeq(<<s>> \o ss) = s \o FlattenSeq(ss)}
<1>7. 0 \in U
  <2>1. SUFFICES ASSUME NEW ss \in Seq(T), Len(ss) = 0
                 PROVE  FlattenSeq(<<s>> \o ss) = s \o FlattenSeq(ss)
    OBVIOUS
  <2>2. ss = <<>> /\ <<s>> \o ss = Append(<<>>, s) /\ <<>> \in Seq(T)
    BY <1>6, <2>1
  <2>3. FlattenSeq(<<s>> \o ss) = <<>> \o s
    BY <1>2, <1>5, <1>6, <2>2
  <2>4. <<>> \o s = s /\ s \o <<>> = s
    BY <1>4, <1>6
  <2> QED
    BY <1>2, <2>2, <2>3, <2>4
<1>8. ASSUME NEW n \in Nat, n \in U
      PROVE  n + 1 \in U
  <2>1. SUFFICES ASSUME NEW ss \in Seq(T), Len(ss) = n + 1
                 PROVE  FlattenSeq(<<s>> \o ss) = s \o FlattenSeq(ss)
    OBVIOUS
  <2>2. ss # <<>>
    BY <2>1
  <2>3. PICK front \in Seq(T), last \in T : ss = Append(front, last)
    BY <2>2, SequenceEmptyOrAppend
  <2>4. Len(front) = n
    BY <2>1, <2>3
  <2>5. <<s>> \o ss = Append(<<s>> \o front, last) /\ <<s>> \o front \in Seq(T)
    <3>1. <<s>> \in Seq(T)
      BY <1>6
    <3> QED
      BY <2>3, <3>1
  <2>6. FlattenSeq(<<s>> \o front) = s \o FlattenSeq(front)
    BY <1>8, <2>4
  <2>7. FlattenSeq(<<s>> \o ss) = (s \o FlattenSeq(front)) \o last
    BY <1>5, <2>3, <2>5, <2>6
  <2>8. FlattenSeq(ss) = FlattenSeq(front) \o last /\ FlattenSeq(front) \in T
    BY <1>5, <2>3
  <2>9. (s \o FlattenSeq(front)) \o last = s \o (FlattenSeq(front) \o last)
    <3> HIDE DEF U
    <3> QED
      BY <1>3, <1>6, <2>3, <2>8
  <2> QED
    BY <2>7, <2>8, <2>9
<1>9. \A n \in Nat : n \in U
  <2> HIDE DEF U
  <2> QED
    BY <1>7, <1>8, Induction
<1>10. \A ss \in Seq(T) : Len(ss) \in Nat
  OBVIOUS
<1> QED
  BY <1>1, <1>9, <1>10

Associates(x, y, z) == x \o y \in Seq(Byte) /\ (x \o y) \o z = x \o (y \o z)

\* Brackets do not matter.
LEMMA Regroup == \A x, y, z \in Seq(Byte) : Associates(x, y, z)
<1> SUFFICES ASSUME NEW x \in Seq(Byte), NEW y \in Seq(Byte), NEW z \in Seq(Byte)
             PROVE  x \o y \in Seq(Byte) /\ (x \o y) \o z = x \o (y \o z)
  BY DEF Associates
<1> QED
  BY ConcatProperties, ConcatAssociative

Strings == Keys \cup Values

\* A string is preceded by its length.
LEMMA DumpIs ==
  ASSUME NEW s \in Strings
  PROVE  /\ s \in Seq(Byte) /\ Len(s) \in Nat /\ Len(s) < 2 ^ IntBits
         /\ Varint[Len(s)] \in Seq(Byte) /\ Varint[Len(s)] # <<>>
         /\ DumpString(s) = Varint[Len(s)] \o s
         /\ DumpString(s) \in Seq(Byte)
<1>1. s \in Seq(Byte) /\ Len(s) < 2 ^ IntBits
  BY StringsAssumption DEF Strings
<1>2. Len(s) \in Nat
  BY <1>1
<1>3. Varint[Len(s)] \in Seq(Byte) /\ Varint[Len(s)] # <<>>
  BY <1>2, VarintIs
<1>4. DumpString(s) = Varint[Len(s)] \o s
  BY DEF DumpString
<1>5. Varint[Len(s)] \o s \in Seq(Byte)
  BY <1>1, <1>3, ConcatProperties
<1> QED
  BY <1>1, <1>2, <1>3, <1>4, <1>5

\* A change has a type and the strings of its type.
LEMMA ChangeIs ==
  ASSUME NEW c \in Changes
  PROVE  /\ c # NoChange
         /\ c[1] \in DOMAIN StringsOf /\ DOMAIN StringsOf = {0, 1, 2}
         /\ Len(c) \in 1..3 /\ Len(c) = StringsOf[c[1]] + 1
         /\ c = [i \in 1..Len(c) |-> c[i]]
         /\ \A i \in 2..Len(c) : c[i] \in Strings
<1>1. CASE \E k \in Keys, v \in Values : c = <<kPut, k, v>>
  <2>1. PICK k \in Keys, v \in Values : c = <<kPut, k, v>>
    BY <1>1
  <2>2. /\ Len(c) = 3 /\ c[1] = 0 /\ c[2] = k /\ c[3] = v
        /\ c = [i \in 1..3 |-> c[i]]
    BY <2>1 DEF kPut
  <2>3. \A i \in 2..3 : i = 2 \/ i = 3
    OBVIOUS
  <2>4. c # NoChange
    BY <2>2 DEF NoChange
  <2> QED
    BY <2>2, <2>3, <2>4 DEF StringsOf, kPut, kRemove, kClear, Strings
<1>2. CASE \E k \in Keys : c = <<kRemove, k>>
  <2>1. PICK k \in Keys : c = <<kRemove, k>>
    BY <1>2
  <2>2. /\ Len(c) = 2 /\ c[1] = 1 /\ c[2] = k
        /\ c = [i \in 1..2 |-> c[i]]
    BY <2>1 DEF kRemove
  <2>3. \A i \in 2..2 : i = 2
    OBVIOUS
  <2>4. c # NoChange
    BY <2>2 DEF NoChange
  <2> QED
    BY <2>2, <2>3, <2>4 DEF StringsOf, kPut, kRemove, kClear, Strings
<1>3. CASE c = <<kClear>>
  <2>1. /\ Len(c) = 1 /\ c[1] = 2
        /\ c = [i \in 1..1 |-> c[i]]
    BY <1>3 DEF kClear
  <2>2. c # NoChange
    BY <2>1 DEF NoChange
  <2> QED
    BY <2>1, <2>2 DEF StringsOf, kPut, kRemove, kClear
<1> QED
  BY <1>1, <1>2, <1>3 DEF Changes

\* The same as a fact about all of them.
LEMMA LengthIs ==
  \A c \in Changes : /\ Len(c) \in 1..3 /\ StringsOf[c[1]] = Len(c) - 1
                     /\ \A j \in 2..Len(c) : c[j] \in Strings
<1> SUFFICES ASSUME NEW c \in Changes
             PROVE  /\ Len(c) \in 1..3 /\ StringsOf[c[1]] = Len(c) - 1
                    /\ \A j \in 2..Len(c) : c[j] \in Strings
  OBVIOUS
<1>1. Len(c) \in 1..3 /\ Len(c) = StringsOf[c[1]] + 1
  BY ChangeIs
<1>2. PICK n \in 1..3 : n = Len(c) /\ n = StringsOf[c[1]] + 1
  BY <1>1
<1>3. StringsOf[c[1]] \in Int
  <2>1. \A t \in {0, 1, 2} : StringsOf[t] \in Int
    BY DEF StringsOf, kPut, kRemove, kClear
  <2>2. c[1] \in {0, 1, 2}
    BY ChangeIs
  <2> QED
    BY <2>1, <2>2
<1>4. \A j \in 2..Len(c) : c[j] \in Strings
  BY ChangeIs
<1> QED
  BY <1>2, <1>3, <1>4

\* The first string of a change, if there is one, is at 2.
LEMMA SecondIs == \A c \in Changes : 2 \in 2..(Len(c) + 1)
<1> SUFFICES ASSUME NEW c \in Changes
             PROVE  2 \in 2..(Len(c) + 1)
  OBVIOUS
<1>1. Len(c) \in 1..3
  BY ChangeIs
<1> QED
  BY <1>1

\* The bytes of the strings of a change, from the one at i on.
StringsFrom(c, i) ==
  IF i > Len(c) THEN <<>>
  ELSE IF i = Len(c) THEN DumpString(c[i])
  ELSE DumpString(c[i]) \o DumpString(c[i + 1])

\* The first of them comes first.
LEMMA StringsFromIs ==
  ASSUME NEW c \in Changes, NEW i \in 2..(Len(c) + 1)
  PROVE  /\ StringsFrom(c, i) \in Seq(Byte)
         /\ i = Len(c) + 1 => StringsFrom(c, i) = <<>>
         /\ i <= Len(c) =>
              StringsFrom(c, i) = Varint[Len(c[i])] \o (c[i] \o StringsFrom(c, i + 1))
<1>1. Len(c) \in 1..3 /\ (\A j \in 2..Len(c) : c[j] \in Strings)
  BY ChangeIs
<1>2. CASE i = Len(c) + 1
  <2>1. StringsFrom(c, i) = <<>> /\ ~(i <= Len(c))
    BY <1>1, <1>2 DEF StringsFrom
  <2>2. <<>> \in Seq(Byte)
    BY EmptySeq
  <2> QED
    BY <2>1, <2>2
<1>3. CASE i = Len(c)
  <2>1. c[i] \in Strings /\ i # Len(c) + 1 /\ i <= Len(c)
    BY <1>1, <1>3
  <2>2. StringsFrom(c, i) = DumpString(c[i]) /\ StringsFrom(c, i + 1) = <<>>
    BY <1>1, <1>3 DEF StringsFrom
  <2>3. PICK s \in Strings : s = c[i]
    BY <2>1
  <2>4. s \o <<>> = s
    BY DumpIs, ConcatEmptySeq
  <2> QED
    BY <2>1, <2>2, <2>3, <2>4, DumpIs
<1>4. CASE i < Len(c)
  <2>1. i = 2 /\ Len(c) = 3 /\ c[2] \in Strings /\ c[3] \in Strings
    BY <1>1, <1>4
  <2>2. StringsFrom(c, 2) = DumpString(c[2]) \o DumpString(c[3])
    BY <2>1 DEF StringsFrom
  <2>3. StringsFrom(c, 3) = DumpString(c[3])
    BY <2>1 DEF StringsFrom
  <2>4. PICK s \in Strings, t \in Strings : s = c[2] /\ t = c[3]
    BY <2>1
  <2>5. (Varint[Len(s)] \o s) \o DumpString(t) = Varint[Len(s)] \o (s \o DumpString(t))
    <3>1. /\ Varint[Len(s)] \in Seq(Byte) /\ s \in Seq(Byte)
          /\ DumpString(t) \in Seq(Byte)
      BY DumpIs
    <3>2. PICK a \in Seq(Byte), d \in Seq(Byte) : a = Varint[Len(s)] /\ d = DumpString(t)
      BY <3>1
    <3>3. Associates(a, s, d)
      BY <3>1, Regroup
    <3> QED
      BY <3>2, <3>3 DEF Associates
  <2>6. DumpString(s) \o DumpString(t) \in Seq(Byte)
    BY DumpIs, ConcatProperties
  <2>7. DumpString(s) = Varint[Len(s)] \o s
    BY DumpIs
  <2>8. i # Len(c) + 1 /\ i <= Len(c) /\ i + 1 = 3
    BY <2>1
  <2> QED
    BY <2>1, <2>2, <2>3, <2>4, <2>5, <2>6, <2>7, <2>8
<1>5. i = Len(c) + 1 \/ i = Len(c) \/ i < Len(c)
  BY <1>1
<1> QED
  BY <1>2, <1>3, <1>4, <1>5

\* A record is the type of its change and then the strings.
LEMMA RecordIs ==
  ASSUME NEW c \in Changes
  PROVE  /\ Record(c) = <<c[1]>> \o StringsFrom(c, 2)
         /\ Record(c) \in Seq(Byte) /\ Record(c) # <<>>
         /\ c[1] \in Byte
<1>1. /\ Len(c) \in 1..3 /\ c[1] \in {0, 1, 2}
      /\ \A j \in 2..Len(c) : c[j] \in Strings
  BY ChangeIs
<1>2. c[1] \in Byte
  BY <1>1, Sizes DEF Byte
<1> DEFINE ss == [i \in 1..(Len(c) - 1) |-> DumpString(c[i + 1])]
<1>3. FlattenSeq(ss) = StringsFrom(c, 2)
  <2>1. FlattenSeq(<<>>) = <<>> /\ <<>> \in Seq(Seq(Byte))
    BY DEF FlattenSeq
  <2>2. CASE Len(c) = 1
    <3>1. ss = <<>>
      BY <2>2
    <3> QED
      BY <2>1, <2>2, <3>1 DEF StringsFrom
  <2>3. CASE Len(c) = 2
    <3>1. c[2] \in Strings
      BY <1>1, <2>3
    <3>2. PICK d \in Seq(Byte) : d = DumpString(c[2])
      BY <3>1, DumpIs
    <3>3. ss = Append(<<>>, d)
      BY <2>3, <3>2
    <3>4. FlattenSeq(Append(<<>>, d)) = <<>> \o d
      BY <2>1, FlattenAppend
    <3>5. <<>> \o d = d
      BY ConcatEmptySeq
    <3>6. StringsFrom(c, 2) = d
      BY <2>3, <3>2 DEF StringsFrom
    <3> HIDE DEF ss
    <3> QED
      BY <3>3, <3>4, <3>5, <3>6
  <2>4. CASE Len(c) = 3
    <3>1. c[2] \in Strings /\ c[3] \in Strings
      BY <1>1, <2>4
    <3>2. PICK d \in Seq(Byte), e \in Seq(Byte) : d = DumpString(c[2]) /\ e = DumpString(c[3])
      BY <3>1, DumpIs
    <3>3. ss = Append(Append(<<>>, d), e) /\ Append(<<>>, d) \in Seq(Seq(Byte))
      BY <2>4, <3>2
    <3>4. FlattenSeq(Append(<<>>, d)) = <<>> \o d
      BY <2>1, FlattenAppend
    <3>5. <<>> \o d = d
      BY ConcatEmptySeq
    <3>6. FlattenSeq(Append(Append(<<>>, d), e)) = FlattenSeq(Append(<<>>, d)) \o e
      BY <3>3, FlattenAppend
    <3>7. StringsFrom(c, 2) = d \o e
      BY <2>4, <3>2 DEF StringsFrom
    <3> HIDE DEF ss
    <3> QED
      BY <3>3, <3>4, <3>5, <3>6, <3>7
  <2> HIDE DEF ss
  <2> QED
    BY <1>1, <2>2, <2>3, <2>4
<1>4. Record(c) = <<c[1]>> \o StringsFrom(c, 2)
  BY <1>3 DEF Record
<1>5. StringsFrom(c, 2) \in Seq(Byte)
  <2>1. 2 \in 2..(Len(c) + 1)
    BY <1>1
  <2> QED
    BY <2>1, StringsFromIs
<1>6. PICK a \in Seq(Byte), b \in Seq(Byte) : /\ a = <<c[1]>> /\ b = StringsFrom(c, 2)
                                              /\ Len(a) = 1
  <2>1. <<c[1]>> \in Seq(Byte) /\ Len(<<c[1]>>) = 1
    BY <1>2
  <2> HIDE DEF ss
  <2> QED
    BY <1>5, <2>1
<1>7. a \o b \in Seq(Byte) /\ Len(a \o b) > 0
  BY <1>6, ConcatProperties
<1> QED
  BY <1>2, <1>4, <1>6, <1>7

\* The records follow one another.
LEMMA BytesAre ==
  /\ Bytes(<<>>) = <<>>
  /\ \A cs \in Seq(Changes) : Bytes(cs) \in Seq(Byte)
  /\ \A cs \in Seq(Changes), c \in Changes :
       /\ Bytes(Append(cs, c)) = Bytes(cs) \o Record(c)
       /\ Bytes(<<c>> \o cs) = Record(c) \o Bytes(cs)
<1>1. PICK T : T = Seq(Byte)
  OBVIOUS
<1>2. \A c \in Changes : Record(c) \in T
  BY <1>1, RecordIs
<1> DEFINE Records(cs) == [i \in DOMAIN cs |-> Record(cs[i])]
<1>3. \A cs \in Seq(Changes) : Records(cs) \in Seq(T)
  BY <1>2
<1>4. \A cs : Bytes(cs) = FlattenSeq(Records(cs))
  BY DEF Bytes
<1>5. Bytes(<<>>) = <<>>
  <2>1. Records(<<>>) = <<>>
    OBVIOUS
  <2>2. FlattenSeq(<<>>) = <<>>
    BY DEF FlattenSeq
  <2> HIDE DEF Records
  <2> QED
    BY <1>4, <2>1, <2>2
<1>6. \A cs \in Seq(Changes) : Bytes(cs) \in Seq(Byte)
  <2>1. <<>> \in Seq(Byte)
    OBVIOUS
  <2> HIDE DEF Records
  <2> QED
    BY <1>1, <1>3, <1>4, <2>1, FlattenAppend
<1>7. ASSUME NEW cs \in Seq(Changes), NEW c \in Changes
      PROVE  /\ Bytes(Append(cs, c)) = Bytes(cs) \o Record(c)
             /\ Bytes(<<c>> \o cs) = Record(c) \o Bytes(cs)
  <2>1. Records(Append(cs, c)) = Append(Records(cs), Record(c))
    BY <1>2
  <2>2. Records(<<c>> \o cs) = <<Record(c)>> \o Records(cs)
    BY <1>2
  <2>3. Records(cs) \in Seq(Seq(Byte)) /\ Record(c) \in Seq(Byte)
    BY <1>1, <1>2, <1>3
  <2> HIDE DEF Records
  <2>4. FlattenSeq(Append(Records(cs), Record(c))) = FlattenSeq(Records(cs)) \o Record(c)
    BY <2>3, FlattenAppend
  <2>5. FlattenSeq(<<Record(c)>> \o Records(cs)) = Record(c) \o FlattenSeq(Records(cs))
    BY <2>3, FlattenFirst
  <2> QED
    BY <1>4, <2>1, <2>2, <2>4, <2>5
<1> QED
  BY <1>5, <1>6, <1>7

-----------------------------------------------------------------------------
(* The file as a prefix of what was meant to be written.                   *)

\* The changes that a file stands for when the last one was being made.
With(st, c) == IF c = NoChange THEN st ELSE Append(st, c)

\* How much of them may be missing at the end of the file.
Slack(c) == IF c = NoChange THEN 0 ELSE Len(Record(c))

\* f holds the records of With(st, c), the last one cut anywhere.
Torn(f, st, c) ==
  \E q \in Seq(Byte) : f \o q = Bytes(With(st, c)) /\ Len(q) <= Slack(c)

\* Besides, after the first p bytes of f come those of todo.
Follows(f, p, todo, st, c) ==
  \E r, u, q \in Seq(Byte) :
    /\ f = r \o u /\ Len(r) = p
    /\ u \o q = todo
    /\ f \o q = Bytes(With(st, c)) /\ Len(q) <= Slack(c)

\* One byte is a sequence of bytes.
LEMMA OneByte == \A x \in Byte : <<x>> \in Seq(Byte) /\ Len(<<x>>) = 1 /\ <<x>>[1] = x
  OBVIOUS

\* A sequence that is not empty has a length.
LEMMA NotEmpty == \A s \in Seq(Byte) : s # <<>> => Len(s) > 0
  OBVIOUS

\* Equal ends can be taken away.
LEMMA Cancel ==
  ASSUME NEW r \in Seq(Byte), NEW s \in Seq(Byte), NEW t \in Seq(Byte), r \o t = s \o t
  PROVE  r = s
<1>1. Len(r) = Len(s)
  <2>1. Len(r \o t) = Len(r) + Len(t) /\ Len(s \o t) = Len(s) + Len(t)
    BY ConcatProperties
  <2> QED
    BY <2>1
<1>2. \A i \in 1..Len(r) : (r \o t)[i] = r[i] /\ (s \o t)[i] = s[i]
  BY <1>1
<1> QED
  BY <1>1, <1>2, SeqEqual

\* So can equal beginnings.
LEMMA CancelFirst ==
  ASSUME NEW a \in Seq(Byte), NEW r \in Seq(Byte), NEW s \in Seq(Byte), a \o r = a \o s
  PROVE  r = s
<1>1. Len(r) = Len(s)
  <2>1. Len(a \o r) = Len(a) + Len(r) /\ Len(a \o s) = Len(a) + Len(s)
    BY ConcatProperties
  <2> QED
    BY <2>1
<1>2. \A i \in 1..Len(r) : (a \o r)[Len(a) + i] = r[i] /\ (a \o s)[Len(a) + i] = s[i]
  BY <1>1
<1> QED
  BY <1>1, <1>2, SeqEqual

CancelsMiddle(a, w, q, b) == (a \o w) \o q = a \o b => w \o q = b

\* So can the beginning of the first of two parts.
LEMMA CancelMiddle == \A a, w, q, b \in Seq(Byte) : CancelsMiddle(a, w, q, b)
<1>1. SUFFICES ASSUME NEW a \in Seq(Byte), NEW w \in Seq(Byte), NEW q \in Seq(Byte),
                      NEW b \in Seq(Byte)
               PROVE  (a \o w) \o q = a \o b => w \o q = b
  BY DEF CancelsMiddle
<1>2. (a \o w) \o q = a \o (w \o q) /\ w \o q \in Seq(Byte)
  <2>1. Associates(a, w, q) /\ Associates(w, q, b)
    BY Regroup
  <2> QED
    BY <2>1 DEF Associates
<1>3. PICK r \in Seq(Byte) : r = w \o q
  BY <1>2
<1>4. a \o r = a \o b => r = b
  BY <1>3, CancelFirst
<1> QED
  BY <1>2, <1>3, <1>4

\* A prefix of a concatenation that is as long as its first part is that part.
LEMMA PrefixIs ==
  ASSUME NEW f \in Seq(Byte), NEW q \in Seq(Byte), NEW a \in Seq(Byte), NEW b \in Seq(Byte),
         f \o q = a \o b, Len(a) <= Len(f)
  PROVE  SubSeq(f, 1, Len(a)) = a
<1>1. \A i \in 1..Len(a) : (f \o q)[i] = f[i] /\ (a \o b)[i] = a[i]
  OBVIOUS
<1>2. SubSeq(f, 1, Len(a)) \in Seq(Byte) /\ Len(SubSeq(f, 1, Len(a))) = Len(a)
  OBVIOUS
<1>3. \A i \in 1..Len(a) : SubSeq(f, 1, Len(a))[i] = f[i]
  OBVIOUS
<1> QED
  BY <1>1, <1>2, <1>3, SeqEqual

SameAfter(u, q, a, b) ==
  u \o q = a \o b /\ Len(a) <= Len(u) => \E v \in Seq(Byte) : u = a \o v /\ v \o q = b

\* What of a concatenation lies after its first part.
LEMMA RestIs == \A u, q, a, b \in Seq(Byte) : SameAfter(u, q, a, b)
<1> SUFFICES ASSUME NEW u \in Seq(Byte), NEW q \in Seq(Byte),
                    NEW a \in Seq(Byte), NEW b \in Seq(Byte)
             PROVE  SameAfter(u, q, a, b)
  OBVIOUS
<1> SUFFICES ASSUME u \o q = a \o b, Len(a) <= Len(u)
             PROVE  \E v \in Seq(Byte) : u = a \o v /\ v \o q = b
  BY DEF SameAfter
<1> DEFINE v == SubSeq(u, Len(a) + 1, Len(u))
<1>1. v \in Seq(Byte) /\ Len(v) = Len(u) - Len(a) /\ Len(a) \in Nat /\ Len(u) \in Nat
  OBVIOUS
<1>2. \A i \in 1..Len(v) : v[i] = u[Len(a) + i]
  OBVIOUS
<1>3. \A i \in 1..Len(a) : u[i] = a[i]
  <2>1. \A i \in 1..Len(a) : (u \o q)[i] = u[i] /\ (a \o b)[i] = a[i]
    OBVIOUS
  <2> QED
    BY <2>1
<1>4. u = a \o v
  <2>1. a \o v \in Seq(Byte) /\ Len(a \o v) = Len(u)
    BY <1>1
  <2>2. ASSUME NEW i \in 1..Len(u)
        PROVE  (a \o v)[i] = u[i]
    <3>1. CASE i <= Len(a)
      <4> HIDE DEF v
      <4> QED
        BY <1>1, <1>3, <3>1
    <3>2. CASE i > Len(a)
      <4>1. i - Len(a) \in 1..Len(v) /\ Len(a) + (i - Len(a)) = i
        BY <1>1, <3>2
      <4>2. (a \o v)[i] = v[i - Len(a)]
        BY <1>1, <3>2
      <4> HIDE DEF v
      <4> QED
        BY <1>2, <4>1, <4>2
    <3> QED
      BY <1>1, <3>1, <3>2
  <2> HIDE DEF v
  <2> QED
    BY <2>1, <2>2, SeqEqual
<1>5. v \o q = b
  <2> HIDE DEF v
  <2>1. CancelsMiddle(a, v, q, b)
    BY <1>1, CancelMiddle
  <2> QED
    BY <1>4, <2>1 DEF CancelsMiddle
<1> QED
  BY <1>1, <1>4, <1>5

\* The types of a sequence of changes and of its bytes.
LEMMA WithIs ==
  ASSUME NEW st \in Seq(Changes), NEW c \in Changes \cup {NoChange}
  PROVE  /\ With(st, c) \in Seq(Changes)
         /\ Bytes(With(st, c)) \in Seq(Byte)
         /\ Slack(c) \in Nat
         /\ c \in Changes => /\ With(st, c) = Append(st, c) /\ Slack(c) = Len(Record(c))
                             /\ Bytes(With(st, c)) = Bytes(st) \o Record(c)
         /\ c = NoChange => With(st, c) = st /\ Slack(c) = 0
<1>1. CASE c \in Changes
  <2>1. c # NoChange
    BY <1>1, ChangeIs
  <2>2. With(st, c) = Append(st, c) /\ Slack(c) = Len(Record(c))
    BY <2>1 DEF With, Slack
  <2>3. Append(st, c) \in Seq(Changes)
    BY <1>1
  <2>4. Len(Record(c)) \in Nat
    BY <1>1, RecordIs
  <2> QED
    BY <1>1, <2>1, <2>2, <2>3, <2>4, BytesAre
<1>2. CASE c = NoChange
  <2>1. c \notin Changes
    BY <1>2, ChangeIs
  <2> QED
    BY <1>2, <2>1, BytesAre DEF With, Slack
<1> QED
  BY <1>1, <1>2

\* The bytes of two sequences of changes.
LEMMA BytesConcat ==
  \A a, b \in Seq(Changes) : Bytes(a \o b) = Bytes(a) \o Bytes(b)
<1>1. SUFFICES ASSUME NEW a \in Seq(Changes)
               PROVE  \A b \in Seq(Changes) : Bytes(a \o b) = Bytes(a) \o Bytes(b)
  OBVIOUS
<1> DEFINE U == {n \in Nat : \A b \in Seq(Changes) : Len(b) = n =>
                               Bytes(a \o b) = Bytes(a) \o Bytes(b)}
<1>2. 0 \in U
  <2>1. SUFFICES ASSUME NEW b \in Seq(Changes), Len(b) = 0
                 PROVE  Bytes(a \o b) = Bytes(a) \o Bytes(b)
    OBVIOUS
  <2>2. b = <<>> /\ a \o <<>> = a
    BY <2>1, ConcatEmptySeq
  <2>3. Bytes(a) \in Seq(Byte) /\ Bytes(<<>>) = <<>>
    BY BytesAre
  <2>4. Bytes(a) \o <<>> = Bytes(a)
    BY <2>3, ConcatEmptySeq
  <2> QED
    BY <2>2, <2>3, <2>4
<1>3. ASSUME NEW n \in Nat, n \in U
      PROVE  n + 1 \in U
  <2>1. SUFFICES ASSUME NEW b \in Seq(Changes), Len(b) = n + 1
                 PROVE  Bytes(a \o b) = Bytes(a) \o Bytes(b)
    OBVIOUS
  <2>2. b # <<>>
    BY <2>1
  <2>3. PICK d \in Seq(Changes), c \in Changes : b = Append(d, c)
    BY <2>2, SequenceEmptyOrAppend
  <2>4. Len(d) = n
    BY <2>1, <2>3
  <2>5. a \o b = Append(a \o d, c) /\ a \o d \in Seq(Changes)
    BY <2>3
  <2>6. Bytes(a \o d) = Bytes(a) \o Bytes(d)
    BY <1>3, <2>4
  <2>7. Bytes(a \o b) = (Bytes(a) \o Bytes(d)) \o Record(c)
    <3> HIDE DEF U
    <3> QED
      BY <2>5, <2>6, BytesAre
  <2>8. Bytes(b) = Bytes(d) \o Record(c)
    <3> HIDE DEF U
    <3> QED
      BY <2>3, BytesAre
  <2>9. PICK x \in Seq(Byte), y \in Seq(Byte), z \in Seq(Byte) :
          x = Bytes(a) /\ y = Bytes(d) /\ z = Record(c)
    BY BytesAre, RecordIs
  <2>10. Associates(x, y, z)
    BY Regroup
  <2> QED
    BY <2>7, <2>8, <2>9, <2>10 DEF Associates
<1>4. \A n \in Nat : n \in U
  <2> HIDE DEF U
  <2> QED
    BY <1>2, <1>3, Induction
<1>5. \A b \in Seq(Changes) : Len(b) \in Nat
  OBVIOUS
<1> QED
  BY <1>4, <1>5


\* What follows has the length of the rest of the file, but for what is missing.
LEMMA FollowsLength ==
  ASSUME NEW f \in Seq(Byte), NEW p, NEW todo, NEW st, NEW c, Follows(f, p, todo, st, c),
         Slack(c) \in Nat
  PROVE  /\ p \in 0..Len(f) /\ todo \in Seq(Byte)
         /\ Len(f) - p <= Len(todo) /\ Len(todo) <= (Len(f) - p) + Slack(c)
<1>1. PICK r \in Seq(Byte), u \in Seq(Byte), q \in Seq(Byte) :
        f = r \o u /\ Len(r) = p /\ u \o q = todo /\ Len(q) <= Slack(c)
  BY DEF Follows
<1>2. Len(r \o u) = Len(r) + Len(u)
  BY <1>1, ConcatProperties
<1>3. u \o q \in Seq(Byte) /\ Len(u \o q) = Len(u) + Len(q)
  BY <1>1, ConcatProperties
<1>4. Len(r) \in Nat /\ Len(u) \in Nat /\ Len(q) \in Nat
  BY <1>1
<1> QED
  BY <1>1, <1>2, <1>3, <1>4

\* A file that has something to follow is torn.
LEMMA FollowsTorn ==
  ASSUME NEW f, NEW p, NEW todo, NEW st, NEW c, Follows(f, p, todo, st, c)
  PROVE  Torn(f, st, c)
  BY DEF Follows, Torn

\* A file from which nothing is missing is one, too.
LEMMA WholeTorn ==
  ASSUME NEW f \in Seq(Byte), NEW st, f = Bytes(st)
  PROVE  Torn(f, st, NoChange)
<1>1. With(st, NoChange) = st /\ Slack(NoChange) = 0
  BY DEF With, Slack
<1>2. PICK q \in Seq(Byte) : q = <<>>
  BY EmptySeq
<1>3. f \o q = f
  BY <1>2, ConcatEmptySeq
<1>4. Len(q) <= 0
  BY <1>2
<1> QED
  BY <1>1, <1>3, <1>4 DEF Torn

\* At its beginning, a torn file has all of it to follow.
LEMMA TornFollows ==
  ASSUME NEW f \in Seq(Byte), NEW st, NEW c, Torn(f, st, c)
  PROVE  Follows(f, 0, Bytes(With(st, c)), st, c)
<1>1. <<>> \in Seq(Byte) /\ f = <<>> \o f /\ Len(<<>>) = 0
  BY ConcatEmptySeq
<1> QED
  BY <1>1 DEF Follows, Torn

\* If the file goes that far, the next part is there, and the rest follows it.
LEMMA FollowsStep ==
  ASSUME NEW f \in Seq(Byte), NEW p, NEW a \in Seq(Byte), NEW b \in Seq(Byte),
         NEW st, NEW c, Follows(f, p, a \o b, st, c), p + Len(a) <= Len(f)
  PROVE  /\ SubSeq(f, p + 1, p + Len(a)) = a
         /\ Follows(f, p + Len(a), b, st, c)
<1>1. PICK r \in Seq(Byte), u \in Seq(Byte), q \in Seq(Byte) :
        /\ f = r \o u /\ Len(r) = p /\ u \o q = a \o b
        /\ f \o q = Bytes(With(st, c)) /\ Len(q) <= Slack(c)
  BY DEF Follows
<1>2. Len(r \o u) = Len(r) + Len(u) /\ Len(r) \in Nat /\ Len(u) \in Nat /\ Len(a) \in Nat
  BY <1>1, ConcatProperties
<1>3. Len(a) <= Len(u)
  BY <1>1, <1>2
<1>4. PICK v \in Seq(Byte) : u = a \o v /\ v \o q = b
  <2>1. u \o q = a \o b
    BY <1>1
  <2>2. SameAfter(u, q, a, b)
    BY RestIs
  <2> QED
    BY <1>3, <2>1, <2>2 DEF SameAfter
<1>5. (r \o a) \o v = r \o (a \o v) /\ r \o a \in Seq(Byte)
  <2>1. Associates(r, a, v)
    BY Regroup
  <2> QED
    BY <2>1 DEF Associates
<1>6. f = (r \o a) \o v
  BY <1>1, <1>4, <1>5
<1>7. Len(r \o a) = p + Len(a)
  <2>1. Len(r \o a) = Len(r) + Len(a)
    BY ConcatProperties
  <2> QED
    BY <1>1, <2>1
<1>8. PICK x \in Seq(Byte) : x = r \o a
  BY <1>5
<1>9. Follows(f, p + Len(a), b, st, c)
  BY <1>1, <1>4, <1>6, <1>7, <1>8 DEF Follows
<1>10. SubSeq(f, p + 1, p + Len(a)) = a
  <2>1. \A i \in 1..Len(a) : (r \o a)[Len(r) + i] = a[i]
    OBVIOUS
  <2>2. \A i \in 1..Len(x) : (x \o v)[i] = x[i]
    OBVIOUS
  <2>3. Len(r) = p /\ Len(x) = p + Len(a)
    BY <1>1, <1>7, <1>8
  <2>4. \A i \in 1..Len(a) : p + i \in 1..Len(x)
    BY <1>2, <2>3
  <2>5. \A i \in 1..Len(a) : f[p + i] = a[i]
    BY <1>6, <1>8, <2>1, <2>2, <2>3, <2>4
  <2>6. /\ SubSeq(f, p + 1, p + Len(a)) \in Seq(Byte)
        /\ Len(SubSeq(f, p + 1, p + Len(a))) = Len(a)
        /\ \A i \in 1..Len(a) : SubSeq(f, p + 1, p + Len(a))[i] = f[p + i]
    <3>1. p \in Nat /\ Len(a) \in Nat
      BY <1>1, <1>2
    <3> QED
      BY <3>1
  <2> QED
    BY <2>5, <2>6, SeqEqual
<1> QED
  BY <1>9, <1>10

\* The same of one byte.
LEMMA FollowsByte ==
  ASSUME NEW f \in Seq(Byte), NEW p \in Nat, NEW x \in Byte, NEW b \in Seq(Byte),
         NEW st, NEW c, Follows(f, p, <<x>> \o b, st, c), p < Len(f)
  PROVE  f[p + 1] = x /\ Follows(f, p + 1, b, st, c)
<1>1. PICK a \in Seq(Byte) : a = <<x>> /\ Len(a) = 1 /\ a[1] = x
  BY OneByte
<1>2. Follows(f, p, a \o b, st, c) /\ p + Len(a) <= Len(f)
  BY <1>1
<1>3. SubSeq(f, p + 1, p + Len(a)) = a /\ Follows(f, p + Len(a), b, st, c)
  BY <1>2, FollowsStep
<1>4. SubSeq(f, p + 1, p + 1)[1] = f[p + 1]
  <2>1. p + 1 \in 1..Len(f)
    OBVIOUS
  <2>2. \A n \in 1..Len(f) : SubSeq(f, n, n)[1] = f[n]
    OBVIOUS
  <2> QED
    BY <2>1, <2>2
<1> QED
  BY <1>1, <1>3, <1>4

LastOf(rp, c, d, e) ==
  \E g \in Seq(Changes) : rp \o (<<c>> \o Append(d, e)) = Append(g, e)

\* The last change of the others is the last of all.
LEMMA LastInside ==
  \A rp, d \in Seq(Changes), c, e \in Changes : LastOf(rp, c, d, e)
<1>1. SUFFICES ASSUME NEW rp \in Seq(Changes), NEW d \in Seq(Changes),
                      NEW c \in Changes, NEW e \in Changes
               PROVE  LastOf(rp, c, d, e)
  OBVIOUS
<1>2. rp \o (<<c>> \o Append(d, e)) = Append(rp \o (<<c>> \o d), e)
  OBVIOUS
<1>3. rp \o (<<c>> \o d) \in Seq(Changes)
  OBVIOUS
<1> QED
  BY <1>2, <1>3 DEF LastOf

\* What is missing is less than the record of the last change, so a change of which
\* something is missing is that one.
LEMMA LastIs ==
  ASSUME NEW st \in Seq(Changes), NEW lo \in Changes \cup {NoChange},
         NEW rp \in Seq(Changes), NEW c \in Changes, NEW ahead \in Seq(Changes),
         With(st, lo) = rp \o (<<c>> \o ahead), Len(Bytes(ahead)) < Slack(lo)
  PROVE  ahead = <<>> /\ lo = c /\ st = rp
<1>1. Len(Bytes(ahead)) \in Nat
  BY BytesAre
<1>2. lo \in Changes /\ With(st, lo) = Append(st, lo) /\ Slack(lo) = Len(Record(lo))
  <2>1. Slack(lo) # 0
    BY <1>1
  <2>2. lo \in Changes
    BY <2>1 DEF Slack
  <2> QED
    BY <2>2, WithIs
<1>3. CASE ahead = <<>>
  <2>1. rp \o (<<c>> \o <<>>) = Append(rp, c)
    OBVIOUS
  <2>2. Append(st, lo) = Append(rp, c)
    BY <1>2, <1>3, <2>1
  <2> QED
    BY <1>2, <1>3, <2>2, AppendInjective
<1>4. CASE ahead # <<>>
  <2>1. PICK d \in Seq(Changes), e \in Changes : ahead = Append(d, e)
    BY <1>4, SequenceEmptyOrAppend
  <2>2. LastOf(rp, c, d, e)
    BY LastInside
  <2>3. PICK g \in Seq(Changes) : rp \o (<<c>> \o Append(d, e)) = Append(g, e)
    BY <2>2 DEF LastOf
  <2>4. Append(st, lo) = Append(g, e)
    BY <1>2, <2>1, <2>3
  <2>5. lo = e
    BY <1>2, <2>4, AppendInjective
  <2>6. Bytes(ahead) = Bytes(d) \o Record(e) /\ Bytes(d) \in Seq(Byte)
    BY <2>1, BytesAre
  <2>7. Record(e) \in Seq(Byte)
    BY <2>1, RecordIs
  <2>8. Len(Bytes(d) \o Record(e)) = Len(Bytes(d)) + Len(Record(e)) /\ Len(Bytes(d)) \in Nat
    BY <2>6, <2>7, ConcatProperties
  <2>9. Len(Record(e)) \in Nat
    BY <2>7
  <2> QED
    BY <1>2, <2>5, <2>6, <2>8, <2>9
<1> QED
  BY <1>3, <1>4

\* The bytes up to the next record are those of the changes replayed.
LEMMA ReplayedIs ==
  ASSUME NEW f \in Seq(Byte), NEW p, NEW st \in Seq(Changes),
         NEW lo \in Changes \cup {NoChange},
         NEW rp \in Seq(Changes), NEW ahead \in Seq(Changes),
         With(st, lo) = rp \o ahead, Follows(f, p, Bytes(ahead), st, lo)
  PROVE  SubSeq(f, 1, p) = Bytes(rp)
<1>1. PICK r \in Seq(Byte), u \in Seq(Byte), q \in Seq(Byte) :
        /\ f = r \o u /\ Len(r) = p /\ u \o q = Bytes(ahead)
        /\ f \o q = Bytes(With(st, lo))
  BY DEF Follows
<1>2. PICK x \in Seq(Byte), y \in Seq(Byte) : x = Bytes(rp) /\ y = Bytes(ahead)
  BY BytesAre
<1>3. (r \o u) \o q = r \o (u \o q)
  <2>1. Associates(r, u, q)
    BY Regroup
  <2> QED
    BY <2>1 DEF Associates
<1>4. Bytes(rp \o ahead) = x \o y
  BY <1>2, BytesConcat
<1>5. r \o y = x \o y
  BY <1>1, <1>2, <1>3, <1>4
<1>6. r = x
  BY <1>1, <1>2, <1>5, Cancel
<1>7. SubSeq(r \o u, 1, Len(r)) = r
  <2>1. Len(r) <= Len(r \o u) /\ r \o u \in Seq(Byte)
    BY <1>1, ConcatProperties
  <2>2. PICK w \in Seq(Byte) : w = r \o u
    BY <2>1
  <2>3. w \o <<>> = r \o u /\ <<>> \in Seq(Byte)
    BY <2>2, ConcatEmptySeq
  <2>4. SubSeq(w, 1, Len(r)) = r
    BY <1>1, <2>1, <2>2, <2>3, PrefixIs
  <2> QED
    BY <2>2, <2>4
<1> QED
  BY <1>1, <1>2, <1>6, <1>7

\* The first of a sequence of changes and the others.
LEMMA FirstOf ==
  ASSUME NEW cs \in Seq(Changes), cs # <<>>
  PROVE  \E c \in Changes, ahead \in Seq(Changes) :
           cs = <<c>> \o ahead
           /\ Bytes(cs) = <<c[1]>> \o (StringsFrom(c, 2) \o Bytes(ahead))
<1>1. PICK c \in Changes, ahead \in Seq(Changes) : c = Head(cs) /\ ahead = Tail(cs)
  BY HeadTailProperties
<1>2. cs = <<c>> \o ahead
  BY <1>1
<1>3. Bytes(<<c>> \o ahead) = Record(c) \o Bytes(ahead)
  BY <1>1, BytesAre
<1>4. Record(c) = <<c[1]>> \o StringsFrom(c, 2) /\ c[1] \in Byte
  BY <1>1, RecordIs
<1>5. StringsFrom(c, 2) \in Seq(Byte)
  BY SecondIs, StringsFromIs
<1>6. PICK x \in Seq(Byte), y \in Seq(Byte), z \in Seq(Byte) :
        x = <<c[1]>> /\ y = StringsFrom(c, 2) /\ z = Bytes(ahead)
  <2>1. <<c[1]>> \in Seq(Byte) /\ Bytes(ahead) \in Seq(Byte)
    BY <1>4, OneByte, BytesAre
  <2> QED
    BY <1>5, <2>1
<1>7. (x \o y) \o z = x \o (y \o z)
  <2>1. Associates(x, y, z)
    BY Regroup
  <2> QED
    BY <2>1 DEF Associates
<1> QED
  BY <1>1, <1>2, <1>3, <1>4, <1>6, <1>7

-----------------------------------------------------------------------------
(* The inductive invariant.                                                *)

\* The strings of c in front of the one at i, and what comes after its length.
Before(c, i) == [j \in 1..(i - 2) |-> c[j + 1]]
Rest(c, i, ahead) == c[i] \o (StringsFrom(c, i + 1) \o Bytes(ahead))

\* The next record begins here; the changes of ahead have not been read.
AtType ==
  /\ part = NoPart
  /\ \E ahead \in Seq(Changes) :
       /\ With(stored, lost) = replayed \o ahead
       /\ Follows(file, pos, Bytes(ahead), stored, lost)

\* The record of c is read, whose string at i is due.
Reading(c, i, ahead, at, len, shifts) ==
  /\ part = [at |-> at, type |-> c[1], strs |-> Before(c, i), len |-> len, shifts |-> shifts]
  /\ With(stored, lost) = replayed \o (<<c>> \o ahead)
  /\ SubSeq(file, 1, curPos) = Bytes(replayed)

AtLength ==
  \E c \in Changes : \E i \in 2..Len(c), ahead \in Seq(Changes), len, shifts, x \in Nat :
    /\ Reading(c, i, ahead, "length", len, shifts)
    /\ Gathered(Len(c[i]), len, shifts, x)
    /\ Follows(file, pos, Varint[x] \o Rest(c, i, ahead), stored, lost)

AtChars ==
  \E c \in Changes : \E i \in 2..Len(c), ahead \in Seq(Changes), shifts \in Nat :
    \E len \in LengthOf(Len(c[i])) :
      /\ Reading(c, i, ahead, "chars", len, shifts)
      /\ Follows(file, pos, Rest(c, i, ahead), stored, lost)

\* The three exclude one another.
LEMMA AtIs ==
  /\ AtType => part.at = "type"
  /\ AtLength => part.at = "length"
  /\ AtChars => part.at = "chars"
<1>1. ASSUME NEW at, NEW c, NEW i, NEW ahead, NEW len, NEW shifts,
             Reading(c, i, ahead, at, len, shifts)
      PROVE  part.at = at
  BY <1>1 DEF Reading
<1>2. AtType => part.at = "type"
  BY DEF AtType, NoPart
<1>3. ASSUME AtLength
      PROVE  part.at = "length"
  <2>1. PICK c, i, ahead, len, shifts : Reading(c, i, ahead, "length", len, shifts)
    BY <1>3 DEF AtLength
  <2> QED
    BY <1>1, <2>1
<1>4. ASSUME AtChars
      PROVE  part.at = "chars"
  <2>1. PICK c, i, ahead, len, shifts : Reading(c, i, ahead, "chars", len, shifts)
    BY <1>4 DEF AtChars
  <2> QED
    BY <1>1, <2>1
<1> QED
  BY <1>2, <1>3, <1>4

MayChange == Changes \cup {NoChange}

Types ==
  /\ file \in Seq(Byte)
  /\ phase \in {"down", "loading", "serving", "writing"}
  /\ curPos \in 0..Len(file)
  /\ replayed \in Seq(Changes) /\ stored \in Seq(Changes)
  /\ change \in MayChange /\ lost \in MayChange

OnDisk ==
  /\ disk.file \in Seq(Byte) /\ disk.stored \in Seq(Changes) /\ disk.lost \in MayChange
  /\ Torn(disk.file, disk.stored, disk.lost)

Resting ==
  /\ phase # "loading" => part = NoPart /\ pos = 0
  /\ phase # "writing" => change = NoChange /\ left = <<>>

Down == phase = "down" => replayed = <<>> /\ Torn(file, stored, lost)

Loading == phase = "loading" => AtType \/ AtLength \/ AtChars

Serving == phase = "serving" => lost = NoChange /\ file = Bytes(stored)

Writing ==
  phase = "writing" =>
    /\ lost = NoChange /\ change \in Changes /\ left \in Seq(Byte)
    /\ curPos = Len(Bytes(stored))
    /\ file \o left = Bytes(stored) \o Record(change)

IInv == Types /\ OnDisk /\ Resting /\ Down /\ Loading /\ Serving /\ Writing

\* At any moment the file holds the stored changes, and of the one in doubt a part.
LEMMA FileIsTorn ==
  ASSUME IInv
  PROVE  Doubtful \in MayChange /\ Torn(file, stored, Doubtful)
<1>1. Doubtful \in MayChange
  BY DEF IInv, Types, Doubtful
<1>2. CASE phase = "down"
  <2>1. Doubtful = lost
    BY <1>2 DEF IInv, Resting, Doubtful
  <2> QED
    BY <1>1, <1>2, <2>1 DEF IInv, Down
<1>3. CASE phase = "loading"
  <2>1. Doubtful = lost
    BY <1>3 DEF IInv, Resting, Doubtful
  <2>2. \E todo : Follows(file, pos, todo, stored, lost)
    BY <1>3 DEF IInv, Loading, AtType, AtLength, AtChars
  <2> QED
    BY <1>1, <2>1, <2>2, FollowsTorn
<1>4. CASE phase = "serving"
  <2>1. /\ Doubtful = NoChange /\ file = Bytes(stored) /\ file \in Seq(Byte)
        /\ stored \in Seq(Changes)
    BY <1>4 DEF IInv, Types, Resting, Serving, Doubtful
  <2>2. Torn(file, stored, NoChange)
    BY <2>1, WholeTorn
  <2> QED
    BY <1>1, <2>1, <2>2
<1>5. CASE phase = "writing"
  <2>1. /\ change \in Changes /\ left \in Seq(Byte) /\ stored \in Seq(Changes)
        /\ file \in Seq(Byte) /\ Len(Bytes(stored)) <= Len(file)
        /\ file \o left = Bytes(stored) \o Record(change)
    <3>1. /\ change \in Changes /\ left \in Seq(Byte) /\ curPos = Len(Bytes(stored))
          /\ file \o left = Bytes(stored) \o Record(change)
      BY <1>5 DEF IInv, Writing
    <3>2. stored \in Seq(Changes) /\ file \in Seq(Byte) /\ curPos <= Len(file)
      BY DEF IInv, Types
    <3> QED
      BY <3>1, <3>2
  <2>2. Doubtful = change
    BY <2>1, ChangeIs DEF Doubtful
  <2>3. /\ Slack(change) = Len(Record(change))
        /\ Bytes(With(stored, change)) = Bytes(stored) \o Record(change)
    BY <2>1, WithIs
  <2>4. PICK a \in Seq(Byte), b \in Seq(Byte) : a = Bytes(stored) /\ b = Record(change)
    BY <2>1, BytesAre, RecordIs
  <2>5. Len(file \o left) = Len(file) + Len(left) /\ Len(a \o b) = Len(a) + Len(b)
    BY <2>1, ConcatProperties
  <2>6. Len(left) <= Len(b)
    <3>1. Len(file) + Len(left) = Len(a) + Len(b) /\ Len(a) <= Len(file)
      BY <2>1, <2>4, <2>5
    <3>2. Len(file) \in Nat /\ Len(left) \in Nat /\ Len(a) \in Nat /\ Len(b) \in Nat
      BY <2>1
    <3> QED
      BY <3>1, <3>2
  <2>7. Torn(file, stored, change)
    BY <2>1, <2>3, <2>4, <2>6 DEF Torn
  <2> QED
    BY <1>1, <2>2, <2>7
<1> QED
  BY <1>2, <1>3, <1>4, <1>5 DEF IInv, Types

-----------------------------------------------------------------------------
(* A step keeps it.                                                        *)

LEMMA InitIInv == Init => IInv
<1> SUFFICES ASSUME Init
             PROVE  IInv
  OBVIOUS
<1>1. <<>> \in Seq(Byte) /\ <<>> \in Seq(Changes) /\ NoChange \in MayChange /\ Len(<<>>) = 0
  BY DEF MayChange
<1>2. Torn(<<>>, <<>>, NoChange)
  <2>1. Bytes(<<>>) = <<>>
    BY BytesAre
  <2> QED
    BY <1>1, <2>1, WholeTorn
<1>3. 0 \in 0..Len(<<>>)
  BY <1>1
<1> QED
  BY <1>1, <1>2, <1>3
  DEF Init, IInv, Types, OnDisk, Resting, Down, Loading, Serving, Writing

\* Start
LEMMA StartStep ==
  ASSUME IInv, Start, UNCHANGED disk, "open" \notin Faults
  PROVE  IInv'
<1>1. /\ phase = "down" /\ phase' = "loading"
      /\ UNCHANGED <<file, pos, curPos, part, replayed, change, left, stored, lost>>
  BY DEF Start
<1>2. part = NoPart /\ pos = 0 /\ replayed = <<>> /\ Torn(file, stored, lost)
  BY <1>1 DEF IInv, Resting, Down
<1>3. AtType
  <2>1. stored \in Seq(Changes) /\ lost \in Changes \cup {NoChange} /\ file \in Seq(Byte)
    BY DEF IInv, Types, MayChange
  <2>2. PICK ahead \in Seq(Changes) : ahead = With(stored, lost)
    BY <2>1, WithIs
  <2>3. ahead = <<>> \o ahead
    BY ConcatEmptySeq
  <2>4. Follows(file, 0, Bytes(ahead), stored, lost)
    BY <1>2, <2>1, <2>2, TornFollows
  <2> QED
    BY <1>2, <2>2, <2>3, <2>4 DEF AtType
<1>4. AtType'
  BY <1>1, <1>3 DEF AtType
<1> QED
  BY <1>1, <1>4 DEF IInv, Types, OnDisk, Resting, Down, Loading, Serving, Writing

\* The strings of a change, and its type in front of them.
LEMMA BeforeIs ==
  ASSUME NEW c \in Changes
  PROVE  /\ Before(c, 2) = <<>>
         /\ <<c[1]>> \o Before(c, Len(c) + 1) = c
         /\ \A i \in 2..(Len(c) + 1) : Len(Before(c, i)) = i - 2
         /\ \A i \in 2..Len(c) : Append(Before(c, i), c[i]) = Before(c, i + 1)
<1>1. Len(c) \in 1..3 /\ c = [i \in 1..Len(c) |-> c[i]]
  BY ChangeIs
<1>2. Before(c, 2) = <<>>
  BY DEF Before
<1>3. \A i \in 2..(Len(c) + 1) : Len(Before(c, i)) = i - 2
  BY <1>1 DEF Before
<1>4. ASSUME NEW i \in 2..Len(c)
      PROVE  Append(Before(c, i), c[i]) = Before(c, i + 1)
  <2>1. (i + 1) - 2 = i - 1 /\ (i - 2) + 1 = i - 1 /\ i - 2 \in Nat /\ (i - 1) + 1 = i
    BY <1>1
  <2> QED
    BY <1>1, <2>1 DEF Before
<1>5. <<c[1]>> \o Before(c, Len(c) + 1) = c
  <2>1. PICK n \in 1..3 : n = Len(c)
    BY <1>1
  <2>2. (n + 1) - 2 = n - 1 /\ n - 1 \in Nat
    BY <2>1
  <2>3. PICK d : d = [i \in 1..n |-> c[i]]
    OBVIOUS
  <2>4. <<d[1]>> \o [j \in 1..(n - 1) |-> d[j + 1]] = d
    BY <2>2, <2>3
  <2> QED
    BY <1>1, <2>1, <2>2, <2>3, <2>4 DEF Before
<1> QED
  BY <1>2, <1>3, <1>4, <1>5

\* Loaded goes on to the next string, or to the next record.
LEMMA LoadedStep ==
  ASSUME replayed \in Seq(Changes), UNCHANGED <<file, stored, lost>>,
         NEW c \in Changes, NEW i \in 2..(Len(c) + 1), NEW ahead \in Seq(Changes),
         Loaded(c[1], Before(c, i)),
         With(stored, lost) = replayed \o (<<c>> \o ahead),
         SubSeq(file, 1, curPos') = Bytes(replayed),
         Follows(file, pos', StringsFrom(c, i) \o Bytes(ahead), stored, lost)
  PROVE  replayed' \in Seq(Changes) /\ (AtType' \/ AtLength')
<1>1. /\ Len(c) \in 1..3 /\ Len(Before(c, i)) = i - 2 /\ StringsOf[c[1]] = Len(c) - 1
      /\ \A j \in 2..Len(c) : c[j] \in Strings
  <2>1. /\ Len(c) \in 1..3 /\ StringsOf[c[1]] = Len(c) - 1
        /\ \A j \in 2..Len(c) : c[j] \in Strings
    BY LengthIs
  <2>2. Len(Before(c, i)) = i - 2
    BY BeforeIs
  <2> QED
    BY <2>1, <2>2
<1>2. Bytes(ahead) \in Seq(Byte)
  BY BytesAre
<1>3. CASE i = Len(c) + 1
  <2>1. part' = NoPart /\ replayed' = Append(replayed, <<c[1]>> \o Before(c, i))
    BY <1>1, <1>3 DEF Loaded
  <2>2. <<c[1]>> \o Before(c, i) = c
    BY <1>3, BeforeIs
  <2>3. replayed' = Append(replayed, c) /\ replayed' \in Seq(Changes)
    <3>1. replayed' = Append(replayed, c)
      BY <2>1, <2>2
    <3>2. Append(replayed, c) \in Seq(Changes)
      BY AppendProperties
    <3> QED
      BY <3>1, <3>2
  <2>4. replayed \o (<<c>> \o ahead) = Append(replayed, c) \o ahead
    OBVIOUS
  <2>5. StringsFrom(c, i) \o Bytes(ahead) = Bytes(ahead)
    <3>1. StringsFrom(c, i) = <<>>
      BY <1>3, StringsFromIs
    <3> QED
      BY <1>2, <3>1, ConcatEmptySeq
  <2>6. AtType'
    BY <2>1, <2>3, <2>4, <2>5 DEF AtType
  <2> QED
    BY <2>3, <2>6
<1>4. CASE i # Len(c) + 1
  <2>1. i \in 2..Len(c)
    BY <1>1, <1>4
  <2>2. /\ part' = [NoPart EXCEPT !.at = "length", !.type = c[1], !.strs = Before(c, i)]
        /\ replayed' = replayed
    BY <1>1, <1>4 DEF Loaded
  <2>3. part' = [at |-> "length", type |-> c[1], strs |-> Before(c, i), len |-> 0, shifts |-> 0]
    BY <2>2 DEF NoPart
  <2>4. Reading(c, i, ahead, "length", 0, 0)'
    BY <2>2, <2>3 DEF Reading
  <2>5. PICK s \in Strings : s = c[i]
    BY <1>1, <2>1
  <2>6. Gathered(Len(s), 0, 0, Len(s))
    <3>1. Len(s) \in Nat
      BY DumpIs
    <3>2. 2 ^ 0 = 1 /\ 0 < IntBits
      BY WidthsAssumption
    <3> QED
      BY <3>1, <3>2 DEF Gathered
  <2>7. StringsFrom(c, i) \o Bytes(ahead) = Varint[Len(s)] \o Rest(c, i, ahead)
    <3>1. i \in 2..(Len(c) + 1) /\ i + 1 \in 2..(Len(c) + 1) /\ i <= Len(c)
      BY <1>1, <2>1
    <3>2. StringsFrom(c, i) = Varint[Len(s)] \o (s \o StringsFrom(c, i + 1))
      BY <2>5, <3>1, StringsFromIs
    <3>3. PICK v \in Seq(Byte), t \in Seq(Byte), b \in Seq(Byte), w \in Seq(Byte) :
            /\ v = Varint[Len(s)] /\ t = StringsFrom(c, i + 1) /\ b = Bytes(ahead)
            /\ w = s
      BY <1>2, <3>1, StringsFromIs, DumpIs
    <3>4. Associates(v, w \o t, b) /\ Associates(w, t, b)
      <4>1. Associates(w, t, b)
        BY Regroup
      <4>2. PICK y \in Seq(Byte) : y = w \o t
        BY <4>1 DEF Associates
      <4>3. Associates(v, y, b)
        BY Regroup
      <4> QED
        BY <4>1, <4>2, <4>3
    <3> QED
      BY <2>5, <3>2, <3>3, <3>4 DEF Associates, Rest
  <2>8. Follows(file, pos', Varint[Len(s)] \o Rest(c, i, ahead), stored, lost)
    BY <2>7
  <2>9. /\ Gathered(Len(c[i]), 0, 0, Len(s))
        /\ Follows(file', pos', Varint[Len(s)] \o Rest(c, i, ahead), stored', lost')
    BY <2>5, <2>6, <2>8
  <2>10. Len(s) \in Nat /\ 0 \in Nat
    BY DumpIs
  <2>11. AtLength'
    BY <2>1, <2>4, <2>9, <2>10 DEF AtLength
  <2> QED
    BY <2>2, <2>11
<1> QED
  BY <1>3, <1>4

\* The byte in front of the other records is the type of the first.
LEMMA NextIs ==
  ASSUME NEW f \in Seq(Byte), NEW p \in Nat, NEW all \in Seq(Changes), all # <<>>,
         NEW st, NEW lo, Follows(f, p, Bytes(all), st, lo), p < Len(f)
  PROVE  \E c \in Changes, ahead \in Seq(Changes) :
           /\ all = <<c>> \o ahead /\ f[p + 1] = c[1]
           /\ Follows(f, p + 1, StringsFrom(c, 2) \o Bytes(ahead), st, lo)
<1>1. PICK c \in Changes, ahead \in Seq(Changes) :
        /\ all = <<c>> \o ahead
        /\ Bytes(all) = <<c[1]>> \o (StringsFrom(c, 2) \o Bytes(ahead))
  BY FirstOf
<1>2. PICK x \in Byte, b \in Seq(Byte) :
        x = c[1] /\ b = StringsFrom(c, 2) \o Bytes(ahead)
  <2>1. PICK d \in Seq(Byte), e \in Seq(Byte) : d = StringsFrom(c, 2) /\ e = Bytes(ahead)
    BY SecondIs, StringsFromIs, BytesAre
  <2>2. d \o e \in Seq(Byte)
    BY ConcatProperties
  <2> QED
    BY <2>1, <2>2, RecordIs
<1>3. Follows(f, p, <<x>> \o b, st, lo)
  BY <1>1, <1>2
<1>4. f[p + 1] = x /\ Follows(f, p + 1, b, st, lo)
  BY <1>3, FollowsByte
<1> QED
  BY <1>1, <1>2, <1>4

\* So it is one that LoadChange knows.
LEMMA NextIsType ==
  ASSUME NEW f \in Seq(Byte), NEW p \in Nat, NEW all \in Seq(Changes), all # <<>>,
         NEW st, NEW lo, Follows(f, p, Bytes(all), st, lo), p < Len(f)
  PROVE  f[p + 1] \in DOMAIN StringsOf
<1>1. PICK c \in Changes : f[p + 1] = c[1]
  BY NextIs
<1> QED
  BY <1>1, ChangeIs

\* LoadChange: the type of the record
LEMMA LoadTypeStep ==
  ASSUME IInv, LoadType, UNCHANGED disk
  PROVE  IInv'
<1>1. /\ phase = "loading" /\ phase' = "loading" /\ part.at = "type"
      /\ pos < Len(file) /\ Loaded(file[pos + 1], <<>>)
      /\ pos' = pos + 1 /\ curPos' = pos
      /\ UNCHANGED <<file, change, left, stored, lost>>
  BY DEF LoadType, NextByte
<1>2. /\ file \in Seq(Byte) /\ replayed \in Seq(Changes) /\ stored \in Seq(Changes)
      /\ lost \in Changes \cup {NoChange} /\ change \in MayChange
  BY DEF IInv, Types, MayChange
<1>3. AtType
  <2>1. AtType \/ AtLength \/ AtChars
    BY <1>1 DEF IInv, Loading
  <2> QED
    BY <1>1, <2>1, AtIs
<1>4. PICK all \in Seq(Changes) :
        /\ With(stored, lost) = replayed \o all
        /\ Follows(file, pos, Bytes(all), stored, lost)
  BY <1>3 DEF AtType
<1>5. Slack(lost) \in Nat
  BY <1>2, WithIs
<1>6. pos \in 0..Len(file) /\ Len(file) - pos <= Len(Bytes(all))
  BY <1>2, <1>4, <1>5, FollowsLength
<1>7. all # <<>>
  <2>1. Len(Bytes(<<>>)) = 0
    BY BytesAre
  <2> QED
    BY <1>1, <1>2, <1>6, <2>1
<1>8. PICK c \in Changes, ahead \in Seq(Changes) :
        /\ all = <<c>> \o ahead /\ file[pos + 1] = c[1]
        /\ Follows(file, pos + 1, StringsFrom(c, 2) \o Bytes(ahead), stored, lost)
  <2>1. pos \in Nat
    BY <1>2, <1>6
  <2> QED
    BY <1>1, <1>2, <1>4, <1>7, <2>1, NextIs, ZenonT(30)
<1>9. SubSeq(file, 1, pos) = Bytes(replayed)
  BY <1>2, <1>4, ReplayedIs
<1>10. replayed' \in Seq(Changes) /\ (AtType' \/ AtLength')
  <2>1. <<>> = Before(c, 2)
    BY BeforeIs
  <2>2. Loaded(c[1], Before(c, 2))
    BY <1>1, <1>8, <2>1
  <2>3. Follows(file, pos', StringsFrom(c, 2) \o Bytes(ahead), stored, lost)
    BY <1>1, <1>8
  <2>4. With(stored, lost) = replayed \o (<<c>> \o ahead)
    BY <1>4, <1>8
  <2>5. SubSeq(file, 1, curPos') = Bytes(replayed) /\ UNCHANGED <<file, stored, lost>>
    BY <1>1, <1>9
  <2>6. 2 \in 2..(Len(c) + 1)
    BY SecondIs
  <2> QED
    BY <1>2, <2>2, <2>3, <2>4, <2>5, <2>6, LoadedStep
<1>11. curPos' \in 0..Len(file')
  BY <1>1, <1>6
<1> QED
  BY <1>1, <1>10, <1>11
  DEF IInv, Types, OnDisk, Resting, Down, Loading, Serving, Writing

\* What comes after the length of a string: the string and the rest.
LEMMA RestOf ==
  ASSUME NEW c \in Changes, NEW i \in 2..Len(c), NEW ahead \in Seq(Changes)
  PROVE  \E s \in Strings, t \in Seq(Byte) :
           /\ s = c[i] /\ t = StringsFrom(c, i + 1) \o Bytes(ahead)
           /\ Rest(c, i, ahead) = s \o t
           /\ Rest(c, i, ahead) \in Seq(Byte)
           /\ Len(Rest(c, i, ahead)) = Len(s) + Len(t)
           /\ Len(Bytes(ahead)) <= Len(t)
<1>1. PICK s \in Strings : s = c[i]
  BY LengthIs
<1>2. i + 1 \in 2..(Len(c) + 1)
  BY LengthIs
<1>3. PICK u \in Seq(Byte), b \in Seq(Byte) : u = StringsFrom(c, i + 1) /\ b = Bytes(ahead)
  BY <1>2, StringsFromIs, BytesAre
<1>4. u \o b \in Seq(Byte) /\ Len(u \o b) = Len(u) + Len(b)
  BY ConcatProperties
<1>5. PICK t \in Seq(Byte) : t = u \o b
  BY <1>4
<1>6. s \in Seq(Byte)
  BY DumpIs
<1>7. s \o t \in Seq(Byte) /\ Len(s \o t) = Len(s) + Len(t)
  BY <1>6, ConcatProperties
<1>8. Len(b) <= Len(t)
  <2>1. Len(u) \in Nat /\ Len(b) \in Nat
    OBVIOUS
  <2> QED
    BY <1>4, <1>5, <2>1
<1>9. Rest(c, i, ahead) = s \o t
  BY <1>1, <1>3, <1>5 DEF Rest
<1> QED
  BY <1>1, <1>3, <1>5, <1>7, <1>8, <1>9

\* LoadString: a byte of the length
LEMMA LoadLengthStep ==
  ASSUME IInv, LoadLength, UNCHANGED disk
  PROVE  IInv'
<1>1. /\ phase = "loading" /\ phase' = "loading" /\ part.at = "length"
      /\ pos < Len(file) /\ pos' = pos + 1
      /\ part' = [part EXCEPT !.len = WithGroup(@, file[pos + 1], part.shifts),
                              !.shifts = @ + GroupBits,
                              !.at = IF file[pos + 1] < Group THEN "chars" ELSE @]
      /\ UNCHANGED <<file, curPos, replayed, change, left, stored, lost>>
  BY DEF LoadLength, NextByte
<1>2. file \in Seq(Byte) /\ stored \in Seq(Changes) /\ lost \in Changes \cup {NoChange}
  BY DEF IInv, Types, MayChange
<1>3. AtLength
  <2>1. AtType \/ AtLength \/ AtChars
    BY <1>1 DEF IInv, Loading
  <2> QED
    BY <1>1, <2>1, AtIs
<1>4. PICK c \in Changes : \E i \in 2..Len(c), ahead \in Seq(Changes), len, shifts, x \in Nat :
        /\ Reading(c, i, ahead, "length", len, shifts)
        /\ Gathered(Len(c[i]), len, shifts, x)
        /\ Follows(file, pos, Varint[x] \o Rest(c, i, ahead), stored, lost)
  BY <1>3 DEF AtLength
<1>5. PICK i \in 2..Len(c), ahead \in Seq(Changes), len \in Nat, shifts \in Nat, x \in Nat :
        /\ Reading(c, i, ahead, "length", len, shifts)
        /\ Gathered(Len(c[i]), len, shifts, x)
        /\ Follows(file, pos, Varint[x] \o Rest(c, i, ahead), stored, lost)
  BY <1>4
<1>6. PICK n \in Nat : n = Len(c[i]) /\ n < 2 ^ IntBits
  <2>1. PICK s \in Strings : s = c[i]
    BY LengthIs
  <2> QED
    BY <2>1, DumpIs
<1>7. PICK r \in Seq(Byte) : r = Rest(c, i, ahead)
  BY RestOf
<1>8. pos \in Nat
  <2>1. Slack(lost) \in Nat
    BY <1>2, WithIs
  <2>2. pos \in 0..Len(file)
    BY <1>2, <1>5, <2>1, FollowsLength
  <2> QED
    BY <2>2
<1>9. \A at, ln, sh :
        part' = [at |-> at, type |-> c[1], strs |-> Before(c, i), len |-> ln, shifts |-> sh]
          => Reading(c, i, ahead, at, ln, sh)'
  BY <1>1, <1>5 DEF Reading
<1>10. part = [at |-> "length", type |-> c[1], strs |-> Before(c, i),
              len |-> len, shifts |-> shifts]
  BY <1>5 DEF Reading
<1>11. ASSUME x < Group
       PROVE  AtChars'
  <2>1. Varint[x] = <<x>> /\ WithGroup(len, x, shifts) \in LengthOf(n)
    BY <1>5, <1>6, <1>11, LastGroup
  <2>2. x \in Byte
    BY <1>11, Sizes DEF Byte
  <2>3. Follows(file, pos, <<x>> \o r, stored, lost)
    BY <1>5, <1>7, <2>1
  <2>4. file[pos + 1] = x /\ Follows(file, pos + 1, r, stored, lost)
    BY <1>1, <1>2, <1>8, <2>2, <2>3, FollowsByte
  <2>5. PICK ln \in LengthOf(n) : ln = WithGroup(len, x, shifts)
    BY <2>1
  <2>6. PICK sh \in Nat : sh = shifts + GroupBits
    BY WidthsAssumption
  <2>7. part' = [at |-> "chars", type |-> c[1], strs |-> Before(c, i),
                 len |-> ln, shifts |-> sh]
    BY <1>1, <1>10, <1>11, <2>4, <2>5, <2>6
  <2>8. Reading(c, i, ahead, "chars", ln, sh)'
    BY <1>9, <2>7
  <2>9. Follows(file', pos', Rest(c, i, ahead), stored', lost')
    BY <1>1, <1>7, <2>4
  <2> QED
    BY <1>6, <2>8, <2>9 DEF AtChars
<1>12. ASSUME ~(x < Group)
       PROVE  AtLength'
  <2>1. PICK b \in Byte, y \in Nat :
          /\ Varint[x] = <<b>> \o Varint[y] /\ ~(b < Group)
          /\ Gathered(n, WithGroup(len, b, shifts), shifts + GroupBits, y)
    BY <1>5, <1>6, <1>12, MarkedGroup
  <2>2. PICK v \in Seq(Byte) : v = Varint[y]
    BY <2>1, VarintIs
  <2>3. PICK a \in Seq(Byte) : a = <<b>>
    BY OneByte
  <2>4. Associates(a, v, r) /\ Associates(v, r, r)
    BY Regroup
  <2>5. PICK w \in Seq(Byte) : w = v \o r
    BY <2>4 DEF Associates
  <2>6. Varint[x] \o Rest(c, i, ahead) = <<b>> \o w
    BY <1>7, <2>1, <2>2, <2>3, <2>4, <2>5 DEF Associates
  <2>7. Follows(file, pos, <<b>> \o w, stored, lost)
    BY <1>5, <2>6
  <2>8. file[pos + 1] = b /\ Follows(file, pos + 1, w, stored, lost)
    BY <1>1, <1>2, <1>8, <2>7, FollowsByte
  <2>9. PICK ln \in Nat, sh \in Nat :
          /\ ln = WithGroup(len, b, shifts) /\ sh = shifts + GroupBits
          /\ Gathered(n, ln, sh, y)
    BY <2>1 DEF Gathered
  <2>10. part' = [at |-> "length", type |-> c[1], strs |-> Before(c, i),
                  len |-> ln, shifts |-> sh]
    BY <1>1, <1>10, <2>1, <2>8, <2>9
  <2>11. Reading(c, i, ahead, "length", ln, sh)'
    BY <1>9, <2>10
  <2>12. Follows(file', pos', Varint[y] \o Rest(c, i, ahead), stored', lost')
    BY <1>1, <1>7, <2>2, <2>5, <2>8
  <2> QED
    BY <1>6, <2>9, <2>11, <2>12 DEF AtLength
<1>13. AtLength' \/ AtChars'
  BY <1>11, <1>12
<1> QED
  BY <1>1, <1>13 DEF IInv, Types, OnDisk, Resting, Down, Loading, Serving, Writing

\* A length that resize() takes is the length of the string.
LEMMA LengthTaken ==
  ASSUME IInv, phase = "loading", part.at = "chars", ~TooLong
  PROVE  \E c \in Changes : \E i \in 2..Len(c), ahead \in Seq(Changes) :
           /\ With(stored, lost) = replayed \o (<<c>> \o ahead)
           /\ SubSeq(file, 1, curPos) = Bytes(replayed)
           /\ part.type = c[1] /\ part.strs = Before(c, i) /\ part.len = Len(c[i])
           /\ Follows(file, pos, Rest(c, i, ahead), stored, lost)
<1>1. AtChars
  BY AtIs DEF IInv, Loading
<1>2. PICK c \in Changes : \E i \in 2..Len(c), ahead \in Seq(Changes), shifts \in Nat :
        \E len \in LengthOf(Len(c[i])) :
          /\ Reading(c, i, ahead, "chars", len, shifts)
          /\ Follows(file, pos, Rest(c, i, ahead), stored, lost)
  BY <1>1 DEF AtChars
<1>3. PICK i \in 2..Len(c), ahead \in Seq(Changes), shifts \in Nat :
        \E len \in LengthOf(Len(c[i])) :
          /\ Reading(c, i, ahead, "chars", len, shifts)
          /\ Follows(file, pos, Rest(c, i, ahead), stored, lost)
  BY <1>2
<1>4. PICK len \in LengthOf(Len(c[i])) :
        /\ Reading(c, i, ahead, "chars", len, shifts)
        /\ Follows(file, pos, Rest(c, i, ahead), stored, lost)
  BY <1>3
<1>5. /\ With(stored, lost) = replayed \o (<<c>> \o ahead)
      /\ SubSeq(file, 1, curPos) = Bytes(replayed)
      /\ part.type = c[1] /\ part.strs = Before(c, i) /\ part.len = len
  BY <1>4 DEF Reading
<1>6. ~(len >= 2 ^ (SizeBits - 1))
  BY <1>5 DEF TooLong
<1>7. len = Len(c[i])
  BY <1>4, <1>6, Sizes DEF LengthOf
<1> QED
  BY <1>4, <1>5, <1>7

\* LoadString: the characters
LEMMA LoadCharsStep ==
  ASSUME IInv, LoadChars, UNCHANGED disk
  PROVE  IInv'
<1>1. /\ phase = "loading" /\ phase' = "loading" /\ part.at = "chars" /\ ~TooLong
      /\ pos + part.len <= Len(file) /\ pos' = pos + part.len
      /\ Loaded(part.type, Append(part.strs, SubSeq(file, pos + 1, pos + part.len)))
      /\ UNCHANGED <<file, curPos, change, left, stored, lost>>
  BY DEF LoadChars
<1>2. file \in Seq(Byte) /\ replayed \in Seq(Changes)
  BY DEF IInv, Types
<1>3. PICK c \in Changes : \E i \in 2..Len(c), ahead \in Seq(Changes) :
        /\ With(stored, lost) = replayed \o (<<c>> \o ahead)
        /\ SubSeq(file, 1, curPos) = Bytes(replayed)
        /\ part.type = c[1] /\ part.strs = Before(c, i) /\ part.len = Len(c[i])
        /\ Follows(file, pos, Rest(c, i, ahead), stored, lost)
  BY <1>1, LengthTaken
<1>4. PICK i \in 2..Len(c), ahead \in Seq(Changes) :
        /\ With(stored, lost) = replayed \o (<<c>> \o ahead)
        /\ SubSeq(file, 1, curPos) = Bytes(replayed)
        /\ part.type = c[1] /\ part.strs = Before(c, i) /\ part.len = Len(c[i])
        /\ Follows(file, pos, Rest(c, i, ahead), stored, lost)
  BY <1>3
<1>5. PICK s \in Strings, t \in Seq(Byte) :
        /\ s = c[i] /\ t = StringsFrom(c, i + 1) \o Bytes(ahead)
        /\ Rest(c, i, ahead) = s \o t
  BY RestOf
<1>6. s \in Seq(Byte)
  BY DumpIs
<1>7. /\ SubSeq(file, pos + 1, pos + Len(s)) = s
      /\ Follows(file, pos + Len(s), t, stored, lost)
  <2>1. Follows(file, pos, s \o t, stored, lost)
    BY <1>4, <1>5
  <2>2. pos + Len(s) <= Len(file)
    BY <1>1, <1>4, <1>5
  <2> QED
    BY <1>2, <1>6, <2>1, <2>2, FollowsStep
<1>8. Loaded(c[1], Before(c, i + 1))
  <2>1. Append(Before(c, i), c[i]) = Before(c, i + 1)
    BY BeforeIs
  <2> QED
    BY <1>1, <1>4, <1>5, <1>7, <2>1
<1>9. replayed' \in Seq(Changes) /\ (AtType' \/ AtLength')
  <2>1. Follows(file, pos', StringsFrom(c, i + 1) \o Bytes(ahead), stored, lost)
    BY <1>1, <1>4, <1>5, <1>7
  <2>2. SubSeq(file, 1, curPos') = Bytes(replayed) /\ UNCHANGED <<file, stored, lost>>
    BY <1>1, <1>4
  <2>3. i + 1 \in 2..(Len(c) + 1)
    BY LengthIs
  <2> QED
    BY <1>2, <1>4, <1>8, <2>1, <2>2, <2>3, LoadedStep
<1> QED
  BY <1>1, <1>9 DEF IInv, Types, OnDisk, Resting, Down, Loading, Serving, Writing

\* What is corrupted is the record of the change that was being made, and all the
\* records in front of it were read.
LEMMA CorruptedIs ==
  ASSUME IInv, Corrupted
  PROVE  part.at # "type" /\ replayed = stored /\ SubSeq(file, 1, curPos) = Bytes(replayed)
<1>1. /\ phase = "loading" /\ ~TooLong
      /\ \/ part.at = "type" /\ pos < Len(file) /\ file[pos + 1] \notin DOMAIN StringsOf
         \/ part.at = "length" /\ pos = Len(file)
         \/ part.at = "chars" /\ pos + part.len > Len(file)
  BY DEF Corrupted, NextByte
<1>2. /\ file \in Seq(Byte) /\ replayed \in Seq(Changes) /\ stored \in Seq(Changes)
      /\ lost \in Changes \cup {NoChange}
  BY DEF IInv, Types, MayChange
<1>3. Slack(lost) \in Nat
  BY <1>2, WithIs
<1>4. AtType \/ AtLength \/ AtChars
  BY <1>1 DEF IInv, Loading
<1>5. ASSUME part.at = "type"
      PROVE  FALSE
  <2>1. AtType /\ pos < Len(file) /\ file[pos + 1] \notin DOMAIN StringsOf
    BY <1>1, <1>4, <1>5, AtIs
  <2>2. PICK all \in Seq(Changes) :
          /\ With(stored, lost) = replayed \o all
          /\ Follows(file, pos, Bytes(all), stored, lost)
    BY <2>1 DEF AtType
  <2>3. pos \in 0..Len(file) /\ Len(file) - pos <= Len(Bytes(all))
    BY <1>2, <1>3, <2>2, FollowsLength
  <2>4. all # <<>>
    <3>1. Len(Bytes(<<>>)) = 0
      BY BytesAre
    <3> QED
      BY <1>2, <2>1, <2>3, <3>1
  <2>5. file[pos + 1] \in DOMAIN StringsOf
    <3>1. pos \in Nat
      BY <1>2, <2>3
    <3> QED
      BY <1>2, <2>1, <2>2, <2>4, <3>1, NextIsType
  <2> QED
    BY <2>1, <2>5
<1>6. CASE part.at = "length"
  <2>1. AtLength /\ pos = Len(file)
    BY <1>1, <1>4, <1>6, AtIs
  <2>2. PICK c \in Changes : \E i \in 2..Len(c), ahead \in Seq(Changes), len, shifts, x \in Nat :
          /\ Reading(c, i, ahead, "length", len, shifts)
          /\ Follows(file, pos, Varint[x] \o Rest(c, i, ahead), stored, lost)
    BY <2>1 DEF AtLength
  <2>3. PICK i \in 2..Len(c), ahead \in Seq(Changes), len \in Nat, shifts \in Nat, x \in Nat :
          /\ Reading(c, i, ahead, "length", len, shifts)
          /\ Follows(file, pos, Varint[x] \o Rest(c, i, ahead), stored, lost)
    BY <2>2
  <2>4. PICK v \in Seq(Byte) : v = Varint[x] /\ Len(v) > 0
    <3>1. PICK w \in Seq(Byte) : w = Varint[x] /\ w # <<>>
      BY VarintIs
    <3>2. Len(w) > 0
      BY <3>1, NotEmpty
    <3> QED
      BY <3>1, <3>2
  <2>5. PICK r \in Seq(Byte) : r = Rest(c, i, ahead) /\ Len(Bytes(ahead)) <= Len(r)
    <3>1. PICK s \in Strings, t \in Seq(Byte) :
            /\ Rest(c, i, ahead) \in Seq(Byte)
            /\ Len(Rest(c, i, ahead)) = Len(s) + Len(t) /\ Len(Bytes(ahead)) <= Len(t)
      BY RestOf
    <3>2. Len(s) \in Nat /\ Len(t) \in Nat /\ Len(Bytes(ahead)) \in Nat
      BY DumpIs, BytesAre
    <3> QED
      BY <3>1, <3>2
  <2>6. Len(v \o r) = Len(v) + Len(r)
    BY ConcatProperties
  <2>7. Len(v \o r) <= Slack(lost)
    <3>1. Follows(file, Len(file), v \o r, stored, lost)
      BY <2>1, <2>3, <2>4, <2>5
    <3>2. Len(v \o r) <= (Len(file) - Len(file)) + Slack(lost)
      BY <1>2, <1>3, <3>1, FollowsLength
    <3>3. Len(file) \in Nat
      BY <1>2
    <3> QED
      BY <1>3, <3>2, <3>3
  <2>8. Len(Bytes(ahead)) < Slack(lost)
    <3>1. Len(v) \in Nat /\ Len(r) \in Nat /\ Len(Bytes(ahead)) \in Nat
      BY BytesAre
    <3> QED
      BY <1>3, <2>4, <2>5, <2>6, <2>7, <3>1
  <2>9. /\ With(stored, lost) = replayed \o (<<c>> \o ahead)
        /\ SubSeq(file, 1, curPos) = Bytes(replayed)
    BY <2>3 DEF Reading
  <2>10. stored = replayed
    BY <1>2, <2>8, <2>9, LastIs
  <2> QED
    BY <1>6, <2>9, <2>10
<1>7. CASE part.at = "chars"
  <2>1. pos + part.len > Len(file)
    BY <1>1, <1>7
  <2>2. PICK c \in Changes : \E i \in 2..Len(c), ahead \in Seq(Changes) :
          /\ With(stored, lost) = replayed \o (<<c>> \o ahead)
          /\ SubSeq(file, 1, curPos) = Bytes(replayed)
          /\ part.len = Len(c[i])
          /\ Follows(file, pos, Rest(c, i, ahead), stored, lost)
    BY <1>1, <1>7, LengthTaken
  <2>3. PICK i \in 2..Len(c), ahead \in Seq(Changes) :
          /\ With(stored, lost) = replayed \o (<<c>> \o ahead)
          /\ SubSeq(file, 1, curPos) = Bytes(replayed)
          /\ part.len = Len(c[i])
          /\ Follows(file, pos, Rest(c, i, ahead), stored, lost)
    BY <2>2
  <2>4. PICK s \in Strings, t \in Seq(Byte) :
          /\ s = c[i] /\ Len(Rest(c, i, ahead)) = Len(s) + Len(t)
          /\ Len(Bytes(ahead)) <= Len(t)
    BY RestOf
  <2>5. /\ pos \in 0..Len(file)
        /\ Len(Rest(c, i, ahead)) <= (Len(file) - pos) + Slack(lost)
    BY <1>2, <1>3, <2>3, FollowsLength
  <2>6. Len(Bytes(ahead)) < Slack(lost)
    <3>1. /\ Len(s) \in Nat /\ Len(t) \in Nat /\ Len(Bytes(ahead)) \in Nat
          /\ Len(file) \in Nat
      BY <1>2, DumpIs, BytesAre
    <3>2. pos + Len(s) > Len(file)
      BY <2>1, <2>3, <2>4
    <3>3. Len(s) + Len(t) <= (Len(file) - pos) + Slack(lost) /\ pos \in Nat
      BY <2>4, <2>5
    <3> QED
      BY <1>3, <2>4, <3>1, <3>2, <3>3
  <2>7. stored = replayed
    BY <1>2, <2>3, <2>6, LastIs
  <2> QED
    BY <1>7, <2>3, <2>7
<1> QED
  BY <1>1, <1>5, <1>6, <1>7

\* At the end of the file, all of it was read, but for changes that are not in it.
LEMMA DoneIs ==
  ASSUME IInv, phase = "loading", part.at = "type", pos = Len(file)
  PROVE  file = Bytes(replayed) /\ replayed \in {stored, Append(stored, lost)}
<1>1. /\ file \in Seq(Byte) /\ replayed \in Seq(Changes) /\ stored \in Seq(Changes)
      /\ lost \in Changes \cup {NoChange}
  BY DEF IInv, Types, MayChange
<1>2. AtType
  BY AtIs DEF IInv, Loading
<1>3. PICK all \in Seq(Changes) :
        /\ With(stored, lost) = replayed \o all
        /\ Follows(file, pos, Bytes(all), stored, lost)
  BY <1>2 DEF AtType
<1>4. SubSeq(file, 1, pos) = Bytes(replayed)
  BY <1>1, <1>3, ReplayedIs
<1>5. file = Bytes(replayed)
  BY <1>1, <1>4, SubSeqFull
<1>6. Slack(lost) \in Nat
  BY <1>1, WithIs
<1>7. Len(Bytes(all)) <= Slack(lost)
  <2>1. Follows(file, Len(file), Bytes(all), stored, lost)
    BY <1>3
  <2>2. /\ Len(Bytes(all)) <= (Len(file) - Len(file)) + Slack(lost)
        /\ Len(file) \in Nat
    BY <1>1, <1>6, <2>1, FollowsLength
  <2> QED
    BY <1>6, <2>2
<1>8. CASE all = <<>>
  <2>1. replayed \o <<>> = replayed
    BY <1>1, ConcatEmptySeq
  <2>2. With(stored, lost) = replayed
    BY <1>3, <1>8, <2>1
  <2> QED
    BY <1>5, <2>2 DEF With
<1>9. CASE all # <<>>
  <2>1. PICK c \in Changes, ahead \in Seq(Changes) : all = <<c>> \o ahead
    BY <1>9, FirstOf
  <2>2. Bytes(all) = Record(c) \o Bytes(ahead)
    BY <2>1, BytesAre
  <2>3. PICK a \in Seq(Byte), b \in Seq(Byte) :
          a = Record(c) /\ b = Bytes(ahead) /\ Len(a) > 0
    <3>1. PICK w \in Seq(Byte) : w = Record(c) /\ w # <<>>
      BY RecordIs
    <3>2. Len(w) > 0
      BY <3>1, NotEmpty
    <3> QED
      BY <3>1, <3>2, BytesAre
  <2>4. Len(a \o b) = Len(a) + Len(b) /\ Len(a) \in Nat /\ Len(b) \in Nat
    BY ConcatProperties
  <2>5. Len(Bytes(ahead)) < Slack(lost)
    BY <1>6, <1>7, <2>2, <2>3, <2>4
  <2>6. With(stored, lost) = replayed \o (<<c>> \o ahead)
    BY <1>3, <2>1
  <2>7. stored = replayed
    BY <1>1, <2>5, <2>6, LastIs, ZenonT(30)
  <2> QED
    BY <1>5, <2>7
<1> QED
  BY <1>8, <1>9

\* The constructor ends the load.
LEMMA ServeStep ==
  ASSUME IInv, Serve, UNCHANGED disk, phase = "loading", file' = Bytes(replayed)
  PROVE  IInv'
<1>1. /\ phase' = "serving" /\ pos' = 0 /\ curPos' = 0 /\ part' = NoPart
      /\ stored' = replayed /\ lost' = NoChange /\ UNCHANGED <<replayed, change, left>>
  BY DEF Serve
<1>2. replayed \in Seq(Changes) /\ file' \in Seq(Byte)
  BY BytesAre DEF IInv, Types
<1>3. 0 \in 0..Len(file')
  BY <1>2
<1> QED
  BY <1>1, <1>2, <1>3
  DEF IInv, Types, OnDisk, Resting, Down, Loading, Serving, Writing, MayChange

\* The end of a load brings back what it should.
LEMMA ServeRight ==
  ASSUME IInv, LoadCorrupted \/ LoadDone
  PROVE  /\ phase = "loading" /\ Serve /\ file' = Bytes(replayed)
         /\ replayed \in {stored, Append(stored, lost)}
<1>1. CASE LoadCorrupted
  <2>1. Corrupted /\ Serve /\ file' = SubSeq(file, 1, RecordStart)
    BY <1>1 DEF LoadCorrupted
  <2>2. part.at # "type" /\ replayed = stored /\ SubSeq(file, 1, curPos) = Bytes(replayed)
    BY <2>1, CorruptedIs
  <2>3. RecordStart = curPos
    BY <2>2 DEF RecordStart
  <2> QED
    BY <2>1, <2>2, <2>3 DEF Corrupted
<1>2. CASE LoadDone
  <2>1. phase = "loading" /\ part.at = "type" /\ pos = Len(file) /\ Serve /\ file' = file
    BY <1>2 DEF LoadDone
  <2> QED
    BY <2>1, DoneIs
<1> QED
  BY <1>1, <1>2

\* Put, Remove, Clear: the record is to be written.
LEMMA BeginChangeStep ==
  ASSUME IInv, NEW c \in Changes, BeginChange(c), UNCHANGED disk
  PROVE  IInv'
<1>1. /\ phase = "serving" /\ phase' = "writing"
      /\ replayed' = Append(replayed, c) /\ change' = c /\ left' = Record(c)
      /\ curPos' = Len(file) /\ UNCHANGED <<file, pos, part, stored, lost>>
  BY DEF BeginChange
<1>2. /\ file \in Seq(Byte) /\ replayed \in Seq(Changes)
      /\ lost = NoChange /\ file = Bytes(stored)
  BY <1>1 DEF IInv, Types, Serving
<1>3. replayed' \in Seq(Changes)
  BY <1>1, <1>2
<1>4. curPos' \in 0..Len(file')
  BY <1>1, <1>2
<1>5. left' \in Seq(Byte) /\ change' \in MayChange
  BY <1>1, RecordIs DEF MayChange
<1> QED
  BY <1>1, <1>2, <1>3, <1>4, <1>5
  DEF IInv, Types, OnDisk, Resting, Down, Loading, Serving, Writing

\* DumpString: a byte reaches the file.
LEMMA SpillStep ==
  ASSUME IInv, Spill, UNCHANGED disk
  PROVE  IInv'
<1>1. /\ phase = "writing" /\ phase' = "writing" /\ left # <<>>
      /\ file' = Append(file, Head(left)) /\ left' = Tail(left)
      /\ UNCHANGED <<pos, curPos, part, replayed, change, stored, lost>>
  BY DEF Spill
<1>2. file \in Seq(Byte) /\ left \in Seq(Byte) /\ curPos \in 0..Len(file)
  BY <1>1 DEF IInv, Types, Writing
<1>3. PICK x \in Byte, l \in Seq(Byte) : x = Head(left) /\ l = Tail(left)
  BY <1>1, <1>2, HeadTailProperties
<1>4. left = <<x>> \o l
  BY <1>1, <1>2, <1>3
<1>5. Append(file, x) \in Seq(Byte) /\ Len(Append(file, x)) = Len(file) + 1
  BY <1>2
<1>6. Append(file, x) \o l = file \o (<<x>> \o l)
  BY <1>2
<1>7. curPos \in 0..Len(file')
  BY <1>1, <1>2, <1>3, <1>5
<1>8. file' \in Seq(Byte) /\ left' \in Seq(Byte) /\ file' \o left' = file \o left
  BY <1>1, <1>3, <1>4, <1>5, <1>6
<1> QED
  BY <1>1, <1>7, <1>8
  DEF IInv, Types, OnDisk, Resting, Down, Loading, Serving, Writing

\* flush() has not failed: the whole record is in the file.
LEMMA AcknowledgeStep ==
  ASSUME IInv, Acknowledge, UNCHANGED disk
  PROVE  IInv'
<1>1. /\ phase = "writing" /\ left = <<>> /\ stored' = Append(stored, change)
      /\ phase' = "serving" /\ change' = NoChange /\ left' = <<>> /\ curPos' = 0
      /\ UNCHANGED <<file, pos, part, replayed, lost>>
  BY DEF Acknowledge, Return
<1>2. /\ file \in Seq(Byte) /\ stored \in Seq(Changes) /\ change \in Changes
      /\ lost = NoChange /\ file \o left = Bytes(stored) \o Record(change)
  BY <1>1 DEF IInv, Types, Writing
<1>3. Bytes(stored') = Bytes(stored) \o Record(change) /\ stored' \in Seq(Changes)
  <2>1. PICK st \in Seq(Changes), c \in Changes : st = stored /\ c = change
    BY <1>2
  <2>2. Append(st, c) \in Seq(Changes)
    BY AppendProperties
  <2>3. Bytes(Append(st, c)) = Bytes(st) \o Record(c)
    BY BytesAre
  <2> QED
    BY <1>1, <2>1, <2>2, <2>3
<1>4. file \o <<>> = file
  BY <1>2, ConcatEmptySeq
<1>5. file' = Bytes(stored')
  BY <1>1, <1>2, <1>3, <1>4
<1>6. 0 \in 0..Len(file') /\ NoChange \in MayChange
  BY <1>1, <1>2 DEF MayChange
<1> QED
  BY <1>1, <1>2, <1>3, <1>5, <1>6
  DEF IInv, Types, OnDisk, Resting, Down, Loading, Serving, Writing

\* flush() has failed: what is in the file of the record is cut off.
LEMMA WriteFailsStep ==
  ASSUME IInv, WriteFails, UNCHANGED disk
  PROVE  IInv'
<1>1. /\ phase = "writing" /\ file' = SubSeq(file, 1, curPos)
      /\ phase' = "serving" /\ change' = NoChange /\ left' = <<>> /\ curPos' = 0
      /\ UNCHANGED <<pos, part, replayed, stored, lost>>
  BY DEF WriteFails, Return
<1>2. /\ file \in Seq(Byte) /\ stored \in Seq(Changes) /\ change \in Changes
      /\ left \in Seq(Byte) /\ curPos \in 0..Len(file) /\ curPos = Len(Bytes(stored))
      /\ lost = NoChange /\ file \o left = Bytes(stored) \o Record(change)
  BY <1>1 DEF IInv, Types, Writing
<1>3. PICK a \in Seq(Byte), b \in Seq(Byte) : a = Bytes(stored) /\ b = Record(change)
  BY <1>2, BytesAre, RecordIs
<1>4. file \o left = a \o b /\ Len(a) <= Len(file)
  BY <1>2, <1>3
<1>5. SubSeq(file, 1, Len(a)) = a
  BY <1>2, <1>4, PrefixIs
<1>6. file' = Bytes(stored') /\ file' \in Seq(Byte)
  BY <1>1, <1>2, <1>3, <1>5
<1>7. 0 \in 0..Len(file') /\ NoChange \in MayChange
  BY <1>6 DEF MayChange
<1> QED
  BY <1>1, <1>2, <1>6, <1>7
  DEF IInv, Types, OnDisk, Resting, Down, Loading, Serving, Writing

\* The process dies: the change that was being made is in doubt.
LEMMA DiesStep ==
  ASSUME IInv, Dies, UNCHANGED disk
  PROVE  IInv'
<1>1. /\ phase' = "down" /\ pos' = 0 /\ curPos' = 0 /\ part' = NoPart
      /\ replayed' = <<>> /\ change' = NoChange /\ left' = <<>>
      /\ lost' = Doubtful /\ UNCHANGED <<file, stored>>
  BY DEF Dies, Ends
<1>2. Doubtful \in MayChange /\ Torn(file, stored, Doubtful)
  BY FileIsTorn
<1>3. file \in Seq(Byte) /\ stored \in Seq(Changes)
  BY DEF IInv, Types
<1>4. 0 \in 0..Len(file') /\ replayed' \in Seq(Changes) /\ NoChange \in MayChange
  BY <1>1, <1>3 DEF MayChange
<1> QED
  BY <1>1, <1>2, <1>3, <1>4
  DEF IInv, Types, OnDisk, Resting, Down, Loading, Serving, Writing

\* The system writes the file back.
LEMMA WritebackStep ==
  ASSUME IInv, Writeback
  PROVE  IInv'
<1>1. /\ disk' = [file |-> file, stored |-> stored, lost |-> Doubtful]
      /\ UNCHANGED <<file, phase, pos, curPos, part, replayed, change, left, stored, lost>>
  BY DEF Writeback
<1>2. disk'.file = file /\ disk'.stored = stored /\ disk'.lost = Doubtful
  BY <1>1
<1>3. OnDisk'
  BY <1>2, FileIsTorn DEF IInv, Types, OnDisk
<1>4. UNCHANGED <<AtType, AtLength, AtChars>>
  BY <1>1 DEF AtType, AtLength, AtChars, Reading
<1> QED
  BY <1>1, <1>3, <1>4 DEF IInv, Types, Resting, Down, Loading, Serving, Writing

\* The machine loses its power.
LEMMA PowerFailsStep ==
  ASSUME IInv, PowerFails
  PROVE  IInv'
<1>1. /\ phase' = "down" /\ pos' = 0 /\ curPos' = 0 /\ part' = NoPart
      /\ replayed' = <<>> /\ change' = NoChange /\ left' = <<>>
      /\ file' = disk.file /\ stored' = disk.stored /\ lost' = disk.lost
      /\ UNCHANGED disk
  BY DEF PowerFails, Ends
<1>2. /\ disk.file \in Seq(Byte) /\ disk.stored \in Seq(Changes) /\ disk.lost \in MayChange
      /\ Torn(disk.file, disk.stored, disk.lost)
  BY DEF IInv, OnDisk
<1>3. 0 \in 0..Len(file') /\ replayed' \in Seq(Changes) /\ NoChange \in MayChange
  BY <1>1, <1>2 DEF MayChange
<1> QED
  BY <1>1, <1>2, <1>3
  DEF IInv, Types, OnDisk, Resting, Down, Loading, Serving, Writing

\* Nothing happens.
LEMMA StutterStep ==
  ASSUME IInv, UNCHANGED vars
  PROVE  IInv'
<1>1. UNCHANGED <<file, phase, pos, curPos, part, replayed, change, left, stored, lost, disk>>
  BY DEF vars
<1>2. UNCHANGED <<AtType, AtLength, AtChars>>
  BY <1>1 DEF AtType, AtLength, AtChars, Reading
<1> QED
  BY <1>1, <1>2 DEF IInv, Types, OnDisk, Resting, Down, Loading, Serving, Writing

\* So every step keeps the invariant.
LEMMA NextStep ==
  ASSUME IInv, [Next]_vars, "open" \notin Faults
  PROVE  IInv'
<1>1. ASSUME UNCHANGED disk, Start
      PROVE  IInv'
  BY <1>1, StartStep
<1>2. ASSUME UNCHANGED disk, Load
      PROVE  IInv'
  <2>1. CASE LoadType
    BY <1>2, <2>1, LoadTypeStep
  <2>2. CASE LoadLength
    BY <1>2, <2>2, LoadLengthStep
  <2>3. CASE LoadChars
    BY <1>2, <2>3, LoadCharsStep
  <2>4. CASE LoadCorrupted \/ LoadDone
    BY <1>2, <2>4, ServeRight, ServeStep
  <2>5. CASE LoadThrows
    BY <1>2, <2>5, DiesStep DEF LoadThrows
  <2> QED
    BY <1>2, <2>1, <2>2, <2>3, <2>4, <2>5 DEF Load
<1>3. ASSUME UNCHANGED disk, NEW c \in Changes, BeginChange(c)
      PROVE  IInv'
  BY <1>3, BeginChangeStep
<1>4. ASSUME UNCHANGED disk, Spill \/ Acknowledge \/ WriteFails
      PROVE  IInv'
  BY <1>4, SpillStep, AcknowledgeStep, WriteFailsStep
<1>5. ASSUME UNCHANGED disk, Crash
      PROVE  IInv'
  BY <1>5, DiesStep DEF Crash
<1> QED
  BY <1>1, <1>2, <1>3, <1>4, <1>5, WritebackStep, PowerFailsStep, StutterStep DEF Next

-----------------------------------------------------------------------------
(* The theorems.                                                           *)

\* The invariant holds from the first state on.
LEMMA IInvHolds ==
  ASSUME "open" \notin Faults
  PROVE  Spec => []IInv
<1>1. IInv /\ [Next]_vars => IInv'
  BY NextStep
<1> QED
  BY <1>1, InitIInv, PTL DEF Spec

\* No length in a file of any length is more than size_t holds, and every byte of it is
\* read and written as a byte, whatever the widths and the strings (LoadString, DumpString).
THEOREM LogBytesTypeOK ==
  ASSUME "open" \notin Faults
  PROVE  Spec => []TypeOK
<1>1. IInv => TypeOK
  <2>1. SUFFICES ASSUME IInv
                 PROVE  TypeOK
    OBVIOUS
  <2>2. /\ file \in Seq(Byte) /\ stored \in Seq(Changes)
        /\ lost \in Changes \cup {NoChange}
    BY <2>1 DEF IInv, Types, MayChange
  <2>3. Slack(lost) \in Nat /\ Len(file) \in Nat
    BY <2>2, WithIs
  <2>4. pos \in 0..Len(file)
    <3>1. CASE phase # "loading"
      <4>1. pos = 0
        BY <2>1, <3>1 DEF IInv, Resting
      <4> QED
        BY <2>3, <4>1
    <3>2. CASE phase = "loading"
      <4>1. PICK todo : Follows(file, pos, todo, stored, lost)
        BY <2>1, <3>2 DEF IInv, Loading, AtType, AtLength, AtChars
      <4> QED
        BY <2>2, <2>3, <4>1, FollowsLength
    <3> QED
      BY <3>1, <3>2
  <2>5. part.at \in {"type", "length", "chars"} /\ part.len \in 0..(2 ^ SizeBits - 1)
    <3>1. CASE part = NoPart
      BY <3>1, Sizes DEF NoPart
    <3>2. CASE AtLength
      <4>1. PICK len \in Nat, shifts \in Nat :
              part.len = len /\ len < 2 ^ shifts /\ shifts < IntBits
        <5>1. PICK c, i, ahead, x, len, shifts :
                /\ Reading(c, i, ahead, "length", len, shifts)
                /\ Gathered(Len(c[i]), len, shifts, x)
          BY <3>2 DEF AtLength
        <5>2. part.len = len
          BY <5>1 DEF Reading
        <5> QED
          BY <5>1, <5>2 DEF Gathered
      <4>2. 2 * 2 ^ shifts <= 2 ^ IntBits /\ 2 ^ shifts \in Nat
        <5>1. IntBits \in Nat /\ IntBits <= Widest /\ shifts \in 0..Widest
          BY <4>1, WidthsAssumption DEF Widest
        <5> QED
          BY <4>1, <5>1, Powers, PowersGrow
      <4>3. len < 2 ^ SizeBits
        BY <4>1, <4>2, Sizes
      <4> QED
        BY <3>2, <4>1, <4>3, AtIs, Sizes
    <3>3. CASE AtChars
      <4>1. PICK c \in Changes : \E i \in 2..Len(c) : part.len \in LengthOf(Len(c[i]))
        BY <3>3 DEF AtChars, Reading
      <4>2. PICK i \in 2..Len(c) : part.len \in LengthOf(Len(c[i]))
        BY <4>1
      <4>3. PICK s \in Strings : s = c[i]
        BY LengthIs
      <4>4. PICK n \in Nat : n = Len(s) /\ part.len \in LengthOf(n)
        BY <4>2, <4>3, DumpIs
      <4>5. part.len \in 0..(2 ^ SizeBits - 1)
        BY <4>4, Sizes DEF LengthOf
      <4> QED
        BY <3>3, <4>5, AtIs
    <3> QED
      BY <2>1, <3>1, <3>2, <3>3 DEF IInv, Types, Resting, Loading, AtType
  <2> QED
    BY <2>1, <2>4, <2>5 DEF IInv, Types, MayChange, TypeOK
<1> QED
  BY <1>1, IInvHolds, PTL

\* The file of a store that serves holds exactly the records of the changes that were
\* answered OK, whatever the strings and wherever earlier records were cut.
THEOREM LogBytesFileIsRecords ==
  ASSUME "open" \notin Faults
  PROVE  Spec => []FileIsRecords
<1>1. IInv => FileIsRecords
  BY DEF IInv, Serving, FileIsRecords
<1> QED
  BY <1>1, IInvHolds, PTL

\* resize() throws for nothing but a string whose length reaches the sign of the int.
THEOREM LogBytesOnlyLongStringsThrow ==
  ASSUME "open" \notin Faults
  PROVE  Spec => []OnlyLongStringsThrow
<1>1. ASSUME IInv, TooLong
      PROVE  \E c \in Range(stored) \cup {lost} :
               \E i \in 2..Len(c) : Len(c[i]) >= 2 ^ (IntBits - 1)
  <2>1. phase = "loading" /\ part.at = "chars" /\ part.len >= 2 ^ (SizeBits - 1)
    BY <1>1 DEF TooLong
  <2>2. AtChars
    BY <1>1, <2>1, AtIs DEF IInv, Loading
  <2>3. PICK c \in Changes : \E i \in 2..Len(c), ahead \in Seq(Changes) :
          /\ part.len \in LengthOf(Len(c[i]))
          /\ With(stored, lost) = replayed \o (<<c>> \o ahead)
    <3>1. PICK c \in Changes : \E i \in 2..Len(c), ahead \in Seq(Changes), shifts \in Nat :
            \E len \in LengthOf(Len(c[i])) : Reading(c, i, ahead, "chars", len, shifts)
      BY <2>2 DEF AtChars
    <3>2. PICK i \in 2..Len(c), ahead \in Seq(Changes), shifts \in Nat :
            \E len \in LengthOf(Len(c[i])) : Reading(c, i, ahead, "chars", len, shifts)
      BY <3>1
    <3>3. PICK len \in LengthOf(Len(c[i])) : Reading(c, i, ahead, "chars", len, shifts)
      BY <3>2
    <3>4. part.len = len /\ With(stored, lost) = replayed \o (<<c>> \o ahead)
      BY <3>3 DEF Reading
    <3> QED
      BY <3>3, <3>4
  <2>4. PICK i \in 2..Len(c), ahead \in Seq(Changes) :
          /\ part.len \in LengthOf(Len(c[i]))
          /\ With(stored, lost) = replayed \o (<<c>> \o ahead)
    BY <2>3
  <2>5. Len(c[i]) >= 2 ^ (IntBits - 1)
    <3>1. PICK s \in Strings : s = c[i]
      BY LengthIs
    <3>2. PICK n \in Nat : n = Len(s) /\ part.len \in LengthOf(n)
      BY <2>4, <3>1, DumpIs
    <3>3. n >= 2 ^ (IntBits - 1)
      BY <2>1, <3>2, Sizes DEF LengthOf
    <3> QED
      BY <3>1, <3>2, <3>3
  <2>6. c \in Range(stored) \cup {lost}
    <3>1. /\ replayed \in Seq(Changes) /\ stored \in Seq(Changes)
          /\ lost \in Changes \cup {NoChange}
      BY <1>1 DEF IInv, Types, MayChange
    <3>2. PICK k \in 1..Len(With(stored, lost)) : With(stored, lost)[k] = c
      <4>1. Len(replayed) + 1 \in 1..Len(replayed \o (<<c>> \o ahead))
        BY <3>1
      <4>2. (replayed \o (<<c>> \o ahead))[Len(replayed) + 1] = c
        BY <3>1
      <4> QED
        BY <2>4, <4>1, <4>2
    <3>3. CASE With(stored, lost) = stored
      BY <3>1, <3>2, <3>3 DEF Range
    <3>4. CASE With(stored, lost) = Append(stored, lost)
      <4>1. k \in 1..Len(stored) \/ k = Len(stored) + 1
        BY <3>1, <3>2, <3>4
      <4>2. CASE k \in 1..Len(stored)
        BY <3>1, <3>2, <3>4, <4>2 DEF Range
      <4>3. CASE k = Len(stored) + 1
        BY <3>1, <3>2, <3>4, <4>3
      <4> QED
        BY <4>1, <4>2, <4>3
    <3> QED
      BY <3>3, <3>4 DEF With
  <2> QED
    BY <2>5, <2>6
<1>2. IInv => OnlyLongStringsThrow
  BY <1>1 DEF OnlyLongStringsThrow
<1> QED
  BY <1>2, IInvHolds, PTL

\* A start brings back the changes that were answered OK, byte for byte, and at most the
\* one that was being made besides, whatever the strings, wherever the record was cut,
\* and whatever a power failure took back.
THEOREM LogBytesRestartsRight ==
  ASSUME "open" \notin Faults
  PROVE  Spec => RestartsRight
<1>1. IInv /\ [Next]_vars =>
        [phase = "loading" /\ phase' = "serving" =>
           replayed' \in {stored, Append(stored, lost)}]_vars
  <2>1. SUFFICES ASSUME IInv, Next, phase = "loading", phase' = "serving"
                 PROVE  replayed' \in {stored, Append(stored, lost)}
    OBVIOUS
  <2>2. LoadCorrupted \/ LoadDone
    BY <2>1 DEF Next, Start, Load, LoadType, LoadLength, LoadChars, LoadThrows,
                BeginChange, Spill, Acknowledge, WriteFails, Crash, Dies, Ends,
                Writeback, PowerFails
  <2> QED
    BY <2>1, <2>2, ServeRight DEF Serve
<1> QED
  BY <1>1, IInvHolds, PTL DEF Spec, RestartsRight

=============================================================================
