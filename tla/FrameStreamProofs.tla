-------------------------- MODULE FrameStreamProofs --------------------------
(***************************************************************************)
(* Proofs about FrameStream, for any sizes, streams and sendings.  What is *)
(* written as a frame is read back (HeaderRead, HeaderWritten, FrameRead), *)
(* Split takes a buffer apart as it was put together (SplitDef), and       *)
(* frames can be read in one way only (EncodeFront); so the receivers are  *)
(* in step with the stream (ReceiversInStep) and deliver what was sent     *)
(* (ReceiversFaithful).                                                    *)
(*                                                                         *)
(* The operators are defined by recursive functions.  The provers cannot   *)
(* use the induction theorems, which are about operators; so induction is  *)
(* stated here for sets of numbers, from the well-foundedness of < (WFMin).*)
(***************************************************************************)
EXTENDS FrameStream, SequenceTheorems, WellFoundedInduction, TLAPS

-----------------------------------------------------------------------------
(***************************************************************************)
(* Induction and recursive functions                                       *)
(***************************************************************************)
\* A set of numbers that is not empty has a least element.
LEMMA Least ==
  ASSUME NEW T, T \subseteq Nat, T # {}
  PROVE  \E m \in T : \A k \in T : ~(k < m)
<1>1. \E m \in T : \A k \in T : ~(<<k, m>> \in OpToRel(<, Nat))
  BY NatLessThanWellFounded, WFMin
<1>2. \A k, m \in Nat : k < m => <<k, m>> \in OpToRel(<, Nat)
  BY DEF OpToRel
<1>. QED
  BY <1>1, <1>2

\* Induction: a set that has 0, and with each number the next, has all.
LEMMA Induction ==
  ASSUME NEW S, 0 \in S, \A n \in Nat : n \in S => n + 1 \in S
  PROVE  \A n \in Nat : n \in S
<1>. SUFFICES ASSUME Nat \ S # {} PROVE FALSE
  OBVIOUS
<1>1. PICK m \in Nat \ S : \A k \in Nat \ S : ~(k < m)
  BY Least
<1>2. m # 0 /\ m - 1 \in Nat /\ m - 1 < m
  BY <1>1
<1>. QED
  BY <1>1, <1>2

Alike(f, g, n) == \A i \in 0..n : f[i] = g[i]

\* Two functions that begin alike and go on alike are alike.
LEMMA SameRecurrence ==
  ASSUME NEW n \in Nat, NEW f, NEW g, f[0] = g[0],
         \A i \in 1..n : f[i - 1] = g[i - 1] => f[i] = g[i]
  PROVE  Alike(f, g, n)
<1>. DEFINE S == {i \in Nat : i <= n => f[i] = g[i]}
<1>1. 0 \in S
  OBVIOUS
<1>2. ASSUME NEW i \in Nat, i \in S PROVE i + 1 \in S
  <2>. SUFFICES ASSUME i + 1 <= n PROVE f[i + 1] = g[i + 1]
    OBVIOUS
  <2>1. i + 1 \in 1..n /\ i <= n /\ (i + 1) - 1 = i
    OBVIOUS
  <2>2. f[i] = g[i]
    BY <1>2, <2>1
  <2>. QED
    BY <2>1, <2>2
<1>3. \A i \in Nat : i \in S
  <2>. HIDE DEF S
  <2>. QED
    BY <1>1, <1>2, Induction
<1>. QED
  BY <1>3 DEF Alike

\* f begins with x, and goes on with step from one number to the next.
Follows(f, n, x, step) == f[0] = x /\ \A i \in 1..n : f[i] = step[<<i, f[i - 1]>>]

\* A function defined by a first value and a step exists up to any number.
LEMMA Recursion ==
  ASSUME NEW X, NEW x \in X, NEW n \in Nat, NEW step \in [(1..n) \X X -> X]
  PROVE  \E f \in [0..n -> X] : Follows(f, n, x, step)
<1>. DEFINE Rec(k, f) == Follows(f, k, x, step)
            S == {k \in Nat : k <= n => \E f \in [0..k -> X] : Rec(k, f)}
<1>. USE DEF Follows
<1>1. 0 \in S
  <2>. DEFINE f == [i \in 0..0 |-> x]
  <2>1. f \in [0..0 -> X] /\ Rec(0, f)
    OBVIOUS
  <2>. QED
    BY <2>1
<1>2. ASSUME NEW k \in Nat, k \in S PROVE k + 1 \in S
  <2>. SUFFICES ASSUME k + 1 <= n PROVE \E f \in [0..(k + 1) -> X] : Rec(k + 1, f)
    OBVIOUS
  <2>1. PICK f \in [0..k -> X] : Rec(k, f)
    BY <1>2
  <2>. DEFINE g == [i \in 0..(k + 1) |-> IF i = k + 1 THEN step[<<k + 1, f[k]>>] ELSE f[i]]
  <2>2. step[<<k + 1, f[k]>>] \in X
    <3>1. <<k + 1, f[k]>> \in (1..n) \X X
      BY <2>1
    <3>. QED
      BY <3>1
  <2>3. g \in [0..(k + 1) -> X]
    BY <2>1, <2>2
  <2>4. g[0] = x
    BY <2>1
  <2>5. ASSUME NEW i \in 1..(k + 1) PROVE g[i] = step[<<i, g[i - 1]>>]
    <3>1. g[i - 1] = f[i - 1] /\ i - 1 \in 0..k
      OBVIOUS
    <3>2. CASE i = k + 1
      BY <3>1, <3>2
    <3>3. CASE i # k + 1
      <4>1. i \in 1..k /\ g[i] = f[i]
        BY <3>3
      <4>. QED
        BY <2>1, <3>1, <4>1
    <3>. QED
      BY <3>2, <3>3
  <2>6. Rec(k + 1, g)
    BY <2>4, <2>5
  <2>. QED
    BY <2>3, <2>6
<1>3. n \in S
  <2>. HIDE DEF S
  <2>. QED
    BY <1>1, <1>2, Induction
<1>4. PICK f \in [0..n -> X] : Rec(n, f)
  BY <1>3
<1>. QED
  BY <1>4
-----------------------------------------------------------------------------
(***************************************************************************)
(* The length of a frame                                                   *)
(***************************************************************************)
\* A number and a cell are found again in the number with the cell behind it.
LEMMA CellBehind ==
  /\ \A x \in Nat, c \in Cells : (x * Base + c) \div Base = x /\ (x * Base + c) % Base = c
  /\ \A x \in Nat : x \div Base \in Nat /\ x % Base \in Cells /\ (x \div Base) * Base + (x % Base) = x
<1>1. Base \in Nat \ {0}
  BY SizeAssumption
<1>2. ASSUME NEW b \in Nat \ {0}, NEW x \in Nat, NEW c \in 0..(b - 1)
      PROVE  (x * b + c) \div b = x /\ (x * b + c) % b = c
  OBVIOUS
<1>3. ASSUME NEW b \in Nat \ {0}, NEW x \in Nat
      PROVE  x \div b \in Nat /\ x % b \in 0..(b - 1) /\ (x \div b) * b + (x % b) = x
  OBVIOUS
<1>. QED
  BY <1>1, <1>2, <1>3 DEF Cells

\* Shifted, step by step.
LEMMA ShiftedDef ==
  ASSUME NEW n \in Nat
  PROVE  /\ Shifted(n) \in [0..LenSize -> Nat]
         /\ Shifted(n)[0] = n
         /\ \A k \in 1..LenSize : Shifted(n)[k] = Shifted(n)[k - 1] \div Base
<1>. DEFINE step == [p \in (1..LenSize) \X Nat |-> p[2] \div Base]
            Rec(f) == [k \in 0..LenSize |-> IF k = 0 THEN n ELSE f[k - 1] \div Base]
<1>1. step \in [(1..LenSize) \X Nat -> Nat] /\ LenSize \in Nat
  BY CellBehind, SizeAssumption
<1>2. PICK f \in [0..LenSize -> Nat] :
        Follows(f, LenSize, n, step)
  <2>. HIDE DEF step
  <2>. QED
    BY <1>1, Recursion
<1>3. \A k \in 1..LenSize : k - 1 \in 0..LenSize /\ <<k, f[k - 1]>> \in (1..LenSize) \X Nat
  BY <1>1
<1>4. \A k \in 1..LenSize : f[k] = f[k - 1] \div Base
  BY <1>2, <1>3 DEF Follows
<1>5. f = Rec(f)
  <2>1. \A k \in 0..LenSize : k = 0 \/ k \in 1..LenSize
    BY <1>1
  <2>2. \A k \in 0..LenSize : f[k] = Rec(f)[k]
    BY <1>2, <1>4, <2>1 DEF Follows
  <2>. QED
    BY <2>2
<1>6. Shifted(n) = Rec(Shifted(n))
  BY <1>5 DEF Shifted
<1>. DEFINE g == Shifted(n)
<1>7. g[0] = n /\ \A k \in 1..LenSize : g[k] = g[k - 1] \div Base
  <2>1. \A k \in 0..LenSize : g[k] = Rec(g)[k]
    BY <1>6
  <2>. HIDE DEF g
  <2>. QED
    BY <2>1, <1>1
<1>8. Alike(f, g, LenSize)
  <2>. HIDE DEF g
  <2>1. \A k \in 1..LenSize : f[k - 1] = g[k - 1] => f[k] = g[k]
    BY <1>4, <1>7
  <2>2. f[0] = g[0]
    BY <1>2, <1>7 DEF Follows
  <2>. QED
    BY <2>1, <2>2, <1>1, SameRecurrence
<1>9. g \in [0..LenSize -> Nat]
  <2>1. g = Rec(g)
    BY <1>6
  <2>. HIDE DEF g
  <2>2. \A k \in 0..LenSize : Rec(g)[k] \in Nat
    <3>1. \A k \in 0..LenSize : g[k] = Rec(g)[k]
      BY <2>1
    <3>. HIDE DEF Rec
    <3>. QED
      BY <3>1, <1>8 DEF Alike
  <2>. QED
    BY <2>1, <2>2
<1>. QED
  BY <1>7, <1>9

\* Count, step by step.
LEMMA CountDef ==
  /\ Count \in [0..LenSize -> Nat]
  /\ Count[0] = 1
  /\ \A k \in 1..LenSize : Count[k] = Count[k - 1] * Base
<1>. DEFINE step == [p \in (1..LenSize) \X Nat |-> p[2] * Base]
            Rec(f) == [k \in 0..LenSize |-> IF k = 0 THEN 1 ELSE f[k - 1] * Base]
<1>1. step \in [(1..LenSize) \X Nat -> Nat] /\ LenSize \in Nat
  BY SizeAssumption
<1>2. PICK f \in [0..LenSize -> Nat] : Follows(f, LenSize, 1, step)
  <2>. HIDE DEF step
  <2>. QED
    BY <1>1, Recursion
<1>3. \A k \in 1..LenSize : k - 1 \in 0..LenSize /\ <<k, f[k - 1]>> \in (1..LenSize) \X Nat
  BY <1>1
<1>4. \A k \in 1..LenSize : f[k] = f[k - 1] * Base
  BY <1>2, <1>3 DEF Follows
<1>5. f = Rec(f)
  <2>1. \A k \in 0..LenSize : k = 0 \/ k \in 1..LenSize
    BY <1>1
  <2>2. \A k \in 0..LenSize : f[k] = Rec(f)[k]
    BY <1>2, <1>4, <2>1 DEF Follows
  <2>. QED
    BY <2>2
<1>6. Count = Rec(Count)
  BY <1>5 DEF Count
<1>7. Count[0] = 1 /\ \A k \in 1..LenSize : Count[k] = Count[k - 1] * Base
  <2>1. \A k \in 0..LenSize : Count[k] = Rec(Count)[k]
    BY <1>6
  <2>. QED
    BY <2>1, <1>1
<1>8. Alike(f, Count, LenSize)
  <2>1. \A k \in 1..LenSize : f[k - 1] = Count[k - 1] => f[k] = Count[k]
    BY <1>4, <1>7
  <2>2. f[0] = Count[0]
    BY <1>2, <1>7 DEF Follows
  <2>. QED
    BY <2>1, <2>2, <1>1, SameRecurrence
<1>9. \A k \in 0..LenSize : Rec(Count)[k] \in Nat
  <2>1. \A k \in 0..LenSize : Count[k] = Rec(Count)[k]
    BY <1>6
  <2>. HIDE DEF Rec
  <2>. QED
    BY <2>1, <1>8 DEF Alike
<1>. QED
  BY <1>6, <1>7, <1>9

\* Total, step by step: what the first i cells of the length count.
LEMMA TotalDef ==
  ASSUME NEW buf, \A i \in 1..LenSize : buf[i] \in Cells
  PROVE  \E v \in [0..LenSize -> Nat] :
           /\ v[0] = 0
           /\ \A i \in 1..LenSize : v[i] = v[i - 1] * Base + buf[i]
           /\ Total(buf) = v[LenSize]
<1>. DEFINE step == [p \in (1..LenSize) \X Nat |-> p[2] * Base + buf[p[1]]]
            Rec(f) == [i \in 0..LenSize |-> IF i = 0 THEN 0 ELSE f[i - 1] * Base + buf[i]]
            g == CHOOSE f : f = Rec(f)
<1>1. step \in [(1..LenSize) \X Nat -> Nat] /\ LenSize \in Nat
  BY SizeAssumption DEF Cells
<1>2. PICK f \in [0..LenSize -> Nat] : Follows(f, LenSize, 0, step)
  <2>. HIDE DEF step
  <2>. QED
    BY <1>1, Recursion
<1>3. \A i \in 1..LenSize : i - 1 \in 0..LenSize /\ <<i, f[i - 1]>> \in (1..LenSize) \X Nat
  BY <1>1
<1>4. \A i \in 1..LenSize : f[i] = f[i - 1] * Base + buf[i]
  BY <1>2, <1>3 DEF Follows
<1>5. f = Rec(f)
  <2>1. \A i \in 0..LenSize : i = 0 \/ i \in 1..LenSize
    BY <1>1
  <2>2. \A i \in 0..LenSize : f[i] = Rec(f)[i]
    BY <1>2, <1>4, <2>1 DEF Follows
  <2>. QED
    BY <2>2
<1>6. g = Rec(g) /\ Total(buf) = g[LenSize]
  BY <1>5 DEF Total
<1>7. g[0] = 0 /\ \A i \in 1..LenSize : g[i] = g[i - 1] * Base + buf[i]
  <2>. HIDE DEF g
  <2>1. \A i \in 0..LenSize : g[i] = Rec(g)[i]
    BY <1>6
  <2>. QED
    BY <2>1, <1>1
<1>8. Alike(f, g, LenSize)
  <2>. HIDE DEF g
  <2>1. \A i \in 1..LenSize : f[i - 1] = g[i - 1] => f[i] = g[i]
    BY <1>4, <1>7
  <2>2. f[0] = g[0]
    BY <1>2, <1>7 DEF Follows
  <2>. QED
    BY <2>1, <2>2, <1>1, SameRecurrence
<1>9. Total(buf) = f[LenSize]
  BY <1>1, <1>6, <1>8 DEF Alike
<1>. QED
  BY <1>2, <1>4, <1>9 DEF Follows

\* A length has its cells.
LEMMA HeaderType ==
  ASSUME NEW n \in Nat
  PROVE  MakeHeader(n) \in Seq(Cells) /\ Len(MakeHeader(n)) = LenSize
<1>1. LenSize \in Nat
  BY SizeAssumption
<1>2. \A i \in 1..LenSize : Shifted(n)[LenSize - i] \in Nat
  BY <1>1, ShiftedDef
<1>3. \A i \in 1..LenSize : Shifted(n)[LenSize - i] % Base \in Cells
  BY <1>2, CellBehind
<1>. QED
  BY <1>1, <1>3 DEF MakeHeader

\* What was read as a length is written with the cells it was read from.
LEMMA HeaderRead ==
  ASSUME NEW buf, \A i \in 1..LenSize : buf[i] \in Cells
  PROVE  Total(buf) \in Nat /\ \A i \in 1..LenSize : MakeHeader(Total(buf))[i] = buf[i]
<1>1. PICK v \in [0..LenSize -> Nat] :
        /\ v[0] = 0
        /\ \A i \in 1..LenSize : v[i] = v[i - 1] * Base + buf[i]
        /\ Total(buf) = v[LenSize]
  BY TotalDef
<1>2. LenSize \in Nat /\ Total(buf) \in Nat
  BY <1>1, SizeAssumption
<1>. DEFINE q == Shifted(Total(buf))
            back == [k \in 0..LenSize |-> v[LenSize - k]]
<1>3. q[0] = v[LenSize] /\ \A k \in 1..LenSize : q[k] = q[k - 1] \div Base
  BY <1>1, <1>2, ShiftedDef
<1>4. \A i \in 1..LenSize : v[i] \div Base = v[i - 1] /\ v[i] % Base = buf[i]
  <2>. TAKE i \in 1..LenSize
  <2>1. v[i - 1] \in Nat /\ buf[i] \in Cells
    BY <1>1, <1>2
  <2>. QED
    BY <2>1, <1>1, CellBehind
<1>5. Alike(q, back, LenSize)
  <2>1. \A k \in 1..LenSize : LenSize - (k - 1) \in 1..LenSize /\ LenSize - k = (LenSize - (k - 1)) - 1
    BY <1>2
  <2>2. \A k \in 1..LenSize : back[k] = back[k - 1] \div Base
    BY <2>1, <1>4, <1>2
  <2>3. q[0] = back[0]
    BY <1>2, <1>3
  <2>. HIDE DEF q, back
  <2>4. \A k \in 1..LenSize : q[k - 1] = back[k - 1] => q[k] = back[k]
    BY <2>2, <1>3
  <2>. QED
    BY <2>3, <2>4, <1>2, SameRecurrence
<1>6. ASSUME NEW i \in 1..LenSize PROVE MakeHeader(Total(buf))[i] = buf[i]
  <2>1. LenSize - i \in 0..LenSize /\ LenSize - (LenSize - i) = i
    BY <1>2
  <2>2. q[LenSize - i] = v[i]
    BY <2>1, <1>5 DEF Alike
  <2>3. MakeHeader(Total(buf))[i] = q[LenSize - i] % Base
    BY DEF MakeHeader
  <2>. QED
    BY <2>2, <2>3, <1>4
<1>. QED
  BY <1>2, <1>6

\* A length that its cells can count is read as it was written.
LEMMA HeaderWritten ==
  ASSUME NEW n \in Nat, n < Count[LenSize],
         NEW buf, \A i \in 1..LenSize : buf[i] = MakeHeader(n)[i]
  PROVE  Total(buf) = n
<1>. DEFINE q == Shifted(n)
            back == [i \in 0..LenSize |-> q[LenSize - i]]
<1>1. LenSize \in Nat /\ Base \in Nat
  BY SizeAssumption
<1>2. /\ q \in [0..LenSize -> Nat] /\ q[0] = n
      /\ \A k \in 1..LenSize : q[k] = q[k - 1] \div Base
  BY ShiftedDef
<1>3. q[LenSize] = 0
  <2>. DEFINE S == {k \in Nat : k <= LenSize => q[k] * Count[k] <= n}
  <2>1. 0 \in S
    BY <1>2, CountDef
  <2>2. ASSUME NEW k \in Nat, k \in S PROVE k + 1 \in S
    <3>. SUFFICES ASSUME k + 1 <= LenSize PROVE q[k + 1] * Count[k + 1] <= n
      OBVIOUS
    <3>1. k + 1 \in 1..LenSize /\ k \in 0..LenSize /\ (k + 1) - 1 = k /\ k <= LenSize
      BY <1>1
    <3>2. q[k + 1] = q[k] \div Base /\ Count[k + 1] = Count[k] * Base
      BY <1>2, <3>1, CountDef
    <3>3. q[k] \in Nat /\ Count[k] \in Nat /\ q[k] * Count[k] <= n
      BY <1>2, <2>2, <3>1, CountDef
    <3>4. (q[k] \div Base) * Base <= q[k] /\ q[k] \div Base \in Nat
      <4>1. ASSUME NEW b \in Nat \ {0}, NEW a \in Nat PROVE (a \div b) * b <= a /\ a \div b \in Nat
        OBVIOUS
      <4>. HIDE DEF q
      <4>. QED
        BY <4>1, <3>3, SizeAssumption
    <3>5. ASSUME NEW a \in Nat, NEW b \in Nat, NEW c \in Nat, a <= b PROVE a * c <= b * c
      BY <3>5
    <3>6. ((q[k] \div Base) * Base) * Count[k] <= q[k] * Count[k]
      <4>. HIDE DEF q
      <4>1. (q[k] \div Base) * Base \in Nat
        BY <3>4, <1>1
      <4>. QED
        BY <3>3, <3>4, <3>5, <4>1
    <3>7. ((q[k] \div Base) * Base) * Count[k] = (q[k] \div Base) * (Count[k] * Base)
      <4>1. \A a, b, c \in Nat : (a * b) * c = a * (c * b)
        OBVIOUS
      <4>. HIDE DEF q
      <4>. QED
        BY <3>3, <3>4, <1>1, <4>1
    <3>8. q[k] * Count[k] \in Nat /\ (q[k] \div Base) * (Count[k] * Base) \in Nat
      <4>. HIDE DEF q
      <4>. QED
        BY <3>3, <3>4, <1>1
    <3>. QED
      BY <3>2, <3>3, <3>6, <3>7, <3>8
  <2>3. q[LenSize] * Count[LenSize] <= n
    <3>1. LenSize \in S
      <4>. HIDE DEF S
      <4>. QED
        BY <1>1, <2>1, <2>2, Induction
    <3>. QED
      BY <3>1
  <2>4. ASSUME NEW a \in Nat, NEW c \in Nat, a * c < c PROVE a = 0
    BY <2>4
  <2>5. q[LenSize] \in Nat /\ Count[LenSize] \in Nat
    BY <1>1, <1>2, CountDef
  <2>6. q[LenSize] * Count[LenSize] < Count[LenSize]
    <3>. HIDE DEF q
    <3>1. q[LenSize] * Count[LenSize] \in Nat
      BY <2>5
    <3>. QED
      BY <2>3, <2>5, <3>1
  <2>. QED
    BY <2>4, <2>5, <2>6
<1>4. \A i \in 1..LenSize : buf[i] = q[LenSize - i] % Base
  BY DEF MakeHeader
<1>5. \A i \in 1..LenSize : buf[i] \in Cells
  <2>1. \A i \in 1..LenSize : q[LenSize - i] \in Nat
    BY <1>1, <1>2
  <2>. QED
    BY <2>1, <1>4, CellBehind
<1>6. PICK v \in [0..LenSize -> Nat] :
        /\ v[0] = 0
        /\ \A i \in 1..LenSize : v[i] = v[i - 1] * Base + buf[i]
        /\ Total(buf) = v[LenSize]
  BY <1>5, TotalDef
<1>7. ASSUME NEW i \in 1..LenSize PROVE back[i - 1] * Base + buf[i] = back[i]
  <2>1. /\ LenSize - i \in 0..LenSize /\ LenSize - (i - 1) \in 1..LenSize
        /\ (LenSize - (i - 1)) - 1 = LenSize - i /\ i - 1 \in 0..LenSize
    BY <1>1
  <2>2. q[LenSize - (i - 1)] = q[LenSize - i] \div Base /\ q[LenSize - i] \in Nat
    BY <1>2, <2>1
  <2>3. back[i - 1] = q[LenSize - i] \div Base /\ back[i] = q[LenSize - i]
    BY <2>1, <2>2
  <2>. HIDE DEF q, back
  <2>. QED
    BY <2>2, <2>3, <1>4, CellBehind
<1>8. Alike(v, back, LenSize)
  <2>1. v[0] = back[0]
    BY <1>1, <1>3, <1>6
  <2>. HIDE DEF back
  <2>2. \A i \in 1..LenSize : v[i - 1] = back[i - 1] => v[i] = back[i]
    BY <1>6, <1>7
  <2>. QED
    BY <2>1, <2>2, <1>1, SameRecurrence
<1>. QED
  BY <1>1, <1>2, <1>6, <1>8 DEF Alike

-----------------------------------------------------------------------------
(***************************************************************************)
(* Frames                                                                  *)
(***************************************************************************)
Bytes == Seq(Cells)

\* A body whose length its frame tells.
Whole == {b \in Bytes : Total(Frame(b)) = LenSize + Len(b)}

\* A frame is its length and its body.
LEMMA FrameCells ==
  ASSUME NEW b \in Bytes
  PROVE  /\ Frame(b) \in Bytes /\ Len(Frame(b)) = LenSize + Len(b)
         /\ \A i \in 1..LenSize : Frame(b)[i] = MakeHeader(LenSize + Len(b))[i]
         /\ \A i \in 1..Len(b) : Frame(b)[LenSize + i] = b[i]
<1>1. LenSize \in Nat /\ Len(b) \in Nat /\ LenSize + Len(b) \in Nat
  BY SizeAssumption DEF Bytes
<1>. DEFINE head == MakeHeader(LenSize + Len(b))
<1>2. head \in Bytes /\ Len(head) = LenSize
  BY <1>1, HeaderType DEF Bytes
<1>3. Frame(b) = head \o b
  BY DEF Frame
<1>. HIDE DEF head
<1>4. /\ head \o b \in Bytes /\ Len(head \o b) = LenSize + Len(b)
      /\ \A i \in 1..(LenSize + Len(b)) :
           (head \o b)[i] = IF i <= LenSize THEN head[i] ELSE b[i - LenSize]
  BY <1>2, ConcatProperties DEF Bytes
<1>5. \A i \in 1..LenSize : Frame(b)[i] = head[i]
  BY <1>1, <1>3, <1>4
<1>6. \A i \in 1..Len(b) : Frame(b)[LenSize + i] = b[i]
  <2>. TAKE i \in 1..Len(b)
  <2>1. LenSize + i \in 1..(LenSize + Len(b)) /\ ~(LenSize + i <= LenSize) /\ (LenSize + i) - LenSize = i
    BY <1>1
  <2>. QED
    BY <2>1, <1>3, <1>4
<1>. QED
  BY <1>3, <1>4, <1>5, <1>6 DEF head

\* Only the first LenSize cells count for the total length.
LEMMA SameTotal ==
  ASSUME NEW a, NEW b, \A i \in 1..LenSize : a[i] \in Cells /\ b[i] = a[i]
  PROVE  Total(b) = Total(a)
<1>1. PICK v \in [0..LenSize -> Nat] :
        /\ v[0] = 0
        /\ \A i \in 1..LenSize : v[i] = v[i - 1] * Base + a[i]
        /\ Total(a) = v[LenSize]
  BY TotalDef
<1>2. PICK w \in [0..LenSize -> Nat] :
        /\ w[0] = 0
        /\ \A i \in 1..LenSize : w[i] = w[i - 1] * Base + b[i]
        /\ Total(b) = w[LenSize]
  BY TotalDef
<1>3. LenSize \in Nat
  BY SizeAssumption
<1>4. \A i \in 1..LenSize : v[i - 1] = w[i - 1] => v[i] = w[i]
  BY <1>1, <1>2
<1>5. Alike(v, w, LenSize)
  BY <1>1, <1>2, <1>3, <1>4, SameRecurrence
<1>. QED
  BY <1>1, <1>2, <1>3, <1>5 DEF Alike

\* What follows it does not change the total length at the head of a buffer.
LEMMA TotalAhead ==
  ASSUME NEW buf \in Bytes, NEW rest \in Bytes, LenSize <= Len(buf)
  PROVE  Total(buf \o rest) = Total(buf)
<1>1. LenSize \in Nat /\ Len(buf) \in Nat
  BY SizeAssumption DEF Bytes
<1>2. \A i \in 1..LenSize : i \in 1..Len(buf)
  BY <1>1
<1>3. \A i \in 1..LenSize : buf[i] \in Cells /\ (buf \o rest)[i] = buf[i]
  BY <1>1, <1>2, ConcatProperties, ElementOfSeq DEF Bytes
<1>. QED
  BY <1>3, SameTotal

\* A body that its cells can count is whole.
LEMMA CountedIsWhole ==
  ASSUME NEW b \in Bytes, LenSize + Len(b) < Count[LenSize]
  PROVE  b \in Whole
<1>1. LenSize + Len(b) \in Nat
  BY SizeAssumption DEF Bytes
<1>. QED
  BY <1>1, FrameCells, HeaderWritten DEF Whole

\* A buffer with a whole frame at its head has the frame of the body in it there.
LEMMA FrameRead ==
  ASSUME NEW buf \in Bytes, LenSize <= Len(buf), Total(buf) \in LenSize..Len(buf)
  PROVE  /\ Body(buf) \in Whole /\ Len(Body(buf)) = Total(buf) - LenSize
         /\ Frame(Body(buf)) = SubSeq(buf, 1, Total(buf))
<1>. DEFINE n == Total(buf)
            b == Body(buf)
<1>1. /\ LenSize \in Nat /\ Len(buf) \in Nat /\ n \in Nat /\ LenSize <= n /\ n <= Len(buf)
      /\ \A i \in 1..Len(buf) : buf[i] \in Cells
      /\ \A i \in 1..LenSize : buf[i] \in Cells
  BY SizeAssumption, ElementOfSeq DEF Bytes
<1>2. \A i \in 1..LenSize : MakeHeader(n)[i] = buf[i]
  BY <1>1, HeaderRead
<1>. HIDE DEF n
<1>3. /\ b \in Bytes /\ Len(b) = n - LenSize
      /\ \A i \in 1..(n - LenSize) : b[i] = buf[LenSize + i]
  <2>1. \A i \in (LenSize + 1)..n : buf[i] \in Cells
    BY <1>1
  <2>2. b = SubSeq(buf, LenSize + 1, n)
    BY DEF Body, n
  <2>. HIDE DEF b
  <2>3. LenSize + 1 \in Int /\ n \in Int
    BY <1>1
  <2>4. /\ SubSeq(buf, LenSize + 1, n) \in Seq(Cells)
        /\ Len(SubSeq(buf, LenSize + 1, n)) = IF LenSize + 1 <= n THEN n - (LenSize + 1) + 1 ELSE 0
        /\ \A i \in 1..(n - (LenSize + 1) + 1) :
             SubSeq(buf, LenSize + 1, n)[i] = buf[(LenSize + 1) + i - 1]
    BY <2>1, <2>3, SubSeqProperties
  <2>5. n - (LenSize + 1) + 1 = n - LenSize
    BY <1>1
  <2>6. \A i \in 1..(n - LenSize) : (LenSize + 1) + i - 1 = LenSize + i
    BY <1>1
  <2>7. Len(b) = n - LenSize
    BY <1>1, <2>2, <2>4
  <2>. QED
    BY <2>2, <2>4, <2>5, <2>6, <2>7 DEF Bytes
<1>. HIDE DEF b
<1>4. LenSize + Len(b) = n
  BY <1>1, <1>3
<1>5. /\ Frame(b) \in Bytes /\ Len(Frame(b)) = n
      /\ \A i \in 1..LenSize : Frame(b)[i] = buf[i]
      /\ \A i \in 1..(n - LenSize) : Frame(b)[LenSize + i] = buf[LenSize + i]
  BY <1>2, <1>3, <1>4, FrameCells
<1>6. \A i \in 1..n : Frame(b)[i] = buf[i]
  <2>. TAKE i \in 1..n
  <2>1. i \in 1..LenSize \/ (i - LenSize \in 1..(n - LenSize) /\ LenSize + (i - LenSize) = i)
    BY <1>1
  <2>. QED
    BY <2>1, <1>5
<1>7. Frame(b) = SubSeq(buf, 1, n)
  <2>1. /\ SubSeq(buf, 1, n) \in Seq(Cells)
        /\ Len(SubSeq(buf, 1, n)) = IF 1 <= n THEN n - 1 + 1 ELSE 0
        /\ \A i \in 1..(n - 1 + 1) : SubSeq(buf, 1, n)[i] = buf[1 + i - 1]
    <3>1. \A i \in 1..n : buf[i] \in Cells
      BY <1>1
    <3>. QED
      BY <3>1, <1>1, SubSeqProperties
  <2>2. Len(SubSeq(buf, 1, n)) = n
    BY <1>1, <2>1
  <2>3. \A i \in 1..n : SubSeq(buf, 1, n)[i] = Frame(b)[i]
    BY <1>1, <1>6, <2>1
  <2>. QED
    BY <1>5, <2>1, <2>2, <2>3, SeqEqual DEF Bytes
<1>8. Total(Frame(b)) = n
  <2>1. \A i \in 1..LenSize : buf[i] \in Cells /\ Frame(b)[i] = buf[i]
    BY <1>1, <1>5
  <2>. QED
    BY <2>1, SameTotal DEF n
<1>. QED
  BY <1>3, <1>4, <1>7, <1>8 DEF b, n, Whole


-----------------------------------------------------------------------------
(***************************************************************************)
(* Frames in a row                                                         *)
(***************************************************************************)
\* Rows of cells put together are a row of cells.
LEMMA BytesConcat ==
  ASSUME NEW a \in Bytes, NEW b \in Bytes
  PROVE  a \o b \in Bytes
BY DEF Bytes

\* They can be put together in any order.
LEMMA BytesAssoc ==
  ASSUME NEW a \in Bytes, NEW b \in Bytes, NEW c \in Bytes
  PROVE  (a \o b) \o c = a \o (b \o c)
BY ConcatAssociative DEF Bytes

\* What is in front of both of two equal rows can be left out.
LEMMA BytesCancel ==
  ASSUME NEW a \in Bytes, NEW b \in Bytes, NEW c \in Bytes, a \o b = a \o c
  PROVE  b = c
<1>1. \A p, q, r \in Seq(Cells) : p \o q = p \o r => q = r
  BY ConcatSimplifications
<1>. QED
  BY <1>1 DEF Bytes

\* Encode, step by step: the frames of the first i bodies.
LEMMA EncodeDef ==
  ASSUME NEW s \in Seq(Bytes)
  PROVE  \E e \in [0..Len(s) -> Bytes] :
           /\ e[0] = <<>>
           /\ \A i \in 1..Len(s) : e[i] = e[i - 1] \o Frame(s[i])
           /\ Encode(s) = e[Len(s)]
<1>. DEFINE n == Len(s)
            step == [p \in (1..n) \X Bytes |-> p[2] \o Frame(s[p[1]])]
            Rec(f) == [i \in 0..n |-> IF i = 0 THEN <<>> ELSE f[i - 1] \o Frame(s[i])]
            g == CHOOSE f : f = Rec(f)
<1>1. n \in Nat /\ <<>> \in Bytes
  BY DEF Bytes
<1>2. step \in [(1..n) \X Bytes -> Bytes]
  <2>1. \A i \in 1..n : Frame(s[i]) \in Bytes
    BY ElementOfSeq, FrameCells
  <2>2. \A a, b \in Bytes : a \o b \in Bytes
    BY DEF Bytes
  <2>. QED
    BY <2>1, <2>2
<1>3. PICK f \in [0..n -> Bytes] : Follows(f, n, <<>>, step)
  <2>. HIDE DEF step, n
  <2>. QED
    BY <1>1, <1>2, Recursion
<1>4. \A i \in 1..n : i - 1 \in 0..n /\ <<i, f[i - 1]>> \in (1..n) \X Bytes
  BY <1>1
<1>5. \A i \in 1..n : f[i] = f[i - 1] \o Frame(s[i])
  BY <1>3, <1>4 DEF Follows
<1>6. f = Rec(f)
  <2>1. \A i \in 0..n : i = 0 \/ i \in 1..n
    BY <1>1
  <2>2. \A i \in 0..n : f[i] = Rec(f)[i]
    BY <1>3, <1>5, <2>1 DEF Follows
  <2>. QED
    BY <2>2
<1>7. g = Rec(g) /\ Encode(s) = g[n]
  BY <1>6 DEF Encode
<1>8. g[0] = <<>> /\ \A i \in 1..n : g[i] = g[i - 1] \o Frame(s[i])
  <2>. HIDE DEF g, n
  <2>1. \A i \in 0..n : g[i] = Rec(g)[i]
    BY <1>7
  <2>2. 0 \in 0..n /\ \A i \in 1..n : i \in 0..n /\ i # 0
    BY <1>1
  <2>. QED
    BY <2>1, <2>2
<1>9. Alike(f, g, n)
  <2>. HIDE DEF g, n
  <2>1. \A i \in 1..n : f[i - 1] = g[i - 1] => f[i] = g[i]
    BY <1>5, <1>8
  <2>2. f[0] = g[0]
    BY <1>3, <1>8 DEF Follows
  <2>. QED
    BY <2>1, <2>2, <1>1, SameRecurrence
<1>10. Encode(s) = f[n]
  BY <1>1, <1>7, <1>9 DEF Alike
<1>. QED
  BY <1>3, <1>5, <1>10 DEF Follows

\* No frames are no cells, and one more body is its frame behind the others.
LEMMA EncodeSteps ==
  /\ Encode(<<>>) = <<>>
  /\ \A s \in Seq(Bytes) : Encode(s) \in Bytes
  /\ \A s \in Seq(Bytes), b \in Bytes : Encode(Append(s, b)) = Encode(s) \o Frame(b)
<1>1. <<>> \in Seq(Bytes) /\ Len(<<>>) = 0
  OBVIOUS
<1>2. Encode(<<>>) = <<>>
  BY <1>1, EncodeDef
<1>3. ASSUME NEW s \in Seq(Bytes) PROVE Encode(s) \in Bytes
  <2>1. Len(s) \in Nat
    OBVIOUS
  <2>2. PICK e \in [0..Len(s) -> Bytes] : Encode(s) = e[Len(s)]
    BY EncodeDef
  <2>. QED
    BY <2>1, <2>2
<1>4. ASSUME NEW s \in Seq(Bytes), NEW b \in Bytes
      PROVE  Encode(Append(s, b)) = Encode(s) \o Frame(b)
  <2>. DEFINE t == Append(s, b)
              n == Len(s)
  <2>1. /\ t \in Seq(Bytes) /\ Len(t) = n + 1 /\ n \in Nat
        /\ \A i \in 1..n : t[i] = s[i]
        /\ t[n + 1] = b
    BY AppendProperties, LenProperties
  <2>. HIDE DEF t, n
  <2>2. PICK e \in [0..n -> Bytes] :
          /\ e[0] = <<>>
          /\ \A i \in 1..n : e[i] = e[i - 1] \o Frame(s[i])
          /\ Encode(s) = e[n]
    BY EncodeDef DEF n
  <2>3. PICK g \in [0..(n + 1) -> Bytes] :
          /\ g[0] = <<>>
          /\ \A i \in 1..(n + 1) : g[i] = g[i - 1] \o Frame(t[i])
          /\ Encode(t) = g[n + 1]
    BY <2>1, EncodeDef
  <2>4. ASSUME NEW i \in 1..n, e[i - 1] = g[i - 1] PROVE e[i] = g[i]
    <3>1. i \in 1..(n + 1) /\ t[i] = s[i]
      BY <2>1
    <3>2. e[i] = e[i - 1] \o Frame(s[i])
      BY <2>2
    <3>3. g[i] = g[i - 1] \o Frame(t[i])
      BY <2>3, <3>1
    <3>. QED
      BY <2>4, <3>1, <3>2, <3>3
  <2>5. Alike(e, g, n)
    BY <2>1, <2>2, <2>3, <2>4, SameRecurrence
  <2>6. e[n] = g[n] /\ n + 1 \in 1..(n + 1) /\ (n + 1) - 1 = n
    BY <2>1, <2>5 DEF Alike
  <2>7. g[n + 1] = g[n] \o Frame(b)
    BY <2>1, <2>3, <2>6
  <2>. QED
    BY <2>2, <2>3, <2>6, <2>7 DEF t
<1>. QED
  BY <1>2, <1>3, <1>4

\* One frame is encoded as such.
LEMMA EncodeOne ==
  ASSUME NEW b \in Bytes
  PROVE  Encode(<<b>>) = Frame(b)
<1>1. <<>> \in Seq(Bytes) /\ Append(<<>>, b) = <<b>>
  OBVIOUS
<1>2. Encode(<<b>>) = <<>> \o Frame(b)
  BY <1>1, EncodeSteps
<1>. QED
  BY <1>2, FrameCells, ConcatEmptySeq DEF Bytes

\* The frames of two rows of bodies are the frames of one behind those of the other.
LEMMA EncodeConcat ==
  ASSUME NEW s \in Seq(Bytes), NEW t \in Seq(Bytes)
  PROVE  Encode(s \o t) = Encode(s) \o Encode(t)
<1>. DEFINE S == {n \in Nat : \A u \in Seq(Bytes) :
                    Len(u) = n => Encode(s \o u) = Encode(s) \o Encode(u)}
<1>1. 0 \in S
  <2>1. \A u \in Seq(Bytes) : Len(u) = 0 => u = <<>>
    BY EmptySeq
  <2>2. s \o <<>> = s /\ Encode(s) \o <<>> = Encode(s)
    BY EncodeSteps, ConcatEmptySeq DEF Bytes
  <2>. QED
    BY <2>1, <2>2, EncodeSteps
<1>2. ASSUME NEW n \in Nat, n \in S PROVE n + 1 \in S
  <2>. SUFFICES ASSUME NEW u \in Seq(Bytes), Len(u) = n + 1
                PROVE  Encode(s \o u) = Encode(s) \o Encode(u)
    OBVIOUS
  <2>1. u # <<>>
    BY EmptySeq
  <2>2. PICK v \in Seq(Bytes), b \in Bytes : u = Append(v, b)
    BY <2>1, SequenceEmptyOrAppend
  <2>3. Len(v) = n
    BY <2>2, AppendProperties, LenProperties
  <2>4. Encode(s \o v) = Encode(s) \o Encode(v)
    BY <1>2, <2>3
  <2>5. s \o u = Append(s \o v, b) /\ s \o v \in Seq(Bytes)
    <3>1. s \o v \in Seq(Bytes) /\ <<b>> \in Seq(Bytes)
      OBVIOUS
    <3>2. u = v \o <<b>> /\ Append(s \o v, b) = (s \o v) \o <<b>>
      BY <2>2, <3>1, AppendIsConcat
    <3>. QED
      BY <3>1, <3>2, ConcatAssociative
  <2>6. /\ Encode(s \o u) = (Encode(s) \o Encode(v)) \o Frame(b)
        /\ Encode(u) = Encode(v) \o Frame(b)
    BY <2>2, <2>4, <2>5, EncodeSteps
  <2>7. Encode(s) \in Seq(Cells) /\ Encode(v) \in Seq(Cells) /\ Frame(b) \in Seq(Cells)
    BY EncodeSteps, FrameCells DEF Bytes
  <2>8. (Encode(s) \o Encode(v)) \o Frame(b) = Encode(s) \o (Encode(v) \o Frame(b))
    BY <2>7, ConcatAssociative
  <2>. QED
    BY <2>6, <2>8
<1>3. \A n \in Nat : n \in S
  <2>. HIDE DEF S
  <2>. QED
    BY <1>1, <1>2, Induction
<1>. QED
  BY <1>3, LenProperties

-----------------------------------------------------------------------------
(***************************************************************************)
(* The frames at the head of a buffer                                      *)
(***************************************************************************)
\* What follows the first i cells.
Behind(all, i) == SubSeq(all, i + 1, Len(all))

\* How Split goes on from the cell behind the first i, given f for the cells
\* behind them.
Onward(all, f, i) ==
  LET buf == Behind(all, i) IN
  IF Len(buf) < LenSize THEN [ok |-> TRUE, bodies |-> <<>>, rest |-> buf]
  ELSE IF BadTotal(buf) THEN [ok |-> FALSE, bodies |-> <<>>, rest |-> buf]
  ELSE IF Len(buf) < Total(buf) THEN [ok |-> TRUE, bodies |-> <<>>, rest |-> buf]
  ELSE [f[i + Total(buf)] EXCEPT !.bodies = <<Body(buf)>> \o @]

\* A part of a row of cells and what is in front of it and behind it.
LEMMA BehindCells ==
  ASSUME NEW all \in Bytes, NEW i \in 0..Len(all)
  PROVE  /\ Behind(all, i) \in Bytes /\ Len(Behind(all, i)) = Len(all) - i
         /\ all = SubSeq(all, 1, i) \o Behind(all, i)
         /\ \A k \in 0..(Len(all) - i) :
              Behind(Behind(all, i), k) = Behind(all, i + k)
<1>. DEFINE n == Len(all)
<1>1. n \in Nat /\ i \in 0..n /\ n - i + 1 = n - (i + 1) + 1 + 1
  BY LenProperties DEF Bytes
<1>2. ASSUME NEW j \in 0..n
      PROVE  /\ Behind(all, j) \in Bytes /\ Len(Behind(all, j)) = n - j
             /\ \A k \in 1..(n - j) : Behind(all, j)[k] = all[j + k]
  <2>1. /\ j + 1 \in Int /\ n \in Int
        /\ \A k \in (j + 1)..n : all[k] \in Cells
    BY <1>1, ElementOfSeq DEF Bytes
  <2>2. /\ SubSeq(all, j + 1, n) \in Seq(Cells)
        /\ Len(SubSeq(all, j + 1, n)) = IF j + 1 <= n THEN n - (j + 1) + 1 ELSE 0
        /\ \A k \in 1..(n - (j + 1) + 1) : SubSeq(all, j + 1, n)[k] = all[(j + 1) + k - 1]
    BY <2>1, SubSeqProperties
  <2>3. /\ (IF j + 1 <= n THEN n - (j + 1) + 1 ELSE 0) = n - j
        /\ n - (j + 1) + 1 = n - j
        /\ \A k \in 1..(n - j) : (j + 1) + k - 1 = j + k
    BY <1>1
  <2>. HIDE DEF n
  <2>4. \A k \in 1..(n - j) : SubSeq(all, j + 1, n)[k] = all[j + k]
    BY <2>2, <2>3
  <2>. QED
    BY <2>2, <2>3, <2>4 DEF Bytes, Behind, n
<1>3. all = SubSeq(all, 1, i) \o Behind(all, i)
  <2>1. 1 \in 1..(n + 1) /\ i \in (1 - 1)..n /\ n \in i..n
    BY <1>1
  <2>2. SubSeq(all, 1, i) \o SubSeq(all, i + 1, n) = SubSeq(all, 1, n)
    BY <2>1, ConcatAdjacentSubSeq DEF Bytes
  <2>. QED
    BY <2>2, SubSeqFull DEF Bytes, Behind
<1>4. ASSUME NEW k \in 0..(n - i)
      PROVE  Behind(Behind(all, i), k) = Behind(all, i + k)
  <2>. DEFINE b == Behind(all, i)
  <2>1. /\ b \in Bytes /\ Len(b) = n - i
        /\ \A j \in 1..(n - i) : b[j] = all[i + j]
    BY <1>1, <1>2
  <2>2. i + k \in 0..n /\ n - (i + k) = (n - i) - k
    BY <1>1
  <2>. DEFINE c == Behind(all, i + k)
  <2>3. /\ c \in Bytes /\ Len(c) = (n - i) - k
        /\ \A j \in 1..((n - i) - k) : c[j] = all[(i + k) + j]
    BY <1>2, <2>2
  <2>4. \A j \in (k + 1)..(n - i) : b[j] \in Cells
    BY <1>1, <2>1, ElementOfSeq DEF Bytes
  <2>. DEFINE d == SubSeq(b, k + 1, n - i)
  <2>5. /\ d \in Seq(Cells)
        /\ Len(d) = IF k + 1 <= n - i THEN (n - i) - (k + 1) + 1 ELSE 0
        /\ \A j \in 1..((n - i) - (k + 1) + 1) : d[j] = b[(k + 1) + j - 1]
    <3>1. k + 1 \in Int /\ n - i \in Int
      BY <1>1
    <3>. HIDE DEF b, n
    <3>. QED
      BY <2>4, <3>1, SubSeqProperties
  <2>6. /\ (IF k + 1 <= n - i THEN (n - i) - (k + 1) + 1 ELSE 0) = (n - i) - k
        /\ (n - i) - (k + 1) + 1 = (n - i) - k
        /\ \A j \in 1..((n - i) - k) :
             /\ (k + 1) + j - 1 = k + j /\ k + j \in 1..(n - i)
             /\ i + (k + j) = (i + k) + j
    BY <1>1
  <2>. HIDE DEF b, c, d, n
  <2>7. ASSUME NEW j \in 1..((n - i) - k) PROVE d[j] = c[j]
    <3>1. d[j] = b[(k + 1) + j - 1] /\ c[j] = all[(i + k) + j]
      BY <2>3, <2>5, <2>6
    <3>2. b[k + j] = all[i + (k + j)]
      BY <2>1, <2>6
    <3>. QED
      BY <2>6, <3>1, <3>2
  <2>8. Len(d) = Len(c) /\ d \in Seq(Cells) /\ c \in Seq(Cells)
    BY <2>3, <2>5, <2>6 DEF Bytes
  <2>9. d = c
    BY <2>3, <2>7, <2>8, SeqEqual
  <2>. QED
    BY <2>1, <2>9 DEF Behind, b, c, d
<1>. QED
  BY <1>1, <1>2, <1>3, <1>4

\* Onward asks f only about cells further on.
LEMMA OnwardOnly ==
  ASSUME NEW all \in Bytes, NEW i \in 0..Len(all), NEW f, NEW g,
         \A j \in (i + 1)..Len(all) : f[j] = g[j]
  PROVE  Onward(all, f, i) = Onward(all, g, i)
<1>. DEFINE buf == Behind(all, i)
<1>1. /\ buf \in Bytes /\ Len(buf) = Len(all) - i
      /\ Len(all) \in Nat
  BY BehindCells, LenProperties DEF Bytes
<1>. HIDE DEF buf
<1>2. CASE Len(buf) < LenSize \/ BadTotal(buf) \/ Len(buf) < Total(buf)
  BY <1>2 DEF Onward, buf
<1>3. CASE ~(Len(buf) < LenSize \/ BadTotal(buf) \/ Len(buf) < Total(buf))
  <2>1. LenSize <= Len(buf)
    BY <1>1, <1>3, SizeAssumption
  <2>2. \A k \in 1..LenSize : buf[k] \in Cells
    <3>1. \A k \in 1..LenSize : k \in 1..Len(buf)
      BY <1>1, <2>1, SizeAssumption
    <3>. QED
      BY <1>1, <3>1, ElementOfSeq DEF Bytes
  <2>3. Total(buf) \in Nat
    BY <2>2, HeaderRead
  <2>4. Total(buf) >= 1 /\ Total(buf) <= Len(buf)
    BY <1>1, <1>3, <2>3, SizeAssumption DEF BadTotal
  <2>5. i + Total(buf) \in (i + 1)..Len(all)
    BY <1>1, <2>3, <2>4
  <2>6. f[i + Total(buf)] = g[i + Total(buf)]
    BY <2>5
  <2>. QED
    BY <1>3, <2>6 DEF Onward, buf
<1>. QED
  BY <1>2, <1>3

\* Split is defined: there is a function that goes on as it says.
LEMMA SplitSteps ==
  ASSUME NEW all \in Bytes
  PROVE  \E f : Split(all) = f[0] /\ \A i \in 0..Len(all) : f[i] = Onward(all, f, i)
<1>. DEFINE n == Len(all)
            From(f, k) == f = [i \in (n - k)..n |-> Onward(all, f, i)]
            S == {k \in Nat : k <= n => \E f : From(f, k)}
            Rec(f) == [i \in 0..n |-> Onward(all, f, i)]
            g == CHOOSE f : f = Rec(f)
<1>1. n \in Nat
  BY LenProperties DEF Bytes
<1>2. 0 \in S
  <2>. DEFINE f == [i \in n..n |-> Onward(all, <<>>, i)]
  <2>1. (n - 0)..n = n..n /\ \A i \in n..n : i = n /\ i \in 0..n
    BY <1>1
  <2>2. \A j \in (n + 1)..n : f[j] = <<>>[j]
    BY <1>1
  <2>3. Onward(all, f, n) = Onward(all, <<>>, n)
    <3>1. n \in 0..n
      BY <1>1
    <3>. HIDE DEF f
    <3>. QED
      BY <2>2, <3>1, OnwardOnly
  <2>4. From(f, 0)
    <3>1. \A i \in n..n : f[i] = Onward(all, f, i)
      BY <2>1, <2>3
    <3>. QED
      BY <2>1, <3>1
  <2>. QED
    BY <2>4
<1>3. ASSUME NEW k \in Nat, k \in S PROVE k + 1 \in S
  <2>. SUFFICES ASSUME k + 1 <= n PROVE \E f : From(f, k + 1)
    OBVIOUS
  <2>1. PICK f : From(f, k)
    BY <1>1, <1>3
  <2>. DEFINE h == n - (k + 1)
              e == [i \in h..n |-> IF i = h THEN Onward(all, f, h) ELSE f[i]]
  <2>2. h \in Nat /\ n - k = h + 1 /\ h \in h..n /\ h \in 0..n
    BY <1>1
  <2>. HIDE DEF h
  <2>3. \A j \in (h + 1)..n : j \in h..n /\ j # h /\ j \in 0..n
    BY <1>1, <2>2
  <2>4. \A j \in (h + 1)..n : e[j] = f[j]
    BY <2>3
  <2>5. ASSUME NEW i \in h..n PROVE Onward(all, e, i) = Onward(all, f, i)
    <3>1. i \in 0..n /\ \A j \in (i + 1)..n : j \in (h + 1)..n
      BY <1>1, <2>2
    <3>2. \A j \in (i + 1)..n : e[j] = f[j]
      BY <2>4, <3>1
    <3>. HIDE DEF e
    <3>. QED
      BY <3>1, <3>2, OnwardOnly
  <2>6. ASSUME NEW i \in h..n PROVE e[i] = Onward(all, e, i)
    <3>1. CASE i = h
      BY <2>2, <2>5, <3>1
    <3>2. CASE i # h
      <4>1. i \in (n - k)..n
        BY <1>1, <2>2, <3>2
      <4>2. f[i] = Onward(all, f, i) /\ e[i] = f[i]
        BY <2>1, <3>2, <4>1
      <4>. QED
        BY <2>5, <4>2
    <3>. QED
      BY <3>1, <3>2
  <2>7. e = [i \in h..n |-> Onward(all, e, i)]
    BY <2>6
  <2>. HIDE DEF e
  <2>. QED
    BY <2>7 DEF h
<1>4. PICK f : From(f, n)
  <2>1. n \in S
    <3>. HIDE DEF S
    <3>. QED
      BY <1>1, <1>2, <1>3, Induction
  <2>. QED
    BY <1>1, <2>1
<1>5. f = Rec(f)
  <2>1. (n - n)..n = 0..n
    BY <1>1
  <2>. QED
    BY <1>4, <2>1
<1>6. g = Rec(g) /\ Split(all) = g[0]
  BY <1>5 DEF Split, Onward, Behind
<1>. QED
  <2>. HIDE DEF g
  <2>1. \A i \in 0..n : g[i] = Rec(g)[i]
    BY <1>6
  <2>. QED
    BY <1>6, <2>1

\* There is no whole frame at the head of buf.
Partial(buf) == Len(buf) >= LenSize => Len(buf) < Total(buf)

\* What Split is to return of buf: the frames at its head, all of them, and
\* what is left.
Parted(r, buf) ==
  /\ r \in [ok : BOOLEAN, bodies : Seq(Whole), rest : Bytes]
  /\ Encode(r.bodies) \o r.rest = buf
  /\ r.ok => Partial(r.rest)
  /\ ~r.ok => LenSize <= Len(r.rest) /\ BadTotal(r.rest)

\* Whole bodies are bodies.
LEMMA WholeBodies ==
  Whole \subseteq Bytes /\ \A s \in Seq(Whole) : s \in Seq(Bytes)
BY SeqMonotonic DEF Whole

\* A buffer is parted, if there is no whole frame in it or what is behind the
\* first one is.
LEMMA PartedFirst ==
  ASSUME NEW buf \in Bytes, LenSize <= Len(buf), Total(buf) \in LenSize..Len(buf),
         NEW r, Parted(r, Behind(buf, Total(buf)))
  PROVE  Parted([r EXCEPT !.bodies = <<Body(buf)>> \o @], buf)
<1>. DEFINE b == Body(buf)
            q == [r EXCEPT !.bodies = <<b>> \o @]
<1>1. /\ r \in [ok : BOOLEAN, bodies : Seq(Whole), rest : Bytes]
      /\ Encode(r.bodies) \o r.rest = Behind(buf, Total(buf))
      /\ r.ok => Partial(r.rest)
      /\ ~r.ok => LenSize <= Len(r.rest) /\ BadTotal(r.rest)
  BY DEF Parted
<1>2. b \in Whole /\ Frame(b) = SubSeq(buf, 1, Total(buf))
  BY FrameRead
<1>3. Total(buf) \in 0..Len(buf)
  BY SizeAssumption
<1>4. buf = Frame(b) \o Behind(buf, Total(buf))
  BY <1>2, <1>3, BehindCells
<1>. HIDE DEF b
<1>. HIDE DEF q
<1>5. /\ q.ok = r.ok /\ q.bodies = <<b>> \o r.bodies /\ q.rest = r.rest
      /\ q = [ok |-> r.ok, bodies |-> <<b>> \o r.bodies, rest |-> r.rest]
  <2>1. DOMAIN r = {"ok", "bodies", "rest"} /\ r = [x \in DOMAIN r |-> r[x]]
    BY <1>1
  <2>2. q = [r EXCEPT !.bodies = <<b>> \o r.bodies]
    BY DEF q
  <2>. QED
    BY <2>1, <2>2
<1>6. <<b>> \in Seq(Whole) /\ <<b>> \o r.bodies \in Seq(Whole)
  <2>1. <<b>> \in Seq(Whole) /\ r.bodies \in Seq(Whole)
    BY <1>1, <1>2
  <2>. QED
    BY <2>1, ConcatProperties
<1>7. q \in [ok : BOOLEAN, bodies : Seq(Whole), rest : Bytes]
  BY <1>1, <1>5, <1>6
<1>8. Encode(q.bodies) \o q.rest = buf
  <2>1. b \in Bytes /\ <<b>> \in Seq(Bytes) /\ r.bodies \in Seq(Bytes)
    BY <1>1, <1>2, <1>6, WholeBodies
  <2>2. Encode(<<b>> \o r.bodies) = Frame(b) \o Encode(r.bodies)
    BY <2>1, EncodeOne, EncodeConcat
  <2>3. Frame(b) \in Bytes /\ Encode(r.bodies) \in Bytes /\ r.rest \in Bytes
    BY <1>1, <2>1, FrameCells, EncodeSteps
  <2>4. (Frame(b) \o Encode(r.bodies)) \o r.rest = Frame(b) \o (Encode(r.bodies) \o r.rest)
    <3>. DEFINE front == Encode(r.bodies)
                left == r.rest
                x == Frame(b)
    <3>. HIDE DEF front, left, x
    <3>1. x \in Bytes /\ front \in Bytes /\ left \in Bytes
      BY <2>3 DEF front, left, x
    <3>2. (x \o front) \o left = x \o (front \o left)
      BY <3>1, BytesAssoc
    <3>. QED
      BY <3>2 DEF front, left, x
  <2>. QED
    BY <1>1, <1>4, <1>5, <2>2, <2>4
<1>9. Parted(q, buf)
  BY <1>1, <1>5, <1>7, <1>8 DEF Parted
<1>. QED
  BY <1>9 DEF b, q

\* A row of cells is no frames and itself.
LEMMA PartedLast ==
  ASSUME NEW buf \in Bytes, NEW ok \in BOOLEAN,
         ok => Partial(buf), ~ok => LenSize <= Len(buf) /\ BadTotal(buf)
  PROVE  Parted([ok |-> ok, bodies |-> <<>>, rest |-> buf], buf)
<1>1. <<>> \in Seq(Whole) /\ Encode(<<>>) \o buf = buf
  BY EncodeSteps, ConcatEmptySeq DEF Bytes
<1>. QED
  BY <1>1 DEF Parted

\* Split returns what it is to return.
LEMMA SplitDef ==
  ASSUME NEW all \in Bytes
  PROVE  Parted(Split(all), all)
<1>. DEFINE n == Len(all)
<1>1. PICK f : Split(all) = f[0] /\ \A i \in 0..n : f[i] = Onward(all, f, i)
  BY SplitSteps
<1>. DEFINE S == {k \in Nat : k <= n => \A i \in (n - k)..n : Parted(f[i], Behind(all, i))}
<1>2. n \in Nat
  BY LenProperties DEF Bytes
<1>3. ASSUME NEW i \in 0..n, \A j \in (i + 1)..n : Parted(f[j], Behind(all, j))
      PROVE  Parted(f[i], Behind(all, i))
  <2>. DEFINE buf == Behind(all, i)
  <2>1. buf \in Bytes /\ Len(buf) = n - i
    BY BehindCells
  <2>2. f[i] = Onward(all, f, i)
    BY <1>1
  <2>. HIDE DEF buf
  <2>3. CASE Len(buf) < LenSize
    <3>1. f[i] = [ok |-> TRUE, bodies |-> <<>>, rest |-> buf]
      BY <2>2, <2>3 DEF Onward, buf
    <3>2. Partial(buf)
      BY <1>2, <2>1, <2>3, SizeAssumption DEF Partial
    <3>. QED
      BY <2>1, <3>1, <3>2, PartedLast DEF buf
  <2>4. CASE Len(buf) >= LenSize /\ BadTotal(buf)
    <3>1. f[i] = [ok |-> FALSE, bodies |-> <<>>, rest |-> buf] /\ LenSize <= Len(buf)
      BY <1>2, <2>1, <2>2, <2>4, SizeAssumption DEF Onward, buf
    <3>. QED
      BY <2>1, <2>4, <3>1, PartedLast DEF buf
  <2>5. CASE Len(buf) >= LenSize /\ ~BadTotal(buf)
    <3>1. LenSize <= Len(buf) /\ ~(Len(buf) < LenSize)
      BY <1>2, <2>1, <2>5, SizeAssumption
    <3>2. \A k \in 1..LenSize : buf[k] \in Cells
      <4>1. \A k \in 1..LenSize : k \in 1..Len(buf)
        BY <1>2, <2>1, <3>1, SizeAssumption
      <4>. QED
        BY <2>1, <4>1, ElementOfSeq DEF Bytes
    <3>3. Total(buf) \in Nat
      BY <3>2, HeaderRead
    <3>4. CASE Len(buf) < Total(buf)
      <4>1. f[i] = [ok |-> TRUE, bodies |-> <<>>, rest |-> buf] /\ Partial(buf)
        BY <2>2, <2>5, <3>1, <3>4 DEF Onward, Partial, buf
      <4>. QED
        BY <2>1, <4>1, PartedLast DEF buf
    <3>5. CASE ~(Len(buf) < Total(buf))
      <4>. DEFINE t == Total(buf)
      <4>1. f[i] = [f[i + t] EXCEPT !.bodies = <<Body(buf)>> \o @]
        BY <2>2, <2>5, <3>1, <3>5 DEF Onward, buf
      <4>2. t \in LenSize..Len(buf) /\ t >= 1 /\ t \in 0..(n - i) /\ i + t \in (i + 1)..n
        BY <1>2, <2>1, <2>5, <3>3, <3>5, SizeAssumption DEF BadTotal
      <4>3. Parted(f[i + t], Behind(all, i + t))
        BY <1>3, <4>2
      <4>4. Behind(all, i + t) = Behind(buf, t)
        BY <4>2, BehindCells DEF buf
      <4>5. Parted([f[i + t] EXCEPT !.bodies = <<Body(buf)>> \o @], buf)
        BY <2>1, <3>1, <4>2, <4>3, <4>4, PartedFirst
      <4>. QED
        BY <4>1, <4>5 DEF buf
    <3>. QED
      BY <3>4, <3>5
  <2>. QED
    BY <1>2, <2>1, <2>3, <2>4, <2>5, SizeAssumption
<1>4. 0 \in S
  <2>1. \A i \in (n - 0)..n : i \in 0..n /\ \A j \in (i + 1)..n : FALSE
    BY <1>2
  <2>. QED
    BY <1>3, <2>1
<1>5. ASSUME NEW k \in Nat, k \in S PROVE k + 1 \in S
  <2>. SUFFICES ASSUME k + 1 <= n, NEW i \in (n - (k + 1))..n
                PROVE  Parted(f[i], Behind(all, i))
    OBVIOUS
  <2>1. k <= n /\ i \in 0..n /\ \A j \in (i + 1)..n : j \in (n - k)..n
    BY <1>2
  <2>2. \A j \in (n - k)..n : Parted(f[j], Behind(all, j))
    BY <1>5, <2>1
  <2>. QED
    BY <1>3, <2>1, <2>2
<1>6. Parted(f[0], Behind(all, 0))
  <2>1. n \in S
    <3>. HIDE DEF S
    <3>. QED
      BY <1>2, <1>4, <1>5, Induction
  <2>2. 0 \in (n - n)..n
    BY <1>2
  <2>. QED
    BY <1>2, <2>1, <2>2
<1>7. Behind(all, 0) = all
  BY SubSeqFull DEF Behind, Bytes
<1>. QED
  BY <1>1, <1>6, <1>7

-----------------------------------------------------------------------------
(***************************************************************************)
(* Frames that begin alike                                                 *)
(***************************************************************************)
\* A sequence begins with another one, if something put behind that makes it.
LEMMA Begins ==
  ASSUME NEW S, NEW s \in Seq(S), NEW t \in Seq(S)
  PROVE  IsPrefix(s, s \o t)
<1>1. /\ s \o t \in Seq(S) /\ Len(s \o t) = Len(s) + Len(t)
      /\ \A i \in 1..(Len(s) + Len(t)) :
           (s \o t)[i] = IF i <= Len(s) THEN s[i] ELSE t[i - Len(s)]
      /\ Len(s) \in Nat /\ Len(t) \in Nat
  BY ConcatProperties, LenProperties
<1>. DEFINE u == s \o t
            v == SubSeq(u, 1, Len(s))
<1>2. \A i \in 1..Len(s) : i \in 1..(Len(s) + Len(t)) /\ u[i] = s[i] /\ u[i] \in S
  BY <1>1, ElementOfSeq
<1>3. Len(s) <= Len(u)
  BY <1>1
<1>4. v \in Seq(S) /\ Len(v) = Len(s) /\ \A i \in 1..Len(s) : v[i] = u[i]
  <2>1. 1 \in Int /\ Len(s) \in Int
    BY <1>1
  <2>. HIDE DEF u
  <2>2. /\ v \in Seq(S) /\ Len(v) = IF 1 <= Len(s) THEN Len(s) - 1 + 1 ELSE 0
        /\ \A i \in 1..(Len(s) - 1 + 1) : v[i] = u[1 + i - 1]
    BY <1>2, <2>1, SubSeqProperties
  <2>. HIDE DEF v
  <2>. QED
    BY <1>1, <2>2
<1>5. v = s
  <2>. HIDE DEF u, v
  <2>. QED
    BY <1>2, <1>4, SeqEqual
<1>. QED
  BY <1>3, <1>5, SubSeqFull DEF IsPrefix

\* A sequence is its first element and the rest of it.
LEMMA FirstAndRest ==
  ASSUME NEW S, NEW s \in Seq(S), s # <<>>
  PROVE  \E h \in S, t \in Seq(S) : s = <<h>> \o t
<1>1. Len(s) \in Nat \ {0}
  BY EmptySeq
<1>2. 1 \in 1..Len(s) /\ Len(s) \in 1..Len(s)
  BY <1>1
<1>3. SubSeq(s, 1, Len(s)) = <<s[1]>> \o SubSeq(s, 1 + 1, Len(s))
  BY <1>2, SubSeqRecursiveFirst
<1>4. s[1] \in S
  BY <1>2, ElementOfSeq
<1>5. SubSeq(s, 1 + 1, Len(s)) \in Seq(S)
  <2>1. \A i \in (1 + 1)..Len(s) : s[i] \in S
    BY <1>1, ElementOfSeq
  <2>2. 1 + 1 \in Int /\ Len(s) \in Int
    BY <1>1
  <2>. QED
    BY <2>1, <2>2, SubSeqProperties
<1>. QED
  BY <1>3, <1>4, <1>5, SubSeqFull

\* The length at the head of a buffer that begins with a frame is the frame's.
LEMMA FrameTotal ==
  ASSUME NEW b \in Whole, NEW rest \in Bytes
  PROVE  /\ Total(Frame(b) \o rest) = LenSize + Len(b)
         /\ LenSize + Len(b) <= Len(Frame(b) \o rest)
<1>1. b \in Bytes /\ Total(Frame(b)) = LenSize + Len(b)
  BY DEF Whole
<1>2. Frame(b) \in Bytes /\ Len(Frame(b)) = LenSize + Len(b) /\ Len(b) \in Nat
  BY <1>1, FrameCells DEF Bytes
<1>3. LenSize <= Len(Frame(b))
  BY <1>2, SizeAssumption
<1>4. Total(Frame(b) \o rest) = Total(Frame(b))
  BY <1>2, <1>3, TotalAhead
<1>5. Len(Frame(b) \o rest) = Len(Frame(b)) + Len(rest) /\ Len(rest) \in Nat
  BY <1>2 DEF Bytes
<1>. QED
  BY <1>1, <1>2, <1>4, <1>5, SizeAssumption

\* Of frames of the same cells the first ones are of the same body.
LEMMA SameFrame ==
  ASSUME NEW b \in Whole, NEW c \in Whole, NEW r \in Bytes, NEW q \in Bytes,
         Frame(b) \o r = Frame(c) \o q
  PROVE  b = c /\ r = q
<1>1. b \in Bytes /\ c \in Bytes
  BY DEF Whole
<1>2. /\ Frame(b) \in Bytes /\ Len(Frame(b)) = LenSize + Len(b)
      /\ \A i \in 1..Len(b) : Frame(b)[LenSize + i] = b[i]
      /\ Frame(c) \in Bytes /\ Len(Frame(c)) = LenSize + Len(c)
      /\ \A i \in 1..Len(c) : Frame(c)[LenSize + i] = c[i]
  BY <1>1, FrameCells
<1>3. Len(b) = Len(c) /\ Len(b) \in Nat
  <2>1. LenSize + Len(b) = LenSize + Len(c)
    BY FrameTotal
  <2>2. Len(b) \in Nat /\ Len(c) \in Nat
    BY <1>1 DEF Bytes
  <2>. QED
    BY <2>1, <2>2, SizeAssumption
<1>. DEFINE f == Frame(b)
            g == Frame(c)
            n == LenSize + Len(b)
<1>4. /\ \A i \in 1..n : (f \o r)[i] = f[i] /\ (g \o q)[i] = g[i]
      /\ n \in Nat /\ f \in Bytes /\ g \in Bytes /\ Len(f) = n /\ Len(g) = n
  <2>1. n \in Nat /\ f \in Bytes /\ g \in Bytes /\ Len(f) = n /\ Len(g) = n
    BY <1>2, <1>3, SizeAssumption
  <2>. HIDE DEF f, g, n
  <2>2. Len(r) \in Nat /\ Len(q) \in Nat
    BY DEF Bytes
  <2>3. /\ \A i \in 1..(Len(f) + Len(r)) :
             (f \o r)[i] = IF i <= Len(f) THEN f[i] ELSE r[i - Len(f)]
        /\ \A i \in 1..(Len(g) + Len(q)) :
             (g \o q)[i] = IF i <= Len(g) THEN g[i] ELSE q[i - Len(g)]
    BY <2>1, ConcatProperties DEF Bytes
  <2>. QED
    BY <2>1, <2>2, <2>3
<1>5. f = g
  <2>1. f \o r = g \o q
    OBVIOUS
  <2>. HIDE DEF f, g, n
  <2>. QED
    BY <1>4, <2>1, SeqEqual DEF Bytes
<1>6. r = q
  <2>1. f \o r = f \o q
    BY <1>5
  <2>. HIDE DEF f, g, n
  <2>. QED
    BY <1>4, <2>1, BytesCancel
<1>7. b = c
  <2>1. \A i \in 1..Len(b) : b[i] = c[i]
    BY <1>2, <1>3, <1>5
  <2>. QED
    BY <1>1, <1>3, <2>1, SeqEqual DEF Bytes
<1>. QED
  BY <1>6, <1>7

\* The frames of one more body behind others.
LEMMA EncodeNext ==
  ASSUME NEW b \in Whole, NEW t \in Seq(Whole)
  PROVE  /\ Encode(<<b>> \o t) = Frame(b) \o Encode(t)
         /\ Frame(b) \in Bytes /\ Encode(t) \in Bytes
<1>1. b \in Bytes /\ <<b>> \in Seq(Bytes) /\ t \in Seq(Bytes)
  BY WholeBodies
<1>. QED
  BY <1>1, EncodeOne, EncodeConcat, EncodeSteps, FrameCells

\* The bodies of s are those of u, and those whose frames are q.
Leaves(s, u, q) == \E t \in Seq(Whole) : s = u \o t /\ q = Encode(t)

\* A frame that is left is that of the next body.
LEMMA LeavesNext ==
  ASSUME NEW s \in Seq(Whole), NEW v \in Seq(Whole), NEW b \in Whole, NEW q \in Bytes,
         Leaves(s, v, Frame(b) \o q)
  PROVE  Leaves(s, Append(v, b), q)
<1>1. PICK t \in Seq(Whole) : s = v \o t /\ Frame(b) \o q = Encode(t)
  BY DEF Leaves
<1>2. t # <<>>
  <2>1. LenSize + Len(b) <= Len(Frame(b) \o q) /\ Len(b) \in Nat
    BY WholeBodies, FrameTotal DEF Bytes
  <2>2. Len(Frame(b) \o q) # 0
    BY <2>1, SizeAssumption
  <2>. QED
    BY <1>1, <2>2, EncodeSteps, EmptySeq
<1>3. PICK c \in Whole, w \in Seq(Whole) : t = <<c>> \o w
  BY <1>2, FirstAndRest
<1>4. b = c /\ q = Encode(w)
  <2>1. Frame(b) \o q = Frame(c) \o Encode(w) /\ Encode(w) \in Bytes
    BY <1>1, <1>3, EncodeNext
  <2>. QED
    BY <2>1, SameFrame
<1>5. Append(v, b) \o w = v \o (<<b>> \o w)
  <2>1. Append(v, b) = v \o <<b>> /\ <<b>> \in Seq(Whole)
    BY AppendIsConcat
  <2>2. (v \o <<b>>) \o w = v \o (<<b>> \o w)
    BY <2>1, ConcatAssociative
  <2>. QED
    BY <2>1, <2>2
<1>. QED
  BY <1>1, <1>3, <1>4, <1>5 DEF Leaves

\* Frames are read in one way: if the cells of one row of frames begin with
\* those of another, the bodies of the one are first among those of the other.
LEMMA EncodeFront ==
  ASSUME NEW s \in Seq(Whole), NEW a \in Seq(Whole), NEW r \in Bytes,
         Encode(a) \o r = Encode(s)
  PROVE  \E t \in Seq(Whole) : s = a \o t /\ r = Encode(t)
<1>. DEFINE S == {n \in Nat : \A u \in Seq(Whole), q \in Bytes :
                    Len(u) = n /\ Encode(u) \o q = Encode(s) => Leaves(s, u, q)}
<1>1. 0 \in S
  <2>1. \A u \in Seq(Whole) : Len(u) = 0 => u = <<>>
    BY EmptySeq
  <2>2. \A q \in Bytes : <<>> \o q = q
    BY ConcatEmptySeq DEF Bytes
  <2>3. s = <<>> \o s
    BY ConcatEmptySeq
  <2>4. \A q \in Bytes : Encode(<<>>) \o q = Encode(s) => Leaves(s, <<>>, q)
    BY <2>2, <2>3, EncodeSteps DEF Leaves
  <2>. QED
    BY <2>1, <2>4
<1>2. ASSUME NEW n \in Nat, n \in S PROVE n + 1 \in S
  <2>1. ASSUME NEW u \in Seq(Whole), NEW q \in Bytes,
               Len(u) = n + 1, Encode(u) \o q = Encode(s)
        PROVE  Leaves(s, u, q)
    <3>1. u # <<>>
      BY <2>1, EmptySeq
    <3>2. PICK v \in Seq(Whole), b \in Whole : u = Append(v, b)
      BY <3>1, SequenceEmptyOrAppend
    <3>3. Len(v) = n
      <4>1. Len(u) = Len(v) + 1 /\ Len(v) \in Nat
        BY <3>2, AppendProperties, LenProperties
      <4>. QED
        BY <2>1, <4>1
    <3>4. /\ b \in Bytes /\ v \in Seq(Bytes) /\ Frame(b) \in Bytes
          /\ Encode(v) \in Bytes /\ Frame(b) \o q \in Bytes
      BY WholeBodies, FrameCells, EncodeSteps, BytesConcat
    <3>5. Encode(v) \o (Frame(b) \o q) = Encode(s)
      <4>1. Encode(u) = Encode(v) \o Frame(b)
        BY <3>2, <3>4, EncodeSteps
      <4>2. (Encode(v) \o Frame(b)) \o q = Encode(v) \o (Frame(b) \o q)
        <5>. DEFINE x == Encode(v)
                    y == Frame(b)
        <5>. HIDE DEF x, y
        <5>1. x \in Bytes /\ y \in Bytes
          BY <3>4 DEF x, y
        <5>2. (x \o y) \o q = x \o (y \o q)
          BY <5>1, BytesAssoc
        <5>. QED
          BY <5>2 DEF x, y
      <4>. QED
        BY <2>1, <4>1, <4>2
    <3>6. Leaves(s, v, Frame(b) \o q)
      BY <1>2, <3>3, <3>4, <3>5
    <3>. QED
      BY <3>2, <3>6, LeavesNext
  <2>2. \A u \in Seq(Whole), q \in Bytes :
          Len(u) = n + 1 /\ Encode(u) \o q = Encode(s) => Leaves(s, u, q)
    BY <2>1
  <2>3. n + 1 \in Nat
    OBVIOUS
  <2>. QED
    BY <2>2, <2>3
<1>3. \A n \in Nat : n \in S
  <2>. HIDE DEF S
  <2>. QED
    BY <1>1, <1>2, Induction
<1>4. Leaves(s, a, r)
  <2>1. Len(a) \in Nat
    BY LenProperties
  <2>. QED
    BY <1>3, <2>1
<1>. QED
  BY <1>4 DEF Leaves

-----------------------------------------------------------------------------
(***************************************************************************)
(* The receivers are in step with the stream                               *)
(***************************************************************************)
\* The cells of a stream and the bodies sent in it; the server holds nothing
\* from one message to the next.
TypeInv ==
  /\ proto \in {"tcp", "ws", "server"}
  /\ stream \in Bytes
  /\ sent \in Seq(Whole)
  /\ pos \in 0..Len(stream)
  /\ have \in Bytes
  /\ got \in Seq(Whole)
  /\ open \in BOOLEAN /\ torn \in BOOLEAN /\ cut \in BOOLEAN
  /\ proto = "server" => have = <<>>

\* The bodies of a sending are whole.
LEMMA SendingWhole ==
  ASSUME NEW s \in Sendings
  PROVE  s \in Seq(Whole) /\ Encode(s) \in Bytes
<1>1. s \in Seq(Bytes) /\ Len(s) \in Nat /\ DOMAIN s = 1..Len(s)
  BY SendingAssumption, LenProperties DEF Bytes
<1>2. \A i \in 1..Len(s) : s[i] \in Bytes /\ LenSize + Len(s[i]) < Count[LenSize]
  BY <1>1, SendingAssumption, ElementOfSeq
<1>3. \A i \in 1..Len(s) : s[i] \in Whole
  BY <1>2, CountedIsWhole
<1>4. s \in [1..Len(s) -> Whole]
  BY <1>1, <1>3, LenProperties
<1>5. s \in Seq(Whole)
  BY <1>1, <1>4, SeqDef
<1>. QED
  BY <1>1, <1>2, <1>5, EncodeSteps

\* A part of the stream up to a cell, and what follows it.
LEMMA StreamParts ==
  ASSUME TypeInv, NEW n \in pos..Len(stream)
  PROVE  /\ SubSeq(stream, pos + 1, n) \in Bytes /\ SubSeq(stream, 1, n) \in Bytes
         /\ SubSeq(stream, 1, pos) \o SubSeq(stream, pos + 1, n) = SubSeq(stream, 1, n)
         /\ Behind(stream, n) \in Bytes /\ stream = SubSeq(stream, 1, n) \o Behind(stream, n)
<1>1. /\ stream \in Seq(Cells) /\ Len(stream) \in Nat /\ pos \in Nat /\ n \in Nat
      /\ pos <= n /\ n <= Len(stream) /\ n \in 0..Len(stream)
  BY LenProperties DEF TypeInv, Bytes
<1>2. \A i \in 1..n : stream[i] \in Cells
  BY <1>1, ElementOfSeq
<1>3. SubSeq(stream, 1, n) \in Bytes
  BY <1>1, <1>2, SubSeqProperties DEF Bytes
<1>4. SubSeq(stream, pos + 1, n) \in Bytes
  <2>1. \A i \in (pos + 1)..n : stream[i] \in Cells
    BY <1>1, <1>2
  <2>2. pos + 1 \in Int /\ n \in Int
    BY <1>1
  <2>. QED
    BY <2>1, <2>2, SubSeqProperties DEF Bytes
<1>5. SubSeq(stream, 1, pos) \o SubSeq(stream, pos + 1, n) = SubSeq(stream, 1, n)
  <2>1. 1 \in 1..(Len(stream) + 1) /\ pos \in (1 - 1)..Len(stream) /\ n \in pos..Len(stream)
    BY <1>1
  <2>. QED
    BY <1>1, <2>1, ConcatAdjacentSubSeq
<1>. QED
  BY <1>1, <1>3, <1>4, <1>5, BehindCells DEF Bytes

\* What is delivered and kept of the cells received keeps in step, if it is
\* what was kept before and the cells received now.
LEMMA DeliverSteps ==
  ASSUME TypeInv, InStep, open, UNCHANGED given,
         NEW n \in pos..Len(stream), pos' = n,
         NEW bodies \in Seq(Whole), NEW left \in Bytes, Deliver(bodies, left),
         Encode(bodies) \o left = have \o SubSeq(stream, pos + 1, n),
         ~torn => Partial(left),
         proto = "server" => left = <<>>,
         torn' = torn, cut' \in BOOLEAN
  PROVE  TypeInv' /\ InStep'
<1>1. TypeInv'
  <2>1. got' \in Seq(Whole)
    BY ConcatProperties DEF TypeInv, Deliver
  <2>2. pos' \in 0..Len(stream')
    BY DEF TypeInv, given
  <2>. QED
    BY <2>1, <2>2 DEF TypeInv, Deliver, given
<1>2. ASSUME ~torn
      PROVE  Encode(got') \o have' = SubSeq(stream, 1, n) /\ IsPrefix(Encode(got'), stream)
  <2>. DEFINE a == Encode(got)
              b == Encode(bodies)
              d == SubSeq(stream, pos + 1, n)
              c == Behind(stream, n)
  <2>1. got' = got \o bodies /\ have' = left
    BY DEF Deliver
  <2>2. /\ a \in Bytes /\ b \in Bytes /\ d \in Bytes /\ c \in Bytes /\ have \in Bytes
        /\ left \in Bytes /\ Encode(got') = a \o b
    <3>1. got \in Seq(Bytes) /\ bodies \in Seq(Bytes)
      BY WholeBodies DEF TypeInv
    <3>. QED
      BY <2>1, <3>1, EncodeSteps, EncodeConcat, StreamParts DEF TypeInv
  <2>3. a \o have = SubSeq(stream, 1, pos) /\ b \o left = have \o d
    BY <1>2 DEF InStep
  <2>4. SubSeq(stream, 1, pos) \o d = SubSeq(stream, 1, n) /\ stream = SubSeq(stream, 1, n) \o c
    BY StreamParts
  <2>. HIDE DEF a, b, c, d
  <2>5. (a \o b) \o left = SubSeq(stream, 1, n)
    <3>1. (a \o b) \o left = a \o (b \o left)
      BY <2>2, BytesAssoc
    <3>2. (a \o have) \o d = a \o (have \o d)
      BY <2>2, BytesAssoc
    <3>. QED
      BY <2>3, <2>4, <3>1, <3>2
  <2>6. (a \o b) \o (left \o c) = stream /\ a \o b \in Bytes /\ left \o c \in Bytes
    <3>1. ((a \o b) \o left) \o c = (a \o b) \o (left \o c)
      <4>1. a \o b \in Bytes
        BY <2>2, BytesConcat
      <4>. QED
        BY <2>2, <4>1, BytesAssoc
    <3>2. a \o b \in Bytes /\ left \o c \in Bytes
      BY <2>2, BytesConcat
    <3>. QED
      BY <2>4, <2>5, <3>1, <3>2
  <2>7. IsPrefix(a \o b, stream)
    BY <2>6, Begins DEF Bytes
  <2>. QED
    BY <2>1, <2>2, <2>5, <2>7
<1>3. InStep'
  BY <1>2 DEF InStep, Partial, Deliver, given
<1>. QED
  BY <1>1, <1>3

\* A connection that is closed stays in step.
LEMMA RefuseSteps ==
  ASSUME TypeInv, InStep, UNCHANGED given, Refuse,
         pos' \in 0..Len(stream), torn' = torn, cut' \in BOOLEAN
  PROVE  TypeInv' /\ InStep'
<1>1. TypeInv'
  BY DEF TypeInv, Refuse, given
<1>2. InStep'
  BY DEF InStep, Refuse, given
<1>. QED
  BY <1>1, <1>2

\* The cells of a frame after one more was read.
LEMMA ReadCells ==
  ASSUME TypeInv, pos < Len(stream)
  PROVE  /\ pos + 1 \in pos..Len(stream) /\ pos + 1 \in 0..Len(stream)
         /\ Read \in Bytes /\ Len(Read) = Len(have) + 1 /\ Len(have) \in Nat
         /\ Read = have \o SubSeq(stream, pos + 1, pos + 1)
         /\ <<stream[pos + 1]>> \in Bytes /\ Read = have \o <<stream[pos + 1]>>
         /\ LenSize <= Len(Read) => Total(Read) \in Nat
<1>1. /\ stream \in Seq(Cells) /\ have \in Seq(Cells) /\ Len(stream) \in Nat
      /\ pos + 1 \in 1..Len(stream) /\ pos \in Nat
  BY LenProperties DEF TypeInv, Bytes
<1>2. stream[pos + 1] \in Cells
  BY <1>1, ElementOfSeq
<1>3. /\ Read \in Bytes /\ Len(Read) = Len(have) + 1 /\ Len(have) \in Nat
      /\ Read = have \o <<stream[pos + 1]>>
  BY <1>1, <1>2, AppendProperties, AppendIsConcat, LenProperties DEF Read, Bytes
<1>4. SubSeq(stream, pos + 1, pos + 1) = <<stream[pos + 1]>>
  <2>1. pos + 1 \in (pos + 1)..Len(stream) /\ (pos + 1) - 1 = pos
    BY <1>1
  <2>2. SubSeq(stream, pos + 1, pos + 1) = SubSeq(stream, pos + 1, pos) \o <<stream[pos + 1]>>
    BY <1>1, <2>1, SubSeqRecursiveSecond
  <2>3. SubSeq(stream, pos + 1, pos) = <<>>
    <3>1. pos + 1 \in Int /\ pos \in Int /\ pos < pos + 1
      BY <1>1
    <3>. QED
      BY <3>1, SubSeqEmpty
  <2>4. <<stream[pos + 1]>> \in Seq(Cells)
    BY <1>2
  <2>. QED
    BY <2>2, <2>3, <2>4, ConcatEmptySeq
<1>5. LenSize <= Len(Read) => Total(Read) \in Nat
  <2>. SUFFICES ASSUME LenSize <= Len(Read) PROVE Total(Read) \in Nat
    OBVIOUS
  <2>1. \A i \in 1..LenSize : i \in 1..Len(Read)
    BY <1>3, SizeAssumption
  <2>2. \A i \in 1..LenSize : Read[i] \in Cells
    BY <1>3, <2>1, ElementOfSeq DEF Bytes
  <2>. QED
    BY <2>2, HeaderRead
<1>. QED
  BY <1>1, <1>2, <1>3, <1>4, <1>5 DEF Bytes

\* A part of a frame is kept: DeFrame reads on.
LEMMA ReadPartSteps ==
  ASSUME TypeInv, InStep, ReadPart
  PROVE  TypeInv' /\ InStep'
<1>1. /\ open /\ proto = "tcp" /\ UNCHANGED given
      /\ pos < Len(stream) /\ pos' = pos + 1 /\ torn' = torn /\ cut' = cut
      /\ ~Refused(Read) /\ ~Complete(Read) /\ Deliver(<<>>, Read)
  BY DEF ReadPart, ReadCell, Receiving
<1>2. /\ pos + 1 \in pos..Len(stream) /\ Read \in Bytes
      /\ Len(Read) = Len(have) + 1 /\ Len(have) \in Nat
      /\ Read = have \o SubSeq(stream, pos + 1, pos + 1)
      /\ <<stream[pos + 1]>> \in Bytes /\ Read = have \o <<stream[pos + 1]>>
      /\ LenSize <= Len(Read) => Total(Read) \in Nat
  BY <1>1, ReadCells
<1>3. ASSUME ~torn PROVE Partial(Read)
  <2>. SUFFICES ASSUME Len(Read) >= LenSize PROVE Len(Read) < Total(Read)
    BY DEF Partial
  <2>1. Total(Read) \in Nat /\ Len(Read) \in Nat /\ LenSize \in Nat /\ Len(Read) # Total(Read)
    BY <1>1, <1>2, SizeAssumption DEF Complete
  <2>2. CASE Len(Read) = LenSize
    <3>1. Total(Read) \in LenSize..(LenSize + MaxBody)
      BY <1>1, <2>2 DEF Refused
    <3>. QED
      BY <2>1, <2>2, <3>1
  <2>3. CASE Len(Read) # LenSize
    <3>1. LenSize <= Len(have) /\ Len(have) >= LenSize
      BY <1>2, <2>1, <2>3
    <3>2. Len(have) < Total(have)
      BY <1>1, <1>3, <3>1 DEF InStep
    <3>3. Total(Read) = Total(have)
      BY <1>2, <3>1, TotalAhead DEF TypeInv
    <3>. QED
      BY <1>2, <2>1, <3>2, <3>3
  <2>. QED
    BY <2>2, <2>3
<1>4. Encode(<<>>) \o Read = have \o SubSeq(stream, pos + 1, pos + 1)
  BY <1>2, EncodeSteps, ConcatEmptySeq DEF Bytes
<1>5. <<>> \in Seq(Whole) /\ cut' \in BOOLEAN /\ (proto = "server" => Read = <<>>)
  BY <1>1 DEF TypeInv
<1>. QED
  BY <1>1, <1>2, <1>3, <1>4, <1>5, DeliverSteps

\* A whole frame is delivered.
LEMMA ReadFrameSteps ==
  ASSUME TypeInv, InStep, ReadFrame
  PROVE  TypeInv' /\ InStep'
<1>. DEFINE b == SubSeq(Read, LenSize + 1, Len(Read))
<1>1. /\ open /\ proto = "tcp" /\ UNCHANGED given
      /\ pos < Len(stream) /\ pos' = pos + 1 /\ torn' = torn /\ cut' = cut
      /\ Len(Read) >= LenSize /\ Len(Read) = Total(Read) /\ Deliver(<<b>>, <<>>)
  BY DEF ReadFrame, ReadCell, Receiving, Complete
<1>2. /\ pos + 1 \in pos..Len(stream) /\ Read \in Bytes
      /\ Read = have \o SubSeq(stream, pos + 1, pos + 1)
      /\ Len(Read) \in Nat
  BY <1>1, ReadCells
<1>3. b \in Whole /\ Frame(b) = Read
  <2>1. b = Body(Read)
    BY <1>1 DEF Body
  <2>2. LenSize <= Len(Read) /\ Total(Read) \in LenSize..Len(Read)
    BY <1>1, <1>2, SizeAssumption
  <2>3. Body(Read) \in Whole /\ Frame(Body(Read)) = SubSeq(Read, 1, Total(Read))
    BY <1>2, <2>2, FrameRead
  <2>. HIDE DEF b
  <2>. QED
    BY <1>1, <1>2, <2>1, <2>3, SubSeqFull DEF Bytes
<1>. HIDE DEF b
<1>4. Encode(<<b>>) \o <<>> = have \o SubSeq(stream, pos + 1, pos + 1)
  <2>1. Encode(<<b>>) = Read
    BY <1>3, WholeBodies, EncodeOne
  <2>2. Read \o <<>> = Read
    BY <1>2, ConcatEmptySeq DEF Bytes
  <2>. QED
    BY <1>2, <2>1, <2>2
<1>5. /\ <<b>> \in Seq(Whole) /\ <<>> \in Bytes /\ cut' \in BOOLEAN
      /\ Partial(<<>>)
  <2>1. ~(Len(<<>>) >= LenSize)
    BY SizeAssumption
  <2>. QED
    BY <1>1, <1>3, <2>1 DEF TypeInv, Bytes, Partial
<1>. QED
  BY <1>1, <1>2, <1>4, <1>5, DeliverSteps

\* The WebSocket connector delivers the frames in what it has and a message.
LEMMA WsReceiveSteps ==
  ASSUME TypeInv, InStep, NEW n \in 1..Len(stream), WsReceive(n)
  PROVE  TypeInv' /\ InStep'
<1>. DEFINE all == have \o SubSeq(stream, pos + 1, n)
            r == Split(all)
<1>1. /\ open /\ proto = "ws" /\ UNCHANGED given
      /\ n \in (pos + 1)..Len(stream) /\ pos' = n /\ torn' = torn /\ cut' = cut
      /\ IF r.ok THEN Deliver(r.bodies, r.rest) ELSE Refuse
  BY DEF WsReceive, Message, Receiving, WsDeframe
<1>2. n \in pos..Len(stream) /\ n \in 0..Len(stream)
  BY <1>1 DEF TypeInv
<1>3. all \in Bytes
  BY <1>2, StreamParts, BytesConcat DEF TypeInv
<1>. HIDE DEF r
<1>4. /\ r.bodies \in Seq(Whole) /\ r.rest \in Bytes
      /\ Encode(r.bodies) \o r.rest = all
      /\ r.ok => Partial(r.rest)
  <2>. HIDE DEF all
  <2>. QED
    BY <1>3, SplitDef DEF Parted, r
<1>5. cut' \in BOOLEAN /\ proto # "server"
  BY <1>1 DEF TypeInv
<1>6. CASE r.ok
  BY <1>1, <1>2, <1>4, <1>5, <1>6, DeliverSteps
<1>7. CASE ~r.ok
  BY <1>1, <1>2, <1>5, <1>7, RefuseSteps
<1>. QED
  BY <1>6, <1>7

\* The WebSocket server delivers the frames in a message.
LEMMA ServerReceiveSteps ==
  ASSUME TypeInv, InStep, NEW n \in 1..Len(stream), ServerReceive(n)
  PROVE  TypeInv' /\ InStep'
<1>. DEFINE data == SubSeq(stream, pos + 1, n)
            r == Split(data)
            ok == r.ok /\ r.rest = <<>>
<1>1. n \in pos..Len(stream) /\ n \in 0..Len(stream) /\ n \in (pos + 1)..Len(stream)
  BY DEF TypeInv, ServerReceive, Message
<1>2. data \in Bytes
  BY <1>1, StreamParts
<1>3. /\ r \in [ok : BOOLEAN, bodies : Seq(Whole), rest : Bytes]
      /\ Encode(r.bodies) \o r.rest = data
      /\ r.ok => Partial(r.rest)
  <2>. HIDE DEF data
  <2>. QED
    BY <1>2, SplitDef DEF Parted
<1>. HIDE DEF r
<1>4. /\ WsExtractBodies(data).ok = ok
      /\ WsExtractBodies(data).bodies = r.bodies
      /\ WsExtractBodies(data).rest = r.rest
  <2>. HIDE DEF data
  <2>1. WsExtractBodies(data) = [r EXCEPT !.ok = @ /\ r.rest = <<>>]
    BY DEF WsExtractBodies, r
  <2>. QED
    BY <1>3, <2>1
<1>5. /\ open /\ proto = "server" /\ UNCHANGED given
      /\ pos' = n /\ torn' = torn
      /\ IF WsExtractBodies(data).ok THEN Deliver(WsExtractBodies(data).bodies, <<>>) ELSE Refuse
      /\ cut' = (r.ok /\ ~WsExtractBodies(data).ok)
  BY DEF ServerReceive, Message, Receiving, r
<1>6. /\ IF ok THEN Deliver(r.bodies, <<>>) ELSE Refuse
      /\ cut' \in BOOLEAN
  BY <1>4, <1>5
<1>7. CASE ok
  <2>1. have = <<>> /\ have \o data = data
    BY <1>2, <1>5, ConcatEmptySeq DEF TypeInv, Bytes
  <2>2. /\ r.bodies \in Seq(Whole) /\ <<>> \in Bytes /\ Partial(<<>>)
        /\ Encode(r.bodies) \o <<>> = have \o data
    BY <1>3, <1>7, <2>1
  <2>. QED
    BY <1>1, <1>5, <1>6, <1>7, <2>2, DeliverSteps
<1>8. CASE ~ok
  BY <1>1, <1>5, <1>6, <1>8, RefuseSteps
<1>. QED
  BY <1>7, <1>8

\* At first nothing has been received.
LEMMA StepInit ==
  ASSUME Init
  PROVE  TypeInv /\ InStep
<1>1. stream \in Bytes /\ sent \in Seq(Whole)
  <2>1. CASE sent = <<>> /\ stream \in Streams
    <3>1. <<>> \in Seq(Whole)
      OBVIOUS
    <3>. QED
      BY <2>1, <3>1, StreamAssumption DEF Bytes
  <2>2. CASE sent \in Sendings /\ stream = Encode(sent)
    BY <2>2, SendingWhole
  <2>. QED
    BY <2>1, <2>2 DEF Init
<1>2. pos \in 0..Len(stream) /\ <<>> \in Bytes /\ <<>> \in Seq(Whole)
  BY <1>1 DEF Init, Bytes
<1>3. TypeInv
  BY <1>1, <1>2 DEF Init, TypeInv
<1>4. Encode(got) = <<>> /\ have = <<>> /\ pos = 0
  BY EncodeSteps DEF Init
<1>5. IsPrefix(<<>>, stream)
  <2>1. <<>> \o stream = stream /\ <<>> \in Seq(Cells)
    BY <1>1, ConcatEmptySeq DEF Bytes
  <2>. QED
    BY <1>1, <2>1, Begins DEF Bytes
<1>6. <<>> \o <<>> = <<>> /\ SubSeq(stream, 1, 0) = <<>>
  <2>1. SubSeq(stream, 1, 0) = <<>>
    BY SubSeqEmpty
  <2>2. <<>> \in Seq(Cells)
    OBVIOUS
  <2>. QED
    BY <2>1, <2>2, ConcatEmptySeq
<1>7. ~(Len(<<>>) >= LenSize)
  BY SizeAssumption
<1>. QED
  BY <1>3, <1>4, <1>5, <1>6, <1>7 DEF InStep

\* Every step keeps the receiver in step.
LEMMA StepNext ==
  ASSUME TypeInv, InStep, [Next]_vars
  PROVE  TypeInv' /\ InStep'
<1>1. CASE ReadPart
  BY <1>1, ReadPartSteps
<1>2. CASE ReadFrame
  BY <1>2, ReadFrameSteps
<1>3. CASE ReadRefused
  <2>1. /\ UNCHANGED given /\ Refuse /\ torn' = torn /\ cut' = cut
        /\ pos < Len(stream) /\ pos' = pos + 1
    BY <1>3 DEF ReadRefused, ReadCell, Receiving
  <2>2. pos' \in 0..Len(stream) /\ cut' \in BOOLEAN
    BY <2>1, ReadCells DEF TypeInv
  <2>. QED
    BY <2>1, <2>2, RefuseSteps
<1>4. CASE ReadTimeout
  <2>1. /\ UNCHANGED given /\ have' = <<>> /\ torn' = (torn \/ have # <<>>)
        /\ pos' = pos /\ got' = got /\ open' = open /\ cut' = cut
    BY <1>4 DEF ReadTimeout, Receiving
  <2>2. <<>> \in Bytes
    BY DEF Bytes
  <2>3. TypeInv'
    BY <2>1, <2>2 DEF TypeInv, given
  <2>4. ~torn' => ~torn /\ have' = have
    BY <2>1 DEF TypeInv
  <2>5. InStep'
    BY <2>1, <2>4 DEF InStep, given
  <2>. QED
    BY <2>3, <2>5
<1>5. CASE \E n \in 1..Len(stream) : WsReceive(n) \/ ServerReceive(n)
  BY <1>5, WsReceiveSteps, ServerReceiveSteps
<1>6. CASE UNCHANGED vars
  BY <1>6 DEF vars, given, TypeInv, InStep
<1>. QED
  BY <1>1, <1>2, <1>3, <1>4, <1>5, <1>6 DEF Next

\* However a stream is cut into reads and messages, and whatever is in it: the
\* frames delivered are the head of it, and the cells kept are a part of the
\* frame behind them, unless a read deadline has torn a frame.
THEOREM ReceiversInStep == Spec => []InStep
<1>1. Init => TypeInv /\ InStep
  BY StepInit
<1>2. TypeInv /\ InStep /\ [Next]_vars => TypeInv' /\ InStep'
  BY StepNext
<1>. QED
  BY <1>1, <1>2, PTL DEF Spec

-----------------------------------------------------------------------------
(***************************************************************************)
(* What is sent in frames is delivered                                     *)
(***************************************************************************)
\* Behind the frames delivered of a stream of frames there is the next frame:
\* a length read there is the length of that.
LEMMA NextFrame ==
  ASSUME TypeInv, Conforming, NEW n \in 0..Len(stream),
         NEW bodies \in Seq(Whole), NEW buf \in Bytes, LenSize <= Len(buf),
         Encode(bodies) \o buf = SubSeq(stream, 1, n)
  PROVE  /\ Len(bodies) < Len(sent)
         /\ Total(buf) = LenSize + Len(sent[Len(bodies) + 1])
<1>. DEFINE c == Behind(stream, n)
            a == Encode(bodies)
<1>1. c \in Bytes /\ a \in Bytes /\ a \o buf = SubSeq(stream, 1, n)
  <2>1. bodies \in Seq(Bytes)
    BY WholeBodies
  <2>. QED
    BY <2>1, BehindCells, EncodeSteps DEF TypeInv
<1>2. stream = SubSeq(stream, 1, n) \o c /\ stream = Encode(sent) /\ sent \in Seq(Whole)
  BY BehindCells DEF TypeInv, Conforming
<1>3. Encode(bodies) \o (buf \o c) = Encode(sent) /\ buf \o c \in Bytes
  <2>. HIDE DEF a, c
  <2>1. (a \o buf) \o c = a \o (buf \o c)
    BY <1>1, BytesAssoc
  <2>2. buf \o c \in Bytes
    BY <1>1, BytesConcat
  <2>. QED
    BY <1>1, <1>2, <2>1, <2>2 DEF a
<1>. HIDE DEF c
<1>4. PICK t \in Seq(Whole) : sent = bodies \o t /\ buf \o c = Encode(t)
  BY <1>2, <1>3, EncodeFront
<1>5. t # <<>>
  <2>1. Len(buf \o c) = Len(buf) + Len(c) /\ Len(buf) \in Nat /\ Len(c) \in Nat
    BY <1>1, ConcatProperties, LenProperties DEF Bytes
  <2>2. Len(buf \o c) # 0
    BY <2>1, SizeAssumption
  <2>. QED
    BY <1>4, <2>2, EncodeSteps, EmptySeq
<1>6. PICK b \in Whole, w \in Seq(Whole) : t = <<b>> \o w
  <2>1. t \in Seq(Whole) /\ t # <<>>
    BY <1>5
  <2>. QED
    BY ONLY <2>1, FirstAndRest
<1>7. Total(buf) = LenSize + Len(b)
  <2>1. buf \o c = Frame(b) \o Encode(w) /\ Encode(w) \in Bytes
    BY <1>4, <1>6, EncodeNext
  <2>2. Total(buf \o c) = LenSize + Len(b)
    BY <2>1, FrameTotal
  <2>. QED
    BY <1>1, <2>2, TotalAhead
<1>8. Len(bodies) < Len(sent) /\ sent[Len(bodies) + 1] = b
  <2>1. /\ Len(<<b>>) = 1 /\ <<b>>[1] = b /\ <<b>> \in Seq(Whole)
        /\ Len(bodies) \in Nat /\ Len(w) \in Nat
    BY LenProperties
  <2>2. Len(t) = 1 + Len(w) /\ t[1] = b
    BY <1>6, <2>1, ConcatProperties
  <2>3. Len(sent) = Len(bodies) + Len(t)
    BY <1>4, ConcatProperties
  <2>4. sent[Len(bodies) + 1] = t[1]
    <3>1. Len(bodies) + 1 \in 1..(Len(bodies) + Len(t)) /\ ~(Len(bodies) + 1 <= Len(bodies))
          /\ (Len(bodies) + 1) - Len(bodies) = 1
      BY <2>1, <2>2
    <3>. QED
      BY <1>4, <3>1, ConcatProperties
  <2>. QED
    BY <2>1, <2>2, <2>3, <2>4
<1>. QED
  BY <1>7, <1>8

\* A connection whose peer sends frames is closed for a reason.
ClosedFor == Conforming /\ ~torn /\ ~open => Oversize \/ Headless \/ cut

\* A receiver in step with a stream of frames delivers what was sent: that it
\* is closed for a reason is all there is to add to InStep.
LEMMA StepFaithful ==
  ASSUME TypeInv, InStep, ClosedFor
  PROVE  Faithful
<1>. SUFFICES ASSUME Conforming, ~torn
              PROVE  /\ IsPrefix(got, sent)
                     /\ open /\ pos = Len(stream) => got = sent
  BY DEF Faithful, ClosedFor
<1>1. /\ got \in Seq(Whole) /\ sent \in Seq(Whole) /\ stream = Encode(sent)
      /\ got \in Seq(Bytes) /\ Encode(got) \in Bytes /\ stream \in Bytes
      /\ Len(stream) \in Nat /\ Len(Encode(got)) \in Nat
  <2>1. got \in Seq(Bytes)
    BY WholeBodies DEF TypeInv
  <2>2. Encode(got) \in Bytes
    BY <2>1, EncodeSteps
  <2>. QED
    BY <2>1, <2>2, LenProperties DEF TypeInv, Conforming, Bytes
<1>2. PICK r \in Bytes : Encode(got) \o r = stream
  <2>. DEFINE m == Len(Encode(got))
  <2>1. m <= Len(stream) /\ SubSeq(Encode(got), 1, m) = SubSeq(stream, 1, m)
    BY DEF InStep, IsPrefix
  <2>2. SubSeq(Encode(got), 1, m) = Encode(got) /\ m \in 0..Len(stream)
    BY <1>1, <2>1, SubSeqFull DEF Bytes
  <2>3. stream = SubSeq(stream, 1, m) \o Behind(stream, m) /\ Behind(stream, m) \in Bytes
    <3>. HIDE DEF m
    <3>. QED
      BY <1>1, <2>2, BehindCells
  <2>. QED
    BY <2>1, <2>2, <2>3
<1>3. PICK t \in Seq(Whole) : sent = got \o t /\ r = Encode(t)
  <2>1. Encode(got) \o r = Encode(sent) /\ r \in Bytes
    BY <1>1, <1>2
  <2>. QED
    BY ONLY <1>1, <2>1, EncodeFront
<1>4. IsPrefix(got, sent)
  BY <1>1, <1>3, Begins
<1>5. ASSUME open, pos = Len(stream) PROVE got = sent
  <2>1. Encode(got) \o have = stream /\ have \in Bytes
    BY <1>1, <1>5, SubSeqFull DEF InStep, TypeInv, Bytes
  <2>2. have = r
    BY <1>1, <1>2, <2>1, BytesCancel
  <2>3. CASE t = <<>>
    BY <1>1, <1>3, <2>3, ConcatEmptySeq
  <2>4. CASE t # <<>>
    <3>1. PICK b \in Whole, w \in Seq(Whole) : t = <<b>> \o w
      BY <2>4, FirstAndRest
    <3>2. have = Frame(b) \o Encode(w) /\ Encode(w) \in Bytes
      BY <1>3, <2>2, <3>1, EncodeNext
    <3>3. Total(have) = LenSize + Len(b) /\ LenSize + Len(b) <= Len(have)
      BY <3>2, FrameTotal
    <3>4. Len(have) \in Nat /\ Len(b) \in Nat
      BY <2>1, WholeBodies, LenProperties DEF Bytes
    <3>5. Len(have) >= LenSize /\ ~(Len(have) < Total(have))
      BY <3>3, <3>4, SizeAssumption
    <3>. QED
      BY <1>5, <3>5 DEF InStep
  <2>. QED
    BY <2>3, <2>4
<1>. QED
  BY <1>4, <1>5

\* The length that DeFrame refuses is that of a frame beyond MaxPacketSize, and the
\* body that Decode refuses is one that was sent without a whole header.
LEMMA RefusedFor ==
  ASSUME TypeInv, InStep, ReadRefused
  PROVE  ClosedFor'
<1>1. /\ open /\ proto = "tcp" /\ UNCHANGED given /\ got' = got
      /\ pos < Len(stream) /\ torn' = torn
      /\ Refused(Read) \/ Undecodable(Read)
  BY DEF ReadRefused, ReadCell, Receiving, Refuse
<1>2. /\ pos + 1 \in pos..Len(stream) /\ pos + 1 \in 0..Len(stream) /\ Read \in Bytes
      /\ Read = have \o SubSeq(stream, pos + 1, pos + 1)
      /\ Len(have) \in Nat /\ Len(Read) = Len(have) + 1
  BY <1>1, ReadCells
<1>3. ASSUME Conforming, ~torn PROVE Oversize \/ Headless
  <2>. DEFINE a == Encode(got)
              d == SubSeq(stream, pos + 1, pos + 1)
              k == Len(got) + 1
  <2>1. a \o Read = SubSeq(stream, 1, pos + 1)
    <3>1. a \in Bytes /\ have \in Bytes /\ d \in Bytes
      <4>1. got \in Seq(Bytes)
        BY WholeBodies DEF TypeInv
      <4>. QED
        BY <1>2, <4>1, EncodeSteps, StreamParts DEF TypeInv
    <3>2. a \o have = SubSeq(stream, 1, pos)
      BY <1>1, <1>3 DEF InStep
    <3>3. SubSeq(stream, 1, pos) \o d = SubSeq(stream, 1, pos + 1)
      BY <1>2, StreamParts
    <3>. HIDE DEF a, d
    <3>4. (a \o have) \o d = a \o (have \o d)
      BY <3>1, BytesAssoc
    <3>. QED
      BY <1>2, <3>2, <3>3, <3>4 DEF d
  <2>2. LenSize <= Len(Read)
    BY <1>1, <1>2, SizeAssumption DEF Refused, Undecodable, Complete
  <2>3. Len(got) < Len(sent) /\ Total(Read) = LenSize + Len(sent[k])
    BY <1>2, <1>3, <2>1, <2>2, NextFrame DEF TypeInv
  <2>4. k \in 1..Len(sent) /\ Len(sent[k]) \in Nat /\ Len(got) \in Nat
    <3>1. Len(got) \in Nat /\ Len(sent) \in Nat
      BY LenProperties DEF TypeInv
    <3>2. k \in 1..Len(sent)
      BY <2>3, <3>1
    <3>3. sent[k] \in Whole
      BY <3>2, ElementOfSeq DEF TypeInv
    <3>. QED
      BY <3>1, <3>2, <3>3, WholeBodies, LenProperties DEF Bytes
  <2>. HIDE DEF k
  <2>5. CASE Refused(Read)
    <3>1. Len(sent[k]) > MaxBody
      BY <2>3, <2>4, <2>5, SizeAssumption DEF Refused
    <3>. QED
      BY <1>1, <2>3, <3>1 DEF Oversize, k
  <2>6. CASE Undecodable(Read)
    <3>1. Len(sent[k]) < HeadSize
      BY <1>2, <2>3, <2>4, <2>6, SizeAssumption DEF Undecodable, Complete
    <3>2. k \in (Len(got) + 1)..Len(sent) /\ k = Len(got) + 1
      BY <2>4 DEF k
    <3>. QED
      BY <3>1, <3>2 DEF Headless
  <2>. QED
    BY <1>1, <2>5, <2>6
<1>. QED
  BY <1>1, <1>3 DEF ClosedFor, Conforming, Oversize, Headless, given

\* A bad length behind the frames delivered, and those found now, of a stream of
\* frames is that of a body that was sent without a whole header.
LEMMA BadLength ==
  ASSUME TypeInv, InStep, open, Conforming, ~torn, proto # "tcp",
         NEW n \in pos..Len(stream), NEW bodies \in Seq(Whole), NEW left \in Bytes,
         Encode(bodies) \o left = have \o SubSeq(stream, pos + 1, n),
         LenSize <= Len(left), BadTotal(left)
  PROVE  Headless
<1>. DEFINE d == SubSeq(stream, pos + 1, n)
            a == Encode(got)
            b == Encode(bodies)
            s == got \o bodies
            k == Len(s) + 1
<1>1. n \in 0..Len(stream) /\ d \in Bytes /\ have \in Bytes
  BY StreamParts DEF TypeInv
<1>2. /\ s \in Seq(Whole) /\ Encode(s) = a \o b /\ a \in Bytes /\ b \in Bytes
      /\ Len(got) <= Len(s) /\ Len(got) \in Nat /\ Len(s) \in Nat
  <2>1. got \in Seq(Bytes) /\ bodies \in Seq(Bytes) /\ got \in Seq(Whole)
    BY WholeBodies DEF TypeInv
  <2>2. s \in Seq(Whole) /\ Len(s) = Len(got) + Len(bodies)
    BY <2>1, ConcatProperties
  <2>3. Encode(s) = a \o b /\ a \in Bytes /\ b \in Bytes
    BY <2>1, EncodeConcat, EncodeSteps
  <2>4. Len(got) \in Nat /\ Len(bodies) \in Nat
    BY <2>1, LenProperties
  <2>. HIDE DEF s, a, b
  <2>. QED
    BY <2>2, <2>3, <2>4
<1>3. Encode(s) \o left = SubSeq(stream, 1, n)
  <2>1. a \o have = SubSeq(stream, 1, pos)
    BY DEF InStep
  <2>2. SubSeq(stream, 1, pos) \o d = SubSeq(stream, 1, n)
    BY StreamParts
  <2>3. b \o left = have \o d
    OBVIOUS
  <2>. HIDE DEF a, b, d, s
  <2>4. (a \o b) \o left = a \o (b \o left)
    BY <1>2, BytesAssoc
  <2>5. (a \o have) \o d = a \o (have \o d)
    BY <1>1, <1>2, BytesAssoc
  <2>. QED
    BY <1>2, <2>1, <2>2, <2>3, <2>4, <2>5
<1>. HIDE DEF s
<1>4. Len(s) < Len(sent) /\ Total(left) = LenSize + Len(sent[k])
  BY <1>1, <1>2, <1>3, NextFrame
<1>5. k \in 1..Len(sent) /\ Len(sent[k]) \in Nat
  <2>1. Len(sent) \in Nat
    BY LenProperties DEF TypeInv
  <2>2. k \in 1..Len(sent)
    BY <1>2, <1>4, <2>1
  <2>3. sent[k] \in Whole
    BY <2>2, ElementOfSeq DEF TypeInv
  <2>. QED
    BY <2>2, <2>3, WholeBodies, LenProperties DEF Bytes
<1>6. k \in (Len(got) + 1)..Len(sent)
  BY <1>2, <1>5
<1>. HIDE DEF k
<1>7. Len(sent[k]) < HeadSize
  BY <1>4, <1>5, SizeAssumption DEF BadTotal
<1>. QED
  BY <1>6, <1>7 DEF Headless

\* The WebSocket connector refuses a stream of frames only if one of them has no
\* whole header.
LEMMA WsFor ==
  ASSUME TypeInv, InStep, NEW n \in 1..Len(stream), WsReceive(n)
  PROVE  ClosedFor'
<1>. DEFINE all == have \o SubSeq(stream, pos + 1, n)
            r == Split(all)
<1>1. /\ open /\ proto = "ws" /\ UNCHANGED given
      /\ n \in (pos + 1)..Len(stream) /\ torn' = torn
      /\ IF r.ok THEN Deliver(r.bodies, r.rest) ELSE Refuse
  BY DEF WsReceive, Message, Receiving, WsDeframe
<1>2. n \in pos..Len(stream)
  BY <1>1 DEF TypeInv
<1>3. all \in Bytes
  BY <1>2, StreamParts, BytesConcat DEF TypeInv
<1>. HIDE DEF r
<1>4. /\ r.bodies \in Seq(Whole) /\ r.rest \in Bytes
      /\ Encode(r.bodies) \o r.rest = all
      /\ ~r.ok => LenSize <= Len(r.rest) /\ BadTotal(r.rest)
  <2>. HIDE DEF all
  <2>. QED
    BY <1>3, SplitDef DEF Parted, r
<1>5. ASSUME Conforming, ~torn, ~r.ok PROVE Headless
  BY <1>1, <1>2, <1>4, <1>5, BadLength
<1>6. ~r.ok => got' = got
  BY <1>1 DEF Refuse
<1>. QED
  BY <1>1, <1>5, <1>6 DEF ClosedFor, Conforming, Headless, Deliver, given

\* The WebSocket server refuses a stream of frames only if one of them has no whole
\* header, or a message ends inside a frame.
LEMMA ServerFor ==
  ASSUME TypeInv, InStep, NEW n \in 1..Len(stream), ServerReceive(n)
  PROVE  ClosedFor'
<1>. DEFINE data == SubSeq(stream, pos + 1, n)
            r == Split(data)
<1>1. n \in pos..Len(stream)
  BY DEF TypeInv, ServerReceive, Message
<1>2. data \in Bytes
  BY <1>1, StreamParts
<1>3. /\ r \in [ok : BOOLEAN, bodies : Seq(Whole), rest : Bytes]
      /\ Encode(r.bodies) \o r.rest = data
      /\ ~r.ok => LenSize <= Len(r.rest) /\ BadTotal(r.rest)
  <2>. HIDE DEF data
  <2>. QED
    BY <1>2, SplitDef DEF Parted
<1>4. /\ open /\ proto = "server" /\ UNCHANGED given /\ torn' = torn
      /\ IF WsExtractBodies(data).ok THEN Deliver(WsExtractBodies(data).bodies, <<>>) ELSE Refuse
      /\ cut' = (r.ok /\ ~WsExtractBodies(data).ok)
  BY DEF ServerReceive, Message, Receiving
<1>. HIDE DEF r
<1>5. ASSUME Conforming, ~torn, ~r.ok PROVE Headless
  <2>1. have \o data = data
    BY <1>2, <1>4, ConcatEmptySeq DEF TypeInv, Bytes
  <2>2. /\ r.bodies \in Seq(Whole) /\ r.rest \in Bytes
        /\ Encode(r.bodies) \o r.rest = have \o data
    BY <1>3, <2>1
  <2>. QED
    BY <1>1, <1>3, <1>4, <1>5, <2>2, BadLength
<1>6. WsExtractBodies(data).ok => open'
  BY <1>4 DEF Deliver
<1>7. ~WsExtractBodies(data).ok => got' = got
  BY <1>4 DEF Refuse
<1>. QED
  BY <1>4, <1>5, <1>6, <1>7 DEF ClosedFor, Conforming, Headless, given

\* Every step closes the connection for a reason, or not at all.
LEMMA ClosedNext ==
  ASSUME TypeInv, InStep, ClosedFor, [Next]_vars
  PROVE  ClosedFor'
<1>1. CASE ReadPart
  BY <1>1 DEF ReadPart, ReadCell, Receiving, Deliver, ClosedFor
<1>2. CASE ReadFrame
  BY <1>2 DEF ReadFrame, ReadCell, Receiving, Deliver, ClosedFor
<1>3. CASE ReadRefused
  BY <1>3, RefusedFor
<1>4. CASE ReadTimeout
  BY <1>4 DEF ReadTimeout, Receiving, ClosedFor
<1>5. CASE \E n \in 1..Len(stream) : WsReceive(n) \/ ServerReceive(n)
  BY <1>5, WsFor, ServerFor
<1>6. CASE UNCHANGED vars
  BY <1>6 DEF vars, given, ClosedFor, Conforming, Oversize, Headless
<1>. QED
  BY <1>1, <1>2, <1>3, <1>4, <1>5, <1>6 DEF Next

\* A peer that sends frames, none torn by a read deadline, has all of them
\* delivered, in order and unchanged, however the cells arrive; the connection
\* is closed only for a frame beyond MaxPacketSize, for one without a whole header,
\* such as an empty heartbeat, or by the WebSocket server for a message that ends
\* inside a frame.
THEOREM ReceiversFaithful == Spec => []Faithful
<1>1. Init => TypeInv /\ InStep /\ ClosedFor
  BY StepInit DEF Init, ClosedFor
<1>2. TypeInv /\ InStep /\ ClosedFor /\ [Next]_vars => TypeInv' /\ InStep' /\ ClosedFor'
  BY StepNext, ClosedNext
<1>3. TypeInv /\ InStep /\ ClosedFor => Faithful
  BY StepFaithful
<1>. QED
  BY <1>1, <1>2, <1>3, PTL DEF Spec
=============================================================================
