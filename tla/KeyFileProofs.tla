---------------------------- MODULE KeyFileProofs ----------------------------
(***************************************************************************)
(* Theorems about KeyFile, for any networks, keys, files and page size.    *)
(***************************************************************************)
EXTENDS KeyFile, SequenceTheorems, WellFoundedInduction, TLAPS

-----------------------------------------------------------------------------
(* The sum behind Total: the sizes of the first n lines. *)
Upto(t) ==
  CHOOSE f : f = [n \in 0..Len(t) |-> IF n = 0 THEN 0 ELSE f[n - 1] + Size(t[n])]

LEMMA TotalIsUpto == \A t : Total(t) = Upto(t)[Len(t)]
  BY DEF Total, Upto

(* Induction as a smallest counterexample. *)
LEMMA LeastOf ==
  ASSUME NEW S \in SUBSET Nat, S # {}
  PROVE  \E m \in S : \A n \in S : m <= n
  <1>1. PICK m \in S : \A n \in S : <<n, m>> \notin OpToRel(<, Nat)
    BY NatLessThanWellFounded, WFMin
  <1>2. ASSUME NEW n \in S
        PROVE  m <= n
    <2>1. n < m => <<n, m>> \in {ss \in Nat \X Nat : ss[1] < ss[2]}
      OBVIOUS
    <2>2. ~(n < m)
      BY <1>1, <2>1 DEF OpToRel
    <2> QED
      BY <2>2
  <1> QED
    BY <1>1, <1>2

LEMMA SizeType == \A l \in Lines : Size(l) \in Nat
  BY DEF Size, Lines

(* There is a function that the definition of Upto can choose. *)
LEMMA UptoExists ==
  ASSUME NEW t \in Seq(Lines)
  PROVE  \E f \in [0..Len(t) -> Nat] :
           f = [n \in 0..Len(t) |-> IF n = 0 THEN 0 ELSE f[n - 1] + Size(t[n])]
  <1> DEFINE Good(k, f) ==
               /\ f \in [0..k -> Nat]
               /\ \A n \in 0..k : f[n] = IF n = 0 THEN 0 ELSE f[n - 1] + Size(t[n])
             Bad == {k \in 0..Len(t) : ~ \E f : Good(k, f)}
  <1>1. Bad = {}
    <2>1. SUFFICES ASSUME Bad # {}
                   PROVE  FALSE
      OBVIOUS
    <2>2. Len(t) \in Nat /\ Bad \in SUBSET Nat
      BY LenProperties
    <2>3. PICK k \in Bad : \A n \in Bad : k <= n
      BY <2>1, <2>2, LeastOf
    <2>4. k # 0
      <3>1. Good(0, [n \in 0..0 |-> 0])
        OBVIOUS
      <3> QED
        BY <3>1
    <2>5. k - 1 \in 0..Len(t) /\ k - 1 \notin Bad
      <3>1. k \in 1..Len(t)
        BY <2>2, <2>3, <2>4
      <3>2. k - 1 \in 0..Len(t) /\ ~(k <= k - 1)
        BY <3>1, <2>2
      <3> HIDE DEF Bad
      <3> QED
        BY <3>2, <2>3
    <2>6. PICK f : Good(k - 1, f)
      BY <2>5
    <2>7. t[k] \in Lines
      BY <2>2, <2>3, <2>4, ElementOfSeq
    <2>8. Size(t[k]) \in Nat
      BY <2>7, SizeType
    <2> DEFINE g == [n \in 0..k |-> IF n = k THEN f[k - 1] + Size(t[k]) ELSE f[n]]
    <2>9. f \in [0..(k - 1) -> Nat] /\ f[k - 1] \in Nat
      BY <2>5, <2>6, <2>2, <2>3
    <2>10. g \in [0..k -> Nat]
      BY <2>9, <2>8, <2>2, <2>3
    <2>11. \A n \in 0..k : g[n] = IF n = 0 THEN 0 ELSE g[n - 1] + Size(t[n])
      <3>1. SUFFICES ASSUME NEW n \in 0..k
                     PROVE  g[n] = IF n = 0 THEN 0 ELSE g[n - 1] + Size(t[n])
        OBVIOUS
      <3>2. CASE n = k
        BY <3>2, <2>2, <2>3, <2>4
      <3>3. CASE n # k
        <4>1. n \in 0..(k - 1)
          BY <3>3, <2>2, <2>3
        <4>2. f[n] = IF n = 0 THEN 0 ELSE f[n - 1] + Size(t[n])
          BY <4>1, <2>6
        <4>3. n # 0 => n - 1 \in 0..k /\ n - 1 # k
          BY <4>1, <2>2, <2>3
        <4>4. g[n] = f[n] /\ (n # 0 => g[n - 1] = f[n - 1])
          BY <4>1, <4>3, <3>3
        <4> QED
          BY <4>2, <4>4
      <3> QED
        BY <3>2, <3>3
    <2>12. Good(k, g)
      BY <2>10, <2>11
    <2> QED
      BY <2>3, <2>12
  <1>2. Len(t) \in 0..Len(t)
    BY LenProperties
  <1>3. PICK f : Good(Len(t), f)
    BY <1>1, <1>2
  <1>4. f = [n \in 0..Len(t) |-> IF n = 0 THEN 0 ELSE f[n - 1] + Size(t[n])]
    BY <1>3
  <1> QED
    BY <1>3, <1>4

LEMMA UptoIs ==
  ASSUME NEW t \in Seq(Lines)
  PROVE  /\ Upto(t) \in [0..Len(t) -> Nat]
         /\ Upto(t)[0] = 0
         /\ \A n \in 1..Len(t) : Upto(t)[n] = Upto(t)[n - 1] + Size(t[n])
  <1> DEFINE f == Upto(t)
             Bad == {n \in 0..Len(t) : f[n] \notin Nat}
  <1>0. Len(t) \in Nat
    BY LenProperties
  <1>1. f = [n \in 0..Len(t) |-> IF n = 0 THEN 0 ELSE f[n - 1] + Size(t[n])]
    BY UptoExists DEF Upto
  <1> HIDE DEF f
  <1>2. f[0] = 0 /\ \A n \in 1..Len(t) : f[n] = f[n - 1] + Size(t[n])
    BY <1>0, <1>1
  <1>3. Bad = {}
    <2>1. SUFFICES ASSUME Bad # {}
                   PROVE  FALSE
      OBVIOUS
    <2>2. PICK k \in Bad : \A n \in Bad : k <= n
      <3>1. Bad \in SUBSET Nat
        BY <1>0
      <3> QED
        BY <2>1, <3>1, LeastOf
    <2>3. k \in 1..Len(t) /\ k - 1 \in 0..Len(t) /\ ~(k <= k - 1)
      BY <1>0, <1>2, <2>2
    <2>4. k - 1 \notin Bad
      <3> HIDE DEF Bad
      <3> QED
        BY <2>2, <2>3
    <2>5. f[k - 1] \in Nat /\ Size(t[k]) \in Nat
      BY <2>3, <2>4, ElementOfSeq, SizeType
    <2> QED
      BY <1>2, <2>2, <2>3, <2>5
  <1>4. f \in [0..Len(t) -> Nat]
    BY <1>1, <1>3
  <1> QED
    BY <1>2, <1>4 DEF f

LEMMA UptoType ==
  ASSUME NEW t \in Seq(Lines), NEW n \in 0..Len(t)
  PROVE  Upto(t)[n] \in Nat
  BY UptoIs

LEMMA TotalType == \A t \in Seq(Lines) : Total(t) \in Nat
  BY UptoIs, TotalIsUpto, LenProperties

LEMMA TotalEmpty == Total(<<>>) = 0
  BY UptoIs, TotalIsUpto, EmptySeq

(* The n lines of t after line a are those of u after line b. *)
SameRun(t, a, u, b, n) ==
  /\ t \in Seq(Lines) /\ u \in Seq(Lines) /\ n \in Nat
  /\ a \in 0..Len(t) /\ b \in 0..Len(u)
  /\ a + n <= Len(t) /\ b + n <= Len(u)
  /\ \A i \in 1..n : t[a + i] = u[b + i]

(* Equal runs of lines have equal sums.                                    *)
LEMMA SumsFrom ==
  ASSUME NEW t, NEW u, NEW a, NEW b, NEW n, SameRun(t, a, u, b, n)
  PROVE  Upto(t)[a + n] - Upto(t)[a] = Upto(u)[b + n] - Upto(u)[b]
  <1> USE DEF SameRun
  <1> DEFINE Bad == {i \in 0..n : Upto(t)[a + i] - Upto(t)[a] # Upto(u)[b + i] - Upto(u)[b]}
  <1>0. Len(t) \in Nat /\ Len(u) \in Nat
    BY LenProperties
  <1>1. Bad = {}
    <2>1. SUFFICES ASSUME Bad # {}
                   PROVE  FALSE
      OBVIOUS
    <2>2. PICK k \in Bad : \A i \in Bad : k <= i
      <3>1. Bad \in SUBSET Nat
        OBVIOUS
      <3> QED
        BY <2>1, <3>1, LeastOf
    <2>3. Upto(t)[a] \in Nat /\ Upto(u)[b] \in Nat
      BY UptoIs
    <2>4. k \in 1..n /\ k - 1 \in 0..n /\ ~(k <= k - 1)
      <3>1. k \in 0..n
        BY <2>2
      <3>2. a + 0 = a /\ b + 0 = b
        BY <1>0
      <3>3. k # 0
        BY <2>2, <2>3, <3>2
      <3> QED
        BY <3>1, <3>3
    <2>5. k - 1 \notin Bad
      <3> HIDE DEF Bad
      <3> QED
        BY <2>2, <2>4
    <2>6. Upto(t)[a + (k - 1)] - Upto(t)[a] = Upto(u)[b + (k - 1)] - Upto(u)[b]
      BY <2>4, <2>5
    <2>7. a + k \in 1..Len(t) /\ b + k \in 1..Len(u) /\ (a + k) - 1 = a + (k - 1) /\ (b + k) - 1 = b + (k - 1)
      BY <2>4, <1>0
    <2>8. Upto(t)[a + k] = Upto(t)[a + (k - 1)] + Size(t[a + k])
      BY <2>7, UptoIs
    <2>9. Upto(u)[b + k] = Upto(u)[b + (k - 1)] + Size(t[a + k])
      BY <2>4, <2>7, UptoIs
    <2>10. t[a + k] \in Lines
      BY <2>7, ElementOfSeq
    <2>11. /\ Upto(t)[a + (k - 1)] \in Nat /\ Upto(u)[b + (k - 1)] \in Nat
           /\ Size(t[a + k]) \in Nat
      <3>1. a + (k - 1) \in 0..Len(t) /\ b + (k - 1) \in 0..Len(u)
        BY <2>7
      <3> QED
        BY <3>1, <2>10, UptoIs, SizeType
    <2> DEFINE p == Upto(t)[a + (k - 1)]
               q == Upto(u)[b + (k - 1)]
               x == Upto(t)[a]
               y == Upto(u)[b]
               z == Size(t[a + k])
    <2>12. /\ p - x = q - y
           /\ p \in Nat /\ q \in Nat /\ x \in Nat /\ y \in Nat /\ z \in Nat
      BY <2>3, <2>6, <2>11
    <2>13. Upto(t)[a + k] = p + z /\ Upto(u)[b + k] = q + z
      BY <2>8, <2>9
    <2>14. Upto(t)[a + k] - x = Upto(u)[b + k] - y
      <3> HIDE DEF p, q, x, y, z
      <3>1. (p + z) - x = (q + z) - y
        BY <2>12
      <3> QED
        BY <3>1, <2>13
    <2> QED
      BY <2>2, <2>14
  <1>2. n \in 0..n
    OBVIOUS
  <1> QED
    BY <1>1, <1>2

-----------------------------------------------------------------------------
LEMMA Removed ==
  ASSUME NEW t \in Seq(Lines), NEW i \in DOMAIN t
  PROVE  /\ RemoveAt(t, i) \in Seq(Lines)
         /\ Len(t) \in Nat \ {0} /\ i \in 1..Len(t)
         /\ Len(RemoveAt(t, i)) = Len(t) - 1
         /\ \A j \in 1..(Len(t) - 1) :
              RemoveAt(t, i)[j] = IF j < i THEN t[j] ELSE t[j + 1]
  <1> DEFINE a == SubSeq(t, 1, i - 1)
             b == SubSeq(t, i + 1, Len(t))
  <1>1. Len(t) \in Nat /\ i \in 1..Len(t)
    BY LenProperties
  <1>2. /\ a \in Seq(Lines) /\ Len(a) = i - 1
        /\ \A j \in 1..(i - 1) : a[j] = t[j]
    BY <1>1, SubSeqProperties, ElementOfSeq
  <1>3. /\ b \in Seq(Lines) /\ Len(b) = Len(t) - i
        /\ \A j \in 1..(Len(t) - i) : b[j] = t[i + j]
    <2>1. CASE i < Len(t)
      <3>1. i + 1 \in 1..(Len(t) + 1) /\ Len(t) \in (i + 1 - 1)..Len(t)
        BY <1>1, <2>1
      <3>2. /\ b \in Seq(Lines)
            /\ Len(b) = IF i + 1 <= Len(t) THEN Len(t) - (i + 1) + 1 ELSE 0
            /\ \A j \in 1..Len(t)-(i+1)+1 : b[j] = t[i + 1 + j - 1]
        BY <1>1, <3>1, SubSeqProperties, ElementOfSeq
      <3> QED
        BY <3>2, <2>1, <1>1
    <2>2. CASE i = Len(t)
      <3>1. b = <<>>
        BY <1>1, <2>2, SubSeqEmpty
      <3> QED
        BY <3>1, <2>2, <1>1, EmptySeq
    <2> QED
      BY <1>1, <2>1, <2>2
  <1>4. RemoveAt(t, i) = a \o b
    BY DEF RemoveAt
  <1> HIDE DEF a, b
  <1>5. /\ a \o b \in Seq(Lines) /\ Len(a \o b) = Len(t) - 1
        /\ \A j \in 1..(Len(t) - 1) :
             (a \o b)[j] = IF j <= i - 1 THEN a[j] ELSE b[j - (i - 1)]
    <2>1. /\ a \o b \in Seq(Lines) /\ Len(a \o b) = Len(a) + Len(b)
          /\ \A j \in 1..(Len(a) + Len(b)) :
               (a \o b)[j] = IF j <= Len(a) THEN a[j] ELSE b[j - Len(a)]
      BY <1>2, <1>3, ConcatProperties
    <2>2. Len(a) = i - 1 /\ Len(a) + Len(b) = Len(t) - 1
      BY <1>1, <1>2, <1>3
    <2> QED
      BY <2>1, <2>2
  <1>6. ASSUME NEW j \in 1..(Len(t) - 1)
        PROVE  (a \o b)[j] = IF j < i THEN t[j] ELSE t[j + 1]
    <2>1. CASE j < i
      BY <2>1, <1>1, <1>2, <1>5
    <2>2. CASE ~(j < i)
      <3>1. j - (i - 1) \in 1..(Len(t) - i) /\ i + (j - (i - 1)) = j + 1
        BY <2>2, <1>1
      <3>2. b[j - (i - 1)] = t[j + 1]
        BY <3>1, <1>3
      <3> QED
        BY <2>2, <3>2, <1>1, <1>5
    <2> QED
      BY <2>1, <2>2
  <1>7. /\ RemoveAt(t, i) \in Seq(Lines)
        /\ Len(RemoveAt(t, i)) = Len(t) - 1
    BY <1>4, <1>5
  <1>8. \A j \in 1..(Len(t) - 1) :
          RemoveAt(t, i)[j] = IF j < i THEN t[j] ELSE t[j + 1]
    BY <1>4, <1>6
  <1> QED
    BY <1>1, <1>7, <1>8

LEMMA TotalAppended ==
  ASSUME NEW t \in Seq(Lines), NEW l \in Lines
  PROVE  Total(Append(t, l)) = Total(t) + Size(l)
  <1> DEFINE u == Append(t, l)
             n == Len(t)
  <1>1. n \in Nat /\ u \in Seq(Lines) /\ Len(u) = n + 1 /\ u[n + 1] = l
        /\ \A i \in 1..n : u[i] = t[i]
    BY LenProperties, AppendProperties
  <1> HIDE DEF u
  <1>2. Upto(t)[0 + n] - Upto(t)[0] = Upto(u)[0 + n] - Upto(u)[0]
    <2>1. \A i \in 1..n : t[0 + i] = u[0 + i]
      BY <1>1
    <2>2. 0 \in 0..Len(t) /\ 0 \in 0..Len(u) /\ n \in Nat
          /\ 0 + n <= Len(t) /\ 0 + n <= Len(u)
      BY <1>1
    <2>3. SameRun(t, 0, u, 0, n)
      BY <1>1, <2>1, <2>2 DEF SameRun
    <2> QED
      BY <2>3, SumsFrom
  <1>3. Upto(t)[n] \in Nat /\ Upto(u)[n] \in Nat /\ Upto(t)[0] = 0 /\ Upto(u)[0] = 0
    <2>1. n \in 0..Len(t) /\ n \in 0..Len(u)
      BY <1>1
    <2> QED
      BY <1>1, <2>1, UptoIs, UptoType
  <1>4. Upto(t)[n] = Upto(u)[n]
    BY <1>1, <1>2, <1>3
  <1>5. Upto(u)[n + 1] = Upto(u)[n] + Size(l)
    BY <1>1, UptoIs
  <1> QED
    BY <1>1, <1>4, <1>5, TotalIsUpto DEF u

LEMMA TotalReplaced ==
  ASSUME NEW t \in Seq(Lines), NEW i \in DOMAIN t, NEW l \in Lines
  PROVE  Total([t EXCEPT ![i] = l]) = Total(t) + (Size(l) - Size(t[i]))
  <1> DEFINE u == [t EXCEPT ![i] = l]
             n == Len(t)
  <1>1. n \in Nat /\ i \in 1..n /\ u \in Seq(Lines) /\ Len(u) = n /\ u[i] = l
        /\ \A j \in 1..n : j # i => u[j] = t[j]
    BY LenProperties, ExceptSeq
  <1> HIDE DEF u
  <1>2. Upto(t)[0 + (i - 1)] - Upto(t)[0] = Upto(u)[0 + (i - 1)] - Upto(u)[0]
    <2>1. \A j \in 1..(i - 1) : t[0 + j] = u[0 + j]
      BY <1>1
    <2>2. 0 \in 0..Len(t) /\ 0 \in 0..Len(u) /\ i - 1 \in Nat
          /\ 0 + (i - 1) <= Len(t) /\ 0 + (i - 1) <= Len(u)
      BY <1>1
    <2>3. SameRun(t, 0, u, 0, i - 1)
      BY <1>1, <2>1, <2>2 DEF SameRun
    <2> QED
      BY <2>3, SumsFrom
  <1>3. Upto(t)[i + (n - i)] - Upto(t)[i] = Upto(u)[i + (n - i)] - Upto(u)[i]
    <2>1. \A j \in 1..(n - i) : t[i + j] = u[i + j]
      <3>1. \A j \in 1..(n - i) : i + j \in 1..n /\ i + j # i
        BY <1>1
      <3> QED
        BY <3>1, <1>1
    <2>2. i \in 0..Len(t) /\ i \in 0..Len(u) /\ n - i \in Nat
          /\ i + (n - i) <= Len(t) /\ i + (n - i) <= Len(u)
      BY <1>1
    <2>3. SameRun(t, i, u, i, n - i)
      BY <1>1, <2>1, <2>2 DEF SameRun
    <2> QED
      BY <2>3, SumsFrom
  <1>4. /\ Upto(t)[i] = Upto(t)[i - 1] + Size(t[i])
        /\ Upto(u)[i] = Upto(u)[i - 1] + Size(l)
    BY <1>1, UptoIs
  <1>5. /\ Upto(t)[i - 1] \in Nat /\ Upto(u)[i - 1] \in Nat
        /\ Upto(t)[n] \in Nat /\ Upto(u)[n] \in Nat
        /\ Upto(t)[0] = 0 /\ Upto(u)[0] = 0
        /\ Size(l) \in Nat /\ Size(t[i]) \in Nat
    <2>1. i - 1 \in 0..Len(t) /\ i - 1 \in 0..Len(u) /\ n \in 0..Len(t) /\ Len(u) \in 0..Len(u)
      BY <1>1
    <2>2. t[i] \in Lines
      BY <1>1, ElementOfSeq
    <2> QED
      BY <1>1, <2>1, <2>2, UptoIs, UptoType, SizeType
  <1>6. 0 + (i - 1) = i - 1 /\ i + (n - i) = n
    BY <1>1
  <1>7. Upto(t)[i - 1] - 0 = Upto(u)[i - 1] - 0
    BY <1>2, <1>5, <1>6
  <1>8. Upto(t)[n] - Upto(t)[i] = Upto(u)[n] - Upto(u)[i]
    BY <1>3, <1>6
  <1> DEFINE p == Upto(t)[i - 1]
             q == Upto(u)[i - 1]
             x == Upto(t)[n]
             y == Upto(u)[n]
             c == Size(t[i])
             d == Size(l)
  <1>9. p = q /\ x - (p + c) = y - (q + d)
    BY <1>4, <1>5, <1>7, <1>8
  <1>10. y = x + (d - c)
    <2>1. {p, q, x, y, c, d} \subseteq Nat
      BY <1>5
    <2> HIDE DEF p, q, x, y, c, d
    <2> QED
      BY <2>1, <1>9
  <1> QED
    BY <1>1, <1>10, TotalIsUpto DEF u

LEMMA TotalRemoved ==
  ASSUME NEW t \in Seq(Lines), NEW i \in DOMAIN t
  PROVE  Total(RemoveAt(t, i)) = Total(t) - Size(t[i])
  <1> DEFINE u == RemoveAt(t, i)
             n == Len(t)
  <1>1. n \in Nat /\ i \in 1..n /\ u \in Seq(Lines) /\ Len(u) = n - 1
        /\ \A j \in 1..(n - 1) : u[j] = IF j < i THEN t[j] ELSE t[j + 1]
    BY Removed
  <1> HIDE DEF u
  <1>2. Upto(t)[0 + (i - 1)] - Upto(t)[0] = Upto(u)[0 + (i - 1)] - Upto(u)[0]
    <2>1. \A j \in 1..(i - 1) : t[0 + j] = u[0 + j]
      BY <1>1
    <2>2. 0 \in 0..Len(t) /\ 0 \in 0..Len(u) /\ i - 1 \in Nat
          /\ 0 + (i - 1) <= Len(t) /\ 0 + (i - 1) <= Len(u)
      BY <1>1
    <2>3. SameRun(t, 0, u, 0, i - 1)
      BY <1>1, <2>1, <2>2 DEF SameRun
    <2> QED
      BY <2>3, SumsFrom
  <1>3. Upto(t)[i + (n - i)] - Upto(t)[i]
          = Upto(u)[(i - 1) + (n - i)] - Upto(u)[i - 1]
    <2>1. \A j \in 1..(n - i) : t[i + j] = u[(i - 1) + j]
      <3>1. SUFFICES ASSUME NEW j \in 1..(n - i)
                     PROVE  t[i + j] = u[(i - 1) + j]
        OBVIOUS
      <3>2. (i - 1) + j \in 1..(n - 1) /\ ~((i - 1) + j < i) /\ ((i - 1) + j) + 1 = i + j
        BY <1>1
      <3> QED
        BY <3>2, <1>1
    <2>2. i \in 0..Len(t) /\ i - 1 \in 0..Len(u) /\ n - i \in Nat
          /\ i + (n - i) <= Len(t) /\ (i - 1) + (n - i) <= Len(u)
      BY <1>1
    <2>3. SameRun(t, i, u, i - 1, n - i)
      BY <1>1, <2>1, <2>2 DEF SameRun
    <2> QED
      BY <2>3, SumsFrom
  <1>4. Upto(t)[i] = Upto(t)[i - 1] + Size(t[i])
    BY <1>1, UptoIs
  <1>5. /\ Upto(t)[i - 1] \in Nat /\ Upto(u)[i - 1] \in Nat
        /\ Upto(t)[n] \in Nat /\ Upto(u)[n - 1] \in Nat
        /\ Upto(t)[0] = 0 /\ Upto(u)[0] = 0 /\ Size(t[i]) \in Nat
    <2>1. i - 1 \in 0..Len(t) /\ i - 1 \in 0..Len(u) /\ n \in 0..Len(t) /\ Len(u) \in 0..Len(u)
      BY <1>1
    <2>2. t[i] \in Lines
      BY <1>1, ElementOfSeq
    <2> QED
      BY <1>1, <2>1, <2>2, UptoIs, UptoType, SizeType
  <1>6. 0 + (i - 1) = i - 1 /\ i + (n - i) = n /\ (i - 1) + (n - i) = n - 1
    BY <1>1
  <1>7. Upto(t)[i - 1] - 0 = Upto(u)[i - 1] - 0
    BY <1>2, <1>5, <1>6
  <1>8. Upto(t)[n] - Upto(t)[i] = Upto(u)[n - 1] - Upto(u)[i - 1]
    BY <1>3, <1>6
  <1> DEFINE p == Upto(t)[i - 1]
             q == Upto(u)[i - 1]
             x == Upto(t)[n]
             y == Upto(u)[n - 1]
             c == Size(t[i])
  <1>9. p = q /\ x - (p + c) = y - q
    BY <1>4, <1>5, <1>7, <1>8
  <1>10. y = x - c
    <2>1. {p, q, x, y, c} \subseteq Nat
      BY <1>5
    <2> HIDE DEF p, q, x, y, c
    <2> QED
      BY <2>1, <1>9
  <1> QED
    BY <1>1, <1>10, TotalIsUpto DEF u

-----------------------------------------------------------------------------
(* save_config runs to its end within a round, on a text that has changed; *)
(* there is no text while config is NULL.                                  *)
Opened ==
  /\ writing => up /\ conf.modified
  /\ conf.modified => conf.loaded
  /\ ~conf.loaded => conf = NoConfig

(* Only a disk that fails leaves a line without its newline. *)
Ended(t) == \A i \in DOMAIN t : t[i].eol
LinesEnded == ~hurt => Ended(file) /\ Ended(conf.text)

(* A key that stands before a name, or before what may be cut to one, was  *)
(* given for a network with that name, or one that begins with it.  In a   *)
(* line with its newline the name is the network's own, perhaps clipped.   *)
Own(l, n) == /\ Read(l) \subseteq {n} \cup Begins[n]
             /\ l.eol /\ l.name \in Names => l.name \in {n, Clip[n]}
LineGenuine(l, g) ==
  l.key # BadPsk /\ Read(l) # {} => \E n \in SSIDs : l.key \in g[n] /\ Own(l, n)
Genuine(t, g) == \A i \in DOMAIN t : LineGenuine(t[i], g)
LinesGenuine == Genuine(file, given) /\ Genuine(conf.text, given)

(* The form in which save_psk writes a name that is too long for it is not    *)
(* the name of a network, and find_ssid has room for every name.           *)
NamesApart == \A s \in SSIDs : Width[s] <= 95 /\ (Width[s] > 29 => Clip[s] \notin SSIDs)

(* save_psk has room for every name. *)
ShortNames == \A s \in SSIDs : Width[s] <= 29

BaseInv == TypeOK /\ InBlock /\ Opened /\ Synced /\ LinesEnded
KeyInv  == BaseInv /\ OneLine /\ LinesGenuine

USE FileAssumption

Fits(c) ==
  /\ c \in Configs
  /\ c.loaded => /\ c.datalen = Total(c.text)
                 /\ c.datalen <= c.blocklen
                 /\ c.blocklen <= c.mapped
  /\ c.modified => c.loaded
  /\ ~c.loaded => c = NoConfig

LEMMA ConfigFields ==
  ASSUME NEW c \in Configs
  PROVE  /\ c.loaded \in BOOLEAN /\ c.text \in Seq(Lines) /\ c.datalen \in Nat
         /\ c.blocklen \in Nat /\ c.mapped \in Nat /\ c.modified \in BOOLEAN
  BY DEF Configs

LEMMA LineFields ==
  ASSUME NEW l \in Lines
  PROVE  /\ l.key \in PSKs \cup {BadPsk} /\ l.name \in Names \cup {NoName, Junk}
         /\ l.stems \in SUBSET Names /\ l.len \in Nat /\ l.eol \in BOOLEAN
  BY DEF Lines

LEMMA AlignedUp ==
  ASSUME NEW n \in Nat
  PROVE  Aligned(n) \in Nat /\ Aligned(n) >= n
  <1>1. n % Page \in 0..(Page - 1)
    OBVIOUS
  <1>2. (Page - (n % Page)) % Page \in Nat
    <2>1. Page - (n % Page) \in Int
      BY <1>1
    <2> QED
      BY <2>1
  <1> QED
    BY <1>2 DEF Aligned

LEMMA Extended ==
  ASSUME NEW c \in Configs, c.blocklen <= c.mapped, NEW n \in Int, c.datalen + n >= 0
  PROVE  LET e == extend_config(c, n)
         IN /\ e \in Configs
            /\ e.loaded = c.loaded /\ e.text = c.text /\ e.modified = c.modified
            /\ e.datalen = c.datalen + n
            /\ e.datalen <= e.blocklen /\ e.blocklen <= e.mapped
  <1> DEFINE len == c.datalen + n
             d   == [c EXCEPT !.datalen = len]
             e   == extend_config(c, n)
             a   == c.blocklen + Aligned(len)
  <1>1. len \in Nat /\ c.blocklen \in Nat
    BY ConfigFields
  <1>2. a \in Nat /\ len <= a
    BY <1>1, AlignedUp
  <1>3. /\ d \in Configs /\ d.loaded = c.loaded /\ d.text = c.text
        /\ d.modified = c.modified /\ d.datalen = len
        /\ d.blocklen = c.blocklen /\ d.mapped = c.mapped
    BY <1>1 DEF Configs
  <1>4. e = IF Outgrows(c, n) THEN [d EXCEPT !.blocklen = len, !.mapped = a] ELSE d
    BY DEF extend_config
  <1> HIDE DEF d, len, a, e
  <1>5. CASE Outgrows(c, n)
    <2>1. /\ e \in Configs /\ e.loaded = d.loaded /\ e.text = d.text
          /\ e.modified = d.modified /\ e.datalen = d.datalen
          /\ e.blocklen = len /\ e.mapped = a
      BY <1>1, <1>2, <1>3, <1>4, <1>5 DEF Configs
    <2> QED
      BY <1>1, <1>2, <1>3, <2>1 DEF len, e
  <1>6. CASE ~Outgrows(c, n)
    <2>1. len <= c.blocklen
      BY <1>1, <1>6 DEF Outgrows, len
    <2> QED
      BY <1>3, <1>4, <1>6, <2>1 DEF len, e
  <1> QED
    BY <1>5, <1>6

LEMMA MarkFits ==
  ASSUME NEW c, Fits(c), c.loaded
  PROVE  LET m == [c EXCEPT !.modified = TRUE]
         IN Fits(m) /\ m.loaded /\ m.modified /\ m.text = c.text
  BY ConfigFields DEF Fits, Configs

LEMMA ChangedFits ==
  ASSUME NEW c, Fits(c), c.loaded, NEW i \in DOMAIN c.text, NEW new \in Lines,
         NEW grow
  PROVE  LET r == change_part(c, i, new, grow)
         IN /\ Fits(r) /\ r.loaded
            /\ r.text = c.text
               \/ r.text = [c.text EXCEPT ![i] = [new EXCEPT !.eol = c.text[i].eol]]
  <1> DEFINE n == new.len - c.text[i].len
             l == [new EXCEPT !.eol = c.text[i].eol]
             u == [c.text EXCEPT ![i] = l]
  <1>1. c \in Configs /\ c.text \in Seq(Lines) /\ c.datalen \in Nat
        /\ c.datalen = Total(c.text)
    BY ConfigFields DEF Fits
  <1>2. c.text[i] \in Lines
    BY <1>1, ElementOfSeq, LenProperties
  <1>3. n \in Int /\ l \in Lines /\ l.len = new.len /\ l.eol = c.text[i].eol
    BY <1>2, LineFields DEF Lines
  <1>30. u \in Seq(Lines)
    BY <1>1, <1>3, ExceptSeq
  <1>4. Total(u) = c.datalen + n
    <2>1. Total(u) = c.datalen + (Size(l) - Size(c.text[i]))
      <3> HIDE DEF l, n
      <3>1. Total(u) = Total(c.text) + (Size(l) - Size(c.text[i]))
        BY <1>1, <1>3, TotalReplaced
      <3> QED
        BY <1>1, <3>1
    <2>2. Size(l) - Size(c.text[i]) = n
      BY <1>2, <1>3, LineFields DEF Size
    <2> QED
      BY <2>1, <2>2
  <1>5. CASE ~extends(c, n, grow)
    BY <1>5 DEF change_part
  <1>6. CASE extends(c, n, grow)
    <2> DEFINE e == extend_config(c, n)
               r == change_part(c, i, new, grow)
    <2>1. c.datalen + n >= 0 /\ c.blocklen <= c.mapped
      BY <1>6 DEF extends, Fits
    <2>2. /\ e \in Configs /\ e.loaded /\ e.text = c.text
          /\ e.datalen = c.datalen + n
          /\ e.datalen <= e.blocklen /\ e.blocklen <= e.mapped
      BY <1>1, <1>3, <2>1, Extended
    <2>3. r = [e EXCEPT !.text[i] = l]
      BY <1>6 DEF change_part
    <2> HIDE DEF e, r, l
    <2>4. /\ r \in Configs /\ r.loaded = e.loaded /\ r.datalen = e.datalen
          /\ r.text = [e.text EXCEPT ![i] = l]
          /\ r.blocklen = e.blocklen /\ r.mapped = e.mapped
      BY <1>30, <2>2, <2>3 DEF Configs
    <2>5. Fits(r) /\ r.loaded /\ r.text = u
      BY <1>4, <2>2, <2>4 DEF Fits
    <2> QED
      BY <2>5 DEF r, l
  <1> QED
    BY <1>5, <1>6

LEMMA JoinedLine ==
  ASSUME NEW l \in Lines, NEW new \in Lines
  PROVE  /\ Joined(l, new) \in Lines
         /\ Joined(l, new).len = l.len + new.len
         /\ Joined(l, new).eol = new.eol
         /\ Joined(l, new).key = IF l.name = NoName THEN BadPsk ELSE l.key
         /\ Joined(l, new).name = IF l.name = NoName THEN new.name ELSE Junk
         /\ Joined(l, new).stems = IF l.name = NoName THEN new.stems ELSE Read(l)
  <1> DEFINE k == IF l.name = NoName THEN BadPsk ELSE l.key
             m == IF l.name = NoName THEN new.name ELSE Junk
             r == IF l.name = NoName THEN new.stems ELSE Read(l)
             n == l.len + new.len
  <1>1. /\ k \in PSKs \cup {BadPsk} /\ m \in Names \cup {NoName, Junk} /\ n \in Nat
        /\ r \in SUBSET Names
    BY LineFields DEF Read
  <1>2. Joined(l, new) = [new EXCEPT !.len = n, !.key = k, !.name = m, !.stems = r]
    BY DEF Joined
  <1> HIDE DEF k, m, n, r
  <1>3. LET j == [new EXCEPT !.len = n, !.key = k, !.name = m, !.stems = r]
        IN /\ j \in Lines /\ j.len = n /\ j.eol = new.eol /\ j.key = k
           /\ j.name = m /\ j.stems = r
    BY <1>1 DEF Lines
  <1> QED
    BY <1>2, <1>3 DEF k, m, n, r

LEMMA InsertedFits ==
  ASSUME NEW c, Fits(c), c.loaded, NEW new \in Lines, new.eol, NEW grow
  PROVE  LET r == insert_line(c, new, grow)
             n == Len(c.text)
         IN /\ Fits(r) /\ r.loaded
            /\ \/ r.text = c.text
               \/ /\ n > 0 /\ ~c.text[n].eol
                  /\ r.text = [c.text EXCEPT ![n] = Joined(c.text[n], new)]
               \/ /\ n > 0 => c.text[n].eol
                  /\ r.text = Append(c.text, new)
  <1> DEFINE n == Len(c.text)
             k == new.len + 1
  <1>1. c \in Configs /\ c.text \in Seq(Lines) /\ c.datalen \in Nat
        /\ c.datalen = Total(c.text) /\ n \in Nat /\ c.modified \in BOOLEAN
    BY ConfigFields, LenProperties DEF Fits
  <1>2. k \in Nat /\ c.datalen + k >= 0 /\ Size(new) = k
    BY <1>1, LineFields DEF Size
  <1>3. CASE ~extends(c, k, grow)
    BY <1>3 DEF insert_line
  <1>4. CASE extends(c, k, grow)
    <2> DEFINE e == extend_config(c, k)
               r == insert_line(c, new, grow)
    <2>1. c.blocklen <= c.mapped
      BY DEF Fits
    <2>2. /\ e \in Configs /\ e.loaded /\ e.text = c.text
          /\ e.datalen = c.datalen + k
          /\ e.datalen <= e.blocklen /\ e.blocklen <= e.mapped
      BY <1>1, <1>2, <2>1, Extended
    <2>3. r = IF n > 0 /\ ~c.text[n].eol
              THEN [e EXCEPT !.text[n] = Joined(e.text[n], new)]
              ELSE [e EXCEPT !.text = Append(e.text, new)]
      BY <1>4 DEF insert_line
    <2> HIDE DEF e, r
    <2>4. CASE n > 0 /\ ~c.text[n].eol
      <3> DEFINE l == Joined(c.text[n], new)
                 u == [c.text EXCEPT ![n] = l]
      <3>1. n \in DOMAIN c.text /\ c.text[n] \in Lines
        BY <1>1, <2>4, ElementOfSeq, LenProperties
      <3>2. l.len = c.text[n].len + new.len /\ l.eol = new.eol /\ l \in Lines
        <4> DEFINE x == c.text[n]
        <4>1. x \in Lines
          BY <3>1
        <4> HIDE DEF x
        <4>2. /\ Joined(x, new).len = x.len + new.len
              /\ Joined(x, new).eol = new.eol /\ Joined(x, new) \in Lines
          BY <4>1, JoinedLine
        <4> QED
          BY <4>2 DEF x
      <3>3. u \in Seq(Lines)
        BY <1>1, <3>1, <3>2, ExceptSeq, LenProperties
      <3>4. Total(u) = c.datalen + k
        <4>1. Total(u) = c.datalen + (Size(l) - Size(c.text[n]))
          BY <1>1, <3>1, <3>2, TotalReplaced
        <4>2. Size(l) - Size(c.text[n]) = k
          BY <2>4, <3>1, <3>2, LineFields DEF Size
        <4> QED
          BY <4>1, <4>2
      <3> HIDE DEF l
      <3>5. r = [e EXCEPT !.text[n] = l]
        BY <2>2, <2>3, <2>4 DEF l
      <3>6. /\ r \in Configs /\ r.loaded = e.loaded /\ r.datalen = e.datalen
            /\ r.text = [e.text EXCEPT ![n] = l]
            /\ r.blocklen = e.blocklen /\ r.mapped = e.mapped
        BY <2>2, <3>3, <3>5 DEF Configs
      <3>7. Fits(r) /\ r.loaded /\ r.text = u
        BY <2>2, <3>4, <3>6 DEF Fits
      <3> QED
        BY <2>4, <3>7 DEF r, l
    <2>5. CASE ~(n > 0 /\ ~c.text[n].eol)
      <3> DEFINE u == Append(c.text, new)
      <3>1. u \in Seq(Lines) /\ Total(u) = c.datalen + k
        BY <1>1, <1>2, TotalAppended, AppendProperties
      <3>2. r = [e EXCEPT !.text = u]
        BY <2>2, <2>3, <2>5
      <3> HIDE DEF u
      <3>3. /\ r \in Configs /\ r.loaded = e.loaded /\ r.datalen = e.datalen
            /\ r.text = u /\ r.blocklen = e.blocklen /\ r.mapped = e.mapped
        BY <2>2, <3>1, <3>2 DEF Configs
      <3>4. Fits(r) /\ r.loaded
        BY <2>2, <3>1, <3>3 DEF Fits
      <3> QED
        BY <2>5, <3>3, <3>4 DEF r, u
    <2> QED
      BY <2>4, <2>5
  <1> QED
    BY <1>3, <1>4

LEMMA DroppedFits ==
  ASSUME NEW c, Fits(c), c.loaded, NEW i \in DOMAIN c.text, ~DropFaults(c, i)
  PROVE  LET r == drop_line(c, i)
         IN /\ Fits(r) /\ r.loaded
            /\ \/ r = c
               \/ r.modified /\ r.text = RemoveAt(c.text, i)
  <1> DEFINE n == -(c.text[i].len + 1)
             u == RemoveAt(c.text, i)
  <1>1. c \in Configs /\ c.text \in Seq(Lines) /\ c.datalen \in Nat
        /\ c.datalen = Total(c.text)
    BY ConfigFields DEF Fits
  <1>2. c.text[i] \in Lines /\ c.text[i].len \in Nat
    BY <1>1, ElementOfSeq, LenProperties, LineFields
  <1>3. CASE c.datalen - c.text[i].len - 1 < 0
    BY <1>3 DEF drop_line
  <1>4. CASE ~(c.datalen - c.text[i].len - 1 < 0)
    <2> DEFINE e == extend_config(c, n)
               r == drop_line(c, i)
    <2>1. c.text[i].eol /\ n \in Int /\ c.datalen + n >= 0 /\ c.blocklen <= c.mapped
      BY <1>1, <1>2, <1>4 DEF DropFaults, Fits
    <2>2. /\ e \in Configs /\ e.loaded /\ e.text = c.text
          /\ e.datalen = c.datalen + n
          /\ e.datalen <= e.blocklen /\ e.blocklen <= e.mapped
      BY <1>1, <2>1, Extended
    <2>3. u \in Seq(Lines) /\ Total(u) = c.datalen + n
      <3>1. Size(c.text[i]) = c.text[i].len + 1
        BY <2>1, <1>2 DEF Size
      <3> QED
        BY <1>1, <1>2, <3>1, Removed, TotalRemoved
    <2>4. r = [e EXCEPT !.text = RemoveAt(e.text, i), !.modified = TRUE]
      BY <1>4 DEF drop_line
    <2>5. r = [e EXCEPT !.text = u, !.modified = TRUE]
      BY <2>2, <2>4
    <2> HIDE DEF e, r, u
    <2>6. /\ r \in Configs /\ r.loaded = e.loaded /\ r.datalen = e.datalen
          /\ r.text = u /\ r.modified
          /\ r.blocklen = e.blocklen /\ r.mapped = e.mapped
      BY <2>2, <2>3, <2>5 DEF Configs
    <2>7. Fits(r) /\ r.loaded
      BY <2>2, <2>3, <2>6 DEF Fits
    <2> QED
      BY <2>6, <2>7 DEF r, u
  <1> QED
    BY <1>3, <1>4

LEMMA MappedFits ==
  ASSUME NEW t \in Seq(Lines), NEW n \in Nat, Total(t) <= n
  PROVE  /\ Fits(Mapped(t, n)) /\ Mapped(t, n).loaded /\ ~Mapped(t, n).modified
         /\ Mapped(t, n).text = t
  <1>1. Total(t) \in Nat
    BY TotalType
  <1>2. n + Slack \in Nat /\ n <= n + Slack
    OBVIOUS
  <1>3. Aligned(n + Slack) \in Nat /\ Aligned(n + Slack) >= n + Slack
    BY <1>2, AlignedUp
  <1>4. Total(t) <= Aligned(n + Slack)
    BY <1>1, <1>2, <1>3
  <1> QED
    BY <1>1, <1>3, <1>4 DEF Mapped, Fits, Configs

LEMMA NoConfigFits == Fits(NoConfig)
  <1>1. <<>> \in Seq(Lines)
    BY EmptySeq
  <1> QED
    BY <1>1 DEF Fits, NoConfig, Configs

(* What handlers start from: load_config leaves a buffer it has, and reads the  *)
(* file only without one.                                                  *)
Loaded(c) ==
  /\ Fits(c)
  /\ \/ c = conf
     \/ /\ ~conf.loaded /\ c.loaded /\ ~c.modified
        /\ \/ c.text = file
           \/ hurt /\ c.text = <<>>

LEMMA LoadGives ==
  ASSUME file \in Seq(Lines), Fits(conf), NEW how \in Hows
  PROVE  /\ Loaded(load_config(conf, how))
         /\ Loads(conf, how) => load_config(conf, how).loaded
  <1>1. CASE conf.loaded
    BY <1>1 DEF load_config, Loaded
  <1>2. CASE ~conf.loaded
    <2> DEFINE n == Total(file)
    <2>1. n \in Nat /\ <<>> \in Seq(Lines) /\ Total(<<>>) = 0
      BY TotalType, TotalEmpty, EmptySeq
    <2> HIDE DEF n
    <2>2. CASE how = "READ"
      <3>1. load_config(conf, how) = Mapped(file, n)
        BY <1>2, <2>2 DEF load_config, n
      <3>2. n <= n /\ Total(file) = n
        BY <2>1 DEF n
      <3> QED
        BY <1>2, <2>1, <3>1, <3>2, MappedFits DEF Loaded
    <2>3. CASE how = "NOOPEN"
      <3>1. load_config(conf, how) = Mapped(<<>>, 0) /\ hurt
        BY <1>2, <2>3 DEF load_config, Hows
      <3>2. /\ Fits(Mapped(<<>>, 0)) /\ Mapped(<<>>, 0).loaded
            /\ ~Mapped(<<>>, 0).modified /\ Mapped(<<>>, 0).text = <<>>
        <4> DEFINE t == <<>>
        <4>1. t \in Seq(Lines) /\ Total(t) <= 0 /\ 0 \in Nat
          BY <2>1
        <4> HIDE DEF t
        <4>2. /\ Fits(Mapped(t, 0)) /\ Mapped(t, 0).loaded
              /\ ~Mapped(t, 0).modified /\ Mapped(t, 0).text = t
          BY <4>1, MappedFits
        <4> QED
          BY <4>2 DEF t
      <3> QED
        BY <1>2, <3>1, <3>2, Zenon DEF Loaded
    <2>4. CASE how = "NOREAD"
      <3>1. load_config(conf, how) = Mapped(<<>>, n) /\ hurt
        BY <1>2, <2>4 DEF load_config, Hows, n
      <3>2. /\ Fits(Mapped(<<>>, n)) /\ Mapped(<<>>, n).loaded
            /\ ~Mapped(<<>>, n).modified /\ Mapped(<<>>, n).text = <<>>
        <4> DEFINE t == <<>>
        <4>1. t \in Seq(Lines) /\ Total(t) <= n /\ n \in Nat
          BY <2>1
        <4> HIDE DEF t
        <4>2. /\ Fits(Mapped(t, n)) /\ Mapped(t, n).loaded
              /\ ~Mapped(t, n).modified /\ Mapped(t, n).text = t
          BY <4>1, MappedFits
        <4> QED
          BY <4>2 DEF t
      <3> QED
        BY <1>2, <3>1, <3>2, Zenon DEF Loaded
    <2>5. CASE how = "NOMAP"
      <3>1. load_config(conf, how) = conf /\ ~Loads(conf, how)
        BY <1>2, <2>5 DEF load_config, Loads
      <3> QED
        BY <3>1 DEF Loaded
    <2> QED
      BY <2>2, <2>3, <2>4, <2>5 DEF Hows
  <1> QED
    BY <1>1, <1>2

(* find_ssid returns a line that names the network, if there is one. *)
LEMMA FoundLine ==
  ASSUME NEW t \in Seq(Lines), NEW s \in SSIDs
  PROVE  \/ /\ find_ssid(t, s) = 0
            /\ \A i \in DOMAIN t : t[i].name # Sought(s)
         \/ /\ find_ssid(t, s) \in DOMAIN t /\ find_ssid(t, s) > 0
            /\ t[find_ssid(t, s)].name = Sought(s)
  <1> DEFINE I == {i \in 1..Len(t) : t[i].name = Sought(s)}
  <1>1. find_ssid(t, s) = IF I # {} THEN Min(I) ELSE 0
    BY DEF find_ssid, find_line, SelectInSeq
  <1>2. Len(t) \in Nat /\ DOMAIN t = 1..Len(t)
    BY LenProperties
  <1>3. CASE I = {}
    BY <1>1, <1>2, <1>3
  <1>4. CASE I # {}
    <2>1. I \in SUBSET Nat
      BY <1>2
    <2> HIDE DEF I
    <2>2. \E m \in I : \A n \in I : m <= n
      BY <1>4, <2>1, LeastOf
    <2>3. Min(I) \in I
      BY <2>2 DEF Min
    <2> QED
      BY <1>1, <1>2, <1>4, <2>3 DEF I
  <1> QED
    BY <1>3, <1>4

LEMMA NewLineType ==
  ASSUME NEW s \in SSIDs, NEW k \in PSKs
  PROVE  LET new == NewLine(s, k)
         IN /\ new \in Lines /\ new.eol /\ new.key = k /\ new.name = Written(s)
            /\ new.stems = Begins[Written(s)]
  <1>1. Written(s) \in Names
    BY DEF Written, fmt_ssid, Names
  <1>2. 65 + Width[Written(s)] \in Nat /\ Begins[Written(s)] \in SUBSET Names
    BY <1>1, NamesAssumption
  <1> QED
    BY <1>1, <1>2 DEF NewLine, Lines

(* What save_psk makes of the text t. *)
SavedText(t, u, s, k) ==
  \/ u = t
  \/ \E i \in DOMAIN t, l \in Lines :
       /\ t[i].name = Sought(s) /\ l.key = k /\ l.name = Written(s)
       /\ l.stems = Begins[Written(s)] /\ l.eol = t[i].eol /\ u = [t EXCEPT ![i] = l]
  \/ /\ \A i \in DOMAIN t : t[i].name # Sought(s)
     /\ \/ /\ Len(t) > 0 /\ ~t[Len(t)].eol
           /\ u = [t EXCEPT ![Len(t)] = Joined(t[Len(t)], NewLine(s, k))]
        \/ (Len(t) > 0 => t[Len(t)].eol) /\ u = Append(t, NewLine(s, k))

(* And drop_psk. *)
DroppedText(t, u, s) ==
  \E i \in DOMAIN t : t[i].name = Sought(s) /\ u = RemoveAt(t, i)

LEMMA SavedLine ==
  ASSUME NEW c, Fits(c), c.loaded, NEW s \in SSIDs, NEW k \in PSKs, NEW grow
  PROVE  LET r == save_line(c, find_ssid(c.text, s), NewLine(s, k), grow)
         IN Fits(r) /\ r.loaded /\ r.modified /\ SavedText(c.text, r.text, s, k)
  <1> DEFINE i == find_ssid(c.text, s)
             new == NewLine(s, k)
             q == IF i > 0 THEN change_part(c, i, new, grow) ELSE insert_line(c, new, grow)
             r == save_line(c, i, new, grow)
  <1>1. c.text \in Seq(Lines)
    BY ConfigFields DEF Fits
  <1>2. /\ new \in Lines /\ new.eol /\ new.key = k /\ new.name = Written(s)
        /\ new.stems = Begins[Written(s)]
    BY NewLineType
  <1>3. r = [q EXCEPT !.modified = TRUE]
    BY DEF save_line
  <1>4. \/ i = 0 /\ \A j \in DOMAIN c.text : c.text[j].name # Sought(s)
        \/ i \in DOMAIN c.text /\ i > 0 /\ c.text[i].name = Sought(s)
    BY <1>1, FoundLine
  <1> HIDE DEF i, new, r
  <1>5. Fits(q) /\ q.loaded /\ SavedText(c.text, q.text, s, k)
    <2>1. CASE i \in DOMAIN c.text /\ i > 0 /\ c.text[i].name = Sought(s)
      <3> DEFINE l == [new EXCEPT !.eol = c.text[i].eol]
      <3>1. q = change_part(c, i, new, grow)
        BY <2>1
      <3>2. /\ Fits(q) /\ q.loaded
            /\ q.text = c.text \/ q.text = [c.text EXCEPT ![i] = l]
        BY <1>2, <2>1, <3>1, ChangedFits
      <3>3. c.text[i] \in Lines
        BY <1>1, <2>1, ElementOfSeq, LenProperties
      <3>4. /\ l \in Lines /\ l.key = k /\ l.name = Written(s)
            /\ l.stems = Begins[Written(s)] /\ l.eol = c.text[i].eol
        BY <1>2, <3>3, LineFields DEF Lines
      <3> HIDE DEF l, q
      <3> QED
        BY <2>1, <3>2, <3>4 DEF SavedText
    <2>2. CASE i = 0 /\ \A j \in DOMAIN c.text : c.text[j].name # Sought(s)
      <3>1. q = insert_line(c, new, grow)
        BY <2>2
      <3> DEFINE n == Len(c.text)
      <3>2. /\ Fits(q) /\ q.loaded
            /\ \/ q.text = c.text
               \/ /\ n > 0 /\ ~c.text[n].eol
                  /\ q.text = [c.text EXCEPT ![n] = Joined(c.text[n], new)]
               \/ /\ n > 0 => c.text[n].eol
                  /\ q.text = Append(c.text, new)
        <4> HIDE DEF q
        <4> QED
          BY <1>2, <3>1, InsertedFits
      <3> HIDE DEF q
      <3> QED
        BY <2>2, <3>2 DEF SavedText, new
    <2> QED
      BY <1>4, <2>1, <2>2
  <1> HIDE DEF q
  <1>6. Fits(r) /\ r.loaded /\ r.modified /\ r.text = q.text
    BY <1>3, <1>5, MarkFits
  <1> QED
    BY <1>5, <1>6 DEF r, i, new

(* A handler stops the daemon, or leaves the buffer, or changes its text. *)
LEMMA SaveChanges ==
  ASSUME TypeOK, Fits(conf), NEW s \in SSIDs, NEW k \in PSKs, SavePsk(s, k)
  PROVE  /\ Fits(conf')
         /\ \/ ~up' /\ conf' = NoConfig
            \/ /\ up' = up
               /\ \E c : /\ Loaded(c)
                         /\ \/ conf' = c
                            \/ /\ c.loaded /\ conf'.loaded /\ conf'.modified
                               /\ SavedText(c.text, conf'.text, s, k)
  <1>1. PICK how \in Hows, grow \in Grows :
          LET c == load_config(conf, how)
          IN IF ~Loads(conf, how) THEN conf' = c /\ UNCHANGED up
             ELSE /\ CanGrow(c, grow)
                  /\ IF InsertFaults(c, s, k, grow) THEN Gone
                     ELSE /\ conf' = save_line(c, find_ssid(c.text, s),
                                               NewLine(s, k), grow)
                          /\ UNCHANGED up
    BY DEF SavePsk, SaveWith
  <1> DEFINE c == load_config(conf, how)
  <1>2. Loaded(c) /\ (Loads(conf, how) => c.loaded)
    BY LoadGives DEF TypeOK
  <1>3. Fits(c)
    BY <1>2 DEF Loaded
  <1>4. CASE ~Loads(conf, how)
    <2>1. conf' = c /\ up' = up
      BY <1>1, <1>4
    <2> QED
      BY <1>2, <1>3, <2>1
  <1>5. CASE Loads(conf, how) /\ InsertFaults(c, s, k, grow)
    <2>1. ~up' /\ conf' = NoConfig
      BY <1>1, <1>5 DEF Gone
    <2> QED
      BY <2>1, NoConfigFits
  <1>6. CASE Loads(conf, how) /\ ~InsertFaults(c, s, k, grow)
    <2>1. conf' = save_line(c, find_ssid(c.text, s), NewLine(s, k), grow) /\ up' = up
      BY <1>1, <1>6
    <2> HIDE DEF c
    <2>2. /\ Fits(conf') /\ conf'.loaded /\ conf'.modified
          /\ SavedText(c.text, conf'.text, s, k)
      BY <1>2, <1>3, <1>6, <2>1, SavedLine
    <2> QED
      BY <1>2, <1>6, <2>1, <2>2
  <1> QED
    BY <1>4, <1>5, <1>6

LEMMA DropChanges ==
  ASSUME TypeOK, Fits(conf), NEW s \in SSIDs, DropPsk(s)
  PROVE  /\ Fits(conf')
         /\ \/ ~up' /\ conf' = NoConfig
            \/ /\ up' = up
               /\ \E c : /\ Loaded(c)
                         /\ \/ conf' = c
                            \/ /\ c.loaded /\ conf'.loaded /\ conf'.modified
                               /\ DroppedText(c.text, conf'.text, s)
  <1>1. PICK how \in Hows :
          LET c == load_config(conf, how)
              i == find_ssid(c.text, s)
          IN IF ~Loads(conf, how) \/ i = 0 THEN conf' = c /\ UNCHANGED up
             ELSE IF DropFaults(c, i) THEN Gone
             ELSE conf' = drop_line(c, i) /\ UNCHANGED up
    BY DEF DropPsk
  <1> DEFINE c == load_config(conf, how)
             i == find_ssid(c.text, s)
  <1>2. Loaded(c) /\ (Loads(conf, how) => c.loaded)
    BY LoadGives DEF TypeOK
  <1>3. Fits(c)
    BY <1>2 DEF Loaded
  <1>4. CASE ~Loads(conf, how) \/ i = 0
    <2>1. conf' = c /\ up' = up
      BY <1>1, <1>4
    <2> QED
      BY <1>2, <1>3, <2>1
  <1>5. CASE ~(~Loads(conf, how) \/ i = 0) /\ DropFaults(c, i)
    <2>1. ~up' /\ conf' = NoConfig
      BY <1>1, <1>5 DEF Gone
    <2> QED
      BY <2>1, NoConfigFits
  <1>6. CASE ~(~Loads(conf, how) \/ i = 0) /\ ~DropFaults(c, i)
    <2>1. conf' = drop_line(c, i) /\ up' = up
      BY <1>1, <1>6
    <2>2. c.text \in Seq(Lines)
      BY <1>3, ConfigFields DEF Fits
    <2>3. i \in DOMAIN c.text /\ c.text[i].name = Sought(s)
      BY <1>6, <2>2, FoundLine
    <2> HIDE DEF c, i
    <2>4. /\ Fits(conf') /\ conf'.loaded
          /\ \/ conf' = c
             \/ conf'.modified /\ conf'.text = RemoveAt(c.text, i)
      BY <1>2, <1>3, <1>6, <2>1, <2>3, DroppedFits
    <2> QED
      BY <1>2, <1>6, <2>1, <2>3, <2>4 DEF DroppedText
  <1> QED
    BY <1>4, <1>5, <1>6

-----------------------------------------------------------------------------
LEMMA EndedSaved ==
  ASSUME NEW t \in Seq(Lines), NEW u, NEW s \in SSIDs, NEW k \in PSKs,
         Ended(t), SavedText(t, u, s, k)
  PROVE  Ended(u)
  <1>0. Len(t) \in Nat /\ DOMAIN t = 1..Len(t)
    BY LenProperties
  <1>1. CASE u = t
    BY <1>1
  <1>2. ASSUME NEW i \in DOMAIN t, NEW l \in Lines, l.eol = t[i].eol,
               u = [t EXCEPT ![i] = l]
        PROVE  Ended(u)
    BY <1>2 DEF Ended
  <1>3. CASE Len(t) > 0 /\ ~t[Len(t)].eol
    BY <1>0, <1>3 DEF Ended
  <1>4. CASE u = Append(t, NewLine(s, k))
    <2>1. NewLine(s, k) \in Lines /\ NewLine(s, k).eol
      BY NewLineType
    <2>2. /\ Len(u) = Len(t) + 1 /\ DOMAIN u = 1..Len(u)
          /\ \A i \in 1..Len(t) : u[i] = t[i]
          /\ u[Len(t) + 1] = NewLine(s, k)
      BY <1>0, <1>4, <2>1, AppendProperties, LenProperties
    <2> QED
      BY <1>0, <2>1, <2>2 DEF Ended
  <1> QED
    BY <1>1, <1>2, <1>3, <1>4 DEF SavedText

LEMMA EndedDropped ==
  ASSUME NEW t \in Seq(Lines), NEW u, NEW s \in SSIDs, Ended(t), DroppedText(t, u, s)
  PROVE  Ended(u)
  <1>1. PICK i \in DOMAIN t : u = RemoveAt(t, i)
    BY DEF DroppedText
  <1>2. /\ u \in Seq(Lines) /\ Len(t) \in Nat \ {0} /\ Len(u) = Len(t) - 1
        /\ \A j \in 1..(Len(t) - 1) : u[j] = IF j < i THEN t[j] ELSE t[j + 1]
        /\ i \in 1..Len(t)
    BY <1>1, Removed
  <1>3. DOMAIN u = 1..(Len(t) - 1) /\ DOMAIN t = 1..Len(t)
    BY <1>2, LenProperties
  <1>4. ASSUME NEW j \in DOMAIN u
        PROVE  u[j].eol
    <2>1. j \in DOMAIN t /\ j + 1 \in DOMAIN t
      BY <1>2, <1>3
    <2>2. t[j].eol /\ t[j + 1].eol
      BY <2>1 DEF Ended
    <2> QED
      BY <1>2, <1>3, <2>2
  <1> QED
    BY <1>4 DEF Ended

(* Looking up, saving and dropping a key keep what relates buffer and file.  *)
LEMMA BaseEdits ==
  ASSUME BaseInv, ~writing, UNCHANGED <<hurt, file, writing>>, up' \in BOOLEAN,
         left' \in 0..MaxOps, given' \in [SSIDs -> SUBSET PSKs], Fits(conf'),
         \/ conf' = NoConfig
         \/ \E c : /\ Loaded(c)
                   /\ \/ conf' = c
                      \/ /\ conf'.loaded /\ conf'.modified
                         /\ Ended(c.text) => Ended(conf'.text)
  PROVE  BaseInv'
  <1>1. TypeOK'
    BY DEF BaseInv, TypeOK, Fits
  <1>2. InBlock' /\ Opened'
    BY DEF BaseInv, InBlock, Opened, Fits
  <1>3. CASE conf' = NoConfig
    <2>1. Synced'
      BY <1>3 DEF Synced, NoConfig
    <2>2. LinesEnded'
      <3>1. conf'.text = <<>>
        BY <1>3 DEF NoConfig
      <3>2. Ended(conf'.text)
        <4> DEFINE t == <<>>
        <4>1. DOMAIN t = {}
          OBVIOUS
        <4> HIDE DEF t
        <4>2. Ended(t)
          BY <4>1 DEF Ended
        <4> QED
          BY <3>1, <4>2 DEF t
      <3> QED
        BY <3>2 DEF BaseInv, LinesEnded, Ended
    <2> QED
      BY <1>1, <1>2, <2>1, <2>2 DEF BaseInv
  <1>4. ASSUME NEW c, Loaded(c),
               \/ conf' = c
               \/ /\ conf'.loaded /\ conf'.modified
                  /\ Ended(c.text) => Ended(conf'.text)
        PROVE  BaseInv'
    <2>1. hurt' = hurt /\ file' = file
      OBVIOUS
    <2>2. ~hurt => Ended(file) /\ Ended(conf.text)
      BY DEF BaseInv, LinesEnded
    <2>3. ~hurt => c = conf \/ (~c.modified /\ c.text = file)
      BY <1>4 DEF Loaded
    <2>4. ~hurt => Ended(c.text)
      BY <2>2, <2>3
    <2>5. ~hurt' => Ended(file') /\ Ended(conf'.text)
      BY <1>4, <2>1, <2>2, <2>4
    <2>6. LinesEnded'
      BY <2>5 DEF LinesEnded, Ended
    <2>7. conf'.loaded /\ ~conf'.modified /\ ~hurt => file = conf'.text
      BY <1>4, <2>3 DEF BaseInv, Synced
    <2>8. Synced'
      BY <2>1, <2>7 DEF Synced
    <2> QED
      BY <1>1, <1>2, <2>6, <2>8 DEF BaseInv
  <1> QED
    BY <1>3, <1>4

(* A stump has no newline.  Its key is the line's, or none, and its second *)
(* word begins with some of the names that the line's begins with.         *)
LEMMA StumpLine ==
  ASSUME NEW m \in Lines, NEW l \in Stumps(m)
  PROVE  /\ l \in Lines /\ ~l.eol
         /\ \/ l.key = BadPsk
            \/ /\ l.key = m.key
               /\ Read(l) \subseteq Read(m) \cup UNION {Begins[p] : p \in Read(m)}
  <1>0. m.stems \in SUBSET Names /\ m.name \in Names \cup {NoName, Junk}
    BY LineFields
  <1>1. CASE l = [m EXCEPT !.key = BadPsk, !.name = NoName, !.stems = {}, !.len = 1,
                           !.eol = FALSE]
    BY <1>1 DEF Lines
  <1>2. CASE l = [m EXCEPT !.name = Junk, !.len = 66, !.eol = FALSE]
    <2>1. /\ l \in Lines /\ ~l.eol /\ l.key = m.key /\ l.name = Junk
          /\ l.stems = m.stems
      BY <1>2 DEF Lines
    <2>2. Read(l) = m.stems
      BY <2>1 DEF Read
    <2> QED
      BY <2>1, <2>2 DEF Read
  <1>3. CASE l = [m EXCEPT !.eol = FALSE]
    BY <1>3 DEF Lines, Read
  <1>4. ASSUME NEW p \in m.stems,
               l = [m EXCEPT !.name = p, !.stems = Begins[p], !.len = 65 + Width[p],
                             !.eol = FALSE]
        PROVE  /\ l \in Lines /\ ~l.eol /\ l.key = m.key
               /\ l.name = p /\ l.stems = Begins[p]
    <2>1. p \in Names /\ Begins[p] \in SUBSET Names /\ 65 + Width[p] \in Nat
      BY <1>0, <1>4, NamesAssumption
    <2> QED
      BY <1>4, <2>1 DEF Lines
  <1>5. ASSUME NEW p \in m.stems, l.name = p, l.stems = Begins[p]
        PROVE  Read(l) \subseteq Read(m) \cup UNION {Begins[q] : q \in Read(m)}
    BY <1>5 DEF Read
  <1> QED
    BY <1>1, <1>2, <1>3, <1>4, <1>5 DEF Stumps

(* What may be left of a text is its first lines and perhaps a stump of the next. *)
LEMMA CutText ==
  ASSUME NEW t \in Seq(Lines), NEW u \in Cuts(t)
  PROVE  /\ u \in Seq(Lines) /\ Len(u) \in Nat /\ Len(t) \in Nat /\ Len(u) <= Len(t)
         /\ \A i \in DOMAIN u :
              /\ i \in DOMAIN t
              /\ u[i] = t[i] \/ (i = Len(u) /\ u[i] \in Stumps(t[i]))
  <1>0. Len(t) \in Nat /\ DOMAIN t = 1..Len(t)
    BY LenProperties
  <1>a. ASSUME NEW j \in 0..Len(t)
        PROVE  /\ SubSeq(t, 1, j) \in Seq(Lines) /\ Len(SubSeq(t, 1, j)) = j
               /\ \A i \in 1..j : SubSeq(t, 1, j)[i] = t[i]
    <2>1. 1 \in 1..(Len(t) + 1) /\ j \in (1 - 1)..Len(t)
      BY <1>0
    <2> QED
      BY <1>0, <2>1, SubSeqProperties, ElementOfSeq
  <1>1. ASSUME NEW j \in 0..Len(t), u = SubSeq(t, 1, j)
        PROVE  /\ u \in Seq(Lines) /\ Len(u) = j
               /\ DOMAIN u \subseteq DOMAIN t
               /\ \A i \in DOMAIN u : u[i] = t[i]
    <2>1. u \in Seq(Lines) /\ Len(u) = j /\ \A i \in 1..j : u[i] = t[i]
      BY <1>1, <1>a
    <2>2. DOMAIN u = 1..j
      BY <2>1, LenProperties
    <2> QED
      BY <1>0, <2>1, <2>2
  <1>2. ASSUME NEW j \in DOMAIN t, NEW l \in Stumps(t[j]),
               u = Append(SubSeq(t, 1, j - 1), l)
        PROVE  /\ u \in Seq(Lines) /\ Len(u) = j
               /\ DOMAIN u = 1..j
               /\ \A i \in 1..(j - 1) : u[i] = t[i]
               /\ u[j] \in Stumps(t[j])
    <2> DEFINE a == SubSeq(t, 1, j - 1)
    <2>1. t[j] \in Lines /\ j \in 1..Len(t) /\ j - 1 \in 0..Len(t)
      BY <1>0, ElementOfSeq
    <2>2. l \in Lines
      BY <1>2, <2>1, StumpLine
    <2>3. a \in Seq(Lines) /\ Len(a) = j - 1 /\ \A i \in 1..(j - 1) : a[i] = t[i]
      BY <2>1, <1>a
    <2> HIDE DEF a
    <2>4. /\ u \in Seq(Lines) /\ Len(u) = j /\ u[j] = l
          /\ \A i \in 1..(j - 1) : u[i] = a[i]
      BY <1>2, <2>1, <2>2, <2>3, AppendProperties DEF a
    <2>5. DOMAIN u = 1..j
      BY <2>4, LenProperties
    <2> QED
      BY <1>2, <2>3, <2>4, <2>5
  <1>3. \/ \E j \in 0..Len(t) : u = SubSeq(t, 1, j)
        \/ \E j \in DOMAIN t : \E l \in Stumps(t[j]) :
             u = Append(SubSeq(t, 1, j - 1), l)
    <2> DEFINE P(j) == {Append(SubSeq(t, 1, j - 1), l) :
                          l \in {m \in Stumps(t[j]) : m.len <= t[j].len}}
    <2>1. Cuts(t) = {SubSeq(t, 1, j) : j \in 0..Len(t)} \cup UNION {P(j) : j \in DOMAIN t}
      BY DEF Cuts
    <2>2. ASSUME NEW j \in DOMAIN t, u \in P(j)
          PROVE  \E l \in Stumps(t[j]) : u = Append(SubSeq(t, 1, j - 1), l)
      BY <2>2
    <2> HIDE DEF P
    <2>3. CASE u \in UNION {P(j) : j \in DOMAIN t}
      BY <2>2, <2>3
    <2> QED
      BY <2>1, <2>3
  <1>4. CASE \E j \in 0..Len(t) : u = SubSeq(t, 1, j)
    BY <1>0, <1>1, <1>4
  <1>5. CASE \E j \in DOMAIN t : \E l \in Stumps(t[j]) :
               u = Append(SubSeq(t, 1, j - 1), l)
    <2>1. PICK j \in DOMAIN t : \E l \in Stumps(t[j]) :
               u = Append(SubSeq(t, 1, j - 1), l)
      BY <1>5
    <2>2. /\ u \in Seq(Lines) /\ Len(u) = j
          /\ DOMAIN u = 1..j
          /\ \A i \in 1..(j - 1) : u[i] = t[i]
          /\ u[j] \in Stumps(t[j])
      BY <1>2, <2>1
    <2>3. j \in 1..Len(t) /\ \A i \in 1..j : i \in 1..(j - 1) \/ i = j
      BY <1>0
    <2> QED
      BY <1>0, <2>2, <2>3
  <1> QED
    BY <1>3, <1>4, <1>5

LEMMA BaseInit == Init => BaseInv
  <1>1. SUFFICES ASSUME Init
                 PROVE  BaseInv
    OBVIOUS
  <1>2. Fits(conf)
    BY <1>1, NoConfigFits DEF Init
  <1>3. file \in Seq(Lines) /\ (~hurt => Ended(file))
    BY <1>1, FilesAssumption DEF Init, Ended
  <1>4. TypeOK
    <2>1. given \in [SSIDs -> SUBSET PSKs]
      BY <1>1 DEF Init
    <2>2. left \in 0..MaxOps
      BY <1>1 DEF Init
    <2>3. up \in BOOLEAN /\ writing \in BOOLEAN /\ hurt \in BOOLEAN
      BY <1>1 DEF Init
    <2> QED
      BY <1>2, <1>3, <2>1, <2>2, <2>3 DEF TypeOK, Fits
  <1>5. ~conf.loaded /\ ~conf.modified /\ conf.text = <<>> /\ ~writing
    BY <1>1 DEF Init, NoConfig
  <1>6. Ended(conf.text)
    <2>1. DOMAIN conf.text = {}
      BY <1>5
    <2> QED
      BY <2>1 DEF Ended
  <1> QED
    BY <1>2, <1>3, <1>4, <1>5, <1>6
       DEF BaseInv, InBlock, Opened, Synced, LinesEnded, Fits

LEMMA BaseFits == BaseInv => Fits(conf)
  BY DEF BaseInv, TypeOK, InBlock, Opened, Fits

LEMMA LookupBase == ASSUME BaseInv, NEW s \in SSIDs, Lookup(s)  PROVE  BaseInv'
  <1>1. PICK how \in Hows : conf' = load_config(conf, how)
    BY DEF Lookup
  <1>2. Loaded(conf')
    BY <1>1, LoadGives, BaseFits DEF BaseInv, TypeOK
  <1>3. Fits(conf')
    BY <1>2 DEF Loaded
  <1>4. /\ ~writing /\ UNCHANGED <<hurt, file, writing>> /\ up' \in BOOLEAN
        /\ left' \in 0..MaxOps /\ given' \in [SSIDs -> SUBSET PSKs]
    BY DEF Lookup, Serving, BaseInv, TypeOK
  <1> QED
    BY <1>2, <1>3, <1>4, BaseEdits

LEMMA SaveBase ==
  ASSUME BaseInv, NEW s \in SSIDs, NEW k \in PSKs, SavePsk(s, k)  PROVE  BaseInv'
  <1>1. Fits(conf) /\ TypeOK
    BY BaseFits DEF BaseInv
  <1>2. /\ ~writing /\ UNCHANGED <<hurt, file, writing>>
        /\ left' \in 0..MaxOps /\ given' = [given EXCEPT ![s] = @ \cup {k}]
    BY DEF SavePsk, Serving, BaseInv, TypeOK
  <1>3. given' \in [SSIDs -> SUBSET PSKs]
    BY <1>2 DEF BaseInv, TypeOK
  <1>4. /\ Fits(conf')
        /\ \/ ~up' /\ conf' = NoConfig
           \/ /\ up' = up
              /\ \E c : /\ Loaded(c)
                        /\ \/ conf' = c
                           \/ /\ c.loaded /\ conf'.loaded /\ conf'.modified
                              /\ SavedText(c.text, conf'.text, s, k)
    BY <1>1, SaveChanges
  <1>5. up' \in BOOLEAN
    BY <1>1 DEF SavePsk, SaveWith, Gone, TypeOK
  <1>6. ASSUME NEW c, Loaded(c), SavedText(c.text, conf'.text, s, k), Ended(c.text)
        PROVE  Ended(conf'.text)
    <2>1. c.text \in Seq(Lines)
      BY <1>6, ConfigFields DEF Loaded, Fits
    <2> QED
      BY <1>6, <2>1, EndedSaved
  <1>7. \/ conf' = NoConfig
        \/ \E c : /\ Loaded(c)
                  /\ \/ conf' = c
                     \/ /\ conf'.loaded /\ conf'.modified
                        /\ Ended(c.text) => Ended(conf'.text)
    BY <1>4, <1>6
  <1> QED
    BY <1>2, <1>3, <1>4, <1>5, <1>7, BaseEdits

LEMMA DropBase ==
  ASSUME BaseInv, NEW s \in SSIDs, DropPsk(s)  PROVE  BaseInv'
  <1>1. Fits(conf) /\ TypeOK
    BY BaseFits DEF BaseInv
  <1>2. /\ ~writing /\ UNCHANGED <<hurt, file, writing>>
        /\ left' \in 0..MaxOps /\ given' \in [SSIDs -> SUBSET PSKs]
    BY DEF DropPsk, Serving, BaseInv, TypeOK
  <1>4. /\ Fits(conf')
        /\ \/ ~up' /\ conf' = NoConfig
           \/ /\ up' = up
              /\ \E c : /\ Loaded(c)
                        /\ \/ conf' = c
                           \/ /\ c.loaded /\ conf'.loaded /\ conf'.modified
                              /\ DroppedText(c.text, conf'.text, s)
    BY <1>1, DropChanges
  <1>5. up' \in BOOLEAN
    BY <1>1 DEF DropPsk, Gone, TypeOK
  <1>6. ASSUME NEW c, Loaded(c), DroppedText(c.text, conf'.text, s), Ended(c.text)
        PROVE  Ended(conf'.text)
    <2>1. c.text \in Seq(Lines)
      BY <1>6, ConfigFields DEF Loaded, Fits
    <2> QED
      BY <1>6, <2>1, EndedDropped
  <1>7. \/ conf' = NoConfig
        \/ \E c : /\ Loaded(c)
                  /\ \/ conf' = c
                     \/ /\ conf'.loaded /\ conf'.modified
                        /\ Ended(c.text) => Ended(conf'.text)
    BY <1>4, <1>6
  <1> QED
    BY <1>2, <1>4, <1>5, <1>7, BaseEdits

(* A text that is written, or cut, leaves the buffer as it is and clean. *)
LEMMA Cleaned ==
  ASSUME BaseInv, writing, conf' = [conf EXCEPT !.modified = FALSE]
  PROVE  Fits(conf') /\ ~conf'.modified /\ conf'.text = conf.text
  <1>1. conf \in Configs /\ conf.loaded
    BY DEF BaseInv, TypeOK, Opened
  <1>2. /\ conf' \in Configs /\ conf'.loaded /\ conf'.text = conf.text
        /\ conf'.datalen = conf.datalen /\ conf'.blocklen = conf.blocklen
        /\ conf'.mapped = conf.mapped /\ ~conf'.modified
    BY <1>1 DEF Configs
  <1> QED
    BY <1>1, <1>2, BaseFits DEF Fits

LEMMA OpenBase == ASSUME BaseInv, SaveOpen  PROVE  BaseInv'
  <1>1. file' = <<>> /\ file' \in Seq(Lines)
    BY EmptySeq DEF SaveOpen
  <1>2. /\ writing' /\ conf' = conf /\ conf.modified /\ up' /\ hurt' = hurt
        /\ left' = left /\ given' = given /\ writing' \in BOOLEAN /\ up' \in BOOLEAN
    BY DEF SaveOpen, Serving
  <1>3. Ended(file')
    <2>1. DOMAIN file' = {}
      BY <1>1
    <2> QED
      BY <2>1 DEF Ended
  <1>4. TypeOK'
    BY <1>1, <1>2 DEF BaseInv, TypeOK
  <1>5. InBlock' /\ Opened' /\ Synced'
    BY <1>2 DEF BaseInv, InBlock, Opened, Synced
  <1>6. LinesEnded'
    BY <1>2, <1>3 DEF BaseInv, LinesEnded, Ended
  <1> QED
    BY <1>4, <1>5, <1>6 DEF BaseInv

LEMMA WriteBase == ASSUME BaseInv, SaveWrite  PROVE  BaseInv'
  <1>1. /\ Fits(conf') /\ ~conf'.modified /\ conf'.text = conf.text
        /\ file' = conf.text /\ ~writing' /\ writing' \in BOOLEAN
    BY Cleaned DEF SaveWrite
  <1>2. hurt' = hurt /\ up' = up /\ left' = left /\ given' = given
    BY DEF SaveWrite
  <1>3. conf.text \in Seq(Lines)
    BY ConfigFields DEF BaseInv, TypeOK
  <1>4. TypeOK'
    BY <1>1, <1>2, <1>3 DEF BaseInv, TypeOK, Fits
  <1>5. InBlock' /\ Opened' /\ Synced'
    BY <1>1, <1>2 DEF InBlock, Opened, Synced, Fits
  <1>6. LinesEnded'
    BY <1>1, <1>2 DEF BaseInv, LinesEnded, Ended
  <1> QED
    BY <1>4, <1>5, <1>6 DEF BaseInv

LEMMA CutBase == ASSUME BaseInv, SaveCut  PROVE  BaseInv'
  <1>0. writing /\ hurt /\ conf' = [conf EXCEPT !.modified = FALSE]
    BY DEF SaveCut
  <1>1. /\ Fits(conf') /\ ~conf'.modified /\ conf'.text = conf.text
        /\ ~writing' /\ writing' \in BOOLEAN
    BY <1>0, Cleaned DEF SaveCut
  <1>2. hurt' = hurt /\ up' = up /\ given' = given /\ left' \in 0..MaxOps
    BY DEF SaveCut, BaseInv, TypeOK
  <1>3. file' \in Seq(Lines)
    BY CutText, ConfigFields DEF SaveCut, BaseInv, TypeOK
  <1>4. TypeOK'
    BY <1>1, <1>2, <1>3 DEF BaseInv, TypeOK, Fits
  <1>5. InBlock' /\ Opened' /\ Synced' /\ LinesEnded'
    BY <1>0, <1>1, <1>2 DEF InBlock, Opened, Synced, LinesEnded, Fits
  <1> QED
    BY <1>4, <1>5 DEF BaseInv

LEMMA KillBase == ASSUME BaseInv, Kill  PROVE  BaseInv'
  <1>1. /\ conf' = NoConfig /\ up' = FALSE /\ writing' = FALSE /\ hurt' = hurt
        /\ given' = given /\ left' \in 0..MaxOps
    BY DEF Kill, Gone, BaseInv, TypeOK
  <1>2. file' \in Seq(Lines) /\ (~hurt => file' = file)
    <2>1. CASE writing
      BY <2>1, CutText, ConfigFields DEF Kill, BaseInv, TypeOK
    <2>2. CASE ~writing
      BY <2>2 DEF Kill, BaseInv, TypeOK
    <2> QED
      BY <2>1, <2>2
  <1>3. Fits(conf') /\ ~conf'.loaded /\ conf'.text = <<>>
    BY <1>1, NoConfigFits DEF NoConfig
  <1>4. TypeOK'
    BY <1>1, <1>2, <1>3 DEF BaseInv, TypeOK, Fits
  <1>5. InBlock' /\ Opened' /\ Synced'
    BY <1>1, <1>3 DEF InBlock, Opened, Synced, Fits
  <1>6. Ended(conf'.text)
    <2>1. DOMAIN conf'.text = {}
      BY <1>3
    <2> QED
      BY <2>1 DEF Ended
  <1>7. ~hurt => Ended(file')
    BY <1>2 DEF BaseInv, LinesEnded
  <1>8. LinesEnded'
    BY <1>1, <1>6, <1>7 DEF LinesEnded, Ended
  <1> QED
    BY <1>4, <1>5, <1>8 DEF BaseInv

LEMMA BaseStep == BaseInv /\ [Next]_vars => BaseInv'
  <1>1. SUFFICES ASSUME BaseInv, [Next]_vars
                 PROVE  BaseInv'
    OBVIOUS
  <1>2. CASE \E s \in SSIDs : Lookup(s) \/ DropPsk(s) \/ \E k \in PSKs : SavePsk(s, k)
    BY <1>1, <1>2, LookupBase, DropBase, SaveBase
  <1>3. CASE SaveOpen \/ SaveWrite \/ SaveCut \/ Kill
    BY <1>1, <1>3, OpenBase, WriteBase, CutBase, KillBase
  <1>4. CASE Restart \/ UNCHANGED vars
    <2>1. /\ hurt' = hurt /\ file' = file /\ conf' = conf /\ writing' = writing
          /\ left' = left /\ given' = given /\ up' \in BOOLEAN /\ (up => up')
      BY <1>1, <1>4 DEF Restart, vars, BaseInv, TypeOK
    <2> QED
      BY <1>1, <2>1 DEF BaseInv, TypeOK, InBlock, Opened, Synced, LinesEnded, Ended
  <1> QED
    BY <1>1, <1>2, <1>3, <1>4 DEF Next

LEMMA BaseAlways == Spec => []BaseInv
  BY BaseInit, BaseStep, PTL DEF Spec

(* wsupp_config.c keeps its text, lengths and flags in range: no edit, failed *)
(* load, cut file or crash leaves a datalen below zero or half a config.   *)
THEOREM TypeCorrect == Spec => []TypeOK
  <1>1. BaseInv => TypeOK
    BY DEF BaseInv
  <1> QED
    BY <1>1, BaseAlways, PTL

(* datalen, which extend_config adds up over change_part, insert_line and    *)
(* drop_line, is the length of the text whatever the file was, and the text *)
(* stays within the block although remap_config forgets part of its mapping. *)
THEOREM TextWithinBlock == Spec => []InBlock
  <1>1. BaseInv => InBlock
    BY DEF BaseInv
  <1> QED
    BY <1>1, BaseAlways, PTL

(* When save_config does nothing, since modified is not set, there is nothing  *)
(* to do: the file is the text.                                            *)
THEOREM NothingUnsaved == Spec => []Synced
  <1>1. BaseInv => Synced
    BY DEF BaseInv
  <1> QED
    BY <1>1, BaseAlways, PTL

-----------------------------------------------------------------------------
(* What OneLine and KeysGenuine need of a text. *)
Good(t, g) == Tidy(t) /\ Genuine(t, g)

(* No network is named by two lines. *)
Single(t) ==
  \A i, j \in DOMAIN t : t[i].name = t[j].name /\ t[i].name \in SSIDs => i = j

LEMMA TidyEnded ==
  ASSUME NEW t, Tidy(t), Ended(t)
  PROVE  Single(t)
  BY DEF Tidy, Ended, Single

LEMMA NamesFormatted ==
  ASSUME NamesApart, NEW s \in SSIDs
  PROVE  /\ Sought(s) = s
         /\ Written(s) \in SSIDs => Written(s) = s
         /\ Written(s) \in {s, Clip[s]}
         /\ Begins[Written(s)] \subseteq Begins[s]
         /\ {Written(s)} \cup Begins[Written(s)] \subseteq {s} \cup Begins[s]
         /\ NoName \notin SSIDs /\ Junk \notin SSIDs
  <1>1. Width[s] <= 95 /\ Width[s] \in Nat /\ (Width[s] > 29 => Clip[s] \notin SSIDs)
    BY DEF NamesApart, Names
  <1>2. Sought(s) = s
    BY <1>1 DEF Sought, fmt_ssid
  <1>3. Written(s) \in SSIDs => Written(s) = s
    BY <1>1 DEF Written, fmt_ssid
  <1>4. Written(s) = s \/ (Written(s) = Clip[s] /\ Clip[s] \in Begins[s])
    BY <1>1, NamesAssumption DEF Written, fmt_ssid
  <1>5. s \in Names /\ \A p \in Begins[s] : Begins[p] \subseteq Begins[s]
    BY NamesAssumption DEF Names
  <1> QED
    BY <1>2, <1>3, <1>4, <1>5 DEF Names

LEMMA GoodEmpty == \A g : Good(<<>>, g)
  <1> DEFINE t == <<>>
  <1>1. DOMAIN t = {}
    OBVIOUS
  <1> HIDE DEF t
  <1>2. \A g : Good(t, g)
    BY <1>1 DEF Good, Tidy, Genuine
  <1> QED
    BY <1>2 DEF t

LEMMA GoodLater ==
  ASSUME NEW g \in [SSIDs -> SUBSET PSKs], NEW s \in SSIDs, NEW k \in PSKs,
         NEW t, Good(t, g)
  PROVE  Good(t, [g EXCEPT ![s] = @ \cup {k}])
  <1> DEFINE h == [g EXCEPT ![s] = @ \cup {k}]
  <1>1. \A n \in SSIDs : g[n] \subseteq h[n]
    OBVIOUS
  <1> HIDE DEF h
  <1>2. ASSUME NEW i \in DOMAIN t
        PROVE  LineGenuine(t[i], h)
    <2>1. LineGenuine(t[i], g)
      BY DEF Good, Genuine
    <2> QED
      BY <1>1, <2>1 DEF LineGenuine
  <1>3. Genuine(t, h)
    BY <1>2 DEF Genuine
  <1> QED
    BY <1>3 DEF Good, h

LEMMA GoodSaved ==
  ASSUME NamesApart, NEW g \in [SSIDs -> SUBSET PSKs], NEW s \in SSIDs,
         NEW k \in PSKs, NEW t \in Seq(Lines), Good(t, g), NEW u,
         SavedText(t, u, s, k)
  PROVE  Good(u, [g EXCEPT ![s] = @ \cup {k}])
  <1> DEFINE h == [g EXCEPT ![s] = @ \cup {k}]
             n == Len(t)
             new == NewLine(s, k)
  <1>0. n \in Nat /\ DOMAIN t = 1..n
    BY LenProperties
  <1>1. Good(t, h) /\ k \in h[s]
    BY GoodLater
  <1>2. /\ Sought(s) = s /\ (Written(s) \in SSIDs => Written(s) = s)
        /\ Written(s) \in {s, Clip[s]}
        /\ {Written(s)} \cup Begins[Written(s)] \subseteq {s} \cup Begins[s]
        /\ NoName \notin SSIDs /\ Junk \notin SSIDs
    BY NamesFormatted
  <1>3. /\ new \in Lines /\ new.key = k /\ new.name = Written(s) /\ new.eol
        /\ new.stems = Begins[Written(s)]
    BY NewLineType
  <1>20. ASSUME NEW l \in Lines, l.key = k, l.name = Written(s),
                l.stems = Begins[Written(s)]
         PROVE  LineGenuine(l, h)
    <2>1. Read(l) \subseteq {s} \cup Begins[s]
      BY <1>2, <1>20 DEF Read
    <2>2. Own(l, s)
      BY <1>2, <1>20, <2>1 DEF Own
    <2> QED
      BY <1>1, <1>20, <2>2 DEF LineGenuine
  <1> HIDE DEF h, new
  <1>4. CASE u = t
    BY <1>1, <1>4 DEF h
  <1>5. ASSUME NEW i \in DOMAIN t, NEW l \in Lines, t[i].name = Sought(s),
               l.key = k, l.name = Written(s), l.stems = Begins[Written(s)],
               l.eol = t[i].eol, u = [t EXCEPT ![i] = l]
        PROVE  Good(u, h)
    <2>1. /\ DOMAIN u = DOMAIN t /\ u[i] = l /\ Len(u) = Len(t)
          /\ \A j \in DOMAIN t : j # i => u[j] = t[j]
      <3>1. u \in Seq(Lines) /\ Len(u) = Len(t)
        BY <1>5, ExceptSeq
      <3> QED
        BY <1>5, <3>1
    <2>2. \A j \in DOMAIN t : /\ u[j].name \in SSIDs => u[j].name = t[j].name
                              /\ u[j].eol = t[j].eol
      BY <1>2, <1>5, <2>1
    <2>3. Tidy(u)
      BY <1>1, <2>1, <2>2 DEF Tidy, Good
    <2>4. Genuine(u, h)
      BY <1>1, <1>5, <1>20, <2>1 DEF Genuine, Good
    <2> QED
      BY <2>3, <2>4 DEF Good
  <1>6. ASSUME n > 0, \A j \in DOMAIN t : t[j].name # Sought(s),
               u = [t EXCEPT ![n] = Joined(t[n], new)]
        PROVE  Good(u, h)
    <2>1. n \in DOMAIN t /\ t[n] \in Lines
      BY <1>0, <1>6, ElementOfSeq
    <2> DEFINE m == t[n]
               l == Joined(m, new)
    <2>2. /\ l.key = IF m.name = NoName THEN BadPsk ELSE m.key
          /\ l.name = IF m.name = NoName THEN new.name ELSE Junk
          /\ l.stems = IF m.name = NoName THEN new.stems ELSE Read(m)
          /\ l.eol
      <3>1. m \in Lines
        BY <2>1
      <3> HIDE DEF m
      <3> QED
        BY <3>1, <1>3, JoinedLine
    <2> HIDE DEF l, m
    <2>3. /\ DOMAIN u = DOMAIN t /\ u[n] = l /\ Len(u) = n
          /\ \A j \in DOMAIN t : j # n => u[j] = t[j]
      <3>1. l \in Lines
        BY <1>3, <2>1, JoinedLine DEF l, m
      <3>2. u \in Seq(Lines) /\ Len(u) = n
        BY <1>6, <2>1, <3>1, ExceptSeq DEF l, m
      <3> QED
        BY <1>6, <2>1, <3>2 DEF l, m
    <2>4. l.name \in SSIDs => l.name = s /\ l.key = BadPsk
      BY <1>2, <1>3, <2>2
    <2>5. Tidy(u)
      BY <1>0, <1>1, <1>2, <1>6, <2>2, <2>3, <2>4 DEF Tidy, Good
    <2>6. LineGenuine(l, h)
      <3>1. SUFFICES ASSUME l.key # BadPsk, Read(l) # {}
                     PROVE  \E a \in SSIDs : l.key \in h[a] /\ Own(l, a)
        BY DEF LineGenuine
      <3>2. m.name # NoName /\ l.key = m.key /\ l.name = Junk /\ l.stems = Read(m)
        BY <2>2, <3>1
      <3>3. Junk \notin Names
        OBVIOUS
      <3>4. Read(l) = Read(m)
        BY <3>2, <3>3 DEF Read
      <3>5. LineGenuine(m, h)
        BY <1>1, <2>1 DEF Good, Genuine, m
      <3>6. PICK a \in SSIDs : m.key \in h[a] /\ Own(m, a)
        BY <3>1, <3>2, <3>4, <3>5 DEF LineGenuine
      <3> QED
        BY <3>2, <3>3, <3>4, <3>6 DEF Own
    <2>7. Genuine(u, h)
      BY <1>1, <2>3, <2>6 DEF Genuine, Good
    <2> QED
      BY <2>5, <2>7 DEF Good
  <1>7. ASSUME n > 0 => t[n].eol, \A j \in DOMAIN t : t[j].name # Sought(s), u = Append(t, new)
        PROVE  Good(u, h)
    <2>1. /\ DOMAIN u = 1..(n + 1) /\ u[n + 1] = new /\ Len(u) = n + 1
          /\ \A j \in 1..n : u[j] = t[j]
      <3>1. /\ u \in Seq(Lines) /\ Len(u) = n + 1 /\ u[n + 1] = new
            /\ \A j \in 1..n : u[j] = t[j]
        BY <1>0, <1>3, <1>7, AppendProperties
      <3> QED
        BY <3>1, LenProperties
    <2>2. \A j \in 1..(n + 1) : j \in 1..n \/ j = n + 1
      BY <1>0
    <2>3. Tidy(u)
      BY <1>0, <1>1, <1>2, <1>3, <1>7, <2>1, <2>2 DEF Tidy, Good
    <2>4. Genuine(u, h)
      BY <1>0, <1>1, <1>3, <1>20, <2>1, <2>2 DEF Genuine, Good
    <2> QED
      BY <2>3, <2>4 DEF Good
  <1> QED
    BY <1>4, <1>5, <1>6, <1>7 DEF SavedText, h, new

LEMMA GoodDropped ==
  ASSUME NEW g, NEW s \in SSIDs, NEW t \in Seq(Lines), Good(t, g), NEW u,
         DroppedText(t, u, s)
  PROVE  Good(u, g)
  <1>1. PICK i \in DOMAIN t : u = RemoveAt(t, i)
    BY DEF DroppedText
  <1>2. /\ u \in Seq(Lines) /\ Len(t) \in Nat \ {0} /\ Len(u) = Len(t) - 1
        /\ \A j \in 1..(Len(t) - 1) : u[j] = IF j < i THEN t[j] ELSE t[j + 1]
        /\ i \in 1..Len(t)
    BY <1>1, Removed
  <1>3. DOMAIN u = 1..(Len(t) - 1) /\ DOMAIN t = 1..Len(t)
    BY <1>2, LenProperties
  <1> DEFINE at(j) == IF j < i THEN j ELSE j + 1
  <1>4. \A j \in DOMAIN u : at(j) \in DOMAIN t /\ u[j] = t[at(j)]
    BY <1>2, <1>3
  <1>5. \A j, m \in DOMAIN u : at(j) = at(m) => j = m
    BY <1>2, <1>3
  <1>6. \A j \in DOMAIN u : at(j) = Len(t) => j = Len(u)
    BY <1>2, <1>3
  <1> HIDE DEF at
  <1>7. Tidy(u)
    BY <1>4, <1>5, <1>6 DEF Good, Tidy
  <1>8. Genuine(u, g)
    BY <1>4 DEF Good, Genuine
  <1> QED
    BY <1>7, <1>8 DEF Good

LEMMA GoodCut ==
  ASSUME NamesApart, NEW g, NEW t \in Seq(Lines), Good(t, g), NEW u \in Cuts(t)
  PROVE  Good(u, g)
  <1>1. /\ u \in Seq(Lines) /\ Len(u) \in Nat /\ Len(t) \in Nat /\ Len(u) <= Len(t)
        /\ \A i \in DOMAIN u :
             /\ i \in DOMAIN t
             /\ u[i] = t[i] \/ (i = Len(u) /\ u[i] \in Stumps(t[i]))
    BY CutText
  <1>2. DOMAIN u = 1..Len(u) /\ DOMAIN t = 1..Len(t) /\ \A i \in DOMAIN t : t[i] \in Lines
    BY <1>1, ElementOfSeq, LenProperties
  <1>3. \A i \in DOMAIN u : u[i] = t[i] \/ (i = Len(u) /\ ~u[i].eol)
    BY <1>1, <1>2, StumpLine
  <1>4. Tidy(u)
    <2>1. \A i \in DOMAIN u : u[i].eol => u[i] = t[i]
      BY <1>3
    <2>2. \A i \in DOMAIN u : u[i].eol \/ i = Len(u)
      BY <1>1, <1>2, <1>3 DEF Good, Tidy
    <2> QED
      BY <1>1, <2>1, <2>2 DEF Good, Tidy
  <1>5. ASSUME NEW m \in Lines, LineGenuine(m, g), NEW l \in Stumps(m)
        PROVE  LineGenuine(l, g)
    <2>1. SUFFICES ASSUME l.key # BadPsk, Read(l) # {}
                   PROVE  \E a \in SSIDs : l.key \in g[a] /\ Own(l, a)
      BY DEF LineGenuine
    <2>2. /\ ~l.eol /\ l.key = m.key
          /\ Read(l) \subseteq Read(m) \cup UNION {Begins[p] : p \in Read(m)}
      BY <1>5, <2>1, StumpLine
    <2>3. Read(m) # {}
      BY <2>1, <2>2
    <2>4. PICK a \in SSIDs : m.key \in g[a] /\ Own(m, a)
      BY <1>5, <2>1, <2>2, <2>3 DEF LineGenuine
    <2>5. a \in Names /\ \A p \in Begins[a] : Begins[p] \subseteq Begins[a]
      BY NamesAssumption DEF Names
    <2>6. \A p \in Read(m) : Begins[p] \subseteq Begins[a]
      BY <2>4, <2>5 DEF Own
    <2>7. Read(l) \subseteq {a} \cup Begins[a]
      BY <2>2, <2>4, <2>6 DEF Own
    <2> QED
      BY <2>2, <2>4, <2>7 DEF Own
  <1>6. Genuine(u, g)
    BY <1>1, <1>2, <1>5 DEF Good, Genuine
  <1> QED
    BY <1>4, <1>6 DEF Good

(* In a text that names networks once, the key of one is that of its line. *)
LEMMA KeyOfLine ==
  ASSUME NamesApart, NEW t \in Seq(Lines), Single(t), NEW s \in SSIDs
  PROVE  /\ \A i \in DOMAIN t : t[i].name = s => KeyIn(t, s) = t[i].key
         /\ (\A i \in DOMAIN t : t[i].name # s) => KeyIn(t, s) = NoPsk
  <1>1. Sought(s) = s
    BY NamesFormatted
  <1>2. \/ /\ find_ssid(t, s) = 0
           /\ \A i \in DOMAIN t : t[i].name # s
        \/ /\ find_ssid(t, s) \in DOMAIN t /\ find_ssid(t, s) > 0
           /\ t[find_ssid(t, s)].name = s
    BY <1>1, FoundLine
  <1>3. KeyIn(t, s) = IF find_ssid(t, s) = 0 THEN NoPsk ELSE t[find_ssid(t, s)].key
    BY DEF KeyIn
  <1> QED
    BY <1>2, <1>3 DEF Single

LEMMA KeyInit == NamesApart /\ Init => KeyInv
  <1>1. SUFFICES ASSUME NamesApart, Init
                 PROVE  KeyInv
    OBVIOUS
  <1>2. /\ file \in Seq(Lines) /\ Tidy(file)
        /\ \A i \in DOMAIN file :
             file[i].stems = IF file[i].name \in Names THEN Begins[file[i].name] ELSE {}
    BY <1>1, FilesAssumption DEF Init
  <1>3. conf.text = <<>>
    BY <1>1 DEF Init, NoConfig
  <1>4. Genuine(file, given)
    <2>1. SUFFICES ASSUME NEW i \in DOMAIN file, file[i].key # BadPsk, Read(file[i]) # {}
                   PROVE  \E a \in SSIDs : file[i].key \in given[a] /\ Own(file[i], a)
      BY DEF Genuine, LineGenuine
    <2> DEFINE l == file[i]
    <2>2. l \in Lines /\ l.stems = IF l.name \in Names THEN Begins[l.name] ELSE {}
      BY <1>2, ElementOfSeq, LenProperties
    <2>3. l \in ToSet(file)
      BY DEF ToSet
    <2> HIDE DEF l
    <2>4. l.key \in PSKs
      BY <2>1, <2>2, LineFields DEF l
    <2>5. l.name \in Names /\ l.stems = Begins[l.name]
      BY <2>1, <2>2 DEF Read, l
    <2>6. PICK a \in SSIDs : l.name \in {a, Clip[a]}
      BY <2>5 DEF Names
    <2>7. given[a] = {m.key : m \in {q \in ToSet(file) : q.name \in {a, Clip[a]}}} \cap PSKs
      BY <1>1 DEF Init
    <2>8. l.key \in given[a]
      BY <2>3, <2>4, <2>6, <2>7
    <2>9. a \in Names /\ (Clip[a] = a \/ Clip[a] \in Begins[a])
          /\ \A p \in Begins[a] : Begins[p] \subseteq Begins[a]
      BY NamesAssumption DEF Names
    <2>10. Read(l) \subseteq {a} \cup Begins[a]
      BY <2>5, <2>6, <2>9 DEF Read
    <2> QED
      BY <2>6, <2>8, <2>10 DEF Own, l
  <1> QED
    BY <1>1, <1>2, <1>3, <1>4, BaseInit, GoodEmpty
       DEF KeyInv, OneLine, LinesGenuine, Good

LEMMA GoodLoaded ==
  ASSUME KeyInv, NEW c, Loaded(c)
  PROVE  Good(c.text, given) /\ c.text \in Seq(Lines)
  <1>1. c.text \in Seq(Lines)
    BY ConfigFields DEF Loaded, Fits
  <1>2. Good(file, given) /\ Good(conf.text, given)
    BY DEF KeyInv, OneLine, LinesGenuine, Good
  <1> QED
    BY <1>1, <1>2, GoodEmpty DEF Loaded

LEMMA GoodNow ==
  (KeyInv <=> BaseInv /\ Good(file, given) /\ Good(conf.text, given))
  BY DEF KeyInv, OneLine, LinesGenuine, Good

LEMMA KeyStep == NamesApart /\ KeyInv /\ [Next]_vars => KeyInv'
  <1>1. SUFFICES ASSUME NamesApart, KeyInv, [Next]_vars
                 PROVE  KeyInv'
    OBVIOUS
  <1>2. BaseInv' /\ BaseInv /\ TypeOK /\ Fits(conf)
    BY <1>1, BaseStep, BaseFits DEF KeyInv, BaseInv
  <1>3. Good(file, given) /\ Good(conf.text, given) /\ file \in Seq(Lines)
        /\ conf.text \in Seq(Lines) /\ given \in [SSIDs -> SUBSET PSKs]
    BY <1>1, <1>2, GoodNow, ConfigFields DEF TypeOK
  <1>4. SUFFICES Good(file', given') /\ Good(conf'.text, given')
    BY <1>2 DEF KeyInv, OneLine, LinesGenuine, Good, Tidy, Genuine, LineGenuine, Own, Read
  <1>5. ASSUME NEW s \in SSIDs, Lookup(s)
        PROVE  Good(file', given') /\ Good(conf'.text, given')
    <2>1. PICK how \in Hows : conf' = load_config(conf, how)
      BY <1>5 DEF Lookup
    <2>2. Loaded(conf') /\ file' = file /\ given' = given
      BY <1>2, <1>5, <2>1, LoadGives DEF Lookup, TypeOK
    <2> QED
      BY <1>1, <1>3, <2>2, GoodLoaded
  <1>6. ASSUME NEW s \in SSIDs, NEW k \in PSKs, SavePsk(s, k)
        PROVE  Good(file', given') /\ Good(conf'.text, given')
    <2>1. file' = file /\ given' = [given EXCEPT ![s] = @ \cup {k}]
      BY <1>6 DEF SavePsk
    <2>2. Good(file', given')
      BY <1>3, <2>1, GoodLater
    <2>3. \/ conf' = NoConfig
          \/ \E c : /\ Loaded(c)
                    /\ \/ conf' = c
                       \/ SavedText(c.text, conf'.text, s, k)
      BY <1>2, <1>6, SaveChanges
    <2>4. ASSUME NEW c, Loaded(c), conf' = c \/ SavedText(c.text, conf'.text, s, k)
          PROVE  Good(conf'.text, given')
      <3>1. Good(c.text, given) /\ c.text \in Seq(Lines)
        BY <1>1, <2>4, GoodLoaded
      <3> QED
        BY <1>1, <1>3, <2>1, <2>4, <3>1, GoodLater, GoodSaved
    <2>5. conf' = NoConfig => Good(conf'.text, given')
      BY GoodEmpty DEF NoConfig
    <2> QED
      BY <2>2, <2>3, <2>4, <2>5
  <1>7. ASSUME NEW s \in SSIDs, DropPsk(s)
        PROVE  Good(file', given') /\ Good(conf'.text, given')
    <2>1. file' = file /\ given' = given
      BY <1>7 DEF DropPsk
    <2>2. \/ conf' = NoConfig
          \/ \E c : /\ Loaded(c)
                    /\ conf' = c \/ DroppedText(c.text, conf'.text, s)
      BY <1>2, <1>7, DropChanges
    <2>3. ASSUME NEW c, Loaded(c), conf' = c \/ DroppedText(c.text, conf'.text, s)
          PROVE  Good(conf'.text, given')
      BY <1>1, <2>1, <2>3, GoodLoaded, GoodDropped
    <2>4. conf' = NoConfig => Good(conf'.text, given')
      BY GoodEmpty DEF NoConfig
    <2> QED
      BY <1>3, <2>1, <2>2, <2>3, <2>4
  <1>8. CASE SaveOpen
    BY <1>3, <1>8, GoodEmpty DEF SaveOpen
  <1>9. CASE SaveWrite
    BY <1>2, <1>3, <1>9, Cleaned DEF SaveWrite
  <1>10. CASE SaveCut
    BY <1>1, <1>2, <1>3, <1>10, Cleaned, GoodCut DEF SaveCut
  <1>11. CASE Kill
    <2>1. conf' = NoConfig /\ given' = given
          /\ file' \in (IF writing THEN Cuts(conf.text) ELSE {file})
      BY <1>11 DEF Kill, Gone
    <2>2. Good(file', given')
      BY <1>1, <1>3, <2>1, GoodCut
    <2> QED
      BY <2>1, <2>2, GoodEmpty DEF NoConfig
  <1>12. CASE Restart \/ UNCHANGED vars
    BY <1>3, <1>12 DEF Restart, vars
  <1> QED
    BY <1>1, <1>5, <1>6, <1>7, <1>8, <1>9, <1>10, <1>11, <1>12 DEF Next

LEMMA KeysAlways == ASSUME NamesApart  PROVE  Spec => []KeyInv
  BY KeyInit, KeyStep, PTL DEF Spec

(* drop_psk drops one line.  Whatever was cut by a crash, joined by          *)
(* insert_line and saved over by change_part, no other line with a newline *)
(* names the network, and only the last may lack one.                      *)
THEOREM OneLineEach ==
  ASSUME NamesApart
  PROVE  Spec => []OneLine
  <1>1. KeyInv => OneLine
    BY DEF KeyInv
  <1> QED
    BY <1>1, KeysAlways, PTL

(* After any sequence of edits, crashes, full disks and failed loads, the key *)
(* that load_psk finds was given for the network, or the line was cut and  *)
(* the key given for one whose name begins with the network's.             *)
THEOREM KeysAreGenuine ==
  ASSUME NamesApart
  PROVE  Spec => []KeysGenuine
  <1>1. KeyInv => KeysGenuine
    <2>1. SUFFICES ASSUME KeyInv, NEW t \in {file, conf.text}, NEW s \in SSIDs,
                          find_ssid(t, s) # 0
                   PROVE  LET i == find_ssid(t, s)
                          IN \/ t[i].key \in {BadPsk} \cup given[s]
                             \/ /\ ~t[i].eol
                                /\ \E n \in SSIDs : s \in Begins[n] /\ t[i].key \in given[n]
      BY DEF KeysGenuine
    <2> DEFINE i == find_ssid(t, s)
               l == t[i]
    <2>2. Genuine(t, given) /\ t \in Seq(Lines)
      BY <2>1, ConfigFields DEF KeyInv, LinesGenuine, BaseInv, TypeOK
    <2>3. i \in DOMAIN t /\ l.name = s
      BY <2>1, <2>2, FoundLine, NamesFormatted
    <2>4. LineGenuine(l, given)
      BY <2>2, <2>3 DEF Genuine
    <2> HIDE DEF l, i
    <2>5. s \in Read(l) /\ s \in Names
      BY <2>3 DEF Read, Names
    <2>6. CASE l.key # BadPsk
      <3>1. PICK n \in SSIDs : l.key \in given[n] /\ Own(l, n)
        BY <2>4, <2>5, <2>6 DEF LineGenuine
      <3>2. n = s \/ s \in Begins[n]
        BY <2>5, <3>1 DEF Own
      <3>3. CASE l.eol
        <4>1. s \in {n, Clip[n]}
          BY <2>3, <2>5, <3>1, <3>3 DEF Own
        <4>2. s = Clip[n] => Clip[n] = n
          <5>1. Width[n] \in Nat /\ (Width[n] > 29 => Clip[n] \notin SSIDs)
            BY DEF NamesApart, Names
          <5> QED
            BY <2>3, <5>1, NamesAssumption
        <4> QED
          BY <3>1, <4>1, <4>2 DEF l, i
      <3> QED
        BY <3>1, <3>2, <3>3 DEF l, i
    <2> QED
      BY <2>6 DEF l, i
  <1> QED
    BY <1>1, KeysAlways, PTL

-----------------------------------------------------------------------------
LEMMA ShortIsApart == ShortNames => NamesApart
  BY DEF ShortNames, NamesApart, Names

LEMMA ViewSaved ==
  ASSUME ShortNames, NEW s \in SSIDs, NEW k \in PSKs, NEW t \in Seq(Lines),
         NEW u \in Seq(Lines), Single(t), Single(u), Ended(t), SavedText(t, u, s, k)
  PROVE  View(u) = View(t) \/ View(u) = [View(t) EXCEPT ![s] = k]
  <1>0. NamesApart
    BY ShortIsApart
  <1>1. Sought(s) = s /\ Written(s) = s
    <2>1. Width[s] <= 29
      BY DEF ShortNames
    <2> QED
      BY <1>0, <2>1, NamesFormatted DEF Written, fmt_ssid, Names
  <1>2. SUFFICES ASSUME u # t
                 PROVE  View(u) = [View(t) EXCEPT ![s] = k]
    OBVIOUS
  <1>3. SUFFICES ASSUME NEW r \in SSIDs
                 PROVE  KeyIn(u, r) = IF r = s THEN k ELSE KeyIn(t, r)
    BY DEF View
  <1>4. Len(t) \in Nat /\ DOMAIN t = 1..Len(t)
    BY LenProperties
  <1>5. ASSUME NEW i \in DOMAIN t, NEW l \in Lines, t[i].name = s, l.key = k,
               l.name = s, u = [t EXCEPT ![i] = l]
        PROVE  KeyIn(u, r) = IF r = s THEN k ELSE KeyIn(t, r)
    <2>1. /\ DOMAIN u = DOMAIN t /\ u[i] = l
          /\ \A j \in DOMAIN t : j # i => u[j] = t[j]
      BY <1>5
    <2>2. CASE r = s
      <3>1. KeyIn(u, s) = l.key
        BY <1>0, <1>5, <2>1, KeyOfLine
      <3> QED
        BY <1>5, <2>2, <3>1
    <2>3. CASE r # s
      <3>1. \A j \in DOMAIN t : u[j].name = r <=> t[j].name = r
        BY <1>5, <2>1, <2>3
      <3>2. \A j \in DOMAIN t : t[j].name = r => u[j].key = t[j].key
        BY <1>5, <2>1, <2>3
      <3>3. CASE \E j \in DOMAIN t : t[j].name = r
        BY <1>0, <2>1, <2>3, <3>1, <3>2, <3>3, KeyOfLine
      <3>4. CASE \A j \in DOMAIN t : t[j].name # r
        BY <1>0, <2>1, <2>3, <3>1, <3>4, KeyOfLine
      <3> QED
        BY <3>3, <3>4
    <2> QED
      BY <2>2, <2>3
  <1>6. ASSUME u = Append(t, NewLine(s, k)), \A j \in DOMAIN t : t[j].name # s
        PROVE  KeyIn(u, r) = IF r = s THEN k ELSE KeyIn(t, r)
    <2> DEFINE n == Len(t)
               new == NewLine(s, k)
    <2>1. new \in Lines /\ new.key = k /\ new.name = s
      BY <1>1, NewLineType
    <2> HIDE DEF new
    <2>2. DOMAIN u = 1..(n + 1) /\ u[n + 1] = new /\ \A j \in 1..n : u[j] = t[j]
      <3>1. /\ Len(u) = n + 1 /\ u[n + 1] = new /\ \A j \in 1..n : u[j] = t[j]
        BY <1>4, <1>6, <2>1, AppendProperties DEF new
      <3> QED
        BY <3>1, LenProperties
    <2>3. CASE r = s
      <3>1. n + 1 \in DOMAIN u
        BY <1>4, <2>2
      <3>2. KeyIn(u, s) = u[n + 1].key
        BY <1>0, <2>1, <2>2, <3>1, KeyOfLine
      <3> QED
        BY <2>1, <2>2, <2>3, <3>2
    <2>4. CASE r # s
      <3>1. \A j \in DOMAIN u : u[j].name = r => j \in DOMAIN t /\ u[j] = t[j]
        <4>1. \A j \in 1..(n + 1) : j \in 1..n \/ j = n + 1
          BY <1>4
        <4> QED
          BY <1>4, <2>1, <2>2, <2>4, <4>1
      <3>2. \A j \in DOMAIN t : j \in DOMAIN u /\ u[j] = t[j]
        BY <1>4, <2>2
      <3>3. CASE \E j \in DOMAIN t : t[j].name = r
        <4>1. PICK j \in DOMAIN t : t[j].name = r
          BY <3>3
        <4>2. KeyIn(t, r) = t[j].key
          BY <1>0, <4>1, KeyOfLine
        <4>3. KeyIn(u, r) = u[j].key
          BY <1>0, <3>2, <4>1, KeyOfLine
        <4> QED
          BY <2>4, <3>2, <4>2, <4>3
      <3>4. CASE \A j \in DOMAIN t : t[j].name # r
        <4>1. \A j \in DOMAIN u : u[j].name # r
          BY <3>1, <3>4
        <4>2. KeyIn(t, r) = NoPsk /\ KeyIn(u, r) = NoPsk
          BY <1>0, <3>4, <4>1, KeyOfLine
        <4> QED
          BY <2>4, <4>2
      <3> QED
        BY <3>3, <3>4
    <2> QED
      BY <2>3, <2>4
  <1>7. ~(Len(t) > 0 /\ ~t[Len(t)].eol)
    BY <1>4 DEF Ended
  <1> QED
    BY <1>1, <1>2, <1>5, <1>6, <1>7 DEF SavedText

LEMMA ViewDropped ==
  ASSUME ShortNames, NEW s \in SSIDs, NEW t \in Seq(Lines), NEW u \in Seq(Lines),
         Single(t), Single(u), DroppedText(t, u, s)
  PROVE  View(u) = [View(t) EXCEPT ![s] = NoPsk]
  <1>0. NamesApart /\ Sought(s) = s
    BY ShortIsApart, NamesFormatted
  <1>1. PICK i \in DOMAIN t : t[i].name = s /\ u = RemoveAt(t, i)
    BY <1>0 DEF DroppedText
  <1>2. /\ Len(t) \in Nat \ {0} /\ Len(u) = Len(t) - 1 /\ i \in 1..Len(t)
        /\ \A j \in 1..(Len(t) - 1) : u[j] = IF j < i THEN t[j] ELSE t[j + 1]
    BY <1>1, Removed
  <1>3. DOMAIN u = 1..(Len(t) - 1) /\ DOMAIN t = 1..Len(t)
    BY <1>2, LenProperties
  <1>4. SUFFICES ASSUME NEW r \in SSIDs
                 PROVE  KeyIn(u, r) = IF r = s THEN NoPsk ELSE KeyIn(t, r)
    BY DEF View
  <1>5. \A j \in DOMAIN u : \E m \in DOMAIN t : m # i /\ u[j] = t[m]
    <2>1. SUFFICES ASSUME NEW j \in DOMAIN u
                   PROVE  \E m \in DOMAIN t : m # i /\ u[j] = t[m]
      OBVIOUS
    <2>2. CASE j < i
      BY <1>2, <1>3, <2>2
    <2>3. CASE ~(j < i)
      <3>1. j + 1 \in DOMAIN t /\ j + 1 # i /\ u[j] = t[j + 1]
        BY <1>2, <1>3, <2>3
      <3> QED
        BY <3>1
    <2> QED
      BY <2>2, <2>3
  <1>6. \A m \in DOMAIN t : m # i => \E j \in DOMAIN u : u[j] = t[m]
    <2>1. SUFFICES ASSUME NEW m \in DOMAIN t, m # i
                   PROVE  \E j \in DOMAIN u : u[j] = t[m]
      OBVIOUS
    <2>2. CASE m < i
      BY <1>2, <1>3, <2>2
    <2>3. CASE ~(m < i)
      <3>1. m - 1 \in DOMAIN u /\ ~(m - 1 < i) /\ (m - 1) + 1 = m
        BY <1>2, <1>3, <2>1, <2>3
      <3>2. u[m - 1] = t[m]
        BY <1>2, <1>3, <3>1
      <3> QED
        BY <3>1, <3>2
    <2> QED
      BY <2>2, <2>3
  <1>7. CASE r = s
    <2>1. \A j \in DOMAIN u : u[j].name # s
      BY <1>1, <1>5 DEF Single
    <2>2. KeyIn(u, s) = NoPsk
      BY <1>0, <2>1, KeyOfLine
    <2> QED
      BY <1>7, <2>2
  <1>8. CASE r # s
    <2>1. CASE \E m \in DOMAIN t : t[m].name = r
      <3>1. PICK m \in DOMAIN t : t[m].name = r
        BY <2>1
      <3>2. PICK j \in DOMAIN u : u[j] = t[m]
        BY <1>1, <1>6, <1>8, <3>1
      <3>3. KeyIn(t, r) = t[m].key
        BY <1>0, <3>1, KeyOfLine
      <3>4. KeyIn(u, r) = u[j].key
        BY <1>0, <3>1, <3>2, KeyOfLine
      <3> QED
        BY <1>8, <3>2, <3>3, <3>4
    <2>2. CASE \A m \in DOMAIN t : t[m].name # r
      <3>1. \A j \in DOMAIN u : u[j].name # r
        BY <1>5, <2>2
      <3>2. KeyIn(t, r) = NoPsk /\ KeyIn(u, r) = NoPsk
        BY <1>0, <2>2, <3>1, KeyOfLine
      <3> QED
        BY <1>8, <3>2
    <2> QED
      BY <2>1, <2>2
  <1> QED
    BY <1>7, <1>8

LEMMA KeyInType ==
  ASSUME NamesApart, NEW t \in Seq(Lines), Single(t), NEW s \in SSIDs
  PROVE  KeyIn(t, s) \in PSKs \cup {NoPsk, BadPsk}
  <1>1. \A i \in DOMAIN t : t[i].key \in PSKs \cup {BadPsk}
    BY ElementOfSeq, LenProperties, LineFields
  <1> QED
    BY <1>1, KeyOfLine

LEMMA InitStores == ASSUME ShortNames, Init  PROVE  Store!Init
  <1>1. NamesApart /\ ~conf.loaded /\ ~writing
    BY ShortIsApart DEF Init, NoConfig
  <1>2. OnDisk = View(IF hurt THEN <<>> ELSE file) /\ InMemory = OnDisk
    BY <1>1 DEF OnDisk, InMemory
  <1>3. file \in Seq(Lines) /\ (~hurt => Single(file)) /\ <<>> \in Seq(Lines)
    <2>1. Tidy(file) /\ (~hurt => Ended(file))
      BY FilesAssumption DEF Init, Ended
    <2> QED
      BY <2>1, TidyEnded, FilesAssumption, EmptySeq DEF Init
  <1>4. Single(<<>>)
    <2> DEFINE t == <<>>
    <2>1. DOMAIN t = {}
      OBVIOUS
    <2> HIDE DEF t
    <2>2. Single(t)
      BY <2>1 DEF Single
    <2> QED
      BY <2>2 DEF t
  <1>5. ASSUME NEW t \in Seq(Lines), Single(t)
        PROVE  View(t) \in [SSIDs -> Store!Keys]
    BY <1>1, <1>5, KeyInType DEF View, Store!Keys
  <1>6. OnDisk \in [SSIDs -> Store!Keys]
    <2>1. CASE hurt
      <3>1. OnDisk = View(<<>>)
        BY <1>2, <2>1
      <3> QED
        BY <1>3, <1>4, <1>5, <3>1, Zenon
    <2>2. CASE ~hurt
      BY <1>2, <1>3, <1>5, <2>2
    <2> QED
      BY <2>1, <2>2
  <1> QED
    BY <1>2, <1>6 DEF Store!Init

(* A disk that fails is empty to the daemon and stays so. *)
LEMMA HurtStores ==
  ASSUME hurt, hurt' = hurt
  PROVE  InMemory' = InMemory /\ OnDisk' = OnDisk
  <1> DEFINE e == <<>>
  <1>1. OnDisk = View(e)
    BY DEF OnDisk
  <1>2. e' = e
    OBVIOUS
  <1>3. hurt'
    OBVIOUS
  <1>4. OnDisk' = View(e)
    BY <1>3, Zenon DEF OnDisk
  <1> QED
    BY <1>1, <1>3, <1>4 DEF InMemory

(* What a handler begins with is what the daemon finds. *)
LEMMA LoadedStores ==
  ASSUME ~hurt, ~writing, NEW c, Loaded(c), c.loaded
  PROVE  View(c.text) = InMemory
  <1>1. CASE c = conf
    BY <1>1 DEF InMemory
  <1>2. CASE ~conf.loaded /\ c.text = file
    BY <1>2 DEF InMemory, OnDisk
  <1> QED
    BY <1>1, <1>2 DEF Loaded

(* A handler that only loads the file changes nothing; one that fails loses *)
(* what was not saved.                                                     *)
LEMMA QuietStores ==
  ASSUME ~hurt, ~writing, UNCHANGED <<hurt, file, writing>>
  PROVE  /\ OnDisk' = OnDisk
         /\ Loaded(conf') => InMemory' = InMemory
         /\ conf' = NoConfig => InMemory' = OnDisk
         /\ conf'.loaded => InMemory' = View(conf'.text)
  <1>1. OnDisk = View(file) /\ OnDisk' = View(file')
    BY DEF OnDisk
  <1>2. OnDisk' = OnDisk
    BY <1>1
  <1>3. conf'.loaded => InMemory' = View(conf'.text)
    BY DEF InMemory
  <1>4. ~conf'.loaded => InMemory' = OnDisk
    BY <1>2 DEF InMemory
  <1>5. Loaded(conf') => InMemory' = InMemory
    <2>1. CASE conf'.loaded
      BY <1>3, <2>1, LoadedStores
    <2>2. CASE ~conf'.loaded
      BY <1>4, <2>2 DEF Loaded, InMemory
    <2> QED
      BY <2>1, <2>2
  <1>6. conf' = NoConfig => ~conf'.loaded
    BY DEF NoConfig
  <1> QED
    BY <1>2, <1>3, <1>4, <1>5, <1>6

LEMMA StepStores ==
  ASSUME ShortNames, KeyInv, KeyInv', [Next]_vars
  PROVE  [Store!Next]_<<InMemory, OnDisk>>
  <1>0. SUFFICES ASSUME ~hurt
                 PROVE  [Store!Next]_<<InMemory, OnDisk>>
    <2>1. hurt' = hurt
      BY DEF Next, vars, Lookup, DropPsk, SavePsk, SaveOpen, SaveWrite, SaveCut,
             Kill, Restart
    <2> QED
      BY <2>1, HurtStores
  <1>1. TypeOK /\ Fits(conf) /\ Opened /\ LinesEnded
    BY BaseFits DEF KeyInv, BaseInv
  <1>2. conf'.text \in Seq(Lines) /\ Single(conf'.text)
    <2>1. hurt' = hurt
      BY DEF Next, vars, Lookup, DropPsk, SavePsk, SaveOpen, SaveWrite, SaveCut,
             Kill, Restart
    <2>2. LinesEnded' /\ OneLine' /\ conf' \in Configs
      BY DEF KeyInv, BaseInv, TypeOK
    <2>3. Ended(conf'.text) /\ Tidy(conf'.text)
      BY <1>0, <2>1, <2>2 DEF LinesEnded, OneLine, Ended, Tidy
    <2> QED
      BY <2>2, <2>3, ConfigFields, TidyEnded
  <1>3. ASSUME NEW c, Loaded(c)
        PROVE  c.text \in Seq(Lines) /\ Single(c.text) /\ Ended(c.text)
    <2>1. c.text \in Seq(Lines) /\ Tidy(c.text)
      BY <1>3, GoodLoaded DEF Good
    <2>2. Ended(c.text)
      BY <1>0, <1>1, <1>3 DEF Loaded, LinesEnded
    <2> QED
      BY <2>1, <2>2, TidyEnded
  <1>4. ASSUME NEW s \in SSIDs, Lookup(s)
        PROVE  [Store!Next]_<<InMemory, OnDisk>>
    <2>1. ~writing /\ UNCHANGED <<hurt, file, writing>>
      BY <1>4 DEF Lookup, Serving
    <2>2. PICK how \in Hows : conf' = load_config(conf, how)
      BY <1>4 DEF Lookup
    <2>3. Loaded(conf')
      BY <1>1, <2>2, LoadGives DEF TypeOK
    <2> QED
      BY <1>0, <2>1, <2>3, QuietStores
  <1>5. ASSUME NEW s \in SSIDs, NEW k \in PSKs, SavePsk(s, k)
        PROVE  [Store!Next]_<<InMemory, OnDisk>>
    <2>1. ~writing /\ UNCHANGED <<hurt, file, writing>>
      BY <1>5 DEF SavePsk, Serving
    <2>2. \/ conf' = NoConfig
          \/ \E c : /\ Loaded(c)
                    /\ \/ conf' = c
                       \/ /\ c.loaded /\ conf'.loaded
                          /\ SavedText(c.text, conf'.text, s, k)
      BY <1>1, <1>5, SaveChanges
    <2>3. CASE conf' = NoConfig
      <3>1. InMemory' = OnDisk /\ OnDisk' = OnDisk
        BY <1>0, <2>1, <2>3, QuietStores
      <3> QED
        BY <3>1 DEF Store!Next, Store!Stop
    <2>4. CASE Loaded(conf')
      BY <1>0, <2>1, <2>4, QuietStores
    <2>5. ASSUME NEW c, Loaded(c), c.loaded, conf'.loaded,
                 SavedText(c.text, conf'.text, s, k)
          PROVE  [Store!Next]_<<InMemory, OnDisk>>
      <3>1. InMemory = View(c.text) /\ InMemory' = View(conf'.text) /\ OnDisk' = OnDisk
        BY <1>0, <2>1, <2>5, QuietStores, LoadedStores
      <3>2. View(conf'.text) = View(c.text) \/ View(conf'.text) = [View(c.text) EXCEPT ![s] = k]
        BY <1>2, <1>3, <2>5, ViewSaved
      <3>3. CASE View(conf'.text) = View(c.text)
        BY <3>1, <3>3
      <3>4. CASE View(conf'.text) = [View(c.text) EXCEPT ![s] = k]
        <4>1. Store!Save(s, k)
          BY <3>1, <3>4 DEF Store!Save
        <4> QED
          BY <4>1 DEF Store!Next
      <3> QED
        BY <3>2, <3>3, <3>4
    <2> QED
      BY <2>2, <2>3, <2>4, <2>5
  <1>6. ASSUME NEW s \in SSIDs, DropPsk(s)
        PROVE  [Store!Next]_<<InMemory, OnDisk>>
    <2>1. ~writing /\ UNCHANGED <<hurt, file, writing>>
      BY <1>6 DEF DropPsk, Serving
    <2>2. \/ conf' = NoConfig
          \/ \E c : /\ Loaded(c)
                    /\ \/ conf' = c
                       \/ /\ c.loaded /\ conf'.loaded
                          /\ DroppedText(c.text, conf'.text, s)
      BY <1>1, <1>6, DropChanges
    <2>3. CASE conf' = NoConfig
      <3>1. InMemory' = OnDisk /\ OnDisk' = OnDisk
        BY <1>0, <2>1, <2>3, QuietStores
      <3> QED
        BY <3>1 DEF Store!Next, Store!Stop
    <2>4. CASE Loaded(conf')
      BY <1>0, <2>1, <2>4, QuietStores
    <2>5. ASSUME NEW c, Loaded(c), c.loaded, conf'.loaded,
                 DroppedText(c.text, conf'.text, s)
          PROVE  [Store!Next]_<<InMemory, OnDisk>>
      <3>1. InMemory = View(c.text) /\ InMemory' = View(conf'.text) /\ OnDisk' = OnDisk
        BY <1>0, <2>1, <2>5, QuietStores, LoadedStores
      <3>2. View(conf'.text) = [View(c.text) EXCEPT ![s] = NoPsk]
        BY <1>2, <1>3, <2>5, ViewDropped
      <3>3. Store!Forget(s)
        BY <3>1, <3>2 DEF Store!Forget
      <3> QED
        BY <3>3 DEF Store!Next
    <2> QED
      BY <2>2, <2>3, <2>4, <2>5
  <1>7. CASE SaveOpen
    <2>1. conf.loaded /\ conf' = conf /\ hurt' = hurt /\ writing'
      BY <1>1, <1>7 DEF SaveOpen, Opened
    <2>2. InMemory = View(conf.text) /\ InMemory' = View(conf.text)
      BY <1>0, <2>1 DEF InMemory
    <2>3. OnDisk' = View(conf.text)
      BY <1>0, <2>1 DEF OnDisk
    <2>4. Store!Sync
      BY <2>2, <2>3 DEF Store!Sync
    <2> QED
      BY <2>4 DEF Store!Next
  <1>8. CASE SaveWrite
    <2>1. /\ conf.loaded /\ conf'.loaded /\ conf'.text = conf.text /\ writing
          /\ hurt' = hurt /\ ~writing' /\ file' = conf.text
      <3>1. conf'.loaded = conf.loaded
        BY <1>1, <1>8 DEF SaveWrite, TypeOK, Configs
      <3> QED
        BY <1>1, <1>8, <3>1, Cleaned DEF SaveWrite, Opened, KeyInv
    <2>2. InMemory = View(conf.text) /\ InMemory' = View(conf.text)
      BY <1>0, <2>1 DEF InMemory
    <2>3. OnDisk = View(conf.text) /\ OnDisk' = View(conf.text)
      BY <1>0, <2>1 DEF OnDisk
    <2> QED
      BY <2>2, <2>3
  <1>9. CASE SaveCut
    BY <1>0, <1>9 DEF SaveCut
  <1>10. CASE Kill
    <2>1. /\ conf' = NoConfig /\ ~writing /\ ~writing' /\ hurt' = hurt
          /\ file' = file
      BY <1>0, <1>10 DEF Kill, Gone
    <2>2. OnDisk' = OnDisk
      BY <1>0, <2>1 DEF OnDisk
    <2>3. InMemory' = OnDisk'
      BY <2>1 DEF InMemory, NoConfig
    <2> QED
      BY <2>2, <2>3 DEF Store!Next, Store!Stop
  <1>11. CASE Restart \/ UNCHANGED vars
    BY <1>11 DEF Restart, vars, InMemory, OnDisk
  <1> QED
    BY <1>4, <1>5, <1>6, <1>7, <1>8, <1>9, <1>10, <1>11 DEF Next

(* To the rest of the daemon, save_psk, drop_psk, load_psk and save_config are *)
(* a table of keys that is changed in memory and brought to the disk.       *)
THEOREM FileImplementsStore ==
  ASSUME ShortNames
  PROVE  Spec => Implements
  <1>1. Init => Store!Init
    BY InitStores
  <1>2. KeyInv /\ KeyInv' /\ [Next]_vars => [Store!Next]_<<InMemory, OnDisk>>
    BY StepStores
  <1>3. Spec => []KeyInv
    BY KeysAlways, ShortIsApart
  <1> QED
    BY <1>1, <1>2, <1>3, PTL DEF Spec, Implements, Store!Spec
=============================================================================
