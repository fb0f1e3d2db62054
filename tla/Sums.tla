-------------------------------- MODULE Sums --------------------------------
(***************************************************************************)
(* Induction on natural numbers, from the well-foundedness of their order, *)
(* and on sequences; the sum of a sequence or of a finite set of natural   *)
(* numbers, and the filter of a sequence: how they change when an element  *)
(* is added, changed or removed.                                           *)
(***************************************************************************)
EXTENDS Naturals, Sequences, FiniteSets, FiniteSetsExt, Filters, SequenceTheorems,
        FiniteSetTheorems, WellFoundedInduction, TLAPS

\* w without its i-th element.
Omit(w, i) == SubSeq(w, 1, i - 1) \o SubSeq(w, i + 1, Len(w))

-----------------------------------------------------------------------------

LEMMA AddLast == \A a, b, c \in Nat : (a + b) + c = (a + c) + b
  OBVIOUS

LEMMA NatMinimum ==
  ASSUME NEW T, T \subseteq Nat, T # {}
  PROVE  \E m \in T : \A n \in T : m <= n
<1> DEFINE Less == {p \in Nat \X Nat : p[1] < p[2]}
<1>1. IsWellFoundedOn(Less, Nat)
  BY NatLessThanWellFounded DEF OpToRel
<1>2. PICK m \in T : \A n \in T : <<n, m>> \notin Less
  <2> HIDE DEF Less
  <2> QED BY <1>1, WFMin
<1>3. ASSUME NEW n \in T PROVE m <= n
  <2>1. m \in Nat /\ n \in Nat
    OBVIOUS
  <2>2. n < m => <<n, m>> \in Less
    BY <2>1
  <2> QED BY <1>2, <2>1, <2>2
<1> QED BY <1>3

\* Induction for a set: provers can instantiate a set where they could not
\* instantiate a predicate.
LEMMA NatInduct ==
  ASSUME NEW P, 0 \in P, \A n \in Nat : n \in P => n + 1 \in P
  PROVE  Nat \subseteq P
<1> SUFFICES ASSUME Nat \ P # {} PROVE FALSE
  OBVIOUS
<1>1. PICK m \in Nat \ P : \A n \in Nat \ P : m <= n
  BY NatMinimum
<1>2. m # 0
  OBVIOUS
<1>3. m - 1 \in Nat /\ m - 1 \in P
  BY <1>1, <1>2
<1> QED BY <1>3

-----------------------------------------------------------------------------
(* Sums of sequences.                                                      *)

PartialSums(f, w, k) ==
  f = [n \in 0..k |-> IF n = 0 THEN 0 ELSE f[n - 1] + w[n]]

LEMMA PartialSumsExist ==
  ASSUME NEW w \in Seq(Nat)
  PROVE  \E f : PartialSums(f, w, Len(w))
<1> DEFINE P == {k \in Nat : \E f : PartialSums(f, w, k)}
<1>1. 0 \in P
  <2>1. PartialSums([n \in 0..0 |-> 0], w, 0)
    BY DEF PartialSums
  <2> QED BY <2>1
<1>2. ASSUME NEW k \in Nat, k \in P PROVE k + 1 \in P
  <2>1. PICK f : PartialSums(f, w, k)
    BY <1>2
  <2> DEFINE g == [n \in 0..(k + 1) |-> IF n <= k THEN f[n] ELSE f[k] + w[k + 1]]
  <2>2. \A n \in 0..k : f[n] = IF n = 0 THEN 0 ELSE f[n - 1] + w[n]
    BY <2>1 DEF PartialSums
  <2>3. ASSUME NEW n \in 0..(k + 1)
        PROVE  g[n] = IF n = 0 THEN 0 ELSE g[n - 1] + w[n]
    <3>1. CASE n <= k
      BY <2>2, <3>1
    <3>2. CASE n = k + 1
      BY <3>2
    <3> QED BY <3>1, <3>2
  <2>4. g = [n \in 0..(k + 1) |-> g[n]]
    OBVIOUS
  <2> HIDE DEF g
  <2>5. PartialSums(g, w, k + 1)
    BY <2>3, <2>4 DEF PartialSums
  <2> QED BY <2>5
<1> HIDE DEF P
<1>3. Len(w) \in P
  BY <1>1, <1>2, NatInduct, LenProperties
<1> QED BY <1>3 DEF P

\* f lists the partial sums of w.
SumsOf(f, w) ==
  /\ f[0] = 0
  /\ \A n \in Nat : n < Len(w) => f[n + 1] = f[n] + w[n + 1]
  /\ \A n \in Nat : n <= Len(w) => f[n] \in Nat

LEMMA PartialSumsStep ==
  ASSUME NEW w \in Seq(Nat), NEW s, PartialSums(s, w, Len(w))
  PROVE  SumsOf(s, w)
<1>0. Len(w) \in Nat /\ \A n \in 1..Len(w) : w[n] \in Nat
  BY LenProperties, ElementOfSeq
<1>3. /\ s[0] = 0
      /\ \A n \in 0..Len(w) : s[n] = IF n = 0 THEN 0 ELSE s[n - 1] + w[n]
  <2>1. \A n \in 0..Len(w) : s[n] = IF n = 0 THEN 0 ELSE s[n - 1] + w[n]
    BY DEF PartialSums
  <2>2. 0 \in 0..Len(w)
    BY <1>0
  <2> QED BY <2>1, <2>2, Zenon
<1>4. ASSUME NEW n \in Nat, n < Len(w) PROVE s[n + 1] = s[n] + w[n + 1]
  <2>1. n + 1 \in 0..Len(w) /\ n + 1 # 0 /\ (n + 1) - 1 = n
    BY <1>0, <1>4
  <2>2. s[n + 1] = s[(n + 1) - 1] + w[n + 1]
    BY <1>3, <2>1
  <2> QED BY <2>1, <2>2
<1> DEFINE P == {n \in Nat : n <= Len(w) => s[n] \in Nat}
<1>5. Nat \subseteq P
  <2>1. 0 \in P
    BY <1>3
  <2>2. ASSUME NEW n \in Nat, n \in P PROVE n + 1 \in P
    <3> SUFFICES ASSUME n + 1 <= Len(w) PROVE s[n + 1] \in Nat
      OBVIOUS
    <3>1. s[n] \in Nat /\ w[n + 1] \in Nat /\ s[n + 1] = s[n] + w[n + 1]
      BY <1>0, <1>4, <2>2
    <3> QED BY <3>1
  <2> HIDE DEF P
  <2> QED BY <2>1, <2>2, NatInduct
<1> QED BY <1>3, <1>4, <1>5 DEF SumsOf

\* The sum is the last of the partial sums.
LEMMA SumSteps ==
  ASSUME NEW w \in Seq(Nat)
  PROVE  \E f : SumsOf(f, w) /\ SumSeq(w) = f[Len(w)]
<1> DEFINE s == CHOOSE f : PartialSums(f, w, Len(w))
<1>1. PartialSums(s, w, Len(w))
  BY PartialSumsExist
<1>2. SumSeq(w) = s[Len(w)]
  BY DEF SumSeq, PartialSums
<1> HIDE DEF s
<1> QED BY <1>1, <1>2, PartialSumsStep

LEMMA SumsNext ==
  ASSUME NEW w \in Seq(Nat), NEW f, SumsOf(f, w), NEW n \in Nat, n < Len(w)
  PROVE  /\ f[n + 1] = f[n] + w[n + 1]
         /\ f[n] \in Nat /\ w[n + 1] \in Nat /\ n + 1 \in 1..Len(w)
<1>1. Len(w) \in Nat /\ n + 1 \in 1..Len(w)
  BY LenProperties
<1>2. w[n + 1] \in Nat
  BY <1>1, ElementOfSeq
<1> QED BY <1>1, <1>2 DEF SumsOf

LEMMA SumNat == ASSUME NEW w \in Seq(Nat) PROVE SumSeq(w) \in Nat
  BY SumSteps, LenProperties DEF SumsOf

LEMMA SumEmpty == SumSeq(<<>>) = 0
<1>1. <<>> \in Seq(Nat) /\ Len(<<>>) = 0
  BY EmptySeq
<1> QED BY <1>1, SumSteps DEF SumsOf

\* Smaller elements have a smaller sum.
LEMMA SumMonotone ==
  ASSUME NEW v \in Seq(Nat), NEW w \in Seq(Nat), Len(v) = Len(w),
         \A i \in 1..Len(w) : v[i] <= w[i]
  PROVE  SumSeq(v) <= SumSeq(w)
<1>0. Len(w) \in Nat
  BY LenProperties
<1>1. PICK f : SumsOf(f, v) /\ SumSeq(v) = f[Len(w)]
  BY SumSteps
<1>2. PICK g : SumsOf(g, w) /\ SumSeq(w) = g[Len(w)]
  BY SumSteps
<1> DEFINE P == {n \in Nat : n <= Len(w) => f[n] <= g[n]}
<1>3. 0 \in P
  BY <1>1, <1>2 DEF SumsOf
<1>4. ASSUME NEW n \in Nat, n \in P PROVE n + 1 \in P
  <2> SUFFICES ASSUME n + 1 <= Len(w) PROVE f[n + 1] <= g[n + 1]
    OBVIOUS
  <2>0. n < Len(w) /\ f[n] <= g[n]
    BY <1>0, <1>4
  <2> HIDE DEF P
  <2>1. /\ f[n + 1] = f[n] + v[n + 1] /\ f[n] \in Nat /\ v[n + 1] \in Nat
        /\ g[n + 1] = g[n] + w[n + 1] /\ g[n] \in Nat /\ w[n + 1] \in Nat
        /\ n + 1 \in 1..Len(w)
    BY <1>1, <1>2, <2>0, SumsNext
  <2>2. v[n + 1] <= w[n + 1]
    BY <2>1
  <2> QED BY <2>0, <2>1, <2>2
<1> HIDE DEF P
<1>5. Len(w) \in P
  BY <1>0, <1>3, <1>4, NatInduct
<1> QED BY <1>0, <1>1, <1>2, <1>5 DEF P

\* One element changes.
LEMMA SumChange ==
  ASSUME NEW v \in Seq(Nat), NEW w \in Seq(Nat), Len(v) = Len(w),
         NEW i \in 1..Len(w), \A j \in 1..Len(w) : j # i => v[j] = w[j]
  PROVE  SumSeq(v) + w[i] = SumSeq(w) + v[i]
<1>0. Len(w) \in Nat /\ i \in Nat /\ v[i] \in Nat /\ w[i] \in Nat
  BY LenProperties, ElementOfSeq
<1>1. PICK f : SumsOf(f, v) /\ SumSeq(v) = f[Len(w)]
  BY SumSteps
<1>2. PICK g : SumsOf(g, w) /\ SumSeq(w) = g[Len(w)]
  BY SumSteps
<1> DEFINE P == {n \in Nat : n <= Len(w) => IF n < i THEN f[n] = g[n]
                                            ELSE f[n] + w[i] = g[n] + v[i]}
<1>3. 0 \in P
  BY <1>1, <1>2 DEF SumsOf
<1>4. ASSUME NEW n \in Nat, n \in P PROVE n + 1 \in P
  <2> SUFFICES ASSUME n + 1 <= Len(w)
               PROVE  IF n + 1 < i THEN f[n + 1] = g[n + 1]
                      ELSE f[n + 1] + w[i] = g[n + 1] + v[i]
    OBVIOUS
  <2>0. n < Len(w) /\ IF n < i THEN f[n] = g[n] ELSE f[n] + w[i] = g[n] + v[i]
    BY <1>0, <1>4
  <2> HIDE DEF P
  <2>1. /\ f[n + 1] = f[n] + v[n + 1] /\ f[n] \in Nat /\ v[n + 1] \in Nat
        /\ g[n + 1] = g[n] + w[n + 1] /\ g[n] \in Nat /\ w[n + 1] \in Nat
        /\ n + 1 \in 1..Len(w)
    <3>1. n < Len(v) /\ n < Len(w)
      BY <2>0
    <3>2. f[n + 1] = f[n] + v[n + 1] /\ f[n] \in Nat /\ v[n + 1] \in Nat
      BY <1>1, <3>1, SumsNext
    <3>3. /\ g[n + 1] = g[n] + w[n + 1] /\ g[n] \in Nat /\ w[n + 1] \in Nat
          /\ n + 1 \in 1..Len(w)
      BY <1>2, <3>1, SumsNext
    <3> QED BY <3>2, <3>3
  <2>2. CASE n + 1 = i
    <3>1. f[n] = g[n] /\ ~(n + 1 < i)
      BY <1>0, <2>0, <2>2
    <3>2. (f[n] + v[i]) + w[i] = (f[n] + w[i]) + v[i]
      <4> DEFINE a == f[n]
                 b == v[i]
                 c == w[i]
      <4>1. a \in Nat /\ b \in Nat /\ c \in Nat
        BY <1>0, <2>1
      <4> HIDE DEF a, b, c
      <4>2. (a + b) + c = (a + c) + b
        BY <4>1, AddLast
      <4> QED BY <4>2 DEF a, b, c
    <3> QED BY <2>1, <2>2, <3>1, <3>2
  <2>3. CASE n + 1 # i
    <3>1. v[n + 1] = w[n + 1]
      BY <2>1, <2>3
    <3>2. f[n + 1] = f[n] + w[n + 1]
      BY <2>1, <3>1
    <3>3. CASE n + 1 < i
      BY <1>0, <2>0, <2>1, <3>2, <3>3
    <3>4. CASE n + 1 > i
      <4>1. f[n] + w[i] = g[n] + v[i] /\ ~(n + 1 < i)
        BY <1>0, <2>0, <3>4
      <4>2. /\ f[n] \in Nat /\ w[i] \in Nat /\ g[n] \in Nat /\ v[i] \in Nat
            /\ w[n + 1] \in Nat
        BY <1>0, <2>1
      <4>3. (f[n] + w[n + 1]) + w[i] = (f[n] + w[i]) + w[n + 1]
        <5> DEFINE a == f[n]
                   b == w[n + 1]
                   c == w[i]
        <5>1. a \in Nat /\ b \in Nat /\ c \in Nat
          BY <4>2
        <5> HIDE DEF a, b, c
        <5>2. (a + b) + c = (a + c) + b
          BY <5>1, AddLast
        <5> QED BY <5>2 DEF a, b, c
      <4>4. (g[n] + w[n + 1]) + v[i] = (g[n] + v[i]) + w[n + 1]
        <5> DEFINE a == g[n]
                   b == w[n + 1]
                   c == v[i]
        <5>1. a \in Nat /\ b \in Nat /\ c \in Nat
          BY <4>2
        <5> HIDE DEF a, b, c
        <5>2. (a + b) + c = (a + c) + b
          BY <5>1, AddLast
        <5> QED BY <5>2 DEF a, b, c
      <4> QED BY <2>1, <3>2, <4>1, <4>3, <4>4
    <3> QED BY <1>0, <2>3, <3>3, <3>4
  <2> QED BY <2>2, <2>3
<1> HIDE DEF P
<1>5. Len(w) \in P
  BY <1>0, <1>3, <1>4, NatInduct
<1> QED BY <1>0, <1>1, <1>2, <1>5 DEF P

\* An element is added at the end.
LEMMA SumAppend ==
  ASSUME NEW w \in Seq(Nat), NEW x \in Nat
  PROVE  SumSeq(Append(w, x)) = SumSeq(w) + x
<1> DEFINE v == Append(w, x)
<1>0. /\ Len(w) \in Nat /\ v \in Seq(Nat) /\ Len(v) = Len(w) + 1
      /\ \A n \in 1..Len(w) : v[n] = w[n]
      /\ v[Len(w) + 1] = x
  BY LenProperties, AppendProperties
<1> HIDE DEF v
<1>1. PICK f : SumsOf(f, v) /\ SumSeq(v) = f[Len(v)]
  BY <1>0, SumSteps
<1>2. PICK g : SumsOf(g, w) /\ SumSeq(w) = g[Len(w)]
  BY SumSteps
<1> DEFINE P == {n \in Nat : n <= Len(w) => f[n] = g[n]}
<1>3. 0 \in P
  BY <1>1, <1>2 DEF SumsOf
<1>4. ASSUME NEW n \in Nat, n \in P PROVE n + 1 \in P
  <2> SUFFICES ASSUME n + 1 <= Len(w) PROVE f[n + 1] = g[n + 1]
    OBVIOUS
  <2>0. n < Len(w) /\ n < Len(v) /\ f[n] = g[n]
    BY <1>0, <1>4
  <2> HIDE DEF P
  <2>1. f[n + 1] = f[n] + v[n + 1]
    <3>1. v \in Seq(Nat) /\ SumsOf(f, v)
      BY <1>0, <1>1
    <3> QED BY <2>0, <3>1, SumsNext
  <2>2. g[n + 1] = g[n] + w[n + 1] /\ n + 1 \in 1..Len(w)
    BY <1>2, <2>0, SumsNext
  <2> QED BY <1>0, <2>0, <2>1, <2>2
<1> HIDE DEF P
<1>5. Len(w) \in P
  BY <1>0, <1>3, <1>4, NatInduct
<1>6. f[Len(w)] = g[Len(w)]
  BY <1>0, <1>5 DEF P
<1>7. Len(w) < Len(v)
  BY <1>0
<1>8. f[Len(w) + 1] = f[Len(w)] + v[Len(w) + 1]
  BY <1>0, <1>1, <1>7, SumsNext
<1>9. SumSeq(v) = SumSeq(w) + x
  BY <1>0, <1>1, <1>2, <1>6, <1>8
<1> QED BY <1>9 DEF v

LEMMA OmitFacts ==
  ASSUME NEW S, NEW w \in Seq(S), NEW i \in 1..Len(w)
  PROVE  /\ Omit(w, i) \in Seq(S)
         /\ Len(Omit(w, i)) = Len(w) - 1
         /\ \A k \in 1..(Len(w) - 1) :
               Omit(w, i)[k] = IF k < i THEN w[k] ELSE w[k + 1]
<1> DEFINE a == SubSeq(w, 1, i - 1)
           b == SubSeq(w, i + 1, Len(w))
<1>1. Len(w) \in Nat /\ \A k \in 1..Len(w) : w[k] \in S
  BY LenProperties, ElementOfSeq
<1>2. a \in Seq(S) /\ Len(a) = i - 1 /\ \A k \in 1..(i - 1) : a[k] = w[k]
  BY <1>1, SubSeqProperties
<1>3. /\ b \in Seq(S) /\ Len(b) = Len(w) - i
      /\ \A k \in 1..(Len(w) - i) : b[k] = w[i + k]
  BY <1>1, SubSeqProperties
<1> HIDE DEF a, b
<1>4. /\ a \o b \in Seq(S)
      /\ Len(a \o b) = Len(a) + Len(b)
      /\ \A k \in 1..(Len(a) + Len(b)) :
            (a \o b)[k] = IF k <= Len(a) THEN a[k] ELSE b[k - Len(a)]
  BY <1>2, <1>3, ConcatProperties
<1>5. ASSUME NEW k \in 1..(Len(w) - 1)
      PROVE  (a \o b)[k] = IF k < i THEN w[k] ELSE w[k + 1]
  <2>1. k \in 1..(Len(a) + Len(b)) /\ Len(a) = i - 1 /\ k \in Nat /\ i \in Nat
    BY <1>1, <1>2, <1>3
  <2>2. CASE k < i
    BY <1>2, <1>4, <2>1, <2>2
  <2>3. CASE ~(k < i)
    <3>1. (a \o b)[k] = b[k - (i - 1)]
      <4>1. ~(k <= Len(a)) /\ k - Len(a) = k - (i - 1)
        BY <2>1, <2>3
      <4> QED BY <1>4, <2>1, <4>1
    <3>2. k - (i - 1) \in 1..(Len(w) - i) /\ i + (k - (i - 1)) = k + 1
      BY <1>1, <2>1, <2>3
    <3>3. b[k - (i - 1)] = w[i + (k - (i - 1))]
      BY <1>3, <3>2
    <3> QED BY <2>3, <3>1, <3>2, <3>3
  <2> QED BY <2>2, <2>3
<1>6. Len(a \o b) = Len(w) - 1
  BY <1>1, <1>2, <1>3, <1>4
<1> QED BY <1>4, <1>5, <1>6 DEF Omit, a, b

\* An element is removed.
LEMMA SumOmit ==
  ASSUME NEW w \in Seq(Nat), NEW i \in 1..Len(w)
  PROVE  SumSeq(Omit(w, i)) + w[i] = SumSeq(w)
<1> DEFINE v == Omit(w, i)
           m == Len(w) - 1
<1>a. Len(w) \in Nat /\ i \in Nat /\ w[i] \in Nat
  BY LenProperties, ElementOfSeq
<1>b. m \in Nat /\ Len(w) = m + 1
  BY <1>a
<1>c. /\ v \in Seq(Nat) /\ Len(v) = m
      /\ \A n \in 1..m : v[n] = IF n < i THEN w[n] ELSE w[n + 1]
  BY OmitFacts
<1> HIDE DEF v, m
<1>1. PICK f : SumsOf(f, v) /\ SumSeq(v) = f[Len(v)]
  BY <1>c, SumSteps
<1>2. PICK g : SumsOf(g, w) /\ SumSeq(w) = g[Len(w)]
  BY SumSteps
<1> DEFINE P == {n \in Nat : n <= m => IF n < i THEN f[n] = g[n]
                                       ELSE f[n] + w[i] = g[n + 1]}
<1>3. 0 \in P
  BY <1>a, <1>1, <1>2 DEF SumsOf
<1>4. ASSUME NEW n \in Nat, n \in P PROVE n + 1 \in P
  <2> SUFFICES ASSUME n + 1 <= m
               PROVE  IF n + 1 < i THEN f[n + 1] = g[n + 1]
                      ELSE f[n + 1] + w[i] = g[(n + 1) + 1]
    OBVIOUS
  <2>0. /\ n < m /\ n < Len(w) /\ n + 1 < Len(w) /\ n + 1 \in Nat /\ n + 1 \in 1..m
        /\ IF n < i THEN f[n] = g[n] ELSE f[n] + w[i] = g[n + 1]
    BY <1>a, <1>b, <1>4
  <2> HIDE DEF P
  <2>1. f[n + 1] = f[n] + v[n + 1] /\ f[n] \in Nat
    <3>1. v \in Seq(Nat) /\ SumsOf(f, v) /\ n < Len(v)
      BY <1>c, <1>1, <2>0
    <3> QED BY <3>1, SumsNext
  <2>2. g[n + 1] = g[n] + w[n + 1] /\ g[n] \in Nat /\ w[n + 1] \in Nat
    BY <1>2, <2>0, SumsNext
  <2>3. /\ g[(n + 1) + 1] = g[n + 1] + w[(n + 1) + 1] /\ g[n + 1] \in Nat
        /\ w[(n + 1) + 1] \in Nat
    BY <1>2, <2>0, SumsNext
  <2>4. v[n + 1] = IF n + 1 < i THEN w[n + 1] ELSE w[(n + 1) + 1]
    BY <1>c, <2>0
  <2>5. CASE n + 1 < i
    BY <1>a, <2>0, <2>1, <2>2, <2>4, <2>5
  <2>6. CASE n + 1 = i
    <3>1. f[n] = g[n] /\ w[n + 1] = w[i] /\ v[n + 1] = w[(n + 1) + 1]
      BY <1>a, <2>0, <2>4, <2>6
    <3>3. (f[n] + w[(n + 1) + 1]) + w[i] = (f[n] + w[i]) + w[(n + 1) + 1]
      <4> DEFINE a == f[n]
                 b == w[(n + 1) + 1]
                 c == w[i]
      <4>1. a \in Nat /\ b \in Nat /\ c \in Nat
        BY <1>a, <2>1, <2>3
      <4> HIDE DEF a, b, c
      <4>2. (a + b) + c = (a + c) + b
        BY <4>1, AddLast
      <4> QED BY <4>2 DEF a, b, c
    <3>4. f[n + 1] + w[i] = g[(n + 1) + 1]
      BY <2>1, <2>2, <2>3, <3>1, <3>3
    <3> QED BY <1>a, <2>6, <3>4
  <2>7. CASE n + 1 > i
    <3>1. f[n] + w[i] = g[n + 1] /\ v[n + 1] = w[(n + 1) + 1]
      BY <1>a, <2>0, <2>4, <2>7
    <3>3. (f[n] + w[(n + 1) + 1]) + w[i] = (f[n] + w[i]) + w[(n + 1) + 1]
      <4> DEFINE a == f[n]
                 b == w[(n + 1) + 1]
                 c == w[i]
      <4>1. a \in Nat /\ b \in Nat /\ c \in Nat
        BY <1>a, <2>1, <2>3
      <4> HIDE DEF a, b, c
      <4>2. (a + b) + c = (a + c) + b
        BY <4>1, AddLast
      <4> QED BY <4>2 DEF a, b, c
    <3>4. f[n + 1] + w[i] = g[(n + 1) + 1]
      BY <2>1, <2>3, <3>1, <3>3
    <3> QED BY <1>a, <2>7, <3>4
  <2> QED BY <1>a, <2>5, <2>6, <2>7
<1> HIDE DEF P
<1>5. m \in P
  BY <1>b, <1>3, <1>4, NatInduct
<1>6. f[m] + w[i] = g[m + 1]
  <2>1. CASE m < i
    <3>1. m + 1 = i /\ f[m] = g[m]
      BY <1>a, <1>b, <1>5, <2>1 DEF P
    <3>2. g[m + 1] = g[m] + w[m + 1]
      <4>1. m < Len(w)
        BY <1>b
      <4> QED BY <1>b, <1>2, <4>1, SumsNext, Zenon
    <3> QED BY <3>1, <3>2
  <2>2. CASE ~(m < i)
    BY <1>b, <1>5, <2>2 DEF P
  <2> QED BY <2>1, <2>2
<1> QED BY <1>b, <1>c, <1>1, <1>2, <1>6 DEF v

\* Partial sums are determined by their recurrence.
LEMMA SumsUnique ==
  ASSUME NEW w \in Seq(Nat), NEW f, SumsOf(f, w)
  PROVE  f[Len(w)] = SumSeq(w)
<1>0. Len(w) \in Nat
  BY LenProperties
<1>1. PICK g : SumsOf(g, w) /\ SumSeq(w) = g[Len(w)]
  BY SumSteps
<1> DEFINE P == {n \in Nat : n <= Len(w) => f[n] = g[n]}
<1>2. 0 \in P
  BY <1>1 DEF SumsOf
<1>3. ASSUME NEW n \in Nat, n \in P PROVE n + 1 \in P
  <2> SUFFICES ASSUME n + 1 <= Len(w) PROVE f[n + 1] = g[n + 1]
    OBVIOUS
  <2>0. n < Len(w) /\ f[n] = g[n]
    BY <1>0, <1>3
  <2> HIDE DEF P
  <2>1. f[n + 1] = f[n] + w[n + 1] /\ g[n + 1] = g[n] + w[n + 1]
    BY <1>1, <2>0, SumsNext
  <2> QED BY <2>0, <2>1
<1> HIDE DEF P
<1>4. Len(w) \in P
  BY <1>0, <1>2, <1>3, NatInduct
<1> QED BY <1>0, <1>1, <1>4 DEF P

\* A sequence of zeros has sum zero.
LEMMA SumZero ==
  ASSUME NEW w \in Seq(Nat), \A i \in 1..Len(w) : w[i] = 0
  PROVE  SumSeq(w) = 0
<1> DEFINE z == [n \in 0..Len(w) |-> 0]
<1>0. Len(w) \in Nat
  BY LenProperties
<1>1. /\ z[0] = 0
      /\ \A n \in Nat : n <= Len(w) => z[n] \in Nat
      /\ z[Len(w)] = 0
  BY <1>0
<1>2. ASSUME NEW n \in Nat, n < Len(w) PROVE z[n + 1] = z[n] + w[n + 1]
  BY <1>0, <1>2
<1>3. SumsOf(z, w)
  BY <1>1, <1>2 DEF SumsOf
<1> HIDE DEF z
<1> QED BY <1>1, <1>3, SumsUnique

-----------------------------------------------------------------------------
(* Sums over finite sets, as MapThenSumSet computes them.                  *)

SumOver(B, S) == MapThenSumSet(LAMBDA k : B[k], S)

\* The element that a fold takes first.
Picked(s) == CHOOSE x \in s : TRUE

SetSums(f, B, S) ==
  f = [s \in SUBSET S |->
         IF s = {} THEN 0 ELSE B[Picked(s)] + f[s \ {Picked(s)}]]

LEMMA SumOverUnfold ==
  ASSUME NEW B, NEW S
  PROVE  SumOver(B, S) = (CHOOSE f : SetSums(f, B, S))[S]
  BY DEF SumOver, MapThenSumSet, MapThenFoldSet, SetSums, Picked

\* One element at a time, f adds up B over the subsets of S.
AddsUp(f, B, S) ==
  /\ f[{}] = 0
  /\ \A s \in SUBSET S : f[s] \in Nat
  /\ \A s \in SUBSET S : s # {} => f[s] = B[Picked(s)] + f[s \ {Picked(s)}]

LEMMA PickedIn == ASSUME NEW s, s # {} PROVE Picked(s) \in s
  BY DEF Picked

LEMMA SmallerSet ==
  ASSUME NEW S, IsFiniteSet(S), NEW s \in SUBSET S, NEW x \in s
  PROVE  /\ s \ {x} \in SUBSET S
         /\ Cardinality(s) \in Nat
         /\ Cardinality(s) # 0
         /\ Cardinality(s \ {x}) = Cardinality(s) - 1
<1>1. IsFiniteSet(s) /\ s # {}
  BY FS_Subset
<1>2. Cardinality(s) \in Nat
  BY <1>1, FS_CardinalityType
<1>3. Cardinality(s) # 0
  BY <1>1, FS_EmptySet
<1>4. Cardinality(s \ {x}) = Cardinality(s) - 1
  BY <1>1, FS_RemoveElement
<1> QED BY <1>2, <1>3, <1>4

\* All subsets of S are folded by one function.
LEMMA SetSumsExist ==
  ASSUME NEW B, NEW S, IsFiniteSet(S)
  PROVE  \E f : SetSums(f, B, S)
<1> DEFINE Folds(f, s) == f[s] = IF s = {} THEN 0
                                 ELSE B[Picked(s)] + f[s \ {Picked(s)}]
           P == {n \in Nat : \E f : \A s \in SUBSET S :
                                Cardinality(s) <= n => Folds(f, s)}
<1>1. 0 \in P
  <2> DEFINE z == [s \in SUBSET S |-> 0]
  <2>1. ASSUME NEW s \in SUBSET S, Cardinality(s) <= 0 PROVE Folds(z, s)
    <3>1. s = {}
      <4>1. IsFiniteSet(s)
        BY FS_Subset
      <4>2. Cardinality(s) \in Nat
        BY <4>1, FS_CardinalityType
      <4> QED BY <2>1, <4>1, <4>2, FS_EmptySet
    <3> QED BY <3>1
  <2> QED BY <2>1
<1>2. ASSUME NEW n \in Nat, n \in P PROVE n + 1 \in P
  <2>1. PICK f : \A s \in SUBSET S : Cardinality(s) <= n => Folds(f, s)
    BY <1>2
  <2> DEFINE g == [s \in SUBSET S |->
                     IF Cardinality(s) <= n THEN f[s]
                     ELSE B[Picked(s)] + f[s \ {Picked(s)}]]
  <2>2. ASSUME NEW s \in SUBSET S, Cardinality(s) <= n + 1 PROVE Folds(g, s)
    <3>1. CASE s = {}
      <4>1. Cardinality(s) = 0
        BY <3>1, FS_EmptySet
      <4>2. Folds(f, s)
        BY <2>1, <4>1
      <4> QED BY <3>1, <4>1, <4>2
    <3>2. CASE s # {}
      <4> DEFINE x == Picked(s)
      <4>1. x \in s
        BY <3>2, PickedIn
      <4> HIDE DEF x
      <4>2. /\ s \ {x} \in SUBSET S
            /\ Cardinality(s) \in Nat
            /\ Cardinality(s \ {x}) = Cardinality(s) - 1
        BY <4>1, SmallerSet
      <4>3. g[s \ {x}] = f[s \ {x}]
        BY <2>2, <4>2
      <4>4. g[s] = B[x] + f[s \ {x}]
        <5>1. CASE Cardinality(s) <= n
          BY <2>1, <3>2, <5>1 DEF x
        <5>2. CASE ~(Cardinality(s) <= n)
          BY <5>2 DEF x
        <5> QED BY <5>1, <5>2
      <4> QED BY <3>2, <4>3, <4>4 DEF x
    <3> QED BY <3>1, <3>2
  <2> HIDE DEF g
  <2>3. \E h : \A s \in SUBSET S : Cardinality(s) <= n + 1 => Folds(h, s)
    <3> HIDE DEF Folds
    <3> QED BY <2>2
  <2>4. n + 1 \in Nat
    OBVIOUS
  <2> HIDE DEF Folds
  <2> QED BY <2>3, <2>4, Zenon
<1> HIDE DEF P
<1>3. Cardinality(S) \in P
  <2>1. Cardinality(S) \in Nat
    BY FS_CardinalityType
  <2>2. Nat \subseteq P
    BY <1>1, <1>2, NatInduct
  <2> QED BY <2>1, <2>2
<1>4. PICK f : \A s \in SUBSET S : Folds(f, s)
  <2>1. ASSUME NEW s \in SUBSET S PROVE Cardinality(s) <= Cardinality(S)
    BY FS_Subset
  <2>2. PICK f : \A s \in SUBSET S : Cardinality(s) <= Cardinality(S) => Folds(f, s)
    BY <1>3 DEF P
  <2> QED BY <2>1, <2>2
<1> DEFINE h == [s \in SUBSET S |-> f[s]]
<1>5. ASSUME NEW s \in SUBSET S PROVE Folds(h, s)
  <2>1. s \ {Picked(s)} \in SUBSET S
    OBVIOUS
  <2> QED BY <1>4, <2>1
<1>6. h = [s \in SUBSET S |-> h[s]]
  OBVIOUS
<1> HIDE DEF h
<1>7. SetSums(h, B, S)
  BY <1>5, <1>6 DEF SetSums
<1> QED BY <1>7

LEMMA SetSumsStep ==
  ASSUME NEW S, IsFiniteSet(S), NEW B, \A x \in S : B[x] \in Nat,
         NEW f, SetSums(f, B, S)
  PROVE  AddsUp(f, B, S)
<1>1. \A s \in SUBSET S : f[s] = IF s = {} THEN 0
                                 ELSE B[Picked(s)] + f[s \ {Picked(s)}]
  BY DEF SetSums
<1> DEFINE P == {n \in Nat : \A s \in SUBSET S : Cardinality(s) = n => f[s] \in Nat}
<1>2. 0 \in P
  <2>1. ASSUME NEW s \in SUBSET S, Cardinality(s) = 0 PROVE f[s] \in Nat
    <3>1. s = {}
      BY <2>1, FS_Subset, FS_EmptySet
    <3>2. f[s] = 0
      BY <1>1, <3>1
    <3> QED BY <3>2
  <2> QED BY <2>1
<1>3. ASSUME NEW n \in Nat, n \in P PROVE n + 1 \in P
  <2>1. ASSUME NEW s \in SUBSET S, Cardinality(s) = n + 1 PROVE f[s] \in Nat
    <3>1. s # {}
      <4>1. Cardinality({}) = 0
        BY FS_EmptySet
      <4> QED BY <2>1, <4>1
    <3>2. Picked(s) \in s
      BY <3>1, PickedIn
    <3>3. /\ s \ {Picked(s)} \in SUBSET S
          /\ Cardinality(s \ {Picked(s)}) = n
      BY <2>1, <3>2, SmallerSet
    <3>4. f[s \ {Picked(s)}] \in Nat
      BY <1>3, <3>3
    <3>5. B[Picked(s)] \in Nat
      BY <3>2
    <3>6. f[s] = B[Picked(s)] + f[s \ {Picked(s)}]
      BY <1>1, <3>1
    <3> QED BY <3>4, <3>5, <3>6
  <2> QED BY <2>1
<1> HIDE DEF P
<1>4. Nat \subseteq P
  BY <1>2, <1>3, NatInduct
<1>5. ASSUME NEW s \in SUBSET S PROVE f[s] \in Nat
  <2>1. Cardinality(s) \in Nat
    BY FS_Subset, FS_CardinalityType
  <2> QED BY <1>4, <2>1 DEF P
<1> QED BY <1>1, <1>5 DEF AddsUp

\* Which element goes first makes no difference.
LEMMA AnyFirst ==
  ASSUME NEW S, IsFiniteSet(S), NEW B, \A x \in S : B[x] \in Nat,
         NEW f, AddsUp(f, B, S), NEW s \in SUBSET S, NEW x \in s
  PROVE  f[s] = B[x] + f[s \ {x}]
<1> DEFINE Q(t) == \A y \in t : f[t] = B[y] + f[t \ {y}]
           P == {n \in Nat : \A t \in SUBSET S : Cardinality(t) = n => Q(t)}
<1>1. 0 \in P
  <2>1. ASSUME NEW t \in SUBSET S, Cardinality(t) = 0 PROVE Q(t)
    <3>1. t = {}
      BY <2>1, FS_Subset, FS_EmptySet
    <3> QED BY <3>1
  <2> QED BY <2>1
<1>2. ASSUME NEW n \in Nat, n \in P PROVE n + 1 \in P
  <2>1. ASSUME NEW t \in SUBSET S, Cardinality(t) = n + 1, NEW y \in t
        PROVE  f[t] = B[y] + f[t \ {y}]
    <3> DEFINE c == Picked(t)
               u == (t \ {y}) \ {c}
    <3>1. c \in t /\ t # {}
      BY PickedIn
    <3>2. f[t] = B[c] + f[t \ {c}]
      BY <3>1 DEF AddsUp
    <3> HIDE DEF c
    <3>3. CASE c = y
      BY <3>2, <3>3
    <3>4. CASE c # y
      <4>1. /\ t \ {c} \in SUBSET S /\ Cardinality(t \ {c}) = n
            /\ t \ {y} \in SUBSET S /\ Cardinality(t \ {y}) = n
        BY <2>1, <3>1, SmallerSet
      <4>2. Q(t \ {c}) /\ Q(t \ {y})
        BY <1>2, <4>1
      <4>3. (t \ {c}) \ {y} = u /\ y \in t \ {c} /\ c \in t \ {y}
        BY <3>1, <3>4
      <4>4. f[t \ {c}] = B[y] + f[u]
        BY <4>2, <4>3
      <4>5. f[t \ {y}] = B[c] + f[u]
        BY <4>2, <4>3
      <4>6. f[u] \in Nat /\ B[y] \in Nat /\ B[c] \in Nat
        <5>1. u \in SUBSET S
          OBVIOUS
        <5> QED BY <5>1, <3>1 DEF AddsUp
      <4> HIDE DEF u
      <4> QED BY <3>2, <4>4, <4>5, <4>6
    <3> QED BY <3>3, <3>4
  <2> QED BY <2>1
<1>3. Nat \subseteq P
  <2> HIDE DEF P
  <2> QED BY <1>1, <1>2, NatInduct
<1>4. Cardinality(s) \in Nat
  BY FS_Subset, FS_CardinalityType
<1> QED BY <1>3, <1>4

\* The sums of a larger set agree with those of a smaller one.
LEMMA SumsAgree ==
  ASSUME NEW S, IsFiniteSet(S), NEW T \in SUBSET S,
         NEW B, \A x \in S : B[x] \in Nat,
         NEW f, AddsUp(f, B, S), NEW g, AddsUp(g, B, T)
  PROVE  f[T] = g[T]
<1> DEFINE P == {n \in Nat : \A t \in SUBSET T : Cardinality(t) = n => f[t] = g[t]}
<1>0. IsFiniteSet(T)
  BY FS_Subset
<1>1. 0 \in P
  <2>1. ASSUME NEW t \in SUBSET T, Cardinality(t) = 0 PROVE f[t] = g[t]
    <3>1. t = {}
      BY <1>0, <2>1, FS_Subset, FS_EmptySet
    <3> QED BY <3>1 DEF AddsUp
  <2> QED BY <2>1
<1>2. ASSUME NEW n \in Nat, n \in P PROVE n + 1 \in P
  <2>1. ASSUME NEW t \in SUBSET T, Cardinality(t) = n + 1 PROVE f[t] = g[t]
    <3>1. t # {}
      <4>1. Cardinality({}) = 0 /\ n + 1 # 0
        BY FS_EmptySet
      <4> HIDE DEF P
      <4> QED BY <2>1, <4>1
    <3>2. Picked(t) \in t
      BY <3>1, PickedIn
    <3>3. t \ {Picked(t)} \in SUBSET T /\ Cardinality(t \ {Picked(t)}) = n
      BY <1>0, <2>1, <3>2, SmallerSet
    <3>4. f[t \ {Picked(t)}] = g[t \ {Picked(t)}]
      BY <1>2, <3>3
    <3>5. t \in SUBSET S
      OBVIOUS
    <3>6. /\ f[t] = B[Picked(t)] + f[t \ {Picked(t)}]
          /\ g[t] = B[Picked(t)] + g[t \ {Picked(t)}]
      BY <3>1, <3>5 DEF AddsUp
    <3> QED BY <3>4, <3>6
  <2> QED BY <2>1
<1>3. Nat \subseteq P
  <2> HIDE DEF P
  <2> QED BY <1>1, <1>2, NatInduct
<1>4. Cardinality(T) \in Nat /\ T \in SUBSET T
  BY <1>0, FS_CardinalityType
<1> QED BY <1>3, <1>4

LEMMA SumOverSteps ==
  ASSUME NEW S, IsFiniteSet(S), NEW B, \A x \in S : B[x] \in Nat
  PROVE  \E f : AddsUp(f, B, S) /\ \A T \in SUBSET S : SumOver(B, T) = f[T]
<1> DEFINE s(T) == CHOOSE f : SetSums(f, B, T)
<1>1. ASSUME NEW T \in SUBSET S
      PROVE  AddsUp(s(T), B, T) /\ SumOver(B, T) = s(T)[T]
  <2>1. IsFiniteSet(T) /\ \A x \in T : B[x] \in Nat
    BY FS_Subset
  <2>2. SetSums(s(T), B, T)
    BY <2>1, SetSumsExist
  <2>3. SumOver(B, T) = s(T)[T]
    BY SumOverUnfold
  <2> HIDE DEF s
  <2> QED BY <2>1, <2>2, <2>3, SetSumsStep
<1> HIDE DEF s
<1>2. AddsUp(s(S), B, S)
  BY <1>1
<1>3. ASSUME NEW T \in SUBSET S PROVE SumOver(B, T) = s(S)[T]
  <2>1. s(S)[T] = s(T)[T]
    BY <1>1, <1>2, SumsAgree
  <2> QED BY <1>1, <2>1
<1> QED BY <1>2, <1>3

LEMMA SumOverNat ==
  ASSUME NEW S, IsFiniteSet(S), NEW B, \A x \in S : B[x] \in Nat
  PROVE  SumOver(B, S) \in Nat
<1>1. PICK f : AddsUp(f, B, S) /\ \A T \in SUBSET S : SumOver(B, T) = f[T]
  BY SumOverSteps
<1>2. S \in SUBSET S
  OBVIOUS
<1> QED BY <1>1, <1>2 DEF AddsUp

LEMMA SumOverEmpty == ASSUME NEW B PROVE SumOver(B, {}) = 0
<1>1. IsFiniteSet({})
  BY FS_EmptySet
<1>2. PICK f : AddsUp(f, B, {}) /\ \A T \in SUBSET {} : SumOver(B, T) = f[T]
  BY <1>1, SumOverSteps
<1> QED BY <1>2 DEF AddsUp

LEMMA SumOverRemove ==
  ASSUME NEW S, IsFiniteSet(S), NEW B, \A x \in S : B[x] \in Nat, NEW x \in S
  PROVE  SumOver(B, S) = B[x] + SumOver(B, S \ {x})
<1>1. PICK f : AddsUp(f, B, S) /\ \A T \in SUBSET S : SumOver(B, T) = f[T]
  BY SumOverSteps
<1>2. S \in SUBSET S /\ S \ {x} \in SUBSET S
  OBVIOUS
<1>3. f[S] = B[x] + f[S \ {x}]
  BY <1>1, <1>2, AnyFirst
<1> QED BY <1>1, <1>2, <1>3

LEMMA SumOverAdd ==
  ASSUME NEW S, IsFiniteSet(S), NEW B, \A x \in S : B[x] \in Nat,
         NEW x, x \notin S, B[x] \in Nat
  PROVE  SumOver(B, S \cup {x}) = B[x] + SumOver(B, S)
<1> DEFINE T == S \cup {x}
<1>1. IsFiniteSet(T) /\ x \in T /\ T \ {x} = S /\ \A y \in T : B[y] \in Nat
  BY FS_AddElement
<1> HIDE DEF T
<1>2. SumOver(B, T) = B[x] + SumOver(B, T \ {x})
  BY <1>1, SumOverRemove
<1> QED BY <1>1, <1>2 DEF T

LEMMA SumOverMonotone ==
  ASSUME NEW S, IsFiniteSet(S), NEW T \in SUBSET S,
         NEW B, \A x \in S : B[x] \in Nat
  PROVE  SumOver(B, T) <= SumOver(B, S)
<1> DEFINE P == {n \in Nat : \A U \in SUBSET S :
                   T \subseteq U /\ Cardinality(U) = n =>
                     SumOver(B, T) <= SumOver(B, U)}
<1>0. /\ \A U \in SUBSET S : IsFiniteSet(U) /\ \A x \in U : B[x] \in Nat
      /\ SumOver(B, T) \in Nat
  BY FS_Subset, SumOverNat
<1>1. 0 \in P
  <2>1. ASSUME NEW U \in SUBSET S, T \subseteq U, Cardinality(U) = 0
        PROVE  SumOver(B, T) <= SumOver(B, U)
    <3>1. U = {}
      BY <1>0, <2>1, FS_EmptySet
    <3>2. T = U
      BY <2>1, <3>1
    <3> QED BY <1>0, <3>2
  <2> QED BY <2>1
<1>2. ASSUME NEW n \in Nat, n \in P PROVE n + 1 \in P
  <2>1. ASSUME NEW U \in SUBSET S, T \subseteq U, Cardinality(U) = n + 1
        PROVE  SumOver(B, T) <= SumOver(B, U)
    <3>1. CASE T = U
      BY <1>0, <3>1
    <3>2. CASE T # U
      <4>1. PICK x \in U : x \notin T
        BY <2>1, <3>2
      <4>2. U \ {x} \in SUBSET S /\ T \subseteq U \ {x} /\ Cardinality(U \ {x}) = n
        BY <2>1, <4>1, SmallerSet
      <4>3. SumOver(B, T) <= SumOver(B, U \ {x})
        BY <1>2, <4>2
      <4>4. SumOver(B, U) = B[x] + SumOver(B, U \ {x})
        BY <1>0, SumOverRemove
      <4>5. SumOver(B, U \ {x}) \in Nat /\ B[x] \in Nat
        BY <1>0, <4>2, SumOverNat
      <4> QED BY <1>0, <4>3, <4>4, <4>5
    <3> QED BY <3>1, <3>2
  <2> QED BY <2>1
<1>3. Nat \subseteq P
  <2> HIDE DEF P
  <2> QED BY <1>1, <1>2, NatInduct
<1>4. Cardinality(S) \in Nat /\ S \in SUBSET S
  BY FS_CardinalityType
<1> QED BY <1>3, <1>4

-----------------------------------------------------------------------------
(* Filters of sequences.                                                   *)

LEMMA SeqInduct ==
  ASSUME NEW T, NEW P, <<>> \in P,
         \A s \in Seq(T), x \in T : s \in P => Append(s, x) \in P
  PROVE  Seq(T) \subseteq P
<1> DEFINE N == {n \in Nat : \A s \in Seq(T) : Len(s) = n => s \in P}
<1>1. 0 \in N
  <2>1. \A s \in Seq(T) : Len(s) = 0 => s = <<>>
    BY EmptySeq, SeqEqual
  <2> QED BY <2>1
<1>2. ASSUME NEW n \in Nat, n \in N PROVE n + 1 \in N
  <2> SUFFICES ASSUME NEW s \in Seq(T), Len(s) = n + 1 PROVE s \in P
    OBVIOUS
  <2>1. s # <<>>
    BY EmptySeq
  <2>2. PICK t \in Seq(T), x \in T : s = Append(t, x)
    BY <2>1, SequenceEmptyOrAppend
  <2>3. Len(t) = n
    BY <2>2, AppendProperties, LenProperties
  <2>4. t \in P
    BY <1>2, <2>3
  <2> QED BY <2>2, <2>4
<1> HIDE DEF N
<1>3. Nat \subseteq N
  BY <1>1, <1>2, NatInduct
<1> QED BY <1>3, LenProperties DEF N

Filtering(f, s, S, k) ==
  f = [n \in 0..k |->
         IF n = 0 THEN <<>>
         ELSE IF s[n] \in S THEN Append(f[n - 1], s[n]) ELSE f[n - 1]]

LEMMA FilteringExists ==
  ASSUME NEW s, NEW S, NEW m \in Nat
  PROVE  \E f : Filtering(f, s, S, m)
<1> DEFINE P == {k \in Nat : \E f : Filtering(f, s, S, k)}
<1>1. 0 \in P
  <2>1. Filtering([n \in 0..0 |-> <<>>], s, S, 0)
    BY DEF Filtering
  <2> QED BY <2>1
<1>2. ASSUME NEW k \in Nat, k \in P PROVE k + 1 \in P
  <2>1. PICK f : Filtering(f, s, S, k)
    BY <1>2
  <2> DEFINE last == IF s[k + 1] \in S THEN Append(f[k], s[k + 1]) ELSE f[k]
             g == [n \in 0..(k + 1) |-> IF n <= k THEN f[n] ELSE last]
  <2>2. \A n \in 0..k : f[n] =
          IF n = 0 THEN <<>>
          ELSE IF s[n] \in S THEN Append(f[n - 1], s[n]) ELSE f[n - 1]
    BY <2>1 DEF Filtering
  <2>3. ASSUME NEW n \in 0..(k + 1)
        PROVE  g[n] = IF n = 0 THEN <<>>
                      ELSE IF s[n] \in S THEN Append(g[n - 1], s[n])
                      ELSE g[n - 1]
    <3>1. CASE n <= k
      <4>1. n \in 0..k /\ g[n] = f[n] /\ (n # 0 => g[n - 1] = f[n - 1])
        BY <3>1
      <4> HIDE DEF g
      <4> QED BY <2>2, <4>1
    <3>2. CASE n = k + 1
      <4>1. n # 0 /\ g[n] = last /\ g[n - 1] = f[k] /\ s[n] = s[k + 1]
        BY <3>2
      <4> HIDE DEF g
      <4> QED BY <4>1
    <3> QED BY <3>1, <3>2
  <2>4. g = [n \in 0..(k + 1) |-> g[n]]
    OBVIOUS
  <2> HIDE DEF g
  <2>5. Filtering(g, s, S, k + 1)
    BY <2>3, <2>4 DEF Filtering
  <2> QED BY <2>5
<1> HIDE DEF P
<1>3. m \in P
  BY <1>1, <1>2, NatInduct
<1> QED BY <1>3 DEF P

FiltersTo(f, s, S) ==
  /\ f[0] = <<>>
  /\ \A n \in Nat : n < Len(s) =>
       f[n + 1] = IF s[n + 1] \in S THEN Append(f[n], s[n + 1]) ELSE f[n]

LEMMA OnlySteps ==
  ASSUME NEW T, NEW s \in Seq(T), NEW S
  PROVE  \E f : FiltersTo(f, s, S) /\ Only(s, S) = f[Len(s)]
<1> DEFINE f == CHOOSE g : Filtering(g, s, S, Len(s))
<1>0. Len(s) \in Nat
  BY LenProperties
<1>1. Filtering(f, s, S, Len(s))
  BY <1>0, FilteringExists
<1>2. Only(s, S) = f[Len(s)]
  BY DEF Only, Filtering
<1> HIDE DEF f
<1>3. \A n \in 0..Len(s) : f[n] =
          IF n = 0 THEN <<>>
          ELSE IF s[n] \in S THEN Append(f[n - 1], s[n]) ELSE f[n - 1]
  BY <1>1 DEF Filtering
<1>4. f[0] = <<>>
  BY <1>0, <1>3
<1>5. ASSUME NEW n \in Nat, n < Len(s)
      PROVE  f[n + 1] = IF s[n + 1] \in S THEN Append(f[n], s[n + 1]) ELSE f[n]
  <2>1. n + 1 \in 0..Len(s) /\ n + 1 # 0 /\ (n + 1) - 1 = n
    BY <1>0, <1>5
  <2> QED BY <1>3, <2>1
<1> QED BY <1>2, <1>4, <1>5 DEF FiltersTo

LEMMA OnlyEmpty == ASSUME NEW S PROVE Only(<<>>, S) = <<>>
<1>1. <<>> \in Seq({}) /\ Len(<<>>) = 0
  BY EmptySeq
<1> QED BY <1>1, OnlySteps DEF FiltersTo

LEMMA OnlyAppend ==
  ASSUME NEW T, NEW s \in Seq(T), NEW x \in T, NEW S
  PROVE  Only(Append(s, x), S) =
           IF x \in S THEN Append(Only(s, S), x) ELSE Only(s, S)
<1> DEFINE t == Append(s, x)
<1>0. /\ t \in Seq(T) /\ Len(t) = Len(s) + 1 /\ Len(s) \in Nat
      /\ \A i \in 1..Len(s) : t[i] = s[i]
      /\ t[Len(s) + 1] = x
  BY AppendProperties, LenProperties
<1> HIDE DEF t
<1>1. PICK f : FiltersTo(f, s, S) /\ Only(s, S) = f[Len(s)]
  BY OnlySteps
<1>2. PICK g : FiltersTo(g, t, S) /\ Only(t, S) = g[Len(t)]
  BY <1>0, OnlySteps
<1> DEFINE P == {n \in Nat : n <= Len(s) => f[n] = g[n]}
<1>3. 0 \in P
  BY <1>1, <1>2 DEF FiltersTo
<1>4. ASSUME NEW n \in Nat, n \in P PROVE n + 1 \in P
  <2> SUFFICES ASSUME n + 1 <= Len(s) PROVE f[n + 1] = g[n + 1]
    OBVIOUS
  <2>0. n < Len(s) /\ n < Len(t) /\ f[n] = g[n] /\ s[n + 1] = t[n + 1]
    BY <1>0, <1>4
  <2> HIDE DEF P
  <2>1. f[n + 1] = IF s[n + 1] \in S THEN Append(f[n], s[n + 1]) ELSE f[n]
    BY <1>1, <2>0 DEF FiltersTo
  <2>2. g[n + 1] = IF t[n + 1] \in S THEN Append(g[n], t[n + 1]) ELSE g[n]
    BY <1>2, <2>0 DEF FiltersTo
  <2> QED BY <2>0, <2>1, <2>2
<1> HIDE DEF P
<1>5. Len(s) \in P
  BY <1>0, <1>3, <1>4, NatInduct
<1>6. f[Len(s)] = g[Len(s)]
  BY <1>0, <1>5 DEF P
<1>7. Len(s) < Len(t)
  BY <1>0
<1>8. g[Len(s) + 1] = IF t[Len(s) + 1] \in S THEN Append(g[Len(s)], t[Len(s) + 1]) ELSE g[Len(s)]
  BY <1>0, <1>2, <1>7 DEF FiltersTo
<1>9. Only(t, S) = IF x \in S THEN Append(Only(s, S), x) ELSE Only(s, S)
  BY <1>0, <1>1, <1>2, <1>6, <1>8
<1> QED BY <1>9 DEF t

-----------------------------------------------------------------------------

LEMMA RangeOfAppend ==
  ASSUME NEW T, NEW s \in Seq(T), NEW x \in T
  PROVE  /\ Range(Append(s, x)) = Range(s) \cup {x}
         /\ Range(s) \subseteq T
         /\ IsInjective(Append(s, x)) <=> IsInjective(s) /\ x \notin Range(s)
<1> DEFINE t == Append(s, x)
<1>0. /\ Len(s) \in Nat /\ DOMAIN s = 1..Len(s)
      /\ DOMAIN t = 1..(Len(s) + 1)
      /\ \A i \in 1..Len(s) : t[i] = s[i] /\ s[i] \in T
      /\ t[Len(s) + 1] = x
  BY AppendProperties, LenProperties, ElementOfSeq
<1> HIDE DEF t
<1>1. DOMAIN t = DOMAIN s \cup {Len(s) + 1} /\ Len(s) + 1 \notin DOMAIN s
  BY <1>0
<1>2. Range(t) = Range(s) \cup {x} /\ Range(s) \subseteq T
  BY <1>0, <1>1 DEF Range
<1>3. IsInjective(t) <=> IsInjective(s) /\ x \notin Range(s)
  <2>1. ASSUME IsInjective(t) PROVE IsInjective(s) /\ x \notin Range(s)
    BY <1>0, <1>1, <2>1 DEF IsInjective, Range
  <2>2. ASSUME IsInjective(s), x \notin Range(s) PROVE IsInjective(t)
    BY <1>0, <1>1, <2>2 DEF IsInjective, Range
  <2> QED BY <2>1, <2>2
<1> QED BY <1>2, <1>3 DEF t

LEMMA EmptyFacts ==
  ASSUME NEW T
  PROVE  /\ <<>> \in Seq(T) /\ Len(<<>>) = 0 /\ Range(<<>>) = {}
         /\ IsInjective(<<>>)
<1>1. <<>> \in Seq(T) /\ Len(<<>>) = 0
  BY EmptySeq
<1>2. DOMAIN <<>> = {}
  BY <1>1, LenProperties
<1> QED BY <1>1, <1>2 DEF Range, IsInjective

\* What is kept: the elements in the set, each as often as before.
LEMMA OnlyType ==
  ASSUME NEW T, NEW S
  PROVE  \A s \in Seq(T) :
           /\ Only(s, S) \in Seq(T)
           /\ Range(Only(s, S)) = Range(s) \cap S
           /\ IsInjective(s) => IsInjective(Only(s, S))
<1> DEFINE P == {s \in Seq(T) :
                   /\ Only(s, S) \in Seq(T)
                   /\ Range(Only(s, S)) = Range(s) \cap S
                   /\ IsInjective(s) => IsInjective(Only(s, S))}
<1>1. <<>> \in P
  BY EmptyFacts, OnlyEmpty
<1>2. ASSUME NEW s \in Seq(T), NEW x \in T, s \in P PROVE Append(s, x) \in P
  <2>0. /\ Only(s, S) \in Seq(T)
        /\ Range(Only(s, S)) = Range(s) \cap S
        /\ IsInjective(s) => IsInjective(Only(s, S))
        /\ Append(s, x) \in Seq(T)
    BY <1>2, AppendProperties
  <2> HIDE DEF P
  <2>1. /\ Range(Append(s, x)) = Range(s) \cup {x}
        /\ IsInjective(Append(s, x)) <=> IsInjective(s) /\ x \notin Range(s)
    BY RangeOfAppend
  <2>2. /\ Range(Append(Only(s, S), x)) = Range(Only(s, S)) \cup {x}
        /\ IsInjective(Append(Only(s, S), x)) <=>
             IsInjective(Only(s, S)) /\ x \notin Range(Only(s, S))
        /\ Append(Only(s, S), x) \in Seq(T)
    BY <2>0, RangeOfAppend, AppendProperties
  <2>3. CASE x \in S
    <3>1. Only(Append(s, x), S) = Append(Only(s, S), x)
      BY <2>3, OnlyAppend
    <3> QED BY <2>0, <2>1, <2>2, <2>3, <3>1 DEF P
  <2>4. CASE x \notin S
    <3>1. Only(Append(s, x), S) = Only(s, S)
      BY <2>4, OnlyAppend
    <3> QED BY <2>0, <2>1, <2>4, <3>1 DEF P
  <2> QED BY <2>3, <2>4
<1> HIDE DEF P
<1>3. Seq(T) \subseteq P
  BY <1>1, <1>2, SeqInduct
<1> QED BY <1>3 DEF P

=============================================================================
