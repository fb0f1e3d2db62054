--------------------------- MODULE RequestProofs ---------------------------
(***************************************************************************)
(* A completion request: the end of its thinking, for every token limit,   *)
(* budget and suffix; the stream to its client, for every alphabet, every  *)
(* pair of markers and every way to cut the text into deltas; and the      *)
(* policies that steer its drafts, for every sequence of rounds.           *)
(***************************************************************************)
EXTENDS ThinkingBudget, ApiStream, DraftPolicy, Sums, SequenceTheorems,
        FiniteSetTheorems, TLAPS

-----------------------------------------------------------------------------
(* The thinking budget.                                                    *)

ThinkingType ==
  /\ limit \in Limits /\ thinkingBudget \in BudgetSizes
  /\ produced \in Nat /\ forced \in 0..SuffixSize
  /\ attempted \in BOOLEAN /\ closed \in BOOLEAN /\ intervened \in BOOLEAN
  /\ finish \in {"none", "stop", "length", "cancelled"}

\* While the suffix is being forced, the marker has been passed exactly when
\* the tokens behind it are left, and limit has room for the rest.
SuffixInProgress ==
  forced > 0 =>
    /\ attempted /\ intervened
    /\ closed <=> forced <= SuffixSize - CloseAt
    /\ produced + forced < limit

\* A suffix that was forced to its end has closed the thinking.
SuffixComplete == intervened /\ forced = 0 => closed

\* With room for budget and suffix, thinking that is still open has not been
\* touched within the budget, or is in a suffix that began within it.
OpenInTime ==
  ~closed /\ thinkingBudget + SuffixSize < limit =>
    IF intervened THEN produced + forced <= thinkingBudget + SuffixSize
    ELSE ~attempted /\ produced <= thinkingBudget

\* How a generation ends.
EndsRightly ==
  /\ finish = "stop" /\ ~closed => attempted /\ ~intervened
  /\ finish = "length" => produced = limit

ThinkingInv ==
  ThinkingType /\ SuffixInProgress /\ SuffixComplete /\ OpenInTime /\ EndsRightly

-----------------------------------------------------------------------------

LEMMA ThinkingConstants ==
  ASSUME ThinkingType
  PROVE  /\ limit \in Nat /\ thinkingBudget \in Nat
         /\ SuffixSize \in Nat /\ CloseAt \in 1..SuffixSize
  BY ThinkingAssumption DEF ThinkingType

LEMMA ThinkingStart == ThinkingInit => ThinkingInv
<1> SUFFICES ASSUME ThinkingInit PROVE ThinkingInv
  OBVIOUS
<1>1. ThinkingType
  <2>1. produced \in Nat /\ forced \in 0..SuffixSize
    BY ThinkingAssumption DEF ThinkingInit
  <2> QED BY <2>1, Zenon DEF ThinkingInit, ThinkingType
<1> QED
  BY <1>1, ThinkingConstants DEF ThinkingInit, ThinkingInv, SuffixInProgress,
     SuffixComplete, OpenInTime, EndsRightly

LEMMA LeaveStep == ThinkingInv /\ Leave => ThinkingInv'
  BY DEF Leave, ThinkingInv, ThinkingType, SuffixInProgress, SuffixComplete,
     OpenInTime, EndsRightly

\* A turn of the loop: the answer stops; a whole suffix is queued into open
\* thinking and its first token appended; the next token of a suffix is; or
\* a token of the model is.
LEMMA TurnStep ==
  ASSUME ThinkingInv, NEW offer \in {"stop", "close", "other"}, Turn(offer)
  PROVE  ThinkingInv'
<1> DEFINE queued == IF Over /\ Room /\ ~attempted THEN SuffixSize ELSE forced
           tried  == attempted \/ Over
           stops  == queued = 0 /\ ~closed /\ offer = "stop"
           left   == IF stops /\ Room /\ ~tried THEN SuffixSize ELSE queued
<1>0. /\ limit \in Nat /\ thinkingBudget \in Nat /\ produced \in Nat
      /\ SuffixSize \in Nat /\ CloseAt \in 1..SuffixSize /\ forced \in 0..SuffixSize
  BY ThinkingConstants DEF ThinkingInv, ThinkingType
<1>1. /\ finish = "none" /\ produced < limit
      /\ limit' = limit /\ thinkingBudget' = thinkingBudget
      /\ attempted' = (tried \/ stops)
      /\ intervened' = (intervened \/ left > forced)
      /\ IF left = 0 /\ offer = "stop"
         THEN finish' = "stop" /\ UNCHANGED <<produced, forced, closed>>
         ELSE Emit(left > 0, left, offer = "close")
  BY DEF Turn
<1>2. /\ attempted' \in BOOLEAN /\ intervened' \in BOOLEAN
      /\ attempted' <=> tried \/ stops
      /\ intervened' <=> intervened \/ left > forced
  BY <1>1, Zenon
<1>3. CASE left = 0 /\ offer = "stop"
  <2>1. finish' = "stop" /\ produced' = produced /\ forced' = forced /\ closed' = closed
    BY <1>1, <1>3
  <2>2. forced = 0
    BY <1>0, <1>3 DEF Over
  <2>3. ~closed => attempted' /\ ~intervened /\ ~(Room /\ ~attempted)
    BY <1>0, <1>2, <1>3, <2>2 DEF ThinkingInv, SuffixComplete, Over
  <2>4. intervened' <=> intervened
    BY <1>0, <1>2, <1>3, <2>2
  <2> HIDE DEF left, queued, tried, stops
  <2>5. ThinkingType'
    BY <1>1, <1>2, <2>1 DEF ThinkingInv, ThinkingType
  <2> QED
    BY <1>0, <1>1, <2>1, <2>2, <2>3, <2>4, <2>5 DEF ThinkingInv, SuffixInProgress,
       SuffixComplete, OpenInTime, EndsRightly, Room
<1>4. CASE ~(left = 0 /\ offer = "stop")
  <2>1. /\ produced' = produced + 1
        /\ forced' = IF left > 0 THEN left - 1 ELSE 0
        /\ closed' = (closed \/ IF left > 0 THEN left = SuffixSize - CloseAt + 1
                                ELSE offer = "close")
        /\ finish' = IF produced' = limit THEN "length" ELSE "none"
    BY <1>1, <1>4 DEF Emit
  <2>2. /\ closed' \in BOOLEAN
        /\ closed' <=> \/ closed
                       \/ left > 0 /\ left = SuffixSize - CloseAt + 1
                       \/ ~(left > 0) /\ offer = "close"
    BY <2>1, Zenon
  <2>3. \/ left = forced /\ forced > 0
        \/ /\ left = 0 /\ forced = 0 /\ offer # "stop"
           /\ ~closed /\ produced >= thinkingBudget => attempted \/ ~Room
        \/ /\ left = SuffixSize /\ forced = 0 /\ ~closed /\ ~attempted
           /\ produced + SuffixSize < limit
    BY <1>0, <1>4 DEF Over, Room
  <2>4. /\ attempted' <=> \/ attempted
                          \/ forced = 0 /\ ~closed /\ produced >= thinkingBudget
                          \/ left > forced
        /\ left > 0 => attempted'
    BY <1>0, <1>2, <1>4, <2>3 DEF Over, ThinkingInv, SuffixInProgress
  <2> HIDE DEF left, queued, tried, stops
  <2>5. ThinkingType'
    BY <1>0, <1>1, <1>2, <2>1, <2>2, <2>3 DEF ThinkingInv, ThinkingType
  <2>6. EndsRightly'
    BY <1>0, <1>1, <2>1 DEF EndsRightly
  <2> USE <1>0, <1>1, <1>2, <2>1, <2>2, <2>4 DEF ThinkingInv, SuffixInProgress,
       SuffixComplete, OpenInTime, Room
  <2>7. CASE left = forced /\ forced > 0
    BY <2>5, <2>6, <2>7
  <2>8. CASE /\ left = 0 /\ forced = 0 /\ offer # "stop"
             /\ ~closed /\ produced >= thinkingBudget => attempted \/ ~Room
    BY <2>5, <2>6, <2>8
  <2>9. CASE /\ left = SuffixSize /\ forced = 0 /\ ~closed /\ ~attempted
             /\ produced + SuffixSize < limit
    BY <2>5, <2>6, <2>9
  <2> QED BY <2>3, <2>7, <2>8, <2>9
<1> QED BY <1>3, <1>4

\* The forced end of thinking comes in time, is whole, and leaves room for an
\* answer (NativeEngine::complete_impl), for every limit, budget and suffix.
THEOREM ThinkingAlwaysClosed == ThinkingSpec => []ThinkingClosed
<1>1. ThinkingInv /\ [ThinkingNext]_thinkingVars => ThinkingInv'
  <2> SUFFICES ASSUME ThinkingInv, [ThinkingNext]_thinkingVars PROVE ThinkingInv'
    OBVIOUS
  <2>1. CASE ThinkingNext
    BY <2>1, TurnStep, LeaveStep DEF ThinkingNext
  <2>2. CASE UNCHANGED thinkingVars
    BY <2>2 DEF thinkingVars, ThinkingInv, ThinkingType, SuffixInProgress,
       SuffixComplete, OpenInTime, EndsRightly
  <2> QED BY <2>1, <2>2
<1>2. ThinkingInv => ThinkingClosed
  <2> SUFFICES ASSUME ThinkingInv PROVE ThinkingClosed
    OBVIOUS
  <2> QED
    BY ThinkingConstants DEF ThinkingInv, ThinkingType, ThinkingClosed, ThinkingEnds,
       SuffixLeavesAnswer, SuffixInProgress, SuffixComplete, OpenInTime, EndsRightly
<1> QED BY <1>1, <1>2, ThinkingStart, PTL DEF ThinkingSpec

-----------------------------------------------------------------------------
(***************************************************************************)
(* Text.  A marker is looked up by its characters: At says that m stands   *)
(* at position i of w.                                                     *)
(***************************************************************************)

Str == Seq(Characters)

At(m, w, i) ==
  /\ i \in Nat /\ i >= 1 /\ i + Len(m) <= Len(w) + 1
  /\ \A k \in 1..Len(m) : w[i + k - 1] = m[k]

LEMMA StrFacts ==
  ASSUME NEW w \in Str
  PROVE  /\ Len(w) \in Nat /\ DOMAIN w = 1..Len(w)
         /\ \A i \in 1..Len(w) : w[i] \in Characters
         /\ w = <<>> <=> Len(w) = 0
  BY LenProperties, ElementOfSeq, EmptySeq DEF Str

LEMMA Piece ==
  ASSUME NEW w \in Str, NEW i \in Nat, i >= 1, NEW j \in Nat, i <= j + 1, j <= Len(w)
  PROVE  /\ SubSeq(w, i, j) \in Str /\ Len(SubSeq(w, i, j)) = j + 1 - i
         /\ \A k \in 1..(j + 1 - i) : SubSeq(w, i, j)[k] = w[i + k - 1]
<1>1. Len(w) \in Nat /\ \A k \in i..j : w[k] \in Characters
  BY StrFacts
<1>2. /\ SubSeq(w, i, j) \in Seq(Characters)
      /\ Len(SubSeq(w, i, j)) = IF i <= j THEN j - i + 1 ELSE 0
      /\ \A k \in 1..(j - i + 1) : SubSeq(w, i, j)[k] = w[i + k - 1]
  BY <1>1, SubSeqProperties
<1>3. j - i + 1 = j + 1 - i /\ (~(i <= j) => j + 1 - i = 0)
  OBVIOUS
<1> QED BY <1>2, <1>3 DEF Str

LEMMA SameText ==
  ASSUME NEW v \in Str, NEW w \in Str, Len(v) = Len(w), \A i \in 1..Len(w) : v[i] = w[i]
  PROVE  v = w
  BY SeqEqual DEF Str

LEMMA Joined ==
  ASSUME NEW v \in Str, NEW w \in Str
  PROVE  /\ v \o w \in Str /\ Len(v \o w) = Len(v) + Len(w)
         /\ \A i \in 1..Len(v) : (v \o w)[i] = v[i]
         /\ \A i \in 1..Len(w) : (v \o w)[Len(v) + i] = w[i]
<1>1. Len(v) \in Nat /\ Len(w) \in Nat
  BY StrFacts
<1>2. /\ v \o w \in Str /\ Len(v \o w) = Len(v) + Len(w)
      /\ \A i \in 1..(Len(v) + Len(w)) : (v \o w)[i] = IF i <= Len(v) THEN v[i] ELSE w[i - Len(v)]
  BY ConcatProperties DEF Str
<1>3. \A i \in 1..Len(v) : (v \o w)[i] = v[i]
  BY <1>1, <1>2
<1>4. \A i \in 1..Len(w) : (v \o w)[Len(v) + i] = w[i]
  <2> TAKE i \in 1..Len(w)
  <2>1. /\ Len(v) + i \in 1..(Len(v) + Len(w)) /\ ~(Len(v) + i <= Len(v))
        /\ (Len(v) + i) - Len(v) = i
    BY <1>1
  <2> QED BY <1>2, <2>1
<1> QED BY <1>2, <1>3, <1>4

LEMMA OccursAt ==
  ASSUME NEW m \in Str, m # <<>>, NEW w \in Str
  PROVE  /\ \A i : i \in Occurrences(m, w) <=> At(m, w, i)
         /\ Has(m, w) <=> \E i \in Nat : At(m, w, i)
<1>1. Len(m) \in Nat /\ Len(m) > 0 /\ Len(w) \in Nat
  BY StrFacts
<1>2. ASSUME NEW i \in 1..(Len(w) + 1 - Len(m))
      PROVE  SubSeq(w, i, i + Len(m) - 1) = m <=> \A k \in 1..Len(m) : w[i + k - 1] = m[k]
  <2> DEFINE j == i + Len(m) - 1
             p == SubSeq(w, i, j)
  <2>1. i \in Nat /\ i >= 1 /\ j \in Nat /\ i <= j + 1 /\ j <= Len(w) /\ j + 1 - i = Len(m)
    BY <1>1
  <2> HIDE DEF j
  <2>2. p \in Str /\ Len(p) = Len(m) /\ \A k \in 1..Len(m) : p[k] = w[i + k - 1]
    BY <2>1, Piece
  <2> HIDE DEF p
  <2>3. p = m <=> \A k \in 1..Len(m) : w[i + k - 1] = m[k]
    BY <2>2, SameText
  <2> QED BY <2>3 DEF p, j
<1>3. ASSUME NEW i PROVE i \in Occurrences(m, w) <=> At(m, w, i)
  <2>1. i \in 1..(Len(w) + 1 - Len(m)) <=> i \in Nat /\ i >= 1 /\ i + Len(m) <= Len(w) + 1
    BY <1>1
  <2> QED BY <1>2, <2>1 DEF Occurrences, At
<1>4. \A i : At(m, w, i) => i \in Nat /\ Len(w) >= Len(m)
  BY <1>1 DEF At
<1> QED BY <1>3, <1>4 DEF Has

\* Find is the first place.
LEMMA FindsFirst ==
  ASSUME NEW m \in Str, m # <<>>, NEW w \in Str, Has(m, w)
  PROVE  /\ Find(m, w) \in Nat /\ At(m, w, Find(m, w))
         /\ \A i : At(m, w, i) => Find(m, w) <= i
<1>1. Occurrences(m, w) \subseteq Nat /\ Occurrences(m, w) # {}
  BY OccursAt DEF Has, At
<1>2. \E i \in Occurrences(m, w) : \A j \in Occurrences(m, w) : i <= j
  BY <1>1, NatMinimum
<1>3. /\ Find(m, w) \in Occurrences(m, w)
      /\ \A j \in Occurrences(m, w) : Find(m, w) <= j
  BY <1>2 DEF Find, Min
<1> QED BY <1>1, <1>3, OccursAt

LEMMA FirstIsFound ==
  ASSUME NEW m \in Str, m # <<>>, NEW w \in Str, NEW i, At(m, w, i),
         \A j : At(m, w, j) => i <= j
  PROVE  Has(m, w) /\ Find(m, w) = i
<1>1. Has(m, w) /\ i \in Nat
  BY OccursAt DEF At
<1>2. Find(m, w) \in Nat /\ At(m, w, Find(m, w)) /\ Find(m, w) <= i
  BY <1>1, FindsFirst
<1> QED BY <1>1, <1>2

\* A marker in the first part stays, one in the second part moves.
LEMMA AtJoined ==
  ASSUME NEW m \in Str, m # <<>>, NEW v \in Str, NEW w \in Str
  PROVE  /\ \A i : At(m, v, i) => At(m, v \o w, i)
         /\ \A i : At(m, v \o w, i) /\ i + Len(m) <= Len(v) + 1 => At(m, v, i)
         /\ \A i \in Nat : At(m, w, i) <=> i >= 1 /\ At(m, v \o w, Len(v) + i)
<1>1. Len(m) \in Nat /\ Len(m) > 0 /\ Len(v) \in Nat /\ Len(w) \in Nat
  BY StrFacts
<1> DEFINE u == v \o w
<1>2. /\ u \in Str /\ Len(u) = Len(v) + Len(w)
      /\ \A i \in 1..Len(v) : u[i] = v[i]
      /\ \A i \in 1..Len(w) : u[Len(v) + i] = w[i]
  BY Joined
<1> HIDE DEF u
<1>3. ASSUME NEW i \in Nat, i >= 1, i + Len(m) <= Len(v) + 1 PROVE At(m, u, i) <=> At(m, v, i)
  <2>1. ASSUME NEW k \in 1..Len(m)
        PROVE  i + k - 1 \in 1..Len(v) /\ u[i + k - 1] = v[i + k - 1]
    <3>1. i + k - 1 \in 1..Len(v)
      BY <1>1, <1>3
    <3> QED BY <1>2, <3>1
  <2>2. i + Len(m) <= Len(u) + 1
    BY <1>1, <1>2, <1>3
  <2> QED BY <1>3, <2>1, <2>2 DEF At
<1>4. ASSUME NEW i \in Nat PROVE At(m, w, i) <=> i >= 1 /\ At(m, u, Len(v) + i)
  <2>1. i + Len(m) <= Len(w) + 1 <=> (Len(v) + i) + Len(m) <= Len(u) + 1
    BY <1>1, <1>2
  <2>2. Len(v) + i \in Nat /\ (i >= 1 => Len(v) + i >= 1)
    BY <1>1
  <2>3. ASSUME i >= 1, i + Len(m) <= Len(w) + 1, NEW k \in 1..Len(m)
        PROVE  u[(Len(v) + i) + k - 1] = w[i + k - 1]
    <3>1. i + k - 1 \in 1..Len(w) /\ (Len(v) + i) + k - 1 = Len(v) + (i + k - 1)
      BY <1>1, <2>3
    <3> QED BY <1>2, <3>1
  <2> QED BY <2>1, <2>2, <2>3 DEF At
<1>5. \A i : At(m, v, i) => At(m, u, i)
  BY <1>3 DEF At
<1>6. \A i : At(m, u, i) /\ i + Len(m) <= Len(v) + 1 => At(m, v, i)
  BY <1>3 DEF At
<1> QED BY <1>4, <1>5, <1>6 DEF u

LEMMA JoinAgain ==
  ASSUME NEW u \in Str, NEW v \in Str, NEW w \in Str
  PROVE  /\ (u \o v) \o w = u \o (v \o w)
         /\ u \o <<>> = u /\ <<>> \o u = u
<1>1. u \in Seq(Characters) /\ v \in Seq(Characters) /\ w \in Seq(Characters)
  BY DEF Str
<1>2. (u \o v) \o w = u \o (v \o w)
  BY <1>1, ConcatAssociative
<1>3. u \o <<>> = u /\ <<>> \o u = u
  BY <1>1, ConcatEmptySeq
<1> QED BY <1>2, <1>3

\* The same as one fact, where the provers should not look inside.
Joins(u, v, w) == (u \o v) \o w = u \o (v \o w)

LEMMA JoinsAlike ==
  ASSUME NEW u \in Str, NEW v \in Str, NEW w \in Str
  PROVE  Joins(u, v, w)
  BY JoinAgain DEF Joins

LEMMA JoinAll == \A f, g, h \in Str : (f \o g) \o h = f \o (g \o h)
  BY JoinAgain

LEMMA FindStays ==
  ASSUME NEW m \in Str, m # <<>>, NEW v \in Str, NEW w \in Str, Has(m, v)
  PROVE  Has(m, v \o w) /\ Find(m, v \o w) = Find(m, v)
<1> DEFINE f == Find(m, v)
<1>1. f \in Nat /\ At(m, v, f) /\ \A i : At(m, v, i) => f <= i
  BY FindsFirst
<1> HIDE DEF f
<1>2. v \o w \in Str /\ Len(m) \in Nat /\ Len(v) \in Nat
  BY Joined, StrFacts
<1>3. At(m, v \o w, f)
  BY <1>1, AtJoined
<1>4. ASSUME NEW i, At(m, v \o w, i) PROVE f <= i
  <2>1. i \in Nat /\ f + Len(m) <= Len(v) + 1
    BY <1>1, <1>4 DEF At
  <2>2. i + Len(m) <= Len(v) + 1 => At(m, v, i)
    BY <1>4, AtJoined
  <2>3. CASE i + Len(m) <= Len(v) + 1
    BY <1>1, <2>2, <2>3
  <2>4. CASE ~(i + Len(m) <= Len(v) + 1)
    BY <1>1, <1>2, <2>1, <2>4
  <2> QED BY <2>3, <2>4
<1> QED BY <1>2, <1>3, <1>4, FirstIsFound DEF f

\* What is held back is enough: a marker that the text a \o c does not have
\* begins in c, if anywhere.
LEMMA HeldBack ==
  ASSUME NEW m \in Str, m # <<>>, NEW a \in Str, NEW c \in Str, NEW w \in Str,
         ~Has(m, a \o c), a = <<>> \/ Len(c) + 1 >= Len(m)
  PROVE  /\ Has(m, a \o (c \o w)) <=> Has(m, c \o w)
         /\ Has(m, c \o w) => Find(m, a \o (c \o w)) = Len(a) + Find(m, c \o w)
<1> DEFINE d == c \o w
           t == a \o d
<1>1. /\ a \o c \in Str /\ d \in Str /\ t \in Str /\ t = (a \o c) \o w
      /\ Len(a \o c) = Len(a) + Len(c)
      /\ Len(m) \in Nat /\ Len(m) > 0 /\ Len(a) \in Nat /\ Len(c) \in Nat
      /\ a = <<>> => Len(a) = 0
  <2>1. a \o c \in Str /\ d \in Str /\ Len(a \o c) = Len(a) + Len(c)
    BY Joined
  <2>2. t \in Str
    BY <2>1, Joined
  <2>3. t = (a \o c) \o w
    <3>1. Joins(a, c, w)
      BY JoinsAlike
    <3> QED BY <3>1 DEF Joins
  <2>4. /\ Len(m) \in Nat /\ Len(m) > 0 /\ Len(a) \in Nat /\ Len(c) \in Nat
        /\ a = <<>> => Len(a) = 0
    BY StrFacts
  <2> QED BY <2>1, <2>2, <2>3, <2>4
<1>2. \A i \in Nat : At(m, d, i) <=> i >= 1 /\ At(m, t, Len(a) + i)
  BY <1>1, AtJoined
<1>3. \A i : At(m, t, i) /\ i + Len(m) <= Len(a \o c) + 1 => At(m, a \o c, i)
  BY <1>1, AtJoined
<1> HIDE DEF d, t
<1>4. \A i \in Nat : ~At(m, a \o c, i)
  BY <1>1, OccursAt
<1>5. ASSUME NEW i, At(m, t, i)
      PROVE  i - Len(a) \in Nat /\ At(m, d, i - Len(a)) /\ Len(a) + (i - Len(a)) = i
  <2>1. i \in Nat /\ i >= 1
    BY <1>5 DEF At
  <2>2. ~(i + Len(m) <= Len(a \o c) + 1)
    BY <1>3, <1>4, <1>5, <2>1
  <2>3. i > Len(a)
    BY <1>1, <2>1, <2>2
  <2>4. i - Len(a) \in Nat /\ i - Len(a) >= 1 /\ Len(a) + (i - Len(a)) = i
    BY <1>1, <2>1, <2>3
  <2> QED BY <1>2, <1>5, <2>4
<1>6. Has(m, t) <=> Has(m, d)
  <2>1. Has(m, t) => Has(m, d)
    BY <1>1, <1>5, OccursAt
  <2>2. \A i \in Nat : Len(a) + i \in Nat
    BY <1>1
  <2>3. Has(m, d) => Has(m, t)
    BY <1>1, <1>2, <2>2, OccursAt
  <2> QED BY <2>1, <2>3
<1>7. ASSUME Has(m, d) PROVE Find(m, t) = Len(a) + Find(m, d)
  <2> DEFINE f == Find(m, d)
  <2>1. f \in Nat /\ At(m, d, f) /\ \A i : At(m, d, i) => f <= i
    BY <1>1, <1>7, FindsFirst
  <2> HIDE DEF f
  <2>2. At(m, t, Len(a) + f)
    BY <1>2, <2>1
  <2>3. ASSUME NEW i, At(m, t, i) PROVE Len(a) + f <= i
    <3>1. i - Len(a) \in Nat /\ f <= i - Len(a) /\ i \in Nat
      BY <1>5, <2>1, <2>3 DEF At
    <3> QED BY <1>1, <2>1, <3>1
  <2>4. Find(m, t) = Len(a) + f
    BY <1>1, <2>2, <2>3, FirstIsFound
  <2> QED BY <2>4 DEF f
<1> QED BY <1>6, <1>7 DEF d, t

\* A text is cut in two, and a text that grows is cut at the same place.
LEMMA CutInTwo ==
  ASSUME NEW w \in Str, NEW i \in 1..(Len(w) + 1)
  PROVE  /\ Before(i, w) \in Str /\ Len(Before(i, w)) = i - 1
         /\ \A k \in 1..(i - 1) : Before(i, w)[k] = w[k]
         /\ From(i, w) \in Str /\ Len(From(i, w)) = Len(w) + 1 - i
         /\ \A k \in 1..(Len(w) + 1 - i) : From(i, w)[k] = w[i + k - 1]
         /\ Before(i, w) \o From(i, w) = w
<1>1. Len(w) \in Nat /\ i \in Nat /\ i >= 1 /\ i <= Len(w) + 1
  BY StrFacts
<1>2. /\ Before(i, w) \in Str /\ Len(Before(i, w)) = i - 1
      /\ \A k \in 1..(i - 1) : Before(i, w)[k] = w[k]
  <2>1. 1 \in Nat /\ i - 1 \in Nat /\ 1 <= (i - 1) + 1 /\ i - 1 <= Len(w) /\ (i - 1) + 1 - 1 = i - 1
    BY <1>1
  <2>2. /\ SubSeq(w, 1, i - 1) \in Str /\ Len(SubSeq(w, 1, i - 1)) = (i - 1) + 1 - 1
        /\ \A k \in 1..((i - 1) + 1 - 1) : SubSeq(w, 1, i - 1)[k] = w[1 + k - 1]
    BY <2>1, Piece
  <2>3. \A k \in 1..(i - 1) : 1 + k - 1 = k
    BY <1>1
  <2> QED BY <2>1, <2>2, <2>3 DEF Before
<1>3. /\ From(i, w) \in Str /\ Len(From(i, w)) = Len(w) + 1 - i
      /\ \A k \in 1..(Len(w) + 1 - i) : From(i, w)[k] = w[i + k - 1]
  BY <1>1, Piece DEF From
<1> DEFINE b == Before(i, w)
           f == From(i, w)
<1>4. /\ b \o f \in Str /\ Len(b \o f) = Len(b) + Len(f)
      /\ \A k \in 1..Len(b) : (b \o f)[k] = b[k]
      /\ \A k \in 1..Len(f) : (b \o f)[Len(b) + k] = f[k]
  BY <1>2, <1>3, Joined
<1> HIDE DEF b, f
<1>5. Len(b) = i - 1 /\ Len(f) = Len(w) + 1 - i /\ Len(b \o f) = Len(w)
  <2>1. Len(b) = i - 1 /\ Len(f) = Len(w) + 1 - i
    BY <1>2, <1>3 DEF b, f
  <2> QED BY <1>1, <1>4, <2>1
<1>6. ASSUME NEW k \in 1..Len(w) PROVE (b \o f)[k] = w[k]
  <2>1. CASE k < i
    BY <1>1, <1>2, <1>4, <1>5, <2>1 DEF b
  <2>2. CASE ~(k < i)
    <3>1. k - (i - 1) \in 1..Len(f) /\ Len(b) + (k - (i - 1)) = k /\ i + (k - (i - 1)) - 1 = k
      BY <1>1, <1>5, <2>2
    <3>2. (b \o f)[k] = f[k - (i - 1)]
      BY <1>4, <3>1
    <3>3. f[k - (i - 1)] = w[k]
      BY <1>3, <1>5, <3>1 DEF f
    <3> QED BY <3>2, <3>3
  <2> QED BY <2>1, <2>2
<1>7. b \o f = w
  BY <1>4, <1>5, <1>6, SameText
<1> QED BY <1>2, <1>3, <1>7 DEF b, f

LEMMA CutIsUnique ==
  ASSUME NEW v \in Str, NEW w \in Str
  PROVE  Before(Len(v) + 1, v \o w) = v /\ From(Len(v) + 1, v \o w) = w
<1> DEFINE u == v \o w
           i == Len(v) + 1
<1>1. /\ u \in Str /\ Len(u) = Len(v) + Len(w) /\ Len(v) \in Nat /\ Len(w) \in Nat
      /\ \A k \in 1..Len(v) : u[k] = v[k]
      /\ \A k \in 1..Len(w) : u[Len(v) + k] = w[k]
  BY Joined, StrFacts
<1> HIDE DEF u
<1>2. i \in 1..(Len(u) + 1) /\ i - 1 = Len(v) /\ Len(u) + 1 - i = Len(w)
  BY <1>1
<1>3. /\ Before(i, u) \in Str /\ Len(Before(i, u)) = Len(v)
      /\ \A k \in 1..Len(v) : Before(i, u)[k] = u[k]
      /\ From(i, u) \in Str /\ Len(From(i, u)) = Len(w)
      /\ \A k \in 1..Len(w) : From(i, u)[k] = u[i + k - 1]
  <2>1. u \in Str /\ i \in 1..(Len(u) + 1)
    BY <1>1, <1>2
  <2> HIDE DEF i
  <2>2. /\ Before(i, u) \in Str /\ Len(Before(i, u)) = i - 1
        /\ \A k \in 1..(i - 1) : Before(i, u)[k] = u[k]
        /\ From(i, u) \in Str /\ Len(From(i, u)) = Len(u) + 1 - i
        /\ \A k \in 1..(Len(u) + 1 - i) : From(i, u)[k] = u[i + k - 1]
    BY <2>1, CutInTwo
  <2> QED BY <1>2, <2>2
<1>4. Before(i, u) = v
  BY <1>1, <1>3, SameText
<1>5. \A k \in 1..Len(w) : i + k - 1 = Len(v) + k
  BY <1>1
<1>6. From(i, u) = w
  BY <1>1, <1>3, <1>5, SameText
<1> QED BY <1>4, <1>6 DEF u

LEMMA CutGrows ==
  ASSUME NEW v \in Str, NEW w \in Str, NEW i \in 1..(Len(v) + 1)
  PROVE  Before(i, v \o w) = Before(i, v) /\ From(i, v \o w) = From(i, v) \o w
<1> DEFINE b == Before(i, v)
           f == From(i, v)
<1>1. b \in Str /\ f \in Str /\ Len(b) = i - 1 /\ v = b \o f
  BY CutInTwo
<1>2. i = Len(b) + 1
  BY <1>1, StrFacts
<1> HIDE DEF b, f
<1>3. f \o w \in Str /\ v \o w = b \o (f \o w)
  <2>1. f \o w \in Str
    BY <1>1, Joined
  <2>2. (b \o f) \o w = b \o (f \o w)
    <3>1. b \in Str /\ f \in Str
      BY <1>1
    <3>2. Joins(b, f, w)
      BY <3>1, JoinsAlike
    <3> QED BY <3>2 DEF Joins
  <2> QED BY <1>1, <2>1, <2>2
<1>4. Before(i, v \o w) = b /\ From(i, v \o w) = f \o w
  <2>1. /\ Before(Len(b) + 1, b \o (f \o w)) = b
        /\ From(Len(b) + 1, b \o (f \o w)) = f \o w
    BY <1>1, <1>3, CutIsUnique
  <2> QED BY <1>2, <1>3, <2>1
<1> QED BY <1>4 DEF b, f

LEMMA CutMoves ==
  ASSUME NEW a \in Str, NEW c \in Str, NEW i \in 1..(Len(c) + 1)
  PROVE  /\ Before(Len(a) + i, a \o c) = a \o Before(i, c)
         /\ From(Len(a) + i, a \o c) = From(i, c)
<1> DEFINE b == Before(i, c)
           f == From(i, c)
<1>1. b \in Str /\ f \in Str /\ Len(b) = i - 1 /\ c = b \o f
  BY CutInTwo
<1> HIDE DEF b, f
<1>2. a \o b \in Str /\ Len(a \o b) = Len(a) + Len(b) /\ a \o c = (a \o b) \o f
  <2>1. a \o b \in Str /\ Len(a \o b) = Len(a) + Len(b)
    BY <1>1, Joined
  <2>2. (a \o b) \o f = a \o (b \o f)
    <3>1. b \in Str /\ f \in Str
      BY <1>1
    <3>2. Joins(a, b, f)
      BY <3>1, JoinsAlike
    <3> QED BY <3>2 DEF Joins
  <2> QED BY <1>1, <2>1, <2>2
<1>3. Len(a) + i = Len(a \o b) + 1
  BY <1>1, <1>2, StrFacts
<1>4. Before(Len(a) + i, a \o c) = a \o b /\ From(Len(a) + i, a \o c) = f
  <2>1. /\ Before(Len(a \o b) + 1, (a \o b) \o f) = a \o b
        /\ From(Len(a \o b) + 1, (a \o b) \o f) = f
    BY <1>1, <1>2, CutIsUnique
  <2> QED BY <1>2, <1>3, <2>1
<1> QED BY <1>4 DEF b, f

-----------------------------------------------------------------------------
(* Spaces.                                                                 *)

Blank(w) == \A i \in 1..Len(w) : w[i] = Space
Bare(w) == w = <<>> \/ w[1] # Space

\* Trimming takes a blank front away and leaves a bare text.
LEMMA TrimSplits ==
  ASSUME NEW w \in Str
  PROVE  /\ TrimFront(w) \in Str /\ Bare(TrimFront(w))
         /\ \E v \in Str : Blank(v) /\ w = v \o TrimFront(w)
         /\ TrimFront(w) = <<>> <=> Blank(w)
<1>0. Len(w) \in Nat /\ DOMAIN w = 1..Len(w)
  BY StrFacts
<1>1. CASE Printing(w) = {}
  <2>1. TrimFront(w) = <<>> /\ Blank(w)
    BY <1>0, <1>1 DEF TrimFront, Printing, Blank
  <2>2. <<>> \in Str /\ w = w \o <<>>
    BY JoinAgain, EmptySeq DEF Str
  <2> QED BY <2>1, <2>2 DEF Bare
<1>2. CASE Printing(w) # {}
  <2>1. Printing(w) \subseteq Nat
    BY <1>0 DEF Printing
  <2> DEFINE n == Min(Printing(w))
  <2>2. n \in Printing(w) /\ \A i \in Printing(w) : n <= i
    <3>1. \E i \in Printing(w) : \A j \in Printing(w) : i <= j
      BY <1>2, <2>1, NatMinimum
    <3> QED BY <3>1 DEF Min
  <2>3. TrimFront(w) = From(n, w)
    BY <1>2 DEF TrimFront
  <2> HIDE DEF n
  <2>4. n \in 1..Len(w) /\ w[n] # Space /\ n \in 1..(Len(w) + 1)
    BY <1>0, <2>2 DEF Printing
  <2>5. \A i \in 1..(n - 1) : w[i] = Space
    <3> TAKE i \in 1..(n - 1)
    <3>1. i \in 1..Len(w) /\ ~(n <= i)
      BY <1>0, <2>4
    <3> QED BY <1>0, <2>2, <3>1 DEF Printing
  <2>6. /\ Before(n, w) \in Str /\ Len(Before(n, w)) = n - 1
        /\ \A k \in 1..(n - 1) : Before(n, w)[k] = w[k]
        /\ From(n, w) \in Str /\ Len(From(n, w)) = Len(w) + 1 - n
        /\ \A k \in 1..(Len(w) + 1 - n) : From(n, w)[k] = w[n + k - 1]
        /\ Before(n, w) \o From(n, w) = w
    BY <2>4, CutInTwo
  <2>7. Blank(Before(n, w))
    BY <2>5, <2>6 DEF Blank
  <2>8. Len(w) + 1 - n > 0 /\ 1 \in 1..(Len(w) + 1 - n) /\ n + 1 - 1 = n
    BY <1>0, <2>4
  <2>9. From(n, w)[1] # Space /\ From(n, w) # <<>>
    BY <2>4, <2>6, <2>8, StrFacts
  <2>10. ~Blank(w)
    BY <2>4 DEF Blank
  <2> QED BY <2>3, <2>6, <2>7, <2>9, <2>10 DEF Bare
<1> QED BY <1>1, <1>2

LEMMA BlankJoins ==
  ASSUME NEW v \in Str, NEW w \in Str PROVE Blank(v \o w) <=> Blank(v) /\ Blank(w)
<1> DEFINE u == v \o w
<1>1. /\ Len(u) = Len(v) + Len(w) /\ Len(v) \in Nat /\ Len(w) \in Nat
      /\ \A k \in 1..Len(v) : u[k] = v[k]
      /\ \A k \in 1..Len(w) : u[Len(v) + k] = w[k]
  BY Joined, StrFacts
<1> HIDE DEF u
<1>2. ASSUME Blank(u) PROVE Blank(v) /\ Blank(w)
  <2>1. /\ \A k \in 1..Len(v) : k \in 1..Len(u)
        /\ \A k \in 1..Len(w) : Len(v) + k \in 1..Len(u)
    BY <1>1
  <2> QED BY <1>1, <1>2, <2>1 DEF Blank
<1>3. ASSUME Blank(v), Blank(w), NEW k \in 1..Len(u) PROVE u[k] = Space
  <2>1. CASE k <= Len(v)
    <3>1. k \in 1..Len(v)
      BY <1>1, <2>1
    <3> QED BY <1>1, <1>3, <3>1 DEF Blank
  <2>2. CASE ~(k <= Len(v))
    <3>1. k - Len(v) \in 1..Len(w) /\ Len(v) + (k - Len(v)) = k
      BY <1>1, <2>2
    <3> QED BY <1>1, <1>3, <3>1 DEF Blank
  <2> QED BY <2>1, <2>2
<1> QED BY <1>2, <1>3 DEF Blank, u

LEMMA TrimIsUnique ==
  ASSUME NEW v \in Str, Blank(v), NEW t \in Str, Bare(t)
  PROVE  TrimFront(v \o t) = t
<1> DEFINE w == v \o t
<1>1. /\ w \in Str /\ Len(w) = Len(v) + Len(t) /\ Len(v) \in Nat /\ Len(t) \in Nat
      /\ \A k \in 1..Len(v) : w[k] = v[k]
      /\ \A k \in 1..Len(t) : w[Len(v) + k] = t[k]
      /\ DOMAIN w = 1..Len(w)
      /\ t = <<>> => Len(t) = 0
      /\ t # <<>> => Len(t) > 0
  <2>1. /\ w \in Str /\ Len(w) = Len(v) + Len(t)
        /\ \A k \in 1..Len(v) : w[k] = v[k]
        /\ \A k \in 1..Len(t) : w[Len(v) + k] = t[k]
    BY Joined
  <2> HIDE DEF w
  <2> QED BY <2>1, StrFacts
<1> HIDE DEF w
<1>2. CASE t = <<>>
  <2>1. Blank(w)
    BY <1>1, <1>2 DEF Blank
  <2>2. TrimFront(w) = <<>>
    BY <1>1, <2>1, TrimSplits
  <2> QED BY <1>2, <2>2 DEF w
<1>3. CASE t # <<>>
  <2> DEFINE n == Len(v) + 1
  <2>1. n \in 1..Len(w) /\ w[n] # Space
    <3>1. t[1] # Space /\ 1 \in 1..Len(t)
      BY <1>1, <1>3 DEF Bare
    <3>2. w[Len(v) + 1] = t[1] /\ Len(v) + 1 \in 1..Len(w)
      BY <1>1, <3>1
    <3> QED BY <3>1, <3>2
  <2>2. \A i \in 1..Len(w) : w[i] # Space => n <= i
    <3> SUFFICES ASSUME NEW i \in 1..Len(w), ~(n <= i) PROVE w[i] = Space
      OBVIOUS
    <3>1. i \in 1..Len(v)
      BY <1>1
    <3> QED BY <1>1, <3>1 DEF Blank
  <2>3. n \in Printing(w) /\ \A i \in Printing(w) : n <= i /\ i \in Nat
    BY <1>1, <2>1, <2>2 DEF Printing
  <2>4. n \in Nat
    BY <1>1
  <2> HIDE DEF n
  <2>5. \A i \in Printing(w) : (\A j \in Printing(w) : i <= j) => i = n
    <3> SUFFICES ASSUME NEW i \in Printing(w), \A j \in Printing(w) : i <= j PROVE i = n
      OBVIOUS
    <3>1. i <= n /\ n <= i /\ i \in Nat
      BY <2>3
    <3> QED BY <2>4, <3>1
  <2>6. Min(Printing(w)) = n
    BY <2>3, <2>5 DEF Min
  <2>7. TrimFront(w) = From(n, w)
    BY <2>3, <2>6 DEF TrimFront
  <2>8. From(n, w) = t
    BY CutIsUnique DEF w, n
  <2> QED BY <2>7, <2>8 DEF w
<1> QED BY <1>2, <1>3

LEMMA TrimAgain == ASSUME NEW w \in Str PROVE TrimFront(TrimFront(w)) = TrimFront(w)
<1>1. TrimFront(w) \in Str /\ Bare(TrimFront(w)) /\ <<>> \in Str /\ Blank(<<>>)
  BY TrimSplits, EmptySeq DEF Str, Blank
<1>2. <<>> \o TrimFront(w) = TrimFront(w)
  BY <1>1, JoinAgain
<1> QED BY <1>1, <1>2, TrimIsUnique

\* Two texts that differ in their front spaces differ in nothing else when
\* both grow.
LEMMA TrimGrows ==
  ASSUME NEW v \in Str, NEW w \in Str
  PROVE  TrimFront(v \o w) = IF TrimFront(v) = <<>> THEN TrimFront(w) ELSE TrimFront(v) \o w
<1> DEFINE t == TrimFront(v)
<1>1. PICK b \in Str : Blank(b) /\ v = b \o t
  BY TrimSplits
<1>2. t \in Str /\ Bare(t) /\ (t = <<>> <=> Blank(v))
  BY TrimSplits
<1> HIDE DEF t
<1>3. CASE t = <<>>
  <2> DEFINE x == TrimFront(w)
  <2>1. PICK c \in Str : Blank(c) /\ w = c \o x
    BY TrimSplits
  <2>2. x \in Str /\ Bare(x)
    BY TrimSplits
  <2> HIDE DEF x
  <2>3. v \o c \in Str /\ Blank(v \o c) /\ v \o w = (v \o c) \o x
    <3>1. v \o c \in Str
      BY <2>1, Joined
    <3>2. Blank(v \o c)
      BY <1>2, <1>3, <2>1, BlankJoins
    <3>3. (v \o c) \o x = v \o (c \o x)
      <4>1. c \in Str /\ x \in Str
        BY <2>1, <2>2
      <4>2. Joins(v, c, x)
        BY <4>1, JoinsAlike
      <4> QED BY <4>2 DEF Joins
    <3> QED BY <2>1, <3>1, <3>2, <3>3
  <2>4. TrimFront(v \o w) = x
    BY <2>2, <2>3, TrimIsUnique
  <2> QED BY <1>3, <2>4 DEF x, t
<1>4. CASE t # <<>>
  <2>1. t \o w \in Str /\ Bare(t \o w)
    <3>1. /\ t \o w \in Str /\ Len(t \o w) = Len(t) + Len(w) /\ Len(t) \in Nat /\ Len(t) > 0
          /\ \A k \in 1..Len(t) : (t \o w)[k] = t[k]
      BY <1>2, <1>4, Joined, StrFacts
    <3>2. (t \o w)[1] = t[1] /\ t[1] # Space
      BY <1>2, <1>4, <3>1 DEF Bare
    <3> QED BY <3>1, <3>2 DEF Bare
  <2>2. v \o w = b \o (t \o w)
    BY <1>1, <1>2, JoinAgain
  <2>3. TrimFront(v \o w) = t \o w
    BY <1>1, <2>1, <2>2, TrimIsUnique
  <2> QED BY <1>4, <2>3 DEF t
<1> QED BY <1>3, <1>4

\* A marker begins with no space, so it stands where it stood.
LEMMA HasTrimmed ==
  ASSUME NEW m \in Str, m # <<>>, m[1] # Space, NEW w \in Str
  PROVE  Has(m, w) <=> Has(m, TrimFront(w))
<1> DEFINE t == TrimFront(w)
<1>1. PICK b \in Str : Blank(b) /\ w = b \o t
  BY TrimSplits
<1>2. t \in Str
  BY TrimSplits
<1> HIDE DEF t
<1>3. /\ Len(m) \in Nat /\ Len(m) > 0 /\ Len(b) \in Nat /\ Len(t) \in Nat
      /\ Len(w) = Len(b) + Len(t)
      /\ \A k \in 1..Len(b) : w[k] = b[k]
  BY <1>1, <1>2, StrFacts, Joined
<1>4. \A i \in Nat : At(m, t, i) <=> i >= 1 /\ At(m, w, Len(b) + i)
  BY <1>1, <1>2, AtJoined
<1>5. ASSUME NEW i \in Nat, At(m, w, i) PROVE i - Len(b) \in Nat /\ At(m, t, i - Len(b))
  <2>1. i >= 1 /\ 1 \in 1..Len(m) /\ i + 1 - 1 = i
    BY <1>3, <1>5 DEF At
  <2>2. w[i] = m[1]
    BY <1>5, <2>1 DEF At
  <2>3. i > Len(b)
    <3> SUFFICES ASSUME ~(i > Len(b)) PROVE FALSE
      OBVIOUS
    <3>1. i \in 1..Len(b)
      BY <1>3, <2>1
    <3> QED BY <1>1, <1>3, <2>2, <3>1 DEF Blank
  <2>4. i - Len(b) \in Nat /\ i - Len(b) >= 1 /\ Len(b) + (i - Len(b)) = i
    BY <1>3, <2>3
  <2> QED BY <1>4, <1>5, <2>4
<1>6. Has(m, w) => Has(m, t)
  BY <1>2, <1>5, OccursAt
<1>7. Has(m, t) => Has(m, w)
  <2>1. \A i \in Nat : Len(b) + i \in Nat
    BY <1>3
  <2> QED BY <1>2, <1>4, <2>1, OccursAt
<1> QED BY <1>6, <1>7 DEF t

-----------------------------------------------------------------------------
(* The closure.                                                            *)

Streams ==
  [connected : BOOLEAN, in_reasoning : BOOLEAN, thinking_carry : Str, tool_carry : Str,
   capturing : BOOLEAN, captured : 0..(KeepAlive - 1), reasoning : Str, content : Str,
   calls : Nat, ending : Seq({"finish", "error", "done"})]

LEMMA SinkFacts ==
  ASSUME NEW s \in Streams, open \in BOOLEAN
  PROVE  /\ Sink(s) \in Streams
         /\ Sink(s).connected <=> s.connected /\ open
         /\ Sink(s).in_reasoning = s.in_reasoning /\ Sink(s).capturing = s.capturing
         /\ Sink(s).captured = s.captured
         /\ Sink(s).thinking_carry = s.thinking_carry /\ Sink(s).tool_carry = s.tool_carry
         /\ Sink(s).reasoning = s.reasoning /\ Sink(s).content = s.content
         /\ Sink(s).calls = s.calls /\ Sink(s).ending = s.ending
         /\ s.connected /\ open => Sink(s) = s
  BY DEF Sink, Streams

\* What emit_text leaves alone, and when its client is noticed to have gone.
Emitted(s, t, w) ==
  /\ t \in Streams
  /\ t.connected <=> s.connected /\ (w = <<>> \/ open)
  /\ t.in_reasoning = s.in_reasoning /\ t.capturing = s.capturing
  /\ t.captured = s.captured
  /\ t.thinking_carry = s.thinking_carry /\ t.tool_carry = s.tool_carry
  /\ t.calls = s.calls /\ t.ending = s.ending

LEMMA EmitTextFacts ==
  ASSUME NEW s \in Streams, NEW w \in Str, open \in BOOLEAN
  PROVE  /\ Emitted(s, EmitText(s, "content", w), w)
         /\ EmitText(s, "content", w).reasoning = s.reasoning
         /\ s.connected /\ open => EmitText(s, "content", w).content = s.content \o w
         /\ Emitted(s, EmitText(s, "reasoning", w), w)
         /\ EmitText(s, "reasoning", w).content = s.content
         /\ s.connected /\ open => EmitText(s, "reasoning", w).reasoning = s.reasoning \o w
<1>1. /\ s.content \o w \in Str /\ s.reasoning \o w \in Str
      /\ s.content \in Str /\ s.reasoning \in Str
  BY Joined DEF Streams
<1>2. s.content \o <<>> = s.content /\ s.reasoning \o <<>> = s.reasoning
  BY <1>1, JoinAgain
<1>3. CASE w = <<>>
  <2>1. EmitText(s, "content", w) = s /\ EmitText(s, "reasoning", w) = s
    BY <1>3 DEF EmitText
  <2> QED BY <1>2, <1>3, <2>1 DEF Emitted
<1>4. CASE w # <<>> /\ s.connected /\ open
  <2>1. /\ EmitText(s, "content", w) = [s EXCEPT !.content = @ \o w]
        /\ EmitText(s, "reasoning", w) = [s EXCEPT !.reasoning = @ \o w]
    BY <1>4, SinkFacts DEF EmitText
  <2> DEFINE c == s.content \o w
             r == s.reasoning \o w
  <2>2. c \in Str /\ r \in Str
    BY <1>1
  <2> HIDE DEF c, r
  <2>3. /\ EmitText(s, "content", w) = [s EXCEPT !.content = c]
        /\ EmitText(s, "reasoning", w) = [s EXCEPT !.reasoning = r]
    BY <2>1 DEF c, r
  <2>4. Emitted(s, EmitText(s, "content", w), w) /\ EmitText(s, "content", w).content = c
        /\ EmitText(s, "content", w).reasoning = s.reasoning
    BY <1>4, <2>2, <2>3 DEF Emitted, Streams
  <2>5. Emitted(s, EmitText(s, "reasoning", w), w) /\ EmitText(s, "reasoning", w).reasoning = r
        /\ EmitText(s, "reasoning", w).content = s.content
    BY <1>4, <2>2, <2>3 DEF Emitted, Streams
  <2> QED BY <2>4, <2>5 DEF c, r
<1>5. CASE w # <<>> /\ ~(s.connected /\ open)
  <2>1. EmitText(s, "content", w) = Sink(s) /\ EmitText(s, "reasoning", w) = Sink(s)
    BY <1>5, SinkFacts DEF EmitText
  <2> QED BY <1>5, <2>1, SinkFacts DEF Emitted
<1> QED BY <1>3, <1>4, <1>5

LEMMA Markers ==
  /\ CloseMarker \in Str /\ CloseMarker # <<>> /\ CloseMarker[1] # Space
  /\ ToolMarker \in Str /\ ToolMarker # <<>> /\ ToolMarker[1] # Space
  /\ Len(CloseMarker) \in Nat /\ Len(CloseMarker) > 0
  /\ Len(ToolMarker) \in Nat /\ Len(ToolMarker) > 0
  /\ KeepAlive \in Nat /\ KeepAlive > 0
<1>1. ASSUME NEW m, m \in Seq(Characters \ {Space}), m # <<>>
      PROVE  m \in Str /\ m[1] # Space /\ Len(m) \in Nat /\ Len(m) > 0
  <2>1. m \in Seq(Characters)
    BY <1>1, SeqMonotonic
  <2>2. Len(m) \in Nat /\ Len(m) > 0
    BY <1>1, EmptySeq
  <2>3. m[1] \in Characters \ {Space}
    BY <1>1, <2>2, ElementOfSeq
  <2> QED BY <2>1, <2>2, <2>3 DEF Str
<1> QED BY <1>1, ApiStreamAssumption

Keeps(s, t) ==
  /\ t \in Streams
  /\ t.in_reasoning = s.in_reasoning /\ t.thinking_carry = s.thinking_carry
  /\ t.reasoning = s.reasoning /\ t.calls = s.calls /\ t.ending = s.ending

\* While a call is captured, everything is held back, and every KeepAlive-th
\* delta writes.
LEMMA EmitContentCaptures ==
  ASSUME NEW s \in Streams, NEW w \in Str, open \in BOOLEAN, parse_tools, s.capturing
  PROVE  LET t == EmitContent(s, w) IN
         /\ Keeps(s, t) /\ t.capturing /\ t.content = s.content
         /\ t.tool_carry = s.tool_carry \o w
         /\ t.captured = (s.captured + 1) % KeepAlive
         /\ t.connected <=> s.connected /\ (t.captured # 0 \/ open)
<1> DEFINE carry == s.tool_carry \o w
           k == (s.captured + 1) % KeepAlive
           n == [s EXCEPT !.tool_carry = carry, !.captured = k]
<1>1. carry \in Str /\ k \in 0..(KeepAlive - 1)
  <2>1. s.tool_carry \in Str /\ s.captured + 1 \in Nat
    BY DEF Streams
  <2> QED BY <2>1, Joined, Markers
<1>2. EmitContent(s, w) = IF k = 0 THEN Sink(n) ELSE n
  <2>1. EmitContent(s, w) = Capture([s EXCEPT !.tool_carry = carry])
    BY DEF EmitContent, Streams
  <2> HIDE DEF carry
  <2>2. [[s EXCEPT !.tool_carry = carry] EXCEPT !.captured = (@ + 1) % KeepAlive] = n
    BY DEF Streams
  <2>3. n.captured = k
    BY DEF Streams
  <2> HIDE DEF n, k
  <2> QED BY <2>1, <2>2, <2>3 DEF Capture
<1> HIDE DEF carry, k
<1>3. /\ Keeps(s, n) /\ n.capturing /\ n.content = s.content /\ n.tool_carry = carry
      /\ n.captured = k /\ n.connected = s.connected
  BY <1>1 DEF Streams, Keeps
<1> HIDE DEF n
<1>4. CASE k = 0
  <2>1. EmitContent(s, w) = Sink(n) /\ n \in Streams
    BY <1>2, <1>3, <1>4 DEF Keeps
  <2>2. Keeps(s, Sink(n))
    BY <1>3, <2>1, SinkFacts DEF Keeps
  <2> QED BY <1>3, <1>4, <2>1, <2>2, SinkFacts DEF carry, k
<1>5. CASE k # 0
  <2>1. EmitContent(s, w) = n
    BY <1>2, <1>5
  <2> QED BY <1>3, <1>5, <2>1 DEF carry, k
<1> QED BY <1>4, <1>5

\* Before that, what cannot be part of a marker is written, and a whole marker
\* begins the capture.
Split(s, t, w, e) ==
  /\ e \in Str /\ s.tool_carry \o w = e \o t.tool_carry
  /\ t.connected <=> s.connected /\ (e = <<>> \/ open)
  /\ s.connected /\ open => t.content = s.content \o e
  /\ t.capturing <=> Has(ToolMarker, s.tool_carry \o w)
  /\ t.capturing => Find(ToolMarker, s.tool_carry \o w) = Len(e) + 1
  /\ ~t.capturing => Len(t.tool_carry) < Len(ToolMarker)
  /\ ~t.capturing /\ e # <<>> => Len(t.tool_carry) + 1 = Len(ToolMarker)

LEMMA EmitContentSplits ==
  ASSUME NEW s \in Streams, NEW w \in Str, open \in BOOLEAN, parse_tools, ~s.capturing
  PROVE  LET t == EmitContent(s, w) IN
         /\ Keeps(s, t) /\ t.captured = s.captured
         /\ \E e : Split(s, t, w, e)
<1> DEFINE carry == s.tool_carry \o w
           c == [s EXCEPT !.tool_carry = carry]
           found == Has(ToolMarker, carry)
           cut == IF found THEN Find(ToolMarker, carry) ELSE Len(carry) + 2 - Len(ToolMarker)
           e == Before(cut, carry)
           f == From(cut, carry)
<1>1. carry \in Str /\ Len(carry) \in Nat /\ s.content \in Str
  <2>1. s.tool_carry \in Str /\ s.content \in Str
    BY DEF Streams
  <2> QED BY <2>1, Joined, StrFacts
<1>2. EmitContent(s, w) = IF Len(carry) < Len(ToolMarker) THEN c
                          ELSE [EmitText(c, "content", e) EXCEPT
                                  !.tool_carry = f, !.capturing = found]
  <2>1. c.capturing = s.capturing /\ c.tool_carry = carry
    BY DEF Streams
  <2> HIDE DEF c
  <2> QED BY <2>1 DEF EmitContent, c
<1>3. found => Len(carry) >= Len(ToolMarker)
  BY DEF Has
<1>4. /\ c \in Streams /\ Keeps(s, c) /\ c.content = s.content /\ c.connected = s.connected
      /\ c.captured = s.captured /\ c.capturing = s.capturing /\ c.tool_carry = carry
  <2> HIDE DEF carry
  <2> QED BY <1>1 DEF Streams, Keeps
<1>5. CASE Len(carry) < Len(ToolMarker)
  <2>1. EmitContent(s, w) = c
    BY <1>2, <1>5
  <2>2. ~found
    BY <1>1, <1>3, <1>5, Markers
  <2>3. <<>> \in Str /\ <<>> \o carry = carry /\ s.content \o <<>> = s.content
    BY <1>1, JoinAgain, EmptySeq DEF Str
  <2>4. Split(s, c, w, <<>>)
    <3> HIDE DEF c
    <3> QED BY <1>4, <1>5, <2>2, <2>3 DEF Split
  <2> HIDE DEF c, carry
  <2> QED BY <1>4, <2>1, <2>4
<1>6. CASE ~(Len(carry) < Len(ToolMarker))
  <2>1. cut \in 1..(Len(carry) + 1)
    <3>1. found => Find(ToolMarker, carry) \in 1..(Len(carry) + 1)
      <4>1. found => At(ToolMarker, carry, Find(ToolMarker, carry))
        BY <1>1, FindsFirst, Markers
      <4> HIDE DEF carry
      <4> QED BY <1>1, <4>1, Markers DEF At
    <3>2. Len(carry) + 2 - Len(ToolMarker) \in 1..(Len(carry) + 1)
      <4> HIDE DEF carry
      <4> QED BY <1>1, <1>6, Markers
    <3> QED BY <3>1, <3>2
  <2> HIDE DEF carry
  <2>2. e \in Str /\ f \in Str /\ e \o f = carry /\ Len(e) = cut - 1 /\ Len(f) = Len(carry) + 1 - cut
    <3> HIDE DEF cut
    <3> QED BY <1>1, <2>1, CutInTwo
  <2>3. /\ found => Find(ToolMarker, carry) = Len(e) + 1
        /\ ~found => Len(f) + 1 = Len(ToolMarker)
    <3> HIDE DEF e, f
    <3>1. found => cut = Find(ToolMarker, carry)
      OBVIOUS
    <3>2. ~found => cut = Len(carry) + 2 - Len(ToolMarker)
      OBVIOUS
    <3>3. cut \in Nat
      BY <1>1, <2>1
    <3> HIDE DEF cut, found
    <3> QED BY <1>1, <2>2, <3>1, <3>2, <3>3, Markers
  <2> DEFINE u == EmitText(c, "content", e)
             t == [u EXCEPT !.tool_carry = f, !.capturing = found]
  <2>4. /\ Emitted(c, u, e) /\ u.reasoning = c.reasoning
        /\ c.connected /\ open => u.content = c.content \o e
    <3> HIDE DEF c, e
    <3> QED BY <1>4, <2>2, EmitTextFacts
  <2>5. EmitContent(s, w) = t
    BY <1>2, <1>6
  <2> HIDE DEF u, c, e, f
  <2>6. found \in BOOLEAN /\ u \in Streams
    BY <2>4 DEF Has, Emitted
  <2> HIDE DEF found
  <2>7. /\ t \in Streams /\ t.tool_carry = f /\ t.capturing = found /\ t.connected = u.connected
        /\ t.content = u.content /\ t.reasoning = u.reasoning /\ t.captured = u.captured
        /\ t.in_reasoning = u.in_reasoning /\ t.thinking_carry = u.thinking_carry
        /\ t.calls = u.calls /\ t.ending = u.ending
    BY <2>2, <2>6 DEF Streams
  <2> HIDE DEF t
  <2>8. Keeps(s, t) /\ t.captured = s.captured
    BY <1>4, <2>4, <2>7 DEF Keeps, Emitted
  <2>9. /\ t.connected <=> s.connected /\ (e = <<>> \/ open)
        /\ s.connected /\ open => t.content = s.content \o e
    BY <1>4, <2>4, <2>7 DEF Emitted
  <2>10. ~found => Len(f) < Len(ToolMarker)
    BY <2>2, <2>3, StrFacts, Markers
  <2>11. Split(s, t, w, e)
    BY <2>2, <2>3, <2>7, <2>9, <2>10 DEF Split, found, carry
  <2> QED BY <2>5, <2>8, <2>11
<1> QED BY <1>5, <1>6

LEMMA MarkerSizes ==
  LET a == Len(CloseMarker)
      b == Len(ToolMarker)
      m == Max({a, b})
  IN  m \in Nat /\ m >= a /\ m >= b /\ m <= a + b /\ m > 0
<1> DEFINE a == Len(CloseMarker)
           b == Len(ToolMarker)
           m == Max({a, b})
<1>1. a \in Nat /\ a > 0 /\ b \in Nat /\ b > 0
  BY Markers
<1> HIDE DEF a, b
<1>2. m \in {a, b} /\ m >= a /\ m >= b
  <2>1. \E x \in {a, b} : \A y \in {a, b} : x >= y
    BY <1>1
  <2> QED BY <2>1 DEF Max
<1> HIDE DEF m
<1>3. m \in Nat /\ m >= a /\ m >= b /\ m <= a + b /\ m > 0
  BY <1>1, <1>2
<1> QED BY <1>3 DEF m, a, b

LEMMA HoldbackFacts ==
  /\ Holdback \in Nat /\ Holdback + 1 >= Len(CloseMarker)
  /\ parse_tools => Holdback + 1 >= Len(ToolMarker)
  /\ Holdback + 1 <= Len(CloseMarker) + Len(ToolMarker)
  /\ Holdback + 1 = IF parse_tools THEN Max({Len(CloseMarker), Len(ToolMarker)})
                    ELSE Len(CloseMarker)
<1> DEFINE m == Max({Len(CloseMarker), Len(ToolMarker)})
<1>1. /\ m \in Nat /\ m >= Len(CloseMarker) /\ m >= Len(ToolMarker) /\ m > 0
      /\ m <= Len(CloseMarker) + Len(ToolMarker)
  BY MarkerSizes
<1>2. Holdback = IF parse_tools THEN m - 1 ELSE Len(CloseMarker) - 1
  BY DEF Holdback
<1> HIDE DEF m
<1>3. /\ Holdback \in Nat /\ Holdback + 1 >= Len(CloseMarker)
      /\ parse_tools => Holdback + 1 >= Len(ToolMarker)
      /\ Holdback + 1 <= Len(CloseMarker) + Len(ToolMarker)
      /\ Holdback + 1 = IF parse_tools THEN m ELSE Len(CloseMarker)
  BY <1>1, <1>2, Markers
<1> QED BY <1>3 DEF m

\* What the closure holds back, and for how long.
Carries(s) ==
  /\ s.in_reasoning =>
       /\ mode.chat
       /\ Len(s.thinking_carry) <= Holdback
       /\ ~Has(CloseMarker, s.thinking_carry)
       /\ parse_tools => ~Has(ToolMarker, s.thinking_carry)
       /\ ~s.capturing /\ s.tool_carry = <<>>
  /\ ~s.in_reasoning => s.thinking_carry = <<>>
  /\ ~parse_tools => ~s.capturing /\ s.tool_carry = <<>>
  /\ ~s.capturing => Len(s.tool_carry) < Len(ToolMarker) /\ s.captured = 0

\* Deltas that may have passed unsent.
Silent(s) ==
  IF s.in_reasoning THEN Len(s.thinking_carry)
  ELSE IF s.capturing THEN Len(CloseMarker) + Len(ToolMarker) + s.captured
  ELSE Len(CloseMarker) + Len(s.tool_carry)

LEMMA SilentBounded ==
  ASSUME NEW s \in Streams, Carries(s)
  PROVE  /\ Silent(s) \in Nat
         /\ Silent(s) + 1 <= Len(CloseMarker) + Len(ToolMarker) + KeepAlive
<1>1. /\ Len(s.thinking_carry) \in Nat /\ Len(s.tool_carry) \in Nat
      /\ s.captured \in Nat /\ s.captured <= KeepAlive - 1
      /\ s.thinking_carry \in Str /\ s.tool_carry \in Str
  BY StrFacts, Markers DEF Streams
<1> QED BY <1>1, Markers, HoldbackFacts DEF Silent, Carries

LEMMA NextCaptured ==
  ASSUME NEW n \in 0..(KeepAlive - 1), (n + 1) % KeepAlive # 0
  PROVE  (n + 1) % KeepAlive = n + 1
<1>1. KeepAlive \in Nat /\ KeepAlive > 0 /\ n \in Nat /\ n + 1 <= KeepAlive
  BY Markers
<1>2. CASE n + 1 = KeepAlive
  <2>1. KeepAlive % KeepAlive = 0
    BY <1>1
  <2> QED BY <1>2, <2>1
<1>3. CASE n + 1 < KeepAlive
  BY <1>1, <1>3
<1> QED BY <1>1, <1>2, <1>3

\* What a text of the answer does to them.
LEMMA SayKeeps ==
  ASSUME NEW s \in Streams, Carries(s), ~s.in_reasoning, NEW w \in Str, open \in BOOLEAN
  PROVE  LET t == EmitContent(s, w) IN
         /\ t \in Streams /\ Carries(t) /\ ~t.in_reasoning
         /\ t.ending = s.ending /\ t.calls = s.calls
         /\ s.connected /\ open => t.connected
         /\ t.connected => s.connected
         /\ t.connected /\ ~open => Silent(s) <= Silent(t)
         /\ t.connected /\ ~open /\ w # <<>> => Silent(s) + 1 <= Silent(t)
<1> DEFINE t == EmitContent(s, w)
<1>0. /\ s.tool_carry \in Str /\ Len(s.tool_carry) \in Nat /\ s.captured \in 0..(KeepAlive - 1)
      /\ s.captured \in Nat
  BY StrFacts DEF Streams
<1>a. Silent(s) \in Nat
  BY SilentBounded
<1>1. CASE ~parse_tools
  <2>1. t = EmitText(s, "content", w)
    BY <1>1 DEF EmitContent
  <2>2. Emitted(s, t, w)
    BY <2>1, EmitTextFacts
  <2>3. EmitText(s, "content", w).reasoning = s.reasoning
    BY EmitTextFacts
  <2> HIDE DEF t
  <2>4. t \in Streams /\ Carries(t) /\ ~t.in_reasoning /\ Silent(t) = Silent(s)
        /\ t.ending = s.ending /\ t.calls = s.calls
    BY <2>2 DEF Emitted, Carries, Silent
  <2> QED BY <1>a, <2>2, <2>4 DEF Emitted, t
<1>2. CASE parse_tools /\ s.capturing
  <2>1. /\ Keeps(s, t) /\ t.capturing /\ t.tool_carry = s.tool_carry \o w
        /\ t.captured = (s.captured + 1) % KeepAlive
        /\ t.connected <=> s.connected /\ (t.captured # 0 \/ open)
    BY <1>2, EmitContentCaptures
  <2> HIDE DEF t
  <2>2. t \in Streams /\ Carries(t) /\ ~t.in_reasoning /\ t.ending = s.ending /\ t.calls = s.calls
    BY <1>2, <2>1 DEF Keeps, Carries
  <2>3. ASSUME t.connected, ~open PROVE Silent(s) + 1 <= Silent(t)
    <3>1. t.captured = s.captured + 1
      BY <1>0, <2>1, <2>3, NextCaptured
    <3> QED BY <1>0, <1>2, <2>1, <2>2, <3>1, Markers DEF Silent
  <2>4. Silent(t) \in Nat
    BY <2>2, SilentBounded
  <2>5. t.connected /\ ~open => Silent(s) <= Silent(t)
    BY <1>a, <2>3, <2>4
  <2> QED BY <2>1, <2>2, <2>3, <2>5 DEF t
<1>3. CASE parse_tools /\ ~s.capturing
  <2>1. Keeps(s, t) /\ t.captured = s.captured /\ \E e : Split(s, t, w, e)
    BY <1>3, EmitContentSplits
  <2> HIDE DEF t
  <2>2. PICK e : Split(s, t, w, e)
    BY <2>1
  <2>3. t \in Streams /\ Carries(t) /\ ~t.in_reasoning /\ t.ending = s.ending /\ t.calls = s.calls
    BY <1>3, <2>1, <2>2 DEF Keeps, Carries, Split
  <2>4. ASSUME t.connected, ~open PROVE Silent(s) + Len(w) <= Silent(t) \/ Silent(s) + 1 <= Silent(t)
    <3>1. e = <<>> /\ t.tool_carry \in Str
      BY <2>2, <2>3, <2>4 DEF Split, Streams
    <3>2. s.tool_carry \o w = t.tool_carry
      BY <2>2, <3>1, JoinAgain DEF Split
    <3>3. Len(t.tool_carry) = Len(s.tool_carry) + Len(w) /\ Len(w) \in Nat
      <4>1. Len(s.tool_carry \o w) = Len(s.tool_carry) + Len(w)
        BY <1>0, Joined
      <4> QED BY <3>2, <4>1, StrFacts
    <3>4. Len(s.tool_carry) < Len(ToolMarker)
      BY <1>3 DEF Carries
    <3>5. CASE t.capturing
      <4>1. /\ Silent(s) = Len(CloseMarker) + Len(s.tool_carry)
            /\ Silent(t) = Len(CloseMarker) + Len(ToolMarker) + s.captured
        BY <1>3, <2>1, <2>3, <3>5 DEF Silent
      <4> QED BY <1>0, <3>4, <4>1, Markers
    <3>6. CASE ~t.capturing
      <4>1. /\ Silent(s) = Len(CloseMarker) + Len(s.tool_carry)
            /\ Silent(t) = Len(CloseMarker) + Len(t.tool_carry)
        BY <1>3, <2>3, <3>6 DEF Silent
      <4> QED BY <1>0, <3>3, <4>1, Markers
    <3> QED BY <3>5, <3>6
  <2>5. Silent(t) \in Nat /\ Len(w) \in Nat /\ (w # <<>> => Len(w) > 0)
    BY <2>3, SilentBounded, StrFacts
  <2>6. /\ t.connected /\ ~open => Silent(s) <= Silent(t)
        /\ t.connected /\ ~open /\ w # <<>> => Silent(s) + 1 <= Silent(t)
    BY <1>a, <2>4, <2>5
  <2> QED BY <2>2, <2>3, <2>6 DEF Split, t
<1> QED BY <1>1, <1>2, <1>3

\* The thoughts end: a of them is written, and the rest is spoken.
Left(s, u, a) ==
  /\ u \in Streams /\ ~u.in_reasoning /\ u.thinking_carry = <<>>
  /\ u.connected <=> s.connected /\ (a = <<>> \/ open)
  /\ s.connected /\ open => u.reasoning = s.reasoning \o a
  /\ u.content = s.content /\ u.tool_carry = s.tool_carry
  /\ u.capturing = s.capturing /\ u.captured = s.captured
  /\ u.calls = s.calls /\ u.ending = s.ending

LEMMA ReasoningLeft ==
  ASSUME NEW s \in Streams, NEW c, NEW carry \in Str,
         c = [s EXCEPT !.thinking_carry = carry],
         NEW i \in 1..(Len(carry) + 1), NEW rest \in Str, open \in BOOLEAN
  PROVE  \E u : Left(s, u, Before(i, carry)) /\ LeaveReasoning(c, i, rest) = EmitContent(u, rest)
<1> DEFINE a == Before(i, carry)
           told == EmitText(c, "reasoning", a)
           u == [told EXCEPT !.thinking_carry = <<>>, !.in_reasoning = FALSE]
<1>1. /\ c \in Streams /\ c.thinking_carry = carry /\ c.connected = s.connected
      /\ c.reasoning = s.reasoning /\ c.content = s.content /\ c.tool_carry = s.tool_carry
      /\ c.capturing = s.capturing /\ c.captured = s.captured
      /\ c.calls = s.calls /\ c.ending = s.ending
  BY DEF Streams
<1>2. a \in Str
  BY CutInTwo
<1>3. LeaveReasoning(c, i, rest) = EmitContent(u, rest)
  BY <1>1 DEF LeaveReasoning
<1> HIDE DEF a
<1>4. /\ Emitted(c, told, a) /\ told.content = c.content
      /\ c.connected /\ open => told.reasoning = c.reasoning \o a
  BY <1>1, <1>2, EmitTextFacts
<1> HIDE DEF told
<1>5. told \in Streams /\ <<>> \in Str
  BY <1>4, EmptySeq DEF Emitted, Str
<1>6. /\ u \in Streams /\ u.in_reasoning = FALSE /\ u.thinking_carry = <<>>
      /\ u.connected = told.connected /\ u.reasoning = told.reasoning /\ u.content = told.content
      /\ u.tool_carry = told.tool_carry /\ u.capturing = told.capturing
      /\ u.captured = told.captured /\ u.calls = told.calls /\ u.ending = told.ending
  BY <1>5 DEF Streams
<1> HIDE DEF u
<1>7. Left(s, u, a)
  BY <1>1, <1>4, <1>6 DEF Left, Emitted
<1> QED BY <1>3, <1>7 DEF a

\* A delta of the thoughts, by what it completes.
LEMMA OnReasoningCases ==
  ASSUME NEW s \in Streams, NEW w \in Str, open \in BOOLEAN
  PROVE  LET t == OnReasoning(s, w)
             carry == s.thinking_carry \o w
             c == [s EXCEPT !.thinking_carry = carry]
             ready == Len(carry) - Holdback
         IN
         \/ /\ Has(CloseMarker, carry)
            /\ t = LeaveReasoning(c, Find(CloseMarker, carry),
                     TrimFront(From(Find(CloseMarker, carry) + Len(CloseMarker), carry)))
         \/ /\ ~Has(CloseMarker, carry) /\ parse_tools /\ Has(ToolMarker, carry)
            /\ t = LeaveReasoning(c, Find(ToolMarker, carry), From(Find(ToolMarker, carry), carry))
         \/ /\ ~Has(CloseMarker, carry) /\ ~(parse_tools /\ Has(ToolMarker, carry))
            /\ Len(carry) <= Holdback /\ t = c
         \/ /\ ~Has(CloseMarker, carry) /\ ~(parse_tools /\ Has(ToolMarker, carry))
            /\ ~(Len(carry) <= Holdback)
            /\ t = [EmitText(c, "reasoning", SubSeq(carry, 1, ready))
                      EXCEPT !.thinking_carry = From(ready + 1, carry)]
<1> DEFINE carry == s.thinking_carry \o w
           c == [s EXCEPT !.thinking_carry = carry]
<1>1. c.thinking_carry = carry
  BY DEF Streams
<1> QED BY <1>1 DEF OnReasoning

\* No marker is complete: what cannot be part of one is written.
Thought(s, t, w, e) ==
  /\ t \in Streams /\ e \in Str /\ s.thinking_carry \o w = e \o t.thinking_carry
  /\ e = <<>> \/ Len(t.thinking_carry) = Holdback
  /\ Len(t.thinking_carry) <= Holdback
  /\ t.connected <=> s.connected /\ (e = <<>> \/ open)
  /\ s.connected /\ open => t.reasoning = s.reasoning \o e
  /\ t.in_reasoning = s.in_reasoning
  /\ t.content = s.content /\ t.tool_carry = s.tool_carry
  /\ t.capturing = s.capturing /\ t.captured = s.captured
  /\ t.calls = s.calls /\ t.ending = s.ending

LEMMA ReasoningGoesOn ==
  ASSUME NEW s \in Streams, NEW w \in Str, open \in BOOLEAN,
         ~Has(CloseMarker, s.thinking_carry \o w),
         ~(parse_tools /\ Has(ToolMarker, s.thinking_carry \o w))
  PROVE  \E e : Thought(s, OnReasoning(s, w), w, e)
<1> DEFINE t == OnReasoning(s, w)
           carry == s.thinking_carry \o w
           c == [s EXCEPT !.thinking_carry = carry]
           ready == Len(carry) - Holdback
<1>1. carry \in Str /\ Len(carry) \in Nat /\ s.reasoning \in Str
  <2>1. s.thinking_carry \in Str /\ s.reasoning \in Str
    BY DEF Streams
  <2> QED BY <2>1, Joined, StrFacts
<1>2. \/ Len(carry) <= Holdback /\ t = c
      \/ /\ ~(Len(carry) <= Holdback)
         /\ t = [EmitText(c, "reasoning", SubSeq(carry, 1, ready))
                   EXCEPT !.thinking_carry = From(ready + 1, carry)]
  BY OnReasoningCases
<1> HIDE DEF t, carry
<1>3. /\ c \in Streams /\ c.thinking_carry = carry /\ c.connected = s.connected
      /\ c.reasoning = s.reasoning /\ c.content = s.content /\ c.tool_carry = s.tool_carry
      /\ c.capturing = s.capturing /\ c.captured = s.captured
      /\ c.calls = s.calls /\ c.ending = s.ending /\ c.in_reasoning = s.in_reasoning
  BY <1>1 DEF Streams
<1> HIDE DEF c
<1>4. CASE Len(carry) <= Holdback /\ t = c
  <2>1. <<>> \in Str /\ <<>> \o carry = carry /\ s.reasoning \o <<>> = s.reasoning
    BY <1>1, JoinAgain, EmptySeq DEF Str
  <2>2. Thought(s, t, w, <<>>)
    BY <1>3, <1>4, <2>1 DEF Thought, carry
  <2> QED BY <2>2 DEF t
<1>5. CASE /\ ~(Len(carry) <= Holdback)
           /\ t = [EmitText(c, "reasoning", SubSeq(carry, 1, ready))
                     EXCEPT !.thinking_carry = From(ready + 1, carry)]
  <2>1. ready \in Nat /\ ready + 1 \in 1..(Len(carry) + 1) /\ ready > 0 /\ (ready + 1) - 1 = ready
        /\ Len(carry) + 1 - (ready + 1) = Holdback
    BY <1>1, <1>5, HoldbackFacts
  <2> DEFINE e == SubSeq(carry, 1, ready)
             f == From(ready + 1, carry)
             u == EmitText(c, "reasoning", e)
  <2> HIDE DEF ready
  <2>2. e = Before(ready + 1, carry)
    BY <2>1 DEF Before
  <2>3. e \in Str /\ f \in Str /\ e \o f = carry /\ Len(e) = ready /\ Len(f) = Holdback
    BY <1>1, <2>1, <2>2, CutInTwo
  <2> HIDE DEF e, f
  <2>4. /\ Emitted(c, u, e) /\ u.content = c.content
        /\ c.connected /\ open => u.reasoning = c.reasoning \o e
    BY <1>3, <2>3, EmitTextFacts
  <2>5. t = [u EXCEPT !.thinking_carry = f]
    BY <1>5 DEF e, f
  <2> HIDE DEF u
  <2>6. /\ t \in Streams /\ t.thinking_carry = f /\ t.connected = u.connected
        /\ t.reasoning = u.reasoning /\ t.content = u.content
        /\ t.tool_carry = u.tool_carry /\ t.capturing = u.capturing
        /\ t.captured = u.captured /\ t.calls = u.calls /\ t.ending = u.ending
        /\ t.in_reasoning = u.in_reasoning
    BY <2>3, <2>4, <2>5 DEF Streams, Emitted
  <2>7. Len(f) <= Holdback
    BY <2>3, HoldbackFacts
  <2>8. Thought(s, t, w, e)
    BY <1>3, <2>3, <2>4, <2>6, <2>7 DEF Thought, Emitted, carry
  <2> QED BY <2>8 DEF t
<1> QED BY <1>2, <1>4, <1>5

\* A part of a text without the marker is without it.
LEMMA PartHasNone ==
  ASSUME NEW m \in Str, m # <<>>, NEW v \in Str, NEW w \in Str, ~Has(m, v \o w)
  PROVE  ~Has(m, v) /\ ~Has(m, w)
<1>1. v \o w \in Str /\ Len(v) \in Nat
  BY Joined, StrFacts
<1>2. \A i \in Nat : ~At(m, v \o w, i)
  BY <1>1, OccursAt
<1>3. \A i \in Nat : ~At(m, v, i)
  BY <1>2, AtJoined
<1>4. \A i \in Nat : Len(v) + i \in Nat
  BY <1>1
<1>5. \A i \in Nat : ~At(m, w, i)
  BY <1>2, <1>4, AtJoined
<1> QED BY <1>3, <1>5, OccursAt

\* A marker that a delta completes at the very front leaves less than itself
\* in front of the delta.
LEMMA FrontMarker ==
  ASSUME NEW m \in Str, m # <<>>, NEW v \in Str, NEW w \in Str,
         ~Has(m, v), Has(m, v \o w), Before(Find(m, v \o w), v \o w) = <<>>
  PROVE  Len(v) + 1 <= Len(m)
<1> DEFINE f == Find(m, v \o w)
<1>1. v \o w \in Str /\ Len(v) \in Nat /\ Len(m) \in Nat /\ Len(v \o w) \in Nat
  BY Joined, StrFacts
<1>2. f \in Nat /\ At(m, v \o w, f)
  BY <1>1, FindsFirst
<1>3. f \in 1..(Len(v \o w) + 1)
  BY <1>1, <1>2 DEF At
<1> HIDE DEF f
<1>4. Len(Before(f, v \o w)) = f - 1
  BY <1>1, <1>3, CutInTwo
<1>5. f = 1
  <2>1. Len(Before(f, v \o w)) = 0
    BY EmptySeq DEF f
  <2> QED BY <1>2, <1>4, <2>1
<1>6. ~At(m, v, 1)
  BY OccursAt
<1>7. ~(1 + Len(m) <= Len(v) + 1)
  BY <1>2, <1>5, <1>6, AtJoined
<1> QED BY <1>1, <1>7

\* A marker that was found leaves a place for a cut before and behind it.
LEMMA FoundInside ==
  ASSUME NEW m \in Str, m # <<>>, NEW w \in Str, Has(m, w)
  PROVE  /\ Find(m, w) \in 1..(Len(w) + 1)
         /\ Find(m, w) + Len(m) \in 1..(Len(w) + 1)
<1>1. Find(m, w) \in Nat /\ At(m, w, Find(m, w)) /\ Len(m) \in Nat /\ Len(w) \in Nat
  BY FindsFirst, StrFacts
<1> QED BY <1>1 DEF At

\* After the thoughts nothing is held back of them.
LEMMA LeftCarries ==
  ASSUME NEW s \in Streams, Carries(s), s.in_reasoning, NEW a, NEW u, Left(s, u, a)
  PROVE  /\ u \in Streams /\ Carries(u) /\ ~u.in_reasoning /\ ~u.capturing
         /\ u.tool_carry = <<>> /\ Silent(u) = Len(CloseMarker) /\ u.captured = 0
<1>1. Len(<<>>) = 0
  BY EmptySeq
<1>2. /\ u \in Streams /\ ~u.in_reasoning /\ ~u.capturing /\ u.tool_carry = <<>>
      /\ u.captured = 0 /\ u.thinking_carry = <<>>
  BY DEF Left, Carries
<1>3. Carries(u)
  BY <1>1, <1>2, Markers DEF Carries
<1>4. Silent(u) = Len(CloseMarker)
  BY <1>1, <1>2, Markers DEF Silent
<1> QED BY <1>2, <1>3, <1>4

LEMMA ReasonKeeps ==
  ASSUME NEW s \in Streams, Carries(s), s.in_reasoning, s.connected,
         NEW w \in Str, w # <<>>, open \in BOOLEAN
  PROVE  LET t == OnReasoning(s, w) IN
         /\ t \in Streams /\ Carries(t)
         /\ t.ending = s.ending /\ t.calls = s.calls
         /\ open => t.connected
         /\ t.connected /\ ~open => Silent(s) + 1 <= Silent(t)
<1> DEFINE t == OnReasoning(s, w)
           carry == s.thinking_carry \o w
           c == [s EXCEPT !.thinking_carry = carry]
<1>1. /\ s.thinking_carry \in Str /\ carry \in Str /\ Len(s.thinking_carry) \in Nat
      /\ Len(carry) = Len(s.thinking_carry) + Len(w) /\ Len(w) \in Nat /\ Len(w) > 0
  <2>1. s.thinking_carry \in Str
    BY DEF Streams
  <2>2. carry \in Str /\ Len(carry) = Len(s.thinking_carry) + Len(w)
    BY <2>1, Joined
  <2> QED BY <2>1, <2>2, StrFacts
<1>2. Silent(s) = Len(s.thinking_carry) /\ ~Has(CloseMarker, s.thinking_carry)
  BY DEF Silent, Carries
<1>3. CASE Has(CloseMarker, carry)
  <2> DEFINE i == Find(CloseMarker, carry)
             rest == TrimFront(From(i + Len(CloseMarker), carry))
  <2>1. i \in 1..(Len(carry) + 1) /\ i + Len(CloseMarker) \in 1..(Len(carry) + 1)
    BY <1>1, <1>3, FoundInside, Markers
  <2>2. t = LeaveReasoning(c, i, rest)
    BY <1>3, OnReasoningCases
  <2>3. rest \in Str
    <3> DEFINE j == i + Len(CloseMarker)
    <3>1. From(j, carry) \in Str
      <4> HIDE DEF j, carry
      <4> QED BY <1>1, <2>1, CutInTwo DEF j
    <3> QED BY <3>1, TrimSplits
  <2> HIDE DEF i, rest
  <2>4. PICK u : Left(s, u, Before(i, carry)) /\ t = EmitContent(u, rest)
    <3>1. /\ carry \in Str /\ c = [s EXCEPT !.thinking_carry = carry]
          /\ i \in 1..(Len(carry) + 1) /\ rest \in Str /\ open \in BOOLEAN /\ s \in Streams
      BY <1>1, <2>1, <2>3
    <3> HIDE DEF carry, c
    <3>2. \E u : Left(s, u, Before(i, carry)) /\ LeaveReasoning(c, i, rest) = EmitContent(u, rest)
      BY <3>1, ReasoningLeft
    <3> QED BY <2>2, <3>2
  <2>5. /\ u \in Streams /\ Carries(u) /\ ~u.in_reasoning /\ Silent(u) = Len(CloseMarker)
        /\ open => u.connected
        /\ u.ending = s.ending /\ u.calls = s.calls
    BY <2>4, LeftCarries DEF Left
  <2>6. /\ t \in Streams /\ Carries(t) /\ t.ending = u.ending /\ t.calls = u.calls
        /\ u.connected /\ open => t.connected
        /\ t.connected => u.connected
        /\ t.connected /\ ~open => Silent(u) <= Silent(t)
    BY <2>3, <2>4, <2>5, SayKeeps
  <2>7. ASSUME t.connected, ~open PROVE Silent(s) + 1 <= Silent(t)
    <3>1. Before(i, carry) = <<>>
      BY <2>4, <2>6, <2>7 DEF Left
    <3>2. Len(s.thinking_carry) + 1 <= Len(CloseMarker)
      BY <1>1, <1>2, <1>3, <3>1, FrontMarker, Markers DEF i
    <3>3. Silent(t) \in Nat
      BY <2>6, SilentBounded
    <3> QED BY <1>1, <1>2, <2>5, <2>6, <2>7, <3>2, <3>3, Markers
  <2> HIDE DEF t
  <2> QED BY <2>5, <2>6, <2>7 DEF t
<1>4. CASE ~Has(CloseMarker, carry) /\ parse_tools /\ Has(ToolMarker, carry)
  <2> DEFINE i == Find(ToolMarker, carry)
             rest == From(i, carry)
  <2>1. i \in 1..(Len(carry) + 1)
    BY <1>1, <1>4, FoundInside, Markers
  <2>2. t = LeaveReasoning(c, i, rest)
    BY <1>4, OnReasoningCases
  <2> HIDE DEF i
  <2>3. rest \in Str /\ Before(i, carry) \o rest = carry
    BY <1>1, <2>1, CutInTwo
  <2> HIDE DEF rest
  <2>4. PICK u : Left(s, u, Before(i, carry)) /\ t = EmitContent(u, rest)
    <3>1. /\ carry \in Str /\ c = [s EXCEPT !.thinking_carry = carry]
          /\ i \in 1..(Len(carry) + 1) /\ rest \in Str /\ open \in BOOLEAN /\ s \in Streams
      BY <1>1, <2>1, <2>3
    <3> HIDE DEF carry, c
    <3>2. \E u : Left(s, u, Before(i, carry)) /\ LeaveReasoning(c, i, rest) = EmitContent(u, rest)
      BY <3>1, ReasoningLeft
    <3> QED BY <2>2, <3>2
  <2>5. /\ u \in Streams /\ Carries(u) /\ ~u.in_reasoning /\ ~u.capturing /\ u.tool_carry = <<>>
        /\ open => u.connected
        /\ u.ending = s.ending /\ u.calls = s.calls
    BY <2>4, LeftCarries DEF Left
  <2>6. /\ t \in Streams /\ Carries(t) /\ ~t.in_reasoning
        /\ t.ending = u.ending /\ t.calls = u.calls
        /\ u.connected /\ open => t.connected
        /\ t.connected => u.connected
    BY <2>3, <2>4, <2>5, SayKeeps
  <2>7. ASSUME t.connected, ~open PROVE Silent(s) + 1 <= Silent(t)
    <3>1. Before(i, carry) = <<>>
      BY <2>4, <2>6, <2>7 DEF Left
    <3>2. ~Has(ToolMarker, s.thinking_carry)
      BY <1>4 DEF Carries
    <3>3. Len(s.thinking_carry) + 1 <= Len(ToolMarker)
      BY <1>1, <1>4, <3>1, <3>2, FrontMarker, Markers DEF i
    <3>4. rest = carry /\ u.tool_carry \o rest = carry
      BY <1>1, <2>3, <2>5, <3>1, JoinAgain
    <3>5. t.capturing
      <4>1. \E e : Split(u, t, rest, e)
        BY <1>4, <2>3, <2>4, <2>5, EmitContentSplits
      <4> QED BY <1>4, <3>4, <4>1 DEF Split
    <3>6. Silent(t) = Len(CloseMarker) + Len(ToolMarker) + t.captured /\ t.captured \in Nat
      BY <2>6, <3>5 DEF Silent, Streams
    <3> QED BY <1>1, <1>2, <3>3, <3>6, Markers
  <2> HIDE DEF t
  <2> QED BY <2>5, <2>6, <2>7 DEF t
<1>5. CASE ~Has(CloseMarker, carry) /\ ~(parse_tools /\ Has(ToolMarker, carry))
  <2>1. PICK e : Thought(s, t, w, e)
    BY <1>5, ReasoningGoesOn
  <2> HIDE DEF t
  <2>2. t \in Streams /\ e \in Str /\ t.thinking_carry \in Str /\ carry = e \o t.thinking_carry
    BY <2>1 DEF Thought, Streams
  <2>3. /\ ~Has(CloseMarker, t.thinking_carry)
        /\ parse_tools => ~Has(ToolMarker, t.thinking_carry)
    <3> HIDE DEF carry
    <3>1. ~Has(CloseMarker, t.thinking_carry)
      BY <1>5, <2>2, PartHasNone, Markers
    <3>2. parse_tools => ~Has(ToolMarker, t.thinking_carry)
      BY <1>5, <2>2, PartHasNone, Markers
    <3> QED BY <3>1, <3>2
  <2>4. Carries(t)
    BY <2>1, <2>3 DEF Thought, Carries
  <2>5. ASSUME t.connected, ~open PROVE Silent(s) + 1 <= Silent(t)
    <3>1. e = <<>>
      BY <2>1, <2>5 DEF Thought
    <3>2. t.thinking_carry = carry
      BY <2>2, <3>1, JoinAgain
    <3>3. Silent(t) = Len(carry)
      BY <2>1, <3>2 DEF Silent, Thought
    <3> QED BY <1>1, <1>2, <3>3
  <2> QED BY <2>1, <2>2, <2>4, <2>5 DEF Thought, t
<1> QED BY <1>3, <1>4, <1>5

\* Every delta, whatever the mode.
LEMMA DeltaKeeps ==
  ASSUME NEW s \in Streams, Carries(s), s.connected, NEW w \in Str, w # <<>>, open \in BOOLEAN
  PROVE  LET t == OnDelta(s, w) IN
         /\ t \in Streams /\ Carries(t)
         /\ t.ending = s.ending /\ t.calls = s.calls
         /\ open => t.connected
         /\ t.connected /\ ~open => Silent(s) + 1 <= Silent(t)
<1>1. CASE ~mode.chat
  <2>1. OnDelta(s, w) = EmitContent(s, w) /\ ~s.in_reasoning
    BY <1>1 DEF OnDelta, EmitContent, parse_tools, Carries
  <2> QED BY <2>1, SayKeeps
<1>2. CASE mode.chat /\ s.in_reasoning
  <2>1. OnDelta(s, w) = OnReasoning(s, w)
    BY <1>2 DEF OnDelta
  <2> QED BY <1>2, <2>1, ReasonKeeps
<1>3. CASE mode.chat /\ ~s.in_reasoning
  <2>1. OnDelta(s, w) = EmitContent(s, w)
    BY <1>3 DEF OnDelta
  <2> QED BY <1>3, <2>1, SayKeeps
<1> QED BY <1>1, <1>2, <1>3

LEMMA NatMaximum ==
  ASSUME NEW T, T \subseteq Nat, T # {}, NEW n \in Nat, \A x \in T : x <= n
  PROVE  \E m \in T : \A x \in T : m >= x
<1> DEFINE U == {n - x : x \in T}
<1>1. U \subseteq Nat /\ U # {}
  <2>1. ASSUME NEW x \in T PROVE n - x \in Nat
    BY <2>1
  <2> QED BY <2>1
<1>2. PICK u \in U : \A v \in U : u <= v
  BY <1>1, NatMinimum
<1>3. PICK m \in T : u = n - m
  BY <1>2
<1>4. ASSUME NEW x \in T PROVE m >= x
  <2>1. n - m <= n - x /\ m \in Nat /\ x \in Nat
    BY <1>2, <1>3
  <2> QED BY <2>1
<1> QED BY <1>4

\* The ends of the printing characters of a text.
LEMMA PrintingEnds ==
  ASSUME NEW w \in Str, Printing(w) # {}
  PROVE  LET i == Min(Printing(w))
             j == Max(Printing(w))
         IN  /\ i \in 1..Len(w) /\ j \in 1..Len(w) /\ i <= j
             /\ w[i] # Space /\ w[j] # Space
             /\ \A k \in 1..Len(w) : w[k] # Space => i <= k /\ k <= j
<1>1. Len(w) \in Nat /\ Printing(w) = {k \in 1..Len(w) : w[k] # Space}
  BY StrFacts DEF Printing
<1>2. Printing(w) \subseteq Nat /\ \A x \in Printing(w) : x <= Len(w)
  BY <1>1
<1>3. \E i \in Printing(w) : \A x \in Printing(w) : i <= x
  BY <1>2, NatMinimum
<1>4. \E j \in Printing(w) : \A x \in Printing(w) : j >= x
  BY <1>1, <1>2, NatMaximum
<1> DEFINE i == Min(Printing(w))
           j == Max(Printing(w))
<1>5. i \in Printing(w) /\ \A x \in Printing(w) : i <= x
  BY <1>3 DEF Min
<1>6. j \in Printing(w) /\ \A x \in Printing(w) : j >= x
  BY <1>4 DEF Max
<1> HIDE DEF i, j
<1>7. i \in Nat /\ j \in Nat /\ i <= j
  BY <1>2, <1>5, <1>6
<1>8. \A k \in 1..Len(w) : w[k] # Space => i <= k /\ k <= j
  BY <1>1, <1>5, <1>6, <1>7
<1> QED BY <1>1, <1>5, <1>6, <1>7, <1>8 DEF i, j

LEMMA TrimTyped == ASSUME NEW w \in Str PROVE Trim(w) \in Str
<1>1. CASE Printing(w) = {}
  BY <1>1, EmptySeq DEF Trim, Str
<1>2. CASE Printing(w) # {}
  <2> DEFINE i == Min(Printing(w))
             j == Max(Printing(w))
  <2>1. i \in 1..Len(w) /\ j \in 1..Len(w) /\ i <= j
    BY <1>2, PrintingEnds
  <2>2. Trim(w) = SubSeq(w, i, j)
    BY <1>2 DEF Trim
  <2> HIDE DEF i, j
  <2>3. i \in Nat /\ i >= 1 /\ j \in Nat /\ i <= j + 1 /\ j <= Len(w)
    BY <2>1, StrFacts
  <2> QED BY <2>2, <2>3, Piece
<1> QED BY <1>1, <1>2

LEMMA ParsedTyped ==
  ASSUME NEW w \in Str
  PROVE  ParseToolOutput(w).content \in Str /\ ParseToolOutput(w).calls \in Nat
<1>1. \A v : CallsIn(v) = 0 \/ CallsIn(v) = Cardinality(Occurrences(Call, v))
  BY DEF CallsIn
<1>2. ASSUME NEW v \in Str PROVE CallsIn(v) \in Nat
  <2>1. Call \in Str /\ Len(Call) \in Nat /\ Len(v) \in Nat
    <3>1. Call \in Seq(Characters)
      BY Markers, ApiStreamAssumption, AppendProperties DEF Call, Str
    <3> QED BY <3>1, StrFacts DEF Str
  <2> DEFINE n == Len(v) + 1 - Len(Call)
  <2>2. n \in Int
    BY <2>1
  <2>3. Occurrences(Call, v) \subseteq 1..n
    BY DEF Occurrences
  <2> HIDE DEF n
  <2>4. IsFiniteSet(1..n)
    BY <2>2, FS_Interval
  <2>5. Cardinality(Occurrences(Call, v)) \in Nat
    BY <2>3, <2>4, FS_Subset, FS_CardinalityType
  <2> QED BY <1>1, <2>5
<1> DEFINE i == Find(ToolMarker, w)
<1>3. Has(ToolMarker, w) => From(i, w) \in Str /\ Before(i, w) \in Str
  <2>1. Has(ToolMarker, w) => i \in 1..(Len(w) + 1)
    BY FoundInside, Markers
  <2> HIDE DEF i
  <2> QED BY <2>1, CutInTwo
<1> DEFINE calls == IF Has(ToolMarker, w) THEN CallsIn(From(i, w)) ELSE 0
<1>4. calls \in Nat /\ (calls # 0 => Has(ToolMarker, w))
  BY <1>2, <1>3
<1>5. ParseToolOutput(w) = [content |-> IF calls = 0 THEN Trim(w) ELSE Trim(Before(i, w)),
                            calls |-> calls]
  BY DEF ParseToolOutput
<1> HIDE DEF calls, i
<1>6. Trim(w) \in Str /\ (calls # 0 => Trim(Before(i, w)) \in Str)
  BY <1>3, <1>4, TrimTyped
<1> QED BY <1>4, <1>5, <1>6

LEMMA EmitCallsFacts ==
  ASSUME NEW s \in Streams, NEW n \in Nat, open \in BOOLEAN
  PROVE  LET t == EmitCalls(s, n) IN
         /\ t \in Streams
         /\ s.connected /\ open => t.connected
         /\ t.in_reasoning = s.in_reasoning /\ t.capturing = s.capturing
         /\ t.captured = s.captured /\ t.thinking_carry = s.thinking_carry
         /\ t.tool_carry = s.tool_carry /\ t.ending = s.ending
         /\ t.reasoning = s.reasoning /\ t.content = s.content
         /\ s.connected /\ open /\ n # 0 => t.calls = n
         /\ n = 0 => t = s
<1>1. CASE n = 0
  BY <1>1 DEF EmitCalls
<1>2. CASE n # 0 /\ s.connected /\ open
  <2>1. EmitCalls(s, n) = [s EXCEPT !.calls = n]
    BY <1>2, SinkFacts DEF EmitCalls
  <2> QED BY <1>2, <2>1 DEF Streams
<1>3. CASE n # 0 /\ ~(s.connected /\ open)
  <2>1. EmitCalls(s, n) = Sink(s)
    BY <1>3, SinkFacts DEF EmitCalls
  <2> QED BY <1>3, <2>1, SinkFacts
<1> QED BY <1>1, <1>2, <1>3

LEMMA FlushKeeps ==
  ASSUME NEW s \in Streams, Carries(s), open \in BOOLEAN
  PROVE  LET t == Flush(s) IN
         /\ t \in Streams /\ Carries(t) /\ t.ending = s.ending
         /\ s.connected /\ open => t.connected
<1> DEFINE thought == IF s.in_reasoning THEN EmitText(s, "reasoning", s.thinking_carry) ELSE s
           parsed == ParseToolOutput(s.tool_carry)
           Like(t) == /\ t \in Streams
                      /\ s.connected /\ open => t.connected
                      /\ t.in_reasoning = s.in_reasoning /\ t.capturing = s.capturing
                      /\ t.captured = s.captured /\ t.thinking_carry = s.thinking_carry
                      /\ t.tool_carry = s.tool_carry /\ t.ending = s.ending
<1>1. s.thinking_carry \in Str /\ s.tool_carry \in Str
  BY DEF Streams
<1>2. parsed.content \in Str /\ parsed.calls \in Nat
  BY <1>1, ParsedTyped
<1> HIDE DEF parsed
<1>3. Like(thought)
  <2>1. Emitted(s, EmitText(s, "reasoning", s.thinking_carry), s.thinking_carry)
    BY <1>1, EmitTextFacts
  <2> QED BY <2>1 DEF Emitted
<1> HIDE DEF thought
<1>4. ASSUME NEW t, Like(t), NEW w \in Str PROVE Like(EmitText(t, "content", w))
  <2>1. Emitted(t, EmitText(t, "content", w), w)
    BY <1>4, EmitTextFacts
  <2> QED BY <1>4, <2>1 DEF Emitted
<1>5. ASSUME NEW t, Like(t), NEW n \in Nat PROVE Like(EmitCalls(t, n))
  BY <1>5, EmitCallsFacts
<1>6. \A t : Like(t) => Carries(t)
  BY DEF Carries
<1>7. \/ Flush(s) = thought
      \/ Flush(s) = EmitCalls(EmitText(thought, "content", parsed.content), parsed.calls)
      \/ Flush(s) = EmitText(thought, "content", s.tool_carry)
  BY DEF Flush, thought, parsed
<1>8. Like(Flush(s))
  <2> HIDE DEF Like
  <2> QED BY <1>1, <1>2, <1>3, <1>4, <1>5, <1>7
<1> QED BY <1>6, <1>8

-----------------------------------------------------------------------------
(***************************************************************************)
(* The request.  A client that is there has missed nothing; one that has   *)
(* gone has missed at most what the closure holds back in silence.         *)
(***************************************************************************)

RequestTyped ==
  /\ pc \in {"idle", "accepted", "refused", "streaming", "finish", "error",
             "done", "blocking"}
  /\ mode \in Modes /\ open \in BOOLEAN /\ stream \in Streams /\ text \in Str
  /\ room \in Nat /\ late \in Nat /\ total \in Nat /\ active \in Nat /\ cancelled \in Nat

ClientServed ==
  /\ open => stream.connected /\ late = 0
  /\ pc = "refused" => ~open
  /\ pc = "accepted" => late = 0
  /\ pc = "streaming" /\ stream.connected => late <= Silent(stream)

EndingSoFar ==
  /\ pc \in {"accepted", "refused", "streaming", "finish", "error", "blocking"} =>
       stream.ending = <<>>
  /\ pc = "done" /\ open => stream.ending \in {<<"finish">>, <<"error">>}

StreamInv ==
  /\ RequestTyped /\ Carries(stream) /\ ClientServed /\ EndingSoFar
  /\ CountersSettle /\ EndsWithDone /\ LateBounded

LEMMA InvShows == StreamInv => StreamSettles /\ LateBounded
<1> SUFFICES ASSUME StreamInv PROVE TypeOK
  BY DEF StreamInv, StreamSettles
<1>1. RequestTyped /\ Carries(stream)
  BY DEF StreamInv
<1>2. stream.in_reasoning =>
        Len(stream.thinking_carry) <
          IF parse_tools THEN Max({Len(CloseMarker), Len(ToolMarker)}) ELSE Len(CloseMarker)
  <2> DEFINE m == IF parse_tools THEN Max({Len(CloseMarker), Len(ToolMarker)})
                  ELSE Len(CloseMarker)
  <2>1. Holdback \in Nat /\ Holdback + 1 = m
    BY HoldbackFacts
  <2> HIDE DEF m
  <2>2. stream.thinking_carry \in Str
    BY <1>1 DEF RequestTyped, Streams
  <2>3. stream.in_reasoning => Len(stream.thinking_carry) <= Holdback
    BY <1>1 DEF Carries
  <2>4. stream.in_reasoning => Len(stream.thinking_carry) < m
    BY <2>1, <2>2, <2>3, StrFacts
  <2> QED BY <2>4 DEF m
<1>3. ~stream.capturing => Len(stream.tool_carry) < Len(ToolMarker)
  BY <1>1 DEF Carries
<1> QED BY <1>1, <1>2, <1>3 DEF TypeOK, RequestTyped

\* A request begins with nothing held back.
LEMMA NewFacts ==
  ASSUME NEW m \in Modes
  PROVE  LET n == NewStream(m) IN
         /\ n \in Streams /\ n.connected /\ n.ending = <<>>
         /\ n.in_reasoning = (m.chat /\ m.thinking)
         /\ n.thinking_carry = <<>> /\ n.tool_carry = <<>> /\ ~n.capturing
         /\ n.captured = 0 /\ n.reasoning = <<>> /\ n.content = <<>> /\ n.calls = 0
<1>1. m.chat \in BOOLEAN /\ m.thinking \in BOOLEAN
  BY DEF Modes
<1>2. <<>> \in Str /\ <<>> \in Seq({"finish", "error", "done"}) /\ 0 \in 0..(KeepAlive - 1)
  BY EmptySeq, Markers DEF Str
<1>3. NewStream(m) \in Streams
  BY <1>1, <1>2 DEF NewStream, Streams
<1> QED BY <1>3 DEF NewStream

LEMMA NothingHeld ==
  /\ Len(<<>>) = 0 /\ 0 < Len(ToolMarker)
  /\ ~Has(CloseMarker, <<>>) /\ ~Has(ToolMarker, <<>>)
<1>1. Len(<<>>) = 0
  BY EmptySeq
<1> QED BY <1>1, Markers DEF Has

LEMMA StreamStarts == Init => StreamInv
<1> SUFFICES ASSUME Init PROVE StreamInv
  OBVIOUS
<1>1. mode \in Modes /\ open = FALSE /\ pc = "idle"
  BY DEF Init, Modes
<1>2. <<>> \in Str
  BY EmptySeq DEF Str
<1>3. stream \in Streams /\ Carries(stream)
  <2>1. /\ stream \in Streams /\ stream.in_reasoning = (mode.chat /\ mode.thinking)
        /\ stream.thinking_carry = <<>> /\ stream.tool_carry = <<>> /\ ~stream.capturing
        /\ stream.captured = 0
    BY <1>1, NewFacts DEF Init
  <2>2. mode.chat = FALSE
    BY DEF Init
  <2>3. stream.in_reasoning = FALSE
    BY <2>1, <2>2
  <2> QED BY <2>1, <2>3, NothingHeld DEF Carries
<1>4. RequestTyped
  BY <1>1, <1>2, <1>3 DEF RequestTyped, Init
<1>5. CountersSettle /\ LateBounded
  BY Markers DEF Init, CountersSettle, LateBounded
<1> QED BY <1>1, <1>3, <1>4, <1>5 DEF StreamInv, ClientServed, EndingSoFar, EndsWithDone

\* The same mode reads the same carries.
LEMMA CarriesStay ==
  ASSUME mode' = mode, Carries(stream')
  PROVE  Carries(stream)'
<1>1. Holdback' = Holdback /\ (parse_tools' <=> parse_tools)
  BY DEF Holdback, parse_tools
<1> QED BY <1>1 DEF Carries

LEMMA BeginKeeps == ASSUME StreamInv, NEW m \in Modes, Begin(m) PROVE StreamInv'
<1>1. /\ pc' = "accepted" /\ mode' = m /\ open' = TRUE /\ stream' = NewStream(m)
      /\ text' = <<>> /\ room' = MaxText /\ late' = 0 /\ pc = "idle"
      /\ total' = total /\ active' = active /\ cancelled' = cancelled
  BY DEF Begin, counters
<1>2. /\ stream' \in Streams /\ stream'.connected /\ stream'.ending = <<>>
      /\ stream'.in_reasoning = (m.chat /\ m.thinking)
      /\ stream'.thinking_carry = <<>> /\ stream'.tool_carry = <<>> /\ ~stream'.capturing
      /\ stream'.captured = 0
  BY <1>1, NewFacts
<1>3. Carries(stream)'
  <2>1. (Holdback \in Nat)'
    <3>1. Max({Len(CloseMarker), Len(ToolMarker)}) - 1 \in Nat /\ Len(CloseMarker) - 1 \in Nat
      BY MarkerSizes, Markers
    <3> QED BY <3>1 DEF Holdback
  <2>2. 0 <= Holdback'
    BY <2>1
  <2> QED BY <1>1, <1>2, <2>2, NothingHeld DEF Carries
<1>4. RequestTyped'
  <2>1. <<>> \in Str /\ MaxText \in Nat
    BY ApiStreamAssumption, EmptySeq DEF Str
  <2> QED BY <1>1, <1>2, <2>1 DEF StreamInv, RequestTyped
<1>5. CountersSettle' /\ LateBounded'
  BY <1>1, Markers DEF StreamInv, CountersSettle, LateBounded
<1> QED BY <1>1, <1>2, <1>3, <1>4, <1>5 DEF StreamInv, ClientServed, EndingSoFar, EndsWithDone

\* The steps that change nothing the client sees.
LEMMA QuietStep ==
  ASSUME StreamInv, HeaderFails \/ FinishRefused \/ Throws \/ Block \/ Unblock
  PROVE  StreamInv'
<1>1. /\ mode' = mode /\ stream' = stream /\ text' = text /\ room' = room /\ late' = late
      /\ open' \in BOOLEAN /\ (open' => open)
  <2>1. mode' = mode /\ stream' = stream /\ text' = text /\ room' = room /\ late' = late
    BY DEF HeaderFails, FinishRefused, Throws, Block, Unblock
  <2>2. open' = open \/ open' = FALSE
    BY DEF HeaderFails, FinishRefused, Throws, Block, Unblock
  <2>3. open \in BOOLEAN
    BY DEF StreamInv, RequestTyped
  <2>4. open' \in BOOLEAN
    BY <2>2, <2>3
  <2> QED BY <2>1, <2>2, <2>4
<1>2. Carries(stream)'
  <2>1. Carries(stream')
    BY <1>1 DEF StreamInv
  <2> QED BY <1>1, <2>1, CarriesStay
<1>3. /\ pc' \in {"idle", "error", "blocking"} /\ CountersSettle'
      /\ total' \in Nat /\ active' \in Nat /\ cancelled' \in Nat
  BY DEF StreamInv, RequestTyped, CountersSettle, HeaderFails, FinishRefused, Throws, Block,
         Unblock, RequestStarted, RequestFinished, counters
<1>4. RequestTyped' /\ LateBounded'
  BY <1>1, <1>3 DEF StreamInv, RequestTyped, LateBounded
<1>5. ClientServed'
  BY <1>1, <1>3 DEF StreamInv, ClientServed
<1>6. EndingSoFar'
  <2>1. pc' # "idle" => pc \in {"streaming", "accepted"}
    BY DEF HeaderFails, FinishRefused, Throws, Block, Unblock
  <2> QED BY <1>1, <1>3, <2>1 DEF StreamInv, EndingSoFar
<1>7. EndsWithDone'
  <2>1. pc' = "idle" => ~open'
    BY DEF StreamInv, ClientServed, HeaderFails, FinishRefused, Throws, Block, Unblock
  <2> QED BY <2>1 DEF EndsWithDone
<1> QED BY <1>2, <1>3, <1>4, <1>5, <1>6, <1>7 DEF StreamInv

LEMMA DisconnectKeeps == ASSUME StreamInv, Disconnect PROVE StreamInv'
<1>1. /\ pc' = pc /\ pc # "idle" /\ mode' = mode /\ open' = FALSE /\ open /\ text' = <<>>
      /\ room' = room
      /\ late' = late /\ total' = total /\ active' = active /\ cancelled' = cancelled
      /\ stream' = [stream EXCEPT !.reasoning = <<>>, !.content = <<>>]
  BY DEF Disconnect, counters
<1>2. <<>> \in Str
  BY EmptySeq DEF Str
<1>3. stream \in Streams
  BY DEF StreamInv, RequestTyped
<1>4. /\ stream' \in Streams /\ stream'.connected = stream.connected
      /\ stream'.in_reasoning = stream.in_reasoning /\ stream'.capturing = stream.capturing
      /\ stream'.thinking_carry = stream.thinking_carry
      /\ stream'.tool_carry = stream.tool_carry
      /\ stream'.captured = stream.captured /\ stream'.ending = stream.ending
  BY <1>1, <1>2, <1>3 DEF Streams
<1>5. Carries(stream)'
  <2>1. Carries(stream')
    BY <1>4 DEF StreamInv, Carries
  <2> QED BY <1>1, <2>1, CarriesStay
<1>6. Silent(stream)' = Silent(stream)
  BY <1>4 DEF Silent
<1>7. RequestTyped' /\ CountersSettle' /\ LateBounded'
  BY <1>1, <1>2, <1>4 DEF StreamInv, RequestTyped, CountersSettle, LateBounded
<1>8. ClientServed' /\ EndingSoFar' /\ EndsWithDone'
  BY <1>1, <1>4, <1>6 DEF StreamInv, ClientServed, EndingSoFar, EndsWithDone
<1> QED BY <1>5, <1>7, <1>8 DEF StreamInv

LEMMA StartKeeps == ASSUME StreamInv, Start PROVE StreamInv'
<1>1. /\ pc = "accepted" /\ mode' = mode /\ open' = open /\ text' = text /\ room' = room
      /\ late' = late /\ total' = total + 1 /\ active' = active + 1 /\ cancelled' = cancelled
      /\ pc' = IF stream'.connected THEN "streaming" ELSE "refused"
      /\ stream' = IF mode.chat THEN Sink(stream) ELSE stream
  BY DEF Start, RequestStarted
<1>2. stream \in Streams /\ open \in BOOLEAN /\ Carries(stream) /\ stream.ending = <<>>
      /\ late = 0 /\ (open => stream.connected)
  BY <1>1 DEF StreamInv, RequestTyped, EndingSoFar, ClientServed
<1>3. /\ stream' \in Streams /\ (open => stream'.connected)
      /\ stream'.in_reasoning = stream.in_reasoning /\ stream'.capturing = stream.capturing
      /\ stream'.thinking_carry = stream.thinking_carry
      /\ stream'.tool_carry = stream.tool_carry
      /\ stream'.captured = stream.captured /\ stream'.ending = stream.ending
  <2>1. CASE mode.chat
    BY <1>1, <1>2, <2>1, SinkFacts
  <2>2. CASE ~mode.chat
    BY <1>1, <1>2, <2>2
  <2> QED BY <2>1, <2>2
<1>4. Carries(stream')
  BY <1>2, <1>3 DEF Carries
<1>5. Carries(stream)'
  BY <1>1, <1>4, CarriesStay
<1>6. Silent(stream') \in Nat
  BY <1>3, <1>4, SilentBounded
<1>7. RequestTyped' /\ CountersSettle' /\ LateBounded'
  BY <1>1, <1>3 DEF StreamInv, RequestTyped, CountersSettle, LateBounded
<1>8. ClientServed'
  <2>1. 0 <= Silent(stream')
    BY <1>6
  <2> QED BY <1>1, <1>2, <1>3, <2>1 DEF ClientServed, Silent
<1>9. EndingSoFar' /\ EndsWithDone'
  BY <1>1, <1>2, <1>3 DEF EndingSoFar, EndsWithDone
<1> QED BY <1>5, <1>7, <1>8, <1>9 DEF StreamInv

LEMMA DeltaHolds == ASSUME StreamInv, NEW w \in Deltas, Delta(w) PROVE StreamInv'
<1>1. /\ pc = "streaming" /\ stream.connected /\ Len(w) <= room /\ room' = room - Len(w)
      /\ stream' = OnDelta(stream, w) /\ pc' = pc /\ mode' = mode /\ open' = open
      /\ total' = total /\ active' = active /\ cancelled' = cancelled
      /\ open => text' = text \o w /\ late' = late
      /\ ~open => late' = late + 1 /\ text' = text
  BY DEF Delta, counters
<1>2. w \in Str /\ w # <<>> /\ Len(w) \in Nat
  BY ApiStreamAssumption DEF Str
<1>3. /\ stream \in Streams /\ open \in BOOLEAN /\ Carries(stream) /\ stream.ending = <<>>
      /\ late <= Silent(stream) /\ late \in Nat /\ text \in Str /\ room \in Nat
      /\ (open => late = 0)
  BY <1>1 DEF StreamInv, RequestTyped, EndingSoFar, ClientServed
<1>4. /\ stream' \in Streams /\ Carries(stream')
      /\ stream'.ending = stream.ending
      /\ open => stream'.connected
      /\ stream'.connected /\ ~open => Silent(stream) + 1 <= Silent(stream')
  BY <1>1, <1>2, <1>3, DeltaKeeps
<1>5. Carries(stream)'
  BY <1>1, <1>4, CarriesStay
<1>6. /\ Silent(stream) \in Nat /\ Silent(stream') \in Nat
      /\ Silent(stream) + 1 <= Len(CloseMarker) + Len(ToolMarker) + KeepAlive
  BY <1>3, <1>4, SilentBounded
<1>7. /\ late' \in Nat /\ late' <= Len(CloseMarker) + Len(ToolMarker) + KeepAlive
      /\ stream'.connected => late' <= Silent(stream')
  <2>1. CASE open
    BY <1>1, <1>3, <1>6, <2>1, Markers
  <2>2. CASE ~open
    BY <1>1, <1>3, <1>4, <1>6, <2>2, Markers
  <2> QED BY <2>1, <2>2, <1>3
<1>8. text' \in Str
  <2>1. text \o w \in Str
    BY <1>2, <1>3, Joined
  <2> QED BY <1>1, <1>3, <2>1
<1>9. RequestTyped' /\ CountersSettle'
  <2>1. room' \in Nat
    BY <1>1, <1>2, <1>3
  <2> QED BY <1>1, <1>4, <1>7, <1>8, <2>1 DEF StreamInv, RequestTyped, CountersSettle
<1>10. ClientServed' /\ LateBounded'
  <2>1. Silent(stream)' = Silent(stream')
    BY DEF Silent
  <2> QED BY <1>1, <1>3, <1>4, <1>7, <2>1 DEF ClientServed, LateBounded
<1>11. EndingSoFar' /\ EndsWithDone'
  BY <1>1, <1>3, <1>4 DEF EndingSoFar, EndsWithDone
<1> QED BY <1>5, <1>9, <1>10, <1>11 DEF StreamInv

LEMMA EmitEventFacts ==
  ASSUME NEW s \in Streams, open \in BOOLEAN, NEW e \in {"finish", "error", "done"}
  PROVE  LET t == EmitEvent(s, e) IN
         /\ t \in Streams /\ (t.connected <=> s.connected /\ open)
         /\ t.in_reasoning = s.in_reasoning /\ t.capturing = s.capturing
         /\ t.thinking_carry = s.thinking_carry /\ t.tool_carry = s.tool_carry
         /\ t.captured = s.captured
         /\ s.connected /\ open => t.ending = Append(s.ending, e)
<1>1. CASE s.connected /\ open
  <2>1. EmitEvent(s, e) = [s EXCEPT !.ending = Append(@, e)]
    BY <1>1, SinkFacts DEF EmitEvent
  <2>2. Append(s.ending, e) \in Seq({"finish", "error", "done"})
    BY DEF Streams
  <2> QED BY <1>1, <2>1, <2>2 DEF Streams
<1>2. CASE ~(s.connected /\ open)
  <2>1. EmitEvent(s, e) = Sink(s)
    BY <1>2, SinkFacts DEF EmitEvent
  <2> QED BY <1>2, <2>1, SinkFacts
<1> QED BY <1>1, <1>2

LEMMA CompleteHolds == ASSUME StreamInv, Complete PROVE StreamInv'
<1>1. /\ pc = "streaming" /\ pc' = "finish" /\ stream' = Flush(stream) /\ mode' = mode
      /\ open' = open /\ text' = text /\ room' = room /\ late' = late
      /\ total' = total /\ active' = active - 1
      /\ cancelled' \in {cancelled, cancelled + 1}
  BY DEF Complete, RequestFinished
<1>2. /\ stream \in Streams /\ open \in BOOLEAN /\ Carries(stream) /\ stream.ending = <<>>
      /\ (open => stream.connected /\ late = 0)
  BY <1>1 DEF StreamInv, RequestTyped, EndingSoFar, ClientServed
<1>3. /\ stream' \in Streams /\ Carries(stream') /\ stream'.ending = <<>>
      /\ (open => stream'.connected)
  BY <1>1, <1>2, FlushKeeps
<1>4. Carries(stream)'
  BY <1>1, <1>3, CarriesStay
<1>5. RequestTyped' /\ CountersSettle' /\ LateBounded'
  <2>1. /\ total \in Nat /\ active = 1 /\ cancelled \in Nat /\ cancelled + active <= total
        /\ mode \in Modes /\ text \in Str /\ room \in Nat /\ late \in Nat
    BY <1>1 DEF StreamInv, RequestTyped, CountersSettle
  <2>2. /\ active' = 0 /\ total' \in Nat /\ cancelled' \in Nat
        /\ cancelled' + active' <= total'
    <3>1. total' = total /\ active' = 1 - 1
      BY <1>1, <2>1
    <3>2. CASE cancelled' = cancelled
      BY <2>1, <3>1, <3>2
    <3>3. CASE cancelled' = cancelled + 1
      BY <2>1, <3>1, <3>3
    <3> QED BY <1>1, <3>2, <3>3
  <2>3. /\ pc' = "finish" /\ mode' = mode /\ open' = open /\ text' = text /\ room' = room
        /\ late' = late
    BY <1>1
  <2>4. LateBounded'
    BY <2>3 DEF StreamInv, LateBounded
  <2>5. CountersSettle'
    BY <2>2, <2>3 DEF CountersSettle
  <2>6. RequestTyped'
    BY <1>2, <1>3, <2>1, <2>2, <2>3 DEF RequestTyped
  <2> QED BY <2>4, <2>5, <2>6
<1>6. ClientServed' /\ EndingSoFar' /\ EndsWithDone'
  BY <1>1, <1>2, <1>3 DEF ClientServed, EndingSoFar, EndsWithDone
<1> QED BY <1>4, <1>5, <1>6 DEF StreamInv

LEMMA TwoEvents ==
  /\ Append(<<"finish">>, "done") = <<"finish", "done">>
  /\ Append(<<"error">>, "done") = <<"error", "done">>
<1>1. ASSUME NEW S, NEW x \in S, NEW y \in S PROVE Append(<<x>>, y) = <<x, y>>
  <2>1. <<x>> \in Seq(S) /\ Len(<<x>>) = 1 /\ <<x>>[1] = x
    OBVIOUS
  <2>2. <<x, y>> \in Seq(S) /\ Len(<<x, y>>) = 2 /\ <<x, y>>[1] = x /\ <<x, y>>[2] = y
    OBVIOUS
  <2>3. /\ Append(<<x>>, y) \in Seq(S) /\ Len(Append(<<x>>, y)) = 2
        /\ Append(<<x>>, y)[1] = x /\ Append(<<x>>, y)[2] = y
    BY <2>1, AppendProperties
  <2> DEFINE a == Append(<<x>>, y)
             b == <<x, y>>
  <2>4. \A i \in 1..Len(a) : a[i] = b[i]
    BY <2>2, <2>3
  <2>5. a \in Seq(S) /\ b \in Seq(S) /\ Len(a) = Len(b)
    BY <2>2, <2>3
  <2> HIDE DEF a, b
  <2>6. a = b
    BY <2>4, <2>5, SeqEqual
  <2> QED BY <2>6 DEF a, b
<1> DEFINE S == {"finish", "error", "done"}
<1>2. "finish" \in S /\ "error" \in S /\ "done" \in S
  OBVIOUS
<1> HIDE DEF S
<1> QED BY <1>1, <1>2

LEMMA EndingHolds == ASSUME StreamInv, EmitEnding \/ Done PROVE StreamInv'
<1>1. /\ mode' = mode /\ open' = open /\ text' = text /\ room' = room /\ late' = late
      /\ total' = total /\ active' = active /\ cancelled' = cancelled
      /\ pc \in {"finish", "error", "done"} /\ pc' \in {"done", "idle"}
  BY DEF EmitEnding, Done, counters
<1>2. stream \in Streams /\ open \in BOOLEAN /\ Carries(stream)
      /\ (open => stream.connected /\ late = 0)
  BY DEF StreamInv, RequestTyped, ClientServed
<1>3. /\ stream' \in Streams /\ (open => stream'.connected)
      /\ stream'.in_reasoning = stream.in_reasoning /\ stream'.capturing = stream.capturing
      /\ stream'.thinking_carry = stream.thinking_carry
      /\ stream'.tool_carry = stream.tool_carry
      /\ stream'.captured = stream.captured
  BY <1>1, <1>2, EmitEventFacts DEF EmitEnding, Done
<1>4. pc' = "done" /\ open => stream'.ending \in {<<"finish">>, <<"error">>}
  <2> SUFFICES ASSUME pc' = "done", open PROVE stream'.ending \in {<<"finish">>, <<"error">>}
    OBVIOUS
  <2>1. pc \in {"finish", "error"} /\ stream' = EmitEvent(stream, pc)
    BY DEF EmitEnding, Done
  <2>2. stream.ending = <<>>
    BY <2>1 DEF StreamInv, EndingSoFar
  <2>3. stream'.ending = Append(<<>>, pc)
    BY <1>2, <2>1, <2>2, EmitEventFacts
  <2> QED BY <2>1, <2>3
<1>5. pc' = "idle" /\ open =>
        stream'.ending \in {<<"finish", "done">>, <<"error", "done">>}
  <2> SUFFICES ASSUME pc' = "idle", open
               PROVE  stream'.ending \in {<<"finish", "done">>, <<"error", "done">>}
    OBVIOUS
  <2>1. pc = "done" /\ stream' = EmitEvent(stream, "done")
    BY <1>2 DEF EmitEnding, Done
  <2>2. stream.ending \in {<<"finish">>, <<"error">>}
    BY <2>1 DEF StreamInv, EndingSoFar
  <2>3. stream'.ending = Append(stream.ending, "done")
    BY <1>2, <2>1, EmitEventFacts
  <2>4. CASE stream.ending = <<"finish">>
    BY <2>3, <2>4, TwoEvents
  <2>5. CASE stream.ending = <<"error">>
    BY <2>3, <2>5, TwoEvents
  <2> QED BY <2>2, <2>4, <2>5
<1>6. Carries(stream)'
  <2>1. Carries(stream')
    BY <1>2, <1>3 DEF Carries
  <2> QED BY <1>1, <2>1, CarriesStay
<1>7. RequestTyped' /\ CountersSettle' /\ LateBounded'
  BY <1>1, <1>3 DEF StreamInv, RequestTyped, CountersSettle, LateBounded
<1>8. ClientServed' /\ EndingSoFar' /\ EndsWithDone'
  BY <1>1, <1>2, <1>3, <1>4, <1>5 DEF ClientServed, EndingSoFar, EndsWithDone
<1> QED BY <1>6, <1>7, <1>8 DEF StreamInv

LEMMA StreamKeeps == StreamInv /\ [Next]_vars => StreamInv'
<1> SUFFICES ASSUME StreamInv, [Next]_vars PROVE StreamInv'
  OBVIOUS
<1>1. CASE \E m \in Modes : Begin(m)
  BY <1>1, BeginKeeps
<1>2. CASE \E w \in Deltas : Delta(w)
  BY <1>2, DeltaHolds
<1>3. CASE Disconnect
  BY <1>3, DisconnectKeeps
<1>4. CASE HeaderFails \/ FinishRefused \/ Throws \/ Block \/ Unblock
  BY <1>4, QuietStep
<1>5. CASE Start
  BY <1>5, StartKeeps
<1>6. CASE Complete
  BY <1>6, CompleteHolds
<1>7. CASE EmitEnding \/ Done
  BY <1>7, EndingHolds
<1>8. CASE UNCHANGED vars
  <2>1. /\ pc' = pc /\ mode' = mode /\ open' = open /\ stream' = stream /\ text' = text
        /\ room' = room /\ late' = late /\ total' = total /\ active' = active
        /\ cancelled' = cancelled
    BY <1>8 DEF vars
  <2>2. Carries(stream)'
    <3>1. Carries(stream')
      BY <2>1 DEF StreamInv
    <3> QED BY <2>1, <3>1, CarriesStay
  <2>3. RequestTyped' /\ CountersSettle' /\ LateBounded'
    BY <2>1 DEF StreamInv, RequestTyped, CountersSettle, LateBounded
  <2>4. ClientServed' /\ EndingSoFar' /\ EndsWithDone'
    BY <2>1 DEF StreamInv, ClientServed, EndingSoFar, EndsWithDone, Silent
  <2> QED BY <2>2, <2>3, <2>4 DEF StreamInv
<1> QED BY <1>1, <1>2, <1>3, <1>4, <1>5, <1>6, <1>7, <1>8 DEF Next

\* Whatever the engine generates and wherever the client leaves, the
\* stream closure of Api::handle holds back less than one marker, every
\* request that was started is finished once, and a client that stays is
\* sent one closing event and then [DONE].
THEOREM EveryStreamSettles == Spec => []StreamSettles
<1>1. Init => StreamInv
  BY StreamStarts
<1>2. StreamInv /\ [Next]_vars => StreamInv'
  BY StreamKeeps
<1>3. StreamInv => StreamSettles
  BY InvShows
<1> QED BY <1>1, <1>2, <1>3, PTL DEF Spec

\* The engine goes on for a client that has gone for at most a </think>, a
\* <tool_call> and KeepAlive captured deltas: then a write of the closure
\* fails and on_delta answers false.
THEOREM LeaversAreNoticed == Spec => []LateBounded
<1>1. Init => StreamInv
  BY StreamStarts
<1>2. StreamInv /\ [Next]_vars => StreamInv'
  BY StreamKeeps
<1>3. StreamInv => LateBounded
  BY InvShows
<1> QED BY <1>1, <1>2, <1>3, PTL DEF Spec

-----------------------------------------------------------------------------
(***************************************************************************)
(* What a client that is there was told.  The closure looks for </think>   *)
(* before it looks for <tool_call>, so the split is the one at the first   *)
(* marker only if no single delta completes both with the call in front.   *)
(***************************************************************************)

DeltasApart ==
  \A u \in Str, w \in Deltas :
    /\ ~Has(CloseMarker, u) /\ ~Has(ToolMarker, u)
    /\ Has(CloseMarker, u \o w) /\ Has(ToolMarker, u \o w)
    => Find(CloseMarker, u \o w) < Find(ToolMarker, u \o w)

\* The first of two markers stays the first, whatever follows.
LEMMA FirstStays ==
  ASSUME NEW m \in Str, m # <<>>, NEW n \in Str, n # <<>>, ~Has(m, n),
         NEW x \in Str, NEW w \in Str, Has(m, x), Has(n, x) => Find(m, x) < Find(n, x)
  PROVE  /\ Has(m, x \o w) /\ Find(m, x \o w) = Find(m, x)
         /\ Has(n, x \o w) => Find(m, x) < Find(n, x \o w)
<1>1. Has(m, x \o w) /\ Find(m, x \o w) = Find(m, x)
  BY FindStays
<1>2. CASE Has(n, x)
  BY <1>1, <1>2, FindStays
<1>3. CASE ~Has(n, x)
  <2> SUFFICES ASSUME Has(n, x \o w) PROVE Find(m, x) < Find(n, x \o w)
    BY <1>1
  <2> DEFINE y == x \o w
             p == Find(m, x)
             q == Find(n, y)
  <2>1. y \in Str /\ Len(x) \in Nat /\ Len(m) \in Nat /\ Len(n) \in Nat
    BY Joined, StrFacts
  <2>2. p \in Nat /\ At(m, x, p) /\ At(m, y, p)
    <3>1. p \in Nat /\ At(m, x, p)
      BY FindsFirst
    <3> QED BY <3>1, AtJoined
  <2>3. q \in Nat /\ At(n, y, q)
    BY <2>1, FindsFirst
  <2>4. ~At(n, x, q)
    BY <1>3, <2>3, OccursAt
  <2>5. ~(q + Len(n) <= Len(x) + 1)
    BY <2>3, <2>4, AtJoined
  <2> HIDE DEF y, p, q
  <2>6. ASSUME q <= p PROVE FALSE
    <3> DEFINE i == p - q + 1
    <3>1. i \in Nat /\ i >= 1 /\ q + i = p + 1 /\ i + Len(m) <= Len(n) + 1
      BY <2>1, <2>2, <2>3, <2>5, <2>6 DEF At
    <3> HIDE DEF i
    <3>2. ASSUME NEW k \in 1..Len(m) PROVE n[i + k - 1] = m[k]
      <4>1. y[p + k - 1] = m[k]
        BY <2>2 DEF At
      <4>2. i + k - 1 \in 1..Len(n)
        BY <2>1, <3>1
      <4>3. y[q + (i + k - 1) - 1] = n[i + k - 1]
        BY <2>3, <4>2 DEF At
      <4>4. q + (i + k - 1) - 1 = p + k - 1
        BY <2>1, <2>2, <2>3, <3>1
      <4> QED BY <4>1, <4>3, <4>4
    <3>3. At(m, n, i)
      BY <3>1, <3>2 DEF At
    <3> QED BY <3>1, <3>3, OccursAt
  <2> QED BY <2>2, <2>3, <2>6 DEF y, p, q
<1> QED BY <1>1, <1>2, <1>3

\* The thoughts of x end at p, with </think> or with <tool_call>.
Closed(x, p) ==
  /\ Has(CloseMarker, x) /\ Find(CloseMarker, x) = p
  /\ parse_tools /\ Has(ToolMarker, x) => p < Find(ToolMarker, x)

Called(x, p) ==
  /\ parse_tools /\ Has(ToolMarker, x) /\ Find(ToolMarker, x) = p
  /\ Has(CloseMarker, x) => p < Find(CloseMarker, x)

LEMMA ClosedStays ==
  ASSUME NEW x \in Str, NEW w \in Str, NEW p, Closed(x, p)
  PROVE  /\ Closed(x \o w, p) /\ Before(p, x \o w) = Before(p, x)
         /\ From(p + Len(CloseMarker), x \o w) = From(p + Len(CloseMarker), x) \o w
<1>1. p \in 1..(Len(x) + 1) /\ p + Len(CloseMarker) \in 1..(Len(x) + 1)
  BY FoundInside, Markers DEF Closed
<1>2. Has(CloseMarker, x \o w) /\ Find(CloseMarker, x \o w) = p
  BY FindStays, Markers DEF Closed
<1>3. ASSUME parse_tools, Has(ToolMarker, x \o w) PROVE p < Find(ToolMarker, x \o w)
  BY <1>3, FirstStays, Markers, MarkersAssumption DEF Closed
<1> QED BY <1>1, <1>2, <1>3, CutGrows DEF Closed

LEMMA CalledStays ==
  ASSUME NEW x \in Str, NEW w \in Str, NEW p, Called(x, p)
  PROVE  /\ Called(x \o w, p) /\ Before(p, x \o w) = Before(p, x)
         /\ From(p, x \o w) = From(p, x) \o w
<1>1. p \in 1..(Len(x) + 1)
  BY FoundInside, Markers DEF Called
<1>2. Has(ToolMarker, x \o w) /\ Find(ToolMarker, x \o w) = p
  BY FindStays, Markers DEF Called
<1>3. ASSUME Has(CloseMarker, x \o w) PROVE p < Find(CloseMarker, x \o w)
  BY <1>3, FirstStays, Markers, MarkersAssumption DEF Called
<1> QED BY <1>1, <1>2, <1>3, CutGrows DEF Called

\* The answer r was spoken so far: sent, or held back with a marker.
Spoken(s, r) ==
  /\ TrimFront(s.content \o s.tool_carry) = TrimFront(r)
  /\ parse_tools =>
       /\ s.capturing <=> Has(ToolMarker, r)
       /\ s.capturing => ~Has(ToolMarker, s.content)
       /\ ~s.capturing => s.content = <<>> \/ Len(s.tool_carry) + 1 = Len(ToolMarker)

LEMMA SpokenTrims ==
  ASSUME NEW s, NEW r \in Str, Spoken(s, TrimFront(r)) PROVE Spoken(s, r)
<1>1. TrimFront(TrimFront(r)) = TrimFront(r)
  BY TrimAgain
<1>2. Has(ToolMarker, r) <=> Has(ToolMarker, TrimFront(r))
  BY HasTrimmed, Markers
<1> QED BY <1>1, <1>2 DEF Spoken

\* Texts that differ in the spaces in front of them grow alike.
LEMMA TrimmedAlike ==
  ASSUME NEW v \in Str, NEW r \in Str, NEW w \in Str, TrimFront(v) = TrimFront(r)
  PROVE  /\ TrimFront(v \o w) = TrimFront(r \o w)
         /\ Has(ToolMarker, v \o w) <=> Has(ToolMarker, r \o w)
         /\ Has(ToolMarker, v) <=> Has(ToolMarker, r)
<1>1. v \o w \in Str /\ r \o w \in Str
  BY Joined
<1>2. TrimFront(v \o w) = TrimFront(r \o w)
  <2>1. TrimFront(v \o w) = IF TrimFront(v) = <<>> THEN TrimFront(w) ELSE TrimFront(v) \o w
    BY TrimGrows, Zenon
  <2>2. TrimFront(r \o w) = IF TrimFront(r) = <<>> THEN TrimFront(w) ELSE TrimFront(r) \o w
    BY TrimGrows, Zenon
  <2> QED BY <2>1, <2>2, Zenon
<1>3. \A y \in Str : Has(ToolMarker, y) <=> Has(ToolMarker, TrimFront(y))
  BY HasTrimmed, Markers
<1> QED BY <1>1, <1>2, <1>3

LEMMA SpokenGrows ==
  ASSUME NEW s \in Streams, Carries(s), ~s.in_reasoning, s.connected, open \in BOOLEAN, open,
         NEW r \in Str, Spoken(s, r), NEW w \in Str
  PROVE  LET t == EmitContent(s, w) IN
         /\ Spoken(t, r \o w) /\ t.reasoning = s.reasoning
         /\ ~t.in_reasoning /\ t.thinking_carry = <<>>
<1> DEFINE t == EmitContent(s, w)
           carry == s.tool_carry
           spoken == s.content \o carry
<1>1. s.content \in Str /\ carry \in Str /\ spoken \in Str /\ open \in BOOLEAN
  <2>1. s.content \in Str /\ carry \in Str
    BY DEF Streams
  <2> QED BY <2>1, Joined
<1>2. /\ TrimFront(spoken \o w) = TrimFront(r \o w)
      /\ Has(ToolMarker, spoken \o w) <=> Has(ToolMarker, r \o w)
      /\ Has(ToolMarker, spoken) <=> Has(ToolMarker, r)
  <2>1. TrimFront(spoken) = TrimFront(r)
    BY DEF Spoken
  <2> HIDE DEF spoken
  <2> QED BY <1>1, <2>1, TrimmedAlike
<1>3. spoken \o w = s.content \o (carry \o w)
  <2> DEFINE b == s.content
  <2>1. b \in Str /\ carry \in Str
    BY <1>1
  <2> HIDE DEF b, carry
  <2>2. (b \o carry) \o w = b \o (carry \o w)
    <3>1. Joins(b, carry, w)
      BY <2>1, JoinsAlike
    <3> QED BY <3>1 DEF Joins
  <2> QED BY <2>2 DEF b
<1>4. s.thinking_carry = <<>>
  BY DEF Carries
<1>5. CASE ~parse_tools
  <2>1. t = EmitText(s, "content", w)
    BY <1>5 DEF EmitContent
  <2> HIDE DEF t
  <2>2. /\ t.content = s.content \o w /\ t.reasoning = s.reasoning
        /\ t.in_reasoning = s.in_reasoning /\ t.thinking_carry = s.thinking_carry
        /\ t.tool_carry = s.tool_carry
    <3>1. /\ Emitted(s, EmitText(s, "content", w), w)
          /\ EmitText(s, "content", w).reasoning = s.reasoning
          /\ EmitText(s, "content", w).content = s.content \o w
      BY EmitTextFacts
    <3> QED BY <2>1, <3>1 DEF Emitted
  <2>3. carry = <<>>
    BY <1>5 DEF Carries
  <2>4. t.content \o t.tool_carry = spoken \o w
    <3>1. s.content \o w \in Str
      BY <1>1, Joined
    <3>2. (s.content \o w) \o <<>> = s.content \o w /\ s.content \o <<>> = s.content
      BY <1>1, <3>1, JoinAgain
    <3> QED BY <2>2, <2>3, <3>2
  <2>5. Spoken(t, r \o w)
    BY <1>2, <1>5, <2>4 DEF Spoken
  <2> QED BY <1>4, <2>2, <2>5 DEF t
<1>6. CASE parse_tools /\ s.capturing
  <2>1. /\ t.capturing /\ t.content = s.content /\ t.tool_carry = carry \o w
        /\ t.in_reasoning = s.in_reasoning /\ t.thinking_carry = s.thinking_carry
        /\ t.reasoning = s.reasoning
    BY <1>1, <1>6, EmitContentCaptures DEF Keeps
  <2>2. Has(ToolMarker, r) /\ ~Has(ToolMarker, s.content)
    BY <1>6 DEF Spoken
  <2>3. Has(ToolMarker, r \o w)
    BY <2>2, FindStays, Markers
  <2>4. t.content \o t.tool_carry = spoken \o w
    BY <1>3, <2>1
  <2> QED BY <1>2, <1>4, <1>6, <2>1, <2>2, <2>3, <2>4 DEF Spoken
<1>7. CASE parse_tools /\ ~s.capturing
  <2>1. Keeps(s, t) /\ \E e : Split(s, t, w, e)
    BY <1>1, <1>7, EmitContentSplits
  <2>2. PICK e : Split(s, t, w, e)
    BY <2>1
  <2> HIDE DEF t
  <2>3. t.content \in Str /\ t.tool_carry \in Str /\ e \in Str /\ t.content = s.content \o e
    BY <2>1, <2>2 DEF Keeps, Streams, Split
  <2>4. t.content \o t.tool_carry = spoken \o w
    <3>1. (s.content \o e) \o t.tool_carry = s.content \o (e \o t.tool_carry)
      <4> DEFINE b == s.content
                 d == t.tool_carry
      <4>1. b \in Str /\ d \in Str /\ e \in Str
        BY <1>1, <2>3
      <4> HIDE DEF b, d
      <4>2. (b \o e) \o d = b \o (e \o d)
        <5>1. Joins(b, e, d)
          BY <4>1, JoinsAlike
        <5> QED BY <5>1 DEF Joins
      <4> QED BY <4>2 DEF b, d
    <3>2. carry \o w = e \o t.tool_carry
      BY <2>2 DEF Split
    <3> QED BY <1>3, <2>3, <3>1, <3>2
  <2>5. ~Has(ToolMarker, spoken) /\ (s.content = <<>> \/ Len(carry) + 1 >= Len(ToolMarker))
    <3>1. Len(carry) \in Nat
      BY <1>1, StrFacts
    <3>2. ~Has(ToolMarker, r) /\ (s.content = <<>> \/ Len(carry) + 1 = Len(ToolMarker))
      BY <1>7 DEF Spoken
    <3> QED BY <1>2, <3>1, <3>2, Markers
  <2>6. /\ Has(ToolMarker, s.content \o (carry \o w)) <=> Has(ToolMarker, carry \o w)
        /\ Has(ToolMarker, carry \o w) =>
             Find(ToolMarker, s.content \o (carry \o w)) =
               Len(s.content) + Find(ToolMarker, carry \o w)
    <3> HIDE DEF carry
    <3> QED BY <1>1, <2>5, HeldBack, Markers DEF spoken
  <2>7. t.capturing <=> Has(ToolMarker, r \o w)
    BY <1>2, <1>3, <2>2, <2>6 DEF Split
  <2>8. ASSUME t.capturing PROVE ~Has(ToolMarker, t.content)
    <3>1. Has(ToolMarker, carry \o w) /\ Find(ToolMarker, carry \o w) = Len(e) + 1
      BY <2>2, <2>8 DEF Split
    <3>2. Len(t.content) = Len(s.content) + Len(e) /\ Len(s.content) \in Nat /\ Len(e) \in Nat
      <4> DEFINE b == s.content
      <4>1. b \in Str /\ e \in Str
        BY <1>1, <2>3
      <4> HIDE DEF b
      <4>2. Len(b \o e) = Len(b) + Len(e) /\ Len(b) \in Nat /\ Len(e) \in Nat
        BY <4>1, Joined, StrFacts
      <4> QED BY <2>3, <4>2 DEF b
    <3>3. Find(ToolMarker, t.content \o t.tool_carry) = Len(t.content) + 1
      <4>1. Find(ToolMarker, t.content \o t.tool_carry) = Len(s.content) + (Len(e) + 1)
        BY <1>3, <2>4, <2>6, <3>1
      <4> DEFINE k == Len(s.content)
                 l == Len(e)
      <4>2. k \in Nat /\ l \in Nat /\ Len(t.content) = k + l
        BY <3>2
      <4> HIDE DEF k, l
      <4>3. k + (l + 1) = (k + l) + 1
        BY <4>2
      <4> QED BY <4>1, <4>2, <4>3 DEF k, l
    <3>4. ASSUME Has(ToolMarker, t.content) PROVE FALSE
      <4>1. /\ Find(ToolMarker, t.content) \in 1..(Len(t.content) + 1)
            /\ Find(ToolMarker, t.content) + Len(ToolMarker) \in 1..(Len(t.content) + 1)
        BY <2>3, <3>4, FoundInside, Markers
      <4>2. Find(ToolMarker, t.content \o t.tool_carry) = Find(ToolMarker, t.content)
        BY <2>3, <3>4, FindStays, Markers
      <4> QED BY <3>2, <3>3, <4>1, <4>2, Markers
    <3> QED BY <3>4
  <2>9. ASSUME ~t.capturing
        PROVE  t.content = <<>> \/ Len(t.tool_carry) + 1 = Len(ToolMarker)
    <3>1. CASE e # <<>>
      BY <2>2, <2>9, <3>1 DEF Split
    <3>2. CASE e = <<>>
      <4>1. t.content = s.content
        BY <1>1, <2>3, <3>2, JoinAgain
      <4>2. t.tool_carry = carry \o w
        BY <2>2, <2>3, <3>2, JoinAgain DEF Split
      <4>3. /\ Len(t.tool_carry) = Len(carry) + Len(w) /\ Len(carry) \in Nat
            /\ Len(w) \in Nat
        <5>1. carry \in Str
          BY <1>1
        <5> HIDE DEF carry
        <5>2. Len(carry \o w) = Len(carry) + Len(w) /\ Len(carry) \in Nat /\ Len(w) \in Nat
          BY <5>1, Joined, StrFacts
        <5> QED BY <4>2, <5>2
      <4>4. Len(t.tool_carry) < Len(ToolMarker)
        BY <2>2, <2>9 DEF Split
      <4>5. s.content = <<>> \/ Len(carry) + 1 = Len(ToolMarker)
        BY <1>7 DEF Spoken
      <4> HIDE DEF carry
      <4> QED BY <4>1, <4>3, <4>4, <4>5, Markers
    <3> QED BY <3>1, <3>2
  <2>10. /\ t.reasoning = s.reasoning /\ ~t.in_reasoning /\ t.thinking_carry = <<>>
    BY <1>4, <2>1 DEF Keeps
  <2>11. Spoken(t, r \o w)
    BY <1>2, <1>7, <2>4, <2>7, <2>8, <2>9 DEF Spoken
  <2> QED BY <2>10, <2>11 DEF t
<1> QED BY <1>5, <1>6, <1>7

\* The thoughts x go on: no marker is complete, and once something was sent
\* the carry is as long as a marker can be without its last character.
Thinking(s, x) ==
  /\ s.in_reasoning /\ s.reasoning \o s.thinking_carry = x /\ s.content = <<>>
  /\ ~Has(CloseMarker, x) /\ ~(parse_tools /\ Has(ToolMarker, x))
  /\ s.reasoning = <<>> \/ Len(s.thinking_carry) = Holdback

Answered(s, x, p, r) ==
  ~s.in_reasoning /\ s.thinking_carry = <<>> /\ s.reasoning = Before(p, x) /\ Spoken(s, r)

\* The client was told x.
Told(s, x) ==
  IF mode.chat /\ mode.thinking
    THEN \/ Thinking(s, x)
         \/ \E p : Closed(x, p) /\ Answered(s, x, p, From(p + Len(CloseMarker), x))
         \/ \E p : Called(x, p) /\ Answered(s, x, p, From(p, x))
  ELSE /\ ~s.in_reasoning /\ s.thinking_carry = <<>> /\ s.reasoning = <<>>
       /\ Spoken(s, x)

\* A stream that has just left the thoughts has spoken nothing.
LEMMA LeftSpeaks ==
  ASSUME NEW s \in Streams, Carries(s), s.in_reasoning, s.content = <<>>, s.connected,
         open \in BOOLEAN, open, NEW a, NEW u, Left(s, u, a), NEW rest \in Str
  PROVE  LET t == EmitContent(u, rest) IN
         /\ Spoken(t, rest) /\ t.reasoning = s.reasoning \o a
         /\ ~t.in_reasoning /\ t.thinking_carry = <<>>
<1>1. /\ u \in Streams /\ Carries(u) /\ ~u.in_reasoning /\ ~u.capturing
      /\ u.tool_carry = <<>> /\ u.content = <<>> /\ u.connected
      /\ u.reasoning = s.reasoning \o a
  BY LeftCarries DEF Left
<1>2. <<>> \in Str /\ <<>> \o <<>> = <<>> /\ <<>> \o rest = rest
  <2>1. <<>> \in Str
    BY EmptySeq DEF Str
  <2> QED BY <2>1, JoinAgain
<1>3. Spoken(u, <<>>)
  BY <1>1, <1>2, NothingHeld DEF Spoken
<1>4. /\ Spoken(EmitContent(u, rest), <<>> \o rest)
      /\ EmitContent(u, rest).reasoning = u.reasoning
      /\ ~EmitContent(u, rest).in_reasoning
      /\ EmitContent(u, rest).thinking_carry = <<>>
  BY <1>1, <1>2, <1>3, SpokenGrows
<1> QED BY <1>1, <1>2, <1>4

\* The thoughts so far and what is held back of them, when w follows.
LEMMA CarryShows ==
  ASSUME NEW a \in Str, NEW c \in Str, NEW w \in Str,
         ~Has(CloseMarker, a \o c), ~(parse_tools /\ Has(ToolMarker, a \o c)),
         a = <<>> \/ Len(c) = Holdback
  PROVE  /\ a \o c \in Str /\ c \o w \in Str /\ (a \o c) \o w = a \o (c \o w)
         /\ ~Has(CloseMarker, c) /\ ~(parse_tools /\ Has(ToolMarker, c))
         /\ Has(CloseMarker, (a \o c) \o w) <=> Has(CloseMarker, c \o w)
         /\ Has(CloseMarker, c \o w) =>
              Find(CloseMarker, (a \o c) \o w) = Len(a) + Find(CloseMarker, c \o w)
         /\ parse_tools =>
              /\ Has(ToolMarker, (a \o c) \o w) <=> Has(ToolMarker, c \o w)
              /\ Has(ToolMarker, c \o w) =>
                   Find(ToolMarker, (a \o c) \o w) = Len(a) + Find(ToolMarker, c \o w)
<1>1. a \o c \in Str /\ c \o w \in Str /\ (a \o c) \o w = a \o (c \o w) /\ Len(c) \in Nat
  <2>1. a \o c \in Str /\ c \o w \in Str /\ Len(c) \in Nat
    BY Joined, StrFacts
  <2>2. (a \o c) \o w = a \o (c \o w)
    BY JoinAll
  <2> QED BY <2>1, <2>2
<1>2. ~Has(CloseMarker, c) /\ ~(parse_tools /\ Has(ToolMarker, c))
  BY PartHasNone, Markers
<1>3. /\ a = <<>> \/ Len(c) + 1 >= Len(CloseMarker)
      /\ parse_tools => a = <<>> \/ Len(c) + 1 >= Len(ToolMarker)
  BY <1>1, HoldbackFacts, Markers
<1>4. /\ Has(CloseMarker, a \o (c \o w)) <=> Has(CloseMarker, c \o w)
      /\ Has(CloseMarker, c \o w) =>
           Find(CloseMarker, a \o (c \o w)) = Len(a) + Find(CloseMarker, c \o w)
  BY <1>3, HeldBack, Markers
<1>5. ASSUME parse_tools
      PROVE  /\ Has(ToolMarker, a \o (c \o w)) <=> Has(ToolMarker, c \o w)
             /\ Has(ToolMarker, c \o w) =>
                  Find(ToolMarker, a \o (c \o w)) = Len(a) + Find(ToolMarker, c \o w)
  BY <1>3, <1>5, HeldBack, Markers
<1> QED BY <1>1, <1>2, <1>4, <1>5

CarryRead(s, x, w) ==
  LET a == s.reasoning
      c == s.thinking_carry
      d == c \o w
      y == x \o w
  IN
  /\ x \in Str /\ d \in Str /\ y = a \o d /\ y \in Str
  /\ ~Has(CloseMarker, c) /\ ~(parse_tools /\ Has(ToolMarker, c))
  /\ Has(CloseMarker, y) <=> Has(CloseMarker, d)
  /\ Has(CloseMarker, d) => Find(CloseMarker, y) = Len(a) + Find(CloseMarker, d)
  /\ parse_tools =>
       /\ Has(ToolMarker, y) <=> Has(ToolMarker, d)
       /\ Has(ToolMarker, d) => Find(ToolMarker, y) = Len(a) + Find(ToolMarker, d)

LEMMA ThinkingCarry ==
  ASSUME NEW s \in Streams, NEW x, Thinking(s, x), NEW w \in Str
  PROVE  CarryRead(s, x, w)
<1> DEFINE a == s.reasoning
           c == s.thinking_carry
<1>1. /\ a \in Str /\ c \in Str /\ x = a \o c
      /\ ~Has(CloseMarker, x) /\ ~(parse_tools /\ Has(ToolMarker, x))
      /\ (a = <<>> \/ Len(c) = Holdback)
  BY DEF Thinking, Streams
<1> HIDE DEF a, c
<1>2. x \in Str
  BY <1>1, Joined
<1>3. x \o w \in Str
  BY <1>2, Joined
<1>4. /\ c \o w \in Str /\ x \o w = a \o (c \o w)
      /\ ~Has(CloseMarker, c) /\ ~(parse_tools /\ Has(ToolMarker, c))
      /\ Has(CloseMarker, x \o w) <=> Has(CloseMarker, c \o w)
      /\ Has(CloseMarker, c \o w) =>
           Find(CloseMarker, x \o w) = Len(a) + Find(CloseMarker, c \o w)
      /\ parse_tools =>
           /\ Has(ToolMarker, x \o w) <=> Has(ToolMarker, c \o w)
           /\ Has(ToolMarker, c \o w) =>
                Find(ToolMarker, x \o w) = Len(a) + Find(ToolMarker, c \o w)
  <2>1. /\ ~Has(CloseMarker, a \o c) /\ ~(parse_tools /\ Has(ToolMarker, a \o c))
        /\ (a = <<>> \/ Len(c) = Holdback) /\ a \in Str /\ c \in Str
    BY <1>1
  <2>2. /\ c \o w \in Str /\ (a \o c) \o w = a \o (c \o w)
        /\ ~Has(CloseMarker, c) /\ ~(parse_tools /\ Has(ToolMarker, c))
        /\ Has(CloseMarker, (a \o c) \o w) <=> Has(CloseMarker, c \o w)
        /\ Has(CloseMarker, c \o w) =>
             Find(CloseMarker, (a \o c) \o w) = Len(a) + Find(CloseMarker, c \o w)
        /\ parse_tools =>
             /\ Has(ToolMarker, (a \o c) \o w) <=> Has(ToolMarker, c \o w)
             /\ Has(ToolMarker, c \o w) =>
                  Find(ToolMarker, (a \o c) \o w) = Len(a) + Find(ToolMarker, c \o w)
    BY <2>1, CarryShows
  <2> QED BY <1>1, <2>2
<1> QED BY <1>2, <1>3, <1>4 DEF a, c, CarryRead

LEMMA ThinkingGrows ==
  ASSUME DeltasApart, NEW s \in Streams, Carries(s), s.connected, open \in BOOLEAN, open,
         mode.chat /\ mode.thinking, NEW x, Thinking(s, x), NEW w \in Deltas
  PROVE  Told(OnReasoning(s, w), x \o w)
<1> DEFINE t == OnReasoning(s, w)
           a == s.reasoning
           c == s.thinking_carry
           d == c \o w
           y == x \o w
           C == Len(CloseMarker)
<1>1. a \in Str /\ c \in Str /\ w \in Str /\ w # <<>> /\ s.in_reasoning /\ s.content = <<>>
  BY ApiStreamAssumption DEF Streams, Thinking, Str
<1>2. /\ x = a \o c /\ ~Has(CloseMarker, x) /\ ~(parse_tools /\ Has(ToolMarker, x))
      /\ (a = <<>> \/ Len(c) = Holdback)
  BY DEF Thinking
<1>3. /\ x \in Str /\ d \in Str /\ y = a \o d /\ y \in Str
      /\ ~Has(CloseMarker, c) /\ ~(parse_tools /\ Has(ToolMarker, c))
      /\ Has(CloseMarker, y) <=> Has(CloseMarker, d)
      /\ Has(CloseMarker, d) => Find(CloseMarker, y) = Len(a) + Find(CloseMarker, d)
      /\ parse_tools =>
           /\ Has(ToolMarker, y) <=> Has(ToolMarker, d)
           /\ Has(ToolMarker, d) => Find(ToolMarker, y) = Len(a) + Find(ToolMarker, d)
  <2>1. CarryRead(s, x, w)
    BY <1>1, ThinkingCarry
  <2> QED BY <2>1 DEF CarryRead
<1>4. ASSUME NEW i, i \in 1..(Len(d) + 1), NEW rest, rest \in Str,
             t = LeaveReasoning([s EXCEPT !.thinking_carry = d], i, rest)
      PROVE  /\ Spoken(t, rest) /\ t.reasoning = a \o Before(i, d)
             /\ ~t.in_reasoning /\ t.thinking_carry = <<>>
  <2> DEFINE e == [s EXCEPT !.thinking_carry = d]
  <2>1. d \in Str /\ e = [s EXCEPT !.thinking_carry = d]
    BY <1>3
  <2>2. t = LeaveReasoning(e, i, rest)
    BY <1>4
  <2> HIDE DEF e, d, t
  <2>3. \E u : Left(s, u, Before(i, d)) /\ LeaveReasoning(e, i, rest) = EmitContent(u, rest)
    BY <1>4, <2>1, ReasoningLeft
  <2>4. PICK u : Left(s, u, Before(i, d)) /\ t = EmitContent(u, rest)
    BY <2>2, <2>3
  <2>5. /\ Spoken(EmitContent(u, rest), rest)
        /\ EmitContent(u, rest).reasoning = s.reasoning \o Before(i, d)
        /\ ~EmitContent(u, rest).in_reasoning /\ EmitContent(u, rest).thinking_carry = <<>>
    BY <1>1, <1>4, <2>4, LeftSpeaks
  <2> QED BY <2>4, <2>5
<1>5. CASE Has(CloseMarker, d)
  <2> DEFINE i == Find(CloseMarker, d)
             r == From(i + C, d)
  <2>1. i \in 1..(Len(d) + 1) /\ i + C \in 1..(Len(d) + 1) /\ i \in Nat
    <3> HIDE DEF d
    <3> QED BY <1>3, <1>5, FoundInside, Markers
  <2>2. t = LeaveReasoning([s EXCEPT !.thinking_carry = d], i, TrimFront(r))
    BY <1>1, <1>5, OnReasoningCases
  <2>3. Closed(y, Len(a) + i)
    <3>1. ASSUME parse_tools, Has(ToolMarker, y) PROVE Len(a) + i < Find(ToolMarker, y)
      <4>1. Has(ToolMarker, d) /\ Find(ToolMarker, y) = Len(a) + Find(ToolMarker, d)
        BY <1>3, <3>1
      <4>2. i < Find(ToolMarker, d)
        <5>1. ~Has(CloseMarker, c) /\ ~Has(ToolMarker, c) /\ c \in Str
          BY <1>1, <1>3, <3>1
        <5> QED BY <1>5, <4>1, <5>1 DEF DeltasApart
      <4>3. Find(ToolMarker, d) \in 1..(Len(d) + 1)
        BY <1>3, <4>1, FoundInside, Markers
      <4>4. Len(d) \in Nat /\ Len(a) \in Nat
        BY <1>1, <1>3, StrFacts
      <4> HIDE DEF i, d, a, y
      <4> QED BY <2>1, <4>1, <4>2, <4>3, <4>4
    <3> QED BY <1>3, <1>5, <3>1 DEF Closed
  <2> HIDE DEF i
  <2>4. /\ a \o Before(i, d) = Before(Len(a) + i, y)
        /\ r = From((Len(a) + i) + C, y) /\ r \in Str
    <3> HIDE DEF a, d
    <3>1. Before(Len(a) + i, a \o d) = a \o Before(i, d)
      BY <1>1, <1>3, <2>1, CutMoves
    <3>2. From(Len(a) + (i + C), a \o d) = From(i + C, d)
      BY <1>1, <1>3, <2>1, CutMoves
    <3>3. From(i + C, d) \in Str
      BY <1>3, <2>1, CutInTwo
    <3>4. Len(a) + (i + C) = (Len(a) + i) + C
      <4>1. Len(a) \in Nat /\ C \in Nat
        BY <1>1, StrFacts, Markers
      <4> HIDE DEF C
      <4> QED BY <2>1, <4>1
    <3> QED BY <1>3, <3>1, <3>2, <3>3, <3>4
  <2> HIDE DEF r
  <2>5. TrimFront(r) \in Str
    BY <2>4, TrimSplits
  <2>6. /\ Spoken(t, TrimFront(r)) /\ t.reasoning = a \o Before(i, d)
        /\ ~t.in_reasoning /\ t.thinking_carry = <<>>
    <3> HIDE DEF t, d, a
    <3> QED BY <1>4, <2>1, <2>2, <2>5
  <2>7. Spoken(t, r)
    BY <2>4, <2>6, SpokenTrims
  <2> HIDE DEF t, a, d, y
  <2>8. Answered(t, y, Len(a) + i, From((Len(a) + i) + C, y))
    BY <2>4, <2>6, <2>7 DEF Answered
  <2>9. Told(t, y)
    BY <2>3, <2>8 DEF Told
  <2> QED BY <2>9 DEF t, y
<1>6. CASE ~Has(CloseMarker, d) /\ parse_tools /\ Has(ToolMarker, d)
  <2> DEFINE i == Find(ToolMarker, d)
             r == From(i, d)
  <2>1. i \in 1..(Len(d) + 1) /\ i \in Nat
    <3> HIDE DEF d
    <3> QED BY <1>3, <1>6, FoundInside, Markers
  <2>2. t = LeaveReasoning([s EXCEPT !.thinking_carry = d], i, r)
    BY <1>1, <1>6, OnReasoningCases
  <2>3. Called(y, Len(a) + i)
    BY <1>3, <1>6 DEF Called
  <2> HIDE DEF i
  <2>4. /\ a \o Before(i, d) = Before(Len(a) + i, y)
        /\ r = From(Len(a) + i, y) /\ r \in Str
    <3> HIDE DEF a, d
    <3>1. /\ Before(Len(a) + i, a \o d) = a \o Before(i, d)
          /\ From(Len(a) + i, a \o d) = From(i, d)
      BY <1>1, <1>3, <2>1, CutMoves
    <3>2. From(i, d) \in Str
      BY <1>3, <2>1, CutInTwo
    <3> QED BY <1>3, <3>1, <3>2
  <2> HIDE DEF r
  <2>5. /\ Spoken(t, r) /\ t.reasoning = a \o Before(i, d)
        /\ ~t.in_reasoning /\ t.thinking_carry = <<>>
    <3> HIDE DEF t, d, a
    <3> QED BY <1>4, <2>1, <2>2, <2>4
  <2> HIDE DEF t, a, d, y
  <2>6. Answered(t, y, Len(a) + i, From(Len(a) + i, y))
    BY <2>4, <2>5 DEF Answered
  <2>7. Told(t, y)
    BY <2>3, <2>6 DEF Told
  <2> QED BY <2>7 DEF t, y
<1>7. CASE ~Has(CloseMarker, d) /\ ~(parse_tools /\ Has(ToolMarker, d))
  <2>1. PICK e : Thought(s, t, w, e)
    BY <1>1, <1>7, ReasoningGoesOn
  <2> HIDE DEF t
  <2>2. /\ e \in Str /\ t.thinking_carry \in Str /\ d = e \o t.thinking_carry
        /\ t.reasoning = a \o e /\ t.in_reasoning /\ t.content = <<>>
        /\ (e = <<>> \/ Len(t.thinking_carry) = Holdback)
        /\ Len(t.thinking_carry) <= Holdback
    BY <1>1, <2>1 DEF Thought, Streams
  <2>3. t.reasoning \o t.thinking_carry = y
    <3> DEFINE g == t.thinking_carry
    <3> HIDE DEF a, d, g
    <3>1. (a \o e) \o g = a \o (e \o g)
      <4>1. a \in Str /\ e \in Str /\ g \in Str
        BY <1>1, <2>2 DEF g
      <4> QED BY <4>1, JoinAll
    <3> QED BY <1>3, <2>2, <3>1 DEF g
  <2>4. t.reasoning = <<>> \/ Len(t.thinking_carry) = Holdback
    <3> SUFFICES ASSUME e = <<>>, a # <<>> PROVE Len(t.thinking_carry) = Holdback
      <4>1. e = <<>> /\ a = <<>> => t.reasoning = <<>>
        BY <1>1, <2>2, JoinAgain
      <4> QED BY <2>2, <4>1
    <3>1. t.thinking_carry = d
      BY <2>2, JoinAgain
    <3>2. Len(d) = Len(c) + Len(w) /\ Len(c) \in Nat /\ Len(w) \in Nat
      BY <1>1, Joined, StrFacts
    <3>3. Len(c) = Holdback
      BY <1>2
    <3> HIDE DEF c, d, a
    <3> QED BY <2>2, <3>1, <3>2, <3>3, HoldbackFacts
  <2>5. Thinking(t, y)
    BY <1>3, <1>7, <2>2, <2>3, <2>4 DEF Thinking
  <2> QED BY <2>5 DEF Told, t
<1> QED BY <1>5, <1>6, <1>7

LEMMA ToldGrows ==
  ASSUME DeltasApart, NEW s \in Streams, Carries(s), s.connected, open \in BOOLEAN, open,
         NEW x \in Str, Told(s, x), NEW w \in Deltas
  PROVE  Told(OnDelta(s, w), x \o w)
<1> DEFINE t == OnDelta(s, w)
           y == x \o w
<1>1. w \in Str /\ w # <<>> /\ y \in Str
  <2>1. w \in Str /\ w # <<>>
    BY ApiStreamAssumption DEF Str
  <2> QED BY <2>1, Joined
<1>2. CASE ~(mode.chat /\ mode.thinking)
  <2>1. ~s.in_reasoning /\ s.reasoning = <<>> /\ Spoken(s, x)
    BY <1>2 DEF Told
  <2>2. t = EmitContent(s, w)
    BY <2>1 DEF OnDelta, EmitContent, parse_tools
  <2>3. /\ Spoken(EmitContent(s, w), x \o w) /\ EmitContent(s, w).reasoning = s.reasoning
        /\ ~EmitContent(s, w).in_reasoning /\ EmitContent(s, w).thinking_carry = <<>>
    BY <1>1, <2>1, SpokenGrows
  <2> HIDE DEF t
  <2>4. Told(t, y)
    BY <1>2, <2>1, <2>2, <2>3 DEF Told
  <2> QED BY <2>4 DEF t
<1>3. CASE mode.chat /\ mode.thinking /\ Thinking(s, x)
  <2>1. t = OnReasoning(s, w)
    BY <1>3 DEF OnDelta, Thinking
  <2>2. Told(OnReasoning(s, w), x \o w)
    BY <1>3, ThinkingGrows
  <2> QED BY <2>1, <2>2
<1>4. ASSUME mode.chat /\ mode.thinking, NEW p, NEW r, r \in Str, Answered(s, x, p, r)
      PROVE  /\ Spoken(t, r \o w) /\ t.reasoning = Before(p, x)
             /\ ~t.in_reasoning /\ t.thinking_carry = <<>>
  <2>1. ~s.in_reasoning /\ s.reasoning = Before(p, x) /\ Spoken(s, r)
    BY <1>4 DEF Answered
  <2>2. t = EmitContent(s, w)
    BY <1>4, <2>1 DEF OnDelta
  <2>3. /\ Spoken(EmitContent(s, w), r \o w) /\ EmitContent(s, w).reasoning = s.reasoning
        /\ ~EmitContent(s, w).in_reasoning /\ EmitContent(s, w).thinking_carry = <<>>
    BY <1>1, <1>4, <2>1, SpokenGrows
  <2> HIDE DEF t
  <2> QED BY <2>1, <2>2, <2>3
<1> HIDE DEF t
<1>5. ASSUME mode.chat /\ mode.thinking, NEW p, Closed(x, p),
             Answered(s, x, p, From(p + Len(CloseMarker), x))
      PROVE  Told(t, y)
  <2> DEFINE r == From(p + Len(CloseMarker), x)
  <2>1. r \in Str
    <3>1. p + Len(CloseMarker) \in 1..(Len(x) + 1)
      BY <1>5, FoundInside, Markers DEF Closed
    <3> QED BY <3>1, CutInTwo
  <2>2. /\ Closed(y, p) /\ Before(p, y) = Before(p, x)
        /\ From(p + Len(CloseMarker), y) = r \o w
    BY <1>1, <1>5, ClosedStays
  <2>3. Answered(s, x, p, r)
    BY <1>5
  <2> HIDE DEF r, y
  <2>4. /\ Spoken(t, r \o w) /\ t.reasoning = Before(p, x)
        /\ ~t.in_reasoning /\ t.thinking_carry = <<>>
    BY <1>4, <1>5, <2>1, <2>3
  <2>5. Answered(t, y, p, From(p + Len(CloseMarker), y))
    BY <2>2, <2>4 DEF Answered
  <2> QED BY <1>5, <2>2, <2>5 DEF Told
<1>6. ASSUME mode.chat /\ mode.thinking, NEW p, Called(x, p), Answered(s, x, p, From(p, x))
      PROVE  Told(t, y)
  <2> DEFINE r == From(p, x)
  <2>1. r \in Str
    <3>1. p \in 1..(Len(x) + 1)
      BY <1>6, FoundInside, Markers DEF Called
    <3> QED BY <3>1, CutInTwo
  <2>2. Called(y, p) /\ Before(p, y) = Before(p, x) /\ From(p, y) = r \o w
    BY <1>1, <1>6, CalledStays
  <2>3. Answered(s, x, p, r)
    BY <1>6
  <2> HIDE DEF r, y
  <2>4. /\ Spoken(t, r \o w) /\ t.reasoning = Before(p, x)
        /\ ~t.in_reasoning /\ t.thinking_carry = <<>>
    BY <1>4, <1>6, <2>1, <2>3
  <2>5. Answered(t, y, p, From(p, y))
    BY <2>2, <2>4 DEF Answered
  <2> QED BY <1>6, <2>2, <2>5 DEF Told
<1> HIDE DEF y
<1>7. mode.chat /\ mode.thinking /\ ~Thinking(s, x) => Told(t, y)
  BY <1>5, <1>6 DEF Told
<1> QED BY <1>2, <1>3, <1>7 DEF t, y

LEMMA SmallerOf ==
  ASSUME NEW i \in Nat, NEW j \in Nat, i <= j
  PROVE  Min({i, j}) = i /\ Min({j, i}) = i
<1>1. \A k \in {i, j} : i <= k
  OBVIOUS
<1>2. \A k \in {i, j} : (\A l \in {i, j} : k <= l) => k = i
  OBVIOUS
<1>3. Min({i, j}) = i
  BY <1>1, <1>2 DEF Min
<1>4. {j, i} = {i, j}
  OBVIOUS
<1> QED BY <1>3, <1>4

LEMMA ToldShows ==
  ASSUME stream \in Streams, text \in Str, Carries(stream), Told(stream, text)
  PROVE  SplitIsExact
<1> DEFINE none == Len(text) + 1
           close == IF Has(CloseMarker, text) THEN Find(CloseMarker, text) ELSE none
           tool == IF parse_tools /\ Has(ToolMarker, text) THEN Find(ToolMarker, text) ELSE none
           cut == Min({close, tool})
           rest == From(IF tool < close THEN tool ELSE close + Len(CloseMarker), text)
           spoken == stream.content \o stream.tool_carry
<1>1. Len(text) \in Nat /\ none \in Nat
  BY StrFacts
<1>2. /\ Has(CloseMarker, text) =>
           Find(CloseMarker, text) \in Nat /\ Find(CloseMarker, text) < none
      /\ Has(ToolMarker, text) =>
           Find(ToolMarker, text) \in Nat /\ Find(ToolMarker, text) < none
  <2>1. \A m \in {CloseMarker, ToolMarker} :
          Has(m, text) => Find(m, text) \in Nat /\ Find(m, text) < none
    <3> SUFFICES ASSUME NEW m \in {CloseMarker, ToolMarker}, Has(m, text)
                 PROVE  Find(m, text) \in Nat /\ Find(m, text) < none
      OBVIOUS
    <3>1. m \in Str /\ m # <<>> /\ Len(m) \in Nat /\ Len(m) > 0
      BY Markers
    <3>2. Find(m, text) \in 1..(Len(text) + 1) /\ Find(m, text) + Len(m) \in 1..(Len(text) + 1)
      BY <3>1, FoundInside
    <3> QED BY <1>1, <3>1, <3>2
  <2> QED BY <2>1
<1>3. close \in Nat /\ tool \in Nat
  BY <1>1, <1>2
<1>4. ASSUME ~(mode.chat /\ mode.thinking)
      PROVE  Thoughts = [reasoning |-> <<>>, rest |-> text, over |-> TRUE]
  BY <1>4 DEF Thoughts
<1>5. ASSUME mode.chat /\ mode.thinking
      PROVE  Thoughts = [reasoning |-> Before(cut, text), rest |-> rest, over |-> cut < none]
  BY <1>5 DEF Thoughts
<1>6. ASSUME NEW th, th = Thoughts, th.over = ~stream.in_reasoning,
             stream.reasoning \o stream.thinking_carry = th.reasoning,
             TrimFront(spoken) = TrimFront(th.rest),
             parse_tools => /\ stream.capturing <=> Has(ToolMarker, th.rest)
                            /\ stream.capturing => ~Has(ToolMarker, stream.content)
      PROVE  SplitIsExact
  <2>1. stream.in_reasoning \in BOOLEAN /\ stream.capturing \in BOOLEAN
    BY DEF Streams
  <2>2. stream.in_reasoning = ~th.over
    BY <1>6, <2>1
  <2>3. parse_tools => stream.capturing = Has(ToolMarker, th.rest)
    BY <1>6, <2>1 DEF Has
  <2> QED BY <1>6, <2>2, <2>3 DEF SplitIsExact
<1>7. CASE ~(mode.chat /\ mode.thinking)
  <2> DEFINE th == [reasoning |-> <<>>, rest |-> text, over |-> TRUE]
  <2>1. th = Thoughts
    BY <1>4, <1>7
  <2>2. /\ ~stream.in_reasoning /\ stream.thinking_carry = <<>> /\ stream.reasoning = <<>>
        /\ Spoken(stream, text)
    BY <1>7 DEF Told
  <2>3. th.reasoning = <<>> /\ th.rest = text /\ th.over = TRUE
    OBVIOUS
  <2>4. stream.reasoning \o stream.thinking_carry = <<>>
    <3>1. <<>> \in Str /\ <<>> \o <<>> = <<>>
      BY EmptySeq, JoinAgain DEF Str
    <3> QED BY <2>2, <3>1
  <2>5. th.over = ~stream.in_reasoning
    BY <2>2, <2>3 DEF Streams
  <2> HIDE DEF th
  <2> QED BY <1>6, <2>1, <2>2, <2>3, <2>4, <2>5 DEF Spoken
<1>8. CASE mode.chat /\ mode.thinking /\ Thinking(stream, text)
  <2>1. /\ stream.in_reasoning /\ stream.reasoning \o stream.thinking_carry = text
        /\ stream.content = <<>> /\ ~Has(CloseMarker, text)
        /\ ~(parse_tools /\ Has(ToolMarker, text))
    BY <1>8 DEF Thinking
  <2>2. stream.tool_carry = <<>> /\ ~stream.capturing
    BY <2>1 DEF Carries
  <2>3. close = none /\ tool = none /\ ~(tool < close)
    BY <1>1, <2>1
  <2>4. cut = none
    BY <1>1, <2>3, SmallerOf
  <2>5. Before(none, text) = text
    BY CutIsUnique, JoinAgain, EmptySeq DEF Str
  <2>6. rest = <<>>
    <3>1. rest = SubSeq(text, none + Len(CloseMarker), Len(text))
      BY <2>3 DEF From
    <3>2. none + Len(CloseMarker) > Len(text)
      BY <1>1, Markers
    <3> QED BY <1>1, <3>1, <3>2, Markers, EmptySeq DEF Str
  <2> DEFINE th == [reasoning |-> Before(cut, text), rest |-> rest, over |-> cut < none]
  <2>7. th = Thoughts
    BY <1>5, <1>8
  <2>8. th.reasoning = text /\ th.rest = <<>> /\ th.over = FALSE
    <3> HIDE DEF none, cut, rest
    <3>1. (none < none) = FALSE
      BY <1>1
    <3> QED BY <2>4, <2>5, <2>6, <3>1
  <2>9. th.over = ~stream.in_reasoning
    BY <2>1, <2>8 DEF Streams
  <2> HIDE DEF th
  <2>10. TrimFront(spoken) = TrimFront(<<>>)
    <3>1. <<>> \in Str /\ <<>> \o <<>> = <<>>
      BY EmptySeq, JoinAgain DEF Str
    <3> QED BY <2>1, <2>2, <3>1
  <2> QED BY <1>6, <2>1, <2>2, <2>7, <2>8, <2>9, <2>10, NothingHeld
<1>9. ASSUME mode.chat /\ mode.thinking, NEW p, NEW r, Answered(stream, text, p, r),
             cut = p, p < none, rest = r, p \in Nat
      PROVE  SplitIsExact
  <2> DEFINE th == [reasoning |-> Before(cut, text), rest |-> rest, over |-> cut < none]
  <2>1. th = Thoughts
    BY <1>5, <1>9
  <2>2. th.reasoning = Before(p, text) /\ th.rest = r /\ th.over = TRUE
    BY <1>9
  <2>3. /\ ~stream.in_reasoning /\ stream.thinking_carry = <<>>
        /\ stream.reasoning = Before(p, text) /\ Spoken(stream, r)
    BY <1>9 DEF Answered
  <2>4. stream.reasoning \o stream.thinking_carry = th.reasoning
    <3>1. stream.reasoning \in Str
      BY DEF Streams
    <3>2. stream.reasoning \o <<>> = stream.reasoning
      BY <3>1, JoinAgain
    <3> QED BY <2>2, <2>3, <3>2
  <2>5. th.over = ~stream.in_reasoning
    BY <2>2, <2>3 DEF Streams
  <2> HIDE DEF th
  <2> QED BY <1>6, <2>1, <2>2, <2>3, <2>4, <2>5 DEF Spoken
<1>10. ASSUME mode.chat /\ mode.thinking, NEW p, Closed(text, p),
              Answered(stream, text, p, From(p + Len(CloseMarker), text))
       PROVE  SplitIsExact
  <2>1. close = p /\ p \in Nat /\ p < none
    BY <1>2, <1>10 DEF Closed
  <2>2. p < tool
    BY <1>10, <2>1 DEF Closed
  <2> HIDE DEF close, tool, none
  <2>3. cut = p /\ ~(tool < close)
    BY <1>3, <2>1, <2>2, SmallerOf
  <2>4. rest = From(p + Len(CloseMarker), text)
    BY <2>1, <2>3
  <2> HIDE DEF cut, rest
  <2> QED BY <1>9, <1>10, <2>1, <2>3, <2>4
<1>11. ASSUME mode.chat /\ mode.thinking, NEW p, Called(text, p),
              Answered(stream, text, p, From(p, text))
       PROVE  SplitIsExact
  <2>1. tool = p /\ p \in Nat /\ p < none
    BY <1>2, <1>11 DEF Called
  <2>2. p < close
    BY <1>11, <2>1 DEF Called
  <2> HIDE DEF close, tool, none
  <2>3. cut = p /\ tool < close
    BY <1>3, <2>1, <2>2, SmallerOf
  <2>4. rest = From(p, text)
    BY <2>1, <2>3
  <2> HIDE DEF cut, rest
  <2> QED BY <1>9, <1>11, <2>1, <2>3, <2>4
<1> QED BY <1>7, <1>8, <1>10, <1>11 DEF Told

\* A client that is there was told all of the text.
TextTold == pc \in {"accepted", "streaming"} /\ open => Told(stream, text)

LEMMA ToldStays ==
  ASSUME mode' = mode, Told(stream', text')
  PROVE  Told(stream, text)'
<1>1. Holdback' = Holdback /\ (parse_tools' <=> parse_tools)
  BY DEF Holdback, parse_tools
<1> QED BY <1>1 DEF Told, Thinking, Closed, Called, Answered, Spoken

LEMMA ToldFirst == ASSUME NEW m \in Modes, Begin(m) PROVE TextTold'
<1>1. mode' = m /\ stream' = NewStream(m) /\ text' = <<>>
  BY DEF Begin
<1>2. /\ stream'.in_reasoning = (m.chat /\ m.thinking)
      /\ stream'.thinking_carry = <<>> /\ stream'.tool_carry = <<>> /\ ~stream'.capturing
      /\ stream'.reasoning = <<>> /\ stream'.content = <<>>
  BY <1>1, NewFacts
<1>3. <<>> \in Str /\ <<>> \o <<>> = <<>>
  BY EmptySeq, JoinAgain DEF Str
<1>4. ~Has(CloseMarker, <<>>) /\ ~Has(ToolMarker, <<>>)
  BY NothingHeld
<1>5. Spoken(stream, text)'
  BY <1>1, <1>2, <1>3, <1>4 DEF Spoken
<1>6. m.chat /\ m.thinking => Thinking(stream, text)'
  BY <1>1, <1>2, <1>3, <1>4 DEF Thinking
<1> QED BY <1>1, <1>2, <1>5, <1>6 DEF TextTold, Told

LEMMA ToldStep ==
  ASSUME DeltasApart, StreamInv, TextTold, [Next]_vars PROVE TextTold'
<1> USE DEF TextTold
<1>1. CASE \E m \in Modes : Begin(m)
  BY <1>1, ToldFirst
<1>2. ASSUME NEW w \in Deltas, Delta(w) PROVE TextTold'
  <2> SUFFICES ASSUME open PROVE Told(stream, text)'
    BY <1>2 DEF Delta
  <2>1. /\ pc = "streaming" /\ stream.connected /\ stream' = OnDelta(stream, w)
        /\ text' = text \o w /\ mode' = mode
    BY <1>2 DEF Delta
  <2>2. stream \in Streams /\ Carries(stream) /\ text \in Str /\ open \in BOOLEAN
    BY DEF StreamInv, RequestTyped
  <2>3. Told(OnDelta(stream, w), text \o w)
    BY <2>1, <2>2, ToldGrows
  <2> QED BY <2>1, <2>3, ToldStays
<1>3. CASE Start
  <2> SUFFICES ASSUME open PROVE Told(stream, text)'
    BY <1>3 DEF Start
  <2>1. /\ pc = "accepted" /\ mode' = mode /\ text' = text
        /\ stream' = IF mode.chat THEN Sink(stream) ELSE stream
    BY <1>3 DEF Start
  <2>2. stream \in Streams /\ open \in BOOLEAN /\ stream.connected
    BY DEF StreamInv, RequestTyped, ClientServed
  <2>3. stream' = stream
    BY <2>1, <2>2, SinkFacts
  <2> QED BY <2>1, <2>3, ToldStays
<1>4. CASE Disconnect \/ HeaderFails \/ FinishRefused \/ Complete \/ Throws \/ EmitEnding
           \/ Done \/ Block \/ Unblock
  BY <1>4 DEF Disconnect, HeaderFails, FinishRefused, Complete, Throws, EmitEnding, Done, Block,
              Unblock
<1>5. CASE UNCHANGED vars
  <2>1. pc' = pc /\ mode' = mode /\ open' = open /\ stream' = stream /\ text' = text
    BY <1>5 DEF vars
  <2> QED BY <2>1, ToldStays
<1> QED BY <1>1, <1>2, <1>3, <1>4, <1>5 DEF Next

\* However the engine cuts its text, the closure splits it where the whole
\* text is split: nothing is lost, repeated or sent as the wrong field.
\* The one condition is on a delta that completes both markers at once,
\* which on_delta reads as the end of the thoughts.
THEOREM StreamSplitsExactly == DeltasApart => (Spec => []SplitIsExact)
<1> SUFFICES ASSUME DeltasApart PROVE Spec => []SplitIsExact
  OBVIOUS
<1>1. Init => StreamInv /\ TextTold
  <2>1. Init => TextTold
    BY DEF Init, TextTold
  <2> QED BY <2>1, StreamStarts
<1>2. StreamInv /\ TextTold /\ [Next]_vars => (StreamInv /\ TextTold)'
  BY StreamKeeps, ToldStep
<1>3. StreamInv /\ TextTold => SplitIsExact
  <2> SUFFICES ASSUME StreamInv, TextTold, pc = "streaming", open PROVE SplitIsExact
    BY DEF SplitIsExact
  <2> QED BY ToldShows DEF StreamInv, RequestTyped, TextTold
<1> QED BY <1>1, <1>2, <1>3, PTL DEF Spec

-----------------------------------------------------------------------------
(* The policies of speculation.  Each keeps counters; the invariant says   *)
(* of which rounds they are the counts.                                    *)

RoundType ==
  [source : {"learned", "history", "copy"}, depth : Nat, proposed : Nat, accepted : Nat]

Tallies == [rounds : Nat, proposed : Nat, accepted : Nat]

WatchType == [rounds : Nat, proposed : Nat, accepted : Nat, fourth : Nat]

DepthType ==
  [depth : 2..4, probing : BOOLEAN, monitoring : BOOLEAN, adaptive : BOOLEAN,
   fourDone : BOOLEAN, threeDone : BOOLEAN,
   probe : [rounds : Nat, accepted : Nat],
   watch : WatchType,
   losing : Nat]

GuardType ==
  [streak : Nat, rounds : Nat, total : Nat, rows : 0..Window,
   ring : [0..(Window - 1) -> Nat], sum : Nat, cursor : 0..(Window - 1)]

HistoryType == [active : BOOLEAN, rejected : BOOLEAN, learned : Tallies, history : Tallies]

CopyType ==
  [seen : Nat, perfect : Nat, average : 0..Scale, until : Nat, backoff : Nat]

PolicyTyped ==
  /\ setting \in Settings
  /\ rounds \in Seq(RoundType)
  /\ profitable \in BOOLEAN
  /\ depthPolicy \in DepthType
  /\ guard \in GuardType
  /\ historyDraft \in HistoryType
  /\ copyPolicy \in CopyType

\* t counts the last rounds of s.
Counts(t, s) ==
  /\ t.rounds <= Len(s)
  /\ t.proposed = Proposed(LastN(s, t.rounds))
  /\ t.accepted = Accepted(LastN(s, t.rounds))

\* The watch of MtpDepthPolicy counts the last rounds, all of depth d.
Watches(w, s, d) ==
  /\ Counts(w, s) /\ OfDepth(s, w.rounds, d)
  /\ w.fourth = AllFour(LastN(s, w.rounds))

\* While it probes the policy has seen every learned round.
ProbeTrue(p, s) ==
  p.probing =>
    /\ setting.maximum = 3 /\ p.depth = 2
    /\ p.probe.rounds = Len(s) /\ p.probe.accepted = Accepted(s)
    /\ p.probe.rounds < ProbeRounds
    /\ p.watch = Fresh /\ p.losing = 0 /\ ~p.threeDone

FourTrue(p, s) ==
  ~p.probing /\ p.monitoring /\ setting.demotion /\ p.adaptive /\ p.depth = 4 =>
    /\ Watches(p.watch, s, 4) /\ p.watch.rounds < FourMonitor
    /\ p.losing = 0 /\ ~p.threeDone

\* At depth three: the window that is being filled, the lost window before
\* it, and until the probation is over every round of that depth.
ThreeTrue(p, s) ==
  ~p.probing /\ p.monitoring /\ setting.demotion /\ p.depth = 3 =>
    LET n == p.watch.rounds IN
    /\ Watches(p.watch, s, 3) /\ n < MonitorRounds
    /\ p.losing \in {0, 1}
    /\ p.losing = 1 =>
         /\ OfDepth(s, n + MonitorRounds, 3)
         /\ Weak(SubSeq(LastN(s, n + MonitorRounds), 1, MonitorRounds))
    /\ ~p.threeDone /\ PromotionProbation <= MonitorRounds =>
         /\ p.losing = 0 /\ n < PromotionProbation
         /\ Len(s) > n => s[Len(s) - n].depth # 3

DepthTrue(p, s) == ProbeTrue(p, s) /\ FourTrue(p, s) /\ ThreeTrue(p, s)

\* Where the ring keeps the k-th of its rounds.
Place(g, k) ==
  IF g.rows < Window THEN k
  ELSE IF g.cursor + k < Window THEN g.cursor + k ELSE g.cursor + k - Window

\* The guard's ring and sum are those of the last learned rounds, and its
\* streak is the run of empty rounds at their end.
RingTrue(g, s) ==
  /\ g.rounds = Len(s) /\ g.total = Accepted(s)
  /\ g.rows = (IF Len(s) < Window THEN Len(s) ELSE Window)
  /\ g.rows < Window => g.cursor = 0
  /\ \A k \in 0..(g.rows - 1) : g.ring[Place(g, k)] = s[Len(s) - g.rows + k + 1].accepted
  /\ g.sum = Accepted(LastN(s, g.rows))

StreakTrue(g, s) ==
  /\ g.streak <= Len(s)
  /\ \A i \in (Len(s) - g.streak + 1)..Len(s) : s[i].accepted = 0
  /\ Len(s) > g.streak => s[Len(s) - g.streak].accepted # 0

GuardTrue(g, s) == RingTrue(g, s) /\ StreakTrue(g, s)

\* The tallies count the last rounds of their source, the learned ones until
\* history drafts start and the history ones while they run.
HistoryTrue(h, s, t, all) ==
  /\ setting.mode = "adaptive" =>
       /\ ~h.active /\ ~h.rejected =>
            Counts(h.learned, s) /\ h.learned.rounds < LearnedProbe
       /\ h.active => Counts(h.history, t) /\ h.history.rounds < HistoryProbe
       /\ h.active => h.learned = Tally
       /\ ~h.active /\ ~h.rejected => h.history = Tally
       /\ ~(h.active /\ h.rejected)
  /\ (\E i \in 1..Len(all) : all[i].source = "history") => h.active \/ h.rejected

\* Copies: the perfect ones at the end, and how bad the average must be
\* after one, two or three lost ones, unless they led to a suspension.
PerfectTrue(c, s) ==
  /\ c.perfect <= Len(s)
  /\ \A i \in (Len(s) - c.perfect + 1)..Len(s) : s[i].accepted = s[i].proposed

LastLost(c, all) ==
  Len(all) >= 1 /\ LostCopies(all, Len(all), Len(all)) =>
    \/ c.until >= Tokens(SubSeq(all, 1, Len(all) - 1)) + CopyBackoff
    \/ c.seen >= 1 /\ c.average <= 7 * (Scale \div 10)

TwoLost(c, all) ==
  Len(all) >= 2 /\ LostCopies(all, Len(all) - 1, Len(all)) =>
    \/ c.until >= Tokens(SubSeq(all, 1, Len(all) - 1)) + CopyBackoff
    \/ c.seen >= 2 /\ c.average <= 49 * (Scale \div 100)

ThreeLost(c, all) ==
  \A i \in 3..Len(all) : LostCopies(all, i - 2, i) =>
    \/ c.until >= Tokens(SubSeq(all, 1, i - 1)) + CopyBackoff
    \/ Tokens(all) >= Tokens(SubSeq(all, 1, i - 1)) + CopyBackoff

CopyTrue(c, s, all) ==
  /\ PerfectTrue(c, s) /\ c.backoff >= CopyBackoff
  /\ CopyBackoff > 1 => LastLost(c, all) /\ TwoLost(c, all)
  /\ ThreeLost(c, all)

PolicyInv ==
  /\ PolicyTyped
  /\ DepthTrue(depthPolicy, Learned)
  /\ GuardTrue(guard, Learned)
  /\ HistoryTrue(historyDraft, Learned, Histories, rounds)
  /\ CopyTrue(copyPolicy, Copies, rounds)

\* Sums of a field over rounds: one more round adds its own value.
Weights(f, s) == [i \in 1..Len(s) |-> f[s[i]]]

LEMMA WeightsGrow ==
  ASSUME NEW T, NEW s \in Seq(T), NEW x \in T, NEW f \in [T -> Nat]
  PROVE  /\ SumSeq(Weights(f, s)) \in Nat
         /\ SumSeq(Weights(f, Append(s, x))) = SumSeq(Weights(f, s)) + f[x]
<1> DEFINE t == Append(s, x)
           w == [i \in 1..Len(s) |-> f[s[i]]]
           v == [i \in 1..Len(t) |-> f[t[i]]]
<1>1. /\ t \in Seq(T) /\ Len(t) = Len(s) + 1 /\ Len(s) \in Nat
      /\ \A i \in 1..Len(s) : t[i] = s[i] /\ s[i] \in T
      /\ t[Len(s) + 1] = x
  BY AppendProperties, LenProperties, ElementOfSeq
<1> HIDE DEF t
<1>2. \A i \in 1..Len(t) : t[i] \in T
  BY <1>1, ElementOfSeq
<1>3. w \in Seq(Nat) /\ Len(w) = Len(s) /\ \A i \in 1..Len(s) : w[i] = f[s[i]]
  <2>1. w \in [1..Len(s) -> Nat]
    BY <1>1
  <2> QED BY <1>1, <2>1
<1>4. v \in Seq(Nat) /\ Len(v) = Len(t) /\ \A i \in 1..Len(t) : v[i] = f[t[i]]
  <2>1. v \in [1..Len(t) -> Nat]
    BY <1>1, <1>2
  <2> QED BY <1>1, <2>1
<1>5. f[x] \in Nat
  OBVIOUS
<1> HIDE DEF w, v
<1>6. v = Append(w, f[x])
  <2> DEFINE a == Append(w, f[x])
  <2>1. /\ a \in Seq(Nat) /\ Len(a) = Len(w) + 1
        /\ \A i \in 1..Len(w) : a[i] = w[i]
        /\ a[Len(w) + 1] = f[x]
    BY <1>3, <1>5, AppendProperties
  <2> HIDE DEF a
  <2>2. \A i \in 1..Len(v) : v[i] = a[i]
    <3> SUFFICES ASSUME NEW i \in 1..Len(v) PROVE v[i] = a[i]
      OBVIOUS
    <3>1. CASE i <= Len(s)
      <4>1. i \in 1..Len(s) /\ i \in 1..Len(t) /\ i \in 1..Len(w)
        BY <1>1, <1>3, <1>4, <3>1
      <4> QED BY <1>1, <1>3, <1>4, <2>1, <4>1
    <3>2. CASE i = Len(s) + 1
      <4>1. i \in 1..Len(t) /\ i = Len(w) + 1
        BY <1>1, <1>3, <1>4, <3>2
      <4> QED BY <1>1, <1>4, <2>1, <3>2, <4>1
    <3> QED BY <1>1, <1>4, <3>1, <3>2
  <2>3. Len(v) = Len(a)
    BY <1>1, <1>3, <1>4, <2>1
  <2>4. v = a
    BY <1>4, <2>1, <2>2, <2>3, SeqEqual
  <2> QED BY <2>4 DEF a
<1>7. SumSeq(w) \in Nat /\ SumSeq(v) = SumSeq(w) + f[x]
  BY <1>3, <1>5, <1>6, SumNat, SumAppend
<1> QED BY <1>7 DEF w, v, t, Weights

LEMMA RoundSums ==
  ASSUME NEW s \in Seq(RoundType), NEW r \in RoundType
  PROVE  /\ Accepted(s) \in Nat /\ Accepted(Append(s, r)) = Accepted(s) + r.accepted
         /\ Proposed(s) \in Nat /\ Proposed(Append(s, r)) = Proposed(s) + r.proposed
         /\ Tokens(s) \in Nat /\ Tokens(Append(s, r)) = Tokens(s) + (r.accepted + 1)
<1>0. \A x \in RoundType : x.accepted \in Nat /\ x.proposed \in Nat /\ x.accepted + 1 \in Nat
  BY DEF RoundType
<1> DEFINE t == Append(s, r)
<1>1. /\ t \in Seq(RoundType)
      /\ \A i \in 1..Len(s) : s[i] \in RoundType
      /\ \A i \in 1..Len(t) : t[i] \in RoundType
  BY AppendProperties, ElementOfSeq
<1> HIDE DEF t
<1>2. Accepted(s) \in Nat /\ Accepted(t) = Accepted(s) + r.accepted
  <2> DEFINE f == [x \in RoundType |-> x.accepted]
  <2>1. f \in [RoundType -> Nat] /\ f[r] = r.accepted
    BY <1>0
  <2>2. /\ [i \in 1..Len(s) |-> s[i].accepted] = Weights(f, s)
        /\ [i \in 1..Len(t) |-> t[i].accepted] = Weights(f, t)
    BY <1>1 DEF Weights
  <2> HIDE DEF f
  <2>3. /\ SumSeq(Weights(f, s)) \in Nat
        /\ SumSeq(Weights(f, t)) = SumSeq(Weights(f, s)) + f[r]
    BY <2>1, WeightsGrow DEF t
  <2> QED BY <2>1, <2>2, <2>3 DEF Accepted
<1>3. Proposed(s) \in Nat /\ Proposed(t) = Proposed(s) + r.proposed
  <2> DEFINE f == [x \in RoundType |-> x.proposed]
  <2>1. f \in [RoundType -> Nat] /\ f[r] = r.proposed
    BY <1>0
  <2>2. /\ [i \in 1..Len(s) |-> s[i].proposed] = Weights(f, s)
        /\ [i \in 1..Len(t) |-> t[i].proposed] = Weights(f, t)
    BY <1>1 DEF Weights
  <2> HIDE DEF f
  <2>3. /\ SumSeq(Weights(f, s)) \in Nat
        /\ SumSeq(Weights(f, t)) = SumSeq(Weights(f, s)) + f[r]
    BY <2>1, WeightsGrow DEF t
  <2> QED BY <2>1, <2>2, <2>3 DEF Proposed
<1>4. Tokens(s) \in Nat /\ Tokens(t) = Tokens(s) + (r.accepted + 1)
  <2> DEFINE f == [x \in RoundType |-> x.accepted + 1]
  <2>1. f \in [RoundType -> Nat] /\ f[r] = r.accepted + 1
    BY <1>0
  <2>2. /\ [i \in 1..Len(s) |-> s[i].accepted + 1] = Weights(f, s)
        /\ [i \in 1..Len(t) |-> t[i].accepted + 1] = Weights(f, t)
    BY <1>1 DEF Weights
  <2> HIDE DEF f
  <2>3. /\ SumSeq(Weights(f, s)) \in Nat
        /\ SumSeq(Weights(f, t)) = SumSeq(Weights(f, s)) + f[r]
    BY <2>1, WeightsGrow DEF t
  <2> QED BY <2>1, <2>2, <2>3 DEF Tokens
<1> QED BY <1>2, <1>3, <1>4 DEF t

LEMMA RoundFours ==
  ASSUME NEW s \in Seq(RoundType), NEW r \in RoundType
  PROVE  /\ AllFour(s) \in Nat
         /\ AllFour(Append(s, r)) = AllFour(s) + (IF r.accepted >= 4 THEN 1 ELSE 0)
<1> DEFINE t == Append(s, r)
           A == {i \in 1..Len(s) : s[i].accepted >= 4}
           B == {i \in 1..Len(t) : t[i].accepted >= 4}
<1>1. /\ Len(t) = Len(s) + 1 /\ Len(s) \in Nat
      /\ \A i \in 1..Len(s) : t[i] = s[i]
      /\ t[Len(s) + 1] = r
  BY AppendProperties, LenProperties
<1> HIDE DEF t
<1>2. IsFiniteSet(A) /\ Len(s) + 1 \notin A
  <2>1. IsFiniteSet(1..Len(s)) /\ A \subseteq 1..Len(s)
    BY <1>1, FS_Interval
  <2>2. Len(s) + 1 \notin 1..Len(s)
    BY <1>1
  <2> HIDE DEF A
  <2> QED BY <2>1, <2>2, FS_Subset
<1>3. B = IF r.accepted >= 4 THEN A \cup {Len(s) + 1} ELSE A
  BY <1>1
<1> HIDE DEF A, B
<1>4. Cardinality(A) \in Nat /\ Cardinality(A \cup {Len(s) + 1}) = Cardinality(A) + 1
  BY <1>2, FS_CardinalityType, FS_AddElement
<1>5. AllFour(s) = Cardinality(A) /\ AllFour(t) = Cardinality(B)
  BY DEF AllFour, A, B
<1>6. Cardinality(B) = Cardinality(A) + (IF r.accepted >= 4 THEN 1 ELSE 0)
  <2>1. CASE r.accepted >= 4
    BY <1>3, <1>4, <2>1
  <2>2. CASE ~(r.accepted >= 4)
    BY <1>3, <1>4, <2>2
  <2> QED BY <2>1, <2>2
<1> QED BY <1>4, <1>5, <1>6 DEF t

\* No rounds, no sums.
LEMMA NoRounds ==
  /\ <<>> \in Seq(RoundType) /\ Len(<<>>) = 0
  /\ Accepted(<<>>) = 0 /\ Proposed(<<>>) = 0 /\ Tokens(<<>>) = 0 /\ AllFour(<<>>) = 0
<1>1. <<>> \in Seq(RoundType) /\ <<>> \in Seq(Nat) /\ Len(<<>>) = 0
  BY EmptySeq
<1>2. /\ [i \in 1..Len(<<>>) |-> <<>>[i].accepted] \in Seq(Nat)
      /\ [i \in 1..Len(<<>>) |-> <<>>[i].proposed] \in Seq(Nat)
      /\ [i \in 1..Len(<<>>) |-> <<>>[i].accepted + 1] \in Seq(Nat)
  BY <1>1
<1>3. 1..Len(<<>>) = {}
  BY <1>1
<1>4. Accepted(<<>>) = 0
  <2>1. \A k \in 1..Len([i \in 1..Len(<<>>) |-> <<>>[i].accepted]) :
          [i \in 1..Len(<<>>) |-> <<>>[i].accepted][k] = 0
    BY <1>2, <1>3, LenProperties
  <2> QED BY <1>2, <2>1, SumZero DEF Accepted
<1>5. Proposed(<<>>) = 0
  <2>1. \A k \in 1..Len([i \in 1..Len(<<>>) |-> <<>>[i].proposed]) :
          [i \in 1..Len(<<>>) |-> <<>>[i].proposed][k] = 0
    BY <1>2, <1>3, LenProperties
  <2> QED BY <1>2, <2>1, SumZero DEF Proposed
<1>6. Tokens(<<>>) = 0
  <2>1. \A k \in 1..Len([i \in 1..Len(<<>>) |-> <<>>[i].accepted + 1]) :
          [i \in 1..Len(<<>>) |-> <<>>[i].accepted + 1][k] = 0
    BY <1>2, <1>3, LenProperties
  <2> QED BY <1>2, <2>1, SumZero DEF Tokens
<1>7. AllFour(<<>>) = 0
  BY <1>3, FS_EmptySet DEF AllFour
<1> QED BY <1>1, <1>4, <1>5, <1>6, <1>7

\* The last n of a sequence, when it grows.
LEMMA LastFacts ==
  ASSUME NEW T, NEW s \in Seq(T), NEW n \in 0..Len(s)
  PROVE  /\ LastN(s, n) \in Seq(T) /\ Len(LastN(s, n)) = n
         /\ \A i \in 1..n : LastN(s, n)[i] = s[Len(s) - n + i]
<1>1. Len(s) \in Nat /\ \A i \in 1..Len(s) : s[i] \in T
  BY LenProperties, ElementOfSeq
<1> DEFINE m == Len(s) - n + 1
<1>2. m \in Int /\ Len(s) \in Int /\ \A i \in m..Len(s) : s[i] \in T
  BY <1>1
<1>3. /\ SubSeq(s, m, Len(s)) \in Seq(T)
      /\ Len(SubSeq(s, m, Len(s))) = (IF m <= Len(s) THEN Len(s) - m + 1 ELSE 0)
      /\ \A i \in 1..(Len(s) - m + 1) : SubSeq(s, m, Len(s))[i] = s[m + i - 1]
  <2> HIDE DEF m
  <2> QED BY <1>2, SubSeqProperties
<1>4. Len(s) - m + 1 = n /\ (m <= Len(s) <=> n > 0) /\ \A i \in 1..n : m + i - 1 = Len(s) - n + i
  BY <1>1
<1>5. LastN(s, n) = SubSeq(s, m, Len(s))
  BY DEF LastN
<1> HIDE DEF m
<1>6. Len(LastN(s, n)) = n
  BY <1>1, <1>3, <1>4, <1>5
<1>7. \A i \in 1..n : LastN(s, n)[i] = s[Len(s) - n + i]
  BY <1>3, <1>4, <1>5
<1> QED BY <1>3, <1>5, <1>6, <1>7

LEMMA LastGrows ==
  ASSUME NEW T, NEW s \in Seq(T), NEW x \in T, NEW n \in 0..Len(s)
  PROVE  /\ LastN(Append(s, x), n + 1) = Append(LastN(s, n), x)
         /\ n + 1 \in 0..Len(Append(s, x))
<1> DEFINE t == Append(s, x)
           u == LastN(s, n)
           a == Append(u, x)
           b == LastN(t, n + 1)
<1>1. /\ t \in Seq(T) /\ Len(t) = Len(s) + 1 /\ Len(s) \in Nat
      /\ \A i \in 1..Len(s) : t[i] = s[i]
      /\ t[Len(s) + 1] = x
  BY AppendProperties, LenProperties
<1>2. u \in Seq(T) /\ Len(u) = n /\ \A i \in 1..n : u[i] = s[Len(s) - n + i]
  BY LastFacts
<1> HIDE DEF t, u
<1>3. a \in Seq(T) /\ Len(a) = n + 1 /\ (\A i \in 1..n : a[i] = u[i]) /\ a[n + 1] = x
  BY <1>2, AppendProperties
<1>4. n \in Nat /\ n <= Len(s) /\ n + 1 \in 0..Len(t)
  BY <1>1
<1>5. b \in Seq(T) /\ Len(b) = n + 1 /\ \A i \in 1..(n + 1) : b[i] = t[Len(t) - (n + 1) + i]
  BY <1>1, <1>4, LastFacts
<1> HIDE DEF a, b
<1>6. ASSUME NEW i \in 1..Len(a) PROVE a[i] = b[i]
  <2>1. CASE i <= n
    <3>1. i \in 1..n /\ i \in 1..(n + 1)
      BY <1>3, <1>4, <2>1
    <3>2. Len(t) - (n + 1) + i = Len(s) - n + i /\ Len(s) - n + i \in 1..Len(s)
      BY <1>1, <1>4, <3>1
    <3>3. a[i] = s[Len(s) - n + i]
      BY <1>2, <1>3, <3>1
    <3>4. b[i] = t[Len(s) - n + i]
      BY <1>5, <3>1, <3>2
    <3>5. t[Len(s) - n + i] = s[Len(s) - n + i]
      BY <1>1, <3>2
    <3> QED BY <3>3, <3>4, <3>5
  <2>2. CASE i = n + 1
    <3>1. Len(t) - (n + 1) + i = Len(s) + 1 /\ i \in 1..(n + 1)
      BY <1>1, <1>4, <2>2
    <3> QED BY <1>1, <1>3, <1>5, <2>2, <3>1
  <2> QED BY <1>3, <1>4, <2>1, <2>2
<1>7. a = b
  BY <1>3, <1>5, <1>6, SeqEqual
<1> QED BY <1>4, <1>7 DEF a, b, t, u

\* Without its first round a window has its accepted drafts less.
LEMMA LastSlides ==
  ASSUME NEW s \in Seq(RoundType), NEW n \in 1..Len(s)
  PROVE  Accepted(LastN(s, n)) = s[Len(s) - n + 1].accepted + Accepted(LastN(s, n - 1))
<1> DEFINE w == [i \in 1..Len(LastN(s, n)) |-> LastN(s, n)[i].accepted]
           v == [i \in 1..Len(LastN(s, n - 1)) |-> LastN(s, n - 1)[i].accepted]
<1>1. Len(s) \in Nat /\ n \in Nat /\ n >= 1 /\ n <= Len(s) /\ \A i \in 1..Len(s) : s[i].accepted \in Nat
  <2>1. \A i \in 1..Len(s) : s[i] \in RoundType
    BY ElementOfSeq
  <2>2. \A i \in 1..Len(s) : s[i].accepted \in Nat
    BY <2>1 DEF RoundType
  <2>3. Len(s) \in Nat
    BY LenProperties
  <2> QED BY <2>2, <2>3
<1>2. /\ Len(LastN(s, n)) = n /\ \A i \in 1..n : LastN(s, n)[i] = s[Len(s) - n + i]
      /\ Len(LastN(s, n - 1)) = n - 1
      /\ \A i \in 1..(n - 1) : LastN(s, n - 1)[i] = s[Len(s) - (n - 1) + i]
  <2>1. n \in 0..Len(s) /\ n - 1 \in 0..Len(s)
    BY <1>1
  <2>2. Len(LastN(s, n)) = n /\ \A i \in 1..n : LastN(s, n)[i] = s[Len(s) - n + i]
    BY <2>1, LastFacts
  <2> DEFINE m == n - 1
  <2>3. m \in 0..Len(s)
    BY <2>1
  <2> HIDE DEF m
  <2>4. Len(LastN(s, m)) = m /\ \A i \in 1..m : LastN(s, m)[i] = s[Len(s) - m + i]
    BY <2>3, LastFacts
  <2> QED BY <2>2, <2>4 DEF m
<1>3. w \in Seq(Nat) /\ Len(w) = n /\ \A i \in 1..n : w[i] = s[Len(s) - n + i].accepted
  <2>1. \A i \in 1..n : Len(s) - n + i \in 1..Len(s)
    BY <1>1
  <2>2. w \in [1..n -> Nat] /\ \A i \in 1..n : w[i] = s[Len(s) - n + i].accepted
    BY <1>1, <1>2, <2>1
  <2>3. n \in Nat
    BY <1>1
  <2> HIDE DEF w
  <2>4. w \in Seq(Nat) /\ Len(w) = n
    BY <2>2, <2>3
  <2> QED BY <2>2, <2>4
<1>4. v \in Seq(Nat) /\ Len(v) = n - 1 /\ \A i \in 1..(n - 1) : v[i] = s[Len(s) - (n - 1) + i].accepted
  <2>1. \A i \in 1..(n - 1) : Len(s) - (n - 1) + i \in 1..Len(s)
    BY <1>1
  <2>2. v \in [1..(n - 1) -> Nat] /\ \A i \in 1..(n - 1) : v[i] = s[Len(s) - (n - 1) + i].accepted
    BY <1>1, <1>2, <2>1
  <2> HIDE DEF v
  <2> DEFINE m == n - 1
  <2>3. m \in Nat /\ v \in [1..m -> Nat]
    BY <1>1, <2>2
  <2> HIDE DEF m
  <2>4. v \in Seq(Nat) /\ Len(v) = m
    BY <2>3
  <2> QED BY <2>2, <2>4 DEF m
<1>5. Accepted(LastN(s, n)) = SumSeq(w) /\ Accepted(LastN(s, n - 1)) = SumSeq(v)
  BY DEF Accepted
<1> HIDE DEF w, v
<1>6. 1 \in 1..Len(w)
  BY <1>1, <1>3
<1>7. /\ Omit(w, 1) \in Seq(Nat) /\ Len(Omit(w, 1)) = n - 1
      /\ \A k \in 1..(n - 1) : Omit(w, 1)[k] = w[k + 1]
  <2>1. /\ Omit(w, 1) \in Seq(Nat) /\ Len(Omit(w, 1)) = Len(w) - 1
        /\ \A k \in 1..(Len(w) - 1) : Omit(w, 1)[k] = IF k < 1 THEN w[k] ELSE w[k + 1]
    BY <1>3, <1>6, OmitFacts
  <2> QED BY <1>1, <1>3, <2>1
<1>8. \A k \in 1..(n - 1) : Omit(w, 1)[k] = v[k]
  <2> SUFFICES ASSUME NEW k \in 1..(n - 1) PROVE Omit(w, 1)[k] = v[k]
    OBVIOUS
  <2>1. k + 1 \in 1..n /\ Len(s) - n + (k + 1) = Len(s) - (n - 1) + k
    BY <1>1
  <2>2. w[k + 1] = s[Len(s) - n + (k + 1)].accepted
    BY <1>3, <2>1
  <2> QED BY <1>4, <1>7, <2>1, <2>2
<1>9. Omit(w, 1) = v
  BY <1>4, <1>7, <1>8, SeqEqual
<1>10. SumSeq(v) + w[1] = SumSeq(w) /\ SumSeq(v) \in Nat /\ w[1] \in Nat
  BY <1>3, <1>4, <1>6, <1>9, SumOmit, SumNat, ElementOfSeq
<1>11. w[1] = s[Len(s) - n + 1].accepted
  BY <1>1, <1>3
<1> QED BY <1>5, <1>10, <1>11

\* Nothing was accepted exactly if no round accepted anything.
LEMMA NothingAccepted ==
  ASSUME NEW s \in Seq(RoundType)
  PROVE  Accepted(s) = 0 <=> \A i \in 1..Len(s) : s[i].accepted = 0
<1> DEFINE w == [i \in 1..Len(s) |-> s[i].accepted]
<1>1. \A i \in 1..Len(s) : s[i].accepted \in Nat
  <2>1. \A i \in 1..Len(s) : s[i] \in RoundType
    BY ElementOfSeq
  <2> QED BY <2>1 DEF RoundType
<1>2. w \in Seq(Nat) /\ Len(w) = Len(s) /\ \A i \in 1..Len(s) : w[i] = s[i].accepted
  <2>1. w \in [1..Len(s) -> Nat] /\ Len(s) \in Nat
    BY <1>1, LenProperties
  <2> QED BY <2>1
<1>3. Accepted(s) = SumSeq(w)
  BY DEF Accepted
<1> HIDE DEF w
<1>4. ASSUME \A i \in 1..Len(s) : s[i].accepted = 0 PROVE SumSeq(w) = 0
  BY <1>2, <1>4, SumZero
<1>5. ASSUME SumSeq(w) = 0, NEW i \in 1..Len(s) PROVE s[i].accepted = 0
  <2>1. i \in 1..Len(w) /\ w[i] \in Nat
    BY <1>1, <1>2
  <2>2. Omit(w, i) \in Seq(Nat)
    BY <1>2, <2>1, OmitFacts
  <2>3. SumSeq(Omit(w, i)) \in Nat
    BY <2>2, SumNat
  <2>4. SumSeq(Omit(w, i)) + w[i] = 0
    BY <1>2, <1>5, <2>1, SumOmit
  <2>5. w[i] = 0
    BY <2>1, <2>3, <2>4
  <2> QED BY <1>2, <2>5
<1> QED BY <1>3, <1>4, <1>5

LEMMA NoneLast ==
  ASSUME NEW T, NEW s \in Seq(T)
  PROVE  LastN(s, 0) = <<>> /\ 0 \in 0..Len(s) /\ Len(s) \in Nat
<1>1. Len(s) \in Nat /\ 0 \in 0..Len(s)
  BY LenProperties
<1>2. LastN(s, 0) \in Seq(T) /\ Len(LastN(s, 0)) = 0
  BY <1>1, LastFacts
<1> QED BY <1>1, <1>2, EmptySeq

\* The start of a sequence stays when it grows.
LEMMA StartStays ==
  ASSUME NEW T, NEW s \in Seq(T), NEW x \in T, NEW m \in 0..Len(s)
  PROVE  SubSeq(Append(s, x), 1, m) = SubSeq(s, 1, m)
<1> DEFINE t == Append(s, x)
<1>1. /\ t \in Seq(T) /\ Len(t) = Len(s) + 1 /\ Len(s) \in Nat
      /\ \A i \in 1..Len(s) : t[i] = s[i] /\ s[i] \in T
  BY AppendProperties, LenProperties, ElementOfSeq
<1> HIDE DEF t
<1>2. m \in Int /\ 1 \in Int /\ \A i \in 1..m : t[i] = s[i] /\ s[i] \in T
  BY <1>1
<1>3. /\ SubSeq(s, 1, m) \in Seq(T) /\ Len(SubSeq(s, 1, m)) = (IF 1 <= m THEN m - 1 + 1 ELSE 0)
      /\ \A i \in 1..(m - 1 + 1) : SubSeq(s, 1, m)[i] = s[1 + i - 1]
  BY <1>2, SubSeqProperties
<1>4. /\ SubSeq(t, 1, m) \in Seq(T) /\ Len(SubSeq(t, 1, m)) = (IF 1 <= m THEN m - 1 + 1 ELSE 0)
      /\ \A i \in 1..(m - 1 + 1) : SubSeq(t, 1, m)[i] = t[1 + i - 1]
  <2>1. \A i \in 1..m : t[i] \in T
    BY <1>2
  <2> QED BY <1>2, <2>1, SubSeqProperties
<1>5. /\ Len(SubSeq(s, 1, m)) = m /\ Len(SubSeq(t, 1, m)) = m
      /\ \A i \in 1..m : SubSeq(s, 1, m)[i] = s[i] /\ SubSeq(t, 1, m)[i] = t[i]
  <2>1. m - 1 + 1 = m /\ (1 <= m \/ m = 0) /\ \A i \in 1..m : 1 + i - 1 = i
    BY <1>1
  <2> QED BY <1>3, <1>4, <2>1
<1>6. \A i \in 1..m : SubSeq(t, 1, m)[i] = SubSeq(s, 1, m)[i]
  BY <1>2, <1>5
<1>7. SubSeq(t, 1, m) = SubSeq(s, 1, m)
  BY <1>3, <1>4, <1>5, <1>6, SeqEqual
<1> QED BY <1>7 DEF t

LEMMA CountsGrow ==
  ASSUME NEW s \in Seq(RoundType), NEW r \in RoundType,
         NEW t, t.rounds \in Nat, Counts(t, s),
         NEW u, u.rounds = t.rounds + 1, u.proposed = t.proposed + r.proposed,
         u.accepted = t.accepted + r.accepted
  PROVE  Counts(u, Append(s, r))
<1>1. t.rounds \in 0..Len(s) /\ Len(s) \in Nat
  BY LenProperties DEF Counts
<1>2. /\ LastN(Append(s, r), t.rounds + 1) = Append(LastN(s, t.rounds), r)
      /\ t.rounds + 1 \in 0..Len(Append(s, r))
  BY <1>1, LastGrows
<1>3. LastN(s, t.rounds) \in Seq(RoundType)
  BY <1>1, LastFacts
<1>4. /\ Accepted(Append(LastN(s, t.rounds), r)) = Accepted(LastN(s, t.rounds)) + r.accepted
      /\ Proposed(Append(LastN(s, t.rounds), r)) = Proposed(LastN(s, t.rounds)) + r.proposed
  BY <1>3, RoundSums
<1>5. u.rounds <= Len(Append(s, r))
  <2>1. Len(Append(s, r)) \in Nat
    BY AppendProperties, LenProperties
  <2> QED BY <1>1, <1>2, <2>1
<1> QED BY <1>2, <1>4, <1>5 DEF Counts

LEMMA DepthGrows ==
  ASSUME NEW s \in Seq(RoundType), NEW r \in RoundType, NEW n \in Nat, NEW d,
         OfDepth(s, n, d), r.depth = d
  PROVE  OfDepth(Append(s, r), n + 1, d)
<1>1. n \in 0..Len(s) /\ Len(s) \in Nat
  BY LenProperties DEF OfDepth
<1>2. /\ LastN(Append(s, r), n + 1) = Append(LastN(s, n), r)
      /\ n + 1 \in 0..Len(Append(s, r))
  BY <1>1, LastGrows
<1>3. LastN(s, n) \in Seq(RoundType) /\ Len(LastN(s, n)) = n
  BY <1>1, LastFacts
<1> DEFINE u == LastN(s, n)
           v == Append(u, r)
<1>4. (\A i \in 1..n : v[i] = u[i]) /\ v[n + 1] = r
  BY <1>3, AppendProperties
<1>5. \A i \in 1..n : u[i].depth = d
  BY DEF OfDepth
<1> HIDE DEF u, v
<1>6. \A i \in 1..(n + 1) : v[i].depth = d
  <2> SUFFICES ASSUME NEW i \in 1..(n + 1) PROVE v[i].depth = d
    OBVIOUS
  <2>1. i \in 1..n \/ i = n + 1
    BY <1>1
  <2> QED BY <1>4, <1>5, <2>1
<1>7. Len(Append(s, r)) >= n + 1
  <2>1. Len(Append(s, r)) \in Nat
    BY AppendProperties, LenProperties
  <2> QED BY <1>1, <1>2, <2>1
<1> QED BY <1>2, <1>6, <1>7 DEF OfDepth, u, v

LEMMA NoneWatched ==
  ASSUME NEW s \in Seq(RoundType), NEW d
  PROVE  Watches(Fresh, s, d) /\ Counts(Tally, s)
<1>1. LastN(s, 0) = <<>> /\ Len(s) \in Nat
  BY NoneLast
<1>2. Fresh.rounds = 0 /\ Fresh.proposed = 0 /\ Fresh.accepted = 0 /\ Fresh.fourth = 0
  BY DEF Fresh
<1>3. Tally.rounds = 0 /\ Tally.proposed = 0 /\ Tally.accepted = 0
  BY DEF Tally
<1>4. OfDepth(s, 0, d)
  BY <1>1 DEF OfDepth
<1> QED BY <1>1, <1>2, <1>3, <1>4, NoRounds DEF Watches, Counts

\* One more round of the same depth.
LEMMA WatchGrows ==
  ASSUME NEW s \in Seq(RoundType), NEW r \in RoundType, NEW w \in WatchType,
         NEW d, Watches(w, s, d), r.depth = d
  PROVE  /\ Watches(Watched(w, r.proposed, r.accepted), Append(s, r), d)
         /\ Watched(w, r.proposed, r.accepted) \in WatchType
         /\ Watched(w, r.proposed, r.accepted).rounds = w.rounds + 1
<1> DEFINE v == Watched(w, r.proposed, r.accepted)
<1>1. /\ w.rounds \in Nat /\ w.proposed \in Nat /\ w.accepted \in Nat /\ w.fourth \in Nat
      /\ r.proposed \in Nat /\ r.accepted \in Nat
  BY DEF WatchType, RoundType
<1>2. /\ v.rounds = w.rounds + 1 /\ v.proposed = w.proposed + r.proposed
      /\ v.accepted = w.accepted + r.accepted
      /\ v.fourth = w.fourth + (IF r.accepted >= 4 THEN 1 ELSE 0)
  BY DEF Watched
<1>3. v \in WatchType
  <2>1. w.fourth + (IF r.accepted >= 4 THEN 1 ELSE 0) \in Nat
    BY <1>1
  <2> QED BY <1>1, <2>1 DEF Watched, WatchType
<1> HIDE DEF v
<1>4. Counts(w, s) /\ OfDepth(s, w.rounds, d) /\ w.fourth = AllFour(LastN(s, w.rounds))
  BY DEF Watches
<1>5. Counts(v, Append(s, r))
  BY <1>1, <1>2, <1>4, CountsGrow
<1>6. OfDepth(Append(s, r), v.rounds, d)
  BY <1>1, <1>2, <1>4, DepthGrows
<1>7. v.fourth = AllFour(LastN(Append(s, r), v.rounds))
  <2>1. w.rounds \in 0..Len(s)
    BY <1>1, <1>4, LenProperties DEF Counts
  <2>2. /\ LastN(Append(s, r), w.rounds + 1) = Append(LastN(s, w.rounds), r)
        /\ LastN(s, w.rounds) \in Seq(RoundType)
    BY <2>1, LastGrows, LastFacts
  <2>3. AllFour(Append(LastN(s, w.rounds), r))
          = AllFour(LastN(s, w.rounds)) + (IF r.accepted >= 4 THEN 1 ELSE 0)
    BY <2>2, RoundFours
  <2> QED BY <1>2, <1>4, <2>2, <2>3
<1> QED BY <1>2, <1>3, <1>5, <1>6, <1>7 DEF Watches, v

-----------------------------------------------------------------------------
(* MtpDepthPolicy.                                                         *)

\* What DepthEarned asks of a policy p that becomes q after the rounds s.
DepthFair(p, q, s) ==
  /\ q.depth > p.depth => Len(s) = ProbeRounds /\ Accepted(s) >= ProbeThreshold
  /\ q.depth < p.depth /\ p.depth = 4 =>
       \E n \in {FourProbation, FourMonitor} :
         OfDepth(s, n, 4) /\ 2 * AllFour(LastN(s, n)) < n
  /\ q.depth < p.depth /\ p.depth = 3 =>
       \/ /\ OfDepth(s, PromotionProbation, 3)
          /\ ~OfDepth(s, PromotionProbation + 1, 3)
          /\ Weak(LastN(s, PromotionProbation))
       \/ /\ OfDepth(s, 2 * MonitorRounds, 3)
          /\ Weak(LastN(s, MonitorRounds))
          /\ Weak(SubSeq(LastN(s, 2 * MonitorRounds), 1, MonitorRounds))

LEMMA PolicyNumbers ==
  /\ ProbeRounds \in Nat /\ ProbeRounds > 0 /\ ProbeThreshold \in Nat
  /\ MonitorRounds \in Nat /\ MonitorRounds > 0
  /\ FourProbation \in Nat /\ FourProbation > 0 /\ FourProbation <= FourMonitor
  /\ FourMonitor \in Nat /\ FourMonitor > 0
  /\ PromotionProbation \in Nat /\ PromotionProbation > 0
  /\ Window \in Nat /\ Window > 0
  /\ LearnedProbe \in Nat /\ LearnedProbe > 0 /\ HistoryProbe \in Nat /\ HistoryProbe > 0
  /\ FallbackRounds \in Nat /\ FallbackRounds > 0
  /\ NarrowCopy \in Nat /\ NarrowCopy > 0
  /\ CopyBackoff \in Nat /\ CopyBackoff > 0 /\ MaxBackoff \in Nat /\ CopyBackoff <= MaxBackoff
<1>1. FourMonitor \in Nat /\ FourMonitor > 0
  BY DraftPolicyAssumption
<1>2. FourProbation \in 1..FourMonitor
  BY DraftPolicyAssumption
<1> QED BY <1>1, <1>2, DraftPolicyAssumption

\* The last round of a sequence that grew.
LEMMA LastRound ==
  ASSUME NEW s \in Seq(RoundType), NEW r \in RoundType
  PROVE  /\ Append(s, r) \in Seq(RoundType) /\ Len(Append(s, r)) = Len(s) + 1
         /\ Len(s) \in Nat /\ Append(s, r)[Len(Append(s, r))] = r
         /\ \A i \in 1..Len(s) : Append(s, r)[i] = s[i]
<1>1. /\ Append(s, r) \in Seq(RoundType) /\ Len(Append(s, r)) = Len(s) + 1
      /\ Append(s, r)[Len(s) + 1] = r /\ \A i \in 1..Len(s) : Append(s, r)[i] = s[i]
  BY AppendProperties
<1>2. Len(s) \in Nat
  BY LenProperties
<1> QED BY <1>1, <1>2

LEMMA ProbeStep ==
  ASSUME setting \in Settings, NEW p \in DepthType, NEW s \in Seq(RoundType),
         NEW r \in RoundType, r.depth = p.depth, p.probing, ProbeTrue(p, s)
  PROVE  /\ ProbeRound(p, r.accepted) \in DepthType
         /\ DepthTrue(ProbeRound(p, r.accepted), Append(s, r))
         /\ DepthFair(p, ProbeRound(p, r.accepted), Append(s, r))
<1> DEFINE t == Append(s, r)
           q == ProbeRound(p, r.accepted)
           wins == /\ p.probe.rounds + 1 = ProbeRounds
                   /\ p.probe.accepted + r.accepted >= ProbeThreshold
<1>1. /\ setting.maximum = 3 /\ p.depth = 2
      /\ p.probe.rounds = Len(s) /\ p.probe.accepted = Accepted(s)
      /\ p.probe.rounds < ProbeRounds
      /\ p.watch = Fresh /\ p.losing = 0 /\ ~p.threeDone
  BY DEF ProbeTrue
<1>2. r.accepted \in Nat /\ p.probe.rounds \in Nat /\ p.probe.accepted \in Nat
  BY DEF RoundType, DepthType
<1>3. /\ q.probe = [rounds |-> p.probe.rounds + 1, accepted |-> p.probe.accepted + r.accepted]
      /\ q.probing = (p.probe.rounds + 1 # ProbeRounds)
      /\ q.depth = (IF wins THEN 3 ELSE 2)
      /\ q.monitoring = (p.monitoring \/ wins)
      /\ q.watch = Fresh /\ q.losing = 0 /\ q.threeDone = p.threeDone
      /\ q.adaptive = p.adaptive /\ q.fourDone = p.fourDone
  BY <1>1 DEF ProbeRound, DepthType
<1>4. q \in DepthType
  <2> DEFINE a == [rounds |-> p.probe.rounds + 1, accepted |-> p.probe.accepted + r.accepted]
             b == ~(a.rounds = ProbeRounds)
             d == IF a.rounds = ProbeRounds /\ a.accepted >= ProbeThreshold
                  THEN setting.maximum ELSE p.depth
             m == p.monitoring \/ (a.rounds = ProbeRounds /\ a.accepted >= ProbeThreshold)
  <2>1. q = [p EXCEPT !.probe = a, !.probing = b, !.depth = d, !.monitoring = m]
    BY DEF ProbeRound
  <2>2. a \in [rounds : Nat, accepted : Nat] /\ b \in BOOLEAN /\ d \in 2..4
    BY <1>1, <1>2
  <2>3. m \in BOOLEAN
    OBVIOUS
  <2> HIDE DEF a, b, d, m, q
  <2> QED BY <2>1, <2>2, <2>3 DEF DepthType
<1>5. /\ t \in Seq(RoundType) /\ Len(t) = Len(s) + 1 /\ Len(s) \in Nat /\ t[Len(t)] = r
      /\ Accepted(t) = p.probe.accepted + r.accepted
  BY <1>1, LastRound, RoundSums
<1> HIDE DEF q, t
<1>6. ProbeTrue(q, t)
  <2> SUFFICES ASSUME q.probing
               PROVE  /\ setting.maximum = 3 /\ q.depth = 2
                      /\ q.probe.rounds = Len(t) /\ q.probe.accepted = Accepted(t)
                      /\ q.probe.rounds < ProbeRounds
                      /\ q.watch = Fresh /\ q.losing = 0 /\ ~q.threeDone
    BY DEF ProbeTrue
  <2>1. p.probe.rounds + 1 # ProbeRounds /\ ~wins
    BY <1>3
  <2>2. p.probe.rounds + 1 < ProbeRounds
    BY <1>1, <1>2, <2>1, PolicyNumbers
  <2> QED BY <1>1, <1>2, <1>3, <1>5, <2>1, <2>2
<1>7. FourTrue(q, t)
  <2>1. q.depth # 4
    BY <1>3
  <2> QED BY <2>1 DEF FourTrue
<1>8. ThreeTrue(q, t)
  <2>1. Watches(q.watch, t, 3)
    BY <1>3, <1>5, NoneWatched
  <2>2. q.watch.rounds = 0
    BY <1>3 DEF Fresh
  <2>3. t[Len(t) - 0].depth # 3
    BY <1>1, <1>5
  <2> QED BY <1>3, <2>1, <2>2, <2>3, PolicyNumbers DEF ThreeTrue
<1>9. DepthFair(p, q, t)
  <2>1. ~(q.depth < p.depth)
    BY <1>1, <1>3
  <2>2. q.depth > p.depth => wins
    BY <1>1, <1>3
  <2> QED BY <1>1, <1>2, <1>5, <2>1, <2>2 DEF DepthFair
<1> QED BY <1>4, <1>6, <1>7, <1>8, <1>9 DEF DepthTrue, q, t

LEMMA FourStep ==
  ASSUME setting \in Settings, NEW p \in DepthType, NEW s \in Seq(RoundType),
         NEW r \in RoundType, r.depth = 4, p.depth = 4, p.adaptive, p.monitoring,
         ~p.probing, setting.demotion, FourTrue(p, s)
  PROVE  /\ FourRound(p, r.proposed, r.accepted) \in DepthType
         /\ DepthTrue(FourRound(p, r.proposed, r.accepted), Append(s, r))
         /\ DepthFair(p, FourRound(p, r.proposed, r.accepted), Append(s, r))
<1> DEFINE t == Append(s, r)
           q == FourRound(p, r.proposed, r.accepted)
           w == Watched(p.watch, r.proposed, r.accepted)
           ends == w.rounds = FourMonitor
           weak == /\ w.rounds \in {FourProbation, FourMonitor}
                   /\ w.rounds = FourMonitor \/ ~p.fourDone
                   /\ 2 * w.fourth < w.rounds
<1>1. /\ Watches(p.watch, s, 4) /\ p.watch.rounds < FourMonitor
      /\ p.losing = 0 /\ ~p.threeDone
  BY DEF FourTrue
<1>2. p.watch \in WatchType /\ p.watch.rounds \in Nat
  BY DEF DepthType, WatchType
<1>3. Watches(w, t, 4) /\ w \in WatchType /\ w.rounds = p.watch.rounds + 1
  BY <1>1, <1>2, WatchGrows
<1>4. w.rounds \in Nat /\ w.rounds <= FourMonitor /\ w.fourth \in Nat
  <2> HIDE DEF w
  <2>1. w.rounds \in Nat /\ w.fourth \in Nat
    BY <1>3 DEF WatchType
  <2>2. w.rounds <= FourMonitor
    BY <1>1, <1>2, <1>3, PolicyNumbers
  <2> QED BY <2>1, <2>2
<1>5. /\ q.depth = (IF weak THEN 3 ELSE 4)
      /\ q.fourDone = (p.fourDone \/ (w.rounds = FourProbation /\ ~weak))
      /\ q.watch = (IF weak \/ ends THEN Fresh ELSE w)
      /\ q.probing = p.probing /\ q.losing = p.losing /\ q.threeDone = p.threeDone
  BY DEF FourRound, DepthType
<1>6. q \in DepthType
  <2> DEFINE d == IF weak THEN 3 ELSE 4
             f == p.fourDone \/ (w.rounds = FourProbation /\ ~weak)
             v == IF weak \/ ends THEN Fresh ELSE w
  <2>1. q = [p EXCEPT !.depth = d, !.fourDone = f, !.watch = v]
    BY DEF FourRound
  <2>2. d \in 2..4 /\ f \in BOOLEAN
    OBVIOUS
  <2>3. v \in WatchType
    <3>1. Fresh \in WatchType
      BY DEF Fresh, WatchType
    <3> HIDE DEF w
    <3> QED BY <1>3, <3>1
  <2> HIDE DEF d, f, v, q
  <2> QED BY <2>1, <2>2, <2>3 DEF DepthType, WatchType
<1>7. /\ t \in Seq(RoundType) /\ Len(t) = Len(s) + 1 /\ Len(s) \in Nat /\ t[Len(t)] = r
  BY LastRound
<1> HIDE DEF q, t, w
<1>8. ProbeTrue(q, t)
  BY <1>5 DEF ProbeTrue
<1>9. FourTrue(q, t)
  <2>1. CASE weak
    BY <1>5, <2>1 DEF FourTrue
  <2>2. CASE ~weak /\ ends
    <3>1. q.watch = Fresh /\ Watches(Fresh, t, 4) /\ Fresh.rounds = 0
      BY <1>5, <1>7, <2>2, NoneWatched DEF Fresh
    <3> QED BY <1>1, <1>5, <3>1, PolicyNumbers DEF FourTrue
  <2>3. CASE ~weak /\ ~ends
    <3>1. q.watch = w /\ w.rounds < FourMonitor
      BY <1>4, <1>5, <2>3, PolicyNumbers
    <3> QED BY <1>1, <1>3, <1>5, <3>1 DEF FourTrue
  <2> QED BY <2>1, <2>2, <2>3
<1>10. ThreeTrue(q, t)
  <2>1. CASE weak
    <3>1. q.watch = Fresh /\ Watches(Fresh, t, 3) /\ Fresh.rounds = 0
      BY <1>5, <1>7, <2>1, NoneWatched DEF Fresh
    <3>2. t[Len(t) - 0].depth # 3
      BY <1>7
    <3> QED BY <1>1, <1>5, <3>1, <3>2, PolicyNumbers DEF ThreeTrue
  <2>2. CASE ~weak
    BY <1>5, <2>2 DEF ThreeTrue
  <2> QED BY <2>1, <2>2
<1>11. DepthFair(p, q, t)
  <2>1. /\ ~(q.depth > p.depth)
        /\ p.depth # 3
        /\ q.depth < p.depth => weak
    BY <1>5
  <2>2. weak => OfDepth(t, w.rounds, 4) /\ 2 * AllFour(LastN(t, w.rounds)) < w.rounds
    BY <1>3 DEF Watches
  <2> QED BY <2>1, <2>2 DEF DepthFair
<1> QED BY <1>6, <1>8, <1>9, <1>10, <1>11 DEF DepthTrue, q, t

\* The window before the one that is being filled stays where it is.
LEMMA PreviousStays ==
  ASSUME NEW s \in Seq(RoundType), NEW r \in RoundType, NEW k \in 0..Len(s), NEW m \in 0..k
  PROVE  SubSeq(LastN(Append(s, r), k + 1), 1, m) = SubSeq(LastN(s, k), 1, m)
<1>1. /\ LastN(Append(s, r), k + 1) = Append(LastN(s, k), r)
      /\ LastN(s, k) \in Seq(RoundType) /\ Len(LastN(s, k)) = k
  BY LastGrows, LastFacts
<1> QED BY <1>1, StartStays

LEMMA WholeWindow ==
  ASSUME NEW s \in Seq(RoundType), NEW k \in 0..Len(s)
  PROVE  SubSeq(LastN(s, k), 1, k) = LastN(s, k)
<1> DEFINE u == LastN(s, k)
<1>1. u \in Seq(RoundType) /\ Len(u) = k /\ k \in Nat
  BY LastFacts, LenProperties
<1> HIDE DEF u
<1>2. k \in Int /\ 1 \in Int /\ \A i \in 1..k : u[i] \in RoundType
  BY <1>1, ElementOfSeq
<1>3. /\ SubSeq(u, 1, k) \in Seq(RoundType) /\ Len(SubSeq(u, 1, k)) = (IF 1 <= k THEN k - 1 + 1 ELSE 0)
      /\ \A i \in 1..(k - 1 + 1) : SubSeq(u, 1, k)[i] = u[1 + i - 1]
  BY <1>1, <1>2, SubSeqProperties
<1>4. Len(SubSeq(u, 1, k)) = k /\ \A i \in 1..k : SubSeq(u, 1, k)[i] = u[i]
  <2>1. k - 1 + 1 = k /\ (1 <= k \/ k = 0) /\ \A i \in 1..k : 1 + i - 1 = i
    BY <1>1
  <2> QED BY <1>3, <2>1
<1>5. SubSeq(u, 1, k) = u
  BY <1>1, <1>3, <1>4, SeqEqual
<1> QED BY <1>5 DEF u

LEMMA ThreeStep ==
  ASSUME setting \in Settings, NEW p \in DepthType, NEW s \in Seq(RoundType),
         NEW r \in RoundType, r.depth = 3, p.depth = 3, p.monitoring,
         ~p.probing, setting.demotion, ThreeTrue(p, s)
  PROVE  /\ ThreeRound(p, r.proposed, r.accepted) \in DepthType
         /\ DepthTrue(ThreeRound(p, r.proposed, r.accepted), Append(s, r))
         /\ DepthFair(p, ThreeRound(p, r.proposed, r.accepted), Append(s, r))
<1> DEFINE t == Append(s, r)
           q == ThreeRound(p, r.proposed, r.accepted)
           w == Watched(p.watch, r.proposed, r.accepted)
           n == p.watch.rounds
           weak == 2 * w.accepted < w.proposed
           early == /\ ~p.threeDone /\ setting.early
                    /\ w.rounds = PromotionProbation /\ weak
           ends == ~early /\ w.rounds = MonitorRounds
           losing == IF ~ends THEN p.losing ELSE IF weak THEN p.losing + 1 ELSE 0
           leaves == early \/ (ends /\ losing = 2)
<1>1. /\ Watches(p.watch, s, 3) /\ n < MonitorRounds
      /\ p.losing \in {0, 1}
      /\ p.losing = 1 =>
           /\ OfDepth(s, n + MonitorRounds, 3)
           /\ Weak(SubSeq(LastN(s, n + MonitorRounds), 1, MonitorRounds))
      /\ ~p.threeDone /\ PromotionProbation <= MonitorRounds =>
           /\ p.losing = 0 /\ n < PromotionProbation
           /\ Len(s) > n => s[Len(s) - n].depth # 3
  BY DEF ThreeTrue
<1>2. p.watch \in WatchType /\ n \in Nat
  BY DEF DepthType, WatchType
<1>3. Watches(w, t, 3) /\ w \in WatchType /\ w.rounds = n + 1
  BY <1>1, <1>2, WatchGrows
<1>4. /\ q.depth = (IF leaves THEN 2 ELSE 3)
      /\ q.monitoring = ~leaves
      /\ q.threeDone = (p.threeDone \/ (w.rounds = PromotionProbation /\ ~early))
      /\ q.losing = losing
      /\ q.watch = (IF ends THEN Fresh ELSE w)
      /\ q.probing = p.probing
  BY DEF ThreeRound, DepthType
<1>5. q \in DepthType
  <2> DEFINE d == IF leaves THEN 2 ELSE 3
             m == ~leaves
             f == p.threeDone \/ (w.rounds = PromotionProbation /\ ~early)
             l == losing
             v == IF ends THEN Fresh ELSE w
  <2>1. q = [p EXCEPT !.depth = d, !.monitoring = m, !.threeDone = f,
                      !.losing = l, !.watch = v]
    BY DEF ThreeRound
  <2>2. d \in 2..4 /\ m \in BOOLEAN /\ f \in BOOLEAN
    OBVIOUS
  <2>3. v \in WatchType
    <3>1. Fresh \in WatchType
      BY DEF Fresh, WatchType
    <3> HIDE DEF w
    <3> QED BY <1>3, <3>1
  <2>4. l \in Nat
    <3> HIDE DEF ends, weak
    <3> QED BY <1>1
  <2> HIDE DEF d, m, f, l, v, q
  <2> QED BY <2>1, <2>2, <2>3, <2>4 DEF DepthType, WatchType
<1>6. /\ t \in Seq(RoundType) /\ Len(t) = Len(s) + 1 /\ Len(s) \in Nat
      /\ \A i \in 1..Len(s) : t[i] = s[i]
  BY LastRound
<1> HIDE DEF q, t, w
<1>7. weak <=> Weak(LastN(t, w.rounds))
  BY <1>3 DEF Watches, Counts, Weak
<1>8. w.rounds \in Nat /\ w.rounds <= MonitorRounds /\ w.rounds <= Len(t)
  BY <1>1, <1>2, <1>3, PolicyNumbers DEF Watches, Counts
<1>0. w.rounds = n + 1 /\ n \in Nat /\ Len(t) = Len(s) + 1 /\ Len(s) \in Nat
  BY <1>2, <1>3, <1>6
<1> HIDE DEF weak
\* The lost window before this one.
<1>9. p.losing = 1 =>
        /\ OfDepth(t, w.rounds + MonitorRounds, 3)
        /\ Weak(SubSeq(LastN(t, w.rounds + MonitorRounds), 1, MonitorRounds))
  <2> SUFFICES ASSUME p.losing = 1
               PROVE  /\ OfDepth(t, w.rounds + MonitorRounds, 3)
                      /\ Weak(SubSeq(LastN(t, w.rounds + MonitorRounds), 1, MonitorRounds))
    OBVIOUS
  <2> DEFINE k == n + MonitorRounds
  <2>1. k \in Nat /\ w.rounds + MonitorRounds = k + 1 /\ MonitorRounds \in 0..k
    BY <1>2, <1>3, PolicyNumbers
  <2>2. OfDepth(s, k, 3) /\ Weak(SubSeq(LastN(s, k), 1, MonitorRounds))
    BY <1>1
  <2> HIDE DEF k
  <2>3. OfDepth(t, k + 1, 3)
    BY <2>1, <2>2, DepthGrows DEF t
  <2>4. k \in 0..Len(s)
    BY <1>6, <2>1, <2>2 DEF OfDepth
  <2>5. SubSeq(LastN(t, k + 1), 1, MonitorRounds) = SubSeq(LastN(s, k), 1, MonitorRounds)
    BY <2>1, <2>4, PreviousStays DEF t
  <2> QED BY <2>1, <2>2, <2>3, <2>5
<1>10. ProbeTrue(q, t)
  BY <1>4 DEF ProbeTrue
<1>11. FourTrue(q, t)
  <2>1. q.depth # 4
    BY <1>4
  <2> QED BY <2>1 DEF FourTrue
<1>12. ThreeTrue(q, t)
  <2> SUFFICES ASSUME ~leaves
      PROVE  /\ Watches(q.watch, t, 3) /\ q.watch.rounds < MonitorRounds
             /\ q.losing \in {0, 1}
             /\ q.losing = 1 =>
                  /\ OfDepth(t, q.watch.rounds + MonitorRounds, 3)
                  /\ Weak(SubSeq(LastN(t, q.watch.rounds + MonitorRounds), 1, MonitorRounds))
             /\ ~q.threeDone /\ PromotionProbation <= MonitorRounds =>
                  /\ q.losing = 0 /\ q.watch.rounds < PromotionProbation
                  /\ Len(t) > q.watch.rounds => t[Len(t) - q.watch.rounds].depth # 3
    <3>1. CASE leaves
      <4>1. q.depth = 2
        BY <1>4, <3>1
      <4> QED BY <4>1 DEF ThreeTrue
    <3>2. CASE ~leaves
      BY <3>2 DEF ThreeTrue
    <3> QED BY <3>1, <3>2
  <2>1. ~early /\ (ends <=> w.rounds = MonitorRounds)
    OBVIOUS
  <2>2. ~q.threeDone => ~p.threeDone /\ w.rounds # PromotionProbation
    BY <1>4, <2>1
  <2>3. ~q.threeDone /\ PromotionProbation <= MonitorRounds =>
          /\ p.losing = 0 /\ w.rounds < PromotionProbation /\ w.rounds # MonitorRounds
          /\ Len(s) > n => s[Len(s) - n].depth # 3
    BY <1>1, <1>2, <1>3, <2>2, PolicyNumbers
  <2>4. CASE w.rounds = MonitorRounds
    <3>1. ends
      BY <2>1, <2>4
    <3>2. q.watch = Fresh /\ Fresh.rounds = 0
      BY <1>4, <3>1 DEF Fresh
    <3>3. Watches(q.watch, t, 3) /\ q.watch.rounds < MonitorRounds
      BY <1>6, <3>2, NoneWatched, PolicyNumbers
    <3>4. q.losing = (IF weak THEN p.losing + 1 ELSE 0) /\ q.losing # 2
      BY <1>4, <3>1
    <3>5. q.losing \in {0, 1} /\ (q.losing = 1 => weak)
      BY <1>1, <3>4
    <3>6. q.losing = 1 =>
            /\ OfDepth(t, q.watch.rounds + MonitorRounds, 3)
            /\ Weak(SubSeq(LastN(t, q.watch.rounds + MonitorRounds), 1, MonitorRounds))
      <4>1. q.watch.rounds + MonitorRounds = w.rounds
        BY <2>4, <3>2, PolicyNumbers
      <4>2. OfDepth(t, w.rounds, 3)
        BY <1>3 DEF Watches
      <4>3. SubSeq(LastN(t, w.rounds), 1, MonitorRounds) = LastN(t, w.rounds)
        <5>1. w.rounds \in 0..Len(t)
          BY <1>6, <1>8
        <5> QED BY <1>6, <2>4, <5>1, WholeWindow
      <4> QED BY <1>7, <3>5, <4>1, <4>2, <4>3
    <3> QED BY <2>3, <2>4, <3>3, <3>5, <3>6
  <2>5. CASE w.rounds # MonitorRounds
    <3>1. ~ends
      BY <2>1, <2>5
    <3>2. q.watch = w /\ q.losing = p.losing
      BY <1>4, <3>1
    <3>3. w.rounds < MonitorRounds
      BY <1>8, <2>5, PolicyNumbers
    <3>4. Len(t) - w.rounds = Len(s) - n
      BY <1>0
    <3>5. Len(t) > w.rounds => Len(s) > n /\ Len(s) - n \in 1..Len(s)
      BY <1>0
    <3>6. Len(s) > n /\ Len(s) - n \in 1..Len(s) => t[Len(s) - n] = s[Len(s) - n]
      BY <1>6
    <3>7. ~q.threeDone /\ PromotionProbation <= MonitorRounds =>
            /\ q.losing = 0 /\ w.rounds < PromotionProbation
            /\ Len(t) > w.rounds => t[Len(t) - w.rounds].depth # 3
      BY <2>3, <3>2, <3>4, <3>5, <3>6
    <3> QED BY <1>1, <1>3, <1>9, <3>2, <3>3, <3>7
  <2> QED BY <2>4, <2>5
<1>13. DepthFair(p, q, t)
  <2>1. ~(q.depth > p.depth) /\ p.depth # 4 /\ (q.depth < p.depth => leaves)
    BY <1>4
  <2>2. CASE early
    <3>1. w.rounds = PromotionProbation /\ ~p.threeDone /\ weak
      BY <2>2
    <3>2. OfDepth(t, PromotionProbation, 3) /\ Weak(LastN(t, PromotionProbation))
      BY <1>3, <1>7, <3>1 DEF Watches
    <3>3. ~OfDepth(t, PromotionProbation + 1, 3)
      <4> SUFFICES ASSUME OfDepth(t, PromotionProbation + 1, 3) PROVE FALSE
        OBVIOUS
      <4>1. PromotionProbation <= MonitorRounds
        BY <1>8, <3>1
      <4>2. Len(s) > n => s[Len(s) - n].depth # 3
        BY <1>1, <3>1, <4>1
      <4> DEFINE k == PromotionProbation + 1
      <4>3. k \in Nat /\ k = n + 2 /\ Len(t) >= k /\ k >= 1 /\ LastN(t, k)[1].depth = 3
        <5>1. Len(t) >= k /\ \A i \in 1..k : LastN(t, k)[i].depth = 3
          BY DEF OfDepth
        <5>2. k \in Nat /\ k = n + 2 /\ k >= 1
          BY <1>2, <1>3, <3>1
        <5> QED BY <5>1, <5>2
      <4> HIDE DEF k
      <4>4. k \in 0..Len(t) /\ 1 \in 1..k
        BY <1>6, <4>3
      <4>5. LastN(t, k)[1] = t[Len(t) - k + 1]
        <5>1. t \in Seq(RoundType)
          BY <1>6
        <5>2. \A i \in 1..k : LastN(t, k)[i] = t[Len(t) - k + i]
          BY <4>4, <5>1, LastFacts
        <5> QED BY <4>4, <5>2
      <4>6. Len(t) - k + 1 = Len(s) - n /\ Len(s) > n /\ Len(s) - n \in 1..Len(s)
        <5>1. k = n + 2 /\ Len(t) >= k /\ k \in Nat
          BY <4>3
        <5>2. \A x, y \in Nat : y + 1 >= x + 2 =>
                /\ (y + 1) - (x + 2) + 1 = y - x
                /\ y > x /\ y - x \in 1..y
          OBVIOUS
        <5>3. n \in Nat /\ Len(s) \in Nat /\ Len(t) = Len(s) + 1
          BY <1>0
        <5> HIDE DEF n
        <5> QED BY <5>1, <5>2, <5>3
      <4> QED BY <1>6, <4>2, <4>3, <4>5, <4>6
    <3> QED BY <2>1, <3>2, <3>3 DEF DepthFair
  <2>3. CASE leaves /\ ~early
    <3>1. w.rounds = MonitorRounds /\ weak /\ p.losing = 1
      <4>1. ends /\ losing = 2
        BY <2>3
      <4>2. weak /\ p.losing + 1 = 2
        BY <4>1
      <4> QED BY <1>1, <4>1, <4>2
    <3>2. w.rounds + MonitorRounds = 2 * MonitorRounds
      BY <3>1, PolicyNumbers
    <3>3. /\ OfDepth(t, 2 * MonitorRounds, 3)
          /\ Weak(SubSeq(LastN(t, 2 * MonitorRounds), 1, MonitorRounds))
      BY <1>9, <3>1, <3>2
    <3>4. Weak(LastN(t, MonitorRounds))
      BY <1>7, <3>1
    <3> QED BY <2>1, <3>3, <3>4 DEF DepthFair
  <2>4. CASE ~leaves
    BY <2>1, <2>4 DEF DepthFair
  <2> QED BY <2>2, <2>3, <2>4
<1> QED BY <1>5, <1>10, <1>11, <1>12, <1>13 DEF DepthTrue, q, t

LEMMA DepthStep ==
  ASSUME setting \in Settings, NEW p \in DepthType, NEW s \in Seq(RoundType),
         NEW r \in RoundType, r.depth = p.depth, DepthTrue(p, s)
  PROVE  /\ ObserveDepth(p, r.proposed, r.accepted) \in DepthType
         /\ DepthTrue(ObserveDepth(p, r.proposed, r.accepted), Append(s, r))
         /\ DepthFair(p, ObserveDepth(p, r.proposed, r.accepted), Append(s, r))
<1> DEFINE q == ObserveDepth(p, r.proposed, r.accepted)
<1>0. ProbeTrue(p, s) /\ FourTrue(p, s) /\ ThreeTrue(p, s)
  BY DEF DepthTrue
<1>1. CASE p.probing
  <2>1. q = ProbeRound(p, r.accepted)
    BY <1>1 DEF ObserveDepth
  <2> QED BY <1>0, <1>1, <2>1, ProbeStep
<1>2. CASE /\ ~p.probing /\ p.monitoring /\ setting.demotion
           /\ p.adaptive /\ p.depth = 4
  <2>1. q = FourRound(p, r.proposed, r.accepted)
    BY <1>2 DEF ObserveDepth
  <2> QED BY <1>0, <1>2, <2>1, FourStep
<1>3. CASE ~p.probing /\ p.monitoring /\ setting.demotion /\ p.depth = 3
  <2>1. q = ThreeRound(p, r.proposed, r.accepted)
    BY <1>3 DEF ObserveDepth
  <2> QED BY <1>0, <1>3, <2>1, ThreeStep
<1>4. CASE /\ ~p.probing
           /\ \/ ~p.monitoring \/ ~setting.demotion
              \/ ~(p.adaptive /\ p.depth = 4) /\ p.depth # 3
  <2>1. q = p
    BY <1>4 DEF ObserveDepth
  <2>2. ProbeTrue(p, Append(s, r)) /\ FourTrue(p, Append(s, r)) /\ ThreeTrue(p, Append(s, r))
    BY <1>4 DEF ProbeTrue, FourTrue, ThreeTrue
  <2>3. p.depth \in 2..4
    BY DEF DepthType
  <2>4. DepthFair(p, p, Append(s, r))
    BY <2>3 DEF DepthFair
  <2> QED BY <2>1, <2>2, <2>4 DEF DepthTrue
<1> QED BY <1>1, <1>2, <1>3, <1>4

-----------------------------------------------------------------------------
(* MtpProfitabilityGuard.                                                  *)

LEMMA CursorTurns ==
  ASSUME NEW c \in 0..(Window - 1)
  PROVE  (c + 1) % Window = (IF c + 1 = Window THEN 0 ELSE c + 1)
<1>1. Window \in Nat /\ Window > 0 /\ c \in Nat /\ c < Window
  BY PolicyNumbers
<1>2. CASE c + 1 = Window
  BY <1>1, <1>2
<1>3. CASE c + 1 # Window
  <2>1. c + 1 \in 0..(Window - 1)
    BY <1>1, <1>3
  <2> QED BY <1>1, <1>3, <2>1
<1> QED BY <1>2, <1>3

\* A round while the ring fills.
LEMMA GuardFills ==
  ASSUME NEW g \in GuardType, NEW s \in Seq(RoundType), NEW r \in RoundType,
         RingTrue(g, s), Len(s) < Window
  PROVE  RingTrue(ObserveGuard(g, r.accepted), Append(s, r))
<1> DEFINE q == ObserveGuard(g, r.accepted)
           t == Append(s, r)
           n == Len(s)
<1>1. /\ t \in Seq(RoundType) /\ Len(t) = n + 1 /\ n \in Nat /\ t[n + 1] = r
      /\ \A i \in 1..n : t[i] = s[i]
  BY LastRound
<1>2. /\ g.rounds = n /\ g.total = Accepted(s) /\ g.rows = n /\ g.cursor = 0
      /\ \A k \in 0..(n - 1) : g.ring[Place(g, k)] = s[n - n + k + 1].accepted
      /\ g.sum = Accepted(LastN(s, n))
  BY DEF RingTrue
<1>3. /\ Window \in Nat /\ Window > 0 /\ n < Window /\ g.rows # Window
      /\ g.ring \in [0..(Window - 1) -> Nat] /\ r.accepted \in Nat
  BY <1>2, PolicyNumbers DEF GuardType, RoundType
<1>4. /\ q.rounds = n + 1 /\ q.total = Accepted(s) + r.accepted /\ q.rows = n + 1
      /\ q.ring = [g.ring EXCEPT ![n] = r.accepted]
      /\ q.sum = Accepted(LastN(s, n)) + r.accepted - 0 /\ q.cursor = 0
  BY <1>2, <1>3 DEF ObserveGuard
<1> HIDE DEF q, t
<1>5. Accepted(t) = Accepted(s) + r.accepted
  BY RoundSums DEF t
<1>6. q.sum = Accepted(LastN(t, n + 1))
  <2>1. n \in 0..Len(s)
    BY <1>1
  <2>2. LastN(t, n + 1) = Append(LastN(s, n), r) /\ LastN(s, n) \in Seq(RoundType)
    BY <2>1, LastGrows, LastFacts DEF t
  <2>3. /\ Accepted(Append(LastN(s, n), r)) = Accepted(LastN(s, n)) + r.accepted
        /\ Accepted(LastN(s, n)) \in Nat
    BY <2>2, RoundSums
  <2> DEFINE a == Accepted(LastN(s, n))
  <2>4. q.sum = a + r.accepted - 0 /\ a \in Nat /\ r.accepted \in Nat
    BY <1>3, <1>4, <2>3
  <2> HIDE DEF a
  <2>5. q.sum = a + r.accepted
    BY <2>4
  <2> QED BY <2>2, <2>3, <2>5 DEF a
<1>7. ASSUME NEW k \in 0..n
      PROVE  Place(q, k) = k /\ q.ring[k] = t[Len(t) - (n + 1) + k + 1].accepted
  <2>0. n \in Nat /\ Window \in Nat /\ n < Window /\ k \in Nat /\ k <= n
    BY <1>1, <1>3
  <2>1. Place(q, k) = k
    BY <1>4, <2>0 DEF Place
  <2>2. n \in 0..(Window - 1) /\ k \in 0..(Window - 1)
    BY <2>0
  <2>3. q.ring[k] = IF k = n THEN r.accepted ELSE g.ring[k]
    BY <1>3, <1>4, <2>2
  <2>4. Len(t) - (n + 1) + k + 1 = k + 1
    BY <1>1, <2>0
  <2>5. CASE k = n
    BY <1>1, <2>1, <2>3, <2>4, <2>5
  <2>6. CASE k < n
    <3>1. k \in 0..(n - 1) /\ k + 1 \in 1..n /\ n - n + k + 1 = k + 1 /\ k # n
      BY <2>0, <2>6
    <3>2. Place(g, k) = k
      BY <1>2, <2>0 DEF Place
    <3>3. g.ring[k] = s[k + 1].accepted
      BY <1>2, <3>1, <3>2
    <3> QED BY <1>1, <2>1, <2>3, <2>4, <3>1, <3>3
  <2> QED BY <2>0, <2>5, <2>6
<1>8. q.rows = (IF Len(t) < Window THEN Len(t) ELSE Window)
  BY <1>1, <1>3, <1>4
<1>9. \A k \in 0..(q.rows - 1) : q.ring[Place(q, k)] = t[Len(t) - q.rows + k + 1].accepted
  <2>1. q.rows - 1 = n
    BY <1>1, <1>4
  <2> QED BY <1>4, <1>7, <2>1
<1> QED BY <1>1, <1>4, <1>5, <1>6, <1>8, <1>9 DEF RingTrue, q, t

\* A round that overwrites the oldest one.
LEMMA GuardTurns ==
  ASSUME NEW g \in GuardType, NEW s \in Seq(RoundType), NEW r \in RoundType,
         RingTrue(g, s), Len(s) >= Window
  PROVE  RingTrue(ObserveGuard(g, r.accepted), Append(s, r))
<1> DEFINE q == ObserveGuard(g, r.accepted)
           t == Append(s, r)
           n == Len(s)
           c == g.cursor
           old == s[n - Window + 1].accepted
<1>1. /\ t \in Seq(RoundType) /\ Len(t) = n + 1 /\ n \in Nat /\ t[n + 1] = r
      /\ \A i \in 1..n : t[i] = s[i]
  BY LastRound
<1>0. Window \in Nat /\ Window > 0 /\ n >= Window /\ n \in Nat
  BY <1>1, PolicyNumbers
<1>2. /\ g.rounds = n /\ g.total = Accepted(s) /\ g.rows = Window
      /\ \A k \in 0..(Window - 1) : g.ring[Place(g, k)] = s[n - Window + k + 1].accepted
      /\ g.sum = Accepted(LastN(s, Window))
  <2>1. /\ g.rounds = n /\ g.total = Accepted(s)
        /\ g.rows = (IF n < Window THEN n ELSE Window)
        /\ \A k \in 0..(g.rows - 1) : g.ring[Place(g, k)] = s[n - g.rows + k + 1].accepted
        /\ g.sum = Accepted(LastN(s, g.rows))
    BY DEF RingTrue
  <2>2. ~(n < Window)
    BY <1>0
  <2>3. g.rows = Window
    BY <2>1, <2>2
  <2> QED BY <2>1, <2>3
<1>3. /\ c \in 0..(Window - 1) /\ c \in Nat /\ c < Window
      /\ g.ring \in [0..(Window - 1) -> Nat] /\ r.accepted \in Nat
  <2>1. /\ c \in 0..(Window - 1)
        /\ g.ring \in [0..(Window - 1) -> Nat] /\ r.accepted \in Nat
    BY DEF GuardType, RoundType
  <2>2. c \in Nat /\ c < Window
    BY <1>0, <2>1
  <2> QED BY <2>1, <2>2
<1>4. /\ q.rounds = n + 1 /\ q.total = Accepted(s) + r.accepted /\ q.rows = Window
      /\ q.ring = [g.ring EXCEPT ![c] = r.accepted]
      /\ q.sum = Accepted(LastN(s, Window)) + r.accepted - g.ring[c]
      /\ q.cursor = (c + 1) % Window
  BY <1>2 DEF ObserveGuard
<1>5. q.cursor = (IF c + 1 = Window THEN 0 ELSE c + 1)
  BY <1>3, <1>4, CursorTurns
<1> HIDE DEF q, t
<1>6. \A k \in 0..(Window - 1) : Place(g, k) = (IF c + k < Window THEN c + k ELSE c + k - Window)
  <2>1. ~(g.rows < Window)
    BY <1>0, <1>2
  <2> QED BY <2>1 DEF Place
<1>7. \A k \in 0..(Window - 1) :
        Place(q, k) = (IF q.cursor + k < Window THEN q.cursor + k ELSE q.cursor + k - Window)
  BY <1>0, <1>4 DEF Place
<1>8. g.ring[c] = old
  <2>1. 0 \in 0..(Window - 1) /\ n - Window + 0 + 1 = n - Window + 1 /\ Place(g, 0) = c
    BY <1>0, <1>3, <1>6
  <2>2. g.ring[Place(g, 0)] = s[n - Window + 0 + 1].accepted
    BY <1>2, <2>1
  <2> QED BY <2>1, <2>2
<1>9. Accepted(t) = Accepted(s) + r.accepted
  BY RoundSums DEF t
<1>10. q.sum = Accepted(LastN(t, Window))
  <2> DEFINE m == Window - 1
  <2>1. Window \in 1..Len(s) /\ m \in 0..Len(s) /\ m + 1 = Window
    BY <1>0
  <2> HIDE DEF m
  <2>2. LastN(t, m + 1) = Append(LastN(s, m), r) /\ LastN(s, m) \in Seq(RoundType)
    BY <2>1, LastGrows, LastFacts DEF t
  <2>3. /\ Accepted(Append(LastN(s, m), r)) = Accepted(LastN(s, m)) + r.accepted
        /\ Accepted(LastN(s, m)) \in Nat
    BY <2>2, RoundSums
  <2>4. Accepted(LastN(s, Window)) = old + Accepted(LastN(s, Window - 1))
    BY <2>1, LastSlides
  <2>5. Accepted(LastN(s, Window)) = old + Accepted(LastN(s, m))
    BY <2>4 DEF m
  <2>6. old \in Nat
    <3>1. n - Window + 1 \in 1..Len(s)
      BY <1>0
    <3>2. s[n - Window + 1] \in RoundType
      BY <3>1, ElementOfSeq
    <3> QED BY <3>2 DEF RoundType
  <2>7. q.sum = old + Accepted(LastN(s, m)) + r.accepted - old
    BY <1>4, <1>8, <2>5
  <2> HIDE DEF old
  <2>8. q.sum = Accepted(LastN(s, m)) + r.accepted
    BY <1>3, <2>3, <2>6, <2>7
  <2> QED BY <2>1, <2>2, <2>3, <2>8
<1>11. ASSUME NEW k \in 0..(Window - 1)
       PROVE  q.ring[Place(q, k)] = t[Len(t) - Window + k + 1].accepted
  <2>0. k \in Nat /\ k < Window
    BY <1>0
  <2>1. CASE k = Window - 1
    <3>1. Place(q, k) = c
      BY <1>0, <1>3, <1>5, <1>7, <2>0, <2>1
    <3>2. Len(t) - Window + k + 1 = n + 1
      BY <1>0, <1>1, <2>1
    <3> QED BY <1>1, <1>3, <1>4, <3>1, <3>2
  <2>2. CASE k < Window - 1
    <3> DEFINE j == Place(g, k + 1)
    <3>1. k + 1 \in 0..(Window - 1) /\ k + 1 > 0
      BY <1>0, <2>0, <2>2
    <3>2. j = (IF c + (k + 1) < Window THEN c + (k + 1) ELSE c + (k + 1) - Window)
      BY <1>6, <3>1
    <3>3. Place(q, k) = j
      <4>1. Place(q, k) = (IF q.cursor + k < Window THEN q.cursor + k ELSE q.cursor + k - Window)
        BY <1>7
      <4> HIDE DEF j
      <4>2. CASE c + 1 = Window
        <5>1. q.cursor = 0
          BY <1>5, <4>2
        <5> QED BY <1>0, <1>3, <2>0, <3>2, <4>1, <4>2, <5>1
      <4>3. CASE c + 1 # Window
        <5>1. q.cursor = c + 1
          BY <1>5, <4>3
        <5>3. c \in Nat
          BY <1>3
        <5>2. q.cursor + k = c + (k + 1)
          BY <1>0, <2>0, <5>1, <5>3
        <5>4. CASE c + (k + 1) < Window
          <6>1. j = c + (k + 1)
            BY <3>2, <5>4
          <6>2. Place(q, k) = q.cursor + k
            BY <4>1, <5>2, <5>4
          <6> QED BY <5>2, <6>1, <6>2
        <5>5. CASE ~(c + (k + 1) < Window)
          <6>1. j = c + (k + 1) - Window
            BY <3>2, <5>5
          <6>2. Place(q, k) = q.cursor + k - Window
            BY <4>1, <5>2, <5>5
          <6> QED BY <1>0, <2>0, <5>1, <5>3, <6>1, <6>2
        <5> QED BY <5>4, <5>5
      <4> QED BY <4>2, <4>3
    <3>4. g.ring[j] = s[n - Window + (k + 1) + 1].accepted
      BY <1>2, <3>1
    <3> HIDE DEF j
    <3>5. j # c /\ j \in 0..(Window - 1)
      <4>1. c \in Nat /\ c < Window /\ Window \in Nat /\ k \in Nat /\ k + 1 < Window
        BY <1>0, <1>3, <2>0, <2>2
      <4>2. CASE c + (k + 1) < Window
        <5>1. j = c + (k + 1)
          BY <3>2, <4>2
        <5> QED BY <4>1, <4>2, <5>1
      <4>3. CASE ~(c + (k + 1) < Window)
        <5>1. j = c + (k + 1) - Window
          BY <3>2, <4>3
        <5> QED BY <4>1, <4>3, <5>1
      <4> QED BY <4>2, <4>3
    <3>6. q.ring[j] = g.ring[j]
      BY <1>3, <1>4, <3>5
    <3>7. /\ Len(t) - Window + k + 1 = n - Window + (k + 1) + 1
          /\ n - Window + (k + 1) + 1 \in 1..n
      <4>1. Len(t) = n + 1 /\ n \in Nat /\ n >= Window /\ Window \in Nat /\ k \in Nat
        BY <1>0, <1>1, <2>0
      <4> QED BY <2>2, <4>1
    <3> QED BY <1>1, <3>3, <3>4, <3>6, <3>7
  <2> QED BY <1>0, <2>0, <2>1, <2>2
<1>12. q.rows = (IF Len(t) < Window THEN Len(t) ELSE Window) /\ ~(q.rows < Window)
  BY <1>0, <1>1, <1>4
<1> QED BY <1>1, <1>4, <1>9, <1>10, <1>11, <1>12 DEF RingTrue, q, t

LEMMA StreakGrows ==
  ASSUME NEW g \in GuardType, NEW s \in Seq(RoundType), NEW r \in RoundType,
         StreakTrue(g, s)
  PROVE  StreakTrue(ObserveGuard(g, r.accepted), Append(s, r))
<1> DEFINE q == ObserveGuard(g, r.accepted)
           t == Append(s, r)
           n == Len(s)
           k == g.streak
<1>1. /\ t \in Seq(RoundType) /\ Len(t) = n + 1 /\ n \in Nat /\ t[n + 1] = r
      /\ \A i \in 1..n : t[i] = s[i]
  BY LastRound
<1>2. /\ k <= n /\ \A i \in (n - k + 1)..n : s[i].accepted = 0
      /\ n > k => s[n - k].accepted # 0
  BY DEF StreakTrue
<1>3. k \in Nat
  BY DEF GuardType
<1>4. q.streak = (IF r.accepted = 0 THEN k + 1 ELSE 0)
  BY DEF ObserveGuard
<1>5. n \in Nat /\ Len(t) = n + 1 /\ k \in Nat /\ k <= n
  BY <1>1, <1>2, <1>3
<1> HIDE DEF q, t
<1>6. CASE r.accepted = 0
  <2>1. q.streak = k + 1
    BY <1>4, <1>6
  <2>2. ASSUME NEW i \in (Len(t) - q.streak + 1)..Len(t) PROVE t[i].accepted = 0
    <3>1. i \in (n - k + 1)..n \/ i = n + 1
      BY <1>5, <2>1
    <3>2. i \in (n - k + 1)..n => i \in 1..n
      BY <1>5
    <3> QED BY <1>1, <1>2, <1>6, <3>1, <3>2
  <2>3. Len(t) > q.streak => t[Len(t) - q.streak].accepted # 0
    <3> SUFFICES ASSUME Len(t) > q.streak PROVE t[Len(t) - q.streak].accepted # 0
      OBVIOUS
    <3>1. Len(t) - q.streak = n - k /\ n > k /\ n - k \in 1..n
      BY <1>5, <2>1
    <3> QED BY <1>1, <1>2, <3>1
  <2>4. q.streak <= Len(t)
    BY <1>5, <2>1
  <2>5. StreakTrue(q, t)
    BY <2>2, <2>3, <2>4 DEF StreakTrue
  <2> QED BY <2>5 DEF q, t
<1>7. CASE r.accepted # 0
  <2>1. q.streak = 0
    BY <1>4, <1>7
  <2>2. q.streak <= Len(t) /\ Len(t) - q.streak = n + 1
    BY <1>5, <2>1
  <2>3. (Len(t) - q.streak + 1)..Len(t) = {}
    BY <1>5, <2>1
  <2>4. StreakTrue(q, t)
    BY <1>1, <1>7, <2>2, <2>3 DEF StreakTrue
  <2> QED BY <2>4 DEF q, t
<1> QED BY <1>6, <1>7

LEMMA GuardStep ==
  ASSUME NEW g \in GuardType, NEW s \in Seq(RoundType), NEW r \in RoundType,
         GuardTrue(g, s)
  PROVE  /\ ObserveGuard(g, r.accepted) \in GuardType
         /\ GuardTrue(ObserveGuard(g, r.accepted), Append(s, r))
<1> DEFINE q == ObserveGuard(g, r.accepted)
           t == Append(s, r)
<1>1. RingTrue(g, s) /\ StreakTrue(g, s)
  BY DEF GuardTrue
<1>2. Len(s) \in Nat /\ Window \in Nat /\ Window > 0 /\ t \in Seq(RoundType) /\ Len(t) \in Nat
  BY LastRound, PolicyNumbers
<1>3. RingTrue(q, t)
  <2>1. Len(s) < Window \/ Len(s) >= Window
    BY <1>2
  <2> QED BY <1>1, <2>1, GuardFills, GuardTurns
<1>4. StreakTrue(q, t)
  BY <1>1, StreakGrows
<1>5. q \in GuardType
  <2> DEFINE slot == IF g.rows = Window THEN g.cursor ELSE g.rows
  <2>0. g.rows \in 0..Window /\ g.cursor \in 0..(Window - 1)
    BY DEF GuardType
  <2>1. q.streak \in Nat /\ q.rounds \in Nat /\ q.total \in Nat
    BY DEF ObserveGuard, GuardType, RoundType
  <2>2. q.rows \in 0..Window
    <3>1. q.rows = IF g.rows = Window THEN Window ELSE g.rows + 1
      BY DEF ObserveGuard
    <3> QED BY <1>2, <2>0, <3>1
  <2>3. q.ring \in [0..(Window - 1) -> Nat]
    <3>1. q.ring = [g.ring EXCEPT ![slot] = r.accepted]
      BY DEF ObserveGuard
    <3>2. g.ring \in [0..(Window - 1) -> Nat] /\ r.accepted \in Nat
      BY DEF GuardType, RoundType
    <3> HIDE DEF q, slot
    <3> QED BY <3>1, <3>2
  <2>4. q.sum \in Nat
    <3>1. q.sum = Accepted(LastN(t, q.rows)) /\ q.rows <= Len(t)
      <4> HIDE DEF q, t
      <4>1. q.sum = Accepted(LastN(t, q.rows)) /\ q.rows = (IF Len(t) < Window THEN Len(t) ELSE Window)
        BY <1>3 DEF RingTrue
      <4> QED BY <1>2, <4>1
    <3> HIDE DEF q, t
    <3>2. q.rows \in 0..Len(t)
      BY <1>2, <2>2, <3>1
    <3>3. LastN(t, q.rows) \in Seq(RoundType)
      BY <1>2, <3>2, LastFacts
    <3> QED BY <3>1, <3>3, RoundSums, NoRounds
  <2>5. q.cursor \in 0..(Window - 1)
    <3>1. q.cursor = IF g.rows = Window THEN (g.cursor + 1) % Window ELSE g.cursor
      BY DEF ObserveGuard
    <3>2. (g.cursor + 1) % Window = IF g.cursor + 1 = Window THEN 0 ELSE g.cursor + 1
      BY <2>0, CursorTurns
    <3>3. (g.cursor + 1) % Window \in 0..(Window - 1)
      <4> DEFINE m == (g.cursor + 1) % Window
      <4>1. m = IF g.cursor + 1 = Window THEN 0 ELSE g.cursor + 1
        BY <3>2
      <4> HIDE DEF m
      <4> QED BY <1>2, <2>0, <4>1
    <3> QED BY <2>0, <3>1, <3>3
  <2>6. q = [streak |-> q.streak, rounds |-> q.rounds, total |-> q.total, rows |-> q.rows,
             ring |-> q.ring, sum |-> q.sum, cursor |-> q.cursor]
    BY DEF ObserveGuard
  <2> HIDE DEF q
  <2> QED BY <2>1, <2>2, <2>3, <2>4, <2>5, <2>6 DEF GuardType
<1> QED BY <1>3, <1>4, <1>5 DEF GuardTrue

\* The guard gives the head up exactly if the rounds lost.
LEMMA FallbackFair ==
  ASSUME setting \in Settings, NEW g \in GuardType, NEW s \in Seq(RoundType), GuardTrue(g, s)
  PROVE  ShouldFallback(g) <=> Losing(s)
<1> DEFINE n == Len(s)
           f == FallbackRounds
           Empty == n >= f /\ Accepted(LastN(s, f)) = 0
<1>0. /\ n \in Nat /\ f \in Nat /\ f > 0 /\ Window \in Nat /\ Window > 0
      /\ g.streak \in Nat
  BY LenProperties, PolicyNumbers DEF GuardType
<1>1. RingTrue(g, s) /\ StreakTrue(g, s)
  BY DEF GuardTrue
<1>2. g.streak <= n
  BY <1>1 DEF StreakTrue
<1>3. ASSUME n >= f
      PROVE  /\ Accepted(LastN(s, f)) = 0 <=> \A i \in 1..f : LastN(s, f)[i].accepted = 0
             /\ \A i \in 1..f : LastN(s, f)[i] = s[n - f + i]
  <2>1. f \in 0..Len(s)
    BY <1>0, <1>3
  <2>2. /\ LastN(s, f) \in Seq(RoundType) /\ Len(LastN(s, f)) = f
        /\ \A i \in 1..f : LastN(s, f)[i] = s[n - f + i]
    BY <2>1, LastFacts
  <2> QED BY <2>2, NothingAccepted
<1>4. g.streak >= f => Empty
  <2> SUFFICES ASSUME g.streak >= f PROVE Empty
    OBVIOUS
  <2>1. n >= f
    BY <1>0, <1>2
  <2>2. ASSUME NEW i \in 1..f PROVE s[n - f + i].accepted = 0
    <3>1. n - f + i \in (n - g.streak + 1)..n
      BY <1>0, <1>2
    <3> QED BY <1>1, <3>1 DEF StreakTrue
  <2> QED BY <1>3, <2>1, <2>2
<1>5. Empty => g.streak >= f
  <2> SUFFICES ASSUME Empty, g.streak < f PROVE FALSE
    BY <1>0
  <2>1. f - g.streak \in 1..f /\ n - f + (f - g.streak) = n - g.streak /\ n > g.streak
    BY <1>0, <1>2
  <2>2. s[n - g.streak].accepted = 0
    BY <1>3, <2>1
  <2> QED BY <1>1, <2>1, <2>2 DEF StreakTrue
<1>6. CASE ~setting.economic
  <2>1. ShouldFallback(g) <=> g.streak >= f
    BY <1>6 DEF ShouldFallback
  <2>2. Losing(s) <=> Empty
    BY <1>6 DEF Losing
  <2> QED BY <1>4, <1>5, <2>1, <2>2
<1>7. CASE setting.economic /\ n < Window
  <2>1. g.rows < Window /\ g.total = Accepted(s) /\ g.rounds = n
    BY <1>0, <1>1, <1>7 DEF RingTrue
  <2>2. ShouldFallback(g) <=> g.streak >= f /\ Accepted(s) < n
    BY <1>7, <2>1 DEF ShouldFallback
  <2>3. Losing(s) <=> Empty /\ Accepted(s) < n
    <3>1. ~(n >= Window)
      BY <1>0, <1>7
    <3> QED BY <1>7, <3>1 DEF Losing
  <2> QED BY <1>4, <1>5, <2>2, <2>3
<1>8. CASE setting.economic /\ n >= Window
  <2>1. g.rows = Window /\ g.sum = Accepted(LastN(s, Window))
    BY <1>0, <1>1, <1>8 DEF RingTrue
  <2>2. ~(g.rows < Window)
    BY <1>0, <2>1
  <2> QED BY <1>8, <2>1, <2>2 DEF ShouldFallback, Losing
<1> QED BY <1>0, <1>6, <1>7, <1>8

-----------------------------------------------------------------------------
(* HistoryDraftPolicy.                                                     *)

\* What HistoryEarned asks of a policy h that becomes q: s and t are the
\* learned and the history rounds after the step, all the rounds before it.
HistoryFair(h, q, s, t, all) ==
  /\ ~h.active /\ q.active => Weak(LastN(s, LearnedProbe))
  /\ h.active /\ ~q.active => Weak(LastN(t, HistoryProbe))
  /\ (\E i \in 1..Len(all) : all[i].source = "history") /\ ~h.active => ~q.active

\* No history round appears by a round of another source.
LEMMA NoHistoryAppears ==
  ASSUME NEW all \in Seq(RoundType), NEW r \in RoundType, r.source # "history",
         \E i \in 1..Len(Append(all, r)) : Append(all, r)[i].source = "history"
  PROVE  \E i \in 1..Len(all) : all[i].source = "history"
<1> DEFINE t == Append(all, r)
<1>1. /\ Len(t) = Len(all) + 1 /\ Len(all) \in Nat /\ t[Len(t)] = r
      /\ \A i \in 1..Len(all) : t[i] = all[i]
  BY LastRound
<1>2. PICK i \in 1..Len(t) : t[i].source = "history"
  OBVIOUS
<1> HIDE DEF t
<1>3. i # Len(t)
  BY <1>1, <1>2
<1>4. i \in 1..Len(all)
  BY <1>1, <1>3
<1> QED BY <1>1, <1>2, <1>4

LEMMA CountedFacts ==
  ASSUME NEW s \in Seq(RoundType), NEW r \in RoundType, NEW t \in Tallies, Counts(t, s)
  PROVE  /\ Counted(t, r.proposed, r.accepted) \in Tallies
         /\ Counts(Counted(t, r.proposed, r.accepted), Append(s, r))
         /\ Counted(t, r.proposed, r.accepted).rounds = t.rounds + 1
         /\ t.rounds \in Nat
<1> DEFINE u == Counted(t, r.proposed, r.accepted)
<1>1. /\ t.rounds \in Nat /\ t.proposed \in Nat /\ t.accepted \in Nat
      /\ r.proposed \in Nat /\ r.accepted \in Nat
  BY DEF Tallies, RoundType
<1>2. /\ u.rounds = t.rounds + 1 /\ u.proposed = t.proposed + r.proposed
      /\ u.accepted = t.accepted + r.accepted
  BY DEF Counted
<1>3. u \in Tallies
  BY <1>1 DEF Counted, Tallies
<1> HIDE DEF u
<1>4. Counts(u, Append(s, r))
  BY <1>1, <1>2, CountsGrow
<1> QED BY <1>1, <1>2, <1>3, <1>4 DEF u

LEMMA LearnedHistory ==
  ASSUME NEW h \in HistoryType, NEW s \in Seq(RoundType), NEW t \in Seq(RoundType),
         NEW all \in Seq(RoundType), NEW r \in RoundType, r.source = "learned",
         HistoryTrue(h, s, t, all)
  PROVE  LET q == ObserveLearned(h, r.proposed, r.accepted)
         IN  /\ q \in HistoryType
             /\ HistoryTrue(q, Append(s, r), t, Append(all, r))
             /\ HistoryFair(h, q, Append(s, r), t, all)
<1> DEFINE q == ObserveLearned(h, r.proposed, r.accepted)
           u == Counted(h.learned, r.proposed, r.accepted)
           weak == 2 * u.accepted < u.proposed
           Old(x) == (\E i \in 1..Len(Append(all, r)) : Append(all, r)[i].source = "history")
                       => x.active \/ x.rejected
<1>0. /\ h.active \in BOOLEAN /\ h.rejected \in BOOLEAN
      /\ h.learned \in Tallies /\ h.history \in Tallies
  BY DEF HistoryType
<1>1. (\E i \in 1..Len(all) : all[i].source = "history") => h.active \/ h.rejected
  BY DEF HistoryTrue
<1>2. Old(h)
  <2>1. r.source # "history"
    OBVIOUS
  <2> QED BY <1>1, <2>1, NoHistoryAppears
<1>3. CASE setting.mode # "adaptive"
  <2>1. q = h
    BY <1>3 DEF ObserveLearned
  <2>2. HistoryTrue(h, Append(s, r), t, Append(all, r))
    BY <1>2, <1>3 DEF HistoryTrue
  <2> QED BY <2>1, <2>2 DEF HistoryFair
<1>4. CASE setting.mode = "adaptive" /\ (h.active \/ h.rejected)
  <2>1. q = h
    BY <1>4 DEF ObserveLearned
  <2>2. HistoryTrue(h, Append(s, r), t, Append(all, r))
    BY <1>2, <1>4 DEF HistoryTrue
  <2> QED BY <2>1, <2>2 DEF HistoryFair
<1>5. CASE setting.mode = "adaptive" /\ ~h.active /\ ~h.rejected
  <2>1. Counts(h.learned, s) /\ h.learned.rounds < LearnedProbe /\ h.history = Tally
    BY <1>5 DEF HistoryTrue
  <2>2. /\ u \in Tallies /\ Counts(u, Append(s, r)) /\ u.rounds = h.learned.rounds + 1
        /\ h.learned.rounds \in Nat
    BY <1>0, <2>1, CountedFacts
  <2>3. /\ u.rounds \in Nat /\ u.rounds <= LearnedProbe /\ LearnedProbe \in Nat
        /\ LearnedProbe > 0 /\ HistoryProbe > 0
    BY <2>1, <2>2, PolicyNumbers
  <2>4. Tally.rounds = 0 /\ Tally \in Tallies
    BY DEF Tally, Tallies
  <2>5. Counts(Tally, Append(s, r)) /\ Counts(Tally, t)
    <3>1. Append(s, r) \in Seq(RoundType)
      BY AppendProperties
    <3> QED BY <3>1, NoneWatched
  <2>6. ~(\E i \in 1..Len(all) : all[i].source = "history")
    BY <1>1, <1>5
  <2>7. CASE u.rounds < LearnedProbe
    <3>1. q = [h EXCEPT !.learned = u]
      BY <1>5, <2>7 DEF ObserveLearned
    <3> HIDE DEF q, u
    <3>2. /\ q.learned = u /\ q.active = h.active /\ q.rejected = h.rejected
          /\ q.history = h.history /\ q \in HistoryType
      BY <1>0, <2>2, <3>1 DEF HistoryType
    <3>3. HistoryTrue(q, Append(s, r), t, Append(all, r))
      BY <1>2, <1>5, <2>1, <2>2, <2>7, <3>2 DEF HistoryTrue
    <3>4. HistoryFair(h, q, Append(s, r), t, all)
      BY <1>5, <3>2 DEF HistoryFair
    <3> QED BY <3>2, <3>3, <3>4 DEF q
  <2>8. CASE ~(u.rounds < LearnedProbe)
    <3>1. q = [h EXCEPT !.learned = Tally, !.active = weak]
      BY <1>5, <2>8 DEF ObserveLearned
    <3>0. weak \in BOOLEAN
      OBVIOUS
    <3>5. weak <=> Weak(LastN(Append(s, r), LearnedProbe))
      <4>1. u.rounds = LearnedProbe
        BY <2>3, <2>8
      <4> HIDE DEF u
      <4> QED BY <2>2, <4>1 DEF Counts, Weak
    <3> HIDE DEF q, u, weak
    <3>2. /\ q.learned = Tally /\ q.active = weak /\ q.rejected = h.rejected
          /\ q.history = h.history /\ q \in HistoryType
      BY <1>0, <2>4, <3>0, <3>1 DEF HistoryType
    <3>3. HistoryTrue(q, Append(s, r), t, Append(all, r))
      <4>1. Old(q)
        <5>1. ~(\E i \in 1..Len(Append(all, r)) : Append(all, r)[i].source = "history")
          BY <1>2, <1>5
        <5> QED BY <5>1
      <4>2. ~(q.active /\ q.rejected) /\ (q.active => q.learned = Tally)
        BY <1>5, <3>2
      <4>3. q.history = Tally
        BY <2>1, <3>2
      <4> QED BY <2>3, <2>4, <2>5, <3>2, <4>1, <4>2, <4>3 DEF HistoryTrue
    <3>4. HistoryFair(h, q, Append(s, r), t, all)
      BY <1>5, <2>6, <3>2, <3>5 DEF HistoryFair
    <3> QED BY <3>2, <3>3, <3>4 DEF q
  <2> QED BY <2>7, <2>8
<1> QED BY <1>0, <1>3, <1>4, <1>5

LEMMA HistoryHistory ==
  ASSUME NEW h \in HistoryType, NEW s \in Seq(RoundType), NEW t \in Seq(RoundType),
         NEW all \in Seq(RoundType), NEW r \in RoundType, r.source = "history",
         h.active, HistoryTrue(h, s, t, all)
  PROVE  LET q == ObserveHistory(h, r.proposed, r.accepted)
         IN  /\ q \in HistoryType
             /\ HistoryTrue(q, s, Append(t, r), Append(all, r))
             /\ HistoryFair(h, q, s, Append(t, r), all)
<1> DEFINE q == ObserveHistory(h, r.proposed, r.accepted)
           u == Counted(h.history, r.proposed, r.accepted)
           weak == 2 * u.accepted < u.proposed
<1>0. /\ h.active \in BOOLEAN /\ h.rejected \in BOOLEAN
      /\ h.learned \in Tallies /\ h.history \in Tallies
  BY DEF HistoryType
<1>1. CASE setting.mode # "adaptive"
  <2>1. q = h
    BY <1>1 DEF ObserveHistory
  <2>2. HistoryTrue(h, s, Append(t, r), Append(all, r))
    BY <1>1 DEF HistoryTrue
  <2> QED BY <2>1, <2>2 DEF HistoryFair
<1>2. CASE setting.mode = "adaptive"
  <2>1. /\ Counts(h.history, t) /\ h.history.rounds < HistoryProbe /\ h.learned = Tally
        /\ ~h.rejected
    BY <1>2 DEF HistoryTrue
  <2>2. /\ u \in Tallies /\ Counts(u, Append(t, r)) /\ u.rounds = h.history.rounds + 1
        /\ h.history.rounds \in Nat
    BY <1>0, <2>1, CountedFacts
  <2>3. /\ u.rounds \in Nat /\ u.rounds <= HistoryProbe /\ HistoryProbe \in Nat
        /\ HistoryProbe > 0
    BY <2>1, <2>2, PolicyNumbers
  <2>4. Tally.rounds = 0 /\ Tally \in Tallies
    BY DEF Tally, Tallies
  <2>5. Counts(Tally, Append(t, r))
    <3>1. Append(t, r) \in Seq(RoundType)
      BY AppendProperties
    <3> QED BY <3>1, NoneWatched
  <2>7. CASE u.rounds < HistoryProbe
    <3>1. q = [h EXCEPT !.history = u]
      BY <1>2, <2>7 DEF ObserveHistory
    <3> HIDE DEF q, u
    <3>2. /\ q.history = u /\ q.active = h.active /\ q.rejected = h.rejected
          /\ q.learned = h.learned /\ q \in HistoryType
      BY <1>0, <2>2, <3>1 DEF HistoryType
    <3>3. HistoryTrue(q, s, Append(t, r), Append(all, r))
      BY <2>1, <2>2, <2>7, <3>2 DEF HistoryTrue
    <3>4. HistoryFair(h, q, s, Append(t, r), all)
      BY <3>2 DEF HistoryFair
    <3> QED BY <3>2, <3>3, <3>4 DEF q
  <2>8. CASE ~(u.rounds < HistoryProbe)
    <3> DEFINE strong == ~weak
    <3>1. q = [h EXCEPT !.history = Tally, !.active = strong, !.rejected = weak]
      BY <1>2, <2>8 DEF ObserveHistory
    <3>0. weak \in BOOLEAN /\ strong \in BOOLEAN
      OBVIOUS
    <3>5. weak <=> Weak(LastN(Append(t, r), HistoryProbe))
      <4>1. u.rounds = HistoryProbe
        BY <2>3, <2>8
      <4> HIDE DEF u
      <4> QED BY <2>2, <4>1 DEF Counts, Weak
    <3>6. strong <=> ~weak
      OBVIOUS
    <3> HIDE DEF q, u, weak, strong
    <3>2. /\ q.history = Tally /\ q.active = strong /\ q.rejected = weak
          /\ q.learned = h.learned /\ q \in HistoryType
      BY <1>0, <2>4, <3>0, <3>1 DEF HistoryType
    <3>3. HistoryTrue(q, s, Append(t, r), Append(all, r))
      <4>1. CASE weak
        <5>1. ~q.active /\ q.rejected
          BY <3>0, <3>2, <3>6, <4>1
        <5> QED BY <5>1 DEF HistoryTrue
      <4>2. CASE ~weak
        <5>1. q.active /\ ~q.rejected
          BY <3>0, <3>2, <3>6, <4>2
        <5> QED BY <2>1, <2>3, <2>4, <2>5, <3>2, <5>1 DEF HistoryTrue
      <4> QED BY <4>1, <4>2
    <3>4. HistoryFair(h, q, s, Append(t, r), all)
      BY <3>2, <3>5, <3>6 DEF HistoryFair
    <3> QED BY <3>2, <3>3, <3>4 DEF q
  <2> QED BY <2>7, <2>8
<1> QED BY <1>1, <1>2

LEMMA CopyHistory ==
  ASSUME NEW h \in HistoryType, NEW s \in Seq(RoundType), NEW t \in Seq(RoundType),
         NEW all \in Seq(RoundType), NEW r \in RoundType, r.source = "copy",
         HistoryTrue(h, s, t, all)
  PROVE  HistoryTrue(h, s, t, Append(all, r)) /\ HistoryFair(h, h, s, t, all)
<1>1. r.source # "history"
  OBVIOUS
<1>2. (\E i \in 1..Len(Append(all, r)) : Append(all, r)[i].source = "history")
        => h.active \/ h.rejected
  BY <1>1, NoHistoryAppears DEF HistoryTrue
<1> QED BY <1>2 DEF HistoryTrue, HistoryFair

-----------------------------------------------------------------------------
(* Context copies.                                                         *)

\* Scale only matters by its factors of ten.
LEMMA ScaleFacts ==
  /\ Scale \in Nat /\ Scale > 0
  /\ Scale \div 10 \in Nat /\ Scale = 10 * (Scale \div 10)
  /\ Scale \div 100 \in Nat /\ Scale = 100 * (Scale \div 100)
  /\ Scale \div 2 \in 0..Scale
<1>1. Scale = 60000000
  BY SMT DEF Scale
<1>2. \A z \in Nat : z = 60000000 =>
        /\ z > 0 /\ z \div 10 = 6000000 /\ z \div 100 = 600000 /\ z \div 2 = 30000000
  BY SMT
<1>3. Scale \in Nat /\ Scale > 0
  BY <1>1, SMT
<1>4. Scale \div 10 \in Nat /\ Scale = 10 * (Scale \div 10)
  BY <1>1, <1>2, <1>3, SMT
<1>5. Scale \div 100 \in Nat /\ Scale = 100 * (Scale \div 100)
  BY <1>1, <1>2, <1>3, SMT
<1>6. Scale \div 2 \in 0..Scale
  <2>1. \A z \in Nat : z \div 2 \in 0..z
    BY SMT
  <2> QED BY <1>3, <2>1
<1> QED BY <1>3, <1>4, <1>5, <1>6

LEMMA Quotient ==
  ASSUME NEW z \in Nat, NEW p \in Nat, p >= 2, NEW k \in Nat, k <= p
  PROVE  /\ (z * k) \div p \in 0..z
         /\ k = 0 => (z * k) \div p = 0
<1> DEFINE x == (z * k) \div p
<1>1. z * k \in Nat /\ z * k <= z * p /\ z * p \in Nat
  OBVIOUS
<1>2. k = 0 => z * k = 0
  OBVIOUS
<1>3. x \in Nat /\ p * x <= z * k
  BY <1>1, SMT
<1>4. x <= z
  <2> HIDE DEF x
  <2>1. x \in Nat /\ p * x <= z * p
    BY <1>1, <1>3
  <2> QED BY <2>1, SMT
<1> QED BY <1>2, <1>3, <1>4, SMT

LEMMA AverageFacts ==
  ASSUME NEW a \in 0..Scale, NEW p \in Nat, p >= 2, NEW k \in Nat, k <= p
  PROVE  /\ (7 * a + 3 * ((Scale * k) \div p)) \div 10 \in 0..Scale
         /\ k = 0 => (7 * a + 3 * ((Scale * k) \div p)) \div 10 = (7 * a) \div 10
<1> DEFINE x == (Scale * k) \div p
           y == (7 * a + 3 * x) \div 10
<1>1. x \in 0..Scale /\ (k = 0 => x = 0) /\ Scale \in Nat
  BY ScaleFacts, Quotient
<1> HIDE DEF x
<1>2. y \in 0..Scale
  BY <1>1
<1>3. k = 0 => y = (7 * a) \div 10
  BY <1>1
<1> QED BY <1>2, <1>3 DEF x, y

\* The average falls below a limit that it keeps after a lost copy.
LEMMA AverageFalls ==
  ASSUME NEW a \in 0..Scale
  PROVE  /\ (7 * a) \div 10 <= 7 * (Scale \div 10)
         /\ a <= 7 * (Scale \div 10) => (7 * a) \div 10 <= 49 * (Scale \div 100)
         /\ a <= 49 * (Scale \div 100) => 20 * ((7 * a) \div 10) < 7 * Scale
<1>1. PICK z \in Nat : z = Scale
  BY ScaleFacts
<1>2. PICK u \in Nat : u = Scale \div 10 /\ z = 10 * u
  BY <1>1, ScaleFacts
<1>3. PICK v \in Nat : v = Scale \div 100 /\ z = 100 * v /\ v > 0
  <2>1. Scale \div 100 \in Nat /\ Scale = 100 * (Scale \div 100) /\ Scale > 0
    BY ScaleFacts
  <2> DEFINE v == Scale \div 100
  <2>2. v \in Nat /\ z = 100 * v /\ z > 0
    BY <1>1, <2>1
  <2> HIDE DEF v
  <2>3. v > 0
    BY <2>2
  <2> QED BY <2>2, <2>3 DEF v
<1>4. u = 10 * v
  BY <1>2, <1>3
<1>5. a \in Nat /\ a <= z
  BY <1>1
<1>6. (7 * a) \div 10 <= 7 * u
  BY <1>2, <1>5
<1>7. a <= 7 * u => (7 * a) \div 10 <= 49 * v
  BY <1>4, <1>5
<1>8. a <= 49 * v => 20 * ((7 * a) \div 10) < 7 * z
  BY <1>3, <1>5
<1> QED BY <1>1, <1>2, <1>3, <1>6, <1>7, <1>8

\* What CopyEarned asks of the round r: s and all are the copies and the
\* rounds before it.
CopyFair(r, s, all) ==
  /\ r.proposed > NarrowCopy =>
       Len(s) >= 2 /\ \A i \in {Len(s) - 1, Len(s)} : s[i].accepted = s[i].proposed
  /\ \A i \in 3..Len(all) :
       LostCopies(all, i - 2, i) =>
         Tokens(all) >= Tokens(SubSeq(all, 1, i - 1)) + CopyBackoff

\* A round appended to others.
LEMMA RoundAppended ==
  ASSUME NEW all \in Seq(RoundType), NEW r \in RoundType
  PROVE  /\ SubSeq(Append(all, r), 1, Len(all)) = all
         /\ \A i \in 1..Len(all) : SubSeq(Append(all, r), 1, i - 1) = SubSeq(all, 1, i - 1)
         /\ \A i \in 1..Len(all) : \A a \in 1..i :
              LostCopies(Append(all, r), a, i) <=> LostCopies(all, a, i)
         /\ \A a \in 1..(Len(all) + 1) :
              LostCopies(Append(all, r), a, Len(all) + 1) <=>
                LostCopies(all, a, Len(all)) /\ r.source = "copy" /\ r.accepted = 0
         /\ \A i \in 1..Len(all) : Tokens(SubSeq(all, 1, i - 1)) \in Nat
<1> DEFINE t == Append(all, r)
           n == Len(all)
<1>1. /\ t \in Seq(RoundType) /\ Len(t) = n + 1 /\ n \in Nat /\ t[n + 1] = r
      /\ \A i \in 1..n : t[i] = all[i]
  BY LastRound
<1>0. n \in Nat
  BY <1>1
<1>2. \A m \in 0..n : SubSeq(t, 1, m) = SubSeq(all, 1, m)
  BY StartStays
<1>3. SubSeq(all, 1, n) = all
  <2>1. LastN(all, n) \in Seq(RoundType) /\ Len(LastN(all, n)) = n /\ n \in 0..Len(all)
    BY <1>0, LastFacts
  <2>2. \A i \in 1..n : LastN(all, n)[i] = all[n - n + i]
    BY <2>1, LastFacts
  <2>3. \A i \in 1..n : LastN(all, n)[i] = all[i]
    <3>1. \A i \in 1..n : n - n + i = i
      BY <1>0
    <3> QED BY <2>2, <3>1
  <2>4. LastN(all, n) = all
    BY <2>1, <2>3, SeqEqual
  <2> QED BY <2>1, <2>4, WholeWindow
<1>4. SubSeq(t, 1, n) = all
  BY <1>0, <1>2, <1>3
<1> HIDE DEF t
<1>5. \A i \in 1..n : SubSeq(t, 1, i - 1) = SubSeq(all, 1, i - 1)
  <2>1. \A i \in 1..n : i - 1 \in 0..n
    BY <1>0
  <2> QED BY <1>2, <2>1
<1>6. ASSUME NEW i \in 1..n, NEW a \in 1..i
      PROVE  LostCopies(t, a, i) <=> LostCopies(all, a, i)
  <2>1. \A j \in a..i : j \in 1..n
    BY <1>0
  <2> QED BY <1>1, <2>1 DEF LostCopies
<1>7. ASSUME NEW a \in 1..(n + 1)
      PROVE  LostCopies(t, a, n + 1) <=>
               LostCopies(all, a, n) /\ r.source = "copy" /\ r.accepted = 0
  <2>1. \A j \in a..n : j \in 1..n /\ j \in a..(n + 1)
    BY <1>0
  <2>2. \A j \in a..(n + 1) : j \in a..n \/ j = n + 1
    BY <1>0
  <2>3. n + 1 \in a..(n + 1)
    BY <1>0
  <2> QED BY <1>1, <2>1, <2>2, <2>3 DEF LostCopies
<1>8. ASSUME NEW i \in 1..n PROVE Tokens(SubSeq(all, 1, i - 1)) \in Nat
  <2> DEFINE m == i - 1
  <2>1. m \in Int /\ 1 \in Int /\ \A j \in 1..m : all[j] \in RoundType
    BY <1>0, ElementOfSeq
  <2> HIDE DEF m
  <2>2. SubSeq(all, 1, m) \in Seq(RoundType)
    BY <2>1, SubSeqProperties
  <2> QED BY <2>2, RoundSums, NoRounds DEF m
<1> QED BY <1>4, <1>5, <1>6, <1>7, <1>8 DEF t

\* A round of another source asks nothing and changes nothing.
LEMMA OtherCopy ==
  ASSUME NEW c \in CopyType, NEW s \in Seq(RoundType), NEW all \in Seq(RoundType),
         NEW r \in RoundType, r.source # "copy", CopyTrue(c, s, all)
  PROVE  CopyTrue(c, s, Append(all, r))
<1> DEFINE t == Append(all, r)
           n == Len(all)
<1>1. n \in Nat /\ Len(t) = n + 1 /\ CopyBackoff \in Nat
  BY LastRound, PolicyNumbers
<1>2. \A a \in 1..(n + 1) : ~LostCopies(t, a, Len(t))
  BY <1>1, RoundAppended
<1>3. Tokens(all) \in Nat /\ Tokens(t) \in Nat /\ Tokens(t) >= Tokens(all)
  <2>1. /\ Tokens(all) \in Nat /\ Tokens(t) = Tokens(all) + (r.accepted + 1)
        /\ r.accepted \in Nat
    BY RoundSums DEF RoundType
  <2> QED BY <2>1
<1>4. /\ PerfectTrue(c, s) /\ c.backoff >= CopyBackoff /\ ThreeLost(c, all)
  BY DEF CopyTrue
<1>5. LastLost(c, t)
  <2>1. Len(t) \in 1..(n + 1)
    BY <1>1
  <2> QED BY <1>2, <2>1 DEF LastLost
<1>6. TwoLost(c, t)
  <2>1. Len(t) >= 2 => Len(t) - 1 \in 1..(n + 1)
    BY <1>1
  <2> QED BY <1>2, <2>1 DEF TwoLost
<1>7. ThreeLost(c, t)
  <2> SUFFICES ASSUME NEW i \in 3..Len(t), LostCopies(t, i - 2, i)
               PROVE  \/ c.until >= Tokens(SubSeq(t, 1, i - 1)) + CopyBackoff
                      \/ Tokens(t) >= Tokens(SubSeq(t, 1, i - 1)) + CopyBackoff
    BY DEF ThreeLost
  <2>1. i - 2 \in 1..(n + 1) /\ (i = n + 1 \/ i \in 3..n)
    BY <1>1
  <2>2. i \in 3..n
    BY <1>1, <1>2, <2>1
  <2>3. i \in 1..n /\ i - 2 \in 1..i
    BY <1>1, <2>2
  <2>4. /\ LostCopies(all, i - 2, i) /\ SubSeq(t, 1, i - 1) = SubSeq(all, 1, i - 1)
        /\ Tokens(SubSeq(all, 1, i - 1)) \in Nat
    BY <2>3, RoundAppended
  <2> DEFINE x == Tokens(SubSeq(all, 1, i - 1))
  <2>5. c.until >= x + CopyBackoff \/ Tokens(all) >= x + CopyBackoff
    BY <1>4, <2>2, <2>4 DEF ThreeLost
  <2>6. x \in Nat
    BY <2>4
  <2> HIDE DEF x, t
  <2>7. c.until >= x + CopyBackoff \/ Tokens(t) >= x + CopyBackoff
    BY <1>1, <1>3, <2>5, <2>6
  <2> QED BY <2>4, <2>7 DEF x
<1> QED BY <1>4, <1>5, <1>6, <1>7 DEF CopyTrue

\* What a copy round makes of the policy.
LEMMA CopyObserved ==
  ASSUME NEW c \in CopyType, NEW p \in Nat, NEW k \in Nat, NEW n \in Nat,
         p >= 2, k <= p, c.backoff >= CopyBackoff
  PROVE  LET q == ObserveCopy(c, p, k, n)
         IN  /\ q \in CopyType /\ q.backoff >= CopyBackoff
             /\ q.perfect = 0 \/ (k = p /\ q.perfect = c.perfect + 1)
             /\ \/ q.until >= n + CopyBackoff
                \/ /\ q.until = c.until /\ q.seen = c.seen + 1
                   /\ k = 0 => q.average = (7 * c.average) \div 10
                   /\ c.seen >= 2 => ~(20 * q.average < 7 * Scale)
<1> DEFINE q == ObserveCopy(c, p, k, n)
           average == (7 * c.average + 3 * ((Scale * k) \div p)) \div 10
           backoff == IF 2 * k >= p THEN CopyBackoff ELSE c.backoff
           ends == c.seen + 1 >= 3 /\ 20 * average < 7 * Scale
<1>1. /\ c.seen \in Nat /\ c.perfect \in Nat /\ c.average \in 0..Scale
      /\ c.until \in Nat /\ c.backoff \in Nat
  BY DEF CopyType
<1>2. /\ CopyBackoff \in Nat /\ MaxBackoff \in Nat /\ CopyBackoff <= MaxBackoff
  BY PolicyNumbers
<1>3. average \in 0..Scale /\ (k = 0 => average = (7 * c.average) \div 10)
  BY <1>1, AverageFacts
<1>4. backoff \in Nat /\ backoff >= CopyBackoff
  BY <1>1, <1>2
<1>5. /\ q.seen = (IF ends THEN 0 ELSE c.seen + 1)
      /\ q.perfect = (IF ends THEN 0 ELSE IF k = p THEN c.perfect + 1 ELSE 0)
      /\ q.average = (IF ends THEN Scale \div 2 ELSE average)
      /\ q.until = (IF ends THEN n + backoff ELSE c.until)
      /\ q.backoff = (IF ends THEN Min({2 * backoff, MaxBackoff}) ELSE backoff)
      /\ q = [seen |-> q.seen, perfect |-> q.perfect, average |-> q.average,
              until |-> q.until, backoff |-> q.backoff]
  BY DEF ObserveCopy
<1>6. c.seen >= 2 <=> c.seen + 1 >= 3
  BY <1>1
<1> HIDE DEF q, backoff, average
<1>7. Min({2 * backoff, MaxBackoff}) \in Nat /\ Min({2 * backoff, MaxBackoff}) >= CopyBackoff
  <2> DEFINE a == 2 * backoff
             m == Min({a, MaxBackoff})
  <2>1. a \in Nat /\ a >= CopyBackoff
    BY <1>2, <1>4
  <2>2. m = CHOOSE x \in {a, MaxBackoff} : \A y \in {a, MaxBackoff} : x <= y
    BY DEF Min
  <2>3. \E x \in {a, MaxBackoff} : \A y \in {a, MaxBackoff} : x <= y
    <3> HIDE DEF a
    <3>1. a <= MaxBackoff \/ MaxBackoff <= a
      BY <1>2, <2>1
    <3>2. a <= a /\ MaxBackoff <= MaxBackoff
      BY <1>2, <2>1
    <3> QED BY <3>1, <3>2
  <2> HIDE DEF a, m
  <2>4. m \in {a, MaxBackoff}
    BY <2>2, <2>3
  <2>5. m \in Nat /\ m >= CopyBackoff
    BY <1>2, <2>1, <2>4
  <2> QED BY <2>5 DEF a, m
<1>8. CASE ends
  <2>1. q.until >= n + CopyBackoff /\ q.until \in Nat
    BY <1>2, <1>4, <1>5, <1>8
  <2>2. q.seen = 0 /\ q.perfect = 0 /\ q.average = Scale \div 2
    BY <1>5, <1>8
  <2>3. q.backoff \in Nat /\ q.backoff >= CopyBackoff
    BY <1>5, <1>7, <1>8
  <2>4. q \in CopyType
    <3>1. q.average \in 0..Scale
      BY <2>2, ScaleFacts
    <3> QED BY <1>5, <2>1, <2>2, <2>3, <3>1 DEF CopyType
  <2> QED BY <2>1, <2>2, <2>3, <2>4 DEF q
<1>9. CASE ~ends
  <2>1. /\ q.seen = c.seen + 1 /\ q.average = average /\ q.until = c.until
        /\ q.backoff = backoff
        /\ q.perfect = 0 \/ (k = p /\ q.perfect = c.perfect + 1)
    BY <1>5, <1>9
  <2>2. q.seen \in Nat /\ q.perfect \in Nat
    BY <1>1, <2>1
  <2>3. q \in CopyType
    BY <1>1, <1>3, <1>4, <1>5, <2>1, <2>2 DEF CopyType
  <2>4. c.seen >= 2 => ~(20 * q.average < 7 * Scale)
    BY <1>6, <1>9, <2>1
  <2> QED BY <1>3, <1>4, <2>1, <2>3, <2>4 DEF q
<1> QED BY <1>8, <1>9

\* A lost copy: either copies are suspended, or the average has fallen.
LEMMA CopyCopy ==
  ASSUME setting \in Settings,
         NEW c \in CopyType, NEW s \in Seq(RoundType), NEW all \in Seq(RoundType),
         NEW r \in RoundType, r.source = "copy", CopyTrue(c, s, all),
         Tokens(all) >= c.until, r.proposed \in 2..CopyCap(c, setting.copy),
         r.accepted <= r.proposed
  PROVE  LET q == ObserveCopy(c, r.proposed, r.accepted, Tokens(all))
         IN  /\ q \in CopyType
             /\ CopyTrue(q, Append(s, r), Append(all, r))
             /\ CopyFair(r, s, all)
<1> DEFINE t == Append(all, r)
           n == Len(all)
           q == ObserveCopy(c, r.proposed, r.accepted, Tokens(all))
           X(i) == Tokens(SubSeq(all, 1, i - 1))
<1>1. n \in Nat /\ Len(t) = n + 1 /\ CopyBackoff \in Nat /\ CopyBackoff > 0
  BY LastRound, PolicyNumbers
<1>2. /\ Tokens(all) \in Nat /\ Tokens(t) = Tokens(all) + (r.accepted + 1)
      /\ r.accepted \in Nat /\ r.proposed \in Nat /\ r.proposed >= 2
  BY RoundSums DEF RoundType
<1>3. /\ PerfectTrue(c, s) /\ c.backoff >= CopyBackoff /\ ThreeLost(c, all)
      /\ CopyBackoff > 1 => LastLost(c, all) /\ TwoLost(c, all)
  BY DEF CopyTrue
<1>4. /\ c.seen \in Nat /\ c.perfect \in Nat /\ c.average \in 0..Scale /\ c.until \in Nat
  BY DEF CopyType
<1>5. /\ q \in CopyType /\ q.backoff >= CopyBackoff
      /\ q.perfect = 0 \/ (r.accepted = r.proposed /\ q.perfect = c.perfect + 1)
      /\ \/ q.until >= Tokens(all) + CopyBackoff
         \/ /\ q.until = c.until /\ q.seen = c.seen + 1
            /\ r.accepted = 0 => q.average = (7 * c.average) \div 10
            /\ c.seen >= 2 => ~(20 * q.average < 7 * Scale)
  BY <1>2, <1>3, CopyObserved
<1>6. /\ SubSeq(t, 1, n) = all /\ Len(t) - 1 = n
      /\ \A i \in 1..n : X(i) \in Nat /\ SubSeq(t, 1, i - 1) = SubSeq(all, 1, i - 1)
      /\ \A i \in 1..n : \A a \in 1..i : LostCopies(t, a, i) <=> LostCopies(all, a, i)
      /\ \A a \in 1..(n + 1) : LostCopies(t, a, n + 1) =>
           LostCopies(all, a, n) /\ r.accepted = 0
  BY <1>1, RoundAppended
<1> HIDE DEF t, q
\* No suspension was running: a lost copy since it began has only emitted one token.
<1>7. ASSUME CopyBackoff > 1, n >= 1, LostCopies(all, n, n)
      PROVE  ~(c.until >= Tokens(SubSeq(all, 1, n - 1)) + CopyBackoff)
  <2>1. PICK u \in Seq(RoundType), x \in RoundType : all = Append(u, x)
    <3>1. all # <<>>
      BY <1>7, EmptySeq
    <3> QED BY <3>1, SequenceEmptyOrAppend
  <2>2. n = Len(u) + 1 /\ all[n] = x /\ Len(u) \in Nat
    BY <2>1, LastRound
  <2>3. SubSeq(all, 1, n - 1) = u
    <3>1. SubSeq(Append(u, x), 1, Len(u)) = u
      BY RoundAppended
    <3>2. n - 1 = Len(u)
      BY <2>2
    <3> QED BY <2>1, <3>1, <3>2
  <2>4. x.accepted = 0
    <3>1. n \in n..n
      BY <1>1
    <3> QED BY <1>7, <2>2, <3>1 DEF LostCopies
  <2>5. Tokens(u) \in Nat /\ Tokens(all) = Tokens(u) + (x.accepted + 1)
    BY <2>1, RoundSums
  <2> DEFINE y == Tokens(u)
             z == Tokens(all)
  <2>6. y \in Nat /\ z = y + 1 /\ z >= c.until
    BY <2>4, <2>5
  <2> HIDE DEF y, z
  <2>7. ~(c.until >= y + CopyBackoff)
    BY <1>1, <1>4, <1>7, <2>6
  <2> QED BY <2>3, <2>7 DEF y
<1>8. LastLost(q, t)
  <2> SUFFICES ASSUME LostCopies(t, n + 1, n + 1)
               PROVE  \/ q.until >= Tokens(all) + CopyBackoff
                      \/ q.seen >= 1 /\ q.average <= 7 * (Scale \div 10)
    BY <1>1, <1>6 DEF LastLost
  <2>1. r.accepted = 0
    <3>1. n + 1 \in 1..(n + 1)
      BY <1>1
    <3> QED BY <1>6, <3>1
  <2>2. CASE q.until >= Tokens(all) + CopyBackoff
    BY <2>2
  <2>3. CASE q.seen = c.seen + 1 /\ q.average = (7 * c.average) \div 10
    <3>1. q.seen >= 1
      BY <1>4, <2>3
    <3> QED BY <1>4, <2>3, <3>1, AverageFalls
  <2> QED BY <1>5, <2>1, <2>2, <2>3
<1>9. ASSUME CopyBackoff > 1 PROVE TwoLost(q, t)
  <2> SUFFICES ASSUME n + 1 >= 2, LostCopies(t, n, n + 1)
               PROVE  \/ q.until >= Tokens(all) + CopyBackoff
                      \/ q.seen >= 2 /\ q.average <= 49 * (Scale \div 100)
    BY <1>1, <1>6 DEF TwoLost
  <2>1. n >= 1 /\ n \in 1..(n + 1)
    BY <1>1
  <2>2. r.accepted = 0 /\ LostCopies(all, n, n)
    BY <1>6, <2>1
  <2>3. c.seen >= 1 /\ c.average <= 7 * (Scale \div 10)
    BY <1>3, <1>7, <1>9, <2>1, <2>2 DEF LastLost
  <2>4. CASE q.until >= Tokens(all) + CopyBackoff
    BY <2>4
  <2>5. CASE q.seen = c.seen + 1 /\ q.average = (7 * c.average) \div 10
    <3>1. q.seen >= 2
      BY <1>4, <2>3, <2>5
    <3> QED BY <1>4, <2>3, <2>5, <3>1, AverageFalls
  <2> QED BY <1>5, <2>2, <2>4, <2>5
<1>10. \A i \in 3..n : LostCopies(all, i - 2, i) => Tokens(all) >= X(i) + CopyBackoff
  <2> SUFFICES ASSUME NEW i \in 3..n, LostCopies(all, i - 2, i)
               PROVE  Tokens(all) >= X(i) + CopyBackoff
    OBVIOUS
  <2>1. c.until >= X(i) + CopyBackoff \/ Tokens(all) >= X(i) + CopyBackoff
    BY <1>3 DEF ThreeLost
  <2>2. X(i) \in Nat
    <3>1. i \in 1..n
      BY <1>1
    <3> QED BY <1>6, <3>1
  <2> HIDE DEF X
  <2> QED BY <1>1, <1>2, <1>4, <2>1, <2>2
<1>11. ThreeLost(q, t)
  <2> SUFFICES ASSUME NEW i \in 3..Len(t), LostCopies(t, i - 2, i)
               PROVE  \/ q.until >= Tokens(SubSeq(t, 1, i - 1)) + CopyBackoff
                      \/ Tokens(t) >= Tokens(SubSeq(t, 1, i - 1)) + CopyBackoff
    BY DEF ThreeLost
  <2>1. i \in 3..n \/ i = n + 1
    BY <1>1
  <2>2. CASE i \in 3..n
    <3>1. i \in 1..n /\ i - 2 \in 1..i
      BY <1>1, <2>2
    <3>2. /\ LostCopies(all, i - 2, i) /\ X(i) \in Nat
          /\ SubSeq(t, 1, i - 1) = SubSeq(all, 1, i - 1)
      BY <1>6, <3>1
    <3>3. Tokens(all) >= X(i) + CopyBackoff
      BY <1>10, <2>2, <3>2
    <3>4. Tokens(t) >= X(i) + CopyBackoff
      <4>1. X(i) \in Nat
        BY <3>2
      <4> HIDE DEF X
      <4> QED BY <1>1, <1>2, <3>3, <4>1
    <3> QED BY <3>2, <3>4
  <2>3. CASE i = n + 1
    <3>1. n - 1 \in 1..(n + 1) /\ i - 2 = n - 1 /\ i - 1 = n /\ n >= 2 /\ n \in 1..n
      BY <1>1, <2>3
    <3>2. r.accepted = 0 /\ LostCopies(all, n - 1, n) /\ SubSeq(t, 1, i - 1) = all
      BY <1>6, <2>3, <3>1
    <3>3. CASE CopyBackoff = 1
      <4>1. Tokens(t) >= Tokens(all) + CopyBackoff
        BY <1>2, <3>2, <3>3
      <4> QED BY <3>2, <4>1
    <3>4. CASE CopyBackoff > 1
      <4>1. LostCopies(all, n, n)
        <5>1. \A j \in n..n : j \in (n - 1)..n
          BY <1>1
        <5> QED BY <3>2, <5>1 DEF LostCopies
      <4>2. c.seen >= 2 /\ c.average <= 49 * (Scale \div 100)
        <5>1. n >= 1
          BY <3>1
        <5> QED BY <1>3, <1>7, <3>1, <3>2, <3>4, <4>1, <5>1 DEF TwoLost
      <4>3. 20 * ((7 * c.average) \div 10) < 7 * Scale
        BY <1>4, <4>2, AverageFalls
      <4>4. q.until >= Tokens(all) + CopyBackoff
        BY <1>5, <3>2, <4>2, <4>3
      <4> QED BY <3>2, <4>4
    <3> QED BY <1>1, <3>3, <3>4
  <2> QED BY <2>1, <2>2, <2>3
<1>12. PerfectTrue(q, Append(s, r))
  <2> DEFINE v == Append(s, r)
             m == Len(s)
  <2>1. /\ Len(v) = m + 1 /\ m \in Nat /\ v[m + 1] = r /\ \A i \in 1..m : v[i] = s[i]
    BY LastRound
  <2>0. m \in Nat /\ Len(v) = m + 1
    BY <2>1
  <2> HIDE DEF v
  <2>2. CASE q.perfect = 0
    <3>1. q.perfect <= Len(v) /\ (Len(v) - q.perfect + 1)..Len(v) = {}
      BY <2>0, <2>2
    <3>2. PerfectTrue(q, v)
      BY <3>1 DEF PerfectTrue
    <3> QED BY <3>2 DEF v
  <2>3. CASE r.accepted = r.proposed /\ q.perfect = c.perfect + 1
    <3>1. c.perfect <= m /\ \A i \in (m - c.perfect + 1)..m : s[i].accepted = s[i].proposed
      BY <1>3 DEF PerfectTrue
    <3>2. q.perfect <= Len(v)
      BY <1>4, <2>0, <2>3, <3>1
    <3>3. ASSUME NEW i \in (Len(v) - q.perfect + 1)..Len(v) PROVE v[i].accepted = v[i].proposed
      <4>1. \A x, y \in Nat : x <= y => \A j \in ((y + 1) - (x + 1) + 1)..(y + 1) :
              j = y + 1 \/ (j \in (y - x + 1)..y /\ j \in 1..y)
        OBVIOUS
      <4>2. /\ c.perfect \in Nat /\ m \in Nat /\ c.perfect <= m
            /\ i \in ((m + 1) - (c.perfect + 1) + 1)..(m + 1)
        BY <1>4, <2>0, <2>3, <3>1, <3>3
      <4>3. i = m + 1 \/ (i \in (m - c.perfect + 1)..m /\ i \in 1..m)
        <5> HIDE DEF m
        <5> QED BY <4>1, <4>2
      <4> QED BY <2>1, <2>3, <3>1, <4>3
    <3>4. PerfectTrue(q, v)
      BY <3>2, <3>3 DEF PerfectTrue
    <3> QED BY <3>4 DEF v
  <2> QED BY <1>5, <2>2, <2>3
<1>13. CopyFair(r, s, all)
  <2>1. ASSUME r.proposed > NarrowCopy
        PROVE  Len(s) >= 2 /\ \A i \in {Len(s) - 1, Len(s)} : s[i].accepted = s[i].proposed
    <3>1. NarrowCopy \in Nat /\ Len(s) \in Nat
      BY PolicyNumbers, LenProperties
    <3>2. c.perfect >= 2
      <4>1. CASE ~(c.perfect >= 2)
        <5>1. CopyCap(c, setting.copy) = NarrowCopy
          BY <4>1 DEF CopyCap
        <5>2. r.proposed <= NarrowCopy
          BY <5>1, <3>1
        <5> QED BY <1>2, <2>1, <3>1, <5>2
      <4> QED BY <4>1
    <3>3. /\ c.perfect <= Len(s)
          /\ \A i \in (Len(s) - c.perfect + 1)..Len(s) : s[i].accepted = s[i].proposed
      BY <1>3 DEF PerfectTrue
    <3>4. /\ Len(s) - 1 \in (Len(s) - c.perfect + 1)..Len(s)
          /\ Len(s) \in (Len(s) - c.perfect + 1)..Len(s) /\ Len(s) >= 2
      BY <1>4, <3>1, <3>2, <3>3
    <3> QED BY <3>3, <3>4
  <2> QED BY <1>10, <2>1 DEF CopyFair
<1>14. CopyTrue(q, Append(s, r), t)
  BY <1>5, <1>8, <1>9, <1>11, <1>12 DEF CopyTrue
<1> QED BY <1>5, <1>13, <1>14 DEF q, t

-----------------------------------------------------------------------------
(* All policies together.                                                  *)

LEMMA SourceFilter ==
  ASSUME NEW all \in Seq(RoundType), NEW r \in RoundType,
         NEW x \in {"learned", "history", "copy"}
  PROVE  /\ Only(all, RoundsOf(x)) \in Seq(RoundType)
         /\ Only(Append(all, r), RoundsOf(x)) =
              IF r.source = x THEN Append(Only(all, RoundsOf(x)), r)
              ELSE Only(all, RoundsOf(x))
<1>1. r \in RoundsOf(x) <=> r.source = x
  BY DEF RoundType, RoundsOf
<1>2. Only(all, RoundsOf(x)) \in Seq(RoundType)
  BY OnlyType
<1>3. Only(Append(all, r), RoundsOf(x)) =
        IF r \in RoundsOf(x) THEN Append(Only(all, RoundsOf(x)), r)
        ELSE Only(all, RoundsOf(x))
  BY OnlyAppend
<1> QED BY <1>1, <1>2, <1>3

LEMMA PolicyStarts == PolicyInit => PolicyInv
<1> SUFFICES ASSUME PolicyInit PROVE PolicyInv
  OBVIOUS
<1> USE DEF PolicyInit
<1>1. /\ setting \in Settings
      /\ setting \in [maximum : 2..4, adaptive : BOOLEAN, short : BOOLEAN, early : BOOLEAN,
                      demotion : BOOLEAN, mode : {"adaptive", "forced", "disabled"},
                      economic : BOOLEAN, copy : Nat]
  BY DraftPolicyAssumption
<1>2. /\ rounds = <<>> /\ <<>> \in Seq(RoundType) /\ Len(<<>>) = 0
      /\ Learned = <<>> /\ Histories = <<>> /\ Copies = <<>>
  BY OnlyEmpty, NoRounds DEF Learned, Histories, Copies
<1>3. /\ LastN(<<>>, 0) = <<>>
      /\ \A d : Watches(Fresh, <<>>, d)
      /\ Counts(Tally, <<>>)
  BY <1>2, NoneLast, NoneWatched
<1>4. depthPolicy \in DepthType /\ DepthTrue(depthPolicy, Learned)
  <2> DEFINE adaptive == setting.adaptive /\ setting.maximum \in {3, 4}
             four == adaptive /\ setting.short
  <2>1. /\ depthPolicy.depth = (IF four THEN 4 ELSE IF setting.maximum = 3 THEN 2 ELSE setting.maximum)
        /\ depthPolicy.probing = (setting.maximum = 3 /\ ~adaptive /\ setting.short)
        /\ depthPolicy.monitoring = four
        /\ depthPolicy.adaptive = (IF setting.maximum = 4 THEN four ELSE adaptive)
        /\ depthPolicy.fourDone = FALSE /\ depthPolicy.threeDone = FALSE
        /\ depthPolicy.probe = [rounds |-> 0, accepted |-> 0]
        /\ depthPolicy.watch = Fresh /\ depthPolicy.losing = 0
    BY DEF InitialDepth
  <2>2. /\ depthPolicy.depth \in 2..4 /\ depthPolicy.probing \in BOOLEAN
        /\ depthPolicy.monitoring \in BOOLEAN /\ depthPolicy.adaptive \in BOOLEAN
    <3>1. setting.maximum \in 2..4
      BY <1>1
    <3>2. depthPolicy.depth \in 2..4
      <4> HIDE DEF four
      <4> QED BY <2>1, <3>1
    <3>3. four \in BOOLEAN /\ adaptive \in BOOLEAN
      OBVIOUS
    <3>4. depthPolicy.adaptive \in BOOLEAN
      <4> HIDE DEF four, adaptive
      <4> QED BY <2>1, <3>3
    <3>5. depthPolicy.probing \in BOOLEAN /\ depthPolicy.monitoring \in BOOLEAN
      BY <2>1
    <3> QED BY <3>2, <3>4, <3>5
  <2>3. Fresh \in WatchType /\ Fresh.rounds = 0
    BY DEF Fresh, WatchType
  <2>4. depthPolicy \in DepthType
    <3> DEFINE d == depthPolicy.depth
               p == depthPolicy.probing
               m == depthPolicy.monitoring
               a == depthPolicy.adaptive
               b == [rounds |-> 0, accepted |-> 0]
    <3>1. depthPolicy = [depth |-> d, probing |-> p, monitoring |-> m, adaptive |-> a,
                         fourDone |-> FALSE, threeDone |-> FALSE,
                         probe |-> b, watch |-> Fresh, losing |-> 0]
      BY DEF InitialDepth
    <3>2. b \in [rounds : Nat, accepted : Nat]
      OBVIOUS
    <3>3. d \in 2..4 /\ p \in BOOLEAN /\ m \in BOOLEAN /\ a \in BOOLEAN
      BY <2>2
    <3> HIDE DEF d, p, m, a, b
    <3> QED BY <2>3, <3>1, <3>2, <3>3 DEF DepthType, WatchType
  <2>5. ProbeTrue(depthPolicy, <<>>)
    <3> SUFFICES ASSUME depthPolicy.probing
        PROVE  /\ setting.maximum = 3 /\ depthPolicy.depth = 2
               /\ depthPolicy.probe.rounds = 0 /\ depthPolicy.probe.accepted = 0
               /\ depthPolicy.probe.rounds < ProbeRounds
      BY <1>2, <2>1, NoRounds DEF ProbeTrue
    <3>1. setting.maximum = 3 /\ ~adaptive
      BY <2>1
    <3>2. depthPolicy.depth = 2
      BY <2>1, <3>1
    <3>3. depthPolicy.probe.rounds = 0 /\ depthPolicy.probe.accepted = 0
      BY <2>1
    <3> QED BY <3>1, <3>2, <3>3, PolicyNumbers
  <2>6. FourTrue(depthPolicy, <<>>)
    BY <1>3, <2>1, <2>3, PolicyNumbers DEF FourTrue
  <2>7. ThreeTrue(depthPolicy, <<>>)
    <3>1. depthPolicy.monitoring => depthPolicy.depth # 3
      BY <2>1
    <3> QED BY <3>1 DEF ThreeTrue
  <2> QED BY <1>2, <2>4, <2>5, <2>6, <2>7 DEF DepthTrue
<1>5. guard \in GuardType /\ GuardTrue(guard, Learned)
  <2>1. /\ guard.streak = 0 /\ guard.rounds = 0 /\ guard.total = 0 /\ guard.rows = 0
        /\ guard.sum = 0 /\ guard.cursor = 0
    OBVIOUS
  <2>2. Window \in Nat /\ Window > 0
    BY PolicyNumbers
  <2>3. guard \in GuardType
    <3> DEFINE ring == [i \in 0..(Window - 1) |-> 0]
    <3>1. ring \in [0..(Window - 1) -> Nat]
      OBVIOUS
    <3>2. guard = [streak |-> 0, rounds |-> 0, total |-> 0, rows |-> 0,
                   ring |-> ring, sum |-> 0, cursor |-> 0]
      OBVIOUS
    <3>3. 0 \in 0..Window /\ 0 \in 0..(Window - 1)
      BY <2>2
    <3> HIDE DEF ring
    <3> QED BY <3>1, <3>2, <3>3 DEF GuardType
  <2>4. 0..(0 - 1) = {} /\ (0 - 0 + 1)..0 = {}
    OBVIOUS
  <2>5. RingTrue(guard, <<>>)
    BY <1>2, <1>3, <2>1, <2>2, <2>4, NoRounds DEF RingTrue
  <2>6. StreakTrue(guard, <<>>)
    BY <1>2, <2>1, <2>4 DEF StreakTrue
  <2> QED BY <1>2, <2>3, <2>5, <2>6 DEF GuardTrue
<1>6. historyDraft \in HistoryType /\ HistoryTrue(historyDraft, Learned, Histories, rounds)
  <2>1. /\ historyDraft.active = (setting.mode = "forced") /\ historyDraft.rejected = FALSE
        /\ historyDraft.learned = Tally /\ historyDraft.history = Tally
    OBVIOUS
  <2>2. Tally \in Tallies /\ Tally.rounds = 0
    BY DEF Tally, Tallies
  <2>3. historyDraft \in HistoryType
    <3> DEFINE a == setting.mode = "forced"
    <3>1. a \in BOOLEAN
      OBVIOUS
    <3>2. historyDraft = [active |-> a, rejected |-> FALSE, learned |-> Tally, history |-> Tally]
      OBVIOUS
    <3> HIDE DEF a
    <3> QED BY <2>2, <3>1, <3>2 DEF HistoryType
  <2>4. setting.mode = "adaptive" => ~historyDraft.active
    BY <2>1
  <2>5. ~(\E i \in 1..Len(rounds) : rounds[i].source = "history")
    BY <1>2
  <2> QED BY <1>2, <1>3, <2>1, <2>2, <2>3, <2>4, <2>5, PolicyNumbers DEF HistoryTrue
<1>7. copyPolicy \in CopyType /\ CopyTrue(copyPolicy, Copies, rounds)
  <2> DEFINE half == Scale \div 2
  <2>1. half \in 0..Scale
    BY ScaleFacts
  <2>2. copyPolicy = [seen |-> 0, perfect |-> 0, average |-> half, until |-> 0,
                      backoff |-> CopyBackoff]
    OBVIOUS
  <2> HIDE DEF half
  <2>3. CopyBackoff \in Nat
    BY PolicyNumbers
  <2>4. copyPolicy \in CopyType
    BY <2>1, <2>2, <2>3 DEF CopyType
  <2>5. PerfectTrue(copyPolicy, <<>>)
    <3>1. copyPolicy.perfect = 0 /\ (0 - 0 + 1)..0 = {}
      BY <2>2
    <3> QED BY <1>2, <3>1 DEF PerfectTrue
  <2>6. LastLost(copyPolicy, <<>>) /\ TwoLost(copyPolicy, <<>>) /\ ThreeLost(copyPolicy, <<>>)
    <3>1. ~(Len(<<>>) >= 1) /\ ~(Len(<<>>) >= 2) /\ 3..Len(<<>>) = {}
      BY <1>2
    <3> QED BY <3>1 DEF LastLost, TwoLost, ThreeLost
  <2>7. copyPolicy.backoff >= CopyBackoff
    BY <2>2, <2>3
  <2> QED BY <1>2, <2>4, <2>5, <2>6, <2>7 DEF CopyTrue
<1> QED BY <1>1, <1>2, <1>4, <1>5, <1>6, <1>7 DEF PolicyInv, PolicyTyped

\* The state after a step, whose settings stay: what the steps establish.
LEMMA PolicyAfter ==
  ASSUME setting' = setting, setting \in Settings, rounds' \in Seq(RoundType),
         profitable' \in BOOLEAN,
         depthPolicy' \in DepthType, DepthTrue(depthPolicy', Learned'),
         guard' \in GuardType, GuardTrue(guard', Learned'),
         historyDraft' \in HistoryType,
         HistoryTrue(historyDraft', Learned', Histories', rounds'),
         copyPolicy' \in CopyType, CopyTrue(copyPolicy', Copies', rounds')
  PROVE  PolicyInv'
<1>1. PolicyTyped'
  BY DEF PolicyTyped
<1>2. DepthTrue(depthPolicy, Learned)'
  BY DEF DepthTrue, ProbeTrue, FourTrue, ThreeTrue
<1>3. GuardTrue(guard, Learned)'
  BY DEF GuardTrue
<1>4. HistoryTrue(historyDraft, Learned, Histories, rounds)'
  BY DEF HistoryTrue
<1>5. CopyTrue(copyPolicy, Copies, rounds)'
  BY DEF CopyTrue
<1> QED BY <1>1, <1>2, <1>3, <1>4, <1>5 DEF PolicyInv

LEMMA PolicyStep ==
  ASSUME PolicyInv, PolicyNext
  PROVE  PolicyInv' /\ AllEarned
<1>1. /\ setting \in Settings /\ rounds \in Seq(RoundType) /\ profitable \in BOOLEAN
      /\ depthPolicy \in DepthType /\ DepthTrue(depthPolicy, Learned)
      /\ guard \in GuardType /\ GuardTrue(guard, Learned)
      /\ historyDraft \in HistoryType
      /\ HistoryTrue(historyDraft, Learned, Histories, rounds)
      /\ copyPolicy \in CopyType /\ CopyTrue(copyPolicy, Copies, rounds)
  BY DEF PolicyInv, PolicyTyped
<1>2. depthPolicy.depth \in Nat
  BY <1>1 DEF DepthType
<1>3. /\ Learned \in Seq(RoundType) /\ Histories \in Seq(RoundType) /\ Copies \in Seq(RoundType)
  BY <1>1, OnlyType DEF Learned, Histories, Copies
<1>4. AcceptCounts \subseteq Nat /\ HistorySizes \subseteq Nat /\ CopySizes \subseteq Nat
  BY DraftPolicyAssumption
\* A round of one source is appended to the rounds of that source.
<1>5. ASSUME NEW r \in RoundType, rounds' = Append(rounds, r)
      PROVE  /\ rounds' \in Seq(RoundType) /\ rounds' # rounds
             /\ rounds'[Len(rounds')] = r
             /\ Learned' = IF r.source = "learned" THEN Append(Learned, r) ELSE Learned
             /\ Histories' = IF r.source = "history" THEN Append(Histories, r) ELSE Histories
             /\ Copies' = IF r.source = "copy" THEN Append(Copies, r) ELSE Copies
  <2>1. /\ Append(rounds, r) \in Seq(RoundType) /\ Len(Append(rounds, r)) = Len(rounds) + 1
        /\ Len(rounds) \in Nat
        /\ Append(rounds, r)[Len(Append(rounds, r))] = r
    BY <1>1, LastRound
  <2>2. rounds' # rounds
    <3>1. Len(rounds') # Len(rounds)
      BY <1>5, <2>1
    <3> QED BY <3>1
  <2>3. Learned' = Only(rounds', RoundsOf("learned"))
    BY DEF Learned
  <2>4. Histories' = Only(rounds', RoundsOf("history"))
    BY DEF Histories
  <2>5. Copies' = Only(rounds', RoundsOf("copy"))
    BY DEF Copies
  <2>6. Learned' = IF r.source = "learned" THEN Append(Learned, r) ELSE Learned
    BY <1>1, <1>5, <2>3, SourceFilter DEF Learned
  <2>7. Histories' = IF r.source = "history" THEN Append(Histories, r) ELSE Histories
    BY <1>1, <1>5, <2>4, SourceFilter DEF Histories
  <2>8. Copies' = IF r.source = "copy" THEN Append(Copies, r) ELSE Copies
    BY <1>1, <1>5, <2>5, SourceFilter DEF Copies
  <2> QED BY <1>5, <2>1, <2>2, <2>6, <2>7, <2>8
<1>6. ASSUME NEW accepted \in AcceptCounts, LearnedRound(accepted)
      PROVE  PolicyInv' /\ AllEarned
  <2> DEFINE r == [source |-> "learned", depth |-> depthPolicy.depth,
                   proposed |-> depthPolicy.depth, accepted |-> accepted]
  <2>1. /\ r \in RoundType /\ r.source = "learned" /\ r.depth = depthPolicy.depth
        /\ r.proposed = depthPolicy.depth /\ r.accepted = accepted
    BY <1>2, <1>4 DEF RoundType
  <2>2. /\ rounds' = Append(rounds, r)
        /\ depthPolicy' = ObserveDepth(depthPolicy, r.proposed, r.accepted)
        /\ guard' = ObserveGuard(guard, r.accepted)
        /\ historyDraft' = ObserveLearned(historyDraft, r.proposed, r.accepted)
        /\ profitable' = ~ShouldFallback(guard')
        /\ setting' = setting /\ copyPolicy' = copyPolicy
    BY <1>6 DEF LearnedRound, Remember
  <2> HIDE DEF r
  <2>3. /\ rounds' \in Seq(RoundType) /\ rounds'[Len(rounds')] = r
        /\ Learned' = Append(Learned, r) /\ Histories' = Histories /\ Copies' = Copies
    BY <1>5, <2>1, <2>2
  <2>4. /\ depthPolicy' \in DepthType /\ DepthTrue(depthPolicy', Learned')
        /\ DepthFair(depthPolicy, depthPolicy', Learned')
    BY <1>1, <1>3, <2>1, <2>2, <2>3, DepthStep
  <2>5. guard' \in GuardType /\ GuardTrue(guard', Learned')
    BY <1>1, <1>3, <2>1, <2>2, <2>3, GuardStep
  <2>6. /\ historyDraft' \in HistoryType
        /\ HistoryTrue(historyDraft', Learned', Histories', rounds')
        /\ HistoryFair(historyDraft, historyDraft', Learned', Histories', rounds)
    BY <1>1, <1>3, <2>1, <2>2, <2>3, LearnedHistory
  <2>7. CopyTrue(copyPolicy', Copies', rounds') /\ copyPolicy' \in CopyType
    <3>1. r.source # "copy"
      BY <2>1
    <3> QED BY <1>1, <1>3, <2>1, <2>2, <2>3, <3>1, OtherCopy
  <2>8. Learned' \in Seq(RoundType)
    BY <1>3, <2>1, <2>3, AppendProperties
  <2>9. ShouldFallback(guard') <=> Losing(Learned')
    BY <1>1, <2>5, <2>8, FallbackFair
  <2>10. profitable' \in BOOLEAN
    BY <2>2 DEF ShouldFallback
  <2>11. PolicyInv'
    BY <1>1, <2>2, <2>3, <2>4, <2>5, <2>6, <2>7, <2>10, PolicyAfter
  <2>12. DepthEarned
    BY <2>4 DEF DepthFair, DepthEarned
  <2>13. FallbackEarned
    BY <2>2, <2>9 DEF FallbackEarned
  <2>14. HistoryEarned
    BY <2>6 DEF HistoryFair, HistoryEarned
  <2>15. CopyEarned
    BY <2>1, <2>3 DEF CopyEarned
  <2> QED BY <2>11, <2>12, <2>13, <2>14, <2>15 DEF AllEarned
<1>7. ASSUME NEW proposed \in HistorySizes, NEW accepted \in AcceptCounts,
             HistoryRound(proposed, accepted)
      PROVE  PolicyInv' /\ AllEarned
  <2> DEFINE r == [source |-> "history", depth |-> depthPolicy.depth,
                   proposed |-> proposed, accepted |-> accepted]
  <2>1. /\ r \in RoundType /\ r.source = "history"
        /\ r.proposed = proposed /\ r.accepted = accepted
    BY <1>2, <1>4 DEF RoundType
  <2>2. /\ rounds' = Append(rounds, r) /\ historyDraft.active
        /\ historyDraft' = ObserveHistory(historyDraft, r.proposed, r.accepted)
        /\ setting' = setting /\ copyPolicy' = copyPolicy /\ depthPolicy' = depthPolicy
        /\ guard' = guard /\ profitable' = profitable
    BY <1>7 DEF HistoryRound, Remember
  <2> HIDE DEF r
  <2>3. /\ rounds' \in Seq(RoundType) /\ rounds'[Len(rounds')] = r
        /\ Learned' = Learned /\ Histories' = Append(Histories, r) /\ Copies' = Copies
    BY <1>5, <2>1, <2>2
  <2>6. /\ historyDraft' \in HistoryType
        /\ HistoryTrue(historyDraft', Learned', Histories', rounds')
        /\ HistoryFair(historyDraft, historyDraft', Learned', Histories', rounds)
    BY <1>1, <1>3, <2>1, <2>2, <2>3, HistoryHistory
  <2>7. CopyTrue(copyPolicy', Copies', rounds') /\ copyPolicy' \in CopyType
    <3>1. r.source # "copy"
      BY <2>1
    <3> QED BY <1>1, <1>3, <2>1, <2>2, <2>3, <3>1, OtherCopy
  <2>8. /\ depthPolicy' \in DepthType /\ DepthTrue(depthPolicy', Learned')
        /\ guard' \in GuardType /\ GuardTrue(guard', Learned') /\ profitable' \in BOOLEAN
    BY <1>1, <2>2, <2>3
  <2>9. PolicyInv'
    BY <1>1, <2>2, <2>3, <2>6, <2>7, <2>8, PolicyAfter
  <2>10. DepthEarned
    BY <1>2, <2>2 DEF DepthEarned
  <2>11. FallbackEarned
    BY <2>3 DEF FallbackEarned
  <2>12. HistoryEarned
    BY <2>6 DEF HistoryFair, HistoryEarned
  <2>13. CopyEarned
    BY <2>1, <2>3 DEF CopyEarned
  <2> QED BY <2>9, <2>10, <2>11, <2>12, <2>13 DEF AllEarned
<1>8. ASSUME NEW proposed \in CopySizes, NEW accepted \in AcceptCounts,
             CopyRound(proposed, accepted)
      PROVE  PolicyInv' /\ AllEarned
  <2> DEFINE r == [source |-> "copy", depth |-> depthPolicy.depth,
                   proposed |-> proposed, accepted |-> accepted]
  <2>1. /\ r \in RoundType /\ r.source = "copy"
        /\ r.proposed = proposed /\ r.accepted = accepted
    BY <1>2, <1>4 DEF RoundType
  <2>2. /\ rounds' = Append(rounds, r)
        /\ copyPolicy' = ObserveCopy(copyPolicy, r.proposed, r.accepted, Tokens(rounds))
        /\ Tokens(rounds) >= copyPolicy.until
        /\ r.proposed \in 2..CopyCap(copyPolicy, setting.copy) /\ r.accepted <= r.proposed
        /\ setting' = setting /\ historyDraft' = historyDraft /\ depthPolicy' = depthPolicy
        /\ guard' = guard /\ profitable' = profitable
    BY <1>8 DEF CopyRound, Remember
  <2> HIDE DEF r
  <2>3. /\ rounds' \in Seq(RoundType) /\ rounds'[Len(rounds')] = r
        /\ Learned' = Learned /\ Histories' = Histories /\ Copies' = Append(Copies, r)
    BY <1>5, <2>1, <2>2
  <2>4. /\ copyPolicy' \in CopyType /\ CopyTrue(copyPolicy', Copies', rounds')
        /\ CopyFair(r, Copies, rounds)
    BY <1>1, <1>3, <2>1, <2>2, <2>3, CopyCopy
  <2>6. /\ HistoryTrue(historyDraft', Learned', Histories', rounds')
        /\ HistoryFair(historyDraft, historyDraft', Learned', Histories', rounds)
    BY <1>1, <1>3, <2>1, <2>2, <2>3, CopyHistory
  <2>8. /\ depthPolicy' \in DepthType /\ DepthTrue(depthPolicy', Learned')
        /\ guard' \in GuardType /\ GuardTrue(guard', Learned') /\ profitable' \in BOOLEAN
        /\ historyDraft' \in HistoryType
    BY <1>1, <2>2, <2>3
  <2>9. PolicyInv'
    BY <1>1, <2>2, <2>3, <2>4, <2>6, <2>8, PolicyAfter
  <2>10. DepthEarned
    BY <1>2, <2>2 DEF DepthEarned
  <2>11. FallbackEarned
    BY <2>3 DEF FallbackEarned
  <2>12. HistoryEarned
    BY <2>6 DEF HistoryFair, HistoryEarned
  <2>13. CopyEarned
    BY <2>3, <2>4 DEF CopyFair, CopyEarned
  <2> QED BY <2>9, <2>10, <2>11, <2>12, <2>13 DEF AllEarned
<1> QED BY <1>6, <1>7, <1>8 DEF PolicyNext

\* Every decision of the policies follows from the rounds: the depth moves,
\* the head is given up, history drafts start and end, and copies get long
\* or pause only when the rounds those rules speak of earned it, although
\* the policies keep nothing but counters, a ring and an average.
THEOREM PoliciesJudgeByRounds == PolicySpec => PoliciesEarned
<1>1. PolicyInv /\ [PolicyNext]_policyVars => PolicyInv' /\ [AllEarned]_policyVars
  <2> SUFFICES ASSUME PolicyInv, [PolicyNext]_policyVars
               PROVE  PolicyInv' /\ [AllEarned]_policyVars
    OBVIOUS
  <2>1. CASE PolicyNext
    BY <2>1, PolicyStep
  <2>2. CASE UNCHANGED policyVars
    <3>1. /\ setting' = setting /\ depthPolicy' = depthPolicy /\ guard' = guard
          /\ historyDraft' = historyDraft /\ copyPolicy' = copyPolicy
          /\ profitable' = profitable /\ rounds' = rounds
      BY <2>2 DEF policyVars
    <3>2. Learned' = Learned /\ Histories' = Histories /\ Copies' = Copies
      BY <3>1 DEF Learned, Histories, Copies
    <3>3. PolicyInv'
      BY <3>1, <3>2, PolicyAfter DEF PolicyInv, PolicyTyped
    <3> QED BY <2>2, <3>3
  <2> QED BY <2>1, <2>2
<1> QED BY <1>1, PolicyStarts, PTL DEF PolicySpec, PoliciesEarned

=============================================================================
