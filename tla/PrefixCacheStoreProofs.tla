----------------------- MODULE PrefixCacheStoreProofs -----------------------
(***************************************************************************)
(* The SSD prefix store answers truthfully, loses nothing to a kill or a   *)
(* failing call, and implements the abstract list of prefixes, for any     *)
(* prefixes, sizes, limit and number of kills, if cache_key does not       *)
(* collide.  The first part is about filters of sequences: evict_to_limit  *)
(* and the abstract list both keep some entries in their order.            *)
(***************************************************************************)
EXTENDS PrefixCacheStore, Sums

\* Filtering twice.
LEMMA OnlyAgain ==
  ASSUME NEW T, NEW S, NEW U
  PROVE  \A s \in Seq(T) : Only(Only(s, S), U) = Only(s, S \cap U)
<1> DEFINE P == {s \in Seq(T) : Only(Only(s, S), U) = Only(s, S \cap U)}
<1>1. <<>> \in P
  BY EmptyFacts, OnlyEmpty
<1>2. ASSUME NEW s \in Seq(T), NEW x \in T, s \in P PROVE Append(s, x) \in P
  <2>0. Append(s, x) \in Seq(T) /\ Only(s, S) \in Seq(T)
    BY AppendProperties, OnlyType
  <2>1. /\ Only(Append(s, x), S) =
             IF x \in S THEN Append(Only(s, S), x) ELSE Only(s, S)
        /\ Only(Append(s, x), S \cap U) =
             IF x \in S \cap U THEN Append(Only(s, S \cap U), x)
             ELSE Only(s, S \cap U)
        /\ Only(Append(Only(s, S), x), U) =
             IF x \in U THEN Append(Only(Only(s, S), U), x)
             ELSE Only(Only(s, S), U)
    BY <2>0, OnlyAppend
  <2>2. Only(Only(s, S), U) = Only(s, S \cap U)
    BY <1>2
  <2> HIDE DEF P
  <2>3. CASE x \in S /\ x \in U
    BY <2>0, <2>1, <2>2, <2>3 DEF P
  <2>4. CASE x \in S /\ x \notin U
    BY <2>0, <2>1, <2>2, <2>4 DEF P
  <2>5. CASE x \notin S
    BY <2>0, <2>1, <2>2, <2>5 DEF P
  <2> QED BY <2>3, <2>4, <2>5
<1> HIDE DEF P
<1>3. Seq(T) \subseteq P
  BY <1>1, <1>2, SeqInduct
<1> QED BY <1>3 DEF P

\* Sets that agree on the elements keep the same ones.
LEMMA OnlySame ==
  ASSUME NEW T, NEW S, NEW U
  PROVE  \A s \in Seq(T) :
           Range(s) \cap S = Range(s) \cap U => Only(s, S) = Only(s, U)
<1> DEFINE P == {s \in Seq(T) :
                   Range(s) \cap S = Range(s) \cap U => Only(s, S) = Only(s, U)}
<1>1. <<>> \in P
  BY EmptyFacts, OnlyEmpty
<1>2. ASSUME NEW s \in Seq(T), NEW x \in T, s \in P PROVE Append(s, x) \in P
  <2>0. /\ Append(s, x) \in Seq(T)
        /\ Range(Append(s, x)) = Range(s) \cup {x}
    BY AppendProperties, RangeOfAppend
  <2>1. /\ Only(Append(s, x), S) =
             IF x \in S THEN Append(Only(s, S), x) ELSE Only(s, S)
        /\ Only(Append(s, x), U) =
             IF x \in U THEN Append(Only(s, U), x) ELSE Only(s, U)
    BY OnlyAppend
  <2>2. ASSUME Range(Append(s, x)) \cap S = Range(Append(s, x)) \cap U
        PROVE  Only(Append(s, x), S) = Only(Append(s, x), U)
    <3>1. x \in S <=> x \in U
      BY <2>0, <2>2
    <3>2. Range(s) \cap S = Range(s) \cap U
      BY <2>0, <2>2
    <3>3. Only(s, S) = Only(s, U)
      BY <1>2, <3>2
    <3> QED BY <2>1, <3>1, <3>3
  <2> QED BY <2>0, <2>2
<1> HIDE DEF P
<1>3. Seq(T) \subseteq P
  BY <1>1, <1>2, SeqInduct
<1> QED BY <1>3 DEF P

\* Nothing to leave out.
LEMMA OnlyAll ==
  ASSUME NEW T, NEW S
  PROVE  \A s \in Seq(T) : Range(s) \subseteq S => Only(s, S) = s
<1> DEFINE P == {s \in Seq(T) : Range(s) \subseteq S => Only(s, S) = s}
<1>1. <<>> \in P
  BY EmptyFacts, OnlyEmpty
<1>2. ASSUME NEW s \in Seq(T), NEW x \in T, s \in P PROVE Append(s, x) \in P
  <2>0. /\ Append(s, x) \in Seq(T)
        /\ Range(Append(s, x)) = Range(s) \cup {x}
    BY AppendProperties, RangeOfAppend
  <2>1. Only(Append(s, x), S) =
          IF x \in S THEN Append(Only(s, S), x) ELSE Only(s, S)
    BY OnlyAppend
  <2> QED BY <1>2, <2>0, <2>1
<1> HIDE DEF P
<1>3. Seq(T) \subseteq P
  BY <1>1, <1>2, SeqInduct
<1> QED BY <1>3 DEF P

\* Without the first of distinct elements is the rest.
LEMMA WithoutHead ==
  ASSUME NEW T
  PROVE  \A s \in Seq(T) : IsInjective(s) /\ s # <<>> => Without(s, Head(s)) = Tail(s)
<1> DEFINE P == {s \in Seq(T) :
                   IsInjective(s) /\ s # <<>> => Without(s, Head(s)) = Tail(s)}
<1>1. <<>> \in P
  BY EmptyFacts
<1>2. ASSUME NEW s \in Seq(T), NEW x \in T, s \in P PROVE Append(s, x) \in P
  <2> DEFINE t == Append(s, x)
             h == Head(t)
  <2>0. /\ t \in Seq(T)
        /\ Range(t) = Range(s) \cup {x}
        /\ IsInjective(t) <=> IsInjective(s) /\ x \notin Range(s)
        /\ h = IF s = <<>> THEN x ELSE Head(s)
        /\ Tail(t) = IF s = <<>> THEN <<>> ELSE Append(Tail(s), x)
    BY AppendProperties, RangeOfAppend, HeadTailAppend
  <2>1. \A S : Only(t, S) = IF x \in S THEN Append(Only(s, S), x) ELSE Only(s, S)
    BY OnlyAppend
  <2> SUFFICES ASSUME IsInjective(t) PROVE Without(t, h) = Tail(t)
    BY <2>0
  <2> HIDE DEF t, h
  <2>2. CASE s = <<>>
    <3>1. x \notin Range(t) \ {h}
      BY <2>0, <2>2
    <3>2. Only(s, Range(t) \ {h}) = <<>>
      BY <2>2, OnlyEmpty
    <3> QED BY <2>0, <2>1, <2>2, <3>1, <3>2 DEF Without
  <2>3. CASE s # <<>>
    <3>1. Without(s, Head(s)) = Tail(s)
      BY <1>2, <2>0, <2>3
    <3>2. h = Head(s) /\ h \in Range(s)
      <4>1. 1 \in DOMAIN s /\ Head(s) = s[1]
        BY <2>3, LenProperties, EmptySeq, SeqEqual
      <4> QED BY <2>0, <2>3, <4>1 DEF Range
    <3>3. x \in Range(t) \ {h}
      BY <2>0, <3>2
    <3>4. Only(s, Range(t) \ {h}) = Only(s, Range(s) \ {h})
      <4>1. Range(s) \cap (Range(t) \ {h}) = Range(s) \cap (Range(s) \ {h})
        BY <2>0
      <4> QED BY <4>1, OnlySame
    <3>5. Only(t, Range(t) \ {h}) = Append(Only(s, Range(s) \ {h}), x)
      BY <2>1, <3>3, <3>4
    <3> QED BY <2>0, <2>3, <3>1, <3>2, <3>5 DEF Without
  <2> QED BY <2>2, <2>3
<1> HIDE DEF P
<1>3. Seq(T) \subseteq P
  BY <1>1, <1>2, SeqInduct
<1> QED BY <1>3 DEF P

Mapped(F, s) == [i \in DOMAIN s |-> F[s[i]]]

Maps(F, T, V) == F \in [T -> V]

\* Renaming keeps the length.
IsMapped(m, s, V) == m \in Seq(V) /\ Len(m) = Len(s)

LEMMA MappedType ==
  ASSUME NEW T, NEW V, NEW F, Maps(F, T, V), NEW s \in Seq(T)
  PROVE  IsMapped(Mapped(F, s), s, V)
<1> DEFINE m == Mapped(F, s)
<1>0. Len(s) \in Nat /\ DOMAIN s = 1..Len(s) /\ \A i \in 1..Len(s) : s[i] \in T
  BY LenProperties, ElementOfSeq
<1>1. m = [i \in 1..Len(s) |-> F[s[i]]]
  BY <1>0 DEF Mapped
<1>2. \A i \in 1..Len(s) : m[i] \in V
  BY <1>0, <1>1 DEF Maps
<1> HIDE DEF m
<1>3. m \in Seq(V)
  BY <1>0, <1>1, <1>2, IsASeq
<1>4. DOMAIN m = 1..Len(s) /\ DOMAIN m = 1..Len(m) /\ Len(m) \in Nat
  BY <1>1, <1>3, LenProperties
<1>5. Len(m) = Len(s)
  BY <1>0, <1>4
<1> QED BY <1>3, <1>5 DEF m, IsMapped

LEMMA MappedRange ==
  ASSUME NEW T, NEW V, NEW F, Maps(F, T, V), NEW s \in Seq(T)
  PROVE  Range(Mapped(F, s)) = {F[x] : x \in Range(s)}
<1>0. DOMAIN Mapped(F, s) = DOMAIN s /\ \A i \in DOMAIN s : Mapped(F, s)[i] = F[s[i]]
  BY DEF Mapped
<1> QED BY <1>0 DEF Range

LEMMA MappedAppend ==
  ASSUME NEW T, NEW V, NEW F, Maps(F, T, V), NEW s \in Seq(T), NEW x \in T
  PROVE  Mapped(F, Append(s, x)) = Append(Mapped(F, s), F[x])
<1> DEFINE t == Append(s, x)
           m == Mapped(F, t)
           a == Append(Mapped(F, s), F[x])
<1>0. /\ t \in Seq(T) /\ Len(t) = Len(s) + 1 /\ Len(s) \in Nat
      /\ DOMAIN s = 1..Len(s) /\ DOMAIN t = 1..(Len(s) + 1)
      /\ \A i \in 1..Len(s) : t[i] = s[i]
      /\ t[Len(s) + 1] = x
  BY AppendProperties, LenProperties
<1>1. m \in Seq(V) /\ Len(m) = Len(s) + 1
  <2>1. IsMapped(Mapped(F, t), t, V)
    BY <1>0, MappedType
  <2> QED BY <1>0, <2>1 DEF IsMapped
<1>2. /\ a \in Seq(V) /\ Len(a) = Len(s) + 1
      /\ \A i \in 1..Len(s) : a[i] = Mapped(F, s)[i]
      /\ a[Len(s) + 1] = F[x]
  <2>1. Mapped(F, s) \in Seq(V) /\ Len(Mapped(F, s)) = Len(s) /\ F[x] \in V
    <3>1. IsMapped(Mapped(F, s), s, V)
      BY MappedType
    <3> QED BY <3>1 DEF Maps, IsMapped
  <2> QED BY <2>1, AppendProperties
<1>3. ASSUME NEW i \in 1..(Len(s) + 1) PROVE m[i] = a[i]
  <2>1. m[i] = F[t[i]]
    BY <1>0 DEF Mapped
  <2> HIDE DEF m, a, t
  <2>2. CASE i = Len(s) + 1
    BY <1>0, <1>2, <2>1, <2>2
  <2>3. CASE i # Len(s) + 1
    <3>1. i \in 1..Len(s)
      BY <1>0, <2>3
    <3>2. Mapped(F, s)[i] = F[s[i]]
      BY <1>0, <3>1 DEF Mapped
    <3> QED BY <1>0, <1>2, <2>1, <3>1, <3>2
  <2> QED BY <2>2, <2>3
<1> HIDE DEF m, a, t
<1>4. m = a
  BY <1>1, <1>2, <1>3, SeqEqual
<1> QED BY <1>4 DEF m, a, t

\* Filtering and renaming, with names that differ.
LEMMA MappedOnly ==
  ASSUME NEW T, NEW V, NEW F, Maps(F, T, V),
         \A x, y \in T : F[x] = F[y] => x = y,
         NEW S, NEW W, \A x \in T : x \in S <=> F[x] \in W
  PROVE  \A s \in Seq(T) : Mapped(F, Only(s, S)) = Only(Mapped(F, s), W)
<1> DEFINE P == {s \in Seq(T) : Mapped(F, Only(s, S)) = Only(Mapped(F, s), W)}
<1>0. Mapped(F, <<>>) = <<>>
  <2>1. Mapped(F, <<>>) \in Seq(V) /\ Len(Mapped(F, <<>>)) = 0
    <3>1. IsMapped(Mapped(F, <<>>), <<>>, V)
      BY EmptyFacts, MappedType
    <3> QED BY <3>1, EmptyFacts DEF IsMapped
  <2> QED BY <2>1, EmptySeq, SeqEqual
<1>1. <<>> \in P
  BY <1>0, EmptyFacts, OnlyEmpty
<1>2. ASSUME NEW s \in Seq(T), NEW x \in T, s \in P PROVE Append(s, x) \in P
  <2>0. /\ Append(s, x) \in Seq(T) /\ Only(s, S) \in Seq(T)
        /\ Mapped(F, s) \in Seq(V) /\ F[x] \in V
    <3>1. IsMapped(Mapped(F, s), s, V)
      BY MappedType
    <3> QED BY <3>1, AppendProperties, OnlyType DEF Maps, IsMapped
  <2>1. Mapped(F, Append(s, x)) = Append(Mapped(F, s), F[x])
    BY MappedAppend
  <2>2. Mapped(F, Append(Only(s, S), x)) = Append(Mapped(F, Only(s, S)), F[x])
    BY <2>0, MappedAppend
  <2>3. Only(Append(s, x), S) =
          IF x \in S THEN Append(Only(s, S), x) ELSE Only(s, S)
    BY OnlyAppend
  <2>4. Only(Append(Mapped(F, s), F[x]), W) =
          IF F[x] \in W THEN Append(Only(Mapped(F, s), W), F[x])
          ELSE Only(Mapped(F, s), W)
    <3> DEFINE m == Mapped(F, s)
               y == F[x]
    <3> HIDE DEF m, y
    <3>1. m \in Seq(V) /\ y \in V
      BY <2>0 DEF m, y
    <3>2. Only(Append(m, y), W) = IF y \in W THEN Append(Only(m, W), y) ELSE Only(m, W)
      BY <3>1, OnlyAppend
    <3> QED BY <3>2 DEF m, y
  <2>5. x \in S <=> F[x] \in W
    OBVIOUS
  <2>6. Mapped(F, Only(s, S)) = Only(Mapped(F, s), W)
    BY <1>2
  <2> HIDE DEF P
  <2>7. CASE x \in S
    BY <2>0, <2>1, <2>2, <2>3, <2>4, <2>5, <2>6, <2>7 DEF P
  <2>8. CASE x \notin S
    BY <2>0, <2>1, <2>3, <2>4, <2>5, <2>6, <2>8 DEF P
  <2> QED BY <2>7, <2>8
<1> HIDE DEF P
<1>3. Seq(T) \subseteq P
  BY <1>1, <1>2, SeqInduct
<1> QED BY <1>3 DEF P

-----------------------------------------------------------------------------
(* The store.                                                              *)

\* cache_key does not collide on the prefixes that are saved: FNV-1a of 64
\* bits together with the length.
KeysDistinct == \A p, q \in Prompts : Key(p) = Key(q) => p = q

\* The prefix of a key, and the bytes of its pair.
PromptOf == [k \in Keys |-> CHOOSE p \in Prompts : Key(p) = k]
Weight == [k \in Keys |-> PairBytes(PromptOf[k])]

\* Each file belongs to the prefix of its name.
Owned ==
  \A k \in Keys : /\ tokenFile[k] \in {Absent, PromptOf[k]}
                  /\ stateFile[k] \in {Absent, PromptOf[k]}

Listed == Range(order) = {k \in Keys : tokenFile[k] # Absent}

\* What the operation in progress is.
Busy ==
  /\ pc \notin {"idle", "clearing"} => saving \in Prompts /\ answer = Saving
  /\ pc = "clearing" => answer = Clearing

\* Without a kill or a failing removal the only temporaries are those of the
\* save in progress.
TempState == IF pc \in {"writing tokens", "renaming state"}
             THEN {Temp("state", saving)} ELSE {}
TempTokens == IF pc \in {"renaming state", "renaming tokens"}
              THEN {Temp("tokens", saving)} ELSE {}
Temporaries == crashes = 0 /\ ~stuck => temps \subseteq TempState \cup TempTokens

\* The pair being saved, while it is completed and before the limit is applied.
Renamed ==
  /\ pc = "renaming tokens" => stateFile[Key(saving)] = saving
  /\ pc = "scanning" =>
       /\ Key(saving) \in Complete
       /\ order # <<>> /\ order[Len(order)] = Key(saving)

\* The entries that evict_to_limit has yet to visit are complete pairs, and
\* total is the sum of their bytes.
Counted ==
  /\ pc \in {"evicting", "removing state"} => IsInjective(victims)
  /\ pc = "evicting" =>
       Range(victims) \subseteq Complete /\ total = SumOver(Weight, Range(victims))
  /\ pc = "removing state" =>
       /\ victims # <<>>
       /\ Range(victims) \ {Victim} \subseteq Complete
       /\ total = SumOver(Weight, Range(victims) \ {Victim})

\* With removals that work they are all the complete pairs, and the last one
\* is the pair being saved, until it has been removed itself for its size.
Exact ==
  /\ pc = "evicting" => victims = EntryKeys
  /\ pc = "removing state" => Victim \notin Complete /\ Tail(victims) = EntryKeys

SavedLast(s) ==
  IF s = <<>> THEN PairBytes(saving) > MaxBytes
  ELSE s[Len(s)] = Key(saving)

Survives ==
  /\ pc = "evicting" => SavedLast(victims)
  /\ pc = "removing state" => SavedLast(Tail(victims))

PInv ==
  /\ TypeOK /\ LoadedStateBelongs /\ SaveAnswersTheLimit
  /\ Owned /\ Listed /\ Busy /\ Temporaries /\ Renamed /\ Counted
  /\ ~stuck => Exact /\ Survives

LEMMA PromptFacts ==
  ASSUME KeysDistinct
  PROVE  /\ \A k \in Keys : PromptOf[k] \in Prompts /\ Key(PromptOf[k]) = k
                            /\ PromptOf[k] # Absent /\ Weight[k] = PairBytes(PromptOf[k])
                            /\ Weight[k] \in Nat
         /\ \A p \in Prompts : Key(p) \in Keys /\ PromptOf[Key(p)] = p /\ p # Absent
         /\ Maps(PromptOf, Keys, Prompts)
<1>1. ASSUME NEW k \in Keys PROVE PromptOf[k] \in Prompts /\ Key(PromptOf[k]) = k
  <2>1. \E p \in Prompts : Key(p) = k
    BY DEF Keys
  <2> QED BY <2>1 DEF PromptOf
<1>2. ASSUME NEW p \in Prompts PROVE Key(p) \in Keys /\ PromptOf[Key(p)] = p /\ p # Absent
  <2>1. Key(p) \in Keys
    BY DEF Keys
  <2>2. PromptOf[Key(p)] = p
    BY <1>1, <2>1 DEF KeysDistinct
  <2> QED BY <2>1, <2>2, PrefixCacheAssumption DEF Absent
<1>3. ASSUME NEW k \in Keys
      PROVE  /\ PromptOf[k] # Absent /\ Weight[k] = PairBytes(PromptOf[k])
             /\ Weight[k] \in Nat
  <2>1. Weight[k] = PairBytes(PromptOf[k])
    BY DEF Weight
  <2>2. TokenBytes(PromptOf[k]) \in Nat /\ StateBytes(PromptOf[k]) \in Nat
    BY <1>1, PrefixCacheAssumption
  <2> QED BY <1>1, <1>2, <2>1, <2>2 DEF PairBytes
<1>4. Maps(PromptOf, Keys, Prompts)
  BY <1>1 DEF Maps, PromptOf
<1> QED BY <1>1, <1>2, <1>3, <1>4

LEMMA RangeFinite ==
  ASSUME NEW T, NEW s \in Seq(T) PROVE IsFiniteSet(Range(s))
<1> DEFINE P == {u \in Seq(T) : IsFiniteSet(Range(u))}
<1>1. <<>> \in P
  BY EmptyFacts, FS_EmptySet
<1>2. ASSUME NEW u \in Seq(T), NEW x \in T, u \in P PROVE Append(u, x) \in P
  <2>1. Range(Append(u, x)) = Range(u) \cup {x} /\ Append(u, x) \in Seq(T)
    BY RangeOfAppend, AppendProperties
  <2> QED BY <1>2, <2>1, FS_AddElement
<1> HIDE DEF P
<1>3. Seq(T) \subseteq P
  BY <1>1, <1>2, SeqInduct
<1> QED BY <1>3 DEF P

\* What the complete pairs are.
LEMMA CompleteFacts ==
  ASSUME KeysDistinct, TypeOK, Owned, Listed
  PROVE  /\ Complete \subseteq Keys /\ IsFiniteSet(Complete)
         /\ Complete \subseteq Range(order)
         /\ \A k \in Complete : tokenFile[k] = PromptOf[k] /\ stateFile[k] = PromptOf[k]
         /\ \A k \in Complete : EntryBytes(k) = Weight[k]
<1>1. Complete \subseteq Keys /\ Complete \subseteq Range(order)
  BY DEF Complete, Listed
<1>2. IsFiniteSet(Range(order))
  BY RangeFinite DEF TypeOK
<1>3. IsFiniteSet(Complete)
  BY <1>1, <1>2, FS_Subset
<1>4. \A k \in Complete : tokenFile[k] = PromptOf[k] /\ stateFile[k] = PromptOf[k]
  BY DEF Complete, Owned
<1>5. \A k \in Complete : EntryBytes(k) = Weight[k]
  <2>1. \A k \in Keys : Weight[k] = PairBytes(PromptOf[k])
    BY PromptFacts
  <2> QED BY <1>1, <1>4, <2>1 DEF EntryBytes, PairBytes
<1> QED BY <1>1, <1>3, <1>4, <1>5

\* The sum that evict_to_limit computes.
LEMMA CompleteSum ==
  ASSUME KeysDistinct, TypeOK, Owned, Listed
  PROVE  MapThenSumSet(EntryBytes, Complete) = SumOver(Weight, Complete)
<1> DEFINE C == Complete
           G(f) == f = [s \in SUBSET C |->
                          IF s = {} THEN 0 ELSE EntryBytes(Picked(s)) + f[s \ {Picked(s)}]]
<1>1. MapThenSumSet(EntryBytes, C) = (CHOOSE f : G(f))[C]
  BY DEF MapThenSumSet, MapThenFoldSet, Picked
<1>2. SumOver(Weight, C) = (CHOOSE f : SetSums(f, Weight, C))[C]
  BY SumOverUnfold
<1>3. \A s \in SUBSET C : s # {} => EntryBytes(Picked(s)) = Weight[Picked(s)]
  BY PickedIn, CompleteFacts
<1>4. ASSUME NEW f PROVE G(f) <=> SetSums(f, Weight, C)
  <2>1. [s \in SUBSET C |->
           IF s = {} THEN 0 ELSE EntryBytes(Picked(s)) + f[s \ {Picked(s)}]]
        = [s \in SUBSET C |->
             IF s = {} THEN 0 ELSE Weight[Picked(s)] + f[s \ {Picked(s)}]]
    BY <1>3
  <2> QED BY <2>1 DEF SetSums
<1> HIDE DEF G
<1>5. (CHOOSE f : G(f)) = (CHOOSE f : SetSums(f, Weight, C))
  BY <1>4
<1> QED BY <1>1, <1>2, <1>5

\* An element leaves a list, or becomes its last.
LEMMA WithoutFacts ==
  ASSUME NEW T, NEW s \in Seq(T), IsInjective(s), NEW k
  PROVE  /\ Without(s, k) \in Seq(T) /\ IsInjective(Without(s, k))
         /\ Range(Without(s, k)) = Range(s) \ {k}
<1>1. /\ Only(s, Range(s) \ {k}) \in Seq(T)
      /\ Range(Only(s, Range(s) \ {k})) = Range(s) \cap (Range(s) \ {k})
      /\ IsInjective(Only(s, Range(s) \ {k}))
  BY OnlyType
<1> QED BY <1>1 DEF Without

LEMMA TouchFacts ==
  ASSUME NEW T, NEW s \in Seq(T), IsInjective(s), NEW k \in T
  PROVE  LET t == Append(Without(s, k), k)
         IN  /\ t \in Seq(T) /\ IsInjective(t)
             /\ Range(t) = Range(s) \cup {k}
             /\ t # <<>> /\ t[Len(t)] = k
<1> DEFINE w == Without(s, k)
           t == Append(w, k)
<1>1. w \in Seq(T) /\ IsInjective(w) /\ Range(w) = Range(s) \ {k}
  BY WithoutFacts
<1> HIDE DEF w
<1>2. /\ t \in Seq(T) /\ Len(t) = Len(w) + 1 /\ t[Len(w) + 1] = k /\ Len(w) \in Nat
  BY <1>1, AppendProperties, LenProperties
<1>3. /\ Range(t) = Range(w) \cup {k}
      /\ IsInjective(t) <=> IsInjective(w) /\ k \notin Range(w)
  BY <1>1, RangeOfAppend
<1> HIDE DEF t
<1>4. t # <<>> /\ t[Len(t)] = k
  BY <1>2, EmptySeq
<1>5. Range(t) = Range(s) \cup {k}
  BY <1>1, <1>3
<1>6. IsInjective(t)
  BY <1>1, <1>3
<1> QED BY <1>2, <1>4, <1>5, <1>6 DEF t, w

LEMMA Bounds == MaxBytes \in Nat /\ MaxSaves \in Nat /\ MaxCrashes \in Nat
  BY PrefixCacheAssumption

LEMMA TempFields ==
  ASSUME NEW part, NEW p
  PROVE  Temp(part, p).part = part /\ Temp(part, p).tokens = p
  BY DEF Temp

LEMMA InitPInv == ASSUME KeysDistinct, Init PROVE PInv
<1>1. TypeOK
  <2>1. <<>> \in Seq(Keys) /\ IsInjective(<<>>)
    BY EmptyFacts
  <2>2. /\ tokenFile \in [Keys -> Prompts \cup {Absent}]
        /\ stateFile \in [Keys -> Prompts \cup {Absent}]
    BY DEF Init
  <2>3. counter \in 0..MaxSaves /\ crashes \in 0..MaxCrashes /\ total \in Nat
    BY Bounds DEF Init
  <2> QED BY <2>1, <2>2, <2>3 DEF Init, TypeOK, Pcs
<1>2. LoadedStateBelongs /\ SaveAnswersTheLimit
  BY DEF Init, LoadedStateBelongs, SaveAnswersTheLimit, Nothing
<1>3. Owned /\ Listed
  <2>1. Range(<<>>) = {}
    BY EmptyFacts
  <2> QED BY <2>1 DEF Init, Owned, Listed
<1>4. Busy /\ Temporaries /\ Renamed /\ Counted
  BY DEF Init, Busy, Temporaries, Renamed, Counted
<1>5. Exact /\ Survives
  BY DEF Init, Exact, Survives
<1> QED BY <1>1, <1>2, <1>3, <1>4, <1>5 DEF PInv

\* Steps that leave the pairs alone.
LEMMA SamePairs ==
  ASSUME Owned, Listed, UNCHANGED <<tokenFile, stateFile, order>>
  PROVE  /\ Owned' /\ Listed' /\ Complete' = Complete /\ EntryKeys' = EntryKeys
<1>1. Owned' /\ Listed'
  BY DEF Owned, Listed
<1>2. Complete' = Complete
  BY DEF Complete
<1> QED BY <1>1, <1>2 DEF EntryKeys

LEMMA LoadStep ==
  ASSUME KeysDistinct, PInv, NEW q \in Queries, LoadLongest(q)
  PROVE  PInv'
<1>1. /\ pc = "idle" /\ pc' = "idle"
      /\ UNCHANGED <<tokenFile, stateFile, temps, counter, saving, victims, total,
                     crashes, stuck>>
  BY DEF LoadLongest, eviction
<1>2. Complete' = Complete
  BY <1>1 DEF Complete
<1>3. /\ order' \in Seq(Keys) /\ IsInjective(order') /\ Range(order') = Range(order)
      /\ LoadedStateBelongs' /\ answer'.op = "load"
  <2>1. CASE UNCHANGED order /\ answer' = [op |-> "load", query |-> q,
                                           tokens |-> Absent, state |-> Absent]
    BY <2>1 DEF PInv, TypeOK, LoadedStateBelongs
  <2>2. ASSUME NEW k \in Longest(Matches(q)), Touch(k),
               answer' = [op |-> "load", query |-> q, tokens |-> tokenFile[k],
                          state |-> stateFile[k]]
        PROVE  /\ order' \in Seq(Keys) /\ IsInjective(order')
               /\ Range(order') = Range(order)
               /\ LoadedStateBelongs' /\ answer'.op = "load"
    <3>1. /\ k \in Complete /\ Len(tokenFile[k]) <= Len(q)
          /\ SubSeq(q, 1, Len(tokenFile[k])) = tokenFile[k]
      BY DEF Longest, Matches
    <3>2. /\ k \in Keys /\ k \in Range(order) /\ stateFile[k] = tokenFile[k]
      BY <3>1, CompleteFacts DEF PInv
    <3>3. order' = Append(Without(order, k), k)
      BY <2>2 DEF Touch
    <3>4. /\ order' \in Seq(Keys) /\ IsInjective(order')
          /\ Range(order') = Range(order) \cup {k}
      BY <3>2, <3>3, TouchFacts DEF PInv, TypeOK
    <3>5. /\ answer'.op = "load" /\ answer'.tokens = tokenFile[k]
          /\ answer'.state = stateFile[k] /\ answer'.query = q
      BY <2>2
    <3>6. LoadedStateBelongs'
      BY <3>1, <3>2, <3>5 DEF LoadedStateBelongs
    <3> QED BY <3>2, <3>4, <3>5, <3>6
  <2> QED BY <2>1, <2>2 DEF LoadLongest
<1>4. TypeOK'
  BY <1>1, <1>3 DEF PInv, TypeOK
<1>5. SaveAnswersTheLimit'
  BY <1>3 DEF SaveAnswersTheLimit
<1>6. Owned' /\ Listed'
  BY <1>1, <1>3 DEF PInv, Owned, Listed
<1>7. Busy' /\ Renamed' /\ Counted' /\ Exact' /\ Survives'
  BY <1>1 DEF Busy, Renamed, Counted, Exact, Survives
<1>8. Temporaries'
  BY <1>1 DEF PInv, Temporaries, TempState, TempTokens, Temp
<1> QED BY <1>3, <1>4, <1>5, <1>6, <1>7, <1>8 DEF PInv

LEMMA BeginSaveStep ==
  ASSUME KeysDistinct, PInv, NEW p \in Prompts, BeginSave(p)
  PROVE  PInv'
<1>1. /\ pc = "idle" /\ pc' = "writing state" /\ saving' = p /\ answer' = Saving
      /\ counter < MaxSaves /\ counter' = counter + 1
      /\ UNCHANGED <<tokenFile, stateFile, order, temps, victims, total, crashes, stuck>>
  BY DEF BeginSave, files, eviction
<1>2. TypeOK'
  <2>1. counter' \in 0..MaxSaves
    <3>1. counter \in 0..MaxSaves /\ counter < MaxSaves /\ counter' = counter + 1
      BY <1>1 DEF PInv, TypeOK
    <3>2. MaxSaves \in Nat
      BY Bounds
    <3> QED BY <3>1, <3>2, SMT
  <2> QED BY <1>1, <2>1 DEF PInv, TypeOK, Pcs
<1>3. LoadedStateBelongs' /\ SaveAnswersTheLimit'
  BY <1>1 DEF LoadedStateBelongs, SaveAnswersTheLimit, Saving
<1>4. Owned' /\ Listed'
  BY <1>1, SamePairs DEF PInv
<1>5. Busy' /\ Renamed' /\ Counted' /\ Exact' /\ Survives'
  BY <1>1 DEF Busy, Renamed, Counted, Exact, Survives
<1>6. Temporaries'
  BY <1>1 DEF PInv, Temporaries, TempState, TempTokens
<1> QED BY <1>2, <1>3, <1>4, <1>5, <1>6 DEF PInv

LEMMA WriteStep ==
  ASSUME KeysDistinct, PInv, WriteState \/ WriteTokens
  PROVE  PInv'
<1>1. /\ \/ pc = "writing state" /\ pc' = "writing tokens"
            /\ temps' = Create(Temp("state", saving))
         \/ pc = "writing tokens" /\ pc' = "renaming state"
            /\ temps' = Create(Temp("tokens", saving))
      /\ UNCHANGED <<tokenFile, stateFile, order, counter, saving, victims, total,
                     answer, crashes, stuck>>
  BY DEF WriteState, WriteTokens, eviction
<1>2. saving \in Prompts /\ answer = Saving
  BY <1>1 DEF PInv, Busy
<1>3. TypeOK'
  <2>1. \A t \in temps' : t.part \in {"tokens", "state"} /\ t.tokens \in Prompts
    <3> SUFFICES ASSUME NEW t \in temps'
                 PROVE  t.part \in {"tokens", "state"} /\ t.tokens \in Prompts
      OBVIOUS
    <3>1. t \in temps \/ t = Temp("state", saving) \/ t = Temp("tokens", saving)
      BY <1>1 DEF Create
    <3> QED BY <1>2, <3>1, TempFields DEF PInv, TypeOK
  <2> QED BY <1>1, <2>1 DEF PInv, TypeOK, Pcs
<1>4. LoadedStateBelongs' /\ SaveAnswersTheLimit'
  BY <1>1, <1>2 DEF LoadedStateBelongs, SaveAnswersTheLimit, Saving
<1>5. Owned' /\ Listed'
  BY <1>1, SamePairs DEF PInv
<1>6. Busy' /\ Renamed' /\ Counted' /\ Exact' /\ Survives'
  BY <1>1, <1>2 DEF Busy, Renamed, Counted, Exact, Survives
<1>7. Temporaries'
  <2>1. CASE pc = "writing state"
    BY <1>1, <2>1 DEF PInv, Temporaries, TempState, TempTokens, Temp, Create
  <2>2. CASE pc = "writing tokens"
    BY <1>1, <2>2 DEF PInv, Temporaries, TempState, TempTokens, Temp, Create
  <2> QED BY <1>1, <2>1, <2>2
<1> QED BY <1>3, <1>4, <1>5, <1>6, <1>7 DEF PInv

LEMMA RenameStateStep ==
  ASSUME KeysDistinct, PInv, RenameState
  PROVE  PInv'
<1> DEFINE k == Key(saving)
<1>1. /\ pc = "renaming state" /\ pc' = "renaming tokens"
      /\ stateFile' = [stateFile EXCEPT ![k] = saving]
      /\ temps' = temps \ {Temp("state", saving)}
      /\ UNCHANGED <<tokenFile, order, counter, saving, victims, total, answer,
                     crashes, stuck>>
  BY DEF RenameState, eviction
<1>2. saving \in Prompts /\ answer = Saving
  BY <1>1 DEF PInv, Busy
<1>3. k \in Keys /\ PromptOf[k] = saving
  BY <1>2, PromptFacts
<1> HIDE DEF k
<1>4. /\ stateFile' \in [Keys -> Prompts \cup {Absent}] /\ stateFile'[k] = saving
      /\ \A j \in Keys \ {k} : stateFile'[j] = stateFile[j]
  BY <1>1, <1>2, <1>3 DEF PInv, TypeOK
<1>5. TypeOK'
  BY <1>1, <1>4 DEF PInv, TypeOK, Pcs
<1>6. LoadedStateBelongs' /\ SaveAnswersTheLimit'
  BY <1>1, <1>2 DEF LoadedStateBelongs, SaveAnswersTheLimit, Saving
<1>7. Owned' /\ Listed'
  BY <1>1, <1>3, <1>4 DEF PInv, Owned, Listed
<1>8. Busy' /\ Counted' /\ Exact' /\ Survives'
  BY <1>1, <1>2 DEF Busy, Counted, Exact, Survives
<1>9. Renamed'
  BY <1>1, <1>4 DEF Renamed, k
<1>10. Temporaries'
  BY <1>1 DEF PInv, Temporaries, TempState, TempTokens, Temp
<1> QED BY <1>5, <1>6, <1>7, <1>8, <1>9, <1>10 DEF PInv

LEMMA RenameTokensStep ==
  ASSUME KeysDistinct, PInv, RenameTokens
  PROVE  PInv'
<1> DEFINE k == Key(saving)
<1>1. /\ pc = "renaming tokens" /\ pc' = "scanning"
      /\ tokenFile' = [tokenFile EXCEPT ![k] = saving]
      /\ order' = Append(Without(order, k), k)
      /\ temps' = temps \ {Temp("tokens", saving)}
      /\ UNCHANGED <<stateFile, counter, saving, victims, total, answer,
                     crashes, stuck>>
  BY DEF RenameTokens, eviction
<1>2. saving \in Prompts /\ answer = Saving /\ stateFile[k] = saving
  BY <1>1 DEF PInv, Busy, Renamed
<1>3. k \in Keys /\ PromptOf[k] = saving /\ saving # Absent
  BY <1>2, PromptFacts
<1> HIDE DEF k
<1>4. /\ order' \in Seq(Keys) /\ IsInjective(order')
      /\ Range(order') = Range(order) \cup {k}
      /\ order' # <<>> /\ order'[Len(order')] = k
  <2>1. order \in Seq(Keys) /\ IsInjective(order)
    BY DEF PInv, TypeOK
  <2>2. order' = Append(Without(order, k), k) /\ k \in Keys
    BY <1>1, <1>3
  <2>3. /\ Append(Without(order, k), k) \in Seq(Keys)
        /\ IsInjective(Append(Without(order, k), k))
        /\ Range(Append(Without(order, k), k)) = Range(order) \cup {k}
        /\ Append(Without(order, k), k) # <<>>
        /\ Append(Without(order, k), k)[Len(Append(Without(order, k), k))] = k
    BY <2>1, <2>2, TouchFacts
  <2> QED BY <2>2, <2>3
<1>5. /\ tokenFile' \in [Keys -> Prompts \cup {Absent}] /\ tokenFile'[k] = saving
      /\ \A j \in Keys \ {k} : tokenFile'[j] = tokenFile[j]
  BY <1>1, <1>2, <1>3 DEF PInv, TypeOK
<1>6. TypeOK'
  BY <1>1, <1>4, <1>5 DEF PInv, TypeOK, Pcs
<1>7. LoadedStateBelongs' /\ SaveAnswersTheLimit'
  BY <1>1, <1>2 DEF LoadedStateBelongs, SaveAnswersTheLimit, Saving
<1>8. Owned'
  BY <1>1, <1>3, <1>5 DEF PInv, Owned
<1>9. Listed'
  BY <1>3, <1>4, <1>5 DEF PInv, Listed
<1>10. Busy' /\ Counted' /\ Exact' /\ Survives'
  BY <1>1, <1>2 DEF Busy, Counted, Exact, Survives
<1>11. Renamed'
  <2>1. k \in Complete'
    BY <1>1, <1>2, <1>3, <1>5 DEF Complete
  <2>2. Key(saving)' = k
    BY <1>1 DEF k
  <2> QED BY <1>1, <1>4, <2>1, <2>2 DEF Renamed
<1>12. Temporaries'
  BY <1>1 DEF PInv, Temporaries, TempState, TempTokens, Temp
<1> QED BY <1>6, <1>7, <1>8, <1>9, <1>10, <1>11, <1>12 DEF PInv

LEMMA SaveThrowsStep ==
  ASSUME KeysDistinct, PInv, SaveThrows
  PROVE  PInv'
<1>1. /\ pc \in {"writing state", "writing tokens", "renaming state",
                 "renaming tokens"}
      /\ pc' = "idle" /\ answer' = Nothing
      /\ \/ /\ temps' = temps \ {Temp("state", saving), Temp("tokens", saving)}
            /\ stuck' = stuck
         \/ temps' = temps /\ stuck' = TRUE
      /\ UNCHANGED <<tokenFile, stateFile, order, counter, saving, victims, total,
                     crashes>>
  BY DEF SaveThrows, eviction
<1>2. TypeOK'
  BY <1>1 DEF PInv, TypeOK, Pcs
<1>3. LoadedStateBelongs' /\ SaveAnswersTheLimit'
  BY <1>1 DEF LoadedStateBelongs, SaveAnswersTheLimit, Nothing
<1>4. Owned' /\ Listed'
  BY <1>1, SamePairs DEF PInv
<1>5. Busy' /\ Renamed' /\ Counted' /\ Exact' /\ Survives'
  BY <1>1 DEF Busy, Renamed, Counted, Exact, Survives
<1>6. Temporaries'
  <2>1. CASE stuck'
    BY <2>1 DEF Temporaries
  <2>2. CASE ~stuck'
    <3>1. ~stuck /\ temps' = temps \ {Temp("state", saving), Temp("tokens", saving)}
      <4>1. ~(stuck' = TRUE)
        BY <2>2
      <4>2. /\ temps' = temps \ {Temp("state", saving), Temp("tokens", saving)}
            /\ stuck' = stuck
        BY <1>1, <4>1
      <4> QED BY <2>2, <4>2
    <3> QED BY <1>1, <3>1 DEF PInv, Temporaries, TempState, TempTokens
  <2> QED BY <2>1, <2>2
<1> QED BY <1>2, <1>3, <1>4, <1>5, <1>6 DEF PInv

LEMMA ClearStep ==
  ASSUME KeysDistinct, PInv, BeginClear \/ EndClear
  PROVE  PInv'
<1>1. /\ \/ pc = "idle" /\ pc' = "clearing" /\ answer' = Clearing /\ stuck' = stuck
         \/ pc = "clearing" /\ pc' = "idle" /\ answer' = Nothing
            /\ stuck' = (stuck \/ ~NoFiles)
      /\ UNCHANGED <<tokenFile, stateFile, order, temps, counter, saving, victims,
                     total, crashes>>
  BY DEF BeginClear, EndClear, eviction, files
<1>2. TypeOK'
  BY <1>1 DEF PInv, TypeOK, Pcs
<1>3. LoadedStateBelongs' /\ SaveAnswersTheLimit'
  BY <1>1 DEF LoadedStateBelongs, SaveAnswersTheLimit, Nothing, Clearing
<1>4. Owned' /\ Listed'
  BY <1>1, SamePairs DEF PInv
<1>5. Busy' /\ Renamed' /\ Counted' /\ Exact' /\ Survives'
  BY <1>1 DEF Busy, Renamed, Counted, Exact, Survives
<1>6. Temporaries'
  <2>1. stuck => stuck'
    BY <1>1
  <2> QED BY <1>1, <2>1 DEF PInv, Temporaries, TempState, TempTokens
<1> QED BY <1>2, <1>3, <1>4, <1>5, <1>6 DEF PInv

LEMMA ClearFileStep ==
  ASSUME KeysDistinct, PInv, ClearFile
  PROVE  PInv'
<1>1. /\ pc = "clearing"
      /\ UNCHANGED <<counter, pc, saving, victims, total, answer, crashes, stuck>>
  BY DEF ClearFile, eviction
<1>2. /\ tokenFile' \in [Keys -> Prompts \cup {Absent}]
      /\ stateFile' \in [Keys -> Prompts \cup {Absent}]
      /\ order' \in Seq(Keys) /\ IsInjective(order')
      /\ temps' \subseteq temps
      /\ Owned' /\ Listed'
  <2>1. ASSUME NEW k \in Keys, tokenFile' = [tokenFile EXCEPT ![k] = Absent],
               order' = Without(order, k), UNCHANGED <<stateFile, temps>>
        PROVE  <1>2
    <3>1. /\ order' \in Seq(Keys) /\ IsInjective(order')
          /\ Range(order') = Range(order) \ {k}
      BY <2>1, WithoutFacts DEF PInv, TypeOK
    <3>2. /\ tokenFile' \in [Keys -> Prompts \cup {Absent}] /\ tokenFile'[k] = Absent
          /\ \A j \in Keys \ {k} : tokenFile'[j] = tokenFile[j]
      BY <2>1 DEF PInv, TypeOK
    <3>3. Owned'
      BY <2>1, <3>2 DEF PInv, Owned
    <3>4. Listed'
      BY <3>1, <3>2 DEF PInv, Listed
    <3>5. stateFile' \in [Keys -> Prompts \cup {Absent}] /\ temps' = temps
      BY <2>1 DEF PInv, TypeOK
    <3> QED BY <3>1, <3>2, <3>3, <3>4, <3>5
  <2>2. ASSUME NEW k \in Keys, stateFile' = [stateFile EXCEPT ![k] = Absent],
               UNCHANGED <<tokenFile, order, temps>>
        PROVE  <1>2
    <3>1. /\ stateFile' \in [Keys -> Prompts \cup {Absent}] /\ stateFile'[k] = Absent
          /\ \A j \in Keys \ {k} : stateFile'[j] = stateFile[j]
      BY <2>2 DEF PInv, TypeOK
    <3>2. Owned' /\ Listed'
      BY <2>2, <3>1 DEF PInv, Owned, Listed
    <3>3. /\ tokenFile' \in [Keys -> Prompts \cup {Absent}]
          /\ order' \in Seq(Keys) /\ IsInjective(order') /\ temps' = temps
      BY <2>2 DEF PInv, TypeOK
    <3> QED BY <3>1, <3>2, <3>3
  <2>3. ASSUME NEW t \in temps, temps' = temps \ {t},
               UNCHANGED <<tokenFile, stateFile, order>>
        PROVE  <1>2
    <3>1. Owned' /\ Listed'
      BY <2>3, SamePairs DEF PInv
    <3> QED BY <2>3, <3>1 DEF PInv, TypeOK
  <2> QED BY <2>1, <2>2, <2>3 DEF ClearFile
<1>3. TypeOK'
  BY <1>1, <1>2 DEF PInv, TypeOK
<1>4. answer = Clearing
  BY <1>1 DEF PInv, Busy
<1>5. LoadedStateBelongs' /\ SaveAnswersTheLimit'
  BY <1>1, <1>4 DEF LoadedStateBelongs, SaveAnswersTheLimit, Clearing
<1>6. Busy' /\ Renamed' /\ Counted' /\ Exact' /\ Survives'
  BY <1>1, <1>4 DEF Busy, Renamed, Counted, Exact, Survives
<1>7. Temporaries'
  BY <1>1, <1>2 DEF PInv, Temporaries, TempState, TempTokens
<1> QED BY <1>2, <1>3, <1>5, <1>6, <1>7 DEF PInv

LEMMA CrashStep ==
  ASSUME KeysDistinct, PInv, Crash
  PROVE  PInv'
<1>1. /\ crashes < MaxCrashes /\ crashes' = crashes + 1 /\ counter' = 0
      /\ pc' = "idle" /\ answer' = Nothing /\ victims' = <<>> /\ total' = 0
      /\ UNCHANGED <<tokenFile, stateFile, order, temps, saving, stuck>>
  BY DEF Crash, files
<1>2. crashes' \in 0..MaxCrashes /\ crashes' # 0 /\ counter' \in 0..MaxSaves /\ total' \in Nat
  <2>1. crashes \in 0..MaxCrashes
    BY DEF PInv, TypeOK
  <2> QED BY <1>1, <2>1, Bounds
<1>3. victims' \in Seq(Keys)
  BY <1>1, EmptyFacts
<1>4. TypeOK'
  BY <1>1, <1>2, <1>3 DEF PInv, TypeOK, Pcs
<1>5. LoadedStateBelongs' /\ SaveAnswersTheLimit'
  BY <1>1 DEF LoadedStateBelongs, SaveAnswersTheLimit, Nothing
<1>6. Owned' /\ Listed'
  BY <1>1, SamePairs DEF PInv
<1>7. Busy' /\ Renamed' /\ Counted' /\ Exact' /\ Survives'
  BY <1>1 DEF Busy, Renamed, Counted, Exact, Survives
<1>8. Temporaries'
  BY <1>2 DEF Temporaries
<1> QED BY <1>4, <1>5, <1>6, <1>7, <1>8 DEF PInv

\* A last element that is kept is the last one kept.
LEMMA OnlyLast ==
  ASSUME NEW T, NEW s \in Seq(T), NEW S, s # <<>>, s[Len(s)] \in S
  PROVE  Only(s, S) # <<>> /\ Only(s, S)[Len(Only(s, S))] = s[Len(s)]
<1>1. PICK t \in Seq(T), x \in T : s = Append(t, x)
  BY SequenceEmptyOrAppend
<1>2. s[Len(s)] = x
  BY <1>1, AppendProperties, LenProperties
<1> DEFINE o == Only(t, S)
<1>3. o \in Seq(T)
  BY OnlyType
<1>4. Only(s, S) = Append(o, x)
  BY <1>1, <1>2, OnlyAppend
<1> HIDE DEF o
<1>5. /\ Append(o, x) # <<>> /\ Len(Append(o, x)) = Len(o) + 1 /\ Append(o, x)[Len(o) + 1] = x
  BY <1>3, AppendProperties, LenProperties
<1> QED BY <1>2, <1>4, <1>5

LEMMA EntryKeysFacts ==
  ASSUME KeysDistinct, TypeOK, Owned, Listed
  PROVE  /\ EntryKeys \in Seq(Keys) /\ IsInjective(EntryKeys)
         /\ Range(EntryKeys) = Complete
<1>1. order \in Seq(Keys) /\ IsInjective(order)
  BY DEF TypeOK
<1>2. /\ Only(order, Complete) \in Seq(Keys) /\ IsInjective(Only(order, Complete))
      /\ Range(Only(order, Complete)) = Range(order) \cap Complete
  BY <1>1, OnlyType
<1>3. Complete \subseteq Range(order)
  BY CompleteFacts
<1> QED BY <1>2, <1>3 DEF EntryKeys

\* The sum over any listed keys is a number.
LEMMA WeightSum ==
  ASSUME KeysDistinct, NEW s \in Seq(Keys)
  PROVE  /\ IsFiniteSet(Range(s)) /\ Range(s) \subseteq Keys
         /\ \A x \in Range(s) : Weight[x] \in Nat
         /\ SumOver(Weight, Range(s)) \in Nat
<1>1. IsFiniteSet(Range(s))
  BY RangeFinite
<1>2. Range(s) \subseteq Keys
  BY ElementOfSeq, LenProperties DEF Range
<1>3. \A x \in Range(s) : Weight[x] \in Nat
  BY <1>2, PromptFacts
<1> QED BY <1>1, <1>2, <1>3, SumOverNat

LEMMA ScanStep ==
  ASSUME KeysDistinct, PInv, Scan
  PROVE  PInv'
<1>1. /\ pc = "scanning" /\ pc' = "evicting" /\ victims' = EntryKeys
      /\ total' = MapThenSumSet(EntryBytes, Complete)
      /\ UNCHANGED <<tokenFile, stateFile, order, temps, counter, saving, answer,
                     crashes, stuck>>
  BY DEF Scan, files
<1>2. /\ saving \in Prompts /\ answer = Saving /\ Key(saving) \in Complete
      /\ order # <<>> /\ order[Len(order)] = Key(saving)
  BY <1>1 DEF PInv, Busy, Renamed
<1>3. Owned' /\ Listed' /\ Complete' = Complete /\ EntryKeys' = EntryKeys
  BY <1>1, SamePairs DEF PInv
<1>4. /\ EntryKeys \in Seq(Keys) /\ IsInjective(EntryKeys) /\ Range(EntryKeys) = Complete
  BY EntryKeysFacts DEF PInv
<1>5. total' = SumOver(Weight, Complete) /\ total' \in Nat
  <2>1. total' = SumOver(Weight, Complete)
    BY <1>1, CompleteSum DEF PInv
  <2>2. SumOver(Weight, Range(EntryKeys)) \in Nat
    BY <1>4, WeightSum
  <2> QED BY <1>4, <2>1, <2>2
<1>6. EntryKeys # <<>> /\ EntryKeys[Len(EntryKeys)] = Key(saving)
  <2>1. order \in Seq(Keys)
    BY DEF PInv, TypeOK
  <2> QED BY <1>2, <2>1, OnlyLast DEF EntryKeys
<1>7. TypeOK'
  BY <1>1, <1>4, <1>5 DEF PInv, TypeOK, Pcs
<1>8. LoadedStateBelongs' /\ SaveAnswersTheLimit'
  BY <1>1, <1>2 DEF LoadedStateBelongs, SaveAnswersTheLimit, Saving
<1>9. Busy' /\ Renamed'
  BY <1>1, <1>2 DEF Busy, Renamed
<1>10. Counted'
  BY <1>1, <1>3, <1>4, <1>5 DEF Counted
<1>11. Exact' /\ Survives'
  BY <1>1, <1>3, <1>6 DEF Exact, Survives, SavedLast
<1>12. Temporaries'
  BY <1>1 DEF PInv, Temporaries, TempState, TempTokens, Temp
<1> QED BY <1>3, <1>7, <1>8, <1>9, <1>10, <1>11, <1>12 DEF PInv

\* The tokens or the state of one key are removed.
LEMMA TokensGo ==
  ASSUME KeysDistinct, TypeOK, Owned, Listed, NEW k \in Keys,
         tokenFile' = [tokenFile EXCEPT ![k] = Absent],
         order' = Without(order, k), UNCHANGED stateFile
  PROVE  /\ tokenFile' \in [Keys -> Prompts \cup {Absent}]
         /\ stateFile' \in [Keys -> Prompts \cup {Absent}]
         /\ order' \in Seq(Keys) /\ IsInjective(order')
         /\ Owned' /\ Listed' /\ Complete' = Complete \ {k}
<1>1. /\ order' \in Seq(Keys) /\ IsInjective(order')
      /\ Range(order') = Range(order) \ {k}
  <2>1. order \in Seq(Keys) /\ IsInjective(order)
    BY DEF TypeOK
  <2> QED BY <2>1, WithoutFacts
<1>2. /\ tokenFile' \in [Keys -> Prompts \cup {Absent}] /\ tokenFile'[k] = Absent
      /\ \A j \in Keys \ {k} : tokenFile'[j] = tokenFile[j]
      /\ stateFile' \in [Keys -> Prompts \cup {Absent}]
  BY DEF TypeOK
<1>3. Owned'
  BY <1>2 DEF Owned
<1>4. Listed'
  BY <1>1, <1>2 DEF Listed
<1>5. Complete' = Complete \ {k}
  BY <1>2 DEF Complete
<1> QED BY <1>1, <1>2, <1>3, <1>4, <1>5

LEMMA StateGoes ==
  ASSUME KeysDistinct, TypeOK, Owned, Listed, NEW k \in Keys,
         stateFile' = [stateFile EXCEPT ![k] = Absent],
         UNCHANGED <<tokenFile, order>>
  PROVE  /\ tokenFile' \in [Keys -> Prompts \cup {Absent}]
         /\ stateFile' \in [Keys -> Prompts \cup {Absent}]
         /\ Owned' /\ Listed' /\ Complete' = Complete \ {k}
<1>1. /\ stateFile' \in [Keys -> Prompts \cup {Absent}] /\ stateFile'[k] = Absent
      /\ \A j \in Keys \ {k} : stateFile'[j] = stateFile[j]
      /\ tokenFile' \in [Keys -> Prompts \cup {Absent}]
  BY DEF TypeOK
<1>2. Owned' /\ Listed'
  BY <1>1 DEF Owned, Listed
<1>3. Complete' = Complete \ {k}
  BY <1>1 DEF Complete
<1> QED BY <1>1, <1>2, <1>3

\* Removing the oldest of the complete pairs leaves the others in their order.
LEMMA OldestGoes ==
  ASSUME NEW T, NEW s \in Seq(T), IsInjective(s), NEW C, C \subseteq Range(s),
         Only(s, C) # <<>>
  PROVE  LET v == Head(Only(s, C))
         IN  Tail(Only(s, C)) = Only(Without(s, v), C \ {v})
<1> DEFINE e == Only(s, C)
           v == Head(e)
<1>1. e \in Seq(T) /\ IsInjective(e) /\ Range(e) = C
  <2>1. /\ Only(s, C) \in Seq(T) /\ IsInjective(Only(s, C))
        /\ Range(Only(s, C)) = Range(s) \cap C
    BY OnlyType
  <2> QED BY <2>1
<1>2. Tail(e) = Without(e, v)
  BY <1>1, WithoutHead
<1>3. Without(e, v) = Only(e, C \ {v})
  BY <1>1 DEF Without
<1>4. Only(e, C \ {v}) = Only(s, C \cap (C \ {v}))
  BY OnlyAgain
<1>5. Only(Without(s, v), C \ {v}) = Only(s, (Range(s) \ {v}) \cap (C \ {v}))
  BY OnlyAgain DEF Without
<1> HIDE DEF v
<1>6. C \cap (C \ {v}) = (Range(s) \ {v}) \cap (C \ {v})
  OBVIOUS
<1>7. Tail(e) = Only(Without(s, v), C \ {v})
  BY <1>2, <1>3, <1>4, <1>5, <1>6
<1> QED BY <1>7 DEF v

\* The rest of a list of distinct elements.
LEMMA RestFacts ==
  ASSUME NEW T, NEW s \in Seq(T), IsInjective(s), s # <<>>
  PROVE  /\ Head(s) \in Range(s) /\ Without(s, Head(s)) = Tail(s)
         /\ Tail(s) \in Seq(T) /\ IsInjective(Tail(s))
         /\ Range(Tail(s)) = Range(s) \ {Head(s)}
         /\ IF Tail(s) = <<>> THEN s[Len(s)] = Head(s) /\ Range(s) = {Head(s)}
            ELSE Tail(s)[Len(Tail(s))] = s[Len(s)]
<1>1. Len(s) \in Nat /\ DOMAIN s = 1..Len(s) /\ Len(s) # 0
  BY LenProperties, EmptySeq, SeqEqual
<1>2. Head(s) = s[1] /\ 1 \in DOMAIN s
  BY <1>1
<1>3. Head(s) \in Range(s)
  BY <1>2 DEF Range
<1>4. Without(s, Head(s)) = Tail(s)
  BY WithoutHead
<1>5. /\ Tail(s) \in Seq(T) /\ IsInjective(Tail(s))
      /\ Range(Tail(s)) = Range(s) \ {Head(s)}
  <2> DEFINE h == Head(s)
  <2> HIDE DEF h
  <2>1. /\ Without(s, h) \in Seq(T) /\ IsInjective(Without(s, h))
        /\ Range(Without(s, h)) = Range(s) \ {h}
    BY WithoutFacts
  <2> QED BY <1>4, <2>1 DEF h
<1>6. /\ Len(Tail(s)) = Len(s) - 1
      /\ \A i \in 1..(Len(s) - 1) : Tail(s)[i] = s[i + 1]
  BY HeadTailProperties
<1>7. CASE Tail(s) = <<>>
  <2>1. Len(s) = 1
    <3> DEFINE n == Len(s)
    <3>1. Len(Tail(s)) = 0
      BY <1>7, EmptySeq
    <3>2. n \in Nat /\ n - 1 = 0
      BY <1>1, <1>6, <3>1
    <3> HIDE DEF n
    <3>3. n = 1
      BY <3>2
    <3> QED BY <3>3 DEF n
  <2>2. Range(Tail(s)) = {}
    BY <1>7, EmptyFacts
  <2>3. s[Len(s)] = Head(s)
    BY <1>2, <2>1
  <2> QED BY <1>3, <1>4, <1>5, <1>7, <2>2, <2>3
<1>8. CASE Tail(s) # <<>>
  <2>1. Len(Tail(s)) # 0
    BY <1>5, <1>8, EmptySeq, SeqEqual
  <2>2. Len(s) - 1 \in 1..(Len(s) - 1) /\ (Len(s) - 1) + 1 = Len(s)
    BY <1>1, <1>6, <2>1
  <2>3. Tail(s)[Len(Tail(s))] = s[Len(s)]
    BY <1>6, <2>2
  <2> QED BY <1>3, <1>4, <1>5, <1>8, <2>3
<1> QED BY <1>7, <1>8

LEMMA EvictTokensStep ==
  ASSUME KeysDistinct, PInv, EvictTokens
  PROVE  PInv'
<1> DEFINE v == Victim
           R == Range(victims)
<1>1. /\ pc = "evicting" /\ pc' = "removing state"
      /\ victims # <<>> /\ total > MaxBytes /\ total' = total - EntryBytes(v)
      /\ UNCHANGED <<stateFile, temps, counter, saving, victims, answer, crashes>>
  BY DEF EvictTokens
<1>2. saving \in Prompts /\ answer = Saving
  BY <1>1 DEF PInv, Busy
<1>3. /\ victims \in Seq(Keys) /\ IsInjective(victims) /\ R \subseteq Complete
      /\ total = SumOver(Weight, R)
  BY <1>1 DEF PInv, TypeOK, Counted
<1>4. /\ v \in R /\ Tail(victims) \in Seq(Keys) /\ Range(Tail(victims)) = R \ {v}
      /\ IF Tail(victims) = <<>> THEN victims[Len(victims)] = v /\ R = {v}
         ELSE Tail(victims)[Len(Tail(victims))] = victims[Len(victims)]
  BY <1>1, <1>3, RestFacts DEF Victim
<1>5. /\ IsFiniteSet(R) /\ \A x \in R : Weight[x] \in Nat
      /\ SumOver(Weight, R \ {v}) \in Nat
  BY <1>3, <1>4, WeightSum
<1>6. v \in Keys /\ v \in Complete /\ EntryBytes(v) = Weight[v]
  BY <1>3, <1>4, CompleteFacts DEF PInv
<1>7. total = Weight[v] + SumOver(Weight, R \ {v}) /\ Weight[v] \in Nat
  <2>1. SumOver(Weight, R) = Weight[v] + SumOver(Weight, R \ {v})
    BY <1>4, <1>5, SumOverRemove
  <2> QED BY <1>3, <1>4, <1>5, <2>1
<1>8. Victim' = v /\ Range(victims)' = R
  BY <1>1 DEF Victim
<1> HIDE DEF v, R
<1>9. total' = SumOver(Weight, R \ {v}) /\ total' \in Nat
  <2> DEFINE a == Weight[v]
             b == SumOver(Weight, R \ {v})
  <2>1. a \in Nat /\ b \in Nat /\ total = a + b /\ total' = total - a
    BY <1>1, <1>5, <1>6, <1>7
  <2> HIDE DEF a, b
  <2>2. total' = b /\ total' \in Nat
    BY <2>1
  <2> QED BY <2>2 DEF b
<1>10. /\ \/ /\ tokenFile' = [tokenFile EXCEPT ![v] = Absent]
             /\ order' = Without(order, v) /\ stuck' = stuck
          \/ /\ UNCHANGED <<tokenFile, order>> /\ stuck' = TRUE
  BY DEF EvictTokens, v
<1>11. /\ tokenFile' \in [Keys -> Prompts \cup {Absent}]
       /\ order' \in Seq(Keys) /\ IsInjective(order') /\ Owned' /\ Listed'
       /\ Complete \ {v} \subseteq Complete'
       /\ stuck' \in BOOLEAN /\ (stuck => stuck')
  <2>1. CASE /\ tokenFile' = [tokenFile EXCEPT ![v] = Absent]
             /\ order' = Without(order, v) /\ stuck' = stuck
    <3>1. /\ tokenFile' \in [Keys -> Prompts \cup {Absent}]
          /\ order' \in Seq(Keys) /\ IsInjective(order') /\ Owned' /\ Listed'
          /\ Complete' = Complete \ {v}
      BY <1>1, <1>6, <2>1, TokensGo DEF PInv
    <3>2. stuck' \in BOOLEAN /\ (stuck => stuck')
      BY <2>1 DEF PInv, TypeOK
    <3> QED BY <3>1, <3>2
  <2>2. CASE UNCHANGED <<tokenFile, order>> /\ stuck' = TRUE
    <3>1. Owned' /\ Listed' /\ Complete' = Complete
      BY <1>1, <2>2, SamePairs DEF PInv
    <3> QED BY <2>2, <3>1 DEF PInv, TypeOK
  <2> QED BY <1>10, <2>1, <2>2
<1>12. TypeOK'
  BY <1>1, <1>9, <1>11 DEF PInv, TypeOK, Pcs
<1>13. LoadedStateBelongs' /\ SaveAnswersTheLimit'
  BY <1>1, <1>2 DEF LoadedStateBelongs, SaveAnswersTheLimit, Saving
<1>14. Busy' /\ Renamed'
  BY <1>1, <1>2 DEF Busy, Renamed
<1>15. Counted'
  <2>1. R \ {v} \subseteq Complete'
    BY <1>3, <1>11 DEF R
  <2> QED BY <1>1, <1>3, <1>8, <1>9, <2>1 DEF Counted
<1>16. Temporaries'
  BY <1>1, <1>11 DEF PInv, Temporaries, TempState, TempTokens, Temp
<1>17. ASSUME ~stuck' PROVE Exact' /\ Survives'
  <2>1. /\ tokenFile' = [tokenFile EXCEPT ![v] = Absent]
        /\ order' = Without(order, v) /\ stuck' = stuck
    <3>1. ~(stuck' = TRUE)
      BY <1>17
    <3> QED BY <1>10, <3>1
  <2>2. Exact /\ Survives
    BY <1>17, <2>1 DEF PInv
  <2>3. victims = EntryKeys /\ SavedLast(victims)
    BY <1>1, <2>2 DEF Exact, Survives
  <2>4. Complete' = Complete \ {v}
    BY <1>1, <1>6, <2>1, TokensGo DEF PInv
  <2>5. Tail(victims) = Only(Without(order, v), Complete \ {v})
    <3>1. order \in Seq(Keys) /\ IsInjective(order) /\ Complete \subseteq Range(order)
      BY CompleteFacts DEF PInv, TypeOK
    <3>2. Only(order, Complete) = victims /\ Head(Only(order, Complete)) = v
      BY <2>3 DEF EntryKeys, v, Victim
    <3>3. Tail(Only(order, Complete)) =
            Only(Without(order, Head(Only(order, Complete))),
                 Complete \ {Head(Only(order, Complete))})
      BY <1>1, <3>1, <3>2, OldestGoes
    <3> QED BY <3>2, <3>3
  <2>6. EntryKeys' = Only(order', Complete')
    BY DEF EntryKeys
  <2>7. Exact'
    <3>1. Tail(victims)' = EntryKeys'
      BY <1>1, <2>1, <2>4, <2>5, <2>6
    <3>2. Victim' \notin Complete'
      BY <1>8, <2>4
    <3> QED BY <1>1, <3>1, <3>2 DEF Exact
  <2>8. SavedLast(Tail(victims))
    <3>0. victims[Len(victims)] = Key(saving)
      BY <1>1, <2>3 DEF SavedLast
    <3>1. CASE Tail(victims) = <<>>
      <4>1. v = Key(saving) /\ R = {v}
        BY <1>4, <3>0, <3>1
      <4>2. Weight[v] = PairBytes(saving)
        BY <1>2, <4>1, PromptFacts
      <4>3. SumOver(Weight, R \ {v}) = 0
        <5>1. R \ {v} = {}
          BY <4>1
        <5> QED BY <5>1, SumOverEmpty
      <4>4. total = Weight[v]
        BY <1>7, <4>3
      <4> QED BY <1>1, <3>1, <4>2, <4>4 DEF SavedLast
    <3>2. CASE Tail(victims) # <<>>
      BY <1>4, <3>0, <3>2 DEF SavedLast
    <3> QED BY <3>1, <3>2
  <2>9. Survives'
    BY <1>1, <2>8 DEF Survives, SavedLast
  <2> QED BY <2>7, <2>9
<1> QED BY <1>11, <1>12, <1>13, <1>14, <1>15, <1>16, <1>17 DEF PInv

LEMMA EvictStateStep ==
  ASSUME KeysDistinct, PInv, EvictState
  PROVE  PInv'
<1> DEFINE v == Victim
           R == Range(victims)
<1>1. /\ pc = "removing state" /\ pc' = "evicting" /\ victims' = Without(victims, v)
      /\ UNCHANGED <<tokenFile, order, temps, counter, saving, total, answer, crashes>>
  BY DEF EvictState
<1>2. saving \in Prompts /\ answer = Saving
  BY <1>1 DEF PInv, Busy
<1>3. /\ victims \in Seq(Keys) /\ IsInjective(victims) /\ victims # <<>>
      /\ R \ {v} \subseteq Complete /\ total = SumOver(Weight, R \ {v})
  BY <1>1 DEF PInv, TypeOK, Counted
<1>4. /\ v \in R /\ victims' = Tail(victims)
      /\ Tail(victims) \in Seq(Keys) /\ IsInjective(Tail(victims))
      /\ Range(Tail(victims)) = R \ {v}
  BY <1>1, <1>3, RestFacts DEF Victim
<1>5. v \in Keys
  BY <1>3, <1>4, WeightSum
<1>6. \/ stateFile' = [stateFile EXCEPT ![v] = Absent] /\ stuck' = stuck
      \/ UNCHANGED stateFile /\ stuck' = TRUE
  BY DEF EvictState
<1> HIDE DEF v, R
<1>7. /\ stateFile' \in [Keys -> Prompts \cup {Absent}] /\ Owned' /\ Listed'
      /\ Complete \ {v} \subseteq Complete'
      /\ stuck' \in BOOLEAN /\ (stuck => stuck')
  <2>1. CASE stateFile' = [stateFile EXCEPT ![v] = Absent] /\ stuck' = stuck
    <3>1. /\ stateFile' \in [Keys -> Prompts \cup {Absent}] /\ Owned' /\ Listed'
          /\ Complete' = Complete \ {v}
      BY <1>1, <1>5, <2>1, StateGoes DEF PInv
    <3>2. stuck' \in BOOLEAN /\ (stuck => stuck')
      BY <2>1 DEF PInv, TypeOK
    <3> QED BY <3>1, <3>2
  <2>2. CASE UNCHANGED stateFile /\ stuck' = TRUE
    <3>1. Owned' /\ Listed' /\ Complete' = Complete
      BY <1>1, <2>2, SamePairs DEF PInv
    <3> QED BY <2>2, <3>1 DEF PInv, TypeOK
  <2> QED BY <1>6, <2>1, <2>2
<1>8. TypeOK'
  BY <1>1, <1>4, <1>7 DEF PInv, TypeOK, Pcs
<1>9. LoadedStateBelongs' /\ SaveAnswersTheLimit'
  BY <1>1, <1>2 DEF LoadedStateBelongs, SaveAnswersTheLimit, Saving
<1>10. Busy' /\ Renamed'
  BY <1>1, <1>2 DEF Busy, Renamed
<1>11. Counted'
  <2>1. Range(victims)' = R \ {v} /\ IsInjective(victims')
    BY <1>4
  <2>2. R \ {v} \subseteq Complete'
    BY <1>3, <1>7
  <2> QED BY <1>1, <1>3, <2>1, <2>2 DEF Counted
<1>12. Temporaries'
  BY <1>1, <1>7 DEF PInv, Temporaries, TempState, TempTokens, Temp
<1>13. ASSUME ~stuck' PROVE Exact' /\ Survives'
  <2>1. stateFile' = [stateFile EXCEPT ![v] = Absent] /\ stuck' = stuck
    <3>1. ~(stuck' = TRUE)
      BY <1>13
    <3> QED BY <1>6, <3>1
  <2>2. Exact /\ Survives
    BY <1>13, <2>1 DEF PInv
  <2>3. v \notin Complete /\ Tail(victims) = EntryKeys /\ SavedLast(Tail(victims))
    BY <1>1, <2>2 DEF Exact, Survives, v
  <2>4. Complete' = Complete
    <3>1. Complete' = Complete \ {v}
      BY <1>1, <1>5, <2>1, StateGoes DEF PInv
    <3> QED BY <2>3, <3>1
  <2>5. EntryKeys' = EntryKeys
    BY <1>1, <2>4 DEF EntryKeys
  <2>6. SavedLast(victims)'
    BY <1>1, <1>4, <2>3 DEF SavedLast
  <2> QED BY <1>1, <1>4, <2>3, <2>5, <2>6 DEF Exact, Survives
<1> QED BY <1>7, <1>8, <1>9, <1>10, <1>11, <1>12, <1>13 DEF PInv

LEMMA EndSaveStep ==
  ASSUME KeysDistinct, PInv, EndSave
  PROVE  PInv'
<1>1. /\ pc = "evicting" /\ pc' = "idle" /\ victims' = <<>> /\ total' = 0
      /\ victims = <<>> \/ total <= MaxBytes
      /\ answer' = [op |-> "save", tokens |-> saving, kept |-> Key(saving) \in Complete]
      /\ UNCHANGED <<tokenFile, stateFile, order, temps, counter, saving, crashes, stuck>>
  BY DEF EndSave, files, WithinLimit
<1>2. saving \in Prompts
  BY <1>1 DEF PInv, Busy
<1>3. Owned' /\ Listed' /\ Complete' = Complete /\ EntryKeys' = EntryKeys
  BY <1>1, SamePairs DEF PInv
<1>4. TypeOK'
  <2>1. victims' \in Seq(Keys) /\ total' \in Nat
    BY <1>1, EmptyFacts
  <2> QED BY <1>1, <2>1 DEF PInv, TypeOK, Pcs
<1>5. LoadedStateBelongs'
  BY <1>1 DEF LoadedStateBelongs
<1>6. Busy' /\ Renamed' /\ Counted' /\ Exact' /\ Survives'
  BY <1>1 DEF Busy, Renamed, Counted, Exact, Survives
<1>7. Temporaries'
  BY <1>1 DEF PInv, Temporaries, TempState, TempTokens, Temp
<1>8. ASSUME ~stuck
      PROVE  /\ Key(saving) \in Complete <=> PairBytes(saving) <= MaxBytes
             /\ MapThenSumSet(EntryBytes, Complete) <= MaxBytes
  <2>1. Exact /\ Survives
    BY <1>8 DEF PInv
  <2>2. victims = EntryKeys /\ SavedLast(victims) /\ total = SumOver(Weight, Range(victims))
    BY <1>1, <2>1 DEF PInv, Exact, Survives, Counted
  <2>3. victims \in Seq(Keys) /\ Range(victims) = Complete
    BY <2>2, EntryKeysFacts DEF PInv
  <2>4. MapThenSumSet(EntryBytes, Complete) = total
    BY <2>2, <2>3, CompleteSum DEF PInv
  <2>5. /\ IsFiniteSet(Complete) /\ \A x \in Complete : Weight[x] \in Nat
        /\ total \in Nat
    BY <2>2, <2>3, WeightSum
  <2>6. PairBytes(saving) \in Nat /\ Weight[Key(saving)] = PairBytes(saving)
    BY <1>2, PromptFacts
  <2>7. CASE victims = <<>>
    <3>1. Complete = {}
      BY <2>3, <2>7, EmptyFacts
    <3>2. total = 0
      BY <2>2, <2>3, <3>1, SumOverEmpty
    <3>3. PairBytes(saving) > MaxBytes
      BY <2>2, <2>7 DEF SavedLast
    <3> QED BY <2>4, <2>6, <3>1, <3>2, <3>3, Bounds
  <2>8. CASE victims # <<>>
    <3>1. victims[Len(victims)] = Key(saving) /\ total <= MaxBytes
      BY <1>1, <2>2, <2>8 DEF SavedLast
    <3>2. Len(victims) \in DOMAIN victims
      BY <2>3, <2>8, LenProperties, EmptySeq, SeqEqual
    <3>3. Key(saving) \in Complete
      BY <2>3, <3>1, <3>2 DEF Range
    <3>4. total = PairBytes(saving) + SumOver(Weight, Complete \ {Key(saving)})
      <4>1. SumOver(Weight, Complete) =
              Weight[Key(saving)] + SumOver(Weight, Complete \ {Key(saving)})
        BY <2>5, <3>3, SumOverRemove
      <4> QED BY <2>2, <2>3, <2>6, <4>1
    <3>5. SumOver(Weight, Complete \ {Key(saving)}) \in Nat
      <4>1. /\ IsFiniteSet(Complete \ {Key(saving)})
            /\ \A x \in Complete \ {Key(saving)} : Weight[x] \in Nat
        BY <2>5, FS_Subset
      <4> QED BY <4>1, SumOverNat
    <3>6. PairBytes(saving) <= MaxBytes
      <4> DEFINE a == PairBytes(saving)
                 b == SumOver(Weight, Complete \ {Key(saving)})
      <4>1. a \in Nat /\ b \in Nat /\ total = a + b /\ total <= MaxBytes /\ MaxBytes \in Nat
        BY <2>6, <3>1, <3>4, <3>5, Bounds
      <4> HIDE DEF a, b
      <4>2. a <= MaxBytes
        BY <4>1
      <4> QED BY <4>2 DEF a
    <3> QED BY <2>4, <3>1, <3>3, <3>6
  <2> QED BY <2>7, <2>8
<1>9. SaveAnswersTheLimit'
  <2>1. MapThenSumSet(EntryBytes, Complete)' = MapThenSumSet(EntryBytes, Complete)
    BY <1>1 DEF MapThenSumSet, MapThenFoldSet, EntryBytes, Complete
  <2>2. answer'.tokens = saving /\ answer'.kept = (Key(saving) \in Complete)
    BY <1>1
  <2> QED BY <1>1, <1>8, <2>1, <2>2 DEF SaveAnswersTheLimit
<1> QED BY <1>3, <1>4, <1>5, <1>6, <1>7, <1>9 DEF PInv

LEMMA NextPInv ==
  ASSUME KeysDistinct, PInv, [Next]_vars
  PROVE  PInv'
<1>1. CASE UNCHANGED vars
  <2>1. UNCHANGED <<tokenFile, stateFile, order, temps, counter, pc, saving, victims,
                    total, answer, crashes, stuck>>
    BY <1>1 DEF vars, files, eviction
  <2>2. Owned' /\ Listed' /\ Complete' = Complete /\ EntryKeys' = EntryKeys
    BY <2>1, SamePairs DEF PInv
  <2>3. MapThenSumSet(EntryBytes, Complete)' = MapThenSumSet(EntryBytes, Complete)
    BY <2>1 DEF MapThenSumSet, MapThenFoldSet, EntryBytes, Complete
  <2>4. TypeOK' /\ LoadedStateBelongs'
    BY <2>1 DEF PInv, TypeOK, LoadedStateBelongs
  <2>5. SaveAnswersTheLimit'
    BY <2>1, <2>3 DEF PInv, SaveAnswersTheLimit
  <2>6. Busy' /\ Renamed' /\ Counted'
    BY <2>1, <2>2 DEF PInv, Busy, Renamed, Counted, Victim
  <2>7. Temporaries'
    BY <2>1 DEF PInv, Temporaries, TempState, TempTokens, Temp
  <2>8. ~stuck' => Exact' /\ Survives'
    BY <2>1, <2>2 DEF PInv, Exact, Survives, SavedLast, Victim
  <2> QED BY <2>2, <2>4, <2>5, <2>6, <2>7, <2>8 DEF PInv
<1>2. CASE Next
  BY <1>2, LoadStep, BeginSaveStep, WriteStep, RenameStateStep, RenameTokensStep,
     SaveThrowsStep, ScanStep, EvictTokensStep, EvictStateStep, EndSaveStep,
     ClearStep, ClearFileStep, CrashStep DEF Next
<1> QED BY <1>1, <1>2

LEMMA PAlways == ASSUME KeysDistinct PROVE Spec => []PInv
<1>1. Init => PInv
  BY InitPInv
<1>2. PInv /\ [Next]_vars => PInv'
  BY NextPInv
<1> QED BY <1>1, <1>2, PTL DEF Spec

-----------------------------------------------------------------------------

\* load_longest returns the state of exactly the tokens it returns, a prefix
\* of the prompt; save answers FALSE exactly when its pair alone is over the
\* limit and leaves the pairs within it; and a save that fails without a kill
\* leaves no temporary: for any prefixes whose keys differ, any sizes and
\* limit, and any number of kills, failing calls and failing removals.
THEOREM StoreAlwaysTruthful == ASSUME KeysDistinct PROVE Spec => []StoreTruthful
<1>1. PInv => StoreTruthful
  <2> SUFFICES ASSUME PInv PROVE StoreTruthful
    OBVIOUS
  <2>1. FailedSaveCleansUp
    <3> SUFFICES ASSUME pc = "idle", crashes = 0, ~stuck PROVE temps = {}
      BY DEF FailedSaveCleansUp
    <3> QED BY DEF PInv, Temporaries, TempState, TempTokens
  <2> QED BY <2>1 DEF PInv, StoreTruthful
<1> QED BY <1>1, PAlways, PTL

\* Every step but one of the limit or of clear keeps the complete pairs: no
\* kill, throw or save takes one away, at whichever file it stops.
THEOREM NothingLostToInterruption ==
  ASSUME KeysDistinct PROVE Spec => InterruptionLosesNothing
<1> DEFINE A == \/ pc \in {"evicting", "removing state", "clearing"} /\ pc' # "idle"
                \/ Complete \subseteq Complete'
<1>1. ASSUME PInv, Next PROVE A
  <2>1. ASSUME UNCHANGED <<tokenFile, stateFile>> PROVE A
    BY <2>1 DEF Complete
  <2>2. CASE RenameState
    <3>1. /\ saving \in Prompts /\ saving # Absent
          /\ stateFile' = [stateFile EXCEPT ![Key(saving)] = saving]
          /\ UNCHANGED tokenFile /\ stateFile \in [Keys -> Prompts \cup {Absent}]
      BY <1>1, <2>2, PromptFacts DEF RenameState, PInv, Busy, TypeOK
    <3> QED BY <3>1 DEF Complete
  <2>3. CASE RenameTokens
    <3>1. /\ saving \in Prompts /\ saving # Absent
          /\ tokenFile' = [tokenFile EXCEPT ![Key(saving)] = saving]
          /\ UNCHANGED stateFile /\ tokenFile \in [Keys -> Prompts \cup {Absent}]
      BY <1>1, <2>3, PromptFacts DEF RenameTokens, PInv, Busy, TypeOK
    <3> QED BY <3>1 DEF Complete
  <2>4. CASE EvictTokens \/ EvictState \/ ClearFile
    BY <2>4 DEF EvictTokens, EvictState, ClearFile
  <2>5. CASE \E q \in Queries : LoadLongest(q)
    BY <2>1, <2>5 DEF LoadLongest
  <2>6. CASE \E p \in Prompts : BeginSave(p)
    BY <2>1, <2>6 DEF BeginSave, files
  <2>7. CASE WriteState \/ WriteTokens \/ SaveThrows \/ Scan \/ EndSave
    BY <2>1, <2>7 DEF WriteState, WriteTokens, SaveThrows, Scan, EndSave, files
  <2>8. CASE BeginClear \/ EndClear \/ Crash
    BY <2>1, <2>8 DEF BeginClear, EndClear, Crash, files
  <2> QED BY <1>1, <2>2, <2>3, <2>4, <2>5, <2>6, <2>7, <2>8 DEF Next
<1>2. PInv /\ [Next]_vars => [A]_vars
  BY <1>1
<1> QED BY <1>2, PAlways, PTL DEF Spec, InterruptionLosesNothing

-----------------------------------------------------------------------------
(* The abstract list.  Its filter and its sum are the ones above.          *)

LEMMA LruWithout == ASSUME NEW s, NEW x PROVE Lru!Without(s, x) = Without(s, x)
  BY DEF Lru!Without, Without, Lru!Only, Only, Lru!Range, Range

\* The sum of a list is the sum of the set of its elements.
LEMMA SumOfList ==
  ASSUME NEW T, NEW B, Maps(B, T, Nat)
  PROVE  \A s \in Seq(T) : IsInjective(s) => SumSeq(Mapped(B, s)) = SumOver(B, Range(s))
<1> DEFINE P == {s \in Seq(T) : IsInjective(s) => SumSeq(Mapped(B, s)) = SumOver(B, Range(s))}
<1>0. \A x \in T : B[x] \in Nat
  BY DEF Maps
<1>1. <<>> \in P
  <2>1. IsMapped(Mapped(B, <<>>), <<>>, Nat)
    BY EmptyFacts, MappedType
  <2>2. Mapped(B, <<>>) = <<>>
    BY <2>1, EmptyFacts, EmptySeq, SeqEqual DEF IsMapped
  <2>3. SumSeq(Mapped(B, <<>>)) = 0 /\ SumOver(B, Range(<<>>)) = 0
    BY <2>2, SumEmpty, SumOverEmpty, EmptyFacts
  <2> QED BY <2>3, EmptyFacts
<1>2. ASSUME NEW s \in Seq(T), NEW x \in T, s \in P PROVE Append(s, x) \in P
  <2>0. /\ Append(s, x) \in Seq(T) /\ Range(Append(s, x)) = Range(s) \cup {x}
        /\ Range(s) \subseteq T
        /\ IsInjective(Append(s, x)) <=> IsInjective(s) /\ x \notin Range(s)
    BY AppendProperties, RangeOfAppend
  <2> SUFFICES ASSUME IsInjective(Append(s, x))
               PROVE  SumSeq(Mapped(B, Append(s, x))) = SumOver(B, Range(s) \cup {x})
    BY <2>0
  <2>1. SumSeq(Mapped(B, s)) = SumOver(B, Range(s))
    BY <1>2, <2>0
  <2> HIDE DEF P
  <2>2. Mapped(B, Append(s, x)) = Append(Mapped(B, s), B[x])
    BY MappedAppend
  <2>3. Mapped(B, s) \in Seq(Nat) /\ B[x] \in Nat
    <3>1. IsMapped(Mapped(B, s), s, Nat)
      BY MappedType
    <3> QED BY <1>0, <3>1 DEF IsMapped
  <2>4. SumSeq(Append(Mapped(B, s), B[x])) = SumSeq(Mapped(B, s)) + B[x]
    <3> DEFINE m == Mapped(B, s)
               y == B[x]
    <3> HIDE DEF m, y
    <3>1. m \in Seq(Nat) /\ y \in Nat
      BY <2>3 DEF m, y
    <3>2. SumSeq(Append(m, y)) = SumSeq(m) + y
      BY <3>1, SumAppend
    <3> QED BY <3>2 DEF m, y
  <2>5. SumOver(B, Range(s) \cup {x}) = B[x] + SumOver(B, Range(s))
    <3>1. IsFiniteSet(Range(s)) /\ \A y \in Range(s) : B[y] \in Nat
      BY <1>0, <2>0, RangeFinite
    <3>2. x \notin Range(s)
      BY <2>0
    <3> QED BY <2>3, <3>1, <3>2, SumOverAdd
  <2>6. SumSeq(Mapped(B, s)) \in Nat
    BY <2>3, SumNat
  <2> QED BY <2>1, <2>2, <2>3, <2>4, <2>5, <2>6
<1> HIDE DEF P
<1>3. Seq(T) \subseteq P
  BY <1>1, <1>2, SeqInduct
<1> QED BY <1>3 DEF P

LEMMA LruBytes ==
  ASSUME KeysDistinct, NEW e \in Seq(Keys), IsInjective(e)
  PROVE  Lru!Bytes(Mapped(PromptOf, e)) = SumOver(Weight, Range(e))
<1> DEFINE s == Mapped(PromptOf, e)
           w == Mapped(Weight, e)
           G(f) == f = [n \in 0..Len(s) |->
                          IF n = 0 THEN 0 ELSE f[n - 1] + PairBytes(s[n])]
<1>1. Maps(Weight, Keys, Nat) /\ Maps(PromptOf, Keys, Prompts)
  BY PromptFacts DEF Maps, Weight
<1>2. Len(s) \in Nat /\ Len(s) = Len(w) /\ Len(s) = Len(e) /\ w \in Seq(Nat)
  <2>1. IsMapped(Mapped(PromptOf, e), e, Prompts) /\ IsMapped(Mapped(Weight, e), e, Nat)
    BY <1>1, MappedType
  <2> QED BY <2>1, LenProperties DEF IsMapped
<1>3. \A n \in 1..Len(s) : PairBytes(s[n]) = w[n]
  <2>1. \A n \in 1..Len(s) : n \in DOMAIN e /\ e[n] \in Keys
    BY <1>2, LenProperties, ElementOfSeq
  <2>2. \A n \in DOMAIN e : s[n] = PromptOf[e[n]] /\ w[n] = Weight[e[n]]
    BY DEF Mapped
  <2> HIDE DEF s, w
  <2> QED BY <2>1, <2>2, PromptFacts
<1>4. Lru!Bytes(s) = (CHOOSE f : G(f))[Len(s)]
  BY DEF Lru!Bytes
<1>5. SumSeq(w) = (CHOOSE f : PartialSums(f, w, Len(w)))[Len(w)]
  BY DEF SumSeq, PartialSums
<1> HIDE DEF s, w
<1>6. ASSUME NEW f PROVE G(f) <=> PartialSums(f, w, Len(w))
  <2>1. [n \in 0..Len(s) |-> IF n = 0 THEN 0 ELSE f[n - 1] + PairBytes(s[n])]
        = [n \in 0..Len(w) |-> IF n = 0 THEN 0 ELSE f[n - 1] + w[n]]
    <3>1. \A n \in 0..Len(s) : n # 0 => n \in 1..Len(s)
      BY <1>2
    <3> QED BY <1>2, <1>3, <3>1
  <2> QED BY <2>1 DEF PartialSums
<1> HIDE DEF G
<1>7. (CHOOSE f : G(f)) = (CHOOSE f : PartialSums(f, w, Len(w)))
  BY <1>6
<1>8. Lru!Bytes(s) = SumSeq(w)
  BY <1>2, <1>4, <1>5, <1>7
<1>9. SumSeq(w) = SumOver(Weight, Range(e))
  BY <1>1, SumOfList DEF w
<1> QED BY <1>8, <1>9 DEF s

-----------------------------------------------------------------------------
(* What the three changes of the directory do to the filtered list: an     *)
(* element leaves, becomes the last, or appears in the middle.             *)

LEMMA WithoutOnly ==
  ASSUME NEW T, NEW s \in Seq(T), NEW C, NEW k
  PROVE  Without(Only(s, C), k) = Only(s, C \ {k})
<1>1. Range(Only(s, C)) = Range(s) \cap C
  BY OnlyType
<1>2. Only(Only(s, C), (Range(s) \cap C) \ {k}) = Only(s, C \cap ((Range(s) \cap C) \ {k}))
  BY OnlyAgain
<1>3. Range(s) \cap (C \cap ((Range(s) \cap C) \ {k})) = Range(s) \cap (C \ {k})
  OBVIOUS
<1>4. Only(s, C \cap ((Range(s) \cap C) \ {k})) = Only(s, C \ {k})
  BY <1>3, OnlySame
<1> QED BY <1>1, <1>2, <1>4 DEF Without

LEMMA OnlyWithout ==
  ASSUME NEW T, NEW s \in Seq(T), NEW C, NEW k
  PROVE  Only(Without(s, k), C) = Only(s, C \ {k})
<1>1. Only(Only(s, Range(s) \ {k}), C) = Only(s, (Range(s) \ {k}) \cap C)
  BY OnlyAgain
<1>2. Range(s) \cap ((Range(s) \ {k}) \cap C) = Range(s) \cap (C \ {k})
  OBVIOUS
<1>3. Only(s, (Range(s) \ {k}) \cap C) = Only(s, C \ {k})
  BY <1>2, OnlySame
<1> QED BY <1>1, <1>3 DEF Without

LEMMA OnlyTouch ==
  ASSUME NEW T, NEW s \in Seq(T), NEW C, NEW k \in T
  PROVE  Only(Append(Without(s, k), k), C \cup {k}) = Append(Without(Only(s, C), k), k)
<1> DEFINE w == Without(s, k)
<1>1. w \in Seq(T)
  <2>1. Only(s, Range(s) \ {k}) \in Seq(T)
    BY OnlyType
  <2> QED BY <2>1 DEF Without
<1>2. Only(w, C \cup {k}) = Only(s, (C \cup {k}) \ {k})
  BY OnlyWithout
<1>3. (C \cup {k}) \ {k} = C \ {k}
  OBVIOUS
<1>4. Only(s, C \ {k}) = Without(Only(s, C), k)
  BY WithoutOnly
<1> HIDE DEF w
<1>5. Only(Append(w, k), C \cup {k}) = Append(Only(w, C \cup {k}), k)
  <2> DEFINE D == C \cup {k}
  <2>1. k \in D
    OBVIOUS
  <2> HIDE DEF D
  <2>2. Only(Append(w, k), D) = IF k \in D THEN Append(Only(w, D), k) ELSE Only(w, D)
    BY <1>1, OnlyAppend
  <2> QED BY <2>1, <2>2 DEF D
<1>6. Only(Append(w, k), C \cup {k}) = Append(Without(Only(s, C), k), k)
  BY <1>2, <1>3, <1>4, <1>5
<1> QED BY <1>6 DEF w

Insert(s, i, x) == SubSeq(s, 1, i) \o <<x>> \o SubSeq(s, i + 1, Len(s))

IsInsert(r, s, i, x, T) ==
  /\ r \in Seq(T) /\ Len(r) = Len(s) + 1
  /\ \A j \in 1..(Len(s) + 1) :
       r[j] = IF j <= i THEN s[j] ELSE IF j = i + 1 THEN x ELSE s[j - 1]

LEMMA InsertIs ==
  ASSUME NEW T, NEW s \in Seq(T), NEW x \in T, NEW i \in 0..Len(s)
  PROVE  IsInsert(Insert(s, i, x), s, i, x, T)
<1> DEFINE n == Len(s)
           a == SubSeq(s, 1, i)
           c == SubSeq(s, i + 1, n)
           b == <<x>>
<1>0. n \in Nat /\ i \in Nat /\ i <= n
  BY LenProperties
<1>1. a \in Seq(T) /\ Len(a) = i /\ \A j \in 1..i : a[j] = s[j]
  BY <1>0, SubSeqProperties
<1>2. c \in Seq(T) /\ Len(c) = n - i /\ \A j \in 1..(n - i) : c[j] = s[i + j]
  <2>1. c \in Seq(T)
    BY <1>0, SubSeqProperties
  <2>2. Len(c) = n - i
    BY <1>0, SubSeqProperties
  <2>3. ASSUME NEW j \in 1..(n - i) PROVE c[j] = s[i + j]
    <3>1. i + 1 \in 1..(n + 1) /\ n \in i..n /\ (i + 1) + j - 1 = i + j
      BY <1>0
    <3> QED BY <1>0, <2>2, <3>1, SubSeqProperties
  <2> QED BY <2>1, <2>2, <2>3
<1>3. b \in Seq(T) /\ Len(b) = 1 /\ b[1] = x
  OBVIOUS
<1> DEFINE ab == a \o b
           r == ab \o c
<1>4. Insert(s, i, x) = r
  BY DEF Insert
<1> HIDE DEF a, b, c, n
<1>5. /\ ab \in Seq(T) /\ Len(ab) = i + 1
      /\ \A j \in 1..i : ab[j] = s[j]
      /\ ab[i + 1] = x
  <2>1. /\ ab \in Seq(T) /\ Len(ab) = Len(a) + Len(b)
        /\ \A j \in 1..(Len(a) + Len(b)) :
             ab[j] = IF j <= Len(a) THEN a[j] ELSE b[j - Len(a)]
    BY <1>1, <1>3, ConcatProperties
  <2> HIDE DEF ab
  <2>2. \A j \in 1..(i + 1) : ab[j] = IF j <= i THEN a[j] ELSE b[j - i]
    BY <1>1, <1>3, <2>1
  <2>3. i + 1 \in 1..(i + 1) /\ ~(i + 1 <= i) /\ (i + 1) - i = 1
    BY <1>0
  <2>4. ab[i + 1] = x
    BY <1>3, <2>2, <2>3
  <2>5. \A j \in 1..i : ab[j] = s[j]
    BY <1>0, <1>1, <2>2
  <2> QED BY <1>1, <1>3, <2>1, <2>4, <2>5
<1> HIDE DEF ab
<1>6. /\ r \in Seq(T) /\ Len(r) = n + 1
      /\ \A j \in 1..(n + 1) : r[j] = IF j <= i + 1 THEN ab[j] ELSE c[j - (i + 1)]
  <2>1. /\ r \in Seq(T) /\ Len(r) = Len(ab) + Len(c)
        /\ \A j \in 1..(Len(ab) + Len(c)) :
             r[j] = IF j <= Len(ab) THEN ab[j] ELSE c[j - Len(ab)]
    BY <1>2, <1>5, ConcatProperties
  <2> HIDE DEF r
  <2>2. Len(ab) + Len(c) = n + 1
    BY <1>0, <1>2, <1>5
  <2> QED BY <1>5, <2>1, <2>2
<1> HIDE DEF r
<1>7. ASSUME NEW j \in 1..(n + 1)
      PROVE  r[j] = IF j <= i THEN s[j] ELSE IF j = i + 1 THEN x ELSE s[j - 1]
  <2>1. CASE j <= i
    <3>1. j \in 1..i /\ j <= i + 1
      BY <1>0, <2>1
    <3> QED BY <1>5, <1>6, <2>1, <3>1
  <2>2. CASE j = i + 1
    <3>1. j <= i + 1 /\ ~(j <= i)
      BY <1>0, <2>2
    <3> QED BY <1>5, <1>6, <2>2, <3>1
  <2>3. CASE j > i + 1
    <3>1. /\ ~(j <= i + 1) /\ ~(j <= i) /\ j # i + 1
          /\ j - (i + 1) \in 1..(n - i) /\ i + (j - (i + 1)) = j - 1
      BY <1>0, <2>3
    <3> QED BY <1>2, <1>6, <3>1
  <2> QED BY <1>0, <2>1, <2>2, <2>3
<1> QED BY <1>4, <1>6, <1>7 DEF IsInsert, n

\* Two lists with the same insertion are one.
LEMMA InsertUnique ==
  ASSUME NEW T, NEW s \in Seq(T), NEW x \in T, NEW i \in 0..Len(s),
         NEW r, IsInsert(r, s, i, x, T)
  PROVE  r = Insert(s, i, x)
<1> DEFINE q == Insert(s, i, x)
<1>1. IsInsert(q, s, i, x, T)
  BY InsertIs
<1> HIDE DEF q
<1>2. r \in Seq(T) /\ q \in Seq(T) /\ Len(r) = Len(s) + 1 /\ Len(q) = Len(r)
  BY <1>1 DEF IsInsert
<1>3. \A j \in 1..Len(r) : r[j] = q[j]
  BY <1>1, <1>2 DEF IsInsert
<1>4. r = q
  BY <1>2, <1>3, SeqEqual
<1> QED BY <1>4 DEF q

LEMMA InsertLast ==
  ASSUME NEW T, NEW s \in Seq(T), NEW x \in T
  PROVE  Append(s, x) = Insert(s, Len(s), x)
<1> DEFINE r == Append(s, x)
<1>1. /\ r \in Seq(T) /\ Len(r) = Len(s) + 1 /\ Len(s) \in Nat
      /\ \A j \in 1..Len(s) : r[j] = s[j]
      /\ r[Len(s) + 1] = x
  BY AppendProperties, LenProperties
<1> HIDE DEF r
<1>2. ASSUME NEW j \in 1..(Len(s) + 1)
      PROVE  r[j] = IF j <= Len(s) THEN s[j] ELSE IF j = Len(s) + 1 THEN x ELSE s[j - 1]
  <2>1. j \in 1..Len(s) \/ j = Len(s) + 1
    BY <1>1
  <2> QED BY <1>1, <2>1
<1>3. IsInsert(r, s, Len(s), x, T) /\ Len(s) \in 0..Len(s)
  BY <1>1, <1>2 DEF IsInsert
<1> QED BY <1>3, InsertUnique DEF r

LEMMA InsertAppend ==
  ASSUME NEW T, NEW s \in Seq(T), NEW x \in T, NEW y \in T, NEW i \in 0..Len(s)
  PROVE  /\ Append(Insert(s, i, x), y) = Insert(Append(s, y), i, x)
         /\ i \in 0..Len(Append(s, y))
<1> DEFINE a == Append(s, y)
           q == Insert(s, i, x)
           r == Append(q, y)
<1>1. IsInsert(q, s, i, x, T)
  BY InsertIs
<1>2. /\ a \in Seq(T) /\ Len(a) = Len(s) + 1 /\ Len(s) \in Nat
      /\ \A j \in 1..Len(s) : a[j] = s[j]
      /\ a[Len(s) + 1] = y
  BY AppendProperties, LenProperties
<1> HIDE DEF q, a
<1>3. q \in Seq(T) /\ Len(q) = Len(s) + 1
  BY <1>1 DEF IsInsert
<1>4. /\ r \in Seq(T) /\ Len(r) = Len(s) + 2
      /\ \A j \in 1..(Len(s) + 1) : r[j] = q[j]
      /\ r[Len(s) + 2] = y
  <2>1. /\ r \in Seq(T) /\ Len(r) = Len(q) + 1
        /\ \A j \in 1..Len(q) : r[j] = q[j]
        /\ r[Len(q) + 1] = y
    BY <1>3, AppendProperties
  <2>2. (Len(s) + 1) + 1 = Len(s) + 2
    BY <1>2
  <2> QED BY <1>3, <2>1, <2>2
<1> HIDE DEF r
<1>5. i \in 0..Len(a) /\ i \in Nat /\ i <= Len(s)
  BY <1>2
<1>6. ASSUME NEW j \in 1..(Len(a) + 1)
      PROVE  r[j] = IF j <= i THEN a[j] ELSE IF j = i + 1 THEN x ELSE a[j - 1]
  <2>0. j \in Nat /\ Len(a) + 1 = Len(s) + 2
    BY <1>2
  <2>1. CASE j = Len(s) + 2
    <3>1. ~(j <= i) /\ j # i + 1 /\ j - 1 = Len(s) + 1
      BY <1>2, <1>5, <2>0, <2>1
    <3> QED BY <1>2, <1>4, <2>1, <3>1
  <2>2. CASE j # Len(s) + 2
    <3>1. j \in 1..(Len(s) + 1)
      BY <1>2, <2>0, <2>2
    <3>2. r[j] = IF j <= i THEN s[j] ELSE IF j = i + 1 THEN x ELSE s[j - 1]
      BY <1>1, <1>4, <3>1 DEF IsInsert
    <3>3. /\ j <= i => j \in 1..Len(s)
          /\ ~(j <= i) /\ j # i + 1 => j - 1 \in 1..Len(s)
      BY <1>2, <1>5, <3>1
    <3> QED BY <1>2, <3>2, <3>3
  <2> QED BY <2>1, <2>2
<1>7. IsInsert(r, a, i, x, T)
  <2>1. Len(r) = Len(a) + 1
    BY <1>2, <1>4
  <2> QED BY <1>4, <1>6, <2>1 DEF IsInsert
<1>8. r = Insert(a, i, x)
  BY <1>2, <1>5, <1>7, InsertUnique
<1> QED BY <1>5, <1>8 DEF r, a, q

\* An element of the list that was left out appears in its place.
LEMMA OnlyInsert ==
  ASSUME NEW T, NEW C, NEW k \in T, k \notin C
  PROVE  \A s \in Seq(T) : IsInjective(s) /\ k \in Range(s) =>
           \E i \in 0..Len(Only(s, C)) : Only(s, C \cup {k}) = Insert(Only(s, C), i, k)
<1> DEFINE D == C \cup {k}
           P == {s \in Seq(T) : IsInjective(s) /\ k \in Range(s) =>
                   \E i \in 0..Len(Only(s, C)) : Only(s, D) = Insert(Only(s, C), i, k)}
<1>0. k \in D /\ \A x : x # k => (x \in D <=> x \in C)
  OBVIOUS
<1> HIDE DEF D
<1>1. <<>> \in P
  BY EmptyFacts
<1>2. ASSUME NEW s \in Seq(T), NEW x \in T, s \in P PROVE Append(s, x) \in P
  <2> DEFINE t == Append(s, x)
             e == Only(s, C)
  <2>0. /\ t \in Seq(T) /\ Range(t) = Range(s) \cup {x}
        /\ IsInjective(t) <=> IsInjective(s) /\ x \notin Range(s)
        /\ e \in Seq(T)
    BY AppendProperties, RangeOfAppend, OnlyType
  <2>1. /\ Only(t, C) = IF x \in C THEN Append(e, x) ELSE e
        /\ Only(t, D) = IF x \in D THEN Append(Only(s, D), x) ELSE Only(s, D)
    BY OnlyAppend
  <2>2. IsInjective(s) /\ k \in Range(s) =>
          \E i \in 0..Len(e) : Only(s, D) = Insert(e, i, k)
    BY <1>2
  <2> SUFFICES ASSUME IsInjective(t), k \in Range(t)
               PROVE  \E i \in 0..Len(Only(t, C)) : Only(t, D) = Insert(Only(t, C), i, k)
    BY <2>0
  <2> HIDE DEF P, t, e
  <2>3. CASE x = k
    <3>1. Range(s) \cap D = Range(s) \cap C
      BY <1>0, <2>0, <2>3
    <3>2. Only(s, D) = e
      BY <3>1, OnlySame DEF e
    <3>3. Only(t, C) = e /\ Only(t, D) = Append(e, k)
      BY <1>0, <2>1, <2>3, <3>2
    <3>4. Append(e, k) = Insert(e, Len(e), k) /\ Len(e) \in 0..Len(e)
      BY <2>0, InsertLast, LenProperties
    <3> QED BY <3>3, <3>4
  <2>4. CASE x # k
    <3>1. PICK i \in 0..Len(e) : Only(s, D) = Insert(e, i, k)
      BY <2>0, <2>2, <2>4
    <3>2. CASE x \in C
      <4>1. Only(t, C) = Append(e, x) /\ Only(t, D) = Append(Insert(e, i, k), x)
        BY <1>0, <2>1, <2>4, <3>1, <3>2
      <4>2. /\ Append(Insert(e, i, k), x) = Insert(Append(e, x), i, k)
            /\ i \in 0..Len(Append(e, x))
        BY <2>0, InsertAppend
      <4> QED BY <4>1, <4>2
    <3>3. CASE x \notin C
      <4>1. Only(t, C) = e /\ Only(t, D) = Insert(e, i, k)
        BY <1>0, <2>1, <2>4, <3>1, <3>3
      <4> QED BY <4>1
    <3> QED BY <3>2, <3>3
  <2> QED BY <2>3, <2>4
<1> HIDE DEF P
<1>3. Seq(T) \subseteq P
  BY <1>1, <1>2, SeqInduct
<1> QED BY <1>3 DEF P, D

LEMMA MappedInsert ==
  ASSUME NEW T, NEW V, NEW F, Maps(F, T, V), NEW s \in Seq(T), NEW x \in T,
         NEW i \in 0..Len(s)
  PROVE  /\ Mapped(F, Insert(s, i, x)) = Insert(Mapped(F, s), i, F[x])
         /\ i \in 0..Len(Mapped(F, s))
<1> DEFINE q == Insert(s, i, x)
           r == Mapped(F, q)
           m == Mapped(F, s)
           y == F[x]
<1>1. IsInsert(q, s, i, x, T)
  BY InsertIs
<1> HIDE DEF q
<1>2. q \in Seq(T) /\ Len(q) = Len(s) + 1 /\ Len(s) \in Nat /\ y \in V
  BY <1>1, LenProperties DEF IsInsert, Maps
<1>3. /\ m \in Seq(V) /\ Len(m) = Len(s) /\ r \in Seq(V) /\ Len(r) = Len(s) + 1
  <2>1. IsMapped(Mapped(F, s), s, V) /\ IsMapped(Mapped(F, q), q, V)
    BY <1>2, MappedType
  <2> QED BY <1>2, <2>1 DEF IsMapped
<1>4. /\ \A j \in 1..Len(s) : m[j] = F[s[j]]
      /\ \A j \in 1..(Len(s) + 1) : r[j] = F[q[j]]
  BY <1>2, LenProperties DEF Mapped
<1>5. y = F[x]
  OBVIOUS
<1> HIDE DEF r, m, y
<1>6. ASSUME NEW j \in 1..(Len(m) + 1)
      PROVE  r[j] = IF j <= i THEN m[j] ELSE IF j = i + 1 THEN y ELSE m[j - 1]
  <2>1. /\ j \in 1..(Len(s) + 1)
        /\ j <= i => j \in 1..Len(s)
        /\ ~(j <= i) /\ j # i + 1 => j - 1 \in 1..Len(s)
    BY <1>2, <1>3
  <2>2. q[j] = IF j <= i THEN s[j] ELSE IF j = i + 1 THEN x ELSE s[j - 1]
    BY <1>1, <2>1 DEF IsInsert
  <2> QED BY <1>4, <1>5, <2>1, <2>2
<1>7. IsInsert(r, m, i, y, V)
  BY <1>3, <1>6 DEF IsInsert
<1>8. i \in 0..Len(m)
  BY <1>3
<1>9. r = Insert(m, i, y)
  BY <1>2, <1>3, <1>7, <1>8, InsertUnique
<1> QED BY <1>8, <1>9 DEF r, m, y, q

\* Renaming, with names that differ.
LEMMA MappedWithout ==
  ASSUME NEW T, NEW V, NEW F, Maps(F, T, V),
         \A x, y \in T : F[x] = F[y] => x = y, NEW s \in Seq(T), NEW k \in T
  PROVE  /\ Mapped(F, Without(s, k)) = Without(Mapped(F, s), F[k])
         /\ Without(s, k) \in Seq(T)
<1> DEFINE S == Range(s) \ {k}
           W == Range(Mapped(F, s)) \ {F[k]}
<1>1. Range(Mapped(F, s)) = {F[x] : x \in Range(s)}
  BY MappedRange
<1>2. Range(s) \subseteq T
  BY LenProperties, ElementOfSeq DEF Range
<1>3. \A x \in T : x \in S <=> F[x] \in W
  BY <1>1, <1>2
<1> HIDE DEF S, W
<1>4. Mapped(F, Only(s, S)) = Only(Mapped(F, s), W)
  BY <1>3, MappedOnly
<1>5. Only(s, S) \in Seq(T)
  BY OnlyType
<1> QED BY <1>4, <1>5 DEF Without, S, W

LEMMA MappedInjective ==
  ASSUME NEW T, NEW V, NEW F, Maps(F, T, V),
         \A x, y \in T : F[x] = F[y] => x = y, NEW s \in Seq(T), IsInjective(s)
  PROVE  IsInjective(Mapped(F, s))
<1>1. DOMAIN Mapped(F, s) = DOMAIN s /\ \A i \in DOMAIN s : Mapped(F, s)[i] = F[s[i]]
  BY DEF Mapped
<1>2. \A i \in DOMAIN s : s[i] \in T
  BY LenProperties, ElementOfSeq
<1>3. \A i, j \in DOMAIN s : s[i] = s[j] => i = j
  BY DEF IsInjective
<1>4. \A i, j \in DOMAIN s : F[s[i]] = F[s[j]] => i = j
  BY <1>2, <1>3
<1> HIDE DEF Mapped
<1> QED BY <1>1, <1>4 DEF IsInjective

-----------------------------------------------------------------------------
(* The store implements the list.                                          *)

LEMMA PromptsDiffer ==
  ASSUME KeysDistinct
  PROVE  /\ Maps(PromptOf, Keys, Prompts)
         /\ \A x, y \in Keys : PromptOf[x] = PromptOf[y] => x = y
<1>1. \A k \in Keys : Key(PromptOf[k]) = k
  BY PromptFacts
<1> QED BY <1>1, PromptFacts

LEMMA PairsOf ==
  ASSUME KeysDistinct, NEW f, NEW C, NEW s \in Seq(Keys),
         \A k \in C : f[k] = PromptOf[k]
  PROVE  [i \in DOMAIN Only(s, C) |-> f[Only(s, C)[i]]] = Mapped(PromptOf, Only(s, C))
<1> DEFINE e == Only(s, C)
<1>1. Range(e) \subseteq C
  <2>1. Range(Only(s, C)) = Range(s) \cap C
    BY OnlyType
  <2> QED BY <2>1
<1>2. \A i \in DOMAIN e : e[i] \in C
  BY <1>1 DEF Range
<1> HIDE DEF e
<1>3. [i \in DOMAIN e |-> f[e[i]]] = [i \in DOMAIN e |-> PromptOf[e[i]]]
  BY <1>2
<1> QED BY <1>3 DEF e, Mapped

\* What the abstract list shows of the directory.
LEMMA View ==
  ASSUME KeysDistinct, PInv
  PROVE  /\ Prefixes = Mapped(PromptOf, EntryKeys)
         /\ EntryKeys \in Seq(Keys) /\ IsInjective(EntryKeys) /\ Range(EntryKeys) = Complete
         /\ Prefixes \in Seq(Prompts) /\ IsInjective(Prefixes)
         /\ Lru!Stored = {PromptOf[k] : k \in Complete}
<1>1. EntryKeys \in Seq(Keys) /\ IsInjective(EntryKeys) /\ Range(EntryKeys) = Complete
  BY EntryKeysFacts DEF PInv
<1>2. Prefixes = Mapped(PromptOf, EntryKeys)
  <2>1. \A k \in Complete : tokenFile[k] = PromptOf[k]
    BY CompleteFacts DEF PInv
  <2>2. order \in Seq(Keys)
    BY DEF PInv, TypeOK
  <2> QED BY <2>1, <2>2, PairsOf DEF Prefixes, EntryKeys
<1>3. Prefixes \in Seq(Prompts)
  <2>1. IsMapped(Mapped(PromptOf, EntryKeys), EntryKeys, Prompts)
    BY <1>1, PromptsDiffer, MappedType
  <2> QED BY <1>2, <2>1 DEF IsMapped
<1>4. IsInjective(Prefixes)
  BY <1>1, <1>2, PromptsDiffer, MappedInjective
<1>5. Range(Mapped(PromptOf, EntryKeys)) = {PromptOf[k] : k \in Range(EntryKeys)}
  BY <1>1, PromptsDiffer, MappedRange
<1>6. Lru!Stored = Range(Prefixes)
  BY DEF Lru!Stored, Range
<1> QED BY <1>1, <1>2, <1>3, <1>4, <1>5, <1>6

LEMMA ViewNext ==
  ASSUME KeysDistinct, PInv' PROVE Prefixes' = Mapped(PromptOf, EntryKeys')
<1>1. \A k \in Complete' : tokenFile'[k] = PromptOf[k]
  BY DEF PInv, Owned, Complete
<1>2. order' \in Seq(Keys)
  BY DEF PInv, TypeOK
<1>3. /\ EntryKeys' = Only(order', Complete')
      /\ Prefixes' = [i \in DOMAIN EntryKeys' |-> tokenFile'[EntryKeys'[i]]]
  BY DEF EntryKeys, Prefixes
<1> DEFINE C == Complete'
           s == order'
           f == tokenFile'
<1>4. (\A k \in C : f[k] = PromptOf[k]) /\ s \in Seq(Keys)
  BY <1>1, <1>2
<1> HIDE DEF C, s, f
<1>5. [i \in DOMAIN Only(s, C) |-> f[Only(s, C)[i]]] = Mapped(PromptOf, Only(s, C))
  BY <1>4, PairsOf
<1> QED BY <1>3, <1>5 DEF C, s, f

LEMMA ViewSame ==
  ASSUME KeysDistinct, PInv, PInv', EntryKeys' = EntryKeys
  PROVE  Prefixes' = Prefixes
  BY View, ViewNext

LEMMA ViewGone ==
  ASSUME KeysDistinct, PInv, PInv', NEW k \in Keys, EntryKeys' = Without(EntryKeys, k)
  PROVE  Prefixes' = Lru!Without(Prefixes, PromptOf[k])
<1>1. /\ EntryKeys \in Seq(Keys) /\ Prefixes = Mapped(PromptOf, EntryKeys)
      /\ Prefixes' = Mapped(PromptOf, Without(EntryKeys, k))
  BY View, ViewNext
<1>2. Mapped(PromptOf, Without(EntryKeys, k)) =
        Without(Mapped(PromptOf, EntryKeys), PromptOf[k])
  BY <1>1, PromptsDiffer, MappedWithout
<1> QED BY <1>1, <1>2, LruWithout

LEMMA ViewTouched ==
  ASSUME KeysDistinct, PInv, PInv', NEW k \in Keys,
         EntryKeys' = Append(Without(EntryKeys, k), k)
  PROVE  Prefixes' = Append(Lru!Without(Prefixes, PromptOf[k]), PromptOf[k])
<1> DEFINE w == Without(EntryKeys, k)
<1>1. /\ EntryKeys \in Seq(Keys) /\ Prefixes = Mapped(PromptOf, EntryKeys)
      /\ Prefixes' = Mapped(PromptOf, Append(w, k))
  BY View, ViewNext
<1>2. w \in Seq(Keys) /\ Mapped(PromptOf, w) = Without(Prefixes, PromptOf[k])
  BY <1>1, PromptsDiffer, MappedWithout
<1> HIDE DEF w
<1>3. Mapped(PromptOf, Append(w, k)) = Append(Mapped(PromptOf, w), PromptOf[k])
  BY <1>2, PromptsDiffer, MappedAppend
<1> QED BY <1>1, <1>2, <1>3, LruWithout

LEMMA ViewInserted ==
  ASSUME KeysDistinct, PInv, PInv', NEW k \in Keys, NEW i \in 0..Len(EntryKeys),
         EntryKeys' = Insert(EntryKeys, i, k)
  PROVE  Prefixes' = Insert(Prefixes, i, PromptOf[k]) /\ i \in 0..Len(Prefixes)
<1>1. /\ EntryKeys \in Seq(Keys) /\ Prefixes = Mapped(PromptOf, EntryKeys)
      /\ Prefixes' = Mapped(PromptOf, Insert(EntryKeys, i, k))
  BY View, ViewNext
<1>2. /\ Mapped(PromptOf, Insert(EntryKeys, i, k)) =
           Insert(Mapped(PromptOf, EntryKeys), i, PromptOf[k])
      /\ i \in 0..Len(Mapped(PromptOf, EntryKeys))
  BY <1>1, PromptsDiffer, MappedInsert
<1> QED BY <1>1, <1>2

\* A lookup.
LEMMA LruLoad ==
  ASSUME KeysDistinct, PInv, PInv', NEW q \in Queries, LoadLongest(q)
  PROVE  Lru!Next
<1>1. UNCHANGED <<tokenFile, stateFile, stuck>>
  BY DEF LoadLongest
<1>2. Complete' = Complete
  BY <1>1 DEF Complete
<1>3. CASE UNCHANGED order /\ answer' = [op |-> "load", query |-> q,
                                         tokens |-> Absent, state |-> Absent]
  <2>1. EntryKeys' = EntryKeys
    BY <1>2, <1>3 DEF EntryKeys
  <2>2. Prefixes' = Prefixes
    BY <2>1, ViewSame
  <2>3. Reply' = [op |-> "load", query |-> q, tokens |-> <<>>]
    BY <1>3 DEF Reply, Absent
  <2>4. Lru!Load(q)
    BY <2>2, <2>3 DEF Lru!Load, Lru!Loaded
  <2> QED BY <1>1, <2>4 DEF Lru!Next
<1>4. ASSUME NEW k \in Longest(Matches(q)), Touch(k),
             answer' = [op |-> "load", query |-> q, tokens |-> tokenFile[k],
                        state |-> stateFile[k]]
      PROVE  Lru!Next
  <2> DEFINE p == PromptOf[k]
  <2>1. /\ k \in Complete /\ Len(tokenFile[k]) <= Len(q)
        /\ SubSeq(q, 1, Len(tokenFile[k])) = tokenFile[k]
        /\ \A o \in Matches(q) : Len(tokenFile[o]) <= Len(tokenFile[k])
    BY DEF Longest, Matches
  <2>2. k \in Keys /\ tokenFile[k] = p /\ \A o \in Complete : tokenFile[o] = PromptOf[o]
    BY <2>1, CompleteFacts DEF PInv
  <2>3. EntryKeys' = Append(Without(EntryKeys, k), k)
    <3>1. order \in Seq(Keys)
      BY DEF PInv, TypeOK
    <3>2. Only(Append(Without(order, k), k), Complete \cup {k})
            = Append(Without(Only(order, Complete), k), k)
      BY <2>2, <3>1, OnlyTouch
    <3>3. Complete \cup {k} = Complete
      BY <2>1
    <3>4. order' = Append(Without(order, k), k)
      BY <1>4 DEF Touch
    <3> QED BY <1>2, <3>2, <3>3, <3>4 DEF EntryKeys
  <2>4. Prefixes' = Append(Lru!Without(Prefixes, p), p)
    BY <2>2, <2>3, ViewTouched
  <2>5. Reply' = [op |-> "load", query |-> q, tokens |-> p]
    BY <1>4, <2>2 DEF Reply
  <2>6. Lru!Stored = {PromptOf[o] : o \in Complete}
    BY View
  <2>7. p \in Lru!PrefixesOf(q)
    BY <2>1, <2>2, <2>6 DEF Lru!PrefixesOf
  <2>8. \A o \in Lru!PrefixesOf(q) : Len(o) <= Len(p)
    <3> SUFFICES ASSUME NEW o \in Lru!PrefixesOf(q) PROVE Len(o) <= Len(p)
      OBVIOUS
    <3>1. o \in Lru!Stored /\ Len(o) <= Len(q) /\ SubSeq(q, 1, Len(o)) = o
      BY DEF Lru!PrefixesOf
    <3>2. PICK j \in Complete : o = PromptOf[j]
      BY <2>6, <3>1
    <3>3. tokenFile[j] = o
      BY <2>2, <3>2
    <3>4. j \in Matches(q)
      BY <3>1, <3>3 DEF Matches
    <3> QED BY <2>1, <2>2, <3>3, <3>4
  <2> HIDE DEF p
  <2>9. Lru!Load(q)
    BY <2>4, <2>5, <2>7, <2>8 DEF Lru!Load, Lru!Loaded
  <2> QED BY <1>1, <2>9 DEF Lru!Next
<1> QED BY <1>3, <1>4 DEF LoadLongest

\* A call starts, fails or is interrupted, or the pairs are not concerned.
LEMMA LruBegin ==
  ASSUME KeysDistinct, PInv, PInv', UNCHANGED <<tokenFile, stateFile, order>>,
         stuck => stuck',
         answer' \in {Nothing, Saving, Clearing} \/ UNCHANGED answer
  PROVE  Lru!Next
<1>1. EntryKeys' = EntryKeys
  BY SamePairs DEF PInv
<1>2. Prefixes' = Prefixes
  BY <1>1, ViewSame
<1>3. CASE answer' \in {Nothing, Saving, Clearing}
  <2>1. Reply' = answer'
    BY <1>3 DEF Reply, Nothing, Saving, Clearing
  <2>2. Lru!Begin
    BY <1>2, <1>3, <2>1 DEF Lru!Begin, Lru!Nothing, Lru!Saving, Lru!Clearing,
                            Nothing, Saving, Clearing
  <2> QED BY <2>2 DEF Lru!Next
<1>4. CASE UNCHANGED answer
  <2>1. Reply' = Reply
    BY <1>4 DEF Reply
  <2> QED BY <1>2, <2>1 DEF Lru!Next
<1> QED BY <1>3, <1>4

\* The list while a save is in progress.
LEMMA LruSaving ==
  ASSUME answer = Saving, UNCHANGED answer
  PROVE  Reply = Lru!Saving /\ UNCHANGED Reply
  BY DEF Reply, Saving, Lru!Saving

LEMMA LruRenameState ==
  ASSUME KeysDistinct, PInv, PInv', RenameState
  PROVE  Lru!Next
<1> DEFINE k == Key(saving)
<1>1. /\ pc = "renaming state" /\ stateFile' = [stateFile EXCEPT ![k] = saving]
      /\ UNCHANGED <<tokenFile, order, answer, stuck>>
  BY DEF RenameState
<1>2. saving \in Prompts /\ answer = Saving
  BY <1>1 DEF PInv, Busy
<1>3. k \in Keys /\ PromptOf[k] = saving /\ saving # Absent
  BY <1>2, PromptFacts
<1> HIDE DEF k
<1>4. Reply = Lru!Saving /\ UNCHANGED Reply
  BY <1>1, <1>2, LruSaving
<1>5. /\ stateFile'[k] = saving /\ \A j \in Keys \ {k} : stateFile'[j] = stateFile[j]
  BY <1>1, <1>3 DEF PInv, TypeOK
<1>6. CASE k \in Complete \/ tokenFile[k] = Absent
  <2>1. Complete' = Complete
    BY <1>1, <1>3, <1>5, <1>6 DEF Complete
  <2>2. EntryKeys' = EntryKeys
    BY <1>1, <2>1 DEF EntryKeys
  <2>3. Prefixes' = Prefixes
    BY <2>2, ViewSame
  <2> QED BY <1>1, <1>4, <2>3 DEF Lru!Next
<1>7. CASE k \notin Complete /\ tokenFile[k] # Absent
  <2>1. Complete' = Complete \cup {k}
    BY <1>1, <1>3, <1>5, <1>7 DEF Complete
  <2>2. order \in Seq(Keys) /\ IsInjective(order) /\ k \in Range(order)
    BY <1>3, <1>7 DEF PInv, TypeOK, Listed
  <2>3. PICK i \in 0..Len(Only(order, Complete)) :
          Only(order, Complete \cup {k}) = Insert(Only(order, Complete), i, k)
    <3>1. \A s \in Seq(Keys) : IsInjective(s) /\ k \in Range(s) =>
            \E i \in 0..Len(Only(s, Complete)) :
              Only(s, Complete \cup {k}) = Insert(Only(s, Complete), i, k)
      BY <1>3, <1>7, OnlyInsert
    <3> QED BY <2>2, <3>1
  <2>4. i \in 0..Len(EntryKeys) /\ EntryKeys' = Insert(EntryKeys, i, k)
    BY <1>1, <2>1, <2>3 DEF EntryKeys
  <2>5. Prefixes' = Insert(Prefixes, i, saving) /\ i \in 0..Len(Prefixes)
    BY <1>3, <2>4, ViewInserted
  <2>6. saving \notin Lru!Stored
    <3>1. Lru!Stored = {PromptOf[j] : j \in Complete} /\ Complete \subseteq Keys
      BY View DEF Complete
    <3>2. \A x, y \in Keys : PromptOf[x] = PromptOf[y] => x = y
      BY PromptsDiffer
    <3> QED BY <1>3, <1>7, <3>1, <3>2
  <2>7. Lru!Resurrect(saving)
    BY <1>4, <2>5, <2>6 DEF Lru!Resurrect, Insert
  <2> QED BY <1>1, <1>2, <2>7 DEF Lru!Next
<1> QED BY <1>6, <1>7

LEMMA LruRenameTokens ==
  ASSUME KeysDistinct, PInv, PInv', RenameTokens
  PROVE  Lru!Next
<1> DEFINE k == Key(saving)
<1>1. /\ pc = "renaming tokens" /\ tokenFile' = [tokenFile EXCEPT ![k] = saving]
      /\ order' = Append(Without(order, k), k)
      /\ UNCHANGED <<stateFile, answer, stuck>>
  BY DEF RenameTokens
<1>2. saving \in Prompts /\ answer = Saving /\ stateFile[k] = saving
  BY <1>1 DEF PInv, Busy, Renamed
<1>3. k \in Keys /\ PromptOf[k] = saving /\ saving # Absent
  BY <1>2, PromptFacts
<1> HIDE DEF k
<1>4. Reply = Lru!Saving /\ UNCHANGED Reply
  BY <1>1, <1>2, LruSaving
<1>5. /\ tokenFile'[k] = saving /\ \A j \in Keys \ {k} : tokenFile'[j] = tokenFile[j]
  BY <1>1, <1>3 DEF PInv, TypeOK
<1>6. Complete' = Complete \cup {k}
  BY <1>1, <1>2, <1>3, <1>5 DEF Complete
<1>7. EntryKeys' = Append(Without(EntryKeys, k), k)
  <2>1. order \in Seq(Keys)
    BY DEF PInv, TypeOK
  <2>2. Only(Append(Without(order, k), k), Complete \cup {k})
          = Append(Without(Only(order, Complete), k), k)
    BY <1>3, <2>1, OnlyTouch
  <2> QED BY <1>1, <1>6, <2>2 DEF EntryKeys
<1>8. Prefixes' = Append(Lru!Without(Prefixes, saving), saving)
  <2>1. Prefixes' = Append(Lru!Without(Prefixes, PromptOf[k]), PromptOf[k])
    BY <1>3, <1>7, ViewTouched
  <2> QED BY <1>3, <2>1
<1>9. Lru!Offer(saving)
  BY <1>4, <1>8 DEF Lru!Offer
<1> QED BY <1>1, <1>2, <1>9 DEF Lru!Next

\* A key loses its tokens, or its state.
LEMMA EntryGoes ==
  ASSUME KeysDistinct, PInv, PInv', NEW k \in Keys, Complete' = Complete \ {k},
         order' = Without(order, k) \/ order' = order
  PROVE  Prefixes' = Lru!Without(Prefixes, PromptOf[k])
<1>1. order \in Seq(Keys)
  BY DEF PInv, TypeOK
<1>2. Without(Only(order, Complete), k) = Only(order, Complete \ {k})
  BY <1>1, WithoutOnly
<1>3. Only(Without(order, k), Complete \ {k}) = Only(order, (Complete \ {k}) \ {k})
  BY <1>1, OnlyWithout
<1>4. (Complete \ {k}) \ {k} = Complete \ {k}
  OBVIOUS
<1>5. EntryKeys' = Only(order', Complete \ {k})
  BY DEF EntryKeys
<1>6. EntryKeys' = Without(EntryKeys, k)
  BY <1>2, <1>3, <1>4, <1>5 DEF EntryKeys
<1> QED BY <1>6, ViewGone

LEMMA LruEvictTokens ==
  ASSUME KeysDistinct, PInv, PInv', EvictTokens
  PROVE  Lru!Next
<1> DEFINE v == Victim
<1>1. /\ pc = "evicting" /\ victims # <<>> /\ total > MaxBytes
      /\ UNCHANGED <<stateFile, answer>>
      /\ \/ /\ tokenFile' = [tokenFile EXCEPT ![v] = Absent]
            /\ order' = Without(order, v) /\ stuck' = stuck
         \/ UNCHANGED <<tokenFile, order>> /\ stuck' = TRUE
  BY DEF EvictTokens
<1>2. answer = Saving
  BY <1>1 DEF PInv, Busy
<1>3. Reply = Lru!Saving /\ UNCHANGED Reply
  BY <1>1, <1>2, LruSaving
<1>4. /\ victims \in Seq(Keys) /\ IsInjective(victims) /\ Range(victims) \subseteq Complete
      /\ total = SumOver(Weight, Range(victims))
  BY <1>1 DEF PInv, TypeOK, Counted
<1>5. v \in Complete /\ v \in Keys
  <2>1. Head(victims) \in Range(victims)
    BY <1>1, <1>4, RestFacts
  <2> QED BY <1>4, <2>1 DEF Victim, Complete
<1>6. CASE UNCHANGED <<tokenFile, order>> /\ stuck' = TRUE
  BY <1>1, <1>6, LruBegin
<1>7. CASE /\ tokenFile' = [tokenFile EXCEPT ![v] = Absent]
           /\ order' = Without(order, v) /\ stuck' = stuck
  <2> DEFINE p == PromptOf[v]
  <2>1. Complete' = Complete \ {v}
    BY <1>1, <1>5, <1>7, TokensGo DEF PInv
  <2>2. Prefixes' = Lru!Without(Prefixes, p)
    BY <1>5, <1>7, <2>1, EntryGoes
  <2>3. p \in Lru!Stored
    BY <1>5, View
  <2>4. CASE stuck
    <3> HIDE DEF p
    <3>1. Lru!Evict
      BY <1>3, <2>2, <2>3, <2>4 DEF Lru!Evict
    <3> QED BY <1>7, <3>1 DEF Lru!Next
  <2>5. CASE ~stuck
    <3>1. victims = EntryKeys
      BY <1>1, <2>5 DEF PInv, Exact
    <3>2. /\ Prefixes = Mapped(PromptOf, EntryKeys) /\ Prefixes \in Seq(Prompts)
          /\ IsInjective(Prefixes) /\ IsInjective(EntryKeys) /\ EntryKeys \in Seq(Keys)
      BY View
    <3>3. Lru!Bytes(Prefixes) > MaxBytes
      <4>1. Lru!Bytes(Mapped(PromptOf, EntryKeys)) = SumOver(Weight, Range(EntryKeys))
        BY <3>2, LruBytes
      <4>2. Lru!Bytes(Prefixes) = total
        BY <1>4, <3>1, <3>2, <4>1
      <4> QED BY <1>1, <4>2
    <3>4. Prefixes # <<>> /\ Head(Prefixes) = p
      <4>1. 1 \in DOMAIN victims /\ Head(victims) = victims[1]
        BY <1>1, <1>4, LenProperties, EmptySeq, SeqEqual
      <4>2. DOMAIN Prefixes = DOMAIN victims /\ Prefixes[1] = PromptOf[victims[1]]
        BY <3>1, <3>2, <4>1 DEF Mapped
      <4>3. Prefixes # <<>>
        BY <4>1, <4>2, EmptyFacts DEF Range
      <4>4. Head(Prefixes) = Prefixes[1]
        BY <3>2, <4>3
      <4> QED BY <4>1, <4>2, <4>3, <4>4 DEF Victim
    <3>5. Tail(Prefixes) = Without(Prefixes, p)
      <4>1. Without(Prefixes, Head(Prefixes)) = Tail(Prefixes)
        BY <3>2, <3>4, WithoutHead
      <4> QED BY <3>4, <4>1
    <3> HIDE DEF p
    <3>6. Prefixes' = Tail(Prefixes)
      BY <2>2, <3>5, LruWithout
    <3>7. Lru!Evict
      BY <1>3, <3>3, <3>6 DEF Lru!Evict
    <3> QED BY <1>7, <3>7 DEF Lru!Next
  <2> QED BY <2>4, <2>5
<1> QED BY <1>1, <1>6, <1>7

LEMMA LruEvictState ==
  ASSUME KeysDistinct, PInv, PInv', EvictState
  PROVE  Lru!Next
<1> DEFINE v == Victim
<1>1. /\ pc = "removing state" /\ UNCHANGED <<tokenFile, order, answer>>
      /\ \/ stateFile' = [stateFile EXCEPT ![v] = Absent] /\ stuck' = stuck
         \/ UNCHANGED stateFile /\ stuck' = TRUE
  BY DEF EvictState
<1>2. answer = Saving
  BY <1>1 DEF PInv, Busy
<1>3. Reply = Lru!Saving /\ UNCHANGED Reply
  BY <1>1, <1>2, LruSaving
<1>4. v \in Keys
  <2>1. victims \in Seq(Keys) /\ IsInjective(victims) /\ victims # <<>>
    BY <1>1 DEF PInv, TypeOK, Counted
  <2>2. Head(victims) \in Range(victims) /\ Range(victims) \subseteq Keys
    BY <2>1, RestFacts, WeightSum
  <2> QED BY <2>2 DEF Victim
<1>5. CASE UNCHANGED stateFile /\ stuck' = TRUE
  BY <1>1, <1>5, LruBegin
<1>6. CASE stateFile' = [stateFile EXCEPT ![v] = Absent] /\ stuck' = stuck
  <2> DEFINE p == PromptOf[v]
  <2>1. Complete' = Complete \ {v}
    BY <1>1, <1>4, <1>6, StateGoes DEF PInv
  <2>2. CASE v \notin Complete
    <3>1. Complete' = Complete
      BY <2>1, <2>2
    <3>2. EntryKeys' = EntryKeys
      BY <1>1, <3>1 DEF EntryKeys
    <3>3. Prefixes' = Prefixes
      BY <3>2, ViewSame
    <3> QED BY <1>3, <1>6, <3>3 DEF Lru!Next
  <2>3. CASE v \in Complete
    <3>1. stuck
      BY <1>1, <2>3 DEF PInv, Exact
    <3>2. Prefixes' = Lru!Without(Prefixes, p)
      BY <1>1, <1>4, <2>1, EntryGoes
    <3>3. p \in Lru!Stored
      BY <2>3, View
    <3> HIDE DEF p
    <3>4. Lru!Evict
      BY <1>3, <3>1, <3>2, <3>3 DEF Lru!Evict
    <3> QED BY <1>6, <3>4 DEF Lru!Next
  <2> QED BY <2>2, <2>3
<1> QED BY <1>1, <1>5, <1>6

LEMMA LruEndSave ==
  ASSUME KeysDistinct, PInv, PInv', EndSave
  PROVE  Lru!Next
<1>1. /\ pc = "evicting"
      /\ victims = <<>> \/ total <= MaxBytes
      /\ answer' = [op |-> "save", tokens |-> saving, kept |-> Key(saving) \in Complete]
      /\ UNCHANGED <<tokenFile, stateFile, order, stuck>>
  BY DEF EndSave, files, WithinLimit
<1>2. saving \in Prompts /\ answer = Saving
  BY <1>1 DEF PInv, Busy
<1>3. Reply = Lru!Saving
  BY <1>2 DEF Reply, Saving, Lru!Saving
<1>4. EntryKeys' = EntryKeys
  BY <1>1, SamePairs DEF PInv
<1>5. Prefixes' = Prefixes
  BY <1>4, ViewSame
<1>6. (Key(saving) \in Complete) = (saving \in Lru!Stored)
  <2>1. Lru!Stored = {PromptOf[k] : k \in Complete} /\ Complete \subseteq Keys
    BY View DEF Complete
  <2>2. Key(saving) \in Keys /\ PromptOf[Key(saving)] = saving
    BY <1>2, PromptFacts
  <2>3. \A x, y \in Keys : PromptOf[x] = PromptOf[y] => x = y
    BY PromptsDiffer
  <2>4. Key(saving) \in Complete => saving \in Lru!Stored
    BY <2>1, <2>2
  <2>5. saving \in Lru!Stored => Key(saving) \in Complete
    BY <2>1, <2>2, <2>3
  <2> QED BY <2>4, <2>5
<1>7. Reply' = [op |-> "save", tokens |-> saving, kept |-> saving \in Lru!Stored]
  BY <1>1, <1>6 DEF Reply
<1>8. Lru!Bytes(Prefixes) <= MaxBytes \/ stuck
  <2> SUFFICES ASSUME ~stuck PROVE Lru!Bytes(Prefixes) <= MaxBytes
    OBVIOUS
  <2>1. victims = EntryKeys /\ total = SumOver(Weight, Range(victims))
    BY <1>1 DEF PInv, Exact, Counted
  <2>2. /\ Prefixes = Mapped(PromptOf, EntryKeys) /\ IsInjective(EntryKeys)
        /\ EntryKeys \in Seq(Keys)
    BY View
  <2>3. Lru!Bytes(Mapped(PromptOf, EntryKeys)) = SumOver(Weight, Range(EntryKeys))
    BY <2>2, LruBytes
  <2>4. Lru!Bytes(Prefixes) = total
    BY <2>1, <2>2, <2>3
  <2>5. total <= MaxBytes
    <3>1. CASE victims = <<>>
      <4>1. Range(victims) = {}
        BY <3>1, EmptyFacts
      <4>2. total = 0
        BY <2>1, <4>1, SumOverEmpty
      <4> QED BY <4>2, Bounds
    <3> QED BY <1>1, <3>1
  <2> QED BY <2>4, <2>5
<1>9. Lru!Accept(saving)
  BY <1>3, <1>5, <1>7, <1>8 DEF Lru!Accept, Lru!Saved
<1> QED BY <1>1, <1>2, <1>9 DEF Lru!Next

LEMMA LruClearFile ==
  ASSUME KeysDistinct, PInv, PInv', ClearFile
  PROVE  Lru!Next
<1>1. pc = "clearing" /\ UNCHANGED <<answer, stuck>>
  BY DEF ClearFile
<1>2. answer = Clearing
  BY <1>1 DEF PInv, Busy
<1>3. Reply = Lru!Clearing /\ UNCHANGED Reply
  BY <1>1, <1>2 DEF Reply, Clearing, Lru!Clearing
<1>4. ASSUME NEW k \in Keys, Complete' = Complete \ {k},
             order' = Without(order, k) \/ order' = order
      PROVE  Lru!Next
  <2> DEFINE p == PromptOf[k]
  <2>1. Prefixes' = Lru!Without(Prefixes, p) /\ p \in Prompts
    BY <1>4, EntryGoes, PromptFacts
  <2> HIDE DEF p
  <2>2. Lru!Forget(p)
    BY <1>3, <2>1 DEF Lru!Forget
  <2> QED BY <1>1, <2>1, <2>2 DEF Lru!Next
<1>5. ASSUME NEW k \in Keys, tokenFile' = [tokenFile EXCEPT ![k] = Absent],
             order' = Without(order, k), UNCHANGED <<stateFile, temps>>
      PROVE  Lru!Next
  <2>1. Complete' = Complete \ {k}
    BY <1>5, TokensGo DEF PInv
  <2> QED BY <1>4, <1>5, <2>1
<1>6. ASSUME NEW k \in Keys, stateFile' = [stateFile EXCEPT ![k] = Absent],
             UNCHANGED <<tokenFile, order, temps>>
      PROVE  Lru!Next
  <2>1. Complete' = Complete \ {k}
    BY <1>6, StateGoes DEF PInv
  <2> QED BY <1>4, <1>6, <2>1
<1>7. ASSUME UNCHANGED <<tokenFile, stateFile, order>> PROVE Lru!Next
  BY <1>1, <1>7, LruBegin
<1> QED BY <1>5, <1>6, <1>7 DEF ClearFile

LEMMA LruStep ==
  ASSUME KeysDistinct, PInv, PInv', [Next]_vars
  PROVE  [Lru!Next]_<<Prefixes, Reply, stuck>>
<1>1. CASE \E q \in Queries : LoadLongest(q)
  BY <1>1, LruLoad
<1>2. CASE \E p \in Prompts : BeginSave(p)
  <2>1. UNCHANGED <<tokenFile, stateFile, order, stuck>> /\ answer' = Saving
    BY <1>2 DEF BeginSave, files
  <2> QED BY <2>1, LruBegin
<1>3. CASE WriteState \/ WriteTokens \/ Scan
  <2>1. UNCHANGED <<tokenFile, stateFile, order, stuck, answer>>
    BY <1>3 DEF WriteState, WriteTokens, Scan, files
  <2> QED BY <2>1, LruBegin
<1>4. CASE SaveThrows
  <2>1. UNCHANGED <<tokenFile, stateFile, order>> /\ answer' = Nothing
    BY <1>4 DEF SaveThrows
  <2>2. stuck => stuck'
    BY <1>4 DEF SaveThrows
  <2> QED BY <2>1, <2>2, LruBegin
<1>5. CASE BeginClear \/ EndClear \/ Crash
  <2>1. UNCHANGED <<tokenFile, stateFile, order>> /\ answer' \in {Nothing, Clearing}
    BY <1>5 DEF BeginClear, EndClear, Crash, files
  <2>2. stuck => stuck'
    BY <1>5 DEF BeginClear, EndClear, Crash
  <2> QED BY <2>1, <2>2, LruBegin
<1>6. CASE UNCHANGED vars
  <2>1. UNCHANGED <<tokenFile, stateFile, order, stuck, answer>>
    BY <1>6 DEF vars, files
  <2> QED BY <2>1, LruBegin
<1> QED BY <1>1, <1>2, <1>3, <1>4, <1>5, <1>6, LruRenameState, LruRenameTokens,
           LruEvictTokens, LruEvictState, LruEndSave, LruClearFile DEF Next

\* The files of the directory, changed one at a time, killed and started over
\* at any point, implement the least-recently-used list of PrefixStore: a
\* lookup answers with the longest stored prefix and makes it the newest, the
\* limit takes the oldest, and a save answers within the limit, as long as
\* removals work; and no prefix appears or vanishes otherwise.
THEOREM ImplementsLru == ASSUME KeysDistinct PROVE Spec => LruSpec
<1>1. Init => Lru!Init
  <2> SUFFICES ASSUME Init PROVE Lru!Init
    OBVIOUS
  <2>1. Prefixes = <<>>
    <3>1. EntryKeys = <<>>
      BY OnlyEmpty DEF Init, EntryKeys
    <3>2. PInv
      BY InitPInv
    <3>3. Prefixes = Mapped(PromptOf, <<>>) /\ Prefixes \in Seq(Prompts)
      BY <3>1, <3>2, View
    <3>4. DOMAIN Prefixes = DOMAIN <<>>
      BY <3>3 DEF Mapped
    <3>5. Len(Prefixes) = 0
      BY <3>3, <3>4, LenProperties, EmptyFacts
    <3> QED BY <3>3, <3>5, EmptySeq, SeqEqual
  <2>2. Reply = Lru!Nothing /\ stuck \in BOOLEAN
    BY DEF Init, Reply, Nothing, Lru!Nothing
  <2> QED BY <2>1, <2>2 DEF Lru!Init
<1>2. PInv /\ PInv' /\ [Next]_vars => [Lru!Next]_<<Prefixes, Reply, stuck>>
  BY LruStep
<1>3. Spec => []PInv
  BY PAlways
<1> QED BY <1>1, <1>2, <1>3, PTL DEF Spec, LruSpec, Lru!Spec

=============================================================================
