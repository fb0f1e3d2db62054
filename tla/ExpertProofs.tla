---------------------------- MODULE ExpertProofs ----------------------------
(***************************************************************************)
(* What is proved of the experts: the accounts of the expert cache and the *)
(* rights of its leases, for any keys, sizes, budgets and limits; the      *)
(* slots and readers of the paged store, for any number of experts and     *)
(* slots; and the dispatch of a layer's rows, for any layers and widths.   *)
(***************************************************************************)
EXTENDS ExpertCache, ExpertPaging, MoeDispatch, Sums, FiniteSetTheorems, TLAPS

-----------------------------------------------------------------------------
(* The inductive invariant.                                                *)

\* Uses of finitely many keys, none of them later than t.
WellKept(f, t) ==
  /\ DOMAIN f \subseteq Keys
  /\ IsFiniteSet(DOMAIN f)
  /\ \A k \in DOMAIN f : f[k] \in Usage /\ f[k].last_touch <= t

Scalars ==
  /\ budget \in Budgets
  /\ leases \in [Keys -> 0..MaxLeases]
  /\ operations \in 0..(DecayPeriod - 1)
  /\ tick \in 0..MaxTick
  /\ wanted \in Keys

\* What is resident is counted, and a lease is of a resident entry.
Counted ==
  /\ resident = SumOver(Bytes, Resident)
  /\ \A k \in Keys : leases[k] > 0 => k \in Resident

\* What is being acquired is absent, and a load has the room it was given.
Loading ==
  /\ pending = IF pc = "loading" THEN Bytes[wanted] ELSE 0
  /\ pc \in {"making room", "loading"} => wanted \notin Resident
  /\ pc = "loading" => resident + Bytes[wanted] <= budget

EInv ==
  /\ Scalars
  /\ WellKept(entries, tick)
  /\ WellKept(history, tick)
  /\ HistoryBounded
  /\ Counted
  /\ Loading

-----------------------------------------------------------------------------
(* Operators.                                                              *)

LEMMA BumpedFits ==
  ASSUME NEW n \in 1..MaxFrequency
  PROVE  Bumped(n) \in 1..MaxFrequency
  BY ExpertCacheAssumption DEF Bumped

LEMMA NextTickFits ==
  ASSUME tick \in 0..MaxTick
  PROVE  NextTick \in 1..MaxTick
  BY ExpertCacheAssumption DEF NextTick, Wraps

LEMMA ModFits ==
  ASSUME NEW x \in Nat, NEW d \in Nat \ {0}
  PROVE  x % d \in 0..(d - 1)
  OBVIOUS

LEMMA UsageParts ==
  ASSUME NEW u \in Usage
  PROVE  u.frequency \in 1..MaxFrequency /\ u.last_touch \in 0..MaxTick
  BY DEF Usage

LEMMA DecayedKept ==
  ASSUME NEW f, NEW t, WellKept(f, t)
  PROVE  WellKept(Decayed(f), t) /\ DOMAIN Decayed(f) = DOMAIN f
<1>1. DOMAIN Decayed(f) = DOMAIN f
  BY DEF Decayed
<1>2. ASSUME NEW k \in DOMAIN f
      PROVE  Decayed(f)[k] \in Usage /\ Decayed(f)[k].last_touch <= t
  <2>1. f[k] \in Usage /\ f[k].last_touch <= t
    BY DEF WellKept
  <2> DEFINE n == f[k].frequency
             m == (n \div 2) + (n % 2)
  <2>2. n \in 1..MaxFrequency
    BY <2>1 DEF Usage
  <2>3. m \in 1..MaxFrequency
    BY <2>2, ExpertCacheAssumption
  <2>4. Decayed(f)[k] = [f[k] EXCEPT !.frequency = m]
    BY DEF Decayed
  <2> HIDE DEF m, n
  <2> QED BY <2>1, <2>3, <2>4 DEF Usage
<1> QED BY <1>1, <1>2 DEF WellKept

LEMMA AgedKept ==
  ASSUME NEW f, tick \in 0..MaxTick, WellKept(f, tick)
  PROVE  /\ DOMAIN Aged(f) = DOMAIN f
         /\ WellKept(Aged(f), NextTick)
         /\ \A k \in DOMAIN f : Aged(f)[k].last_touch < NextTick
<1>0. NextTick \in 1..MaxTick /\ MaxTick \in Nat
  BY NextTickFits, ExpertCacheAssumption
<1>1. DOMAIN Aged(f) = DOMAIN f
  BY DEF Aged, Halved
<1>2. ASSUME NEW k \in DOMAIN f
      PROVE  Aged(f)[k] \in Usage /\ Aged(f)[k].last_touch < NextTick
  <2>1. f[k] \in Usage /\ f[k].last_touch <= tick
    BY DEF WellKept
  <2> DEFINE n == f[k].last_touch
  <2>2. n \in 0..MaxTick /\ n <= tick
    BY <2>1 DEF Usage
  <2>3. CASE Wraps
    <3>1. Aged(f)[k] = [f[k] EXCEPT !.last_touch = n \div 2]
      BY <2>3 DEF Aged, Halved
    <3>2. n \div 2 \in 0..MaxTick /\ n \div 2 < NextTick
      BY <1>0, <2>2, <2>3 DEF NextTick
    <3> HIDE DEF n
    <3> QED BY <2>1, <3>1, <3>2 DEF Usage
  <2>4. CASE ~Wraps
    BY <1>0, <2>1, <2>2, <2>4 DEF Aged, NextTick
  <2> QED BY <2>3, <2>4
<1>3. ASSUME NEW k \in DOMAIN f PROVE Aged(f)[k].last_touch <= NextTick
  <2>1. Aged(f)[k].last_touch \in Nat
    BY <1>2 DEF Usage
  <2> QED BY <1>0, <1>2, <2>1
<1> QED BY <1>1, <1>2, <1>3 DEF WellKept

LEMMA WithKept ==
  ASSUME NEW f, NEW t, WellKept(f, t), NEW k \in Keys,
         NEW u \in Usage, u.last_touch <= t
  PROVE  /\ DOMAIN With(f, k, u) = DOMAIN f \cup {k}
         /\ WellKept(With(f, k, u), t)
<1>1. DOMAIN With(f, k, u) = DOMAIN f \cup {k}
  BY DEF With
<1>2. IsFiniteSet(DOMAIN f \cup {k})
  BY FS_AddElement DEF WellKept
<1>3. \A j \in DOMAIN f \cup {k} :
         With(f, k, u)[j] = IF j = k THEN u ELSE f[j]
  BY DEF With
<1> QED BY <1>1, <1>2, <1>3 DEF WellKept

LEMMA WithoutKept ==
  ASSUME NEW f, NEW t, WellKept(f, t), NEW k
  PROVE  /\ DOMAIN Forgetting(f, k) = DOMAIN f \ {k}
         /\ WellKept(Forgetting(f, k), t)
<1>1. DOMAIN Forgetting(f, k) = DOMAIN f \ {k}
  BY DEF Forgetting
<1>2. IsFiniteSet(DOMAIN f \ {k})
  BY FS_RemoveElement DEF WellKept
<1>3. \A j \in DOMAIN f \ {k} : Forgetting(f, k)[j] = f[j]
  BY DEF Forgetting
<1> QED BY <1>1, <1>2, <1>3 DEF WellKept

LEMMA NothingKept ==
  ASSUME NEW t PROVE WellKept(<<>>, t) /\ DOMAIN <<>> = {}
  BY FS_EmptySet DEF WellKept

\* Wherever there are candidates, one of them is a victim.
LEMMA VictimExists ==
  ASSUME WellKept(entries, tick), Idle # {}
  PROVE  Victims # {}
<1>1. ASSUME NEW k \in Idle
      PROVE  entries[k].frequency \in Nat /\ entries[k].last_touch \in Nat
  BY DEF Idle, Resident, WellKept, Usage
<1> DEFINE F == {entries[k].frequency : k \in Idle}
<1>2. PICK m \in F : \A n \in F : m <= n
  BY <1>1, NatMinimum
<1> DEFINE L == {k \in Idle : entries[k].frequency = m}
           T == {entries[k].last_touch : k \in L}
<1>3. T # {} /\ T \subseteq Nat
  BY <1>1
<1>4. PICK t \in T : \A n \in T : t <= n
  BY <1>3, NatMinimum
<1>5. PICK k \in L : entries[k].last_touch = t
  OBVIOUS
<1>6. ASSUME NEW j \in Idle
      PROVE  \/ entries[k].frequency < entries[j].frequency
             \/ /\ entries[k].frequency = entries[j].frequency
                /\ entries[k].last_touch <= entries[j].last_touch
  <2>1. entries[k].frequency = m /\ m \in Nat /\ m <= entries[j].frequency
    BY <1>1, <1>2
  <2>2. CASE entries[j].frequency = m
    BY <1>4, <1>5, <2>1, <2>2
  <2>3. CASE entries[j].frequency # m
    BY <1>1, <2>1, <2>3
  <2> QED BY <2>2, <2>3
<1>7. k \in Victims
  BY <1>6 DEF Victims, Candidates
<1> QED BY <1>7

LEMMA BytesOf == ASSUME NEW k \in Keys PROVE Bytes[k] \in Nat /\ Bytes[k] > 0
  BY ExpertCacheAssumption

LEMMA ResidentNat ==
  ASSUME WellKept(entries, tick), Counted
  PROVE  resident \in Nat
<1>1. \A k \in Resident : Bytes[k] \in Nat
  BY BytesOf DEF WellKept, Resident
<1> QED BY <1>1, SumOverNat DEF WellKept, Resident, Counted

-----------------------------------------------------------------------------
(* Evictions.                                                              *)

\* The history makes room without forgetting how to count.
LEMMA RoomMade ==
  ASSUME WellKept(history, tick), HistoryBounded, HistoryLimit # 0,
         NEW h \in RoomInHistory
  PROVE  /\ WellKept(h, tick)
         /\ DOMAIN h \subseteq DOMAIN history
         /\ Cardinality(DOMAIN h) \in Nat
         /\ Cardinality(DOMAIN h) < HistoryLimit
<1>0. /\ IsFiniteSet(DOMAIN history)
      /\ Cardinality(DOMAIN history) \in Nat
      /\ Cardinality(DOMAIN history) <= HistoryLimit
      /\ HistoryLimit \in Nat
  BY FS_CardinalityType, ExpertCacheAssumption DEF WellKept, HistoryBounded
<1>1. CASE Cardinality(DOMAIN history) < HistoryLimit
  <2>1. h = history
    BY <1>1 DEF RoomInHistory
  <2> QED BY <1>0, <1>1, <2>1
<1>2. CASE ~(Cardinality(DOMAIN history) < HistoryLimit)
  <2>1. PICK k \in DOMAIN history : h = Forgetting(history, k)
    BY <1>2 DEF RoomInHistory
  <2>2. WellKept(h, tick) /\ DOMAIN h = DOMAIN history \ {k}
    BY <2>1, WithoutKept
  <2>3. Cardinality(DOMAIN history \ {k}) = Cardinality(DOMAIN history) - 1
    BY <1>0, FS_RemoveElement
  <2>4. Cardinality(DOMAIN h) \in Nat
    BY <2>2, FS_CardinalityType DEF WellKept
  <2> QED BY <1>0, <2>2, <2>3, <2>4
<1> QED BY <1>1, <1>2

\* An idle entry moves to the history, or is forgotten, and its bytes go.
LEMMA Evicted ==
  ASSUME EInv, EvictOne
  PROVE  /\ WellKept(entries', tick)
         /\ WellKept(history', tick)
         /\ HistoryBounded'
         /\ resident' = SumOver(Bytes, DOMAIN entries')
         /\ resident' \in Nat /\ resident' < resident
         /\ DOMAIN entries' \subseteq Resident
         /\ \A k \in Keys : leases[k] > 0 => k \in DOMAIN entries'
<1>1. PICK k \in Victims :
        /\ IF HistoryLimit = 0 THEN UNCHANGED history
           ELSE \E h \in RoomInHistory : history' = With(h, k, entries[k])
        /\ entries' = Forgetting(entries, k)
        /\ resident' = resident - Bytes[k]
  BY DEF EvictOne
<1>2. k \in Resident /\ leases[k] = 0 /\ k \in Keys
  BY DEF Victims, Candidates, Idle, EInv, WellKept, Resident
<1>3. WellKept(entries', tick) /\ DOMAIN entries' = Resident \ {k}
  BY <1>1, WithoutKept DEF EInv, Resident
<1>4. \A j \in Resident : Bytes[j] \in Nat
  BY BytesOf DEF EInv, WellKept, Resident
<1>5. resident = Bytes[k] + SumOver(Bytes, Resident \ {k})
  BY <1>2, <1>4, SumOverRemove DEF EInv, WellKept, Counted, Resident
<1>6. SumOver(Bytes, Resident \ {k}) \in Nat
  <2>1. IsFiniteSet(Resident \ {k}) /\ \A j \in Resident \ {k} : Bytes[j] \in Nat
    BY <1>3, <1>4 DEF WellKept
  <2> QED BY <2>1, SumOverNat
<1>7. /\ resident' = SumOver(Bytes, DOMAIN entries')
      /\ resident' \in Nat /\ resident' < resident
  BY <1>1, <1>2, <1>3, <1>5, <1>6, BytesOf
<1>8. \A j \in Keys : leases[j] > 0 => j \in DOMAIN entries'
  BY <1>2, <1>3 DEF EInv, Counted, Scalars
<1>9. WellKept(history', tick) /\ HistoryBounded'
  <2>1. CASE HistoryLimit = 0
    <3>1. history' = history
      BY <1>1, <2>1
    <3> QED BY <1>3, <3>1 DEF EInv, HistoryBounded, Resident
  <2>2. CASE HistoryLimit # 0
    <3>1. PICK h \in RoomInHistory : history' = With(h, k, entries[k])
      BY <1>1, <2>2
    <3>2. /\ WellKept(h, tick)
          /\ DOMAIN h \subseteq DOMAIN history
          /\ Cardinality(DOMAIN h) \in Nat
          /\ Cardinality(DOMAIN h) < HistoryLimit
      BY <2>2, RoomMade DEF EInv
    <3>3. entries[k] \in Usage /\ entries[k].last_touch <= tick
      BY <1>2 DEF EInv, WellKept, Resident
    <3>4. WellKept(history', tick) /\ DOMAIN history' = DOMAIN h \cup {k}
      BY <1>2, <3>1, <3>2, <3>3, WithKept
    <3>5. k \notin DOMAIN h
      BY <1>2, <3>2 DEF EInv, HistoryBounded
    <3>6. Cardinality(DOMAIN h \cup {k}) = Cardinality(DOMAIN h) + 1
      BY <3>2, <3>5, FS_AddElement DEF WellKept
    <3>7. Cardinality(DOMAIN history') <= HistoryLimit
      BY <3>2, <3>4, <3>6, ExpertCacheAssumption
    <3>8. DOMAIN history' \cap DOMAIN entries' = {}
      BY <1>3, <3>2, <3>4 DEF EInv, HistoryBounded
    <3> QED BY <3>4, <3>7, <3>8 DEF HistoryBounded, Resident
  <2> QED BY <2>1, <2>2
<1> QED BY <1>3, <1>7, <1>8, <1>9

-----------------------------------------------------------------------------
(* Every action keeps the invariant.                                       *)

LEMMA EInvInit == Init => EInv
<1> SUFFICES ASSUME Init PROVE EInv
  OBVIOUS
<1>1. entries = <<>> /\ history = <<>> /\ Resident = {}
  BY NothingKept DEF Init, Resident
<1>2. WellKept(entries, tick) /\ WellKept(history, tick)
  BY <1>1, NothingKept
<1>3. HistoryBounded
  <2>1. DOMAIN history = {}
    BY <1>1, NothingKept
  <2> QED BY <1>1, <2>1, FS_EmptySet, ExpertCacheAssumption DEF HistoryBounded
<1>4. Scalars
  BY ExpertCacheAssumption DEF Init, Scalars
<1>5. Counted
  BY <1>1, SumOverEmpty DEF Init, Counted
<1>6. Loading
  BY DEF Init, Loading
<1> QED BY <1>2, <1>3, <1>4, <1>5, <1>6 DEF EInv

\* Steps that move neither entries nor leases.
LEMMA QuietSteps ==
  ASSUME EInv,
         \/ Refuse \/ StartLoad \/ Reenter \/ LoadFails \/ BeginClear
         \/ \E bytes \in Budgets : SetBudget(bytes)
  PROVE  EInv'
<1>1. UNCHANGED <<entries, history, leases, operations, tick, resident, wanted>>
  BY DEF Refuse, StartLoad, Reenter, LoadFails, BeginClear, SetBudget
<1>2. Resident' = Resident
  BY <1>1 DEF Resident
<1>3. WellKept(entries, tick)' /\ WellKept(history, tick)'
  BY <1>1 DEF EInv
<1>4. HistoryBounded'
  BY <1>1, <1>2 DEF EInv, HistoryBounded
<1>5. Scalars'
  <2>1. budget' \in Budgets
    BY DEF EInv, Scalars, Refuse, StartLoad, Reenter, LoadFails, BeginClear,
           SetBudget
  <2> QED BY <1>1, <2>1 DEF EInv, Scalars
<1>6. Counted'
  BY <1>1, <1>2 DEF EInv, Counted
<1>7. Bytes[wanted] \in Nat
  BY BytesOf DEF EInv, Scalars
<1>8. Loading'
  <2>1. CASE Refuse
    BY <1>1, <1>2, <2>1 DEF EInv, Loading, Refuse
  <2>2. CASE StartLoad
    <3>1. pending' = 0 + Bytes[wanted] /\ pc' = "loading" /\ budget' = budget
      BY <2>2 DEF EInv, Loading, StartLoad
    <3>2. wanted \notin Resident /\ resident + Bytes[wanted] <= budget
      BY <2>2 DEF EInv, Loading, StartLoad, Fits
    <3> QED BY <1>1, <1>2, <1>7, <3>1, <3>2 DEF Loading
  <2>3. CASE Reenter
    BY <1>1, <1>2, <2>3 DEF EInv, Loading, Reenter
  <2>4. CASE LoadFails
    <3>1. pending' = Bytes[wanted] - Bytes[wanted] /\ pc' = "idle"
      BY <2>4 DEF EInv, Loading, LoadFails
    <3> QED BY <1>1, <1>7, <3>1 DEF Loading
  <2>5. CASE BeginClear
    BY <1>1, <1>2, <2>5 DEF EInv, Loading, BeginClear
  <2>6. CASE \E bytes \in Budgets : SetBudget(bytes)
    BY <1>1, <1>2, <2>6 DEF EInv, Loading, SetBudget
  <2> QED BY <2>1, <2>2, <2>3, <2>4, <2>5, <2>6
<1> QED BY <1>3, <1>4, <1>5, <1>6, <1>8 DEF EInv

\* Steps that evict: make_room, trim and clear.
LEMMA EvictingSteps ==
  ASSUME EInv, MakeRoom \/ Trim \/ Clear
  PROVE  EInv'
<1>1. /\ UNCHANGED <<budget, leases, operations, tick, pending, wanted>>
      /\ pc # "loading" /\ pc' # "loading"
      /\ pc' = "making room" => pc = "making room"
  BY DEF MakeRoom, Trim, Clear
<1>2. Scalars'
  BY <1>1 DEF EInv, Scalars
<1>3. \/ EvictOne
      \/ UNCHANGED <<entries, resident>> /\ history' \in {history, <<>>}
  BY DEF MakeRoom, Trim, Clear
<1>4. CASE EvictOne
  <2>1. /\ WellKept(entries', tick)
        /\ WellKept(history', tick)
        /\ HistoryBounded'
        /\ resident' = SumOver(Bytes, DOMAIN entries')
        /\ DOMAIN entries' \subseteq Resident
        /\ \A k \in Keys : leases[k] > 0 => k \in DOMAIN entries'
    BY <1>4, Evicted
  <2>2. Counted'
    BY <1>1, <2>1 DEF Counted, Resident
  <2>3. Loading'
    BY <1>1, <2>1 DEF EInv, Loading, Resident
  <2> QED BY <1>1, <1>2, <2>1, <2>2, <2>3 DEF EInv
<1>5. CASE UNCHANGED <<entries, resident>> /\ history' \in {history, <<>>}
  <2>1. Resident' = Resident
    BY <1>5 DEF Resident
  <2>2. WellKept(entries, tick)' /\ WellKept(history, tick)'
    BY <1>1, <1>5, NothingKept DEF EInv
  <2>3. HistoryBounded'
    <3>1. CASE history' = history
      BY <2>1, <3>1 DEF EInv, HistoryBounded
    <3>2. CASE history' = <<>>
      <4>1. DOMAIN history' = {}
        BY <3>2, NothingKept
      <4> QED BY <4>1, FS_EmptySet, ExpertCacheAssumption DEF HistoryBounded
    <3> QED BY <1>5, <3>1, <3>2
  <2>4. Counted' /\ Loading'
    BY <1>1, <1>5, <2>1 DEF EInv, Counted, Loading
  <2> QED BY <1>2, <2>2, <2>3, <2>4 DEF EInv
<1> QED BY <1>3, <1>4, <1>5

LEMMA ReleaseKeeps ==
  ASSUME EInv, NEW k \in Keys, Release(k)
  PROVE  EInv'
<1>1. UNCHANGED <<budget, entries, history, operations, tick, resident, pending,
                  pc, wanted>>
  BY DEF Release
<1>2. Resident' = Resident
  BY <1>1 DEF Resident
<1>3. /\ leases' \in [Keys -> 0..MaxLeases]
      /\ \A j \in Keys : leases'[j] > 0 => leases[j] > 0
  BY ExpertCacheAssumption DEF Release, EInv, Scalars
<1>4. Scalars'
  BY <1>1, <1>3 DEF EInv, Scalars
<1>5. Counted'
  BY <1>1, <1>2, <1>3 DEF EInv, Counted
<1> QED BY <1>1, <1>2, <1>4, <1>5 DEF EInv, HistoryBounded, Loading

\* A loaded entry enters, pinned and newer than all others.
LEMMA LoadedKeeps ==
  ASSUME EInv, Loaded
  PROVE  /\ EInv'
         /\ resident' <= budget
         /\ \A j \in DOMAIN entries' \ {wanted} :
              entries'[j].last_touch < entries'[wanted].last_touch
<1> DEFINE past == IF wanted \in DOMAIN history
                   THEN Bumped(history[wanted].frequency) ELSE 1
           u == [frequency |-> past, last_touch |-> NextTick]
           aged == Aged(entries)
<1>1. /\ pc = "loading" /\ wanted \in Keys /\ wanted \notin Resident
      /\ entries' = With(aged, wanted, u)
      /\ history' = Forgetting(Aged(history), wanted)
      /\ tick' = NextTick
      /\ leases' = [leases EXCEPT ![wanted] = 1]
      /\ pending' = pending - Bytes[wanted]
      /\ resident' = resident + Bytes[wanted]
      /\ pc' = "idle"
      /\ UNCHANGED <<budget, operations, wanted>>
  BY DEF EInv, Scalars, Loading, Loaded
<1>2. NextTick \in 1..MaxTick /\ tick \in 0..MaxTick /\ MaxTick \in Nat
  BY NextTickFits, ExpertCacheAssumption DEF EInv, Scalars
<1>3. u \in Usage /\ u.last_touch = NextTick
  <2>1. past \in 1..MaxFrequency
    BY BumpedFits, UsageParts, ExpertCacheAssumption DEF EInv, WellKept
  <2> HIDE DEF past
  <2> QED BY <1>2, <2>1 DEF Usage
<1> HIDE DEF u
<1>4. /\ DOMAIN aged = Resident
      /\ WellKept(aged, NextTick)
      /\ \A k \in Resident : aged[k].last_touch < NextTick
  BY <1>2, AgedKept DEF EInv, Resident
<1>5. /\ DOMAIN Aged(history) = DOMAIN history
      /\ WellKept(Aged(history), NextTick)
  BY <1>2, AgedKept DEF EInv
<1> HIDE DEF aged
<1>6. DOMAIN entries' = Resident \cup {wanted} /\ WellKept(entries', NextTick)
  <2>1. u.last_touch <= NextTick
    BY <1>2, <1>3
  <2>2. DOMAIN With(aged, wanted, u) = DOMAIN aged \cup {wanted}
    BY <1>1, <1>3, <1>4, <2>1, WithKept
  <2>3. WellKept(With(aged, wanted, u), NextTick)
    BY <1>1, <1>3, <1>4, <2>1, WithKept
  <2> QED BY <1>1, <1>4, <2>2, <2>3
<1>7. /\ DOMAIN history' = DOMAIN history \ {wanted}
      /\ WellKept(history', NextTick)
  BY <1>1, <1>5, WithoutKept
<1>8. HistoryBounded'
  <2>1. IsFiniteSet(DOMAIN history) /\ Cardinality(DOMAIN history) <= HistoryLimit
    BY DEF EInv, WellKept, HistoryBounded
  <2>2. /\ Cardinality(DOMAIN history') <= Cardinality(DOMAIN history)
        /\ Cardinality(DOMAIN history') \in Nat
        /\ Cardinality(DOMAIN history) \in Nat
    BY <1>7, <2>1, FS_Subset, FS_CardinalityType DEF WellKept
  <2>3. DOMAIN history' \cap DOMAIN entries' = {}
    BY <1>6, <1>7 DEF EInv, HistoryBounded
  <2> QED BY <2>1, <2>2, <2>3, ExpertCacheAssumption DEF HistoryBounded, Resident
<1>9. Bytes[wanted] \in Nat /\ resident \in Nat /\ budget \in Nat
  BY BytesOf, ResidentNat, ExpertCacheAssumption DEF EInv, Scalars
<1>10. Counted'
  <2>1. /\ IsFiniteSet(Resident)
        /\ \A k \in Resident : Bytes[k] \in Nat
    BY BytesOf DEF EInv, WellKept, Resident
  <2>2. SumOver(Bytes, Resident \cup {wanted})
          = Bytes[wanted] + SumOver(Bytes, Resident)
    BY <1>1, <1>9, <2>1, SumOverAdd
  <2>3. resident' = SumOver(Bytes, DOMAIN entries')
    BY <1>1, <1>6, <1>9, <2>2 DEF EInv, Counted
  <2>4. \A k \in Keys : leases'[k] > 0 => k \in DOMAIN entries'
    BY <1>1, <1>6 DEF EInv, Counted, Scalars
  <2> QED BY <2>3, <2>4 DEF Counted, Resident
<1>11. Scalars'
  <2>1. leases' \in [Keys -> 0..MaxLeases]
    BY <1>1, ExpertCacheAssumption DEF EInv, Scalars
  <2> QED BY <1>1, <1>2, <2>1 DEF EInv, Scalars
<1>12. Loading'
  BY <1>1, <1>9 DEF EInv, Loading
<1>13. resident' <= budget
  BY <1>1, <1>9 DEF EInv, Loading
<1>14. ASSUME NEW j \in DOMAIN entries' \ {wanted}
       PROVE  entries'[j].last_touch < entries'[wanted].last_touch
  <2>1. entries'[wanted] = u
    BY <1>1 DEF With
  <2>2. j \in Resident /\ entries'[j] = aged[j]
    BY <1>1, <1>4, <1>6 DEF With
  <2> QED BY <1>3, <1>4, <2>1, <2>2
<1> QED BY <1>1, <1>6, <1>7, <1>8, <1>10, <1>11, <1>12, <1>13, <1>14 DEF EInv

\* A hit pins its entry and makes it the newest; a miss or a refusal only
\* counts an operation.
LEMMA AcquireKeeps ==
  ASSUME EInv, NEW k \in Keys, NEW valid \in BOOLEAN, Acquire(k, valid)
  PROVE  /\ EInv'
         /\ pc = "idle" /\ resident' = resident
         /\ DOMAIN entries' = Resident
         /\ tick' # tick =>
              /\ k \in Resident
              /\ \A j \in Resident \ {k} :
                   entries'[j].last_touch < entries'[k].last_touch
<1> DEFINE decay(f) == IF operations' = 0 THEN Decayed(f) ELSE f
           e == decay(entries)
           h == decay(history)
           Found == /\ k \in Resident /\ valid
                    /\ leases[k] < MaxLeases
                    /\ entries' = [Aged(e) EXCEPT ![k].frequency = Bumped(@),
                                                  ![k].last_touch = NextTick]
                    /\ history' = Aged(h)
                    /\ tick' = NextTick
                    /\ leases' = [leases EXCEPT ![k] = @ + 1]
                    /\ UNCHANGED <<pc, wanted>>
           Lost == /\ entries' = e
                   /\ history' = h
                   /\ UNCHANGED <<tick, leases>>
                   /\ \/ UNCHANGED <<pc, wanted>>
                      \/ k \notin Resident /\ wanted' = k /\ pc' = "making room"
<1>1. /\ pc = "idle"
      /\ operations' = (operations + 1) % DecayPeriod
      /\ Found \/ Lost
      /\ UNCHANGED <<budget, resident, pending>>
  BY DEF Acquire
<1>2. DOMAIN e = Resident /\ WellKept(e, tick)
  BY DecayedKept DEF EInv, Resident
<1>3. DOMAIN h = DOMAIN history /\ WellKept(h, tick)
  BY DecayedKept DEF EInv
<1>4. operations' \in 0..(DecayPeriod - 1)
  <2>1. operations + 1 \in Nat /\ DecayPeriod \in Nat \ {0}
    BY ExpertCacheAssumption DEF EInv, Scalars
  <2> QED BY <1>1, <2>1, ModFits
<1> HIDE DEF e, h
<1>5. CASE Lost
  <2>1. Resident' = Resident /\ DOMAIN history' = DOMAIN history
    BY <1>2, <1>3, <1>5 DEF Resident
  <2>2. HistoryBounded'
    BY <2>1 DEF EInv, HistoryBounded
  <2>3. Scalars'
    BY <1>1, <1>4, <1>5 DEF EInv, Scalars
  <2>4. Counted'
    BY <1>1, <1>5, <2>1 DEF EInv, Counted
  <2>5. Loading'
    BY <1>1, <1>5, <2>1 DEF EInv, Loading
  <2>6. WellKept(entries, tick)' /\ WellKept(history, tick)'
    BY <1>2, <1>3, <1>5
  <2>7. DOMAIN entries' = Resident
    BY <2>1 DEF Resident
  <2> QED BY <1>1, <1>5, <2>2, <2>3, <2>4, <2>5, <2>6, <2>7 DEF EInv
<1>6. CASE Found
  <2>1. NextTick \in 1..MaxTick /\ tick \in 0..MaxTick /\ MaxTick \in Nat
    BY NextTickFits, ExpertCacheAssumption DEF EInv, Scalars
  <2> DEFINE a == Aged(e)
  <2>2. /\ DOMAIN a = Resident
        /\ WellKept(a, NextTick)
        /\ \A j \in Resident : a[j].last_touch < NextTick
    BY <1>2, <2>1, AgedKept
  <2>3. DOMAIN history' = DOMAIN history /\ WellKept(history', NextTick)
    BY <1>3, <1>6, <2>1, AgedKept
  <2>4. entries' = [a EXCEPT ![k].frequency = Bumped(@), ![k].last_touch = NextTick]
    BY <1>6
  <2> HIDE DEF a
  <2>5. DOMAIN entries' = Resident
    BY <2>2, <2>4
  <2>6. a[k] \in Usage /\ k \in Resident
    BY <1>6, <2>2 DEF WellKept
  <2>7. entries'[k] = [a[k] EXCEPT !.frequency = Bumped(@), !.last_touch = NextTick]
    BY <2>2, <2>4, <2>6
  <2>8. entries'[k] \in Usage /\ entries'[k].last_touch = NextTick
    <3>1. Bumped(a[k].frequency) \in 1..MaxFrequency
      BY <2>6, UsageParts, BumpedFits
    <3>2. a[k] \in [frequency : 1..MaxFrequency, last_touch : 0..MaxTick]
      BY <2>6 DEF Usage
    <3>3. entries'[k] = [frequency |-> Bumped(a[k].frequency), last_touch |-> NextTick]
      <4> HIDE DEF Bumped
      <4> QED BY <2>7, <3>2
    <3>4. NextTick \in 0..MaxTick
      BY <2>1
    <3> QED BY <3>1, <3>3, <3>4 DEF Usage
  <2>9. \A j \in Resident \ {k} : entries'[j] = a[j]
    BY <2>2, <2>4
  <2>10. WellKept(entries', NextTick)
    <3>1. ASSUME NEW j \in Resident
          PROVE  entries'[j] \in Usage /\ entries'[j].last_touch <= NextTick
      <4>1. CASE j = k
        BY <2>1, <2>8, <4>1
      <4>2. CASE j # k
        BY <2>2, <2>9, <4>2 DEF WellKept
      <4> QED BY <4>1, <4>2
    <3> QED BY <2>2, <2>5, <3>1 DEF WellKept
  <2>11. \A j \in Resident \ {k} :
            entries'[j].last_touch < entries'[k].last_touch
    BY <2>2, <2>8, <2>9
  <2>12. HistoryBounded'
    BY <2>3, <2>5 DEF EInv, HistoryBounded, Resident
  <2>13. /\ leases' \in [Keys -> 0..MaxLeases]
         /\ \A j \in Keys : leases'[j] > 0 => j \in Resident
    BY <1>6, ExpertCacheAssumption DEF EInv, Scalars, Counted
  <2>14. Scalars'
    BY <1>1, <1>4, <1>6, <2>1, <2>13 DEF EInv, Scalars
  <2>15. Counted'
    BY <1>1, <2>5, <2>13 DEF EInv, Counted, Resident
  <2>16. Loading'
    BY <1>1, <1>6, <2>5 DEF EInv, Loading, Resident
  <2> QED BY <1>1, <1>6, <2>3, <2>5, <2>6, <2>10, <2>11, <2>12, <2>14, <2>15, <2>16
          DEF EInv
<1> QED BY <1>1, <1>5, <1>6

LEMMA EInvNext == EInv /\ [Next]_vars => EInv'
<1> SUFFICES ASSUME EInv, [Next]_vars PROVE EInv'
  OBVIOUS
<1>1. CASE UNCHANGED vars
  BY <1>1 DEF vars, EInv, Scalars, WellKept, HistoryBounded, Counted, Loading,
              Resident
<1>2. ASSUME NEW k \in Keys, NEW valid \in BOOLEAN, Acquire(k, valid) PROVE EInv'
  BY <1>2, AcquireKeeps
<1>3. CASE Loaded
  BY <1>3, LoadedKeeps
<1>4. ASSUME NEW k \in Keys, Release(k) PROVE EInv'
  BY <1>4, ReleaseKeeps
<1>5. CASE MakeRoom \/ Trim \/ Clear
  BY <1>5, EvictingSteps
<1>6. CASE \/ Refuse \/ StartLoad \/ Reenter \/ LoadFails \/ BeginClear
           \/ \E bytes \in Budgets : SetBudget(bytes)
  BY <1>6, QuietSteps
<1> QED BY <1>1, <1>2, <1>3, <1>4, <1>5, <1>6 DEF Next

-----------------------------------------------------------------------------
(* The theorems.                                                           *)

\* What the cache holds is what its counters say, whatever was loaded, evicted,
\* refused or failed (ExpertCache::acquire, evict_one, set_budget, clear):
\* resident_bytes_ is the sum of the entries, pending_bytes_ the entry being
\* loaded, and no key is both resident and remembered.
THEOREM AccountsAlwaysTrue == Spec => []AccountsTrue
<1>1. EInv => AccountsTrue
  <2> SUFFICES ASSUME EInv PROVE AccountsTrue
    OBVIOUS
  <2>1. TypeOK
    BY DEF EInv, Scalars, WellKept, TypeOK, Resident
  <2>2. SumOver(Bytes, Resident) = MapThenSumSet(LAMBDA k : Bytes[k], Resident)
    BY DEF SumOver, MapThenSumSet, MapThenFoldSet
  <2>3. BytesAccounted
    <3>1. resident = SumOver(Bytes, Resident)
      BY DEF EInv, Counted
    <3>2. pending = IF pc = "loading" THEN Bytes[wanted] ELSE 0
      BY DEF EInv, Loading
    <3> QED BY <3>1, <3>2 DEF BytesAccounted, SumOver, MapThenSumSet, MapThenFoldSet
  <2>4. HistoryBounded
    BY DEF EInv
  <2> QED BY <2>1, <2>3, <2>4 DEF AccountsTrue
<1> QED BY <1>1, EInvInit, EInvNext, PTL DEF Spec

Leased == SumOver(Bytes, {k \in Keys : leases[k] > 0})

\* Leased bytes are resident bytes; with nothing to evict they are all of them.
LEMMA LeasedBytes ==
  ASSUME EInv
  PROVE  /\ Leased \in Nat /\ resident \in Nat /\ Leased <= resident
         /\ Victims = {} => Leased = resident
<1> DEFINE L == {k \in Keys : leases[k] > 0}
<1>1. L \in SUBSET Resident
  BY DEF EInv, Counted
<1>2. IsFiniteSet(Resident) /\ \A k \in Resident : Bytes[k] \in Nat
  BY BytesOf DEF EInv, WellKept, Resident
<1>3. IsFiniteSet(L) /\ \A k \in L : Bytes[k] \in Nat
  BY <1>1, <1>2, FS_Subset
<1>4. Leased = SumOver(Bytes, L)
  BY DEF Leased
<1>5. ASSUME Victims = {} PROVE L = Resident
  <2>1. Idle = {}
    BY <1>5, VictimExists DEF EInv
  <2>2. ASSUME NEW k \in Resident PROVE k \in L
    <3>1. k \in Keys /\ leases[k] # 0
      BY <2>1 DEF Idle, EInv, WellKept, Resident
    <3>2. leases[k] \in Nat
      BY <3>1, ExpertCacheAssumption DEF EInv, Scalars
    <3> QED BY <3>1, <3>2
  <2> QED BY <1>1, <2>2
<1> HIDE DEF L
<1>6. Leased \in Nat /\ Leased <= resident
  BY <1>1, <1>2, <1>3, <1>4, SumOverNat, SumOverMonotone DEF EInv, Counted
<1>7. resident \in Nat
  BY ResidentNat DEF EInv
<1> QED BY <1>4, <1>5, <1>6, <1>7 DEF EInv, Counted

LEMMA RefusedOnlyByLeases ==
  ASSUME EInv, Next
  PROVE  /\ pc = "making room" /\ pc' # pc =>
              (pc' = "loading" <=> Leased + Bytes[wanted] <= budget)
         /\ pc = "trimming" /\ pc' # pc =>
              (answer' = "true" <=> Leased <= budget)
<1>1. /\ Leased \in Nat /\ resident \in Nat /\ Leased <= resident
      /\ Victims = {} => Leased = resident
  BY LeasedBytes
<1>2. Bytes[wanted] \in Nat /\ budget \in Nat
  BY BytesOf, ExpertCacheAssumption DEF EInv, Scalars
<1>3. ASSUME pc = "making room", pc' # pc
      PROVE  pc' = "loading" <=> Leased + Bytes[wanted] <= budget
  <2>1. Refuse \/ StartLoad
    BY <1>3 DEF Next, Acquire, MakeRoom, Reenter, Loaded, LoadFails, SetBudget,
                Trim, BeginClear, Clear, Release
  <2>2. CASE Refuse
    <3>1. pc' # "loading"
      BY <2>2 DEF Refuse
    <3>2. \/ Bytes[wanted] > budget
          \/ ~(resident + Bytes[wanted] <= budget) /\ Leased = resident
      BY <1>1, <2>2 DEF Refuse, Fits
    <3>3. ~(Leased + Bytes[wanted] <= budget)
      BY <1>1, <1>2, <3>2
    <3> QED BY <3>1, <3>3
  <2>3. CASE StartLoad
    <3>1. pc' = "loading" /\ resident + Bytes[wanted] <= budget
      BY <2>3 DEF StartLoad, Fits
    <3>2. Leased + Bytes[wanted] <= budget
      BY <1>1, <1>2, <3>1
    <3> QED BY <3>1, <3>2
  <2> QED BY <2>1, <2>2, <2>3
<1>4. ASSUME pc = "trimming", pc' # pc
      PROVE  answer' = "true" <=> Leased <= budget
  <2>1. Trim
    BY <1>4 DEF Next, Acquire, Refuse, MakeRoom, StartLoad, Reenter, Loaded,
                LoadFails, SetBudget, BeginClear, Clear, Release
  <2> QED BY <1>1, <1>2, <1>4, <2>1 DEF Trim
<1> QED BY <1>3, <1>4

\* A leased value is never evicted, a load stays within the budget, acquire
\* and trim are refused only when the leased bytes do not fit, and the entry
\* touched last is the newest, also when the clock is halved.
THEOREM LeasesAlwaysDecide == Spec => LeasesDecide
<1>1. ASSUME EInv, Next PROVE LeasedStay /\ LoadsWithinBudget /\ LastTouchedIsNewest
  <2>0. EInv'
    BY <1>1, EInvNext
  <2>1. ASSUME NEW k \in Keys, NEW valid \in BOOLEAN, Acquire(k, valid)
        PROVE  LeasedStay /\ LoadsWithinBudget /\ LastTouchedIsNewest
    <3>1. /\ resident' = resident
          /\ DOMAIN entries' = Resident
          /\ tick' # tick =>
               /\ k \in Resident
               /\ \A j \in Resident \ {k} :
                    entries'[j].last_touch < entries'[k].last_touch
      BY <1>1, <2>1, AcquireKeeps
    <3>2. resident \in Nat
      BY <1>1, LeasedBytes
    <3> QED BY <3>1, <3>2
            DEF LeasedStay, LoadsWithinBudget, LastTouchedIsNewest, Resident
  <2>2. CASE Loaded
    <3>1. /\ resident' <= budget
          /\ \A j \in DOMAIN entries' \ {wanted} :
               entries'[j].last_touch < entries'[wanted].last_touch
      BY <1>1, <2>2, LoadedKeeps
    <3>2. DOMAIN entries' = Resident \cup {wanted}
      <4>1. DOMAIN Aged(entries) = Resident
        BY DEF Aged, Halved, Resident
      <4> QED BY <2>2, <4>1 DEF Loaded, With
    <3> QED BY <3>1, <3>2 DEF LeasedStay, LoadsWithinBudget, LastTouchedIsNewest
  <2>3. CASE MakeRoom \/ Trim \/ Clear
    <3>1. tick' = tick /\ leases' = leases
      BY <2>3 DEF MakeRoom, Trim, Clear
    <3>2. LeasedStay
      <4>1. ASSUME NEW k \in Resident, leases[k] > 0 PROVE k \in DOMAIN entries'
        <5>1. k \in Keys /\ leases'[k] > 0
          BY <1>1, <3>1, <4>1 DEF EInv, WellKept, Resident
        <5> QED BY <2>0, <5>1 DEF EInv, Counted, Resident
      <4> QED BY <4>1 DEF LeasedStay
    <3>3. resident \in Nat /\ (EvictOne \/ resident' = resident)
      BY <1>1, <2>3, LeasedBytes DEF MakeRoom, Trim, Clear
    <3>4. resident' \in Nat /\ resident' <= resident
      BY <1>1, <3>3, Evicted
    <3> QED BY <3>1, <3>2, <3>3, <3>4 DEF LoadsWithinBudget, LastTouchedIsNewest
  <2>4. CASE \/ Refuse \/ StartLoad \/ Reenter \/ LoadFails \/ BeginClear
             \/ \E bytes \in Budgets : SetBudget(bytes)
             \/ \E k \in Keys : Release(k)
    <3>1. UNCHANGED <<entries, tick, resident>>
      BY <2>4 DEF Refuse, StartLoad, Reenter, LoadFails, BeginClear, SetBudget,
                  Release
    <3>2. resident \in Nat
      BY <1>1, LeasedBytes
    <3> QED BY <3>1, <3>2
            DEF LeasedStay, LoadsWithinBudget, LastTouchedIsNewest, Resident
  <2> QED BY <1>1, <2>1, <2>2, <2>3, <2>4 DEF Next
<1>2. ASSUME EInv, Next PROVE OnlyLeasesRefuse
  <2>1. /\ pc = "making room" /\ pc' # pc =>
             (pc' = "loading" <=> Leased + Bytes[wanted] <= budget)
        /\ pc = "trimming" /\ pc' # pc =>
             (answer' = "true" <=> Leased <= budget)
    BY <1>2, RefusedOnlyByLeases
  <2> QED BY <2>1 DEF OnlyLeasesRefuse, Leased, SumOver, MapThenSumSet, MapThenFoldSet
<1>3. EInv /\ [Next]_vars =>
        [LeasedStay /\ LoadsWithinBudget /\ OnlyLeasesRefuse
           /\ LastTouchedIsNewest]_vars
  BY <1>1, <1>2
<1> QED BY <1>3, EInvInit, EInvNext, PTL DEF Spec, LeasesDecide

-----------------------------------------------------------------------------
(***************************************************************************)
(* Paged experts.  What a projection will read is kept by the lease of its *)
(* slot; that a call never runs out of slots takes a count of its leases:  *)
(* of the cold experts of a packed row, of the leases of a group.          *)
(***************************************************************************)

\* A sum is at least the number of its places that are not zero.
LEMMA SumOverCovers ==
  ASSUME NEW S, IsFiniteSet(S), NEW B, \A x \in S : B[x] \in Nat,
         NEW T \in SUBSET S, \A x \in T : B[x] >= 1
  PROVE  Cardinality(T) <= SumOver(B, S)
  <1> DEFINE P == {n \in Nat : \A U \in SUBSET T : Cardinality(U) = n => n <= SumOver(B, U)}
  <1>1. /\ \A U \in SUBSET T : IsFiniteSet(U) /\ \A x \in U : B[x] \in Nat /\ B[x] >= 1
        /\ \A U \in SUBSET T : SumOver(B, U) \in Nat
    <2>1. \A U \in SUBSET T : IsFiniteSet(U) /\ \A x \in U : B[x] \in Nat /\ B[x] >= 1
      BY FS_Subset
    <2> QED BY <2>1, SumOverNat
  <1>2. 0 \in P
    BY <1>1
  <1>3. ASSUME NEW n \in Nat, n \in P PROVE n + 1 \in P
    <2> SUFFICES ASSUME NEW U \in SUBSET T, Cardinality(U) = n + 1 PROVE n + 1 <= SumOver(B, U)
      OBVIOUS
    <2>1. IsFiniteSet(U) /\ U # {}
      BY <1>1, FS_EmptySet
    <2>2. PICK x \in U : TRUE
      BY <2>1
    <2> HIDE DEF P
    <2>3. Cardinality(U \ {x}) = n /\ U \ {x} \in SUBSET T
      <3>1. Cardinality(U \ {x}) = Cardinality(U) - 1
        BY <2>1, <2>2, FS_RemoveElement
      <3> QED BY <3>1
    <2>4. n <= SumOver(B, U \ {x})
      BY <1>3, <2>3 DEF P
    <2>5. SumOver(B, U) = B[x] + SumOver(B, U \ {x})
      BY <1>1, <2>1, SumOverRemove
    <2>6. B[x] \in Nat /\ B[x] >= 1 /\ SumOver(B, U \ {x}) \in Nat
      BY <1>1, <2>3
    <2> QED BY <2>4, <2>5, <2>6
  <1> HIDE DEF P
  <1>4. Nat \subseteq P
    BY <1>2, <1>3, NatInduct
  <1>5. Cardinality(T) \in Nat /\ T \in SUBSET T
    BY FS_Subset, FS_CardinalityType
  <1>6. Cardinality(T) <= SumOver(B, T)
    BY <1>4, <1>5 DEF P
  <1>7. SumOver(B, T) <= SumOver(B, S) /\ SumOver(B, S) \in Nat /\ SumOver(B, T) \in Nat
    BY <1>1, <1>5, SumOverMonotone, SumOverNat
  <1> QED BY <1>5, <1>6, <1>7

LEMMA SumOverZero ==
  ASSUME NEW S, IsFiniteSet(S), NEW B, \A x \in S : B[x] = 0
  PROVE  SumOver(B, S) = 0
  <1> DEFINE P == {n \in Nat : \A U \in SUBSET S : Cardinality(U) = n => SumOver(B, U) = 0}
  <1>0. /\ \A U \in SUBSET S : IsFiniteSet(U)
        /\ \A U \in SUBSET S : \A x \in U : B[x] \in Nat /\ B[x] = 0
    BY FS_Subset
  <1>1. 0 \in P
    BY <1>0, FS_EmptySet, SumOverEmpty
  <1>2. ASSUME NEW n \in Nat, n \in P PROVE n + 1 \in P
    <2> SUFFICES ASSUME NEW U \in SUBSET S, Cardinality(U) = n + 1 PROVE SumOver(B, U) = 0
      OBVIOUS
    <2> HIDE DEF P
    <2>1. IsFiniteSet(U) /\ U # {}
      BY <1>0, FS_EmptySet
    <2>2. PICK x \in U : TRUE
      BY <2>1
    <2>3. Cardinality(U \ {x}) = Cardinality(U) - 1
      BY <2>1, <2>2, FS_RemoveElement
    <2>4. Cardinality(U \ {x}) = n /\ U \ {x} \in SUBSET S
      BY <2>3
    <2>5. SumOver(B, U \ {x}) = 0
      BY <1>2, <2>4 DEF P
    <2>6. SumOver(B, U) = B[x] + SumOver(B, U \ {x})
      BY <1>0, <2>1, SumOverRemove
    <2> QED BY <1>0, <2>5, <2>6
  <1> HIDE DEF P
  <1>3. Nat \subseteq P
    BY <1>1, <1>2, NatInduct
  <1>4. Cardinality(S) \in Nat /\ S \in SUBSET S
    BY FS_CardinalityType
  <1> QED BY <1>3, <1>4 DEF P

\* A sum looks only at the places it is over.
LEMMA SumOverSame ==
  ASSUME NEW T, IsFiniteSet(T), NEW B, \A y \in T : B[y] \in Nat,
         NEW C, \A y \in T : C[y] \in Nat, \A y \in T : C[y] = B[y]
  PROVE  SumOver(C, T) = SumOver(B, T)
  <1>2. PICK f : AddsUp(f, B, T) /\ \A U \in SUBSET T : SumOver(B, U) = f[U]
    BY SumOverSteps
  <1>3. PICK g : AddsUp(g, C, T) /\ \A U \in SUBSET T : SumOver(C, U) = g[U]
    BY SumOverSteps
  <1>4. AddsUp(g, B, T)
    <2>1. ASSUME NEW s \in SUBSET T, s # {}
          PROVE  g[s] = B[Picked(s)] + g[s \ {Picked(s)}]
      <3>1. Picked(s) \in T
        BY <2>1, PickedIn
      <3> QED BY <1>3, <2>1, <3>1 DEF AddsUp
    <2> QED BY <1>3, <2>1 DEF AddsUp
  <1>5. T \in SUBSET T
    OBVIOUS
  <1>6. f[T] = g[T]
    BY <1>2, <1>4, <1>5, SumsAgree
  <1> QED BY <1>2, <1>3, <1>5, <1>6

\* One more at one place.
LEMMA SumOverBump ==
  ASSUME NEW S, IsFiniteSet(S), NEW B \in [S -> Nat], NEW x \in S
  PROVE  SumOver([B EXCEPT ![x] = @ + 1], S) = SumOver(B, S) + 1
  <1> DEFINE C == [B EXCEPT ![x] = @ + 1]
             T == S \ {x}
  <1>1. C \in [S -> Nat] /\ C[x] = B[x] + 1 /\ B[x] \in Nat /\ \A y \in T : C[y] = B[y]
    OBVIOUS
  <1>2. SumOver(B, S) = B[x] + SumOver(B, T)
    BY SumOverRemove
  <1>3. \A y \in S : C[y] \in Nat
    BY <1>1
  <1> HIDE DEF C
  <1>4. SumOver(C, S) = C[x] + SumOver(C, T)
    BY <1>3, SumOverRemove
  <1>5. IsFiniteSet(T) /\ \A y \in T : B[y] \in Nat /\ C[y] \in Nat
    BY <1>1, FS_RemoveElement
  <1>6. SumOver(C, T) = SumOver(B, T) /\ SumOver(B, T) \in Nat
    <2> HIDE DEF T
    <2>1. SumOver(B, T) \in Nat
      BY <1>5, SumOverNat
    <2> QED BY <1>1, <1>5, <2>1, SumOverSame DEF T
  <1>7. SumOver(C, S) = SumOver(B, S) + 1
    BY <1>1, <1>2, <1>4, <1>6
  <1> QED BY <1>7 DEF C

SlotsTyped ==
  /\ slotIds \in [Slots -> 0..PagedExperts]
  /\ slotHolds \in [Slots -> 0..(PagedExperts + 1)]
  /\ leased \in [Slots -> Nat]
  /\ reads \subseteq [slot : Slots, expert : ExpertNumbers]
  /\ toLease \in Seq(ExpertNumbers)
  /\ form \in {"idle", "grouped", "packed", "single"}
  /\ failedLayer \in BOOLEAN

\* A hot expert never leaves its slot.
HotStay == \A s \in Slots : s < HotSlots => slotIds[s] = s

\* A projection reads through a slot that is leased, and nothing is leased
\* when there is no projection.
LeasesHold ==
  /\ \A r \in reads : leased[r.slot] > 0
  /\ reads = {} => \A s \in Slots : leased[s] = 0

\* Cold experts that a call still has to lease.
ColdAhead == Cardinality({e \in Range(toLease) : e >= HotSlots})

\* What a call may still lease fits: the cold experts of a packed row, each
\* wanted once, and the leases of a group.
CallFits ==
  /\ form = "idle" => toLease = <<>> /\ reads = {}
  /\ form = "packed" =>
       /\ IsInjective(toLease)
       /\ SumOver(leased, ColdOnes) + ColdAhead <= FitsBatch
  /\ form = "grouped" => SumOver(leased, Slots) <= LeaseGroup

SlotInv ==
  /\ SlotsTyped /\ HotStay /\ LeasesHold /\ CallFits
  /\ ReadsFindTheirExpert /\ SlotsTruthful /\ PoolSuffices

LEMMA SlotSets ==
  /\ IsFiniteSet(Slots) /\ IsFiniteSet(ColdOnes) /\ ColdOnes \subseteq Slots
  /\ Cardinality(ColdOnes) = ColdSlots /\ ColdOnes # {}
  /\ IsFiniteSet(ExpertNumbers)
  /\ \A s \in Slots : s \in Nat /\ (s \in ColdOnes <=> s >= HotSlots)
  /\ HotSlots \in Nat /\ ColdSlots \in Nat /\ ColdSlots > 0 /\ PagedExperts \in Nat
  /\ PagedExperts > HotSlots
  /\ FitsBatch \in Nat /\ LeaseGroup \in Nat
  /\ FitsBatch <= ColdSlots /\ LeaseGroup <= ColdSlots
<1>1. /\ HotSlots \in Nat /\ ColdSlots \in Nat /\ ColdSlots > 0 /\ HotSlots > 0
      /\ PagedExperts \in Nat /\ PagedExperts > HotSlots
      /\ FitsBatch \in Nat /\ LeaseGroup \in Nat
      /\ FitsBatch <= ColdSlots /\ LeaseGroup <= ColdSlots
  BY ExpertPagingAssumption
<1> DEFINE top == HotSlots + ColdSlots - 1
           last == PagedExperts - 1
<1>2. /\ top \in Int /\ last \in Int /\ HotSlots <= top /\ top - HotSlots + 1 = ColdSlots
      /\ \A s \in 0..top : s \in Nat /\ (s \in HotSlots..top <=> s >= HotSlots)
      /\ HotSlots..top \subseteq 0..top /\ HotSlots \in HotSlots..top
  BY <1>1
<1>3. Slots = 0..top /\ ColdOnes = HotSlots..top /\ ExpertNumbers = 0..last
  BY DEF Slots, ColdOnes, ExpertNumbers
<1> HIDE DEF top, last
<1>4. IsFiniteSet(0..top) /\ IsFiniteSet(0..last)
  BY <1>2, FS_Interval
<1>5. IsFiniteSet(HotSlots..top) /\ Cardinality(HotSlots..top) = top - HotSlots + 1
  <2>1. HotSlots \in Int /\ ~(HotSlots > top)
    BY <1>1, <1>2
  <2> QED BY <1>2, <2>1, FS_Interval
<1> QED BY <1>1, <1>2, <1>3, <1>4, <1>5

LEMMA ColdFinite ==
  ASSUME NEW q \in Seq(ExpertNumbers) PROVE IsFiniteSet({e \in Range(q) : e >= HotSlots})
<1>1. {e \in Range(q) : e >= HotSlots} \subseteq ExpertNumbers
  BY ElementOfSeq DEF Range
<1> QED BY <1>1, SlotSets, FS_Subset

LEMMA FitsLater ==
  /\ 0 <= LeaseGroup
  /\ \A m, n \in Nat : m + n <= FitsBatch => 0 + n <= FitsBatch
<1>1. FitsBatch \in Nat /\ LeaseGroup \in Nat
  BY SlotSets
<1> QED BY <1>1

\* A call begins with nothing leased.
LEMMA SlotsBegin ==
  ASSUME SlotInv, NEW ids \in Seq(ExpertNumbers), IsInjective(ids),
         NEW rows \in Nat, BeginCall(ids, rows)
  PROVE  SlotInv'
<1>1. /\ form = "idle" /\ toLease' = ids /\ pagingResult' = "none"
      /\ UNCHANGED <<slotIds, slotHolds, failedLayer, leased, reads>>
      /\ form' \in {"grouped", "packed", "single"}
      /\ form' = "packed" => FixedBatchFits(ids)
  BY DEF BeginCall
<1>2. reads = {} /\ leased \in [Slots -> Nat] /\ \A s \in Slots : leased[s] = 0
  BY <1>1 DEF SlotInv, CallFits, LeasesHold, SlotsTyped
<1>3. SumOver(leased, ColdOnes) = 0 /\ SumOver(leased, Slots) = 0
  BY <1>2, SlotSets, SumOverZero
<1>4. LeaseGroup \in Nat
  BY SlotSets
<1>5. CallFits'
  <2>1. form' = "packed" => ColdAhead' <= FitsBatch /\ ColdAhead' \in Nat
    <3>1. IsFiniteSet({e \in Range(ids) : e >= HotSlots})
      BY ColdFinite
    <3> QED BY <1>1, <3>1, FS_CardinalityType DEF FixedBatchFits, ColdAhead
  <2>2. form' = "packed" => 0 + ColdAhead' <= FitsBatch
    BY <2>1, SlotSets
  <2> QED BY <1>1, <1>3, <1>4, <2>2 DEF CallFits
<1>6. SlotsTyped' /\ HotStay' /\ LeasesHold'
  BY <1>1 DEF SlotInv, SlotsTyped, HotStay, LeasesHold
<1>7. ReadsFindTheirExpert' /\ SlotsTruthful' /\ PoolSuffices'
  BY <1>1 DEF SlotInv, ReadsFindTheirExpert, SlotsTruthful, PoolSuffices
<1> QED BY <1>5, <1>6, <1>7 DEF SlotInv

\* The first expert of a sequence in which each is wanted once.
LEMMA HeadAhead ==
  ASSUME NEW q \in Seq(ExpertNumbers), q # <<>>
  PROVE  /\ Head(q) \in ExpertNumbers /\ Tail(q) \in Seq(ExpertNumbers)
         /\ Head(q) \in Range(q) /\ Range(q) \subseteq ExpertNumbers
         /\ Range(Tail(q)) \subseteq Range(q)
         /\ IsInjective(q) => IsInjective(Tail(q)) /\ Range(Tail(q)) = Range(q) \ {Head(q)}
<1>1. /\ Len(q) \in Nat /\ Len(q) > 0 /\ DOMAIN q = 1..Len(q)
      /\ \A i \in 1..Len(q) : q[i] \in ExpertNumbers
  BY EmptySeq, LenProperties, ElementOfSeq
<1>2. /\ Head(q) = q[1] /\ Head(q) \in ExpertNumbers
      /\ Tail(q) \in Seq(ExpertNumbers) /\ Len(Tail(q)) = Len(q) - 1
      /\ DOMAIN Tail(q) = 1..(Len(q) - 1)
      /\ \A i \in 1..(Len(q) - 1) : Tail(q)[i] = q[i + 1]
  BY <1>1, HeadTailProperties, LenProperties
<1>3. \A i \in 1..(Len(q) - 1) : i + 1 \in 1..Len(q) /\ i + 1 # 1
  BY <1>1
<1>4. \A i \in 1..Len(q) : i # 1 => i - 1 \in 1..(Len(q) - 1) /\ (i - 1) + 1 = i
  BY <1>1
<1>5. 1 \in 1..Len(q)
  BY <1>1
<1>6. /\ Head(q) \in Range(q) /\ Range(q) \subseteq ExpertNumbers
      /\ Range(Tail(q)) \subseteq Range(q)
  BY <1>1, <1>2, <1>3, <1>5 DEF Range
<1>7. ASSUME IsInjective(q)
      PROVE  IsInjective(Tail(q)) /\ Range(Tail(q)) = Range(q) \ {Head(q)}
  <2>1. IsInjective(Tail(q))
    <3> SUFFICES ASSUME NEW i \in 1..(Len(q) - 1), NEW j \in 1..(Len(q) - 1),
                        Tail(q)[i] = Tail(q)[j]
                 PROVE  i = j
      BY <1>2 DEF IsInjective
    <3>1. q[i + 1] = q[j + 1] /\ i + 1 \in DOMAIN q /\ j + 1 \in DOMAIN q
      BY <1>1, <1>2, <1>3
    <3>2. i + 1 = j + 1
      BY <1>7, <3>1 DEF IsInjective
    <3> QED BY <1>1, <3>2
  <2>2. ASSUME NEW e \in Range(Tail(q)) PROVE e \in Range(q) \ {Head(q)}
    <3>1. PICK i \in 1..(Len(q) - 1) : e = q[i + 1]
      BY <1>2 DEF Range
    <3>2. i + 1 \in DOMAIN q /\ 1 \in DOMAIN q /\ i + 1 # 1
      BY <1>1, <1>3, <1>5
    <3>3. q[i + 1] # q[1]
      BY <1>7, <3>2 DEF IsInjective
    <3> QED BY <1>2, <1>6, <3>1, <3>3
  <2>3. ASSUME NEW e \in Range(q) \ {Head(q)} PROVE e \in Range(Tail(q))
    <3>1. PICK i \in 1..Len(q) : e = q[i]
      BY <1>1 DEF Range
    <3>2. i # 1
      BY <1>2, <3>1
    <3>3. i - 1 \in 1..(Len(q) - 1) /\ Tail(q)[i - 1] = q[i]
      BY <1>2, <1>4, <3>2
    <3> QED BY <1>2, <3>1, <3>3 DEF Range
  <2> QED BY <2>1, <2>2, <2>3
<1> QED BY <1>2, <1>6, <1>7

\* The lease of a cold expert goes to a cold slot and takes one from the cold
\* experts ahead; the lease of a hot one goes to its own slot.
LEMMA LeaseCounts ==
  ASSUME SlotsTyped, HotStay, LeasesHold, CallFits, MayLease, NEW slot \in Slots,
         Head(toLease) >= HotSlots <=> slot >= HotSlots,
         leased' = [leased EXCEPT ![slot] = @ + 1],
         reads' = reads \cup {[slot |-> slot, expert |-> Head(toLease)]},
         toLease' = Tail(toLease), form' = form
  PROVE  CallFits'
<1> DEFINE head == Head(toLease)
<1>1. /\ form # "idle" /\ toLease # <<>> /\ toLease \in Seq(ExpertNumbers)
      /\ leased \in [Slots -> Nat] /\ ~GroupFull
      /\ form \in {"grouped", "packed", "single"}
  BY DEF SlotsTyped, MayLease
<1>2. /\ head \in ExpertNumbers /\ Tail(toLease) \in Seq(ExpertNumbers)
      /\ head \in Range(toLease) /\ Range(toLease) \subseteq ExpertNumbers
      /\ IsInjective(toLease) => IsInjective(Tail(toLease))
                                 /\ Range(Tail(toLease)) = Range(toLease) \ {head}
  BY <1>1, HeadAhead
<1> HIDE DEF head
<1>3. CASE form = "packed"
  <2>1. IsInjective(toLease) /\ SumOver(leased, ColdOnes) + ColdAhead <= FitsBatch
    BY <1>3 DEF CallFits
  <2> DEFINE A == {e \in Range(toLease) : e >= HotSlots}
             B == {e \in Range(Tail(toLease)) : e >= HotSlots}
  <2>2. IsFiniteSet(A)
    BY <1>2, SlotSets, FS_Subset
  <2>3. ColdAhead = Cardinality(A) /\ ColdAhead' = Cardinality(B)
    BY DEF ColdAhead
  <2>4. SumOver(leased, ColdOnes) \in Nat /\ Cardinality(A) \in Nat
    BY <1>1, <2>2, SlotSets, SumOverNat, FS_CardinalityType
  <2>5. CASE slot >= HotSlots
    <3>1. B = A \ {head} /\ head \in A
      BY <1>2, <2>1, <2>5 DEF head
    <3> HIDE DEF A, B
    <3>2. Cardinality(B) = Cardinality(A) - 1
      BY <2>2, <3>1, FS_RemoveElement
    <3>3. SumOver(leased', ColdOnes) = SumOver(leased, ColdOnes) + 1
      <4> DEFINE low == [s \in ColdOnes |-> leased[s]]
      <4>1. slot \in ColdOnes
        BY <2>5, SlotSets
      <4>2. low \in [ColdOnes -> Nat] /\ IsFiniteSet(ColdOnes)
        BY <1>1, SlotSets
      <4>3. SumOver([low EXCEPT ![slot] = @ + 1], ColdOnes) = SumOver(low, ColdOnes) + 1
        BY <4>1, <4>2, SumOverBump
      <4>4. SumOver(low, ColdOnes) = SumOver(leased, ColdOnes)
        BY <1>1, <4>2, SlotSets, SumOverSame
      <4>5. SumOver([low EXCEPT ![slot] = @ + 1], ColdOnes) = SumOver(leased', ColdOnes)
        <5> DEFINE more == [low EXCEPT ![slot] = @ + 1]
        <5>1. /\ \A s \in ColdOnes : more[s] \in Nat /\ leased'[s] \in Nat
              /\ \A s \in ColdOnes : more[s] = leased'[s]
          <6>1. leased' = [leased EXCEPT ![slot] = leased[slot] + 1]
            OBVIOUS
          <6>2. ASSUME NEW s \in ColdOnes
                PROVE  more[s] = leased'[s] /\ more[s] \in Nat
            <7>1. s \in Slots /\ leased[s] \in Nat
              BY <1>1, SlotSets
            <7> QED BY <1>1, <6>1, <7>1
          <6> QED BY <6>2
        <5> HIDE DEF more
        <5>2. SumOver(more, ColdOnes) = SumOver(leased', ColdOnes)
          BY <4>2, <5>1, SumOverSame
        <5> QED BY <5>2 DEF more
      <4> QED BY <4>3, <4>4, <4>5
    <3>4. SumOver(leased', ColdOnes) + Cardinality(B) <= FitsBatch
      BY <2>1, <2>3, <2>4, <3>2, <3>3, SlotSets
    <3> QED BY <1>2, <1>3, <2>1, <2>3, <3>4 DEF CallFits
  <2>6. CASE ~(slot >= HotSlots)
    <3>1. B = A
      BY <1>2, <2>1, <2>6 DEF head
    <3> HIDE DEF A, B
    <3>2. SumOver(leased', ColdOnes) = SumOver(leased, ColdOnes)
      <4>1. /\ \A s \in ColdOnes : leased[s] \in Nat /\ leased'[s] \in Nat
            /\ \A s \in ColdOnes : leased'[s] = leased[s]
        BY <1>1, <2>6, SlotSets
      <4> QED BY <4>1, SlotSets, SumOverSame
    <3> QED BY <1>2, <1>3, <2>1, <2>3, <3>1, <3>2 DEF CallFits
  <2> QED BY <2>5, <2>6
<1>4. CASE form = "grouped"
  <2>1. SumOver(leased, Slots) <= LeaseGroup /\ SumOver(leased, Slots) # LeaseGroup
    BY <1>1, <1>4 DEF CallFits, GroupFull, SumOver
  <2>2. SumOver(leased, Slots) \in Nat
    BY <1>1, SlotSets, SumOverNat
  <2>3. SumOver(leased', Slots) = SumOver(leased, Slots) + 1
    BY <1>1, SlotSets, SumOverBump
  <2>4. SumOver(leased', Slots) <= LeaseGroup
    BY <2>1, <2>2, <2>3, SlotSets
  <2> QED BY <1>4, <2>4 DEF CallFits
<1>5. CASE form = "single"
  BY <1>5 DEF CallFits
<1> QED BY <1>1, <1>3, <1>4, <1>5

LEMMA SlotsHit == ASSUME SlotInv, Hit PROVE SlotInv'
<1>0. SlotsTyped /\ HotStay /\ LeasesHold /\ CallFits
  BY DEF SlotInv
<1>1. PICK s \in Slots :
        /\ slotIds[s] = Head(toLease)
        /\ \A t \in Slots : slotIds[t] = Head(toLease) => s <= t
        /\ TakeLease(s)
  BY DEF Hit
<1>2. /\ MayLease /\ ~failedLayer
      /\ UNCHANGED <<slotIds, slotHolds, failedLayer, form, pagingResult>>
      /\ leased' = [leased EXCEPT ![s] = @ + 1]
      /\ reads' = reads \cup {[slot |-> s, expert |-> Head(toLease)]}
      /\ toLease' = Tail(toLease)
  BY <1>1 DEF Hit, TakeLease
<1>3. /\ toLease # <<>> /\ toLease \in Seq(ExpertNumbers)
      /\ Head(toLease) \in ExpertNumbers /\ Tail(toLease) \in Seq(ExpertNumbers)
  BY <1>0, <1>2, HeadAhead DEF MayLease, SlotsTyped
<1>4. Head(toLease) >= HotSlots <=> s >= HotSlots
  <2>1. s \in Nat /\ HotSlots \in Nat /\ Head(toLease) \in Nat
    BY <1>3, SlotSets DEF ExpertNumbers
  <2>2. s < HotSlots => slotIds[s] = s
    BY <1>0 DEF HotStay
  <2>3. Head(toLease) < HotSlots => Head(toLease) \in Slots
    BY <2>1, SlotSets DEF Slots
  <2>4. Head(toLease) < HotSlots => s <= Head(toLease)
    BY <1>0, <1>1, <2>1, <2>3 DEF HotStay
  <2> QED BY <1>1, <2>1, <2>2, <2>4
<1>5. CallFits'
  BY <1>0, <1>2, <1>4, LeaseCounts
<1>6. SlotsTyped' /\ HotStay'
  BY <1>0, <1>2, <1>3 DEF SlotsTyped, HotStay
<1>7. LeasesHold'
  <2>1. leased \in [Slots -> Nat] /\ \A r \in reads : r.slot \in Slots
    BY <1>0 DEF SlotsTyped
  <2>2. leased'[s] > 0 /\ \A t \in Slots : leased[t] > 0 => leased'[t] > 0
    BY <1>2, <2>1
  <2>3. ASSUME NEW r \in reads' PROVE leased'[r.slot] > 0
    <3>1. r \in reads \/ r = [slot |-> s, expert |-> Head(toLease)]
      BY <1>2
    <3>2. r \in reads => leased[r.slot] > 0
      BY <1>0 DEF LeasesHold
    <3> QED BY <2>1, <2>2, <3>1, <3>2
  <2>4. reads' # {}
    BY <1>2
  <2> QED BY <2>3, <2>4 DEF LeasesHold
<1>8. slotHolds[s] = Head(toLease)
  <2>1. slotIds[s] # None
    BY <1>1, <1>3, SlotSets DEF ExpertNumbers, None
  <2> QED BY <1>1, <1>2, <2>1 DEF SlotInv, SlotsTruthful
<1>9. ReadsFindTheirExpert' /\ SlotsTruthful' /\ PoolSuffices'
  <2>1. ReadsFindTheirExpert'
    BY <1>2, <1>8 DEF SlotInv, ReadsFindTheirExpert
  <2>2. SlotsTruthful' /\ PoolSuffices'
    BY <1>2 DEF SlotInv, SlotsTruthful, PoolSuffices
  <2> QED BY <2>1, <2>2
<1> QED BY <1>5, <1>6, <1>7, <1>9 DEF SlotInv

\* A missing expert is a cold one, and a call that may lease it has a cold
\* slot left.
LEMMA SlotIsFree ==
  ASSUME SlotsTyped, HotStay, LeasesHold, CallFits, MayLease, Missing
  PROVE  /\ Head(toLease) \in ExpertNumbers /\ Head(toLease) >= HotSlots
         /\ Tail(toLease) \in Seq(ExpertNumbers)
         /\ Unleased # {}
<1>1. /\ form # "idle" /\ toLease # <<>> /\ toLease \in Seq(ExpertNumbers)
      /\ leased \in [Slots -> Nat] /\ ~GroupFull
      /\ form \in {"grouped", "packed", "single"}
      /\ form = "single" => reads = {}
  BY DEF SlotsTyped, MayLease
<1>2. /\ Head(toLease) \in ExpertNumbers /\ Tail(toLease) \in Seq(ExpertNumbers)
      /\ Head(toLease) \in Range(toLease) /\ Range(toLease) \subseteq ExpertNumbers
  BY <1>1, HeadAhead
<1>3. Head(toLease) >= HotSlots
  <2>1. Head(toLease) \in Nat /\ HotSlots \in Nat
    BY <1>2, SlotSets DEF ExpertNumbers
  <2>2. ASSUME Head(toLease) < HotSlots PROVE FALSE
    <3>1. Head(toLease) \in Slots
      BY <2>1, <2>2, SlotSets DEF Slots
    <3>2. slotIds[Head(toLease)] = Head(toLease) /\ DOMAIN slotIds = Slots
      BY <2>2, <3>1 DEF HotStay, SlotsTyped
    <3> QED BY <3>1, <3>2 DEF Missing, Range
  <2> QED BY <2>1, <2>2
<1>4. ASSUME Unleased = {} PROVE FALSE
  <2>1. \A s \in ColdOnes : leased[s] \in Nat /\ leased[s] # 0
    BY <1>1, <1>4, SlotSets DEF Unleased
  <2>2. \A s \in ColdOnes : leased[s] >= 1
    BY <2>1
  <2>3. /\ IsFiniteSet(ColdOnes) /\ IsFiniteSet(Slots) /\ ColdOnes \in SUBSET Slots
        /\ ColdOnes \in SUBSET ColdOnes
        /\ \A s \in ColdOnes : leased[s] \in Nat
        /\ \A s \in Slots : leased[s] \in Nat
    BY <1>1, SlotSets
  <2>4. ColdSlots <= SumOver(leased, ColdOnes) /\ ColdSlots <= SumOver(leased, Slots)
    BY <2>2, <2>3, SlotSets, SumOverCovers
  <2>5. SumOver(leased, ColdOnes) \in Nat /\ SumOver(leased, Slots) \in Nat
    BY <2>3, SumOverNat
  <2>6. CASE form = "packed"
    <3> DEFINE A == {e \in Range(toLease) : e >= HotSlots}
    <3>1. IsFiniteSet(A) /\ Head(toLease) \in A
      BY <1>2, <1>3, SlotSets, FS_Subset
    <3>2. SumOver(leased, ColdOnes) + Cardinality(A) <= FitsBatch
      BY <2>6 DEF CallFits, ColdAhead
    <3> HIDE DEF A
    <3>3. Cardinality(A) \in Nat /\ Cardinality(A) # 0
      BY <3>1, FS_CardinalityType, FS_EmptySet
    <3> QED BY <2>4, <2>5, <3>2, <3>3, SlotSets
  <2>7. CASE form = "grouped"
    <3>1. SumOver(leased, Slots) <= LeaseGroup /\ SumOver(leased, Slots) # LeaseGroup
      BY <1>1, <2>7 DEF CallFits, GroupFull, SumOver
    <3> QED BY <2>4, <2>5, <3>1, SlotSets
  <2>8. CASE form = "single"
    <3>1. \A s \in Slots : leased[s] = 0
      BY <1>1, <2>8 DEF LeasesHold
    <3> QED BY <2>1, <3>1, SlotSets
  <2> QED BY <1>1, <2>6, <2>7, <2>8
<1> QED BY <1>2, <1>3, <1>4

LEMMA SlotsMiss == ASSUME SlotInv, Miss PROVE SlotInv'
<1>0. SlotsTyped /\ HotStay /\ LeasesHold /\ CallFits
  BY DEF SlotInv
<1>1. MayLease /\ ~failedLayer /\ Missing
  BY DEF Miss
<1>2. /\ Head(toLease) \in ExpertNumbers /\ Head(toLease) >= HotSlots
      /\ Tail(toLease) \in Seq(ExpertNumbers)
      /\ Unleased # {}
  BY <1>0, <1>1, SlotIsFree
<1>3. PICK s \in OldestUnleased :
        /\ slotHolds' = [slotHolds EXCEPT ![s] = Head(toLease)]
        /\ slotIds' = [slotIds EXCEPT ![s] = Head(toLease)]
        /\ TakeLease(s)
        /\ UNCHANGED <<form, pagingResult>>
  BY <1>2 DEF Miss
<1>4. s \in Slots /\ s >= HotSlots /\ s \in Nat /\ HotSlots \in Nat /\ leased[s] = 0
  BY SlotSets DEF OldestUnleased, Unleased
<1>5. /\ failedLayer' = failedLayer
      /\ leased' = [leased EXCEPT ![s] = @ + 1]
      /\ reads' = reads \cup {[slot |-> s, expert |-> Head(toLease)]}
      /\ toLease' = Tail(toLease)
  BY <1>3 DEF Miss, TakeLease
<1>6. CallFits'
  BY <1>0, <1>1, <1>2, <1>3, <1>4, <1>5, LeaseCounts
<1>7. SlotsTyped' /\ HotStay'
  <2>1. Head(toLease) \in 0..PagedExperts /\ Head(toLease) \in 0..(PagedExperts + 1)
    BY <1>2, SlotSets DEF ExpertNumbers
  <2>2. SlotsTyped'
    BY <1>0, <1>2, <1>3, <1>4, <1>5, <2>1 DEF SlotsTyped
  <2>3. HotStay'
    BY <1>0, <1>3, <1>4 DEF HotStay, SlotsTyped
  <2> QED BY <2>2, <2>3
<1>8. LeasesHold'
  <2>1. leased \in [Slots -> Nat] /\ \A r \in reads : r.slot \in Slots
    BY <1>0 DEF SlotsTyped
  <2>2. leased'[s] > 0 /\ \A t \in Slots : leased[t] > 0 => leased'[t] > 0
    BY <1>4, <1>5, <2>1
  <2>3. ASSUME NEW r \in reads' PROVE leased'[r.slot] > 0
    <3>1. r \in reads \/ r = [slot |-> s, expert |-> Head(toLease)]
      BY <1>5
    <3>2. r \in reads => leased[r.slot] > 0
      BY <1>0 DEF LeasesHold
    <3> QED BY <2>1, <2>2, <3>1, <3>2
  <2>4. reads' # {}
    BY <1>5
  <2> QED BY <2>3, <2>4 DEF LeasesHold
<1>9. ReadsFindTheirExpert'
  <2>1. slotHolds \in [Slots -> 0..(PagedExperts + 1)]
    BY <1>0 DEF SlotsTyped
  <2>2. ASSUME NEW r \in reads PROVE slotHolds'[r.slot] = r.expert
    <3>1. leased[r.slot] > 0 /\ r.slot \in Slots
      BY <1>0 DEF LeasesHold, SlotsTyped
    <3>2. r.slot # s
      BY <1>4, <3>1
    <3>3. slotHolds[r.slot] = r.expert
      BY DEF SlotInv, ReadsFindTheirExpert
    <3> QED BY <1>3, <2>1, <3>1, <3>2, <3>3
  <2>3. slotHolds'[s] = Head(toLease)
    BY <1>3, <1>4, <2>1
  <2> QED BY <1>5, <2>2, <2>3 DEF ReadsFindTheirExpert
<1>10. SlotsTruthful' /\ PoolSuffices'
  <2>1. /\ slotHolds \in [Slots -> 0..(PagedExperts + 1)]
        /\ slotIds \in [Slots -> 0..PagedExperts]
    BY <1>0 DEF SlotsTyped
  <2> QED BY <1>1, <1>3, <1>4, <1>5, <2>1 DEF SlotInv, SlotsTruthful, PoolSuffices
<1> QED BY <1>6, <1>7, <1>8, <1>9, <1>10 DEF SlotInv

\* After a fence or an exception nothing is leased.
LEMMA SlotsReleased ==
  ASSUME SlotInv, reads' = {}, leased' = [s \in Slots |-> 0], slotIds' = slotIds,
         (toLease' = <<>> /\ form' = "idle") \/ (toLease' = toLease /\ form' = form),
         pagingResult' # "all leased", form # "idle", failedLayer' \in BOOLEAN,
         failedLayer => failedLayer',
         slotHolds' \in [Slots -> 0..(PagedExperts + 1)],
         slotHolds' = slotHolds \/ failedLayer'
  PROVE  SlotInv'
<1>0. SlotsTyped /\ HotStay /\ LeasesHold /\ CallFits
  BY DEF SlotInv
<1>1. leased' \in [Slots -> Nat] /\ \A s \in Slots : leased'[s] = 0
  OBVIOUS
<1>2. SlotsTyped' /\ HotStay' /\ LeasesHold'
  BY <1>0, <1>1, EmptySeq DEF SlotsTyped, HotStay, LeasesHold
<1>3. CallFits'
  <2>1. SumOver(leased', ColdOnes) = 0 /\ SumOver(leased', Slots) = 0
    BY <1>1, SlotSets, SumOverZero
  <2>2. CASE form' = "idle"
    BY <1>0, <2>2 DEF CallFits
  <2>3. CASE form' # "idle"
    <3>1. toLease' = toLease /\ form' = form
      BY <2>3
    <3>2. form = "packed" =>
            /\ IsInjective(toLease)
            /\ SumOver(leased, ColdOnes) + ColdAhead <= FitsBatch
      BY <1>0 DEF CallFits
    <3>3. SumOver(leased, ColdOnes) \in Nat /\ ColdAhead \in Nat /\ ColdAhead' = ColdAhead
      <4>1. IsFiniteSet({e \in Range(toLease) : e >= HotSlots})
        <5>0. toLease \in Seq(ExpertNumbers)
          BY <1>0 DEF SlotsTyped
        <5> QED BY <5>0, ColdFinite
      <4>2. \A s \in ColdOnes : leased[s] \in Nat
        BY <1>0, SlotSets DEF SlotsTyped
      <4> QED BY <3>1, <4>1, <4>2, SlotSets, SumOverNat, FS_CardinalityType DEF ColdAhead
    <3>4. form = "packed" => 0 + ColdAhead <= FitsBatch
      BY <3>2, <3>3, FitsLater
    <3>5. 0 <= LeaseGroup
      BY FitsLater
    <3>6. form' = "packed" =>
            /\ IsInjective(toLease')
            /\ SumOver(leased', ColdOnes) + ColdAhead' <= FitsBatch
      BY <2>1, <3>1, <3>2, <3>3, <3>4
    <3>7. form' = "grouped" => SumOver(leased', Slots) <= LeaseGroup
      BY <2>1, <3>5
    <3> QED BY <2>3, <3>6, <3>7 DEF CallFits
  <2> QED BY <2>2, <2>3
<1>4. ReadsFindTheirExpert' /\ PoolSuffices'
  BY DEF ReadsFindTheirExpert, PoolSuffices
<1>5. SlotsTruthful'
  BY DEF SlotInv, SlotsTruthful
<1> QED BY <1>2, <1>3, <1>4, <1>5 DEF SlotInv

\* The experts of a call are a sequence in which each appears once.
LEMMA OrdersOf ==
  ASSUME NEW S \in SUBSET ExpertNumbers, NEW ids \in SetToSeqs(S)
  PROVE  ids \in Seq(ExpertNumbers) /\ IsInjective(ids)
<1> DEFINE n == Cardinality(S)
<1>1. n \in Nat
  BY SlotSets, FS_Subset, FS_CardinalityType
<1>2. ids \in [1..n -> S] /\ \A i, j \in 1..n : i # j => ids[i] # ids[j]
  BY DEF SetToSeqs
<1> HIDE DEF n
<1>3. ids \in [1..n -> ExpertNumbers]
  BY <1>2
<1> QED BY <1>1, <1>2, <1>3, SeqDef DEF IsInjective

LEMMA SlotsNext == ASSUME SlotInv, SlotNext PROVE SlotInv'
<1>0. SlotsTyped /\ PoolSuffices
  BY DEF SlotInv
<1>1. ASSUME NEW ids \in UNION {SetToSeqs(S) : S \in kSubset(PageTopK, ExpertNumbers)},
             BeginCall(ids, 1)
      PROVE  SlotInv'
  <2>1. PICK S \in kSubset(PageTopK, ExpertNumbers) : ids \in SetToSeqs(S)
    OBVIOUS
  <2>2. S \in SUBSET ExpertNumbers
    BY DEF kSubset
  <2> QED BY <1>1, <2>1, <2>2, OrdersOf, SlotsBegin
<1>2. ASSUME NEW S \in SUBSET ExpertNumbers, NEW ids \in GroupedIds(S), BeginCall(ids, 2)
      PROVE  SlotInv'
  <2>1. ids \in SetToSeqs(S)
    BY DEF GroupedIds
  <2> QED BY <1>2, <2>1, OrdersOf, SlotsBegin
<1>3. CASE FillFails
  <2>1. PICK t \in OldestUnleased : slotHolds' = [slotHolds EXCEPT ![t] = Torn]
    BY <1>3 DEF FillFails
  <2>2. slotHolds' \in [Slots -> 0..(PagedExperts + 1)]
    <3>1. Torn \in 0..(PagedExperts + 1)
      BY SlotSets DEF Torn
    <3> QED BY <1>0, <2>1, <3>1 DEF SlotsTyped
  <2>3. /\ reads' = {} /\ leased' = [s \in Slots |-> 0] /\ slotIds' = slotIds
        /\ toLease' = <<>> /\ form' = "idle" /\ pagingResult' # "all leased"
        /\ form # "idle" /\ failedLayer' = TRUE
    BY <1>3 DEF FillFails, Unwind, MayLease
  <2> QED BY <2>2, <2>3, SlotsReleased
<1>4. CASE RefuseFailed \/ FenceFails
  <2>1. /\ reads' = {} /\ leased' = [s \in Slots |-> 0] /\ slotIds' = slotIds
        /\ toLease' = <<>> /\ form' = "idle" /\ pagingResult' # "all leased"
        /\ form # "idle" /\ failedLayer' = failedLayer /\ slotHolds' = slotHolds
    BY <1>4 DEF RefuseFailed, FenceFails, Unwind, MayLease
  <2> QED BY <1>0, <2>1, SlotsReleased DEF SlotsTyped
<1>5. CASE RowFence \/ GroupFence \/ PackedFence
  <2>0. Evaluated /\ form # "idle"
    BY <1>5 DEF RowFence, GroupFence, PackedFence
  <2>1. /\ reads' = {} /\ leased' = [s \in Slots |-> 0] /\ slotIds' = slotIds
        /\ (toLease' = <<>> /\ form' = "idle") \/ (toLease' = toLease /\ form' = form)
        /\ pagingResult' = "served" \/ pagingResult' = pagingResult
        /\ failedLayer' = failedLayer /\ slotHolds' = slotHolds
    BY <2>0 DEF Evaluated
  <2> QED BY <1>0, <2>0, <2>1, SlotsReleased DEF SlotsTyped, PoolSuffices
<1> QED BY <1>1, <1>2, <1>3, <1>4, <1>5, SlotsHit, SlotsMiss DEF SlotNext

-----------------------------------------------------------------------------
(* The parallel readers of one bundle.                                     *)

BundleTyped ==
  /\ readers \in [1..Projections -> {"running", "done", "failed", "taken"}]
  /\ bundle \in [frame : {"none", "loading", "unwinding", "loaded", "unwound"},
                 each : Nat, taken : 0..Projections, arrays : Seq(Nat)]

\* What was taken so far is in its place, whichever readers have ended.
BundleGrows ==
  /\ Len(bundle.arrays) = bundle.taken * bundle.each
  /\ \A i \in 1..Len(bundle.arrays) : bundle.arrays[i] = i
  /\ bundle.frame = "loading" => \A p \in 1..bundle.taken : readers[p] = "taken"
  /\ bundle.frame = "loaded" => bundle.taken = Projections
  /\ bundle.frame \in {"loaded", "unwound"} =>
       \A p \in 1..Projections : readers[p] # "running"

ReaderInv == BundleTyped /\ BundleGrows

LEMMA ReadersInOrder == ReaderInv => BundleInOrder
<1> SUFFICES ASSUME ReaderInv PROVE BundleInOrder
  OBVIOUS
<1>1. bundle.arrays \in Seq(Nat)
  BY DEF ReaderInv, BundleTyped
<1>2. bundle.arrays = [i \in 1..Len(bundle.arrays) |-> i]
  BY <1>1, LenProperties DEF ReaderInv, BundleGrows
<1> QED BY <1>2 DEF ReaderInv, BundleGrows, BundleInOrder

LEMMA OneMoreProjection ==
  ASSUME NEW m \in Nat, NEW n \in Nat PROVE (m + 1) * n = m * n + n /\ m * n \in Nat
  OBVIOUS

LEMMA ReadersNext == ASSUME ReaderInv, ReaderNext PROVE ReaderInv'
<1>0. /\ Projections \in Nat
      /\ readers \in [1..Projections -> {"running", "done", "failed", "taken"}]
      /\ bundle \in [frame : {"none", "loading", "unwinding", "loaded", "unwound"},
                     each : Nat, taken : 0..Projections, arrays : Seq(Nat)]
  BY ExpertPagingAssumption DEF ReaderInv, BundleTyped
<1>1. ASSUME NEW fields \in FieldsEach, StartReaders(fields) PROVE ReaderInv'
  <2>1. fields \in Nat /\ 0 \in 0..Projections /\ 0 * fields = 0
    BY <1>0, ExpertPagingAssumption
  <2>2. /\ readers' = [p \in 1..Projections |-> "running"]
        /\ bundle' = [frame |-> "loading", each |-> fields, taken |-> 0, arrays |-> <<>>]
    BY <1>1 DEF StartReaders
  <2>3. BundleTyped'
    BY <2>1, <2>2, EmptySeq DEF BundleTyped
  <2>4. /\ bundle'.taken = 0 /\ bundle'.frame = "loading" /\ Len(bundle'.arrays) = 0
        /\ bundle'.each = fields
    BY <2>2, EmptySeq
  <2> QED BY <2>1, <2>3, <2>4 DEF ReaderInv, BundleGrows
<1>2. ASSUME NEW p \in 1..Projections, NEW how \in {"done", "failed"}, ReaderEnds(p, how)
      PROVE  ReaderInv'
  <2>1. /\ bundle' = bundle /\ readers' = [readers EXCEPT ![p] = how]
        /\ readers[p] = "running"
    BY <1>2 DEF ReaderEnds
  <2>2. BundleTyped'
    BY <1>0, <2>1 DEF BundleTyped
  <2>3. bundle.frame = "loading" => \A q \in 1..bundle.taken : readers'[q] = "taken"
    <3>1. \A q \in 1..bundle.taken : q \in 1..Projections
      BY <1>0
    <3> QED BY <1>0, <2>1, <3>1 DEF ReaderInv, BundleGrows
  <2>4. BundleGrows'
    BY <1>0, <2>1, <2>3 DEF ReaderInv, BundleGrows
  <2> QED BY <2>2, <2>4 DEF ReaderInv
<1>3. ASSUME NEW p \in 1..Projections, TakeReader(p) PROVE ReaderInv'
  <2>0. /\ bundle.frame = "loading" /\ p = bundle.taken + 1
        /\ readers' = [readers EXCEPT ![p] = "taken"]
        /\ bundle.each \in Nat /\ bundle.taken \in Nat /\ bundle.arrays \in Seq(Nat)
    BY <1>0, <1>3 DEF TakeReader, NextReader
  <2>1. CASE bundle' = [bundle EXCEPT !.frame = "unwinding"]
    BY <1>0, <2>0, <2>1 DEF ReaderInv, BundleTyped, BundleGrows
  <2>2. CASE bundle' = [bundle EXCEPT !.taken = @ + 1,
               !.arrays = @ \o [f \in 1..bundle.each |-> (p - 1) * bundle.each + f]]
    <3> DEFINE e == bundle.each
               m == bundle.taken
               old == bundle.arrays
               new == [f \in 1..e |-> (p - 1) * e + f]
    <3>1. /\ bundle'.taken = m + 1 /\ bundle'.each = e /\ bundle'.frame = "loading"
          /\ bundle'.arrays = old \o new
      BY <1>0, <2>0, <2>2
    <3>2. e \in Nat /\ m \in Nat /\ p = m + 1 /\ old \in Seq(Nat) /\ Len(old) = m * e
          /\ \A i \in 1..Len(old) : old[i] = i
      BY <2>0 DEF ReaderInv, BundleGrows
    <3>3. m * e \in Nat /\ (m + 1) * e = m * e + e /\ p - 1 = m
      <4> HIDE DEF m, e
      <4>1. m * e \in Nat /\ (m + 1) * e = m * e + e
        BY <3>2, OneMoreProjection
      <4>2. p - 1 = m
        BY <3>2
      <4> QED BY <4>1, <4>2
    <3>4. new \in Seq(Nat) /\ Len(new) = e /\ \A f \in 1..e : new[f] = m * e + f
      <4>1. new \in [1..e -> Nat] /\ \A f \in 1..e : new[f] = m * e + f
        BY <3>2, <3>3
      <4> HIDE DEF new, e
      <4> QED BY <3>2, <4>1, SeqDef, LenProperties
    <3>5. bundle' \in [frame : {"none", "loading", "unwinding", "loaded", "unwound"},
                       each : Nat, taken : 0..Projections, arrays : Seq(Nat)]
      <4>1. old \o new \in Seq(Nat)
        BY <3>2, <3>4, ConcatProperties
      <4>2. m + 1 \in 0..Projections
        BY <1>0, <3>2
      <4> HIDE DEF new
      <4> QED BY <1>0, <2>2, <4>1, <4>2 DEF new
    <3>6. /\ Len(old \o new) = m * e + e
          /\ \A i \in 1..(m * e + e) : (old \o new)[i] = i
      <4> HIDE DEF new, old, e, m
      <4>1. /\ Len(old \o new) = Len(old) + Len(new)
            /\ \A i \in 1..(Len(old) + Len(new)) :
                 (old \o new)[i] = IF i <= Len(old) THEN old[i] ELSE new[i - Len(old)]
        BY <3>2, <3>4, ConcatProperties
      <4> DEFINE n == m * e
      <4>2. n \in Nat /\ Len(old) = n /\ Len(new) = e /\ \A f \in 1..e : new[f] = n + f
        BY <3>2, <3>3, <3>4
      <4> HIDE DEF n
      <4>3. ASSUME NEW i \in 1..(n + e) PROVE (old \o new)[i] = i
        <5>1. (old \o new)[i] = IF i <= n THEN old[i] ELSE new[i - n]
          BY <4>1, <4>2
        <5>2. i <= n => old[i] = i
          BY <3>2, <4>2
        <5>3. ~(i <= n) => i - n \in 1..e /\ n + (i - n) = i
          BY <3>2, <4>2
        <5> QED BY <4>2, <5>1, <5>2, <5>3
      <4> QED BY <4>1, <4>2, <4>3 DEF n
    <3>7. \A q \in 1..(m + 1) : readers'[q] = "taken"
      <4>1. \A q \in 1..m : readers[q] = "taken"
        BY <2>0 DEF ReaderInv, BundleGrows
      <4>2. \A q \in 1..(m + 1) : q \in 1..Projections /\ (q = p \/ q \in 1..m)
        BY <1>0, <3>2
      <4> QED BY <1>0, <2>0, <4>1, <4>2
    <3>8. BundleTyped'
      BY <1>0, <2>0, <3>5 DEF BundleTyped
    <3>9. BundleGrows'
      <4> HIDE DEF new, old, e, m
      <4>1. /\ bundle'.taken * bundle'.each = m * e + e
            /\ Len(bundle'.arrays) = m * e + e
        BY <3>1, <3>3, <3>6
      <4> QED BY <3>1, <3>6, <3>7, <4>1 DEF BundleGrows
    <3> QED BY <3>8, <3>9 DEF ReaderInv
  <2> QED BY <1>3, <2>1, <2>2 DEF TakeReader
<1>4. ASSUME NEW ok \in BOOLEAN, FinishBundle(ok) PROVE ReaderInv'
  <2>1. /\ bundle.frame = "loading" /\ bundle.taken = Projections /\ readers' = readers
        /\ \/ bundle' = [bundle EXCEPT !.frame = "loaded"]
           \/ bundle' = [bundle EXCEPT !.frame = "unwound"]
    BY <1>4 DEF FinishBundle
  <2> QED BY <1>0, <2>1 DEF ReaderInv, BundleTyped, BundleGrows
<1>5. CASE LeaveFrame
  BY <1>0, <1>5 DEF LeaveFrame, MayLeave, ReaderInv, BundleTyped, BundleGrows
<1> QED BY <1>1, <1>2, <1>3, <1>4, <1>5 DEF ReaderNext

-----------------------------------------------------------------------------
LEMMA PagingStarts == PagingInit => SlotInv /\ ReaderInv
<1> SUFFICES ASSUME PagingInit PROVE SlotInv /\ ReaderInv
  OBVIOUS
<1>1. /\ slotIds = [s \in Slots |-> IF s < HotSlots THEN s ELSE PagedExperts]
      /\ slotHolds = slotIds /\ failedLayer = FALSE
      /\ leased = [s \in Slots |-> 0] /\ reads = {} /\ form = "idle"
      /\ toLease = <<>> /\ pagingResult = "none"
  BY DEF PagingInit, None
<1>2. slotIds \in [Slots -> 0..PagedExperts] /\ slotHolds \in [Slots -> 0..(PagedExperts + 1)]
  <2>1. \A s \in Slots : (IF s < HotSlots THEN s ELSE PagedExperts) \in 0..PagedExperts
    BY SlotSets
  <2>2. 0..PagedExperts \subseteq 0..(PagedExperts + 1)
    BY SlotSets
  <2> QED BY <1>1, <2>1, <2>2
<1>3. SlotsTyped
  BY <1>1, <1>2, EmptySeq DEF SlotsTyped
<1>4. HotStay /\ LeasesHold /\ CallFits /\ PoolSuffices
  BY <1>1 DEF HotStay, LeasesHold, CallFits, PoolSuffices
<1>5. ReadsFindTheirExpert /\ SlotsTruthful
  BY <1>1 DEF ReadsFindTheirExpert, SlotsTruthful
<1>6. /\ readers = [p \in 1..Projections |-> "taken"]
      /\ bundle = [frame |-> "none", each |-> 0, taken |-> 0, arrays |-> <<>>]
      /\ 0 \in 0..Projections
  BY ExpertPagingAssumption DEF PagingInit
<1>7. BundleTyped
  BY <1>6, EmptySeq DEF BundleTyped
<1>8. bundle.frame = "none" /\ bundle.taken = 0 /\ bundle.each = 0 /\ Len(bundle.arrays) = 0
  BY <1>6, EmptySeq
<1>9. BundleGrows
  BY <1>8 DEF BundleGrows
<1> QED BY <1>3, <1>4, <1>5, <1>7, <1>9 DEF SlotInv, ReaderInv

\* The GPU never computes with an expert that it was not given: a projection
\* finds its expert in its slot until it is evaluated, a published slot of a
\* layer in use holds what it is published for, no call runs out of slots, and
\* a bundle has its fields in order whatever the order of its readers.  For any
\* number of experts, slots and readers with groups no larger than the pool.
THEOREM PagesStayTruthful == PagingSpec => []PagesTruthful
<1>1. PagingInit => SlotInv /\ ReaderInv
  BY PagingStarts
<1>2. SlotInv /\ ReaderInv /\ [SlotNext \/ ReaderNext]_pagingVars => (SlotInv /\ ReaderInv)'
  <2> SUFFICES ASSUME SlotInv, ReaderInv, [SlotNext \/ ReaderNext]_pagingVars
               PROVE  SlotInv' /\ ReaderInv'
    OBVIOUS
  <2>1. UNCHANGED slotVars => SlotInv'
    <3> SUFFICES ASSUME UNCHANGED slotVars PROVE SlotInv'
      OBVIOUS
    <3>1. UNCHANGED <<slotIds, slotHolds, failedLayer, leased, reads, form, toLease,
                      pagingResult>>
      BY DEF slotVars
    <3>2. SlotsTyped' /\ HotStay' /\ LeasesHold'
      BY <3>1 DEF SlotInv, SlotsTyped, HotStay, LeasesHold
    <3>3. CallFits'
      BY <3>1 DEF SlotInv, CallFits, ColdAhead
    <3>4. ReadsFindTheirExpert' /\ SlotsTruthful' /\ PoolSuffices'
      BY <3>1 DEF SlotInv, ReadsFindTheirExpert, SlotsTruthful, PoolSuffices
    <3> QED BY <3>2, <3>3, <3>4 DEF SlotInv
  <2>2. UNCHANGED readerVars => ReaderInv'
    BY DEF readerVars, ReaderInv, BundleTyped, BundleGrows
  <2>3. CASE SlotNext
    BY <2>2, <2>3, SlotsNext DEF SlotNext
  <2>4. CASE ReaderNext
    BY <2>1, <2>4, ReadersNext DEF ReaderNext
  <2>5. CASE UNCHANGED pagingVars
    BY <2>1, <2>2, <2>5 DEF pagingVars
  <2> QED BY <2>3, <2>4, <2>5
<1>3. SlotInv /\ ReaderInv => PagesTruthful
  BY ReadersInOrder DEF SlotInv, PagesTruthful
<1> QED BY <1>1, <1>2, <1>3, PTL DEF PagingSpec

-----------------------------------------------------------------------------
(* Dispatch.  What can be said of the rows on their way, function by       *)
(* function, in addition to the property itself.                           *)

Givers == {"decode", "experts", "decode_multi", "verify", "prefill"}

Callees == Givers \cup {"compact_routed", "paged", "paged_row", "paged_vq_group"}

\* The rows of the call, none of them computed yet.
Whole == left = 0 /\ computed = 0 /\ Rows = asked.rows

CallTyped ==
  /\ layer \in Layers
  /\ asked \in Asks
  /\ running \in [f : Callees, rows : Nat \ {0}]
  /\ left \in Nat
  /\ computed \in Nat
  /\ entered \subseteq Givers
  /\ moeResult \in {"opening", "not_opened", "running", "done", "refused"}

\* A layer that is called has opened, and a call that has not begun, or was
\* refused, has computed nothing.
CallStage ==
  /\ moeResult \in {"running", "done", "refused"} => Opens(layer)
  /\ moeResult \in {"opening", "not_opened", "refused"} => left = 0 /\ computed = 0
  /\ moeResult = "opening" => running = asked
  /\ moeResult = "running" => computed + left + Rows = asked.rows
  /\ moeResult = "done" => left = 0 /\ computed = asked.rows

\* A loop hands over single rows, or the groups of a paged VQ layer.
PieceFits ==
  moeResult = "running" =>
    \/ Whole
    \/ Rows = 1
    \/ running.f = "paged_vq_group" /\ Rows <= RoutedRows

\* How the rows came to the function that is about to run.
CameAlong ==
  /\ running.f = "decode" => Rows = 1 /\ entered = {}
  /\ running.f = "decode_multi" =>
       entered = {} /\ asked.f = "decode_multi" /\ Rows = asked.rows
  /\ running.f = "experts" =>
       Rows = 1 /\ layer.kind \in {"affine", "compact", "vq"} /\ entered \subseteq {"decode"}
  /\ running.f = "compact_routed" => Compact(layer) /\ Rows <= RoutedRows
  /\ running.f = "verify" =>
       /\ "prefill" \in entered =>
            layer.kind \in {"affine", "compact"} /\ SentToVerify(Rows)
       /\ Rows > VerifyRows => asked.f = "verify" \/ TooWideFurtherDown
       /\ entered \subseteq {"decode", "verify", "prefill"}
  /\ running.f = "prefill" =>
       /\ "verify" \in entered =>
            \/ layer.kind = "vq"
            \/ layer.kind = "affine" /\ ~Fused(layer) /\ layer.grouped
            \/ /\ Compact(layer) /\ ~Fused(layer) /\ layer.device
               /\ layer.grouped /\ Rows > 1
       /\ Rows > VerifyRows => asked.f = "prefill"
       /\ entered \subseteq {"decode", "verify", "prefill"}
  /\ running.f = "paged" =>
       Paged(layer) /\ (Rows > VerifyRows => asked.f \in {"verify", "prefill"})
  /\ running.f = "paged_row" => layer.kind = "paged"
  /\ running.f = "paged_vq_group" => layer.kind = "pagedvq" /\ Rows <= RoutedRows

MoeInv ==
  /\ CallTyped /\ CallStage /\ PieceFits /\ CameAlong
  /\ DispatchSettles /\ KernelFits /\ RowsServed

LEMMA MoeNumbers ==
  /\ ConfiguredTopK \in Nat /\ LeastTopK \in Nat /\ RoutedRows \in Nat
  /\ LoneRows \in Nat /\ WideBranch \in Nat /\ GroupFrom \in Nat
  /\ SegmentFrom \in Nat /\ VerifyRows \in Nat /\ PrefillRows \in Nat
  /\ 0 < LeastTopK /\ LeastTopK <= ConfiguredTopK
  /\ 0 < LoneRows /\ LoneRows <= RoutedRows
  /\ 1 < WideBranch /\ WideBranch <= RoutedRows
  /\ RoutedRows < GroupFrom /\ GroupFrom < SegmentFrom
  /\ SegmentFrom < VerifyRows /\ VerifyRows < PrefillRows
  BY MoeDispatchAssumption

LEMMA RowsOfCall ==
  ASSUME CallTyped
  PROVE  /\ Rows \in Nat \ {0}
         /\ asked.rows \in Nat \ {0}
         /\ asked.f \in Entries
         /\ running.f \in Callees
         /\ running = [f |-> running.f, rows |-> Rows]
  BY MoeDispatchAssumption DEF CallTyped, Asks, Entries, Rows, Callees

LEMMA LayerKinds ==
  ASSUME CallTyped
  PROVE  /\ layer.kind \in {"dense", "affine", "compact", "vq", "paged", "pagedvq"}
         /\ layer.topk \in 1..ConfiguredTopK
  BY MoeDispatchAssumption DEF CallTyped

\* A kernel that fits leaves the call as it found it.
LEMMA ComputeKeeps ==
  ASSUME MoeInv, moeResult = "running", NEW k, Compute(k), KernelFits'
  PROVE  MoeInv'

<1>1. /\ CallTyped /\ CallStage /\ PieceFits /\ CameAlong
      /\ DispatchSettles /\ KernelFits /\ RowsServed
  BY DEF MoeInv
<1>2. /\ Rows \in Nat \ {0} /\ left \in Nat /\ computed \in Nat
      /\ running = [f |-> running.f, rows |-> Rows]
      /\ running.f \in Callees
      /\ asked.rows \in Nat
      /\ computed + left + Rows = asked.rows
  BY <1>1, RowsOfCall DEF CallTyped, CallStage
<1>3. /\ kernel' = [name |-> k, rows |-> Rows]
      /\ computed' = computed + Rows
      /\ layer' = layer /\ asked' = asked
  BY DEF Compute, Keep
<1>4. CASE left = 0
  <2>1. /\ moeResult' = "done" /\ running' = running /\ left' = 0 /\ entered' = entered
        /\ Rows' = Rows
    BY <1>4 DEF Compute, Rows
  <2>2. CallTyped'
    BY <1>1, <1>2, <1>3, <2>1 DEF CallTyped
  <2>3. CallStage' /\ RowsServed'
    BY <1>1, <1>2, <1>3, <1>4, <2>1 DEF CallStage, RowsServed, Opens, Routed, Compact
  <2>4. PieceFits'
    BY <2>1 DEF PieceFits
  <2>5. CameAlong' /\ DispatchSettles'
    BY <1>1, <1>3, <2>1
    DEF CameAlong, DispatchSettles, SendsBackAndForth, Compact, Fused, Paged,
        SentToVerify, TooWideFurtherDown
  <2> QED
    BY <2>2, <2>3, <2>4, <2>5 DEF MoeInv
<1>5. CASE left # 0
  <2> DEFINE piece == IF left < Rows THEN left ELSE Rows
  <2>1. /\ moeResult' = "running" /\ left' = left - piece /\ entered' = entered
        /\ running' = [running EXCEPT !.rows = piece]
    BY <1>5 DEF Compute
  <2>2. piece \in Nat \ {0} /\ piece <= left /\ piece <= Rows
    BY <1>2, <1>5
  <2> HIDE DEF piece
  <2>3. running' = [f |-> running.f, rows |-> piece] /\ running'.f = running.f /\ Rows' = piece
    BY <1>2, <2>1 DEF Rows
  <2>4. Rows = 1 \/ (running.f = "paged_vq_group" /\ Rows <= RoutedRows)
    BY <1>1, <1>5 DEF PieceFits, Whole
  <2>5. CallTyped'
    BY <1>1, <1>2, <1>3, <2>1, <2>2, <2>3 DEF CallTyped
  <2>6. CallStage' /\ RowsServed'
    BY <1>1, <1>2, <1>3, <2>1, <2>2, <2>3 DEF CallStage, RowsServed, Opens, Routed, Compact
  <2>7. PieceFits'
    BY <1>2, <2>2, <2>3, <2>4, MoeNumbers DEF PieceFits
  <2>8. CASE Rows = 1
    <3>1. running' = running /\ Rows' = Rows
      BY <1>2, <2>2, <2>3, <2>8
    <3>2. CameAlong' /\ DispatchSettles'
      BY <1>1, <1>3, <2>1, <3>1
      DEF CameAlong, DispatchSettles, SendsBackAndForth, Compact, Fused, Paged,
          SentToVerify, TooWideFurtherDown
    <3> QED
      BY <2>5, <2>6, <2>7, <3>2 DEF MoeInv
  <2>9. CASE running.f = "paged_vq_group" /\ Rows <= RoutedRows
    <3>1. layer.kind = "pagedvq" /\ entered \subseteq Givers
      BY <1>1, <2>9 DEF CameAlong, CallTyped
    <3>2. CameAlong'
      BY <1>2, <1>3, <2>2, <2>3, <2>9, <3>1, MoeNumbers DEF CameAlong
    <3>3. DispatchSettles'
      BY <2>1, <2>3, <2>9, <3>1 DEF DispatchSettles, Givers
    <3> QED
      BY <2>5, <2>6, <2>7, <3>2, <3>3 DEF MoeInv
  <2> QED
    BY <2>4, <2>8, <2>9
<1> QED
  BY <1>4, <1>5

\* Handing the rows over keeps what is not about the function that takes them.
LEMMA HandOverKeeps ==
  ASSUME MoeInv, moeResult = "running", running.f \in Givers,
         NEW f \in Callees, HandOver(f), CameAlong', DispatchSettles'
  PROVE  MoeInv'

<1>1. /\ CallTyped /\ CallStage /\ PieceFits /\ KernelFits /\ RowsServed
  BY DEF MoeInv
<1>2. /\ Rows \in Nat \ {0} /\ running.f \in Callees
      /\ running = [f |-> running.f, rows |-> Rows]
  BY <1>1, RowsOfCall
<1>3. /\ running' = [f |-> f, rows |-> Rows] /\ entered' = entered \cup {running.f}
      /\ left' = left /\ kernel' = kernel /\ computed' = computed
      /\ moeResult' = moeResult /\ layer' = layer /\ asked' = asked
  BY DEF HandOver, Keep
<1>4. Rows' = Rows
  BY <1>3 DEF Rows
<1>5. CallTyped'
  BY <1>1, <1>2, <1>3 DEF CallTyped
<1>6. CallStage' /\ RowsServed'
  BY <1>1, <1>3, <1>4 DEF CallStage, RowsServed, Opens, Routed, Compact
<1>7. PieceFits'
  BY <1>1, <1>3, <1>4 DEF PieceFits, Whole, Givers
<1>8. KernelFits'
  BY <1>1, <1>3 DEF KernelFits, WideReducedVerify, PagedBranch, Compact, Fused, Vq, Paged
<1> QED
  BY <1>5, <1>6, <1>7, <1>8 DEF MoeInv

\* So does cutting them in pieces.
LEMMA InPiecesKeeps ==
  ASSUME MoeInv, moeResult = "running",
         NEW f \in {"decode", "experts", "paged_row", "paged_vq_group"},
         NEW n \in Nat \ {0}, n = 1 \/ (f = "paged_vq_group" /\ n = RoutedRows),
         InPieces(f, n), CameAlong'
  PROVE  MoeInv'

<1>1. /\ CallTyped /\ CallStage /\ PieceFits /\ KernelFits /\ RowsServed
  BY DEF MoeInv
<1>2. /\ Rows \in Nat \ {0} /\ asked.rows \in Nat /\ left \in Nat /\ computed \in Nat
      /\ computed + left + Rows = asked.rows
  BY <1>1, RowsOfCall DEF CallTyped, CallStage
<1> DEFINE piece == IF Rows < n THEN Rows ELSE n
<1>3. /\ running' = [f |-> f, rows |-> piece] /\ entered' = {}
      /\ left' = left + (Rows - piece) /\ kernel' = kernel /\ computed' = computed
      /\ moeResult' = moeResult /\ layer' = layer /\ asked' = asked
  BY DEF InPieces, Keep
<1>4. piece \in Nat \ {0} /\ piece <= Rows /\ piece <= n
  BY <1>2
<1> HIDE DEF piece
<1>5. Rows' = piece /\ running'.f = f
  BY <1>3 DEF Rows
<1>6. CallTyped'
  BY <1>1, <1>2, <1>3, <1>4 DEF CallTyped, Callees, Givers
<1>7. CallStage' /\ RowsServed'
  BY <1>1, <1>2, <1>3, <1>4, <1>5 DEF CallStage, RowsServed, Opens, Routed, Compact
<1>8. PieceFits'
  <2>1. CASE n = 1
    BY <1>3, <1>4, <1>5, <2>1 DEF PieceFits
  <2>2. CASE f = "paged_vq_group" /\ n = RoutedRows
    BY <1>3, <1>4, <1>5, <2>2 DEF PieceFits
  <2> QED
    BY <2>1, <2>2
<1>9. KernelFits'
  BY <1>1, <1>3 DEF KernelFits, WideReducedVerify, PagedBranch, Compact, Fused, Vq, Paged
<1>10. DispatchSettles'
  BY <1>3 DEF DispatchSettles
<1> QED
  BY <1>6, <1>7, <1>8, <1>9, <1>10 DEF MoeInv

\* A refusal of more rows than a verification takes is one of the whole call.
LEMMA RefuseKeeps ==
  ASSUME MoeInv, moeResult = "running", RefuseRows,
         running.f # "paged_vq_group", Rows > VerifyRows,
         \/ asked.f = "verify"
         \/ asked.f = "prefill" /\ asked.rows > PrefillRows
         \/ TooWideFurtherDown
  PROVE  MoeInv'

<1>1. /\ CallTyped /\ CallStage /\ PieceFits /\ CameAlong /\ KernelFits /\ DispatchSettles
  BY DEF MoeInv
<1>2. /\ moeResult' = "refused" /\ running' = running /\ left' = left
      /\ entered' = entered /\ kernel' = kernel /\ computed' = computed
      /\ layer' = layer /\ asked' = asked /\ Rows' = Rows
  BY DEF RefuseRows, Rows, Keep
<1>3. Whole
  <2>1. Rows # 1
    BY <1>1, RowsOfCall, MoeNumbers
  <2> QED
    BY <1>1, <2>1 DEF PieceFits
<1>4. CallTyped'
  BY <1>1, <1>2 DEF CallTyped
<1>5. CallStage' /\ PieceFits'
  BY <1>1, <1>2, <1>3 DEF CallStage, PieceFits, Whole, Opens, Routed, Compact
<1>6. CameAlong' /\ DispatchSettles'
  BY <1>1, <1>2
  DEF CameAlong, DispatchSettles, SendsBackAndForth, Compact, Fused, Paged,
      SentToVerify, TooWideFurtherDown
<1>7. KernelFits'
  BY <1>1, <1>2 DEF KernelFits, WideReducedVerify, PagedBranch, Compact, Fused, Vq, Paged
<1>8. RowsServed'
  BY <1>2, <1>3 DEF RowsServed, Whole, TooWideFurtherDown, Paged
<1> QED
  BY <1>4, <1>5, <1>6, <1>7, <1>8 DEF MoeInv

LEMMA InvParts ==
  ASSUME MoeInv
  PROVE  /\ CallTyped /\ CallStage /\ PieceFits /\ CameAlong
         /\ DispatchSettles /\ KernelFits /\ RowsServed
  BY DEF MoeInv

\* What a kernel that runs next has to fit.
RunsOn(k, n) ==
  /\ k = "fixed" => (~Vq(layer) /\ layer.topk = ConfiguredTopK) \/ WideReducedVerify
  /\ k = "compact_routed" =>
       /\ Compact(layer) /\ n <= RoutedRows
       /\ layer.topk \in LeastTopK..ConfiguredTopK
  /\ k \in {"vq_direct", "vq_segmented"} => layer.kind = "vq"
  /\ k = "vq_routed" =>
       Vq(layer) /\ n <= RoutedRows /\ (layer.kind = "vq" \/ PagedBranch)
  /\ k \in {"paged_packed", "paged_row", "paged_grouped"} => Paged(layer) /\ ~Vq(layer)
  /\ k = "vq_leased" => Paged(layer) /\ n <= RoutedRows

LEMMA RunKeeps ==
  ASSUME MoeInv, moeResult = "running", NEW k, Compute(k), RunsOn(k, Rows)
  PROVE  MoeInv'
<1>1. kernel' = [name |-> k, rows |-> Rows] /\ layer' = layer /\ asked' = asked
  BY DEF Compute, Keep
<1>2. kernel'.name = k /\ kernel'.rows = Rows
  BY <1>1
<1>3. KernelFits'
  BY <1>1, <1>2
  DEF KernelFits, RunsOn, WideReducedVerify, PagedBranch, Compact, Fused, Vq, Paged
<1> QED
  BY <1>3, ComputeKeeps

LEMMA OpenKeeps ==
  ASSUME MoeInv, OpenLayer
  PROVE  MoeInv'
<1>1. /\ CallTyped /\ CallStage /\ PieceFits /\ CameAlong
      /\ DispatchSettles /\ KernelFits /\ RowsServed
  BY InvParts
<1>2. /\ layer' = layer /\ asked' = asked /\ running' = running /\ left' = left
      /\ entered' = entered /\ kernel' = kernel /\ computed' = computed
      /\ moeResult = "opening"
      /\ \/ Opens(layer) /\ moeResult' = "running"
         \/ ~Opens(layer) /\ moeResult' = "not_opened"
  BY DEF OpenLayer
<1>3. Rows' = Rows /\ Rows \in Nat \ {0} /\ asked.rows \in Nat /\ left = 0 /\ computed = 0
  BY <1>1, <1>2, RowsOfCall DEF Rows, CallStage
<1>4. Rows = asked.rows
  BY <1>1, <1>2 DEF CallStage, Rows
<1>5. CallTyped'
  BY <1>1, <1>2 DEF CallTyped
<1>6. CallStage' /\ RowsServed'
  BY <1>2, <1>3, <1>4 DEF CallStage, RowsServed, Opens, Routed, Compact
<1>7. PieceFits'
  BY <1>2, <1>3, <1>4 DEF PieceFits, Whole
<1>8. CameAlong' /\ DispatchSettles'
  BY <1>1, <1>2, <1>3
  DEF CameAlong, DispatchSettles, SendsBackAndForth, Compact, Fused, Paged,
      SentToVerify, TooWideFurtherDown
<1>9. KernelFits'
  BY <1>1, <1>2 DEF KernelFits, WideReducedVerify, PagedBranch, Compact, Fused, Vq, Paged
<1> QED
  BY <1>5, <1>6, <1>7, <1>8, <1>9 DEF MoeInv

\* The function that takes the rows over, in the terms of the old state.
Came(f, n, seen) ==
  /\ f = "experts" =>
       n = 1 /\ layer.kind \in {"affine", "compact", "vq"} /\ seen \subseteq {"decode"}
  /\ f = "compact_routed" => Compact(layer) /\ n <= RoutedRows
  /\ f = "verify" =>
       /\ "prefill" \in seen =>
            layer.kind \in {"affine", "compact"} /\ SentToVerify(n)
       /\ n > VerifyRows => TooWideFurtherDown
       /\ seen \subseteq {"decode", "verify", "prefill"}
  /\ f = "prefill" =>
       /\ "verify" \in seen =>
            \/ layer.kind = "vq"
            \/ layer.kind = "affine" /\ ~Fused(layer) /\ layer.grouped
            \/ /\ Compact(layer) /\ ~Fused(layer) /\ layer.device
               /\ layer.grouped /\ n > 1
       /\ n <= VerifyRows
       /\ seen \subseteq {"decode", "verify", "prefill"}
  /\ f = "paged" =>
       Paged(layer) /\ (n > VerifyRows => asked.f \in {"verify", "prefill"})
  /\ f \in seen =>
       /\ Compact(layer) /\ ~Fused(layer) /\ layer.device /\ layer.grouped
       /\ n \in 2..RoutedRows

LEMMA PassKeeps ==
  ASSUME MoeInv, moeResult = "running", running.f \in Givers,
         NEW f \in {"experts", "compact_routed", "verify", "prefill", "paged"},
         HandOver(f), Came(f, Rows, entered \cup {running.f})
  PROVE  MoeInv'
<1>1. /\ running' = [f |-> f, rows |-> Rows] /\ entered' = entered \cup {running.f}
      /\ layer' = layer /\ asked' = asked
  BY DEF HandOver, Keep
<1>2. running'.f = f /\ Rows' = Rows
  BY <1>1 DEF Rows
<1>3. Rows \in Nat /\ VerifyRows \in Nat
  BY InvParts, RowsOfCall, MoeNumbers
<1>4. CameAlong'
  BY <1>1, <1>2, <1>3 DEF CameAlong, Came, Compact, Paged, Fused, SentToVerify, TooWideFurtherDown
<1>5. DispatchSettles'
  BY <1>1, <1>2 DEF DispatchSettles, Came, SendsBackAndForth, Compact, Fused
<1> QED
  BY <1>4, <1>5, HandOverKeeps DEF Callees, Givers

LEMMA CutKeeps ==
  ASSUME MoeInv, moeResult = "running",
         NEW f \in {"decode", "experts", "paged_row", "paged_vq_group"},
         NEW n \in Nat \ {0}, n = 1 \/ (f = "paged_vq_group" /\ n = RoutedRows),
         InPieces(f, n),
         f = "experts" => layer.kind \in {"affine", "compact", "vq"},
         f = "paged_row" => layer.kind = "paged",
         f = "paged_vq_group" => layer.kind = "pagedvq"
  PROVE  MoeInv'
<1>1. /\ running' = [f |-> f, rows |-> IF Rows < n THEN Rows ELSE n] /\ entered' = {}
      /\ layer' = layer /\ asked' = asked
  BY DEF InPieces, Keep
<1>2. Rows \in Nat \ {0}
  BY InvParts, RowsOfCall
<1>3. running'.f = f /\ Rows' <= n /\ Rows' \in Nat \ {0}
  BY <1>1, <1>2 DEF Rows
<1>4. n <= RoutedRows /\ (f # "paged_vq_group" => Rows' = 1)
  BY <1>3, MoeNumbers
<1>5. Rows' <= RoutedRows
  BY <1>3, <1>4, MoeNumbers
<1>6. CameAlong'
  BY <1>1, <1>3, <1>4, <1>5 DEF CameAlong
<1> QED
  BY <1>6, InPiecesKeeps

LEMMA Arrived ==
  ASSUME MoeInv, NEW f, At(f)
  PROVE  /\ moeResult = "running" /\ running.f = f
         /\ Rows \in Nat \ {0} /\ asked.rows \in Nat \ {0} /\ asked.f \in Entries
         /\ layer.kind \in {"dense", "affine", "compact", "vq", "paged", "pagedvq"}
         /\ layer.topk \in 1..ConfiguredTopK
         /\ Opens(layer)
         /\ entered \subseteq Givers
         /\ Whole \/ Rows = 1 \/ f = "paged_vq_group"
         /\ CameAlong
         /\ f \in entered => SendsBackAndForth
<1>1. /\ CallTyped /\ CallStage /\ PieceFits /\ CameAlong /\ DispatchSettles
      /\ moeResult = "running" /\ running.f = f
  BY InvParts DEF At
<1>2. Opens(layer) /\ (Whole \/ Rows = 1 \/ f = "paged_vq_group")
  BY <1>1 DEF CallStage, PieceFits
<1> QED
  BY <1>1, <1>2, RowsOfCall, LayerKinds DEF CallTyped, DispatchSettles

LEMMA DecodeKeeps ==
  ASSUME MoeInv, Decode
  PROVE  MoeInv'
<1>1. At("decode")
  BY DEF Decode
<1>2. /\ moeResult = "running" /\ running.f = "decode"
      /\ layer.kind \in {"dense", "affine", "compact", "vq", "paged", "pagedvq"}
      /\ Rows = 1 /\ entered = {}
  BY <1>1, Arrived DEF CameAlong
<1>3. running.f \in Givers /\ entered \cup {running.f} = {"decode"} /\ VerifyRows \in Nat /\ VerifyRows > 1
  BY <1>2, MoeNumbers DEF Givers
<1>4. \/ Compute("shared")
      \/ Paged(layer) /\ HandOver("paged")
      \/ layer.kind = "affine" /\ HandOver("verify")
      \/ layer.kind \in {"affine", "compact", "vq"} /\ HandOver("experts")
  BY <1>2 DEF Decode, Routed, Paged
<1>5. CASE Compute("shared")
  <2>1. RunsOn("shared", Rows)
    BY DEF RunsOn
  <2> QED
    BY <1>2, <1>5, <2>1, RunKeeps
<1>6. CASE Paged(layer) /\ HandOver("paged")
  <2>1. Came("paged", Rows, {"decode"})
    BY <1>2, <1>3, <1>6 DEF Came
  <2> QED
    BY <1>2, <1>3, <1>6, <2>1, PassKeeps
<1>7. CASE layer.kind = "affine" /\ HandOver("verify")
  <2>1. Came("verify", Rows, {"decode"})
    BY <1>2, <1>3, <1>7 DEF Came
  <2> QED
    BY <1>2, <1>3, <1>7, <2>1, PassKeeps
<1>8. CASE layer.kind \in {"affine", "compact", "vq"} /\ HandOver("experts")
  <2>1. Came("experts", Rows, {"decode"})
    BY <1>2, <1>3, <1>8 DEF Came
  <2> QED
    BY <1>2, <1>3, <1>8, <2>1, PassKeeps
<1> QED
  BY <1>4, <1>5, <1>6, <1>7, <1>8

LEMMA ExpertsKeeps ==
  ASSUME MoeInv, Experts
  PROVE  MoeInv'
<1>1. At("experts")
  BY DEF Experts
<1>2. /\ moeResult = "running" /\ running.f = "experts"
      /\ layer.kind \in {"affine", "compact", "vq"}
      /\ Rows = 1 /\ entered \subseteq {"decode"} /\ Opens(layer)
  BY <1>1, Arrived DEF CameAlong
<1>3. running.f \in Givers /\ Rows <= RoutedRows
  BY <1>2, MoeNumbers DEF Givers
<1>4. \/ layer.kind = "vq" /\ Compute("vq_routed")
      \/ Compact(layer) /\ HandOver("compact_routed")
      \/ layer.kind = "affine" /\ Compute("fixed")
      \/ Compute("by_expert")
  BY <1>2 DEF Experts, Vq, VqRow, FixedRow, ByExpert, Compact, Fused
<1>5. CASE layer.kind = "vq" /\ Compute("vq_routed")
  <2>1. RunsOn("vq_routed", Rows)
    BY <1>3, <1>5 DEF RunsOn, Vq
  <2> QED
    BY <1>2, <1>5, <2>1, RunKeeps
<1>6. CASE Compact(layer) /\ HandOver("compact_routed")
  <2>1. Came("compact_routed", Rows, entered \cup {running.f})
    BY <1>2, <1>3, <1>6 DEF Came
  <2> QED
    BY <1>2, <1>3, <1>6, <2>1, PassKeeps
<1>7. CASE layer.kind = "affine" /\ Compute("fixed")
  <2>1. RunsOn("fixed", Rows)
    BY <1>2, <1>7 DEF RunsOn, Vq, Opens, Routed, Compact
  <2> QED
    BY <1>2, <1>7, <2>1, RunKeeps
<1>8. CASE Compute("by_expert")
  <2>1. RunsOn("by_expert", Rows)
    BY DEF RunsOn
  <2> QED
    BY <1>2, <1>8, <2>1, RunKeeps
<1> QED
  BY <1>4, <1>5, <1>6, <1>7, <1>8

LEMMA DecodeMultiKeeps ==
  ASSUME MoeInv, DecodeMulti
  PROVE  MoeInv'
<1>1. At("decode_multi")
  BY DEF DecodeMulti
<1>2. /\ moeResult = "running" /\ running.f = "decode_multi"
      /\ Rows \in Nat /\ Rows = asked.rows /\ asked.f = "decode_multi"
      /\ layer.kind \in {"dense", "affine", "compact", "vq", "paged", "pagedvq"}
      /\ entered = {}
  BY <1>1, Arrived DEF CameAlong
<1>3. running.f \in Givers /\ entered \cup {running.f} = {"decode_multi"}
  BY <1>2 DEF Givers
<1>4. \/ BranchBatch /\ VqBatch
      \/ InPieces("decode", 1)
      \/ Compact(layer) /\ ~(Rows > RoutedRows) /\ HandOver("compact_routed")
  BY DEF DecodeMulti
<1>5. CASE BranchBatch /\ VqBatch
  <2>1. Vq(layer) /\ Rows >= 2 /\ (Rows = 2 \/ Rows <= WideBranch)
    BY <1>2, <1>5 DEF BranchBatch
  <2>2. Rows \in 2..WideBranch /\ Rows <= RoutedRows
    BY <1>2, <2>1, MoeNumbers
  <2>3. Compute("vq_routed")
    BY <1>5, <2>2 DEF VqBatch
  <2>4. layer.kind = "vq" \/ PagedBranch
    BY <1>2, <2>1, <2>2 DEF Vq, PagedBranch
  <2>5. RunsOn("vq_routed", Rows)
    BY <2>1, <2>2, <2>4 DEF RunsOn
  <2> QED
    BY <1>2, <2>3, <2>5, RunKeeps
<1>6. CASE InPieces("decode", 1)
  BY <1>2, <1>6, CutKeeps
<1>7. CASE Compact(layer) /\ ~(Rows > RoutedRows) /\ HandOver("compact_routed")
  <2>1. Rows <= RoutedRows
    BY <1>2, <1>7, MoeNumbers
  <2>2. Came("compact_routed", Rows, {"decode_multi"})
    BY <1>2, <1>7, <2>1 DEF Came
  <2> QED
    BY <1>2, <1>3, <1>7, <2>2, PassKeeps
<1> QED
  BY <1>4, <1>5, <1>6, <1>7

LEMMA CompactRoutedKeeps ==
  ASSUME MoeInv, CompactRouted
  PROVE  MoeInv'
<1>1. At("compact_routed")
  BY DEF CompactRouted
<1>2. /\ moeResult = "running" /\ Rows \in Nat /\ Compact(layer) /\ Rows <= RoutedRows
      /\ layer.topk \in 1..ConfiguredTopK /\ Opens(layer)
  BY <1>1, Arrived DEF CameAlong
<1>3. layer.topk \in LeastTopK..ConfiguredTopK
  BY <1>2, MoeNumbers DEF Opens
<1>4. CompactTakes(Rows)
  BY <1>2, <1>3, MoeNumbers DEF CompactTakes
<1>5. Compute("compact_routed")
  BY <1>4 DEF CompactRouted
<1>6. RunsOn("compact_routed", Rows)
  BY <1>2, <1>3 DEF RunsOn
<1> QED
  BY <1>2, <1>5, <1>6, RunKeeps

LEMMA VerifyKeeps ==
  ASSUME MoeInv, Verify
  PROVE  MoeInv'
<1>1. At("verify")
  BY DEF Verify
<1>2. /\ moeResult = "running" /\ running.f = "verify" /\ Rows \in Nat \ {0}
      /\ layer.kind \in {"dense", "affine", "compact", "vq", "paged", "pagedvq"}
      /\ layer.topk \in 1..ConfiguredTopK /\ Opens(layer)
      /\ "prefill" \in entered =>
           layer.kind \in {"affine", "compact"} /\ SentToVerify(Rows)
      /\ Rows > VerifyRows => asked.f = "verify" \/ TooWideFurtherDown
      /\ entered \subseteq {"decode", "verify", "prefill"}
  BY <1>1, Arrived DEF CameAlong
<1>3. /\ running.f \in Givers
      /\ entered \cup {running.f} \subseteq {"decode", "verify", "prefill"}
      /\ "prefill" \in entered \cup {running.f} => "prefill" \in entered
  BY <1>2 DEF Givers
<1> DEFINE seen == entered \cup {running.f}
<1>4. \/ Compute("shared")
      \/ Paged(layer) /\ HandOver("paged")
      \/ Rows > VerifyRows /\ RefuseRows
      \/ layer.kind = "vq" /\ Rows <= VerifyRows /\ HandOver("prefill")
      \/ /\ layer.kind = "affine" /\ ~Fused(layer) /\ layer.grouped
         /\ ~(Rows > VerifyRows) /\ HandOver("prefill")
      \/ /\ Fused(layer) /\ layer.device
         /\ \/ Compact(layer) /\ Rows <= RoutedRows /\ HandOver("compact_routed")
            \/ Compute("fixed")
      \/ /\ Compact(layer) /\ ~Fused(layer) /\ Rows > 1 /\ layer.device
         /\ layer.grouped /\ ~(Rows > VerifyRows) /\ HandOver("prefill")
      \/ layer.kind \in {"affine", "compact"} /\ InPieces("experts", 1)
  <2>1. CASE layer.kind = "dense"
    BY <2>1 DEF Verify, Routed, Paged, Vq
  <2>2. CASE layer.kind \in {"paged", "pagedvq"}
    BY <2>2 DEF Verify, Routed, Paged, Vq
  <2>3. CASE layer.kind = "vq"
    BY <1>2, <2>3, MoeNumbers DEF Verify, Routed, Paged, Vq
  <2>4. CASE layer.kind \in {"affine", "compact"} /\ Rows > VerifyRows
    BY <2>4 DEF Verify, Routed, Paged, Vq
  <2>5. CASE layer.kind \in {"affine", "compact"} /\ ~(Rows > VerifyRows)
    <3>1. CASE layer.kind = "affine" /\ ~Fused(layer) /\ layer.device /\ layer.grouped
      BY <2>5, <3>1 DEF Verify, Routed, Paged, Vq, Compact
    <3>2. CASE Fused(layer) /\ layer.device
      BY <2>5, <3>2 DEF Verify, Routed, Paged, Vq, Compact, FixedRows
    <3>3. CASE /\ Compact(layer) /\ ~Fused(layer) /\ Rows > 1
               /\ layer.device /\ layer.grouped
      BY <2>5, <3>3 DEF Verify, Routed, Paged, Vq, Compact
    <3>4. CASE /\ ~(layer.kind = "affine" /\ ~Fused(layer) /\ layer.device /\ layer.grouped)
               /\ ~(Fused(layer) /\ layer.device)
               /\ ~(/\ Compact(layer) /\ ~Fused(layer) /\ Rows > 1
                    /\ layer.device /\ layer.grouped)
      BY <2>5, <3>4 DEF Verify, Routed, Paged, Vq, Compact
    <3> QED
      BY <3>1, <3>2, <3>3, <3>4
  <2> QED
    BY <1>2, <2>1, <2>2, <2>3, <2>4, <2>5
<1>5. CASE Compute("shared")
  <2>1. RunsOn("shared", Rows)
    BY DEF RunsOn
  <2> QED
    BY <1>2, <1>5, <2>1, RunKeeps
<1>6. CASE Paged(layer) /\ HandOver("paged")
  <2>1. Rows > VerifyRows => asked.f \in {"verify", "prefill"}
    BY <1>2 DEF TooWideFurtherDown
  <2>2. Came("paged", Rows, seen)
    BY <1>3, <1>6, <2>1 DEF Came
  <2> QED
    BY <1>2, <1>3, <1>6, <2>2, PassKeeps
<1>7. CASE Rows > VerifyRows /\ RefuseRows
  BY <1>2, <1>7, RefuseKeeps
<1>8. CASE layer.kind = "vq" /\ Rows <= VerifyRows /\ HandOver("prefill")
  <2>1. "prefill" \notin seen
    BY <1>2, <1>3, <1>8
  <2>2. Came("prefill", Rows, seen)
    BY <1>3, <1>8, <2>1 DEF Came
  <2> QED
    BY <1>2, <1>3, <1>8, <2>2, PassKeeps
<1>9. CASE /\ layer.kind = "affine" /\ ~Fused(layer) /\ layer.grouped
           /\ ~(Rows > VerifyRows) /\ HandOver("prefill")
  <2>1. "prefill" \notin seen
    BY <1>2, <1>3, <1>9 DEF SentToVerify, Compact
  <2>2. Rows <= VerifyRows
    BY <1>2, <1>9, MoeNumbers
  <2>3. Came("prefill", Rows, seen)
    BY <1>3, <1>9, <2>1, <2>2 DEF Came
  <2> QED
    BY <1>2, <1>3, <1>9, <2>3, PassKeeps
<1>10. CASE /\ Fused(layer) /\ layer.device
            /\ Compact(layer) /\ Rows <= RoutedRows /\ HandOver("compact_routed")
  <2>1. Came("compact_routed", Rows, seen)
    BY <1>3, <1>10 DEF Came
  <2> QED
    BY <1>2, <1>3, <1>10, <2>1, PassKeeps
<1>11. CASE Fused(layer) /\ layer.device /\ Compute("fixed")
  <2>1. layer.kind \in {"affine", "compact"}
    BY <1>11 DEF Fused
  <2>2. ~Compact(layer) => layer.topk = ConfiguredTopK
    BY <1>2, <2>1 DEF Opens, Routed, Compact
  <2>3. layer.topk = ConfiguredTopK \/ layer.topk < ConfiguredTopK
    BY <1>2, MoeNumbers
  <2>4. RunsOn("fixed", Rows)
    BY <1>11, <2>1, <2>2, <2>3 DEF RunsOn, WideReducedVerify, Vq
  <2> QED
    BY <1>2, <1>11, <2>4, RunKeeps
<1>12. CASE /\ Compact(layer) /\ ~Fused(layer) /\ Rows > 1 /\ layer.device
            /\ layer.grouped /\ ~(Rows > VerifyRows) /\ HandOver("prefill")
  <2>1. Rows <= VerifyRows
    BY <1>2, <1>12, MoeNumbers
  <2>2. "prefill" \in seen => Rows <= RoutedRows
    BY <1>2, <1>3, <1>12 DEF SentToVerify
  <2>3. "prefill" \in seen => Rows \in 2..RoutedRows
    BY <1>2, <1>12, <2>2, MoeNumbers
  <2>4. Came("prefill", Rows, seen)
    BY <1>3, <1>12, <2>1, <2>3 DEF Came
  <2> QED
    BY <1>2, <1>3, <1>12, <2>4, PassKeeps
<1>13. CASE layer.kind \in {"affine", "compact"} /\ InPieces("experts", 1)
  BY <1>2, <1>13, CutKeeps
<1> QED
  BY <1>4, <1>5, <1>6, <1>7, <1>8, <1>9, <1>10, <1>11, <1>12, <1>13

LEMMA PrefillKeeps ==
  ASSUME MoeInv, Prefill
  PROVE  MoeInv'
<1>1. At("prefill")
  BY DEF Prefill
<1>2. /\ moeResult = "running" /\ running.f = "prefill" /\ Rows \in Nat \ {0}
      /\ layer.kind \in {"dense", "affine", "compact", "vq", "paged", "pagedvq"}
      /\ Whole \/ Rows = 1
      /\ "verify" \in entered =>
            \/ layer.kind = "vq"
            \/ layer.kind = "affine" /\ ~Fused(layer) /\ layer.grouped
            \/ /\ Compact(layer) /\ ~Fused(layer) /\ layer.device
               /\ layer.grouped /\ Rows > 1
      /\ Rows > VerifyRows => asked.f = "prefill"
      /\ entered \subseteq {"decode", "verify", "prefill"}
  BY <1>1, Arrived DEF CameAlong
<1>3. /\ running.f \in Givers
      /\ entered \cup {running.f} \subseteq {"decode", "verify", "prefill"}
      /\ "verify" \in entered \cup {running.f} => "verify" \in entered
  BY <1>2 DEF Givers
<1> DEFINE seen == entered \cup {running.f}
<1>4. Rows > VerifyRows => Rows = asked.rows /\ asked.f = "prefill"
  <2>1. Rows > VerifyRows => Rows # 1
    BY <1>2, MoeNumbers
  <2> QED
    BY <1>2, <2>1 DEF Whole
<1>5. \/ Compute("shared")
      \/ Paged(layer) /\ HandOver("paged")
      \/ Rows > PrefillRows /\ RefuseRows
      \/ layer.kind = "vq" /\ (Compute("vq_segmented") \/ Compute("vq_direct"))
      \/ layer.kind \in {"affine", "compact"} /\ SentToVerify(Rows) /\ HandOver("verify")
      \/ Compute("grouped")
  <2>1. CASE layer.kind = "dense"
    BY <2>1 DEF Prefill, Routed, Paged, Vq
  <2>2. CASE layer.kind \in {"paged", "pagedvq"}
    BY <2>2 DEF Prefill, Routed, Paged, Vq
  <2>3. CASE layer.kind = "vq"
    BY <1>2, <2>3, MoeNumbers DEF Prefill, Routed, Paged, Vq, VqSegmented, VqDirect
  <2>4. CASE layer.kind \in {"affine", "compact"}
    BY <2>4 DEF Prefill, Routed, Paged, Vq, Grouped
  <2> QED
    BY <1>2, <2>1, <2>2, <2>3, <2>4
<1>6. CASE Compute("shared")
  <2>1. RunsOn("shared", Rows)
    BY DEF RunsOn
  <2> QED
    BY <1>2, <1>6, <2>1, RunKeeps
<1>7. CASE Paged(layer) /\ HandOver("paged")
  <2>1. Came("paged", Rows, seen)
    BY <1>3, <1>4, <1>7 DEF Came
  <2> QED
    BY <1>2, <1>3, <1>7, <2>1, PassKeeps
<1>8. CASE Rows > PrefillRows /\ RefuseRows
  <2>1. Rows > VerifyRows
    BY <1>2, <1>8, MoeNumbers
  <2>2. asked.f = "prefill" /\ asked.rows > PrefillRows
    BY <1>4, <1>8, <2>1
  <2> QED
    BY <1>2, <1>8, <2>1, <2>2, RefuseKeeps
<1>9. CASE layer.kind = "vq" /\ (Compute("vq_segmented") \/ Compute("vq_direct"))
  <2>1. RunsOn("vq_segmented", Rows) /\ RunsOn("vq_direct", Rows)
    BY <1>9 DEF RunsOn
  <2> QED
    BY <1>2, <1>9, <2>1, RunKeeps
<1>10. CASE /\ layer.kind \in {"affine", "compact"} /\ SentToVerify(Rows)
            /\ HandOver("verify")
  <2>1. CASE Compact(layer)
    <3>1. Rows <= RoutedRows
      BY <1>10, <2>1 DEF SentToVerify
    <3>2. ~(Rows > VerifyRows)
      BY <1>2, <3>1, MoeNumbers
    <3>3. "verify" \in seen =>
            ~Fused(layer) /\ layer.device /\ layer.grouped /\ Rows > 1
      BY <1>2, <1>3, <2>1 DEF Compact
    <3>4. "verify" \in seen => Rows \in 2..RoutedRows
      BY <1>2, <3>1, <3>3, MoeNumbers
    <3>5. Came("verify", Rows, seen)
      BY <1>3, <1>10, <2>1, <3>2, <3>3, <3>4 DEF Came
    <3> QED
      BY <1>2, <1>3, <1>10, <3>5, PassKeeps
  <2>2. CASE ~Compact(layer)
    <3>1. layer.kind = "affine" /\ ((Fused(layer) /\ Rows < GroupFrom) \/ ~layer.grouped)
      BY <1>10, <2>2 DEF SentToVerify, Compact
    <3>2. "verify" \notin seen
      BY <1>2, <1>3, <2>2, <3>1
    <3>3. Rows > VerifyRows => ~(Rows < GroupFrom)
      BY <1>2, MoeNumbers
    <3>4. Rows > VerifyRows => TooWideFurtherDown
      BY <1>4, <3>1, <3>3 DEF TooWideFurtherDown
    <3>5. Came("verify", Rows, seen)
      BY <1>3, <1>10, <3>2, <3>4 DEF Came
    <3> QED
      BY <1>2, <1>3, <1>10, <3>5, PassKeeps
  <2> QED
    BY <2>1, <2>2
<1>11. CASE Compute("grouped")
  <2>1. RunsOn("grouped", Rows)
    BY DEF RunsOn
  <2> QED
    BY <1>2, <1>11, <2>1, RunKeeps
<1> QED
  BY <1>5, <1>6, <1>7, <1>8, <1>9, <1>10, <1>11

LEMMA PagedRowsKeeps ==
  ASSUME MoeInv, PagedRows
  PROVE  MoeInv'
<1>1. At("paged")
  BY DEF PagedRows
<1>2. /\ moeResult = "running" /\ running.f = "paged" /\ Rows \in Nat \ {0}
      /\ Whole \/ Rows = 1
      /\ Paged(layer)
      /\ Rows > VerifyRows => asked.f \in {"verify", "prefill"}
  BY <1>1, Arrived DEF CameAlong
<1>3. \/ Rows > VerifyRows /\ RefuseRows
      \/ /\ Vq(layer)
         /\ InPieces("paged_vq_group", 1) \/ InPieces("paged_vq_group", RoutedRows)
      \/ /\ ~Vq(layer)
         /\ \/ Compute("paged_grouped") \/ Compute("paged_packed")
            \/ Compute("paged_row") \/ InPieces("paged_row", 1)
  <2>1. Rows > VerifyRows <=> ~(Rows <= VerifyRows)
    BY <1>2, MoeNumbers
  <2>2. CASE Rows > VerifyRows
    BY <2>1, <2>2 DEF PagedRows
  <2>3. CASE Rows <= VerifyRows /\ Vq(layer)
    BY <2>1, <2>3 DEF PagedRows
  <2>4. CASE Rows <= VerifyRows /\ ~Vq(layer)
    BY <2>1, <2>4 DEF PagedRows
  <2> QED
    BY <2>1, <2>2, <2>3, <2>4
<1>4. CASE Rows > VerifyRows /\ RefuseRows
  <2>1. Rows # 1
    BY <1>2, <1>4, MoeNumbers
  <2>2. asked.f = "verify" \/ TooWideFurtherDown
    BY <1>2, <1>4, <2>1 DEF TooWideFurtherDown, Whole
  <2> QED
    BY <1>2, <1>4, <2>2, RefuseKeeps
<1>5. ASSUME NEW n \in {1, RoutedRows}, Vq(layer), InPieces("paged_vq_group", n)
      PROVE  MoeInv'
  <2>1. layer.kind = "pagedvq" /\ n \in Nat \ {0}
    BY <1>2, <1>5, MoeNumbers DEF Paged, Vq
  <2> QED
    BY <1>2, <1>5, <2>1, CutKeeps
<1>6. CASE ~Vq(layer) /\ InPieces("paged_row", 1)
  <2>1. layer.kind = "paged"
    BY <1>2, <1>6 DEF Paged, Vq
  <2> QED
    BY <1>2, <1>6, <2>1, CutKeeps
<1>7. ASSUME NEW k \in {"paged_grouped", "paged_packed", "paged_row"}, ~Vq(layer), Compute(k)
      PROVE  MoeInv'
  <2>1. RunsOn(k, Rows)
    BY <1>2, <1>7 DEF RunsOn
  <2> QED
    BY <1>2, <1>7, <2>1, RunKeeps
<1> QED
  BY <1>3, <1>4, <1>5, <1>6, <1>7

LEMMA PagedPiecesKeep ==
  ASSUME MoeInv, PagedRow \/ PagedVqGroup
  PROVE  MoeInv'
<1>1. CASE PagedRow
  <2>1. At("paged_row") /\ Compute("paged_row")
    BY <1>1 DEF PagedRow
  <2>2. moeResult = "running" /\ layer.kind = "paged"
    BY <2>1, Arrived DEF CameAlong
  <2>3. RunsOn("paged_row", Rows)
    BY <2>2 DEF RunsOn, Paged, Vq
  <2> QED
    BY <2>1, <2>2, <2>3, RunKeeps
<1>2. CASE PagedVqGroup
  <2>1. At("paged_vq_group")
    BY <1>2 DEF PagedVqGroup
  <2>2. moeResult = "running" /\ layer.kind = "pagedvq" /\ Rows <= RoutedRows
    BY <2>1, Arrived DEF CameAlong
  <2>3. Compute("vq_leased")
    BY <1>2, <2>2 DEF PagedVqGroup
  <2>4. RunsOn("vq_leased", Rows)
    BY <2>2 DEF RunsOn, Paged
  <2> QED
    BY <2>2, <2>3, <2>4, RunKeeps
<1> QED
  BY <1>1, <1>2

LEMMA MoeStarts ==
  ASSUME MoeInit
  PROVE  MoeInv
<1>1. /\ layer \in Layers /\ asked \in Asks /\ running = asked /\ left = 0
      /\ entered = {} /\ kernel = [name |-> "none", rows |-> 0] /\ computed = 0
      /\ moeResult = "opening"
  BY DEF MoeInit
<1>2. /\ asked \in [f : Entries, rows : Nat \ {0}]
      /\ asked.f = "decode" => asked.rows = 1
  BY <1>1, MoeDispatchAssumption DEF Asks, Entries
<1>3. CallTyped
  BY <1>1, <1>2 DEF CallTyped, Callees, Givers, Entries
<1>4. CallStage /\ PieceFits /\ RowsServed
  BY <1>1 DEF CallStage, PieceFits, RowsServed
<1>5. CameAlong
  BY <1>1, <1>2 DEF CameAlong, Entries, Rows
<1>6. DispatchSettles /\ KernelFits
  BY <1>1 DEF DispatchSettles, KernelFits
<1> QED
  BY <1>3, <1>4, <1>5, <1>6 DEF MoeInv

LEMMA MoeStutters ==
  ASSUME MoeInv, UNCHANGED moeVars
  PROVE  MoeInv'
<1>1. /\ layer' = layer /\ asked' = asked /\ running' = running /\ left' = left
      /\ entered' = entered /\ kernel' = kernel /\ computed' = computed
      /\ moeResult' = moeResult
  BY DEF moeVars
<1>2. Rows' = Rows
  BY <1>1 DEF Rows
<1>3. CallTyped' /\ CallStage' /\ PieceFits'
  BY <1>1, <1>2, InvParts DEF CallTyped, CallStage, PieceFits, Whole, Opens, Routed, Compact
<1>4. CameAlong' /\ DispatchSettles'
  BY <1>1, <1>2, InvParts
  DEF CameAlong, DispatchSettles, SendsBackAndForth, Compact, Fused, Paged,
      SentToVerify, TooWideFurtherDown
<1>5. KernelFits' /\ RowsServed'
  BY <1>1, <1>2, InvParts
  DEF KernelFits, WideReducedVerify, PagedBranch, Compact, Fused, Vq, Paged, RowsServed,
      TooWideFurtherDown
<1> QED
  BY <1>3, <1>4, <1>5 DEF MoeInv

\* Every call of a layer ends in kernels that are written for its rows and
\* computes each row once, for any layers, widths and limits; the
\* configurations that the property names are the only exceptions.
THEOREM DispatchStaysSound == MoeSpec => []DispatchSound
<1>1. MoeInit => MoeInv
  BY MoeStarts
<1>2. MoeInv /\ [MoeNext]_moeVars => MoeInv'
  BY OpenKeeps, DecodeKeeps, ExpertsKeeps, DecodeMultiKeeps, CompactRoutedKeeps,
     VerifyKeeps, PrefillKeeps, PagedRowsKeeps, PagedPiecesKeep, MoeStutters
  DEF MoeNext
<1>3. MoeInv => DispatchSound
  BY DEF MoeInv, DispatchSound
<1> QED
  BY <1>1, <1>2, <1>3, PTL DEF MoeSpec

=============================================================================
