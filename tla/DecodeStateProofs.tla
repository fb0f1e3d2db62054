-------------------------- MODULE DecodeStateProofs --------------------------
(***************************************************************************)
(* Proofs about the decode state.  A layer holds the first n tokens of a   *)
(* text y; an operation that is given the next rows of y leaves it holding *)
(* more of the same text.  Everything is said element by element, because  *)
(* the paths cut, join and defer the same rows in different ways.          *)
(***************************************************************************)
EXTENDS DecodeState, Sums, TLAPS

-----------------------------------------------------------------------------
(* Sequences and blocks.                                                   *)

LEMMA ListIsSeq ==
  ASSUME NEW T, NEW n \in Nat, NEW f \in [1..n -> T]
  PROVE  f \in Seq(T) /\ Len(f) = n /\ DOMAIN f = 1..n
<1>1. f \in Seq(T)
  BY SeqDef
<1> QED BY <1>1, LenProperties

LEMMA RowsFacts ==
  ASSUME NEW T, NEW y \in Seq(T), NEW lo \in Nat, NEW hi \in Nat, lo <= hi, hi <= Len(y)
  PROVE  /\ Rows(y, lo, hi) \in Seq(T) /\ Len(Rows(y, lo, hi)) = hi - lo
         /\ \A i \in 1..(hi - lo) : Rows(y, lo, hi)[i] = y[lo + i]
<1>1. Len(y) \in Nat /\ \A i \in (lo + 1)..hi : y[i] \in T
  BY LenProperties, ElementOfSeq
<1>2. /\ SubSeq(y, lo + 1, hi) \in Seq(T)
      /\ Len(SubSeq(y, lo + 1, hi)) = IF lo + 1 <= hi THEN hi - (lo + 1) + 1 ELSE 0
      /\ \A i \in 1..(hi - (lo + 1) + 1) : SubSeq(y, lo + 1, hi)[i] = y[(lo + 1) + i - 1]
  BY <1>1, SubSeqProperties
<1>3. hi - (lo + 1) + 1 = hi - lo /\ \A i \in 1..(hi - lo) : (lo + 1) + i - 1 = lo + i
  OBVIOUS
<1> QED BY <1>2, <1>3 DEF Rows

\* The rows n .. n + k - 1 of a text.
LEMMA NextRows ==
  ASSUME NEW y \in Seq(Nat), NEW n \in Nat, NEW k \in Nat, n + k <= Len(y)
  PROVE  /\ Rows(y, n, n + k) \in Seq(Nat) /\ Len(Rows(y, n, n + k)) = k
         /\ \A i \in 1..k : Rows(y, n, n + k)[i] = y[n + i] /\ y[n + i] \in Nat
                              /\ n + i \in 1..Len(y)
<1> DEFINE T == Nat
           end == n + k
<1>1. y \in Seq(T) /\ n <= end /\ end \in Nat /\ end <= Len(y) /\ end - n = k
  OBVIOUS
<1>2. \A i \in 1..k : n + i \in 1..Len(y)
  BY LenProperties
<1>3. \A i \in 1..k : y[n + i] \in Nat
  BY <1>2, ElementOfSeq
<1> HIDE DEF T, end
<1>4. /\ Rows(y, n, end) \in Seq(T) /\ Len(Rows(y, n, end)) = end - n
      /\ \A i \in 1..(end - n) : Rows(y, n, end)[i] = y[n + i]
  BY <1>1, RowsFacts, ZenonT(30)
<1> QED BY <1>1, <1>2, <1>3, <1>4 DEF T, end

LEMMA RowsAre ==
  ASSUME NEW T, NEW y \in Seq(T), NEW lo \in Nat, NEW hi \in Nat, lo <= hi, hi <= Len(y),
         NEW s \in Seq(T), Len(s) = hi - lo, \A i \in 1..(hi - lo) : s[i] = y[lo + i]
  PROVE  s = Rows(y, lo, hi)
<1> DEFINE r == Rows(y, lo, hi)
<1>1. r \in Seq(T) /\ Len(r) = hi - lo /\ \A i \in 1..(hi - lo) : r[i] = y[lo + i]
  BY RowsFacts
<1> HIDE DEF r
<1>2. Len(s) = Len(r) /\ \A i \in 1..Len(s) : s[i] = r[i]
  BY <1>1
<1>3. s = r
  BY <1>1, <1>2, SeqEqual
<1> QED BY <1>3 DEF r

LEMMA RowsOfRows ==
  ASSUME NEW T, NEW y \in Seq(T), NEW lo \in Nat, NEW hi \in Nat, lo <= hi, hi <= Len(y),
         NEW a \in Nat, NEW b \in Nat, a <= b, b <= hi - lo
  PROVE  Rows(Rows(y, lo, hi), a, b) = Rows(y, lo + a, lo + b)
<1> DEFINE r == Rows(y, lo, hi)
<1>0. Len(y) \in Nat
  BY LenProperties
<1>1. r \in Seq(T) /\ Len(r) = hi - lo /\ \A i \in 1..(hi - lo) : r[i] = y[lo + i]
  BY RowsFacts
<1> HIDE DEF r
<1>2. /\ Rows(r, a, b) \in Seq(T) /\ Len(Rows(r, a, b)) = b - a
      /\ \A i \in 1..(b - a) : Rows(r, a, b)[i] = r[a + i]
  <2>1. r \in Seq(T) /\ b <= Len(r)
    BY <1>1
  <2> QED BY <2>1, RowsFacts
<1>3. \A i \in 1..(b - a) : a + i \in 1..(hi - lo) /\ lo + (a + i) = (lo + a) + i
  OBVIOUS
<1>4. \A i \in 1..(b - a) : Rows(r, a, b)[i] = y[(lo + a) + i]
  BY <1>1, <1>2, <1>3
<1>5. lo + a \in Nat /\ lo + b \in Nat /\ lo + a <= lo + b /\ lo + b <= Len(y)
      /\ (lo + b) - (lo + a) = b - a
  BY <1>0
<1>6. Rows(r, a, b) = Rows(y, lo + a, lo + b)
  <2> DEFINE l == lo + a
             h == lo + b
             q == Rows(r, a, b)
  <2>1. /\ l \in Nat /\ h \in Nat /\ l <= h /\ h <= Len(y)
        /\ q \in Seq(T) /\ Len(q) = h - l /\ \A i \in 1..(h - l) : q[i] = y[l + i]
    BY <1>2, <1>4, <1>5
  <2> HIDE DEF l, h, q
  <2>2. q = Rows(y, l, h)
    BY <2>1, RowsAre
  <2> QED BY <2>2 DEF l, h, q
<1> QED BY <1>6 DEF r

LEMMA RowsAll == ASSUME NEW T, NEW y \in Seq(T) PROVE Rows(y, 0, Len(y)) = y
  BY SubSeqFull DEF Rows

\* Neighbouring rows joined.
LEMMA RowsJoin ==
  ASSUME NEW T, NEW y \in Seq(T), NEW a \in Nat, NEW b \in Nat, NEW c \in Nat,
         a <= b, b <= c, c <= Len(y)
  PROVE  Rows(y, a, b) \o Rows(y, b, c) = Rows(y, a, c)
<1> DEFINE u == Rows(y, a, b)
           v == Rows(y, b, c)
<1>0. Len(y) \in Nat
  BY LenProperties
<1>1. u \in Seq(T) /\ Len(u) = b - a /\ \A i \in 1..(b - a) : u[i] = y[a + i]
  <2>1. b <= Len(y)
    BY <1>0
  <2> QED BY <2>1, RowsFacts
<1>2. v \in Seq(T) /\ Len(v) = c - b /\ \A i \in 1..(c - b) : v[i] = y[b + i]
  BY RowsFacts
<1> HIDE DEF u, v
<1>3. /\ u \o v \in Seq(T) /\ Len(u \o v) = Len(u) + Len(v)
      /\ \A i \in 1..(Len(u) + Len(v)) :
           (u \o v)[i] = IF i <= Len(u) THEN u[i] ELSE v[i - Len(u)]
  BY <1>1, <1>2, ConcatProperties
<1>4. Len(u) + Len(v) = c - a
  BY <1>1, <1>2
<1>5. ASSUME NEW i \in 1..(c - a) PROVE (u \o v)[i] = y[a + i]
  <2>1. CASE i <= b - a
    BY <1>1, <1>3, <1>4, <2>1
  <2>2. CASE ~(i <= b - a)
    <3>1. i - (b - a) \in 1..(c - b) /\ b + (i - (b - a)) = a + i
      BY <2>2
    <3> QED BY <1>1, <1>2, <1>3, <1>4, <2>2, <3>1
  <2> QED BY <2>1, <2>2
<1>6. u \o v = Rows(y, a, c)
  <2> DEFINE q == u \o v
  <2>1. /\ a <= c /\ q \in Seq(T) /\ Len(q) = c - a
        /\ \A i \in 1..(c - a) : q[i] = y[a + i]
    BY <1>3, <1>4, <1>5
  <2> HIDE DEF q
  <2>2. q = Rows(y, a, c)
    BY <2>1, RowsAre
  <2> QED BY <2>2 DEF q
<1> QED BY <1>6 DEF u, v

LEMMA Constant ==
  /\ Ratio \in Nat /\ Ratio > 0 /\ Budget \in Nat /\ Budget > 0 /\ Q8Min \in Nat
  /\ Q8Min >= Budget + Ratio /\ Flush \in Nat /\ AttRows \in Nat /\ AttRows > 0
  /\ AttRows <= Budget /\ AttRows < Q8Min /\ PleConv \in Nat /\ PleConv > 0 /\ Eos \in Nat
  BY GeometryAssumption

LEMMA Blocks ==
  ASSUME NEW n \in Nat
  PROVE  /\ n \div Ratio \in Nat /\ (n \div Ratio) * Ratio \in Nat
         /\ (n \div Ratio) * Ratio <= n /\ n < (n \div Ratio) * Ratio + Ratio
  BY Constant, SMT

LEMMA Times ==
  ASSUME NEW a \in Nat, NEW b \in Nat
  PROVE  /\ a * Ratio \in Nat /\ b * Ratio \in Nat
         /\ (a + b) * Ratio = a * Ratio + b * Ratio
         /\ a <= b => a * Ratio <= b * Ratio
         /\ a < b => a * Ratio + Ratio <= b * Ratio
  BY Constant, SMT

LEMMA BlocksFit ==
  ASSUME NEW a \in Nat, NEW n \in Nat, a * Ratio <= n
  PROVE  a <= n \div Ratio
<1> DEFINE q == n \div Ratio
<1>1. q \in Nat /\ q * Ratio \in Nat /\ n < q * Ratio + Ratio
  BY Blocks
<1> HIDE DEF q
<1>2. q < a => q * Ratio + Ratio <= a * Ratio
  BY <1>1, Times
<1>3. a * Ratio \in Nat /\ Ratio \in Nat
  BY Times, Constant
<1>4. a <= q
  BY <1>1, <1>2, <1>3
<1> QED BY <1>4 DEF q

LEMMA BlocksGrow ==
  ASSUME NEW m \in Nat, NEW n \in Nat, m <= n
  PROVE  m \div Ratio <= n \div Ratio /\ (m \div Ratio) * Ratio <= (n \div Ratio) * Ratio
<1> DEFINE a == m \div Ratio
           b == n \div Ratio
<1>1. a \in Nat /\ a * Ratio <= m /\ a * Ratio \in Nat /\ b \in Nat
  BY Blocks
<1>2. a <= b
  BY <1>1, BlocksFit
<1> HIDE DEF a, b
<1>3. a * Ratio <= b * Ratio
  BY <1>1, <1>2, Times
<1> QED BY <1>2, <1>3 DEF a, b

-----------------------------------------------------------------------------
(***************************************************************************)
(* Attention.  The keys and the index of a state are its first n tokens;   *)
(* the index may be ahead of the keys within a call.                       *)
(***************************************************************************)

Key == Nat \X Int
Pool == [at : Int, of : Seq(Nat)]

Attentions ==
  [keys : Seq(Key), cold : Seq(Key), kv_q8 : BOOLEAN, cold_tokens : Nat,
   raw : Seq(Nat), raw_start : Nat, pooled : Seq(Pool), pooled_count : Nat,
   token_count : Nat, position_base : Int, err : BOOLEAN]

\* The key of token i, and the pooled key of block b.
KeyAt(y, base, i) == <<y[i], base + (i - 1)>>
PoolAt(y, base, b) ==
  [at |-> base + (b - 1) * Ratio, of |-> Rows(y, (b - 1) * Ratio, b * Ratio)]

\* q lists the keys of the tokens after the m-th.
KeysFrom(q, y, base, m) == \A i \in 1..Len(q) : q[i] = KeyAt(y, base, m + i)

\* The packed and the hot keys are those of the first n tokens; only a text
\* of Q8Min tokens is packed.
KeysAre(keys, cold, q8, y, base, n) ==
  /\ keys \in Seq(Key) /\ cold \in Seq(Key) /\ q8 \in BOOLEAN
  /\ Len(cold) + Len(keys) = n
  /\ KeysFrom(cold, y, base, 0) /\ KeysFrom(keys, y, base, Len(cold))
  /\ IF q8 THEN n >= Q8Min ELSE cold = <<>>

KeysHold(s, y, n) ==
  /\ s.cold_tokens = Len(s.cold)
  /\ KeysAre(s.keys, s.cold, s.kv_q8, y, s.position_base, n)

IndexHolds(s, y, n) ==
  /\ s.raw = Rows(y, s.raw_start, n)
  /\ s.raw_start <= s.pooled_count * Ratio /\ s.pooled_count * Ratio <= n
  /\ Len(s.pooled) = s.pooled_count
  /\ \A b \in 1..Len(s.pooled) : s.pooled[b] = PoolAt(y, s.position_base, b)

Attending(s, y, n, base) ==
  /\ s \in Attentions /\ ~s.err /\ s.token_count = n /\ s.position_base = base
  /\ KeysHold(s, y, n) /\ IndexHolds(s, y, n)

SameKeys(t, s) ==
  /\ t.keys = s.keys /\ t.cold = s.cold /\ t.kv_q8 = s.kv_q8 /\ t.cold_tokens = s.cold_tokens
  /\ t.position_base = s.position_base /\ t.token_count = s.token_count

SameIndex(t, s) ==
  /\ t.raw = s.raw /\ t.raw_start = s.raw_start /\ t.pooled = s.pooled
  /\ t.pooled_count = s.pooled_count
  /\ t.position_base = s.position_base /\ t.token_count = s.token_count

LEMMA KeysStay == ASSUME NEW s, NEW t, SameKeys(t, s), NEW y, NEW n, KeysHold(s, y, n)
                  PROVE  KeysHold(t, y, n)
  BY DEF SameKeys, KeysHold

LEMMA IndexStays == ASSUME NEW s, NEW t, SameIndex(t, s), NEW y, NEW n, IndexHolds(s, y, n)
                    PROVE  IndexHolds(t, y, n)
  BY DEF SameIndex, IndexHolds

LEMMA KeyTyped ==
  ASSUME NEW y \in Seq(Nat), NEW i \in 1..Len(y), NEW base \in Int
  PROVE  KeyAt(y, base, i) \in Key
<1>1. y[i] \in Nat /\ Len(y) \in Nat
  BY ElementOfSeq, LenProperties
<1> QED BY <1>1 DEF KeyAt, Key

LEMMA PoolTyped ==
  ASSUME NEW y \in Seq(Nat), NEW b \in Nat, b > 0, b * Ratio <= Len(y), NEW base \in Int
  PROVE  PoolAt(y, base, b) \in Pool
<1> DEFINE lo == (b - 1) * Ratio
           hi == b * Ratio
<1>1. b - 1 \in Nat /\ b - 1 < b
  OBVIOUS
<1>2. lo \in Nat /\ hi \in Nat /\ lo + Ratio <= hi /\ Ratio \in Nat
  BY <1>1, Times, Constant
<1>3. PoolAt(y, base, b) = [at |-> base + lo, of |-> Rows(y, lo, hi)]
  BY DEF PoolAt
<1> HIDE DEF lo, hi
<1>4. hi <= Len(y)
  BY DEF hi
<1>5. Rows(y, lo, hi) \in Seq(Nat)
  BY <1>2, <1>4, RowsFacts
<1> QED BY <1>2, <1>3, <1>5 DEF Pool

LEMMA FreshPools ==
  ASSUME NEW y \in Seq(Nat), NEW m \in Nat, m <= Len(y), NEW start \in Nat,
         NEW count \in Nat, start <= count * Ratio, NEW base \in Int,
         NEW b \in Nat, 0 < b, count + b <= m \div Ratio
  PROVE  LET first == count * Ratio IN
         [at |-> base + first + (b - 1) * Ratio,
          of |-> Rows(Rows(y, start, m), first - start + (b - 1) * Ratio,
                      first - start + b * Ratio)] = PoolAt(y, base, count + b)
<1> DEFINE first == count * Ratio
           c == b - 1
           lo == c * Ratio
           hi == b * Ratio
           last == (count + b) * Ratio
           full == (m \div Ratio) * Ratio
<1>1. c \in Nat /\ c + 1 = b /\ c < b
  OBVIOUS
<1>2. /\ first \in Nat /\ lo \in Nat /\ hi \in Nat /\ Ratio \in Nat /\ lo + Ratio <= hi
      /\ (count + c) * Ratio = first + lo /\ last = first + hi
  BY <1>1, Times, Constant
<1>3. full \in Nat /\ full <= m /\ m \div Ratio \in Nat
  BY Blocks
<1>4. last <= full
  <2>1. count + b \in Nat
    OBVIOUS
  <2> QED BY <1>3, <2>1, Times
<1>5. start <= first /\ (count + b) - 1 = count + c
  BY <1>1
<1> HIDE DEF first, c, lo, hi, last, full
<1>6. /\ (first - start) + lo \in Nat /\ (first - start) + hi \in Nat
      /\ (first - start) + lo <= (first - start) + hi
      /\ start <= m /\ (first - start) + hi <= m - start
      /\ start + ((first - start) + lo) = first + lo
      /\ start + ((first - start) + hi) = first + hi
  <2>1. /\ first \in Nat /\ lo \in Nat /\ hi \in Nat /\ lo <= hi /\ start <= first
        /\ first + hi <= m
    <3>1. last = first + hi /\ first \in Nat /\ lo \in Nat /\ hi \in Nat /\ Ratio \in Nat
          /\ lo + Ratio <= hi
      BY <1>2
    <3> QED BY <1>3, <1>4, <1>5, <3>1
  <2> QED BY <2>1
<1>7. Rows(Rows(y, start, m), (first - start) + lo, (first - start) + hi)
        = Rows(y, first + lo, first + hi)
  <2> DEFINE u == (first - start) + lo
             v == (first - start) + hi
  <2>1. u \in Nat /\ v \in Nat /\ u <= v /\ v <= m - start /\ start <= m
    BY <1>6
  <2>2. start + u = first + lo /\ start + v = first + hi
    BY <1>6
  <2> HIDE DEF u, v
  <2>3. Rows(Rows(y, start, m), u, v) = Rows(y, start + u, start + v)
    BY <2>1, RowsOfRows
  <2> QED BY <2>2, <2>3 DEF u, v
<1>8. PoolAt(y, base, count + b) = [at |-> base + (first + lo), of |-> Rows(y, first + lo, first + hi)]
  <2>1. PoolAt(y, base, count + b)
          = [at |-> base + ((count + b) - 1) * Ratio,
             of |-> Rows(y, ((count + b) - 1) * Ratio, (count + b) * Ratio)]
    BY DEF PoolAt
  <2> QED BY <1>2, <1>5, <2>1 DEF last
<1>9. base + first + lo = base + (first + lo)
  BY <1>2
<1> QED BY <1>7, <1>8, <1>9 DEF first, lo, hi, c

LEMMA PoolsHold ==
  ASSUME NEW a \in Attentions, ~a.err, NEW y \in Seq(Nat), NEW m \in Nat, m <= Len(y),
         IndexHolds(a, y, m), NEW p, p = MaterializePools(a, m)
  PROVE  /\ p \in Attentions /\ ~p.err /\ SameKeys(p, a) /\ IndexHolds(p, y, m)
         /\ p.pooled_count = m \div Ratio /\ p.raw_start = a.raw_start
<1> DEFINE blocks == m \div Ratio
           count == a.pooled_count
           first == count * Ratio
           base == a.position_base
           fresh == [b \in 1..(blocks - count) |->
                       [at |-> base + first + (b - 1) * Ratio,
                        of |-> Rows(a.raw, first - a.raw_start + (b - 1) * Ratio,
                                    first - a.raw_start + b * Ratio)]]
<1>1. /\ count \in Nat /\ a.raw_start \in Nat /\ base \in Int /\ a.raw_start <= first
      /\ a.raw = Rows(y, a.raw_start, m) /\ Len(a.pooled) = count /\ a.pooled \in Seq(Pool)
      /\ \A b \in 1..count : a.pooled[b] = PoolAt(y, base, b)
  BY DEF Attentions, IndexHolds
<1>2. /\ blocks \in Nat /\ blocks * Ratio <= m /\ blocks * Ratio \in Nat
      /\ count <= blocks /\ first \in Nat
  <2>1. first <= m
    BY DEF IndexHolds
  <2> QED BY <1>1, <2>1, Blocks, BlocksFit, Times
<1>3. p = IF count = blocks THEN a
          ELSE [a EXCEPT !.pooled = a.pooled \o fresh, !.pooled_count = blocks]
  <2>1. ~(count > blocks) /\ ~(first < a.raw_start)
    BY <1>1, <1>2
  <2> QED BY <2>1, Zenon DEF MaterializePools
<1>4. ASSUME NEW b \in 1..(blocks - count)
      PROVE  fresh[b] = PoolAt(y, base, count + b) /\ PoolAt(y, base, count + b) \in Pool
  <2>1. b \in Nat /\ 0 < b /\ count + b <= blocks /\ count + b \in Nat /\ count + b > 0
    BY <1>1, <1>2, SMTT(30)
  <2>2. fresh[b] = [at |-> base + first + (b - 1) * Ratio,
                    of |-> Rows(Rows(y, a.raw_start, m), first - a.raw_start + (b - 1) * Ratio,
                                first - a.raw_start + b * Ratio)]
    BY <1>1
  <2>3. fresh[b] = PoolAt(y, base, count + b)
    BY <1>1, <2>1, <2>2, FreshPools
  <2>4. (count + b) * Ratio <= Len(y)
    <3>1. (count + b) * Ratio <= blocks * Ratio /\ (count + b) * Ratio \in Nat
      BY <1>2, <2>1, Times
    <3>2. Len(y) \in Nat
      BY LenProperties
    <3> HIDE DEF blocks
    <3> QED BY <1>2, <3>1, <3>2
  <2>5. PoolAt(y, base, count + b) \in Pool
    BY <1>1, <2>1, <2>4, PoolTyped
  <2> QED BY <2>3, <2>5
<1>5. CASE count = blocks
  BY <1>3, <1>5 DEF SameKeys
<1>6. CASE count # blocks
  <2>1. /\ fresh \in Seq(Pool) /\ Len(fresh) = blocks - count
        /\ \A b \in 1..(blocks - count) : fresh[b] = PoolAt(y, base, count + b)
    <3>1. blocks - count \in Nat
      BY <1>1, <1>2
    <3>2. fresh \in [1..(blocks - count) -> Pool]
      <4> DEFINE e(b) == [at |-> base + first + (b - 1) * Ratio,
                          of |-> Rows(a.raw, first - a.raw_start + (b - 1) * Ratio,
                                      first - a.raw_start + b * Ratio)]
      <4>1. \A b \in 1..(blocks - count) : fresh[b] = e(b)
        OBVIOUS
      <4>2. \A b \in 1..(blocks - count) : e(b) \in Pool
        BY <1>4, <4>1
      <4> HIDE DEF e
      <4>3. fresh = [b \in 1..(blocks - count) |-> e(b)]
        BY DEF e
      <4> QED BY <4>2, <4>3
    <3> HIDE DEF fresh, blocks
    <3>3. fresh \in Seq(Pool) /\ Len(fresh) = blocks - count
      BY <3>1, <3>2, ListIsSeq
    <3> QED BY <1>4, <3>3
  <2> HIDE DEF fresh
  <2>2. /\ a.pooled \o fresh \in Seq(Pool) /\ Len(a.pooled \o fresh) = count + (blocks - count)
        /\ \A i \in 1..(count + (blocks - count)) :
             (a.pooled \o fresh)[i] = IF i <= count THEN a.pooled[i] ELSE fresh[i - count]
    <3> DEFINE q == a.pooled
               r == Len(fresh)
    <3>1. q \in Seq(Pool) /\ fresh \in Seq(Pool) /\ Len(q) = count
      BY <1>1, <2>1
    <3> HIDE DEF q, r
    <3>2. /\ q \o fresh \in Seq(Pool) /\ Len(q \o fresh) = count + r
          /\ \A i \in 1..(count + r) :
               (q \o fresh)[i] = IF i <= count THEN q[i] ELSE fresh[i - count]
      BY <3>1, ConcatProperties, SMTT(30) DEF r
    <3> QED BY <2>1, <3>2 DEF q, r
  <2>3. p = [a EXCEPT !.pooled = a.pooled \o fresh, !.pooled_count = blocks]
    BY <1>3, <1>6
  <2> DEFINE j == a.pooled \o fresh
  <2>4. j \in Seq(Pool) /\ Len(j) = blocks /\ \A b \in 1..blocks : j[b] = PoolAt(y, base, b)
    <3>1. count + (blocks - count) = blocks
      BY <1>1, <1>2
    <3>2. ASSUME NEW b \in 1..blocks PROVE j[b] = PoolAt(y, base, b)
      <4>1. CASE b <= count
        <5>1. j[b] = a.pooled[b] /\ b \in 1..count
          BY <1>1, <2>2, <3>1, <4>1
        <5> QED BY <1>1, <5>1
      <4>2. CASE ~(b <= count)
        <5>1. b - count \in 1..(blocks - count) /\ count + (b - count) = b
          <6>1. blocks \in Nat /\ count \in Nat
            BY <1>1, <1>2
          <6> HIDE DEF blocks, count
          <6> QED BY <4>2, <6>1
        <5>2. j[b] = fresh[b - count]
          BY <2>2, <3>1, <4>2
        <5>3. fresh[b - count] = PoolAt(y, base, count + (b - count))
          BY <2>1, <5>1
        <5> QED BY <5>1, <5>2, <5>3
      <4> QED BY <4>1, <4>2
    <3> QED BY <2>2, <3>1, <3>2
  <2> HIDE DEF j, blocks
  <2>5. p = [a EXCEPT !.pooled = j, !.pooled_count = blocks]
    BY <2>3 DEF j
  <2>6. p \in Attentions /\ ~p.err /\ SameKeys(p, a) /\ p.raw_start = a.raw_start
        /\ p.pooled_count = blocks /\ p.pooled = j /\ p.raw = a.raw /\ p.position_base = base
    BY <1>2, <2>4, <2>5 DEF Attentions, SameKeys
  <2>7. a.raw_start <= blocks * Ratio
    <3>1. first <= blocks * Ratio
      BY <1>1, <1>2, Times
    <3> HIDE DEF first
    <3> QED BY <1>1, <1>2, <3>1
  <2>8. IndexHolds(p, y, m)
    BY <1>1, <1>2, <2>4, <2>6, <2>7 DEF IndexHolds
  <2> QED BY <2>6, <2>8 DEF blocks
<1> QED BY <1>5, <1>6

LEMMA OptionFacts ==
  ASSUME NEW o \in Options
  PROVE  /\ o.window \in Nat /\ (o.window = 0 \/ o.window + 2 >= Ratio)
         /\ o.decode_budget \in Nat /\ o.decode_budget <= Budget /\ o.q8 \in BOOLEAN
         /\ o \in Environments
<1>1. o \in Environments /\ (o.window = 0 \/ o.window + 2 >= Ratio)
  BY DecodeStateAssumption
<1> QED BY <1>1, Constant DEF Environments

\* The raw keys of the rows behind the ones that are there.
LEMMA AppendRawHolds ==
  ASSUME NEW y \in Seq(Nat), NEW n \in Nat, NEW k \in Nat, k > 0, n + k <= Len(y),
         NEW base \in Int, NEW s, Attending(s, y, n, base),
         NEW a, a = AppendRaw(s, Rows(y, n, n + k))
  PROVE  /\ a \in Attentions /\ ~a.err /\ SameKeys(a, s) /\ IndexHolds(a, y, n + k)
         /\ a.raw_start = s.raw_start /\ a.pooled_count = s.pooled_count
<1> DEFINE toks == Rows(y, n, n + k)
           start == s.raw_start
<1>0. Len(y) \in Nat
  BY LenProperties
<1>1. /\ s \in Attentions /\ ~s.err /\ s.token_count = n /\ start \in Nat
      /\ s.raw \in Seq(Nat) /\ s.raw = Rows(y, start, n) /\ s.pooled_count \in Nat
  BY DEF Attending, IndexHolds, Attentions
<1>2. start <= s.pooled_count * Ratio /\ s.pooled_count * Ratio <= n
      /\ s.pooled_count * Ratio \in Nat
  BY <1>1, Times DEF Attending, IndexHolds
<1>3. start <= n
  BY <1>1, <1>2
<1>4. toks \in Seq(Nat)
  BY <1>0, RowsFacts
<1>5. Rows(y, start, n) \o toks = Rows(y, start, n + k)
  <2>1. n <= n + k /\ n + k \in Nat
    OBVIOUS
  <2>2. start \in Nat /\ start <= n
    BY <1>1, <1>3
  <2> HIDE DEF start
  <2> QED BY <2>1, <2>2, RowsJoin
<1>6. Len(s.raw) = n - start
  <2>1. n <= Len(y) /\ start \in Nat /\ start <= n /\ s.raw = Rows(y, start, n)
    BY <1>0, <1>1, <1>3
  <2> HIDE DEF start
  <2>2. Len(Rows(y, start, n)) = n - start
    BY <2>1, RowsFacts
  <2> QED BY <2>1, <2>2
<1> HIDE DEF toks
<1>7. a = [s EXCEPT !.raw = Rows(y, start, n + k)]
  <2>1. CASE n = 0
    <3>1. start = 0
      BY <1>3, <1>1, <2>1
    <3>2. s.raw = <<>>
      BY <1>1, <1>6, <2>1, <3>1, EmptySeq
    <3>3. toks = Rows(y, start, n + k)
      BY <1>4, <1>5, <1>1, <3>2, ConcatEmptySeq
    <3>4. a = [s EXCEPT !.raw = toks]
      BY <1>1, <2>1 DEF AppendRaw, toks
    <3> QED BY <3>3, <3>4
  <2>2. CASE n # 0
    <3>1. ~(start > n) /\ Len(s.raw) = n - start
      BY <1>1, <1>3, <1>6
    <3>2. a = [s EXCEPT !.raw = s.raw \o toks]
      BY <1>1, <2>2, <3>1 DEF AppendRaw, toks
    <3> QED BY <1>1, <1>5, <3>2
  <2> QED BY <2>1, <2>2
<1>8. Rows(y, start, n + k) \in Seq(Nat)
  <2>1. start <= n + k /\ n + k \in Nat
    BY <1>1, <1>3
  <2> QED BY <1>1, <2>1, RowsFacts
<1> DEFINE more == Rows(y, start, n + k)
<1> HIDE DEF more
<1>9. a = [s EXCEPT !.raw = more] /\ more \in Seq(Nat)
  BY <1>7, <1>8 DEF more
<1>10. /\ a \in Attentions /\ ~a.err /\ SameKeys(a, s) /\ a.raw = more /\ a.raw_start = start
       /\ a.pooled_count = s.pooled_count /\ a.pooled = s.pooled
       /\ a.position_base = s.position_base
  BY <1>1, <1>9 DEF Attentions, SameKeys
<1>11. s.pooled_count * Ratio <= n + k
  <2> DEFINE x == s.pooled_count * Ratio
  <2>1. x \in Nat /\ x <= n
    BY <1>2
  <2> HIDE DEF x
  <2>2. x <= n + k
    BY <2>1
  <2> QED BY <2>2 DEF x
<1>12. IndexHolds(a, y, n + k)
  <2>1. Len(s.pooled) = s.pooled_count
        /\ \A b \in 1..Len(s.pooled) : s.pooled[b] = PoolAt(y, s.position_base, b)
    BY DEF Attending, IndexHolds
  <2>2. a.raw = Rows(y, a.raw_start, n + k)
    BY <1>10 DEF more
  <2>3. a.raw_start <= a.pooled_count * Ratio /\ a.pooled_count * Ratio <= n + k
    BY <1>2, <1>10, <1>11
  <2> QED BY <1>10, <2>1, <2>2, <2>3 DEF IndexHolds
<1> QED BY <1>10, <1>12

\* The window keeps what the blocks that are not complete need, after any of
\* the rows.
LEMMA TrimHolds ==
  ASSUME NEW y \in Seq(Nat), NEW n \in Nat, NEW k \in Nat, k > 0, n + k <= Len(y),
         NEW p \in Attentions, ~p.err, p.token_count = n, IndexHolds(p, y, n + k),
         p.pooled_count = (n + k) \div Ratio, p.raw_start <= ((n + 1) \div Ratio) * Ratio,
         NEW o \in Options, NEW t, t = TrimRaw(p, o, k)
  PROVE  /\ t \in Attentions /\ ~t.err /\ SameKeys(t, p) /\ IndexHolds(t, y, n + k)
         /\ t.raw_start <= ((n + 1) \div Ratio) * Ratio
<1> DEFINE start == IF o.window = 0 THEN 0 ELSE MaxOf(0, (n + k) - o.window - k)
           near == ((n + 1) \div Ratio) * Ratio
           far == ((n + k) \div Ratio) * Ratio
<1>0. /\ Len(y) \in Nat /\ o.window \in Nat /\ (o.window = 0 \/ o.window + 2 >= Ratio)
      /\ p.raw_start \in Nat /\ p.raw \in Seq(Nat) /\ Ratio \in Nat /\ n + k \in Nat
  <2>1. Len(y) \in Nat /\ n + k \in Nat
    BY LenProperties
  <2>2. p.raw_start \in Nat /\ p.raw \in Seq(Nat)
    BY DEF Attentions
  <2>3. o.window \in Nat /\ (o.window = 0 \/ o.window + 2 >= Ratio)
    BY OptionFacts, Zenon
  <2>4. Ratio \in Nat
    BY Constant, Zenon
  <2> QED BY <2>1, <2>2, <2>3, <2>4, Zenon
<1>1. near \in Nat /\ near <= n + 1 /\ n + 1 < near + Ratio /\ far \in Nat /\ far <= n + k
      /\ near <= far
  <2>1. n + 1 \in Nat /\ n + k \in Nat /\ n + 1 <= n + k
    OBVIOUS
  <2> QED BY <2>1, Blocks, BlocksGrow
<1>2. t = IF start > p.raw_start
          THEN [p EXCEPT !.raw = Rows(p.raw, start - p.raw_start, Len(p.raw)), !.raw_start = start]
          ELSE p
  BY DEF TrimRaw
<1> HIDE DEF near, far
<1>3. CASE start > p.raw_start
  <2>1. start = n - o.window /\ start \in Nat /\ start <= n /\ o.window # 0
    <3>1. o.window # 0
      BY <1>0, <1>3
    <3>2. start = MaxOf(0, (n + k) - o.window - k)
      BY <3>1
    <3>3. MaxOf(0, (n + k) - o.window - k) = IF n - o.window > 0 THEN n - o.window ELSE 0
      BY <1>0, SMTT(30) DEF MaxOf
    <3> DEFINE x == n - o.window
    <3>4. x \in Int /\ x <= n
      BY <1>0, SMTT(30)
    <3>5. start = IF x > 0 THEN x ELSE 0
      BY <3>2, <3>3
    <3>6. start > 0
      BY <1>0, <1>3, <3>4, <3>5
    <3> HIDE DEF x, start
    <3>7. start = x /\ x \in Nat
      BY <3>4, <3>5, <3>6
    <3> QED BY <3>1, <3>4, <3>7 DEF x
  <2> HIDE DEF start
  <2>2. start <= near
    BY <1>0, <1>1, <2>1, SMTT(30)
  <2>3. Rows(p.raw, start - p.raw_start, Len(p.raw)) = Rows(y, start, n + k)
    <3> DEFINE old == p.raw_start
               end == n + k
               u == start - old
               v == end - old
    <3>1. /\ p.raw = Rows(y, old, end) /\ old \in Nat /\ end \in Nat /\ end <= Len(y)
          /\ start <= end /\ old < start
      BY <1>0, <1>3, <2>1 DEF IndexHolds
    <3> HIDE DEF old, end
    <3>2. old <= end
      BY <2>1, <3>1
    <3>3. /\ u \in Nat /\ v \in Nat /\ u <= v /\ v <= end - old
          /\ old + u = start /\ old + v = end
      <4>1. old \in Nat /\ end \in Nat /\ start \in Nat /\ start <= end /\ old < start
        BY <2>1, <3>1
      <4> QED BY <4>1
    <3>4. Len(p.raw) = v
      <4>1. old \in Nat /\ end \in Nat /\ end <= Len(y) /\ old <= end
        BY <3>1, <3>2
      <4>2. Len(Rows(y, old, end)) = v
        BY <4>1, RowsFacts
      <4> QED BY <3>1, <4>2
    <3> HIDE DEF u, v
    <3>5. Rows(Rows(y, old, end), u, v) = Rows(y, old + u, old + v)
      BY <3>1, <3>2, <3>3, RowsOfRows
    <3>6. Rows(p.raw, u, v) = Rows(y, start, end)
      BY <3>1, <3>3, <3>5
    <3> QED BY <3>4, <3>6 DEF u, old, end
  <2>4. Rows(y, start, n + k) \in Seq(Nat)
    <3>1. start <= n + k
      BY <1>0, <2>1
    <3> QED BY <1>0, <2>1, <3>1, RowsFacts
  <2> DEFINE kept == Rows(y, start, n + k)
  <2>5. t = [p EXCEPT !.raw = kept, !.raw_start = start]
    BY <1>2, <1>3, <2>3
  <2>6. kept \in Seq(Nat)
    BY <2>4
  <2> HIDE DEF kept
  <2>7. /\ t \in Attentions /\ ~t.err /\ SameKeys(t, p) /\ t.raw = kept /\ t.raw_start = start
        /\ t.pooled_count = p.pooled_count /\ t.pooled = p.pooled
        /\ t.position_base = p.position_base
    BY <2>1, <2>5, <2>6 DEF Attentions, SameKeys
  <2>8. IndexHolds(t, y, n + k)
    <3>1. t.pooled_count * Ratio = far
      BY <2>7 DEF far
    <3>2. start <= far
      BY <1>1, <2>1, <2>2
    <3>3. /\ Len(p.pooled) = p.pooled_count
          /\ \A b \in 1..Len(p.pooled) : p.pooled[b] = PoolAt(y, p.position_base, b)
      BY DEF IndexHolds
    <3>4. t.raw = Rows(y, t.raw_start, n + k)
      BY <2>7 DEF kept
    <3> QED BY <1>1, <2>7, <3>1, <3>2, <3>3, <3>4 DEF IndexHolds
  <2> QED BY <2>2, <2>7, <2>8 DEF near
<1>4. CASE ~(start > p.raw_start)
  <2>1. t = p
    BY <1>2, <1>4
  <2> QED BY <2>1 DEF SameKeys
<1> QED BY <1>3, <1>4

\* What update_qsa_and_build_mask leaves: the index of all rows, which can be
\* cut back to any of them.
Indexed(t, s, y, n, k) ==
  /\ t \in Attentions /\ ~t.err /\ SameKeys(t, s) /\ IndexHolds(t, y, n + k)
  /\ t.raw_start <= ((n + 1) \div Ratio) * Ratio

LEMMA UpdateHolds ==
  ASSUME NEW y \in Seq(Nat), NEW n \in Nat, NEW k \in Nat, k > 0, n + k <= Len(y),
         NEW base \in Int, NEW s, Attending(s, y, n, base), NEW o \in Options,
         NEW decode, NEW t, t = UpdateQsa(s, o, Rows(y, n, n + k), decode)
  PROVE  Indexed(t, s, y, n, k)
<1> DEFINE toks == Rows(y, n, n + k)
           a == AppendRaw(s, toks)
           p == MaterializePools(a, n + k)
<1>0. Len(toks) = k /\ s.token_count = n /\ n + k \in Nat
  <2>1. n <= n + k /\ n + k \in Nat /\ (n + k) - n = k
    OBVIOUS
  <2> QED BY <2>1, RowsFacts DEF Attending
<1>1. /\ a \in Attentions /\ ~a.err /\ SameKeys(a, s) /\ IndexHolds(a, y, n + k)
      /\ a.raw_start = s.raw_start
  BY AppendRawHolds
<1>2. /\ p \in Attentions /\ ~p.err /\ SameKeys(p, a) /\ IndexHolds(p, y, n + k)
      /\ p.pooled_count = (n + k) \div Ratio /\ p.raw_start = a.raw_start
  BY <1>0, <1>1, PoolsHold
<1>3. s.raw_start <= ((n + 1) \div Ratio) * Ratio
  <2> DEFINE x == s.pooled_count * Ratio
             near == ((n + 1) \div Ratio) * Ratio
             low == (n \div Ratio) * Ratio
  <2>1. s.pooled_count \in Nat /\ s.raw_start \in Nat
    BY DEF Attending, Attentions
  <2>2. s.raw_start <= x /\ x <= n
    BY DEF Attending, IndexHolds
  <2>3. s.pooled_count <= n \div Ratio /\ n \div Ratio \in Nat
    BY <2>1, <2>2, BlocksFit, Blocks
  <2>4. x <= low /\ x \in Nat /\ low \in Nat
    BY <2>1, <2>3, Times
  <2>5. low <= near /\ near \in Nat
    <3>1. n <= n + 1 /\ n + 1 \in Nat
      OBVIOUS
    <3> QED BY <3>1, BlocksGrow, Blocks
  <2> HIDE DEF x, low, near
  <2>6. s.raw_start <= near
    BY <2>1, <2>2, <2>4, <2>5
  <2> QED BY <2>6 DEF near
<1>4. t = IF ~Engages(n + k, SelectionBudget(o, decode)) THEN a ELSE TrimRaw(p, o, k)
  BY <1>0, <1>1, Zenon DEF UpdateQsa
<1>5. SameKeys(p, s) /\ p.token_count = n
  BY <1>0, <1>1, <1>2 DEF SameKeys
<1> HIDE DEF a, p
<1>6. CASE t = a
  BY <1>1, <1>3, <1>6 DEF Indexed
<1>7. CASE t = TrimRaw(p, o, k)
  <2>1. /\ t \in Attentions /\ ~t.err /\ SameKeys(t, p) /\ IndexHolds(t, y, n + k)
        /\ t.raw_start <= ((n + 1) \div Ratio) * Ratio
    BY <1>1, <1>2, <1>3, <1>5, <1>7, TrimHolds
  <2>2. SameKeys(t, s)
    BY <1>5, <2>1 DEF SameKeys
  <2> QED BY <2>1, <2>2 DEF Indexed
<1> QED BY <1>4, <1>6, <1>7

-----------------------------------------------------------------------------
(* Keys.                                                                   *)

LEMMA KeysJoin ==
  ASSUME NEW y, NEW base \in Int, NEW m \in Nat, NEW p \in Seq(Key), NEW q \in Seq(Key),
         KeysFrom(p, y, base, m), KeysFrom(q, y, base, m + Len(p))
  PROVE  /\ p \o q \in Seq(Key) /\ Len(p \o q) = Len(p) + Len(q)
         /\ KeysFrom(p \o q, y, base, m)
<1>1. Len(p) \in Nat /\ Len(q) \in Nat
  BY LenProperties
<1>2. /\ p \o q \in Seq(Key) /\ Len(p \o q) = Len(p) + Len(q)
      /\ \A i \in 1..(Len(p) + Len(q)) :
           (p \o q)[i] = IF i <= Len(p) THEN p[i] ELSE q[i - Len(p)]
  BY ConcatProperties
<1>3. ASSUME NEW i \in 1..(Len(p) + Len(q)) PROVE (p \o q)[i] = KeyAt(y, base, m + i)
  <2>1. CASE i <= Len(p)
    <3>1. i \in 1..Len(p)
      BY <1>1, <2>1
    <3> QED BY <1>2, <2>1, <3>1 DEF KeysFrom
  <2>2. CASE ~(i <= Len(p))
    <3>1. i - Len(p) \in 1..Len(q) /\ (m + Len(p)) + (i - Len(p)) = m + i
      BY <1>1, <2>2
    <3>2. q[i - Len(p)] = KeyAt(y, base, (m + Len(p)) + (i - Len(p)))
      BY <3>1 DEF KeysFrom
    <3> QED BY <1>2, <2>2, <3>1, <3>2
  <2> QED BY <2>1, <2>2
<1> QED BY <1>2, <1>3 DEF KeysFrom

LEMMA KeysCut ==
  ASSUME NEW y, NEW base \in Int, NEW m \in Nat, NEW q \in Seq(Key), NEW j \in Nat,
         j <= Len(q), KeysFrom(q, y, base, m)
  PROVE  /\ Rows(q, 0, j) \in Seq(Key) /\ Len(Rows(q, 0, j)) = j
         /\ KeysFrom(Rows(q, 0, j), y, base, m)
<1> DEFINE r == Rows(q, 0, j)
<1>1. r \in Seq(Key) /\ Len(r) = j - 0 /\ \A i \in 1..(j - 0) : r[i] = q[0 + i]
  <2>1. 0 \in Nat /\ 0 <= j
    OBVIOUS
  <2> QED BY <2>1, RowsFacts
<1> HIDE DEF r
<1>2. Len(q) \in Nat
  BY LenProperties
<1>3. Len(r) = j /\ \A i \in 1..j : r[i] = q[i] /\ i \in 1..Len(q)
  BY <1>1, <1>2
<1>4. r \in Seq(Key) /\ Len(r) = j /\ KeysFrom(r, y, base, m)
  BY <1>1, <1>3 DEF KeysFrom
<1> QED BY <1>4 DEF r

LEMMA NoKeys ==
  ASSUME NEW q \in Seq(Key), Len(q) = 0
  PROVE  q = <<>>
  BY EmptySeq

LEMMA NoneAreKeys == <<>> \in Seq(Key) /\ Len(<<>>) = 0 /\ \A y, base, m : KeysFrom(<<>>, y, base, m)
<1>1. <<>> \in Seq(Key) /\ Len(<<>>) = 0
  BY EmptySeq
<1> QED BY <1>1 DEF KeysFrom

LEMMA RotatedFacts ==
  ASSUME NEW y \in Seq(Nat), NEW n \in Nat, NEW k \in Nat, n + k <= Len(y),
         NEW base \in Int, NEW s, s.token_count = n, s.position_base = base
  PROVE  LET q == RotatedKeys(s, Rows(y, n, n + k)) IN
         q \in Seq(Key) /\ Len(q) = k /\ KeysFrom(q, y, base, n)
<1> DEFINE toks == Rows(y, n, n + k)
           q == [i \in 1..k |-> <<toks[i], base + n + i - 1>>]
<1>0. Len(y) \in Nat
  BY LenProperties
<1>1. Len(toks) = k /\ \A i \in 1..k : toks[i] = y[n + i]
  BY NextRows, ZenonT(30)
<1>2. RotatedKeys(s, toks) = q
  BY <1>1 DEF RotatedKeys
<1>3. ASSUME NEW i \in 1..k PROVE q[i] = KeyAt(y, base, n + i) /\ q[i] \in Key
  <2>1. n + i \in 1..Len(y) /\ base + n + i - 1 = base + ((n + i) - 1)
    BY <1>0
  <2>2. q[i] = <<y[n + i], base + ((n + i) - 1)>>
    BY <1>1, <2>1
  <2>3. KeyAt(y, base, n + i) \in Key
    BY <2>1, KeyTyped
  <2> QED BY <2>2, <2>3 DEF KeyAt
<1>4. q \in [1..k -> Key]
  <2> DEFINE e(i) == <<toks[i], base + n + i - 1>>
  <2>1. \A i \in 1..k : q[i] = e(i)
    OBVIOUS
  <2>2. \A i \in 1..k : e(i) \in Key
    BY <1>3, <2>1
  <2> HIDE DEF e
  <2>3. q = [i \in 1..k |-> e(i)]
    BY DEF e
  <2> QED BY <2>2, <2>3
<1> HIDE DEF q
<1>5. q \in Seq(Key) /\ Len(q) = k
  BY <1>4, ListIsSeq
<1>6. KeysFrom(q, y, base, n)
  BY <1>3, <1>5 DEF KeysFrom
<1> QED BY <1>2, <1>5, <1>6

LEMMA KeysBehind ==
  ASSUME NEW y, NEW base \in Int, NEW n \in Nat, NEW k \in Nat, NEW keys, NEW cold, NEW q8,
         KeysAre(keys, cold, q8, y, base, n),
         NEW q \in Seq(Key), Len(q) = k, KeysFrom(q, y, base, n)
  PROVE  KeysAre(keys \o q, cold, q8, y, base, n + k)
<1>1. /\ keys \in Seq(Key) /\ cold \in Seq(Key) /\ q8 \in BOOLEAN
      /\ Len(cold) + Len(keys) = n
      /\ KeysFrom(cold, y, base, 0) /\ KeysFrom(keys, y, base, Len(cold))
      /\ (IF q8 THEN n >= Q8Min ELSE cold = <<>>)
  BY DEF KeysAre
<1>2. Len(keys) \in Nat /\ Len(cold) \in Nat /\ Q8Min \in Nat
  BY <1>1, LenProperties, Constant
<1>3. /\ keys \o q \in Seq(Key) /\ Len(keys \o q) = Len(keys) + Len(q)
      /\ KeysFrom(keys \o q, y, base, Len(cold))
  BY <1>1, <1>2, KeysJoin
<1>4. Len(cold) + Len(keys \o q) = n + k /\ (n >= Q8Min => n + k >= Q8Min)
  BY <1>1, <1>2, <1>3
<1> QED BY <1>1, <1>3, <1>4 DEF KeysAre

\* The first rows packed, and the three ways rows are added to a packed cache.
LEMMA KeysPack ==
  ASSUME NEW y, NEW base \in Int, NEW n \in Nat, NEW k \in Nat, n + k >= Q8Min,
         NEW keys, NEW cold, KeysAre(keys, cold, FALSE, y, base, n),
         NEW q \in Seq(Key), Len(q) = k, KeysFrom(q, y, base, n)
  PROVE  KeysAre(q, keys, TRUE, y, base, n + k) /\ Len(keys) = n
<1>1. /\ keys \in Seq(Key) /\ cold \in Seq(Key) /\ Len(cold) + Len(keys) = n
      /\ KeysFrom(keys, y, base, Len(cold)) /\ cold = <<>>
  BY DEF KeysAre
<1>2. Len(keys) \in Nat /\ Len(cold) = 0
  BY <1>1, LenProperties, NoneAreKeys
<1>3. Len(keys) = n /\ KeysFrom(keys, y, base, 0)
  BY <1>1, <1>2
<1> QED BY <1>1, <1>3 DEF KeysAre

LEMMA KeysPacked ==
  ASSUME NEW y, NEW base \in Int, NEW n \in Nat, NEW k \in Nat, n + k >= Q8Min,
         NEW keys, NEW cold, KeysAre(keys, cold, TRUE, y, base, n),
         NEW q \in Seq(Key), Len(q) = k, KeysFrom(q, y, base, n)
  PROVE  /\ KeysAre(q, cold \o keys, TRUE, y, base, n + k) /\ Len(cold \o keys) = n
         /\ Len(keys) = 0 => KeysAre(q, cold, TRUE, y, base, n + k)
         /\ KeysAre(keys \o q, cold, TRUE, y, base, n + k)
<1>1. /\ keys \in Seq(Key) /\ cold \in Seq(Key) /\ Len(cold) + Len(keys) = n
      /\ KeysFrom(cold, y, base, 0) /\ KeysFrom(keys, y, base, Len(cold))
  BY DEF KeysAre
<1>2. Len(keys) \in Nat /\ Len(cold) \in Nat /\ 0 \in Nat
  BY <1>1, LenProperties
<1>3. ASSUME NEW c \in Seq(Key), Len(c) = n, KeysFrom(c, y, base, 0)
      PROVE  KeysAre(q, c, TRUE, y, base, n + k)
  BY <1>3 DEF KeysAre
<1>5. KeysAre(q, cold \o keys, TRUE, y, base, n + k) /\ Len(cold \o keys) = n
  <2>1. 0 + Len(cold) = Len(cold)
    BY <1>2
  <2>2. /\ cold \o keys \in Seq(Key) /\ Len(cold \o keys) = Len(cold) + Len(keys)
        /\ KeysFrom(cold \o keys, y, base, 0)
    BY <1>1, <1>2, <2>1, KeysJoin
  <2> QED BY <1>1, <1>3, <2>2
<1>6. Len(keys) = 0 => KeysAre(q, cold, TRUE, y, base, n + k)
  <2>1. Len(keys) = 0 => Len(cold) = n
    BY <1>1, <1>2
  <2> QED BY <1>1, <1>3, <2>1
<1>7. KeysAre(keys \o q, cold, TRUE, y, base, n + k)
  BY KeysBehind
<1> QED BY <1>5, <1>6, <1>7

LEMMA OneRow ==
  ASSUME NEW y \in Seq(Nat), NEW n \in Nat, n + 1 <= Len(y)
  PROVE  Rows(y, n, n + 1) = <<y[n + 1]>> /\ y[n + 1] \in Nat
<1> DEFINE q == Rows(y, n, n + 1)
<1>0. 1 \in Nat
  OBVIOUS
<1>1. q \in Seq(Nat) /\ Len(q) = 1 /\ \A i \in 1..1 : q[i] = y[n + i] /\ y[n + i] \in Nat
  BY <1>0, NextRows
<1> HIDE DEF q
<1>2. q = <<q[1]>>
  <2>1. <<q[1]>> \in Seq(Nat) /\ Len(<<q[1]>>) = 1 /\ <<q[1]>>[1] = q[1]
    BY <1>1
  <2>2. \A i \in 1..Len(q) : q[i] = <<q[1]>>[i]
    BY <1>1, <2>1
  <2> QED BY <1>1, <2>1, <2>2, SeqEqual
<1>3. q[1] = y[n + 1] /\ y[n + 1] \in Nat
  BY <1>1
<1> QED BY <1>2, <1>3 DEF q

LEMMA EngagesLong ==
  ASSUME NEW total \in Nat, total >= Q8Min, NEW o \in Options, NEW decode
  PROVE  Engages(total, SelectionBudget(o, decode))
<1> DEFINE d == SelectionBudget(o, decode)
           x == d \div Ratio
           z == total \div Ratio
<1>1. d \in Nat /\ d <= Budget
  BY OptionFacts, Constant DEF SelectionBudget
<1>2. x \in Nat /\ x * Ratio \in Nat /\ x * Ratio <= d
  BY <1>1, Blocks
<1>3. (x + 1) * Ratio = x * Ratio + Ratio
  BY <1>2, Constant, SMT
<1>4. x + 1 \in Nat /\ (x + 1) * Ratio <= total
  <2> DEFINE w == x * Ratio
             v == (x + 1) * Ratio
  <2>1. /\ x \in Nat /\ w \in Nat /\ w <= d /\ v = w + Ratio /\ d \in Nat /\ d <= Budget
        /\ Ratio \in Nat /\ Budget \in Nat /\ Q8Min \in Nat /\ Q8Min >= Budget + Ratio
    BY <1>1, <1>2, <1>3, Constant
  <2> HIDE DEF w, v, d, x
  <2>2. x + 1 \in Nat /\ v <= total
    BY <2>1
  <2> QED BY <2>2 DEF v
<1>5. x + 1 <= z
  BY <1>4, BlocksFit
<1>6. z \in Nat
  BY Blocks
<1>7. z > x
  <2> HIDE DEF z, x
  <2> QED BY <1>2, <1>5, <1>6
<1> QED BY <1>7 DEF Engages

\* The record u is s with other keys and another length.
Keyed(u, s, keys, cold, q8, m) ==
  /\ u \in Attentions /\ u.err = s.err /\ u.raw = s.raw /\ u.raw_start = s.raw_start
  /\ u.pooled = s.pooled /\ u.pooled_count = s.pooled_count
  /\ u.position_base = s.position_base /\ u.keys = keys /\ u.cold = cold /\ u.kv_q8 = q8
  /\ u.cold_tokens = Len(cold) /\ u.token_count = m

LEMMA KeyedHolds ==
  ASSUME NEW y, NEW m, NEW base, NEW s, ~s.err, s.position_base = base, IndexHolds(s, y, m),
         NEW keys, NEW cold, NEW q8, KeysAre(keys, cold, q8, y, base, m),
         NEW u, Keyed(u, s, keys, cold, q8, m)
  PROVE  Attending(u, y, m, base)
<1>1. KeysHold(u, y, m)
  BY DEF Keyed, KeysHold
<1>2. IndexHolds(u, y, m)
  BY DEF Keyed, IndexHolds
<1> QED BY <1>1, <1>2 DEF Keyed, Attending

LEMMA KeyedIs ==
  ASSUME NEW s \in Attentions, NEW keys \in Seq(Key), NEW cold \in Seq(Key), NEW q8 \in BOOLEAN,
         NEW m \in Nat, NEW u,
         u = [s EXCEPT !.keys = keys, !.cold = cold, !.kv_q8 = q8, !.cold_tokens = Len(cold),
                       !.token_count = m]
  PROVE  Keyed(u, s, keys, cold, q8, m)
<1> DEFINE c == Len(cold)
<1>1. c \in Nat
  BY LenProperties
<1> HIDE DEF c
<1>2. u = [s EXCEPT !.keys = keys, !.cold = cold, !.kv_q8 = q8, !.cold_tokens = c,
                    !.token_count = m]
  BY DEF c
<1>3. /\ u \in Attentions /\ u.err = s.err /\ u.raw = s.raw /\ u.raw_start = s.raw_start
      /\ u.pooled = s.pooled /\ u.pooled_count = s.pooled_count
      /\ u.position_base = s.position_base /\ u.keys = keys /\ u.cold = cold /\ u.kv_q8 = q8
      /\ u.cold_tokens = c /\ u.token_count = m
  BY <1>1, <1>2 DEF Attentions
<1> QED BY <1>3 DEF Keyed, c

\* A state between the update of its index and the append of its keys.
Appending(s, y, n, k, base) ==
  /\ s \in Attentions /\ ~s.err /\ s.token_count = n /\ s.position_base = base
  /\ KeysHold(s, y, n) /\ IndexHolds(s, y, n + k)

LEMMA AppendingFacts ==
  ASSUME NEW s, NEW y, NEW n, NEW k, NEW base, Appending(s, y, n, k, base)
  PROVE  /\ s \in Attentions /\ ~s.err /\ s.token_count = n /\ s.position_base = base
         /\ KeysAre(s.keys, s.cold, s.kv_q8, y, base, n) /\ s.cold_tokens = Len(s.cold)
         /\ IndexHolds(s, y, n + k) /\ s.keys \in Seq(Key) /\ s.cold \in Seq(Key)
         /\ s.kv_q8 \in BOOLEAN
  BY DEF Appending, KeysHold, KeysAre

LEMMA AppendKeysHolds ==
  ASSUME NEW y \in Seq(Nat), NEW n \in Nat, NEW k \in Nat, k > 0, n + k <= Len(y),
         NEW base \in Int, NEW s, Appending(s, y, n, k, base),
         NEW u, u = [AppendKeys(s, Rows(y, n, n + k)) EXCEPT !.token_count = @ + k]
  PROVE  Attending(u, y, n + k, base)
<1> DEFINE q == RotatedKeys(s, Rows(y, n, n + k))
           keys == s.keys
           j == keys \o q
           m == n + k
           cold == s.cold
           q8 == s.kv_q8
<1>1. /\ s \in Attentions /\ ~s.err /\ s.token_count = n /\ s.position_base = base
      /\ KeysAre(keys, cold, q8, y, base, n) /\ s.cold_tokens = Len(cold)
      /\ IndexHolds(s, y, m) /\ cold \in Seq(Key) /\ q8 \in BOOLEAN
  BY AppendingFacts
<1>2. q \in Seq(Key) /\ Len(q) = k /\ KeysFrom(q, y, base, n)
  BY <1>1, RotatedFacts
<1>3. u = [s EXCEPT !.keys = j, !.token_count = m]
  BY <1>1 DEF AppendKeys, Attentions
<1>4. u = [s EXCEPT !.keys = j, !.cold = cold, !.kv_q8 = q8, !.cold_tokens = Len(cold),
                    !.token_count = m]
  <2> HIDE DEF j, m
  <2> QED BY <1>1, <1>3 DEF Attentions
<1> HIDE DEF q, keys, cold, q8
<1>5. KeysAre(j, cold, q8, y, base, m)
  BY <1>1, <1>2, KeysBehind
<1>6. j \in Seq(Key) /\ m \in Nat
  BY <1>5 DEF KeysAre
<1> HIDE DEF j, m
<1>7. Keyed(u, s, j, cold, q8, m)
  <2>1. s \in Attentions /\ cold \in Seq(Key) /\ TRUE \in BOOLEAN /\ FALSE \in BOOLEAN
    BY <1>1
  <2>2. CASE q8 = TRUE
    BY <1>4, <1>6, <2>1, <2>2, KeyedIs
  <2>3. CASE q8 = FALSE
    BY <1>4, <1>6, <2>1, <2>3, KeyedIs
  <2> QED BY <1>1, <2>2, <2>3
<1>8. Attending(u, y, m, base)
  BY <1>1, <1>5, <1>7, KeyedHolds
<1> QED BY <1>7, <1>8 DEF Keyed, q8, m

LEMMA AppendQ8Holds ==
  ASSUME NEW y \in Seq(Nat), NEW n \in Nat, NEW k \in Nat, k > 0, n + k <= Len(y),
         k < Q8Min, n + k >= Q8Min,
         NEW base \in Int, NEW s, Appending(s, y, n, k, base),
         NEW u, u = [AppendQ8(s, Rows(y, n, n + k)) EXCEPT !.token_count = @ + k]
  PROVE  Attending(u, y, n + k, base)
<1> DEFINE q == RotatedKeys(s, Rows(y, n, n + k))
           keys == s.keys
           m == n + k
           cold == s.cold
           q8 == s.kv_q8
           hot == s.token_count - s.cold_tokens
           h == Len(keys)
           c == Len(cold)
<1>1. /\ s \in Attentions /\ ~s.err /\ s.token_count = n /\ s.position_base = base
      /\ KeysAre(keys, cold, q8, y, base, n) /\ s.cold_tokens = Len(cold)
      /\ IndexHolds(s, y, m) /\ cold \in Seq(Key) /\ keys \in Seq(Key) /\ q8 \in BOOLEAN
  BY AppendingFacts
<1>2. q \in Seq(Key) /\ Len(q) = k /\ KeysFrom(q, y, base, n)
  BY <1>1, RotatedFacts
<1>3. h \in Nat /\ c \in Nat /\ c + h = n
  <2> HIDE DEF keys, cold, q8
  <2> QED BY <1>1, LenProperties DEF KeysAre
<1>4. n # 0 /\ m \in Nat /\ hot = h
  <2>1. Q8Min \in Nat /\ s.cold_tokens = c /\ s.token_count = n
    BY <1>1, Constant
  <2> HIDE DEF c, h
  <2>2. n # 0 /\ m \in Nat
    BY <2>1
  <2>3. n - c = h
    BY <1>3
  <2> QED BY <2>1, <2>2, <2>3
<1>5. /\ q8 = FALSE => KeysAre(q, keys, TRUE, y, base, m) /\ Len(keys) = n
      /\ q8 = TRUE => /\ KeysAre(q, cold \o keys, TRUE, y, base, m) /\ Len(cold \o keys) = n
                      /\ Len(keys) = 0 => KeysAre(q, cold, TRUE, y, base, m)
                      /\ KeysAre(keys \o q, cold, TRUE, y, base, m)
  <2>1. KeysAre(keys, cold, q8, y, base, n)
    BY <1>1
  <2> HIDE DEF keys, cold, q8, q, h, c
  <2>2. q8 = FALSE => KeysAre(q, keys, TRUE, y, base, m) /\ Len(keys) = n
    <3>1. SUFFICES ASSUME q8 = FALSE
                   PROVE  KeysAre(q, keys, TRUE, y, base, m) /\ Len(keys) = n
      OBVIOUS
    <3>2. KeysAre(keys, cold, FALSE, y, base, n)
      BY <2>1, <3>1
    <3> QED BY <1>2, <3>2, KeysPack
  <2>3. q8 = TRUE => /\ KeysAre(q, cold \o keys, TRUE, y, base, m) /\ Len(cold \o keys) = n
                     /\ Len(keys) = 0 => KeysAre(q, cold, TRUE, y, base, m)
                     /\ KeysAre(keys \o q, cold, TRUE, y, base, m)
    <3>1. SUFFICES ASSUME q8 = TRUE
                   PROVE  /\ KeysAre(q, cold \o keys, TRUE, y, base, m)
                          /\ Len(cold \o keys) = n
                          /\ Len(keys) = 0 => KeysAre(q, cold, TRUE, y, base, m)
                          /\ KeysAre(keys \o q, cold, TRUE, y, base, m)
      OBVIOUS
    <3>2. KeysAre(keys, cold, TRUE, y, base, n)
      BY <2>1, <3>1
    <3>3. q \in Seq(Key) /\ Len(q) = k /\ KeysFrom(q, y, base, n) /\ n + k >= Q8Min
      BY <1>2
    <3>4. KeysAre(q, cold \o keys, TRUE, y, base, n + k) /\ Len(cold \o keys) = n
      <4>1. KeysAre(q, cold \o keys, TRUE, y, base, n + k)
        BY <3>2, <3>3, KeysPacked
      <4> DEFINE j == cold \o keys
      <4>2. KeysAre(q, j, TRUE, y, base, n + k)
        BY <4>1
      <4> HIDE DEF j
      <4>3. Len(j) + Len(q) = n + k /\ j \in Seq(Key)
        BY <4>2 DEF KeysAre
      <4>4. Len(j) = n
        BY <3>3, <4>3, LenProperties
      <4> QED BY <4>1, <4>4 DEF j
    <3>5. Len(keys) = 0 => KeysAre(q, cold, TRUE, y, base, n + k)
      BY <3>2, <3>3, KeysPacked
    <3>6. KeysAre(keys \o q, cold, TRUE, y, base, n + k)
      BY <3>2, <3>3, KeysPacked
    <3> QED BY <3>4, <3>5, <3>6
  <2> QED BY <2>2, <2>3
<1> HIDE DEF q, m, hot, h, c
<1>6. ASSUME NEW keys2, NEW cold2, KeysAre(keys2, cold2, TRUE, y, base, m),
             u = [s EXCEPT !.keys = keys2, !.cold = cold2, !.kv_q8 = TRUE,
                           !.cold_tokens = Len(cold2), !.token_count = m]
      PROVE  Attending(u, y, n + k, base)
  <2>1. keys2 \in Seq(Key) /\ cold2 \in Seq(Key) /\ TRUE \in BOOLEAN
    BY <1>6 DEF KeysAre
  <2>2. Keyed(u, s, keys2, cold2, TRUE, m)
    BY <1>1, <1>4, <1>6, <2>1, KeyedIs
  <2>3. Attending(u, y, m, base)
    BY <1>1, <1>6, <2>2, KeyedHolds
  <2> QED BY <2>3 DEF m
<1>7. CASE q8 = FALSE
  <2>1. u = [s EXCEPT !.keys = q, !.cold = keys, !.kv_q8 = TRUE, !.cold_tokens = n,
                      !.token_count = m]
    BY <1>1, <1>4, <1>7, Zenon DEF AppendQ8, q, m, Attentions
  <2>2. Len(keys) = n /\ KeysAre(q, keys, TRUE, y, base, m)
    BY <1>5, <1>7
  <2> QED BY <1>6, <2>1, <2>2
<1>8. CASE q8 = TRUE /\ hot = 0
  <2>0. ~(hot >= Flush)
    BY <1>8, GeometryAssumption
  <2>1. u = [s EXCEPT !.keys = q, !.token_count = m]
    BY <1>1, <1>4, <1>8, <2>0, Zenon DEF AppendQ8, q, m, hot, Attentions
  <2>2. u = [s EXCEPT !.keys = q, !.cold = cold, !.kv_q8 = TRUE, !.cold_tokens = Len(cold),
                      !.token_count = m]
    BY <1>1, <1>8, <2>1, ZenonT(30) DEF Attentions
  <2>3. KeysAre(q, cold, TRUE, y, base, m)
    BY <1>4, <1>5, <1>8 DEF h
  <2> QED BY <1>6, <2>2, <2>3
<1>9. CASE q8 = TRUE /\ ~(hot = 0) /\ hot >= Flush
  <2> DEFINE j == cold \o keys
  <2>1. u = [s EXCEPT !.keys = q, !.cold = j, !.cold_tokens = s.cold_tokens + hot,
                      !.token_count = m]
    BY <1>1, <1>4, <1>9, Zenon DEF AppendQ8, q, m, hot, Attentions
  <2>2. s.cold_tokens + hot = Len(j)
    BY <1>1, <1>3, <1>4, <1>5, <1>9 DEF c
  <2>3. KeysAre(q, j, TRUE, y, base, m)
    BY <1>5, <1>9
  <2> HIDE DEF j
  <2>4. u = [s EXCEPT !.keys = q, !.cold = j, !.kv_q8 = TRUE, !.cold_tokens = Len(j),
                      !.token_count = m]
    BY <1>1, <1>9, <2>1, <2>2 DEF Attentions
  <2> QED BY <1>6, <2>3, <2>4
<1>10. CASE q8 = TRUE /\ ~(hot = 0) /\ ~(hot >= Flush)
  <2> DEFINE j == keys \o q
  <2>1. u = [s EXCEPT !.keys = j, !.token_count = m]
    BY <1>1, <1>4, <1>10, Zenon DEF AppendQ8, q, m, hot, Attentions
  <2>2. KeysAre(j, cold, TRUE, y, base, m)
    BY <1>5, <1>10
  <2> HIDE DEF j
  <2>3. u = [s EXCEPT !.keys = j, !.cold = cold, !.kv_q8 = TRUE, !.cold_tokens = Len(cold),
                      !.token_count = m]
    BY <1>1, <1>10, <2>1, ZenonT(30) DEF Attentions
  <2> QED BY <1>6, <2>2, <2>3
<1> QED BY <1>1, <1>7, <1>8, <1>9, <1>10

LEMMA IndexedAppends ==
  ASSUME NEW y, NEW n, NEW k, NEW base, NEW s, Attending(s, y, n, base),
         NEW t, Indexed(t, s, y, n, k)
  PROVE  Appending(t, y, n, k, base)
<1>1. KeysHold(t, y, n)
  BY KeysStay DEF Attending, Indexed
<1> QED BY <1>1 DEF Attending, Indexed, Appending, SameKeys

LEMMA AttendingFacts ==
  ASSUME NEW s, NEW y, NEW n, NEW base, Attending(s, y, n, base)
  PROVE  /\ s \in Attentions /\ ~s.err /\ s.err = FALSE /\ s.token_count = n
         /\ s.position_base = base
         /\ s.kv_q8 \in BOOLEAN /\ (s.kv_q8 => n >= Q8Min) /\ s.cold_tokens = Len(s.cold)
         /\ KeysAre(s.keys, s.cold, s.kv_q8, y, base, n) /\ IndexHolds(s, y, n)
         /\ Len(s.cold) + Len(s.keys) = n
<1>1. /\ s \in Attentions /\ ~s.err /\ s.token_count = n /\ s.position_base = base
      /\ KeysHold(s, y, n) /\ IndexHolds(s, y, n) /\ s.err \in BOOLEAN /\ s.kv_q8 \in BOOLEAN
  BY DEF Attending, Attentions
<1>2. KeysAre(s.keys, s.cold, s.kv_q8, y, base, n) /\ s.cold_tokens = Len(s.cold)
  BY <1>1 DEF KeysHold
<1> QED BY <1>1, <1>2 DEF KeysAre

\* A call that packs the cache is one whose rows select blocks.
LEMMA ExtendedHolds ==
  ASSUME NEW y \in Seq(Nat), NEW n \in Nat, NEW k \in Nat, k > 0, n + k <= Len(y), k < Q8Min,
         NEW base \in Int, NEW s, Attending(s, y, n, base), NEW o \in Options,
         NEW decode, NEW packs, NEW u, u = Extended(s, o, Rows(y, n, n + k), decode, packs)
  PROVE  Attending(u, y, n + k, base)
<1> DEFINE toks == Rows(y, n, n + k)
           q8 == WantsQ8(s, o, k)
           picked == Engages(n + k, SelectionBudget(o, decode))
           packed == picked /\ (q8 \/ packs)
           index == UpdateQsa(s, o, toks, decode)
           added == IF q8 /\ packed THEN AppendQ8(index, toks) ELSE AppendKeys(index, toks)
           v == [added EXCEPT !.token_count = @ + k]
<1>1. Len(toks) = k
  BY NextRows
<1>2. /\ ~s.err /\ s.token_count = n /\ (s.kv_q8 => n >= Q8Min)
  BY AttendingFacts
<1>3. Indexed(index, s, y, n, k)
  BY UpdateHolds
<1>4. ~index.err /\ Appending(index, y, n, k, base) /\ index.kv_q8 = s.kv_q8
  BY <1>3, IndexedAppends DEF Indexed, SameKeys
<1>5. u = Attend(v, packed)
  BY <1>1, <1>2, <1>4, Zenon DEF Extended
<1>6. q8 => n + k >= Q8Min
  BY <1>2, Constant DEF WantsQ8
<1>7. q8 => packed
  BY <1>6, EngagesLong
<1>8. CASE q8
  <2>1. v = [AppendQ8(index, toks) EXCEPT !.token_count = @ + k]
    BY <1>7, <1>8
  <2>2. Attending(v, y, n + k, base)
    <3> HIDE DEF v, index
    <3> QED BY <1>4, <1>6, <1>8, <2>1, AppendQ8Holds
  <2>3. Q8Contract(v)
    BY <2>2, AttendingFacts, ZenonT(30) DEF Q8Contract
  <2>4. u = v
    BY <1>5, <1>7, <1>8, <2>3 DEF Attend
  <2> QED BY <2>2, <2>4
<1>9. CASE ~q8
  <2>1. v = [AppendKeys(index, toks) EXCEPT !.token_count = @ + k]
    BY <1>9
  <2>2. Attending(v, y, n + k, base) /\ v.kv_q8 = index.kv_q8
    <3> HIDE DEF v, index
    <3>1. Attending(v, y, n + k, base)
      BY <1>4, <2>1, AppendKeysHolds
    <3>2. v.kv_q8 = index.kv_q8
      BY <1>3, <2>1 DEF AppendKeys, Attentions, Indexed
    <3> QED BY <3>1, <3>2
  <2>3. ~s.kv_q8
    BY <1>9 DEF WantsQ8
  <2>4. u = v
    BY <1>4, <1>5, <2>2, <2>3 DEF Attend
  <2> QED BY <2>2, <2>4
<1> QED BY <1>8, <1>9

LEMMA OneIsShort == 1 < Q8Min /\ 1 \in Nat /\ 1 > 0
  BY Constant

LEMMA DecodeHolds ==
  ASSUME NEW y \in Seq(Nat), NEW n \in Nat, n + 1 <= Len(y),
         NEW base \in Int, NEW s, Attending(s, y, n, base), NEW o \in Options,
         NEW u, u = AttentionDecode(s, o, y[n + 1])
  PROVE  Attending(u, y, n + 1, base)
<1>1. u = Extended(s, o, Rows(y, n, n + 1), TRUE, FALSE)
  BY OneRow DEF AttentionDecode
<1> QED BY <1>1, OneIsShort, ExtendedHolds

\* A row of a pair is decoded as it would be alone.
PairRow(s, o, row) ==
  LET packed == WantsQ8(s, o, 1) /\ Engages(s.token_count + 1, SelectionBudget(o, TRUE))
      index  == UpdateQsa(s, o, row, TRUE)
      added  == IF packed THEN AppendQ8(index, row) ELSE AppendKeys(index, row)
  IN Attend([added EXCEPT !.token_count = @ + 1], packed)

LEMMA PairRowHolds ==
  ASSUME NEW y \in Seq(Nat), NEW n \in Nat, n + 1 <= Len(y),
         NEW base \in Int, NEW o \in Options, NEW s, Attending(s, y, n, base),
         NEW u, u = PairRow(s, o, Rows(y, n, n + 1))
  PROVE  Attending(u, y, n + 1, base)
<1> DEFINE row == Rows(y, n, n + 1)
           q8 == WantsQ8(s, o, 1)
           picked == Engages(n + 1, SelectionBudget(o, TRUE))
           packed == q8 /\ picked
           index == UpdateQsa(s, o, row, TRUE)
           added == IF packed THEN AppendQ8(index, row) ELSE AppendKeys(index, row)
           v == [added EXCEPT !.token_count = @ + 1]
<1>1. /\ ~s.err /\ s.token_count = n /\ (s.kv_q8 => n >= Q8Min)
  BY AttendingFacts
<1>2. u = Attend(v, packed)
  BY <1>1, Zenon DEF PairRow
<1>3. Indexed(index, s, y, n, 1)
  BY OneIsShort, UpdateHolds
<1>4. Appending(index, y, n, 1, base) /\ index.kv_q8 = s.kv_q8 /\ index \in Attentions
  BY <1>3, IndexedAppends DEF Indexed, SameKeys
<1>5. n + 1 \in Nat
  OBVIOUS
<1>6. q8 => n + 1 >= Q8Min
  BY <1>1, Constant DEF WantsQ8
<1>7. q8 => packed
  BY <1>5, <1>6, EngagesLong
<1>8. CASE q8
  <2>1. v = [AppendQ8(index, row) EXCEPT !.token_count = @ + 1]
    BY <1>7, <1>8
  <2>2. Attending(v, y, n + 1, base)
    <3> HIDE DEF v, index
    <3> QED BY <1>4, <1>6, <1>8, <2>1, OneIsShort, AppendQ8Holds
  <2>3. Q8Contract(v)
    <3> DEFINE m == n + 1
    <3>1. Attending(v, y, m, base)
      BY <2>2
    <3> HIDE DEF v, m
    <3>2. /\ v.token_count = m /\ v.cold_tokens = Len(v.cold)
          /\ Len(v.cold) + Len(v.keys) = m
      BY <3>1, AttendingFacts
    <3> QED BY <3>2 DEF Q8Contract
  <2>4. u = v
    BY <1>2, <1>7, <1>8, <2>3 DEF Attend
  <2> QED BY <2>2, <2>4
<1>9. CASE ~q8
  <2>1. v = [AppendKeys(index, row) EXCEPT !.token_count = @ + 1]
    BY <1>9
  <2>2. Attending(v, y, n + 1, base) /\ v.kv_q8 = index.kv_q8
    <3> HIDE DEF v, index
    <3>1. Attending(v, y, n + 1, base)
      BY <1>4, <2>1, OneIsShort, AppendKeysHolds
    <3>2. v.kv_q8 = index.kv_q8
      BY <1>4, <2>1 DEF AppendKeys, Attentions
    <3> QED BY <3>1, <3>2
  <2>3. ~s.kv_q8
    BY <1>9 DEF WantsQ8
  <2>4. u = v
    BY <1>2, <1>4, <2>2, <2>3 DEF Attend
  <2> QED BY <2>2, <2>4
<1> QED BY <1>8, <1>9

LEMMA PairedHolds ==
  ASSUME NEW y \in Seq(Nat), NEW n \in Nat, n + 1 <= Len(y),
         NEW base \in Int, NEW o \in Options, NEW pair, NEW toks, NEW r \in DOMAIN pair,
         Attending(pair[r], y, n, base), toks[r] = y[n + 1],
         NEW u, u = AttentionDecodeMulti(pair, o, toks)[r]
  PROVE  Attending(u, y, n + 1, base)
<1> DEFINE s == pair[r]
<1>1. Rows(y, n, n + 1) = <<toks[r]>>
  BY OneRow
<1>2. u = PairRow(s, o, <<toks[r]>>)
  BY Zenon DEF AttentionDecodeMulti, PairRow
<1>3. Attending(s, y, n, base)
  OBVIOUS
<1> HIDE DEF s
<1> QED BY <1>1, <1>2, <1>3, PairRowHolds

-----------------------------------------------------------------------------
(* Calls that take their rows one after the other.                         *)

Chained(f, N, s, g) == f = [i \in 0..N |-> IF i = 0 THEN s ELSE g[i][f[i - 1]]]

LEMMA ChainExists ==
  ASSUME NEW N \in Nat, NEW s, NEW g
  PROVE  \E f : Chained(f, N, s, g)
<1> DEFINE P == {k \in Nat : \E f : Chained(f, k, s, g)}
<1>1. 0 \in P
  <2>1. Chained([i \in 0..0 |-> s], 0, s, g)
    BY DEF Chained
  <2> QED BY <2>1
<1>2. ASSUME NEW k \in Nat, k \in P PROVE k + 1 \in P
  <2>1. PICK f : Chained(f, k, s, g)
    BY <1>2
  <2> DEFINE h == [i \in 0..(k + 1) |-> IF i <= k THEN f[i] ELSE g[k + 1][f[k]]]
  <2>2. \A i \in 0..k : f[i] = IF i = 0 THEN s ELSE g[i][f[i - 1]]
    BY <2>1 DEF Chained
  <2>3. ASSUME NEW i \in 0..(k + 1)
        PROVE  h[i] = IF i = 0 THEN s ELSE g[i][h[i - 1]]
    <3>1. CASE i <= k
      BY <2>2, <3>1
    <3>2. CASE i = k + 1
      BY <3>2
    <3> QED BY <3>1, <3>2
  <2>4. h = [i \in 0..(k + 1) |-> h[i]]
    OBVIOUS
  <2> HIDE DEF h
  <2>5. Chained(h, k + 1, s, g)
    BY <2>3, <2>4 DEF Chained
  <2> QED BY <2>5
<1> HIDE DEF P
<1>3. N \in P
  BY <1>1, <1>2, NatInduct
<1> QED BY <1>3 DEF P

LEMMA ChainStays ==
  ASSUME NEW N \in Nat, NEW A, NEW h, h[0] \in A[0],
         \A i \in 1..N : h[i - 1] \in A[i - 1] => h[i] \in A[i]
  PROVE  \A i \in 0..N : h[i] \in A[i]
<1> DEFINE P == {k \in Nat : k <= N => h[k] \in A[k]}
<1>1. 0 \in P
  OBVIOUS
<1>2. ASSUME NEW k \in Nat, k \in P PROVE k + 1 \in P
  <2>1. SUFFICES ASSUME k + 1 <= N PROVE h[k + 1] \in A[k + 1]
    OBVIOUS
  <2>2. k + 1 \in 1..N /\ (k + 1) - 1 = k /\ h[k] \in A[k]
    BY <1>2, <2>1
  <2> QED BY <2>2
<1>3. \A k \in Nat : k \in P
  <2> HIDE DEF P
  <2> QED BY <1>1, <1>2, NatInduct
<1> QED BY <1>3

\* A chain of calls exists and keeps to the sets that each call leads through.
LEMMA ChainHolds ==
  ASSUME NEW N \in Nat, NEW A, NEW s \in A[0], NEW g,
         \A i \in 1..N : \A x \in A[i - 1] : g[i][x] \in A[i]
  PROVE  \E f : Chained(f, N, s, g) /\ \A i \in 0..N : f[i] \in A[i]
<1>1. PICK f : Chained(f, N, s, g)
  BY ChainExists
<1>2. f[0] = s /\ \A i \in 1..N : f[i] = g[i][f[i - 1]]
  BY <1>1 DEF Chained
<1>3. \A i \in 0..N : f[i] \in A[i]
  BY <1>2, ChainStays
<1> QED BY <1>1, <1>3

\* The states that hold the first n + i tokens of y, for i = 0 .. N.
After(y, n, base, N) == [i \in 0..N |-> {x \in Attentions : Attending(x, y, n + i, base)}]

LEMMA DecodeChainHolds ==
  ASSUME NEW y \in Seq(Nat), NEW n \in Nat, NEW k \in Nat, n + k <= Len(y),
         NEW base \in Int, NEW s, Attending(s, y, n, base), NEW o \in Options,
         NEW c, c = DecodeChain(s, o, Rows(y, n, n + k))
  PROVE  \A i \in 1..k : Attending(c[i], y, n + i, base)
<1> DEFINE toks == Rows(y, n, n + k)
           A == After(y, n, base, k)
           Eq(f) == f = [i \in 0..Len(toks) |->
                           IF i = 0 THEN s ELSE AttentionDecode(f[i - 1], o, toks[i])]
           g == [i \in 1..k |-> [x \in A[i - 1] |-> AttentionDecode(x, o, toks[i])]]
           chain == CHOOSE f : Eq(f)
<1>1. /\ Len(toks) = k
      /\ \A i \in 1..k : toks[i] = y[n + i]
  BY NextRows
<1>2. s \in A[0]
  BY DEF After, Attending
<1>3. ASSUME NEW i \in 1..k, NEW x \in A[i - 1]
      PROVE  AttentionDecode(x, o, toks[i]) \in A[i]
  <2> DEFINE m == n + (i - 1)
             u == AttentionDecode(x, o, toks[i])
  <2>1. Attending(x, y, m, base)
    <3>1. i - 1 \in 0..k
      OBVIOUS
    <3> QED BY <1>3, <3>1 DEF After
  <2>2. m \in Nat /\ m + 1 = n + i /\ m + 1 <= Len(y)
    BY LenProperties
  <2>3. toks[i] = y[m + 1]
    BY <1>1, <2>2
  <2> HIDE DEF m
  <2>4. Attending(u, y, m + 1, base)
    BY <2>1, <2>2, <2>3, DecodeHolds
  <2>5. u \in {z \in Attentions : Attending(z, y, n + i, base)}
    BY <2>2, <2>4 DEF Attending
  <2>6. A[i] = {z \in Attentions : Attending(z, y, n + i, base)}
    BY DEF After
  <2> QED BY <2>5, <2>6
<1> HIDE DEF A, toks
<1>4. \E f : Eq(f)
  <2>1. \A i \in 1..k : \A x \in A[i - 1] : g[i][x] = AttentionDecode(x, o, toks[i])
    OBVIOUS
  <2>2. PICK f : Chained(f, k, s, g) /\ \A i \in 0..k : f[i] \in A[i]
    <3>1. \A i \in 1..k : \A x \in A[i - 1] : g[i][x] \in A[i]
      BY <1>3, <2>1
    <3> HIDE DEF g
    <3> QED BY <1>2, <3>1, ChainHolds
  <2>3. f = [i \in 0..k |-> IF i = 0 THEN s ELSE g[i][f[i - 1]]]
    BY <2>2 DEF Chained
  <2>4. ASSUME NEW i \in 0..k, i # 0 PROVE g[i][f[i - 1]] = AttentionDecode(f[i - 1], o, toks[i])
    <3>1. i \in 1..k /\ i - 1 \in 0..k
      BY <2>4
    <3>2. f[i - 1] \in A[i - 1]
      BY <2>2, <3>1
    <3> QED BY <2>1, <3>1, <3>2
  <2> HIDE DEF g
  <2>5. Eq(f)
    BY <1>1, <2>3, <2>4
  <2> QED BY <2>5
<1>5. Eq(chain)
  BY <1>4
<1>6. c = [i \in 1..Len(toks) |-> chain[i]]
  BY DEF DecodeChain, toks
<1> HIDE DEF chain
<1>7. chain[0] = s /\ \A i \in 1..k : chain[i] = AttentionDecode(chain[i - 1], o, toks[i])
  BY <1>1, <1>5, SMTT(30)
<1>8. \A i \in 0..k : chain[i] \in A[i]
  BY <1>2, <1>3, <1>7, ChainStays
<1>9. ASSUME NEW i \in 1..k PROVE Attending(c[i], y, n + i, base)
  <2>1. c[i] = chain[i] /\ i \in 0..k
    BY <1>1, <1>6, SMTT(30)
  <2> QED BY <1>8, <2>1 DEF A, After
<1> QED BY <1>9

-----------------------------------------------------------------------------
(* Checkpoints.                                                            *)

LEMMA CutFacts ==
  ASSUME NEW q, NEW S, q \in Seq(S), NEW j \in Nat, j <= Len(q)
  PROVE  /\ Rows(q, 0, j) \in Seq(S) /\ Len(Rows(q, 0, j)) = j
         /\ \A i \in 1..j : Rows(q, 0, j)[i] = q[i]
<1> DEFINE z == 0
<1>1. z \in Nat /\ z <= j /\ j - z = j /\ \A i \in 1..j : z + i = i
  OBVIOUS
<1> HIDE DEF z
<1>2. /\ Rows(q, z, j) \in Seq(S) /\ Len(Rows(q, z, j)) = j - z
      /\ \A i \in 1..(j - z) : Rows(q, z, j)[i] = q[z + i]
  BY <1>1, RowsFacts
<1> QED BY <1>1, <1>2 DEF z

\* The index of n + k rows cut back to m of them: blocks and window.
CutBlocks(count, m) == MinOf(count, m \div Ratio)
CutStart(old, count, w, m) ==
  MaxOf(old, MinOf(IF w = 0 THEN old ELSE MaxOf(0, m - w), CutBlocks(count, m) * Ratio))

CutFrom(old, count, w, m, n, k) ==
  /\ n \in Nat /\ k \in Nat /\ m \in Nat /\ n + 1 <= m /\ m <= n + k
  /\ old \in Nat /\ count \in Nat /\ w \in Nat
  /\ old <= ((n + 1) \div Ratio) * Ratio /\ old <= count * Ratio /\ count * Ratio <= n + k

CutFits(old, count, w, m, n, k) ==
  LET blocks == CutBlocks(count, m)
      start  == CutStart(old, count, w, m)
  IN /\ blocks \in Nat /\ blocks <= count /\ blocks * Ratio <= m /\ old <= blocks * Ratio
     /\ start \in Nat /\ old <= start /\ start <= blocks * Ratio /\ start <= m
     /\ count <= (n + k) \div Ratio /\ old <= m

LEMMA CutBounds ==
  ASSUME NEW n, NEW k, NEW m, NEW old, NEW count, NEW w, CutFrom(old, count, w, m, n, k)
  PROVE  CutFits(old, count, w, m, n, k)
<1> DEFINE blocks == CutBlocks(count, m)
           start == CutStart(old, count, w, m)
           desired == IF w = 0 THEN old ELSE MaxOf(0, m - w)
           near == ((n + 1) \div Ratio) * Ratio
           f == m \div Ratio
           far == f * Ratio
           c == count * Ratio
           b == blocks * Ratio
<1>0. /\ n \in Nat /\ k \in Nat /\ m \in Nat /\ n + 1 <= m /\ m <= n + k
      /\ old \in Nat /\ count \in Nat /\ w \in Nat
      /\ old <= near /\ old <= c /\ c <= n + k
  BY DEF CutFrom
<1>1. near \in Nat /\ near <= far /\ far \in Nat /\ far <= m /\ f \in Nat
  <2>1. n + 1 \in Nat
    BY <1>0
  <2> QED BY <1>0, <2>1, Blocks, BlocksGrow
<1>2. c \in Nat
  BY <1>0, Times
<1>3. count <= (n + k) \div Ratio
  <2>1. n + k \in Nat
    BY <1>0
  <2> QED BY <1>0, <2>1, BlocksFit
<1>4. blocks \in Nat /\ blocks <= count /\ blocks <= f /\ (blocks = count \/ blocks = f)
  <2>1. blocks = MinOf(count, f)
    BY DEF CutBlocks
  <2> HIDE DEF f, blocks
  <2> QED BY <1>0, <1>1, <2>1 DEF MinOf
<1>5. b \in Nat /\ (b = c \/ b = far) /\ b <= far
  BY <1>0, <1>1, <1>4, Times
<1>a. start = MaxOf(old, MinOf(desired, b))
  BY DEF CutStart
<1> HIDE DEF near, f, far, c, b, blocks, start
<1>6. old <= b /\ b <= m
  BY <1>0, <1>1, <1>2, <1>5
<1>7. desired \in Int
  BY <1>0 DEF MaxOf
<1> HIDE DEF desired
<1>8. start \in Nat /\ old <= start /\ start <= b
  BY <1>0, <1>a, <1>5, <1>6, <1>7 DEF MaxOf, MinOf
<1>9. start <= m /\ old <= m
  BY <1>0, <1>5, <1>6, <1>8
<1> QED BY <1>3, <1>4, <1>6, <1>8, <1>9 DEF CutFits, b, blocks, start

LEMMA CheckpointHolds ==
  ASSUME NEW y \in Seq(Nat), NEW n \in Nat, NEW k \in Nat, NEW m \in Nat,
         n + 1 <= m, m <= n + k, n + k <= Len(y), NEW base \in Int, NEW o \in Options,
         NEW s \in Attentions, s.token_count = n + k, s.position_base = base,
         IndexHolds(s, y, n + k), s.raw_start <= ((n + 1) \div Ratio) * Ratio,
         NEW cp \in Attentions, ~cp.err, cp.token_count = m, cp.position_base = base,
         KeysHold(cp, y, m), NEW u, u = QsaCheckpoint(s, o, m, cp)
  PROVE  Attending(u, y, m, base)
<1> DEFINE old == s.raw_start
           count == s.pooled_count
           w == o.window
           blocks == MinOf(count, m \div Ratio)
           desired == IF w = 0 THEN old ELSE MaxOf(0, m - w)
           start == MaxOf(old, MinOf(desired, blocks * Ratio))
           raw == Rows(s.raw, start - old, m - old)
           pooled == Rows(s.pooled, 0, blocks)
<1>0. /\ Len(y) \in Nat /\ w \in Nat /\ old \in Nat /\ count \in Nat /\ s.pooled \in Seq(Pool)
      /\ n + k \in Nat
  BY LenProperties, OptionFacts DEF Attentions
<1>1. /\ s.raw = Rows(y, old, n + k) /\ old <= count * Ratio /\ count * Ratio <= n + k
      /\ Len(s.pooled) = count /\ \A b \in 1..count : s.pooled[b] = PoolAt(y, base, b)
      /\ old <= ((n + 1) \div Ratio) * Ratio
  BY DEF IndexHolds
<1>2. /\ blocks \in Nat /\ blocks <= count /\ blocks * Ratio <= m /\ old <= blocks * Ratio
      /\ start \in Nat /\ old <= start /\ start <= blocks * Ratio /\ start <= m
      /\ count <= (n + k) \div Ratio /\ old <= m
  <2>1. blocks = CutBlocks(count, m) /\ start = CutStart(old, count, w, m)
    BY DEF CutBlocks, CutStart
  <2>2. /\ old \in Nat /\ count \in Nat /\ w \in Nat
        /\ old <= ((n + 1) \div Ratio) * Ratio /\ old <= count * Ratio /\ count * Ratio <= n + k
    BY <1>0, <1>1
  <2> HIDE DEF old, count, w, blocks, start
  <2>3. CutFrom(old, count, w, m, n, k)
    BY <2>2 DEF CutFrom
  <2>4. CutFits(old, count, w, m, n, k)
    BY <2>3, CutBounds
  <2> QED BY <2>1, <2>4 DEF CutFits
<1>3. u = [cp EXCEPT !.raw = raw, !.raw_start = start, !.pooled_count = blocks, !.pooled = pooled]
  <2>1. ~(m > n + k) /\ ~(old > m) /\ ~(count > (n + k) \div Ratio) /\ ~(old > blocks * Ratio)
    <3> DEFINE x == blocks * Ratio
               z == (n + k) \div Ratio
    <3>1. x \in Nat /\ z \in Nat /\ old <= x /\ count <= z /\ count \in Nat /\ old \in Nat
      BY <1>0, <1>2, Times, Blocks
    <3>2. old <= m
      BY <1>2
    <3> HIDE DEF x, z, old, count
    <3>3. ~(m > n + k) /\ ~(old > m) /\ ~(count > z) /\ ~(old > x)
      BY <3>1, <3>2
    <3> QED BY <3>3 DEF x, z
  <2> QED BY <2>1, Zenon DEF QsaCheckpoint
<1>4. raw = Rows(y, start, m) /\ raw \in Seq(Nat)
  <2> DEFINE a == start - old
             b == m - old
             end == n + k
  <2>1. /\ old \in Nat /\ start \in Nat /\ old <= start /\ start <= m /\ end \in Nat
        /\ m <= end /\ end <= Len(y) /\ s.raw = Rows(y, old, end)
    BY <1>0, <1>1, <1>2
  <2> HIDE DEF old, start, end
  <2>2. /\ a \in Nat /\ b \in Nat /\ a <= b /\ b <= end - old /\ old <= end
        /\ old + a = start /\ old + b = m
    BY <2>1
  <2>3. m <= Len(y)
    BY <1>0, <2>1
  <2> HIDE DEF a, b
  <2>4. Rows(Rows(y, old, end), a, b) = Rows(y, old + a, old + b)
    BY <2>1, <2>2, RowsOfRows
  <2>5. Rows(y, start, m) \in Seq(Nat)
    BY <2>1, <2>3, RowsFacts
  <2> QED BY <2>1, <2>2, <2>4, <2>5 DEF a, b
<1>5. /\ pooled \in Seq(Pool) /\ Len(pooled) = blocks
      /\ \A b \in 1..blocks : pooled[b] = PoolAt(y, base, b)
  <2> DEFINE q == s.pooled
  <2>1. q \in Seq(Pool) /\ Len(q) = count /\ blocks <= Len(q) /\ blocks \in Nat /\ count \in Nat
        /\ \A b \in 1..count : q[b] = PoolAt(y, base, b)
    BY <1>0, <1>1, <1>2
  <2> HIDE DEF q, blocks, count
  <2>2. /\ Rows(q, 0, blocks) \in Seq(Pool) /\ Len(Rows(q, 0, blocks)) = blocks
        /\ \A i \in 1..blocks : Rows(q, 0, blocks)[i] = q[i]
    BY <2>1, CutFacts
  <2>3. \A i \in 1..blocks : i \in 1..count
    BY <2>1
  <2> QED BY <2>1, <2>2, <2>3 DEF q
<1>6. blocks \in Nat /\ start \in Nat
  BY <1>2
<1> HIDE DEF raw, pooled, start, blocks
<1>7. /\ u \in Attentions /\ ~u.err /\ u.token_count = m /\ u.position_base = base
      /\ u.raw = raw /\ u.raw_start = start /\ u.pooled = pooled /\ u.pooled_count = blocks
      /\ SameKeys(u, cp)
  BY <1>3, <1>4, <1>5, <1>6 DEF Attentions, SameKeys
<1>8. KeysHold(u, y, m)
  BY <1>7, KeysStay
<1>9. IndexHolds(u, y, m)
  BY <1>2, <1>4, <1>5, <1>7 DEF IndexHolds
<1> QED BY <1>7, <1>8, <1>9 DEF Attending

LEMMA KeysCutBack ==
  ASSUME NEW y, NEW base \in Int, NEW N \in Nat, NEW m \in Nat, m <= N,
         NEW keys, NEW cold, NEW q8, KeysAre(keys, cold, q8, y, base, N),
         Len(cold) <= m, q8 = TRUE => m >= Q8Min
  PROVE  KeysAre(Rows(keys, 0, m - Len(cold)), cold, q8, y, base, m)
<1> DEFINE j == m - Len(cold)
<1>1. /\ keys \in Seq(Key) /\ cold \in Seq(Key) /\ q8 \in BOOLEAN
      /\ Len(cold) + Len(keys) = N
      /\ KeysFrom(cold, y, base, 0) /\ KeysFrom(keys, y, base, Len(cold))
      /\ (q8 = FALSE => cold = <<>>)
  BY DEF KeysAre
<1>2. Len(keys) \in Nat /\ Len(cold) \in Nat
  BY <1>1, LenProperties
<1>3. j \in Nat /\ j <= Len(keys) /\ Len(cold) + j = m
  BY <1>1, <1>2
<1> HIDE DEF j
<1>4. /\ Rows(keys, 0, j) \in Seq(Key) /\ Len(Rows(keys, 0, j)) = j
      /\ KeysFrom(Rows(keys, 0, j), y, base, Len(cold))
  BY <1>1, <1>2, <1>3, KeysCut
<1>5. KeysAre(Rows(keys, 0, j), cold, q8, y, base, m)
  BY <1>1, <1>3, <1>4 DEF KeysAre
<1> QED BY <1>5 DEF j

\* The record of a batch: the index of all rows, and the keys of all rows.
BatchKeys(s, toks) == s.keys \o RotatedKeys(s, toks)
BatchState(s, o, toks) ==
  [UpdateQsa(s, o, toks, TRUE) EXCEPT !.keys = BatchKeys(s, toks),
                                      !.token_count = s.token_count + Len(toks)]

Batched(w, s, y, n, k, base) ==
  /\ w \in Attentions /\ ~w.err /\ w.token_count = n + k /\ w.position_base = base
  /\ IndexHolds(w, y, n + k) /\ w.raw_start <= ((n + 1) \div Ratio) * Ratio
  /\ w.cold = s.cold /\ w.kv_q8 = s.kv_q8 /\ w.cold_tokens = Len(s.cold)
  /\ KeysAre(w.keys, s.cold, s.kv_q8, y, base, n + k)

LEMMA BatchKeysHold ==
  ASSUME NEW y \in Seq(Nat), NEW n \in Nat, NEW k \in Nat, n + k <= Len(y),
         NEW base \in Int, NEW s, Attending(s, y, n, base)
  PROVE  KeysAre(BatchKeys(s, Rows(y, n, n + k)), s.cold, s.kv_q8, y, base, n + k)
<1> DEFINE q == RotatedKeys(s, Rows(y, n, n + k))
           a == s.keys
           b == s.cold
           c == s.kv_q8
<1>0. s.token_count = n /\ s.position_base = base /\ KeysAre(a, b, c, y, base, n)
  BY AttendingFacts
<1>1. q \in Seq(Key) /\ Len(q) = k /\ KeysFrom(q, y, base, n)
  <2> HIDE DEF a, b, c
  <2>1. n + k <= Len(y)
    OBVIOUS
  <2>2. q \in Seq(Key)
    BY <1>0, <2>1, RotatedFacts
  <2>3. Len(q) = k
    BY <1>0, <2>1, RotatedFacts
  <2>4. KeysFrom(q, y, base, n)
    BY <1>0, <2>1, RotatedFacts
  <2> QED BY <2>2, <2>3, <2>4
<1>2. KeysAre(a, b, c, y, base, n)
  BY <1>0
<1> HIDE DEF a, b, c, q
<1>3. KeysAre(a \o q, b, c, y, base, n + k)
  BY <1>1, <1>2, KeysBehind
<1> QED BY <1>3 DEF a, b, c, q, BatchKeys

LEMMA BatchHolds ==
  ASSUME NEW y \in Seq(Nat), NEW n \in Nat, NEW k \in Nat, k > 0, n + k <= Len(y),
         NEW base \in Int, NEW s, Attending(s, y, n, base), NEW o \in Options,
         NEW w, w = BatchState(s, o, Rows(y, n, n + k))
  PROVE  Batched(w, s, y, n, k, base)
<1> DEFINE all == BatchKeys(s, Rows(y, n, n + k))
           index == UpdateQsa(s, o, Rows(y, n, n + k), TRUE)
           m == n + k
<1>1. /\ s.token_count = n /\ s.position_base = base
      /\ KeysAre(s.keys, s.cold, s.kv_q8, y, base, n) /\ s.cold_tokens = Len(s.cold)
  BY AttendingFacts
<1>3. KeysAre(all, s.cold, s.kv_q8, y, base, m)
  BY BatchKeysHold
<1>4. Indexed(index, s, y, n, k)
  BY UpdateHolds
<1>5. /\ index \in Attentions /\ ~index.err /\ SameKeys(index, s) /\ IndexHolds(index, y, m)
      /\ index.raw_start <= ((n + 1) \div Ratio) * Ratio
  BY <1>4 DEF Indexed
<1>6. all \in Seq(Key) /\ m \in Nat
  BY <1>3 DEF KeysAre
<1>7. w = [index EXCEPT !.keys = all, !.token_count = m]
  BY <1>1, NextRows DEF BatchState
<1> HIDE DEF m, all, index
<1>8. /\ w \in Attentions /\ ~w.err /\ w.token_count = m /\ w.raw = index.raw
      /\ w.raw_start = index.raw_start /\ w.pooled = index.pooled
      /\ w.pooled_count = index.pooled_count /\ w.position_base = index.position_base
      /\ w.cold = index.cold /\ w.kv_q8 = index.kv_q8 /\ w.cold_tokens = index.cold_tokens
      /\ w.keys = all
  BY <1>5, <1>6, <1>7 DEF Attentions
<1>9. IndexHolds(w, y, m)
  BY <1>5, <1>8 DEF IndexHolds
<1>10. /\ w.position_base = base /\ w.cold = s.cold /\ w.kv_q8 = s.kv_q8
       /\ w.cold_tokens = Len(s.cold) /\ w.raw_start <= ((n + 1) \div Ratio) * Ratio
  BY <1>1, <1>5, <1>8 DEF SameKeys
<1> QED BY <1>3, <1>8, <1>9, <1>10 DEF m, Batched

\* A checkpoint that cuts the keys of a batch back to m rows.
CutOf(cp, w, s, m, base) ==
  /\ Len(s.cold) <= m /\ (s.kv_q8 = TRUE => m >= Q8Min)
  /\ cp \in Attentions /\ ~cp.err /\ cp.token_count = m /\ cp.position_base = base
  /\ cp.cold = s.cold /\ cp.kv_q8 = s.kv_q8 /\ cp.cold_tokens = Len(s.cold)
  /\ cp.keys = Rows(w.keys, 0, m - Len(s.cold))

LEMMA BatchCut ==
  ASSUME NEW y \in Seq(Nat), NEW n \in Nat, NEW k \in Nat, n + k <= Len(y),
         NEW base \in Int, NEW s, NEW o \in Options, NEW w, Batched(w, s, y, n, k, base),
         NEW m \in Nat, n + 1 <= m, m <= n + k, NEW cp, CutOf(cp, w, s, m, base),
         NEW u, u = QsaCheckpoint(w, o, m, cp)
  PROVE  Attending(u, y, m, base)
<1>1. /\ w \in Attentions /\ w.token_count = n + k /\ w.position_base = base
      /\ IndexHolds(w, y, n + k) /\ w.raw_start <= ((n + 1) \div Ratio) * Ratio
      /\ KeysAre(w.keys, s.cold, s.kv_q8, y, base, n + k)
  BY DEF Batched
<1>2. KeysAre(cp.keys, s.cold, s.kv_q8, y, base, m)
  <2> DEFINE a == s.cold
             b == s.kv_q8
             N == n + k
             all == w.keys
  <2>1. /\ KeysAre(all, a, b, y, base, N) /\ Len(a) <= m /\ N \in Nat /\ m <= N
        /\ (b = TRUE => m >= Q8Min) /\ cp.keys = Rows(all, 0, m - Len(a))
    BY <1>1 DEF CutOf
  <2> HIDE DEF a, b, N, all
  <2>2. KeysAre(Rows(all, 0, m - Len(a)), a, b, y, base, m)
    BY <2>1, KeysCutBack
  <2> QED BY <2>1, <2>2 DEF a, b
<1>3. KeysHold(cp, y, m)
  BY <1>2 DEF KeysHold, CutOf
<1>4. cp \in Attentions /\ ~cp.err /\ cp.token_count = m /\ cp.position_base = base
  BY DEF CutOf
<1> QED BY <1>1, <1>3, <1>4, CheckpointHolds

LEMMA Q8BatchHolds ==
  ASSUME NEW y \in Seq(Nat), NEW n \in Nat, NEW k \in Nat, k > 0, n + k <= Len(y),
         NEW base \in Int, NEW s, Attending(s, y, n, base), s.kv_q8, NEW o \in Options,
         NEW c, c = VerifyQ8Batch(s, o, Rows(y, n, n + k))
  PROVE  \A i \in 1..k : Attending(c[i], y, n + i, base)
<1> DEFINE toks == Rows(y, n, n + k)
           w == BatchState(s, o, toks)
           at(i) == [w EXCEPT !.keys = Rows(BatchKeys(s, toks), 0, n - s.cold_tokens + i),
                              !.token_count = n + i]
           cold == Len(s.cold)
           hot == Len(s.keys)
<1>1. Len(toks) = k
  BY NextRows
<1>2. /\ s.token_count = n /\ s.cold_tokens = cold /\ n >= Q8Min /\ s.kv_q8 = TRUE
      /\ s.keys \in Seq(Key) /\ cold \in Nat /\ hot \in Nat /\ cold + hot = n
  <2>1. s.keys \in Seq(Key) /\ s.cold \in Seq(Key)
    BY AttendingFacts DEF KeysAre
  <2> QED BY <2>1, AttendingFacts, LenProperties
<1>3. Batched(w, s, y, n, k, base)
  BY BatchHolds
<1>4. (IF s.token_count # s.cold_tokens THEN s.keys ELSE <<>>) = s.keys
  <2>1. s.token_count = n /\ s.cold_tokens = cold /\ cold \in Nat /\ hot \in Nat /\ cold + hot = n
    BY <1>2
  <2> HIDE DEF cold, hot
  <2>2. s.token_count = s.cold_tokens => hot = 0
    BY <2>1
  <2>3. s.token_count = s.cold_tokens => s.keys = <<>>
    BY <1>2, <2>2, NoKeys DEF hot
  <2> QED BY <2>3
<1> HIDE DEF cold, hot
<1>5. Attend(w, Engages(n + k, SelectionBudget(o, TRUE))) = w
  <2>1. Engages(n + k, SelectionBudget(o, TRUE))
    <3>1. n + k \in Nat /\ n + k >= Q8Min
      BY <1>2, Constant
    <3> QED BY <3>1, EngagesLong
  <2> HIDE DEF w
  <2>2. /\ Len(s.cold) + Len(w.keys) = n + k /\ w.token_count = n + k /\ w.cold = s.cold
        /\ w.cold_tokens = Len(s.cold)
    BY <1>3 DEF KeysAre, Batched
  <2>3. Q8Contract(w)
    BY <2>2 DEF Q8Contract
  <2> QED BY <2>1, <2>3 DEF Attend
<1>6. c = [i \in 1..k |-> QsaCheckpoint(w, o, n + i, at(i))]
  <2> DEFINE all == (IF s.token_count # s.cold_tokens THEN s.keys ELSE <<>>)
                       \o RotatedKeys(s, toks)
             whole == Attend([UpdateQsa(s, o, toks, TRUE) EXCEPT
                                !.keys = all, !.token_count = s.token_count + Len(toks)],
                             Engages(s.token_count + Len(toks), SelectionBudget(o, TRUE)))
             cut(i) == [whole EXCEPT !.keys = Rows(all, 0, s.token_count - s.cold_tokens + i),
                                     !.token_count = s.token_count + i]
  <2>1. c = [i \in 1..Len(toks) |-> QsaCheckpoint(whole, o, s.token_count + i, cut(i))]
    BY Zenon DEF VerifyQ8Batch
  <2>2. s.token_count = n /\ Len(toks) = k
    BY <1>1, <1>2
  <2>3. all = BatchKeys(s, toks)
    BY <1>4 DEF BatchKeys
  <2>4. whole = w
    <3>1. w = [UpdateQsa(s, o, toks, TRUE) EXCEPT !.keys = all,
                                                  !.token_count = s.token_count + Len(toks)]
      BY <2>3 DEF BatchState
    <3>2. whole = Attend(w, Engages(n + k, SelectionBudget(o, TRUE)))
      BY <2>2, <3>1
    <3> QED BY <1>5, <3>2
  <2> HIDE DEF w, all, whole, toks
  <2> QED BY <2>1, <2>2, <2>3, <2>4
<1>7. w.keys = BatchKeys(s, toks) /\ w \in Attentions /\ ~w.err
  <2>1. w \in Attentions /\ ~w.err
    BY <1>3 DEF Batched
  <2>2. UpdateQsa(s, o, toks, TRUE) \in Attentions
    BY UpdateHolds DEF Indexed
  <2> QED BY <2>1, <2>2 DEF BatchState, Attentions
<1> HIDE DEF w
<1>8. ASSUME NEW i \in 1..k PROVE Attending(c[i], y, n + i, base)
  <2> DEFINE m == n + i
             cp == at(i)
             keys == Rows(w.keys, 0, m - Len(s.cold))
  <2>1. /\ m \in Nat /\ n + 1 <= m /\ m <= n + k /\ m >= Q8Min
        /\ Len(s.cold) <= m /\ n - s.cold_tokens + i = m - Len(s.cold)
    <3>1. Q8Min \in Nat /\ s.cold_tokens = cold /\ n >= Q8Min /\ cold \in Nat /\ hot \in Nat
          /\ cold + hot = n /\ Len(s.cold) = cold
      BY <1>2, Constant DEF cold
    <3>2. /\ m \in Nat /\ n + 1 <= m /\ m <= n + k /\ m >= Q8Min /\ cold <= m
          /\ n - cold + i = m - cold
      BY <3>1
    <3> QED BY <3>1, <3>2
  <2>2. cp = [w EXCEPT !.keys = keys, !.token_count = m]
    BY <1>7, <2>1
  <2>3. keys \in Seq(Key)
    <3>1. w.keys \in Seq(Key) /\ m - Len(s.cold) \in Nat /\ m - Len(s.cold) <= Len(w.keys)
      <4>1. w.keys \in Seq(Key) /\ Len(s.cold) + Len(w.keys) = n + k
        BY <1>3 DEF KeysAre, Batched
      <4>2. Len(w.keys) \in Nat /\ cold \in Nat /\ Len(s.cold) = cold
        BY <1>2, <4>1, LenProperties DEF cold
      <4> HIDE DEF m
      <4> QED BY <2>1, <4>1, <4>2
    <3> QED BY <3>1, CutFacts
  <2> HIDE DEF m, cp, keys
  <2>4. /\ cp \in Attentions /\ cp.err = w.err /\ cp.token_count = m
        /\ cp.position_base = w.position_base /\ cp.cold = w.cold /\ cp.kv_q8 = w.kv_q8
        /\ cp.cold_tokens = w.cold_tokens /\ cp.keys = keys
    BY <1>7, <2>1, <2>2, <2>3 DEF Attentions
  <2>5. /\ ~cp.err /\ cp.position_base = base /\ cp.cold = s.cold /\ cp.kv_q8 = s.kv_q8
        /\ cp.cold_tokens = Len(s.cold) /\ cp.keys = Rows(w.keys, 0, m - Len(s.cold))
    BY <1>3, <2>4 DEF Batched, keys
  <2>6. c[i] = QsaCheckpoint(w, o, m, cp)
    BY <1>6 DEF m, cp
  <2>7. CutOf(cp, w, s, m, base)
    BY <2>1, <2>4, <2>5 DEF CutOf
  <2>8. Attending(c[i], y, m, base)
    BY <1>3, <2>1, <2>6, <2>7, BatchCut
  <2> QED BY <2>8 DEF m
<1> QED BY <1>8

LEMMA NewAttentionTyped == NewAttention \in Attentions
<1>1. <<>> \in Seq(Key) /\ <<>> \in Seq(Nat) /\ <<>> \in Seq(Pool)
  BY EmptySeq
<1> QED BY <1>1 DEF NewAttention, Attentions

LEMMA SdpaBatchHolds ==
  ASSUME NEW y \in Seq(Nat), NEW n \in Nat, NEW k \in Nat, k > 0, n + k <= Len(y),
         NEW base \in Int, NEW s, Attending(s, y, n, base), ~s.kv_q8, NEW o \in Options,
         NEW c, c = VerifySdpaBatch(s, o, Rows(y, n, n + k))
  PROVE  \A i \in 1..k : Attending(c[i], y, n + i, base)
<1> DEFINE toks == Rows(y, n, n + k)
           w == BatchState(s, o, toks)
           at(i) == [NewAttention EXCEPT !.keys = Rows(BatchKeys(s, toks), 0, n + i),
                       !.token_count = n + i, !.position_base = base, !.err = w.err]
<1>1. Len(toks) = k
  BY NextRows
<1>2. /\ s.token_count = n /\ s.position_base = base /\ s.kv_q8 = FALSE
      /\ s.cold = <<>> /\ Len(s.cold) = 0
  <2>1. s.kv_q8 = FALSE
    BY AttendingFacts
  <2>2. s.cold = <<>>
    BY <2>1, AttendingFacts DEF KeysAre
  <2> QED BY <2>1, <2>2, AttendingFacts, NoneAreKeys
<1>3. Batched(w, s, y, n, k, base)
  BY BatchHolds
<1>6. c = [i \in 1..k |-> QsaCheckpoint(w, o, n + i, at(i))]
  <2> DEFINE all == s.keys \o RotatedKeys(s, toks)
             whole == [UpdateQsa(s, o, toks, TRUE) EXCEPT
                         !.keys = all,
                         !.token_count = s.token_count + Len(toks)]
             cut(i) == [NewAttention EXCEPT
                          !.keys = Rows(all, 0, s.token_count + i),
                          !.token_count = s.token_count + i,
                          !.position_base = s.position_base, !.err = whole.err]
  <2>1. c = [i \in 1..Len(toks) |-> QsaCheckpoint(whole, o, s.token_count + i, cut(i))]
    BY Zenon DEF VerifySdpaBatch
  <2>2. whole = w
    BY DEF BatchState, BatchKeys
  <2>3. all = BatchKeys(s, toks)
    BY DEF BatchKeys
  <2> HIDE DEF w, whole, all
  <2>4. \A i \in 1..k : cut(i) = at(i)
    BY <1>2, <2>2, <2>3
  <2> HIDE DEF cut, at, toks
  <2>5. s.token_count = n
    BY <1>2
  <2> QED BY <1>1, <2>1, <2>2, <2>4, <2>5
<1>7. w.keys = BatchKeys(s, toks) /\ w \in Attentions /\ ~w.err
  <2>1. w \in Attentions /\ ~w.err
    BY <1>3 DEF Batched
  <2>2. UpdateQsa(s, o, toks, TRUE) \in Attentions
    BY UpdateHolds DEF Indexed
  <2> QED BY <2>1, <2>2 DEF BatchState, Attentions
<1> HIDE DEF w
<1>8. ASSUME NEW i \in 1..k PROVE Attending(c[i], y, n + i, base)
  <2> DEFINE m == n + i
             cp == at(i)
             keys == Rows(w.keys, 0, m)
  <2>1. m \in Nat /\ n + 1 <= m /\ m <= n + k /\ Len(s.cold) <= m /\ m - Len(s.cold) = m
    BY <1>2
  <2>2. cp = [NewAttention EXCEPT !.keys = keys, !.token_count = m, !.position_base = base,
                                  !.err = FALSE]
    <3>1. w.err = FALSE
      BY <1>7 DEF Attentions
    <3> QED BY <1>7, <3>1
  <2>3. keys \in Seq(Key)
    <3>1. w.keys \in Seq(Key) /\ m <= Len(w.keys)
      <4>1. w.keys \in Seq(Key) /\ Len(s.cold) + Len(w.keys) = n + k
        BY <1>3 DEF KeysAre, Batched
      <4>2. Len(w.keys) \in Nat
        BY <4>1, LenProperties
      <4> HIDE DEF m
      <4>3. Len(w.keys) = n + k
        BY <1>2, <4>1, <4>2
      <4> QED BY <2>1, <4>1, <4>3
    <3> QED BY <2>1, <3>1, CutFacts
  <2> HIDE DEF m, cp, keys
  <2>4. /\ cp \in Attentions /\ ~cp.err /\ cp.token_count = m /\ cp.position_base = base
        /\ cp.cold = <<>> /\ cp.kv_q8 = FALSE /\ cp.cold_tokens = 0 /\ cp.keys = keys
    <3>1. NewAttention \in Attentions
      BY NewAttentionTyped
    <3>2. /\ NewAttention.cold = <<>> /\ NewAttention.kv_q8 = FALSE
          /\ NewAttention.cold_tokens = 0
      BY DEF NewAttention
    <3> QED BY <2>1, <2>2, <2>3, <3>1, <3>2 DEF Attentions
  <2>6. c[i] = QsaCheckpoint(w, o, m, cp)
    BY <1>6 DEF m, cp
  <2>7. CutOf(cp, w, s, m, base)
    <3>1. keys = Rows(w.keys, 0, m - Len(s.cold))
      BY <2>1 DEF keys
    <3>2. /\ cp.cold = s.cold /\ cp.kv_q8 = s.kv_q8 /\ cp.cold_tokens = Len(s.cold)
          /\ s.kv_q8 # TRUE
      BY <1>2, <2>4
    <3> QED BY <2>1, <2>4, <3>1, <3>2 DEF CutOf
  <2>8. Attending(c[i], y, m, base)
    BY <1>3, <2>1, <2>6, <2>7, BatchCut
  <2> QED BY <2>8 DEF m
<1> QED BY <1>8

HotOnly(u) == u.kv_q8 = FALSE

\* One row of the row-by-row verifier: its key is appended, or cut from the
\* keys of all rows.
LEMMA VerifyRowHolds ==
  ASSUME NEW y \in Seq(Nat), NEW n \in Nat, NEW N \in Nat, n + 1 <= N, N <= Len(y),
         NEW base \in Int, NEW s, Attending(s, y, n, base), s.kv_q8 = FALSE, NEW o \in Options,
         NEW all, KeysAre(all, <<>>, FALSE, y, base, N), NEW batch \in BOOLEAN,
         NEW u, u = VerifyRow(s, o, y[n + 1], batch, all)
  PROVE  Attending(u, y, n + 1, base) /\ HotOnly(u)
<1> DEFINE row == Rows(y, n, n + 1)
           index == UpdateQsa(s, o, row, TRUE)
           m == n + 1
<1>0. Len(y) \in Nat
  BY LenProperties
<1>1. row = <<y[n + 1]>> /\ m <= Len(y) /\ m \in Nat
  BY <1>0, OneRow
<1>2. Indexed(index, s, y, n, 1)
  BY <1>1, OneIsShort, UpdateHolds
<1>3. /\ Appending(index, y, n, 1, base) /\ index.kv_q8 = FALSE /\ index \in Attentions
      /\ index.token_count = n
  BY <1>2, IndexedAppends DEF Indexed, SameKeys, Attending
<1>4. s.token_count = n
  BY DEF Attending
<1>5. CASE batch
  <2> DEFINE keys == Rows(all, 0, m)
  <2>1. u = [index EXCEPT !.keys = keys, !.token_count = m]
    BY <1>1, <1>3, <1>4, <1>5 DEF VerifyRow, Attentions
  <2>2. KeysAre(keys, <<>>, FALSE, y, base, m)
    <3>1. Len(<<>>) = 0 /\ m - 0 = m /\ 0 <= m /\ m <= N
      BY <1>1, NoneAreKeys
    <3>2. KeysAre(Rows(all, 0, m - Len(<<>>)), <<>>, FALSE, y, base, m)
      <4> DEFINE e == <<>>
                 f == FALSE
      <4>1. KeysAre(all, e, f, y, base, N) /\ Len(e) <= m /\ (f = TRUE => m >= Q8Min)
        BY <3>1
      <4> HIDE DEF e, f
      <4>2. KeysAre(Rows(all, 0, m - Len(e)), e, f, y, base, m)
        BY <1>1, <3>1, <4>1, KeysCutBack
      <4> QED BY <4>2 DEF e, f
    <3> QED BY <3>1, <3>2
  <2>3. keys \in Seq(Key)
    BY <2>2 DEF KeysAre
  <2>4. index.cold = <<>> /\ index.cold_tokens = 0 /\ index.position_base = base /\ ~index.err
        /\ IndexHolds(index, y, m)
    BY <1>3, NoneAreKeys DEF Appending, KeysHold, KeysAre
  <2> HIDE DEF keys, index, m
  <2>5. /\ u \in Attentions /\ ~u.err /\ u.token_count = m /\ u.position_base = base
        /\ u.cold = <<>> /\ u.kv_q8 = FALSE /\ u.cold_tokens = 0 /\ u.keys = keys
        /\ SameIndex([u EXCEPT !.token_count = n], index)
    BY <1>1, <1>3, <2>1, <2>3, <2>4 DEF Attentions, SameIndex
  <2>6. KeysHold(u, y, m)
    BY <2>2, <2>5, NoneAreKeys DEF KeysHold
  <2>7. IndexHolds(u, y, m)
    BY <1>3, <2>1, <2>4 DEF IndexHolds, Attentions
  <2>8. Attending(u, y, m, base)
    BY <2>5, <2>6, <2>7 DEF Attending
  <2> QED BY <2>5, <2>8 DEF m, HotOnly
<1>6. CASE ~batch
  <2>1. u = [AppendKeys(index, row) EXCEPT !.token_count = @ + 1]
    BY <1>1, <1>6 DEF VerifyRow
  <2> HIDE DEF index
  <2>2. Attending(u, y, n + 1, base)
    BY <1>1, <1>3, <2>1, OneIsShort, AppendKeysHolds
  <2>3. u.kv_q8 = FALSE
    BY <1>3, <2>1 DEF AppendKeys, Attentions
  <2> QED BY <2>2, <2>3 DEF HotOnly
<1> QED BY <1>5, <1>6

\* Those of them that are not packed.
Unpacked(y, n, base, N) ==
  [i \in 0..N |-> {x \in Attentions : Attending(x, y, n + i, base) /\ x.kv_q8 = FALSE}]

LEMMA VerifyRowsHolds ==
  ASSUME NEW y \in Seq(Nat), NEW n \in Nat, NEW k \in Nat, n + k <= Len(y),
         NEW base \in Int, NEW s, Attending(s, y, n, base), ~s.kv_q8, NEW o \in Options,
         NEW c, c = VerifyRows(s, o, Rows(y, n, n + k))
  PROVE  \A i \in 1..k : Attending(c[i], y, n + i, base)
<1> DEFINE toks == Rows(y, n, n + k)
           A == Unpacked(y, n, base, k)
           all == BatchKeys(s, toks)
           batch == o.batch_kv /\ Len(toks) > 1
           row(x, i) == VerifyRow(x, o, toks[i], batch, all)
           Eq(f) == f = [i \in 0..Len(toks) |-> IF i = 0 THEN s ELSE row(f[i - 1], i)]
           g == [i \in 1..k |-> [x \in A[i - 1] |-> row(x, i)]]
           chain == CHOOSE f : Eq(f)
<1>1. /\ Len(toks) = k
      /\ \A i \in 1..k : toks[i] = y[n + i]
  BY NextRows
<1>a. s.kv_q8 = FALSE /\ s \in Attentions
  BY AttendingFacts
<1>b. s.cold = <<>> /\ s.cold \o s.keys = s.keys
  <2>1. KeysAre(s.keys, s.cold, s.kv_q8, y, base, n)
    BY AttendingFacts
  <2>2. s.cold = <<>> /\ s.keys \in Seq(Key)
    BY <1>a, <2>1 DEF KeysAre
  <2> QED BY <2>2, ConcatEmptySeq
<1>c. KeysAre(all, <<>>, FALSE, y, base, n + k)
  <2>1. KeysAre(all, s.cold, s.kv_q8, y, base, n + k)
    BY BatchKeysHold
  <2> QED BY <1>a, <1>b, <2>1
<1>d. batch \in BOOLEAN
  BY OptionFacts DEF Environments
<1>2. s \in A[0]
  BY <1>a DEF Unpacked, Attending
<1> HIDE DEF all, batch
<1>3. ASSUME NEW i \in 1..k, NEW x \in A[i - 1]
      PROVE  row(x, i) \in A[i]
  <2> DEFINE m == n + (i - 1)
             u == row(x, i)
             N == n + k
  <2>1. Attending(x, y, m, base) /\ x.kv_q8 = FALSE
    <3>1. i - 1 \in 0..k
      OBVIOUS
    <3> QED BY <1>3, <3>1 DEF Unpacked
  <2>2. m \in Nat /\ m + 1 = n + i /\ m + 1 <= N /\ N \in Nat /\ N <= Len(y)
    BY LenProperties
  <2>3. u = VerifyRow(x, o, y[m + 1], batch, all)
    BY <1>1, <2>2
  <2>4. KeysAre(all, <<>>, FALSE, y, base, N)
    BY <1>c
  <2> HIDE DEF m, u, N
  <2>5. Attending(u, y, m + 1, base) /\ u.kv_q8 = FALSE
    <3>1. CASE batch = TRUE
      <4>1. u = VerifyRow(x, o, y[m + 1], TRUE, all) /\ TRUE \in BOOLEAN
        BY <2>3, <3>1
      <4>2. Attending(u, y, m + 1, base)
        BY <2>1, <2>2, <2>4, <4>1, VerifyRowHolds
      <4>3. HotOnly(u)
        BY <2>1, <2>2, <2>4, <4>1, VerifyRowHolds
      <4> QED BY <4>2, <4>3 DEF HotOnly
    <3>2. CASE batch = FALSE
      <4>1. u = VerifyRow(x, o, y[m + 1], FALSE, all) /\ FALSE \in BOOLEAN
        BY <2>3, <3>2
      <4>2. Attending(u, y, m + 1, base)
        BY <2>1, <2>2, <2>4, <4>1, VerifyRowHolds
      <4>3. HotOnly(u)
        BY <2>1, <2>2, <2>4, <4>1, VerifyRowHolds
      <4> QED BY <4>2, <4>3 DEF HotOnly
    <3> QED BY <1>d, <3>1, <3>2
  <2>6. u \in {z \in Attentions : Attending(z, y, n + i, base) /\ z.kv_q8 = FALSE}
    BY <2>2, <2>5 DEF Attending
  <2>7. A[i] = {z \in Attentions : Attending(z, y, n + i, base) /\ z.kv_q8 = FALSE}
    BY DEF Unpacked
  <2> QED BY <2>6, <2>7 DEF u
<1> HIDE DEF A, toks, row
<1>4. \E f : Eq(f)
  <2>1. \A i \in 1..k : \A x \in A[i - 1] : g[i][x] = row(x, i)
    OBVIOUS
  <2>2. PICK f : Chained(f, k, s, g) /\ \A i \in 0..k : f[i] \in A[i]
    <3>1. \A i \in 1..k : \A x \in A[i - 1] : g[i][x] \in A[i]
      BY <1>3, <2>1
    <3> HIDE DEF g
    <3> QED BY <1>2, <3>1, ChainHolds
  <2>3. f = [i \in 0..k |-> IF i = 0 THEN s ELSE g[i][f[i - 1]]]
    BY <2>2 DEF Chained
  <2>4. ASSUME NEW i \in 0..k, i # 0 PROVE g[i][f[i - 1]] = row(f[i - 1], i)
    <3>1. i \in 1..k /\ i - 1 \in 0..k
      BY <2>4
    <3>2. f[i - 1] \in A[i - 1]
      BY <2>2, <3>1
    <3> QED BY <2>1, <3>1, <3>2
  <2> HIDE DEF g
  <2>5. Eq(f)
    BY <1>1, <2>3, <2>4
  <2> QED BY <2>5
<1>5. Eq(chain)
  BY <1>4
<1>6. c = [i \in 1..Len(toks) |-> chain[i]]
  BY DEF VerifyRows, toks, row, all, batch, BatchKeys
<1> HIDE DEF chain
<1>7. chain[0] = s /\ \A i \in 1..k : chain[i] = row(chain[i - 1], i)
  <2>1. chain = [i \in 0..k |-> IF i = 0 THEN s ELSE row(chain[i - 1], i)]
    BY <1>1, <1>5
  <2>2. 0 \in 0..k /\ \A i \in 1..k : i \in 0..k /\ i # 0
    OBVIOUS
  <2> QED BY <2>1, <2>2
<1>8. \A i \in 0..k : chain[i] \in A[i]
  BY <1>2, <1>3, <1>7, ChainStays
<1>9. ASSUME NEW i \in 1..k PROVE Attending(c[i], y, n + i, base)
  <2>1. c[i] = chain[i] /\ i \in 0..k
    BY <1>1, <1>6, SMTT(30)
  <2> QED BY <1>8, <2>1 DEF A, Unpacked
<1> QED BY <1>9

LEMMA VerifyHolds ==
  ASSUME NEW y \in Seq(Nat), NEW n \in Nat, NEW k \in Nat, k > 0, n + k <= Len(y),
         NEW base \in Int, NEW s, Attending(s, y, n, base), NEW o \in Options,
         NEW c, c = AttentionVerify(s, o, Rows(y, n, n + k))
  PROVE  \A i \in 1..k : Attending(c[i], y, n + i, base)
<1> DEFINE toks == Rows(y, n, n + k)
<1>1. \/ c = VerifyQ8Batch(s, o, toks) /\ s.kv_q8
      \/ c = DecodeChain(s, o, toks)
      \/ c = VerifySdpaBatch(s, o, toks) /\ ~s.kv_q8
      \/ c = VerifyRows(s, o, toks) /\ ~s.kv_q8
  <2>1. CASE WantsQ8(s, o, Len(toks))
    <3>1. c = IF Len(toks) > 1 /\ s.kv_q8 /\ o.batch_q8
              THEN VerifyQ8Batch(s, o, toks) ELSE DecodeChain(s, o, toks)
      BY <2>1, Zenon DEF AttentionVerify
    <3>2. CASE Len(toks) > 1 /\ s.kv_q8 /\ o.batch_q8
      BY <3>1, <3>2, Zenon
    <3>3. CASE ~(Len(toks) > 1 /\ s.kv_q8 /\ o.batch_q8)
      BY <3>1, <3>3, Zenon
    <3> QED BY <3>2, <3>3
  <2>2. CASE ~WantsQ8(s, o, Len(toks))
    <3>1. ~s.kv_q8
      BY <2>2 DEF WantsQ8
    <3> QED BY <2>2, <3>1 DEF AttentionVerify
  <2> QED BY <2>1, <2>2
<1>2. CASE c = VerifyQ8Batch(s, o, toks) /\ s.kv_q8
  BY <1>2, Q8BatchHolds
<1>3. CASE c = DecodeChain(s, o, toks)
  BY <1>3, DecodeChainHolds
<1>4. CASE c = VerifySdpaBatch(s, o, toks) /\ ~s.kv_q8
  BY <1>4, SdpaBatchHolds
<1>5. CASE c = VerifyRows(s, o, toks) /\ ~s.kv_q8
  BY <1>5, VerifyRowsHolds
<1> QED BY <1>1, <1>2, <1>3, <1>4, <1>5

LEMMA PrefillHolds ==
  ASSUME NEW y \in Seq(Nat), NEW n \in Nat, NEW k \in Nat, k > 0, n + k <= Len(y), k < Q8Min,
         NEW base \in Int, NEW s, Attending(s, y, n, base), NEW o \in Options,
         NEW u, u = AttentionPrefill(s, o, Rows(y, n, n + k))
  PROVE  Attending(u, y, n + k, base)
<1> DEFINE toks == Rows(y, n, n + k)
           c == AttentionVerify(s, o, toks)
<1>1. Len(toks) = k
  BY NextRows
<1>2. u = Extended(s, o, toks, FALSE, o.packed_prefill) \/ u = c[k]
  BY <1>1, Zenon DEF AttentionPrefill
<1>3. CASE u = Extended(s, o, toks, FALSE, o.packed_prefill)
  <2> DEFINE p == o.packed_prefill
             d == FALSE
  <2>1. u = Extended(s, o, Rows(y, n, n + k), d, p)
    BY <1>3
  <2> HIDE DEF p, d
  <2> QED BY <2>1, ExtendedHolds
<1>4. CASE u = c[k]
  <2>1. \A i \in 1..k : Attending(c[i], y, n + i, base)
    BY VerifyHolds
  <2>2. k \in 1..k
    OBVIOUS
  <2> QED BY <1>4, <2>1, <2>2
<1> QED BY <1>2, <1>3, <1>4

\* The rows the first i pieces of w rows take of L rows.
Reached(i, w, L) == MinOf(i * w, L)
Pieces(w, L) == (L + w - 1) \div w

LEMMA PieceTimes ==
  ASSUME NEW w \in Nat, NEW i \in Nat
  PROVE  /\ i * w \in Nat
         /\ i > 0 => (i - 1) * w = i * w - w
         /\ \A j \in Nat : i <= j => i * w <= j * w
  BY SMT

LEMMA PieceFacts ==
  ASSUME NEW w \in Nat, w > 0, NEW L \in Nat, L > 0
  PROVE  /\ Pieces(w, L) \in Nat /\ Reached(0, w, L) = 0 /\ Reached(Pieces(w, L), w, L) = L
         /\ \A i \in 1..Pieces(w, L) :
              /\ Reached(i - 1, w, L) = (i - 1) * w /\ Reached(i - 1, w, L) \in Nat
              /\ Reached(i, w, L) \in Nat /\ Reached(i - 1, w, L) < Reached(i, w, L)
              /\ Reached(i, w, L) <= L /\ Reached(i, w, L) - Reached(i - 1, w, L) <= w
<1> DEFINE P == Pieces(w, L)
           last == P * w
<1>1. /\ P \in Nat /\ last \in Nat /\ last <= L + w - 1 /\ L + w - 1 < last + w
  <2>1. L + w - 1 \in Nat
    OBVIOUS
  <2>2. \A x \in Nat : LET q == x \div w IN
          q \in Nat /\ q * w \in Nat /\ q * w <= x /\ x < q * w + w
    BY SMT
  <2> QED BY <2>1, <2>2 DEF Pieces
<1>3. Reached(0, w, L) = 0
  <2>1. 0 * w = 0
    OBVIOUS
  <2> QED BY <2>1 DEF Reached, MinOf
<1> HIDE DEF P
<1>4. Reached(P, w, L) = L
  <2>1. Reached(P, w, L) = MinOf(last, L)
    BY DEF Reached
  <2> HIDE DEF last
  <2> QED BY <1>1, <2>1 DEF MinOf
<1>5. ASSUME NEW i \in 1..P
      PROVE  /\ Reached(i - 1, w, L) = (i - 1) * w /\ Reached(i - 1, w, L) \in Nat
             /\ Reached(i, w, L) \in Nat /\ Reached(i - 1, w, L) < Reached(i, w, L)
             /\ Reached(i, w, L) <= L /\ Reached(i, w, L) - Reached(i - 1, w, L) <= w
  <2> DEFINE a == (i - 1) * w
             b == i * w
  <2>1. i \in Nat /\ i > 0 /\ i <= P
    BY <1>1
  <2>2. b \in Nat /\ a = b - w /\ b <= last
    BY <1>1, <2>1, PieceTimes
  <2>3. a \in Nat
    <3>1. i - 1 \in Nat
      BY <2>1
    <3> QED BY <3>1, PieceTimes
  <2>4. Reached(i - 1, w, L) = MinOf(a, L) /\ Reached(i, w, L) = MinOf(b, L)
    BY DEF Reached
  <2> HIDE DEF a, b, last
  <2>5. /\ MinOf(a, L) = a /\ MinOf(b, L) \in Nat /\ a < MinOf(b, L) /\ MinOf(b, L) <= L
        /\ MinOf(b, L) - a <= w
    BY <1>1, <2>2, <2>3 DEF MinOf
  <2> QED BY <2>3, <2>4, <2>5 DEF a
<1> QED BY <1>1, <1>3, <1>4, <1>5 DEF P

LEMMA PiecesHold ==
  ASSUME NEW y \in Seq(Nat), NEW n \in Nat, NEW k \in Nat, k > 0, n + k <= Len(y),
         NEW base \in Int, NEW s, Attending(s, y, n, base), NEW o \in Options,
         NEW u, u = PrefillPieces(s, o, Rows(y, n, n + k))
  PROVE  Attending(u, y, n + k, base)
<1> DEFINE toks == Rows(y, n, n + k)
           N == Pieces(AttRows, k)
           A == [i \in 0..N |->
                   {x \in Attentions : Attending(x, y, n + Reached(i, AttRows, k), base)}]
           piece(x, i) == AttentionPrefill(x, o, Rows(toks, (i - 1) * AttRows,
                                                      MinOf(i * AttRows, Len(toks))))
           Eq(f) == f = [i \in 0..((Len(toks) + AttRows - 1) \div AttRows) |->
                           IF i = 0 THEN s ELSE piece(f[i - 1], i)]
           g == [i \in 1..N |-> [x \in A[i - 1] |-> piece(x, i)]]
           chain == CHOOSE f : Eq(f)
<1>1. Len(toks) = k /\ toks \in Seq(Nat)
  BY NextRows
<1>2. /\ N \in Nat /\ Reached(0, AttRows, k) = 0 /\ Reached(N, AttRows, k) = k
      /\ \A i \in 1..N :
           /\ Reached(i - 1, AttRows, k) = (i - 1) * AttRows /\ Reached(i - 1, AttRows, k) \in Nat
           /\ Reached(i, AttRows, k) \in Nat /\ Reached(i - 1, AttRows, k) < Reached(i, AttRows, k)
           /\ Reached(i, AttRows, k) <= k /\ Reached(i, AttRows, k) - Reached(i - 1, AttRows, k) <= AttRows
  BY PieceFacts, Constant
<1>3. N = (Len(toks) + AttRows - 1) \div AttRows
  BY <1>1 DEF Pieces
<1> HIDE DEF N
<1>4. s \in A[0]
  <2>1. n + Reached(0, AttRows, k) = n /\ 0 \in 0..N
    BY <1>2
  <2> QED BY <2>1 DEF Attending
<1>5. ASSUME NEW i \in 1..N, NEW x \in A[i - 1]
      PROVE  piece(x, i) \in A[i]
  <2> DEFINE lo == Reached(i - 1, AttRows, k)
             hi == Reached(i, AttRows, k)
             m == n + lo
             d == hi - lo
             v == piece(x, i)
  <2>9. /\ lo = (i - 1) * AttRows /\ lo \in Nat /\ hi \in Nat /\ lo < hi /\ hi <= k
        /\ d <= AttRows
    BY <1>2
  <2>2. Attending(x, y, m, base)
    <3>1. i - 1 \in 0..N
      BY <1>2
    <3> QED BY <1>5, <3>1
  <2>3. v = AttentionPrefill(x, o, Rows(toks, lo, hi))
    BY <1>1, <2>9 DEF Reached
  <2> HIDE DEF lo, hi, v
  <2>1. /\ lo = (i - 1) * AttRows /\ lo \in Nat /\ hi \in Nat /\ lo < hi /\ hi <= k
        /\ d < Q8Min
    <3>1. AttRows \in Nat /\ AttRows < Q8Min /\ Q8Min \in Nat
      BY Constant
    <3>2. d < Q8Min
      BY <2>9, <3>1
    <3> QED BY <2>9, <3>2
  <2>4. /\ m \in Nat /\ d \in Nat /\ d > 0 /\ m + d <= Len(y) /\ m + d = n + hi
    <3>1. Len(y) \in Nat
      BY LenProperties
    <3>2. lo \in Nat /\ hi \in Nat /\ lo < hi /\ hi <= k
      BY <2>1
    <3> QED BY <3>1, <3>2
  <2>5. Rows(toks, lo, hi) = Rows(y, m, m + d)
    <3> DEFINE end == n + k
    <3>1. /\ n <= end /\ end \in Nat /\ end <= Len(y) /\ lo <= hi /\ hi <= end - n
          /\ m = n + lo /\ m + d = n + hi
      BY <2>1, <2>4
    <3> HIDE DEF end, m, d
    <3>2. Rows(Rows(y, n, end), lo, hi) = Rows(y, n + lo, n + hi)
      BY <2>1, <3>1, RowsOfRows, SMTT(30)
    <3> QED BY <3>1, <3>2 DEF end
  <2> HIDE DEF m, d
  <2>6. Attending(v, y, m + d, base)
    BY <2>1, <2>2, <2>3, <2>4, <2>5, PrefillHolds
  <2>7. v \in {z \in Attentions : Attending(z, y, n + hi, base)}
    BY <2>4, <2>6 DEF Attending
  <2>8. A[i] = {z \in Attentions : Attending(z, y, n + hi, base)}
    <3>1. i \in 0..N
      BY <1>2
    <3> QED BY <3>1 DEF hi
  <2> HIDE DEF A
  <2> QED BY <2>7, <2>8 DEF v
<1> HIDE DEF A, toks, piece
<1>6. \E f : Eq(f)
  <2>1. \A i \in 1..N : \A x \in A[i - 1] : g[i][x] = piece(x, i)
    OBVIOUS
  <2>2. PICK f : Chained(f, N, s, g) /\ \A i \in 0..N : f[i] \in A[i]
    <3>1. \A i \in 1..N : \A x \in A[i - 1] : g[i][x] \in A[i]
      BY <1>5, <2>1
    <3> HIDE DEF g
    <3> QED BY <1>2, <1>4, <3>1, ChainHolds
  <2>3. f = [i \in 0..N |-> IF i = 0 THEN s ELSE g[i][f[i - 1]]]
    BY <2>2 DEF Chained
  <2>4. ASSUME NEW i \in 0..N, i # 0 PROVE g[i][f[i - 1]] = piece(f[i - 1], i)
    <3>1. i \in 1..N /\ i - 1 \in 0..N
      BY <1>2, <2>4
    <3>2. f[i - 1] \in A[i - 1]
      BY <2>2, <3>1
    <3> QED BY <2>1, <3>1, <3>2
  <2> HIDE DEF g
  <2>5. Eq(f)
    BY <1>3, <2>3, <2>4
  <2> QED BY <2>5
<1>7. Eq(chain)
  BY <1>6
<1>8. u = chain[N]
  BY <1>3 DEF PrefillPieces, toks, piece
<1> HIDE DEF chain
<1>9. chain[0] = s /\ \A i \in 1..N : chain[i] = piece(chain[i - 1], i)
  <2>1. chain = [i \in 0..N |-> IF i = 0 THEN s ELSE piece(chain[i - 1], i)]
    BY <1>3, <1>7
  <2>2. 0 \in 0..N /\ \A i \in 1..N : i \in 0..N /\ i # 0
    BY <1>2
  <2> QED BY <2>1, <2>2
<1>10. \A i \in 0..N : chain[i] \in A[i]
  BY <1>2, <1>4, <1>5, <1>9, ChainStays
<1>11. u \in A[N] /\ N \in 0..N
  BY <1>2, <1>8, <1>10
<1>12. Attending(u, y, n + Reached(N, AttRows, k), base)
  BY <1>11 DEF A
<1> QED BY <1>2, <1>12

-----------------------------------------------------------------------------
(* Sliding windows: the last W rows of a padded text.                      *)

Padded(pad, y) == pad \o y

Pads(pad, y, W, T) == pad \in Seq(T) /\ y \in Seq(T) /\ W = Len(pad)

PaddedText(z, pad, y, W, T) ==
  /\ z \in Seq(T) /\ Len(z) = W + Len(y) /\ W \in Nat /\ Len(y) \in Nat
  /\ \A i \in 1..(W + Len(y)) : z[i] = IF i <= W THEN pad[i] ELSE y[i - W]

LEMMA Slides ==
  ASSUME NEW T, NEW z \in Seq(T), NEW a \in Nat, NEW b \in Nat, NEW c \in Nat,
         a <= b, b <= c, c <= Len(z), NEW i \in Nat, NEW j \in Nat, i <= j, j <= c - a
  PROVE  Rows(Rows(z, a, b) \o Rows(z, b, c), i, j) = Rows(z, a + i, a + j)
<1>1. Rows(z, a, b) \o Rows(z, b, c) = Rows(z, a, c)
  BY RowsJoin
<1>2. a <= c
  OBVIOUS
<1>3. Rows(Rows(z, a, c), i, j) = Rows(z, a + i, a + j)
  BY <1>2, RowsOfRows
<1> QED BY <1>1, <1>3

LEMMA PaddedFacts ==
  ASSUME NEW T, NEW pad, NEW y, NEW W, Pads(pad, y, W, T)
  PROVE  PaddedText(Padded(pad, y), pad, y, W, T)
  BY LenProperties, ConcatProperties DEF Pads, Padded, PaddedText

LEMMA PaddedPad ==
  ASSUME NEW T, NEW pad, NEW y, NEW W, Pads(pad, y, W, T)
  PROVE  Rows(Padded(pad, y), 0, W) = pad
<1> DEFINE z == Padded(pad, y)
<1>0. PaddedText(z, pad, y, W, T)
  BY PaddedFacts
<1>1. /\ z \in Seq(T) /\ Len(z) = W + Len(y) /\ W \in Nat /\ Len(y) \in Nat
      /\ \A i \in 1..(W + Len(y)) : z[i] = IF i <= W THEN pad[i] ELSE y[i - W]
  BY <1>0 DEF PaddedText
<1> HIDE DEF z
<1>2. \A i \in 1..(W - 0) : pad[i] = z[0 + i]
  BY <1>1 DEF Pads
<1>3. 0 \in Nat /\ 0 <= W /\ W <= Len(z) /\ Len(pad) = W - 0 /\ pad \in Seq(T)
  BY <1>1 DEF Pads
<1>4. z \in Seq(T) /\ W \in Nat
  BY <1>1
<1>5. pad = Rows(z, 0, W)
  BY <1>2, <1>3, <1>4, RowsAre
<1> QED BY <1>5 DEF z

LEMMA PaddedRows ==
  ASSUME NEW T, NEW pad, NEW y, NEW W, Pads(pad, y, W, T),
         NEW lo \in Nat, NEW hi \in Nat, lo <= hi, hi <= Len(y)
  PROVE  Rows(Padded(pad, y), lo + W, hi + W) = Rows(y, lo, hi)
<1> DEFINE z == Padded(pad, y)
           a == lo + W
           b == hi + W
           r == Rows(y, lo, hi)
<1>0. PaddedText(z, pad, y, W, T)
  BY PaddedFacts
<1>1. /\ z \in Seq(T) /\ Len(z) = W + Len(y) /\ W \in Nat /\ Len(y) \in Nat
      /\ \A i \in 1..(W + Len(y)) : z[i] = IF i <= W THEN pad[i] ELSE y[i - W]
  BY <1>0 DEF PaddedText
<1> HIDE DEF z
<1>2. a \in Nat /\ b \in Nat /\ a <= b /\ b <= Len(z) /\ b - a = hi - lo
  BY <1>1
<1>8. y \in Seq(T)
  BY DEF Pads
<1>3. \A i \in 1..(hi - lo) : a + i \in 1..(W + Len(y)) /\ ~(a + i <= W) /\ (a + i) - W = lo + i
  BY <1>1
<1> HIDE DEF a, b
<1>4. r \in Seq(T) /\ Len(r) = hi - lo /\ \A i \in 1..(hi - lo) : r[i] = y[lo + i]
  BY <1>8, RowsFacts
<1> HIDE DEF r
<1>5. Len(r) = b - a /\ \A i \in 1..(b - a) : r[i] = z[a + i]
  BY <1>1, <1>2, <1>3, <1>4
<1>6. z \in Seq(T) /\ r \in Seq(T) /\ a \in Nat /\ b \in Nat /\ a <= b /\ b <= Len(z)
  BY <1>1, <1>2, <1>4
<1>7. r = Rows(z, a, b)
  BY <1>5, <1>6, RowsAre
<1> QED BY <1>7 DEF z, a, b, r

\* What a padded text ends with after n tokens.
LEMMA PaddedLast ==
  ASSUME NEW T, NEW pad, NEW y, NEW W, Pads(pad, y, W, T),
         NEW n \in Nat, n <= Len(y)
  PROVE  LastRows(pad \o Rows(y, 0, n), W) = Rows(Padded(pad, y), n, n + W)
<1> DEFINE z == Padded(pad, y)
           e == W + n
           r == Rows(y, 0, n)
           q == pad \o r
<1>0. PaddedText(z, pad, y, W, T)
  BY PaddedFacts
<1>9. z \in Seq(T) /\ Len(z) = W + Len(y) /\ W \in Nat /\ Len(y) \in Nat
  BY <1>0 DEF PaddedText
<1>10. Rows(z, 0, W) = pad
  BY PaddedPad
<1>2. e \in Nat /\ W <= e /\ 0 <= W /\ e - W = n /\ n <= e /\ e <= W + Len(y)
      /\ e - 0 = e /\ 0 \in Nat /\ n + W = e
  BY <1>9
<1>11. Rows(z, W, e) = r
  <2> DEFINE o == 0
             a == o + W
             b == n + W
  <2>1. o \in Nat /\ o <= n /\ a = W /\ b = e
    BY <1>9
  <2> HIDE DEF o
  <2>2. Rows(z, a, b) = Rows(y, o, n)
    BY <2>1, PaddedRows
  <2> QED BY <2>1, <2>2 DEF o
<1>1. z \in Seq(T) /\ Len(z) = W + Len(y) /\ W \in Nat /\ Rows(z, 0, W) = pad
  BY <1>9, <1>10
<1> HIDE DEF z, e, r
<1>3. r = Rows(z, W, e)
  BY <1>11
<1>4. q = Rows(z, 0, e)
  <2>1. 0 \in Nat /\ 0 <= W /\ W <= e /\ e <= Len(z)
    BY <1>1, <1>2
  <2>3. z \in Seq(T) /\ W \in Nat /\ e \in Nat
    BY <1>1, <1>2
  <2>2. Rows(z, 0, W) \o Rows(z, W, e) = Rows(z, 0, e)
    BY <2>1, <2>3, RowsJoin
  <2> QED BY <1>1, <1>3, <2>2
<1> HIDE DEF q
<1>5. Len(q) = e
  <2>1. 0 \in Nat /\ 0 <= e /\ e <= Len(z)
    BY <1>1, <1>2
  <2>3. z \in Seq(T) /\ e \in Nat
    BY <1>1, <1>2
  <2>2. Len(Rows(z, 0, e)) = e - 0
    BY <2>1, <2>3, RowsFacts
  <2> QED BY <1>2, <1>4, <2>2
<1>6. Rows(Rows(z, 0, e), n, e) = Rows(z, 0 + n, 0 + e)
  <2>1. 0 <= e /\ e <= Len(z) /\ e <= e - 0
    BY <1>1, <1>2
  <2>2. 0 \in Nat /\ n \in Nat /\ e \in Nat /\ n <= e /\ z \in Seq(T)
    BY <1>1, <1>2
  <2> QED BY <2>1, <2>2, RowsOfRows
<1>7. 0 + e = e
  BY <1>2
<1>8. LastRows(q, W) = Rows(z, n, n + W)
  BY <1>2, <1>4, <1>5, <1>6, <1>7 DEF LastRows
<1> QED BY <1>8 DEF q, r, z

LEMMA NatsAreInts == ASSUME NEW y \in Seq(Nat) PROVE y \in Seq(Int)
<1>1. y \in [1..Len(y) -> Nat] /\ Len(y) \in Nat
  BY LenProperties
<1>2. y \in [1..Len(y) -> Int]
  BY <1>1
<1> QED BY <1>1, <1>2, SeqDef

-----------------------------------------------------------------------------
(***************************************************************************)
(* The gated delta network.  Between the calls of a sequence no rows are   *)
(* left to be redone; a checkpoint of a verified row may have some.        *)
(***************************************************************************)

Recurrents ==
  [convolution : Seq(Int), recurrent : Seq(Nat), rollback : Seq(Nat), rollback_rows : Nat,
   initialized : BOOLEAN, err : BOOLEAN]

\* The rows the convolution sees before row n + 1.
Window(y, n) == Rows(Padded(Zeros(3), y), n, n + 3)

Settled(s, y, n) ==
  /\ s \in Recurrents /\ ~s.err /\ s.rollback_rows = 0
  /\ s.recurrent = Rows(y, 0, n)
  /\ IF s.initialized THEN s.convolution = Window(y, n) ELSE n = 0

Deferred(s, y, n) ==
  /\ s \in Recurrents /\ ~s.err /\ s.initialized /\ s.rollback_rows <= Len(s.rollback)
  /\ s.recurrent \o Rows(s.rollback, 0, s.rollback_rows) = Rows(y, 0, n)
  /\ s.convolution = Window(y, n)

LEMMA ZerosPad == ASSUME NEW y \in Seq(Nat) PROVE Pads(Zeros(3), y, 3, Int) /\ 3 \in Nat
<1>1. y \in Seq(Int)
  BY NatsAreInts
<1>2. Zeros(3) \in [1..3 -> Int] /\ 3 \in Nat
  BY DEF Zeros, NoRow
<1>3. Zeros(3) \in Seq(Int) /\ Len(Zeros(3)) = 3
  BY <1>2, ListIsSeq
<1> QED BY <1>1, <1>2, <1>3 DEF Pads

LEMMA WindowFacts ==
  ASSUME NEW y \in Seq(Nat), NEW n \in Nat, n <= Len(y)
  PROVE  Window(y, n) \in Seq(Int) /\ Window(y, 0) = Zeros(3) /\ Zeros(3) \in Seq(Int)
<1> DEFINE pad == Zeros(3)
           z == Padded(pad, y)
           W == 3
           e == n + W
<1>1. Pads(pad, y, W, Int) /\ W \in Nat
  BY ZerosPad
<1>2. PaddedText(z, pad, y, W, Int) /\ Rows(z, 0, W) = pad
  BY <1>1, PaddedFacts, PaddedPad
<1> HIDE DEF z, pad
<1>3. z \in Seq(Int) /\ Len(z) = W + Len(y) /\ Len(y) \in Nat
  BY <1>2 DEF PaddedText
<1>4. e \in Nat /\ n <= e /\ e <= Len(z)
  BY <1>1, <1>3
<1>5. Window(y, n) = Rows(z, n, e) /\ Window(y, 0) = Rows(z, 0, 0 + 3) /\ 0 + 3 = W
  BY DEF Window, z, pad
<1> HIDE DEF e, W
<1>6. Rows(z, n, e) \in Seq(Int)
  BY <1>3, <1>4, RowsFacts
<1> QED BY <1>1, <1>2, <1>5, <1>6 DEF Pads, pad

LEMMA WindowSlides ==
  ASSUME NEW y \in Seq(Nat), NEW n \in Nat, NEW k \in Nat, n + k <= Len(y),
         NEW i \in Nat, i <= k
  PROVE  Rows(Window(y, n) \o Rows(y, n, n + k), i, i + 3) = Window(y, n + i)
<1> DEFINE T == Int
           pad == Zeros(3)
           z == Padded(pad, y)
           W == 3
           m == n + k
           b == n + W
           c == m + W
           j == i + W
<1>1. Pads(pad, y, W, T) /\ W \in Nat
  BY ZerosPad
<1> HIDE DEF W, pad, T
<1>2. PaddedText(z, pad, y, W, T)
  BY <1>1, PaddedFacts
<1>4. z \in Seq(T) /\ Len(z) = W + Len(y) /\ Len(y) \in Nat
  BY <1>2 DEF PaddedText
<1>5. /\ m \in Nat /\ n <= m /\ m <= Len(y) /\ b \in Nat /\ c \in Nat /\ n <= b /\ b <= c
      /\ c <= Len(z) /\ j \in Nat /\ i <= j /\ j <= c - n /\ n + j = (n + i) + W
  BY <1>1, <1>4
<1> HIDE DEF m
<1>3. Rows(z, b, c) = Rows(y, n, m)
  BY <1>1, <1>5, PaddedRows
<1> HIDE DEF z, b, c, j
<1>6. Rows(Rows(z, n, b) \o Rows(z, b, c), i, j) = Rows(z, n + i, n + j)
  BY <1>4, <1>5, Slides
<1>7. /\ Window(y, n) = Rows(z, n, b) /\ Window(y, n + i) = Rows(z, n + i, (n + i) + W)
      /\ i + 3 = j
  BY DEF Window, z, pad, W, b, j
<1> QED BY <1>3, <1>5, <1>6, <1>7 DEF m

LEMMA SettledFacts ==
  ASSUME NEW s, NEW y, NEW n, Settled(s, y, n)
  PROVE  /\ s \in Recurrents /\ ~s.err /\ s.err = FALSE /\ s.rollback_rows = 0
         /\ s.recurrent = Rows(y, 0, n) /\ s.initialized \in BOOLEAN
         /\ s.initialized = TRUE => s.convolution = Window(y, n)
         /\ s.initialized # TRUE => n = 0
         /\ s.convolution \in Seq(Int) /\ s.recurrent \in Seq(Nat) /\ s.rollback \in Seq(Nat)
         /\ MaterializeRollback(s) = s
<1>1. s \in Recurrents /\ ~s.err /\ s.rollback_rows = 0
  BY DEF Settled
<1>2. s.err = FALSE /\ s.initialized \in BOOLEAN /\ s.convolution \in Seq(Int)
      /\ s.recurrent \in Seq(Nat) /\ s.rollback \in Seq(Nat)
  BY <1>1 DEF Recurrents
<1>3. MaterializeRollback(s) = s
  BY <1>1 DEF MaterializeRollback
<1>4. s.recurrent = Rows(y, 0, n) /\ (s.initialized = TRUE => s.convolution = Window(y, n))
      /\ (s.initialized # TRUE => n = 0)
  BY <1>2 DEF Settled
<1> QED BY <1>1, <1>2, <1>3, <1>4

\* A settled state whose arrays have been set up.
Started(s, y, n) == Settled(s, y, n) /\ s.initialized = TRUE

LEMMA InitializedHolds ==
  ASSUME NEW y \in Seq(Nat), NEW n \in Nat, n <= Len(y), NEW s, Settled(s, y, n)
  PROVE  Started(Initialized(s), y, n)
<1>1. /\ s \in Recurrents /\ s.err = FALSE /\ s.rollback_rows = 0 /\ s.initialized \in BOOLEAN
      /\ s.recurrent = Rows(y, 0, n)
      /\ s.initialized # TRUE => n = 0
  BY SettledFacts
<1>2. CASE s.initialized = TRUE
  BY <1>2 DEF Initialized, Started
<1>3. CASE s.initialized = FALSE
  <2> DEFINE t == [s EXCEPT !.convolution = Zeros(3), !.recurrent = <<>>, !.initialized = TRUE]
  <2>1. Initialized(s) = t
    BY <1>3 DEF Initialized
  <2>2. Zeros(3) \in Seq(Int) /\ Window(y, 0) = Zeros(3)
    BY WindowFacts
  <2>3. n = 0
    BY <1>1, <1>3
  <2>4. Rows(y, 0, 0) = <<>> /\ <<>> \in Seq(Nat)
    BY EmptySeq, SubSeqProperties, 0 \in Nat DEF Rows
  <2>5. t \in Recurrents
    BY <1>1, <2>2, <2>4 DEF Recurrents
  <2>6. t.err = FALSE /\ t.rollback_rows = 0 /\ t.recurrent = <<>> /\ t.initialized = TRUE
        /\ t.convolution = Zeros(3)
    BY <1>1 DEF Recurrents
  <2> HIDE DEF t
  <2> QED BY <2>1, <2>2, <2>3, <2>4, <2>5, <2>6 DEF Settled, Started
<1> QED BY <1>1, <1>2, <1>3

LEMMA RowsGrow ==
  ASSUME NEW y \in Seq(Nat), NEW n \in Nat, NEW k \in Nat, n + k <= Len(y)
  PROVE  Rows(y, 0, n) \o Rows(y, n, n + k) = Rows(y, 0, n + k)
<1> DEFINE T == Nat
           o == 0
           m == n + k
<1>1. y \in Seq(T) /\ o \in Nat /\ m \in Nat /\ o <= n /\ n <= m /\ m <= Len(y)
  OBVIOUS
<1> HIDE DEF T, o, m
<1>2. Rows(y, o, n) \o Rows(y, n, m) = Rows(y, o, m)
  BY <1>1, RowsJoin
<1> QED BY <1>2 DEF o, m

LEMMA FirstRows ==
  ASSUME NEW y \in Seq(Nat), NEW n \in Nat, n <= Len(y)
  PROVE  Rows(y, 0, n) \in Seq(Nat) /\ Len(Rows(y, 0, n)) = n /\ \A i \in 1..n : Rows(y, 0, n)[i] = y[i]
<1> DEFINE T == Nat
<1>1. y \in Seq(T)
  OBVIOUS
<1> HIDE DEF T
<1>2. /\ Rows(y, 0, n) \in Seq(T) /\ Len(Rows(y, 0, n)) = n
      /\ \A i \in 1..n : Rows(y, 0, n)[i] = y[i]
  BY <1>1, CutFacts
<1> QED BY <1>2 DEF T

\* The rows 0 .. i - 1 of the next k.
LEMMA FirstOfNext ==
  ASSUME NEW y \in Seq(Nat), NEW n \in Nat, NEW k \in Nat, n + k <= Len(y),
         NEW i \in Nat, i <= k
  PROVE  Rows(Rows(y, n, n + k), 0, i) = Rows(y, n, n + i)
<1> DEFINE T == Nat
           o == 0
           m == n + k
<1>1. y \in Seq(T) /\ o \in Nat /\ m \in Nat /\ n <= m /\ m <= Len(y) /\ o <= i /\ i <= m - n
      /\ n + o = n
  OBVIOUS
<1> HIDE DEF T, o, m
<1>2. Rows(Rows(y, n, m), o, i) = Rows(y, n + o, n + i)
  BY <1>1, RowsOfRows
<1> QED BY <1>1, <1>2 DEF o, m

\* The convolution and the recurrence of k rows.
Passed(s, toks, i) ==
  [s EXCEPT !.convolution = Rows(s.convolution \o toks, i, i + 3),
            !.recurrent = s.recurrent \o toks]

LEMMA PassedHolds ==
  ASSUME NEW y \in Seq(Nat), NEW n \in Nat, NEW k \in Nat, n + k <= Len(y),
         NEW s, Started(s, y, n), NEW t, t = Passed(s, Rows(y, n, n + k), k)
  PROVE  Started(t, y, n + k)
<1> DEFINE q == Rows(y, n, n + k)
           conv == Rows(s.convolution \o q, k, k + 3)
           rec == s.recurrent \o q
<1>1. /\ s \in Recurrents /\ s.err = FALSE /\ s.rollback_rows = 0 /\ s.initialized = TRUE
      /\ s.recurrent = Rows(y, 0, n) /\ s.convolution = Window(y, n)
  BY SettledFacts DEF Started
<1>2. k <= k /\ n + k \in Nat
  OBVIOUS
<1>3. conv = Window(y, n + k)
  <2>1. Rows(Window(y, n) \o q, k, k + 3) = Window(y, n + k)
    BY <1>2, WindowSlides
  <2> QED BY <1>1, <2>1
<1>4. conv \in Seq(Int)
  BY <1>2, <1>3, WindowFacts
<1>5. rec = Rows(y, 0, n + k)
  BY <1>1, RowsGrow
<1>6. rec \in Seq(Nat)
  BY <1>2, <1>5, FirstRows
<1>7. t = [s EXCEPT !.convolution = conv, !.recurrent = rec]
  BY DEF Passed
<1> HIDE DEF conv, rec
<1>8. /\ t \in Recurrents /\ t.err = FALSE /\ t.rollback_rows = 0 /\ t.initialized = TRUE
      /\ t.convolution = conv /\ t.recurrent = rec
  BY <1>1, <1>4, <1>6, <1>7 DEF Recurrents
<1> QED BY <1>3, <1>5, <1>8 DEF Started, Settled

LEMMA LinearDecodeHolds ==
  ASSUME NEW y \in Seq(Nat), NEW n \in Nat, n + 1 <= Len(y), NEW s, Settled(s, y, n),
         NEW t, t = LinearDecode(s, y[n + 1])
  PROVE  Started(t, y, n + 1)
<1> DEFINE a == Initialized(s)
<1>0. n <= Len(y) /\ 1 \in Nat
  BY LenProperties
<1>1. Started(a, y, n)
  BY <1>0, InitializedHolds
<1>2. MaterializeRollback(s) = s
  BY SettledFacts
<1>3. Rows(y, n, n + 1) = <<y[n + 1]>>
  BY OneRow
<1> HIDE DEF a
<1>4. LinearDecode(s, y[n + 1]) = Absorb(a, y[n + 1])
  BY <1>2 DEF LinearDecode, a
<1>5. t = Passed(a, Rows(y, n, n + 1), 1)
  <2>1. 1 + 3 = 4
    OBVIOUS
  <2> QED BY <1>3, <1>4, <2>1, Zenon DEF Absorb, Passed
<1> QED BY <1>0, <1>1, <1>5, PassedHolds

LEMMA LinearPairHolds ==
  ASSUME NEW y \in Seq(Nat), NEW n \in Nat, n + 1 <= Len(y), NEW pair, NEW toks,
         NEW r \in DOMAIN pair, Settled(pair[r], y, n), toks[r] = y[n + 1],
         NEW t, t = LinearDecodeMulti(pair, toks)[r]
  PROVE  Started(t, y, n + 1)
<1> DEFINE a == Initialized(pair[r])
           q == <<y[n + 1]>>
<1>0. n <= Len(y) /\ 1 \in Nat
  BY LenProperties
<1>1. Started(a, y, n)
  BY <1>0, InitializedHolds
<1>2. MaterializeRollback(pair[r]) = pair[r]
  BY SettledFacts
<1>3. Rows(y, n, n + 1) = q
  BY OneRow
<1>4. t = [[a EXCEPT !.convolution = Rows(@ \o q, 1, 4)] EXCEPT !.recurrent = @ \o q]
  BY <1>2 DEF LinearDecodeMulti
<1>5. a \in Recurrents
  BY <1>1 DEF Started, Settled
<1> HIDE DEF a, q
<1>6. t = Passed(a, Rows(y, n, n + 1), 1)
  <2> DEFINE conv == Rows(a.convolution \o q, 1, 4)
             b == [a EXCEPT !.convolution = conv]
  <2>1. 1 + 3 = 4
    OBVIOUS
  <2>2. Passed(a, Rows(y, n, n + 1), 1)
          = [a EXCEPT !.convolution = conv, !.recurrent = a.recurrent \o q]
    BY <1>3, <2>1 DEF Passed
  <2>3. t = [b EXCEPT !.recurrent = b.recurrent \o q]
    BY <1>4
  <2> HIDE DEF conv
  <2>4. b.recurrent = a.recurrent
    BY <1>5 DEF Recurrents
  <2> QED BY <1>5, <2>2, <2>3, <2>4 DEF Recurrents
<1> QED BY <1>0, <1>1, <1>6, PassedHolds

LEMMA SettlesHolds ==
  ASSUME NEW y, NEW n, NEW s, Deferred(s, y, n), NEW t, t = MaterializeRollback(s)
  PROVE  Settled(t, y, n)
<1> DEFINE rec == s.recurrent \o Rows(s.rollback, 0, s.rollback_rows)
<1>1. /\ s \in Recurrents /\ s.err = FALSE /\ s.initialized = TRUE
      /\ s.rollback_rows <= Len(s.rollback) /\ rec = Rows(y, 0, n)
      /\ s.convolution = Window(y, n) /\ s.recurrent \in Seq(Nat) /\ s.rollback \in Seq(Nat)
      /\ s.rollback_rows \in Nat
  BY DEF Deferred, Recurrents
<1>2. Rows(s.rollback, 0, s.rollback_rows) \in Seq(Nat)
  <2> DEFINE q == s.rollback
             j == s.rollback_rows
             T == Nat
  <2>1. q \in Seq(T) /\ j \in Nat /\ j <= Len(q)
    BY <1>1
  <2> HIDE DEF q, j, T
  <2>2. Rows(q, 0, j) \in Seq(T)
    BY <2>1, CutFacts
  <2> QED BY <2>2 DEF q, j, T
<1>3. rec \in Seq(Nat)
  BY <1>1, <1>2, ConcatProperties
<1>4. CASE s.rollback_rows = 0
  <2>1. Rows(s.rollback, 0, 0) = <<>>
    BY <1>1, SubSeqProperties DEF Rows
  <2>2. s.recurrent \o <<>> = s.recurrent
    BY <1>1, ConcatEmptySeq
  <2>3. rec = s.recurrent
    BY <1>4, <2>1, <2>2
  <2>4. t = s
    BY <1>4 DEF MaterializeRollback
  <2> QED BY <1>1, <1>4, <2>3, <2>4 DEF Settled
<1>5. CASE s.rollback_rows # 0
  <2>1. t = [s EXCEPT !.recurrent = rec, !.rollback = <<>>, !.rollback_rows = 0]
    BY <1>1, <1>5 DEF MaterializeRollback
  <2> HIDE DEF rec
  <2>2. /\ t \in Recurrents /\ t.err = FALSE /\ t.initialized = TRUE /\ t.rollback_rows = 0
        /\ t.recurrent = rec /\ t.convolution = s.convolution
    <3>1. <<>> \in Seq(Nat) /\ 0 \in Nat
      BY EmptySeq
    <3>2. /\ s \in Recurrents /\ rec \in Seq(Nat) /\ s.err = FALSE /\ s.initialized = TRUE
      BY <1>1, <1>3
    <3> HIDE DEF rec
    <3> QED BY <2>1, <3>1, <3>2 DEF Recurrents
  <2> QED BY <1>1, <2>2 DEF Settled
<1> QED BY <1>4, <1>5

LEMMA NewLinearTyped == NewLinear \in Recurrents
  BY EmptySeq DEF NewLinear, Recurrents

LEMMA LinearVerifyHolds ==
  ASSUME NEW y \in Seq(Nat), NEW n \in Nat, NEW k \in Nat, n + k <= Len(y),
         NEW s, Settled(s, y, n), NEW o,
         NEW c, c = LinearVerify(s, o, Rows(y, n, n + k)), NEW i \in 1..k
  PROVE  Deferred(c[i], y, n + i) /\ (i = k => Settled(c[i], y, n + i))
<1> DEFINE toks == Rows(y, n, n + k)
           a == Initialized(s)
           conv == Rows(a.convolution \o toks, i, i + 3)
           rec == a.recurrent \o Rows(toks, 0, i)
           err == s.err \/ s.rollback_rows # 0
           at == [NewLinear EXCEPT !.convolution = conv, !.initialized = TRUE, !.err = err]
<1>0. n <= Len(y) /\ i \in Nat /\ i <= k /\ n + i \in Nat /\ n + i <= Len(y)
  BY LenProperties
<1>1. Started(a, y, n)
  BY <1>0, InitializedHolds
<1>2. /\ a \in Recurrents /\ a.recurrent = Rows(y, 0, n) /\ a.convolution = Window(y, n)
      /\ a.recurrent \in Seq(Nat)
  BY <1>1, SettledFacts DEF Started
<1>3. toks \in Seq(Nat) /\ Len(toks) = k
  BY NextRows
<1>4. err = FALSE
  BY DEF Settled
<1>5. conv = Window(y, n + i) /\ conv \in Seq(Int)
  <2>1. Rows(Window(y, n) \o toks, i, i + 3) = Window(y, n + i)
    BY <1>0, WindowSlides
  <2>2. Window(y, n + i) \in Seq(Int)
    BY <1>0, WindowFacts
  <2> QED BY <1>2, <2>1, <2>2
<1>6. rec = Rows(y, 0, n + i) /\ rec \in Seq(Nat)
  <2>1. Rows(toks, 0, i) = Rows(y, n, n + i)
    BY <1>0, FirstOfNext, ZenonT(30)
  <2>2. Rows(y, 0, n) \o Rows(y, n, n + i) = Rows(y, 0, n + i)
    BY <1>0, RowsGrow
  <2>3. Rows(y, 0, n + i) \in Seq(Nat)
    BY <1>0, FirstRows
  <2> QED BY <1>2, <2>1, <2>2, <2>3
<1>7. c[i] = IF o.compact /\ i # k
             THEN [at EXCEPT !.recurrent = a.recurrent, !.rollback = toks, !.rollback_rows = i]
             ELSE [at EXCEPT !.recurrent = rec]
  BY <1>3 DEF LinearVerify
<1> HIDE DEF conv, rec, err
<1>8. /\ at \in Recurrents /\ at.convolution = conv /\ at.initialized = TRUE /\ at.err = FALSE
      /\ at.rollback_rows = 0 /\ at.rollback = <<>>
  BY <1>4, <1>5, NewLinearTyped DEF Recurrents, NewLinear
<1> HIDE DEF at
<1>9. CASE o.compact /\ i # k
  <2> DEFINE t == [at EXCEPT !.recurrent = a.recurrent, !.rollback = toks, !.rollback_rows = i]
  <2>1. c[i] = t
    BY <1>7, <1>9
  <2> HIDE DEF toks
  <2>2. /\ t \in Recurrents /\ t.err = FALSE /\ t.initialized = TRUE /\ t.rollback_rows = i
        /\ t.rollback = toks /\ t.recurrent = a.recurrent /\ t.convolution = conv
    BY <1>0, <1>2, <1>3, <1>8 DEF Recurrents
  <2> HIDE DEF t
  <2>3. t.recurrent \o Rows(t.rollback, 0, t.rollback_rows) = Rows(y, 0, n + i)
    BY <1>6, <2>2 DEF rec
  <2> QED BY <1>0, <1>3, <1>5, <1>9, <2>1, <2>2, <2>3 DEF Deferred
<1>10. CASE ~(o.compact /\ i # k)
  <2> DEFINE t == [at EXCEPT !.recurrent = rec]
  <2>1. c[i] = t
    BY <1>7, <1>10
  <2>2. /\ t \in Recurrents /\ t.err = FALSE /\ t.initialized = TRUE /\ t.rollback_rows = 0
        /\ t.rollback = <<>> /\ t.recurrent = rec /\ t.convolution = conv
    BY <1>6, <1>8 DEF Recurrents
  <2> HIDE DEF t
  <2>3. Rows(t.rollback, 0, t.rollback_rows) = <<>>
    BY <2>2, SubSeqProperties, EmptySeq DEF Rows
  <2>4. t.recurrent \o <<>> = t.recurrent
    BY <1>6, <2>2, ConcatEmptySeq
  <2>5. t.recurrent \o Rows(t.rollback, 0, t.rollback_rows) = Rows(y, 0, n + i)
    BY <1>6, <2>2, <2>3, <2>4
  <2>6. t.rollback_rows <= Len(t.rollback)
    BY <2>2
  <2>7. Deferred(t, y, n + i)
    BY <1>5, <2>2, <2>5, <2>6 DEF Deferred
  <2>8. Settled(t, y, n + i)
    BY <1>5, <1>6, <2>2 DEF Settled
  <2> QED BY <2>1, <2>7, <2>8
<1> QED BY <1>9, <1>10

LEMMA LinearPrefillHolds ==
  ASSUME NEW y \in Seq(Nat), NEW n \in Nat, NEW k \in Nat, k > 0, n + k <= Len(y),
         NEW s, Settled(s, y, n), NEW o, NEW t, t = LinearPrefill(s, o, Rows(y, n, n + k))
  PROVE  Settled(t, y, n + k)
<1> DEFINE toks == Rows(y, n, n + k)
           a == Initialized(s)
<1>0. n <= Len(y) /\ k \in 1..k
  BY LenProperties
<1>1. Started(a, y, n)
  BY <1>0, InitializedHolds
<1>2. MaterializeRollback(s) = s
  BY SettledFacts
<1>3. toks \in Seq(Nat) /\ Len(toks) = k
  BY NextRows
<1>4. CASE o.metal_prefill
  <2>1. t = Passed(a, toks, k)
    BY <1>2, <1>3, <1>4 DEF LinearPrefill, Passed
  <2> QED BY <1>1, <2>1, PassedHolds DEF Started
<1>5. CASE ~o.metal_prefill
  <2>1. t = LinearVerify(s, o, toks)[k]
    BY <1>2, <1>3, <1>5 DEF LinearPrefill
  <2> QED BY <1>0, <2>1, LinearVerifyHolds
<1> QED BY <1>4, <1>5

-----------------------------------------------------------------------------
(***************************************************************************)
(* The per-layer embedding: what the n-gram context remembers of the text  *)
(* is what the definition of an n-gram reads, and the convolution window   *)
(* slides over the contexts.                                               *)
(***************************************************************************)

Embeddings ==
  [previous : Nat \X Nat, segment_length : Nat, initialized : BOOLEAN,
   convolution : Seq(Seq(Nat)), convolution_initialized : BOOLEAN]

Contexts(y) == [i \in 1..Len(y) |-> ContextOf(y, i)]

EmbeddingWindow(y, n) == Rows(Padded(NoContexts(PleConv), Contexts(y)), n, n + PleConv)

Hashed(s, y, n) ==
  IF n = 0 THEN s.segment_length = 0
  ELSE /\ s.initialized = TRUE
       /\ IF y[n] = Eos THEN s.segment_length = 0
          ELSE /\ s.previous[2] = y[n]
               /\ IF n > 1 /\ y[n - 1] # Eos
                  THEN s.segment_length = 2 /\ s.previous[1] = y[n - 1]
                  ELSE s.segment_length = 1

Embedded(s, y, n) ==
  /\ s \in Embeddings /\ Hashed(s, y, n)
  /\ IF s.convolution_initialized THEN s.convolution = EmbeddingWindow(y, n) ELSE n = 0

LEMMA ContextTyped ==
  ASSUME NEW y \in Seq(Nat), NEW i \in 1..Len(y)
  PROVE  ContextOf(y, i) \in Seq(Nat)
<1>1. Len(y) \in Nat /\ Eos \in Nat
  BY LenProperties, Constant
<1>2. y[i] \in Nat
  BY ElementOfSeq
<1>3. i > 1 => y[i - 1] \in Nat
  <2>1. i > 1 => i - 1 \in 1..Len(y)
    BY <1>1
  <2> QED BY <2>1, ElementOfSeq
<1>4. i > 2 => y[i - 2] \in Nat
  <2>1. i > 2 => i - 2 \in 1..Len(y)
    BY <1>1
  <2> QED BY <2>1, ElementOfSeq
<1> DEFINE a == y[i]
           b == IF i > 1 THEN y[i - 1] ELSE Eos
           c == IF i > 2 /\ y[i - 1] # Eos THEN y[i - 2] ELSE Eos
<1>5. a \in Nat /\ b \in Nat /\ c \in Nat /\ ContextOf(y, i) = <<a, b, c>>
  BY <1>1, <1>2, <1>3, <1>4 DEF ContextOf
<1> HIDE DEF a, b, c
<1> QED BY <1>5

LEMMA HashReads ==
  ASSUME NEW y \in Seq(Nat), NEW n \in Nat, n + 1 <= Len(y),
         NEW s \in Embeddings, Hashed(s, y, n)
  PROVE  NgramContext(s, y[n + 1]) = ContextOf(y, n + 1)
<1>1. (n + 1) - 1 = n /\ (n + 1) - 2 = n - 1 /\ (n + 1 > 1 <=> n # 0) /\ (n + 1 > 2 <=> n > 1)
      /\ (n > 1 => n # 0)
  OBVIOUS
<1> DEFINE m == n + 1
<1>2. ContextOf(y, m) = <<y[m], IF n # 0 THEN y[n] ELSE Eos,
                          IF n > 1 /\ y[n] # Eos THEN y[n - 1] ELSE Eos>>
  BY <1>1 DEF ContextOf
<1> HIDE DEF m
<1>3. s.segment_length \in Nat /\ (s.initialized = TRUE \/ s.initialized = FALSE)
  BY DEF Embeddings
<1>4. CASE n = 0
  <2>1. s.segment_length = 0 /\ ~(n > 1)
    BY <1>4 DEF Hashed
  <2>2. NgramContext(s, y[m]) = <<y[m], Eos, Eos>>
    BY <2>1 DEF NgramContext
  <2> QED BY <1>2, <1>4, <2>1, <2>2 DEF m
<1>5. CASE n # 0 /\ y[n] = Eos
  <2>1. s.segment_length = 0
    BY <1>5 DEF Hashed
  <2>2. NgramContext(s, y[m]) = <<y[m], Eos, Eos>>
    BY <2>1 DEF NgramContext
  <2>3. ContextOf(y, m) = <<y[m], Eos, Eos>>
    BY <1>2, <1>5
  <2> QED BY <2>2, <2>3 DEF m
<1>6. CASE n # 0 /\ y[n] # Eos
  <2>1. s.initialized = TRUE /\ s.previous[2] = y[n]
    BY <1>6 DEF Hashed
  <2>2. CASE n > 1 /\ y[n - 1] # Eos
    <3>1. s.segment_length = 2 /\ s.previous[1] = y[n - 1]
      BY <1>6, <2>2 DEF Hashed
    <3>2. NgramContext(s, y[m]) = <<y[m], y[n], y[n - 1]>>
      BY <2>1, <3>1 DEF NgramContext
    <3> QED BY <1>2, <1>6, <2>2, <3>2 DEF m
  <2>3. CASE ~(n > 1 /\ y[n - 1] # Eos)
    <3>1. s.segment_length = 1
      BY <1>6, <2>3 DEF Hashed
    <3>2. NgramContext(s, y[m]) = <<y[m], y[n], Eos>>
      BY <2>1, <3>1 DEF NgramContext
    <3>3. ContextOf(y, m) = <<y[m], y[n], Eos>>
      BY <1>2, <1>6, <2>3
    <3> QED BY <3>2, <3>3 DEF m
  <2> QED BY <2>2, <2>3
<1> QED BY <1>4, <1>5, <1>6

\* What advancing the n-gram context leaves alone.
SameWindow(t, s) ==
  t.convolution = s.convolution /\ t.convolution_initialized = s.convolution_initialized

LEMMA HashAdvances ==
  ASSUME NEW y \in Seq(Nat), NEW n \in Nat, n + 1 <= Len(y),
         NEW s \in Embeddings, Hashed(s, y, n), NEW t, t = NgramAdvance(s, y[n + 1])
  PROVE  t \in Embeddings /\ Hashed(t, y, n + 1) /\ SameWindow(t, s)
<1> DEFINE tok == y[n + 1]
           old == IF s.initialized THEN s.previous ELSE <<Eos, Eos>>
           prev == IF tok = Eos THEN <<Eos, Eos>> ELSE <<old[2], tok>>
           seg == IF tok = Eos THEN 0 ELSE MinOf(2, s.segment_length + 1)
<1>1. tok \in Nat /\ Eos \in Nat
  BY OneRow, Constant
<1>2. s.segment_length \in Nat /\ s.previous \in Nat \X Nat /\ s.initialized \in BOOLEAN
  BY DEF Embeddings
<1>3. old \in Nat \X Nat
  BY <1>1, <1>2
<1> HIDE DEF old
<1>4. prev \in Nat \X Nat /\ seg \in Nat
  <2>1. old[2] \in Nat
    BY <1>3
  <2>2. <<Eos, Eos>> \in Nat \X Nat /\ <<old[2], tok>> \in Nat \X Nat
    BY <1>1, <2>1
  <2> QED BY <1>2, <2>2, SMTT(30) DEF MinOf
<1>5. t = [s EXCEPT !.initialized = TRUE, !.previous = prev, !.segment_length = seg]
  BY DEF NgramAdvance, old
<1> HIDE DEF prev, seg, tok
<1>6. /\ t \in Embeddings /\ SameWindow(t, s) /\ t.initialized = TRUE /\ t.previous = prev
      /\ t.segment_length = seg
  BY <1>4, <1>5 DEF Embeddings, SameWindow
<1>7. n + 1 # 0 /\ (n + 1) - 1 = n /\ (n + 1 > 1 <=> n # 0)
  OBVIOUS
<1>8. CASE tok = Eos
  <2>1. seg = 0
    BY <1>8 DEF seg
  <2> QED BY <1>6, <1>7, <1>8, <2>1 DEF Hashed, tok
<1>9. CASE tok # Eos
  <2>1. prev = <<old[2], tok>> /\ seg = MinOf(2, s.segment_length + 1)
    BY <1>9 DEF prev, seg
  <2>2. t.previous[1] = old[2] /\ t.previous[2] = tok
    BY <1>6, <2>1
  <2>3. CASE n = 0 \/ y[n] = Eos
    <3>1. s.segment_length = 0
      BY <2>3 DEF Hashed
    <3>2. seg = 1
      BY <2>1, <3>1 DEF MinOf
    <3>3. ~(n + 1 > 1 /\ y[(n + 1) - 1] # Eos)
      BY <1>7, <2>3
    <3> QED BY <1>6, <1>7, <1>9, <2>2, <3>2, <3>3 DEF Hashed, tok
  <2>4. CASE n # 0 /\ y[n] # Eos
    <3>1. s.initialized = TRUE /\ s.previous[2] = y[n]
          /\ (s.segment_length = 1 \/ s.segment_length = 2)
      BY <2>4 DEF Hashed
    <3>2. seg = 2 /\ old[2] = y[n]
      BY <2>1, <3>1 DEF MinOf, old
    <3>3. n + 1 > 1 /\ y[(n + 1) - 1] # Eos /\ y[(n + 1) - 1] = y[n]
      BY <1>7, <2>4
    <3> QED BY <1>6, <1>7, <1>9, <2>2, <3>2, <3>3 DEF Hashed, tok
  <2> QED BY <2>3, <2>4
<1> QED BY <1>6, <1>8, <1>9

LEMMA ContextsPad ==
  ASSUME NEW y \in Seq(Nat)
  PROVE  /\ Pads(NoContexts(PleConv), Contexts(y), PleConv, Seq(Nat)) /\ PleConv \in Nat
         /\ Contexts(y) \in Seq(Seq(Nat)) /\ Len(Contexts(y)) = Len(y)
         /\ \A i \in 1..Len(y) : Contexts(y)[i] = ContextOf(y, i)
<1> DEFINE T == Seq(Nat)
           W == PleConv
           N == Len(y)
           f == [i \in 1..W |-> <<>>]
           h == Contexts(y)
<1>1. W \in Nat /\ N \in Nat /\ <<>> \in T
  BY Constant, LenProperties, EmptySeq
<1>2. h = [i \in 1..N |-> ContextOf(y, i)] /\ \A i \in 1..N : ContextOf(y, i) \in T
  BY ContextTyped DEF Contexts
<1> HIDE DEF T, W, N, h
<1>3. f \in [1..W -> T] /\ h \in [1..N -> T]
  BY <1>1, <1>2
<1>4. f \in Seq(T) /\ Len(f) = W
  BY <1>1, <1>3, ListIsSeq
<1>5. h \in Seq(T) /\ Len(h) = N
  BY <1>1, <1>3, ListIsSeq
<1>6. NoContexts(W) = f
  BY DEF NoContexts
<1>7. Pads(NoContexts(W), h, W, T)
  BY <1>4, <1>5, <1>6 DEF Pads
<1> QED BY <1>1, <1>2, <1>5, <1>7 DEF T, W, N, h

LEMMA EmbeddingFacts ==
  ASSUME NEW y \in Seq(Nat), NEW n \in Nat, n <= Len(y)
  PROVE  /\ EmbeddingWindow(y, n) \in Seq(Seq(Nat))
         /\ EmbeddingWindow(y, 0) = NoContexts(PleConv)
<1> DEFINE T == Seq(Nat)
           pad == NoContexts(PleConv)
           h == Contexts(y)
           z == Padded(pad, h)
           W == PleConv
           e == n + W
           o == 0
<1>1. Pads(pad, h, W, T) /\ W \in Nat /\ Len(h) = Len(y)
  BY ContextsPad
<1> HIDE DEF h, pad, W, T
<1>2. PaddedText(z, pad, h, W, T) /\ Rows(z, 0, W) = pad
  BY <1>1, PaddedFacts, PaddedPad
<1> HIDE DEF z
<1>3. z \in Seq(T) /\ Len(z) = W + Len(y) /\ Len(y) \in Nat
  BY <1>1, <1>2 DEF PaddedText
<1>4. e \in Nat /\ n <= e /\ e <= Len(z) /\ o + W = W
  BY <1>1, <1>3
<1>5. EmbeddingWindow(y, n) = Rows(z, n, e) /\ EmbeddingWindow(y, o) = Rows(z, o, o + W)
  BY DEF EmbeddingWindow, z, pad, h, W
<1> HIDE DEF e
<1>6. Rows(z, n, e) \in Seq(T)
  BY <1>3, <1>4, RowsFacts
<1> QED BY <1>2, <1>4, <1>5, <1>6 DEF T, pad

LEMMA EmbeddingSlides ==
  ASSUME NEW y \in Seq(Nat), NEW n \in Nat, NEW k \in Nat, n + k <= Len(y),
         NEW i \in Nat, i <= k
  PROVE  Rows(EmbeddingWindow(y, n) \o Rows(Contexts(y), n, n + k), i, i + PleConv)
           = EmbeddingWindow(y, n + i)
<1> DEFINE T == Seq(Nat)
           pad == NoContexts(PleConv)
           h == Contexts(y)
           z == Padded(pad, h)
           W == PleConv
           m == n + k
           b == n + W
           c == m + W
           j == i + W
<1>1. Pads(pad, h, W, T) /\ W \in Nat /\ Len(h) = Len(y)
  BY ContextsPad
<1> HIDE DEF W, pad, T, h
<1>2. PaddedText(z, pad, h, W, T)
  BY <1>1, PaddedFacts
<1>4. z \in Seq(T) /\ Len(z) = W + Len(h) /\ Len(h) \in Nat
  BY <1>2 DEF PaddedText
<1>5. /\ m \in Nat /\ n <= m /\ m <= Len(h) /\ b \in Nat /\ c \in Nat /\ n <= b /\ b <= c
      /\ c <= Len(z) /\ j \in Nat /\ i <= j /\ j <= c - n /\ n + j = (n + i) + W
  BY <1>1, <1>4
<1> HIDE DEF m
<1>3. Rows(z, b, c) = Rows(h, n, m)
  BY <1>1, <1>5, PaddedRows
<1> HIDE DEF z, b, c, j
<1>6. Rows(Rows(z, n, b) \o Rows(z, b, c), i, j) = Rows(z, n + i, n + j)
  BY <1>4, <1>5, Slides
<1>7. /\ EmbeddingWindow(y, n) = Rows(z, n, b)
      /\ EmbeddingWindow(y, n + i) = Rows(z, n + i, (n + i) + W)
      /\ i + PleConv = j
  BY DEF EmbeddingWindow, z, pad, W, b, j, h
<1> QED BY <1>3, <1>5, <1>6, <1>7 DEF m, h

\* The window a call starts from.
LEMMA WindowOf ==
  ASSUME NEW y \in Seq(Nat), NEW n \in Nat, n <= Len(y), NEW s, Embedded(s, y, n)
  PROVE  (IF s.convolution_initialized THEN s.convolution ELSE NoContexts(PleConv))
           = EmbeddingWindow(y, n)
<1>1. s.convolution_initialized \in BOOLEAN
  BY DEF Embedded, Embeddings
<1>2. CASE s.convolution_initialized = TRUE
  BY <1>2 DEF Embedded
<1>3. CASE s.convolution_initialized = FALSE
  BY <1>3, EmbeddingFacts DEF Embedded
<1> QED BY <1>1, <1>2, <1>3

\* A state whose context has advanced is embedded once its window is.
LEMMA WindowedHolds ==
  ASSUME NEW y \in Seq(Nat), NEW m \in Nat, m <= Len(y), NEW s \in Embeddings, Hashed(s, y, m),
         NEW t, t = [s EXCEPT !.convolution = EmbeddingWindow(y, m),
                              !.convolution_initialized = TRUE]
  PROVE  Embedded(t, y, m)
<1> DEFINE w == EmbeddingWindow(y, m)
<1>1. w \in Seq(Seq(Nat))
  BY EmbeddingFacts
<1>2. t = [s EXCEPT !.convolution = w, !.convolution_initialized = TRUE]
  OBVIOUS
<1> HIDE DEF w
<1>3. /\ t \in Embeddings /\ t.convolution = w /\ t.convolution_initialized = TRUE
      /\ t.previous = s.previous /\ t.segment_length = s.segment_length
      /\ t.initialized = s.initialized
  BY <1>1, <1>2 DEF Embeddings
<1>4. Hashed(t, y, m)
  BY <1>3 DEF Hashed
<1> QED BY <1>3, <1>4 DEF Embedded, w

LEMMA PleDecodeHolds ==
  ASSUME NEW y \in Seq(Nat), NEW n \in Nat, n + 1 <= Len(y), NEW s, Embedded(s, y, n),
         NEW t, t = PleDecode(s, y[n + 1])
  PROVE  Embedded(t, y, n + 1)
<1> DEFINE tok == y[n + 1]
           m == n + 1
           a == NgramAdvance(s, tok)
           w == EmbeddingWindow(y, n)
           W == PleConv
           q == <<ContextOf(y, m)>>
           h == Contexts(y)
<1>1. m \in Nat /\ n <= Len(y) /\ m <= Len(y) /\ 1 \in Nat /\ 1 <= 1 /\ m \in 1..Len(y) /\ n <= m
      /\ m - n = 1
  BY LenProperties
<1>2. a \in Embeddings /\ Hashed(a, y, m)
  BY HashAdvances DEF Embedded
<1>3. NgramContext(s, tok) = ContextOf(y, m)
  BY HashReads DEF Embedded
<1>4. (IF s.convolution_initialized THEN s.convolution ELSE NoContexts(W)) = w
  BY <1>1, WindowOf
<1>5. h \in Seq(Seq(Nat)) /\ Len(h) = Len(y) /\ h[m] = ContextOf(y, m)
  BY <1>1, ContextsPad
<1>6. Rows(h, n, m) = q
  <2> DEFINE T == Seq(Nat)
             r == Rows(h, n, m)
  <2>1. h \in Seq(T) /\ m <= Len(h)
    BY <1>1, <1>5
  <2> HIDE DEF T, h, m
  <2>2. r \in Seq(T) /\ Len(r) = m - n /\ \A i \in 1..(m - n) : r[i] = h[n + i]
    BY <1>1, <2>1, RowsFacts
  <2> HIDE DEF r
  <2>3. Len(r) = 1 /\ r[1] = h[m]
    BY <1>1, <2>2 DEF m
  <2>4. r = <<r[1]>>
    <3>1. r \in [1..1 -> T]
      BY <2>2, <2>3, LenProperties
    <3> QED BY <3>1
  <2> QED BY <1>5, <2>3, <2>4 DEF r
<1>7. Rows(w \o Rows(h, n, n + 1), 1, 1 + W) = EmbeddingWindow(y, n + 1)
  BY <1>1, EmbeddingSlides
<1>8. 1 + W = W + 1
  BY Constant
<1>9. Rows(w \o q, 1, W + 1) = EmbeddingWindow(y, m)
  BY <1>6, <1>7, <1>8
<1>10. t = [a EXCEPT !.convolution = Rows(w \o q, 1, W + 1), !.convolution_initialized = TRUE]
  BY <1>3, <1>4 DEF PleDecode
<1> HIDE DEF a, m
<1> QED BY <1>1, <1>2, <1>9, <1>10, WindowedHolds DEF m

LEMMA NgramChainHolds ==
  ASSUME NEW y \in Seq(Nat), NEW n \in Nat, NEW k \in Nat, n + k <= Len(y),
         NEW s \in Embeddings, Hashed(s, y, n), NEW toks, toks = Rows(y, n, n + k),
         NEW chain,
         chain = CHOOSE f : f = [i \in 0..Len(toks) |->
                                   IF i = 0 THEN s ELSE NgramAdvance(f[i - 1], toks[i])]
  PROVE  \A i \in 0..k : chain[i] \in Embeddings /\ Hashed(chain[i], y, n + i)
<1> DEFINE A == [i \in 0..k |-> {x \in Embeddings : Hashed(x, y, n + i)}]
           Eq(f) == f = [i \in 0..Len(toks) |->
                           IF i = 0 THEN s ELSE NgramAdvance(f[i - 1], toks[i])]
           g == [i \in 1..k |-> [x \in A[i - 1] |-> NgramAdvance(x, toks[i])]]
<1>1. Len(toks) = k /\ \A i \in 1..k : toks[i] = y[n + i]
  BY NextRows
<1>2. s \in A[0]
  OBVIOUS
<1>3. ASSUME NEW i \in 1..k, NEW x \in A[i - 1]
      PROVE  NgramAdvance(x, toks[i]) \in A[i]
  <2> DEFINE m == n + (i - 1)
             u == NgramAdvance(x, toks[i])
  <2>1. x \in Embeddings /\ Hashed(x, y, m)
    <3>1. i - 1 \in 0..k
      OBVIOUS
    <3> QED BY <1>3, <3>1
  <2>2. m \in Nat /\ m + 1 = n + i /\ m + 1 <= Len(y)
    BY LenProperties
  <2>3. toks[i] = y[m + 1]
    BY <1>1, <2>2
  <2> HIDE DEF m
  <2>4. u \in Embeddings /\ Hashed(u, y, m + 1)
    BY <2>1, <2>2, <2>3, HashAdvances
  <2>5. u \in {z \in Embeddings : Hashed(z, y, n + i)}
    BY <2>2, <2>4
  <2> QED BY <2>5
<1>10. \A i \in 0..k : A[i] = {x \in Embeddings : Hashed(x, y, n + i)}
  OBVIOUS
<1> HIDE DEF A
<1>4. \E f : Eq(f)
  <2>1. \A i \in 1..k : \A x \in A[i - 1] : g[i][x] = NgramAdvance(x, toks[i])
    OBVIOUS
  <2>2. PICK f : Chained(f, k, s, g) /\ \A i \in 0..k : f[i] \in A[i]
    <3>1. \A i \in 1..k : \A x \in A[i - 1] : g[i][x] \in A[i]
      BY <1>3, <2>1
    <3> HIDE DEF g
    <3> QED BY <1>2, <3>1, ChainHolds
  <2>3. f = [i \in 0..k |-> IF i = 0 THEN s ELSE g[i][f[i - 1]]]
    BY <2>2 DEF Chained
  <2>4. ASSUME NEW i \in 0..k, i # 0 PROVE g[i][f[i - 1]] = NgramAdvance(f[i - 1], toks[i])
    <3>1. i \in 1..k /\ i - 1 \in 0..k
      BY <2>4
    <3>2. f[i - 1] \in A[i - 1]
      BY <2>2, <3>1
    <3> QED BY <2>1, <3>1, <3>2
  <2> HIDE DEF g
  <2>5. Eq(f)
    BY <1>1, <2>3, <2>4
  <2> QED BY <2>5
<1>5. Eq(chain)
  BY <1>4
<1>6. chain = [i \in 0..k |-> IF i = 0 THEN s ELSE NgramAdvance(chain[i - 1], toks[i])]
  BY <1>1, <1>5
<1>7. chain[0] = s /\ \A i \in 1..k : chain[i] = NgramAdvance(chain[i - 1], toks[i])
  <2>1. 0 \in 0..k /\ \A i \in 1..k : i \in 0..k /\ i # 0
    OBVIOUS
  <2> QED BY <1>6, <2>1
<1>8. \A i \in 0..k : chain[i] \in A[i]
  <2>1. chain[0] \in A[0] /\ \A i \in 1..k : chain[i - 1] \in A[i - 1] => chain[i] \in A[i]
    BY <1>2, <1>3, <1>7
  <2> QED BY <2>1, ChainStays
<1> QED BY <1>8, <1>10

LEMMA PleVerifyHolds ==
  ASSUME NEW y \in Seq(Nat), NEW n \in Nat, NEW k \in Nat, n + k <= Len(y),
         NEW s, Embedded(s, y, n), NEW c, c = PleVerify(s, Rows(y, n, n + k)), NEW i \in 1..k
  PROVE  Embedded(c[i], y, n + i)
<1> DEFINE toks == Rows(y, n, n + k)
           chain == CHOOSE f : f = [j \in 0..Len(toks) |->
                                      IF j = 0 THEN s ELSE NgramAdvance(f[j - 1], toks[j])]
           w == EmbeddingWindow(y, n)
           W == PleConv
           h == Contexts(y)
           q == [j \in 1..Len(toks) |-> NgramContext(chain[j - 1], toks[j])]
           from == IF s.convolution_initialized THEN s.convolution ELSE NoContexts(W)
           m == n + i
<1>0. /\ n <= Len(y) /\ i \in Nat /\ i <= k /\ m \in Nat /\ m <= Len(y) /\ Len(y) \in Nat
      /\ n + k \in Nat /\ n <= n + k /\ (n + k) - n = k
  BY LenProperties
<1>1. Len(toks) = k /\ \A j \in 1..k : toks[j] = y[n + j]
  BY NextRows
<1>2. s \in Embeddings /\ Hashed(s, y, n)
  BY DEF Embedded
<1>3. \A j \in 0..k : chain[j] \in Embeddings /\ Hashed(chain[j], y, n + j)
  BY <1>2, NgramChainHolds
<1>4. from = w
  BY <1>0, WindowOf
<1>5. h \in Seq(Seq(Nat)) /\ Len(h) = Len(y) /\ \A j \in 1..Len(y) : h[j] = ContextOf(y, j)
  BY ContextsPad
<1>6. c = [j \in 1..Len(toks) |-> [chain[j] EXCEPT !.convolution = Rows(from \o q, j, j + W),
                                                  !.convolution_initialized = TRUE]]
  BY DEF PleVerify
<1> HIDE DEF chain, toks, w, from
<1>7. ASSUME NEW j \in 1..k PROVE q[j] = h[n + j]
  <2> DEFINE p == n + (j - 1)
  <2>1. p \in Nat /\ p + 1 = n + j /\ p + 1 <= Len(y) /\ n + j \in 1..Len(y) /\ j - 1 \in 0..k
    BY <1>0
  <2>2. chain[j - 1] \in Embeddings /\ Hashed(chain[j - 1], y, p)
    BY <1>3, <2>1
  <2>3. toks[j] = y[p + 1]
    BY <1>1, <2>1
  <2>4. q[j] = NgramContext(chain[j - 1], y[p + 1])
    BY <1>1, <2>3
  <2> HIDE DEF p
  <2>5. NgramContext(chain[j - 1], y[p + 1]) = ContextOf(y, p + 1)
    BY <2>1, <2>2, HashReads
  <2> QED BY <1>5, <2>1, <2>4, <2>5
<1>8. q = Rows(h, n, n + k)
  <2> DEFINE T == Seq(Nat)
             e == n + k
  <2>1. \A j \in 1..k : q[j] \in T
    <3>1. \A j \in 1..k : n + j \in 1..Len(h)
      BY <1>0, <1>5
    <3> QED BY <1>5, <1>7, <3>1, ElementOfSeq
  <2>2. q = [j \in 1..k |-> q[j]]
    BY <1>1
  <2> HIDE DEF q
  <2>3. q \in [1..k -> T]
    BY <2>1, <2>2
  <2> HIDE DEF T, e
  <2>4. q \in Seq(T) /\ Len(q) = k
    BY <2>3, ListIsSeq
  <2>5. /\ h \in Seq(T) /\ e \in Nat /\ n <= e /\ e <= Len(h) /\ Len(q) = e - n
        /\ \A j \in 1..(e - n) : q[j] = h[n + j]
    BY <1>0, <1>5, <1>7, <2>4 DEF T, e
  <2> HIDE DEF h
  <2>6. q = Rows(h, n, e)
    BY <2>4, <2>5, RowsAre, ZenonT(30)
  <2> QED BY <2>6 DEF e
<1> HIDE DEF q
<1>9. Rows(w \o q, i, i + W) = EmbeddingWindow(y, m)
  <2>1. Rows(w \o Rows(h, n, n + k), i, i + W) = EmbeddingWindow(y, m)
    BY <1>0, EmbeddingSlides, ZenonT(30) DEF w
  <2> QED BY <1>8, <2>1
<1>10. chain[i] \in Embeddings /\ Hashed(chain[i], y, m)
  BY <1>0, <1>3
<1>11. c[i] = [chain[i] EXCEPT !.convolution = EmbeddingWindow(y, m),
                               !.convolution_initialized = TRUE]
  BY <1>1, <1>4, <1>6, <1>9
<1> HIDE DEF m
<1>12. Embedded(c[i], y, m)
  BY <1>0, <1>10, <1>11, WindowedHolds
<1> QED BY <1>12 DEF m

-----------------------------------------------------------------------------
(* What else may happen to a layer: preparing, snapshots, files, and       *)
(* another text with the same beginning.                                   *)

Agree(y, z, n) == n <= Len(y) /\ n <= Len(z) /\ \A i \in 1..n : y[i] = z[i]

LEMMA RowsAgree ==
  ASSUME NEW y \in Seq(Nat), NEW z \in Seq(Nat), NEW n \in Nat, Agree(y, z, n),
         NEW lo \in Nat, NEW hi \in Nat, lo <= hi, hi <= n
  PROVE  Rows(y, lo, hi) = Rows(z, lo, hi)
<1> DEFINE T == Nat
           r == Rows(y, lo, hi)
<1>0. z \in Seq(T) /\ hi <= Len(z) /\ \A i \in 1..n : y[i] = z[i]
  BY LenProperties DEF Agree
<1>5. y \in Seq(T) /\ hi <= Len(y)
  BY LenProperties DEF Agree
<1> HIDE DEF T
<1>1. r \in Seq(T) /\ Len(r) = hi - lo /\ \A i \in 1..(hi - lo) : r[i] = y[lo + i]
  BY <1>5, RowsFacts
<1> HIDE DEF r
<1>2. \A i \in 1..(hi - lo) : lo + i \in 1..n
  OBVIOUS
<1>3. \A i \in 1..(hi - lo) : r[i] = z[lo + i]
  BY <1>0, <1>1, <1>2
<1>6. z \in Seq(T) /\ hi <= Len(z) /\ r \in Seq(T) /\ Len(r) = hi - lo
  BY <1>0, <1>1
<1> DEFINE v == Rows(z, lo, hi)
<1>7. v \in Seq(T) /\ Len(v) = hi - lo /\ \A i \in 1..(hi - lo) : v[i] = z[lo + i]
  BY <1>6, RowsFacts
<1> HIDE DEF v
<1>8. /\ Len(r) = Len(v) /\ \A i \in 1..Len(r) : r[i] = v[i]
      /\ r \in Seq(T) /\ v \in Seq(T)
  BY <1>1, <1>3, <1>7
<1>9. r = v
  BY <1>8, SeqEqual
<1> QED BY <1>9 DEF r, v

LEMMA PooledBounds ==
  ASSUME NEW y, NEW n \in Nat, NEW s \in Attentions, IndexHolds(s, y, n)
  PROVE  /\ s.pooled_count \in Nat /\ s.pooled_count * Ratio <= n /\ s.raw_start \in Nat
         /\ s.raw_start <= n
         /\ \A b \in 1..Len(s.pooled) :
              /\ b \in Nat /\ b - 1 \in Nat /\ (b - 1) * Ratio \in Nat /\ b * Ratio \in Nat
              /\ (b - 1) * Ratio <= b * Ratio /\ b * Ratio <= n
<1>1. /\ s.pooled_count \in Nat /\ s.raw_start \in Nat /\ Len(s.pooled) = s.pooled_count
      /\ s.raw_start <= s.pooled_count * Ratio /\ s.pooled_count * Ratio <= n
  BY DEF IndexHolds, Attentions
<1> DEFINE c == s.pooled_count
           top == c * Ratio
<1>2. top \in Nat
  BY <1>1, Times
<1>3. ASSUME NEW b \in 1..c
      PROVE  /\ b \in Nat /\ b - 1 \in Nat /\ (b - 1) * Ratio \in Nat /\ b * Ratio \in Nat
             /\ (b - 1) * Ratio <= b * Ratio /\ b * Ratio <= n
  <2>1. c \in Nat
    BY <1>1
  <2> HIDE DEF c
  <2>2. b \in Nat /\ b - 1 \in Nat /\ b - 1 <= b /\ b <= c
    BY <2>1
  <2> DEFINE lo == (b - 1) * Ratio
             hi == b * Ratio
  <2>3. lo \in Nat /\ hi \in Nat /\ lo <= hi
    BY <2>2, Times
  <2>4. hi <= top
    BY <2>1, <2>2, Times
  <2>5. top <= n
    BY <1>1 DEF c
  <2> HIDE DEF lo, hi, top
  <2>6. hi <= n
    BY <1>2, <2>3, <2>4, <2>5
  <2> QED BY <2>2, <2>3, <2>6 DEF lo, hi
<1>4. s.raw_start <= top /\ top <= n
  BY <1>1
<1> HIDE DEF top
<1>5. s.raw_start <= n
  BY <1>1, <1>2, <1>4
<1> QED BY <1>1, <1>3, <1>5

LEMMA AttendingAgrees ==
  ASSUME NEW y \in Seq(Nat), NEW z \in Seq(Nat), NEW n \in Nat, Agree(y, z, n),
         NEW base \in Int, NEW s, Attending(s, y, n, base)
  PROVE  Attending(s, z, n, base)
<1>1. /\ s \in Attentions /\ ~s.err /\ s.token_count = n /\ s.position_base = base
      /\ KeysHold(s, y, n) /\ IndexHolds(s, y, n)
  BY DEF Attending
<1>2. \A i \in 1..n : y[i] = z[i]
  BY DEF Agree
<1>3. KeysHold(s, z, n)
  <2> DEFINE a == s.cold
             q == s.keys
  <2>1. /\ s.cold_tokens = Len(a) /\ q \in Seq(Key) /\ a \in Seq(Key) /\ s.kv_q8 \in BOOLEAN
        /\ Len(a) + Len(q) = n /\ KeysFrom(a, y, base, 0) /\ KeysFrom(q, y, base, Len(a))
        /\ (IF s.kv_q8 THEN n >= Q8Min ELSE a = <<>>)
    BY <1>1 DEF KeysHold, KeysAre
  <2>2. Len(a) \in Nat /\ Len(q) \in Nat
    BY <2>1, LenProperties
  <2> HIDE DEF a, q
  <2>3. \A i \in 1..Len(a) : 0 + i \in 1..n
    BY <2>1, <2>2
  <2>4. \A i \in 1..Len(q) : Len(a) + i \in 1..n
    BY <2>1, <2>2
  <2>5. KeysFrom(a, z, base, 0)
    BY <1>2, <2>1, <2>3 DEF KeysFrom, KeyAt
  <2>6. KeysFrom(q, z, base, Len(a))
    BY <1>2, <2>1, <2>4 DEF KeysFrom, KeyAt
  <2> QED BY <1>1, <2>1, <2>5, <2>6 DEF KeysHold, KeysAre, a, q
<1>4. IndexHolds(s, z, n)
  <2>1. /\ s.raw_start \in Nat /\ s.raw_start <= n
        /\ \A b \in 1..Len(s.pooled) :
              /\ b \in Nat /\ b - 1 \in Nat /\ (b - 1) * Ratio \in Nat /\ b * Ratio \in Nat
              /\ (b - 1) * Ratio <= b * Ratio /\ b * Ratio <= n
    BY <1>1, PooledBounds
  <2>2. Rows(y, s.raw_start, n) = Rows(z, s.raw_start, n)
    <3>1. n <= n
      OBVIOUS
    <3> QED BY <2>1, <3>1, RowsAgree
  <2>3. ASSUME NEW b \in 1..Len(s.pooled) PROVE PoolAt(y, base, b) = PoolAt(z, base, b)
    <3> DEFINE lo == (b - 1) * Ratio
               hi == b * Ratio
    <3>1. lo \in Nat /\ hi \in Nat /\ lo <= hi /\ hi <= n
      BY <2>1
    <3> HIDE DEF lo, hi
    <3>2. Rows(y, lo, hi) = Rows(z, lo, hi)
      BY <3>1, RowsAgree
    <3> QED BY <3>2 DEF PoolAt, lo, hi
  <2>4. /\ s.raw = Rows(y, s.raw_start, n)
        /\ s.raw_start <= s.pooled_count * Ratio /\ s.pooled_count * Ratio <= n
        /\ Len(s.pooled) = s.pooled_count
        /\ \A b \in 1..Len(s.pooled) : s.pooled[b] = PoolAt(y, base, b)
    BY <1>1 DEF IndexHolds
  <2> QED BY <1>1, <2>2, <2>3, <2>4 DEF IndexHolds
<1> QED BY <1>1, <1>3, <1>4 DEF Attending

LEMMA PoolsAttend ==
  ASSUME NEW y \in Seq(Nat), NEW n \in Nat, n <= Len(y), NEW base, NEW s,
         Attending(s, y, n, base)
  PROVE  Attending(MaterializePools(s, s.token_count), y, n, base)
<1> DEFINE p == MaterializePools(s, n)
<1>1. /\ s \in Attentions /\ ~s.err /\ s.token_count = n /\ s.position_base = base
      /\ KeysHold(s, y, n) /\ IndexHolds(s, y, n)
  BY DEF Attending
<1>2. p \in Attentions /\ ~p.err /\ SameKeys(p, s) /\ IndexHolds(p, y, n)
  BY <1>1, PoolsHold
<1> HIDE DEF p
<1>3. KeysHold(p, y, n)
  BY <1>1, <1>2, KeysStay
<1>4. p.token_count = n /\ p.position_base = base
  BY <1>1, <1>2 DEF SameKeys
<1>5. Attending(p, y, n, base)
  BY <1>2, <1>3, <1>4 DEF Attending
<1> QED BY <1>1, <1>5 DEF p

LEMMA RowsOfFirst ==
  ASSUME NEW T, NEW y \in Seq(T), NEW n \in Nat, n <= Len(y),
         NEW a \in Nat, NEW b \in Nat, a <= b, b <= n
  PROVE  Rows(Rows(y, 0, n), a, b) = Rows(y, a, b)
<1> DEFINE o == 0
<1>1. o \in Nat /\ o <= n /\ b <= n - o /\ o + a = a /\ o + b = b
  OBVIOUS
<1> HIDE DEF o
<1>2. Rows(Rows(y, o, n), a, b) = Rows(y, o + a, o + b)
  BY <1>1, RowsOfRows
<1> QED BY <1>1, <1>2 DEF o

LEMMA AttendingIs ==
  ASSUME NEW y \in Seq(Nat), NEW n \in Nat, n <= Len(y), NEW base \in Int, NEW s,
         Attending(s, y, n, base)
  PROVE  AttentionHolds(s, Rows(y, 0, n), base)
<1> DEFINE held == Rows(y, 0, n)
           q == s.cold \o s.keys
<1>1. /\ s \in Attentions /\ ~s.err /\ s.token_count = n /\ s.position_base = base
      /\ KeysHold(s, y, n) /\ IndexHolds(s, y, n)
  BY DEF Attending
<1>2. Len(held) = n /\ \A i \in 1..n : held[i] = y[i]
  BY FirstRows
<1>3. q = [i \in 1..n |-> <<held[i], base + i - 1>>]
  <2> DEFINE c == s.cold
             h == s.keys
  <2>1. /\ c \in Seq(Key) /\ h \in Seq(Key) /\ KeysFrom(c, y, base, 0)
        /\ KeysFrom(h, y, base, 0 + Len(c)) /\ Len(c) + Len(h) = n /\ 0 \in Nat
    <3>1. /\ c \in Seq(Key) /\ h \in Seq(Key) /\ KeysFrom(c, y, base, 0)
          /\ KeysFrom(h, y, base, Len(c)) /\ Len(c) + Len(h) = n
      BY <1>1 DEF KeysHold, KeysAre
    <3>2. 0 + Len(c) = Len(c)
      BY <3>1, LenProperties
    <3> QED BY <3>1, <3>2
  <2> HIDE DEF c, h
  <2>2. c \o h \in Seq(Key) /\ Len(c \o h) = Len(c) + Len(h) /\ KeysFrom(c \o h, y, base, 0)
    BY <2>1, KeysJoin
  <2> DEFINE j == c \o h
  <2>3. j \in Seq(Key) /\ Len(j) = n /\ KeysFrom(j, y, base, 0)
    BY <2>1, <2>2
  <2> HIDE DEF j
  <2>4. j = [i \in 1..n |-> j[i]]
    BY <2>3, LenProperties
  <2>5. \A i \in 1..n : j[i] = <<held[i], base + i - 1>>
    <3> TAKE i \in 1..n
    <3>1. j[i] = <<y[0 + i], base + ((0 + i) - 1)>>
      BY <2>3 DEF KeysFrom, KeyAt
    <3>2. 0 + i = i /\ base + ((0 + i) - 1) = base + i - 1
      OBVIOUS
    <3> QED BY <1>2, <3>1, <3>2
  <2> HIDE DEF held
  <2>6. j = [i \in 1..n |-> <<held[i], base + i - 1>>]
    BY <2>4, <2>5
  <2> QED BY <2>6 DEF j, c, h
<1>4. s.cold_tokens = Len(s.cold)
  BY <1>1 DEF KeysHold
<1>5. /\ s.raw_start \in Nat /\ s.raw_start <= n /\ s.pooled_count \in Nat
      /\ s.pooled_count * Ratio <= n
      /\ \A b \in 1..Len(s.pooled) :
            /\ b \in Nat /\ b - 1 \in Nat /\ (b - 1) * Ratio \in Nat /\ b * Ratio \in Nat
            /\ (b - 1) * Ratio <= b * Ratio /\ b * Ratio <= n
  BY <1>1, PooledBounds
<1>6. s.raw = Rows(held, s.raw_start, n)
  <2>1. n <= n
    OBVIOUS
  <2>2. Rows(held, s.raw_start, n) = Rows(y, s.raw_start, n)
    BY <1>5, <2>1, RowsOfFirst
  <2> QED BY <1>1, <2>2 DEF IndexHolds
<1>7. s.pooled_count <= n \div Ratio
  BY <1>5, BlocksFit
<1>8. ASSUME NEW b \in 1..Len(s.pooled)
      PROVE  s.pooled[b] = [at |-> base + (b - 1) * Ratio,
                            of |-> Rows(held, (b - 1) * Ratio, b * Ratio)]
  <2> DEFINE lo == (b - 1) * Ratio
             hi == b * Ratio
  <2>1. lo \in Nat /\ hi \in Nat /\ lo <= hi /\ hi <= n
    BY <1>5
  <2>2. s.pooled[b] = PoolAt(y, base, b)
    BY <1>1 DEF IndexHolds
  <2>3. PoolAt(y, base, b) = [at |-> base + lo, of |-> Rows(y, lo, hi)]
    BY DEF PoolAt
  <2> HIDE DEF lo, hi
  <2>4. Rows(held, lo, hi) = Rows(y, lo, hi)
    BY <2>1, RowsOfFirst
  <2> QED BY <2>2, <2>3, <2>4 DEF lo, hi
<1>9. s.raw_start <= s.pooled_count * Ratio /\ Len(s.pooled) = s.pooled_count
  BY <1>1 DEF IndexHolds
<1> HIDE DEF held
<1>10. AttentionHolds(s, held, base)
  BY <1>1, <1>2, <1>3, <1>4, <1>6, <1>7, <1>8, <1>9, Zenon DEF AttentionHolds
<1> QED BY <1>10 DEF held

\* A snapshot drops only what is empty, and a file gives back what it took.
LEMMA AttentionKept ==
  ASSUME NEW y, NEW n \in Nat, NEW base, NEW s, Attending(s, y, n, base)
  PROVE  /\ [s EXCEPT !.keys = IF s.kv_q8 /\ s.token_count = s.cold_tokens THEN <<>> ELSE @,
                      !.pooled = IF s.pooled_count = 0 THEN <<>> ELSE @] = s
         /\ [s EXCEPT !.cold_tokens = IF s.token_count # 0 /\ s.kv_q8 THEN @ ELSE 0] = s
<1>1. /\ s \in Attentions /\ s.token_count = n /\ s.kv_q8 \in BOOLEAN
      /\ KeysHold(s, y, n) /\ IndexHolds(s, y, n)
  BY DEF Attending, Attentions
<1> DEFINE c == s.cold
           h == s.keys
           p == s.pooled
<1>2. /\ s.cold_tokens = Len(c) /\ c \in Seq(Key) /\ h \in Seq(Key) /\ Len(c) + Len(h) = n
      /\ (s.kv_q8 = TRUE => n >= Q8Min) /\ (s.kv_q8 # TRUE => c = <<>>)
  BY <1>1 DEF KeysHold, KeysAre
<1>3. p \in Seq(Pool) /\ Len(p) = s.pooled_count
  BY <1>1 DEF IndexHolds, Attentions
<1> HIDE DEF c, h, p
<1>4. Len(c) \in Nat /\ Len(h) \in Nat /\ Q8Min \in Nat /\ Q8Min > 0
  BY <1>2, LenProperties, Constant
<1>5. s.token_count = s.cold_tokens => h = <<>>
  <2>1. s.token_count = s.cold_tokens => Len(h) = 0
    BY <1>1, <1>2, <1>4
  <2> QED BY <1>2, <2>1, NoKeys
<1>6. s.pooled_count = 0 => p = <<>>
  BY <1>3, EmptySeq
<1>7. s.cold_tokens = IF s.token_count # 0 /\ s.kv_q8 THEN s.cold_tokens ELSE 0
  <2>1. CASE s.kv_q8 = TRUE
    BY <1>1, <1>2, <1>4, <2>1
  <2>2. CASE s.kv_q8 = FALSE
    BY <1>2, <2>2
  <2> QED BY <1>1, <2>1, <2>2
<1> DEFINE h2 == IF s.kv_q8 /\ s.token_count = s.cold_tokens THEN <<>> ELSE h
           p2 == IF s.pooled_count = 0 THEN <<>> ELSE p
           c2 == IF s.token_count # 0 /\ s.kv_q8 THEN s.cold_tokens ELSE 0
<1>8. h2 = h /\ p2 = p /\ c2 = s.cold_tokens
  BY <1>5, <1>6, <1>7
<1> HIDE DEF h2, p2, c2
<1>9. [s EXCEPT !.keys = h2, !.pooled = p2] = s /\ [s EXCEPT !.cold_tokens = c2] = s
  BY <1>1, <1>8 DEF Attentions, h, p
<1> QED BY <1>9 DEF h2, p2, c2, h, p

LEMMA WindowIs ==
  ASSUME NEW y \in Seq(Nat), NEW n \in Nat, n <= Len(y)
  PROVE  Window(y, n) = LastRows(Zeros(3) \o Rows(y, 0, n), 3)
<1> DEFINE T == Int
           pad == Zeros(3)
           W == 3
<1>1. Pads(pad, y, W, T)
  BY ZerosPad
<1>2. Window(y, n) = Rows(Padded(pad, y), n, n + W)
  BY DEF Window
<1> HIDE DEF T, pad, W
<1>3. LastRows(pad \o Rows(y, 0, n), W) = Rows(Padded(pad, y), n, n + W)
  BY <1>1, PaddedLast
<1> QED BY <1>2, <1>3 DEF pad, W

LEMMA ContextsOfFirst ==
  ASSUME NEW y \in Seq(Nat), NEW n \in Nat, n <= Len(y)
  PROVE  Contexts(Rows(y, 0, n)) = Rows(Contexts(y), 0, n)
<1> DEFINE held == Rows(y, 0, n)
           h == Contexts(y)
           T == Seq(Nat)
           r == Rows(h, 0, n)
<1>0. Len(y) \in Nat
  BY LenProperties
<1>1. Len(held) = n /\ \A i \in 1..n : held[i] = y[i]
  BY FirstRows
<1>2. h \in Seq(T) /\ Len(h) = Len(y) /\ \A i \in 1..Len(y) : h[i] = ContextOf(y, i)
  BY ContextsPad
<1> HIDE DEF held, h, T
<1>3. r \in Seq(T) /\ Len(r) = n /\ \A i \in 1..n : r[i] = h[i]
  BY <1>2, CutFacts
<1> HIDE DEF r
<1>4. r = [i \in 1..n |-> r[i]]
  BY <1>3, LenProperties
<1>5. ASSUME NEW i \in 1..n PROVE ContextOf(held, i) = r[i]
  <2>1. held[i] = y[i] /\ (i > 1 => held[i - 1] = y[i - 1]) /\ (i > 2 => held[i - 2] = y[i - 2])
    <3>1. (i > 1 => i - 1 \in 1..n) /\ (i > 2 => i - 2 \in 1..n)
      OBVIOUS
    <3> QED BY <1>1, <3>1
  <2>2. i > 2 => i > 1
    OBVIOUS
  <2>3. ContextOf(held, i) = ContextOf(y, i)
    BY <2>1, <2>2 DEF ContextOf
  <2>4. i \in 1..Len(y)
    BY <1>0
  <2> QED BY <1>2, <1>3, <2>3, <2>4
<1>6. Contexts(held) = [i \in 1..n |-> ContextOf(held, i)]
  BY <1>1 DEF Contexts
<1>7. Contexts(held) = r
  BY <1>4, <1>5, <1>6
<1> QED BY <1>7 DEF held, r, h

LEMMA EmbeddingIs ==
  ASSUME NEW y \in Seq(Nat), NEW n \in Nat, n <= Len(y)
  PROVE  EmbeddingWindow(y, n)
           = LastRows(NoContexts(PleConv) \o Contexts(Rows(y, 0, n)), PleConv)
<1> DEFINE T == Seq(Nat)
           pad == NoContexts(PleConv)
           W == PleConv
           h == Contexts(y)
<1>1. Pads(pad, h, W, T) /\ n <= Len(h)
  BY ContextsPad
<1>2. EmbeddingWindow(y, n) = Rows(Padded(pad, h), n, n + W)
  BY DEF EmbeddingWindow
<1>3. Contexts(Rows(y, 0, n)) = Rows(h, 0, n)
  BY ContextsOfFirst
<1> HIDE DEF T, pad, W, h
<1>4. LastRows(pad \o Rows(h, 0, n), W) = Rows(Padded(pad, h), n, n + W)
  BY <1>1, PaddedLast
<1> QED BY <1>2, <1>3, <1>4 DEF pad, W

LEMMA FirstAgree ==
  ASSUME NEW y \in Seq(Nat), NEW z \in Seq(Nat), NEW n \in Nat, Agree(y, z, n)
  PROVE  Rows(y, 0, n) = Rows(z, 0, n) /\ n <= Len(y) /\ n <= Len(z)
<1>1. 0 \in Nat /\ 0 <= n /\ n <= n
  OBVIOUS
<1> QED BY <1>1, RowsAgree, SMTT(30) DEF Agree

LEMMA SettledAgrees ==
  ASSUME NEW y \in Seq(Nat), NEW z \in Seq(Nat), NEW n \in Nat, Agree(y, z, n),
         NEW s, Settled(s, y, n)
  PROVE  Settled(s, z, n)
<1>1. Rows(y, 0, n) = Rows(z, 0, n) /\ n <= Len(y) /\ n <= Len(z)
  BY FirstAgree
<1>2. Window(y, n) = LastRows(Zeros(3) \o Rows(y, 0, n), 3)
  BY <1>1, WindowIs
<1>3. Window(z, n) = LastRows(Zeros(3) \o Rows(z, 0, n), 3)
  BY <1>1, WindowIs
<1> QED BY <1>1, <1>2, <1>3 DEF Settled

LEMMA DeferredAgrees ==
  ASSUME NEW y \in Seq(Nat), NEW z \in Seq(Nat), NEW n \in Nat, Agree(y, z, n),
         NEW s, Deferred(s, y, n)
  PROVE  Deferred(s, z, n)
<1>1. Rows(y, 0, n) = Rows(z, 0, n) /\ n <= Len(y) /\ n <= Len(z)
  BY FirstAgree
<1>2. Window(y, n) = LastRows(Zeros(3) \o Rows(y, 0, n), 3)
  BY <1>1, WindowIs
<1>3. Window(z, n) = LastRows(Zeros(3) \o Rows(z, 0, n), 3)
  BY <1>1, WindowIs
<1> QED BY <1>1, <1>2, <1>3 DEF Deferred

LEMMA EmbeddedAgrees ==
  ASSUME NEW y \in Seq(Nat), NEW z \in Seq(Nat), NEW n \in Nat, Agree(y, z, n),
         NEW s, Embedded(s, y, n)
  PROVE  Embedded(s, z, n)
<1>1. Rows(y, 0, n) = Rows(z, 0, n) /\ n <= Len(y) /\ n <= Len(z)
  BY FirstAgree
<1>2. EmbeddingWindow(y, n)
        = LastRows(NoContexts(PleConv) \o Contexts(Rows(y, 0, n)), PleConv)
  BY <1>1, EmbeddingIs
<1>3. EmbeddingWindow(z, n)
        = LastRows(NoContexts(PleConv) \o Contexts(Rows(z, 0, n)), PleConv)
  BY <1>1, EmbeddingIs
<1>4. EmbeddingWindow(y, n) = EmbeddingWindow(z, n)
  BY <1>1, <1>2, <1>3
<1>5. \A i \in 1..n : y[i] = z[i]
  BY DEF Agree
<1>6. (n # 0 => n \in 1..n) /\ (n > 1 => n - 1 \in 1..n)
  OBVIOUS
<1>7. (n # 0 => y[n] = z[n]) /\ (n > 1 => y[n - 1] = z[n - 1])
  BY <1>5, <1>6
<1>8. Hashed(s, z, n)
  BY <1>7 DEF Embedded, Hashed
<1> QED BY <1>4, <1>8 DEF Embedded

LEMMA SettledIs ==
  ASSUME NEW y \in Seq(Nat), NEW n \in Nat, n <= Len(y), NEW s, Settled(s, y, n)
  PROVE  LinearHolds(s, Rows(y, 0, n))
<1> DEFINE held == Rows(y, 0, n)
           q == Rows(s.rollback, 0, s.rollback_rows)
<1>1. /\ s \in Recurrents /\ ~s.err /\ s.rollback_rows = 0 /\ s.recurrent = held
      /\ s.initialized \in BOOLEAN
      /\ s.initialized = TRUE => s.convolution = Window(y, n)
      /\ s.initialized # TRUE => n = 0
      /\ s.recurrent \in Seq(Nat) /\ s.rollback \in Seq(Nat)
  BY SettledFacts
<1>2. q = <<>>
  BY <1>1, SubSeqProperties DEF Rows
<1>3. s.recurrent \o q = held
  BY <1>1, <1>2, ConcatEmptySeq
<1>4. held # <<>> => s.convolution = LastRows(Zeros(3) \o held, 3)
  <2>1. Window(y, n) = LastRows(Zeros(3) \o held, 3)
    BY WindowIs
  <2>2. n = 0 => held = <<>>
    <3>1. held \in Seq(Nat) /\ Len(held) = n
      BY FirstRows
    <3> QED BY <3>1, EmptySeq
  <2> QED BY <1>1, <2>1, <2>2
<1> HIDE DEF held
<1> QED BY <1>1, <1>3, <1>4 DEF LinearHolds, held

LEMMA EmbeddedIs ==
  ASSUME NEW y \in Seq(Nat), NEW n \in Nat, n <= Len(y), NEW s, Embedded(s, y, n)
  PROVE  PleHolds(s, Rows(y, 0, n))
<1> DEFINE held == Rows(y, 0, n)
<1>1. s.convolution_initialized \in BOOLEAN
  BY DEF Embedded, Embeddings
<1>2. EmbeddingWindow(y, n) = LastRows(NoContexts(PleConv) \o Contexts(held), PleConv)
  BY EmbeddingIs
<1>3. held \in Seq(Nat) /\ Len(held) = n
  BY FirstRows
<1>4. n = 0 => held = <<>>
  BY <1>3, EmptySeq
<1>5. held # <<>> => s.convolution = EmbeddingWindow(y, n)
  BY <1>1, <1>4 DEF Embedded
<1>6. Contexts(held) = [i \in 1..Len(held) |-> ContextOf(held, i)]
  BY DEF Contexts
<1> HIDE DEF held
<1>7. PleHolds(s, held)
  BY <1>2, <1>5, <1>6 DEF PleHolds
<1> QED BY <1>7 DEF held

-----------------------------------------------------------------------------
(* Layers.                                                                 *)

LayerKinds == [full : BOOLEAN, ple : BOOLEAN]

Put(l, f, p) == [linear |-> l, full |-> f, ple |-> p]
Layered(s) == s = Put(s.linear, s.full, s.ple)

\* The layer holds the first n tokens of y, its first key at position base.
LayerAt(kind, s, y, n, base) ==
  /\ Layered(s)
  /\ IF kind.full THEN Attending(s.full, y, n, base) ELSE Settled(s.linear, y, n)
  /\ kind.ple => Embedded(s.ple, y, n)

\* The same of a checkpoint, which may have left rows to be redone.
LayerAfter(kind, s, y, n, base) ==
  /\ Layered(s)
  /\ IF kind.full THEN Attending(s.full, y, n, base) ELSE Deferred(s.linear, y, n)
  /\ kind.ple => Embedded(s.ple, y, n)

LEMMA LayerPuts ==
  ASSUME NEW s, Layered(s), NEW x
  PROVE  /\ [s EXCEPT !.linear = x] = Put(x, s.full, s.ple)
         /\ [s EXCEPT !.full = x] = Put(s.linear, x, s.ple)
         /\ [s EXCEPT !.ple = x] = Put(s.linear, s.full, x)
<1> DEFINE a == s.linear
           b == s.full
           c == s.ple
<1>1. s = [linear |-> a, full |-> b, ple |-> c]
  BY DEF Layered, Put
<1> HIDE DEF a, b, c
<1>2. [s EXCEPT !.linear = x] = [linear |-> x, full |-> b, ple |-> c]
  BY <1>1
<1>3. [s EXCEPT !.full = x] = [linear |-> a, full |-> x, ple |-> c]
  BY <1>1
<1>4. [s EXCEPT !.ple = x] = [linear |-> a, full |-> b, ple |-> x]
  BY <1>1
<1> QED BY <1>2, <1>3, <1>4 DEF Put, a, b, c

LEMMA PutFields ==
  ASSUME NEW l, NEW f, NEW p
  PROVE  /\ Put(l, f, p).linear = l /\ Put(l, f, p).full = f /\ Put(l, f, p).ple = p
         /\ Layered(Put(l, f, p))
  BY DEF Put, Layered

LEMMA PutAt ==
  ASSUME NEW kind \in LayerKinds, NEW y, NEW n, NEW base, NEW l, NEW f, NEW p,
         kind.full = TRUE => Attending(f, y, n, base),
         kind.full = FALSE => Settled(l, y, n),
         kind.ple = TRUE => Embedded(p, y, n)
  PROVE  LayerAt(kind, Put(l, f, p), y, n, base)
<1>1. kind.full \in BOOLEAN /\ kind.ple \in BOOLEAN
  BY DEF LayerKinds
<1>2. /\ Put(l, f, p).linear = l /\ Put(l, f, p).full = f /\ Put(l, f, p).ple = p
      /\ Layered(Put(l, f, p))
  BY PutFields
<1> QED BY <1>1, <1>2 DEF LayerAt

LEMMA LayerParts ==
  ASSUME NEW kind \in LayerKinds, NEW y, NEW n, NEW base, NEW s, LayerAt(kind, s, y, n, base)
  PROVE  /\ Layered(s) /\ kind.full \in BOOLEAN /\ kind.ple \in BOOLEAN
         /\ kind.full = TRUE => Attending(s.full, y, n, base)
         /\ kind.full = FALSE => Settled(s.linear, y, n)
         /\ kind.ple = TRUE => Embedded(s.ple, y, n)
  BY DEF LayerAt, LayerKinds

LEMMA NothingToRedo ==
  ASSUME NEW kind \in LayerKinds, NEW y, NEW n, NEW base, NEW s, LayerAt(kind, s, y, n, base)
  PROVE  MaterializeLayer(kind, s) = s
<1>1. Layered(s) /\ kind.full \in BOOLEAN /\ (kind.full = FALSE => Settled(s.linear, y, n))
  BY LayerParts
<1>2. CASE kind.full = TRUE
  BY <1>2 DEF MaterializeLayer
<1>3. CASE kind.full = FALSE
  <2> DEFINE x == MaterializeRollback(s.linear)
  <2>1. x = s.linear
    BY <1>1, <1>3, SettledFacts
  <2>2. MaterializeLayer(kind, s) = [s EXCEPT !.linear = x]
    BY <1>3 DEF MaterializeLayer
  <2> HIDE DEF x
  <2>3. [s EXCEPT !.linear = x] = Put(x, s.full, s.ple)
    BY <1>1, LayerPuts
  <2> QED BY <1>1, <2>1, <2>2, <2>3 DEF Layered
<1> QED BY <1>1, <1>2, <1>3

LEMMA LayerDecodeHolds ==
  ASSUME NEW kind \in LayerKinds, NEW y \in Seq(Nat), NEW n \in Nat, n + 1 <= Len(y),
         NEW base \in Int, NEW s, LayerAt(kind, s, y, n, base), NEW o \in Options
  PROVE  LayerAt(kind, LayerDecode(kind, s, o, y[n + 1]), y, n + 1, base)
<1> DEFINE tok == y[n + 1]
           e == PleDecode(s.ple, tok)
           pl == IF kind.ple THEN e ELSE s.ple
           p == IF kind.ple THEN [s EXCEPT !.ple = e] ELSE s
           f == AttentionDecode(s.full, o, tok)
           l == LinearDecode(s.linear, tok)
<1>1. /\ Layered(s) /\ kind.full \in BOOLEAN /\ kind.ple \in BOOLEAN
      /\ kind.full = TRUE => Attending(s.full, y, n, base)
      /\ kind.full = FALSE => Settled(s.linear, y, n)
      /\ kind.ple = TRUE => Embedded(s.ple, y, n)
  BY LayerParts
<1>2. kind.ple = TRUE => Embedded(e, y, n + 1)
  BY <1>1, PleDecodeHolds
<1>3. kind.full = TRUE => Attending(f, y, n + 1, base)
  BY <1>1, DecodeHolds
<1>4. kind.full = FALSE => Settled(l, y, n + 1)
  BY <1>1, LinearDecodeHolds DEF Started
<1>5. MaterializeLayer(kind, s) = s
  BY NothingToRedo
<1>6. LayerDecode(kind, s, o, tok) = IF kind.full THEN [p EXCEPT !.full = AttentionDecode(@, o, tok)]
                                     ELSE [p EXCEPT !.linear = LinearDecode(@, tok)]
  BY <1>5 DEF LayerDecode
<1> HIDE DEF e
<1>7. p = Put(s.linear, s.full, pl)
  BY <1>1, LayerPuts DEF Layered
<1> HIDE DEF p, pl
<1>8. p.full = s.full /\ p.linear = s.linear /\ p.ple = pl /\ Layered(p)
  BY <1>7, PutFields
<1>9. kind.ple = TRUE => Embedded(pl, y, n + 1)
  BY <1>2 DEF pl
<1> HIDE DEF tok
<1>10. CASE kind.full = TRUE
  <2>1. LayerDecode(kind, s, o, tok) = [p EXCEPT !.full = f]
    BY <1>6, <1>8, <1>10
  <2> HIDE DEF f
  <2>2. [p EXCEPT !.full = f] = Put(s.linear, f, pl)
    BY <1>8, LayerPuts
  <2>3. LayerAt(kind, Put(s.linear, f, pl), y, n + 1, base)
    BY <1>3, <1>9, <1>10, PutAt
  <2> QED BY <2>1, <2>2, <2>3 DEF tok
<1>11. CASE kind.full = FALSE
  <2>1. LayerDecode(kind, s, o, tok) = [p EXCEPT !.linear = l]
    BY <1>6, <1>8, <1>11
  <2> HIDE DEF l
  <2>2. [p EXCEPT !.linear = l] = Put(l, s.full, pl)
    BY <1>8, LayerPuts
  <2>3. LayerAt(kind, Put(l, s.full, pl), y, n + 1, base)
    BY <1>4, <1>9, <1>11, PutAt
  <2> QED BY <2>1, <2>2, <2>3 DEF tok
<1> QED BY <1>1, <1>10, <1>11

LEMMA LayerVerifyHolds ==
  ASSUME NEW kind \in LayerKinds, NEW y \in Seq(Nat), NEW n \in Nat, NEW k \in Nat, k > 0,
         n + k <= Len(y), NEW base \in Int, NEW s, LayerAt(kind, s, y, n, base),
         NEW o \in Options, NEW i \in 1..k,
         NEW c, c = LayerVerify(kind, s, o, Rows(y, n, n + k))
  PROVE  LayerAfter(kind, c[i], y, n + i, base) /\ (i = k => LayerAt(kind, c[i], y, n + i, base))
<1> DEFINE toks == Rows(y, n, n + k)
           e == PleVerify(s.ple, toks)
           f == AttentionVerify(s.full, o, toks)
           l == LinearVerify(s.linear, o, toks)
           pl == IF kind.ple THEN e[i] ELSE NewPle
           fl == IF kind.full THEN f[i] ELSE NewAttention
           ll == IF kind.full THEN NewLinear ELSE l[i]
<1>1. /\ Layered(s) /\ kind.full \in BOOLEAN /\ kind.ple \in BOOLEAN
      /\ kind.full = TRUE => Attending(s.full, y, n, base)
      /\ kind.full = FALSE => Settled(s.linear, y, n)
      /\ kind.ple = TRUE => Embedded(s.ple, y, n)
  BY LayerParts
<1>2. Len(toks) = k
  BY NextRows
<1>3. kind.ple = TRUE => Embedded(e[i], y, n + i)
  BY <1>1, PleVerifyHolds
<1>4. kind.full = TRUE => Attending(f[i], y, n + i, base)
  BY <1>1, VerifyHolds
<1>5. kind.full = FALSE => Deferred(l[i], y, n + i) /\ (i = k => Settled(l[i], y, n + i))
  BY <1>1, LinearVerifyHolds
<1>6. c[i] = [linear |-> IF kind.full THEN NewLinear ELSE (IF kind.full THEN <<>> ELSE l)[i],
              full |-> IF kind.full THEN (IF kind.full THEN f ELSE <<>>)[i] ELSE NewAttention,
              ple |-> IF kind.ple THEN (IF kind.ple THEN e ELSE <<>>)[i] ELSE NewPle]
  <2> HIDE DEF e, f, l
  <2> QED BY <1>2 DEF LayerVerify, e, f, l
<1> HIDE DEF toks, e, f, l
<1>7. c[i] = Put(ll, fl, pl)
  BY <1>1, <1>6 DEF Put
<1>8. /\ kind.full = TRUE => Attending(fl, y, n + i, base)
      /\ kind.full = FALSE => Deferred(ll, y, n + i) /\ (i = k => Settled(ll, y, n + i))
      /\ kind.ple = TRUE => Embedded(pl, y, n + i)
  BY <1>3, <1>4, <1>5
<1> HIDE DEF pl, fl, ll
<1>9. c[i].linear = ll /\ c[i].full = fl /\ c[i].ple = pl /\ Layered(c[i])
  BY <1>7, PutFields
<1>10. LayerAfter(kind, c[i], y, n + i, base)
  BY <1>1, <1>8, <1>9 DEF LayerAfter
<1>11. i = k => LayerAt(kind, c[i], y, n + i, base)
  BY <1>1, <1>8, <1>9 DEF LayerAt
<1> QED BY <1>10, <1>11

LEMMA LayerRedoes ==
  ASSUME NEW kind \in LayerKinds, NEW y, NEW n, NEW base, NEW s, LayerAfter(kind, s, y, n, base)
  PROVE  LayerAt(kind, MaterializeLayer(kind, s), y, n, base)
<1> DEFINE x == MaterializeRollback(s.linear)
<1>1. /\ Layered(s) /\ kind.full \in BOOLEAN /\ kind.ple \in BOOLEAN
      /\ kind.full = TRUE => Attending(s.full, y, n, base)
      /\ kind.full = FALSE => Deferred(s.linear, y, n)
      /\ kind.ple = TRUE => Embedded(s.ple, y, n)
  BY DEF LayerAfter, LayerKinds
<1>2. CASE kind.full = TRUE
  BY <1>1, <1>2 DEF MaterializeLayer, LayerAt
<1>3. CASE kind.full = FALSE
  <2>1. Settled(x, y, n)
    BY <1>1, <1>3, SettlesHolds
  <2>2. MaterializeLayer(kind, s) = [s EXCEPT !.linear = x]
    BY <1>3 DEF MaterializeLayer
  <2> HIDE DEF x
  <2>3. [s EXCEPT !.linear = x] = Put(x, s.full, s.ple)
    BY <1>1, LayerPuts
  <2>4. LayerAt(kind, Put(x, s.full, s.ple), y, n, base)
    BY <1>1, <1>3, <2>1, PutAt
  <2> QED BY <2>2, <2>3, <2>4
<1> QED BY <1>1, <1>2, <1>3

LEMMA LayerPrefillHolds ==
  ASSUME NEW kind \in LayerKinds, NEW y \in Seq(Nat), NEW n \in Nat, NEW k \in Nat, k > 0,
         n + k <= Len(y), NEW base \in Int, NEW s, LayerAt(kind, s, y, n, base),
         NEW o \in Options
  PROVE  LayerAt(kind, LayerPrefill(kind, s, o, Rows(y, n, n + k)), y, n + k, base)
<1> DEFINE toks == Rows(y, n, n + k)
           e == PleVerify(s.ple, toks)[k]
           pl == IF kind.ple THEN e ELSE s.ple
           p == IF kind.ple THEN [s EXCEPT !.ple = e] ELSE s
           f == PrefillPieces(s.full, o, toks)
           l == LinearPrefill(s.linear, o, toks)
           t == LayerPrefill(kind, s, o, toks)
<1>1. /\ Layered(s) /\ kind.full \in BOOLEAN /\ kind.ple \in BOOLEAN
      /\ kind.full = TRUE => Attending(s.full, y, n, base)
      /\ kind.full = FALSE => Settled(s.linear, y, n)
      /\ kind.ple = TRUE => Embedded(s.ple, y, n)
  BY LayerParts
<1>2. Len(toks) = k /\ (k = 1 => toks[1] = y[n + 1])
  BY NextRows
<1>3. CASE k = 1
  <2>1. t = LayerDecode(kind, s, o, y[n + 1])
    BY <1>2, <1>3 DEF LayerPrefill
  <2>2. n + 1 <= Len(y)
    BY <1>3
  <2> HIDE DEF t
  <2>3. LayerAt(kind, t, y, n + 1, base)
    BY <2>1, <2>2, LayerDecodeHolds
  <2> QED BY <1>3, <2>3 DEF t
<1>4. CASE k # 1
  <2>1. kind.ple = TRUE => Embedded(e, y, n + k)
    <3>1. k \in 1..k
      OBVIOUS
    <3> QED BY <1>1, <3>1, PleVerifyHolds
  <2>2. kind.full = TRUE => Attending(f, y, n + k, base)
    BY <1>1, PiecesHold
  <2>3. kind.full = FALSE => Settled(l, y, n + k)
    BY <1>1, LinearPrefillHolds
  <2>4. t = IF kind.full THEN [p EXCEPT !.full = PrefillPieces(@, o, toks)]
            ELSE [p EXCEPT !.linear = LinearPrefill(@, o, toks)]
    BY <1>2, <1>4 DEF LayerPrefill
  <2> HIDE DEF e, t
  <2>5. p = Put(s.linear, s.full, pl)
    BY <1>1, LayerPuts DEF Layered
  <2> HIDE DEF p
  <2>6. p.full = s.full /\ p.linear = s.linear /\ p.ple = pl /\ Layered(p)
    BY <2>5, PutFields
  <2>7. kind.ple = TRUE => Embedded(pl, y, n + k)
    BY <2>1
  <2> HIDE DEF pl, toks
  <2>8. CASE kind.full = TRUE
    <3>1. t = [p EXCEPT !.full = f]
      BY <2>4, <2>6, <2>8
    <3> HIDE DEF f
    <3>2. [p EXCEPT !.full = f] = Put(s.linear, f, pl)
      BY <2>6, LayerPuts
    <3>3. LayerAt(kind, Put(s.linear, f, pl), y, n + k, base)
      BY <2>2, <2>7, <2>8, PutAt
    <3> QED BY <3>1, <3>2, <3>3 DEF t, toks
  <2>9. CASE kind.full = FALSE
    <3>1. t = [p EXCEPT !.linear = l]
      BY <2>4, <2>6, <2>9
    <3> HIDE DEF l
    <3>2. [p EXCEPT !.linear = l] = Put(l, s.full, pl)
      BY <2>6, LayerPuts
    <3>3. LayerAt(kind, Put(l, s.full, pl), y, n + k, base)
      BY <2>3, <2>7, <2>9, PutAt
    <3> QED BY <3>1, <3>2, <3>3 DEF t, toks
  <2> QED BY <1>1, <2>8, <2>9
<1> QED BY <1>3, <1>4

LEMMA PairHolds ==
  ASSUME NEW kind \in LayerKinds, NEW y \in Seq(Nat), NEW n \in Nat, n + 1 <= Len(y),
         NEW base \in Int, NEW pair, NEW toks, NEW r \in DOMAIN pair,
         LayerAt(kind, pair[r], y, n, base), toks[r] = y[n + 1], NEW o \in Options
  PROVE  LayerAt(kind, PairDecode(kind, pair, o, toks)[r], y, n + 1, base)
<1> DEFINE s == pair[r]
           fulls == [q \in DOMAIN pair |-> pair[q].full]
           lins == [q \in DOMAIN pair |-> pair[q].linear]
           pl == IF kind.ple THEN PleDecode(s.ple, toks[r]) ELSE s.ple
           f == AttentionDecodeMulti(fulls, o, toks)[r]
           l == LinearDecodeMulti(lins, toks)[r]
           t == PairDecode(kind, pair, o, toks)[r]
<1>1. /\ Layered(s) /\ kind.full \in BOOLEAN /\ kind.ple \in BOOLEAN
      /\ kind.full = TRUE => Attending(s.full, y, n, base)
      /\ kind.full = FALSE => Settled(s.linear, y, n)
      /\ kind.ple = TRUE => Embedded(s.ple, y, n)
  BY LayerParts
<1>2. kind.ple = TRUE => Embedded(pl, y, n + 1)
  BY <1>1, PleDecodeHolds
<1>3. r \in DOMAIN fulls /\ fulls[r] = s.full /\ r \in DOMAIN lins /\ lins[r] = s.linear
  OBVIOUS
<1>4. t = IF kind.full THEN [s EXCEPT !.ple = pl, !.full = f]
          ELSE [s EXCEPT !.ple = pl, !.linear = l]
  BY Zenon DEF PairDecode
<1> HIDE DEF fulls, lins, s, t, pl
<1>5. kind.full = TRUE => Attending(f, y, n + 1, base)
  BY <1>1, <1>3, PairedHolds
<1>6. kind.full = FALSE => Settled(l, y, n + 1)
  BY <1>1, <1>3, LinearPairHolds DEF Started
<1> HIDE DEF f, l
<1>7. s = [linear |-> s.linear, full |-> s.full, ple |-> s.ple]
  BY <1>1 DEF Layered, Put
<1>8. CASE kind.full = TRUE
  <2>1. t = Put(s.linear, f, pl)
    BY <1>4, <1>7, <1>8 DEF Put
  <2>2. LayerAt(kind, Put(s.linear, f, pl), y, n + 1, base)
    BY <1>2, <1>5, <1>8, PutAt
  <2> QED BY <2>1, <2>2 DEF t
<1>9. CASE kind.full = FALSE
  <2>1. t = Put(l, s.full, pl)
    BY <1>4, <1>7, <1>9 DEF Put
  <2>2. LayerAt(kind, Put(l, s.full, pl), y, n + 1, base)
    BY <1>2, <1>6, <1>9, PutAt
  <2> QED BY <2>1, <2>2 DEF t
<1> QED BY <1>1, <1>8, <1>9

LEMMA LayerMultiHolds ==
  ASSUME NEW kind \in LayerKinds, NEW y \in Seq(Nat), NEW n \in Nat, n + 1 <= Len(y),
         NEW base \in Int, NEW T, NEW states \in Seq(T), NEW toks \in Seq(Nat),
         Len(toks) = Len(states), NEW r \in 1..Len(states),
         LayerAt(kind, states[r], y, n, base), toks[r] = y[n + 1], NEW o \in Options
  PROVE  LayerAt(kind, LayerDecodeMulti(kind, states, o, toks)[r], y, n + 1, base)
<1> DEFINE first == r - ((r - 1) % 2)
           lo == first - 1
           hi == first + 1
           at == r - first + 1
           N == Len(states)
           pair == Rows(states, lo, hi)
           two == Rows(toks, lo, hi)
           t == LayerDecodeMulti(kind, states, o, toks)[r]
<1>0. N \in Nat /\ r \in Nat /\ r >= 1
  BY LenProperties
<1>1. t = IF o.pairs /\ first < N THEN PairDecode(kind, pair, o, two)[at]
          ELSE LayerDecode(kind, states[r], o, toks[r])
  BY DEF LayerDecodeMulti
<1>2. first \in Nat /\ 1 <= first /\ (r = first \/ r = first + 1)
  <2> DEFINE q == r - 1
             m == q % 2
  <2>1. q \in Nat /\ r = q + 1
    BY <1>0
  <2> HIDE DEF q
  <2>2. m \in {0, 1} /\ m <= q
    <3>1. m \in 0..1
      BY <2>1
    <3>2. q = 0 => m = 0
      OBVIOUS
    <3> HIDE DEF m
    <3> QED BY <2>1, <3>1, <3>2
  <2>3. first = r - m
    BY DEF q
  <2> HIDE DEF m, first
  <2> QED BY <2>1, <2>2, <2>3, SMTT(30)
<1> HIDE DEF first, t
<1>3. CASE o.pairs /\ first < N
  <2>1. lo \in Nat /\ hi \in Nat /\ lo <= hi /\ hi <= N /\ hi - lo = 2 /\ at \in 1..2 /\ lo + at = r
    BY <1>0, <1>2, <1>3
  <2> HIDE DEF lo, hi, at
  <2>2. pair \in Seq(T) /\ Len(pair) = hi - lo /\ \A i \in 1..(hi - lo) : pair[i] = states[lo + i]
    BY <2>1, RowsFacts, ZenonT(30)
  <2>3. two \in Seq(Nat) /\ Len(two) = hi - lo /\ \A i \in 1..(hi - lo) : two[i] = toks[lo + i]
    <3> DEFINE k == 2
    <3>1. hi = lo + k /\ k \in Nat /\ lo + k <= Len(toks) /\ hi - lo = k /\ lo \in Nat
      BY <2>1, SMTT(30)
    <3> HIDE DEF k
    <3>2. /\ Rows(toks, lo, lo + k) \in Seq(Nat) /\ Len(Rows(toks, lo, lo + k)) = k
          /\ \A i \in 1..k : Rows(toks, lo, lo + k)[i] = toks[lo + i]
      BY <3>1, NextRows
    <3> QED BY <3>1, <3>2, Zenon
  <2> HIDE DEF pair, two, N
  <2>4. DOMAIN pair = 1..2
    BY <2>1, <2>2, LenProperties
  <2>5. at \in DOMAIN pair /\ pair[at] = states[r] /\ two[at] = toks[r]
    BY <2>1, <2>2, <2>3, <2>4
  <2>6. LayerAt(kind, pair[at], y, n, base) /\ two[at] = y[n + 1]
    BY <2>5
  <2>7. LayerAt(kind, PairDecode(kind, pair, o, two)[at], y, n + 1, base)
    BY <2>5, <2>6, PairHolds
  <2> QED BY <1>1, <1>3, <2>7 DEF t
<1>4. CASE ~(o.pairs /\ first < N)
  <2>1. t = LayerDecode(kind, states[r], o, y[n + 1])
    BY <1>1, <1>4
  <2>2. LayerAt(kind, t, y, n + 1, base)
    BY <2>1, LayerDecodeHolds
  <2> QED BY <2>2 DEF t
<1> QED BY <1>3, <1>4

LEMMA LayerPrepared ==
  ASSUME NEW kind \in LayerKinds, NEW y \in Seq(Nat), NEW n \in Nat, n <= Len(y),
         NEW base, NEW s, LayerAt(kind, s, y, n, base)
  PROVE  LayerAt(kind, PrepareLayer(kind, s), y, n, base)
<1> DEFINE x == MaterializePools(s.full, s.full.token_count)
<1>1. /\ Layered(s) /\ kind.full \in BOOLEAN /\ kind.ple \in BOOLEAN
      /\ kind.full = TRUE => Attending(s.full, y, n, base)
      /\ kind.full = FALSE => Settled(s.linear, y, n)
      /\ kind.ple = TRUE => Embedded(s.ple, y, n)
  BY LayerParts
<1>2. MaterializeLayer(kind, s) = s
  BY NothingToRedo
<1>3. CASE kind.full = TRUE
  <2>1. Attending(x, y, n, base)
    BY <1>1, <1>3, PoolsAttend
  <2>2. PrepareLayer(kind, s) = [s EXCEPT !.full = x]
    BY <1>2, <1>3 DEF PrepareLayer
  <2> HIDE DEF x
  <2>3. [s EXCEPT !.full = x] = Put(s.linear, x, s.ple)
    BY <1>1, LayerPuts
  <2>4. LayerAt(kind, Put(s.linear, x, s.ple), y, n, base)
    BY <1>1, <1>3, <2>1, PutAt
  <2> QED BY <2>2, <2>3, <2>4
<1>4. CASE kind.full = FALSE
  BY <1>2, <1>4 DEF PrepareLayer
<1> QED BY <1>1, <1>3, <1>4

SnapshotLinear(s) ==
  IF ~s.initialized THEN [NewLinear EXCEPT !.err = s.err]
  ELSE [s EXCEPT !.rollback = IF s.rollback_rows = 0 THEN <<>> ELSE @]

SnapshotFull(s) ==
  [s EXCEPT !.keys = IF s.kv_q8 /\ s.token_count = s.cold_tokens THEN <<>> ELSE @,
            !.pooled = IF s.pooled_count = 0 THEN <<>> ELSE @]

SnapshotEmbedding(s) ==
  [s EXCEPT !.convolution = IF s.convolution_initialized THEN @ ELSE <<>>]

LEMMA SnapshotIs ==
  ASSUME NEW s
  PROVE  SnapshotLayer(s)
           = Put(SnapshotLinear(s.linear), SnapshotFull(s.full), SnapshotEmbedding(s.ple))
  BY Zenon DEF SnapshotLayer, SnapshotLinear, SnapshotFull, SnapshotEmbedding, Put

LEMMA LinearSnapshot ==
  ASSUME NEW y \in Seq(Nat), NEW n, NEW s, Settled(s, y, n), NEW t, t = SnapshotLinear(s)
  PROVE  Settled(t, y, n) /\ Settled([t EXCEPT !.rollback = <<>>, !.rollback_rows = 0], y, n)
<1> DEFINE u == [t EXCEPT !.rollback = <<>>, !.rollback_rows = 0]
<1>1. /\ s \in Recurrents /\ s.err = FALSE /\ s.rollback_rows = 0 /\ s.recurrent = Rows(y, 0, n)
      /\ s.initialized \in BOOLEAN
      /\ s.initialized = TRUE => s.convolution = Window(y, n)
      /\ s.initialized # TRUE => n = 0
  BY SettledFacts
<1>2. <<>> \in Seq(Nat) /\ <<>> \in Seq(Int) /\ 0 \in Nat
  BY EmptySeq
<1>3. /\ t \in Recurrents /\ t.err = FALSE /\ t.rollback_rows = 0 /\ t.recurrent = Rows(y, 0, n)
      /\ t.initialized = s.initialized
      /\ s.initialized = TRUE => t.convolution = s.convolution
  <2>1. CASE s.initialized = TRUE
    <3>1. t = [s EXCEPT !.rollback = <<>>]
      BY <1>1, <2>1 DEF SnapshotLinear
    <3> QED BY <1>1, <1>2, <3>1 DEF Recurrents
  <2>2. CASE s.initialized = FALSE
    <3>1. t = [NewLinear EXCEPT !.err = FALSE]
      BY <1>1, <2>2 DEF SnapshotLinear
    <3>2. Rows(y, 0, n) = <<>>
      <4>1. n = 0
        BY <1>1, <2>2
      <4> QED BY <4>1, SubSeqProperties, EmptySeq DEF Rows
    <3> QED BY <1>2, <2>2, <3>1, <3>2 DEF NewLinear, Recurrents
  <2> QED BY <1>1, <2>1, <2>2
<1>4. Settled(t, y, n)
  BY <1>1, <1>3 DEF Settled
<1>5. /\ u \in Recurrents /\ u.err = FALSE /\ u.rollback_rows = 0 /\ u.recurrent = t.recurrent
      /\ u.initialized = t.initialized /\ u.convolution = t.convolution
  BY <1>2, <1>3 DEF Recurrents
<1> HIDE DEF u
<1>6. Settled(u, y, n)
  BY <1>1, <1>3, <1>5 DEF Settled
<1> QED BY <1>4, <1>6 DEF u

LEMMA EmbeddingSnapshot ==
  ASSUME NEW y, NEW n, NEW s, Embedded(s, y, n)
  PROVE  Embedded(SnapshotEmbedding(s), y, n)
<1> DEFINE w == IF s.convolution_initialized THEN s.convolution ELSE <<>>
           t == SnapshotEmbedding(s)
<1>1. s \in Embeddings /\ s.convolution_initialized \in BOOLEAN /\ s.convolution \in Seq(Seq(Nat))
  BY DEF Embedded, Embeddings
<1>2. w \in Seq(Seq(Nat))
  BY <1>1, EmptySeq
<1>3. t = [s EXCEPT !.convolution = w]
  BY DEF SnapshotEmbedding
<1>4. s.convolution_initialized = TRUE => w = s.convolution
  OBVIOUS
<1> HIDE DEF w, t
<1>5. /\ t \in Embeddings /\ t.convolution = w
      /\ t.convolution_initialized = s.convolution_initialized
      /\ t.previous = s.previous /\ t.segment_length = s.segment_length
      /\ t.initialized = s.initialized
  BY <1>1, <1>2, <1>3 DEF Embeddings
<1>6. Hashed(t, y, n)
  BY <1>5 DEF Embedded, Hashed
<1>7. Embedded(t, y, n)
  BY <1>1, <1>4, <1>5, <1>6 DEF Embedded
<1> QED BY <1>7 DEF t

LEMMA LayerSnapshot ==
  ASSUME NEW kind \in LayerKinds, NEW y \in Seq(Nat), NEW n \in Nat, NEW base, NEW s,
         LayerAt(kind, s, y, n, base)
  PROVE  /\ LayerAt(kind, SnapshotLayer(s), y, n, base)
         /\ kind.full = TRUE => SnapshotLayer(s).full = s.full
         /\ kind.full = TRUE => LoadedLayer(SavedLayer(s)).full = s.full
         /\ LayerAt(kind, LoadedLayer(SavedLayer(s)), y, n, base)
<1> DEFINE l == SnapshotLinear(s.linear)
           f == SnapshotFull(s.full)
           e == SnapshotEmbedding(s.ple)
           l2 == [l EXCEPT !.rollback = <<>>, !.rollback_rows = 0]
           f2 == [f EXCEPT !.cold_tokens = IF f.token_count # 0 /\ f.kv_q8 THEN @ ELSE 0]
<1>1. /\ Layered(s) /\ kind.full \in BOOLEAN /\ kind.ple \in BOOLEAN
      /\ kind.full = TRUE => Attending(s.full, y, n, base)
      /\ kind.full = FALSE => Settled(s.linear, y, n)
      /\ kind.ple = TRUE => Embedded(s.ple, y, n)
  BY LayerParts
<1>2. SnapshotLayer(s) = Put(l, f, e)
  BY SnapshotIs
<1>3. kind.full = FALSE => Settled(l, y, n) /\ Settled(l2, y, n)
  BY <1>1, LinearSnapshot
<1>4. kind.ple = TRUE => Embedded(e, y, n)
  BY <1>1, EmbeddingSnapshot
<1>5. kind.full = TRUE => f = s.full
  BY <1>1, AttentionKept DEF SnapshotFull
<1>6. kind.full = TRUE => f2 = s.full
  <2>1. SUFFICES ASSUME kind.full = TRUE PROVE f2 = s.full
    OBVIOUS
  <2>2. f = s.full
    BY <1>5, <2>1
  <2> HIDE DEF f
  <2>3. [s.full EXCEPT !.cold_tokens = IF s.full.token_count # 0 /\ s.full.kv_q8 THEN @ ELSE 0]
          = s.full
    BY <1>1, <2>1, AttentionKept
  <2> QED BY <2>2, <2>3
<1>7. SavedLayer(s) = Put(l2, f, e)
  <2>1. SavedLayer(s) = [Put(l, f, e) EXCEPT !.linear.rollback = <<>>, !.linear.rollback_rows = 0]
    BY <1>2 DEF SavedLayer
  <2> HIDE DEF l, f, e
  <2> QED BY <2>1 DEF Put
<1> HIDE DEF l2
<1>8. LoadedLayer(SavedLayer(s)) = Put(l2, f2, e)
  <2> HIDE DEF l, f, e
  <2> QED BY <1>7 DEF LoadedLayer, Put
<1> HIDE DEF l, f, e, f2
<1>9. LayerAt(kind, Put(l, f, e), y, n, base)
  BY <1>1, <1>3, <1>4, <1>5, PutAt
<1>10. LayerAt(kind, Put(l2, f2, e), y, n, base)
  BY <1>1, <1>3, <1>4, <1>6, PutAt
<1>11. Put(l, f, e).full = f /\ Put(l2, f2, e).full = f2
  BY PutFields
<1> QED BY <1>2, <1>5, <1>6, <1>8, <1>9, <1>10, <1>11

LEMMA LayerAgrees ==
  ASSUME NEW kind \in LayerKinds, NEW y \in Seq(Nat), NEW z \in Seq(Nat), NEW n \in Nat,
         Agree(y, z, n), NEW base \in Int, NEW s
  PROVE  /\ LayerAt(kind, s, y, n, base) => LayerAt(kind, s, z, n, base)
         /\ LayerAfter(kind, s, y, n, base) => LayerAfter(kind, s, z, n, base)
<1>1. kind.full \in BOOLEAN /\ kind.ple \in BOOLEAN
  BY DEF LayerKinds
<1>2. /\ Attending(s.full, y, n, base) => Attending(s.full, z, n, base)
      /\ Settled(s.linear, y, n) => Settled(s.linear, z, n)
      /\ Deferred(s.linear, y, n) => Deferred(s.linear, z, n)
      /\ Embedded(s.ple, y, n) => Embedded(s.ple, z, n)
  BY AttendingAgrees, SettledAgrees, DeferredAgrees, EmbeddedAgrees
<1> QED BY <1>1, <1>2 DEF LayerAt, LayerAfter

LEMMA LayerIs ==
  ASSUME NEW kind \in LayerKinds, NEW y \in Seq(Nat), NEW n \in Nat, n <= Len(y),
         NEW base \in Int, NEW s, LayerAt(kind, s, y, n, base)
  PROVE  LayerHolds(kind, s, Rows(y, 0, n))
<1>1. /\ kind.full \in BOOLEAN /\ kind.ple \in BOOLEAN
      /\ kind.full = TRUE => Attending(s.full, y, n, base)
      /\ kind.full = FALSE => Settled(s.linear, y, n)
      /\ kind.ple = TRUE => Embedded(s.ple, y, n)
  BY LayerParts
<1>2. kind.full = TRUE => AttentionHolds(s.full, Rows(y, 0, n), s.full.position_base)
  <2>1. SUFFICES ASSUME kind.full = TRUE
                 PROVE  AttentionHolds(s.full, Rows(y, 0, n), s.full.position_base)
    OBVIOUS
  <2>2. s.full.position_base = base
    BY <1>1, <2>1 DEF Attending
  <2>3. AttentionHolds(s.full, Rows(y, 0, n), base)
    BY <1>1, <2>1, AttendingIs
  <2> QED BY <2>2, <2>3
<1>3. kind.full = FALSE => LinearHolds(s.linear, Rows(y, 0, n))
  BY <1>1, SettledIs
<1>4. kind.ple = TRUE => PleHolds(s.ple, Rows(y, 0, n))
  BY <1>1, EmbeddedIs
<1> QED BY <1>1, <1>2, <1>3, <1>4 DEF LayerHolds

LEMMA NoneAttended ==
  ASSUME NEW y \in Seq(Nat), NEW base \in Int, NEW s,
         s = [NewAttention EXCEPT !.position_base = base]
  PROVE  Attending(s, y, 0, base)
<1>1. <<>> \in Seq(Nat) /\ <<>> \in Seq(Key) /\ <<>> \in Seq(Pool) /\ Len(<<>>) = 0 /\ 0 \in Nat
  BY EmptySeq
<1>2. /\ s \in Attentions /\ s.err = FALSE /\ s.token_count = 0 /\ s.position_base = base
      /\ s.keys = <<>> /\ s.cold = <<>> /\ s.kv_q8 = FALSE /\ s.cold_tokens = 0
      /\ s.raw = <<>> /\ s.raw_start = 0 /\ s.pooled = <<>> /\ s.pooled_count = 0
  BY <1>1 DEF NewAttention, Attentions
<1>3. KeysHold(s, y, 0)
  <2> DEFINE none == <<>>
  <2>1. none \in Seq(Key) /\ Len(none) = 0 /\ KeysFrom(none, y, base, 0)
    BY NoneAreKeys
  <2>2. s.keys = none /\ s.cold = none /\ s.kv_q8 = FALSE /\ s.cold_tokens = 0
        /\ s.position_base = base
    BY <1>2
  <2> HIDE DEF none
  <2>3. KeysAre(none, none, FALSE, y, base, 0)
    BY <2>1 DEF KeysAre
  <2> QED BY <2>1, <2>2, <2>3 DEF KeysHold
<1>4. Rows(y, 0, 0) = <<>>
  BY SubSeqProperties, EmptySeq DEF Rows
<1>5. 0 * Ratio = 0
  BY Constant
<1>6. \A b \in 1..Len(s.pooled) : FALSE
  BY <1>1, <1>2
<1>7. IndexHolds(s, y, 0)
  BY <1>1, <1>2, <1>4, <1>5, <1>6 DEF IndexHolds
<1> QED BY <1>2, <1>3, <1>7 DEF Attending

LEMMA NewLayerAt ==
  ASSUME NEW kind \in LayerKinds, NEW y \in Seq(Nat)
  PROVE  LayerAt(kind, NewLayer, y, 0, 0)
<1>1. NewAttention = [NewAttention EXCEPT !.position_base = 0]
  BY DEF NewAttention
<1>2. Attending(NewAttention, y, 0, 0)
  <2>1. 0 \in Int
    OBVIOUS
  <2> QED BY <1>1, <2>1, NoneAttended
<1>3. Rows(y, 0, 0) = <<>>
  BY SubSeqProperties, EmptySeq DEF Rows
<1>4. Settled(NewLinear, y, 0)
  BY <1>3, NewLinearTyped DEF Settled, NewLinear
<1>5. Embedded(NewPle, y, 0)
  <2>1. NewPle \in Embeddings
    BY EmptySeq DEF NewPle, Embeddings
  <2> QED BY <2>1 DEF Embedded, Hashed, NewPle
<1>6. LayerAt(kind, Put(NewLinear, NewAttention, NewPle), y, 0, 0)
  BY <1>2, <1>4, <1>5, PutAt
<1> QED BY <1>6 DEF NewLayer, Put

-----------------------------------------------------------------------------
(***************************************************************************)
(* The target: every layer holds the first n tokens of the text.           *)
(***************************************************************************)
TargetAt(state, y, n) ==
  /\ state = [layers |-> state.layers, token_count |-> n]
  /\ \A l \in Layers : LayerAt(Kinds[l], state.layers[l], y, n, 0)

LEMMA Parameters ==
  /\ Len(Kinds) \in Nat /\ Len(Kinds) > 0 /\ Layers = 1..Len(Kinds)
  /\ \A l \in Layers : Kinds[l] \in LayerKinds
  /\ Stride \in Nat /\ Stride > 0 /\ MaxRows \in Nat /\ MaxRows > 0
  /\ MaxChunks \in Nat /\ MaxDrafts \in Nat /\ MaxBatch \in Nat /\ Wrong \in Nat
  /\ Texts \subseteq Seq(Nat) /\ Starts \subseteq Nat
<1> DEFINE T == LayerKinds
<1>1. /\ Kinds \in Seq(T) /\ Kinds # <<>>
      /\ Stride \in Nat /\ Stride > 0 /\ MaxRows \in Nat /\ MaxRows > 0
      /\ MaxChunks \in Nat /\ MaxDrafts \in Nat /\ MaxBatch \in Nat /\ Wrong \in Nat
      /\ Texts \subseteq Seq(Nat) /\ Starts \subseteq Nat
  BY DecodeStateAssumption DEF LayerKinds
<1> HIDE DEF T
<1>2. /\ Len(Kinds) \in Nat /\ DOMAIN Kinds = 1..Len(Kinds)
      /\ \A l \in 1..Len(Kinds) : Kinds[l] \in T
  BY <1>1, LenProperties, ElementOfSeq
<1>3. Len(Kinds) # 0
  BY <1>1, EmptySeq
<1> QED BY <1>1, <1>2, <1>3 DEF Layers, T

LEMMA TargetBuilt ==
  ASSUME NEW ls, NEW y, NEW n, \A l \in Layers : LayerAt(Kinds[l], ls[l], y, n, 0)
  PROVE  TargetAt([layers |-> ls, token_count |-> n], y, n)
  BY DEF TargetAt

LEMMA TargetParts ==
  ASSUME NEW s, NEW y, NEW n, TargetAt(s, y, n)
  PROVE  /\ s.token_count = n /\ \A l \in Layers : LayerAt(Kinds[l], s.layers[l], y, n, 0)
         /\ \A x : [s EXCEPT !.layers = x] = [layers |-> x, token_count |-> n]
<1> DEFINE a == s.layers
<1>1. s = [layers |-> a, token_count |-> n] /\ \A l \in Layers : LayerAt(Kinds[l], a[l], y, n, 0)
  BY DEF TargetAt
<1> HIDE DEF a
<1>2. s.token_count = n /\ \A x : [s EXCEPT !.layers = x] = [layers |-> x, token_count |-> n]
  BY <1>1
<1> QED BY <1>1, <1>2 DEF a

LEMMA NewTargetAt == ASSUME NEW y \in Seq(Nat) PROVE TargetAt(NewTarget, y, 0)
<1> DEFINE ls == [l \in Layers |-> NewLayer]
<1>1. \A l \in Layers : LayerAt(Kinds[l], ls[l], y, 0, 0)
  BY Parameters, NewLayerAt
<1> HIDE DEF ls
<1>2. TargetAt([layers |-> ls, token_count |-> 0], y, 0)
  BY <1>1, TargetBuilt
<1> QED BY <1>2 DEF NewTarget, ls

LEMMA DecodedHolds ==
  ASSUME opt \in Options, NEW y \in Seq(Nat), NEW n \in Nat, n + 1 <= Len(y),
         NEW s, TargetAt(s, y, n)
  PROVE  TargetAt(Decoded(s, y[n + 1]), y, n + 1)
<1> DEFINE ls == [l \in Layers |-> LayerDecode(Kinds[l], s.layers[l], opt, y[n + 1])]
<1>1. /\ s.token_count = n /\ \A l \in Layers : LayerAt(Kinds[l], s.layers[l], y, n, 0)
      /\ \A l \in Layers : Kinds[l] \in LayerKinds
  BY TargetParts, Parameters
<1>2. ASSUME NEW l \in Layers PROVE LayerAt(Kinds[l], ls[l], y, n + 1, 0)
  <2>1. 0 \in Int
    OBVIOUS
  <2>2. LayerAt(Kinds[l], LayerDecode(Kinds[l], s.layers[l], opt, y[n + 1]), y, n + 1, 0)
    BY <1>1, <2>1, LayerDecodeHolds
  <2> QED BY <2>2
<1>3. Decoded(s, y[n + 1]) = [layers |-> ls, token_count |-> n + 1]
  BY <1>1 DEF Decoded
<1> HIDE DEF ls
<1> QED BY <1>2, <1>3, TargetBuilt

LEMMA DecodedMultiHolds ==
  ASSUME opt \in Options, NEW y \in Seq(Nat), NEW n \in Nat, n + 1 <= Len(y),
         NEW s, TargetAt(s, y, n), NEW rows \in Nat, NEW mine \in 1..rows,
         NEW states, states = [r \in 1..rows |-> IF r = mine THEN s ELSE NewTarget],
         NEW toks, toks = [r \in 1..rows |-> IF r = mine THEN y[n + 1] ELSE Wrong]
  PROVE  TargetAt(DecodedMulti(states, toks)[mine], y, n + 1)
<1> DEFINE col(l) == [r \in 1..rows |-> states[r].layers[l]]
           ls == [l \in Layers |->
                    LayerDecodeMulti(Kinds[l], [r \in DOMAIN states |-> states[r].layers[l]],
                                     opt, toks)[mine]]
<1>1. /\ s.token_count = n /\ \A l \in Layers : LayerAt(Kinds[l], s.layers[l], y, n, 0)
      /\ \A l \in Layers : Kinds[l] \in LayerKinds
  BY TargetParts, Parameters
<1>2. DOMAIN states = 1..rows /\ states[mine] = s /\ toks[mine] = y[n + 1]
  OBVIOUS
<1>3. toks \in Seq(Nat) /\ Len(toks) = rows
  <2>1. y[n + 1] \in Nat
    <3>1. n + 1 \in 1..Len(y)
      BY LenProperties
    <3> QED BY <3>1, ElementOfSeq
  <2>2. toks \in [1..rows -> Nat]
    BY <2>1, Parameters
  <2> QED BY <2>2, ListIsSeq
<1>4. ASSUME NEW l \in Layers PROVE LayerAt(Kinds[l], ls[l], y, n + 1, 0)
  <2> DEFINE T == {states[r].layers[l] : r \in 1..rows}
             c == col(l)
  <2>1. c \in [1..rows -> T]
    OBVIOUS
  <2>2. c[mine] = s.layers[l]
    BY <1>2
  <2>3. ls[l] = LayerDecodeMulti(Kinds[l], c, opt, toks)[mine]
    BY <1>2
  <2> HIDE DEF T, c
  <2>4. c \in Seq(T) /\ Len(c) = rows
    BY <2>1, ListIsSeq
  <2>5. Len(toks) = Len(c) /\ mine \in 1..Len(c) /\ LayerAt(Kinds[l], c[mine], y, n, 0)
        /\ toks[mine] = y[n + 1] /\ 0 \in Int /\ toks \in Seq(Nat) /\ Kinds[l] \in LayerKinds
    BY <1>1, <1>2, <1>3, <2>2, <2>4
  <2>6. LayerAt(Kinds[l], LayerDecodeMulti(Kinds[l], c, opt, toks)[mine], y, n + 1, 0)
    BY <2>4, <2>5, LayerMultiHolds
  <2> QED BY <2>3, <2>6
<1>5. DecodedMulti(states, toks)[mine] = [layers |-> ls, token_count |-> n + 1]
  BY <1>1, <1>2 DEF DecodedMulti
<1> HIDE DEF ls
<1> QED BY <1>4, <1>5, TargetBuilt

\* A round's rows are the next rows of a text that goes on with what the
\* drafts guessed wrong; it agrees with the text of the request as far as
\* the rows that are kept.
Guesses(d) == [i \in 1..d |-> Wrong]

LEMMA RoundText ==
  ASSUME NEW y \in Seq(Nat), NEW n \in Nat, NEW k \in Nat, n + k <= Len(y), NEW d \in Nat
  PROVE  \E z \in Seq(Nat) :
           /\ Agree(z, y, n) /\ Agree(z, y, n + k) /\ n + (k + d) <= Len(z)
           /\ Rows(z, n, n + (k + d)) = Rows(y, n, n + k) \o Guesses(d)
<1> DEFINE T == Nat
           m == n + k
           end == n + (k + d)
           u == Rows(y, 0, m)
           v == Guesses(d)
           w == Rows(y, n, m)
           z == u \o v
<1>1. v \in [1..d -> T]
  BY Parameters DEF Guesses
<1>2. y \in Seq(T) /\ m \in Nat /\ m <= Len(y) /\ 0 <= m /\ n <= m /\ m - 0 = m /\ m - n = k
      /\ 0 \in Nat /\ end = m + d /\ end \in Nat /\ n <= end /\ end - n = k + d
  OBVIOUS
<1> HIDE DEF T, m, v, end
<1>3. v \in Seq(T) /\ Len(v) = d
  BY <1>1, ListIsSeq
<1>4. u \in Seq(T) /\ Len(u) = m /\ \A i \in 1..m : u[i] = y[i]
  <2>1. y \in Seq(T) /\ 0 \in Nat /\ m \in Nat /\ 0 <= m /\ m <= Len(y)
    BY <1>2
  <2>2. /\ Rows(y, 0, m) \in Seq(T) /\ Len(Rows(y, 0, m)) = m - 0
        /\ \A i \in 1..(m - 0) : Rows(y, 0, m)[i] = y[0 + i]
    BY <2>1, RowsFacts, ZenonT(30)
  <2>3. m - 0 = m /\ \A i \in 1..m : 0 + i = i
    BY <1>2
  <2> QED BY <2>2, <2>3
<1>5. w \in Seq(T) /\ Len(w) = k /\ \A i \in 1..k : w[i] = y[n + i]
  <2>1. y \in Seq(T) /\ n \in Nat /\ m \in Nat /\ n <= m /\ m <= Len(y)
    BY <1>2
  <2>2. /\ Rows(y, n, m) \in Seq(T) /\ Len(Rows(y, n, m)) = m - n
        /\ \A i \in 1..(m - n) : Rows(y, n, m)[i] = y[n + i]
    BY <2>1, RowsFacts, ZenonT(30)
  <2>3. m - n = k
    BY <1>2
  <2> QED BY <2>2, <2>3
<1> HIDE DEF u, w
<1>6. /\ z \in Seq(T) /\ Len(z) = m + d
      /\ \A i \in 1..(m + d) : z[i] = IF i <= m THEN u[i] ELSE v[i - m]
  BY <1>3, <1>4, ConcatProperties
<1>7. /\ w \o v \in Seq(T) /\ Len(w \o v) = k + d
      /\ \A i \in 1..(k + d) : (w \o v)[i] = IF i <= k THEN w[i] ELSE v[i - k]
  <2>1. /\ w \o v \in Seq(T) /\ Len(w \o v) = Len(w) + Len(v)
        /\ \A i \in 1..(Len(w) + Len(v)) :
             (w \o v)[i] = IF i <= Len(w) THEN w[i] ELSE v[i - Len(w)]
    <3>1. w \in Seq(T) /\ v \in Seq(T)
      BY <1>3, <1>5
    <3> QED BY <3>1, ConcatProperties
  <2> QED BY <1>3, <1>5, <2>1
<1> HIDE DEF z
<1>8. \A i \in 1..m : z[i] = y[i]
  BY <1>2, <1>4, <1>6
<1>9. Agree(z, y, n) /\ Agree(z, y, m) /\ end <= Len(z)
  <2>1. Len(z) \in Nat /\ Len(z) = end /\ n <= m /\ m <= end
    BY <1>2, <1>6
  <2> QED BY <1>2, <1>8, <2>1 DEF Agree
<1>10. Rows(z, n, end) = w \o v
  <2> DEFINE q == w \o v
  <2>1. ASSUME NEW i \in 1..(k + d) PROVE q[i] = z[n + i]
    <3>1. n + i \in 1..(m + d)
      BY <1>2
    <3>2. CASE i <= k
      <4>1. n + i <= m /\ n + i \in 1..m
        BY <1>2, <3>2
      <4>2. i \in 1..k
        BY <3>2
      <4> QED BY <1>5, <1>7, <1>8, <3>2, <4>1, <4>2
    <3>3. CASE ~(i <= k)
      <4>1. ~(n + i <= m) /\ (n + i) - m = i - k
        BY <1>2, <3>3
      <4> QED BY <1>6, <1>7, <3>1, <3>3, <4>1
    <3> QED BY <3>2, <3>3
  <2> HIDE DEF q
  <2>2. q \in Seq(T) /\ Len(q) = end - n /\ end <= Len(z) /\ z \in Seq(T) /\ end - n = k + d
    BY <1>2, <1>6, <1>7, <1>9 DEF q
  <2>3. q = Rows(z, n, end)
    BY <1>2, <2>1, <2>2, RowsAre
  <2> QED BY <2>3 DEF q
<1> QED BY <1>6, <1>9, <1>10 DEF T, m, end, w, v

LEMMA AgreeBack == ASSUME NEW y, NEW z, NEW n, Agree(y, z, n) PROVE Agree(z, y, n)
  BY DEF Agree

LEMMA RoundHolds ==
  ASSUME opt \in Options, NEW y \in Seq(Nat), NEW n \in Nat, NEW k \in Nat, k > 0,
         n + k <= Len(y), NEW d \in Nat, NEW s, TargetAt(s, y, n),
         NEW toks, toks = Rows(y, n, n + k) \o Guesses(d)
  PROVE  TargetAt(Materialized(Checkpoints(s, toks)[k]), y, n + k)
<1> DEFINE rows == k + d
           m == n + k
           c == [l \in Layers |-> LayerVerify(Kinds[l], s.layers[l], opt, toks)]
           after == [l \in Layers |-> c[l][k]]
           cp == [layers |-> after, token_count |-> m]
           ls == [l \in Layers |-> MaterializeLayer(Kinds[l], after[l])]
<1>1. /\ s.token_count = n /\ \A l \in Layers : LayerAt(Kinds[l], s.layers[l], y, n, 0)
      /\ \A l \in Layers : Kinds[l] \in LayerKinds
  BY TargetParts, Parameters
<1>2. PICK z \in Seq(Nat) :
        /\ Agree(z, y, n) /\ Agree(z, y, m) /\ n + rows <= Len(z)
        /\ Rows(z, n, n + rows) = toks
  <2>1. \E z \in Seq(Nat) :
          /\ Agree(z, y, n) /\ Agree(z, y, n + k) /\ n + (k + d) <= Len(z)
          /\ Rows(z, n, n + (k + d)) = Rows(y, n, n + k) \o Guesses(d)
    BY RoundText
  <2> QED BY <2>1
<1>3. rows \in Nat /\ rows > 0 /\ k \in 1..rows /\ m \in Nat /\ 0 \in Int
  OBVIOUS
<1>4. toks \in Seq(Nat) /\ Len(toks) = rows
  <2> HIDE DEF rows
  <2>1. Rows(z, n, n + rows) \in Seq(Nat) /\ Len(Rows(z, n, n + rows)) = rows
    BY <1>2, <1>3, NextRows
  <2> QED BY <1>2, <2>1
<1>5. Checkpoints(s, toks)[k] = cp
  BY <1>1, <1>3, <1>4 DEF Checkpoints
<1> HIDE DEF rows, m
<1>6. ASSUME NEW l \in Layers PROVE LayerAfter(Kinds[l], after[l], y, m, 0)
  <2> DEFINE x == s.layers[l]
             kind == Kinds[l]
             v == LayerVerify(kind, x, opt, toks)
  <2>1. after[l] = v[k]
    OBVIOUS
  <2>2. kind \in LayerKinds /\ LayerAt(kind, x, y, n, 0)
    BY <1>1
  <2> HIDE DEF x, kind, after
  <2>3. Agree(y, z, n)
    BY <1>2, AgreeBack
  <2>4. LayerAt(kind, x, z, n, 0)
    BY <1>3, <2>2, <2>3, LayerAgrees
  <2>5. v = LayerVerify(kind, x, opt, Rows(z, n, n + rows))
    BY <1>2
  <2> HIDE DEF v
  <2>6. LayerAfter(kind, v[k], z, n + k, 0)
    BY <1>2, <1>3, <2>2, <2>4, <2>5, LayerVerifyHolds
  <2>7. LayerAfter(kind, v[k], z, m, 0)
    BY <2>6 DEF m
  <2>8. LayerAfter(kind, v[k], y, m, 0)
    BY <1>2, <1>3, <2>2, <2>7, LayerAgrees
  <2> QED BY <2>1, <2>8 DEF kind
<1>7. \A l \in Layers : LayerAt(Kinds[l], ls[l], y, m, 0)
  <2> HIDE DEF after
  <2> QED BY <1>1, <1>6, LayerRedoes
<1>8. Materialized(cp) = [layers |-> ls, token_count |-> m]
  <2> HIDE DEF after, m
  <2>1. cp = [layers |-> after, token_count |-> m]
    OBVIOUS
  <2>2. cp.layers = after /\ \A x : [cp EXCEPT !.layers = x] = [layers |-> x, token_count |-> m]
    OBVIOUS
  <2> HIDE DEF cp
  <2>3. Materialized(cp) = [cp EXCEPT !.layers = [l \in Layers |-> MaterializeLayer(Kinds[l], @[l])]]
    BY DEF Materialized
  <2> QED BY <2>2, <2>3
<1>9. TargetAt(Materialized(cp), y, m)
  <2> HIDE DEF ls, cp
  <2> QED BY <1>7, <1>8, TargetBuilt
<1> HIDE DEF cp
<1> QED BY <1>5, <1>9 DEF m

LEMMA TargetAgrees ==
  ASSUME NEW y \in Seq(Nat), NEW z \in Seq(Nat), NEW n \in Nat, Agree(y, z, n),
         NEW s, TargetAt(s, y, n)
  PROVE  TargetAt(s, z, n)
<1>1. 0 \in Int /\ \A l \in Layers : Kinds[l] \in LayerKinds
  BY Parameters
<1> QED BY <1>1, LayerAgrees DEF TargetAt

LEMMA TargetSnapshot ==
  ASSUME NEW y \in Seq(Nat), NEW n \in Nat, NEW s, TargetAt(s, y, n)
  PROVE  TargetAt(SnapshotTarget(s), y, n) /\ TargetAt(ReloadedTarget(s), y, n)
<1> DEFINE ls == [l \in Layers |-> SnapshotLayer(s.layers[l])]
           rs == [l \in Layers |-> LoadedLayer(SavedLayer(s.layers[l]))]
<1>1. /\ \A l \in Layers : LayerAt(Kinds[l], s.layers[l], y, n, 0) /\ Kinds[l] \in LayerKinds
      /\ \A x : [s EXCEPT !.layers = x] = [layers |-> x, token_count |-> n]
      /\ s = [layers |-> s.layers, token_count |-> n]
  <2>1. \A l \in Layers : Kinds[l] \in LayerKinds
    BY Parameters
  <2>2. \A x : [s EXCEPT !.layers = x] = [layers |-> x, token_count |-> n]
    BY TargetParts
  <2> QED BY <2>1, <2>2 DEF TargetAt
<1>2. \A l \in Layers : LayerAt(Kinds[l], ls[l], y, n, 0) /\ LayerAt(Kinds[l], rs[l], y, n, 0)
  BY <1>1, LayerSnapshot
<1>3. /\ SnapshotTarget(s) = [layers |-> ls, token_count |-> n]
      /\ ReloadedTarget(s) = [layers |-> rs, token_count |-> n]
  BY <1>1 DEF SnapshotTarget, ReloadedTarget
<1> HIDE DEF ls, rs
<1> QED BY <1>2, <1>3, TargetBuilt

LEMMA TargetPrepared ==
  ASSUME NEW y \in Seq(Nat), NEW n \in Nat, n <= Len(y), NEW s, TargetAt(s, y, n)
  PROVE  TargetAt([s EXCEPT !.layers = [l \in Layers |-> PrepareLayer(Kinds[l], @[l])]], y, n)
<1> DEFINE ls == [l \in Layers |-> PrepareLayer(Kinds[l], s.layers[l])]
<1>1. /\ \A l \in Layers : LayerAt(Kinds[l], s.layers[l], y, n, 0) /\ Kinds[l] \in LayerKinds
      /\ s = [layers |-> s.layers, token_count |-> n]
  BY TargetParts, Parameters DEF TargetAt
<1>2. \A l \in Layers : LayerAt(Kinds[l], ls[l], y, n, 0)
  BY <1>1, LayerPrepared
<1>3. [s EXCEPT !.layers = [l \in Layers |-> PrepareLayer(Kinds[l], @[l])]]
        = [layers |-> ls, token_count |-> n]
  BY <1>1
<1> HIDE DEF ls
<1> QED BY <1>2, <1>3, TargetBuilt

LEMMA TargetIs ==
  ASSUME NEW y \in Seq(Nat), NEW n \in Nat, n <= Len(y), NEW s, TargetAt(s, y, n)
  PROVE  s.token_count = n /\ \A l \in Layers : LayerHolds(Kinds[l], s.layers[l], Rows(y, 0, n))
<1>1. /\ s.token_count = n /\ 0 \in Int
      /\ \A l \in Layers : LayerAt(Kinds[l], s.layers[l], y, n, 0) /\ Kinds[l] \in LayerKinds
  BY TargetParts, Parameters
<1> QED BY <1>1, LayerIs

-----------------------------------------------------------------------------
(***************************************************************************)
(* The head: it holds r rows of the text from its base pb on, p = pb + r.  *)
(***************************************************************************)
From(y, pb) == Rows(y, pb, Len(y))

HeadRows(h, y, pb, r) ==
  /\ h = [layer |-> h.layer, row_count |-> r, position_base |-> pb]
  /\ LayerAt(HeadKind, h.layer, From(y, pb), r, pb)

HeadTo(h, y, p) ==
  \E pb \in Nat, r \in Nat : pb + r = p /\ p <= Len(y) /\ HeadRows(h, y, pb, r)

\* Where the head may be fed from.
HeadFrom(h, y, p) == h = NewHead \/ HeadTo(h, y, p)

\* Where the head may be when n tokens have been fed.
HeadAt(h, y, n) == h = NewHead \/ \E p \in Nat : p <= n /\ HeadTo(h, y, p)

LEMMA HeadKindTyped ==
  HeadKind \in LayerKinds /\ HeadKind.full = TRUE /\ HeadKind.ple = FALSE
  BY DEF HeadKind, LayerKinds

LEMMA FromFacts ==
  ASSUME NEW y \in Seq(Nat), NEW pb \in Nat, NEW r \in Nat, pb + r <= Len(y)
  PROVE  /\ From(y, pb) \in Seq(Nat) /\ Len(From(y, pb)) = Len(y) - pb
         /\ r <= Len(From(y, pb))
         /\ \A i \in 1..(Len(y) - pb) : From(y, pb)[i] = y[pb + i]
<1> DEFINE T == Nat
           end == Len(y)
           f == Rows(y, pb, end)
<1>1. end \in Nat /\ pb <= end /\ r <= end - pb /\ y \in Seq(T)
  BY LenProperties
<1>2. end <= Len(y)
  BY <1>1
<1> HIDE DEF T, end
<1>3. /\ Rows(y, pb, end) \in Seq(T) /\ Len(Rows(y, pb, end)) = end - pb
      /\ \A i \in 1..(end - pb) : Rows(y, pb, end)[i] = y[pb + i]
  BY <1>1, <1>2, RowsFacts
<1> QED BY <1>1, <1>3 DEF T, end, From

LEMMA FromRows ==
  ASSUME NEW y \in Seq(Nat), NEW pb \in Nat, NEW r \in Nat, NEW m \in Nat, r <= m,
         pb + m <= Len(y)
  PROVE  Rows(From(y, pb), r, m) = Rows(y, pb + r, pb + m)
<1> DEFINE T == Nat
           end == Len(y)
<1>1. /\ end \in Nat /\ pb <= end /\ y \in Seq(T) /\ end <= Len(y) /\ r <= m
      /\ m <= end - pb
  BY LenProperties
<1> HIDE DEF T
<1>2. Rows(Rows(y, pb, end), r, m) = Rows(y, pb + r, pb + m)
  <2> HIDE DEF end
  <2> QED BY <1>1, RowsOfRows
<1> QED BY <1>2 DEF From

LEMMA HeadBuilt ==
  ASSUME NEW h, NEW y, NEW pb \in Nat, NEW r \in Nat, NEW x, pb + r <= Len(y),
         h = [layer |-> x, row_count |-> r, position_base |-> pb],
         LayerAt(HeadKind, x, From(y, pb), r, pb)
  PROVE  HeadTo(h, y, pb + r)
<1>1. HeadRows(h, y, pb, r)
  BY DEF HeadRows
<1> QED BY <1>1 DEF HeadTo

\* What Based does to the attention state.
Rebased(f, r, p, base) ==
  [f EXCEPT !.position_base = IF r = 0 THEN p ELSE @,
            !.err = IF p = base + r THEN @ ELSE TRUE]

LEMMA BasedIs ==
  ASSUME NEW a, NEW f, NEW e, NEW r, NEW pb, NEW p, NEW h, NEW base, NEW g,
         h = [layer |-> Put(a, f, e), row_count |-> r, position_base |-> pb],
         base = IF pb = NoBase THEN p ELSE pb,
         g = Rebased(f, r, p, base)
  PROVE  Based(h, p) = [layer |-> Put(a, g, e), row_count |-> r, position_base |-> base]
<1> DEFINE x == Put(a, f, e)
           full == [h.layer.full EXCEPT !.position_base = IF h.row_count = 0 THEN p ELSE @,
                                        !.err = IF p = base + h.row_count THEN @ ELSE TRUE]
<1>1. /\ h.position_base = pb /\ h.row_count = r /\ h.layer = x /\ x.full = f
      /\ \A z : [x EXCEPT !.full = z] = Put(a, z, e)
  BY DEF Put
<1>2. full = g
  BY <1>1 DEF Rebased
<1> HIDE DEF x, full
<1>3. Based(h, p) = [h EXCEPT !.position_base = base, !.layer.full = full]
  BY <1>1 DEF Based, full
<1>4. h = [layer |-> x, row_count |-> r, position_base |-> pb]
  BY DEF x
<1>5. [h EXCEPT !.position_base = base, !.layer.full = full]
        = [layer |-> [x EXCEPT !.full = full], row_count |-> r, position_base |-> base]
  <2> DEFINE h1 == [layer |-> x, row_count |-> r, position_base |-> base]
  <2>1. [h EXCEPT !.position_base = base] = h1
    BY <1>4
  <2>2. [h1 EXCEPT !.layer.full = full]
          = [layer |-> [x EXCEPT !.full = full], row_count |-> r, position_base |-> base]
    OBVIOUS
  <2>3. [h EXCEPT !.position_base = base, !.layer.full = full]
          = [[h EXCEPT !.position_base = base] EXCEPT !.layer.full = full]
    OBVIOUS
  <2> HIDE DEF h1
  <2> QED BY <2>1, <2>2, <2>3
<1> QED BY <1>1, <1>2, <1>3, <1>5

\* The first call sets the base; the code's check that a call goes on where
\* the last one stopped never throws.
LEMMA BasedHolds ==
  ASSUME NEW y \in Seq(Nat), NEW p \in Nat, p <= Len(y), NEW h, HeadFrom(h, y, p)
  PROVE  HeadTo(Based(h, p), y, p)
<1>1. CASE h = NewHead
  <2> DEFINE new == NewAttention
             f == [new EXCEPT !.position_base = p]
             x == Put(NewLinear, f, NewPle)
             g == Rebased(new, 0, p, p)
  <2>2. g = f
    <3>1. p = p + 0
      OBVIOUS
    <3>2. g = [new EXCEPT !.position_base = p, !.err = @]
      BY <3>1 DEF Rebased
    <3>3. new \in [keys : {<<>>}, cold : {<<>>}, kv_q8 : {FALSE}, cold_tokens : {0},
                   raw : {<<>>}, raw_start : {0}, pooled : {<<>>}, pooled_count : {0},
                   token_count : {0}, position_base : {0}, err : {FALSE}]
      BY DEF NewAttention
    <3> HIDE DEF new, g
    <3> QED BY <3>2, <3>3
  <2>3. Based(h, p) = [layer |-> x, row_count |-> 0, position_base |-> p]
    <3> DEFINE a == NewLinear
               e == NewPle
    <3>1. h = [layer |-> Put(a, new, e), row_count |-> 0, position_base |-> NoBase]
      BY <1>1 DEF NewHead, NewLayer, Put
    <3> HIDE DEF a, e, new, f, g
    <3>2. Based(h, p) = [layer |-> Put(a, g, e), row_count |-> 0, position_base |-> p]
      <4>1. p = IF NoBase = NoBase THEN p ELSE NoBase
        OBVIOUS
      <4> QED BY <3>1, <4>1, BasedIs DEF g
    <3> QED BY <2>2, <3>2 DEF a, e
  <2>4. From(y, p) \in Seq(Nat) /\ p + 0 = p /\ p \in Int /\ 0 \in Nat
    <3> DEFINE none == 0
    <3>1. p + none <= Len(y) /\ none \in Nat /\ p + 0 = p /\ p \in Int
      OBVIOUS
    <3> HIDE DEF none
    <3>2. From(y, p) \in Seq(Nat)
      BY <3>1, FromFacts
    <3> QED BY <3>1, <3>2
  <2>5. Attending(f, From(y, p), 0, p)
    BY <2>4, NoneAttended
  <2> HIDE DEF f
  <2>6. LayerAt(HeadKind, x, From(y, p), 0, p)
    BY <2>5, HeadKindTyped, PutAt
  <2> HIDE DEF x
  <2>7. HeadTo(Based(h, p), y, p + 0)
    BY <2>3, <2>4, <2>6, HeadBuilt
  <2> QED BY <2>4, <2>7
<1>2. CASE HeadTo(h, y, p)
  <2>1. PICK pb \in Nat, r \in Nat : pb + r = p /\ HeadRows(h, y, pb, r)
    BY <1>2 DEF HeadTo
  <2> DEFINE x == h.layer
             f == x.full
  <2>2. h = [layer |-> x, row_count |-> r, position_base |-> pb] /\ Layered(x)
        /\ Attending(f, From(y, pb), r, pb) /\ LayerAt(HeadKind, x, From(y, pb), r, pb)
    BY <2>1, HeadKindTyped DEF HeadRows, LayerAt
  <2>3. f.position_base = pb /\ f.err = FALSE /\ f \in Attentions
    BY <2>2, AttendingFacts DEF Attending
  <2>4. f = Rebased(f, r, p, pb)
    <3>1. (IF r = 0 THEN p ELSE f.position_base) = f.position_base
      BY <2>1, <2>3
    <3>2. p = pb + r
      BY <2>1
    <3> QED BY <2>3, <3>1, <3>2 DEF Attentions, Rebased
  <2>5. pb # NoBase
    BY DEF NoBase
  <2>6. Based(h, p) = h
    <3> DEFINE a == x.linear
               e == x.ple
               f2 == Rebased(f, r, p, pb)
    <3>1. x = Put(a, f, e)
      BY <2>2 DEF Layered
    <3>2. f2 = f
      BY <2>4
    <3>3. h = [layer |-> Put(a, f, e), row_count |-> r, position_base |-> pb]
      BY <2>2, <3>1
    <3> HIDE DEF a, e, f, f2
    <3>4. Based(h, p) = [layer |-> Put(a, f2, e), row_count |-> r, position_base |-> pb]
      <4>1. pb = IF pb = NoBase THEN p ELSE pb
        BY <2>5
      <4> QED BY <3>3, <4>1, BasedIs DEF f2
    <3> QED BY <3>2, <3>3, <3>4
  <2> QED BY <1>2, <2>6
<1> QED BY <1>1, <1>2 DEF HeadFrom

\* A call of the head that takes the next rows of the text from p on.
HeadCall(h, y, p, k, pb, r) ==
  /\ pb + r = p /\ pb + (r + k) = p + k /\ pb + (r + k) <= Len(y)
  /\ h = [layer |-> h.layer, row_count |-> r, position_base |-> pb]
  /\ LayerAt(HeadKind, h.layer, From(y, pb), r, pb)
  /\ From(y, pb) \in Seq(Nat) /\ r + k <= Len(From(y, pb))
  /\ Rows(From(y, pb), r, r + k) = Rows(y, p, p + k)
  /\ \A i \in 1..k : From(y, pb)[r + i] = y[p + i]

LEMMA HeadParts ==
  ASSUME NEW h, NEW y \in Seq(Nat), NEW p \in Nat, HeadTo(h, y, p), NEW k \in Nat, p + k <= Len(y)
  PROVE  \E pb \in Nat, r \in Nat : HeadCall(h, y, p, k, pb, r)
<1>1. PICK pb \in Nat, r \in Nat :
        /\ pb + r = p /\ h = [layer |-> h.layer, row_count |-> r, position_base |-> pb]
        /\ LayerAt(HeadKind, h.layer, From(y, pb), r, pb)
  BY DEF HeadTo, HeadRows
<1> DEFINE m == r + k
<1>6. pb + r = p /\ Len(y) \in Nat
  BY <1>1, LenProperties
<1>2. m \in Nat /\ r <= m /\ pb + m = p + k /\ pb + m <= Len(y) /\ k = m - r
  BY <1>6
<1> HIDE DEF m
<1>3. Rows(From(y, pb), r, m) = Rows(y, p, p + k)
  <2>1. Rows(From(y, pb), r, m) = Rows(y, pb + r, pb + m)
    BY <1>2, FromRows
  <2> QED BY <1>2, <1>6, <2>1
<1>4. /\ From(y, pb) \in Seq(Nat) /\ m <= Len(From(y, pb))
      /\ \A i \in 1..(Len(y) - pb) : From(y, pb)[i] = y[pb + i]
  BY <1>2, FromFacts
<1>5. ASSUME NEW i \in 1..k PROVE From(y, pb)[r + i] = y[p + i]
  <2>1. r + i \in 1..(Len(y) - pb) /\ pb + (r + i) = p + i
    BY <1>2, <1>6
  <2> QED BY <1>4, <2>1
<1>7. HeadCall(h, y, p, k, pb, r)
  BY <1>1, <1>2, <1>3, <1>4, <1>5 DEF m, HeadCall
<1> QED BY <1>7

\* What a call leaves: the layer after it and k more rows.
IsHead(h, layer, r, pb) == h = [layer |-> layer, row_count |-> r, position_base |-> pb]
Moved(h, x, k) == [h EXCEPT !.layer = x, !.row_count = @ + k]

LEMMA HeadMoves ==
  ASSUME NEW h, NEW r, NEW pb, NEW layer, NEW k, NEW x, IsHead(h, layer, r, pb)
  PROVE  IsHead(Moved(h, x, k), x, r + k, pb)
<1> DEFINE h1 == [layer |-> x, row_count |-> r, position_base |-> pb]
<1>1. [h EXCEPT !.layer = x] = h1
  BY DEF IsHead
<1>2. h.row_count = r /\ [h1 EXCEPT !.row_count = r + k]
                            = [layer |-> x, row_count |-> r + k, position_base |-> pb]
  BY DEF IsHead
<1> HIDE DEF h1
<1>3. Moved(h, x, k) = [[h EXCEPT !.layer = x] EXCEPT !.row_count = h.row_count + k]
  BY DEF Moved
<1> QED BY <1>1, <1>2, <1>3 DEF IsHead

LEMMA HeadDecodedHolds ==
  ASSUME opt \in Options, NEW y \in Seq(Nat), NEW p \in Nat, p + 1 <= Len(y),
         NEW h, HeadFrom(h, y, p)
  PROVE  HeadTo(HeadDecoded(h, p, y[p + 1]), y, p + 1)
<1> DEFINE b == Based(h, p)
           tok == y[p + 1]
           x == LayerDecode(HeadKind, b.layer, opt, tok)
           u == HeadDecoded(h, p, tok)
<1>1. HeadTo(b, y, p)
  <2>1. p <= Len(y)
    BY LenProperties
  <2> QED BY <2>1, BasedHolds
<1>2. u = Moved(b, x, 1)
  BY DEF HeadDecoded, Moved
<1> HIDE DEF b, u
<1>3. PICK pb \in Nat, r \in Nat :
        /\ pb + r = p /\ pb + (r + 1) = p + 1 /\ pb + (r + 1) <= Len(y)
        /\ b = [layer |-> b.layer, row_count |-> r, position_base |-> pb]
        /\ LayerAt(HeadKind, b.layer, From(y, pb), r, pb)
        /\ From(y, pb) \in Seq(Nat) /\ r + 1 <= Len(From(y, pb))
        /\ \A i \in 1..1 : From(y, pb)[r + i] = y[p + i]
  <2> DEFINE k == 1
  <2>1. k \in Nat /\ p + k <= Len(y)
    OBVIOUS
  <2> HIDE DEF k
  <2>2. PICK pb \in Nat, r \in Nat : HeadCall(b, y, p, k, pb, r)
    BY <1>1, <2>1, HeadParts
  <2> QED BY <2>2 DEF k, HeadCall
<1> DEFINE z == From(y, pb)
           layer == b.layer
<1>4. z[r + 1] = tok /\ pb \in Int
  BY <1>3
<1>5. LayerAt(HeadKind, LayerDecode(HeadKind, layer, opt, z[r + 1]), z, r + 1, pb)
  <2>1. /\ LayerAt(HeadKind, layer, z, r, pb) /\ z \in Seq(Nat) /\ r + 1 <= Len(z)
        /\ HeadKind \in LayerKinds
    BY <1>3, HeadKindTyped
  <2> HIDE DEF z, layer
  <2> QED BY <1>4, <2>1, LayerDecodeHolds
<1>6. LayerAt(HeadKind, x, z, r + 1, pb)
  BY <1>4, <1>5
<1>7. IsHead(b, layer, r, pb)
  BY <1>3 DEF IsHead
<1> HIDE DEF x, layer, z
<1>8. IsHead(u, x, r + 1, pb)
  BY <1>2, <1>7, HeadMoves
<1>9. HeadTo(u, y, pb + (r + 1))
  <2> DEFINE m == r + 1
  <2>1. m \in Nat /\ pb + m <= Len(y) /\ u = [layer |-> x, row_count |-> m, position_base |-> pb]
        /\ LayerAt(HeadKind, x, From(y, pb), m, pb)
    BY <1>3, <1>6, <1>8, SMTT(30) DEF z, IsHead
  <2> HIDE DEF m
  <2>2. HeadTo(u, y, pb + m)
    BY <2>1, HeadBuilt
  <2> QED BY <2>2 DEF m
<1> QED BY <1>3, <1>9 DEF u

LEMMA HeadRowsHold ==
  ASSUME opt \in Options, NEW y \in Seq(Nat), NEW p \in Nat, NEW k \in Nat, k > 0,
         p + k <= Len(y), NEW h, HeadFrom(h, y, p), NEW toks, toks = Rows(y, p, p + k)
  PROVE  HeadTo(HeadPrefilled(h, p, toks), y, p + k) /\ HeadTo(HeadCommitted(h, p, toks), y, p + k)
<1> DEFINE b == Based(h, p)
           x == LayerPrefill(HeadKind, b.layer, opt, toks)
           v == LayerVerify(HeadKind, b.layer, opt, toks)
           w == v[k]
           u1 == HeadPrefilled(h, p, toks)
           u2 == HeadCommitted(h, p, toks)
<1>0. Len(toks) = k
  BY NextRows
<1>1. HeadTo(b, y, p)
  <2>1. p <= Len(y)
    BY LenProperties
  <2> QED BY <2>1, BasedHolds
<1>2. u1 = Moved(b, x, k) /\ u2 = Moved(b, w, k)
  BY <1>0 DEF HeadPrefilled, HeadCommitted, Moved
<1> HIDE DEF b, u1, u2
<1>3. PICK pb \in Nat, r \in Nat :
        /\ pb + r = p /\ pb + (r + k) = p + k /\ pb + (r + k) <= Len(y)
        /\ b = [layer |-> b.layer, row_count |-> r, position_base |-> pb]
        /\ LayerAt(HeadKind, b.layer, From(y, pb), r, pb)
        /\ From(y, pb) \in Seq(Nat) /\ r + k <= Len(From(y, pb))
        /\ Rows(From(y, pb), r, r + k) = toks
  BY <1>1, HeadParts DEF HeadCall
<1> DEFINE z == From(y, pb)
           layer == b.layer
<1>4. /\ LayerAt(HeadKind, layer, z, r, pb) /\ z \in Seq(Nat) /\ r + k <= Len(z)
      /\ HeadKind \in LayerKinds /\ pb \in Int /\ Rows(z, r, r + k) = toks /\ k \in 1..k
      /\ x = LayerPrefill(HeadKind, layer, opt, toks)
      /\ v = LayerVerify(HeadKind, layer, opt, toks)
      /\ IsHead(b, layer, r, pb)
  BY <1>3, HeadKindTyped, SMTT(30) DEF IsHead
<1> HIDE DEF z, layer, x, v
<1>5. LayerAt(HeadKind, x, z, r + k, pb)
  <2>1. LayerAt(HeadKind, LayerPrefill(HeadKind, layer, opt, Rows(z, r, r + k)), z, r + k, pb)
    BY <1>4, LayerPrefillHolds
  <2> QED BY <1>4, <2>1
<1>6. LayerAt(HeadKind, w, z, r + k, pb)
  <2>1. v = LayerVerify(HeadKind, layer, opt, Rows(z, r, r + k))
    BY <1>4
  <2>2. LayerAt(HeadKind, v[k], z, r + k, pb)
    BY <1>4, <2>1, LayerVerifyHolds
  <2> QED BY <2>2
<1> HIDE DEF w
<1>7. IsHead(u1, x, r + k, pb) /\ IsHead(u2, w, r + k, pb)
  BY <1>2, <1>4, HeadMoves
<1> DEFINE m == r + k
<1>8. /\ m \in Nat /\ pb + m <= Len(y)
      /\ u1 = [layer |-> x, row_count |-> m, position_base |-> pb]
      /\ u2 = [layer |-> w, row_count |-> m, position_base |-> pb]
      /\ LayerAt(HeadKind, x, From(y, pb), m, pb) /\ LayerAt(HeadKind, w, From(y, pb), m, pb)
  BY <1>3, <1>5, <1>6, <1>7, SMTT(30) DEF z, IsHead
<1>9. pb + m = p + k
  BY <1>3
<1> HIDE DEF m
<1>10. HeadTo(u1, y, pb + m) /\ HeadTo(u2, y, pb + m)
  BY <1>8, HeadBuilt
<1> QED BY <1>9, <1>10 DEF u1, u2

\* A chain of single calls: h, then after every row the call on what the
\* rows before it left.
HeadSteps(f, h, p, toks, N) ==
  f = [i \in 0..N |-> IF i = 0 THEN h ELSE HeadDecoded(f[i - 1], p + i - 1, toks[i])]

LEMMA HeadStepsExist ==
  ASSUME NEW N \in Nat, NEW h, NEW p, NEW toks
  PROVE  \E f : HeadSteps(f, h, p, toks, N)
<1> DEFINE step(i, x) == HeadDecoded(x, p + i - 1, toks[i])
           Is(f, k) == f = [i \in 0..k |-> IF i = 0 THEN h ELSE step(i, f[i - 1])]
           P == {k \in Nat : \E f : Is(f, k)}
<1> HIDE DEF step
<1>1. 0 \in P
  <2>1. Is([i \in 0..0 |-> h], 0)
    OBVIOUS
  <2> QED BY <2>1
<1>2. ASSUME NEW k \in Nat, k \in P PROVE k + 1 \in P
  <2>1. PICK f : Is(f, k)
    BY <1>2
  <2> DEFINE g == [i \in 0..(k + 1) |-> IF i <= k THEN f[i] ELSE step(k + 1, f[k])]
  <2>2. \A i \in 0..k : f[i] = IF i = 0 THEN h ELSE step(i, f[i - 1])
    BY <2>1
  <2>3. ASSUME NEW i \in 0..(k + 1)
        PROVE  g[i] = IF i = 0 THEN h ELSE step(i, g[i - 1])
    <3>1. CASE i <= k
      BY <2>2, <3>1
    <3>2. CASE i = k + 1
      BY <3>2
    <3> QED BY <3>1, <3>2
  <2>4. g = [i \in 0..(k + 1) |-> g[i]]
    OBVIOUS
  <2> HIDE DEF g
  <2>5. Is(g, k + 1)
    BY <2>3, <2>4
  <2> QED BY <2>5
<1> HIDE DEF P
<1>3. N \in P
  BY <1>1, <1>2, NatInduct
<1>4. \E f : Is(f, N)
  BY <1>3 DEF P
<1> QED BY <1>4 DEF HeadSteps, step

LEMMA HeadStepsHold ==
  ASSUME opt \in Options, NEW y \in Seq(Nat), NEW p \in Nat, NEW k \in Nat,
         p + k <= Len(y), NEW h, HeadFrom(h, y, p), NEW toks, toks = Rows(y, p, p + k),
         NEW f, HeadSteps(f, h, p, toks, k)
  PROVE  \A i \in 0..k : HeadFrom(f[i], y, p + i) /\ (i > 0 => HeadTo(f[i], y, p + i))
<1> DEFINE Good(i) == HeadFrom(f[i], y, p + i) /\ (i > 0 => HeadTo(f[i], y, p + i))
           P == {i \in Nat : i <= k => Good(i)}
<1>1. f[0] = h /\ \A i \in 1..k : f[i] = HeadDecoded(f[i - 1], p + i - 1, toks[i])
  BY DEF HeadSteps
<1>2. \A i \in 1..k : toks[i] = y[p + i]
  BY NextRows
<1>3. 0 \in P
  <2>1. p + 0 = p
    OBVIOUS
  <2> QED BY <1>1, <2>1
<1>4. ASSUME NEW i \in Nat, i \in P PROVE i + 1 \in P
  <2>1. SUFFICES ASSUME i + 1 <= k PROVE Good(i + 1)
    OBVIOUS
  <2> DEFINE m == p + i
             x == f[i]
  <2>2. /\ i + 1 \in 1..k /\ (i + 1) - 1 = i /\ p + (i + 1) - 1 = m /\ m + 1 = p + (i + 1)
        /\ m \in Nat /\ m + 1 <= Len(y) /\ i + 1 > 0
    BY <2>1, LenProperties
  <2>3. HeadFrom(x, y, m)
    BY <1>4, <2>1
  <2>4. f[i + 1] = HeadDecoded(x, m, y[m + 1])
    BY <1>1, <1>2, <2>2
  <2> HIDE DEF m, x
  <2>5. HeadTo(HeadDecoded(x, m, y[m + 1]), y, m + 1)
    BY <2>2, <2>3, HeadDecodedHolds
  <2>6. HeadTo(f[i + 1], y, p + (i + 1))
    BY <2>2, <2>4, <2>5
  <2> QED BY <2>2, <2>6 DEF HeadFrom
<1>5. \A i \in Nat : i \in P
  <2> HIDE DEF P
  <2> QED BY <1>3, <1>4, NatInduct
<1> QED BY <1>5

LEMMA HeadChainHolds ==
  ASSUME opt \in Options, NEW y \in Seq(Nat), NEW p \in Nat, NEW k \in Nat, k > 0,
         p + k <= Len(y), NEW h, HeadFrom(h, y, p), NEW toks, toks = Rows(y, p, p + k)
  PROVE  HeadTo(HeadChain(h, p, toks), y, p + k)
<1> DEFINE Is(f) == f = [i \in 0..Len(toks) |->
                           IF i = 0 THEN h ELSE HeadDecoded(f[i - 1], p + i - 1, toks[i])]
           after == CHOOSE f : Is(f)
<1>1. Len(toks) = k
  BY NextRows
<1>2. \E f : Is(f)
  <2>1. PICK f : HeadSteps(f, h, p, toks, k)
    BY HeadStepsExist
  <2>2. Is(f)
    BY <1>1, <2>1 DEF HeadSteps
  <2> QED BY <2>2
<1>3. Is(after)
  BY <1>2
<1>4. HeadChain(h, p, toks) = after[k]
  BY <1>1 DEF HeadChain
<1> HIDE DEF after
<1>5. HeadSteps(after, h, p, toks, k)
  BY <1>1, <1>3 DEF HeadSteps
<1>6. k \in 0..k
  OBVIOUS
<1>7. HeadTo(after[k], y, p + k)
  BY <1>5, <1>6, HeadStepsHold
<1> QED BY <1>4, <1>7

LEMMA HeadAgrees ==
  ASSUME NEW y \in Seq(Nat), NEW z \in Seq(Nat), NEW n \in Nat, Agree(y, z, n),
         NEW h, HeadAt(h, y, n)
  PROVE  HeadAt(h, z, n)
<1>1. CASE h = NewHead
  BY <1>1 DEF HeadAt
<1>2. ASSUME NEW p \in Nat, p <= n, HeadTo(h, y, p) PROVE HeadAt(h, z, n)
  <2>1. PICK pb \in Nat, r \in Nat : pb + r = p /\ p <= Len(y) /\ HeadRows(h, y, pb, r)
    BY <1>2 DEF HeadTo
  <2> DEFINE u == From(y, pb)
             v == From(z, pb)
  <2>2. p <= Len(z) /\ \A i \in 1..n : y[i] = z[i]
    BY <1>2, LenProperties DEF Agree
  <2>3. /\ u \in Seq(Nat) /\ Len(u) = Len(y) - pb /\ r <= Len(u)
        /\ \A i \in 1..(Len(y) - pb) : u[i] = y[pb + i]
    BY <2>1, FromFacts
  <2>4. /\ v \in Seq(Nat) /\ Len(v) = Len(z) - pb /\ r <= Len(v)
        /\ \A i \in 1..(Len(z) - pb) : v[i] = z[pb + i]
    BY <2>1, <2>2, FromFacts
  <2> HIDE DEF u, v
  <2>5. \A i \in 1..r : u[i] = v[i]
    <3>1. Len(y) \in Nat /\ Len(z) \in Nat
      BY LenProperties
    <3>2. ASSUME NEW i \in 1..r PROVE u[i] = v[i]
      <4>1. i \in 1..(Len(y) - pb) /\ i \in 1..(Len(z) - pb) /\ pb + i \in 1..n
        BY <1>2, <2>1, <2>2, <3>1
      <4> QED BY <2>2, <2>3, <2>4, <4>1
    <3> QED BY <3>2
  <2>6. Agree(u, v, r)
    BY <2>3, <2>4, <2>5 DEF Agree
  <2>7. LayerAt(HeadKind, h.layer, u, r, pb) /\ pb \in Int
    BY <2>1 DEF HeadRows, u
  <2>8. LayerAt(HeadKind, h.layer, v, r, pb)
    BY <2>3, <2>4, <2>6, <2>7, HeadKindTyped, LayerAgrees
  <2>9. HeadTo(h, z, p)
    BY <2>1, <2>2, <2>8 DEF HeadTo, HeadRows, v
  <2> QED BY <1>2, <2>9 DEF HeadAt
<1> QED BY <1>1, <1>2 DEF HeadAt

LEMMA FullReloads ==
  ASSUME NEW y \in Seq(Nat), NEW n \in Nat, NEW base, NEW s, LayerAt(HeadKind, s, y, n, base)
  PROVE  LoadedLayer(SavedLayer(s)).full = s.full
<1> DEFINE kind == HeadKind
<1>1. kind \in LayerKinds /\ LayerAt(kind, s, y, n, base)
  BY HeadKindTyped
<1>2. kind.full = TRUE
  BY HeadKindTyped
<1> HIDE DEF kind
<1>3. /\ LayerAt(kind, SnapshotLayer(s), y, n, base)
      /\ kind.full = TRUE => SnapshotLayer(s).full = s.full
      /\ kind.full = TRUE => LoadedLayer(SavedLayer(s)).full = s.full
      /\ LayerAt(kind, LoadedLayer(SavedLayer(s)), y, n, base)
  BY <1>1, LayerSnapshot, Zenon
<1> QED BY <1>2, <1>3

LEMMA NewSnapshot ==
  SnapshotHead(NewHead) = NewHead /\ ReloadedHead(NewHead) = NewHead
<1>1. SnapshotLinear(NewLinear) = NewLinear
  BY DEF SnapshotLinear, NewLinear
<1>2. SnapshotFull(NewAttention) = NewAttention
  <2> DEFINE f == NewAttention
  <2>1. f \in [keys : {<<>>}, cold : {<<>>}, kv_q8 : {FALSE}, cold_tokens : {0},
               raw : {<<>>}, raw_start : {0}, pooled : {<<>>}, pooled_count : {0},
               token_count : {0}, position_base : {0}, err : {FALSE}]
    BY DEF NewAttention
  <2> HIDE DEF f
  <2>2. SnapshotFull(f) = f
    BY <2>1 DEF SnapshotFull
  <2> QED BY <2>2 DEF f
<1>3. SnapshotEmbedding(NewPle) = NewPle
  BY DEF SnapshotEmbedding, NewPle
<1>4. SnapshotLayer(NewLayer) = NewLayer
  <2>1. /\ Layered(NewLayer) /\ NewLayer.linear = NewLinear /\ NewLayer.full = NewAttention
        /\ NewLayer.ple = NewPle /\ NewLayer = Put(NewLinear, NewAttention, NewPle)
    BY DEF NewLayer, Layered, Put
  <2> QED BY <1>1, <1>2, <1>3, <2>1, SnapshotIs
<1>5. SavedLayer(NewLayer) = NewLayer
  <2>1. [NewLayer EXCEPT !.linear.rollback = <<>>, !.linear.rollback_rows = 0] = NewLayer
    <3> DEFINE a == NewLinear
               b == [a EXCEPT !.rollback = <<>>, !.rollback_rows = 0]
               f == NewAttention
               e == NewPle
    <3>1. a \in [convolution : {<<>>}, recurrent : {<<>>}, rollback : {<<>>},
                 rollback_rows : {0}, initialized : {FALSE}, err : {FALSE}]
      BY DEF NewLinear
    <3>2. NewLayer = Put(a, f, e)
      BY DEF NewLayer, Put
    <3> HIDE DEF a, f, e
    <3>3. b = a
      BY <3>1
    <3>4. ASSUME NEW q,
                 q = [Put(a, f, e) EXCEPT !.linear.rollback = <<>>, !.linear.rollback_rows = 0]
          PROVE  q = Put(b, f, e)
      BY <3>4 DEF Put
    <3> HIDE DEF b
    <3> QED BY <3>2, <3>3, <3>4
  <2> QED BY <1>4, <2>1 DEF SavedLayer
<1>6. LoadedLayer(NewLayer) = NewLayer
  <2> DEFINE a == NewLinear
             f == NewAttention
             e == NewPle
             x == Put(a, f, e)
  <2>1. [f EXCEPT !.cold_tokens = 0] = f /\ f.token_count = 0
    BY DEF NewAttention
  <2>2. NewLayer = x
    BY DEF NewLayer, Put
  <2> HIDE DEF a, f, e
  <2>3. x.full = f /\ [x EXCEPT !.full.cold_tokens = 0] = Put(a, [f EXCEPT !.cold_tokens = 0], e)
    BY DEF Put
  <2> HIDE DEF x
  <2>4. LoadedLayer(x) = [x EXCEPT !.full.cold_tokens = 0]
    BY <2>1, <2>3 DEF LoadedLayer
  <2> QED BY <2>1, <2>2, <2>3, <2>4 DEF x
<1>7. NewHead.layer = NewLayer /\ [NewHead EXCEPT !.layer = NewLayer] = NewHead
  BY DEF NewHead
<1> QED BY <1>4, <1>5, <1>6, <1>7 DEF SnapshotHead, ReloadedHead

LEMMA HeadSnapshots ==
  ASSUME NEW y \in Seq(Nat), NEW n \in Nat, NEW h, HeadAt(h, y, n)
  PROVE  HeadAt(SnapshotHead(h), y, n) /\ HeadAt(ReloadedHead(h), y, n)
<1>1. CASE h = NewHead
  BY <1>1, NewSnapshot DEF HeadAt
<1>2. ASSUME NEW p \in Nat, p <= n, HeadTo(h, y, p)
      PROVE  HeadAt(SnapshotHead(h), y, n) /\ HeadAt(ReloadedHead(h), y, n)
  <2>1. PICK pb \in Nat, r \in Nat : pb + r = p /\ p <= Len(y) /\ HeadRows(h, y, pb, r)
    BY <1>2 DEF HeadTo
  <2> DEFINE x == h.layer
             s == SnapshotLayer(x)
             l == LoadedLayer(SavedLayer(x))
             z == From(y, pb)
  <2>2. h = [layer |-> x, row_count |-> r, position_base |-> pb] /\ LayerAt(HeadKind, x, z, r, pb)
    BY <2>1 DEF HeadRows
  <2>3. z \in Seq(Nat)
    BY <2>1, FromFacts
  <2> HIDE DEF x, z
  <2>4. LayerAt(HeadKind, s, z, r, pb) /\ LayerAt(HeadKind, l, z, r, pb)
    BY <2>2, <2>3, HeadKindTyped, LayerSnapshot
  <2> DEFINE hs == [layer |-> s, row_count |-> r, position_base |-> pb]
             hl == [layer |-> l, row_count |-> r, position_base |-> pb]
  <2>5. SnapshotHead(h) = hs /\ ReloadedHead(h) = hl
    BY <2>2 DEF SnapshotHead, ReloadedHead
  <2> HIDE DEF s, l
  <2>6. pb + r <= Len(y) /\ LayerAt(HeadKind, s, From(y, pb), r, pb)
        /\ LayerAt(HeadKind, l, From(y, pb), r, pb)
    BY <2>1, <2>4 DEF z
  <2>7. HeadTo(hs, y, pb + r) /\ HeadTo(hl, y, pb + r)
    BY <2>6, HeadBuilt
  <2> HIDE DEF hs, hl
  <2> QED BY <1>2, <2>1, <2>5, <2>7 DEF HeadAt
<1> QED BY <1>1, <1>2 DEF HeadAt

\* What the head holds, in the words of the properties.
LEMMA HeadIs ==
  ASSUME NEW y \in Seq(Nat), NEW n \in Nat, n <= Len(y), NEW h, HeadAt(h, y, n),
         h # NewHead, NEW held, held = Rows(y, 0, n)
  PROVE  /\ h.layer.full.position_base = h.position_base
         /\ h.position_base + h.row_count <= n
         /\ AttentionHolds(h.layer.full,
              Rows(held, h.position_base, h.position_base + h.row_count), h.position_base)
         /\ ReloadedHead(h).layer.full = h.layer.full
         /\ h.position_base # NoBase => HeadFrom(h, y, h.position_base + h.row_count)
         /\ h.position_base + h.row_count \in Nat /\ h.position_base # NoBase
<1>1. PICK p \in Nat : p <= n /\ HeadTo(h, y, p)
  BY DEF HeadAt
<1>2. PICK pb \in Nat, r \in Nat : pb + r = p /\ p <= Len(y) /\ HeadRows(h, y, pb, r)
  BY <1>1 DEF HeadTo
<1> DEFINE x == h.layer
           z == From(y, pb)
           f == x.full
<1>3. h = [layer |-> x, row_count |-> r, position_base |-> pb] /\ LayerAt(HeadKind, x, z, r, pb)
  BY <1>2 DEF HeadRows
<1>4. h.position_base = pb /\ h.row_count = r /\ Attending(f, z, r, pb)
      /\ LoadedLayer(SavedLayer(x)).full = f
  <2>1. LoadedLayer(SavedLayer(x)).full = f
    <3>1. z \in Seq(Nat)
      BY <1>2, FromFacts
    <3>2. LayerAt(HeadKind, x, z, r, pb)
      BY <1>3
    <3> HIDE DEF x, z
    <3>3. LoadedLayer(SavedLayer(x)).full = x.full
      BY <3>1, <3>2, FullReloads
    <3> QED BY <3>3
  <2>2. h.position_base = pb /\ h.row_count = r
    BY <1>3
  <2> QED BY <1>3, <2>1, <2>2, HeadKindTyped DEF LayerAt
<1>5. f.position_base = pb
  BY <1>4 DEF Attending
<1>6. Rows(z, 0, r) = Rows(held, pb, pb + r)
  <2>1. Rows(z, 0, r) = Rows(y, pb, p)
    <3> DEFINE none == 0
    <3>1. none \in Nat /\ none <= r /\ pb + r <= Len(y) /\ pb + none = pb
      BY <1>2
    <3>2. Rows(From(y, pb), none, r) = Rows(y, pb + none, pb + r)
      <4> HIDE DEF none
      <4> QED BY <3>1, FromRows
    <3> QED BY <1>2, <3>1, <3>2
  <2>2. Rows(held, pb, p) = Rows(y, pb, p)
    <3>1. pb <= p
      BY <1>2
    <3> DEFINE T == Nat
    <3>2. y \in Seq(T)
      OBVIOUS
    <3> HIDE DEF T
    <3> QED BY <1>1, <3>1, <3>2, RowsOfFirst
  <2> QED BY <1>2, <2>1, <2>2
<1>7. AttentionHolds(f, Rows(z, 0, r), pb)
  <2>1. z \in Seq(Nat) /\ r <= Len(z) /\ pb \in Int
    BY <1>2, FromFacts
  <2> HIDE DEF z, f
  <2> QED BY <1>4, <2>1, AttendingIs
<1>8. ReloadedHead(h).layer = LoadedLayer(SavedLayer(x))
  BY <1>3 DEF ReloadedHead
<1>9. HeadFrom(h, y, pb + r)
  BY <1>1, <1>2 DEF HeadFrom
<1>10. pb + r <= n /\ pb + r \in Nat /\ pb # NoBase
  BY <1>1, <1>2 DEF NoBase
<1> HIDE DEF z
<1> QED BY <1>4, <1>5, <1>6, <1>7, <1>8, <1>9, <1>10

-----------------------------------------------------------------------------
(***************************************************************************)
(* A prefill call: its chunks cut the rows of the call at cut[0] = n, ..., *)
(* cut[K].  They take turns: chunks 1 .. d-1 have passed the barrier group *)
(* that starts at layer b and the others have reached it, so the layers    *)
(* before the group hold all rows, those of the group the first d-1        *)
(* chunks, those after it none of the call.                                *)
(***************************************************************************)
Cuts(cut, K, y, n) ==
  /\ K \in Nat /\ K > 0 /\ cut[0] = n
  /\ \A c \in 0..K : cut[c] \in Nat /\ cut[c] <= Len(y)
  /\ \A c \in 1..K : cut[c - 1] < cut[c]

Passing(y, cut, K, d, b, end) ==
  [c \in 1..K |-> [next_layer |-> IF c < d THEN end ELSE b,
                   toks |-> Rows(y, cut[c - 1], cut[c])]]

HeldBy(l, cut, K, d, b, end) ==
  IF l <= b THEN cut[K] ELSE IF l <= end THEN cut[d - 1] ELSE cut[0]

Prefilling(cs, tg, y, n, cut, K, d, b) ==
  /\ Cuts(cut, K, y, n) /\ d \in 1..K /\ b \in Nat /\ b < Len(Kinds)
  /\ cs = Passing(y, cut, K, d, b, BarrierEnd(b))
  /\ tg = [layers |-> tg.layers,
           token_count |-> IF BarrierEnd(b) = Len(Kinds) THEN cut[d - 1] ELSE cut[0]]
  /\ \A l \in Layers :
       LayerAt(Kinds[l], tg.layers[l], y, HeldBy(l, cut, K, d, b, BarrierEnd(b)), 0)

LEMMA BarrierFacts ==
  ASSUME NEW b \in Nat, b < Len(Kinds)
  PROVE  BarrierEnd(b) \in Nat /\ b < BarrierEnd(b) /\ BarrierEnd(b) <= Len(Kinds)
<1> DEFINE q == b \div Stride
           m == (q + 1) * Stride
<1>1. m \in Nat /\ b < m
  <2>1. Stride \in Nat /\ Stride > 0
    BY Parameters
  <2>2. \A w \in Nat : w > 0 =>
          b \div w \in Nat /\ ((b \div w) + 1) * w \in Nat /\ b < ((b \div w) + 1) * w
    BY SMT
  <2> QED BY <2>1, <2>2
<1>2. Len(Kinds) \in Nat
  BY Parameters
<1>3. BarrierEnd(b) = MinOf(Len(Kinds), m)
  BY DEF BarrierEnd
<1> HIDE DEF m
<1> QED BY <1>1, <1>2, <1>3 DEF MinOf

\* The chunks of w rows that begin a call of k tokens.
Begun(cs, toks, k, w) ==
  cs = [c \in 1..((k + w - 1) \div w) |->
          [next_layer |-> 0, toks |-> Rows(toks, (c - 1) * w, MinOf(c * w, k))]]

LEMMA BeginHolds ==
  ASSUME NEW y \in Seq(Nat), NEW n \in Nat, NEW k \in Nat, k > 0, n + k <= Len(y),
         NEW w \in Nat, w > 0, NEW tg, TargetAt(tg, y, n),
         NEW cs, Begun(cs, Rows(y, n, n + k), k, w)
  PROVE  cs # <<>> /\ \E cut, K, d, b : Prefilling(cs, tg, y, n, cut, K, d, b)
<1> DEFINE K == Pieces(w, k)
           cut == [c \in 0..K |-> n + Reached(c, w, k)]
           end == n + k
           E == BarrierEnd(0)
<1>1. /\ K \in Nat /\ Reached(0, w, k) = 0 /\ Reached(K, w, k) = k
      /\ \A c \in 1..K :
           /\ Reached(c - 1, w, k) = (c - 1) * w /\ Reached(c - 1, w, k) \in Nat
           /\ Reached(c, w, k) \in Nat /\ Reached(c - 1, w, k) < Reached(c, w, k)
           /\ Reached(c, w, k) <= k
  BY PieceFacts
<1>2. K = (k + w - 1) \div w
  BY DEF Pieces
<1> HIDE DEF K
<1>3. K > 0
  <2>1. K # 0
    BY <1>1
  <2> QED BY <1>1, <2>1
<1>4. Len(y) \in Nat /\ end \in Nat /\ n <= end /\ end <= Len(y)
  BY LenProperties
<1>5. \A c \in 0..K : Reached(c, w, k) \in Nat /\ Reached(c, w, k) <= k
                      /\ cut[c] = n + Reached(c, w, k)
  <2>1. \A c \in 0..K : c = 0 \/ c \in 1..K
    BY <1>1
  <2> QED BY <1>1, <2>1
<1>6. Cuts(cut, K, y, n)
  <2>1. cut[0] = n
    <3>1. 0 \in 0..K /\ n + 0 = n
      BY <1>1
    <3> QED BY <1>1, <3>1
  <2>2. ASSUME NEW c \in 0..K PROVE cut[c] \in Nat /\ cut[c] <= Len(y)
    <3> DEFINE r == Reached(c, w, k)
    <3>1. r \in Nat /\ r <= k /\ cut[c] = n + r
      BY <1>5
    <3> HIDE DEF r, cut
    <3> QED BY <1>4, <3>1
  <2>3. ASSUME NEW c \in 1..K PROVE cut[c - 1] < cut[c]
    <3> DEFINE r == Reached(c, w, k)
               q == Reached(c - 1, w, k)
    <3>1. r \in Nat /\ q \in Nat /\ q < r
      BY <1>1
    <3>2. c \in 0..K /\ c - 1 \in 0..K
      BY <1>1
    <3>3. cut[c] = n + r /\ cut[c - 1] = n + q
      BY <1>5, <3>2
    <3> HIDE DEF r, q, cut
    <3> QED BY <3>1, <3>3
  <2> HIDE DEF cut
  <2> QED BY <1>1, <1>3, <2>1, <2>2, <2>3 DEF Cuts
<1>7. ASSUME NEW c \in 1..K
      PROVE  Rows(Rows(y, n, end), (c - 1) * w, MinOf(c * w, k)) = Rows(y, cut[c - 1], cut[c])
  <2> DEFINE lo == Reached(c - 1, w, k)
             hi == Reached(c, w, k)
             T == Nat
  <2>1. lo = (c - 1) * w /\ lo \in Nat /\ hi \in Nat /\ lo < hi /\ hi <= k /\ hi = MinOf(c * w, k)
    BY <1>1 DEF Reached
  <2>2. c \in 0..K /\ c - 1 \in 0..K
    BY <1>1
  <2>3. cut[c] = n + hi /\ cut[c - 1] = n + lo
    BY <1>5, <2>2
  <2>4. y \in Seq(T) /\ lo <= hi /\ hi <= end - n
    BY <2>1
  <2>5. Rows(Rows(y, n, end), (c - 1) * w, MinOf(c * w, k)) = Rows(Rows(y, n, end), lo, hi)
    BY <2>1
  <2> HIDE DEF lo, hi, T, end, cut
  <2>6. Rows(Rows(y, n, end), lo, hi) = Rows(y, n + lo, n + hi)
    <3>1. /\ y \in Seq(T) /\ end \in Nat /\ n <= end /\ end <= Len(y)
          /\ lo \in Nat /\ hi \in Nat /\ lo <= hi /\ hi <= end - n
      BY <1>4, <2>1, <2>4
    <3> QED BY <3>1, RowsOfRows
  <2> QED BY <2>3, <2>5, <2>6
<1> HIDE DEF cut
<1>8. cs = Passing(y, cut, K, 1, 0, E)
  <2>1. \A c \in 1..K : (IF c < 1 THEN E ELSE 0) = 0
    BY <1>1
  <2>2. cs = [c \in 1..K |-> [next_layer |-> 0,
                 toks |-> Rows(Rows(y, n, end), (c - 1) * w, MinOf(c * w, k))]]
    BY <1>2 DEF Begun
  <2> HIDE DEF E, end
  <2> QED BY <1>7, <2>1, <2>2 DEF Passing
<1>9. /\ cut[0] = n /\ cut[1 - 1] = n /\ tg = [layers |-> tg.layers, token_count |-> n]
      /\ \A l \in Layers : LayerAt(Kinds[l], tg.layers[l], y, n, 0)
  <2>1. 1 - 1 = 0
    OBVIOUS
  <2> QED BY <1>6, <2>1 DEF Cuts, TargetAt
<1>10. ASSUME NEW l \in Layers
       PROVE  LayerAt(Kinds[l], tg.layers[l], y, HeldBy(l, cut, K, 1, 0, E), 0)
  <2>1. ~(l <= 0)
    BY Parameters
  <2>2. HeldBy(l, cut, K, 1, 0, E) = n
    BY <1>9, <2>1 DEF HeldBy
  <2> QED BY <1>9, <2>2
<1>11. tg = [layers |-> tg.layers,
             token_count |-> IF E = Len(Kinds) THEN cut[1 - 1] ELSE cut[0]]
  BY <1>9
<1>12. 1 \in 1..K /\ 0 \in Nat /\ 0 < Len(Kinds)
  BY <1>1, <1>3, Parameters
<1>13. Prefilling(cs, tg, y, n, cut, K, 1, 0)
  BY <1>6, <1>8, <1>10, <1>11, <1>12 DEF Prefilling
<1>14. cs # <<>>
  <2> DEFINE T == {cs[c] : c \in 1..K}
  <2>1. cs \in [1..K -> T]
    BY <1>8 DEF Passing
  <2> HIDE DEF T
  <2>2. cs \in Seq(T) /\ Len(cs) = K
    BY <1>1, <2>1, ListIsSeq
  <2>3. <<>> \in Seq(T) /\ Len(<<>>) = 0
    BY EmptySeq
  <2>4. K # 0
    BY <1>3
  <2>5. Len(cs) # Len(<<>>)
    BY <2>2, <2>3, <2>4, Zenon
  <2> QED BY <2>5, Zenon
<1> QED BY <1>13, <1>14

LEMMA PassingFacts ==
  ASSUME NEW y, NEW cut, NEW K \in Nat, NEW d \in 1..K, NEW b, NEW end,
         NEW cs, cs = Passing(y, cut, K, d, b, end)
  PROVE  /\ DOMAIN cs = 1..K /\ Len(cs) = K
         /\ \A c \in 1..K : /\ cs[c].next_layer = IF c < d THEN end ELSE b
                            /\ cs[c].toks = Rows(y, cut[c - 1], cut[c])
<1> DEFINE T == {cs[c] : c \in 1..K}
<1>1. cs \in [1..K -> T]
  BY DEF Passing
<1> HIDE DEF T
<1>2. Len(cs) = K
  BY <1>1, ListIsSeq
<1>3. ASSUME NEW c \in 1..K
      PROVE  /\ cs[c].next_layer = IF c < d THEN end ELSE b
             /\ cs[c].toks = Rows(y, cut[c - 1], cut[c])
  BY DEF Passing
<1> QED BY <1>1, <1>2, <1>3

\* The chunk in turn is the first that has not passed the group.
LEMMA TurnIs ==
  ASSUME NEW y, NEW cut, NEW K \in Nat, NEW d \in 1..K, NEW b \in Nat, NEW end \in Nat, b < end,
         chunks = Passing(y, cut, K, d, b, end)
  PROVE  ChunkInTurn = d
<1> DEFINE at(c) == chunks[c].next_layer
           First(c) == \A e \in 1..K : at(c) < at(e) \/ (at(c) = at(e) /\ c <= e)
<1>1. DOMAIN chunks = 1..K /\ \A c \in 1..K : at(c) = IF c < d THEN end ELSE b
  BY PassingFacts
<1>2. ChunkInTurn = CHOOSE c \in 1..K : First(c)
  BY <1>1 DEF ChunkInTurn
<1> HIDE DEF at
<1>3. First(d)
  <2>1. ASSUME NEW e \in 1..K PROVE at(d) < at(e) \/ (at(d) = at(e) /\ d <= e)
    BY <1>1
  <2> QED BY <2>1
<1>4. ASSUME NEW c \in 1..K, First(c) PROVE c = d
  <2>1. at(c) < at(d) \/ (at(c) = at(d) /\ c <= d)
    BY <1>4
  <2> QED BY <1>1, <2>1
<1> HIDE DEF First
<1>5. (CHOOSE c \in 1..K : First(c)) = d
  BY <1>3, <1>4
<1> QED BY <1>2, <1>5

\* The group moves the layers of the group on by the chunk, and at the last
\* group the length of the state.
AdvancedTo(u, y, cut, K, d, b) ==
  /\ u = [layers |-> u.layers,
          token_count |-> IF BarrierEnd(b) = Len(Kinds) THEN cut[d] ELSE cut[0]]
  /\ \A l \in Layers :
       LayerAt(Kinds[l], u.layers[l], y,
               IF l <= b THEN cut[K] ELSE IF l <= BarrierEnd(b) THEN cut[d] ELSE cut[0], 0)

LEMMA AdvancedHolds ==
  ASSUME opt \in Options, NEW y \in Seq(Nat), NEW n \in Nat, NEW cut, NEW K \in Nat,
         NEW d \in 1..K, NEW b \in Nat, NEW cs, NEW tg, Prefilling(cs, tg, y, n, cut, K, d, b),
         NEW u, u = Advanced(tg, cs[d])
  PROVE  AdvancedTo(u, y, cut, K, d, b)
<1> DEFINE E == BarrierEnd(b)
           lo == cut[d - 1]
           hi == cut[d]
           k == hi - lo
           toks == Rows(y, lo, hi)
           count == IF E = Len(Kinds) THEN lo ELSE cut[0]
           old == tg.layers
           new == [l \in Layers |-> IF b < l /\ l <= E
                                    THEN LayerPrefill(Kinds[l], old[l], opt, toks) ELSE old[l]]
<1>1. /\ Cuts(cut, K, y, n) /\ cs = Passing(y, cut, K, d, b, E) /\ b < Len(Kinds)
      /\ tg = [layers |-> old, token_count |-> count]
      /\ \A l \in Layers : LayerAt(Kinds[l], old[l], y, HeldBy(l, cut, K, d, b, E), 0)
  BY DEF Prefilling
<1>2. cs[d].next_layer = b /\ cs[d].toks = toks
  <2>1. ~(d < d)
    OBVIOUS
  <2> QED BY <1>1, <2>1, PassingFacts
<1>3. lo \in Nat /\ hi \in Nat /\ lo < hi /\ hi <= Len(y) /\ k \in Nat /\ k > 0 /\ lo + k = hi
  <2>1. d \in 0..K /\ d - 1 \in 0..K
    OBVIOUS
  <2>2. lo \in Nat /\ hi \in Nat /\ lo < hi /\ hi <= Len(y)
    BY <1>1, <2>1 DEF Cuts
  <2> QED BY <2>2
<1>4. b < E /\ E \in Nat /\ E <= Len(Kinds)
  BY <1>1, BarrierFacts
<1>5. Len(toks) = k
  <2>1. y \in Seq(Nat) /\ lo \in Nat /\ k \in Nat /\ lo + k <= Len(y) /\ lo + k = hi
    BY <1>3
  <2> HIDE DEF lo, hi, k, toks
  <2>2. Len(Rows(y, lo, lo + k)) = k
    BY <2>1, NextRows
  <2> QED BY <2>1, <2>2 DEF toks
<1>6. u = [layers |-> new, token_count |-> IF E = Len(Kinds) THEN hi ELSE cut[0]]
  <2>1. tg.token_count = count
    BY <1>1
  <2>2. cut[0] \in Nat
    <3>1. 0 \in 0..K
      OBVIOUS
    <3> QED BY <1>1, <3>1 DEF Cuts
  <2>3. count + (IF E = Len(Kinds) THEN k ELSE 0) = IF E = Len(Kinds) THEN hi ELSE cut[0]
    BY <1>3, <2>2
  <2>4. u = [layers |-> new, token_count |-> tg.token_count
                                               + (IF E = Len(Kinds) THEN Len(toks) ELSE 0)]
    <3> HIDE DEF lo, hi, count, toks
    <3> QED BY <1>2 DEF Advanced
  <2> HIDE DEF new, count, k, hi, E
  <2> QED BY <1>5, <2>1, <2>3, <2>4
<1>7. ASSUME NEW l \in Layers
      PROVE  LayerAt(Kinds[l], new[l], y,
                     IF l <= b THEN cut[K] ELSE IF l <= E THEN hi ELSE cut[0], 0)
  <2>0. l \in Nat /\ Kinds[l] \in LayerKinds
    BY Parameters
  <2>1. LayerAt(Kinds[l], old[l], y, IF l <= b THEN cut[K] ELSE IF l <= E THEN lo ELSE cut[0], 0)
    BY <1>1 DEF HeldBy
  <2>2. CASE b < l /\ l <= E
    <3>1. LayerAt(Kinds[l], old[l], y, lo, 0) /\ 0 \in Int
      BY <2>0, <2>1, <2>2
    <3>2. new[l] = LayerPrefill(Kinds[l], old[l], opt, toks)
      BY <2>2
    <3>3. lo \in Nat /\ k \in Nat /\ k > 0 /\ lo + k <= Len(y) /\ toks = Rows(y, lo, lo + k)
          /\ lo + k = hi
      BY <1>3
    <3> HIDE DEF lo, hi, k, toks, new, old
    <3>4. LayerAt(Kinds[l], LayerPrefill(Kinds[l], old[l], opt, Rows(y, lo, lo + k)), y, lo + k, 0)
      BY <2>0, <3>1, <3>3, LayerPrefillHolds
    <3>5. LayerAt(Kinds[l], new[l], y, hi, 0)
      BY <3>2, <3>3, <3>4
    <3> HIDE DEF E
    <3> QED BY <2>0, <2>2, <3>5
  <2>3. CASE l <= b
    <3>1. LayerAt(Kinds[l], old[l], y, cut[K], 0)
      BY <2>1, <2>3
    <3>2. new[l] = old[l]
      BY <2>0, <2>3
    <3> HIDE DEF new, old, E, hi
    <3> QED BY <2>3, <3>1, <3>2
  <2>4. CASE l > E
    <3>0. ~(l <= b) /\ ~(l <= E)
      BY <1>4, <2>0, <2>4
    <3>1. LayerAt(Kinds[l], old[l], y, cut[0], 0)
      BY <2>1, <3>0
    <3>2. new[l] = old[l]
      BY <3>0
    <3> HIDE DEF new, old, E, hi
    <3> QED BY <3>0, <3>1, <3>2
  <2> QED BY <1>4, <2>0, <2>2, <2>3, <2>4
<1> HIDE DEF new
<1>8. u.layers = new
  BY <1>6
<1> QED BY <1>6, <1>7, <1>8 DEF AdvancedTo

\* Every chunk begins at or after the first of its call.
LEMMA CutsRise ==
  ASSUME NEW y \in Seq(Nat), NEW n \in Nat, NEW cut, NEW K, Cuts(cut, K, y, n)
  PROVE  \A c \in 0..K : n <= cut[c]
<1> DEFINE P == {c \in Nat : c <= K => n <= cut[c]}
<1>0. /\ K \in Nat /\ cut[0] = n /\ \A c \in 0..K : cut[c] \in Nat
      /\ \A c \in 1..K : cut[c - 1] < cut[c]
  BY DEF Cuts
<1>1. 0 \in P
  BY <1>0
<1>2. ASSUME NEW c \in Nat, c \in P PROVE c + 1 \in P
  <2>1. SUFFICES ASSUME c + 1 <= K PROVE n <= cut[c + 1]
    OBVIOUS
  <2>2. c + 1 \in 1..K /\ (c + 1) - 1 = c /\ c \in 0..K /\ c + 1 \in 0..K /\ n <= cut[c]
    BY <1>0, <1>2, <2>1
  <2>3. cut[c] < cut[c + 1] /\ cut[c] \in Nat /\ cut[c + 1] \in Nat
    BY <1>0, <2>2
  <2> QED BY <2>2, <2>3
<1>3. \A c \in Nat : c \in P
  <2> HIDE DEF P
  <2> QED BY <1>1, <1>2, NatInduct
<1> QED BY <1>0, <1>3

\* The rows of the chunks of a call, as AdvancePrefill gathers them.
Gathered(cs) ==
  LET rows[c \in 0..Len(cs)] == IF c = 0 THEN <<>> ELSE rows[c - 1] \o cs[c].toks
  IN rows[Len(cs)]

\* The rows of all chunks together.
\* Gathered, they are the rows of the call.
LEMMA ChunkRows ==
  ASSUME NEW y \in Seq(Nat), NEW n \in Nat, NEW cut, NEW K \in Nat, Cuts(cut, K, y, n),
         NEW d \in 1..K, NEW b, NEW end, NEW cs, cs = Passing(y, cut, K, d, b, end)
  PROVE  Gathered(cs) = Rows(y, n, cut[K])
<1> DEFINE A == [c \in 0..K |-> {Rows(y, n, cut[c])}]
           step(c, x) == x \o cs[c].toks
           Is(f) == f = [c \in 0..Len(cs) |-> IF c = 0 THEN <<>> ELSE f[c - 1] \o cs[c].toks]
           g == [c \in 1..K |-> [x \in A[c - 1] |-> step(c, x)]]
           rows == CHOOSE f : Is(f)
<1>1. Len(cs) = K /\ \A c \in 1..K : cs[c].toks = Rows(y, cut[c - 1], cut[c])
  BY PassingFacts
<1>2. /\ cut[0] = n /\ \A c \in 0..K : cut[c] \in Nat /\ cut[c] <= Len(y)
      /\ \A c \in 1..K : cut[c - 1] < cut[c]
  BY DEF Cuts
<1>3. Rows(y, n, n) = <<>>
  <2> DEFINE T == Nat
  <2>1. y \in Seq(T) /\ n <= Len(y) /\ n <= n /\ n - n = 0
    <3>1. 0 \in 0..K
      OBVIOUS
    <3> QED BY <1>2, <3>1
  <2> HIDE DEF T
  <2>2. Rows(y, n, n) \in Seq(T) /\ Len(Rows(y, n, n)) = n - n
    BY <2>1, RowsFacts
  <2>3. Rows(y, n, n) # <<>> => Len(Rows(y, n, n)) \in Nat \ {0}
    BY <2>2, EmptySeq
  <2> QED BY <2>1, <2>2, <2>3
<1>4. <<>> \in A[0]
  <2>1. 0 \in 0..K
    OBVIOUS
  <2> QED BY <1>2, <1>3, <2>1
<1>5. \A c \in 0..K : n <= cut[c]
  BY CutsRise, Zenon
<1>6. ASSUME NEW c \in 1..K, NEW x \in A[c - 1] PROVE step(c, x) \in A[c]
  <2> DEFINE lo == cut[c - 1]
             hi == cut[c]
             T == Nat
  <2>1. c - 1 \in 0..K /\ c \in 0..K
    OBVIOUS
  <2>2. x = Rows(y, n, lo) /\ cs[c].toks = Rows(y, lo, hi)
    BY <1>1, <1>6, <2>1
  <2>3. lo \in Nat /\ hi \in Nat /\ n <= lo /\ lo <= hi /\ hi <= Len(y) /\ y \in Seq(T)
    BY <1>2, <1>5, <2>1
  <2> HIDE DEF lo, hi, T
  <2>4. Rows(y, n, lo) \o Rows(y, lo, hi) = Rows(y, n, hi)
    BY <2>3, RowsJoin
  <2>5. step(c, x) = Rows(y, n, hi)
    BY <2>2, <2>4
  <2> QED BY <2>1, <2>5 DEF hi
<1> HIDE DEF A
<1>7. \E f : Is(f)
  <2>1. \A c \in 1..K : \A x \in A[c - 1] : g[c][x] = step(c, x)
    OBVIOUS
  <2>2. PICK f : Chained(f, K, <<>>, g) /\ \A c \in 0..K : f[c] \in A[c]
    <3>1. \A c \in 1..K : \A x \in A[c - 1] : g[c][x] \in A[c]
      BY <1>6, <2>1
    <3> HIDE DEF g
    <3> QED BY <1>4, <3>1, ChainHolds
  <2>3. f = [c \in 0..K |-> IF c = 0 THEN <<>> ELSE g[c][f[c - 1]]]
    BY <2>2 DEF Chained
  <2>4. ASSUME NEW c \in 0..K, c # 0 PROVE g[c][f[c - 1]] = f[c - 1] \o cs[c].toks
    <3>1. c \in 1..K /\ c - 1 \in 0..K
      BY <2>4
    <3>2. f[c - 1] \in A[c - 1]
      BY <2>2, <3>1
    <3> QED BY <2>1, <3>1, <3>2
  <2> HIDE DEF g
  <2>5. Is(f)
    BY <1>1, <2>3, <2>4
  <2> QED BY <2>5
<1>8. Is(rows)
  BY <1>7
<1> HIDE DEF rows
<1>9. rows[0] = <<>> /\ \A c \in 1..K : rows[c] = step(c, rows[c - 1])
  <2>1. rows = [c \in 0..K |-> IF c = 0 THEN <<>> ELSE rows[c - 1] \o cs[c].toks]
    BY <1>1, <1>8
  <2>2. 0 \in 0..K /\ \A c \in 1..K : c \in 0..K /\ c # 0
    OBVIOUS
  <2> QED BY <2>1, <2>2
<1>10. \A c \in 0..K : rows[c] \in A[c]
  BY <1>4, <1>6, <1>9, ChainStays
<1>11. rows[K] = Rows(y, n, cut[K])
  <2>1. K \in 0..K
    OBVIOUS
  <2> QED BY <1>10, <2>1 DEF A
<1> QED BY <1>1, <1>11 DEF rows, Gathered

LEMMA PassingSome ==
  ASSUME NEW y, NEW cut, NEW K \in Nat, NEW d \in 1..K, NEW b, NEW end
  PROVE  Passing(y, cut, K, d, b, end) # <<>>
<1> DEFINE cs == Passing(y, cut, K, d, b, end)
           T == {cs[c] : c \in 1..K}
<1>1. Len(cs) = K
  BY PassingFacts
<1>2. <<>> \in Seq(T) /\ Len(<<>>) = 0
  BY EmptySeq
<1>3. K # 0
  OBVIOUS
<1> HIDE DEF cs
<1>4. Len(cs) # Len(<<>>)
  BY <1>1, <1>2, <1>3, Zenon
<1>5. cs # <<>>
  BY <1>4, Zenon
<1> QED BY <1>5 DEF cs

MovedAt(cs, d) == [cs EXCEPT ![d].next_layer = BarrierEnd(@)]

LEMMA MovedIs ==
  ASSUME NEW y, NEW cut, NEW K \in Nat, NEW d \in 1..K, NEW b, NEW end, end = BarrierEnd(b),
         NEW cs, cs = Passing(y, cut, K, d, b, end),
         NEW moved, moved = MovedAt(cs, d)
  PROVE  MovedAt(cs, d) = Passing(y, cut, K, d + 1, b, end)
<1> DEFINE rec(c, x) == [next_layer |-> x, toks |-> Rows(y, cut[c - 1], cut[c])]
<1>1. cs = [c \in 1..K |-> rec(c, IF c < d THEN end ELSE b)]
  BY DEF Passing
<1>2. \A c : \A x, z : /\ rec(c, x).next_layer = x
                       /\ [rec(c, x) EXCEPT !.next_layer = z] = rec(c, z)
  OBVIOUS
<1> HIDE DEF rec
<1>3. cs[d] = rec(d, b) /\ DOMAIN cs = 1..K
  BY <1>1
<1>4. moved = [c \in 1..K |-> IF c = d THEN rec(d, end) ELSE cs[c]]
  <2>1. moved = [cs EXCEPT ![d] = [cs[d] EXCEPT !.next_layer = BarrierEnd(cs[d].next_layer)]]
    BY DEF MovedAt
  <2>2. [cs[d] EXCEPT !.next_layer = BarrierEnd(cs[d].next_layer)] = rec(d, end)
    BY <1>2, <1>3
  <2>3. moved = [cs EXCEPT ![d] = rec(d, end)]
    BY <2>1, <2>2
  <2> QED BY <1>1, <1>3, <2>3
<1>5. ASSUME NEW c \in 1..K
      PROVE  (IF c = d THEN rec(d, end) ELSE cs[c]) = rec(c, IF c < d + 1 THEN end ELSE b)
  <2>1. CASE c = d
    BY <2>1
  <2>2. CASE c # d
    <3>1. c < d <=> c < d + 1
      BY <2>2
    <3> QED BY <1>1, <2>2, <3>1
  <2> QED BY <2>1, <2>2
<1>6. moved = [c \in 1..K |-> rec(c, IF c < d + 1 THEN end ELSE b)]
  BY <1>4, <1>5
<1> QED BY <1>6 DEF rec, Passing

LEMMA AdvanceHolds ==
  ASSUME opt \in Options, NEW y \in Seq(Nat), NEW n \in Nat, NEW cut, NEW K \in Nat,
         NEW d \in 1..K, NEW b \in Nat, Prefilling(chunks, target, y, n, cut, K, d, b),
         NEW moved, moved = [chunks EXCEPT ![ChunkInTurn].next_layer = BarrierEnd(@)],
         NEW u, u = Advanced(target, chunks[ChunkInTurn])
  PROVE  /\ (\A c \in DOMAIN moved : moved[c].next_layer = Len(Kinds)) => TargetAt(u, y, cut[K])
         /\ ~(\A c \in DOMAIN moved : moved[c].next_layer = Len(Kinds)) =>
              moved # <<>> /\ \E d2, b2 : Prefilling(moved, u, y, n, cut, K, d2, b2)
<1> DEFINE E == BarrierEnd(b)
           L == Len(Kinds)
           nl(c) == IF c < d + 1 THEN E ELSE b
<1>1. Cuts(cut, K, y, n) /\ chunks = Passing(y, cut, K, d, b, E) /\ b < L
  BY DEF Prefilling
<1>2. b < E /\ E \in Nat /\ E <= L /\ L \in Nat /\ L > 0
  BY <1>1, BarrierFacts, Parameters
<1>3. ChunkInTurn = d
  BY <1>1, <1>2, TurnIs
<1>4. moved = [c \in 1..K |-> [next_layer |-> nl(c), toks |-> Rows(y, cut[c - 1], cut[c])]]
  <2>1. moved = MovedAt(chunks, d)
    BY <1>3 DEF MovedAt
  <2> HIDE DEF E
  <2>2. E = BarrierEnd(b)
    BY DEF E
  <2>3. chunks = Passing(y, cut, K, d, b, E)
    BY <1>1
  <2>4. MovedAt(chunks, d) = Passing(y, cut, K, d + 1, b, E)
    BY <2>2, <2>3, MovedIs
  <2> QED BY <2>1, <2>4 DEF Passing
<1>5. DOMAIN moved = 1..K /\ \A c \in 1..K : moved[c].next_layer = nl(c)
  BY <1>4
<1>6. /\ u = [layers |-> u.layers, token_count |-> IF E = L THEN cut[d] ELSE cut[0]]
      /\ \A l \in Layers :
           LayerAt(Kinds[l], u.layers[l], y,
                   IF l <= b THEN cut[K] ELSE IF l <= E THEN cut[d] ELSE cut[0], 0)
  <2>1. u = Advanced(target, chunks[d])
    BY <1>3
  <2>2. AdvancedTo(u, y, cut, K, d, b)
    BY <2>1, AdvancedHolds
  <2> QED BY <2>2 DEF AdvancedTo
<1>7. \A l \in Layers : l \in Nat /\ l <= L
  BY Parameters
<1> HIDE DEF E, L
<1>8. CASE d < K
  <2> DEFINE e == d + 1
  <2>1. e \in 1..K /\ e - 1 = d
    BY <1>8
  <2>2. nl(K) = b /\ K \in 1..K
    BY <1>8
  <2>3. ~(\A c \in DOMAIN moved : moved[c].next_layer = L)
    BY <1>1, <1>2, <1>5, <2>2
  <2>4. moved = Passing(y, cut, K, e, b, E)
    BY <1>4 DEF Passing
  <2> HIDE DEF e
  <2>5. Prefilling(moved, u, y, n, cut, K, e, b)
    BY <1>1, <1>6, <2>1, <2>4 DEF Prefilling, HeldBy, E, L
  <2>6. moved # <<>>
    BY <2>1, <2>4, PassingSome
  <2> QED BY <2>3, <2>5, <2>6 DEF L
<1>9. CASE d = K /\ E = L
  <2>1. \A c \in DOMAIN moved : moved[c].next_layer = L
    BY <1>5, <1>9
  <2>2. u = [layers |-> u.layers, token_count |-> cut[K]]
    BY <1>6, <1>9
  <2>3. \A l \in Layers : LayerAt(Kinds[l], u.layers[l], y, cut[K], 0)
    BY <1>6, <1>7, <1>9
  <2>4. TargetAt(u, y, cut[K])
    BY <2>2, <2>3 DEF TargetAt
  <2> QED BY <2>1, <2>4 DEF L
<1>10. CASE d = K /\ E # L
  <2> DEFINE F == BarrierEnd(E)
  <2>1. E < L /\ 1 \in 1..K
    BY <1>2, <1>10
  <2>2. F \in Nat /\ E < F
    BY <1>2, <2>1, BarrierFacts DEF L
  <2>3. ~(\A c \in DOMAIN moved : moved[c].next_layer = L)
    <3>1. nl(d) = E /\ d \in DOMAIN moved
      BY <1>5
    <3> QED BY <1>5, <1>10, <3>1
  <2>4. moved = Passing(y, cut, K, 1, E, F)
    <3>1. ASSUME NEW c \in 1..K PROVE nl(c) = (IF c < 1 THEN F ELSE E)
      <4>1. c < d + 1 /\ ~(c < 1)
        BY <1>10
      <4> QED BY <4>1
    <3> HIDE DEF nl, F
    <3> QED BY <1>4, <3>1 DEF Passing
  <2>5. u = [layers |-> u.layers, token_count |-> IF F = L THEN cut[1 - 1] ELSE cut[0]]
    <3>1. 1 - 1 = 0
      OBVIOUS
    <3> QED BY <1>6, <1>10, <3>1
  <2>6. ASSUME NEW l \in Layers
        PROVE  LayerAt(Kinds[l], u.layers[l], y, HeldBy(l, cut, K, 1, E, F), 0)
    <3>1. (IF l <= b THEN cut[K] ELSE IF l <= E THEN cut[d] ELSE cut[0])
            = HeldBy(l, cut, K, 1, E, F)
      <4>1. 1 - 1 = 0 /\ (l <= b => l <= E)
        BY <1>2, <1>7
      <4> HIDE DEF F
      <4> QED BY <1>10, <4>1 DEF HeldBy
    <3> HIDE DEF F
    <3> QED BY <1>6, <3>1
  <2>7. Prefilling(moved, u, y, n, cut, K, 1, E)
    BY <1>1, <1>2, <2>1, <2>4, <2>5, <2>6 DEF Prefilling, F, L
  <2>8. moved # <<>>
    BY <2>1, <2>4, PassingSome
  <2> QED BY <2>3, <2>7, <2>8 DEF L
<1>11. d < K \/ (d = K /\ E = L) \/ (d = K /\ E # L)
  OBVIOUS
<1> QED BY <1>8, <1>9, <1>10, <1>11, Zenon

-----------------------------------------------------------------------------
(* The inductive invariant: the tokens fed are the beginning of the text,  *)
(* the head is where some rows of them have left it, and so is the target  *)
(* outside a prefill; inside one, every layer has the chunks that have     *)
(* passed it.                                                              *)

Held ==
  /\ opt \in Options /\ text \in Texts
  /\ Len(fed) \in Nat /\ Len(fed) <= Len(text) /\ fed = Rows(text, 0, Len(fed))
  /\ HeadAt(head, text, Len(fed))
  /\ chunks = <<>> => TargetAt(target, text, Len(fed))
  /\ chunks # <<>> =>
       \E cut, K, d, b : Prefilling(chunks, target, text, Len(fed), cut, K, d, b)

\* What the invariant says between two calls, of n tokens fed.
AtRest(n) ==
  /\ opt \in Options /\ text \in Texts /\ text \in Seq(Nat)
  /\ n = Len(fed) /\ n <= Len(text) /\ fed = Rows(text, 0, n)
  /\ HeadAt(head, text, n) /\ TargetAt(target, text, n)

\* Between two calls the invariant is AtRest.
LEMMA RestFacts == ASSUME Held, Ready PROVE \E n \in Nat : AtRest(n)
<1>1. text \in Seq(Nat)
  BY Parameters DEF Held
<1>2. AtRest(Len(fed))
  BY <1>1, Zenon DEF Held, Ready, AtRest
<1>3. Len(fed) \in Nat
  BY DEF Held
<1> QED
  BY <1>2, <1>3

\* A call that leaves everything at m tokens of the text keeps the invariant.
LEMMA Rests ==
  ASSUME NEW m \in Nat, opt' \in Options, text' \in Texts, m <= Len(text'),
         fed' = Rows(text', 0, m), HeadAt(head', text', m), TargetAt(target', text', m),
         chunks' = <<>>
  PROVE  Held'
<1>1. text' \in Seq(Nat)
  BY Parameters
<1>2. Len(Rows(text', 0, m)) = m
  BY <1>1, FirstRows
<1>3. m = Len(fed')
  BY <1>2
<1> QED
  BY <1>3, Zenon DEF Held

\* The tokens fed next, and what has then been fed.
LEMMA FedGrows ==
  ASSUME NEW n \in Nat, AtRest(n), NEW k \in Nat, n + k <= Len(text)
  PROVE  /\ Upcoming(k) = Rows(text, n, n + k)
         /\ fed \o Upcoming(k) = Rows(text, 0, n + k)
         /\ k > 0 => Upcoming(k)[1] = text[n + 1]
<1>1. text \in Seq(Nat) /\ n = Len(fed) /\ fed = Rows(text, 0, n)
  BY DEF AtRest
<1>2. Upcoming(k) = Rows(text, n, n + k)
  BY <1>1, Zenon DEF Upcoming
<1>3. Rows(text, 0, n) \o Rows(text, n, n + k) = Rows(text, 0, n + k)
  BY <1>1, RowsGrow
<1>4. n <= n + k /\ n + k \in Nat /\ (n + k) - n = k
  OBVIOUS
<1>5. \A i \in 1..k : Rows(text, n, n + k)[i] = text[n + i]
  BY <1>1, NextRows
<1>6. k > 0 => 1 \in 1..k
  OBVIOUS
<1>7. fed \o Upcoming(k) = Rows(text, 0, n + k)
  BY <1>1, <1>2, <1>3, Zenon
<1>8. k > 0 => Upcoming(k)[1] = text[n + 1]
  BY <1>2, <1>5, <1>6, Zenon
<1> QED
  BY <1>2, <1>7, <1>8, Zenon

\* The head stays where it is as more tokens are fed.
LEMMA HeadWaits ==
  ASSUME NEW h, NEW y, NEW n \in Nat, NEW m \in Nat, n <= m, HeadAt(h, y, n)
  PROVE  HeadAt(h, y, m)
<1>1. \A p \in Nat : p <= n => p <= m
  OBVIOUS
<1> QED
  BY <1>1, Zenon DEF HeadAt

LEMMA HeadComes ==
  ASSUME NEW h, NEW y, NEW p \in Nat, NEW m \in Nat, p <= m, HeadTo(h, y, p)
  PROVE  HeadAt(h, y, m)
BY Zenon DEF HeadAt

LEMMA DecodeKeeps == ASSUME Held, Decode PROVE Held'
<1>1. PICK n \in Nat : AtRest(n)
  BY RestFacts, Zenon DEF Decode
<1>2. /\ opt \in Options /\ text \in Texts /\ text \in Seq(Nat) /\ n = Len(fed)
      /\ HeadAt(head, text, n) /\ TargetAt(target, text, n)
  BY <1>1 DEF AtRest
<1>3. /\ Len(fed) < Len(text) /\ target' = Decoded(target, Upcoming(1)[1])
      /\ fed' = fed \o Upcoming(1) /\ opt' = opt /\ text' = text /\ head' = head
      /\ chunks' = <<>>
  BY DEF Decode, Ready
<1>4. n + 1 <= Len(text) /\ n + 1 \in Nat /\ n <= n + 1 /\ 1 > 0 /\ 1 \in Nat
  BY <1>2, <1>3, LenProperties
<1>5. fed' = Rows(text, 0, n + 1) /\ Upcoming(1)[1] = text[n + 1]
  BY <1>1, <1>3, <1>4, FedGrows, Zenon
<1>6. TargetAt(target', text, n + 1)
  BY <1>2, <1>3, <1>4, <1>5, DecodedHolds, Zenon
<1>7. HeadAt(head, text, n + 1)
  BY <1>2, <1>4, HeadWaits, Zenon
<1> QED
  BY <1>2, <1>3, <1>4, <1>5, <1>6, <1>7, Rests, Zenon

LEMMA BatchKeeps ==
  ASSUME Held, NEW rows \in Nat, NEW mine \in 1..rows, DecodeInBatch(rows, mine)
  PROVE  Held'
<1> DEFINE states == [r \in 1..rows |-> IF r = mine THEN target ELSE NewTarget]
           toks   == [r \in 1..rows |-> IF r = mine THEN Upcoming(1)[1] ELSE Wrong]
<1>1. PICK n \in Nat : AtRest(n)
  BY RestFacts, Zenon DEF DecodeInBatch
<1>2. /\ opt \in Options /\ text \in Texts /\ text \in Seq(Nat) /\ n = Len(fed)
      /\ HeadAt(head, text, n) /\ TargetAt(target, text, n)
  BY <1>1 DEF AtRest
<1>3. /\ Len(fed) < Len(text) /\ target' = DecodedMulti(states, toks)[mine]
      /\ fed' = fed \o Upcoming(1) /\ opt' = opt /\ text' = text /\ head' = head
      /\ chunks' = <<>>
  BY DEF DecodeInBatch, Ready
<1>4. n + 1 <= Len(text) /\ n + 1 \in Nat /\ n <= n + 1 /\ 1 > 0 /\ 1 \in Nat
  BY <1>2, <1>3, LenProperties
<1>5. fed' = Rows(text, 0, n + 1) /\ Upcoming(1)[1] = text[n + 1]
  BY <1>1, <1>3, <1>4, FedGrows, Zenon
<1>6. toks = [r \in 1..rows |-> IF r = mine THEN text[n + 1] ELSE Wrong]
  BY <1>5, Zenon
<1>7. states = [r \in 1..rows |-> IF r = mine THEN target ELSE NewTarget]
  OBVIOUS
<1> HIDE DEF states, toks
<1>8. TargetAt(target', text, n + 1)
  BY <1>2, <1>3, <1>4, <1>6, <1>7, DecodedMultiHolds, Zenon
<1>9. HeadAt(head, text, n + 1)
  BY <1>2, <1>4, HeadWaits, Zenon
<1> QED
  BY <1>2, <1>3, <1>4, <1>5, <1>8, <1>9, Rests, Zenon

LEMMA BeginKeeps ==
  ASSUME Held, NEW k \in Nat, k > 0, NEW w \in Nat, w > 0, BeginPrefill(k, w)
  PROVE  Held'
<1>1. PICK n \in Nat : AtRest(n)
  BY RestFacts, Zenon DEF BeginPrefill
<1>2. text \in Seq(Nat) /\ n = Len(fed) /\ TargetAt(target, text, n)
  BY <1>1 DEF AtRest
<1>3. /\ n + k <= Len(text)
      /\ opt' = opt /\ text' = text /\ target' = target /\ head' = head /\ fed' = fed
  BY <1>2, Zenon DEF BeginPrefill
<1>4. Upcoming(k) = Rows(text, n, n + k)
  BY <1>1, <1>3, FedGrows, Zenon
<1>5. Begun(chunks', Rows(text, n, n + k), k, w)
  BY <1>4, Zenon DEF BeginPrefill, Begun
<1>6. chunks' # <<>> /\ \E cut, K, d, b : Prefilling(chunks', target, text, n, cut, K, d, b)
  BY <1>2, <1>3, <1>5, BeginHolds, Zenon
<1>7. chunks' # <<>>
      /\ \E cut, K, d, b : Prefilling(chunks', target', text', Len(fed'), cut, K, d, b)
  BY <1>2, <1>3, <1>6, Zenon
<1> QED
  BY <1>3, <1>7, Zenon DEF Held

\* What the invariant says inside a prefill.
LEMMA PrefillFacts ==
  ASSUME Held, chunks # <<>>
  PROVE  \E n, cut, K, d, b :
           /\ n \in Nat
           /\ text \in Seq(Nat) /\ n = Len(fed) /\ fed = Rows(text, 0, n)
           /\ Prefilling(chunks, target, text, n, cut, K, d, b)
<1>1. text \in Seq(Nat) /\ Len(fed) \in Nat /\ fed = Rows(text, 0, Len(fed))
  BY Parameters DEF Held
<1>2. PICK cut, K, d, b : Prefilling(chunks, target, text, Len(fed), cut, K, d, b)
  BY Zenon DEF Held
<1> QED
  BY <1>1, <1>2, Zenon

\* The cuts of a prefill begin at n and end in the text.
LEMMA CutsEnd ==
  ASSUME NEW y \in Seq(Nat), NEW n \in Nat, NEW cut, NEW K, Cuts(cut, K, y, n)
  PROVE  cut[K] \in Nat /\ n <= cut[K] /\ cut[K] <= Len(y)
<1>1. K \in 0..K
  BY DEF Cuts
<1> QED
  BY <1>1, CutsRise DEF Cuts

LEMMA AdvanceKeeps == ASSUME Held, AdvancePrefill PROVE Held'
<1> DEFINE moved == [chunks EXCEPT ![ChunkInTurn].next_layer = BarrierEnd(@)]
           done  == \A c \in DOMAIN moved : moved[c].next_layer = Len(Kinds)
           taken == Gathered(chunks)
           u     == Advanced(target, chunks[ChunkInTurn])
<1>1. /\ chunks # <<>> /\ target' = u /\ chunks' = (IF done THEN <<>> ELSE moved)
      /\ fed' = (IF done THEN fed \o taken ELSE fed)
      /\ opt' = opt /\ text' = text /\ head' = head
  BY Zenon DEF AdvancePrefill, Gathered
<1>2. PICK n, cut, K, d, b :
        /\ n \in Nat
        /\ text \in Seq(Nat) /\ n = Len(fed) /\ fed = Rows(text, 0, n)
        /\ Prefilling(chunks, target, text, n, cut, K, d, b)
  BY <1>1, PrefillFacts, Zenon
<1>3. opt \in Options /\ text \in Texts /\ HeadAt(head, text, n) /\ n <= Len(text)
  BY <1>2, Zenon DEF Held
<1>4. /\ Cuts(cut, K, text, n) /\ K \in Nat /\ d \in 1..K /\ b \in Nat
      /\ chunks = Passing(text, cut, K, d, b, BarrierEnd(b))
  BY <1>2 DEF Prefilling, Cuts
<1>5. cut[K] \in Nat /\ n <= cut[K] /\ cut[K] <= Len(text)
  BY <1>2, <1>4, CutsEnd
<1>6. taken = Rows(text, n, cut[K])
  BY <1>2, <1>4, ChunkRows
<1>7. /\ done => TargetAt(u, text, cut[K])
      /\ ~done => moved # <<>> /\ \E d2, b2 : Prefilling(moved, u, text, n, cut, K, d2, b2)
  BY <1>2, <1>3, <1>4, AdvanceHolds, Zenon
<1> HIDE DEF moved, done, taken, u
<1>8. CASE done
  <2> DEFINE m == cut[K]
             T == Nat
             o == 0
  <2>1. /\ m \in Nat /\ n \in Nat /\ o \in Nat /\ o <= n /\ n <= m /\ m <= Len(text)
        /\ text \in Seq(T)
    BY <1>2, <1>5
  <2>2. fed' = Rows(text, o, n) \o Rows(text, n, m) /\ TargetAt(target', text, m)
    BY <1>1, <1>2, <1>6, <1>7, <1>8, Zenon
  <2> HIDE DEF m, T, o
  <2>3. fed' = Rows(text, o, m)
    BY <2>1, <2>2, RowsJoin
  <2>4. fed' = Rows(text, 0, m)
    BY <2>3 DEF o
  <2>5. HeadAt(head, text, m)
    BY <1>3, <2>1, HeadWaits, Zenon
  <2> QED
    BY <1>1, <1>3, <1>8, <2>1, <2>2, <2>4, <2>5, Rests, Zenon
<1>9. CASE ~done
  <2>1. fed' = fed /\ chunks' = moved /\ moved # <<>>
    BY <1>1, <1>7, <1>9, Zenon
  <2>2. \E c, k, d2, b2 : Prefilling(chunks', target', text', Len(fed'), c, k, d2, b2)
    BY <1>1, <1>2, <1>7, <1>9, <2>1, Zenon
  <2> QED
    BY <1>1, <2>1, <2>2, Zenon DEF Held
<1> QED
  BY <1>8, <1>9, Zenon

\* Nothing has been fed to a state that has just been made.
LEMMA NewRests ==
  ASSUME opt' \in Options, text' \in Texts, target' = NewTarget, head' = NewHead,
         chunks' = <<>>, fed' = <<>>
  PROVE  Held'
<1>1. text' \in Seq(Nat)
  BY Parameters
<1>2. 0 \in Nat /\ 0 <= Len(text')
  BY <1>1, LenProperties
<1>3. Rows(text', 0, 0) = <<>>
  <2>1. Rows(text', 0, 0) \in Seq(Nat) /\ Len(Rows(text', 0, 0)) = 0
    BY <1>1, <1>2, FirstRows
  <2> HIDE DEF Rows
  <2> QED BY <2>1, EmptySeq
<1>4. HeadAt(head', text', 0) /\ TargetAt(target', text', 0)
  BY <1>1, NewTargetAt, Zenon DEF HeadAt
<1> QED
  BY <1>2, <1>3, <1>4, Rests, Zenon

LEMMA ThrowKeeps == ASSUME Held, PrefillThrows PROVE Held'
<1>1. opt' \in Options
  BY Zenon DEF Held, PrefillThrows
<1> QED
  BY <1>1, NewRests, Zenon DEF PrefillThrows

\* Where the head is fed from: a position it can be fed at.
LEMMA HeadReady ==
  ASSUME NEW n \in Nat, AtRest(n), NEW p, p \in Positions
  PROVE  p \in Nat /\ HeadFrom(head, text, p)
<1>1. text \in Seq(Nat) /\ n <= Len(text) /\ HeadAt(head, text, n)
  BY DEF AtRest
<1>2. CASE head = NewHead
  <2>1. head.position_base = NoBase
    BY <1>2 DEF NewHead
  <2>2. p \in Starts
    BY <2>1 DEF Positions
  <2> QED
    BY <1>2, <2>2, Parameters DEF HeadFrom
<1>3. CASE head # NewHead
  <2>1. /\ head.position_base # NoBase
        /\ head.position_base + head.row_count \in Nat
        /\ HeadFrom(head, text, head.position_base + head.row_count)
    <3> DEFINE held == Rows(text, 0, n)
    <3>1. held = Rows(text, 0, n)
      OBVIOUS
    <3> HIDE DEF held
    <3> QED BY <1>1, <1>3, <3>1, HeadIs
  <2>2. p = head.position_base + head.row_count
    BY <2>1, Zenon DEF Positions
  <2> QED
    BY <2>1, <2>2, Zenon
<1> QED
  BY <1>2, <1>3, Zenon

LEMMA CatchUpKeeps ==
  ASSUME Held, NEW k \in Nat, k > 0, NEW p, p \in Positions, CatchUp(p, k)
  PROVE  Held'
<1> DEFINE toks == Rows(fed, p, p + k)
<1>1. PICK n \in Nat : AtRest(n)
  BY RestFacts, Zenon DEF CatchUp
<1>2. /\ opt \in Options /\ text \in Texts /\ text \in Seq(Nat) /\ n = Len(fed)
      /\ n <= Len(text) /\ fed = Rows(text, 0, n) /\ TargetAt(target, text, n)
  BY <1>1 DEF AtRest
<1>3. p \in Nat /\ HeadFrom(head, text, p)
  BY <1>1, HeadReady, Zenon
<1>4. /\ p + k <= n /\ (head' = HeadPrefilled(head, p, toks) \/ head' = HeadChain(head, p, toks))
      /\ opt' = opt /\ text' = text /\ target' = target /\ fed' = fed /\ chunks' = <<>>
  BY <1>2, Zenon DEF CatchUp, Ready
<1>5. p + k \in Nat /\ p <= p + k /\ p + k <= Len(text)
  BY <1>2, <1>3, <1>4, LenProperties
<1>6. toks = Rows(text, p, p + k)
  <2> DEFINE T == Nat
             m == p + k
  <2>1. text \in Seq(T) /\ m \in Nat /\ p <= m /\ m <= n
    BY <1>2, <1>4, <1>5
  <2> HIDE DEF T, m
  <2>2. Rows(Rows(text, 0, n), p, m) = Rows(text, p, m)
    BY <1>2, <1>3, <2>1, RowsOfFirst
  <2> QED
    BY <1>2, <2>2, Zenon DEF m
<1> HIDE DEF toks
<1>7. HeadTo(HeadPrefilled(head, p, toks), text, p + k)
  BY <1>2, <1>3, <1>5, <1>6, HeadRowsHold, Zenon
<1>8. HeadTo(HeadChain(head, p, toks), text, p + k)
  BY <1>2, <1>3, <1>5, <1>6, HeadChainHolds, Zenon
<1>9. HeadTo(head', text, p + k)
  BY <1>4, <1>7, <1>8, Zenon
<1>10. HeadAt(head', text, n)
  BY <1>4, <1>5, <1>9, HeadComes, Zenon
<1> QED
  BY <1>2, <1>4, <1>10, Rests, Zenon

\* The rows of a round begin with those that are kept.
LEMMA KeptRows ==
  ASSUME NEW y \in Seq(Nat), NEW n \in Nat, NEW k \in Nat, n + k <= Len(y), NEW d \in Nat
  PROVE  Rows(Rows(y, n, n + k) \o Guesses(d), 0, k) = Rows(y, n, n + k)
<1> DEFINE T == Nat
           o == 0
           s == Rows(y, n, n + k)
           q == Guesses(d)
           r == s \o q
<1>1. s \in Seq(T) /\ Len(s) = k
  BY NextRows
<1>2. q \in Seq(T) /\ Len(q) = d
  <2>1. q \in [1..d -> Nat]
    BY Parameters DEF Guesses
  <2> HIDE DEF q
  <2> QED
    BY <2>1, ListIsSeq
<1> HIDE DEF T, s, q
<1>3. r \in Seq(T) /\ Len(r) = k + d
  BY <1>1, <1>2, ConcatProperties
<1>4. \A i \in 1..k : r[i] = s[i]
  BY <1>1, <1>2, ConcatProperties
<1> HIDE DEF r
<1>5. /\ o \in Nat /\ o <= k /\ k <= Len(r) /\ Len(s) = k - o
      /\ \A i \in 1..(k - o) : s[i] = r[o + i]
  BY <1>1, <1>3, <1>4
<1> HIDE DEF o
<1>6. s = Rows(r, o, k)
  BY <1>1, <1>3, <1>5, RowsAre
<1> QED
  BY <1>6, Zenon DEF o, r, s, q

LEMMA RoundKeeps ==
  ASSUME Held, NEW drafts \in Nat, NEW accepted \in 0..drafts, Round(drafts, accepted)
  PROVE  Held'
<1> DEFINE k    == accepted + 1
           d    == drafts - accepted
           rows == RoundRows(drafts, accepted)
           kept == Rows(rows, 0, k)
<1>1. PICK n \in Nat : AtRest(n)
  BY RestFacts, Zenon DEF Round
<1>2. /\ opt \in Options /\ text \in Texts /\ text \in Seq(Nat) /\ n = Len(fed)
      /\ n <= Len(text) /\ fed = Rows(text, 0, n)
      /\ HeadAt(head, text, n) /\ TargetAt(target, text, n)
  BY <1>1 DEF AtRest
<1>3. target.token_count = n
  BY <1>2, TargetParts, Zenon
<1>4. /\ HeadFollows /\ Len(fed) + accepted + 1 <= Len(text)
      /\ target' = Materialized(Committed(Checkpoints(target, rows), accepted))
      /\ head' = HeadAfterRound(n, drafts, accepted)
      /\ fed' = fed \o Upcoming(k) /\ opt' = opt /\ text' = text /\ chunks' = <<>>
  BY <1>3, Zenon DEF Round, Ready
<1>5. /\ k \in Nat /\ k > 0 /\ d \in Nat /\ n + k \in Nat /\ n + k <= Len(text)
  BY <1>2, <1>4, LenProperties
<1>6. rows = Upcoming(k) \o Guesses(d)
  BY Zenon DEF RoundRows, Guesses
<1> HIDE DEF rows
<1>7. Committed(Checkpoints(target, rows), accepted) = Checkpoints(target, rows)[k]
  BY Zenon DEF Committed
<1>8. head' = HeadCommitted(head, n, kept) \/ head' = HeadChain(head, n, kept)
  BY <1>4, Zenon DEF HeadAfterRound, HeadOrigin, rows
<1> HIDE DEF k, d
<1>9. Upcoming(k) = Rows(text, n, n + k) /\ fed' = Rows(text, 0, n + k)
  BY <1>1, <1>4, <1>5, FedGrows, Zenon
<1>10. rows = Rows(text, n, n + k) \o Guesses(d)
  BY <1>6, <1>9, Zenon
<1>11. kept = Rows(text, n, n + k)
  <2>1. Rows(Rows(text, n, n + k) \o Guesses(d), 0, k) = Rows(text, n, n + k)
    BY <1>2, <1>5, KeptRows
  <2> QED
    BY <1>10, <2>1, Zenon
<1> HIDE DEF kept
<1>12. TargetAt(target', text, n + k)
  <2>1. TargetAt(Materialized(Checkpoints(target, rows)[k]), text, n + k)
    BY <1>2, <1>5, <1>10, RoundHolds, Zenon
  <2> QED
    BY <1>4, <1>7, <2>1, Zenon
<1>13. HeadFrom(head, text, n)
  <2>1. CASE head = NewHead
    BY <2>1, Zenon DEF HeadFrom
  <2>2. CASE head # NewHead
    <3>1. /\ head.position_base # NoBase
          /\ HeadFrom(head, text, head.position_base + head.row_count)
      <4> DEFINE held == Rows(text, 0, n)
      <4>1. held = Rows(text, 0, n)
        OBVIOUS
      <4> HIDE DEF held
      <4> QED BY <1>2, <2>2, <4>1, HeadIs
    <3>2. head.position_base + head.row_count = n
      BY <1>3, <1>4, <3>1, Zenon DEF HeadFollows
    <3> QED
      BY <3>1, <3>2, Zenon
  <2> QED
    BY <2>1, <2>2, Zenon
<1>14. HeadTo(HeadCommitted(head, n, kept), text, n + k)
  BY <1>2, <1>5, <1>11, <1>13, HeadRowsHold, Zenon
<1>15. HeadTo(HeadChain(head, n, kept), text, n + k)
  BY <1>2, <1>5, <1>11, <1>13, HeadChainHolds, Zenon
<1>16. HeadAt(head', text, n + k)
  <2>1. n + k <= n + k
    BY <1>5
  <2>2. HeadTo(head', text, n + k)
    BY <1>8, <1>14, <1>15, Zenon
  <2> QED
    BY <1>5, <2>1, <2>2, HeadComes, Zenon
<1> QED
  BY <1>2, <1>4, <1>5, <1>9, <1>12, <1>16, Rests, Zenon

LEMMA NextRequestKeeps ==
  ASSUME Held, NEW from_file \in BOOLEAN, NextRequest(from_file)
  PROVE  Held'
<1> DEFINE left == SnapshotTarget(target)
           left_mtp == SnapshotHead(head)
<1>1. PICK n \in Nat : AtRest(n)
  BY RestFacts, Zenon DEF NextRequest
<1>2. /\ opt \in Options /\ text \in Texts /\ text \in Seq(Nat) /\ n = Len(fed)
      /\ n <= Len(text) /\ fed = Rows(text, 0, n)
      /\ HeadAt(head, text, n) /\ TargetAt(target, text, n)
  BY <1>1 DEF AtRest
<1>3. /\ text' \in Texts /\ Len(fed) <= Len(text') /\ Rows(text', 0, Len(fed)) = fed
      /\ chunks' = <<>> /\ fed' = fed
      /\ target' = SnapshotTarget(left) \/ target' = SnapshotTarget(ReloadedTarget(left))
      /\ head' = SnapshotHead(left_mtp) \/ head' = SnapshotHead(ReloadedHead(left_mtp))
  BY DEF NextRequest, Ready
<1>4. opt' \in Options
  BY <1>2 DEF NextRequest
<1> HIDE DEF left, left_mtp
<1>5. text' \in Seq(Nat) /\ n <= Len(text') /\ Rows(text', 0, n) = fed
  BY <1>2, <1>3, Parameters
<1>6. Agree(text, text', n)
  <2>1. \A i \in 1..n : Rows(text, 0, n)[i] = text[i]
    BY <1>2, FirstRows
  <2>2. \A i \in 1..n : Rows(text', 0, n)[i] = text'[i]
    BY <1>5, FirstRows
  <2> QED
    BY <1>2, <1>5, <2>1, <2>2, Zenon DEF Agree
<1>7. TargetAt(left, text, n) /\ HeadAt(left_mtp, text, n)
  BY <1>2, TargetSnapshot, HeadSnapshots, Zenon DEF left, left_mtp
<1>8. TargetAt(ReloadedTarget(left), text, n) /\ HeadAt(ReloadedHead(left_mtp), text, n)
  BY <1>2, <1>7, TargetSnapshot, HeadSnapshots, Zenon
<1>9. TargetAt(target', text, n)
  BY <1>2, <1>3, <1>7, <1>8, TargetSnapshot, Zenon
<1>10. HeadAt(head', text, n)
  BY <1>2, <1>3, <1>7, <1>8, HeadSnapshots, Zenon
<1>11. TargetAt(target', text', n) /\ HeadAt(head', text', n)
  BY <1>2, <1>5, <1>6, <1>9, <1>10, TargetAgrees, HeadAgrees, Zenon
<1> QED
  BY <1>3, <1>4, <1>5, <1>11, Rests, Zenon

LEMMA PrepareKeeps == ASSUME Held, Prepare PROVE Held'
<1>1. PICK n \in Nat : AtRest(n)
  BY RestFacts, Zenon DEF Prepare
<1>2. /\ opt \in Options /\ text \in Texts /\ text \in Seq(Nat) /\ n = Len(fed)
      /\ n <= Len(text) /\ fed = Rows(text, 0, n)
      /\ HeadAt(head, text, n) /\ TargetAt(target, text, n)
  BY <1>1 DEF AtRest
<1>3. TargetAt([target EXCEPT !.layers = [l \in Layers |-> PrepareLayer(Kinds[l], @[l])]],
               text, n)
  BY <1>2, TargetPrepared
<1>4. TargetAt(target', text, n)
  BY <1>3, Zenon DEF Prepare
<1>5. opt' = opt /\ text' = text /\ head' = head /\ fed' = fed /\ chunks' = <<>>
  BY Zenon DEF Prepare, Ready
<1> QED
  BY <1>2, <1>4, <1>5, Rests, Zenon

LEMMA HeldAtFirst == ASSUME Init PROVE Held
<1>1. /\ opt \in Options /\ text \in Texts /\ target = NewTarget /\ head = NewHead
      /\ chunks = <<>> /\ fed = <<>>
  BY DEF Init
<1>2. text \in Seq(Nat)
  BY <1>1, Parameters
<1>3. 0 \in Nat /\ 0 <= Len(text) /\ Len(fed) = 0
  BY <1>1, <1>2, LenProperties, EmptySeq
<1>4. Rows(text, 0, 0) = <<>>
  <2>1. Rows(text, 0, 0) \in Seq(Nat) /\ Len(Rows(text, 0, 0)) = 0
    BY <1>2, <1>3, FirstRows
  <2> HIDE DEF Rows
  <2> QED BY <2>1, EmptySeq
<1>5. HeadAt(head, text, 0) /\ TargetAt(target, text, 0)
  BY <1>1, <1>2, NewTargetAt, Zenon DEF HeadAt
<1> QED
  BY <1>1, <1>3, <1>4, <1>5, Zenon DEF Held

\* Every operation of the engine on the state keeps the invariant.
LEMMA HeldAlways == Held /\ [Next]_vars => Held'
<1> SUFFICES ASSUME Held, [Next]_vars PROVE Held'
  OBVIOUS
<1>1. CASE \E n \in 1..(MaxRows * MaxChunks) :
             BeginPrefill(n, IF n <= MaxRows THEN n ELSE MaxRows)
  <2>1. PICK n \in 1..(MaxRows * MaxChunks) :
          BeginPrefill(n, IF n <= MaxRows THEN n ELSE MaxRows)
    BY <1>1
  <2> DEFINE w == IF n <= MaxRows THEN n ELSE MaxRows
             top == MaxRows * MaxChunks
  <2>2. top \in Nat
    BY Parameters
  <2>3. n \in 1..top
    OBVIOUS
  <2> HIDE DEF top
  <2>4. n \in Nat /\ n > 0
    BY <2>2, <2>3
  <2>5. w \in Nat /\ w > 0 /\ BeginPrefill(n, w)
    BY <2>1, <2>4, Parameters
  <2> HIDE DEF w
  <2> QED
    BY <2>4, <2>5, BeginKeeps, Zenon
<1>2. CASE AdvancePrefill
  BY <1>2, AdvanceKeeps
<1>3. CASE PrefillThrows
  BY <1>3, ThrowKeeps
<1>4. CASE Decode
  BY <1>4, DecodeKeeps
<1>5. CASE \E rows \in 2..MaxBatch : \E mine \in 1..rows : DecodeInBatch(rows, mine)
  <2>1. PICK rows \in 2..MaxBatch : \E mine \in 1..rows : DecodeInBatch(rows, mine)
    BY <1>5
  <2>2. rows \in Nat
    BY Parameters
  <2> QED
    BY <2>1, <2>2, BatchKeeps, Zenon
<1>6. CASE \E n \in 1..MaxRows : \E position \in Positions : CatchUp(position, n)
  <2>1. PICK n \in 1..MaxRows : \E position \in Positions : CatchUp(position, n)
    BY <1>6
  <2>2. n \in Nat /\ n > 0
    BY Parameters
  <2> QED
    BY <2>1, <2>2, CatchUpKeeps, Zenon
<1>7. CASE \E drafts \in 2..MaxDrafts : \E accepted \in 0..drafts : Round(drafts, accepted)
  <2>1. PICK drafts \in 2..MaxDrafts : \E accepted \in 0..drafts : Round(drafts, accepted)
    BY <1>7
  <2>2. drafts \in Nat
    BY Parameters
  <2> QED
    BY <2>1, <2>2, RoundKeeps, Zenon
<1>8. CASE \E from_file \in BOOLEAN : NextRequest(from_file)
  BY <1>8, NextRequestKeeps, Zenon
<1>9. CASE Prepare
  BY <1>9, PrepareKeeps
<1>10. CASE UNCHANGED vars
  BY <1>10, Zenon DEF vars, Held
<1> QED
  BY <1>1, <1>2, <1>3, <1>4, <1>5, <1>6, <1>7, <1>8, <1>9, <1>10, Zenon DEF Next

-----------------------------------------------------------------------------
(* What the invariant promises.                                            *)

LEMMA TargetPromised == ASSUME Held PROVE TargetHolds
<1> SUFFICES ASSUME Ready
             PROVE  /\ target.token_count = Len(fed)
                    /\ \A l \in Layers : LayerHolds(Kinds[l], target.layers[l], fed)
  BY Zenon DEF TargetHolds
<1>1. PICK n \in Nat : AtRest(n)
  BY RestFacts, Zenon
<1>2. /\ text \in Seq(Nat) /\ n = Len(fed) /\ n <= Len(text) /\ fed = Rows(text, 0, n)
      /\ TargetAt(target, text, n)
  BY <1>1 DEF AtRest
<1>3. target.token_count = n
      /\ \A l \in Layers : LayerHolds(Kinds[l], target.layers[l], Rows(text, 0, n))
  BY <1>2, TargetIs, Zenon
<1> QED
  BY <1>2, <1>3, Zenon

\* Inside a prefill too, the head is what it was.
LEMMA HeadPromised ==
  ASSUME Held
  PROVE  /\ HeadHolds
         /\ head # NewHead =>
              AttentionHolds(ReloadedHead(head).layer.full,
                Rows(fed, head.position_base, head.position_base + head.row_count),
                head.position_base)
<1>1. /\ text \in Seq(Nat) /\ Len(fed) \in Nat /\ Len(fed) <= Len(text)
      /\ fed = Rows(text, 0, Len(fed)) /\ HeadAt(head, text, Len(fed))
  BY Parameters DEF Held
<1>2. ASSUME head # NewHead
      PROVE  /\ head.layer.full.position_base = head.position_base
             /\ head.position_base + head.row_count <= Len(fed)
             /\ AttentionHolds(head.layer.full,
                  Rows(fed, head.position_base, head.position_base + head.row_count),
                  head.position_base)
             /\ ReloadedHead(head).layer.full = head.layer.full
  BY <1>1, <1>2, HeadIs
<1>3. HeadHolds
  BY <1>2, Zenon DEF HeadHolds
<1> QED
  BY <1>2, <1>3, Zenon

LEMMA FilePromised == ASSUME Held PROVE FileHolds
<1> SUFFICES ASSUME Ready PROVE FileHolds
  BY Zenon DEF FileHolds
<1>1. PICK n \in Nat : AtRest(n)
  BY RestFacts, Zenon
<1>2. /\ text \in Seq(Nat) /\ n = Len(fed) /\ n <= Len(text) /\ fed = Rows(text, 0, n)
      /\ TargetAt(target, text, n)
  BY <1>1 DEF AtRest
<1>3. TargetAt(ReloadedTarget(target), text, n)
  BY <1>2, TargetSnapshot, Zenon
<1>4. \A l \in Layers :
        LayerHolds(Kinds[l], ReloadedTarget(target).layers[l], Rows(text, 0, n))
  BY <1>2, <1>3, TargetIs, Zenon
<1> QED
  BY <1>2, <1>4, HeadPromised, Zenon DEF FileHolds

\* Whatever prefills, decodes, batches, rounds, restores, reloads and failed
\* calls have followed each other, for any geometry of the model, any number
\* of layers of any kinds, any texts and any settings: the target, the head
\* and what a prefix file would give back of them are the states of the
\* committed tokens (QwenModel, QwenMtpHead, decode_state_io.cpp).
THEOREM StateOfCommittedTokens == Spec => []StatesHold
<1>1. Init => Held
  BY HeldAtFirst
<1>2. Held /\ [Next]_vars => Held'
  BY HeldAlways
<1>3. Held => StatesHold
  BY TargetPromised, HeadPromised, FilePromised, Zenon DEF StatesHold
<1> QED
  BY <1>1, <1>2, <1>3, PTL DEF Spec

-----------------------------------------------------------------------------
(* What sparse attention selects.                                          *)

\* At every moment, inside a prefill too, a layer has some length.
LEMMA LengthIsNat ==
  ASSUME Held, NEW l \in Layers, Kinds[l].full
  PROVE  target.layers[l].full.token_count \in Nat
<1>1. \A y, n, base : LayerAt(Kinds[l], target.layers[l], y, n, base)
                        => target.layers[l].full.token_count \in Nat
  BY DEF LayerAt, Attending, Attentions
<1>2. CASE chunks = <<>>
  BY <1>1, <1>2, Zenon DEF Held, TargetAt
<1>3. CASE chunks # <<>>
  <2>1. PICK n, cut, K, d, b :
          /\ n \in Nat
          /\ text \in Seq(Nat) /\ n = Len(fed) /\ fed = Rows(text, 0, n)
          /\ Prefilling(chunks, target, text, n, cut, K, d, b)
    BY <1>3, PrefillFacts, Zenon
  <2> QED
    BY <1>1, <2>1, Zenon DEF Prefilling
<1> QED
  BY <1>2, <1>3, Zenon

\* The selection of a row is sampled at it or before it in its call.
LEMMA SampledBefore ==
  ASSUME NEW r \in Nat, NEW shared \in {1, 2}
  PROVE  SampledRow(r, shared) \in Nat /\ SampledRow(r, shared) <= r
<1>1. (r \div 1) * 1 \in Nat /\ (r \div 1) * 1 <= r
  OBVIOUS
<1>2. (r \div 2) * 2 \in Nat /\ (r \div 2) * 2 <= r
  OBVIOUS
<1>3. shared = 1 \/ shared = 2
  OBVIOUS
<1> QED
  BY <1>1, <1>2, <1>3 DEF SampledRow

\* The tail of a row begins where its last complete block ends.
LEMMA TailFacts ==
  ASSUME NEW p \in Nat
  PROVE  TailStart(p) \in Nat /\ TailStart(p) <= p + 1 /\ p + 1 < TailStart(p) + Ratio
<1> DEFINE m == p + 1
<1>1. m \in Nat
  OBVIOUS
<1> HIDE DEF m
<1>2. (m \div Ratio) * Ratio \in Nat /\ (m \div Ratio) * Ratio <= m
      /\ m < (m \div Ratio) * Ratio + Ratio
  BY <1>1, Blocks
<1> QED
  BY <1>2, Zenon DEF TailStart, m

\* The tokens of a visible block are at or before the query.
LEMMA VisibleTokens ==
  ASSUME NEW count \in Nat, NEW p \in Nat, NEW b \in VisibleBlocks(count, p),
         NEW i \in 0..(Ratio - 1)
  PROVE  b * Ratio + i \in Nat /\ b * Ratio + i <= p
<1>1. b \in Nat /\ (b + 1) * Ratio - 1 <= p
  BY DEF VisibleBlocks
<1>2. (b + 1) * Ratio = b * Ratio + 1 * Ratio /\ b * Ratio \in Nat
  BY <1>1, Times
<1>3. 1 * Ratio = Ratio /\ Ratio \in Nat
  BY Constant
<1> DEFINE x == b * Ratio
           z == (b + 1) * Ratio
<1>4. x \in Nat /\ z = x + Ratio /\ z - 1 <= p /\ i \in Nat /\ i <= Ratio - 1
  BY <1>1, <1>2, <1>3
<1> HIDE DEF x, z
<1>5. x + i \in Nat /\ x + i <= p
  BY <1>3, <1>4
<1> QED
  BY <1>5 DEF x

\* The packed list and the dense mask leave the query the same keys, none of
\* them after it.
LEMMA PackedIsDense ==
  ASSUME NEW count \in Nat, NEW p \in Nat, NEW total \in Nat, p < total, NEW top
  PROVE  /\ PackedKeys(top, count, p) = DenseKeys(top, count, p, total)
         /\ \A k \in PackedKeys(top, count, p) : k <= p
<1> DEFINE V == top \intersect VisibleBlocks(count, p)
           t == TailStart(p)
           tail == {k \in {t + i : i \in 0..(Ratio - 2)} : k <= p}
           B == BlockTokens(V)
<1>1. t \in Nat /\ t <= p + 1 /\ p + 1 < t + Ratio /\ Ratio \in Nat
  BY TailFacts, Constant
<1>2. ASSUME NEW k \in B PROVE k \in Nat /\ k <= p
  <2>1. PICK b \in V, i \in 0..(Ratio - 1) : k = b * Ratio + i
    BY DEF BlockTokens
  <2>2. b \in VisibleBlocks(count, p)
    BY <2>1
  <2> QED
    BY <2>1, <2>2, VisibleTokens
<1> HIDE DEF V, t, B
<1>3. ASSUME NEW k PROVE k \in tail <=> k \in 0..(total - 1) /\ k <= p /\ k >= t
  <2>1. ASSUME k \in tail PROVE k \in 0..(total - 1) /\ k <= p /\ k >= t
    BY <1>1, <2>1
  <2>2. ASSUME k \in 0..(total - 1), k <= p, k >= t PROVE k \in tail
    <3>1. k \in Nat /\ k - t \in 0..(Ratio - 2) /\ k = t + (k - t)
      BY <1>1, <2>2
    <3> QED
      BY <2>2, <3>1
  <2> QED
    BY <2>1, <2>2
<1>4. \A k \in B : k \in 0..(total - 1)
  BY <1>2
<1> HIDE DEF tail
<1>5. B \union tail = {k \in 0..(total - 1) : k <= p /\ (k \in B \/ k >= t)}
  BY <1>2, <1>3, <1>4
<1>6. PackedKeys(top, count, p) = B \union tail
  BY Zenon DEF PackedKeys, B, V, tail, t
<1>7. DenseKeys(top, count, p, total) = {k \in 0..(total - 1) : k <= p /\ (k \in B \/ k >= t)}
  BY Zenon DEF DenseKeys, B, V, t
<1>8. \A k \in B \union tail : k <= p
  BY <1>2, <1>3
<1> QED
  BY <1>5, <1>6, <1>7, <1>8, Zenon

\* When a prefill selects blocks, there is a budget's worth of them to
\* select and the text is a block longer than the budget.
LEMMA EngagedFacts ==
  ASSUME NEW total \in Nat, Engages(total, Budget)
  PROVE  /\ Budget \div Ratio \in Nat /\ Budget \div Ratio > 0
         /\ total \div Ratio \in Nat /\ total \div Ratio > 0 /\ total >= Budget + Ratio
<1> DEFINE q == Budget \div Ratio
           c == total \div Ratio
<1>1. q \in Nat /\ q * Ratio = Budget /\ q > 0
  BY Constant, GeometryAssumption, SMT
<1>2. c \in Nat /\ c * Ratio \in Nat /\ c * Ratio <= total
  BY Blocks
<1>3. q < c
  BY DEF Engages
<1> HIDE DEF q, c
<1>4. q * Ratio + Ratio <= c * Ratio
  BY <1>1, <1>2, <1>3, Times
<1>5. total >= Budget + Ratio
  <2> DEFINE z == c * Ratio
  <2>1. z \in Nat /\ z <= total /\ Budget + Ratio <= z /\ Budget \in Nat /\ Ratio \in Nat
    BY <1>1, <1>2, <1>4, Constant
  <2> HIDE DEF z
  <2> QED
    BY <2>1
<1>6. c > 0
  BY <1>1, <1>2, <1>3
<1> QED
  BY <1>1, <1>2, <1>5, <1>6 DEF q, c

\* However the scores turn out, a row is left a block it sees, also when the
\* blocks were selected for an earlier row of its call.
LEMMA SeesABlock ==
  ASSUME NEW count \in Nat, count > 0, NEW topk \in Nat, topk > 0,
         NEW from \in Nat, NEW p \in Nat, from <= p, from >= Ratio,
         NEW top \in TopBlocks(count, topk, from)
  PROVE  \E b \in Nat : b \in top \intersect VisibleBlocks(count, p)
<1>1. VisibleBlocks(count, from) \subseteq VisibleBlocks(count, p)
  <2> SUFFICES ASSUME NEW b \in VisibleBlocks(count, from) PROVE b \in VisibleBlocks(count, p)
    OBVIOUS
  <2>1. b \in 0..(count - 1) /\ (b + 1) * Ratio - 1 <= from /\ b \in Nat
    BY DEF VisibleBlocks
  <2>2. (b + 1) * Ratio \in Nat
    BY <2>1, Times
  <2> DEFINE z == (b + 1) * Ratio
  <2>3. z - 1 <= p
    <3>1. z \in Nat /\ z - 1 <= from
      BY <2>1, <2>2
    <3> HIDE DEF z
    <3> QED
      BY <3>1
  <2> QED
    BY <2>1, <2>3 DEF VisibleBlocks
<1>2. 0 \in VisibleBlocks(count, from)
  <2>1. (0 + 1) * Ratio = Ratio /\ Ratio \in Nat
    BY Constant
  <2>2. 0 \in 0..(count - 1) /\ Ratio - 1 <= from
    BY <2>1
  <2> QED
    BY <2>1, <2>2 DEF VisibleBlocks
<1>3. /\ top \subseteq 0..(count - 1) /\ Cardinality(top) = topk
      /\ top \subseteq VisibleBlocks(count, from) \/ VisibleBlocks(count, from) \subseteq top
  BY DEF TopBlocks
<1>4. CASE VisibleBlocks(count, from) \subseteq top
  BY <1>1, <1>2, <1>4
<1>5. CASE top \subseteq VisibleBlocks(count, from)
  <2>1. top # {}
    BY <1>3, FS_EmptySet
  <2>2. PICK b : b \in top
    BY <2>1
  <2>3. b \in Nat
    BY <1>3, <2>2
  <2> QED
    BY <1>1, <1>5, <2>2, <2>3
<1> QED
  BY <1>3, <1>4, <1>5

\* A row of a call on a layer of total tokens.
LEMMA RowSelects ==
  ASSUME NEW total \in Nat, Engages(total, Budget),
         NEW rows \in 1..MinOf(total, AttRows), NEW shared \in {1, 2},
         NEW r \in 0..(rows - 1), NEW count, count = total \div Ratio,
         NEW p, p = total - rows + r,
         NEW from, from = total - rows + SampledRow(r, shared),
         NEW top \in TopBlocks(count, Budget \div Ratio, from),
         NEW packed, packed = PackedKeys(top, count, p)
  PROVE  /\ packed = DenseKeys(top, count, p, total)
         /\ packed # {} /\ \A k \in packed : k <= p
<1> DEFINE s == SampledRow(r, shared)
<1>1. rows \in Nat /\ rows > 0 /\ rows <= total /\ rows <= AttRows
  BY Constant DEF MinOf
<1>2. r \in Nat /\ r <= rows - 1
  BY <1>1
<1>3. s \in Nat /\ s <= r
  BY <1>2, SampledBefore
<1>4. /\ count \in Nat /\ count > 0 /\ total >= Budget + Ratio
      /\ Budget \div Ratio \in Nat /\ Budget \div Ratio > 0
  BY EngagedFacts
<1> HIDE DEF s
<1>5. p \in Nat /\ p < total
  BY <1>1, <1>2
<1>6. from \in Nat /\ from <= p /\ from >= Ratio
  <2>1. from = total - rows + s
    BY DEF s
  <2>2. Budget \in Nat /\ Ratio \in Nat /\ AttRows \in Nat /\ AttRows <= Budget
    BY Constant
  <2> QED
    BY <1>1, <1>2, <1>3, <1>4, <2>1, <2>2
<1>7. packed = DenseKeys(top, count, p, total) /\ \A k \in packed : k <= p
  BY <1>4, <1>5, PackedIsDense
<1>8. packed # {}
  <2>1. PICK b \in Nat : b \in top \intersect VisibleBlocks(count, p)
    BY <1>4, <1>5, <1>6, SeesABlock, Zenon
  <2>2. 0 \in 0..(Ratio - 1)
    BY Constant
  <2>3. b * Ratio + 0 \in BlockTokens(top \intersect VisibleBlocks(count, p))
    BY <2>1, <2>2 DEF BlockTokens
  <2>4. b * Ratio + 0 \in packed
    BY <2>3, Zenon DEF PackedKeys
  <2> QED
    BY <2>4
<1> QED
  BY <1>7, <1>8, Zenon

\* For any geometry of the model, sparse attention never leaves a query
\* without a key and never shows it a later one, and the packed list of
\* indices selects the same keys as the dense mask, whatever the scores and
\* also for rows that use the selection of the first row of their group
\* (update_qsa_and_build_mask, sample_qsa_queries, expand_qsa_blocks).
THEOREM SelectionAlwaysSound == Spec => []SelectionSound
<1>1. Init => Held
  BY HeldAtFirst
<1>2. Held /\ [Next]_vars => Held'
  BY HeldAlways
<1>3. ASSUME Held PROVE SelectionSound
  <2>1. ASSUME NEW l \in Layers, Kinds[l].full,
               Engages(target.layers[l].full.token_count, Budget)
        PROVE  \A rows \in 1..MinOf(target.layers[l].full.token_count, AttRows),
                  shared \in {1, 2} : \A r \in 0..(rows - 1) :
                 LET total == target.layers[l].full.token_count
                     count == total \div Ratio
                     p     == total - rows + r
                     from  == total - rows + SampledRow(r, shared)
                 IN \A top \in TopBlocks(count, Budget \div Ratio, from) :
                      LET packed == PackedKeys(top, count, p)
                      IN /\ packed = DenseKeys(top, count, p, total)
                         /\ packed # {} /\ \A k \in packed : k <= p
    <3> DEFINE total == target.layers[l].full.token_count
    <3>1. total \in Nat
      BY <1>3, <2>1, LengthIsNat
    <3>2. Engages(total, Budget)
      BY <2>1
    <3> HIDE DEF total
    <3>3. ASSUME NEW rows \in 1..MinOf(total, AttRows), NEW shared \in {1, 2},
                 NEW r \in 0..(rows - 1),
                 NEW top \in TopBlocks(total \div Ratio, Budget \div Ratio,
                                       total - rows + SampledRow(r, shared))
          PROVE  LET packed == PackedKeys(top, total \div Ratio, total - rows + r)
                 IN /\ packed = DenseKeys(top, total \div Ratio, total - rows + r, total)
                    /\ packed # {} /\ \A k \in packed : k <= total - rows + r
      BY <3>1, <3>2, <3>3, RowSelects, Zenon
    <3> QED
      BY <3>3, Zenon DEF total
  <2> QED
    BY <2>1, Zenon DEF SelectionSound
<1> QED
  BY <1>1, <1>2, <1>3, PTL DEF Spec

=============================================================================
