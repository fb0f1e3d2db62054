--------------------------- MODULE GenerationProofs ---------------------------
(***************************************************************************)
(* Speculative decoding, the prefix caches and the hand-over to the        *)
(* persistent backend change the speed of a generation and not its tokens: *)
(* for every model, every draft, every request and every configuration in  *)
(* which a head is not combined with anchor tokens.                        *)
(***************************************************************************)
EXTENDS Generation, Sums, SequenceTheorems, TLAPS

\* Anchor tokens together with a head and the backend break the hand-over
\* (the run generation_anchor), so the theorems leave that pair out.
NoAnchoredHead == \A c \in Configs : ~(c.head /\ c.backend /\ c.anchor > 0)

\* The model answers with a token, an argmax over the vocabulary, and has a
\* second choice.
ModelChooses ==
  \A s \in Seq(Tokens) : Greedy(s) \in Tokens /\ RunnerUp(s) \in Tokens

-----------------------------------------------------------------------------
(* The inductive invariant.                                                *)

Rows == [stream : Seq(Tokens), token : Tokens]

\* The token at position 0 has no row: no stream comes before it.
Bases == (Nat \ {0}) \cup {NoBase}
HeadType == [base : Bases, rows : Seq(Rows)]
TargetType == [tokens : Seq(Tokens), count : Nat]
Streams == Seq(Tokens \cup {0})

Opening == {"lookup", "restore"}
Prefilling == {"prefill", "checkpoint", "persist", "activate"}
Closing == {"finish", "save prompt", "save entry", "return"}

All == request.prompt \o out

\* The token t may follow the text s of this request.
MayFollow(s, t) ==
  \/ request.sampled
  \/ t = Greedy(s)
  \/ /\ Greedy(s) \in Stops /\ Len(s) < Len(request.prompt) + config.minTokens
     /\ t = RunnerUp(s)

\* The tokens that whoever decodes has consumed.
Held == IF active /\ ~reset THEN backend.tokens ELSE target.tokens

\* all are the rows of the tokens of t from base on.
RowsFrom(base, all, t) ==
  /\ base + Len(all) <= Len(t)
  /\ \A i \in 1..Len(all) :
       /\ all[i].token = t[base + i]
       /\ all[i].stream = SubSeq(t, 1, base + i - 1)

\* The rows of h, then the pending ones, are rows of t.
RowsAmong(h, rows, t) ==
  /\ h.base = NoBase => h.rows = <<>> /\ rows = <<>>
  /\ h.base # NoBase => RowsFrom(h.base, h.rows \o rows, t)

Typed ==
  /\ config \in Configs /\ request \in Requests /\ pc \in Pcs
  /\ target \in TargetType
  /\ backend.tokens \in Seq(Tokens) /\ backend.stream \in Streams
  /\ stream \in Streams
  /\ head \in HeadType /\ pending \in Seq(Rows)
  /\ out \in Seq(Tokens) /\ current \in Tokens
  /\ offset \in Nat /\ anchor \in Nat
  /\ served \in 0..MaxRequests

Switches ==
  /\ active \in BOOLEAN /\ reset \in BOOLEAN /\ profitable \in BOOLEAN
  /\ extendable \in BOOLEAN /\ changed \in BOOLEAN

\* How far the request has got, and what its answer may say.
Progress ==
  /\ pc # "idle" <=> status = "running"
  /\ Len(out) <= request.max_tokens
  /\ pc = "decode" => Len(out) < request.max_tokens
  /\ pc \in Opening \cup Prefilling => out = <<>>
  /\ pc \in Opening \cup Prefilling \cup {"decode"} =>
       reason = "length" /\ current = All[Len(All)]
  /\ pc \in Closing =>
       /\ reason = "length" => Len(out) = request.max_tokens
       /\ reason = "stop" =>
            \E t \in Stops : MayFollow(All, t)
       /\ reason = "cancelled" => request.stream
  /\ reason \in {"length", "stop", "cancelled"}

\* Who is in charge of the state.
Charge ==
  /\ active => anchor = 0 /\ config.backend
  /\ anchor > 0 => config.backend /\ ~config.head
  /\ pc \in Opening \cup Prefilling =>
       ~active /\ pending = <<>> /\ (reset => Len(request.prompt) = 1)
  /\ pc = "decode" /\ active /\ reset => Len(request.prompt) = 1 /\ out = <<>>
  /\ pc = "finish" /\ active => ~reset

\* What it holds.
Holding ==
  /\ pc \in Opening =>
       /\ target = EmptyTarget /\ head = EmptyHead /\ stream = NoStream
       /\ offset = 0
  /\ pc \in Prefilling =>
       /\ offset <= PrefillRows
       /\ pc # "prefill" => offset = PrefillRows
       /\ target = [tokens |-> SubSeq(request.prompt, 1, offset), count |-> offset]
  /\ pc = "decode" => Held = Consumed
  /\ pc \in {"decode", "finish"} => target.count = Len(Held)
  /\ pc = "finish" =>
       \A i \in 1..Len(Held) : i <= Len(All) => Held[i] = All[i]

\* The head's rows are rows of what is held.
HeadKept ==
  /\ ~config.head /\ pc # "idle" => ~profitable
  /\ config.head /\ pc \in Prefilling \cup {"decode", "finish"} =>
       RowsAmong(head, pending, Held)
  /\ config.head /\ pc \in Prefilling =>
       /\ stream = target.tokens
       /\ head.base # NoBase => head.base + Len(head.rows) = offset
  /\ config.head /\ pc \in {"decode", "finish"} /\ ~config.backend => stream = Held
  /\ pc = "decode" /\ profitable =>
       /\ stream = Held /\ ~active /\ pending = <<>>
       /\ Accepts(head, target.count)

EntryType ==
  [tokens : Seq(Tokens), target : TargetType, head : HeadType,
   stream : Streams, pending : Seq(Rows), backed : BOOLEAN]

\* An entry that an engine with or without a head may restore.
Sound(e, withHead) ==
  /\ e \in EntryType
  /\ e.target = [tokens |-> e.tokens, count |-> Len(e.tokens)]
  /\ withHead =>
       /\ e.stream = e.tokens
       /\ RowsAmong(e.head, e.pending, e.tokens)
       /\ e.head.base # NoBase =>
            e.head.base + Len(e.head.rows \o e.pending) = Len(e.tokens)

Entries ==
  /\ ram # NoEntry => Sound(ram, config.head)
  /\ copy # NoEntry => Sound(copy, config.head)
  /\ \A d \in disk : Sound(d, config.head)

Backing ==
  /\ BackedIsOnDisk
  /\ pc \in Opening \cup {"idle", "prefill", "checkpoint", "persist"} => copy = NoEntry
  /\ pc = "persist" => ram # NoEntry /\ ~ram.backed
  /\ copy # NoEntry /\ pc \in {"activate", "decode", "finish", "save prompt"} =>
       ram # NoEntry /\ ~ram.backed

GInv ==
  Typed /\ Switches /\ Progress /\ Charge /\ Holding /\ HeadKept /\ Entries /\ Backing

-----------------------------------------------------------------------------
(* Sequences.                                                              *)

\* The first n elements.
LEMMA Initial ==
  ASSUME NEW S, NEW s \in Seq(S), NEW n \in Nat, n <= Len(s)
  PROVE  /\ SubSeq(s, 1, n) \in Seq(S)
         /\ Len(SubSeq(s, 1, n)) = n
         /\ \A i \in 1..n : SubSeq(s, 1, n)[i] = s[i]
<1>1. Len(s) \in Nat /\ \A i \in 1..Len(s) : s[i] \in S
  BY LenProperties, ElementOfSeq
<1>2. \A i \in 1..n : s[i] \in S
  BY <1>1
<1>3. /\ SubSeq(s, 1, n) \in Seq(S)
      /\ Len(SubSeq(s, 1, n)) = IF 1 <= n THEN n - 1 + 1 ELSE 0
      /\ \A i \in 1..(n - 1 + 1) : SubSeq(s, 1, n)[i] = s[1 + i - 1]
  BY <1>2, SubSeqProperties
<1> QED BY <1>3

LEMMA AllButLast ==
  ASSUME NEW S, NEW s \in Seq(S), s # <<>>
  PROVE  /\ SubSeq(s, 1, Len(s) - 1) \in Seq(S)
         /\ Len(SubSeq(s, 1, Len(s) - 1)) = Len(s) - 1
         /\ Append(SubSeq(s, 1, Len(s) - 1), s[Len(s)]) = s
<1> DEFINE f == SubSeq(s, 1, Len(s) - 1)
           l == s[Len(s)]
<1>1. Len(s) \in Nat /\ Len(s) # 0 /\ \A i \in 1..Len(s) : s[i] \in S
  BY EmptySeq, LenProperties, ElementOfSeq
<1>3. /\ f \in Seq(S) /\ Len(f) = Len(s) - 1
      /\ \A i \in 1..(Len(s) - 1) : f[i] = s[i]
  <2>1. Len(s) - 1 \in Nat /\ Len(s) - 1 <= Len(s)
    BY <1>1
  <2> QED BY <2>1, Initial
<1>4. l \in S
  BY <1>1
<1> HIDE DEF f, l
<1>5. /\ Append(f, l) \in Seq(S) /\ Len(Append(f, l)) = Len(f) + 1
      /\ \A i \in 1..Len(f) : Append(f, l)[i] = f[i]
      /\ Append(f, l)[Len(f) + 1] = l
  BY <1>3, <1>4, AppendProperties
<1>6. ASSUME NEW i \in 1..Len(s) PROVE Append(f, l)[i] = s[i]
  <2>1. CASE i = Len(s)
    BY <1>1, <1>3, <1>5, <2>1 DEF l
  <2>2. CASE i # Len(s)
    BY <1>1, <1>3, <1>5, <2>2
  <2> QED BY <2>1, <2>2
<1>7. Append(f, l) = s
  BY <1>1, <1>3, <1>5, <1>6, SeqEqual
<1> QED BY <1>3, <1>7 DEF f, l

\* Sequences that agree up to n have the same first n elements.
LEMMA SameInitial ==
  ASSUME NEW S, NEW s \in Seq(S), NEW t \in Seq(S), NEW n \in Nat,
         n <= Len(s), n <= Len(t), \A i \in 1..n : s[i] = t[i]
  PROVE  SubSeq(s, 1, n) = SubSeq(t, 1, n)
<1> DEFINE a == SubSeq(s, 1, n)
           b == SubSeq(t, 1, n)
<1>1. /\ a \in Seq(S) /\ Len(a) = n /\ \A i \in 1..n : a[i] = s[i]
      /\ b \in Seq(S) /\ Len(b) = n /\ \A i \in 1..n : b[i] = t[i]
  BY Initial
<1> HIDE DEF a, b
<1>2. a = b
  BY <1>1, SeqEqual
<1> QED BY <1>2 DEF a, b

\* s is how t begins.
LEMMA BeginsWith ==
  ASSUME NEW S, NEW s \in Seq(S), NEW t \in Seq(S), Len(s) <= Len(t),
         \A i \in 1..Len(s) : s[i] = t[i]
  PROVE  SubSeq(t, 1, Len(s)) = s
<1>1. Len(s) \in Nat
  BY LenProperties
<1>2. SubSeq(s, 1, Len(s)) = SubSeq(t, 1, Len(s))
  BY <1>1, SameInitial
<1> QED BY <1>2, SubSeqFull

-----------------------------------------------------------------------------
(* Rows of the head.                                                       *)

LEMMA RowIn ==
  ASSUME NEW s \in Seq(Tokens), NEW t \in Tokens
  PROVE  Row(s, t) \in Rows /\ Row(s, t).stream = s /\ Row(s, t).token = t
  BY DEF Row, Rows

\* Consuming more tokens disturbs no row.
LEMMA RowsStay ==
  ASSUME NEW base \in Nat, NEW all \in Seq(Rows),
         NEW t \in Seq(Tokens), NEW u \in Seq(Tokens), Len(t) <= Len(u),
         \A i \in 1..Len(t) : t[i] = u[i], RowsFrom(base, all, t)
  PROVE  RowsFrom(base, all, u)
<1>1. Len(t) \in Nat /\ Len(u) \in Nat /\ Len(all) \in Nat
  BY LenProperties
<1>2. base + Len(all) <= Len(u)
  BY <1>1 DEF RowsFrom
<1>3. ASSUME NEW i \in 1..Len(all)
      PROVE  all[i].token = u[base + i] /\ all[i].stream = SubSeq(u, 1, base + i - 1)
  <2>1. all[i].token = t[base + i] /\ all[i].stream = SubSeq(t, 1, base + i - 1)
    BY DEF RowsFrom
  <2>2. /\ base + i \in 1..Len(t) /\ base + i - 1 \in Nat
        /\ base + i - 1 <= Len(t) /\ base + i - 1 <= Len(u)
    BY <1>1 DEF RowsFrom
  <2>3. \A j \in 1..(base + i - 1) : t[j] = u[j]
    <3>1. ASSUME NEW e \in Nat, e <= Len(t) PROVE \A j \in 1..e : t[j] = u[j]
      BY <1>1, <3>1
    <3> QED BY <2>2, <3>1
  <2>4. SubSeq(t, 1, base + i - 1) = SubSeq(u, 1, base + i - 1)
    BY <2>2, <2>3, SameInitial
  <2> QED BY <2>1, <2>2, <2>4
<1> QED BY <1>2, <1>3 DEF RowsFrom

\* Rows of t, and then the rows from there on.
LEMMA RowsJoin ==
  ASSUME NEW base \in Nat, NEW all \in Seq(Rows), NEW new \in Seq(Rows),
         NEW t \in Seq(Tokens), RowsFrom(base, all, t),
         RowsFrom(base + Len(all), new, t)
  PROVE  RowsFrom(base, all \o new, t)
<1>1. Len(t) \in Nat /\ Len(all) \in Nat /\ Len(new) \in Nat
  BY LenProperties
<1>2. /\ Len(all \o new) = Len(all) + Len(new)
      /\ \A i \in 1..(Len(all) + Len(new)) :
           (all \o new)[i] = IF i <= Len(all) THEN all[i] ELSE new[i - Len(all)]
  BY ConcatProperties
<1>3. base + Len(all \o new) <= Len(t)
  BY <1>1, <1>2 DEF RowsFrom
<1>4. ASSUME NEW i \in 1..Len(all \o new)
      PROVE  /\ (all \o new)[i].token = t[base + i]
             /\ (all \o new)[i].stream = SubSeq(t, 1, base + i - 1)
  <2>1. CASE i <= Len(all)
    <3>1. i \in 1..Len(all) /\ (all \o new)[i] = all[i]
      BY <1>1, <1>2, <2>1
    <3> QED BY <3>1 DEF RowsFrom
  <2>2. CASE ~(i <= Len(all))
    <3> DEFINE j == i - Len(all)
    <3>1. j \in 1..Len(new) /\ (all \o new)[i] = new[j]
      BY <1>1, <1>2, <2>2
    <3>2. base + Len(all) + j = base + i
      BY <1>1, <1>2
    <3> HIDE DEF j
    <3>3. /\ new[j].token = t[base + Len(all) + j]
          /\ new[j].stream = SubSeq(t, 1, base + Len(all) + j - 1)
      BY <3>1 DEF RowsFrom
    <3> QED BY <3>1, <3>2, <3>3
  <2> QED BY <2>1, <2>2
<1> QED BY <1>3, <1>4 DEF RowsFrom

LEMMA HeadParts ==
  ASSUME NEW h \in HeadType
  PROVE  /\ h.base \in Bases /\ h.rows \in Seq(Rows)
         /\ h.base # NoBase => h.base \in Nat /\ h.base >= 1
  BY DEF HeadType, Bases

\* Contiguous rows keep a head true, and in step.
LEMMA FeedKeeps ==
  ASSUME NEW h \in HeadType, NEW t \in Seq(Tokens), NEW new \in Seq(Rows),
         NEW p \in Nat \ {0}, RowsAmong(h, <<>>, t), Accepts(h, p),
         RowsFrom(p, new, t)
  PROVE  /\ Feed(h, new, p) \in HeadType
         /\ RowsAmong(Feed(h, new, p), <<>>, t)
         /\ Feed(h, new, p).base # NoBase
         /\ Feed(h, new, p).base + Len(Feed(h, new, p).rows) = p + Len(new)
<1>0. /\ h.base \in Bases /\ h.rows \in Seq(Rows)
      /\ h.base # NoBase => h.base \in Nat
      /\ p \in Bases /\ p \in Nat /\ p # NoBase
  BY HeadParts DEF NoBase, Bases
<1> DEFINE g == Feed(h, new, p)
<1>1. /\ g.base = IF h.base = NoBase THEN p ELSE h.base
      /\ g.rows = h.rows \o new
      /\ g = [base |-> g.base, rows |-> g.rows]
  BY DEF Feed
<1>2. Len(new) \in Nat /\ Len(h.rows) \in Nat
  BY <1>0, LenProperties
<1>3. /\ h.rows \o new \in Seq(Rows) /\ Len(h.rows \o new) = Len(h.rows) + Len(new)
      /\ (h.rows \o new) \o <<>> = h.rows \o new
      /\ h.rows \o <<>> = h.rows
  BY <1>0, ConcatProperties, ConcatEmptySeq
<1>4. g.base \in Bases /\ g.base # NoBase
  BY <1>0, <1>1
<1>5. g \in HeadType
  BY <1>1, <1>3, <1>4 DEF HeadType
<1> HIDE DEF g
<1>6. CASE h.base = NoBase
  <2>1. h.rows = <<>> /\ g.base = p
    BY <1>1, <1>6 DEF RowsAmong
  <2>2. g.rows = new
    BY <1>1, <2>1, ConcatEmptySeq
  <2>3. RowsFrom(g.base, g.rows \o <<>>, t)
    BY <2>1, <2>2, ConcatEmptySeq
  <2> QED BY <1>4, <1>5, <2>1, <2>2, <2>3 DEF RowsAmong, g
<1>7. CASE h.base # NoBase
  <2>1. RowsFrom(h.base, h.rows, t) /\ h.base + Len(h.rows) = p /\ h.base \in Nat
    BY <1>0, <1>3, <1>7 DEF RowsAmong, Accepts
  <2>2. RowsFrom(h.base, h.rows \o new, t)
    BY <1>0, <2>1, RowsJoin
  <2>3. g.base = h.base
    BY <1>1, <1>7
  <2>4. RowsFrom(g.base, g.rows \o <<>>, t)
    BY <1>1, <1>3, <2>2, <2>3
  <2>5. g.base + Len(g.rows) = p + Len(new)
    BY <1>1, <1>2, <1>3, <2>1, <2>3
  <2> QED BY <1>4, <1>5, <2>4, <2>5 DEF RowsAmong, g
<1> QED BY <1>6, <1>7

LEMMA AmongStays ==
  ASSUME NEW h \in HeadType, NEW rows \in Seq(Rows),
         NEW t \in Seq(Tokens), NEW u \in Seq(Tokens), Len(t) <= Len(u),
         \A i \in 1..Len(t) : t[i] = u[i], RowsAmong(h, rows, t)
  PROVE  RowsAmong(h, rows, u)
<1>1. CASE h.base = NoBase
  BY <1>1 DEF RowsAmong
<1>2. CASE h.base # NoBase
  <2>1. h.base \in Nat /\ h.rows \o rows \in Seq(Rows)
    BY <1>2, HeadParts, ConcatProperties
  <2>2. RowsFrom(h.base, h.rows \o rows, u)
    BY <1>2, <2>1, RowsStay DEF RowsAmong
  <2> QED BY <1>2, <2>2 DEF RowsAmong
<1> QED BY <1>1, <1>2

\* The row of the next token.
LEMMA NextRow ==
  ASSUME NEW t \in Seq(Tokens), NEW c \in Tokens
  PROVE  /\ Append(t, c) \in Seq(Tokens)
         /\ <<Row(t, c)>> \in Seq(Rows)
         /\ RowsFrom(Len(t), <<Row(t, c)>>, Append(t, c))
<1> DEFINE u == Append(t, c)
           r == <<Row(t, c)>>
<1>1. Len(t) \in Nat /\ u \in Seq(Tokens) /\ Len(u) = Len(t) + 1
  BY LenProperties, AppendProperties
<1>2. (\A i \in 1..Len(t) : u[i] = t[i]) /\ u[Len(t) + 1] = c
  BY AppendProperties
<1>3. r \in Seq(Rows) /\ Len(r) = 1 /\ r[1] = Row(t, c)
  BY RowIn
<1> HIDE DEF u, r
<1>4. SubSeq(u, 1, Len(t)) = t
  BY <1>1, <1>2, BeginsWith
<1>5. r[1].token = u[Len(t) + 1] /\ r[1].stream = SubSeq(u, 1, Len(t) + 1 - 1)
  BY <1>1, <1>2, <1>3, <1>4, RowIn
<1>6. RowsFrom(Len(t), r, u)
  BY <1>1, <1>3, <1>5 DEF RowsFrom
<1> QED BY <1>1, <1>3, <1>6 DEF u, r

\* A row kept for later.
LEMMA PendKeeps ==
  ASSUME NEW h \in HeadType, NEW rows \in Seq(Rows), NEW t \in Seq(Tokens),
         NEW c \in Tokens, RowsAmong(h, rows, t), h.base # NoBase,
         h.base + Len(h.rows) + Len(rows) = Len(t)
  PROVE  /\ Append(rows, Row(t, c)) \in Seq(Rows)
         /\ RowsAmong(h, Append(rows, Row(t, c)), Append(t, c))
<1> DEFINE u == Append(t, c)
           r == <<Row(t, c)>>
           all == h.rows \o rows
<1>1. h.base \in Nat /\ h.rows \in Seq(Rows) /\ Len(t) \in Nat
  BY HeadParts, LenProperties
<1>2. all \in Seq(Rows) /\ Len(all) = Len(h.rows) + Len(rows)
  BY <1>1, ConcatProperties
<1>3. /\ u \in Seq(Tokens) /\ Len(u) = Len(t) + 1
      /\ \A i \in 1..Len(t) : u[i] = t[i]
  BY AppendProperties
<1>4. r \in Seq(Rows) /\ RowsFrom(Len(t), r, u)
  BY NextRow
<1>5. Append(rows, Row(t, c)) = rows \o r
  BY RowIn, AppendIsConcat
<1> HIDE DEF r
<1>6. h.rows \o (rows \o r) = all \o r /\ rows \o r \in Seq(Rows)
  <2>1. ASSUME NEW a \in Seq(Rows) PROVE (a \o rows) \o r = a \o (rows \o r)
    BY <1>4, ConcatAssociative, SMTT(40)
  <2>2. rows \o r \in Seq(Rows)
    BY <1>4, ConcatProperties
  <2> QED BY <1>1, <2>1, <2>2
<1>7. RowsFrom(h.base, all, t)
  BY DEF RowsAmong
<1> HIDE DEF u, all
<1>8. RowsFrom(h.base, all, u)
  <2>1. Len(t) <= Len(u) /\ \A i \in 1..Len(t) : t[i] = u[i]
    BY <1>1, <1>3
  <2> QED BY <1>1, <1>2, <1>3, <1>7, <2>1, RowsStay
<1>9. h.base + Len(all) = Len(t)
  BY <1>1, <1>2, LenProperties
<1>10. RowsFrom(h.base, all \o r, u)
  BY <1>1, <1>2, <1>3, <1>4, <1>8, <1>9, RowsJoin
<1> QED BY <1>5, <1>6, <1>10 DEF RowsAmong, u

-----------------------------------------------------------------------------
(* The request.                                                            *)

LEMMA RequestFacts ==
  ASSUME NEW r \in Requests
  PROVE  /\ r.prompt \in Seq(Tokens) /\ Len(r.prompt) \in Nat /\ Len(r.prompt) >= 1
         /\ r.prompt # <<>>
         /\ r.max_tokens \in Nat /\ r.max_tokens >= 1
         /\ r.prompt[Len(r.prompt)] \in Tokens /\ r.prompt[1] \in Tokens
<1>1. r.prompt \in Seq(Tokens) /\ r.prompt # <<>> /\ r.max_tokens \in Nat \ {0}
  BY GenerationAssumption
<1>2. Len(r.prompt) \in Nat \ {0}
  BY <1>1, EmptySeq
<1>3. Len(r.prompt) \in 1..Len(r.prompt) /\ 1 \in 1..Len(r.prompt)
  BY <1>2
<1>4. r.prompt[Len(r.prompt)] \in Tokens /\ r.prompt[1] \in Tokens
  BY <1>1, <1>3, ElementOfSeq
<1> QED BY <1>1, <1>2, <1>4

LEMMA AllFacts ==
  ASSUME Typed
  PROVE  /\ All \in Seq(Tokens) /\ Len(All) = Complete /\ All # <<>>
         /\ Complete \in Nat /\ Complete >= 1 /\ Complete = Len(request.prompt) + Len(out)
         /\ Len(out) \in Nat
         /\ Consumed \in Seq(Tokens) /\ Len(Consumed) = Complete - 1
         /\ Append(Consumed, All[Len(All)]) = All
         /\ Consumed = SubSeq(All, 1, Len(All) - 1)
<1>1. /\ request.prompt \in Seq(Tokens) /\ Len(request.prompt) \in Nat
      /\ Len(request.prompt) >= 1 /\ out \in Seq(Tokens) /\ Len(out) \in Nat
  BY RequestFacts, LenProperties DEF Typed
<1>2. All \in Seq(Tokens) /\ Len(All) = Len(request.prompt) + Len(out)
  BY <1>1, ConcatProperties DEF All
<1>3. Complete = Len(request.prompt) + Len(out)
  BY DEF Complete
<1>4. All # <<>>
  <2>1. Len(<<>>) = 0
    OBVIOUS
  <2> QED BY <1>1, <1>2, <2>1
<1>5. Consumed = SubSeq(All, 1, Len(All) - 1)
  BY <1>2, <1>3 DEF Consumed, All
<1>6. /\ Consumed \in Seq(Tokens) /\ Len(Consumed) = Len(All) - 1
      /\ Append(Consumed, All[Len(All)]) = All
  BY <1>2, <1>4, <1>5, AllButLast, Zenon
<1> QED BY <1>1, <1>2, <1>3, <1>4, <1>5, <1>6

\* Before anything is generated.
LEMMA AllAtFirst ==
  ASSUME Typed, out = <<>>
  PROVE  All = request.prompt /\ Consumed = PrefillTokens /\ Len(Consumed) = PrefillRows
<1>1. All = request.prompt
  BY RequestFacts, ConcatEmptySeq DEF Typed, All
<1>2. Consumed = SubSeq(All, 1, Len(All) - 1)
  BY AllFacts
<1> QED BY <1>1, <1>2, AllFacts DEF PrefillTokens, PrefillRows

-----------------------------------------------------------------------------
(* Every action keeps the invariant.                                       *)

LEMMA GInit == Init => GInv
<1> SUFFICES ASSUME Init PROVE GInv
  OBVIOUS
<1>0. request \in Requests /\ request.prompt[1] \in Tokens /\ request.max_tokens \in Nat
  BY RequestFacts DEF Init
<1>1. Typed
  <2>1. pc \in Pcs
    BY DEF Init, Pcs
  <2>2. target \in TargetType /\ head \in HeadType /\ pending \in Seq(Rows)
    BY DEF Init, TargetType, HeadType, Bases, EmptyTarget, EmptyHead
  <2>3. stream \in Streams /\ backend.stream \in Streams /\ backend.tokens \in Seq(Tokens)
    BY DEF Init, Streams, NoStream
  <2>4. out \in Seq(Tokens) /\ current \in Tokens
    BY <1>0 DEF Init
  <2>5. config \in Configs /\ offset \in Nat /\ anchor \in Nat /\ served \in 0..MaxRequests
    BY GenerationAssumption DEF Init
  <2> QED BY <1>0, <2>1, <2>2, <2>3, <2>4, <2>5 DEF Typed
<1>2. Switches
  BY Zenon DEF Init, Switches
<1>3. Progress
  <2>1. Len(out) = 0 /\ pc = "idle" /\ status = "idle" /\ reason = "length"
    BY DEF Init
  <2> QED BY <1>0, <2>1 DEF Progress, Opening, Prefilling, Closing
<1>4. Charge
  BY DEF Init, Charge, Opening, Prefilling
<1>5. Holding /\ HeadKept
  BY DEF Init, Holding, HeadKept, Opening, Prefilling
<1>6. Entries /\ Backing
  BY DEF Init, Entries, Backing, BackedIsOnDisk
<1> QED BY <1>1, <1>2, <1>3, <1>4, <1>5, <1>6 DEF GInv

LEMMA BeginKeeps ==
  ASSUME NoAnchoredHead, GInv, NEW r \in Requests, Begin(r)
  PROVE  GInv'
<1>0. /\ r.prompt \in Seq(Tokens) /\ Len(r.prompt) >= 1 /\ Len(r.prompt) \in Nat
      /\ r.max_tokens \in Nat /\ r.max_tokens >= 1
      /\ r.prompt[Len(r.prompt)] \in Tokens
  BY RequestFacts
<1>1. /\ pc = "idle" /\ pc' = "lookup" /\ request' = r /\ out' = <<>>
      /\ config' = config /\ status' = "running" /\ reason' = "length"
      /\ target' = EmptyTarget /\ head' = EmptyHead /\ stream' = NoStream
      /\ offset' = 0 /\ pending' = <<>> /\ copy' = NoEntry
      /\ ram' = ram /\ disk' = disk /\ backend' = backend
      /\ current' = r.prompt[Len(r.prompt)]
  BY DEF Begin, caches
<1>2. /\ config \in ConfigType
      /\ config.anchor \in Nat
      /\ config.head /\ config.backend => config.anchor = 0
  BY GenerationAssumption DEF GInv, Typed, ConfigType, NoAnchoredHead
<1>3. /\ anchor' \in Nat
      /\ anchor' > 0 => config.backend /\ config.anchor > 0
  BY <1>0, <1>2 DEF Begin, Min2
<1>4. Typed'
  <2>1. target' \in TargetType /\ head' \in HeadType /\ pending' \in Seq(Rows)
    BY <1>1 DEF TargetType, HeadType, Bases, EmptyTarget, EmptyHead
  <2>2. stream' \in Streams /\ out' \in Seq(Tokens)
    BY <1>1 DEF Streams, NoStream
  <2>3. served' \in 0..MaxRequests
    BY GenerationAssumption DEF GInv, Typed, Begin
  <2>4. pc' \in Pcs
    BY <1>1 DEF Pcs
  <2> QED BY <1>0, <1>1, <1>3, <2>1, <2>2, <2>3, <2>4 DEF GInv, Typed
<1>5. Switches'
  <2>1. active' = FALSE /\ extendable' = TRUE /\ changed' = FALSE
    BY DEF Begin
  <2>2. reset' \in BOOLEAN
    BY DEF Begin
  <2>3. profitable' \in BOOLEAN
    BY DEF Begin
  <2> QED BY <2>1, <2>2, <2>3 DEF Switches
<1>6. All' = r.prompt
  BY <1>0, <1>1, ConcatEmptySeq DEF All
<1>7. Progress'
  BY <1>0, <1>1, <1>6 DEF Progress, Opening, Prefilling, Closing
<1>8. Charge'
  <2>1. active' = FALSE /\ (reset' => Len(r.prompt) = 1)
    BY DEF Begin
  <2> QED BY <1>1, <1>2, <1>3, <2>1 DEF Charge, Opening, Prefilling
<1>9. Holding'
  BY <1>1 DEF Holding, Opening, Prefilling
<1>10. HeadKept'
  <2>1. ~config.head => ~profitable'
    BY DEF Begin
  <2> QED BY <1>1, <2>1 DEF HeadKept, Prefilling
<1>11. Entries'
  BY <1>1 DEF GInv, Entries
<1>12. Backing'
  BY <1>1 DEF GInv, Backing, BackedIsOnDisk
<1> QED BY <1>4, <1>5, <1>7, <1>8, <1>9, <1>10, <1>11, <1>12 DEF GInv

LEMMA SoundFacts ==
  ASSUME NEW e, NEW withHead, Sound(e, withHead)
  PROVE  /\ e # NoEntry
         /\ e.tokens \in Seq(Tokens) /\ Len(e.tokens) \in Nat
         /\ e.target \in TargetType /\ e.head \in HeadType
         /\ e.stream \in Streams /\ e.pending \in Seq(Rows)
         /\ e.backed \in BOOLEAN
<1>1. e \in EntryType
  BY DEF Sound
<1>2. e # NoEntry
  <2>1. "backed" \in DOMAIN e
    BY <1>1 DEF EntryType
  <2>2. "backed" \notin DOMAIN NoEntry
    BY DEF NoEntry
  <2> QED BY <2>1, <2>2
<1>3. e.tokens \in Seq(Tokens)
  BY <1>1 DEF EntryType
<1>4. Len(e.tokens) \in Nat
  BY <1>3, LenProperties
<1> QED BY <1>1, <1>2, <1>3, <1>4 DEF EntryType

\* Whether an entry is backed by the disk is no part of its soundness.
LEMMA SoundBacked ==
  ASSUME NEW e, NEW withHead, Sound(e, withHead), NEW b \in BOOLEAN
  PROVE  /\ Sound([e EXCEPT !.backed = b], withHead)
         /\ [e EXCEPT !.backed = b].tokens = e.tokens
         /\ [e EXCEPT !.backed = b].backed = b
<1> DEFINE f == [e EXCEPT !.backed = b]
<1>1. e \in EntryType
  BY DEF Sound
<1>2. /\ f.tokens = e.tokens /\ f.target = e.target /\ f.head = e.head
      /\ f.stream = e.stream /\ f.pending = e.pending
      /\ f \in EntryType
      /\ f.backed = b
  BY <1>1 DEF EntryType
<1> HIDE DEF f
<1>3. Sound(f, withHead)
  BY <1>2 DEF Sound
<1> QED BY <1>2, <1>3 DEF f

LEMMA LookupKeeps ==
  ASSUME GInv, Lookup
  PROVE  GInv'
<1>1. /\ pc = "lookup" /\ pc' = "restore"
      /\ UNCHANGED <<disk, live, metal, loop, ending, serving>>
  BY DEF Lookup
<1>2. /\ UNCHANGED <<disk, offset, target, head, stream, backend, active, reset, anchor>>
      /\ UNCHANGED <<current, out, profitable, extendable, pending, rounds>>
      /\ UNCHANGED <<changed, copy, reason, config, request, status, served>>
  BY <1>1 DEF live, metal, loop, ending, serving
<1>3. \/ ram' = ram
      \/ ram' = NoEntry
      \/ \E d \in disk : ram' = [d EXCEPT !.backed = TRUE]
  BY DEF Lookup
<1>4. Typed' /\ Switches'
  BY <1>1, <1>2 DEF GInv, Typed, Switches, Pcs
<1>5. Progress' /\ Charge'
  BY <1>1, <1>2 DEF GInv, Progress, Charge, Opening, Prefilling, Closing, All
<1>6. Holding'
  BY <1>1, <1>2 DEF GInv, Holding, Opening, Prefilling
<1>7. HeadKept'
  BY <1>1, <1>2 DEF GInv, HeadKept, Prefilling
<1>8. /\ ram' # NoEntry => Sound(ram', config.head)
      /\ ram' # NoEntry /\ ram'.backed => \E d \in disk : d.tokens = ram'.tokens
  <2>1. CASE ram' = ram
    BY <2>1 DEF GInv, Entries, Backing, BackedIsOnDisk
  <2>2. CASE ram' = NoEntry
    BY <2>2
  <2>3. ASSUME NEW d \in disk, ram' = [d EXCEPT !.backed = TRUE]
        PROVE  Sound(ram', config.head) /\ ram'.tokens = d.tokens
    <3>1. Sound(d, config.head)
      BY DEF GInv, Entries
    <3> QED BY <2>3, <3>1, SoundBacked
  <2> QED BY <1>3, <2>1, <2>2, <2>3
<1>9. Entries'
  BY <1>2, <1>8 DEF GInv, Entries
<1>10. Backing'
  BY <1>1, <1>2, <1>8 DEF GInv, Backing, BackedIsOnDisk, Opening
<1> QED BY <1>4, <1>5, <1>6, <1>7, <1>9, <1>10 DEF GInv

\* What a hit restores is the state of the tokens it matched.
LEMMA HitFacts ==
  ASSUME GInv, Hit
  PROVE  /\ Sound(ram, config.head)
         /\ Len(ram.tokens) <= PrefillRows
         /\ ram.tokens = SubSeq(request.prompt, 1, Len(ram.tokens))
<1>1. Sound(ram, config.head)
  BY DEF GInv, Entries, Hit
<1> DEFINE t == ram.tokens
           n == Len(t)
<1>2. t \in Seq(Tokens) /\ n \in Nat
  BY <1>1, SoundFacts
<1>3. request.prompt \in Seq(Tokens) /\ Len(request.prompt) \in Nat /\ Len(request.prompt) >= 1
  BY RequestFacts DEF GInv, Typed
<1>4. /\ PrefillTokens \in Seq(Tokens) /\ Len(PrefillTokens) = PrefillRows
      /\ \A i \in 1..PrefillRows : PrefillTokens[i] = request.prompt[i]
      /\ PrefillRows \in Nat /\ PrefillRows <= Len(request.prompt)
  <2>1. PrefillRows \in Nat /\ PrefillRows <= Len(request.prompt)
    BY <1>3 DEF PrefillRows
  <2> QED BY <1>3, <2>1, Initial DEF PrefillTokens, PrefillRows
<1>5. n <= PrefillRows /\ SubSeq(PrefillTokens, 1, n) = t
  BY <1>4 DEF Hit, IsPrefix
<1> HIDE DEF t, n
<1>6. \A i \in 1..n : PrefillTokens[i] = request.prompt[i]
  BY <1>2, <1>4, <1>5
<1>7. n <= Len(PrefillTokens) /\ n <= Len(request.prompt)
  BY <1>2, <1>3, <1>4, <1>5
<1>8. SubSeq(PrefillTokens, 1, n) = SubSeq(request.prompt, 1, n)
  BY <1>2, <1>3, <1>4, <1>6, <1>7, SameInitial
<1> QED BY <1>1, <1>5, <1>8 DEF t, n

LEMMA RestoredHeadFacts ==
  ASSUME GInv, Hit
  PROVE  /\ RestoredHead \in HeadType
         /\ config.head =>
              /\ RowsAmong(RestoredHead, <<>>, ram.tokens)
              /\ RestoredHead.base # NoBase =>
                   RestoredHead.base + Len(RestoredHead.rows) = Len(ram.tokens)
<1>1. Sound(ram, config.head)
  BY HitFacts
<1> DEFINE h == ram.head
           p == ram.pending
           t == ram.tokens
<1>2. h \in HeadType /\ p \in Seq(Rows) /\ t \in Seq(Tokens) /\ h.rows \in Seq(Rows)
      /\ h.base \in Bases
  BY <1>1, SoundFacts, HeadParts
<1>3. CASE ~config.head
  BY <1>3 DEF RestoredHead, EmptyHead, HeadType, Bases
<1>4. CASE config.head
  <2>1. /\ RowsAmong(h, p, t)
        /\ h.base # NoBase => h.base + Len(h.rows \o p) = Len(t)
    BY <1>1, <1>4 DEF Sound
  <2>2. h.rows \o p \in Seq(Rows) /\ (h.rows \o p) \o <<>> = h.rows \o p
    BY <1>2, ConcatProperties, ConcatEmptySeq
  <2> HIDE DEF h, p, t
  <2>3. CASE p = <<>>
    <3>1. RestoredHead = h
      BY <1>4, <2>3 DEF RestoredHead, h, p
    <3>2. h.rows \o p = h.rows
      BY <1>2, <2>3, ConcatEmptySeq
    <3> QED BY <1>2, <2>1, <2>3, <3>1, <3>2 DEF t
  <2>4. CASE p # <<>>
    <3>1. h.base # NoBase /\ h.base \in Bases
      BY <1>2, <2>1, <2>4 DEF RowsAmong
    <3>2. RestoredHead = [base |-> h.base, rows |-> h.rows \o p]
      BY <1>4, <2>4, <3>1 DEF RestoredHead, Feed, h, p
    <3>3. /\ RestoredHead.base = h.base /\ RestoredHead.rows = h.rows \o p
          /\ RestoredHead \in HeadType
      BY <2>2, <3>1, <3>2 DEF HeadType
    <3>4. RowsAmong(RestoredHead, <<>>, t)
      BY <2>1, <2>2, <3>1, <3>3 DEF RowsAmong
    <3> QED BY <2>1, <3>1, <3>3, <3>4 DEF t
  <2> QED BY <2>3, <2>4
<1> QED BY <1>3, <1>4

LEMMA RestoreKeeps ==
  ASSUME GInv, Restore
  PROVE  GInv'
<1>1. /\ pc = "restore" /\ pc' = "prefill"
      /\ UNCHANGED <<disk, backend, active, reset, anchor>>
      /\ UNCHANGED <<current, out, extendable, pending, rounds>>
      /\ UNCHANGED <<changed, copy, reason, config, request, status, served>>
  BY DEF Restore, metal, ending, serving
<1>2. /\ target = EmptyTarget /\ head = EmptyHead /\ stream = NoStream
      /\ offset = 0 /\ out = <<>> /\ ~active /\ pending = <<>>
  BY <1>1 DEF GInv, Holding, Progress, Charge, Opening
<1>3. request.prompt \in Seq(Tokens) /\ PrefillRows \in Nat
  BY RequestFacts DEF GInv, Typed, PrefillRows
<1>4. /\ offset' \in Nat /\ offset' <= PrefillRows
      /\ target' = [tokens |-> SubSeq(request.prompt, 1, offset'), count |-> offset']
      /\ target' \in TargetType
      /\ head' \in HeadType /\ stream' \in Streams
      /\ config.head =>
           /\ stream' = target'.tokens
           /\ RowsAmong(head', <<>>, target'.tokens)
           /\ head'.base # NoBase => head'.base + Len(head'.rows) = offset'
  <2>1. CASE Hit
    <3>1. /\ target' = ram.target /\ head' = RestoredHead /\ stream' = ram.stream
          /\ offset' = Len(ram.tokens)
      BY <2>1 DEF Restore
    <3>2. /\ Sound(ram, config.head)
          /\ Len(ram.tokens) <= PrefillRows
          /\ ram.tokens = SubSeq(request.prompt, 1, Len(ram.tokens))
      BY <2>1, HitFacts
    <3>3. /\ Len(ram.tokens) \in Nat
          /\ ram.target \in TargetType /\ ram.stream \in Streams
      BY <3>2, SoundFacts
    <3>4. /\ ram.target = [tokens |-> ram.tokens, count |-> Len(ram.tokens)]
          /\ config.head => ram.stream = ram.tokens
      BY <3>2 DEF Sound
    <3>5. /\ RestoredHead \in HeadType
          /\ config.head =>
               /\ RowsAmong(RestoredHead, <<>>, ram.tokens)
               /\ RestoredHead.base # NoBase =>
                    RestoredHead.base + Len(RestoredHead.rows) = Len(ram.tokens)
      BY <2>1, RestoredHeadFacts
    <3>6. target'.tokens = ram.tokens
      BY <3>1, <3>4
    <3>7. target' = [tokens |-> SubSeq(request.prompt, 1, offset'), count |-> offset']
      BY <3>1, <3>2, <3>4
    <3> QED BY <3>1, <3>2, <3>3, <3>4, <3>5, <3>6, <3>7
  <2>2. CASE ~Hit
    <3>1. target' = target /\ head' = head /\ stream' = stream /\ offset' = offset
      BY <2>2 DEF Restore, live
    <3>2. SubSeq(request.prompt, 1, 0) = <<>>
      BY SubSeqEmpty
    <3>3. /\ EmptyTarget = [tokens |-> <<>>, count |-> 0]
          /\ EmptyTarget.tokens = <<>>
          /\ EmptyTarget \in TargetType
      BY DEF EmptyTarget, TargetType
    <3>4. /\ EmptyHead \in HeadType /\ EmptyHead.base = NoBase
          /\ RowsAmong(EmptyHead, <<>>, <<>>)
      BY DEF EmptyHead, HeadType, Bases, RowsAmong
    <3> QED BY <1>2, <1>3, <3>1, <3>2, <3>3, <3>4 DEF NoStream, GInv, Typed
  <2> QED BY <2>1, <2>2
<1>5. ram' \in {ram, NoEntry}
  BY DEF Restore
<1>6. Typed'
  BY <1>1, <1>4 DEF GInv, Typed, Pcs
<1>7. profitable' \in BOOLEAN /\ (~profitable => ~profitable')
  <2>1. \/ profitable' = profitable
        \/ profitable' = (profitable /\ Len(ram.tokens) < PrefillRows)
    BY DEF Restore
  <2>2. profitable \in BOOLEAN
    BY DEF GInv, Switches
  <2>3. CASE profitable' = profitable
    BY <2>2, <2>3, Zenon
  <2>4. CASE profitable' = (profitable /\ Len(ram.tokens) < PrefillRows)
    BY <2>2, <2>4, Zenon
  <2> QED BY <2>1, <2>3, <2>4
<1>8. Switches'
  BY <1>1, <1>7 DEF GInv, Switches
<1>9. Progress' /\ Charge'
  BY <1>1 DEF GInv, Progress, Charge, Opening, Prefilling, Closing, All
<1>10. Held' = target'.tokens
  BY <1>1, <1>2 DEF Held
<1>11. Holding'
  BY <1>1, <1>4 DEF Holding, Opening, Prefilling, PrefillRows
<1>12. HeadKept'
  BY <1>1, <1>2, <1>4, <1>7, <1>10 DEF GInv, HeadKept, Prefilling
<1>13. Entries'
  BY <1>1, <1>5 DEF GInv, Entries
<1>14. Backing'
  BY <1>1, <1>5 DEF GInv, Backing, BackedIsOnDisk, Opening
<1> QED BY <1>6, <1>8, <1>9, <1>11, <1>12, <1>13, <1>14 DEF GInv

\* The prompt up to n, then k tokens of the chunk that starts there.
LEMMA ChunkAfter ==
  ASSUME NEW p \in Seq(Tokens), NEW n \in Nat, NEW c \in Nat, n + c <= Len(p),
         NEW k \in 0..c
  PROVE  SubSeq(p, 1, n) \o SubSeq(SubSeq(p, n + 1, n + c), 1, k)
           = SubSeq(p, 1, n + k)
<1> DEFINE a == SubSeq(p, 1, n)
           b == SubSeq(p, n + 1, n + c)
           d == SubSeq(b, 1, k)
           e == SubSeq(p, 1, n + k)
<1>1. Len(p) \in Nat /\ \A i \in 1..Len(p) : p[i] \in Tokens
  BY LenProperties, ElementOfSeq
<1>2. a \in Seq(Tokens) /\ Len(a) = n /\ \A i \in 1..n : a[i] = p[i]
  BY <1>1, Initial
<1>3. b \in Seq(Tokens) /\ Len(b) = c /\ \A i \in 1..c : b[i] = p[n + i]
  <2>1. \A i \in (n + 1)..(n + c) : p[i] \in Tokens
    BY <1>1
  <2>2. /\ b \in Seq(Tokens)
        /\ Len(b) = IF n + 1 <= n + c THEN (n + c) - (n + 1) + 1 ELSE 0
        /\ \A i \in 1..((n + c) - (n + 1) + 1) : b[i] = p[(n + 1) + i - 1]
    BY <2>1, SubSeqProperties
  <2>3. (n + c) - (n + 1) + 1 = c /\ \A i \in 1..c : (n + 1) + i - 1 = n + i
    OBVIOUS
  <2> HIDE DEF b
  <2> QED BY <2>2, <2>3
<1> HIDE DEF b
<1>4. d \in Seq(Tokens) /\ Len(d) = k /\ \A i \in 1..k : d[i] = b[i]
  BY <1>3, Initial
<1>5. e \in Seq(Tokens) /\ Len(e) = n + k /\ \A i \in 1..(n + k) : e[i] = p[i]
  <2>1. n + k \in Nat /\ n + k <= Len(p)
    BY <1>1
  <2> QED BY <2>1, Initial
<1> HIDE DEF a, d, e
<1>6. /\ a \o d \in Seq(Tokens) /\ Len(a \o d) = n + k
      /\ \A i \in 1..(n + k) : (a \o d)[i] = IF i <= n THEN a[i] ELSE d[i - n]
  BY <1>2, <1>4, ConcatProperties
<1>7. ASSUME NEW i \in 1..(n + k) PROVE (a \o d)[i] = e[i]
  <2>1. CASE i <= n
    <3>1. i \in 1..n
      BY <2>1
    <3> QED BY <1>2, <1>5, <1>6, <2>1, <3>1
  <2>2. CASE ~(i <= n)
    <3>1. i - n \in 1..k /\ i - n \in 1..c /\ n + (i - n) = i
      BY <2>2
    <3> QED BY <1>3, <1>4, <1>5, <1>6, <2>2, <3>1
  <2> QED BY <2>1, <2>2
<1>8. a \o d = e
  BY <1>5, <1>6, <1>7, SeqEqual
<1> QED BY <1>8 DEF a, b, d, e

\* One chunk: target, stream and head move together.
LEMMA ChunkFacts ==
  ASSUME GInv, PrefillChunk
  PROVE  /\ offset' \in Nat /\ offset' <= PrefillRows
         /\ target' = [tokens |-> SubSeq(request.prompt, 1, offset'), count |-> offset']
         /\ target' \in TargetType
         /\ head' \in HeadType
         /\ stream' = target'.tokens
         /\ config.head =>
              /\ RowsAmong(head', <<>>, target'.tokens)
              /\ head'.base # NoBase => head'.base + Len(head'.rows) = offset'
<1> DEFINE p == request.prompt
           n == offset
           c == Min2(ChunkRows, PrefillRows - n)
           chunk == SubSeq(p, n + 1, n + c)
           after(k) == target.tokens \o SubSeq(chunk, 1, k)
           first == FirstFed(n)
           rows == [i \in 1..(n + c - first) |->
                      Row(IF first + i - 1 = n THEN stream
                          ELSE after(first + i - 1 - n), p[first + i])]
           u == SubSeq(p, 1, n + c)
<1>1. /\ pc = "prefill" /\ n < PrefillRows
      /\ target' = [tokens |-> after(c), count |-> target.count + c]
      /\ stream' = after(c) /\ offset' = n + c
      /\ \/ config.head /\ rows # <<>> /\ Accepts(head, first)
            /\ head' = Feed(head, rows, first)
         \/ ~(config.head /\ rows # <<>>) /\ UNCHANGED head
  BY DEF PrefillChunk
<1>2. p \in Seq(Tokens) /\ Len(p) \in Nat /\ Len(p) >= 1 /\ PrefillRows = Len(p) - 1
  BY RequestFacts DEF GInv, Typed, PrefillRows
<1>3. n \in Nat /\ c \in Nat /\ c >= 1 /\ n + c <= PrefillRows /\ n + c <= Len(p)
  <2>1. n \in Nat
    BY DEF GInv, Typed
  <2>2. ChunkRows \in Nat /\ ChunkRows >= 1
    BY GenerationAssumption
  <2>3. PrefillRows \in Nat /\ n < PrefillRows
    BY <1>1, <1>2
  <2>4. c \in Nat /\ c >= 1 /\ c <= PrefillRows - n
    BY <2>1, <2>2, <2>3 DEF Min2
  <2> HIDE DEF c
  <2> QED BY <1>2, <2>1, <2>3, <2>4
<1>4. /\ target = [tokens |-> SubSeq(p, 1, n), count |-> n]
      /\ pending = <<>> /\ ~active
  BY <1>1 DEF GInv, Holding, Charge, Prefilling
<1>5. target.tokens = SubSeq(p, 1, n) /\ target.count = n
  BY <1>4
<1>6. ASSUME NEW k \in 0..c PROVE after(k) = SubSeq(p, 1, n + k)
  <2> HIDE DEF c, n
  <2>1. SubSeq(p, 1, n) \o SubSeq(SubSeq(p, n + 1, n + c), 1, k) = SubSeq(p, 1, n + k)
    BY <1>2, <1>3, ChunkAfter
  <2> QED BY <1>5, <2>1
<1>7. after(c) = u /\ u \in Seq(Tokens) /\ Len(u) = n + c
      /\ \A i \in 1..(n + c) : u[i] = p[i]
  <2>1. c \in 0..c /\ n + c \in Nat
    BY <1>3
  <2>2. u \in Seq(Tokens) /\ Len(u) = n + c /\ \A i \in 1..(n + c) : u[i] = p[i]
    BY <1>2, <1>3, <2>1, Initial
  <2>3. after(c) = u
    BY <1>6, <2>1
  <2> QED BY <2>2, <2>3
<1>8. /\ target' = [tokens |-> u, count |-> n + c] /\ stream' = u
      /\ target'.tokens = u
  BY <1>1, <1>5, <1>7
<1>9. target' \in TargetType
  BY <1>3, <1>7, <1>8 DEF TargetType
<1>10. ASSUME config.head
       PROVE  /\ head' \in HeadType
              /\ RowsAmong(head', <<>>, u)
              /\ head'.base # NoBase => head'.base + Len(head'.rows) = n + c
  <2>1. /\ stream = SubSeq(p, 1, n) /\ head \in HeadType
        /\ RowsAmong(head, <<>>, SubSeq(p, 1, n))
        /\ head.base # NoBase => head.base + Len(head.rows) = n
    <3>1. Held = target.tokens
      BY <1>4 DEF Held
    <3> QED BY <1>1, <1>4, <1>5, <1>10, <3>1 DEF GInv, HeadKept, Prefilling, Typed
  <2>2. /\ SubSeq(p, 1, n) \in Seq(Tokens) /\ Len(SubSeq(p, 1, n)) = n
        /\ \A i \in 1..n : SubSeq(p, 1, n)[i] = p[i]
    BY <1>2, <1>3, Initial
  <2>3. first \in Nat /\ first >= 1 /\ first >= n /\ first <= n + 1
        /\ (first = n + 1 <=> stream = NoStream)
    <3>1. CASE stream = NoStream
      BY <1>3, <3>1 DEF FirstFed
    <3>2. CASE stream # NoStream
      <4>1. n # 0
        BY <2>1, <3>2, SubSeqEmpty DEF NoStream
      <4> QED BY <1>3, <3>2, <4>1 DEF FirstFed
    <3> QED BY <3>1, <3>2
  <2> DEFINE m == n + c - first
             row(i) == Row(SubSeq(p, 1, first + i - 1), p[first + i])
  <2>4. m \in Nat /\ first + m = n + c /\ n + c - first = m
    BY <1>3, <2>3
  <2> HIDE DEF first, c, u, m
  <2>5. ASSUME NEW i \in 1..m
        PROVE  rows[i] = row(i) /\ row(i) \in Rows
               /\ row(i).token = u[first + i]
               /\ row(i).stream = SubSeq(u, 1, first + i - 1)
    <3>1. /\ first + i - 1 \in Nat /\ first + i - 1 <= n + c
          /\ first + i \in 1..(n + c) /\ first + i \in 1..Len(p)
          /\ first + i - 1 <= Len(p) /\ first + i - 1 <= Len(u)
      <4>1. n \in Nat /\ c \in Nat /\ n + c <= Len(p) /\ Len(p) \in Nat /\ Len(u) = n + c
        BY <1>2, <1>3, <1>7
      <4>2. first \in Nat /\ first >= 1 /\ first + m = n + c /\ m \in Nat
        BY <2>3, <2>4
      <4> QED BY <4>1, <4>2
    <3>2. rows[i] = Row(IF first + i - 1 = n THEN stream
                        ELSE after(first + i - 1 - n), p[first + i])
      BY <2>4
    <3> HIDE DEF rows
    <3>a. rows[i] = row(i)
      <4>a. CASE first + i - 1 = n
        BY <2>1, <3>2, <4>a
      <4>b. CASE first + i - 1 # n
        <5> DEFINE k == first + i - 1 - n
        <5>1. k \in 0..c /\ n + k = first + i - 1
          BY <1>3, <2>3, <3>1, <4>b
        <5>2. rows[i] = Row(after(k), p[first + i])
          BY <3>2, <4>b
        <5> HIDE DEF k
        <5>3. after(k) = SubSeq(p, 1, n + k)
          BY <1>6, <5>1
        <5> QED BY <5>1, <5>2, <5>3
      <4> QED BY <4>a, <4>b
    <3>5. SubSeq(p, 1, first + i - 1) \in Seq(Tokens) /\ p[first + i] \in Tokens
      BY <1>2, <3>1, Initial, ElementOfSeq
    <3>6. SubSeq(p, 1, first + i - 1) = SubSeq(u, 1, first + i - 1)
      <4>1. \A j \in 1..(first + i - 1) : p[j] = u[j]
        BY <1>3, <1>7, <3>1
      <4> QED BY <1>2, <1>7, <3>1, <4>1, SameInitial
    <3>7. u[first + i] = p[first + i]
      BY <1>7, <3>1
    <3>8. row(i) \in Rows /\ row(i).token = p[first + i]
          /\ row(i).stream = SubSeq(p, 1, first + i - 1)
      BY <3>5, RowIn
    <3> QED BY <3>a, <3>6, <3>7, <3>8
  <2>6. rows \in Seq(Rows) /\ Len(rows) = m
    <3>1. rows = [i \in 1..m |-> rows[i]]
      BY <2>4
    <3>2. \A i \in 1..m : rows[i] \in Rows
      BY <2>5
    <3> HIDE DEF rows
    <3>3. [i \in 1..m |-> rows[i]] \in [1..m -> Rows]
      BY <3>2
    <3> QED BY <2>4, <3>1, <3>3
  <2>7. RowsFrom(first, rows, u)
    <3> HIDE DEF rows
    <3>1. first + Len(rows) <= Len(u)
      BY <1>3, <1>7, <2>4, <2>6
    <3> QED BY <2>5, <2>6, <3>1 DEF RowsFrom
  <2>8. RowsAmong(head, <<>>, u)
    <3> DEFINE t == SubSeq(p, 1, n)
    <3>1. n <= Len(u) /\ \A i \in 1..n : t[i] = u[i]
      BY <1>3, <1>7, <2>2
    <3>2. <<>> \in Seq(Rows)
      OBVIOUS
    <3>3. /\ t \in Seq(Tokens) /\ Len(t) = n
          /\ RowsAmong(head, <<>>, t) /\ head \in HeadType
      BY <2>1, <2>2
    <3> HIDE DEF t
    <3> QED BY <1>7, <3>1, <3>2, <3>3, AmongStays
  <2> HIDE DEF rows
  <2>9. CASE rows # <<>>
    <3>1. Accepts(head, first) /\ head' = Feed(head, rows, first)
      BY <1>1, <1>10, <2>9
    <3>2. first \in Nat \ {0}
      BY <2>3
    <3>3. /\ Feed(head, rows, first) \in HeadType
          /\ RowsAmong(Feed(head, rows, first), <<>>, u)
          /\ Feed(head, rows, first).base + Len(Feed(head, rows, first).rows)
               = first + Len(rows)
      BY <1>7, <2>1, <2>6, <2>7, <2>8, <3>1, <3>2, FeedKeeps
    <3> QED BY <2>4, <2>6, <3>1, <3>3
  <2>10. CASE rows = <<>>
    <3>1. head' = head
      BY <1>1, <2>10
    <3>2. m = 0 /\ first = n + 1
      BY <1>3, <2>3, <2>4, <2>6, <2>10
    <3>3. n = 0
      <4>1. stream = NoStream
        BY <2>3, <3>2
      <4> QED BY <2>1, <2>2, <4>1 DEF NoStream
    <3>4. head.base = NoBase
      <4>1. head.base # NoBase => head.base \in Nat /\ head.base >= 1 /\ Len(head.rows) \in Nat
        BY <2>1, HeadParts, LenProperties
      <4> QED BY <2>1, <3>3, <4>1
    <3> QED BY <2>1, <2>8, <3>1, <3>4
  <2> QED BY <2>9, <2>10
<1>11. head' \in HeadType
  BY <1>1, <1>10 DEF GInv, Typed
<1>12. offset' = n + c
  BY <1>1
<1>13. target' = [tokens |-> SubSeq(p, 1, offset'), count |-> offset']
  BY <1>8, <1>12
<1> HIDE DEF u, c
<1> QED BY <1>3, <1>8, <1>9, <1>10, <1>11, <1>12, <1>13

LEMMA ChunkKeeps ==
  ASSUME GInv, PrefillChunk
  PROVE  GInv'
<1>1. /\ pc = "prefill" /\ pc' = pc
      /\ UNCHANGED <<ram, disk, backend, active, reset, anchor>>
      /\ UNCHANGED <<current, out, profitable, extendable, pending, rounds>>
      /\ UNCHANGED <<changed, copy, reason, config, request, status, served>>
  BY DEF PrefillChunk, caches, metal, loop, ending, serving
<1>2. /\ offset' \in Nat /\ offset' <= PrefillRows
      /\ target' = [tokens |-> SubSeq(request.prompt, 1, offset'), count |-> offset']
      /\ target' \in TargetType
      /\ head' \in HeadType
      /\ stream' = target'.tokens
      /\ config.head =>
           /\ RowsAmong(head', <<>>, target'.tokens)
           /\ head'.base # NoBase => head'.base + Len(head'.rows) = offset'
  BY ChunkFacts
<1>3. stream' \in Streams
  <2>1. target'.tokens \in Seq(Tokens)
    BY <1>2 DEF TargetType
  <2> QED BY <1>2, <2>1, SeqMonotonic DEF Streams
<1>4. Typed'
  BY <1>1, <1>2, <1>3 DEF GInv, Typed
<1>5. Switches'
  BY <1>1 DEF GInv, Switches
<1>6. Progress' /\ Charge'
  BY <1>1 DEF GInv, Progress, Charge, Opening, Prefilling, Closing, All
<1>7. ~active /\ pending = <<>>
  BY <1>1 DEF GInv, Charge, Prefilling
<1>8. Held' = target'.tokens
  BY <1>1, <1>7 DEF Held
<1>9. Holding'
  BY <1>1, <1>2 DEF Holding, Opening, Prefilling, PrefillRows
<1>10. HeadKept'
  BY <1>1, <1>2, <1>7, <1>8 DEF GInv, HeadKept, Prefilling
<1>11. Entries' /\ Backing'
  BY <1>1 DEF GInv, Entries, Backing, BackedIsOnDisk
<1> QED BY <1>4, <1>5, <1>6, <1>9, <1>10, <1>11 DEF GInv

\* Nothing but pc moves on the way to the checkpoint and past it.
LEMMA SkipKeeps ==
  ASSUME GInv, EndPrefill \/ NoCheckpoint
  PROVE  GInv'
<1>1. /\ UNCHANGED <<ram, disk, backend, active, reset, anchor>>
      /\ UNCHANGED <<offset, target, head, stream>>
      /\ UNCHANGED <<current, out, profitable, extendable, pending, rounds>>
      /\ UNCHANGED <<changed, copy, reason, config, request, status, served>>
  BY DEF EndPrefill, NoCheckpoint, caches, live, metal, loop, ending, serving
<1>2. \/ pc = "prefill" /\ pc' = "checkpoint" /\ offset >= PrefillRows
      \/ pc = "checkpoint" /\ pc' = "activate"
  BY DEF EndPrefill, NoCheckpoint
<1>3. Typed' /\ Switches'
  BY <1>1, <1>2 DEF GInv, Typed, Switches, Pcs
<1>4. Progress' /\ Charge'
  BY <1>1, <1>2 DEF GInv, Progress, Charge, Opening, Prefilling, Closing, All
<1>5. offset \in Nat /\ PrefillRows \in Nat
  BY RequestFacts DEF GInv, Typed, PrefillRows
<1>6. offset' = PrefillRows
  <2>1. CASE pc = "prefill"
    <3>1. offset <= PrefillRows
      BY <2>1 DEF GInv, Holding, Prefilling
    <3> QED BY <1>1, <1>2, <1>5, <2>1, <3>1
  <2>2. CASE pc = "checkpoint"
    BY <1>1, <2>2 DEF GInv, Holding, Prefilling
  <2> QED BY <1>2, <2>1, <2>2
<1>7. Holding'
  BY <1>1, <1>2, <1>5, <1>6 DEF GInv, Holding, Opening, Prefilling, PrefillRows
<1>8. HeadKept'
  BY <1>1, <1>2 DEF GInv, HeadKept, Prefilling, Held
<1>9. Entries' /\ Backing'
  BY <1>1, <1>2 DEF GInv, Entries, Backing, BackedIsOnDisk, Opening
<1> QED BY <1>3, <1>4, <1>7, <1>8, <1>9 DEF GInv

LEMMA PromptCheckpointKeeps ==
  ASSUME GInv, PromptCheckpoint
  PROVE  GInv'
<1>1. /\ pc = "checkpoint" /\ ram' = Entry(PrefillTokens, <<>>) /\ changed' = TRUE
      /\ pc' \in {"persist", "activate"}
      /\ UNCHANGED <<disk, backend, active, reset, anchor>>
      /\ UNCHANGED <<offset, target, head, stream>>
      /\ UNCHANGED <<current, out, profitable, extendable, pending, rounds>>
      /\ UNCHANGED <<copy, reason, config, request, status, served>>
  BY DEF PromptCheckpoint, live, metal, loop, serving
<1>2. Typed' /\ Switches'
  BY <1>1 DEF GInv, Typed, Switches, Pcs
<1>3. Progress' /\ Charge'
  BY <1>1 DEF GInv, Progress, Charge, Opening, Prefilling, Closing, All
<1>4. Holding'
  BY <1>1 DEF GInv, Holding, Opening, Prefilling, PrefillRows
<1>5. HeadKept'
  BY <1>1 DEF GInv, HeadKept, Prefilling, Held
<1>6. /\ target = [tokens |-> PrefillTokens, count |-> PrefillRows]
      /\ offset = PrefillRows /\ ~active /\ pending = <<>> /\ copy = NoEntry
  BY <1>1 DEF GInv, Holding, Charge, Backing, Prefilling, PrefillTokens, PrefillRows
<1>7. PrefillTokens \in Seq(Tokens) /\ Len(PrefillTokens) = PrefillRows
  BY RequestFacts, AllButLast DEF GInv, Typed, PrefillTokens, PrefillRows
<1> DEFINE e == Entry(PrefillTokens, <<>>)
<1>8. /\ e.tokens = PrefillTokens /\ e.target = target /\ e.head = head
      /\ e.stream = stream /\ e.pending = <<>> /\ e.backed = FALSE
      /\ e \in EntryType
  BY <1>7 DEF Entry, EntryType, GInv, Typed
<1> HIDE DEF e
<1>9. Sound(e, config.head)
  <2>1. e.target = [tokens |-> e.tokens, count |-> Len(e.tokens)]
    BY <1>6, <1>7, <1>8
  <2>2. ASSUME config.head
        PROVE  /\ e.stream = e.tokens
               /\ RowsAmong(e.head, e.pending, e.tokens)
               /\ e.head.base # NoBase =>
                    e.head.base + Len(e.head.rows \o e.pending) = Len(e.tokens)
    <3>1. Held = target.tokens /\ target.tokens = PrefillTokens
      BY <1>6 DEF Held
    <3>2. /\ stream = target.tokens /\ RowsAmong(head, pending, Held)
          /\ head.base # NoBase => head.base + Len(head.rows) = offset
      BY <1>1, <2>2 DEF GInv, HeadKept, Prefilling
    <3>3. head.rows \o <<>> = head.rows
      BY HeadParts, ConcatEmptySeq DEF GInv, Typed
    <3> QED BY <1>6, <1>7, <1>8, <3>1, <3>2, <3>3
  <2> QED BY <1>8, <2>1, <2>2 DEF Sound
<1>10. ram' = e
  BY <1>1 DEF e
<1>11. Entries'
  BY <1>1, <1>9, <1>10 DEF GInv, Entries
<1>12. ram' # NoEntry /\ ~ram'.backed
  BY <1>8, <1>9, <1>10, SoundFacts
<1>13. Backing'
  BY <1>1, <1>6, <1>12 DEF Backing, BackedIsOnDisk
<1> QED BY <1>2, <1>3, <1>4, <1>5, <1>11, <1>13 DEF GInv

\* What the disk keeps is sound, and the entry it was given is among it.
LEMMA DiskKept ==
  ASSUME \A d \in disk : Sound(d, config.head), NEW e, Sound(e, config.head),
         DiskKeeps(e)
  PROVE  /\ \A d \in disk' : Sound(d, config.head)
         /\ \E d \in disk' : d.tokens = e.tokens
<1>1. PICK rest \in SUBSET {d \in disk : d.tokens # e.tokens} :
        disk' = rest \cup {Persisted(e)}
  BY DEF DiskKeeps
<1>2. Sound(Persisted(e), config.head) /\ Persisted(e).tokens = e.tokens
  BY SoundBacked DEF Persisted
<1> QED BY <1>1, <1>2

LEMMA PersistPromptKeeps ==
  ASSUME GInv, PersistPrompt
  PROVE  GInv'
<1>1. /\ pc = "persist" /\ pc' = "activate"
      /\ UNCHANGED <<backend, active, reset, anchor>>
      /\ UNCHANGED <<offset, target, head, stream>>
      /\ UNCHANGED <<current, out, profitable, extendable, pending, rounds>>
      /\ UNCHANGED <<changed, reason, config, request, status, served>>
  BY DEF PersistPrompt, live, metal, loop, serving
<1>2. Typed' /\ Switches'
  BY <1>1 DEF GInv, Typed, Switches, Pcs
<1>3. Progress' /\ Charge'
  BY <1>1 DEF GInv, Progress, Charge, Opening, Prefilling, Closing, All
<1>4. Holding'
  BY <1>1 DEF GInv, Holding, Opening, Prefilling, PrefillRows
<1>5. HeadKept'
  BY <1>1 DEF GInv, HeadKept, Prefilling, Held
<1>6. /\ ram # NoEntry /\ ~ram.backed /\ copy = NoEntry /\ Sound(ram, config.head)
      /\ \A d \in disk : Sound(d, config.head)
  BY <1>1 DEF GInv, Backing, Entries
<1>7. CASE DiskKeeps(ram) /\ ram' = NoEntry /\ copy' = copy
  <2>1. \A d \in disk' : Sound(d, config.head)
    BY <1>6, <1>7, DiskKept
  <2> QED BY <1>1, <1>2, <1>3, <1>4, <1>5, <1>6, <1>7, <2>1
          DEF GInv, Entries, Backing, BackedIsOnDisk, Opening
<1>8. CASE (DiskRefuses \/ disk' = disk) /\ copy' = ram /\ ram' = ram
  <2>1. \A d \in disk' : Sound(d, config.head)
    BY <1>6, <1>8 DEF DiskRefuses
  <2> QED BY <1>1, <1>2, <1>3, <1>4, <1>5, <1>6, <1>8, <2>1
          DEF GInv, Entries, Backing, BackedIsOnDisk, Opening
<1>9. \/ DiskKeeps(ram) /\ ram' = NoEntry /\ copy' = copy
      \/ (DiskRefuses \/ disk' = disk) /\ copy' = ram /\ ram' = ram
  BY DEF PersistPrompt
<1> QED BY <1>7, <1>8, <1>9

LEMMA StartDecodingKeeps ==
  ASSUME GInv, StartDecoding
  PROVE  GInv'
<1>1. /\ pc = "activate" /\ pc' = "decode"
      /\ UNCHANGED <<ram, disk, offset, head, anchor>>
      /\ UNCHANGED <<current, out, profitable, extendable, pending, rounds>>
      /\ UNCHANGED <<changed, copy, reason, config, request, status, served>>
  BY DEF StartDecoding, caches, loop, ending, serving
<1>2. /\ ~active /\ pending = <<>> /\ (reset => Len(request.prompt) = 1)
      /\ out = <<>> /\ offset = PrefillRows
      /\ target = [tokens |-> PrefillTokens, count |-> PrefillRows]
  BY <1>1 DEF GInv, Charge, Holding, Progress, Prefilling, PrefillTokens, PrefillRows
<1>3. /\ PrefillTokens = Consumed /\ Len(Consumed) = PrefillRows
      /\ Consumed \in Seq(Tokens)
  BY <1>2, AllAtFirst, AllFacts DEF GInv
<1>4. target.tokens = Consumed /\ target.count = Len(Consumed)
  BY <1>2, <1>3
<1>5. Consumed' = Consumed /\ All' = All
  BY <1>1 DEF Consumed, Complete, All
<1>6. config \in ConfigType
  BY GenerationAssumption DEF GInv, Typed
<1>7. /\ \/ /\ active' = TRUE /\ reset' = FALSE /\ anchor = 0
            /\ config.backend /\ ~config.head
            /\ backend' = [tokens |-> target.tokens, stream |-> WarmStream]
            /\ target' = [tokens |-> <<>>, count |-> target.count]
            /\ stream' = NoStream
         \/ /\ reset /\ reset' = reset /\ active' = config.shared /\ anchor = 0
            /\ config.backend /\ ~config.head
            /\ backend' = backend /\ target' = target /\ stream' = stream
         \/ /\ reset' = reset /\ active' = active
            /\ backend' = backend /\ target' = target /\ stream' = stream
  BY DEF StartDecoding, Activate
<1>8. /\ target' \in TargetType /\ backend'.tokens \in Seq(Tokens)
      /\ backend'.stream \in Streams /\ stream' \in Streams
      /\ target'.count = target.count /\ Held' = Consumed
  <2>1. /\ target \in TargetType /\ target.count \in Nat
        /\ backend.tokens \in Seq(Tokens) /\ backend.stream \in Streams
        /\ stream \in Streams
    BY DEF GInv, Typed, TargetType
  <2>2. WarmStream \in Streams /\ NoStream \in Streams
    BY DEF WarmStream, NoStream, Streams
  <2>3. CASE /\ active' = TRUE /\ reset' = FALSE
             /\ backend' = [tokens |-> target.tokens, stream |-> WarmStream]
             /\ target' = [tokens |-> <<>>, count |-> target.count]
             /\ stream' = NoStream
    <3>1. /\ backend'.tokens = target.tokens /\ backend'.stream = WarmStream
          /\ target'.count = target.count /\ target' \in TargetType
      BY <2>1, <2>3 DEF TargetType
    <3>2. Held' = backend'.tokens
      BY <2>3 DEF Held
    <3> QED BY <1>3, <1>4, <2>2, <2>3, <3>1, <3>2
  <2>4. CASE /\ reset' = reset /\ (reset \/ active' = active)
             /\ backend' = backend /\ target' = target /\ stream' = stream
    <3>1. Held' = target.tokens
      BY <1>2, <2>4 DEF Held
    <3> QED BY <1>4, <2>1, <2>4, <3>1
  <2> QED BY <1>7, <2>3, <2>4
<1>9. active' \in BOOLEAN /\ reset' \in BOOLEAN
  <2>1. config.shared \in BOOLEAN
    BY <1>6 DEF ConfigType
  <2>2. active \in BOOLEAN /\ reset \in BOOLEAN
    BY DEF GInv, Switches
  <2> QED BY <1>7, <2>1, <2>2
<1>10. Typed'
  BY <1>1, <1>8 DEF GInv, Typed, Pcs
<1>11. Switches'
  BY <1>1, <1>9 DEF GInv, Switches
<1>12. Progress'
  <2>1. Len(out) < request.max_tokens
    BY <1>2, RequestFacts DEF GInv, Typed
  <2> QED BY <1>1, <1>5, <2>1 DEF GInv, Progress, Opening, Prefilling, Closing
<1>13. Charge'
  <2>1. active' => anchor = 0 /\ config.backend
    BY <1>2, <1>7
  <2>2. reset' => reset
    BY <1>7
  <2> QED BY <1>1, <1>2, <2>1, <2>2 DEF GInv, Charge, Opening, Prefilling
<1>14. Holding'
  BY <1>1, <1>4, <1>5, <1>8 DEF Holding, Opening, Prefilling
<1>15. HeadKept'
  <2>1. CASE ~config.head
    BY <1>1, <2>1 DEF GInv, HeadKept
  <2>2. CASE config.head
    <3>1. active' = active /\ target' = target /\ stream' = stream
      BY <1>7, <2>2
    <3>2. Held = target.tokens
      BY <1>2 DEF Held
    <3>3. /\ RowsAmong(head, pending, target.tokens) /\ stream = target.tokens
          /\ head.base # NoBase => head.base + Len(head.rows) = offset
      BY <1>1, <2>2, <3>2 DEF GInv, HeadKept, Prefilling
    <3>4. Accepts(head, target.count)
      BY <1>2, <3>3 DEF Accepts
    <3> QED BY <1>1, <1>2, <1>4, <1>8, <2>2, <3>1, <3>3, <3>4 DEF HeadKept, Prefilling
  <2> QED BY <2>1, <2>2
<1>16. Entries' /\ Backing'
  BY <1>1 DEF GInv, Entries, Backing, BackedIsOnDisk, Opening
<1> QED BY <1>10, <1>11, <1>12, <1>13, <1>14, <1>15, <1>16 DEF GInv

LEMMA ExportKeeps ==
  ASSUME GInv, Export
  PROVE  GInv'
<1>1. /\ pc = "decode" /\ pc' = pc /\ active /\ ~reset /\ active' = FALSE
      /\ target' = [tokens |-> backend.tokens, count |-> Len(backend.tokens)]
      /\ stream' = backend.stream
      /\ UNCHANGED <<ram, disk, offset, head, backend, reset, anchor>>
      /\ UNCHANGED <<current, out, profitable, extendable, pending, rounds>>
      /\ UNCHANGED <<changed, copy, reason, config, request, status, served>>
  BY DEF Export, caches, loop, ending, serving
<1>2. Held = backend.tokens /\ Held' = backend.tokens /\ target'.tokens = backend.tokens
      /\ target'.count = Len(backend.tokens)
  BY <1>1 DEF Held
<1>3. backend.tokens \in Seq(Tokens) /\ Len(backend.tokens) \in Nat /\ backend.stream \in Streams
  BY LenProperties DEF GInv, Typed
<1>4. target' \in TargetType
  BY <1>1, <1>3 DEF TargetType
<1>5. Typed'
  BY <1>1, <1>3, <1>4 DEF GInv, Typed
<1>6. Switches'
  BY <1>1 DEF GInv, Switches
<1>7. Consumed' = Consumed /\ All' = All
  BY <1>1 DEF Consumed, Complete, All
<1>8. Progress' /\ Charge'
  BY <1>1, <1>7 DEF GInv, Progress, Charge, Opening, Prefilling, Closing
<1>9. Holding'
  BY <1>1, <1>2, <1>7 DEF GInv, Holding, Opening, Prefilling
<1>10. config.backend /\ ~profitable
  BY <1>1 DEF GInv, Charge, HeadKept
<1>11. HeadKept'
  BY <1>1, <1>2, <1>10 DEF GInv, HeadKept, Prefilling
<1>12. Entries' /\ Backing'
  BY <1>1 DEF GInv, Entries, Backing, BackedIsOnDisk, Opening
<1> QED BY <1>5, <1>6, <1>8, <1>9, <1>11, <1>12 DEF GInv

-----------------------------------------------------------------------------
(* A step of the decode loop.                                              *)

LEMMA PushFacts ==
  ASSUME GInv, pc = "decode", request' = request, NEW new \in Seq(Tokens),
         NEW stopped \in BOOLEAN, Push(new, stopped)
  PROVE  /\ out' \in Seq(Tokens) /\ Len(out') = Len(out) + Len(new)
         /\ All' = All \o new
         /\ pc' \in {"decode", "finish"}
         /\ pc' = "decode" =>
              ~stopped /\ Len(out') # request.max_tokens /\ reason' = "length"
         /\ pc' = "finish" =>
              /\ reason' = "length" => Len(out') = request.max_tokens
              /\ reason' = "stop" => stopped
              /\ reason' = "cancelled" => request.stream
              /\ reason' \in {"length", "stop", "cancelled"}
<1>1. reason = "length" /\ out \in Seq(Tokens)
  BY DEF GInv, Progress, Typed
<1>2. out' = out \o new
  BY DEF Push
<1>3. out' \in Seq(Tokens) /\ Len(out') = Len(out) + Len(new)
  BY <1>1, <1>2, ConcatProperties
<1>4. All' = All \o new
  <2>1. request.prompt \in Seq(Tokens)
    BY RequestFacts DEF GInv, Typed
  <2>2. ASSUME NEW p \in Seq(Tokens) PROVE p \o (out \o new) = (p \o out) \o new
    BY <1>1, ConcatAssociative
  <2>3. request.prompt \o (out \o new) = (request.prompt \o out) \o new
    BY <2>1, <2>2
  <2> QED BY <1>2, <2>3 DEF All
<1>5. \/ stopped /\ reason' = "stop" /\ pc' = "finish"
      \/ ~stopped /\ request.stream /\ reason' = "cancelled" /\ pc' = "finish"
      \/ /\ ~stopped /\ reason' = reason
         /\ pc' = IF Len(out') = request.max_tokens THEN "finish" ELSE "decode"
  BY DEF Push
<1> QED BY <1>1, <1>3, <1>4, <1>5

\* What a step of the loop has to see to, whoever takes it.
LEMMA StepKeeps ==
  ASSUME GInv, pc = "decode",
         UNCHANGED <<ram, disk, offset, changed, copy, config, request, status, served>>,
         NEW new \in Seq(Tokens), NEW stopped \in BOOLEAN, Push(new, stopped),
         Len(out) + Len(new) <= request.max_tokens,
         target' \in TargetType, backend'.tokens \in Seq(Tokens),
         backend'.stream \in Streams, stream' \in Streams,
         head' \in HeadType, pending' \in Seq(Rows),
         current' \in Tokens, anchor' \in Nat,
         active' \in BOOLEAN, reset' \in BOOLEAN, profitable' \in BOOLEAN,
         extendable' \in BOOLEAN,
         pc' = "decode" => current' = All'[Len(All')],
         stopped => \E t \in Stops : MayFollow(All', t),
         active' => anchor' = 0 /\ config.backend,
         anchor' > 0 => config.backend /\ ~config.head,
         active' => ~reset',
         pc' = "decode" => Held' = Consumed',
         target'.count = Len(Held'),
         \A i \in 1..Len(Held') : i <= Len(All') => Held'[i] = All'[i],
         ~config.head => ~profitable',
         config.head => RowsAmong(head', pending', Held'),
         config.head /\ ~config.backend => stream' = Held',
         pc' = "decode" /\ profitable' =>
           stream' = Held' /\ ~active' /\ pending' = <<>> /\ Accepts(head', target'.count)
  PROVE  GInv'
<1>1. /\ out' \in Seq(Tokens) /\ Len(out') = Len(out) + Len(new)
      /\ pc' \in {"decode", "finish"}
      /\ pc' = "decode" =>
           ~stopped /\ Len(out') # request.max_tokens /\ reason' = "length"
      /\ pc' = "finish" =>
           /\ reason' = "length" => Len(out') = request.max_tokens
           /\ reason' = "stop" => stopped
           /\ reason' = "cancelled" => request.stream
           /\ reason' \in {"length", "stop", "cancelled"}
  BY PushFacts
<1>2. Len(out') \in Nat /\ request.max_tokens \in Nat
  BY <1>1, RequestFacts, LenProperties DEF GInv, Typed
<1>3. Typed'
  BY <1>1 DEF GInv, Typed, Pcs
<1>4. Switches'
  BY DEF GInv, Switches
<1>5. Progress'
  <2>1. Len(out') <= request.max_tokens
    BY <1>1
  <2>2. pc' = "decode" => Len(out') < request.max_tokens
    <3>1. pc' = "decode" => Len(out') # request.max_tokens
      BY <1>1
    <3>2. ASSUME NEW a \in Nat, NEW b \in Nat, a <= b, a # b PROVE a < b
      BY <3>2
    <3> QED BY <1>2, <2>1, <3>1, <3>2
  <2>3. status = "running"
    BY DEF GInv, Progress
  <2>4. stopped => \E t \in Stops : MayFollow(All, t)'
    BY DEF MayFollow
  <2> QED BY <1>1, <2>1, <2>2, <2>3, <2>4 DEF Progress, Opening, Prefilling, Closing
<1>6. Charge'
  BY <1>1 DEF Charge, Opening, Prefilling
<1>7. Holding'
  BY <1>1 DEF Holding, Opening, Prefilling
<1>8. HeadKept'
  BY <1>1 DEF HeadKept, Prefilling
<1>9. Entries'
  BY DEF GInv, Entries
<1>10. Backing'
  BY <1>1 DEF GInv, Backing, BackedIsOnDisk, Opening
<1> QED BY <1>3, <1>4, <1>5, <1>6, <1>7, <1>8, <1>9, <1>10 DEF GInv

\* What whoever decodes holds when the loop starts a step.
LEMMA DecodeFacts ==
  ASSUME GInv, pc = "decode"
  PROVE  /\ current \in Tokens /\ Held \in Seq(Tokens) /\ Held = Consumed
         /\ All \in Seq(Tokens) /\ Append(Held, current) = All
         /\ target.count = Len(Held) /\ Len(All) = target.count + 1
         /\ target.count \in Nat
         /\ \A i \in 1..Len(Held) : Held[i] = All[i]
         /\ Remaining \in Nat /\ Remaining >= 1
<1>1. Held = Consumed /\ target.count = Len(Held)
  BY DEF GInv, Holding
<1>2. current = All[Len(All)] /\ Len(out) < request.max_tokens
  BY DEF GInv, Progress
<1>3. /\ Consumed \in Seq(Tokens) /\ All \in Seq(Tokens) /\ Append(Consumed, All[Len(All)]) = All
      /\ Len(out) \in Nat
  BY AllFacts DEF GInv
<1>4. current \in Tokens /\ request.max_tokens \in Nat
  BY RequestFacts DEF GInv, Typed
<1>5. Append(Held, current) = All /\ Held \in Seq(Tokens)
  BY <1>1, <1>2, <1>3
<1> HIDE DEF Held, All
<1>6. /\ Len(All) = Len(Held) + 1 /\ Len(Held) \in Nat
      /\ \A i \in 1..Len(Held) : Held[i] = All[i]
  BY <1>4, <1>5, AppendProperties, LenProperties
<1>7. Remaining \in Nat /\ Remaining >= 1
  BY <1>2, <1>3, <1>4 DEF Remaining
<1> QED BY <1>1, <1>3, <1>4, <1>5, <1>6, <1>7

\* A serial step leaves the head true of what is consumed, and in step
\* whenever the loop may speculate again.
LEMMA HeadFollowsFacts ==
  ASSUME GInv, pc = "decode", config.head, Serial, HeadFollows
  PROVE  /\ head' \in HeadType /\ pending' \in Seq(Rows)
         /\ RowsAmong(head', pending', All)
         /\ profitable =>
              pending' = <<>> /\ (Remaining = 1 \/ Accepts(head', target.count + 1))
<1>1. /\ current \in Tokens /\ Held \in Seq(Tokens) /\ All \in Seq(Tokens)
      /\ Append(Held, current) = All
      /\ target.count = Len(Held) /\ Len(All) = target.count + 1 /\ target.count \in Nat
      /\ \A i \in 1..Len(Held) : Held[i] = All[i]
  BY DecodeFacts
<1>2. /\ head \in HeadType /\ pending \in Seq(Rows) /\ RowsAmong(head, pending, Held)
      /\ ~config.backend => stream = Held
      /\ profitable =>
           stream = Held /\ ~active /\ pending = <<>> /\ Accepts(head, target.count)
  BY DEF GInv, Typed, HeadKept
<1>3. Extends => stream = Held
  BY <1>2 DEF Extends
<1> HIDE DEF Held, All
<1>4. RowsAmong(head, pending, All)
  BY <1>1, <1>2, AmongStays
<1>5. CASE Extends /\ profitable /\ stream # NoStream /\ Matches(head, target.count)
  <2>1. head' = Feed(head, <<Row(stream, current)>>, target.count) /\ pending' = pending
    BY <1>5 DEF HeadFollows
  <2>2. stream = Held /\ pending = <<>>
    BY <1>2, <1>5
  <2> DEFINE row == <<Row(Held, current)>>
  <2>3. row \in Seq(Rows) /\ RowsFrom(target.count, row, All) /\ Len(row) = 1
    BY <1>1, NextRow
  <2>4. target.count \in Nat \ {0}
    <3>1. head.base \in Nat /\ head.base >= 1 /\ Len(head.rows) \in Nat
      BY <1>2, <1>5, HeadParts, LenProperties DEF Matches
    <3> QED BY <1>1, <1>5, <3>1 DEF Matches
  <2>5. Accepts(head, target.count) /\ RowsAmong(head, <<>>, All)
    BY <1>2, <1>4, <1>5, <2>2
  <2> DEFINE g == Feed(head, row, target.count)
  <2>6. head' = g
    BY <2>1, <2>2
  <2> HIDE DEF row
  <2>7. /\ g \in HeadType /\ RowsAmong(g, <<>>, All)
        /\ g.base + Len(g.rows) = target.count + Len(row)
    BY <1>1, <1>2, <2>3, <2>4, <2>5, FeedKeeps
  <2> HIDE DEF g
  <2> QED BY <1>2, <2>1, <2>2, <2>3, <2>6, <2>7 DEF Accepts
<1>6. CASE /\ ~(Extends /\ profitable /\ stream # NoStream /\ Matches(head, target.count))
           /\ CanPend
  <2>1. pending' = Append(pending, Row(stream, current)) /\ head' = head
    BY <1>6 DEF HeadFollows
  <2>2. stream = Held
    BY <1>3, <1>6 DEF CanPend
  <2>3. ~profitable
    BY <1>2, <1>6 DEF CanPend
  <2>4. head.base # NoBase /\ head.base + Len(head.rows) + Len(pending) = Len(Held)
    <3>1. CASE pending = <<>> /\ Matches(head, target.count)
      <4>1. head.base # NoBase /\ head.base + Len(head.rows) = target.count /\ Len(pending) = 0
        BY <3>1 DEF Matches
      <4>2. target.count + 0 = target.count
        BY <1>1
      <4> QED BY <1>1, <4>1, <4>2
    <3>2. CASE /\ head.base # NoBase
               /\ head.base + Len(head.rows) + Len(pending) = target.count
      BY <1>1, <3>2
    <3> QED BY <1>6, <3>1, <3>2 DEF CanPend
  <2>5. /\ Append(pending, Row(Held, current)) \in Seq(Rows)
        /\ RowsAmong(head, Append(pending, Row(Held, current)), Append(Held, current))
    BY <1>1, <1>2, <2>4, PendKeeps
  <2> QED BY <1>1, <1>2, <2>1, <2>2, <2>3, <2>5
<1>7. CASE /\ ~(Extends /\ profitable /\ stream # NoStream /\ Matches(head, target.count))
           /\ ~CanPend
  <2>1. head' = head /\ pending' = pending
    BY <1>7 DEF HeadFollows
  <2>2. ASSUME profitable, Remaining # 1 PROVE Accepts(head, target.count + 1)
    <3>1. stream = NoStream \/ (Extends /\ Remaining = 2)
      BY <2>2 DEF Serial
    <3>2. Accepts(head, target.count)
      BY <1>2, <2>2
    <3>3. CASE stream # NoStream
      BY <1>7, <2>2, <3>1, <3>2, <3>3 DEF Matches, Accepts
    <3>4. CASE stream = NoStream
      <4>1. target.count = 0
        BY <1>1, <1>2, <2>2, <3>4 DEF NoStream
      <4>2. head.base # NoBase => head.base \in Nat /\ head.base >= 1 /\ Len(head.rows) \in Nat
        BY <1>2, HeadParts, LenProperties
      <4> QED BY <3>2, <4>1, <4>2 DEF Accepts
    <3> QED BY <3>3, <3>4
  <2> QED BY <1>2, <1>4, <2>1, <2>2
<1> QED BY <1>5, <1>6, <1>7

\* After a step, what comes before the newest token.
LEMMA ConsumedAfter ==
  ASSUME GInv, pc = "decode", request' = request, NEW new \in Seq(Tokens),
         NEW stopped \in BOOLEAN, Push(new, stopped)
  PROVE  /\ All' \in Seq(Tokens) /\ Len(All') = Len(All) + Len(new)
         /\ Consumed' = SubSeq(All', 1, Len(All') - 1)
<1>1. Len(out') = Len(out) + Len(new) /\ All' = All \o new
  BY PushFacts
<1>2. /\ All \in Seq(Tokens) /\ Len(All) = Len(request.prompt) + Len(out)
      /\ Len(out) \in Nat /\ Len(request.prompt) \in Nat /\ Len(new) \in Nat
  BY AllFacts, RequestFacts, LenProperties DEF GInv, Typed
<1>3. All' \in Seq(Tokens) /\ Len(All') = Len(All) + Len(new)
  <2> HIDE DEF All
  <2> QED BY <1>1, <1>2, ConcatProperties
<1>4. Complete' = Len(request.prompt) + Len(out')
  BY DEF Complete
<1>5. Complete' = Len(All')
  <2>1. ASSUME NEW a \in Nat, NEW b \in Nat, NEW c \in Nat PROVE a + (b + c) = (a + b) + c
    OBVIOUS
  <2>2. Len(out') = Len(out) + Len(new)
    BY <1>1
  <2>3. Complete' = Len(request.prompt) + (Len(out) + Len(new))
    BY <1>4, <2>2
  <2>4. Complete' = (Len(request.prompt) + Len(out)) + Len(new)
    BY <1>2, <2>1, <2>3
  <2>5. Len(All') = Len(All) + Len(new) /\ Len(All) = Len(request.prompt) + Len(out)
    BY <1>2, <1>3
  <2> QED BY <2>4, <2>5, Zenon
<1>6. Consumed' = SubSeq(All', 1, Complete' - 1)
  BY DEF Consumed, All
<1> QED BY <1>3, <1>5, <1>6

\* One more token, or a stop token that is not shown.
LEMMA OneToken ==
  ASSUME GInv, pc = "decode", request' = request, NEW next \in Tokens,
         MayFollow(All, next),
         NEW new, new = (IF next \in Stops THEN <<>> ELSE <<next>>),
         NEW stopped, stopped = (next \in Stops),
         Push(new, stopped)
  PROVE  /\ new \in Seq(Tokens) /\ stopped \in BOOLEAN
         /\ Len(out) + Len(new) <= request.max_tokens
         /\ pc' = "decode" => next = All'[Len(All')] /\ All = Consumed'
         /\ stopped => \E t \in Stops : MayFollow(All', t)
         /\ \A i \in 1..Len(All) : i <= Len(All') => All[i] = All'[i]
         /\ pc' = "decode" => Remaining # 1
<1>1. new \in Seq(Tokens) /\ stopped \in BOOLEAN /\ Len(new) \in {0, 1}
  BY SMT
<1>2. /\ All \in Seq(Tokens) /\ Len(All) \in Nat /\ Remaining \in Nat /\ Remaining >= 1
      /\ Len(out) \in Nat /\ request.max_tokens \in Nat
  BY DecodeFacts, AllFacts, RequestFacts, LenProperties DEF GInv, Typed
<1>3. Len(out) + Len(new) <= request.max_tokens
  BY <1>1, <1>2 DEF Remaining
<1>4. /\ All' = All \o new /\ Len(out') = Len(out) + Len(new)
      /\ pc' = "decode" => ~stopped /\ Len(out') # request.max_tokens
  BY <1>1, PushFacts
<1>5. Consumed' = SubSeq(All', 1, Len(All') - 1)
  BY <1>1, ConsumedAfter
<1> HIDE DEF All, Consumed
<1>6. CASE next \in Stops
  <2>1. All' = All /\ stopped
    BY <1>2, <1>4, <1>6, ConcatEmptySeq
  <2> QED BY <1>1, <1>3, <1>4, <1>6, <2>1
<1>7. CASE next \notin Stops
  <2>1. new = <<next>> /\ ~stopped /\ Len(new) = 1
    BY <1>7
  <2>2. All' = Append(All, next)
    BY <1>2, <1>4, <2>1, AppendIsConcat
  <2>3. /\ All' \in Seq(Tokens) /\ Len(All') = Len(All) + 1
        /\ \A i \in 1..Len(All) : All[i] = All'[i]
        /\ All'[Len(All) + 1] = next
    BY <1>2, <2>2, AppendProperties
  <2>4. SubSeq(All', 1, Len(All)) = All
    <3>1. Len(All) <= Len(All')
      BY <1>2, <2>3
    <3> QED BY <1>2, <2>3, <3>1, BeginsWith
  <2>5. Consumed' = All /\ next = All'[Len(All')]
    BY <1>2, <1>5, <2>3, <2>4
  <2>6. pc' = "decode" => Remaining # 1
    <3>1. pc' = "decode" => Len(out) + 1 # request.max_tokens
      BY <1>4, <2>1
    <3>2. Remaining = request.max_tokens - Len(out)
      BY DEF Remaining
    <3> QED BY <1>2, <3>1, <3>2
  <2> QED BY <1>1, <1>3, <2>1, <2>3, <2>5, <2>6
<1> QED BY <1>6, <1>7

\* The backend's state after the next token is that of the whole text.
LEMMA MetalConsumes ==
  ASSUME GInv, pc = "decode", active
  PROVE  (IF reset THEN <<current>> ELSE Append(backend.tokens, current)) = All
<1>1. /\ current \in Tokens /\ All \in Seq(Tokens) /\ Append(Held, current) = All
  BY DecodeFacts
<1>2. CASE ~reset
  BY <1>1, <1>2 DEF Held
<1>3. CASE reset
  <2>1. Len(request.prompt) = 1 /\ out = <<>>
    BY <1>3 DEF GInv, Charge
  <2>2. Len(All) = 1 /\ current = All[Len(All)]
    <3>1. Len(out) = 0
      BY <2>1
    <3>2. Len(All) = Len(request.prompt) + Len(out)
      BY AllFacts DEF GInv
    <3>3. current = All[Len(All)]
      BY DEF GInv, Progress
    <3> QED BY <2>1, <3>1, <3>2, <3>3
  <2>3. <<current>> \in Seq(Tokens) /\ Len(<<current>>) = 1
    BY <1>1
  <2>4. \A i \in 1..1 : <<current>>[i] = All[i]
    BY <2>2
  <2>5. <<current>> = All
    BY <1>1, <2>2, <2>3, <2>4, SeqEqual
  <2> QED BY <1>3, <2>5
<1> QED BY <1>2, <1>3

\* What follows on the backend is the model's choice, or its second choice
\* below the minimum.
LEMMA MetalChooses ==
  ASSUME ModelChooses, GInv
  PROVE  MetalNext(All) \in Tokens /\ MayFollow(All, MetalNext(All))
<1>1. /\ All \in Seq(Tokens) /\ Len(All) = Len(request.prompt) + Len(out)
      /\ Len(out) \in Nat /\ Len(request.prompt) \in Nat /\ request.max_tokens \in Nat
  BY AllFacts, RequestFacts, LenProperties DEF GInv, Typed
<1>2. config.minTokens \in Nat
  BY GenerationAssumption DEF GInv, Typed, ConfigType
<1>3. Len(out) < MinTokens => Len(All) < Len(request.prompt) + config.minTokens
  BY <1>1, <1>2 DEF MinTokens, Min2
<1> HIDE DEF All
<1> QED BY <1>1, <1>3 DEF ModelChooses, MetalNext, MayFollow

LEMMA MetalStepKeeps ==
  ASSUME ModelChooses, GInv, MetalStep
  PROVE  GInv'
<1> DEFINE consumed == IF reset THEN <<current>> ELSE Append(backend.tokens, current)
           next == MetalNext(consumed)
           new == IF next \in Stops THEN <<>> ELSE <<next>>
           stopped == next \in Stops
<1>1. /\ pc = "decode" /\ Serial /\ active /\ anchor = 0 /\ HeadFollows
      /\ backend' = [tokens |-> consumed, stream |-> consumed]
      /\ target' = [target EXCEPT !.count = @ + 1]
      /\ current' = next /\ reset' = FALSE
      /\ Push(new, stopped)
      /\ UNCHANGED <<ram, disk, offset, stream, active, anchor, profitable, changed, copy>>
      /\ UNCHANGED <<config, request, status, served>>
  BY DEF MetalStep, caches, serving
<1>2. /\ current \in Tokens /\ Held \in Seq(Tokens) /\ All \in Seq(Tokens)
      /\ Append(Held, current) = All
      /\ target.count = Len(Held) /\ Len(All) = target.count + 1 /\ target.count \in Nat
      /\ \A i \in 1..Len(Held) : Held[i] = All[i]
  BY <1>1, DecodeFacts
<1>3. consumed = All
  BY <1>1, MetalConsumes
<1> HIDE DEF consumed
<1>4. next \in Tokens /\ MayFollow(All, next)
  BY <1>3, MetalChooses
<1>5. Held' = All /\ backend'.tokens = All /\ backend'.stream = All
  BY <1>1, <1>3 DEF Held
<1>6. target' \in TargetType /\ target'.count = Len(All)
  <2>1. target \in TargetType
    BY DEF GInv, Typed
  <2>2. target'.count = target.count + 1 /\ target' \in TargetType
    BY <1>1, <1>2, <2>1 DEF TargetType
  <2> QED BY <1>2, <2>2
<1>7. All \in Streams
  BY <1>2, SeqMonotonic DEF Streams
<1>8. ~profitable /\ config.backend
  BY <1>1 DEF GInv, HeadKept, Charge
<1>9. /\ head' = head /\ pending' = pending /\ extendable' \in {extendable, FALSE}
  BY <1>1, <1>8 DEF HeadFollows, Extends, CanPend
<1>10. head \in HeadType /\ pending \in Seq(Rows) /\ extendable \in BOOLEAN
  BY DEF GInv, Typed, Switches
<1>11. config.head => RowsAmong(head, pending, All)
  <2>1. config.head => RowsAmong(head, pending, Held)
    BY <1>1 DEF GInv, HeadKept
  <2> HIDE DEF Held, All
  <2> QED BY <1>2, <1>10, <2>1, AmongStays
<1>12. /\ new \in Seq(Tokens) /\ stopped \in BOOLEAN
       /\ Len(out) + Len(new) <= request.max_tokens
       /\ pc' = "decode" => next = All'[Len(All')] /\ All = Consumed'
       /\ stopped => \E t \in Stops : MayFollow(All', t)
       /\ \A i \in 1..Len(All) : i <= Len(All') => All[i] = All'[i]
  <2> HIDE DEF All, Consumed, next
  <2> QED BY <1>1, <1>4, OneToken
<1>13. active \in BOOLEAN /\ profitable \in BOOLEAN /\ anchor \in Nat /\ stream \in Streams
  BY DEF GInv, Switches, Typed
<1> HIDE DEF new, stopped, next, All, Consumed, Held
<1>14. extendable' \in BOOLEAN
  BY <1>9, <1>10
<1>15. /\ UNCHANGED <<ram, disk, offset, changed, copy, config, request, status, served>>
       /\ head' \in HeadType /\ pending' \in Seq(Rows) /\ current' \in Tokens
       /\ anchor' \in Nat /\ stream' \in Streams
       /\ active' \in BOOLEAN /\ reset' \in BOOLEAN /\ profitable' \in BOOLEAN
  BY <1>1, <1>4, <1>9, <1>10, <1>13
<1>16. /\ pc' = "decode" => current' = All'[Len(All')]
       /\ active' => anchor' = 0 /\ config.backend
       /\ anchor' > 0 => config.backend /\ ~config.head
       /\ active' => ~reset'
       /\ pc' = "decode" => Held' = Consumed'
       /\ target'.count = Len(Held')
       /\ ~profitable'
       /\ config.head => RowsAmong(head', pending', Held')
       /\ config.head /\ ~config.backend => stream' = Held'
  BY <1>1, <1>5, <1>6, <1>8, <1>9, <1>11, <1>12
<1>17. backend'.tokens \in Seq(Tokens) /\ backend'.stream \in Streams
  BY <1>2, <1>5, <1>7
<1>18. \A i \in 1..Len(Held') : i <= Len(All') => Held'[i] = All'[i]
  BY <1>5, <1>12
<1> QED BY <1>1, <1>6, <1>12, <1>14, <1>15, <1>16, <1>17, <1>18, StepKeeps

LEMMA MlxStepKeeps ==
  ASSUME GInv, MlxStep
  PROVE  GInv'
<1> DEFINE consumed == Append(target.tokens, current)
           handOver(next) == anchor = 1 /\ next \notin Stops
<1>1. /\ pc = "decode" /\ Serial /\ HeadFollows
      /\ ~active \/ anchor # 0
      /\ anchor' = IF anchor = 0 THEN 0 ELSE anchor - 1
      /\ UNCHANGED <<ram, disk, offset, profitable, changed, copy>>
      /\ UNCHANGED <<config, request, status, served>>
  BY DEF MlxStep, caches, serving
<1>2. PICK next \in Tokens :
        /\ request.sampled \/ next = Greedy(consumed)
        /\ \/ handOver(next) /\ Activate(consumed, target.count + 1)
           \/ /\ ~handOver(next)
              /\ target' = [tokens |-> consumed, count |-> target.count + 1]
              /\ stream' = consumed
              /\ UNCHANGED <<backend, active, reset>>
        /\ current' = next
        /\ Push(IF next \in Stops THEN <<>> ELSE <<next>>, next \in Stops)
  BY DEF MlxStep
<1> DEFINE new == IF next \in Stops THEN <<>> ELSE <<next>>
           stopped == next \in Stops
<1>3. /\ current \in Tokens /\ Held \in Seq(Tokens) /\ All \in Seq(Tokens)
      /\ Append(Held, current) = All
      /\ target.count = Len(Held) /\ Len(All) = target.count + 1 /\ target.count \in Nat
      /\ \A i \in 1..Len(Held) : Held[i] = All[i]
  BY <1>1, DecodeFacts
<1>4. /\ ~active /\ anchor \in Nat
      /\ anchor > 0 => config.backend /\ ~config.head
      /\ backend.tokens \in Seq(Tokens) /\ backend.stream \in Streams
      /\ profitable \in BOOLEAN /\ reset \in BOOLEAN /\ extendable \in BOOLEAN
      /\ active \in BOOLEAN
      /\ head \in HeadType /\ pending \in Seq(Rows)
  BY <1>1 DEF GInv, Charge, Typed, Switches
<1>5. Held = target.tokens /\ consumed = All
  BY <1>3, <1>4 DEF Held
<1> HIDE DEF consumed
<1>6. All \in Streams
  BY <1>3, SeqMonotonic DEF Streams
<1>70. MayFollow(All, next)
  BY <1>2, <1>5 DEF MayFollow
<1>7. /\ new \in Seq(Tokens) /\ stopped \in BOOLEAN
      /\ Push(new, stopped)
      /\ Len(out) + Len(new) <= request.max_tokens
      /\ pc' = "decode" => next = All'[Len(All')] /\ All = Consumed'
      /\ stopped => \E t \in Stops : MayFollow(All', t)
      /\ \A i \in 1..Len(All) : i <= Len(All') => All[i] = All'[i]
      /\ pc' = "decode" => Remaining # 1
  BY <1>1, <1>2, <1>70, OneToken
<1> HIDE DEF new, stopped
<1>8. \/ /\ anchor = 1 /\ active' = TRUE /\ reset' = FALSE
         /\ backend' = [tokens |-> All, stream |-> WarmStream]
         /\ target' = [tokens |-> <<>>, count |-> Len(All)]
         /\ stream' = NoStream
      \/ /\ target' = [tokens |-> All, count |-> Len(All)]
         /\ stream' = All
         /\ UNCHANGED <<backend, active, reset>>
  BY <1>2, <1>3, <1>5 DEF Activate
<1>9. /\ target' \in TargetType /\ target'.count = Len(All) /\ Held' = All
      /\ backend'.tokens \in Seq(Tokens) /\ backend'.stream \in Streams
      /\ stream' \in Streams /\ active' \in BOOLEAN /\ reset' \in BOOLEAN
      /\ active' => anchor = 1 /\ ~reset'
      /\ anchor # 1 => stream' = All
  <2>0. Len(All) \in Nat
    BY <1>3
  <2>1. CASE /\ anchor = 1 /\ active' = TRUE /\ reset' = FALSE
             /\ backend' = [tokens |-> All, stream |-> WarmStream]
             /\ target' = [tokens |-> <<>>, count |-> Len(All)]
             /\ stream' = NoStream
    <3>1. target' \in TargetType /\ target'.count = Len(All)
      BY <2>0, <2>1 DEF TargetType
    <3>2. backend'.tokens = All /\ backend'.stream = WarmStream
      BY <2>1
    <3>3. WarmStream \in Streams /\ NoStream \in Streams
      BY DEF WarmStream, NoStream, Streams
    <3>4. Held' = All
      BY <2>1, <3>2 DEF Held
    <3> QED BY <1>3, <2>1, <3>1, <3>2, <3>3, <3>4
  <2>2. CASE /\ target' = [tokens |-> All, count |-> Len(All)]
             /\ stream' = All
             /\ UNCHANGED <<backend, active, reset>>
    <3>1. target' \in TargetType /\ target'.count = Len(All) /\ target'.tokens = All
      BY <1>3, <2>0, <2>2 DEF TargetType
    <3>2. ~active'
      BY <1>4, <2>2
    <3>3. Held' = All
      BY <3>1, <3>2 DEF Held
    <3> QED BY <1>4, <1>6, <2>2, <3>1, <3>2, <3>3
  <2> QED BY <1>8, <2>1, <2>2
<1>10. anchor' \in Nat /\ (anchor = 1 => anchor' = 0) /\ (anchor' > 0 => anchor > 0)
  BY <1>1, <1>4
<1>11. /\ head' \in HeadType /\ pending' \in Seq(Rows) /\ extendable' \in BOOLEAN
       /\ config.head =>
            /\ RowsAmong(head', pending', All)
            /\ profitable =>
                 pending' = <<>> /\ (Remaining = 1 \/ Accepts(head', target.count + 1))
  <2>1. CASE config.head
    <3>1. extendable' \in {extendable, FALSE}
      BY <1>1, <2>1 DEF HeadFollows
    <3>2. extendable' \in BOOLEAN
      BY <1>4, <3>1
    <3> QED BY <1>1, <2>1, <3>2, HeadFollowsFacts
  <2>2. CASE ~config.head
    BY <1>1, <1>4, <2>2 DEF HeadFollows
  <2> QED BY <2>1, <2>2
<1>12. ~config.head => ~profitable
  BY <1>1 DEF GInv, HeadKept
<1>13. config.head => anchor = 0 /\ stream' = All /\ ~active'
  BY <1>4, <1>9
<1>14. /\ UNCHANGED <<ram, disk, offset, changed, copy, config, request, status, served>>
       /\ current' \in Tokens /\ profitable' \in BOOLEAN
       /\ pc' = "decode" => current' = All'[Len(All')]
       /\ active' => anchor' = 0 /\ config.backend
       /\ anchor' > 0 => config.backend /\ ~config.head
       /\ pc' = "decode" => Held' = Consumed'
       /\ target'.count = Len(Held')
       /\ ~config.head => ~profitable'
       /\ config.head => RowsAmong(head', pending', Held')
       /\ config.head /\ ~config.backend => stream' = Held'
  <2>1. current' = next
    BY <1>2
  <2>2. anchor = 1 => config.backend
    BY <1>4
  <2> QED BY <1>1, <1>4, <1>7, <1>9, <1>10, <1>11, <1>12, <1>13, <2>1, <2>2
<1>15. pc' = "decode" /\ profitable' =>
         stream' = Held' /\ ~active' /\ pending' = <<>> /\ Accepts(head', target'.count)
  BY <1>1, <1>3, <1>7, <1>9, <1>11, <1>12, <1>13
<1>16. \A i \in 1..Len(Held') : i <= Len(All') => Held'[i] = All'[i]
  BY <1>7, <1>9
<1> QED BY <1>1, <1>7, <1>9, <1>10, <1>11, <1>14, <1>15, <1>16, StepKeeps

-----------------------------------------------------------------------------
(* A speculative round.                                                    *)

\* There is a longest agreeing prefix.
LEMMA AcceptedFacts ==
  ASSUME NEW drafts, Len(drafts) \in Nat
  PROVE  /\ Accepted(drafts) \in 0..Len(drafts)
         /\ Agrees(drafts, Accepted(drafts))
<1> DEFINE n == Len(drafts)
           T == {m \in Nat : m <= n /\ Agrees(drafts, n - m)}
<1>1. T \subseteq Nat /\ T # {}
  <2>1. Agrees(drafts, n - n)
    BY DEF Agrees
  <2>2. n \in T
    BY <2>1
  <2> QED BY <2>2
<1>2. PICK m \in T : \A l \in T : m <= l
  <2> HIDE DEF T
  <2> QED BY <1>1, NatMinimum
<1> DEFINE k == n - m
<1>3. k \in 0..n /\ Agrees(drafts, k) /\ m \in Nat /\ m <= n
  BY <1>2
<1>4. ASSUME NEW j \in 0..n, Agrees(drafts, j) PROVE j <= k
  <2>1. n - j \in Nat /\ n - j <= n /\ n - (n - j) = j
    OBVIOUS
  <2>2. n - j \in T
    BY <1>4, <2>1
  <2>3. m <= n - j
    BY <1>2, <2>2
  <2> QED BY <1>3, <2>3
<1>5. \E l \in 0..n : Agrees(drafts, l) /\ \A j \in 0..n : Agrees(drafts, j) => j <= l
  BY <1>3, <1>4
<1> QED BY <1>5 DEF Accepted

\* What a row of the verifier has consumed.
LEMMA VerifiedFacts ==
  ASSUME GInv, pc = "decode", ~active, NEW drafts \in Seq(Tokens),
         NEW i \in 0..Len(drafts)
  PROVE  /\ Verified(drafts, i) = All \o SubSeq(drafts, 1, i)
         /\ Verified(drafts, i) \in Seq(Tokens)
         /\ Len(Verified(drafts, i)) = Len(All) + i
         /\ \A j \in 1..Len(All) : Verified(drafts, i)[j] = All[j]
         /\ \A j \in 1..i : Verified(drafts, i)[Len(All) + j] = drafts[j]
<1>1. /\ current \in Tokens /\ Held \in Seq(Tokens) /\ All \in Seq(Tokens)
      /\ Append(Held, current) = All /\ Len(All) \in Nat
  BY DecodeFacts, LenProperties
<1>2. Held = target.tokens
  BY DEF Held
<1>3. target.tokens \o <<current>> = All
  <2>1. Held \o <<current>> = Append(Held, current)
    BY <1>1, AppendIsConcat
  <2> QED BY <1>1, <1>2, <2>1
<1> DEFINE d == SubSeq(drafts, 1, i)
<1>4. i \in Nat /\ i <= Len(drafts)
  BY LenProperties
<1>5. d \in Seq(Tokens) /\ Len(d) = i /\ \A j \in 1..i : d[j] = drafts[j]
  BY <1>4, Initial
<1>6. Verified(drafts, i) = All \o d
  BY <1>3 DEF Verified
<1> HIDE DEF d
<1>7. /\ All \o d \in Seq(Tokens) /\ Len(All \o d) = Len(All) + i
      /\ \A j \in 1..(Len(All) + i) :
           (All \o d)[j] = IF j <= Len(All) THEN All[j] ELSE d[j - Len(All)]
  BY <1>1, <1>5, ConcatProperties
<1>8. ASSUME NEW j \in 1..Len(All) PROVE (All \o d)[j] = All[j]
  <2>1. j \in 1..(Len(All) + i) /\ j <= Len(All)
    BY <1>1, <1>4
  <2> QED BY <1>7, <2>1
<1>9. ASSUME NEW j \in 1..i PROVE (All \o d)[Len(All) + j] = drafts[j]
  <2> DEFINE l == Len(All) + j
  <2>1. l \in 1..(Len(All) + i) /\ ~(l <= Len(All)) /\ l - Len(All) = j
    BY <1>1, <1>4
  <2> HIDE DEF l
  <2>2. (All \o d)[l] = d[j]
    BY <1>7, <2>1
  <2> QED BY <1>5, <2>2 DEF l
<1> QED BY <1>6, <1>7, <1>8, <1>9 DEF d

\* The rows committed for the current token and the accepted drafts are the
\* rows of what the target has consumed.
LEMMA CommittedFacts ==
  ASSUME GInv, pc = "decode", ~active, stream = Held, NEW drafts \in Seq(Tokens),
         NEW k \in 0..Len(drafts)
  PROVE  /\ CommittedRows(drafts, k) \in Seq(Rows)
         /\ Len(CommittedRows(drafts, k)) = k + 1
         /\ RowsFrom(target.count, CommittedRows(drafts, k), Verified(drafts, k))
<1>1. /\ current \in Tokens /\ Held \in Seq(Tokens) /\ All \in Seq(Tokens)
      /\ Append(Held, current) = All
      /\ target.count = Len(Held) /\ Len(All) = target.count + 1 /\ target.count \in Nat
      /\ \A i \in 1..Len(Held) : Held[i] = All[i]
  BY DecodeFacts
<1>2. k \in Nat /\ Len(drafts) \in Nat /\ k <= Len(drafts)
  BY LenProperties
<1> DEFINE a == <<Row(stream, current)>>
           b == [i \in 1..k |-> Row(Verified(drafts, i - 1), drafts[i])]
           u == Verified(drafts, k)
           n == Len(All)
<1>3. /\ u \in Seq(Tokens) /\ Len(u) = n + k /\ n \in Nat
      /\ \A j \in 1..n : u[j] = All[j]
      /\ \A j \in 1..k : u[n + j] = drafts[j]
  BY <1>1, <1>2, VerifiedFacts, LenProperties
<1>4. a \in Seq(Rows) /\ Len(a) = 1 /\ RowsFrom(target.count, a, All)
  BY <1>1, NextRow
<1>5. RowsFrom(target.count, a, u)
  <2>1. Len(All) <= Len(u) /\ \A j \in 1..Len(All) : All[j] = u[j]
    BY <1>2, <1>3
  <2> HIDE DEF a, u
  <2> QED BY <1>1, <1>3, <1>4, <2>1, RowsStay
<1>6. ASSUME NEW i \in 1..k
      PROVE  b[i] \in Rows /\ b[i].token = u[n + i]
             /\ b[i].stream = SubSeq(u, 1, n + i - 1)
  <2> DEFINE v == Verified(drafts, i - 1)
  <2>1. i - 1 \in 0..Len(drafts) /\ i \in 1..Len(drafts) /\ i \in Nat
    BY <1>2
  <2>2. /\ v \in Seq(Tokens) /\ Len(v) = n + (i - 1)
        /\ \A j \in 1..n : v[j] = All[j]
        /\ \A j \in 1..(i - 1) : v[n + j] = drafts[j]
    BY <2>1, VerifiedFacts
  <2>3. b[i] = Row(v, drafts[i]) /\ drafts[i] \in Tokens
    BY <2>1, ElementOfSeq
  <2>4. b[i] \in Rows /\ b[i].token = drafts[i] /\ b[i].stream = v
    BY <2>2, <2>3, RowIn
  <2> HIDE DEF v, u, b
  <2>5. SubSeq(u, 1, Len(v)) = v
    <3>1. Len(v) <= Len(u)
      BY <1>2, <1>3, <2>2
    <3>2. ASSUME NEW j \in 1..Len(v) PROVE v[j] = u[j]
      <4>1. CASE j <= n
        <5>1. j \in 1..n
          BY <1>3, <2>2, <4>1
        <5> QED BY <1>3, <2>2, <5>1
      <4>2. CASE ~(j <= n)
        <5> DEFINE l == j - n
        <5>1. l \in 1..(i - 1) /\ l \in 1..k /\ n + l = j
          BY <1>2, <1>3, <2>1, <2>2, <4>2
        <5> HIDE DEF l
        <5>2. v[n + l] = u[n + l]
          BY <1>3, <2>2, <5>1
        <5> QED BY <5>1, <5>2
      <4> QED BY <4>1, <4>2
    <3> QED BY <1>3, <2>2, <3>1, <3>2, BeginsWith
  <2>6. Len(v) = n + i - 1
    BY <1>3, <2>1, <2>2
  <2> QED BY <1>3, <2>4, <2>5, <2>6
<1>7. b \in Seq(Rows) /\ Len(b) = k
  <2>1. b = [i \in 1..k |-> b[i]]
    OBVIOUS
  <2>2. \A i \in 1..k : b[i] \in Rows
    BY <1>6
  <2> HIDE DEF b
  <2>3. [i \in 1..k |-> b[i]] \in [1..k -> Rows]
    BY <2>2
  <2> QED BY <1>2, <2>1, <2>3
<1>8. RowsFrom(target.count + Len(a), b, u)
  <2> HIDE DEF a, b, u, n
  <2>1. target.count + Len(a) = n
    BY <1>1, <1>4 DEF n
  <2>2. n + Len(b) <= Len(u)
    BY <1>2, <1>3, <1>7
  <2> QED BY <1>6, <1>7, <2>1, <2>2 DEF RowsFrom
<1>9. CommittedRows(drafts, k) = a \o b
  BY DEF CommittedRows
<1> HIDE DEF a, b, u, n
<1>10. /\ a \o b \in Seq(Rows) /\ Len(a \o b) = 1 + k
  <2>1. a \o b \in Seq(Rows) /\ Len(a \o b) = Len(a) + Len(b)
    BY <1>4, <1>7, ConcatProperties, Zenon
  <2> QED BY <1>4, <1>7, <2>1
<1>11. RowsFrom(target.count, a \o b, u)
  BY <1>1, <1>3, <1>4, <1>5, <1>7, <1>8, RowsJoin
<1> QED BY <1>2, <1>9, <1>10, <1>11 DEF u

\* The first j of the accepted drafts and the token after them.
LEMMA EmittedFacts ==
  ASSUME NEW a \in Seq(Tokens), NEW d \in Seq(Tokens), NEW next \in Tokens,
         NEW j \in 0..(Len(d) + 1)
  PROVE  LET new == SubSeq(Append(d, next), 1, j)
         IN  /\ new \in Seq(Tokens) /\ Len(new) = j
             /\ \A i \in 1..Len(a \o d) :
                  i <= Len(a \o new) => (a \o d)[i] = (a \o new)[i]
             /\ j = Len(d) => a \o new = a \o d
             /\ j = Len(d) + 1 => a \o new = Append(a \o d, next)
<1> DEFINE e == Append(d, next)
           new == SubSeq(e, 1, j)
<1>1. /\ e \in Seq(Tokens) /\ Len(e) = Len(d) + 1 /\ Len(d) \in Nat /\ Len(a) \in Nat
      /\ \A i \in 1..Len(d) : e[i] = d[i]
  BY AppendProperties, LenProperties
<1>2. j \in Nat /\ j <= Len(e)
  BY <1>1
<1> HIDE DEF e
<1>3. /\ new \in Seq(Tokens) /\ Len(new) = j
      /\ \A i \in 1..j : new[i] = e[i]
  BY <1>1, <1>2, Initial
<1> HIDE DEF new
<1>4. /\ Len(a \o d) = Len(a) + Len(d)
      /\ \A i \in 1..(Len(a) + Len(d)) :
           (a \o d)[i] = IF i <= Len(a) THEN a[i] ELSE d[i - Len(a)]
      /\ Len(a \o new) = Len(a) + j
      /\ \A i \in 1..(Len(a) + j) :
           (a \o new)[i] = IF i <= Len(a) THEN a[i] ELSE new[i - Len(a)]
  <2>1. ASSUME NEW x \in Seq(Tokens)
        PROVE  /\ Len(a \o x) = Len(a) + Len(x)
               /\ \A i \in 1..(Len(a) + Len(x)) :
                    (a \o x)[i] = IF i <= Len(a) THEN a[i] ELSE x[i - Len(a)]
    BY ConcatProperties
  <2>2. /\ Len(a \o new) = Len(a) + Len(new)
        /\ \A i \in 1..(Len(a) + Len(new)) :
             (a \o new)[i] = IF i <= Len(a) THEN a[i] ELSE new[i - Len(a)]
    BY <1>3, <2>1, Zenon
  <2>3. Len(new) = j
    BY <1>3
  <2>4. /\ Len(a \o d) = Len(a) + Len(d)
        /\ \A i \in 1..(Len(a) + Len(d)) :
             (a \o d)[i] = IF i <= Len(a) THEN a[i] ELSE d[i - Len(a)]
    BY <2>1, Zenon
  <2> QED BY <2>2, <2>3, <2>4, Zenon
<1>5. ASSUME NEW i \in 1..Len(a \o d), i <= Len(a \o new)
      PROVE  (a \o d)[i] = (a \o new)[i]
  <2>1. i \in 1..(Len(a) + Len(d)) /\ i \in 1..(Len(a) + j)
    BY <1>1, <1>2, <1>4, <1>5
  <2>2. CASE i <= Len(a)
    BY <1>4, <2>1, <2>2
  <2>3. CASE ~(i <= Len(a))
    <3> DEFINE l == i - Len(a)
    <3>1. l \in 1..Len(d) /\ l \in 1..j
      BY <1>1, <1>2, <2>1, <2>3
    <3>2. (a \o d)[i] = d[l] /\ (a \o new)[i] = new[l]
      BY <1>4, <2>1, <2>3
    <3> HIDE DEF l
    <3> QED BY <1>1, <1>3, <3>1, <3>2
  <2> QED BY <2>2, <2>3
<1>6. ASSUME j = Len(d) PROVE a \o new = a \o d
  <2>1. \A i \in 1..Len(d) : new[i] = d[i]
    BY <1>1, <1>3, <1>6
  <2>2. new = d
    BY <1>3, <1>6, <2>1, SeqEqual
  <2> QED BY <2>2
<1>7. ASSUME j = Len(d) + 1 PROVE a \o new = Append(a \o d, next)
  <2>1. new = e
    <3>1. j = Len(e)
      BY <1>1, <1>7
    <3>2. SubSeq(e, 1, Len(e)) = e
      BY <1>1, SubSeqFull
    <3> QED BY <3>1, <3>2 DEF new
  <2>2. e = d \o <<next>> /\ <<next>> \in Seq(Tokens)
    BY AppendIsConcat DEF e
  <2>3. a \o (d \o <<next>>) = (a \o d) \o <<next>>
    BY <2>2, ConcatAssociative
  <2>4. a \o d \in Seq(Tokens)
    BY ConcatProperties
  <2>5. (a \o d) \o <<next>> = Append(a \o d, next)
    BY <2>4, AppendIsConcat
  <2> QED BY <2>1, <2>2, <2>3, <2>5
<1> QED BY <1>3, <1>5, <1>6, <1>7 DEF new, e

\* The values of a round.
Emits(drafts, k, next, emitted, stopped, new) ==
  /\ k = Accepted(drafts)
  /\ next = TargetRow(drafts, k)
  /\ emitted = SubSeq(Append(SubSeq(drafts, 1, k), next), 1, Min2(k + 1, Remaining))
  /\ stopped <=> emitted[Len(emitted)] \in Stops
  /\ new = IF stopped THEN SubSeq(emitted, 1, Len(emitted) - 1) ELSE emitted

\* Every new token is the model's own choice after those before it.
OwnChoices(new) ==
  \A i \in 1..Len(new) :
    /\ new[i] \notin Stops
    /\ MayFollow(All \o SubSeq(new, 1, i - 1), new[i])

\* What a round adds to the result: a stop token among what is emitted can
\* only be the target's own, after every accepted draft.
LEMMA RoundEmits ==
  ASSUME ModelChooses, GInv, pc = "decode", ~active, request' = request,
         NEW drafts \in Seq(Tokens),
         NEW k, NEW next, NEW emitted, NEW stopped \in BOOLEAN, NEW new,
         Emits(drafts, k, next, emitted, stopped, new),
         Push(new, stopped)
  PROVE  /\ new \in Seq(Tokens) /\ next \in Tokens
         /\ k \in 0..Len(drafts)
         /\ Len(out) + Len(new) <= request.max_tokens
         /\ pc' = "decode" =>
              next = All'[Len(All')] /\ Verified(drafts, k) = Consumed'
         /\ stopped => \E t \in Stops : MayFollow(All', t)
         /\ \A i \in 1..Len(Verified(drafts, k)) :
              i <= Len(All') => Verified(drafts, k)[i] = All'[i]
         /\ OwnChoices(new)
<1>1. k \in 0..Len(drafts) /\ Agrees(drafts, k) /\ k \in Nat /\ Len(drafts) \in Nat
  <2>1. Len(drafts) \in Nat
    BY LenProperties
  <2>2. k \in 0..Len(drafts) /\ Agrees(drafts, k)
    BY <2>1, AcceptedFacts DEF Emits
  <2> QED BY <2>1, <2>2
<1> DEFINE v == Verified(drafts, k)
           d == SubSeq(drafts, 1, k)
           e == Append(d, next)
           L == Min2(k + 1, Remaining)
<1>2. v = All \o d /\ v \in Seq(Tokens)
  BY <1>1, VerifiedFacts
<1>3. next = Greedy(v) /\ next \in Tokens
  BY <1>2 DEF TargetRow, ModelChooses, Emits
<1>4. d \in Seq(Tokens) /\ Len(d) = k /\ \A j \in 1..k : d[j] = drafts[j]
  BY <1>1, Initial
<1>5. /\ All \in Seq(Tokens) /\ Remaining \in Nat /\ Remaining >= 1
      /\ Len(out) \in Nat /\ request.max_tokens \in Nat
      /\ Remaining = request.max_tokens - Len(out)
  BY DecodeFacts, AllFacts, RequestFacts DEF GInv, Typed, Remaining
<1>6. L \in 1..(k + 1) /\ L <= Remaining /\ (L # k + 1 => L = Remaining)
  BY <1>1, <1>5 DEF Min2
<1> HIDE DEF v, d, e, L
<1>7. /\ e \in Seq(Tokens) /\ Len(e) = k + 1
      /\ \A j \in 1..k : e[j] = d[j]
      /\ e[k + 1] = next
  BY <1>3, <1>4, AppendProperties DEF e
<1>8. emitted = SubSeq(e, 1, L)
  BY DEF d, e, L, Emits
<1>9. /\ emitted \in Seq(Tokens) /\ Len(emitted) = L
      /\ \A i \in 1..L : emitted[i] = e[i]
  <2>1. L \in Nat /\ L <= Len(e)
    BY <1>1, <1>6, <1>7
  <2> QED BY <1>7, <1>8, <2>1, Initial
<1>10. stopped <=> emitted[Len(emitted)] \in Stops
  BY DEF Emits
<1>11. stopped => L = k + 1 /\ next \in Stops
  <2>1. emitted[Len(emitted)] = e[L]
    <3>1. L \in 1..L
      BY <1>6
    <3> QED BY <1>9, <3>1
  <2>2. ASSUME L # k + 1 PROVE e[L] \notin Stops
    <3>1. L \in 1..k
      BY <1>1, <1>6, <2>2
    <3>2. e[L] = drafts[L]
      BY <1>4, <1>7, <3>1
    <3> QED BY <1>1, <3>1, <3>2 DEF Agrees
  <2>3. L = k + 1 => e[L] = next
    BY <1>7
  <2> QED BY <1>10, <2>1, <2>2, <2>3
<1> DEFINE j == IF stopped THEN k ELSE L
<1>12. j \in 0..(Len(d) + 1) /\ j <= Remaining
  <2>1. CASE stopped
    <3>1. j = k /\ L = k + 1
      BY <1>11, <2>1
    <3> HIDE DEF j
    <3> QED BY <1>1, <1>4, <1>5, <1>6, <3>1
  <2>2. CASE ~stopped
    <3>1. j = L
      BY <2>2
    <3> HIDE DEF j
    <3> QED BY <1>1, <1>4, <1>5, <1>6, <3>1
  <2> QED BY <2>1, <2>2
<1>13. new = SubSeq(e, 1, j)
  <2>1. CASE ~stopped
    BY <1>8, <2>1 DEF Emits
  <2>2. CASE stopped
    <3>1. emitted = e /\ new = SubSeq(emitted, 1, Len(emitted) - 1)
      BY <1>7, <1>8, <1>11, <2>2, SubSeqFull DEF Emits
    <3>2. Len(emitted) - 1 = k
      BY <1>1, <1>9, <1>11, <2>2
    <3> QED BY <2>2, <3>1, <3>2
  <2> QED BY <2>1, <2>2
<1> HIDE DEF j
<1>14. /\ new \in Seq(Tokens) /\ Len(new) = j
       /\ \A i \in 1..Len(All \o d) : i <= Len(All \o new) => (All \o d)[i] = (All \o new)[i]
       /\ j = Len(d) => All \o new = All \o d
       /\ j = Len(d) + 1 => All \o new = Append(All \o d, next)
  <2>1. new = SubSeq(Append(d, next), 1, j)
    BY <1>13 DEF e
  <2> DEFINE x == SubSeq(Append(d, next), 1, j)
  <2>2. /\ x \in Seq(Tokens) /\ Len(x) = j
        /\ \A i \in 1..Len(All \o d) : i <= Len(All \o x) => (All \o d)[i] = (All \o x)[i]
        /\ j = Len(d) => All \o x = All \o d
        /\ j = Len(d) + 1 => All \o x = Append(All \o d, next)
    BY <1>3, <1>4, <1>5, <1>12, EmittedFacts
  <2>3. new = x
    BY <2>1
  <2> HIDE DEF x
  <2> QED BY <2>2, <2>3
<1>15. /\ All' = All \o new /\ Len(out') = Len(out) + j
       /\ pc' = "decode" => ~stopped /\ Len(out') # request.max_tokens
  BY <1>14, PushFacts
<1>16. Consumed' = SubSeq(All', 1, Len(All') - 1)
  BY <1>14, ConsumedAfter
<1>17. Len(out) + Len(new) <= request.max_tokens
  BY <1>1, <1>5, <1>12, <1>14
<1>18. \A i \in 1..Len(v) : i <= Len(All') => v[i] = All'[i]
  BY <1>2, <1>14, <1>15
<1>19. ASSUME pc' = "decode" PROVE next = All'[Len(All')] /\ v = Consumed'
  <2>1. ~stopped /\ Len(out) + j # request.max_tokens
    BY <1>15, <1>19
  <2>2. j = L
    BY <2>1 DEF j
  <2>3. j = Len(d) + 1
    <3>1. L # k + 1 => Len(out) + L = request.max_tokens
      BY <1>5, <1>6
    <3> QED BY <1>4, <2>1, <2>2, <3>1
  <2>4. All' = Append(v, next)
    BY <1>2, <1>14, <1>15, <2>3
  <2>5. /\ Len(All') = Len(v) + 1 /\ Len(v) \in Nat
        /\ All' \in Seq(Tokens)
        /\ \A i \in 1..Len(v) : v[i] = All'[i]
        /\ All'[Len(v) + 1] = next
    BY <1>2, <1>3, <2>4, AppendProperties, LenProperties
  <2>6. SubSeq(All', 1, Len(v)) = v
    <3>1. Len(v) <= Len(All')
      BY <2>5
    <3> QED BY <1>2, <2>5, <3>1, BeginsWith
  <2>7. Len(All') - 1 = Len(v)
    BY <2>5
  <2> QED BY <1>16, <2>5, <2>6, <2>7
<1>20. ASSUME stopped PROVE \E t \in Stops : MayFollow(All', t)
  <2>1. j = Len(d)
    BY <1>4, <1>20 DEF j
  <2>2. All' = v
    BY <1>2, <1>14, <1>15, <2>1
  <2> QED BY <1>3, <1>11, <1>20, <2>2 DEF MayFollow
<1>21. ASSUME NEW i \in 1..Len(new)
       PROVE  new[i] \notin Stops /\ new[i] = Greedy(All \o SubSeq(new, 1, i - 1))
  <2>1. /\ i \in 1..j /\ j \in Nat /\ j <= k + 1 /\ i - 1 \in Nat
        /\ i - 1 <= k /\ i - 1 <= j /\ i - 1 \in 0..Len(drafts)
    BY <1>1, <1>4, <1>12, <1>14
  <2>2. \A l \in 1..j : new[l] = e[l]
    BY <1>1, <1>7, <1>13, <2>1, Initial
  <2>3. SubSeq(new, 1, i - 1) = SubSeq(drafts, 1, i - 1)
    <3>1. ASSUME NEW l \in 1..(i - 1) PROVE new[l] = drafts[l]
      <4>1. l \in 1..j /\ l \in 1..k
        BY <1>1, <2>1
      <4> QED BY <1>4, <1>7, <2>2, <4>1
    <3>2. i - 1 <= Len(new) /\ i - 1 <= Len(drafts)
      BY <1>1, <1>14, <2>1
    <3> QED BY <1>14, <2>1, <3>1, <3>2, SameInitial
  <2>4. Verified(drafts, i - 1) = All \o SubSeq(new, 1, i - 1)
    BY <2>1, <2>3, VerifiedFacts
  <2>5. CASE i <= k
    <3>1. i \in 1..k
      BY <1>1, <2>1, <2>5
    <3>2. new[i] = drafts[i]
      BY <1>4, <1>7, <2>1, <2>2, <3>1
    <3>3. drafts[i] = TargetRow(drafts, i - 1) /\ drafts[i] \notin Stops
      BY <1>1, <3>1 DEF Agrees
    <3> QED BY <2>4, <3>2, <3>3 DEF TargetRow
  <2>6. CASE ~(i <= k)
    <3>1. i = k + 1 /\ j = k + 1 /\ i - 1 = k
      BY <1>1, <2>1, <2>6
    <3>2. new[i] = next
      BY <1>7, <2>1, <2>2, <3>1
    <3>3. ~stopped /\ L = k + 1
      <4>1. CASE stopped
        BY <1>1, <3>1, <4>1 DEF j
      <4>2. CASE ~stopped
        BY <3>1, <4>2 DEF j
      <4> QED BY <4>1, <4>2
    <3>4. next \notin Stops
      <4>1. L \in 1..L /\ emitted[Len(emitted)] = e[L]
        BY <1>6, <1>9
      <4> QED BY <1>7, <1>10, <3>3, <4>1
    <3>5. v = All \o SubSeq(new, 1, i - 1)
      BY <2>4, <3>1 DEF v
    <3> QED BY <1>3, <3>2, <3>4, <3>5
  <2> QED BY <2>5, <2>6
<1>22. OwnChoices(new)
  BY <1>21 DEF OwnChoices, MayFollow
<1> QED BY <1>1, <1>3, <1>14, <1>17, <1>18, <1>19, <1>20, <1>22 DEF v

LEMMA RoundKeeps ==
  ASSUME ModelChooses, GInv, NEW drafts \in Seq(Tokens), NEW external \in BOOLEAN,
         Round(drafts, external)
  PROVE  GInv'
<1> DEFINE k == Accepted(drafts)
           v == Verified(drafts, k)
           next == TargetRow(drafts, k)
           emitted == SubSeq(Append(SubSeq(drafts, 1, k), next), 1,
                             Min2(k + 1, Remaining))
           stopped == emitted[Len(emitted)] \in Stops
           new == IF stopped THEN SubSeq(emitted, 1, Len(emitted) - 1) ELSE emitted
<1>1. /\ pc = "decode" /\ ~Serial /\ Accepts(head, target.count)
      /\ head' = Feed(head, CommittedRows(drafts, k), target.count)
      /\ current' = next
      /\ Push(new, stopped)
      /\ UNCHANGED <<ram, disk, offset, anchor, extendable, pending, changed, copy>>
      /\ UNCHANGED <<config, request, status, served>>
  BY DEF Round, caches, serving
<1>2. /\ \/ /\ target' = [tokens |-> v, count |-> target.count + k + 1]
            /\ stream' = v
            /\ \/ profitable' = profitable
               \/ profitable' = FALSE
            /\ UNCHANGED <<backend, active, reset>>
         \/ /\ profitable' = FALSE /\ config.backend
            /\ Activate(v, target.count + k + 1)
  BY DEF Round
<1>3. /\ current \in Tokens /\ Held \in Seq(Tokens) /\ All \in Seq(Tokens)
      /\ target.count = Len(Held) /\ Len(All) = target.count + 1 /\ target.count \in Nat
      /\ \A i \in 1..Len(Held) : Held[i] = All[i]
  BY <1>1, DecodeFacts
<1>4. profitable /\ stream # NoStream
  BY <1>1 DEF Serial
<1>5. /\ stream = Held /\ ~active /\ pending = <<>> /\ config.head
      /\ head \in HeadType /\ anchor = 0
      /\ RowsAmong(head, <<>>, Held)
      /\ extendable \in BOOLEAN /\ profitable \in BOOLEAN
      /\ active \in BOOLEAN /\ reset \in BOOLEAN
      /\ backend.tokens \in Seq(Tokens) /\ backend.stream \in Streams
  <2>1. stream = Held /\ ~active /\ pending = <<>> /\ config.head
    BY <1>1, <1>4 DEF GInv, HeadKept
  <2>2. anchor \in Nat /\ ~(anchor > 0)
    BY <2>1 DEF GInv, Charge, Typed
  <2>3. RowsAmong(head, pending, Held)
    BY <1>1, <2>1 DEF GInv, HeadKept
  <2>4. anchor = 0
    BY <2>2
  <2> QED BY <2>1, <2>3, <2>4 DEF GInv, Typed, Switches
<1>6. Emits(drafts, k, next, emitted, stopped, new)
  BY DEF Emits
<1> HIDE DEF k, next, emitted, stopped, new, v
<1>7. stopped \in BOOLEAN
  BY DEF stopped
<1>8. /\ new \in Seq(Tokens) /\ next \in Tokens
      /\ k \in 0..Len(drafts)
      /\ Len(out) + Len(new) <= request.max_tokens
      /\ pc' = "decode" => next = All'[Len(All')] /\ v = Consumed'
      /\ stopped => \E t \in Stops : MayFollow(All', t)
      /\ \A i \in 1..Len(v) : i <= Len(All') => v[i] = All'[i]
  <2>1. request' = request /\ pc = "decode" /\ ~active /\ Push(new, stopped)
    BY <1>1, <1>5
  <2>2. /\ new \in Seq(Tokens) /\ next \in Tokens
        /\ k \in 0..Len(drafts)
        /\ Len(out) + Len(new) <= request.max_tokens
        /\ pc' = "decode" =>
             next = All'[Len(All')] /\ Verified(drafts, k) = Consumed'
        /\ stopped => \E t \in Stops : MayFollow(All', t)
        /\ \A i \in 1..Len(Verified(drafts, k)) :
             i <= Len(All') => Verified(drafts, k)[i] = All'[i]
    BY <1>6, <1>7, <2>1, RoundEmits
  <2> QED BY <2>2 DEF v
<1>9. /\ v \in Seq(Tokens) /\ Len(v) = target.count + k + 1
      /\ \A i \in 1..Len(Held) : Held[i] = v[i]
      /\ Len(Held) <= Len(v) /\ k \in Nat
  <2>0. k \in Nat
    BY <1>8, LenProperties
  <2>1. /\ v \in Seq(Tokens) /\ Len(v) = Len(All) + k
        /\ \A j \in 1..Len(All) : v[j] = All[j]
    BY <1>1, <1>5, <1>8, VerifiedFacts DEF v
  <2>2. Len(v) = target.count + k + 1
    BY <1>3, <2>0, <2>1
  <2>3. ASSUME NEW i \in 1..Len(Held) PROVE Held[i] = v[i]
    <3>1. i \in 1..Len(All)
      BY <1>3
    <3> QED BY <1>3, <2>1, <3>1
  <2> QED BY <1>3, <2>0, <2>1, <2>2, <2>3
<1>10. target.count \in Nat \ {0}
  <2>1. Held # <<>>
    BY <1>4, <1>5 DEF NoStream
  <2>2. Len(Held) # 0
    BY <1>3, <2>1, EmptySeq
  <2> QED BY <1>3, <2>2
<1>11. /\ head' \in HeadType /\ RowsAmong(head', <<>>, v)
       /\ Accepts(head', target.count + k + 1)
  <2> DEFINE rows == CommittedRows(drafts, k)
             g == Feed(head, rows, target.count)
  <2>1. rows \in Seq(Rows) /\ Len(rows) = k + 1 /\ RowsFrom(target.count, rows, v)
    BY <1>1, <1>5, <1>8, CommittedFacts DEF v
  <2>2. RowsAmong(head, <<>>, v)
    <3>1. <<>> \in Seq(Rows)
      OBVIOUS
    <3> QED BY <1>3, <1>5, <1>9, <3>1, AmongStays
  <2>3. head' = g
    BY <1>1
  <2> HIDE DEF rows
  <2>4. /\ g \in HeadType /\ RowsAmong(g, <<>>, v)
        /\ g.base + Len(g.rows) = target.count + Len(rows)
    BY <1>1, <1>5, <1>9, <1>10, <2>1, <2>2, FeedKeeps
  <2> HIDE DEF g
  <2>5. target.count + (k + 1) = target.count + k + 1
    BY <1>3, <1>9
  <2> QED BY <2>1, <2>3, <2>4, <2>5 DEF Accepts
<1>12. v \in Streams /\ Len(v) \in Nat
  BY <1>9, SeqMonotonic, LenProperties DEF Streams
<1>13. /\ target' \in TargetType /\ target'.count = Len(v) /\ Held' = v
       /\ backend'.tokens \in Seq(Tokens) /\ backend'.stream \in Streams
       /\ stream' \in Streams /\ active' \in BOOLEAN /\ reset' \in BOOLEAN
       /\ active' => config.backend /\ ~reset' /\ ~profitable'
       /\ profitable' \in BOOLEAN
       /\ ~config.backend \/ profitable' => stream' = v
  <2>1. CASE /\ target' = [tokens |-> v, count |-> target.count + k + 1]
             /\ stream' = v
             /\ profitable' = profitable \/ profitable' = FALSE
             /\ UNCHANGED <<backend, active, reset>>
    <3>1. target' = [tokens |-> v, count |-> Len(v)]
      BY <1>9, <2>1
    <3>2. target' \in TargetType /\ target'.count = Len(v) /\ target'.tokens = v
      BY <1>9, <1>12, <3>1 DEF TargetType
    <3>3. ~active'
      BY <1>5, <2>1
    <3>4. Held' = v
      BY <3>2, <3>3 DEF Held
    <3>5. profitable' \in BOOLEAN
      BY <1>5, <2>1
    <3> QED BY <1>5, <1>12, <2>1, <3>2, <3>3, <3>4, <3>5
  <2>2. CASE /\ profitable' = FALSE /\ config.backend
             /\ Activate(v, target.count + k + 1)
    <3>1. /\ backend' = [tokens |-> v, stream |-> WarmStream]
          /\ target' = [tokens |-> <<>>, count |-> Len(v)]
          /\ stream' = NoStream /\ active' = TRUE /\ reset' = FALSE
      BY <1>9, <2>2 DEF Activate
    <3>2. target' \in TargetType /\ target'.count = Len(v)
      BY <1>12, <3>1 DEF TargetType
    <3>3. backend'.tokens = v /\ backend'.stream = WarmStream
      BY <3>1
    <3>4. WarmStream \in Streams /\ NoStream \in Streams
      BY DEF WarmStream, NoStream, Streams
    <3>5. Held' = v
      BY <3>1, <3>3 DEF Held
    <3> QED BY <1>9, <2>2, <3>1, <3>2, <3>3, <3>4, <3>5
  <2> QED BY <1>2, <2>1, <2>2
<1>14. /\ UNCHANGED <<ram, disk, offset, changed, copy, config, request, status, served>>
       /\ current' \in Tokens /\ anchor' \in Nat /\ anchor' = 0
       /\ pending' = <<>> /\ pending' \in Seq(Rows) /\ extendable' \in BOOLEAN
       /\ pc' = "decode" => current' = All'[Len(All')]
       /\ pc' = "decode" => Held' = Consumed'
  BY <1>1, <1>5, <1>8, <1>13
<1>15. /\ active' => anchor' = 0 /\ config.backend
       /\ ~(anchor' > 0)
       /\ active' => ~reset'
       /\ target'.count = Len(Held')
       /\ RowsAmong(head', pending', Held')
       /\ config.head /\ ~config.backend => stream' = Held'
       /\ pc' = "decode" /\ profitable' =>
            stream' = Held' /\ ~active' /\ pending' = <<>> /\ Accepts(head', target'.count)
  BY <1>9, <1>11, <1>13, <1>14
<1>16. \A i \in 1..Len(Held') : i <= Len(All') => Held'[i] = All'[i]
  BY <1>8, <1>13
<1> QED BY <1>1, <1>5, <1>7, <1>8, <1>11, <1>13, <1>14, <1>15, <1>16, StepKeeps

-----------------------------------------------------------------------------
(* The end of a request.                                                   *)

LEMMA FinalFacts ==
  ASSUME GInv, pc = "finish"
  PROVE  /\ Final \in TargetType /\ FinalStream \in Streams
         /\ Extension => /\ Final = [tokens |-> Held, count |-> Len(Held)]
                         /\ Held \in Seq(Tokens)
                         /\ config.head => FinalStream = Held
<1>1. /\ target \in TargetType /\ backend.tokens \in Seq(Tokens)
      /\ Len(backend.tokens) \in Nat
      /\ backend.stream \in Streams /\ stream \in Streams
  BY LenProperties DEF GInv, Typed
<1>2. /\ active => ~reset /\ config.backend
      /\ target.count = Len(Held)
      /\ config.head /\ ~config.backend => stream = Held
  BY DEF GInv, Charge, Holding, HeadKept
<1>3. CASE FetchesBack
  <2>1. Final = [tokens |-> backend.tokens, count |-> Len(backend.tokens)]
        /\ FinalStream = backend.stream
    BY <1>3 DEF Final, FinalStream
  <2>2. Final \in TargetType
    BY <1>1, <2>1 DEF TargetType
  <2>3. Held = backend.tokens
    BY <1>2, <1>3 DEF FetchesBack, Held
  <2>4. ~config.head
    BY <1>2, <1>3 DEF FetchesBack, Extends
  <2> QED BY <1>1, <2>1, <2>2, <2>3, <2>4
<1>4. CASE ~FetchesBack
  <2>1. Final = target /\ FinalStream = stream
    BY <1>4 DEF Final, FinalStream
  <2>2. ASSUME Extension
        PROVE  /\ target = [tokens |-> Held, count |-> Len(Held)]
               /\ Held \in Seq(Tokens)
               /\ config.head => stream = Held
    <3>1. ~active
      BY <1>4, <2>1, <2>2 DEF FetchesBack, Extension
    <3>2. Held = target.tokens
      BY <3>1 DEF Held
    <3>3. config.head => ~config.backend
      BY <2>2 DEF Extension, Extends
    <3>4. target = [tokens |-> target.tokens, count |-> target.count]
          /\ target.tokens \in Seq(Tokens)
      BY <1>1 DEF TargetType
    <3> QED BY <1>2, <3>2, <3>3, <3>4
  <2> QED BY <1>1, <2>1, <2>2
<1> QED BY <1>3, <1>4

\* The entry extended to everything consumed is sound.
LEMMA ExtensionSound ==
  ASSUME GInv, pc = "finish", Extension
  PROVE  Sound(ExtendedEntry, config.head) /\ ~ExtendedEntry.backed
<1>1. /\ Final \in TargetType /\ FinalStream \in Streams
      /\ Final = [tokens |-> Held, count |-> Len(Held)]
      /\ Held \in Seq(Tokens)
      /\ config.head => FinalStream = Held
  BY FinalFacts
<1>2. Final.count = Len(Held) /\ Len(Held) \in Nat
  BY <1>1, LenProperties
<1>3. /\ All \in Seq(Tokens) /\ Len(All) = Complete /\ Complete \in Nat
  BY AllFacts DEF GInv
<1>4. Len(Held) <= Len(All)
  <2>1. Len(Held) = Complete \/ Len(Held) + 1 = Complete
    BY <1>2 DEF Extension, TargetMatches
  <2> QED BY <1>2, <1>3, <2>1
<1>5. \A i \in 1..Len(Held) : i <= Len(All) => Held[i] = All[i]
  BY DEF GInv, Holding
<1>6. SubSeq(All, 1, Len(Held)) = Held
  <2>1. \A i \in 1..Len(Held) : Held[i] = All[i]
    BY <1>2, <1>3, <1>4, <1>5
  <2> QED BY <1>1, <1>3, <1>4, <2>1, BeginsWith
<1> DEFINE e == ExtendedEntry
<1>7. /\ e.tokens = Held /\ e.target = Final /\ e.head = head /\ e.stream = FinalStream
      /\ e.pending = pending /\ e.backed = FALSE
  BY <1>2, <1>6 DEF ExtendedEntry, All
<1>8. e \in EntryType
  <2>1. head \in HeadType /\ pending \in Seq(Rows)
    BY DEF GInv, Typed
  <2>2. e = [tokens |-> Held, target |-> Final, head |-> head, stream |-> FinalStream,
             pending |-> pending, backed |-> FALSE]
    BY <1>2, <1>6 DEF ExtendedEntry, All
  <2> QED BY <1>1, <2>1, <2>2 DEF EntryType
<1> HIDE DEF e
<1>9. ASSUME config.head
      PROVE  /\ RowsAmong(head, pending, Held)
             /\ head.base # NoBase =>
                  head.base + Len(head.rows \o pending) = Len(Held)
  <2>1. RowsAmong(head, pending, Held)
    BY <1>9 DEF GInv, HeadKept
  <2>2. /\ head.base # NoBase
        /\ \/ head.base + Len(head.rows) = Len(Held)
           \/ head.base + Len(head.rows) + Len(pending) = Len(Held)
    BY <1>2, <1>9 DEF Extension, HeadMatches, Matches
  <2>3. /\ head.base \in Nat /\ head.rows \in Seq(Rows) /\ pending \in Seq(Rows)
        /\ Len(head.rows) \in Nat /\ Len(pending) \in Nat
    BY <2>2, HeadParts, LenProperties DEF GInv, Typed
  <2>4. Len(head.rows \o pending) = Len(head.rows) + Len(pending)
    BY <2>3, ConcatProperties
  <2>5. head.base + Len(head.rows \o pending) <= Len(Held)
    BY <2>1, <2>2 DEF RowsAmong, RowsFrom
  <2>6. ASSUME NEW a \in Nat, NEW b \in Nat, NEW c \in Nat, NEW n \in Nat,
               a + (b + c) <= n, a + b = n \/ a + b + c = n
        PROVE  a + (b + c) = n
    BY <2>6
  <2> QED BY <1>2, <2>1, <2>2, <2>3, <2>4, <2>5, <2>6
<1>10. Sound(e, config.head)
  BY <1>1, <1>7, <1>8, <1>9 DEF Sound
<1> QED BY <1>7, <1>10 DEF e

LEMMA FinishDecodingKeeps ==
  ASSUME GInv, FinishDecoding
  PROVE  GInv'
<1>1. /\ pc = "finish" /\ target' = Final /\ stream' = FinalStream
      /\ ram' = IF Extension THEN ExtendedEntry ELSE ram
      /\ pc' \in {"save prompt", "return"}
      /\ UNCHANGED <<disk, offset, head, backend, active, reset, anchor>>
      /\ UNCHANGED <<current, out, profitable, extendable, pending, rounds, copy>>
      /\ UNCHANGED <<config, request, status, served>>
  BY DEF FinishDecoding, metal, loop, serving
<1>2. \/ reason' = reason
      \/ reason' = "cancelled" /\ request.stream
  BY DEF FinishDecoding
<1>3. changed' \in BOOLEAN
  BY DEF FinishDecoding
<1>4. Final \in TargetType /\ FinalStream \in Streams
  BY <1>1, FinalFacts
<1>5. Typed'
  BY <1>1, <1>4 DEF GInv, Typed, Pcs
<1>6. Switches'
  BY <1>1, <1>3 DEF GInv, Switches
<1>7. All' = All
  BY <1>1 DEF All
<1>8. Progress'
  BY <1>1, <1>2, <1>7 DEF GInv, Progress, Opening, Prefilling, Closing, MayFollow
<1>9. Charge' /\ Holding' /\ HeadKept'
  BY <1>1 DEF GInv, Charge, Holding, HeadKept, Opening, Prefilling
<1>10. \/ ram' = ram
       \/ Sound(ram', config.head) /\ ~ram'.backed /\ ram' # NoEntry
  <2>1. CASE Extension
    BY <1>1, <2>1, ExtensionSound, SoundFacts
  <2>2. CASE ~Extension
    BY <1>1, <2>2
  <2> QED BY <2>1, <2>2
<1>11. Entries'
  BY <1>1, <1>10 DEF GInv, Entries
<1>12. Backing'
  BY <1>1, <1>10 DEF GInv, Backing, BackedIsOnDisk, Opening
<1> QED BY <1>5, <1>6, <1>8, <1>9, <1>11, <1>12 DEF GInv

LEMMA SavePromptKeeps ==
  ASSUME GInv, SavePrompt
  PROVE  GInv'
<1>1. /\ pc = "save prompt" /\ pc' \in {"save entry", "return"}
      /\ UNCHANGED <<offset, target, head, stream, backend, active, reset, anchor>>
      /\ UNCHANGED <<current, out, profitable, extendable, pending, rounds>>
      /\ UNCHANGED <<changed, copy, reason, config, request, status, served>>
  BY DEF SavePrompt, live, metal, loop, ending, serving
<1>2. Typed' /\ Switches'
  BY <1>1 DEF GInv, Typed, Switches, Pcs
<1>3. Progress' /\ Charge'
  BY <1>1 DEF GInv, Progress, Charge, Opening, Prefilling, Closing, All, MayFollow
<1>4. Holding' /\ HeadKept'
  BY <1>1 DEF GInv, Holding, HeadKept, Opening, Prefilling
<1>5. /\ ram' # NoEntry => Sound(ram', config.head)
      /\ \A d \in disk' : Sound(d, config.head)
      /\ ram' # NoEntry /\ ram'.backed => \E d \in disk' : d.tokens = ram'.tokens
  <2>1. CASE ram' = ram /\ disk' = disk
    BY <2>1 DEF GInv, Entries, Backing, BackedIsOnDisk
  <2>2. ASSUME copy # NoEntry
        PROVE  /\ ram # NoEntry /\ ~ram.backed
               /\ Sound(copy, config.head) /\ Sound(ram, config.head)
               /\ \A d \in disk : Sound(d, config.head)
    BY <1>1, <2>2 DEF GInv, Backing, Entries
  <2>3. CASE /\ copy # NoEntry /\ DiskKeeps(copy)
             /\ ram' = IF IsPromptEntry THEN [ram EXCEPT !.backed = TRUE] ELSE ram
    <3>1. /\ \A d \in disk' : Sound(d, config.head)
          /\ \E d \in disk' : d.tokens = copy.tokens
      BY <2>2, <2>3, DiskKept
    <3>2. Sound(ram', config.head) /\ ram'.tokens = ram.tokens
      BY <2>2, <2>3, SoundBacked
    <3>3. ram'.backed => ram.tokens = copy.tokens
      BY <2>2, <2>3 DEF IsPromptEntry
    <3> QED BY <3>1, <3>2, <3>3
  <2>4. CASE /\ copy # NoEntry /\ (DiskRefuses \/ disk' = disk)
             /\ ram' = IF IsPromptEntry THEN [ram EXCEPT !.backed = FALSE] ELSE ram
    <3>1. Sound(ram', config.head) /\ ~ram'.backed
      BY <2>2, <2>4, SoundBacked
    <3> QED BY <2>2, <2>4, <3>1 DEF DiskRefuses
  <2> QED BY <2>1, <2>3, <2>4 DEF SavePrompt
<1>6. Entries'
  BY <1>1, <1>5 DEF GInv, Entries
<1>7. Backing'
  BY <1>1, <1>5 DEF GInv, Backing, BackedIsOnDisk, Opening
<1> QED BY <1>2, <1>3, <1>4, <1>6, <1>7 DEF GInv

LEMMA SaveEntryKeeps ==
  ASSUME GInv, SaveEntry
  PROVE  GInv'
<1>1. /\ pc = "save entry" /\ pc' = "return"
      /\ UNCHANGED <<offset, target, head, stream, backend, active, reset, anchor>>
      /\ UNCHANGED <<current, out, profitable, extendable, pending, rounds>>
      /\ UNCHANGED <<changed, copy, reason, config, request, status, served>>
  BY DEF SaveEntry, live, metal, loop, ending, serving
<1>2. Typed' /\ Switches'
  BY <1>1 DEF GInv, Typed, Switches, Pcs
<1>3. Progress' /\ Charge'
  BY <1>1 DEF GInv, Progress, Charge, Opening, Prefilling, Closing, All, MayFollow
<1>4. Holding' /\ HeadKept'
  BY <1>1 DEF GInv, Holding, HeadKept, Opening, Prefilling
<1>5. /\ ram' # NoEntry => Sound(ram', config.head)
      /\ \A d \in disk' : Sound(d, config.head)
      /\ ram' # NoEntry /\ ram'.backed => \E d \in disk' : d.tokens = ram'.tokens
  <2>1. CASE ram' = ram /\ disk' = disk
    BY <2>1 DEF GInv, Entries, Backing, BackedIsOnDisk
  <2>2. /\ ram # NoEntry => Sound(ram, config.head)
        /\ \A d \in disk : Sound(d, config.head)
    BY DEF GInv, Entries
  <2>3. CASE ram # NoEntry /\ DiskKeeps(ram) /\ ram' = [ram EXCEPT !.backed = TRUE]
    <3>1. /\ \A d \in disk' : Sound(d, config.head)
          /\ \E d \in disk' : d.tokens = ram.tokens
      BY <2>2, <2>3, DiskKept
    <3>2. Sound(ram', config.head) /\ ram'.tokens = ram.tokens
      BY <2>2, <2>3, SoundBacked
    <3> QED BY <3>1, <3>2
  <2>4. CASE /\ ram # NoEntry /\ (DiskRefuses \/ disk' = disk)
             /\ ram' = [ram EXCEPT !.backed = FALSE]
    <3>1. Sound(ram', config.head) /\ ~ram'.backed
      BY <2>2, <2>4, SoundBacked
    <3> QED BY <2>2, <2>4, <3>1 DEF DiskRefuses
  <2> QED BY <2>1, <2>3, <2>4 DEF SaveEntry, caches
<1>6. Entries'
  BY <1>1, <1>5 DEF GInv, Entries
<1>7. Backing'
  BY <1>1, <1>5 DEF GInv, Backing, BackedIsOnDisk, Opening
<1> QED BY <1>2, <1>3, <1>4, <1>6, <1>7 DEF GInv

\* The request is over: only the caches carry on.
LEMMA ForgetKeeps ==
  ASSUME GInv, Forget, disk' = disk, status' # "running",
         \/ ram' \in {ram, NoEntry}
         \/ Sound(ram', config.head) /\ ~ram'.backed
  PROVE  GInv'
<1>1. /\ offset' = 0 /\ target' = EmptyTarget /\ head' = EmptyHead
      /\ stream' = NoStream /\ active' = FALSE /\ pending' = <<>>
      /\ copy' = NoEntry /\ pc' = "idle"
      /\ UNCHANGED <<config, request, served, out, backend, reset, anchor, current>>
      /\ UNCHANGED <<profitable, extendable, rounds, changed, reason>>
  BY DEF Forget
<1>2. target' \in TargetType /\ head' \in HeadType /\ pending' \in Seq(Rows)
  BY <1>1 DEF TargetType, HeadType, Bases, EmptyTarget, EmptyHead
<1>3. stream' \in Streams
  BY <1>1 DEF Streams, NoStream
<1>4. Typed'
  BY <1>1, <1>2, <1>3 DEF GInv, Typed, Pcs
<1>5. Switches'
  BY <1>1 DEF GInv, Switches
<1>6. Progress'
  BY <1>1 DEF GInv, Progress, Opening, Prefilling, Closing
<1>7. Charge'
  BY <1>1 DEF GInv, Charge, Opening, Prefilling
<1>8. Holding' /\ HeadKept'
  BY <1>1 DEF GInv, Holding, HeadKept, Opening, Prefilling
<1>9. Entries' /\ Backing'
  BY <1>1 DEF GInv, Entries, Backing, BackedIsOnDisk
<1> QED BY <1>4, <1>5, <1>6, <1>7, <1>8, <1>9 DEF GInv

LEMMA EndKeeps ==
  ASSUME GInv, Return \/ FinishThrows \/ Abort
  PROVE  GInv'
<1>1. CASE Return
  <2>1. reason \in {"length", "stop", "cancelled"}
    BY DEF GInv, Progress
  <2>2. status' # "running" /\ ram' \in {ram, NoEntry} /\ disk' = disk /\ Forget
    BY <1>1, <2>1 DEF Return
  <2> QED BY <2>2, ForgetKeeps
<1>2. CASE Abort
  <2>1. status' # "running" /\ ram' \in {ram, NoEntry} /\ disk' = disk /\ Forget
    BY <1>2 DEF Abort, caches
  <2> QED BY <2>1, ForgetKeeps
<1>3. CASE FinishThrows
  <2>1. status' # "running" /\ ram' = ExtendedEntry /\ disk' = disk /\ Forget
    BY <1>3 DEF FinishThrows
  <2>2. Sound(ExtendedEntry, config.head) /\ ~ExtendedEntry.backed
    BY <1>3, ExtensionSound DEF FinishThrows
  <2> QED BY <2>1, <2>2, ForgetKeeps
<1> QED BY <1>1, <1>2, <1>3

LEMMA ClearKeeps ==
  ASSUME GInv, ClearCache
  PROVE  GInv'
<1>1. /\ pc = "idle" /\ pc' = pc /\ ram' = NoEntry /\ disk' = {}
      /\ UNCHANGED <<offset, target, head, stream, backend, active, reset, anchor>>
      /\ UNCHANGED <<current, out, profitable, extendable, pending, rounds>>
      /\ UNCHANGED <<changed, copy, reason, config, request, status, served>>
  BY DEF ClearCache, live, metal, loop, ending, serving
<1>2. Typed' /\ Switches'
  BY <1>1 DEF GInv, Typed, Switches
<1>3. Progress' /\ Charge'
  BY <1>1 DEF GInv, Progress, Charge, Opening, Prefilling, Closing, All
<1>4. Holding' /\ HeadKept'
  BY <1>1 DEF GInv, Holding, HeadKept, Opening, Prefilling
<1>5. Entries' /\ Backing'
  BY <1>1 DEF GInv, Entries, Backing, BackedIsOnDisk, Opening
<1> QED BY <1>2, <1>3, <1>4, <1>5 DEF GInv

LEMMA StutterKeeps ==
  ASSUME GInv, UNCHANGED vars
  PROVE  GInv'
<1>1. /\ UNCHANGED <<ram, disk, pc>>
      /\ UNCHANGED <<offset, target, head, stream, backend, active, reset, anchor>>
      /\ UNCHANGED <<current, out, profitable, extendable, pending, rounds>>
      /\ UNCHANGED <<changed, copy, reason, config, request, status, served>>
  BY DEF vars, caches, live, metal, loop, ending, serving
<1>2. Typed' /\ Switches'
  BY <1>1 DEF GInv, Typed, Switches
<1>3. All' = All /\ Held' = Held /\ Consumed' = Consumed
  BY <1>1 DEF All, Held, Consumed, Complete
<1>4. Progress' /\ Charge'
  BY <1>1, <1>3 DEF GInv, Progress, Charge, MayFollow
<1>5. Holding' /\ HeadKept'
  BY <1>1, <1>3 DEF GInv, Holding, HeadKept, PrefillRows
<1>6. Entries' /\ Backing'
  BY <1>1 DEF GInv, Entries, Backing, BackedIsOnDisk
<1> QED BY <1>2, <1>4, <1>5, <1>6 DEF GInv

LEMMA GNext ==
  ASSUME NoAnchoredHead, ModelChooses, GInv, [Next]_vars
  PROVE  GInv'
<1>1. ASSUME NEW d \in Depths, NEW external \in BOOLEAN, NEW drafts \in [1..d -> Tokens],
             Round(drafts, external)
      PROVE  GInv'
  <2>1. d \in Nat
    BY GenerationAssumption
  <2>2. drafts \in Seq(Tokens)
    BY <2>1
  <2> QED BY <1>1, <2>2, RoundKeeps
<1>2. ASSUME NEW r \in Requests, Begin(r) PROVE GInv'
  BY <1>2, BeginKeeps
<1>3. CASE Lookup \/ Restore \/ PrefillChunk \/ EndPrefill \/ NoCheckpoint
  BY <1>3, LookupKeeps, RestoreKeeps, ChunkKeeps, SkipKeeps
<1>4. CASE PromptCheckpoint \/ PersistPrompt \/ StartDecoding \/ Export
  BY <1>4, PromptCheckpointKeeps, PersistPromptKeeps, StartDecodingKeeps, ExportKeeps
<1>5. CASE MetalStep \/ MlxStep
  BY <1>5, MetalStepKeeps, MlxStepKeeps
<1>6. CASE \/ FinishDecoding \/ FinishThrows \/ SavePrompt \/ SaveEntry \/ Return
           \/ Abort \/ ClearCache
  BY <1>6, FinishDecodingKeeps, SavePromptKeeps, SaveEntryKeeps, EndKeeps, ClearKeeps
<1>7. CASE UNCHANGED vars
  BY <1>7, StutterKeeps
<1> QED BY <1>1, <1>2, <1>3, <1>4, <1>5, <1>6, <1>7 DEF Next

-----------------------------------------------------------------------------
(* The theorems.                                                           *)

LEMMA GAlways ==
  ASSUME NoAnchoredHead, ModelChooses
  PROVE  Spec => []GInv
<1>1. Init => GInv
  BY GInit
<1>2. GInv /\ [Next]_vars => GInv'
  BY GNext
<1> QED BY <1>1, <1>2, PTL DEF Spec

\* A sound entry is what it says it is.
LEMMA SoundIsTrue ==
  ASSUME NEW e, Sound(e, config.head)
  PROVE  EntryTrue(e)
<1>1. e.target = [tokens |-> e.tokens, count |-> Len(e.tokens)] /\ e.head \in HeadType
  BY SoundFacts DEF Sound
<1>2. ASSUME config.head
      PROVE  /\ e.stream = e.tokens
             /\ e.head.base # NoBase => RowsOf(e.head, e.pending, e.tokens)
             /\ e.head.base = NoBase => e.pending = <<>>
  <2>1. /\ e.stream = e.tokens /\ RowsAmong(e.head, e.pending, e.tokens)
        /\ e.head.base # NoBase =>
             e.head.base + Len(e.head.rows \o e.pending) = Len(e.tokens)
    BY <1>2 DEF Sound
  <2> DEFINE all == e.head.rows \o e.pending
  <2>2. all \in Seq(Rows) /\ DOMAIN all = 1..Len(all)
    BY <1>1, HeadParts, SoundFacts, ConcatProperties, LenProperties
  <2>3. ASSUME e.head.base # NoBase PROVE RowsOf(e.head, e.pending, e.tokens)
    <3>1. RowsFrom(e.head.base, all, e.tokens)
      BY <2>1, <2>3 DEF RowsAmong
    <3>2. e.head.base + Len(all) = Len(e.tokens)
      BY <2>1, <2>3
    <3>3. ASSUME NEW i \in DOMAIN all
          PROVE  /\ all[i].token = e.tokens[e.head.base + i]
                 /\ all[i].stream = SubSeq(e.tokens, 1, e.head.base + i - 1)
      BY <2>2, <3>1 DEF RowsFrom
    <3> QED BY <3>2, <3>3 DEF RowsOf
  <2> QED BY <2>1, <2>3 DEF RowsAmong
<1> QED BY <1>1, <1>2 DEF EntryTrue

\* Every prefix-cache entry in RAM and on the SSD holds exactly the state of
\* its tokens, and the rows of the head that a prefill of them builds, for
\* every model, request, draft and configuration without anchored heads
\* (complete_impl's checkpoints and extensions).
THEOREM CacheAlwaysTrue ==
  ASSUME NoAnchoredHead, ModelChooses
  PROVE  Spec => []CacheTrue
<1>1. GInv => CacheTrue
  <2> SUFFICES ASSUME GInv PROVE CacheTrue
    OBVIOUS
  <2>1. ASSUME NEW e, Sound(e, config.head) PROVE EntryTrue(e)
    BY <2>1, SoundIsTrue
  <2> QED BY <2>1 DEF GInv, Entries, CacheTrue
<1>2. Spec => []GInv
  BY GAlways
<1> QED BY <1>1, <1>2, PTL

\* Whoever takes the next step of the decode loop holds what the loop has
\* consumed: no speculative round is refused for its position, and the
\* backend decodes from the committed tokens (activate_persistent, the
\* round in complete_impl).
THEOREM DecodersAlwaysInStep ==
  ASSUME NoAnchoredHead, ModelChooses
  PROVE  Spec => []DecodersInStep
<1>1. GInv => DecodersInStep
  <2> SUFFICES ASSUME GInv PROVE DecodersInStep
    OBVIOUS
  <2>1. TypeOK
    <3>1. {active, reset, profitable, extendable, changed} \subseteq BOOLEAN
      BY DEF GInv, Switches
    <3>2. Len(out) <= request.max_tokens
      BY DEF GInv, Progress
    <3> QED BY <3>1, <3>2 DEF GInv, Typed, TargetType, TypeOK
  <2>2. SpeculationInStep
    BY DEF GInv, HeadKept, SpeculationInStep, Serial
  <2>3. MetalHoldsCommitted
    BY DEF GInv, Holding, Held, MetalHoldsCommitted
  <2> QED BY <2>1, <2>2, <2>3 DEF DecodersInStep
<1>2. Spec => []GInv
  BY GAlways
<1> QED BY <1>1, <1>2, PTL

-----------------------------------------------------------------------------
(* The exchange between RAM and SSD.                                       *)

LEMMA DropsKept ==
  ASSUME GInv, Next
  PROVE  DropsOnlyPersisted
<1> SUFFICES ASSUME ram # NoEntry, ram' = NoEntry, pc \notin {"lookup", "idle"}
             PROVE  \E d \in disk' : d.tokens = ram.tokens
  BY DEF DropsOnlyPersisted
<1>1. Sound(ram, config.head) /\ (ram.backed => \E d \in disk : d.tokens = ram.tokens)
  BY DEF GInv, Entries, Backing, BackedIsOnDisk
<1>2. \A b \in BOOLEAN : [ram EXCEPT !.backed = b] # NoEntry
  BY <1>1, SoundBacked, SoundFacts
<1>3. CASE Restore
  BY <1>1, <1>3 DEF Restore, DropsRestored
<1>4. CASE PersistPrompt
  <2>1. \A d \in disk : Sound(d, config.head)
    BY DEF GInv, Entries
  <2>2. DiskKeeps(ram)
    BY <1>4 DEF PersistPrompt
  <2> QED BY <1>1, <2>1, <2>2, DiskKept
<1>5. CASE Return
  BY <1>1, <1>5 DEF Return
<1>6. CASE PromptCheckpoint
  <2>1. "backed" \in DOMAIN Entry(PrefillTokens, <<>>) /\ "backed" \notin DOMAIN NoEntry
    BY DEF Entry, NoEntry
  <2> QED BY <1>6, <2>1 DEF PromptCheckpoint
<1>7. CASE FinishDecoding \/ FinishThrows
  <2>1. pc = "finish" /\ ram' = IF Extension THEN ExtendedEntry ELSE ram
    BY <1>7 DEF FinishDecoding, FinishThrows
  <2>2. Extension => ExtendedEntry # NoEntry
    BY <2>1, ExtensionSound, SoundFacts
  <2> QED BY <2>1, <2>2
<1>8. CASE SavePrompt \/ SaveEntry
  BY <1>2, <1>8 DEF SavePrompt, SaveEntry, caches
<1>9. ASSUME NEW r \in Requests, Begin(r) PROVE FALSE
  BY <1>9 DEF Begin
<1>10. ASSUME NEW drafts, NEW external, Round(drafts, external) PROVE FALSE
  BY <1>10 DEF Round, caches
<1>11. CASE Lookup \/ ClearCache \/ PrefillChunk \/ EndPrefill \/ NoCheckpoint
  BY <1>11 DEF Lookup, ClearCache, PrefillChunk, EndPrefill, NoCheckpoint, caches
<1>12. CASE StartDecoding \/ Export \/ MetalStep \/ MlxStep \/ Abort
  BY <1>12 DEF StartDecoding, Export, MetalStep, MlxStep, Abort, caches
<1> QED BY <1>3, <1>4, <1>5, <1>6, <1>7, <1>8, <1>9, <1>10, <1>11, <1>12 DEF Next

\* What counts as backed is on the SSD, and a checkpoint leaves RAM only
\* when the SSD has it, outside the lookup of another prompt and clear_cache
\* (persist_prefix_cache; "Only discard a RAM checkpoint after confirmed
\* persistence", native_engine.cpp:1755).
THEOREM CheckpointsAlwaysKept ==
  ASSUME NoAnchoredHead, ModelChooses
  PROVE  Spec => CheckpointsKept
<1>1. GInv /\ GInv' /\ [Next]_vars => [BackedIsOnDisk' /\ DropsOnlyPersisted]_vars
  <2> SUFFICES ASSUME GInv, GInv', Next
               PROVE  BackedIsOnDisk' /\ DropsOnlyPersisted
    OBVIOUS
  <2> QED BY DropsKept DEF GInv, Backing
<1>2. Spec => []GInv
  BY GAlways
<1> QED BY <1>1, <1>2, PTL DEF Spec, CheckpointsKept

-----------------------------------------------------------------------------
(* The generation is the greedy one.                                       *)

LEMMA TextAssociative ==
  \A a, b, c \in Seq(Tokens) : a \o (b \o c) = (a \o b) \o c
<1> SUFFICES ASSUME NEW a \in Seq(Tokens), NEW b \in Seq(Tokens),
                    NEW c \in Seq(Tokens)
             PROVE  a \o (b \o c) = (a \o b) \o c
  OBVIOUS
<1> QED BY ConcatAssociative, SMTT(40)

\* What may follow the text is a choice of the greedy decoder.
LEMMA ChosenWhen ==
  ASSUME GInv, NEW s, NEW t, MayFollow(request.prompt \o s, t), Len(s) \in Nat,
         Len(request.prompt \o s) = Len(request.prompt) + Len(s)
  PROVE  Decode!Chosen(request, s, t)
<1>1. Len(request.prompt) \in Nat /\ config.minTokens \in Nat
  BY RequestFacts, LenProperties, GenerationAssumption DEF GInv, Typed, ConfigType
<1>2. ASSUME Len(request.prompt \o s) < Len(request.prompt) + config.minTokens
      PROVE  Len(s) < config.minTokens
  BY <1>1, <1>2
<1> QED BY <1>2 DEF MayFollow, Decode!Chosen, Decode!TooEarly

\* Tokens of the model's own choice are a step of the greedy decoder.
LEMMA ExtendStep ==
  ASSUME GInv, pc = "decode", status' = status, request' = request,
         config' = config, NEW new \in Seq(Tokens), NEW stopped \in BOOLEAN, Push(new, stopped),
         Len(out) + Len(new) <= request.max_tokens, OwnChoices(new)
  PROVE  Decode!Next
<1>1. out' = out \o new
  BY DEF Push
<1>2. /\ out \in Seq(Tokens) /\ request.prompt \in Seq(Tokens) /\ status = "running"
      /\ Len(out) \in Nat /\ Len(new) \in Nat
  BY RequestFacts, LenProperties DEF GInv, Typed, Progress
<1>3. SubSeq(out', Len(out) + 1, Len(out')) = new
  <2>1. SubSeq(out \o new, Len(out) + 1, Len(out \o new)) = new
    <3> DEFINE c == out \o new
               m == SubSeq(c, Len(out) + 1, Len(c))
    <3>1. /\ c \in Seq(Tokens) /\ Len(c) = Len(out) + Len(new)
          /\ \A i \in 1..(Len(out) + Len(new)) :
               c[i] = IF i <= Len(out) THEN out[i] ELSE new[i - Len(out)]
      BY <1>2, ConcatProperties
    <3> HIDE DEF c
    <3>2. \A i \in (Len(out) + 1)..Len(c) : c[i] \in Tokens
      <4>1. \A i \in 1..Len(c) : c[i] \in Tokens
        BY <3>1, ElementOfSeq
      <4> QED BY <1>2, <3>1, <4>1
    <3>3. /\ m \in Seq(Tokens)
          /\ Len(m) = IF Len(out) + 1 <= Len(c) THEN Len(c) - (Len(out) + 1) + 1 ELSE 0
          /\ \A i \in 1..(Len(c) - (Len(out) + 1) + 1) : m[i] = c[Len(out) + 1 + i - 1]
      BY <1>2, <3>1, <3>2, SubSeqProperties
    <3> HIDE DEF m
    <3>4. Len(m) = Len(new)
      BY <1>2, <3>1, <3>3
    <3>5. ASSUME NEW i \in 1..Len(new) PROVE m[i] = new[i]
      <4> DEFINE l == Len(out) + i
      <4>1. /\ l \in 1..(Len(out) + Len(new)) /\ ~(l <= Len(out)) /\ l - Len(out) = i
            /\ i \in 1..(Len(c) - (Len(out) + 1) + 1) /\ Len(out) + 1 + i - 1 = l
        BY <1>2, <3>1
      <4> HIDE DEF l
      <4>2. c[l] = new[i]
        BY <3>1, <4>1
      <4> QED BY <3>3, <4>1, <4>2
    <3>6. m = new
      BY <3>3, <3>4, <3>5, SeqEqual
    <3> QED BY <3>6 DEF m, c
  <2> QED BY <1>1, <2>1
<1>4. ASSUME NEW i \in 1..Len(new)
      PROVE  /\ new[i] \notin Stops
             /\ Decode!Chosen(request, out \o SubSeq(new, 1, i - 1), new[i])
  <2> DEFINE s == SubSeq(new, 1, i - 1)
  <2>1. s \in Seq(Tokens)
    <3>1. i - 1 \in Nat /\ i - 1 <= Len(new)
      BY <1>2
    <3> QED BY <3>1, Initial
  <2> HIDE DEF s
  <2>2. ASSUME NEW p \in Seq(Tokens) PROVE p \o (out \o s) = (p \o out) \o s
    <3>1. out \in Seq(Tokens)
      BY <1>2
    <3> QED BY <2>1, <3>1, TextAssociative
  <2>3. request.prompt \o (out \o s) = All \o s
    BY <1>2, <2>2 DEF All
  <2>4. new[i] \notin Stops /\ MayFollow(All \o s, new[i])
    BY DEF OwnChoices, s
  <2>5. Len(All \o s) = Len(request.prompt) + Len(out \o s)
    <3>1. out \o s \in Seq(Tokens)
      BY <1>2, <2>1, ConcatProperties
    <3> QED BY <1>2, <2>3, <3>1, ConcatProperties
  <2>6. Decode!Chosen(request, out \o s, new[i])
    <3> DEFINE v == out \o s
    <3>1. v \in Seq(Tokens)
      BY <1>2, <2>1, ConcatProperties
    <3>2. /\ MayFollow(request.prompt \o v, new[i]) /\ Len(v) \in Nat
          /\ Len(request.prompt \o v) = Len(request.prompt) + Len(v)
      BY <2>3, <2>4, <2>5, <3>1, LenProperties
    <3> HIDE DEF v
    <3>3. Decode!Chosen(request, v, new[i])
      BY <3>2, ChosenWhen
    <3> QED BY <3>3 DEF v
  <2> QED BY <2>4, <2>6 DEF s
<1>5. DOMAIN new = 1..Len(new)
  BY LenProperties
<1>6. Decode!Extend(new)
  BY <1>1, <1>2, <1>4, <1>5 DEF Decode!Extend
<1>7. Decode!More = new
  BY <1>3 DEF Decode!More
<1> QED BY <1>6, <1>7 DEF Decode!Next

LEMMA SerialStep ==
  ASSUME ModelChooses, GInv, MetalStep \/ MlxStep
  PROVE  Decode!Next
<1> DEFINE metalNext ==
             MetalNext(IF reset THEN <<current>> ELSE Append(backend.tokens, current))
<1>1. /\ pc = "decode" /\ request' = request /\ status' = status /\ config' = config
  BY DEF MetalStep, MlxStep, serving
<1>2. \E next \in Tokens :
        /\ MayFollow(All, next)
        /\ Push(IF next \in Stops THEN <<>> ELSE <<next>>, next \in Stops)
  <2>0. All \in Seq(Tokens)
    BY <1>1, DecodeFacts
  <2>1. CASE MetalStep
    <3>1. (IF reset THEN <<current>> ELSE Append(backend.tokens, current)) = All
      BY <2>1, MetalConsumes DEF MetalStep
    <3>2. Push(IF metalNext \in Stops THEN <<>> ELSE <<metalNext>>, metalNext \in Stops)
      BY <2>1 DEF MetalStep
    <3>3. metalNext \in Tokens /\ MayFollow(All, metalNext)
      BY <3>1, MetalChooses
    <3> HIDE DEF metalNext
    <3> QED BY <3>2, <3>3
  <2>2. CASE MlxStep
    <3>1. Append(target.tokens, current) = All
      <4>1. ~active
        BY <2>2 DEF MlxStep, GInv, Charge
      <4>2. Held = target.tokens
        BY <4>1 DEF Held
      <4> QED BY <1>1, <4>2, DecodeFacts
    <3> QED BY <2>2, <3>1 DEF MlxStep, MayFollow
  <2> QED BY <2>1, <2>2
<1>3. PICK next \in Tokens :
        /\ MayFollow(All, next)
        /\ Push(IF next \in Stops THEN <<>> ELSE <<next>>, next \in Stops)
  BY <1>2
<1> DEFINE new == IF next \in Stops THEN <<>> ELSE <<next>>
           stopped == next \in Stops
<1>4. /\ new \in Seq(Tokens) /\ stopped \in BOOLEAN /\ Push(new, stopped)
      /\ Len(out) + Len(new) <= request.max_tokens
  BY <1>1, <1>3, OneToken
<1>5. OwnChoices(new)
  <2>1. CASE next \in Stops
    <3>1. Len(new) = 0
      BY <2>1
    <3> QED BY <3>1 DEF OwnChoices
  <2>2. CASE next \notin Stops
    <3>1. new = <<next>>
      BY <2>2
    <3>2. All \o SubSeq(<<next>>, 1, 1 - 1) = All
      <4>1. SubSeq(<<next>>, 1, 1 - 1) = <<>>
        BY SubSeqEmpty
      <4>2. All \o <<>> = All
        BY <1>1, DecodeFacts, ConcatEmptySeq
      <4> QED BY <4>1, <4>2
    <3>3. \A i \in 1..1 : i = 1
      OBVIOUS
    <3>4. Len(<<next>>) = 1 /\ <<next>>[1] = next
      OBVIOUS
    <3>5. OwnChoices(<<next>>)
      BY <1>3, <2>2, <3>2, <3>3, <3>4 DEF OwnChoices
    <3> QED BY <3>1, <3>5
  <2> QED BY <2>1, <2>2
<1> HIDE DEF new, stopped
<1> QED BY <1>1, <1>4, <1>5, ExtendStep

LEMMA RoundStep ==
  ASSUME ModelChooses, GInv, NEW drafts \in Seq(Tokens), NEW external \in BOOLEAN,
         Round(drafts, external)
  PROVE  Decode!Next
<1> DEFINE k == Accepted(drafts)
           next == TargetRow(drafts, k)
           emitted == SubSeq(Append(SubSeq(drafts, 1, k), next), 1,
                             Min2(k + 1, Remaining))
           stopped == emitted[Len(emitted)] \in Stops
           new == IF stopped THEN SubSeq(emitted, 1, Len(emitted) - 1) ELSE emitted
<1>1. /\ pc = "decode" /\ ~Serial /\ Push(new, stopped)
      /\ request' = request /\ status' = status /\ config' = config
  BY DEF Round, serving
<1>2. ~active
  BY <1>1 DEF Serial, GInv, HeadKept
<1>3. Emits(drafts, k, next, emitted, stopped, new)
  BY DEF Emits
<1> HIDE DEF k, next, emitted, stopped, new
<1>4. stopped \in BOOLEAN
  BY DEF stopped
<1>5. /\ new \in Seq(Tokens) /\ Len(out) + Len(new) <= request.max_tokens
      /\ OwnChoices(new)
  BY <1>1, <1>2, <1>3, <1>4, RoundEmits
<1> QED BY <1>1, <1>4, <1>5, ExtendStep

\* The end of a request: its reason is one the greedy decoder may give.
LEMMA EndStep ==
  ASSUME GInv, Return \/ FinishThrows \/ Abort
  PROVE  Decode!Next
<1>1. /\ request' = request /\ out' = out /\ config' = config /\ pc # "idle"
  BY DEF Return, FinishThrows, Abort, Forget
<1>2. status = "running"
  BY <1>1 DEF GInv, Progress
<1>3. CASE Return
  <2>1. /\ status' = reason /\ reason \in {"length", "stop", "cancelled"}
        /\ reason = "length" => Len(out) = request.max_tokens
        /\ reason = "stop" =>
             \E t \in Stops : MayFollow(request.prompt \o out, t)
        /\ reason = "cancelled" => request.stream
    BY <1>3 DEF Return, GInv, Progress, Closing, All
  <2>2. /\ Len(request.prompt \o out) = Len(request.prompt) + Len(out)
        /\ Len(out) \in Nat
    BY AllFacts, LenProperties DEF GInv, Typed, All
  <2>3. reason = "stop" => \E t \in Stops : Decode!Chosen(request, out, t)
    BY <2>1, <2>2, ChosenWhen
  <2>4. Decode!Finish(reason)
    BY <1>1, <1>2, <2>1, <2>3 DEF Decode!Finish
  <2> QED BY <2>1, <2>4 DEF Decode!Next
<1>4. CASE FinishThrows \/ Abort
  <2>1. Decode!Finish("error")
    BY <1>1, <1>2, <1>4 DEF Decode!Finish, FinishThrows, Abort
  <2> QED BY <2>1 DEF Decode!Next
<1> QED BY <1>3, <1>4

\* Every step of the engine is a step of the greedy decoder or none.
LEMMA GreedyStep ==
  ASSUME ModelChooses, GInv, [Next]_vars
  PROVE  [Decode!Next]_<<config.minTokens, request, out, status>>
<1>1. ASSUME NEW d \in Depths, NEW external \in BOOLEAN, NEW drafts \in [1..d -> Tokens],
             Round(drafts, external)
      PROVE  Decode!Next
  <2>1. d \in Nat
    BY GenerationAssumption
  <2>2. drafts \in Seq(Tokens)
    BY <2>1
  <2> QED BY <1>1, <2>2, RoundStep
<1>2. ASSUME NEW r \in Requests, Begin(r) PROVE Decode!Next
  <2>1. status # "running"
    BY <1>2 DEF Begin, GInv, Progress
  <2>2. Decode!Begin(r)
    BY <1>2, <2>1 DEF Begin, Decode!Begin
  <2> QED BY <2>2 DEF Decode!Next
<1>3. CASE MetalStep \/ MlxStep
  BY <1>3, SerialStep
<1>4. CASE Return \/ FinishThrows \/ Abort
  BY <1>4, EndStep
<1>5. CASE Lookup \/ Restore \/ PrefillChunk \/ EndPrefill \/ NoCheckpoint \/ PromptCheckpoint
  BY <1>5 DEF Lookup, Restore, PrefillChunk, EndPrefill, NoCheckpoint, PromptCheckpoint,
              loop, serving
<1>6. CASE PersistPrompt \/ StartDecoding \/ Export \/ FinishDecoding
  BY <1>6 DEF PersistPrompt, StartDecoding, Export, FinishDecoding, loop, serving
<1>7. CASE SavePrompt \/ SaveEntry \/ ClearCache \/ UNCHANGED vars
  BY <1>7 DEF SavePrompt, SaveEntry, ClearCache, vars, loop, serving
<1> QED BY <1>1, <1>2, <1>3, <1>4, <1>5, <1>6, <1>7 DEF Next

\* Whatever is drafted, accepted, cached, restored from RAM or SSD and
\* handed over to the backend, a greedy request gets the model's own greedy
\* continuation, up to a stop token or max_tokens, and a finish reason that
\* says which: complete_impl implements GreedyDecode.  Only where the
\* diagnostic QWEN38_PERSISTENT_MIN_TOKENS is set may the second choice stand
\* for a stop token that comes before the minimum.
THEOREM ImplementsGreedy ==
  ASSUME NoAnchoredHead, ModelChooses
  PROVE  Spec => GreedySpec
<1>1. Init => Decode!Init
  BY GenerationAssumption DEF Init, ConfigType, Decode!Init
<1>2. GInv /\ [Next]_vars => [Decode!Next]_<<config.minTokens, request, out, status>>
  BY GreedyStep
<1>3. Spec => []GInv
  BY GAlways
<1> QED BY <1>1, <1>2, <1>3, PTL DEF Spec, GreedySpec, Decode!Spec

=============================================================================
