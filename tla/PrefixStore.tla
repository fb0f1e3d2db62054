----------------------------- MODULE PrefixStore -----------------------------
(***************************************************************************)
(* What the engine expects of its SSD prefix cache                         *)
(* (include/qwen38/prefix_cache_store.hpp): a least-recently-used list of  *)
(* prefixes.  A load answers with the longest stored prefix of the prompt  *)
(* and makes it the most recent; a save puts its prefix last, evicts the   *)
(* oldest ones while the total is over the limit, and answers whether its  *)
(* own prefix survived.  Removals may fail: from then on the order and the *)
(* limit are no longer promised, and still nothing else changes.           *)
(***************************************************************************)
EXTENDS Naturals, Sequences, Filters

CONSTANTS
  Prompts,        \* the token sequences that are saved
  Queries,        \* the prompts that are looked up
  PairBytes(_),   \* bytes of a stored prefix
  MaxBytes        \* max_bytes_

VARIABLES
  entries,   \* the stored prefixes, least recently used first
  answer,    \* what the last operation returned
  stuck      \* a removal has failed

Nothing  == [op |-> "none"]
Saving   == [op |-> "saving"]
Clearing == [op |-> "clearing"]
Loaded(q, p) == [op |-> "load", query |-> q, tokens |-> p]
Saved(p, kept) == [op |-> "save", tokens |-> p, kept |-> kept]

Stored == {entries[i] : i \in DOMAIN entries}

Bytes(s) ==
  LET sum[n \in 0..Len(s)] ==
        IF n = 0 THEN 0 ELSE sum[n - 1] + PairBytes(s[n])
  IN  sum[Len(s)]

PrefixesOf(q) ==
  {p \in Stored : Len(p) <= Len(q) /\ SubSeq(q, 1, Len(p)) = p}

-----------------------------------------------------------------------------

\* The longest stored prefix, or nothing when there is none or its state
\* cannot be read; a hit is now the most recently used.
Load(q) ==
  \/ \E p \in PrefixesOf(q) :
       /\ \A o \in PrefixesOf(q) : Len(o) <= Len(p)
       /\ answer' = Loaded(q, p)
       /\ entries' = Append(Without(entries, p), p)
  \/ answer' = Loaded(q, <<>>) /\ UNCHANGED entries

\* A save makes its prefix the most recent, then trims from the old end.
Offer(p) ==
  /\ answer = Saving
  /\ entries' = Append(Without(entries, p), p)
  /\ UNCHANGED answer

Evict ==
  /\ answer = Saving
  /\ \/ Bytes(entries) > MaxBytes /\ entries' = Tail(entries)
     \/ stuck /\ \E p \in Stored : entries' = Without(entries, p)
  /\ UNCHANGED answer

\* The save answers, only within the limit, whether the prefix is there.
Accept(p) ==
  /\ answer = Saving
  /\ Bytes(entries) <= MaxBytes \/ stuck
  /\ answer' = Saved(p, p \in Stored)
  /\ UNCHANGED entries

\* An operation starts, is interrupted or fails: nothing is lost by that.
Begin == answer' \in {Nothing, Saving, Clearing} /\ UNCHANGED entries

\* clear() in progress.
Forget(p) ==
  /\ answer = Clearing
  /\ entries' = Without(entries, p)
  /\ UNCHANGED answer

\* A save that finds one half of its own pair, left behind by an interrupted
\* clear, completes it at the age of that half.
Resurrect(p) ==
  /\ answer = Saving
  /\ p \notin Stored
  /\ \E i \in 0..Len(entries) :
       entries' = SubSeq(entries, 1, i) \o <<p>>
                    \o SubSeq(entries, i + 1, Len(entries))
  /\ UNCHANGED answer

Init == entries = <<>> /\ answer = Nothing /\ stuck \in BOOLEAN

Next ==
  /\ \/ \E q \in Queries : Load(q)
     \/ \E p \in Prompts : Offer(p) \/ Accept(p) \/ Forget(p) \/ Resurrect(p)
     \/ Evict
     \/ Begin
     \/ UNCHANGED <<entries, answer>>
  /\ stuck => stuck'

Spec == Init /\ [][Next]_<<entries, answer, stuck>>

=============================================================================
