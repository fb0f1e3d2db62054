----------------------------- MODULE DraftCaches -----------------------------
(***************************************************************************)
(* Drafts that are copied instead of computed (history_draft.cpp).         *)
(* HistoryDraftCache looks the current suffix up among all tokens of the   *)
(* request, ContextCopyCache among those of the prompt.  Both find n-grams *)
(* through a 64-bit hash and must survive a collision; the second one has  *)
(* its search written twice, for a whole history and for a completion that *)
(* follows the prompt.  Positions are counted from zero, as in the code.   *)
(***************************************************************************)
EXTENDS Naturals, Sequences, FiniteSets, FiniteSetsExt, SequencesExt

CONSTANTS
  Vocabulary,
  KeyOf(_),             \* the hash of a sequence of tokens
  MinOrder, MaxOrder,   \* orders of HistoryDraftCache, 2 and 5 in the code
  MinCopy, MaxCopy,     \* orders of ContextCopyCache
  Candidates,           \* positions looked at per key, 32 in the code
  MaxDraft,             \* maximum_tokens of a proposal
  MaxTokens             \* bound: tokens of the request

ASSUME DraftCachesAssumption ==
  /\ MinOrder \in Nat \ {0} /\ MaxOrder \in Nat /\ MinOrder <= MaxOrder
  /\ MinCopy \in Nat \ {0} /\ MaxCopy \in Nat /\ MinCopy <= MaxCopy
  /\ {Candidates, MaxDraft, MaxTokens} \subseteq Nat \ {0}

VARIABLES
  history,     \* history_: the prompt and what was generated
  promptSize,  \* how much of it is the prompt
  latest       \* latest_: key to the start of its last published n-gram

cacheVars == <<history, promptSize, latest>>

\* n tokens of a sequence from a position counted from zero.
Slice(s, start, n) == SubSeq(s, start + 1, start + n)

-----------------------------------------------------------------------------
(* HistoryDraftCache.                                                      *)

\* append publishes the n-gram that ends just before the new token and has a
\* known continuation now, never the one that ends with it.
PublishedAt(h, n) == Len(h) - n - 1

\* A longer n-gram overwrites a shorter one under the same key.
Latest(h) ==
  LET orders  == {n \in MinOrder..MaxOrder : Len(h) >= n + 1}
      key(n)  == KeyOf(Slice(h, PublishedAt(h, n), n))
      last(k) == Max({n \in orders : key(n) = k})
  IN  [k \in DOMAIN latest \cup {key(n) : n \in orders} |->
         IF \E n \in orders : key(n) = k THEN PublishedAt(h, last(k)) ELSE latest[k]]

\* Mutation: equal keys are taken for equal tokens.
SuffixMatchesHash(start, n) == start + n < Len(history)

\* suffix_matches: the tokens are compared, and something follows them.
SuffixMatches(start, n) ==
  /\ start + n < Len(history)
  /\ Slice(history, start, n) = Slice(history, Len(history) - n, n)

\* The orders under which propose finds the current suffix.
Found ==
  {n \in MinOrder..MaxOrder :
     /\ Len(history) >= n
     /\ LET k == KeyOf(Slice(history, Len(history) - n, n))
        IN  k \in DOMAIN latest /\ SuffixMatches(latest[k], n)}

\* propose: the longest order that is found decides.
HistoryProposal ==
  IF Found = {} THEN <<>>
  ELSE LET n    == Max(Found)
           from == latest[KeyOf(Slice(history, Len(history) - n, n))] + n
       IN  Slice(history, from, Min({MaxDraft, Len(history) - from}))

-----------------------------------------------------------------------------
(* ContextCopyCache.                                                       *)

Prompt == Slice(history, 0, promptSize)

\* continuations_: the positions of the prompt that follow an n-gram of a key.
Continuations(k) ==
  {p \in MinCopy..(promptSize - 1) : KeyOf(Slice(Prompt, p - MinCopy, MinCopy)) = k}

\* The last of them, which are all that is looked at.
Recent(k) ==
  {p \in Continuations(k) :
     Cardinality({q \in Continuations(k) : q > p}) < Candidates}

\* Candidates are tried from the latest to the earliest, and only a longer
\* extension replaces one: the longest, and of those the latest.
Best(extension) ==
  {p \in DOMAIN extension : \A q \in DOMAIN extension :
     \/ extension[p] > extension[q]
     \/ extension[p] = extension[q] /\ p >= q}

Copied(best) ==
  IF best = {} THEN <<>>
  ELSE LET p == CHOOSE p \in best : TRUE
       IN  Slice(Prompt, p, Min({MaxDraft, promptSize - p}))

\* propose, on a whole history: exact matches, each extended to the left.
ProposeCopy(h) ==
  LET n      == Len(h)
      exact  == IF n < MinCopy THEN {} ELSE
                {p \in Recent(KeyOf(Slice(h, n - MinCopy, MinCopy))) :
                   Slice(Prompt, p - MinCopy, MinCopy) = Slice(h, n - MinCopy, MinCopy)}
      extends(p, e) ==
        \A i \in 0..(e - 1) :
          /\ p > MinCopy + i /\ n > MinCopy + i
          /\ Prompt[p - MinCopy - i] = h[n - MinCopy - i]
  IN  Copied(Best([p \in exact |->
               Max({e \in 0..(MaxCopy - MinCopy) : extends(p, e)})]))

\* history_token: the prompt, then the completion.
HistoryToken(completion, i) ==
  IF i < promptSize THEN Prompt[i + 1] ELSE completion[i - promptSize + 1]

\* propose_completion: the same search without joining the two.
ProposeCompletion(completion) ==
  LET n      == promptSize + Len(completion)
      suffix == [i \in 1..MinCopy |-> HistoryToken(completion, n - MinCopy + i - 1)]
      exact  == IF n < MinCopy THEN {} ELSE
                {p \in Recent(KeyOf(suffix)) :
                   \A i \in 0..(MinCopy - 1) :
                     Prompt[p - MinCopy + i + 1] = HistoryToken(completion, n - MinCopy + i)}
      extends(p, e) ==
        \A i \in 0..(e - 1) :
          /\ p > MinCopy + i /\ n > MinCopy + i
          /\ Prompt[p - MinCopy - i] = HistoryToken(completion, n - MinCopy - i - 1)
  IN  Copied(Best([p \in exact |->
               Max({e \in 0..(MaxCopy - MinCopy) : extends(p, e)})]))

Completion == SubSeq(history, promptSize + 1, Len(history))

-----------------------------------------------------------------------------

CacheInit == history = <<>> /\ promptSize = 0 /\ latest = <<>>

\* append, for a token of the prompt or of the completion.
AppendToken(token, prompt) ==
  /\ Len(history) < MaxTokens
  /\ prompt => promptSize = Len(history)
  /\ history' = Append(history, token)
  /\ promptSize' = promptSize + IF prompt THEN 1 ELSE 0
  /\ latest' = Latest(history')

CacheNext ==
  \E token \in Vocabulary, prompt \in BOOLEAN : AppendToken(token, prompt)

-----------------------------------------------------------------------------
(* Properties.                                                             *)

\* What follows an earlier occurrence of the last n tokens.
Follows(text, n, draft) ==
  \E p \in n..(Len(text) - 1) :
    /\ Len(history) >= n
    /\ Slice(text, p - n, n) = Slice(history, Len(history) - n, n)
    /\ IsPrefix(draft, Slice(text, p, Len(text) - p))

\* A proposal is never empty words from a colliding hash: it continues an
\* earlier occurrence of the very tokens that end the history, in the
\* history itself or in the prompt.
DraftsFollow ==
  /\ HistoryProposal # <<>> => Follows(history, MinOrder, HistoryProposal)
  /\ ProposeCopy(history) # <<>> =>
       Follows(Prompt, MinCopy, ProposeCopy(history))

\* Without a collision nothing is missed: the suffix of the longest order
\* that occurred before is continued from its latest occurrence.
Collision(orders) ==
  LET grams == UNION {{Slice(history, s, n) : s \in 0..(Len(history) - n)} :
                        n \in {n \in orders : n <= Len(history)}}
  IN  \E x, y \in grams : x # y /\ KeyOf(x) = KeyOf(y)
Occurs(n) ==
  {p \in n..(Len(history) - 1) :
     Slice(history, p - n, n) = Slice(history, Len(history) - n, n)}
DraftsLongest ==
  LET orders == {n \in MinOrder..MaxOrder : Len(history) >= n /\ Occurs(n) # {}}
  IN  ~Collision(MinOrder..MaxOrder) =>
        HistoryProposal =
          IF orders = {} THEN <<>>
          ELSE LET p == Max(Occurs(Max(orders)))
               IN  Slice(history, p, Min({MaxDraft, Len(history) - p}))

\* The search for a completion finds exactly what the search in the joined
\* history finds, collisions, ties and the limit of candidates included;
\* and of the candidates within the limit the longest, latest one wins.
CompletionAgrees ==
  LET wins(p, q) == \* p extends to the left at least as far as q
        \A e \in 0..(MaxCopy - MinCopy) :
          (q >= MinCopy + e /\ Len(history) >= MinCopy + e
             /\ Slice(Prompt, q - MinCopy - e, MinCopy + e)
                  = Slice(history, Len(history) - MinCopy - e, MinCopy + e))
          => (p >= MinCopy + e
                /\ Slice(Prompt, p - MinCopy - e, MinCopy + e)
                     = Slice(history, Len(history) - MinCopy - e, MinCopy + e))
      last == {p \in MinCopy..(promptSize - 1) :
                 Slice(Prompt, p - MinCopy, MinCopy)
                   = Slice(history, Len(history) - MinCopy, MinCopy)}
  IN  /\ ProposeCompletion(Completion) = ProposeCopy(history)
      /\ (/\ ~Collision({MinCopy}) /\ Len(history) >= MinCopy
          /\ last # {} /\ Cardinality(last) <= Candidates) =>
           \E p \in last : /\ \A q \in last : wins(p, q) /\ (wins(q, p) => q <= p)
                           /\ ProposeCopy(history) =
                                Slice(Prompt, p, Min({MaxDraft, promptSize - p}))

\* Copied drafts continue what they claim to continue, the best occurrence of
\* it, in both forms of the search (history_draft.cpp).
DraftsContinue == DraftsFollow /\ DraftsLongest /\ CompletionAgrees

=============================================================================
