----------------------------- MODULE ExpertCache -----------------------------
(***************************************************************************)
(* ExpertCache (include/qwen38/expert_cache.hpp): a byte-bounded cache of  *)
(* expert weights with frequency-first, then recency eviction, leases that *)
(* pin an entry, and a history of the frequencies of evicted entries.      *)
(*                                                                         *)
(* One inference thread uses it.  Two things still come in between: the    *)
(* loader runs while the cache waits for it and may call back, and leases  *)
(* end when GPU work completes, so every eviction is a step of its own.    *)
(***************************************************************************)
EXTENDS Naturals, FiniteSets, FiniteSetsExt

CONSTANTS
  Keys,
  Bytes,          \* bytes of the value of each key
  Budgets,        \* the budgets that set_budget is given; the first is any
  DecayPeriod,    \* decay_period_
  HistoryLimit,   \* history_limit_
  MaxFrequency,   \* numeric limit of a frequency
  MaxTick,        \* numeric limit of tick_ (2^64 - 1 in the code)
  MaxLeases       \* bound: leases of one entry

ASSUME ExpertCacheAssumption ==
  /\ Bytes \in [Keys -> Nat \ {0}]
  /\ Budgets \subseteq Nat
  /\ DecayPeriod \in Nat \ {0}
  /\ HistoryLimit \in Nat
  /\ {MaxFrequency, MaxTick, MaxLeases} \subseteq Nat \ {0}

VARIABLES
  budget,      \* budget_bytes_
  entries,     \* entries_: frequency and last_touch of the resident keys
  history,     \* history_: the same of evicted keys
  leases,      \* handles held outside the cache, per key
  operations,  \* operations_ modulo the decay period
  tick,        \* tick_
  resident,    \* resident_bytes_
  pending,     \* pending_bytes_
  pc,          \* what the inference thread is doing
  wanted,      \* the key being acquired
  answer       \* what the last call returned or threw

vars == <<budget, entries, history, leases, operations, tick, resident,
          pending, pc, wanted, answer>>

Resident == DOMAIN entries

\* Keys whose only reference is the cache's own: use_count() == 1.
Idle == {k \in Resident : leases[k] = 0}

Usage == [frequency : 1..MaxFrequency, last_touch : 0..MaxTick]

Forgetting(f, k) == [j \in DOMAIN f \ {k} |-> f[j]]
With(f, k, v) == [j \in DOMAIN f \cup {k} |-> IF j = k THEN v ELSE f[j]]

-----------------------------------------------------------------------------
(* Counters.                                                               *)

\* Every frequency is halved, rounded up, and stays at least 1.
Decayed(f) ==
  [k \in DOMAIN f |-> [f[k] EXCEPT !.frequency = (@ \div 2) + (@ % 2)]]

Halved(f) == [k \in DOMAIN f |-> [f[k] EXCEPT !.last_touch = @ \div 2]]

\* next_tick: at its limit the clock and all ages are halved.
Wraps == tick = MaxTick
NextTick == IF Wraps THEN (tick \div 2) + 1 ELSE tick + 1
Aged(f) == IF Wraps THEN Halved(f) ELSE f

Bumped(n) == IF n = MaxFrequency THEN n ELSE n + 1

-----------------------------------------------------------------------------
(* Eviction.                                                               *)

\* Mutation: leases are not looked at.
CandidatesAll == Resident

\* Only entries that nobody leases may go.
Candidates == Idle

\* The least frequent, then the least recently touched.
Victims ==
  {k \in Candidates : \A j \in Candidates :
     \/ entries[k].frequency < entries[j].frequency
     \/ /\ entries[k].frequency = entries[j].frequency
        /\ entries[k].last_touch <= entries[j].last_touch}

\* The history with room for one more: at its limit the oldest one goes.
RoomInHistory ==
  IF Cardinality(DOMAIN history) < HistoryLimit THEN {history}
  ELSE {Forgetting(history, k) : k \in
          {k \in DOMAIN history : \A j \in DOMAIN history :
             history[k].last_touch <= history[j].last_touch}}

EvictOne ==
  \E k \in Victims :
    /\ IF HistoryLimit = 0 THEN UNCHANGED history
       ELSE \E h \in RoomInHistory : history' = With(h, k, entries[k])
    /\ entries' = Forgetting(entries, k)
    /\ resident' = resident - Bytes[k]

-----------------------------------------------------------------------------
(* acquire.                                                                *)

\* begin_operation, then a hit or a miss.  A byte size that differs from the
\* resident one, or a miss without a loader, is refused after the operation
\* has been counted.
Acquire(k, valid) ==
  /\ pc = "idle"
  /\ operations' = (operations + 1) % DecayPeriod
  /\ LET decay(f) == IF operations' = 0 THEN Decayed(f) ELSE f
     IN  \/ /\ k \in Resident /\ valid
            /\ leases[k] < MaxLeases
            /\ entries' = [Aged(decay(entries)) EXCEPT
                             ![k].frequency = Bumped(@),
                             ![k].last_touch = NextTick]
            /\ history' = Aged(decay(history))
            /\ tick' = NextTick
            /\ leases' = [leases EXCEPT ![k] = @ + 1]
            /\ answer' = "hit"
            /\ UNCHANGED <<pc, wanted>>
         \/ /\ ~valid
            /\ entries' = decay(entries)
            /\ history' = decay(history)
            /\ answer' = "refused"
            /\ UNCHANGED <<pc, wanted, tick, leases>>
         \/ /\ k \notin Resident /\ valid
            /\ entries' = decay(entries)
            /\ history' = decay(history)
            /\ answer' = "none"
            /\ wanted' = k
            /\ pc' = "making room"
            /\ UNCHANGED <<tick, leases>>
  /\ UNCHANGED <<budget, resident, pending>>

\* Mutation: what is resident is not added to what is wanted.
FitsAlone == Bytes[wanted] <= budget

Fits == resident + Bytes[wanted] <= budget

\* make_room: too large for the budget, or nothing left to evict.
Refuse ==
  /\ pc = "making room"
  /\ \/ Bytes[wanted] > budget
     \/ ~Fits /\ Victims = {}
  /\ answer' = "refused"
  /\ pc' = "idle"
  /\ UNCHANGED <<budget, entries, history, leases, operations, tick, resident,
                 pending, wanted>>

MakeRoom ==
  /\ pc = "making room"
  /\ Bytes[wanted] <= budget
  /\ ~Fits
  /\ EvictOne
  /\ UNCHANGED <<budget, leases, operations, tick, pending, pc, wanted, answer>>

StartLoad ==
  /\ pc = "making room"
  /\ Fits
  /\ pending' = pending + Bytes[wanted]
  /\ pc' = "loading"
  /\ UNCHANGED <<budget, entries, history, leases, operations, tick, resident,
                 wanted, answer>>

\* The loader calls back: acquire, set_budget, trim and clear all throw.
Reenter ==
  /\ pc = "loading"
  /\ answer' = "refused"
  /\ UNCHANGED <<budget, entries, history, leases, operations, tick, resident,
                 pending, pc, wanted>>

\* The loaded value is inserted with the frequency its history remembers.
Loaded ==
  /\ pc = "loading"
  /\ LET past == IF wanted \in DOMAIN history
                 THEN Bumped(history[wanted].frequency) ELSE 1
     IN  entries' = With(Aged(entries), wanted,
                         [frequency |-> past, last_touch |-> NextTick])
  /\ history' = Forgetting(Aged(history), wanted)
  /\ tick' = NextTick
  /\ leases' = [leases EXCEPT ![wanted] = 1]
  /\ pending' = pending - Bytes[wanted]
  /\ resident' = resident + Bytes[wanted]
  /\ answer' = "miss"
  /\ pc' = "idle"
  /\ UNCHANGED <<budget, operations, wanted>>

\* Mutation: the reservation is not given back.
LoadFailsHolding ==
  /\ pc = "loading"
  /\ answer' = "failed"
  /\ pc' = "idle"
  /\ UNCHANGED <<budget, entries, history, leases, operations, tick, resident,
                 pending, wanted>>

\* The loader throws or returns null.
LoadFails ==
  /\ pc = "loading"
  /\ pending' = pending - Bytes[wanted]
  /\ answer' = "failed"
  /\ pc' = "idle"
  /\ UNCHANGED <<budget, entries, history, leases, operations, tick, resident,
                 wanted>>

-----------------------------------------------------------------------------
(* set_budget, trim, clear, and the end of leases.                         *)

SetBudget(bytes) ==
  /\ pc = "idle"
  /\ budget' = bytes
  /\ answer' = "none"
  /\ pc' = "trimming"
  /\ UNCHANGED <<entries, history, leases, operations, tick, resident, pending,
                 wanted>>

Trim ==
  /\ pc = "trimming"
  /\ \/ /\ resident > budget /\ Victims # {}
        /\ EvictOne
        /\ UNCHANGED <<pc, answer>>
     \/ /\ resident > budget /\ Victims = {}
        /\ answer' = "false" /\ pc' = "idle"
        /\ UNCHANGED <<entries, history, resident>>
     \/ /\ resident <= budget
        /\ answer' = "true" /\ pc' = "idle"
        /\ UNCHANGED <<entries, history, resident>>
  /\ UNCHANGED <<budget, leases, operations, tick, pending, wanted>>

BeginClear ==
  /\ pc = "idle"
  /\ pc' = "clearing"
  /\ answer' = "none"
  /\ UNCHANGED <<budget, entries, history, leases, operations, tick, resident,
                 pending, wanted>>

Clear ==
  /\ pc = "clearing"
  /\ \/ /\ EvictOne
        /\ UNCHANGED pc
     \/ /\ Victims = {}
        /\ history' = <<>>
        /\ pc' = "idle"
        /\ UNCHANGED <<entries, resident>>
  /\ UNCHANGED <<budget, leases, operations, tick, pending, wanted, answer>>

\* A caller drops its handle.
Release(k) ==
  /\ leases[k] > 0
  /\ leases' = [leases EXCEPT ![k] = @ - 1]
  /\ UNCHANGED <<budget, entries, history, operations, tick, resident, pending,
                 pc, wanted, answer>>

Init ==
  /\ budget \in Budgets
  /\ entries = <<>>
  /\ history = <<>>
  /\ leases = [k \in Keys |-> 0]
  /\ operations = 0
  /\ tick = 0
  /\ resident = 0
  /\ pending = 0
  /\ pc = "idle"
  /\ wanted \in Keys
  /\ answer = "none"

Next ==
  \/ \E k \in Keys, valid \in BOOLEAN : Acquire(k, valid)
  \/ Refuse \/ MakeRoom \/ StartLoad \/ Reenter \/ Loaded \/ LoadFails
  \/ \E bytes \in Budgets : SetBudget(bytes)
  \/ Trim \/ BeginClear \/ Clear
  \/ \E k \in Keys : Release(k)

Spec == Init /\ [][Next]_vars

-----------------------------------------------------------------------------
(* Properties.                                                             *)

TypeOK ==
  /\ budget \in Budgets
  /\ Resident \subseteq Keys /\ DOMAIN history \subseteq Keys
  /\ \A k \in Resident : entries[k] \in Usage
  /\ \A k \in DOMAIN history : history[k] \in Usage
  /\ leases \in [Keys -> 0..MaxLeases]
  /\ operations \in 0..(DecayPeriod - 1)
  /\ tick \in 0..MaxTick

\* The byte counters are what is really held: resident the sum of the
\* entries, pending the entry being loaded, whatever failed or was refused.
BytesAccounted ==
  /\ resident = MapThenSumSet(LAMBDA k : Bytes[k], Resident)
  /\ pending = IF pc = "loading" THEN Bytes[wanted] ELSE 0

\* An entry is in the cache or in the history, never in both, and the
\* history is bounded, so that it cannot grow with every expert ever seen.
HistoryBounded ==
  /\ DOMAIN history \cap Resident = {}
  /\ Cardinality(DOMAIN history) <= HistoryLimit

\* A value that a caller still leases is never evicted: GPU work may be
\* reading it.
LeasedStay ==
  \A k \in Resident : leases[k] > 0 => k \in DOMAIN entries'

\* A load never takes the cache over its budget, although a lowered budget
\* with leased entries may leave it there.
LoadsWithinBudget ==
  resident' > resident => resident' <= budget

\* The entry touched last is the newest of all, also across the halving of
\* the clock: otherwise a fresh entry would be evicted before older ones.
LastTouchedIsNewest ==
  tick' # tick =>
    \E k \in DOMAIN entries' : \A j \in DOMAIN entries' \ {k} :
      entries'[j].last_touch < entries'[k].last_touch

\* Only leases stand in the way of a request: acquire starts loading if and
\* only if the leased bytes and the wanted ones fit, and trim succeeds if and
\* only if the leased bytes fit, however many evictions that takes and
\* whichever leases end between them.
OnlyLeasesRefuse ==
  LET leased == MapThenSumSet(LAMBDA k : Bytes[k],
                              {k \in Keys : leases[k] > 0})
  IN  /\ pc = "making room" /\ pc' # pc =>
           (pc' = "loading" <=> leased + Bytes[wanted] <= budget)
      /\ pc = "trimming" /\ pc' # pc =>
           (answer' = "true" <=> leased <= budget)

\* The accounts of the cache are true after every success, failure and
\* eviction (ExpertCache::acquire, evict_one).
AccountsTrue == TypeOK /\ BytesAccounted /\ HistoryBounded

\* Leases, and nothing else, decide what stays: they pin, they alone refuse,
\* and room is made within the budget from the oldest entries on.
LeasesDecide ==
  [][LeasedStay /\ LoadsWithinBudget /\ OnlyLeasesRefuse /\ LastTouchedIsNewest]_vars

=============================================================================
