--------------------------- MODULE PrefixCacheStore ---------------------------
(***************************************************************************)
(* PrefixCacheStore (src/prefix_cache_store.cpp): prefix states on disk as *)
(* pairs <key>.tokens / <key>.safetensors in one directory.                *)
(*                                                                         *)
(* The file system is the state that survives.  Every write, rename and    *)
(* removal is a step of its own, the process may be killed between any two *)
(* of them and start again over what it left behind, and writes and        *)
(* renames may throw.  Power loss is not modelled: the header says that a  *)
(* save is no fsync guarantee.  Listing the directory and touching a file  *)
(* always succeed here; in the code they may throw too, after a save's     *)
(* renames or before a lookup's answer, and change no file then.           *)
(***************************************************************************)
EXTENDS Naturals, Sequences, FiniteSets, FiniteSetsExt, Functions, Filters

CONSTANTS
  Prompts,         \* the non-empty token sequences that are saved
  Queries,         \* the prompts that are looked up
  Key(_),          \* cache_key: FNV-1a of the tokens, and their number
  TokenBytes(_),   \* bytes of a .tokens file
  StateBytes(_),   \* bytes of a .safetensors file
  MaxBytes,        \* max_bytes_
  MaxSaves,        \* bound: saves of one process
  MaxCrashes,      \* bound: times the process is killed
  WritesFail,      \* may a write or a rename throw?
  RemovesFail      \* may a removal fail, its error ignored?

ASSUME PrefixCacheAssumption ==
  /\ \A p \in Prompts : p # <<>> /\ TokenBytes(p) \in Nat /\ StateBytes(p) \in Nat
  /\ \A p, q \in Prompts : Key(p) = Key(q) => Len(p) = Len(q)
  /\ {MaxBytes, MaxSaves, MaxCrashes} \subseteq Nat
  /\ {WritesFail, RemovesFail} \subseteq BOOLEAN

Keys == {Key(p) : p \in Prompts}
Absent == <<>>

VARIABLES
  tokenFile,   \* the contents of <key>.tokens
  stateFile,   \* the prefix whose state <key>.safetensors holds
  order,       \* the keys of the .tokens files, oldest last_write_time first
  temps,       \* the .tmp- files
  counter,     \* temporary_counter of this process
  pc,          \* where the current operation is
  saving,      \* the prefix being saved
  victims,     \* entries of evict_to_limit not yet visited, oldest first
  total,       \* its running total
  answer,      \* what the last operation returned
  crashes,     \* how often the process was killed
  stuck        \* history: a removal has failed

files == <<tokenFile, stateFile, order, temps>>
eviction == <<victims, total>>
vars == <<files, counter, pc, saving, eviction, answer,
                 crashes, stuck>>

Nothing  == [op |-> "none"]
Saving   == [op |-> "saving"]
Clearing == [op |-> "clearing"]

Pcs == {"idle", "writing state", "writing tokens", "renaming state",
        "renaming tokens", "scanning", "evicting", "removing state",
        "clearing"}

\* A temporary file is found again only by the name it was created under.
Temp(part, p) == [part |-> part, key |-> Key(p), n |-> counter, tokens |-> p]
Create(f) ==
  {t \in temps : t.part # f.part \/ t.key # f.key \/ t.n # f.n} \cup {f}

Complete == {k \in Keys : tokenFile[k] # Absent /\ stateFile[k] # Absent}

\* The complete pairs, oldest first.
EntryKeys == Only(order, Complete)

\* remove() fails, its error ignored; bound: once.
RemovalFails == RemovesFail /\ ~stuck

PairBytes(p) == TokenBytes(p) + StateBytes(p)

EntryBytes(k) == TokenBytes(tokenFile[k]) + StateBytes(stateFile[k])

-----------------------------------------------------------------------------
(* load_longest.                                                           *)

\* Mutation: only the length of a candidate is compared with the prompt.
MatchesLength(q) == {k \in Complete : Len(tokenFile[k]) <= Len(q)}

\* The pairs whose tokens are a prefix of the prompt.
Matches(q) ==
  {k \in Complete : /\ Len(tokenFile[k]) <= Len(q)
                    /\ SubSeq(q, 1, Len(tokenFile[k])) = tokenFile[k]}

Longest(S) ==
  {k \in S : \A o \in S : Len(tokenFile[o]) <= Len(tokenFile[k])}

\* Mutation: a hit is not touched.
TouchNot(k) == UNCHANGED order

\* last_write_time(now) on both files.
Touch(k) == order' = Append(Without(order, k), k)

\* The state may turn out unreadable or of another length: nothing is
\* returned then, even if a shorter prefix is stored.
LoadLongest(q) ==
  /\ pc = "idle"
  /\ \/ \E k \in Longest(Matches(q)) :
          /\ Len(stateFile[k]) = Len(tokenFile[k])
          /\ answer' = [op |-> "load", query |-> q, tokens |-> tokenFile[k],
                        state |-> stateFile[k]]
          /\ Touch(k)
     \/ /\ Matches(q) = {} \/ WritesFail
        /\ answer' = [op |-> "load", query |-> q, tokens |-> Absent,
                      state |-> Absent]
        /\ UNCHANGED order
  /\ UNCHANGED <<tokenFile, stateFile, temps, counter, pc, saving, eviction,
                 crashes, stuck>>

-----------------------------------------------------------------------------
(* save.                                                                   *)

BeginSave(p) ==
  /\ pc = "idle"
  /\ counter < MaxSaves
  /\ counter' = counter + 1
  /\ saving' = p
  /\ answer' = Saving
  /\ pc' = "writing state"
  /\ UNCHANGED <<files, eviction, crashes, stuck>>

\* A killed or failed write leaves a partial file of the same name: temps
\* does not tell them apart.
WriteState ==
  /\ pc = "writing state"
  /\ temps' = Create(Temp("state", saving))
  /\ pc' = "writing tokens"
  /\ UNCHANGED <<tokenFile, stateFile, order, counter, saving, eviction, answer,
                 crashes, stuck>>

WriteTokens ==
  /\ pc = "writing tokens"
  /\ temps' = Create(Temp("tokens", saving))
  /\ pc' = "renaming state"
  /\ UNCHANGED <<tokenFile, stateFile, order, counter, saving, eviction, answer,
                 crashes, stuck>>

RenameState ==
  /\ pc = "renaming state"
  /\ stateFile' = [stateFile EXCEPT ![Key(saving)] = saving]
  /\ temps' = temps \ {Temp("state", saving)}
  /\ pc' = "renaming tokens"
  /\ UNCHANGED <<tokenFile, order, counter, saving, eviction, answer,
                 crashes, stuck>>

RenameTokens ==
  /\ pc = "renaming tokens"
  /\ tokenFile' = [tokenFile EXCEPT ![Key(saving)] = saving]
  /\ temps' = temps \ {Temp("tokens", saving)}
  /\ order' = Append(Without(order, Key(saving)), Key(saving))
  /\ pc' = "scanning"
  /\ UNCHANGED <<stateFile, counter, saving, eviction, answer,
                 crashes, stuck>>

\* Mutation: the handler removes the destination files.
SaveThrowsAway ==
  /\ WritesFail
  /\ pc \in {"writing state", "writing tokens", "renaming state",
             "renaming tokens"}
  /\ stateFile' = [stateFile EXCEPT ![Key(saving)] = Absent]
  /\ temps' = temps \ {Temp("state", saving), Temp("tokens", saving)}
  /\ pc' = "idle"
  /\ answer' = Nothing
  /\ UNCHANGED <<tokenFile, order, counter, saving, eviction,
                 crashes, stuck>>

\* A write or rename throws: the handler removes both temporaries and
\* rethrows.  A state file that was already renamed stays.
SaveThrows ==
  /\ WritesFail
  /\ pc \in {"writing state", "writing tokens", "renaming state",
             "renaming tokens"}
  /\ \/ /\ temps' = temps \ {Temp("state", saving), Temp("tokens", saving)}
        /\ UNCHANGED stuck
     \/ /\ RemovalFails
        /\ UNCHANGED temps
        /\ stuck' = TRUE
  /\ pc' = "idle"
  /\ answer' = Nothing
  /\ UNCHANGED <<tokenFile, stateFile, order, counter, saving, eviction,
                 crashes>>

\* evict_to_limit lists the complete pairs, oldest first, with their sum.
Scan ==
  /\ pc = "scanning"
  /\ victims' = EntryKeys
  /\ total' = MapThenSumSet(EntryBytes, Complete)
  /\ pc' = "evicting"
  /\ UNCHANGED <<files, counter, saving, answer,
                 crashes, stuck>>

\* The entry the loop visits next.
Victim == Head(victims)

\* The tokens go first, so that a kill in between leaves no pair.
EvictTokens ==
  /\ pc = "evicting"
  /\ victims # <<>> /\ total > MaxBytes
  /\ \/ /\ tokenFile' = [tokenFile EXCEPT ![Victim] = Absent]
        /\ order' = Without(order, Victim)
        /\ UNCHANGED stuck
     \/ /\ RemovalFails
        /\ UNCHANGED <<tokenFile, order>>
        /\ stuck' = TRUE
  /\ total' = total - EntryBytes(Victim)
  /\ pc' = "removing state"
  /\ UNCHANGED <<stateFile, temps, counter, saving, victims, answer, crashes>>

EvictState ==
  /\ pc = "removing state"
  /\ \/ /\ stateFile' = [stateFile EXCEPT ![Victim] = Absent]
        /\ UNCHANGED stuck
     \/ /\ RemovalFails
        /\ UNCHANGED stateFile
        /\ stuck' = TRUE
  /\ victims' = Without(victims, Victim)
  /\ pc' = "evicting"
  /\ UNCHANGED <<tokenFile, order, temps, counter, saving, total, answer,
                 crashes>>

\* The loop's exit test.
WithinLimit == total <= MaxBytes

\* save returns whether both files are there.
EndSave ==
  /\ pc = "evicting"
  /\ victims = <<>> \/ WithinLimit
  /\ answer' = [op |-> "save", tokens |-> saving,
                kept |-> Key(saving) \in Complete]
  /\ pc' = "idle"
  /\ victims' = <<>>
  /\ total' = 0
  /\ UNCHANGED <<files, counter, saving, crashes, stuck>>

-----------------------------------------------------------------------------
(* clear, and the death of the process.                                    *)

BeginClear ==
  /\ pc = "idle"
  /\ answer' = Clearing
  /\ pc' = "clearing"
  /\ UNCHANGED <<files, counter, saving, eviction, crashes, stuck>>

\* The directory is visited in no particular order.
ClearFile ==
  /\ pc = "clearing"
  /\ \/ \E k \in Keys :
          /\ tokenFile[k] # Absent
          /\ tokenFile' = [tokenFile EXCEPT ![k] = Absent]
          /\ order' = Without(order, k)
          /\ UNCHANGED <<stateFile, temps>>
     \/ \E k \in Keys :
          /\ stateFile[k] # Absent
          /\ stateFile' = [stateFile EXCEPT ![k] = Absent]
          /\ UNCHANGED <<tokenFile, order, temps>>
     \/ \E t \in temps :
          /\ temps' = temps \ {t}
          /\ UNCHANGED <<tokenFile, stateFile, order>>
  /\ UNCHANGED <<counter, pc, saving, eviction, answer,
                 crashes, stuck>>

NoFiles ==
  /\ temps = {}
  /\ \A k \in Keys : tokenFile[k] = Absent /\ stateFile[k] = Absent

EndClear ==
  /\ pc = "clearing"
  /\ NoFiles \/ RemovalFails
  /\ stuck' = (stuck \/ ~NoFiles)
  /\ pc' = "idle"
  /\ answer' = Nothing
  /\ UNCHANGED <<files, counter, saving, eviction, crashes>>

\* The process is killed; the next one starts over the same directory with a
\* fresh temporary_counter.
Crash ==
  /\ crashes < MaxCrashes
  /\ crashes' = crashes + 1
  /\ counter' = 0
  /\ pc' = "idle"
  /\ answer' = Nothing
  /\ victims' = <<>>
  /\ total' = 0
  /\ UNCHANGED <<files, saving, stuck>>

Init ==
  /\ tokenFile = [k \in Keys |-> Absent]
  /\ stateFile = [k \in Keys |-> Absent]
  /\ order = <<>>
  /\ temps = {}
  /\ counter = 0
  /\ pc = "idle"
  /\ saving = Absent
  /\ victims = <<>>
  /\ total = 0
  /\ answer = Nothing
  /\ crashes = 0
  /\ stuck = FALSE

Next ==
  \/ \E q \in Queries : LoadLongest(q)
  \/ \E p \in Prompts : BeginSave(p)
  \/ WriteState \/ WriteTokens \/ RenameState \/ RenameTokens \/ SaveThrows
  \/ Scan \/ EvictTokens \/ EvictState \/ EndSave
  \/ BeginClear \/ ClearFile \/ EndClear
  \/ Crash

Spec == Init /\ [][Next]_vars

-----------------------------------------------------------------------------
(* Properties.                                                             *)

TypeOK ==
  /\ tokenFile \in [Keys -> Prompts \cup {Absent}]
  /\ stateFile \in [Keys -> Prompts \cup {Absent}]
  /\ order \in Seq(Keys) /\ IsInjective(order)
  /\ \A t \in temps : t.part \in {"tokens", "state"} /\ t.tokens \in Prompts
  /\ counter \in 0..MaxSaves
  /\ pc \in Pcs
  /\ saving \in Prompts \cup {Absent}
  /\ victims \in Seq(Keys)
  /\ total \in Nat
  /\ crashes \in 0..MaxCrashes
  /\ stuck \in BOOLEAN

\* The state that load_longest returns is the state of exactly the tokens it
\* returns, and those are a prefix of the prompt, whatever was interrupted
\* before: otherwise the engine would continue from another conversation.
LoadedStateBelongs ==
  answer.op = "load" /\ answer.tokens # Absent =>
    /\ answer.state = answer.tokens
    /\ Len(answer.tokens) <= Len(answer.query)
    /\ SubSeq(answer.query, 1, Len(answer.tokens)) = answer.tokens

\* A killed or failed save or eviction never costs an entry that was
\* complete before: only the limit and clear remove entries.
InterruptionLosesNothing ==
  [][\/ pc \in {"evicting", "removing state", "clearing"} /\ pc' # "idle"
     \/ Complete \subseteq Complete']_vars

\* However far a failing save got, its handler leaves no temporary behind;
\* only a killed process does.
FailedSaveCleansUp ==
  pc = "idle" /\ crashes = 0 /\ ~stuck => temps = {}

\* What save answers, with removals that work: false exactly when the entry
\* alone is over the limit, however old its key was and whatever else is
\* stored; and after any answer the pairs are within the limit.
SaveAnswersTheLimit ==
  answer.op = "save" /\ pc = "idle" /\ ~stuck =>
    /\ answer.kept <=> PairBytes(answer.tokens) <= MaxBytes
    /\ MapThenSumSet(EntryBytes, Complete) <= MaxBytes

\* The prefixes of the complete pairs, oldest first, and an answer without the
\* state it carries: what the abstract list shows.
Prefixes == [i \in DOMAIN EntryKeys |-> tokenFile[EntryKeys[i]]]
Reply ==
  IF answer.op = "load"
  THEN [op |-> "load", query |-> answer.query, tokens |-> answer.tokens]
  ELSE answer

Lru == INSTANCE PrefixStore WITH
  PairBytes <- PairBytes, entries <- Prefixes, answer <- Reply

\* The store implements the abstract LRU list of prefixes, through crashes
\* and failing writes.
LruSpec == Lru!Spec

\* Every byte under the directory, as du would count it.
DiskBytes ==
  LET size(part, p) == IF p = Absent THEN 0
                       ELSE IF part = "tokens" THEN TokenBytes(p)
                       ELSE StateBytes(p)
  IN  MapThenSumSet(LAMBDA k : size("tokens", tokenFile[k])
                                 + size("state", stateFile[k]), Keys)
        + MapThenSumSet(LAMBDA t : size(t.part, t.tokens), temps)

\* docs/operations.md:122, "The SSD cache is namespaced by model/runtime
\* compatibility and bounded LRU": whenever a save has answered, the
\* directory is within the limit.
DirectoryBounded == answer.op = "save" => DiskBytes <= MaxBytes

\* What load_longest and save answer is true of the directory, and a save
\* that fails without a kill leaves nothing there.
StoreTruthful ==
  TypeOK /\ LoadedStateBelongs /\ FailedSaveCleansUp /\ SaveAnswersTheLimit

=============================================================================
