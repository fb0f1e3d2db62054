----------------------------- MODULE DraftPolicy -----------------------------
(***************************************************************************)
(* The policies that steer speculation during one request: how deep the    *)
(* learned head drafts (MtpDepthPolicy), whether it still pays for itself  *)
(* (MtpProfitabilityGuard), whether drafts are taken from the token        *)
(* history instead (HistoryDraftPolicy), and when long drafts are copied   *)
(* from the prompt.  The generation loop tells each of them what its       *)
(* rounds proposed and what the target accepted.                           *)
(*                                                                         *)
(* `rounds' remembers every round, so that what the policies keep in       *)
(* counters and in a ring can be compared with what really happened.       *)
(***************************************************************************)
EXTENDS Naturals, Sequences, FiniteSets, FiniteSetsExt, Filters

CONSTANTS
  ProbeRounds, ProbeThreshold,   \* 8 and 10 in the code
  MonitorRounds,                 \* 12
  FourProbation, FourMonitor,    \* 4 and 8
  PromotionProbation,            \* 4
  Window,                        \* window_size, 16
  LearnedProbe, HistoryProbe,    \* 8 and 2
  FallbackRounds,                \* zero_accept_fallback_rounds
  NarrowCopy,                    \* 4, the longest copy before two perfect rounds
  CopyBackoff, MaxBackoff,       \* 64 and 4096 tokens
  MaxRounds,                     \* bound: rounds of the request
  AcceptCounts, HistorySizes, CopySizes,  \* bound: outcomes and sizes of rounds
  Settings                       \* the option and environment records

ASSUME DraftPolicyAssumption ==
  /\ {ProbeRounds, MonitorRounds, FourMonitor, PromotionProbation, Window,
      LearnedProbe, HistoryProbe, FallbackRounds, NarrowCopy,
      CopyBackoff, MaxBackoff} \subseteq Nat \ {0}
  /\ ProbeThreshold \in Nat /\ MaxRounds \in Nat
  /\ FourProbation \in 1..FourMonitor
  /\ CopyBackoff <= MaxBackoff
  /\ AcceptCounts \cup HistorySizes \cup CopySizes \subseteq Nat
  /\ Settings \subseteq
       [maximum : 2..4, adaptive : BOOLEAN, short : BOOLEAN, early : BOOLEAN,
        demotion : BOOLEAN, mode : {"adaptive", "forced", "disabled"},
        economic : BOOLEAN, copy : Nat]

VARIABLES
  setting,      \* the options of this request
  depthPolicy,  \* MtpDepthPolicy
  guard,        \* MtpProfitabilityGuard
  historyDraft, \* HistoryDraftPolicy
  copyPolicy,   \* the context_copy_ locals of the loop
  profitable,   \* mtp_profitable
  rounds        \* every round so far

policyVars ==
  <<setting, depthPolicy, guard, historyDraft, copyPolicy, profitable, rounds>>

-----------------------------------------------------------------------------
(* MtpDepthPolicy.                                                         *)

Fresh == [rounds |-> 0, proposed |-> 0, accepted |-> 0, fourth |-> 0]

\* The constructor: a short prompt starts at depth four and is watched, or
\* starts at depth two and is probed.
InitialDepth(s) ==
  LET adaptive == s.adaptive /\ s.maximum \in {3, 4}
      four     == adaptive /\ s.short
  IN  [depth      |-> IF four THEN 4 ELSE IF s.maximum = 3 THEN 2 ELSE s.maximum,
       probing    |-> s.maximum = 3 /\ ~adaptive /\ s.short,
       monitoring |-> four,
       adaptive   |-> IF s.maximum = 4 THEN four ELSE adaptive,
       fourDone   |-> FALSE,
       threeDone  |-> FALSE,
       probe      |-> [rounds |-> 0, accepted |-> 0],
       watch      |-> Fresh,
       losing     |-> 0]

\* Probing: after ProbeRounds rounds the depth is raised once, or never.
ProbeRound(p, accepted) ==
  LET probe == [rounds   |-> p.probe.rounds + 1,
                accepted |-> p.probe.accepted + accepted]
      ends  == probe.rounds = ProbeRounds
      wins  == ends /\ probe.accepted >= ProbeThreshold
  IN  [p EXCEPT !.probe = probe,
                !.probing = ~ends,
                !.depth = IF wins THEN setting.maximum ELSE @,
                !.monitoring = @ \/ wins]

Watched(w, proposed, accepted) ==
  [rounds   |-> w.rounds + 1,
   proposed |-> w.proposed + proposed,
   accepted |-> w.accepted + accepted,
   fourth   |-> w.fourth + IF accepted >= 4 THEN 1 ELSE 0]

\* Depth four: the fourth draft must be accepted in half of the rounds, of
\* the probation once and of every full window.
FourRound(p, proposed, accepted) ==
  LET w    == Watched(p.watch, proposed, accepted)
      late == w.rounds = FourMonitor
      weak == /\ w.rounds \in {FourProbation, FourMonitor}
              /\ w.rounds = FourMonitor \/ ~p.fourDone
              /\ 2 * w.fourth < w.rounds
  IN  [p EXCEPT !.depth = IF weak THEN 3 ELSE 4,
                !.fourDone = @ \/ (w.rounds = FourProbation /\ ~weak),
                !.watch = IF weak \/ late THEN Fresh ELSE w]

\* Depth three: given up after a losing probation, or after two losing
\* windows in a row.
ThreeRound(p, proposed, accepted) ==
  LET w      == Watched(p.watch, proposed, accepted)
      weak   == 2 * w.accepted < w.proposed
      early  == /\ ~p.threeDone /\ setting.early
                /\ w.rounds = PromotionProbation /\ weak
      ends   == ~early /\ w.rounds = MonitorRounds
      losing == IF ~ends THEN p.losing ELSE IF weak THEN p.losing + 1 ELSE 0
      leaves == early \/ (ends /\ losing = 2)
  IN  [p EXCEPT !.depth = IF leaves THEN 2 ELSE 3,
                !.monitoring = ~leaves,
                !.threeDone = @ \/ (w.rounds = PromotionProbation /\ ~early),
                !.losing = losing,
                !.watch = IF ends THEN Fresh ELSE w]

ObserveDepth(p, proposed, accepted) ==
  IF p.probing THEN ProbeRound(p, accepted)
  ELSE IF ~p.monitoring \/ ~setting.demotion THEN p
  ELSE IF p.adaptive /\ p.depth = 4 THEN FourRound(p, proposed, accepted)
  ELSE IF p.depth = 3 THEN ThreeRound(p, proposed, accepted)
  ELSE p

-----------------------------------------------------------------------------
(* MtpProfitabilityGuard.                                                  *)

\* Mutation: the slot that is overwritten is not taken out of the sum.
ObserveGuardAdding(g, accepted) ==
  LET full == g.rows = Window
      slot == IF full THEN g.cursor ELSE g.rows
  IN  [streak |-> IF accepted = 0 THEN g.streak + 1 ELSE 0,
       rounds |-> g.rounds + 1,
       total  |-> g.total + accepted,
       rows   |-> IF full THEN Window ELSE g.rows + 1,
       ring   |-> [g.ring EXCEPT ![slot] = accepted],
       sum    |-> g.sum + accepted,
       cursor |-> IF full THEN (g.cursor + 1) % Window ELSE g.cursor]

\* observe: a ring of the last Window rounds and its sum.
ObserveGuard(g, accepted) ==
  LET full == g.rows = Window
      slot == IF full THEN g.cursor ELSE g.rows
  IN  [streak |-> IF accepted = 0 THEN g.streak + 1 ELSE 0,
       rounds |-> g.rounds + 1,
       total  |-> g.total + accepted,
       rows   |-> IF full THEN Window ELSE g.rows + 1,
       ring   |-> [g.ring EXCEPT ![slot] = accepted],
       sum    |-> g.sum + accepted - (IF full THEN g.ring[slot] ELSE 0),
       cursor |-> IF full THEN (g.cursor + 1) % Window ELSE g.cursor]

\* should_fallback, or the plain streak without the economic guard.
ShouldFallback(g) ==
  IF ~setting.economic THEN g.streak >= FallbackRounds
  ELSE IF g.rows < Window
  THEN g.streak >= FallbackRounds /\ g.total < g.rounds
  ELSE g.sum < Window

-----------------------------------------------------------------------------
(* HistoryDraftPolicy.                                                     *)

Tally == [rounds |-> 0, proposed |-> 0, accepted |-> 0]

Counted(t, proposed, accepted) ==
  [rounds   |-> t.rounds + 1,
   proposed |-> t.proposed + proposed,
   accepted |-> t.accepted + accepted]

\* observe_learned: a weak learned head makes way for history drafts.
ObserveLearned(h, proposed, accepted) ==
  LET t == Counted(h.learned, proposed, accepted)
  IN  IF setting.mode # "adaptive" \/ h.active \/ h.rejected THEN h
      ELSE IF t.rounds < LearnedProbe THEN [h EXCEPT !.learned = t]
      ELSE [h EXCEPT !.learned = Tally,
                     !.active = 2 * t.accepted < t.proposed]

\* observe_history: weak history drafts are rejected for good.
ObserveHistory(h, proposed, accepted) ==
  LET t == Counted(h.history, proposed, accepted)
  IN  IF setting.mode # "adaptive" \/ ~h.active THEN h
      ELSE IF t.rounds < HistoryProbe THEN [h EXCEPT !.history = t]
      ELSE LET weak == 2 * t.accepted < t.proposed
           IN  [h EXCEPT !.history = Tally, !.active = ~weak, !.rejected = weak]

-----------------------------------------------------------------------------
(* Context copies.  The moving average is a fraction of Scale, which is    *)
(* exact for as many rounds as Scale has factors of ten.                   *)

Scale == 60000000

CopyCap(c, maximum) ==
  IF c.perfect >= 2 /\ 4 * c.average >= 3 * Scale THEN maximum ELSE NarrowCopy

\* A copy that lost three times is suspended, each time for longer unless a
\* round in between was half right.
ObserveCopy(c, proposed, accepted, total) ==
  LET average == (7 * c.average + 3 * ((Scale * accepted) \div proposed)) \div 10
      backoff == IF 2 * accepted >= proposed THEN CopyBackoff ELSE c.backoff
      ends    == c.seen + 1 >= 3 /\ 20 * average < 7 * Scale
  IN  [seen    |-> IF ends THEN 0 ELSE c.seen + 1,
       perfect |-> IF ends THEN 0
                   ELSE IF accepted = proposed THEN c.perfect + 1 ELSE 0,
       average |-> IF ends THEN Scale \div 2 ELSE average,
       until   |-> IF ends THEN total + backoff ELSE c.until,
       backoff |-> IF ends THEN Min({2 * backoff, MaxBackoff}) ELSE backoff]

-----------------------------------------------------------------------------
(* The rounds of the generation loop.                                      *)

\* result.tokens: every round emits its accepted drafts and one token more.
Tokens(s) == SumSeq([i \in 1..Len(s) |-> s[i].accepted + 1])

PolicyInit ==
  /\ setting \in Settings
  /\ depthPolicy = InitialDepth(setting)
  /\ guard = [streak |-> 0, rounds |-> 0, total |-> 0, rows |-> 0,
              ring |-> [i \in 0..(Window - 1) |-> 0], sum |-> 0, cursor |-> 0]
  /\ historyDraft = [active   |-> setting.mode = "forced",
                     rejected |-> FALSE,
                     learned  |-> Tally,
                     history  |-> Tally]
  /\ copyPolicy = [seen |-> 0, perfect |-> 0, average |-> Scale \div 2,
                   until |-> 0, backoff |-> CopyBackoff]
  /\ profitable = TRUE
  /\ rounds = <<>>

Remember(source, proposed, accepted) ==
  rounds' = Append(rounds, [source   |-> source,
                            depth    |-> depthPolicy.depth,
                            proposed |-> proposed,
                            accepted |-> accepted])

\* A round of the learned head: all three policies hear of it, and the head
\* is given up when it does not pay.
LearnedRound(accepted) ==
  /\ profitable /\ Len(rounds) < MaxRounds
  /\ accepted <= depthPolicy.depth
  /\ LET proposed == depthPolicy.depth
     IN  /\ depthPolicy' = ObserveDepth(depthPolicy, proposed, accepted)
         /\ guard' = ObserveGuard(guard, accepted)
         /\ historyDraft' = ObserveLearned(historyDraft, proposed, accepted)
         /\ Remember("learned", proposed, accepted)
  /\ profitable' = ~ShouldFallback(guard')
  /\ UNCHANGED <<setting, copyPolicy>>

\* A round of history drafts, of at least two tokens and, in a long context,
\* of up to four whatever the depth.
HistoryRound(proposed, accepted) ==
  /\ profitable /\ Len(rounds) < MaxRounds
  /\ historyDraft.active
  /\ proposed \in 2..(IF setting.short THEN depthPolicy.depth ELSE 4)
  /\ accepted <= proposed
  /\ historyDraft' = ObserveHistory(historyDraft, proposed, accepted)
  /\ Remember("history", proposed, accepted)
  /\ UNCHANGED <<setting, depthPolicy, guard, copyPolicy, profitable>>

\* A round of tokens copied from the prompt, unless copies are suspended.
CopyRound(proposed, accepted) ==
  /\ profitable /\ Len(rounds) < MaxRounds
  /\ setting.copy > 0 /\ Tokens(rounds) >= copyPolicy.until
  /\ proposed \in 2..CopyCap(copyPolicy, setting.copy) /\ accepted <= proposed
  /\ copyPolicy' = ObserveCopy(copyPolicy, proposed, accepted, Tokens(rounds))
  /\ Remember("copy", proposed, accepted)
  /\ UNCHANGED <<setting, depthPolicy, guard, historyDraft, profitable>>

PolicyNext ==
  \/ \E accepted \in AcceptCounts : LearnedRound(accepted)
  \/ \E proposed \in HistorySizes, accepted \in AcceptCounts :
       HistoryRound(proposed, accepted)
  \/ \E proposed \in CopySizes, accepted \in AcceptCounts :
       CopyRound(proposed, accepted)

PolicySpec == PolicyInit /\ [][PolicyNext]_policyVars

-----------------------------------------------------------------------------
(* Properties.                                                             *)

\* The rounds of each source, and sums over the last n of a sequence.
RoundsOf(source) ==
  [source : {source}, depth : Nat, proposed : Nat, accepted : Nat]
Learned     == Only(rounds, RoundsOf("learned"))
Histories   == Only(rounds, RoundsOf("history"))
Copies      == Only(rounds, RoundsOf("copy"))
LastN(s, n) == SubSeq(s, Len(s) - n + 1, Len(s))
Accepted(s) == SumSeq([i \in 1..Len(s) |-> s[i].accepted])
Proposed(s) == SumSeq([i \in 1..Len(s) |-> s[i].proposed])
AllFour(s)  == Cardinality({i \in 1..Len(s) : s[i].accepted >= 4})
Weak(s)     == 2 * Accepted(s) < Proposed(s)

\* The last n learned rounds exist, ran at depth d, and satisfy P.
OfDepth(s, n, d) == Len(s) >= n /\ \A i \in 1..n : LastN(s, n)[i].depth = d

\* MtpDepthPolicy::observe never moves the depth on stale counts.  It rises
\* only at the end of a probe that earned it; it falls only when the rounds
\* of the window that decides, all of them run at the depth that is given
\* up, really lost.
DepthEarned ==
  LET s == Learned'
      d == depthPolicy.depth
  IN  /\ depthPolicy'.depth > d =>
           /\ Len(s) = ProbeRounds
           /\ Accepted(s) >= ProbeThreshold
      /\ depthPolicy'.depth < d /\ d = 4 =>
           \E n \in {FourProbation, FourMonitor} :
             OfDepth(s, n, 4) /\ 2 * AllFour(LastN(s, n)) < n
      /\ depthPolicy'.depth < d /\ d = 3 =>
           \/ /\ OfDepth(s, PromotionProbation, 3)
              /\ ~OfDepth(s, PromotionProbation + 1, 3)
              /\ Weak(LastN(s, PromotionProbation))
           \/ /\ OfDepth(s, 2 * MonitorRounds, 3)
              /\ Weak(LastN(s, MonitorRounds))
              /\ Weak(SubSeq(LastN(s, 2 * MonitorRounds), 1, MonitorRounds))

\* What the head has cost, told from the rounds themselves: with a full
\* window less than one accepted token per round, before that a streak of
\* empty rounds in a losing request.
Losing(s) ==
  IF setting.economic /\ Len(s) >= Window THEN Accepted(LastN(s, Window)) < Window
  ELSE /\ Len(s) >= FallbackRounds
       /\ Accepted(LastN(s, FallbackRounds)) = 0
       /\ setting.economic => Accepted(s) < Len(s)

\* MtpProfitabilityGuard: a learned round ends speculation if and only if
\* the last rounds lost, although the guard only keeps a ring, its sum and a
\* streak; and history rounds in between are not held against the head.
FallbackEarned ==
  Learned' # Learned => (profitable' <=> ~Losing(Learned'))

\* HistoryDraftPolicy: history drafts start only after LearnedProbe learned
\* rounds that lost together, and once they have lost themselves they never
\* come back in this request.
HistoryEarned ==
  /\ ~historyDraft.active /\ historyDraft'.active =>
       Weak(LastN(Learned', LearnedProbe))
  /\ historyDraft.active /\ ~historyDraft'.active =>
       Weak(LastN(Histories', HistoryProbe))
  /\ (\E i \in 1..Len(rounds) : rounds[i].source = "history")
       /\ ~historyDraft.active => ~historyDraft'.active

\* From round a to round b nothing but copies, and none of them accepted.
LostCopies(s, a, b) ==
  \A j \in a..b : s[j].source = "copy" /\ s[j].accepted = 0

\* Long copies, which cost a wide verification, are only tried after two
\* perfect copies in a row; and after three copies in a row that lost
\* altogether, CopyBackoff tokens pass before the next one.
CopyEarned ==
  LET n    == Len(Copies)
      last == rounds'[Len(rounds')]
  IN  rounds' # rounds /\ last.source = "copy" =>
        /\ last.proposed > NarrowCopy =>
             n >= 2 /\ \A i \in {n - 1, n} : Copies[i].accepted = Copies[i].proposed
        /\ \A i \in 3..Len(rounds) :
             LostCopies(rounds, i - 2, i) =>
               Tokens(rounds) >= Tokens(SubSeq(rounds, 1, i - 1)) + CopyBackoff

\* Every decision about the next rounds follows from what the rounds before
\* it really proposed and accepted, whichever counters stand for them.
AllEarned == DepthEarned /\ FallbackEarned /\ HistoryEarned /\ CopyEarned

PoliciesEarned == [][AllEarned]_policyVars

=============================================================================
