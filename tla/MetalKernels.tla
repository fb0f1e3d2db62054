---------------------------- MODULE MetalKernels ----------------------------
(***************************************************************************)
(* The kernels of the persistent backend whose control, rather than their  *)
(* arithmetic, has to be right (persistent_metal_kernels.hpp,              *)
(* persistent_qsa_selector.hpp):                                           *)
(*   - the selection of the best blocks by sorting groups and merging them *)
(*     pairwise through two alternating buffers;                           *)
(*   - the two best logits of the head, reduced by threads, then groups;   *)
(*   - the extraction of packed codes from words;                          *)
(*   - the rows that a decode step attends to.                             *)
(* A buffer is a function on its indices, a score an integer; each kernel  *)
(* is compared with what it should compute.                                *)
(***************************************************************************)
EXTENDS Integers, Sequences, FiniteSets, SequencesExt

CONSTANTS
  Selections,    \* rows sorted by a thread group (256, half of them kept)
                 \* and a bound on the groups: pairs
  PerThread,     \* logits of one thread: 4
  Threads,       \* threads of the head's reduction: 256
  MaxRows,       \* bound: vocabulary
  CodeBits,      \* bits of a packed code: 14
  WordBits,      \* bits of a word: 32
  GroupCodes,    \* codes of a quantization group: 8
  PackedGroups,  \* quantization groups of a row
  BlockRows,     \* rows of a pooled block: 4
  DenseBlocks,   \* blocks attended without selection: 128
  MaxAttended    \* bound: rows of a context

ASSUME KernelAssumption ==
  /\ \A w \in Selections : \E k \in 1..8 : w[1] = 2^k
  /\ \E k \in 1..8 : Threads = 2^k
  /\ 2 * ((MaxRows + PerThread * Threads - 1) \div (PerThread * Threads))
       <= PerThread * Threads

VARIABLES
  job,       \* what is computed: kind and input
  buffers,   \* ids and scores of the selection: a, b and selected
  groupsLeft,\* groups of the next merge
  sourceA,   \* the next merge reads buffer a
  answer,    \* the result
  kernelPc

kernelVars == <<job, buffers, groupsLeft, sourceA, answer, kernelPc>>

\* A row of a buffer: a score and the id it belongs to.
Lowest == -1          \* -INFINITY
NoId == 1000000       \* 0xffffffff
Cell(v, i) == [score |-> v, id |-> i]

-----------------------------------------------------------------------------
(* qsa_bitonic256.                                                         *)

\* The rounds of a bitonic sort of n rows, in order.
Powers(n) == {p \in 1..n : \E k \in 0..8 : p = 2^k}
Rounds(n) ==
  SetToSortSeq({<<w, s>> \in (Powers(n) \ {1}) \X Powers(n) : 2 * s <= w},
               LAMBDA p, q : p[1] < q[1] \/ (p[1] = q[1] /\ p[2] > q[2]))

\* One round: every thread compares and may exchange its two rows.
Exchange(rows, w, s) ==
  [i \in DOMAIN rows |->
    LET low == (i \div s) % 2 = 0
        left == IF low THEN i ELSE i - s
        ascending == (left \div w) % 2 = 0
        swap == IF ascending THEN rows[left].score > rows[left + s].score
                ELSE rows[left].score < rows[left + s].score
    IN  IF swap THEN rows[IF low THEN i + s ELSE i - s] ELSE rows[i]]

Bitonic(rows, n) ==
  FoldLeft(LAMBDA acc, r : Exchange(acc, r[1], r[2]), rows, Rounds(n))

\* The upper half of a sorted group.
UpperHalf(rows, n) == [i \in 0..(n \div 2 - 1) |-> rows[n \div 2 + i]]

-----------------------------------------------------------------------------
(* encode_qsa_top128 and its kernels.                                      *)

Padded(blocks, n) == ((blocks + n - 1) \div n) * n

\* qsa_score_blocks: blocks beyond the count can never win.
qsa_score_blocks(blocks, winners, n) ==
  [b \in 0..(Padded(blocks, n) - 1) |->
    IF b >= blocks THEN Lowest ELSE IF b \in winners THEN 2 ELSE 1]

\* The group's rows of a buffer, and a buffer made of the groups' results.
GroupRows(buffer, g, n) == [i \in 0..(n - 1) |-> buffer[g * n + i]]
Assemble(results, k, groups) ==
  [i \in 0..(groups * k - 1) |-> results[i \div k][i % k]]

\* qsa_top128_first: each group keeps its upper half.
qsa_top128_first(scores, n) ==
  LET groups == Cardinality(DOMAIN scores) \div n
      cells == [b \in DOMAIN scores |-> Cell(scores[b], b)]
  IN  Assemble([g \in 0..(groups - 1) |-> UpperHalf(Bitonic(GroupRows(cells, g, n), n), n)],
               n \div 2, groups)

\* Mutation: a group without a partner is dropped with a copy of the first.
MergeDropsOdd(input, groups, n) ==
  Assemble([g \in 0..((groups + 1) \div 2 - 1) |->
             IF 2 * g + 1 >= groups THEN GroupRows(input, 0, n \div 2)
             ELSE UpperHalf(Bitonic(GroupRows(input, g, n), n), n)],
           n \div 2, (groups + 1) \div 2)

\* qsa_top128_merge: two groups become one; the last of an odd number is copied.
qsa_top128_merge(input, groups, n) ==
  Assemble([g \in 0..((groups + 1) \div 2 - 1) |->
             IF 2 * g + 1 >= groups THEN GroupRows(input, 2 * g, n \div 2)
             ELSE UpperHalf(Bitonic(GroupRows(input, g, n), n), n)],
           n \div 2, (groups + 1) \div 2)

\* What a run of the selector is given.
SelectJobs ==
  UNION {UNION {{[kind |-> "select", width |-> s[1], blocks |-> b, winners |-> w] :
                   w \in {x \in SUBSET (0..(b - 1)) : Cardinality(x) <= s[1] \div 2 + 1}} :
                b \in (s[1] \div 2 + 1)..(s[1] * s[2])} : s \in Selections}

\* The stale contents of the buffers before a run.
Stale == [i \in {0} |-> Cell(Lowest, NoId)]

\* The first pass publishes its ids when there is nothing to merge.
FirstBuffers(ids, groups) ==
  [a |-> ids, b |-> Stale, selected |-> IF groups = 1 THEN ids ELSE Stale]

SelectFirst ==
  /\ kernelPc = "start" /\ job.kind = "select"
  /\ LET n == job.width
         cells == qsa_top128_first(qsa_score_blocks(job.blocks, job.winners, n), n)
     IN  /\ groupsLeft' = Padded(job.blocks, n) \div n
         /\ buffers' = FirstBuffers(cells, groupsLeft')
  /\ sourceA' = TRUE
  /\ kernelPc' = "merge"
  /\ UNCHANGED <<job, answer>>

SelectMerge ==
  /\ kernelPc = "merge" /\ groupsLeft > 1
  /\ LET merged == qsa_top128_merge(IF sourceA THEN buffers.a ELSE buffers.b,
                                    groupsLeft, job.width)
     IN  /\ groupsLeft' = (groupsLeft + 1) \div 2
         /\ buffers' = [a |-> IF sourceA THEN buffers.a ELSE merged,
                        b |-> IF sourceA THEN merged ELSE buffers.b,
                        selected |-> IF groupsLeft' = 1 THEN merged
                                     ELSE buffers.selected]
  /\ sourceA' = ~sourceA
  /\ UNCHANGED <<job, answer, kernelPc>>

SelectDone ==
  /\ kernelPc = "merge" /\ groupsLeft = 1
  /\ answer' = [i \in DOMAIN buffers.selected |-> buffers.selected[i].id]
  /\ kernelPc' = "done"
  /\ UNCHANGED <<job, buffers, groupsLeft, sourceA>>

-----------------------------------------------------------------------------
(* head_top2_reduce.                                                       *)

Better(c, d) == c.score > d.score \/ (c.score = d.score /\ c.id < d.id)
NoCell == Cell(Lowest, NoId)

\* A candidate displaces the best or the second of two.
Take(two, c) ==
  IF Better(c, two[1]) THEN <<c, two[1]>>
  ELSE IF c.id # two[1].id /\ Better(c, two[2]) THEN <<two[1], c>> ELSE two

\* The two best of a thread's consecutive rows.
ThreadTwo(cells, g, t, rows) ==
  LET begin == g * PerThread * Threads + t * PerThread
      mine == [k \in 1..PerThread |-> begin + k - 1]
  IN  FoldLeft(LAMBDA acc, i : IF i >= rows THEN acc ELSE Take(acc, cells[i]),
               <<NoCell, NoCell>>, mine)

\* One round of the tree: thread t takes the two of thread t + stride.
TakeUnlessEmpty(two, c) == IF c.id = NoId THEN two ELSE Take(two, c)
TreeRound(twos, stride) ==
  [t \in DOMAIN twos |->
    IF t < stride
    THEN TakeUnlessEmpty(TakeUnlessEmpty(twos[t], twos[t + stride][1]),
                         twos[t + stride][2])
    ELSE twos[t]]

Strides == SetToSortSeq({p \in Powers(Threads) : 2 * p <= Threads}, LAMBDA p, q : p > q)

GroupTwo(cells, g, rows) ==
  FoldLeft(TreeRound, [t \in 0..(Threads - 1) |-> ThreadTwo(cells, g, t, rows)],
           Strides)[0]

\* One dispatch: the two best of every group.
head_top2_reduce(cells, rows, groups) ==
  [i \in 0..(2 * groups - 1) |-> GroupTwo(cells, i \div 2, rows)[(i % 2) + 1]]

HeadGroups(rows) == (rows + PerThread * Threads - 1) \div (PerThread * Threads)

\* encode_head: the groups' candidates keep their token ids in the second pass.
HeadTop2(logits, rows) ==
  LET candidates == head_top2_reduce([i \in 0..(rows - 1) |-> Cell(logits[i], i)],
                                     rows, HeadGroups(rows))
      final == head_top2_reduce(candidates, 2 * HeadGroups(rows), 1)
  IN  <<final[0].id, final[1].id>>

HeadJobs ==
  UNION {[kind : {"head"}, rows : {r}, logits : [0..(r - 1) -> {1, 2}]] : r \in 2..MaxRows}

HeadRun ==
  /\ kernelPc = "start" /\ job.kind = "head"
  /\ answer' = HeadTop2(job.logits, job.rows)
  /\ kernelPc' = "done"
  /\ UNCHANGED <<job, buffers, groupsLeft, sourceA>>

-----------------------------------------------------------------------------
(* vq14_code: a code is given by the bits of the row that it is made of.   *)

\* The bits of a code at a bit offset of the words that begin at first: the
\* word that holds its start, and the next one where it crosses over.
Bits(first, bit) ==
  LET word == bit \div WordBits
      shift == bit % WordBits
  IN  [bits |-> [j \in 0..(CodeBits - 1) |->
         IF j < WordBits - shift THEN (first + word) * WordBits + shift + j
         ELSE (first + word + 1) * WordBits + j - (WordBits - shift)],
       words |-> {word} \cup IF shift + CodeBits > WordBits THEN {word + 1} ELSE {}]

\* WordBits codes fill CodeBits words exactly.
vq14_code(s) ==
  LET within == s % WordBits
      first == (s \div WordBits) * CodeBits
      found == Bits(first, within * CodeBits)
  IN  [bits |-> found.bits, words |-> {first + w : w \in found.words}]

\* vq_d8_group_dot_cached and its s8 and u8 forms: the covering words of a
\* group are loaded once.
CachedWords == (GroupCodes * CodeBits + WordBits - 1) \div WordBits
CachedCode(g, local) ==
  LET block == ((g * GroupCodes) % WordBits) * CodeBits
      first == ((g * GroupCodes) \div WordBits) * CodeBits + block \div WordBits
      found == Bits(first, (block % WordBits) + local * CodeBits)
  IN  [bits |-> found.bits, words |-> found.words,
       loaded |-> {first + w : w \in 0..(CachedWords - 1)}]

CodeJobs == [kind : {"code"}, group : 0..(PackedGroups - 1), local : 0..(GroupCodes - 1)]

CodeRun ==
  /\ kernelPc = "start" /\ job.kind = "code"
  /\ answer' = [plain |-> vq14_code(job.group * GroupCodes + job.local),
                cached |-> CachedCode(job.group, job.local)]
  /\ kernelPc' = "done"
  /\ UNCHANGED <<job, buffers, groupsLeft, sourceA>>

-----------------------------------------------------------------------------
(* qsa_attention_q8_blocks: where each attended row is read from.          *)

\* encode_qsa_selection: few blocks are all attended; selected is then their list.
Dense(total) == total \div BlockRows <= DenseBlocks

Place(token, cold) == IF token < cold THEN <<"cold", token>> ELSE <<"hot", token - cold>>

\* The rows after the last complete block are taken from the hot slab.
TailReads(total, cold) ==
  LET start == (total \div BlockRows) * BlockRows
  IN  [i \in 1..(total - start) |-> <<"hot", start + i - 1 - cold>>]

\* The rows of the selected blocks, then the tail, in the order of the loops.
BlockReads(total, cold, blocks) ==
  [i \in 1..(Len(blocks) * BlockRows) |->
    Place(blocks[1 + (i - 1) \div BlockRows] * BlockRows + ((i - 1) % BlockRows), cold)]

AttentionJobs ==
  {j \in [kind : {"attend"}, total : 1..MaxAttended, cold : 0..(MaxAttended - 1),
          skipped : 0..(MaxAttended \div BlockRows)] :
     /\ j.cold < j.total
     /\ IF Dense(j.total) THEN j.skipped = 0 ELSE j.skipped < j.total \div BlockRows}

\* The blocks of a step: all of them, or all but the one not selected.
Attended(j) ==
  LET all == [b \in 1..(j.total \div BlockRows) |-> b - 1]
  IN  IF Dense(j.total) THEN all ELSE RemoveAt(all, j.skipped + 1)

AttendRun ==
  /\ kernelPc = "start" /\ job.kind = "attend"
  /\ answer' = BlockReads(job.total, job.cold, Attended(job))
                 \o TailReads(job.total, job.cold)
  /\ kernelPc' = "done"
  /\ UNCHANGED <<job, buffers, groupsLeft, sourceA>>

-----------------------------------------------------------------------------
KernelInit ==
  /\ job \in SelectJobs \cup HeadJobs \cup CodeJobs \cup AttentionJobs
  /\ buffers = [a |-> Stale, b |-> Stale, selected |-> Stale]
  /\ groupsLeft = 0 /\ sourceA = TRUE
  /\ answer = <<>>
  /\ kernelPc = "start"

KernelNext ==
  SelectFirst \/ SelectMerge \/ SelectDone \/ HeadRun \/ CodeRun \/ AttendRun

KernelSpec == KernelInit /\ [][KernelNext]_kernelVars

-----------------------------------------------------------------------------
(* Properties.                                                             *)

Done(kind) == kernelPc = "done" /\ job.kind = kind

\* "Publish the complete top-128 selection, including the single-group case"
\* (persistent_qsa_selector.hpp:8): the published ids are distinct blocks of
\* the context, and no block left out scores more than one of them.  Scores
\* of two values suffice for a network of comparisons.
SelectionIsTop ==
  Done("select") =>
    LET n == job.width \div 2
        chosen == {answer[i] : i \in DOMAIN answer}
    IN  /\ DOMAIN answer = 0..(n - 1) /\ Cardinality(chosen) = n
        /\ chosen \subseteq 0..(job.blocks - 1)
        /\ job.winners \subseteq chosen \/ chosen \subseteq job.winners

\* The head returns the best token and its runner-up, the lower id first
\* among equals, as a full argmax over the vocabulary would
\* (persistent_metal_kernels.hpp:2070, encode_head).
HeadFindsTwo ==
  Done("head") =>
    LET ids == 0..(job.rows - 1)
        first == CHOOSE i \in ids : \A k \in ids \ {i} :
                   Better(Cell(job.logits[i], i), Cell(job.logits[k], k))
        second == CHOOSE i \in ids \ {first} : \A k \in ids \ {first, i} :
                    Better(Cell(job.logits[i], i), Cell(job.logits[k], k))
    IN  answer = <<first, second>>

\* "Code extraction and accumulation order are unchanged" by the cached words
\* (persistent_metal_kernels.hpp:84): both forms take the same consecutive
\* bits, and neither reads a word outside its row or its cache.
CodesAgree ==
  Done("code") =>
    LET s == job.group * GroupCodes + job.local
        last == (PackedGroups * GroupCodes * CodeBits) \div WordBits
    IN  /\ answer.plain.bits = [j \in 0..(CodeBits - 1) |-> s * CodeBits + j]
        /\ answer.cached.bits = answer.plain.bits
        /\ answer.plain.words \subseteq 0..(last - 1)
        /\ answer.cached.words \subseteq 0..(CachedWords - 1)
        /\ answer.cached.loaded \subseteq 0..(last - 1)

\* The tail of a context whose last rows straddle the border of the cold
\* part: the loop has no cold branch (persistent_metal_kernels.hpp:1215).
StraddlingTail(j) == (j.total \div BlockRows) * BlockRows < j.cold

\* A step attends to each row of its blocks and of the tail exactly once, in
\* the slab that holds it (qsa_attention_q8_blocks), a straddling tail aside.
AttendsEachOnce ==
  (Done("attend") /\ ~StraddlingTail(job)) =>
    LET left == IF Dense(job.total) THEN {}
                ELSE {job.skipped * BlockRows + i : i \in 0..(BlockRows - 1)}
    IN  /\ IsInjective(answer)
        /\ {answer[i] : i \in DOMAIN answer} =
             {Place(t, job.cold) : t \in (0..(job.total - 1)) \ left}

\* The selecting, reducing, unpacking and attending kernels compute what they
\* stand for, at every boundary between groups, passes, words and blocks.
KernelsExact == SelectionIsTop /\ HeadFindsTwo /\ CodesAgree /\ AttendsEachOnce

=============================================================================
