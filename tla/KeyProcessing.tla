--------------------------- MODULE KeyProcessing ---------------------------
(* What the agents of the key sessions share: the settings of the           *)
(* post-processing, the outcomes of a handler, the helpers of               *)
(* examples/postprocessing, and Bob's Cascade controller.                   *)
EXTENDS Integers, FiniteSets, Sequences, SequencesExt

CONSTANTS Passes,                \* of Cascade
          MinSample, MinRemaining, SamplePercent, AbortPercent,
          MinBlock, MaxFirstBlock, QberFloorPercent,
          TagLen, SecurityMargin, MinFinalKey,
          SampleChoices(_, _),   \* what the stream that samples may choose
          Shuffles(_)            \* what the stream of Cascade may

ASSUME KeyAssumption ==
    /\ Passes \in Nat \ {0}
    /\ MinSample \in Nat \ {0} /\ MinRemaining \in Nat \ {0}
    /\ SamplePercent \in Nat
    /\ MinFinalKey \in Nat \ {0} /\ TagLen \in Nat /\ SecurityMargin \in Int

-----------------------------------------------------------------------------
(* Bob's Cascade controller, as operators on its state.                     *)
(*                                                                          *)
(* A controller is a record:                                                *)
(*   bits         Bob's estimate of the key (the agent's own list, shared)  *)
(*   first        first_block_size                                          *)
(*   current      current_pass, from 0                                      *)
(*   previous     previous_pass_blocks: the blocks of each pass started     *)
(*   pending      the queue of blocks to ask about, front first             *)
(*   queued       queued_block_keys: what keeps a block from being queued   *)
(*                twice                                                     *)
(*   outstanding  the block whose parity has been asked and not answered    *)
(*   asked, leaked, corrections, complete                                   *)
(*                                                                          *)
(* A block is [pass, indices, phase, search]; its number and its depth are  *)
(* reported and never read, so that a block is its own cascade_block_key.   *)
(* Positions count from 1.                                                  *)

NoBlock == [pass |-> -1, indices |-> <<>>, phase |-> "none", search |-> <<>>]

CheckOf(pass, indices, phase) ==
    [pass |-> pass, indices |-> indices, phase |-> phase, search |-> indices]

Parity(bits, indices) == Cardinality({i \in ToSet(indices) : bits[i] = 1}) % 2

\* A block that is queued already is not queued again.
Enqueue(c, block, front) ==
    IF block \in c.queued THEN c
    ELSE [c EXCEPT !.queued = @ \cup {block},
                   !.pending = IF front THEN <<block>> \o @ ELSE Append(@, block)]

\* Several checks are queued behind in their order; no two of them are equal.
EnqueueChecks(c, checks) ==
    LET new == SelectSeq(checks, LAMBDA block : block \notin c.queued)
    IN  [c EXCEPT !.queued = @ \cup ToSet(new), !.pending = @ \o new]

ChecksOf(pass, blocks, phase) ==
    [k \in DOMAIN blocks |-> CheckOf(pass, blocks[k], phase)]

\* The shuffled positions cut into blocks that double in size with each pass.
MakePassBlocks(c, pass, shuffled) ==
    LET n    == Len(c.bits)
        Least(a, b) == IF a < b THEN a ELSE b
        size == Least(n, c.first * 2^pass)
    IN  [k \in 1..((n + size - 1) \div size) |->
            SubSeq(shuffled, (k - 1) * size + 1, Least(k * size, n))]

StartPass(c, pass, shuffled) ==
    LET blocks == MakePassBlocks(c, pass, shuffled)
    IN  EnqueueChecks([c EXCEPT !.current = pass, !.previous = Append(@, blocks)],
                      ChecksOf(pass, blocks, "block_check"))

NewController(bits, first, shuffled) ==
    StartPass([bits |-> bits, first |-> IF first < Len(bits) THEN first ELSE Len(bits),
               current |-> 0, previous |-> <<>>, pending |-> <<>>, queued |-> {},
               outstanding |-> NoBlock, asked |-> 0, leaked |-> 0, corrections |-> 0,
               complete |-> FALSE],
              0, shuffled)

\* The first half of the region searched, or the whole block.
QueryIndices(block) ==
    IF block.phase = "binary_search"
    THEN SubSeq(block.search, 1, Len(block.search) \div 2)
    ELSE block.indices

\* next_request, when a block is waiting: its parity is asked for.
NextBlock(c) ==
    [c EXCEPT !.pending = Tail(@), !.queued = @ \ {Head(c.pending)},
              !.outstanding = Head(c.pending), !.asked = @ + 1]

\* next_request, when none is: the next pass begins, or the last one is over
\* and the controller completes.  It gives the caller nothing in either case.
LastPass(c) == c.current + 1 >= Passes
NextPass(c, shuffled) ==
    IF LastPass(c) THEN [c EXCEPT !.complete = TRUE]
    ELSE StartPass(c, c.current + 1, shuffled)

\* A mistake: off by one, and the pass just before is left out.
EnqueueBacktrackingOlder(c, i) ==
    EnqueueChecks(c, FlattenSeq([pass \in 1..(c.current - 1) |->
        ChecksOf(pass - 1, SelectSeq(c.previous[pass], LAMBDA b : i \in ToSet(b)),
                 "backtrack_check")]))

\* The corrected bit may have hidden a second error of a block of an earlier
\* pass: those that hold it are asked about again.
EnqueueBacktracking(c, i) ==
    EnqueueChecks(c, FlattenSeq([pass \in 1..c.current |->
        ChecksOf(pass - 1, SelectSeq(c.previous[pass], LAMBDA b : i \in ToSet(b)),
                 "backtrack_check")]))

FlipAndBacktrack(c, i) ==
    EnqueueBacktracking([c EXCEPT !.bits[i] = 1 - @, !.corrections = @ + 1], i)

\* The search goes on in a region of odd parity until one position is left.
ContinueSearch(c, block, region) ==
    IF Len(region) = 1 THEN FlipAndBacktrack(c, region[1])
    ELSE Enqueue(c, [block EXCEPT !.phase = "binary_search", !.search = region], TRUE)

HalfToSearch(block, leftMismatched) ==
    LET mid == Len(block.search) \div 2
    IN  IF leftMismatched THEN SubSeq(block.search, 1, mid)
        ELSE SubSeq(block.search, mid + 1, Len(block.search))

\* The answer is compared with the parity of Bob's own bits.
ApplyParityResponse(c, aliceParity) ==
    LET block      == c.outstanding
        mismatched == Parity(c.bits, QueryIndices(block)) # aliceParity
        answered   == [c EXCEPT !.outstanding = NoBlock, !.leaked = @ + 1]
    IN  IF block.phase = "binary_search"
        THEN ContinueSearch(answered, block, HalfToSearch(block, mismatched))
        ELSE IF mismatched THEN ContinueSearch(answered, block, block.indices)
        ELSE answered
-----------------------------------------------------------------------------
NoKey        == [bits |-> <<>>, len |-> 0]
NoController == [complete |-> FALSE, bits |-> <<>>, outstanding |-> NoBlock]

(* Outcomes of a handler: the agent after it, the messages it sends and    *)
(* the local events it schedules.                                          *)

Outcome(self, sent, scheduled) ==
  [self |-> self, sent |-> sent, local |-> scheduled, raised |-> FALSE]
Raise(self) == {[self |-> self, sent |-> <<>>, local |-> {}, raised |-> TRUE]}

(* The members of a finite set of numbers, in ascending order              *)
InOrder(S) ==
  [k \in 1..Cardinality(S) |-> CHOOSE x \in S : Cardinality({y \in S : y <= x}) = k]

(* Positions of a key that are not in the sample                           *)
RemovePositions(seq, positions) ==
  LET kept == InOrder(DOMAIN seq \ ToSet(positions))
  IN  [j \in DOMAIN kept |-> seq[kept[j]]]

ValidPositions(positions, n) ==
  /\ Cardinality(ToSet(positions)) = Len(positions)
  /\ ToSet(positions) \subseteq 1..n

Greatest(a, b) == IF a > b THEN a ELSE b
Smallest(a, b) == IF a < b THEN a ELSE b
CeilDiv(a, b)  == (a + b - 1) \div b

SampleSize(n) ==
  Smallest(n - MinRemaining, Greatest(MinSample, (SamplePercent * n) \div 100))

(* 0.73 over the estimated error rate, which is floored: by a setting and  *)
(* by one error in the whole key.                                          *)
FirstBlockSize(errors, size, n) ==
  LET fromFloor  == CeilDiv(73, QberFloorPercent)
      fromKey    == CeilDiv(73 * n, 100)
      fromSample == IF errors = 0 THEN fromKey ELSE CeilDiv(73 * size, 100 * errors)
  IN  Smallest(n, Smallest(MaxFirstBlock,
        Greatest(MinBlock, Smallest(fromFloor, Smallest(fromKey, fromSample)))))

(* Toeplitz hashes of different bits may be equal: a tag stands for the    *)
(* bits it was computed from, and a wrong one may pass.                    *)
TagsAgree(mine, theirs) == IF mine = theirs THEN {TRUE} ELSE BOOLEAN
=============================================================================
