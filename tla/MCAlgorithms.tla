----------------------------- MODULE MCAlgorithms -----------------------------
(***************************************************************************)
(* The pure algorithms over bounded inputs: block hashing over every       *)
(* prompt of up to MaxTokens tokens, scoring and picking over every list   *)
(* of up to MaxCandidates candidate workers.  A prompt grows one token at  *)
(* a time, as a conversation does, and a list one candidate at a time; a   *)
(* run grows one of the two.                                               *)
(***************************************************************************)
EXTENDS Integers, Sequences, FiniteSets, SequencesExt

CONSTANTS Token, MaxTokens, MaxCandidates,
          BlockSize, OverlapCredit, Decay, PrefillLoadScale, RequestWeight, Softmin

ASSUME WeightsAssumption ==
  /\ BlockSize \in Nat \ {0}
  /\ OverlapCredit \in Nat /\ Decay \in Nat /\ PrefillLoadScale \in Nat /\ RequestWeight \in Nat
  /\ Softmin \in BOOLEAN

Tuple(chunk) == chunk

Events == INSTANCE KvEvents WITH HashOf <- Tuple
INSTANCE Selection

VARIABLES tokens,        \* a prompt
          candidates     \* what the router knows of each candidate worker

(* Prompt loads for which the credit of two blocks cuts the prefill term   *)
(* off at zero, and for which it does not; a worker may hold none, one or  *)
(* two of the prompt's blocks.                                             *)
PromptLength == 2 * BlockSize + 1

Candidate == [ row : [ active_prefill_tokens : {0, 2, 7, 12},
                       active_decode_blocks  : {0, 1},
                       active_requests       : {0, 1} ],
               overlap : 0 .. 2 ]

Init == tokens = <<>> /\ candidates = <<>>

Next == \/ /\ candidates = <<>> /\ Len(tokens) < MaxTokens
           /\ \E t \in Token : tokens' = Append(tokens, t)
           /\ UNCHANGED candidates
        \/ /\ tokens = <<>> /\ Len(candidates) < MaxCandidates
           /\ \E c \in Candidate : candidates' = Append(candidates, c)
           /\ UNCHANGED tokens

Spec == Init /\ [][Next]_<<tokens, candidates>>

Hashes == Events!TokenIdsToBlockHashes(tokens)

(* The loop yields one hash per full block, in order, each of the tokens   *)
(* of that block, and drops a partial tail.                                *)
OneHashPerFullBlock ==
  Hashes = [n \in 1 .. Len(tokens) \div BlockSize |->
              SubSeq(tokens, (n - 1) * BlockSize + 1, n * BlockSize)]

(* A longer prompt keeps the hashes of the prompt it extends, so what was  *)
(* recorded for one turn of a conversation matches the next.               *)
TurnsShareBlocks ==
  \A n \in 0 .. Len(tokens) :
    IsPrefix(Events!TokenIdsToBlockHashes(SubSeq(tokens, 1, n)), Hashes)

Load(i) == candidates[i].row.active_prefill_tokens

Least == CHOOSE n \in {Load(i) : i \in DOMAIN candidates} :
           \A i \in DOMAIN candidates : n <= Load(i)

Costs == [i \in DOMAIN candidates |->
            Score(candidates[i].row, PromptLength, candidates[i].overlap, Least)]

(* "reservoir: unbiased ties": the walk gives every cheapest worker the    *)
(* same chance, whatever comes before, between and after them in the list, *)
(* and no other worker any.  So it picks what Pick says it may.            *)
UnbiasedTies ==
  LET chance   == Reservoir(Costs)
      cheapest == Pick(Costs)
  IN  \A i \in DOMAIN candidates :
        IF i \in cheapest THEN chance[i].num * Cardinality(cheapest) = chance[i].den
                          ELSE chance[i].num = 0

(* A worker with no less load of any kind and no more of the prompt in its *)
(* cache is never the cheaper one - also where credit decays and where the *)
(* prefill term is cut off at zero.                                        *)
LoadNeverHelps ==
  \A i, j \in DOMAIN candidates :
    /\ Load(i) <= Load(j)
    /\ candidates[i].row.active_decode_blocks <= candidates[j].row.active_decode_blocks
    /\ candidates[i].row.active_requests <= candidates[j].row.active_requests
    /\ candidates[i].overlap >= candidates[j].overlap
    => Leq(Costs[i], Costs[j])
=============================================================================
