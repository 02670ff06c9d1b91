------------------------------ MODULE KvEvents ------------------------------
(***************************************************************************)
(* Block partitioning and hashing, src/infra/kv_events.py.  A prompt is a  *)
(* sequence of tokens.  xxh3 is left as a function of the block's tokens   *)
(* alone: a block's hash does not depend on the blocks before it, and two  *)
(* blocks may collide.                                                     *)
(***************************************************************************)
EXTENDS Integers, Sequences

CONSTANTS BlockSize,      \* tokens per block
          HashOf(_)       \* xxh3_64 of a full block

(* Variant: the tail that does not fill a block is hashed too. *)
HashesWithTail(tokens) ==
  LET Loop[i \in 0 .. Len(tokens) + BlockSize] ==
        IF i >= Len(tokens)
          THEN <<>>
          ELSE <<HashOf(SubSeq(tokens, i + 1,
                   IF i + BlockSize < Len(tokens) THEN i + BlockSize ELSE Len(tokens)))>>
                 \o Loop[i + BlockSize]
  IN  Loop

(* The loop of token_ids_to_block_hashes from offset i on: the first block *)
(* that is cut short ends it.                                              *)
HashesFrom(tokens) ==
  LET Loop[i \in 0 .. Len(tokens) + BlockSize] ==
        LET chunk == SubSeq(tokens, i + 1,
                       IF i + BlockSize < Len(tokens) THEN i + BlockSize ELSE Len(tokens))
        IN  IF i >= Len(tokens) \/ Len(chunk) < BlockSize
              THEN <<>>
              ELSE <<HashOf(chunk)>> \o Loop[i + BlockSize]
  IN  Loop

(* Variant: blocks are counted from the end of the prompt. *)
HashesFromTheEnd(tokens) == HashesFrom(tokens)[Len(tokens) % BlockSize]

TokenIdsToBlockHashes(tokens) == HashesFrom(tokens)[0]

(* What route() and the completion halves keep of it. *)
BlockSet(tokens) ==
  LET hashes == TokenIdsToBlockHashes(tokens)
  IN  {hashes[i] : i \in DOMAIN hashes}
=============================================================================
