---------------------------- MODULE SlotManager ----------------------------
(***************************************************************************)
(* The active-load counters of src/router/slot_manager.py: three tables,   *)
(* keyed by a worker's position in its pool, that the router charges when  *)
(* it places a request and the frontend releases as the request proceeds.  *)
(*                                                                         *)
(* A key the Python dict does not hold reads as 0, so a table is a total   *)
(* function here.  (A variant is a faulty version of the operator after it *)
(* that some property must tell from it: README.md, "Mutants".)  The       *)
(* prefill tables are keyed by prefill positions and the decode table by   *)
(* decode positions; both start at 0, so they share the key set Worker.    *)
(***************************************************************************)
EXTENDS Integers

CONSTANT Worker             \* every position some pool has

VARIABLES prefillTokens,    \* _prefill_tokens: prompt tokens being prefilled
          prefillRequests,  \* _prefill_requests: requests placed and not freed
          decodeBlocks      \* _decode_blocks: KV blocks held on a decode worker

slotVars == <<prefillTokens, prefillRequests, decodeBlocks>>

Zero == [w \in Worker |-> 0]

Init == /\ prefillTokens = Zero
        /\ prefillRequests = Zero
        /\ decodeBlocks = Zero

TypeOK == /\ prefillTokens \in [Worker -> Nat]
          /\ prefillRequests \in [Worker -> Nat]
          /\ decodeBlocks \in [Worker -> Nat]

(* Variant: subtraction without the clamp. *)
PlainMinus(a, b) == a - b

(* max(0, a - b): the code never lets a counter go below zero. *)
Monus(a, b) == IF a < b THEN 0 ELSE a - b

(* Variant: the request is not counted. *)
AddRequestUncounted(p, d, isl, blocks) ==
  /\ prefillTokens' = [prefillTokens EXCEPT ![p] = @ + isl]
  /\ decodeBlocks' = [decodeBlocks EXCEPT ![d] = @ + blocks]
  /\ UNCHANGED prefillRequests

(* Dispatch: charge the whole prompt to prefill worker p and the prompt's  *)
(* blocks to decode worker d.                                              *)
AddRequest(p, d, isl, blocks) ==
  /\ prefillTokens' = [prefillTokens EXCEPT ![p] = @ + isl]
  /\ prefillRequests' = [prefillRequests EXCEPT ![p] = @ + 1]
  /\ decodeBlocks' = [decodeBlocks EXCEPT ![d] = @ + blocks]

(* First token: release the prompt charge and nothing else. *)
MarkPrefillCompleted(p, isl) ==
  /\ prefillTokens' = [prefillTokens EXCEPT ![p] = Monus(@, isl)]
  /\ UNCHANGED <<prefillRequests, decodeBlocks>>

(* Variant: the request count is not released. *)
FreeKeepsRequest(p, d, blocks) ==
  /\ decodeBlocks' = [decodeBlocks EXCEPT ![d] = Monus(@, blocks)]
  /\ UNCHANGED <<prefillTokens, prefillRequests>>

(* Variant: the blocks are not released. *)
FreeKeepsBlocks(p, d, blocks) ==
  /\ prefillRequests' = [prefillRequests EXCEPT ![p] = Monus(@, 1)]
  /\ UNCHANGED <<prefillTokens, decodeBlocks>>

(* End of the stream: release the decode blocks and the request count. *)
Free(p, d, blocks) ==
  /\ decodeBlocks' = [decodeBlocks EXCEPT ![d] = Monus(@, blocks)]
  /\ prefillRequests' = [prefillRequests EXCEPT ![p] = Monus(@, 1)]
  /\ UNCHANGED prefillTokens

(* The row the cost function reads.  It is looked up with ONE index, so    *)
(* for a prefill worker the decode column is that of the decode worker in  *)
(* the same position.                                                      *)
Snapshot(w) == [ active_prefill_tokens |-> prefillTokens[w],
                 active_decode_blocks  |-> decodeBlocks[w],
                 active_requests       |-> prefillRequests[w] ]
=============================================================================
