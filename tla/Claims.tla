------------------------------- MODULE Claims -------------------------------
(***************************************************************************)
(* Statements that comments and documents of the repository make about the *)
(* gateway and that its code does not keep.  Each has a run that shows how *)
(* (README.md, "Disagreements").                                           *)
(***************************************************************************)
EXTENDS Gateway

(* slot_manager.py lists free as the end of every request's lifecycle,     *)
(* _finish_push promises to await the producer, then release, and          *)
(* frontend.py adds that load must not leak.  So when every request and    *)
(* every producer has come to its end, no worker shows load.               *)
LoadReturns ==
  (\A r \in Req : /\ ~InFlight(r)
                  /\ producer[r] # "running"
                  /\ phase[r] \in Closed => producer[r] # "drained") =>
     /\ prefillTokens = Slots!Zero
     /\ prefillRequests = Slots!Zero
     /\ decodeBlocks = Slots!Zero

(* dispatch says of its inhibit call that the next request skips the       *)
(* failed worker for INHIBIT_SECS.                                         *)
QuarantineSkipped ==
  [][\A r \in Req : Starts(r) => DecodeUrls[route'[r].d] \notin quarantined]_vars

(* slot_manager.py: add_request is called at dispatch.  So a request that  *)
(* is streaming is part of its worker's load.                              *)
StreamIsCounted ==
  \A r \in Req : phase[r] = "streaming" =>
    decodeBlocks[route[r].d] >= Cardinality(Blocks[r])

(* A snapshot row is one worker's.  So two prefill workers with the same   *)
(* prompt load, request count and overlap cost a request the same.         *)
PrefillCostIsItsOwn ==
  \A r \in Req, p, q \in Prefills :
    /\ prefillTokens[p] = prefillTokens[q]
    /\ prefillRequests[p] = prefillRequests[q]
    /\ Index!Overlap(p, "prefill", Blocks[r]) = Index!Overlap(q, "prefill", Blocks[r])
    => PrefillCost(p, Isl[r], Blocks[r], 0) = PrefillCost(q, Isl[r], Blocks[r], 0)
=============================================================================
