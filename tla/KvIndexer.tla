----------------------------- MODULE KvIndexer -----------------------------
(***************************************************************************)
(* The block-location index of src/router/kv_indexer.py.  The Python       *)
(* structure hash -> {(worker_id, role)} is the relation it represents: a  *)
(* set of <<hash, worker, role>> triples.                                  *)
(***************************************************************************)
EXTENDS Integers, FiniteSets, FiniteSetsExt, Functions

CONSTANTS Hash,     \* block hashes
          Worker    \* positions in the prefill and decode pools

VARIABLE locations

Role == {"prefill", "decode"}

Init == locations = {}

TypeOK == locations \subseteq Hash \X Worker \X Role

Record(hashes, w, role) ==
  locations' = locations \cup {<<h, w, role>> : h \in hashes}

Forget(hashes, w, role) ==
  locations' = locations \ {<<h, w, role>> : h \in hashes}

WorkerBlocks(w, role) == {l[1] : l \in {k \in locations : k[2] = w /\ k[3] = role}}

Overlap(w, role, hashes) == Cardinality(WorkerBlocks(w, role) \cap hashes)

(* Variant: holders of either role count. *)
FindMatchesAnyRole(hashes, role, workers) ==
  LET Holders(h) == {w \in workers : \E any \in Role : <<h, w, any>> \in locations}
      Count(h, scores) ==
        [w \in DOMAIN scores \cup Holders(h) |->
           (IF w \in DOMAIN scores THEN scores[w] ELSE 0)
             + (IF w \in Holders(h) THEN 1 ELSE 0)]
  IN  FoldSet(Count, <<>>, hashes)

(* find_matches_for_request walks the request's hashes and counts one for  *)
(* every holder of the right role among the eligible workers; a worker     *)
(* without a match does not appear in the answer.                          *)
FindMatches(hashes, role, workers) ==
  LET Holders(h) == {w \in workers : <<h, w, role>> \in locations}
      Count(h, scores) ==
        [w \in DOMAIN scores \cup Holders(h) |->
           (IF w \in DOMAIN scores THEN scores[w] ELSE 0)
             + (IF w \in Holders(h) THEN 1 ELSE 0)]
  IN  FoldSet(Count, <<>>, hashes)
=============================================================================
