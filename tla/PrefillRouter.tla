---------------------------- MODULE PrefillRouter ----------------------------
(***************************************************************************)
(* Worker selection, src/router/prefill_router.py: filter, score, pick.    *)
(* The router owns the load counters and the block index it reads; the     *)
(* frontend that calls it (Gateway.tla) releases and records on the same   *)
(* two objects.  What a worker costs, and which of them is picked, is in   *)
(* Selection.tla.                                                          *)
(***************************************************************************)
EXTENDS Integers, FiniteSets

CONSTANTS
  Url,                  \* worker base URLs
  NumPrefill,           \* len(prefill_urls)
  NumDecode,            \* len(decode_urls)
  PrefillUrls,          \* the URL at each position of the prefill pool
  DecodeUrls,           \* the URL at each position of the decode pool
  Hash,                 \* block hashes
  Mode,                 \* --router-mode
  BlockSize,
  OverlapCredit,        \* overlap_score_credit
  Decay,                \* overlap_score_credit_decay
  PrefillLoadScale,
  RequestWeight,        \* decode_active_request_weight
  Softmin,              \* router_temperature > 0
  NoLimit,              \* a threshold of None
  PrefillThreshold,     \* active_prefill_tokens_threshold
  DecodeThreshold       \* decode_blocks_threshold

VARIABLES
  prefillTokens, prefillRequests, decodeBlocks,    \* SlotManager
  locations,                                       \* KvIndexer
  rr                                               \* _rr

Prefills == 0 .. NumPrefill - 1
Decodes  == 0 .. NumDecode - 1
Worker   == Prefills \cup Decodes

(* The command line requires at least one port per pool (nargs="+"), which *)
(* the two modes that do not look for candidates depend on.                *)
ASSUME PoolsAssumption ==
  /\ NumPrefill \in Nat /\ NumDecode \in Nat
  /\ PrefillUrls \in [Prefills -> Url]
  /\ DecodeUrls \in [Decodes -> Url]
  /\ Mode \in {"kv", "round-robin", "random"}
  /\ Mode # "kv" => NumPrefill > 0 /\ NumDecode > 0

ASSUME CostAssumption ==
  /\ BlockSize \in Nat \ {0}
  /\ OverlapCredit \in Nat /\ Decay \in Nat /\ PrefillLoadScale \in Nat /\ RequestWeight \in Nat
  /\ Softmin \in BOOLEAN
  /\ PrefillThreshold \in Nat \cup {NoLimit}
  /\ DecodeThreshold \in Nat \cup {NoLimit}

Slots == INSTANCE SlotManager
Index == INSTANCE KvIndexer
Choice == INSTANCE Selection

routerVars == <<prefillTokens, prefillRequests, decodeBlocks, locations, rr>>

RouterInit == Slots!Init /\ Index!Init /\ rr = 0

RouterTypeOK == Slots!TypeOK /\ Index!TypeOK /\ rr \in Nat

(* _make_route.  Everything else in a Route is a table lookup at p.        *)
Route == [p : Prefills, d : Decodes]

(***************************************************************************)
(* Filter: quarantined URLs, then workers above the busy threshold.        *)
(***************************************************************************)
Within(load, threshold) == threshold # NoLimit => load <= threshold

EligiblePrefill(inhibited) ==
  {p \in Prefills : /\ PrefillUrls[p] \notin inhibited
                    /\ Within(prefillTokens[p], PrefillThreshold)}

(* Variant: quarantine is not looked at. *)
EligibleDecodeInhibited(inhibited) ==
  {d \in Decodes : Within(decodeBlocks[d], DecodeThreshold)}

EligibleDecode(inhibited) ==
  {d \in Decodes : /\ DecodeUrls[d] \notin inhibited
                   /\ Within(decodeBlocks[d], DecodeThreshold)}

(* The first pool without a survivor decides how a request is turned away: *)
(* overloaded if the pool has any worker at all, unavailable if it has     *)
(* none (_any_compatible).                                                 *)
Rejection(prefills) ==
  LET size == IF prefills = {} THEN NumPrefill ELSE NumDecode
  IN  IF size > 0 THEN "overloaded" ELSE "unavailable"

(***************************************************************************)
(* Score and pick.                                                         *)
(***************************************************************************)
(* The cost of a prefill worker, given the least prompt load among the     *)
(* candidates.  Its snapshot row has the worker's position as its only key.*)
PrefillCost(p, isl, hashes, least) ==
  Choice!Score(Slots!Snapshot(p), isl, Index!Overlap(p, "prefill", hashes), least)

LeastPrefillTokens(candidates) ==
  CHOOSE n \in {prefillTokens[p] : p \in candidates} :
    \A p \in candidates : n <= prefillTokens[p]

SelectPrefillWorker(isl, hashes, candidates) ==
  LET least == IF Decay > 0 THEN LeastPrefillTokens(candidates) ELSE 0
  IN  Choice!Pick([p \in candidates |-> PrefillCost(p, isl, hashes, least)])

SelectDecode(hashes, candidates) ==
  Choice!Pick([d \in candidates |-> Choice!Whole(decodeBlocks[d] + Cardinality(hashes))])

(***************************************************************************)
(* The three modes of route(), after the affinity lookup.                  *)
(***************************************************************************)
(* kv: route goes to a best worker of each pool and is charged there.      *)
RouteKv(route, isl, hashes, inhibited) ==
  /\ Mode = "kv"
  /\ route.p \in SelectPrefillWorker(isl, hashes, EligiblePrefill(inhibited))
  /\ route.d \in SelectDecode(hashes, EligibleDecode(inhibited))
  /\ Slots!AddRequest(route.p, route.d, isl, Cardinality(hashes))
  /\ UNCHANGED <<locations, rr>>

NoCandidates(inhibited) ==
  /\ Mode = "kv"
  /\ EligiblePrefill(inhibited) = {} \/ EligibleDecode(inhibited) = {}

(* Variant: the counter does not advance. *)
RouteRoundRobinStuck(route) ==
  /\ Mode = "round-robin"
  /\ route = [p |-> rr % NumPrefill, d |-> (rr + 1) % NumDecode]
  /\ UNCHANGED routerVars

(* The counter advances between the two halves of the route. *)
RouteRoundRobin(route) ==
  /\ Mode = "round-robin"
  /\ route = [p |-> rr % NumPrefill, d |-> (rr + 1) % NumDecode]
  /\ rr' = rr + 1
  /\ UNCHANGED <<prefillTokens, prefillRequests, decodeBlocks, locations>>

RouteRandom(route) ==
  /\ Mode = "random"
  /\ route \in Route
  /\ UNCHANGED routerVars
=============================================================================
