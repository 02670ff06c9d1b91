------------------------------ MODULE Selection ------------------------------
(***************************************************************************)
(* How the router values and picks a worker, as pure functions: KvRouter   *)
(* and _pick of src/router/prefill_router.py.                              *)
(*                                                                         *)
(* A cost is an exact fraction, in tokens rather than blocks: the code's   *)
(* logit times block_size, which orders workers alike.  The weights are    *)
(* natural numbers, and nothing is rounded.                                *)
(***************************************************************************)
EXTENDS Integers, Sequences

CONSTANTS BlockSize,
          OverlapCredit,        \* overlap_score_credit
          Decay,                \* overlap_score_credit_decay
          PrefillLoadScale,
          RequestWeight,        \* decode_active_request_weight
          Softmin               \* router_temperature > 0

Fraction(n, d) == [num |-> n, den |-> d]
Whole(n) == Fraction(n, 1)
Leq(a, b) == a.num * b.den <= b.num * a.den

(* The tokens of max(ceil(isl / block_size), 1) blocks. *)
RequestTokens(isl) ==
  BlockSize * (IF isl = 0 THEN 1 ELSE (isl + BlockSize - 1) \div BlockSize)

(* Variant: the credit grows with the excess. *)
CreditGrows(tokens, isl, least) ==
  IF Decay = 0 \/ least = 0 THEN Whole(1)
  ELSE LET excess == IF tokens > least THEN tokens - least ELSE 0
       IN  Fraction(RequestTokens(isl) + Decay * excess, RequestTokens(isl))

(* What is left of the overlap credit of a worker with this many prompt    *)
(* tokens: 1 / (1 + decay * excess / request).  The excess is over the     *)
(* least loaded candidate; an idle one turns the decay off for all.        *)
CreditLeft(tokens, isl, least) ==
  IF Decay = 0 \/ least = 0 THEN Whole(1)
  ELSE LET excess == IF tokens > least THEN tokens - least ELSE 0
       IN  Fraction(RequestTokens(isl), RequestTokens(isl) + Decay * excess)

(* KvRouter.score.  row is a snapshot row of the slot manager. *)
Score(row, isl, overlap, least) ==
  LET left     == CreditLeft(row.active_prefill_tokens, isl, least)
      raw      == (row.active_prefill_tokens + isl) * left.den
      credit   == OverlapCredit * BlockSize * overlap * left.num
      adjusted == IF raw > credit THEN raw - credit ELSE 0
      fixed    == BlockSize * (row.active_decode_blocks
                                 + RequestWeight * row.active_requests)
  IN  Fraction(PrefillLoadScale * adjusted + fixed * left.den, left.den)

(* _pick: a cheapest worker, any of them on a tie; at a positive           *)
(* temperature (_softmin) every worker has some probability.               *)
Pick(cost) ==
  IF Softmin THEN DOMAIN cost
             ELSE {w \in DOMAIN cost : \A v \in DOMAIN cost : Leq(cost[w], cost[v])}

-----------------------------------------------------------------------------
(* The walk by which _pick gets there at temperature 0, over the costs in  *)
(* the order of the candidates: the best so far, how many tied with it,    *)
(* and the chance of each position to be the one kept.                     *)

Nobody(n) == [best |-> Whole(0), ties |-> 0, chance |-> [i \in 1 .. n |-> Whole(0)]]

(* Variant: a new best does not start a new count. *)
TakeOverKeepsTies(seen, cost, i) ==
  [ best   |-> cost, ties |-> seen.ties + 1,
    chance |-> [j \in DOMAIN seen.chance |-> Whole(IF j = i THEN 1 ELSE 0)] ]

TakeOver(seen, cost, i) ==
  [ best   |-> cost, ties |-> 1,
    chance |-> [j \in DOMAIN seen.chance |-> Whole(IF j = i THEN 1 ELSE 0)] ]

(* The n-th of equals takes over with chance 1 / n: randint(0, n - 1) = 0. *)
Tie(seen, i) ==
  LET n == seen.ties + 1
  IN  [ seen EXCEPT !.ties = n,
          !.chance = [j \in DOMAIN @ |->
            IF j = i THEN Fraction(1, n) ELSE Fraction(@[j].num * (n - 1), @[j].den * n)] ]

Visit(seen, cost, i) ==
  IF seen.ties = 0 \/ ~Leq(seen.best, cost) THEN TakeOver(seen, cost, i)
  ELSE IF Leq(cost, seen.best) THEN Tie(seen, i)
  ELSE seen

Reservoir(costs) ==
  LET Walk[i \in 0 .. Len(costs)] ==
        IF i = 0 THEN Nobody(Len(costs)) ELSE Visit(Walk[i - 1], costs[i], i)
  IN  Walk[Len(costs)].chance
=============================================================================
