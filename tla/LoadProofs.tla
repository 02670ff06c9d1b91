----------------------------- MODULE LoadProofs -----------------------------
(***************************************************************************)
(* Theorems about the numbers of the serving path.  The load counters      *)
(* never claim more than the requests that were charged and have not been  *)
(* released hold; where no request names a conversation they are exact,    *)
(* and the gateway implements the ledger; the modes that charge nothing    *)
(* leave them at rest; and round-robin deals out even turns.               *)
(***************************************************************************)
EXTENDS GatewayProofs

-----------------------------------------------------------------------------
(* Shares: how much a set of requests holds together.                      *)

(* What finitely many requests hold is finite if each one's share is. *)
LEMMA SharesFinite ==
  ASSUME NEW S, IsFiniteSet(S), NEW B, \A r \in S : IsFiniteSet(B[r])
  PROVE  IsFiniteSet(Shares(S, B)) /\ Cardinality(Shares(S, B)) \in Nat
<1> DEFINE part == [r \in S |-> {r} \X B[r]]
           parts == {{r} \X B[r] : r \in S}
<1>1. part \in Surjection(S, parts)
  BY DEF Surjection
<1>2. IsFiniteSet(parts)
  BY <1>1, FS_Surjection
<1>3. ASSUME NEW T \in parts PROVE IsFiniteSet(T)
  <2>1. PICK r \in S : T = {r} \X B[r]
    OBVIOUS
  <2>2. IsFiniteSet({r})
    BY FS_Singleton
  <2>3. QED
    BY <2>1, <2>2, FS_Product
<1>4. IsFiniteSet(UNION parts)
  BY <1>2, <1>3, FS_UNION
<1>5. QED
  BY <1>4, FS_CardinalityType DEF Shares

(* A request that joins adds the size of its share. *)
LEMMA SharesJoin ==
  ASSUME NEW S, IsFiniteSet(S), NEW r, r \notin S,
         NEW B, \A q \in S \cup {r} : IsFiniteSet(B[q])
  PROVE  Cardinality(Shares(S \cup {r}, B)) = Cardinality(Shares(S, B)) + Cardinality(B[r])
<1>1. Shares(S \cup {r}, B) = Shares(S, B) \cup ({r} \X B[r])
  BY DEF Shares
<1>2. Shares(S, B) \cap ({r} \X B[r]) = {}
  BY DEF Shares
<1>3. IsFiniteSet(Shares(S, B)) /\ Cardinality(Shares(S, B)) \in Nat
  BY SharesFinite
<1>4. /\ IsFiniteSet({r} \X B[r])
      /\ Cardinality({r} \X B[r]) = Cardinality(B[r])
      /\ Cardinality(B[r]) \in Nat
  <2>1. IsFiniteSet({r}) /\ Cardinality({r}) = 1
    BY FS_Singleton
  <2>2. Cardinality(B[r]) \in Nat /\ IsFiniteSet(B[r])
    BY FS_CardinalityType
  <2>3. IsFiniteSet({r} \X B[r]) /\ Cardinality({r} \X B[r]) = 1 * Cardinality(B[r])
    BY <2>1, <2>2, FS_Product
  <2>4. QED
    BY <2>2, <2>3
<1> DEFINE A == Shares(S, B)
           C == {r} \X B[r]
<1>5. /\ Shares(S \cup {r}, B) = A \cup C
      /\ A \cap C = {} /\ IsFiniteSet(A) /\ IsFiniteSet(C)
      /\ Cardinality(A) \in Nat
      /\ Cardinality(C) = Cardinality(B[r]) /\ Cardinality(B[r]) \in Nat
  BY <1>1, <1>2, <1>3, <1>4
<1> HIDE DEF A, C
<1>6. Cardinality(A \cup C) = Cardinality(A) + Cardinality(C) - Cardinality(A \cap C)
  BY <1>5, FS_Union
<1>7. Cardinality(A \cap C) = 0
  BY <1>5, FS_EmptySet
<1>8. Cardinality(A \cup C) = Cardinality(A) + Cardinality(B[r])
  BY <1>5, <1>6, <1>7
<1>9. QED
  BY <1>5, <1>8 DEF A

(* A counter that does not exceed what S holds does not exceed it after r  *)
(* leaves S, if r's share is taken off (and it may be taken off again).    *)
LEMMA SharesLeave ==
  ASSUME NEW S, IsFiniteSet(S), NEW r,
         NEW B, \A q \in S \cup {r} : IsFiniteSet(B[q]),
         NEW c \in Nat, c <= Cardinality(Shares(S, B))
  PROVE  Slots!Monus(c, Cardinality(B[r])) <= Cardinality(Shares(S \ {r}, B))
<1> DEFINE R == S \ {r}
<1>1. IsFiniteSet(R)
  BY FS_RemoveElement
<1>2. Cardinality(Shares(R, B)) \in Nat /\ Cardinality(B[r]) \in Nat
  BY <1>1, SharesFinite, FS_CardinalityType
<1>3. CASE r \in S
  <2>1. Cardinality(Shares(R \cup {r}, B)) = Cardinality(Shares(R, B)) + Cardinality(B[r])
    BY <1>1, SharesJoin
  <2>2. R \cup {r} = S
    BY <1>3
  <2>3. c <= Cardinality(Shares(R, B)) + Cardinality(B[r])
    BY <2>1, <2>2
  <2>4. QED
    BY <1>2, <2>3 DEF Slots!Monus
<1>4. CASE r \notin S
  <2>1. R = S
    BY <1>4
  <2>2. QED
    BY <1>2, <2>1 DEF Slots!Monus
<1>5. QED
  BY <1>3, <1>4

-----------------------------------------------------------------------------
(* Every prompt's tokens and blocks are finite in number. *)
LEMMA ShareSizes ==
  \A r \in Req : /\ IsFiniteSet(Blocks[r])
                 /\ IsFiniteSet(Tokens[r]) /\ Cardinality(Tokens[r]) = Isl[r]
<1> TAKE r \in Req
<1>1. Tokens[r] = 1 .. Isl[r] /\ Isl[r] \in Nat
  BY RequestAssumption DEF Tokens
<1>2. IsFiniteSet(1 .. Isl[r])
      /\ Cardinality(1 .. Isl[r]) = IF 1 > Isl[r] THEN 0 ELSE Isl[r] - 1 + 1
  BY <1>1, FS_Interval
<1>3. QED
  BY <1>1, <1>2, RequestAssumption

(* The sets of holders are sets of requests, hence finite. *)
LEMMA HoldersFinite ==
  ASSUME WellFormed
  PROVE  /\ \A p : IsFiniteSet(HoldsPrompt(p)) /\ HoldsPrompt(p) \subseteq Req
         /\ \A p : IsFiniteSet(OpenOn(p)) /\ OpenOn(p) \subseteq Req
         /\ \A d : IsFiniteSet(HoldsBlocks(d)) /\ HoldsBlocks(d) \subseteq Req
<1>1. charged \subseteq Req
  BY DEF WellFormed, TypeOK
<1>2. \A S \in SUBSET Req : IsFiniteSet(S)
  BY FS_Subset, RequestAssumption
<1>3. QED
  BY <1>1, <1>2 DEF HoldsPrompt, OpenOn, HoldsBlocks

(* Where the counters and the holders are as before, so is the bound. *)
LEMMA NothingMoves ==
  ASSUME LoadNeverOvercharged,
         UNCHANGED <<prefillTokens, prefillRequests, decodeBlocks>>,
         \A p \in Prefills : HoldsPrompt(p)' = HoldsPrompt(p) /\ OpenOn(p)' = OpenOn(p),
         \A d \in Decodes : HoldsBlocks(d)' = HoldsBlocks(d)
  PROVE  LoadNeverOvercharged'
  BY DEF LoadNeverOvercharged, TokensHeld, BlocksHeld

-----------------------------------------------------------------------------
LEMMA InitLoad == Init => LoadNeverOvercharged
<1> SUFFICES ASSUME Init PROVE LoadNeverOvercharged
  OBVIOUS
<1>1. /\ \A p : TokensHeld(p) = {} /\ OpenOn(p) = {}
      /\ \A d : BlocksHeld(d) = {}
  BY DEF Init, TokensHeld, BlocksHeld, HoldsPrompt, HoldsBlocks, OpenOn, Shares
<1>2. /\ \A p \in Prefills : prefillTokens[p] = 0 /\ prefillRequests[p] = 0
      /\ \A d \in Decodes : decodeBlocks[d] = 0
  BY DEF Init, RouterInit, Slots!Init, Slots!Zero, Worker
<1>3. QED
  BY <1>1, <1>2, FS_EmptySet DEF LoadNeverOvercharged

(* Charging a request: it becomes a holder where it is charged. *)
LEMMA ScoredKeepsLoad ==
  ASSUME WellFormed, LoadNeverOvercharged, NEW r \in Req, RouteScored(r)
  PROVE  LoadNeverOvercharged'
<1>1. PICK rt \in Route : RouteKv(rt, Isl[r], Blocks[r], quarantined) /\ Dispatch(r, rt)
  BY DEF RouteScored
<1>t. /\ phase \in [Req -> Phase] /\ producer \in [Req -> Producer]
      /\ route \in [Req -> Route \cup {NoRoute}] /\ charged \subseteq Req
      /\ prefillTokens \in [Worker -> Nat] /\ prefillRequests \in [Worker -> Nat]
      /\ decodeBlocks \in [Worker -> Nat]
  BY DEF WellFormed, TypeOK, RouterTypeOK, Slots!TypeOK
<1>2. r \notin charged /\ charged' = charged \cup {r}
  BY DEF RouteScored, WellFormed, Lifecycle, Arrives, Dispatched, Streamed, Failed
<1>3. /\ \A q \in charged : /\ phase'[q] = phase[q] /\ producer'[q] = producer[q]
                            /\ route'[q] = route[q]
      /\ phase'[r] = "dispatched" /\ producer'[r] = "running" /\ route'[r] = rt
  BY <1>1, <1>2, <1>t DEF Dispatch
<1>4. Slots!AddRequest(rt.p, rt.d, Isl[r], Cardinality(Blocks[r]))
  BY <1>1 DEF RouteKv
<1>s. Isl[r] \in Nat /\ Cardinality(Blocks[r]) \in Nat
  BY BlockCount, RequestAssumption
<1>5. ASSUME NEW p \in Prefills
      PROVE  /\ prefillTokens'[p] <= Cardinality(TokensHeld(p)')
             /\ prefillRequests'[p] <= Cardinality(OpenOn(p)')
  <2>1. p \in Worker
    BY DEF Worker
  <2>2. /\ prefillTokens[p] <= Cardinality(TokensHeld(p))
        /\ prefillRequests[p] <= Cardinality(OpenOn(p))
    BY DEF LoadNeverOvercharged
  <2>3. CASE rt.p = p
    <3>1. /\ HoldsPrompt(p)' = HoldsPrompt(p) \cup {r} /\ r \notin HoldsPrompt(p)
          /\ OpenOn(p)' = OpenOn(p) \cup {r} /\ r \notin OpenOn(p)
      BY <1>2, <1>3, <2>3 DEF HoldsPrompt, OpenOn, Closed
    <3>2. prefillTokens'[p] = prefillTokens[p] + Isl[r]
          /\ prefillRequests'[p] = prefillRequests[p] + 1
      BY <1>4, <1>t, <2>1, <2>3 DEF Slots!AddRequest
    <3>3. Cardinality(TokensHeld(p)') = Cardinality(TokensHeld(p)) + Isl[r]
      <4>1. Cardinality(Shares(HoldsPrompt(p) \cup {r}, Tokens))
              = Cardinality(Shares(HoldsPrompt(p), Tokens)) + Cardinality(Tokens[r])
        <5>1. \A q \in HoldsPrompt(p) \cup {r} : IsFiniteSet(Tokens[q])
          BY HoldersFinite, ShareSizes
        <5>2. QED
          BY <3>1, <5>1, HoldersFinite, SharesJoin
      <4>2. TokensHeld(p)' = Shares(HoldsPrompt(p) \cup {r}, Tokens)
        BY <3>1 DEF TokensHeld
      <4>3. QED
        BY <4>1, <4>2, ShareSizes DEF TokensHeld
    <3>4. Cardinality(OpenOn(p)') = Cardinality(OpenOn(p)) + 1
      BY <3>1, HoldersFinite, FS_AddElement
    <3>5. Cardinality(TokensHeld(p)) \in Nat /\ Cardinality(OpenOn(p)) \in Nat
      BY HoldersFinite, ShareSizes, SharesFinite, FS_CardinalityType DEF TokensHeld
    <3>6. QED
      BY <1>t, <1>s, <2>1, <2>2, <3>2, <3>3, <3>4, <3>5
  <2>4. CASE rt.p # p
    <3>1. HoldsPrompt(p)' = HoldsPrompt(p) /\ OpenOn(p)' = OpenOn(p)
      BY <1>2, <1>3, <2>4 DEF HoldsPrompt, OpenOn, Closed
    <3>2. prefillTokens'[p] = prefillTokens[p] /\ prefillRequests'[p] = prefillRequests[p]
      BY <1>4, <1>t, <2>1, <2>4 DEF Slots!AddRequest
    <3>3. QED
      BY <2>2, <3>1, <3>2 DEF TokensHeld
  <2>5. QED
    BY <2>3, <2>4
<1>6. ASSUME NEW d \in Decodes PROVE decodeBlocks'[d] <= Cardinality(BlocksHeld(d)')
  <2>1. d \in Worker
    BY DEF Worker
  <2>2. decodeBlocks[d] <= Cardinality(BlocksHeld(d))
    BY DEF LoadNeverOvercharged
  <2>3. CASE rt.d = d
    <3>1. HoldsBlocks(d)' = HoldsBlocks(d) \cup {r} /\ r \notin HoldsBlocks(d)
      BY <1>2, <1>3, <2>3 DEF HoldsBlocks, Closed
    <3>2. decodeBlocks'[d] = decodeBlocks[d] + Cardinality(Blocks[r])
      BY <1>4, <1>t, <2>1, <2>3 DEF Slots!AddRequest
    <3>3. Cardinality(BlocksHeld(d)') = Cardinality(BlocksHeld(d)) + Cardinality(Blocks[r])
      BY <3>1, HoldersFinite, ShareSizes, SharesJoin DEF BlocksHeld
    <3>4. Cardinality(BlocksHeld(d)) \in Nat
      BY HoldersFinite, ShareSizes, SharesFinite DEF BlocksHeld
    <3>5. QED
      BY <1>t, <1>s, <2>1, <2>2, <3>2, <3>3, <3>4
  <2>4. CASE rt.d # d
    <3>1. HoldsBlocks(d)' = HoldsBlocks(d)
      BY <1>2, <1>3, <2>4 DEF HoldsBlocks, Closed
    <3>2. decodeBlocks'[d] = decodeBlocks[d]
      BY <1>4, <1>t, <2>1, <2>4 DEF Slots!AddRequest
    <3>3. QED
      BY <2>2, <3>1, <3>2 DEF BlocksHeld
  <2>5. QED
    BY <2>3, <2>4
<1>7. QED
  BY <1>5, <1>6 DEF LoadNeverOvercharged

(* The finisher releases the prompt of a request, charged or not. *)
LEMMA FinishKeepsLoad ==
  ASSUME WellFormed, LoadNeverOvercharged, NEW r \in Req, FinishPush(r)
  PROVE  LoadNeverOvercharged'
<1>t. /\ producer \in [Req -> Producer] /\ prefillTokens \in [Worker -> Nat]
      /\ route[r] \in Route /\ Isl[r] \in Nat
  BY RequestAssumption DEF WellFormed, TypeOK, RouterTypeOK, Slots!TypeOK, Lifecycle,
     FinishPush, Dispatched, Streamed
<1>1. /\ producer' = [producer EXCEPT ![r] = "released"]
      /\ UNCHANGED <<phase, route, charged, prefillRequests, decodeBlocks>>
      /\ prefillTokens' = [prefillTokens EXCEPT ![route[r].p] = Slots!Monus(@, Isl[r])]
  BY DEF FinishPush, Slots!MarkPrefillCompleted
<1>2. /\ \A p \in Prefills : OpenOn(p)' = OpenOn(p)
      /\ \A d \in Decodes : HoldsBlocks(d)' = HoldsBlocks(d)
  BY <1>1 DEF OpenOn, HoldsBlocks
<1>3. ASSUME NEW p \in Prefills PROVE prefillTokens'[p] <= Cardinality(TokensHeld(p)')
  <2>1. p \in Worker
    BY DEF Worker
  <2>2. prefillTokens[p] <= Cardinality(TokensHeld(p))
    BY DEF LoadNeverOvercharged
  <2>3. CASE route[r].p = p
    <3>1. HoldsPrompt(p)' = HoldsPrompt(p) \ {r}
      <4>1. charged \subseteq Req
        BY DEF WellFormed, TypeOK
      <4>2. QED
        BY <1>1, <1>t, <4>1 DEF HoldsPrompt
    <3>2. prefillTokens'[p] = Slots!Monus(prefillTokens[p], Cardinality(Tokens[r]))
      BY <1>1, <1>t, <2>1, <2>3, ShareSizes
    <3>3. Slots!Monus(prefillTokens[p], Cardinality(Tokens[r]))
            <= Cardinality(Shares(HoldsPrompt(p) \ {r}, Tokens))
      BY <1>t, <2>1, <2>2, HoldersFinite, ShareSizes, SharesLeave DEF TokensHeld
    <3>4. QED
      BY <3>1, <3>2, <3>3 DEF TokensHeld
  <2>4. CASE route[r].p # p
    <3>1. HoldsPrompt(p)' = HoldsPrompt(p)
      <4>1. charged \subseteq Req
        BY DEF WellFormed, TypeOK
      <4>2. QED
        BY <1>1, <1>t, <2>4, <4>1 DEF HoldsPrompt
    <3>2. prefillTokens'[p] = prefillTokens[p]
      BY <1>1, <1>t, <2>1, <2>4
    <3>3. QED
      BY <2>2, <3>1, <3>2 DEF TokensHeld
  <2>5. QED
    BY <2>3, <2>4
<1>4. QED
  BY <1>1, <1>2, <1>3 DEF LoadNeverOvercharged, BlocksHeld

(* The end of a stream frees its blocks and its place, charged or not. *)
LEMMA EndKeepsLoad ==
  ASSUME WellFormed, LoadNeverOvercharged, NEW r \in Req, NEW out \in Closed, EndStream(r, out)
  PROVE  LoadNeverOvercharged'
<1>t. /\ phase \in [Req -> Phase] /\ charged \subseteq Req
      /\ prefillRequests \in [Worker -> Nat] /\ decodeBlocks \in [Worker -> Nat]
      /\ route[r] \in Route /\ Cardinality(Blocks[r]) \in Nat
  BY BlockCount DEF WellFormed, TypeOK, RouterTypeOK, Slots!TypeOK, Lifecycle,
     EndStream, Dispatched, Streamed
<1>1. /\ phase' = [phase EXCEPT ![r] = out]
      /\ UNCHANGED <<producer, route, charged, prefillTokens>>
      /\ decodeBlocks' = [decodeBlocks EXCEPT
                            ![route[r].d] = Slots!Monus(@, Cardinality(Blocks[r]))]
      /\ prefillRequests' = [prefillRequests EXCEPT ![route[r].p] = Slots!Monus(@, 1)]
  BY DEF EndStream, Answer, Slots!Free
<1>2. ASSUME NEW p \in Prefills
      PROVE  /\ prefillTokens'[p] <= Cardinality(TokensHeld(p)')
             /\ prefillRequests'[p] <= Cardinality(OpenOn(p)')
  <2>1. p \in Worker
    BY DEF Worker
  <2>2. /\ prefillTokens[p] <= Cardinality(TokensHeld(p))
        /\ prefillRequests[p] <= Cardinality(OpenOn(p))
    BY DEF LoadNeverOvercharged
  <2>3. TokensHeld(p)' = TokensHeld(p)
    BY <1>1 DEF TokensHeld, HoldsPrompt
  <2>4. CASE route[r].p = p
    <3>1. OpenOn(p)' = OpenOn(p) \ {r}
      BY <1>1, <1>t DEF OpenOn
    <3>2. IsFiniteSet(OpenOn(p)) /\ Cardinality(OpenOn(p)) \in Nat
      BY HoldersFinite, FS_CardinalityType
    <3>3. Cardinality(OpenOn(p) \ {r}) >= Cardinality(OpenOn(p)) - 1
          /\ Cardinality(OpenOn(p) \ {r}) \in Nat
      <4>1. IsFiniteSet(OpenOn(p) \ {r})
            /\ Cardinality(OpenOn(p) \ {r}) =
                 IF r \in OpenOn(p) THEN Cardinality(OpenOn(p)) - 1 ELSE Cardinality(OpenOn(p))
        BY <3>2, FS_RemoveElement
      <4>2. Cardinality(OpenOn(p) \ {r}) \in Nat
        BY <4>1, FS_CardinalityType
      <4>3. QED
        BY <3>2, <4>1, <4>2
    <3>4. prefillRequests'[p] = Slots!Monus(prefillRequests[p], 1)
      BY <1>1, <1>t, <2>1, <2>4
    <3>5. QED
      BY <1>1, <1>t, <2>1, <2>2, <2>3, <3>1, <3>2, <3>3, <3>4 DEF Slots!Monus
  <2>5. CASE route[r].p # p
    <3>1. OpenOn(p)' = OpenOn(p)
      BY <1>1, <1>t, <2>5 DEF OpenOn
    <3>2. prefillRequests'[p] = prefillRequests[p]
      BY <1>1, <1>t, <2>1, <2>5
    <3>3. QED
      BY <1>1, <2>2, <2>3, <3>1, <3>2
  <2>6. QED
    BY <2>4, <2>5
<1>3. ASSUME NEW d \in Decodes PROVE decodeBlocks'[d] <= Cardinality(BlocksHeld(d)')
  <2>1. d \in Worker
    BY DEF Worker
  <2>2. decodeBlocks[d] <= Cardinality(BlocksHeld(d))
    BY DEF LoadNeverOvercharged
  <2>3. CASE route[r].d = d
    <3>1. HoldsBlocks(d)' = HoldsBlocks(d) \ {r}
      BY <1>1, <1>t DEF HoldsBlocks
    <3>2. decodeBlocks'[d] = Slots!Monus(decodeBlocks[d], Cardinality(Blocks[r]))
      BY <1>1, <1>t, <2>1, <2>3
    <3>3. Slots!Monus(decodeBlocks[d], Cardinality(Blocks[r]))
            <= Cardinality(Shares(HoldsBlocks(d) \ {r}, Blocks))
      BY <1>t, <2>1, <2>2, HoldersFinite, ShareSizes, SharesLeave DEF BlocksHeld
    <3>4. QED
      BY <3>1, <3>2, <3>3 DEF BlocksHeld
  <2>4. CASE route[r].d # d
    <3>1. HoldsBlocks(d)' = HoldsBlocks(d)
      BY <1>1, <1>t, <2>4 DEF HoldsBlocks
    <3>2. decodeBlocks'[d] = decodeBlocks[d]
      BY <1>1, <1>t, <2>1, <2>4
    <3>3. QED
      BY <2>2, <3>1, <3>2 DEF BlocksHeld
  <2>5. QED
    BY <2>3, <2>4
<1>4. QED
  BY <1>2, <1>3 DEF LoadNeverOvercharged

LEMMA StepLoad == WellFormed /\ LoadNeverOvercharged /\ [Next]_vars => LoadNeverOvercharged'
<1> SUFFICES ASSUME WellFormed, LoadNeverOvercharged, [Next]_vars
             PROVE  LoadNeverOvercharged'
  OBVIOUS
<1>t. /\ phase \in [Req -> Phase] /\ producer \in [Req -> Producer]
      /\ route \in [Req -> Route \cup {NoRoute}] /\ charged \subseteq Req /\ Lifecycle
  BY DEF WellFormed, TypeOK
<1>1. ASSUME NEW r \in Req, RejectInvalid(r) \/ RejectUnplaced(r) PROVE LoadNeverOvercharged'
  <2>1. r \notin charged /\ UNCHANGED <<producer, route, charged>>
        /\ \A q \in charged : phase'[q] = phase[q]
    BY <1>1, <1>t DEF RejectInvalid, RejectUnplaced, Arrives, Answer, Lifecycle,
       Dispatched, Streamed, Failed
  <2>2. QED
    BY <1>1, <2>1, NothingMoves DEF RejectInvalid, RejectUnplaced, routerVars,
       HoldsPrompt, HoldsBlocks, OpenOn
<1>2. ASSUME NEW r \in Req, FollowBinding(r) \/ RouteBlind(r) PROVE LoadNeverOvercharged'
  <2>1. /\ r \notin charged /\ charged' = charged
        /\ UNCHANGED <<prefillTokens, prefillRequests, decodeBlocks>>
    BY <1>2, <1>t DEF FollowBinding, RouteBlind, RouteRoundRobin, RouteRandom, routerVars,
       Arrives, Lifecycle, Dispatched, Streamed, Failed
  <2>2. \A q \in charged : /\ phase'[q] = phase[q] /\ producer'[q] = producer[q]
                           /\ route'[q] = route[q]
    BY <1>2, <1>t, <2>1 DEF FollowBinding, RouteBlind, Dispatch
  <2>3. QED
    BY <2>1, <2>2, NothingMoves DEF HoldsPrompt, HoldsBlocks, OpenOn
<1>3. ASSUME NEW r \in Req, ProducerEnds(r) PROVE LoadNeverOvercharged'
  <2>1. \A q \in charged : producer'[q] = "released" <=> producer[q] = "released"
    BY <1>3, <1>t DEF ProducerEnds
  <2>2. QED
    BY <1>3, <2>1, NothingMoves DEF ProducerEnds, routerVars, HoldsPrompt, HoldsBlocks, OpenOn
<1>4. ASSUME NEW r \in Req, DecodeLeg(r) PROVE LoadNeverOvercharged'
  <2>1. \A q \in charged : /\ phase'[q] \in Closed <=> phase[q] \in Closed
                           /\ producer'[q] = "released" <=> producer[q] = "released"
    BY <1>4, <1>t DEF DecodeLeg, DecodeAnswers, DecodeRefused, DecodeErrorBodyLost, Answer,
       Closed
  <2>2. UNCHANGED <<route, charged, prefillTokens, prefillRequests, decodeBlocks>>
    BY <1>4 DEF DecodeLeg, DecodeAnswers, DecodeRefused, DecodeErrorBodyLost, Answer, routerVars
  <2>3. QED
    BY <2>1, <2>2, NothingMoves DEF HoldsPrompt, HoldsBlocks, OpenOn
<1>5. ASSUME NEW r \in Req, StreamEnds(r) PROVE LoadNeverOvercharged'
  BY <1>5, EndKeepsLoad DEF StreamEnds, StreamCompletes, StreamAborts, Closed
<1>6. ASSUME NEW us \in SUBSET Url, Expire(us) PROVE LoadNeverOvercharged'
  BY <1>6, NothingMoves DEF Expire, routerVars, requestVars, HoldsPrompt, HoldsBlocks, OpenOn
<1>7. ASSUME UNCHANGED vars PROVE LoadNeverOvercharged'
  BY <1>7, NothingMoves DEF vars, routerVars, requestVars, HoldsPrompt, HoldsBlocks, OpenOn
<1>8. QED
  BY <1>1, <1>2, <1>3, <1>4, <1>5, <1>6, <1>7, ScoredKeepsLoad, FinishKeepsLoad
     DEF Next, Receive, Idle

(* The counters never claim load that no charged request holds. *)
THEOREM LoadIsNeverOvercharged == Spec => []LoadNeverOvercharged
  BY InitWellFormed, StepWellFormed, InitLoad, StepLoad, PTL DEF Spec

-----------------------------------------------------------------------------
(* Where requests name no conversation, the load counters are exact, and   *)
(* the gateway implements the ledger of LoadLedger.  Where nothing is      *)
(* charged, conversations or not, the counters stay at rest.               *)

(* No request carries a conversation_id, so none follows a binding. *)
NoConversations == \A r \in Req : SessionOf[r] = NoSession

(* The scored mode charges every request it places, the others charge none.*)
AllOrNone == charged = IF Mode = "kv" THEN {r \in Req : phase[r] \in Dispatched} ELSE {}

Exact == AllOrNone /\ LoadExact

-----------------------------------------------------------------------------
(* A holder that leaves takes its whole share with it. *)
LEMMA SharesLeaveExact ==
  ASSUME NEW S, IsFiniteSet(S), NEW r \in S,
         NEW B, \A q \in S : IsFiniteSet(B[q])
  PROVE  /\ Cardinality(Shares(S, B)) = Cardinality(Shares(S \ {r}, B)) + Cardinality(B[r])
         /\ Cardinality(Shares(S \ {r}, B)) \in Nat /\ Cardinality(B[r]) \in Nat
<1> DEFINE R == S \ {r}
<1>1. IsFiniteSet(R) /\ r \notin R /\ R \cup {r} = S
  BY FS_RemoveElement
<1>2. Cardinality(Shares(R \cup {r}, B)) = Cardinality(Shares(R, B)) + Cardinality(B[r])
  BY <1>1, SharesJoin
<1>3. Cardinality(Shares(R, B)) \in Nat /\ Cardinality(B[r]) \in Nat
  BY <1>1, SharesFinite, FS_CardinalityType
<1>4. QED
  BY <1>1, <1>2, <1>3

(* What nobody holds has size 0. *)
LEMMA NobodyHolds == \A B : Cardinality(Shares({}, B)) = 0
<1>1. \A B : Shares({}, B) = {}
  BY DEF Shares
<1>2. QED
  BY <1>1, FS_EmptySet

(* Where the counters and the holders are as before, they still agree. *)
LEMMA NothingMovesExact ==
  ASSUME LoadExact,
         UNCHANGED <<prefillTokens, prefillRequests, decodeBlocks>>,
         \A p \in Prefills : HoldsPrompt(p)' = HoldsPrompt(p) /\ OpenOn(p)' = OpenOn(p),
         \A d \in Decodes : HoldsBlocks(d)' = HoldsBlocks(d)
  PROVE  LoadExact'
  BY DEF LoadExact, TokensHeld, BlocksHeld

-----------------------------------------------------------------------------
LEMMA InitExact == Init => Exact
<1> SUFFICES ASSUME Init PROVE Exact
  OBVIOUS
<1>1. /\ \A p : TokensHeld(p) = {} /\ OpenOn(p) = {}
      /\ \A d : BlocksHeld(d) = {}
  BY DEF Init, TokensHeld, BlocksHeld, HoldsPrompt, HoldsBlocks, OpenOn, Shares
<1>2. /\ \A p \in Prefills : prefillTokens[p] = 0 /\ prefillRequests[p] = 0
      /\ \A d \in Decodes : decodeBlocks[d] = 0
  BY DEF Init, RouterInit, Slots!Init, Slots!Zero, Worker
<1>3. LoadExact
  BY <1>1, <1>2, FS_EmptySet DEF LoadExact
<1>4. {r \in Req : phase[r] \in Dispatched} = {} /\ charged = {}
  BY DEF Init, Dispatched, Streamed, Failed
<1>5. QED
  BY <1>3, <1>4 DEF Exact, AllOrNone

(* A placed request joins the holders where it is charged. *)
LEMMA ScoredKeepsExact ==
  ASSUME WellFormed, LoadExact, NEW r \in Req, RouteScored(r)
  PROVE  LoadExact'
<1>1. PICK rt \in Route : RouteKv(rt, Isl[r], Blocks[r], quarantined) /\ Dispatch(r, rt)
  BY DEF RouteScored
<1>t. /\ phase \in [Req -> Phase] /\ producer \in [Req -> Producer]
      /\ route \in [Req -> Route \cup {NoRoute}] /\ charged \subseteq Req
      /\ prefillTokens \in [Worker -> Nat] /\ prefillRequests \in [Worker -> Nat]
      /\ decodeBlocks \in [Worker -> Nat]
  BY DEF WellFormed, TypeOK, RouterTypeOK, Slots!TypeOK
<1>2. r \notin charged /\ charged' = charged \cup {r}
  BY DEF RouteScored, WellFormed, Lifecycle, Arrives, Dispatched, Streamed, Failed
<1>3. /\ \A q \in charged : /\ phase'[q] = phase[q] /\ producer'[q] = producer[q]
                            /\ route'[q] = route[q]
      /\ phase'[r] = "dispatched" /\ producer'[r] = "running" /\ route'[r] = rt
  BY <1>1, <1>2, <1>t DEF Dispatch
<1>4. Slots!AddRequest(rt.p, rt.d, Isl[r], Cardinality(Blocks[r]))
  BY <1>1 DEF RouteKv
<1>5. ASSUME NEW p \in Prefills
      PROVE  /\ prefillTokens'[p] = Cardinality(TokensHeld(p)')
             /\ prefillRequests'[p] = Cardinality(OpenOn(p)')
  <2>1. /\ p \in Worker
        /\ prefillTokens[p] = Cardinality(Shares(HoldsPrompt(p), Tokens))
        /\ prefillRequests[p] = Cardinality(OpenOn(p))
    BY DEF Worker, LoadExact, TokensHeld
  <2>2. CASE rt.p = p
    <3>1. /\ HoldsPrompt(p)' = HoldsPrompt(p) \cup {r} /\ r \notin HoldsPrompt(p)
          /\ OpenOn(p)' = OpenOn(p) \cup {r} /\ r \notin OpenOn(p)
      BY <1>2, <1>3, <2>2 DEF HoldsPrompt, OpenOn, Closed
    <3>2. prefillTokens'[p] = prefillTokens[p] + Isl[r]
          /\ prefillRequests'[p] = prefillRequests[p] + 1
      BY <1>4, <1>t, <2>1, <2>2 DEF Slots!AddRequest
    <3>3. Cardinality(Shares(HoldsPrompt(p) \cup {r}, Tokens))
            = Cardinality(Shares(HoldsPrompt(p), Tokens)) + Cardinality(Tokens[r])
      <4>1. \A q \in HoldsPrompt(p) \cup {r} : IsFiniteSet(Tokens[q])
        BY HoldersFinite, ShareSizes
      <4>2. QED
        BY <3>1, <4>1, HoldersFinite, SharesJoin
    <3>4. TokensHeld(p)' = Shares(HoldsPrompt(p) \cup {r}, Tokens)
      BY <3>1 DEF TokensHeld
    <3>5. Cardinality(OpenOn(p) \cup {r}) = Cardinality(OpenOn(p)) + 1
      BY <3>1, HoldersFinite, FS_AddElement
    <3>6. QED
      BY <2>1, <3>1, <3>2, <3>3, <3>4, <3>5, ShareSizes
  <2>3. CASE rt.p # p
    <3>1. HoldsPrompt(p)' = HoldsPrompt(p) /\ OpenOn(p)' = OpenOn(p)
      BY <1>2, <1>3, <2>3 DEF HoldsPrompt, OpenOn, Closed
    <3>2. prefillTokens'[p] = prefillTokens[p] /\ prefillRequests'[p] = prefillRequests[p]
      BY <1>4, <1>t, <2>1, <2>3 DEF Slots!AddRequest
    <3>3. QED
      BY <2>1, <3>1, <3>2 DEF TokensHeld
  <2>4. QED
    BY <2>2, <2>3
<1>6. ASSUME NEW d \in Decodes PROVE decodeBlocks'[d] = Cardinality(BlocksHeld(d)')
  <2>1. d \in Worker /\ decodeBlocks[d] = Cardinality(Shares(HoldsBlocks(d), Blocks))
    BY DEF Worker, LoadExact, BlocksHeld
  <2>2. CASE rt.d = d
    <3>1. HoldsBlocks(d)' = HoldsBlocks(d) \cup {r} /\ r \notin HoldsBlocks(d)
      BY <1>2, <1>3, <2>2 DEF HoldsBlocks, Closed
    <3>2. decodeBlocks'[d] = decodeBlocks[d] + Cardinality(Blocks[r])
      BY <1>4, <1>t, <2>1, <2>2 DEF Slots!AddRequest
    <3>3. Cardinality(Shares(HoldsBlocks(d) \cup {r}, Blocks))
            = Cardinality(Shares(HoldsBlocks(d), Blocks)) + Cardinality(Blocks[r])
      BY <3>1, HoldersFinite, ShareSizes, SharesJoin
    <3>4. BlocksHeld(d)' = Shares(HoldsBlocks(d) \cup {r}, Blocks)
      BY <3>1 DEF BlocksHeld
    <3>5. QED
      BY <2>1, <3>2, <3>3, <3>4
  <2>3. CASE rt.d # d
    <3>1. HoldsBlocks(d)' = HoldsBlocks(d)
      BY <1>2, <1>3, <2>3 DEF HoldsBlocks, Closed
    <3>2. decodeBlocks'[d] = decodeBlocks[d]
      BY <1>4, <1>t, <2>1, <2>3 DEF Slots!AddRequest
    <3>3. QED
      BY <2>1, <3>1, <3>2 DEF BlocksHeld
  <2>4. QED
    BY <2>2, <2>3
<1>7. QED
  BY <1>5, <1>6 DEF LoadExact

(* The finisher takes off what its request holds, unclamped; in the blind  *)
(* modes there is nothing, and the clamp leaves it at nothing.             *)
LEMMA FinishReleases ==
  ASSUME WellFormed, Exact, NEW r \in Req, FinishPush(r)
  PROVE  /\ LoadExact'
         /\ r \in charged => prefillTokens' = [prefillTokens EXCEPT ![route[r].p] = @ - Isl[r]]
<1>t. /\ producer \in [Req -> Producer] /\ prefillTokens \in [Worker -> Nat]
      /\ route[r] \in Route /\ Isl[r] \in Nat /\ charged \subseteq Req
      /\ route[r].p \in Prefills /\ Prefills \subseteq Worker
  BY RequestAssumption DEF WellFormed, TypeOK, RouterTypeOK, Slots!TypeOK, Lifecycle,
     FinishPush, Dispatched, Streamed, Route, Worker
<1>1. /\ producer' = [producer EXCEPT ![r] = "released"] /\ producer[r] = "drained"
      /\ UNCHANGED <<phase, route, charged, prefillRequests, decodeBlocks>>
      /\ prefillTokens' = [prefillTokens EXCEPT ![route[r].p] = Slots!Monus(@, Isl[r])]
  BY DEF FinishPush, Slots!MarkPrefillCompleted
<1>2. /\ \A p \in Prefills : OpenOn(p)' = OpenOn(p)
      /\ \A d \in Decodes : HoldsBlocks(d)' = HoldsBlocks(d)
  BY <1>1 DEF OpenOn, HoldsBlocks
<1>3. r \in charged \/ charged = {}
  BY <1>1 DEF Exact, AllOrNone, FinishPush, Dispatched, Streamed
<1>4. \A p \in Prefills : HoldsPrompt(p)' = IF route[r].p = p THEN HoldsPrompt(p) \ {r}
                                                            ELSE HoldsPrompt(p)
  BY <1>1, <1>t DEF HoldsPrompt
<1>5. r \in charged => r \in HoldsPrompt(route[r].p)
  BY <1>1 DEF HoldsPrompt
<1>6. ASSUME NEW p \in Prefills
      PROVE  /\ prefillTokens'[p] = Cardinality(TokensHeld(p)')
             /\ r \in charged /\ p = route[r].p => prefillTokens[p] >= Isl[r]
  <2>1. p \in Worker /\ prefillTokens[p] = Cardinality(Shares(HoldsPrompt(p), Tokens))
    BY DEF Worker, LoadExact, TokensHeld, Exact
  <2>2. CASE route[r].p = p /\ r \in charged
    <3>1. r \in HoldsPrompt(p)
      BY <1>5, <2>2
    <3>2. \A q \in HoldsPrompt(p) : IsFiniteSet(Tokens[q])
      BY HoldersFinite, ShareSizes
    <3>3. /\ Cardinality(Shares(HoldsPrompt(p), Tokens))
               = Cardinality(Shares(HoldsPrompt(p) \ {r}, Tokens)) + Cardinality(Tokens[r])
          /\ Cardinality(Shares(HoldsPrompt(p) \ {r}, Tokens)) \in Nat
      BY <3>1, <3>2, HoldersFinite, SharesLeaveExact
    <3>4. Cardinality(Tokens[r]) = Isl[r]
      BY ShareSizes
    <3>5. TokensHeld(p)' = Shares(HoldsPrompt(p) \ {r}, Tokens)
      BY <1>4, <2>2 DEF TokensHeld
    <3>6. prefillTokens'[p] = Slots!Monus(prefillTokens[p], Isl[r])
      BY <1>1, <1>t, <2>1, <2>2
    <3>7. QED
      BY <1>t, <2>1, <3>3, <3>4, <3>5, <3>6 DEF Slots!Monus
  <2>3. CASE route[r].p = p /\ r \notin charged
    <3>1. HoldsPrompt(p) = {} /\ TokensHeld(p)' = Shares({}, Tokens)
      BY <1>3, <1>4, <2>3 DEF HoldsPrompt, TokensHeld
    <3>2. prefillTokens[p] = 0
      BY <2>1, <3>1, NobodyHolds
    <3>3. prefillTokens'[p] = Slots!Monus(0, Isl[r])
      BY <1>1, <1>t, <2>1, <2>3, <3>2
    <3>4. QED
      BY <1>t, <2>3, <3>1, <3>3, NobodyHolds DEF Slots!Monus
  <2>4. CASE route[r].p # p
    <3>1. TokensHeld(p)' = Shares(HoldsPrompt(p), Tokens)
      BY <1>4, <2>4 DEF TokensHeld
    <3>2. prefillTokens'[p] = prefillTokens[p]
      BY <1>1, <1>t, <2>1, <2>4
    <3>3. QED
      BY <2>1, <2>4, <3>1, <3>2
  <2>5. QED
    BY <2>2, <2>3, <2>4
<1>7. LoadExact'
  BY <1>1, <1>2, <1>6 DEF LoadExact, BlocksHeld, Exact
<1>8. r \in charged => prefillTokens' = [prefillTokens EXCEPT ![route[r].p] = @ - Isl[r]]
  <2>1. r \in charged =>
          Slots!Monus(prefillTokens[route[r].p], Isl[r]) = prefillTokens[route[r].p] - Isl[r]
    BY <1>6, <1>t DEF Slots!Monus
  <2>2. QED
    BY <1>1, <2>1
<1>9. QED
  BY <1>7, <1>8

(* The end of a stream takes off what its request holds, unclamped.        *)
LEMMA EndReleases ==
  ASSUME WellFormed, Exact, NEW r \in Req, NEW out \in Closed, EndStream(r, out)
  PROVE  /\ LoadExact'
         /\ r \in charged =>
              /\ prefillRequests' = [prefillRequests EXCEPT ![route[r].p] = @ - 1]
              /\ decodeBlocks' = [decodeBlocks EXCEPT ![route[r].d] = @ - Cardinality(Blocks[r])]
<1>t. /\ phase \in [Req -> Phase] /\ charged \subseteq Req
      /\ prefillRequests \in [Worker -> Nat] /\ decodeBlocks \in [Worker -> Nat]
      /\ route[r] \in Route /\ Cardinality(Blocks[r]) \in Nat
      /\ route[r].p \in Prefills /\ route[r].d \in Decodes
      /\ Prefills \subseteq Worker /\ Decodes \subseteq Worker
  BY BlockCount DEF WellFormed, TypeOK, RouterTypeOK, Slots!TypeOK, Lifecycle,
     EndStream, Dispatched, Streamed, Route, Worker
<1>1. /\ phase' = [phase EXCEPT ![r] = out] /\ phase[r] = "streaming"
      /\ UNCHANGED <<producer, route, charged, prefillTokens>>
      /\ decodeBlocks' = [decodeBlocks EXCEPT
                            ![route[r].d] = Slots!Monus(@, Cardinality(Blocks[r]))]
      /\ prefillRequests' = [prefillRequests EXCEPT ![route[r].p] = Slots!Monus(@, 1)]
  BY DEF EndStream, Answer, Slots!Free
<1>2. r \in charged \/ charged = {}
  BY <1>1 DEF Exact, AllOrNone, Dispatched, Streamed
<1>3. /\ \A p \in Prefills : /\ HoldsPrompt(p)' = HoldsPrompt(p)
                             /\ OpenOn(p)' = IF route[r].p = p THEN OpenOn(p) \ {r} ELSE OpenOn(p)
      /\ \A d \in Decodes : HoldsBlocks(d)' = IF route[r].d = d THEN HoldsBlocks(d) \ {r}
                                                                ELSE HoldsBlocks(d)
  BY <1>1, <1>t DEF HoldsPrompt, OpenOn, HoldsBlocks
<1>4. r \in charged => r \in OpenOn(route[r].p) /\ r \in HoldsBlocks(route[r].d)
  BY <1>1 DEF OpenOn, HoldsBlocks, Closed
<1>5. ASSUME NEW p \in Prefills
      PROVE  /\ prefillRequests'[p] = Cardinality(OpenOn(p)')
             /\ r \in charged /\ p = route[r].p => prefillRequests[p] >= 1
  <2>1. p \in Worker /\ prefillRequests[p] = Cardinality(OpenOn(p))
    BY DEF Worker, LoadExact, Exact
  <2>2. CASE route[r].p = p /\ r \in charged
    <3>1. /\ Cardinality(OpenOn(p) \ {r}) = Cardinality(OpenOn(p)) - 1
          /\ Cardinality(OpenOn(p) \ {r}) \in Nat /\ Cardinality(OpenOn(p)) \in Nat
      BY <1>4, <2>2, HoldersFinite, FS_RemoveElement, FS_CardinalityType
    <3>2. prefillRequests'[p] = Slots!Monus(prefillRequests[p], 1)
      BY <1>1, <1>t, <2>1, <2>2
    <3>3. OpenOn(p)' = OpenOn(p) \ {r}
      BY <1>3, <2>2
    <3>4. prefillRequests'[p] = prefillRequests[p] - 1 /\ prefillRequests[p] >= 1
      BY <2>1, <3>1, <3>2 DEF Slots!Monus
    <3>5. QED
      BY <2>1, <3>1, <3>3, <3>4
  <2>3. CASE route[r].p = p /\ r \notin charged
    <3>1. OpenOn(p) = {} /\ OpenOn(p)' = {}
      BY <1>2, <1>3, <2>3 DEF OpenOn
    <3>2. Cardinality({}) = 0
      BY FS_EmptySet
    <3>3. prefillRequests'[p] = Slots!Monus(prefillRequests[p], 1)
      BY <1>1, <1>t, <2>1, <2>3
    <3>4. QED
      BY <2>1, <2>3, <3>1, <3>2, <3>3 DEF Slots!Monus
  <2>4. CASE route[r].p # p
    <3>1. prefillRequests'[p] = prefillRequests[p]
      BY <1>1, <1>t, <2>1, <2>4
    <3>2. QED
      BY <1>3, <2>1, <2>4, <3>1
  <2>5. QED
    BY <2>2, <2>3, <2>4
<1>6. ASSUME NEW d \in Decodes
      PROVE  /\ decodeBlocks'[d] = Cardinality(BlocksHeld(d)')
             /\ r \in charged /\ d = route[r].d => decodeBlocks[d] >= Cardinality(Blocks[r])
  <2>1. d \in Worker /\ decodeBlocks[d] = Cardinality(Shares(HoldsBlocks(d), Blocks))
    BY DEF Worker, LoadExact, BlocksHeld, Exact
  <2>2. CASE route[r].d = d /\ r \in charged
    <3>1. \A q \in HoldsBlocks(d) : IsFiniteSet(Blocks[q])
      BY HoldersFinite, ShareSizes
    <3>2. /\ Cardinality(Shares(HoldsBlocks(d), Blocks))
               = Cardinality(Shares(HoldsBlocks(d) \ {r}, Blocks)) + Cardinality(Blocks[r])
          /\ Cardinality(Shares(HoldsBlocks(d) \ {r}, Blocks)) \in Nat
      BY <1>4, <2>2, <3>1, HoldersFinite, SharesLeaveExact
    <3>3. BlocksHeld(d)' = Shares(HoldsBlocks(d) \ {r}, Blocks)
      BY <1>3, <2>2 DEF BlocksHeld
    <3>4. decodeBlocks'[d] = Slots!Monus(decodeBlocks[d], Cardinality(Blocks[r]))
      BY <1>1, <1>t, <2>1, <2>2
    <3>5. QED
      BY <1>t, <2>1, <3>2, <3>3, <3>4 DEF Slots!Monus
  <2>3. CASE route[r].d = d /\ r \notin charged
    <3>1. HoldsBlocks(d) = {} /\ BlocksHeld(d)' = Shares({}, Blocks)
      BY <1>2, <1>3, <2>3 DEF HoldsBlocks, BlocksHeld
    <3>2. decodeBlocks[d] = 0
      BY <2>1, <3>1, NobodyHolds
    <3>3. decodeBlocks'[d] = Slots!Monus(0, Cardinality(Blocks[r]))
      BY <1>1, <1>t, <2>1, <2>3, <3>2
    <3>4. QED
      BY <1>t, <2>3, <3>1, <3>3, NobodyHolds DEF Slots!Monus
  <2>4. CASE route[r].d # d
    <3>1. BlocksHeld(d)' = Shares(HoldsBlocks(d), Blocks)
      BY <1>3, <2>4 DEF BlocksHeld
    <3>2. decodeBlocks'[d] = decodeBlocks[d]
      BY <1>1, <1>t, <2>1, <2>4
    <3>3. QED
      BY <2>1, <2>4, <3>1, <3>2
  <2>5. QED
    BY <2>2, <2>3, <2>4
<1>7. LoadExact'
  BY <1>1, <1>3, <1>5, <1>6 DEF LoadExact, TokensHeld, Exact
<1>8. ASSUME r \in charged
      PROVE  /\ prefillRequests' = [prefillRequests EXCEPT ![route[r].p] = @ - 1]
             /\ decodeBlocks' = [decodeBlocks EXCEPT ![route[r].d] = @ - Cardinality(Blocks[r])]
  <2>1. /\ Slots!Monus(prefillRequests[route[r].p], 1) = prefillRequests[route[r].p] - 1
        /\ Slots!Monus(decodeBlocks[route[r].d], Cardinality(Blocks[r]))
             = decodeBlocks[route[r].d] - Cardinality(Blocks[r])
    BY <1>5, <1>6, <1>8, <1>t DEF Slots!Monus
  <2>2. QED
    BY <1>1, <2>1
<1>9. QED
  BY <1>7, <1>8

-----------------------------------------------------------------------------
(* Who is charged follows from who is placed. *)
LEMMA StepAllOrNone ==
  NoConversations /\ WellFormed /\ AllOrNone /\ [Next]_vars => AllOrNone'
<1> SUFFICES ASSUME NoConversations, WellFormed, AllOrNone, [Next]_vars PROVE AllOrNone'
  OBVIOUS
<1>t. /\ phase \in [Req -> Phase] /\ charged \subseteq Req /\ Lifecycle
  BY DEF WellFormed, TypeOK
<1> DEFINE Placed == {q \in Req : phase[q] \in Dispatched}
<1>1. ASSUME NEW r \in Req, Receive(r) PROVE AllOrNone'
  <2>1. CASE RejectInvalid(r) \/ RejectUnplaced(r)
    <3>1. Placed' = Placed /\ charged' = charged
      BY <1>t, <2>1 DEF RejectInvalid, RejectUnplaced, Arrives, Answer, Rejection,
         Dispatched, Streamed, Failed
    <3>2. QED
      BY <3>1 DEF AllOrNone
  <2>2. CASE FollowBinding(r)
    BY <2>2 DEF FollowBinding, Bound, NoConversations
  <2>3. CASE RouteScored(r)
    <3>1. Placed' = Placed \cup {r} /\ charged' = charged \cup {r} /\ Mode = "kv"
      BY <1>t, <2>3 DEF RouteScored, RouteKv, Dispatch, Arrives, Dispatched, Streamed, Failed
    <3>2. QED
      BY <3>1 DEF AllOrNone
  <2>4. CASE RouteBlind(r)
    <3>1. charged' = charged /\ Mode # "kv"
      BY <2>4 DEF RouteBlind, RouteRoundRobin, RouteRandom
    <3>2. QED
      BY <3>1 DEF AllOrNone
  <2>5. QED
    BY <1>1, <2>1, <2>2, <2>3, <2>4 DEF Receive
<1>2. ASSUME NEW r \in Req, DecodeLeg(r) \/ StreamEnds(r) PROVE AllOrNone'
  <2>1. Placed' = Placed /\ charged' = charged
    BY <1>2, <1>t DEF DecodeLeg, DecodeAnswers, DecodeRefused, DecodeErrorBodyLost, StreamEnds,
       StreamCompletes, StreamAborts, EndStream, Answer, Dispatched, Streamed, Failed
  <2>2. QED
    BY <2>1 DEF AllOrNone
<1>3. ASSUME UNCHANGED <<phase, charged>> PROVE AllOrNone'
  BY <1>3 DEF AllOrNone
<1>4. QED
  BY <1>1, <1>2, <1>3 DEF Next, ProducerEnds, FinishPush, Expire, requestVars, Idle, vars

(* The steps that neither charge nor release: for everyone charged, what   *)
(* is held stays held, where it is.                                        *)
Quiet ==
  /\ UNCHANGED <<prefillTokens, prefillRequests, decodeBlocks, charged>>
  /\ \A q \in charged : /\ route'[q] = route[q]
                        /\ producer'[q] = "released" <=> producer[q] = "released"
                        /\ phase'[q] \in Closed <=> phase[q] \in Closed

(* A step charges one request, releases one half of one, or is quiet.      *)
LEMMA LoadSteps ==
  ASSUME NoConversations, WellFormed, [Next]_vars
  PROVE  \/ \E r \in Req : RouteScored(r) \/ FinishPush(r)
         \/ \E r \in Req : EndStream(r, "completed") \/ EndStream(r, "aborted")
         \/ Quiet
<1>t. /\ phase \in [Req -> Phase] /\ producer \in [Req -> Producer]
      /\ route \in [Req -> Route \cup {NoRoute}] /\ charged \subseteq Req /\ Lifecycle
  BY DEF WellFormed, TypeOK
<1>1. ASSUME NEW r \in Req, RejectInvalid(r) \/ RejectUnplaced(r) PROVE Quiet
  BY <1>1, <1>t DEF Quiet, RejectInvalid, RejectUnplaced, Arrives, Answer, Lifecycle,
     Dispatched, Streamed, Failed, routerVars
<1>2. ASSUME NEW r \in Req, RouteBlind(r) PROVE Quiet
  <2>1. r \notin charged
    BY <1>2, <1>t DEF RouteBlind, Arrives, Lifecycle, Dispatched, Streamed, Failed
  <2>2. UNCHANGED <<prefillTokens, prefillRequests, decodeBlocks, charged>>
    BY <1>2 DEF RouteBlind, RouteRoundRobin, RouteRandom, routerVars
  <2>3. \A q \in charged : /\ phase'[q] = phase[q] /\ producer'[q] = producer[q]
                           /\ route'[q] = route[q]
    BY <1>2, <1>t, <2>1 DEF RouteBlind, Dispatch
  <2>4. QED
    BY <2>2, <2>3 DEF Quiet
<1>3. ASSUME NEW r \in Req, ProducerEnds(r) PROVE Quiet
  BY <1>3, <1>t DEF ProducerEnds, Quiet, routerVars
<1>4. ASSUME NEW r \in Req, DecodeLeg(r) PROVE Quiet
  BY <1>4, <1>t DEF DecodeLeg, DecodeAnswers, DecodeRefused, DecodeErrorBodyLost, Answer,
     Closed, Quiet, routerVars
<1>5. ASSUME NEW r \in Req, FollowBinding(r) PROVE FALSE
  BY <1>5 DEF FollowBinding, Bound, NoConversations
<1>6. ASSUME NEW us \in SUBSET Url, Expire(us) PROVE Quiet
  BY <1>6 DEF Expire, routerVars, requestVars, Quiet
<1>7. ASSUME UNCHANGED vars PROVE Quiet
  BY <1>7 DEF vars, routerVars, requestVars, Quiet
<1>8. QED
  BY <1>1, <1>2, <1>3, <1>4, <1>5, <1>6, <1>7
     DEF Next, Receive, StreamEnds, StreamCompletes, StreamAborts, Idle

LEMMA StepExact == NoConversations /\ WellFormed /\ Exact /\ [Next]_vars => Exact'
<1> SUFFICES ASSUME NoConversations, WellFormed, Exact, [Next]_vars PROVE Exact'
  OBVIOUS
<1>1. AllOrNone'
  BY StepAllOrNone DEF Exact
<1>2. ASSUME Quiet PROVE LoadExact'
  <2>1. /\ \A p \in Prefills : HoldsPrompt(p)' = HoldsPrompt(p) /\ OpenOn(p)' = OpenOn(p)
        /\ \A d \in Decodes : HoldsBlocks(d)' = HoldsBlocks(d)
    BY <1>2 DEF Quiet, HoldsPrompt, OpenOn, HoldsBlocks
  <2>2. QED
    BY <1>2, <2>1, NothingMovesExact DEF Quiet, Exact
<1>3. ASSUME NEW r \in Req, RouteScored(r) PROVE LoadExact'
  BY <1>3, ScoredKeepsExact DEF Exact
<1>4. ASSUME NEW r \in Req, FinishPush(r) PROVE LoadExact'
  BY <1>4, FinishReleases
<1>5. ASSUME NEW r \in Req, EndStream(r, "completed") \/ EndStream(r, "aborted") PROVE LoadExact'
  BY <1>5, EndReleases DEF Closed
<1>6. QED
  BY <1>1, <1>2, <1>3, <1>4, <1>5, LoadSteps DEF Exact

(* Without conversations, the counters are the load of the requests        *)
(* charged and not released.                                               *)
THEOREM LoadIsExact == ASSUME NoConversations PROVE Spec => []LoadExact
<1>1. WellFormed /\ Exact /\ [Next]_vars => Exact'
  BY StepExact
<1>2. Exact => LoadExact
  BY DEF Exact
<1>3. QED
  BY <1>1, <1>2, InitExact, InitWellFormed, StepWellFormed, PTL DEF Spec

-----------------------------------------------------------------------------
(* The ledger. *)

(* The mapped variables of the ledger. *)
Place  == [r \in Req |-> IF r \in charged THEN route[r] ELSE NoRoute]
Prompt == [r \in Req |-> Entered(r, IF producer[r] = "released" THEN "returned" ELSE "held")]
Stream == [r \in Req |-> Entered(r, IF phase[r] \in Closed THEN "returned" ELSE "held")]
Sizes  == [r \in Req |-> Cardinality(Blocks[r])]

LEMMA InitLedger == Init => Ledger!Init
  BY DEF Init, RouterInit, Slots!Init, Slots!Zero, Ledger!Init, Entered

LEMMA ScoredEnters ==
  ASSUME WellFormed, NEW r \in Req, RouteScored(r)
  PROVE  \E p, d \in Worker : Ledger!Enter(r, p, d)
<1>1. PICK rt \in Route : RouteKv(rt, Isl[r], Blocks[r], quarantined) /\ Dispatch(r, rt)
  BY DEF RouteScored
<1>t. /\ phase \in [Req -> Phase] /\ producer \in [Req -> Producer]
      /\ route \in [Req -> Route \cup {NoRoute}] /\ charged \subseteq Req
  BY DEF WellFormed, TypeOK
<1>2. r \notin charged /\ charged' = charged \cup {r}
  BY DEF RouteScored, WellFormed, Lifecycle, Arrives, Dispatched, Streamed, Failed
<1>3. /\ \A q \in charged : /\ phase'[q] = phase[q] /\ producer'[q] = producer[q]
                            /\ route'[q] = route[q]
      /\ phase'[r] = "dispatched" /\ producer'[r] = "running" /\ route'[r] = rt
  BY <1>1, <1>2, <1>t DEF Dispatch
<1>4. rt.p \in Worker /\ rt.d \in Worker /\ rt = [p |-> rt.p, d |-> rt.d]
  BY DEF Route, Worker
<1>5. Place[r] = NoRoute /\ Place' = [Place EXCEPT ![r] = [p |-> rt.p, d |-> rt.d]]
  BY <1>2, <1>3, <1>4 DEF Place
<1>6. Prompt' = [Prompt EXCEPT ![r] = "held"]
  BY <1>2, <1>3 DEF Prompt, Entered
<1>7. Stream' = [Stream EXCEPT ![r] = "held"]
  BY <1>2, <1>3 DEF Stream, Entered, Closed
<1>8. /\ prefillTokens' = [prefillTokens EXCEPT ![rt.p] = @ + Isl[r]]
      /\ prefillRequests' = [prefillRequests EXCEPT ![rt.p] = @ + 1]
      /\ decodeBlocks' = [decodeBlocks EXCEPT ![rt.d] = @ + Sizes[r]]
  BY <1>1 DEF RouteKv, Slots!AddRequest, Sizes
<1>9. Ledger!Enter(r, rt.p, rt.d)
  BY <1>5, <1>6, <1>7, <1>8 DEF Ledger!Enter, Place, Prompt, Stream, Sizes
<1>10. QED
  BY <1>4, <1>9

LEMMA FinishReturns ==
  ASSUME WellFormed, Exact, NEW r \in Req, FinishPush(r), r \in charged
  PROVE  Ledger!ReturnPrompt(r)
<1>t. producer \in [Req -> Producer]
  BY DEF WellFormed, TypeOK
<1>1. /\ producer' = [producer EXCEPT ![r] = "released"] /\ producer[r] = "drained"
      /\ UNCHANGED <<phase, route, charged, prefillRequests, decodeBlocks>>
      /\ prefillTokens' = [prefillTokens EXCEPT ![Place[r].p] = @ - Isl[r]]
  BY FinishReleases DEF FinishPush, Slots!MarkPrefillCompleted, Place
<1>2. Prompt[r] = "held" /\ Prompt' = [Prompt EXCEPT ![r] = "returned"]
  BY <1>1, <1>t DEF Prompt, Entered
<1>3. Place' = Place /\ Stream' = Stream
  BY <1>1 DEF Place, Stream, Entered
<1>4. QED
  BY <1>1, <1>2, <1>3 DEF Ledger!ReturnPrompt, Place, Prompt, Stream

LEMMA EndReturns ==
  ASSUME WellFormed, Exact, NEW r \in Req, NEW out \in Closed, EndStream(r, out), r \in charged
  PROVE  Ledger!ReturnStream(r)
<1>t. phase \in [Req -> Phase]
  BY DEF WellFormed, TypeOK
<1>1. /\ phase' = [phase EXCEPT ![r] = out] /\ phase[r] = "streaming"
      /\ UNCHANGED <<producer, route, charged, prefillTokens>>
      /\ prefillRequests' = [prefillRequests EXCEPT ![Place[r].p] = @ - 1]
      /\ decodeBlocks' = [decodeBlocks EXCEPT ![Place[r].d] = @ - Sizes[r]]
  BY EndReleases DEF EndStream, Answer, Slots!Free, Place, Sizes
<1>2. Stream[r] = "held" /\ Stream' = [Stream EXCEPT ![r] = "returned"]
  BY <1>1, <1>t DEF Stream, Entered, Closed
<1>3. Place' = Place /\ Prompt' = Prompt
  BY <1>1 DEF Place, Prompt, Entered
<1>4. QED
  BY <1>1, <1>2, <1>3 DEF Ledger!ReturnStream, Place, Prompt, Stream, Sizes

(* What is released on behalf of a request never charged is nothing.       *)
LEMMA UnchargedReleasesNothing ==
  ASSUME WellFormed, Exact, NEW r \in Req, r \notin charged,
         \/ FinishPush(r)
         \/ EndStream(r, "completed")
         \/ EndStream(r, "aborted")
  PROVE  UNCHANGED <<prefillTokens, prefillRequests, decodeBlocks, Place, Prompt, Stream>>
<1>t. /\ prefillTokens \in [Worker -> Nat] /\ prefillRequests \in [Worker -> Nat]
      /\ decodeBlocks \in [Worker -> Nat]
      /\ route[r] \in Route /\ Cardinality(Blocks[r]) \in Nat /\ Isl[r] \in Nat
      /\ route[r].p \in Prefills /\ route[r].d \in Decodes
  BY BlockCount, RequestAssumption DEF WellFormed, TypeOK, RouterTypeOK, Slots!TypeOK, Lifecycle,
     FinishPush, EndStream, Dispatched, Streamed, Route
<1>1. charged = {}
  BY DEF Exact, AllOrNone, FinishPush, EndStream, Dispatched, Streamed
<1>2. /\ TokensHeld(route[r].p) = Shares({}, Tokens) /\ OpenOn(route[r].p) = {}
      /\ BlocksHeld(route[r].d) = Shares({}, Blocks)
  BY <1>1 DEF TokensHeld, BlocksHeld, HoldsPrompt, HoldsBlocks, OpenOn
<1>3. Cardinality({}) = 0
  BY FS_EmptySet
<1>4. /\ prefillTokens[route[r].p] = 0 /\ prefillRequests[route[r].p] = 0
      /\ decodeBlocks[route[r].d] = 0
  BY <1>t, <1>2, <1>3, NobodyHolds DEF Exact, LoadExact
<1>5. /\ Slots!Monus(0, Isl[r]) = 0 /\ Slots!Monus(0, 1) = 0
      /\ Slots!Monus(0, Cardinality(Blocks[r])) = 0
  BY <1>t DEF Slots!Monus
<1>6. CASE FinishPush(r)
  <2>1. prefillTokens' = [prefillTokens EXCEPT ![route[r].p] = 0]
        /\ UNCHANGED <<prefillRequests, decodeBlocks, charged>>
    BY <1>4, <1>5, <1>6 DEF FinishPush, Slots!MarkPrefillCompleted
  <2>2. UNCHANGED prefillTokens
    BY <1>t, <1>4, <2>1
  <2>3. QED
    BY <1>1, <2>1, <2>2 DEF Place, Prompt, Stream, Entered
<1>7. CASE EndStream(r, "completed") \/ EndStream(r, "aborted")
  <2>1. /\ prefillRequests' = [prefillRequests EXCEPT ![route[r].p] = 0]
        /\ decodeBlocks' = [decodeBlocks EXCEPT ![route[r].d] = 0]
        /\ UNCHANGED <<prefillTokens, charged>>
    BY <1>4, <1>5, <1>7 DEF EndStream, Answer, Slots!Free
  <2>2. UNCHANGED <<prefillRequests, decodeBlocks>>
    BY <1>t, <1>4, <2>1
  <2>3. QED
    BY <1>1, <2>1, <2>2 DEF Place, Prompt, Stream, Entered
<1>8. QED
  BY <1>6, <1>7

LEMMA StepLedger ==
  ASSUME NoConversations, WellFormed, Exact, [Next]_vars
  PROVE  \/ Ledger!Next
         \/ UNCHANGED <<prefillTokens, prefillRequests, decodeBlocks, Place, Prompt, Stream>>
<1>1. ASSUME NEW r \in Req, RouteScored(r) PROVE Ledger!Next
  BY <1>1, ScoredEnters DEF Ledger!Next
<1>2. ASSUME NEW r \in Req, FinishPush(r), r \in charged PROVE Ledger!Next
  BY <1>2, FinishReturns DEF Ledger!Next
<1>3. ASSUME NEW r \in Req, EndStream(r, "completed") \/ EndStream(r, "aborted"), r \in charged
      PROVE  Ledger!Next
  BY <1>3, EndReturns DEF Ledger!Next, Closed
<1>4. ASSUME Quiet PROVE UNCHANGED <<prefillTokens, prefillRequests, decodeBlocks,
                                     Place, Prompt, Stream>>
  <2>1. Place' = Place
    BY <1>4 DEF Quiet, Place
  <2>2. Prompt' = Prompt /\ Stream' = Stream
    BY <1>4 DEF Quiet, Prompt, Stream, Entered
  <2>3. QED
    BY <1>4, <2>1, <2>2 DEF Quiet
<1>5. QED
  BY <1>1, <1>2, <1>3, <1>4, LoadSteps, UnchargedReleasesNothing

(* Without conversations, the counters are a ledger of the charged         *)
(* requests: no step needs the clamp, and none moves another's share.      *)
THEOREM CountersAreALedger == ASSUME NoConversations PROVE Spec => ImplementsLedger
<1>1. WellFormed /\ Exact /\ [Next]_vars => [Ledger!Next]_(Ledger!ledgerVars)
  BY StepLedger DEF Ledger!ledgerVars, Place, Prompt, Stream
<1>2. WellFormed /\ Exact /\ [Next]_vars => Exact'
  BY StepExact
<1>3. QED
  BY <1>1, <1>2, InitLedger, InitExact, InitWellFormed, StepWellFormed, PTL
     DEF Spec, ImplementsLedger, Ledger!Spec

-----------------------------------------------------------------------------
(* The blind modes. *)

LEMMA StepBlind == WellFormed /\ BlindLoadIsZero /\ [Next]_vars => BlindLoadIsZero'
<1> SUFFICES ASSUME WellFormed, BlindLoadIsZero, [Next]_vars, Mode # "kv"
             PROVE  UNCHANGED <<prefillTokens, prefillRequests, decodeBlocks>>
  BY DEF BlindLoadIsZero, Slots!Zero
<1>z. /\ prefillTokens = Slots!Zero /\ prefillRequests = Slots!Zero /\ decodeBlocks = Slots!Zero
  BY DEF BlindLoadIsZero
<1>1. ASSUME NEW w \in Worker, NEW n \in Nat
      PROVE  [Slots!Zero EXCEPT ![w] = Slots!Monus(@, n)] = Slots!Zero
  <2>1. Slots!Zero[w] = 0 /\ Slots!Monus(0, n) = 0
    BY DEF Slots!Zero, Slots!Monus
  <2>2. [Slots!Zero EXCEPT ![w] = 0] = Slots!Zero
    BY DEF Slots!Zero
  <2>3. QED
    BY <2>1, <2>2
<1>2. ASSUME NEW r \in Req, FinishPush(r) \/ StreamEnds(r)
      PROVE  UNCHANGED <<prefillTokens, prefillRequests, decodeBlocks>>
  <2>1. /\ route[r].p \in Worker /\ route[r].d \in Worker
        /\ Isl[r] \in Nat /\ Cardinality(Blocks[r]) \in Nat
    BY <1>2, BlockCount, RequestAssumption
       DEF WellFormed, Lifecycle, FinishPush, StreamEnds, StreamCompletes, StreamAborts,
       EndStream, Dispatched, Streamed, Route, Worker
  <2>2. QED
    BY <1>z, <1>1, <1>2, <2>1 DEF FinishPush, StreamEnds, StreamCompletes, StreamAborts,
       EndStream, Slots!MarkPrefillCompleted, Slots!Free
<1>3. ASSUME NEW r \in Req, Receive(r) \/ ProducerEnds(r) \/ DecodeLeg(r)
      PROVE  UNCHANGED <<prefillTokens, prefillRequests, decodeBlocks>>
  BY <1>3 DEF Receive, RejectInvalid, FollowBinding, RouteScored, RouteKv, RouteBlind,
     RouteRoundRobin, RouteRandom, RejectUnplaced, ProducerEnds, DecodeLeg, DecodeAnswers,
     DecodeRefused, DecodeErrorBodyLost, routerVars
<1>4. QED
  BY <1>2, <1>3 DEF Next, Expire, Idle, vars, routerVars

(* Round-robin and random charge nothing, and the releases that run behind *)
(* them, on bound conversations too, find nothing to take.                 *)
THEOREM BlindLoadStaysZero == Spec => []BlindLoadIsZero
<1>1. Init => BlindLoadIsZero
  BY DEF Init, RouterInit, Slots!Init, BlindLoadIsZero
<1>2. QED
  BY <1>1, StepBlind, InitWellFormed, StepWellFormed, PTL DEF Spec

-----------------------------------------------------------------------------
(* Round-robin. *)

(* Where a turn counter points next, in a pool of N. *)
LEMMA NextTurn ==
  ASSUME NEW N \in Nat \ {0}, NEW n \in Nat
  PROVE  /\ n % N \in 0 .. N - 1
         /\ (n + 1) % N = IF (n % N) + 1 = N THEN 0 ELSE (n % N) + 1
<1> DEFINE q == n \div N
          a == n % N
<1>1. n = (N * q) + a /\ q \in Int /\ a \in 0 .. N - 1
  OBVIOUS
<1> HIDE DEF q, a
<1>2. CASE a + 1 = N
  <2>1. n + 1 = N * (q + 1) + 0
    BY <1>1, <1>2
  <2>2. (N * (q + 1) + 0) % N = 0
    BY <1>1, <2>1, OneQuotient
  <2>3. QED
    BY <1>1, <1>2, <2>1, <2>2 DEF a
<1>3. CASE a + 1 # N
  <2>1. n + 1 = N * q + (a + 1)
    BY <1>1
  <2>2. (N * q + (a + 1)) % N = a + 1
    BY <1>1, <1>3, <2>1, OneQuotient
  <2>3. QED
    BY <1>1, <1>3, <2>1, <2>2 DEF a
<1>4. QED
  BY <1>2, <1>3

(* A pool of N after a number of rounds of turns and the first turns of    *)
(* the next, up to where the counter points.                               *)
Dealt(given, N, turn) ==
  \E rounds \in Int : \A w \in 0 .. N - 1 :
    given[w] = rounds + (IF w < turn THEN 1 ELSE 0)

LEMMA Deal ==
  ASSUME NEW N \in Nat \ {0}, NEW n \in Nat, NEW c, NEW e,
         Dealt(c, N, n % N),
         \A w \in 0 .. N - 1 : e[w] = c[w] + (IF w = n % N THEN 1 ELSE 0)
  PROVE  Dealt(e, N, (n + 1) % N)
<1> DEFINE a == n % N
<1>1. a \in 0 .. N - 1 /\ (n + 1) % N = IF a + 1 = N THEN 0 ELSE a + 1
  BY NextTurn
<1>2. PICK rounds \in Int :
        \A w \in 0 .. N - 1 : c[w] = rounds + (IF w < a THEN 1 ELSE 0)
  BY DEF Dealt
<1>3. \A w \in 0 .. N - 1 : e[w] = c[w] + (IF w = a THEN 1 ELSE 0)
  OBVIOUS
<1> HIDE DEF a
<1>4. \A w \in 0 .. N - 1 : e[w] = rounds + (IF w < a + 1 THEN 1 ELSE 0)
  BY <1>1, <1>2, <1>3
<1>5. CASE a + 1 = N
  <2>1. \A w \in 0 .. N - 1 : e[w] = (rounds + 1) + (IF w < 0 THEN 1 ELSE 0)
    BY <1>1, <1>4, <1>5
  <2>2. QED
    BY <1>1, <1>5, <2>1 DEF Dealt
<1>6. CASE a + 1 # N
  BY <1>1, <1>4, <1>6 DEF Dealt
<1>7. QED
  BY <1>5, <1>6

GivenPrefill(p) == {r \in Req : route[r] # NoRoute /\ route[r].p = p}
GivenDecode(d)  == {r \in Req : route[r] # NoRoute /\ route[r].d = d}

(* Both pools are dealt up to where the counter points.  The decode half   *)
(* of a route reads the counter after it has advanced, so the first turn   *)
(* of decode worker 0 is never dealt.                                      *)
Turns ==
  /\ Dealt([p \in Prefills |-> Cardinality(GivenPrefill(p))],
           NumPrefill, rr % NumPrefill)
  /\ Dealt([d \in Decodes |-> Cardinality(GivenDecode(d)) + (IF d = 0 THEN 1 ELSE 0)],
           NumDecode, (rr + 1) % NumDecode)

LEMMA GivenFinite ==
  \A w : /\ IsFiniteSet(GivenPrefill(w)) /\ Cardinality(GivenPrefill(w)) \in Nat
         /\ IsFiniteSet(GivenDecode(w)) /\ Cardinality(GivenDecode(w)) \in Nat
<1>1. \A w : GivenPrefill(w) \subseteq Req /\ GivenDecode(w) \subseteq Req
  BY DEF GivenPrefill, GivenDecode
<1>2. QED
  BY <1>1, RequestAssumption, FS_Subset, FS_CardinalityType

LEMMA InitTurns == ASSUME Mode = "round-robin" PROVE Init => Turns
<1> SUFFICES ASSUME Init PROVE Turns
  OBVIOUS
<1>1. NumPrefill \in Nat \ {0} /\ NumDecode \in Nat \ {0} /\ rr = 0
  BY PoolsAssumption DEF Init, RouterInit
<1>2. \A w : Cardinality(GivenPrefill(w)) = 0 /\ Cardinality(GivenDecode(w)) = 0
  <2>1. \A w : GivenPrefill(w) = {} /\ GivenDecode(w) = {}
    BY DEF Init, GivenPrefill, GivenDecode
  <2>2. QED
    BY <2>1, FS_EmptySet
<1>3. 0 % NumPrefill = 0 /\ 0 % NumDecode = 0
  BY <1>1, OneQuotient
<1>4. Dealt([p \in Prefills |-> Cardinality(GivenPrefill(p))], NumPrefill, rr % NumPrefill)
  <2> DEFINE given == [p \in Prefills |-> Cardinality(GivenPrefill(p))]
  <2>1. \A w \in 0 .. NumPrefill - 1 : given[w] = 0 + (IF w < 0 THEN 1 ELSE 0)
    BY <1>1, <1>2 DEF Prefills
  <2> HIDE DEF given
  <2>2. Dealt(given, NumPrefill, 0)
    BY <2>1 DEF Dealt
  <2>3. QED
    BY <1>1, <1>3, <2>2 DEF given
<1>5. Dealt([d \in Decodes |-> Cardinality(GivenDecode(d)) + (IF d = 0 THEN 1 ELSE 0)],
            NumDecode, (rr + 1) % NumDecode)
  <2> DEFINE none == [d \in Decodes |-> 0]
             given == [d \in Decodes |-> Cardinality(GivenDecode(d)) + (IF d = 0 THEN 1 ELSE 0)]
  <2>1. Dealt(none, NumDecode, 0 % NumDecode)
    <3>1. \A w \in 0 .. NumDecode - 1 : none[w] = 0 + (IF w < 0 THEN 1 ELSE 0)
      BY <1>1 DEF Decodes
    <3>2. QED
      BY <1>3, <3>1 DEF Dealt
  <2>2. \A w \in 0 .. NumDecode - 1 : given[w] = none[w] + (IF w = 0 % NumDecode THEN 1 ELSE 0)
    BY <1>1, <1>2, <1>3 DEF Decodes
  <2> HIDE DEF none, given
  <2>3. Dealt(given, NumDecode, (0 + 1) % NumDecode)
    BY <1>1, <2>1, <2>2, Deal
  <2>4. QED
    BY <1>1, <2>3 DEF given
<1>6. QED
  BY <1>4, <1>5 DEF Turns

(* A round-robin placement deals one turn of each pool.                    *)
LEMMA PlacementTakesATurn ==
  ASSUME WellFormed, Turns, Mode = "round-robin", NEW r \in Req, RouteBlind(r)
  PROVE  Turns'
<1> DEFINE p0 == rr % NumPrefill
           d0 == (rr + 1) % NumDecode
<1>t. /\ route \in [Req -> Route \cup {NoRoute}] /\ rr \in Nat
      /\ NumPrefill \in Nat \ {0} /\ NumDecode \in Nat \ {0}
  BY PoolsAssumption DEF WellFormed, TypeOK, RouterTypeOK
<1>1. /\ route[r] = NoRoute /\ rr' = rr + 1
      /\ route' = [route EXCEPT ![r] = [p |-> p0, d |-> d0]]
  BY DEF RouteBlind, Dispatch, RouteRoundRobin, RouteRandom, WellFormed, Lifecycle, Arrives,
     Dispatched, Streamed, Failed
<1>2. [p |-> p0, d |-> d0] # NoRoute
  <2>1. p0 \in 0 .. NumPrefill - 1 /\ d0 \in 0 .. NumDecode - 1
    BY <1>t, NextTurn
  <2>2. QED
    BY <2>1, RequestAssumption DEF Route, Prefills, Decodes
<1> HIDE DEF p0, d0
<1>3. /\ route'[r] # NoRoute /\ route'[r].p = p0 /\ route'[r].d = d0
      /\ \A q \in Req : q # r => route'[q] = route[q]
  BY <1>t, <1>1, <1>2
<1>4. /\ \A p : GivenPrefill(p)' = IF p = p0 THEN GivenPrefill(p) \cup {r} ELSE GivenPrefill(p)
      /\ \A d : GivenDecode(d)' = IF d = d0 THEN GivenDecode(d) \cup {r} ELSE GivenDecode(d)
      /\ \A w : r \notin GivenPrefill(w) /\ r \notin GivenDecode(w)
  BY <1>1, <1>3 DEF GivenPrefill, GivenDecode
<1>5. ASSUME NEW w
      PROVE  /\ Cardinality(GivenPrefill(w)')
                  = Cardinality(GivenPrefill(w)) + (IF w = p0 THEN 1 ELSE 0)
             /\ Cardinality(GivenDecode(w)')
                  = Cardinality(GivenDecode(w)) + (IF w = d0 THEN 1 ELSE 0)
  <2>1. /\ Cardinality(GivenPrefill(w) \cup {r}) = Cardinality(GivenPrefill(w)) + 1
        /\ Cardinality(GivenDecode(w) \cup {r}) = Cardinality(GivenDecode(w)) + 1
    BY <1>4, GivenFinite, FS_AddElement
  <2>2. Cardinality(GivenPrefill(w)) \in Nat /\ Cardinality(GivenDecode(w)) \in Nat
    BY GivenFinite
  <2>3. /\ w = p0 => GivenPrefill(w)' = GivenPrefill(w) \cup {r}
        /\ w # p0 => GivenPrefill(w)' = GivenPrefill(w)
        /\ w = d0 => GivenDecode(w)' = GivenDecode(w) \cup {r}
        /\ w # d0 => GivenDecode(w)' = GivenDecode(w)
    BY <1>4
  <2>4. /\ w = p0 => Cardinality(GivenPrefill(w)') = Cardinality(GivenPrefill(w)) + 1
        /\ w = d0 => Cardinality(GivenDecode(w)') = Cardinality(GivenDecode(w)) + 1
    BY <2>1, <2>3
  <2>5. /\ w # p0 => Cardinality(GivenPrefill(w)') = Cardinality(GivenPrefill(w)) + 0
        /\ w # d0 => Cardinality(GivenDecode(w)') = Cardinality(GivenDecode(w)) + 0
    BY <2>2, <2>3
  <2>6. QED
    BY <2>4, <2>5
<1>6. Dealt([p \in Prefills |-> Cardinality(GivenPrefill(p))], NumPrefill, rr % NumPrefill)'
  <2> DEFINE c == [p \in Prefills |-> Cardinality(GivenPrefill(p))]
             e == [p \in Prefills |-> Cardinality(GivenPrefill(p)')]
  <2>1. \A w \in 0 .. NumPrefill - 1 : e[w] = c[w] + (IF w = rr % NumPrefill THEN 1 ELSE 0)
    BY <1>5 DEF p0, Prefills
  <2>2. Dealt(c, NumPrefill, rr % NumPrefill)
    BY DEF Turns
  <2> HIDE DEF c, e
  <2>3. Dealt(e, NumPrefill, (rr + 1) % NumPrefill)
    BY <1>t, <2>1, <2>2, Deal
  <2>4. QED
    BY <1>1, <2>3 DEF e, Dealt, Prefills
<1>7. Dealt([d \in Decodes |-> Cardinality(GivenDecode(d)) + (IF d = 0 THEN 1 ELSE 0)],
            NumDecode, (rr + 1) % NumDecode)'
  <2> DEFINE c == [d \in Decodes |-> Cardinality(GivenDecode(d)) + (IF d = 0 THEN 1 ELSE 0)]
             e == [d \in Decodes |-> Cardinality(GivenDecode(d)') + (IF d = 0 THEN 1 ELSE 0)]
             n == rr + 1
  <2>1. ASSUME NEW w \in 0 .. NumDecode - 1
        PROVE  e[w] = c[w] + (IF w = n % NumDecode THEN 1 ELSE 0)
    <3>1. Cardinality(GivenDecode(w)')
            = Cardinality(GivenDecode(w)) + (IF w = n % NumDecode THEN 1 ELSE 0)
      BY <1>5 DEF d0
    <3>2. /\ e[w] = Cardinality(GivenDecode(w)') + (IF w = 0 THEN 1 ELSE 0)
          /\ c[w] = Cardinality(GivenDecode(w)) + (IF w = 0 THEN 1 ELSE 0)
      BY DEF Decodes
    <3> HIDE DEF c, e, n
    <3>3. QED
      BY <3>1, <3>2, GivenFinite
  <2>2. Dealt(c, NumDecode, n % NumDecode) /\ n \in Nat
    BY <1>t DEF Turns
  <2> HIDE DEF c, e, n
  <2>3. Dealt(e, NumDecode, (n + 1) % NumDecode)
    BY <1>t, <2>1, <2>2, Deal
  <2>4. QED
    BY <1>1, <2>3 DEF e, n, Dealt, Decodes
<1>8. QED
  BY <1>6, <1>7 DEF Turns

LEMMA StepTurns ==
  ASSUME NoConversations, Mode = "round-robin", WellFormed, Turns, [Next]_vars
  PROVE  Turns'
<1>1. ASSUME NEW r \in Req, RouteBlind(r) PROVE Turns'
  BY <1>1, PlacementTakesATurn
<1>2. ASSUME UNCHANGED <<route, rr>> PROVE Turns'
  <2>1. \A w : GivenPrefill(w)' = GivenPrefill(w) /\ GivenDecode(w)' = GivenDecode(w)
    BY <1>2 DEF GivenPrefill, GivenDecode
  <2> DEFINE c == [p \in Prefills |-> Cardinality(GivenPrefill(p))]
             e == [d \in Decodes |-> Cardinality(GivenDecode(d)) + (IF d = 0 THEN 1 ELSE 0)]
  <2>2. c' = c /\ e' = e
    BY <2>1
  <2>3. /\ Dealt(c, NumPrefill, rr % NumPrefill)
        /\ Dealt(e, NumDecode, (rr + 1) % NumDecode)
    BY DEF Turns
  <2> HIDE DEF c, e
  <2>4. /\ Dealt(c', NumPrefill, rr' % NumPrefill)
        /\ Dealt(e', NumDecode, (rr' + 1) % NumDecode)
    BY <1>2, <2>2, <2>3
  <2>5. QED
    BY <2>4 DEF Turns, Dealt, c, e
<1>3. ASSUME NEW r \in Req,
             \/ RejectInvalid(r) \/ FollowBinding(r) \/ RouteScored(r) \/ RejectUnplaced(r)
             \/ ProducerEnds(r) \/ DecodeLeg(r) \/ FinishPush(r) \/ StreamEnds(r)
      PROVE  UNCHANGED <<route, rr>>
  BY <1>3 DEF RejectInvalid, FollowBinding, Bound, NoConversations, RouteScored, RouteKv,
     RejectUnplaced, ProducerEnds, DecodeLeg, DecodeAnswers, DecodeRefused,
     DecodeErrorBodyLost, FinishPush, StreamEnds, StreamCompletes, StreamAborts, EndStream,
     Answer, routerVars
<1>4. QED
  BY <1>1, <1>2, <1>3 DEF Next, Receive, Expire, Idle, vars, routerVars, requestVars

LEMMA TurnsAreEven ==
  ASSUME WellFormed, Turns, Mode = "round-robin" PROVE RoundRobinEven
<1> DEFINE c == [p \in Prefills |-> Cardinality(GivenPrefill(p))]
           e == [d \in Decodes |-> Cardinality(GivenDecode(d))]
<1>t. rr % NumPrefill \in Nat /\ (rr + 1) % NumDecode \in Nat
  BY PoolsAssumption, NextTurn DEF WellFormed, TypeOK, RouterTypeOK
<1>1. \A v, w \in Prefills : c[v] <= c[w] + 1
  <2>1. PICK rounds \in Int : \A p \in 0 .. NumPrefill - 1 :
          c[p] = rounds + (IF p < rr % NumPrefill THEN 1 ELSE 0)
    BY DEF Turns, Dealt
  <2> HIDE DEF c
  <2>2. QED
    BY <1>t, <2>1 DEF Prefills
<1>2. \A v, w \in Decodes : e[v] <= e[w] + 1
  <2> DEFINE turn == (rr + 1) % NumDecode
  <2>1. PICK rounds \in Int : \A d \in 0 .. NumDecode - 1 :
          Cardinality(GivenDecode(d)) + (IF d = 0 THEN 1 ELSE 0)
            = rounds + (IF d < turn THEN 1 ELSE 0)
    BY DEF Turns, Dealt, Decodes
  <2>2. turn \in Nat
    BY <1>t
  <2> HIDE DEF turn
  <2>3. ASSUME NEW d \in Decodes
        PROVE  /\ d \in Nat /\ Cardinality(GivenDecode(d)) \in Nat
               /\ Cardinality(GivenDecode(d)) + (IF d = 0 THEN 1 ELSE 0)
                    = rounds + (IF d < turn THEN 1 ELSE 0)
    BY <2>1, GivenFinite DEF Decodes
  <2>4. ASSUME NEW v \in Decodes, NEW w \in Decodes
        PROVE  Cardinality(GivenDecode(v)) <= Cardinality(GivenDecode(w)) + 1
    BY <2>2, <2>3
  <2>5. QED
    BY <2>4
<1>3. /\ \A p : {r \in {q \in Req : route[q] # NoRoute} : route[r].p = p} = GivenPrefill(p)
      /\ \A d : {r \in {q \in Req : route[q] # NoRoute} : route[r].d = d} = GivenDecode(d)
  BY DEF GivenPrefill, GivenDecode
<1>4. QED
  BY <1>1, <1>2, <1>3 DEF RoundRobinEven

(* Round-robin without conversations spreads its placements evenly over    *)
(* each pool, whatever the outcome of the requests it placed.              *)
THEOREM RoundRobinIsEven ==
  ASSUME NoConversations, Mode = "round-robin" PROVE Spec => []RoundRobinEven
<1>1. WellFormed /\ Turns /\ [Next]_vars => Turns'
  BY StepTurns
<1>2. WellFormed /\ Turns => RoundRobinEven
  BY TurnsAreEven
<1>3. Init => Turns
  BY InitTurns
<1>4. QED
  BY <1>1, <1>2, <1>3, InitWellFormed, StepWellFormed, PTL DEF Spec
=============================================================================
