---------------------------- MODULE GatewayProofs ----------------------------
(***************************************************************************)
(* Theorems about the serving path, for every pool, request set and prompt *)
(* and every router mode.  Each invariant is proved inductive relative to  *)
(* the ones before it.                                                     *)
(***************************************************************************)
EXTENDS Gateway, NumberLemmas

(* A prompt has a natural number of distinct full blocks. *)
LEMMA BlockCount == \A r \in Req : Cardinality(Blocks[r]) \in Nat
  BY FS_CardinalityType, RequestAssumption

(* Raising or lowering one entry of a load table leaves a load table. *)
LEMMA TableUpdate ==
  ASSUME NEW f \in [Worker -> Nat], NEW w, NEW n \in Nat
  PROVE  /\ [f EXCEPT ![w] = @ + n] \in [Worker -> Nat]
         /\ [f EXCEPT ![w] = Slots!Monus(@, n)] \in [Worker -> Nat]
<1>1. CASE w \in Worker
  <2>1. f[w] + n \in Nat /\ Slots!Monus(f[w], n) \in Nat
    BY <1>1 DEF Slots!Monus
  <2>2. QED
    BY <2>1
<1>2. CASE w \notin Worker
  BY <1>2
<1>3. QED
  BY <1>1, <1>2

(* The three operations on the load tables keep them tables of naturals. *)
LEMMA SlotsTyped ==
  ASSUME Slots!TypeOK, NEW p, NEW d, NEW isl \in Nat, NEW n \in Nat,
         \/ Slots!AddRequest(p, d, isl, n)
         \/ Slots!MarkPrefillCompleted(p, isl)
         \/ Slots!Free(p, d, n)
  PROVE  Slots!TypeOK'
<1>1. CASE Slots!AddRequest(p, d, isl, n)
  BY <1>1, TableUpdate, 1 \in Nat DEF Slots!AddRequest, Slots!TypeOK
<1>2. CASE Slots!MarkPrefillCompleted(p, isl)
  BY <1>2, TableUpdate DEF Slots!MarkPrefillCompleted, Slots!TypeOK
<1>3. CASE Slots!Free(p, d, n)
  BY <1>3, TableUpdate, 1 \in Nat DEF Slots!Free, Slots!TypeOK
<1>4. QED
  BY <1>1, <1>2, <1>3

(* Dispatching a request onto a route types the variables it assigns. *)
LEMMA DispatchTyped ==
  ASSUME TypeOK, NEW r \in Req, NEW rt \in Route, Dispatch(r, rt)
  PROVE  /\ phase' \in [Req -> Phase] /\ producer' \in [Req -> Producer]
         /\ route' \in [Req -> Route \cup {NoRoute}]
         /\ overlapped' \subseteq Session
  BY RequestAssumption DEF Dispatch, TypeOK, Phase, Producer

-----------------------------------------------------------------------------
(* The operations on the bindings. *)

(* Who is bound, and where and with which blocks, is as before: at most    *)
(* stamps change.                                                          *)
SameTargets ==
  \A s \in Session : /\ Affinity!Bound(s)' <=> Affinity!Bound(s)
                     /\ bindings'[s].route = bindings[s].route
                     /\ bindings'[s].block_hashes = bindings[s].block_hashes

LEMMA UntouchedTargets ==
  ASSUME UNCHANGED bindings
  PROVE  SameTargets
  BY DEF SameTargets, Affinity!Bound

(* A lookup refreshes a stamp, and nothing else.                           *)
LEMMA LookupRefreshes ==
  ASSUME Affinity!TypeOK, NEW s \in Session, Affinity!LookupHit(s)
  PROVE  Affinity!TypeOK' /\ SameTargets
<1>1. /\ bindings[s] \in Affinity!Binding /\ clock' \in Nat
      /\ bindings' = [bindings EXCEPT ![s].last_touch = clock']
      /\ bindings \in [Session -> Affinity!Binding \cup {NoBinding}]
  BY DEF Affinity!TypeOK, Affinity!LookupHit, Affinity!Bound
<1>2. /\ bindings'[s] = [bindings[s] EXCEPT !.last_touch = clock']
      /\ \A t \in Session \ {s} : bindings'[t] = bindings[t]
  BY <1>1
<1>3. /\ bindings'[s] \in Affinity!Binding
      /\ bindings'[s].route = bindings[s].route
      /\ bindings'[s].block_hashes = bindings[s].block_hashes
  BY <1>1, <1>2 DEF Affinity!Binding
<1>4. bindings[s] # NoBinding /\ bindings'[s] # NoBinding
  BY <1>1, <1>3, BindingAssumption DEF Affinity!Binding
<1>5. bindings' \in [Session -> Affinity!Binding \cup {NoBinding}]
  BY <1>1, <1>3
<1>6. QED
  BY <1>1, <1>2, <1>3, <1>4, <1>5 DEF Affinity!TypeOK, SameTargets, Affinity!Bound

(* What a binding holds once it is committed.                              *)
LEMMA BindCommits ==
  ASSUME Affinity!TypeOK, NEW s \in Session, NEW rt \in Route, NEW b \in SUBSET Hash,
         Affinity!Bind(s, rt, b)
  PROVE  /\ Affinity!TypeOK'
         /\ Affinity!Bound(s)'
         /\ bindings'[s] = [route |-> rt, block_hashes |-> b, last_touch |-> clock + 1]
         /\ \A t \in Session \ {s} : bindings'[t] = bindings[t]
<1>1. /\ clock' = clock + 1 /\ clock \in Nat
      /\ bindings' = [bindings EXCEPT ![s] =
                        [route |-> rt, block_hashes |-> b, last_touch |-> clock']]
      /\ bindings \in [Session -> Affinity!Binding \cup {NoBinding}]
  BY DEF Affinity!TypeOK, Affinity!Bind
<1>2. [route |-> rt, block_hashes |-> b, last_touch |-> clock + 1] \in Affinity!Binding
  BY <1>1 DEF Affinity!Binding
<1>3. [route |-> rt, block_hashes |-> b, last_touch |-> clock + 1] # NoBinding
  BY <1>2, BindingAssumption DEF Affinity!Binding
<1>4. QED
  BY <1>1, <1>2, <1>3 DEF Affinity!TypeOK, Affinity!Bound

-----------------------------------------------------------------------------
(* Every variable keeps a value of its kind, and no request holds a route, *)
(* a producer or a charge outside the part of its life that has them.      *)
WellFormed == TypeOK /\ Lifecycle

LEMMA InitWellFormed == Init => WellFormed
  BY PoolsAssumption, RequestAssumption
  DEF Init, WellFormed, TypeOK, Lifecycle, RouterInit, RouterTypeOK,
      Slots!Init, Slots!TypeOK, Slots!Zero, Index!Init, Index!TypeOK,
      Table!Init, Table!TypeOK, Affinity!Init, Affinity!TypeOK,
      Phase, Producer, Dispatched, Streamed, Failed

LEMMA StepWellFormed == WellFormed /\ [Next]_vars => WellFormed'
<1> SUFFICES ASSUME WellFormed, [Next]_vars PROVE WellFormed'
  OBVIOUS
<1> USE DEF WellFormed, Answer, Dispatch, Arrives, Phase, Producer, Dispatched,
            Streamed, Failed
<1>t. TypeOK /\ Lifecycle
  OBVIOUS
<1>1. ASSUME NEW r \in Req, RejectInvalid(r) PROVE WellFormed'
  BY <1>1, <1>t DEF RejectInvalid, TypeOK, Lifecycle, routerVars, affinityVars,
     RouterTypeOK, Slots!TypeOK, Index!TypeOK, Table!TypeOK, Affinity!TypeOK
<1>2. ASSUME NEW r \in Req, FollowBinding(r) PROVE WellFormed'
  <2>1. SessionOf[r] \in Session /\ bindings[SessionOf[r]].route \in Route
    BY <1>2, <1>t, RequestAssumption
       DEF FollowBinding, Bound, Affinity!Bound, TypeOK, Affinity!TypeOK, Affinity!Binding
  <2>2. Affinity!TypeOK'
    BY <1>2, <1>t, <2>1, LookupRefreshes DEF FollowBinding, TypeOK
  <2>3. RouterTypeOK' /\ Table!TypeOK'
    BY <1>2, <1>t DEF FollowBinding, TypeOK, routerVars, RouterTypeOK,
       Slots!TypeOK, Index!TypeOK, Table!TypeOK
  <2>4. Dispatch(r, bindings[SessionOf[r]].route) /\ charged' = charged
    BY <1>2 DEF FollowBinding
  <2>5. TypeOK'
    BY <1>t, <2>1, <2>2, <2>3, <2>4, DispatchTyped DEF TypeOK
  <2>6. Lifecycle'
    BY <1>2, <1>t, <2>1, <2>4 DEF FollowBinding, Lifecycle, TypeOK
  <2>7. QED
    BY <2>5, <2>6
<1>3. ASSUME NEW r \in Req, RouteScored(r) PROVE WellFormed'
  <2>1. PICK rt \in Route : RouteKv(rt, Isl[r], Blocks[r], quarantined) /\ Dispatch(r, rt)
    BY <1>3 DEF RouteScored
  <2>2. Slots!TypeOK'
    <3>1. Slots!TypeOK /\ Isl[r] \in Nat /\ Cardinality(Blocks[r]) \in Nat
      BY <1>t, BlockCount, RequestAssumption DEF TypeOK, RouterTypeOK
    <3>2. Slots!AddRequest(rt.p, rt.d, Isl[r], Cardinality(Blocks[r]))
      BY <2>1 DEF RouteKv
    <3>3. QED
      BY <3>1, <3>2, SlotsTyped
  <2>3. RouterTypeOK' /\ Table!TypeOK' /\ Affinity!TypeOK'
    BY <1>3, <1>t, <2>1, <2>2 DEF RouteScored, RouteKv, TypeOK, RouterTypeOK, affinityVars,
       Index!TypeOK, Table!TypeOK, Affinity!TypeOK
  <2>4. charged' = charged \cup {r} /\ phase[r] = "idle"
    BY <1>3 DEF RouteScored
  <2>5. TypeOK'
    BY <1>t, <2>1, <2>3, <2>4, DispatchTyped DEF TypeOK
  <2>6. Lifecycle'
    BY <1>t, <2>1, <2>4 DEF Lifecycle, TypeOK
  <2>7. QED
    BY <2>5, <2>6
<1>4. ASSUME NEW r \in Req, RouteBlind(r) PROVE WellFormed'
  <2>1. PICK rt \in Route : (RouteRoundRobin(rt) \/ RouteRandom(rt)) /\ Dispatch(r, rt)
    BY <1>4 DEF RouteBlind
  <2>2. RouterTypeOK' /\ Table!TypeOK' /\ Affinity!TypeOK'
    BY <1>4, <1>t, <2>1 DEF RouteBlind, RouteRoundRobin, RouteRandom, routerVars,
       affinityVars, TypeOK, RouterTypeOK, Slots!TypeOK, Index!TypeOK,
       Table!TypeOK, Affinity!TypeOK
  <2>3. charged' = charged /\ phase[r] = "idle"
    BY <1>4 DEF RouteBlind
  <2>4. TypeOK'
    BY <1>t, <2>1, <2>2, <2>3, DispatchTyped DEF TypeOK
  <2>5. Lifecycle'
    BY <1>t, <2>1, <2>3 DEF Lifecycle, TypeOK
  <2>6. QED
    BY <2>4, <2>5
<1>5. ASSUME NEW r \in Req, RejectUnplaced(r) PROVE WellFormed'
  BY <1>5, <1>t DEF RejectUnplaced, Rejection, TypeOK, Lifecycle, routerVars, affinityVars,
     RouterTypeOK, Slots!TypeOK, Index!TypeOK, Table!TypeOK, Affinity!TypeOK
<1>6. ASSUME NEW r \in Req, ProducerEnds(r) PROVE WellFormed'
  BY <1>6, <1>t DEF ProducerEnds, TypeOK, Lifecycle, routerVars, affinityVars,
     RouterTypeOK, Slots!TypeOK, Index!TypeOK, Table!TypeOK, Affinity!TypeOK
<1>7. ASSUME NEW r \in Req, DecodeAnswers(r) \/ DecodeErrorBodyLost(r) PROVE WellFormed'
  BY <1>7, <1>t DEF DecodeAnswers, DecodeErrorBodyLost, TypeOK, Lifecycle, routerVars,
     affinityVars, RouterTypeOK, Slots!TypeOK, Index!TypeOK, Table!TypeOK, Affinity!TypeOK
<1>8. ASSUME NEW r \in Req, DecodeRefused(r) PROVE WellFormed'
  <2>1. DecodeUrls[route[r].d] \in Url
    BY <1>8, <1>t, PoolsAssumption DEF DecodeRefused, Lifecycle, Route
  <2>2. QED
    BY <1>8, <1>t, <2>1 DEF DecodeRefused, TypeOK, Lifecycle, routerVars, affinityVars,
       RouterTypeOK, Slots!TypeOK, Index!TypeOK, Table!TypeOK, Table!Inhibit,
       Affinity!TypeOK
<1>9. ASSUME NEW r \in Req, FinishPush(r) PROVE WellFormed'
  <2>1. route[r].p \in Worker
    BY <1>9, <1>t DEF FinishPush, Lifecycle, Route, Worker
  <2>2. Slots!TypeOK'
    <3>1. Slots!TypeOK /\ Isl[r] \in Nat /\ 0 \in Nat
      BY <1>t, RequestAssumption DEF TypeOK, RouterTypeOK
    <3>2. Slots!MarkPrefillCompleted(route[r].p, Isl[r])
      BY <1>9 DEF FinishPush
    <3>3. QED
      BY <3>1, <3>2, SlotsTyped
  <2>3. Index!TypeOK'
    BY <1>9, <1>t, <2>1, RequestAssumption
       DEF FinishPush, Index!Record, Index!Role, TypeOK, RouterTypeOK, Index!TypeOK
  <2>4. QED
    BY <1>9, <1>t, <2>2, <2>3 DEF FinishPush, TypeOK, Lifecycle, affinityVars,
       RouterTypeOK, Table!TypeOK, Affinity!TypeOK
<1>10. ASSUME NEW r \in Req, NEW out \in Closed, EndStream(r, out) PROVE Slots!TypeOK'
  <2>1. Slots!TypeOK /\ 0 \in Nat /\ Cardinality(Blocks[r]) \in Nat
    BY <1>t, BlockCount DEF TypeOK, RouterTypeOK
  <2>2. Slots!Free(route[r].p, route[r].d, Cardinality(Blocks[r]))
    BY <1>10 DEF EndStream
  <2>3. QED
    BY <2>1, <2>2, SlotsTyped
<1>11. ASSUME NEW r \in Req, StreamCompletes(r) PROVE WellFormed'
  <2>1. route[r] \in Route /\ route[r].d \in Worker
    BY <1>11, <1>t DEF StreamCompletes, EndStream, Lifecycle, Route, Worker
  <2>2. Index!TypeOK'
    BY <1>11, <1>t, <2>1, RequestAssumption
       DEF StreamCompletes, Index!Record, Index!Role, TypeOK, RouterTypeOK, Index!TypeOK
  <2>3. Affinity!TypeOK'
    <3>1. CASE SessionOf[r] = NoSession
      BY <1>11, <1>t, <3>1 DEF StreamCompletes, affinityVars, TypeOK, Affinity!TypeOK
    <3>2. CASE SessionOf[r] # NoSession
      BY <1>11, <1>t, <2>1, <3>2, BindCommits, RequestAssumption DEF StreamCompletes, TypeOK
    <3>3. QED
      BY <3>1, <3>2
  <2>4. Slots!TypeOK'
    BY <1>10, <1>11 DEF StreamCompletes, Closed
  <2>5. QED
    BY <1>11, <1>t, <2>2, <2>3, <2>4 DEF StreamCompletes, EndStream, TypeOK, Lifecycle,
       RouterTypeOK, Table!TypeOK
<1>12. ASSUME NEW r \in Req, StreamAborts(r) PROVE WellFormed'
  <2>1. Slots!TypeOK'
    BY <1>10, <1>12 DEF StreamAborts, Closed
  <2>2. QED
    BY <1>12, <1>t, <2>1 DEF StreamAborts, EndStream, TypeOK, Lifecycle, affinityVars,
       RouterTypeOK, Index!TypeOK, Table!TypeOK, Affinity!TypeOK
<1>13. ASSUME NEW us \in SUBSET Url, Expire(us) PROVE WellFormed'
  BY <1>13, <1>t DEF Expire, Table!Expire, TypeOK, Lifecycle, routerVars, affinityVars,
     requestVars, RouterTypeOK, Slots!TypeOK, Index!TypeOK, Table!TypeOK, Affinity!TypeOK
<1>14. ASSUME UNCHANGED vars PROVE WellFormed'
  BY <1>14, <1>t DEF vars, TypeOK, Lifecycle, routerVars, affinityVars,
     requestVars, RouterTypeOK, Slots!TypeOK, Index!TypeOK, Table!TypeOK, Affinity!TypeOK
<1>15. QED
  BY <1>1, <1>2, <1>3, <1>4, <1>5, <1>6, <1>7, <1>8, <1>9, <1>11, <1>12, <1>13, <1>14
     DEF Next, Receive, DecodeLeg, StreamEnds, Idle

(* Type correctness of the serving path. *)
THEOREM TypeCorrect == Spec => []TypeOK
<1>1. WellFormed => TypeOK
  BY DEF WellFormed
<1>2. QED
  BY InitWellFormed, StepWellFormed, <1>1, PTL DEF Spec

(* Requests are released, published and cancelled only in their place. *)
THEOREM LifecycleKept == Spec => []Lifecycle
<1>1. WellFormed => Lifecycle
  BY DEF WellFormed
<1>2. QED
  BY InitWellFormed, StepWellFormed, <1>1, PTL DEF Spec

-----------------------------------------------------------------------------
(* The index is what the requests have earned. *)

(* What the requests have earned; a step adds the same to it and to the    *)
(* index.                                                                  *)
Earned == UNION {CreditedBy(r) : r \in Req}
EarnsWhatItRecords ==
  \E N : locations' = locations \cup N /\ Earned' = Earned \cup N

(* When one request earns the blocks N, and N is recorded. *)
LEMMA OneEarns ==
  ASSUME NEW r \in Req, NEW N,
         \A q \in Req \ {r} : CreditedBy(q)' = CreditedBy(q),
         CreditedBy(r)' = CreditedBy(r) \cup N,
         locations' = locations \cup N
  PROVE  EarnsWhatItRecords
<1>1. Earned' = Earned \cup N
  BY DEF Earned
<1>2. QED
  BY <1>1 DEF EarnsWhatItRecords

LEMMA NobodyEarns ==
  ASSUME \A q \in Req : CreditedBy(q)' = CreditedBy(q), UNCHANGED locations
  PROVE  EarnsWhatItRecords
<1>1. Earned' = Earned \cup {} /\ locations' = locations \cup {}
  BY DEF Earned
<1>2. QED
  BY <1>1 DEF EarnsWhatItRecords

(* A request that starts had earned nothing and still has not. *)
LEMMA StartEarnsNothing ==
  ASSUME WellFormed, NEW r \in Req, phase[r] = "idle", NEW rt, Dispatch(r, rt)
  PROVE  \A q \in Req : CreditedBy(q)' = CreditedBy(q)
<1>1. producer[r] = "none"
  BY DEF WellFormed, Lifecycle, Dispatched, Streamed, Failed
<1>2. ASSUME NEW q \in Req PROVE CreditedBy(q)' = CreditedBy(q)
  BY <1>1 DEF WellFormed, TypeOK, Dispatch, CreditedBy
<1>3. QED
  BY <1>2

LEMMA StepEarns == WellFormed /\ [Next]_vars => EarnsWhatItRecords
<1> SUFFICES ASSUME WellFormed, [Next]_vars PROVE EarnsWhatItRecords
  OBVIOUS
<1>t. /\ phase \in [Req -> Phase] /\ producer \in [Req -> Producer]
      /\ route \in [Req -> Route \cup {NoRoute}] /\ Lifecycle
  BY DEF WellFormed, TypeOK
<1>1. ASSUME NEW r \in Req, RejectInvalid(r) \/ RejectUnplaced(r) PROVE EarnsWhatItRecords
  <2>1. \A q \in Req : CreditedBy(q)' = CreditedBy(q)
    BY <1>1, <1>t DEF RejectInvalid, RejectUnplaced, Rejection, Arrives, Answer, CreditedBy
  <2>2. QED
    BY <1>1, <2>1, NobodyEarns DEF RejectInvalid, RejectUnplaced, routerVars
<1>2. ASSUME NEW r \in Req, FollowBinding(r) \/ RouteScored(r) \/ RouteBlind(r)
      PROVE EarnsWhatItRecords
  <2>1. PICK rt : phase[r] = "idle" /\ Dispatch(r, rt) /\ UNCHANGED locations
    BY <1>2 DEF FollowBinding, RouteScored, RouteBlind, Arrives, routerVars, RouteKv,
       RouteRoundRobin, RouteRandom
  <2>2. QED
    BY <2>1, StartEarnsNothing, NobodyEarns
<1>3. ASSUME NEW r \in Req, ProducerEnds(r) PROVE EarnsWhatItRecords
  <2>1. \A q \in Req : CreditedBy(q)' = CreditedBy(q)
    BY <1>3, <1>t DEF ProducerEnds, CreditedBy
  <2>2. QED
    BY <1>3, <2>1, NobodyEarns DEF ProducerEnds, routerVars
<1>4. ASSUME NEW r \in Req, DecodeLeg(r) PROVE EarnsWhatItRecords
  <2>1. \A q \in Req : CreditedBy(q)' = CreditedBy(q)
    BY <1>4, <1>t DEF DecodeLeg, DecodeAnswers, DecodeRefused, DecodeErrorBodyLost, Answer,
       CreditedBy
  <2>2. QED
    BY <1>4, <2>1, NobodyEarns
       DEF DecodeLeg, DecodeAnswers, DecodeRefused, DecodeErrorBodyLost, routerVars
<1>5. ASSUME NEW r \in Req, FinishPush(r) PROVE EarnsWhatItRecords
  <2> DEFINE N == {<<h, route[r].p, "prefill">> : h \in Blocks[r]}
  <2>1. \A q \in Req \ {r} : CreditedBy(q)' = CreditedBy(q)
    BY <1>5, <1>t DEF FinishPush, CreditedBy
  <2>2. CreditedBy(r)' = CreditedBy(r) \cup N
    BY <1>5, <1>t DEF FinishPush, CreditedBy
  <2>3. locations' = locations \cup N
    BY <1>5 DEF FinishPush, Index!Record
  <2>4. QED
    BY <2>1, <2>2, <2>3, OneEarns
<1>6. ASSUME NEW r \in Req, StreamCompletes(r) PROVE EarnsWhatItRecords
  <2> DEFINE N == {<<h, route[r].d, "decode">> : h \in Blocks[r]}
  <2>1. \A q \in Req \ {r} : CreditedBy(q)' = CreditedBy(q)
    BY <1>6, <1>t DEF StreamCompletes, EndStream, Answer, CreditedBy
  <2>2. CreditedBy(r)' = CreditedBy(r) \cup N
    BY <1>6, <1>t DEF StreamCompletes, EndStream, Answer, CreditedBy
  <2>3. locations' = locations \cup N
    BY <1>6 DEF StreamCompletes, Index!Record
  <2>4. QED
    BY <2>1, <2>2, <2>3, OneEarns
<1>7. ASSUME NEW r \in Req, StreamAborts(r) PROVE EarnsWhatItRecords
  <2>1. \A q \in Req : CreditedBy(q)' = CreditedBy(q)
    BY <1>7, <1>t DEF StreamAborts, EndStream, Answer, CreditedBy
  <2>2. QED
    BY <1>7, <2>1, NobodyEarns DEF StreamAborts
<1>8. ASSUME NEW us \in SUBSET Url, Expire(us) PROVE EarnsWhatItRecords
  BY <1>8, NobodyEarns DEF Expire, routerVars, requestVars, CreditedBy
<1>9. ASSUME UNCHANGED vars PROVE EarnsWhatItRecords
  BY <1>9, NobodyEarns DEF vars, routerVars, requestVars, CreditedBy
<1>10. QED
  BY <1>1, <1>2, <1>3, <1>4, <1>5, <1>6, <1>7, <1>8, <1>9
     DEF Next, Receive, StreamEnds, Idle

LEMMA StepIndexExact == WellFormed /\ IndexExact /\ [Next]_vars => IndexExact'
  BY StepEarns DEF EarnsWhatItRecords, IndexExact, Earned

(* The index credits workers with exactly what finished requests put there. *)
THEOREM IndexIsExact == Spec => []IndexExact
<1>1. Init => IndexExact
  BY DEF Init, RouterInit, Index!Init, IndexExact, CreditedBy
<1>2. QED
  BY <1>1, InitWellFormed, StepWellFormed, StepIndexExact, PTL DEF Spec

-----------------------------------------------------------------------------
(* Bindings point where the conversation was served. *)

(* As long as no target moves and what has completed stays as it is.       *)
LEMMA TargetsStayCommitted ==
  ASSUME BindingsCommitted, SameTargets,
         \A q \in Req : phase[q] = "completed" =>
                         phase'[q] = "completed" /\ route'[q] = route[q]
  PROVE  BindingsCommitted'
<1> SUFFICES ASSUME NEW s \in Session, Affinity!Bound(s)'
             PROVE  \E r \in Req :
                      /\ SessionOf[r] = s /\ phase'[r] = "completed"
                      /\ bindings'[s].route = route'[r]
                      /\ bindings'[s].block_hashes = Blocks[r]
  BY DEF BindingsCommitted
<1>1. PICK r \in Req :
        /\ SessionOf[r] = s /\ phase[r] = "completed"
        /\ bindings[s].route = route[r] /\ bindings[s].block_hashes = Blocks[r]
  BY DEF BindingsCommitted, SameTargets
<1>2. QED
  BY <1>1 DEF SameTargets

LEMMA StepBindingsCommitted ==
  WellFormed /\ BindingsCommitted /\ [Next]_vars => BindingsCommitted'
<1> SUFFICES ASSUME WellFormed, BindingsCommitted, [Next]_vars PROVE BindingsCommitted'
  OBVIOUS
<1>t. /\ phase \in [Req -> Phase] /\ route \in [Req -> Route \cup {NoRoute}]
      /\ bindings \in [Session -> Affinity!Binding \cup {NoBinding}]
  BY DEF WellFormed, TypeOK, Affinity!TypeOK
<1>1. ASSUME NEW r \in Req, StreamCompletes(r) PROVE BindingsCommitted'
  <2>1. /\ phase' = [phase EXCEPT ![r] = "completed"]
        /\ UNCHANGED route
    BY <1>1 DEF StreamCompletes, EndStream, Answer
  <2>2. CASE SessionOf[r] = NoSession
    BY <1>1, <1>t, <2>1, <2>2 DEF StreamCompletes, affinityVars, BindingsCommitted, Affinity!Bound
  <2>3. CASE SessionOf[r] # NoSession
    <3>1. SessionOf[r] \in Session /\ route[r] \in Route /\ Blocks[r] \in SUBSET Hash
      BY <1>1, <2>3, RequestAssumption DEF StreamCompletes, EndStream, WellFormed, Lifecycle,
         Dispatched, Streamed
    <3>2. /\ bindings'[SessionOf[r]].route = route[r]
          /\ bindings'[SessionOf[r]].block_hashes = Blocks[r]
          /\ \A t \in Session \ {SessionOf[r]} : bindings'[t] = bindings[t]
      <4>1. Affinity!TypeOK /\ Affinity!Bind(SessionOf[r], route[r], Blocks[r])
        BY <1>1, <2>3 DEF StreamCompletes, WellFormed, TypeOK
      <4>2. bindings'[SessionOf[r]] =
              [route |-> route[r], block_hashes |-> Blocks[r], last_touch |-> clock + 1]
        BY <3>1, <4>1, BindCommits
      <4>3. \A t \in Session \ {SessionOf[r]} : bindings'[t] = bindings[t]
        BY <3>1, <4>1, BindCommits
      <4>4. QED
        BY <4>2, <4>3
    <3>3. QED
      BY <1>t, <2>1, <3>1, <3>2 DEF BindingsCommitted, Affinity!Bound
  <2>4. QED
    BY <2>2, <2>3
<1>2. ASSUME SameTargets,
             \A q \in Req : phase[q] = "completed" =>
                             phase'[q] = "completed" /\ route'[q] = route[q]
      PROVE  BindingsCommitted'
  BY <1>2, TargetsStayCommitted
<1>3. ASSUME NEW r \in Req, Receive(r) PROVE BindingsCommitted'
  <2>1. SameTargets
    <3>1. CASE FollowBinding(r)
      BY <3>1, LookupRefreshes, RequestAssumption DEF FollowBinding, Bound, WellFormed, TypeOK
    <3>2. CASE ~FollowBinding(r)
      BY <1>3, <3>2, UntouchedTargets DEF Receive, RejectInvalid, RouteScored, RouteBlind,
         RejectUnplaced, affinityVars
    <3>3. QED
      BY <3>1, <3>2
  <2>2. phase[r] = "idle"
    BY <1>3 DEF Receive, RejectInvalid, FollowBinding, RouteScored, RouteBlind, RejectUnplaced,
       Arrives
  <2>3. PICK out, rt : /\ phase' = [phase EXCEPT ![r] = out]
                       /\ route' = [route EXCEPT ![r] = rt] \/ UNCHANGED route
    BY <1>3 DEF Receive, RejectInvalid, FollowBinding, RouteScored, RouteBlind, RejectUnplaced,
       Answer, Dispatch
  <2>4. QED
    BY <1>2, <1>t, <2>1, <2>2, <2>3
<1>4. ASSUME NEW r \in Req, ProducerEnds(r) \/ FinishPush(r) PROVE BindingsCommitted'
  BY <1>4, <1>2, UntouchedTargets DEF ProducerEnds, FinishPush, affinityVars
<1>5. ASSUME NEW r \in Req, DecodeLeg(r) \/ StreamAborts(r) PROVE BindingsCommitted'
  BY <1>5, <1>2, <1>t, UntouchedTargets DEF DecodeLeg, DecodeAnswers, DecodeRefused, DecodeErrorBodyLost,
     StreamAborts, EndStream, Answer, affinityVars
<1>6. ASSUME NEW us \in SUBSET Url, Expire(us) PROVE BindingsCommitted'
  BY <1>6, <1>2, UntouchedTargets DEF Expire, affinityVars, requestVars
<1>7. ASSUME UNCHANGED vars PROVE BindingsCommitted'
  BY <1>7, <1>2, UntouchedTargets DEF vars, affinityVars, requestVars
<1>8. QED
  BY <1>1, <1>3, <1>4, <1>5, <1>6, <1>7 DEF Next, StreamEnds, Idle

LEMMA InitBindingsCommitted == Init => BindingsCommitted
  BY DEF Init, Affinity!Init, Affinity!Bound, BindingsCommitted

(* A failed or abandoned request never pins a conversation. *)
THEOREM BindingsAreCommitted == Spec => []BindingsCommitted
  BY InitWellFormed, StepWellFormed, InitBindingsCommitted, StepBindingsCommitted, PTL DEF Spec

(* The blocks that justify a binding are indexed where it points. *)
THEOREM BoundBlocksAreIndexed == Spec => []BoundBlocksIndexed
<1>1. BindingsCommitted /\ IndexExact => BoundBlocksIndexed
  <2> SUFFICES ASSUME BindingsCommitted, IndexExact,
                      NEW s \in Session, Affinity!Bound(s),
                      NEW h \in bindings[s].block_hashes
               PROVE  h \in Index!WorkerBlocks(bindings[s].route.d, "decode")
    BY DEF BoundBlocksIndexed
  <2>1. PICK r \in Req : /\ phase[r] = "completed"
                         /\ bindings[s].route = route[r] /\ bindings[s].block_hashes = Blocks[r]
    BY DEF BindingsCommitted
  <2>2. <<h, route[r].d, "decode">> \in CreditedBy(r)
    BY <2>1 DEF CreditedBy
  <2>3. <<h, bindings[s].route.d, "decode">> \in locations
    BY <2>1, <2>2 DEF IndexExact
  <2>4. QED
    BY <2>3 DEF Index!WorkerBlocks
<1>2. QED
  BY <1>1, IndexIsExact, BindingsAreCommitted, PTL

-----------------------------------------------------------------------------
(* Where requests go: conversations keep their worker, and scored requests *)
(* stay clear of quarantined and busy ones.                                *)

LEMMA InitSerialTurns == Init => SerialTurns
  BY DEF Init, SerialTurns, InFlight

LEMMA StepSerialTurns == WellFormed /\ SerialTurns /\ [Next]_vars => SerialTurns'
<1> SUFFICES ASSUME WellFormed, SerialTurns, [Next]_vars PROVE SerialTurns'
  OBVIOUS
<1>t. /\ phase \in [Req -> Phase] /\ route \in [Req -> Route \cup {NoRoute}]
      /\ bindings \in [Session -> Affinity!Binding \cup {NoBinding}]
  BY DEF WellFormed, TypeOK, Affinity!TypeOK
(* A request starts: either nothing of its conversation was in flight, or  *)
(* the conversation now counts as overlapped.                              *)
<1>1. ASSUME NEW r \in Req, NEW rt, Dispatch(r, rt), phase[r] = "idle", SameTargets,
             Bound(r) => rt = bindings[SessionOf[r]].route
      PROVE  SerialTurns'
  <2> SUFFICES ASSUME NEW q \in Req, SessionOf[q] \in Session \ overlapped', InFlight(q)'
               PROVE  /\ \A u \in Req : InFlight(u)' /\ SessionOf[u] = SessionOf[q] => u = q
                      /\ Affinity!Bound(SessionOf[q])'
                           => bindings'[SessionOf[q]].route = route'[q]
    BY DEF SerialTurns
  <2>1. \A u \in Req : u # r => /\ InFlight(u)' <=> InFlight(u)
                                /\ route'[u] = route[u]
    BY <1>1, <1>t DEF Dispatch, InFlight
  <2>2. overlapped \subseteq overlapped' /\ SessionOf[q] # NoSession
    BY <1>1, RequestAssumption DEF Dispatch
  <2>3. CASE q = r
    <3>1. \A u \in Req : InFlight(u) => SessionOf[u] # SessionOf[r]
      BY <1>1, <2>2, <2>3 DEF Dispatch
    <3>2. route'[r] = rt
      BY <1>1, <1>t DEF Dispatch
    <3>3. QED
      BY <1>1, <2>1, <2>2, <2>3, <3>1, <3>2 DEF SameTargets, Bound
  <2>4. CASE q # r
    <3>1. InFlight(q) /\ SessionOf[q] \in Session \ overlapped
      BY <2>1, <2>2, <2>4
    <3>2. SessionOf[q] # SessionOf[r]
      BY <1>1, <2>2, <3>1 DEF Dispatch
    <3>3. QED
      BY <1>1, <2>1, <2>4, <3>1, <3>2 DEF SerialTurns, SameTargets
  <2>5. QED
    BY <2>3, <2>4
(* A request completes: nothing else of its conversation is in flight.     *)
<1>2. ASSUME NEW r \in Req, StreamCompletes(r) PROVE SerialTurns'
  <2>1. /\ phase[r] = "streaming" /\ phase' = [phase EXCEPT ![r] = "completed"]
        /\ UNCHANGED <<route, overlapped>>
    BY <1>2 DEF StreamCompletes, EndStream, Answer
  <2>2. \A s \in Session : s # SessionOf[r] => bindings'[s] = bindings[s]
    BY <1>2, <1>t DEF StreamCompletes, Affinity!Bind, affinityVars
  <2>3. InFlight(r) /\ ~InFlight(r)' /\ \A u \in Req : u # r => (InFlight(u)' <=> InFlight(u))
    BY <2>1, <1>t DEF InFlight
  <2> SUFFICES ASSUME NEW q \in Req, SessionOf[q] \in Session \ overlapped, InFlight(q)'
               PROVE  /\ \A u \in Req : InFlight(u)' /\ SessionOf[u] = SessionOf[q] => u = q
                      /\ Affinity!Bound(SessionOf[q])'
                           => bindings'[SessionOf[q]].route = route'[q]
    BY <2>1 DEF SerialTurns
  <2>4. q # r /\ InFlight(q)
    BY <2>3
  <2>5. SessionOf[q] # SessionOf[r]
    BY <2>3, <2>4 DEF SerialTurns
  <2>6. QED
    BY <2>1, <2>2, <2>3, <2>4, <2>5 DEF SerialTurns, Affinity!Bound
(* Everything else moves no binding and puts nothing in flight.            *)
<1>3. ASSUME UNCHANGED <<bindings, route, overlapped>>,
             \A q \in Req : InFlight(q)' => InFlight(q)
      PROVE  SerialTurns'
  BY <1>3 DEF SerialTurns, Affinity!Bound
<1>4. ASSUME NEW r \in Req, FollowBinding(r) \/ RouteScored(r) \/ RouteBlind(r)
      PROVE  SerialTurns'
  <2>1. PICK rt : /\ Dispatch(r, rt) /\ phase[r] = "idle"
                  /\ Bound(r) => rt = bindings[SessionOf[r]].route
    BY <1>4 DEF FollowBinding, RouteScored, RouteBlind, Arrives
  <2>2. SameTargets
    <3>1. CASE FollowBinding(r)
      BY <3>1, LookupRefreshes, RequestAssumption DEF FollowBinding, Bound, WellFormed, TypeOK
    <3>2. CASE RouteScored(r) \/ RouteBlind(r)
      BY <3>2, UntouchedTargets DEF RouteScored, RouteBlind, affinityVars
    <3>3. QED
      BY <1>4, <3>1, <3>2
  <2>3. QED
    BY <2>1, <2>2, <1>1
<1>5. ASSUME NEW r \in Req, RejectInvalid(r) \/ RejectUnplaced(r) PROVE SerialTurns'
  BY <1>5, <1>3, <1>t DEF RejectInvalid, RejectUnplaced, Rejection, Answer, affinityVars, InFlight
<1>6. ASSUME NEW r \in Req, ProducerEnds(r) \/ FinishPush(r) PROVE SerialTurns'
  BY <1>6, <1>3 DEF ProducerEnds, FinishPush, affinityVars, InFlight
<1>7. ASSUME NEW r \in Req, DecodeLeg(r) \/ StreamAborts(r) PROVE SerialTurns'
  BY <1>7, <1>3, <1>t DEF DecodeLeg, DecodeAnswers, DecodeRefused, DecodeErrorBodyLost,
     StreamAborts, EndStream, Answer, affinityVars, InFlight
<1>8. ASSUME NEW us \in SUBSET Url, Expire(us) PROVE SerialTurns'
  BY <1>8, <1>3 DEF Expire, affinityVars, requestVars, InFlight
<1>9. ASSUME UNCHANGED vars PROVE SerialTurns'
  BY <1>9, <1>3 DEF vars, affinityVars, requestVars, InFlight
<1>10. QED
  BY <1>2, <1>4, <1>5, <1>6, <1>7, <1>8, <1>9 DEF Next, Receive, StreamEnds, Idle

(* Turns that do not overlap have one request in flight, where the         *)
(* conversation is bound.                                                  *)
THEOREM TurnsAreSerial == Spec => []SerialTurns
  BY InitWellFormed, StepWellFormed, InitSerialTurns, StepSerialTurns, PTL DEF Spec

(* What StickySession says of one step. *)
StickyStep ==
  \A s \in Session : Affinity!Bound(s) =>
    /\ \A r \in Req : Starts(r) /\ SessionOf[r] = s => route'[r] = bindings[s].route
    /\ bindings'[s] # NoBinding
    /\ bindings'[s].route # bindings[s].route => s \in overlapped

LEMMA StepSticky == WellFormed /\ SerialTurns /\ [Next]_vars => StickyStep
<1> SUFFICES ASSUME WellFormed, SerialTurns, [Next]_vars,
                    NEW s \in Session, Affinity!Bound(s)
             PROVE  /\ \A r \in Req : Starts(r) /\ SessionOf[r] = s
                                        => route'[r] = bindings[s].route
                    /\ bindings'[s] # NoBinding
                    /\ bindings'[s].route # bindings[s].route => s \in overlapped
  BY DEF StickyStep
<1>t. /\ phase \in [Req -> Phase] /\ route \in [Req -> Route \cup {NoRoute}]
      /\ bindings \in [Session -> Affinity!Binding \cup {NoBinding}]
  BY DEF WellFormed, TypeOK, Affinity!TypeOK
<1>n. s # NoSession
  BY RequestAssumption
<1>1. ASSUME NEW r \in Req, FollowBinding(r)
      PROVE  /\ SameTargets
             /\ \A q \in Req : Starts(q) => q = r /\ route'[r] = bindings[SessionOf[r]].route
  <2>1. SameTargets
    BY <1>1, LookupRefreshes, RequestAssumption DEF FollowBinding, Bound, WellFormed, TypeOK
  <2>2. QED
    BY <1>1, <1>t, <2>1 DEF FollowBinding, Dispatch, Starts
<1>2. ASSUME NEW r \in Req, RouteScored(r) \/ RouteBlind(r)
      PROVE  UNCHANGED bindings /\ \A q \in Req : Starts(q) => q = r /\ SessionOf[r] # s
  BY <1>2, <1>t, <1>n DEF RouteScored, RouteBlind, Dispatch, Starts, Bound, affinityVars
<1>3. ASSUME NEW r \in Req, StreamCompletes(r)
      PROVE  /\ \A q \in Req : ~Starts(q)
             /\ bindings'[s] # NoBinding
             /\ bindings'[s].route # bindings[s].route => s \in overlapped
  <2>1. \A q \in Req : ~Starts(q)
    BY <1>3, <1>t DEF StreamCompletes, EndStream, Answer, Starts
  <2>2. CASE SessionOf[r] # s
    BY <1>3, <1>t, <2>1, <2>2 DEF StreamCompletes, Affinity!Bind, affinityVars, Affinity!Bound
  <2>3. CASE SessionOf[r] = s
    <3>1. phase[r] = "streaming" /\ route[r] \in Route /\ Blocks[r] \in SUBSET Hash
      BY <1>3, RequestAssumption DEF StreamCompletes, EndStream, WellFormed, Lifecycle, Dispatched,
         Streamed
    <3>2. Affinity!Bind(s, route[r], Blocks[r])
      BY <1>3, <1>n, <2>3 DEF StreamCompletes
    <3>3. bindings'[s].route = route[r] /\ bindings'[s] # NoBinding
      <4>1. Affinity!TypeOK
        BY DEF WellFormed, TypeOK
      <4>2. bindings'[s] =
              [route |-> route[r], block_hashes |-> Blocks[r], last_touch |-> clock + 1]
        BY <3>1, <3>2, <4>1, BindCommits
      <4>3. Affinity!Bound(s)'
        BY <3>1, <3>2, <4>1, BindCommits
      <4>4. QED
        BY <4>2, <4>3 DEF Affinity!Bound
    <3>4. s \notin overlapped => bindings[s].route = route[r]
      BY <2>3, <3>1 DEF SerialTurns, InFlight
    <3>5. QED
      BY <2>1, <3>3, <3>4
  <2>4. QED
    BY <2>2, <2>3
<1>4. ASSUME UNCHANGED bindings, \A q \in Req : ~Starts(q)
      PROVE  /\ \A r \in Req : Starts(r) /\ SessionOf[r] = s
                                 => route'[r] = bindings[s].route
             /\ bindings'[s] # NoBinding
             /\ bindings'[s].route # bindings[s].route => s \in overlapped
  BY <1>4 DEF Affinity!Bound
<1>5. ASSUME NEW r \in Req,
             \/ RejectInvalid(r) \/ RejectUnplaced(r) \/ ProducerEnds(r) \/ FinishPush(r)
             \/ DecodeLeg(r) \/ StreamAborts(r)
      PROVE  UNCHANGED bindings /\ \A q \in Req : ~Starts(q)
  BY <1>5, <1>t DEF RejectInvalid, RejectUnplaced, Rejection, ProducerEnds, FinishPush,
     DecodeLeg, DecodeAnswers, DecodeRefused, DecodeErrorBodyLost, StreamAborts, EndStream,
     Answer, affinityVars, Starts
<1>6. ASSUME UNCHANGED vars \/ \E us \in SUBSET Url : Expire(us)
      PROVE  UNCHANGED bindings /\ \A q \in Req : ~Starts(q)
  BY <1>6 DEF Expire, vars, affinityVars, requestVars, Starts
<1>7. QED
  BY <1>1, <1>2, <1>3, <1>4, <1>5, <1>6
     DEF Next, Receive, StreamEnds, Idle, Affinity!Bound, SameTargets

(* A bound conversation stays where it is as long as its turns do not      *)
(* overlap, and each of its requests goes there.                           *)
THEOREM SessionsStick == Spec => StickySession
<1>1. WellFormed /\ SerialTurns /\ [Next]_vars => [StickyStep]_vars
  BY StepSticky
<1>2. Spec => [][StickyStep]_vars
  BY <1>1, InitWellFormed, StepWellFormed, InitSerialTurns, StepSerialTurns, PTL DEF Spec
<1>3. QED
  BY <1>2 DEF StickySession, StickyStep

(* What FilterHonoured says of one step. *)
FilterStep ==
  \A r \in Req : Starts(r) /\ r \in charged' =>
    /\ PrefillUrls[route'[r].p] \notin quarantined
    /\ DecodeUrls[route'[r].d] \notin quarantined
    /\ Within(prefillTokens[route'[r].p], PrefillThreshold)
    /\ Within(decodeBlocks[route'[r].d], DecodeThreshold)

LEMMA StepFilter == WellFormed /\ [Next]_vars => FilterStep
<1> SUFFICES ASSUME WellFormed, [Next]_vars, NEW r \in Req, Starts(r), r \in charged'
             PROVE  /\ PrefillUrls[route'[r].p] \notin quarantined
                    /\ DecodeUrls[route'[r].d] \notin quarantined
                    /\ Within(prefillTokens[route'[r].p], PrefillThreshold)
                    /\ Within(decodeBlocks[route'[r].d], DecodeThreshold)
  BY DEF FilterStep
<1>t. /\ phase \in [Req -> Phase] /\ route \in [Req -> Route \cup {NoRoute}]
      /\ r \notin charged
  BY DEF WellFormed, TypeOK, Lifecycle, Starts, Dispatched, Streamed, Failed
(* Only scored routing adds r to the charged requests. *)
<1>1. RouteScored(r)
  <2>1. charged' # charged
    BY <1>t
  <2>2. ~UNCHANGED vars /\ ~Idle /\ \A us \in SUBSET Url : ~Expire(us)
    BY <2>1 DEF Idle, Expire, vars, requestVars
  <2>3. \A q \in Req : ~(ProducerEnds(q) \/ DecodeLeg(q) \/ FinishPush(q) \/ StreamEnds(q))
    BY <2>1 DEF ProducerEnds, DecodeLeg, DecodeAnswers, DecodeRefused, DecodeErrorBodyLost,
       FinishPush, StreamEnds, StreamCompletes, StreamAborts, EndStream, Answer
  <2>4. \A q \in Req : ~(RejectInvalid(q) \/ FollowBinding(q) \/ RouteBlind(q)
                           \/ RejectUnplaced(q))
    BY <2>1 DEF RejectInvalid, FollowBinding, RouteBlind, RejectUnplaced, Answer
  <2>5. PICK q \in Req : RouteScored(q)
    BY <2>2, <2>3, <2>4 DEF Next, Receive
  <2>6. charged' = charged \cup {q}
    BY <2>5 DEF RouteScored
  <2>7. QED
    BY <1>t, <2>5, <2>6
<1>2. PICK rt \in Route : RouteKv(rt, Isl[r], Blocks[r], quarantined) /\ Dispatch(r, rt)
  BY <1>1 DEF RouteScored
<1>3. route'[r] = rt
  BY <1>2, <1>t DEF Dispatch
<1>4. rt.p \in EligiblePrefill(quarantined) /\ rt.d \in EligibleDecode(quarantined)
  BY <1>2 DEF RouteKv, SelectPrefillWorker, SelectDecode, Choice!Pick
<1>5. QED
  BY <1>3, <1>4 DEF EligiblePrefill, EligibleDecode

(* A scored request never lands on a quarantined or busy worker. *)
THEOREM FiltersAreHonoured == Spec => FilterHonoured
<1>1. WellFormed /\ [Next]_vars => [FilterStep]_vars
  BY StepFilter
<1>2. Spec => [][FilterStep]_vars
  BY <1>1, InitWellFormed, StepWellFormed, PTL DEF Spec
<1>3. QED
  BY <1>2 DEF FilterHonoured, FilterStep

-----------------------------------------------------------------------------
(* The walk of find_matches_for_request: one hash at a time, one more for  *)
(* every holder; and what it ends with, the holders and their counts.      *)
Counted(h, scores, role, workers) ==
  LET Holders == {w \in workers : <<h, w, role>> \in locations}
  IN  [w \in DOMAIN scores \cup Holders |->
         (IF w \in DOMAIN scores THEN scores[w] ELSE 0)
           + (IF w \in Holders THEN 1 ELSE 0)]

Walks(g, S, role, workers) ==
  g = [s \in SUBSET S |->
         IF s = {} THEN <<>>
         ELSE LET h == CHOOSE x \in s : TRUE
              IN  Counted(h, g[s \ {h}], role, workers)]

HeldOf(s, w, role) == {h \in s : <<h, w, role>> \in locations}

Tally(s, role, workers) ==
  [w \in {x \in workers : HeldOf(s, x, role) # {}} |-> Cardinality(HeldOf(s, w, role))]

(* Counting one more hash extends the tally by that hash. *)
LEMMA CountOneMore ==
  ASSUME NEW s, IsFiniteSet(s), NEW h \in s, NEW role, NEW workers
  PROVE  Counted(h, Tally(s \ {h}, role, workers), role, workers) = Tally(s, role, workers)
<1> DEFINE t == s \ {h}
           Holders == {w \in workers : <<h, w, role>> \in locations}
           Counting == {x \in workers : HeldOf(s, x, role) # {}}
           Fewer == {x \in workers : HeldOf(t, x, role) # {}}
<1>1. Counting = Fewer \cup Holders
  BY DEF HeldOf
<1>2. ASSUME NEW w \in Counting
      PROVE  Cardinality(HeldOf(s, w, role)) =
               (IF w \in Fewer THEN Cardinality(HeldOf(t, w, role)) ELSE 0)
                 + (IF w \in Holders THEN 1 ELSE 0)
  <2>1. IsFiniteSet(HeldOf(s, w, role)) /\ IsFiniteSet(HeldOf(t, w, role))
    <3>1. HeldOf(s, w, role) \in SUBSET s /\ HeldOf(t, w, role) \in SUBSET s
      BY DEF HeldOf
    <3>2. QED
      BY <3>1, FS_Subset
  <2>2. Cardinality(HeldOf(t, w, role)) =
          IF w \in Fewer THEN Cardinality(HeldOf(t, w, role)) ELSE 0
    BY FS_EmptySet
  <2>3. CASE w \in Holders
    <3>1. h \in HeldOf(s, w, role) /\ HeldOf(t, w, role) = HeldOf(s, w, role) \ {h}
      BY <2>3 DEF HeldOf
    <3>2. Cardinality(HeldOf(t, w, role)) = Cardinality(HeldOf(s, w, role)) - 1
      BY <2>1, <3>1, FS_RemoveElement
    <3>3. Cardinality(HeldOf(s, w, role)) \in Nat
      BY <2>1, FS_CardinalityType
    <3> HIDE DEF Fewer, Holders, t
    <3>4. Cardinality(HeldOf(s, w, role)) = Cardinality(HeldOf(t, w, role)) + 1
      BY <3>2, <3>3
    <3>5. QED
      BY <2>2, <2>3, <3>4
  <2>4. CASE w \notin Holders
    <3>1. HeldOf(t, w, role) = HeldOf(s, w, role)
      BY <2>4 DEF HeldOf
    <3>2. Cardinality(HeldOf(t, w, role)) \in Nat
      BY <2>1, FS_CardinalityType
    <3> HIDE DEF Fewer, Holders, t
    <3>3. QED
      BY <2>2, <2>4, <3>1, <3>2
  <2>5. QED
    BY <2>3, <2>4
<1>3. Tally(t, role, workers) = [w \in Fewer |-> Cardinality(HeldOf(t, w, role))]
  BY DEF Tally
<1>4. Tally(s, role, workers) = [w \in Counting |-> Cardinality(HeldOf(s, w, role))]
  BY DEF Tally
<1>5. Counted(h, Tally(t, role, workers), role, workers) =
        [w \in Fewer \cup Holders |->
           (IF w \in Fewer THEN Cardinality(HeldOf(t, w, role)) ELSE 0)
             + (IF w \in Holders THEN 1 ELSE 0)]
  <2> DEFINE ft == Tally(t, role, workers)
           count(w) == Cardinality(HeldOf(t, w, role))
  <2>1. ft = [w \in Fewer |-> count(w)]
    BY <1>3
  <2>2. Counted(h, ft, role, workers) =
          [w \in DOMAIN ft \cup Holders |->
             (IF w \in DOMAIN ft THEN ft[w] ELSE 0) + (IF w \in Holders THEN 1 ELSE 0)]
    BY DEF Counted
  <2> HIDE DEF ft, Fewer, Holders, count
  <2>3. Counted(h, ft, role, workers) =
          [w \in Fewer \cup Holders |->
             (IF w \in Fewer THEN count(w) ELSE 0) + (IF w \in Holders THEN 1 ELSE 0)]
    BY <2>1, <2>2
  <2>4. QED
    BY <2>3 DEF ft, count
<1> HIDE DEF t, Fewer, Holders, Counting
<1>6. QED
  BY <1>1, <1>2, <1>4, <1>5 DEF t

(* No hash, no match. *)
LEMMA NothingToCount ==
  ASSUME NEW role, NEW workers
  PROVE  Tally({}, role, workers) = <<>>
  BY DEF Tally, HeldOf

(* The walk's equation has the tally of every subset for its solution. *)
LEMMA TallyWalks ==
  ASSUME NEW S, IsFiniteSet(S), NEW role, NEW workers
  PROVE  Walks([s \in SUBSET S |-> Tally(s, role, workers)], S, role, workers)
<1> DEFINE g == [s \in SUBSET S |-> Tally(s, role, workers)]
<1> SUFFICES ASSUME NEW s \in SUBSET S
             PROVE  Tally(s, role, workers) =
                      IF s = {} THEN <<>>
                      ELSE LET h == CHOOSE x \in s : TRUE
                           IN  Counted(h, g[s \ {h}], role, workers)
  BY DEF Walks
<1>1. CASE s = {}
  BY <1>1, NothingToCount
<1>2. CASE s # {}
  <2> DEFINE h == CHOOSE x \in s : TRUE
  <2>1. h \in s /\ IsFiniteSet(s)
    BY <1>2, FS_Subset
  <2>2. g[s \ {h}] = Tally(s \ {h}, role, workers)
    OBVIOUS
  <2> HIDE DEF h, g
  <2>3. Tally(s, role, workers) = Counted(h, g[s \ {h}], role, workers)
    BY <2>1, <2>2, CountOneMore
  <2>4. QED
    BY <1>2, <2>3 DEF h
<1>3. QED
  BY <1>1, <1>2

(* It has no other. *)
LEMMA OnlyTheTally ==
  ASSUME NEW S, IsFiniteSet(S), NEW role, NEW workers, NEW g, Walks(g, S, role, workers)
  PROVE  g[S] = Tally(S, role, workers)
<1> DEFINE A == {n \in Nat : \A s \in SUBSET S :
                   Cardinality(s) = n => g[s] = Tally(s, role, workers)}
<1>1. \A s \in SUBSET S : IsFiniteSet(s) /\ Cardinality(s) \in Nat
  BY FS_Subset, FS_CardinalityType
<1>2. \A s \in SUBSET S :
        g[s] = IF s = {} THEN <<>>
               ELSE LET h == CHOOSE x \in s : TRUE
                    IN  Counted(h, g[s \ {h}], role, workers)
  BY DEF Walks
<1>3. 0 \in A
  <2>1. \A s \in SUBSET S : Cardinality(s) = 0 => s = {}
    BY <1>1, FS_EmptySet
  <2>2. QED
    BY <1>2, <2>1, NothingToCount
<1>4. \A n \in Nat : n \in A => n + 1 \in A
  <2> SUFFICES ASSUME NEW n \in Nat, n \in A,
                      NEW s \in SUBSET S, Cardinality(s) = n + 1
               PROVE  g[s] = Tally(s, role, workers)
    OBVIOUS
  <2> DEFINE h == CHOOSE x \in s : TRUE
  <2>1. s # {}
    <3>1. n + 1 # 0
      OBVIOUS
    <3> HIDE DEF A
    <3>2. QED
      BY <1>1, <3>1, FS_EmptySet
  <2>2. h \in s
    BY <2>1
  <2>3. Cardinality(s \ {h}) = n /\ s \ {h} \in SUBSET S
    <3>1. IsFiniteSet(s) /\ s \ {h} \in SUBSET S
      BY <1>1
    <3>2. Cardinality(s \ {h}) = (n + 1) - 1
      BY <2>2, <3>1, FS_RemoveElement
    <3> HIDE DEF A, h
    <3>3. QED
      BY <3>1, <3>2
  <2>4. g[s \ {h}] = Tally(s \ {h}, role, workers)
    BY <2>3
  <2>5. g[s] = Counted(h, g[s \ {h}], role, workers)
    BY <1>2, <2>1
  <2> HIDE DEF h
  <2>6. QED
    BY <1>1, <2>2, <2>4, <2>5, CountOneMore
<1> HIDE DEF A
<1>5. Cardinality(S) \in A
  BY <1>1, <1>3, <1>4, Induction
<1>6. QED
  BY <1>5 DEF A

(* So the walk answers with the tally, in whatever order it goes. *)
LEMMA MatchesAreTheTally ==
  ASSUME NEW S, IsFiniteSet(S), NEW role, NEW workers
  PROVE  Index!FindMatches(S, role, workers) = Tally(S, role, workers)
<1>1. Index!FindMatches(S, role, workers) = (CHOOSE g : Walks(g, S, role, workers))[S]
  BY DEF Index!FindMatches, Index!FoldSet, Index!MapThenFoldSet, Walks, Counted
<1>2. \E g : Walks(g, S, role, workers)
  BY TallyWalks
<1>3. QED
  BY <1>1, <1>2, OnlyTheTally

(* The overlap the router scores with is the same count. *)
LEMMA OverlapCounts ==
  ASSUME Index!TypeOK, NEW w, NEW role, NEW hashes
  PROVE  Index!Overlap(w, role, hashes) = Cardinality(HeldOf(hashes, w, role))
<1>1. \A l \in locations : l = <<l[1], l[2], l[3]>>
  BY DEF Index!TypeOK
<1>2. Index!WorkerBlocks(w, role) \cap hashes = HeldOf(hashes, w, role)
  BY <1>1 DEF Index!WorkerBlocks, HeldOf
<1>3. QED
  BY <1>2 DEF Index!Overlap, Index!Cardinality, Cardinality

(* The walk over the request's hashes and the per-worker overlap agree on  *)
(* every eligible worker, in every index the serving path builds.          *)
THEOREM MatchesAlwaysAgree == Spec => []MatchesAgree
<1>1. ASSUME TypeOK PROVE MatchesAgree
  <2> SUFFICES ASSUME NEW r \in Req
               PROVE  LET workers == EligiblePrefill(quarantined)
                          matches == Index!FindMatches(Blocks[r], "prefill", workers)
                          Shared(p) == Index!Overlap(p, "prefill", Blocks[r])
                      IN  /\ DOMAIN matches = {p \in workers : Shared(p) > 0}
                          /\ \A p \in DOMAIN matches : matches[p] = Shared(p)
    BY DEF MatchesAgree
  <2> DEFINE workers == EligiblePrefill(quarantined)
             Shared(p) == Index!Overlap(p, "prefill", Blocks[r])
             Held(p) == HeldOf(Blocks[r], p, "prefill")
  <2>1. IsFiniteSet(Blocks[r]) /\ Index!TypeOK
    BY <1>1, RequestAssumption DEF TypeOK, RouterTypeOK
  <2>2. \A p : Shared(p) = Cardinality(Held(p)) /\ IsFiniteSet(Held(p))
    <3>1. \A p : Held(p) \in SUBSET Blocks[r]
      BY DEF HeldOf
    <3>2. QED
      BY <2>1, <3>1, OverlapCounts, FS_Subset
  <2>3. \A p : Held(p) # {} <=> Shared(p) > 0
    BY <2>2, FS_EmptySet, FS_CardinalityType
  <2>4. Index!FindMatches(Blocks[r], "prefill", workers) = Tally(Blocks[r], "prefill", workers)
    BY <2>1, MatchesAreTheTally
  <2> HIDE DEF workers, Shared
  <2>5. QED
    BY <2>2, <2>3, <2>4 DEF Tally, workers, Shared
<1>2. QED
  BY <1>1, TypeCorrect, PTL
=============================================================================
