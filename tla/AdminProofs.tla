----------------------------- MODULE AdminProofs -----------------------------
(***************************************************************************)
(* Theorems about the serving path together with eviction, invalidation    *)
(* and touches at any moment, for every value of the constants.            *)
(***************************************************************************)
EXTENDS GatewayAdmin, LoadProofs

-----------------------------------------------------------------------------
(* What eviction frees is typed because a binding's blocks are a prompt's. *)
AdminWellFormed == WellFormed /\ BindingsCommitted

LEMMA BoundBlocksOfRequest ==
  ASSUME AdminWellFormed, NEW s \in Session, Affinity!Bound(s)
  PROVE  Cardinality(bindings[s].block_hashes) \in Nat
<1>1. PICK r \in Req : bindings[s].block_hashes = Blocks[r]
  BY DEF AdminWellFormed, BindingsCommitted
<1>2. QED
  BY <1>1, BlockCount

(* Dropping a binding leaves every binding that is left committed. *)
LEMMA InvalidateKeepsCommitted ==
  ASSUME AdminWellFormed, NEW s \in Session, Affinity!Invalidate(s), UNCHANGED requestVars
  PROVE  Affinity!TypeOK' /\ Lifecycle' /\ BindingsCommitted'
<1>1. bindings' = [bindings EXCEPT ![s] = NoBinding]
      /\ UNCHANGED <<clock, phase, producer, route, charged>>
  BY DEF Affinity!Invalidate, requestVars
<1>2. Affinity!TypeOK /\ Lifecycle /\ BindingsCommitted
  BY DEF AdminWellFormed, WellFormed, TypeOK
<1>3. Affinity!TypeOK'
  BY <1>1, <1>2 DEF Affinity!TypeOK
<1>4. Lifecycle'
  BY <1>1, <1>2 DEF Lifecycle
<1>5. BindingsCommitted'
  BY <1>1, <1>2 DEF BindingsCommitted, Affinity!Bound, Affinity!TypeOK
<1>6. QED
  BY <1>3, <1>4, <1>5

(* A step of the loop is one of Gateway. *)
LEMMA ServeIsNext == Serve \/ UNCHANGED adminVars => [Next]_vars
  BY DEF Serve, adminVars

LEMMA StepAdminWellFormed == AdminWellFormed /\ [AdminNext]_adminVars => AdminWellFormed'
<1> SUFFICES ASSUME AdminWellFormed, [AdminNext]_adminVars PROVE AdminWellFormed'
  OBVIOUS
<1>t. TypeOK /\ Lifecycle /\ BindingsCommitted
  BY DEF AdminWellFormed, WellFormed
<1>1. CASE [Next]_vars
  BY <1>1, StepWellFormed, StepBindingsCommitted DEF AdminWellFormed
<1>2. ASSUME NEW d \in Decodes, EvictLru(d) PROVE AdminWellFormed'
  <2>1. PICK s \in Session :
          /\ Affinity!IsLru(s, d)
          /\ Index!Forget(bindings[s].block_hashes, d, "decode")
          /\ Slots!Free(bindings[s].route.p, d, Cardinality(bindings[s].block_hashes))
          /\ Affinity!Invalidate(s)
          /\ UNCHANGED <<rr, quarantined, requestVars>>
    BY <1>2 DEF EvictLru
  <2>2. Cardinality(bindings[s].block_hashes) \in Nat
    BY <2>1, BoundBlocksOfRequest DEF Affinity!IsLru, Affinity!BoundOn
  <2>3. Slots!TypeOK'
    <3>1. Slots!TypeOK /\ 0 \in Nat
      BY <1>t DEF TypeOK, RouterTypeOK
    <3>2. QED
      BY <2>1, <2>2, <3>1, SlotsTyped
  <2>4. Index!TypeOK'
    BY <2>1, <1>t DEF Index!Forget, TypeOK, RouterTypeOK, Index!TypeOK
  <2>5. Affinity!TypeOK' /\ Lifecycle' /\ BindingsCommitted'
    BY <2>1, InvalidateKeepsCommitted
  <2>6. TypeOK'
    BY <1>t, <2>1, <2>3, <2>4, <2>5 DEF TypeOK, RouterTypeOK, Table!TypeOK, requestVars
  <2>7. QED
    BY <2>5, <2>6 DEF AdminWellFormed, WellFormed
<1>3. ASSUME NEW s \in Session, InvalidateSession(s) PROVE AdminWellFormed'
  <2>1. Affinity!Invalidate(s) /\ UNCHANGED <<routerVars, quarantined, requestVars>>
    BY <1>3 DEF InvalidateSession
  <2>2. Affinity!TypeOK' /\ Lifecycle' /\ BindingsCommitted'
    BY <2>1, InvalidateKeepsCommitted
  <2>3. TypeOK'
    BY <1>t, <2>1, <2>2 DEF TypeOK, RouterTypeOK, Slots!TypeOK, Index!TypeOK, Table!TypeOK,
       routerVars, requestVars
  <2>4. QED
    BY <2>2, <2>3 DEF AdminWellFormed, WellFormed
<1>4. ASSUME NEW s \in Session, AccessSession(s) PROVE AdminWellFormed'
  <2>1. Affinity!LookupHit(s) /\ UNCHANGED <<routerVars, quarantined, requestVars>>
    BY <1>4 DEF AccessSession, Affinity!Access
  <2>2. Affinity!TypeOK' /\ SameTargets
    BY <1>t, <2>1, LookupRefreshes DEF TypeOK
  <2>3. TypeOK'
    BY <1>t, <2>1, <2>2 DEF TypeOK, RouterTypeOK, Slots!TypeOK, Index!TypeOK, Table!TypeOK,
       routerVars, requestVars
  <2>4. Lifecycle' /\ BindingsCommitted'
    BY <1>t, <2>1, <2>2, TargetsStayCommitted DEF Lifecycle, requestVars
  <2>5. QED
    BY <2>3, <2>4 DEF AdminWellFormed, WellFormed
<1>5. QED
  BY <1>1, <1>2, <1>3, <1>4, ServeIsNext DEF AdminNext

LEMMA InitAdminWellFormed == AdminInit => AdminWellFormed
  BY InitWellFormed, InitBindingsCommitted DEF AdminInit, AdminWellFormed

(* Type correctness, with eviction. *)
THEOREM AdminTypeCorrect == AdminSpec => []TypeOK
<1>1. AdminWellFormed => TypeOK
  BY DEF AdminWellFormed, WellFormed
<1>2. QED
  BY InitAdminWellFormed, StepAdminWellFormed, <1>1, PTL DEF AdminSpec

(* A request's life is as it was: eviction touches none of it. *)
THEOREM AdminLifecycleKept == AdminSpec => []Lifecycle
<1>1. AdminWellFormed => Lifecycle
  BY DEF AdminWellFormed, WellFormed
<1>2. QED
  BY InitAdminWellFormed, StepAdminWellFormed, <1>1, PTL DEF AdminSpec

(* Dropping bindings at any moment never pins a conversation to where it   *)
(* was not served.                                                         *)
THEOREM AdminBindingsCommitted == AdminSpec => []BindingsCommitted
<1>1. AdminWellFormed => BindingsCommitted
  BY DEF AdminWellFormed
<1>2. QED
  BY InitAdminWellFormed, StepAdminWellFormed, <1>1, PTL DEF AdminSpec

-----------------------------------------------------------------------------
(* The stamps tell who was active before whom.                             *)
Stamped ==
  /\ \A s \in Session : Affinity!Bound(s) => bindings[s].last_touch <= clock
  /\ \A s, t \in Session : Affinity!Bound(s) /\ Affinity!Bound(t) /\ s # t =>
       /\ bindings[s].last_touch # bindings[t].last_touch
       /\ bindings[s].last_touch < bindings[t].last_touch => <<s, t>> \in idler

LEMMA StampsTyped ==
  ASSUME Affinity!TypeOK
  PROVE  /\ clock \in Nat
         /\ \A s \in Session : Affinity!Bound(s) => bindings[s].last_touch \in Nat
  BY DEF Affinity!TypeOK, Affinity!Bound, Affinity!Binding

(* Whoever is touched is the last to have been active, by both accounts.   *)
LEMMA TouchKeepsStamped ==
  ASSUME Affinity!TypeOK, Stamped, NEW s \in Session, NotesActive({s}),
         clock' = clock + 1, bindings'[s].last_touch = clock + 1,
         \A t \in Session \ {s} : /\ Affinity!Bound(t)' <=> Affinity!Bound(t)
                                  /\ bindings'[t].last_touch = bindings[t].last_touch
  PROVE  Stamped'
<1>1. \A t, u \in Session : t # s /\ (u = s \/ <<t, u>> \in idler) => <<t, u>> \in idler'
  BY DEF NotesActive
<1>2. clock \in Nat /\ \A t \in Session : Affinity!Bound(t) => bindings[t].last_touch \in Nat
  BY StampsTyped
<1>3. ASSUME NEW t \in Session, Affinity!Bound(t)'
      PROVE  /\ bindings'[t].last_touch <= clock'
             /\ t # s => bindings'[t].last_touch < bindings'[s].last_touch
  <2>1. CASE t = s
    BY <1>2, <2>1
  <2>2. CASE t # s
    BY <1>2, <1>3, <2>2 DEF Stamped
  <2>3. QED
    BY <2>1, <2>2
<1>4. ASSUME NEW t \in Session, NEW u \in Session, Affinity!Bound(t)', Affinity!Bound(u)', t # u
      PROVE  /\ bindings'[t].last_touch # bindings'[u].last_touch
             /\ bindings'[t].last_touch < bindings'[u].last_touch => <<t, u>> \in idler'
  <2>1. CASE t = s
    <3>1. bindings'[u].last_touch = bindings[u].last_touch /\ bindings[u].last_touch \in Nat
      BY <1>2, <1>4, <2>1
    <3>2. bindings'[u].last_touch < bindings'[t].last_touch /\ bindings'[t].last_touch \in Nat
      BY <1>2, <1>3, <1>4, <2>1
    <3>3. QED
      BY <3>1, <3>2
  <2>2. CASE u = s
    <3>1. bindings'[t].last_touch = bindings[t].last_touch /\ bindings[t].last_touch \in Nat
      BY <1>2, <1>4, <2>2
    <3>2. bindings'[t].last_touch < bindings'[u].last_touch /\ bindings'[u].last_touch \in Nat
      BY <1>2, <1>3, <1>4, <2>2
    <3>3. <<t, u>> \in idler'
      BY <1>1, <1>4, <2>2
    <3>4. QED
      BY <3>1, <3>2, <3>3
  <2>3. CASE t # s /\ u # s
    BY <1>1, <1>4, <2>3 DEF Stamped
  <2>4. QED
    BY <2>1, <2>2, <2>3
<1>5. QED
  BY <1>3, <1>4 DEF Stamped

(* Nobody is touched, and who is active all the same is not bound.         *)
LEMMA UntouchedKeepsStamped ==
  ASSUME Stamped, UNCHANGED clock, NEW S,
         \A t \in Session : Affinity!Bound(t)' => /\ Affinity!Bound(t) /\ t \notin S
                                                 /\ bindings'[t] = bindings[t],
         NotesActive(S)
  PROVE  Stamped'
<1>1. \A t \in Session \ S, u \in Session : <<t, u>> \in idler => <<t, u>> \in idler'
  BY DEF NotesActive
<1>2. QED
  BY <1>1 DEF Stamped

(* Which conversations a step of the loop makes active.                    *)
LEMMA ActiveAtOne ==
  ASSUME NEW r \in Req, \A q \in Req : (Starts(q) \/ Completes(q)) <=> q = r,
         SessionOf[r] \in Session
  PROVE  ActiveNow = {SessionOf[r]}
  BY DEF ActiveNow

LEMMA ActiveUnbound ==
  ASSUME NEW r \in Req, \A q \in Req : Starts(q) \/ Completes(q) => q = r, ~Bound(r)
  PROVE  \A s \in Session : Affinity!Bound(s) => s \notin ActiveNow
  BY RequestAssumption DEF ActiveNow, Bound

LEMMA ServeKeepsStamped ==
  ASSUME WellFormed, Stamped, Serve
  PROVE  Stamped'
<1>t. /\ phase \in [Req -> Phase] /\ Affinity!TypeOK
      /\ bindings \in [Session -> Affinity!Binding \cup {NoBinding}]
  BY DEF WellFormed, TypeOK, Affinity!TypeOK
<1>n. NotesActive(ActiveNow)
  BY DEF Serve
<1>1. ASSUME NEW r \in Req, FollowBinding(r) PROVE Stamped'
  <2>1. SessionOf[r] \in Session /\ Affinity!LookupHit(SessionOf[r])
    BY <1>1, RequestAssumption DEF FollowBinding, Bound
  <2>2. \A q \in Req : (Starts(q) \/ Completes(q)) <=> q = r
    BY <1>1, <1>t DEF FollowBinding, Arrives, Dispatch, Starts, Completes
  <2>3. NotesActive({SessionOf[r]})
    BY <1>n, <2>1, <2>2, ActiveAtOne
  <2>4. SameTargets
    BY <1>t, <2>1, LookupRefreshes
  <2>5. /\ clock' = clock + 1 /\ bindings'[SessionOf[r]].last_touch = clock + 1
        /\ \A t \in Session \ {SessionOf[r]} : bindings'[t] = bindings[t]
    BY <1>t, <2>1 DEF Affinity!LookupHit, Affinity!Bound, Affinity!Binding
  <2>6. QED
    BY <1>t, <2>1, <2>3, <2>4, <2>5, TouchKeepsStamped DEF SameTargets
<1>2. ASSUME NEW r \in Req, RouteScored(r) \/ RouteBlind(r) PROVE Stamped'
  <2>1. UNCHANGED affinityVars /\ ~Bound(r)
    BY <1>2 DEF RouteScored, RouteBlind
  <2>2. \A q \in Req : Starts(q) \/ Completes(q) => q = r
    BY <1>2, <1>t DEF RouteScored, RouteBlind, Dispatch, Starts, Completes
  <2>3. \A s \in Session : Affinity!Bound(s)' =>
          Affinity!Bound(s) /\ s \notin ActiveNow /\ bindings'[s] = bindings[s]
    BY <2>1, <2>2, ActiveUnbound DEF affinityVars, Affinity!Bound
  <2>4. QED
    BY <1>n, <2>1, <2>3, UntouchedKeepsStamped DEF affinityVars
<1>3. ASSUME UNCHANGED affinityVars, ActiveNow = {} PROVE Stamped'
  BY <1>3, <1>n, UntouchedKeepsStamped DEF affinityVars, Affinity!Bound
<1>4. ASSUME NEW r \in Req, StreamCompletes(r) PROVE Stamped'
  <2>1. \A q \in Req : (Starts(q) \/ Completes(q)) <=> q = r
    BY <1>4, <1>t DEF StreamCompletes, EndStream, Answer, Starts, Completes
  <2>2. CASE SessionOf[r] = NoSession
    <3>1. ActiveNow = {}
      BY <2>1, <2>2, RequestAssumption DEF ActiveNow
    <3>2. QED
      BY <1>3, <1>4, <2>2, <3>1 DEF StreamCompletes
  <2>3. CASE SessionOf[r] # NoSession
    <3>1. SessionOf[r] \in Session /\ route[r] \in Route /\ Blocks[r] \in SUBSET Hash
      BY <1>4, <2>3, RequestAssumption DEF StreamCompletes, EndStream, WellFormed, Lifecycle,
         Dispatched, Streamed
    <3>2. Affinity!Bind(SessionOf[r], route[r], Blocks[r])
      BY <1>4, <2>3 DEF StreamCompletes
    <3>3. bindings'[SessionOf[r]] =
            [route |-> route[r], block_hashes |-> Blocks[r], last_touch |-> clock + 1]
      BY <1>t, <3>1, <3>2, BindCommits
    <3>4. \A t \in Session \ {SessionOf[r]} : bindings'[t] = bindings[t]
      BY <1>t, <3>1, <3>2, BindCommits
    <3>5. clock' = clock + 1
      BY <3>2 DEF Affinity!Bind
    <3>6. NotesActive({SessionOf[r]})
      BY <1>n, <2>1, <3>1, ActiveAtOne
    <3>7. QED
      BY <1>t, <3>1, <3>3, <3>4, <3>5, <3>6, TouchKeepsStamped DEF Affinity!Bound
  <2>4. QED
    BY <2>2, <2>3
<1>5. ASSUME NEW r \in Req,
             \/ RejectInvalid(r) \/ RejectUnplaced(r) \/ ProducerEnds(r) \/ DecodeLeg(r)
             \/ FinishPush(r) \/ StreamAborts(r)
      PROVE  Stamped'
  <2>1. UNCHANGED affinityVars
    BY <1>5 DEF RejectInvalid, RejectUnplaced, ProducerEnds, DecodeLeg, DecodeAnswers,
       DecodeRefused, DecodeErrorBodyLost, FinishPush, StreamAborts
  <2>2. \A q \in Req : ~Starts(q) /\ ~Completes(q)
    BY <1>5, <1>t DEF RejectInvalid, RejectUnplaced, Rejection, ProducerEnds, DecodeLeg,
       DecodeAnswers, DecodeRefused, DecodeErrorBodyLost, FinishPush, StreamAborts, EndStream,
       Answer, Starts, Completes
  <2>3. QED
    BY <1>3, <2>1, <2>2 DEF ActiveNow
<1>6. ASSUME UNCHANGED vars \/ \E us \in SUBSET Url : Expire(us) PROVE Stamped'
  <2>1. UNCHANGED <<affinityVars, phase>>
    BY <1>6 DEF vars, Expire, requestVars
  <2>2. QED
    BY <1>3, <2>1 DEF ActiveNow, Starts, Completes
<1>7. QED
  BY <1>1, <1>2, <1>4, <1>5, <1>6 DEF Serve, Next, Receive, StreamEnds, Idle

LEMMA StepStamped == WellFormed /\ Stamped /\ [AdminNext]_adminVars => Stamped'
<1> SUFFICES ASSUME WellFormed, Stamped, [AdminNext]_adminVars PROVE Stamped'
  OBVIOUS
<1>t. Affinity!TypeOK /\ bindings \in [Session -> Affinity!Binding \cup {NoBinding}]
  BY DEF WellFormed, TypeOK, Affinity!TypeOK
<1>1. ASSUME NEW s \in Session, Affinity!Invalidate(s), UNCHANGED idler PROVE Stamped'
  <2>1. \A t \in Session : Affinity!Bound(t)' =>
          Affinity!Bound(t) /\ bindings'[t] = bindings[t]
    BY <1>1, <1>t DEF Affinity!Invalidate, Affinity!Bound
  <2>2. UNCHANGED clock
    BY <1>1 DEF Affinity!Invalidate
  <2>3. QED
    BY <1>1, <2>1, <2>2 DEF Stamped
<1>2. ASSUME NEW d \in Decodes, EvictLru(d) PROVE Stamped'
  BY <1>1, <1>2 DEF EvictLru
<1>3. ASSUME NEW s \in Session, InvalidateSession(s) PROVE Stamped'
  BY <1>1, <1>3 DEF InvalidateSession
<1>4. ASSUME NEW s \in Session, AccessSession(s) PROVE Stamped'
  <2>1. Affinity!LookupHit(s) /\ NotesActive({s})
    BY <1>4 DEF AccessSession, Affinity!Access
  <2>2. SameTargets
    BY <1>t, <2>1, LookupRefreshes
  <2>3. /\ clock' = clock + 1 /\ bindings'[s].last_touch = clock + 1
        /\ \A t \in Session \ {s} : bindings'[t] = bindings[t]
    BY <1>t, <2>1 DEF Affinity!LookupHit, Affinity!Bound, Affinity!Binding
  <2>4. QED
    BY <1>t, <2>1, <2>2, <2>3, TouchKeepsStamped DEF SameTargets
<1>5. CASE UNCHANGED adminVars
  BY <1>5 DEF adminVars, vars, affinityVars, Stamped, Affinity!Bound
<1>6. QED
  BY <1>2, <1>3, <1>4, <1>5, ServeKeepsStamped DEF AdminNext

(* What EvictsIdlest says of one step. *)
EvictsIdlestStep ==
  \A d \in Decodes : EvictLru(d) =>
    \A s, t \in Affinity!BoundOn(d) :
      bindings'[s] = NoBinding /\ t # s => <<s, t>> \in idler

LEMMA StepEvictsIdlest == WellFormed /\ Stamped => EvictsIdlestStep
<1> SUFFICES ASSUME WellFormed, Stamped, NEW d \in Decodes, EvictLru(d),
                    NEW s \in Affinity!BoundOn(d), NEW t \in Affinity!BoundOn(d),
                    bindings'[s] = NoBinding, t # s
             PROVE  <<s, t>> \in idler
  BY DEF EvictsIdlestStep
<1>1. /\ s \in Session /\ Affinity!Bound(s) /\ t \in Session /\ Affinity!Bound(t)
  BY DEF Affinity!BoundOn
<1>2. Affinity!TypeOK
  BY DEF WellFormed, TypeOK
<1>3. PICK u \in Session : Affinity!IsLru(u, d) /\ Affinity!Invalidate(u)
  BY DEF EvictLru
<1>4. s = u
  BY <1>1, <1>2, <1>3 DEF Affinity!Invalidate, Affinity!Bound, Affinity!TypeOK
<1>5. bindings[s].last_touch <= bindings[t].last_touch
  BY <1>3, <1>4 DEF Affinity!IsLru
<1>6. bindings[s].last_touch \in Nat /\ bindings[t].last_touch \in Nat
  BY <1>1, <1>2, StampsTyped
<1>7. bindings[s].last_touch # bindings[t].last_touch
  BY <1>1 DEF Stamped
<1>8. bindings[s].last_touch < bindings[t].last_touch
  BY <1>5, <1>6, <1>7
<1>9. QED
  BY <1>1, <1>8 DEF Stamped

(* Idle first: whatever the loop did between them, the stamps that lookup, *)
(* bind and access leave behind have evict_lru drop the conversation on d  *)
(* that has been without a turn for longest.                               *)
THEOREM IdlestGoesFirst == AdminSpec => EvictsIdlest
<1>1. AdminInit => Stamped
  BY DEF AdminInit, Init, Affinity!Init, Affinity!Bound, Stamped
<1>2. AdminWellFormed => WellFormed
  BY DEF AdminWellFormed
<1>3. AdminWellFormed /\ Stamped => EvictsIdlestStep
  BY <1>2, StepEvictsIdlest
<1>4. AdminSpec => [](AdminWellFormed /\ Stamped)
  BY <1>1, <1>2, StepStamped, InitAdminWellFormed, StepAdminWellFormed, PTL DEF AdminSpec
<1>5. QED
  BY <1>3, <1>4, PTL DEF AdminSpec, EvictsIdlest, EvictsIdlestStep

-----------------------------------------------------------------------------
(* Eviction frees load that has been freed already: the counters may fall  *)
(* below what is held, never rise above it.                                *)
LEMMA EvictKeepsLoad ==
  ASSUME AdminWellFormed, LoadNeverOvercharged, NEW d \in Decodes, EvictLru(d)
  PROVE  LoadNeverOvercharged'
<1>1. PICK s \in Session :
        /\ Affinity!IsLru(s, d)
        /\ Slots!Free(bindings[s].route.p, d, Cardinality(bindings[s].block_hashes))
        /\ UNCHANGED requestVars
  BY DEF EvictLru
<1>2. Cardinality(bindings[s].block_hashes) \in Nat
  BY <1>1, BoundBlocksOfRequest DEF Affinity!IsLru, Affinity!BoundOn
<1>3. /\ prefillTokens \in [Worker -> Nat] /\ prefillRequests \in [Worker -> Nat]
      /\ decodeBlocks \in [Worker -> Nat]
  BY DEF AdminWellFormed, WellFormed, TypeOK, RouterTypeOK, Slots!TypeOK
<1>4. ASSUME NEW f \in [Worker -> Nat], NEW v, NEW n \in Nat, NEW w \in Worker
      PROVE  [f EXCEPT ![v] = Slots!Monus(@, n)][w] <= f[w]
  BY DEF Slots!Monus
<1>5. ASSUME NEW w \in Worker
      PROVE  /\ prefillTokens'[w] = prefillTokens[w]
             /\ prefillRequests'[w] <= prefillRequests[w] /\ prefillRequests'[w] \in Nat
             /\ decodeBlocks'[w] <= decodeBlocks[w] /\ decodeBlocks'[w] \in Nat
  <2>1. /\ prefillTokens' = prefillTokens
        /\ prefillRequests' = [prefillRequests EXCEPT ![bindings[s].route.p] = Slots!Monus(@, 1)]
        /\ decodeBlocks' = [decodeBlocks EXCEPT
                              ![d] = Slots!Monus(@, Cardinality(bindings[s].block_hashes))]
    BY <1>1 DEF Slots!Free
  <2>2. prefillRequests' \in [Worker -> Nat] /\ decodeBlocks' \in [Worker -> Nat]
    BY <1>2, <1>3, <2>1, TableUpdate, 1 \in Nat
  <2>3. prefillRequests'[w] <= prefillRequests[w]
    BY <1>3, <1>4, <2>1, 1 \in Nat
  <2>4. decodeBlocks'[w] <= decodeBlocks[w]
    BY <1>2, <1>3, <1>4, <2>1
  <2>5. QED
    BY <2>1, <2>2, <2>3, <2>4
<1>6. /\ \A p \in Prefills : TokensHeld(p)' = TokensHeld(p) /\ OpenOn(p)' = OpenOn(p)
      /\ \A e \in Decodes : BlocksHeld(e)' = BlocksHeld(e)
  BY <1>1 DEF requestVars, TokensHeld, BlocksHeld, HoldsPrompt, HoldsBlocks, OpenOn
<1>7. /\ \A p \in Prefills : Cardinality(OpenOn(p)) \in Nat
      /\ \A e \in Decodes : Cardinality(BlocksHeld(e)) \in Nat
  BY HoldersFinite, ShareSizes, SharesFinite, FS_CardinalityType DEF BlocksHeld, AdminWellFormed
<1>8. ASSUME NEW p \in Prefills
      PROVE  /\ prefillTokens'[p] <= Cardinality(TokensHeld(p)')
             /\ prefillRequests'[p] <= Cardinality(OpenOn(p)')
  <2>1. p \in Worker /\ prefillTokens[p] <= Cardinality(TokensHeld(p))
        /\ prefillRequests[p] <= Cardinality(OpenOn(p)) /\ prefillRequests[p] \in Nat
    BY <1>3 DEF Worker, LoadNeverOvercharged
  <2>2. QED
    BY <1>5, <1>6, <1>7, <2>1
<1>9. ASSUME NEW e \in Decodes PROVE decodeBlocks'[e] <= Cardinality(BlocksHeld(e)')
  <2>1. e \in Worker /\ decodeBlocks[e] <= Cardinality(BlocksHeld(e)) /\ decodeBlocks[e] \in Nat
    BY <1>3 DEF Worker, LoadNeverOvercharged
  <2>2. QED
    BY <1>5, <1>6, <1>7, <2>1
<1>10. QED
  BY <1>8, <1>9 DEF LoadNeverOvercharged

LEMMA StepAdminLoad ==
  AdminWellFormed /\ LoadNeverOvercharged /\ [AdminNext]_adminVars => LoadNeverOvercharged'
<1> SUFFICES ASSUME AdminWellFormed, LoadNeverOvercharged, [AdminNext]_adminVars
             PROVE  LoadNeverOvercharged'
  OBVIOUS
<1>1. CASE [Next]_vars
  BY <1>1, StepLoad DEF AdminWellFormed
<1>2. ASSUME NEW s \in Session, InvalidateSession(s) \/ AccessSession(s)
      PROVE  LoadNeverOvercharged'
  BY <1>2, NothingMoves DEF InvalidateSession, AccessSession, routerVars, requestVars,
     HoldsPrompt, HoldsBlocks, OpenOn
<1>3. QED
  BY <1>1, <1>2, EvictKeepsLoad, ServeIsNext DEF AdminNext

(* Though eviction frees a second time what its conversation's last        *)
(* request has freed, no counter ever claims load that is not held.        *)
THEOREM AdminLoadNeverOvercharged == AdminSpec => []LoadNeverOvercharged
  BY InitAdminWellFormed, StepAdminWellFormed, InitLoad, StepAdminLoad, PTL DEF AdminSpec, AdminInit

-----------------------------------------------------------------------------
(* Eviction forgets blocks; nothing puts in what nobody earned.            *)
LEMMA StepIndexJustified ==
  WellFormed /\ IndexJustified /\ [AdminNext]_adminVars => IndexJustified'
<1> SUFFICES ASSUME WellFormed, IndexJustified, [AdminNext]_adminVars PROVE IndexJustified'
  OBVIOUS
<1>1. CASE [Next]_vars
  BY <1>1, StepEarns DEF EarnsWhatItRecords, IndexJustified, Earned
<1>2. ASSUME locations' \subseteq locations, UNCHANGED requestVars PROVE IndexJustified'
  BY <1>2 DEF IndexJustified, CreditedBy, requestVars
<1>3. ASSUME NEW d \in Decodes, EvictLru(d) PROVE IndexJustified'
  BY <1>2, <1>3 DEF EvictLru, Index!Forget
<1>4. ASSUME NEW s \in Session, InvalidateSession(s) \/ AccessSession(s) PROVE IndexJustified'
  BY <1>2, <1>4 DEF InvalidateSession, AccessSession, routerVars
<1>5. QED
  BY <1>1, <1>3, <1>4, ServeIsNext DEF AdminNext

(* Whatever is evicted, the index credits a worker only with what a        *)
(* request that was served there put there.                                *)
THEOREM IndexIsJustified == AdminSpec => []IndexJustified
<1>1. AdminInit => IndexJustified
  BY DEF AdminInit, Init, RouterInit, Index!Init, IndexJustified
<1>2. AdminWellFormed => WellFormed
  BY DEF AdminWellFormed
<1>3. QED
  BY <1>1, <1>2, InitAdminWellFormed, StepAdminWellFormed, StepIndexJustified, PTL DEF AdminSpec
=============================================================================
