------------------------------- MODULE Gateway -------------------------------
(***************************************************************************)
(* The serving path of the gateway: Frontend.http_api_call, dispatch and   *)
(* the two completion halves of src/frontend/frontend.py, over the router, *)
(* the session bindings and the quarantine table.                          *)
(*                                                                         *)
(* The process is one asyncio loop, so what runs between two awaits is one *)
(* action.  Receiving a request runs from the tokenizer to the first await *)
(* of dispatch; then the decode leg, the producer task, the finisher task  *)
(* that awaits it, and the client's stream all move on their own.          *)
(*                                                                         *)
(* A member of Req is one HTTP request: Req bounds how many arrive.        *)
(***************************************************************************)
EXTENDS PrefillRouter

CONSTANTS
  Req,            \* the requests of the run
  Session,        \* conversation ids
  NoSession,      \* a request without conversation_id
  SessionOf,      \* a request's conversation
  Isl,            \* how many tokens its prompt tokenizes to
  Blocks,         \* the hashes of its prompt's full blocks
  NoRoute,
  NoBinding

VARIABLES
  quarantined,    \* the inhibition table (Quarantine.tla)
  bindings,       \* session affinity (SessionAffinity.tla), and its clock
  clock,
  phase,          \* the client's side of each request
  producer,       \* the prefill task of each request
  route,          \* the Route each request was dispatched on
  charged,        \* history: the requests add_request was called for
  overlapped      \* history: conversations with two requests in flight at once

ASSUME RequestAssumption ==
  /\ IsFiniteSet(Req)
  /\ NoSession \notin Session
  /\ SessionOf \in [Req -> Session \cup {NoSession}]
  /\ Isl \in [Req -> Nat]
  /\ Blocks \in [Req -> SUBSET Hash]
  /\ \A r \in Req : IsFiniteSet(Blocks[r])
  /\ NoRoute \notin Route

ASSUME BindingAssumption ==
  NoBinding \notin [route : Route, block_hashes : SUBSET Hash, last_touch : Nat]

Table    == INSTANCE Quarantine
Affinity == INSTANCE SessionAffinity

requestVars  == <<phase, producer, route, charged, overlapped>>
affinityVars == <<bindings, clock>>
vars == <<routerVars, quarantined, affinityVars, requestVars>>

Phase == {"idle",           \* not received yet
          "invalid",        \* answered 400
          "unavailable",    \* answered 502: a pool is empty
          "overloaded",     \* answered 503: every worker filtered out
          "dispatched",     \* both POSTs are out
          "refused",        \* answered 502: the decode leg failed
          "errored",        \* answered 500: an exception left dispatch
          "streaming",      \* the client is being sent the decode stream
          "completed",      \* the stream was consumed to its end
          "aborted"}        \* the client left or the stream broke

Producer == {"none", "running",
             "drained",     \* the response was read to its end
             "failed",      \* the task ended in an exception
             "cancelled",
             "released"}    \* the finisher released and recorded it

Final == Phase \ {"idle", "dispatched", "streaming"}

Init == /\ RouterInit
        /\ Table!Init
        /\ Affinity!Init
        /\ phase = [r \in Req |-> "idle"]
        /\ producer = [r \in Req |-> "none"]
        /\ route = [r \in Req |-> NoRoute]
        /\ charged = {}
        /\ overlapped = {}

(* Every variable holds a value of its kind. *)
TypeOK == /\ RouterTypeOK
          /\ Table!TypeOK
          /\ Affinity!TypeOK
          /\ phase \in [Req -> Phase]
          /\ producer \in [Req -> Producer]
          /\ route \in [Req -> Route \cup {NoRoute}]
          /\ charged \subseteq Req
          /\ overlapped \subseteq Session

-----------------------------------------------------------------------------
(* Receiving a request: http_api_call up to the first await of dispatch.   *)

(* Variant: the affinity lookup never hits. *)
AffinityDormant(r) == r \notin Req

Bound(r) == SessionOf[r] # NoSession /\ Affinity!Bound(SessionOf[r])

Arrives(r) == phase[r] = "idle" /\ Isl[r] > 0

InFlight(r) == phase[r] \in {"dispatched", "streaming"}

(* dispatch: the producer task is created and the decode POST goes out. *)
Dispatch(r, rt) ==
  /\ phase' = [phase EXCEPT ![r] = "dispatched"]
  /\ producer' = [producer EXCEPT ![r] = "running"]
  /\ route' = [route EXCEPT ![r] = rt]
  /\ overlapped' = IF /\ SessionOf[r] # NoSession
                       /\ \E q \in Req : InFlight(q) /\ SessionOf[q] = SessionOf[r]
                     THEN overlapped \cup {SessionOf[r]}
                     ELSE overlapped

Answer(r, outcome) ==
  /\ phase' = [phase EXCEPT ![r] = outcome]
  /\ UNCHANGED <<producer, route, charged, overlapped>>

RejectInvalid(r) ==
  /\ phase[r] = "idle" /\ Isl[r] = 0
  /\ Answer(r, "invalid")
  /\ UNCHANGED <<routerVars, quarantined, affinityVars>>

(* A bound conversation goes where it went before: no filter, no charge. *)
FollowBinding(r) ==
  /\ Arrives(r) /\ Bound(r)
  /\ Affinity!LookupHit(SessionOf[r])
  /\ Dispatch(r, bindings[SessionOf[r]].route)
  /\ UNCHANGED <<routerVars, quarantined, charged>>

RouteScored(r) ==
  /\ Arrives(r) /\ ~Bound(r)
  /\ \E rt \in Route : /\ RouteKv(rt, Isl[r], Blocks[r], quarantined)
                       /\ Dispatch(r, rt)
  /\ charged' = charged \cup {r}
  /\ UNCHANGED <<quarantined, affinityVars>>

(* Round-robin and random look at neither loads nor quarantine. *)
RouteBlind(r) ==
  /\ Arrives(r) /\ ~Bound(r)
  /\ \E rt \in Route : /\ RouteRoundRobin(rt) \/ RouteRandom(rt)
                       /\ Dispatch(r, rt)
  /\ UNCHANGED <<quarantined, affinityVars, charged>>

(* RoutingError: nothing was charged. *)
RejectUnplaced(r) ==
  /\ Arrives(r) /\ ~Bound(r)
  /\ NoCandidates(quarantined)
  /\ Answer(r, Rejection(EligiblePrefill(quarantined)))
  /\ UNCHANGED <<routerVars, quarantined, affinityVars>>

-----------------------------------------------------------------------------
(* The producer task: its POST is read to the end, or raises. *)
ProducerEnds(r) ==
  /\ producer[r] = "running"
  /\ \E outcome \in {"drained", "failed"} :
       producer' = [producer EXCEPT ![r] = outcome]
  /\ UNCHANGED <<routerVars, quarantined, affinityVars, phase, route, charged, overlapped>>

-----------------------------------------------------------------------------
(* The decode leg of dispatch. *)

(* 200: the finisher task is created and the client gets its stream. *)
DecodeAnswers(r) ==
  /\ phase[r] = "dispatched"
  /\ Answer(r, "streaming")
  /\ UNCHANGED <<routerVars, quarantined, affinityVars>>

(* Variant: the producer is left running. *)
RefusedWithoutCancel(r) ==
  /\ phase[r] = "dispatched"
  /\ phase' = [phase EXCEPT ![r] = "refused"]
  /\ Table!Inhibit(DecodeUrls[route[r].d])
  /\ UNCHANGED <<routerVars, affinityVars, producer, route, charged, overlapped>>

(* UpstreamError: a transport failure or a non-200 answer.  Cancelling a   *)
(* task that has already ended changes nothing.                            *)
DecodeRefused(r) ==
  /\ phase[r] = "dispatched"
  /\ phase' = [phase EXCEPT ![r] = "refused"]
  /\ producer' = [producer EXCEPT ![r] = IF @ = "running" THEN "cancelled" ELSE @]
  /\ Table!Inhibit(DecodeUrls[route[r].d])
  /\ UNCHANGED <<routerVars, affinityVars, route, charged, overlapped>>

(* A non-200 answer whose body cannot be read: resp.aread() raises outside *)
(* the try, so what leaves dispatch is not an UpstreamError.               *)
DecodeErrorBodyLost(r) ==
  /\ phase[r] = "dispatched"
  /\ Answer(r, "errored")
  /\ UNCHANGED <<routerVars, quarantined, affinityVars>>

-----------------------------------------------------------------------------
(* The two completion halves. *)

(* Variant: the finisher gives up once the client is gone. *)
FinishWhileStreaming(r) ==
  /\ phase[r] = "streaming"
  /\ producer[r] = "drained"
  /\ producer' = [producer EXCEPT ![r] = "released"]
  /\ Slots!MarkPrefillCompleted(route[r].p, Isl[r])
  /\ Index!Record(Blocks[r], route[r].p, "prefill")
  /\ UNCHANGED <<rr, quarantined, affinityVars, phase, route, charged, overlapped>>

(* _finish_push, created with the stream: once the producer has drained,   *)
(* release the prompt charge and publish the prompt's blocks.  A producer  *)
(* that failed is only logged.                                             *)
FinishPush(r) ==
  /\ phase[r] \in {"streaming", "completed", "aborted"}
  /\ producer[r] = "drained"
  /\ producer' = [producer EXCEPT ![r] = "released"]
  /\ Slots!MarkPrefillCompleted(route[r].p, Isl[r])
  /\ Index!Record(Blocks[r], route[r].p, "prefill")
  /\ UNCHANGED <<rr, quarantined, affinityVars, phase, route, charged, overlapped>>

(* _complete_request frees whether or not the stream was consumed. *)
EndStream(r, outcome) ==
  /\ phase[r] = "streaming"
  /\ Answer(r, outcome)
  /\ Slots!Free(route[r].p, route[r].d, Cardinality(Blocks[r]))
  /\ UNCHANGED <<rr, quarantined>>

(* Variant: the stream binds without recording its blocks. *)
CompletesUnrecorded(r) ==
  /\ EndStream(r, "completed")
  /\ UNCHANGED locations
  /\ IF SessionOf[r] = NoSession
       THEN UNCHANGED affinityVars
       ELSE Affinity!Bind(SessionOf[r], route[r], Blocks[r])

StreamCompletes(r) ==
  /\ EndStream(r, "completed")
  /\ Index!Record(Blocks[r], route[r].d, "decode")
  /\ IF SessionOf[r] = NoSession
       THEN UNCHANGED affinityVars
       ELSE Affinity!Bind(SessionOf[r], route[r], Blocks[r])

(* Variant: a stream cut short pins the conversation. *)
AbortBinds(r) ==
  /\ EndStream(r, "aborted")
  /\ UNCHANGED locations
  /\ IF SessionOf[r] = NoSession
       THEN UNCHANGED affinityVars
       ELSE Affinity!Bind(SessionOf[r], route[r], Blocks[r])

(* Variant: a stream cut short publishes its blocks. *)
AbortRecords(r) ==
  /\ EndStream(r, "aborted")
  /\ Index!Record(Blocks[r], route[r].d, "decode")
  /\ UNCHANGED affinityVars

(* Variant: a stream cut short drops the conversation's binding. *)
AbortUnbinds(r) ==
  /\ EndStream(r, "aborted")
  /\ UNCHANGED locations
  /\ IF SessionOf[r] = NoSession
       THEN UNCHANGED affinityVars
       ELSE Affinity!Invalidate(SessionOf[r])

StreamAborts(r) ==
  /\ EndStream(r, "aborted")
  /\ UNCHANGED <<locations, affinityVars>>

-----------------------------------------------------------------------------
(* INHIBIT_SECS pass for some of the quarantined URLs. *)
Expire(us) ==
  /\ Table!Expire(us)
  /\ UNCHANGED <<routerVars, affinityVars, requestVars>>

(* Every request has been answered: the server waits for more. *)
Idle ==
  /\ \A r \in Req : phase[r] \in Final /\ producer[r] # "running"
  /\ UNCHANGED vars

Receive(r) == \/ RejectInvalid(r)
              \/ FollowBinding(r)
              \/ RouteScored(r)
              \/ RouteBlind(r)
              \/ RejectUnplaced(r)

DecodeLeg(r) == \/ DecodeAnswers(r)
                \/ DecodeRefused(r)
                \/ DecodeErrorBodyLost(r)

StreamEnds(r) == StreamCompletes(r) \/ StreamAborts(r)

Next == \/ \E r \in Req : \/ Receive(r)
                          \/ ProducerEnds(r)
                          \/ DecodeLeg(r)
                          \/ FinishPush(r)
                          \/ StreamEnds(r)
        \/ \E us \in SUBSET Url : Expire(us)
        \/ Idle

Spec == Init /\ [][Next]_vars

-----------------------------------------------------------------------------
(* Fairness.  The loop runs a ready task; every await on a worker ends, at *)
(* the latest by HTTP_TIMEOUT; a client reads its stream to the end or     *)
(* goes away; time passes.  Nothing makes a client send a request.         *)
Fairness ==
  /\ \A r \in Req : /\ WF_vars(ProducerEnds(r))
                    /\ WF_vars(DecodeLeg(r))
                    /\ WF_vars(FinishPush(r))
                    /\ WF_vars(StreamEnds(r))
  /\ \A u \in Url : WF_vars(\E us \in SUBSET Url : u \in us /\ Expire(us))

FairSpec == Spec /\ Fairness

-----------------------------------------------------------------------------
(* What is held at each worker, request by request.                        *)

Streamed == {"streaming", "completed", "aborted"}
Closed   == {"completed", "aborted"}
Failed   == {"refused", "errored"}
Dispatched == {"dispatched"} \cup Streamed \cup Failed

HoldsBlocks(d) == {r \in charged : route[r].d = d /\ phase[r] \notin Closed}
HoldsPrompt(p) == {r \in charged : route[r].p = p /\ producer[r] # "released"}
OpenOn(p)      == {r \in charged : route[r].p = p /\ phase[r] \notin Closed}

(* What the requests S hold together, B[r] being what r holds: each         *)
(* element marked with its holder, so the size is the sum of the sizes.    *)
Shares(S, B) == UNION {{r} \X B[r] : r \in S}

Tokens == [r \in Req |-> 1 .. Isl[r]]

BlocksHeld(d) == Shares(HoldsBlocks(d), Blocks)
TokensHeld(p) == Shares(HoldsPrompt(p), Tokens)

(* No counter exceeds what the requests charged there and not yet released *)
(* account for, whatever fails and in whatever order the two completion    *)
(* halves, other requests and bound conversations run.  (It may read less: *)
(* a request that follows a binding releases what others hold.  And those  *)
(* not released include the requests whose leg failed, for good.)          *)
LoadNeverOvercharged ==
  /\ \A p \in Prefills : /\ prefillTokens[p] <= Cardinality(TokensHeld(p))
                         /\ prefillRequests[p] <= Cardinality(OpenOn(p))
  /\ \A d \in Decodes : decodeBlocks[d] <= Cardinality(BlocksHeld(d))

(* Where no request follows a binding, the counters are exactly the load   *)
(* of the requests charged and not released: the completion halves of      *)
(* different requests never release each other's share.                    *)
LoadExact ==
  /\ \A p \in Prefills : /\ prefillTokens[p] = Cardinality(TokensHeld(p))
                         /\ prefillRequests[p] = Cardinality(OpenOn(p))
  /\ \A d \in Decodes : decodeBlocks[d] = Cardinality(BlocksHeld(d))

(* The index holds the prompt blocks of the producers that drained behind  *)
(* an accepted stream and the blocks of the streams consumed to the end,   *)
(* at the worker each ran on, and nothing else: no refused dispatch and no *)
(* abandoned stream is ever credited as cached, and no other request's     *)
(* completion loses or moves a credit.                                     *)
CreditedBy(r) ==
  {<<h, route[r].p, "prefill">> : h \in IF producer[r] = "released" THEN Blocks[r] ELSE {}}
    \cup
  {<<h, route[r].d, "decode">> : h \in IF phase[r] = "completed" THEN Blocks[r] ELSE {}}

IndexExact == locations = UNION {CreditedBy(r) : r \in Req}

(* While the turns of a conversation do not overlap, at most one of its    *)
(* requests is in flight, and it is where the conversation is bound.       *)
SerialTurns ==
  \A r \in Req : SessionOf[r] \in Session \ overlapped /\ InFlight(r) =>
    /\ \A q \in Req : InFlight(q) /\ SessionOf[q] = SessionOf[r] => q = r
    /\ Affinity!Bound(SessionOf[r]) => bindings[SessionOf[r]].route = route[r]

(* A conversation is only ever bound to where one of its own requests was  *)
(* served to the end, with that request's blocks (commit after success).   *)
BindingsCommitted ==
  \A s \in Session : Affinity!Bound(s) =>
    \E r \in Req : /\ SessionOf[r] = s
                   /\ phase[r] = "completed"
                   /\ bindings[s].route = route[r]
                   /\ bindings[s].block_hashes = Blocks[r]

(* A request that was not dispatched holds no route, no producer and no    *)
(* charge.  Prompt blocks are released and published only behind an        *)
(* accepted stream; a refused dispatch leaves no producer running on the   *)
(* prefill worker, and an accepted one is never cancelled.                 *)
Lifecycle ==
  \A r \in Req :
    /\ phase[r] \in Dispatched => route[r] \in Route /\ producer[r] # "none"
    /\ phase[r] \notin Dispatched =>
         route[r] = NoRoute /\ producer[r] = "none" /\ r \notin charged
    /\ producer[r] = "released" => phase[r] \in Streamed
    /\ producer[r] = "cancelled" => phase[r] = "refused"
    /\ phase[r] = "refused" => producer[r] # "running"

(* The blocks that justify a binding are in the index at the decode worker *)
(* the binding points to.                                                  *)
BoundBlocksIndexed ==
  \A s \in Session : Affinity!Bound(s) =>
    bindings[s].block_hashes \subseteq Index!WorkerBlocks(bindings[s].route.d, "decode")

(* find_matches_for_request, one walk over the request's hashes, and the   *)
(* per-worker overlap the router scores with agree on every eligible       *)
(* worker, in every index the serving path builds.                         *)
MatchesAgree ==
  \A r \in Req :
    LET workers == EligiblePrefill(quarantined)
        matches == Index!FindMatches(Blocks[r], "prefill", workers)
        Shared(p) == Index!Overlap(p, "prefill", Blocks[r])
    IN  /\ DOMAIN matches = {p \in workers : Shared(p) > 0}
        /\ \A p \in DOMAIN matches : matches[p] = Shared(p)

(* Round-robin spreads the requests it places evenly over each pool: the   *)
(* numbers of requests any two workers were given differ by at most one.   *)
(* (For runs without conversations: one that follows a binding takes no    *)
(* turn.)                                                                  *)
RoundRobinEven ==
  LET Placed == {r \in Req : route[r] # NoRoute}
      Even(given) == \A v, w \in DOMAIN given : given[v] <= given[w] + 1
  IN  /\ Even([p \in Prefills |-> Cardinality({r \in Placed : route[r].p = p})])
      /\ Even([d \in Decodes |-> Cardinality({r \in Placed : route[r].d = d})])

(* The modes that place without scoring charge nothing, and the completion *)
(* halves that run behind them all the same leave the counters at rest.    *)
BlindLoadIsZero ==
  Mode # "kv" => /\ prefillTokens = Slots!Zero
                 /\ prefillRequests = Slots!Zero
                 /\ decodeBlocks = Slots!Zero

-----------------------------------------------------------------------------
(* The counters as a ledger: a request is entered when it is charged, and  *)
(* its halves are given back by _finish_push and _complete_request.        *)

Entered(r, half) == IF r \in charged THEN half ELSE "free"

Ledger == INSTANCE LoadLedger WITH
  Holder     <- Req,
  PromptSize <- Isl,
  StreamSize <- [r \in Req |-> Cardinality(Blocks[r])],
  Nowhere    <- NoRoute,
  place      <- [r \in Req |-> IF r \in charged THEN route[r] ELSE NoRoute],
  prompt     <- [r \in Req |-> Entered(r, IF producer[r] = "released" THEN "returned" ELSE "held")],
  stream     <- [r \in Req |-> Entered(r, IF phase[r] \in Closed THEN "returned" ELSE "held")]

(* Where no request follows a binding, the counters are a ledger of the    *)
(* charged requests: every step moves them by exactly one request's share  *)
(* of one half, at the worker it was placed on, at most once - through     *)
(* every interleaving of placements, producers, streams and failures.      *)
ImplementsLedger == Ledger!Spec

-----------------------------------------------------------------------------
(* Action properties. *)

Starts(r) == phase[r] = "idle" /\ phase'[r] = "dispatched"

(* A request placed by the cost function never goes to a URL that is under *)
(* quarantine or to a worker above its busy threshold.                     *)
FilterHonoured ==
  [][\A r \in Req : Starts(r) /\ r \in charged' =>
       /\ PrefillUrls[route'[r].p] \notin quarantined
       /\ DecodeUrls[route'[r].d] \notin quarantined
       /\ Within(prefillTokens[route'[r].p], PrefillThreshold)
       /\ Within(decodeBlocks[route'[r].d], DecodeThreshold)]_vars

(* Once bound, a conversation stays bound and its requests all go to its   *)
(* target; and the target never moves, unless the conversation has had two *)
(* requests in flight at once.  (Then the one that finishes last decides,  *)
(* and may move it back to a target it had left.)                          *)
StickySession ==
  [][\A s \in Session : Affinity!Bound(s) =>
       /\ \A r \in Req : Starts(r) /\ SessionOf[r] = s => route'[r] = bindings[s].route
       /\ bindings'[s] # NoBinding
       /\ bindings'[s].route # bindings[s].route => s \in overlapped]_vars

-----------------------------------------------------------------------------
(* Liveness, under FairSpec. *)

(* What failed legs never gave back at a worker. *)
LeakedBlocks(d) == {r \in HoldsBlocks(d) : phase[r] \in Failed}
LeakedPrompt(p) == {r \in HoldsPrompt(p) : phase[r] \in Failed \/ producer[r] = "failed"}

(* /kvbm/status: the decode usage behind each URL.  (Of two workers with   *)
(* one URL the later is shown.)                                            *)
DecodeUsage ==
  [u \in {DecodeUrls[d] : d \in Decodes} |->
     LET same == {d \in Decodes : DecodeUrls[d] = u}
     IN  decodeBlocks[CHOOSE d \in same : \A e \in same : e <= d]]

(* The load drains: again and again a moment comes when what the counters  *)
(* and /kvbm/status show is only what failed legs left behind.  Without a  *)
(* failure that is nothing ("usage drained back to 0").                    *)
Drained ==
  /\ \A p \in Prefills :
       /\ prefillTokens[p] = Cardinality(Shares(LeakedPrompt(p), Tokens))
       /\ prefillRequests[p] = Cardinality({r \in OpenOn(p) : phase[r] \in Failed})
  /\ \A d \in Decodes :
       DecodeUsage[DecodeUrls[d]] = Cardinality(Shares(LeakedBlocks(d), Blocks))

LoadDrains == []<>Drained

(* A worker the filter skips becomes a candidate again by itself, when its *)
(* quarantine runs out and the streams it carries end.  One thing alone    *)
(* keeps it out for good: load above its threshold that failed legs left.  *)
WorkerRestored ==
  /\ \A p \in Prefills : p \notin EligiblePrefill(quarantined) ~>
       \/ p \in EligiblePrefill(quarantined)
       \/ ~Within(Cardinality(Shares(LeakedPrompt(p), Tokens)), PrefillThreshold)
  /\ \A d \in Decodes : d \notin EligibleDecode(quarantined) ~>
       \/ d \in EligibleDecode(quarantined)
       \/ ~Within(Cardinality(Shares(LeakedBlocks(d), Blocks)), DecodeThreshold)
=============================================================================
