---------------------------- MODULE HandoffProofs ----------------------------
(***************************************************************************)
(* Theorems about the rendezvous of the two legs, for any number of        *)
(* workers and requests and whatever token limits the clients set.         *)
(***************************************************************************)
EXTENDS Handoff, TLAPS

-----------------------------------------------------------------------------
(* The inductive invariant.                                                *)

(* The two legs of r are the two bodies of one dispatch: one route, one id.*)
LegsOf(r, p, d, id) ==
  /\ producerLeg[r] = [to |-> PrefillPorts[p], id |-> id, body |-> ProducerBody(r)]
  /\ decodeLeg[r] = [to |-> DecodePorts[d], kv |-> TransferMetadata(Route(p, d), id)]

LegsTogether ==
  \A r \in Req :
    \/ /\ ~Sent(r) /\ decodeLeg[r] = None /\ outcome[r] = None /\ r \notin connected
       /\ generated[r] = 0 /\ delivered[r] = None
    \/ Sent(r) /\ \E p \in Prefills, d \in DOMAIN DecodePorts, id \in Id : LegsOf(r, p, d, id)

IdsFresh ==
  \A r, q \in Req : Sent(r) /\ Sent(q) /\ producerLeg[r].id = producerLeg[q].id => r = q

(* What a worker holds, it holds after one token of the request it is of.  *)
HeldAfterOneToken ==
  \A r \in Req : HeldFor(r) => generated[r] = 1

Accounted(entries) ==
  \A w \in Prefills, id \in Id : <<w, id>> \in entries =>
    \E r \in Req : /\ Sent(r)
                   /\ producerLeg[r].id = id
                   /\ producerLeg[r].to = PrefillPorts[w]

Typed ==
  /\ producerLeg \in [Req -> ProducerLeg \cup {None}]
  /\ decodeLeg \in [Req -> DecodeLeg \cup {None}]
  /\ outcome \in [Req -> {None, "waiting", "streaming", "refused", "errored", "aborted"}]
  /\ generated \in [Req -> Nat]
  /\ held \subseteq Prefills \X Id
  /\ registered \subseteq Prefills \X Id
  /\ delivered \in [Req -> Req \cup {None}]
  /\ connected \subseteq Req /\ dropped \subseteq Req

Inv == /\ Typed
       /\ LegsTogether
       /\ IdsFresh
       /\ HeldAfterOneToken
       /\ Accounted(held)
       /\ Accounted(registered)
       /\ OwnCache
       /\ TransferAfterOneToken

-----------------------------------------------------------------------------
(* The tables: every position has a port, and side channels are ports too. *)
LEMMA Ports ==
  /\ \A p \in Prefills : PrefillPorts[p] \in Nat /\ SidePorts[p] \in Nat
  /\ \A d \in DOMAIN DecodePorts : DecodePorts[d] \in Nat
<1>1. ASSUME NEW p \in Prefills PROVE SidePorts[p] \in Nat
  <2>1. p \in 1 .. Len(PrefillPorts) /\ Len(PrefillPorts) \in Nat
    BY <1>1, PortsAssumption DEF Prefills
  <2>2. CASE SidePortArgs = <<>>
    BY <1>1, <2>1, <2>2 DEF SidePorts, Prefills
  <2>3. CASE SidePortArgs # <<>>
    <3>1. p \in 1 .. Len(SidePortArgs)
      BY <2>1, <2>3, PortsAssumption
    <3>2. QED
      BY <2>3, <3>1, PortsAssumption DEF SidePorts
  <2>4. QED
    BY <2>2, <2>3
<1>2. QED
  BY <1>1, PortsAssumption DEF Prefills

(* Where the side ports are not given, they are those the workers are      *)
(* launched on.                                                            *)
LaunchedAsTold == \A p \in Prefills : SidePorts[p] = ListenPort(p)

LEMMA DefaultSidePorts == SidePortArgs = <<>> => LaunchedAsTold
<1>1. \A p \in Prefills : p \in Int
  BY PortsAssumption DEF Prefills
<1>2. QED
  BY <1>1 DEF LaunchedAsTold, SidePorts, ListenPort, Prefills

(* The legs of a dispatch are legs. *)
LEMMA LegsTyped ==
  ASSUME NEW r \in Req, NEW p \in Prefills, NEW d \in DOMAIN DecodePorts, NEW id \in Id
  PROVE  /\ [to |-> PrefillPorts[p], id |-> id, body |-> ProducerBody(r)] \in ProducerLeg
         /\ [to |-> DecodePorts[d], kv |-> TransferMetadata(Route(p, d), id)] \in DecodeLeg
  BY Ports DEF ProducerLeg, DecodeLeg, TransferMetadata, Route, PrefillWorker

(* What a sent request has. *)
LEMMA SentLegs ==
  ASSUME Inv, NEW r \in Req, Sent(r)
  PROVE  /\ Budget(producerLeg[r].body) = 1
         /\ producerLeg[r].id \in Id
         /\ decodeLeg[r].kv.remote_request_id = producerLeg[r].id
         /\ decodeLeg[r].kv.remote_engine_id \in Prefills
         /\ producerLeg[r].to = PrefillPorts[decodeLeg[r].kv.remote_engine_id]
         /\ decodeLeg[r].kv.remote_port = SidePorts[decodeLeg[r].kv.remote_engine_id]
<1>1. PICK p \in Prefills, d \in DOMAIN DecodePorts, id \in Id : LegsOf(r, p, d, id)
  BY DEF Inv, LegsTogether
<1>2. Budget(producerLeg[r].body) = 1
  BY <1>1, AbsenceAssumption DEF LegsOf, ProducerBody, Budget
<1>3. QED
  BY <1>1, <1>2 DEF LegsOf, TransferMetadata, Route, PrefillWorker

(* A request that has an outcome was sent. *)
LEMMA OutcomeIsOfSent ==
  ASSUME Inv, NEW r \in Req, Decoding(r)
  PROVE  Sent(r)
  BY AbsenceAssumption DEF Inv, LegsTogether, Decoding

(* The worker the producer leg is at is one of the pool. *)
LEMMA AtIsTheWorker ==
  ASSUME Inv, NEW r \in Req, Sent(r)
  PROVE  At(r) \in Prefills /\ producerLeg[r].to = PrefillPorts[At(r)]
<1>1. \E w \in Prefills : PrefillPorts[w] = producerLeg[r].to
  BY SentLegs
<1>2. QED
  BY <1>1 DEF At

-----------------------------------------------------------------------------
(* The steps.                                                              *)

LEMMA InitInv == Init => Inv
  BY AbsenceAssumption
     DEF Init, Inv, Typed, LegsTogether, IdsFresh, HeldAfterOneToken, HeldFor, Accounted,
         OwnCache, TransferAfterOneToken, Sent

LEMMA DispatchInv ==
  ASSUME Inv, NEW r \in Req, NEW p \in Prefills, NEW d \in DOMAIN DecodePorts,
         Dispatch(r, Route(p, d))
  PROVE  Inv'
<1>1. PICK id \in Id \ Used : PostProducer(r, Route(p, d), id) /\ PostDecode(r, Route(p, d), id)
  BY DEF Dispatch
<1> DEFINE leg == [to |-> PrefillPorts[p], id |-> id, body |-> ProducerBody(r)]
           decode == [to |-> DecodePorts[d], kv |-> TransferMetadata(Route(p, d), id)]
<1>2. /\ producerLeg' = [producerLeg EXCEPT ![r] = leg]
      /\ decodeLeg' = [decodeLeg EXCEPT ![r] = decode]
      /\ outcome' = [outcome EXCEPT ![r] = "waiting"]
      /\ connected' = connected \cup {r}
      /\ UNCHANGED <<generated, held, registered, delivered, dropped>>
      /\ ~Sent(r)
  BY <1>1 DEF Dispatch, PostProducer, PostDecode, Route, PrefillWorker, workerVars
<1>3. leg \in ProducerLeg /\ decode \in DecodeLeg /\ leg # None
  BY <1>1, LegsTyped, LegAssumption
<1>4. LegsOf(r, p, d, id)'
  BY <1>2, <1>1 DEF Inv, Typed, LegsOf
<1>5. /\ leg.id = id /\ producerLeg'[r] = leg /\ decodeLeg'[r] = decode
      /\ \A q \in Req : q # r => /\ producerLeg'[q] = producerLeg[q]
                                 /\ decodeLeg'[q] = decodeLeg[q]
                                 /\ outcome'[q] = outcome[q]
  BY <1>2 DEF Inv, Typed
<1> HIDE DEF leg, decode
<1>6. \A q \in Req : Sent(q)' <=> Sent(q) \/ q = r
  BY <1>3, <1>5 DEF Sent
<1>7. Typed'
  BY <1>2, <1>3 DEF Inv, Typed
<1>8. LegsTogether'
  <2>1. ASSUME NEW q \in Req, q # r
        PROVE  \/ /\ ~Sent(q)' /\ decodeLeg'[q] = None /\ outcome'[q] = None
                  /\ q \notin connected' /\ generated'[q] = 0 /\ delivered'[q] = None
               \/ Sent(q)' /\ \E v \in Prefills, e \in DOMAIN DecodePorts, i \in Id :
                                LegsOf(q, v, e, i)'
    BY <1>2, <1>5, <1>6, <2>1 DEF Inv, LegsTogether, LegsOf
  <2>2. Sent(r)' /\ \E v \in Prefills, e \in DOMAIN DecodePorts, i \in Id : LegsOf(r, v, e, i)'
    BY <1>1, <1>4, <1>6
  <2>3. QED
    BY <2>1, <2>2 DEF LegsTogether
<1>9. \A q \in Req : q # r /\ Sent(q) => producerLeg[q].id # id
  BY <1>1 DEF Used
<1>10. IdsFresh'
  BY <1>5, <1>6, <1>9 DEF Inv, IdsFresh
<1>11. ASSUME NEW w \in Prefills PROVE <<w, id>> \notin held
  BY <1>1, <1>11 DEF Inv, Accounted, Used
<1>12. HeldAfterOneToken'
  BY <1>2, <1>5, <1>6, <1>11 DEF Inv, HeldAfterOneToken, HeldFor
<1>13. Accounted(held)' /\ Accounted(registered)'
  BY <1>2, <1>5, <1>6 DEF Inv, Accounted
<1>14. OwnCache'
  BY <1>2, <1>5, <1>6 DEF Inv, OwnCache
<1>15. TransferAfterOneToken'
  BY <1>2 DEF Inv, TransferAfterOneToken
<1>16. QED
  BY <1>7, <1>8, <1>10, <1>12, <1>13, <1>14, <1>15 DEF Inv

(* What the gateway notices of a sent request's legs moves nothing else.   *)
LEMMA NoticeInv ==
  ASSUME Inv, NEW r \in Req, Sent(r), NEW o \in {"waiting", "streaming", "refused", "errored", "aborted"},
         outcome' = [outcome EXCEPT ![r] = o], connected' \subseteq connected,
         UNCHANGED <<producerLeg, decodeLeg, workerVars>>
  PROVE  Inv'
<1>1. Typed'
  BY DEF Inv, Typed, workerVars
<1>2. LegsTogether'
  BY DEF Inv, Typed, LegsTogether, LegsOf, Sent, workerVars
<1>3. QED
  BY <1>1, <1>2 DEF Inv, IdsFresh, HeldAfterOneToken, HeldFor, Accounted, OwnCache,
     TransferAfterOneToken, Sent, workerVars

LEMMA DecodeLegInv ==
  ASSUME Inv, NEW r \in Req,
         \/ DecodeAnswers(r) \/ DecodeRefused(r) \/ DecodeErrorBodyLost(r) \/ StreamAborts(r)
  PROVE  Inv'
<1>1. PICK o \in {"streaming", "refused", "errored", "aborted"} :
        /\ outcome' = [outcome EXCEPT ![r] = o] /\ connected' \subseteq connected
        /\ UNCHANGED <<producerLeg, decodeLeg, workerVars>>
        /\ Decoding(r)
  BY DEF DecodeAnswers, DecodeRefused, DecodeErrorBodyLost, StreamAborts, DecodeLegBecomes,
     Decoding
<1>2. Sent(r)
  BY <1>1, OutcomeIsOfSent
<1>3. QED
  BY <1>1, <1>2, NoticeInv

LEMMA ProducerFailsInv ==
  ASSUME Inv, NEW r \in Req, ProducerFails(r)
  PROVE  Inv'
<1>1. /\ connected' \subseteq connected
      /\ UNCHANGED <<producerLeg, decodeLeg, outcome, generated, held, registered, delivered,
                     dropped>>
  BY DEF ProducerFails, workerVars
<1>2. Typed' /\ LegsTogether'
  BY <1>1 DEF Inv, Typed, LegsTogether, LegsOf, Sent
<1>3. QED
  BY <1>1, <1>2 DEF Inv, IdsFresh, HeldAfterOneToken, HeldFor, Accounted, OwnCache,
     TransferAfterOneToken, Sent

(* One token is all there is to generate, and then the KV is held. *)
LEMMA GenerateInv ==
  ASSUME Inv, NEW r \in Req, Generate(r)
  PROVE  Inv'
<1>1. /\ Sent(r) /\ generated[r] = 0
      /\ generated' = [generated EXCEPT ![r] = 1]
      /\ held' = held \cup {<<At(r), producerLeg[r].id>>}
      /\ UNCHANGED <<producerLeg, decodeLeg, outcome, connected, registered, delivered, dropped>>
  <2>1. Sent(r) /\ Budget(producerLeg[r].body) = 1
    BY SentLegs DEF Generate
  <2>2. generated \in [Req -> Nat] /\ generated[r] < 1
    BY <2>1 DEF Inv, Typed, Generate
  <2>3. generated[r] = 0
    BY <2>2
  <2>4. generated' = [generated EXCEPT ![r] = 1] /\ generated'[r] = 1
    BY <2>2, <2>3 DEF Generate
  <2>5. QED
    BY <2>1, <2>3, <2>4 DEF Generate, gatewayVars
<1>2. At(r) \in Prefills /\ producerLeg[r].to = PrefillPorts[At(r)] /\ producerLeg[r].id \in Id
  BY <1>1, AtIsTheWorker, SentLegs
<1>3. Typed'
  BY <1>1, <1>2 DEF Inv, Typed
<1>4. LegsTogether'
  BY <1>1 DEF Inv, Typed, LegsTogether, LegsOf, Sent
<1>5. IdsFresh' /\ OwnCache'
  BY <1>1 DEF Inv, IdsFresh, OwnCache, Sent
<1>6. HeldAfterOneToken'
  <2> SUFFICES ASSUME NEW q \in Req, HeldFor(q)' PROVE generated'[q] = 1
    BY DEF HeldAfterOneToken
  <2>1. CASE q = r
    BY <1>1, <2>1 DEF Inv, Typed
  <2>2. CASE q # r
    <3>1. producerLeg[q].id # producerLeg[r].id /\ Sent(q)
      BY <1>1, <2>2 DEF Inv, IdsFresh, HeldFor, Sent
    <3>2. HeldFor(q)
      BY <1>1, <3>1 DEF HeldFor, Sent
    <3>3. QED
      BY <1>1, <2>2, <3>2 DEF Inv, HeldAfterOneToken, Typed
  <2>3. QED
    BY <2>1, <2>2
<1>7. Accounted(held)'
  BY <1>1, <1>2 DEF Inv, Accounted, Sent
<1>8. Accounted(registered)'
  BY <1>1 DEF Inv, Accounted, Sent
<1>9. TransferAfterOneToken'
  <2>1. delivered \in [Req -> Req \cup {None}] /\ generated \in [Req -> Nat]
    BY DEF Inv, Typed
  <2> SUFFICES ASSUME NEW q \in Req, delivered[q] # None PROVE generated'[delivered[q]] = 1
    BY <1>1 DEF TransferAfterOneToken
  <2>2. generated[delivered[q]] = 1 /\ delivered[q] \in Req
    BY <2>1 DEF Inv, TransferAfterOneToken
  <2>3. QED
    BY <1>1, <2>1, <2>2
<1>10. QED
  BY <1>3, <1>4, <1>5, <1>6, <1>7, <1>8, <1>9 DEF Inv

(* A registration names the worker the producer leg was sent to. *)
LEMMA RegisterInv ==
  ASSUME Inv, NEW r \in Req, Register(r)
  PROVE  Inv'
<1>1. Sent(r)
  BY OutcomeIsOfSent DEF Register
<1>2. PICK w \in Prefills :
        /\ w = decodeLeg[r].kv.remote_engine_id
        /\ registered' = registered \cup {<<w, decodeLeg[r].kv.remote_request_id>>}
  BY DEF Register
<1>3. /\ registered' = registered \cup {<<w, producerLeg[r].id>>}
      /\ producerLeg[r].to = PrefillPorts[w] /\ producerLeg[r].id \in Id
      /\ UNCHANGED <<producerLeg, decodeLeg, outcome, connected, generated, held, delivered, dropped>>
  BY <1>1, <1>2, SentLegs DEF Register, gatewayVars
<1>4. Typed'
  BY <1>2, <1>3 DEF Inv, Typed
<1>5. LegsTogether'
  BY <1>3 DEF Inv, LegsTogether, LegsOf, Sent
<1>6. IdsFresh' /\ HeldAfterOneToken' /\ Accounted(held)' /\ TransferAfterOneToken'
  BY <1>3 DEF Inv, IdsFresh, HeldAfterOneToken, HeldFor, Accounted, TransferAfterOneToken, Sent
<1>7. Accounted(registered)'
  BY <1>1, <1>2, <1>3 DEF Inv, Accounted, Sent
<1>8. OwnCache'
  BY <1>3, <1>7 DEF Inv, OwnCache, Accounted
<1>9. QED
  BY <1>4, <1>5, <1>6, <1>7, <1>8 DEF Inv

(* The id that meets is one request's: its KV goes to its own decode leg.  *)
LEMMA TransferInv ==
  ASSUME Inv, NEW w \in Prefills, NEW id \in Id, Transfer(w, id)
  PROVE  Inv'
<1>1. PICK r \in Req, q \in Req :
        /\ Sent(r) /\ producerLeg[r].id = id
        /\ Decoding(q) /\ decodeLeg[q].kv.remote_request_id = id
        /\ delivered' = [delivered EXCEPT ![q] = r]
  BY DEF Transfer
<1>2. q = r
  <2>1. Sent(q) /\ producerLeg[q].id = id
    BY <1>1, OutcomeIsOfSent, SentLegs
  <2>2. QED
    BY <1>1, <2>1 DEF Inv, IdsFresh
<1>3. generated[r] = 1
  BY <1>1 DEF Inv, HeldAfterOneToken, HeldFor, Transfer
<1>4. /\ held' \subseteq held /\ registered' \subseteq registered
      /\ UNCHANGED <<producerLeg, decodeLeg, outcome, connected, generated, dropped>>
  BY DEF Transfer, gatewayVars
<1>5. Typed'
  BY <1>1, <1>4 DEF Inv, Typed
<1>6. LegsTogether'
  BY <1>1, <1>2, <1>4 DEF Inv, Typed, LegsTogether, LegsOf, Sent
<1>7. IdsFresh' /\ HeldAfterOneToken' /\ Accounted(held)' /\ Accounted(registered)'
  BY <1>4 DEF Inv, IdsFresh, HeldAfterOneToken, HeldFor, Accounted, Sent
<1>8. OwnCache'
  BY <1>1, <1>2, <1>4 DEF Inv, Typed, OwnCache, Sent
<1>9. TransferAfterOneToken'
  BY <1>1, <1>3, <1>4 DEF Inv, Typed, TransferAfterOneToken
<1>10. QED
  BY <1>5, <1>6, <1>7, <1>8, <1>9 DEF Inv

LEMMA DropInv ==
  ASSUME Inv, NEW r \in Req, Drop(r)
  PROVE  Inv'
<1>1. /\ held' \subseteq held /\ dropped' \subseteq Req
      /\ UNCHANGED <<producerLeg, decodeLeg, outcome, connected, generated, registered, delivered>>
  BY DEF Inv, Typed, Drop, gatewayVars
<1>2. Typed' /\ LegsTogether'
  BY <1>1 DEF Inv, Typed, LegsTogether, LegsOf, Sent
<1>3. QED
  BY <1>1, <1>2 DEF Inv, IdsFresh, HeldAfterOneToken, HeldFor, Accounted, OwnCache,
     TransferAfterOneToken, Sent

LEMMA StepInv == Inv /\ [Next]_vars => Inv'
<1> SUFFICES ASSUME Inv, [Next]_vars PROVE Inv'
  OBVIOUS
<1>1. CASE UNCHANGED vars
  <2>1. Typed' /\ LegsTogether'
    BY <1>1 DEF vars, Inv, Typed, LegsTogether, LegsOf, Sent
  <2>2. IdsFresh' /\ HeldAfterOneToken' /\ Accounted(held)' /\ Accounted(registered)'
    BY <1>1 DEF vars, Inv, IdsFresh, HeldAfterOneToken, HeldFor, Accounted, Sent
  <2>3. OwnCache' /\ TransferAfterOneToken'
    BY <1>1 DEF vars, Inv, OwnCache, TransferAfterOneToken, Sent
  <2>4. QED
    BY <2>1, <2>2, <2>3 DEF Inv
<1>2. ASSUME NEW r \in Req, NEW p \in Prefills, NEW d \in DOMAIN DecodePorts,
             Dispatch(r, Route(p, d))
      PROVE  Inv'
  BY <1>2, DispatchInv
<1>3. ASSUME NEW r \in Req,
             \/ DecodeAnswers(r) \/ DecodeRefused(r) \/ DecodeErrorBodyLost(r)
             \/ StreamAborts(r) \/ ProducerFails(r)
      PROVE  Inv'
  BY <1>3, DecodeLegInv, ProducerFailsInv
<1>4. ASSUME NEW r \in Req, Generate(r) \/ Register(r) \/ Drop(r) PROVE Inv'
  BY <1>4, GenerateInv, RegisterInv, DropInv
<1>5. ASSUME NEW w \in Prefills, NEW id \in Id, Transfer(w, id) PROVE Inv'
  BY <1>5, TransferInv
<1>6. QED
  BY <1>1, <1>2, <1>3, <1>4, <1>5 DEF Next, Done

-----------------------------------------------------------------------------
(* The theorems.                                                           *)

(* Where the workers listen on the ports the gateway was told, every       *)
(* registration goes to a port some worker was launched on.                *)
THEOREM TypeCorrect == ASSUME LaunchedAsTold PROVE Spec => []TypeOK
<1>1. Inv => TypeOK
  <2> SUFFICES ASSUME Inv PROVE TypeOK
    OBVIOUS
  <2>1. ASSUME NEW r \in Req, Sent(r)
        PROVE  /\ producerLeg[r].id \in Id
               /\ producerLeg[r].to \in {PrefillPorts[w] : w \in Prefills}
    BY <2>1, SentLegs
  <2>2. ASSUME NEW r \in Req, decodeLeg[r] # None
        PROVE  /\ decodeLeg[r].kv.remote_request_id \in Id
               /\ decodeLeg[r].kv.remote_engine_id \in Prefills
               /\ decodeLeg[r].kv.remote_port \in {ListenPort(w) : w \in Prefills}
    <3>1. Sent(r)
      BY <2>2 DEF Inv, LegsTogether
    <3>2. QED
      BY <3>1, SentLegs, LaunchedAsTold DEF LaunchedAsTold
  <2>3. QED
    BY <2>1, <2>2 DEF Inv, Typed, TypeOK
<1>2. QED
  BY InitInv, StepInv, <1>1, PTL DEF Spec

(* A decode worker only ever gets the KV of its own request's prompt, and  *)
(* registers for it only where that request's producer leg was sent.       *)
THEOREM CacheIsItsOwn == Spec => []OwnCache
<1>1. Inv => OwnCache
  BY DEF Inv
<1>2. QED
  BY InitInv, StepInv, <1>1, PTL DEF Spec

(* KV moves after one token, whatever limits the clients set. *)
THEOREM TransfersAfterOneToken == Spec => []TransferAfterOneToken
<1>1. Inv => TransferAfterOneToken
  BY DEF Inv
<1>2. QED
  BY InitInv, StepInv, <1>1, PTL DEF Spec
=============================================================================
