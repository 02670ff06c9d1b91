------------------------------- MODULE Handoff -------------------------------
(***************************************************************************)
(* How the two legs of a dispatch meet: what dispatch() of                 *)
(* src/frontend/frontend.py posts to the prefill and to the decode worker, *)
(* built from the tables main() and src/infra/discovery.py set up.         *)
(*                                                                         *)
(* The workers run vLLM and are not this repository's.  What is modelled   *)
(* of them is what its comments rely on: a producer leg computes its       *)
(* tokens and holds the prompt's KV under the request id; the decode       *)
(* worker registers that id at the side channel it is told; the two        *)
(* together, in either order, start the transfer, and only the transfer    *)
(* ends the hold; a worker drops a request whose connection is gone, some  *)
(* time later.  Every worker and every side channel is on one host, so an  *)
(* address is a port.                                                      *)
(***************************************************************************)
EXTENDS Integers, Sequences, FiniteSets

CONSTANTS
  PrefillPorts, DecodePorts,    \* the command line's lists of ports
  SidePortArgs,                 \* --prefill-side-ports; <<>> when not given
  Req,
  Id,                           \* what uuid4 can return
  Absent,                       \* a field the client's body does not have
  MaxTokens,                    \* the client's max_tokens
  MaxCompletionTokens,          \* the client's max_completion_tokens
  None

VARIABLES
  producerLeg,    \* the POST to the prefill worker, by request
  decodeLeg,      \* the POST to the decode worker
  outcome,        \* what became of the decode leg, as the gateway sees it
  connected,      \* the requests whose producer connection is open
  generated,      \* tokens the prefill worker has produced for it
  held,           \* <<worker, id>>: KV held at a prefill worker
  registered,     \* <<worker, id>>: registrations a prefill worker received
  delivered,      \* whose prompt's KV the request's decode worker got
  dropped         \* the requests their prefill worker has given up

vars == <<producerLeg, decodeLeg, outcome, connected, generated, held, registered,
          delivered, dropped>>

-----------------------------------------------------------------------------
(* The static tables. *)

(* Variant: the default ports count from 1. *)
SidePortsFromOne == IF SidePortArgs = <<>> THEN [i \in DOMAIN PrefillPorts |-> 5600 + i]
                                           ELSE SidePortArgs

(* Positions count from 1 here, from 0 in the code. *)
SidePorts == IF SidePortArgs = <<>> THEN [i \in DOMAIN PrefillPorts |-> 5599 + i]
                                    ELSE SidePortArgs

ASSUME PortsAssumption ==
  /\ PrefillPorts \in Seq(Nat) /\ DecodePorts \in Seq(Nat) /\ SidePortArgs \in Seq(Nat)
  /\ \A i, j \in DOMAIN PrefillPorts : PrefillPorts[i] = PrefillPorts[j] => i = j
  /\ SidePortArgs # <<>> =>
       Len(SidePortArgs) >= Len(PrefillPorts)    \* main() does not start otherwise

(* None and Absent are no values of the places they stand in. *)
ASSUME AbsenceAssumption ==
  /\ Absent # 1
  /\ None \notin Req \cup {"waiting", "streaming", "refused", "errored", "aborted"}

Prefills == DOMAIN PrefillPorts

(* Where the i-th prefill worker listens: as the benchmark launches it.    *)
(* Its engine id there is "prefill-<i>".                                   *)
ListenPort(i) == 5600 + (i - 1)

(* A PrefillWorker handle; "prefill-<i>" is the engine id i. *)
PrefillWorker(i) == [url |-> PrefillPorts[i], engine_id |-> i, side_port |-> SidePorts[i]]

(* What _make_route looks up at the positions p and d. *)
Route(p, d) ==
  [ prefill_url       |-> PrefillWorker(p).url,
    decode_url        |-> DecodePorts[d],
    engine_id         |-> PrefillWorker(p).engine_id,
    prefill_side_port |-> PrefillWorker(p).side_port ]

-----------------------------------------------------------------------------
(* The two bodies. *)

(* Variant: only one of the two caps. *)
ProducerBodyOneCap(r) ==
  [max_tokens |-> 1, max_completion_tokens |-> MaxCompletionTokens[r]]

(* Both caps are overwritten, whatever the client asked for. *)
ProducerBody(r) == [max_tokens |-> 1, max_completion_tokens |-> 1]

(* vLLM prefers the newer field. *)
Budget(body) == IF body.max_completion_tokens # Absent THEN body.max_completion_tokens
                                                       ELSE body.max_tokens

(* kv_transfer_params of the decode leg. *)
TransferMetadata(rt, id) ==
  [ remote_engine_id  |-> rt.engine_id,
    remote_port       |-> rt.prefill_side_port,
    remote_request_id |-> id ]

ProducerLeg == [to : Nat, id : Id, body : {ProducerBody(r) : r \in Req}]
DecodeLeg   == [to : Nat, kv : [remote_engine_id : Prefills, remote_port : Nat,
                                remote_request_id : Id]]

ASSUME LegAssumption == None \notin ProducerLeg \cup DecodeLeg

-----------------------------------------------------------------------------
Init == /\ producerLeg = [r \in Req |-> None]
        /\ decodeLeg = [r \in Req |-> None]
        /\ outcome = [r \in Req |-> None]
        /\ connected = {}
        /\ generated = [r \in Req |-> 0]
        /\ held = {} /\ registered = {}
        /\ delivered = [r \in Req |-> None]
        /\ dropped = {}

Sent(r) == producerLeg[r] # None
Used == {producerLeg[r].id : r \in {q \in Req : Sent(q)}}

PostProducer(r, rt, id) ==
  producerLeg' = [producerLeg EXCEPT ![r] = [to |-> rt.prefill_url, id |-> id,
                                             body |-> ProducerBody(r)]]

PostDecode(r, rt, id) ==
  decodeLeg' = [decodeLeg EXCEPT ![r] = [to |-> rt.decode_url,
                                         kv |-> TransferMetadata(rt, id)]]

workerVars == <<generated, held, registered, delivered, dropped>>

(* Variant: the decode leg waits for the producer's response, which waits  *)
(* for the transfer.                                                       *)
DispatchInSequence(r, rt) ==
  \/ /\ ~Sent(r)
     /\ \E id \in Id \ Used : PostProducer(r, rt, id)
     /\ connected' = connected \cup {r}
     /\ UNCHANGED <<decodeLeg, outcome, workerVars>>
  \/ /\ Sent(r) /\ decodeLeg[r] = None
     /\ producerLeg[r].to = rt.prefill_url
     /\ delivered[r] # None
     /\ PostDecode(r, rt, producerLeg[r].id)
     /\ outcome' = [outcome EXCEPT ![r] = "waiting"]
     /\ UNCHANGED <<producerLeg, connected, workerVars>>

(* Variant: each leg has an id of its own. *)
DispatchTwoIds(r, rt) ==
  /\ ~Sent(r)
  /\ \E id, other \in Id \ Used : PostProducer(r, rt, id) /\ PostDecode(r, rt, other)
  /\ outcome' = [outcome EXCEPT ![r] = "waiting"]
  /\ connected' = connected \cup {r}
  /\ UNCHANGED workerVars

(* dispatch(): both legs go out, under one fresh request id. *)
Dispatch(r, rt) ==
  /\ ~Sent(r)
  /\ \E id \in Id \ Used : PostProducer(r, rt, id) /\ PostDecode(r, rt, id)
  /\ outcome' = [outcome EXCEPT ![r] = "waiting"]
  /\ connected' = connected \cup {r}
  /\ UNCHANGED workerVars

DecodeLegBecomes(r, from, to) ==
  /\ outcome[r] = from
  /\ outcome' = [outcome EXCEPT ![r] = to]
  /\ UNCHANGED <<producerLeg, decodeLeg, workerVars>>

DecodeAnswers(r) == DecodeLegBecomes(r, "waiting", "streaming") /\ UNCHANGED connected

(* Variant: the producer is not cancelled with its decode leg. *)
DecodeRefusedHolds(r) == DecodeLegBecomes(r, "waiting", "refused") /\ UNCHANGED connected

(* UpstreamError: the producer task is cancelled, which closes its         *)
(* connection.                                                             *)
DecodeRefused(r) ==
  DecodeLegBecomes(r, "waiting", "refused") /\ connected' = connected \ {r}

(* The body of a non-200 answer is lost: dispatch is left, the producer    *)
(* goes on.                                                                *)
DecodeErrorBodyLost(r) ==
  DecodeLegBecomes(r, "waiting", "errored") /\ UNCHANGED connected

(* The client goes away, or the stream breaks: the decode connection is    *)
(* closed, and _finish_push goes on waiting for the producer.              *)
StreamAborts(r) == DecodeLegBecomes(r, "streaming", "aborted") /\ UNCHANGED connected

(* _drain raises. *)
ProducerFails(r) ==
  /\ r \in connected /\ delivered[r] = None
  /\ connected' = connected \ {r}
  /\ UNCHANGED <<producerLeg, decodeLeg, outcome, workerVars>>

-----------------------------------------------------------------------------
(* The workers. *)

gatewayVars == <<producerLeg, decodeLeg, outcome, connected>>

(* The prefill worker the producer leg is at. *)
At(r) == CHOOSE w \in Prefills : PrefillPorts[w] = producerLeg[r].to

Generate(r) ==
  /\ Sent(r) /\ r \notin dropped
  /\ generated[r] < Budget(producerLeg[r].body)
  /\ generated' = [generated EXCEPT ![r] = @ + 1]
  /\ held' = IF generated'[r] = Budget(producerLeg[r].body)
               THEN held \cup {<<At(r), producerLeg[r].id>>} ELSE held
  /\ UNCHANGED <<gatewayVars, registered, delivered, dropped>>

(* The decode worker has the request while its connection is open. *)
Decoding(r) == outcome[r] \in {"waiting", "streaming"}

(* The registration reaches whichever prefill worker listens on the port,  *)
(* and is taken if that worker is the engine it names.                     *)
Register(r) ==
  /\ Decoding(r) /\ delivered[r] = None
  /\ LET kv == decodeLeg[r].kv
     IN  \E w \in Prefills : /\ ListenPort(w) = kv.remote_port
                             /\ w = kv.remote_engine_id
                             /\ <<w, kv.remote_request_id>> \notin registered
                             /\ registered' = registered \cup {<<w, kv.remote_request_id>>}
  /\ UNCHANGED <<gatewayVars, generated, held, delivered, dropped>>

(* A worker that holds an id and was asked for it pushes the KV to the     *)
(* decode worker that asked, and its producer leg ends.                    *)
Transfer(w, id) ==
  /\ <<w, id>> \in held /\ <<w, id>> \in registered
  /\ \E r, q \in Req :
       /\ Sent(r) /\ producerLeg[r].id = id
       /\ Decoding(q) /\ decodeLeg[q].kv.remote_request_id = id
       /\ delivered' = [delivered EXCEPT ![q] = r]
  /\ held' = held \ {<<w, id>>}
  /\ registered' = registered \ {<<w, id>>}
  /\ UNCHANGED <<gatewayVars, generated, dropped>>

(* A prefill worker notices that the producer's connection is gone. *)
Drop(r) ==
  /\ Sent(r) /\ r \notin connected \cup dropped
  /\ dropped' = dropped \cup {r}
  /\ held' = {h \in held : h[2] # producerLeg[r].id}
  /\ UNCHANGED <<gatewayVars, generated, registered, delivered>>

Done == /\ \A r \in Req : Sent(r) /\ (Decoding(r) => delivered[r] # None \/ r \notin connected)
        /\ UNCHANGED vars

Next == \/ \E r \in Req : \/ \E p \in Prefills, d \in DOMAIN DecodePorts : Dispatch(r, Route(p, d))
                          \/ DecodeAnswers(r) \/ DecodeRefused(r) \/ DecodeErrorBodyLost(r)
                          \/ StreamAborts(r) \/ ProducerFails(r)
                          \/ Generate(r) \/ Register(r) \/ Drop(r)
        \/ \E w \in Prefills, id \in Id : Transfer(w, id)
        \/ Done

Spec == Init /\ [][Next]_vars

(* The workers go on with what they were sent, and notice what is gone.    *)
(* Nothing makes a decode worker answer or refuse, or a client leave.      *)
Fairness == /\ \A r \in Req : WF_vars(Generate(r)) /\ WF_vars(Register(r)) /\ WF_vars(Drop(r))
            /\ \A w \in Prefills, id \in Id : WF_vars(Transfer(w, id))

FairSpec == Spec /\ Fairness

-----------------------------------------------------------------------------
(* Every variable holds a value of its kind, and every registration goes   *)
(* to a port some worker was launched on.                                  *)
TypeOK ==
  /\ \A r \in Req : Sent(r) =>
       producerLeg[r].id \in Id /\ producerLeg[r].to \in {PrefillPorts[w] : w \in Prefills}
  /\ \A r \in Req : decodeLeg[r] # None =>
       /\ decodeLeg[r].kv.remote_request_id \in Id
       /\ decodeLeg[r].kv.remote_engine_id \in Prefills
       /\ decodeLeg[r].kv.remote_port \in {ListenPort(w) : w \in Prefills}
  /\ outcome \in [Req -> {None, "waiting", "streaming", "refused", "errored", "aborted"}]
  /\ generated \in [Req -> Nat]
  /\ held \subseteq Prefills \X Id
  /\ registered \subseteq Prefills \X Id
  /\ delivered \in [Req -> Req \cup {None}]
  /\ connected \subseteq Req /\ dropped \subseteq Req

(* A decode worker only ever gets the KV of its own request's prompt, and  *)
(* registers for it only where that request's producer leg was sent.       *)
OwnCache ==
  /\ \A r \in Req : delivered[r] \in {None, r}
  /\ \A w \in Prefills, id \in Id : <<w, id>> \in registered =>
       \E r \in Req : /\ Sent(r)
                      /\ producerLeg[r].id = id
                      /\ producerLeg[r].to = PrefillPorts[w]

(* KV moves after one token, whatever budget the client asked for: the     *)
(* prefill worker never decodes on behalf of the decode worker.            *)
TransferAfterOneToken ==
  \A r \in Req : delivered[r] # None => generated[delivered[r]] = 1

(* The legs of every dispatch meet, unless one of them failed.             *)
LegsMeet == \A r \in Req :
  Sent(r) ~> \/ delivered[r] = r
             \/ r \notin connected \/ outcome[r] \in {"refused", "errored", "aborted"}

(* Held KV is let go, with or without somebody to take it: "holding        *)
(* prefill open is pure waste".  What stays held is exactly what a lost    *)
(* error body or an abandoned stream left behind: these two ends of a      *)
(* decode leg do not reach the producer.                                   *)
HeldFor(r) == Sent(r) /\ \E w \in Prefills : <<w, producerLeg[r].id>> \in held

HeldIsLetGo == \A r \in Req :
  HeldFor(r) ~> ~HeldFor(r) \/ outcome[r] \in {"errored", "aborted"}
=============================================================================
