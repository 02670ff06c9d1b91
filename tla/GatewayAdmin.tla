---------------------------- MODULE GatewayAdmin ----------------------------
(***************************************************************************)
(* The serving path together with the session operations that nothing in   *)
(* it calls: evict_lru, invalidate and access of src/router/sessions.py,   *)
(* which an operator of the gateway may call at any time between two steps *)
(* of the loop.  The first lets go of router state, so it races with the   *)
(* requests in flight.                                                     *)
(***************************************************************************)
EXTENDS Gateway

CONSTANT MaxClock     \* access() is called up to this reading of the clock

ASSUME ClockAssumption == MaxClock \in Nat

VARIABLE idler        \* history: <<s, t>> if t was active since s last was

adminVars == <<vars, idler>>

AdminInit == Init /\ idler = {}

(* A conversation is active when a turn of it is dispatched or has been    *)
(* streamed to its end.                                                    *)
Completes(r) == phase[r] = "streaming" /\ phase'[r] = "completed"

ActiveNow == {s \in Session : \E r \in Req : SessionOf[r] = s /\ (Starts(r) \/ Completes(r))}

(* The conversations of S, at most one, become the last to be active. *)
NotesActive(S) ==
  idler' = {o \in idler : o[1] \notin S} \cup ((Session \ S) \X S)

Serve == Next /\ NotesActive(ActiveNow)

(* evict_lru(d, 1); a larger count is this repeated.  The blocks the       *)
(* binding remembers leave the index and are freed once more.              *)
EvictLru(d) ==
  /\ \E s \in Session :
       /\ Affinity!IsLru(s, d)
       /\ Index!Forget(bindings[s].block_hashes, d, "decode")
       /\ Slots!Free(bindings[s].route.p, d, Cardinality(bindings[s].block_hashes))
       /\ Affinity!Invalidate(s)
  /\ UNCHANGED <<rr, quarantined, requestVars, idler>>

InvalidateSession(s) ==
  /\ Affinity!Bound(s)
  /\ Affinity!Invalidate(s)
  /\ UNCHANGED <<routerVars, quarantined, requestVars, idler>>

AccessSession(s) ==
  /\ clock < MaxClock
  /\ Affinity!Access(s)
  /\ NotesActive({s})
  /\ UNCHANGED <<routerVars, quarantined, requestVars>>

AdminNext == \/ Serve
             \/ \E d \in Decodes : EvictLru(d)
             \/ \E s \in Session : InvalidateSession(s) \/ AccessSession(s)

AdminSpec == AdminInit /\ [][AdminNext]_adminVars

-----------------------------------------------------------------------------
(* Whatever is evicted and whenever, the index credits a worker only with  *)
(* blocks a request that was served there put there.                       *)
IndexJustified == locations \subseteq UNION {CreditedBy(r) : r \in Req}

(* Idle first: of the conversations bound to d, evict_lru drops the one    *)
(* whose last turn was dispatched, streamed to its end or accessed before  *)
(* that of every other, whatever else the loop did meanwhile.              *)
EvictsIdlest ==
  [][\A d \in Decodes : EvictLru(d) =>
       \A s, t \in Affinity!BoundOn(d) :
         bindings'[s] = NoBinding /\ t # s => <<s, t>> \in idler]_adminVars
=============================================================================
