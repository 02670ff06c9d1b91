--------------------------- MODULE SessionAffinity ---------------------------
(***************************************************************************)
(* The bindings of src/router/sessions.py: conversation -> the route its   *)
(* last finished request took, with the prompt's blocks and the stamp of   *)
(* its last touch.                                                         *)
(*                                                                         *)
(* Stamps are only compared with each other, so time.monotonic() counts    *)
(* its own readings: no two of them are equal, and a later one is larger.  *)
(***************************************************************************)
EXTENDS Naturals

CONSTANTS Session,    \* conversation ids
          Route,      \* where a request can be sent
          Hash,
          NoBinding

VARIABLES bindings,   \* _bindings
          clock       \* the latest reading of time.monotonic()

affinityVars == <<bindings, clock>>

Binding == [route : Route, block_hashes : SUBSET Hash, last_touch : Nat]

Init == /\ bindings = [s \in Session |-> NoBinding]
        /\ clock = 0

TypeOK == /\ bindings \in [Session -> Binding \cup {NoBinding}]
          /\ clock \in Nat

Bound(s) == bindings[s] # NoBinding

(* Variant: the answer of lookup() leaves the stamp as it was. *)
LookupUntouched(s) == Bound(s) /\ UNCHANGED affinityVars

(* lookup() of a bound session: the answer is bindings[s].route. *)
LookupHit(s) ==
  /\ Bound(s)
  /\ clock' = clock + 1
  /\ bindings' = [bindings EXCEPT ![s].last_touch = clock']

(* access() refreshes the stamp of a bound session and ignores others. *)
Access(s) == LookupHit(s)

Bind(s, rt, hashes) ==
  /\ clock' = clock + 1
  /\ bindings' = [bindings EXCEPT ![s] =
                    [route |-> rt, block_hashes |-> hashes, last_touch |-> clock']]

(* Drop the binding, if there is one. *)
Invalidate(s) ==
  /\ bindings' = [bindings EXCEPT ![s] = NoBinding]
  /\ UNCHANGED clock

BoundOn(d) == {s \in Session : Bound(s) /\ bindings[s].route.d = d}

(* The first of evict_lru's candidates, oldest touch first. *)
IsLru(s, d) ==
  /\ s \in BoundOn(d)
  /\ \A t \in BoundOn(d) : bindings[s].last_touch <= bindings[t].last_touch
=============================================================================
