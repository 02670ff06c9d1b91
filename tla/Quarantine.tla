----------------------------- MODULE Quarantine -----------------------------
(***************************************************************************)
(* What the frontend's inhibition table promises: a worker URL is          *)
(* quarantined when a request on it fails and is restored by the passing   *)
(* of time alone, some time later.  Inhibition.tla is the table with its   *)
(* clock, and implements this; Gateway.tla is built on this.               *)
(***************************************************************************)
CONSTANT Url

VARIABLE quarantined    \* the URLs is_inhibited() answers True for

Init == quarantined = {}

TypeOK == quarantined \subseteq Url

Inhibit(u) == quarantined' = quarantined \cup {u}

(* Several quarantines may run out at one instant. *)
Expire(us) == /\ us # {}
              /\ us \subseteq quarantined
              /\ quarantined' = quarantined \ us

Next == \/ \E u \in Url : Inhibit(u)
        \/ \E us \in SUBSET Url : Expire(us)

Spec == Init /\ [][Next]_quarantined
=============================================================================
