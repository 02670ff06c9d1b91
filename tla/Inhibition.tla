----------------------------- MODULE Inhibition -----------------------------
(***************************************************************************)
(* The frontend's inhibition table, with its clock: inhibit() and          *)
(* is_inhibited() of src/frontend/frontend.py.  A dict lookup that finds   *)
(* nothing reads NoExpiry.  Time counts whole seconds up to MaxTime.       *)
(***************************************************************************)
EXTENDS Integers

CONSTANTS Host,         \* "host:port" of each worker
          Scheme,       \* the prefixes call sites put in front, "" included
          Secs,         \* INHIBIT_SECS
          NoExpiry,
          MaxTime

ASSUME InhibitionAssumption ==
  /\ Secs \in Nat \ {0}
  /\ MaxTime \in Nat
  /\ NoExpiry \notin Nat

VARIABLES now,          \* time.monotonic()
          inhibited,    \* _inhibited
          lastFailed    \* history: when a worker last failed

vars == <<now, inhibited, lastFailed>>

WorkerUrl == [scheme : Scheme, host : Host]

(* The scheme is stripped, so all forms of a URL share one entry. *)
InhibitKey(url) == url.host

Init == /\ now = 0
        /\ inhibited = [h \in Host |-> NoExpiry]
        /\ lastFailed = [h \in Host |-> NoExpiry]

(* Every variable holds a value of its kind. *)
TypeOK == /\ now \in Nat
          /\ inhibited \in [Host -> Nat \cup {NoExpiry}]
          /\ lastFailed \in [Host -> Nat \cup {NoExpiry}]

(* Variant: the expiry lies in the past. *)
InhibitBackdated(url) ==
  /\ inhibited' = [inhibited EXCEPT ![InhibitKey(url)] = now - Secs]
  /\ lastFailed' = [lastFailed EXCEPT ![url.host] = now]
  /\ UNCHANGED now

(* Variant: the table only remembers the latest failure. *)
InhibitReplaces(url) ==
  /\ inhibited' = [h \in Host |-> IF h = InhibitKey(url) THEN now + Secs ELSE NoExpiry]
  /\ lastFailed' = [lastFailed EXCEPT ![url.host] = now]
  /\ UNCHANGED now

Inhibit(url) ==
  /\ inhibited' = [inhibited EXCEPT ![InhibitKey(url)] = now + Secs]
  /\ lastFailed' = [lastFailed EXCEPT ![url.host] = now]
  /\ UNCHANGED now

(* Variant: still quarantined at the instant of expiry. *)
ExpiredLate(h) == inhibited[h] # NoExpiry /\ now > inhibited[h]

Expired(h) == inhibited[h] # NoExpiry /\ now >= inhibited[h]

(* The answer of is_inhibited(). *)
IsInhibited(h) == inhibited[h] # NoExpiry /\ ~Expired(h)

(* Variant: a read deletes the entry whatever its expiry. *)
ReadDrops(url) ==
  /\ inhibited' = [inhibited EXCEPT ![InhibitKey(url)] = NoExpiry]
  /\ UNCHANGED <<now, lastFailed>>

(* Its side effect: an entry found expired is deleted. *)
Read(url) ==
  LET key == InhibitKey(url)
  IN  /\ inhibited' = IF Expired(key) THEN [inhibited EXCEPT ![key] = NoExpiry]
                                      ELSE inhibited
      /\ UNCHANGED <<now, lastFailed>>

Tick == /\ now < MaxTime
        /\ now' = now + 1
        /\ UNCHANGED <<inhibited, lastFailed>>

Next == \/ \E url \in WorkerUrl : Inhibit(url) \/ Read(url)
        \/ Tick

Spec == Init /\ [][Next]_vars

-----------------------------------------------------------------------------
(* A worker is inhibited for exactly Secs after its latest failure, in     *)
(* whichever form its URL was written then or is asked about now, and      *)
(* whatever reads dropped in between.                                      *)
AnswersTrue ==
  \A h \in Host : IsInhibited(h) <=> /\ lastFailed[h] # NoExpiry
                                     /\ now < lastFailed[h] + Secs

(* Only the passing of time ends a quarantine: no read and no other        *)
(* worker's failure does.                                                  *)
OnlyTimeRestores ==
  [][now' = now => \A h \in Host : IsInhibited(h) => IsInhibited(h)']_vars

(* The table does what the rest of the gateway relies on: Quarantine.tla,  *)
(* where a URL is in the set while is_inhibited() answers True.            *)
Abstract == INSTANCE Quarantine WITH
              Url <- Host, quarantined <- {h \in Host : IsInhibited(h)}

ImplementsQuarantine == Abstract!Spec
=============================================================================
