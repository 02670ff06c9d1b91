-------------------------- MODULE InhibitionProofs --------------------------
(***************************************************************************)
(* The inhibition table answers correctly for any number of workers, any   *)
(* quarantine length and any interleaving of failures, reads and time, and *)
(* implements Quarantine.tla.                                              *)
(***************************************************************************)
EXTENDS Inhibition, TLAPS

(* Every variable keeps a value of its kind. *)
THEOREM TypeCorrect == Spec => []TypeOK
<1>1. Init => TypeOK
  BY DEF Init, TypeOK
<1>2. TypeOK /\ [Next]_vars => TypeOK'
  <2> SUFFICES ASSUME TypeOK, [Next]_vars PROVE TypeOK'
    OBVIOUS
  <2>1. ASSUME NEW url \in WorkerUrl, Inhibit(url) PROVE TypeOK'
    <3>1. now + Secs \in Nat
      BY InhibitionAssumption DEF TypeOK
    <3>2. QED
      BY <2>1, <3>1 DEF Inhibit, InhibitKey, TypeOK
  <2>2. ASSUME NEW url \in WorkerUrl, Read(url) PROVE TypeOK'
    BY <2>2 DEF Read, TypeOK
  <2>3. ASSUME Tick PROVE TypeOK'
    BY <2>3 DEF Tick, TypeOK
  <2>4. ASSUME UNCHANGED vars PROVE TypeOK'
    BY <2>4 DEF vars, TypeOK
  <2>5. QED
    BY <2>1, <2>2, <2>3, <2>4 DEF Next
<1>3. QED
  BY <1>1, <1>2, PTL DEF Spec

(* AnswersTrue is not inductive by itself: an entry must also carry the    *)
(* date the latest failure gave it, or have been dropped after that date.  *)
Dated ==
  \A h \in Host :
    IF inhibited[h] # NoExpiry
      THEN lastFailed[h] # NoExpiry /\ inhibited[h] = lastFailed[h] + Secs
      ELSE lastFailed[h] # NoExpiry => now >= lastFailed[h] + Secs

LEMMA StepDated == TypeOK /\ Dated /\ [Next]_vars => Dated'
<1> SUFFICES ASSUME TypeOK, Dated, [Next]_vars PROVE Dated'
  OBVIOUS
<1> USE InhibitionAssumption
<1>1. ASSUME NEW url \in WorkerUrl, Inhibit(url) PROVE Dated'
  <2>1. now + Secs \in Nat /\ now \in Nat /\ url.host \in Host
    BY DEF TypeOK, WorkerUrl
  <2>2. now + Secs # NoExpiry /\ now # NoExpiry
    BY <2>1
  <2>3. QED
    BY <1>1, <2>1, <2>2 DEF Inhibit, InhibitKey, TypeOK, Dated
<1>2. ASSUME NEW url \in WorkerUrl, Read(url) PROVE Dated'
  BY <1>2 DEF Read, Expired, TypeOK, Dated
<1>3. ASSUME Tick PROVE Dated'
  <2>1. ASSUME NEW h \in Host, lastFailed[h] # NoExpiry, now >= lastFailed[h] + Secs
        PROVE  now' >= lastFailed[h] + Secs
    BY <1>3, <2>1 DEF Tick, TypeOK
  <2>2. QED
    BY <1>3, <2>1 DEF Tick, Dated
<1>4. ASSUME UNCHANGED vars PROVE Dated'
  BY <1>4 DEF vars, Dated
<1>5. QED
  BY <1>1, <1>2, <1>3, <1>4 DEF Next

LEMMA InitDated == Init => Dated
  BY DEF Init, Dated

(* is_inhibited() answers True for exactly Secs after the latest failure.  *)
THEOREM AnswersAreTrue == Spec => []AnswersTrue
<1>1. TypeOK /\ Dated => AnswersTrue
  <2> SUFFICES ASSUME TypeOK, Dated, NEW h \in Host
               PROVE  IsInhibited(h) <=> lastFailed[h] # NoExpiry /\ now < lastFailed[h] + Secs
    BY DEF AnswersTrue
  <2>1. CASE inhibited[h] # NoExpiry
    BY <2>1, InhibitionAssumption DEF TypeOK, Dated, IsInhibited, Expired
  <2>2. CASE inhibited[h] = NoExpiry
    BY <2>2, InhibitionAssumption DEF TypeOK, Dated, IsInhibited, Expired
  <2>3. QED
    BY <2>1, <2>2
<1>2. QED
  BY <1>1, TypeCorrect, InitDated, StepDated, PTL DEF Spec

(* What each step does to the answers. *)
LEMMA InhibitAnswers ==
  ASSUME TypeOK, NEW url \in WorkerUrl, Inhibit(url)
  PROVE  /\ IsInhibited(url.host)'
         /\ \A h \in Host \ {url.host} : IsInhibited(h)' <=> IsInhibited(h)
<1>1. now \in Nat /\ now + Secs \in Nat /\ ~(now >= now + Secs) /\ url.host \in Host
  BY InhibitionAssumption DEF TypeOK, WorkerUrl
<1>2. now + Secs # NoExpiry
  BY <1>1, InhibitionAssumption
<1>3. QED
  BY <1>1, <1>2 DEF Inhibit, InhibitKey, IsInhibited, Expired, TypeOK

LEMMA ReadAnswers ==
  ASSUME TypeOK, NEW url \in WorkerUrl, Read(url)
  PROVE  \A h \in Host : IsInhibited(h)' <=> IsInhibited(h)
  BY DEF Read, IsInhibited, Expired, TypeOK

LEMMA TickAnswers ==
  ASSUME TypeOK, Tick
  PROVE  \A h \in Host : IsInhibited(h)' => IsInhibited(h)
<1> SUFFICES ASSUME NEW h \in Host, IsInhibited(h)' PROVE IsInhibited(h)
  OBVIOUS
<1>1. inhibited[h] # NoExpiry /\ inhibited[h] \in Nat /\ ~(now + 1 >= inhibited[h])
  BY DEF Tick, IsInhibited, Expired, TypeOK
<1>2. ~(now >= inhibited[h])
  BY <1>1 DEF TypeOK
<1>3. QED
  BY <1>1, <1>2 DEF IsInhibited, Expired

(* No read and no other worker's failure ends a quarantine. *)
THEOREM TimeAloneRestores == Spec => OnlyTimeRestores
<1> DEFINE Step == now' = now => \A h \in Host : IsInhibited(h) => IsInhibited(h)'
<1>1. TypeOK /\ [Next]_vars => [Step]_vars
  <2> SUFFICES ASSUME TypeOK, Next, now' = now, NEW h \in Host, IsInhibited(h)
               PROVE  IsInhibited(h)'
    OBVIOUS
  <2>1. ~Tick
    BY DEF Tick, TypeOK
  <2>2. PICK url \in WorkerUrl : Inhibit(url) \/ Read(url)
    BY <2>1 DEF Next
  <2>3. QED
    BY <2>2, InhibitAnswers, ReadAnswers
<1>2. Spec => [][Step]_vars
  BY <1>1, TypeCorrect, PTL DEF Spec
<1>3. QED
  BY <1>2 DEF OnlyTimeRestores

(* The table with its clock implements the quarantine set the gateway is   *)
(* modelled with.                                                          *)
THEOREM TableImplementsQuarantine == Spec => ImplementsQuarantine
<1> DEFINE Q == {h \in Host : IsInhibited(h)}
<1>1. Init => Abstract!Init
  BY DEF Init, IsInhibited, Abstract!Init
<1>2. TypeOK /\ [Next]_vars => [Abstract!Next]_{h \in Host : IsInhibited(h)}
  <2> SUFFICES ASSUME TypeOK, [Next]_vars PROVE Abstract!Next \/ Q' = Q
    OBVIOUS
  <2>1. ASSUME NEW url \in WorkerUrl, Inhibit(url) PROVE Abstract!Next
    <3>1. url.host \in Host
      BY DEF WorkerUrl
    <3>2. Q' = Q \cup {url.host}
      BY <2>1, <3>1, InhibitAnswers
    <3>3. QED
      BY <3>1, <3>2 DEF Abstract!Next, Abstract!Inhibit
  <2>2. ASSUME NEW url \in WorkerUrl, Read(url) PROVE Q' = Q
    BY <2>2, ReadAnswers
  <2>3. ASSUME Tick PROVE Abstract!Next \/ Q' = Q
    <3> DEFINE us == Q \ Q'
    <3>1. Q' \subseteq Q
      BY <2>3, TickAnswers
    <3>2. us = {} => Q' = Q
      BY <3>1
    <3>3. us \in SUBSET Host /\ us \subseteq Q /\ Q' = Q \ us
      BY <3>1
    <3>4. QED
      BY <3>2, <3>3 DEF Abstract!Next, Abstract!Expire
  <2>4. ASSUME UNCHANGED vars PROVE Q' = Q
    BY <2>4 DEF vars, IsInhibited, Expired
  <2>5. QED
    BY <2>1, <2>2, <2>3, <2>4 DEF Next
<1>3. QED
  BY <1>1, <1>2, TypeCorrect, PTL DEF Spec, ImplementsQuarantine, Abstract!Spec
==============================================================================
