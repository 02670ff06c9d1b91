---------------------------- MODULE HarnessProofs ----------------------------
(***************************************************************************)
(* Theorems about both benchmark scripts, for any number of workers and    *)
(* scenarios, whatever fails, crashes, hangs or is cancelled.              *)
(***************************************************************************)
EXTENDS Scripts, FiniteSetTheorems, TLAPS

-----------------------------------------------------------------------------
(* The inductive invariant: what both scripts have in common ...           *)

Typed ==
  /\ status \in [Proc -> Status]
  /\ procs \in Seq(Proc) /\ answered \subseteq Proc
  /\ aiperf \subseteq Elements(Scenarios)
  /\ results \in [Elements(Scenarios) -> {"none", "empty", "report"}]
  /\ k \in Nat
  /\ at \in 1 .. Len(Scenarios) + 1
  /\ raising \in BOOLEAN

Quit(p) == status[p] \in {"absent", "exited", "killed"}

(* Nothing lives, but for what SIGKILL was sent, that kill_procs would not *)
(* find.                                                                   *)
Listed == \A p \in Proc : Quit(p) \/ p \in Elements(procs)

(* kill_procs has dealt with the list up to k, and after it with all.      *)
Settled ==
  /\ pc = "kill" => \A i \in DOMAIN procs : i < k => Quit(procs[i])
  /\ pc \in Ended \cup {"cool"} => \A p \in Proc : Quit(p)

Loads == ~raising => aiperf \subseteq (IF pc = "load" THEN {Scenarios[at]} ELSE {})

Reported == \A i \in 1 .. at - 1 : results[Scenarios[i]] # "none"

Counted == /\ pc = "download" => k \in 1 .. Attempts
           /\ pc \in {"start", "wait"} => k \in 1 .. Len(Workers)
           /\ pc = "kill" => k \in 1 .. Len(procs) + 1
           /\ pc \notin {"download", "start", "wait", "kill"} => k = 1
           /\ Len(procs) <= Len(Workers) + 1

Common == Typed /\ Listed /\ Settled /\ Loads /\ Reported /\ Counted

(* ... and where each of them is.                                          *)
NanoPlace ==
  /\ pc \in {"download", "start", "wait", "gateway", "waitGateway", "scenario", "load",
             "kill", "returned", "raised"}
  /\ raising => pc \in {"kill", "raised"}
  /\ \A p \in Proc : HoldsSlot(p) => p[1] = 1
  /\ pc \in {"download", "start"} => answered = {}
  /\ pc = "wait" => answered = {<<1, Workers[i]>> : i \in 1 .. k - 1}
  /\ pc \in {"gateway", "waitGateway"} => answered = {1} \X Elements(Workers)
  /\ pc \in {"scenario", "load"} \/ aiperf # {} => answered = {1} \X Slot
  /\ pc = "download" => procs = <<>>
  /\ pc = "start" => Len(procs) = k - 1
  /\ pc \in {"wait", "gateway"} => Len(procs) = Len(Workers)
  /\ pc = "load" => at <= Len(Scenarios)
  /\ pc \in {"kill", "returned"} /\ ~raising => at > Len(Scenarios)

DynamoPlace ==
  /\ pc \in {"download", "scenario", "waitFrontend", "start", "models", "ready", "load",
             "kill", "cool", "returned", "raised"}
  /\ raising => pc \in {"kill", "cool", "raised"}
  /\ \A p \in Proc : HoldsSlot(p) => p[1] <= at /\ (p[1] = at \/ Quit(p))
  /\ pc \in {"download", "scenario", "returned"} => \A p \in Proc : Quit(p)
  /\ pc \in {"ready", "load"} =>
       /\ <<at, Frontend>> \in answered
       /\ \E w \in Elements(Workers) : <<at, w>> \in answered
  /\ pc \notin {"download", "scenario", "returned", "raised"} => at <= Len(Scenarios)
  /\ pc \in {"kill", "cool"} /\ ~raising => results[Scenarios[at]] # "none"
  /\ pc = "waitFrontend" => Len(procs) = 1
  /\ pc = "start" => Len(procs) = k
  /\ pc = "returned" => at > Len(Scenarios)

Inv == /\ Common
       /\ script \in {"nano", "dynamo"}
       /\ script = "nano" => NanoPlace
       /\ script = "dynamo" => DynamoPlace

-----------------------------------------------------------------------------
(* The constants.                                                          *)

LEMMA Shapes ==
  /\ Len(Workers) \in Nat /\ DOMAIN Workers = 1 .. Len(Workers) /\ Len(Workers) > 0
  /\ Len(Scenarios) \in Nat /\ DOMAIN Scenarios = 1 .. Len(Scenarios) /\ Len(Scenarios) > 0
  /\ \A i \in 1 .. Len(Workers) : Workers[i] \in Elements(Workers)
  /\ \A i \in 1 .. Len(Scenarios) : Scenarios[i] \in Elements(Scenarios)
  /\ \A i \in 1 .. Len(Scenarios), x \in Slot : <<i, x>> \in Proc
  /\ Elements(Workers) \subseteq Slot /\ Frontend \in Slot
<1>1. /\ Len(Workers) \in Nat /\ DOMAIN Workers = 1 .. Len(Workers)
      /\ Len(Scenarios) \in Nat /\ DOMAIN Scenarios = 1 .. Len(Scenarios)
  BY HarnessAssumption
<1>2. Len(Workers) > 0 /\ Len(Scenarios) > 0
  BY HarnessAssumption, <1>1
<1>3. QED
  BY <1>1, <1>2 DEF Elements, Slot, Proc

(* The workers' slots are as many as the workers: no two are the same. *)
LEMMA SlotCount == Cardinality(Slot) = Len(Workers) + 1
<1> DEFINE n == Len(Workers)
           S == Elements(Workers)
<1>1. n \in Nat /\ DOMAIN Workers = 1 .. n
  BY Shapes
<1>2. Workers \in Bijection(1 .. n, S)
  <2>1. Workers \in [1 .. n -> S]
    BY HarnessAssumption, <1>1 DEF Elements
  <2>2. \A i, j \in 1 .. n : Workers[i] = Workers[j] => i = j
    BY HarnessAssumption, <1>1
  <2>3. \A x \in S : \E i \in 1 .. n : Workers[i] = x
    BY <1>1 DEF Elements
  <2>4. QED
    BY <2>1, <2>2, <2>3 DEF Bijection, Injection, IsInjective, Surjection
<1>3. IsFiniteSet(1 .. n) /\ Cardinality(1 .. n) = n
  <2>1. IsFiniteSet(1 .. n) /\ Cardinality(1 .. n) = IF 1 > n THEN 0 ELSE n - 1 + 1
    BY <1>1, 1 \in Int, FS_Interval
  <2>2. QED
    BY <1>1, <2>1
<1>4. IsFiniteSet(S) /\ Cardinality(S) = n
  BY <1>2, <1>3, FS_Bijection DEF ExistsBijection
<1>5. Cardinality(S \cup {Frontend}) = n + 1
  BY <1>4, FS_AddElement, HarnessAssumption
<1>6. QED
  BY <1>5 DEF Slot

-----------------------------------------------------------------------------
(* Steps both scripts are exposed to.                                      *)

(* A process may let go, a load generator may end; nothing is taken.       *)
LEMMA FadesInv ==
  ASSUME Inv, status' \in [Proc -> Status],
         \A p \in Proc : (HoldsSlot(p)' => HoldsSlot(p)) /\ (Quit(p) => Quit(p)'),
         aiperf' \subseteq aiperf,
         UNCHANGED <<procs, answered, results, pc, k, at, raising, script>>
  PROVE  Inv'
<1>1. Typed'
  BY DEF Inv, Common, Typed
<1>2. Listed'
  BY DEF Inv, Common, Listed, Quit
<1>3. Settled'
  BY DEF Inv, Common, Settled, Typed
<1>4. Loads' /\ Reported' /\ Counted'
  BY DEF Inv, Common, Loads, Reported, Counted
<1>5. script = "nano" => NanoPlace'
  BY DEF Inv, NanoPlace
<1>6. script = "dynamo" => DynamoPlace'
  BY DEF Inv, DynamoPlace
<1>7. QED
  BY <1>1, <1>2, <1>3, <1>4, <1>5, <1>6 DEF Inv, Common

LEMMA EnvironmentInv == ASSUME Inv, Environment, UNCHANGED script PROVE Inv'
<1>1. ASSUME NEW p \in Proc, Serve(p) \/ Crash(p) \/ Obey(p) \/ Die(p) PROVE Inv'
  <2>1. PICK to \in {"serving", "exited"} :
          /\ status[p] \in {"starting", "serving", "terminating", "killed"}
          /\ to = "serving" => status[p] = "starting"
          /\ status' = [status EXCEPT ![p] = to]
          /\ UNCHANGED <<procs, answered, aiperf, results, pc, k, at, raising>>
    BY <1>1 DEF Serve, Crash, Obey, Die, Becomes
  <2>2. status \in [Proc -> Status]
    BY DEF Inv, Common, Typed
  <2>3. status' \in [Proc -> Status]
    BY <2>1, <2>2 DEF Status
  <2>4. ASSUME NEW q \in Proc
        PROVE  (HoldsSlot(q)' => HoldsSlot(q)) /\ (Quit(q) => Quit(q)')
    BY <2>1, <2>2 DEF HoldsSlot, Quit
  <2>5. QED
    BY <2>1, <2>3, <2>4, FadesInv
<1>2. ASSUME NEW s \in Elements(Scenarios), AbandonedEnds(s) PROVE Inv'
  <2>1. aiperf' \subseteq aiperf /\ UNCHANGED status
    BY <1>2 DEF AbandonedEnds
  <2>2. status' \in [Proc -> Status]
    BY <2>1 DEF Inv, Common, Typed
  <2>3. \A q \in Proc : (HoldsSlot(q)' => HoldsSlot(q)) /\ (Quit(q) => Quit(q)')
    BY <2>1 DEF HoldsSlot, Quit
  <2>4. QED
    BY <1>2, <2>1, <2>2, <2>3, FadesInv DEF AbandonedEnds
<1>3. QED
  BY <1>1, <1>2 DEF Environment

(* kill_procs signals one process of its list, or goes on to the next. *)
LEMMA KillInv ==
  ASSUME Inv, Terminate \/ HasExited \/ Escalate, UNCHANGED script
  PROVE  Inv'
<1>t. /\ status \in [Proc -> Status] /\ procs \in Seq(Proc) /\ k \in 1 .. Len(procs)
      /\ pc = "kill"
  BY DEF Inv, Common, Typed, Counted, Terminate, HasExited, Escalate
<1>p. procs[k] \in Proc /\ Len(procs) \in Nat /\ DOMAIN procs = 1 .. Len(procs)
  BY <1>t
<1>1. CASE Terminate
  <2>1. status' = [status EXCEPT ![procs[k]] = "terminating"] /\ Running(procs[k])
    BY <1>1 DEF Terminate
  <2>2. status' \in [Proc -> Status]
    BY <1>t, <1>p, <2>1 DEF Status
  <2>3. ASSUME NEW q \in Proc
        PROVE  (HoldsSlot(q)' => HoldsSlot(q)) /\ (Quit(q) => Quit(q)')
    BY <1>t, <1>p, <2>1 DEF HoldsSlot, Quit, Running
  <2>4. QED
    BY <1>1, <2>2, <2>3, FadesInv DEF Terminate
<1>2. CASE HasExited \/ Escalate
  <2>1. /\ k' = k + 1
        /\ UNCHANGED <<procs, answered, aiperf, results, pc, at, raising>>
    BY <1>2 DEF HasExited, Escalate
  <2>2. /\ status' \in [Proc -> Status]
        /\ status'[procs[k]] \in {"exited", "killed"}
        /\ \A q \in Proc : (HoldsSlot(q)' => HoldsSlot(q)) /\ (Quit(q) => Quit(q)')
    <3>1. CASE HasExited
      BY <1>t, <1>p, <3>1 DEF HasExited, HoldsSlot, Quit
    <3>2. CASE Escalate
      BY <1>t, <1>p, <3>2 DEF Escalate, HoldsSlot, Quit, Status
    <3>3. QED
      BY <1>2, <3>1, <3>2
  <2>3. Typed'
    BY <2>1, <2>2 DEF Inv, Common, Typed
  <2>4. Listed'
    BY <2>1, <2>2 DEF Inv, Common, Listed, Quit
  <2>5. Settled'
    <3>1. ASSUME NEW i \in DOMAIN procs, i < k + 1
          PROVE  status'[procs[i]] \in {"absent", "exited", "killed"}
      <4>1. CASE i < k
        <5>1. procs[i] \in Proc /\ Quit(procs[i])
          BY <1>t, <4>1 DEF Inv, Common, Settled
        <5>2. QED
          BY <2>2, <5>1 DEF Quit
      <4>2. CASE i = k
        BY <2>2, <4>2
      <4>3. QED
        BY <1>t, <1>p, <3>1, <4>1, <4>2
    <3>2. QED
      BY <1>t, <2>1, <3>1 DEF Settled, Ended, Quit
  <2>6. Loads' /\ Reported' /\ Counted'
    BY <1>t, <1>p, <2>1 DEF Inv, Common, Loads, Reported, Counted
  <2>7. script = "nano" => NanoPlace'
    BY <1>t, <2>1, <2>2 DEF Inv, NanoPlace
  <2>8. script = "dynamo" => DynamoPlace'
    BY <1>t, <2>1, <2>2 DEF Inv, DynamoPlace
  <2>9. QED
    BY <2>1, <2>3, <2>4, <2>5, <2>6, <2>7, <2>8 DEF Inv, Common
<1>3. QED
  BY <1>1, <1>2

(* When the list has been gone through, everything on it has quit, and so  *)
(* has everything there is.                                                *)
LEMMA AllQuit ==
  ASSUME Common, pc = "kill", k > Len(procs)
  PROVE  \A p \in Proc : Quit(p)
<1>1. procs \in Seq(Proc) /\ status \in [Proc -> Status] /\ k \in Nat
  BY DEF Common, Typed
<1>2. \A i \in DOMAIN procs : Quit(procs[i])
  BY <1>1 DEF Common, Settled
<1>3. QED
  BY <1>2 DEF Common, Listed, Elements, Quit

(* A process that is started is put on the list. *)
LEMMA StartListed ==
  ASSUME Typed, NEW p \in Proc, NEW list \in Seq(Proc), StartProcess(p, list),
         \A q \in Proc : Quit(q) \/ q \in Elements(list)
  PROVE  /\ status' \in [Proc -> Status] /\ procs' \in Seq(Proc)
         /\ Len(procs') = Len(list) + 1
         /\ Listed'
         /\ \A q \in Proc : HoldsSlot(q)' => HoldsSlot(q) \/ q = p
         /\ \A q \in Proc : Quit(q) => Quit(q)' \/ q = p
<1>1. status' = [status EXCEPT ![p] = "starting"] /\ procs' = Append(list, p)
  BY DEF StartProcess
<1>2. status' \in [Proc -> Status]
  BY <1>1 DEF Typed, Status
<1>3. procs' \in Seq(Proc) /\ Len(procs') = Len(list) + 1
  BY <1>1
<1>4. \A q \in Proc : HoldsSlot(q)' => HoldsSlot(q) \/ q = p
  BY <1>1 DEF Typed, HoldsSlot
<1>q. \A q \in Proc : Quit(q) => Quit(q)' \/ q = p
  BY <1>1 DEF Typed, Quit
<1>5. Elements(procs') = Elements(list) \cup {p}
  BY <1>1 DEF Elements
<1>6. QED
  BY <1>2, <1>3, <1>4, <1>q, <1>5 DEF Listed, Quit

-----------------------------------------------------------------------------
(* run_bench of nano-dynamo.                                               *)

(* What all its steps may rely on. *)
LEMMA NanoFacts ==
  ASSUME Inv, script = "nano"
  PROVE  /\ Typed /\ Listed /\ Settled /\ Loads /\ Reported /\ Counted /\ NanoPlace
         /\ Len(procs) \in Nat /\ DOMAIN procs = 1 .. Len(procs)
  BY DEF Inv, Common, Typed

(* An exception leaves for kill_procs, with whatever is on the list. *)
LEMMA NanoThrowsInv ==
  ASSUME Inv, script = "nano", UNCHANGED script, Nano!Throws, pc # "download"
  PROVE  Inv'
<1>1. /\ pc' = "kill" /\ k' = 1 /\ raising' = TRUE
      /\ UNCHANGED <<status, procs, answered, aiperf, results, at>>
  BY DEF Nano!Throws, Nano!Goto
<1>f. /\ Typed /\ Listed /\ Settled /\ Loads /\ Reported /\ Counted /\ NanoPlace
      /\ Len(procs) \in Nat /\ DOMAIN procs = 1 .. Len(procs)
  BY NanoFacts
<1>2. Typed'
  BY <1>1, <1>f DEF Typed
<1>3. Listed' /\ Settled'
  BY <1>1, <1>f DEF Listed, Settled, HoldsSlot, Quit, Ended
<1>4. Loads' /\ Reported' /\ Counted'
  BY <1>1, <1>f DEF Loads, Reported, Counted
<1>5. NanoPlace'
  BY <1>1, <1>f DEF NanoPlace, HoldsSlot
<1>6. QED
  BY <1>2, <1>3, <1>4, <1>5 DEF Inv, Common

LEMMA NanoDownloadInv ==
  ASSUME Inv, script = "nano", UNCHANGED script, Nano!Download("start", "kill")
  PROVE  Inv'
<1>1. /\ pc = "download"
      /\ \/ pc' = "start" /\ k' = 1 /\ UNCHANGED raising
         \/ k < 3 /\ k' = k + 1 /\ UNCHANGED <<pc, raising>>
         \/ pc' = "kill" /\ k' = 1 /\ raising' = TRUE
      /\ UNCHANGED <<status, procs, answered, aiperf, results, at>>
  BY DEF Nano!Download, Nano!Goto, Nano!Attempts
<1>f. /\ Typed /\ Listed /\ Settled /\ Loads /\ Reported /\ Counted /\ NanoPlace
      /\ Len(procs) \in Nat /\ DOMAIN procs = 1 .. Len(procs)
  BY NanoFacts
<1>k. k \in 1 .. 3 /\ k' \in 1 .. 3
  BY <1>1, <1>f DEF Counted, Attempts
<1>2. Typed'
  <2>1. k' \in Nat
    BY <1>k
  <2>2. raising' \in BOOLEAN
    BY <1>1, <1>f DEF Typed
  <2>3. QED
    BY <1>1, <1>f, <2>1, <2>2 DEF Typed
<1>3. Listed' /\ Settled'
  BY <1>1, <1>f DEF Listed, Settled, HoldsSlot, Quit, Ended
<1>4. Loads' /\ Reported'
  BY <1>1, <1>f DEF Loads, Reported
<1>5. Counted'
  BY <1>1, <1>f, <1>k, Shapes DEF Counted, Attempts
<1>6. NanoPlace'
  BY <1>1, <1>f DEF NanoPlace, HoldsSlot
<1>7. QED
  BY <1>2, <1>3, <1>4, <1>5, <1>6 DEF Inv, Common

(* A process of the one deployment is started and listed. *)
LEMMA NanoStartInv ==
  ASSUME Inv, script = "nano", UNCHANGED script, Nano!StartWorker \/ Nano!StartGateway
  PROVE  Inv'
<1>f. /\ Typed /\ Listed /\ Settled /\ Loads /\ Reported /\ Counted /\ NanoPlace
      /\ Len(procs) \in Nat /\ DOMAIN procs = 1 .. Len(procs)
  BY NanoFacts
<1>1. CASE Nano!Throws
  <2>1. pc # "download"
    BY DEF Nano!StartWorker, Nano!StartGateway
  <2>2. QED
    BY <1>1, <2>1, NanoThrowsInv
<1>2. ASSUME ~Nano!Throws
      PROVE  Inv'
  <2>1. PICK x \in Slot :
          /\ StartProcess(<<1, x>>, procs)
          /\ \/ /\ pc = "start" /\ k < Len(Workers) /\ k' = k + 1 /\ UNCHANGED pc
             \/ /\ pc = "start" /\ k >= Len(Workers) /\ pc' = "wait" /\ k' = 1
             \/ /\ pc = "gateway" /\ pc' = "waitGateway" /\ k' = 1
    <3>1. CASE Nano!StartWorker
      <4>1. /\ StartProcess(<<1, Workers[k]>>, procs) /\ pc = "start"
            /\ IF k < Len(Workers) THEN k' = k + 1 /\ UNCHANGED pc ELSE pc' = "wait" /\ k' = 1
        BY <1>2, <3>1 DEF Nano!StartWorker, Nano!StartProcess, StartProcess, Nano!Advance,
           Nano!Goto
      <4>2. k \in 1 .. Len(Workers)
        BY <1>f, <4>1 DEF Counted
      <4>3. Workers[k] \in Slot
        BY <4>2, Shapes
      <4>4. QED
        BY <4>1, <4>2, <4>3, Shapes
    <3>2. CASE Nano!StartGateway
      BY <1>2, <3>2, Shapes DEF Nano!StartGateway, Nano!StartProcess, StartProcess, Nano!Goto
    <3>3. QED
      BY <3>1, <3>2
  <2>2. <<1, x>> \in Proc
    BY <2>1, Shapes
  <2>3. /\ status' \in [Proc -> Status] /\ procs' \in Seq(Proc)
        /\ Len(procs') = Len(procs) + 1
        /\ Listed'
        /\ \A q \in Proc : HoldsSlot(q)' => HoldsSlot(q) \/ q = <<1, x>>
    <3>1. procs \in Seq(Proc) /\ \A q \in Proc : Quit(q) \/ q \in Elements(procs)
      BY <1>f DEF Typed, Listed, Quit
    <3>2. QED
      BY <1>f, <2>1, <2>2, <3>1, StartListed
  <2>4. UNCHANGED <<answered, aiperf, results, at, raising>>
    BY <2>1 DEF StartProcess
  <2>k. k' \in Nat /\ k \in Nat
    BY <1>f, <2>1 DEF Typed
  <2>5. Typed'
    BY <1>f, <2>3, <2>4, <2>k DEF Typed
  <2>6. Settled'
    BY <1>f, <2>1 DEF Settled, Ended
  <2>7. Loads' /\ Reported'
    BY <1>f, <2>1, <2>4 DEF Loads, Reported
  <2>8. Counted'
    <3>1. CASE pc = "start"
      <4>1. Len(procs) = k - 1 /\ k \in 1 .. Len(Workers)
        BY <1>f, <3>1 DEF NanoPlace, Counted
      <4>2. QED
        BY <2>1, <2>3, <3>1, <4>1, Shapes DEF Counted
    <3>2. CASE pc = "gateway"
      <4>1. Len(procs) = Len(Workers)
        BY <1>f, <3>2 DEF NanoPlace
      <4>2. QED
        BY <2>1, <2>3, <3>2, <4>1, Shapes DEF Counted
    <3>3. QED
      BY <2>1, <3>1, <3>2
  <2>9. NanoPlace'
    <3>1. \A q \in Proc : HoldsSlot(q)' => q[1] = 1
      BY <1>f, <2>3 DEF NanoPlace
    <3>2. ~raising /\ aiperf = {}
      BY <1>f, <2>1 DEF NanoPlace, Loads
    <3>3. CASE pc = "start"
      <4>1. Len(procs) = k - 1 /\ k \in 1 .. Len(Workers) /\ answered = {}
        BY <1>f, <3>3 DEF NanoPlace, Counted
      <4>2. pc' = "wait" => Len(procs') = Len(Workers) /\ k' = 1 /\ 1 .. k' - 1 = {}
        <5>1. pc' = "wait" => k >= Len(Workers) /\ k' = 1
          BY <2>1, <3>3
        <5>2. k >= Len(Workers) => Len(procs) + 1 = Len(Workers)
          <6>1. k \in 1 .. Len(Workers) /\ Len(Workers) \in Nat
            BY <4>1, Shapes
          <6>2. Len(procs) = k - 1
            BY <4>1
          <6>3. QED
            BY <6>1, <6>2
        <5>3. 1 .. 1 - 1 = {}
          OBVIOUS
        <5>4. QED
          BY <2>3, <5>1, <5>2, <5>3
      <4>3. pc' = "start" => Len(procs') = k' - 1
        BY <2>1, <2>3, <3>3, <4>1, Shapes
      <4>4. QED
        BY <2>1, <2>4, <3>1, <3>2, <3>3, <4>1, <4>2, <4>3 DEF NanoPlace
    <3>4. CASE pc = "gateway"
      BY <1>f, <2>1, <2>4, <3>1, <3>2, <3>4 DEF NanoPlace
    <3>5. QED
      BY <2>1, <3>3, <3>4
  <2>10. QED
    BY <2>3, <2>5, <2>6, <2>7, <2>8, <2>9 DEF Inv, Common
<1>3. QED
  BY <1>1, <1>2

(* A poll that is answered. *)
LEMMA NanoWaitInv ==
  ASSUME Inv, script = "nano", UNCHANGED script, Nano!WaitForWorker \/ Nano!WaitForGateway
  PROVE  Inv'
<1>f. /\ Typed /\ Listed /\ Settled /\ Loads /\ Reported /\ Counted /\ NanoPlace
      /\ Len(procs) \in Nat /\ DOMAIN procs = 1 .. Len(procs)
  BY NanoFacts
<1>1. CASE Nano!Throws
  <2>1. pc # "download"
    BY DEF Nano!WaitForWorker, Nano!WaitForGateway
  <2>2. QED
    BY <1>1, <2>1, NanoThrowsInv
<1>2. ASSUME ~Nano!Throws
      PROVE  Inv'
  <2>1. /\ UNCHANGED <<status, procs, aiperf, results, at, raising>>
        /\ \/ /\ pc = "wait" /\ answered' = answered \cup {<<1, Workers[k]>>}
              /\ IF k < Len(Workers) THEN k' = k + 1 /\ UNCHANGED pc
                                     ELSE pc' = "gateway" /\ k' = 1
           \/ /\ pc = "waitGateway" /\ answered' = answered \cup {<<1, Frontend>>}
              /\ pc' = "scenario" /\ k' = 1
    BY <1>2 DEF Nano!WaitForWorker, Nano!WaitForGateway, Nano!Answers, Nano!Advance, Nano!Goto
  <2>2. ~raising /\ aiperf = {}
    BY <1>f, <2>1 DEF NanoPlace, Loads
  <2>k. k \in Nat /\ k' \in Nat /\ (pc = "wait" => k \in 1 .. Len(Workers))
    BY <1>f, <2>1 DEF Typed, Counted
  <2>3. answered' \subseteq Proc
    BY <1>f, <2>1, <2>k, Shapes DEF Typed
  <2>4. Typed'
    BY <1>f, <2>1, <2>k, <2>3 DEF Typed
  <2>5. Listed' /\ Settled'
    BY <1>f, <2>1 DEF Listed, Settled, HoldsSlot, Quit, Ended
  <2>6. Loads' /\ Reported'
    BY <1>f, <2>1, <2>2 DEF Loads, Reported
  <2>7. Counted'
    <3>1. \A w \in Nat : pc = "wait" /\ k < w => k + 1 \in 1 .. w
      BY <2>k
    <3>2. QED
      BY <1>f, <2>1, <2>k, <3>1, Shapes DEF Counted
  <2>8. NanoPlace'
    <3>1. CASE pc = "wait"
      <4>1. answered' = {<<1, Workers[i]>> : i \in 1 .. k}
        <5>1. 1 .. k = (1 .. k - 1) \cup {k}
          BY <2>k, <3>1
        <5>2. QED
          BY <1>f, <2>1, <3>1, <5>1 DEF NanoPlace
      <4>2. CASE k < Len(Workers)
        <5>1. k' - 1 = k /\ pc' = "wait"
          BY <2>1, <2>k, <3>1, <4>2
        <5>2. QED
          BY <1>f, <2>1, <2>2, <3>1, <4>1, <5>1 DEF NanoPlace, HoldsSlot
      <4>3. CASE ~(k < Len(Workers))
        <5>0. pc' = "gateway"
          BY <2>1, <3>1, <4>3
        <5>1. k = Len(Workers)
          <6>1. k \in 1 .. Len(Workers) /\ Len(Workers) \in Nat
            BY <2>k, <3>1, Shapes
          <6>2. QED
            BY <4>3, <6>1
        <5>2. answered' = {1} \X Elements(Workers)
          BY <4>1, <5>1, Shapes DEF Elements
        <5>3. QED
          BY <1>f, <2>1, <2>2, <3>1, <5>0, <5>2 DEF NanoPlace, HoldsSlot
      <4>4. QED
        BY <4>2, <4>3
    <3>2. CASE pc = "waitGateway"
      <4>1. answered' = {1} \X Slot
        BY <1>f, <2>1, <3>2 DEF NanoPlace, Slot
      <4>2. QED
        BY <1>f, <2>1, <2>2, <3>2, <4>1 DEF NanoPlace, HoldsSlot
    <3>3. QED
      BY <2>1, <3>1, <3>2
  <2>9. QED
    BY <2>4, <2>5, <2>6, <2>7, <2>8 DEF Inv, Common
<1>3. QED
  BY <1>1, <1>2

(* A scenario's load is started, and ends with an entry. *)
LEMMA NanoScenarioInv ==
  ASSUME Inv, script = "nano", UNCHANGED script,
         \/ Nano!RunScenario \/ Nano!EndScenario \/ Nano!ReportUnreadable \/ Nano!Cancel
         \/ Nano!ScenariosDone
  PROVE  Inv'
<1>f. /\ Typed /\ Listed /\ Settled /\ Loads /\ Reported /\ Counted /\ NanoPlace
      /\ Len(procs) \in Nat /\ DOMAIN procs = 1 .. Len(procs)
  BY NanoFacts
<1>a. at \in 1 .. Len(Scenarios) + 1 /\ Len(Scenarios) \in Nat
  BY <1>f, Shapes DEF Typed
<1>0. CASE Nano!Throws
  <2>1. pc # "download"
    BY <1>f DEF Nano!RunScenario, Nano!EndScenario, Nano!ReportUnreadable, Nano!Cancel,
       Nano!ScenariosDone, Nano!LoadEnds
  <2>2. QED
    BY <1>0, <2>1, NanoThrowsInv
<1>1. CASE Nano!RunScenario /\ ~Nano!Throws
  <2>1. /\ pc = "scenario" /\ at <= Len(Scenarios)
        /\ aiperf' = aiperf \cup {Scenarios[at]}
        /\ pc' = "load" /\ k' = 1
        /\ UNCHANGED <<status, procs, answered, results, at, raising>>
    BY <1>1 DEF Nano!RunScenario, Nano!StartLoad, Nano!Goto
  <2>2. Scenarios[at] \in Elements(Scenarios)
    <3>1. at \in 1 .. Len(Scenarios)
      BY <1>a, <2>1
    <3>2. QED
      BY <3>1, Shapes
  <2>3. Typed'
    BY <1>f, <2>1, <2>2 DEF Typed
  <2>4. Listed' /\ Settled'
    BY <1>f, <2>1 DEF Listed, Settled, HoldsSlot, Quit, Ended
  <2>5. Loads' /\ Reported' /\ Counted'
    BY <1>f, <2>1 DEF Loads, Reported, Counted
  <2>6. NanoPlace'
    BY <1>f, <2>1 DEF NanoPlace, HoldsSlot
  <2>7. QED
    BY <2>3, <2>4, <2>5, <2>6 DEF Inv, Common
<1>2. CASE Nano!EndScenario
  <2>1. /\ pc = "load" /\ at \in 1 .. Len(Scenarios)
        /\ aiperf' = aiperf \ {Scenarios[at]}
        /\ pc' = "scenario" /\ k' = 1 /\ at' = at + 1
        /\ UNCHANGED <<status, procs, answered, raising>>
    BY <1>2, <1>f, <1>a DEF Nano!EndScenario, Nano!LoadEnds, Nano!Goto, NanoPlace
  <2>2. PICK result \in {"report", "empty"} :
          results' = [results EXCEPT ![Scenarios[at]] = result]
    BY <1>2 DEF Nano!EndScenario, Nano!LoadEnds
  <2>3. ~raising /\ aiperf' = {}
    BY <1>f, <2>1 DEF NanoPlace, Loads
  <2>4. Typed'
    <3>1. results' \in [Elements(Scenarios) -> {"none", "empty", "report"}]
      BY <1>f, <2>2 DEF Typed
    <3>2. at' \in 1 .. Len(Scenarios) + 1
      BY <1>a, <2>1
    <3>3. QED
      BY <1>f, <2>1, <2>3, <3>1, <3>2 DEF Typed
  <2>5. Listed' /\ Settled'
    BY <1>f, <2>1 DEF Listed, Settled, HoldsSlot, Quit, Ended
  <2>6. Reported'
    <3> SUFFICES ASSUME NEW i \in 1 .. at PROVE results'[Scenarios[i]] # "none"
      BY <2>1, <1>a DEF Reported
    <3>1. Scenarios[at] \in DOMAIN results /\ Scenarios[i] \in DOMAIN results
      <4>1. i \in 1 .. Len(Scenarios)
        BY <1>a, <2>1
      <4>2. QED
        BY <1>f, <2>1, <4>1, Shapes DEF Typed
    <3>2. CASE i = at
      BY <2>2, <3>1, <3>2
    <3>3. CASE i # at
      <4>1. i \in 1 .. at - 1
        BY <1>a, <3>3
      <4>2. results[Scenarios[i]] # "none"
        BY <1>f, <4>1 DEF Reported
      <4>3. QED
        BY <2>2, <3>1, <4>2
    <3>4. QED
      BY <3>2, <3>3
  <2>7. Loads' /\ Counted'
    BY <1>f, <2>1, <2>3 DEF Loads, Counted
  <2>8. NanoPlace'
    BY <1>f, <2>1, <2>3 DEF NanoPlace, HoldsSlot
  <2>9. QED
    BY <2>4, <2>5, <2>6, <2>7, <2>8 DEF Inv, Common
<1>3. CASE Nano!ReportUnreadable
  <2>1. /\ pc = "load" /\ pc' = "kill" /\ k' = 1 /\ raising' = TRUE
        /\ aiperf' \subseteq aiperf
        /\ UNCHANGED <<status, procs, answered, results, at>>
    BY <1>3 DEF Nano!ReportUnreadable, Nano!Goto
  <2>2. Typed'
    BY <1>f, <2>1 DEF Typed
  <2>3. Listed' /\ Settled'
    BY <1>f, <2>1 DEF Listed, Settled, HoldsSlot, Quit, Ended
  <2>4. Loads' /\ Reported' /\ Counted'
    BY <1>f, <2>1 DEF Loads, Reported, Counted
  <2>5. NanoPlace'
    BY <1>f, <2>1 DEF NanoPlace, HoldsSlot
  <2>6. QED
    BY <2>2, <2>3, <2>4, <2>5 DEF Inv, Common
<1>4. CASE Nano!ScenariosDone
  <2>1. /\ pc = "scenario" /\ at > Len(Scenarios) /\ pc' = "kill" /\ k' = 1
        /\ UNCHANGED <<status, procs, answered, aiperf, results, at, raising>>
    BY <1>4 DEF Nano!ScenariosDone, Nano!Goto
  <2>2. Typed'
    BY <1>f, <2>1 DEF Typed
  <2>3. Listed' /\ Settled'
    BY <1>f, <2>1 DEF Listed, Settled, HoldsSlot, Quit, Ended
  <2>4. Loads' /\ Reported' /\ Counted'
    BY <1>f, <2>1 DEF Loads, Reported, Counted
  <2>5. NanoPlace'
    BY <1>f, <2>1 DEF NanoPlace, HoldsSlot
  <2>6. QED
    BY <2>2, <2>3, <2>4, <2>5 DEF Inv, Common
<1>5. QED
  BY <1>0, <1>1, <1>2, <1>3, <1>4 DEF Nano!Cancel

(* kill_procs, and the way out. *)
LEMMA NanoKillInv ==
  ASSUME Inv, script = "nano", UNCHANGED script,
         Nano!KillProcs(IF raising THEN "raised" ELSE "returned")
  PROVE  Inv'
<1>f. /\ Typed /\ Listed /\ Settled /\ Loads /\ Reported /\ Counted /\ NanoPlace
      /\ Len(procs) \in Nat /\ DOMAIN procs = 1 .. Len(procs)
  BY NanoFacts
<1>1. CASE Terminate \/ HasExited \/ Escalate
  BY <1>1, KillInv
<1>2. CASE ~(Terminate \/ HasExited \/ Escalate)
  <2>1. /\ pc = "kill" /\ k > Len(procs)
        /\ pc' = (IF raising THEN "raised" ELSE "returned") /\ k' = 1
        /\ UNCHANGED <<status, procs, answered, aiperf, results, at, raising>>
    BY <1>2 DEF Nano!KillProcs, Nano!Terminate, Nano!HasExited, Nano!Escalate, Nano!Running,
       Nano!Goto, Terminate, HasExited, Escalate, Running
  <2>2. \A p \in Proc : Quit(p)
    BY <2>1, AllQuit DEF Inv
  <2>3. Typed'
    BY <1>f, <2>1 DEF Typed
  <2>4. Listed' /\ Settled'
    BY <1>f, <2>1, <2>2 DEF Listed, Settled, HoldsSlot, Quit
  <2>5. Loads' /\ Reported' /\ Counted'
    BY <1>f, <2>1 DEF Loads, Reported, Counted
  <2>6. NanoPlace'
    <3>1. CASE raising
      BY <1>f, <2>1, <3>1 DEF NanoPlace, HoldsSlot
    <3>2. CASE ~raising
      BY <1>f, <2>1, <3>2 DEF NanoPlace, HoldsSlot
    <3>3. QED
      BY <3>1, <3>2
  <2>7. QED
    BY <2>3, <2>4, <2>5, <2>6 DEF Inv, Common
<1>3. QED
  BY <1>1, <1>2

LEMMA NanoInv == ASSUME Inv, script = "nano", UNCHANGED script, Nano!Step PROVE Inv'
  BY NanoDownloadInv, NanoStartInv, NanoWaitInv, NanoScenarioInv, NanoKillInv DEF Nano!Step

-----------------------------------------------------------------------------
(* run_benchmark of Dynamo.                                                *)

LEMMA DynamoFacts ==
  ASSUME Inv, script = "dynamo"
  PROVE  /\ Typed /\ Listed /\ Settled /\ Loads /\ Reported /\ Counted /\ DynamoPlace
         /\ Len(procs) \in Nat /\ DOMAIN procs = 1 .. Len(procs)
         /\ at \in 1 .. Len(Scenarios) + 1 /\ Len(Scenarios) \in Nat
         /\ at <= Len(Scenarios) =>
              Scenarios[at] \in Elements(Scenarios) /\ \A x \in Slot : <<at, x>> \in Proc
<1>1. /\ Typed /\ Listed /\ Settled /\ Loads /\ Reported /\ Counted /\ DynamoPlace
      /\ Len(procs) \in Nat /\ DOMAIN procs = 1 .. Len(procs)
  BY DEF Inv, Common, Typed
<1>2. at \in 1 .. Len(Scenarios) + 1 /\ Len(Scenarios) \in Nat
  BY <1>1, Shapes DEF Typed
<1>3. at <= Len(Scenarios) => at \in 1 .. Len(Scenarios)
  BY <1>2
<1>4. QED
  BY <1>1, <1>2, <1>3, Shapes

(* An entry for the scenario at hand spoils none that is there. *)
LEMMA EntryKeepsReported ==
  ASSUME Typed, Reported, at <= Len(Scenarios), NEW result \in {"report", "empty"},
         results' = [results EXCEPT ![Scenarios[at]] = result], UNCHANGED at
  PROVE  /\ results' \in [Elements(Scenarios) -> {"none", "empty", "report"}]
         /\ Reported' /\ results'[Scenarios[at]] # "none"
<1>1. at \in 1 .. Len(Scenarios) /\ Len(Scenarios) \in Nat
  BY Shapes DEF Typed
<1>2. \A i \in 1 .. at : Scenarios[i] \in Elements(Scenarios)
  <2>1. \A i \in 1 .. at : i \in 1 .. Len(Scenarios)
    BY <1>1
  <2>2. QED
    BY <2>1, Shapes
<1>3. results' \in [Elements(Scenarios) -> {"none", "empty", "report"}]
  BY DEF Typed
<1>4. results'[Scenarios[at]] # "none"
  BY <1>1, <1>2 DEF Typed
<1>5. ASSUME NEW i \in 1 .. at - 1 PROVE results'[Scenarios[i]] # "none"
  <2>1. i \in 1 .. at
    BY <1>1
  <2>2. Scenarios[i] \in DOMAIN results /\ results[Scenarios[i]] # "none"
    BY <1>2, <2>1 DEF Typed, Reported
  <2>3. QED
    BY <2>2
<1>6. QED
  BY <1>3, <1>4, <1>5 DEF Reported

LEMMA DynamoDownloadInv ==
  ASSUME Inv, script = "dynamo", UNCHANGED script, Dynamo!Download("scenario", "raised")
  PROVE  Inv'
<1>1. /\ pc = "download"
      /\ \/ pc' = "scenario" /\ k' = 1 /\ UNCHANGED raising
         \/ k < 3 /\ k' = k + 1 /\ UNCHANGED <<pc, raising>>
         \/ pc' = "raised" /\ k' = 1 /\ raising' = TRUE
      /\ UNCHANGED <<status, procs, answered, aiperf, results, at>>
  BY DEF Dynamo!Download, Dynamo!Goto, Dynamo!Attempts
<1>f. /\ Typed /\ Listed /\ Settled /\ Loads /\ Reported /\ Counted /\ DynamoPlace
  BY DynamoFacts
<1>k. k \in 1 .. 3 /\ k' \in 1 .. 3
  BY <1>1, <1>f DEF Counted, Attempts
<1>2. Typed'
  <2>1. k' \in Nat
    BY <1>k
  <2>2. raising' \in BOOLEAN
    BY <1>1, <1>f DEF Typed
  <2>3. QED
    BY <1>1, <1>f, <2>1, <2>2 DEF Typed
<1>3. Listed'
  BY <1>1, <1>f DEF Listed, HoldsSlot, Quit
<1>4. Settled'
  <2>1. \A p \in Proc : Quit(p)
    BY <1>1, <1>f DEF DynamoPlace, HoldsSlot, Quit
  <2>2. QED
    BY <1>1, <2>1 DEF Settled, Quit, Ended
<1>5. Loads' /\ Reported'
  BY <1>1, <1>f DEF Loads, Reported
<1>6. Counted'
  BY <1>1, <1>f, <1>k DEF Counted, Attempts
<1>7. DynamoPlace'
  BY <1>1, <1>f DEF DynamoPlace, HoldsSlot, Quit
<1>8. QED
  BY <1>2, <1>3, <1>4, <1>5, <1>6, <1>7 DEF Inv, Common

(* A failure costs the scenario at hand its report, and cleans up. *)
LEMMA DynamoFailsInv ==
  ASSUME Inv, script = "dynamo", UNCHANGED script,
         pc \in {"waitFrontend", "start", "models", "ready"}, Dynamo!Fails
  PROVE  Inv'
<1>1. /\ pc' = "kill" /\ k' = 1
      /\ results' = [results EXCEPT ![Scenarios[at]] = "empty"]
      /\ UNCHANGED <<status, procs, answered, aiperf, at, raising>>
  BY DEF Dynamo!Fails, Dynamo!Goto
<1>f. /\ Typed /\ Listed /\ Settled /\ Loads /\ Reported /\ Counted /\ DynamoPlace
      /\ Len(procs) \in Nat /\ DOMAIN procs = 1 .. Len(procs)
  BY DynamoFacts
<1>r. /\ results' \in [Elements(Scenarios) -> {"none", "empty", "report"}]
      /\ Reported' /\ results'[Scenarios[at]] # "none"
  BY <1>1, <1>f, EntryKeepsReported DEF DynamoPlace
<1>2. Typed'
  BY <1>1, <1>f, <1>r DEF Typed
<1>3. Listed' /\ Settled'
  BY <1>1, <1>f DEF Listed, Settled, HoldsSlot, Quit, Ended
<1>4. Loads' /\ Counted'
  BY <1>1, <1>f DEF Loads, Counted
<1>5. DynamoPlace'
  BY <1>1, <1>f, <1>r DEF DynamoPlace, HoldsSlot, Quit
<1>6. QED
  BY <1>2, <1>3, <1>4, <1>5, <1>r DEF Inv, Common

(* The frontend of a new deployment: of the ones before, nothing is left   *)
(* but what SIGKILL was sent.                                              *)
LEMMA DynamoFrontendInv ==
  ASSUME Inv, script = "dynamo", UNCHANGED script, Dynamo!StartFrontend
  PROVE  Inv'
<1>f. /\ Typed /\ Listed /\ Settled /\ Loads /\ Reported /\ Counted /\ DynamoPlace
  BY DynamoFacts
<1>a. /\ pc = "scenario" /\ at <= Len(Scenarios) /\ <<at, Frontend>> \in Proc
      /\ \A p \in Proc : Quit(p) /\ (HoldsSlot(p) => p[1] <= at)
  BY <1>f, DynamoFacts, Shapes DEF Dynamo!StartFrontend, DynamoPlace
<1>b. ~raising /\ aiperf = {} /\ k = 1
  BY <1>a, <1>f DEF DynamoPlace, Loads, Counted
<1>1. CASE StartProcess(<<at, Frontend>>, <<>>) /\ pc' = "waitFrontend" /\ k' = 1
  <2>1. /\ status' \in [Proc -> Status] /\ procs' \in Seq(Proc) /\ Len(procs') = 1 /\ Listed'
        /\ \A q \in Proc : HoldsSlot(q)' => HoldsSlot(q) \/ q = <<at, Frontend>>
        /\ \A q \in Proc : Quit(q)' \/ q = <<at, Frontend>>
    <3>1. <<>> \in Seq(Proc) /\ Len(<<>>) + 1 = 1
      OBVIOUS
    <3>2. QED
      BY <1>1, <1>a, <1>f, <3>1, StartListed
  <2>2. UNCHANGED <<answered, aiperf, results, at, raising>>
    BY <1>1 DEF StartProcess
  <2>3. Typed'
    BY <1>1, <1>f, <2>1, <2>2 DEF Typed
  <2>4. Settled' /\ Loads' /\ Reported'
    BY <1>1, <1>b, <1>f, <2>2 DEF Settled, Ended, Loads, Reported
  <2>5. Counted'
    BY <1>1, <2>1, Shapes DEF Counted
  <2>6. DynamoPlace'
    <3>1. at \in Nat
      BY <1>f, DynamoFacts
    <3>2. ASSUME NEW q \in Proc, HoldsSlot(q)'
          PROVE  q[1] <= at' /\ (q[1] = at' \/ Quit(q)')
      <4>1. CASE q = <<at, Frontend>>
        BY <2>2, <3>1, <4>1
      <4>2. CASE q # <<at, Frontend>>
        BY <1>a, <2>1, <2>2, <3>2, <4>2
      <4>3. QED
        BY <4>1, <4>2
    <3>3. QED
      BY <1>1, <1>a, <1>b, <2>1, <2>2, <3>2 DEF DynamoPlace
  <2>7. QED
    BY <2>1, <2>3, <2>4, <2>5, <2>6 DEF Inv, Common
<1>2. CASE /\ procs' = <<>> /\ pc' = "kill" /\ k' = 1
           /\ results' = [results EXCEPT ![Scenarios[at]] = "empty"]
           /\ UNCHANGED <<status, answered, aiperf, at, raising>>
  <2>r. /\ results' \in [Elements(Scenarios) -> {"none", "empty", "report"}]
        /\ Reported' /\ results'[Scenarios[at]] # "none"
    BY <1>2, <1>a, <1>f, EntryKeepsReported
  <2>1. procs' \in Seq(Proc) /\ Len(procs') = 0
    BY <1>2
  <2>2. Typed'
    BY <1>2, <1>f, <2>1, <2>r DEF Typed
  <2>3. Listed' /\ Settled'
    BY <1>2, <1>a DEF Listed, Settled, HoldsSlot, Quit, Ended
  <2>4. Loads'
    BY <1>2, <1>b DEF Loads
  <2>5. Counted'
    BY <1>2, <2>1, Shapes DEF Counted
  <2>6. DynamoPlace'
    BY <1>2, <1>a, <1>b, <2>r DEF DynamoPlace, HoldsSlot, Quit
  <2>7. QED
    BY <2>2, <2>3, <2>4, <2>5, <2>6, <2>r DEF Inv, Common
<1>3. QED
  BY <1>1, <1>2 DEF Dynamo!StartFrontend, Dynamo!StartProcess, StartProcess, Dynamo!Goto

LEMMA DynamoStartInv ==
  ASSUME Inv, script = "dynamo", UNCHANGED script, Dynamo!StartWorker
  PROVE  Inv'
<1>f. /\ Typed /\ Listed /\ Settled /\ Loads /\ Reported /\ Counted /\ DynamoPlace
      /\ Len(procs) \in Nat /\ DOMAIN procs = 1 .. Len(procs)
  BY DynamoFacts
<1>a. pc = "start" /\ at <= Len(Scenarios) /\ k \in 1 .. Len(Workers) /\ Len(procs) = k
      /\ Len(Workers) \in Nat /\ ~raising /\ aiperf = {}
  BY <1>f, Shapes DEF Dynamo!StartWorker, DynamoPlace, Counted, Loads
<1>1. CASE Dynamo!Fails
  BY <1>1, <1>a, DynamoFailsInv
<1>2. CASE ~Dynamo!Fails
  <2>1. /\ StartProcess(<<at, Workers[k]>>, procs)
        /\ IF k < Len(Workers) THEN k' = k + 1 /\ UNCHANGED pc ELSE pc' = "models" /\ k' = 1
    BY <1>2 DEF Dynamo!StartWorker, Dynamo!StartProcess, StartProcess, Dynamo!Advance,
       Dynamo!Goto
  <2>2. <<at, Workers[k]>> \in Proc
    BY <1>a, DynamoFacts, Shapes
  <2>3. /\ status' \in [Proc -> Status] /\ procs' \in Seq(Proc)
        /\ Len(procs') = k + 1
        /\ Listed'
        /\ \A q \in Proc : HoldsSlot(q)' => HoldsSlot(q) \/ q = <<at, Workers[k]>>
        /\ \A q \in Proc : Quit(q) => Quit(q)' \/ q = <<at, Workers[k]>>
    <3>1. procs \in Seq(Proc) /\ \A q \in Proc : Quit(q) \/ q \in Elements(procs)
      BY <1>f DEF Typed, Listed, Quit
    <3>2. QED
      BY <1>a, <1>f, <2>1, <2>2, <3>1, StartListed
  <2>4. UNCHANGED <<answered, aiperf, results, at, raising>>
    BY <2>1 DEF StartProcess
  <2>5. /\ k' \in Nat /\ pc' \in {"start", "models"}
        /\ pc' = "start" => k' = k + 1 /\ k' \in 1 .. Len(Workers)
        /\ pc' = "models" => k' = 1
    <3>1. CASE k < Len(Workers)
      <4>1. k' = k + 1 /\ pc' = "start"
        BY <1>a, <2>1, <3>1
      <4>2. k + 1 \in 1 .. Len(Workers)
        BY <1>a, <3>1
      <4>3. QED
        BY <4>1, <4>2
    <3>2. CASE ~(k < Len(Workers))
      BY <1>a, <2>1, <3>2
    <3>3. QED
      BY <3>1, <3>2
  <2>6. Typed'
    BY <1>f, <2>3, <2>4, <2>5 DEF Typed
  <2>7. Settled' /\ Loads' /\ Reported'
    BY <1>a, <1>f, <2>4, <2>5 DEF Settled, Ended, Loads, Reported
  <2>8. Counted'
    <3>1. k + 1 <= Len(Workers) + 1
      BY <1>a
    <3>2. QED
      BY <2>3, <2>5, <3>1 DEF Counted
  <2>9. DynamoPlace'
    <3>0. at \in Nat
      BY <1>f, DynamoFacts
    <3>1. ASSUME NEW q \in Proc, HoldsSlot(q)'
          PROVE  q[1] <= at' /\ (q[1] = at' \/ Quit(q)')
      <4>1. CASE q = <<at, Workers[k]>>
        BY <2>4, <3>0, <4>1
      <4>2. CASE q # <<at, Workers[k]>>
        BY <1>f, <2>3, <2>4, <3>1, <4>2 DEF DynamoPlace
      <4>3. QED
        BY <4>1, <4>2
    <3>2. QED
      BY <1>a, <1>f, <2>3, <2>4, <2>5, <3>1 DEF DynamoPlace
  <2>10. QED
    BY <2>3, <2>6, <2>7, <2>8, <2>9 DEF Inv, Common
<1>3. QED
  BY <1>1, <1>2

(* Polls that are answered, and the load behind them. *)
LEMMA DynamoWaitInv ==
  ASSUME Inv, script = "dynamo", UNCHANGED script,
         Dynamo!WaitForFrontend \/ Dynamo!WaitForModels \/ Dynamo!RunAiperf
  PROVE  Inv'
<1>f. /\ Typed /\ Listed /\ Settled /\ Loads /\ Reported /\ Counted /\ DynamoPlace
      /\ Len(procs) \in Nat /\ DOMAIN procs = 1 .. Len(procs)
  BY DynamoFacts
<1>a. pc \in {"waitFrontend", "models", "ready"} /\ at <= Len(Scenarios)
      /\ ~raising /\ aiperf = {} /\ k = 1
  BY <1>f DEF Dynamo!WaitForFrontend, Dynamo!WaitForModels, Dynamo!RunAiperf, DynamoPlace,
     Loads, Counted
<1>b. Scenarios[at] \in Elements(Scenarios) /\ \A x \in Slot : <<at, x>> \in Proc
  BY <1>a, DynamoFacts
<1>1. CASE Dynamo!Fails
  BY <1>1, <1>a, DynamoFailsInv
<1>2. CASE Dynamo!WaitForFrontend /\ ~Dynamo!Fails
  <2>1. /\ pc = "waitFrontend" /\ pc' = "start" /\ k' = 1
        /\ answered' = answered \cup {<<at, Frontend>>}
        /\ UNCHANGED <<status, procs, aiperf, results, at, raising>>
    BY <1>2 DEF Dynamo!WaitForFrontend, Dynamo!Answers, Dynamo!Goto
  <2>2. Typed'
    BY <1>b, <1>f, <2>1, Shapes DEF Typed
  <2>3. Listed' /\ Settled'
    BY <1>f, <2>1 DEF Listed, Settled, HoldsSlot, Quit, Ended
  <2>4. Loads' /\ Reported'
    BY <1>a, <1>f, <2>1 DEF Loads, Reported
  <2>5. Counted'
    BY <1>f, <2>1, Shapes DEF Counted
  <2>6. DynamoPlace'
    BY <1>a, <1>f, <2>1 DEF DynamoPlace, HoldsSlot, Quit
  <2>7. QED
    BY <2>2, <2>3, <2>4, <2>5, <2>6 DEF Inv, Common
<1>3. CASE Dynamo!WaitForModels /\ ~Dynamo!Fails
  <2>1. PICK w \in Elements(Workers) :
          /\ pc = "models" /\ pc' = "ready" /\ k' = 1
          /\ answered' = answered \cup {<<at, Frontend>>, <<at, w>>}
          /\ UNCHANGED <<status, procs, aiperf, results, at, raising>>
    BY <1>3 DEF Dynamo!WaitForModels, Dynamo!Answers, Dynamo!Goto, Dynamo!Elements, Elements
  <2>2. Typed'
    BY <1>b, <1>f, <2>1, Shapes DEF Typed
  <2>3. Listed' /\ Settled'
    BY <1>f, <2>1 DEF Listed, Settled, HoldsSlot, Quit, Ended
  <2>4. Loads' /\ Reported' /\ Counted'
    BY <1>a, <1>f, <2>1 DEF Loads, Reported, Counted
  <2>5. DynamoPlace'
    BY <1>a, <1>f, <2>1 DEF DynamoPlace, HoldsSlot, Quit
  <2>6. QED
    BY <2>2, <2>3, <2>4, <2>5 DEF Inv, Common
<1>4. CASE Dynamo!RunAiperf /\ ~Dynamo!Fails
  <2>1. /\ pc = "ready" /\ pc' = "load" /\ k' = 1
        /\ aiperf' = aiperf \cup {Scenarios[at]}
        /\ UNCHANGED <<status, procs, answered, results, at, raising>>
    BY <1>4 DEF Dynamo!RunAiperf, Dynamo!StartLoad, Dynamo!Goto
  <2>2. Typed'
    BY <1>b, <1>f, <2>1 DEF Typed
  <2>3. Listed' /\ Settled'
    BY <1>f, <2>1 DEF Listed, Settled, HoldsSlot, Quit, Ended
  <2>4. Loads' /\ Reported' /\ Counted'
    BY <1>a, <1>f, <2>1 DEF Loads, Reported, Counted
  <2>5. DynamoPlace'
    BY <1>a, <1>f, <2>1 DEF DynamoPlace, HoldsSlot, Quit
  <2>6. QED
    BY <2>2, <2>3, <2>4, <2>5 DEF Inv, Common
<1>5. QED
  BY <1>1, <1>2, <1>3, <1>4

(* The load ends with an entry, or its await is cancelled. *)
LEMMA DynamoLoadInv ==
  ASSUME Inv, script = "dynamo", UNCHANGED script,
         Dynamo!EndScenario \/ Dynamo!ReportUnreadable \/ Dynamo!Cancel
  PROVE  Inv'
<1>f. /\ Typed /\ Listed /\ Settled /\ Loads /\ Reported /\ Counted /\ DynamoPlace
      /\ Len(procs) \in Nat /\ DOMAIN procs = 1 .. Len(procs)
  BY DynamoFacts
<1>a. /\ pc = "load" /\ at <= Len(Scenarios) /\ ~raising
      /\ aiperf \subseteq {Scenarios[at]} /\ k = 1
      /\ pc' = "kill" /\ k' = 1 /\ UNCHANGED <<status, procs, answered, at>>
  BY <1>f DEF Dynamo!EndScenario, Dynamo!LoadEnds, Dynamo!ReportUnreadable, Dynamo!Cancel,
     Dynamo!Goto, DynamoPlace, Loads, Counted
<1>1. CASE Dynamo!EndScenario \/ Dynamo!ReportUnreadable
  <2>1. /\ aiperf' = aiperf \ {Scenarios[at]} /\ UNCHANGED raising
        /\ \E result \in {"report", "empty"} :
             results' = [results EXCEPT ![Scenarios[at]] = result]
    BY <1>1 DEF Dynamo!EndScenario, Dynamo!LoadEnds, Dynamo!ReportUnreadable
  <2>2. aiperf' = {}
    BY <1>a, <2>1
  <2>r. /\ results' \in [Elements(Scenarios) -> {"none", "empty", "report"}]
        /\ Reported' /\ results'[Scenarios[at]] # "none"
    BY <1>a, <1>f, <2>1, EntryKeepsReported
  <2>3. Typed'
    BY <1>a, <1>f, <2>1, <2>2, <2>r DEF Typed
  <2>4. Listed' /\ Settled'
    BY <1>a, <1>f DEF Listed, Settled, HoldsSlot, Quit, Ended
  <2>5. Loads' /\ Counted'
    BY <1>a, <1>f, <2>2 DEF Loads, Counted
  <2>6. DynamoPlace'
    BY <1>a, <1>f, <2>1, <2>r DEF DynamoPlace, HoldsSlot, Quit
  <2>7. QED
    BY <2>3, <2>4, <2>5, <2>6, <2>r DEF Inv, Common
<1>2. CASE Dynamo!Cancel
  <2>1. raising' = TRUE /\ UNCHANGED <<aiperf, results>>
    BY <1>2 DEF Dynamo!Cancel
  <2>2. Typed'
    BY <1>a, <1>f, <2>1 DEF Typed
  <2>3. Listed' /\ Settled'
    BY <1>a, <1>f DEF Listed, Settled, HoldsSlot, Quit, Ended
  <2>4. Loads' /\ Reported' /\ Counted'
    BY <1>a, <1>f, <2>1 DEF Loads, Reported, Counted
  <2>5. DynamoPlace'
    BY <1>a, <1>f, <2>1 DEF DynamoPlace, HoldsSlot, Quit
  <2>6. QED
    BY <2>2, <2>3, <2>4, <2>5 DEF Inv, Common
<1>3. QED
  BY <1>1, <1>2

(* kill_procs, the pause, and the next scenario or the way out. *)
LEMMA DynamoKillInv ==
  ASSUME Inv, script = "dynamo", UNCHANGED script,
         Dynamo!KillProcs("cool") \/ Dynamo!CoolDown \/ Dynamo!ScenariosDone
  PROVE  Inv'
<1>f. /\ Typed /\ Listed /\ Settled /\ Loads /\ Reported /\ Counted /\ DynamoPlace
      /\ Len(procs) \in Nat /\ DOMAIN procs = 1 .. Len(procs)
  BY DynamoFacts
<1>0. CASE Terminate \/ HasExited \/ Escalate
  BY <1>0, KillInv
<1>1. CASE Dynamo!KillProcs("cool") /\ ~(Terminate \/ HasExited \/ Escalate)
  <2>1. /\ pc = "kill" /\ k > Len(procs) /\ pc' = "cool" /\ k' = 1
        /\ UNCHANGED <<status, procs, answered, aiperf, results, at, raising>>
    BY <1>1 DEF Dynamo!KillProcs, Dynamo!Terminate, Dynamo!HasExited, Dynamo!Escalate,
       Dynamo!Running, Dynamo!Goto, Terminate, HasExited, Escalate, Running
  <2>2. \A p \in Proc : Quit(p)
    BY <2>1, AllQuit DEF Inv
  <2>3. Typed'
    BY <1>f, <2>1 DEF Typed
  <2>4. Listed' /\ Settled'
    BY <1>f, <2>1, <2>2 DEF Listed, Settled, HoldsSlot, Quit
  <2>5. Loads' /\ Reported' /\ Counted'
    BY <1>f, <2>1 DEF Loads, Reported, Counted
  <2>6. DynamoPlace'
    BY <1>f, <2>1 DEF DynamoPlace, HoldsSlot, Quit
  <2>7. QED
    BY <2>3, <2>4, <2>5, <2>6 DEF Inv, Common
<1>2. CASE Dynamo!CoolDown
  <2>1. /\ pc = "cool" /\ k' = 1 /\ UNCHANGED <<status, procs, answered, aiperf, results, raising>>
        /\ raising => pc' = "raised" /\ at' = at
        /\ ~raising => pc' = "scenario" /\ at' = at + 1
    BY <1>2 DEF Dynamo!CoolDown, Dynamo!Goto
  <2>2. \A p \in Proc : Quit(p)
    BY <1>f, <2>1 DEF Settled
  <2>a. at \in 1 .. Len(Scenarios) /\ Len(Scenarios) \in Nat
    BY <1>f, <2>1, DynamoFacts DEF DynamoPlace
  <2>b. at' \in 1 .. Len(Scenarios) + 1
    BY <2>1, <2>a
  <2>3. Typed'
    BY <1>f, <2>1, <2>b DEF Typed
  <2>4. Listed' /\ Settled'
    BY <1>f, <2>1, <2>2 DEF Listed, Settled, HoldsSlot, Quit, Ended
  <2>5. Loads' /\ Counted'
    BY <1>f, <2>1 DEF Loads, Counted
  <2>6. Reported'
    <3>1. CASE raising
      BY <1>f, <2>1, <3>1 DEF Reported
    <3>2. CASE ~raising
      <4>1. results[Scenarios[at]] # "none"
        BY <1>f, <2>1, <3>2 DEF DynamoPlace
      <4>2. \A i \in 1 .. at + 1 - 1 : i = at \/ i \in 1 .. at - 1
        BY <2>a
      <4>3. \A i \in 1 .. at - 1 : results[Scenarios[i]] # "none"
        BY <1>f DEF Reported
      <4>4. at' = at + 1 /\ results' = results
        BY <2>1, <3>2
      <4>5. ASSUME NEW i \in 1 .. at' - 1 PROVE results'[Scenarios[i]] # "none"
        <5>1. i \in 1 .. at + 1 - 1
          BY <2>a, <2>b, <4>4
        <5>2. results[Scenarios[i]] # "none"
          BY <4>1, <4>2, <4>3, <5>1
        <5>3. QED
          BY <4>4, <5>2
      <4>6. QED
        BY <4>5 DEF Reported
    <3>3. QED
      BY <3>1, <3>2
  <2>7. DynamoPlace'
    <3>1. ASSUME NEW p \in Proc, HoldsSlot(p)
          PROVE  p[1] <= at' /\ (p[1] = at' \/ Quit(p))
      <4>1. p[1] \in Nat /\ p[1] <= at
        BY <1>f, <3>1, Shapes DEF DynamoPlace, Proc
      <4>2. at' = at \/ at' = at + 1
        BY <2>1
      <4>3. QED
        BY <2>2, <2>a, <4>1, <4>2
    <3>2. QED
      BY <1>f, <2>1, <2>2, <3>1 DEF DynamoPlace, HoldsSlot, Quit
  <2>8. QED
    BY <2>3, <2>4, <2>5, <2>6, <2>7 DEF Inv, Common
<1>3. CASE Dynamo!ScenariosDone
  <2>1. /\ pc = "scenario" /\ at > Len(Scenarios) /\ pc' = "returned" /\ k' = 1
        /\ UNCHANGED <<status, procs, answered, aiperf, results, at, raising>>
    BY <1>3 DEF Dynamo!ScenariosDone, Dynamo!Goto
  <2>2. Typed'
    BY <1>f, <2>1 DEF Typed
  <2>3. Listed' /\ Settled'
    <3>1. \A p \in Proc : Quit(p)
      BY <1>f, <2>1 DEF DynamoPlace, HoldsSlot, Quit
    <3>2. QED
      BY <1>f, <2>1, <3>1 DEF Listed, Settled, HoldsSlot, Quit
  <2>4. Loads' /\ Reported' /\ Counted'
    BY <1>f, <2>1 DEF Loads, Reported, Counted
  <2>5. DynamoPlace'
    BY <1>f, <2>1 DEF DynamoPlace, HoldsSlot, Quit
  <2>6. QED
    BY <2>2, <2>3, <2>4, <2>5 DEF Inv, Common
<1>4. QED
  BY <1>0, <1>1, <1>2, <1>3

LEMMA DynamoInv == ASSUME Inv, script = "dynamo", UNCHANGED script, Dynamo!Step PROVE Inv'
  BY DynamoDownloadInv, DynamoFrontendInv, DynamoStartInv, DynamoWaitInv, DynamoLoadInv,
     DynamoKillInv DEF Dynamo!Step

-----------------------------------------------------------------------------
(* The specification.                                                      *)

LEMMA InitInv == ScriptInit => Inv
<1> SUFFICES ASSUME ScriptInit PROVE Inv
  OBVIOUS
<1> USE DEF ScriptInit, Init
<1>1. Typed
  <2>1. at \in 1 .. Len(Scenarios) + 1 /\ k \in Nat
    BY Shapes
  <2>2. procs \in Seq(Proc)
    OBVIOUS
  <2>3. QED
    BY <2>1, <2>2 DEF Typed, Status
<1>2. Listed /\ Settled /\ \A p \in Proc : ~HoldsSlot(p)
  BY DEF Listed, Settled, HoldsSlot, Quit, Ended
<1>3. Loads
  BY DEF Loads
<1>4. Reported
  <2>1. 1 .. at - 1 = {}
    OBVIOUS
  <2>2. QED
    BY <2>1 DEF Reported
<1>5. Counted
  <2>1. k \in 1 .. 3 /\ Len(procs) = 0
    OBVIOUS
  <2>2. QED
    BY <2>1, Shapes DEF Counted, Attempts
<1>6. NanoPlace /\ DynamoPlace
  BY <1>2 DEF NanoPlace, DynamoPlace, HoldsSlot, Quit
<1>7. QED
  BY <1>1, <1>2, <1>3, <1>4, <1>5, <1>6 DEF Inv, Common

LEMMA StepInv == Inv /\ [Next]_<<vars, script>> => Inv'
<1> SUFFICES ASSUME Inv, [Next]_<<vars, script>> PROVE Inv'
  OBVIOUS
<1>1. CASE UNCHANGED <<vars, script>>
  <2>1. UNCHANGED <<status, procs, answered, aiperf, results, pc, k, at, raising, script>>
    BY <1>1 DEF vars
  <2>2. status' \in [Proc -> Status]
    BY <2>1 DEF Inv, Common, Typed
  <2>3. \A p \in Proc : (HoldsSlot(p)' => HoldsSlot(p)) /\ (Quit(p) => Quit(p)')
    BY <2>1 DEF HoldsSlot, Quit
  <2>4. QED
    BY <2>1, <2>2, <2>3, FadesInv
<1>2. CASE Step /\ UNCHANGED script
  BY <1>2, NanoInv, DynamoInv DEF Step
<1>3. CASE Environment /\ UNCHANGED script
  BY <1>3, EnvironmentInv
<1>4. QED
  BY <1>1, <1>2, <1>3 DEF Next, Over

LEMMA Invariance == Spec => []Inv
  BY InitInv, StepInv, PTL DEF Spec

-----------------------------------------------------------------------------
(* The theorems.                                                           *)

(* Every variable of the scripts holds a value of its kind. *)
THEOREM TypeCorrect == Spec => []TypeOK
<1>1. Inv => TypeOK
  <2> SUFFICES ASSUME Inv PROVE TypeOK
    OBVIOUS
  <2>1. Typed /\ Counted
    BY DEF Inv, Common
  <2>2. k \in 1 .. Cardinality(Slot) + Attempts
    <3>1. Len(Workers) \in Nat /\ Cardinality(Slot) + Attempts = Len(Workers) + 4
      BY Shapes, SlotCount DEF Attempts
    <3>2. k \in Nat /\ Len(procs) \in Nat /\ Len(procs) <= Len(Workers) + 1
      BY <2>1 DEF Typed, Counted
    <3>3. k \in 1 .. 3 \/ k \in 1 .. Len(Workers) \/ k \in 1 .. Len(procs) + 1 \/ k = 1
      BY <2>1 DEF Counted, Attempts
    <3>4. ASSUME NEW w \in Nat, NEW l \in Nat, l <= w + 1, NEW n \in Nat,
                 n \in 1 .. 3 \/ n \in 1 .. w \/ n \in 1 .. l + 1 \/ n = 1
          PROVE  n \in 1 .. w + 4
      BY <3>4
    <3>n. k \in 1 .. Len(Workers) + 4
      BY <3>1, <3>2, <3>3, <3>4
    <3>5. QED
      BY <3>1, <3>n
  <2>3. QED
    BY <2>1, <2>2 DEF Typed, TypeOK
<1>2. QED
  BY Invariance, <1>1, PTL

(* However a script ends, no process and no awaited load is left behind. *)
THEOREM NothingIsLeftRunning == Spec => []NothingLeftRunning
<1>1. Inv => NothingLeftRunning
  BY DEF Inv, Common, Settled, Loads, Quit, NothingLeftRunning, Ended
<1>2. QED
  BY Invariance, <1>1, PTL

(* A GPU or port goes to a later deployment only from a process that has   *)
(* exited or was sent SIGKILL, wherever the deployment before it failed.   *)
THEOREM NoDeploymentsOverlap == Spec => []NoLiveOverlap
<1>1. Inv => NoLiveOverlap
  <2> SUFFICES ASSUME Inv, NEW p \in Proc, NEW q \in Proc,
                      HoldsSlot(p), HoldsSlot(q), p[1] < q[1]
               PROVE  status[p] = "killed"
    BY DEF NoLiveOverlap
  <2>1. p[1] \in Nat /\ q[1] \in Nat
    BY Shapes DEF Proc
  <2>2. script # "nano"
    BY <2>1 DEF Inv, NanoPlace
  <2>3. at \in Nat /\ q[1] <= at /\ (p[1] = at \/ Quit(p))
    BY <2>2, Shapes DEF Inv, Common, Typed, DynamoPlace
  <2>4. Quit(p)
    BY <2>1, <2>3
  <2>5. QED
    BY <2>4 DEF Quit, HoldsSlot
<1>2. QED
  BY Invariance, <1>1, PTL

(* No scenario the loop has passed is without an entry, whatever failed.   *)
THEOREM ScenariosAreReported == Spec => []EveryScenarioReported
<1>1. Inv => EveryScenarioReported
  <2> SUFFICES ASSUME Inv PROVE EveryScenarioReported
    OBVIOUS
  <2>1. pc = "returned" => ~raising
    BY DEF Inv, NanoPlace, DynamoPlace
  <2>2. QED
    BY <2>1 DEF Inv, Common, Reported, NanoPlace, DynamoPlace, EveryScenarioReported
<1>2. QED
  BY Invariance, <1>1, PTL

(* Load is only ever run against a deployment that has answered. *)
THEOREM LoadAwaitsReadiness == Spec => []ReadyBeforeLoad
<1>1. Inv => ReadyBeforeLoad
  BY DEF Inv, NanoPlace, DynamoPlace, ReadyBeforeLoad, Nano!Ready, Dynamo!Ready,
     Nano!Slot, Nano!Elements, Slot, Dynamo!Elements, Elements
<1>2. QED
  BY Invariance, <1>1, PTL
=============================================================================
