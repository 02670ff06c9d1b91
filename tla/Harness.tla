------------------------------- MODULE Harness -------------------------------
(***************************************************************************)
(* What the benchmark scripts share: start_process, the wait_for_ polls,   *)
(* kill_procs, the download loop, and the processes they act on.  The      *)
(* scripts themselves are NanoBench and DynamoBench; each is one thread of *)
(* control (pc) beside processes that come up, crash and die on their own. *)
(*                                                                         *)
(* A process is <<d, x>>: slot x (a GPU or the HTTP port) of the d-th      *)
(* deployment of the run.  The shell a command is started through and the  *)
(* children of a worker are one process with it.                           *)
(***************************************************************************)
EXTENDS Naturals, Sequences, FiniteSets

CONSTANTS Workers,      \* the workers' slots, in the order they are started
          Frontend,     \* the slot of the HTTP frontend
          Scenarios     \* the scenarios of the run, in order

VARIABLES
  status,      \* of every process
  procs,       \* the script's list of them
  answered,    \* history: the processes a poll has heard from
  aiperf,      \* the scenarios whose load generator is running
  results,     \* the dict of results; "none" is a missing key
  pc, k,       \* the script's place, and its index in a loop there
  at,          \* the scenario the outer loop is at
  raising      \* an exception is on its way out of the script

vars == <<status, procs, answered, aiperf, results, pc, k, at, raising>>

Elements(seq) == {seq[i] : i \in DOMAIN seq}
Slot == Elements(Workers) \cup {Frontend}
Proc == (DOMAIN Scenarios) \X Slot
Attempts == 3

ASSUME HarnessAssumption ==
  /\ Workers \in Seq(Elements(Workers)) /\ Scenarios \in Seq(Elements(Scenarios))
  /\ Workers # <<>> /\ Scenarios # <<>> /\ Frontend \notin Elements(Workers)
  /\ \A i, j \in DOMAIN Workers : Workers[i] = Workers[j] => i = j
  /\ \A i, j \in DOMAIN Scenarios : Scenarios[i] = Scenarios[j] => i = j

Status == {"absent", "starting", "serving", "terminating",   \* SIGTERM sent
           "killed",                                         \* SIGKILL sent
           "exited"}
Ended  == {"returned", "raised"}

Running(p)   == status[p] \in {"starting", "serving"}
HoldsSlot(p) == status[p] \notin {"absent", "exited"}

Init == /\ status = [p \in Proc |-> "absent"]
        /\ procs = <<>> /\ answered = {} /\ aiperf = {}
        /\ results = [s \in Elements(Scenarios) |-> "none"]
        /\ pc = "download" /\ k = 1 /\ at = 1
        /\ raising = FALSE

-----------------------------------------------------------------------------
(* The script's steps. *)

Goto(label) == pc' = label /\ k' = 1

(* The next turn of a loop of n, or what comes after it. *)
Advance(n, next) == IF k < n THEN k' = k + 1 /\ UNCHANGED pc ELSE Goto(next)

(* Variant: the last attempt is caught like the others. *)
DownloadForGood(next, uncaught) ==
  /\ pc = "download"
  /\ Goto(next) \/ (k' = k + 1 /\ UNCHANGED pc)
  /\ UNCHANGED <<status, procs, answered, aiperf, results, at, raising>>

(* The model is fetched, or an attempt fails: the last time uncaught, and  *)
(* any time if it is not the command that failed.                          *)
Download(next, uncaught) ==
  /\ pc = "download"
  /\ \/ Goto(next) /\ UNCHANGED raising
     \/ k < Attempts /\ k' = k + 1 /\ UNCHANGED <<pc, raising>>
     \/ Goto(uncaught) /\ raising' = TRUE
  /\ UNCHANGED <<status, procs, answered, aiperf, results, at>>

StartProcess(p, list) ==
  /\ status' = [status EXCEPT ![p] = "starting"]
  /\ procs' = Append(list, p)
  /\ UNCHANGED <<answered, aiperf, results, at, raising>>

(* A poll got its 200. *)
Answers(ps) ==
  /\ \A p \in ps : status[p] = "serving"
  /\ answered' = answered \cup ps
  /\ UNCHANGED <<status, procs, aiperf, results, at, raising>>

StartLoad ==
  /\ aiperf' = aiperf \cup {Scenarios[at]}
  /\ Goto("load")
  /\ UNCHANGED <<status, procs, answered, results, at, raising>>

(* AIPerf ended: with a report, or with none (it failed, or wrote nothing).*)
LoadEnds ==
  /\ pc = "load"
  /\ aiperf' = aiperf \ {Scenarios[at]}
  /\ \E result \in {"report", "empty"} :
       results' = [results EXCEPT ![Scenarios[at]] = result]
  /\ UNCHANGED <<status, procs, answered, raising>>

(* kill_procs, over the processes of the list that have not exited.        *)
Terminate ==
  /\ pc = "kill" /\ k <= Len(procs) /\ Running(procs[k])
  /\ status' = [status EXCEPT ![procs[k]] = "terminating"]
  /\ UNCHANGED <<procs, answered, aiperf, results, pc, k, at, raising>>

HasExited ==
  /\ pc = "kill" /\ k <= Len(procs) /\ status[procs[k]] = "exited"
  /\ k' = k + 1
  /\ UNCHANGED <<status, procs, answered, aiperf, results, pc, at, raising>>

(* Variant: wait() has no timeout. *)
EscalateNever == FALSE

(* TimeoutExpired: SIGKILL, and nobody waits for it to act. *)
Escalate ==
  /\ pc = "kill" /\ k <= Len(procs) /\ status[procs[k]] = "terminating"
  /\ status' = [status EXCEPT ![procs[k]] = "killed"]
  /\ k' = k + 1
  /\ UNCHANGED <<procs, answered, aiperf, results, pc, at, raising>>

KillProcs(next) ==
  \/ Terminate \/ HasExited \/ Escalate
  \/ /\ pc = "kill" /\ k > Len(procs)
     /\ Goto(next)
     /\ UNCHANGED <<status, procs, answered, aiperf, results, at, raising>>

-----------------------------------------------------------------------------
(* The processes' own steps. *)

Becomes(p, from, to) ==
  /\ status[p] \in from
  /\ status' = [status EXCEPT ![p] = to]
  /\ UNCHANGED <<procs, answered, aiperf, results, pc, k, at, raising>>

Serve(p) == Becomes(p, {"starting"}, "serving")
Crash(p) == Becomes(p, {"starting", "serving"}, "exited")
Obey(p)  == Becomes(p, {"terminating"}, "exited")
Die(p)   == Becomes(p, {"killed"}, "exited")

(* A load generator nobody awaits any more comes to its end. *)
AbandonedEnds(s) ==
  /\ s \in aiperf /\ ~(pc = "load" /\ s = Scenarios[at])
  /\ aiperf' = aiperf \ {s}
  /\ UNCHANGED <<status, procs, answered, results, pc, k, at, raising>>

Environment == \/ \E p \in Proc : Serve(p) \/ Crash(p) \/ Obey(p) \/ Die(p)
               \/ \E s \in Elements(Scenarios) : AbandonedEnds(s)

-----------------------------------------------------------------------------
(* Every variable holds a value of its kind. *)
TypeOK ==
  /\ status \in [Proc -> Status]
  /\ procs \in Seq(Proc) /\ answered \subseteq Proc
  /\ aiperf \subseteq Elements(Scenarios)
  /\ results \in [Elements(Scenarios) -> {"none", "empty", "report"}]
  /\ k \in 1 .. Cardinality(Slot) + Attempts
  /\ at \in 1 .. Len(Scenarios) + 1

(* However a script ends - a failed download, a process that never came    *)
(* up, a start that failed half-way, a cancellation, a normal return - no  *)
(* process it started is left that was not made to exit; and unless an     *)
(* exception ended it, no load generator either.                           *)
NothingLeftRunning ==
  pc \in Ended => /\ \A p \in Proc : status[p] \in {"absent", "exited", "killed"}
                  /\ ~raising => aiperf = {}

(* A GPU or port is given to another deployment only once the process that *)
(* had it has exited, or would not and was sent SIGKILL, whatever failed   *)
(* in the deployment before and wherever.  (Whether SIGKILL has acted by   *)
(* then no script looks: Dynamo's sleeps for 30 s and goes on.)            *)
NoLiveOverlap ==
  \A p, q \in Proc : HoldsSlot(p) /\ HoldsSlot(q) /\ p[2] = q[2] /\ p[1] < q[1] =>
    status[p] = "killed"

(* The loop over the scenarios leaves none of them behind without an       *)
(* entry, whatever failed in it, and returns only when it went over all.   *)
EveryScenarioReported ==
  /\ \A i \in 1 .. at - 1 : results[Scenarios[i]] # "none"
  /\ pc = "returned" => at > Len(Scenarios)

(* Liveness: a script comes to its end, whatever crashes, hangs or ignores *)
(* its SIGTERM, and then every GPU and port is let go.                     *)
SlotsReleased == <>[](pc \in Ended /\ \A p \in Proc : ~HoldsSlot(p))
=============================================================================
