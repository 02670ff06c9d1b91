----------------------------- MODULE DynamoBench -----------------------------
(***************************************************************************)
(* run_benchmark of src/bench_nvidia_dynamo.py: a deployment of its own    *)
(* for every scenario.  An exception costs that scenario alone; only a     *)
(* cancellation, which is no Exception, ends the run.                      *)
(***************************************************************************)
EXTENDS Harness

(* Variant: a failed scenario has no entry. *)
FailsSilently ==
  /\ Goto("kill")
  /\ UNCHANGED <<status, procs, answered, aiperf, results, at, raising>>

(* Variant: the cleanup ends the try block instead of following it. *)
FailsUncleaned ==
  /\ results' = [results EXCEPT ![Scenarios[at]] = "empty"]
  /\ Goto("cool")
  /\ UNCHANGED <<status, procs, answered, aiperf, at, raising>>

(* except Exception: an empty result, then the cleanup. *)
Fails ==
  /\ results' = [results EXCEPT ![Scenarios[at]] = "empty"]
  /\ Goto("kill")
  /\ UNCHANGED <<status, procs, answered, aiperf, at, raising>>

(* d_procs = [], then the frontend; the list stays empty if it fails. *)
StartFrontend ==
  /\ pc = "scenario" /\ at <= Len(Scenarios)
  /\ \/ StartProcess(<<at, Frontend>>, <<>>) /\ Goto("waitFrontend")
     \/ /\ procs' = <<>>
        /\ results' = [results EXCEPT ![Scenarios[at]] = "empty"]
        /\ Goto("kill")
        /\ UNCHANGED <<status, answered, aiperf, at, raising>>

WaitForFrontend ==
  /\ pc = "waitFrontend"
  /\ \/ Answers({<<at, Frontend>>}) /\ Goto("start")
     \/ Fails

StartWorker ==
  /\ pc = "start"
  /\ \/ StartProcess(<<at, Workers[k]>>, procs) /\ Advance(Len(Workers), "models")
     \/ Fails

(* The frontend lists a model as soon as some worker has registered. *)
WaitForModels ==
  /\ pc = "models"
  /\ \/ \E w \in Elements(Workers) : Answers({<<at, Frontend>>, <<at, w>>}) /\ Goto("ready")
     \/ Fails

RunAiperf == pc = "ready" /\ (StartLoad \/ Fails)

EndScenario == LoadEnds /\ Goto("kill") /\ UNCHANGED at

(* AIPerf has ended, and its report is not JSON. *)
ReportUnreadable ==
  /\ pc = "load"
  /\ aiperf' = aiperf \ {Scenarios[at]}
  /\ results' = [results EXCEPT ![Scenarios[at]] = "empty"]
  /\ Goto("kill")
  /\ UNCHANGED <<status, procs, answered, at, raising>>

Cancel ==
  /\ pc = "load"
  /\ raising' = TRUE /\ Goto("kill")
  /\ UNCHANGED <<status, procs, answered, aiperf, results, at>>

(* sleep(30), whatever still runs then.  It is skipped when nothing was    *)
(* started.                                                                *)
CoolDown ==
  /\ pc = "cool"
  /\ IF raising THEN Goto("raised") /\ UNCHANGED at
                ELSE Goto("scenario") /\ at' = at + 1
  /\ UNCHANGED <<status, procs, answered, aiperf, results, raising>>

ScenariosDone ==
  /\ pc = "scenario" /\ at > Len(Scenarios)
  /\ Goto("returned")
  /\ UNCHANGED <<status, procs, answered, aiperf, results, at, raising>>

Step == \/ Download("scenario", "raised")
        \/ StartFrontend \/ WaitForFrontend \/ StartWorker \/ WaitForModels
        \/ RunAiperf \/ EndScenario \/ ReportUnreadable \/ Cancel
        \/ KillProcs("cool") \/ CoolDown \/ ScenariosDone

(* No load on a deployment whose frontend and some worker of its own have  *)
(* not answered.  (Some, not all: the other workers may still be loading.) *)
Ready == pc = "load" => /\ <<at, Frontend>> \in answered
                        /\ \E w \in Elements(Workers) : <<at, w>> \in answered
=============================================================================
