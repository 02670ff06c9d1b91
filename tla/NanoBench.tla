------------------------------ MODULE NanoBench ------------------------------
(***************************************************************************)
(* run_bench of src/bench_nano_dynamo.py: one deployment, all scenarios.   *)
(* Any exception - a start, a wait, an unreadable report, a cancellation   *)
(* at an await - leaves by way of kill_procs.                              *)
(***************************************************************************)
EXTENDS Harness

Throws == /\ Goto("kill") /\ raising' = TRUE
          /\ UNCHANGED <<status, procs, answered, aiperf, results, at>>

StartWorker ==
  /\ pc = "start"
  /\ \/ StartProcess(<<1, Workers[k]>>, procs) /\ Advance(Len(Workers), "wait")
     \/ Throws

(* Variant: the loop ends before the last port. *)
WaitForAllButOne ==
  /\ pc = "wait"
  /\ \/ Answers({<<1, Workers[k]>>}) /\ Advance(Len(Workers) - 1, "gateway")
     \/ Throws

(* One port after the other; a poll that times out raises RuntimeError. *)
WaitForWorker ==
  /\ pc = "wait"
  /\ \/ Answers({<<1, Workers[k]>>}) /\ Advance(Len(Workers), "gateway")
     \/ Throws

(* Variant: the gateway is not put on the list. *)
StartGatewayUnlisted ==
  /\ pc = "gateway"
  /\ \/ /\ status' = [status EXCEPT ![<<1, Frontend>>] = "starting"]
        /\ Goto("waitGateway")
        /\ UNCHANGED <<procs, answered, aiperf, results, at, raising>>
     \/ Throws

StartGateway ==
  /\ pc = "gateway"
  /\ \/ StartProcess(<<1, Frontend>>, procs) /\ Goto("waitGateway")
     \/ Throws

WaitForGateway ==
  /\ pc = "waitGateway"
  /\ \/ Answers({<<1, Frontend>>}) /\ Goto("scenario")
     \/ Throws

RunScenario ==
  /\ pc = "scenario" /\ at <= Len(Scenarios)
  /\ StartLoad \/ Throws

(* A failed AIPerf is an empty result, and the loop goes on. *)
EndScenario == LoadEnds /\ at' = at + 1 /\ Goto("scenario")

(* AIPerf has ended, and its report is not JSON. *)
ReportUnreadable ==
  /\ pc = "load"
  /\ aiperf' = aiperf \ {Scenarios[at]}
  /\ Goto("kill") /\ raising' = TRUE
  /\ UNCHANGED <<status, procs, answered, results, at>>

(* The await of AIPerf is cancelled; AIPerf is not.  Every other wait      *)
(* blocks the loop, so a cancellation takes effect here.                   *)
Cancel == pc = "load" /\ Throws

ScenariosDone ==
  /\ pc = "scenario" /\ at > Len(Scenarios)
  /\ Goto("kill")
  /\ UNCHANGED <<status, procs, answered, aiperf, results, at, raising>>

Step == \/ Download("start", "kill")
        \/ StartWorker \/ WaitForWorker \/ StartGateway \/ WaitForGateway
        \/ RunScenario \/ EndScenario \/ ReportUnreadable \/ Cancel \/ ScenariosDone
        \/ KillProcs(IF raising THEN "raised" ELSE "returned")

(* No load before every worker and the gateway have answered once. *)
Ready == aiperf # {} => answered = {1} \X Slot
=============================================================================
