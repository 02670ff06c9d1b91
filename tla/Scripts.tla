------------------------------- MODULE Scripts -------------------------------
(***************************************************************************)
(* The two benchmark scripts over the same processes.  Which of them is    *)
(* run is chosen at the start.                                             *)
(***************************************************************************)
EXTENDS Harness

VARIABLE script

Nano   == INSTANCE NanoBench
Dynamo == INSTANCE DynamoBench

ScriptInit == Init /\ script \in {"nano", "dynamo"}

Step == \/ script = "nano" /\ Nano!Step
        \/ script = "dynamo" /\ Dynamo!Step

(* The script has ended; its container stays up. *)
Over == pc \in Ended /\ UNCHANGED vars

Next == (Step \/ Environment \/ Over) /\ UNCHANGED script

Spec == ScriptInit /\ [][Next]_<<vars, script>>

(* The script goes on: its polls and its waits time out, and the awaited   *)
(* AIPerf ends or is cancelled by the function's own time limit.  SIGKILL  *)
(* acts.  A process need not come up, and need not obey SIGTERM.           *)
Fairness == /\ WF_<<vars, script>>(Step /\ UNCHANGED script)
            /\ \A p \in Proc : WF_<<vars, script>>(Die(p) /\ UNCHANGED script)

FairSpec == Spec /\ Fairness

(* Load is run against a deployment that is up: for nano-dynamo all of it, *)
(* for Dynamo its frontend and a worker.                                   *)
ReadyBeforeLoad == IF script = "nano" THEN Nano!Ready ELSE Dynamo!Ready
=============================================================================
