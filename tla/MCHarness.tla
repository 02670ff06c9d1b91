------------------------------ MODULE MCHarness ------------------------------
(* Both benchmark scripts, one prefill and two decode workers and two       *)
(* scenarios each.                                                          *)
EXTENDS Scripts

CONSTANTS p0, d0, d1, multi_turn, stress

ThreeWorkers == <<p0, d0, d1>>
TwoScenarios == <<multi_turn, stress>>
=============================================================================
