------------------------------ MODULE MCHandoff ------------------------------
(* Handoff for TLC: two prefill workers on the default side ports, and      *)
(* clients that set either or both of the two token limits.                 *)
EXTENDS Handoff, TLC

CONSTANTS r1, r2

TwoPrefillPorts == <<8100, 8101>>
OneDecodePort == <<8200>>
DefaultSidePorts == <<>>

MCMaxTokens == (r1 :> Absent) @@ (r2 :> 3)
MCMaxCompletionTokens == (r1 :> 2) @@ (r2 :> 3)
=============================================================================
