----------------------------- MODULE LoadLedger -----------------------------
(***************************************************************************)
(* What the load counters promise, as an abstract specification: a ledger. *)
(* A holder is entered once, at one place, with all it takes there; it     *)
(* gives back its prompt once and its stream once, in either order; and    *)
(* each step moves the counters by that holder's amounts and nothing else. *)
(* There is no clamp: no step of a ledger would need one.                  *)
(***************************************************************************)
EXTENDS Integers

CONSTANTS Worker, Holder,
          PromptSize,     \* the prompt tokens of each holder
          StreamSize,     \* the decode blocks of each holder
          Nowhere

VARIABLES prefillTokens, prefillRequests, decodeBlocks,    \* the counters
          place,                                           \* where each holder is entered
          prompt, stream                                   \* its two halves

ledgerVars == <<prefillTokens, prefillRequests, decodeBlocks, place, prompt, stream>>

Half == {"free", "held", "returned"}

Init == /\ prefillTokens = [w \in Worker |-> 0]
        /\ prefillRequests = [w \in Worker |-> 0]
        /\ decodeBlocks = [w \in Worker |-> 0]
        /\ place = [h \in Holder |-> Nowhere]
        /\ prompt = [h \in Holder |-> "free"]
        /\ stream = [h \in Holder |-> "free"]

Enter(h, p, d) ==
  /\ place[h] = Nowhere
  /\ place' = [place EXCEPT ![h] = [p |-> p, d |-> d]]
  /\ prompt' = [prompt EXCEPT ![h] = "held"]
  /\ stream' = [stream EXCEPT ![h] = "held"]
  /\ prefillTokens' = [prefillTokens EXCEPT ![p] = @ + PromptSize[h]]
  /\ prefillRequests' = [prefillRequests EXCEPT ![p] = @ + 1]
  /\ decodeBlocks' = [decodeBlocks EXCEPT ![d] = @ + StreamSize[h]]

ReturnPrompt(h) ==
  /\ prompt[h] = "held"
  /\ prompt' = [prompt EXCEPT ![h] = "returned"]
  /\ prefillTokens' = [prefillTokens EXCEPT ![place[h].p] = @ - PromptSize[h]]
  /\ UNCHANGED <<prefillRequests, decodeBlocks, place, stream>>

ReturnStream(h) ==
  /\ stream[h] = "held"
  /\ stream' = [stream EXCEPT ![h] = "returned"]
  /\ prefillRequests' = [prefillRequests EXCEPT ![place[h].p] = @ - 1]
  /\ decodeBlocks' = [decodeBlocks EXCEPT ![place[h].d] = @ - StreamSize[h]]
  /\ UNCHANGED <<prefillTokens, place, prompt>>

Next == \E h \in Holder : \/ \E p, d \in Worker : Enter(h, p, d)
                          \/ ReturnPrompt(h)
                          \/ ReturnStream(h)

Spec == Init /\ [][Next]_ledgerVars
=============================================================================
