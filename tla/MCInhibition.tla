---------------------------- MODULE MCInhibition ----------------------------
(* Three workers, failures and reads through both URL forms. *)
EXTENDS Inhibition
CONSTANTS h1, h2, h3
=============================================================================
