----------------------------- MODULE MCFactsGate -----------------------------
(* Instances of FactsGate for TLC. *)
EXTENDS FactsGate

CONSTANTS ann, bob   \* two people

Eras == <<"early", "late">>
=============================================================================
