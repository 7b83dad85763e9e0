----------------------------- MODULE MCCopilot -----------------------------
(* Three questions: two that overlap and one that reads what they left.    *)
EXTENDS Copilot
=============================================================================
