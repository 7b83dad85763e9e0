----------------------------- MODULE MCBackend -----------------------------
(* The API with two requests at a time and two connections, for TLC.         *)
EXTENDS Backend

CONSTANTS q1, q2
=============================================================================
