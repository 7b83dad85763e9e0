------------------------------- MODULE Values -------------------------------
(* Values the functions of the project share: they stand for Python's None,    *)
(* for an exception that leaves the function, and for a list or an object      *)
(* where a reply should hold a string; and how Python rounds.                  *)
EXTENDS Integers

CONSTANTS None, Fails, Nested

(* round(x): to the nearest multiple of a step, halves to the even one. *)
RoundTo(x, step) ==
  LET down == x \div step
      rest == 2 * (x % step)
  IN  step * (IF rest > step \/ (rest = step /\ down % 2 = 1) THEN down + 1 ELSE down)
=============================================================================
