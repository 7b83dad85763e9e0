-------------------------- MODULE ResultsContract --------------------------
(***************************************************************************)
(* What the analytics tables promise to whoever reads them while they are  *)
(* being refreshed: a table goes, one domain at a time, from the results   *)
(* of one state of the hub to those of a state that is at least as new,    *)
(* through nothing and never through a mixture of the two.                 *)
(***************************************************************************)
EXTENDS Naturals, Sequences

CONSTANTS Datasets, Domains, Tables, Parts

VARIABLES
  latest, \* the states of the hub so far, numbered
  rows,   \* the state that wrote the rows of each dataset and domain, 0 if there are none
  shown,  \* per table, dataset and domain, the state each piece follows from
  at,     \* the table and domain being replaced, << >> between
  coming  \* what is about to be shown there of each dataset, 0 for one left alone

Nothing == [d \in Datasets |-> 0]

Init ==
  /\ latest = 0 /\ rows = [d \in Datasets |-> [n \in Domains |-> 0]]
  /\ shown = [t \in Tables |-> [d \in Datasets |-> [n \in Domains |-> << >>]]]
  /\ at = << >> /\ coming = Nothing

Change(d) ==
  /\ latest' = latest + 1
  /\ \E now \in [Domains -> {0, latest + 1}], kept \in SUBSET Domains :
       rows' = [rows EXCEPT ![d] = [n \in Domains |-> IF n \in kept THEN @[n] ELSE now[n]]]
  /\ UNCHANGED <<shown, at, coming>>

\* At table t and domain n, pieces[d] for each dataset d of these
Shows(t, n, these, pieces) ==
  shown' = [shown EXCEPT ![t] = [d \in Datasets |->
              IF d \in these THEN [@[d] EXCEPT ![n] = pieces[d]] ELSE @[d]]]

Replacing(g) == {d \in Datasets : g[d] # 0}

\* No older than what it replaces, no newer than the rows
Follows(t, d, n, state) ==
  /\ \A i \in 1 .. Len(shown[t][d][n]) : shown[t][d][n][i] <= state
  /\ rows[d][n] # 0 => state <= rows[d][n]

Begin(t, n, g) ==
  /\ at = << >> /\ at' = <<t, n>> /\ coming' = g
  /\ \A d \in Replacing(g) : Follows(t, d, n, g[d])
  /\ Shows(t, n, Replacing(g), [d \in Datasets |-> << >>])
  /\ UNCHANGED <<latest, rows>>

\* As much of it as gets there: Parts pieces, unless it is interrupted.
Land(k) ==
  /\ at # << >> /\ at' = << >> /\ coming' = Nothing
  /\ Shows(at[1], at[2], Replacing(coming), [d \in Datasets |-> [i \in 1 .. k[d] |-> coming[d]]])
  /\ UNCHANGED <<latest, rows>>

Next ==
  \/ \E d \in Datasets : Change(d)
  \/ \E t \in Tables, n \in Domains, g \in [Datasets -> 0 .. latest] : Begin(t, n, g)
  \/ \E k \in [Datasets -> 0 .. Parts] : Land(k)

Spec == Init /\ [][Next]_<<latest, rows, shown, at, coming>>
=============================================================================
