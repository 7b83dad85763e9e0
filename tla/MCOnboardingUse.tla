-------------------------- MODULE MCOnboardingUse --------------------------
(* MCOnboarding with a history variable that tells the plain use of the API    *)
(* from the others: one request at a time, each confirmation with every        *)
(* column. A run takes one request more while the use is plain.                *)
EXTENDS MCOnboarding

CONSTANT MaxMixed   \* bound: requests of a use that is not plain

VARIABLE plain

(* The last request is made after three that succeeded, since one that failed   *)
(* alone leaves what was before it; the ids of the three are interchangeable.   *)
UseSymmetry == Permutations(Requests \ {r4})

PlainNow == \A r \in InFlight : /\ \A q \in InFlight : q = r
                                /\ kind[r] = "confirm" => Complete(mapping[r])

UseNext == Next /\ plain' = (plain /\ PlainNow')
UseSpec == Init /\ plain = TRUE /\ [][UseNext]_<<vars, plain>>

MCNext == /\ UseNext
          /\ plain' \/ Cardinality({r \in Requests : pc'[r] # "idle"}) <= MaxMixed
          /\ pc'[r4] # "idle" => \A r \in Requests \ {r4} : pc[r] = "done"
MCSpec == Init /\ plain = TRUE /\ [][MCNext]_<<vars, plain>>

(* In plain use, what the review screen says of a column agrees with the hub    *)
(* after every request, whatever was confirmed, added, refused or rolled back   *)
(* before it (get_feature_review, confirm_onboarding, add_missed_feature).      *)
PlainReviewMatchesHub == plain => ReviewMatchesHub

(* The invariant behind it: in plain use nothing comes between the statements  *)
(* of a request. The one in flight still sees what it has read, and a load has *)
(* deleted all that the hub holds of its dataset.                              *)
Undisturbed(r) ==
  /\ kind[r] = "confirm" /\ pc[r] # "committed" =>
       seen[r] = status[ds[r]] /\ Complete(mapping[r])
  /\ kind[r] = "add" => \A c \in MetricColumns(mapping[r]) : status[ds[r]][c] = "skipped"
  /\ pc[r] \in {"hub_cleared", "cleared", "loaded"} =>
       \A x \in hub : x.ds = ds[r] => x \in clearedHub[r]
  /\ pc[r] = "loaded" => \A c \in Columns : StatusAfter(r)[c] = "skipped" => c \in skipped[r]
PlainUse ==
  plain => \A r \in InFlight : Undisturbed(r) /\ \A q \in InFlight : q = r
=============================================================================
