----------------------------- MODULE HubContract ----------------------------
(***************************************************************************)
(* What onboarding promises to everything that reads the hub: saved        *)
(* mappings form one history per business, a confirmation takes effect at  *)
(* one instant, and a valid one replaces the whole collected content of    *)
(* its dataset while an invalid one leaves it alone.                       *)
(***************************************************************************)
EXTENDS MappingRules, Sequences

CONSTANTS Datasets, Businesses, BusinessOf

VARIABLES
  history, \* per business, the saved mappings in version order
  content  \* per dataset, what is collected: <<column, target>> pairs

Init ==
  /\ history = [b \in Businesses |-> <<>>]
  /\ content = [d \in Datasets |-> {}]

Collected(m) == {<<c, m[c]>> : c \in MetricColumns(m)}

Confirm(d, m) ==
  /\ history' = [history EXCEPT ![BusinessOf[d]] =
                   Append(@, [ds |-> d, mapping |-> m])]
  /\ content' = [content EXCEPT ![d] = IF Valid(m) THEN Collected(m) ELSE @]

Next == \E d \in Datasets, m \in Mappings : Confirm(d, m)

Spec == Init /\ [][Next]_<<history, content>>
=============================================================================
