---------------------------- MODULE MCAgentLoop ----------------------------
(* A failed tool, one without metrics (documents), and reports of one, of  *)
(* the other and of both metrics.                                          *)
EXTENDS AgentLoop
CONSTANTS output, downtime

MCMetrics == {output, downtime}
MCResults ==
  {[ok |-> FALSE, listed |-> {}]} \union
  {[ok |-> TRUE, listed |-> metrics] : metrics \in SUBSET MCMetrics}
=============================================================================
