----------------------------- MODULE MCPrediction -----------------------------
(* Two agents, one business area beside the standard one.  What two agents *)
(* or two scripts do does not depend on which of them does it.             *)
EXTENDS Prediction

PensionRows == [ordning : {"pension"}, nr : {1, 2}, text : {"new"}]
StandardRows == {[ordning |-> "standard", nr |-> 1, text |-> "new"]}
EvaluationRows == {[ordning |-> "evaluering", nr |-> 1, text |-> "new"]}
Rows3 == PensionRows \cup StandardRows \cup EvaluationRows

Interchangeable == Permutations(Agents) \cup Permutations(Savers)
=============================================================================
