----------------------------- MODULE MCPlanOrder -----------------------------
(* An instance of PlanStructure in which three items can be siblings, some *)
(* of them archived, unplaced, or with one place for several.              *)
EXTENDS PlanStructure

MCKinds == <<"outcome", "outcome", "outcome", "outcome">>
MCTypes == {"part_of"}
MCPositions == {1}
MCBackups == {}
=============================================================================
