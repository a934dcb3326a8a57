----------------------------- MODULE MCPlanLinks -----------------------------
(* An instance of PlanStructure with every type of relation, in which      *)
(* three items can wait for each other in a circle and backups are taken   *)
(* in.                                                                     *)
EXTENDS PlanStructure

MCKinds == <<"outcome", "initiative", "action">>
MCPositions == {NULL}

Goal == [kind |-> "outcome", archived |-> FALSE]

(* A goal with a piece of it that is archived; two goals that wait for     *)
(* each other, which no export holds but a file may; and a goal over the   *)
(* last item there is.                                                     *)
MCBackups ==
  {[items |-> <<Goal, [Goal EXCEPT !.archived = TRUE]>>,
    links |-> {NewLink("part_of", 2, 1, 0)}],
   [items |-> <<Goal, Goal>>,
    links |-> {NewLink("depends_on", 1, 2, NULL), NewLink("depends_on", 2, 1, NULL)}],
   [items |-> <<Goal>>,
    links |-> {NewLink("part_of", 0, 1, NULL)}]}
=============================================================================
