------------------------------ MODULE MCHistory ------------------------------
(* A goal with an action under it and another goal, to which a third may be *)
(* added.                                                                  *)
EXTENDS History

Row(kind) == [kind |-> kind, archived |-> FALSE, title |-> 0, done |-> FALSE, since |-> NULL]

goal == 1
act == 2
other == 3
new == 4

MCStart ==
  [items |-> <<Row("outcome"), Row("action"), Row("outcome")>>,
   links |-> {NewLink("part_of", act, goal, NULL, 0)}]

MCRequests ==
  {<<Operation("edit", act, 1)>>,
   <<Operation("archive", act, NULL)>>,
   <<Operation("create", new, goal)>>,
   <<MoveTo(act, other, NULL)>>,
   <<MoveTo(new, goal, 0)>>,
   <<Operation("reopen", act, NULL)>>,
   <<Operation("relates_to", new, other)>>,
   <<Operation("relates_to", goal, other)>>,
   <<Unlink("relates_to", goal, other)>>,
   <<Unlink("part_of", act, goal)>>,
   <<Operation("create", new, other), MoveTo(act, other, NULL)>>,
   <<Operation("create", new, goal), MoveTo(act, goal, 0)>>,
   <<MoveTo(act, new, NULL)>>,
   <<MoveTo(act, NULL, NULL), Operation("part_of", act, other), Unlink("part_of", act, other)>>,
   <<Operation("archive", act, NULL), Operation("relates_to", other, act)>>}

MCTemplates == {<<Operation("create", new, NULL), Operation("part_of", new, other),
                 Operation("relates_to", new, act)>>}

(* Of the entries that come after three, those that take out again what    *)
(* the third put in, so that the plan is the one it was before.            *)
Small == Len(log) <= 3 \/ log[4].result = log[3].base

=============================================================================
