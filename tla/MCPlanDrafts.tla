---------------------------- MODULE MCPlanDrafts ----------------------------
(* A small instance of ConversationLinks and PlanDrafts for TLC. *)
EXTENDS PlanDrafts, TLC

CONSTANTS k1, c1, c2, w1, w2, x1, x2, q1, q2, d1

MCConnection == {k1}
MCConversation == {c1, c2}
MCWorkspace == {w1, w2}
MCKey == {x1, x2}
MCCaller == {q1, q2}
MCDraft == {d1}
MCMentioned == {c1}
MCScopeChoices == {{"context"}}

(* A goal with an initiative; the same with a decision; one in a loop.     *)
Nodes == [goal |-> "outcome", way |-> "initiative", check |-> "criterion"]
Said(edges, claims) == [kinds |-> Nodes, edges |-> edges, claims |-> claims]
MCContent ==
  {Said(<<<<"way", "goal", "part_of">>, <<"check", "goal", "relates_to">>>>, FALSE),
   Said(<<<<"way", "goal", "part_of">>>>, TRUE),
   Said(<<<<"way", "goal", "depends_on">>, <<"goal", "way", "depends_on">>>>, FALSE)}

(* Up to four edges between four nodes. *)
MCGraphs ==
  LET pairs == {p \in (1..4) \X (1..4) : p[1] # p[2]}
  IN  {{p, q, r, s} : p, q, r, s \in pairs}

Symmetry ==
  Permutations(MCWorkspace)
     \cup Permutations(MCKey) \cup Permutations(MCCaller)
=============================================================================
