--------------------------- MODULE MCCollaboration ---------------------------
(* A small instance of Collaboration for TLC. *)
EXTENDS Collaboration, TLC

CONSTANTS ann, bob, cid, eve, i1, i2, i3

(* eve never acts in the workspace's tenant. *)
MCPerson == {ann, bob, cid, eve}
MCColleague == {ann, bob, cid}
MCInvitation == {i1, i2, i3}

Symmetry == Permutations(MCInvitation) \cup Permutations(MCColleague)
=============================================================================
