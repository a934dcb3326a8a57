-------------------------- MODULE MCChangeApproval --------------------------
(* A small instance of ChangeApproval for TLC. *)
EXTENDS ChangeApproval, TLC

CONSTANTS ann, bob, k1, c1, c2, e1

MCPerson == {ann, bob}
MCConnection == {k1}
MCOwnerOf == k1 :> ann
MCChange == {c1, c2}
MCEdit == {e1}

(* A client that may only propose, and one that may also apply. *)
MCScopeChoices == {{"propose"}, {"propose", "apply"}}

(* Adding work with a deadline, and a proposal that rewrites one thing and *)
(* removes another.                                                        *)
MCContent ==
  {[effects |-> {"created"}, guarded |-> TRUE],
   [effects |-> {"updated", "removed"}, guarded |-> FALSE]}

(* Additions only, and the widest range there is. *)
MCRangeChoices ==
  {[create |-> TRUE, update |-> FALSE, guarded |-> FALSE],
   [create |-> TRUE, update |-> TRUE, guarded |-> TRUE]}

(* The range's owner writes, and may lose that and get it back. *)
MCMemberships ==
  {(ann :> "editor") @@ (bob :> "owner"), (ann :> "viewer") @@ (bob :> "owner")}

(* With one change set everything may happen; two of them race while no   *)
(* member edits the plan but by deleting, and nobody disconnects or has    *)
(* disconnected while a range was saved.                                   *)
Small ==
  (\A c \in Change : changes[c] # NULL) =>
     /\ plan \subseteq Change
     /\ \A k \in Connection :
          /\ leaving[k] = "no" /\ conn[k].status # "revoked"
          /\ Standing(k) => ~range[k].overlapped

Symmetry == Permutations(MCChange)
=============================================================================
