------------------------------- MODULE Outline -------------------------------
(***************************************************************************)
(* What the breakdown of a plan promises the person who reads it: under    *)
(* every item an ordered list of what it is broken down into, in which     *)
(* nothing changes its place because something else was moved, added,      *)
(* archived or taken away, and nothing is shown twice.                     *)
(***************************************************************************)
EXTENDS Naturals, SequencesExt

CONSTANT Item

VARIABLE shown     \* what is shown under each item, first to last

(* Which members of S list shows, and in which order: the pairs of them of *)
(* which the first is shown no later than the second.                      *)
Among(list, S) ==
  LET places == {n \in DOMAIN list : list[n] \in S}
  IN  {<<list[q[1]], list[q[2]]>> : q \in {q \in places \X places : q[1] <= q[2]}}

(* Every item is shown in one place at most. *)
Once(lists) ==
  \A p \in Item : \A m \in DOMAIN lists[p] :
    \A q \in Item : \A n \in DOMAIN lists[q] :
      lists[p][m] = lists[q][n] => p = q /\ m = n

(* Bound by a quantifier, the lists are computed once a state. *)
Orderly == shown \in [Item -> Seq(Item)] /\ \A lists \in {shown} : Once(lists)

Init == shown = [p \in Item |-> <<>>]

(* Item i appears, disappears or goes elsewhere, alone. *)
Move(i) ==
  \A p \in Item : shown'[p] # shown[p] => Among(shown'[p], Item \ {i}) = Among(shown[p], Item \ {i})

(* What is under p, and only that, is put in another order. *)
Arrange(p) ==
  \A q \in Item :
    shown'[q] # shown[q] => q = p /\ ToSet(shown'[q]) = ToSet(shown[q])

(* A backup brings items, wherever they go; what was there keeps its order. *)
Receive ==
  \A p \in Item : LET S == ToSet(shown[p]) IN Among(shown'[p], S) = Among(shown[p], S)

Next ==
  /\ Orderly'
  /\ \/ \E i \in Item : Move(i)
     \/ \E p \in Item : Arrange(p)
     \/ Receive

Spec == Init /\ [][Next]_shown
=============================================================================
