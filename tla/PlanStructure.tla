--------------------------- MODULE PlanStructure ---------------------------
(***************************************************************************)
(* The structure of a plan (service.rs, breakdown.rs): the items of one    *)
(* workspace and the relations between them.  part_of says what an item is *)
(* a piece of and has a position among its siblings; contributes_to and    *)
(* depends_on say what it helps and what it waits for; relates_to is the   *)
(* same in both directions.                                                *)
(*                                                                         *)
(* Every request is one step: a write holds the workspace's lock from      *)
(* before it reads until it commits (module WriteRequests).  A request     *)
(* names the version it was written for and is refused when that is not    *)
(* the current one, as one is whose author may not change somebody's goal; *)
(* a refused request changes nothing, so only requests that are accepted   *)
(* are steps here, and versions and people are left out.  The identity of  *)
(* a relation is what it relates, which is what the code compares before   *)
(* it accepts one.                                                         *)
(***************************************************************************)
EXTENDS Integers, Sequences, FiniteSets

CONSTANTS
  NULL,         \* no position, no parent
  Kinds,        \* bound: the kinds of the items created, in this order
  Types,        \* bound: the relation types used
  Positions,    \* bound: the positions a relation is posted with
  Backups,      \* bound: the backups imported
  MaxLinks      \* bound: the relations there may be at once

Kind == {"idea", "outcome", "initiative", "action", "milestone"}
RelationType == {"part_of", "contributes_to", "depends_on", "relates_to"}

(* The types that must not close a loop. *)
Directed == {"part_of", "depends_on", "contributes_to"}

Item == 1..Len(Kinds)
Row == [kind : Kind, archived : BOOLEAN]
Link(S) == [type : RelationType, source : S, target : S, position : Int \cup {NULL}]

ASSUME NullAssumption == NULL \notin Int
ASSUME KindsAssumption == Kinds \in Seq(Kind)
ASSUME TypesAssumption == Types \subseteq RelationType
ASSUME PositionsAssumption == Positions \subseteq Int \cup {NULL}
(* A backup numbers the items it brings from 1, so that 0 is the last that *)
(* was there before.                                                       *)
ASSUME BackupsAssumption ==
  \A b \in Backups :
    /\ b.items \in Seq(Row)
    /\ IsFiniteSet(b.links)
    /\ \A x \in b.links : x \in Link(Int)
ASSUME BoundAssumption == MaxLinks \in Nat

VARIABLES
  items,        \* in the order of their creation, an item's number its place
  links         \* the relations

vars == <<items, links>>

TypeOK ==
  /\ items \in Seq(Row)
  /\ Len(items) <= Len(Kinds)
  /\ links \subseteq Link(Item)

Init == items = <<>> /\ links = {}

-----------------------------------------------------------------------------
(* The order of siblings. *)

(* placement: an unset position sorts last, the older item first on a tie. *)
Before(x, y) ==
  \/ x.position # NULL /\ (y.position = NULL \/ x.position < y.position)
  \/ x.position = y.position /\ x.source < y.source

(* How many of the links in S come before x. *)
Rank(S, x) == Cardinality({y \in S : Before(y, x)})

Placed == {x \in links : x.type = "part_of" /\ x.position # NULL}

PartOf(i) == {x \in links : x.type = "part_of" /\ x.source = i}

(* ordered_part_of_siblings, without the links of item i. *)
Siblings(p, i) ==
  {x \in links : /\ x.type = "part_of"
                 /\ x.target = p
                 /\ ~items[x.source].archived
                 /\ x.source # i}

(* What the breakdown lists under p: live_children in display order. *)
Shown(p) ==
  LET S == Siblings(p, NULL)
  IN  [k \in 1..Cardinality(S) |-> (CHOOSE x \in S : Rank(S, x) = k - 1).source]

-----------------------------------------------------------------------------
(* validate_relation: x against the other relations. *)

Arrow(L, type) == {y \in L : y.type = type}

(* What a search from a along the relations in L comes to: b is in every   *)
(* set of items that holds a and that no relation in L leaves.             *)
Reaches(L, a, b) ==
  \A C \in SUBSET Item :
    (a \in C /\ \A y \in L : y.source \in C => y.target \in C) => b \in C

(* Mutant: only the next step is looked at. *)
ClosesPair(L, x) ==
  x.type \in Directed /\ \E y \in Arrow(L, x.type) : y.source = x.target /\ y.target = x.source

ClosesLoop(L, x) ==
  x.type \in Directed /\ Reaches(Arrow(L, x.type), x.target, x.source)

Duplicates(L, x) ==
  \E y \in Arrow(L, x.type) :
    \/ y.source = x.source /\ y.target = x.target
    \/ x.type = "relates_to" /\ y.source = x.target /\ y.target = x.source

SecondParent(L, x) ==
  x.type = "part_of" /\ \E y \in Arrow(L, "part_of") : y.source = x.source

UnderAction(known, x) == x.type = "part_of" /\ known[x.target].kind = "action"

(* Mutant: another parent is no objection. *)
ValidForTarget(known, L, x) ==
  /\ {x.source, x.target} \subseteq DOMAIN known
  /\ x.source # x.target
  /\ ~UnderAction(known, x)
  /\ ~Duplicates(L, x)
  /\ ~ClosesLoop(L, x)

Valid(known, L, x) ==
  /\ {x.source, x.target} \subseteq DOMAIN known
  /\ x.source # x.target
  /\ ~UnderAction(known, x)
  /\ ~Duplicates(L, x)
  /\ ~SecondParent(L, x)
  /\ ~ClosesLoop(L, x)

NewLink(type, i, j, position) ==
  [type |-> type, source |-> i, target |-> j, position |-> position]

-----------------------------------------------------------------------------
(* The requests. *)

(* POST items, with a parent or without; carrying an item over into another *)
(* period creates one without.                                             *)
CreateItem(p) ==
  LET i == Len(items) + 1
      known == Append(items, [kind |-> Kinds[i], archived |-> FALSE])
      x == NewLink("part_of", i, p, NULL)
  IN  /\ i \in Item
      /\ items' = known
      /\ IF p = NULL
           THEN UNCHANGED links
           ELSE /\ Cardinality(links) < MaxLinks
                /\ Valid(known, links, x)
                /\ links' = links \cup {x}

(* PATCH items, archived_at. *)
SetArchived(i, archived) ==
  /\ i \in DOMAIN items
  /\ items' = [items EXCEPT ![i].archived = archived]
  /\ UNCHANGED links

(* POST relations *)
PostRelation(x) ==
  /\ Cardinality(links) < MaxLinks
  /\ Valid(items, links, x)
  /\ links' = links \cup {x}
  /\ UNCHANGED items

(* DELETE relations *)
DeleteRelation(x) ==
  /\ x \in links
  /\ links' = links \ {x}
  /\ UNCHANGED items

(* The links S, numbered in their order from 0, leaving out number gap. *)
Numbered(S, gap) ==
  {[x EXCEPT !.position = IF Rank(S, x) < gap THEN Rank(S, x) ELSE Rank(S, x) + 1] : x \in S}

(* Mutant: only the item that moves is given a number. *)
ReparentAlone(i, p, k) ==
  LET old == PartOf(i)
      there == Siblings(p, i)
      x == NewLink("part_of", i, p, k)
  IN  /\ i \in DOMAIN items
      /\ k \in 0..Cardinality(there)
      /\ old # {} \/ Cardinality(links) < MaxLinks
      /\ Valid(items, links \ old, x)
      /\ links' = (links \ old) \cup {x}
      /\ UNCHANGED items

(* Mutant: the siblings at both ends are numbered as if they were unplaced. *)
ByAge(S) == {[x EXCEPT !.position = Cardinality({y \in S : y.source < x.source})] : x \in S}
ReparentByAge(i, p, k) ==
  LET old == PartOf(i)
      left == UNION {Siblings(x.target, i) : x \in {y \in old : y.target # p}}
      there == Siblings(p, i)
      x == NewLink("part_of", i, p, k)
  IN  /\ i \in DOMAIN items
      /\ k \in 0..Cardinality(there)
      /\ old # {} \/ Cardinality(links) < MaxLinks
      /\ Valid(items, links \ old, x)
      /\ links' = (links \ (old \cup there \cup left))
                    \cup {x} \cup Numbered(there, k) \cup ByAge(left)
      /\ UNCHANGED items

(* POST items reparent: item i under p, after k of the children shown      *)
(* there; the siblings it joins and those it leaves are numbered again.    *)
(* Leaving out the position is asking for the last one under another item. *)
Reparent(i, p, k) ==
  LET old == PartOf(i)
      left == UNION {Siblings(x.target, i) : x \in {y \in old : y.target # p}}
      there == Siblings(p, i)
      x == NewLink("part_of", i, p, k)
      inPlace == \E y \in Siblings(p, NULL) : y.source = i /\ Rank(Siblings(p, NULL), y) = k
  IN  /\ i \in DOMAIN items
      /\ k \in 0..Cardinality(there)
      /\ ~inPlace
      /\ old # {} \/ Cardinality(links) < MaxLinks
      /\ Valid(items, links \ old, x)
      /\ links' = (links \ (old \cup there \cup left))
                    \cup {x} \cup Numbered(there, k) \cup Numbered(left, Cardinality(left))
      /\ UNCHANGED items

(* POST items reparent, parent_id null. *)
Detach(i) ==
  LET old == PartOf(i)
      left == UNION {Siblings(x.target, i) : x \in old}
  IN  /\ i \in DOMAIN items
      /\ old # {}
      /\ links' = (links \ (old \cup left)) \cup Numbered(left, Cardinality(left))
      /\ UNCHANGED items

(* POST items children: the children named are numbered as named, archived *)
(* ones too.  A request names a child once.                                *)
ArrangeChildren(p, wanted) ==
  LET named == {x \in links : x.type = "part_of" /\ x.target = p
                                /\ \E n \in DOMAIN wanted : wanted[n] = x.source}
      number(x) == (CHOOSE n \in DOMAIN wanted : wanted[n] = x.source) - 1
  IN  /\ p \in DOMAIN items
      /\ \A n \in DOMAIN wanted : \E x \in named : x.source = wanted[n]
      /\ links' = (links \ named) \cup {[x EXCEPT !.position = number(x)] : x \in named}
      /\ UNCHANGED items

Shifted(x, n) == [x EXCEPT !.source = @ + n, !.target = @ + n]

(* Mutant: only the relations the backup brings are looked at. *)
ImportBlindly(b) ==
  LET known == items \o b.items
      added == {Shifted(x, Len(items)) : x \in b.links}
  IN  /\ Len(known) <= Len(Kinds)
      /\ Cardinality(links \cup added) <= MaxLinks
      /\ links \cap added = {}
      /\ \A x \in added : Valid(known, added \ {x}, x)
      /\ items' = known
      /\ links' = links \cup added

(* POST imports: everything is stored, then every relation there is now is *)
(* looked at, and the whole is rolled back if one is refused.              *)
Import(b) ==
  LET known == items \o b.items
      added == {Shifted(x, Len(items)) : x \in b.links}
      all == links \cup added
  IN  /\ Len(known) <= Len(Kinds)
      /\ Cardinality(all) <= MaxLinks
      /\ links \cap added = {}
      /\ \A x \in all : Valid(known, all \ {x}, x)
      /\ items' = known
      /\ links' = all

(* The lists of children a request may name, each once. *)
Orders == UNION {{f \in [1..n -> Item] : \A a, b \in 1..n : f[a] = f[b] => a = b} : n \in 1..Len(Kinds)}

Next ==
  \/ \E p \in DOMAIN items \cup {NULL} : CreateItem(p)
  \/ \E i \in DOMAIN items, archived \in BOOLEAN : SetArchived(i, archived)
  \/ \E type \in Types, i, j \in DOMAIN items :
       \E position \in IF type = "part_of" THEN Positions ELSE {NULL} :
         PostRelation(NewLink(type, i, j, position))
  \/ \E x \in links : DeleteRelation(x)
  \/ \E i, p \in DOMAIN items : \E k \in 0..Len(items) : Reparent(i, p, k)
  \/ \E i \in DOMAIN items : Detach(i)
  \/ \E p \in DOMAIN items, wanted \in Orders : ArrangeChildren(p, wanted)
  \/ \E b \in Backups : Import(b)

Spec == Init /\ [][Next]_vars

-----------------------------------------------------------------------------
(* No loops: among any items there is one that is not part of, does not    *)
(* wait for, and does not contribute to another of them.  Each relation is *)
(* checked alone, as it comes, and relations arrive by every route.        *)
Trap(S, type) == \A i \in S : \E x \in Arrow(links, type) : x.source = i /\ x.target \in S

NoLoops == \A type \in Directed : \A S \in SUBSET Item : Trap(S, type) => S = {}

(* Where an item belongs has one answer, which is there and is not an      *)
(* action, and nothing is related to the same thing twice.                 *)
OneAnswer ==
  /\ \A x, y \in links :
       x.type = y.type /\ x.source = y.source /\ (x.type = "part_of" \/ x.target = y.target) => x = y
  /\ \A x \in links :
       /\ {x.source, x.target} \subseteq DOMAIN items
       /\ x.type = "part_of" => items[x.target].kind # "action"

(* As far as its relations go, the plan can be exported and imported again *)
(* at any time: every relation passes, against all the others, the check   *)
(* made when it was added, whatever the order in which they had come.      *)
Restorable == \A x \in links : Valid(items, links \ {x}, x)

(* An item moved to a place is the item shown at that place, and children  *)
(* put in an order are shown in that order, whatever numbers they, their   *)
(* siblings and the archived ones among them had.  A new item is shown     *)
(* after those that were there.                                            *)
LandsWhereAsked ==
  [][/\ \A x \in Placed' :
          LET i == x.source
          IN  Reparent(i, x.target, x.position) /\ ~items[i].archived =>
                Shown(x.target)'[x.position + 1] = i
     /\ \A p \in {x.target : x \in links' \ links}, wanted \in Orders :
          ArrangeChildren(p, wanted) =>
            LET list == Shown(p)'
            IN  \A a, b \in DOMAIN wanted, m, n \in DOMAIN list :
                  a < b /\ wanted[a] = list[m] /\ wanted[b] = list[n] => m < n
     /\ \A p \in DOMAIN items :
          CreateItem(p) => LET list == Shown(p)' IN list[Len(list)] = Len(items')]_vars

(* What is shown under each item changes only as an outline does: the      *)
(* children that are not moved keep their order.                           *)
Lists == [p \in Item |-> IF p \in DOMAIN items THEN Shown(p) ELSE <<>>]

Breakdown == INSTANCE Outline WITH shown <- Lists

Outlined == Breakdown!Spec
=============================================================================
