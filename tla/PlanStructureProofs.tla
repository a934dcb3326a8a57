------------------------ MODULE PlanStructureProofs ------------------------
(***************************************************************************)
(* Proofs about PlanStructure, for plans of any size and any backups.      *)
(*                                                                         *)
(* Everything rests on one invariant, that each relation passes against    *)
(* all the others the check it was added with.  It is kept because the     *)
(* check depends on what is related and not on positions, because a        *)
(* relation taken away only makes it weaker, and because a relation that   *)
(* passes against the others cannot make one of them fail.                 *)
(*                                                                         *)
(* What the breakdown shows follows from it: an item is shown by one link, *)
(* so that the order of siblings is strict, counting the siblings before   *)
(* an item is a bijection with the places of a list, and numbering them    *)
(* again keeps their order.                                                *)
(***************************************************************************)
EXTENDS PlanStructure, FiniteSetTheorems, TLAPS

(* Two links relate the same items in the same way. *)
SameArrow(x, y) == x.type = y.type /\ x.source = y.source /\ x.target = y.target

(* Each link in L is valid against the others. *)
Sound(known, L) == \A x \in L : Valid(known, L \ {x}, x)

(* The items in known are among those in more, and are what they were. *)
Grown(known, more) ==
  /\ DOMAIN known \subseteq DOMAIN more
  /\ \A i \in DOMAIN known : more[i].kind = known[i].kind

(* The links L, those in N with the positions h. *)
Renumbered(L, N, h) == (L \ N) \cup {[x EXCEPT !.position = h[x]] : x \in N}

IInv == TypeOK /\ IsFiniteSet(links) /\ Restorable

-----------------------------------------------------------------------------
(* What cannot be reached: there is a set of items that no link leaves.    *)

(* Fewer links reach less. *)
LEMMA ReachesLess ==
  ASSUME NEW L, NEW M, NEW a, NEW b,
         \A z \in M : \E w \in L : SameArrow(z, w),
         ~Reaches(L, a, b)
  PROVE  ~Reaches(M, a, b)
<1>1. PICK C \in SUBSET Item :
        a \in C /\ (\A y \in L : y.source \in C => y.target \in C) /\ b \notin C
  BY DEF Reaches
<1>2. \A z \in M : z.source \in C => z.target \in C
  BY <1>1 DEF SameArrow
<1> QED BY <1>1, <1>2 DEF Reaches

(* A link x that closes no loop, added to the others, makes none of them   *)
(* close one.                                                              *)
LEMMA NoNewLoop ==
  ASSUME NEW L, NEW x, NEW y \in L,
         ~Reaches(L \ {y}, y.target, y.source),
         ~Reaches(L, x.target, x.source)
  PROVE  ~Reaches((L \ {y}) \cup {x}, y.target, y.source)
<1>1. PICK C \in SUBSET Item :
        /\ y.target \in C /\ y.source \notin C
        /\ \A z \in L \ {y} : z.source \in C => z.target \in C
  BY DEF Reaches
<1>2. PICK D \in SUBSET Item :
        /\ x.target \in D /\ x.source \notin D
        /\ \A z \in L : z.source \in D => z.target \in D
  BY DEF Reaches
<1> DEFINE Cut(S) ==
      /\ S \in SUBSET Item
      /\ y.target \in S /\ y.source \notin S
      /\ \A z \in (L \ {y}) \cup {x} : z.source \in S => z.target \in S
<1>3. CASE x.source \notin C
  <2>1. Cut(C)
    BY <1>1, <1>3
  <2> QED BY <2>1 DEF Reaches
<1>4. CASE x.source \in C /\ y.source \in D
  <2>1. Cut(C \cap D)
    BY <1>1, <1>2, <1>4
  <2> QED BY <2>1 DEF Reaches
<1>5. CASE x.source \in C /\ y.source \notin D
  <2>1. Cut(C \cup D)
    BY <1>1, <1>2, <1>5
  <2> QED BY <2>1 DEF Reaches
<1> QED BY <1>3, <1>4, <1>5

-----------------------------------------------------------------------------
(* The check of one link against others. *)

(* It looks at what is related only, passes against fewer links, and in a  *)
(* plan with more items.                                                   *)
LEMMA ValidStays ==
  ASSUME NEW known, NEW more, Grown(known, more),
         NEW L, NEW M, \A z \in M : \E w \in L : SameArrow(z, w),
         NEW x, NEW y, SameArrow(x, y),
         Valid(known, L, x)
  PROVE  Valid(more, M, y)
<1>1. {y.source, y.target} \subseteq DOMAIN more /\ y.source # y.target /\ ~UnderAction(more, y)
  BY DEF Valid, SameArrow, Grown, UnderAction
<1>2. ~Duplicates(M, y)
  BY DEF Valid, Duplicates, Arrow, SameArrow
<1>3. ~SecondParent(M, y)
  BY DEF Valid, SecondParent, Arrow, SameArrow
<1>4. ~ClosesLoop(M, y)
  <2>1. \A z \in Arrow(M, y.type) : \E w \in Arrow(L, x.type) : SameArrow(z, w)
    BY DEF Arrow, SameArrow
  <2>2. ~ClosesLoop(L, x)
    BY DEF Valid
  <2>3. CASE x.type \in Directed
    <3>1. ~Reaches(Arrow(L, x.type), x.target, x.source)
      BY <2>2, <2>3 DEF ClosesLoop
    <3>2. ~Reaches(Arrow(M, y.type), x.target, x.source)
      BY <2>1, <3>1, ReachesLess
    <3> QED BY <3>2 DEF ClosesLoop, SameArrow
  <2>4. CASE x.type \notin Directed
    BY <2>4 DEF ClosesLoop, SameArrow
  <2> QED BY <2>3, <2>4
<1> QED BY <1>1, <1>2, <1>3, <1>4 DEF Valid

(* Two links that are valid against each other do not relate the same. *)
LEMMA Distinct ==
  ASSUME NEW known, NEW L, Sound(known, L), NEW x \in L, NEW y \in L, SameArrow(x, y)
  PROVE  x = y
<1> SUFFICES ASSUME x # y PROVE FALSE
  OBVIOUS
<1>1. y \in Arrow(L \ {x}, x.type)
  BY DEF Arrow, SameArrow
<1>2. ~Duplicates(L \ {x}, x)
  BY DEF Sound, Valid
<1> QED BY <1>1, <1>2 DEF Duplicates, SameArrow

LEMMA SoundSubset ==
  ASSUME NEW known, NEW more, Grown(known, more), NEW L, NEW M, M \subseteq L, Sound(known, L)
  PROVE  Sound(more, M)
<1> SUFFICES ASSUME NEW x \in M PROVE Valid(more, M \ {x}, x)
  BY DEF Sound
<1>1. Valid(known, L \ {x}, x)
  BY DEF Sound
<1>2. \A z \in M \ {x} : \E w \in L \ {x} : SameArrow(z, w)
  BY DEF SameArrow
<1>3. SameArrow(x, x)
  BY DEF SameArrow
<1> QED BY <1>1, <1>2, <1>3, ValidStays

(* Positions do not matter. *)
LEMMA SoundRenumbered ==
  ASSUME NEW known, NEW L, Sound(known, L),
         NEW g, \A x \in L : SameArrow(g[x], x)
  PROVE  Sound(known, {g[x] : x \in L})
<1> DEFINE M == {g[x] : x \in L}
<1> SUFFICES ASSUME NEW x \in L PROVE Valid(known, M \ {g[x]}, g[x])
  BY DEF Sound
<1>1. Valid(known, L \ {x}, x)
  BY DEF Sound
<1>2. \A z \in M \ {g[x]} : \E w \in L \ {x} : SameArrow(z, w)
  OBVIOUS
<1>3. SameArrow(x, g[x]) /\ Grown(known, known)
  BY DEF SameArrow, Grown
<1> HIDE DEF M
<1> QED BY <1>1, <1>2, <1>3, ValidStays

(* A link that passes against all the others makes none of them fail. *)
LEMMA SoundAdded ==
  ASSUME NEW known, NEW L, Sound(known, L), NEW x, Valid(known, L, x)
  PROVE  Sound(known, L \cup {x})
<1>1. x \notin L
  BY DEF Valid, Duplicates, Arrow
<1>2. Valid(known, (L \cup {x}) \ {x}, x)
  <2>1. (L \cup {x}) \ {x} = L
    BY <1>1
  <2> QED BY <2>1
<1>3. ASSUME NEW y \in L PROVE Valid(known, (L \cup {x}) \ {y}, y)
  <2> DEFINE M == (L \cup {x}) \ {y}
  <2>1. Valid(known, L \ {y}, y) /\ M = (L \ {y}) \cup {x}
    BY <1>1 DEF Sound
  <2>2. ~Duplicates(M, y)
    BY <2>1 DEF Valid, Duplicates, Arrow
  <2>3. ~SecondParent(M, y)
    BY <2>1 DEF Valid, SecondParent, Arrow
  <2>4. ~ClosesLoop(M, y)
    <3>1. CASE y.type \in Directed /\ x.type = y.type
      <4>1. /\ y \in Arrow(L, y.type)
            /\ Arrow(L \ {y}, y.type) = Arrow(L, y.type) \ {y}
            /\ Arrow(M, y.type) = (Arrow(L, y.type) \ {y}) \cup {x}
        BY <2>1, <3>1 DEF Arrow
      <4>2. ~Reaches(Arrow(L, y.type) \ {y}, y.target, y.source)
        BY <2>1, <3>1, <4>1 DEF Valid, ClosesLoop
      <4>3. ~Reaches(Arrow(L, y.type), x.target, x.source)
        BY <3>1 DEF Valid, ClosesLoop
      <4>4. ~Reaches((Arrow(L, y.type) \ {y}) \cup {x}, y.target, y.source)
        BY <4>1, <4>2, <4>3, NoNewLoop
      <4> QED BY <4>1, <4>4 DEF ClosesLoop
    <3>2. CASE y.type \notin Directed
      BY <3>2 DEF ClosesLoop
    <3>3. CASE x.type # y.type
      <4>1. Arrow(M, y.type) = Arrow(L \ {y}, y.type)
        BY <2>1, <3>3 DEF Arrow
      <4> QED BY <2>1, <4>1 DEF Valid, ClosesLoop
    <3> QED BY <3>1, <3>2, <3>3
  <2> QED BY <2>1, <2>2, <2>3, <2>4 DEF Valid
<1> QED BY <1>2, <1>3 DEF Sound

-----------------------------------------------------------------------------
(* The requests. *)

(* Links stay links when they are numbered, and there are as many. *)
LEMMA RankIsNat ==
  ASSUME NEW S, IsFiniteSet(S), NEW x
  PROVE  Rank(S, x) \in Nat
<1>1. {y \in S : Before(y, x)} \subseteq S
  OBVIOUS
<1> QED BY <1>1, FS_Subset, FS_CardinalityType DEF Rank

(* Numbers given to some of the links change no arrow; a set of links that *)
(* is sound, finite and well-typed remains so.                             *)
LEMMA Renumbering ==
  ASSUME NEW known, NEW L, L \subseteq Link(Item), IsFiniteSet(L), Sound(known, L),
         NEW N, N \subseteq L, NEW h, \A x \in N : h[x] \in Int
  PROVE  /\ Renumbered(L, N, h) \subseteq Link(Item)
         /\ IsFiniteSet(Renumbered(L, N, h))
         /\ Sound(known, Renumbered(L, N, h))
         /\ \A z \in Renumbered(L, N, h) : \E w \in L : SameArrow(z, w)
<1> DEFINE g == [x \in L |-> IF x \in N THEN [x EXCEPT !.position = h[x]] ELSE x]
<1>1. Renumbered(L, N, h) = {g[x] : x \in L}
  BY DEF Renumbered
<1>2. ASSUME NEW x \in L PROVE g[x] \in Link(Item) /\ SameArrow(g[x], x)
  BY DEF Link, SameArrow
<1>3. Sound(known, {g[x] : x \in L})
  <2> HIDE DEF g
  <2> QED BY <1>2, SoundRenumbered
<1>4. IsFiniteSet({g[x] : x \in L})
  <2>1. g \in Surjection(L, {g[x] : x \in L})
    BY DEF Surjection
  <2> HIDE DEF g
  <2> QED BY <2>1, FS_Surjection
<1>5. \A z \in {g[x] : x \in L} : \E w \in L : SameArrow(z, w)
  BY <1>2
<1> QED BY <1>1, <1>2, <1>3, <1>4, <1>5

LEMMA InvInit == Init => IInv
<1> SUFFICES ASSUME Init PROVE IInv
  OBVIOUS
<1>1. TypeOK
  BY KindsAssumption DEF Init, TypeOK
<1>2. IsFiniteSet(links)
  BY FS_EmptySet DEF Init
<1>3. Restorable
  BY DEF Init, Restorable
<1> QED BY <1>1, <1>2, <1>3 DEF IInv

LEMMA CreateItemKeeps == ASSUME IInv, NEW p \in DOMAIN items \cup {NULL}, CreateItem(p) PROVE IInv'
<1> DEFINE i == Len(items) + 1
           known == Append(items, [kind |-> Kinds[i], archived |-> FALSE])
           x == NewLink("part_of", i, p, NULL)
<1>1. items \in Seq(Row) /\ i \in 1..Len(Kinds) /\ Kinds[i] \in Kind /\ links \subseteq Link(Item)
  BY KindsAssumption DEF IInv, TypeOK, CreateItem, Item
<1>2. /\ items' = known /\ known \in Seq(Row) /\ Len(known) = i
      /\ DOMAIN known = 1..i
      /\ DOMAIN items = 1..Len(items)
  BY <1>1 DEF CreateItem, Row
<1>3. Grown(items, known)
  BY <1>1, <1>2 DEF Grown
<1>4. Sound(known, links)
  BY <1>3, SoundSubset DEF IInv, Restorable, Sound
<1> HIDE DEF known
<1>5. CASE p = NULL
  <2>1. links' = links
    BY <1>5 DEF CreateItem
  <2>2. TypeOK'
    BY <1>1, <1>2, <2>1 DEF TypeOK
  <2>3. IsFiniteSet(links)'
    BY <2>1 DEF IInv
  <2>4. Restorable'
    BY <1>2, <1>4, <2>1 DEF Restorable, Sound
  <2> QED BY <2>2, <2>3, <2>4 DEF IInv
<1>6. CASE p # NULL
  <2>1. Valid(known, links, x) /\ links' = links \cup {x}
    BY <1>6 DEF CreateItem, known
  <2>2. Sound(known, links')
    BY <1>4, <2>1, SoundAdded
  <2>3. IsFiniteSet(links')
    BY <2>1, FS_AddElement DEF IInv
  <2>4. x \in Link(Item)
    BY <1>1, <1>2, <1>6 DEF NewLink, Link, RelationType, Item
  <2>5. TypeOK'
    BY <1>1, <1>2, <2>1, <2>4 DEF TypeOK
  <2>6. Restorable'
    BY <1>2, <2>2 DEF Restorable, Sound
  <2> QED BY <2>3, <2>5, <2>6 DEF IInv
<1> QED BY <1>5, <1>6

LEMMA SetArchivedKeeps ==
  ASSUME IInv, NEW i \in DOMAIN items, NEW archived \in BOOLEAN, SetArchived(i, archived)
  PROVE  IInv'
<1> DEFINE row == [items[i] EXCEPT !.archived = archived]
<1>1. items \in Seq(Row) /\ items[i] \in Row /\ DOMAIN items = 1..Len(items)
  BY DEF IInv, TypeOK
<1>2. row \in Row /\ row.kind = items[i].kind
  BY <1>1 DEF Row
<1>3. items' = [items EXCEPT ![i] = row] /\ links' = links
  BY DEF SetArchived
<1>4. items' \in Seq(Row) /\ Len(items') = Len(items) /\ DOMAIN items' = DOMAIN items
  <2> HIDE DEF row
  <2> QED BY <1>1, <1>2, <1>3
<1>5. Grown(items, items')
  <2> HIDE DEF row
  <2> QED BY <1>1, <1>2, <1>3, <1>4 DEF Grown
<1>6. Sound(items', links)
  BY <1>5, SoundSubset DEF IInv, Restorable, Sound
<1> QED BY <1>3, <1>4, <1>6 DEF IInv, TypeOK, Restorable, Sound

LEMMA PostRelationKeeps ==
  ASSUME IInv, NEW type \in Types, NEW i \in DOMAIN items, NEW j \in DOMAIN items,
         NEW position \in Positions \cup {NULL},
         PostRelation(NewLink(type, i, j, position))
  PROVE  IInv'
<1> DEFINE x == NewLink(type, i, j, position)
<1>1. Valid(items, links, x) /\ links' = links \cup {x} /\ items' = items
  BY DEF PostRelation
<1>2. Sound(items, links')
  BY <1>1, SoundAdded DEF IInv, Restorable, Sound
<1>3. IsFiniteSet(links')
  BY <1>1, FS_AddElement DEF IInv
<1>4. x \in Link(Item)
  <2>1. i \in Item /\ j \in Item
    BY KindsAssumption DEF IInv, TypeOK, Item
  <2> QED BY <2>1, TypesAssumption, PositionsAssumption DEF NewLink, Link
<1> QED BY <1>1, <1>2, <1>3, <1>4 DEF IInv, TypeOK, Restorable, Sound

LEMMA DeleteRelationKeeps ==
  ASSUME IInv, NEW x \in links, DeleteRelation(x)
  PROVE  IInv'
<1>1. links' \subseteq links /\ items' = items
  BY DEF DeleteRelation
<1>2. Sound(items, links')
  BY <1>1, SoundSubset DEF IInv, Restorable, Sound, Grown
<1>3. IsFiniteSet(links')
  BY <1>1, FS_Subset DEF IInv
<1> QED BY <1>1, <1>2, <1>3 DEF IInv, TypeOK, Restorable, Sound

(* The siblings of an item: links other than the item's own. *)
LEMMA SiblingLinks ==
  ASSUME IsFiniteSet(links), NEW p, NEW i
  PROVE  /\ Siblings(p, i) \subseteq links \ PartOf(i)
         /\ IsFiniteSet(Siblings(p, i))
         /\ \A y \in Siblings(p, i) : y.target = p
<1>1. Siblings(p, i) \subseteq links \ PartOf(i) /\ \A y \in Siblings(p, i) : y.target = p
  BY DEF Siblings, PartOf
<1>2. Siblings(p, i) \subseteq links
  BY <1>1
<1> QED BY <1>1, <1>2, FS_Subset

LEMMA ReparentKeeps ==
  ASSUME IInv, NEW i \in DOMAIN items, NEW p \in DOMAIN items, NEW k \in 0..Len(items),
         Reparent(i, p, k)
  PROVE  IInv'
<1> DEFINE old == PartOf(i)
           left == UNION {Siblings(y.target, i) : y \in {y \in old : y.target # p}}
           there == Siblings(p, i)
           x == NewLink("part_of", i, p, k)
           kept == links \ old
           N == there \cup left
           h == [y \in N |-> IF y \in there
                               THEN IF Rank(there, y) < k THEN Rank(there, y) ELSE Rank(there, y) + 1
                               ELSE IF Rank(left, y) < Cardinality(left)
                                      THEN Rank(left, y) ELSE Rank(left, y) + 1]
           M == Renumbered(kept, N, h)
<1>1. /\ items' = items
      /\ Valid(items, kept, x)
      /\ links' = (links \ (old \cup there \cup left))
                    \cup {x} \cup Numbered(there, k) \cup Numbered(left, Cardinality(left))
  BY DEF Reparent
<1>2. there \subseteq kept /\ left \subseteq kept /\ there \cap left = {}
  BY SiblingLinks DEF IInv
<1>3. kept \subseteq Link(Item) /\ IsFiniteSet(kept) /\ Sound(items, kept)
  <2>1. kept \subseteq links
    OBVIOUS
  <2>2. Grown(items, items)
    BY DEF Grown
  <2> HIDE DEF kept
  <2>3. Sound(items, kept)
    BY <2>1, <2>2, SoundSubset DEF IInv, Restorable, Sound
  <2> QED BY <2>1, <2>3, FS_Subset DEF IInv, TypeOK
<1>4. \A y \in N : h[y] \in Int
  <2>1. IsFiniteSet(there) /\ IsFiniteSet(left)
    <3> HIDE DEF there, left, kept
    <3> QED BY <1>2, <1>3, FS_Subset
  <2>2. \A y : Rank(there, y) \in Int /\ Rank(left, y) \in Int
    <3> HIDE DEF there, left
    <3> QED BY <2>1, RankIsNat
  <2> HIDE DEF there, left
  <2> QED BY <2>2
<1>5. links' = M \cup {x}
  <2>1. Numbered(there, k) = {[y EXCEPT !.position = h[y]] : y \in there}
    <3> HIDE DEF there, left
    <3> QED BY DEF Numbered
  <2>2. Numbered(left, Cardinality(left)) = {[y EXCEPT !.position = h[y]] : y \in left}
    <3> HIDE DEF there, left, kept
    <3> QED BY <1>2 DEF Numbered
  <2>3. links \ (old \cup there \cup left) = kept \ N
    <3> HIDE DEF there, left, old
    <3> QED OBVIOUS
  <2> HIDE DEF there, left, old, kept, h, x
  <2> QED BY <1>1, <2>1, <2>2, <2>3 DEF Renumbered
<1>6. M \subseteq Link(Item) /\ IsFiniteSet(M) /\ Sound(items, M)
      /\ \A z \in M : \E w \in kept : SameArrow(z, w)
  <2>1. N \subseteq kept
    BY <1>2
  <2> HIDE DEF N, kept, h
  <2> QED BY <1>3, <1>4, <2>1, Renumbering
<1>7. Valid(items, M, x)
  <2> HIDE DEF M, kept, x
  <2> QED BY <1>1, <1>6, ValidStays DEF Grown, SameArrow
<1>8. x \in Link(Item)
  <2>1. i \in Item /\ p \in Item /\ k \in Int
    BY KindsAssumption DEF IInv, TypeOK, Item
  <2> QED BY <2>1 DEF NewLink, Link, RelationType
<1> HIDE DEF M, x
<1>9. Sound(items, links')
  BY <1>5, <1>6, <1>7, SoundAdded
<1>10. IsFiniteSet(links') /\ links' \subseteq Link(Item)
  BY <1>5, <1>6, <1>8, FS_AddElement
<1> QED BY <1>1, <1>9, <1>10 DEF IInv, TypeOK, Restorable, Sound

LEMMA DetachKeeps ==
  ASSUME IInv, NEW i \in DOMAIN items, Detach(i)
  PROVE  IInv'
<1> DEFINE old == PartOf(i)
           left == UNION {Siblings(y.target, i) : y \in old}
           kept == links \ old
           h == [y \in left |-> IF Rank(left, y) < Cardinality(left)
                                  THEN Rank(left, y) ELSE Rank(left, y) + 1]
           M == Renumbered(kept, left, h)
<1>1. items' = items /\ links' = (links \ (old \cup left)) \cup Numbered(left, Cardinality(left))
  BY DEF Detach
<1>2. left \subseteq kept
  BY SiblingLinks DEF IInv
<1>3. kept \subseteq Link(Item) /\ IsFiniteSet(kept) /\ Sound(items, kept)
  <2>1. kept \subseteq links
    OBVIOUS
  <2>2. Grown(items, items)
    BY DEF Grown
  <2> HIDE DEF kept
  <2>3. Sound(items, kept)
    BY <2>1, <2>2, SoundSubset DEF IInv, Restorable, Sound
  <2> QED BY <2>1, <2>3, FS_Subset DEF IInv, TypeOK
<1>4. \A y \in left : h[y] \in Int
  <2> HIDE DEF left, kept
  <2>1. \A y : Rank(left, y) \in Int
    BY <1>2, <1>3, FS_Subset, RankIsNat
  <2> QED BY <2>1
<1>5. links' = M
  <2>1. Numbered(left, Cardinality(left)) = {[y EXCEPT !.position = h[y]] : y \in left}
    <3> HIDE DEF left
    <3> QED BY DEF Numbered
  <2>2. links \ (old \cup left) = kept \ left
    <3> HIDE DEF left, old
    <3> QED OBVIOUS
  <2> HIDE DEF left, old, kept, h
  <2> QED BY <1>1, <2>1, <2>2 DEF Renumbered
<1>6. M \subseteq Link(Item) /\ IsFiniteSet(M) /\ Sound(items, M)
  <2> HIDE DEF left, kept, h
  <2> QED BY <1>2, <1>3, <1>4, Renumbering
<1> HIDE DEF M
<1> QED BY <1>1, <1>5, <1>6 DEF IInv, TypeOK, Restorable, Sound

LEMMA ArrangeChildrenKeeps ==
  ASSUME IInv, NEW p \in DOMAIN items, NEW wanted \in Orders, ArrangeChildren(p, wanted)
  PROVE  IInv'
<1> DEFINE named == {x \in links : x.type = "part_of" /\ x.target = p
                                     /\ \E n \in DOMAIN wanted : wanted[n] = x.source}
           h == [x \in named |-> (CHOOSE n \in DOMAIN wanted : wanted[n] = x.source) - 1]
           M == Renumbered(links, named, h)
<1>1. items' = items /\ links' = M
  BY DEF ArrangeChildren, Renumbered
<1>2. \A x \in named : h[x] \in Int
  <2>1. DOMAIN wanted \subseteq Int
    BY DEF Orders
  <2> QED BY <2>1
<1>3. M \subseteq Link(Item) /\ IsFiniteSet(M) /\ Sound(items, M)
  <2>1. named \subseteq links
    OBVIOUS
  <2> HIDE DEF named, h
  <2> QED BY <1>2, <2>1, Renumbering DEF IInv, TypeOK, Restorable, Sound
<1> HIDE DEF M
<1> QED BY <1>1, <1>3 DEF IInv, TypeOK, Restorable, Sound

LEMMA ImportKeeps ==
  ASSUME IInv, NEW b \in Backups, Import(b)
  PROVE  IInv'
<1> DEFINE known == items \o b.items
           f == [x \in b.links |-> Shifted(x, Len(items))]
           added == {f[x] : x \in b.links}
<1>1. /\ items' = known /\ links' = links \cup added
      /\ Len(known) <= Len(Kinds)
      /\ \A x \in links' : Valid(known, links' \ {x}, x)
  BY DEF Import
<1>2. known \in Seq(Row) /\ DOMAIN known \subseteq Item
  BY <1>1, BackupsAssumption, KindsAssumption DEF IInv, TypeOK, Item
<1>3. IsFiniteSet(links')
  <2>1. f \in Surjection(b.links, added)
    BY DEF Surjection
  <2>2. IsFiniteSet(added)
    <3> HIDE DEF f, added
    <3> QED BY <2>1, BackupsAssumption, FS_Surjection
  <2> HIDE DEF added
  <2> QED BY <1>1, <2>2, FS_Union DEF IInv
<1>4. added \subseteq Link(Item)
  <2> SUFFICES ASSUME NEW x \in b.links PROVE f[x] \in Link(Item)
    OBVIOUS
  <2>1. x \in Link(Int)
    BY BackupsAssumption
  <2>2. f[x].source \in Item /\ f[x].target \in Item
    <3> HIDE DEF f, known
    <3> QED BY <1>1, <1>2 DEF Valid
  <2> QED BY <2>1, <2>2 DEF Shifted, Link
<1> HIDE DEF known, added
<1> QED BY <1>1, <1>2, <1>3, <1>4 DEF IInv, TypeOK, Restorable

LEMMA InvNext == IInv /\ [Next]_vars => IInv'
<1> SUFFICES ASSUME IInv, [Next]_vars PROVE IInv'
  OBVIOUS
<1>1. CASE \E p \in DOMAIN items \cup {NULL} : CreateItem(p)
  BY <1>1, CreateItemKeeps
<1>2. CASE \E i \in DOMAIN items, archived \in BOOLEAN : SetArchived(i, archived)
  BY <1>2, SetArchivedKeeps
<1>3. CASE \E type \in Types, i, j \in DOMAIN items :
             \E position \in IF type = "part_of" THEN Positions ELSE {NULL} :
               PostRelation(NewLink(type, i, j, position))
  <2>1. PICK type \in Types, i \in DOMAIN items, j \in DOMAIN items :
          \E position \in IF type = "part_of" THEN Positions ELSE {NULL} :
            PostRelation(NewLink(type, i, j, position))
    BY <1>3
  <2>2. PICK position \in Positions \cup {NULL} : PostRelation(NewLink(type, i, j, position))
    BY <2>1
  <2> QED BY <2>2, PostRelationKeeps
<1>4. CASE \E x \in links : DeleteRelation(x)
  BY <1>4, DeleteRelationKeeps
<1>5. CASE \E i, p \in DOMAIN items : \E k \in 0..Len(items) : Reparent(i, p, k)
  BY <1>5, ReparentKeeps
<1>6. CASE \E i \in DOMAIN items : Detach(i)
  BY <1>6, DetachKeeps
<1>7. CASE \E p \in DOMAIN items, wanted \in Orders : ArrangeChildren(p, wanted)
  BY <1>7, ArrangeChildrenKeeps
<1>8. CASE \E b \in Backups : Import(b)
  BY <1>8, ImportKeeps
<1>9. CASE UNCHANGED vars
  BY <1>9 DEF vars, IInv, TypeOK, Restorable
<1> QED BY <1>1, <1>2, <1>3, <1>4, <1>5, <1>6, <1>7, <1>8, <1>9 DEF Next

-----------------------------------------------------------------------------
(* The invariant holds of every reachable plan. *)
THEOREM Invariance == Spec => []IInv
BY InvInit, InvNext, PTL DEF Spec

(* Items and relations keep their form in every reachable plan. *)
THEOREM TypeCorrect == Spec => []TypeOK
<1>1. IInv => TypeOK
  BY DEF IInv
<1> QED BY <1>1, Invariance, PTL

(* An export taken at any time passes, when imported, the check made of    *)
(* every relation (import, validate_relation).                             *)
THEOREM AlwaysRestorable == Spec => []Restorable
<1>1. IInv => Restorable
  BY DEF IInv
<1> QED BY <1>1, Invariance, PTL

LEMMA OneAnswerHolds == IInv => OneAnswer
<1> SUFFICES ASSUME IInv PROVE OneAnswer
  OBVIOUS
<1>1. ASSUME NEW x \in links, NEW y \in links, x.type = y.type, x.source = y.source,
             x.type = "part_of" \/ x.target = y.target
      PROVE  x = y
  <2> SUFFICES ASSUME x # y PROVE FALSE
    OBVIOUS
  <2>1. Valid(items, links \ {x}, x) /\ y \in Arrow(links \ {x}, x.type)
    BY <1>1 DEF IInv, Restorable, Arrow
  <2>2. CASE x.type = "part_of"
    BY <1>1, <2>1, <2>2 DEF Valid, SecondParent
  <2>3. CASE x.target = y.target
    BY <1>1, <2>1, <2>3 DEF Valid, Duplicates
  <2> QED BY <1>1, <2>2, <2>3
<1>2. ASSUME NEW x \in links
      PROVE  /\ {x.source, x.target} \subseteq DOMAIN items
             /\ x.type = "part_of" => items[x.target].kind # "action"
  BY DEF IInv, Restorable, Valid, UnderAction
<1> QED BY <1>1, <1>2 DEF OneAnswer

(* No item is ever part of two others, of an action, or of one that is not *)
(* there, and nothing is related twice, whichever request related it.      *)
THEOREM AlwaysOneAnswer == Spec => []OneAnswer
BY OneAnswerHolds, Invariance, PTL

(* A smallest set of items each of which leads to another of the set would *)
(* have a smaller one in it: what can be reached along one of its links    *)
(* without taking that link.                                               *)
LEMMA SmallerTrap ==
  ASSUME IInv, NEW type \in Directed, NEW S \in SUBSET Item, S # {}, Trap(S, type)
  PROVE  \E R \in SUBSET S : R # S /\ R # {} /\ Trap(R, type)
<1>1. PICK i \in S : TRUE
  OBVIOUS
<1>2. PICK x \in Arrow(links, type) : x.source = i /\ x.target \in S
  BY DEF Trap
<1>3. ~Reaches(Arrow(links \ {x}, type), x.target, x.source)
  BY <1>2 DEF IInv, Restorable, Valid, ClosesLoop, Arrow
<1>4. PICK C \in SUBSET Item :
        /\ x.target \in C /\ x.source \notin C
        /\ \A y \in Arrow(links \ {x}, type) : y.source \in C => y.target \in C
  BY <1>3 DEF Reaches
<1> DEFINE R == S \cap C
<1>5. R \in SUBSET S /\ R # S /\ R # {}
  BY <1>2, <1>4
<1>6. ASSUME NEW j \in R
      PROVE  \E y \in Arrow(links, type) : y.source = j /\ y.target \in R
  <2>1. PICK y \in Arrow(links, type) : y.source = j /\ y.target \in S
    BY DEF Trap
  <2>2. y \in Arrow(links \ {x}, type)
    BY <1>4, <2>1 DEF Arrow
  <2> QED BY <1>4, <2>1, <2>2
<1> QED BY <1>5, <1>6 DEF Trap

(* However relations were added, moved, taken away and imported, no item   *)
(* is ever part of, waits for or contributes to itself, through any number *)
(* of others.                                                              *)
THEOREM NeverLoops == Spec => []NoLoops
<1>1. IInv => NoLoops
  <2> SUFFICES ASSUME IInv, NEW type \in Directed, NEW S \in SUBSET Item, Trap(S, type), S # {}
               PROVE  FALSE
    BY DEF NoLoops
  <2> DEFINE traps == {R \in SUBSET Item : R # {} /\ Trap(R, type)}
  <2>1. IsFiniteSet(Item) /\ traps \subseteq FiniteSubsetsOf(Item) /\ traps # {}
    <3>1. IsFiniteSet(Item)
      BY KindsAssumption, FS_Interval DEF Item
    <3> QED BY <3>1, FS_FiniteSubsetsOfFinite
  <2>2. IsWellFoundedOn(StrictSubsetOrdering(Item), FiniteSubsetsOf(Item))
    BY FS_StrictSubsetOrderingWellFounded
  <2>3. PICK R \in traps : \A Q \in traps : <<Q, R>> \notin StrictSubsetOrdering(Item)
    <3> HIDE DEF traps
    <3> QED BY <2>1, <2>2, WFMin, Zenon
  <2>4. PICK Q \in SUBSET R : Q # R /\ Q # {} /\ Trap(Q, type)
    BY <2>3, SmallerTrap
  <2>5. Q \in traps /\ <<Q, R>> \in StrictSubsetOrdering(Item)
    BY <2>4 DEF StrictSubsetOrdering
  <2> QED BY <2>3, <2>5
<1> QED BY <1>1, Invariance, PTL
-----------------------------------------------------------------------------
(* The order of siblings.  No item is in S by two links, so that Before    *)
(* orders S strictly and Rank counts it from 0.                            *)

Family(S) ==
  /\ IsFiniteSet(S)
  /\ S \subseteq Link(Int)
  /\ \A x, y \in S : x.source = y.source => x = y

(* What is shown of the links S. *)
InOrder(S) ==
  [k \in 1..Cardinality(S) |-> (CHOOSE x \in S : Rank(S, x) = k - 1).source]

LEMMA BeforeOrders ==
  ASSUME NEW S, Family(S)
  PROVE  /\ \A x \in S : ~Before(x, x)
         /\ \A x, y, z \in S : Before(x, y) /\ Before(y, z) => Before(x, z)
         /\ \A x, y \in S : x = y \/ Before(x, y) \/ Before(y, x)
<1>1. ASSUME NEW x \in S PROVE ~Before(x, x)
  BY NullAssumption DEF Family, Link, Before
<1>2. ASSUME NEW x \in S, NEW y \in S, NEW z \in S, Before(x, y), Before(y, z)
      PROVE  Before(x, z)
  BY <1>2, NullAssumption DEF Family, Link, Before
<1>3. ASSUME NEW x \in S, NEW y \in S, x # y PROVE Before(x, y) \/ Before(y, x)
  BY <1>3, NullAssumption DEF Family, Link, Before
<1> QED BY <1>1, <1>2, <1>3

LEMMA RankGrows ==
  ASSUME NEW S, Family(S), NEW x \in S, NEW y \in S
  PROVE  /\ Rank(S, x) \in 0..(Cardinality(S) - 1)
         /\ Before(x, y) <=> Rank(S, x) < Rank(S, y)
         /\ Rank(S, x) = Rank(S, y) => x = y
<1> DEFINE Ahead(z) == {w \in S : Before(w, z)}
<1>1. IsFiniteSet(S) /\ Cardinality(S) \in Nat
  BY FS_CardinalityType DEF Family
<1>2. \A z : Rank(S, z) = Cardinality(Ahead(z)) /\ IsFiniteSet(Ahead(z)) /\ Rank(S, z) \in Nat
  <2> TAKE z
  <2>1. Ahead(z) \in SUBSET S
    OBVIOUS
  <2>2. IsFiniteSet(Ahead(z))
    <3> HIDE DEF Ahead
    <3> QED BY <1>1, <2>1, FS_Subset
  <2>3. Rank(S, z) = Cardinality(Ahead(z))
    BY DEF Rank
  <2> QED BY <2>2, <2>3, FS_CardinalityType
<1>3. Rank(S, x) < Cardinality(S)
  <2>1. Ahead(x) \in SUBSET S /\ x \notin Ahead(x)
    BY BeforeOrders
  <2> HIDE DEF Ahead
  <2>2. Cardinality(Ahead(x)) <= Cardinality(S) /\ Cardinality(Ahead(x)) # Cardinality(S)
    BY <1>1, <2>1, FS_Subset
  <2> QED BY <1>1, <1>2, <2>2
<1>4. ASSUME NEW v \in S, NEW w \in S, Before(v, w) PROVE Rank(S, v) < Rank(S, w)
  <2>1. Ahead(v) \in SUBSET Ahead(w) /\ v \in Ahead(w) /\ v \notin Ahead(v)
    BY <1>4, BeforeOrders
  <2> HIDE DEF Ahead
  <2>2. Cardinality(Ahead(v)) <= Cardinality(Ahead(w)) /\ Cardinality(Ahead(v)) # Cardinality(Ahead(w))
    BY <1>2, <2>1, FS_Subset
  <2>3. Rank(S, v) = Cardinality(Ahead(v)) /\ Rank(S, w) = Cardinality(Ahead(w))
        /\ Rank(S, v) \in Nat /\ Rank(S, w) \in Nat
    BY <1>2
  <2> QED BY <2>2, <2>3
<1>5. x = y \/ Before(x, y) \/ Before(y, x)
  BY BeforeOrders
<1>6. Rank(S, x) \in Nat /\ Rank(S, y) \in Nat
  BY <1>2
<1>7. Before(x, y) => Rank(S, x) < Rank(S, y)
  BY <1>4
<1>8. Before(y, x) => Rank(S, y) < Rank(S, x)
  BY <1>4
<1> HIDE DEF Ahead
<1> QED BY <1>1, <1>3, <1>5, <1>6, <1>7, <1>8

(* Every place up to the last is taken by one of them. *)
LEMMA RankReaches ==
  ASSUME NEW S, Family(S), NEW k \in 0..(Cardinality(S) - 1)
  PROVE  \E x \in S : Rank(S, x) = k
<1> DEFINE n == Cardinality(S)
           T == 0..(n - 1)
           f == [x \in S |-> Rank(S, x)]
<1>1. IsFiniteSet(S) /\ n \in Nat
  BY FS_CardinalityType DEF Family
<1>2. f \in Injection(S, T)
  <2>1. \A x, y \in S : Rank(S, x) \in T /\ (Rank(S, x) = Rank(S, y) => x = y)
    BY RankGrows
  <2> HIDE DEF T
  <2> QED BY <2>1 DEF Injection, IsInjective
<1>3. IsFiniteSet(T) /\ Cardinality(T) = n
  BY <1>1, FS_Interval
<1>4. f \in Surjection(S, T)
  <2> HIDE DEF f, T, n
  <2>1. Cardinality(S) = n
    BY DEF n
  <2> QED BY <1>2, <1>3, <2>1, FS_Injection
<1> QED BY <1>4 DEF Surjection

(* The list shows each of them at the place of its rank, and nothing else. *)
LEMMA InOrderShows ==
  ASSUME NEW S, Family(S)
  PROVE  /\ DOMAIN InOrder(S) = 1..Cardinality(S) /\ Cardinality(S) \in Nat
         /\ \A x \in S : /\ Rank(S, x) \in Nat
                         /\ Rank(S, x) + 1 \in DOMAIN InOrder(S)
                         /\ InOrder(S)[Rank(S, x) + 1] = x.source
         /\ \A k \in DOMAIN InOrder(S) :
              \E x \in S : Rank(S, x) = k - 1 /\ InOrder(S)[k] = x.source
<1>1. Cardinality(S) \in Nat
  BY FS_CardinalityType DEF Family
<1>2. DOMAIN InOrder(S) = 1..Cardinality(S)
  BY DEF InOrder
<1>3. ASSUME NEW k \in 1..Cardinality(S)
      PROVE  \E x \in S : Rank(S, x) = k - 1 /\ InOrder(S)[k] = x.source
  <2>1. k - 1 \in 0..(Cardinality(S) - 1)
    BY <1>1
  <2>2. \E x \in S : Rank(S, x) = k - 1
    BY <2>1, RankReaches
  <2> DEFINE x == CHOOSE x \in S : Rank(S, x) = k - 1
  <2>3. x \in S /\ Rank(S, x) = k - 1
    BY <2>2
  <2>4. InOrder(S)[k] = x.source
    BY DEF InOrder
  <2> HIDE DEF x
  <2> QED BY <2>3, <2>4
<1>4. ASSUME NEW x \in S
      PROVE  /\ Rank(S, x) \in Nat
             /\ Rank(S, x) + 1 \in 1..Cardinality(S)
             /\ InOrder(S)[Rank(S, x) + 1] = x.source
  <2>1. Rank(S, x) \in 0..(Cardinality(S) - 1)
    BY RankGrows
  <2>2. Rank(S, x) \in Nat /\ Rank(S, x) + 1 \in 1..Cardinality(S) /\ (Rank(S, x) + 1) - 1 = Rank(S, x)
    BY <1>1, <2>1
  <2>3. PICK y \in S : Rank(S, y) = Rank(S, x) /\ InOrder(S)[Rank(S, x) + 1] = y.source
    BY <1>3, <2>2
  <2>4. y = x
    BY <2>3, RankGrows
  <2> QED BY <2>2, <2>3, <2>4
<1> QED BY <1>1, <1>2, <1>3, <1>4

(* Who is shown no later than whom. *)
LEMMA AmongPairs ==
  ASSUME NEW S, Family(S), NEW U, NEW a, NEW b
  PROVE  <<a, b>> \in Breakdown!Among(InOrder(S), U) <=>
           /\ a \in U /\ b \in U
           /\ \E x, y \in S : x.source = a /\ y.source = b /\ (x = y \/ Before(x, y))
<1> DEFINE list == InOrder(S)
           places == {n \in DOMAIN list : list[n] \in U}
<1>1. DOMAIN list \subseteq Nat
  BY InOrderShows
<1>2. <<a, b>> \in Breakdown!Among(list, U) <=>
        \E m, n \in places : m <= n /\ a = list[m] /\ b = list[n]
  <2>1. ASSUME <<a, b>> \in Breakdown!Among(list, U)
        PROVE  \E m, n \in places : m <= n /\ a = list[m] /\ b = list[n]
    <3> HIDE DEF list
    <3>1. PICK q \in {q \in places \X places : q[1] <= q[2]} : <<a, b>> = <<list[q[1]], list[q[2]]>>
      BY <2>1 DEF Breakdown!Among
    <3> HIDE DEF places
    <3>2. q[1] \in places /\ q[2] \in places /\ q[1] <= q[2] /\ a = list[q[1]] /\ b = list[q[2]]
      BY <3>1
    <3> QED BY <3>2
  <2>2. ASSUME NEW m \in places, NEW n \in places, m <= n, a = list[m], b = list[n]
        PROVE  <<a, b>> \in Breakdown!Among(list, U)
    <3> HIDE DEF list
    <3>1. <<m, n>> \in {q \in places \X places : q[1] <= q[2]}
      BY <2>2
    <3>2. <<list[<<m, n>>[1]], list[<<m, n>>[2]]>> = <<a, b>>
      BY <2>2
    <3>3. <<a, b>> \in {<<list[q[1]], list[q[2]]>> : q \in {q \in places \X places : q[1] <= q[2]}}
      BY <3>1, <3>2
    <3> QED BY <3>3 DEF Breakdown!Among
  <2> HIDE DEF places, list
  <2> QED BY <2>1, <2>2
<1>3. ASSUME NEW m \in places, NEW n \in places, m <= n, a = list[m], b = list[n]
      PROVE  /\ a \in U /\ b \in U
             /\ \E x, y \in S : x.source = a /\ y.source = b /\ (x = y \/ Before(x, y))
  <2>1. PICK x \in S : Rank(S, x) = m - 1 /\ list[m] = x.source
    BY InOrderShows
  <2>2. PICK y \in S : Rank(S, y) = n - 1 /\ list[n] = y.source
    BY InOrderShows
  <2>3. x = y \/ Before(x, y)
    <3>1. m \in Nat /\ n \in Nat
      BY <1>1
    <3>2. Rank(S, x) = Rank(S, y) \/ Rank(S, x) < Rank(S, y)
      BY <1>3, <2>1, <2>2, <3>1
    <3> QED BY <3>2, RankGrows
  <2> QED BY <1>3, <2>1, <2>2, <2>3
<1>4. ASSUME a \in U, b \in U, NEW x \in S, NEW y \in S, x.source = a, y.source = b,
             x = y \/ Before(x, y)
      PROVE  \E m, n \in places : m <= n /\ a = list[m] /\ b = list[n]
  <2> DEFINE m == Rank(S, x) + 1
             n == Rank(S, y) + 1
  <2>1. /\ Rank(S, x) \in Nat /\ m \in DOMAIN list /\ list[m] = a
        /\ Rank(S, y) \in Nat /\ n \in DOMAIN list /\ list[n] = b
    BY <1>4, InOrderShows
  <2>2. x = y \/ Rank(S, x) < Rank(S, y)
    BY <1>4, RankGrows
  <2>3. m <= n
    BY <2>1, <2>2
  <2>4. m \in places /\ n \in places
    BY <1>4, <2>1
  <2> HIDE DEF m, n, places, list
  <2> QED BY <2>1, <2>3, <2>4
<1> HIDE DEF places, list
<1>5. QED BY <1>2, <1>3, <1>4 DEF list

LEMMA AmongIsPairs ==
  ASSUME NEW list, NEW U
  PROVE  \A z \in Breakdown!Among(list, U) : z = <<z[1], z[2]>>
BY DEF Breakdown!Among

(* The lists of S and of T have the members of U in the same order when T  *)
(* has a link of each of those in S, and no others, and puts them in the   *)
(* order in which S has them.                                              *)
LEMMA SameAmong ==
  ASSUME NEW S, Family(S), NEW T, Family(T), NEW U,
         \A x \in S : x.source \in U => \E y \in T : y.source = x.source,
         \A y \in T : y.source \in U => \E x \in S : x.source = y.source,
         \A v, w \in S : \A x, y \in T :
           v.source = x.source /\ w.source = y.source /\ x.source \in U /\ y.source \in U
             /\ Before(v, w) => Before(x, y)
  PROVE  Breakdown!Among(InOrder(T), U) = Breakdown!Among(InOrder(S), U)
<1>1. ASSUME NEW a, NEW b, <<a, b>> \in Breakdown!Among(InOrder(S), U)
      PROVE  <<a, b>> \in Breakdown!Among(InOrder(T), U)
  <2>1. PICK v \in S, w \in S : v.source = a /\ w.source = b /\ (v = w \/ Before(v, w))
    BY <1>1, AmongPairs
  <2>2. a \in U /\ b \in U
    BY <1>1, AmongPairs
  <2>3. PICK x \in T : x.source = a
    BY <2>1, <2>2
  <2>4. PICK y \in T : y.source = b
    BY <2>1, <2>2
  <2>5. x = y \/ Before(x, y)
    BY <2>1, <2>2, <2>3, <2>4 DEF Family
  <2> QED BY <2>2, <2>3, <2>4, <2>5, AmongPairs
<1>2. ASSUME NEW a, NEW b, <<a, b>> \in Breakdown!Among(InOrder(T), U)
      PROVE  <<a, b>> \in Breakdown!Among(InOrder(S), U)
  <2>1. PICK x \in T, y \in T : x.source = a /\ y.source = b /\ (x = y \/ Before(x, y))
    BY <1>2, AmongPairs
  <2>2. a \in U /\ b \in U
    BY <1>2, AmongPairs
  <2>3. PICK v \in S : v.source = a
    BY <2>1, <2>2
  <2>4. PICK w \in S : w.source = b
    BY <2>1, <2>2
  <2>5. ~Before(w, v) \/ v = w
    <3> SUFFICES ASSUME Before(w, v) PROVE v = w
      OBVIOUS
    <3>1. Before(y, x)
      BY <2>1, <2>2, <2>3, <2>4
    <3>2. x = y
      BY <2>1, <3>1, BeforeOrders
    <3> QED BY <2>1, <2>3, <2>4, <3>2 DEF Family
  <2>6. v = w \/ Before(v, w)
    BY <2>5, BeforeOrders
  <2> QED BY <2>2, <2>3, <2>4, <2>6, AmongPairs
<1> QED BY <1>1, <1>2, AmongIsPairs

(* In particular when they have the same links of members of U. *)
LEMMA SameLinksAmong ==
  ASSUME NEW S, Family(S), NEW T, Family(T), NEW U,
         {x \in S : x.source \in U} = {x \in T : x.source \in U}
  PROVE  Breakdown!Among(InOrder(T), U) = Breakdown!Among(InOrder(S), U)
<1>1. \A x : x.source \in U => (x \in S <=> x \in T)
  OBVIOUS
<1>2. \A v, w \in S : \A x, y \in T :
        v.source = x.source /\ w.source = y.source /\ x.source \in U /\ y.source \in U
          => v = x /\ w = y
  BY <1>1 DEF Family
<1> QED BY <1>1, <1>2, SameAmong

(* Numbering links keeps their order, with or without a gap. *)
LEMMA NumberedOrder ==
  ASSUME NEW S, Family(S), NEW gap \in Int, NEW x \in S, NEW y \in S, Before(x, y),
         NEW v \in Numbered(S, gap), NEW w \in Numbered(S, gap),
         v.source = x.source, w.source = y.source
  PROVE  Before(v, w)
<1> DEFINE g(z) == IF Rank(S, z) < gap THEN Rank(S, z) ELSE Rank(S, z) + 1
<1>1. ASSUME NEW z \in S, NEW u \in Numbered(S, gap), u.source = z.source
      PROVE  u = [z EXCEPT !.position = g(z)]
  <2>1. PICK t \in S : u = [t EXCEPT !.position = g(t)]
    BY DEF Numbered
  <2>2. t.source = z.source
    BY <1>1, <2>1
  <2> QED BY <2>1, <2>2 DEF Family
<1>2. Rank(S, x) \in Int /\ Rank(S, y) \in Int /\ Rank(S, x) < Rank(S, y)
  <2>1. Rank(S, x) \in Nat /\ Rank(S, y) \in Nat
    BY InOrderShows
  <2> QED BY <2>1, RankGrows
<1>3. g(x) \in Int /\ g(y) \in Int /\ g(x) < g(y)
  BY <1>2
<1>4. v.position = g(x) /\ w.position = g(y)
  <2>1. x \in Link(Int) /\ y \in Link(Int)
    BY DEF Family
  <2> QED BY <1>1, <2>1 DEF Link
<1> HIDE DEF g
<1> QED BY <1>3, <1>4, NullAssumption DEF Before

-----------------------------------------------------------------------------
(* The breakdown as an outline.                                            *)

(* The links shown under p, of the links L between the items in known. *)
Children(known, L, p) ==
  {x \in L : x.type = "part_of" /\ x.target = p /\ ~known[x.source].archived}

Order(known, L) == [p \in Item |-> InOrder(Children(known, L, p))]

(* What the invariant says of the links. *)
WellFormed(known, L) == L \subseteq Link(Item) /\ IsFiniteSet(L) /\ Sound(known, L)

LEMMA ItemIsInt == Item \subseteq Int /\ NULL \notin Item
BY KindsAssumption, NullAssumption DEF Item

LEMMA OneParent ==
  ASSUME NEW known, NEW L, WellFormed(known, L), NEW x \in L, NEW y \in L,
         x.type = "part_of", y.type = "part_of", x.source = y.source
  PROVE  x = y
<1> SUFFICES ASSUME x # y PROVE FALSE
  OBVIOUS
<1>1. Valid(known, L \ {x}, x) /\ y \in Arrow(L \ {x}, x.type)
  BY DEF WellFormed, Sound, Arrow
<1> QED BY <1>1 DEF Valid, SecondParent

LEMMA ChildrenFamily ==
  ASSUME NEW known, NEW L, WellFormed(known, L), NEW p
  PROVE  Family(Children(known, L, p))
<1>1. Children(known, L, p) \in SUBSET L
  BY DEF Children
<1>2. IsFiniteSet(Children(known, L, p))
  BY <1>1, FS_Subset DEF WellFormed
<1>3. Children(known, L, p) \subseteq Link(Int)
  <2>1. L \subseteq Link(Int)
    BY ItemIsInt DEF WellFormed, Link
  <2> QED BY <1>1, <2>1
<1>4. \A x, y \in Children(known, L, p) : x.source = y.source => x = y
  BY OneParent DEF Children
<1> QED BY <1>2, <1>3, <1>4 DEF Family

LEMMA NoneInOrder == InOrder({}) = <<>>
<1>1. Cardinality({}) = 0
  BY FS_EmptySet
<1> QED BY <1>1 DEF InOrder

LEMMA ShownChildren == IInv => \A p : Shown(p) = InOrder(Children(items, links, p))
<1> SUFFICES ASSUME IInv, NEW p PROVE Shown(p) = InOrder(Children(items, links, p))
  OBVIOUS
<1>1. Siblings(p, NULL) = Children(items, links, p)
  BY ItemIsInt DEF Siblings, Children, IInv, TypeOK, Link
<1> QED BY <1>1 DEF Shown, InOrder

LEMMA ShownChildrenNext == IInv' => \A p : Shown(p)' = InOrder(Children(items', links', p))
<1>1. IInv' => (\A p : Shown(p) = InOrder(Children(items, links, p)))'
  BY ShownChildren, PTL
<1> QED BY <1>1

(* What is shown under an item that is not there yet is nothing, as of one *)
(* that has no children.                                                   *)
LEMMA ListsOrder == IInv => Lists = Order(items, links)
<1> SUFFICES ASSUME IInv, NEW p \in Item
             PROVE  (IF p \in DOMAIN items THEN Shown(p) ELSE <<>>) = InOrder(Children(items, links, p))
  BY DEF Lists, Order
<1>1. Shown(p) = InOrder(Children(items, links, p))
  BY ShownChildren
<1>2. CASE p \notin DOMAIN items
  <2>1. Children(items, links, p) = {}
    BY <1>2, OneAnswerHolds DEF OneAnswer, Children
  <2> QED BY <1>2, <2>1, NoneInOrder
<1> QED BY <1>1, <1>2

LEMMA ListsOrderNext == IInv' => Lists' = Order(items', links')
<1>1. IInv' => (Lists = Order(items, links))'
  BY ListsOrder, PTL
<1> QED BY <1>1

LEMMA LinksWellFormed == IInv => WellFormed(items, links)
BY DEF IInv, TypeOK, Restorable, Sound, WellFormed

LEMMA LinksWellFormedNext == IInv' => WellFormed(items', links')
BY DEF IInv, TypeOK, Restorable, Sound, WellFormed

(* Nothing is shown twice. *)
LEMMA OrderIsOnce ==
  ASSUME NEW known, NEW L, WellFormed(known, L)
  PROVE  /\ Order(known, L) \in [Item -> Seq(Item)]
         /\ \A p \in Item : \A m \in DOMAIN Order(known, L)[p] :
            \A q \in Item : \A n \in DOMAIN Order(known, L)[q] :
              Order(known, L)[p][m] = Order(known, L)[q][n] => p = q /\ m = n
<1>1. ASSUME NEW p \in Item
      PROVE  /\ Order(known, L)[p] = InOrder(Children(known, L, p))
             /\ DOMAIN InOrder(Children(known, L, p)) = 1..Cardinality(Children(known, L, p))
             /\ Cardinality(Children(known, L, p)) \in Nat
             /\ \A k \in DOMAIN InOrder(Children(known, L, p)) :
                  \E x \in Children(known, L, p) :
                    /\ Rank(Children(known, L, p), x) = k - 1
                    /\ InOrder(Children(known, L, p))[k] = x.source
  BY ChildrenFamily, InOrderShows DEF Order
<1>2. ASSUME NEW p \in Item PROVE InOrder(Children(known, L, p)) \in Seq(Item)
  <2>1. \A x \in Children(known, L, p) : x.source \in Item
    BY DEF Children, WellFormed, Link
  <2>2. \A k \in 1..Cardinality(Children(known, L, p)) : InOrder(Children(known, L, p))[k] \in Item
    BY <1>1, <2>1
  <2>3. InOrder(Children(known, L, p)) \in [1..Cardinality(Children(known, L, p)) -> Item]
    BY <2>2 DEF InOrder
  <2> QED BY <1>1, <2>3
<1>3. ASSUME NEW p \in Item, NEW m \in DOMAIN Order(known, L)[p],
             NEW q \in Item, NEW n \in DOMAIN Order(known, L)[q],
             Order(known, L)[p][m] = Order(known, L)[q][n]
      PROVE  p = q /\ m = n
  <2>1. PICK x \in Children(known, L, p) :
          Rank(Children(known, L, p), x) = m - 1 /\ Order(known, L)[p][m] = x.source
    BY <1>1
  <2>2. PICK y \in Children(known, L, q) :
          Rank(Children(known, L, q), y) = n - 1 /\ Order(known, L)[q][n] = y.source
    BY <1>1
  <2>3. x = y
    BY <1>3, <2>1, <2>2, OneParent DEF Children
  <2>4. p = q
    BY <2>3 DEF Children
  <2>5. m \in Nat /\ n \in Nat
    BY <1>1
  <2> QED BY <2>1, <2>2, <2>3, <2>4, <2>5
<1> QED BY <1>1, <1>2, <1>3 DEF Order

LEMMA OrderlyNext == IInv' => Breakdown!Orderly'
<1> SUFFICES ASSUME IInv' PROVE Breakdown!Orderly'
  OBVIOUS
<1>1. WellFormed(items', links') /\ Lists' = Order(items', links')
  BY LinksWellFormedNext, ListsOrderNext
<1> HIDE DEF Lists
<1> QED BY <1>1, OrderIsOnce DEF Breakdown!Orderly, Breakdown!Once

(* Only what concerns item i has changed. *)
LEMMA MovesAlone ==
  ASSUME IInv, IInv', NEW i,
         \A p \in Item : \A x :
           x.source # i => (x \in Children(items, links, p) <=> x \in Children(items', links', p))
  PROVE  Breakdown!Move(i)
<1> SUFFICES ASSUME NEW p \in Item
             PROVE  Breakdown!Among(Lists'[p], Item \ {i}) = Breakdown!Among(Lists[p], Item \ {i})
  BY DEF Breakdown!Move
<1>1. Lists'[p] = InOrder(Children(items', links', p)) /\ Family(Children(items', links', p))
  BY ListsOrderNext, LinksWellFormedNext, ChildrenFamily DEF Order
<1>2. Lists[p] = InOrder(Children(items, links, p)) /\ Family(Children(items, links, p))
  BY ListsOrder, LinksWellFormed, ChildrenFamily DEF Order
<1>3. {x \in Children(items, links, p) : x.source \in Item \ {i}}
        = {x \in Children(items', links', p) : x.source \in Item \ {i}}
  OBVIOUS
<1> QED BY <1>1, <1>2, <1>3, SameLinksAmong

LEMMA ItemsThere ==
  ASSUME IInv
  PROVE  /\ items \in Seq(Row)
         /\ DOMAIN items = 1..Len(items)
         /\ DOMAIN items \subseteq Item
         /\ \A x \in links : x.source \in DOMAIN items /\ x.target \in DOMAIN items
BY OneAnswerHolds, KindsAssumption DEF IInv, TypeOK, OneAnswer, Item

(* A link that is not item i's and is shown somewhere stays as it is when  *)
(* all links but item i's do, and the items but i.                         *)
LEMMA OthersStay ==
  ASSUME IInv, IInv', NEW i,
         \A x : x.source # i => (x \in links <=> x \in links'),
         \A j \in DOMAIN items : j # i => items'[j].archived = items[j].archived
  PROVE  Breakdown!Move(i)
<1> SUFFICES ASSUME NEW p \in Item, NEW x, x.source # i
             PROVE  x \in Children(items, links, p) <=> x \in Children(items', links', p)
  BY MovesAlone
<1>1. CASE x \in links
  <2>1. x.source \in DOMAIN items /\ x \in links'
    BY <1>1, ItemsThere
  <2> QED BY <1>1, <2>1 DEF Children
<1>2. CASE x \notin links
  BY <1>2 DEF Children
<1> QED BY <1>1, <1>2

LEMMA CreateItemMoves ==
  ASSUME IInv, IInv', NEW p \in DOMAIN items \cup {NULL}, CreateItem(p)
  PROVE  Len(items) + 1 \in Item /\ Breakdown!Move(Len(items) + 1)
<1> DEFINE i == Len(items) + 1
           x == NewLink("part_of", i, p, NULL)
<1>1. i \in Item /\ items' = Append(items, [kind |-> Kinds[i], archived |-> FALSE])
  BY DEF CreateItem
<1>2. links' = links \/ links' = links \cup {x}
  BY DEF CreateItem
<1>3. \A y : y.source # i => (y \in links <=> y \in links')
  BY <1>2 DEF NewLink
<1>4. \A j \in DOMAIN items : items'[j] = items[j]
  BY <1>1, ItemsThere
<1> HIDE DEF i
<1> QED BY <1>1, <1>3, <1>4, OthersStay DEF i

LEMMA SetArchivedMoves ==
  ASSUME IInv, IInv', NEW i \in DOMAIN items, NEW archived \in BOOLEAN, SetArchived(i, archived)
  PROVE  i \in Item /\ Breakdown!Move(i)
<1>1. i \in Item
  BY ItemsThere
<1>2. \A j \in DOMAIN items : j # i => items'[j].archived = items[j].archived
  BY ItemsThere DEF SetArchived
<1>3. links' = links
  BY DEF SetArchived
<1> QED BY <1>1, <1>2, <1>3, OthersStay

LEMMA PostRelationMoves ==
  ASSUME IInv, IInv', NEW x, PostRelation(x)
  PROVE  x.source \in Item /\ Breakdown!Move(x.source)
<1>1. x.source \in Item
  BY ItemsThere DEF PostRelation, Valid
<1>2. items' = items /\ links' = links \cup {x}
  BY DEF PostRelation
<1> QED BY <1>1, <1>2, OthersStay

LEMMA DeleteRelationMoves ==
  ASSUME IInv, IInv', NEW x \in links, DeleteRelation(x)
  PROVE  x.source \in Item /\ Breakdown!Move(x.source)
<1>1. x.source \in Item
  BY ItemsThere
<1>2. items' = items /\ links' = links \ {x}
  BY DEF DeleteRelation
<1> QED BY <1>1, <1>2, OthersStay

(* The links of the items other than i. *)
Others(S, i) == {x \in S : x.source # i}

LEMMA OthersFamily == ASSUME NEW S, Family(S), NEW i PROVE Family(Others(S, i))
<1>1. Others(S, i) \in SUBSET S
  BY DEF Others
<1> QED BY <1>1, FS_Subset DEF Family

(* The siblings that stay under an item when item i leaves or comes are    *)
(* shown, numbered with or without a gap, in the order in which they were. *)
LEMMA NumberedAmong ==
  ASSUME NEW S, Family(S), NEW T, Family(T), NEW i, NEW gap \in Int,
         Others(T, i) = Numbered(Others(S, i), gap)
  PROVE  Breakdown!Among(InOrder(T), Item \ {i}) = Breakdown!Among(InOrder(S), Item \ {i})
<1> DEFINE U == Item \ {i}
           R == Others(S, i)
           g(z) == [z EXCEPT !.position = IF Rank(R, z) < gap THEN Rank(R, z) ELSE Rank(R, z) + 1]
<1>1. \A x : x.source \in U => (x \in R <=> x \in S) /\ (x \in Numbered(R, gap) <=> x \in T)
  BY DEF Others
<1>2. R \subseteq S /\ Numbered(R, gap) \subseteq T /\ Family(R)
  BY OthersFamily DEF Others
<1>3. Numbered(R, gap) = {g(z) : z \in R}
  BY DEF Numbered
<1> HIDE DEF R
<1>4. \A z \in R : g(z).source = z.source
  BY <1>2 DEF Family, Link
<1> HIDE DEF U, g
<1>5. \A x \in S : x.source \in U => \E y \in T : y.source = x.source
  BY <1>1, <1>2, <1>3, <1>4
<1>6. \A y \in T : y.source \in U => \E x \in S : x.source = y.source
  BY <1>1, <1>2, <1>3, <1>4
<1>7. ASSUME NEW v \in S, NEW w \in S, NEW x \in T, NEW y \in T,
             v.source = x.source, w.source = y.source, x.source \in U, y.source \in U, Before(v, w)
      PROVE  Before(x, y)
  <2>1. v \in R /\ w \in R /\ x \in Numbered(R, gap) /\ y \in Numbered(R, gap)
    BY <1>1, <1>7
  <2> QED BY <1>2, <1>7, <2>1, NumberedOrder
<1>8. Breakdown!Among(InOrder(T), U) = Breakdown!Among(InOrder(S), U)
  BY <1>5, <1>6, <1>7, SameAmong
<1> QED BY <1>8 DEF U

(* So item i moves alone when the others are numbered again here and there. *)
LEMMA RenumberedMoves ==
  ASSUME IInv, IInv', NEW i \in Item,
         \A p \in Item :
           LET S == Others(Children(items, links, p), i)
               T == Others(Children(items', links', p), i)
           IN  T = S \/ \E gap \in Int : T = Numbered(S, gap)
  PROVE  Breakdown!Move(i)
<1> SUFFICES ASSUME NEW p \in Item
             PROVE  Breakdown!Among(Lists'[p], Item \ {i}) = Breakdown!Among(Lists[p], Item \ {i})
  BY DEF Breakdown!Move
<1> DEFINE S == Children(items, links, p)
           T == Children(items', links', p)
<1>1. Lists'[p] = InOrder(T) /\ Family(T)
  BY ListsOrderNext, LinksWellFormedNext, ChildrenFamily DEF Order
<1>2. Lists[p] = InOrder(S) /\ Family(S)
  BY ListsOrder, LinksWellFormed, ChildrenFamily DEF Order
<1>3. Others(T, i) = Others(S, i) \/ \E gap \in Int : Others(T, i) = Numbered(Others(S, i), gap)
  OBVIOUS
<1> HIDE DEF S, T
<1>4. CASE Others(T, i) = Others(S, i)
  <2>1. {x \in S : x.source \in Item \ {i}} = {x \in T : x.source \in Item \ {i}}
    BY <1>4 DEF Others
  <2> QED BY <1>1, <1>2, <2>1, SameLinksAmong
<1>5. CASE \E gap \in Int : Others(T, i) = Numbered(Others(S, i), gap)
  BY <1>1, <1>2, <1>5, NumberedAmong
<1> QED BY <1>3, <1>4, <1>5

LEMMA NumberedSame ==
  ASSUME NEW S, S \subseteq Link(Item), NEW gap
  PROVE  /\ \A z \in Numbered(S, gap) : \E y \in S : SameArrow(z, y)
         /\ \A y \in S : \E z \in Numbered(S, gap) : SameArrow(z, y)
<1> DEFINE g(y) == [y EXCEPT !.position = IF Rank(S, y) < gap THEN Rank(S, y) ELSE Rank(S, y) + 1]
<1>1. \A y \in S : SameArrow(g(y), y)
  BY DEF Link, SameArrow
<1>2. Numbered(S, gap) = {g(y) : y \in S}
  BY DEF Numbered
<1> HIDE DEF g
<1> QED BY <1>1, <1>2

Left(i, O) == UNION {Siblings(y.target, i) : y \in O}

(* Item i has one parent at most, so those it leaves are the children of   *)
(* one item or none.                                                       *)
LEMMA LeftBehind ==
  ASSUME IInv, NEW i, NEW O, O \subseteq PartOf(i)
  PROVE  /\ \A y \in Left(i, O) : /\ y.source # i
                                 /\ ~items[y.source].archived
                                 /\ \E z \in O : z.target = y.target
         /\ \A q : (\E y \in O : y.target = q) => Left(i, O) = Siblings(q, i)
         /\ Left(i, O) \subseteq links
<1>1. ASSUME NEW y \in Left(i, O)
      PROVE  y.source # i /\ ~items[y.source].archived /\ \E z \in O : z.target = y.target
  BY DEF Siblings, Left
<1>2. ASSUME NEW q, NEW y \in O, y.target = q PROVE Left(i, O) = Siblings(q, i)
  <2>1. \A z \in O : z = y
    BY LinksWellFormed, OneParent DEF PartOf
  <2> QED BY <1>2, <2>1 DEF Left
<1>3. Left(i, O) \subseteq links
  BY DEF Siblings, Left
<1> QED BY <1>1, <1>2, <1>3

(* The siblings of item i under its new parent are numbered with a gap for *)
(* it, those under its old one without.                                    *)
LEMMA ReparentNumbers ==
  ASSUME IInv, NEW i, NEW p, NEW k, Reparent(i, p, k), NEW q
  PROVE  LET T == Others(Children(items', links', q), i)
             S == Others(Children(items, links, q), i)
         IN  /\ S = Siblings(q, i)
             /\ q = p => T = Numbered(S, k)
             /\ q # p => T = S \/ \E gap \in Int : T = Numbered(S, gap)
<1> DEFINE old == PartOf(i)
           O == {y \in old : y.target # p}
           left == Left(i, O)
           there == Siblings(p, i)
           new == NewLink("part_of", i, p, k)
           numbered == Numbered(left, Cardinality(left))
           T == Others(Children(items', links', q), i)
           S == Others(Children(items, links, q), i)
<1>1. /\ i \in DOMAIN items
      /\ items' = items
      /\ k \in 0..Cardinality(there)
      /\ links' = (links \ (old \cup there \cup left)) \cup {new} \cup Numbered(there, k) \cup numbered
  BY DEF Reparent, Left
<1>2. /\ \A y \in left : y.source # i /\ ~items[y.source].archived /\ \E z \in O : z.target = y.target
      /\ \A r : (\E y \in O : y.target = r) => left = Siblings(r, i)
      /\ left \subseteq links
  <2>1. O \subseteq PartOf(i)
    OBVIOUS
  <2> HIDE DEF O
  <2> QED BY <2>1, LeftBehind
<1>3. links \subseteq Link(Item) /\ IsFiniteSet(links)
  BY DEF IInv, TypeOK
<1>4. there \subseteq links /\ left \subseteq links
  BY <1>2 DEF Siblings
<1>5. Cardinality(left) \in Int
  <2> HIDE DEF left
  <2> QED BY <1>3, <1>4, FS_Subset, FS_CardinalityType
<1>6. /\ \A z \in Numbered(there, k) : \E y \in there : SameArrow(z, y)
      /\ \A z \in numbered : \E y \in left : SameArrow(z, y)
  <2>1. there \subseteq Link(Item) /\ left \subseteq Link(Item)
    BY <1>3, <1>4
  <2> HIDE DEF there, left
  <2> QED BY <2>1, NumberedSame
<1>7. /\ new.source = i
      /\ \A y \in old : y.source = i
      /\ \A y \in there : y.source # i /\ y.target = p /\ y.type = "part_of" /\ ~items[y.source].archived
      /\ \A y \in left : y.source # i /\ y.target # p /\ ~items[y.source].archived
  BY <1>2 DEF NewLink, PartOf, Siblings
<1>8. /\ T = {x \in links' : x.type = "part_of" /\ x.target = q /\ ~items[x.source].archived /\ x.source # i}
      /\ S = {x \in links : x.type = "part_of" /\ x.target = q /\ ~items[x.source].archived /\ x.source # i}
      /\ S = Siblings(q, i)
  BY <1>1 DEF Children, Siblings, Others
<1>9. ASSUME q = p PROVE T = Numbered(there, k)
  <2>1. T \subseteq Numbered(there, k)
    <3> SUFFICES ASSUME NEW x \in T PROVE x \in Numbered(there, k)
      OBVIOUS
    <3>1. x \in links => x \in there
      BY <1>8, <1>9
    <3>2. x \notin numbered
      <4> HIDE DEF left, there, numbered, T, S
      <4> QED BY <1>6, <1>7, <1>8, <1>9 DEF SameArrow
    <3> HIDE DEF left, there, numbered, T, S, old, new
    <3> QED BY <1>1, <1>7, <1>8, <3>1, <3>2
  <2>2. Numbered(there, k) \subseteq T
    <3> HIDE DEF left, there, numbered, T, S, old, new
    <3> QED BY <1>1, <1>6, <1>7, <1>8, <1>9 DEF SameArrow
  <2> HIDE DEF there, T
  <2> QED BY <2>1, <2>2
<1>10. ASSUME q # p, \E y \in O : y.target = q PROVE left = S /\ T = numbered
  <2>1. left = S
    <3> HIDE DEF left, S, O
    <3> QED BY <1>2, <1>8, <1>10
  <2>2. T \subseteq numbered
    <3> SUFFICES ASSUME NEW x \in T PROVE x \in numbered
      OBVIOUS
    <3> HIDE DEF left, there, numbered, T, S, old, new
    <3>1. x \in links => x \in left
      BY <1>8, <2>1
    <3>2. x \notin Numbered(there, k)
      BY <1>6, <1>7, <1>8, <1>10 DEF SameArrow
    <3> QED BY <1>1, <1>7, <1>8, <3>1, <3>2
  <2>3. numbered \subseteq T
    <3> HIDE DEF left, there, numbered, T, S, old, new
    <3>1. \A z \in numbered : \E y \in S : SameArrow(z, y)
      BY <1>6, <2>1
    <3> QED BY <1>1, <1>8, <3>1 DEF SameArrow
  <2> HIDE DEF left, numbered, T, S
  <2> QED BY <2>1, <2>2, <2>3
<1>11. ASSUME q # p, ~\E y \in O : y.target = q PROVE T = S
  <2>1. \A y \in left : y.target # q
    BY <1>2, <1>11
  <2> HIDE DEF left, there, numbered, T, S, old, new, O
  <2>2. \A z \in Numbered(there, k) \cup numbered : z.target # q
    BY <1>6, <1>7, <1>11, <2>1 DEF SameArrow
  <2>3. \A x : x \in T <=> x \in S
    BY <1>1, <1>7, <1>8, <1>11, <2>1, <2>2
  <2> QED BY <2>3
<1>12. q = p => S = there
  BY <1>8
<1> SUFFICES /\ S = Siblings(q, i)
             /\ q = p => T = Numbered(S, k)
             /\ q # p => T = S \/ \E gap \in Int : T = Numbered(S, gap)
  OBVIOUS
<1> HIDE DEF T, S, left, there, O
<1> QED BY <1>5, <1>8, <1>9, <1>10, <1>11, <1>12 DEF numbered

LEMMA ReparentMoves ==
  ASSUME IInv, IInv', NEW i, NEW p, NEW k, Reparent(i, p, k)
  PROVE  i \in Item /\ Breakdown!Move(i)
<1>1. i \in Item /\ k \in Int /\ items' = items
  BY ItemsThere DEF Reparent
<1>2. ASSUME NEW q \in Item
      PROVE  LET T == Others(Children(items', links', q), i)
                 S == Others(Children(items, links, q), i)
             IN  T = S \/ \E gap \in Int : T = Numbered(S, gap)
  BY <1>1, ReparentNumbers
<1> QED BY <1>1, <1>2, RenumberedMoves

LEMMA DetachMoves ==
  ASSUME IInv, IInv', NEW i, Detach(i)
  PROVE  i \in Item /\ Breakdown!Move(i)
<1> DEFINE old == PartOf(i)
           left == Left(i, old)
           numbered == Numbered(left, Cardinality(left))
<1>1. i \in DOMAIN items /\ items' = items /\ links' = (links \ (old \cup left)) \cup numbered
  BY DEF Detach, Left
<1>2. /\ \A y \in left : y.source # i /\ ~items[y.source].archived /\ \E z \in old : z.target = y.target
      /\ \A q : (\E y \in old : y.target = q) => left = Siblings(q, i)
      /\ left \subseteq links
  <2>1. old \subseteq PartOf(i)
    OBVIOUS
  <2> HIDE DEF old
  <2> QED BY <2>1, LeftBehind
<1>3. i \in Item
  BY <1>1, ItemsThere
<1>4. links \subseteq Link(Item) /\ IsFiniteSet(links) /\ left \subseteq links
  BY <1>2 DEF IInv, TypeOK
<1>5. Cardinality(left) \in Int
  <2> HIDE DEF left
  <2> QED BY <1>4, FS_Subset, FS_CardinalityType
<1>6. \A z \in numbered : \E y \in left : SameArrow(z, y)
  <2>1. left \subseteq Link(Item)
    BY <1>4
  <2> HIDE DEF left
  <2> QED BY <2>1, NumberedSame
<1>7. (\A y \in old : y.source = i) /\ (\A y \in left : y.source # i /\ \E z \in old : z.target = y.target)
  BY <1>2 DEF PartOf
<1>8. ASSUME NEW q \in Item
      PROVE  LET T == Others(Children(items', links', q), i)
                 S == Others(Children(items, links, q), i)
             IN  T = S \/ \E gap \in Int : T = Numbered(S, gap)
  <2> DEFINE T == Others(Children(items', links', q), i)
             S == Others(Children(items, links, q), i)
  <2>1. /\ T = {x \in links' : x.type = "part_of" /\ x.target = q /\ ~items[x.source].archived /\ x.source # i}
        /\ S = {x \in links : x.type = "part_of" /\ x.target = q /\ ~items[x.source].archived /\ x.source # i}
        /\ S = Siblings(q, i)
    BY <1>1 DEF Children, Siblings, Others
  <2>2. CASE \E y \in old : y.target = q
    <3>1. left = S
      <4> HIDE DEF left, S, old
      <4> QED BY <1>2, <2>1, <2>2
    <3> HIDE DEF left, numbered, T, S, old
    <3>2. \A z \in numbered : z \in T
      BY <1>1, <1>6, <2>1, <3>1 DEF SameArrow
    <3>3. \A x \in T : x \in numbered
      BY <1>1, <2>1, <3>1
    <3>4. \E gap \in Int : T = Numbered(S, gap)
      BY <1>5, <3>1, <3>2, <3>3 DEF numbered
    <3> QED BY <3>4 DEF T, S
  <2>3. CASE ~\E y \in old : y.target = q
    <3> HIDE DEF left, numbered, T, S, old
    <3>1. \A z \in left \cup numbered : z.target # q
      BY <1>6, <1>7, <2>3 DEF SameArrow
    <3>2. \A x : x \in T <=> x \in S
      BY <1>1, <1>7, <2>1, <3>1
    <3>3. T = S
      BY <3>2
    <3> QED BY <3>3 DEF S, T
  <2> HIDE DEF T, S
  <2> QED BY <2>2, <2>3 DEF T, S
<1> QED BY <1>1, <1>3, <1>8, RenumberedMoves

LEMMA ShownSources ==
  ASSUME NEW S, Family(S)
  PROVE  Breakdown!ToSet(InOrder(S)) = {x.source : x \in S}
<1>1. \A k \in DOMAIN InOrder(S) : InOrder(S)[k] \in {x.source : x \in S}
  BY InOrderShows
<1>2. \A x \in S : \E k \in DOMAIN InOrder(S) : InOrder(S)[k] = x.source
  BY InOrderShows
<1>3. Breakdown!ToSet(InOrder(S)) = {InOrder(S)[k] : k \in DOMAIN InOrder(S)}
  BY DEF Breakdown!ToSet
<1> QED BY <1>1, <1>2, <1>3

LEMMA ArrangeChildrenArranges ==
  ASSUME IInv, IInv', NEW p \in DOMAIN items, NEW wanted, ArrangeChildren(p, wanted)
  PROVE  p \in Item /\ Breakdown!Arrange(p)
<1> DEFINE named == {x \in links : x.type = "part_of" /\ x.target = p
                                     /\ \E n \in DOMAIN wanted : wanted[n] = x.source}
           g(x) == [x EXCEPT !.position = (CHOOSE n \in DOMAIN wanted : wanted[n] = x.source) - 1]
<1>1. items' = items /\ links' = (links \ named) \cup {g(x) : x \in named}
  BY DEF ArrangeChildren
<1>2. \A x \in named : SameArrow(g(x), x)
  BY DEF IInv, TypeOK, Link, SameArrow
<1>3. p \in Item
  BY ItemsThere
<1> SUFFICES ASSUME NEW q \in Item
             PROVE  /\ q = p => Breakdown!ToSet(Lists'[q]) = Breakdown!ToSet(Lists[q])
                    /\ q # p => Lists'[q] = Lists[q]
  BY <1>3 DEF Breakdown!Arrange
<1> DEFINE S == Children(items, links, q)
           T == Children(items', links', q)
<1>4. Lists'[q] = InOrder(T) /\ Family(T)
  BY ListsOrderNext, LinksWellFormedNext, ChildrenFamily DEF Order
<1>5. Lists[q] = InOrder(S) /\ Family(S)
  BY ListsOrder, LinksWellFormed, ChildrenFamily DEF Order
<1>6. \A x \in named : x \in links /\ x.target = p
  OBVIOUS
<1>7. /\ S = {x \in links : x.type = "part_of" /\ x.target = q /\ ~items[x.source].archived}
      /\ T = {x \in links' : x.type = "part_of" /\ x.target = q /\ ~items[x.source].archived}
  BY <1>1 DEF Children
<1> HIDE DEF named, g, S, T
<1>8. CASE q # p
  <2>1. \A x : x \in S <=> x \in T
    BY <1>1, <1>2, <1>6, <1>7, <1>8 DEF SameArrow
  <2>2. S = T
    BY <2>1
  <2> QED BY <1>4, <1>5, <1>8, <2>2
<1>9. CASE q = p
  <2>1. \A x \in S : \E y \in T : y.source = x.source
    <3> TAKE x \in S
    <3>1. CASE x \in named
      <4>1. g(x) \in T /\ g(x).source = x.source
        BY <1>1, <1>2, <1>7, <3>1 DEF SameArrow
      <4> QED BY <4>1
    <3>2. CASE x \notin named
      BY <1>1, <1>7, <3>2
    <3> QED BY <3>1, <3>2
  <2>2. \A y \in T : \E x \in S : x.source = y.source
    BY <1>1, <1>2, <1>6, <1>7 DEF SameArrow
  <2>3. {x.source : x \in T} = {x.source : x \in S}
    BY <2>1, <2>2
  <2> QED BY <1>4, <1>5, <1>9, <2>3, ShownSources
<1> QED BY <1>8, <1>9

(* A relation that a backup brings is not the second that says what an     *)
(* item which was there is part of.                                        *)
LEMMA ImportReceives ==
  ASSUME IInv, IInv', NEW b \in Backups, Import(b)
  PROVE  Breakdown!Receive
<1> SUFFICES ASSUME NEW p \in Item
             PROVE  LET U == Breakdown!ToSet(Lists[p])
                    IN  Breakdown!Among(Lists'[p], U) = Breakdown!Among(Lists[p], U)
  BY DEF Breakdown!Receive
<1> DEFINE S == Children(items, links, p)
           T == Children(items', links', p)
           U == {x.source : x \in S}
<1>1. Lists'[p] = InOrder(T) /\ Family(T)
  BY ListsOrderNext, LinksWellFormedNext, ChildrenFamily DEF Order
<1>2. Lists[p] = InOrder(S) /\ Family(S)
  BY ListsOrder, LinksWellFormed, ChildrenFamily DEF Order
<1>3. Breakdown!ToSet(Lists[p]) = U
  BY <1>2, ShownSources
<1>4. items' = items \o b.items /\ links \subseteq links'
  BY DEF Import
<1>5. \A i \in DOMAIN items : items'[i] = items[i]
  <2>1. b.items \in Seq(Row)
    BY BackupsAssumption
  <2> QED BY <1>4, <2>1, ItemsThere
<1>6. S \subseteq T
  <2> SUFFICES ASSUME NEW x \in S PROVE x \in T
    OBVIOUS
  <2>1. x \in links /\ x.source \in DOMAIN items
    BY ItemsThere DEF Children
  <2> QED BY <1>4, <1>5, <2>1 DEF Children
<1> HIDE DEF S, T
<1>7. {x \in S : x.source \in U} = {x \in T : x.source \in U}
  BY <1>1, <1>6 DEF Family
<1>8. Breakdown!Among(InOrder(T), U) = Breakdown!Among(InOrder(S), U)
  <2> HIDE DEF U
  <2> QED BY <1>1, <1>2, <1>7, SameLinksAmong
<1> QED BY <1>1, <1>2, <1>3, <1>8

LEMMA OutlineInit == Init => Breakdown!Init
<1> SUFFICES ASSUME Init, NEW p \in Item
             PROVE  (IF p \in DOMAIN items THEN Shown(p) ELSE <<>>) = <<>>
  BY DEF Breakdown!Init, Lists
<1>1. p \notin DOMAIN items
  BY DEF Init
<1> QED BY <1>1

LEMMA OutlineStep == IInv /\ IInv' /\ [Next]_vars => [Breakdown!Next]_Lists
<1> SUFFICES ASSUME IInv, IInv', [Next]_vars PROVE Breakdown!Next \/ Lists' = Lists
  OBVIOUS
<1>1. Breakdown!Orderly'
  BY OrderlyNext
<1>2. CASE \E p \in DOMAIN items \cup {NULL} : CreateItem(p)
  BY <1>1, <1>2, CreateItemMoves DEF Breakdown!Next
<1>3. CASE \E i \in DOMAIN items, archived \in BOOLEAN : SetArchived(i, archived)
  BY <1>1, <1>3, SetArchivedMoves DEF Breakdown!Next
<1>4. CASE \E type \in Types, i, j \in DOMAIN items :
             \E position \in IF type = "part_of" THEN Positions ELSE {NULL} :
               PostRelation(NewLink(type, i, j, position))
  <2>1. PICK x : PostRelation(x)
    BY <1>4
  <2> QED BY <1>1, <2>1, PostRelationMoves DEF Breakdown!Next
<1>5. CASE \E x \in links : DeleteRelation(x)
  BY <1>1, <1>5, DeleteRelationMoves DEF Breakdown!Next
<1>6. CASE \E i, p \in DOMAIN items : \E k \in 0..Len(items) : Reparent(i, p, k)
  BY <1>1, <1>6, ReparentMoves DEF Breakdown!Next
<1>7. CASE \E i \in DOMAIN items : Detach(i)
  BY <1>1, <1>7, DetachMoves DEF Breakdown!Next
<1>8. CASE \E p \in DOMAIN items, wanted \in Orders : ArrangeChildren(p, wanted)
  BY <1>1, <1>8, ArrangeChildrenArranges DEF Breakdown!Next
<1>9. CASE \E b \in Backups : Import(b)
  BY <1>1, <1>9, ImportReceives DEF Breakdown!Next
<1>10. CASE UNCHANGED vars
  BY <1>10 DEF vars, Lists, Shown, Siblings
<1> QED BY <1>2, <1>3, <1>4, <1>5, <1>6, <1>7, <1>8, <1>9, <1>10 DEF Next

(* The breakdown is an outline: every request changes what is shown under  *)
(* the items as an outline changes, so that children nobody moved keep     *)
(* their order and none is shown twice, whatever positions were stored.    *)
THEOREM BreakdownIsOutline == Spec => Outlined
<1>1. Spec => [][Breakdown!Next]_Lists
  <2>1. IInv /\ IInv' /\ [Next]_vars => [Breakdown!Next]_Lists
    BY OutlineStep
  <2> QED BY <2>1, Invariance, PTL DEF Spec
<1>2. Spec => Breakdown!Init
  BY OutlineInit DEF Spec
<1> QED BY <1>1, <1>2, PTL DEF Outlined, Breakdown!Spec

-----------------------------------------------------------------------------
(* Where an item lands.                                                    *)

(* As many links come before a link y as have a rank below k, when those   *)
(* are numbered with a gap at k and y is given the number k.               *)
LEMMA GapIsRank ==
  ASSUME NEW S, Family(S), NEW k \in 0..Cardinality(S),
         NEW y \in Link(Int), y.position = k,
         NEW T, T = Numbered(S, k) \cup {y}
  PROVE  Rank(T, y) = k
<1> DEFINE g(z) == IF Rank(S, z) < k THEN Rank(S, z) ELSE Rank(S, z) + 1
           below == {z \in S : Rank(S, z) < k}
           ahead == {z \in T : Before(z, y)}
           f == [z \in below |-> [z EXCEPT !.position = g(z)]]
           r == [z \in below |-> Rank(S, z)]
           L == 0..(k - 1)
<1>1. IsFiniteSet(S) /\ Cardinality(S) \in Nat /\ k \in Int /\ k # NULL
  BY FS_CardinalityType, NullAssumption DEF Family
<1>2. \A z \in S : Rank(S, z) \in Nat
  BY InOrderShows
<1>3. \A z \in S : [z EXCEPT !.position = g(z)].position = g(z)
                     /\ [z EXCEPT !.position = g(z)].source = z.source
  BY DEF Family, Link
<1>4. \A z \in S : g(z) \in Int /\ g(z) # k /\ (g(z) < k <=> Rank(S, z) < k)
  BY <1>1, <1>2
<1>5. Numbered(S, k) = {[z EXCEPT !.position = g(z)] : z \in S}
  BY DEF Numbered
<1>6. ~Before(y, y) /\ \A z : z.position \in Int /\ z.position # k => (Before(z, y) <=> z.position < k)
  BY <1>1, NullAssumption DEF Before, Link
<1>7. IsFiniteSet(below)
  <2>1. below \in SUBSET S
    OBVIOUS
  <2> HIDE DEF below
  <2> QED BY <1>1, <2>1, FS_Subset
<1>8. r \in Injection(below, L) /\ r \in Surjection(below, L)
  <2>1. \A z \in below : Rank(S, z) \in L
    BY <1>1, <1>2
  <2>2. \A v, w \in below : Rank(S, v) = Rank(S, w) => v = w
    BY RankGrows
  <2>3. \A n \in L : \E z \in below : Rank(S, z) = n
    <3> TAKE n \in L
    <3>1. n \in 0..(Cardinality(S) - 1) /\ n < k
      BY <1>1
    <3>2. PICK z \in S : Rank(S, z) = n
      BY <3>1, RankReaches
    <3> QED BY <3>1, <3>2
  <2> HIDE DEF L, below
  <2> QED BY <2>1, <2>2, <2>3 DEF Injection, IsInjective, Surjection
<1>9. Cardinality(L) = k
  BY <1>1, FS_Interval
<1>10. Cardinality(below) = k
  <2> HIDE DEF L, below, r
  <2> QED BY <1>7, <1>8, <1>9, FS_Surjection
<1>11. ahead = {f[z] : z \in below}
  <2>1. ASSUME NEW x \in ahead PROVE \E z \in below : x = f[z]
    <3>1. PICK z \in S : x = [z EXCEPT !.position = g(z)]
      BY <1>5, <1>6
    <3>2. x.position = g(z) /\ g(z) \in Int /\ g(z) # k
      BY <1>3, <1>4, <3>1
    <3>3. g(z) < k
      <4> HIDE DEF g
      <4> QED BY <1>6, <3>2
    <3>4. z \in below
      BY <1>4, <3>3
    <3> QED BY <3>1, <3>4
  <2>2. ASSUME NEW z \in below PROVE f[z] \in ahead
    <3>1. f[z] \in T
      BY <1>5
    <3>2. f[z].position = g(z) /\ g(z) \in Int /\ g(z) # k /\ g(z) < k
      BY <1>3, <1>4
    <3> HIDE DEF f, g
    <3>3. Before(f[z], y)
      BY <1>6, <3>2
    <3> QED BY <3>1, <3>3
  <2> HIDE DEF ahead, below, f
  <2> QED BY <2>1, <2>2
<1>12. \A v, w \in below : f[v] = f[w] => v = w
  <2> SUFFICES ASSUME NEW v \in below, NEW w \in below, f[v] = f[w] PROVE v = w
    OBVIOUS
  <2>1. v.source = w.source
    BY <1>3
  <2> QED BY <2>1 DEF Family
<1>13. f \in Surjection(below, ahead) /\ f \in Injection(below, ahead)
  <2>1. f \in [below -> ahead]
    BY <1>11
  <2> HIDE DEF below, ahead, f
  <2> QED BY <1>11, <1>12, <2>1 DEF Surjection, Injection, IsInjective
<1>14. Cardinality(ahead) = k
  <2> HIDE DEF below, ahead, f
  <2> QED BY <1>7, <1>10, <1>13, FS_Surjection
<1> QED BY <1>14 DEF Rank

(* An item moved to a place is the item shown at that place. *)
LEMMA ReparentLands ==
  ASSUME IInv, IInv', NEW x, x \in Placed',
         Reparent(x.source, x.target, x.position), ~items[x.source].archived
  PROVE  Shown(x.target)'[x.position + 1] = x.source
<1> DEFINE i == x.source
           p == x.target
           k == x.position
           new == NewLink("part_of", i, p, k)
           there == Siblings(p, i)
           T == Children(items', links', p)
<1>1. /\ i \in DOMAIN items /\ items' = items /\ k \in 0..Cardinality(there)
      /\ new \in links' /\ p \in DOMAIN items
  BY DEF Reparent, Valid, NewLink
<1>2. Others(T, i) = Numbered(there, k) /\ there = Others(Children(items, links, p), i)
  BY ReparentNumbers
<1>3. new \in T
  BY <1>1 DEF Children, NewLink
<1>4. Family(T)
  BY LinksWellFormedNext, ChildrenFamily
<1>5. T = Numbered(there, k) \cup {new}
  <2>1. \A z \in T : z.source = i => z = new
    BY <1>3, <1>4 DEF Family, NewLink
  <2>2. new.source = i
    BY DEF NewLink
  <2> HIDE DEF T, new
  <2> QED BY <1>2, <1>3, <2>1, <2>2 DEF Others
<1>6. Family(there)
  BY <1>2, LinksWellFormed, ChildrenFamily, OthersFamily
<1>7. Rank(T, new) = k
  <2>1. new \in Link(Int) /\ new.position = k
    BY <1>3, <1>4 DEF Family, NewLink
  <2> HIDE DEF T, new, there
  <2> QED BY <1>1, <1>5, <1>6, <2>1, GapIsRank
<1>8. InOrder(T)[k + 1] = i
  <2>1. new.source = i
    BY DEF NewLink
  <2> HIDE DEF T, new
  <2> QED BY <1>3, <1>4, <1>7, <2>1, InOrderShows
<1>9. Shown(p)' = InOrder(T)
  BY <1>1, ShownChildrenNext
<1> QED BY <1>8, <1>9

(* Children put in an order are shown in that order. *)
LEMMA ArrangeLands ==
  ASSUME IInv, IInv', NEW p, NEW wanted \in Orders, ArrangeChildren(p, wanted),
         NEW a \in DOMAIN wanted, NEW b \in DOMAIN wanted,
         NEW m \in DOMAIN Shown(p)', NEW n \in DOMAIN Shown(p)',
         a < b, wanted[a] = Shown(p)'[m], wanted[b] = Shown(p)'[n]
  PROVE  m < n
<1> DEFINE named == {x \in links : x.type = "part_of" /\ x.target = p
                                     /\ \E c \in DOMAIN wanted : wanted[c] = x.source}
           number(x) == (CHOOSE c \in DOMAIN wanted : wanted[c] = x.source) - 1
           g(x) == [x EXCEPT !.position = number(x)]
           T == Children(items', links', p)
<1>1. links' = (links \ named) \cup {g(x) : x \in named}
  BY DEF ArrangeChildren
<1>2. Shown(p)' = InOrder(T) /\ Family(T)
  BY ShownChildrenNext, LinksWellFormedNext, ChildrenFamily
<1>3. DOMAIN wanted \subseteq Nat /\ \A c, d \in DOMAIN wanted : wanted[c] = wanted[d] => c = d
  BY DEF Orders
<1>4. ASSUME NEW c \in DOMAIN wanted, NEW y \in T, y.source = wanted[c]
      PROVE  y.position = c - 1
  <2>1. y \in links' /\ y.type = "part_of" /\ y.target = p
    BY DEF Children
  <2>2. y \notin links \ named
    BY <1>4, <2>1
  <2> HIDE DEF named
  <2>3. PICK x \in named : y = g(x)
    BY <1>1, <2>1, <2>2
  <2>4. x \in Link(Item)
    BY DEF named, IInv, TypeOK
  <2>5. y.source = x.source /\ y.position = number(x)
    BY <2>3, <2>4 DEF Link
  <2>6. (CHOOSE d \in DOMAIN wanted : wanted[d] = x.source) = c
    BY <1>3, <1>4, <2>5
  <2> QED BY <2>5, <2>6
<1> HIDE DEF T
<1>5. /\ m \in DOMAIN InOrder(T) /\ n \in DOMAIN InOrder(T)
      /\ wanted[a] = InOrder(T)[m] /\ wanted[b] = InOrder(T)[n]
  BY <1>2
<1>6. PICK x \in T : Rank(T, x) = m - 1 /\ InOrder(T)[m] = x.source
  BY <1>2, <1>5, InOrderShows
<1>7. PICK y \in T : Rank(T, y) = n - 1 /\ InOrder(T)[n] = y.source
  BY <1>2, <1>5, InOrderShows
<1>8. x.position = a - 1 /\ y.position = b - 1
  BY <1>4, <1>5, <1>6, <1>7
<1>9. Before(x, y)
  BY <1>3, <1>8, NullAssumption DEF Before
<1>10. Rank(T, x) < Rank(T, y)
  BY <1>2, <1>9, RankGrows
<1>11. m \in Nat /\ n \in Nat
  <2>1. DOMAIN InOrder(T) = 1..Cardinality(T) /\ Cardinality(T) \in Nat
    BY <1>2, InOrderShows
  <2> QED BY <1>5, <2>1
<1> QED BY <1>6, <1>7, <1>10, <1>11

(* A link that all the others come before is shown last. *)
LEMMA LastShown ==
  ASSUME NEW S, Family(S), NEW x \in S, \A y \in S : y = x \/ Before(y, x)
  PROVE  InOrder(S)[Len(InOrder(S))] = x.source
<1>1. Cardinality(S) \in Nat /\ DOMAIN InOrder(S) = 1..Cardinality(S)
  BY InOrderShows
<1>2. Rank(S, x) = Cardinality(S) - 1
  <2>1. {y \in S : Before(y, x)} = S \ {x}
    BY BeforeOrders
  <2>2. Cardinality(S \ {x}) = Cardinality(S) - 1
    BY FS_RemoveElement DEF Family
  <2> QED BY <2>1, <2>2 DEF Rank
<1>3. InOrder(S)[Cardinality(S)] = x.source
  <2>1. Rank(S, x) \in Nat /\ InOrder(S)[Rank(S, x) + 1] = x.source
    BY InOrderShows
  <2>2. Rank(S, x) + 1 = Cardinality(S)
    BY <1>1, <1>2
  <2> QED BY <2>1, <2>2
<1>4. Len(InOrder(S)) = Cardinality(S)
  BY <1>1 DEF InOrder
<1> QED BY <1>3, <1>4

(* A new item is shown after those that were there: it is the youngest and *)
(* has no position.                                                        *)
LEMMA CreateLands ==
  ASSUME IInv, IInv', NEW p \in DOMAIN items, CreateItem(p)
  PROVE  Shown(p)'[Len(Shown(p)')] = Len(items')
<1> DEFINE i == Len(items) + 1
           new == NewLink("part_of", i, p, NULL)
           T == Children(items', links', p)
<1>1. /\ items \in Seq(Row) /\ p # NULL
      /\ items' = Append(items, [kind |-> Kinds[i], archived |-> FALSE])
      /\ links' = links \cup {new}
  BY ItemsThere, ItemIsInt DEF CreateItem
<1>2. /\ Len(items) \in Nat
      /\ Len(items') = i
      /\ items'[i].archived = FALSE
  BY <1>1
<1>3. new.source = i /\ new.target = p /\ new.type = "part_of" /\ new.position = NULL
  BY DEF NewLink
<1>4. new \in T
  BY <1>1, <1>2, <1>3 DEF Children
<1>5. \A y \in links : y.source < i /\ y.position \in Int \cup {NULL}
  BY <1>2, ItemsThere DEF IInv, TypeOK, Link
<1>6. ASSUME NEW y \in T PROVE y = new \/ Before(y, new)
  <2>1. y \in links \/ y = new
    BY <1>1 DEF Children
  <2> HIDE DEF new
  <2> QED BY <1>3, <1>5, <2>1, NullAssumption DEF Before
<1>7. Shown(p)' = InOrder(T) /\ Family(T)
  BY ShownChildrenNext, LinksWellFormedNext, ChildrenFamily
<1> HIDE DEF T, new
<1>8. InOrder(T)[Len(InOrder(T))] = i
  BY <1>3, <1>4, <1>6, <1>7, LastShown
<1> QED BY <1>2, <1>7, <1>8

(* An item moved to a place is shown at that place, children put in an     *)
(* order are shown in that order, and a new item is shown last, whatever   *)
(* numbers those beside it have, archived or not.                          *)
THEOREM AlwaysLands == Spec => LandsWhereAsked
<1> DEFINE A ==
      /\ \A x \in Placed' :
           LET i == x.source
           IN  Reparent(i, x.target, x.position) /\ ~items[i].archived =>
                 Shown(x.target)'[x.position + 1] = i
      /\ \A p \in {x.target : x \in links' \ links}, wanted \in Orders :
           ArrangeChildren(p, wanted) =>
             LET list == Shown(p)'
             IN  \A a, b \in DOMAIN wanted, m, n \in DOMAIN list :
                   a < b /\ wanted[a] = list[m] /\ wanted[b] = list[n] => m < n
      /\ \A p \in DOMAIN items :
           CreateItem(p) => LET list == Shown(p)' IN list[Len(list)] = Len(items')
<1>1. IInv /\ IInv' => A
  <2> SUFFICES ASSUME IInv, IInv' PROVE A
    OBVIOUS
  <2>1. ASSUME NEW x, x \in Placed',
               Reparent(x.source, x.target, x.position), ~items[x.source].archived
        PROVE  Shown(x.target)'[x.position + 1] = x.source
    BY <2>1, ReparentLands
  <2>2. ASSUME NEW p, NEW wanted \in Orders, ArrangeChildren(p, wanted),
               NEW a \in DOMAIN wanted, NEW b \in DOMAIN wanted,
               NEW m \in DOMAIN Shown(p)', NEW n \in DOMAIN Shown(p)',
               a < b, wanted[a] = Shown(p)'[m], wanted[b] = Shown(p)'[n]
        PROVE  m < n
    BY <2>2, ArrangeLands
  <2>3. ASSUME NEW p \in DOMAIN items, CreateItem(p)
        PROVE  Shown(p)'[Len(Shown(p)')] = Len(items')
    BY <2>3, CreateLands
  <2> QED BY <2>1, <2>2, <2>3
<1>2. IInv /\ IInv' => [A]_vars
  BY <1>1
<1> QED BY <1>2, Invariance, PTL DEF LandsWhereAsked
=============================================================================
