--------------------------- MODULE HistoryProofs ----------------------------
(***************************************************************************)
(* Proofs about History, for every plan to begin with, all lists of        *)
(* operations, templates, and any number of entries and proposals.         *)
(*                                                                         *)
(* UndoneOnce: no operation is undone twice, whatever operations do to the *)
(* plan: reverse_preview refuses what an undo reserves or has undone, and  *)
(* what was applied stays so.                                              *)
(* ComparesTruly: comparing two versions between which nothing is missing  *)
(* shows what differs.  From what each operation does to a plan follows    *)
(* what a run of them does, that the snapshots of every entry tell it, and *)
(* by induction along the versions that what is merged tells it too.       *)
(* NothingLeftDangling: undoing a creation leaves no link to the item,     *)
(* because the inverse that was proposed deletes all that was linked to it *)
(* and links nothing, on the plan it was proposed on, which is what the    *)
(* plan has to be when it is applied.                                      *)
(* UndoLeavesTheRest: undoing touches no other item and no other relation, *)
(* because the operations of an inverse are about what those they take     *)
(* back were about.                                                        *)
(* UndoPutsBack: and it puts back what those changed, because nothing      *)
(* stood in the way when it was proposed, the last is taken back first,    *)
(* and no two of the inverses are about the same thing.                    *)
(***************************************************************************)
EXTENDS History, FiniteSetTheorems, WellFoundedInduction, TLAPS

-----------------------------------------------------------------------------
(* Induction on numbers, from the least that is not among them.            *)
LEMMA AllNumbers ==
  ASSUME NEW G, 0 \in G, \A n \in Nat : n \in G => n + 1 \in G
  PROVE  \A n \in Nat : n \in G
<1> DEFINE T == {n \in Nat : n \notin G}
<1> SUFFICES ASSUME T # {} PROVE FALSE
  OBVIOUS
<1>1. PICK x \in T : \A y \in T : <<y, x>> \notin OpToRel(<, Nat)
  <2>1. IsWellFoundedOn(OpToRel(<, Nat), Nat) /\ T \in SUBSET Nat
    BY NatLessThanWellFounded
  <2> HIDE DEF T
  <2> QED BY <2>1, WFMin, Zenon
<1>2. x \in Nat /\ x # 0 /\ x - 1 \in Nat /\ x - 1 < x
  OBVIOUS
<1>3. x - 1 \in G
  BY <1>1, <1>2 DEF OpToRel
<1>4. (x - 1) + 1 = x
  BY <1>2
<1> QED BY <1>2, <1>3, <1>4

-----------------------------------------------------------------------------
(* Effective as an operator of the log: what entry e has in effect, when   *)
(* f says what later ones have.                                            *)
Taking(L, c, n) == {k \in DOMAIN L[c].ops : L[c].from[k] = n}

Standing(f, e, L) ==
  {n \in DOMAIN L[e].ops :
     /\ L[e].status = "applied"
     /\ ~\E c \in e + 1 .. Len(L) :
           /\ L[c].status = "applied" /\ L[c].of = e /\ n \in L[c].chosen
           /\ Taking(L, c, n) # {} /\ Taking(L, c, n) \subseteq f[c]}

(* The effects of the entries from the a-th. *)
AllStand(f, a, L) == f = [e \in a..Len(L) |-> Standing(f, e, L)]

(* What an entry has in effect depends on later ones only. *)
LEMMA StandingLocal ==
  ASSUME NEW L, NEW e, NEW f, NEW g, \A c \in e + 1 .. Len(L) : f[c] = g[c]
  PROVE  Standing(f, e, L) = Standing(g, e, L)
BY DEF Standing

LEMMA EffectExists ==
  ASSUME NEW L, Len(L) \in Nat
  PROVE  \E f : AllStand(f, 1, L)
<1> DEFINE N == Len(L)
           G == {k \in Nat : k <= N => \E f : AllStand(f, N + 1 - k, L)}
<1>1. 0 \in G
  <2> DEFINE f == [e \in N + 1 .. N |-> {}]
  <2>1. f = [e \in N + 1 .. N |-> Standing(f, e, L)]
    OBVIOUS
  <2>2. AllStand(f, N + 1 - 0, L)
    BY <2>1 DEF AllStand
  <2> QED BY <2>2
<1>2. ASSUME NEW k \in Nat, k \in G
      PROVE  k + 1 \in G
  <2> SUFFICES ASSUME k + 1 <= N PROVE \E f : AllStand(f, N + 1 - (k + 1), L)
    OBVIOUS
  <2> DEFINE a == N + 1 - k
  <2>1. /\ a \in Int /\ N + 1 - (k + 1) = a - 1 /\ N \in Int /\ a <= N + 1
    OBVIOUS
  <2>2. PICK f : AllStand(f, a, L)
    BY <1>2
  <2> DEFINE g == [e \in a - 1 .. N |-> IF e >= a THEN f[e] ELSE Standing(f, e, L)]
  <2> HIDE DEF a, G
  <2>3. \A e \in a..N : f[e] = Standing(f, e, L)
    BY <2>2 DEF AllStand
  <2>4. \A c \in a..N : g[c] = f[c]
    BY <2>1
  <2>5. ASSUME NEW e \in a - 1 .. N
        PROVE  g[e] = Standing(g, e, L)
    <3>1. \A c \in e + 1 .. N : f[c] = g[c]
      BY <2>1, <2>4
    <3>2. Standing(f, e, L) = Standing(g, e, L)
      <4> HIDE DEF g
      <4> QED BY <3>1, StandingLocal
    <3>3. g[e] = Standing(f, e, L)
      BY <2>1, <2>3
    <3> QED BY <3>2, <3>3
  <2>6. g = [e \in a - 1 .. N |-> g[e]]
    OBVIOUS
  <2> HIDE DEF g
  <2>7. AllStand(g, a - 1, L)
    BY <2>5, <2>6 DEF AllStand
  <2> QED BY <2>1, <2>7
<1> HIDE DEF G
<1>3. N \in G
  BY <1>1, <1>2, AllNumbers
<1> QED BY <1>3 DEF G

(* Effective is the operator, of the log there is. *)
LEMMA EffectiveIs ==
  (Len(log) \in Nat /\ DOMAIN log = 1..Len(log)) => AllStand(Effective, 1, log)
<1> SUFFICES ASSUME Len(log) \in Nat, DOMAIN log = 1..Len(log)
             PROVE  AllStand(Effective, 1, log)
  OBVIOUS
<1> DEFINE Is(f) == f = [e \in DOMAIN log |->
                {n \in DOMAIN log[e].ops :
                   /\ log[e].status = "applied"
                   /\ ~\E c \in e + 1 .. Len(log) :
                         /\ log[c].status = "applied" /\ Undoes(c, e, n)
                         /\ Inverses(c, n) # {} /\ Inverses(c, n) \subseteq f[c]}]
<1>1. Effective = CHOOSE f : Is(f)
  BY DEF Effective
<1>2. \A f : Is(f) <=> AllStand(f, 1, log)
  <2> TAKE f
  <2>1. \A e : Standing(f, e, log) =
          {n \in DOMAIN log[e].ops :
             /\ log[e].status = "applied"
             /\ ~\E c \in e + 1 .. Len(log) :
                   /\ log[c].status = "applied" /\ Undoes(c, e, n)
                   /\ Inverses(c, n) # {} /\ Inverses(c, n) \subseteq f[c]}
    BY DEF Standing, Undoes, Inverses, Taking
  <2> QED BY <2>1 DEF AllStand
<1>3. \E f : Is(f)
  <2> HIDE DEF Is
  <2> QED BY <1>2, EffectExists
<1> HIDE DEF Is
<1>4. Is(CHOOSE f : Is(f))
  BY <1>3
<1> QED BY <1>1, <1>2, <1>4

-----------------------------------------------------------------------------
(* No operation is undone twice to begin with. *)
LEMMA InvInit == Init => IInv
<1> SUFFICES ASSUME Init PROVE IInv
  OBVIOUS
<1>1. log = <<>> /\ DOMAIN log = {} /\ clock = 1
  BY DEF Init
<1>2. LogOK
  BY <1>1 DEF LogOK
<1>3. NoSecondUndo
  BY <1>1 DEF NoSecondUndo
<1> QED BY <1>2, <1>3 DEF IInv

(* A log is a list of its entries. *)
LEMMA LogFacts ==
  ASSUME LogOK
  PROVE  Len(log) \in Nat /\ DOMAIN log = 1..Len(log)
BY DEF LogOK

LEMMA OfItsEntries ==
  ASSUME NEW T, NEW s \in Seq(T)
  PROVE  s \in Seq({s[e] : e \in DOMAIN s})
<1> DEFINE R == {s[e] : e \in DOMAIN s}
<1>1. Len(s) \in Nat /\ DOMAIN s = 1..Len(s) /\ s = [e \in 1..Len(s) |-> s[e]]
  OBVIOUS
<1>2. \A e \in 1..Len(s) : s[e] \in R
  BY <1>1
<1> HIDE DEF R
<1>3. [e \in 1..Len(s) |-> s[e]] \in Seq(R)
  BY <1>1, <1>2
<1> QED BY <1>1, <1>3 DEF R

(* A log with an entry more, and one with an entry changed. *)
LEMMA Appended ==
  ASSUME LogOK, clock' \in Nat, NEW row, DOMAIN row = Fields, log' = Append(log, row)
  PROVE  /\ LogOK'
         /\ Len(log') = Len(log) + 1 /\ DOMAIN log' = 1..(Len(log) + 1)
         /\ \A e \in 1..Len(log) : log'[e] = log[e]
         /\ log'[Len(log) + 1] = row
<1> DEFINE S == {log[e] : e \in DOMAIN log}
           T == S \cup {row}
<1>1. log \in Seq(T) /\ row \in T
  <2>1. log \in Seq(S)
    BY DEF LogOK
  <2> HIDE DEF S
  <2> QED BY <2>1
<1> HIDE DEF T
<1>2. /\ log' \in Seq(T)
      /\ Len(log') = Len(log) + 1 /\ DOMAIN log' = 1..(Len(log) + 1)
      /\ \A e \in 1..Len(log) : log'[e] = log[e]
      /\ log'[Len(log) + 1] = row
  BY <1>1
<1>3. log' \in Seq({log'[e] : e \in DOMAIN log'})
  <2>1. log' \in Seq(T)
    BY <1>2
  <2> QED BY <2>1, OfItsEntries
<1>4. \A e \in DOMAIN log' : DOMAIN log'[e] = Fields
  BY <1>2, LogFacts DEF LogOK
<1> QED BY <1>2, <1>3, <1>4 DEF LogOK

(* A log in which one entry is another. *)
LEMMA Replaced ==
  ASSUME LogOK, clock' \in Nat, NEW c \in DOMAIN log, NEW row, DOMAIN row = Fields,
         log' = [log EXCEPT ![c] = row]
  PROVE  /\ LogOK'
         /\ Len(log') = Len(log) /\ DOMAIN log' = DOMAIN log
         /\ \A e \in DOMAIN log : log'[e] = IF e = c THEN row ELSE log[e]
<1> DEFINE S == {log[e] : e \in DOMAIN log}
           T == S \cup {row}
<1>1. log \in Seq(T) /\ row \in T
  <2>1. log \in Seq(S)
    BY DEF LogOK
  <2> HIDE DEF S
  <2> QED BY <2>1
<1> HIDE DEF T
<1>2. /\ log' \in Seq(T)
      /\ Len(log') = Len(log) /\ DOMAIN log' = DOMAIN log
      /\ \A e \in DOMAIN log : log'[e] = IF e = c THEN row ELSE log[e]
  BY <1>1
<1>3. log' \in Seq({log'[e] : e \in DOMAIN log'})
  <2> DEFINE l == log'
  <2>1. l \in Seq(T)
    BY <1>2
  <2> HIDE DEF l
  <2>2. l \in Seq({l[e] : e \in DOMAIN l})
    BY <2>1, OfItsEntries
  <2> QED BY <2>2 DEF l
<1>4. \A e \in DOMAIN log' : DOMAIN log'[e] = Fields
  BY <1>2 DEF LogOK
<1> QED BY <1>2, <1>3, <1>4 DEF LogOK

-----------------------------------------------------------------------------
(* What undo c did about operation n had been undone when d came. *)
Settled(c, d, n) ==
  /\ log[c].status = "applied" /\ Inverses(c, n) # {}
  /\ \A k \in Inverses(c, n) :
       \E f \in c + 1 .. d - 1 : log[f].status = "applied" /\ Undoes(f, c, k)

LEMMA NoSecondUndoIs ==
  NoSecondUndo <=>
    \A c, d \in DOMAIN log : \A n \in log[c].chosen \cap log[d].chosen :
      c < d /\ log[c].of = log[d].of /\ Lives(c) /\ Lives(d) => Settled(c, d, n)
BY DEF NoSecondUndo, Settled

(* The entries there were keep what they undo, and what was applied stays  *)
(* so; one that comes is no second undo.                                   *)
LEMMA StaysUndone ==
  ASSUME IInv, LogOK', Len(log') <= Len(log) + 1, Len(log) <= Len(log'),
         \A e \in DOMAIN log :
           /\ log'[e].ops = log[e].ops /\ log'[e].of = log[e].of
           /\ log'[e].chosen = log[e].chosen /\ log'[e].from = log[e].from
           /\ log[e].status = "applied" => log'[e].status = "applied"
           /\ Lives(e)' => Lives(e),
         \A d \in DOMAIN log', c \in DOMAIN log : \A n \in log[c].chosen \cap log'[d].chosen :
           d \notin DOMAIN log /\ log[c].of = log'[d].of /\ Lives(c) => Settled(c, d, n)
  PROVE  IInv'
<1>1. /\ Len(log) \in Nat /\ DOMAIN log = 1..Len(log)
      /\ Len(log') \in Nat /\ DOMAIN log' = 1..Len(log')
  BY LogFacts DEF IInv, LogOK
<1>2. ASSUME NEW c \in DOMAIN log, NEW d \in DOMAIN log', NEW n, Settled(c, d, n)
      PROVE  Settled(c, d, n)'
  <2>1. Inverses(c, n)' = Inverses(c, n)
    BY DEF Inverses
  <2>2. ASSUME NEW k \in Inverses(c, n)
        PROVE  \E f \in c + 1 .. d - 1 : log'[f].status = "applied" /\ Undoes(f, c, k)'
    <3>1. PICK f \in c + 1 .. d - 1 : log[f].status = "applied" /\ Undoes(f, c, k)
      BY <1>2 DEF Settled
    <3>2. f \in DOMAIN log
      BY <1>1, <3>1
    <3> QED BY <3>1, <3>2 DEF Undoes
  <2> QED BY <1>2, <2>1, <2>2 DEF Settled
<1>3. ASSUME NEW c \in DOMAIN log', NEW d \in DOMAIN log', NEW n \in log'[c].chosen \cap log'[d].chosen,
             c < d, log'[c].of = log'[d].of, Lives(c)', Lives(d)'
      PROVE  Settled(c, d, n)'
  <2>1. c \in DOMAIN log
    BY <1>1, <1>3
  <2>2. Lives(c) /\ n \in log[c].chosen /\ log[c].of = log'[d].of
    BY <1>3, <2>1
  <2>3. CASE d \in DOMAIN log
    <3>1. Settled(c, d, n)
      BY <1>3, <2>1, <2>2, <2>3, NoSecondUndoIs DEF IInv
    <3> QED BY <1>2, <2>1, <3>1
  <2>4. CASE d \notin DOMAIN log
    <3>1. Settled(c, d, n)
      BY <1>3, <2>1, <2>2, <2>4
    <3> QED BY <1>2, <2>1, <3>1
  <2> QED BY <2>3, <2>4
<1>4. NoSecondUndo'
  <2>1. (NoSecondUndo <=>
           \A c, d \in DOMAIN log : \A n \in log[c].chosen \cap log[d].chosen :
             c < d /\ log[c].of = log[d].of /\ Lives(c) /\ Lives(d) => Settled(c, d, n))'
    BY NoSecondUndoIs, PTL
  <2> QED BY <1>3, <2>1
<1> QED BY <1>4 DEF IInv

(* A write that leaves an entry of its own. *)
LEMMA WriteStep ==
  ASSUME IInv, NEW r, NEW ops, NEW changes, Tick, plan' = r,
         log' = Append(log, Recorded(ops, changes, plan, Now, plan'))
  PROVE  IInv'
<1> DEFINE row == Recorded(ops, changes, plan, Now, plan')
<1>1. DOMAIN row = Fields /\ row.chosen = {}
  BY DEF Recorded, Fields
<1> HIDE DEF row
<1>2. log' = Append(log, row) /\ clock' \in Nat
  BY DEF row, Tick, Now, IInv, LogOK
<1>3. /\ LogOK' /\ DOMAIN log' = 1..(Len(log) + 1) /\ Len(log) \in Nat /\ DOMAIN log = 1..Len(log)
      /\ Len(log') = Len(log) + 1
      /\ \A e \in 1..Len(log) : log'[e] = log[e]
      /\ log'[Len(log) + 1] = row
  BY <1>1, <1>2, Appended, LogFacts DEF IInv
<1>4. \A d \in DOMAIN log' : d \notin DOMAIN log => log'[d].chosen = {}
  BY <1>1, <1>3
<1>5. \A e \in DOMAIN log : log'[e] = log[e] /\ (Lives(e)' => Lives(e))
  BY <1>3 DEF Lives
<1> QED BY <1>3, <1>4, <1>5, StaysUndone

(* IInv in every step. *)
LEMMA EditStep == ASSUME IInv, NEW op, Edit(op) PROVE IInv'
BY WriteStep DEF Edit

LEMMA ApproveStep == ASSUME IInv, NEW ops, Approve(ops) PROVE IInv'
BY WriteStep DEF Approve

LEMMA TemplateStep == ASSUME IInv, NEW ops, ApplyTemplate(ops) PROVE IInv'
BY WriteStep DEF ApplyTemplate

(* Steps that leave the history alone. *)
LEMMA SameLogStep == ASSUME IInv, log' = log, clock' \in Nat PROVE IInv'
<1>1. LogOK'
  BY DEF IInv, LogOK
<1>2. Len(log) \in Nat
  BY LogFacts DEF IInv
<1> QED BY <1>1, <1>2, StaysUndone DEF Lives

LEMMA CompleteStep == ASSUME IInv, NEW i, Complete(i) PROVE IInv'
<1>1. log' = log /\ clock' \in Nat
  BY DEF Complete, Tick, Now, IInv, LogOK
<1> QED BY <1>1, SameLogStep

LEMMA RecordStep == ASSUME IInv, NEW i, Record(i) PROVE IInv'
<1>1. log' = log /\ clock' \in Nat
  BY DEF Record, Tick, Now, IInv, LogOK
<1> QED BY <1>1, SameLogStep

(* A proposal is decided. *)
LEMMA DecideStep ==
  ASSUME IInv, NEW c \in DOMAIN log, log[c].status = "pending", clock' \in Nat,
         NEW row, DOMAIN row = Fields, log' = [log EXCEPT ![c] = row],
         row.ops = log[c].ops, row.of = log[c].of, row.chosen = log[c].chosen, row.from = log[c].from
  PROVE  IInv'
<1>1. /\ LogOK' /\ Len(log') = Len(log) /\ DOMAIN log' = DOMAIN log
      /\ \A e \in DOMAIN log : log'[e] = IF e = c THEN row ELSE log[e]
      /\ Len(log) \in Nat
  BY Replaced, LogFacts DEF IInv
<1>2. \A e \in DOMAIN log :
        /\ log'[e].ops = log[e].ops /\ log'[e].of = log[e].of
        /\ log'[e].chosen = log[e].chosen /\ log'[e].from = log[e].from
        /\ log[e].status = "applied" => log'[e].status = "applied"
  BY <1>1
<1>3. \A e \in DOMAIN log : Lives(e)' => Lives(e)
  BY <1>1 DEF Lives
<1> QED BY <1>1, <1>2, <1>3, StaysUndone

LEMMA ApplyUndoStep == ASSUME IInv, NEW c \in DOMAIN log, ApplyUndo(c) PROVE IInv'
<1> DEFINE done == Run(plan, log[c].ops, Commit)
           seen == [n \in 0..Len(log[c].ops) |->
                      IF n = 0 THEN log[c].changes[1].before ELSE log[c].changes[n].after]
           row == [log[c] EXCEPT !.status = "applied", !.at = Now,
                                 !.changes = Rebound(log[c].ops, seen, done), !.result = plan']
<1>1. log' = [log EXCEPT ![c] = row] /\ log[c].status = "pending" /\ Tick
  BY DEF ApplyUndo
<1>2. clock' \in Nat
  BY <1>1 DEF Tick, Now, IInv, LogOK
<1>3. /\ DOMAIN row = Fields /\ row.ops = log[c].ops /\ row.of = log[c].of
      /\ row.chosen = log[c].chosen /\ row.from = log[c].from
  BY DEF IInv, LogOK, Fields
<1> HIDE DEF row
<1> QED BY <1>1, <1>2, <1>3, DecideStep

LEMMA DropUndoStep == ASSUME IInv, NEW c \in DOMAIN log, DropUndo(c) PROVE IInv'
<1>1. PICK status \in {"rejected", "expired"} : log' = [log EXCEPT ![c].status = status]
  BY DEF DropUndo
<1> DEFINE row == [log[c] EXCEPT !.status = status]
<1>2. /\ log' = [log EXCEPT ![c] = row] /\ log[c].status = "pending" /\ clock' \in Nat
  BY <1>1 DEF DropUndo, IInv, LogOK
<1>3. /\ DOMAIN row = Fields /\ row.ops = log[c].ops /\ row.of = log[c].of
      /\ row.chosen = log[c].chosen /\ row.from = log[c].from
  BY DEF IInv, LogOK, Fields
<1> HIDE DEF row
<1> QED BY <1>2, <1>3, DecideStep

(* The undos there are of what a new one is to undo have been undone.      *)
LEMMA NothingActive ==
  ASSUME IInv, NEW e, NEW n \in DOMAIN log[e].ops, n \notin ActiveUndo(e),
         NEW c \in DOMAIN log, Lives(c), Undoes(c, e, n)
  PROVE  Settled(c, Len(log) + 1, n)
<1>1. log[c].status # "pending" /\ Inverses(c, n) # {} /\ Inverses(c, n) \cap Effective[c] = {}
  BY DEF ActiveUndo
<1>2. log[c].status = "applied"
  BY <1>1 DEF Lives
<1>3. Len(log) \in Nat /\ DOMAIN log = 1..Len(log)
  BY LogFacts DEF IInv
<1>4. Effective[c] = Standing(Effective, c, log)
  BY <1>3, EffectiveIs DEF AllStand
<1>5. ASSUME NEW k \in Inverses(c, n)
      PROVE  \E f \in c + 1 .. (Len(log) + 1) - 1 : log[f].status = "applied" /\ Undoes(f, c, k)
  <2>1. k \in DOMAIN log[c].ops /\ k \notin Standing(Effective, c, log)
    BY <1>1, <1>4 DEF Inverses
  <2>2. \E f \in c + 1 .. Len(log) : log[f].status = "applied" /\ log[f].of = c /\ k \in log[f].chosen
    BY <1>2, <2>1 DEF Standing
  <2> QED BY <1>3, <2>2 DEF Undoes
<1> QED BY <1>1, <1>2, <1>5 DEF Settled

LEMMA ProposeStep ==
  ASSUME IInv, NEW e \in DOMAIN log, NEW chosen \in SUBSET DOMAIN log[e].ops, ProposeUndo(e, chosen)
  PROVE  IInv'
<1> DEFINE ops == InverseOps(e, chosen)
           seen == Run(plan, ops, Trial)
           row == [status |-> "pending", of |-> e, chosen |-> chosen, from |-> InverseFrom(e, chosen),
                   ops |-> ops, changes |-> [n \in DOMAIN ops |-> Change(seen[n - 1], seen[n])],
                   base |-> plan, at |-> 0, result |-> plan]
<1>1. /\ log' = Append(log, row) /\ clock' \in Nat
      /\ chosen \cap ActiveUndo(e) = {} /\ chosen \subseteq DOMAIN log[e].ops
  BY DEF ProposeUndo, Undoable, IInv, LogOK
<1>2. DOMAIN row = Fields /\ row.of = e /\ row.chosen = chosen
  BY DEF Fields
<1> HIDE DEF row
<1>3. /\ LogOK' /\ Len(log') = Len(log) + 1 /\ DOMAIN log' = 1..(Len(log) + 1)
      /\ Len(log) \in Nat /\ DOMAIN log = 1..Len(log)
      /\ \A d \in 1..Len(log) : log'[d] = log[d]
      /\ log'[Len(log) + 1] = row
  BY <1>1, <1>2, Appended, LogFacts DEF IInv
<1>4. \A d \in DOMAIN log : log'[d] = log[d] /\ (Lives(d)' => Lives(d))
  BY <1>3 DEF Lives
<1>5. ASSUME NEW d \in DOMAIN log', NEW c \in DOMAIN log, NEW n \in log[c].chosen \cap log'[d].chosen,
             d \notin DOMAIN log, log[c].of = log'[d].of, Lives(c)
      PROVE  Settled(c, d, n)
  <2>1. d = Len(log) + 1 /\ log'[d] = row
    BY <1>3, <1>5
  <2>2. n \in DOMAIN log[e].ops /\ n \notin ActiveUndo(e) /\ Undoes(c, e, n)
    BY <1>1, <1>2, <1>5, <2>1 DEF Undoes
  <2> QED BY <1>5, <2>1, <2>2, NothingActive
<1> QED BY <1>3, <1>4, <1>5, StaysUndone

-----------------------------------------------------------------------------
LEMMA InvNext == IInv /\ [Next]_vars => IInv'
<1> SUFFICES ASSUME IInv, [Next]_vars PROVE IInv'
  OBVIOUS
<1>1. CASE UNCHANGED vars
  <2>1. log' = log /\ clock' \in Nat
    BY <1>1 DEF vars, IInv, LogOK
  <2> QED BY <2>1, SameLogStep
<1>2. CASE Next
  BY <1>2, EditStep, ApproveStep, TemplateStep, RecordStep, CompleteStep, ProposeStep,
     ApplyUndoStep, DropUndoStep DEF Next
<1> QED BY <1>1, <1>2

LEMMA Invariance == Spec => []IInv
BY InvInit, InvNext, PTL DEF Spec

(* Of two undos that chose an operation and are applied or may be, the     *)
(* later was proposed when the earlier was applied and what it did had     *)
(* been undone in its turn: reverse_preview refuses what an undo reserves  *)
(* or has in effect (NoSecondUndo).                                        *)
THEOREM UndoneOnce == Spec => []NoSecondUndo
<1>1. IInv => NoSecondUndo
  BY DEF IInv
<1> QED BY <1>1, Invariance, PTL

-----------------------------------------------------------------------------
(* What each operation does to a plan (Does), whatever the plan: the       *)
(* items, the links and their identities.                                  *)

(* The links N of L with the positions h. *)
Placed(L, N, h) == (L \ N) \cup {[x EXCEPT !.position = h[x]] : x \in N}

(* What moving an item leaves of the links and adds to them. *)
Moves(s, op, t, L, N, h, added) ==
  /\ L = s.links \ Parent(s, op.item) /\ N \subseteq L
  /\ \A x \in added :
       /\ DOMAIN x = LinkFields /\ x.type = "part_of" /\ x.source = op.item /\ x.target = op.to
       /\ {x.source, x.target} \subseteq Items(s) /\ op.to # NULL
       /\ IF Parent(s, op.item) = {} THEN x.id = t ELSE \E y \in Parent(s, op.item) : x.id = y.id
  /\ \A x, y \in added : x = y
  /\ op.to # NULL => added # {}
  /\ op.to = NULL => Parent(s, op.item) # {}
  /\ op.item \in Items(s)

(* The siblings of an item are links of other items to the same one. *)
LEMMA SiblingsAre ==
  ASSUME NEW s, NEW p, NEW i
  PROVE  In(s)!Siblings(p, i) \subseteq {x \in s.links : x.type = "part_of" /\ x.target = p /\ x.source # i}
BY DEF In!Siblings

(* Numbering links again changes their positions and nothing else. *)
LEMMA NumberedIs ==
  ASSUME NEW s, NEW S, NEW gap
  PROVE  In(s)!Numbered(S, gap) =
           {[x EXCEPT !.position = IF In(s)!Rank(S, x) < gap THEN In(s)!Rank(S, x) ELSE In(s)!Rank(S, x) + 1] : x \in S}
BY DEF In!Numbered

(* A move takes the link of the item away, numbers others again, and adds  *)
(* at most one link.                                                       *)
LEMMA ReparentShape ==
  ASSUME NEW s, PlanOK(s), NEW op, NEW t, NEW r \in Reparent(s, op, t)
  PROVE  \E L, N, h, added :
           /\ Moves(s, op, t, L, N, h, added)
           /\ r = [s EXCEPT !.links = Placed(L, N, h) \cup added]
<1> DEFINE old == Parent(s, op.item)
           left == UNION {In(s)!Siblings(x.target, op.item) : x \in {y \in old : y.target # op.to}}
           there == IF op.to = NULL THEN {} ELSE In(s)!Siblings(op.to, op.item)
           k == IF op.at = NULL THEN Cardinality(there) ELSE op.at
           id == IF old = {} THEN t ELSE (CHOOSE x \in old : TRUE).id
           x0 == NewLink("part_of", op.item, op.to, k, id)
           L == s.links \ old
           N == there \cup left
           n == Cardinality(left)
           f(x) == IF In(s)!Rank(there, x) < k THEN In(s)!Rank(there, x) ELSE In(s)!Rank(there, x) + 1
           g(x) == IF In(s)!Rank(left, x) < n THEN In(s)!Rank(left, x) ELSE In(s)!Rank(left, x) + 1
           h == [x \in N |-> IF x \in there THEN f(x) ELSE g(x)]
<1>1. old = {x \in s.links : x.type = "part_of" /\ x.source = op.item}
  BY DEF Parent, In!PartOf
<1>2. there \subseteq L
  BY <1>1, SiblingsAre
<1>3. left \subseteq L
  BY <1>1, SiblingsAre
<1>4. there \cap left = {}
  BY SiblingsAre
<1>5. In(s)!Numbered(there, k) = {[x EXCEPT !.position = f(x)] : x \in there}
  BY NumberedIs
<1>6. In(s)!Numbered(left, n) = {[x EXCEPT !.position = g(x)] : x \in left}
  BY NumberedIs
<1>7. /\ op.item \in Items(s)
      /\ op.to = NULL => old # {} /\ r = [s EXCEPT !.links = (@ \ (old \cup left)) \cup In(s)!Numbered(left, n)]
      /\ op.to # NULL => /\ In(s)!Valid(s.items, s.links \ old, x0)
                         /\ r = [s EXCEPT !.links = (@ \ (old \cup there \cup left))
                                   \cup {x0} \cup In(s)!Numbered(there, k) \cup In(s)!Numbered(left, n)]
  BY DEF Reparent
<1> HIDE DEF left, f, g, n, k, id
<1>8. CASE op.to = NULL
  <2>1. N = left /\ \A x \in N : h[x] = g(x)
    BY <1>8
  <2>2. {[x EXCEPT !.position = g(x)] : x \in left} = {[x EXCEPT !.position = h[x]] : x \in N}
    BY <2>1
  <2>3. r = [s EXCEPT !.links = (@ \ (old \cup left)) \cup {[x EXCEPT !.position = g(x)] : x \in left}]
    BY <1>6, <1>7, <1>8
  <2>4. (s.links \ (old \cup left)) \cup {[x EXCEPT !.position = g(x)] : x \in left} = Placed(L, N, h) \cup {}
    <3> HIDE DEF h
    <3> QED BY <2>1, <2>2 DEF Placed
  <2>5. Moves(s, op, t, L, N, h, {})
    BY <1>3, <1>7, <1>8, <2>1 DEF Moves
  <2>6. r = [s EXCEPT !.links = Placed(L, N, h) \cup {}]
    <3> HIDE DEF h, N, L
    <3> QED BY <2>3, <2>4
  <2> HIDE DEF h, N, L
  <2> QED BY <2>5, <2>6
<1>9. CASE op.to # NULL
  <2>1. /\ DOMAIN x0 = LinkFields /\ x0.type = "part_of" /\ x0.source = op.item /\ x0.target = op.to /\ x0.id = id
    BY DEF NewLink, LinkFields
  <2>2. {x0.source, x0.target} \subseteq Items(s)
    BY <1>7, <1>9 DEF In!Valid, Items
  <2>3. \A x \in there : h[x] = f(x)
    OBVIOUS
  <2>4. \A x \in left : h[x] = g(x)
    BY <1>4
  <2>5. {[x EXCEPT !.position = f(x)] : x \in there} \cup {[x EXCEPT !.position = g(x)] : x \in left}
          = {[x EXCEPT !.position = h[x]] : x \in N}
    <3> HIDE DEF h, there
    <3> QED BY <2>3, <2>4
  <2>6. (s.links \ (old \cup there \cup left)) \cup {x0} \cup {[x EXCEPT !.position = f(x)] : x \in there}
           \cup {[x EXCEPT !.position = g(x)] : x \in left} = Placed(L, N, h) \cup {x0}
    <3> HIDE DEF h, there, x0
    <3> QED BY <2>5 DEF Placed
  <2>7. r = [s EXCEPT !.links = (@ \ (old \cup there \cup left)) \cup {x0} \cup {[x EXCEPT !.position = f(x)] : x \in there}
                                    \cup {[x EXCEPT !.position = g(x)] : x \in left}]
    BY <1>5, <1>6, <1>7, <1>9
  <2>8. r = [s EXCEPT !.links = Placed(L, N, h) \cup {x0}]
    <3> HIDE DEF h, there, N, L, x0
    <3> QED BY <2>6, <2>7
  <2>9. IF old = {} THEN x0.id = t ELSE \E y \in old : x0.id = y.id
    BY <2>1 DEF id
  <2>10. Moves(s, op, t, L, N, h, {x0})
    <3> HIDE DEF h, there, x0
    <3> QED BY <1>2, <1>3, <1>7, <1>9, <2>1, <2>2, <2>9 DEF Moves
  <2> HIDE DEF h, N, L, x0
  <2> QED BY <2>8, <2>10
<1> QED BY <1>8, <1>9

(* What is seen of a plan: its rows, but for when they were archived, and  *)
(* what is related to what.                                                *)
Triple(x) == <<x.type, x.source, x.target>>
Triples(s) == {Triple(x) : x \in s.links}
Look(row) == <<row.title, row.done, row.archived>>
Looks(s) == [i \in Items(s) |-> Look(s.items[i])]

(* What an operation does to them. *)
Ties(T, op) ==
  CASE op.kind \in Posts  -> T \cup {<<op.kind, op.item, op.to>>}
    [] op.kind = "unlink" -> T \ {<<op.type, op.item, op.to>>}
    [] op.kind = "create" -> IF op.to = NULL THEN T ELSE T \cup {<<"part_of", op.item, op.to>>}
    [] op.kind = "move"   -> {a \in T : ~(a[1] = "part_of" /\ a[2] = op.item)} \cup
                               (IF op.to = NULL THEN {} ELSE {<<"part_of", op.item, op.to>>})
    [] OTHER              -> T

Sight(v, op) ==
  CASE op.kind = "edit"    -> <<op.to, v[2], v[3]>>
    [] op.kind = "reopen"  -> <<v[1], FALSE, v[3]>>
    [] op.kind = "archive" -> <<v[1], v[2], TRUE>>
    [] op.kind = "restore" -> <<v[1], v[2], FALSE>>
    [] OTHER               -> v

Sights(f, op) ==
  IF op.kind = "create" THEN [i \in DOMAIN f \cup {op.item} |-> IF i = op.item THEN <<0, FALSE, FALSE>> ELSE f[i]]
  ELSE [i \in DOMAIN f |-> IF i = op.item THEN Sight(f[i], op) ELSE f[i]]

(* The identity of a link is of one link, and new ones are taken at t. *)
SameIds(s, t, r) ==
  \A x \in r.links :
    x.id = t \/ \E y \in s.links : y.id = x.id /\ y.type = x.type /\ y.source = x.source

Does(s, op, t, r) ==
  /\ PlanOK(r) /\ Taken(r, t + 1) /\ SameIds(s, t, r)
  /\ Triples(r) = Ties(Triples(s), op) /\ Looks(r) = Sights(Looks(s), op)
  /\ op.kind = "unlink" => <<op.type, op.item, op.to>> \in Triples(s)
  /\ op.kind = "create" => op.item = Len(s.items) + 1

(* Links that are there, and their identities. *)
LEMMA IdsStay ==
  ASSUME NEW s, NEW t, NEW r, r.links \subseteq s.links
  PROVE  SameIds(s, t, r)
BY DEF SameIds

(* A list is a function on the numbers up to its length, and the other way *)
(* round.                                                                  *)
LEMMA ListIs ==
  ASSUME NEW f, IsList(f)
  PROVE  Len(f) \in Nat /\ DOMAIN f = 1..Len(f) /\ f = [n \in 1..Len(f) |-> f[n]]
BY DEF IsList

LEMMA IsAList ==
  ASSUME NEW n \in Nat, NEW f, f = [k \in 1..n |-> f[k]]
  PROVE  IsList(f) /\ Len(f) = n
<1> DEFINE S == {f[k] : k \in DOMAIN f}
<1>0. DOMAIN f = 1..n
  OBVIOUS
<1>1. \A k \in 1..n : f[k] \in S
  BY <1>0
<1>2. f \in [1..n -> S]
  <2> HIDE DEF S
  <2> QED BY <1>1
<1>3. f \in Seq(S) /\ Len(f) = n
  <2> HIDE DEF S
  <2> QED BY <1>2
<1> QED BY <1>3 DEF IsList

(* A PATCH of one kind or another gives one item another row. *)
LEMMA PatchRow ==
  ASSUME NEW s, PlanOK(s), NEW t, NEW op, op.kind \in Patches, NEW r \in Patch(s, op, t)
  PROVE  /\ op.item \in Items(s)
         /\ \E row : /\ r = [s EXCEPT !.items[op.item] = row] /\ DOMAIN row = RowFields
                     /\ Look(row) = Sight(Look(s.items[op.item]), op)
<1> DEFINE i == op.item
           old == s.items[i]
<1>1. i \in Items(s) /\ DOMAIN old = RowFields
  BY DEF Patch, PlanOK, RowsOK, Items
<1> HIDE DEF old
<1>2. (\E row : /\ r = [s EXCEPT !.items[i] = row] /\ DOMAIN row = RowFields
                /\ Look(row) = Sight(Look(old), op))
  <2>1. CASE op.kind = "edit"
    <3> DEFINE row == [old EXCEPT !.title = op.to]
    <3>1. Patch(s, op, t) = WithRow(s, i, row)
      BY <1>1, <2>1 DEF Patch, old
    <3>2. DOMAIN row = RowFields /\ Look(row) = <<op.to, old.done, old.archived>>
      BY <1>1 DEF Look, RowFields
    <3>3. Sight(Look(old), op) = <<op.to, old.done, old.archived>>
      BY <2>1 DEF Sight, Look
    <3> HIDE DEF row
    <3>4. r = [s EXCEPT !.items[i] = row]
      BY <3>1 DEF WithRow
    <3> QED BY <3>2, <3>3, <3>4
  <2>2. CASE op.kind = "reopen"
    <3> DEFINE row == [old EXCEPT !.done = FALSE]
    <3>1. Patch(s, op, t) = WithRow(s, i, row)
      BY <1>1, <2>2 DEF Patch, old
    <3>2. DOMAIN row = RowFields /\ Look(row) = <<old.title, FALSE, old.archived>>
      BY <1>1 DEF Look, RowFields
    <3>3. Sight(Look(old), op) = <<old.title, FALSE, old.archived>>
      BY <2>2 DEF Sight, Look
    <3> HIDE DEF row
    <3>4. r = [s EXCEPT !.items[i] = row]
      BY <3>1 DEF WithRow
    <3> QED BY <3>2, <3>3, <3>4
  <2>3. CASE op.kind = "archive"
    <3> DEFINE row == [old EXCEPT !.archived = TRUE, !.since = t]
    <3>1. Patch(s, op, t) = WithRow(s, i, row)
      BY <1>1, <2>3 DEF Patch, old
    <3>2. DOMAIN row = RowFields /\ Look(row) = <<old.title, old.done, TRUE>>
      BY <1>1 DEF Look, RowFields
    <3>3. Sight(Look(old), op) = <<old.title, old.done, TRUE>>
      BY <2>3 DEF Sight, Look
    <3> HIDE DEF row
    <3>4. r = [s EXCEPT !.items[i] = row]
      BY <3>1 DEF WithRow
    <3> QED BY <3>2, <3>3, <3>4
  <2>4. CASE op.kind = "restore"
    <3> DEFINE row == [old EXCEPT !.archived = FALSE, !.since = NULL]
    <3>1. Patch(s, op, t) = WithRow(s, i, row)
      BY <1>1, <2>4 DEF Patch, old
    <3>2. DOMAIN row = RowFields /\ Look(row) = <<old.title, old.done, FALSE>>
      BY <1>1 DEF Look, RowFields
    <3>3. Sight(Look(old), op) = <<old.title, old.done, FALSE>>
      BY <2>4 DEF Sight, Look
    <3> HIDE DEF row
    <3>4. r = [s EXCEPT !.items[i] = row]
      BY <3>1 DEF WithRow
    <3> QED BY <3>2, <3>3, <3>4
  <2> QED BY <2>1, <2>2, <2>3, <2>4 DEF Patches
<1> QED BY <1>1, <1>2 DEF old

(* A PATCH does what Does says. *)
LEMMA PatchDoes ==
  ASSUME NEW s, PlanOK(s), NEW t \in Int, Taken(s, t), NEW op, op.kind \in Patches, NEW r \in Patch(s, op, t)
  PROVE  Does(s, op, t, r)
<1> DEFINE i == op.item
<1>1. i \in Items(s)
  BY PatchRow
<1>2. PICK row : /\ r = [s EXCEPT !.items[i] = row] /\ DOMAIN row = RowFields
                 /\ Look(row) = Sight(Look(s.items[i]), op)
  BY PatchRow
<1>3. /\ r.links = s.links /\ IsPlan(r)
      /\ r.items = [s.items EXCEPT ![i] = row]
  BY <1>2 DEF PlanOK, IsPlan
<1>4. /\ PlanOK(r) /\ Items(r) = Items(s)
      /\ \A j \in Items(s) : r.items[j] = IF j = i THEN row ELSE s.items[j]
  <2> HIDE DEF i
  <2>1. RowsOK(s.items) /\ Len(s.items) \in Nat /\ DOMAIN s.items = 1..Len(s.items)
    BY ListIs DEF PlanOK, RowsOK
  <2>2. r.items = [k \in 1..Len(s.items) |-> r.items[k]]
    BY <1>3, <2>1
  <2>3. IsList(r.items) /\ Len(r.items) = Len(s.items)
    BY <2>1, <2>2, IsAList
  <2>4. Items(r) = Items(s) /\ \A j \in Items(s) : r.items[j] = IF j = i THEN row ELSE s.items[j]
    BY <1>3, <2>1 DEF Items
  <2>5. RowsOK(r.items)
    BY <1>2, <2>1, <2>3, <2>4 DEF RowsOK, Items
  <2> QED BY <1>3, <2>4, <2>5 DEF PlanOK
<1>5. Taken(r, t + 1) /\ SameIds(s, t, r) /\ Triples(r) = Triples(s)
  BY <1>3, IdsStay DEF Taken, Triples, PlanOK, LinksOK
<1>6. Looks(r) = Sights(Looks(s), op)
  BY <1>2, <1>4 DEF Looks, Sights, Patches
<1>7. Ties(Triples(s), op) = Triples(s)
  BY DEF Ties, Patches, Posts
<1>8. op.kind # "unlink" /\ op.kind # "create"
  BY DEF Patches
<1> QED BY <1>4, <1>5, <1>6, <1>7, <1>8 DEF Does

(* A link that is not there yet. *)
LEMMA AddedLink ==
  ASSUME NEW s, PlanOK(s), NEW t \in Int, Taken(s, t), NEW x,
         DOMAIN x = LinkFields, x.type \in Posts, x.id = t,
         x.type = "part_of" => ~\E y \in s.links : y.type = "part_of" /\ y.source = x.source,
         NEW r, IsPlan(r), RowsOK(r.items), Items(s) \subseteq Items(r),
         {x.source, x.target} \subseteq Items(r), r.links = s.links \cup {x}
  PROVE  /\ PlanOK(r) /\ Taken(r, t + 1) /\ SameIds(s, t, r)
         /\ Triples(r) = Triples(s) \cup {Triple(x)}
<1>1. IsFiniteSet(r.links)
  BY FS_AddElement DEF PlanOK, LinksOK
<1>2. \A y \in s.links : y.id \in Int /\ y.id < t
  BY DEF PlanOK, LinksOK, Taken
<1>3. LinksOK(r.links, Items(r))
  <2>1. \A y \in r.links : /\ DOMAIN y = LinkFields /\ y.type \in Posts /\ y.id \in Int
                           /\ y.source \in Items(r) /\ y.target \in Items(r)
    BY DEF PlanOK, LinksOK
  <2>2. ASSUME NEW y \in r.links, NEW z \in r.links,
               y.id = z.id \/ (y.type = "part_of" /\ z.type = "part_of" /\ y.source = z.source)
        PROVE  y = z
    BY <1>2, <2>2 DEF PlanOK, LinksOK
  <2> QED BY <1>1, <2>1, <2>2 DEF LinksOK
<1>4. PlanOK(r)
  BY <1>3 DEF PlanOK
<1>5. Taken(r, t + 1)
  BY <1>2 DEF Taken
<1>6. SameIds(s, t, r) /\ Triples(r) = Triples(s) \cup {Triple(x)}
  BY DEF SameIds, Triples
<1> QED BY <1>4, <1>5, <1>6

(* What a new link has to be: between items that are there, and of an item *)
(* that is part of nothing yet.                                            *)
LEMMA ValidIs ==
  ASSUME NEW s, NEW known, NEW L, NEW x, In(s)!Valid(known, L, x)
  PROVE  /\ {x.source, x.target} \subseteq DOMAIN known
         /\ x.type = "part_of" => ~\E y \in L : y.type = "part_of" /\ y.source = x.source
BY DEF In!Valid, In!SecondParent, In!Arrow

(* What a relation posted adds to plan s, or to the plan with an item more. *)
LEMMA RelateIs ==
  ASSUME NEW s, PlanOK(s), NEW t \in Int, Taken(s, t), NEW op, op.kind \in Posts, NEW r \in Relate(s, op, t)
  PROVE  /\ PlanOK(r) /\ Taken(r, t + 1) /\ SameIds(s, t, r) /\ r.items = s.items
         /\ Triples(r) = Triples(s) \cup {<<op.kind, op.item, op.to>>}
<1> DEFINE x == NewLink(op.kind, op.item, op.to, NULL, t)
<1>1. In(s)!Valid(s.items, s.links, x) /\ r = [s EXCEPT !.links = @ \cup {x}]
  BY DEF Relate
<1>2. /\ DOMAIN x = LinkFields /\ x.type = op.kind /\ x.id = t /\ x.source = op.item /\ x.target = op.to
      /\ Triple(x) = <<op.kind, op.item, op.to>>
  BY DEF NewLink, LinkFields, Triple
<1> HIDE DEF x
<1>3. /\ {x.source, x.target} \subseteq DOMAIN s.items
      /\ x.type = "part_of" => ~\E y \in s.links : y.type = "part_of" /\ y.source = x.source
  BY <1>1, ValidIs
<1>4. r.items = s.items /\ r.links = s.links \cup {x} /\ IsPlan(r)
  BY <1>1 DEF PlanOK, IsPlan
<1>5. RowsOK(r.items) /\ Items(s) \subseteq Items(r) /\ {x.source, x.target} \subseteq Items(r)
  BY <1>3, <1>4 DEF PlanOK, Items
<1>6. /\ PlanOK(r) /\ Taken(r, t + 1) /\ SameIds(s, t, r)
      /\ Triples(r) = Triples(s) \cup {Triple(x)}
  BY <1>2, <1>3, <1>4, <1>5, AddedLink
<1> QED BY <1>2, <1>4, <1>6

(* POST relations does what Does says. *)
LEMMA RelateDoes ==
  ASSUME NEW s, PlanOK(s), NEW t \in Int, Taken(s, t), NEW op, op.kind \in Posts, NEW r \in Relate(s, op, t)
  PROVE  Does(s, op, t, r)
<1>1. /\ PlanOK(r) /\ Taken(r, t + 1) /\ SameIds(s, t, r) /\ r.items = s.items
      /\ Triples(r) = Triples(s) \cup {<<op.kind, op.item, op.to>>}
  BY RelateIs
<1>2. Looks(r) = Sights(Looks(s), op)
  <2>1. Looks(r) = Looks(s)
    BY <1>1 DEF Looks, Items
  <2>2. Sights(Looks(s), op) = Looks(s)
    BY DEF Sights, Sight, Posts, Looks
  <2> QED BY <2>1, <2>2
<1>3. Ties(Triples(s), op) = Triples(s) \cup {<<op.kind, op.item, op.to>>}
  BY DEF Ties, Posts
<1>4. op.kind # "unlink" /\ op.kind # "create"
  BY DEF Posts
<1> QED BY <1>1, <1>2, <1>3, <1>4 DEF Does

(* DELETE relations does what Does says. *)
LEMMA UnrelateDoes ==
  ASSUME NEW s, PlanOK(s), NEW t \in Int, Taken(s, t), NEW op, op.kind = "unlink", NEW r \in Unrelate(s, op)
  PROVE  Does(s, op, t, r)
<1> DEFINE gone == {x \in s.links : x.type = op.type /\ x.source = op.item /\ x.target = op.to}
<1>1. gone # {} /\ r = [s EXCEPT !.links = @ \ gone]
  BY DEF Unrelate
<1>2. IsPlan(r) /\ r.items = s.items /\ r.links = s.links \ gone
  BY <1>1 DEF PlanOK, IsPlan
<1>3. PlanOK(r)
  <2>1. IsFiniteSet(r.links)
    BY <1>2, FS_Subset DEF PlanOK, LinksOK
  <2>2. LinksOK(r.links, Items(r))
    BY <1>2, <2>1 DEF PlanOK, LinksOK, Items
  <2> QED BY <1>2, <2>2 DEF PlanOK
<1>4. Taken(r, t + 1) /\ SameIds(s, t, r)
  BY <1>2, IdsStay DEF Taken, PlanOK, LinksOK
<1>5. Triples(r) = Triples(s) \ {<<op.type, op.item, op.to>>}
  BY <1>2 DEF Triples, Triple
<1>6. <<op.type, op.item, op.to>> \in Triples(s)
  BY <1>1 DEF Triples, Triple
<1>7. Looks(r) = Looks(s) /\ Sights(Looks(s), op) = Looks(s)
  BY <1>2 DEF Looks, Items, Sights, Sight
<1>8. Ties(Triples(s), op) = Triples(s) \ {<<op.type, op.item, op.to>>}
  BY DEF Ties, Posts
<1> QED BY <1>3, <1>4, <1>5, <1>6, <1>7, <1>8 DEF Does

(* POST items does what Does says: one item more, and the link it comes    *)
(* with.                                                                   *)
LEMMA CreateDoes ==
  ASSUME NEW s, PlanOK(s), NEW t \in Int, Taken(s, t), NEW op, op.kind = "create", NEW r \in Create(s, op, t)
  PROVE  Does(s, op, t, r)
<1> DEFINE row == [kind |-> "outcome", archived |-> FALSE, title |-> 0, done |-> FALSE, since |-> NULL]
           made == [s EXCEPT !.items = Append(@, row)]
           n == Len(s.items)
<1>1. /\ op.item = n + 1 /\ ~(op.item > Size)
      /\ IF op.to = NULL THEN r = made ELSE r \in Relate(made, Operation("part_of", op.item, op.to), t)
  BY DEF Create
<1>2. DOMAIN row = RowFields /\ Look(row) = <<0, FALSE, FALSE>>
  BY DEF RowFields, Look
<1> HIDE DEF row
<1>3. made.items = Append(s.items, row) /\ made.links = s.links /\ IsPlan(made)
  BY DEF PlanOK, IsPlan
<1> HIDE DEF made
<1>4. RowsOK(s.items) /\ n \in Nat /\ DOMAIN s.items = 1..n /\ Items(s) = 1..n
  BY ListIs DEF PlanOK, RowsOK, Items
<1>5. /\ Len(made.items) = n + 1 /\ DOMAIN made.items = 1..(n + 1)
      /\ \A i \in 1..n : made.items[i] = s.items[i]
      /\ made.items[n + 1] = row
      /\ made.items = [k \in 1..(n + 1) |-> made.items[k]]
  <2> DEFINE S == {s.items[k] : k \in DOMAIN s.items} \cup {row}
  <2>1. s.items \in Seq({s.items[k] : k \in DOMAIN s.items})
    BY <1>4 DEF RowsOK, IsList
  <2>2. s.items \in Seq(S) /\ row \in S
    <3> DEFINE R == {s.items[k] : k \in DOMAIN s.items}
    <3> HIDE DEF R
    <3>1. s.items \in Seq(R) /\ R \subseteq R \cup {row}
      BY <2>1 DEF R
    <3>2. s.items \in Seq(R \cup {row})
      BY <3>1
    <3> QED BY <3>2 DEF R
  <2> HIDE DEF S
  <2> QED BY <1>3, <1>4, <2>2
<1>6. IsList(made.items)
  BY <1>4, <1>5, IsAList
<1>7. RowsOK(made.items)
  <2>1. Len(made.items) <= Size
    BY <1>1, <1>4, <1>5, BoundAssumption
  <2>2. \A i \in 1..(n + 1) : DOMAIN made.items[i] = RowFields
    <3>1. \A i \in 1..n : DOMAIN s.items[i] = RowFields
      BY <1>4 DEF RowsOK
    <3>2. \A i \in 1..(n + 1) : i \in 1..n \/ i = n + 1
      BY <1>4
    <3> QED BY <1>2, <1>5, <3>1, <3>2
  <2> QED BY <1>5, <1>6, <2>1, <2>2 DEF RowsOK
<1>8. Items(made) = Items(s) \cup {op.item} /\ op.item \notin Items(s)
  BY <1>1, <1>4, <1>5 DEF Items
<1>9. PlanOK(made)
  BY <1>3, <1>7, <1>8 DEF PlanOK, LinksOK
<1>10. Taken(made, t) /\ Taken(made, t + 1) /\ SameIds(s, t, made) /\ Triples(made) = Triples(s)
  BY <1>3, IdsStay DEF Taken, Triples, PlanOK, LinksOK
<1>11. Looks(made) = Sights(Looks(s), op)
  BY <1>1, <1>2, <1>4, <1>5, <1>8 DEF Looks, Sights
<1>12. CASE op.to = NULL
  <2>1. Ties(Triples(s), op) = Triples(s)
    BY <1>12 DEF Ties, Posts
  <2> QED BY <1>1, <1>9, <1>10, <1>11, <1>12, <2>1 DEF Does
<1>13. CASE op.to # NULL
  <2> DEFINE post == Operation("part_of", op.item, op.to)
  <2>1. post.kind = "part_of" /\ post.item = op.item /\ post.to = op.to /\ post.kind \in Posts
    BY DEF Operation, Posts
  <2> HIDE DEF post
  <2>2. r \in Relate(made, post, t)
    BY <1>1, <1>13 DEF post
  <2>3. /\ PlanOK(r) /\ Taken(r, t + 1) /\ SameIds(made, t, r) /\ r.items = made.items
        /\ Triples(r) = Triples(made) \cup {<<post.kind, post.item, post.to>>}
    BY <1>9, <1>10, <2>1, <2>2, RelateIs
  <2>4. SameIds(s, t, r)
    BY <1>3, <2>3 DEF SameIds
  <2>5. Looks(r) = Looks(made)
    BY <2>3 DEF Looks, Items
  <2>6. Ties(Triples(s), op) = Triples(s) \cup {<<"part_of", op.item, op.to>>}
    BY <1>13 DEF Ties, Posts
  <2> QED BY <1>1, <1>10, <1>11, <2>1, <2>3, <2>4, <2>5, <2>6 DEF Does
<1> QED BY <1>12, <1>13

(* The values of a function on a finite set are finitely many. *)
LEMMA ImageIsFinite ==
  ASSUME NEW L, IsFiniteSet(L), NEW f, DOMAIN f = L, f = [y \in L |-> f[y]]
  PROVE  IsFiniteSet({f[y] : y \in L})
<1> DEFINE T == {f[y] : y \in L}
<1>1. f \in Surjection(L, T)
  BY DEF Surjection
<1> HIDE DEF T
<1>2. IsFiniteSet(T)
  BY <1>1, FS_Surjection
<1> QED BY <1>2 DEF T

(* A move does what Does says: no other link is gained or lost, and the    *)
(* one that is moved keeps its identity.                                   *)
LEMMA ReparentDoes ==
  ASSUME NEW s, PlanOK(s), NEW t \in Int, Taken(s, t), NEW op, op.kind = "move", NEW r \in Reparent(s, op, t)
  PROVE  Does(s, op, t, r)
<1>1. PICK L, N, h, added : /\ Moves(s, op, t, L, N, h, added)
                            /\ r = [s EXCEPT !.links = Placed(L, N, h) \cup added]
  BY ReparentShape
<1> DEFINE old == Parent(s, op.item)
<1>2. old = {x \in s.links : x.type = "part_of" /\ x.source = op.item}
  BY DEF Parent, In!PartOf
<1>3. L = s.links \ old /\ N \subseteq L
  BY <1>1 DEF Moves
<1>4. \A x \in s.links : /\ DOMAIN x = LinkFields /\ x.type \in Posts /\ x.id \in Int /\ x.id < t
                         /\ x.source \in Items(s) /\ x.target \in Items(s)
  BY DEF PlanOK, LinksOK, Taken
<1> DEFINE f(y) == IF y \in N THEN [y EXCEPT !.position = h[y]] ELSE y
<1>5. /\ Placed(L, N, h) = {f(y) : y \in L}
      /\ \A y \in L : /\ DOMAIN f(y) = LinkFields /\ f(y).type = y.type /\ f(y).id = y.id
                      /\ f(y).source = y.source /\ f(y).target = y.target
  <2> DEFINE g(y) == [y EXCEPT !.position = h[y]]
  <2>1. \A y \in L : /\ DOMAIN g(y) = LinkFields /\ g(y).type = y.type /\ g(y).id = y.id
                     /\ g(y).source = y.source /\ g(y).target = y.target
    BY <1>3, <1>4 DEF LinkFields
  <2>2. Placed(L, N, h) = (L \ N) \cup {g(y) : y \in N}
    BY DEF Placed
  <2>3. \A y : f(y) = IF y \in N THEN g(y) ELSE y
    OBVIOUS
  <2> HIDE DEF g, f
  <2>4. Placed(L, N, h) = {f(y) : y \in L}
    BY <1>3, <2>2, <2>3
  <2>5. ASSUME NEW y \in L
        PROVE  /\ DOMAIN f(y) = LinkFields /\ f(y).type = y.type /\ f(y).id = y.id
               /\ f(y).source = y.source /\ f(y).target = y.target
    <3>1. CASE y \in N
      <4>1. f(y) = g(y)
        BY <2>3, <3>1
      <4> QED BY <2>1, <4>1
    <3>2. CASE y \notin N
      <4>1. f(y) = y
        BY <2>3, <3>2
      <4> QED BY <1>3, <1>4, <4>1
    <3> QED BY <3>1, <3>2
  <2> QED BY <2>4, <2>5
<1> HIDE DEF f
<1>6. IsPlan(r) /\ r.items = s.items /\ r.links = {f(y) : y \in L} \cup added
  BY <1>1, <1>5 DEF PlanOK, IsPlan
<1>7. /\ \A x \in added : /\ DOMAIN x = LinkFields /\ x.type = "part_of" /\ x.source = op.item /\ x.target = op.to
                          /\ x.source \in Items(s) /\ x.target \in Items(s) /\ op.to # NULL
                          /\ IF old = {} THEN x.id = t ELSE \E y \in old : x.id = y.id
      /\ \A x, y \in added : x = y
      /\ op.to # NULL => added # {}
  BY <1>1 DEF Moves
<1> HIDE DEF old
<1>8. \A x, y \in s.links :
        x.id = y.id \/ (x.type = "part_of" /\ y.type = "part_of" /\ x.source = y.source) => x = y
  BY DEF PlanOK, LinksOK
<1>9. IsFiniteSet(r.links)
  <2>1. IsFiniteSet({f(y) : y \in L})
    <3>1. IsFiniteSet(L)
      BY <1>3, FS_Subset DEF PlanOK, LinksOK
    <3> DEFINE g == [y \in L |-> f(y)]
    <3>2. DOMAIN g = L /\ g = [y \in L |-> g[y]]
      OBVIOUS
    <3>3. {f(y) : y \in L} = {g[y] : y \in L}
      OBVIOUS
    <3> HIDE DEF g
    <3> QED BY <3>1, <3>2, <3>3, ImageIsFinite
  <2>2. CASE added = {}
    BY <1>6, <2>1, <2>2
  <2>3. CASE added # {}
    <3>1. PICK x \in added : TRUE
      BY <2>3
    <3>2. added = {x}
      BY <1>7, <3>1
    <3> DEFINE F == {f(y) : y \in L}
    <3>3. r.links = F \cup {x} /\ IsFiniteSet(F)
      BY <1>6, <2>1, <3>2
    <3> HIDE DEF F
    <3> QED BY <3>3, FS_AddElement
  <2> QED BY <2>2, <2>3
<1>10. \A x \in r.links : /\ DOMAIN x = LinkFields /\ x.type \in Posts /\ x.id \in Int /\ x.id < t + 1
                          /\ x.source \in Items(r) /\ x.target \in Items(r)
  <2> SUFFICES ASSUME NEW x \in r.links
               PROVE  /\ DOMAIN x = LinkFields /\ x.type \in Posts /\ x.id \in Int /\ x.id < t + 1
                      /\ x.source \in Items(r) /\ x.target \in Items(r)
    OBVIOUS
  <2>1. Items(r) = Items(s)
    BY <1>6 DEF Items
  <2>2. CASE x \in added
    BY <1>2, <1>4, <1>7, <2>1, <2>2 DEF Posts
  <2>3. CASE x \notin added
    BY <1>3, <1>4, <1>5, <1>6, <2>1, <2>3
  <2> QED BY <2>2, <2>3
<1>11. ASSUME NEW x \in r.links, NEW y \in r.links,
              x.id = y.id \/ (x.type = "part_of" /\ y.type = "part_of" /\ x.source = y.source)
       PROVE  x = y
  <2>1. ASSUME NEW a \in added, NEW b \in L
        PROVE  a.id # f(b).id /\ ~(f(b).type = "part_of" /\ a.source = f(b).source)
    BY <1>2, <1>3, <1>4, <1>5, <1>7, <1>8
  <2>2. CASE x \in added /\ y \in added
    BY <1>7, <2>2
  <2>3. CASE x \in added /\ y \notin added
    BY <1>6, <1>11, <2>1, <2>3
  <2>4. CASE x \notin added /\ y \in added
    BY <1>6, <1>11, <2>1, <2>4
  <2>5. CASE x \notin added /\ y \notin added
    <3>1. PICK a \in L, b \in L : x = f(a) /\ y = f(b)
      BY <1>6, <2>5
    <3>2. a = b
      BY <1>3, <1>5, <1>8, <1>11, <3>1
    <3> QED BY <3>1, <3>2
  <2> QED BY <2>2, <2>3, <2>4, <2>5
<1>12. PlanOK(r)
  <2>1. LinksOK(r.links, Items(r))
    BY <1>9, <1>10, <1>11 DEF LinksOK
  <2> QED BY <1>6, <2>1 DEF PlanOK
<1>13. Taken(r, t + 1)
  BY <1>10 DEF Taken
<1>14. SameIds(s, t, r)
  <2> SUFFICES ASSUME NEW x \in r.links
               PROVE  x.id = t \/ \E y \in s.links : y.id = x.id /\ y.type = x.type /\ y.source = x.source
    BY DEF SameIds
  <2>1. CASE x \in added
    BY <1>2, <1>7, <2>1
  <2>2. CASE x \notin added
    BY <1>3, <1>5, <1>6, <2>2
  <2> QED BY <2>1, <2>2
<1>15. Triples(r) = Ties(Triples(s), op)
  <2>1. Triples(r) = {Triple(y) : y \in L} \cup {Triple(x) : x \in added}
    <3>1. \A y \in L : Triple(f(y)) = Triple(y)
      BY <1>5 DEF Triple
    <3> QED BY <1>6, <3>1 DEF Triples
  <2>2. {Triple(y) : y \in L} = {a \in Triples(s) : ~(a[1] = "part_of" /\ a[2] = op.item)}
    <3>1. \A x \in s.links : Triple(x)[1] = x.type /\ Triple(x)[2] = x.source
      BY DEF Triple
    <3> QED BY <1>2, <1>3, <3>1 DEF Triples
  <2>3. {Triple(x) : x \in added} = IF op.to = NULL THEN {} ELSE {<<"part_of", op.item, op.to>>}
    <3>1. \A x \in added : Triple(x) = <<"part_of", op.item, op.to>>
      BY <1>7 DEF Triple
    <3> QED BY <1>7, <3>1
  <2> QED BY <2>1, <2>2, <2>3 DEF Ties, Posts
<1>16. Looks(r) = Sights(Looks(s), op)
  BY <1>6 DEF Looks, Items, Sights, Sight
<1> QED BY <1>12, <1>13, <1>14, <1>15, <1>16 DEF Does

(* Whatever an operation is, this is what it does when it is accepted. *)
LEMMA DoDoes ==
  ASSUME NEW s, PlanOK(s), NEW t \in Int, Taken(s, t), NEW op, op.kind \in OperationKinds, NEW r \in Do(s, op, t)
  PROVE  Does(s, op, t, r)
<1>1. CASE op.kind \in Patches
  <2>1. r \in Patch(s, op, t)
    BY <1>1 DEF Do, Patches, Posts
  <2> QED BY <1>1, <2>1, PatchDoes
<1>2. CASE op.kind = "create"
  <2>1. r \in Create(s, op, t)
    BY <1>2 DEF Do, Patches, Posts
  <2> QED BY <1>2, <2>1, CreateDoes
<1>3. CASE op.kind = "move"
  <2>1. r \in Reparent(s, op, t)
    BY <1>3 DEF Do, Patches, Posts
  <2> QED BY <1>3, <2>1, ReparentDoes
<1>4. CASE op.kind \in Posts
  <2>1. r \in Relate(s, op, t)
    BY <1>4 DEF Do, Patches, Posts
  <2> QED BY <1>4, <2>1, RelateDoes
<1>5. CASE op.kind = "unlink"
  <2>1. r \in Unrelate(s, op)
    BY <1>5 DEF Do, Patches, Posts
  <2> QED BY <1>5, <2>1, UnrelateDoes
<1> QED BY <1>1, <1>2, <1>3, <1>4, <1>5 DEF OperationKinds

-----------------------------------------------------------------------------
(* Lists of operations. *)

(* As far as a number. *)
LEMMA UpTo ==
  ASSUME NEW m \in Nat, NEW G, 0 \in G, \A n \in 0 .. m - 1 : n \in G => n + 1 \in G
  PROVE  \A n \in 0..m : n \in G
<1> DEFINE H == {n \in Nat : n <= m => n \in G}
<1>1. 0 \in H
  OBVIOUS
<1>2. ASSUME NEW n \in Nat, n \in H
      PROVE  n + 1 \in H
  <2> SUFFICES ASSUME n + 1 <= m PROVE n + 1 \in G
    OBVIOUS
  <2>1. n \in 0 .. m - 1 /\ n \in G
    BY <1>2
  <2> QED BY <2>1
<1> HIDE DEF H
<1>3. \A n \in Nat : n \in H
  BY <1>1, <1>2, AllNumbers
<1> QED BY <1>3 DEF H

-----------------------------------------------------------------------------
(* The course of a list of operations is what it says it is. *)
Onward(ops, t, n, S) == UNION {Do(r, ops[n], Width * t + n) : r \in S}

(* The equation of the recursive function Course. *)
LEMMA CourseIs ==
  ASSUME NEW s, NEW ops, Len(ops) \in Nat, NEW t
  PROVE  Course(s, ops, t) = [n \in 0..Len(ops) |->
            IF n = 0 THEN {s} ELSE Onward(ops, t, n, Course(s, ops, t)[n - 1])]
<1> DEFINE Is(f, m) == f = [n \in 0..m |-> IF n = 0 THEN {s} ELSE Onward(ops, t, n, f[n - 1])]
           G == {m \in Nat : \E f : Is(f, m)}
<1>1. 0 \in G
  <2> DEFINE f == [n \in 0..0 |-> {s}]
  <2>1. Is(f, 0)
    OBVIOUS
  <2> HIDE DEF f, Is
  <2> QED BY <2>1
<1>2. ASSUME NEW m \in Nat, m \in G
      PROVE  m + 1 \in G
  <2>1. PICK f : Is(f, m)
    BY <1>2
  <2> DEFINE g == [n \in 0 .. m + 1 |-> IF n <= m THEN f[n] ELSE Onward(ops, t, n, f[m])]
  <2>0. \A n \in 0..m : f[n] = IF n = 0 THEN {s} ELSE Onward(ops, t, n, f[n - 1])
    <3> HIDE DEF g
    <3> QED BY <2>1
  <2>2. \A n \in 0..m : g[n] = f[n]
    OBVIOUS
  <2>3. g[m + 1] = Onward(ops, t, m + 1, f[m])
    OBVIOUS
  <2>4. g = [n \in 0 .. m + 1 |-> g[n]]
    OBVIOUS
  <2> HIDE DEF g
  <2>5. \A n \in 0 .. m + 1 : g[n] = IF n = 0 THEN {s} ELSE Onward(ops, t, n, g[n - 1])
    <3> TAKE n \in 0 .. m + 1
    <3>1. CASE n \in 0..m
      <4>1. n = 0 \/ (n # 0 /\ n - 1 \in 0..m)
        BY <3>1
      <4> QED BY <2>0, <2>2, <3>1, <4>1
    <3>2. CASE n \notin 0..m
      <4>1. n = m + 1 /\ n # 0 /\ n - 1 = m /\ m \in 0..m
        BY <3>2
      <4> QED BY <2>2, <2>3, <4>1
    <3> QED BY <3>1, <3>2
  <2>6. Is(g, m + 1)
    BY <2>4, <2>5
  <2> HIDE DEF Is
  <2> QED BY <2>6
<1>3. \E f : Is(f, Len(ops))
  <2> HIDE DEF G
  <2>1. Len(ops) \in G
    BY <1>1, <1>2, AllNumbers
  <2> QED BY <2>1 DEF G
<1>4. Course(s, ops, t) = CHOOSE f : Is(f, Len(ops))
  BY DEF Course, Onward
<1> HIDE DEF Is
<1>5. Is(Course(s, ops, t), Len(ops))
  BY <1>3, <1>4
<1> QED BY <1>5 DEF Is

(* An operation is accepted in one way at most. *)
LEMMA DoOne ==
  ASSUME NEW s, NEW op, op.kind \in OperationKinds, NEW t, NEW a \in Do(s, op, t), NEW b \in Do(s, op, t)
  PROVE  a = b
<1>1. CASE op.kind \in Patches
  <2>1. Do(s, op, t) = Patch(s, op, t)
    BY <1>1 DEF Do, Patches, Posts
  <2>2. \E z : Patch(s, op, t) \subseteq {z}
    <3>1. CASE op.kind = "edit"
      BY <3>1 DEF Patch, WithRow
    <3>2. CASE op.kind = "reopen"
      BY <3>2 DEF Patch, WithRow
    <3>3. CASE op.kind = "archive"
      BY <3>3 DEF Patch, WithRow
    <3>4. CASE op.kind = "restore"
      BY <3>4 DEF Patch, WithRow
    <3> QED BY <1>1, <3>1, <3>2, <3>3, <3>4 DEF Patches
  <2> QED BY <2>1, <2>2
<1>2. CASE op.kind = "create"
  <2>1. Do(s, op, t) = Create(s, op, t)
    BY <1>2 DEF Do, Patches, Posts
  <2>2. \E z : Create(s, op, t) \subseteq {z}
    BY DEF Create, Relate
  <2> QED BY <2>1, <2>2
<1>3. CASE op.kind = "move"
  <2>1. Do(s, op, t) = Reparent(s, op, t)
    BY <1>3 DEF Do, Patches, Posts
  <2>2. \E z : Reparent(s, op, t) \subseteq {z}
    BY DEF Reparent
  <2> QED BY <2>1, <2>2
<1>4. CASE op.kind \in Posts
  <2>1. Do(s, op, t) = Relate(s, op, t)
    BY <1>4 DEF Do, Patches, Posts
  <2>2. \E z : Relate(s, op, t) \subseteq {z}
    BY DEF Relate
  <2> QED BY <2>1, <2>2
<1>5. CASE op.kind = "unlink"
  <2>1. Do(s, op, t) = Unrelate(s, op)
    BY <1>5 DEF Do, Patches, Posts
  <2>2. \E z : Unrelate(s, op) \subseteq {z}
    BY DEF Unrelate
  <2> QED BY <2>1, <2>2
<1> QED BY <1>1, <1>2, <1>3, <1>4, <1>5 DEF OperationKinds

(* A run that goes through goes from plan to plan by its operations. *)
LEMMA RunSteps ==
  ASSUME NEW s, NEW ops, OpsOK(ops), NEW t, Goes(s, ops, t)
  PROVE  /\ Run(s, ops, t)[0] = s
         /\ \A n \in 1..Len(ops) : Run(s, ops, t)[n] \in Do(Run(s, ops, t)[n - 1], ops[n], Width * t + n)
<1> DEFINE m == Len(ops)
           C == Course(s, ops, t)
<1>1. m \in Nat /\ \A n \in 1..m : ops[n].kind \in OperationKinds
  BY ListIs DEF OpsOK
<1>2. C = [n \in 0..m |-> IF n = 0 THEN {s} ELSE Onward(ops, t, n, C[n - 1])]
  BY <1>1, CourseIs
<1>3. C[0] = {s} /\ \A n \in 0 .. m - 1 : C[n + 1] = Onward(ops, t, n + 1, C[n])
  <2> HIDE DEF C
  <2>1. C[0] = {s}
    BY <1>1, <1>2
  <2>2. ASSUME NEW n \in 0 .. m - 1
        PROVE  C[n + 1] = Onward(ops, t, n + 1, C[n])
    <3>1. n + 1 \in 0..m /\ n + 1 # 0 /\ (n + 1) - 1 = n
      BY <1>1
    <3> QED BY <1>2, <3>1
  <2> QED BY <2>1, <2>2
<1>4. C[m] # {}
  BY DEF Goes
<1>5. Run(s, ops, t) = [n \in 0..m |-> CHOOSE r \in C[n] : TRUE]
  BY DEF Run
<1> HIDE DEF C, m
<1>6. \A n \in 0..m : \A a, b \in C[n] : a = b
  <2> DEFINE G == {n \in 0..m : \A a, b \in C[n] : a = b}
  <2>1. 0 \in G
    BY <1>1, <1>3
  <2>2. ASSUME NEW n \in 0 .. m - 1, n \in G
        PROVE  n + 1 \in G
    <3>1. n + 1 \in 1..m /\ n + 1 \in 0..m
      BY <1>1
    <3>2. ASSUME NEW a \in C[n + 1], NEW b \in C[n + 1]
          PROVE  a = b
      <4>1. PICK c \in C[n], d \in C[n] : /\ a \in Do(c, ops[n + 1], Width * t + (n + 1))
                                          /\ b \in Do(d, ops[n + 1], Width * t + (n + 1))
        BY <1>3, <3>2 DEF Onward
      <4>2. c = d
        BY <2>2, <4>1
      <4> QED BY <1>1, <3>1, <4>1, <4>2, DoOne
    <3> QED BY <3>1, <3>2
  <2> HIDE DEF G
  <2>3. \A n \in 0..m : n \in G
    BY <1>1, <2>1, <2>2, UpTo
  <2> QED BY <2>3 DEF G
<1>7. \A n \in 0..m : C[n] # {}
  <2> DEFINE G == {k \in 0..m : C[m - k] # {}}
  <2>1. 0 \in G
    BY <1>1, <1>4
  <2>2. ASSUME NEW k \in 0 .. m - 1, k \in G
        PROVE  k + 1 \in G
    <3>1. m - (k + 1) \in 0 .. m - 1 /\ (m - (k + 1)) + 1 = m - k /\ k + 1 \in 0..m
      BY <1>1
    <3>2. C[m - k] = Onward(ops, t, m - k, C[m - (k + 1)])
      BY <1>3, <3>1
    <3>3. C[m - (k + 1)] # {}
      BY <2>2, <3>2 DEF Onward
    <3> QED BY <3>1, <3>3
  <2> HIDE DEF G
  <2>3. \A k \in 0..m : k \in G
    BY <1>1, <2>1, <2>2, UpTo
  <2>4. ASSUME NEW n \in 0..m
        PROVE  C[n] # {}
    <3>1. m - n \in 0..m /\ m - (m - n) = n
      BY <1>1
    <3>2. m - n \in G
      BY <2>3, <3>1
    <3> QED BY <3>1, <3>2 DEF G
  <2> QED BY <2>4
<1> DEFINE f == Run(s, ops, t)
<1>8. \A n \in 0..m : f[n] \in C[n]
  BY <1>5, <1>7
<1> HIDE DEF f
<1>9. f[0] = s
  BY <1>1, <1>3, <1>8
<1>10. ASSUME NEW n \in 1..m
       PROVE  f[n] \in Do(f[n - 1], ops[n], Width * t + n)
  <2>1. n \in 0..m /\ n - 1 \in 0..m /\ n - 1 \in 0 .. m - 1 /\ (n - 1) + 1 = n
    BY <1>1
  <2>2. PICK c \in C[n - 1] : f[n] \in Do(c, ops[n], Width * t + n)
    BY <1>3, <1>8, <2>1 DEF Onward
  <2>3. c = f[n - 1]
    BY <1>6, <1>8, <2>1
  <2> QED BY <2>2, <2>3
<1> QED BY <1>9, <1>10 DEF f, m

-----------------------------------------------------------------------------
(* What is shown of a plan through a run of operations. *)

(* Identities taken before one number were taken before a greater one. *)
LEMMA Later ==
  ASSUME NEW s, NEW m \in Int, NEW n \in Int, m <= n, Taken(s, m), PlanOK(s)
  PROVE  Taken(s, n)
BY DEF Taken, PlanOK, LinksOK

(* All plans a run goes through are plans, and every operation does to     *)
(* them what Does says.                                                    *)
LEMMA RunOK ==
  ASSUME NEW s, PlanOK(s), NEW ops, OpsOK(ops), NEW t \in Nat, Taken(s, Width * t + 1), Goes(s, ops, t)
  PROVE  /\ \A n \in 0..Len(ops) : /\ PlanOK(Run(s, ops, t)[n])
                                   /\ Taken(Run(s, ops, t)[n], Width * t + n + 1)
         /\ \A n \in 1..Len(ops) : Does(Run(s, ops, t)[n - 1], ops[n], Width * t + n, Run(s, ops, t)[n])
<1> DEFINE f == Run(s, ops, t)
           m == Len(ops)
           T(n) == Width * t + n
           G == {n \in 0..m : PlanOK(f[n]) /\ Taken(f[n], T(n) + 1)}
<1>1. m \in Nat /\ \A n \in 1..m : ops[n].kind \in OperationKinds
  BY ListIs DEF OpsOK
<1>2. f[0] = s /\ \A n \in 1..m : f[n] \in Do(f[n - 1], ops[n], T(n))
  BY RunSteps
<1>3. \A n \in Int : T(n) \in Int /\ T(n + 1) = T(n) + 1
  BY DEF Width
<1>4. T(0) + 1 = Width * t + 1
  BY DEF Width
<1> HIDE DEF f, m
<1>5. ASSUME NEW n \in 0 .. m - 1, n \in G
      PROVE  Does(f[n], ops[n + 1], T(n + 1), f[n + 1])
  <2>1. n + 1 \in 1..m /\ (n + 1) - 1 = n /\ n \in Int
    BY <1>1
  <2>2. f[n + 1] \in Do(f[n], ops[n + 1], T(n + 1)) /\ ops[n + 1].kind \in OperationKinds
    BY <1>1, <1>2, <2>1
  <2>3. PlanOK(f[n]) /\ Taken(f[n], T(n + 1)) /\ T(n + 1) \in Int
    BY <1>3, <1>5, <2>1
  <2> HIDE DEF T
  <2> QED BY <2>2, <2>3, DoDoes
<1>6. \A n \in 0..m : n \in G
  <2>1. 0 \in G
    BY <1>1, <1>2, <1>4
  <2>2. ASSUME NEW n \in 0 .. m - 1, n \in G
        PROVE  n + 1 \in G
    <3>1. n + 1 \in 0..m
      BY <1>1
    <3> HIDE DEF T
    <3> QED BY <1>5, <2>2, <3>1 DEF Does
  <2> HIDE DEF G
  <2> QED BY <1>1, <2>1, <2>2, UpTo
<1>7. ASSUME NEW n \in 1..m
      PROVE  Does(f[n - 1], ops[n], T(n), f[n])
  <2>1. n - 1 \in 0 .. m - 1 /\ n - 1 \in 0..m /\ (n - 1) + 1 = n
    BY <1>1
  <2> HIDE DEF G, T
  <2> QED BY <1>5, <1>6, <2>1
<1> QED BY <1>6, <1>7 DEF f, m

-----------------------------------------------------------------------------
(* Plans that look the same. *)
Like(a, b) == Triples(a) = Triples(b) /\ Looks(a) = Looks(b)

SameTie(a, b) ==
  /\ a[1] = b[1]
  /\ \/ a[2] = b[2] /\ a[3] = b[3]
     \/ a[1] = "relates_to" /\ a[2] = b[3] /\ a[3] = b[2]

(* What Related and Seen look at: the triples, and the looks. *)
LEMMA RelatedIs ==
  ASSUME NEW s, NEW y
  PROVE  Related(s, y) <=> \E a \in Triples(s) : SameTie(a, Triple(y))
<1>1. \A x : SameLink(x, y) <=> SameTie(Triple(x), Triple(y))
  BY DEF SameLink, SameTie, Triple
<1> QED BY <1>1 DEF Related, Triples

LEMMA SeenIs ==
  ASSUME NEW s, NEW i
  PROVE  Seen(s, i) = IF i \in DOMAIN Looks(s) THEN Looks(s)[i] ELSE NULL
BY DEF Seen, Looks, Look

(* Plans that look the same show the same. *)
LEMMA LikeShows ==
  ASSUME NEW a, NEW b, Like(a, b)
  PROVE  (\A i : Seen(a, i) = Seen(b, i)) /\ (\A y : Related(a, y) = Related(b, y))
<1>1. \A i : Seen(a, i) = Seen(b, i)
  BY SeenIs DEF Like
<1>2. \A y : Related(a, y) <=> Related(b, y)
  BY RelatedIs DEF Like
<1>3. \A y : Related(a, y) \in BOOLEAN /\ Related(b, y) \in BOOLEAN
  BY DEF Related
<1> QED BY <1>1, <1>2, <1>3

(* What an operation is about: an item, or the two that it relates. *)
OnItem(op, i) == op.kind \notin Posts \cup {"unlink"} /\ op.item = i
Tie(op) == <<IF op.kind = "unlink" THEN op.type ELSE op.kind, op.item, op.to>>
OnLink(op, y) == op.kind \in Posts \cup {"unlink"} /\ SameTie(Tie(op), Triple(y))

Follow(v, ops) ==
  \A n \in 1..Len(ops) : /\ Triples(v[n]) = Ties(Triples(v[n - 1]), ops[n])
                         /\ Looks(v[n]) = Sights(Looks(v[n - 1]), ops[n])

(* An operation about another item, or another relation, changes nothing   *)
(* of what is shown.                                                       *)
LEMMA SeenStays ==
  ASSUME NEW s, NEW r, NEW op, op.kind \in OperationKinds, Looks(r) = Sights(Looks(s), op),
         NEW i, ~OnItem(op, i)
  PROVE  Seen(r, i) = Seen(s, i)
<1>1. CASE op.kind \in Posts \cup {"unlink"}
  <2>1. Sights(Looks(s), op) = Looks(s)
    BY <1>1 DEF Sights, Sight, Posts, Looks
  <2> QED BY <2>1, SeenIs
<1>2. CASE op.item # i
  <2> DEFINE f == Looks(s)
             g == Looks(r)
  <2>1. (i \in DOMAIN g <=> i \in DOMAIN f) /\ (i \in DOMAIN f => g[i] = f[i])
    <3> HIDE DEF f
    <3>1. g = Sights(f, op)
      BY DEF f
    <3> HIDE DEF g
    <3> QED BY <1>2, <3>1 DEF Sights
  <2> HIDE DEF f, g
  <2>2. Seen(s, i) = (IF i \in DOMAIN f THEN f[i] ELSE NULL) /\ Seen(r, i) = IF i \in DOMAIN g THEN g[i] ELSE NULL
    BY SeenIs DEF f, g
  <2> QED BY <2>1, <2>2
<1> QED BY <1>1, <1>2 DEF OnItem

LEMMA RelatedStays ==
  ASSUME NEW s, NEW r, NEW op, op.kind \in OperationKinds, Triples(r) = Ties(Triples(s), op),
         NEW y, y.type = "relates_to", ~OnLink(op, y)
  PROVE  Related(r, y) = Related(s, y)
<1> DEFINE T == Triples(s)
           b == Triple(y)
<1>1. b[1] = "relates_to"
  BY DEF Triple
<1>2. (\E a \in Ties(T, op) : SameTie(a, b)) <=> (\E a \in T : SameTie(a, b))
  <2> HIDE DEF T, b
  <2>1. CASE op.kind \in Posts
    <3>1. ~SameTie(<<op.kind, op.item, op.to>>, b)
      BY <2>1 DEF OnLink, Tie, b, Posts
    <3>2. Ties(T, op) = T \cup {<<op.kind, op.item, op.to>>}
      BY <2>1 DEF Ties, Posts
    <3> QED BY <3>1, <3>2
  <2>2. CASE op.kind = "unlink"
    <3>1. ~SameTie(<<op.type, op.item, op.to>>, b)
      BY <2>2 DEF OnLink, Tie, b
    <3>2. Ties(T, op) = T \ {<<op.type, op.item, op.to>>}
      BY <2>2 DEF Ties, Posts
    <3> QED BY <3>1, <3>2
  <2>3. CASE op.kind = "create"
    <3>1. ~SameTie(<<"part_of", op.item, op.to>>, b)
      BY <1>1 DEF SameTie
    <3>2. Ties(T, op) = T \/ Ties(T, op) = T \cup {<<"part_of", op.item, op.to>>}
      BY <2>3 DEF Ties, Posts
    <3> QED BY <3>1, <3>2
  <2>4. CASE op.kind = "move"
    <3>1. ~SameTie(<<"part_of", op.item, op.to>>, b)
      BY <1>1 DEF SameTie
    <3>2. Ties(T, op) = {a \in T : ~(a[1] = "part_of" /\ a[2] = op.item)} \cup
                               (IF op.to = NULL THEN {} ELSE {<<"part_of", op.item, op.to>>})
      BY <2>4 DEF Ties, Posts
    <3>3. \A a \in T : SameTie(a, b) => a[1] # "part_of"
      BY <1>1 DEF SameTie
    <3> QED BY <3>1, <3>2, <3>3
  <2>5. CASE op.kind \in Patches
    <3>1. Ties(T, op) = T
      BY <2>5 DEF Ties, Posts, Patches
    <3> QED BY <3>1
  <2> QED BY <2>1, <2>2, <2>3, <2>4, <2>5 DEF OperationKinds
<1>3. Related(r, y) <=> Related(s, y)
  BY <1>2, RelatedIs
<1> QED BY <1>3 DEF Related

(* From the a-th plan to the b-th. *)
LEMMA SeenThrough ==
  ASSUME NEW ops, OpsOK(ops), NEW v, Follow(v, ops), NEW i \in 1..Size,
         NEW a \in 0..Len(ops), NEW b \in 0..Len(ops), a <= b,
         \A n \in a + 1 .. b : ~OnItem(ops[n], i)
  PROVE  Seen(v[b], i) = Seen(v[a], i)
<1> DEFINE m == Len(ops)
           G == {k \in 0 .. b - a : Seen(v[a + k], i) = Seen(v[a], i)}
<1>1. m \in Nat /\ (\A n \in 1..m : ops[n].kind \in OperationKinds) /\ b - a \in Nat
  BY ListIs DEF OpsOK
<1>2. 0 \in G
  BY <1>1
<1>3. ASSUME NEW k \in 0 .. (b - a) - 1, k \in G
      PROVE  k + 1 \in G
  <2>1. /\ a + (k + 1) \in 1..m /\ a + (k + 1) \in a + 1 .. b /\ (a + (k + 1)) - 1 = a + k
        /\ k + 1 \in 0 .. b - a
    BY <1>1
  <2>2. Looks(v[a + (k + 1)]) = Sights(Looks(v[a + k]), ops[a + (k + 1)])
    BY <2>1 DEF Follow
  <2>3. Seen(v[a + (k + 1)], i) = Seen(v[a + k], i)
    BY <1>1, <2>1, <2>2, SeenStays
  <2> QED BY <1>3, <2>1, <2>3
<1> HIDE DEF G
<1>4. \A k \in 0 .. b - a : k \in G
  BY <1>1, <1>2, <1>3, UpTo
<1>5. b - a \in 0 .. b - a /\ a + (b - a) = b
  BY <1>1
<1>6. b - a \in G
  BY <1>4, <1>5
<1> QED BY <1>5, <1>6 DEF G

(* None of the operations after a up to b is about y. *)
Spared(ops, y, a, b) == \A n \in a + 1 .. b : ~OnLink(ops[n], y)

(* The same of a relation. *)
LEMMA RelatedThrough ==
  ASSUME NEW ops, OpsOK(ops), NEW v, Follow(v, ops), NEW y, y.type = "relates_to",
         NEW a \in 0..Len(ops), NEW b \in 0..Len(ops), a <= b, Spared(ops, y, a, b)
  PROVE  Related(v[b], y) = Related(v[a], y)
<1> DEFINE m == Len(ops)
           G == {k \in 0 .. b - a : Related(v[a + k], y) = Related(v[a], y)}
<1>1. m \in Nat /\ (\A n \in 1..m : ops[n].kind \in OperationKinds) /\ b - a \in Nat
  BY ListIs DEF OpsOK
<1>2. 0 \in G
  BY <1>1
<1>3. ASSUME NEW k \in 0 .. (b - a) - 1, k \in G
      PROVE  k + 1 \in G
  <2>1. /\ a + (k + 1) \in 1..m /\ a + (k + 1) \in a + 1 .. b /\ (a + (k + 1)) - 1 = a + k
        /\ k + 1 \in 0 .. b - a
    BY <1>1
  <2>2. Triples(v[a + (k + 1)]) = Ties(Triples(v[a + k]), ops[a + (k + 1)])
    BY <2>1 DEF Follow
  <2>3. Related(v[a + (k + 1)], y) = Related(v[a + k], y)
    BY <1>1, <2>1, <2>2, RelatedStays DEF Spared
  <2> QED BY <1>3, <2>1, <2>3
<1> HIDE DEF G
<1>4. \A k \in 0 .. b - a : k \in G
  BY <1>1, <1>2, <1>3, UpTo
<1>5. b - a \in 0 .. b - a /\ a + (b - a) = b
  BY <1>1
<1>6. b - a \in G
  BY <1>4, <1>5
<1> QED BY <1>5, <1>6 DEF G

-----------------------------------------------------------------------------
(* What an entry tells of the plan it was made on. *)

(* What entry row says, as Tells(e, s) has it of entry e. *)
RowBefore(row, n) ==
  LET op == row.ops[n]
      was == row.changes[n].before
  IN  CASE op.kind = "unlink" -> {x \in was.links : x.type = op.type /\ x.source = op.item /\ x.target = op.to}
        [] op.kind = "move"   -> Parent(was, op.item)
        [] OTHER              -> {}

RowAfter(row, n) ==
  LET op == row.ops[n]
      became == row.changes[n].after
  IN  CASE op.kind \in Posts             -> {x \in became.links :
                                               x.type = op.kind /\ x.source = op.item /\ x.target = op.to}
        [] op.kind \in {"move", "create"} -> Parent(became, op.item)
        [] OTHER                          -> {}

StepsOn(row, i) ==
  {n \in DOMAIN row.ops : row.ops[n].kind \notin Posts \cup {"unlink"} /\ row.ops[n].item = i}
StepsOf(row, y) ==
  {n \in DOMAIN row.ops : /\ row.ops[n].kind \in Posts \cup {"unlink"}
                          /\ \E x \in RowBefore(row, n) \cup RowAfter(row, n) : SameLink(x, y)}

(* That the changes of the steps in J say of plan s and the result what    *)
(* is seen of item i, and whether the two of link y are related.           *)
SaysItem(row, i, s) ==
  LET J == StepsOn(row, i)
  IN  /\ J = {} => Seen(row.result, i) = Seen(s, i)
      /\ \A j \in J : (\A k \in J : j <= k) => Seen(row.changes[j].before, i) = Seen(s, i)
      /\ \A j \in J : (\A k \in J : k <= j) => Seen(row.changes[j].after, i) = Seen(row.result, i)

SaysLink(row, y, s) ==
  LET J == StepsOf(row, y)
  IN  /\ J = {} => Related(row.result, y) = Related(s, y)
      /\ \A j \in J : (\A k \in J : j <= k) => Related(row.changes[j].before, y) = Related(s, y)
      /\ \A j \in J : (\A k \in J : k <= j) => Related(row.changes[j].after, y) = Related(row.result, y)

Says(row, s) == (\A i \in 1..Size : SaysItem(row, i, s)) /\ (\A y \in Pairs : SaysLink(row, y, s))

(* The links and steps of entry e are those of its row, now and after a    *)
(* step.                                                                   *)
LEMMA RowLinks ==
  ASSUME NEW e, NEW n
  PROVE  /\ LinkBefore(e, n) = RowBefore(log[e], n) /\ LinkAfter(e, n) = RowAfter(log[e], n)
         /\ LinkBefore(e, n)' = RowBefore(log'[e], n) /\ LinkAfter(e, n)' = RowAfter(log'[e], n)
BY DEF LinkBefore, LinkAfter, RowBefore, RowAfter, Op, Was, Became, Parent, In!PartOf

LEMMA RowSteps ==
  ASSUME NEW e
  PROVE  /\ \A i : ItemSteps(e, i) = StepsOn(log[e], i) /\ ItemSteps(e, i)' = StepsOn(log'[e], i)
         /\ \A y : LinkSteps(e, y) = StepsOf(log[e], y) /\ LinkSteps(e, y)' = StepsOf(log'[e], y)
<1>1. \A i : ItemSteps(e, i) = StepsOn(log[e], i) /\ ItemSteps(e, i)' = StepsOn(log'[e], i)
  BY DEF ItemSteps, StepsOn, Op
<1>2. \A n : /\ Delta(e, n) = RowBefore(log[e], n) \cup RowAfter(log[e], n)
             /\ Delta(e, n)' = RowBefore(log'[e], n) \cup RowAfter(log'[e], n)
  BY RowLinks DEF Delta
<1>3. \A y : LinkSteps(e, y) = StepsOf(log[e], y) /\ LinkSteps(e, y)' = StepsOf(log'[e], y)
  BY <1>2 DEF LinkSteps, StepsOf, Op
<1> QED BY <1>1, <1>3

LEMMA TellsIs ==
  ASSUME NEW e, NEW s
  PROVE  (Tells(e, s) <=> Says(log[e], s)) /\ (Tells(e, s)' <=> Says(log'[e], s))
<1>1. \A i : (TellsItem(e, i, s) <=> SaysItem(log[e], i, s)) /\ (TellsItem(e, i, s)' <=> SaysItem(log'[e], i, s))
  BY RowSteps DEF TellsItem, SaysItem, Was, Became
<1>2. \A y : (TellsLink(e, y, s) <=> SaysLink(log[e], y, s)) /\ (TellsLink(e, y, s)' <=> SaysLink(log'[e], y, s))
  BY RowSteps DEF TellsLink, SaysLink, Was, Became
<1> QED BY <1>1, <1>2 DEF Tells, Says

-----------------------------------------------------------------------------
(* Two plans that look the same look the same after the same operations. *)
LEMMA FollowAlike ==
  ASSUME NEW ops, Len(ops) \in Nat, NEW v, NEW w, Follow(v, ops), Follow(w, ops), Like(v[0], w[0])
  PROVE  \A n \in 0..Len(ops) : Like(v[n], w[n])
<1> DEFINE m == Len(ops)
           G == {n \in 0..m : Like(v[n], w[n])}
<1>1. 0 \in G
  OBVIOUS
<1>2. ASSUME NEW n \in 0 .. m - 1, n \in G
      PROVE  n + 1 \in G
  <2>1. n + 1 \in 1..m /\ n + 1 \in 0..m /\ (n + 1) - 1 = n
    OBVIOUS
  <2>2. /\ Triples(v[n + 1]) = Ties(Triples(v[n]), ops[n + 1]) /\ Looks(v[n + 1]) = Sights(Looks(v[n]), ops[n + 1])
        /\ Triples(w[n + 1]) = Ties(Triples(w[n]), ops[n + 1]) /\ Looks(w[n + 1]) = Sights(Looks(w[n]), ops[n + 1])
    BY <2>1 DEF Follow
  <2>3. Like(v[n], w[n])
    BY <1>2
  <2>4. Like(v[n + 1], w[n + 1])
    BY <2>2, <2>3 DEF Like
  <2> QED BY <2>1, <2>4
<1> HIDE DEF G
<1>3. \A n \in 0..m : n \in G
  BY <1>1, <1>2, UpTo
<1> QED BY <1>3 DEF G

(* The plans of a run follow its operations, and what is unlinked was      *)
(* there.                                                                  *)
LEMMA RunFollows ==
  ASSUME NEW s, PlanOK(s), NEW ops, OpsOK(ops), NEW t \in Nat, Taken(s, Width * t + 1), Goes(s, ops, t)
  PROVE  /\ Run(s, ops, t)[0] = s /\ Follow(Run(s, ops, t), ops)
         /\ \A n \in 1..Len(ops) : ops[n].kind = "unlink" => Tie(ops[n]) \in Triples(Run(s, ops, t)[n - 1])
<1>1. \A n \in 1..Len(ops) : Does(Run(s, ops, t)[n - 1], ops[n], Width * t + n, Run(s, ops, t)[n])
  BY RunOK
<1>2. Run(s, ops, t)[0] = s
  BY RunSteps
<1> DEFINE f == Run(s, ops, t)
<1> HIDE DEF f
<1>3. Follow(f, ops)
  BY <1>1 DEF Follow, Does, f
<1>4. \A n \in 1..Len(ops) : ops[n].kind = "unlink" => Tie(ops[n]) \in Triples(f[n - 1])
  BY <1>1 DEF Does, Tie, f
<1> QED BY <1>2, <1>3, <1>4 DEF f

(* An entry whose snapshots look like the plans its operations lead        *)
(* through says what became of the first of them.                          *)
Pictures(row, v) ==
  /\ Like(row.result, v[Len(row.ops)])
  /\ \A n \in 1..Len(row.ops) : /\ Like(row.changes[n].before, v[n - 1]) /\ Like(row.changes[n].after, v[n])
                                /\ row.ops[n].kind = "unlink" => Tie(row.ops[n]) \in Triples(v[n - 1])

(* Snapshots taken around the operations of a run, or of a run that looks  *)
(* the same, tell what became of the plan.                                 *)
LEMMA PicturesSay ==
  ASSUME NEW row, OpsOK(row.ops), NEW v, Follow(v, row.ops), Pictures(row, v), NEW s, Like(s, v[0])
  PROVE  Says(row, s)
<1> DEFINE ops == row.ops
           m == Len(ops)
<1>0. OpsOK(ops) /\ Follow(v, ops) /\ m = Len(ops)
  OBVIOUS
<1>1. m \in Nat /\ DOMAIN ops = 1..m /\ \A n \in 1..m : ops[n].kind \in OperationKinds
  BY ListIs DEF OpsOK
<1>2. /\ Like(row.result, v[m])
      /\ \A n \in 1..m : /\ Like(row.changes[n].before, v[n - 1]) /\ Like(row.changes[n].after, v[n])
                         /\ ops[n].kind = "unlink" => Tie(ops[n]) \in Triples(v[n - 1])
  BY DEF Pictures
<1>3. 0 \in 0..m /\ m \in 0..m /\ 0 <= m /\ \A n \in 1..m : n \in 0..m /\ n - 1 \in 0..m /\ 0 <= n - 1 /\ n <= m
  BY <1>1
<1> HIDE DEF m
<1>4. ASSUME NEW i \in 1..Size
      PROVE  SaysItem(row, i, s)
  <2> DEFINE J == StepsOn(row, i)
  <2>1. J \subseteq 1..m /\ \A n \in 1..m : n \in J <=> OnItem(ops[n], i)
    BY <1>1 DEF StepsOn, OnItem
  <2> HIDE DEF J, ops
  <2>2. Seen(s, i) = Seen(v[0], i) /\ Seen(row.result, i) = Seen(v[m], i)
    BY <1>2, LikeShows
  <2>6. ASSUME NEW a \in 0..m, NEW b \in 0..m, a <= b, \A n \in a + 1 .. b : ~OnItem(ops[n], i)
        PROVE  Seen(v[b], i) = Seen(v[a], i)
    BY <1>0, <2>6, SeenThrough
  <2>3. ASSUME J = {}
        PROVE  Seen(row.result, i) = Seen(s, i)
    <3>1. \A n \in 0 + 1 .. m : ~OnItem(ops[n], i)
      BY <1>1, <2>1, <2>3
    <3>2. Seen(v[m], i) = Seen(v[0], i)
      BY <1>3, <3>1, <2>6
    <3> QED BY <2>2, <3>2
  <2>4. ASSUME NEW j \in J, \A k \in J : j <= k
        PROVE  Seen(row.changes[j].before, i) = Seen(s, i)
    <3>1. j \in 1..m
      BY <2>1
    <3>2. \A n \in 0 + 1 .. j - 1 : ~OnItem(ops[n], i)
      BY <1>1, <2>1, <2>4, <3>1
    <3>3. Seen(v[j - 1], i) = Seen(v[0], i)
      BY <1>3, <3>1, <3>2, <2>6
    <3>4. Seen(row.changes[j].before, i) = Seen(v[j - 1], i)
      BY <1>2, <3>1, LikeShows
    <3> QED BY <2>2, <3>3, <3>4
  <2>5. ASSUME NEW j \in J, \A k \in J : k <= j
        PROVE  Seen(row.changes[j].after, i) = Seen(row.result, i)
    <3>1. j \in 1..m
      BY <2>1
    <3>2. \A n \in j + 1 .. m : ~OnItem(ops[n], i)
      BY <1>1, <2>1, <2>5, <3>1
    <3>3. Seen(v[m], i) = Seen(v[j], i)
      BY <1>3, <3>1, <3>2, <2>6
    <3>4. Seen(row.changes[j].after, i) = Seen(v[j], i)
      BY <1>2, <3>1, LikeShows
    <3> QED BY <2>2, <3>3, <3>4
  <2> QED BY <2>3, <2>4, <2>5 DEF SaysItem, J, ops
<1>5. ASSUME NEW y \in Pairs
      PROVE  SaysLink(row, y, s)
  <2> DEFINE J == StepsOf(row, y)
  <2>0. y.type = "relates_to"
    BY DEF Pairs
  <2>1. J \subseteq 1..m /\ \A n \in 1..m : n \in J <=> OnLink(ops[n], y)
    <3>1. J \subseteq 1..m
      BY <1>1 DEF StepsOf
    <3>2. ASSUME NEW n \in 1..m
          PROVE  n \in J <=> OnLink(ops[n], y)
      <4> DEFINE op == ops[n]
                 D == RowBefore(row, n) \cup RowAfter(row, n)
      <4>1. n \in J <=> (op.kind \in Posts \cup {"unlink"} /\ \E x \in D : SameLink(x, y))
        BY <1>1 DEF StepsOf
      <4>2. \A x : SameLink(x, y) <=> SameTie(Triple(x), Triple(y))
        BY DEF SameLink, SameTie, Triple
      <4>3. ASSUME op.kind \in Posts \cup {"unlink"}
            PROVE  D # {} /\ \A x \in D : Triple(x) = Tie(op)
        <5>1. CASE op.kind \in Posts
          <6>1. D = {x \in row.changes[n].after.links : x.type = op.kind /\ x.source = op.item /\ x.target = op.to}
            BY <5>1 DEF RowBefore, RowAfter, Posts
          <6>2. Triples(v[n]) = Ties(Triples(v[n - 1]), op)
            BY DEF Follow, m
          <6>3. Tie(op) \in Triples(v[n])
            BY <5>1, <6>2 DEF Ties, Tie, Posts
          <6>4. Tie(op) \in Triples(row.changes[n].after)
            BY <1>2, <6>3 DEF Like
          <6>5. Tie(op) = <<op.kind, op.item, op.to>>
            BY <5>1 DEF Tie, Posts
          <6> HIDE DEF op, D
          <6> QED BY <6>1, <6>4, <6>5 DEF Triples, Triple
        <5>2. CASE op.kind = "unlink"
          <6>1. D = {x \in row.changes[n].before.links : x.type = op.type /\ x.source = op.item /\ x.target = op.to}
            BY <5>2 DEF RowBefore, RowAfter, Posts
          <6>2. Tie(op) \in Triples(row.changes[n].before)
            BY <1>2, <5>2 DEF Like
          <6>3. Tie(op) = <<op.type, op.item, op.to>>
            BY <5>2 DEF Tie
          <6> HIDE DEF op, D
          <6> QED BY <6>1, <6>2, <6>3 DEF Triples, Triple
        <5> QED BY <4>3, <5>1, <5>2
      <4> HIDE DEF D, op, J
      <4> QED BY <4>1, <4>2, <4>3 DEF OnLink, op
    <3> QED BY <3>1, <3>2
  <2> HIDE DEF J
  <2>2. Related(s, y) = Related(v[0], y) /\ Related(row.result, y) = Related(v[m], y)
    BY <1>2, LikeShows
  <2>3. ASSUME J = {}
        PROVE  Related(row.result, y) = Related(s, y)
    <3>1. Spared(ops, y, 0, m)
      BY <1>1, <2>1, <2>3 DEF Spared
    <3>2. Related(v[m], y) = Related(v[0], y)
      BY <1>3, <2>0, <3>1, RelatedThrough DEF m
    <3> QED BY <2>2, <3>2
  <2>4. ASSUME NEW j \in J, \A k \in J : j <= k
        PROVE  Related(row.changes[j].before, y) = Related(s, y)
    <3>1. j \in 1..m
      BY <2>1
    <3>2. Spared(ops, y, 0, j - 1)
      BY <1>1, <2>1, <2>4, <3>1 DEF Spared
    <3>3. Related(v[j - 1], y) = Related(v[0], y)
      BY <1>3, <2>0, <3>1, <3>2, RelatedThrough DEF m
    <3>4. Related(row.changes[j].before, y) = Related(v[j - 1], y)
      BY <1>2, <3>1, LikeShows
    <3> QED BY <2>2, <3>3, <3>4
  <2>5. ASSUME NEW j \in J, \A k \in J : k <= j
        PROVE  Related(row.changes[j].after, y) = Related(row.result, y)
    <3>1. j \in 1..m
      BY <2>1
    <3>2. Spared(ops, y, j, m)
      BY <1>1, <2>1, <2>5, <3>1 DEF Spared
    <3>3. Related(v[m], y) = Related(v[j], y)
      BY <1>3, <2>0, <3>1, <3>2, RelatedThrough DEF m
    <3>4. Related(row.changes[j].after, y) = Related(v[j], y)
      BY <1>2, <3>1, LikeShows
    <3> QED BY <2>2, <3>3, <3>4
  <2> QED BY <2>3, <2>4, <2>5 DEF SaysLink, J
<1> QED BY <1>4, <1>5 DEF Says

-----------------------------------------------------------------------------
(* What a compound write tells, read off the plan before and after. *)

(* A set sorted by keys that differ is a list of all its members. *)
LEMMA SortedLists ==
  ASSUME NEW S, IsFiniteSet(S), NEW key, \A x \in S : key[x] \in Int, \A x, y \in S : key[x] = key[y] => x = y
  PROVE  /\ Cardinality(S) \in Nat /\ DOMAIN Sorted(S, key) = 1..Cardinality(S)
         /\ Sorted(S, key) = [n \in 1..Cardinality(S) |-> Sorted(S, key)[n]]
         /\ \A n \in 1..Cardinality(S) : Sorted(S, key)[n] \in S
         /\ \A x \in S : \E n \in 1..Cardinality(S) : Sorted(S, key)[n] = x
<1> DEFINE N == Cardinality(S)
           Ahead(z) == {w \in S : key[w] < key[z]}
           rank(z) == Cardinality(Ahead(z))
           T == 0..(N - 1)
           f == [x \in S |-> rank(x)]
<1>1. N \in Nat
  BY FS_CardinalityType
<1>2. \A z : IsFiniteSet(Ahead(z)) /\ rank(z) \in Nat
  <2> TAKE z
  <2>1. Ahead(z) \in SUBSET S
    OBVIOUS
  <2>2. IsFiniteSet(Ahead(z))
    <3> HIDE DEF Ahead
    <3> QED BY <2>1, FS_Subset
  <2> QED BY <2>2, FS_CardinalityType
<1>3. ASSUME NEW v \in S, NEW w \in S, key[v] < key[w] PROVE rank(v) < rank(w)
  <2>1. Ahead(v) \in SUBSET Ahead(w) /\ v \in Ahead(w) /\ v \notin Ahead(v)
    BY <1>3
  <2> HIDE DEF Ahead
  <2>2. Cardinality(Ahead(v)) <= Cardinality(Ahead(w)) /\ Cardinality(Ahead(v)) # Cardinality(Ahead(w))
    BY <1>2, <2>1, FS_Subset
  <2> QED BY <1>2, <2>2
<1>4. ASSUME NEW x \in S PROVE rank(x) \in T
  <2>1. Ahead(x) \in SUBSET S /\ x \notin Ahead(x)
    OBVIOUS
  <2> HIDE DEF Ahead
  <2>2. Cardinality(Ahead(x)) <= N /\ Cardinality(Ahead(x)) # N
    BY <2>1, FS_Subset
  <2> QED BY <1>1, <1>2, <2>2
<1>5. ASSUME NEW v \in S, NEW w \in S, rank(v) = rank(w) PROVE v = w
  <2>1. key[v] < key[w] \/ key[w] < key[v] \/ key[v] = key[w]
    OBVIOUS
  <2>2. rank(v) \in Nat /\ rank(w) \in Nat
    BY <1>2
  <2>3. key[v] < key[w] => rank(v) < rank(w)
    BY <1>3
  <2>4. key[w] < key[v] => rank(w) < rank(v)
    BY <1>3
  <2> HIDE DEF rank
  <2> QED BY <1>5, <2>1, <2>2, <2>3, <2>4
<1>6. f \in Injection(S, T)
  <2> HIDE DEF rank, T
  <2> QED BY <1>4, <1>5 DEF Injection, IsInjective
<1>7. f \in Surjection(S, T)
  <2>1. IsFiniteSet(T) /\ Cardinality(T) = N
    <3>1. N \in Nat /\ 0 \in Int /\ N - 1 \in Int
      BY <1>1
    <3> HIDE DEF N
    <3>2. IsFiniteSet(0..(N - 1)) /\ Cardinality(0..(N - 1)) = IF 0 > N - 1 THEN 0 ELSE (N - 1) - 0 + 1
      BY <3>1, FS_Interval
    <3> QED BY <3>1, <3>2
  <2>2. Cardinality(S) = N
    OBVIOUS
  <2> HIDE DEF f, T, N
  <2> QED BY <1>6, <2>1, <2>2, FS_Injection
<1>8. \A n \in 1..N : \E x \in S : rank(x) = n - 1
  <2> TAKE n \in 1..N
  <2>1. n - 1 \in T
    BY <1>1
  <2> HIDE DEF rank, T
  <2>2. \E x \in S : f[x] = n - 1
    BY <1>7, <2>1 DEF Surjection
  <2> QED BY <2>2
<1>9. Sorted(S, key) = [n \in 1..N |-> CHOOSE x \in S : rank(x) = n - 1]
  BY DEF Sorted
<1> HIDE DEF rank, N
<1>10. \A n \in 1..N : (CHOOSE x \in S : rank(x) = n - 1) \in S /\ rank(CHOOSE x \in S : rank(x) = n - 1) = n - 1
  BY <1>8
<1> DEFINE g == Sorted(S, key)
<1>11. \A n \in 1..N : g[n] \in S /\ rank(g[n]) = n - 1
  BY <1>9, <1>10
<1>12. DOMAIN g = 1..N /\ g = [n \in 1..N |-> g[n]]
  BY <1>9
<1> HIDE DEF g
<1>13. ASSUME NEW x \in S
       PROVE  \E n \in 1..N : g[n] = x
  <2>1. rank(x) + 1 \in 1..N /\ (rank(x) + 1) - 1 = rank(x)
    BY <1>1, <1>4
  <2>2. g[rank(x) + 1] = x
    BY <1>5, <1>11, <2>1
  <2> QED BY <2>1, <2>2
<1> QED BY <1>1, <1>11, <1>12, <1>13 DEF g, N

(* A run that only makes items and relates them takes nothing away. *)
LEMMA RunAdds ==
  ASSUME NEW s, PlanOK(s), NEW ops, OpsOK(ops), NEW t \in Nat, Taken(s, Width * t + 1), Goes(s, ops, t),
         \A n \in DOMAIN ops : ops[n].kind \in Posts \cup {"create"}
  PROVE  LET r == Result(s, ops, t)
         IN  /\ PlanOK(r) /\ Triples(s) \subseteq Triples(r) /\ Items(s) \subseteq Items(r)
             /\ \A i \in Items(s) : Looks(r)[i] = Looks(s)[i]
<1> DEFINE f == Run(s, ops, t)
           m == Len(ops)
           Grown(r) == /\ Triples(s) \subseteq Triples(r) /\ DOMAIN Looks(s) \subseteq DOMAIN Looks(r)
                       /\ \A i \in DOMAIN Looks(s) : Looks(r)[i] = Looks(s)[i]
           G == {n \in 0..m : Grown(f[n])}
<1>1. m \in Nat /\ DOMAIN ops = 1..m
  BY ListIs DEF OpsOK
<1>2. /\ \A n \in 0..m : PlanOK(f[n])
      /\ \A n \in 1..m : Does(f[n - 1], ops[n], Width * t + n, f[n])
  BY RunOK
<1>3. f[0] = s
  BY RunSteps
<1> HIDE DEF f, m
<1>4. 0 \in G
  BY <1>1, <1>3
<1>5. ASSUME NEW n \in 0 .. m - 1, n \in G
      PROVE  n + 1 \in G
  <2>1. n + 1 \in 1..m /\ (n + 1) - 1 = n /\ n + 1 \in 0..m
    BY <1>1
  <2> DEFINE op == ops[n + 1]
  <2>2. op.kind \in Posts \cup {"create"}
    BY <1>1, <2>1
  <2>3. /\ Triples(f[n + 1]) = Ties(Triples(f[n]), op) /\ Looks(f[n + 1]) = Sights(Looks(f[n]), op)
        /\ op.kind = "create" => op.item = Len(f[n].items) + 1
    BY <1>2, <2>1 DEF Does
  <2>4. PlanOK(f[n]) /\ Grown(f[n])
    BY <1>2, <1>5
  <2>5. Triples(f[n]) \subseteq Triples(f[n + 1])
    BY <2>2, <2>3 DEF Ties, Posts
  <2>6. /\ DOMAIN Looks(f[n]) \subseteq DOMAIN Looks(f[n + 1])
        /\ \A i \in DOMAIN Looks(f[n]) : Looks(f[n + 1])[i] = Looks(f[n])[i]
    <3>1. CASE op.kind = "create"
      <4>1. op.item \notin DOMAIN Looks(f[n])
        <5>1. Len(f[n].items) \in Nat /\ DOMAIN f[n].items = 1..Len(f[n].items)
          BY <2>4, ListIs DEF PlanOK, RowsOK
        <5> QED BY <2>3, <3>1, <5>1 DEF Looks, Items
      <4> DEFINE L == Looks(f[n])
      <4> HIDE DEF L, op
      <4>2. Looks(f[n + 1]) = Sights(L, op) /\ op.item \notin DOMAIN L
        BY <2>3, <4>1 DEF L
      <4>3. /\ DOMAIN L \subseteq DOMAIN Looks(f[n + 1])
            /\ \A i \in DOMAIN L : Looks(f[n + 1])[i] = L[i]
        BY <3>1, <4>2 DEF Sights
      <4> QED BY <4>3 DEF L
    <3>2. CASE op.kind \in Posts
      <4>1. Sights(Looks(f[n]), op) = Looks(f[n])
        BY <3>2 DEF Sights, Sight, Posts, Looks
      <4> QED BY <2>3, <4>1
    <3> QED BY <2>2, <3>1, <3>2
  <2> QED BY <2>1, <2>4, <2>5, <2>6
<1> HIDE DEF G
<1>6. \A n \in 0..m : n \in G
  BY <1>1, <1>4, <1>5, UpTo
<1>7. PlanOK(f[m]) /\ Grown(f[m])
  <2>1. m \in 0..m
    BY <1>1
  <2> QED BY <1>2, <1>6, <2>1 DEF G
<1>8. \A r : DOMAIN Looks(r) = Items(r)
  BY DEF Looks
<1>9. Result(s, ops, t) = f[m]
  BY DEF Result, f, m
<1> QED BY <1>7, <1>8, <1>9

-----------------------------------------------------------------------------
(* What is read off the plan before and after a compound write. *)
InOrder(s, r) == Sorted(Made(s, r), [i \in Made(s, r) |-> Width * Depth(s, r, i) + i])
TiedInOrder(s, r) == Sorted(Tied(s, r), [x \in Tied(s, r) |-> x.id])

(* All items that were made are in order, and all links that were. *)
LEMMA MadeLists ==
  ASSUME NEW s, NEW r, PlanOK(r)
  PROVE  LET made == InOrder(s, r)
         IN  /\ Cardinality(Made(s, r)) \in Nat /\ DOMAIN made = 1..Cardinality(Made(s, r))
             /\ \A i \in Made(s, r) : \E n \in DOMAIN made : made[n] = i
<1> DEFINE S == Made(s, r)
           key == [i \in S |-> Width * Depth(s, r, i) + i]
<1>1. Len(r.items) \in Nat /\ Items(r) = 1..Len(r.items) /\ Len(r.items) <= Size
  BY ListIs DEF PlanOK, RowsOK, Items
<1>2. S \in SUBSET (1..Len(r.items)) /\ \A i \in S : i \in Int /\ 1 <= i /\ i < Width
  BY <1>1, BoundAssumption, SizeAssumption DEF Made, Width
<1>3. IsFiniteSet(S)
  <2> DEFINE I == 1..Len(r.items)
  <2>1. IsFiniteSet(I)
    BY <1>1, FS_Interval
  <2>2. S \in SUBSET I
    BY <1>2
  <2> HIDE DEF I, S
  <2> QED BY <2>1, <2>2, FS_Subset
<1>4. \A i : Depth(s, r, i) \in Nat
  <2> TAKE i
  <2> DEFINE within == {x \in r.links : x.type = "part_of" /\ {x.source, x.target} \subseteq S}
             D == {j \in S \ {i} : In(r)!Reaches(within, i, j)}
  <2>1. D \in SUBSET S
    OBVIOUS
  <2>2. Depth(s, r, i) = Cardinality(D)
    BY DEF Depth
  <2> HIDE DEF D
  <2> QED BY <1>3, <2>1, <2>2, FS_Subset, FS_CardinalityType
<1> HIDE DEF S
<1>5. \A i \in S : key[i] \in Int
  BY <1>2, <1>4 DEF Width
<1>6. ASSUME NEW i \in S, NEW j \in S, key[i] = key[j]
      PROVE  i = j
  <2>1. Width * Depth(s, r, i) + i = Width * Depth(s, r, j) + j
    BY <1>6
  <2> QED BY <1>2, <1>4, <2>1 DEF Width
<1> HIDE DEF key
<1>7. /\ Cardinality(S) \in Nat /\ DOMAIN Sorted(S, key) = 1..Cardinality(S)
      /\ \A i \in S : \E n \in 1..Cardinality(S) : Sorted(S, key)[n] = i
  BY <1>3, <1>5, <1>6, SortedLists
<1> QED BY <1>7 DEF S, key, InOrder

LEMMA TiedLists ==
  ASSUME NEW s, NEW r, PlanOK(r)
  PROVE  LET tied == TiedInOrder(s, r)
         IN  /\ Cardinality(Tied(s, r)) \in Nat /\ DOMAIN tied = 1..Cardinality(Tied(s, r))
             /\ \A n \in DOMAIN tied : tied[n] \in Tied(s, r)
             /\ \A x \in Tied(s, r) : \E n \in DOMAIN tied : tied[n] = x
<1> DEFINE S == Tied(s, r)
           key == [x \in S |-> x.id]
<1>1. S \in SUBSET r.links
  BY DEF Tied
<1>2. IsFiniteSet(S)
  BY <1>1, FS_Subset DEF PlanOK, LinksOK
<1> HIDE DEF S
<1>3. \A x \in S : key[x] \in Int
  BY <1>1 DEF PlanOK, LinksOK
<1>4. \A x, y \in S : key[x] = key[y] => x = y
  BY <1>1 DEF PlanOK, LinksOK
<1> HIDE DEF key
<1>5. /\ Cardinality(S) \in Nat /\ DOMAIN Sorted(S, key) = 1..Cardinality(S)
      /\ \A n \in 1..Cardinality(S) : Sorted(S, key)[n] \in S
      /\ \A i \in S : \E n \in 1..Cardinality(S) : Sorted(S, key)[n] = i
  BY <1>2, <1>3, <1>4, SortedLists
<1> QED BY <1>5 DEF S, key, TiedInOrder

(* Two lists, one after the other. *)
LEMMA JoinedList ==
  ASSUME NEW a \in Nat, NEW b \in Nat, NEW f, NEW g, f = [n \in 1..a |-> f[n]], g = [n \in 1..b |-> g[n]]
  PROVE  /\ IsList(f \o g) /\ Len(f \o g) = a + b /\ DOMAIN (f \o g) = 1 .. a + b
         /\ \A n \in 1..a : (f \o g)[n] = f[n]
         /\ \A n \in 1..b : (f \o g)[a + n] = g[n]
<1> DEFINE R == {f[n] : n \in 1..a} \cup {g[n] : n \in 1..b}
<1>1. (\A n \in 1..a : f[n] \in R) /\ (\A n \in 1..b : g[n] \in R)
  OBVIOUS
<1> HIDE DEF R
<1>2. f \in [1..a -> R] /\ g \in [1..b -> R]
  BY <1>1
<1>3. f \in Seq(R) /\ g \in Seq(R) /\ Len(f) = a /\ Len(g) = b
  BY <1>2
<1> DEFINE h == f \o g
<1>4. /\ h \in Seq(R) /\ Len(h) = a + b /\ DOMAIN h = 1 .. a + b
      /\ \A n \in 1..a : h[n] = f[n]
      /\ \A n \in 1..b : h[a + n] = g[n]
  <2>1. h \in Seq(R) /\ Len(h) = a + b /\ DOMAIN h = 1 .. a + b
    BY <1>3
  <2>2. \A n \in 1..a : h[n] = f[n]
    BY <1>3
  <2>3. \A n \in 1..b : h[a + n] = g[n]
    <3> TAKE n \in 1..b
    <3>1. a + n \in 1 .. Len(f) + Len(g) /\ ~(a + n <= Len(f)) /\ (a + n) - Len(f) = n
      BY <1>3
    <3> QED BY <1>3, <3>1
  <2> QED BY <2>1, <2>2, <2>3
<1>5. h = [n \in 1 .. a + b |-> h[n]]
  <2> HIDE DEF h
  <2> QED BY <1>4
<1>6. IsList(h)
  <2> HIDE DEF h
  <2>1. a + b \in Nat
    OBVIOUS
  <2> QED BY <1>5, <2>1, IsAList
<1> QED BY <1>4, <1>6

(* Every item and every relation that a compound write made is in what is  *)
(* read off, and it is nothing but creations and relations.                *)
LEMMA DerivedLists ==
  ASSUME NEW s, NEW r, PlanOK(r)
  PROVE  LET D == Derived(s, r)
         IN  /\ OpsOK(D)
             /\ \A i \in Made(s, r) : \E n \in DOMAIN D : D[n].kind = "create" /\ D[n].item = i
             /\ \A x \in Tied(s, r) : \E n \in DOMAIN D :
                  D[n].kind = x.type /\ D[n].item = x.source /\ D[n].to = x.target
             /\ \A n \in DOMAIN D : D[n].kind \in Posts \cup {"create"}
             /\ \A n \in DOMAIN D : D[n].kind \in Posts =>
                  \E x \in Tied(s, r) : D[n].kind = x.type /\ D[n].item = x.source /\ D[n].to = x.target
<1> DEFINE parent(i) == IF Parent(r, i) = {} THEN NULL ELSE CHOOSE p \in ParentIds(r, i) : TRUE
           made == InOrder(s, r)
           tied == TiedInOrder(s, r)
           a == Cardinality(Made(s, r))
           b == Cardinality(Tied(s, r))
           f == [n \in DOMAIN made |-> Operation("create", made[n], parent(made[n]))]
           g == [n \in DOMAIN tied |-> Operation(tied[n].type, tied[n].source, tied[n].target)]
<1>1. a \in Nat /\ DOMAIN made = 1..a /\ \A i \in Made(s, r) : \E n \in DOMAIN made : made[n] = i
  BY MadeLists
<1>2. /\ b \in Nat /\ DOMAIN tied = 1..b
      /\ \A n \in DOMAIN tied : tied[n] \in Tied(s, r)
      /\ \A x \in Tied(s, r) : \E n \in DOMAIN tied : tied[n] = x
  BY TiedLists
<1>3. Derived(s, r) = f \o g
  BY DEF Derived, InOrder, TiedInOrder
<1> HIDE DEF made, tied, parent, a, b
<1>4. \A n \in 1..a : f[n].kind = "create" /\ f[n].item = made[n]
  BY <1>1 DEF Operation
<1>5. \A n \in 1..b : f = f /\ g[n].kind = tied[n].type /\ g[n].item = tied[n].source /\ g[n].to = tied[n].target
  BY <1>2 DEF Operation
<1>6. f = [n \in 1..a |-> f[n]] /\ g = [n \in 1..b |-> g[n]]
  BY <1>1, <1>2
<1> HIDE DEF f, g
<1> DEFINE D == f \o g
<1>7a. IsList(f \o g) /\ DOMAIN (f \o g) = 1 .. a + b
  BY <1>1, <1>2, <1>6, JoinedList
<1>7b. \A n \in 1..a : (f \o g)[n] = f[n]
  BY <1>1, <1>2, <1>6, JoinedList
<1>7c. \A n \in 1..b : (f \o g)[a + n] = g[n]
  BY <1>1, <1>2, <1>6, JoinedList
<1>7. /\ IsList(D) /\ DOMAIN D = 1 .. a + b
      /\ \A n \in 1..a : D[n] = f[n]
      /\ \A n \in 1..b : D[a + n] = g[n]
  BY <1>7a, <1>7b, <1>7c
<1> HIDE DEF D
<1>8. \A n \in 1 .. a + b : n \in 1..a \/ \E k \in 1..b : n = a + k
  <2> SUFFICES ASSUME NEW n \in 1 .. a + b, n \notin 1..a PROVE \E k \in 1..b : n = a + k
    OBVIOUS
  <2>1. n - a \in 1..b /\ n = a + (n - a)
    BY <1>1, <1>2
  <2> QED BY <2>1
<1>9. \A n \in DOMAIN D : D[n].kind \in Posts \cup {"create"}
  <2>1. \A n \in 1..b : tied[n].type \in Posts
    BY <1>2 DEF Tied, PlanOK, LinksOK
  <2> QED BY <1>4, <1>5, <1>7, <1>8, <2>1
<1>10. OpsOK(D)
  BY <1>7, <1>9 DEF OpsOK, OperationKinds
<1>11. ASSUME NEW i \in Made(s, r)
       PROVE  \E n \in DOMAIN D : D[n].kind = "create" /\ D[n].item = i
  <2>1. PICK n \in 1..a : made[n] = i
    BY <1>1
  <2>2. n \in DOMAIN D /\ D[n].kind = "create" /\ D[n].item = i
    BY <1>1, <1>2, <1>4, <1>7, <2>1
  <2> QED BY <2>2
<1>12. ASSUME NEW x \in Tied(s, r)
       PROVE  \E n \in DOMAIN D : D[n].kind = x.type /\ D[n].item = x.source /\ D[n].to = x.target
  <2>1. PICK n \in 1..b : tied[n] = x
    BY <1>2
  <2>2. a + n \in DOMAIN D /\ D[a + n] = g[n]
    BY <1>1, <1>2, <1>7
  <2> QED BY <1>5, <2>1, <2>2
<1>13. ASSUME NEW n \in DOMAIN D, D[n].kind \in Posts
       PROVE  \E x \in Tied(s, r) : D[n].kind = x.type /\ D[n].item = x.source /\ D[n].to = x.target
  <2>1. n \notin 1..a
    BY <1>4, <1>7, <1>13 DEF Posts
  <2>2. PICK k \in 1..b : n = a + k
    BY <1>7, <1>8, <1>13, <2>1
  <2>3. D[n] = g[k]
    BY <1>7, <2>2
  <2>4. tied[k] \in Tied(s, r)
    BY <1>2
  <2>5. D[n].kind = tied[k].type /\ D[n].item = tied[k].source /\ D[n].to = tied[k].target
    BY <1>5, <2>3
  <2> QED BY <2>4, <2>5
<1>14. Derived(s, r) = D
  BY <1>3 DEF D
<1> QED BY <1>9, <1>10, <1>11, <1>12, <1>13, <1>14

(* Plans with the same items and links look the same. *)
LEMMA SameLike ==
  ASSUME NEW a, NEW b, a.items = b.items, a.links = b.links
  PROVE  Like(a, b)
BY DEF Like, Triples, Looks, Items

(* What is read off the plan before and after a compound write tells what  *)
(* became of it.                                                           *)
LEMMA TemplateSays ==
  ASSUME NEW s, NEW r, PlanOK(r), Triples(s) \subseteq Triples(r), Items(s) \subseteq Items(r),
         \A i \in Items(s) : Looks(r)[i] = Looks(s)[i],
         NEW row, row.ops = Derived(s, r),
         \A n \in DOMAIN row.ops : row.changes[n] = Change(s, r), Like(row.result, r)
  PROVE  Says(row, s)
<1> DEFINE D == Derived(s, r)
<1>1. /\ \A i \in Made(s, r) : \E n \in DOMAIN D : D[n].kind = "create" /\ D[n].item = i
      /\ \A x \in Tied(s, r) : \E n \in DOMAIN D :
           D[n].kind = x.type /\ D[n].item = x.source /\ D[n].to = x.target
  BY DerivedLists
<1>2. row.ops = D /\ \A n \in DOMAIN D : row.changes[n].before = s /\ row.changes[n].after = r
  BY DEF Change
<1> HIDE DEF D
<1>3. ASSUME NEW i \in 1..Size
      PROVE  SaysItem(row, i, s)
  <2> DEFINE J == StepsOn(row, i)
  <2>1. J \subseteq DOMAIN D
    BY <1>2 DEF StepsOn
  <2>2. Seen(row.result, i) = Seen(r, i)
    BY LikeShows
  <2>3. ASSUME J = {}
        PROVE  Seen(r, i) = Seen(s, i)
    <3>1. i \notin Made(s, r)
      BY <1>1, <1>2, <2>3 DEF StepsOn, Posts
    <3>2. DOMAIN Looks(s) = Items(s) /\ DOMAIN Looks(r) = Items(r)
      BY DEF Looks
    <3>3. i \in Items(s) \/ (i \notin Items(s) /\ i \notin Items(r))
      BY <3>1 DEF Made
    <3>4. /\ Seen(r, i) = IF i \in DOMAIN Looks(r) THEN Looks(r)[i] ELSE NULL
          /\ Seen(s, i) = IF i \in DOMAIN Looks(s) THEN Looks(s)[i] ELSE NULL
      BY SeenIs
    <3> QED BY <3>2, <3>3, <3>4
  <2> HIDE DEF J
  <2> QED BY <1>2, <2>1, <2>2, <2>3 DEF SaysItem, J
<1>4. ASSUME NEW y \in Pairs
      PROVE  SaysLink(row, y, s)
  <2> DEFINE J == StepsOf(row, y)
  <2>1. J \subseteq DOMAIN D
    BY <1>2 DEF StepsOf
  <2>2. Related(row.result, y) = Related(r, y)
    BY LikeShows
  <2>3. ASSUME J = {}
        PROVE  Related(r, y) = Related(s, y)
    <3>1. Related(s, y) => Related(r, y)
      BY RelatedIs
    <3>2. ASSUME Related(r, y), ~Related(s, y)
          PROVE  FALSE
      <4>1. PICK x \in r.links : SameLink(x, y)
        BY <3>2 DEF Related
      <4>2. x \notin s.links
        BY <3>2, <4>1 DEF Related
      <4>3. x.type = "relates_to"
        BY <4>1 DEF SameLink, Pairs
      <4>4. x \in Tied(s, r)
        BY <4>2, <4>3 DEF Tied
      <4>5. PICK n \in DOMAIN D : D[n].kind = x.type /\ D[n].item = x.source /\ D[n].to = x.target
        BY <1>1, <4>4
      <4>6. x \in RowAfter(row, n)
        <5>1. RowAfter(row, n) = {z \in row.changes[n].after.links :
                                    z.type = D[n].kind /\ z.source = D[n].item /\ z.target = D[n].to}
          BY <1>2, <4>3, <4>5 DEF RowAfter, Posts
        <5> QED BY <1>2, <4>5, <5>1
      <4>7. n \in J
        BY <1>2, <4>1, <4>3, <4>5, <4>6 DEF StepsOf, Posts
      <4> QED BY <2>3, <4>7
    <3> QED BY <3>1, <3>2 DEF Related
  <2> HIDE DEF J
  <2> QED BY <1>2, <2>1, <2>2, <2>3 DEF SaysLink, J
<1> QED BY <1>3, <1>4 DEF Says

-----------------------------------------------------------------------------
(* The inverse of the operations chosen.                                   *)
LEMMA OneIs ==
  ASSUME NEW S
  PROVE  /\ S = {} => One(S) = <<>>
         /\ S # {} => \E x \in S : One(S) = <<x>>
BY DEF One

(* A list of one, and the empty list. *)
LEMMA TupleIs ==
  ASSUME NEW a
  PROVE  /\ IsList(<<a>>) /\ Len(<<a>>) = 1 /\ DOMAIN <<a>> = 1..1 /\ <<a>>[1] = a
         /\ <<a>> = [n \in 1..1 |-> <<a>>[n]]
<1>1. Len(<<a>>) = 1 /\ DOMAIN <<a>> = 1..1 /\ <<a>>[1] = a
  OBVIOUS
<1>2. <<a>> = [n \in 1..1 |-> <<a>>[n]]
  OBVIOUS
<1> DEFINE f == <<a>>
<1>3. f = [n \in 1..1 |-> f[n]]
  BY <1>2
<1> HIDE DEF f
<1>4. IsList(f)
  BY <1>3, IsAList
<1> QED BY <1>1, <1>2, <1>4 DEF f

LEMMA EmptyIs ==
  IsList(<<>>) /\ Len(<<>>) = 0 /\ DOMAIN <<>> = {}
<1>1. Len(<<>>) = 0 /\ DOMAIN <<>> = {}
  OBVIOUS
<1>2. <<>> = [n \in 1..0 |-> <<>>[n]]
  OBVIOUS
<1> DEFINE f == <<>>
<1>3. f = [n \in 1..0 |-> f[n]]
  BY <1>2
<1> HIDE DEF f
<1>4. IsList(f)
  BY <1>3, IsAList
<1> QED BY <1>1, <1>4 DEF f

(* A list of at most one operation that makes no item. *)
Small(ops) ==
  /\ IsList(ops) /\ \A j \in DOMAIN ops : ops[j].kind \in OperationKinds \ {"create"}

(* The inverse of one operation is a list of operations that make nothing. *)
LEMMA OneSmall ==
  ASSUME NEW S, \A op \in S : op.kind \in OperationKinds \ {"create"}
  PROVE  Small(One(S))
<1>1. CASE S = {}
  BY <1>1, OneIs, EmptyIs DEF Small
<1>2. CASE S # {}
  <2>1. PICK x \in S : One(S) = <<x>>
    BY <1>2, OneIs
  <2>2. Small(<<x>>)
    BY TupleIs DEF Small
  <2> QED BY <2>1, <2>2
<1> QED BY <1>1, <1>2

LEMMA SingleSmall ==
  ASSUME NEW op, op.kind \in OperationKinds \ {"create"}
  PROVE  Small(<<op>>)
BY TupleIs DEF Small

LEMMA TakenBackSmall ==
  ASSUME NEW e, NEW n, Op(e, n).kind \in OperationKinds, PlanOK(Was(e, n))
  PROVE  Small(TakenBack(e, n))
<1> DEFINE op == Op(e, n)
           i == op.item
           was == Was(e, n)
           back(x) == MoveTo(i, x.target, PlaceIn(Siblings(was, x.target), i))
<1>0. /\ \A x : Delete(x).kind = "unlink"
      /\ \A x : back(x).kind = "move" /\ back(x).item = i
      /\ \A kind, j, to : Operation(kind, j, to).kind = kind
      /\ MoveTo(i, NULL, NULL).kind = "move"
  BY DEF Delete, Unlink, MoveTo, Operation
<1>00. {"edit", "reopen", "archive", "restore", "unlink", "move", "relates_to"} \subseteq OperationKinds \ {"create"}
  BY DEF OperationKinds, Patches, Posts
<1> HIDE DEF back
<1>1. CASE op.kind = "edit"
  <2>1. TakenBack(e, n) = <<Operation("edit", i, was.items[i].title)>>
    BY <1>1 DEF TakenBack, Posts
  <2> QED BY <1>0, <1>00, <2>1, SingleSmall
<1>2. CASE op.kind = "reopen"
  <2>1. TakenBack(e, n) = <<Operation("reopen", i, NULL)>>
    BY <1>2 DEF TakenBack, Posts
  <2> QED BY <1>0, <1>00, <2>1, SingleSmall
<1>3. CASE op.kind \in {"archive", "restore"}
  <2>1. TakenBack(e, n) = <<Operation(IF was.items[i].archived THEN "archive" ELSE "restore", i, NULL)>>
    BY <1>3 DEF TakenBack, Posts
  <2>2. (IF was.items[i].archived THEN "archive" ELSE "restore") \in OperationKinds \ {"create"}
    BY <1>00
  <2> QED BY <1>0, <2>1, <2>2, SingleSmall
<1>4. CASE op.kind = "create"
  <2> DEFINE A == One({Delete(x) : x \in Parent(plan, i)})
             B == <<Operation("archive", i, NULL)>>
  <2>1. TakenBack(e, n) = A \o B
    BY <1>4 DEF TakenBack, Posts
  <2>2. Small(A)
    BY <1>0, <1>00, OneSmall
  <2>3. Small(B)
    BY <1>0, <1>00, SingleSmall
  <2> HIDE DEF A, B
  <2>4. /\ Len(A) \in Nat /\ Len(B) \in Nat /\ A = [k \in 1..Len(A) |-> A[k]] /\ B = [k \in 1..Len(B) |-> B[k]]
        /\ DOMAIN A = 1..Len(A) /\ DOMAIN B = 1..Len(B)
    BY <2>2, <2>3, ListIs DEF Small
  <2>5. /\ IsList(A \o B) /\ DOMAIN (A \o B) = 1 .. Len(A) + Len(B)
        /\ \A k \in 1..Len(A) : (A \o B)[k] = A[k]
        /\ \A k \in 1..Len(B) : (A \o B)[Len(A) + k] = B[k]
    BY <2>4, JoinedList
  <2>6. ASSUME NEW k \in 1 .. Len(A) + Len(B)
        PROVE  (A \o B)[k].kind \in OperationKinds \ {"create"}
    <3>1. CASE k \in 1..Len(A)
      BY <2>2, <2>4, <2>5, <3>1 DEF Small
    <3>2. CASE k \notin 1..Len(A)
      <4>1. k - Len(A) \in 1..Len(B) /\ k = Len(A) + (k - Len(A))
        BY <2>4, <3>2
      <4>2. (A \o B)[k] = B[k - Len(A)]
        BY <2>5, <4>1
      <4> QED BY <2>3, <2>4, <4>1, <4>2 DEF Small
    <3> QED BY <3>1, <3>2
  <2> QED BY <2>1, <2>5, <2>6 DEF Small
<1>5. CASE op.kind = "move"
  <2>1. TakenBack(e, n) = IF LinkBefore(e, n) = {} THEN <<MoveTo(i, NULL, NULL)>>
                          ELSE One({back(x) : x \in LinkBefore(e, n)})
    BY <1>5 DEF TakenBack, Posts, back
  <2>2. Small(<<MoveTo(i, NULL, NULL)>>)
    BY <1>0, <1>00, SingleSmall
  <2>3. Small(One({back(x) : x \in LinkBefore(e, n)}))
    BY <1>0, <1>00, OneSmall
  <2> QED BY <2>1, <2>2, <2>3
<1>6. CASE op.kind \in Posts
  <2>1. TakenBack(e, n) = One({Delete(x) : x \in Candidates(plan, e, n)})
    BY <1>6 DEF TakenBack, Posts
  <2>2. Small(One({Delete(x) : x \in Candidates(plan, e, n)}))
    BY <1>0, <1>00, OneSmall
  <2> QED BY <2>1, <2>2
<1>7. CASE op.kind = "unlink"
  <2> DEFINE put(x) == IF x.type = "part_of" THEN back(x) ELSE Operation(x.type, x.source, x.target)
  <2>1. TakenBack(e, n) = One({put(x) : x \in LinkBefore(e, n)})
    BY <1>7 DEF TakenBack, Posts, back
  <2>2. \A x \in LinkBefore(e, n) : x.type \in Posts
    BY <1>7 DEF LinkBefore, PlanOK, LinksOK
  <2>3. \A x \in LinkBefore(e, n) : put(x).kind \in OperationKinds \ {"create"}
    BY <1>0, <1>00, <2>2 DEF Posts
  <2> HIDE DEF put
  <2>4. Small(One({put(x) : x \in LinkBefore(e, n)}))
    BY <2>3, OneSmall
  <2> QED BY <2>1, <2>4
<1> QED BY <1>1, <1>2, <1>3, <1>4, <1>5, <1>6, <1>7 DEF OperationKinds, Patches

-----------------------------------------------------------------------------
(* The inverse of the operations chosen, the last taken back first. *)

(* What takes back operation n of entry e, each part with n. *)
Part(e, n) == [m \in DOMAIN TakenBack(e, n) |-> [op |-> TakenBack(e, n)[m], from |-> n]]

(* That L takes back those of the first m operations that are chosen, and  *)
(* nothing else, the last first.                                           *)
TakesBack(L, e, chosen, m) ==
  /\ IsList(L)
  /\ \A k \in DOMAIN L : \E n \in chosen \cap 1..m : \E j \in DOMAIN TakenBack(e, n) :
        L[k].from = n /\ L[k].op = TakenBack(e, n)[j]
  /\ \A n \in chosen \cap 1..m : \A j \in DOMAIN TakenBack(e, n) :
        \E k \in DOMAIN L : L[k].from = n /\ L[k].op = TakenBack(e, n)[j]
  /\ \A j, k \in DOMAIN L : j < k => L[k].from <= L[j].from

(* TakingBack goes through the operations of the entry, from the first. *)
LEMMA OneMoreTaken ==
  ASSUME NEW e, NEW chosen, NEW m \in Nat, m + 1 \in chosen, IsList(TakenBack(e, m + 1)),
         NEW L, TakesBack(L, e, chosen, m)
  PROVE  TakesBack(Part(e, m + 1) \o L, e, chosen, m + 1)
<1> DEFINE B == TakenBack(e, m + 1)
           P == Part(e, m + 1)
           a == Len(B)
           b == Len(L)
<1>1. a \in Nat /\ DOMAIN B = 1..a /\ b \in Nat /\ DOMAIN L = 1..b /\ L = [k \in 1..b |-> L[k]]
  BY ListIs DEF TakesBack
<1>2. P = [k \in 1..a |-> P[k]] /\ \A k \in 1..a : P[k].op = B[k] /\ P[k].from = m + 1
  BY <1>1 DEF Part
<1> HIDE DEF P, a, b
<1>3. /\ a \in Nat /\ b \in Nat
      /\ P = [k \in 1..a |-> P[k]] /\ L = [k \in 1..b |-> L[k]]
  BY <1>1, <1>2
<1> DEFINE Q == P \o L
<1>4. /\ IsList(Q) /\ DOMAIN Q = 1 .. a + b
      /\ \A k \in 1..a : Q[k] = P[k]
      /\ \A k \in 1..b : Q[a + k] = L[k]
  <2>1. IsList(P \o L) /\ DOMAIN (P \o L) = 1 .. a + b
    BY <1>3, JoinedList
  <2>2. \A k \in 1..a : (P \o L)[k] = P[k]
    BY <1>3, JoinedList
  <2>3. \A k \in 1..b : (P \o L)[a + k] = L[k]
    BY <1>3, JoinedList
  <2> QED BY <2>1, <2>2, <2>3
<1> HIDE DEF Q
<1>5. ASSUME NEW k \in DOMAIN Q
      PROVE  \E n \in chosen \cap 1 .. m + 1 : \E j \in DOMAIN TakenBack(e, n) :
                Q[k].from = n /\ Q[k].op = TakenBack(e, n)[j]
  <2>1. CASE k \in 1..a
    <3>1. m + 1 \in chosen \cap 1 .. m + 1 /\ k \in DOMAIN TakenBack(e, m + 1)
      BY <1>1, <2>1
    <3>2. Q[k].from = m + 1 /\ Q[k].op = TakenBack(e, m + 1)[k]
      BY <1>2, <1>4, <2>1
    <3> QED BY <3>1, <3>2
  <2>2. CASE k \notin 1..a
    <3>1. k - a \in 1..b /\ a + (k - a) = k
      BY <1>1, <1>4, <2>2
    <3>2. Q[k] = L[k - a]
      BY <1>4, <3>1
    <3>3. PICK n \in chosen \cap 1..m : \E j \in DOMAIN TakenBack(e, n) :
                L[k - a].from = n /\ L[k - a].op = TakenBack(e, n)[j]
      BY <1>1, <3>1 DEF TakesBack
    <3>4. n \in chosen \cap 1 .. m + 1
      OBVIOUS
    <3> QED BY <3>2, <3>3, <3>4
  <2> QED BY <2>1, <2>2
<1>6. ASSUME NEW n \in chosen \cap 1 .. m + 1, NEW j \in DOMAIN TakenBack(e, n)
      PROVE  \E k \in DOMAIN Q : Q[k].from = n /\ Q[k].op = TakenBack(e, n)[j]
  <2>1. CASE n = m + 1
    <3>1. j \in 1..a /\ j \in DOMAIN Q
      BY <1>1, <1>4, <2>1
    <3>2. Q[j].from = n /\ Q[j].op = TakenBack(e, n)[j]
      BY <1>2, <1>4, <2>1, <3>1
    <3> QED BY <3>1, <3>2
  <2>2. CASE n # m + 1
    <3>1. n \in chosen \cap 1..m
      BY <2>2
    <3>2. PICK k \in 1..b : L[k].from = n /\ L[k].op = TakenBack(e, n)[j]
      BY <1>1, <3>1 DEF TakesBack
    <3>3. a + k \in DOMAIN Q /\ Q[a + k] = L[k]
      BY <1>1, <1>4
    <3> QED BY <3>2, <3>3
  <2> QED BY <2>1, <2>2
<1>7. ASSUME NEW j \in DOMAIN Q, NEW k \in DOMAIN Q, j < k
      PROVE  Q[k].from <= Q[j].from
  <2>1. \A h \in 1..b : L[h].from \in 1..m
    BY <1>1 DEF TakesBack
  <2>2. CASE k \in 1..a
    <3>1. j \in 1..a
      BY <1>3, <1>4, <1>7, <2>2
    <3>2. Q[j].from = m + 1 /\ Q[k].from = m + 1
      BY <1>2, <1>4, <2>2, <3>1
    <3> QED BY <3>2
  <2>3. CASE k \notin 1..a
    <3>1. k - a \in 1..b /\ a + (k - a) = k
      BY <1>1, <1>4, <2>3
    <3>2. Q[k] = L[k - a] /\ Q[k].from \in 1..m
      BY <1>4, <2>1, <3>1
    <3>3. CASE j \in 1..a
      BY <1>2, <1>4, <3>2, <3>3
    <3>4. CASE j \notin 1..a
      <4>1. j - a \in 1..b /\ a + (j - a) = j /\ j - a < k - a
        BY <1>1, <1>4, <1>7, <3>4
      <4>2. Q[j] = L[j - a]
        BY <1>4, <4>1
      <4>3. L[k - a].from <= L[j - a].from
        BY <1>1, <3>1, <4>1 DEF TakesBack
      <4> QED BY <3>2, <4>2, <4>3
    <3> QED BY <3>3, <3>4
  <2> QED BY <2>2, <2>3
<1>8. TakesBack(Q, e, chosen, m + 1)
  BY <1>4, <1>5, <1>6, <1>7 DEF TakesBack
<1> QED BY <1>8 DEF Q, P

LEMMA TakingBackIs ==
  ASSUME NEW e, NEW chosen, Len(log[e].ops) \in Nat, \A n \in 1..Len(log[e].ops) : IsList(TakenBack(e, n))
  PROVE  TakesBack(TakingBack(e, chosen), e, chosen, Len(log[e].ops))
<1> DEFINE N == Len(log[e].ops)
           Then(n, L) == IF n \notin chosen THEN L ELSE Part(e, n) \o L
           Is(f, m) == f = [n \in 0..m |-> IF n = 0 THEN <<>> ELSE Then(n, f[n - 1])]
           G == {m \in Nat : m <= N => \E f : Is(f, m)}
<1>1. 0 \in G
  <2> DEFINE f == [n \in 0..0 |-> <<>>]
  <2>1. Is(f, 0)
    OBVIOUS
  <2> HIDE DEF f, Is
  <2> QED BY <2>1
<1> HIDE DEF Then
<1>2. ASSUME NEW m \in Nat, m \in G
      PROVE  m + 1 \in G
  <2> SUFFICES ASSUME m + 1 <= N PROVE \E f : Is(f, m + 1)
    OBVIOUS
  <2>1. PICK f : Is(f, m)
    BY <1>2
  <2> DEFINE g == [n \in 0 .. m + 1 |-> IF n <= m THEN f[n] ELSE Then(n, f[m])]
  <2>0. \A n \in 0..m : f[n] = IF n = 0 THEN <<>> ELSE Then(n, f[n - 1])
    <3> HIDE DEF g
    <3> QED BY <2>1
  <2>2. \A n \in 0..m : g[n] = f[n]
    OBVIOUS
  <2>3. g[m + 1] = Then(m + 1, f[m])
    OBVIOUS
  <2>4. g = [n \in 0 .. m + 1 |-> g[n]]
    OBVIOUS
  <2> HIDE DEF g
  <2>5. \A n \in 0 .. m + 1 : g[n] = IF n = 0 THEN <<>> ELSE Then(n, g[n - 1])
    <3> TAKE n \in 0 .. m + 1
    <3>1. CASE n \in 0..m
      <4>1. n = 0 \/ (n # 0 /\ n - 1 \in 0..m)
        BY <3>1
      <4> QED BY <2>0, <2>2, <3>1, <4>1
    <3>2. CASE n \notin 0..m
      <4>1. n = m + 1 /\ n # 0 /\ n - 1 = m /\ m \in 0..m
        BY <3>2
      <4> QED BY <2>2, <2>3, <4>1
    <3> QED BY <3>1, <3>2
  <2>6. Is(g, m + 1)
    BY <2>4, <2>5
  <2> HIDE DEF Is
  <2> QED BY <2>6
<1>3. \E f : Is(f, N)
  <2> HIDE DEF G
  <2>1. N \in G
    BY <1>1, <1>2, AllNumbers
  <2> QED BY <2>1 DEF G
<1> DEFINE f == CHOOSE g : Is(g, N)
<1>4. TakingBack(e, chosen) = f[N]
  BY DEF TakingBack, Part, Then
<1> HIDE DEF Is, f
<1>5. Is(f, N)
  BY <1>3 DEF f
<1>6. f[0] = <<>> /\ \A n \in 1..N : f[n] = Then(n, f[n - 1])
  <2>1. f = [n \in 0..N |-> IF n = 0 THEN <<>> ELSE Then(n, f[n - 1])]
    BY <1>5 DEF Is
  <2>2. 0 \in 0..N /\ \A n \in 1..N : n \in 0..N /\ n # 0
    OBVIOUS
  <2> HIDE DEF N
  <2>3. f[0] = <<>>
    BY <2>1, <2>2
  <2>4. ASSUME NEW n \in 1..N
        PROVE  f[n] = Then(n, f[n - 1])
    BY <2>1, <2>2
  <2> QED BY <2>3, <2>4
<1> DEFINE H == {m \in 0..N : TakesBack(f[m], e, chosen, m)}
<1> HIDE DEF f, N
<1>7. N \in Nat /\ \A n \in 1..N : IsList(TakenBack(e, n))
  BY DEF N
<1>8. 0 \in H
  <2>1. TakesBack(<<>>, e, chosen, 0)
    BY EmptyIs DEF TakesBack
  <2> QED BY <1>6, <1>7, <2>1
<1>9. ASSUME NEW m \in 0 .. N - 1, m \in H
      PROVE  m + 1 \in H
  <2>1. m \in Nat /\ m + 1 \in 1..N /\ m + 1 \in 0..N /\ (m + 1) - 1 = m
    BY <1>7
  <2>2. f[m + 1] = Then(m + 1, f[m]) /\ TakesBack(f[m], e, chosen, m)
    BY <1>6, <1>9, <2>1
  <2>3. CASE m + 1 \in chosen
    <3>1. f[m + 1] = Part(e, m + 1) \o f[m]
      BY <2>2, <2>3 DEF Then
    <3> QED BY <1>7, <2>1, <2>2, <2>3, <3>1, OneMoreTaken
  <2>4. CASE m + 1 \notin chosen
    <3>1. f[m + 1] = f[m]
      BY <2>2, <2>4 DEF Then
    <3>2. chosen \cap 1 .. m + 1 = chosen \cap 1..m
      BY <2>1, <2>4
    <3> QED BY <2>1, <2>2, <3>1, <3>2 DEF TakesBack
  <2> QED BY <2>3, <2>4
<1> HIDE DEF H
<1>10. \A m \in 0..N : m \in H
  BY <1>7, <1>8, <1>9, UpTo
<1>11. N \in H
  BY <1>7, <1>10
<1> QED BY <1>4, <1>11 DEF H, N

(* The operations of an inverse: each comes from what takes one of those   *)
(* chosen back, and all that takes them back is there.                     *)
LEMMA InverseIs ==
  ASSUME NEW e, NEW chosen, OpsOK(log[e].ops), \A n \in DOMAIN log[e].ops : PlanOK(Was(e, n))
  PROVE  LET ops == InverseOps(e, chosen)
         IN  /\ OpsOK(ops) /\ \A m \in DOMAIN ops : ops[m].kind # "create"
             /\ \A m \in DOMAIN ops : \E n \in chosen \cap DOMAIN log[e].ops : \E j \in DOMAIN TakenBack(e, n) :
                  ops[m] = TakenBack(e, n)[j]
             /\ \A n \in chosen \cap DOMAIN log[e].ops : \A j \in DOMAIN TakenBack(e, n) :
                  \E m \in DOMAIN ops : ops[m] = TakenBack(e, n)[j]
<1> DEFINE L == TakingBack(e, chosen)
           ops == InverseOps(e, chosen)
           N == Len(log[e].ops)
<1>1. N \in Nat /\ DOMAIN log[e].ops = 1..N /\ \A n \in 1..N : Op(e, n).kind \in OperationKinds
  BY ListIs DEF OpsOK, Op
<1>2. \A n \in 1..N : Small(TakenBack(e, n))
  BY <1>1, TakenBackSmall
<1>3. TakesBack(L, e, chosen, N)
  BY <1>1, <1>2, TakingBackIs DEF Small
<1>4. ops = [m \in DOMAIN L |-> L[m].op]
  BY DEF InverseOps
<1> HIDE DEF L, ops, N
<1>5. Len(L) \in Nat /\ DOMAIN L = 1..Len(L)
  BY <1>3, ListIs DEF TakesBack
<1>6. DOMAIN ops = DOMAIN L /\ \A m \in DOMAIN L : ops[m] = L[m].op
  BY <1>4
<1>7. ops = [m \in 1..Len(L) |-> ops[m]]
  BY <1>4, <1>5
<1>8. IsList(ops)
  BY <1>5, <1>7, IsAList
<1>9. \A m \in DOMAIN ops : \E n \in chosen \cap 1..N : \E j \in DOMAIN TakenBack(e, n) :
         ops[m] = TakenBack(e, n)[j]
  BY <1>3, <1>6 DEF TakesBack
<1>10. \A n \in chosen \cap 1..N : \A j \in DOMAIN TakenBack(e, n) :
          \E m \in DOMAIN ops : ops[m] = TakenBack(e, n)[j]
  BY <1>3, <1>6 DEF TakesBack
<1>11. \A m \in DOMAIN ops : ops[m].kind \in OperationKinds \ {"create"}
  BY <1>2, <1>9 DEF Small
<1>12. OpsOK(ops) /\ \A m \in DOMAIN ops : ops[m].kind # "create"
  BY <1>8, <1>11 DEF OpsOK
<1> QED BY <1>1, <1>9, <1>10, <1>12 DEF ops

(* And each with the operation it takes back, the last first. *)
LEMMA InverseTurns ==
  ASSUME NEW e, NEW chosen, OpsOK(log[e].ops), \A n \in DOMAIN log[e].ops : PlanOK(Was(e, n))
  PROVE  LET ops == InverseOps(e, chosen)
             from == InverseFrom(e, chosen)
         IN  /\ \A k \in DOMAIN ops : /\ from[k] \in chosen \cap DOMAIN log[e].ops
                                      /\ \E j \in DOMAIN TakenBack(e, from[k]) : ops[k] = TakenBack(e, from[k])[j]
             /\ \A j, k \in DOMAIN ops : j < k => from[k] <= from[j]
             /\ \A n \in chosen \cap DOMAIN log[e].ops : \A j \in DOMAIN TakenBack(e, n) :
                  \E k \in DOMAIN ops : from[k] = n /\ ops[k] = TakenBack(e, n)[j]
<1> DEFINE L == TakingBack(e, chosen)
           ops == InverseOps(e, chosen)
           from == InverseFrom(e, chosen)
           N == Len(log[e].ops)
<1>1. N \in Nat /\ DOMAIN log[e].ops = 1..N /\ \A n \in 1..N : Op(e, n).kind \in OperationKinds
  BY ListIs DEF OpsOK, Op
<1>2. \A n \in 1..N : Small(TakenBack(e, n))
  BY <1>1, TakenBackSmall
<1>3. TakesBack(L, e, chosen, N)
  BY <1>1, <1>2, TakingBackIs DEF Small
<1>4. ops = [m \in DOMAIN L |-> L[m].op] /\ from = [m \in DOMAIN L |-> L[m].from]
  BY DEF InverseOps, InverseFrom
<1> HIDE DEF L, ops, from, N
<1>5. DOMAIN ops = DOMAIN L /\ \A m \in DOMAIN L : ops[m] = L[m].op /\ from[m] = L[m].from
  BY <1>4
<1>6. \A k \in DOMAIN ops : /\ from[k] \in chosen \cap 1..N
                           /\ \E j \in DOMAIN TakenBack(e, from[k]) : ops[k] = TakenBack(e, from[k])[j]
  BY <1>3, <1>5 DEF TakesBack
<1>7. \A j, k \in DOMAIN ops : j < k => from[k] <= from[j]
  BY <1>3, <1>5 DEF TakesBack
<1>8. \A n \in chosen \cap 1..N : \A j \in DOMAIN TakenBack(e, n) :
          \E k \in DOMAIN ops : from[k] = n /\ ops[k] = TakenBack(e, n)[j]
  BY <1>3, <1>5 DEF TakesBack
<1> QED BY <1>1, <1>6, <1>7, <1>8 DEF ops, from

-----------------------------------------------------------------------------
(* CInv: the plan is kept, and every version tells what became of the plan *)
(* it was made on.                                                         *)

(* VersionsOK and Described of a log and a time. *)
Applieds(L) == {e \in DOMAIN L : L[e].status = "applied"}

VersionOf(row, now) ==
  /\ row.at \in Nat /\ row.at <= now
  /\ PlanOK(row.base) /\ PlanOK(row.result) /\ OpsOK(row.ops)
  /\ \A n \in DOMAIN row.ops : PlanOK(row.changes[n].before) /\ PlanOK(row.changes[n].after)
  /\ Says(row, row.base)

VersionsIn(L, now) ==
  /\ \A e \in Applieds(L) : VersionOf(L[e], now)
  /\ \A d, e \in Applieds(L) : L[d].at = L[e].at => d = e

DescribedIn(row, trial) ==
  /\ PlanOK(row.base) /\ OpsOK(row.ops) /\ Fits(row.ops)
  /\ \E t \in 0..trial :
       /\ Taken(row.base, Width * t) /\ Goes(row.base, row.ops, t)
       /\ row.changes = [n \in DOMAIN row.ops |->
                           Change(Run(row.base, row.ops, t)[n - 1], Run(row.base, row.ops, t)[n])]

(* VersionsOK and Described as operators of the log and the time, now and  *)
(* after a step.                                                           *)
LEMMA VersionsAre ==
  (VersionsOK <=> VersionsIn(log, clock)) /\ (VersionsOK' <=> VersionsIn(log', clock'))
<1>1. \A e : Tells(e, log[e].base) <=> Says(log[e], log[e].base)
  BY TellsIs
<1>2. VersionsOK <=> VersionsIn(log, clock)
  BY <1>1 DEF VersionsOK, VersionsIn, VersionOf, Versions, Applieds, Was, Became
<1>3. \A e : Tells(e, log[e].base)' <=> Says(log'[e], log'[e].base)
  <2>1. ASSUME NEW e, NEW s PROVE Tells(e, s)' <=> Says(log'[e], s)
    BY TellsIs
  <2> QED BY <2>1
<1>4. VersionsOK' <=> VersionsIn(log', clock')
  BY <1>3 DEF VersionsOK, VersionsIn, VersionOf, Versions, Applieds, Was, Became
<1> QED BY <1>2, <1>4

LEMMA DescribedIs ==
  ASSUME NEW c
  PROVE  (Described(c) <=> DescribedIn(log[c], Trial)) /\ (Described(c)' <=> DescribedIn(log'[c], Trial'))
BY DEF Described, DescribedIn

-----------------------------------------------------------------------------
(* The time that passes. *)
LEMMA TickIs ==
  ASSUME LogOK, Tick
  PROVE  /\ clock \in Nat /\ clock' = clock + 1 /\ clock' \in Nat /\ Now = clock + 1
         /\ Trial' = Commit + 1 /\ clock <= clock'
<1>1. clock \in Nat /\ clock' = clock + 1
  BY DEF LogOK, Tick, Now
<1> QED BY <1>1 DEF Now, Trial, Commit

LEMMA TrialGrows ==
  ASSUME clock \in Nat, clock' \in Nat, clock <= clock'
  PROVE  Trial \in Nat /\ Trial' \in Nat /\ Trial <= Trial'
<1> DEFINE a == clock
           b == clock'
<1>1. Trial = 2 * a /\ Trial' = 2 * b
  BY DEF Trial
<1>2. a \in Nat /\ b \in Nat /\ a <= b
  OBVIOUS
<1> HIDE DEF a, b
<1>3. 2 * a \in Nat /\ 2 * b \in Nat /\ 2 * a <= 2 * b
  BY <1>2
<1> QED BY <1>1, <1>3

(* What a proposal describes, it describes as long as it is there.         *)
LEMMA DescribedStay ==
  ASSUME LogOK, PlanKept, clock' \in Nat, clock <= clock',
         \A c \in Pending' : (c \in Pending /\ log'[c] = log[c]) \/ DescribedIn(log'[c], Trial')
  PROVE  \A c \in Pending' : Described(c)'
<1>1. Trial \in Nat /\ Trial' \in Nat /\ Trial <= Trial'
  BY TrialGrows DEF LogOK
<1>2. ASSUME NEW c \in Pending, log'[c] = log[c]
      PROVE  DescribedIn(log'[c], Trial')
  <2>1. DescribedIn(log[c], Trial)
    BY DescribedIs DEF PlanKept
  <2>2. \A t \in 0..Trial : t \in 0..Trial'
    BY <1>1
  <2> QED BY <1>2, <2>1, <2>2 DEF DescribedIn
<1>3. ASSUME NEW c \in Pending'
      PROVE  Described(c)'
  BY <1>2, DescribedIs
<1> QED BY <1>3

(* A write that leaves an entry of its own, or applies a proposal. *)
LEMMA WriteKeeps ==
  ASSUME LogOK, PlanKept, Tick, NEW r, PlanOK(r), Taken(r, Width * (Commit + 1)),
         NEW rows, plan' = Written(r, rows),
         \A c \in Pending' : c \in Pending /\ log'[c] = log[c]
  PROVE  PlanKept'
<1>1. PlanOK(plan') /\ Taken(plan', Width * (Commit + 1))
  BY DEF Written, PlanOK, IsPlan, Items, Taken
<1>2. Trial' = Commit + 1 /\ clock' \in Nat /\ clock <= clock'
  BY TickIs
<1>3. \A c \in Pending' : Described(c)'
  BY <1>2, DescribedStay
<1> QED BY <1>1, <1>2, <1>3 DEF PlanKept

(* A write with an entry: the entry is a version that tells what became of *)
(* the plan it was made on.                                                *)
LEMMA NewVersion ==
  ASSUME LogOK, VersionsOK, Tick,
         NEW k \in DOMAIN log', k \notin Applieds(log), NEW row, log'[k] = row,
         \A e \in DOMAIN log' : e # k => e \in DOMAIN log /\ log'[e] = log[e],
         row.status = "applied", row.at = Now,
         PlanOK(row.base), PlanOK(row.result), OpsOK(row.ops), Says(row, row.base),
         \A n \in DOMAIN row.ops : PlanOK(row.changes[n].before) /\ PlanOK(row.changes[n].after)
  PROVE  VersionsOK'
<1>1. clock \in Nat /\ clock' = clock + 1 /\ Now = clock + 1
  BY TickIs
<1>2. VersionsIn(log, clock)
  BY VersionsAre
<1>3. \A e \in Applieds(log') : e # k => e \in Applieds(log) /\ log'[e] = log[e]
  BY DEF Applieds
<1>4. VersionOf(row, clock')
  BY <1>1 DEF VersionOf
<1>5. ASSUME NEW e \in Applieds(log'), e # k
      PROVE  VersionOf(log'[e], clock') /\ log'[e].at \in Nat /\ log'[e].at < Now
  <2>1. e \in Applieds(log) /\ log'[e] = log[e]
    BY <1>3, <1>5
  <2>2. VersionOf(log[e], clock)
    BY <1>2, <2>1 DEF VersionsIn
  <2> QED BY <1>1, <2>1, <2>2 DEF VersionOf
<1>6. \A e \in Applieds(log') : VersionOf(log'[e], clock')
  BY <1>4, <1>5
<1>7. ASSUME NEW d \in Applieds(log'), NEW e \in Applieds(log'), log'[d].at = log'[e].at
      PROVE  d = e
  <2>1. CASE d = k \/ e = k
    BY <1>1, <1>5, <1>7, <2>1
  <2>2. CASE d # k /\ e # k
    BY <1>2, <1>3, <1>7, <2>2 DEF VersionsIn
  <2> QED BY <2>1, <2>2
<1>8. VersionsIn(log', clock')
  BY <1>6, <1>7 DEF VersionsIn
<1> QED BY <1>8, VersionsAre

(* No entry comes or goes. *)
LEMMA SameVersions ==
  ASSUME LogOK, VersionsOK, clock' \in Nat, clock <= clock',
         \A e \in Applieds(log') : e \in Applieds(log) /\ log'[e] = log[e]
  PROVE  VersionsOK'
<1>1. VersionsIn(log, clock) /\ clock \in Nat
  BY VersionsAre DEF LogOK
<1>2. \A e \in Applieds(log) : VersionOf(log[e], clock')
  BY <1>1 DEF VersionsIn, VersionOf
<1>3. VersionsIn(log', clock')
  BY <1>1, <1>2 DEF VersionsIn
<1> QED BY <1>3, VersionsAre

-----------------------------------------------------------------------------
(* Where a run ends. *)
LEMMA RunEnds ==
  ASSUME NEW s, PlanOK(s), NEW ops, OpsOK(ops), Len(ops) < Width, NEW t \in Nat, Taken(s, Width * t + 1), Goes(s, ops, t)
  PROVE  PlanOK(Result(s, ops, t)) /\ Taken(Result(s, ops, t), Width * (t + 1))
<1> DEFINE m == Len(ops)
           r == Result(s, ops, t)
<1>1. m \in 0..m /\ m \in Nat
  BY ListIs DEF OpsOK
<1>2. r = Run(s, ops, t)[m]
  BY DEF Result
<1>3. PlanOK(r) /\ Taken(r, Width * t + m + 1)
  BY <1>1, <1>2, RunOK
<1>4. Width * t + m + 1 \in Int /\ Width * (t + 1) \in Int /\ Width * t + m + 1 <= Width * (t + 1)
  BY <1>1 DEF Width
<1> HIDE DEF r, m
<1>5. Taken(r, Width * (t + 1))
  BY <1>3, <1>4, Later
<1> QED BY <1>3, <1>5 DEF r

(* What a change set says: what it made of the plan, described by what it  *)
(* made when it was previewed.                                             *)
LEMMA ReboundSays ==
  ASSUME NEW s, PlanOK(s), NEW ops, OpsOK(ops), NEW t \in Nat, NEW u \in Nat,
         Taken(s, Width * t + 1), Taken(s, Width * u + 1), Goes(s, ops, t), Goes(s, ops, u),
         NEW seen, \A n \in 0..Len(ops) : seen[n] = Run(s, ops, t)[n],
         NEW row, row.ops = ops, row.changes = Rebound(ops, seen, Run(s, ops, u)),
         Like(row.result, Result(s, ops, u))
  PROVE  /\ Says(row, s)
         /\ \A n \in DOMAIN row.ops : PlanOK(row.changes[n].before) /\ PlanOK(row.changes[n].after)
<1> DEFINE v == Run(s, ops, t)
           w == Run(s, ops, u)
           m == Len(ops)
<1>1. m \in Nat /\ DOMAIN ops = 1..m
  BY ListIs DEF OpsOK
<1>2. /\ v[0] = s /\ Follow(v, ops)
      /\ \A n \in 1..m : ops[n].kind = "unlink" => Tie(ops[n]) \in Triples(v[n - 1])
  BY RunFollows
<1>3. w[0] = s /\ Follow(w, ops)
  BY RunFollows
<1>4. Like(s, s)
  BY DEF Like
<1>5. /\ \A n \in 0..m : PlanOK(v[n])
      /\ \A n \in 0..m : PlanOK(w[n])
  <2>1. \A n \in 0..m : PlanOK(v[n])
    BY RunOK
  <2>2. \A n \in 0..m : PlanOK(w[n])
    BY RunOK
  <2> QED BY <2>1, <2>2
<1>6. Result(s, ops, u) = w[m]
  BY DEF Result
<1>7. \A n \in 1..m : row.changes[n] = Change(seen[n - 1],
         IF ops[n].kind \in Posts \cup {"create", "move"} THEN w[n] ELSE seen[n])
  BY <1>1 DEF Rebound
<1>8. \A n \in 0..m : seen[n] = v[n]
  OBVIOUS
<1> HIDE DEF v, w, m
<1>9. \A n \in 0..m : Like(w[n], v[n])
  BY <1>1, <1>2, <1>3, <1>4, FollowAlike DEF m
<1>10. \A n \in 0..m : Like(v[n], v[n])
  BY DEF Like
<1>11. ASSUME NEW n \in 1..m
       PROVE  /\ row.changes[n].before = v[n - 1] /\ row.changes[n].after \in {v[n], w[n]}
              /\ n \in 0..m /\ n - 1 \in 0..m
  <2>1. n \in 0..m /\ n - 1 \in 0..m
    BY <1>1
  <2>2. /\ row.changes[n].before = seen[n - 1]
        /\ row.changes[n].after = IF ops[n].kind \in Posts \cup {"create", "move"} THEN w[n] ELSE seen[n]
    <3> DEFINE b == seen[n - 1]
               a == IF ops[n].kind \in Posts \cup {"create", "move"} THEN w[n] ELSE seen[n]
    <3>1. row.changes[n] = Change(b, a)
      BY <1>7
    <3> HIDE DEF a, b
    <3>2. row.changes[n].before = b /\ row.changes[n].after = a
      BY <3>1 DEF Change
    <3> QED BY <3>2 DEF a, b
  <2>3. seen[n - 1] = v[n - 1] /\ seen[n] = v[n]
    BY <1>8, <2>1
  <2> QED BY <2>1, <2>2, <2>3
<1>12. m \in 0..m
  BY <1>1
<1>13. Like(row.result, v[m])
  BY <1>6, <1>9, <1>12 DEF Like
<1>14. Pictures(row, v)
  BY <1>2, <1>9, <1>10, <1>11, <1>13 DEF Pictures, m
<1>15. Says(row, s)
  BY <1>2, <1>4, <1>14, PicturesSay
<1>16. \A n \in 1..m : PlanOK(row.changes[n].before) /\ PlanOK(row.changes[n].after)
  BY <1>5, <1>11
<1> QED BY <1>1, <1>15, <1>16

(* The plan and the times its next operations take. *)
LEMMA PlanReady ==
  ASSUME LogOK, PlanKept
  PROVE  /\ PlanOK(plan) /\ Trial \in Nat /\ Commit \in Nat /\ Commit = Trial + 1
         /\ Taken(plan, Width * Trial + 1) /\ Taken(plan, Width * Commit + 1)
<1>1. Trial \in Nat /\ Commit \in Nat /\ Commit = Trial + 1 /\ clock \in Nat
  BY DEF LogOK, Trial, Commit
<1>2. PlanOK(plan) /\ Taken(plan, Width * Trial)
  BY DEF PlanKept
<1>3. /\ Width * Trial \in Int /\ Width * Trial + 1 \in Int /\ Width * Commit + 1 \in Int
      /\ Width * Trial <= Width * Trial + 1 /\ Width * Trial <= Width * Commit + 1
  BY <1>1 DEF Width
<1>4. Taken(plan, Width * Trial + 1) /\ Taken(plan, Width * Commit + 1)
  BY <1>2, <1>3, Later
<1> QED BY <1>1, <1>2, <1>4

(* What is written looks like what the run ended in. *)
LEMMA WrittenLike ==
  ASSUME NEW r, NEW rows
  PROVE  Like(Written(r, rows), r)
BY SameLike DEF Written

LEMMA WrittenOK ==
  ASSUME NEW r, PlanOK(r), NEW rows
  PROVE  PlanOK(Written(r, rows))
BY DEF Written, PlanOK, IsPlan, Items

(* A change set has fewer operations than there are identities for. *)
LEMMA FitsIs ==
  ASSUME NEW ops, OpsOK(ops), Fits(ops)
  PROVE  Len(ops) \in Nat /\ DOMAIN ops = 1..Len(ops) /\ 1 \in DOMAIN ops /\ Len(ops) < Width
<1>1. Len(ops) \in Nat /\ DOMAIN ops = 1..Len(ops)
  BY ListIs DEF OpsOK
<1> DEFINE m == Len(ops)
<1>2. m \in 1..100
  BY DEF Fits, MostOperations
<1> HIDE DEF m
<1>3. 1 \in 1..m /\ m < Width
  BY <1>2 DEF Width
<1> QED BY <1>1, <1>3 DEF m

(* What a change holds. *)
LEMMA ChangeIs ==
  ASSUME NEW a, NEW b
  PROVE  Change(a, b).before = a /\ Change(a, b).after = b
BY DEF Change

(* A write with an entry of its own. *)
LEMMA EntryWritten ==
  ASSUME IInv, CInv, Tick, NEW r, PlanOK(r), Taken(r, Width * (Commit + 1)),
         NEW rows, plan' = Written(r, rows), NEW ops, NEW changes, OpsOK(ops),
         NEW row, row = Recorded(ops, changes, plan, Now, plan'), log' = Append(log, row),
         Says(row, plan), \A n \in DOMAIN ops : PlanOK(changes[n].before) /\ PlanOK(changes[n].after)
  PROVE  CInv'
<1>0. LogOK /\ PlanKept /\ VersionsOK /\ clock' \in Nat /\ PlanOK(plan)
  BY TickIs DEF IInv, CInv, PlanKept
<1>1. /\ DOMAIN row = Fields /\ row.status = "applied" /\ row.base = plan /\ row.at = Now
      /\ row.result = plan' /\ row.ops = ops /\ row.changes = changes
  BY DEF Recorded, Fields
<1>2. /\ DOMAIN log' = 1..(Len(log) + 1) /\ Len(log) \in Nat /\ DOMAIN log = 1..Len(log)
      /\ \A e \in 1..Len(log) : log'[e] = log[e]
      /\ log'[Len(log) + 1] = row
  BY <1>0, <1>1, Appended, LogFacts
<1>3. /\ Len(log) + 1 \in DOMAIN log' /\ Len(log) + 1 \notin Applieds(log)
      /\ \A e \in DOMAIN log' : e # Len(log) + 1 => e \in DOMAIN log /\ log'[e] = log[e]
  BY <1>2 DEF Applieds
<1>4. PlanOK(plan')
  BY WrittenOK
<1>5. PlanKept'
  <2>1. \A c \in Pending' : c \in Pending /\ log'[c] = log[c]
    BY <1>1, <1>2, <1>3 DEF Pending
  <2> QED BY <1>0, <2>1, WriteKeeps
<1>6. VersionsOK'
  <2> DEFINE k == Len(log) + 1
  <2> HIDE DEF k
  <2>1. /\ k \in DOMAIN log' /\ k \notin Applieds(log) /\ log'[k] = row
        /\ \A e \in DOMAIN log' : e # k => e \in DOMAIN log /\ log'[e] = log[e]
    BY <1>2, <1>3 DEF k
  <2>2. \A n \in DOMAIN row.ops : PlanOK(row.changes[n].before) /\ PlanOK(row.changes[n].after)
    BY <1>1
  <2>3. OpsOK(row.ops) /\ PlanOK(row.base) /\ PlanOK(row.result) /\ Says(row, row.base)
    BY <1>0, <1>1, <1>4
  <2> QED BY <1>0, <1>1, <2>1, <2>2, <2>3, NewVersion
<1> QED BY <1>5, <1>6 DEF CInv

(* CInv in every step. *)
LEMMA EditTells ==
  ASSUME IInv, CInv, NEW ops \in Requests, Len(ops) = 1, Edit(ops[1])
  PROVE  CInv'
<1> DEFINE op == ops[1]
           one == <<op>>
           v == Run(plan, one, Commit)
           after == Result(plan, one, Commit)
           changes == <<Change(plan, after)>>
           row == Recorded(one, changes, plan, Now, plan')
           rows == Rewrites(plan, op, after)
<1>1. op.kind \in OperationKinds
  BY RequestsAssumption, ListIs
<1>2. OpsOK(one) /\ Len(one) = 1 /\ DOMAIN one = 1..1 /\ one[1] = op
  BY <1>1, TupleIs DEF OpsOK
<1>3. Goes(plan, one, Commit) /\ Tick /\ plan' = Written(after, rows) /\ log' = Append(log, row)
  BY DEF Edit
<1>4. /\ PlanOK(plan) /\ Commit \in Nat /\ Taken(plan, Width * Commit + 1)
  BY PlanReady DEF IInv, CInv
<1>5. PlanOK(after) /\ Taken(after, Width * (Commit + 1))
  <2>1. Len(one) < Width
    BY <1>2 DEF Width
  <2> HIDE DEF one, after
  <2> QED BY <1>2, <1>3, <1>4, <2>1, RunEnds DEF after
<1>6. changes[1].before = plan /\ changes[1].after = after
  BY DEF Change
<1>7. row.ops = one /\ row.changes = changes /\ row.result = plan'
  BY DEF Recorded
<1>8. after = v[1]
  BY <1>2 DEF Result
<1> HIDE DEF one
<1>9. /\ v[0] = plan /\ Follow(v, one)
      /\ \A n \in 1..Len(one) : one[n].kind = "unlink" => Tie(one[n]) \in Triples(v[n - 1])
  BY <1>2, <1>3, <1>4, RunFollows
<1> HIDE DEF v, after, changes, row, rows
<1>10. Like(plan, plan) /\ Like(after, after)
  BY DEF Like
<1>11. Like(plan', after)
  BY <1>3, WrittenLike
<1>12. Pictures(row, v)
  <2>1. \A n \in 1..Len(one) : n = 1 /\ n - 1 = 0
    BY <1>2
  <2> QED BY <1>2, <1>6, <1>7, <1>8, <1>9, <1>10, <1>11, <2>1 DEF Pictures
<1>13. Says(row, plan)
  BY <1>2, <1>7, <1>9, <1>10, <1>12, PicturesSay
<1>14. \A n \in DOMAIN one : PlanOK(changes[n].before) /\ PlanOK(changes[n].after)
  BY <1>2, <1>4, <1>5, <1>6
<1> QED BY <1>2, <1>3, <1>5, <1>13, <1>14, EntryWritten DEF row

LEMMA ApproveTells ==
  ASSUME IInv, CInv, NEW ops \in Requests, Approve(ops)
  PROVE  CInv'
<1> DEFINE seen == Run(plan, ops, Trial)
           done == Run(plan, ops, Commit)
           after == Result(plan, ops, Commit)
           changes == Rebound(ops, seen, done)
           row == Recorded(ops, changes, plan, Now, plan')
           rows == Rewritten(ops, done)
<1>1. OpsOK(ops)
  BY RequestsAssumption DEF OpsOK
<1>2. /\ Goes(plan, ops, Trial) /\ Goes(plan, ops, Commit) /\ Tick /\ plan' = Written(after, rows)
      /\ log' = Append(log, row)
  BY DEF Approve, Result
<1>3. Len(ops) < Width
  BY <1>1, FitsIs DEF Approve
<1>4. /\ PlanOK(plan) /\ Trial \in Nat /\ Commit \in Nat
      /\ Taken(plan, Width * Trial + 1) /\ Taken(plan, Width * Commit + 1)
  BY PlanReady DEF IInv, CInv
<1>5. PlanOK(after) /\ Taken(after, Width * (Commit + 1))
  BY <1>1, <1>2, <1>3, <1>4, RunEnds
<1>6. row.ops = ops /\ row.changes = changes /\ row.result = plan'
  BY DEF Recorded
<1>7. Like(plan', after)
  BY <1>2, WrittenLike
<1>8. \A n \in 0..Len(ops) : seen[n] = Run(plan, ops, Trial)[n]
  OBVIOUS
<1> HIDE DEF row, seen, rows
<1>9. /\ Says(row, plan)
      /\ \A n \in DOMAIN row.ops : PlanOK(row.changes[n].before) /\ PlanOK(row.changes[n].after)
  BY <1>1, <1>2, <1>4, <1>6, <1>7, <1>8, ReboundSays
<1> HIDE DEF changes, after
<1> QED BY <1>1, <1>2, <1>5, <1>6, <1>9, EntryWritten DEF row

LEMMA TemplateTells ==
  ASSUME IInv, CInv, NEW ops \in Templates, ApplyTemplate(ops)
  PROVE  CInv'
<1> DEFINE after == Result(plan, ops, Commit)
           made == Derived(plan, after)
           changes == [n \in DOMAIN made |-> Change(plan, after)]
           row == Recorded(made, changes, plan, Now, plan')
<1>1. /\ OpsOK(ops) /\ Len(ops) < Width /\ \A n \in DOMAIN ops : ops[n].kind \in Posts \cup {"create"}
  BY TemplatesAssumption DEF OpsOK, OperationKinds
<1>2. Goes(plan, ops, Commit) /\ Tick /\ plan' = Written(after, {}) /\ log' = Append(log, row)
  BY DEF ApplyTemplate
<1>3. PlanOK(plan) /\ Commit \in Nat /\ Taken(plan, Width * Commit + 1)
  BY PlanReady DEF IInv, CInv
<1>4. PlanOK(after) /\ Taken(after, Width * (Commit + 1))
  BY <1>1, <1>2, <1>3, RunEnds
<1>5. /\ Triples(plan) \subseteq Triples(after) /\ Items(plan) \subseteq Items(after)
      /\ \A i \in Items(plan) : Looks(after)[i] = Looks(plan)[i]
  BY <1>1, <1>2, <1>3, RunAdds
<1>6. row.ops = made /\ row.changes = changes /\ row.result = plan'
  BY DEF Recorded
<1> HIDE DEF after, row
<1>7. Like(plan', after)
  BY <1>2, WrittenLike
<1>8. \A n \in DOMAIN made : /\ changes[n] = Change(plan, after)
                              /\ changes[n].before = plan /\ changes[n].after = after
  BY DEF Change
<1>9. OpsOK(made)
  BY <1>4, DerivedLists
<1> HIDE DEF changes
<1>10. Says(row, plan)
  BY <1>4, <1>5, <1>6, <1>7, <1>8, TemplateSays
<1>11. \A n \in DOMAIN made : PlanOK(changes[n].before) /\ PlanOK(changes[n].after)
  BY <1>3, <1>4, <1>8
<1> HIDE DEF made
<1> QED BY <1>2, <1>4, <1>9, <1>10, <1>11, EntryWritten DEF row

LEMMA CompleteTells ==
  ASSUME IInv, CInv, NEW i, Complete(i)
  PROVE  CInv'
<1> DEFINE r == [plan EXCEPT !.items[i].done = TRUE]
           row == [plan.items[i] EXCEPT !.done = TRUE]
<1>1. /\ Tick /\ i \in Items(plan) /\ plan' = Written(r, {<<"items", i>>}) /\ log' = log
  BY DEF Complete
<1>2. PlanOK(plan) /\ Trial \in Nat /\ Commit = Trial + 1 /\ Taken(plan, Width * Trial)
  BY PlanReady DEF IInv, CInv, PlanKept
<1>3. r.links = plan.links /\ IsPlan(r) /\ r.items = [plan.items EXCEPT ![i] = row]
  BY <1>2 DEF PlanOK, IsPlan
<1>4. RowsOK(plan.items) /\ Len(plan.items) \in Nat /\ DOMAIN plan.items = 1..Len(plan.items)
  BY <1>2, ListIs DEF PlanOK, RowsOK
<1>5. i \in DOMAIN plan.items /\ DOMAIN row = RowFields
  BY <1>1, <1>4 DEF Items, RowsOK
<1> HIDE DEF r, row
<1>6. r.items = [k \in 1..Len(plan.items) |-> r.items[k]]
  BY <1>3, <1>4
<1>7. IsList(r.items) /\ Len(r.items) = Len(plan.items)
  BY <1>4, <1>6, IsAList
<1>8. DOMAIN r.items = DOMAIN plan.items /\ \A k \in DOMAIN plan.items : DOMAIN r.items[k] = RowFields
  BY <1>3, <1>4, <1>5 DEF RowsOK
<1>9. PlanOK(r)
  BY <1>2, <1>3, <1>4, <1>7, <1>8 DEF PlanOK, RowsOK, Items
<1>10. Taken(r, Width * (Commit + 1))
  <2>1. Taken(r, Width * Trial)
    BY <1>2, <1>3 DEF Taken
  <2>2. Width * Trial \in Int /\ Width * (Commit + 1) \in Int /\ Width * Trial <= Width * (Commit + 1)
    BY <1>2 DEF Width
  <2> QED BY <1>9, <2>1, <2>2, Later
<1>11. PlanKept'
  <2>1. \A c \in Pending' : c \in Pending /\ log'[c] = log[c]
    BY <1>1 DEF Pending
  <2> QED BY <1>1, <1>9, <1>10, <2>1, WriteKeeps DEF IInv, CInv
<1>12. VersionsOK'
  <2>1. clock' \in Nat /\ clock <= clock'
    BY <1>1, TickIs DEF IInv
  <2>2. \A e \in Applieds(log') : e \in Applieds(log) /\ log'[e] = log[e]
    BY <1>1 DEF Applieds
  <2> QED BY <2>1, <2>2, SameVersions DEF IInv, CInv
<1> QED BY <1>11, <1>12 DEF CInv

LEMMA ApplyUndoTells ==
  ASSUME IInv, CInv, NEW c \in DOMAIN log, ApplyUndo(c)
  PROVE  CInv'
<1> DEFINE ops == log[c].ops
           old == log[c].changes
           seen == [n \in 0..Len(ops) |-> IF n = 0 THEN old[1].before ELSE old[n].after]
           done == Run(plan, ops, Commit)
           after == Result(plan, ops, Commit)
           rows == Rewritten(ops, done)
           row == [log[c] EXCEPT !.status = "applied", !.at = Now,
                                 !.changes = Rebound(ops, seen, done), !.result = plan']
<1>1. /\ Tick /\ log[c].status = "pending" /\ log[c].base = plan
      /\ Goes(plan, ops, Commit) /\ plan' = Written(after, rows) /\ log' = [log EXCEPT ![c] = row]
  BY DEF ApplyUndo, Result
<1>2. /\ DOMAIN row = Fields /\ row.status = "applied" /\ row.base = plan /\ row.at = Now
      /\ row.result = plan' /\ row.ops = ops /\ row.changes = Rebound(ops, seen, done)
  BY <1>1 DEF IInv, LogOK, Fields
<1> HIDE DEF row, rows
<1>0. LogOK /\ PlanKept /\ VersionsOK /\ clock' \in Nat
  BY <1>1, TickIs DEF IInv, CInv
<1>3. DOMAIN log' = DOMAIN log /\ \A e \in DOMAIN log : log'[e] = IF e = c THEN row ELSE log[e]
  BY <1>0, <1>1, <1>2, Replaced
<1>4. Described(c)
  BY <1>0, <1>1 DEF PlanKept, Pending
<1>5. /\ PlanOK(plan) /\ Trial \in Nat /\ Commit \in Nat /\ Taken(plan, Width * Commit + 1)
  BY PlanReady DEF IInv, CInv
<1>6. OpsOK(ops) /\ Fits(ops)
  BY <1>4 DEF Described
<1>7. Len(ops) \in Nat /\ DOMAIN ops = 1..Len(ops) /\ 1 \in DOMAIN ops /\ Len(ops) < Width
  BY <1>6, FitsIs
<1>8. PICK t \in 0..Trial :
         /\ Taken(plan, Width * t) /\ Goes(plan, ops, t)
         /\ old = [n \in DOMAIN ops |-> Change(Run(plan, ops, t)[n - 1], Run(plan, ops, t)[n])]
  BY <1>1, <1>4 DEF Described
<1>9. t \in Nat /\ Taken(plan, Width * t + 1)
  <2>1. t \in Nat
    BY <1>5
  <2>2. Width * t \in Int /\ Width * t + 1 \in Int /\ Width * t <= Width * t + 1
    BY <2>1 DEF Width
  <2> QED BY <1>5, <1>8, <2>1, <2>2, Later
<1> DEFINE v == Run(plan, ops, t)
<1>10. \A n \in 0..Len(ops) : seen[n] = v[n]
  <2> HIDE DEF v, ops, old
  <2>1. \A n \in DOMAIN ops : old[n] = Change(v[n - 1], v[n])
    BY <1>8 DEF v, ops, old
  <2>2. \A n \in DOMAIN ops : old[n].before = v[n - 1] /\ old[n].after = v[n]
    BY <2>1, ChangeIs
  <2>3. old[1].before = v[0]
    BY <1>7, <2>2
  <2> QED BY <1>7, <2>2, <2>3
<1>11. PlanOK(after) /\ Taken(after, Width * (Commit + 1))
  BY <1>1, <1>5, <1>6, <1>7, RunEnds
<1>12. Like(plan', after)
  BY <1>1, WrittenLike
<1> HIDE DEF seen
<1>13. /\ Says(row, plan)
       /\ \A n \in DOMAIN row.ops : PlanOK(row.changes[n].before) /\ PlanOK(row.changes[n].after)
  BY <1>1, <1>2, <1>5, <1>6, <1>8, <1>9, <1>10, <1>12, ReboundSays
<1> HIDE DEF after, ops, old, done
<1>14. PlanOK(plan')
  BY <1>1, <1>11, WrittenOK
<1>15. PlanKept'
  <2>1. \A d \in Pending' : d \in Pending /\ log'[d] = log[d]
    BY <1>2, <1>3 DEF Pending
  <2> QED BY <1>0, <1>1, <1>11, <2>1, WriteKeeps
<1>16. VersionsOK'
  <2>1. /\ c \in DOMAIN log' /\ c \notin Applieds(log) /\ log'[c] = row
        /\ \A e \in DOMAIN log' : e # c => e \in DOMAIN log /\ log'[e] = log[e]
    BY <1>1, <1>3 DEF Applieds
  <2>2. OpsOK(row.ops) /\ PlanOK(row.base) /\ PlanOK(row.result) /\ Says(row, row.base)
    BY <1>2, <1>5, <1>6, <1>13, <1>14
  <2> QED BY <1>0, <1>1, <1>2, <1>13, <2>1, <2>2, NewVersion
<1> QED BY <1>15, <1>16 DEF CInv

(* Identities taken later are greater. *)
LEMMA TimesGrow ==
  ASSUME NEW a \in Nat, NEW b \in Nat, a <= b
  PROVE  Width * a \in Int /\ Width * b \in Int /\ Width * a <= Width * b
BY DEF Width

(* The plan stays as it is, and the proposals or all but one that comes.   *)
LEMMA PlanStays ==
  ASSUME IInv, CInv, plan' = plan, clock' \in Nat, clock <= clock',
         \A c \in Pending' : (c \in Pending /\ log'[c] = log[c]) \/ DescribedIn(log'[c], Trial'),
         \A e \in Applieds(log') : e \in Applieds(log) /\ log'[e] = log[e]
  PROVE  CInv'
<1>1. LogOK /\ PlanKept /\ VersionsOK /\ clock \in Nat
  BY DEF IInv, CInv, LogOK
<1>2. Trial \in Nat /\ Trial' \in Nat /\ Trial <= Trial'
  BY <1>1, TrialGrows
<1>3. PlanOK(plan') /\ Taken(plan', Width * Trial')
  <2>1. Width * Trial \in Int /\ Width * Trial' \in Int /\ Width * Trial <= Width * Trial'
    BY <1>2, TimesGrow
  <2>2. PlanOK(plan) /\ Taken(plan, Width * Trial)
    BY DEF CInv, PlanKept
  <2> QED BY <2>1, <2>2, Later
<1>4. \A c \in Pending' : Described(c)'
  BY <1>1, DescribedStay
<1>5. VersionsOK'
  BY <1>1, SameVersions
<1> QED BY <1>3, <1>4, <1>5 DEF CInv, PlanKept

LEMMA SameLogTells ==
  ASSUME IInv, CInv, plan' = plan, log' = log, clock' \in Nat, clock <= clock'
  PROVE  CInv'
BY PlanStays DEF Pending, Applieds

LEMMA RecordTells ==
  ASSUME IInv, CInv, NEW i, Record(i)
  PROVE  CInv'
<1>1. log' = log /\ plan' = plan /\ Tick
  BY DEF Record
<1>2. clock' \in Nat /\ clock <= clock'
  BY <1>1, TickIs DEF IInv
<1> QED BY <1>1, <1>2, SameLogTells

LEMMA DropUndoTells ==
  ASSUME IInv, CInv, NEW c \in DOMAIN log, DropUndo(c)
  PROVE  CInv'
<1>1. PICK status \in {"rejected", "expired"} : log' = [log EXCEPT ![c].status = status]
  BY DEF DropUndo
<1> DEFINE row == [log[c] EXCEPT !.status = status]
<1>2. log' = [log EXCEPT ![c] = row] /\ plan' = plan /\ clock' = clock /\ clock \in Nat
  BY <1>1 DEF DropUndo, IInv, LogOK
<1>3. DOMAIN row = Fields /\ row.status = status
  BY DEF IInv, LogOK, Fields
<1> HIDE DEF row
<1>4. DOMAIN log' = DOMAIN log /\ \A e \in DOMAIN log : log'[e] = IF e = c THEN row ELSE log[e]
  BY <1>2, <1>3, Replaced DEF IInv
<1>5. \A e \in Applieds(log') : e \in Applieds(log) /\ log'[e] = log[e]
  BY <1>3, <1>4 DEF Applieds
<1>6. \A d \in Pending' : d \in Pending /\ log'[d] = log[d]
  BY <1>3, <1>4 DEF Pending
<1>7. clock' \in Nat /\ clock <= clock'
  BY <1>2
<1> QED BY <1>2, <1>5, <1>6, <1>7, PlanStays

LEMMA ProposeTells ==
  ASSUME IInv, CInv, NEW e \in DOMAIN log, NEW chosen \in SUBSET DOMAIN log[e].ops, ProposeUndo(e, chosen)
  PROVE  CInv'
<1> DEFINE new == Len(log) + 1
           ops == InverseOps(e, chosen)
           seen == Run(plan, ops, Trial)
           changes == [n \in DOMAIN ops |-> Change(seen[n - 1], seen[n])]
           row == [status |-> "pending", of |-> e, chosen |-> chosen, from |-> InverseFrom(e, chosen),
                   ops |-> ops, changes |-> changes,
                   base |-> plan, at |-> 0, result |-> plan]
<1>1. /\ log' = Append(log, row) /\ plan' = plan /\ clock' = clock /\ clock \in Nat
      /\ log[e].status = "applied" /\ Fits(ops) /\ Goes(plan, ops, Trial)
  BY DEF ProposeUndo, Undoable, IInv, LogOK
<1>2. /\ DOMAIN row = Fields /\ row.status = "pending" /\ row.ops = ops /\ row.changes = changes
      /\ row.base = plan
  BY DEF Fields
<1> HIDE DEF row, new
<1>3. /\ DOMAIN log' = 1..(Len(log) + 1) /\ Len(log) \in Nat /\ DOMAIN log = 1..Len(log)
      /\ new = Len(log) + 1 /\ \A d \in DOMAIN log : log'[d] = log[d]
      /\ log'[new] = row
  BY <1>1, <1>2, Appended, LogFacts DEF IInv, new
<1>4. DOMAIN log' = DOMAIN log \cup {new}
  BY <1>3
<1>5. \A d \in Applieds(log') : d \in Applieds(log) /\ log'[d] = log[d]
  BY <1>2, <1>3, <1>4 DEF Applieds
<1>6. Trial' = Trial /\ Trial \in Nat /\ PlanOK(plan) /\ Taken(plan, Width * Trial)
  BY <1>1, PlanReady DEF IInv, CInv, PlanKept, Trial
<1>7. DescribedIn(row, Trial)
  <2>1. OpsOK(log[e].ops) /\ \A n \in DOMAIN log[e].ops : PlanOK(Was(e, n))
    BY <1>1 DEF CInv, VersionsOK, Versions
  <2>2. OpsOK(ops)
    BY <2>1, InverseIs
  <2>3. Trial \in 0..Trial
    BY <1>6
  <2>4. row.changes = [n \in DOMAIN row.ops |-> Change(Run(row.base, row.ops, Trial)[n - 1], Run(row.base, row.ops, Trial)[n])]
    BY <1>2
  <2> HIDE DEF ops, changes
  <2> QED BY <1>1, <1>2, <1>6, <2>2, <2>3, <2>4 DEF DescribedIn
<1> HIDE DEF ops
<1>8. \A d \in Pending' : (d \in Pending /\ log'[d] = log[d]) \/ DescribedIn(log'[d], Trial')
  BY <1>3, <1>4, <1>6, <1>7 DEF Pending
<1>9. clock' \in Nat /\ clock <= clock'
  BY <1>1
<1> QED BY <1>1, <1>5, <1>8, <1>9, PlanStays

LEMMA TellsInit == Init => CInv
<1> SUFFICES ASSUME Init PROVE CInv
  OBVIOUS
<1>1. log = <<>> /\ DOMAIN log = {} /\ plan.items = Start.items /\ plan.links = Start.links /\ clock = 1
  BY DEF Init
<1>2. PlanOK(plan)
  BY <1>1, StartAssumption DEF Init, PlanOK, IsPlan, Items
<1>3. Taken(plan, Width * Trial)
  <2>1. Taken(plan, Width)
    BY <1>1, StartAssumption DEF Taken
  <2>2. Width \in Int /\ Width * Trial \in Int /\ Width <= Width * Trial
    BY <1>1 DEF Width, Trial
  <2> QED BY <1>2, <2>1, <2>2, Later
<1>4. VersionsOK
  BY <1>1 DEF VersionsOK, Versions
<1> QED BY <1>1, <1>2, <1>3, <1>4 DEF CInv, PlanKept, Pending

LEMMA TellsNext == IInv /\ CInv /\ [Next]_vars => CInv'
<1> SUFFICES ASSUME IInv, CInv, [Next]_vars PROVE CInv'
  OBVIOUS
<1>1. CASE UNCHANGED vars
  <2>1. log' = log /\ plan' = plan /\ clock' \in Nat /\ clock <= clock'
    BY <1>1 DEF vars, IInv, LogOK
  <2> QED BY <2>1, SameLogTells
<1>2. CASE Next
  BY <1>2, EditTells, ApproveTells, TemplateTells, RecordTells, CompleteTells, ProposeTells,
     ApplyUndoTells, DropUndoTells DEF Next
<1> QED BY <1>1, <1>2

(* Every version tells what became of the plan it was made on. *)
LEMMA TellsAlways == Spec => [](IInv /\ CInv)
<1>1. IInv /\ CInv /\ [Next]_vars => (IInv /\ CInv)'
  BY InvNext, TellsNext
<1> QED BY <1>1, InvInit, TellsInit, PTL DEF Spec

-----------------------------------------------------------------------------
(* Comparing two versions: induction along the versions between them. *)

(* A set of numbers with an upper bound has a least and a greatest. *)
LEMMA LeastIs ==
  ASSUME NEW m \in Nat, NEW J, J \subseteq 1..m, J # {}
  PROVE  \E j \in J : \A k \in J : j <= k
<1> SUFFICES ASSUME \A j \in J : \E k \in J : ~(j <= k) PROVE FALSE
  OBVIOUS
<1> DEFINE G == {n \in Nat : \A k \in J : n < k}
<1>1. 0 \in G
  OBVIOUS
<1>2. ASSUME NEW n \in Nat, n \in G
      PROVE  n + 1 \in G
  <2>1. \A k \in J : n < k /\ k \in Int
    BY <1>2
  <2>2. n + 1 \notin J
    <3> SUFFICES ASSUME n + 1 \in J PROVE FALSE
      OBVIOUS
    <3>1. PICK k \in J : ~(n + 1 <= k)
      OBVIOUS
    <3> QED BY <2>1, <3>1
  <2>3. \A k \in J : n + 1 < k
    BY <2>1, <2>2
  <2> QED BY <2>3
<1> HIDE DEF G
<1>3. \A n \in Nat : n \in G
  BY <1>1, <1>2, AllNumbers
<1>4. PICK k \in J : TRUE
  OBVIOUS
<1>5. k \in Nat
  BY <1>4
<1>6. k < k
  BY <1>3, <1>5 DEF G
<1> QED BY <1>5, <1>6

LEMMA GreatestIs ==
  ASSUME NEW m \in Nat, NEW J, J \subseteq 1..m, J # {}
  PROVE  \E j \in J : \A k \in J : k <= j
<1> DEFINE H == {m + 1 - k : k \in J}
<1>1. H \subseteq 1..m /\ H # {}
  <2>1. \A k \in J : m + 1 - k \in 1..m
    OBVIOUS
  <2>2. PICK k \in J : TRUE
    OBVIOUS
  <2>3. m + 1 - k \in H
    BY <2>2
  <2> QED BY <2>1, <2>3
<1>2. \A k \in J : m + 1 - k \in H /\ k \in Int
  OBVIOUS
<1>3. \A h \in H : \E k \in J : h = m + 1 - k
  OBVIOUS
<1> HIDE DEF H
<1>4. PICK h \in H : \A l \in H : h <= l
  BY <1>1, LeastIs
<1>5. PICK j \in J : h = m + 1 - j
  BY <1>3
<1>6. ASSUME NEW k \in J
      PROVE  k <= j
  BY <1>2, <1>4, <1>5
<1> QED BY <1>6

-----------------------------------------------------------------------------
(* What is said of one thing: the steps of each version about it, what     *)
(* they say it was and became, and what it is in the version.              *)
Speaks(steps, was, became, val, f, g) ==
  LET J == steps[f]
  IN  /\ J = {} => val[f] = val[g]
      /\ \A j \in J : (\A k \in J : j <= k) => was[<<f, j>>] = val[g]
      /\ \A j \in J : (\A k \in J : k <= j) => became[<<f, j>>] = val[f]

AllSteps(steps, d, e) == UNION {{f} \X steps[f] : f \in Between(d, e)}

IsFirst(p, S) == \A q \in S \ {p} : Earlier(p, q)
IsLast(p, S) == \A q \in S \ {p} : Earlier(q, p)

Compared(steps, was, became, val, d, e) ==
  LET S == AllSteps(steps, d, e)
  IN  /\ S = {} => val[e] = val[d]
      /\ S # {} => (\E p \in S : IsFirst(p, S) /\ was[p] = val[d]) /\ (\E p \in S : IsLast(p, S) /\ became[p] = val[e])

(* The versions up to e are those up to the one before it, and e. *)
LEMMA BetweenGrows ==
  ASSUME \A f \in Versions : log[f].at \in Nat,
         \A f, g \in Versions : log[f].at = log[g].at => f = g,
         NEW d \in Versions, NEW e \in Versions, log[d].at < log[e].at,
         NEW g \in Versions, Follows(e, g)
  PROVE  log[d].at <= log[g].at /\ Between(d, e) = Between(d, g) \cup {e}
<1>1. \A h \in Versions : ~(log[g].at < log[h].at /\ log[h].at < log[e].at) /\ log[g].at < log[e].at
  BY DEF Follows
<1>2. log[d].at <= log[g].at
  BY <1>1
<1>3. ASSUME NEW f
      PROVE  f \in Between(d, e) <=> f \in Between(d, g) \cup {e}
  BY <1>1, <1>2 DEF Between
<1> QED BY <1>2, <1>3

(* When the changes up to one version say what became of a value, and the  *)
(* next one was made on it, the changes up to that one do.                 *)
LEMMA OneMore ==
  ASSUME \A f \in Versions : log[f].at \in Nat /\ IsList(log[f].ops),
         \A f, g \in Versions : log[f].at = log[g].at => f = g,
         NEW steps, \A f \in Versions : steps[f] \subseteq DOMAIN log[f].ops,
         NEW was, NEW became, NEW val,
         NEW d \in Versions, NEW e \in Versions, log[d].at < log[e].at,
         NEW g \in Versions, Follows(e, g),
         Speaks(steps, was, became, val, e, g), Compared(steps, was, became, val, d, g)
  PROVE  Compared(steps, was, became, val, d, e)
<1> DEFINE J == steps[e]
           R == AllSteps(steps, d, g)
           S == AllSteps(steps, d, e)
<1>1. log[d].at <= log[g].at /\ Between(d, e) = Between(d, g) \cup {e}
  BY BetweenGrows
<1>2. S = R \cup ({e} \X J)
  BY <1>1 DEF AllSteps
<1>3. log[g].at < log[e].at
  BY DEF Follows
<1>4. ASSUME NEW q \in R
      PROVE  q[1] \in Versions /\ log[q[1]].at \in Nat /\ log[q[1]].at < log[e].at
  <2>1. PICK f \in Between(d, g) : q \in {f} \X steps[f]
    BY DEF AllSteps
  <2>2. q[1] = f
    BY <2>1
  <2>3. f \in Versions /\ log[f].at <= log[g].at
    BY DEF Between
  <2> QED BY <1>3, <2>2, <2>3
<1>5. Len(log[e].ops) \in Nat /\ J \subseteq 1..Len(log[e].ops)
  BY ListIs
<1> HIDE DEF R, S, J
<1>6. \A q \in R, j \in J : Earlier(q, <<e, j>>)
  BY <1>4 DEF Earlier
<1>7. CASE J = {}
  <2>1. S = R
    BY <1>2, <1>7
  <2>2. val[e] = val[g]
    BY <1>7 DEF Speaks, J
  <2> QED BY <2>1, <2>2 DEF Compared, R, S
<1>8. CASE J # {}
  <2>1. PICK a \in J : \A k \in J : a <= k
    BY <1>5, <1>8, LeastIs
  <2>2. PICK b \in J : \A k \in J : k <= b
    BY <1>5, <1>8, GreatestIs
  <2>3. was[<<e, a>>] = val[g] /\ became[<<e, b>>] = val[e]
    BY <2>1, <2>2 DEF Speaks, J
  <2>4. <<e, a>> \in S /\ <<e, b>> \in S /\ S # {}
    BY <1>2
  <2>5. \A q \in S : q \in R \/ \E j \in J : q = <<e, j>>
    BY <1>2
  <2>6. IsLast(<<e, b>>, S)
    <3> SUFFICES ASSUME NEW q \in S, q # <<e, b>> PROVE Earlier(q, <<e, b>>)
      BY DEF IsLast
    <3>1. CASE q \in R
      BY <1>6, <3>1
    <3>2. ASSUME NEW j \in J, q = <<e, j>>
          PROVE  Earlier(q, <<e, b>>)
      <4>1. j \in Int /\ b \in Int /\ j <= b /\ j # b
        BY <1>5, <2>2, <3>2
      <4> QED BY <3>2, <4>1 DEF Earlier
    <3> QED BY <2>5, <3>1, <3>2
  <2>7. \E p \in S : IsFirst(p, S) /\ was[p] = val[d]
    <3>1. CASE R = {}
      <4>1. val[g] = val[d]
        BY <3>1 DEF Compared, R
      <4>2. IsFirst(<<e, a>>, S)
        <5> SUFFICES ASSUME NEW q \in S, q # <<e, a>> PROVE Earlier(<<e, a>>, q)
          BY DEF IsFirst
        <5>1. PICK j \in J : q = <<e, j>>
          BY <2>5, <3>1
        <5>2. j \in Int /\ a \in Int /\ a <= j /\ j # a
          BY <1>5, <2>1, <5>1
        <5> QED BY <5>1, <5>2 DEF Earlier
      <4> QED BY <2>3, <2>4, <4>1, <4>2
    <3>2. CASE R # {}
      <4>1. PICK p \in R : IsFirst(p, R) /\ was[p] = val[d]
        BY <3>2 DEF Compared, R
      <4>2. IsFirst(p, S)
        BY <1>6, <2>5, <4>1 DEF IsFirst
      <4> QED BY <1>2, <4>1, <4>2
    <3> QED BY <3>1, <3>2
  <2> QED BY <2>3, <2>4, <2>6, <2>7 DEF Compared, S
<1> QED BY <1>7, <1>8

(* So they do between any two versions between which nothing is missing,   *)
(* by induction along the versions.                                        *)
LEMMA CoveredSpeaks ==
  ASSUME \A f \in Versions : log[f].at \in Nat /\ IsList(log[f].ops),
         \A f, g \in Versions : log[f].at = log[g].at => f = g,
         NEW steps, \A f \in Versions : steps[f] \subseteq DOMAIN log[f].ops,
         NEW was, NEW became, NEW val,
         \A f, g \in Versions : log[f].base = log[g].result => Speaks(steps, was, became, val, f, g),
         NEW d \in Versions
  PROVE  \A e \in Versions : log[d].at <= log[e].at /\ Covered(d, e) => Compared(steps, was, became, val, d, e)
<1> DEFINE G == {n \in Nat : \A e \in Versions : log[e].at <= n /\ log[d].at <= log[e].at /\ Covered(d, e) =>
                   Compared(steps, was, became, val, d, e)}
           At(e) == log[e].at
<1>0. \A e \in Versions : At(e) \in Nat
  OBVIOUS
<1>1. ASSUME NEW e \in Versions, At(e) = At(d)
      PROVE  Compared(steps, was, became, val, d, e)
  <2>1. e = d
    BY <1>1
  <2>2. Between(d, d) = {}
    BY <1>0 DEF Between
  <2>3. AllSteps(steps, d, d) = {}
    BY <2>2 DEF AllSteps
  <2> QED BY <2>1, <2>3 DEF Compared
<1>2. 0 \in G
  <2> SUFFICES ASSUME NEW e \in Versions, At(e) <= 0, At(d) <= At(e) PROVE At(e) = At(d)
    BY <1>1
  <2> QED BY <1>0
<1>3. ASSUME NEW n \in Nat, n \in G
      PROVE  n + 1 \in G
  <2> SUFFICES ASSUME NEW e \in Versions, At(e) <= n + 1, At(d) <= At(e), Covered(d, e)
               PROVE  Compared(steps, was, became, val, d, e)
    OBVIOUS
  <2>1. CASE At(d) = At(e)
    BY <1>1, <2>1
  <2>2. CASE At(d) # At(e)
    <3>1. At(d) < At(e)
      BY <1>0, <2>2
    <3>2. e \in Between(d, e)
      BY <1>0, <3>1 DEF Between
    <3>3. PICK g \in Versions : Follows(e, g) /\ log[e].base = log[g].result
      BY <3>2 DEF Covered
    <3>4. At(d) <= At(g) /\ Between(d, e) = Between(d, g) \cup {e}
      BY <3>1, <3>3, BetweenGrows
    <3>5. Covered(d, g)
      BY <3>4 DEF Covered
    <3>6. At(g) <= n
      <4>1. At(g) < At(e)
        BY <3>3 DEF Follows
      <4> HIDE DEF At
      <4> QED BY <1>0, <4>1
    <3>7. Compared(steps, was, became, val, d, g)
      BY <1>3, <3>4, <3>5, <3>6
    <3>8. Speaks(steps, was, became, val, e, g)
      BY <3>3
    <3> HIDE DEF G
    <3> QED BY <3>1, <3>3, <3>7, <3>8, OneMore
  <2> QED BY <2>1, <2>2
<1> HIDE DEF G
<1>4. \A n \in Nat : n \in G
  BY <1>2, <1>3, AllNumbers
<1>5. ASSUME NEW e \in Versions, log[d].at <= log[e].at, Covered(d, e)
      PROVE  Compared(steps, was, became, val, d, e)
  <2>1. log[e].at \in G /\ log[e].at <= log[e].at
    BY <1>4
  <2> QED BY <1>5, <2>1 DEF G
<1> QED BY <1>5

(* The merged change is from the first of them to the last. *)
LEMMA MergedIs ==
  ASSUME NEW S, \A p, q \in S : Earlier(p, q) => ~Earlier(q, p),
         NEW p \in S, IsFirst(p, S), NEW q \in S, IsLast(q, S)
  PROVE  Merged(S).before = Was(p[1], p[2]) /\ Merged(S).after = Became(q[1], q[2])
<1> DEFINE first == CHOOSE x \in S : \A y \in S \ {x} : Earlier(x, y)
           last == CHOOSE x \in S : \A y \in S \ {x} : Earlier(y, x)
<1>1. first = p
  <2>1. first \in S /\ \A y \in S \ {first} : Earlier(first, y)
    BY DEF IsFirst
  <2> HIDE DEF first
  <2> QED BY <2>1 DEF IsFirst
<1>2. last = q
  <2>1. last \in S /\ \A y \in S \ {last} : Earlier(y, last)
    BY DEF IsLast
  <2> HIDE DEF last
  <2> QED BY <2>1 DEF IsLast
<1>3. Merged(S) = Change(Was(first[1], first[2]), Became(last[1], last[2]))
  BY DEF Merged
<1> HIDE DEF first, last
<1> QED BY <1>1, <1>2, <1>3, ChangeIs

(* Of two changes at most one is earlier. *)
LEMMA EarlierOnce ==
  ASSUME NEW p, NEW q, log[p[1]].at \in Nat, log[q[1]].at \in Nat, p[2] \in Int, q[2] \in Int, Earlier(p, q)
  PROVE  ~Earlier(q, p)
BY DEF Earlier

(* A relation as a member of Pairs. *)
Pair(y) == [type |-> "relates_to", source |-> y.source, target |-> y.target]

(* A relation that is not of one item being part of another is one of      *)
(* Pairs.                                                                  *)
LEMMA PairIs ==
  ASSUME NEW y, y.type = "relates_to"
  PROVE  /\ \A s : Related(s, y) = Related(s, Pair(y))
         /\ \A d, e : OfLink(d, e, y) = OfLink(d, e, Pair(y))
<1>1. Pair(y).type = y.type /\ Pair(y).source = y.source /\ Pair(y).target = y.target
  BY DEF Pair
<1>2. \A x : SameLink(x, y) <=> SameLink(x, Pair(y))
  BY <1>1 DEF SameLink
<1> QED BY <1>2 DEF Related, OfLink, LinkSteps

(* What CInv says of the versions. *)
LEMMA VersionFacts ==
  ASSUME CInv
  PROVE  /\ \A f \in Versions : log[f].at \in Nat /\ IsList(log[f].ops)
         /\ \A f, g \in Versions : log[f].at = log[g].at => f = g
         /\ \A f, g \in Versions : log[f].base = log[g].result => Tells(f, log[g].result)
BY DEF CInv, VersionsOK, OpsOK

(* What one comparison shows, for any of the things it shows. *)
Telling(steps, was, became, val) ==
  /\ \A f \in Versions : steps[f] \subseteq DOMAIN log[f].ops
  /\ \A f, g \in Versions : log[f].base = log[g].result => Speaks(steps, was, became, val, f, g)

Shows(S, was, became, val, d, e) ==
  /\ S = {} => val[e] = val[d]
  /\ S # {} => \E p, q \in S : /\ Merged(S).before = Was(p[1], p[2]) /\ was[p] = val[d]
                               /\ Merged(S).after = Became(q[1], q[2]) /\ became[q] = val[e]

(* What is shown of a value between two versions is what it was in the one *)
(* and is in the other.                                                    *)
LEMMA ShownIs ==
  ASSUME CInv, NEW steps, NEW was, NEW became, NEW val, Telling(steps, was, became, val),
         NEW d \in Versions, NEW e \in Versions, log[d].at < log[e].at, Covered(d, e)
  PROVE  Shows(AllSteps(steps, d, e), was, became, val, d, e)
<1> DEFINE S == AllSteps(steps, d, e)
<1>0. /\ \A f \in Versions : steps[f] \subseteq DOMAIN log[f].ops
      /\ \A f, g \in Versions : log[f].base = log[g].result => Speaks(steps, was, became, val, f, g)
  BY DEF Telling
<1>1. log[d].at \in Nat /\ log[e].at \in Nat /\ log[d].at <= log[e].at
  BY VersionFacts
<1>2. Compared(steps, was, became, val, d, e)
  BY <1>0, <1>1, VersionFacts, CoveredSpeaks
<1>3. \A p \in S : log[p[1]].at \in Nat /\ p[2] \in Int
  <2> TAKE p \in S
  <2>1. PICK f \in Between(d, e) : p \in {f} \X steps[f]
    BY DEF AllSteps
  <2>2. p[1] = f /\ p[2] \in steps[f] /\ f \in Versions
    BY <2>1 DEF Between
  <2>3. Len(log[f].ops) \in Nat /\ DOMAIN log[f].ops = 1..Len(log[f].ops)
    BY <2>2, VersionFacts, ListIs
  <2> QED BY <1>0, <2>2, <2>3, VersionFacts
<1> HIDE DEF S
<1>4. \A p, q \in S : Earlier(p, q) => ~Earlier(q, p)
  BY <1>3, EarlierOnce
<1>5. CASE S = {}
  BY <1>2, <1>5 DEF Compared, S, Shows
<1>6. CASE S # {}
  <2>1. PICK p \in S : IsFirst(p, S) /\ was[p] = val[d]
    BY <1>2, <1>6 DEF Compared, S
  <2>2. PICK q \in S : IsLast(q, S) /\ became[q] = val[e]
    BY <1>2, <1>6 DEF Compared, S
  <2>3. Merged(S).before = Was(p[1], p[2]) /\ Merged(S).after = Became(q[1], q[2])
    BY <1>4, <2>1, <2>2, MergedIs
  <2> QED BY <1>6, <2>1, <2>2, <2>3 DEF S, Shows
<1> QED BY <1>5, <1>6 DEF S, Shows

(* An item, and a relation, between two versions. *)
LEMMA ComparesItem ==
  ASSUME CInv, NEW d \in Versions, NEW e \in Versions, log[d].at < log[e].at, Covered(d, e), NEW i \in 1..Size
  PROVE  LET S == OfItem(d, e, i)
             old == log[d].result
             new == log[e].result
         IN  /\ S = {} => Seen(old, i) = Seen(new, i)
             /\ S # {} => Seen(Merged(S).before, i) = Seen(old, i) /\ Seen(Merged(S).after, i) = Seen(new, i)
<1> DEFINE P == {p \in Versions \X Int : TRUE}
           steps == [f \in Versions |-> ItemSteps(f, i)]
           was == [p \in P |-> Seen(Was(p[1], p[2]), i)]
           became == [p \in P |-> Seen(Became(p[1], p[2]), i)]
           val == [f \in Versions |-> Seen(log[f].result, i)]
           S == AllSteps(steps, d, e)
<1>1. \A f \in Versions : /\ steps[f] = ItemSteps(f, i) /\ steps[f] \subseteq DOMAIN log[f].ops
                          /\ val[f] = Seen(log[f].result, i)
  BY DEF ItemSteps
<1>2. \A f \in Versions : DOMAIN log[f].ops \subseteq Int
  <2> TAKE f \in Versions
  <2>1. Len(log[f].ops) \in Nat /\ DOMAIN log[f].ops = 1..Len(log[f].ops)
    BY VersionFacts, ListIs
  <2> QED BY <2>1
<1>3. \A f \in Versions : \A n \in Int : /\ was[<<f, n>>] = Seen(Was(f, n), i)
                                         /\ became[<<f, n>>] = Seen(Became(f, n), i)
  OBVIOUS
<1>4. \A p \in S : \E f \in Versions : \E n \in Int : p = <<f, n>>
  <2> TAKE p \in S
  <2>1. PICK f \in Between(d, e) : p \in {f} \X steps[f]
    BY DEF AllSteps
  <2>2. f \in Versions /\ p[2] \in Int /\ p = <<f, p[2]>>
    BY <1>1, <1>2, <2>1 DEF Between
  <2> QED BY <2>2
<1>5. S = OfItem(d, e, i)
  <2>1. \A f \in Between(d, e) : steps[f] = ItemSteps(f, i)
    BY DEF Between
  <2> HIDE DEF steps
  <2> QED BY <2>1 DEF AllSteps, OfItem
<1> HIDE DEF steps, was, became, val, S, P
<1>6. ASSUME NEW f \in Versions, NEW g \in Versions, log[f].base = log[g].result
      PROVE  Speaks(steps, was, became, val, f, g)
  <2>1. TellsItem(f, i, log[g].result)
    BY <1>6, VersionFacts DEF Tells
  <2>2. \A j \in ItemSteps(f, i) : j \in Int
    BY <1>1, <1>2
  <2> QED BY <1>1, <1>3, <2>1, <2>2 DEF TellsItem, Speaks
<1>7. /\ S = {} => val[e] = val[d]
      /\ S # {} => \E p, q \in S :
                  /\ Merged(S).before = Was(p[1], p[2]) /\ was[p] = val[d]
                  /\ Merged(S).after = Became(q[1], q[2]) /\ became[q] = val[e]
  <2>1. \A f \in Versions : steps[f] \subseteq DOMAIN log[f].ops
    BY <1>1
  <2>2. Telling(steps, was, became, val)
    BY <1>6, <2>1 DEF Telling
  <2>3. Shows(AllSteps(steps, d, e), was, became, val, d, e)
    BY <2>2, ShownIs
  <2> QED BY <2>3 DEF S, Shows
<1>8. ASSUME S # {}
      PROVE  /\ Seen(Merged(S).before, i) = Seen(log[d].result, i)
             /\ Seen(Merged(S).after, i) = Seen(log[e].result, i)
  <2>1. PICK p, q \in S : /\ Merged(S).before = Was(p[1], p[2]) /\ was[p] = val[d]
                          /\ Merged(S).after = Became(q[1], q[2]) /\ became[q] = val[e]
    BY <1>7, <1>8
  <2>2. was[p] = Seen(Was(p[1], p[2]), i) /\ became[q] = Seen(Became(q[1], q[2]), i)
    BY <1>3, <1>4
  <2> QED BY <1>1, <2>1, <2>2
<1> QED BY <1>1, <1>5, <1>7, <1>8

LEMMA ComparesLink ==
  ASSUME CInv, NEW d \in Versions, NEW e \in Versions, log[d].at < log[e].at, Covered(d, e), NEW y \in Pairs
  PROVE  LET S == OfLink(d, e, y)
             old == log[d].result
             new == log[e].result
         IN  /\ S = {} => Related(old, y) = Related(new, y)
             /\ S # {} => /\ Related(Merged(S).before, y) = Related(old, y)
                          /\ Related(Merged(S).after, y) = Related(new, y)
<1> DEFINE P == {p \in Versions \X Int : TRUE}
           steps == [f \in Versions |-> LinkSteps(f, y)]
           was == [p \in P |-> Related(Was(p[1], p[2]), y)]
           became == [p \in P |-> Related(Became(p[1], p[2]), y)]
           val == [f \in Versions |-> Related(log[f].result, y)]
           S == AllSteps(steps, d, e)
<1>1. \A f \in Versions : /\ steps[f] = LinkSteps(f, y) /\ steps[f] \subseteq DOMAIN log[f].ops
                          /\ val[f] = Related(log[f].result, y)
  BY DEF LinkSteps
<1>2. \A f \in Versions : DOMAIN log[f].ops \subseteq Int
  <2> TAKE f \in Versions
  <2>1. Len(log[f].ops) \in Nat /\ DOMAIN log[f].ops = 1..Len(log[f].ops)
    BY VersionFacts, ListIs
  <2> QED BY <2>1
<1>3. \A f \in Versions : \A n \in Int : /\ was[<<f, n>>] = Related(Was(f, n), y)
                                         /\ became[<<f, n>>] = Related(Became(f, n), y)
  OBVIOUS
<1>4. \A p \in S : \E f \in Versions : \E n \in Int : p = <<f, n>>
  <2> TAKE p \in S
  <2>1. PICK f \in Between(d, e) : p \in {f} \X steps[f]
    BY DEF AllSteps
  <2>2. f \in Versions /\ p[2] \in Int /\ p = <<f, p[2]>>
    BY <1>1, <1>2, <2>1 DEF Between
  <2> QED BY <2>2
<1>5. S = OfLink(d, e, y)
  <2>1. \A f \in Between(d, e) : steps[f] = LinkSteps(f, y)
    BY DEF Between
  <2> HIDE DEF steps
  <2> QED BY <2>1 DEF AllSteps, OfLink
<1> HIDE DEF steps, was, became, val, S, P
<1>6. ASSUME NEW f \in Versions, NEW g \in Versions, log[f].base = log[g].result
      PROVE  Speaks(steps, was, became, val, f, g)
  <2>1. TellsLink(f, y, log[g].result)
    BY <1>6, VersionFacts DEF Tells
  <2>2. \A j \in LinkSteps(f, y) : j \in Int
    BY <1>1, <1>2
  <2> QED BY <1>1, <1>3, <2>1, <2>2 DEF TellsLink, Speaks
<1>7. /\ S = {} => val[e] = val[d]
      /\ S # {} => \E p, q \in S :
                  /\ Merged(S).before = Was(p[1], p[2]) /\ was[p] = val[d]
                  /\ Merged(S).after = Became(q[1], q[2]) /\ became[q] = val[e]
  <2>1. \A f \in Versions : steps[f] \subseteq DOMAIN log[f].ops
    BY <1>1
  <2>2. Telling(steps, was, became, val)
    BY <1>6, <2>1 DEF Telling
  <2>3. Shows(AllSteps(steps, d, e), was, became, val, d, e)
    BY <2>2, ShownIs
  <2> QED BY <2>3 DEF S, Shows
<1>8. ASSUME S # {}
      PROVE  /\ Related(Merged(S).before, y) = Related(log[d].result, y)
             /\ Related(Merged(S).after, y) = Related(log[e].result, y)
  <2>1. PICK p, q \in S : /\ Merged(S).before = Was(p[1], p[2]) /\ was[p] = val[d]
                          /\ Merged(S).after = Became(q[1], q[2]) /\ became[q] = val[e]
    BY <1>7, <1>8
  <2>2. was[p] = Related(Was(p[1], p[2]), y) /\ became[q] = Related(Became(q[1], q[2]), y)
    BY <1>3, <1>4
  <2> QED BY <1>1, <2>1, <2>2
<1> QED BY <1>1, <1>5, <1>7, <1>8

(* What versions tell is what comparing them shows. *)
LEMMA TellsCompare == CInv => CompareIsTrue
<1> SUFFICES ASSUME CInv, NEW d \in Versions, NEW e \in Versions, log[d].at < log[e].at, Covered(d, e)
             PROVE  LET old == log[d].result
                        new == log[e].result
                        shown(S) == IF S = {} THEN Change(old, old) ELSE Merged(S)
                    IN  /\ \A i \in 1..Size :
                             LET c == shown(OfItem(d, e, i))
                             IN  Seen(c.before, i) = Seen(old, i) /\ Seen(c.after, i) = Seen(new, i)
                        /\ \A y \in old.links \cup new.links :
                             LET c == shown(OfLink(d, e, y))
                             IN  y.type = "part_of" \/
                                   (Related(c.before, y) = Related(old, y) /\ Related(c.after, y) = Related(new, y))
  BY DEF CompareIsTrue
<1> DEFINE old == log[d].result
           new == log[e].result
           shown(S) == IF S = {} THEN Change(old, old) ELSE Merged(S)
<1>1. \A S : /\ S = {} => shown(S).before = old /\ shown(S).after = old
             /\ S # {} => shown(S) = Merged(S)
  BY ChangeIs
<1>2. PlanOK(old) /\ PlanOK(new)
  BY DEF CInv, VersionsOK
<1> HIDE DEF shown, old, new
<1>3. ASSUME NEW i \in 1..Size
      PROVE  Seen(shown(OfItem(d, e, i)).before, i) = Seen(old, i) /\ Seen(shown(OfItem(d, e, i)).after, i) = Seen(new, i)
  BY <1>1, ComparesItem DEF old, new
<1>4. ASSUME NEW y \in old.links \cup new.links, y.type # "part_of"
      PROVE  /\ Related(shown(OfLink(d, e, y)).before, y) = Related(old, y)
             /\ Related(shown(OfLink(d, e, y)).after, y) = Related(new, y)
  <2>1. y.type = "relates_to"
    BY <1>2, <1>4 DEF PlanOK, LinksOK, Posts
  <2>2. y.source \in 1..Size /\ y.target \in 1..Size
    <3>1. \A s : PlanOK(s) => Items(s) \subseteq 1..Size
      <4> SUFFICES ASSUME NEW s, PlanOK(s) PROVE Items(s) \subseteq 1..Size
        OBVIOUS
      <4>1. Len(s.items) \in Nat /\ DOMAIN s.items = 1..Len(s.items) /\ Len(s.items) <= Size
        BY ListIs DEF PlanOK, RowsOK
      <4> QED BY <4>1, BoundAssumption DEF Items
    <3>2. \E s \in {old, new} : y.source \in Items(s) /\ y.target \in Items(s)
      BY <1>2 DEF PlanOK, LinksOK
    <3> QED BY <1>2, <3>1, <3>2
  <2>3. Pair(y) \in Pairs
    BY <2>2 DEF Pair, Pairs
  <2>4. LET S == OfLink(d, e, Pair(y))
        IN  /\ Related(shown(S).before, Pair(y)) = Related(old, Pair(y))
            /\ Related(shown(S).after, Pair(y)) = Related(new, Pair(y))
    BY <1>1, <2>3, ComparesLink DEF old, new
  <2> QED BY <2>1, <2>4, PairIs
<1> QED BY <1>3, <1>4 DEF old, new, shown

(* Comparing two versions between which no write is missing shows every    *)
(* item and every relation as it was in the one and is in the other, and   *)
(* what it does not show is the same in both (CompareIsTrue,               *)
(* history_compare): each entry tells what became of the plan it was made  *)
(* on, and it was made on what the one before it left.                     *)
THEOREM ComparesTruly == Spec => []CompareIsTrue
<1>1. IInv /\ CInv => CompareIsTrue
  BY TellsCompare
<1> QED BY <1>1, TellsAlways, PTL

-----------------------------------------------------------------------------
(* Links through a run: where they come from, and how an item is left      *)
(* without any.                                                            *)

(* Where the links come from that there are after the operations from a to *)
(* b: they are new, or were there.                                         *)
CameFrom(s, t, r) ==
  \A x \in r.links :
    x.id >= t \/ \E y \in s.links : y.id = x.id /\ y.type = x.type /\ y.source = x.source

(* A link of a run was there with the same identity, or has a newer one. *)
LEMMA RunIds ==
  ASSUME NEW s, PlanOK(s), NEW ops, OpsOK(ops), NEW t \in Nat, Taken(s, Width * t + 1), Goes(s, ops, t),
         NEW a \in 0..Len(ops), NEW b \in 0..Len(ops), a <= b
  PROVE  CameFrom(Run(s, ops, t)[a], Width * t + a + 1, Run(s, ops, t)[b])
<1> DEFINE f == Run(s, ops, t)
           m == Len(ops)
           T == Width * t
           G == {k \in 0 .. b - a : CameFrom(f[a], T + a + 1, f[a + k])}
<1>1. m \in Nat /\ T \in Nat /\ b - a \in Nat
  BY ListIs DEF OpsOK, Width
<1>2. \A n \in 1..m : SameIds(f[n - 1], T + n, f[n])
  <2>1. \A n \in 1..m : Does(f[n - 1], ops[n], T + n, f[n])
    BY RunOK
  <2> QED BY <2>1 DEF Does
<1> HIDE DEF f, m, T
<1>3. 0 \in G
  <2>1. a + 0 = a /\ 0 \in 0 .. b - a
    BY <1>1
  <2>2. CameFrom(f[a], T + a + 1, f[a])
    BY DEF CameFrom
  <2> QED BY <2>1, <2>2
<1>4. ASSUME NEW k \in 0 .. (b - a) - 1, k \in G
      PROVE  k + 1 \in G
  <2>1. a + (k + 1) \in 1..m /\ (a + (k + 1)) - 1 = a + k /\ k + 1 \in 0 .. b - a
    BY <1>1 DEF m
  <2>2. SameIds(f[a + k], T + (a + (k + 1)), f[a + (k + 1)])
    BY <1>2, <2>1
  <2>3. T + (a + (k + 1)) >= T + a + 1
    BY <1>1
  <2>4. CameFrom(f[a], T + a + 1, f[a + k])
    BY <1>4
  <2>5. CameFrom(f[a], T + a + 1, f[a + (k + 1)])
    BY <2>2, <2>3, <2>4 DEF CameFrom, SameIds
  <2> QED BY <2>1, <2>5
<1> HIDE DEF G
<1>5. \A k \in 0 .. b - a : k \in G
  BY <1>1, <1>3, <1>4, UpTo
<1>6. b - a \in 0 .. b - a /\ a + (b - a) = b
  BY <1>1
<1>7. b - a \in G
  BY <1>5, <1>6
<1> QED BY <1>6, <1>7 DEF G, f, T

(* Items stay, and what an item is part of or related to that was there at *)
(* first is among the items of then, as long as operations name no others. *)
LEMMA RunNames ==
  ASSUME NEW s, PlanOK(s), NEW ops, OpsOK(ops), NEW t \in Nat, Taken(s, Width * t + 1), Goes(s, ops, t),
         \A n \in DOMAIN ops : Names(ops[n]) \subseteq Items(s)
  PROVE  \A n \in 0..Len(ops) :
           /\ Items(s) \subseteq Items(Run(s, ops, t)[n])
           /\ \A x \in Run(s, ops, t)[n].links : x.source \in Items(s) => x.target \in Items(s)
<1> DEFINE f == Run(s, ops, t)
           m == Len(ops)
           I == Items(s)
           Closed(T) == \A a \in T : a[2] \in I => a[3] \in I
           G == {n \in 0..m : PlanOK(f[n]) /\ I \subseteq DOMAIN Looks(f[n]) /\ Closed(Triples(f[n]))}
<1>1. m \in Nat /\ DOMAIN ops = 1..m
  BY ListIs DEF OpsOK
<1>2. /\ \A n \in 1..m : Does(f[n - 1], ops[n], Width * t + n, f[n])
      /\ \A n \in 0..m : PlanOK(f[n])
  BY RunOK
<1>3. f[0] = s
  BY RunSteps
<1>4. 0 \in G
  <2>1. Closed(Triples(s))
    BY DEF PlanOK, LinksOK, Triples, Triple
  <2>2. I \subseteq DOMAIN Looks(s)
    BY DEF Looks
  <2> HIDE DEF f, m
  <2> QED BY <1>1, <1>3, <2>1, <2>2
<1> HIDE DEF f, m, I
<1>5. ASSUME NEW n \in 0 .. m - 1, n \in G
      PROVE  n + 1 \in G
  <2>1. n + 1 \in 1..m /\ (n + 1) - 1 = n /\ n + 1 \in 0..m
    BY <1>1
  <2> DEFINE op == ops[n + 1]
             g == Looks(f[n])
             T == Triples(f[n])
  <2>2. /\ Triples(f[n + 1]) = Ties(T, op) /\ Looks(f[n + 1]) = Sights(g, op)
        /\ op.kind = "create" => op.item = Len(f[n].items) + 1
        /\ PlanOK(f[n]) /\ PlanOK(f[n + 1]) /\ Names(op) \subseteq I /\ op.kind \in OperationKinds
    BY <1>1, <1>2, <1>5, <2>1 DEF Does, I, OpsOK
  <2>3. I \subseteq DOMAIN g /\ Closed(T)
    BY <1>5
  <2>4. op.kind = "create" => op.item \notin I
    <3>1. DOMAIN f[n].items = 1..Len(f[n].items) /\ Len(f[n].items) \in Nat /\ DOMAIN g = DOMAIN f[n].items
      BY <2>2, ListIs DEF PlanOK, RowsOK, Looks, Items
    <3> QED BY <2>2, <2>3, <3>1
  <2> HIDE DEF op, g, T
  <2>5. I \subseteq DOMAIN Sights(g, op)
    BY <2>3 DEF Sights
  <2>6. Closed(Ties(T, op))
    <3>1. CASE op.kind = "create"
      <4>1. Ties(T, op) \subseteq T \cup {<<"part_of", op.item, op.to>>}
        BY <3>1 DEF Ties, Posts
      <4> QED BY <2>3, <2>4, <3>1, <4>1
    <3>2. CASE op.kind \in Posts
      <4>1. Ties(T, op) = T \cup {<<op.kind, op.item, op.to>>}
        BY <3>2 DEF Ties, Posts
      <4>2. \A x \in T : x[2] \in I => x[3] \in I
        BY <2>3
      <4>3. ASSUME op.to # NULL
            PROVE  op.to \in I
        BY <2>2, <3>2, <4>3 DEF Names
      <4>4. op.to # NULL
        <5>1. <<op.kind, op.item, op.to>> \in Triples(f[n + 1])
          BY <2>2, <4>1
        <5>2. PICK x \in f[n + 1].links : Triple(x) = <<op.kind, op.item, op.to>>
          BY <5>1 DEF Triples
        <5>3. x.target = op.to
          BY <5>2 DEF Triple
        <5>4. op.to \in DOMAIN f[n + 1].items
          BY <2>2, <5>2, <5>3 DEF PlanOK, LinksOK, Items
        <5>5. DOMAIN f[n + 1].items = 1..Len(f[n + 1].items) /\ Len(f[n + 1].items) \in Nat
          BY <2>2, ListIs DEF PlanOK, RowsOK
        <5> QED BY <5>4, <5>5, NullAssumption
      <4> QED BY <4>1, <4>2, <4>3, <4>4
    <3>3. CASE op.kind = "move"
      <4>1. Ties(T, op) \subseteq T \cup (IF op.to = NULL THEN {} ELSE {<<"part_of", op.item, op.to>>})
        BY <3>3 DEF Ties, Posts
      <4>2. op.to # NULL => op.to \in I
        BY <2>2, <3>3 DEF Names
      <4> QED BY <2>3, <4>1, <4>2
    <3>4. CASE op.kind \in Patches \cup {"unlink"}
      <4>1. Ties(T, op) \subseteq T
        BY <3>4 DEF Ties, Posts, Patches
      <4> QED BY <2>3, <4>1
    <3> QED BY <2>2, <3>1, <3>2, <3>3, <3>4 DEF OperationKinds
  <2>7. PlanOK(f[n + 1]) /\ I \subseteq DOMAIN Looks(f[n + 1]) /\ Closed(Triples(f[n + 1]))
    BY <2>2, <2>5, <2>6
  <2> QED BY <2>1, <2>7
<1> HIDE DEF G
<1>6. \A n \in 0..m : n \in G
  BY <1>1, <1>4, <1>5, UpTo
<1>7. ASSUME NEW n \in 0..m
      PROVE  I \subseteq Items(f[n]) /\ \A x \in f[n].links : x.source \in I => x.target \in I
  <2>1. I \subseteq DOMAIN Looks(f[n]) /\ Closed(Triples(f[n]))
    BY <1>6 DEF G
  <2>2. \A x \in f[n].links : Triple(x) \in Triples(f[n]) /\ Triple(x)[2] = x.source /\ Triple(x)[3] = x.target
    BY DEF Triples, Triple
  <2> QED BY <2>1, <2>2 DEF Looks
<1> QED BY <1>7 DEF f, m, I

(* Operations that link nothing to item i and take away all that is linked *)
(* to it leave nothing.                                                    *)
LEMMA RunClears ==
  ASSUME NEW s, PlanOK(s), NEW ops, OpsOK(ops), NEW t \in Nat, Taken(s, Width * t + 1), Goes(s, ops, t),
         NEW i, \A n \in DOMAIN ops : /\ ops[n].kind # "create"
                                      /\ ops[n].kind \in Posts \cup {"move"} => i \notin Names(ops[n]),
         \A x \in Touching(s, i) : Unlinks(ops, x)
  PROVE  Touching(Result(s, ops, t), i) = {}
<1> DEFINE f == Run(s, ops, t)
           m == Len(ops)
           On(a) == i = a[2] \/ i = a[3]
           Left(n) == \A a \in Triples(f[n]) : On(a) =>
                         /\ a \in Triples(s)
                         /\ \A k \in 1..n : ops[k].kind = "unlink" => Tie(ops[k]) # a
           G == {n \in 0..m : Left(n)}
<1>1. m \in Nat /\ DOMAIN ops = 1..m /\ \A n \in 1..m : ops[n].kind \in OperationKinds
  BY ListIs DEF OpsOK
<1>2. \A n \in 1..m : Does(f[n - 1], ops[n], Width * t + n, f[n])
  BY RunOK
<1>3. f[0] = s
  BY RunSteps
<1>4. Result(s, ops, t) = f[m]
  BY DEF Result
<1> HIDE DEF f, m
<1>5. 0 \in G
  BY <1>1, <1>3
<1>6. ASSUME NEW n \in 0 .. m - 1, n \in G
      PROVE  n + 1 \in G
  <2>1. n + 1 \in 1..m /\ (n + 1) - 1 = n /\ n + 1 \in 0..m
    BY <1>1
  <2> DEFINE op == ops[n + 1]
             T == Triples(f[n])
             U == Triples(f[n + 1])
  <2>2. /\ U = Ties(T, op) /\ op.kind \in OperationKinds /\ op.kind # "create"
        /\ op.kind \in Posts \cup {"move"} => i \notin Names(op)
        /\ PlanOK(f[n + 1])
    BY <1>1, <1>2, <2>1 DEF Does
  <2>3. Left(n)
    BY <1>6
  <2>4. \A a \in U : On(a) => a \in T /\ (op.kind = "unlink" => Tie(op) # a)
    <3> HIDE DEF op, T
    <3>1. CASE op.kind \in Posts
      <4>1. U = T \cup {<<op.kind, op.item, op.to>>}
        BY <2>2, <3>1 DEF Ties, Posts
      <4>2. i \notin {op.item} /\ i \notin {op.to} \ {NULL}
        BY <2>2, <3>1 DEF Names, Posts
      <4>3. op.to # NULL
        <5>1. <<op.kind, op.item, op.to>> \in U
          BY <4>1
        <5>2. PICK x \in f[n + 1].links : Triple(x) = <<op.kind, op.item, op.to>>
          BY <5>1 DEF Triples
        <5>3. x.target = op.to
          BY <5>2 DEF Triple
        <5>4. op.to \in DOMAIN f[n + 1].items
          BY <2>2, <5>2, <5>3 DEF PlanOK, LinksOK, Items
        <5>5. DOMAIN f[n + 1].items = 1..Len(f[n + 1].items) /\ Len(f[n + 1].items) \in Nat
          BY <2>2, ListIs DEF PlanOK, RowsOK
        <5> QED BY <5>4, <5>5, NullAssumption
      <4>4. op.kind # "unlink"
        BY <3>1 DEF Posts
      <4> QED BY <4>1, <4>2, <4>3, <4>4
    <3>2. CASE op.kind = "move"
      <4>1. U \subseteq T \cup (IF op.to = NULL THEN {} ELSE {<<"part_of", op.item, op.to>>})
        BY <2>2, <3>2 DEF Ties, Posts
      <4>2. i # op.item /\ i \notin {op.to} \ {NULL}
        BY <2>2, <3>2 DEF Names
      <4> QED BY <3>2, <4>1, <4>2
    <3>3. CASE op.kind = "unlink"
      <4>1. U = T \ {<<op.type, op.item, op.to>>} /\ Tie(op) = <<op.type, op.item, op.to>>
        BY <2>2, <3>3 DEF Ties, Posts, Tie
      <4> QED BY <4>1
    <3>4. CASE op.kind \in Patches
      <4>1. U = T /\ op.kind # "unlink"
        BY <2>2, <3>4 DEF Ties, Posts, Patches
      <4> QED BY <4>1
    <3> QED BY <2>2, <3>1, <3>2, <3>3, <3>4 DEF OperationKinds
  <2>5. \A k \in 1 .. n + 1 : k \in 1..n \/ k = n + 1
    BY <1>1
  <2> HIDE DEF op, T, U, On
  <2>6. Left(n + 1)
    BY <2>3, <2>4, <2>5 DEF op, T, U
  <2> QED BY <2>1, <2>6
<1> HIDE DEF G
<1>7. m \in G
  <2>1. \A n \in 0..m : n \in G
    BY <1>1, <1>5, <1>6, UpTo
  <2> QED BY <1>1, <2>1
<1>8. ASSUME NEW x \in Touching(f[m], i)
      PROVE  FALSE
  <2>1. Triple(x) \in Triples(f[m]) /\ On(Triple(x))
    BY DEF Touching, Triples, Triple
  <2>2. Triple(x) \in Triples(s) /\ \A k \in 1..m : ops[k].kind = "unlink" => Tie(ops[k]) # Triple(x)
    BY <1>7, <2>1 DEF G
  <2>3. PICK y \in s.links : Triple(y) = Triple(x)
    BY <2>2 DEF Triples
  <2>4. y.type = x.type /\ y.source = x.source /\ y.target = x.target
    BY <2>3 DEF Triple
  <2>5. Unlinks(ops, y)
    BY <2>4 DEF Touching
  <2>6. PICK k \in 1..m : /\ ops[k].kind = "unlink" /\ ops[k].type = y.type
                          /\ ops[k].item = y.source /\ ops[k].to = y.target
    BY <1>1, <2>5 DEF Unlinks
  <2>7. Tie(ops[k]) = Triple(y)
    BY <2>6 DEF Tie, Triple
  <2> QED BY <2>2, <2>3, <2>6, <2>7
<1> QED BY <1>4, <1>8

-----------------------------------------------------------------------------
(* DInv: an undone creation leaves nothing linked to the item. *)

(* MadeWith, MadeAlone and TakenAway of an entry. *)
MadeWithIn(row, p, trial) ==
  \A n \in DOMAIN row.ops : row.ops[n].kind = "create" =>
    \A y \in RowAfter(row, n) :
      /\ y.id \in Int /\ y.id < Width * trial
      /\ \A x \in p.links : x.id = y.id => x.type = "part_of" /\ x.source = y.source

MadeAloneIn(row) ==
  \A n, k \in DOMAIN row.ops : row.ops[n].kind = "create" /\ row.ops[k].kind \in {"move", "unlink"} =>
    /\ row.ops[k].item # row.ops[n].item
    /\ \A x \in RowBefore(row, k) : row.ops[n].item \notin {x.source, x.target}

TakesAway(row, of) ==
  /\ row.chosen \subseteq DOMAIN of.ops
  /\ \A n \in DOMAIN row.ops : row.ops[n].kind # "create"
  /\ \A n \in row.chosen : of.ops[n].kind = "create" =>
       /\ \A x \in Touching(row.base, of.ops[n].item) : Unlinks(row.ops, x)
       /\ \A m \in DOMAIN row.ops : row.ops[m].kind \in Posts \cup {"move"} => of.ops[n].item \notin Names(row.ops[m])

TakenAwayIn(L) ==
  \A c \in DOMAIN L : L[c].status = "pending" =>
    L[c].of \in Applieds(L) /\ TakesAway(L[c], L[L[c].of])

(* MadeWith, MadeAlone and TakenAway, now and after a step. *)
LEMMA MadeWithAre ==
  /\ MadeWith <=> \A e \in Applieds(log) : MadeWithIn(log[e], plan, Trial)
  /\ MadeWith' <=> \A e \in Applieds(log') : MadeWithIn(log'[e], plan', Trial')
BY RowLinks DEF MadeWith, MadeWithIn, Created, Op, Versions, Applieds

LEMMA MadeAloneAre ==
  /\ MadeAlone <=> \A e \in Applieds(log) : MadeAloneIn(log[e])
  /\ MadeAlone' <=> \A e \in Applieds(log') : MadeAloneIn(log'[e])
BY RowLinks DEF MadeAlone, MadeAloneIn, Created, Op, Versions, Applieds

LEMMA TakenAwayAre ==
  (TakenAway <=> TakenAwayIn(log)) /\ (TakenAway' <=> TakenAwayIn(log'))
<1>1. TakenAway <=> TakenAwayIn(log)
  BY DEF TakenAway, TakenAwayIn, TakesAway, Pending, Created, Op, Versions, Applieds
<1>2. TakenAway' <=> TakenAwayIn(log')
  BY DEF TakenAway, TakenAwayIn, TakesAway, Pending, Created, Op, Versions, Applieds
<1> QED BY <1>1, <1>2

(* It stays so for the proposals there are, because no version changes.    *)
LEMMA TakenAwayStay ==
  ASSUME TakenAway, \A e \in Applieds(log) : e \in Applieds(log') /\ log'[e] = log[e],
         \A c \in Pending' :
           \/ c \in Pending /\ log'[c] = log[c]
           \/ log'[c].of \in Applieds(log') /\ TakesAway(log'[c], log'[log'[c].of])
  PROVE  TakenAway'
<1>1. TakenAwayIn(log)
  BY TakenAwayAre
<1>2. ASSUME NEW c \in Pending, log'[c] = log[c]
      PROVE  log'[c].of \in Applieds(log') /\ TakesAway(log'[c], log'[log'[c].of])
  <2>1. log[c].of \in Applieds(log) /\ TakesAway(log[c], log[log[c].of])
    BY <1>1, <1>2 DEF TakenAwayIn, Pending
  <2> QED BY <1>2, <2>1
<1>3. TakenAwayIn(log')
  BY <1>2 DEF TakenAwayIn, Pending
<1> QED BY <1>3, TakenAwayAre

-----------------------------------------------------------------------------
(* The link an item was made with, when nothing but a link with the same   *)
(* type and source can have its identity at the end of the run.            *)
LEMMA MadeWithNew ==
  ASSUME NEW row, NEW p, NEW r, p.links = r.links, PlanOK(r), NEW trial \in Nat,
         \A n \in DOMAIN row.ops : row.ops[n].kind = "create" =>
           \E N \in Int : /\ PlanOK(row.changes[n].after) /\ Taken(row.changes[n].after, N)
                          /\ N <= Width * trial /\ CameFrom(row.changes[n].after, N, r)
  PROVE  MadeWithIn(row, p, trial)
<1> SUFFICES ASSUME NEW n \in DOMAIN row.ops, row.ops[n].kind = "create", NEW y \in RowAfter(row, n)
             PROVE  /\ y.id \in Int /\ y.id < Width * trial
                    /\ \A x \in p.links : x.id = y.id => x.type = "part_of" /\ x.source = y.source
  BY DEF MadeWithIn
<1> DEFINE q == row.changes[n].after
<1>1. PICK N \in Int : PlanOK(q) /\ Taken(q, N) /\ N <= Width * trial /\ CameFrom(q, N, r)
  OBVIOUS
<1>2. y \in q.links /\ y.type = "part_of"
  BY DEF RowAfter, Parent, In!PartOf, Posts
<1> HIDE DEF q
<1>3. y.id \in Int /\ y.id < N /\ Width * trial \in Int
  BY <1>1, <1>2 DEF PlanOK, LinksOK, Taken, Width
<1>4. y.id < Width * trial
  BY <1>1, <1>3
<1>5. ASSUME NEW x \in p.links, x.id = y.id
      PROVE  x.type = "part_of" /\ x.source = y.source
  <2>1. ~(x.id >= N)
    BY <1>3, <1>5
  <2>2. PICK z \in q.links : z.id = x.id /\ z.type = x.type /\ z.source = x.source
    BY <1>1, <2>1 DEF CameFrom
  <2>3. z = y
    BY <1>1, <1>2, <1>5, <2>2 DEF PlanOK, LinksOK
  <2> QED BY <1>2, <2>2, <2>3
<1> QED BY <1>3, <1>4, <1>5

(* A write keeps DInv when what it made was made with a link of its own. *)
LEMMA WriteDangles ==
  ASSUME LogOK, DInv, Tick, NEW r, NEW rows, plan' = Written(r, rows), CameFrom(plan, Width * Trial, r),
         \A c \in Pending' : c \in Pending /\ log'[c] = log[c],
         \A e \in Applieds(log) : e \in Applieds(log') /\ log'[e] = log[e],
         \A e \in Applieds(log') :
           \/ e \in Applieds(log) /\ log'[e] = log[e]
           \/ MadeWithIn(log'[e], plan', Commit + 1) /\ MadeAloneIn(log'[e])
  PROVE  DInv'
<1>1. Trial \in Nat /\ Trial' = Commit + 1 /\ Commit + 1 \in Nat /\ Trial <= Commit + 1
  BY TickIs DEF Trial, Commit
<1>2. plan'.links = r.links /\ MadeWith /\ MadeAlone /\ TakenAway
  BY DEF Written, DInv
<1>3. TakenAway'
  BY <1>2, TakenAwayStay
<1>4. MadeAlone'
  BY <1>2, MadeAloneAre
<1>5. ASSUME NEW e \in Applieds(log)
      PROVE  MadeWithIn(log[e], plan', Trial')
  <2> SUFFICES ASSUME NEW n \in DOMAIN log[e].ops, log[e].ops[n].kind = "create", NEW y \in RowAfter(log[e], n)
               PROVE  /\ y.id \in Int /\ y.id < Width * Trial'
                      /\ \A x \in plan'.links : x.id = y.id => x.type = "part_of" /\ x.source = y.source
    BY DEF MadeWithIn
  <2>1. /\ y.id \in Int /\ y.id < Width * Trial
        /\ \A x \in plan.links : x.id = y.id => x.type = "part_of" /\ x.source = y.source
    BY <1>2, MadeWithAre DEF MadeWithIn
  <2>2. Width * Trial \in Int /\ Width * Trial' \in Int /\ Width * Trial <= Width * Trial'
    BY <1>1, TimesGrow
  <2>3. y.id < Width * Trial'
    BY <2>1, <2>2
  <2>4. ASSUME NEW x \in r.links, x.id = y.id
        PROVE  x.type = "part_of" /\ x.source = y.source
    <3>1. ~(x.id >= Width * Trial)
      BY <2>1, <2>2, <2>4
    <3>2. PICK z \in plan.links : z.id = x.id /\ z.type = x.type /\ z.source = x.source
      BY <3>1 DEF CameFrom
    <3> QED BY <2>1, <2>4, <3>2
  <2> QED BY <1>2, <2>1, <2>3, <2>4
<1>6. MadeWith'
  BY <1>1, <1>5, MadeWithAre
<1> QED BY <1>3, <1>4, <1>6 DEF DInv

(* What a run leaves of the links of the plan. *)
LEMMA ResultCameFrom ==
  ASSUME IInv, CInv, NEW ops, OpsOK(ops), Goes(plan, ops, Commit)
  PROVE  CameFrom(plan, Width * Trial, Result(plan, ops, Commit))
<1> DEFINE r == Result(plan, ops, Commit)
           m == Len(ops)
<1>1. /\ PlanOK(plan) /\ Commit \in Nat /\ Trial \in Nat /\ Commit = Trial + 1 /\ Taken(plan, Width * Commit + 1)
  BY PlanReady DEF IInv, CInv
<1>2. m \in Nat /\ 0 \in 0..m /\ m \in 0..m /\ 0 <= m
  BY ListIs DEF OpsOK
<1>3. Run(plan, ops, Commit)[0] = plan /\ r = Run(plan, ops, Commit)[m]
  BY RunSteps DEF Result
<1>4. CameFrom(plan, Width * Commit + 0 + 1, r)
  BY <1>1, <1>2, <1>3, RunIds
<1> HIDE DEF r
<1>5. ASSUME NEW x \in r.links, x.id >= Width * Commit + 0 + 1, x.id \in Int
      PROVE  x.id >= Width * Trial
  BY <1>1, <1>5 DEF Width
<1>6. PlanOK(r)
  BY <1>1, <1>2, <1>3, RunOK
<1>7. \A x \in r.links : x.id \in Int
  BY <1>6 DEF PlanOK, LinksOK
<1>8. CameFrom(plan, Width * Trial, r)
  BY <1>4, <1>5, <1>7 DEF CameFrom
<1> QED BY <1>8 DEF r

(* A write with an entry of its own. *)
LEMMA EntryDangles ==
  ASSUME IInv, CInv, DInv, Tick, NEW r, NEW rows, plan' = Written(r, rows), CameFrom(plan, Width * Trial, r),
         NEW ops, NEW changes, NEW row, row = Recorded(ops, changes, plan, Now, plan'), log' = Append(log, row),
         MadeWithIn(row, plan', Commit + 1), MadeAloneIn(row)
  PROVE  DInv'
<1>1. DOMAIN row = Fields /\ row.status = "applied"
  BY DEF Recorded, Fields
<1>0. LogOK /\ clock' \in Nat
  BY TickIs DEF IInv
<1>2. /\ DOMAIN log' = 1..(Len(log) + 1) /\ Len(log) \in Nat /\ DOMAIN log = 1..Len(log)
      /\ \A e \in 1..Len(log) : log'[e] = log[e]
      /\ log'[Len(log) + 1] = row
  BY <1>0, <1>1, Appended, LogFacts
<1>3. \A e \in DOMAIN log' : e = Len(log) + 1 \/ (e \in DOMAIN log /\ log'[e] = log[e])
  BY <1>2
<1>4. \A c \in Pending' : c \in Pending /\ log'[c] = log[c]
  BY <1>1, <1>2, <1>3 DEF Pending
<1>5. \A e \in Applieds(log') :
         \/ e \in Applieds(log) /\ log'[e] = log[e]
         \/ MadeWithIn(log'[e], plan', Commit + 1) /\ MadeAloneIn(log'[e])
  BY <1>2, <1>3 DEF Applieds
<1>6. \A e \in Applieds(log) : e \in Applieds(log') /\ log'[e] = log[e]
  BY <1>2 DEF Applieds
<1> QED BY <1>0, <1>4, <1>5, <1>6, WriteDangles

(* All snapshots of what was made are of the plan as it became. *)
LEMMA MadeAtOnce ==
  ASSUME NEW row, NEW r, NEW rows, PlanOK(r), NEW trial \in Nat, Taken(r, Width * trial),
         \A n \in DOMAIN row.ops : row.changes[n].after = r
  PROVE  MadeWithIn(row, Written(r, rows), trial)
<1>1. CameFrom(r, Width * trial, r) /\ Width * trial \in Int /\ Width * trial <= Width * trial
  BY DEF CameFrom, Width
<1>2. Written(r, rows).links = r.links
  BY DEF Written
<1>3. \A n \in DOMAIN row.ops : row.ops[n].kind = "create" =>
         \E N \in Int : /\ PlanOK(row.changes[n].after) /\ Taken(row.changes[n].after, N)
                        /\ N <= Width * trial /\ CameFrom(row.changes[n].after, N, r)
  BY <1>1
<1> QED BY <1>2, <1>3, MadeWithNew

(* DInv in every step. *)
LEMMA EditDangles ==
  ASSUME IInv, CInv, DInv, NEW ops \in Requests, Len(ops) = 1, Edit(ops[1])
  PROVE  DInv'
<1> DEFINE op == ops[1]
           one == <<op>>
           after == Result(plan, one, Commit)
           changes == <<Change(plan, after)>>
           row == Recorded(one, changes, plan, Now, plan')
           rows == Rewrites(plan, op, after)
<1>1. op.kind \in OperationKinds
  BY RequestsAssumption, ListIs
<1>2. OpsOK(one) /\ Len(one) = 1 /\ DOMAIN one = 1..1 /\ one[1] = op
  BY <1>1, TupleIs DEF OpsOK
<1>3. Goes(plan, one, Commit) /\ Tick /\ plan' = Written(after, rows) /\ log' = Append(log, row)
  BY DEF Edit
<1>4. /\ PlanOK(plan) /\ Commit \in Nat /\ Commit + 1 \in Nat /\ Taken(plan, Width * Commit + 1)
  BY PlanReady DEF IInv, CInv
<1>5. PlanOK(after) /\ Taken(after, Width * (Commit + 1))
  <2>1. Len(one) < Width
    BY <1>2 DEF Width
  <2> HIDE DEF one, after
  <2> QED BY <1>2, <1>3, <1>4, <2>1, RunEnds DEF after
<1>6. changes[1].after = after
  BY DEF Change
<1>7. row.ops = one /\ row.changes = changes
  BY DEF Recorded
<1> HIDE DEF one
<1>8. CameFrom(plan, Width * Trial, after)
  BY <1>2, <1>3, ResultCameFrom
<1> HIDE DEF after, changes, row, rows
<1>9. MadeWithIn(row, plan', Commit + 1)
  <2>1. \A n \in DOMAIN row.ops : row.changes[n].after = after
    BY <1>2, <1>6, <1>7
  <2> QED BY <1>3, <1>4, <1>5, <2>1, MadeAtOnce
<1>10. MadeAloneIn(row)
  <2>1. \A n, k \in DOMAIN row.ops : n = k
    BY <1>2, <1>7
  <2> QED BY <2>1 DEF MadeAloneIn
<1> QED BY <1>3, <1>8, <1>9, <1>10, EntryDangles DEF row

LEMMA TemplateDangles ==
  ASSUME IInv, CInv, DInv, NEW ops \in Templates, ApplyTemplate(ops)
  PROVE  DInv'
<1> DEFINE after == Result(plan, ops, Commit)
           made == Derived(plan, after)
           changes == [n \in DOMAIN made |-> Change(plan, after)]
           row == Recorded(made, changes, plan, Now, plan')
<1>1. /\ OpsOK(ops) /\ Len(ops) < Width
  BY TemplatesAssumption DEF OpsOK, OperationKinds
<1>2. Goes(plan, ops, Commit) /\ Tick /\ plan' = Written(after, {}) /\ log' = Append(log, row)
  BY DEF ApplyTemplate
<1>3. PlanOK(plan) /\ Commit \in Nat /\ Commit + 1 \in Nat /\ Taken(plan, Width * Commit + 1)
  BY PlanReady DEF IInv, CInv
<1>4. PlanOK(after) /\ Taken(after, Width * (Commit + 1))
  BY <1>1, <1>2, <1>3, RunEnds
<1>5. CameFrom(plan, Width * Trial, after)
  BY <1>1, <1>2, ResultCameFrom
<1>6. row.ops = made /\ row.changes = changes
  BY DEF Recorded
<1> HIDE DEF after, row
<1>7. \A n \in DOMAIN made : changes[n].after = after
  BY DEF Change
<1>8. \A n \in DOMAIN made : made[n].kind \in Posts \cup {"create"}
  BY <1>4, DerivedLists
<1> HIDE DEF changes, made
<1>9. MadeWithIn(row, plan', Commit + 1)
  BY <1>2, <1>3, <1>4, <1>6, <1>7, MadeAtOnce
<1>10. MadeAloneIn(row)
  BY <1>6, <1>8 DEF MadeAloneIn, Posts
<1> QED BY <1>2, <1>5, <1>9, <1>10, EntryDangles DEF row

(* What rebind_committed_change leaves of the snapshots of the preview. *)
LEMMA ReboundIs ==
  ASSUME NEW ops, NEW seen, NEW done, NEW n \in DOMAIN ops
  PROVE  LET c == Rebound(ops, seen, done)[n]
         IN  /\ c.before = seen[n - 1]
             /\ ops[n].kind = "create" => c.after = done[n]
<1> DEFINE b == seen[n - 1]
           a == IF ops[n].kind \in Posts \cup {"create", "move"} THEN done[n] ELSE seen[n]
<1>1. Rebound(ops, seen, done)[n] = Change(b, a)
  BY DEF Rebound
<1>2. ops[n].kind = "create" => a = done[n]
  OBVIOUS
<1> HIDE DEF a, b
<1>3. Change(b, a).before = b /\ Change(b, a).after = a
  BY ChangeIs
<1> QED BY <1>1, <1>2, <1>3 DEF b

(* What a change set made is new to the plan, and what else it does is to  *)
(* what was there.                                                         *)
LEMMA ApproveAlone ==
  ASSUME NEW s, PlanOK(s), NEW ops, OpsOK(ops), NEW t \in Nat, Taken(s, Width * t + 1), Goes(s, ops, t),
         \A n \in DOMAIN ops : Names(ops[n]) \subseteq Items(s),
         NEW row, row.ops = ops,
         \A n \in DOMAIN ops : row.changes[n].before = Run(s, ops, t)[n - 1]
  PROVE  MadeAloneIn(row)
<1> DEFINE f == Run(s, ops, t)
           m == Len(ops)
           I == Items(s)
<1>1. m \in Nat /\ DOMAIN ops = 1..m
  BY ListIs DEF OpsOK
<1>2. /\ \A n \in 1..m : Does(f[n - 1], ops[n], Width * t + n, f[n])
      /\ \A n \in 0..m : PlanOK(f[n])
  BY RunOK
<1>3. \A n \in 0..m : I \subseteq Items(f[n]) /\ \A x \in f[n].links : x.source \in I => x.target \in I
  BY RunNames
<1>4. \A n \in 1..m : row.changes[n].before = f[n - 1]
  BY <1>1
<1>5. \A n \in 1..m : n - 1 \in 0..m
  BY <1>1
<1> HIDE DEF f, m, I
<1>6. ASSUME NEW n \in 1..m, ops[n].kind = "create"
      PROVE  ops[n].item \notin I
  <2>1. ops[n].item = Len(f[n - 1].items) + 1 /\ PlanOK(f[n - 1]) /\ I \subseteq Items(f[n - 1])
    BY <1>2, <1>3, <1>5, <1>6 DEF Does
  <2>2. Items(f[n - 1]) = 1..Len(f[n - 1].items) /\ Len(f[n - 1].items) \in Nat
    BY <2>1, ListIs DEF PlanOK, RowsOK, Items
  <2> QED BY <2>1, <2>2
<1>7. ASSUME NEW k \in 1..m, ops[k].kind \in {"move", "unlink"}
      PROVE  /\ ops[k].item \in I
             /\ \A x \in RowBefore(row, k) : x.source \in I /\ x.target \in I
  <2>1. ops[k].item \in I
    BY <1>1, <1>7 DEF Names, I
  <2>2. \A x \in RowBefore(row, k) : x \in f[k - 1].links /\ x.source = ops[k].item
    BY <1>4, <1>7 DEF RowBefore, Parent, In!PartOf
  <2> QED BY <1>3, <1>5, <2>1, <2>2
<1>8. ASSUME NEW n \in 1..m, NEW k \in 1..m, ops[n].kind = "create", ops[k].kind \in {"move", "unlink"}
      PROVE  /\ ops[k].item # ops[n].item
             /\ \A x \in RowBefore(row, k) : ops[n].item \notin {x.source, x.target}
  BY <1>6, <1>7, <1>8
<1> QED BY <1>1, <1>8 DEF MadeAloneIn

LEMMA ApproveDangles ==
  ASSUME IInv, CInv, DInv, NEW ops \in Requests, Approve(ops)
  PROVE  DInv'
<1> DEFINE seen == Run(plan, ops, Trial)
           done == Run(plan, ops, Commit)
           after == Result(plan, ops, Commit)
           changes == Rebound(ops, seen, done)
           row == Recorded(ops, changes, plan, Now, plan')
           rows == Rewritten(ops, done)
           m == Len(ops)
<1>1. OpsOK(ops)
  BY RequestsAssumption DEF OpsOK
<1>2. /\ Goes(plan, ops, Trial) /\ Goes(plan, ops, Commit) /\ Tick /\ plan' = Written(after, rows)
      /\ log' = Append(log, row) /\ \A n \in DOMAIN ops : Names(ops[n]) \subseteq Items(plan)
  BY DEF Approve, Result
<1>3. m \in Nat /\ DOMAIN ops = 1..m /\ m < Width /\ m \in 0..m
  BY <1>1, FitsIs DEF Approve
<1>4. /\ PlanOK(plan) /\ Trial \in Nat /\ Commit \in Nat /\ Commit + 1 \in Nat
      /\ Taken(plan, Width * Trial + 1) /\ Taken(plan, Width * Commit + 1)
  BY PlanReady DEF IInv, CInv
<1>5. PlanOK(after)
  BY <1>1, <1>2, <1>3, <1>4, RunEnds
<1>6. row.ops = ops /\ row.changes = changes
  BY DEF Recorded
<1>7. CameFrom(plan, Width * Trial, after)
  BY <1>1, <1>2, ResultCameFrom
<1>8. \A n \in DOMAIN ops : /\ changes[n].before = seen[n - 1]
                            /\ ops[n].kind = "create" => changes[n].after = done[n]
  BY ReboundIs
<1> HIDE DEF row, changes, rows
<1>9. MadeAloneIn(row)
  BY <1>1, <1>2, <1>4, <1>6, <1>8, ApproveAlone
<1>10. ASSUME NEW n \in DOMAIN row.ops, row.ops[n].kind = "create"
       PROVE  \E N \in Int : /\ PlanOK(row.changes[n].after) /\ Taken(row.changes[n].after, N)
                             /\ N <= Width * (Commit + 1) /\ CameFrom(row.changes[n].after, N, after)
  <2> DEFINE N == Width * Commit + n + 1
  <2>1. n \in 1..m /\ n \in 0..m /\ n <= m /\ row.changes[n].after = done[n]
    BY <1>3, <1>6, <1>8, <1>10
  <2>2. N \in Int /\ N <= Width * (Commit + 1)
    <3> HIDE DEF m
    <3> QED BY <1>3, <1>4, <2>1 DEF Width
  <2>3. PlanOK(done[n]) /\ Taken(done[n], N)
    BY <1>1, <1>2, <1>4, <2>1, RunOK
  <2>4. CameFrom(done[n], N, done[m])
    BY <1>1, <1>2, <1>3, <1>4, <2>1, RunIds
  <2>5. after = done[m]
    BY DEF Result
  <2> HIDE DEF N, done, after
  <2> QED BY <2>1, <2>2, <2>3, <2>4, <2>5
<1>11. plan'.links = after.links
  BY <1>2 DEF Written
<1> HIDE DEF after
<1>12. MadeWithIn(row, plan', Commit + 1)
  BY <1>4, <1>5, <1>10, <1>11, MadeWithNew
<1> QED BY <1>2, <1>7, <1>9, <1>12, EntryDangles DEF row

LEMMA ApplyUndoDangles ==
  ASSUME IInv, CInv, DInv, NEW c \in DOMAIN log, ApplyUndo(c)
  PROVE  DInv'
<1> DEFINE ops == log[c].ops
           seen == [n \in 0..Len(ops) |-> IF n = 0 THEN log[c].changes[1].before ELSE log[c].changes[n].after]
           done == Run(plan, ops, Commit)
           after == Result(plan, ops, Commit)
           rows == Rewritten(ops, done)
           row == [log[c] EXCEPT !.status = "applied", !.at = Now,
                                 !.changes = Rebound(ops, seen, done), !.result = plan']
<1>1. /\ Tick /\ log[c].status = "pending" /\ log[c].base = plan
      /\ Goes(plan, ops, Commit) /\ plan' = Written(after, rows) /\ log' = [log EXCEPT ![c] = row]
  BY DEF ApplyUndo, Result
<1>2. DOMAIN row = Fields /\ row.status = "applied" /\ row.ops = ops
  BY DEF IInv, LogOK, Fields
<1> HIDE DEF row, rows
<1>0. LogOK /\ clock' \in Nat
  BY <1>1, TickIs DEF IInv
<1>3. DOMAIN log' = DOMAIN log /\ \A e \in DOMAIN log : log'[e] = IF e = c THEN row ELSE log[e]
  BY <1>0, <1>1, <1>2, Replaced
<1>4. OpsOK(ops)
  BY <1>1 DEF CInv, PlanKept, Pending, Described
<1>5. \A n \in DOMAIN ops : ops[n].kind # "create"
  BY <1>1, TakenAwayAre DEF DInv, TakenAwayIn, TakesAway
<1>6. CameFrom(plan, Width * Trial, after)
  BY <1>1, <1>4, ResultCameFrom
<1>7. MadeWithIn(row, plan', Commit + 1) /\ MadeAloneIn(row)
  BY <1>2, <1>5 DEF MadeWithIn, MadeAloneIn
<1> HIDE DEF after, ops
<1>8. \A d \in Pending' : d \in Pending /\ log'[d] = log[d]
  BY <1>2, <1>3 DEF Pending
<1>9. \A e \in Applieds(log') :
         \/ e \in Applieds(log) /\ log'[e] = log[e]
         \/ MadeWithIn(log'[e], plan', Commit + 1) /\ MadeAloneIn(log'[e])
  BY <1>3, <1>7 DEF Applieds
<1>10. \A e \in Applieds(log) : e \in Applieds(log') /\ log'[e] = log[e]
  BY <1>1, <1>3 DEF Applieds
<1> QED BY <1>0, <1>1, <1>6, <1>8, <1>9, <1>10, WriteDangles

LEMMA CompleteDangles ==
  ASSUME IInv, CInv, DInv, NEW i, Complete(i)
  PROVE  DInv'
<1> DEFINE r == [plan EXCEPT !.items[i].done = TRUE]
<1>1. Tick /\ plan' = Written(r, {<<"items", i>>}) /\ log' = log
  BY DEF Complete
<1>2. r.links = plan.links
  OBVIOUS
<1> HIDE DEF r
<1>3. CameFrom(plan, Width * Trial, r)
  BY <1>2 DEF CameFrom
<1> QED BY <1>1, <1>3, WriteDangles DEF IInv, Pending, Applieds

(* A step that writes nothing to the plan. *)
LEMMA SameDangles ==
  ASSUME LogOK, DInv, plan' = plan, clock' \in Nat, clock <= clock',
         \A e \in Applieds(log') : e \in Applieds(log) /\ log'[e] = log[e],
         \A e \in Applieds(log) : e \in Applieds(log') /\ log'[e] = log[e],
         \A c \in Pending' :
           \/ c \in Pending /\ log'[c] = log[c]
           \/ log'[c].of \in Applieds(log') /\ TakesAway(log'[c], log'[log'[c].of])
  PROVE  DInv'
<1>0. MadeWith /\ MadeAlone /\ TakenAway /\ clock \in Nat
  BY DEF DInv, LogOK
<1>1. MadeAlone'
  BY <1>0, MadeAloneAre
<1>2. Trial \in Nat /\ Trial' \in Nat /\ Trial <= Trial'
  BY <1>0, TrialGrows
<1>3. Width * Trial \in Int /\ Width * Trial' \in Int /\ Width * Trial <= Width * Trial'
  BY <1>2, TimesGrow
<1>4. \A e \in Applieds(log) : MadeWithIn(log[e], plan', Trial')
  BY <1>0, <1>3, MadeWithAre DEF MadeWithIn
<1>5. MadeWith'
  BY <1>4, MadeWithAre
<1>6. TakenAway'
  BY <1>0, TakenAwayStay
<1> QED BY <1>1, <1>5, <1>6 DEF DInv

LEMMA SameLogDangles ==
  ASSUME IInv, DInv, plan' = plan, log' = log, clock' \in Nat, clock <= clock'
  PROVE  DInv'
BY SameDangles DEF IInv, Pending, Applieds

LEMMA RecordDangles ==
  ASSUME IInv, DInv, NEW i, Record(i)
  PROVE  DInv'
<1>1. log' = log /\ plan' = plan /\ Tick
  BY DEF Record
<1>2. clock' \in Nat /\ clock <= clock'
  BY <1>1, TickIs DEF IInv
<1> QED BY <1>1, <1>2, SameLogDangles

LEMMA DropUndoDangles ==
  ASSUME IInv, DInv, NEW c \in DOMAIN log, DropUndo(c)
  PROVE  DInv'
<1>1. PICK status \in {"rejected", "expired"} : log' = [log EXCEPT ![c].status = status]
  BY DEF DropUndo
<1> DEFINE row == [log[c] EXCEPT !.status = status]
<1>2. log' = [log EXCEPT ![c] = row] /\ log[c].status = "pending"
  BY <1>1 DEF DropUndo
<1>7. plan' = plan /\ clock' = clock
  BY DEF DropUndo
<1>8. clock \in Nat
  BY DEF IInv, LogOK
<1>9. LogOK /\ clock' \in Nat /\ clock <= clock'
  BY <1>7, <1>8 DEF IInv
<1>3. DOMAIN row = Fields /\ row.status = status
  BY DEF IInv, LogOK, Fields
<1> HIDE DEF row
<1>4. DOMAIN log' = DOMAIN log /\ \A e \in DOMAIN log : log'[e] = IF e = c THEN row ELSE log[e]
  BY <1>2, <1>3, <1>9, Replaced
<1>5. /\ \A e \in Applieds(log') : e \in Applieds(log) /\ log'[e] = log[e]
      /\ \A e \in Applieds(log) : e \in Applieds(log') /\ log'[e] = log[e]
  BY <1>2, <1>3, <1>4 DEF Applieds
<1>6. \A d \in Pending' : d \in Pending /\ log'[d] = log[d]
  BY <1>3, <1>4 DEF Pending
<1> QED BY <1>5, <1>6, <1>7, <1>9, SameDangles

-----------------------------------------------------------------------------
(* What takes back one operation. *)

DeletesIn(ops, x) == \E j \in DOMAIN ops : ops[j] = Delete(x)

(* The one that is to be deleted is deleted. *)
LEMMA OnlyDeleted ==
  ASSUME NEW S, NEW x \in S, \A y \in S : y = x
  PROVE  One({Delete(y) : y \in S}) = <<Delete(x)>>
<1> DEFINE D == {Delete(y) : y \in S}
<1>1. D # {} /\ \A d \in D : d = Delete(x)
  OBVIOUS
<1> HIDE DEF D
<1>2. PICK d \in D : One(D) = <<d>>
  BY <1>1, OneIs
<1> QED BY <1>1, <1>2 DEF D

(* What was made goes with the link that says what it is part of. *)
LEMMA CreateDeletes ==
  ASSUME NEW e, NEW n, Op(e, n).kind = "create", PlanOK(plan), NEW x \in Parent(plan, Op(e, n).item)
  PROVE  DeletesIn(TakenBack(e, n), x)
<1> DEFINE i == Op(e, n).item
           A == One({Delete(y) : y \in Parent(plan, i)})
           B == <<Operation("archive", i, NULL)>>
<1>1. TakenBack(e, n) = A \o B
  BY DEF TakenBack, Posts, Patches
<1>2. \A y \in Parent(plan, i) : y = x
  BY DEF Parent, In!PartOf, PlanOK, LinksOK
<1>3. A = <<Delete(x)>>
  BY <1>2, OnlyDeleted
<1>4. Len(A) = 1 /\ DOMAIN A = 1..1 /\ A[1] = Delete(x) /\ A = [k \in 1..1 |-> A[k]]
  BY <1>3, TupleIs
<1>5. Len(B) = 1 /\ B = [k \in 1..1 |-> B[k]]
  BY TupleIs
<1> HIDE DEF A, B
<1>6. DOMAIN (A \o B) = 1 .. 1 + 1 /\ \A k \in 1..1 : (A \o B)[k] = A[k]
  BY <1>4, <1>5, JoinedList
<1> QED BY <1>1, <1>4, <1>6 DEF DeletesIn

(* What was related is related no more. *)
LEMMA PostDeletes ==
  ASSUME NEW e, NEW n, Op(e, n).kind \in Posts, NEW x, Candidates(plan, e, n) = {x}
  PROVE  DeletesIn(TakenBack(e, n), x)
<1>1. TakenBack(e, n) = One({Delete(y) : y \in Candidates(plan, e, n)})
  BY DEF TakenBack, Posts, Patches
<1>2. TakenBack(e, n) = <<Delete(x)>>
  BY <1>1, OnlyDeleted
<1> QED BY <1>2, TupleIs DEF DeletesIn

(* What an inverse relates or moves is what was moved, or was related.     *)
LEMMA TakenBackNames ==
  ASSUME NEW e, NEW n, Op(e, n).kind \in OperationKinds, PlanOK(Was(e, n)),
         NEW j \in DOMAIN TakenBack(e, n), TakenBack(e, n)[j].kind \in Posts \cup {"move"}
  PROVE  /\ Op(e, n).kind \in {"move", "unlink"}
         /\ \A i \in Names(TakenBack(e, n)[j]) :
              i = Op(e, n).item \/ \E x \in LinkBefore(e, n) : i \in {x.source, x.target}
<1> DEFINE op == Op(e, n)
           b == TakenBack(e, n)[j]
           was == Was(e, n)
           back(x) == MoveTo(op.item, x.target, PlaceIn(Siblings(was, x.target), op.item))
           put(x) == IF x.type = "part_of" THEN back(x) ELSE Operation(x.type, x.source, x.target)
<1>0. /\ \A x : Delete(x).kind = "unlink"
      /\ \A x : back(x).kind = "move" /\ back(x).item = op.item /\ back(x).to = x.target
      /\ \A kind, i, to : /\ Operation(kind, i, to).kind = kind /\ Operation(kind, i, to).item = i
                          /\ Operation(kind, i, to).to = to
      /\ MoveTo(op.item, NULL, NULL).kind = "move"
      /\ MoveTo(op.item, NULL, NULL).item = op.item /\ MoveTo(op.item, NULL, NULL).to = NULL
  BY DEF Delete, Unlink, MoveTo, Operation
<1> HIDE DEF back
<1>1. ASSUME NEW S, TakenBack(e, n) = One(S)
      PROVE  b \in S
  <2>1. S # {}
    BY <1>1, OneIs
  <2>2. PICK x \in S : One(S) = <<x>>
    BY <2>1, OneIs
  <2>3. j = 1
    BY <1>1, <2>2, TupleIs
  <2> QED BY <1>1, <2>2, <2>3, TupleIs
<1>2. ASSUME NEW x, TakenBack(e, n) = <<x>>
      PROVE  b = x
  BY <1>2, TupleIs
<1> HIDE DEF b
<1>3. CASE op.kind \in Patches
  <2>1. CASE op.kind = "edit"
    <3>1. TakenBack(e, n) = <<Operation("edit", op.item, was.items[op.item].title)>>
      BY <2>1 DEF TakenBack, Posts
    <3>2. b.kind = "edit"
      BY <1>0, <1>2, <3>1
    <3> QED BY <3>2 DEF b, Posts
  <2>2. CASE op.kind = "reopen"
    <3>1. TakenBack(e, n) = <<Operation("reopen", op.item, NULL)>>
      BY <2>2 DEF TakenBack, Posts
    <3>2. b.kind = "reopen"
      BY <1>0, <1>2, <3>1
    <3> QED BY <3>2 DEF b, Posts
  <2>3. CASE op.kind \in {"archive", "restore"}
    <3> DEFINE kind == IF was.items[op.item].archived THEN "archive" ELSE "restore"
    <3>1. TakenBack(e, n) = <<Operation(kind, op.item, NULL)>>
      BY <2>3 DEF TakenBack, Posts
    <3>2. b.kind = kind /\ kind \in {"archive", "restore"}
      BY <1>0, <1>2, <3>1
    <3> QED BY <3>2 DEF b, Posts
  <2> QED BY <1>3, <2>1, <2>2, <2>3 DEF Patches
<1>4. CASE op.kind = "create"
  <2> DEFINE A == One({Delete(x) : x \in Parent(plan, op.item)})
             B == <<Operation("archive", op.item, NULL)>>
  <2>1. TakenBack(e, n) = A \o B
    BY <1>4 DEF TakenBack, Posts
  <2>2. \A k \in DOMAIN A : A[k].kind = "unlink"
    <3> DEFINE D == {Delete(x) : x \in Parent(plan, op.item)}
    <3>1. \A d \in D : d.kind = "unlink"
      BY <1>0
    <3> HIDE DEF D
    <3>2. D # {} => \E x \in D : One(D) = <<x>>
      BY OneIs
    <3>3. D = {} => One(D) = <<>>
      BY OneIs
    <3> QED BY <3>1, <3>2, <3>3, TupleIs, EmptyIs DEF D
  <2>3. \A k \in DOMAIN B : B[k].kind = "archive"
    BY <1>0, TupleIs
  <2>4. Small(A) /\ Small(B)
    <3>1. {"unlink", "archive"} \subseteq OperationKinds \ {"create"}
      BY DEF OperationKinds, Patches, Posts
    <3> QED BY <1>0, <3>1, OneSmall, SingleSmall
  <2> HIDE DEF A, B
  <2>5. /\ Len(A) \in Nat /\ Len(B) \in Nat /\ A = [k \in 1..Len(A) |-> A[k]] /\ B = [k \in 1..Len(B) |-> B[k]]
        /\ DOMAIN A = 1..Len(A) /\ DOMAIN B = 1..Len(B)
    BY <2>4, ListIs DEF Small
  <2>6. /\ DOMAIN (A \o B) = 1 .. Len(A) + Len(B)
        /\ \A k \in 1..Len(A) : (A \o B)[k] = A[k]
        /\ \A k \in 1..Len(B) : (A \o B)[Len(A) + k] = B[k]
    BY <2>5, JoinedList
  <2>7. b.kind \in {"unlink", "archive"}
    <3>1. j \in 1 .. Len(A) + Len(B) /\ b = (A \o B)[j]
      BY <2>1, <2>6 DEF b
    <3>2. CASE j \in 1..Len(A)
      BY <2>2, <2>5, <2>6, <3>1, <3>2
    <3>3. CASE j \notin 1..Len(A)
      <4>1. j - Len(A) \in 1..Len(B) /\ j = Len(A) + (j - Len(A))
        BY <2>5, <3>1, <3>3
      <4> QED BY <2>3, <2>5, <2>6, <3>1, <4>1
    <3> QED BY <3>2, <3>3
  <2> QED BY <2>7 DEF b, Posts
<1>5. CASE op.kind = "move"
  <2>1. TakenBack(e, n) = IF LinkBefore(e, n) = {} THEN <<MoveTo(op.item, NULL, NULL)>>
                          ELSE One({back(x) : x \in LinkBefore(e, n)})
    BY <1>5 DEF TakenBack, Posts, back
  <2>2. b = MoveTo(op.item, NULL, NULL) \/ \E x \in LinkBefore(e, n) : b = back(x)
    BY <1>1, <1>2, <2>1
  <2>3. \A i \in Names(b) : i = op.item \/ \E x \in LinkBefore(e, n) : i \in {x.source, x.target}
    BY <1>0, <2>2 DEF Names
  <2> QED BY <1>5, <2>3 DEF b
<1>6. CASE op.kind \in Posts
  <2>1. TakenBack(e, n) = One({Delete(x) : x \in Candidates(plan, e, n)})
    BY <1>6 DEF TakenBack, Posts, Patches
  <2>2. b.kind = "unlink"
    BY <1>0, <1>1, <2>1
  <2> QED BY <2>2 DEF b, Posts
<1>7. CASE op.kind = "unlink"
  <2>1. TakenBack(e, n) = One({put(x) : x \in LinkBefore(e, n)})
    BY <1>7 DEF TakenBack, Posts, back
  <2>2. PICK x \in LinkBefore(e, n) : b = put(x)
    BY <1>1, <2>1
  <2>3. \A i \in Names(b) : i = op.item \/ i \in {x.source, x.target}
    <3>1. Names(b) \subseteq {b.item, b.to}
      BY DEF Names
    <3>2. b.item \in {op.item, x.source} /\ b.to = x.target
      BY <1>0, <2>2
    <3> QED BY <3>1, <3>2
  <2> QED BY <1>7, <2>2, <2>3 DEF b
<1> QED BY <1>3, <1>4, <1>5, <1>6, <1>7 DEF OperationKinds

(* The inverse of a creation that nothing stands in the way of takes away  *)
(* all that is linked to what was made.                                    *)
LEMMA CreationCleared ==
  ASSUME CInv, MadeWith, NEW e \in Versions, NEW chosen \in SUBSET DOMAIN log[e].ops,
         \A k \in chosen : ~Blocked(e, chosen, k),
         NEW n \in chosen, Op(e, n).kind = "create",
         NEW x \in Touching(plan, Op(e, n).item)
  PROVE  \E k \in chosen : DeletesIn(TakenBack(e, k), x)
<1> DEFINE i == Op(e, n).item
           own == \E y \in LinkAfter(e, n) : SameLink(x, y) /\ x.position = y.position
           going == {z.id : z \in UNION {LinkAfter(e, k) :
                                           k \in {k \in chosen : Op(e, k).kind \in Posts \cup {"create"}}}}
<1>0. PlanOK(plan) /\ x \in plan.links
  BY DEF CInv, PlanKept, Touching
<1>1. own \/ x.id \in going
  <2>1. ~CreateBlocked(e, chosen, n)
    BY DEF Blocked, Posts, Patches
  <2> QED BY <2>1 DEF CreateBlocked
<1>2. CASE own
  <2>1. PICK y \in LinkAfter(e, n) : SameLink(x, y)
    BY <1>2
  <2>2. y.type = "part_of" /\ y.source = i
    BY DEF LinkAfter, Parent, In!PartOf, Posts
  <2>3. x \in Parent(plan, i)
    BY <1>0, <2>1, <2>2 DEF SameLink, Parent, In!PartOf
  <2> QED BY <1>0, <2>3, CreateDeletes
<1>3. CASE x.id \in going
  <2>1. PICK k \in chosen : Op(e, k).kind \in Posts \cup {"create"} /\ \E z \in LinkAfter(e, k) : z.id = x.id
    BY <1>3
  <2>2. PICK z \in LinkAfter(e, k) : z.id = x.id
    BY <2>1
  <2>3. CASE Op(e, k).kind = "create"
    <3>1. z.source = Op(e, k).item
      BY <2>3 DEF LinkAfter, Parent, In!PartOf, Posts
    <3>2. x.type = "part_of" /\ x.source = z.source
      BY <1>0, <2>2, <2>3 DEF MadeWith, Created
    <3>3. x \in Parent(plan, Op(e, k).item)
      BY <1>0, <3>1, <3>2 DEF Parent, In!PartOf
    <3> QED BY <1>0, <2>3, <3>3, CreateDeletes
  <2>4. CASE Op(e, k).kind \in Posts
    <3>1. ~PostBlocked(e, chosen, k)
      BY <2>4 DEF Blocked, Posts, Patches
    <3>2. PICK w : Candidates(plan, e, k) = {w}
      BY <3>1 DEF PostBlocked
    <3>3. x \in Candidates(plan, e, k)
      BY <1>0, <2>2 DEF Candidates
    <3>4. Candidates(plan, e, k) = {x}
      BY <3>2, <3>3
    <3> QED BY <2>4, <3>4, PostDeletes
  <2> QED BY <2>1, <2>3, <2>4
<1> QED BY <1>1, <1>2, <1>3

(* And the rest of that inverse links nothing to it. *)
LEMMA InverseTakesAway ==
  ASSUME CInv, MadeWith, MadeAlone, NEW e \in DOMAIN log, NEW chosen \in SUBSET DOMAIN log[e].ops,
         Undoable(e, chosen),
         NEW row, row.chosen = chosen, row.ops = InverseOps(e, chosen), row.base = plan
  PROVE  TakesAway(row, log[e])
<1> DEFINE ops == InverseOps(e, chosen)
<1>1. e \in Versions /\ \A k \in chosen : ~Blocked(e, chosen, k)
  BY DEF Undoable, Versions
<1>2. OpsOK(log[e].ops) /\ \A k \in DOMAIN log[e].ops : PlanOK(Was(e, k)) /\ Op(e, k).kind \in OperationKinds
  BY <1>1 DEF CInv, VersionsOK, OpsOK, Op
<1>3. /\ \A m \in DOMAIN ops : ops[m].kind # "create"
      /\ \A m \in DOMAIN ops : \E k \in chosen \cap DOMAIN log[e].ops : \E j \in DOMAIN TakenBack(e, k) :
           ops[m] = TakenBack(e, k)[j]
      /\ \A k \in chosen \cap DOMAIN log[e].ops : \A j \in DOMAIN TakenBack(e, k) :
           \E m \in DOMAIN ops : ops[m] = TakenBack(e, k)[j]
  BY <1>2, InverseIs
<1> HIDE DEF ops
<1>4. ASSUME NEW n \in chosen, log[e].ops[n].kind = "create",
             NEW x \in Touching(plan, log[e].ops[n].item)
      PROVE  Unlinks(ops, x)
  <2>1. Op(e, n).kind = "create" /\ x \in Touching(plan, Op(e, n).item)
    BY <1>4 DEF Op
  <2>2. PICK k \in chosen : DeletesIn(TakenBack(e, k), x)
    BY <1>1, <2>1, CreationCleared
  <2>3. PICK m \in DOMAIN ops : ops[m] = Delete(x)
    BY <1>3, <2>2 DEF DeletesIn
  <2>4. /\ Delete(x).kind = "unlink" /\ Delete(x).type = x.type
        /\ Delete(x).item = x.source /\ Delete(x).to = x.target
    BY DEF Delete, Unlink, Operation
  <2> QED BY <2>3, <2>4 DEF Unlinks
<1>5. ASSUME NEW n \in chosen, log[e].ops[n].kind = "create",
             NEW m \in DOMAIN ops, ops[m].kind \in Posts \cup {"move"}
      PROVE  log[e].ops[n].item \notin Names(ops[m])
  <2>1. n \in Created(e)
    BY <1>5 DEF Created, Op
  <2>2. PICK k \in chosen \cap DOMAIN log[e].ops : \E j \in DOMAIN TakenBack(e, k) : ops[m] = TakenBack(e, k)[j]
    BY <1>3
  <2>3. PICK j \in DOMAIN TakenBack(e, k) : ops[m] = TakenBack(e, k)[j]
    BY <2>2
  <2>4. /\ Op(e, k).kind \in {"move", "unlink"}
        /\ \A i \in Names(ops[m]) : i = Op(e, k).item \/ \E x \in LinkBefore(e, k) : i \in {x.source, x.target}
    BY <1>2, <1>5, <2>3, TakenBackNames
  <2>5. Op(e, k).item # Op(e, n).item /\ \A x \in LinkBefore(e, k) : Op(e, n).item \notin {x.source, x.target}
    BY <1>1, <2>1, <2>4 DEF MadeAlone
  <2>6. Op(e, n).item \notin Names(ops[m])
    BY <2>4, <2>5
  <2> QED BY <2>6 DEF Op
<1>6. row.ops = ops
  BY DEF ops
<1> QED BY <1>3, <1>4, <1>5, <1>6, <1>1 DEF TakesAway

(* A proposal to undo keeps DInv: its inverse is cleared of links to what  *)
(* it unmakes.                                                             *)
LEMMA ProposeDangles ==
  ASSUME IInv, CInv, DInv, NEW e \in DOMAIN log, NEW chosen \in SUBSET DOMAIN log[e].ops,
         ProposeUndo(e, chosen)
  PROVE  DInv'
<1> DEFINE ops == InverseOps(e, chosen)
           seen == Run(plan, ops, Trial)
           row == [status |-> "pending", of |-> e, chosen |-> chosen, from |-> InverseFrom(e, chosen),
                   ops |-> ops, changes |-> [n \in DOMAIN ops |-> Change(seen[n - 1], seen[n])],
                   base |-> plan, at |-> 0, result |-> plan]
<1>1. /\ Undoable(e, chosen) /\ log' = Append(log, row) /\ plan' = plan
      /\ LogOK /\ clock' \in Nat /\ clock <= clock'
  BY DEF ProposeUndo, IInv, LogOK
<1>2. /\ DOMAIN row = Fields /\ row.status = "pending" /\ row.of = e /\ row.chosen = chosen
      /\ row.ops = InverseOps(e, chosen) /\ row.base = plan
  BY DEF Fields
<1> HIDE DEF row
<1>3. /\ DOMAIN log' = 1..(Len(log) + 1) /\ Len(log) \in Nat /\ DOMAIN log = 1..Len(log)
      /\ \A d \in 1..Len(log) : log'[d] = log[d]
      /\ log'[Len(log) + 1] = row
  BY <1>1, <1>2, Appended, LogFacts
<1>4. \A d \in DOMAIN log' : d = Len(log) + 1 \/ (d \in DOMAIN log /\ log'[d] = log[d])
  BY <1>3
<1>5. \A d \in Applieds(log) : d \in Applieds(log') /\ log'[d] = log[d]
  BY <1>3 DEF Applieds
<1>6. \A d \in Applieds(log') : d \in Applieds(log) /\ log'[d] = log[d]
  BY <1>2, <1>3, <1>4 DEF Applieds
<1>7. e \in Applieds(log) /\ log'[e] = log[e]
  BY <1>1, <1>3 DEF Undoable, Applieds
<1>8. TakesAway(row, log[e])
  BY <1>1, <1>2, InverseTakesAway DEF DInv
<1>9. \A d \in Pending' :
        \/ d \in Pending /\ log'[d] = log[d]
        \/ log'[d].of \in Applieds(log') /\ TakesAway(log'[d], log'[log'[d].of])
  <2> SUFFICES ASSUME NEW d \in Pending', ~(d \in Pending /\ log'[d] = log[d])
               PROVE  log'[d].of \in Applieds(log') /\ TakesAway(log'[d], log'[log'[d].of])
    OBVIOUS
  <2>1. log'[d] = row
    BY <1>3, <1>4 DEF Pending
  <2> QED BY <1>2, <1>5, <1>7, <1>8, <2>1
<1> QED BY <1>1, <1>5, <1>6, <1>9, SameDangles

LEMMA DangleInit == Init => DInv
<1> SUFFICES ASSUME Init PROVE DInv
  OBVIOUS
<1>1. log = <<>> /\ DOMAIN log = {}
  BY DEF Init
<1> QED BY <1>1 DEF DInv, MadeWith, MadeAlone, TakenAway, Versions, Pending

LEMMA DangleNext == IInv /\ CInv /\ DInv /\ [Next]_vars => DInv'
<1> SUFFICES ASSUME IInv, CInv, DInv, [Next]_vars PROVE DInv'
  OBVIOUS
<1>1. CASE UNCHANGED vars
  <2>1. log' = log /\ plan' = plan /\ clock' \in Nat /\ clock <= clock'
    BY <1>1 DEF vars, IInv, LogOK
  <2> QED BY <2>1, SameLogDangles
<1>2. CASE Next
  BY <1>2, EditDangles, ApproveDangles, TemplateDangles, RecordDangles, CompleteDangles, ProposeDangles,
     ApplyUndoDangles, DropUndoDangles DEF Next
<1> QED BY <1>1, <1>2

(* Proposals take away all that is linked to what they unmake. *)
LEMMA DanglesAlways == Spec => [](IInv /\ CInv /\ DInv)
<1>1. IInv /\ CInv /\ DInv /\ [Next]_vars => (IInv /\ CInv /\ DInv)'
  BY InvNext, TellsNext, DangleNext
<1> QED BY <1>1, InvInit, TellsInit, DangleInit, PTL DEF Spec

(* What undoing a creation leaves of the links to the item: nothing. *)
LEMMA UndoClears ==
  ASSUME IInv, CInv, DInv, NEW c \in DOMAIN log, ApplyUndo(c),
         NEW n \in log[c].chosen, Op(log[c].of, n).kind = "create"
  PROVE  Touching(plan', Op(log[c].of, n).item) = {}
<1> DEFINE ops == log[c].ops
           i == Op(log[c].of, n).item
           r == Result(plan, ops, Commit)
<1>1. log[c].status = "pending" /\ log[c].base = plan /\ Goes(plan, ops, Commit) /\ plan'.links = r.links
  BY DEF ApplyUndo, Result, Written
<1>2. OpsOK(ops)
  BY <1>1 DEF CInv, PlanKept, Pending, Described
<1>3. PlanOK(plan) /\ Commit \in Nat /\ Taken(plan, Width * Commit + 1)
  BY PlanReady DEF IInv, CInv
<1>4. TakesAway(log[c], log[log[c].of])
  BY <1>1, TakenAwayAre DEF DInv, TakenAwayIn
<1>5. /\ \A k \in DOMAIN ops : /\ ops[k].kind # "create"
                               /\ ops[k].kind \in Posts \cup {"move"} => i \notin Names(ops[k])
      /\ \A x \in Touching(plan, i) : Unlinks(ops, x)
  BY <1>1, <1>4 DEF TakesAway, Op
<1> HIDE DEF ops, i
<1>6. Touching(r, i) = {}
  BY <1>1, <1>2, <1>3, <1>5, RunClears
<1> HIDE DEF r
<1> QED BY <1>1, <1>6 DEF Touching, i

(* Only approving a proposal applies it. *)
LEMMA OnlyApproved ==
  ASSUME IInv, Next, NEW c \in DOMAIN log, Applied(c)
  PROVE  ApplyUndo(c)
<1>0. clock' \in Nat
  BY InvNext DEF IInv, LogOK
<1>1. log[c].status = "pending" /\ log'[c].status = "applied"
  BY DEF Applied
<1>2. ASSUME NEW row, DOMAIN row = Fields, log' = Append(log, row)
      PROVE  FALSE
  <2>1. log'[c] = log[c]
    BY <1>0, <1>2, Appended, LogFacts DEF IInv
  <2> QED BY <1>1, <2>1
<1>3. ASSUME NEW ops, NEW changes, NEW base, NEW t, NEW result,
             log' = Append(log, Recorded(ops, changes, base, t, result))
      PROVE  FALSE
  <2>1. DOMAIN Recorded(ops, changes, base, t, result) = Fields
    BY DEF Recorded, Fields
  <2> QED BY <1>2, <1>3, <2>1
<1>4. ASSUME NEW op, Edit(op)
      PROVE  FALSE
  BY <1>3, <1>4 DEF Edit
<1>5. ASSUME NEW ops, Approve(ops)
      PROVE  FALSE
  BY <1>3, <1>5 DEF Approve
<1>6. ASSUME NEW ops, ApplyTemplate(ops)
      PROVE  FALSE
  BY <1>3, <1>6 DEF ApplyTemplate
<1>7. ASSUME NEW i, Record(i) \/ Complete(i)
      PROVE  FALSE
  BY <1>1, <1>7 DEF Record, Complete
<1>8. ASSUME NEW e, NEW chosen, ProposeUndo(e, chosen)
      PROVE  FALSE
  <2> DEFINE ops == InverseOps(e, chosen)
             seen == Run(plan, ops, Trial)
             row == [status |-> "pending", of |-> e, chosen |-> chosen, from |-> InverseFrom(e, chosen),
                     ops |-> ops, changes |-> [n \in DOMAIN ops |-> Change(seen[n - 1], seen[n])],
                     base |-> plan, at |-> 0, result |-> plan]
  <2>1. log' = Append(log, row)
    BY <1>8 DEF ProposeUndo
  <2>2. DOMAIN row = Fields
    BY DEF Fields
  <2> QED BY <1>2, <2>1, <2>2
<1>9. ASSUME NEW d \in DOMAIN log, DropUndo(d)
      PROVE  FALSE
  <2>1. PICK status \in {"rejected", "expired"} : log' = [log EXCEPT ![d].status = status]
    BY <1>9 DEF DropUndo
  <2> DEFINE row == [log[d] EXCEPT !.status = status]
  <2>2. log' = [log EXCEPT ![d] = row]
    BY <2>1
  <2>3. DOMAIN row = Fields /\ row.status = status
    BY DEF IInv, LogOK, Fields
  <2> HIDE DEF row
  <2>4. log'[c] = IF c = d THEN row ELSE log[c]
    BY <1>0, <2>2, <2>3, Replaced DEF IInv
  <2> QED BY <1>1, <2>3, <2>4
<1>10. ASSUME NEW d \in DOMAIN log, ApplyUndo(d), d # c
       PROVE  FALSE
  <2>1. DOMAIN log = DOMAIN log /\ log'[c] = log[c]
    BY <1>10 DEF ApplyUndo, IInv, LogOK
  <2> QED BY <1>1, <2>1
<1> QED BY <1>4, <1>5, <1>6, <1>7, <1>8, <1>9, <1>10 DEF Next

(* Approving it leaves nothing linked to what it unmakes. *)
LEMMA DanglesStep ==
  ASSUME IInv, CInv, DInv, [Next]_vars, NEW c \in DOMAIN log, Applied(c),
         NEW n \in log[c].chosen, Op(log[c].of, n).kind = "create"
  PROVE  ~Hangs(Op(log[c].of, n).item)'
<1>1. Next
  BY DEF Applied, vars
<1>2. ApplyUndo(c)
  BY <1>1, OnlyApproved
<1>3. Touching(plan', Op(log[c].of, n).item) = {}
  BY <1>2, UndoClears
<1>4. log[c].of \in DOMAIN log
  <2>1. log[c].status = "pending" /\ log[c].base = plan
    BY <1>2 DEF ApplyUndo
  <2>2. TakenAwayIn(log)
    BY TakenAwayAre DEF DInv
  <2> QED BY <2>1, <2>2 DEF TakenAwayIn, Applieds
<1>5. log'[c].of = log[c].of /\ log'[log[c].of].ops = log[log[c].of].ops
  BY <1>2, <1>4 DEF ApplyUndo, IInv, LogOK, Fields
<1>6. Op(log[c].of, n)' = Op(log[c].of, n)
  BY <1>5 DEF Op
<1>7. Touching(plan, Op(log[c].of, n).item)' = {}
  BY <1>3, <1>6
<1> QED BY <1>7 DEF Hangs

(* An item whose creation is undone leaves nothing hanging in the plan     *)
(* (NothingDangles): nothing at all is linked to it, since reverse_preview *)
(* refuses when there is more than the inverse deletes, and the proposal   *)
(* is approved only on the plan it was made for.                           *)
THEOREM NothingLeftDangling == Spec => NothingDangles
<1> DEFINE Leaves == \A c \in DOMAIN log :
                       Applied(c) =>
                         \A n \in log[c].chosen :
                           Op(log[c].of, n).kind = "create" => ~Hangs(Op(log[c].of, n).item)'
<1>1. IInv /\ CInv /\ DInv /\ [Next]_vars => [Leaves]_vars
  <2> SUFFICES ASSUME IInv, CInv, DInv, [Next]_vars, NEW c \in DOMAIN log, Applied(c),
                      NEW n \in log[c].chosen, Op(log[c].of, n).kind = "create"
               PROVE  ~Hangs(Op(log[c].of, n).item)'
    OBVIOUS
  <2> QED BY DanglesStep
<1> QED BY <1>1, DanglesAlways, PTL DEF Spec, NothingDangles

-----------------------------------------------------------------------------
(* Confined: an undo touches nothing but what it takes back. *)

(* The relations between items in I. *)
Kept(s, I) == {a \in Triples(s) : {a[2], a[3]} \subseteq I}

(* Rest, now and after a step. *)
LEMMA RestIs ==
  ASSUME NEW I
  PROVE  /\ Rest(I) = <<[i \in I \cap Items(plan) |-> plan.items[i]], Kept(plan, I)>>
         /\ Rest(I)' = <<[i \in I \cap Items(plan') |-> plan'.items[i]], Kept(plan', I)>>
<1>1. \A s : {<<x.type, x.source, x.target>> : x \in {y \in s.links : {y.source, y.target} \subseteq I}} = Kept(s, I)
  BY DEF Kept, Triples, Triple
<1>2. Rest(I) = <<[i \in I \cap Items(plan) |-> plan.items[i]], Kept(plan, I)>>
  BY <1>1 DEF Rest
<1>3. Rest(I)' = <<[i \in I \cap Items(plan') |-> plan'.items[i]], Kept(plan', I)>>
  BY <1>1 DEF Rest
<1> QED BY <1>2, <1>3

(* What an operation that makes nothing leaves of the rows of the others. *)
LEMMA RowsStay ==
  ASSUME NEW s, PlanOK(s), NEW t, NEW op, op.kind \in OperationKinds, op.kind # "create", NEW r \in Do(s, op, t)
  PROVE  Items(r) = Items(s) /\ \A i \in Items(s) : i # op.item => r.items[i] = s.items[i]
<1>0. {"items", "links"} \subseteq DOMAIN s
  BY DEF PlanOK, IsPlan
<1>1. CASE op.kind \in Patches
  <2>1. r \in Patch(s, op, t)
    BY <1>1 DEF Do, Patches, Posts
  <2>2. PICK row : r = [s EXCEPT !.items[op.item] = row]
    BY <1>1, <2>1, PatchRow
  <2>3. r.items = [s.items EXCEPT ![op.item] = row]
    BY <1>0, <2>2
  <2> QED BY <2>3 DEF Items
<1>2. CASE op.kind = "move"
  <2>1. r \in Reparent(s, op, t)
    BY <1>2 DEF Do, Patches, Posts
  <2>2. PICK M : r = [s EXCEPT !.links = M]
    BY <2>1, ReparentShape
  <2> QED BY <1>0, <2>2 DEF Items
<1>3. CASE op.kind \in Posts
  <2>1. r \in Relate(s, op, t)
    BY <1>3 DEF Do, Patches, Posts
  <2>2. PICK M : r = [s EXCEPT !.links = M]
    BY <2>1 DEF Relate
  <2> QED BY <1>0, <2>2 DEF Items
<1>4. CASE op.kind = "unlink"
  <2>1. r \in Unrelate(s, op)
    BY <1>4 DEF Do, Patches, Posts
  <2>2. PICK M : r = [s EXCEPT !.links = M]
    BY <2>1 DEF Unrelate
  <2> QED BY <1>0, <2>2 DEF Items
<1> QED BY <1>1, <1>2, <1>3, <1>4 DEF OperationKinds

(* And of the relations between others. *)
LEMMA TiesStay ==
  ASSUME NEW T, NEW op, op.kind \in OperationKinds, NEW I, op.item \notin I
  PROVE  {a \in Ties(T, op) : {a[2], a[3]} \subseteq I} = {a \in T : {a[2], a[3]} \subseteq I}
<1>1. \A k : <<k, op.item, op.to>>[2] \notin I
  OBVIOUS
<1>2. CASE op.kind \in Posts
  <2>1. Ties(T, op) = T \cup {<<op.kind, op.item, op.to>>}
    BY <1>2 DEF Ties, Posts
  <2> QED BY <1>1, <2>1
<1>3. CASE op.kind = "unlink"
  <2>1. Ties(T, op) = T \ {<<op.type, op.item, op.to>>}
    BY <1>3 DEF Ties, Posts
  <2> QED BY <1>1, <2>1
<1>4. CASE op.kind = "create"
  <2>1. Ties(T, op) = T \/ Ties(T, op) = T \cup {<<"part_of", op.item, op.to>>}
    BY <1>4 DEF Ties, Posts
  <2> QED BY <1>1, <2>1
<1>5. CASE op.kind = "move"
  <2>1. Ties(T, op) = {a \in T : ~(a[1] = "part_of" /\ a[2] = op.item)} \cup
                        (IF op.to = NULL THEN {} ELSE {<<"part_of", op.item, op.to>>})
    BY <1>5 DEF Ties, Posts
  <2> QED BY <1>1, <2>1
<1>6. CASE op.kind \in Patches
  <2>1. Ties(T, op) = T
    BY <1>6 DEF Ties, Posts, Patches
  <2> QED BY <2>1
<1> QED BY <1>2, <1>3, <1>4, <1>5, <1>6 DEF OperationKinds

(* A run of operations about other items leaves the items in I and what    *)
(* relates them alone.                                                     *)
LEMMA RunKeeps ==
  ASSUME NEW s, PlanOK(s), NEW ops, OpsOK(ops), NEW t \in Nat, Taken(s, Width * t + 1), Goes(s, ops, t),
         NEW I, \A n \in DOMAIN ops : ops[n].kind # "create" /\ ops[n].item \notin I
  PROVE  LET r == Result(s, ops, t)
         IN  /\ Items(r) = Items(s) /\ \A i \in I \cap Items(s) : r.items[i] = s.items[i]
             /\ Kept(r, I) = Kept(s, I)
<1> DEFINE f == Run(s, ops, t)
           m == Len(ops)
           Same(r) == /\ Items(r) = Items(s) /\ \A i \in I \cap Items(s) : r.items[i] = s.items[i]
                      /\ Kept(r, I) = Kept(s, I)
           G == {n \in 0..m : Same(f[n])}
<1>1. /\ m \in Nat /\ DOMAIN ops = 1..m
      /\ \A n \in 1..m : ops[n].kind \in OperationKinds /\ ops[n].kind # "create" /\ ops[n].item \notin I
  BY ListIs DEF OpsOK
<1>2. f[0] = s /\ \A n \in 1..m : f[n] \in Do(f[n - 1], ops[n], Width * t + n)
  BY RunSteps
<1>3. /\ \A n \in 0..m : PlanOK(f[n])
      /\ \A n \in 1..m : Does(f[n - 1], ops[n], Width * t + n, f[n])
  BY RunOK
<1>4. Result(s, ops, t) = f[m]
  BY DEF Result
<1> HIDE DEF f, m
<1>5. ASSUME NEW n \in 0 .. m - 1, n \in G
      PROVE  n + 1 \in G
  <2>1. n + 1 \in 1..m /\ n + 1 \in 0..m /\ (n + 1) - 1 = n
    BY <1>1
  <2> DEFINE a == f[n]
             b == f[n + 1]
             op == ops[n + 1]
  <2>2. /\ b \in Do(a, op, Width * t + (n + 1)) /\ PlanOK(a) /\ Does(a, op, Width * t + (n + 1), b)
        /\ op.kind \in OperationKinds /\ op.kind # "create" /\ op.item \notin I /\ Same(a)
    BY <1>1, <1>2, <1>3, <1>5, <2>1
  <2> HIDE DEF a, b, op
  <2>3. Items(b) = Items(a) /\ \A i \in Items(a) : i # op.item => b.items[i] = a.items[i]
    BY <2>2, RowsStay
  <2>4. Kept(b, I) = Kept(a, I)
    BY <2>2, TiesStay DEF Does, Kept
  <2>5. Same(b)
    BY <2>2, <2>3, <2>4
  <2> QED BY <2>1, <2>5 DEF b
<1>6. 0 \in G
  BY <1>1, <1>2
<1> HIDE DEF G
<1>7. \A n \in 0..m : n \in G
  BY <1>1, <1>5, <1>6, UpTo
<1>8. m \in G
  BY <1>1, <1>7
<1>9. Same(f[m])
  BY <1>8 DEF G
<1> QED BY <1>4, <1>9

(* The items operation n of an entry, and its links, are about. *)
About(row, n) ==
  {row.ops[n].item} \cup UNION {{x.source, x.target} : x \in RowBefore(row, n) \cup RowAfter(row, n)}

Others(row, chosen) == 1..Size \ UNION {About(row, n) : n \in chosen}

(* Aside, now and after a step. *)
LEMMA AsideIs ==
  ASSUME NEW e, NEW chosen
  PROVE  Aside(e, chosen) = Others(log[e], chosen) /\ Aside(e, chosen)' = Others(log'[e], chosen)
<1> DEFINE D(n) == RowBefore(log[e], n) \cup RowAfter(log[e], n)
           E(n) == RowBefore(log'[e], n) \cup RowAfter(log'[e], n)
<1>1. \A n : /\ Op(e, n) = log[e].ops[n] /\ Delta(e, n) = D(n)
             /\ Op(e, n)' = log'[e].ops[n] /\ Delta(e, n)' = E(n)
  BY RowLinks DEF Op, Delta
<1>2. Others(log[e], chosen) = 1..Size \ ({log[e].ops[n].item : n \in chosen} \cup
                                            UNION {{x.source, x.target} : x \in UNION {D(n) : n \in chosen}})
  BY DEF Others, About
<1>3. Others(log'[e], chosen) = 1..Size \ ({log'[e].ops[n].item : n \in chosen} \cup
                                             UNION {{x.source, x.target} : x \in UNION {E(n) : n \in chosen}})
  BY DEF Others, About
<1> HIDE DEF D, E
<1>4. Aside(e, chosen) = Others(log[e], chosen)
  BY <1>1, <1>2 DEF Aside
<1>5. Aside(e, chosen)' = Others(log'[e], chosen)
  BY <1>1, <1>3 DEF Aside
<1> QED BY <1>4, <1>5

(* What takes an operation back that nothing stands in the way of is about *)
(* what the operation was about.                                           *)
LEMMA TakenBackAbout ==
  ASSUME NEW e, NEW chosen, NEW n, Op(e, n).kind \in OperationKinds, PlanOK(Was(e, n)),
         ~Blocked(e, chosen, n), NEW j \in DOMAIN TakenBack(e, n)
  PROVE  TakenBack(e, n)[j].item \in About(log[e], n)
<1> DEFINE op == Op(e, n)
           b == TakenBack(e, n)[j]
           was == Was(e, n)
           back(x) == MoveTo(op.item, x.target, PlaceIn(Siblings(was, x.target), op.item))
           put(x) == IF x.type = "part_of" THEN back(x) ELSE Operation(x.type, x.source, x.target)
<1>0. /\ \A x : Delete(x).item = x.source
      /\ \A x : back(x).item = op.item
      /\ \A kind, i, to : Operation(kind, i, to).item = i
      /\ MoveTo(op.item, NULL, NULL).item = op.item
  BY DEF Delete, Unlink, MoveTo, Operation
<1> HIDE DEF back
<1>1. /\ op.item \in About(log[e], n)
      /\ \A x \in LinkBefore(e, n) \cup LinkAfter(e, n) : {x.source, x.target} \subseteq About(log[e], n)
  BY RowLinks DEF About, Op
<1>2. ASSUME NEW S, TakenBack(e, n) = One(S)
      PROVE  b \in S
  <2>1. S # {}
    BY <1>2, OneIs
  <2>2. PICK x \in S : One(S) = <<x>>
    BY <2>1, OneIs
  <2>3. j = 1
    BY <1>2, <2>2, TupleIs
  <2> QED BY <1>2, <2>2, <2>3, TupleIs
<1>3. ASSUME NEW x, TakenBack(e, n) = <<x>>
      PROVE  b = x
  BY <1>3, TupleIs
<1> HIDE DEF b
<1>4. CASE op.kind \in Patches
  <2>1. \E kind, to : TakenBack(e, n) = <<Operation(kind, op.item, to)>>
    <3>1. CASE op.kind = "edit"
      BY <3>1 DEF TakenBack, Posts
    <3>2. CASE op.kind = "reopen"
      BY <3>2 DEF TakenBack, Posts
    <3>3. CASE op.kind \in {"archive", "restore"}
      BY <3>3 DEF TakenBack, Posts
    <3> QED BY <1>4, <3>1, <3>2, <3>3 DEF Patches
  <2>2. b.item = op.item
    BY <1>0, <1>3, <2>1
  <2> QED BY <1>1, <2>2 DEF b
<1>5. CASE op.kind = "create"
  <2> DEFINE A == One({Delete(x) : x \in Parent(plan, op.item)})
             B == <<Operation("archive", op.item, NULL)>>
  <2>1. TakenBack(e, n) = A \o B
    BY <1>5 DEF TakenBack, Posts
  <2>2. \A k \in DOMAIN A : A[k].item = op.item
    <3> DEFINE D == {Delete(x) : x \in Parent(plan, op.item)}
    <3>1. \A d \in D : d.item = op.item
      BY <1>0 DEF Parent, In!PartOf
    <3> HIDE DEF D
    <3>2. D # {} => \E x \in D : One(D) = <<x>>
      BY OneIs
    <3>3. D = {} => One(D) = <<>>
      BY OneIs
    <3> QED BY <3>1, <3>2, <3>3, TupleIs, EmptyIs DEF D
  <2>3. \A k \in DOMAIN B : B[k].item = op.item
    BY <1>0, TupleIs
  <2>4. Small(A) /\ Small(B)
    <3>1. /\ {"unlink", "archive"} \subseteq OperationKinds \ {"create"}
          /\ \A x : Delete(x).kind = "unlink"
          /\ Operation("archive", op.item, NULL).kind = "archive"
      BY DEF OperationKinds, Patches, Posts, Delete, Unlink, Operation
    <3> QED BY <3>1, OneSmall, SingleSmall
  <2> HIDE DEF A, B
  <2>5. /\ Len(A) \in Nat /\ Len(B) \in Nat /\ A = [k \in 1..Len(A) |-> A[k]] /\ B = [k \in 1..Len(B) |-> B[k]]
        /\ DOMAIN A = 1..Len(A) /\ DOMAIN B = 1..Len(B)
    BY <2>4, ListIs DEF Small
  <2>6. /\ DOMAIN (A \o B) = 1 .. Len(A) + Len(B)
        /\ \A k \in 1..Len(A) : (A \o B)[k] = A[k]
        /\ \A k \in 1..Len(B) : (A \o B)[Len(A) + k] = B[k]
    BY <2>5, JoinedList
  <2>7. b.item = op.item
    <3>1. j \in 1 .. Len(A) + Len(B) /\ b = (A \o B)[j]
      BY <2>1, <2>6 DEF b
    <3>2. CASE j \in 1..Len(A)
      BY <2>2, <2>5, <2>6, <3>1, <3>2
    <3>3. CASE j \notin 1..Len(A)
      <4>1. j - Len(A) \in 1..Len(B) /\ j = Len(A) + (j - Len(A))
        BY <2>5, <3>1, <3>3
      <4> QED BY <2>3, <2>5, <2>6, <3>1, <4>1
    <3> QED BY <3>2, <3>3
  <2> QED BY <1>1, <2>7 DEF b
<1>6. CASE op.kind = "move"
  <2>1. TakenBack(e, n) = IF LinkBefore(e, n) = {} THEN <<MoveTo(op.item, NULL, NULL)>>
                          ELSE One({back(x) : x \in LinkBefore(e, n)})
    BY <1>6 DEF TakenBack, Posts, back
  <2>2. b = MoveTo(op.item, NULL, NULL) \/ \E x \in LinkBefore(e, n) : b = back(x)
    BY <1>2, <1>3, <2>1
  <2>3. b.item = op.item
    BY <1>0, <2>2
  <2> QED BY <1>1, <2>3 DEF b
<1>7. CASE op.kind \in Posts
  <2>1. TakenBack(e, n) = One({Delete(x) : x \in Candidates(plan, e, n)})
    BY <1>7 DEF TakenBack, Posts, Patches
  <2>2. PICK x \in Candidates(plan, e, n) : b = Delete(x)
    BY <1>2, <2>1
  <2>3. ~PostBlocked(e, chosen, n)
    BY <1>7 DEF Blocked, Posts, Patches
  <2>4. PICK y \in LinkAfter(e, n) : SameLink(x, y)
    BY <2>3 DEF PostBlocked
  <2>5. x.source \in {y.source, y.target}
    BY <2>4 DEF SameLink
  <2>6. b.item = x.source
    BY <1>0, <2>2
  <2> QED BY <1>1, <2>5, <2>6 DEF b
<1>8. CASE op.kind = "unlink"
  <2>1. TakenBack(e, n) = One({put(x) : x \in LinkBefore(e, n)})
    BY <1>8 DEF TakenBack, Posts, back
  <2>2. PICK x \in LinkBefore(e, n) : b = put(x)
    BY <1>2, <2>1
  <2>3. b.item \in {op.item, x.source}
    BY <1>0, <2>2
  <2> QED BY <1>1, <2>3 DEF b
<1> QED BY <1>4, <1>5, <1>6, <1>7, <1>8 DEF OperationKinds

(* What is applied stays as it is, and so does a proposal as long as it    *)
(* may be applied; only a proposal makes another one.                      *)
LEMMA RowsPersist ==
  ASSUME IInv, [Next]_vars
  PROVE  /\ \A e \in Applieds(log) : e \in Applieds(log') /\ log'[e] = log[e]
         /\ \A c \in Pending' :
              \/ c \in Pending /\ log'[c] = log[c]
              \/ \E e \in DOMAIN log : \E chosen \in SUBSET DOMAIN log[e].ops :
                   ProposeUndo(e, chosen) /\ log'[c] = log'[Len(log) + 1]
<1>0. LogOK /\ clock \in Nat /\ Len(log) \in Nat /\ DOMAIN log = 1..Len(log)
  BY LogFacts DEF IInv, LogOK
<1>1. ASSUME log' = log
      PROVE  /\ \A e \in Applieds(log) : e \in Applieds(log') /\ log'[e] = log[e]
             /\ \A c \in Pending' : c \in Pending /\ log'[c] = log[c]
  BY <1>1 DEF Applieds, Pending
<1>2. ASSUME NEW ops, NEW changes, NEW base, NEW t, NEW result, Tick,
             log' = Append(log, Recorded(ops, changes, base, t, result))
      PROVE  /\ \A e \in Applieds(log) : e \in Applieds(log') /\ log'[e] = log[e]
             /\ \A c \in Pending' : c \in Pending /\ log'[c] = log[c]
  <2> DEFINE row == Recorded(ops, changes, base, t, result)
  <2>1. DOMAIN row = Fields /\ row.status = "applied"
    BY DEF Recorded, Fields
  <2>2. clock' \in Nat
    BY <1>0, <1>2, TickIs
  <2>3. log' = Append(log, row)
    BY <1>2
  <2> HIDE DEF row
  <2>4. /\ DOMAIN log' = 1..(Len(log) + 1) /\ \A d \in 1..Len(log) : log'[d] = log[d]
        /\ log'[Len(log) + 1] = row
    BY <1>0, <2>1, <2>2, <2>3, Appended
  <2>5. \A d \in DOMAIN log' : d = Len(log) + 1 \/ (d \in DOMAIN log /\ log'[d] = log[d])
    BY <1>0, <2>4
  <2> QED BY <1>0, <2>1, <2>4, <2>5 DEF Applieds, Pending
<1>3. ASSUME NEW c \in DOMAIN log, log[c].status = "pending", clock' \in Nat,
             NEW row, DOMAIN row = Fields, row.status # "pending", log' = [log EXCEPT ![c] = row]
      PROVE  /\ \A e \in Applieds(log) : e \in Applieds(log') /\ log'[e] = log[e]
             /\ \A d \in Pending' : d \in Pending /\ log'[d] = log[d]
  <2>1. DOMAIN log' = DOMAIN log /\ \A e \in DOMAIN log : log'[e] = IF e = c THEN row ELSE log[e]
    BY <1>0, <1>3, Replaced
  <2> QED BY <1>3, <2>1 DEF Applieds, Pending
<1>4. CASE UNCHANGED vars
  BY <1>1, <1>4 DEF vars
<1>5. CASE \E op : Edit(op)
  BY <1>2, <1>5 DEF Edit
<1>6. CASE \E ops : Approve(ops)
  BY <1>2, <1>6 DEF Approve
<1>7. CASE \E ops : ApplyTemplate(ops)
  BY <1>2, <1>7 DEF ApplyTemplate
<1>8. CASE \E i : Record(i) \/ Complete(i)
  BY <1>1, <1>8 DEF Record, Complete
<1>9. CASE \E e \in DOMAIN log : \E chosen \in SUBSET DOMAIN log[e].ops : ProposeUndo(e, chosen)
  <2>0. PICK e \in DOMAIN log : \E chosen \in SUBSET DOMAIN log[e].ops : ProposeUndo(e, chosen)
    BY <1>9
  <2>1. PICK chosen \in SUBSET DOMAIN log[e].ops : ProposeUndo(e, chosen)
    BY <2>0
  <2> DEFINE ops == InverseOps(e, chosen)
             seen == Run(plan, ops, Trial)
             row == [status |-> "pending", of |-> e, chosen |-> chosen, from |-> InverseFrom(e, chosen),
                     ops |-> ops, changes |-> [n \in DOMAIN ops |-> Change(seen[n - 1], seen[n])],
                     base |-> plan, at |-> 0, result |-> plan]
  <2>2. log' = Append(log, row) /\ clock' = clock
    BY <2>1 DEF ProposeUndo
  <2>3. DOMAIN row = Fields
    BY DEF Fields
  <2> HIDE DEF row
  <2>4. DOMAIN log' = 1..(Len(log) + 1) /\ \A d \in 1..Len(log) : log'[d] = log[d]
    BY <1>0, <2>2, <2>3, Appended
  <2>5. \A d \in DOMAIN log' : d = Len(log) + 1 \/ (d \in DOMAIN log /\ log'[d] = log[d])
    BY <1>0, <2>4
  <2>6. \A d \in Applieds(log) : d \in Applieds(log') /\ log'[d] = log[d]
    BY <1>0, <2>4 DEF Applieds
  <2>7. \A d \in Pending' : (d \in Pending /\ log'[d] = log[d]) \/ log'[d] = log'[Len(log) + 1]
    BY <2>5 DEF Pending
  <2> QED BY <2>1, <2>6, <2>7
<1>10. CASE \E c \in DOMAIN log : ApplyUndo(c)
  <2>1. PICK c \in DOMAIN log : ApplyUndo(c)
    BY <1>10
  <2> DEFINE ops == log[c].ops
             seen == [n \in 0..Len(ops) |-> IF n = 0 THEN log[c].changes[1].before ELSE log[c].changes[n].after]
             done == Run(plan, ops, Commit)
             row == [log[c] EXCEPT !.status = "applied", !.at = Now,
                                   !.changes = Rebound(ops, seen, done), !.result = plan']
  <2>2. Tick /\ log[c].status = "pending" /\ log' = [log EXCEPT ![c] = row]
    BY <2>1 DEF ApplyUndo
  <2>3. DOMAIN row = Fields /\ row.status = "applied"
    BY <1>0 DEF LogOK, Fields
  <2> HIDE DEF row
  <2>4. clock' \in Nat
    BY <1>0, <2>2, TickIs
  <2>5. row.status # "pending"
    BY <2>3
  <2> QED BY <1>3, <2>2, <2>3, <2>4, <2>5
<1>11. CASE \E c \in DOMAIN log : DropUndo(c)
  <2>1. PICK c \in DOMAIN log : DropUndo(c)
    BY <1>11
  <2>2. PICK status \in {"rejected", "expired"} : log' = [log EXCEPT ![c].status = status]
    BY <2>1 DEF DropUndo
  <2> DEFINE row == [log[c] EXCEPT !.status = status]
  <2>3. log[c].status = "pending" /\ clock' = clock /\ log' = [log EXCEPT ![c] = row]
    BY <2>1, <2>2 DEF DropUndo
  <2>4. DOMAIN row = Fields /\ row.status # "pending"
    BY <1>0 DEF LogOK, Fields
  <2> HIDE DEF row
  <2>5. clock' \in Nat
    BY <1>0, <2>3
  <2> QED BY <1>3, <2>3, <2>4, <2>5
<1> QED BY <1>4, <1>5, <1>6, <1>7, <1>8, <1>9, <1>10, <1>11 DEF Next

(* So does the entry that a proposal is of. *)
LEMMA OfPersists ==
  ASSUME IInv, DInv, [Next]_vars, NEW c \in Pending, log'[c] = log[c]
  PROVE  log[c].of \in DOMAIN log /\ log'[log[c].of] = log[log[c].of]
<1>1. log[c].of \in Applieds(log)
  BY TakenAwayAre DEF DInv, TakenAwayIn, Pending
<1> QED BY <1>1, RowsPersist DEF Applieds

(* Confined of a log. *)
AboutOthers(row, of) == \E m \in DOMAIN row.ops : row.ops[m].item \in Others(of, row.chosen)

LEMMA ConfinedIs ==
  /\ Confined <=> \A c \in Pending : ~AboutOthers(log[c], log[log[c].of])
  /\ Confined' <=> \A c \in Pending' : ~AboutOthers(log'[c], log'[log'[c].of])
<1>1. Confined <=> \A c \in Pending : ~AboutOthers(log[c], log[log[c].of])
  BY AsideIs DEF Confined, AboutOthers
<1>2. \A c : Aside(log[c].of, log[c].chosen)' = Others(log'[log'[c].of], log'[c].chosen)
  <2>1. \A e, chosen : Aside(e, chosen)' = Others(log'[e], chosen)
    BY AsideIs
  <2> QED BY <2>1 DEF Aside
<1>3. Confined' <=> \A c \in Pending' : ~AboutOthers(log'[c], log'[log'[c].of])
  BY <1>2 DEF Confined, AboutOthers
<1> QED BY <1>1, <1>3

(* What a proposal is. *)
LEMMA ProposedIs ==
  ASSUME IInv, NEW e \in DOMAIN log, NEW chosen \in SUBSET DOMAIN log[e].ops, ProposeUndo(e, chosen)
  PROVE  LET row == log'[Len(log) + 1]
         IN  /\ row.of = e /\ row.chosen = chosen /\ row.from = InverseFrom(e, chosen)
             /\ row.ops = InverseOps(e, chosen) /\ row.base = plan
             /\ Undoable(e, chosen) /\ log'[e] = log[e] /\ e \in Applieds(log)
             /\ \A d \in Applieds(log') : d \in Applieds(log) /\ log'[d] = log[d]
<1> DEFINE ops == InverseOps(e, chosen)
           seen == Run(plan, ops, Trial)
           row == [status |-> "pending", of |-> e, chosen |-> chosen, from |-> InverseFrom(e, chosen),
                   ops |-> ops, changes |-> [n \in DOMAIN ops |-> Change(seen[n - 1], seen[n])],
                   base |-> plan, at |-> 0, result |-> plan]
<1>1. Undoable(e, chosen) /\ log' = Append(log, row) /\ clock' = clock
  BY DEF ProposeUndo
<1>2. /\ DOMAIN row = Fields /\ row.of = e /\ row.chosen = chosen /\ row.ops = InverseOps(e, chosen)
      /\ row.from = InverseFrom(e, chosen) /\ row.base = plan /\ row.status = "pending"
  BY DEF Fields
<1> HIDE DEF row
<1>3. LogOK /\ clock' \in Nat
  BY <1>1 DEF IInv, LogOK
<1>4. /\ DOMAIN log' = 1..(Len(log) + 1) /\ Len(log) \in Nat /\ DOMAIN log = 1..Len(log)
      /\ \A d \in 1..Len(log) : log'[d] = log[d]
      /\ log'[Len(log) + 1] = row
  BY <1>1, <1>2, <1>3, Appended, LogFacts
<1>5. e \in Applieds(log)
  BY <1>1 DEF Undoable, Applieds
<1>6. \A d \in DOMAIN log' : d = Len(log) + 1 \/ (d \in DOMAIN log /\ log'[d] = log[d])
  BY <1>4
<1>7. \A d \in Applieds(log') : d \in Applieds(log) /\ log'[d] = log[d]
  BY <1>2, <1>4, <1>6 DEF Applieds
<1> QED BY <1>1, <1>2, <1>4, <1>5, <1>7

(* The operations of an inverse that is proposed are about what those it   *)
(* takes back were about.                                                  *)
LEMMA ProposeConfined ==
  ASSUME IInv, CInv, NEW e \in DOMAIN log, NEW chosen \in SUBSET DOMAIN log[e].ops,
         ProposeUndo(e, chosen)
  PROVE  LET row == log'[Len(log) + 1] IN ~AboutOthers(row, log'[row.of])
<1> DEFINE ops == InverseOps(e, chosen)
           row == log'[Len(log) + 1]
<1>1. /\ Undoable(e, chosen) /\ e \in Applieds(log) /\ log'[row.of] = log[e]
      /\ row.chosen = chosen /\ row.ops = ops
  BY ProposedIs
<1>2. \A m \in DOMAIN ops : \E n \in chosen : ops[m].item \in About(log[e], n)
  <2>1. e \in Versions /\ \A n \in chosen : ~Blocked(e, chosen, n)
    BY <1>1 DEF Undoable, Versions
  <2>2. OpsOK(log[e].ops) /\ \A n \in DOMAIN log[e].ops : PlanOK(Was(e, n)) /\ Op(e, n).kind \in OperationKinds
    BY <2>1 DEF CInv, VersionsOK, OpsOK, Op
  <2>3. \A m \in DOMAIN ops : \E n \in chosen \cap DOMAIN log[e].ops : \E j \in DOMAIN TakenBack(e, n) :
           ops[m] = TakenBack(e, n)[j]
    BY <2>2, InverseIs
  <2> HIDE DEF ops
  <2> QED BY <2>1, <2>2, <2>3, TakenBackAbout
<1> HIDE DEF ops, row
<1>3. ~AboutOthers(row, log[e])
  BY <1>1, <1>2 DEF AboutOthers, Others
<1> QED BY <1>1, <1>3 DEF row

LEMMA ConfinedInit == Init => Confined
<1> SUFFICES ASSUME Init PROVE Confined
  OBVIOUS
<1>1. log = <<>> /\ DOMAIN log = {}
  BY DEF Init
<1> QED BY <1>1 DEF Confined, Pending

LEMMA ConfinedNext == IInv /\ CInv /\ DInv /\ Confined /\ [Next]_vars => Confined'
<1> SUFFICES ASSUME IInv, CInv, DInv, Confined, [Next]_vars, NEW c \in Pending'
             PROVE  ~AboutOthers(log'[c], log'[log'[c].of])
  BY ConfinedIs
<1>1. CASE c \in Pending /\ log'[c] = log[c]
  <2>1. log'[log[c].of] = log[log[c].of]
    BY <1>1, OfPersists
  <2>2. ~AboutOthers(log[c], log[log[c].of])
    BY <1>1, ConfinedIs
  <2> QED BY <1>1, <2>1, <2>2
<1>2. CASE \E e \in DOMAIN log : \E chosen \in SUBSET DOMAIN log[e].ops :
             ProposeUndo(e, chosen) /\ log'[c] = log'[Len(log) + 1]
  <2>0. PICK e \in DOMAIN log : \E chosen \in SUBSET DOMAIN log[e].ops :
               ProposeUndo(e, chosen) /\ log'[c] = log'[Len(log) + 1]
    BY <1>2
  <2>1. PICK chosen \in SUBSET DOMAIN log[e].ops : ProposeUndo(e, chosen) /\ log'[c] = log'[Len(log) + 1]
    BY <2>0
  <2> DEFINE row == log'[Len(log) + 1]
  <2>2. ~AboutOthers(row, log'[row.of])
    BY <2>1, ProposeConfined
  <2> QED BY <2>1, <2>2
<1> QED BY <1>1, <1>2, RowsPersist

(* Proposals are about nothing but what they take back. *)
LEMMA ConfinedAlways == Spec => [](IInv /\ CInv /\ DInv /\ Confined)
<1>1. IInv /\ CInv /\ DInv /\ Confined /\ [Next]_vars => (IInv /\ CInv /\ DInv /\ Confined)'
  BY InvNext, TellsNext, DangleNext, ConfinedNext
<1> QED BY <1>1, InvInit, TellsInit, DangleInit, ConfinedInit, PTL DEF Spec

(* Approving one leaves the rest alone. *)
LEMMA RestStep ==
  ASSUME IInv, CInv, DInv, Confined, [Next]_vars, NEW c \in DOMAIN log, Applied(c)
  PROVE  LeavesTheRest(c)
<1> DEFINE ops == log[c].ops
           of == log[c].of
           I == Aside(of, log[c].chosen)
           r == Result(plan, ops, Commit)
<1>1. Next
  BY DEF Applied, vars
<1>2. ApplyUndo(c)
  BY <1>1, OnlyApproved
<1>3. /\ log[c].status = "pending" /\ c \in Pending /\ log[c].base = plan /\ Goes(plan, ops, Commit)
      /\ plan' = Written(r, Rewritten(ops, Run(plan, ops, Commit)))
  BY <1>2 DEF ApplyUndo, Result, Pending
<1>4. OpsOK(ops)
  BY <1>3 DEF CInv, PlanKept, Described
<1>5. PlanOK(plan) /\ Commit \in Nat /\ Taken(plan, Width * Commit + 1)
  BY PlanReady DEF IInv, CInv
<1>6. of \in Applieds(log) /\ \A n \in DOMAIN ops : ops[n].kind # "create"
  BY <1>3, TakenAwayAre DEF DInv, TakenAwayIn, TakesAway
<1>7. \A n \in DOMAIN ops : ops[n].item \notin I
  BY <1>3 DEF Confined
<1>8. I' = I
  <2>1. of # c /\ of \in DOMAIN log
    BY <1>3, <1>6 DEF Applieds
  <2>2. log'[c].of = of /\ log'[c].chosen = log[c].chosen /\ log'[of] = log[of]
    BY <1>2, <2>1 DEF ApplyUndo, IInv, LogOK, Fields
  <2>3. Aside(of, log[c].chosen) = Others(log[of], log[c].chosen)
    BY AsideIs
  <2>4. \A e, chosen : Aside(e, chosen)' = Others(log'[e], chosen)
    BY AsideIs
  <2>5. I' = Others(log'[of], log[c].chosen)
    BY <2>2, <2>4 DEF Aside
  <2> QED BY <2>2, <2>3, <2>5
<1>9. /\ Items(r) = Items(plan) /\ \A i \in I \cap Items(plan) : r.items[i] = plan.items[i]
      /\ Kept(r, I) = Kept(plan, I)
  <2> HIDE DEF I, ops, r
  <2> QED BY <1>3, <1>4, <1>5, <1>6, <1>7, RunKeeps DEF r
<1>10. plan'.items = r.items /\ plan'.links = r.links
  BY <1>3 DEF Written
<1> HIDE DEF r
<1>11. /\ [i \in I \cap Items(plan') |-> plan'.items[i]] = [i \in I \cap Items(plan) |-> plan.items[i]]
       /\ Kept(plan', I) = Kept(plan, I)
  <2> HIDE DEF I
  <2> QED BY <1>9, <1>10 DEF Items, Kept, Triples
<1>12. \A J : /\ Rest(J) = <<[i \in J \cap Items(plan) |-> plan.items[i]], Kept(plan, J)>>
              /\ Rest(J)' = <<[i \in J \cap Items(plan') |-> plan'.items[i]], Kept(plan', J)>>
  BY RestIs
<1>13. Rest(I)' = Rest(I)
  BY <1>8, <1>11, <1>12 DEF Rest
<1> QED BY <1>13 DEF LeavesTheRest

(* Applying an undo touches nothing but the items its operations were      *)
(* about: every other item, and how they are related to each other, is     *)
(* what it was (LeavesTheRest, the one half of UndoRestores).              *)
THEOREM UndoLeavesTheRest == Spec => [][\A c \in DOMAIN log : Applied(c) => LeavesTheRest(c)]_vars
<1> DEFINE Leaves == \A c \in DOMAIN log : Applied(c) => LeavesTheRest(c)
<1>1. IInv /\ CInv /\ DInv /\ Confined /\ [Next]_vars => [Leaves]_vars
  BY RestStep
<1> QED BY <1>1, ConfinedAlways, PTL DEF Spec

-----------------------------------------------------------------------------
(* What is left of a row and of a relation at the end of a run. *)

(* From one number to a later one. *)
LEMMA FromTo ==
  ASSUME NEW a \in Nat, NEW m \in Nat, a <= m, NEW G, a \in G, \A n \in a .. m - 1 : n \in G => n + 1 \in G
  PROVE  m \in G
<1> DEFINE H == {k \in Nat : a + k \in G}
<1>1. m - a \in Nat /\ 0 \in H /\ a + (m - a) = m
  OBVIOUS
<1>2. ASSUME NEW k \in 0 .. (m - a) - 1, k \in H
      PROVE  k + 1 \in H
  <2>1. a + k \in a .. m - 1 /\ a + k \in G /\ a + (k + 1) = (a + k) + 1
    BY <1>2
  <2>2. (a + k) + 1 \in G
    BY <2>1
  <2>3. a + (k + 1) \in G
    BY <2>1, <2>2
  <2> QED BY <2>3
<1> HIDE DEF H
<1>3. \A k \in 0 .. m - a : k \in H
  BY <1>1, <1>2, UpTo
<1>4. m - a \in H
  BY <1>1, <1>3
<1> QED BY <1>1, <1>4 DEF H

(* What one operation of a run, and no later one, does to an item. *)
LEMMA FieldEnds ==
  ASSUME NEW s, PlanOK(s), NEW ops, OpsOK(ops), NEW t \in Nat, Taken(s, Width * t + 1), Goes(s, ops, t),
         \A k \in DOMAIN ops : ops[k].kind # "create",
         NEW i, NEW j \in 1..3, NEW x, NEW a \in DOMAIN ops,
         ops[a].kind \in Patches, ops[a].item = i, \A w : Sight(w, ops[a])[j] = x,
         \A k \in DOMAIN ops : k > a /\ ops[k].item = i => \A w : w[j] = x => Sight(w, ops[k])[j] = x
  PROVE  LET r == Result(s, ops, t)
         IN  i \in Items(r) /\ Looks(r)[i][j] = x
<1> DEFINE f == Run(s, ops, t)
           m == Len(ops)
           G == {n \in 0..m : i \in Items(f[n]) /\ Looks(f[n])[i][j] = x}
<1>1. m \in Nat /\ DOMAIN ops = 1..m /\ \A k \in 1..m : ops[k].kind \in OperationKinds /\ ops[k].kind # "create"
  BY ListIs DEF OpsOK
<1>2. \A n \in 1..m : f[n] \in Do(f[n - 1], ops[n], Width * t + n)
  BY RunSteps
<1>3. /\ \A n \in 0..m : PlanOK(f[n])
      /\ \A n \in 1..m : Does(f[n - 1], ops[n], Width * t + n, f[n])
  BY RunOK
<1>4. Result(s, ops, t) = f[m]
  BY DEF Result
<1> HIDE DEF f, m
<1>5. \A n \in 1..m : n - 1 \in 0..m /\ Items(f[n]) = Items(f[n - 1])
  <2> SUFFICES ASSUME NEW n \in 1..m
               PROVE  n - 1 \in 0..m /\ Items(f[n]) = Items(f[n - 1])
    OBVIOUS
  <2>1. n - 1 \in 0..m
    BY <1>1
  <2>2. /\ PlanOK(f[n - 1]) /\ ops[n].kind \in OperationKinds /\ ops[n].kind # "create"
        /\ f[n] \in Do(f[n - 1], ops[n], Width * t + n)
    BY <1>1, <1>2, <1>3, <2>1
  <2>3. Items(f[n]) = Items(f[n - 1])
    BY <2>2, RowsStay
  <2> QED BY <2>1, <2>3
<1>6. ASSUME NEW n \in 1..m, i \in Items(f[n])
      PROVE  Looks(f[n])[i] = IF ops[n].item = i THEN Sight(Looks(f[n - 1])[i], ops[n]) ELSE Looks(f[n - 1])[i]
  <2> DEFINE L == Looks(f[n - 1])
             op == ops[n]
  <2>1. Looks(f[n]) = Sights(L, op) /\ i \in DOMAIN L /\ op.kind # "create"
    BY <1>1, <1>3, <1>5, <1>6 DEF Does, Looks
  <2> HIDE DEF L, op
  <2>2. Looks(f[n])[i] = IF op.item = i THEN Sight(L[i], op) ELSE L[i]
    BY <2>1 DEF Sights
  <2> QED BY <2>2 DEF L, op
<1>7. a \in 0..m /\ a \in 1..m /\ a \in Nat /\ a <= m
  BY <1>1
<1>8. a \in G
  <2>1. f[a] \in Patch(f[a - 1], ops[a], Width * t + a)
    BY <1>2, <1>7 DEF Do, Patches, Posts
  <2>2. i \in Items(f[a - 1])
    BY <1>3, <1>5, <1>7, <2>1, PatchRow
  <2>3. i \in Items(f[a])
    BY <1>5, <1>7, <2>2
  <2>4. Looks(f[a])[i] = Sight(Looks(f[a - 1])[i], ops[a])
    BY <1>6, <1>7, <2>3
  <2> QED BY <1>7, <2>3, <2>4
<1>9. ASSUME NEW n \in a .. m - 1, n \in G
      PROVE  n + 1 \in G
  <2>1. n + 1 \in 1..m /\ n + 1 \in 0..m /\ (n + 1) - 1 = n /\ n + 1 > a
    BY <1>1, <1>7
  <2>2. i \in Items(f[n]) /\ Looks(f[n])[i][j] = x
    BY <1>9
  <2>3. i \in Items(f[n + 1])
    BY <1>5, <2>1, <2>2
  <2>4. Looks(f[n + 1])[i] = IF ops[n + 1].item = i THEN Sight(Looks(f[n])[i], ops[n + 1]) ELSE Looks(f[n])[i]
    BY <1>6, <2>1, <2>3
  <2>5. ops[n + 1].item = i => Sight(Looks(f[n])[i], ops[n + 1])[j] = x
    BY <1>1, <2>1, <2>2
  <2> QED BY <2>1, <2>2, <2>3, <2>4, <2>5
<1> HIDE DEF G
<1>10. m \in G
  BY <1>1, <1>7, <1>8, <1>9, FromTo
<1> QED BY <1>4, <1>10 DEF G

(* The relations in T that say what item i is part of, and those that are  *)
(* b, or the same the other way round.                                     *)
Of(T, i) == {a \in T : a[1] = "part_of" /\ a[2] = i}
SameTies(T, b) == {a \in T : SameTie(a, b)}

(* What an operation leaves of the ties that it is not about. *)
LEMMA TiesThrough ==
  ASSUME NEW s, PlanOK(s), NEW ops, OpsOK(ops), NEW t \in Nat, Taken(s, Width * t + 1), Goes(s, ops, t)
  PROVE  LET f == Run(s, ops, t)
             m == Len(ops)
         IN  /\ m \in Nat /\ DOMAIN ops = 1..m /\ f[0] = s /\ Result(s, ops, t) = f[m]
             /\ \A n \in 1..m : Triples(f[n]) = Ties(Triples(f[n - 1]), ops[n])
             /\ \A n \in 1..m : ops[n].kind = "unlink" => <<ops[n].type, ops[n].item, ops[n].to>> \in Triples(f[n - 1])
<1>1. Len(ops) \in Nat /\ DOMAIN ops = 1..Len(ops)
  BY ListIs DEF OpsOK
<1>2. \A n \in 1..Len(ops) : Does(Run(s, ops, t)[n - 1], ops[n], Width * t + n, Run(s, ops, t)[n])
  BY RunOK
<1>3. Run(s, ops, t)[0] = s
  BY RunSteps
<1> QED BY <1>1, <1>2, <1>3 DEF Does, Result

(* What the last operation about it leaves of what an item is part of is   *)
(* what it is part of in the end; and so for one relation.                 *)
LEMMA OfEnds ==
  ASSUME NEW s, PlanOK(s), NEW ops, OpsOK(ops), NEW t \in Nat, Taken(s, Width * t + 1), Goes(s, ops, t),
         NEW i, NEW D, NEW a \in DOMAIN ops,
         \A T : Of(Ties(T, ops[a]), i) = D,
         \A k \in DOMAIN ops : k > a => \A T : Of(T, i) = D => Of(Ties(T, ops[k]), i) = D
  PROVE  Of(Triples(Result(s, ops, t)), i) = D
<1> DEFINE f == Run(s, ops, t)
           m == Len(ops)
           G == {n \in 0..m : Of(Triples(f[n]), i) = D}
<1>1. /\ m \in Nat /\ DOMAIN ops = 1..m /\ Result(s, ops, t) = f[m]
      /\ \A n \in 1..m : Triples(f[n]) = Ties(Triples(f[n - 1]), ops[n])
  BY TiesThrough
<1> HIDE DEF f, m
<1>2. a \in Nat /\ a <= m /\ a \in G
  BY <1>1
<1>3. ASSUME NEW n \in a .. m - 1, n \in G
      PROVE  n + 1 \in G
  <2>1. n + 1 \in 1..m /\ n + 1 \in 0..m /\ (n + 1) - 1 = n /\ n + 1 > a
    BY <1>1
  <2> QED BY <1>1, <1>3, <2>1
<1> HIDE DEF G
<1>4. m \in G
  BY <1>1, <1>2, <1>3, FromTo
<1> QED BY <1>1, <1>4 DEF G

LEMMA TieEnds ==
  ASSUME NEW s, PlanOK(s), NEW ops, OpsOK(ops), NEW t \in Nat, Taken(s, Width * t + 1), Goes(s, ops, t),
         NEW b, NEW a \in DOMAIN ops,
         \A T : b \in Ties(T, ops[a]),
         \A k \in DOMAIN ops : k > a => \A T : b \in T => b \in Ties(T, ops[k])
  PROVE  b \in Triples(Result(s, ops, t))
<1> DEFINE f == Run(s, ops, t)
           m == Len(ops)
           G == {n \in 0..m : b \in Triples(f[n])}
<1>1. /\ m \in Nat /\ DOMAIN ops = 1..m /\ Result(s, ops, t) = f[m]
      /\ \A n \in 1..m : Triples(f[n]) = Ties(Triples(f[n - 1]), ops[n])
  BY TiesThrough
<1> HIDE DEF f, m
<1>2. a \in Nat /\ a <= m /\ a \in G
  BY <1>1
<1>3. ASSUME NEW n \in a .. m - 1, n \in G
      PROVE  n + 1 \in G
  <2>1. n + 1 \in 1..m /\ n + 1 \in 0..m /\ (n + 1) - 1 = n /\ n + 1 > a
    BY <1>1
  <2> QED BY <1>1, <1>3, <2>1
<1> HIDE DEF G
<1>4. m \in G
  BY <1>1, <1>2, <1>3, FromTo
<1> QED BY <1>1, <1>4 DEF G

(* When only b was there, one operation takes it away, and none adds it. *)
LEMMA TieGoes ==
  ASSUME NEW s, PlanOK(s), NEW ops, OpsOK(ops), NEW t \in Nat, Taken(s, Width * t + 1), Goes(s, ops, t),
         NEW b, NEW c, SameTies(Triples(s), c) \subseteq {b}, NEW a \in DOMAIN ops,
         \A T : b \notin Ties(T, ops[a]),
         \A k \in DOMAIN ops : \A T : SameTies(Ties(T, ops[k]), c) \subseteq SameTies(T, c)
  PROVE  SameTies(Triples(Result(s, ops, t)), c) = {}
<1> DEFINE f == Run(s, ops, t)
           m == Len(ops)
           A(n) == SameTies(Triples(f[n]), c)
           F == {n \in 0..m : A(n) \subseteq {b}}
           G == {n \in 0..m : A(n) = {}}
<1>1. /\ m \in Nat /\ DOMAIN ops = 1..m /\ f[0] = s /\ Result(s, ops, t) = f[m]
      /\ \A n \in 1..m : Triples(f[n]) = Ties(Triples(f[n - 1]), ops[n])
  BY TiesThrough
<1> HIDE DEF f, m
<1>2. \A n \in 1..m : n - 1 \in 0..m /\ A(n) \subseteq A(n - 1) /\ (n = a => b \notin A(n))
  <2> SUFFICES ASSUME NEW n \in 1..m
               PROVE  n - 1 \in 0..m /\ A(n) \subseteq A(n - 1) /\ (n = a => b \notin A(n))
    OBVIOUS
  <2>1. n - 1 \in 0..m /\ n \in DOMAIN ops /\ Triples(f[n]) = Ties(Triples(f[n - 1]), ops[n])
    BY <1>1
  <2>2. A(n) \subseteq A(n - 1)
    <3>1. A(n) = SameTies(Ties(Triples(f[n - 1]), ops[n]), c)
      BY <2>1
    <3> QED BY <2>1, <3>1
  <2>3. ASSUME n = a
        PROVE  b \notin A(n)
    <3>1. b \notin Triples(f[n])
      BY <2>1, <2>3
    <3> QED BY <3>1 DEF SameTies
  <2> QED BY <2>1, <2>2, <2>3
<1>3. 0 \in F
  BY <1>1
<1> HIDE DEF A
<1>4. ASSUME NEW n \in 0 .. m - 1, n \in F
      PROVE  n + 1 \in F
  <2>1. n + 1 \in 1..m /\ n + 1 \in 0..m /\ (n + 1) - 1 = n
    BY <1>1
  <2> QED BY <1>2, <1>4, <2>1
<1> HIDE DEF F
<1>5. \A n \in 0..m : n \in F
  BY <1>1, <1>3, <1>4, UpTo
<1>6. a \in Nat /\ a <= m /\ a \in 1..m /\ a \in 0..m
  BY <1>1
<1>7. a \in G
  <2>1. A(a) \subseteq {b} /\ b \notin A(a)
    BY <1>2, <1>5, <1>6 DEF F
  <2> QED BY <1>6, <2>1
<1>8. ASSUME NEW n \in a .. m - 1, n \in G
      PROVE  n + 1 \in G
  <2>1. n + 1 \in 1..m /\ n + 1 \in 0..m /\ (n + 1) - 1 = n
    BY <1>1, <1>6
  <2> QED BY <1>2, <1>8, <2>1
<1> HIDE DEF G
<1>9. m \in G
  BY <1>1, <1>6, <1>7, <1>8, FromTo
<1> QED BY <1>1, <1>9 DEF G, A

-----------------------------------------------------------------------------
(* PInv: nothing stands in the way of a proposal on the plan it was made   *)
(* on.                                                                     *)

(* The parts of what takes an operation back. *)
LEMMA OneInverts ==
  ASSUME NEW e, NEW n, NEW S, S # {}, TakenBack(e, n) = One(S), \A b \in S : Inverts(plan, b, e, n),
         Op(e, n).kind # "create"
  PROVE  /\ \A j \in DOMAIN TakenBack(e, n) : Inverts(plan, TakenBack(e, n)[j], e, n)
         /\ \E j \in DOMAIN TakenBack(e, n) : Op(e, n).kind = "create" => TakenBack(e, n)[j].kind = "archive"
<1>1. PICK x \in S : One(S) = <<x>>
  BY OneIs
<1>2. TakenBack(e, n) = <<x>>
  BY <1>1
<1>3. DOMAIN TakenBack(e, n) = 1..1 /\ TakenBack(e, n)[1] = x
  BY <1>2, TupleIs
<1> QED BY <1>3

LEMMA SingleInverts ==
  ASSUME NEW e, NEW n, NEW b, TakenBack(e, n) = <<b>>, Inverts(plan, b, e, n), Op(e, n).kind # "create"
  PROVE  /\ \A j \in DOMAIN TakenBack(e, n) : Inverts(plan, TakenBack(e, n)[j], e, n)
         /\ \E j \in DOMAIN TakenBack(e, n) : Op(e, n).kind = "create" => TakenBack(e, n)[j].kind = "archive"
<1>1. DOMAIN TakenBack(e, n) = 1..1 /\ TakenBack(e, n)[1] = b
  BY TupleIs
<1> QED BY <1>1

LEMMA TakenBackInverts ==
  ASSUME NEW e, NEW chosen, NEW n, Op(e, n).kind \in OperationKinds, ~Blocked(e, chosen, n)
  PROVE  /\ \A j \in DOMAIN TakenBack(e, n) : Inverts(plan, TakenBack(e, n)[j], e, n)
         /\ \E j \in DOMAIN TakenBack(e, n) : Op(e, n).kind = "create" => TakenBack(e, n)[j].kind = "archive"
<1> DEFINE op == Op(e, n)
           was == Was(e, n)
           back(x) == MoveTo(op.item, x.target, PlaceIn(Siblings(was, x.target), op.item))
           put(x) == IF x.type = "part_of" THEN back(x) ELSE Operation(x.type, x.source, x.target)
<1>0. /\ \A x : /\ Delete(x).kind = "unlink" /\ Delete(x).type = x.type
                /\ Delete(x).item = x.source /\ Delete(x).to = x.target
      /\ \A x : back(x).kind = "move" /\ back(x).item = op.item /\ back(x).to = x.target
      /\ MoveTo(op.item, NULL, NULL).kind = "move"
      /\ MoveTo(op.item, NULL, NULL).item = op.item /\ MoveTo(op.item, NULL, NULL).to = NULL
  BY DEF Delete, Unlink, MoveTo, Operation
<1> HIDE DEF back
<1>1. CASE op.kind = "edit"
  <2> DEFINE b == Operation("edit", op.item, was.items[op.item].title)
  <2>1. TakenBack(e, n) = <<b>>
    BY <1>1 DEF TakenBack, Posts
  <2>3. \A d : d.kind = "edit" /\ d.item = op.item /\ d.to = was.items[op.item].title => Inverts(plan, d, e, n)
    BY <1>1 DEF Inverts, Posts
  <2>4. b.kind = "edit" /\ b.item = op.item /\ b.to = was.items[op.item].title
    BY DEF Operation
  <2>2. Inverts(plan, b, e, n)
    <3> HIDE DEF b, op, was
    <3> QED BY <2>3, <2>4
  <2> QED BY <1>1, <2>1, <2>2, SingleInverts
<1>2. CASE op.kind = "reopen"
  <2> DEFINE b == Operation("reopen", op.item, NULL)
  <2>1. TakenBack(e, n) = <<b>>
    BY <1>2 DEF TakenBack, Posts
  <2>3. \A d : d.kind = "reopen" /\ d.item = op.item => Inverts(plan, d, e, n)
    BY <1>2 DEF Inverts, Posts
  <2>4. b.kind = "reopen" /\ b.item = op.item
    BY DEF Operation
  <2>2. Inverts(plan, b, e, n)
    <3> HIDE DEF b, op
    <3> QED BY <2>3, <2>4
  <2> QED BY <1>2, <2>1, <2>2, SingleInverts
<1>3. CASE op.kind \in {"archive", "restore"}
  <2> DEFINE b == Operation(IF was.items[op.item].archived THEN "archive" ELSE "restore", op.item, NULL)
  <2>1. TakenBack(e, n) = <<b>>
    BY <1>3 DEF TakenBack, Posts
  <2>3. \A d : d.kind = (IF was.items[op.item].archived THEN "archive" ELSE "restore") /\ d.item = op.item =>
               Inverts(plan, d, e, n)
    BY <1>3 DEF Inverts, Posts
  <2>4. b.kind = (IF was.items[op.item].archived THEN "archive" ELSE "restore") /\ b.item = op.item
    BY DEF Operation
  <2>2. Inverts(plan, b, e, n)
    <3> HIDE DEF b, op, was
    <3> QED BY <2>3, <2>4
  <2> QED BY <1>3, <2>1, <2>2, SingleInverts
<1>4. CASE op.kind = "create"
  <2> DEFINE A == One({Delete(x) : x \in Parent(plan, op.item)})
             B == <<Operation("archive", op.item, NULL)>>
  <2>1. TakenBack(e, n) = A \o B
    BY <1>4 DEF TakenBack, Posts
  <2>2. \A b : b.item = op.item /\ (b.kind = "archive" \/ (b.kind = "unlink" /\ b.type = "part_of")) => Inverts(plan, b, e, n)
    BY <1>4 DEF Inverts, Posts
  <2>3. \A k \in DOMAIN A : Inverts(plan, A[k], e, n)
    <3> DEFINE D == {Delete(x) : x \in Parent(plan, op.item)}
    <3>1. \A d \in D : Inverts(plan, d, e, n)
      <4>1. \A x \in Parent(plan, op.item) : x.source = op.item /\ x.type = "part_of"
        BY DEF Parent, In!PartOf
      <4>2. \A x \in Parent(plan, op.item) :
               Delete(x).kind = "unlink" /\ Delete(x).type = "part_of" /\ Delete(x).item = op.item
        BY <1>0, <4>1
      <4>3. \A x \in Parent(plan, op.item) : Inverts(plan, Delete(x), e, n)
        <5> HIDE DEF op
        <5> QED BY <2>2, <4>2
      <4> QED BY <4>3
    <3> HIDE DEF D
    <3>2. D # {} => \E x \in D : One(D) = <<x>>
      BY OneIs
    <3>3. D = {} => One(D) = <<>>
      BY OneIs
    <3> QED BY <3>1, <3>2, <3>3, TupleIs, EmptyIs DEF D
  <2>4. DOMAIN B = 1..1 /\ B[1].kind = "archive" /\ Inverts(plan, B[1], e, n)
    <3>1. B[1] = Operation("archive", op.item, NULL) /\ DOMAIN B = 1..1
      BY TupleIs
    <3>2. B[1].kind = "archive" /\ B[1].item = op.item
      <4> HIDE DEF B
      <4> QED BY <3>1 DEF Operation
    <3>3. Inverts(plan, B[1], e, n)
      <4> HIDE DEF B, op
      <4> QED BY <2>2, <3>2
    <3> QED BY <3>1, <3>2, <3>3
  <2>5. Small(A) /\ Small(B)
    <3>1. /\ {"unlink", "archive"} \subseteq OperationKinds \ {"create"}
          /\ \A x : Delete(x).kind = "unlink"
          /\ Operation("archive", op.item, NULL).kind = "archive"
      BY DEF OperationKinds, Patches, Posts, Delete, Unlink, Operation
    <3> QED BY <3>1, OneSmall, SingleSmall
  <2>6. Len(B) = 1
    BY TupleIs
  <2> HIDE DEF A, B
  <2>7. /\ Len(A) \in Nat /\ A = [k \in 1..Len(A) |-> A[k]] /\ B = [k \in 1..1 |-> B[k]]
        /\ DOMAIN A = 1..Len(A)
    BY <2>5, <2>6, ListIs DEF Small
  <2>8. /\ DOMAIN (A \o B) = 1 .. Len(A) + 1
        /\ \A k \in 1..Len(A) : (A \o B)[k] = A[k]
        /\ \A k \in 1..1 : (A \o B)[Len(A) + k] = B[k]
    BY <2>7, JoinedList
  <2>9. ASSUME NEW j \in 1 .. Len(A) + 1
        PROVE  Inverts(plan, (A \o B)[j], e, n)
    <3>1. CASE j \in 1..Len(A)
      BY <2>3, <2>7, <2>8, <3>1
    <3>2. CASE j \notin 1..Len(A)
      <4>1. j = Len(A) + 1
        BY <2>7, <3>2
      <4>2. (A \o B)[j] = B[1]
        BY <2>8, <4>1
      <4> QED BY <2>4, <4>2
    <3> QED BY <3>1, <3>2
  <2>10. Len(A) + 1 \in DOMAIN (A \o B) /\ (A \o B)[Len(A) + 1].kind = "archive"
    BY <2>4, <2>7, <2>8
  <2> QED BY <2>1, <2>8, <2>9, <2>10
<1>5. CASE op.kind = "move"
  <2>1. TakenBack(e, n) = IF LinkBefore(e, n) = {} THEN <<MoveTo(op.item, NULL, NULL)>>
                          ELSE One({back(x) : x \in LinkBefore(e, n)})
    BY <1>5 DEF TakenBack, Posts, back
  <2>2. CASE LinkBefore(e, n) = {}
    <3> DEFINE b == MoveTo(op.item, NULL, NULL)
    <3>2. \A d : d.kind = "move" /\ d.item = op.item /\ d.to = NULL => Inverts(plan, d, e, n)
      BY <1>5, <2>2 DEF Inverts, Posts
    <3>3. b.kind = "move" /\ b.item = op.item /\ b.to = NULL
      BY <1>0
    <3>1. Inverts(plan, b, e, n)
      <4> HIDE DEF b, op
      <4> QED BY <3>2, <3>3
    <3> QED BY <1>5, <2>1, <2>2, <3>1, SingleInverts
  <2>3. CASE LinkBefore(e, n) # {}
    <3> DEFINE D == {back(x) : x \in LinkBefore(e, n)}
    <3>1. D # {} /\ TakenBack(e, n) = One(D)
      BY <2>1, <2>3
    <3>3. \A d : \A x \in LinkBefore(e, n) :
             d.kind = "move" /\ d.item = op.item /\ d.to = x.target => Inverts(plan, d, e, n)
      BY <1>5, <2>3 DEF Inverts, Posts
    <3>4. \A x \in LinkBefore(e, n) : Inverts(plan, back(x), e, n)
      <4> HIDE DEF op
      <4> QED BY <1>0, <3>3
    <3>2. \A b \in D : Inverts(plan, b, e, n)
      BY <3>4
    <3> HIDE DEF D
    <3> QED BY <1>5, <3>1, <3>2, OneInverts
  <2> QED BY <2>2, <2>3
<1>6. CASE op.kind \in Posts
  <2> DEFINE D == {Delete(x) : x \in Candidates(plan, e, n)}
  <2>1. TakenBack(e, n) = One(D)
    BY <1>6 DEF TakenBack, Posts, Patches
  <2>2. ~PostBlocked(e, chosen, n)
    BY <1>6 DEF Blocked, Posts, Patches
  <2>3. D # {}
    BY <2>2 DEF PostBlocked
  <2>6. \A d : \A x \in Candidates(plan, e, n) :
           d.kind = "unlink" /\ d.type = x.type /\ d.item = x.source /\ d.to = x.target => Inverts(plan, d, e, n)
    BY <1>6 DEF Inverts, Posts
  <2>7. \A x \in Candidates(plan, e, n) : Inverts(plan, Delete(x), e, n)
    BY <1>0, <2>6
  <2>4. \A b \in D : Inverts(plan, b, e, n)
    BY <2>7
  <2>5. op.kind # "create"
    BY <1>6 DEF Posts
  <2> HIDE DEF D
  <2> QED BY <2>1, <2>3, <2>4, <2>5, OneInverts
<1>7. CASE op.kind = "unlink"
  <2> DEFINE D == {put(x) : x \in LinkBefore(e, n)}
  <2>1. TakenBack(e, n) = One(D)
    BY <1>7 DEF TakenBack, Posts, back
  <2>2. ~UnlinkBlocked(e, chosen, n)
    BY <1>7 DEF Blocked, Posts, Patches
  <2>3. D # {}
    BY <2>2 DEF UnlinkBlocked
  <2>4. \A x \in LinkBefore(e, n) : x.type = op.type /\ x.source = op.item /\ x.target = op.to
    BY <1>7 DEF LinkBefore
  <2>6. \A d : d.kind = (IF op.type = "part_of" THEN "move" ELSE op.type) /\ d.item = op.item /\ d.to = op.to =>
               Inverts(plan, d, e, n)
    BY <1>7 DEF Inverts, Posts
  <2>7. \A x \in LinkBefore(e, n) :
           put(x).kind = (IF op.type = "part_of" THEN "move" ELSE op.type) /\ put(x).item = op.item /\ put(x).to = op.to
    <3> SUFFICES ASSUME NEW x \in LinkBefore(e, n)
                 PROVE  /\ put(x).kind = (IF op.type = "part_of" THEN "move" ELSE op.type)
                        /\ put(x).item = op.item /\ put(x).to = op.to
      OBVIOUS
    <3>1. x.type = op.type /\ x.source = op.item /\ x.target = op.to
      BY <2>4
    <3>2. CASE x.type = "part_of"
      <4>1. put(x) = back(x)
        BY <3>2
      <4> HIDE DEF put
      <4> QED BY <1>0, <3>1, <3>2, <4>1
    <3>3. CASE x.type # "part_of"
      <4>1. put(x) = Operation(x.type, x.source, x.target)
        BY <3>3
      <4>2. put(x).kind = x.type /\ put(x).item = x.source /\ put(x).to = x.target
        BY <4>1 DEF Operation
      <4> HIDE DEF put
      <4> QED BY <3>1, <3>3, <4>2
    <3> QED BY <3>2, <3>3
  <2>8. \A x \in LinkBefore(e, n) : Inverts(plan, put(x), e, n)
    <3> HIDE DEF put, op
    <3> QED BY <2>6, <2>7
  <2>5. \A b \in D : Inverts(plan, b, e, n)
    <3> HIDE DEF put
    <3> QED BY <2>8
  <2> HIDE DEF D
  <2> QED BY <1>7, <2>1, <2>3, <2>5, OneInverts
<1> QED BY <1>1, <1>2, <1>3, <1>4, <1>5, <1>6, <1>7 DEF OperationKinds, Patches

(* A link that is posted has no position, and one that is moved has. *)
LEMMA RelateLinks ==
  ASSUME NEW s, NEW op, NEW t, NEW r \in Relate(s, op, t)
  PROVE  /\ r.links = s.links \cup {NewLink(op.kind, op.item, op.to, NULL, t)}
         /\ op.kind = "part_of" => ~\E y \in s.links : y.type = "part_of" /\ y.source = op.item
<1> DEFINE x == NewLink(op.kind, op.item, op.to, NULL, t)
<1>1. In(s)!Valid(s.items, s.links, x) /\ r = [s EXCEPT !.links = @ \cup {x}]
  BY DEF Relate
<1>2. x.type = op.kind /\ x.source = op.item
  BY DEF NewLink
<1> HIDE DEF x
<1>3. op.kind = "part_of" => ~\E y \in s.links : y.type = "part_of" /\ y.source = op.item
  BY <1>1, <1>2, ValidIs
<1>4. "links" \in DOMAIN s => r.links = s.links \cup {x}
  BY <1>1
<1> QED BY <1>1, <1>3, <1>4 DEF x

LEMMA PostPlace ==
  ASSUME NEW s, NEW op, NEW t, op.kind = "part_of", NEW r \in Do(s, op, t), PlanOK(s),
         NEW x \in r.links, x.type = "part_of", x.source = op.item
  PROVE  x.position = NULL
<1>1. r \in Relate(s, op, t)
  BY DEF Do, Posts, Patches
<1>2. x = NewLink(op.kind, op.item, op.to, NULL, t)
  BY <1>1, RelateLinks
<1> QED BY <1>2 DEF NewLink

LEMMA MovePlace ==
  ASSUME NEW s, NEW op, NEW t, op.kind = "move", NEW r \in Do(s, op, t), PlanOK(s),
         NEW x \in Parent(r, op.item)
  PROVE  x.position # NULL
<1> DEFINE old == Parent(s, op.item)
           left == UNION {In(s)!Siblings(y.target, op.item) : y \in {y \in old : y.target # op.to}}
           there == IF op.to = NULL THEN {} ELSE In(s)!Siblings(op.to, op.item)
           k == IF op.at = NULL THEN Cardinality(there) ELSE op.at
           id == IF old = {} THEN t ELSE (CHOOSE y \in old : TRUE).id
           x0 == NewLink("part_of", op.item, op.to, k, id)
           n == Cardinality(left)
<1>0. r \in Reparent(s, op, t)
  BY DEF Do, Posts, Patches
<1>1. old = {y \in s.links : y.type = "part_of" /\ y.source = op.item}
  BY DEF Parent, In!PartOf
<1>2. there \in SUBSET s.links /\ \A y \in there : y.source # op.item
  BY SiblingsAre
<1>3. \A y \in left : y.source # op.item
  BY SiblingsAre
<1>4. \A S, gap : \A z \in In(s)!Numbered(S, gap) : \E y \in S : z.source = y.source
  <2> TAKE S, gap
  <2> TAKE z \in In(s)!Numbered(S, gap)
  <2> DEFINE h(y) == IF In(s)!Rank(S, y) < gap THEN In(s)!Rank(S, y) ELSE In(s)!Rank(S, y) + 1
  <2>1. In(s)!Numbered(S, gap) = {[y EXCEPT !.position = h(y)] : y \in S}
    BY NumberedIs
  <2> HIDE DEF h
  <2>2. PICK y \in S : z = [y EXCEPT !.position = h(y)]
    BY <2>1
  <2>3. z.source = y.source
    BY <2>2
  <2> QED BY <2>3
<1>5. x \in r.links /\ x.type = "part_of" /\ x.source = op.item
  BY DEF Parent, In!PartOf
<1>6. /\ op.to = NULL => r.links = (s.links \ (old \cup left)) \cup In(s)!Numbered(left, n)
      /\ op.to # NULL => r.links = (s.links \ (old \cup there \cup left)) \cup {x0}
                                      \cup In(s)!Numbered(there, k) \cup In(s)!Numbered(left, n)
  <2>1. "links" \in DOMAIN s
    BY DEF PlanOK, IsPlan
  <2>2. /\ op.to = NULL => r = [s EXCEPT !.links = (@ \ (old \cup left)) \cup In(s)!Numbered(left, n)]
        /\ op.to # NULL => r = [s EXCEPT !.links = (@ \ (old \cup there \cup left))
                                   \cup {x0} \cup In(s)!Numbered(there, k) \cup In(s)!Numbered(left, n)]
    BY <1>0 DEF Reparent
  <2> HIDE DEF old, left, there, k, x0, n
  <2> QED BY <2>1, <2>2
<1>7. k # NULL
  <2>1. IsFiniteSet(there)
    <3> HIDE DEF there
    <3> QED BY <1>2, FS_Subset DEF PlanOK, LinksOK
  <2>2. Cardinality(there) \in Int
    <3> HIDE DEF there
    <3> QED BY <2>1, FS_CardinalityType
  <2> HIDE DEF there
  <2> QED BY <2>2, NullAssumption
<1>8. x0.position = k
  BY DEF NewLink
<1> HIDE DEF old, left, there, k, x0, n
<1>9. x = x0
  BY <1>1, <1>2, <1>3, <1>4, <1>5, <1>6
<1> QED BY <1>7, <1>8, <1>9

(* Positioned of an entry. *)
PlacedIn(row) ==
  \A n \in DOMAIN row.ops : \A x \in RowAfter(row, n) :
    /\ row.ops[n].kind = "part_of" => x.position = NULL
    /\ row.ops[n].kind = "move" => x.position # NULL

LEMMA PositionedIs ==
  /\ Positioned <=> \A e \in Applieds(log) : PlacedIn(log[e])
  /\ Positioned' <=> \A e \in Applieds(log') : PlacedIn(log'[e])
BY RowLinks DEF Positioned, PlacedIn, Op, Versions, Applieds

LEMMA RunPlaced ==
  ASSUME NEW s, PlanOK(s), NEW ops, OpsOK(ops), NEW t \in Nat, Taken(s, Width * t + 1), Goes(s, ops, t),
         NEW row, row.ops = ops,
         \A n \in DOMAIN ops : ops[n].kind \in {"part_of", "move"} => row.changes[n].after = Run(s, ops, t)[n]
  PROVE  PlacedIn(row)
<1> DEFINE f == Run(s, ops, t)
<1> SUFFICES ASSUME NEW n \in DOMAIN ops, NEW x \in RowAfter(row, n)
             PROVE  /\ ops[n].kind = "part_of" => x.position = NULL
                    /\ ops[n].kind = "move" => x.position # NULL
  BY DEF PlacedIn
<1>1. Len(ops) \in Nat /\ n \in 1..Len(ops) /\ n - 1 \in 0..Len(ops)
  BY ListIs DEF OpsOK
<1>2. f[n] \in Do(f[n - 1], ops[n], Width * t + n) /\ PlanOK(f[n - 1])
  BY <1>1, RunSteps, RunOK
<1> HIDE DEF f
<1>3. CASE ops[n].kind = "part_of"
  <2>1. x \in f[n].links /\ x.type = "part_of" /\ x.source = ops[n].item
    BY <1>3 DEF RowAfter, Posts, f
  <2> QED BY <1>2, <1>3, <2>1, PostPlace
<1>4. CASE ops[n].kind = "move"
  <2>1. x \in Parent(f[n], ops[n].item)
    BY <1>4 DEF RowAfter, Posts, f
  <2> QED BY <1>2, <1>4, <2>1, MovePlace
<1> QED BY <1>3, <1>4

(* A compound write gives no link a position. *)
LEMMA RunUnplaced ==
  ASSUME NEW s, PlanOK(s), NEW ops, OpsOK(ops), NEW t \in Nat, Taken(s, Width * t + 1), Goes(s, ops, t),
         \A n \in DOMAIN ops : ops[n].kind \in Posts \cup {"create"}
  PROVE  \A x \in Result(s, ops, t).links : x \in s.links \/ x.position = NULL
<1> DEFINE f == Run(s, ops, t)
           m == Len(ops)
           G == {n \in 0..m : \A x \in f[n].links : x \in s.links \/ x.position = NULL}
<1>1. m \in Nat /\ DOMAIN ops = 1..m
  BY ListIs DEF OpsOK
<1>2. f[0] = s /\ \A n \in 1..m : f[n] \in Do(f[n - 1], ops[n], Width * t + n)
  BY RunSteps
<1>2a. \A n \in 0..m : PlanOK(f[n])
  BY RunOK
<1> HIDE DEF f, m
<1>3. ASSUME NEW n \in 0 .. m - 1, n \in G
      PROVE  n + 1 \in G
  <2> DEFINE q == f[n]
             r == f[n + 1]
             op == ops[n + 1]
  <2>1. n + 1 \in 1..m /\ (n + 1) - 1 = n /\ n + 1 \in 0..m /\ n \in 0..m
    BY <1>1
  <2>2. r \in Do(q, op, Width * t + (n + 1)) /\ op.kind \in Posts \cup {"create"} /\ PlanOK(q)
    BY <1>1, <1>2, <1>2a, <2>1
  <2>3. \A x \in q.links : x \in s.links \/ x.position = NULL
    BY <1>3
  <2>a. \A kind, i, j, id : NewLink(kind, i, j, NULL, id).position = NULL
    BY DEF NewLink
  <2> HIDE DEF q, r, op
  <2>4. \A x \in r.links : x \in q.links \/ x.position = NULL
    <3>1. CASE op.kind \in Posts
      <4>1. r \in Relate(q, op, Width * t + (n + 1))
        BY <2>2, <3>1 DEF Do, Posts, Patches
      <4>2. r.links = q.links \cup {NewLink(op.kind, op.item, op.to, NULL, Width * t + (n + 1))}
        BY <4>1, RelateLinks
      <4> QED BY <2>a, <4>2
    <3>2. CASE op.kind = "create"
      <4> DEFINE made == [q EXCEPT !.items = Append(@, [kind |-> "outcome", archived |-> FALSE,
                                             title |-> 0, done |-> FALSE, since |-> NULL])]
                 link == Operation("part_of", op.item, op.to)
      <4>1. r \in Create(q, op, Width * t + (n + 1))
        BY <2>2, <3>2 DEF Do, Posts, Patches
      <4>2. r = made \/ r \in Relate(made, link, Width * t + (n + 1))
        BY <4>1 DEF Create
      <4>3. made.links = q.links
        BY <2>2 DEF PlanOK, IsPlan
      <4> HIDE DEF made, link
      <4>4. CASE r = made
        BY <4>3, <4>4
      <4>5. CASE r \in Relate(made, link, Width * t + (n + 1))
        <5>1. r.links = made.links \cup {NewLink(link.kind, link.item, link.to, NULL, Width * t + (n + 1))}
          BY <4>5, RelateLinks
        <5> QED BY <2>a, <4>3, <5>1
      <4> QED BY <4>2, <4>4, <4>5
    <3> QED BY <2>2, <3>1, <3>2
  <2> QED BY <2>1, <2>3, <2>4 DEF r
<1>4. 0 \in G
  BY <1>1, <1>2
<1>5. m \in G
  <2> HIDE DEF G
  <2>1. m \in 0..m
    BY <1>1
  <2> QED BY <1>1, <1>3, <1>4, <2>1, UpTo
<1>6. Result(s, ops, t) = f[m]
  BY DEF Result, f, m
<1> QED BY <1>5, <1>6

LEMMA TemplatePlaced ==
  ASSUME NEW s, PlanOK(s), NEW r, PlanOK(r), \A x \in r.links : x \in s.links \/ x.position = NULL,
         NEW row, row.ops = Derived(s, r), \A n \in DOMAIN row.ops : row.changes[n].after = r
  PROVE  PlacedIn(row)
<1> DEFINE D == Derived(s, r)
<1>1. /\ \A n \in DOMAIN D : D[n].kind \in Posts \cup {"create"}
      /\ \A n \in DOMAIN D : D[n].kind \in Posts =>
           \E x \in Tied(s, r) : D[n].kind = x.type /\ D[n].item = x.source /\ D[n].to = x.target
  BY DerivedLists
<1> HIDE DEF D
<1>2. \A n \in DOMAIN D : D[n].kind # "move"
  BY <1>1 DEF Posts
<1>3. ASSUME NEW n \in DOMAIN D, D[n].kind = "part_of", NEW y \in RowAfter(row, n)
      PROVE  y.position = NULL
  <2>1. D[n].kind \in Posts /\ row.ops[n] = D[n] /\ row.changes[n].after = r
    BY <1>3 DEF Posts, D
  <2>2. y \in r.links /\ y.type = "part_of" /\ y.source = D[n].item
    BY <1>3, <2>1 DEF RowAfter, Posts
  <2>3. PICK x \in Tied(s, r) : D[n].kind = x.type /\ D[n].item = x.source
    BY <1>1, <2>1
  <2>4. x \in r.links /\ x \notin s.links
    BY DEF Tied
  <2>5. x = y
    BY <1>3, <2>2, <2>3, <2>4 DEF PlanOK, LinksOK
  <2> QED BY <2>4, <2>5
<1> QED BY <1>2, <1>3 DEF PlacedIn, D

(* InTurn and Unhindered of entries and a plan. *)
CandidatesIn(of, n, p) == {x \in p.links : \E y \in RowAfter(of, n) : x.id = y.id \/ SameLink(x, y)}

InvertsIn(b, of, n, p) ==
  LET op == of.ops[n]
      i == op.item
      was == of.changes[n].before
  IN  CASE op.kind = "edit"    -> b.kind = "edit" /\ b.item = i /\ b.to = was.items[i].title
        [] op.kind = "reopen"  -> b.kind = "reopen" /\ b.item = i
        [] op.kind \in {"archive", "restore"} ->
             b.kind = (IF was.items[i].archived THEN "archive" ELSE "restore") /\ b.item = i
        [] op.kind = "create"  ->
             b.item = i /\ (b.kind = "archive" \/ (b.kind = "unlink" /\ b.type = "part_of"))
        [] op.kind = "move"    ->
             /\ b.kind = "move" /\ b.item = i
             /\ b.to \in IF RowBefore(of, n) = {} THEN {NULL} ELSE {x.target : x \in RowBefore(of, n)}
        [] op.kind \in Posts   ->
             b.kind = "unlink" /\ \E x \in CandidatesIn(of, n, p) : b.type = x.type /\ b.item = x.source /\ b.to = x.target
        [] op.kind = "unlink"  ->
             b.kind = (IF op.type = "part_of" THEN "move" ELSE op.type) /\ b.item = i /\ b.to = op.to

TargetIn(of, n) ==
  IF of.ops[n].kind \in Posts \cup {"unlink"} THEN <<"relations", RowBefore(of, n) \cup RowAfter(of, n)>>
                                              ELSE <<"items", of.ops[n].item>>

InTurnIn(row, of, p) ==
  /\ \A k \in DOMAIN row.ops : row.from[k] \in row.chosen /\ InvertsIn(row.ops[k], of, row.from[k], p)
  /\ \A j, k \in DOMAIN row.ops : j < k => row.from[k] <= row.from[j]
  /\ \A n \in row.chosen : \E k \in DOMAIN row.ops :
       row.from[k] = n /\ (of.ops[n].kind = "create" => row.ops[k].kind = "archive")
  /\ \A m, n \in row.chosen : TargetIn(of, m) = TargetIn(of, n) => m = n

UnhinderedIn(of, n, p) ==
  LET op == of.ops[n]
  IN  /\ op.kind = "reopen" => ~of.changes[n].before.items[op.item].done
      /\ op.kind = "move" => Parent(p, op.item) = RowAfter(of, n)
      /\ op.kind \in Posts =>
           \E x \in p.links, y \in RowAfter(of, n) :
             CandidatesIn(of, n, p) = {x} /\ SameLink(x, y) /\ x.position = y.position
      /\ op.kind = "unlink" =>
           /\ RowBefore(of, n) # {}
           /\ \A y \in RowBefore(of, n) : ~\E x \in p.links : SameLink(x, y)
           /\ op.type = "part_of" => Parent(p, op.item) = {}

Takes(row, of) == InTurnIn(row, of, row.base) /\ \A n \in row.chosen : UnhinderedIn(of, n, row.base)

TakesIn(L) == \A c \in DOMAIN L : L[c].status = "pending" => Takes(L[c], L[L[c].of])

(* They are InTurn and Unhindered, now and after a step. *)
LEMMA CandidatesAre ==
  ASSUME NEW s, NEW e, NEW n
  PROVE  /\ Candidates(s, e, n) = CandidatesIn(log[e], n, s)
         /\ Candidates(s, e, n)' = CandidatesIn(log'[e], n, s)
<1>1. Candidates(s, e, n) = CandidatesIn(log[e], n, s)
  BY RowLinks DEF Candidates, CandidatesIn
<1>2. Candidates(s, e, n)' = CandidatesIn(log'[e], n, s)
  BY RowLinks DEF Candidates, CandidatesIn
<1> QED BY <1>1, <1>2

LEMMA TargetIs ==
  ASSUME NEW e, NEW n
  PROVE  Target(e, n) = TargetIn(log[e], n) /\ Target(e, n)' = TargetIn(log'[e], n)
<1>1. Target(e, n) = TargetIn(log[e], n)
  BY RowLinks DEF Target, TargetIn, Delta, Op
<1>2. Target(e, n)' = TargetIn(log'[e], n)
  BY RowLinks DEF Target, TargetIn, Delta, Op
<1> QED BY <1>1, <1>2

LEMMA UnhinderedIs ==
  ASSUME NEW s, NEW e, NEW n
  PROVE  /\ Unhindered(s, e, n) <=> UnhinderedIn(log[e], n, s)
         /\ Unhindered(s, e, n)' <=> UnhinderedIn(log'[e], n, s)
<1>1. Unhindered(s, e, n) <=> UnhinderedIn(log[e], n, s)
  BY RowLinks, CandidatesAre DEF Unhindered, UnhinderedIn, Op, Was
<1>2. Unhindered(s, e, n)' <=> UnhinderedIn(log'[e], n, s)
  BY RowLinks, CandidatesAre DEF Unhindered, UnhinderedIn, Op, Was
<1> QED BY <1>1, <1>2

LEMMA InvertsAre ==
  ASSUME NEW s, NEW b, NEW e, NEW n
  PROVE  /\ Inverts(s, b, e, n) <=> InvertsIn(b, log[e], n, s)
         /\ Inverts(s, b, e, n)' <=> InvertsIn(b, log'[e], n, s)
<1>1. Inverts(s, b, e, n) <=> InvertsIn(b, log[e], n, s)
  BY RowLinks, CandidatesAre DEF Inverts, InvertsIn, Op, Was
<1>2. Inverts(s, b, e, n)' <=> InvertsIn(b, log'[e], n, s)
  BY RowLinks, CandidatesAre DEF Inverts, InvertsIn, Op, Was
<1> QED BY <1>1, <1>2

LEMMA InTurnIs ==
  ASSUME NEW c
  PROVE  /\ InTurn(c) <=> InTurnIn(log[c], log[log[c].of], log[c].base)
         /\ InTurn(c)' <=> InTurnIn(log'[c], log'[log'[c].of], log'[c].base)
<1>1. InTurn(c) <=> InTurnIn(log[c], log[log[c].of], log[c].base)
  BY InvertsAre, TargetIs DEF InTurn, InTurnIn, Op
<1>2. \A k : Inverts(log[c].base, log[c].ops[k], log[c].of, log[c].from[k])' <=>
               InvertsIn(log'[c].ops[k], log'[log'[c].of], log'[c].from[k], log'[c].base)
  <2>1. \A s, b, e, n : Inverts(s, b, e, n)' <=> InvertsIn(b, log'[e], n, s)
    BY InvertsAre
  <2> QED BY <2>1 DEF Inverts, Candidates, LinkBefore, LinkAfter, Op, Was, Became
<1>3. \A n : Target(log[c].of, n)' = TargetIn(log'[log'[c].of], n)
  <2>1. \A e, n : Target(e, n)' = TargetIn(log'[e], n)
    BY TargetIs
  <2> QED BY <2>1 DEF Target, Delta, LinkBefore, LinkAfter, Op, Was, Became
<1>4. InTurn(c)' <=> InTurnIn(log'[c], log'[log'[c].of], log'[c].base)
  BY <1>2, <1>3 DEF InTurn, InTurnIn, Op
<1> QED BY <1>1, <1>4

LEMMA TakesAre ==
  /\ (\A c \in Pending : InTurn(c) /\ \A n \in log[c].chosen : Unhindered(log[c].base, log[c].of, n))
       <=> TakesIn(log)
  /\ (\A c \in Pending : InTurn(c) /\ \A n \in log[c].chosen : Unhindered(log[c].base, log[c].of, n))'
       <=> TakesIn(log')
<1>1. (\A c \in Pending : InTurn(c) /\ \A n \in log[c].chosen : Unhindered(log[c].base, log[c].of, n))
       <=> TakesIn(log)
  BY InTurnIs, UnhinderedIs DEF Pending, TakesIn, Takes
<1>2. \A c, n : Unhindered(log[c].base, log[c].of, n)' <=> UnhinderedIn(log'[log'[c].of], n, log'[c].base)
  <2>1. \A c, n : LinkAfter(log[c].of, n)' = RowAfter(log'[log'[c].of], n)
    <3>1. \A e, n : LinkAfter(e, n)' = RowAfter(log'[e], n)
      BY RowLinks
    <3> QED BY <3>1 DEF LinkAfter, Op, Became
  <2>2. \A c, n : LinkBefore(log[c].of, n)' = RowBefore(log'[log'[c].of], n)
    <3>1. \A e, n : LinkBefore(e, n)' = RowBefore(log'[e], n)
      BY RowLinks
    <3> QED BY <3>1 DEF LinkBefore, Op, Was
  <2>3. \A c, n : Candidates(log[c].base, log[c].of, n)' = CandidatesIn(log'[log'[c].of], n, log'[c].base)
    BY <2>1 DEF Candidates, CandidatesIn
  <2> SUFFICES ASSUME NEW c, NEW n
               PROVE  Unhindered(log[c].base, log[c].of, n)' <=> UnhinderedIn(log'[log'[c].of], n, log'[c].base)
    OBVIOUS
  <2>4. /\ LinkAfter(log[c].of, n)' = RowAfter(log'[log'[c].of], n)
        /\ LinkBefore(log[c].of, n)' = RowBefore(log'[log'[c].of], n)
        /\ Candidates(log[c].base, log[c].of, n)' = CandidatesIn(log'[log'[c].of], n, log'[c].base)
    BY <2>1, <2>2, <2>3
  <2> QED BY <2>4 DEF Unhindered, UnhinderedIn, Op, Was
<1>3. (\A c \in Pending : InTurn(c) /\ \A n \in log[c].chosen : Unhindered(log[c].base, log[c].of, n))'
       <=> TakesIn(log')
  BY <1>2, InTurnIs DEF Pending, TakesIn, Takes
<1> QED BY <1>1, <1>3

LEMMA PInvIs ==
  /\ PInv <=> (\A e \in Applieds(log) : PlacedIn(log[e])) /\ TakesIn(log)
  /\ PInv' <=> (\A e \in Applieds(log') : PlacedIn(log'[e])) /\ TakesIn(log')
BY TakesAre, PositionedIs DEF PInv

AllPlaced == \A e \in Applieds(log) : PlacedIn(log[e])

(* A write with an entry keeps AllPlaced when what the entry posted has no *)
(* position and what it moved has.                                         *)
LEMMA EntryPlaced ==
  ASSUME IInv, AllPlaced, Tick,
         NEW row, DOMAIN row = Fields, row.status = "applied", PlacedIn(row), log' = Append(log, row)
  PROVE  AllPlaced'
<1>0. LogOK /\ clock' \in Nat
  BY TickIs DEF IInv
<1>1. /\ DOMAIN log' = 1..(Len(log) + 1) /\ Len(log) \in Nat /\ DOMAIN log = 1..Len(log)
      /\ \A d \in 1..Len(log) : log'[d] = log[d]
      /\ log'[Len(log) + 1] = row
  BY <1>0, Appended, LogFacts
<1>2. \A d \in DOMAIN log' : d = Len(log) + 1 \/ (d \in DOMAIN log /\ log'[d] = log[d])
  BY <1>1
<1> QED BY <1>1, <1>2 DEF Applieds, AllPlaced

LEMMA RecordedIs ==
  ASSUME NEW ops, NEW changes, NEW base, NEW t, NEW result
  PROVE  LET row == Recorded(ops, changes, base, t, result)
         IN  DOMAIN row = Fields /\ row.status = "applied" /\ row.ops = ops /\ row.changes = changes
BY DEF Recorded, Fields

LEMMA ReboundAfter ==
  ASSUME NEW ops, NEW seen, NEW done, NEW n \in DOMAIN ops, ops[n].kind \in {"part_of", "move"}
  PROVE  Rebound(ops, seen, done)[n].after = done[n]
<1>1. Rebound(ops, seen, done)[n] = Change(seen[n - 1], done[n])
  BY DEF Rebound, Posts
<1> QED BY <1>1, ChangeIs

(* AllPlaced in every step that leaves an entry. *)
LEMMA EditPlaced ==
  ASSUME IInv, CInv, AllPlaced, NEW ops \in Requests, Len(ops) = 1, Edit(ops[1])
  PROVE  AllPlaced'
<1> DEFINE op == ops[1]
           one == <<op>>
           after == Result(plan, one, Commit)
           changes == <<Change(plan, after)>>
           row == Recorded(one, changes, plan, Now, plan')
<1>1. op.kind \in OperationKinds
  BY RequestsAssumption, ListIs
<1>2. OpsOK(one) /\ Len(one) = 1 /\ DOMAIN one = 1..1
  BY <1>1, TupleIs DEF OpsOK
<1>3. Goes(plan, one, Commit) /\ Tick /\ log' = Append(log, row)
  BY DEF Edit
<1>4. PlanOK(plan) /\ Commit \in Nat /\ Taken(plan, Width * Commit + 1)
  BY PlanReady DEF IInv, CInv
<1>5. changes[1].after = after /\ after = Run(plan, one, Commit)[1]
  BY <1>2 DEF Change, Result
<1>6. DOMAIN row = Fields /\ row.status = "applied" /\ row.ops = one /\ row.changes = changes
  BY RecordedIs
<1> HIDE DEF one, after, changes, row
<1>7. \A n \in DOMAIN one : row.changes[n].after = Run(plan, one, Commit)[n]
  BY <1>2, <1>5, <1>6
<1>8. PlacedIn(row)
  BY <1>2, <1>3, <1>4, <1>6, <1>7, RunPlaced
<1> QED BY <1>3, <1>6, <1>8, EntryPlaced

LEMMA ApprovePlaced ==
  ASSUME IInv, CInv, AllPlaced, NEW ops \in Requests, Approve(ops)
  PROVE  AllPlaced'
<1> DEFINE seen == Run(plan, ops, Trial)
           done == Run(plan, ops, Commit)
           changes == Rebound(ops, seen, done)
           row == Recorded(ops, changes, plan, Now, plan')
<1>1. OpsOK(ops)
  BY RequestsAssumption DEF OpsOK
<1>2. Goes(plan, ops, Commit) /\ Tick /\ log' = Append(log, row)
  BY DEF Approve
<1>3. PlanOK(plan) /\ Commit \in Nat /\ Taken(plan, Width * Commit + 1)
  BY PlanReady DEF IInv, CInv
<1>4. DOMAIN row = Fields /\ row.status = "applied" /\ row.ops = ops /\ row.changes = changes
  BY RecordedIs
<1> HIDE DEF row
<1>5. \A n \in DOMAIN ops : ops[n].kind \in {"part_of", "move"} => row.changes[n].after = done[n]
  BY <1>4, ReboundAfter
<1> HIDE DEF changes
<1>6. PlacedIn(row)
  BY <1>1, <1>2, <1>3, <1>4, <1>5, RunPlaced
<1> QED BY <1>2, <1>4, <1>6, EntryPlaced

LEMMA TemplatesPlaced ==
  ASSUME IInv, CInv, AllPlaced, NEW ops \in Templates, ApplyTemplate(ops)
  PROVE  AllPlaced'
<1> DEFINE after == Result(plan, ops, Commit)
           made == Derived(plan, after)
           changes == [n \in DOMAIN made |-> Change(plan, after)]
           row == Recorded(made, changes, plan, Now, plan')
<1>1. OpsOK(ops) /\ Len(ops) < Width /\ \A n \in DOMAIN ops : ops[n].kind \in Posts \cup {"create"}
  BY TemplatesAssumption DEF OpsOK, OperationKinds
<1>2. Goes(plan, ops, Commit) /\ Tick /\ log' = Append(log, row)
  BY DEF ApplyTemplate
<1>3. PlanOK(plan) /\ Commit \in Nat /\ Taken(plan, Width * Commit + 1)
  BY PlanReady DEF IInv, CInv
<1>4. PlanOK(after)
  BY <1>1, <1>2, <1>3, RunEnds
<1>5. \A x \in after.links : x \in plan.links \/ x.position = NULL
  BY <1>1, <1>2, <1>3, RunUnplaced
<1>6. DOMAIN row = Fields /\ row.status = "applied" /\ row.ops = made /\ row.changes = changes
  BY RecordedIs
<1> HIDE DEF after, row
<1>7. \A n \in DOMAIN made : changes[n].after = after
  BY DEF Change
<1> HIDE DEF changes
<1>8. PlacedIn(row)
  BY <1>3, <1>4, <1>5, <1>6, <1>7, TemplatePlaced
<1> QED BY <1>2, <1>6, <1>8, EntryPlaced

LEMMA ApplyUndoPlaced ==
  ASSUME IInv, CInv, AllPlaced, NEW c \in DOMAIN log, ApplyUndo(c)
  PROVE  AllPlaced'
<1> DEFINE ops == log[c].ops
           seen == [n \in 0..Len(ops) |-> IF n = 0 THEN log[c].changes[1].before ELSE log[c].changes[n].after]
           done == Run(plan, ops, Commit)
           row == [log[c] EXCEPT !.status = "applied", !.at = Now,
                                 !.changes = Rebound(ops, seen, done), !.result = plan']
<1>1. /\ Tick /\ log[c].status = "pending" /\ log[c].base = plan
      /\ Goes(plan, ops, Commit) /\ log' = [log EXCEPT ![c] = row]
  BY DEF ApplyUndo
<1>2. DOMAIN row = Fields /\ row.status = "applied" /\ row.ops = ops /\ row.changes = Rebound(ops, seen, done)
  BY DEF IInv, LogOK, Fields
<1> HIDE DEF row
<1>0. LogOK /\ clock' \in Nat
  BY <1>1, TickIs DEF IInv
<1>3. DOMAIN log' = DOMAIN log /\ \A e \in DOMAIN log : log'[e] = IF e = c THEN row ELSE log[e]
  BY <1>0, <1>1, <1>2, Replaced
<1>4. OpsOK(ops)
  BY <1>1 DEF CInv, PlanKept, Pending, Described
<1>5. PlanOK(plan) /\ Commit \in Nat /\ Taken(plan, Width * Commit + 1)
  BY PlanReady DEF IInv, CInv
<1>6. \A n \in DOMAIN ops : ops[n].kind \in {"part_of", "move"} => row.changes[n].after = done[n]
  BY <1>2, ReboundAfter
<1>7. PlacedIn(row)
  BY <1>1, <1>2, <1>4, <1>5, <1>6, RunPlaced
<1> QED BY <1>3, <1>7 DEF Applieds, AllPlaced

(* What reverse_preview looks for in the plan. *)
LEMMA BlockedHinders ==
  ASSUME NEW e, NEW chosen, NEW n, Op(e, n).kind \in OperationKinds, ~Blocked(e, chosen, n)
  PROVE  Unhindered(plan, e, n)
<1> DEFINE op == Op(e, n)
<1>1. CASE op.kind = "reopen"
  <2>1. ~PatchBlocked(e, chosen, n)
    BY <1>1 DEF Blocked, Patches, Posts
  <2>2. ~Was(e, n).items[op.item].done
    BY <1>1, <2>1 DEF PatchBlocked
  <2> QED BY <1>1, <2>2 DEF Unhindered, Posts
<1>2. CASE op.kind = "move"
  <2>1. ~MoveBlocked(e, chosen, n)
    BY <1>2 DEF Blocked, Patches, Posts
  <2>2. Parent(plan, op.item) = LinkAfter(e, n)
    BY <2>1 DEF MoveBlocked
  <2> QED BY <1>2, <2>2 DEF Unhindered, Posts
<1>3. CASE op.kind \in Posts
  <2>1. ~PostBlocked(e, chosen, n)
    BY <1>3 DEF Blocked, Patches, Posts
  <2>2. \E x \in plan.links, y \in LinkAfter(e, n) :
           Candidates(plan, e, n) = {x} /\ SameLink(x, y) /\ x.position = y.position
    BY <2>1 DEF PostBlocked
  <2> QED BY <1>3, <2>2 DEF Unhindered, Posts
<1>4. CASE op.kind = "unlink"
  <2>1. ~UnlinkBlocked(e, chosen, n)
    BY <1>4 DEF Blocked, Patches, Posts
  <2>2. LinkBefore(e, n) # {} /\ \A y \in LinkBefore(e, n) : ~\E x \in plan.links : SameLink(x, y)
    BY <2>1 DEF UnlinkBlocked
  <2>3. \A y \in LinkBefore(e, n) : y.type = op.type /\ y.source = op.item
    BY <1>4 DEF LinkBefore
  <2>4. op.type = "part_of" => Parent(plan, op.item) = {}
    <3>1. PICK y \in LinkBefore(e, n) : TRUE
      BY <2>2
    <3>2. y.type = "part_of" => Parent(plan, y.source) = {}
      BY <2>1 DEF UnlinkBlocked
    <3> QED BY <2>3, <3>2
  <2> QED BY <1>4, <2>2, <2>4 DEF Unhindered, Posts
<1>5. CASE op.kind \notin Posts \cup {"reopen", "move", "unlink"}
  BY <1>5 DEF Unhindered
<1> QED BY <1>1, <1>2, <1>3, <1>4, <1>5

(* An inverse takes back what it is of: reverse_preview looked for         *)
(* everything Unhindered says.                                             *)
LEMMA InverseTakes ==
  ASSUME CInv, NEW e \in DOMAIN log, NEW chosen \in SUBSET DOMAIN log[e].ops, Undoable(e, chosen),
         NEW row, row.chosen = chosen, row.ops = InverseOps(e, chosen), row.from = InverseFrom(e, chosen),
         row.base = plan
  PROVE  Takes(row, log[e])
<1> DEFINE ops == InverseOps(e, chosen)
           from == InverseFrom(e, chosen)
<1>1. /\ e \in Versions /\ \A n \in chosen : ~Blocked(e, chosen, n)
      /\ \A m, n \in chosen : Target(e, m) = Target(e, n) => m = n
  BY DEF Undoable, Versions
<1>2. OpsOK(log[e].ops) /\ \A n \in DOMAIN log[e].ops : PlanOK(Was(e, n)) /\ Op(e, n).kind \in OperationKinds
  BY <1>1 DEF CInv, VersionsOK, OpsOK, Op
<1>3. /\ \A k \in DOMAIN ops : /\ from[k] \in chosen \cap DOMAIN log[e].ops
                               /\ \E j \in DOMAIN TakenBack(e, from[k]) : ops[k] = TakenBack(e, from[k])[j]
      /\ \A j, k \in DOMAIN ops : j < k => from[k] <= from[j]
      /\ \A n \in chosen \cap DOMAIN log[e].ops : \A j \in DOMAIN TakenBack(e, n) :
           \E k \in DOMAIN ops : from[k] = n /\ ops[k] = TakenBack(e, n)[j]
  BY <1>2, InverseTurns
<1> HIDE DEF ops, from
<1>4. \A n \in chosen : /\ \A j \in DOMAIN TakenBack(e, n) : Inverts(plan, TakenBack(e, n)[j], e, n)
                        /\ \E j \in DOMAIN TakenBack(e, n) : Op(e, n).kind = "create" => TakenBack(e, n)[j].kind = "archive"
  BY <1>1, <1>2, TakenBackInverts
<1>5. \A k \in DOMAIN ops : from[k] \in chosen /\ InvertsIn(ops[k], log[e], from[k], plan)
  BY <1>3, <1>4, InvertsAre
<1>6. ASSUME NEW n \in chosen
      PROVE  \E k \in DOMAIN ops : from[k] = n /\ (log[e].ops[n].kind = "create" => ops[k].kind = "archive")
  <2>1. PICK j \in DOMAIN TakenBack(e, n) : Op(e, n).kind = "create" => TakenBack(e, n)[j].kind = "archive"
    BY <1>4
  <2>2. PICK k \in DOMAIN ops : from[k] = n /\ ops[k] = TakenBack(e, n)[j]
    BY <1>3
  <2> QED BY <2>1, <2>2 DEF Op
<1>7. \A m, n \in chosen : TargetIn(log[e], m) = TargetIn(log[e], n) => m = n
  BY <1>1, TargetIs
<1>8. InTurnIn(row, log[e], plan)
  BY <1>3, <1>5, <1>6, <1>7 DEF InTurnIn, ops, from
<1>9. \A n \in chosen : UnhinderedIn(log[e], n, plan)
  BY <1>1, <1>2, BlockedHinders, UnhinderedIs
<1> QED BY <1>8, <1>9 DEF Takes

(* What PInv says of proposals holds of those that are made, and of the    *)
(* others as before.                                                       *)
LEMMA TakesNext ==
  ASSUME IInv, CInv, DInv, PInv, [Next]_vars
  PROVE  TakesIn(log')
<1> SUFFICES ASSUME NEW c \in Pending' PROVE Takes(log'[c], log'[log'[c].of])
  BY DEF TakesIn, Pending
<1>1. CASE c \in Pending /\ log'[c] = log[c]
  <2>1. log'[log[c].of] = log[log[c].of]
    BY <1>1, OfPersists
  <2>2. Takes(log[c], log[log[c].of])
    BY <1>1, PInvIs DEF TakesIn, Pending
  <2> QED BY <1>1, <2>1, <2>2
<1>2. CASE \E e \in DOMAIN log : \E chosen \in SUBSET DOMAIN log[e].ops :
             ProposeUndo(e, chosen) /\ log'[c] = log'[Len(log) + 1]
  <2>0. PICK e \in DOMAIN log : \E chosen \in SUBSET DOMAIN log[e].ops :
               ProposeUndo(e, chosen) /\ log'[c] = log'[Len(log) + 1]
    BY <1>2
  <2>1. PICK chosen \in SUBSET DOMAIN log[e].ops : ProposeUndo(e, chosen) /\ log'[c] = log'[Len(log) + 1]
    BY <2>0
  <2> DEFINE row == log'[Len(log) + 1]
  <2>2. /\ row.of = e /\ row.chosen = chosen /\ row.from = InverseFrom(e, chosen)
        /\ row.ops = InverseOps(e, chosen) /\ row.base = plan
        /\ Undoable(e, chosen) /\ log'[e] = log[e]
    BY <2>1, ProposedIs
  <2> HIDE DEF row
  <2>3. Takes(row, log[e])
    BY <2>2, InverseTakes
  <2>4. log'[c] = row
    BY <2>1 DEF row
  <2> QED BY <2>2, <2>3, <2>4
<1> QED BY <1>1, <1>2, RowsPersist

LEMMA DropKeeps ==
  ASSUME IInv, NEW c \in DOMAIN log, DropUndo(c)
  PROVE  \A d \in Applieds(log') : d \in Applieds(log) /\ log'[d] = log[d]
<1>1. PICK status \in {"rejected", "expired"} : log' = [log EXCEPT ![c].status = status]
  BY DEF DropUndo
<1> DEFINE row == [log[c] EXCEPT !.status = status]
<1>2. log' = [log EXCEPT ![c] = row] /\ clock' = clock
  BY <1>1 DEF DropUndo
<1>3. DOMAIN row = Fields /\ row.status = status
  BY DEF IInv, LogOK, Fields
<1> HIDE DEF row
<1>4. LogOK /\ clock' \in Nat
  BY <1>2 DEF IInv, LogOK
<1>5. DOMAIN log' = DOMAIN log /\ \A e \in DOMAIN log : log'[e] = IF e = c THEN row ELSE log[e]
  BY <1>2, <1>3, <1>4, Replaced
<1> QED BY <1>3, <1>5 DEF Applieds

LEMMA PlacedInit == Init => PInv
<1> SUFFICES ASSUME Init PROVE PInv
  OBVIOUS
<1>1. log = <<>> /\ DOMAIN log = {}
  BY DEF Init
<1>2. Applieds(log) = {} /\ TakesIn(log)
  BY <1>1 DEF Applieds, TakesIn
<1> QED BY <1>2, PInvIs

LEMMA PlacedNext == IInv /\ CInv /\ DInv /\ PInv /\ [Next]_vars => PInv'
<1> SUFFICES ASSUME IInv, CInv, DInv, PInv, [Next]_vars PROVE PInv'
  OBVIOUS
<1>0. AllPlaced
  BY PInvIs DEF AllPlaced
<1>1. ASSUME log' = log
      PROVE  AllPlaced'
  BY <1>0, <1>1 DEF AllPlaced, Applieds
<1>2. ASSUME UNCHANGED vars
      PROVE  AllPlaced'
  BY <1>1, <1>2 DEF vars
<1>3. ASSUME NEW i, Record(i) \/ Complete(i)
      PROVE  AllPlaced'
  BY <1>1, <1>3 DEF Record, Complete
<1>4. ASSUME NEW e \in DOMAIN log, NEW chosen \in SUBSET DOMAIN log[e].ops, ProposeUndo(e, chosen)
      PROVE  AllPlaced'
  <2>1. \A d \in Applieds(log') : d \in Applieds(log) /\ log'[d] = log[d]
    BY <1>4, ProposedIs
  <2> QED BY <1>0, <2>1 DEF AllPlaced
<1>5. ASSUME NEW c \in DOMAIN log, DropUndo(c)
      PROVE  AllPlaced'
  <2>1. \A d \in Applieds(log') : d \in Applieds(log) /\ log'[d] = log[d]
    BY <1>5, DropKeeps
  <2> QED BY <1>0, <2>1 DEF AllPlaced
<1>6. AllPlaced'
  BY <1>0, <1>2, <1>3, <1>4, <1>5, EditPlaced, ApprovePlaced, TemplatesPlaced, ApplyUndoPlaced DEF Next
<1> QED BY <1>6, TakesNext, PInvIs DEF AllPlaced

(* Nothing stands in the way of a proposal on the plan it was made on. *)
LEMMA PlacedAlways == Spec => [](IInv /\ CInv /\ DInv /\ PInv)
<1>1. IInv /\ CInv /\ DInv /\ PInv /\ [Next]_vars => (IInv /\ CInv /\ DInv /\ PInv)'
  BY InvNext, TellsNext, DangleNext, PlacedNext
<1> QED BY <1>1, InvInit, TellsInit, DangleInit, PlacedInit, PTL DEF Spec

-----------------------------------------------------------------------------
(* What an undo that is applied puts back. *)

(* What an inverse may be: of which operation, and about what. *)
Turned(b, e, n) ==
  LET op == Op(e, n)
      was == Was(e, n)
  IN  \/ /\ op.kind = "edit" /\ b.kind = "edit" /\ b.item = op.item
         /\ b.to = was.items[op.item].title
      \/ op.kind = "reopen" /\ b.kind = "reopen" /\ b.item = op.item
      \/ /\ op.kind \in {"archive", "restore"} /\ b.item = op.item
         /\ b.kind = (IF was.items[op.item].archived THEN "archive" ELSE "restore")
      \/ op.kind = "create" /\ b.kind = "archive" /\ b.item = op.item
      \/ op.kind = "create" /\ b.kind = "unlink" /\ b.type = "part_of" /\ b.item = op.item
      \/ /\ op.kind = "move" /\ b.kind = "move" /\ b.item = op.item
         /\ b.to \in IF LinkBefore(e, n) = {} THEN {NULL} ELSE {x.target : x \in LinkBefore(e, n)}
      \/ /\ op.kind \in Posts /\ b.kind = "unlink"
         /\ \E x \in Candidates(plan, e, n) : b.type = x.type /\ b.item = x.source /\ b.to = x.target
      \/ op.kind = "unlink" /\ op.type = "part_of" /\ b.kind = "move" /\ b.item = op.item /\ b.to = op.to
      \/ op.kind = "unlink" /\ op.type = "relates_to" /\ b.kind = "relates_to" /\ b.item = op.item /\ b.to = op.to

LEMMA InvertsTurned ==
  ASSUME NEW e, NEW n, NEW b, PlanOK(Was(e, n)), Op(e, n).kind \in OperationKinds,
         Unhindered(plan, e, n), Inverts(plan, b, e, n)
  PROVE  Turned(b, e, n)
<1> DEFINE op == Op(e, n)
<1>1. CASE op.kind = "edit"
  BY <1>1 DEF Inverts, Turned, Posts
<1>2. CASE op.kind = "reopen"
  BY <1>2 DEF Inverts, Turned, Posts
<1>3. CASE op.kind \in {"archive", "restore"}
  BY <1>3 DEF Inverts, Turned, Posts
<1>4. CASE op.kind = "create"
  BY <1>4 DEF Inverts, Turned, Posts
<1>5. CASE op.kind = "move"
  BY <1>5 DEF Inverts, Turned, Posts
<1>6. CASE op.kind \in Posts
  BY <1>6 DEF Inverts, Turned, Posts
<1>7. CASE op.kind = "unlink"
  <2>1. PICK y \in LinkBefore(e, n) : TRUE
    BY <1>7 DEF Unhindered
  <2>2. op.type \in Posts
    BY <1>7, <2>1 DEF LinkBefore, PlanOK, LinksOK
  <2>3. b.kind = (IF op.type = "part_of" THEN "move" ELSE op.type) /\ b.item = op.item /\ b.to = op.to
    BY <1>7 DEF Inverts, Posts
  <2>4. CASE op.type = "part_of"
    BY <1>7, <2>3, <2>4 DEF Turned
  <2>5. CASE op.type = "relates_to"
    BY <1>7, <2>3, <2>5 DEF Turned
  <2> QED BY <2>2, <2>4, <2>5 DEF Posts
<1> QED BY <1>1, <1>2, <1>3, <1>4, <1>5, <1>6, <1>7 DEF OperationKinds, Patches

(* An undo that is applied, on the plan it was proposed on. *)
Ready(c) == c \in Pending /\ log[c].base = plan

Undone(c) == Result(plan, log[c].ops, Commit)

LEMMA UndoRuns ==
  ASSUME IInv, CInv, DInv, NEW c \in DOMAIN log, ApplyUndo(c)
  PROVE  /\ PlanOK(plan) /\ Commit \in Nat /\ Taken(plan, Width * Commit + 1)
         /\ OpsOK(log[c].ops) /\ Goes(plan, log[c].ops, Commit) /\ Ready(c)
         /\ \A k \in DOMAIN log[c].ops : log[c].ops[k].kind # "create"
<1>1. log[c].status = "pending" /\ log[c].base = plan /\ Goes(plan, log[c].ops, Commit)
  BY DEF ApplyUndo
<1>2. OpsOK(log[c].ops) /\ Ready(c)
  BY <1>1 DEF CInv, PlanKept, Pending, Ready, Described
<1>3. PlanOK(plan) /\ Commit \in Nat /\ Taken(plan, Width * Commit + 1)
  BY PlanReady DEF IInv, CInv
<1>4. TakesAway(log[c], log[log[c].of])
  BY <1>1, TakenAwayAre DEF DInv, TakenAwayIn
<1> QED BY <1>1, <1>2, <1>3, <1>4 DEF TakesAway

(* What its operations are. *)
LEMMA UndoTurns ==
  ASSUME IInv, CInv, DInv, PInv, NEW c \in DOMAIN log, Ready(c)
  PROVE  LET e == log[c].of
             ops == log[c].ops
             from == log[c].from
         IN  /\ e \in Versions /\ log[c].chosen \subseteq DOMAIN log[e].ops
             /\ \A n \in log[c].chosen : /\ PlanOK(Was(e, n)) /\ PlanOK(Became(e, n))
                                         /\ Op(e, n).kind \in OperationKinds /\ Unhindered(plan, e, n)
             /\ \A k \in DOMAIN ops : from[k] \in log[c].chosen /\ Turned(ops[k], e, from[k])
             /\ \A j, k \in DOMAIN ops : j < k => from[k] <= from[j]
             /\ \A n \in log[c].chosen : \E k \in DOMAIN ops :
                  from[k] = n /\ (Op(e, n).kind = "create" => ops[k].kind = "archive")
             /\ \A m, n \in log[c].chosen : Target(e, m) = Target(e, n) => m = n
<1> DEFINE e == log[c].of
           ops == log[c].ops
           from == log[c].from
           chosen == log[c].chosen
<1>1. e \in Versions /\ chosen \subseteq DOMAIN log[e].ops
  BY DEF DInv, TakenAway, Ready
<1>2. InTurn(c) /\ \A n \in chosen : Unhindered(plan, e, n)
  BY DEF PInv, Ready
<1>3. \A n \in DOMAIN log[e].ops : PlanOK(Was(e, n)) /\ PlanOK(Became(e, n)) /\ Op(e, n).kind \in OperationKinds
  BY <1>1 DEF CInv, VersionsOK, OpsOK, Op
<1>4. /\ \A k \in DOMAIN ops : from[k] \in chosen /\ Inverts(plan, ops[k], e, from[k])
      /\ \A j, k \in DOMAIN ops : j < k => from[k] <= from[j]
      /\ \A n \in chosen : \E k \in DOMAIN ops :
           from[k] = n /\ (Op(e, n).kind = "create" => ops[k].kind = "archive")
      /\ \A m, n \in chosen : Target(e, m) = Target(e, n) => m = n
  BY <1>2 DEF InTurn, Ready
<1> HIDE DEF e, ops, from, chosen
<1>5. \A n \in chosen : PlanOK(Was(e, n)) /\ PlanOK(Became(e, n)) /\ Op(e, n).kind \in OperationKinds
  BY <1>1, <1>3
<1>6. ASSUME NEW k \in DOMAIN ops
      PROVE  from[k] \in chosen /\ Turned(ops[k], e, from[k])
  BY <1>2, <1>4, <1>5, InvertsTurned
<1>7. /\ e \in Versions /\ chosen \subseteq DOMAIN log[e].ops
      /\ \A n \in chosen : /\ PlanOK(Was(e, n)) /\ PlanOK(Became(e, n))
                           /\ Op(e, n).kind \in OperationKinds /\ Unhindered(plan, e, n)
      /\ \A k \in DOMAIN ops : from[k] \in chosen /\ Turned(ops[k], e, from[k])
      /\ \A j, k \in DOMAIN ops : j < k => from[k] <= from[j]
      /\ \A n \in chosen : \E k \in DOMAIN ops :
           from[k] = n /\ (Op(e, n).kind = "create" => ops[k].kind = "archive")
      /\ \A m, n \in chosen : Target(e, m) = Target(e, n) => m = n
  BY <1>1, <1>2, <1>4, <1>5, <1>6
<1> QED BY <1>7 DEF e, ops, from, chosen

-----------------------------------------------------------------------------
(* Rows: of the operations of an inverse that are about one item, those    *)
(* that change its row take back the same operation.                       *)
LEMMA SameItem ==
  ASSUME IInv, CInv, DInv, PInv, NEW c \in DOMAIN log, Ready(c),
         NEW n \in log[c].chosen, Op(log[c].of, n).kind \in Patches \cup {"create"},
         NEW k \in DOMAIN log[c].ops, log[c].ops[k].kind \in Patches,
         log[c].ops[k].item = Op(log[c].of, n).item
  PROVE  log[c].from[k] = n
<1> DEFINE e == log[c].of
           b == log[c].ops[k]
           m == log[c].from[k]
<1>1. m \in log[c].chosen /\ Turned(b, e, m) /\ (Target(e, m) = Target(e, n) => m = n)
  BY UndoTurns
<1> HIDE DEF e, b, m
<1>2. b.kind \in Patches /\ b.item = Op(e, n).item /\ Op(e, n).kind \in Patches \cup {"create"}
  BY DEF b, e
<1>3. Op(e, m).kind \in Patches \cup {"create"} /\ Op(e, m).item = b.item
  BY <1>1, <1>2 DEF Turned, Patches, Posts
<1>4. Target(e, m) = Target(e, n)
  BY <1>2, <1>3 DEF Target, Patches, Posts
<1> QED BY <1>1, <1>4 DEF m

(* What takes operation n back gives field j of a row the value x. *)
Puts(c, n, j, x) ==
  \A k \in DOMAIN log[c].ops : log[c].from[k] = n /\ log[c].ops[k].kind \in Patches =>
    \A w : Sight(w, log[c].ops[k])[j] = x

LEMMA FieldBack ==
  ASSUME IInv, CInv, DInv, PInv, NEW c \in DOMAIN log, ApplyUndo(c),
         NEW n \in log[c].chosen, Op(log[c].of, n).kind \in Patches \cup {"create"},
         NEW j \in 1..3, NEW x, Puts(c, n, j, x), NEW a \in DOMAIN log[c].ops, log[c].from[a] = n,
         log[c].ops[a].kind \in Patches
  PROVE  LET i == Op(log[c].of, n).item
         IN  i \in Items(Undone(c)) /\ Looks(Undone(c))[i][j] = x
<1> DEFINE e == log[c].of
           i == Op(e, n).item
           ops == log[c].ops
<1>1. /\ PlanOK(plan) /\ Commit \in Nat /\ Taken(plan, Width * Commit + 1)
      /\ OpsOK(ops) /\ Goes(plan, ops, Commit) /\ Ready(c)
      /\ \A k \in DOMAIN ops : ops[k].kind # "create"
  BY UndoRuns
<1>2. \A k \in DOMAIN ops : ops[k].kind \in Patches /\ ops[k].item = i => log[c].from[k] = n
  BY <1>1, SameItem
<1>3. ops[a].item = i
  <2>1. Turned(ops[a], e, n)
    BY <1>1, UndoTurns
  <2> QED BY <2>1 DEF Turned, Patches, Posts
<1>4. \A k \in DOMAIN ops : log[c].from[k] = n /\ ops[k].kind \in Patches => \A w : Sight(w, ops[k])[j] = x
  BY DEF Puts
<1>5. ASSUME NEW k \in DOMAIN ops, ops[k].item = i, NEW w, w[j] = x
      PROVE  Sight(w, ops[k])[j] = x
  <2>1. CASE ops[k].kind \in Patches
    BY <1>2, <1>4, <1>5, <2>1
  <2>2. CASE ops[k].kind \notin Patches
    <3>1. Sight(w, ops[k]) = w
      BY <2>2 DEF Sight, Patches
    <3> QED BY <1>5, <3>1
  <2> QED BY <2>1, <2>2
<1> HIDE DEF ops, i
<1>6. i \in Items(Result(plan, ops, Commit)) /\ Looks(Result(plan, ops, Commit))[i][j] = x
  <2>1. a \in DOMAIN ops /\ ops[a].kind \in Patches
    BY DEF ops
  <2>2. \A w : Sight(w, ops[a])[j] = x
    BY <1>4, <2>1 DEF ops
  <2>3. /\ PlanOK(plan) /\ Commit \in Nat /\ Taken(plan, Width * Commit + 1)
        /\ OpsOK(ops) /\ Goes(plan, ops, Commit)
        /\ \A k \in DOMAIN ops : ops[k].kind # "create"
    BY <1>1
  <2>4. \A k \in DOMAIN ops : k > a /\ ops[k].item = i => \A w : w[j] = x => Sight(w, ops[k])[j] = x
    BY <1>5
  <2> QED BY <1>3, <2>1, <2>2, <2>3, <2>4, FieldEnds
<1> QED BY <1>6 DEF Undone, ops, i

(* What a PATCH puts. *)
LEMMA SightOf ==
  ASSUME NEW b, NEW w
  PROVE  /\ b.kind = "edit" => Sight(w, b)[1] = b.to
         /\ b.kind = "reopen" => Sight(w, b)[2] = FALSE
         /\ b.kind = "archive" => Sight(w, b)[3] = TRUE
         /\ b.kind = "restore" => Sight(w, b)[3] = FALSE
BY DEF Sight

LEMMA LookOf ==
  ASSUME NEW s, NEW i \in Items(s)
  PROVE  /\ Looks(s)[i][1] = s.items[i].title /\ Looks(s)[i][2] = s.items[i].done
         /\ Looks(s)[i][3] = s.items[i].archived
BY DEF Looks, Look

(* The title, the state, and whether it is in the plan, are as they were. *)
LEMMA EditBack ==
  ASSUME IInv, CInv, DInv, PInv, NEW c \in DOMAIN log, ApplyUndo(c),
         NEW n \in log[c].chosen, Op(log[c].of, n).kind = "edit"
  PROVE  LET i == Op(log[c].of, n).item
         IN  Undone(c).items[i].title = Was(log[c].of, n).items[i].title
<1> DEFINE e == log[c].of
           i == Op(e, n).item
           ops == log[c].ops
           title == Was(e, n).items[i].title
<1>1. Ready(c)
  BY UndoRuns
<1>2. PICK a \in DOMAIN ops : log[c].from[a] = n
  BY <1>1, UndoTurns
<1>3. \A k \in DOMAIN ops : Turned(ops[k], e, log[c].from[k])
  BY <1>1, UndoTurns
<1>4. \A k \in DOMAIN ops : log[c].from[k] = n => ops[k].kind = "edit" /\ ops[k].to = title
  BY <1>3 DEF Turned, Posts
<1> HIDE DEF title, ops, i
<1>5. \A k \in DOMAIN ops : log[c].from[k] = n => \A w : Sight(w, ops[k])[1] = title
  BY <1>4, SightOf
<1>6. i \in Items(Undone(c)) /\ Looks(Undone(c))[i][1] = title
  <2>1. ops[a].kind \in Patches
    BY <1>2, <1>4 DEF Patches
  <2>2. Op(log[c].of, n).kind \in Patches \cup {"create"}
    BY DEF Patches
  <2>3. Puts(c, n, 1, title)
    BY <1>5 DEF Puts, ops
  <2>4. 1 \in 1..3 /\ a \in DOMAIN log[c].ops /\ log[c].ops[a].kind \in Patches
    BY <2>1 DEF ops
  <2> QED BY <1>2, <2>2, <2>3, <2>4, FieldBack DEF i
<1> QED BY <1>6, LookOf DEF i, title

LEMMA ReopenBack ==
  ASSUME IInv, CInv, DInv, PInv, NEW c \in DOMAIN log, ApplyUndo(c),
         NEW n \in log[c].chosen, Op(log[c].of, n).kind = "reopen"
  PROVE  LET i == Op(log[c].of, n).item
         IN  Undone(c).items[i].done <=> Was(log[c].of, n).items[i].done
<1> DEFINE e == log[c].of
           i == Op(e, n).item
           ops == log[c].ops
           off == FALSE
<1>1. Ready(c)
  BY UndoRuns
<1>2. PICK a \in DOMAIN ops : log[c].from[a] = n
  BY <1>1, UndoTurns
<1>3. \A k \in DOMAIN ops : Turned(ops[k], e, log[c].from[k])
  BY <1>1, UndoTurns
<1>4. \A k \in DOMAIN ops : log[c].from[k] = n => ops[k].kind = "reopen"
  BY <1>3 DEF Turned, Posts
<1> HIDE DEF ops, i
<1>5. \A k \in DOMAIN ops : log[c].from[k] = n => \A w : Sight(w, ops[k])[2] = off
  BY <1>4, SightOf
<1> HIDE DEF off
<1>6. i \in Items(Undone(c)) /\ Looks(Undone(c))[i][2] = off
  <2>1. ops[a].kind \in Patches
    BY <1>2, <1>4 DEF Patches
  <2>2. Op(log[c].of, n).kind \in Patches \cup {"create"}
    BY DEF Patches
  <2>3. Puts(c, n, 2, off)
    BY <1>5 DEF Puts, ops
  <2>4. 2 \in 1..3 /\ a \in DOMAIN log[c].ops /\ log[c].ops[a].kind \in Patches
    BY <2>1 DEF ops
  <2> QED BY <1>2, <2>2, <2>3, <2>4, FieldBack DEF i
<1>7. Unhindered(plan, e, n)
  BY <1>1, UndoTurns
<1>8. ~Was(e, n).items[i].done
  BY <1>7 DEF Unhindered, i
<1> QED BY <1>6, <1>8, LookOf DEF i, off

LEMMA ArchiveBack ==
  ASSUME IInv, CInv, DInv, PInv, NEW c \in DOMAIN log, ApplyUndo(c),
         NEW n \in log[c].chosen, Op(log[c].of, n).kind \in {"archive", "restore"}
  PROVE  LET i == Op(log[c].of, n).item
         IN  Undone(c).items[i].archived <=> Was(log[c].of, n).items[i].archived
<1> DEFINE e == log[c].of
           i == Op(e, n).item
           ops == log[c].ops
           was == Was(e, n).items[i].archived
           x == IF was THEN TRUE ELSE FALSE
<1>1. Ready(c)
  BY UndoRuns
<1>2. PICK a \in DOMAIN ops : log[c].from[a] = n
  BY <1>1, UndoTurns
<1>3. \A k \in DOMAIN ops : Turned(ops[k], e, log[c].from[k])
  BY <1>1, UndoTurns
<1>4. \A k \in DOMAIN ops : log[c].from[k] = n => ops[k].kind = (IF was THEN "archive" ELSE "restore")
  BY <1>3 DEF Turned, Posts
<1> HIDE DEF ops, i, was
<1>5. \A k \in DOMAIN ops : log[c].from[k] = n => \A w : Sight(w, ops[k])[3] = x
  BY <1>4, SightOf
<1> HIDE DEF x
<1>6. i \in Items(Undone(c)) /\ Looks(Undone(c))[i][3] = x
  <2>1. ops[a].kind \in Patches
    BY <1>2, <1>4 DEF Patches
  <2>2. Op(log[c].of, n).kind \in Patches \cup {"create"}
    BY DEF Patches
  <2>3. Puts(c, n, 3, x)
    BY <1>5 DEF Puts, ops
  <2>4. 3 \in 1..3 /\ a \in DOMAIN log[c].ops /\ log[c].ops[a].kind \in Patches
    BY <2>1 DEF ops
  <2> QED BY <1>2, <2>2, <2>3, <2>4, FieldBack DEF i
<1>7. Undone(c).items[i].archived = x
  BY <1>6, LookOf
<1>8. x <=> was
  BY DEF x
<1> QED BY <1>7, <1>8 DEF i, was

(* What was made is in the plan no more, and part of nothing. *)
LEMMA CreateBack ==
  ASSUME IInv, CInv, DInv, PInv, NEW c \in DOMAIN log, ApplyUndo(c),
         NEW n \in log[c].chosen, Op(log[c].of, n).kind = "create"
  PROVE  LET i == Op(log[c].of, n).item
         IN  ~Live(Undone(c), i) /\ Parent(Undone(c), i) = {}
<1> DEFINE e == log[c].of
           i == Op(e, n).item
           ops == log[c].ops
           gone == TRUE
<1>1. Ready(c)
  BY UndoRuns
<1>2. PICK a \in DOMAIN ops : log[c].from[a] = n /\ ops[a].kind = "archive"
  BY <1>1, UndoTurns
<1>3. \A k \in DOMAIN ops : Turned(ops[k], e, log[c].from[k])
  BY <1>1, UndoTurns
<1>4. \A k \in DOMAIN ops : log[c].from[k] = n /\ ops[k].kind \in Patches => ops[k].kind = "archive"
  BY <1>3 DEF Turned, Posts, Patches
<1> HIDE DEF ops, i
<1>5. \A k \in DOMAIN ops : log[c].from[k] = n /\ ops[k].kind \in Patches => \A w : Sight(w, ops[k])[3] = gone
  BY <1>4, SightOf
<1> HIDE DEF gone
<1>6. i \in Items(Undone(c)) /\ Looks(Undone(c))[i][3] = gone
  <2>1. ops[a].kind \in Patches
    BY <1>2 DEF Patches
  <2>2. Op(log[c].of, n).kind \in Patches \cup {"create"}
    OBVIOUS
  <2>3. Puts(c, n, 3, gone)
    BY <1>5 DEF Puts, ops
  <2>4. 3 \in 1..3 /\ a \in DOMAIN log[c].ops /\ log[c].ops[a].kind \in Patches
    BY <2>1 DEF ops
  <2> QED BY <1>2, <2>2, <2>3, <2>4, FieldBack DEF i
<1>7. Touching(plan', i) = {}
  BY UndoClears DEF i
<1>8. plan'.links = Undone(c).links
  BY DEF ApplyUndo, Written, Undone, Result
<1>9. Parent(Undone(c), i) = {}
  BY <1>7, <1>8 DEF Touching, Parent, In!PartOf
<1>10. ~Live(Undone(c), i)
  BY <1>6, LookOf DEF Live, gone
<1> QED BY <1>9, <1>10 DEF i

(* What an operation may do to what an item is part of, and what it adds   *)
(* and takes away of what is related to what.                              *)
LEMMA OfStays ==
  ASSUME NEW T, NEW b, b.kind \in OperationKinds, b.kind # "create", NEW i,
         b.item = i => b.kind \notin {"move", "part_of"} /\ (b.kind = "unlink" => b.type # "part_of")
  PROVE  Of(Ties(T, b), i) = Of(T, i)
<1>1. CASE b.kind \in Patches
  BY <1>1 DEF Ties, Posts, Patches
<1>2. CASE b.kind \in Posts
  <2>1. Ties(T, b) = T \cup {<<b.kind, b.item, b.to>>}
    BY <1>2 DEF Ties, Posts
  <2>2. ~(b.kind = "part_of" /\ b.item = i)
    OBVIOUS
  <2> QED BY <2>1, <2>2 DEF Of
<1>3. CASE b.kind = "unlink"
  <2>1. Ties(T, b) = T \ {<<b.type, b.item, b.to>>}
    BY <1>3 DEF Ties, Posts
  <2>2. ~(b.type = "part_of" /\ b.item = i)
    BY <1>3
  <2> QED BY <2>1, <2>2 DEF Of
<1>4. CASE b.kind = "move"
  <2>1. Ties(T, b) = {a \in T : ~(a[1] = "part_of" /\ a[2] = b.item)} \cup
                       (IF b.to = NULL THEN {} ELSE {<<"part_of", b.item, b.to>>})
    BY <1>4 DEF Ties, Posts
  <2>2. b.item # i
    BY <1>4
  <2> QED BY <2>1, <2>2 DEF Of
<1> QED BY <1>1, <1>2, <1>3, <1>4 DEF OperationKinds

LEMMA OfMoved ==
  ASSUME NEW T, NEW b, b.kind = "move"
  PROVE  Of(Ties(T, b), b.item) = IF b.to = NULL THEN {} ELSE {<<"part_of", b.item, b.to>>}
<1>1. Ties(T, b) = {a \in T : ~(a[1] = "part_of" /\ a[2] = b.item)} \cup
                     (IF b.to = NULL THEN {} ELSE {<<"part_of", b.item, b.to>>})
  BY DEF Ties, Posts
<1> QED BY <1>1 DEF Of

LEMMA AlikeAdds ==
  ASSUME NEW T, NEW b, b.kind \in OperationKinds, b.kind # "create", NEW a,
         b.kind \in Posts => ~SameTie(<<b.kind, b.item, b.to>>, a),
         b.kind = "move" /\ b.to # NULL => ~SameTie(<<"part_of", b.item, b.to>>, a)
  PROVE  SameTies(Ties(T, b), a) \subseteq SameTies(T, a)
<1>1. CASE b.kind \in Patches
  BY <1>1 DEF Ties, Posts, Patches
<1>2. CASE b.kind \in Posts
  <2>1. Ties(T, b) = T \cup {<<b.kind, b.item, b.to>>}
    BY <1>2 DEF Ties, Posts
  <2> QED BY <1>2, <2>1 DEF SameTies
<1>3. CASE b.kind = "unlink"
  <2>1. Ties(T, b) \subseteq T
    BY <1>3 DEF Ties, Posts
  <2> QED BY <2>1 DEF SameTies
<1>4. CASE b.kind = "move"
  <2>1. Ties(T, b) \subseteq T \cup (IF b.to = NULL THEN {} ELSE {<<"part_of", b.item, b.to>>})
    BY <1>4 DEF Ties, Posts
  <2> QED BY <1>4, <2>1 DEF SameTies
<1> QED BY <1>1, <1>2, <1>3, <1>4 DEF OperationKinds

LEMMA TieKept ==
  ASSUME NEW T, NEW b, b.kind \in OperationKinds, NEW a \in T, a[1] # "part_of",
         b.kind = "unlink" => <<b.type, b.item, b.to>> # a
  PROVE  a \in Ties(T, b)
<1>1. CASE b.kind \in Patches
  BY <1>1 DEF Ties, Posts, Patches
<1>2. CASE b.kind \in Posts
  BY <1>2 DEF Ties, Posts
<1>3. CASE b.kind = "unlink"
  BY <1>3 DEF Ties, Posts
<1>4. CASE b.kind = "move"
  BY <1>4 DEF Ties, Posts
<1>5. CASE b.kind = "create"
  BY <1>5 DEF Ties, Posts
<1> QED BY <1>1, <1>2, <1>3, <1>4, <1>5 DEF OperationKinds

LEMMA LinkTriples ==
  ASSUME NEW x, NEW y
  PROVE  /\ SameLink(x, y) <=> SameTie(Triple(x), Triple(y))
         /\ Triple(x)[1] = x.type /\ Triple(x)[2] = x.source /\ Triple(x)[3] = x.target
BY DEF SameLink, SameTie, Triple

(* The link there is, of what was posted. *)
LEMMA PostIs ==
  ASSUME NEW e, NEW n, Op(e, n).kind \in Posts, Unhindered(plan, e, n)
  PROVE  LET op == Op(e, n)
         IN  \E x \in plan.links, y \in LinkAfter(e, n) :
               /\ Candidates(plan, e, n) = {x} /\ x.position = y.position
               /\ SameTie(Triple(x), <<op.kind, op.item, op.to>>) /\ x.type = op.kind
               /\ x.type = "part_of" => x.source = op.item
<1> DEFINE op == Op(e, n)
<1>1. PICK x \in plan.links, y \in LinkAfter(e, n) : Candidates(plan, e, n) = {x} /\ SameLink(x, y) /\ x.position = y.position
  BY DEF Unhindered
<1>2. y.type = op.kind /\ y.source = op.item /\ y.target = op.to
  BY DEF LinkAfter, Posts
<1>3. SameTie(Triple(x), <<op.kind, op.item, op.to>>)
  BY <1>1, <1>2, LinkTriples DEF Triple
<1>4. x.type = op.kind /\ (x.type = "part_of" => x.source = op.item)
  BY <1>1, <1>2 DEF SameLink
<1> QED BY <1>1, <1>3, <1>4

(* What was posted is gone: nothing of the inverse relates the two again.  *)
LEMMA NotPutAgain ==
  ASSUME IInv, CInv, DInv, PInv, NEW c \in DOMAIN log, Ready(c),
         NEW n \in log[c].chosen, Op(log[c].of, n).kind \in Posts,
         NEW k \in DOMAIN log[c].ops
  PROVE  LET op == Op(log[c].of, n)
             b == log[c].ops[k]
             a == <<op.kind, op.item, op.to>>
         IN  /\ b.kind \in Posts => ~SameTie(<<b.kind, b.item, b.to>>, a)
             /\ b.kind = "move" /\ b.to # NULL => ~SameTie(<<"part_of", b.item, b.to>>, a)
<1> DEFINE e == log[c].of
           op == Op(e, n)
           m == log[c].from[k]
           by == Op(e, m)
           b == log[c].ops[k]
           a == <<op.kind, op.item, op.to>>
<1>1. /\ e \in Versions /\ log[c].chosen \subseteq DOMAIN log[e].ops
      /\ m \in log[c].chosen /\ Turned(b, e, m) /\ Unhindered(plan, e, m) /\ Unhindered(plan, e, n)
  BY UndoTurns
<1>2. PICK x \in plan.links, y \in LinkAfter(e, n) :
         /\ Candidates(plan, e, n) = {x} /\ x.position = y.position
         /\ SameTie(Triple(x), a) /\ x.type = op.kind
         /\ x.type = "part_of" => x.source = op.item
  BY <1>1, PostIs
<1>3. n \in DOMAIN log[e].ops /\ m \in DOMAIN log[e].ops
  BY <1>1
<1>4. op.kind = "part_of" => y.position = NULL
  BY <1>1, <1>3 DEF PInv, Positioned
<1> HIDE DEF e, m, b
<1>5. ASSUME b.kind \in Posts, SameTie(<<b.kind, b.item, b.to>>, a)
      PROVE  FALSE
  <2>1. by.kind = "unlink" /\ by.type = "relates_to" /\ b.kind = "relates_to" /\ b.item = by.item /\ b.to = by.to
    BY <1>1, <1>5 DEF Turned, Posts
  <2>2. PICK z \in LinkBefore(e, m) : TRUE
    BY <1>1, <2>1 DEF Unhindered
  <2>3. ~SameLink(x, z)
    BY <1>1, <2>1 DEF Unhindered
  <2>4. z.type = by.type /\ z.source = by.item /\ z.target = by.to
    BY <2>1, <2>2 DEF LinkBefore
  <2>5. SameTie(Triple(z), a)
    BY <1>5, <2>1, <2>4 DEF Triple
  <2>6. SameTie(Triple(x), Triple(z))
    BY <1>2, <2>5 DEF SameTie
  <2> QED BY <2>3, <2>6, LinkTriples
<1>6. ASSUME b.kind = "move", SameTie(<<"part_of", b.item, b.to>>, a)
      PROVE  FALSE
  <2>1. op.kind = "part_of" /\ op.item = b.item
    BY <1>6 DEF SameTie
  <2>2. x \in Parent(plan, b.item)
    BY <1>2, <2>1 DEF Parent, In!PartOf
  <2>3. by.item = b.item /\ (by.kind = "move" \/ (by.kind = "unlink" /\ by.type = "part_of"))
    BY <1>1, <1>6 DEF Turned, Posts
  <2>4. CASE by.kind = "move"
    <3>1. x \in LinkAfter(e, m)
      BY <1>1, <2>2, <2>3, <2>4 DEF Unhindered
    <3>2. x.position # NULL
      BY <1>1, <1>3, <2>4, <3>1 DEF PInv, Positioned
    <3> QED BY <1>2, <1>4, <2>1, <3>2
  <2>5. CASE by.kind = "unlink" /\ by.type = "part_of"
    <3>1. Parent(plan, by.item) = {}
      BY <1>1, <2>5 DEF Unhindered
    <3> QED BY <2>2, <2>3, <3>1
  <2> QED BY <2>3, <2>4, <2>5
<1> QED BY <1>5, <1>6 DEF e, b

LEMMA PostBack ==
  ASSUME IInv, CInv, DInv, PInv, NEW c \in DOMAIN log, ApplyUndo(c),
         NEW n \in log[c].chosen, Op(log[c].of, n).kind \in Posts
  PROVE  ~\E x \in Undone(c).links, y \in LinkAfter(log[c].of, n) : SameLink(x, y)
<1> DEFINE e == log[c].of
           op == Op(e, n)
           ops == log[c].ops
           a == <<op.kind, op.item, op.to>>
           r == Result(plan, ops, Commit)
<1>1. /\ PlanOK(plan) /\ Commit \in Nat /\ Taken(plan, Width * Commit + 1)
      /\ OpsOK(ops) /\ Goes(plan, ops, Commit) /\ Ready(c)
      /\ \A k \in DOMAIN ops : ops[k].kind # "create"
  BY UndoRuns
<1>2. Unhindered(plan, e, n) /\ \A k \in DOMAIN ops : Turned(ops[k], e, log[c].from[k])
  BY <1>1, UndoTurns
<1>3. PICK x \in plan.links, y \in LinkAfter(e, n) :
         /\ Candidates(plan, e, n) = {x} /\ x.position = y.position
         /\ SameTie(Triple(x), a) /\ x.type = op.kind
  BY <1>2, PostIs
<1>4. \A z \in LinkAfter(e, n) : Triple(z) = a
  BY DEF LinkAfter, Posts, Triple
<1>5. SameTies(Triples(plan), a) \subseteq {Triple(x)}
  <2> SUFFICES ASSUME NEW z \in plan.links, SameTie(Triple(z), a)
               PROVE  Triple(z) = Triple(x)
    BY DEF SameTies, Triples
  <2>1. SameLink(z, y)
    BY <1>4, LinkTriples
  <2>2. z \in Candidates(plan, e, n)
    BY <2>1 DEF Candidates
  <2> QED BY <1>3, <2>2
<1>6. PICK k \in DOMAIN ops : log[c].from[k] = n
  BY <1>1, UndoTurns
<1>7. \A T : Triple(x) \notin Ties(T, ops[k])
  <2>1. Turned(ops[k], e, n)
    BY <1>2, <1>6
  <2>2. ops[k].kind = "unlink" /\ ops[k].type = x.type /\ ops[k].item = x.source /\ ops[k].to = x.target
    <3> HIDE DEF ops
    <3>1. op.kind \notin Patches \cup {"create", "move", "unlink"}
      BY DEF Posts, Patches
    <3> QED BY <1>3, <2>1, <3>1 DEF Turned, Patches
  <2>3. \A T : Ties(T, ops[k]) = T \ {<<x.type, x.source, x.target>>}
    <3> HIDE DEF ops
    <3> QED BY <2>2 DEF Ties, Posts
  <2> QED BY <2>3 DEF Triple
<1>8. \A j \in DOMAIN ops : \A T : SameTies(Ties(T, ops[j]), a) \subseteq SameTies(T, a)
  <2> TAKE j \in DOMAIN ops
  <2>1. /\ ops[j].kind \in Posts => ~SameTie(<<ops[j].kind, ops[j].item, ops[j].to>>, a)
        /\ ops[j].kind = "move" /\ ops[j].to # NULL => ~SameTie(<<"part_of", ops[j].item, ops[j].to>>, a)
    BY <1>1, NotPutAgain
  <2>2. ops[j].kind \in OperationKinds /\ ops[j].kind # "create"
    BY <1>1 DEF OpsOK
  <2> HIDE DEF ops, a
  <2> QED BY <2>1, <2>2, AlikeAdds
<1>9. SameTies(Triples(r), a) = {}
  <2> HIDE DEF ops, a, e
  <2> QED BY <1>1, <1>5, <1>6, <1>7, <1>8, TieGoes
<1>10. ASSUME NEW z \in r.links, NEW w \in LinkAfter(e, n), SameLink(z, w)
       PROVE  FALSE
  <2>1. SameTie(Triple(z), a)
    BY <1>4, <1>10, LinkTriples
  <2> QED BY <1>9, <2>1 DEF SameTies, Triples
<1> QED BY <1>10 DEF Undone

(* What was taken apart that is not about where an item is, is together    *)
(* again: nothing of the inverse takes it apart.                           *)
LEMMA RelatedBack ==
  ASSUME IInv, CInv, DInv, PInv, NEW c \in DOMAIN log, ApplyUndo(c),
         NEW n \in log[c].chosen, Op(log[c].of, n).kind = "unlink", Op(log[c].of, n).type # "part_of"
  PROVE  \A y \in LinkBefore(log[c].of, n) : \E x \in Undone(c).links : SameLink(x, y)
<1> DEFINE e == log[c].of
           op == Op(e, n)
           ops == log[c].ops
           a == <<op.type, op.item, op.to>>
           r == Result(plan, ops, Commit)
<1>1. /\ PlanOK(plan) /\ Commit \in Nat /\ Taken(plan, Width * Commit + 1)
      /\ OpsOK(ops) /\ Goes(plan, ops, Commit) /\ Ready(c)
      /\ \A k \in DOMAIN ops : ops[k].kind # "create"
  BY UndoRuns
<1>2. \A k \in DOMAIN ops : /\ Turned(ops[k], e, log[c].from[k]) /\ Unhindered(plan, e, log[c].from[k])
  BY <1>1, UndoTurns
<1>3. Unhindered(plan, e, n)
  BY <1>1, UndoTurns
<1>4. \A z \in LinkBefore(e, n) : Triple(z) = a /\ ~\E x \in plan.links : SameLink(x, z)
  BY <1>3 DEF LinkBefore, Triple, Unhindered
<1>5. PICK y \in LinkBefore(e, n) : TRUE
  BY <1>3 DEF Unhindered
<1>6. PICK k \in DOMAIN ops : log[c].from[k] = n
  BY <1>1, UndoTurns
<1>7. \A T : a \in Ties(T, ops[k])
  <2>1. Turned(ops[k], e, n)
    BY <1>2, <1>6
  <2>2. ops[k].kind = "relates_to" /\ op.type = "relates_to" /\ ops[k].item = op.item /\ ops[k].to = op.to
    <3> HIDE DEF ops
    <3> QED BY <2>1 DEF Turned, Posts
  <2>3. \A T : Ties(T, ops[k]) = T \cup {<<"relates_to", op.item, op.to>>}
    <3> HIDE DEF ops
    <3> QED BY <2>2 DEF Ties, Posts
  <2> QED BY <2>2, <2>3
<1>8. \A j \in DOMAIN ops : \A T : a \in T => a \in Ties(T, ops[j])
  <2> TAKE j \in DOMAIN ops
  <2> DEFINE b == ops[j]
             m == log[c].from[j]
  <2>1. b.kind \in OperationKinds /\ Turned(b, e, m) /\ Unhindered(plan, e, m)
    BY <1>1, <1>2 DEF OpsOK
  <2> HIDE DEF b, m
  <2>2. a[1] # "part_of" /\ a[1] = op.type
    OBVIOUS
  <2>3. b.kind = "unlink" => <<b.type, b.item, b.to>> # a
    <3> SUFFICES ASSUME b.kind = "unlink", <<b.type, b.item, b.to>> = a PROVE FALSE
      OBVIOUS
    <3>1. b.type # "part_of"
      BY <2>2
    <3>2. Op(e, m).kind \in Posts /\ \E x \in Candidates(plan, e, m) : b.type = x.type /\ b.item = x.source /\ b.to = x.target
      BY <2>1, <3>1 DEF Turned, Posts
    <3>3. PICK x \in plan.links : b.type = x.type /\ b.item = x.source /\ b.to = x.target
      BY <3>2 DEF Candidates
    <3>4. Triple(x) = Triple(y)
      BY <1>4, <3>3 DEF Triple
    <3>5. SameLink(x, y)
      BY <3>4, LinkTriples DEF SameTie
    <3> QED BY <1>4, <3>5
  <2> HIDE DEF a
  <2>4. \A T : a \in T => a \in Ties(T, b)
    BY <2>1, <2>2, <2>3, TieKept
  <2> QED BY <2>4 DEF b
<1>9. a \in Triples(r)
  <2> HIDE DEF ops, a, e
  <2> QED BY <1>1, <1>6, <1>7, <1>8, TieEnds
<1>10. PICK x \in r.links : Triple(x) = a
  BY <1>9 DEF Triples
<1>11. \A z \in LinkBefore(e, n) : SameLink(x, z)
  BY <1>4, <1>10, LinkTriples DEF SameTie
<1> QED BY <1>11 DEF Undone

(* No operation chosen that is before n is about what its item is part of. *)
FirstAbout(e, n, chosen) ==
  ~\E k \in chosen : k < n /\ Op(e, k).item = Op(e, n).item /\ AboutParent(Op(e, k))

(* What an item is part of that one moved or took out: the inverses that   *)
(* come after the one of the first operation leave it alone.               *)
LEMMA EarlierLeave ==
  ASSUME IInv, CInv, DInv, PInv, NEW c \in DOMAIN log, Ready(c),
         NEW n \in log[c].chosen, Op(log[c].of, n).kind \in {"move", "unlink"},
         FirstAbout(log[c].of, n, log[c].chosen),
         NEW k \in DOMAIN log[c].ops, log[c].from[k] < n
  PROVE  LET i == Op(log[c].of, n).item
             b == log[c].ops[k]
         IN  b.item = i => b.kind \notin {"move", "part_of"} /\ (b.kind = "unlink" => b.type # "part_of")
<1> DEFINE e == log[c].of
           i == Op(e, n).item
           m == log[c].from[k]
           by == Op(e, m)
           b == log[c].ops[k]
<1>1. /\ e \in Versions /\ log[c].chosen \subseteq DOMAIN log[e].ops
      /\ m \in log[c].chosen /\ Turned(b, e, m) /\ Unhindered(plan, e, m)
  BY UndoTurns
<1>2. ~(by.item = i /\ AboutParent(by))
  BY <1>1 DEF FirstAbout
<1>3. by.kind = "create" => by.item # i
  BY <1>1 DEF DInv, MadeAlone, Created
<1> HIDE DEF e, i, m, b
<1> SUFFICES ASSUME b.item = i, b.kind \in {"move", "part_of"} \/ (b.kind = "unlink" /\ b.type = "part_of")
             PROVE  FALSE
  BY DEF e, i, b
<1>4. CASE by.kind \in Posts
  <2>1. b.kind = "unlink" /\ \E x \in Candidates(plan, e, m) : b.type = x.type /\ b.item = x.source /\ b.to = x.target
    BY <1>1, <1>4 DEF Turned, Posts, Patches
  <2>2. PICK x \in Candidates(plan, e, m) : b.type = x.type /\ b.item = x.source /\ b.to = x.target
    BY <2>1
  <2>3. PICK z \in plan.links, y \in LinkAfter(e, m) :
           /\ Candidates(plan, e, m) = {z} /\ z.position = y.position
           /\ SameTie(Triple(z), <<by.kind, by.item, by.to>>) /\ z.type = by.kind
           /\ z.type = "part_of" => z.source = by.item
    BY <1>1, <1>4, PostIs
  <2>4. x = z /\ b.type = "part_of"
    BY <2>1, <2>2, <2>3
  <2>5. by.kind = "part_of" /\ by.item = i
    BY <2>2, <2>3, <2>4
  <2> QED BY <1>2, <2>5 DEF AboutParent
<1>5. CASE by.kind \notin Posts
  <2>1. by.item = i /\ (by.kind = "create" \/ by.kind = "move" \/ (by.kind = "unlink" /\ by.type = "part_of"))
    BY <1>1, <1>5 DEF Turned, Posts
  <2> QED BY <1>2, <1>3, <2>1 DEF AboutParent
<1> QED BY <1>4, <1>5

(* All that takes back operation n puts its item under p, or under none.   *)
PutUnder(c, n, p) ==
  \A k \in DOMAIN log[c].ops : log[c].from[k] = n =>
    log[c].ops[k].kind = "move" /\ log[c].ops[k].item = Op(log[c].of, n).item /\ log[c].ops[k].to = p

LEMMA ParentBack ==
  ASSUME IInv, CInv, DInv, PInv, NEW c \in DOMAIN log, ApplyUndo(c),
         NEW n \in log[c].chosen, Op(log[c].of, n).kind \in {"move", "unlink"},
         FirstAbout(log[c].of, n, log[c].chosen), NEW p, PutUnder(c, n, p)
  PROVE  LET i == Op(log[c].of, n).item
         IN  Of(Triples(Undone(c)), i) = IF p = NULL THEN {} ELSE {<<"part_of", i, p>>}
<1> DEFINE e == log[c].of
           i == Op(e, n).item
           ops == log[c].ops
           from == log[c].from
           D == IF p = NULL THEN {} ELSE {<<"part_of", i, p>>}
<1>1. /\ PlanOK(plan) /\ Commit \in Nat /\ Taken(plan, Width * Commit + 1)
      /\ OpsOK(ops) /\ Goes(plan, ops, Commit) /\ Ready(c)
      /\ \A k \in DOMAIN ops : ops[k].kind # "create"
  BY UndoRuns
<1>2. /\ e \in Versions /\ log[c].chosen \subseteq DOMAIN log[e].ops
      /\ \A k \in DOMAIN ops : from[k] \in log[c].chosen
      /\ \A j, k \in DOMAIN ops : j < k => from[k] <= from[j]
  BY <1>1, UndoTurns
<1>3. log[c].chosen \subseteq Int
  <2>1. IsList(log[e].ops)
    BY <1>2 DEF CInv, VersionsOK, OpsOK
  <2>2. DOMAIN log[e].ops \subseteq Int
    BY <2>1, ListIs
  <2> QED BY <1>2, <2>2
<1>4. PICK a \in DOMAIN ops : from[a] = n
  BY <1>1, UndoTurns
<1>5. ASSUME NEW k \in DOMAIN ops, from[k] = n
      PROVE  \A T : Of(Ties(T, ops[k]), i) = D
  <2>1. ops[k].kind = "move" /\ ops[k].item = i /\ ops[k].to = p
    BY <1>5 DEF PutUnder
  <2> HIDE DEF ops, i
  <2> QED BY <2>1, OfMoved
<1>6. ASSUME NEW k \in DOMAIN ops, from[k] < n
      PROVE  \A T : Of(Ties(T, ops[k]), i) = Of(T, i)
  <2>1. ops[k].kind \in OperationKinds /\ ops[k].kind # "create"
    BY <1>1 DEF OpsOK
  <2>2. ops[k].item = i => ops[k].kind \notin {"move", "part_of"} /\ (ops[k].kind = "unlink" => ops[k].type # "part_of")
    BY <1>1, <1>6, EarlierLeave
  <2> HIDE DEF ops, i
  <2> QED BY <2>1, <2>2, OfStays
<1> HIDE DEF ops, from, i, D
<1>7. \A k \in DOMAIN ops : k > a => \A T : Of(T, i) = D => Of(Ties(T, ops[k]), i) = D
  <2> SUFFICES ASSUME NEW k \in DOMAIN ops, k > a, NEW T, Of(T, i) = D PROVE Of(Ties(T, ops[k]), i) = D
    OBVIOUS
  <2>1. from[k] \in Int /\ n \in Int /\ from[k] <= from[a]
    <3>1. a < k
      <4>1. IsList(ops)
        BY <1>1 DEF OpsOK
      <4> QED BY <1>4, <4>1, ListIs
    <3> QED BY <1>2, <1>3, <1>4, <3>1
  <2>2. from[k] = n \/ from[k] < n
    BY <1>4, <2>1
  <2> QED BY <1>5, <1>6, <2>2
<1>8. Of(Triples(Result(plan, ops, Commit)), i) = D
  <2>1. \A T : Of(Ties(T, ops[a]), i) = D
    BY <1>4, <1>5
  <2>2. PlanOK(plan) /\ Commit \in Nat /\ Taken(plan, Width * Commit + 1) /\ OpsOK(ops) /\ Goes(plan, ops, Commit)
    BY <1>1
  <2> QED BY <1>4, <1>7, <2>1, <2>2, OfEnds
<1> QED BY <1>8 DEF Undone, ops, i, D

(* What an item is part of, from the triples. *)
LEMMA ParentIdsAre ==
  ASSUME NEW s, NEW i
  PROVE  ParentIds(s, i) = {a[3] : a \in Of(Triples(s), i)}
<1>1. \A x : Triple(x)[1] = x.type /\ Triple(x)[2] = x.source /\ Triple(x)[3] = x.target
  BY LinkTriples
<1>2. Parent(s, i) = {x \in s.links : x.type = "part_of" /\ x.source = i}
  BY DEF Parent, In!PartOf
<1>3. \A z : z \in ParentIds(s, i) <=> \E x \in s.links : x.type = "part_of" /\ x.source = i /\ z = x.target
  BY <1>2 DEF ParentIds
<1>4. \A z : z \in {a[3] : a \in Of(Triples(s), i)} <=>
               \E x \in s.links : x.type = "part_of" /\ x.source = i /\ z = x.target
  BY <1>1 DEF Of, Triples
<1> QED BY <1>3, <1>4

LEMMA TargetsAreItems ==
  ASSUME NEW s, PlanOK(s), NEW x \in s.links
  PROVE  x.target # NULL
<1>1. x.target \in DOMAIN s.items /\ IsList(s.items)
  BY DEF PlanOK, LinksOK, RowsOK, Items
<1> QED BY <1>1, ListIs, NullAssumption

(* What was moved is part of what it was part of. *)
LEMMA MoveBack ==
  ASSUME IInv, CInv, DInv, PInv, NEW c \in DOMAIN log, ApplyUndo(c),
         NEW n \in log[c].chosen, Op(log[c].of, n).kind = "move", FirstAbout(log[c].of, n, log[c].chosen)
  PROVE  LET i == Op(log[c].of, n).item
         IN  ParentIds(Undone(c), i) = ParentIds(Was(log[c].of, n), i)
<1> DEFINE e == log[c].of
           i == Op(e, n).item
           ops == log[c].ops
           was == Was(e, n)
           S == Parent(was, i)
<1>1. Ready(c)
  BY UndoRuns
<1>2. PlanOK(was) /\ \A k \in DOMAIN ops : Turned(ops[k], e, log[c].from[k])
  BY <1>1, UndoTurns
<1>3. LinkBefore(e, n) = S
  BY DEF LinkBefore
<1>4. ASSUME NEW k \in DOMAIN ops, log[c].from[k] = n
      PROVE  /\ ops[k].kind = "move" /\ ops[k].item = i
             /\ ops[k].to \in IF S = {} THEN {NULL} ELSE {x.target : x \in S}
  <2>1. Turned(ops[k], e, n)
    BY <1>2, <1>4
  <2> HIDE DEF ops, S
  <2> QED BY <1>3, <2>1 DEF Turned, Posts
<1>5. ParentIds(was, i) = {x.target : x \in S}
  BY DEF ParentIds
<1>6. \A x, y \in S : x = y
  BY <1>2 DEF PlanOK, LinksOK, Parent, In!PartOf
<1>7. \A x \in S : x.target # NULL
  BY <1>2, TargetsAreItems DEF Parent, In!PartOf
<1> HIDE DEF was, S, ops, i
<1>8. ASSUME NEW q, \A k \in DOMAIN ops : log[c].from[k] = n => ops[k].to = q
      PROVE  ParentIds(Undone(c), i) = IF q = NULL THEN {} ELSE {q}
  <2>1. \A k \in DOMAIN ops : log[c].from[k] = n => ops[k].kind = "move" /\ ops[k].item = i /\ ops[k].to = q
    BY <1>4, <1>8
  <2>2. Of(Triples(Undone(c)), i) = IF q = NULL THEN {} ELSE {<<"part_of", i, q>>}
    <3>1. Op(log[c].of, n).kind \in {"move", "unlink"}
      OBVIOUS
    <3>2. PutUnder(c, n, q)
      BY <2>1 DEF PutUnder, ops, i
    <3>3. Of(Triples(Undone(c)), Op(log[c].of, n).item) =
            IF q = NULL THEN {} ELSE {<<"part_of", Op(log[c].of, n).item, q>>}
      BY <3>1, <3>2, ParentBack
    <3> QED BY <3>3 DEF i
  <2>3. {a[3] : a \in {<<"part_of", i, q>>}} = {q}
    OBVIOUS
  <2>4. CASE q = NULL
    BY <2>2, <2>4, ParentIdsAre
  <2>5. CASE q # NULL
    BY <2>2, <2>3, <2>5, ParentIdsAre
  <2> QED BY <2>4, <2>5
<1>9. CASE S = {}
  <2>1. ParentIds(Undone(c), i) = {}
    <3>1. \A k \in DOMAIN ops : log[c].from[k] = n => ops[k].to = NULL
      BY <1>4, <1>9
    <3> QED BY <1>8, <3>1
  <2> QED BY <1>5, <1>9, <2>1 DEF was, i
<1>10. CASE S # {}
  <2>1. PICK x \in S : TRUE
    BY <1>10
  <2>2. S = {x}
    BY <1>6, <2>1
  <2>3. \A k \in DOMAIN ops : log[c].from[k] = n => ops[k].to = x.target
    BY <1>4, <2>2
  <2>4. ParentIds(Undone(c), i) = {x.target}
    BY <1>7, <1>8, <2>1, <2>3
  <2> QED BY <1>5, <2>2, <2>4 DEF was, i
<1> QED BY <1>9, <1>10

(* What was taken out is part of it again. *)
LEMMA PartBack ==
  ASSUME IInv, CInv, DInv, PInv, NEW c \in DOMAIN log, ApplyUndo(c),
         NEW n \in log[c].chosen, Op(log[c].of, n).kind = "unlink", Op(log[c].of, n).type = "part_of",
         FirstAbout(log[c].of, n, log[c].chosen)
  PROVE  \A y \in LinkBefore(log[c].of, n) : \E x \in Undone(c).links : SameLink(x, y)
<1> DEFINE e == log[c].of
           i == Op(e, n).item
           p == Op(e, n).to
           ops == log[c].ops
           was == Was(e, n)
<1> SUFFICES ASSUME NEW y \in LinkBefore(e, n) PROVE \E x \in Undone(c).links : SameLink(x, y)
  OBVIOUS
<1>1. Ready(c)
  BY UndoRuns
<1>2. PlanOK(was) /\ \A k \in DOMAIN ops : Turned(ops[k], e, log[c].from[k])
  BY <1>1, UndoTurns
<1>3. y \in was.links /\ y.type = "part_of" /\ y.source = i /\ y.target = p
  BY DEF LinkBefore
<1>4. p # NULL
  BY <1>2, <1>3, TargetsAreItems
<1>5. ASSUME NEW k \in DOMAIN ops, log[c].from[k] = n
      PROVE  ops[k].kind = "move" /\ ops[k].item = i /\ ops[k].to = p
  <2>1. Turned(ops[k], e, n)
    BY <1>2, <1>5
  <2> HIDE DEF ops
  <2> QED BY <2>1 DEF Turned, Posts
<1>6. Of(Triples(Undone(c)), i) = IF p = NULL THEN {} ELSE {<<"part_of", i, p>>}
  <2>1. Op(log[c].of, n).kind \in {"move", "unlink"}
    OBVIOUS
  <2>2. PutUnder(c, n, p)
    BY <1>5 DEF PutUnder
  <2> HIDE DEF p
  <2>3. Of(Triples(Undone(c)), Op(log[c].of, n).item) =
          IF p = NULL THEN {} ELSE {<<"part_of", Op(log[c].of, n).item, p>>}
    BY <2>1, <2>2, ParentBack
  <2> QED BY <2>3
<1> HIDE DEF i, p
<1>7. <<"part_of", i, p>> \in Triples(Undone(c))
  BY <1>4, <1>6 DEF Of
<1>8. PICK x \in Undone(c).links : Triple(x) = <<"part_of", i, p>>
  BY <1>7 DEF Triples
<1>9. SameLink(x, y)
  BY <1>3, <1>8, LinkTriples DEF SameLink
<1> QED BY <1>9

(* Restored of an entry and a plan. *)
RestoredIn(p, of, n, chosen) ==
  LET op == of.ops[n]
      i == op.item
      was == of.changes[n].before
      first == ~\E k \in chosen : k < n /\ of.ops[k].item = i /\ AboutParent(of.ops[k])
  IN  CASE op.kind = "edit"    -> p.items[i].title = was.items[i].title
        [] op.kind = "reopen"  -> p.items[i].done <=> was.items[i].done
        [] op.kind \in {"archive", "restore"} -> p.items[i].archived <=> was.items[i].archived
        [] op.kind = "create"  -> ~Live(p, i) /\ Parent(p, i) = {}
        [] op.kind = "move"    -> first => ParentIds(p, i) = ParentIds(was, i)
        [] op.kind \in Posts   -> ~\E x \in p.links, y \in RowAfter(of, n) : SameLink(x, y)
        [] op.kind = "unlink"  ->
             first \/ op.type # "part_of" =>
               \A y \in RowBefore(of, n) : \E x \in p.links : SameLink(x, y)

LEMMA RestoredSame ==
  ASSUME NEW p, NEW q, p.items = q.items, p.links = q.links, NEW of, NEW n, NEW chosen
  PROVE  RestoredIn(p, of, n, chosen) <=> RestoredIn(q, of, n, chosen)
<1>1. \A i : Live(p, i) = Live(q, i) /\ Parent(p, i) = Parent(q, i) /\ ParentIds(p, i) = ParentIds(q, i)
  BY DEF Live, ParentIds, Parent, In!PartOf
<1> QED BY <1>1 DEF RestoredIn

LEMMA PutsBackIs ==
  ASSUME NEW c
  PROVE  PutsBack(c) <=>
           \A n \in log'[c].chosen : RestoredIn(plan', log'[log'[c].of], n, log'[c].chosen)
<1>1. \A n : LinkAfter(log[c].of, n)' = RowAfter(log'[log'[c].of], n)
  <2>1. \A e, n : LinkAfter(e, n)' = RowAfter(log'[e], n)
    BY RowLinks
  <2> QED BY <2>1 DEF LinkAfter, Op, Became
<1>2. \A n : LinkBefore(log[c].of, n)' = RowBefore(log'[log'[c].of], n)
  <2>1. \A e, n : LinkBefore(e, n)' = RowBefore(log'[e], n)
    BY RowLinks
  <2> QED BY <2>1 DEF LinkBefore, Op, Was
<1>3. ASSUME NEW n
      PROVE  Restored(log[c].of, n, log[c].chosen)' <=> RestoredIn(plan', log'[log'[c].of], n, log'[c].chosen)
  <2>1. LinkAfter(log[c].of, n)' = RowAfter(log'[log'[c].of], n) /\ LinkBefore(log[c].of, n)' = RowBefore(log'[log'[c].of], n)
    BY <1>1, <1>2
  <2> QED BY <2>1 DEF Restored, RestoredIn, Op, Was
<1> QED BY <1>3 DEF PutsBack

(* All that was chosen is as it was. *)
LEMMA BackIs ==
  ASSUME IInv, CInv, DInv, PInv, NEW c \in DOMAIN log, ApplyUndo(c), NEW n \in log[c].chosen
  PROVE  RestoredIn(Undone(c), log[log[c].of], n, log[c].chosen)
<1> DEFINE e == log[c].of
           u == Undone(c)
           op == Op(e, n)
           i == op.item
           was == Was(e, n)
           first == FirstAbout(e, n, log[c].chosen)
<1>1. op.kind \in OperationKinds
  BY UndoRuns, UndoTurns
<1>2. /\ op.kind = "edit" => u.items[i].title = was.items[i].title
      /\ op.kind = "reopen" => (u.items[i].done <=> was.items[i].done)
      /\ op.kind \in {"archive", "restore"} => (u.items[i].archived <=> was.items[i].archived)
      /\ op.kind = "create" => ~Live(u, i) /\ Parent(u, i) = {}
  BY EditBack, ReopenBack, ArchiveBack, CreateBack
<1>3. op.kind = "move" => (first => ParentIds(u, i) = ParentIds(was, i))
  BY MoveBack
<1>4. op.kind \in Posts => ~\E x \in u.links, y \in LinkAfter(e, n) : SameLink(x, y)
  BY PostBack
<1>5. op.kind = "unlink" => (first \/ op.type # "part_of" =>
                               \A y \in LinkBefore(e, n) : \E x \in u.links : SameLink(x, y))
  BY PartBack, RelatedBack
<1>6. LinkAfter(e, n) = RowAfter(log[e], n) /\ LinkBefore(e, n) = RowBefore(log[e], n)
  BY RowLinks
<1>7. op = log[e].ops[n] /\ was = log[e].changes[n].before
  BY DEF Op, Was
<1>8. first <=> ~\E k \in log[c].chosen : k < n /\ log[e].ops[k].item = i /\ AboutParent(log[e].ops[k])
  BY DEF FirstAbout, Op
<1> HIDE DEF u, e, op, was, first
<1>9. RestoredIn(u, log[e], n, log[c].chosen)
  <2>1. CASE op.kind \in {"edit", "reopen"}
    BY <1>2, <1>7, <2>1 DEF RestoredIn, Posts
  <2>2. CASE op.kind \in {"archive", "restore"}
    BY <1>2, <1>7, <2>2 DEF RestoredIn, Posts
  <2>3. CASE op.kind = "create"
    BY <1>2, <1>7, <2>3 DEF RestoredIn, Posts
  <2>4. CASE op.kind = "move"
    BY <1>3, <1>7, <1>8, <2>4 DEF RestoredIn, Posts
  <2>5. CASE op.kind \in Posts
    BY <1>4, <1>6, <1>7, <2>5 DEF RestoredIn, Posts
  <2>6. CASE op.kind = "unlink"
    <3>1. ~(op.kind \in Posts)
      BY <2>6 DEF Posts
    <3> QED BY <1>5, <1>6, <1>7, <1>8, <2>6, <3>1 DEF RestoredIn
  <2> QED BY <1>1, <2>1, <2>2, <2>3, <2>4, <2>5, <2>6 DEF OperationKinds, Patches
<1> QED BY <1>9 DEF u, e

(* Approving a proposal puts it back. *)
LEMMA BackStep ==
  ASSUME IInv, CInv, DInv, PInv, [Next]_vars, NEW c \in DOMAIN log, Applied(c)
  PROVE  PutsBack(c)
<1> DEFINE e == log[c].of
           chosen == log[c].chosen
<1>1. Next
  BY DEF Applied, vars
<1>2. ApplyUndo(c)
  BY <1>1, OnlyApproved
<1>3. log[c].status = "pending" /\ plan' = Written(Undone(c), Rewritten(log[c].ops, Run(plan, log[c].ops, Commit)))
  BY <1>2 DEF ApplyUndo, Undone, Result
<1>4. plan'.items = Undone(c).items /\ plan'.links = Undone(c).links
  <2> HIDE DEF Undone
  <2> QED BY <1>3 DEF Written
<1>5. e \in Versions
  BY <1>2, UndoRuns, UndoTurns
<1>6. log'[c].of = e /\ log'[c].chosen = chosen /\ log'[e] = log[e]
  <2>1. e # c /\ e \in DOMAIN log
    BY <1>3, <1>5 DEF Versions
  <2> QED BY <1>2, <2>1 DEF ApplyUndo, IInv, LogOK, Fields
<1>7. ASSUME NEW n \in chosen
      PROVE  RestoredIn(plan', log[e], n, chosen)
  <2>1. RestoredIn(Undone(c), log[e], n, chosen)
    BY <1>2, BackIs
  <2> HIDE DEF e, chosen
  <2> QED BY <1>4, <2>1, RestoredSame
<1> HIDE DEF e, chosen
<1>8. \A n \in log'[c].chosen : RestoredIn(plan', log'[log'[c].of], n, log'[c].chosen)
  BY <1>6, <1>7
<1> QED BY <1>8, PutsBackIs

(* Applying an undo puts back what each of its operations changed: the     *)
(* title, whether the work is done, whether the item is in the plan, what  *)
(* it is part of, whether the two are related; of several chosen that      *)
(* changed what an item is part of, what it was before the first, and an   *)
(* item whose creation is undone is in the plan no more and part of        *)
(* nothing (PutsBack, of UndoRestores).                                    *)
THEOREM UndoPutsBack == Spec => [][\A c \in DOMAIN log : Applied(c) => PutsBack(c)]_vars
<1> DEFINE Back == \A c \in DOMAIN log : Applied(c) => PutsBack(c)
<1>1. IInv /\ CInv /\ DInv /\ PInv /\ [Next]_vars => [Back]_vars
  BY BackStep
<1> QED BY <1>1, PlacedAlways, PTL DEF Spec

=============================================================================
