------------------------------- MODULE History -------------------------------
(***************************************************************************)
(* The history of a plan and how a change is taken back (service.rs).      *)
(* Whatever is applied leaves an entry with its operations and, for each,  *)
(* a snapshot of what it touched before and after: direct edits and        *)
(* compound writes (a template) in the audit, change sets in their own     *)
(* row.  Two entries can be compared, and the operations of an entry can   *)
(* be undone: reverse_preview works out inverse operations from the        *)
(* snapshots and the plan as it is now, and stores them as a proposal that *)
(* somebody approves later, like any other change set.                     *)
(*                                                                         *)
(* The plan itself, the order of siblings and what relates to what are     *)
(* those of module PlanStructure.  Every request is one step, under the    *)
(* workspace's lock (module WriteRequests); who may make one is left to    *)
(* ChangeApproval.  Snapshots are kept as whole plans, of which only what  *)
(* the code saves is looked at.                                            *)
(***************************************************************************)
EXTENDS Integers, Sequences, FiniteSets, SequencesExt

CONSTANTS
  NULL,        \* no parent, no position, not archived
  Start,       \* the plan in the beginning: its items and its links
  Size,        \* bound: how many items there may be
  Requests,    \* bound: the lists of operations a change set or an edit may hold
  Templates,   \* bound: the compound writes, as the operations they carry out
  MaxLog,      \* bound: how many entries and proposals there may be
  Spare,       \* bound: how many of them can only be direct edits
  MaxClock     \* bound: how often anything is written

ASSUME BoundAssumption == MaxLog \in Nat /\ Spare \in Nat /\ MaxClock \in Nat /\ Size \in Nat
ASSUME NullAssumption == NULL \notin Int

VARIABLES
  plan,        \* the items, the links, and the versions of their rows
  work,        \* work[i]: when work on item i was last recorded, 0 for never
  log,         \* the history entries and the proposals to undo, in the order they came
  clock        \* the time, which is also where identities come from

vars == <<plan, work, log, clock>>

-----------------------------------------------------------------------------
(* The plan s, as module PlanStructure has it.  The rows have a title,     *)
(* whether the action is done, and when the item was archived besides.     *)
In(s) == INSTANCE PlanStructure WITH
  items <- s.items, links <- s.links,
  Kinds <- [n \in 1..Size |-> "outcome"], Types <- {"part_of", "relates_to"},
  Positions <- {}, Backups <- {}, MaxLinks <- 100

Items(s) == DOMAIN s.items
Live(s, i) == ~s.items[i].archived

(* part_of_snapshot: the link that says what item i is part of, if any. *)
Parent(s, i) == In(s)!PartOf(i)
ParentIds(s, i) == {x.target : x \in Parent(s, i)}

(* part_of_sibling_ids *)
Siblings(s, p) == In(s)!Shown(p)

(* item_relation_activity_state *)
Touching(s, i) == {x \in s.links : i \in {x.source, x.target}}

(* relation_snapshot_identity_matches: relates_to is the same both ways. *)
SameLink(x, y) ==
  /\ x.type = y.type
  /\ \/ <<x.source, x.target>> = <<y.source, y.target>>
     \/ x.type = "relates_to" /\ <<x.source, x.target>> = <<y.target, y.source>>

NewLink(type, i, j, position, id) ==
  [type |-> type, source |-> i, target |-> j, position |-> position, id |-> id]

-----------------------------------------------------------------------------
(* What one operation does to plan s at time t: {} when it is refused.     *)
Patches == {"edit", "reopen", "archive", "restore"}
Posts == {"relates_to", "part_of"}
OperationKinds == Patches \cup Posts \cup {"create", "move", "unlink"}

Operation(kind, i, to) ==
  [kind |-> kind, item |-> i, to |-> to, at |-> NULL, type |-> NULL, seen |-> {}]
MoveTo(i, p, k) == [Operation("move", i, p) EXCEPT !.at = k]
Unlink(type, i, j) == [Operation("unlink", i, j) EXCEPT !.type = type]

(* An inverse names the version of the link, which is another when the     *)
(* link has been numbered again.                                           *)
Delete(x) == [Unlink(x.type, x.source, x.target) EXCEPT !.seen = {x}]

WithRow(s, i, row) == {[s EXCEPT !.items[i] = row]}

(* PATCH items: a title, a state, or archived_at, for which the server     *)
(* puts in the time whatever the request says.                             *)
Patch(s, op, t) ==
  IF op.item \notin Items(s) THEN {}
  ELSE LET row == s.items[op.item]
       IN  CASE op.kind = "edit"    -> WithRow(s, op.item, [row EXCEPT !.title = op.to])
             [] op.kind = "reopen"  -> WithRow(s, op.item, [row EXCEPT !.done = FALSE])
             [] op.kind = "archive" -> WithRow(s, op.item, [row EXCEPT !.archived = TRUE, !.since = t])
             [] op.kind = "restore" -> WithRow(s, op.item, [row EXCEPT !.archived = FALSE, !.since = NULL])

(* POST relations; validate_relation is PlanStructure's. *)
Relate(s, op, t) ==
  LET x == NewLink(op.kind, op.item, op.to, NULL, t)
  IN  IF In(s)!Valid(s.items, s.links, x) THEN {[s EXCEPT !.links = @ \cup {x}]} ELSE {}

(* DELETE relations *)
Unrelate(s, op) ==
  LET gone == {x \in s.links : x.type = op.type /\ x.source = op.item /\ x.target = op.to}
  IN  IF gone = {} \/ ~(op.seen \subseteq gone) THEN {} ELSE {[s EXCEPT !.links = @ \ gone]}

(* POST items, under a parent or not. *)
Create(s, op, t) ==
  LET made == [s EXCEPT !.items = Append(@, [kind |-> "outcome", archived |-> FALSE,
                                             title |-> 0, done |-> FALSE, since |-> NULL])]
  IN  IF op.item # Len(s.items) + 1 \/ op.item > Size THEN {}
      ELSE IF op.to = NULL THEN {made}
      ELSE Relate(made, Operation("part_of", op.item, op.to), t)

(* POST items reparent: the link keeps its identity when it is moved, and  *)
(* the siblings it joins and those it leaves are numbered again.           *)
Reparent(s, op, t) ==
  LET old == Parent(s, op.item)
      left == UNION {In(s)!Siblings(x.target, op.item) : x \in {y \in old : y.target # op.to}}
      there == IF op.to = NULL THEN {} ELSE In(s)!Siblings(op.to, op.item)
      k == IF op.at = NULL THEN Cardinality(there) ELSE op.at
      id == IF old = {} THEN t ELSE (CHOOSE x \in old : TRUE).id
      x == NewLink("part_of", op.item, op.to, k, id)
      stays == \E y \in old : y.target = op.to /\ op.at = NULL
      inPlace == op.to \in ParentIds(s, op.item) /\
                 LET list == Siblings(s, op.to) IN k + 1 \in DOMAIN list /\ list[k + 1] = op.item
      closed == In(s)!Numbered(left, Cardinality(left))
  IN  IF op.item \notin Items(s) \/ k > Cardinality(there) \/ stays \/ inPlace THEN {}
      ELSE IF op.to = NULL
        THEN IF old = {} THEN {} ELSE {[s EXCEPT !.links = (@ \ (old \cup left)) \cup closed]}
      ELSE IF ~In(s)!Valid(s.items, s.links \ old, x) THEN {}
      ELSE {[s EXCEPT !.links = (@ \ (old \cup there \cup left))
                                   \cup {x} \cup In(s)!Numbered(there, k) \cup closed]}

Do(s, op, t) ==
  CASE op.kind \in Patches  -> Patch(s, op, t)
    [] op.kind = "create"   -> Create(s, op, t)
    [] op.kind = "move"     -> Reparent(s, op, t)
    [] op.kind \in Posts    -> Relate(s, op, t)
    [] op.kind = "unlink"   -> Unrelate(s, op)

(* More than the operations of one write, so that identities taken at      *)
(* different times are different.                                          *)
Width == 1000

(* What operations ops make of plan s at time t, one after another: after  *)
(* n of them none when one was refused.                                    *)
Course(s, ops, t) ==
  LET run[n \in 0..Len(ops)] ==
        IF n = 0 THEN {s} ELSE UNION {Do(r, ops[n], Width * t + n) : r \in run[n - 1]}
  IN  run

Goes(s, ops, t) == Course(s, ops, t)[Len(ops)] # {}

(* The plans they go through. *)
Run(s, ops, t) ==
  LET course == Course(s, ops, t) IN [n \in 0..Len(ops) |-> CHOOSE r \in course[n] : TRUE]

Result(s, ops, t) == Run(s, ops, t)[Len(ops)]

(* The rows of plan s, and those that operation op wrote again on the way  *)
(* from s to r: an item that is patched, a link that is moved or numbered  *)
(* otherwise.                                                              *)
Rows(s) == {<<"items", i>> : i \in Items(s)} \cup {<<"relations", x.id>> : x \in s.links}

Rewrites(s, op, r) ==
  {<<"items", op.item>> : k \in {op.kind} \cap Patches}
    \cup {<<"relations", y.id>> : y \in {y \in r.links : \E x \in s.links : x.id = y.id /\ x # y}}

Rewritten(ops, run) == UNION {Rewrites(run[n - 1], ops[n], run[n]) : n \in DOMAIN ops}

-----------------------------------------------------------------------------
(* The entries.  A change is what was saved of the plan before and after   *)
(* one operation.                                                          *)
Change(s, r) == [before |-> s, after |-> r]

(* describe_operation saves the snapshots when a change set is previewed;  *)
(* rebind_committed_change replaces those of what was made or moved by     *)
(* those of the commit, and leaves the others.                             *)
Rebound(ops, seen, done) ==
  [n \in DOMAIN ops |->
     Change(seen[n - 1], IF ops[n].kind \in Posts \cup {"create", "move"} THEN done[n] ELSE seen[n])]

Recorded(ops, changes, base, t, result) ==
  [status |-> "applied", of |-> 0, chosen |-> {}, from |-> <<>>, ops |-> ops, changes |-> changes,
   base |-> base, at |-> t, result |-> result]

(* plan_history_compound_changes: what a compound write did, read off the  *)
(* plan before and after.  Items it made come first, above before below,   *)
(* each with the link to its parent; then the other links.                 *)
Made(s, r) == Items(r) \ Items(s)

Depth(s, r, i) ==
  LET within == {x \in r.links : x.type = "part_of" /\ {x.source, x.target} \subseteq Made(s, r)}
  IN  Cardinality({j \in Made(s, r) \ {i} : In(r)!Reaches(within, i, j)})

(* The members of S from the one with the least key, which is its own.     *)
Sorted(S, key) ==
  [n \in 1..Cardinality(S) |-> CHOOSE x \in S : Cardinality({y \in S : key[y] < key[x]}) = n - 1]

Tied(s, r) == {x \in r.links \ s.links : ~(x.type = "part_of" /\ x.source \in Made(s, r))}

Derived(s, r) ==
  LET parent(i) == IF Parent(r, i) = {} THEN NULL ELSE CHOOSE p \in ParentIds(r, i) : TRUE
      made == Sorted(Made(s, r), [i \in Made(s, r) |-> Width * Depth(s, r, i) + i])
      tied == Sorted(Tied(s, r), [x \in Tied(s, r) |-> x.id])
  IN  [n \in DOMAIN made |-> Operation("create", made[n], parent(made[n]))]
        \o [n \in DOMAIN tied |-> Operation(tied[n].type, tied[n].source, tied[n].target)]

-----------------------------------------------------------------------------
(* Which operations are undone already.                                    *)

(* undo_change_is_live: it was applied, or may still be. *)
Lives(c) == log[c].status \in {"applied", "pending"}

(* mapped_undo_sources: the operations of undo c that take back operation n. *)
Inverses(c, n) == {k \in DOMAIN log[c].ops : log[c].from[k] = n}

Undoes(c, e, n) == log[c].of = e /\ n \in log[c].chosen

(* operation_has_effect: those of entry e that were applied, and that no   *)
(* undo has wholly taken back that has its effect.                         *)
Effective ==
  LET effect[e \in DOMAIN log] ==
        {n \in DOMAIN log[e].ops :
           /\ log[e].status = "applied"
           /\ ~\E c \in e + 1 .. Len(log) :
                 /\ log[c].status = "applied" /\ Undoes(c, e, n)
                 /\ Inverses(c, n) # {} /\ Inverses(c, n) \subseteq effect[c]}
  IN  effect

(* Mutant: a proposal nobody decided yet reserves nothing. *)
UndoneOnly(e) ==
  {n \in DOMAIN log[e].ops :
     \E c \in DOMAIN log :
       /\ log[c].status = "applied" /\ Undoes(c, e, n)
       /\ Inverses(c, n) \cap Effective[c] # {}}

(* active_undo_operations: those that an undo of reserves or has undone,   *)
(* as long as any part of that undo has not been undone itself.            *)
ActiveUndo(e) ==
  {n \in DOMAIN log[e].ops :
     \E c \in DOMAIN log :
       /\ Lives(c) /\ Undoes(c, e, n)
       /\ \/ log[c].status = "pending"
          \/ Inverses(c, n) = {}
          \/ Inverses(c, n) \cap Effective[c] # {}}

-----------------------------------------------------------------------------
(* What stands in the way of taking back operation n of entry e.           *)
Op(e, n) == log[e].ops[n]
Was(e, n) == log[e].changes[n].before
Became(e, n) == log[e].changes[n].after

(* The links in the snapshots of an operation (relation_delta). *)
LinkBefore(e, n) ==
  LET op == Op(e, n)
  IN  CASE op.kind = "unlink" -> {x \in Was(e, n).links :
                                    x.type = op.type /\ x.source = op.item /\ x.target = op.to}
        [] op.kind = "move"   -> Parent(Was(e, n), op.item)
        [] OTHER              -> {}

LinkAfter(e, n) ==
  LET op == Op(e, n)
  IN  CASE op.kind \in Posts             -> {x \in Became(e, n).links :
                                               x.type = op.kind /\ x.source = op.item /\ x.target = op.to}
        [] op.kind \in {"move", "create"} -> Parent(Became(e, n), op.item)
        [] OTHER                          -> {}

Delta(e, n) == LinkBefore(e, n) \cup LinkAfter(e, n)

(* What the diff of an operation names, by which two of them are told to   *)
(* be about the same thing.                                                *)
Target(e, n) ==
  IF Op(e, n).kind \in Posts \cup {"unlink"} THEN <<"relations", Delta(e, n)>>
                                            ELSE <<"items", Op(e, n).item>>

(* selected_later_relation_activity_projection: links that a later chosen  *)
(* operation touched, which its own inverse looks after.                   *)
Projected(e, chosen, n, i, x) ==
  \E y \in UNION {Delta(e, k) : k \in {k \in chosen : k > n}} :
    /\ i \in {y.source, y.target}
    /\ \/ x.id = y.id
       \/ SameLink(x, y)
       \/ x.type = "part_of" /\ x.target = i /\ y.type = "part_of" /\ y.target = i

(* item_has_later_activity: work recorded since, or other links than then. *)
LaterActivity(e, chosen, n, i) ==
  LET others(s) == {x \in Touching(s, i) : ~Projected(e, chosen, n, i, x)}
  IN  work[i] > log[e].at \/ others(plan) # others(Became(e, n))

(* changeset_has_unselected_later_item_activity *)
UsedLater(e, chosen, n, i) ==
  \E k \in n + 1 .. Len(log[e].ops) :
    /\ k \notin chosen
    /\ \/ Op(e, k).item = i
       \/ Op(e, k).kind \in Posts \cup {"create", "move"} /\ Op(e, k).to = i
       \/ \E x \in Delta(e, k) : i \in {x.source, x.target}

(* A PATCH: each value asked for has to be what the operation left.  When  *)
(* it archived or restored, the item may not have been used since.         *)
PatchBlocked(e, chosen, n) ==
  LET op == Op(e, n)
      i == op.item
      now == plan.items[i]
      was == Was(e, n).items[i]
      left == Became(e, n).items[i]
      turned == was.archived # left.archived
      used == now # left \/ LaterActivity(e, chosen, n, i) \/ UsedLater(e, chosen, n, i)
  IN  CASE op.kind = "edit"   -> now.title # left.title
        [] op.kind = "reopen" -> was.done \/ now.done # left.done
        [] OTHER              -> now.since # left.since \/ (turned /\ used)

(* Mutant: what was linked to the item since is not looked for. *)
CreateBlockedByWork(e, chosen, n) ==
  LET i == Op(e, n).item IN plan.items[i] # Became(e, n).items[i] \/ work[i] # 0

(* A creation: the item is as it was made, nothing was recorded on it, and *)
(* nothing is linked to it but what goes with it.                          *)
CreateBlocked(e, chosen, n) ==
  LET i == Op(e, n).item
      own(x) == \E y \in LinkAfter(e, n) : SameLink(x, y) /\ x.position = y.position
      going == {x.id : x \in UNION {LinkAfter(e, k) :
                                       k \in {k \in chosen : Op(e, k).kind \in Posts \cup {"create"}}}}
  IN  \/ plan.items[i] # Became(e, n).items[i]
      \/ work[i] # 0
      \/ \E x \in Touching(plan, i) : x.id \notin going /\ ~own(x)
      \/ Parent(plan, i) # {} /\ ~\E x \in Parent(plan, i) : own(x)
      \/ Parent(plan, i) = {} /\ LinkAfter(e, n) # {}

(* A move: the item is where it was put, with the same siblings in the     *)
(* same order, and those it left are as it left them.                      *)
MoveBlocked(e, chosen, n) ==
  LET i == Op(e, n).item
      to == {x.target : x \in LinkAfter(e, n)}
      there(s, p) == Siblings(s, p)
      left(p) == IF p \in to THEN there(Became(e, n), p)
                            ELSE SelectSeq(there(Was(e, n), p), LAMBDA j : j # i)
  IN  \/ ~Live(plan, i)
      \/ Parent(plan, i) # LinkAfter(e, n)
      \/ \E p \in to : i \notin ToSet(there(Became(e, n), p)) \/ there(plan, p) # there(Became(e, n), p)
      \/ \E x \in LinkBefore(e, n) :
            \/ ~Live(plan, x.target)
            \/ there(plan, x.target) # left(x.target)
            \/ i \notin ToSet(there(Was(e, n), x.target))

(* A link that was made: exactly one is it, by its id or by what it        *)
(* relates, and it is where it was.                                        *)
Candidates(s, e, n) ==
  {x \in s.links : \E y \in LinkAfter(e, n) : x.id = y.id \/ SameLink(x, y)}
PostBlocked(e, chosen, n) ==
  ~\E y \in LinkAfter(e, n), x \in plan.links :
      Candidates(plan, e, n) = {x} /\ SameLink(x, y) /\ x.position = y.position

(* A link that was removed: it is not back, and both ends are there; what  *)
(* was part of something is part of nothing now, and its place is known.   *)
UnlinkBlocked(e, chosen, n) ==
  \/ LinkBefore(e, n) = {}
  \/ \E y \in LinkBefore(e, n) :
       \/ \E x \in plan.links : x.id = y.id \/ SameLink(x, y)
       \/ ~Live(plan, y.source) \/ ~Live(plan, y.target)
       \/ /\ y.type = "part_of"
          /\ LET saved == Siblings(Was(e, n), y.target)
             IN  \/ Parent(plan, y.source) # {}
                 \/ Siblings(plan, y.target) # SelectSeq(saved, LAMBDA j : j # y.source)
                 \/ y.source \notin ToSet(saved)

Blocked(e, chosen, n) ==
  LET kind == Op(e, n).kind
  IN  CASE kind \in Patches  -> PatchBlocked(e, chosen, n)
        [] kind = "create"   -> CreateBlocked(e, chosen, n)
        [] kind = "move"     -> MoveBlocked(e, chosen, n)
        [] kind \in Posts    -> PostBlocked(e, chosen, n)
        [] kind = "unlink"   -> UnlinkBlocked(e, chosen, n)

(* safely_reversible_operation: what the history offers to undo. *)
Reversible(e, n) ==
  LET op == Op(e, n)
      seen(s, x) == op.item \in ToSet(Siblings(s, x.target))
  IN  /\ op.kind = "reopen" => ~Was(e, n).items[op.item].done
      /\ op.kind = "move" => /\ \A x \in LinkBefore(e, n) : seen(Was(e, n), x)
                             /\ \A x \in LinkAfter(e, n) : seen(Became(e, n), x)
      /\ op.kind = "unlink" => \A x \in LinkBefore(e, n) : x.type = "part_of" => seen(Was(e, n), x)

Offered(e) == {n \in DOMAIN log[e].ops : Reversible(e, n)} \ ActiveUndo(e)

-----------------------------------------------------------------------------
(* The operations that take back operation n of entry e. *)
PlaceIn(list, i) == (CHOOSE k \in DOMAIN list : list[k] = i) - 1

(* The one in S, if there is any. *)
One(S) == IF S = {} THEN <<>> ELSE <<CHOOSE x \in S : TRUE>>

TakenBack(e, n) ==
  LET op == Op(e, n)
      i == op.item
      was == Was(e, n)
      back(x) == MoveTo(i, x.target, PlaceIn(Siblings(was, x.target), i))
  IN  CASE op.kind = "edit"    -> <<Operation("edit", i, was.items[i].title)>>
        [] op.kind = "reopen"  -> <<Operation("reopen", i, NULL)>>
        [] op.kind \in {"archive", "restore"} ->
             <<Operation(IF was.items[i].archived THEN "archive" ELSE "restore", i, NULL)>>
        [] op.kind = "create"  ->
             One({Delete(x) : x \in Parent(plan, i)})
               \o <<Operation("archive", i, NULL)>>
        [] op.kind = "move"    ->
             IF LinkBefore(e, n) = {} THEN <<MoveTo(i, NULL, NULL)>>
             ELSE One({back(x) : x \in LinkBefore(e, n)})
        [] op.kind \in Posts   -> One({Delete(x) : x \in Candidates(plan, e, n)})
        [] op.kind = "unlink"  ->
             One({IF x.type = "part_of" THEN back(x) ELSE Operation(x.type, x.source, x.target) :
                    x \in LinkBefore(e, n)})

(* The inverse of those chosen, the last operation taken back first, each  *)
(* part of it with the operation it takes back.                            *)
TakingBack(e, chosen) ==
  LET inv[n \in 0..Len(log[e].ops)] ==
        IF n = 0 THEN <<>>
        ELSE IF n \notin chosen THEN inv[n - 1]
        ELSE [m \in DOMAIN TakenBack(e, n) |-> [op |-> TakenBack(e, n)[m], from |-> n]] \o inv[n - 1]
  IN  inv[Len(log[e].ops)]

InverseOps(e, chosen) == [m \in DOMAIN TakingBack(e, chosen) |-> TakingBack(e, chosen)[m].op]
InverseFrom(e, chosen) == [m \in DOMAIN TakingBack(e, chosen) |-> TakingBack(e, chosen)[m].from]

(* What a preview and what a commit take identities and times from. *)
Trial == 2 * clock
Commit == 2 * clock + 1

(* A change set holds no more operations than this. *)
MostOperations == 100

Fits(ops) == Len(ops) \in 1..MostOperations

(* What reverse_preview accepts: nothing undone already, no two operations *)
(* on one thing, nothing in the way; and the inverse is a change set that, *)
(* tried out in a savepoint like any other, goes through.                  *)
Undoable(e, chosen) ==
  /\ log[e].status = "applied"
  /\ chosen # {} /\ chosen \subseteq DOMAIN log[e].ops
  /\ chosen \cap ActiveUndo(e) = {}
  /\ \A m, n \in chosen : Target(e, m) = Target(e, n) => m = n
  /\ \A n \in chosen : ~Blocked(e, chosen, n)
  /\ Fits(InverseOps(e, chosen))
  /\ Goes(plan, InverseOps(e, chosen), Trial)

-----------------------------------------------------------------------------
(* The requests. *)
Init ==
  /\ plan = [items |-> Start.items, links |-> Start.links, versions |-> [w \in Rows(Start) |-> 1]]
  /\ work = [i \in 1..Size |-> 0]
  /\ log = <<>>
  /\ clock = 1

Now == clock + 1

Tick == clock < MaxClock /\ clock' = Now
Room == Len(log) + Spare < MaxLog

(* What the plan is after a write that made r of it.  The version of a     *)
(* plan is a digest of its rows, their own versions among them: another    *)
(* plan has another version, and a plan that is again what it was has the  *)
(* one it had.  So the plan itself stands for its version.                 *)
Written(r, rewritten) ==
  LET old(w) == IF w \in DOMAIN plan.versions THEN plan.versions[w] ELSE 1
  IN  [items |-> r.items, links |-> r.links,
       versions |-> [w \in Rows(r) |-> old(w) + (IF w \in rewritten THEN 1 ELSE 0)]]

(* A plan as the code keeps it: rows and links have their fields, links     *)
(* join items that are there, an identity is of one link, and an item is   *)
(* part of one other at most.                                              *)
RowFields == {"kind", "archived", "title", "done", "since"}
LinkFields == {"type", "source", "target", "position", "id"}

IsList(ops) == ops \in Seq({ops[n] : n \in DOMAIN ops})

RowsOK(f) == IsList(f) /\ Len(f) <= Size /\ \A i \in DOMAIN f : DOMAIN f[i] = RowFields

LinksOK(L, I) ==
  /\ IsFiniteSet(L)
  /\ \A x \in L : /\ DOMAIN x = LinkFields /\ x.type \in Posts /\ x.id \in Int
                  /\ x.source \in I /\ x.target \in I
  /\ \A x, y \in L :
       x.id = y.id \/ (x.type = "part_of" /\ y.type = "part_of" /\ x.source = y.source) => x = y

IsPlan(s) == {"items", "links"} \subseteq DOMAIN s

PlanOK(s) == IsPlan(s) /\ RowsOK(s.items) /\ LinksOK(s.links, Items(s))

(* All identities in plan s were taken before number n. *)
Taken(s, n) == \A x \in s.links : x.id < n

ASSUME StartAssumption == PlanOK(Start) /\ Taken(Start, Width)
ASSUME SizeAssumption == Size < Width
ASSUME RequestsAssumption ==
  \A ops \in Requests : IsList(ops) /\ \A n \in DOMAIN ops : ops[n].kind \in OperationKinds
(* A compound write of these makes items and relates them. *)
ASSUME TemplatesAssumption ==
  \A ops \in Templates :
    IsList(ops) /\ Len(ops) < Width /\ \A n \in DOMAIN ops : ops[n].kind \in Posts \cup {"create"}

(* A move is recorded as work on the item. *)
Moved(ops) ==
  work' = [i \in 1..Size |-> IF \E n \in DOMAIN ops : ops[n].kind = "move" /\ ops[n].item = i
                             THEN Now ELSE work[i]]

(* A direct edit: the snapshots are taken around it. *)
Edit(op) ==
  LET after == Result(plan, <<op>>, Commit)
  IN  /\ Len(log) < MaxLog /\ Tick
      /\ Goes(plan, <<op>>, Commit)
      /\ plan' = Written(after, Rewrites(plan, op, after))
      /\ log' = Append(log, Recorded(<<op>>, <<Change(plan, after)>>, plan, Now, plan'))
      /\ Moved(<<op>>)

(* The items an operation names: one that makes an item cannot name it,    *)
(* nor can the other operations, because its identity is drawn when it is  *)
(* made.                                                                   *)
Names(op) ==
  (IF op.kind = "create" THEN {} ELSE {op.item})
    \cup (IF op.kind \in Posts \cup {"create", "move", "unlink"} THEN {op.to} \ {NULL} ELSE {})

(* A change set, previewed and approved with nothing in between. *)
Approve(ops) ==
  LET seen == Run(plan, ops, Trial)
      done == Run(plan, ops, Commit)
  IN  /\ Room /\ Tick
      /\ Fits(ops)
      /\ \A n \in DOMAIN ops : Names(ops[n]) \subseteq Items(plan)
      /\ Goes(plan, ops, Trial)
      /\ Goes(plan, ops, Commit)
      /\ plan' = Written(done[Len(ops)], Rewritten(ops, done))
      /\ log' = Append(log, Recorded(ops, Rebound(ops, seen, done), plan, Now, plan'))
      /\ Moved(ops)

(* POST templates apply, as carrying over and onboarding do it: one write, *)
(* whose entry says what came of it.                                       *)
ApplyTemplate(ops) ==
  LET after == Result(plan, ops, Commit)
      made == Derived(plan, after)
  IN  /\ Room /\ Tick
      /\ Goes(plan, ops, Commit)
      /\ plan' = Written(after, {})
      /\ log' = Append(log, Recorded(made, [n \in DOMAIN made |-> Change(plan, after)],
                                     plan, Now, plan'))
      /\ UNCHANGED work

(* POST records: work on an item, which is no part of the version. *)
Record(i) ==
  /\ Tick
  /\ i \in Items(plan)
  /\ work' = [work EXCEPT ![i] = Now]
  /\ UNCHANGED <<plan, log>>

(* POST actions complete: recorded as work, and the item's state changes,  *)
(* but no entry is left.                                                   *)
Complete(i) ==
  /\ Tick
  /\ i \in Items(plan) /\ plan.items[i].kind = "action"
  /\ Live(plan, i) /\ ~plan.items[i].done
  /\ plan' = Written([plan EXCEPT !.items[i].done = TRUE], {<<"items", i>>})
  /\ work' = [work EXCEPT ![i] = Now]
  /\ UNCHANGED log

(* POST changesets undo-preview: against the version the person looked at. *)
ProposeUndo(e, chosen) ==
  LET ops == InverseOps(e, chosen)
      seen == Run(plan, ops, Trial)
  IN  /\ Room
      /\ Undoable(e, chosen)
      /\ log' = Append(log,
           [status |-> "pending", of |-> e, chosen |-> chosen, from |-> InverseFrom(e, chosen),
            ops |-> ops, changes |-> [n \in DOMAIN ops |-> Change(seen[n - 1], seen[n])],
            base |-> plan, at |-> 0, result |-> plan])
      /\ UNCHANGED <<plan, work, clock>>

(* Mutant: the version is not compared again. *)
ApplyStaleUndo(c) ==
  LET row == log[c]
      seen == [n \in 0..Len(row.ops) |->
                 IF n = 0 THEN row.changes[1].before ELSE row.changes[n].after]
      done == Run(plan, row.ops, Commit)
  IN  /\ Tick
      /\ row.status = "pending"
      /\ Goes(plan, row.ops, Commit)
      /\ plan' = Written(done[Len(row.ops)], Rewritten(row.ops, done))
      /\ log' = [log EXCEPT ![c].status = "applied", ![c].at = Now,
                            ![c].changes = Rebound(row.ops, seen, done),
                            ![c].result = plan']
      /\ Moved(row.ops)

(* Approving the proposal: only on the plan it was made for, be it that    *)
(* what was written since has been taken back.                             *)
ApplyUndo(c) ==
  LET row == log[c]
      seen == [n \in 0..Len(row.ops) |->
                 IF n = 0 THEN row.changes[1].before ELSE row.changes[n].after]
      done == Run(plan, row.ops, Commit)
  IN  /\ Tick
      /\ row.status = "pending" /\ row.base = plan
      /\ Goes(plan, row.ops, Commit)
      /\ plan' = Written(done[Len(row.ops)], Rewritten(row.ops, done))
      /\ log' = [log EXCEPT ![c].status = "applied", ![c].at = Now,
                            ![c].changes = Rebound(row.ops, seen, done),
                            ![c].result = plan']
      /\ Moved(row.ops)

(* It is withdrawn, or its thirty minutes pass. *)
DropUndo(c) ==
  /\ log[c].status = "pending"
  /\ \E status \in {"rejected", "expired"} : log' = [log EXCEPT ![c].status = status]
  /\ UNCHANGED <<plan, work, clock>>

Next ==
  \/ \E ops \in Requests : (Len(ops) = 1 /\ Edit(ops[1])) \/ Approve(ops)
  \/ \E ops \in Templates : ApplyTemplate(ops)
  \/ \E i \in 1..Size : Record(i) \/ Complete(i)
  \/ \E e \in DOMAIN log : \E chosen \in SUBSET DOMAIN log[e].ops : ProposeUndo(e, chosen)
  \/ \E c \in DOMAIN log : ApplyUndo(c) \/ DropUndo(c)

Spec == Init /\ [][Next]_vars

-----------------------------------------------------------------------------
(* What is restored: for each operation chosen, what it changed is as it   *)
(* was before it: the title, whether the item is in the plan, what it is   *)
(* part of, and whether the two items are related.  Of several chosen that *)
(* changed what an item is part of, it is as it was before the first.      *)
AboutParent(op) == op.kind = "move" \/ "part_of" \in {op.kind, op.type}

Restored(e, n, chosen) ==
  LET op == Op(e, n)
      i == op.item
      was == Was(e, n)
      first == ~\E k \in chosen : k < n /\ Op(e, k).item = i /\ AboutParent(Op(e, k))
  IN  CASE op.kind = "edit"    -> plan.items[i].title = was.items[i].title
        [] op.kind = "reopen"  -> plan.items[i].done <=> was.items[i].done
        [] op.kind \in {"archive", "restore"} -> plan.items[i].archived <=> was.items[i].archived
        [] op.kind = "create"  -> ~Live(plan, i) /\ Parent(plan, i) = {}
        [] op.kind = "move"    -> first => ParentIds(plan, i) = ParentIds(was, i)
        [] op.kind \in Posts   -> ~\E x \in plan.links, y \in LinkAfter(e, n) : SameLink(x, y)
        [] op.kind = "unlink"  ->
             first \/ op.type # "part_of" =>
               \A y \in LinkBefore(e, n) : \E x \in plan.links : SameLink(x, y)

(* One that was moved or taken out alone is at its old place again.        *)
InItsPlace(e, n, chosen) ==
  Op(e, n).kind \in {"move", "unlink"} /\ chosen = {n} =>
    \A x \in Delta(e, n) :
      x.type = "part_of" => Siblings(plan, x.target) = Siblings(Was(e, n), x.target)

(* The items that an undo of those operations has no business with, and    *)
(* how they are related to each other.                                     *)
Aside(e, chosen) ==
  1..Size \ ({Op(e, n).item : n \in chosen} \cup
             UNION {{x.source, x.target} : x \in UNION {Delta(e, n) : n \in chosen}})

Rest(I) ==
  <<[i \in I \cap Items(plan) |-> plan.items[i]],
    {<<x.type, x.source, x.target>> : x \in {y \in plan.links : {y.source, y.target} \subseteq I}}>>

(* Applying an undo puts back what its operations changed, whatever had    *)
(* happened between them and the proposal, and touches nothing else.       *)
Applied(c) == log[c].status = "pending" /\ log'[c].status = "applied"

PutsBack(c) == (\A n \in log[c].chosen : Restored(log[c].of, n, log[c].chosen))'

PutsInPlace(c) == (\A n \in log[c].chosen : InItsPlace(log[c].of, n, log[c].chosen))'

LeavesTheRest(c) == Rest(Aside(log[c].of, log[c].chosen))' = Rest(Aside(log[c].of, log[c].chosen))

UndoRestores ==
  [][\A c \in DOMAIN log : Applied(c) => PutsBack(c) /\ PutsInPlace(c) /\ LeavesTheRest(c)]_vars

(* An item whose creation is undone leaves nothing hanging in the plan: no *)
(* item that is still there is part of it or related to it.                *)
Hangs(i) == \E x \in Touching(plan, i) : \A j \in {x.source, x.target} : Live(plan, j) \/ j = i

NothingDangles ==
  [][\A c \in DOMAIN log :
       Applied(c) =>
         \A n \in log[c].chosen :
           Op(log[c].of, n).kind = "create" => ~Hangs(Op(log[c].of, n).item)']_vars

(* No operation is undone twice: of two undos that chose it and that are   *)
(* applied or may be, the later was proposed when the earlier was applied  *)
(* and all that it did about the operation had been undone in its turn.    *)
NoSecondUndo ==
  \A c, d \in DOMAIN log : \A n \in log[c].chosen \cap log[d].chosen :
    c < d /\ log[c].of = log[d].of /\ Lives(c) /\ Lives(d) =>
      /\ log[c].status = "applied" /\ Inverses(c, n) # {}
      /\ \A k \in Inverses(c, n) :
           \E f \in c + 1 .. d - 1 : log[f].status = "applied" /\ Undoes(f, c, k)

(* What makes NoSecondUndo inductive: the entries are those of a log.      *)
Fields ==
  {"status", "of", "chosen", "from", "ops", "changes", "base", "at", "result"}

LogOK ==
  /\ clock \in Nat
  /\ log \in Seq({log[e] : e \in DOMAIN log})
  /\ \A e \in DOMAIN log : DOMAIN log[e] = Fields

IInv == LogOK /\ NoSecondUndo

(* history_compare: the entries that were applied, in the order of their   *)
(* times, and those after entry d up to e, of which each was made on what  *)
(* the one before it left: no write in between left none.                  *)
Versions == {e \in DOMAIN log : log[e].status = "applied"}

Between(d, e) == {f \in Versions : log[d].at < log[f].at /\ log[f].at <= log[e].at}

Follows(f, g) ==
  /\ log[g].at < log[f].at
  /\ ~\E h \in Versions : log[g].at < log[h].at /\ log[h].at < log[f].at

(* Mutant: it is not noticed that a write is missing. *)
CoveredAnyway(d, e) == Between(d, e) # {}

Covered(d, e) ==
  \A f \in Between(d, e) : \E g \in Versions : Follows(f, g) /\ log[f].base = log[g].result

(* The changes between them, in order, of which those to one thing are     *)
(* merged: the first says what it was, the last what it is.                *)
Earlier(p, q) ==
  log[p[1]].at < log[q[1]].at \/ (p[1] = q[1] /\ p[2] < q[2])

(* Those of entry e that are about item i, and about what link y relates.  *)
ItemSteps(e, i) ==
  {n \in DOMAIN log[e].ops : Op(e, n).kind \notin Posts \cup {"unlink"} /\ Op(e, n).item = i}
LinkSteps(e, y) ==
  {n \in DOMAIN log[e].ops : /\ Op(e, n).kind \in Posts \cup {"unlink"}
                             /\ \E x \in Delta(e, n) : SameLink(x, y)}

OfItem(d, e, i) == UNION {{f} \X ItemSteps(f, i) : f \in Between(d, e)}
OfLink(d, e, y) == UNION {{f} \X LinkSteps(f, y) : f \in Between(d, e)}

Merged(S) ==
  LET first == CHOOSE p \in S : \A q \in S \ {p} : Earlier(p, q)
      last == CHOOSE p \in S : \A q \in S \ {p} : Earlier(q, p)
  IN  Change(Was(first[1], first[2]), Became(last[1], last[2]))

(* What is shown of an item: not when it was archived. *)
Seen(s, i) == IF i \notin Items(s) THEN NULL
              ELSE <<s.items[i].title, s.items[i].done, s.items[i].archived>>

Related(s, y) == \E x \in s.links : SameLink(x, y)

(* Comparing two versions between which nothing is missing shows every     *)
(* item and every relation that differs as it was in the one and is in the *)
(* other, and what is not shown is the same in both.                       *)
CompareIsTrue ==
  \A d, e \in Versions : log[d].at < log[e].at /\ Covered(d, e) =>
    LET old == log[d].result
        new == log[e].result
        shown(S) == IF S = {} THEN Change(old, old) ELSE Merged(S)
    IN  /\ \A i \in 1..Size :
             LET c == shown(OfItem(d, e, i))
             IN  Seen(c.before, i) = Seen(old, i) /\ Seen(c.after, i) = Seen(new, i)
        /\ \A y \in old.links \cup new.links :
             LET c == shown(OfLink(d, e, y))
             IN  y.type = "part_of" \/
                   (Related(c.before, y) = Related(old, y) /\ Related(c.after, y) = Related(new, y))

(* What makes CompareIsTrue inductive: the changes of each entry say what  *)
(* became of the plan it was made on.  An undo that is proposed describes  *)
(* its operations on the plan it was proposed on, which is what the plan   *)
(* is, or is again, when it is applied.                                    *)
TellsItem(e, i, s) ==
  LET J == ItemSteps(e, i)
  IN  /\ J = {} => Seen(log[e].result, i) = Seen(s, i)
      /\ \A j \in J : (\A k \in J : j <= k) => Seen(Was(e, j), i) = Seen(s, i)
      /\ \A j \in J : (\A k \in J : k <= j) => Seen(Became(e, j), i) = Seen(log[e].result, i)

TellsLink(e, y, s) ==
  LET J == LinkSteps(e, y)
  IN  /\ J = {} => Related(log[e].result, y) = Related(s, y)
      /\ \A j \in J : (\A k \in J : j <= k) => Related(Was(e, j), y) = Related(s, y)
      /\ \A j \in J : (\A k \in J : k <= j) => Related(Became(e, j), y) = Related(log[e].result, y)

(* The relations there can be that are not what an item is part of. *)
Pairs == [type : {"relates_to"}, source : 1..Size, target : 1..Size]

Tells(e, s) ==
  (\A i \in 1..Size : TellsItem(e, i, s)) /\ (\A y \in Pairs : TellsLink(e, y, s))

OpsOK(ops) == IsList(ops) /\ \A n \in DOMAIN ops : ops[n].kind \in OperationKinds

VersionsOK ==
  /\ \A e \in Versions :
       /\ log[e].at \in Nat /\ log[e].at <= clock
       /\ PlanOK(log[e].base) /\ PlanOK(log[e].result) /\ OpsOK(log[e].ops)
       /\ \A n \in DOMAIN log[e].ops : PlanOK(Was(e, n)) /\ PlanOK(Became(e, n))
       /\ Tells(e, log[e].base)
  /\ \A d, e \in Versions : log[d].at = log[e].at => d = e

Pending == {c \in DOMAIN log : log[c].status = "pending"}

Described(c) ==
  LET s == log[c].base
      ops == log[c].ops
  IN  /\ PlanOK(s) /\ OpsOK(ops) /\ Fits(ops)
      /\ \E t \in 0..Trial :
           /\ Taken(s, Width * t) /\ Goes(s, ops, t)
           /\ log[c].changes = [n \in DOMAIN ops |-> Change(Run(s, ops, t)[n - 1], Run(s, ops, t)[n])]

PlanKept ==
  /\ PlanOK(plan) /\ Taken(plan, Width * Trial)
  /\ \A c \in Pending : Described(c)

CInv == PlanKept /\ VersionsOK

(* What makes NothingDangles inductive: the link an entry made an item     *)
(* with is the same link for good; its other operations did not touch the  *)
(* item; and the inverse of its creation takes away all that is linked to  *)
(* it, and the rest of the inverse links nothing to it.                    *)
Created(e) == {n \in DOMAIN log[e].ops : Op(e, n).kind = "create"}

MadeWith ==
  \A e \in Versions : \A n \in Created(e) : \A y \in LinkAfter(e, n) :
    /\ y.id \in Int /\ y.id < Width * Trial
    /\ \A x \in plan.links : x.id = y.id => x.type = "part_of" /\ x.source = y.source

MadeAlone ==
  \A e \in Versions : \A n \in Created(e), k \in DOMAIN log[e].ops :
    Op(e, k).kind \in {"move", "unlink"} =>
      /\ Op(e, k).item # Op(e, n).item
      /\ \A x \in LinkBefore(e, k) : Op(e, n).item \notin {x.source, x.target}

Unlinks(ops, x) ==
  \E m \in DOMAIN ops : /\ ops[m].kind = "unlink" /\ ops[m].type = x.type
                         /\ ops[m].item = x.source /\ ops[m].to = x.target

TakenAway ==
  \A c \in Pending :
    /\ log[c].of \in Versions /\ log[c].chosen \subseteq DOMAIN log[log[c].of].ops
    /\ Created(c) = {}
    /\ \A n \in log[c].chosen \cap Created(log[c].of) :
         LET i == Op(log[c].of, n).item
             ops == log[c].ops
         IN  /\ \A x \in Touching(log[c].base, i) : Unlinks(ops, x)
             /\ \A m \in DOMAIN ops : ops[m].kind \in Posts \cup {"move"} => i \notin Names(ops[m])

DInv == MadeWith /\ MadeAlone /\ TakenAway

(* What makes LeavesTheRest true: an inverse is about nothing else.        *)
Confined ==
  \A c \in Pending :
    \A m \in DOMAIN log[c].ops : log[c].ops[m].item \notin Aside(log[c].of, log[c].chosen)

(* What makes PutsBack true: a link that was posted has no position and    *)
(* one that was moved has; the operations of a proposal take back those    *)
(* chosen, the last first, which are about different things; and nothing   *)
(* stands in their way on the plan they were proposed on.                  *)
Positioned ==
  \A e \in Versions : \A n \in DOMAIN log[e].ops : \A x \in LinkAfter(e, n) :
    /\ Op(e, n).kind = "part_of" => x.position = NULL
    /\ Op(e, n).kind = "move" => x.position # NULL

Inverts(s, b, e, n) ==
  LET op == Op(e, n)
      i == op.item
      was == Was(e, n)
  IN  CASE op.kind = "edit"    -> b.kind = "edit" /\ b.item = i /\ b.to = was.items[i].title
        [] op.kind = "reopen"  -> b.kind = "reopen" /\ b.item = i
        [] op.kind \in {"archive", "restore"} ->
             b.kind = (IF was.items[i].archived THEN "archive" ELSE "restore") /\ b.item = i
        [] op.kind = "create"  ->
             b.item = i /\ (b.kind = "archive" \/ (b.kind = "unlink" /\ b.type = "part_of"))
        [] op.kind = "move"    ->
             /\ b.kind = "move" /\ b.item = i
             /\ b.to \in IF LinkBefore(e, n) = {} THEN {NULL} ELSE {x.target : x \in LinkBefore(e, n)}
        [] op.kind \in Posts   ->
             b.kind = "unlink" /\ \E x \in Candidates(s, e, n) : b.type = x.type /\ b.item = x.source /\ b.to = x.target
        [] op.kind = "unlink"  ->
             b.kind = (IF op.type = "part_of" THEN "move" ELSE op.type) /\ b.item = i /\ b.to = op.to

InTurn(c) ==
  LET ops == log[c].ops
      from == log[c].from
  IN  /\ \A k \in DOMAIN ops : from[k] \in log[c].chosen /\ Inverts(log[c].base, ops[k], log[c].of, from[k])
      /\ \A j, k \in DOMAIN ops : j < k => from[k] <= from[j]
      /\ \A n \in log[c].chosen : \E k \in DOMAIN ops :
           from[k] = n /\ (Op(log[c].of, n).kind = "create" => ops[k].kind = "archive")
      /\ \A m, n \in log[c].chosen : Target(log[c].of, m) = Target(log[c].of, n) => m = n

Unhindered(s, e, n) ==
  LET op == Op(e, n)
  IN  /\ op.kind = "reopen" => ~Was(e, n).items[op.item].done
      /\ op.kind = "move" => Parent(s, op.item) = LinkAfter(e, n)
      /\ op.kind \in Posts =>
           \E x \in s.links, y \in LinkAfter(e, n) :
             Candidates(s, e, n) = {x} /\ SameLink(x, y) /\ x.position = y.position
      /\ op.kind = "unlink" =>
           /\ LinkBefore(e, n) # {}
           /\ \A y \in LinkBefore(e, n) : ~\E x \in s.links : SameLink(x, y)
           /\ op.type = "part_of" => Parent(s, op.item) = {}

PInv ==
  /\ Positioned
  /\ \A c \in Pending :
       InTurn(c) /\ \A n \in log[c].chosen : Unhindered(log[c].base, log[c].of, n)

(* docs/api.md says that an undo is refused when the change is at odds     *)
(* with what is there now: when nothing happened since, what the history   *)
(* offers to undo can be undone.                                           *)
OfferedCanBeUndone ==
  \A e \in DOMAIN log : \A n \in DOMAIN log[e].ops :
    /\ log[e].status = "applied" /\ log[e].result = plan /\ n \in Offered(e)
    /\ DOMAIN log[e].ops = {n} /\ \A i \in 1..Size : work[i] <= log[e].at
    => Undoable(e, {n})
=============================================================================
