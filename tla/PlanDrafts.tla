----------------------------- MODULE PlanDrafts -----------------------------
(***************************************************************************)
(* Drafts of a plan made in a conversation (plan_draft.rs), and how they   *)
(* are taken along in a workspace's backup (exports and imports of         *)
(* service.rs).  A draft has a head and one row per revision saved; neither*)
(* is part of the plan.  A request holds the workspace's lock (module      *)
(* WriteRequests), so it is one step; the links it is anchored to are      *)
(* those of ConversationLinks.  An agent's request was authorized earlier:  *)
(* its delegation may be over by the time it writes.                       *)
(***************************************************************************)
EXTENDS ConversationLinks, Naturals, Sequences, FiniteSets

CONSTANTS
  Draft,        \* identities
  Content,      \* what a request may say: kinds[r] of node r, edges, and whether
                \* something is claimed that only a person may claim
  MaxRev,       \* bound: how often a draft is saved
  Mentioned,    \* bound: the conversations that requests for drafts name
  MaxBusy,      \* bound: how many calls to link, and keys of theirs, there are besides drafts
  Graphs        \* bound: the sets of edges the search for loops is compared on

ASSUME ContentAssumption == \A c \in Content : c.edges \in Seq({c.edges[n] : n \in DOMAIN c.edges})
ASSUME GraphAssumption ==
  \A pairs \in Graphs : IsFiniteSet(pairs) /\ \A p \in pairs : p = <<p[1], p[2]>>
ASSUME BoundAssumption == MaxRev \in Nat \ {0} /\ MaxBusy \in Nat /\ Mentioned \subseteq Conversation

VARIABLES
  drafts,       \* drafts[w][d]: the head of draft d in workspace w
  revs,         \* revs[w][d][n]: what was saved as revision n
  brought       \* the drafts that came out of a file

draftVars == <<drafts, revs, brought>>
vars == <<linkVars, draftVars>>

Author == Connection \cup {NULL}       \* NULL is a person

HeadRow ==
  [status : {"open", "withdrawn"}, rev : 1..MaxRev, content : Content,
   conv : Conversation \cup {NULL}, link : (Connection \X Conversation) \cup {NULL}, via : Author]
RevRow == [content : Content, conv : Conversation \cup {NULL}, by : Author]

ASSUME RowAssumption == NULL \notin HeadRow \cup RevRow

NoHeads == [d \in Draft |-> NULL]
NoRevs == [d \in Draft |-> [n \in 1..MaxRev |-> NULL]]

Init ==
  /\ LinksInit
  /\ drafts = [w \in Workspace |-> NoHeads]
  /\ revs = [w \in Workspace |-> NoRevs]
  /\ brought = {}

-----------------------------------------------------------------------------
(* validate_edges looks for loops with a stack of its own: a node is put   *)
(* on it to be visited and again to be left, and is marked 1 in between    *)
(* and 2 afterwards.  The nodes are started from in the order of a hash    *)
(* map, which is any order.  An edge is known by its place among the edges *)
(* of the request.                                                         *)
ChildrenOf(pairs, node) == {n \in DOMAIN pairs : pairs[n][1] = node}

(* The numbers of S from the least to the greatest. *)
Ascending(S) == [k \in 1..Cardinality(S) |-> CHOOSE n \in S : Cardinality({m \in S : m < n}) = k - 1]

Fresh(mark, pairs, node) == {n \in ChildrenOf(pairs, node) : mark[pairs[n][2]] = 0}
Opened(pairs, F) == [k \in 1..Cardinality(F) |-> [node |-> pairs[Ascending(F)[k]][2], leave |-> FALSE]]

(* Mutant: a node that was left is taken for one on the path. *)
VisitDone(s, pairs) ==
  LET node == s.stack[Len(s.stack)].node
      rest == SubSeq(s.stack, 1, Len(s.stack) - 1)
      mark == [s.mark EXCEPT ![node] = 1]
  IN  CASE s.stack[Len(s.stack)].leave -> [s EXCEPT !.stack = rest, !.mark = [s.mark EXCEPT ![node] = 2]]
        [] s.mark[node] = 1 /\ ~s.stack[Len(s.stack)].leave -> [s EXCEPT !.loop = TRUE]
        [] s.mark[node] = 2 /\ ~s.stack[Len(s.stack)].leave -> [s EXCEPT !.stack = rest]
        [] OTHER ->
             [s EXCEPT !.mark = mark,
                       !.loop = \E n \in ChildrenOf(pairs, node) : mark[pairs[n][2]] # 0,
                       !.stack = rest \o <<[node |-> node, leave |-> TRUE]>>
                                   \o Opened(pairs, Fresh(mark, pairs, node))]

Visit(s, pairs) ==
  LET top == s.stack[Len(s.stack)]
      rest == SubSeq(s.stack, 1, Len(s.stack) - 1)
      mark == [s.mark EXCEPT ![top.node] = 1]
  IN  CASE top.leave -> [s EXCEPT !.stack = rest, !.mark = [s.mark EXCEPT ![top.node] = 2]]
        [] ~top.leave /\ s.mark[top.node] = 1 -> [s EXCEPT !.loop = TRUE]
        [] ~top.leave /\ s.mark[top.node] = 2 -> [s EXCEPT !.stack = rest]
        [] OTHER ->
             [s EXCEPT !.mark = mark,
                       !.loop = \E n \in ChildrenOf(pairs, top.node) : mark[pairs[n][2]] = 1,
                       !.stack = rest \o <<[node |-> top.node, leave |-> TRUE]>>
                                   \o Opened(pairs, Fresh(mark, pairs, top.node))]

SearchBegin(nodes) == [at |-> 0, stack |-> <<>>, mark |-> [r \in nodes |-> 0], loop |-> FALSE]

SearchNext(s, pairs, starts) ==
  IF s.loop THEN s
  ELSE IF s.stack # <<>> THEN Visit(s, pairs)
  ELSE IF s.at = Len(starts) THEN s
  ELSE [s EXCEPT !.at = @ + 1, !.stack = <<[node |-> starts[s.at + 1], leave |-> FALSE]>>]

(* Whether the search over pairs, started from each of starts, meets a     *)
(* loop.  Every start, node and edge is put on the stack once at most.     *)
LoopFound(nodes, pairs, starts) ==
  LET run[n \in Nat] == IF n = 0 THEN SearchBegin(nodes) ELSE SearchNext(run[n - 1], pairs, starts)
  IN  run[3 * Len(starts) + 2 * Cardinality(DOMAIN pairs)].loop

Containers == {"outcome", "idea", "initiative", "milestone"}
ItemKinds == Containers \cup {"action"}
Directed == {"part_of", "contributes_to", "depends_on"}

Orders(S) == {s \in [1..Cardinality(S) -> S] : \A m, n \in DOMAIN s : s[m] = s[n] => m = n}

OfType(edges, type) ==
  [n \in {m \in DOMAIN edges : edges[m][3] = type} |-> <<edges[n][1], edges[n][2]>>]

ValidEdges(c) ==
  LET edges == c.edges
  IN  /\ \A n \in DOMAIN edges :
           LET e == edges[n] IN
           /\ {e[1], e[2]} \subseteq DOMAIN c.kinds /\ e[1] # e[2]
           /\ e[3] = "part_of" => c.kinds[e[2]] \in Containers
           /\ e[3] \in {"contributes_to", "depends_on"} => {c.kinds[e[1]], c.kinds[e[2]]} \subseteq ItemKinds
      /\ \A m, n \in DOMAIN edges : m # n /\ edges[m][3] = edges[n][3] =>
           LET e == edges[m]
               f == edges[n]
           IN  /\ e # f
               /\ e[3] = "part_of" => e[1] # f[1]
               /\ e[3] = "relates_to" => <<e[1], e[2]>> # <<f[2], f[1]>>
      /\ \A type \in Directed :
           LET pairs == OfType(edges, type)
               starts == CHOOSE s \in Orders({pairs[n][1] : n \in DOMAIN pairs}) : TRUE
           IN  ~LoopFound(DOMAIN c.kinds, pairs, starts)

(* read_draft; what an agent may not claim is validate_nodes's. *)
ValidContent(c, agent) == ValidEdges(c) /\ ~(agent /\ c.claims)

-----------------------------------------------------------------------------
(* Mutant: which workspace the conversation is linked to is not asked. *)
AnchorsAnywhere(w, k, c) == TRUE

(* resolve_link: a conversation linked to another workspace is refused.    *)
AnchorsIn(w, k, c) == k # NULL /\ c # NULL /\ Linked(k, c) => links[k][c].target = w

(* One not linked at all is taken down as it is. *)
Anchor(k, c) == IF k # NULL /\ c # NULL /\ Linked(k, c) THEN <<k, c>> ELSE NULL

Save(w, d, row, author) ==
  /\ drafts' = [drafts EXCEPT ![w][d] = row]
  /\ revs' = [revs EXCEPT ![w][d][row.rev] = [content |-> row.content, conv |-> row.conv, by |-> author]]

(* create; the identity is new. *)
Create(w, d, k, c, conv) ==
  /\ \A v \in Workspace : drafts[v][d] = NULL
  /\ ValidContent(c, k # NULL) /\ AnchorsIn(w, k, conv)
  /\ Save(w, d, [status |-> "open", rev |-> 1, content |-> c, conv |-> conv,
                 link |-> Anchor(k, conv), via |-> k], k)
  /\ UNCHANGED <<linkVars, brought>>

(* ensure_agent_owns_draft *)
MayContinue(w, d, k) ==
  drafts[w][d] # NULL /\ drafts[w][d].status = "open" /\ k \in {NULL, drafts[w][d].via}

(* Mutant: the conversation is stated in the revision alone. *)
ReviseRevisionOnly(w, d, k, c, conv) ==
  LET old == drafts[w][d]
      row == [old EXCEPT !.rev = @ + 1, !.content = c]
  IN  /\ MayContinue(w, d, k) /\ old.rev < MaxRev
      /\ ValidContent(c, k # NULL) /\ AnchorsIn(w, k, conv)
      /\ drafts' = [drafts EXCEPT ![w][d] = row]
      /\ revs' = [revs EXCEPT ![w][d][row.rev] =
                    [content |-> c, conv |-> IF conv = NULL THEN old.conv ELSE conv, by |-> k]]
      /\ UNCHANGED <<linkVars, brought>>

(* revise, for the revision that is current; the conversation is stated    *)
(* again or stays.                                                         *)
Revise(w, d, k, c, conv) ==
  LET old == drafts[w][d]
      row == [old EXCEPT !.rev = @ + 1, !.content = c,
                         !.conv = IF conv = NULL THEN @ ELSE conv,
                         !.link = IF conv = NULL THEN @ ELSE Anchor(k, conv)]
  IN  /\ MayContinue(w, d, k) /\ old.rev < MaxRev
      /\ ValidContent(c, k # NULL) /\ AnchorsIn(w, k, conv)
      /\ Save(w, d, row, k)
      /\ UNCHANGED <<linkVars, brought>>

Withdraw(w, d, k) ==
  /\ MayContinue(w, d, k)
  /\ drafts' = [drafts EXCEPT ![w][d].status = "withdrawn"]
  /\ UNCHANGED <<linkVars, revs, brought>>

-----------------------------------------------------------------------------
(* A backup of workspace w, and what somebody may have made of the file:   *)
(* a revision or a head is missing, or says something else.                *)
Export(w) == [heads |-> drafts[w], revs |-> revs[w]]

Edited(file) ==
  {file}
    \cup {[file EXCEPT !.heads[d] = NULL] : d \in Draft}
    \cup {[file EXCEPT !.revs[d][n] = NULL] : d \in Draft, n \in 1..MaxRev}
    \cup {[file EXCEPT !.heads[d].content = c] : d \in {d \in Draft : file.heads[d] # NULL}, c \in Content}
    \cup UNION {{[file EXCEPT !.revs[d][n].content = c] : n \in {n \in 1..MaxRev : file.revs[d][n] # NULL},
                                                          c \in Content} : d \in Draft}

Saved(history) == {n \in DOMAIN history : history[n] # NULL}

(* Mutant: the head's own revision is enough. *)
WholeAtHead(heads, history) ==
  \A d \in Draft :
    /\ heads[d] = NULL => Saved(history[d]) = {}
    /\ \A n \in Saved(history[d]) :
         LET r == history[d][n] IN ValidContent(r.content, r.by # NULL)
    /\ heads[d] # NULL =>
         /\ heads[d].rev \in Saved(history[d])
         /\ LET last == history[d][heads[d].rev]
            IN  heads[d].content = last.content /\ heads[d].conv = last.conv

(* validate_import: each revision is one of a draft and valid for whoever  *)
(* saved it, their numbers are 1 up to the head's, and the head is as the  *)
(* last of them.                                                           *)
Whole(heads, history) ==
  \A d \in Draft :
    /\ heads[d] = NULL => Saved(history[d]) = {}
    /\ \A n \in Saved(history[d]) :
         LET r == history[d][n] IN ValidContent(r.content, r.by # NULL)
    /\ heads[d] # NULL =>
         /\ Saved(history[d]) = 1..heads[d].rev
         /\ LET last == history[d][heads[d].rev]
            IN  heads[d].content = last.content /\ heads[d].conv = last.conv

(* import: nothing may be there under the same identity, and the workspace *)
(* has to be whole with it; otherwise nothing is written.                  *)
Import(v, file) ==
  LET heads == [d \in Draft |-> IF file.heads[d] # NULL THEN file.heads[d] ELSE drafts[v][d]]
      history == [d \in Draft |-> [n \in 1..MaxRev |->
                    IF file.revs[d][n] # NULL THEN file.revs[d][n] ELSE revs[v][d][n]]]
  IN  /\ \A d \in Draft :
           /\ file.heads[d] # NULL => drafts[v][d] = NULL
           /\ \A n \in 1..MaxRev : file.revs[d][n] # NULL => revs[v][d][n] = NULL
      /\ Whole(heads, history)
      /\ drafts' = [drafts EXCEPT ![v] = heads]
      /\ revs' = [revs EXCEPT ![v] = history]
      /\ brought' = brought \cup {<<v, d>> : d \in {d \in Draft : file.heads[d] # NULL}}
      /\ UNCHANGED linkVars

-----------------------------------------------------------------------------
(* A call to link is not seen by the drafts before its last step, nor do   *)
(* they matter to it: it is enough to let them go when none is under way.  *)
Quiet == \A q \in Caller : calls[q] = NULL

(* Bound: once there are drafts, few calls overlap. *)
Calm ==
  \/ \A w \in Workspace, d \in Draft : drafts[w][d] = NULL
  \/ Cardinality({q \in Caller : calls[q] # NULL})
       + Cardinality({p \in Connection \X Key : keys[p[1]][p[2]] # NULL}) <= MaxBusy

Next ==
  \/ LinksNext /\ UNCHANGED draftVars /\ Calm'
  \/ /\ Quiet
     /\ \E w \in Workspace :
          \/ \E d \in Draft, k \in Author :
               \/ \E c \in Content, conv \in Mentioned \cup {NULL} :
                    Create(w, d, k, c, conv) \/ Revise(w, d, k, c, conv)
               \/ Withdraw(w, d, k)
          \/ \E v \in Workspace : \E file \in Edited(Export(v)) : Import(w, file)
     /\ Calm'

Spec == Init /\ [][Next]_vars

-----------------------------------------------------------------------------
TypeOK ==
  /\ LinksTypeOK
  /\ drafts \in [Workspace -> [Draft -> HeadRow \cup {NULL}]]
  /\ revs \in [Workspace -> [Draft -> [1..MaxRev -> RevRow \cup {NULL}]]]
  /\ brought \subseteq Workspace \X Draft

(* A draft that was written here is anchored to a conversation about this  *)
(* workspace, whatever is linked, stopped or linked again later            *)
(* (resolve_link).  Files are believed in this.                            *)
DraftAnchored ==
  \A w \in Workspace, d \in Draft :
    LET row == drafts[w][d]
    IN  row # NULL /\ <<w, d>> \notin brought /\ row.link # NULL =>
          LET link == links[row.link[1]][row.link[2]] IN link # NULL /\ link.target = w

(* Whatever was saved, withdrawn or brought in from a file that somebody   *)
(* edited, a draft says what its last revision says, none of its revisions *)
(* is missing and none is there without it, so its backup can be restored, *)
(* and what an agent saved claims nothing that only a person may claim.    *)
HistoryIsWhole ==
  \A w \in Workspace, d \in Draft :
    LET row == drafts[w][d]
        saved == {n \in 1..MaxRev : revs[w][d][n] # NULL}
    IN  /\ saved = IF row = NULL THEN {} ELSE 1..row.rev
        /\ \A n \in saved : revs[w][d][n].by # NULL => ~revs[w][d][n].content.claims
        /\ row # NULL => revs[w][d][row.rev].content = row.content /\ revs[w][d][row.rev].conv = row.conv

(* Some nodes each of which leads to another of them. *)
HasLoop(pairs) ==
  \E S \in SUBSET {p[1] : p \in pairs} :
    S # {} /\ \A x \in S : \E y \in S : <<x, y>> \in pairs

(* The search finds a loop just when there is one, in whatever order the   *)
(* hash map has it start.                                                  *)
SearchIsRight ==
  \A pairs \in Graphs :
    LET nodes == UNION {{p[1], p[2]} : p \in pairs}
        list == CHOOSE s \in Orders(pairs) : TRUE
    IN  \A starts \in Orders({p[1] : p \in pairs}) :
          LoopFound(nodes, list, starts) <=> HasLoop(pairs)

(* No draft that was saved or brought in has a loop of one type of edge,   *)
(* and none is refused for a loop it does not have (validate_edges).       *)
LoopsAreRefused ==
  /\ SearchIsRight
  /\ \A w \in Workspace, d \in Draft : drafts[w][d] # NULL =>
       LET edges == drafts[w][d].content.edges IN
       \A type \in Directed :
         ~HasLoop({<<edges[n][1], edges[n][2]>> : n \in {m \in DOMAIN edges : edges[m][3] = type}})

(* Every revision saved or brought in was valid, also the earlier ones.    *)
RevisionsAreValid ==
  \A w \in Workspace, d \in Draft, n \in 1..MaxRev :
    revs[w][d][n] # NULL => ValidEdges(revs[w][d][n].content)

(* Together these are inductive.                                           *)
IInv == TypeOK /\ AnswersStand /\ DraftAnchored /\ HistoryIsWhole /\ RevisionsAreValid
=============================================================================
