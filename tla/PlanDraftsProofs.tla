-------------------------- MODULE PlanDraftsProofs --------------------------
(***************************************************************************)
(* Proofs about ConversationLinks and PlanDrafts, for any delegations,     *)
(* conversations, workspaces, keys, callers and drafts, any contents and   *)
(* any number of revisions.  The last part is about the search for loops   *)
(* of validate_edges: that it is over in the steps it is given, and finds  *)
(* a loop just when there is one, in any finite graph.                     *)
(***************************************************************************)
EXTENDS PlanDrafts, FiniteSetTheorems, WellFoundedInduction, SequenceTheorems, TLAPS

LinksInv == LinksTypeOK /\ AnswersStand

-----------------------------------------------------------------------------
(* Rows are not NULL, and have their fields.                               *)
LEMMA LinkRows ==
  /\ \A x \in LinkRow : x # NULL /\ x.target \in Workspace /\ x.status \in {"active", "stopped"}
  /\ \A w \in Workspace, s \in {"active", "stopped"} : [target |-> w, status |-> s] \in LinkRow
BY NullAssumption DEF LinkRow

LEMMA CallRows ==
  \A r \in CallRow :
    /\ r # NULL /\ r.conn \in Connection /\ r.conv \in Conversation /\ r.target \in Workspace
    /\ r.key \in Key /\ r.stage \in {"authorized", "absent", "answered"}
BY NullAssumption DEF CallRow

(* What a call under way asked for. *)
LEMMA Asked ==
  ASSUME LinksInv, NEW q \in Caller, UnderWay(q)
  PROVE  calls[q] \in CallRow /\ calls[q].stage # "answered"
BY DEF LinksInv, LinksTypeOK, UnderWay

LEMMA LinksInvInit == LinksInit => LinksInv
<1> SUFFICES ASSUME LinksInit PROVE LinksInv
  OBVIOUS
<1>1. ConnTypeOK
  BY DEF LinksInit, ConnInit, ConnTypeOK, ConnectionRow, ConnectionStatus
<1>2. LinksTypeOK
  BY <1>1 DEF LinksInit, LinksTypeOK
<1>3. AnswersStand
  BY DEF LinksInit, AnswersStand
<1> QED BY <1>2, <1>3 DEF LinksInv

(* A delegation that changes leaves well-typed delegations. *)
LEMMA ConnSteps ==
  ASSUME ConnTypeOK, NEW k \in Connection,
         \/ EnsurePending(k) \/ RevokeConnection(k)
         \/ \E scopes \in ScopeChoices : ApproveConnection(k, scopes) \/ GrantFromConsent(k, scopes)
  PROVE  ConnTypeOK' /\ \A j \in Connection \ {k} : conn'[j] = conn[j]
<1>1. ASSUME NEW status \in ConnectionStatus, NEW scopes \in SUBSET Scope, SetConnection(k, status, scopes)
      PROVE  ConnTypeOK' /\ \A j \in Connection \ {k} : conn'[j] = conn[j]
  BY <1>1 DEF SetConnection, ConnTypeOK, ConnectionRow
<1>2. ScopeChoices \subseteq SUBSET Scope /\ {} \in SUBSET Scope
  BY ScopeAssumption
<1> QED
  BY <1>1, <1>2 DEF EnsurePending, RevokeConnection, ApproveConnection, GrantFromConsent, ConnectionStatus

-----------------------------------------------------------------------------
(* A key stands for the conversation it was claimed for, and a link for    *)
(* its target, whatever becomes of them: then answers stand.               *)
LEMMA AnswersKept ==
  ASSUME AnswersStand, LinksTypeOK,
         \A k \in Connection, key \in Key : keys[k][key] # NULL => keys'[k][key] = keys[k][key],
         \A k \in Connection, c \in Conversation :
            links[k][c] # NULL => links'[k][c] # NULL /\ links'[k][c].target = links[k][c].target,
         \A q \in Caller : calls'[q] # NULL /\ calls'[q].stage = "answered" =>
            \/ calls'[q] = calls[q]
            \/ /\ calls'[q] \in CallRow
               /\ keys'[calls'[q].conn][calls'[q].key] = calls'[q].conv
               /\ links'[calls'[q].conn][calls'[q].conv] # NULL
               /\ links'[calls'[q].conn][calls'[q].conv].target = calls'[q].target
  PROVE  AnswersStand'
<1> SUFFICES ASSUME NEW q \in Caller, calls'[q] # NULL, calls'[q].stage = "answered"
             PROVE  /\ keys'[calls'[q].conn][calls'[q].key] = calls'[q].conv
                    /\ links'[calls'[q].conn][calls'[q].conv] # NULL
                    /\ links'[calls'[q].conn][calls'[q].conv].target = calls'[q].target
  BY DEF AnswersStand
<1>1. CASE calls'[q] = calls[q]
  <2> DEFINE r == calls[q]
  <2>1. r \in CallRow /\ r.stage = "answered"
    BY <1>1 DEF LinksTypeOK
  <2>2. r.conn \in Connection /\ r.conv \in Conversation /\ r.key \in Key /\ r # NULL /\ r.conv # NULL
    BY <2>1, CallRows, NullAssumption
  <2>3. /\ keys[r.conn][r.key] = r.conv
        /\ links[r.conn][r.conv] # NULL /\ links[r.conn][r.conv].target = r.target
    BY <2>1, <2>2 DEF AnswersStand
  <2> HIDE DEF r
  <2> QED BY <1>1, <2>2, <2>3 DEF r
<1>2. CASE calls'[q] # calls[q]
  BY <1>2
<1> QED BY <1>1, <1>2

(* One call goes to another stage, or ends. *)
LEMMA StageTypes ==
  ASSUME LinksTypeOK, NEW q \in Caller, calls[q] \in CallRow,
         \/ Done(q)
         \/ \E stage \in {"authorized", "absent", "answered"} : Stage(q, stage)
  PROVE  /\ calls' \in [Caller -> CallRow \cup {NULL}]
         /\ \A p \in Caller \ {q} : calls'[p] = calls[p]
<1>1. CASE Done(q)
  BY <1>1 DEF Done, LinksTypeOK
<1>2. ASSUME NEW stage \in {"authorized", "absent", "answered"}, Stage(q, stage)
      PROVE  /\ calls' \in [Caller -> CallRow \cup {NULL}]
             /\ \A p \in Caller \ {q} : calls'[p] = calls[p]
  <2>1. [calls[q] EXCEPT !.stage = stage] \in CallRow
    BY DEF CallRow
  <2>2. calls' = [calls EXCEPT ![q] = [calls[q] EXCEPT !.stage = stage]]
    BY <1>2 DEF Stage, LinksTypeOK
  <2> QED BY <2>1, <2>2 DEF LinksTypeOK
<1> QED BY <1>1, <1>2

(* A call that claims its key, and writes its link or finds it written.    *)
LEMMA Answering ==
  ASSUME LinksInv, NEW q \in Caller, UnderWay(q), ~KeyTaken(calls[q]), ClaimKey(calls[q]),
         Stage(q, "answered"), UNCHANGED conn,
         \/ /\ Linked(calls[q].conn, calls[q].conv) =>
                 links[calls[q].conn][calls[q].conv].target = calls[q].target
            /\ SaveLink(calls[q])
         \/ /\ Linked(calls[q].conn, calls[q].conv)
            /\ links[calls[q].conn][calls[q].conv].target = calls[q].target
            /\ links' = links
  PROVE  LinksInv'
<1> DEFINE r == calls[q]
           k == r.conn
           c == r.conv
<1>1. /\ r \in CallRow /\ k \in Connection /\ c \in Conversation /\ r.key \in Key
      /\ r.target \in Workspace /\ c # NULL
  BY Asked, CallRows, NullAssumption
<1>2. /\ calls' \in [Caller -> CallRow \cup {NULL}]
      /\ \A p \in Caller \ {q} : calls'[p] = calls[p]
  BY <1>1, StageTypes DEF LinksInv
<1>3. /\ calls'[q].conn = k /\ calls'[q].conv = c /\ calls'[q].key = r.key
      /\ calls'[q].target = r.target /\ calls'[q] \in CallRow
  <2>1. calls'[q] = [r EXCEPT !.stage = "answered"]
    BY DEF Stage, LinksInv, LinksTypeOK
  <2> QED BY <1>1, <2>1 DEF CallRow
<1>4. /\ keys' \in [Connection -> [Key -> Conversation \cup {NULL}]]
      /\ keys'[k][r.key] = c
      /\ \A j \in Connection, key \in Key : keys[j][key] # NULL => keys'[j][key] = keys[j][key]
  BY <1>1 DEF ClaimKey, KeyTaken, LinksInv, LinksTypeOK
<1>5. /\ links' \in [Connection -> [Conversation -> LinkRow \cup {NULL}]]
      /\ links'[k][c] # NULL /\ links'[k][c].target = r.target
      /\ \A j \in Connection, d \in Conversation :
           links[j][d] # NULL => links'[j][d] # NULL /\ links'[j][d].target = links[j][d].target
  <2>1. CASE SaveLink(r) /\ (Linked(k, c) => links[k][c].target = r.target)
    <3> DEFINE row == [target |-> r.target, status |-> "active"]
    <3>1. row \in LinkRow /\ row # NULL /\ row.target = r.target
      BY <1>1, LinkRows
    <3>2. links' = [links EXCEPT ![k][c] = row]
      BY <2>1 DEF SaveLink
    <3> HIDE DEF row
    <3> QED BY <1>1, <2>1, <3>1, <3>2 DEF LinksInv, LinksTypeOK, Linked
  <2>2. CASE Linked(k, c) /\ links[k][c].target = r.target /\ links' = links
    BY <2>2 DEF LinksInv, LinksTypeOK, Linked
  <2> QED BY <2>1, <2>2
<1> HIDE DEF r, k, c
<1>6. LinksTypeOK'
  BY <1>2, <1>4, <1>5 DEF LinksInv, LinksTypeOK, ConnTypeOK
<1>7. \A p \in Caller : calls'[p] # NULL /\ calls'[p].stage = "answered" =>
         \/ calls'[p] = calls[p]
         \/ /\ calls'[p] \in CallRow
            /\ keys'[calls'[p].conn][calls'[p].key] = calls'[p].conv
            /\ links'[calls'[p].conn][calls'[p].conv] # NULL
            /\ links'[calls'[p].conn][calls'[p].conv].target = calls'[p].target
  BY <1>2, <1>3, <1>4, <1>5
<1>8. AnswersStand'
  BY <1>4, <1>5, <1>7, AnswersKept DEF LinksInv
<1> QED BY <1>6, <1>8 DEF LinksInv

(* A call that writes nothing: it asks, looks in vain, or is over.         *)
LEMMA WritingNothing ==
  ASSUME LinksInv, UNCHANGED <<conn, links, keys>>,
         calls' \in [Caller -> CallRow \cup {NULL}],
         \A q \in Caller : calls'[q] # NULL /\ calls'[q].stage = "answered" => calls'[q] = calls[q]
  PROVE  LinksInv'
<1>1. LinksTypeOK'
  BY DEF LinksInv, LinksTypeOK, ConnTypeOK
<1>2. AnswersStand'
  BY DEF LinksInv, AnswersStand
<1> QED BY <1>1, <1>2 DEF LinksInv

LEMMA CallSteps ==
  ASSUME LinksInv, NEW q \in Caller, Step(q)
  PROVE  LinksInv'
<1>1. CASE Relink(q)
  BY <1>1, Answering DEF Relink
<1>2. CASE Insert(q)
  BY <1>2, Answering DEF Insert
<1>3. CASE Join(q)
  BY <1>3, Answering DEF Join
<1>4. CASE LookInVain(q)
  <2>1. UnderWay(q) /\ Stage(q, "absent") /\ calls[q] \in CallRow /\ UNCHANGED <<conn, links, keys>>
    BY <1>4, Asked DEF LookInVain
  <2>2. /\ calls' \in [Caller -> CallRow \cup {NULL}]
        /\ \A p \in Caller \ {q} : calls'[p] = calls[p]
    BY <2>1, StageTypes DEF LinksInv
  <2>3. calls'[q].stage = "absent"
    BY <2>1 DEF Stage, LinksInv, LinksTypeOK, CallRow
  <2> QED BY <2>1, <2>2, <2>3, WritingNothing
<1>5. CASE Refuse(q) \/ Fail(q) \/ Hear(q)
  <2>1. calls[q] \in CallRow /\ Done(q) /\ UNCHANGED <<conn, links, keys>>
    BY <1>5 DEF Refuse, Fail, Hear, UnderWay, LinksInv, LinksTypeOK
  <2>2. /\ calls' \in [Caller -> CallRow \cup {NULL}]
        /\ \A p \in Caller \ {q} : calls'[p] = calls[p]
    BY <2>1, StageTypes DEF LinksInv
  <2>3. calls'[q] = NULL
    BY <2>1 DEF Done, LinksInv, LinksTypeOK
  <2> QED BY <2>1, <2>2, <2>3, WritingNothing
<1> QED BY <1>1, <1>2, <1>3, <1>4, <1>5 DEF Step

LEMMA AskStep ==
  ASSUME LinksInv, NEW q \in Caller, NEW k \in Connection, NEW c \in Conversation,
         NEW w \in Workspace, NEW key \in Key, Ask(q, k, c, w, key)
  PROVE  LinksInv'
<1> DEFINE r == [conn |-> k, conv |-> c, target |-> w, key |-> key, stage |-> "authorized"]
<1>1. r \in CallRow /\ r.stage = "authorized"
  BY DEF CallRow
<1>2. calls' = [calls EXCEPT ![q] = r] /\ UNCHANGED <<conn, links, keys>>
  BY DEF Ask
<1> HIDE DEF r
<1>3. calls' \in [Caller -> CallRow \cup {NULL}] /\ calls'[q] = r
      /\ \A p \in Caller \ {q} : calls'[p] = calls[p]
  BY <1>1, <1>2 DEF LinksInv, LinksTypeOK
<1> QED BY <1>1, <1>2, <1>3, WritingNothing

LEMMA ConnectionSteps ==
  ASSUME LinksInv, NEW k \in Connection, Connect(k) \/ Grant(k) \/ Disconnect(k)
  PROVE  LinksInv'
<1>1. ConnTypeOK' /\ keys' = keys /\ calls' = calls
  BY ConnSteps DEF Connect, Grant, Disconnect, LinksInv, LinksTypeOK
<1>2. /\ links' \in [Connection -> [Conversation -> LinkRow \cup {NULL}]]
      /\ \A j \in Connection, c \in Conversation :
           links[j][c] # NULL => links'[j][c] # NULL /\ links'[j][c].target = links[j][c].target
  <2>1. CASE links' = links
    BY <2>1 DEF LinksInv, LinksTypeOK
  <2>2. CASE StopLinks(k)
    <3>1. \A x \in LinkRow : /\ [x EXCEPT !.status = "stopped"] \in LinkRow
                            /\ [x EXCEPT !.status = "stopped"].target = x.target
      BY DEF LinkRow
    <3> DEFINE f == [c \in Conversation |->
                      IF Linked(k, c) THEN [links[k][c] EXCEPT !.status = "stopped"] ELSE NULL]
    <3>2. links' = [links EXCEPT ![k] = f]
      BY <2>2 DEF StopLinks, LinksInv, LinksTypeOK
    <3>3. \A c \in Conversation :
            /\ f[c] \in LinkRow \cup {NULL}
            /\ links[k][c] # NULL => f[c] # NULL /\ f[c].target = links[k][c].target
      BY <3>1, LinkRows DEF LinksInv, LinksTypeOK, Linked
    <3>4. f \in [Conversation -> LinkRow \cup {NULL}]
      BY <3>3
    <3> HIDE DEF f
    <3> QED BY <3>2, <3>3, <3>4 DEF LinksInv, LinksTypeOK
  <2> QED BY <2>1, <2>2 DEF Connect, Grant, Disconnect
<1>3. LinksTypeOK'
  BY <1>1, <1>2 DEF LinksInv, LinksTypeOK
<1>4. AnswersStand'
  BY <1>1, <1>2, AnswersKept DEF LinksInv
<1> QED BY <1>3, <1>4 DEF LinksInv

LEMMA LinksInvNext == LinksInv /\ [LinksNext]_linkVars => LinksInv'
<1> SUFFICES ASSUME LinksInv, [LinksNext]_linkVars PROVE LinksInv'
  OBVIOUS
<1>1. CASE UNCHANGED linkVars
  BY <1>1 DEF linkVars, LinksInv, LinksTypeOK, ConnTypeOK, AnswersStand
<1>2. CASE LinksNext
  BY <1>2, CallSteps, AskStep, ConnectionSteps DEF LinksNext
<1> QED BY <1>1, <1>2

(* Every step of the drafts leaves the links as they are.                  *)
LEMMA DraftsLeaveLinks == [Next]_vars => [LinksNext]_linkVars
<1>1. ASSUME NEW w, NEW d, NEW k, NEW c, NEW conv, Create(w, d, k, c, conv) \/ Revise(w, d, k, c, conv)
      PROVE  UNCHANGED linkVars
  BY <1>1 DEF Create, Revise
<1>2. ASSUME NEW w, NEW d, NEW k, Withdraw(w, d, k)
      PROVE  UNCHANGED linkVars
  BY <1>2 DEF Withdraw
<1>3. ASSUME NEW w, NEW file, Import(w, file)
      PROVE  UNCHANGED linkVars
  BY <1>3 DEF Import
<1>4. UNCHANGED vars => UNCHANGED linkVars
  BY DEF vars
<1> QED BY <1>1, <1>2, <1>3, <1>4 DEF Next

LEMMA LinksInvariance == Spec => []LinksInv
<1>1. Init => LinksInv
  BY LinksInvInit DEF Init
<1>2. LinksInv /\ [Next]_vars => LinksInv'
  BY LinksInvNext, DraftsLeaveLinks
<1> QED BY <1>1, <1>2, PTL DEF Spec

-----------------------------------------------------------------------------
(* Calls that succeeded agree, however they overlapped (AnswersAgree).     *)
THEOREM SuccessesAgree == Spec => []AnswersAgree
<1>1. LinksInv => AnswersAgree
  <2> SUFFICES ASSUME LinksInv, NEW p \in Caller, NEW q \in Caller,
                      calls[p] # NULL, calls[q] # NULL, calls[p].conn = calls[q].conn,
                      calls[p].stage = "answered", calls[q].stage = "answered"
               PROVE  /\ calls[p].key = calls[q].key => calls[p].conv = calls[q].conv
                      /\ calls[p].conv = calls[q].conv => calls[p].target = calls[q].target
    BY DEF AnswersAgree
  <2> QED BY DEF LinksInv, AnswersStand
<1> QED BY <1>1, LinksInvariance, PTL

(* A link that is live under a delegation that is over was made so by a    *)
(* call that had been authorized before (LinksEndWithDelegation).          *)
THEOREM NoLinkOutlives == Spec => LinksEndWithDelegation
<1> DEFINE Ends ==
      \A k \in Connection, c \in Conversation :
        conn'[k].status # "active" /\ Live(k, c)' =>
          \/ conn[k].status # "active" /\ Live(k, c)
          \/ \E q \in Caller : UnderWay(q) /\ calls[q].conn = k /\ calls[q].conv = c /\ ~UnderWay(q)'
<1>1. LinksInv /\ LinksNext => Ends
  <2> SUFFICES ASSUME LinksInv, LinksNext, NEW k \in Connection, NEW c \in Conversation,
                      conn'[k].status # "active", Live(k, c)'
               PROVE  \/ conn[k].status # "active" /\ Live(k, c)
                      \/ \E q \in Caller :
                           UnderWay(q) /\ calls[q].conn = k /\ calls[q].conv = c /\ ~UnderWay(q)'
    OBVIOUS
  <2>1. CASE UNCHANGED <<conn, links>>
    BY <2>1 DEF Live, Linked
  <2>2. ASSUME NEW j \in Connection, Connect(j)
        PROVE  conn[k].status # "active" /\ Live(k, c)
    BY <2>2 DEF Connect, EnsurePending, SetConnection, Live, Linked, LinksInv, LinksTypeOK, ConnTypeOK
  <2>3. ASSUME NEW j \in Connection, Grant(j)
        PROVE  conn[k].status # "active" /\ Live(k, c)
    BY <2>3 DEF Grant, ApproveConnection, GrantFromConsent, SetConnection, Live, Linked,
                LinksInv, LinksTypeOK, ConnTypeOK
  <2>4. ASSUME NEW j \in Connection, Disconnect(j)
        PROVE  conn[k].status # "active" /\ Live(k, c)
    <3>1. j # k
      <4> SUFFICES ASSUME j = k PROVE FALSE
        OBVIOUS
      <4>1. links'[k][c] = IF Linked(k, c) THEN [links[k][c] EXCEPT !.status = "stopped"] ELSE NULL
        BY <2>4 DEF Disconnect, StopLinks, LinksInv, LinksTypeOK
      <4>2. links'[k][c] # NULL /\ links'[k][c].status = "active"
        BY DEF Live, Linked
      <4>3. links[k][c] \in LinkRow
        BY <4>1, <4>2 DEF Linked, LinksInv, LinksTypeOK
      <4> QED BY <4>1, <4>2, <4>3 DEF LinkRow
    <3> QED BY <2>4, <3>1 DEF Disconnect, RevokeConnection, StopLinks, SetConnection, Live, Linked,
                              LinksInv, LinksTypeOK, ConnTypeOK
  <2>5. ASSUME NEW q \in Caller, Relink(q) \/ Insert(q)
        PROVE  \/ conn[k].status # "active" /\ Live(k, c)
               \/ UnderWay(q) /\ calls[q].conn = k /\ calls[q].conv = c /\ ~UnderWay(q)'
    <3>1. /\ UnderWay(q) /\ calls[q] \in CallRow
          /\ conn' = conn /\ SaveLink(calls[q]) /\ Stage(q, "answered")
      BY <2>5, Asked DEF Relink, Insert
    <3>2. ~UnderWay(q)'
      BY <3>1 DEF Stage, UnderWay, LinksInv, LinksTypeOK, CallRow
    <3>3. CASE calls[q].conn = k /\ calls[q].conv = c
      BY <3>1, <3>2, <3>3
    <3>4. CASE ~(calls[q].conn = k /\ calls[q].conv = c)
      <4>1. links'[k][c] = links[k][c]
        BY <3>1, <3>4, CallRows DEF SaveLink, LinksInv, LinksTypeOK
      <4> QED BY <3>1, <4>1 DEF Live, Linked
    <3> QED BY <3>3, <3>4
  <2>6. ASSUME NEW q \in Caller, Step(q), ~(Relink(q) \/ Insert(q))
        PROVE  UNCHANGED <<conn, links>>
    BY <2>6 DEF Step, LookInVain, Join, Refuse, Fail, Hear
  <2>7. ASSUME NEW q \in Caller, NEW j \in Connection, NEW d \in Conversation, NEW w \in Workspace,
               NEW key \in Key, Ask(q, j, d, w, key)
        PROVE  UNCHANGED <<conn, links>>
    BY <2>7 DEF Ask
  <2>8. ASSUME NEW q \in Caller, Step(q)
        PROVE  (Relink(q) \/ Insert(q)) \/ UNCHANGED <<conn, links>>
    BY <2>6, <2>8
  <2> QED BY <2>1, <2>2, <2>3, <2>4, <2>5, <2>7, <2>8 DEF LinksNext
<1>2. LinksInv /\ [Next]_vars => [Ends]_linkVars
  BY <1>1, DraftsLeaveLinks
<1>3. Spec => [][Ends]_linkVars
  BY <1>2, LinksInvariance, PTL DEF Spec
<1> QED BY <1>3 DEF LinksEndWithDelegation

-----------------------------------------------------------------------------
(* Every step of every call is a step of the table, or none.               *)
LEMMA TableSteps == LinksInv /\ [LinksNext]_linkVars => [Table!LinkNext]_links
<1> SUFFICES ASSUME LinksInv, [LinksNext]_linkVars, links' # links
             PROVE  Table!LinkNext
  OBVIOUS
<1>1. LinksNext
  BY DEF linkVars
<1>2. ASSUME NEW k \in Connection, Disconnect(k)
      PROVE  Table!StopLinks(k)
  BY <1>2 DEF Disconnect, StopLinks, Linked, Table!StopLinks, Table!Linked
<1>3. ASSUME NEW q \in Caller, Relink(q) \/ Insert(q)
      PROVE  \E k \in Connection, c \in Conversation, w \in Workspace : Table!Link(k, c, w)
  <2> DEFINE r == calls[q]
  <2>1. /\ UnderWay(q) /\ SaveLink(r)
        /\ Linked(r.conn, r.conv) => links[r.conn][r.conv].target = r.target
    BY <1>3 DEF Relink, Insert
  <2>2. r.conn \in Connection /\ r.conv \in Conversation /\ r.target \in Workspace
    BY <2>1, Asked, CallRows
  <2>3. Table!Link(r.conn, r.conv, r.target)
    BY <2>1 DEF SaveLink, Linked, Table!Link, Table!Linked
  <2> QED BY <2>2, <2>3
<1>4. ASSUME NEW q \in Caller, Step(q)
      PROVE  Relink(q) \/ Insert(q)
  BY <1>4 DEF Step, LookInVain, Join, Refuse, Fail, Hear
<1>5. ASSUME NEW q \in Caller, NEW k \in Connection, NEW c \in Conversation, NEW w \in Workspace,
             NEW key \in Key, Ask(q, k, c, w, key)
      PROVE  FALSE
  BY <1>5 DEF Ask
<1>6. ASSUME NEW k \in Connection, Connect(k) \/ Grant(k)
      PROVE  FALSE
  BY <1>6 DEF Connect, Grant
<1> QED BY <1>1, <1>2, <1>3, <1>4, <1>5, <1>6 DEF LinksNext, Table!LinkNext

(* The calls with their lookups, lost inserts and failures implement       *)
(* LinkTable (ImplementsLinkTable).                                        *)
THEOREM Refinement == Spec => ImplementsLinkTable
<1>1. Init => Table!LinkInit
  BY DEF Init, LinksInit, Table!LinkInit
<1>2. LinksInv /\ [Next]_vars => [Table!LinkNext]_links
  BY TableSteps, DraftsLeaveLinks
<1> QED BY <1>1, <1>2, LinksInvariance, PTL DEF Spec, ImplementsLinkTable, Table!LinkSpec

-----------------------------------------------------------------------------
(* A link, once it is there, keeps its target.                             *)
LEMMA TargetsStay ==
  ASSUME LinksInv, [LinksNext]_linkVars, NEW k \in Connection, NEW c \in Conversation, links[k][c] # NULL
  PROVE  links'[k][c] # NULL /\ links'[k][c].target = links[k][c].target
<1>1. links' = links \/ Table!LinkNext
  BY TableSteps
<1>2. ASSUME NEW j \in Connection, Table!StopLinks(j)
      PROVE  links'[k][c] # NULL /\ links'[k][c].target = links[k][c].target
  <2>1. links[k][c] \in LinkRow
    BY DEF LinksInv, LinksTypeOK
  <2>2. /\ [links[k][c] EXCEPT !.status = "stopped"] \in LinkRow
        /\ [links[k][c] EXCEPT !.status = "stopped"].target = links[k][c].target
    BY <2>1 DEF LinkRow
  <2>3. links'[k][c] = IF j = k THEN [links[k][c] EXCEPT !.status = "stopped"] ELSE links[k][c]
    BY <1>2 DEF Table!StopLinks, Table!Linked, LinksInv, LinksTypeOK
  <2> QED BY <2>1, <2>2, <2>3, LinkRows
<1>3. ASSUME NEW j \in Connection, NEW d \in Conversation, NEW w \in Workspace, Table!Link(j, d, w)
      PROVE  links'[k][c] # NULL /\ links'[k][c].target = links[k][c].target
  <2>1. [target |-> w, status |-> "active"] # NULL
    BY LinkRows
  <2>2. CASE j = k /\ d = c
    BY <1>3, <2>1, <2>2 DEF Table!Link, Table!Linked, LinksInv, LinksTypeOK
  <2>3. CASE ~(j = k /\ d = c)
    BY <1>3, <2>3 DEF Table!Link, LinksInv, LinksTypeOK
  <2> QED BY <2>2, <2>3
<1> QED BY <1>1, <1>2, <1>3 DEF Table!LinkNext

-----------------------------------------------------------------------------
Heads == [Draft -> HeadRow \cup {NULL}]
Histories == [Draft -> [1..MaxRev -> RevRow \cup {NULL}]]

LEMMA DraftRows ==
  /\ \A x \in HeadRow :
       /\ x # NULL /\ x.rev \in 1..MaxRev /\ x.content \in Content /\ x.status \in {"open", "withdrawn"}
       /\ x.conv \in Conversation \cup {NULL} /\ x.link \in (Connection \X Conversation) \cup {NULL}
       /\ x.via \in Author
  /\ \A x \in RevRow : x # NULL
BY RowAssumption DEF HeadRow, RevRow

(* What somebody may have made of a backup is a backup. *)
LEMMA Backups ==
  ASSUME TypeOK, NEW v \in Workspace, NEW file \in Edited(Export(v))
  PROVE  file.heads \in Heads /\ file.revs \in Histories
<1> DEFINE whole == Export(v)
<1>1. /\ whole = [heads |-> drafts[v], revs |-> revs[v]]
      /\ whole.heads \in Heads /\ whole.revs \in Histories
  BY DEF Export, TypeOK, Heads, Histories
<1>2. \A x \in HeadRow, c \in Content : [x EXCEPT !.content = c] \in HeadRow
  BY DEF HeadRow
<1>3. \A x \in RevRow, c \in Content : [x EXCEPT !.content = c] \in RevRow
  BY DEF RevRow
<1>4. ASSUME NEW d \in Draft, file = [whole EXCEPT !.heads[d] = NULL]
      PROVE  file.heads \in Heads /\ file.revs \in Histories
  <2>1. file.heads = [whole.heads EXCEPT ![d] = NULL] /\ file.revs = whole.revs
    BY <1>1, <1>4
  <2> QED BY <1>1, <2>1 DEF Heads
<1>5. ASSUME NEW d \in Draft, NEW n \in 1..MaxRev, file = [whole EXCEPT !.revs[d][n] = NULL]
      PROVE  file.heads \in Heads /\ file.revs \in Histories
  <2>1. file.heads = whole.heads /\ file.revs = [whole.revs EXCEPT ![d][n] = NULL]
    BY <1>1, <1>5
  <2> QED BY <1>1, <2>1 DEF Histories
<1>6. ASSUME NEW d \in Draft, NEW c \in Content, whole.heads[d] # NULL,
             file = [whole EXCEPT !.heads[d].content = c]
      PROVE  file.heads \in Heads /\ file.revs \in Histories
  <2>1. /\ file.heads = [whole.heads EXCEPT ![d] = [whole.heads[d] EXCEPT !.content = c]]
        /\ file.revs = whole.revs
    BY <1>1, <1>6 DEF Heads
  <2>2. [whole.heads[d] EXCEPT !.content = c] \in HeadRow
    BY <1>1, <1>2, <1>6 DEF Heads
  <2> QED BY <1>1, <2>1, <2>2 DEF Heads
<1>7. ASSUME NEW d \in Draft, NEW n \in 1..MaxRev, NEW c \in Content, whole.revs[d][n] # NULL,
             file = [whole EXCEPT !.revs[d][n].content = c]
      PROVE  file.heads \in Heads /\ file.revs \in Histories
  <2>1. /\ file.heads = whole.heads
        /\ file.revs = [whole.revs EXCEPT ![d][n] = [whole.revs[d][n] EXCEPT !.content = c]]
    BY <1>1, <1>7 DEF Histories
  <2>2. [whole.revs[d][n] EXCEPT !.content = c] \in RevRow
    <3>1. whole.revs[d][n] \in RevRow
      BY <1>1, <1>7 DEF Histories
    <3> QED BY <1>3, <3>1
  <2> QED BY <1>1, <2>1, <2>2 DEF Histories
<1> HIDE DEF whole
<1> QED BY <1>1, <1>4, <1>5, <1>6, <1>7 DEF Edited, whole

(* What HistoryIsWhole says of one draft. *)
WholeAt(row, history) ==
  LET saved == {n \in 1..MaxRev : history[n] # NULL}
  IN  /\ saved = IF row = NULL THEN {} ELSE 1..row.rev
      /\ \A n \in saved : history[n].by # NULL => ~history[n].content.claims
      /\ row # NULL => history[row.rev].content = row.content /\ history[row.rev].conv = row.conv

LEMMA DraftByDraft ==
  HistoryIsWhole <=> \A w \in Workspace, d \in Draft : WholeAt(drafts[w][d], revs[w][d])
BY DEF HistoryIsWhole, WholeAt

LEMMA DraftByDraftNext ==
  HistoryIsWhole' <=> \A w \in Workspace, d \in Draft : WholeAt(drafts'[w][d], revs'[w][d])
BY DEF HistoryIsWhole, WholeAt

(* A revision is saved on top of the last. *)
LEMMA Saving ==
  ASSUME IInv, NEW w \in Workspace, NEW d \in Draft, NEW row \in HeadRow, NEW author \in Author,
         Save(w, d, row, author), UNCHANGED <<linkVars, brought>>,
         ValidContent(row.content, author # NULL),
         row.link # NULL /\ <<w, d>> \notin brought =>
            links[row.link[1]][row.link[2]] # NULL /\ links[row.link[1]][row.link[2]].target = w,
         \/ drafts[w][d] = NULL /\ row.rev = 1
         \/ drafts[w][d] # NULL /\ row.rev = drafts[w][d].rev + 1
  PROVE  IInv'
<1> DEFINE rev == [content |-> row.content, conv |-> row.conv, by |-> author]
           history == [revs[w][d] EXCEPT ![row.rev] = rev]
<1>1. /\ rev \in RevRow /\ rev # NULL /\ row # NULL /\ row.rev \in 1..MaxRev /\ rev.by = author
      /\ rev.content = row.content /\ rev.conv = row.conv
  BY DraftRows DEF RevRow
<1>2. /\ drafts' = [drafts EXCEPT ![w] = [drafts[w] EXCEPT ![d] = row]]
      /\ revs' = [revs EXCEPT ![w] = [revs[w] EXCEPT ![d] = history]]
  BY DEF Save, IInv, TypeOK
<1> HIDE DEF rev
<1>3. /\ history \in [1..MaxRev -> RevRow \cup {NULL}]
      /\ \A n \in 1..MaxRev : history[n] = IF n = row.rev THEN rev ELSE revs[w][d][n]
  <2>1. revs[w][d] \in [1..MaxRev -> RevRow \cup {NULL}]
    BY DEF IInv, TypeOK
  <2> QED BY <1>1, <2>1
<1> HIDE DEF history
<1>4. /\ drafts'[w][d] = row /\ revs'[w][d] = history
      /\ \A v \in Workspace, e \in Draft :
           v # w \/ e # d => drafts'[v][e] = drafts[v][e] /\ revs'[v][e] = revs[v][e]
  BY <1>2 DEF IInv, TypeOK
<1>5. TypeOK'
  <2>1. drafts' \in [Workspace -> [Draft -> HeadRow \cup {NULL}]]
    BY <1>2 DEF IInv, TypeOK
  <2>2. revs' \in [Workspace -> [Draft -> [1..MaxRev -> RevRow \cup {NULL}]]]
    BY <1>2, <1>3 DEF IInv, TypeOK
  <2> QED BY <2>1, <2>2 DEF IInv, TypeOK, LinksTypeOK, ConnTypeOK, linkVars
<1>6. AnswersStand'
  BY DEF IInv, AnswersStand, linkVars
<1>7. DraftAnchored'
  <2> SUFFICES ASSUME NEW v \in Workspace, NEW e \in Draft,
                      drafts'[v][e] # NULL, <<v, e>> \notin brought', drafts'[v][e].link # NULL
               PROVE  LET link == links'[drafts'[v][e].link[1]][drafts'[v][e].link[2]]
                      IN  link # NULL /\ link.target = v
    BY DEF DraftAnchored
  <2>1. links' = links /\ <<v, e>> \notin brought
    BY DEF linkVars
  <2>2. CASE v = w /\ e = d
    <3>1. drafts'[v][e] = row
      BY <1>4, <2>2
    <3> QED BY <2>1, <2>2, <3>1
  <2>3. CASE v # w \/ e # d
    <3>1. drafts'[v][e] = drafts[v][e]
      BY <1>4, <2>3
    <3>2. LET link == links[drafts[v][e].link[1]][drafts[v][e].link[2]]
          IN  link # NULL /\ link.target = v
      BY <2>1, <3>1 DEF IInv, DraftAnchored
    <3> QED BY <2>1, <3>1, <3>2
  <2> QED BY <2>2, <2>3
<1>8. HistoryIsWhole'
  <2>1. ASSUME NEW v \in Workspace, NEW e \in Draft, v # w \/ e # d
        PROVE  WholeAt(drafts'[v][e], revs'[v][e])
    BY <1>4, <2>1, DraftByDraft DEF IInv
  <2>2. WholeAt(row, history)
    <3> DEFINE before == {n \in 1..MaxRev : revs[w][d][n] # NULL}
               after == {n \in 1..MaxRev : history[n] # NULL}
    <3>1. /\ before = IF drafts[w][d] = NULL THEN {} ELSE 1..drafts[w][d].rev
          /\ \A n \in before : revs[w][d][n].by # NULL => ~revs[w][d][n].content.claims
      BY DEF IInv, HistoryIsWhole
    <3>2. after = before \cup {row.rev}
      BY <1>1, <1>3
    <3>3. drafts[w][d] # NULL => drafts[w][d].rev \in 1..MaxRev
      BY DraftRows DEF IInv, TypeOK
    <3>4. MaxRev \in Nat
      BY BoundAssumption
    <3>6. author # NULL => ~row.content.claims
      BY DEF ValidContent
    <3>7. \A n \in after : history[n].by # NULL => ~history[n].content.claims
      BY <1>1, <1>3, <3>1, <3>2, <3>6
    <3> HIDE DEF before, after
    <3>5. after = 1..row.rev
      <4>1. CASE drafts[w][d] = NULL /\ row.rev = 1
        BY <3>1, <3>2, <4>1
      <4>2. CASE drafts[w][d] # NULL /\ row.rev = drafts[w][d].rev + 1
        BY <3>1, <3>2, <3>3, <3>4, <4>2
      <4> QED BY <4>1, <4>2
    <3>8. history[row.rev] = rev
      BY <1>1, <1>3
    <3> QED BY <1>1, <3>5, <3>7, <3>8 DEF after, WholeAt
  <2> QED BY <1>4, <2>1, <2>2, DraftByDraftNext
<1>9. RevisionsAreValid'
  <2> SUFFICES ASSUME NEW v \in Workspace, NEW e \in Draft, NEW n \in 1..MaxRev, revs'[v][e][n] # NULL
               PROVE  ValidEdges(revs'[v][e][n].content)
    BY DEF RevisionsAreValid
  <2>1. CASE v = w /\ e = d /\ n = row.rev
    BY <1>1, <1>3, <1>4, <2>1 DEF ValidContent
  <2>2. CASE ~(v = w /\ e = d /\ n = row.rev)
    <3>1. revs'[v][e][n] = revs[v][e][n]
      BY <1>3, <1>4, <2>2
    <3> QED BY <3>1 DEF IInv, RevisionsAreValid
  <2> QED BY <2>1, <2>2
<1> QED BY <1>5, <1>6, <1>7, <1>8, <1>9 DEF IInv

(* A conversation that a draft is taken from is linked to its workspace.   *)
LEMMA Anchoring ==
  ASSUME IInv, NEW w \in Workspace, NEW k \in Author, NEW conv \in Mentioned \cup {NULL}, AnchorsIn(w, k, conv)
  PROVE  LET a == Anchor(k, conv) IN
         /\ a \in (Connection \X Conversation) \cup {NULL}
         /\ a # NULL => links[a[1]][a[2]] # NULL /\ links[a[1]][a[2]].target = w
<1>1. CASE k # NULL /\ conv # NULL /\ Linked(k, conv)
  <2>1. k \in Connection /\ conv \in Conversation
    BY <1>1, BoundAssumption DEF Author
  <2>2. Anchor(k, conv) = <<k, conv>> /\ links[k][conv] # NULL /\ links[k][conv].target = w
    BY <1>1 DEF Anchor, AnchorsIn, Linked
  <2> QED BY <2>1, <2>2
<1>2. CASE ~(k # NULL /\ conv # NULL /\ Linked(k, conv))
  BY <1>2 DEF Anchor
<1> QED BY <1>1, <1>2

LEMMA CreateStep ==
  ASSUME IInv, NEW w \in Workspace, NEW d \in Draft, NEW k \in Author, NEW c \in Content,
         NEW conv \in Mentioned \cup {NULL}, Create(w, d, k, c, conv)
  PROVE  IInv'
<1> DEFINE a == Anchor(k, conv)
           row == [status |-> "open", rev |-> 1, content |-> c, conv |-> conv, link |-> a, via |-> k]
<1>1. /\ a \in (Connection \X Conversation) \cup {NULL}
      /\ a # NULL => links[a[1]][a[2]] # NULL /\ links[a[1]][a[2]].target = w
  BY Anchoring DEF Create
<1>2. 1 \in 1..MaxRev /\ conv \in Conversation \cup {NULL}
  BY BoundAssumption
<1>3. Save(w, d, row, k) /\ UNCHANGED <<linkVars, brought>> /\ drafts[w][d] = NULL /\ ValidContent(c, k # NULL)
  BY DEF Create
<1> HIDE DEF a
<1>4. row \in HeadRow /\ row.link = a /\ row.rev = 1 /\ row.content = c
  BY <1>1, <1>2 DEF HeadRow
<1> HIDE DEF row
<1> QED BY <1>1, <1>3, <1>4, Saving

LEMMA ReviseStep ==
  ASSUME IInv, NEW w \in Workspace, NEW d \in Draft, NEW k \in Author, NEW c \in Content,
         NEW conv \in Mentioned \cup {NULL}, Revise(w, d, k, c, conv)
  PROVE  IInv'
<1> DEFINE a == Anchor(k, conv)
           old == drafts[w][d]
           row == [old EXCEPT !.rev = @ + 1, !.content = c,
                              !.conv = IF conv = NULL THEN @ ELSE conv,
                              !.link = IF conv = NULL THEN @ ELSE a]
<1>1. /\ a \in (Connection \X Conversation) \cup {NULL}
      /\ a # NULL => links[a[1]][a[2]] # NULL /\ links[a[1]][a[2]].target = w
  BY Anchoring DEF Revise
<1>2. MaxRev \in Nat /\ conv \in Conversation \cup {NULL}
  BY BoundAssumption
<1>3. /\ Save(w, d, row, k) /\ UNCHANGED <<linkVars, brought>> /\ old # NULL
      /\ old.rev < MaxRev /\ ValidContent(c, k # NULL)
  BY DEF Revise, MayContinue
<1>4. old \in HeadRow
  BY <1>3 DEF IInv, TypeOK
<1>5. /\ old.link # NULL /\ <<w, d>> \notin brought =>
           links[old.link[1]][old.link[2]] # NULL /\ links[old.link[1]][old.link[2]].target = w
  BY <1>3 DEF IInv, DraftAnchored
<1> HIDE DEF a, old
<1>6. /\ row \in HeadRow /\ row.rev = old.rev + 1 /\ row.content = c
      /\ row.link = IF conv = NULL THEN old.link ELSE a
  <2>1. /\ old.rev \in 1..MaxRev /\ old.status \in {"open", "withdrawn"}
        /\ old.conv \in Conversation \cup {NULL} /\ old.via \in Author
        /\ old.link \in (Connection \X Conversation) \cup {NULL}
    BY <1>4, DraftRows
  <2>2. old.rev + 1 \in 1..MaxRev
    BY <1>2, <1>3, <2>1
  <2> DEFINE conv2 == IF conv = NULL THEN old.conv ELSE conv
             link2 == IF conv = NULL THEN old.link ELSE a
  <2>3. row = [old EXCEPT !.rev = old.rev + 1, !.content = c, !.conv = conv2, !.link = link2]
    OBVIOUS
  <2>4. conv2 \in Conversation \cup {NULL} /\ link2 \in (Connection \X Conversation) \cup {NULL}
    BY <1>1, <1>2, <2>1
  <2> HIDE DEF row, conv2, link2
  <2>5. row \in HeadRow /\ row.rev = old.rev + 1 /\ row.content = c /\ row.link = link2
    BY <1>4, <2>2, <2>3, <2>4 DEF HeadRow
  <2> QED BY <2>5 DEF link2
<1> HIDE DEF row
<1>7. row.link # NULL /\ <<w, d>> \notin brought =>
         links[row.link[1]][row.link[2]] # NULL /\ links[row.link[1]][row.link[2]].target = w
  BY <1>1, <1>5, <1>6
<1> QED BY <1>3, <1>6, <1>7, Saving DEF old

(* Withdrawing changes the status alone. *)
LEMMA WithdrawStep ==
  ASSUME IInv, NEW w \in Workspace, NEW d \in Draft, NEW k \in Author, Withdraw(w, d, k)
  PROVE  IInv'
<1> DEFINE old == drafts[w][d]
           row == [old EXCEPT !.status = "withdrawn"]
<1>1. old \in HeadRow /\ old # NULL
  BY DEF Withdraw, MayContinue, IInv, TypeOK
<1>2. drafts' = [drafts EXCEPT ![w] = [drafts[w] EXCEPT ![d] = row]] /\ UNCHANGED <<linkVars, revs, brought>>
  BY DEF Withdraw, IInv, TypeOK
<1> HIDE DEF old
<1>3. /\ row \in HeadRow /\ row # NULL /\ row.rev = old.rev /\ row.content = old.content
      /\ row.conv = old.conv /\ row.link = old.link
  BY <1>1, DraftRows DEF HeadRow
<1> HIDE DEF row
<1>4. /\ drafts'[w][d] = row
      /\ \A v \in Workspace, e \in Draft : v # w \/ e # d => drafts'[v][e] = drafts[v][e]
  BY <1>2 DEF IInv, TypeOK
<1>5. TypeOK'
  BY <1>2, <1>3 DEF IInv, TypeOK, LinksTypeOK, ConnTypeOK, linkVars
<1>6. AnswersStand'
  BY <1>2 DEF IInv, AnswersStand, linkVars
<1>7. DraftAnchored'
  <2> SUFFICES ASSUME NEW v \in Workspace, NEW e \in Draft,
                      drafts'[v][e] # NULL, <<v, e>> \notin brought, drafts'[v][e].link # NULL
               PROVE  LET link == links[drafts'[v][e].link[1]][drafts'[v][e].link[2]]
                      IN  link # NULL /\ link.target = v
    BY <1>2 DEF DraftAnchored, linkVars
  <2>1. drafts[v][e] # NULL /\ drafts'[v][e].link = drafts[v][e].link
    BY <1>1, <1>3, <1>4 DEF old
  <2> QED BY <2>1 DEF IInv, DraftAnchored
<1>8. HistoryIsWhole'
  <2>1. \A v \in Workspace, e \in Draft : WholeAt(drafts[v][e], revs[v][e])
    BY DraftByDraft DEF IInv
  <2>2. WholeAt(row, revs[w][d])
    BY <1>1, <1>3, <2>1 DEF WholeAt, old
  <2> QED BY <1>2, <1>4, <2>1, <2>2, DraftByDraftNext
<1>9. RevisionsAreValid'
  BY <1>2 DEF IInv, RevisionsAreValid
<1> QED BY <1>5, <1>6, <1>7, <1>8, <1>9 DEF IInv

(* What is restored is whole, or nothing is. *)
LEMMA ImportStep ==
  ASSUME IInv, NEW v \in Workspace, NEW u \in Workspace, NEW file \in Edited(Export(u)), Import(v, file)
  PROVE  IInv'
<1> DEFINE heads == [d \in Draft |-> IF file.heads[d] # NULL THEN file.heads[d] ELSE drafts[v][d]]
           history == [d \in Draft |-> [n \in 1..MaxRev |->
                         IF file.revs[d][n] # NULL THEN file.revs[d][n] ELSE revs[v][d][n]]]
           added == {<<v, d>> : d \in {d \in Draft : file.heads[d] # NULL}}
<1>1. file.heads \in Heads /\ file.revs \in Histories
  BY Backups DEF IInv
<1>2. heads \in Heads /\ history \in Histories /\ added \subseteq Workspace \X Draft
  <2>1. drafts[v] \in Heads /\ revs[v] \in Histories
    BY DEF Heads, Histories, IInv, TypeOK
  <2>2. heads \in Heads
    BY <1>1, <2>1 DEF Heads
  <2>3. \A d \in Draft : history[d] \in [1..MaxRev -> RevRow \cup {NULL}]
    BY <1>1, <2>1 DEF Histories
  <2>4. history \in Histories
    BY <2>3 DEF Histories
  <2> QED BY <2>2, <2>4
<1>3. /\ Whole(heads, history) /\ UNCHANGED linkVars
      /\ drafts' = [drafts EXCEPT ![v] = heads] /\ revs' = [revs EXCEPT ![v] = history]
      /\ brought' = brought \cup added
  BY DEF Import
<1>4. \A d \in Draft : heads[d] = drafts[v][d] \/ <<v, d>> \in added
  OBVIOUS
<1> HIDE DEF heads, history, added
<1>5. /\ drafts'[v] = heads /\ revs'[v] = history
      /\ \A w \in Workspace : w # v => drafts'[w] = drafts[w] /\ revs'[w] = revs[w]
  BY <1>3 DEF IInv, TypeOK
<1>6. TypeOK'
  BY <1>2, <1>3 DEF IInv, TypeOK, Heads, Histories, LinksTypeOK, ConnTypeOK, linkVars
<1>7. AnswersStand'
  BY <1>3 DEF IInv, AnswersStand, linkVars
<1>8. DraftAnchored'
  <2> SUFFICES ASSUME NEW w \in Workspace, NEW d \in Draft,
                      drafts'[w][d] # NULL, <<w, d>> \notin brought', drafts'[w][d].link # NULL
               PROVE  LET link == links'[drafts'[w][d].link[1]][drafts'[w][d].link[2]]
                      IN  link # NULL /\ link.target = w
    BY DEF DraftAnchored
  <2>1. drafts'[w][d] = drafts[w][d] /\ <<w, d>> \notin brought
    BY <1>3, <1>4, <1>5
  <2>2. links' = links
    BY <1>3 DEF linkVars
  <2>3. LET link == links[drafts[w][d].link[1]][drafts[w][d].link[2]]
        IN  link # NULL /\ link.target = w
    BY <2>1 DEF IInv, DraftAnchored
  <2> QED BY <2>1, <2>2, <2>3
<1>9. HistoryIsWhole'
  <2>1. ASSUME NEW w \in Workspace, NEW d \in Draft, w # v
        PROVE  WholeAt(drafts'[w][d], revs'[w][d])
    BY <1>5, <2>1, DraftByDraft DEF IInv
  <2>2. ASSUME NEW d \in Draft
        PROVE  WholeAt(heads[d], history[d])
    <3>1. Saved(history[d]) = {n \in 1..MaxRev : history[d][n] # NULL}
      BY <1>2 DEF Saved, Histories
    <3> QED BY <1>3, <3>1 DEF Whole, WholeAt, ValidContent
  <2> QED BY <1>5, <2>1, <2>2, DraftByDraftNext
<1>10. RevisionsAreValid'
  <2> SUFFICES ASSUME NEW w \in Workspace, NEW d \in Draft, NEW n \in 1..MaxRev, revs'[w][d][n] # NULL
               PROVE  ValidEdges(revs'[w][d][n].content)
    BY DEF RevisionsAreValid
  <2>1. CASE w = v
    <3>1. n \in Saved(history[d]) /\ revs'[w][d] = history[d]
      BY <1>2, <1>5, <2>1 DEF Saved, Histories
    <3> QED BY <1>3, <3>1 DEF Whole, ValidContent
  <2>2. CASE w # v
    BY <1>5, <2>2 DEF IInv, RevisionsAreValid
  <2> QED BY <2>1, <2>2
<1> QED BY <1>6, <1>7, <1>8, <1>9, <1>10 DEF IInv

(* Whatever becomes of the links, drafts keep what they are anchored to.   *)
LEMMA LinksStep ==
  ASSUME IInv, [LinksNext]_linkVars, UNCHANGED draftVars
  PROVE  IInv'
<1>1. LinksInv'
  BY LinksInvNext DEF IInv, TypeOK, LinksInv
<1>2. TypeOK'
  BY <1>1 DEF IInv, TypeOK, LinksInv, draftVars
<1>3. DraftAnchored'
  <2> SUFFICES ASSUME NEW w \in Workspace, NEW d \in Draft,
                      drafts[w][d] # NULL, <<w, d>> \notin brought, drafts[w][d].link # NULL
               PROVE  LET link == links'[drafts[w][d].link[1]][drafts[w][d].link[2]]
                      IN  link # NULL /\ link.target = w
    BY DEF DraftAnchored, draftVars
  <2>1. drafts[w][d].link \in Connection \X Conversation
    BY DraftRows DEF IInv, TypeOK
  <2>2. /\ links[drafts[w][d].link[1]][drafts[w][d].link[2]] # NULL
        /\ links[drafts[w][d].link[1]][drafts[w][d].link[2]].target = w
    BY DEF IInv, DraftAnchored
  <2>3. drafts[w][d].link[1] \in Connection /\ drafts[w][d].link[2] \in Conversation
    BY <2>1
  <2> QED BY <2>2, <2>3, TargetsStay DEF IInv, TypeOK, LinksInv
<1>4. HistoryIsWhole' /\ RevisionsAreValid'
  BY DEF IInv, HistoryIsWhole, RevisionsAreValid, draftVars
<1> QED BY <1>1, <1>2, <1>3, <1>4 DEF IInv, LinksInv

LEMMA InvInit == Init => IInv
<1> SUFFICES ASSUME Init PROVE IInv
  OBVIOUS
<1>1. LinksInv
  BY LinksInvInit DEF Init
<1>2. \A w \in Workspace, d \in Draft :
         drafts[w][d] = NULL /\ \A n \in 1..MaxRev : revs[w][d][n] = NULL
  BY DEF Init, NoHeads, NoRevs
<1>3. TypeOK
  BY <1>1 DEF Init, NoHeads, NoRevs, TypeOK, LinksInv
<1>4. DraftAnchored /\ HistoryIsWhole /\ RevisionsAreValid
  BY <1>2 DEF DraftAnchored, HistoryIsWhole, RevisionsAreValid
<1> QED BY <1>1, <1>3, <1>4 DEF IInv, LinksInv

LEMMA InvNext == IInv /\ [Next]_vars => IInv'
<1> SUFFICES ASSUME IInv, [Next]_vars PROVE IInv'
  OBVIOUS
<1>1. CASE UNCHANGED vars
  BY <1>1, LinksStep DEF vars
<1>2. CASE Next
  BY <1>2, LinksStep, CreateStep, ReviseStep, WithdrawStep, ImportStep DEF Next
<1> QED BY <1>1, <1>2

LEMMA Invariance == Spec => []IInv
BY InvInit, InvNext, PTL DEF Spec

(* The types of the links, the calls and the drafts (TypeOK).              *)
THEOREM TypeCorrect == Spec => []TypeOK
<1>1. IInv => TypeOK
  BY DEF IInv
<1> QED BY <1>1, Invariance, PTL

(* A draft written here stays anchored to a conversation about its own     *)
(* workspace, through stopping, linking again and restoring of backups     *)
(* (DraftAnchored).                                                        *)
THEOREM AnchorsHold == Spec => []DraftAnchored
<1>1. IInv => DraftAnchored
  BY DEF IInv
<1> QED BY <1>1, Invariance, PTL

(* No draft is ever without one of its revisions, or says something else   *)
(* than the last of them (HistoryIsWhole).                                 *)
THEOREM RevisionsAreWhole == Spec => []HistoryIsWhole
<1>1. IInv => HistoryIsWhole
  BY DEF IInv
<1> QED BY <1>1, Invariance, PTL
-----------------------------------------------------------------------------
(* The search for loops.  Counting is by sets of numbers.                  *)
LEMMA LeastNumber ==
  ASSUME NEW T \in SUBSET Nat, T # {}
  PROVE  \E x \in T : \A y \in T : x <= y
<1>1. IsWellFoundedOn(OpToRel(<, Nat), Nat)
  BY NatLessThanWellFounded
<1>2. \E x \in T : \A y \in T : <<y, x>> \notin OpToRel(<, Nat)
  BY <1>1, WFMin, Zenon
<1>3. \A x, y \in T : <<y, x>> \notin OpToRel(<, Nat) => x <= y
  BY DEF OpToRel
<1> QED BY <1>2, <1>3

LEMMA AllNumbers ==
  ASSUME NEW G, 0 \in G, \A n \in Nat : n \in G => n + 1 \in G
  PROVE  \A n \in Nat : n \in G
<1> DEFINE T == {n \in Nat : n \notin G}
<1> SUFFICES ASSUME T # {} PROVE FALSE
  OBVIOUS
<1>1. PICK x \in T : \A y \in T : x <= y
  BY LeastNumber
<1>2. x \in Nat /\ x # 0 /\ x - 1 \notin T /\ x - 1 \in Nat
  BY <1>1
<1>3. x - 1 \in G /\ (x - 1) + 1 = x
  BY <1>2
<1> QED BY <1>1, <1>2, <1>3

(* The steps of a search up to the m-th. *)
Part(f, m, nodes, pairs, starts) ==
  f = [n \in 0..m |-> IF n = 0 THEN SearchBegin(nodes) ELSE SearchNext(f[n - 1], pairs, starts)]

LEMMA PartsExist ==
  ASSUME NEW nodes, NEW pairs, NEW starts, NEW m \in Nat
  PROVE  \E f : Part(f, m, nodes, pairs, starts)
<1> DEFINE G == {k \in Nat : \E f : Part(f, k, nodes, pairs, starts)}
<1>1. 0 \in G
  <2> DEFINE f == [n \in 0..0 |-> SearchBegin(nodes)]
  <2>1. f = [n \in 0..0 |-> IF n = 0 THEN SearchBegin(nodes) ELSE SearchNext(f[n - 1], pairs, starts)]
    OBVIOUS
  <2> QED BY <2>1 DEF Part
<1>2. ASSUME NEW k \in Nat, k \in G
      PROVE  k + 1 \in G
  <2>1. PICK f : Part(f, k, nodes, pairs, starts)
    BY <1>2
  <2> DEFINE g == [n \in 0..(k + 1) |-> IF n <= k THEN f[n] ELSE SearchNext(f[k], pairs, starts)]
  <2>2. \A n \in 0..k : f[n] = IF n = 0 THEN SearchBegin(nodes) ELSE SearchNext(f[n - 1], pairs, starts)
    BY <2>1 DEF Part
  <2>3. \A n \in 0..(k + 1) :
           g[n] = IF n = 0 THEN SearchBegin(nodes) ELSE SearchNext(g[n - 1], pairs, starts)
    <3> SUFFICES ASSUME NEW n \in 0..(k + 1)
                 PROVE  g[n] = IF n = 0 THEN SearchBegin(nodes) ELSE SearchNext(g[n - 1], pairs, starts)
      OBVIOUS
    <3>1. CASE n = 0
      BY <2>2, <3>1
    <3>2. CASE n # 0 /\ n <= k
      <4>1. n \in 0..k /\ n - 1 \in 0..k /\ n - 1 \in 0..(k + 1) /\ n - 1 <= k
        BY <3>2
      <4>2. g[n] = f[n] /\ g[n - 1] = f[n - 1]
        BY <3>2, <4>1
      <4> HIDE DEF g
      <4> QED BY <2>2, <3>2, <4>1, <4>2
    <3>3. CASE n = k + 1
      <4>1. n # 0 /\ ~(n <= k) /\ n - 1 = k /\ k \in 0..(k + 1)
        BY <3>3
      <4>2. g[n] = SearchNext(f[k], pairs, starts) /\ g[k] = f[k]
        BY <3>3, <4>1
      <4> HIDE DEF g
      <4> QED BY <4>1, <4>2
    <3>4. n = 0 \/ (n # 0 /\ n <= k) \/ n = k + 1
      OBVIOUS
    <3> QED BY <3>1, <3>2, <3>3, <3>4
  <2>4. g = [n \in 0..(k + 1) |-> g[n]]
    OBVIOUS
  <2> HIDE DEF g
  <2>5. Part(g, k + 1, nodes, pairs, starts)
    BY <2>3, <2>4 DEF Part
  <2> QED BY <2>5
<1> HIDE DEF G
<1>3. m \in G
  BY <1>1, <1>2, AllNumbers
<1> QED BY <1>3 DEF G

LEMMA PartsAgree ==
  ASSUME NEW nodes, NEW pairs, NEW starts, NEW m \in Nat, NEW k \in Nat, NEW f, NEW g,
         Part(f, m, nodes, pairs, starts), Part(g, k, nodes, pairs, starts)
  PROVE  \A n \in Nat : n <= m /\ n <= k => f[n] = g[n]
<1> DEFINE G == {n \in Nat : n <= m /\ n <= k => f[n] = g[n]}
<1>1. /\ \A n \in 0..m : f[n] = IF n = 0 THEN SearchBegin(nodes) ELSE SearchNext(f[n - 1], pairs, starts)
      /\ \A n \in 0..k : g[n] = IF n = 0 THEN SearchBegin(nodes) ELSE SearchNext(g[n - 1], pairs, starts)
  BY DEF Part
<1>2. 0 \in G
  BY <1>1
<1>3. ASSUME NEW n \in Nat, n \in G
      PROVE  n + 1 \in G
  <2> SUFFICES ASSUME n + 1 <= m, n + 1 <= k
               PROVE  f[n + 1] = g[n + 1]
    OBVIOUS
  <2>1. n + 1 \in 0..m /\ n + 1 \in 0..k /\ n + 1 # 0 /\ (n + 1) - 1 = n /\ n <= m /\ n <= k
    OBVIOUS
  <2>2. f[n] = g[n]
    BY <1>3, <2>1
  <2> QED BY <1>1, <2>1, <2>2
<1> HIDE DEF G
<1>4. \A n \in Nat : n \in G
  BY <1>2, <1>3, AllNumbers
<1> QED BY <1>4 DEF G

(* The search is a sequence of its steps. *)
Steps(run, nodes, pairs, starts) ==
  /\ run[0] = SearchBegin(nodes)
  /\ \A n \in Nat : run[n + 1] = SearchNext(run[n], pairs, starts)

LEMMA SearchSteps ==
  ASSUME NEW nodes, NEW pairs, NEW starts
  PROVE  \E run : /\ Steps(run, nodes, pairs, starts)
                  /\ LoopFound(nodes, pairs, starts)
                       = run[3 * Len(starts) + 2 * Cardinality(DOMAIN pairs)].loop
<1> DEFINE part(n) == CHOOSE f : Part(f, n, nodes, pairs, starts)
           all == [n \in Nat |-> part(n)[n]]
           IsAll(run) == run = [n \in Nat |-> IF n = 0 THEN SearchBegin(nodes)
                                              ELSE SearchNext(run[n - 1], pairs, starts)]
<1>1. \A n \in Nat : Part(part(n), n, nodes, pairs, starts)
  BY PartsExist
<1>2. ASSUME NEW n \in Nat
      PROVE  all[n] = IF n = 0 THEN SearchBegin(nodes) ELSE SearchNext(all[n - 1], pairs, starts)
  <2>1. part(n)[n] = IF n = 0 THEN SearchBegin(nodes) ELSE SearchNext(part(n)[n - 1], pairs, starts)
    <3>1. Part(part(n), n, nodes, pairs, starts) /\ n \in 0..n
      BY <1>1
    <3> HIDE DEF part
    <3> QED BY <3>1 DEF Part
  <2>2. CASE n = 0
    BY <2>1, <2>2
  <2>3. CASE n # 0
    <3>1. n - 1 \in Nat /\ n - 1 <= n /\ n - 1 <= n - 1
      BY <2>3
    <3>2. part(n)[n - 1] = part(n - 1)[n - 1]
      <4> HIDE DEF part
      <4> QED BY <1>1, <3>1, PartsAgree
    <3>3. all[n] = part(n)[n] /\ all[n - 1] = part(n - 1)[n - 1]
      BY <3>1
    <3> HIDE DEF part, all
    <3> QED BY <2>1, <2>3, <3>2, <3>3
  <2> QED BY <2>2, <2>3
<1>3. IsAll(all)
  <2>1. all = [n \in Nat |-> all[n]]
    OBVIOUS
  <2> HIDE DEF all
  <2> QED BY <1>2, <2>1
<1> DEFINE run == CHOOSE f : IsAll(f)
<1>4. IsAll(run)
  <2> HIDE DEF all, IsAll
  <2> QED BY <1>3
<1>5. LoopFound(nodes, pairs, starts) = run[3 * Len(starts) + 2 * Cardinality(DOMAIN pairs)].loop
  BY DEF LoopFound
<1> HIDE DEF run
<1>6. Steps(run, nodes, pairs, starts)
  <2>1. run[0] = SearchBegin(nodes)
    BY <1>4
  <2>2. ASSUME NEW n \in Nat
        PROVE  run[n + 1] = SearchNext(run[n], pairs, starts)
    <3>1. n + 1 \in Nat /\ n + 1 # 0 /\ (n + 1) - 1 = n
      OBVIOUS
    <3>2. run[n + 1] = IF n + 1 = 0 THEN SearchBegin(nodes) ELSE SearchNext(run[(n + 1) - 1], pairs, starts)
      BY <1>4, <3>1
    <3> QED BY <3>1, <3>2
  <2> QED BY <2>1, <2>2 DEF Steps
<1> QED BY <1>5, <1>6

(* Ascending lists each number of a finite set once.                       *)
Below(S, x) == {m \in S : m < x}

LEMMA Ranks ==
  ASSUME NEW S \in SUBSET Nat, IsFiniteSet(S)
  PROVE  \A k \in 0..(Cardinality(S) - 1) : \E x \in S : Cardinality(Below(S, x)) = k
<1> DEFINE n == Cardinality(S)
           T == 0..(n - 1)
           f == [x \in S |-> Cardinality(Below(S, x))]
<1>1. n \in Nat
  BY FS_CardinalityType
<1>2. \A x : Below(S, x) \in SUBSET S /\ IsFiniteSet(Below(S, x)) /\ Cardinality(Below(S, x)) \in Nat
  <2> TAKE x
  <2>1. Below(S, x) \in SUBSET S
    BY DEF Below
  <2> QED BY <2>1, FS_Subset, FS_CardinalityType
<1>3. ASSUME NEW x \in S
      PROVE  Cardinality(Below(S, x)) \in T
  <2>1. x \notin Below(S, x)
    BY DEF Below
  <2>2. Cardinality(Below(S, x)) <= n /\ Cardinality(Below(S, x)) # n
    BY <1>2, <2>1, FS_Subset
  <2> QED BY <1>1, <1>2, <2>2
<1>4. ASSUME NEW x \in S, NEW y \in S, x < y
      PROVE  Cardinality(Below(S, x)) < Cardinality(Below(S, y))
  <2>1. Below(S, x) \in SUBSET Below(S, y) /\ x \in Below(S, y) /\ x \notin Below(S, x)
    <3>1. x \in Nat /\ y \in Nat /\ x < y
      BY <1>4
    <3>2. \A m \in Nat : m < x => m < y
      BY <3>1
    <3>3. ~(x < x)
      BY <3>1
    <3> QED BY <3>1, <3>2, <3>3 DEF Below
  <2>2. /\ Cardinality(Below(S, x)) <= Cardinality(Below(S, y))
        /\ Cardinality(Below(S, x)) # Cardinality(Below(S, y))
    BY <1>2, <2>1, FS_Subset
  <2> QED BY <1>2, <2>2
<1>5. ASSUME NEW x \in S, NEW y \in S, Cardinality(Below(S, x)) = Cardinality(Below(S, y))
      PROVE  x = y
  <2>1. ~(x < y) /\ ~(y < x)
    BY <1>2, <1>4, <1>5
  <2> QED BY <2>1
<1>6. f \in Injection(S, T)
  <2> HIDE DEF T
  <2> QED BY <1>3, <1>5 DEF Injection, IsInjective
<1>7. IsFiniteSet(T) /\ Cardinality(T) = n
  <2>1. 0 \in Int /\ n - 1 \in Int /\ (IF 0 > n - 1 THEN 0 ELSE (n - 1) - 0 + 1) = n
    BY <1>1
  <2> QED BY <2>1, FS_Interval
<1>8. f \in Surjection(S, T)
  <2> HIDE DEF f, T, n
  <2>1. Cardinality(S) = n
    BY DEF n
  <2> QED BY <1>6, <1>7, <2>1, FS_Injection
<1> QED BY <1>8 DEF Surjection

LEMMA AscendingLists ==
  ASSUME NEW S \in SUBSET Nat, IsFiniteSet(S)
  PROVE  /\ Cardinality(S) \in Nat
         /\ \A k \in 1..Cardinality(S) : Ascending(S)[k] \in S
         /\ \A x \in S : \E k \in 1..Cardinality(S) : Ascending(S)[k] = x
<1> DEFINE n == Cardinality(S)
<1>1. n \in Nat
  BY FS_CardinalityType
<1>2. Ascending(S) = [k \in 1..n |-> CHOOSE x \in S : Cardinality(Below(S, x)) = k - 1]
  BY DEF Ascending, Below
<1>3. \A k \in 1..n : Ascending(S)[k] \in S /\ Cardinality(Below(S, Ascending(S)[k])) = k - 1
  <2> TAKE k \in 1..n
  <2>1. k - 1 \in 0..(n - 1)
    BY <1>1
  <2>2. \E x \in S : Cardinality(Below(S, x)) = k - 1
    BY <2>1, Ranks
  <2>3. Ascending(S)[k] = CHOOSE x \in S : Cardinality(Below(S, x)) = k - 1
    BY <1>2
  <2> QED BY <2>2, <2>3
<1>4. Ascending(S) \in Injection(1..n, S)
  <2>1. \A j, k \in 1..n : Ascending(S)[j] = Ascending(S)[k] => j = k
    <3> SUFFICES ASSUME NEW j \in 1..n, NEW k \in 1..n, Ascending(S)[j] = Ascending(S)[k]
                 PROVE  j = k
      OBVIOUS
    <3>1. j - 1 = k - 1
      BY <1>3
    <3> QED BY <1>1, <3>1
  <2>2. Ascending(S) \in [1..n -> S]
    <3>1. DOMAIN Ascending(S) = 1..n /\ Ascending(S) = [k \in 1..n |-> Ascending(S)[k]]
      BY <1>2
    <3> QED BY <1>3, <3>1
  <2> QED BY <2>1, <2>2 DEF Injection, IsInjective
<1>5. IsFiniteSet(1..n) /\ Cardinality(1..n) = n
  BY <1>1, FS_Interval
<1>6. Ascending(S) \in Surjection(1..n, S)
  <2> HIDE DEF n
  <2>1. Cardinality(S) = n
    BY DEF n
  <2> QED BY <1>4, <1>5, <2>1, FS_Injection
<1>7. \A x \in S : \E k \in 1..n : Ascending(S)[k] = x
  BY <1>6 DEF Surjection
<1> QED BY <1>1, <1>3, <1>7

(* The edges of a search, and where they lead. *)
Leads(pairs, x, y) == \E n \in DOMAIN pairs : pairs[n] = <<x, y>>

Searched(nodes, pairs) ==
  /\ DOMAIN pairs \in SUBSET Nat /\ IsFiniteSet(DOMAIN pairs)
  /\ \A n \in DOMAIN pairs : pairs[n] \in nodes \X nodes

Entry(nodes) == [node : nodes, leave : BOOLEAN]

LEMMA ChildEdges ==
  ASSUME NEW nodes, NEW pairs, Searched(nodes, pairs), NEW v \in nodes
  PROVE  /\ \A n \in ChildrenOf(pairs, v) : pairs[n][2] \in nodes /\ Leads(pairs, v, pairs[n][2])
         /\ \A w : Leads(pairs, v, w) => \E n \in ChildrenOf(pairs, v) : pairs[n][2] = w
<1>1. \A n \in DOMAIN pairs : pairs[n] = <<pairs[n][1], pairs[n][2]>> /\ pairs[n][2] \in nodes
  BY DEF Searched
<1>2. \A n \in ChildrenOf(pairs, v) : pairs[n][2] \in nodes /\ Leads(pairs, v, pairs[n][2])
  BY <1>1 DEF ChildrenOf, Leads
<1>3. \A w : Leads(pairs, v, w) => \E n \in ChildrenOf(pairs, v) : pairs[n][2] = w
  BY <1>1 DEF ChildrenOf, Leads
<1> QED BY <1>2, <1>3

(* What is put on the stack for the nodes that v leads to. *)
LEMMA OpenedEntries ==
  ASSUME NEW nodes, NEW pairs, Searched(nodes, pairs), NEW v \in nodes, NEW mark
  PROVE  LET F == Fresh(mark, pairs, v)
             o == Opened(pairs, F)
         IN  /\ IsFiniteSet(F) /\ F \in SUBSET DOMAIN pairs
             /\ Cardinality(F) \in Nat /\ o \in Seq(Entry(nodes)) /\ Len(o) = Cardinality(F)
             /\ \A k \in 1..Len(o) : /\ ~o[k].leave /\ Leads(pairs, v, o[k].node) /\ mark[o[k].node] = 0
             /\ \A w : Leads(pairs, v, w) /\ mark[w] = 0 => \E k \in 1..Len(o) : o[k].node = w
<1> DEFINE F == Fresh(mark, pairs, v)
           o == Opened(pairs, F)
           c == Cardinality(F)
<1>1. IsFiniteSet(F) /\ F \in SUBSET DOMAIN pairs /\ F \in SUBSET Nat
  <2>1. F \in SUBSET DOMAIN pairs
    BY DEF Fresh, ChildrenOf
  <2> QED BY <2>1, FS_Subset DEF Searched
<1>2. /\ c \in Nat
      /\ \A k \in 1..c : Ascending(F)[k] \in F
      /\ \A x \in F : \E k \in 1..c : Ascending(F)[k] = x
  BY <1>1, AscendingLists
<1>3. /\ \A n \in F : pairs[n][2] \in nodes /\ Leads(pairs, v, pairs[n][2]) /\ mark[pairs[n][2]] = 0
      /\ \A w : Leads(pairs, v, w) /\ mark[w] = 0 => \E n \in F : pairs[n][2] = w
  BY ChildEdges DEF Fresh
<1> HIDE DEF F
<1>4. o = [k \in 1..c |-> [node |-> pairs[Ascending(F)[k]][2], leave |-> FALSE]]
  BY DEF Opened
<1>5. \A k \in 1..c : o[k] \in Entry(nodes) /\ ~o[k].leave /\ o[k].node = pairs[Ascending(F)[k]][2]
  BY <1>2, <1>3, <1>4 DEF Entry
<1>6. o \in Seq(Entry(nodes)) /\ Len(o) = c
  <2>1. o \in [1..c -> Entry(nodes)]
    BY <1>4, <1>5
  <2> HIDE DEF o, c
  <2> QED BY <1>2, <2>1
<1> HIDE DEF o, c
<1>7. \A k \in 1..Len(o) : ~o[k].leave /\ Leads(pairs, v, o[k].node) /\ mark[o[k].node] = 0
  BY <1>2, <1>3, <1>5, <1>6
<1>8. \A w : Leads(pairs, v, w) /\ mark[w] = 0 => \E k \in 1..Len(o) : o[k].node = w
  <2> SUFFICES ASSUME NEW w, Leads(pairs, v, w), mark[w] = 0
               PROVE  \E k \in 1..c : o[k].node = w
    BY <1>6
  <2>1. PICK n \in F : pairs[n][2] = w
    BY <1>3
  <2>2. PICK k \in 1..c : Ascending(F)[k] = n
    BY <1>2
  <2> QED BY <1>5, <2>1, <2>2
<1> QED BY <1>1, <1>2, <1>6, <1>7, <1>8 DEF F, o, c

-----------------------------------------------------------------------------
(* What holds as long as no loop is met.  The nodes marked 1 are those that *)
(* are still to be left, each once; each of them leads to the entries put  *)
(* on the stack for it; where it leads is done with or on the stack above  *)
(* it; no node of a loop is done with; and no start that had its turn is   *)
(* forgotten.                                                              *)
OnPath(st) == {i \in DOMAIN st : st[i].leave}

PathMarked(st, mark, nodes) ==
  /\ \A i, j \in OnPath(st) : st[i].node = st[j].node => i = j
  /\ \A v \in nodes : mark[v] = 1 <=> \E i \in OnPath(st) : st[i].node = v

PathLeads(st, pairs) ==
  \A j \in OnPath(st), i \in DOMAIN st :
    j < i /\ (\A k \in OnPath(st) : ~(j < k /\ k < i)) => Leads(pairs, st[j].node, st[i].node)

Waiting(st, mark, nodes, pairs) ==
  \A i \in OnPath(st), w \in nodes :
    Leads(pairs, st[i].node, w) => mark[w] = 2 \/ \E k \in DOMAIN st : i < k /\ st[k].node = w

Looping(S, pairs) == \A x \in S : \E y \in S : Leads(pairs, x, y)

Settled(mark, nodes, pairs) ==
  \A S \in SUBSET nodes : Looping(S, pairs) => \A v \in S : mark[v] # 2

Begun(at, st, mark, starts) ==
  \A i \in 1..at : mark[starts[i]] = 2 \/ \E k \in DOMAIN st : st[k].node = starts[i]

Searching(at, st, mark, nodes, pairs, starts) ==
  /\ PathMarked(st, mark, nodes) /\ PathLeads(st, pairs) /\ Waiting(st, mark, nodes, pairs)
  /\ Settled(mark, nodes, pairs) /\ Begun(at, st, mark, starts)

LEMMA Stacks ==
  ASSUME NEW nodes, NEW st \in Seq(Entry(nodes))
  PROVE  /\ Len(st) \in Nat /\ DOMAIN st = 1..Len(st)
         /\ \A i \in 1..Len(st) : st[i].node \in nodes /\ st[i].leave \in BOOLEAN
         /\ Len(st) = 0 <=> st = <<>>
<1>1. \A e \in Entry(nodes) : e.node \in nodes /\ e.leave \in BOOLEAN
  BY DEF Entry
<1>2. Len(st) \in Nat /\ DOMAIN st = 1..Len(st) /\ \A i \in 1..Len(st) : st[i] \in Entry(nodes)
  OBVIOUS
<1>3. Len(st) = 0 <=> st = <<>>
  OBVIOUS
<1> QED BY <1>1, <1>2, <1>3

LEMMA Popping ==
  ASSUME NEW nodes, NEW st \in Seq(Entry(nodes)), st # <<>>
  PROVE  LET rest == SubSeq(st, 1, Len(st) - 1)
         IN  /\ Len(st) \in Nat /\ Len(st) >= 1 /\ rest \in Seq(Entry(nodes))
             /\ Len(rest) = Len(st) - 1 /\ DOMAIN rest = 1..(Len(st) - 1)
             /\ \A i \in 1..(Len(st) - 1) : rest[i] = st[i]
<1> DEFINE n == Len(st) - 1
<1>1. Len(st) \in Nat /\ Len(st) >= 1 /\ n \in Int /\ 1 \in Int /\ \A i \in 1..n : st[i] \in Entry(nodes)
  <2>1. Len(st) \in Nat /\ Len(st) >= 1
    BY Stacks
  <2> QED BY <2>1
<1> HIDE DEF n
<1>2. /\ SubSeq(st, 1, n) \in Seq(Entry(nodes))
      /\ Len(SubSeq(st, 1, n)) = IF 1 <= n THEN n - 1 + 1 ELSE 0
      /\ \A i \in 1..(n - 1 + 1) : SubSeq(st, 1, n)[i] = st[1 + i - 1]
  BY <1>1, SubSeqProperties
<1> DEFINE rest == SubSeq(st, 1, n)
<1> HIDE DEF rest
<1>3. Len(rest) = n /\ \A i \in 1..n : rest[i] = st[i]
  <2>1. n = Len(st) - 1 /\ \A i \in 1..n : 1 + i - 1 = i /\ i \in 1..(n - 1 + 1)
    BY <1>1 DEF n
  <2> QED BY <1>1, <1>2, <2>1 DEF rest
<1>4. rest \in Seq(Entry(nodes)) /\ DOMAIN rest = 1..n
  <2>1. rest \in Seq(Entry(nodes))
    BY <1>2 DEF rest
  <2> QED BY <1>3, <2>1
<1> QED BY <1>1, <1>3, <1>4 DEF rest, n

(* The top of a stack gives way to an entry and some more.                 *)
Grow(st, e, o) == SubSeq(st, 1, Len(st) - 1) \o <<e>> \o o

Grown(t, st, e, o, nodes) ==
  /\ t \in Seq(Entry(nodes)) /\ Len(t) = Len(st) + Len(o) /\ DOMAIN t = 1..(Len(st) + Len(o))
  /\ \A i \in 1..(Len(st) - 1) : t[i] = st[i]
  /\ t[Len(st)] = e
  /\ \A k \in 1..Len(o) : t[Len(st) + k] = o[k]

LEMMA Growing ==
  ASSUME NEW nodes, NEW st \in Seq(Entry(nodes)), st # <<>>, NEW e \in Entry(nodes), NEW o \in Seq(Entry(nodes))
  PROVE  Grown(Grow(st, e, o), st, e, o, nodes)
<1> DEFINE L == Len(st)
           rest == SubSeq(st, 1, L - 1)
           mid == rest \o <<e>>
           st2 == mid \o o
<1>1. /\ L \in Nat /\ L >= 1 /\ rest \in Seq(Entry(nodes)) /\ Len(rest) = L - 1
      /\ \A i \in 1..(L - 1) : rest[i] = st[i]
  BY Popping
<1> HIDE DEF rest, L
<1>2. mid \in Seq(Entry(nodes)) /\ Len(mid) = L /\ (\A i \in 1..(L - 1) : mid[i] = rest[i]) /\ mid[L] = e
  BY <1>1
<1> HIDE DEF mid
<1>3. Len(o) \in Nat
  OBVIOUS
<1>4. st2 \in Seq(Entry(nodes)) /\ Len(st2) = L + Len(o)
  BY <1>1, <1>2, <1>3
<1>5. (\A i \in 1..L : st2[i] = mid[i]) /\ \A k \in 1..Len(o) : st2[L + k] = o[k]
  BY <1>1, <1>2, <1>3
<1> HIDE DEF st2
<1>6. DOMAIN st2 = 1..(L + Len(o))
  BY <1>4
<1>7. \A i \in 1..(L - 1) : i \in 1..L
  BY <1>1
<1>8. \A i \in 1..(L - 1) : st2[i] = st[i]
  BY <1>1, <1>2, <1>5, <1>7
<1>9. st2[L] = e
  <2>1. L \in 1..L
    BY <1>1
  <2> QED BY <1>2, <1>5, <2>1
<1>10. Grown(st2, st, e, o, nodes)
  BY <1>4, <1>5, <1>6, <1>8, <1>9 DEF Grown, L
<1>11. st2 = Grow(st, e, o)
  BY DEF Grow, st2, mid, rest, L
<1> QED BY <1>10, <1>11

(* A node is left. *)
LEMMA LeaveStep ==
  ASSUME NEW nodes, NEW pairs, NEW starts, NEW at \in Nat, NEW st \in Seq(Entry(nodes)), st # <<>>,
         NEW mark \in [nodes -> 0..2], Searching(at, st, mark, nodes, pairs, starts),
         \A i \in 1..at : starts[i] \in nodes,
         st[Len(st)].leave
  PROVE  Searching(at, SubSeq(st, 1, Len(st) - 1), [mark EXCEPT ![st[Len(st)].node] = 2], nodes, pairs, starts)
<1> DEFINE L == Len(st)
           v == st[L].node
           rest == SubSeq(st, 1, L - 1)
           mark2 == [mark EXCEPT ![v] = 2]
<1>1. /\ L \in Nat /\ L >= 1 /\ DOMAIN st = 1..L /\ DOMAIN rest = 1..(L - 1) /\ L \in 1..L
      /\ \A i \in 1..(L - 1) : rest[i] = st[i] /\ i \in 1..L /\ i # L /\ i < L
      /\ \A i \in 1..L : i # L => i \in 1..(L - 1)
  <2>1. L \in Nat /\ L >= 1 /\ DOMAIN st = 1..L /\ DOMAIN rest = 1..(L - 1) /\ \A i \in 1..(L - 1) : rest[i] = st[i]
    BY Popping, Stacks
  <2> HIDE DEF L, rest
  <2> QED BY <2>1
<1>2. v \in nodes /\ mark2[v] = 2 /\ \A w \in nodes : w # v => mark2[w] = mark[w]
  BY <1>1, Stacks
<1>3. OnPath(rest) = OnPath(st) \ {L} /\ L \in OnPath(st)
  <2> HIDE DEF L, rest
  <2> QED BY <1>1 DEF OnPath, L
<1>4. \A i \in OnPath(rest) : i \in OnPath(st) /\ i # L /\ i \in 1..(L - 1) /\ rest[i] = st[i]
  <2> HIDE DEF L, rest
  <2> QED BY <1>1, <1>3 DEF OnPath
<1>5. \A w \in nodes : mark[w] = 2 => mark2[w] = 2
  BY <1>2
<1>6. /\ PathMarked(st, mark, nodes) /\ PathLeads(st, pairs) /\ Waiting(st, mark, nodes, pairs)
      /\ Settled(mark, nodes, pairs) /\ Begun(at, st, mark, starts)
  BY DEF Searching
<1>7. v = st[L].node
  OBVIOUS
<1> HIDE DEF L, v, rest, mark2
<1>8. PathMarked(rest, mark2, nodes)
  <2>1. ASSUME NEW w \in nodes
        PROVE  mark2[w] = 1 <=> \E i \in OnPath(rest) : rest[i].node = w
    <3>1. CASE w = v
      BY <1>2, <1>3, <1>4, <1>6, <1>7, <3>1 DEF PathMarked
    <3>2. CASE w # v
      BY <1>2, <1>3, <1>4, <1>6, <1>7, <3>2 DEF PathMarked
    <3> QED BY <3>1, <3>2
  <2>2. \A i, j \in OnPath(rest) : rest[i].node = rest[j].node => i = j
    BY <1>4, <1>6 DEF PathMarked
  <2> QED BY <2>1, <2>2 DEF PathMarked
<1>9. PathLeads(rest, pairs)
  <2> SUFFICES ASSUME NEW j \in OnPath(rest), NEW i \in DOMAIN rest, j < i,
                      \A k \in OnPath(rest) : ~(j < k /\ k < i)
               PROVE  Leads(pairs, rest[j].node, rest[i].node)
    BY DEF PathLeads
  <2>1. i \in DOMAIN st /\ i < L /\ i \in Int /\ L \in Int /\ rest[i] = st[i] /\ rest[j] = st[j] /\ j \in OnPath(st)
    BY <1>1, <1>4
  <2>2. ~(L < i)
    BY <2>1
  <2>3. \A k \in OnPath(st) : ~(j < k /\ k < i)
    BY <1>3, <2>2
  <2> QED BY <1>6, <2>1, <2>3 DEF PathLeads
<1>10. Waiting(rest, mark2, nodes, pairs)
  <2> SUFFICES ASSUME NEW i \in OnPath(rest), NEW w \in nodes, Leads(pairs, rest[i].node, w), mark2[w] # 2
               PROVE  \E k \in DOMAIN rest : i < k /\ rest[k].node = w
    BY DEF Waiting
  <2>1. w # v /\ mark[w] # 2
    BY <1>2, <1>5
  <2>2. PICK k \in DOMAIN st : i < k /\ st[k].node = w
    BY <1>4, <1>6, <2>1 DEF Waiting
  <2>3. k # L
    BY <1>7, <2>1, <2>2
  <2> QED BY <1>1, <2>2, <2>3
<1>11. Settled(mark2, nodes, pairs)
  <2> SUFFICES ASSUME NEW S \in SUBSET nodes, Looping(S, pairs), NEW x \in S, mark2[x] = 2
               PROVE  FALSE
    BY DEF Settled
  <2>1. \A y \in S : mark[y] # 2
    BY <1>6 DEF Settled
  <2>2. x = v
    BY <1>2, <2>1
  <2>3. PICK y \in S : Leads(pairs, v, y)
    BY <2>2 DEF Looping
  <2>4. PICK k \in DOMAIN st : L < k
    BY <1>3, <1>6, <1>7, <2>1, <2>3 DEF Waiting
  <2> QED BY <1>1, <2>4
<1>12. Begun(at, rest, mark2, starts)
  <2> SUFFICES ASSUME NEW i \in 1..at, mark2[starts[i]] # 2
               PROVE  \E k \in DOMAIN rest : rest[k].node = starts[i]
    BY DEF Begun
  <2>1. starts[i] # v /\ mark[starts[i]] # 2
    BY <1>2, <1>5
  <2>2. PICK k \in DOMAIN st : st[k].node = starts[i]
    BY <1>6, <2>1 DEF Begun
  <2>3. k # L
    BY <1>7, <2>1, <2>2
  <2> QED BY <1>1, <2>2, <2>3
<1> QED BY <1>8, <1>9, <1>10, <1>11, <1>12 DEF Searching, L, v, rest, mark2

(* A node that is done with is taken off. *)
LEMMA SkipStep ==
  ASSUME NEW nodes, NEW pairs, NEW starts, NEW at \in Nat, NEW st \in Seq(Entry(nodes)), st # <<>>,
         NEW mark \in [nodes -> 0..2], Searching(at, st, mark, nodes, pairs, starts),
         ~st[Len(st)].leave, mark[st[Len(st)].node] = 2
  PROVE  Searching(at, SubSeq(st, 1, Len(st) - 1), mark, nodes, pairs, starts)
<1> DEFINE L == Len(st)
           rest == SubSeq(st, 1, L - 1)
<1>1. /\ L \in Nat /\ L >= 1 /\ DOMAIN st = 1..L /\ DOMAIN rest = 1..(L - 1) /\ L \in 1..L
      /\ \A i \in 1..(L - 1) : rest[i] = st[i] /\ i \in 1..L /\ i # L /\ i < L
      /\ \A i \in 1..L : i # L => i \in 1..(L - 1)
  <2>1. L \in Nat /\ L >= 1 /\ DOMAIN st = 1..L /\ DOMAIN rest = 1..(L - 1) /\ \A i \in 1..(L - 1) : rest[i] = st[i]
    BY Popping, Stacks
  <2> HIDE DEF L, rest
  <2> QED BY <2>1
<1>2. /\ PathMarked(st, mark, nodes) /\ PathLeads(st, pairs) /\ Waiting(st, mark, nodes, pairs)
      /\ Settled(mark, nodes, pairs) /\ Begun(at, st, mark, starts)
      /\ ~st[L].leave /\ mark[st[L].node] = 2
  BY DEF Searching
<1> HIDE DEF L, rest
<1>3. OnPath(rest) = OnPath(st) /\ \A i \in OnPath(st) : i \in DOMAIN rest /\ rest[i] = st[i]
  BY <1>1, <1>2 DEF OnPath
<1>4. PathMarked(rest, mark, nodes)
  BY <1>2, <1>3 DEF PathMarked
<1>5. PathLeads(rest, pairs)
  BY <1>1, <1>2, <1>3 DEF PathLeads
<1>6. Waiting(rest, mark, nodes, pairs)
  <2> SUFFICES ASSUME NEW i \in OnPath(rest), NEW w \in nodes, Leads(pairs, rest[i].node, w), mark[w] # 2
               PROVE  \E k \in DOMAIN rest : i < k /\ rest[k].node = w
    BY DEF Waiting
  <2>1. PICK k \in DOMAIN st : i < k /\ st[k].node = w
    BY <1>2, <1>3 DEF Waiting
  <2>2. k # L
    BY <1>2, <2>1
  <2> QED BY <1>1, <2>1, <2>2
<1>7. Begun(at, rest, mark, starts)
  <2> SUFFICES ASSUME NEW i \in 1..at, mark[starts[i]] # 2
               PROVE  \E k \in DOMAIN rest : rest[k].node = starts[i]
    BY DEF Begun
  <2>1. PICK k \in DOMAIN st : st[k].node = starts[i]
    BY <1>2 DEF Begun
  <2>2. k # L
    BY <1>2, <2>1
  <2> QED BY <1>1, <2>1, <2>2
<1> QED BY <1>2, <1>4, <1>5, <1>6, <1>7 DEF Searching, L, rest

(* A node is visited: it is on the path from now on, and its children are  *)
(* put above it. *)
LEMMA GrowStep ==
  ASSUME NEW nodes, NEW pairs, Searched(nodes, pairs), NEW starts, NEW at \in Nat,
         NEW st \in Seq(Entry(nodes)), st # <<>>,
         NEW mark \in [nodes -> 0..2], Searching(at, st, mark, nodes, pairs, starts),
         \A i \in 1..at : starts[i] \in nodes,
         NEW v, v = st[Len(st)].node, ~st[Len(st)].leave, mark[v] = 0,
         NEW mark2, mark2 = [mark EXCEPT ![v] = 1],
         \A w \in nodes : Leads(pairs, v, w) => mark2[w] # 1,
         NEW o \in Seq(Entry(nodes)),
         \A k \in 1..Len(o) : ~o[k].leave /\ Leads(pairs, v, o[k].node),
         \A w \in nodes : Leads(pairs, v, w) /\ mark2[w] = 0 => \E k \in 1..Len(o) : o[k].node = w
  PROVE  Searching(at, Grow(st, [node |-> v, leave |-> TRUE], o), mark2, nodes, pairs, starts)
<1> DEFINE L == Len(st)
           e == [node |-> v, leave |-> TRUE]
           st2 == Grow(st, e, o)
           M == Len(o)
<1>1. L \in Nat /\ L >= 1 /\ DOMAIN st = 1..L /\ v \in nodes /\ M \in Nat
  <2>1. L \in Nat /\ L >= 1 /\ DOMAIN st = 1..L
    BY Popping, Stacks
  <2> HIDE DEF L
  <2>2. L \in 1..L
    BY <2>1
  <2> QED BY <2>1, <2>2, Stacks DEF L
<1>2. e \in Entry(nodes) /\ e.node = v /\ e.leave
  BY <1>1 DEF Entry
<1> HIDE DEF e
<1>3. /\ DOMAIN st2 = 1..(L + M)
      /\ \A i \in 1..(L - 1) : st2[i] = st[i]
      /\ st2[L] = e
      /\ \A k \in 1..M : st2[L + k] = o[k]
  <2>1. Grown(st2, st, e, o, nodes)
    BY <1>2, Growing
  <2> HIDE DEF st2
  <2> QED BY <2>1 DEF Grown
<1>4. ~st[L].leave /\ st[L].node = v
  OBVIOUS
<1>5. /\ \A k \in 1..M : ~o[k].leave /\ Leads(pairs, v, o[k].node)
      /\ \A w \in nodes : Leads(pairs, v, w) /\ mark2[w] = 0 => \E k \in 1..M : o[k].node = w
  OBVIOUS
<1> HIDE DEF st2, L, M
<1>6. mark2[v] = 1 /\ \A w \in nodes : w # v => mark2[w] = mark[w]
  BY <1>1
<1>7. \A w \in nodes : mark2[w] = 2 <=> mark[w] = 2
  BY <1>1, <1>6
<1>8. /\ \A i \in 1..L : i \in 1..(L + M) /\ (i = L \/ i \in 1..(L - 1))
      /\ \A i \in 1..(L + M) : i \in 1..L \/ (i > L /\ i - L \in 1..M /\ L + (i - L) = i)
      /\ \A k \in 1..M : L + k \in 1..(L + M) /\ L < L + k
      /\ L \in 1..L /\ L \in 1..(L + M) /\ ~(L < L) /\ \A i \in 1..(L - 1) : i \in 1..L /\ i < L /\ i # L
  BY <1>1
<1>9. \A i \in 1..L : st2[i].node = st[i].node
  BY <1>2, <1>3, <1>4, <1>8
<1>10. OnPath(st2) = OnPath(st) \cup {L}
  <2>1. ASSUME NEW i \in OnPath(st2)
        PROVE  i \in OnPath(st) \cup {L}
    <3>1. i \in 1..(L + M) /\ st2[i].leave
      BY <1>3 DEF OnPath
    <3>2. CASE i \in 1..L
      BY <1>1, <1>3, <1>8, <3>1, <3>2 DEF OnPath
    <3>3. CASE i > L /\ i - L \in 1..M /\ L + (i - L) = i
      <4>1. st2[i] = o[i - L]
        BY <1>3, <3>3
      <4> QED BY <1>5, <3>1, <3>3, <4>1
    <3> QED BY <1>8, <3>1, <3>2, <3>3
  <2>2. ASSUME NEW i \in OnPath(st)
        PROVE  i \in OnPath(st2)
    BY <1>1, <1>3, <1>4, <1>8 DEF OnPath
  <2>3. L \in OnPath(st2)
    BY <1>2, <1>3, <1>8 DEF OnPath
  <2> QED BY <2>1, <2>2, <2>3
<1>11. \A i \in OnPath(st) : i \in 1..(L - 1) /\ i \in 1..L /\ i < L /\ i # L
  BY <1>1, <1>4, <1>8 DEF OnPath
<1>12. /\ PathMarked(st, mark, nodes) /\ PathLeads(st, pairs) /\ Waiting(st, mark, nodes, pairs)
       /\ Settled(mark, nodes, pairs) /\ Begun(at, st, mark, starts)
  BY DEF Searching
<1>13. \A i \in OnPath(st) : st[i].node # v /\ st2[i].node = st[i].node
  BY <1>1, <1>9, <1>11, <1>12 DEF PathMarked
<1>14. st2[L].node = v
  BY <1>2, <1>3
<1>15. PathMarked(st2, mark2, nodes)
  <2>1. \A i, j \in OnPath(st2) : st2[i].node = st2[j].node => i = j
    BY <1>10, <1>12, <1>13, <1>14 DEF PathMarked
  <2>2. ASSUME NEW w \in nodes
        PROVE  mark2[w] = 1 <=> \E i \in OnPath(st2) : st2[i].node = w
    <3>1. CASE w = v
      BY <1>6, <1>10, <1>14, <3>1
    <3>2. CASE w # v
      <4>1. mark2[w] = 1 <=> \E i \in OnPath(st) : st[i].node = w
        BY <1>6, <1>12, <3>2 DEF PathMarked
      <4>2. (\E i \in OnPath(st2) : st2[i].node = w) <=> \E i \in OnPath(st) : st2[i].node = w
        BY <1>10, <1>14, <3>2
      <4> QED BY <1>13, <4>1, <4>2
    <3> QED BY <3>1, <3>2
  <2> QED BY <2>1, <2>2 DEF PathMarked
<1>16. PathLeads(st2, pairs)
  <2> SUFFICES ASSUME NEW j \in OnPath(st2), NEW i \in DOMAIN st2, j < i,
                      \A k \in OnPath(st2) : ~(j < k /\ k < i)
               PROVE  Leads(pairs, st2[j].node, st2[i].node)
    BY DEF PathLeads
  <2>1. CASE i \in 1..L
    <3>1. j # L
      BY <1>1, <2>1
    <3>2. j \in OnPath(st) /\ \A k \in OnPath(st) : ~(j < k /\ k < i)
      BY <1>10, <3>1
    <3> QED BY <1>1, <1>9, <1>12, <1>13, <2>1, <3>2 DEF PathLeads
  <2>2. CASE i > L /\ i - L \in 1..M /\ L + (i - L) = i
    <3>1. j = L
      <4>1. L \in OnPath(st2) /\ L < i
        BY <1>1, <1>3, <1>10, <2>2
      <4>2. ~(j < L)
        BY <4>1
      <4> QED BY <1>10, <1>11, <4>2
    <3>2. st2[i] = o[i - L]
      BY <1>3, <2>2
    <3> QED BY <1>5, <1>14, <2>2, <3>1, <3>2
  <2> QED BY <1>3, <1>8, <2>1, <2>2
<1>17. Waiting(st2, mark2, nodes, pairs)
  <2> SUFFICES ASSUME NEW i \in OnPath(st2), NEW w \in nodes, Leads(pairs, st2[i].node, w), mark2[w] # 2
               PROVE  \E k \in DOMAIN st2 : i < k /\ st2[k].node = w
    BY DEF Waiting
  <2>1. CASE i = L
    <3>1. mark2[w] = 0
      <4>1. mark2[w] \in 0..2 /\ mark2[w] # 1
        BY <1>1, <1>14, <2>1
      <4> QED BY <4>1
    <3>2. PICK k \in 1..M : o[k].node = w
      BY <1>5, <1>14, <2>1, <3>1
    <3> QED BY <1>3, <1>8, <2>1, <3>2
  <2>2. CASE i \in OnPath(st)
    <3>1. Leads(pairs, st[i].node, w) /\ mark[w] # 2
      BY <1>7, <1>13, <2>2
    <3>2. PICK k \in DOMAIN st : i < k /\ st[k].node = w
      BY <1>12, <2>2, <3>1 DEF Waiting
    <3> QED BY <1>1, <1>3, <1>8, <1>9, <3>2
  <2> QED BY <1>10, <2>1, <2>2
<1>18. Settled(mark2, nodes, pairs)
  BY <1>7, <1>12 DEF Settled
<1>19. Begun(at, st2, mark2, starts)
  <2> SUFFICES ASSUME NEW i \in 1..at, mark2[starts[i]] # 2
               PROVE  \E k \in DOMAIN st2 : st2[k].node = starts[i]
    BY DEF Begun
  <2>1. PICK k \in DOMAIN st : st[k].node = starts[i]
    BY <1>7, <1>12 DEF Begun
  <2> QED BY <1>1, <1>3, <1>8, <1>9, <2>1
<1> QED BY <1>15, <1>16, <1>17, <1>18, <1>19 DEF Searching, st2, L, e

(* The path from an entry up, closed by the last of it. *)
LEMMA PathCloses ==
  ASSUME NEW nodes, NEW pairs, NEW st \in Seq(Entry(nodes)), PathLeads(st, pairs), NEW m \in OnPath(st),
         \A j \in OnPath(st) : (\A k \in OnPath(st) : ~(j < k)) => Leads(pairs, st[j].node, st[m].node)
  PROVE  \E S \in SUBSET nodes : S # {} /\ Looping(S, pairs)
<1> DEFINE U == {j \in OnPath(st) : m <= j}
           S == {st[j].node : j \in U}
<1>1. OnPath(st) \in SUBSET Nat /\ OnPath(st) \in SUBSET DOMAIN st /\ m \in Nat
  BY Stacks DEF OnPath
<1>2. S \in SUBSET nodes /\ st[m].node \in S
  <2>1. m \in U
    BY <1>1
  <2>2. \A j \in U : st[j].node \in nodes
    BY Stacks DEF OnPath
  <2> HIDE DEF U
  <2> QED BY <2>1, <2>2
<1>3. ASSUME NEW j \in U
      PROVE  \E y \in S : Leads(pairs, st[j].node, y)
  <2>1. CASE \A k \in OnPath(st) : ~(j < k)
    BY <1>2, <2>1
  <2>2. CASE \E k \in OnPath(st) : j < k
    <3> DEFINE T == {k \in OnPath(st) : j < k}
    <3>1. T \in SUBSET Nat /\ T # {}
      BY <1>1, <2>2
    <3>2. PICK k \in T : \A i \in T : k <= i
      <4> HIDE DEF T
      <4> QED BY <3>1, LeastNumber
    <3>3. j < k /\ k \in OnPath(st) /\ j \in Nat /\ k \in Nat /\ m <= j
      BY <1>1
    <3>4. \A i \in OnPath(st) : ~(j < i /\ i < k)
      BY <1>1, <3>2, <3>3
    <3>5. Leads(pairs, st[j].node, st[k].node)
      BY <1>1, <3>3, <3>4 DEF PathLeads
    <3>6. k \in U
      BY <1>1, <3>3
    <3> HIDE DEF U
    <3> QED BY <3>5, <3>6
  <2> QED BY <2>1, <2>2
<1>4. Looping(S, pairs)
  <2> HIDE DEF U
  <2> QED BY <1>3 DEF Looping
<1> HIDE DEF S
<1> QED BY <1>2, <1>4

(* The node to be visited is on the path. *)
LEMMA TopRepeats ==
  ASSUME NEW nodes, NEW pairs, NEW starts, NEW at \in Nat, NEW st \in Seq(Entry(nodes)), st # <<>>,
         NEW mark \in [nodes -> 0..2], Searching(at, st, mark, nodes, pairs, starts),
         ~st[Len(st)].leave, mark[st[Len(st)].node] = 1
  PROVE  \E S \in SUBSET nodes : S # {} /\ Looping(S, pairs)
<1> DEFINE L == Len(st)
<1>1. L \in Nat /\ L >= 1 /\ DOMAIN st = 1..L /\ L \in 1..L /\ st[L].node \in nodes
  <2>1. L \in Nat /\ L >= 1 /\ DOMAIN st = 1..L
    BY Popping, Stacks
  <2> HIDE DEF L
  <2>2. L \in 1..L
    BY <2>1
  <2> QED BY <2>1, <2>2, Stacks DEF L
<1>2. PICK m \in OnPath(st) : st[m].node = st[L].node
  BY <1>1 DEF Searching, PathMarked
<1>3. ASSUME NEW j \in OnPath(st), \A k \in OnPath(st) : ~(j < k)
      PROVE  Leads(pairs, st[j].node, st[m].node)
  <2>1. j \in 1..L /\ j # L
    BY <1>1 DEF OnPath
  <2> HIDE DEF L
  <2>2. j < L
    BY <1>1, <2>1
  <2> QED BY <1>1, <1>2, <1>3, <2>2 DEF Searching, PathLeads
<1> HIDE DEF L
<1> QED BY <1>3, PathCloses DEF Searching

(* The node visited leads to itself or to one on the path. *)
LEMMA ChildRepeats ==
  ASSUME NEW nodes, NEW pairs, NEW starts, NEW at \in Nat, NEW st \in Seq(Entry(nodes)), st # <<>>,
         NEW mark \in [nodes -> 0..2], Searching(at, st, mark, nodes, pairs, starts),
         NEW v, v = st[Len(st)].node, ~st[Len(st)].leave, mark[v] = 0,
         NEW w \in nodes, Leads(pairs, v, w), [mark EXCEPT ![v] = 1][w] = 1
  PROVE  \E S \in SUBSET nodes : S # {} /\ Looping(S, pairs)
<1> DEFINE L == Len(st)
           e == [node |-> v, leave |-> TRUE]
           st2 == [st EXCEPT ![L] = e]
<1>1. L \in Nat /\ L >= 1 /\ DOMAIN st = 1..L /\ L \in 1..L /\ v \in nodes
  <2>1. L \in Nat /\ L >= 1 /\ DOMAIN st = 1..L
    BY Popping, Stacks
  <2> HIDE DEF L
  <2>2. L \in 1..L
    BY <2>1
  <2> QED BY <2>1, <2>2, Stacks DEF L
<1>2. e \in Entry(nodes) /\ e.node = v /\ e.leave
  BY <1>1 DEF Entry
<1>3. ~st[L].leave /\ st[L].node = v
  OBVIOUS
<1> HIDE DEF e
<1>4. st2 \in Seq(Entry(nodes)) /\ DOMAIN st2 = 1..L /\ st2[L] = e /\ \A i \in 1..L : i # L => st2[i] = st[i]
  <2>1. st \in [1..L -> Entry(nodes)]
    OBVIOUS
  <2> HIDE DEF L
  <2>2. st2 \in [1..L -> Entry(nodes)]
    BY <1>2, <2>1
  <2>3. st2 \in Seq(Entry(nodes))
    <3> HIDE DEF st2
    <3> QED BY <1>1, <2>2
  <2> QED BY <1>1, <2>1, <2>3
<1> HIDE DEF st2, L
<1>5. \A i \in 1..L : st2[i].node = st[i].node
  BY <1>2, <1>3, <1>4
<1>6. OnPath(st2) = OnPath(st) \cup {L} /\ L \notin OnPath(st) /\ OnPath(st) \in SUBSET 1..L
  BY <1>1, <1>2, <1>3, <1>4 DEF OnPath
<1>7. PathLeads(st2, pairs)
  <2> SUFFICES ASSUME NEW j \in OnPath(st2), NEW i \in DOMAIN st2, j < i,
                      \A k \in OnPath(st2) : ~(j < k /\ k < i)
               PROVE  Leads(pairs, st2[j].node, st2[i].node)
    BY DEF PathLeads
  <2>1. i \in 1..L /\ j # L
    <3>1. i \in 1..L /\ i <= L
      BY <1>1, <1>4
    <3> QED BY <1>1, <3>1
  <2>2. j \in OnPath(st) /\ j \in 1..L /\ \A k \in OnPath(st) : ~(j < k /\ k < i)
    BY <1>6, <2>1
  <2> QED BY <1>1, <1>5, <2>1, <2>2 DEF Searching, PathLeads
<1>8. PICK m \in OnPath(st2) : st2[m].node = w
  <2>1. CASE w = v
    BY <1>2, <1>4, <1>6, <2>1
  <2>2. CASE w # v
    <3>1. mark[w] = 1
      BY <2>2
    <3>2. PICK m \in OnPath(st) : st[m].node = w
      BY <3>1 DEF Searching, PathMarked
    <3> QED BY <1>5, <1>6, <3>2
  <2> QED BY <2>1, <2>2
<1>9. ASSUME NEW j \in OnPath(st2), \A k \in OnPath(st2) : ~(j < k)
      PROVE  Leads(pairs, st2[j].node, st2[m].node)
  <2>1. j = L
    <3>1. j \in 1..L /\ ~(j < L)
      BY <1>1, <1>6, <1>9
    <3> QED BY <1>1, <3>1
  <2> QED BY <1>2, <1>4, <1>8, <2>1
<1> QED BY <1>4, <1>7, <1>9, PathCloses

-----------------------------------------------------------------------------
(* A state of the search, and what it has found.                           *)
SearchState(nodes, starts) ==
  [at : 0..Len(starts), stack : Seq(Entry(nodes)), mark : [nodes -> 0..2], loop : BOOLEAN]

SearchInv(s, nodes, pairs, starts) ==
  /\ s \in SearchState(nodes, starts)
  /\ s.loop => \E S \in SUBSET nodes : S # {} /\ Looping(S, pairs)
  /\ ~s.loop => Searching(s.at, s.stack, s.mark, nodes, pairs, starts)

Over(s, starts) == s.loop \/ (s.stack = <<>> /\ s.at = Len(starts))

(* How many steps are left: what was not started from, what is on the      *)
(* stack, twice if it is to be visited, and the edges of nodes not seen.   *)
ToVisit(st) == {i \in DOMAIN st : ~st[i].leave}
Unseen(mark, pairs) == {n \in DOMAIN pairs : mark[pairs[n][1]] = 0}
StepsLeft(at, st, mark, pairs, starts) ==
  3 * (Len(starts) - at) + Len(st) + Cardinality(ToVisit(st)) + 2 * Cardinality(Unseen(mark, pairs))

LEMMA Counts ==
  ASSUME NEW nodes, NEW pairs, Searched(nodes, pairs), NEW st \in Seq(Entry(nodes)), NEW mark
  PROVE  /\ IsFiniteSet(ToVisit(st)) /\ Cardinality(ToVisit(st)) \in Nat
         /\ IsFiniteSet(Unseen(mark, pairs)) /\ Cardinality(Unseen(mark, pairs)) \in Nat
<1>1. IsFiniteSet(DOMAIN st)
  <2>1. DOMAIN st = 1..Len(st) /\ Len(st) \in Int /\ 1 \in Int
    OBVIOUS
  <2> QED BY <2>1, FS_Interval
<1>2. ToVisit(st) \in SUBSET DOMAIN st /\ Unseen(mark, pairs) \in SUBSET DOMAIN pairs
  BY DEF ToVisit, Unseen
<1>3. IsFiniteSet(ToVisit(st)) /\ IsFiniteSet(Unseen(mark, pairs))
  BY <1>1, <1>2, FS_Subset DEF Searched
<1> QED BY <1>3, FS_CardinalityType

(* An entry less. *)
LEMMA PopCounts ==
  ASSUME NEW nodes, NEW pairs, Searched(nodes, pairs), NEW st \in Seq(Entry(nodes)), st # <<>>
  PROVE  Cardinality(ToVisit(SubSeq(st, 1, Len(st) - 1)))
           = Cardinality(ToVisit(st)) - (IF st[Len(st)].leave THEN 0 ELSE 1)
<1> DEFINE L == Len(st)
           rest == SubSeq(st, 1, L - 1)
<1>1. /\ L \in Nat /\ L >= 1 /\ DOMAIN st = 1..L /\ DOMAIN rest = 1..(L - 1) /\ L \in 1..L
      /\ \A i \in 1..(L - 1) : rest[i] = st[i] /\ i \in 1..L /\ i # L
      /\ \A i \in 1..L : i # L => i \in 1..(L - 1)
  <2>1. L \in Nat /\ L >= 1 /\ DOMAIN st = 1..L /\ DOMAIN rest = 1..(L - 1) /\ \A i \in 1..(L - 1) : rest[i] = st[i]
    BY Popping, Stacks
  <2> HIDE DEF L, rest
  <2> QED BY <2>1
<1> HIDE DEF rest, L
<1>2. ToVisit(rest) = ToVisit(st) \ {L} /\ (L \in ToVisit(st) <=> ~st[L].leave)
  BY <1>1 DEF ToVisit
<1>3. IsFiniteSet(ToVisit(st)) /\ Cardinality(ToVisit(st)) \in Nat
  BY Counts
<1>4. Cardinality(ToVisit(st) \ {L}) = IF L \in ToVisit(st) THEN Cardinality(ToVisit(st)) - 1 ELSE Cardinality(ToVisit(st))
  BY <1>3, FS_RemoveElement
<1>5. Cardinality(ToVisit(rest)) = Cardinality(ToVisit(st)) - (IF st[L].leave THEN 0 ELSE 1)
  BY <1>2, <1>3, <1>4
<1> QED BY <1>5 DEF rest, L

(* A node visited: its children for it. *)
LEMMA GrowCounts ==
  ASSUME NEW nodes, NEW pairs, Searched(nodes, pairs), NEW st \in Seq(Entry(nodes)), st # <<>>,
         ~st[Len(st)].leave, NEW e \in Entry(nodes), e.leave, NEW o \in Seq(Entry(nodes))
  PROVE  Cardinality(ToVisit(Grow(st, e, o))) <= Cardinality(ToVisit(st)) - 1 + Len(o)
<1> DEFINE L == Len(st)
           M == Len(o)
           t == Grow(st, e, o)
           new == (L + 1)..(L + M)
<1>1. /\ L \in Nat /\ L >= 1 /\ M \in Nat /\ DOMAIN st = 1..L /\ ~st[L].leave /\ L \in 1..L
  <2>1. L \in Nat /\ L >= 1 /\ DOMAIN st = 1..L /\ M \in Nat
    BY Popping, Stacks
  <2> HIDE DEF L
  <2>2. L \in 1..L
    BY <2>1
  <2> QED BY <2>1, <2>2 DEF L
<1>2. DOMAIN t = 1..(L + M) /\ (\A i \in 1..(L - 1) : t[i] = st[i]) /\ t[L] = e
  <2>1. Grown(t, st, e, o, nodes)
    BY Growing
  <2> HIDE DEF t
  <2> QED BY <2>1 DEF Grown
<1> HIDE DEF t, L, M
<1>3. ToVisit(t) \in SUBSET ((ToVisit(st) \ {L}) \cup new)
  <2> SUFFICES ASSUME NEW i \in 1..(L + M), ~t[i].leave
               PROVE  i \in (ToVisit(st) \ {L}) \cup new
    BY <1>2 DEF ToVisit
  <2>1. i # L
    BY <1>2
  <2>2. i \in 1..(L - 1) \/ i \in new
    BY <1>1, <2>1
  <2>3. i \in 1..(L - 1) => i \in DOMAIN st
    BY <1>1
  <2> HIDE DEF new
  <2> QED BY <1>2, <2>1, <2>2, <2>3 DEF ToVisit
<1>4. IsFiniteSet(new) /\ Cardinality(new) = M
  <2>1. L + 1 \in Int /\ L + M \in Int /\ (IF L + 1 > L + M THEN 0 ELSE (L + M) - (L + 1) + 1) = M
    BY <1>1
  <2> QED BY <2>1, FS_Interval
<1> HIDE DEF new
<1>5. /\ IsFiniteSet(ToVisit(st)) /\ Cardinality(ToVisit(st)) \in Nat /\ L \in ToVisit(st)
  BY <1>1, Counts DEF ToVisit
<1>6. IsFiniteSet(ToVisit(st) \ {L}) /\ Cardinality(ToVisit(st) \ {L}) = Cardinality(ToVisit(st)) - 1
  BY <1>5, FS_RemoveElement
<1>7. /\ IsFiniteSet((ToVisit(st) \ {L}) \cup new)
      /\ Cardinality((ToVisit(st) \ {L}) \cup new) <= Cardinality(ToVisit(st)) - 1 + M
  <2> DEFINE A == ToVisit(st) \ {L}
  <2> HIDE DEF A
  <2>1. IsFiniteSet(A) /\ Cardinality(A) = Cardinality(ToVisit(st)) - 1
    BY <1>6 DEF A
  <2>2. /\ IsFiniteSet(A \cup new)
        /\ Cardinality(A \cup new) = Cardinality(A) + Cardinality(new) - Cardinality(A \cap new)
    BY <1>4, <2>1, FS_Union
  <2>3. IsFiniteSet(A \cap new)
    BY <2>1, FS_Intersection
  <2>4. Cardinality(A \cap new) \in Nat
    BY <2>3, FS_CardinalityType
  <2>5. Cardinality(A \cup new) <= Cardinality(ToVisit(st)) - 1 + M
    BY <1>1, <1>4, <1>5, <2>1, <2>2, <2>4
  <2> QED BY <2>2, <2>5 DEF A
<1>8. Cardinality(ToVisit(t)) <= Cardinality((ToVisit(st) \ {L}) \cup new)
  BY <1>3, <1>7, FS_Subset
<1>9. /\ Cardinality(ToVisit(t)) \in Nat /\ Cardinality((ToVisit(st) \ {L}) \cup new) \in Nat
  BY <1>3, <1>7, FS_Subset, FS_CardinalityType
<1> QED BY <1>1, <1>5, <1>7, <1>8, <1>9 DEF t, M

(* Marking a node 2 only makes fewer edges unseen; marking one not seen    *)
(* takes its own away, among them those of its fresh children.             *)
LEMMA MarkCounts ==
  ASSUME NEW nodes, NEW pairs, Searched(nodes, pairs), NEW mark \in [nodes -> 0..2], NEW v \in nodes,
         NEW x \in {1, 2}
  PROVE  /\ Cardinality(Unseen([mark EXCEPT ![v] = x], pairs)) <= Cardinality(Unseen(mark, pairs))
         /\ mark[v] = 0 => \A m : Cardinality(Fresh(m, pairs, v))
              + Cardinality(Unseen([mark EXCEPT ![v] = x], pairs)) <= Cardinality(Unseen(mark, pairs))
<1> DEFINE before == Unseen(mark, pairs)
           after == Unseen([mark EXCEPT ![v] = x], pairs)
<1>1. \A n \in DOMAIN pairs : pairs[n][1] \in nodes
  BY DEF Searched
<1>2. \A w \in nodes : [mark EXCEPT ![v] = x][w] = IF w = v THEN x ELSE mark[w]
  OBVIOUS
<1>3. after = {n \in before : pairs[n][1] # v}
  BY <1>1, <1>2 DEF Unseen
<1>4. IsFiniteSet(before) /\ Cardinality(before) \in Nat /\ after \in SUBSET before
  <2>1. IsFiniteSet(before)
    <3>1. before \in SUBSET DOMAIN pairs
      BY DEF Unseen
    <3> HIDE DEF before
    <3> QED BY <3>1, FS_Subset DEF Searched
  <2> HIDE DEF before, after
  <2> QED BY <1>3, <2>1, FS_CardinalityType
<1>5. IsFiniteSet(after) /\ Cardinality(after) \in Nat /\ Cardinality(after) <= Cardinality(before)
  <2> HIDE DEF before, after
  <2> QED BY <1>4, FS_Subset, FS_CardinalityType
<1>6. ASSUME mark[v] = 0, NEW m
      PROVE  Cardinality(Fresh(m, pairs, v)) + Cardinality(after) <= Cardinality(before)
  <2> DEFINE F == Fresh(m, pairs, v)
  <2>1. F \in SUBSET before /\ F \cap after = {}
    BY <1>3, <1>6 DEF Fresh, ChildrenOf, Unseen
  <2> HIDE DEF F, before, after
  <2>2. IsFiniteSet(F) /\ Cardinality(F) \in Nat
    BY <1>4, <2>1, FS_Subset, FS_CardinalityType
  <2>3. IsFiniteSet(F \cup after) /\ Cardinality(F \cup after) = Cardinality(F) + Cardinality(after) - Cardinality(F \cap after)
    BY <1>5, <2>2, FS_Union
  <2>4. Cardinality(F \cap after) = 0
    BY <2>1, FS_EmptySet
  <2>5. Cardinality(F \cup after) <= Cardinality(before)
    BY <1>4, <2>1, FS_Subset
  <2> QED BY <1>5, <2>2, <2>3, <2>4, <2>5 DEF F
<1> QED BY <1>5, <1>6

(* What is left to do drops with the entries still to visit or, at the same  *)
(* count of them, with the length of the stack.                              *)
LEMMA LeftDrops ==
  ASSUME NEW at, NEW st, NEW mark, NEW at2, NEW st2, NEW mark2, NEW pairs, NEW starts,
         3 * (Len(starts) - at) \in Int, Len(st) \in Int, Cardinality(ToVisit(st)) \in Int,
         Cardinality(Unseen(mark, pairs)) \in Int,
         3 * (Len(starts) - at2) \in Int, Len(st2) \in Int, Cardinality(ToVisit(st2)) \in Int,
         Cardinality(Unseen(mark2, pairs)) \in Int,
         3 * (Len(starts) - at2) + Len(st2) + Cardinality(ToVisit(st2))
           < 3 * (Len(starts) - at) + Len(st) + Cardinality(ToVisit(st)),
         Cardinality(Unseen(mark2, pairs)) <= Cardinality(Unseen(mark, pairs))
  PROVE  StepsLeft(at2, st2, mark2, pairs, starts) < StepsLeft(at, st, mark, pairs, starts)
<1> DEFINE a == 3 * (Len(starts) - at)
           l == Len(st)
           c == Cardinality(ToVisit(st))
           u == Cardinality(Unseen(mark, pairs))
           a2 == 3 * (Len(starts) - at2)
           l2 == Len(st2)
           c2 == Cardinality(ToVisit(st2))
           u2 == Cardinality(Unseen(mark2, pairs))
<1>1. /\ a \in Int /\ l \in Int /\ c \in Int /\ u \in Int
      /\ a2 \in Int /\ l2 \in Int /\ c2 \in Int /\ u2 \in Int
      /\ a2 + l2 + c2 < a + l + c /\ u2 <= u
  OBVIOUS
<1>2. /\ StepsLeft(at, st, mark, pairs, starts) = a + l + c + 2 * u
      /\ StepsLeft(at2, st2, mark2, pairs, starts) = a2 + l2 + c2 + 2 * u2
  BY DEF StepsLeft
<1> HIDE DEF a, l, c, u, a2, l2, c2, u2
<1>3. a2 + l2 + c2 + 2 * u2 < a + l + c + 2 * u
  BY <1>1
<1> QED BY <1>2, <1>3

(* What a step does to the top of the stack. *)
LEMMA StepKeeps ==
  ASSUME NEW nodes, NEW pairs, Searched(nodes, pairs), NEW starts \in Seq(nodes),
         NEW s, SearchInv(s, nodes, pairs, starts), ~Over(s, starts)
  PROVE  LET t == SearchNext(s, pairs, starts) IN
         /\ SearchInv(t, nodes, pairs, starts)
         /\ ~t.loop => StepsLeft(t.at, t.stack, t.mark, pairs, starts)
                         < StepsLeft(s.at, s.stack, s.mark, pairs, starts)
<1> DEFINE at == s.at
           st == s.stack
           mark == s.mark
           t == SearchNext(s, pairs, starts)
           Left(a, b, c) == StepsLeft(a, b, c, pairs, starts)
<1>1. /\ ~s.loop /\ s \in SearchState(nodes, starts) /\ Searching(at, st, mark, nodes, pairs, starts)
      /\ at \in 0..Len(starts) /\ st \in Seq(Entry(nodes)) /\ mark \in [nodes -> 0..2]
  BY DEF SearchInv, Over, SearchState
<1>2. at \in Nat /\ Len(starts) \in Nat /\ at <= Len(starts) /\ \A i \in 1..Len(starts) : starts[i] \in nodes
  BY <1>1
<1>3. \A i \in 1..at : starts[i] \in nodes
  BY <1>2
<1>4. ASSUME NEW b \in Seq(Entry(nodes)), NEW c
      PROVE  /\ Len(b) \in Nat /\ Cardinality(ToVisit(b)) \in Nat /\ Cardinality(Unseen(c, pairs)) \in Nat
  BY Counts
<1>5. CASE st = <<>>
  <2> DEFINE n == starts[at + 1]
             one == <<[node |-> n, leave |-> FALSE]>>
  <2>1. at < Len(starts)
    BY <1>2, <1>5 DEF Over
  <2>2. n \in nodes /\ at + 1 \in 0..Len(starts)
    BY <1>2, <2>1
  <2>3. t = [s EXCEPT !.at = at + 1, !.stack = one]
    BY <1>1, <1>2, <1>5, <2>1 DEF SearchNext
  <2>4. one \in Seq(Entry(nodes)) /\ Len(one) = 1 /\ DOMAIN one = {1} /\ one[1].node = n /\ ~one[1].leave
    <3> HIDE DEF n
    <3>1. [node |-> n, leave |-> FALSE] \in Entry(nodes)
      BY <2>2 DEF Entry
    <3> QED BY <3>1
  <2> HIDE DEF one, t
  <2>5. t.at = at + 1 /\ t.stack = one /\ t.mark = mark /\ ~t.loop /\ t \in SearchState(nodes, starts)
    BY <1>1, <2>2, <2>3, <2>4 DEF SearchState
  <2>6. OnPath(one) = {} /\ OnPath(st) = {}
    BY <1>5, <2>4 DEF OnPath
  <2>7. PathMarked(one, mark, nodes) /\ PathLeads(one, pairs) /\ Waiting(one, mark, nodes, pairs)
    BY <1>1, <2>6 DEF Searching, PathMarked, PathLeads, Waiting
  <2>8. Begun(at + 1, one, mark, starts)
    <3> SUFFICES ASSUME NEW i \in 1..(at + 1)
                 PROVE  mark[starts[i]] = 2 \/ \E k \in DOMAIN one : one[k].node = starts[i]
      BY DEF Begun
    <3>1. CASE i = at + 1
      BY <2>4, <3>1
    <3>2. CASE i # at + 1
      <4>1. i \in 1..at
        BY <1>2, <3>2
      <4>2. ~\E k \in DOMAIN st : st[k].node = starts[i]
        BY <1>5
      <4> QED BY <1>1, <4>1, <4>2 DEF Searching, Begun
    <3> QED BY <3>1, <3>2
  <2>9. SearchInv(t, nodes, pairs, starts)
    BY <1>1, <2>5, <2>7, <2>8 DEF SearchInv, Searching
  <2>10. Left(at + 1, one, mark) < Left(at, st, mark)
    <3>1. Cardinality(ToVisit(one)) <= 1 /\ Cardinality(ToVisit(one)) \in Nat
      <4>1. ToVisit(one) \in SUBSET {1} /\ IsFiniteSet({1}) /\ Cardinality({1}) = 1
        BY <2>4, FS_Singleton DEF ToVisit
      <4> QED BY <2>4, <4>1, FS_Subset, Counts
    <3>2. Cardinality(ToVisit(st)) \in Nat /\ Cardinality(Unseen(mark, pairs)) \in Nat /\ Len(st) = 0
      BY <1>1, <1>4, <1>5
    <3>3. 3 * (Len(starts) - (at + 1)) = 3 * (Len(starts) - at) - 3
      BY <1>2
    <3>4. 3 * (Len(starts) - at) \in Nat /\ 3 * (Len(starts) - (at + 1)) \in Int
      BY <1>2
    <3> HIDE DEF at, st, mark
    <3>5. 3 * (Len(starts) - (at + 1)) + Len(one) + Cardinality(ToVisit(one))
            < 3 * (Len(starts) - at) + Len(st) + Cardinality(ToVisit(st))
      BY <2>4, <3>1, <3>2, <3>3, <3>4
    <3>6. /\ Len(st) \in Int /\ Len(one) \in Int /\ 3 * (Len(starts) - at) \in Int
          /\ Cardinality(ToVisit(st)) \in Int /\ Cardinality(ToVisit(one)) \in Int
          /\ Cardinality(Unseen(mark, pairs)) \in Int
          /\ Cardinality(Unseen(mark, pairs)) <= Cardinality(Unseen(mark, pairs))
      BY <2>4, <3>1, <3>2, <3>4
    <3> QED BY <3>4, <3>5, <3>6, LeftDrops
  <2> QED BY <2>5, <2>9, <2>10 DEF t
<1>6. CASE st # <<>>
  <2> DEFINE L == Len(st)
             v == st[L].node
             rest == SubSeq(st, 1, L - 1)
  <2>1. /\ L = Len(st) /\ L \in Nat /\ L >= 1 /\ rest \in Seq(Entry(nodes)) /\ Len(rest) = L - 1
        /\ v \in nodes /\ st[L].leave \in BOOLEAN
    <3>1. L \in Nat /\ L >= 1 /\ rest \in Seq(Entry(nodes)) /\ Len(rest) = L - 1
      BY <1>1, <1>6, Popping
    <3> HIDE DEF L, rest
    <3>2. L \in 1..L
      BY <3>1
    <3> QED BY <1>1, <3>1, <3>2, Stacks DEF L
  <2>2. t = Visit(s, pairs)
    BY <1>1, <1>6 DEF SearchNext
  <2>3. Cardinality(ToVisit(rest)) = Cardinality(ToVisit(st)) - (IF st[L].leave THEN 0 ELSE 1)
    BY <1>1, <1>6, PopCounts
  <2>4. /\ Cardinality(ToVisit(st)) \in Nat /\ Cardinality(ToVisit(rest)) \in Nat
        /\ Cardinality(Unseen(mark, pairs)) \in Nat /\ 3 * (Len(starts) - at) \in Nat
    <3>1. 3 * (Len(starts) - at) \in Nat
      BY <1>2
    <3> QED BY <1>1, <1>4, <2>1, <3>1
  <2>5. mark[v] \in 0..2
    BY <1>1, <2>1
  <2>6. CASE st[L].leave
    <3> DEFINE mark2 == [mark EXCEPT ![v] = 2]
    <3>1. t = [s EXCEPT !.stack = rest, !.mark = mark2]
      BY <2>2, <2>6 DEF Visit
    <3>2. Searching(at, rest, mark2, nodes, pairs, starts)
      <4> HIDE DEF at, st, mark
      <4> QED BY <1>1, <1>2, <1>3, <1>6, <2>6, LeaveStep
    <3>3. mark2 \in [nodes -> 0..2]
      <4> HIDE DEF v, mark
      <4> QED BY <1>1, <2>1
    <3>4. Cardinality(Unseen(mark2, pairs)) <= Cardinality(Unseen(mark, pairs))
      BY <1>1, <2>1, MarkCounts
    <3> HIDE DEF t, rest, mark2, L
    <3>5. t.at = at /\ t.stack = rest /\ t.mark = mark2 /\ ~t.loop /\ t \in SearchState(nodes, starts)
      BY <1>1, <2>1, <3>1, <3>3 DEF SearchState
    <3>6. SearchInv(t, nodes, pairs, starts)
      BY <3>2, <3>5 DEF SearchInv
    <3>7. Cardinality(Unseen(mark2, pairs)) \in Nat
      BY <1>4, <2>1
    <3>8. Left(at, rest, mark2) < Left(at, st, mark)
      <4>1. Cardinality(ToVisit(rest)) = Cardinality(ToVisit(st))
        BY <2>3, <2>4, <2>6
      <4> HIDE DEF at, st, mark
      <4>2. 3 * (Len(starts) - at) + Len(rest) + Cardinality(ToVisit(rest))
              < 3 * (Len(starts) - at) + Len(st) + Cardinality(ToVisit(st))
        BY <2>1, <2>4, <4>1
      <4>3. /\ 3 * (Len(starts) - at) \in Int /\ Len(st) \in Int /\ Len(rest) \in Int
            /\ Cardinality(ToVisit(st)) \in Int /\ Cardinality(ToVisit(rest)) \in Int
            /\ Cardinality(Unseen(mark, pairs)) \in Int /\ Cardinality(Unseen(mark2, pairs)) \in Int
        BY <2>1, <2>4, <3>7
      <4> QED BY <3>4, <4>2, <4>3, LeftDrops
    <3> QED BY <3>5, <3>6, <3>8 DEF t
  <2>7. CASE ~st[L].leave /\ mark[v] = 1
    <3>1. t = [s EXCEPT !.loop = TRUE]
      BY <2>2, <2>7 DEF Visit
    <3>2. \E S \in SUBSET nodes : S # {} /\ Looping(S, pairs)
      BY <1>1, <1>2, <1>6, <2>7, TopRepeats
    <3> HIDE DEF t
    <3>3. t.loop /\ t \in SearchState(nodes, starts)
      BY <1>1, <3>1 DEF SearchState
    <3>4. SearchInv(t, nodes, pairs, starts)
      BY <3>2, <3>3 DEF SearchInv
    <3> QED BY <3>3, <3>4 DEF t
  <2>8. CASE ~st[L].leave /\ mark[v] = 2
    <3>1. t = [s EXCEPT !.stack = rest]
      BY <2>2, <2>8 DEF Visit
    <3>2. Searching(at, rest, mark, nodes, pairs, starts)
      BY <1>1, <1>2, <1>6, <2>8, SkipStep
    <3> HIDE DEF t, rest, L
    <3>3. t.at = at /\ t.stack = rest /\ t.mark = mark /\ ~t.loop /\ t \in SearchState(nodes, starts)
      BY <1>1, <2>1, <3>1 DEF SearchState
    <3>4. SearchInv(t, nodes, pairs, starts)
      BY <3>2, <3>3 DEF SearchInv
    <3>5. Left(at, rest, mark) < Left(at, st, mark)
      <4>1. Cardinality(ToVisit(rest)) = Cardinality(ToVisit(st)) - 1
        BY <2>3, <2>4, <2>8
      <4> HIDE DEF at, st, mark
      <4>2. 3 * (Len(starts) - at) + Len(rest) + Cardinality(ToVisit(rest))
              < 3 * (Len(starts) - at) + Len(st) + Cardinality(ToVisit(st))
        BY <2>1, <2>4, <4>1
      <4>3. Cardinality(Unseen(mark, pairs)) <= Cardinality(Unseen(mark, pairs))
        BY <2>4
      <4>4. /\ 3 * (Len(starts) - at) \in Int /\ Len(st) \in Int /\ Len(rest) \in Int
            /\ Cardinality(ToVisit(st)) \in Int /\ Cardinality(ToVisit(rest)) \in Int
            /\ Cardinality(Unseen(mark, pairs)) \in Int
        BY <2>1, <2>4
      <4> QED BY <4>2, <4>3, <4>4, LeftDrops
    <3> QED BY <3>3, <3>4, <3>5 DEF t
  <2>9. CASE ~st[L].leave /\ mark[v] = 0
    <3> DEFINE mark2 == [mark EXCEPT ![v] = 1]
               e == [node |-> v, leave |-> TRUE]
               F == Fresh(mark2, pairs, v)
               o == Opened(pairs, F)
               found == \E n \in ChildrenOf(pairs, v) : mark2[pairs[n][2]] = 1
    <3>1. t = [s EXCEPT !.mark = mark2, !.loop = found, !.stack = Grow(st, e, o)]
      BY <2>2, <2>9 DEF Visit, Grow
    <3>2. mark2 \in [nodes -> 0..2] /\ e \in Entry(nodes) /\ e.leave
      BY <1>1, <2>1 DEF Entry
    <3>3. /\ Cardinality(F) \in Nat /\ o \in Seq(Entry(nodes)) /\ Len(o) = Cardinality(F)
          /\ \A k \in 1..Len(o) : ~o[k].leave /\ Leads(pairs, v, o[k].node)
          /\ \A w : Leads(pairs, v, w) /\ mark2[w] = 0 => \E k \in 1..Len(o) : o[k].node = w
      <4> HIDE DEF mark2, v
      <4> QED BY <2>1, OpenedEntries
    <3>4. /\ \A n \in ChildrenOf(pairs, v) : pairs[n][2] \in nodes /\ Leads(pairs, v, pairs[n][2])
          /\ \A w : Leads(pairs, v, w) => \E n \in ChildrenOf(pairs, v) : pairs[n][2] = w
      <4> HIDE DEF v
      <4> QED BY <2>1, ChildEdges
    <3>5. Grow(st, e, o) \in Seq(Entry(nodes)) /\ Len(Grow(st, e, o)) = L + Len(o)
      <4> HIDE DEF e, o
      <4>1. Grown(Grow(st, e, o), st, e, o, nodes)
        BY <1>1, <1>6, <3>2, <3>3, Growing
      <4> QED BY <4>1 DEF Grown
    <3>6. Cardinality(ToVisit(Grow(st, e, o))) <= Cardinality(ToVisit(st)) - 1 + Len(o)
      <4> HIDE DEF e, o
      <4> QED BY <1>1, <1>6, <2>9, <3>2, <3>3, GrowCounts
    <3>7. Cardinality(F) + Cardinality(Unseen(mark2, pairs)) <= Cardinality(Unseen(mark, pairs))
      BY <1>1, <2>1, <2>9, MarkCounts
    <3>8. Cardinality(ToVisit(Grow(st, e, o))) \in Nat /\ Cardinality(Unseen(mark2, pairs)) \in Nat
      <4> HIDE DEF e, o, mark2
      <4> QED BY <1>4, <3>5
    <3>9. CASE found
      <4>1. PICK n \in ChildrenOf(pairs, v) : mark2[pairs[n][2]] = 1
        BY <3>9
      <4> DEFINE w == pairs[n][2]
      <4>2. w \in nodes /\ Leads(pairs, v, w) /\ [mark EXCEPT ![v] = 1][w] = 1
        BY <3>4, <4>1
      <4> HIDE DEF w
      <4>3. \E S \in SUBSET nodes : S # {} /\ Looping(S, pairs)
        BY <1>1, <1>2, <1>6, <2>9, <4>2, ChildRepeats
      <4> HIDE DEF t, mark2, e, o, L, v
      <4>4. t.loop /\ t \in SearchState(nodes, starts)
        BY <1>1, <3>1, <3>2, <3>5, <3>9 DEF SearchState
      <4>5. SearchInv(t, nodes, pairs, starts)
        BY <4>3, <4>4 DEF SearchInv
      <4> QED BY <4>4, <4>5 DEF t
    <3>10. CASE ~found
      <4>1. \A w \in nodes : Leads(pairs, v, w) => mark2[w] # 1
        <5> HIDE DEF mark2, v
        <5> QED BY <3>4, <3>10
      <4>2. Searching(at, Grow(st, e, o), mark2, nodes, pairs, starts)
        <5>1. v = st[Len(st)].node /\ ~st[Len(st)].leave /\ mark[v] = 0 /\ mark2 = [mark EXCEPT ![v] = 1]
          BY <2>9
        <5> HIDE DEF mark2, o, v, at, st, mark
        <5> QED BY <1>1, <1>2, <1>3, <1>6, <3>3, <4>1, <5>1, GrowStep
      <4> HIDE DEF t, mark2, e, o, F, v, found
      <4>3. t.at = at /\ t.stack = Grow(st, e, o) /\ t.mark = mark2 /\ ~t.loop /\ t \in SearchState(nodes, starts)
        <5> DEFINE g == Grow(st, e, o)
        <5>1. g \in Seq(Entry(nodes)) /\ found \in BOOLEAN /\ ~found
          BY <3>5, <3>10 DEF found
        <5>2. t = [s EXCEPT !.mark = mark2, !.loop = found, !.stack = g]
          BY <3>1
        <5> HIDE DEF g
        <5>3. t.at = at /\ t.stack = g /\ t.mark = mark2 /\ ~t.loop /\ t \in SearchState(nodes, starts)
          BY <1>1, <3>2, <5>1, <5>2 DEF SearchState
        <5> QED BY <5>3 DEF g
      <4>4. SearchInv(t, nodes, pairs, starts)
        BY <4>2, <4>3 DEF SearchInv
      <4>5. Left(at, Grow(st, e, o), mark2) < Left(at, st, mark)
        <5> HIDE DEF L, at, st, mark
        <5> DEFINE f == Cardinality(F)
                   a == 3 * (Len(starts) - at)
                   g == Grow(st, e, o)
                   l == Len(g)
                   c == Cardinality(ToVisit(st))
                   d == Cardinality(ToVisit(g))
                   u == Cardinality(Unseen(mark, pairs))
                   r == Cardinality(Unseen(mark2, pairs))
        <5>1. f \in Nat /\ l = L + f /\ a \in Nat /\ L \in Nat /\ Len(st) = L
          BY <2>1, <2>4, <3>3, <3>5
        <5>2. d <= c - 1 + f
          BY <3>3, <3>6
        <5>3. f + r <= u
          BY <3>7
        <5>4. c \in Nat /\ d \in Nat /\ u \in Nat /\ r \in Nat
          BY <2>4, <3>8
        <5> HIDE DEF f, a, l, c, d, u, r, L
        <5>5. a + l + d + 2 * r < a + Len(st) + c + 2 * u
          BY <5>1, <5>2, <5>3, <5>4
        <5> QED BY <5>5 DEF StepsLeft, a, l, c, d, u, r
      <4> QED BY <4>3, <4>4, <4>5 DEF t
    <3> QED BY <3>9, <3>10
  <2>10. st[L].leave \/ (~st[L].leave /\ (mark[v] = 0 \/ mark[v] = 1 \/ mark[v] = 2))
    BY <2>1, <2>5
  <2> QED BY <2>6, <2>7, <2>8, <2>9, <2>10
<1> QED BY <1>5, <1>6

(* The search is over in as many steps as it is given, and has found a     *)
(* loop just when there is one, whatever the order of the starts.          *)
LEMMA SearchFinds ==
  ASSUME NEW nodes, NEW pairs, Searched(nodes, pairs), NEW starts \in Seq(nodes),
         \A n \in DOMAIN pairs : \E i \in 1..Len(starts) : starts[i] = pairs[n][1]
  PROVE  LoopFound(nodes, pairs, starts) <=> \E S \in SUBSET nodes : S # {} /\ Looping(S, pairs)
<1> DEFINE B == 3 * Len(starts) + 2 * Cardinality(DOMAIN pairs)
           Left(s) == StepsLeft(s.at, s.stack, s.mark, pairs, starts)
<1>1. PICK run : Steps(run, nodes, pairs, starts) /\ LoopFound(nodes, pairs, starts) = run[B].loop
  BY SearchSteps
<1>2. Cardinality(DOMAIN pairs) \in Nat /\ Len(starts) \in Nat /\ B \in Nat
  <2>1. Cardinality(DOMAIN pairs) \in Nat
    BY FS_CardinalityType DEF Searched
  <2>2. Len(starts) \in Nat
    OBVIOUS
  <2> QED BY <2>1, <2>2
<1>3. \A s : SearchInv(s, nodes, pairs, starts) => Left(s) \in Int /\ Left(s) >= 0 /\ (Left(s) = 0 => Over(s, starts))
  <2> SUFFICES ASSUME NEW s, SearchInv(s, nodes, pairs, starts)
               PROVE  Left(s) \in Int /\ Left(s) >= 0 /\ (Left(s) = 0 => Over(s, starts))
    OBVIOUS
  <2> DEFINE at == s.at
             st == s.stack
             mark == s.mark
  <2>1. at \in 0..Len(starts) /\ st \in Seq(Entry(nodes))
    BY DEF SearchInv, SearchState
  <2>2. /\ Len(st) \in Nat /\ Cardinality(ToVisit(st)) \in Nat /\ Cardinality(Unseen(mark, pairs)) \in Nat
        /\ Len(st) = 0 => st = <<>>
    <3> HIDE DEF st, mark
    <3> QED BY <2>1, Counts, Stacks
  <2>3. 3 * (Len(starts) - at) \in Nat /\ (3 * (Len(starts) - at) = 0 => at = Len(starts)) /\ at \in Nat
    <3> HIDE DEF at
    <3> QED BY <1>2, <2>1
  <2>4. Over(s, starts) <=> s.loop \/ (st = <<>> /\ at = Len(starts))
    BY DEF Over
  <2>5. Left(s) = 3 * (Len(starts) - at) + Len(st) + Cardinality(ToVisit(st)) + 2 * Cardinality(Unseen(mark, pairs))
    BY DEF StepsLeft
  <2> HIDE DEF at, st, mark, Left
  <2> QED BY <2>2, <2>3, <2>4, <2>5
<1> DEFINE G == {n \in Nat : /\ SearchInv(run[n], nodes, pairs, starts)
                             /\ Over(run[n], starts) \/ Left(run[n]) + n <= B}
<1>4. 0 \in G
  <2> DEFINE s == SearchBegin(nodes)
  <2>1. run[0] = s
    BY <1>1 DEF Steps
  <2>2. s.at = 0 /\ s.stack = <<>> /\ s.mark = [r \in nodes |-> 0] /\ ~s.loop
    BY DEF SearchBegin
  <2>3. s \in SearchState(nodes, starts) /\ <<>> \in Seq(Entry(nodes))
    BY <1>2 DEF SearchBegin, SearchState
  <2>4. Searching(0, <<>>, [r \in nodes |-> 0], nodes, pairs, starts)
    BY DEF Searching, PathMarked, PathLeads, Waiting, Settled, Begun, OnPath
  <2>5. SearchInv(s, nodes, pairs, starts)
    BY <2>2, <2>3, <2>4 DEF SearchInv
  <2>6. Left(s) <= B
    <3> DEFINE m == [r \in nodes |-> 0]
    <3>1. Cardinality(ToVisit(<<>>)) = 0 /\ Len(<<>>) = 0
      <4>1. ToVisit(<<>>) = {}
        BY DEF ToVisit
      <4> QED BY <4>1, FS_EmptySet
    <3>2. Cardinality(Unseen(m, pairs)) <= Cardinality(DOMAIN pairs) /\ Cardinality(Unseen(m, pairs)) \in Nat
      <4>1. Unseen(m, pairs) \in SUBSET DOMAIN pairs
        BY DEF Unseen
      <4> HIDE DEF m
      <4> QED BY <2>3, <4>1, FS_Subset, Counts DEF Searched
    <3>3. Left(s) = 3 * (Len(starts) - 0) + 0 + 0 + 2 * Cardinality(Unseen(m, pairs))
      BY <2>2, <3>1 DEF StepsLeft
    <3> HIDE DEF m, s, Left
    <3> QED BY <1>2, <3>2, <3>3
  <2>7. Left(s) + 0 <= B
    <3> HIDE DEF s, Left, B
    <3> QED BY <1>2, <1>3, <2>5, <2>6
  <2> HIDE DEF s, Left
  <2> QED BY <2>1, <2>5, <2>7
<1>5. ASSUME NEW n \in Nat, n \in G
      PROVE  n + 1 \in G
  <2> DEFINE s == run[n]
             t == run[n + 1]
  <2>1. t = SearchNext(s, pairs, starts) /\ SearchInv(s, nodes, pairs, starts)
    BY <1>1, <1>5 DEF Steps
  <2>2. CASE Over(s, starts)
    <3>1. SearchNext(s, pairs, starts) = s
      BY <2>2 DEF Over, SearchNext
    <3> HIDE DEF s, t
    <3>2. SearchInv(t, nodes, pairs, starts) /\ Over(t, starts)
      BY <2>1, <2>2, <3>1
    <3> QED BY <3>2 DEF t
  <2>3. CASE ~Over(s, starts)
    <3>1. Left(s) + n <= B
      BY <1>5, <2>3
    <3>2. SearchInv(t, nodes, pairs, starts) /\ (~t.loop => Left(t) < Left(s))
      <4> HIDE DEF s, t
      <4> QED BY <2>1, <2>3, StepKeeps
    <3>3. t.loop => Over(t, starts)
      BY DEF Over
    <3>4. Left(s) \in Int /\ Left(t) \in Int
      <4> HIDE DEF s, t, Left
      <4> QED BY <1>3, <2>1, <3>2
    <3>5. Over(t, starts) \/ Left(t) + (n + 1) <= B
      <4> HIDE DEF s, t, Left, B
      <4> QED BY <1>2, <3>1, <3>2, <3>3, <3>4
    <3> HIDE DEF Left, B
    <3> QED BY <3>2, <3>5
  <2> QED BY <2>2, <2>3
<1> DEFINE last == run[B]
<1>6. SearchInv(last, nodes, pairs, starts) /\ Over(last, starts)
  <2>1. \A n \in Nat : n \in G
    <3> HIDE DEF G
    <3> QED BY <1>4, <1>5, AllNumbers
  <2>2. /\ SearchInv(last, nodes, pairs, starts)
        /\ Over(last, starts) \/ Left(last) + B <= B
    <3> HIDE DEF B, Left
    <3> QED BY <1>2, <2>1
  <2> HIDE DEF last, B, Left
  <2> QED BY <1>2, <1>3, <2>2
<1> HIDE DEF last
<1>7. CASE last.loop
  BY <1>1, <1>6, <1>7 DEF SearchInv, last
<1>8. CASE ~last.loop
  <2> SUFFICES ASSUME NEW S \in SUBSET nodes, S # {}, Looping(S, pairs)
               PROVE  FALSE
    BY <1>1, <1>8 DEF last
  <2>1. /\ Searching(last.at, last.stack, last.mark, nodes, pairs, starts)
        /\ last.stack = <<>> /\ last.at = Len(starts)
    BY <1>6, <1>8 DEF SearchInv, Over
  <2>2. PICK x \in S : TRUE
    OBVIOUS
  <2>3. PICK y \in S : Leads(pairs, x, y)
    BY <2>2 DEF Looping
  <2>4. PICK n \in DOMAIN pairs : pairs[n] = <<x, y>>
    BY <2>3 DEF Leads
  <2>5. PICK i \in 1..Len(starts) : starts[i] = x
    BY <2>4
  <2>6. last.mark[x] = 2
    BY <2>1, <2>5 DEF Searching, Begun
  <2> QED BY <2>1, <2>2, <2>6 DEF Searching, Settled
<1> QED BY <1>7, <1>8

(* An order of a finite set is a list of all of it, and there is one.      *)
LEMMA OrderLists ==
  ASSUME NEW S, IsFiniteSet(S)
  PROVE  /\ \E s : s \in Orders(S)
         /\ \A s \in Orders(S) : /\ s \in Seq(S) /\ DOMAIN s = 1..Cardinality(S) /\ Len(s) = Cardinality(S)
                                 /\ \A i \in 1..Len(s) : s[i] \in S
                                 /\ \A x \in S : \E i \in 1..Len(s) : s[i] = x
         /\ Cardinality(S) \in Nat
<1> DEFINE n == Cardinality(S)
<1>1. n \in Nat /\ ExistsBijection(1..n, S)
  BY FS_CardinalityType
<1>2. PICK b : b \in Bijection(1..n, S)
  BY <1>1 DEF ExistsBijection
<1>3. b \in Orders(S)
  BY <1>2 DEF Bijection, Injection, IsInjective, Orders
<1>4. ASSUME NEW s \in Orders(S)
      PROVE  /\ s \in Seq(S) /\ DOMAIN s = 1..n /\ Len(s) = n
             /\ \A i \in 1..Len(s) : s[i] \in S
             /\ \A x \in S : \E i \in 1..Len(s) : s[i] = x
  <2>1. s \in [1..n -> S] /\ \A i, j \in 1..n : s[i] = s[j] => i = j
    BY DEF Orders
  <2>2. s \in Injection(1..n, S)
    BY <2>1 DEF Injection, IsInjective
  <2>3. IsFiniteSet(1..n) /\ Cardinality(1..n) = n
    <3>1. 1 \in Int /\ n \in Int /\ (IF 1 > n THEN 0 ELSE n - 1 + 1) = n
      BY <1>1
    <3> QED BY <3>1, FS_Interval
  <2>4. s \in Surjection(1..n, S)
    <3> HIDE DEF n
    <3>1. Cardinality(S) = n
      BY DEF n
    <3> QED BY <2>2, <2>3, <3>1, FS_Injection
  <2>5. s \in Seq(S) /\ Len(s) = n
    <3> HIDE DEF n
    <3> QED BY <1>1, <2>1
  <2> QED BY <2>1, <2>4, <2>5 DEF Surjection
<1> QED BY <1>1, <1>3, <1>4

(* The ways out of the nodes of a loop are among the edges. *)
LEMMA LoopsAgree ==
  ASSUME NEW nodes, NEW pairs, Searched(nodes, pairs), NEW E,
         \A p \in E : \E n \in DOMAIN pairs : pairs[n] = p,
         \A n \in DOMAIN pairs : pairs[n] \in E
  PROVE  HasLoop(E) <=> \E S \in SUBSET nodes : S # {} /\ Looping(S, pairs)
<1>1. \A x, y : <<x, y>> \in E <=> Leads(pairs, x, y)
  BY DEF Leads
<1>2. {p[1] : p \in E} \in SUBSET nodes
  BY DEF Searched
<1>3. HasLoop(E) => \E S \in SUBSET nodes : S # {} /\ Looping(S, pairs)
  BY <1>1, <1>2 DEF HasLoop, Looping
<1>4. ASSUME NEW S \in SUBSET nodes, S # {}, Looping(S, pairs)
      PROVE  HasLoop(E)
  <2>1. \A x \in S : \E y \in S : <<x, y>> \in E
    BY <1>1, <1>4 DEF Looping
  <2>2. \A x \in S : x \in {p[1] : p \in E}
    <3> TAKE x \in S
    <3>1. PICK y \in S : <<x, y>> \in E
      BY <2>1
    <3>2. <<x, y>>[1] = x
      OBVIOUS
    <3> QED BY <3>1, <3>2
  <2> QED BY <1>4, <2>1, <2>2 DEF HasLoop
<1> QED BY <1>3, <1>4

LEMMA SearchRight == SearchIsRight
<1> SUFFICES ASSUME NEW E \in Graphs
             PROVE  LET nodes == UNION {{p[1], p[2]} : p \in E}
                        list == CHOOSE s \in Orders(E) : TRUE
                    IN  \A starts \in Orders({p[1] : p \in E}) :
                          LoopFound(nodes, list, starts) <=> HasLoop(E)
  BY DEF SearchIsRight
<1> DEFINE nodes == UNION {{p[1], p[2]} : p \in E}
           list == CHOOSE s \in Orders(E) : TRUE
           sources == {p[1] : p \in E}
<1>1. IsFiniteSet(E) /\ \A p \in E : p = <<p[1], p[2]>> /\ p \in nodes \X nodes /\ p[1] \in nodes
  <2>1. IsFiniteSet(E) /\ \A p \in E : p = <<p[1], p[2]>>
    BY GraphAssumption
  <2>2. \A p \in E : p[1] \in nodes /\ p[2] \in nodes
    OBVIOUS
  <2> HIDE DEF nodes
  <2>3. \A p \in E : <<p[1], p[2]>> \in nodes \X nodes
    BY <2>2
  <2> QED BY <2>1, <2>2, <2>3
<1>2. list \in Orders(E)
  BY <1>1, OrderLists
<1> HIDE DEF list
<1>3. /\ DOMAIN list = 1..Cardinality(E) /\ Cardinality(E) \in Nat /\ Len(list) = Cardinality(E)
      /\ \A i \in 1..Len(list) : list[i] \in E
      /\ \A x \in E : \E i \in 1..Len(list) : list[i] = x
  BY <1>1, <1>2, OrderLists
<1>4. IsFiniteSet(DOMAIN list) /\ DOMAIN list \in SUBSET Nat
  BY <1>3, FS_Interval
<1>5. Searched(nodes, list)
  <2> HIDE DEF nodes
  <2> QED BY <1>1, <1>3, <1>4 DEF Searched
<1>6. IsFiniteSet(sources)
  <2> DEFINE f == [p \in E |-> p[1]]
  <2>1. f \in Surjection(E, sources)
    BY DEF Surjection
  <2> HIDE DEF f, sources
  <2> QED BY <1>1, <2>1, FS_Surjection
<1>7. ASSUME NEW starts \in Orders(sources)
      PROVE  LoopFound(nodes, list, starts) <=> HasLoop(E)
  <2>1. /\ starts \in Seq(sources) /\ \A x \in sources : \E i \in 1..Len(starts) : starts[i] = x
    <3> HIDE DEF sources
    <3> QED BY <1>6, OrderLists
  <2>2. sources \in SUBSET nodes
    <3> HIDE DEF nodes
    <3> QED BY <1>1
  <2>3. starts \in Seq(nodes)
    <3> HIDE DEF nodes, sources
    <3> QED BY <2>1, <2>2
  <2>4. \A n \in DOMAIN list : list[n] \in E /\ list[n][1] \in sources
    BY <1>3
  <2>5. \A n \in DOMAIN list : \E i \in 1..Len(starts) : starts[i] = list[n][1]
    <3> HIDE DEF sources
    <3> QED BY <2>1, <2>4
  <2> HIDE DEF nodes, sources
  <2>6. LoopFound(nodes, list, starts) <=> \E S \in SUBSET nodes : S # {} /\ Looping(S, list)
    BY <1>5, <2>3, <2>5, SearchFinds
  <2>7. HasLoop(E) <=> \E S \in SUBSET nodes : S # {} /\ Looping(S, list)
    BY <1>3, <1>5, <2>4, LoopsAgree
  <2> QED BY <2>6, <2>7
<1> QED BY <1>7 DEF list

(* What was accepted has no loop of edges of one type.                     *)
LEMMA ValidHasNoLoop ==
  ASSUME NEW c \in Content, ValidEdges(c), NEW type \in Directed
  PROVE  ~HasLoop({<<c.edges[n][1], c.edges[n][2]>> : n \in {m \in DOMAIN c.edges : c.edges[m][3] = type}})
<1> DEFINE edges == c.edges
           nodes == DOMAIN c.kinds
           pairs == OfType(edges, type)
           D == {m \in DOMAIN edges : edges[m][3] = type}
           E == {<<edges[n][1], edges[n][2]>> : n \in D}
           sources == {pairs[n][1] : n \in DOMAIN pairs}
           starts == CHOOSE s \in Orders(sources) : TRUE
<1>1. IsFiniteSet(DOMAIN edges) /\ DOMAIN edges \in SUBSET Nat
  <2>1. edges \in Seq({edges[n] : n \in DOMAIN edges})
    BY ContentAssumption
  <2> HIDE DEF edges
  <2>2. DOMAIN edges = 1..Len(edges) /\ Len(edges) \in Int /\ 1 \in Int
    BY <2>1
  <2>3. IsFiniteSet(1..Len(edges))
    BY <2>2, FS_Interval
  <2> QED BY <2>2, <2>3
<1>2. \A n \in DOMAIN edges : edges[n][1] \in nodes /\ edges[n][2] \in nodes
  BY DEF ValidEdges
<1>3. ~LoopFound(nodes, pairs, starts)
  BY DEF ValidEdges
<1> HIDE DEF edges, nodes
<1>4. DOMAIN pairs = D /\ \A n \in D : pairs[n] = <<edges[n][1], edges[n][2]>>
  BY DEF OfType
<1> HIDE DEF pairs
<1>5. IsFiniteSet(D) /\ D \in SUBSET Nat /\ D \in SUBSET DOMAIN edges
  <2>1. D \in SUBSET DOMAIN edges
    OBVIOUS
  <2> HIDE DEF D
  <2> QED BY <1>1, <2>1, FS_Subset
<1> HIDE DEF D
<1>6. Searched(nodes, pairs)
  <2>1. ASSUME NEW n \in D
        PROVE  pairs[n] \in nodes \X nodes
    <3>1. n \in DOMAIN edges
      BY <1>5
    <3>2. edges[n][1] \in nodes /\ edges[n][2] \in nodes
      BY <1>2, <3>1
    <3> QED BY <1>4, <3>2
  <2> QED BY <1>4, <1>5, <2>1 DEF Searched
<1>7. IsFiniteSet(sources) /\ sources \in SUBSET nodes
  <2> DEFINE f == [n \in D |-> pairs[n][1]]
  <2>1. f \in Surjection(D, sources)
    BY <1>4 DEF Surjection
  <2>2. sources \in SUBSET nodes
    BY <1>6 DEF Searched
  <2> HIDE DEF f, sources
  <2> QED BY <1>5, <2>1, <2>2, FS_Surjection
<1>8. starts \in Orders(sources)
  <2> HIDE DEF sources
  <2> QED BY <1>7, OrderLists
<1>9. \A n \in DOMAIN pairs : pairs[n][1] \in sources
  OBVIOUS
<1> HIDE DEF starts, sources
<1>10. starts \in Seq(nodes) /\ \A n \in DOMAIN pairs : \E i \in 1..Len(starts) : starts[i] = pairs[n][1]
  <2>1. starts \in Seq(sources) /\ \A x \in sources : \E i \in 1..Len(starts) : starts[i] = x
    BY <1>7, <1>8, OrderLists
  <2>2. starts \in Seq(nodes)
    BY <1>7, <2>1
  <2> QED BY <1>9, <2>1, <2>2
<1>11. ~\E S \in SUBSET nodes : S # {} /\ Looping(S, pairs)
  BY <1>3, <1>6, <1>10, SearchFinds
<1>12. /\ \A p \in E : \E n \in DOMAIN pairs : pairs[n] = p
       /\ \A n \in DOMAIN pairs : pairs[n] \in E
  BY <1>4
<1> HIDE DEF E
<1>13. ~HasLoop(E)
  BY <1>6, <1>11, <1>12, LoopsAgree
<1> QED BY <1>13 DEF E, D, edges

-----------------------------------------------------------------------------
(* No draft that was saved, or brought in from whatever file, has a loop   *)
(* of edges of one type, and the search refuses none that has no loop,     *)
(* for graphs of any size and any order of its starts (LoopsAreRefused).   *)
THEOREM LoopsNeverSaved == Spec => []LoopsAreRefused
<1>1. IInv => LoopsAreRefused
  <2> SUFFICES ASSUME IInv, NEW w \in Workspace, NEW d \in Draft, drafts[w][d] # NULL, NEW type \in Directed
               PROVE  LET edges == drafts[w][d].content.edges IN
                      ~HasLoop({<<edges[n][1], edges[n][2]>> : n \in {m \in DOMAIN edges : edges[m][3] = type}})
    BY SearchRight DEF LoopsAreRefused
  <2> DEFINE row == drafts[w][d]
             last == revs[w][d][row.rev]
  <2>1. row \in HeadRow /\ row.rev \in 1..MaxRev /\ row.content \in Content
    BY DraftRows DEF IInv, TypeOK, HeadRow
  <2>2. last # NULL /\ last.content = row.content
    <3>1. MaxRev \in Nat
      BY BoundAssumption
    <3> HIDE DEF row
    <3>2. row.rev \in 1..row.rev
      BY <2>1, <3>1
    <3> QED BY <3>2 DEF IInv, HistoryIsWhole, row
  <2>3. ValidEdges(row.content)
    <3> HIDE DEF row, last
    <3> QED BY <2>1, <2>2 DEF IInv, RevisionsAreValid, last
  <2> HIDE DEF row
  <2> QED BY <2>1, <2>3, ValidHasNoLoop DEF row
<1> QED BY <1>1, Invariance, PTL
=============================================================================
