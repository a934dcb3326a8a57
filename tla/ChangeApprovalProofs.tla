------------------------ MODULE ChangeApprovalProofs ------------------------
(***************************************************************************)
(* Proofs about ChangeApproval, for every set of people, delegations,      *)
(* change sets and contents, and every bound.                              *)
(***************************************************************************)
EXTENDS ChangeApproval, TLAPS

-----------------------------------------------------------------------------
(* A row approved before approving applied has the shape of a row. *)
LEMMA LegacyRowType ==
  ASSUME NEW p \in Person, NEW content \in Content, role \in [Person -> Role],
         plan \in SUBSET (Change \cup Edit)
  PROVE  LegacyRow(p, content) \in ChangeRow
BY DEF LegacyRow, ChangeRow, Version, WorkspaceVersion

(* The initial states have the right types. *)
LEMMA TypeInit == Init => TypeOK
<1> SUFFICES ASSUME Init PROVE TypeOK
  OBVIOUS
<1>1. ConnTypeOK
  BY DEF Init, ConnInit, ConnTypeOK, ConnectionRow, ConnectionStatus
<1>2. role \in [Person -> Role] /\ plan \in SUBSET (Change \cup Edit)
  BY BoundAssumption DEF Init
<1>3. changes \in [Change -> ChangeRow \cup {NULL}]
  <2>1. {LegacyRow(p, c) : p \in {q \in Person : role[q] \in Writers}, c \in Content}
           \subseteq ChangeRow
    BY <1>2, LegacyRowType
  <2> QED BY <2>1 DEF Init
<1>4. /\ range \in [Connection -> RangeRow \cup {NULL}]
      /\ call \in [Connection -> Scope \cup {NULL}]
      /\ leaving \in [Connection -> Leaving]
  BY DEF Init, Leaving
<1> QED BY <1>1, <1>2, <1>3, <1>4 DEF TypeOK

(* Granting scopes on either screen keeps the type of the delegations. *)
LEMMA GrantType ==
  ASSUME TypeOK, NEW k \in Connection, NEW scopes \in ScopeChoices,
         ApproveConnection(k, scopes) \/ GrantFromConsent(k, scopes)
  PROVE  ConnTypeOK'
BY ScopeAssumption
   DEF TypeOK, ConnTypeOK, ConnectionRow, ConnectionStatus, ApproveConnection,
       GrantFromConsent, SetConnection

(* Storing a row of the right shape keeps the collection's type. *)
LEMMA StoreType ==
  ASSUME TypeOK, NEW c \in Change, NEW row \in ChangeRow,
         changes' = [changes EXCEPT ![c] = row]
  PROVE  changes' \in [Change -> ChangeRow \cup {NULL}]
BY DEF TypeOK

(* So does writing a row's operations into the plan. *)
LEMMA WriteType ==
  ASSUME TypeOK, NEW c \in Change, NEW row \in ChangeRow, Write(c, row)
  PROVE  /\ changes' \in [Change -> ChangeRow \cup {NULL}]
         /\ plan' \in SUBSET (Change \cup Edit)
BY StoreType DEF TypeOK, Write, Written, Removable

(* Storing a proposal keeps the collection's type. *)
LEMMA PreviewType ==
  ASSUME TypeOK, NEW c \in Change, NEW content \in Content,
         NEW via \in Connection \cup {NULL}, Preview(c, content, via)
  PROVE  changes' \in [Change -> ChangeRow \cup {NULL}]
<1> DEFINE row == [status |-> "pending", content |-> content, via |-> via,
                   base |-> WorkspaceVersion, expired |-> FALSE,
                   approvedBy |-> NULL, approvedHash |-> NULL,
                   appliedBy |-> NULL, rule |-> NULL]
<1>1. row \in ChangeRow
  BY DEF TypeOK, ChangeRow, Version, WorkspaceVersion
<1>2. changes' = [changes EXCEPT ![c] = row]
  BY DEF Preview
<1> QED BY <1>1, <1>2, StoreType

(* So does withdrawing one. *)
LEMMA RejectType ==
  ASSUME TypeOK, NEW c \in Change, Reject(c)
  PROVE  changes' \in [Change -> ChangeRow \cup {NULL}]
<1>1. changes[c] \in ChangeRow
  BY DEF TypeOK, Reject
<1>2. [changes[c] EXCEPT !.status = "rejected", !.approvedHash = NULL] \in ChangeRow
  BY <1>1 DEF ChangeRow
<1>3. changes' = [changes EXCEPT ![c] = [changes[c] EXCEPT !.status = "rejected",
                                                          !.approvedHash = NULL]]
  BY <1>1 DEF Reject, TypeOK, ChangeRow
<1> QED BY <1>2, <1>3, StoreType

(* And the two ways an apply writes a row. *)
LEMMA ApplyApprovedType ==
  ASSUME TypeOK, NEW p \in Person, NEW c \in Change, ApplyApproved(p, c)
  PROVE  changes' \in [Change -> ChangeRow \cup {NULL}] /\ plan' \in SUBSET (Change \cup Edit)
<1>1. changes[c] \in ChangeRow
  BY DEF TypeOK, ApplyApproved
<1>2. Commit(changes[c], p) \in ChangeRow
  BY <1>1 DEF Commit, ChangeRow
<1> QED BY <1>2, WriteType DEF ApplyApproved

LEMMA ApplyCoveredType ==
  ASSUME TypeOK, NEW k \in Connection, NEW c \in Change, ApplyCovered(k, c)
  PROVE  changes' \in [Change -> ChangeRow \cup {NULL}] /\ plan' \in SUBSET (Change \cup Edit)
<1>1. changes[c] \in ChangeRow
  BY DEF TypeOK, ApplyCovered
<1>2. Commit([changes[c] EXCEPT !.rule = k], OwnerOf[k]) \in ChangeRow
  BY <1>1, OwnerAssumption DEF Commit, ChangeRow
<1> QED BY <1>2, WriteType DEF ApplyCovered

(* No step breaks a type. *)
LEMMA TypeStep == TypeOK /\ [Next]_vars => TypeOK'
<1> SUFFICES ASSUME TypeOK, [Next]_vars PROVE TypeOK'
  OBVIOUS
<1>1. ASSUME NEW p \in Person, NEW c \in Change, PersonPreviews(p, c) PROVE TypeOK'
  BY <1>1, PreviewType DEF PersonPreviews, Preview, TypeOK, ConnTypeOK
<1>2. ASSUME NEW p \in Person, NEW c \in Change, PersonRejects(p, c) PROVE TypeOK'
  BY <1>2, RejectType DEF PersonRejects, Reject, TypeOK, ConnTypeOK
<1>3. ASSUME NEW p \in Person, NEW c \in Change, Approve(p, c) PROVE TypeOK'
  <2>1. Commit([changes[c] EXCEPT !.approvedBy = p, !.approvedHash = changes[c].content], p)
           \in ChangeRow
    <3>1. changes[c] \in ChangeRow
      BY <1>3 DEF TypeOK, Approve
    <3>2. [changes[c] EXCEPT !.approvedBy = p, !.approvedHash = changes[c].content] \in ChangeRow
      BY <3>1 DEF ChangeRow
    <3> QED BY <3>2 DEF Commit, ChangeRow
  <2>2. changes' \in [Change -> ChangeRow \cup {NULL}] /\ plan' \in SUBSET (Change \cup Edit)
    BY <1>3, <2>1, WriteType DEF Approve
  <2> QED BY <1>3, <2>2 DEF Approve, TypeOK, ConnTypeOK
<1>4. ASSUME NEW p \in Person, NEW c \in Change, PersonApplies(p, c) PROVE TypeOK'
  BY <1>4, ApplyApprovedType DEF PersonApplies, ApplyApproved, TypeOK, ConnTypeOK
<1>5. ASSUME NEW k \in Connection, NEW c \in Change, AgentPreviews(k, c) PROVE TypeOK'
  <2>1. changes' \in [Change -> ChangeRow \cup {NULL}]
    BY <1>5, PreviewType DEF AgentPreviews
  <2>2. call' \in [Connection -> Scope \cup {NULL}]
    BY <1>5 DEF AgentPreviews, Handle, TypeOK
  <2> QED BY <1>5, <2>1, <2>2 DEF AgentPreviews, Preview, TypeOK, ConnTypeOK
<1>6. ASSUME NEW k \in Connection, NEW c \in Change, AgentRejects(k, c) PROVE TypeOK'
  <2>1. changes' \in [Change -> ChangeRow \cup {NULL}]
    BY <1>6, RejectType DEF AgentRejects
  <2>2. call' \in [Connection -> Scope \cup {NULL}]
    BY <1>6 DEF AgentRejects, Handle, TypeOK
  <2> QED BY <1>6, <2>1, <2>2 DEF AgentRejects, Reject, TypeOK, ConnTypeOK
<1>7. ASSUME NEW k \in Connection, NEW c \in Change, AgentApplies(k, c) PROVE TypeOK'
  <2>1. changes' \in [Change -> ChangeRow \cup {NULL}] /\ plan' \in SUBSET (Change \cup Edit)
    BY <1>7, ApplyApprovedType, ApplyCoveredType, OwnerAssumption DEF AgentApplies
  <2>2. call' \in [Connection -> Scope \cup {NULL}]
    BY <1>7 DEF AgentApplies, Handle, TypeOK
  <2>3. UNCHANGED <<conn, role, range, leaving>>
    BY <1>7 DEF AgentApplies, ApplyApproved, ApplyCovered
  <2> QED BY <2>1, <2>2, <2>3 DEF TypeOK, ConnTypeOK
<1>8. ASSUME NEW k \in Connection, Authenticate(k) \/ AgentAnswered(k) PROVE TypeOK'
  BY <1>8 DEF Authenticate, AgentAnswered, TypeOK, ConnTypeOK
<1>9. ASSUME NEW k \in Connection, SaveRange(k) PROVE TypeOK'
  <2>1. range' \in [Connection -> RangeRow \cup {NULL}]
    <3>1. PICK permits \in RangeChoices :
             range' = [range EXCEPT ![k] = [permits |-> permits, revoked |-> FALSE,
                          expired |-> FALSE, overlapped |-> leaving[k] = "empty"]]
      BY <1>9 DEF SaveRange
    <3> DEFINE overlapped == leaving[k] = "empty"
    <3>2. overlapped \in BOOLEAN
      OBVIOUS
    <3> HIDE DEF overlapped
    <3>3. [permits |-> permits, revoked |-> FALSE, expired |-> FALSE,
           overlapped |-> overlapped] \in RangeRow
      BY <3>2 DEF RangeRow
    <3>4. [permits |-> permits, revoked |-> FALSE, expired |-> FALSE,
           overlapped |-> leaving[k] = "empty"] \in RangeRow
      BY <3>3 DEF overlapped
    <3> QED BY <3>1, <3>4 DEF TypeOK
  <2> QED BY <1>9, <2>1 DEF SaveRange, TypeOK, ConnTypeOK
<1>10. ASSUME NEW k \in Connection, RevokeRange(k) \/ ExpireRange(k) \/ FinishDisconnect(k)
       PROVE  TypeOK'
  <2>1. range' \in [Connection -> RangeRow \cup {NULL}]
    <3>1. \A r \in RangeRow \cup {NULL} : Revoked(r) \in RangeRow \cup {NULL}
      BY DEF Revoked, RangeRow
    <3>2. CASE RevokeRange(k) \/ FinishDisconnect(k)
      BY <3>1, <3>2 DEF RevokeRange, FinishDisconnect, TypeOK
    <3>3. CASE ExpireRange(k)
      BY <3>3 DEF ExpireRange, Active, TypeOK, RangeRow
    <3> QED BY <1>10, <3>2, <3>3
  <2>2. ConnTypeOK'
    BY <1>10 DEF RevokeRange, ExpireRange, FinishDisconnect, RevokeConnection, SetConnection,
                 TypeOK, ConnTypeOK, ConnectionRow, ConnectionStatus
  <2>3. leaving' \in [Connection -> Leaving]
    BY <1>10 DEF RevokeRange, ExpireRange, FinishDisconnect, TypeOK, Leaving
  <2> QED BY <1>10, <2>1, <2>2, <2>3 DEF RevokeRange, ExpireRange, FinishDisconnect, TypeOK
<1>11. ASSUME NEW k \in Connection, Connect(k) \/ Grant(k) PROVE TypeOK'
  <2>1. ConnTypeOK'
    BY <1>11, GrantType DEF Connect, Grant, EnsurePending, SetConnection, TypeOK, ConnTypeOK,
                            ConnectionRow, ConnectionStatus
  <2> QED BY <1>11, <2>1 DEF Connect, Grant, TypeOK
<1>12. ASSUME NEW p \in Person, EditPlan(p) PROVE TypeOK'
  BY <1>12 DEF EditPlan, TypeOK, ConnTypeOK
<1>13. ASSUME NEW p \in Person, NEW next \in Role, ChangeMember(p, next) PROVE TypeOK'
  BY <1>13 DEF ChangeMember, TypeOK, ConnTypeOK
<1>14. ASSUME NEW c \in Change, ExpireChange(c) PROVE TypeOK'
  <2>1. changes' \in [Change -> ChangeRow \cup {NULL}]
    <3>1. changes[c] \in ChangeRow
      BY <1>14 DEF ExpireChange, TypeOK
    <3>2. [changes[c] EXCEPT !.expired = TRUE] \in ChangeRow
      BY <3>1 DEF ChangeRow
    <3>3. changes' = [changes EXCEPT ![c] = [changes[c] EXCEPT !.expired = TRUE]]
      BY <1>14 DEF ExpireChange
    <3> QED BY <3>2, <3>3, StoreType
  <2> QED BY <1>14, <2>1 DEF ExpireChange, TypeOK, ConnTypeOK
<1>15. CASE UNCHANGED vars
  BY <1>15 DEF vars, TypeOK, ConnTypeOK
<1>16. ASSUME NEW k \in Connection, BeginDisconnect(k) \/ AbortDisconnect(k) PROVE TypeOK'
  BY <1>16 DEF BeginDisconnect, AbortDisconnect, TypeOK, ConnTypeOK, Leaving
<1> QED
  BY <1>1, <1>2, <1>3, <1>4, <1>5, <1>6, <1>7, <1>8, <1>9, <1>10, <1>11, <1>12, <1>13,
     <1>14, <1>15, <1>16
  DEF Next

(* Every state of every behaviour has the right types. *)
THEOREM TypeCorrect == Spec => []TypeOK
BY TypeInit, TypeStep, PTL DEF Spec

-----------------------------------------------------------------------------
(* What is known of ranges and of open disconnects. *)
Overlaps == OnlyOverlappedOutlives /\ FoundNone

(* What a step has to show of the range it changes, and of the delegation. *)
Accounted(k) ==
  /\ Standing(k) => conn[k].status = "active" \/ range[k].overlapped
  /\ leaving[k] = "empty" /\ Standing(k) => range[k].overlapped

LEMMA OverlapsEach == Overlaps <=> \A k \in Connection : Accounted(k)
BY DEF Overlaps, OnlyOverlappedOutlives, FoundNone, Accounted

(* No step leaves a range standing without its delegation, except one that *)
(* was saved while a disconnect was under way.                             *)
LEMMA RangeStep == TypeOK /\ Overlaps /\ [Next]_vars => Overlaps'
<1> SUFFICES ASSUME TypeOK, Overlaps, [Next]_vars, NEW k \in Connection
             PROVE  Accounted(k)'
  BY OverlapsEach DEF Overlaps, OnlyOverlappedOutlives, FoundNone, Accounted
<1>0. Accounted(k)
  BY OverlapsEach
<1> USE DEF TypeOK, ConnTypeOK, ConnectionRow, RangeRow
<1>1. ASSUME conn'[k] = conn[k], range'[k] = range[k], leaving'[k] = leaving[k]
      PROVE  Accounted(k)'
  BY <1>0, <1>1 DEF Accounted, Standing
<1>2. ASSUME SaveRange(k) PROVE Accounted(k)'
  <2>1. conn[k].status = "active" /\ conn' = conn /\ leaving' = leaving
    BY <1>2 DEF SaveRange, Allows
  <2>2. range'[k].overlapped = (leaving[k] = "empty")
    BY <1>2 DEF SaveRange
  <2> QED BY <2>1, <2>2 DEF Accounted
<1>3. ASSUME RevokeRange(k) PROVE Accounted(k)'
  <2>1. range'[k].revoked
    BY <1>3 DEF RevokeRange, Revoked
  <2> QED BY <2>1 DEF Accounted, Standing
<1>4. ASSUME ExpireRange(k) PROVE Accounted(k)'
  <2>1. /\ range[k] # NULL /\ range[k] \in RangeRow
        /\ range'[k] = [range[k] EXCEPT !.expired = TRUE]
        /\ conn' = conn /\ leaving' = leaving
    BY <1>4 DEF ExpireRange, Active
  <2>2. /\ range'[k].revoked = range[k].revoked
        /\ range'[k].overlapped = range[k].overlapped
    BY <2>1
  <2> QED BY <1>0, <2>1, <2>2 DEF Accounted, Standing
<1>5. ASSUME Connect(k) \/ Grant(k) PROVE Accounted(k)'
  <2>1. range' = range /\ leaving' = leaving
    BY <1>5 DEF Connect, Grant
  <2>2. conn'[k].status = "active" \/ conn[k].status # "active"
    <3>1. CASE Connect(k)
      BY <3>1 DEF Connect, EnsurePending
    <3>2. CASE Grant(k)
      BY <3>2 DEF Grant, ApproveConnection, GrantFromConsent, SetConnection
    <3> QED BY <1>5, <3>1, <3>2
  <2> QED BY <1>0, <2>1, <2>2 DEF Accounted, Standing
<1>6. ASSUME BeginDisconnect(k) PROVE Accounted(k)'
  <2>1. conn' = conn /\ range' = range
    BY <1>6 DEF BeginDisconnect
  <2>2. leaving'[k] = "empty" => ~Standing(k)
    BY <1>6 DEF BeginDisconnect, Standing
  <2> QED BY <1>0, <2>1, <2>2 DEF Accounted, Standing
<1>7. ASSUME FinishDisconnect(k) PROVE Accounted(k)'
  <2>1. leaving[k] \in {"held", "empty"} /\ leaving'[k] = "no"
    BY <1>7 DEF FinishDisconnect, Leaving
  <2>2. CASE leaving[k] = "held"
    <3>1. range'[k] = Revoked(range[k])
      BY <1>7, <2>2 DEF FinishDisconnect
    <3>2. range'[k] = NULL \/ range'[k].revoked
      BY <3>1 DEF Revoked
    <3> QED BY <2>1, <3>2 DEF Accounted, Standing
  <2>3. CASE leaving[k] = "empty"
    <3>1. range' = range
      BY <1>7, <2>3 DEF FinishDisconnect
    <3> QED BY <1>0, <2>1, <2>3, <3>1 DEF Accounted, Standing
  <2> QED BY <2>1, <2>2, <2>3
<1>8. ASSUME AbortDisconnect(k) PROVE Accounted(k)'
  <2>1. conn' = conn /\ range' = range /\ leaving'[k] = "no"
    BY <1>8 DEF AbortDisconnect
  <2> QED BY <1>0, <2>1 DEF Accounted, Standing
<1>9. ASSUME NEW j \in Connection, j # k,
             \/ SaveRange(j) \/ RevokeRange(j) \/ ExpireRange(j) \/ Connect(j) \/ Grant(j)
             \/ BeginDisconnect(j) \/ FinishDisconnect(j) \/ AbortDisconnect(j)
      PROVE  Accounted(k)'
  <2>1. conn'[k] = conn[k]
    BY <1>9 DEF SaveRange, RevokeRange, ExpireRange, Connect, Grant, BeginDisconnect,
       FinishDisconnect, AbortDisconnect, EnsurePending, ApproveConnection, GrantFromConsent,
       RevokeConnection, SetConnection
  <2>2. range'[k] = range[k]
    BY <1>9 DEF SaveRange, RevokeRange, ExpireRange, Connect, Grant, BeginDisconnect,
       FinishDisconnect, AbortDisconnect
  <2>3. leaving'[k] = leaving[k]
    BY <1>9 DEF SaveRange, RevokeRange, ExpireRange, Connect, Grant, BeginDisconnect,
       FinishDisconnect, AbortDisconnect
  <2> QED BY <1>1, <2>1, <2>2, <2>3
<1> HIDE DEF TypeOK, ConnTypeOK, ConnectionRow, RangeRow
<1>10. \/ UNCHANGED <<conn, range, leaving>>
       \/ \E j \in Connection :
             \/ SaveRange(j) \/ RevokeRange(j) \/ ExpireRange(j) \/ Connect(j) \/ Grant(j)
             \/ BeginDisconnect(j) \/ FinishDisconnect(j) \/ AbortDisconnect(j)
  BY DEF Next, vars, PersonPreviews, PersonRejects, Approve, PersonApplies, AgentPreviews,
         AgentRejects, AgentApplies, Preview, Reject, ApplyApproved, ApplyCovered,
         Authenticate, AgentAnswered, EditPlan, ChangeMember, ExpireChange
<1> QED BY <1>1, <1>2, <1>3, <1>4, <1>5, <1>6, <1>7, <1>8, <1>9, <1>10

(* However saves, grants and disconnects of any number of people and       *)
(* clients interleave, a range outlives its delegation only if it was      *)
(* saved while the disconnect was under way (mcp_auth::revoke).            *)
THEOREM RangesHaveDelegations == Spec => []OnlyOverlappedOutlives
<1>1. Init => Overlaps
  BY DEF Init, Overlaps, OnlyOverlappedOutlives, FoundNone, Standing
<1>2. Overlaps => OnlyOverlappedOutlives
  BY DEF Overlaps
<1> QED BY <1>1, <1>2, TypeInit, TypeStep, RangeStep, PTL DEF Spec

-----------------------------------------------------------------------------
(* The trail is about changes and plan alone. *)
LEMMA TrailKept ==
  ASSUME TypeOK, Trail, UNCHANGED changes, plan' \cap Change \subseteq plan
  PROVE  Trail'
<1> USE DEF Trail, InPlan
<1>1. AppliedWasDecided'
  BY DEF AppliedWasDecided, DecidedByPerson, DecidedInAdvance
<1>2. OneSawTheOther'
  BY DEF OneSawTheOther
<1>3. UndecidedNamesNobody'
  BY DEF UndecidedNamesNobody
<1>4. InPlanWasApplied'
  BY DEF InPlanWasApplied
<1> QED BY <1>1, <1>2, <1>3, <1>4

(* Storing a row that is not applied in place of one that was not keeps    *)
(* the trail, if an undecided row names nobody.                            *)
LEMMA TrailStore ==
  ASSUME TypeOK, Trail, NEW c \in Change, NEW row \in ChangeRow, UNCHANGED plan,
         changes' = [changes EXCEPT ![c] = row], row.status # "applied",
         changes[c] = NULL \/ changes[c].status # "applied",
         row.status = "pending" => row.approvedBy = NULL /\ row.rule = NULL,
         row.status = "approved" => row.rule = NULL
  PROVE  Trail'
<1>1. changes'[c] = row /\ \A d \in Change \ {c} : changes'[d] = changes[d]
  BY DEF TypeOK
<1>2. AppliedWasDecided'
  BY <1>1 DEF Trail, AppliedWasDecided, DecidedByPerson, DecidedInAdvance
<1>3. c \notin InPlan /\ InPlan' = InPlan
  BY DEF Trail, InPlanWasApplied, InPlan
<1>4. OneSawTheOther'
  BY <1>1, <1>3 DEF Trail, OneSawTheOther, InPlan
<1>5. UndecidedNamesNobody'
  BY <1>1 DEF Trail, UndecidedNamesNobody
<1>6. InPlanWasApplied'
  BY <1>1, <1>3 DEF Trail, InPlanWasApplied, InPlan
<1> QED BY <1>2, <1>4, <1>5, <1>6 DEF Trail

(* Writing a decided row that was previewed on the present plan keeps the  *)
(* trail: whatever else is in the plan afterwards was in it before.        *)
LEMMA TrailWrite ==
  ASSUME TypeOK, Trail, NEW c \in Change, NEW row \in ChangeRow, Write(c, row),
         row.status = "applied", row.base.plan = plan,
         DecidedByPerson(row) \/ DecidedInAdvance(row)
  PROVE  Trail'
<1>1. changes'[c] = row /\ \A d \in Change \ {c} : changes'[d] = changes[d]
  BY DEF TypeOK, Write
<1>2. AppliedWasDecided'
  BY <1>1 DEF Trail, AppliedWasDecided, DecidedByPerson, DecidedInAdvance
<1>3. \A d \in InPlan' : d # c => d \in InPlan
  BY DEF Write, Written, InPlan
<1>4. row # NULL
  BY RowAssumption
<1>5. OneSawTheOther'
  <2> SUFFICES ASSUME NEW a \in InPlan', NEW b \in InPlan', a # b
               PROVE  a \in changes'[b].base.plan \/ b \in changes'[a].base.plan
    BY DEF OneSawTheOther, InPlan
  <2>1. a \in Change /\ b \in Change
    BY DEF InPlan
  <2>2. CASE a = c
    BY <1>1, <1>3, <2>2 DEF InPlan
  <2>3. CASE b = c
    BY <1>1, <1>3, <2>3 DEF InPlan
  <2>4. CASE a # c /\ b # c
    BY <1>1, <1>3, <2>1, <2>4 DEF Trail, OneSawTheOther
  <2> QED BY <2>2, <2>3, <2>4
<1>6. UndecidedNamesNobody'
  BY <1>1 DEF Trail, UndecidedNamesNobody
<1>7. InPlanWasApplied'
  BY <1>1, <1>3, <1>4 DEF Trail, InPlanWasApplied, InPlan
<1> QED BY <1>2, <1>5, <1>6, <1>7 DEF Trail

-----------------------------------------------------------------------------
(* The handlers, whoever calls them. *)
LEMMA TrailPreview ==
  ASSUME TypeOK, Trail, NEW c \in Change, NEW content \in Content,
         NEW via \in Connection \cup {NULL}, Preview(c, content, via)
  PROVE  Trail'
<1> DEFINE row == [status |-> "pending", content |-> content, via |-> via,
                   base |-> WorkspaceVersion, expired |-> FALSE,
                   approvedBy |-> NULL, approvedHash |-> NULL,
                   appliedBy |-> NULL, rule |-> NULL]
<1>1. row \in ChangeRow
  BY DEF TypeOK, ChangeRow, Version, WorkspaceVersion
<1>2. changes' = [changes EXCEPT ![c] = row] /\ UNCHANGED plan /\ changes[c] = NULL
  BY DEF Preview
<1>3. row.status = "pending" /\ row.approvedBy = NULL /\ row.rule = NULL
  OBVIOUS
<1> HIDE DEF row
<1> QED BY <1>1, <1>2, <1>3, TrailStore

LEMMA TrailReject ==
  ASSUME TypeOK, Trail, NEW c \in Change, Reject(c)
  PROVE  Trail'
<1> DEFINE row == [changes[c] EXCEPT !.status = "rejected", !.approvedHash = NULL]
<1>1. changes[c] \in ChangeRow /\ changes[c].status # "applied"
  BY DEF TypeOK, Reject
<1>2. row \in ChangeRow /\ row.status = "rejected"
  BY <1>1 DEF ChangeRow
<1>3. changes' = [changes EXCEPT ![c] = row] /\ UNCHANGED plan
  BY <1>1 DEF Reject, TypeOK, ChangeRow
<1> HIDE DEF row
<1> QED BY <1>1, <1>2, <1>3, TrailStore

LEMMA TrailExpire ==
  ASSUME TypeOK, Trail, NEW c \in Change, ExpireChange(c)
  PROVE  Trail'
<1> DEFINE row == [changes[c] EXCEPT !.expired = TRUE]
<1>1. changes[c] \in ChangeRow /\ changes[c].status \in {"pending", "approved"}
  BY DEF TypeOK, ExpireChange
<1>2. /\ row \in ChangeRow
      /\ row.status = changes[c].status
      /\ row.approvedBy = changes[c].approvedBy
      /\ row.rule = changes[c].rule
  BY <1>1 DEF ChangeRow
<1>3. changes' = [changes EXCEPT ![c] = row] /\ UNCHANGED plan
  BY DEF ExpireChange
<1>4. /\ row.status = "pending" => row.approvedBy = NULL /\ row.rule = NULL
      /\ row.status = "approved" => row.rule = NULL
  BY <1>1, <1>2 DEF Trail, UndecidedNamesNobody, ExpireChange
<1> HIDE DEF row
<1> QED BY <1>1, <1>2, <1>3, <1>4, TrailStore

LEMMA TrailApprove ==
  ASSUME TypeOK, Trail, NEW p \in Person, NEW c \in Change, Approve(p, c)
  PROVE  Trail'
<1> DEFINE row == Commit([changes[c] EXCEPT !.approvedBy = p,
                                            !.approvedHash = changes[c].content], p)
<1>1. changes[c] \in ChangeRow /\ changes[c].status = "pending" /\ changes[c].base.plan = plan
  BY DEF TypeOK, Approve, ValidPreview, WorkspaceVersion
<1>2. changes[c].rule = NULL
  BY <1>1 DEF Trail, UndecidedNamesNobody, Approve
<1>3. row \in ChangeRow /\ row.status = "applied" /\ row.base.plan = plan
  BY <1>1 DEF ChangeRow, Commit
<1>4. DecidedByPerson(row)
  BY <1>1, <1>2 DEF DecidedByPerson, ChangeRow, Commit
<1>5. Write(c, row)
  BY DEF Approve
<1> HIDE DEF row
<1> QED BY <1>3, <1>4, <1>5, TrailWrite

LEMMA TrailApplyApproved ==
  ASSUME TypeOK, Trail, NEW p \in Person, NEW c \in Change, ApplyApproved(p, c)
  PROVE  Trail'
<1> DEFINE row == Commit(changes[c], p)
<1>1. changes[c] \in ChangeRow /\ changes[c].status = "approved" /\ changes[c].base.plan = plan
  BY DEF TypeOK, ApplyApproved, ValidPreview, WorkspaceVersion
<1>2. changes[c].rule = NULL
  BY <1>1 DEF Trail, UndecidedNamesNobody, ApplyApproved
<1>3. row \in ChangeRow /\ row.status = "applied" /\ row.base.plan = plan
  BY <1>1 DEF ChangeRow, Commit
<1>4. DecidedByPerson(row)
  BY <1>1, <1>2 DEF DecidedByPerson, ChangeRow, Commit, ApplyApproved
<1>5. Write(c, row)
  BY DEF ApplyApproved
<1> HIDE DEF row
<1> QED BY <1>3, <1>4, <1>5, TrailWrite

LEMMA TrailApplyCovered ==
  ASSUME TypeOK, Trail, NEW k \in Connection, NEW c \in Change, ApplyCovered(k, c)
  PROVE  Trail'
<1> DEFINE row == Commit([changes[c] EXCEPT !.rule = k], OwnerOf[k])
<1>1. changes[c] \in ChangeRow /\ changes[c].status = "pending" /\ changes[c].base.plan = plan
  BY DEF TypeOK, ApplyCovered, ValidPreview, WorkspaceVersion
<1>2. changes[c].approvedBy = NULL
  BY <1>1 DEF Trail, UndecidedNamesNobody, ApplyCovered
<1>3. row \in ChangeRow /\ row.status = "applied" /\ row.base.plan = plan
  BY <1>1, OwnerAssumption DEF ChangeRow, Commit
<1>4. /\ changes[c].via = k
      /\ changes[c].content.effects \subseteq {"created", "updated"}
  BY DEF ApplyCovered, Covering, Covers
<1>5. DecidedInAdvance(row)
  BY <1>1, <1>2, <1>4 DEF DecidedInAdvance, ChangeRow, Commit
<1>6. Write(c, row)
  BY DEF ApplyCovered
<1> HIDE DEF row
<1> QED BY <1>3, <1>5, <1>6, TrailWrite

(* No step breaks the trail. *)
LEMMA TrailStep == TypeOK /\ Trail /\ [Next]_vars => Trail'
<1> SUFFICES ASSUME TypeOK, Trail, [Next]_vars PROVE Trail'
  OBVIOUS
<1>1. ASSUME NEW p \in Person, NEW c \in Change,
             PersonPreviews(p, c) \/ PersonRejects(p, c) \/ Approve(p, c) \/ PersonApplies(p, c)
      PROVE  Trail'
  BY <1>1, TrailPreview, TrailReject, TrailApprove, TrailApplyApproved
     DEF PersonPreviews, PersonRejects, PersonApplies
<1>2. ASSUME NEW k \in Connection, NEW c \in Change,
             AgentPreviews(k, c) \/ AgentRejects(k, c) \/ AgentApplies(k, c)
      PROVE  Trail'
  BY <1>2, TrailPreview, TrailReject, TrailApplyApproved, TrailApplyCovered, OwnerAssumption
     DEF AgentPreviews, AgentRejects, AgentApplies
<1>3. ASSUME NEW c \in Change, ExpireChange(c) PROVE Trail'
  BY <1>3, TrailExpire
<1>4. ASSUME UNCHANGED <<changes, plan>> PROVE Trail'
  BY <1>4, TrailKept DEF TypeOK
<1>5. ASSUME NEW p \in Person, EditPlan(p) PROVE Trail'
  BY <1>5, TrailKept, EditAssumption DEF EditPlan, TypeOK
<1>6. \/ \E p \in Person, c \in Change :
            PersonPreviews(p, c) \/ PersonRejects(p, c) \/ Approve(p, c) \/ PersonApplies(p, c)
      \/ \E k \in Connection, c \in Change :
            AgentPreviews(k, c) \/ AgentRejects(k, c) \/ AgentApplies(k, c)
      \/ \E c \in Change : ExpireChange(c)
      \/ \E p \in Person : EditPlan(p)
      \/ UNCHANGED <<changes, plan>>
  BY DEF Next, vars, Authenticate, AgentAnswered, SaveRange, RevokeRange, ExpireRange,
         Connect, Grant, BeginDisconnect, FinishDisconnect, AbortDisconnect, ChangeMember
<1> QED BY <1>1, <1>2, <1>3, <1>4, <1>5, <1>6

(* Initially nothing has been written, and old approvals name no range. *)
LEMMA TrailInit == Init => Trail
<1> SUFFICES ASSUME Init PROVE Trail
  OBVIOUS
<1>1. \A c \in Change : changes[c] # NULL =>
          changes[c].status = "approved" /\ changes[c].rule = NULL
  BY DEF Init, LegacyRow
<1> QED
  BY <1>1 DEF Trail, AppliedWasDecided, OneSawTheOther, UndecidedNamesNobody, InPlanWasApplied, InPlan, Init

(* Everything in the plan was decided by the person it names, one change   *)
(* set at a time or in advance, and never a removal in advance.            *)
THEOREM PlanIsDecided == Spec => []AppliedWasDecided
<1>1. Trail => AppliedWasDecided
  BY DEF Trail
<1> QED BY <1>1, TypeInit, TypeStep, TrailInit, TrailStep, PTL DEF Spec

(* Of any two change sets that both left something in the plan, one was    *)
(* previewed on a plan in which the other already had, for any number of   *)
(* people and clients racing to have theirs written, and whatever is       *)
(* deleted in between.                                                     *)
THEOREM NoLostChange == Spec => []OneSawTheOther
<1>1. Trail => OneSawTheOther
  BY DEF Trail
<1> QED BY <1>1, TypeInit, TypeStep, TrailInit, TrailStep, PTL DEF Spec

-----------------------------------------------------------------------------
(* What a step does to the collection: nothing, or it stores one row, and  *)
(* then that row was not settled.                                          *)
LEMMA RowStep ==
  ASSUME TypeOK, [Next]_vars
  PROVE  \/ UNCHANGED changes
         \/ \E c \in Change : /\ ~Settled(c)
                            /\ \E row : changes' = [changes EXCEPT ![c] = row]
<1> DEFINE Stored == \E c \in Change : ~Settled(c) /\ (\E row : changes' = [changes EXCEPT ![c] = row])
<1>1. ASSUME NEW c \in Change, NEW content, NEW via, Preview(c, content, via) PROVE Stored
  BY <1>1 DEF Preview, Settled
<1>2. ASSUME NEW c \in Change, Reject(c) PROVE Stored
  <2>1. changes[c] \in ChangeRow /\ ~Settled(c)
    BY <1>2 DEF Reject, Settled, TypeOK
  <2>2. changes' = [changes EXCEPT ![c] = [changes[c] EXCEPT !.status = "rejected",
                                                            !.approvedHash = NULL]]
    BY <1>2, <2>1 DEF Reject, TypeOK, ChangeRow
  <2> QED BY <2>1, <2>2
<1>3. ASSUME NEW p \in Person, NEW c \in Change, Approve(p, c) \/ ApplyApproved(p, c) PROVE Stored
  BY <1>3 DEF Approve, ApplyApproved, Write, Settled
<1>4. ASSUME NEW k \in Connection, NEW c \in Change, ApplyCovered(k, c) PROVE Stored
  BY <1>4 DEF ApplyCovered, Write, Settled
<1>5. ASSUME NEW c \in Change, ExpireChange(c) PROVE Stored
  BY <1>5 DEF ExpireChange, Settled
<1>6. UNCHANGED changes \/ Stored
  <2> HIDE DEF Stored
  <2>1. ASSUME NEW p \in Person, NEW c \in Change,
               PersonPreviews(p, c) \/ PersonRejects(p, c) \/ Approve(p, c) \/ PersonApplies(p, c)
        PROVE  Stored
    BY <2>1, <1>1, <1>2, <1>3 DEF PersonPreviews, PersonRejects, PersonApplies
  <2>2. ASSUME NEW k \in Connection, NEW c \in Change,
               AgentPreviews(k, c) \/ AgentRejects(k, c) \/ AgentApplies(k, c)
        PROVE  Stored
    BY <2>2, <1>1, <1>2, <1>3, <1>4, OwnerAssumption DEF AgentPreviews, AgentRejects, AgentApplies
  <2>3. \/ UNCHANGED changes
        \/ \E p \in Person, c \in Change :
              PersonPreviews(p, c) \/ PersonRejects(p, c) \/ Approve(p, c) \/ PersonApplies(p, c)
        \/ \E k \in Connection, c \in Change :
              AgentPreviews(k, c) \/ AgentRejects(k, c) \/ AgentApplies(k, c)
        \/ \E c \in Change : ExpireChange(c)
    BY DEF Next, vars, Authenticate, AgentAnswered, SaveRange, RevokeRange, ExpireRange,
           Connect, Grant, BeginDisconnect, FinishDisconnect, AbortDisconnect, EditPlan, ChangeMember
  <2> QED BY <2>1, <2>2, <2>3, <1>5
<1> QED BY <1>6 DEF Stored

(* An applied or withdrawn change set never changes again, whatever        *)
(* arrives late: a second approval, an apply, a withdrawal.                *)
THEOREM SettledForGood == Spec => DecisionsAreFinal
<1>1. TypeOK /\ [Next]_vars =>
        [\A c \in Change : Settled(c) => changes'[c] = changes[c]]_vars
  <2> SUFFICES ASSUME TypeOK, [Next]_vars, NEW c \in Change, Settled(c)
               PROVE  changes'[c] = changes[c]
    OBVIOUS
  <2>1. CASE UNCHANGED changes
    BY <2>1
  <2>2. ASSUME NEW d \in Change, ~Settled(d), NEW row, changes' = [changes EXCEPT ![d] = row]
        PROVE  changes'[c] = changes[c]
    BY <2>2 DEF TypeOK
  <2> QED BY <2>1, <2>2, RowStep
<1> QED BY <1>1, TypeInit, TypeStep, PTL DEF Spec, DecisionsAreFinal

(* Only an apply inside a range names a range on a row. *)
LEMMA RuleStep ==
  ASSUME TypeOK, [Next]_vars, NEW c \in Change, changes[c] # NULL,
         changes'[c].rule # changes[c].rule
  PROVE  \E k \in Connection : /\ ApplyCovered(k, c) /\ MayWrite(OwnerOf[k])
                               /\ changes'[c].rule = k
<1> DEFINE Goal == \E k \in Connection : /\ ApplyCovered(k, c) /\ MayWrite(OwnerOf[k])
                                         /\ changes'[c].rule = k
<1>1. changes[c] \in ChangeRow
  BY DEF TypeOK
<1>2. ASSUME NEW d \in Change, NEW content, NEW via, Preview(d, content, via) PROVE FALSE
  BY <1>2 DEF Preview, TypeOK
<1>3. ASSUME NEW d \in Change, Reject(d) PROVE FALSE
  BY <1>1, <1>3 DEF Reject, TypeOK, ChangeRow
<1>4. ASSUME NEW p \in Person, NEW d \in Change, Approve(p, d) PROVE FALSE
  <2>1. changes' = [changes EXCEPT ![d] =
           Commit([changes[d] EXCEPT !.approvedBy = p, !.approvedHash = changes[d].content], p)]
    BY <1>4 DEF Approve, Write
  <2> QED BY <1>1, <2>1 DEF Commit, TypeOK, ChangeRow
<1>5. ASSUME NEW p \in Person, NEW d \in Change, ApplyApproved(p, d) PROVE FALSE
  <2>1. changes' = [changes EXCEPT ![d] = Commit(changes[d], p)]
    BY <1>5 DEF ApplyApproved, Write
  <2> QED BY <1>1, <2>1 DEF Commit, TypeOK, ChangeRow
<1>6. ASSUME NEW k \in Connection, NEW d \in Change, ApplyCovered(k, d), MayWrite(OwnerOf[k])
      PROVE  Goal
  <2>1. changes' = [changes EXCEPT ![d] = Commit([changes[d] EXCEPT !.rule = k], OwnerOf[k])]
    BY <1>6 DEF ApplyCovered, Write
  <2>2. d = c
    BY <1>1, <2>1 DEF TypeOK
  <2>3. changes'[c].rule = k
    BY <1>1, <2>1, <2>2 DEF Commit, TypeOK, ChangeRow
  <2> QED BY <1>6, <2>2, <2>3
<1>7. ASSUME NEW d \in Change, ExpireChange(d) PROVE FALSE
  BY <1>1, <1>7 DEF ExpireChange, TypeOK, ChangeRow
<1>8. ASSUME UNCHANGED changes PROVE FALSE
  BY <1>8
<1>9. ASSUME NEW p \in Person, NEW d \in Change,
             PersonPreviews(p, d) \/ PersonRejects(p, d) \/ Approve(p, d) \/ PersonApplies(p, d)
      PROVE  FALSE
  BY <1>9, <1>2, <1>3, <1>4, <1>5 DEF PersonPreviews, PersonRejects, PersonApplies
<1>10. ASSUME NEW k \in Connection, NEW d \in Change,
              AgentPreviews(k, d) \/ AgentRejects(k, d) \/ AgentApplies(k, d)
       PROVE  Goal
  <2> HIDE DEF Goal
  <2>1. OwnerOf[k] \in Person
    BY OwnerAssumption
  <2> QED BY <1>10, <2>1, <1>2, <1>3, <1>5, <1>6
          DEF AgentPreviews, AgentRejects, AgentApplies, Handle
<1>11. \/ UNCHANGED changes
       \/ \E p \in Person, d \in Change :
             PersonPreviews(p, d) \/ PersonRejects(p, d) \/ Approve(p, d) \/ PersonApplies(p, d)
       \/ \E k \in Connection, d \in Change :
             AgentPreviews(k, d) \/ AgentRejects(k, d) \/ AgentApplies(k, d)
       \/ \E d \in Change : ExpireChange(d)
  BY DEF Next, vars, Authenticate, AgentAnswered, SaveRange, RevokeRange, ExpireRange,
         Connect, Grant, BeginDisconnect, FinishDisconnect, AbortDisconnect, EditPlan, ChangeMember
<1> HIDE DEF Goal
<1>12. Goal
  BY <1>7, <1>8, <1>9, <1>10, <1>11
<1> QED BY <1>12 DEF Goal

(* A range writes only while it, the delegation and the membership all     *)
(* stand, whatever the call was authenticated with before.                 *)
THEOREM UnaskedIsAllowed == Spec => UnaskedOnlyWhileAllowed
<1> DEFINE Allowed(c) ==
      LET k == changes'[c].rule IN
      /\ Allows(k, "apply")
      /\ Active(range[k])
      /\ MayWrite(OwnerOf[k])
      /\ changes[c].content.guarded => range[k].permits.guarded
<1>1. TypeOK /\ Trail /\ [Next]_vars => [\A c \in Change : AppliesUnasked(c) => Allowed(c)]_vars
  <2> SUFFICES ASSUME TypeOK, Trail, [Next]_vars, NEW c \in Change, AppliesUnasked(c)
               PROVE  Allowed(c)
    OBVIOUS
  <2>1. changes[c] # NULL /\ changes'[c].rule # changes[c].rule
    BY DEF AppliesUnasked, Trail, UndecidedNamesNobody
  <2>2. PICK k \in Connection : /\ ApplyCovered(k, c) /\ MayWrite(OwnerOf[k])
                               /\ changes'[c].rule = k
    BY <2>1, RuleStep
  <2> QED BY <2>2 DEF ApplyCovered, Covering, InForce, Covers
<1> HIDE DEF Allowed
<1>2. Spec => [][\A c \in Change : AppliesUnasked(c) => Allowed(c)]_vars
  BY <1>1, TypeInit, TypeStep, TrailInit, TrailStep, PTL DEF Spec
<1> QED BY <1>2 DEF Allowed, UnaskedOnlyWhileAllowed
=============================================================================
