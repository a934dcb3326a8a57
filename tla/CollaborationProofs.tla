------------------------- MODULE CollaborationProofs -------------------------
(***************************************************************************)
(* Proofs about Collaboration, for every set of accounts, colleagues and   *)
(* invitations, and every bound.                                           *)
(***************************************************************************)
EXTENDS Collaboration, TLAPS

-----------------------------------------------------------------------------
(* A new workspace has its creator and no invitation. *)
LEMMA InvInit == Init => IInv
<1> SUFFICES ASSUME Init PROVE IInv
  OBVIOUS
<1> USE DEF Init
<1>1. PICK p \in Colleague : role = [q \in Person |-> IF q = p THEN "owner" ELSE "none"]
  OBVIOUS
<1>2. TypeOK
  BY <1>1 DEF TypeOK, Role
<1>3. AlwaysAnOwner /\ MembersAreColleagues
  BY <1>1, ColleagueAssumption DEF AlwaysAnOwner, MembersAreColleagues, Member
<1>4. Sent = {}
  BY DEF Sent
<1>5. PendingFromOwner /\ AcceptedIsMember /\ OneWayIn
  BY <1>4 DEF PendingFromOwner, AcceptedIsMember, OneWayIn, Pending, Live
<1>6. AnswersAreTrue
  BY NullAssumption DEF AnswersAreTrue, Kind
<1>7. SavedAreSent
  BY DEF SavedAreSent
<1> QED BY <1>2, <1>3, <1>5, <1>6, <1>7 DEF IInv

(* An invitation sent by an owner. *)
LEMMA InviteStep ==
  ASSUME IInv, NEW p \in Person, NEW target \in Person, NEW r \in InvitedRole,
         NEW i \in Invitation, Invite(p, target, r, i)
  PROVE  IInv'
<1> USE DEF IInv
<1> DEFINE row == [target |-> target, role |-> r, status |-> "pending",
                   createdBy |-> p, expired |-> FALSE]
<1>1. row \in InvitationRow /\ row # NULL
  <2>1. row \in InvitationRow
    BY DEF InvitationRow, InvitedRole
  <2> HIDE DEF row
  <2> QED BY <2>1, NullAssumption
<1>2. /\ invitation' = [invitation EXCEPT ![i] = row]
      /\ role' = role /\ invitation[i] = NULL
      /\ role[p] = "owner" /\ role[target] = "none"
      /\ answer' = <<"invite", i>> /\ saved' = saved \cup {<<"invite", i>>}
      /\ version' = version + 1
  BY DEF Invite, Owner, Member, SaveWorkspace, Respond
<1>3. /\ invitation'[i] = row
      /\ \A j \in Invitation \ {i} : invitation'[j] = invitation[j]
  BY <1>2 DEF TypeOK
<1>4. TypeOK'
  BY <1>1, <1>2 DEF TypeOK, Kind
<1>5. AlwaysAnOwner' /\ MembersAreColleagues'
  BY <1>2 DEF AlwaysAnOwner, MembersAreColleagues, Member
<1>6. PendingFromOwner'
  BY <1>2, <1>3 DEF PendingFromOwner, Pending, Sent
<1>7. AcceptedIsMember'
  BY <1>2, <1>3 DEF AcceptedIsMember, Sent, Member
<1>8. OneWayIn'
  <2>1. \A j \in Invitation \ {i} : Live(j)' <=> Live(j)
    BY <1>3 DEF Live, Pending, Sent
  <2>2. \A j \in Invitation : Live(j) => invitation[j].target # target
    BY DEF Invite
  <2> QED BY <1>2, <1>3, <2>1, <2>2 DEF OneWayIn, Member
<1>9. AnswersAreTrue'
  BY <1>1, <1>2, <1>3 DEF AnswersAreTrue, Live, Pending, Sent
<1>10. SavedAreSent'
  BY <1>1, <1>2, <1>3 DEF SavedAreSent, Sent
<1> QED BY <1>4, <1>5, <1>6, <1>7, <1>8, <1>9, <1>10

(* A pending invitation that is withdrawn, declined or runs out. *)
LEMMA CloseStep ==
  ASSUME IInv, NEW i \in Invitation, Pending(i),
         role' = role, version' \in Nat, answer' = NULL, saved' = saved,
         NEW row \in InvitationRow,
         row.status \in {"declined", "revoked"} \/ row.expired,
         row.status # "accepted",
         row.createdBy = invitation[i].createdBy, row.target = invitation[i].target,
         invitation' = [invitation EXCEPT ![i] = row]
  PROVE  IInv'
<1> USE DEF IInv
<1>1. /\ invitation'[i] = row /\ row # NULL
      /\ \A j \in Invitation \ {i} : invitation'[j] = invitation[j]
  BY NullAssumption DEF TypeOK
<1>2. TypeOK'
  BY DEF TypeOK
<1>3. AlwaysAnOwner' /\ MembersAreColleagues'
  BY DEF AlwaysAnOwner, MembersAreColleagues, Member
<1>4. PendingFromOwner' /\ AcceptedIsMember'
  BY <1>1 DEF PendingFromOwner, AcceptedIsMember, Pending, Sent, Member
<1>5. \A j \in Invitation : Live(j)' => Live(j) /\ j # i
  BY <1>1 DEF Live, Pending, Sent
<1>6. OneWayIn'
  BY <1>1, <1>5 DEF OneWayIn, Member
<1>7. AnswersAreTrue'
  BY NullAssumption DEF AnswersAreTrue, Kind
<1>8. SavedAreSent'
  BY <1>1 DEF SavedAreSent, Sent
<1> QED BY <1>2, <1>3, <1>4, <1>6, <1>7, <1>8

(* A person joins by their own live invitation. *)
LEMMA AcceptStep ==
  ASSUME IInv, NEW i \in Invitation, Accept(i)
  PROVE  IInv'
<1> USE DEF IInv
<1> DEFINE p == invitation[i].target
           row == [invitation[i] EXCEPT !.status = "accepted"]
<1>1. /\ Live(i) /\ p \in Person /\ p \in Colleague /\ role[p] = "none"
      /\ invitation[i] \in InvitationRow
  BY DEF Accept, Redeemable, Live, Pending, Sent, TypeOK, InvitationRow, Member
<1>2. /\ row \in InvitationRow /\ row # NULL
      /\ row.status = "accepted" /\ row.target = p /\ row.createdBy = invitation[i].createdBy
  BY <1>1, NullAssumption DEF InvitationRow
<1>3. /\ invitation' = [invitation EXCEPT ![i] = row]
      /\ role' = [role EXCEPT ![p] = invitation[i].role]
      /\ answer' = <<"accept", i>> /\ saved' = saved \cup {<<"accept", i>>}
      /\ version' = version + 1
  BY DEF Accept, SaveWorkspace, Respond, TypeOK
<1>4. /\ invitation'[i] = row
      /\ \A j \in Invitation \ {i} : invitation'[j] = invitation[j]
      /\ role'[p] \in {"editor", "viewer"}
      /\ \A q \in Person \ {p} : role'[q] = role[q]
  BY <1>1, <1>3 DEF TypeOK, InvitationRow
<1>5. TypeOK'
  BY <1>1, <1>2, <1>3 DEF TypeOK, Kind, InvitationRow, Role
<1>6. AlwaysAnOwner' /\ MembersAreColleagues'
  BY <1>1, <1>4 DEF AlwaysAnOwner, MembersAreColleagues, Member
<1>7. PendingFromOwner'
  <2>1. \A j \in Invitation : Pending(j)' => Pending(j) /\ j # i
    BY <1>2, <1>4 DEF Pending, Sent
  <2>2. \A j \in Invitation : Pending(j) => /\ role[invitation[j].createdBy] = "owner"
                                            /\ invitation[j].createdBy \in Person
    BY DEF PendingFromOwner, Pending, Sent, TypeOK, InvitationRow
  <2> QED BY <1>1, <1>4, <2>1, <2>2 DEF PendingFromOwner
<1>8. AcceptedIsMember'
  <2>1. \A j \in Invitation : j \in Sent => invitation[j].target \in Person
    BY DEF Sent, TypeOK, InvitationRow
  <2>2. ASSUME NEW j \in Invitation, invitation'[j] # NULL, invitation'[j].status = "accepted"
        PROVE  role'[invitation'[j].target] # "none"
    <3>1. CASE j = i
      BY <1>2, <1>4, <3>1
    <3>2. CASE j # i
      <4>1. invitation'[j] = invitation[j] /\ j \in Sent
        BY <1>4, <2>2, <3>2 DEF Sent
      <4>2. invitation[j].target \in Person /\ role[invitation[j].target] # "none"
        BY <2>1, <2>2, <4>1 DEF AcceptedIsMember, Member
      <4> QED BY <1>4, <4>1, <4>2
    <3> QED BY <3>1, <3>2
  <2> QED BY <2>2 DEF AcceptedIsMember, Sent, Member
<1>9. OneWayIn'
  <2>1. \A j \in Invitation : Live(j)' => Live(j) /\ j # i
    BY <1>2, <1>4 DEF Live, Pending, Sent
  <2>2. \A j \in Invitation : Live(j) /\ j # i =>
           invitation[j].target # p /\ invitation[j].target \in Person
    BY <1>1 DEF OneWayIn, Live, Pending, Sent, TypeOK, InvitationRow
  <2> QED BY <1>4, <2>1, <2>2 DEF OneWayIn, Member
<1>10. AnswersAreTrue'
  BY <1>2, <1>3, <1>4 DEF AnswersAreTrue, Sent, Member
<1>11. SavedAreSent'
  BY <1>2, <1>3, <1>4 DEF SavedAreSent, Sent
<1> QED BY <1>5, <1>6, <1>7, <1>8, <1>9, <1>10, <1>11

(* A member's role changes, or they are removed, or they leave. *)
LEMMA ChangeRoleStep ==
  ASSUME IInv, NEW target \in Person, NEW next \in Role, ChangeRole(target, next)
  PROVE  IInv'
<1> USE DEF IInv
<1>1. /\ role[target] # "none" /\ KeepsAnOwner(target, next)
      /\ role' = [role EXCEPT ![target] = next]
      /\ answer' = NULL /\ saved' = saved /\ version' = version + 1
  BY DEF ChangeRole, Member, SaveWorkspace, Silently
<1>2. ASSUME NEW i \in Sent
      PROVE  /\ invitation[i] \in InvitationRow
             /\ invitation'[i] \in InvitationRow
             /\ invitation'[i].target = invitation[i].target
             /\ invitation'[i].createdBy = invitation[i].createdBy
             /\ invitation'[i].expired = invitation[i].expired
             /\ RevokedBy(invitation[i], target, next) => invitation'[i].status = "revoked"
             /\ ~RevokedBy(invitation[i], target, next) => invitation'[i] = invitation[i]
  <2>1. invitation[i] \in InvitationRow /\ i \in Invitation
    BY DEF Sent, TypeOK
  <2>2. invitation'[i] = IF RevokedBy(invitation[i], target, next)
                         THEN [invitation[i] EXCEPT !.status = "revoked"]
                         ELSE invitation[i]
    BY <2>1 DEF ChangeRole
  <2> QED BY <2>1, <2>2 DEF InvitationRow
<1>3. \A i \in Invitation \ Sent : invitation'[i] = NULL
  BY DEF ChangeRole, Sent
<1>4. Sent' = Sent
  BY <1>2, <1>3, NullAssumption DEF Sent
<1>5. role'[target] = next /\ \A q \in Person \ {target} : role'[q] = role[q]
  BY <1>1 DEF TypeOK
<1>6. TypeOK'
  <2>1. invitation' = [i \in Invitation |-> invitation'[i]]
    BY DEF ChangeRole
  <2>2. \A i \in Invitation : invitation'[i] \in InvitationRow \cup {NULL}
    BY <1>2, <1>3
  <2>3. invitation' \in [Invitation -> InvitationRow \cup {NULL}]
    BY <2>1, <2>2
  <2> QED BY <1>1, <2>3 DEF TypeOK
<1>7. AlwaysAnOwner'
  BY <1>1, <1>5 DEF AlwaysAnOwner, KeepsAnOwner
<1>8. MembersAreColleagues'
  BY <1>1, <1>5 DEF MembersAreColleagues, Member
<1>9. \A i \in Invitation : Pending(i)' =>
         /\ Pending(i)
         /\ ~RevokedBy(invitation[i], target, next)
  BY <1>2, <1>4 DEF Pending
<1>10. PendingFromOwner'
  <2> SUFFICES ASSUME NEW i \in Invitation, Pending(i)'
               PROVE  role'[invitation'[i].createdBy] = "owner"
    BY DEF PendingFromOwner
  <2>1. Pending(i) /\ ~RevokedBy(invitation[i], target, next) /\ i \in Sent
    BY <1>9 DEF Pending
  <2>2. role[invitation[i].createdBy] = "owner" /\ invitation[i].createdBy \in Person
    BY <2>1, <1>2 DEF PendingFromOwner, InvitationRow
  <2>3. invitation[i].createdBy = target => next = "owner"
    BY <2>1 DEF RevokedBy, Pending
  <2> QED BY <1>2, <1>5, <2>1, <2>2, <2>3
<1>11. AcceptedIsMember'
  <2> SUFFICES ASSUME NEW i \in Invitation, i \in Sent', invitation'[i].status = "accepted"
               PROVE  role'[invitation'[i].target] # "none"
    BY DEF AcceptedIsMember, Member
  <2>1. i \in Sent /\ ~RevokedBy(invitation[i], target, next) /\ invitation'[i] = invitation[i]
    BY <1>2, <1>4
  <2>2. role[invitation[i].target] # "none" /\ invitation[i].target \in Person
    BY <2>1, <1>2 DEF AcceptedIsMember, Member, InvitationRow
  <2>3. invitation[i].target = target => next # "none"
    BY <2>1 DEF RevokedBy
  <2> QED BY <1>5, <2>1, <2>2, <2>3
<1>12. OneWayIn'
  <2>1. \A i \in Invitation : Live(i)' => /\ Live(i) /\ i \in Sent
                                          /\ ~RevokedBy(invitation[i], target, next)
    BY <1>2, <1>9 DEF Live, Pending
  <2>2. \A i \in Sent : /\ invitation'[i].target = invitation[i].target
                        /\ invitation[i].target \in Person
    BY <1>2 DEF InvitationRow
  <2>3. \A i \in Invitation : Live(i) => invitation[i].target # target
    BY <1>1 DEF OneWayIn, Member
  <2> QED BY <1>5, <2>1, <2>2, <2>3 DEF OneWayIn, Member
<1>13. AnswersAreTrue'
  BY <1>1, NullAssumption DEF AnswersAreTrue, Kind
<1>14. SavedAreSent'
  BY <1>1, <1>4 DEF SavedAreSent
<1> QED BY <1>6, <1>7, <1>8, <1>10, <1>11, <1>12, <1>13, <1>14

(* A saved response is given back. *)
LEMMA ReplayStep ==
  ASSUME IInv, NEW kind \in Kind, NEW i \in Invitation, Replay(kind, i)
  PROVE  IInv'
<1> USE DEF IInv
<1>1. /\ UNCHANGED <<role, invitation, version, saved>>
      /\ answer' = <<kind, i>> /\ MayReplay(kind, i)
  BY DEF Replay
<1>2. TypeOK'
  BY <1>1 DEF TypeOK
<1>3. AlwaysAnOwner' /\ PendingFromOwner' /\ AcceptedIsMember' /\ OneWayIn' /\ MembersAreColleagues'
  BY <1>1 DEF AlwaysAnOwner, PendingFromOwner, AcceptedIsMember, OneWayIn,
              MembersAreColleagues, Member, Sent, Pending, Live
<1>4. AnswersAreTrue'
  <2> SUFFICES ASSUME NEW j \in Invitation, answer' = <<kind, j>>
               PROVE  /\ kind = "invite" => /\ Live(j)'
                                            /\ role'[invitation'[j].createdBy] = "owner"
                      /\ kind = "accept" => j \in Sent' /\ Member(invitation[j].target)'
    BY <1>1 DEF AnswersAreTrue, Member
  <2>1. i = j
    BY <1>1
  <2>2. CASE kind = "invite"
    BY <1>1, <2>1, <2>2 DEF MayReplay, Live, Pending, Sent, Owner
  <2>3. CASE kind = "accept"
    <3>1. invitation[i] # NULL
      BY DEF SavedAreSent, Replay, Sent
    <3> QED BY <1>1, <2>1, <2>3, <3>1 DEF MayReplay, Sent, Member
  <2> QED BY <2>2, <2>3 DEF Kind
<1>5. SavedAreSent'
  BY <1>1 DEF SavedAreSent, Sent
<1> QED BY <1>2, <1>3, <1>4, <1>5

(* No step breaks the invariant. *)
LEMMA InvStep == IInv /\ [Next]_vars => IInv'
<1> SUFFICES ASSUME IInv, [Next]_vars PROVE IInv'
  OBVIOUS
<1>1. ASSUME NEW p \in Person, NEW target \in Person, NEW i \in Invitation,
             NEW r \in InvitedRole, Invite(p, target, r, i)
      PROVE  IInv'
  BY <1>1, InviteStep
<1>2. ASSUME NEW i \in Invitation, NEW status \in {"revoked", "declined"}, Pending(i),
             invitation' = [invitation EXCEPT ![i].status = status],
             SaveWorkspace, Silently, UNCHANGED role
      PROVE  IInv'
  <2> DEFINE row == [invitation[i] EXCEPT !.status = status]
  <2>1. invitation[i] \in InvitationRow
    BY <1>2 DEF Pending, Sent, IInv, TypeOK
  <2>2. /\ row \in InvitationRow
        /\ row.status = status
        /\ row.createdBy = invitation[i].createdBy /\ row.target = invitation[i].target
    BY <2>1 DEF InvitationRow
  <2>3. version' \in Nat /\ answer' = NULL /\ saved' = saved
    BY <1>2 DEF SaveWorkspace, Silently, IInv, TypeOK
  <2>4. invitation' = [invitation EXCEPT ![i] = row]
    BY <1>2 DEF IInv, TypeOK
  <2> HIDE DEF row
  <2> QED BY <1>2, <2>2, <2>3, <2>4, CloseStep
<1>3. ASSUME NEW p \in Person, NEW i \in Invitation, RevokeInvitation(p, i) PROVE IInv'
  BY <1>2, <1>3 DEF RevokeInvitation
<1>4. ASSUME NEW i \in Invitation, Decline(i) PROVE IInv'
  BY <1>2, <1>4 DEF Decline, Redeemable, Live
<1>5. ASSUME NEW i \in Invitation, Expire(i) PROVE IInv'
  <2> DEFINE row == [invitation[i] EXCEPT !.expired = TRUE]
  <2>1. invitation[i] \in InvitationRow /\ Pending(i)
    BY <1>5 DEF Expire, Live, Pending, Sent, IInv, TypeOK
  <2>2. /\ row \in InvitationRow
        /\ row.expired /\ row.status # "accepted"
        /\ row.createdBy = invitation[i].createdBy /\ row.target = invitation[i].target
    BY <2>1 DEF InvitationRow, Pending
  <2>3. version' \in Nat /\ answer' = NULL /\ saved' = saved /\ role' = role
    BY <1>5 DEF Expire, Silently, IInv, TypeOK
  <2>4. invitation' = [invitation EXCEPT ![i] = row]
    BY <1>5 DEF Expire, IInv, TypeOK
  <2> HIDE DEF row
  <2> QED BY <2>1, <2>2, <2>3, <2>4, CloseStep
<1>6. ASSUME NEW i \in Invitation, Accept(i) PROVE IInv'
  BY <1>6, AcceptStep
<1>7. ASSUME NEW p \in Person, NEW target \in Person, NEW next \in Role,
             ChangeMember(p, target, next)
      PROVE  IInv'
  BY <1>7, ChangeRoleStep DEF ChangeMember
<1>8. ASSUME NEW p \in Person, Leave(p) PROVE IInv'
  BY <1>8, ChangeRoleStep DEF Leave, Role
<1>9. ASSUME NEW kind \in Kind, NEW i \in Invitation, Replay(kind, i) PROVE IInv'
  BY <1>9, ReplayStep
<1>10. ASSUME UNCHANGED <<role, invitation>>, Silently, version' \in Nat PROVE IInv'
  BY <1>10, NullAssumption
     DEF IInv, TypeOK, SavedAreSent, AlwaysAnOwner, PendingFromOwner, AcceptedIsMember,
         OneWayIn, MembersAreColleagues, AnswersAreTrue, Silently, Member, Sent, Pending, Live,
         Kind
<1>11. ASSUME NEW p \in Person, Rename(p) PROVE IInv'
  BY <1>10, <1>11 DEF Rename, SaveWorkspace, IInv, TypeOK
<1>12. CASE Read
  BY <1>10, <1>12 DEF Read, IInv, TypeOK
<1>13. CASE UNCHANGED vars
  BY <1>13
     DEF vars, IInv, TypeOK, SavedAreSent, AlwaysAnOwner, PendingFromOwner, AcceptedIsMember,
         OneWayIn, MembersAreColleagues, AnswersAreTrue, Member, Sent, Pending, Live
<1> QED BY <1>1, <1>3, <1>4, <1>5, <1>6, <1>7, <1>8, <1>9, <1>11, <1>12, <1>13 DEF Next

(* The invariant holds of every reachable state. *)
THEOREM Invariance == Spec => []IInv
  BY InvInit, InvStep, PTL DEF Spec

(* The workspace keeps an owner through every order of leaving, demoting   *)
(* and removing.                                                           *)
THEOREM OwnerRemains == Spec => []AlwaysAnOwner
  BY Invariance, PTL DEF IInv

(* Every pending invitation is the word of a present owner. *)
THEOREM InvitersOwn == Spec => []PendingFromOwner
  BY Invariance, PTL DEF IInv

(* Whoever is let in was let in once, by one invitation, from their tenant. *)
THEOREM OneInvitationEach == Spec => [](AcceptedIsMember /\ OneWayIn /\ MembersAreColleagues)
  BY Invariance, PTL DEF IInv

(* An answer, first or repeated, is true when it is given. *)
THEOREM RepliesAreTrue == Spec => []AnswersAreTrue
  BY Invariance, PTL DEF IInv

(* The version a page is checked against moves with every change of a      *)
(* member or of an invitation, so an older page decides nothing.           *)
THEOREM VersionMoves == Spec => VersionCoversMembers
<1> DEFINE Covered == \/ version' > version
                      \/ /\ role' = role
                         /\ \A i \in Sent : invitation'[i].status = invitation[i].status
<1>1. TypeOK /\ [Next]_vars => [Covered]_vars
  <2> SUFFICES ASSUME TypeOK, Next PROVE Covered
    BY DEF vars
  <2>1. SaveWorkspace => version' > version
    BY DEF SaveWorkspace, TypeOK
  <2>2. ASSUME NEW i \in Invitation, Expire(i) PROVE Covered
    BY <2>2 DEF Expire, TypeOK, InvitationRow, Live, Pending, Sent
  <2>3. ASSUME NEW kind \in Kind, NEW i \in Invitation, Replay(kind, i) PROVE Covered
    BY <2>3 DEF Replay
  <2>4. CASE Read
    BY <2>4 DEF Read
  <2> QED BY <2>1, <2>2, <2>3, <2>4
          DEF Next, Invite, RevokeInvitation, Accept, Decline, ChangeMember, Leave, ChangeRole, Rename
<1>2. IInv => TypeOK
  BY DEF IInv
<1> HIDE DEF Covered
<1>3. Spec => [][Covered]_vars
  BY <1>1, <1>2, Invariance, PTL DEF Spec
<1> QED BY <1>3 DEF Covered, VersionCoversMembers
=============================================================================
