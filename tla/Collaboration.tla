---------------------------- MODULE Collaboration ----------------------------
(***************************************************************************)
(* Sharing one workspace (collaboration.rs): its members, the invitations  *)
(* to it, and the answers an idempotency key keeps.  Every handler runs in *)
(* one write transaction under the workspace lock and is one action; so is *)
(* the retry of a request, which is authorized again and then answered     *)
(* with the saved response.                                                *)
(*                                                                         *)
(* A request carries the version its page showed and is refused when the   *)
(* workspace has moved on, so only requests with the current version act.  *)
(* An invitation's own version is 1 for as long as it is pending.          *)
(***************************************************************************)
EXTENDS Naturals

CONSTANTS
  Person,       \* Tachyon accounts
  Colleague,    \* those who ever act in the workspace's tenant
  Invitation,   \* identities of invitations
  NULL,         \* no row, no answer
  MaxVersion    \* bound: how often the workspace is saved

ASSUME ColleagueAssumption == Colleague \subseteq Person
ASSUME BoundAssumption == MaxVersion \in Nat

VARIABLES
  role,         \* memberships: the role of each person, "none" when not a member
  invitation,   \* the invitations table
  version,      \* workspaces.body.version
  saved,        \* idempotency: the responses kept, as <<kind, invitation>>
  answer        \* the response of the last step, NULL when it says nothing here

vars == <<role, invitation, version, saved, answer>>

Role == {"owner", "editor", "viewer", "none"}
Kind == {"invite", "accept"}

InvitationRow ==
  [target    : Person,
   role      : {"editor", "viewer"},
   status    : {"pending", "accepted", "declined", "revoked"},
   createdBy : Person,
   expired   : BOOLEAN]       \* expires_at has passed

ASSUME NullAssumption == NULL \notin InvitationRow /\ NULL \notin Kind \X Invitation

TypeOK ==
  /\ role \in [Person -> Role]
  /\ invitation \in [Invitation -> InvitationRow \cup {NULL}]
  /\ version \in Nat
  /\ saved \subseteq Kind \X Invitation
  /\ answer \in (Kind \X Invitation) \cup {NULL}

Member(p) == role[p] # "none"
Owner(p) == p \in Colleague /\ role[p] = "owner"

Sent == {i \in Invitation : invitation[i] # NULL}
Pending(i) == i \in Sent /\ invitation[i].status = "pending"

(* invitation_row: a pending row past its end is shown as expired. *)
Live(i) == Pending(i) /\ ~invitation[i].expired

(* POST /v1/workspaces: the creator is its only member. *)
Init ==
  /\ \E p \in Colleague : role = [q \in Person |-> IF q = p THEN "owner" ELSE "none"]
  /\ invitation = [i \in Invitation |-> NULL]
  /\ version = 1
  /\ saved = {}
  /\ answer = NULL

(* save_workspace: every change of members or invitations moves the version. *)
SaveWorkspace == version < MaxVersion /\ version' = version + 1

(* The response of a mutation, kept under its idempotency key. *)
Respond(kind, i) ==
  /\ answer' = <<kind, i>>
  /\ saved' = saved \cup {<<kind, i>>}

Silently == answer' = NULL /\ UNCHANGED saved

-----------------------------------------------------------------------------
(* validate_role(allow_owner = false) *)
InvitedRole == {"editor", "viewer"}

Invite(p, target, r, i) ==
  /\ Owner(p)
  /\ ~Member(target)
  /\ ~\E j \in Invitation : Live(j) /\ invitation[j].target = target
  /\ invitation[i] = NULL
  /\ invitation' = [invitation EXCEPT ![i] =
        [target |-> target, role |-> r, status |-> "pending",
         createdBy |-> p, expired |-> FALSE]]
  /\ SaveWorkspace
  /\ Respond("invite", i)
  /\ UNCHANGED role

(* An owner withdraws one that is pending, expired or not. *)
RevokeInvitation(p, i) ==
  /\ Owner(p)
  /\ Pending(i)
  /\ invitation' = [invitation EXCEPT ![i].status = "revoked"]
  /\ SaveWorkspace
  /\ Silently
  /\ UNCHANGED role

(* authorize_route and the checks behind the lock: the person is acting in *)
(* the workspace's tenant, the invitation is live, the inviter still owns. *)
Redeemable(i) ==
  /\ Live(i)
  /\ invitation[i].target \in Colleague
  /\ role[invitation[i].createdBy] = "owner"

(* Mutant: joining is not counted as a change of the workspace. *)
AcceptQuietly(i) ==
  /\ Redeemable(i)
  /\ ~Member(invitation[i].target)
  /\ role' = [role EXCEPT ![invitation[i].target] = invitation[i].role]
  /\ invitation' = [invitation EXCEPT ![i].status = "accepted"]
  /\ Respond("accept", i)
  /\ UNCHANGED version

Accept(i) ==
  /\ Redeemable(i)
  /\ ~Member(invitation[i].target)
  /\ role' = [role EXCEPT ![invitation[i].target] = invitation[i].role]
  /\ invitation' = [invitation EXCEPT ![i].status = "accepted"]
  /\ SaveWorkspace
  /\ Respond("accept", i)

Decline(i) ==
  /\ Redeemable(i)
  /\ invitation' = [invitation EXCEPT ![i].status = "declined"]
  /\ SaveWorkspace
  /\ Silently
  /\ UNCHANGED role

-----------------------------------------------------------------------------
(* Mutant: only demoting the last owner is refused, not removing them. *)
KeepsAnOwnerIfDemoted(target, next) ==
  role[target] = "owner" /\ next \in {"editor", "viewer"} =>
     \E q \in Person \ {target} : role[q] = "owner"

(* LAST_OWNER *)
KeepsAnOwner(target, next) ==
  role[target] = "owner" /\ next # "owner" =>
     \E q \in Person \ {target} : role[q] = "owner"

(* Mutants: demoting leaves invitations standing; removing leaves the      *)
(* accepted invitation as it was.                                          *)
RevokedOnlyByRemoval(row, target, next) ==
  /\ next = "none"
  /\ \/ row.target = target /\ row.status \in {"pending", "accepted"}
     \/ row.createdBy = target /\ row.status = "pending"

RevokedWhilePending(row, target, next) ==
  /\ row.status = "pending"
  /\ \/ next = "none" /\ row.target = target
     \/ next # "owner" /\ row.createdBy = target

(* The invitations that go when target becomes next: on removal their own, *)
(* used or not, and the ones they sent once they no longer own.            *)
RevokedBy(row, target, next) ==
  \/ next = "none" /\ row.target = target /\ row.status \in {"pending", "accepted"}
  \/ next # "owner" /\ row.createdBy = target /\ row.status = "pending"

(* change_member; "none" removes. *)
ChangeRole(target, next) ==
  /\ Member(target)
  /\ KeepsAnOwner(target, next)
  /\ role' = [role EXCEPT ![target] = next]
  /\ invitation' = [i \in Invitation |->
        IF i \in Sent /\ RevokedBy(invitation[i], target, next)
        THEN [invitation[i] EXCEPT !.status = "revoked"]
        ELSE invitation[i]]
  /\ SaveWorkspace
  /\ Silently

ChangeMember(p, target, next) == Owner(p) /\ ChangeRole(target, next)
Leave(p) == p \in Colleague /\ ChangeRole(p, "none")

(* PATCH of the workspace: its name or timezone. *)
Rename(p) ==
  /\ Owner(p)
  /\ SaveWorkspace
  /\ Silently
  /\ UNCHANGED <<role, invitation>>

-----------------------------------------------------------------------------
(* Mutant: a retry is answered from the table, whatever happened since. *)
ReplayUnchecked(kind, i) == TRUE

(* authorize_route and authorize_replay, before a saved response is given  *)
(* back: the inviter still owns and the invitation is still live; the one  *)
(* who joined is still a member.                                           *)
MayReplay(kind, i) ==
  IF kind = "invite"
    THEN Owner(invitation[i].createdBy) /\ Live(i)
    ELSE /\ invitation[i].status = "accepted"
         /\ invitation[i].target \in Colleague
         /\ Member(invitation[i].target)

Replay(kind, i) ==
  /\ <<kind, i>> \in saved
  /\ MayReplay(kind, i)
  /\ answer' = <<kind, i>>
  /\ UNCHANGED <<role, invitation, version, saved>>

(* Seven days after it was sent. *)
Expire(i) ==
  /\ Live(i)
  /\ invitation' = [invitation EXCEPT ![i].expired = TRUE]
  /\ Silently
  /\ UNCHANGED <<role, version>>

(* A page is read. *)
Read == Silently /\ UNCHANGED <<role, invitation, version>>

Next ==
  \/ \E p, target \in Person, i \in Invitation, r \in InvitedRole :
        Invite(p, target, r, i)
  \/ \E p \in Person, i \in Invitation : RevokeInvitation(p, i)
  \/ \E i \in Invitation : Accept(i) \/ Decline(i) \/ Expire(i)
  \/ \E p, target \in Person, next \in Role : ChangeMember(p, target, next)
  \/ \E p \in Person : Leave(p) \/ Rename(p)
  \/ Read
  \/ \E kind \in Kind, i \in Invitation : Replay(kind, i)

Spec == Init /\ [][Next]_vars

-----------------------------------------------------------------------------
(* The workspace is never left without an owner, whoever leaves, demotes   *)
(* themselves or removes another, in whatever order.                       *)
AlwaysAnOwner == \E p \in Person : role[p] = "owner"

(* Nobody gets in on the word of a person who lost the right to invite:    *)
(* the sender of every pending invitation owns the workspace now.          *)
PendingFromOwner ==
  \A i \in Invitation : Pending(i) => role[invitation[i].createdBy] = "owner"

(* An invitation reads as accepted only while it is what the person is a   *)
(* member by, so it cannot vouch for someone who was removed.              *)
AcceptedIsMember ==
  \A i \in Invitation :
     i \in Sent /\ invitation[i].status = "accepted" => Member(invitation[i].target)

(* A person has one open invitation at most, and none once they are in;    *)
(* otherwise removing them would leave a second way back.                  *)
OneWayIn ==
  \A i \in Invitation : Live(i) =>
     /\ ~Member(invitation[i].target)
     /\ \A j \in Invitation : Live(j) /\ invitation[j].target = invitation[i].target => i = j

(* An invitation addressed across a tenant boundary is never redeemed. *)
MembersAreColleagues == \A p \in Person : Member(p) => p \in Colleague

(* "Replaying a previously accepted invitation cannot restore revoked      *)
(* access", and an invitation is not announced after it became unusable:   *)
(* an answer, first or repeated, is true when it is given.                 *)
AnswersAreTrue ==
  \A i \in Invitation :
     /\ answer = <<"invite", i>> => Live(i) /\ role[invitation[i].createdBy] = "owner"
     /\ answer = <<"accept", i>> => i \in Sent /\ Member(invitation[i].target)

(* What makes these inductive: a kept response is of an invitation sent. *)
SavedAreSent == \A kind \in Kind, i \in Invitation : <<kind, i>> \in saved => i \in Sent

IInv ==
  /\ TypeOK
  /\ SavedAreSent
  /\ AlwaysAnOwner
  /\ PendingFromOwner
  /\ AcceptedIsMember
  /\ OneWayIn
  /\ MembersAreColleagues
  /\ AnswersAreTrue

(* Whatever changes the members, or decides or withdraws an invitation,    *)
(* moves the version of the workspace, which the routes of its settings    *)
(* are sent with and checked against.                                      *)
VersionCoversMembers ==
  [][\/ version' > version
     \/ /\ role' = role
        /\ \A i \in Sent : invitation'[i].status = invitation[i].status]_vars
=============================================================================
